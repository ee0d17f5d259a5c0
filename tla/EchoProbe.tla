------------------------------- MODULE EchoProbe -------------------------------
(***************************************************************************)
(* Keystroke-to-echo latency through a multiplexer, the four ways the      *)
(* tools measure it:                                                       *)
(*   "tokens"    echo_latency.py and load_latency.py: write a token of a   *)
(*               cycle, wait for its bytes on the host side, erase it      *)
(*               blindly;                                                  *)
(*   "flood"     flood.py: a command that ends in a marker of its repeat,  *)
(*               which stays on the screen;                                *)
(*   "verified"  echo_path.py's controls: a VT oracle confirms that the    *)
(*               tilde appeared, and that its erase did, before going on;  *)
(*   "headless"  the headless client's trace: the first frame of the pane  *)
(*               after each text input and before the next input.          *)
(* The multiplexer echoes what it is sent byte by byte, in order and with  *)
(* any delay, and may repaint the line at any time.  An erase leaves       *)
(* nothing in the visible bytes.                                           *)
(***************************************************************************)
EXTENDS Integers, Sequences, FiniteSets, SequencesExt

CONSTANTS
  Tokens,        \* the cycle of tokens (8 of two bytes, 4 of one)
  EchoSamples,   \* --samples
  MaxRepaints    \* bound: repaints of the line

ASSUME EchoAssumption ==
  /\ Tokens \in Seq(Seq(STRING)) /\ Len(Tokens) > 0 /\ IsInjective(Tokens)
  /\ \A k \in 1 .. Len(Tokens) : Len(Tokens[k]) > 0
  /\ EchoSamples \in Nat \ {0} /\ MaxRepaints \in Nat

VARIABLES
  e_mode,       \* "none" before the probe starts
  e_pc,         \* "idle", "launching", "ready", "waiting", "erasing", "gap", "done", "raised"
  e_sample,     \* the current sample, from 1
  e_in,         \* bytes written to the multiplexer, not yet echoed
  e_line,       \* the cells of the line
  e_out,        \* frames for the host, not yet read: what each paints, the line, the input's sample
  e_buf,        \* buf: the cells read since the token was written
  e_origin,     \* sample -> the cells that it was counted on, none for a timeout
  e_repaints,
  e_trace       \* the headless client's trace

echoVars == <<e_mode, e_pc, e_sample, e_in, e_line, e_out, e_buf, e_origin, e_repaints, e_trace>>

Samples == 1 .. EchoSamples

EchoInit ==
  /\ e_mode = "none" /\ e_pc = "idle" /\ e_sample = 1
  /\ e_in = <<>> /\ e_line = <<>> /\ e_out = <<>> /\ e_buf = <<>>
  /\ e_origin = [i \in {} |-> <<>>] /\ e_repaints = 0 /\ e_trace = <<>>

--------------------------------------------------------------------------------
(* Mutant: every sample types the same token. *)
SameToken(i) == Tokens[1]

(* The token of a sample: tokens[i % len(tokens)]. *)
TokenOf(i) == Tokens[((i - 1) % Len(Tokens)) + 1]

(* The bytes of a sample; what the other probes write counts as one. *)
TextLen(i) == IF e_mode = "tokens" THEN Len(TokenOf(i)) ELSE 1

(* A cell shows a byte of a sample.  An input types it or erases it: the   *)
(* token's bytes in one write, a backspace for each in another.            *)
Cell(i, k) == [sample |-> i, at |-> k]
Key(i, k, erase) == [sample |-> i, at |-> k, erase |-> erase]
Typed(i) == [k \in 1 .. TextLen(i) |-> Key(i, k, FALSE)]
Erased(i) == [k \in 1 .. TextLen(i) |-> Key(i, TextLen(i) + 1 - k, TRUE)]
After(line, x) ==
  IF ~x.erase THEN Append(line, Cell(x.sample, x.at)) ELSE IF line = <<>> THEN line ELSE Front(line)

StartProbe ==
  /\ e_pc = "idle"
  /\ e_mode' \in {"tokens", "flood", "verified", "headless"}
  /\ e_pc' = IF e_mode' = "headless" THEN "launching" ELSE "ready"
  /\ UNCHANGED <<e_sample, e_in, e_line, e_out, e_buf, e_origin, e_repaints, e_trace>>

(* The multiplexer paints the echo of the next byte. *)
MuxEcho ==
  /\ e_in # <<>> /\ e_pc \notin {"done", "raised"}
  /\ LET x == Head(e_in)
     IN /\ e_line' = After(e_line, x)
        /\ e_out' = Append(e_out, [paints |-> IF x.erase THEN <<>> ELSE <<Cell(x.sample, x.at)>>,
                                   line |-> e_line', of |-> x.sample])
  /\ e_in' = Tail(e_in)
  /\ UNCHANGED <<e_mode, e_pc, e_sample, e_buf, e_origin, e_repaints, e_trace>>

MuxRepaint ==
  /\ e_repaints < MaxRepaints /\ e_line # <<>> /\ e_mode # "headless" /\ e_pc \notin {"done", "raised"}
  /\ e_out' = Append(e_out, [paints |-> e_line, line |-> e_line, of |-> Last(e_line).sample])
  /\ e_repaints' = e_repaints + 1
  /\ UNCHANGED <<e_mode, e_pc, e_sample, e_in, e_line, e_buf, e_origin, e_trace>>

--------------------------------------------------------------------------------
(* Mutant: what was read before the token was written is searched too. *)
KeptBuffer == e_buf

(* buf = b"" *)
EmptyBuffer == <<>>

(* The probes on a PTY: write the sample's token or tilde. *)
SendToken ==
  /\ e_pc = "ready" /\ e_mode # "headless"
  /\ e_in' = e_in \o Typed(e_sample) /\ e_buf' = EmptyBuffer
  /\ e_pc' = "waiting"
  /\ UNCHANGED <<e_mode, e_sample, e_line, e_out, e_origin, e_repaints, e_trace>>

(* What a read of the next n frames makes visible. *)
Painted(n) == FlattenSeq([k \in 1 .. n |-> e_out[k].paints])
ReadTo(n) == e_out' = SubSeq(e_out, n + 1, Len(e_out))

(* The token probe erases what it typed and does not await the erase. *)
EraseBlindly == e_in' = IF e_mode = "tokens" THEN e_in \o Erased(e_sample) ELSE e_in

CountedAs(cells) == [i \in DOMAIN e_origin \cup {e_sample} |-> IF i = e_sample THEN cells ELSE e_origin[i]]

(* A cell looks like the k-th byte that is awaited.  A flood's marker      *)
(* carries its repeat: the previous one is still on the screen.            *)
Awaited(cell, k) ==
  IF e_mode = "flood" THEN cell.sample = e_sample
  ELSE TokenOf(cell.sample)[cell.at] = TokenOf(e_sample)[k]

(* token in visible(buf): where it occurs, in whatever paints. *)
Occurs(buf) ==
  {p \in 0 .. Len(buf) - TextLen(e_sample) : \A k \in 1 .. TextLen(e_sample) : Awaited(buf[p + k], k)}

(* A read that ends the wait: the token is in the visible bytes since it   *)
(* was written.  A read without it leaves the probe waiting.               *)
ReadToken ==
  /\ e_pc = "waiting" /\ e_mode \in {"tokens", "flood"} /\ e_out # <<>>
  /\ \E n \in 1 .. Len(e_out) :
       /\ ReadTo(n) /\ e_buf' = e_buf \o Painted(n)
       /\ LET found == Occurs(e_buf')
          IN IF found = {}
             THEN UNCHANGED <<e_pc, e_in, e_origin>>
             ELSE /\ e_origin' = CountedAs([k \in 1 .. TextLen(e_sample) |-> e_buf'[Min(found) + k]])
                  /\ EraseBlindly
                  /\ e_pc' = "gap"
  /\ UNCHANGED <<e_mode, e_sample, e_line, e_repaints, e_trace>>

(* Two seconds (a flood's 60) passed: a timeout is counted and the probe   *)
(* goes on all the same.                                                   *)
TokenTimeout ==
  /\ e_pc = "waiting" /\ e_mode \in {"tokens", "flood"}
  /\ e_origin' = CountedAs(<<>>)
  /\ EraseBlindly
  /\ e_pc' = "gap"
  /\ UNCHANGED <<e_mode, e_sample, e_line, e_out, e_buf, e_repaints, e_trace>>

(* Mutant: the erase is sent but not verified. *)
ShownUnverified(n) ==
  /\ e_pc = "waiting" /\ Len(e_out[n].line) = 1
  /\ e_origin' = CountedAs(e_out[n].line) /\ e_in' = e_in \o Erased(e_sample)
  /\ e_pc' = "gap"

(* exchange() of the tilde: the oracle shows one more than at the start.   *)
(* The second exchange, of its erase, follows.                             *)
Shown(n) ==
  /\ e_pc = "waiting" /\ Len(e_out[n].line) = 1
  /\ e_origin' = CountedAs(e_out[n].line) /\ e_in' = e_in \o Erased(e_sample)
  /\ e_pc' = "erasing"

Gone(n) == e_pc = "erasing" /\ e_out[n].line = <<>> /\ e_pc' = "gap" /\ UNCHANGED <<e_in, e_origin>>

(* A read of exchange(): frames are fed to the oracle one by one or together. *)
ReadVerified ==
  /\ e_pc \in {"waiting", "erasing"} /\ e_mode = "verified" /\ e_out # <<>>
  /\ \E n \in 1 .. Len(e_out) :
       /\ ReadTo(n)
       /\ \/ Shown(n)
          \/ Gone(n)
          \/ ~(e_pc = "waiting" /\ Len(e_out[n].line) = 1) /\ ~(e_pc = "erasing" /\ e_out[n].line = <<>>)
             /\ UNCHANGED <<e_pc, e_in, e_origin>>
  /\ UNCHANGED <<e_mode, e_sample, e_line, e_buf, e_repaints, e_trace>>

(* exchange() raises after two seconds; the measurement is abandoned. *)
VerifiedTimeout ==
  /\ e_pc \in {"waiting", "erasing"} /\ e_mode = "verified"
  /\ e_pc' = "raised"
  /\ UNCHANGED <<e_mode, e_sample, e_in, e_line, e_out, e_buf, e_origin, e_repaints, e_trace>>

(* drain() and consume(): whatever arrives during the gap is read. *)
ReadInGap ==
  /\ e_mode # "headless" /\ e_pc = "gap" /\ e_out # <<>>
  /\ \E n \in 1 .. Len(e_out) : ReadTo(n)
  /\ UNCHANGED <<e_mode, e_pc, e_sample, e_in, e_line, e_buf, e_origin, e_repaints, e_trace>>

EndGap ==
  /\ e_mode # "headless" /\ e_pc = "gap"
  /\ e_sample' = e_sample + 1
  /\ e_pc' = IF e_sample = EchoSamples THEN "done" ELSE "ready"
  /\ UNCHANGED <<e_mode, e_in, e_line, e_out, e_buf, e_origin, e_repaints, e_trace>>

--------------------------------------------------------------------------------
(* wait_ready(): the client says that it admits input, or the probe raises. *)
WaitReady ==
  /\ e_pc = "launching" /\ e_pc' \in {"ready", "raised"}
  /\ UNCHANGED <<e_mode, e_sample, e_in, e_line, e_out, e_buf, e_origin, e_repaints, e_trace>>

(* The headless client takes an input line, records it and passes it on. *)
Take(x) ==
  /\ e_trace' = Append(e_trace, [kind |-> "input", sample |-> x.sample, erase |-> x.erase])
  /\ e_in' = Append(e_in, x)
  /\ UNCHANGED <<e_mode, e_line, e_out, e_buf, e_origin, e_repaints>>

(* measure_headless() sends a token, sleeps, sends the backspaces that     *)
(* erase it, sleeps; it awaits neither.                                    *)
TakeText ==
  /\ e_mode = "headless" /\ e_pc = "ready"
  /\ Take(Key(e_sample, 1, FALSE)) /\ e_pc' = "gap" /\ UNCHANGED e_sample

TakeBackspace ==
  /\ e_mode = "headless" /\ e_pc = "gap"
  /\ Take(Key(e_sample, 1, TRUE))
  /\ e_sample' = e_sample + 1 /\ e_pc' = IF e_sample = EchoSamples THEN "waiting" ELSE "ready"

(* It presents a frame of the pane: everything echoed so far.  The trace   *)
(* has no more than the frame; the oldest echo in it is history.           *)
PresentFrame ==
  /\ e_mode = "headless" /\ e_out # <<>> /\ e_pc \in {"ready", "gap", "waiting"}
  /\ e_trace' = Append(e_trace, [kind |-> "frame", sample |-> e_out[1].of, erase |-> FALSE])
  /\ ReadTo(Len(e_out))
  /\ UNCHANGED <<e_mode, e_pc, e_sample, e_in, e_line, e_buf, e_origin, e_repaints>>

(* echo_latencies(): a sample is counted on the frame that follows its     *)
(* token before any other input; without one it timed out.                 *)
CountedOn(trace, i) ==
  LET input == SelectInSeq(trace, LAMBDA x : x.kind = "input" /\ x.sample = i /\ ~x.erase)
  IN IF input < Len(trace) /\ trace[input + 1].kind = "frame" THEN <<Cell(trace[input + 1].sample, 1)>> ELSE <<>>

(* quit(): the client writes its trace and leaves.  echo_latency.py and    *)
(* echo_path.py raise when it failed.                                      *)
QuitHeadless ==
  /\ e_mode = "headless" /\ e_pc = "waiting"
  /\ \/ e_pc' = "done" /\ e_origin' = [i \in Samples |-> CountedOn(e_trace, i)]
     \/ e_pc' = "raised" /\ UNCHANGED e_origin
  /\ UNCHANGED <<e_mode, e_sample, e_in, e_line, e_out, e_buf, e_repaints, e_trace>>

EchoNext ==
  \/ StartProbe \/ MuxEcho \/ MuxRepaint
  \/ SendToken \/ ReadToken \/ TokenTimeout \/ ReadVerified \/ VerifiedTimeout \/ ReadInGap \/ EndGap
  \/ WaitReady \/ TakeText \/ TakeBackspace \/ PresentFrame \/ QuitHeadless

--------------------------------------------------------------------------------
(* What a latency is counted on.  The verified probe and the flood never   *)
(* mistake another sample's echo for the sample's own, whatever the delays *)
(* and repaints (the comment at flood.py:94).  The token probe takes the   *)
(* whole echo of another sample only when that one is at least a cycle of  *)
(* tokens late; with tokens of one byte (--single, load_latency.py) that   *)
(* is all it can mistake, with two it also finds its bytes across paints   *)
(* of other samples, at any time.  And in every mode the samples are       *)
(* counted in the order of what they are counted on: once one was counted  *)
(* on an echo, no later one is on an echo before that.                     *)
OwnEcho ==
  /\ e_mode \in {"verified", "flood"} =>
       \A i \in DOMAIN e_origin : \A k \in 1 .. Len(e_origin[i]) : e_origin[i][k].sample = i
  /\ e_mode = "tokens" =>
       \A i \in DOMAIN e_origin : \A o \in Samples \ {i} :
         e_origin[i] = [k \in 1 .. Len(TokenOf(o)) |-> Cell(o, k)] => o <= i - Len(Tokens)
  /\ \A i, j \in DOMAIN e_origin : i < j =>
       \A k \in 1 .. Len(e_origin[i]), l \in 1 .. Len(e_origin[j]) :
         e_origin[i][k].sample <= e_origin[j][l].sample

================================================================================
