------------------------------ MODULE NativeBench ------------------------------
(***************************************************************************)
(* tools/gui_tui_latency.py: rounds of native latency measurements of two  *)
(* or three applications, in an order that changes with the round, with a  *)
(* retry for a host that opened no window, and tools/                      *)
(* terminal_bench_report.py, which pairs the rounds of the applications.   *)
(***************************************************************************)
EXTENDS Integers, Sequences, FiniteSets, SequencesExt

CONSTANTS
  Modes,          \* the applications compared, in order; the first is the reference
  NativeRounds,   \* --rounds
  Attempts,       \* startups tried for one measurement (3)
  NativeTimes     \* bound: the p50 a run may have

ASSUME NativeAssumption ==
  /\ Modes \in Seq(STRING) /\ Len(Modes) >= 2 /\ IsInjective(Modes)
  /\ NativeRounds \in Nat \ {0} /\ Attempts \in Nat \ {0} /\ NativeTimes \subseteq Nat

VARIABLES
  n_phase,      \* "idle", "measuring", "compared", "raised", "reported"
  n_results,    \* runs.json: the accepted measurements, in order
  n_attempt,    \* startups of the current measurement that were rejected
  n_rejected,   \* rejected.json: the outcomes retried
  n_report      \* round -> the difference the report pairs there

nativeVars == <<n_phase, n_results, n_attempt, n_rejected, n_report>>

NativeInit ==
  /\ n_phase = "idle" /\ n_results = <<>> /\ n_attempt = 0 /\ n_rejected = {} /\ n_report = <<>>

--------------------------------------------------------------------------------
(* Mutant: the offset advances with every round, as in placement_bench.py. *)
RotatedEveryRound(round) ==
  LET offset == round % Len(Modes)
      order == SubSeq(Modes, offset + 1, Len(Modes)) \o SubSeq(Modes, 1, offset)
  IN IF round % 2 = 1 THEN Reverse(order) ELSE order

(* The cyclic permutation of a round, reversed in odd rounds. *)
RoundOrder(round) ==
  LET offset == (round \div 2) % Len(Modes)
      order == SubSeq(Modes, offset + 1, Len(Modes)) \o SubSeq(Modes, 1, offset)
  IN IF round % 2 = 1 THEN Reverse(order) ELSE order

Round == Len(n_results) \div Len(Modes)
Mode == RoundOrder(Round)[(Len(n_results) % Len(Modes)) + 1]

(* The arguments are refused, the directory exists or a tool of the setup  *)
(* fails; or the measurements begin.                                       *)
StartComparison ==
  /\ n_phase = "idle" /\ n_phase' \in {"measuring", "raised"}
  /\ UNCHANGED <<n_results, n_attempt, n_rejected, n_report>>

(* background_load(): there is a background fixture, and each has rates    *)
(* between its checkpoints, all of them near the one asked for.  A         *)
(* checkpoint that did not advance raises.                                 *)
RateMet(load) == load # {} /\ \A rates \in load : rates # {} /\ rates \subseteq {"near"}

(* cleanup_host(): three scans for the private host, each followed by a    *)
(* signal; the host that the third one still found has survived.           *)
HostGone(found) == found < 3

(* What one launch of measure() leaves behind; `found` is the number of    *)
(* scans that found the host.                                              *)
Complete == [exit |-> "zero", result |-> TRUE, failed |-> 0, panes |-> 1, samples |-> "all",
             receipts |-> TRUE, throughput |-> TRUE, load |-> {{"near"}}, found |-> 2]

NoWindow == [Complete EXCEPT !.failed = 10, !.panes = 0, !.samples = "none"]

Outcomes ==
  {Complete, NoWindow, [NoWindow EXCEPT !.panes = 1], [NoWindow EXCEPT !.samples = "some"],
   [Complete EXCEPT !.exit = "timeout"], [Complete EXCEPT !.exit = "status"],
   [Complete EXCEPT !.result = FALSE], [Complete EXCEPT !.failed = 1],
   [Complete EXCEPT !.samples = "some"], [Complete EXCEPT !.receipts = FALSE],
   [Complete EXCEPT !.throughput = FALSE], [Complete EXCEPT !.load = {{}}],
   [Complete EXCEPT !.load = {{"near"}, {"near", "off"}}], [Complete EXCEPT !.load = {{"stuck"}}],
   [Complete EXCEPT !.found = 3], [NoWindow EXCEPT !.found = 3]}

(* The process exited well, the cleanup after it did not raise, and there  *)
(* is a result.                                                            *)
Probed(o) == o.exit = "zero" /\ HostGone(o.found) /\ o.result

(* measure() raises a ProbeFailure, after those checks. *)
ProbeFailure(o) == Probed(o) /\ (o.failed # 0 \/ o.samples # "all")

(* It returns the result when the receipts, too, are what was asked for. *)
Returned(o) ==
  /\ Probed(o) /\ ~ProbeFailure(o)
  /\ o.receipts /\ o.throughput /\ RateMet(o.load)

(* A launch with no window and no input may be tried again. *)
Retryable(o) == ProbeFailure(o) /\ o.failed = 10 /\ o.panes = 0 /\ o.samples = "none"

Measuring == n_phase = "measuring" /\ Round < NativeRounds

(* runs.json is rewritten with a returned result. *)
Accept ==
  /\ Measuring
  /\ \E o \in Outcomes, t \in NativeTimes :
       /\ Returned(o)
       /\ n_results' = Append(n_results, [mode |-> Mode, round |-> Round, p50 |-> t])
  /\ n_attempt' = 0
  /\ UNCHANGED <<n_phase, n_rejected, n_report>>

Retry ==
  /\ Measuring /\ n_attempt < Attempts - 1
  /\ \E o \in Outcomes : Retryable(o) /\ n_rejected' = n_rejected \cup {o}
  /\ n_attempt' = n_attempt + 1
  /\ UNCHANGED <<n_phase, n_results, n_report>>

(* Any other failure, or the last attempt's, ends the comparison. *)
Raise ==
  /\ Measuring
  /\ \E o \in Outcomes : ~Returned(o) /\ (Retryable(o) => n_attempt = Attempts - 1)
  /\ n_phase' = "raised"
  /\ UNCHANGED <<n_results, n_attempt, n_rejected, n_report>>

Compare ==
  /\ n_phase = "measuring" /\ Round = NativeRounds
  /\ n_phase' = "compared"
  /\ UNCHANGED <<n_results, n_attempt, n_rejected, n_report>>

(* load_runs() refuses a second run of one mode and round. *)
Identities(runs) == {<<runs[i].mode, runs[i].round>> : i \in DOMAIN runs}

(* paired_statistics() on the rounds both modes have. *)
PairedRuns(runs, reference, candidate) ==
  LET Of(mode) == {runs[i] : i \in {j \in DOMAIN runs : runs[j].mode = mode}}
      rounds == {x.round : x \in Of(reference)} \cap {x.round : x \in Of(candidate)}
      P50(mode, r) == (CHOOSE x \in Of(mode) : x.round = r).p50
  IN [r \in rounds |-> P50(candidate, r) - P50(reference, r)]

Report ==
  /\ n_phase = "compared"
  /\ Cardinality(Identities(n_results)) = Len(n_results)
  /\ n_phase' = "reported"
  /\ n_report' = [i \in 2 .. Len(Modes) |-> PairedRuns(n_results, Modes[1], Modes[i])]
  /\ UNCHANGED <<n_results, n_attempt, n_rejected>>

NativeNext == StartComparison \/ Accept \/ Retry \/ Raise \/ Compare \/ Report

--------------------------------------------------------------------------------
(* Over twice as many rounds as there are applications, every application  *)
(* runs in every place of the order equally often, however many startups   *)
(* were retried (the comment at gui_tui_latency.py:300); and no retry      *)
(* throws a timing away (the comment at gui_tui_latency.py:315).           *)
OrderBalanced ==
  /\ \A o \in n_rejected : o.samples = "none"
  /\ n_phase \in {"compared", "reported"} /\ NativeRounds % (2 * Len(Modes)) = 0 =>
       \A m \in ToSet(Modes), place \in 0 .. Len(Modes) - 1 :
         Cardinality({i \in DOMAIN n_results :
                        n_results[i].mode = m /\ (i - 1) % Len(Modes) = place})
           = NativeRounds \div Len(Modes)

================================================================================
