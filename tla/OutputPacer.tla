------------------------------ MODULE OutputPacer ------------------------------
(***************************************************************************)
(* The paced background producer of tools/terminal_bench_fixture.py:       *)
(* flood_background() waits for its slot, writes a block, which a slow     *)
(* terminal may hold up for any time, and advances the deadline.  Time is  *)
(* in ticks; a block lasts Interval ticks at the requested rate.           *)
(***************************************************************************)
EXTENDS Integers, Sequences

CONSTANTS
  Interval,     \* emitted_bytes / bytes_per_second
  MaxTime       \* bound: ticks of a run

ASSUME PacerAssumption == Interval \in Nat \ {0} /\ MaxTime \in Nat

VARIABLES
  o_pc,         \* "wait", "writing"
  o_now,        \* time.monotonic()
  o_deadline,   \* OutputPacer.deadline
  o_starts      \* history: when each write started

pacerVars == <<o_pc, o_now, o_deadline, o_starts>>

PacerInit == o_pc = "wait" /\ o_now = 0 /\ o_deadline = 0 /\ o_starts = <<>>

Tick == o_now < MaxTime /\ o_now' = o_now + 1 /\ UNCHANGED <<o_pc, o_deadline, o_starts>>

(* wait() returns no sooner than the deadline; the write begins. *)
WriteBlock ==
  /\ o_pc = "wait" /\ o_now >= o_deadline
  /\ o_pc' = "writing" /\ o_starts' = Append(o_starts, o_now)
  /\ UNCHANGED <<o_now, o_deadline>>

(* Mutant: the slots missed during a stall are made up for. *)
NextSlotInLine == o_deadline' = o_deadline + Interval

(* advance(): a slot that has passed is dropped. *)
NextSlot ==
  o_deadline' = IF o_deadline + Interval > o_now THEN o_deadline + Interval ELSE o_now + Interval

(* write_all() has returned. *)
Advance ==
  /\ o_pc = "writing" /\ o_pc' = "wait" /\ NextSlot
  /\ UNCHANGED <<o_now, o_starts>>

PacerNext == Tick \/ WriteBlock \/ Advance

(* A stalled writer does not catch up with a burst                         *)
(* (terminal_bench_fixture.py:115): any n + 1 consecutive writes after     *)
(* one write take more than n slots from it, whatever was held up before.  *)
NoBurst ==
  \A i, j \in DOMAIN o_starts :
    i < j => o_starts[j] - o_starts[i] > (j - i - 1) * Interval

================================================================================
