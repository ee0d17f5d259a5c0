---------------------------- MODULE PlacementBench ----------------------------
(***************************************************************************)
(* tools/placement_bench.py: a paired, rotated comparison of variants of   *)
(* one benchmark executable.  Every round runs every variant once; a run   *)
(* that failed is kept but does not count; the statistics compare a        *)
(* variant with the reference's run of the same round; a session may be    *)
(* interrupted and still saves what it has; a replay recomputes the        *)
(* statistics of a saved session.                                          *)
(*                                                                         *)
(* A benchmark's output is abstracted to what parse_run() decides on: how  *)
(* many lines of each type there are, and the fields it compares.          *)
(***************************************************************************)
EXTENDS Integers, Sequences, FiniteSets, SequencesExt

CONSTANTS
  Variants,      \* the names of the variants in order; the first is the reference
  Rounds,        \* --rounds
  BenchCases,    \* the cases the benchmark's filter selects
  BenchTimes,    \* bound: the times a case may report
  MaxFaults,     \* bound: runs of a session that do not go as usual
  None

ASSUME PlacementAssumption ==
  /\ Variants \in Seq(STRING) /\ Len(Variants) >= 2 /\ IsInjective(Variants)
  /\ Rounds \in Nat \ {0} /\ BenchTimes \subseteq Nat /\ IsFiniteSet(BenchTimes) /\ BenchTimes # {}
  /\ BenchCases # {} /\ None \notin BenchTimes /\ MaxFaults \in Nat

VARIABLES
  p_phase,      \* "idle", "building", "measuring", "saved", "lost", "replayed", "refused"
  p_runs,       \* results["runs"]
  p_outputs,    \* history: what the executable did in each of those runs
  p_saved,      \* results.json, None before it is written
  p_matches     \* what the last replay printed

placementVars == <<p_phase, p_runs, p_outputs, p_saved, p_matches>>

Reference == Head(Variants)
VariantNames == ToSet(Variants)
RoundIndices == 0 .. Rounds - 1

PlacementInit ==
  /\ p_phase = "idle" /\ p_runs = <<>> /\ p_outputs = <<>>
  /\ p_saved = None /\ p_matches = TRUE

--------------------------------------------------------------------------------
(* What one run of the executable may leave behind.                        *)

GoodCase(t) == [benchmarks |-> 1, whole |-> TRUE, time |-> t, refused |-> 0,
                quiet |-> TRUE, sends_pending |-> 0, live |-> 0, shape |-> "usual",
                records |-> "as the shape needs"]

GoodOutput(t) == [exit |-> "zero", junk |-> 0, metadata |-> <<"usual">>, policy |-> <<"asked">>,
                  layout |-> "usual", cases |-> [c \in BenchCases |-> GoodCase(t)]]

NoCases == [c \in {} |-> GoodCase(0)]
Silent == [exit |-> "launch_error", junk |-> 0, metadata |-> <<>>, policy |-> <<>>,
           layout |-> "none", cases |-> NoCases]

(* One thing went wrong in an otherwise good run. *)
BadCases(k) ==
  {[k EXCEPT !.benchmarks = 2], [k EXCEPT !.whole = FALSE], [k EXCEPT !.refused = 1],
   [k EXCEPT !.quiet = FALSE], [k EXCEPT !.sends_pending = 1], [k EXCEPT !.live = 1],
   [k EXCEPT !.records = "other"]}

BadOutputs(o) ==
  {[o EXCEPT !.exit = "status"], [o EXCEPT !.exit = "timed_out"], [o EXCEPT !.junk = 1],
   [o EXCEPT !.metadata = <<>>], [o EXCEPT !.policy = <<"other">>], [o EXCEPT !.layout = "none"],
   [o EXCEPT !.cases = NoCases], Silent}
  \cup {[o EXCEPT !.cases[c] = k] : c \in BenchCases, k \in BadCases(GoodCase(Max(BenchTimes)))}

(* A run that counts but does not share the others' setup. *)
OddOutputs(o) ==
  {[o EXCEPT !.metadata = <<"other">>], [o EXCEPT !.layout = "other"]}
  \cup {[o EXCEPT !.cases[c].shape = "other"] : c \in BenchCases}
  \cup {[o EXCEPT !.cases = [x \in BenchCases \ {c} |-> o.cases[x]]] : c \in BenchCases}

UsualOutputs == {GoodOutput(t) : t \in BenchTimes}
FaultyOutputs == BadOutputs(GoodOutput(Max(BenchTimes))) \cup OddOutputs(GoodOutput(Max(BenchTimes)))
Faults == Cardinality({i \in DOMAIN p_outputs : p_outputs[i] \notin UsualOutputs})

--------------------------------------------------------------------------------
(* parse_case() and parse_run() found no problem. *)
CaseCounts(k) ==
  /\ k.benchmarks = 1 /\ k.whole
  /\ k.refused = 0 /\ k.quiet /\ k.sends_pending = 0 /\ k.live = 0
  /\ k.records = "as the shape needs"

Counts(o) ==
  /\ o.exit = "zero" /\ o.junk = 0
  /\ Len(o.metadata) = 1 /\ o.policy = <<"asked">> /\ o.layout # "none"
  /\ DOMAIN o.cases # {} /\ \A c \in DOMAIN o.cases : CaseCounts(o.cases[c])

(* The row of results["runs"] for an output. *)
Row(round, position, variant, o) ==
  [round |-> round, position |-> position, variant |-> variant,
   status |-> IF Counts(o) THEN "ok" ELSE "failed",
   metadata |-> IF Len(o.metadata) = 1 THEN Head(o.metadata) ELSE None,
   layout_sha256 |-> o.layout,
   cases |-> [c \in DOMAIN o.cases |-> [time |-> o.cases[c].time, shape |-> o.cases[c].shape]]]

(* ordered(): rotate by one place each round, reverse odd rounds. *)
Ordered(round) ==
  LET shift == round % Len(Variants)
      order == SubSeq(Variants, shift + 1, Len(Variants)) \o SubSeq(Variants, 1, shift)
  IN IF round % 2 = 1 THEN Reverse(order) ELSE order

--------------------------------------------------------------------------------
(* paired(): the statistics of a variant's values, one or None per round.  *)
(* The percent changes are kept as the pairs they are computed from.       *)
PairedRounds(values, base) ==
  {r \in RoundIndices : values[r] # None /\ base[r] \notin {None, 0}}

PairedStatistics(values, base) ==
  LET present == {r \in RoundIndices : values[r] # None}
      rounds == PairedRounds(values, base)
  IN [runs |-> Cardinality(present),
      runs_not_counted |-> Rounds - Cardinality(present),
      minimum |-> IF present = {} THEN None ELSE Min({values[r] : r \in present}),
      maximum |-> IF present = {} THEN None ELSE Max({values[r] : r \in present}),
      pairs |-> Cardinality(rounds),
      changes |-> [r \in rounds |-> <<values[r], base[r]>>],
      wins |-> Cardinality({r \in rounds : values[r] < base[r]}),
      losses |-> Cardinality({r \in rounds : values[r] > base[r]}),
      ties |-> Cardinality({r \in rounds : values[r] = base[r]})]

(* Mutant: the series is filled from every run. *)
LastRunOfAny(runs, variant, round) ==
  SelectLastInSeq(runs, LAMBDA x : x.variant = variant /\ x.round = round)

(* The run a loop over results["runs"] leaves in series[variant][round]. *)
LastRun(runs, variant, round) ==
  SelectLastInSeq(runs, LAMBDA x : x.status = "ok" /\ x.variant = variant /\ x.round = round)

Series(runs, case, variant) ==
  [r \in RoundIndices |->
     LET i == LastRun(runs, variant, r)
     IN IF i = 0 \/ case \notin DOMAIN runs[i].cases THEN None ELSE runs[i].cases[case].time]

Derive(runs) ==
  [case \in UNION {DOMAIN runs[i].cases : i \in DOMAIN runs} |->
     [v \in VariantNames |-> PairedStatistics(Series(runs, case, v), Series(runs, case, Reference))]]

(* consistency(): what differs between counted runs. *)
Consistency(runs) ==
  LET counted == {i \in DOMAIN runs : runs[i].status = "ok"}
      Differs(Read(_)) == Cardinality({Read(runs[i]) : i \in counted}) > 1
  IN {x \in {"metadata"} : Differs(LAMBDA run : run.metadata)}
     \cup {x \in {"layout"} : Differs(LAMBDA run : run.layout_sha256)}
     \cup {x \in {"cases"} : Differs(LAMBDA run : DOMAIN run.cases)}
     \cup {c \in BenchCases :
             Cardinality({runs[i].cases[c].shape :
                            i \in {j \in counted : c \in DOMAIN runs[j].cases}}) > 1}

--------------------------------------------------------------------------------
(* validate() and the checks of the output directory and the binary. *)
RefuseArguments ==
  /\ p_phase = "idle" /\ p_phase' = "refused"
  /\ UNCHANGED <<p_runs, p_outputs, p_saved, p_matches>>

(* build() is tried once the output directory exists. *)
MakeOutput ==
  /\ p_phase = "idle" /\ p_phase' \in {"building", "measuring"}
  /\ UNCHANGED <<p_runs, p_outputs, p_saved, p_matches>>

Build ==
  /\ p_phase = "building" /\ p_phase' \in {"measuring", "refused"}
  /\ UNCHANGED <<p_runs, p_outputs, p_saved, p_matches>>

(* One turn of command_run()'s loop: execute, parse, append. *)
RunVariant ==
  /\ p_phase = "measuring"
  /\ Len(p_runs) < Rounds * Len(Variants)
  /\ \E o \in UsualOutputs \cup (IF Faults < MaxFaults THEN FaultyOutputs ELSE {}) :
       LET round == Len(p_runs) \div Len(Variants)
           position == Len(p_runs) % Len(Variants)
       IN /\ p_runs' = Append(p_runs, Row(round, position, Ordered(round)[position + 1], o))
          /\ p_outputs' = Append(p_outputs, o)
  /\ UNCHANGED <<p_phase, p_saved, p_matches>>

(* Mutant: an interrupted session is saved without its statistics. *)
ResultsIfComplete(complete) ==
  [complete |-> complete, runs |-> p_runs,
   derived |-> IF complete THEN Derive(p_runs) ELSE NoCases,
   consistency_problems |-> IF complete THEN Consistency(p_runs) ELSE {}]

(* The `finally` of command_run(): what results.json holds. *)
Results(complete) ==
  [complete |-> complete, runs |-> p_runs, derived |-> Derive(p_runs),
   consistency_problems |-> Consistency(p_runs)]

(* The loop ends, or an interrupt during a run leaves it early. *)
SaveResults ==
  /\ p_phase = "measuring"
  /\ p_phase' = "saved"
  /\ p_saved' = Results(Len(p_runs) = Rounds * Len(Variants))
  /\ UNCHANGED <<p_runs, p_outputs, p_matches>>

(* The process is killed: `finally` does not run. *)
KillSession ==
  /\ p_phase = "measuring"
  /\ p_phase' = "lost"
  /\ UNCHANGED <<p_runs, p_outputs, p_saved, p_matches>>

(* command_replay() on the saved file. *)
ReplayResults ==
  /\ p_phase = "saved"
  /\ p_phase' = "replayed"
  /\ p_matches' = /\ Derive(p_saved.runs) = p_saved.derived
                  /\ Consistency(p_saved.runs) = p_saved.consistency_problems
  /\ UNCHANGED <<p_runs, p_outputs, p_saved>>

PlacementNext ==
  \/ RefuseArguments \/ MakeOutput \/ Build \/ RunVariant \/ SaveResults \/ KillSession \/ ReplayResults

--------------------------------------------------------------------------------
(* The executable's run of variant v in round r, if the session got there. *)
OutputOf(r, v) ==
  LET i == SelectInSeq(p_saved.runs, LAMBDA x : x.round = r /\ x.variant = v)
  IN IF i = 0 THEN Silent ELSE p_outputs[i]

(* What parse_run() asks of a run that counts, beside a case to report, on *)
(* what the executable did.  The docstring (line 19) asks for both cases.  *)
StayedClean(o) ==
  /\ o.exit = "zero"
  /\ \A c \in DOMAIN o.cases : o.cases[c].quiet /\ o.cases[c].sends_pending = 0 /\ o.cases[c].live = 0

(* Every change the statistics report compares a variant with the          *)
(* reference in one and the same round, both runs having reported that     *)
(* case, exited zero, stayed idle in every case they reported and freed    *)
(* what they placed; and every round in which both runs were good and the  *)
(* reference's time is not zero is compared.  A replay of the saved file,  *)
(* an interrupted session's too, finds the statistics stored in it.        *)
PairedWithinRound ==
  /\ p_matches
  /\ p_saved # None =>
    \A c \in DOMAIN p_saved.derived, v \in VariantNames :
      LET s == p_saved.derived[c][v]
          Time(r, x) == OutputOf(r, x).cases[c].time
          Good(r, x) == OutputOf(r, x) \in UsualOutputs
      IN /\ \A r \in DOMAIN s.changes :
              /\ StayedClean(OutputOf(r, v)) /\ StayedClean(OutputOf(r, Reference))
              /\ s.changes[r] = <<Time(r, v), Time(r, Reference)>>
         /\ \A r \in RoundIndices :
              Good(r, v) /\ Good(r, Reference) /\ Time(r, Reference) # 0 => r \in DOMAIN s.changes
         /\ s.wins + s.losses + s.ties = Cardinality(DOMAIN s.changes)

(* The order of the variants changes from each round to the next: what     *)
(* placement_bench.py:95 says of its rotation and the perf-pass skill asks *)
(* of every comparison.                                                    *)
OrderChanges ==
  LET RanIn(r) == [position \in 1 .. Len(Variants) |-> p_runs[r * Len(Variants) + position].variant]
  IN \A r \in RoundIndices :
       (r + 2) * Len(Variants) <= Len(p_runs) => RanIn(r) # RanIn(r + 1)

================================================================================
