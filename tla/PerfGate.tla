------------------------------- MODULE PerfGate -------------------------------
(***************************************************************************)
(* The verdict on a change's benchmarks: tools/perf_suite.py collects      *)
(* alternated runs of two builds, tools/perf_gate.py compares the two      *)
(* groups and tools/bench_compare.py one run of each.                      *)
(*                                                                         *)
(* Percent changes are compared exactly, on integers: a change of more     *)
(* than t percent from old to new is new * 100 > old * (100 + t).  One     *)
(* threshold stands for the three of the timings; --payload-byte-delta has *)
(* its default, no byte.                                                   *)
(***************************************************************************)
EXTENDS Integers, Sequences, FiniteSets, SequencesExt

CONSTANTS
  Repetitions,   \* --repetitions of the suite
  GateNames,     \* the benchmarks
  GateFields,    \* the timings gated: p50, p95, p99
  GateTimes,     \* bound: the times a benchmark may report
  Threshold      \* the percent allowed on each timing

ASSUME GateAssumption ==
  /\ Repetitions \in Nat \ {0} /\ Threshold \in Nat
  /\ GateTimes \subseteq Nat /\ IsFiniteSet(GateTimes) /\ GateTimes # {}
  /\ GateNames # {} /\ "p50" \in GateFields

VARIABLES
  g_phase,     \* "idle", "collecting", "collected", "aborted", "judged"
  g_files,     \* label -> the runs saved for it, in order
  g_options,   \* the gate's flags: "--allow-noisy" or none
  g_exit,      \* exit status of perf_gate.py, 3 before it ran
  g_compare    \* the same of bench_compare.py, on the first run of each build

gateVars == <<g_phase, g_files, g_options, g_exit, g_compare>>

Labels == {"baseline", "candidate"}

GateInit ==
  /\ g_phase = "idle" /\ g_files = [l \in Labels |-> <<>>] /\ g_options = {} /\ g_exit = 3 /\ g_compare = 3

--------------------------------------------------------------------------------
(* A saved run: what load() reads of its JSON lines, or unreadable. *)
PlainRun(times) ==
  [readable |-> TRUE, metadata |-> "usual",
   cases |-> [n \in GateNames |-> [time |-> times, payload |-> 1]]]

OddRuns(run) ==
  {[run EXCEPT !.readable = FALSE], [run EXCEPT !.metadata = "other"]}
  \cup {[run EXCEPT !.cases = [x \in GateNames \ {n} |-> run.cases[x]]] : n \in GateNames}
  \cup {[run EXCEPT !.cases[n].payload = 2] : n \in GateNames}

SavedRuns ==
  {PlainRun(times) : times \in [GateFields -> GateTimes]}
  \cup OddRuns(PlainRun([f \in GateFields |-> Max(GateTimes)]))

--------------------------------------------------------------------------------
Slower(new, old, percent) == old # 0 /\ new * 100 > old * (100 + percent)

TimesOf(runs, n, f) == [i \in DOMAIN runs |-> runs[i].cases[n].time[f]]

(* load() and validate_runs(). *)
Comparable(runs) ==
  /\ \A i \in DOMAIN runs : runs[i].readable /\ DOMAIN runs[i].cases # {}
  /\ \A i \in DOMAIN runs : /\ runs[i].metadata = runs[1].metadata
                            /\ DOMAIN runs[i].cases = DOMAIN runs[1].cases

(* Mutant: noise is looked for between the first and the last run only. *)
NoisyFirstRun(runs) ==
  \E n \in DOMAIN runs[1].cases, f \in GateFields : Slower(Last(TimesOf(runs, n, f)), Head(TimesOf(runs, n, f)), Threshold)

(* noisy(): the spread of a group of either build, which is taken for zero *)
(* when its fastest time is zero.                                          *)
Noisy(runs) ==
  \E n \in DOMAIN runs[1].cases, f \in GateFields :
    LET times == ToSet(TimesOf(runs, n, f)) IN Slower(Max(times), Min(times), Threshold)

(* The k-th smallest value: sorted(values)[k - 1]. *)
Ranked(values, k) ==
  CHOOSE v \in ToSet(values) :
    /\ Cardinality({i \in DOMAIN values : values[i] < v}) < k
    /\ Cardinality({i \in DOMAIN values : values[i] <= v}) >= k

(* statistics.median of one timing over a group, doubled. *)
MedianTwice(values) ==
  LET n == Len(values) IN Ranked(values, (n + 1) \div 2) + Ranked(values, n \div 2 + 1)

(* int() of the difference of the payload medians: half a byte is none. *)
PayloadDelta(baseline, candidate, n) ==
  LET Payload(runs) == MedianTwice([i \in DOMAIN runs |-> runs[i].cases[n].payload])
      difference == Payload(candidate) - Payload(baseline)
  IN IF difference < 0 THEN -(-difference \div 2) ELSE difference \div 2

(* main(): 2 is no verdict, 1 a regression, 0 a pass. *)
GateStatus(options, baseline, candidate) ==
  IF \/ ~Comparable(baseline \o candidate)
     \/ "--allow-noisy" \notin options /\ (Noisy(baseline) \/ Noisy(candidate))
  THEN 2
  ELSE IF \E n \in DOMAIN baseline[1].cases :
            \/ \E f \in GateFields : Slower(MedianTwice(TimesOf(candidate, n, f)),
                                            MedianTwice(TimesOf(baseline, n, f)), Threshold)
            \/ PayloadDelta(baseline, candidate, n) # 0
       THEN 1 ELSE 0

(* Mutant: bench_compare.py counts a change of exactly the threshold. *)
CompareInclusive(old, new) ==
  IF ~Comparable(<<old, new>>) THEN 2
  ELSE IF \E n \in DOMAIN old.cases : old.cases[n].time["p50"] # 0
            /\ new.cases[n].time["p50"] * 100 >= old.cases[n].time["p50"] * (100 + Threshold)
       THEN 1 ELSE 0

(* bench_compare.py's main() with --fail-above and --fail-payload-above. *)
CompareStatus(old, new) ==
  IF ~Comparable(<<old, new>>) THEN 2
  ELSE IF \E n \in DOMAIN old.cases :
            \/ Slower(new.cases[n].time["p50"], old.cases[n].time["p50"], Threshold)
            \/ Slower(new.cases[n].payload, old.cases[n].payload, Threshold)
       THEN 1 ELSE 0

--------------------------------------------------------------------------------
StartSuite == g_phase = "idle" /\ g_phase' = "collecting" /\ UNCHANGED <<g_files, g_options, g_exit, g_compare>>

(* The suite alternates the builds: the one that has fewer runs is next,   *)
(* and even repetitions start with the baseline.                           *)
Due(label) ==
  LET done == [l \in Labels |-> Len(g_files[l])]
      repetition == Min({done[l] : l \in Labels})
      first == IF repetition % 2 = 0 THEN "baseline" ELSE "candidate"
  IN done[label] = repetition /\ (label = first \/ done[first] > repetition)

SuiteRun ==
  /\ g_phase = "collecting"
  /\ \E label \in Labels, run \in SavedRuns :
       /\ Len(g_files[label]) < Repetitions /\ Due(label)
       /\ g_files' = [g_files EXCEPT ![label] = Append(@, run)]
  /\ UNCHANGED <<g_phase, g_options, g_exit, g_compare>>

(* subprocess.run(check=True): the first command that fails ends the suite. *)
SuiteFails == g_phase = "collecting" /\ g_phase' = "aborted" /\ UNCHANGED <<g_files, g_options, g_exit, g_compare>>

(* The runs are there; the gate is given them and its options. *)
SuiteEnds ==
  /\ g_phase = "collecting" /\ \A l \in Labels : Len(g_files[l]) = Repetitions
  /\ g_phase' = "collected" /\ g_options' \in SUBSET {"--allow-noisy"}
  /\ UNCHANGED <<g_files, g_exit, g_compare>>

Judge ==
  /\ g_phase = "collected"
  /\ g_phase' = "judged"
  /\ g_exit' = GateStatus(g_options, g_files["baseline"], g_files["candidate"])
  /\ g_compare' = CompareStatus(Head(g_files["baseline"]), Head(g_files["candidate"]))
  /\ UNCHANGED <<g_files, g_options>>

GateNext == StartSuite \/ SuiteRun \/ SuiteFails \/ SuiteEnds \/ Judge

--------------------------------------------------------------------------------
(* A pass without --allow-noisy bounds every run, not only the medians: on *)
(* a timing that was zero in no run of either build, no run of the         *)
(* candidate is slower than any run of the baseline by more than the       *)
(* threshold compounded three times (the two groups' spreads and the       *)
(* change of the medians).  A zero hides its group's spread from noisy()   *)
(* (perf_gate.py:104): baseline 4, 4 and candidate 0, 9 pass at 25         *)
(* percent.                                                                *)
PassBoundsEveryRun ==
  g_exit = 0 /\ g_options = {} =>
    \A n \in DOMAIN g_files["baseline"][1].cases, f \in GateFields :
      LET old == TimesOf(g_files["baseline"], n, f)
          new == TimesOf(g_files["candidate"], n, f)
      IN 0 \notin ToSet(old) \cup ToSet(new) =>
           \A i \in DOMAIN new, j \in DOMAIN old :
             new[i] * 1000000 <= old[j] * (100 + Threshold) * (100 + Threshold) * (100 + Threshold)

(* On one run of each build the two tools agree, with --allow-noisy or     *)
(* without: they refuse the same pairs, and what bench_compare.py calls a  *)
(* regression the gate never lets pass.                                    *)
ToolsAgree ==
  g_phase = "judged" =>
    LET gate == GateStatus(g_options, <<Head(g_files["baseline"])>>, <<Head(g_files["candidate"])>>)
    IN (g_compare = 2 <=> gate = 2) /\ (g_compare = 1 => gate = 1)

================================================================================
