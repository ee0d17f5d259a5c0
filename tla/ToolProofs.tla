------------------------------ MODULE ToolProofs ------------------------------
(***************************************************************************)
(* What the tools of tools/ promise, for every value of their bounds.  One *)
(* invocation runs one tool: each tool has an inductive invariant of its   *)
(* own over its own variables, which the steps of the others leave alone.  *)
(***************************************************************************)
EXTENDS BenchTools, SequenceTheorems, FiniteSetTheorems, WellFoundedInduction, TLAPS

--------------------------------------------------------------------------------
(* The paced producer (OutputPacer).                                       *)

(* What the deadline has put behind it: when the producer waits, every     *)
(* write so far lies one slot back for each write since; while it writes,  *)
(* that holds of the writes before, and the slot was not taken early.      *)
Spaced ==
  LET n == Len(o_starts)
  IN  IF o_pc = "wait"
      THEN \A i \in 1 .. n : o_deadline > o_starts[i] + (n - i) * Interval
      ELSE /\ n > 0 /\ o_deadline =< o_starts[n]
           /\ \A i \in 1 .. n - 1 : o_deadline > o_starts[i] + (n - 1 - i) * Interval

PacerTypeOK ==
  /\ o_pc \in {"wait", "writing"} /\ o_now \in Nat /\ o_deadline \in Nat
  /\ o_starts \in Seq(Nat)
  /\ \A i \in 1 .. Len(o_starts) : o_starts[i] =< o_now

PacerInv == PacerTypeOK /\ Spaced /\ NoBurst

(* One slot more. *)
LEMMA Slots == \A a, b \in Int : (a + 1) * b = a * b + b /\ a * b \in Int
  BY SMT

(* The producer's steps keep its slots apart: flood_background(), with the *)
(* wait and advance of OutputPacer.                                        *)
LEMMA PacerStep == PacerInv /\ [PacerNext]_pacerVars => PacerInv'
<1> SUFFICES ASSUME PacerInv, [PacerNext]_pacerVars PROVE PacerInv'
  OBVIOUS
<1> USE PacerAssumption DEF PacerInv, PacerTypeOK
<1>1. CASE Tick
  BY <1>1 DEF Tick, Spaced, NoBurst
<1>2. CASE WriteBlock
  <2> DEFINE n == Len(o_starts)
  <2>1. /\ o_pc = "wait" /\ o_pc' = "writing" /\ o_now >= o_deadline
        /\ o_starts' = Append(o_starts, o_now) /\ o_now' = o_now /\ o_deadline' = o_deadline
    BY <1>2 DEF WriteBlock
  <2>2. /\ o_starts' \in Seq(Nat) /\ Len(o_starts') = n + 1 /\ n \in Nat
        /\ o_starts'[n + 1] = o_now /\ \A i \in 1 .. n : o_starts'[i] = o_starts[i] /\ o_starts[i] \in Nat
        /\ DOMAIN o_starts = 1 .. n /\ DOMAIN o_starts' = 1 .. n + 1
    BY <2>1
  <2>3. \A i \in 1 .. n : o_deadline > o_starts[i] + (n - i) * Interval
    BY <2>1 DEF Spaced
  <2> HIDE DEF n
  <2>4. Spaced'
    <3>1. \A i \in 1 .. (n + 1) - 1 : o_deadline' > o_starts'[i] + ((n + 1) - 1 - i) * Interval
      <4> SUFFICES ASSUME NEW i \in 1 .. n
                   PROVE  o_deadline' > o_starts'[i] + ((n + 1) - 1 - i) * Interval
        BY <2>2
      <4>1. (n + 1) - 1 - i = n - i
        BY <2>2
      <4> QED BY <4>1, <2>1, <2>2, <2>3
    <3> QED BY <3>1, <2>1, <2>2 DEF Spaced
  <2>5. NoBurst'
    <3> SUFFICES ASSUME NEW i \in 1 .. n + 1, NEW j \in 1 .. n + 1, i < j
                 PROVE  o_starts'[j] - o_starts'[i] > (j - i - 1) * Interval
      BY <2>2 DEF NoBurst
    <3>1. CASE j =< n
      <4>1. i \in 1 .. n /\ j \in 1 .. n
        BY <3>1, <2>2
      <4> QED BY <4>1, <2>2 DEF NoBurst
    <3>2. CASE j = n + 1
      <4>1. i \in 1 .. n /\ j - i - 1 = n - i
        BY <3>2, <2>2
      <4>2. (n - i) * Interval \in Int
        BY <4>1, <2>2, Slots
      <4>3. o_starts'[j] = o_now /\ o_starts'[i] = o_starts[i] /\ o_starts[i] \in Nat
        BY <4>1, <3>2, <2>2
      <4>4. o_deadline > o_starts[i] + (n - i) * Interval
        BY <4>1, <2>3
      <4>5. o_starts'[j] - o_starts'[i] > (n - i) * Interval
        BY <4>2, <4>3, <4>4, <2>1
      <4> QED BY <4>1, <4>5
    <3> QED BY <3>1, <3>2, <2>2
  <2>6. \A i \in 1 .. n + 1 : o_starts'[i] =< o_now'
    BY <2>1, <2>2 DEF n
  <2> QED BY <2>1, <2>2, <2>4, <2>5, <2>6
<1>3. CASE Advance
  <2> DEFINE n == Len(o_starts)
  <2>1. /\ o_pc = "writing" /\ o_pc' = "wait" /\ UNCHANGED <<o_now, o_starts>>
        /\ o_deadline' = IF o_deadline + Interval > o_now THEN o_deadline + Interval ELSE o_now + Interval
    BY <1>3 DEF Advance, NextSlot
  <2>2. /\ n \in Nat /\ n > 0 /\ o_deadline =< o_starts[n]
        /\ \A i \in 1 .. n : o_starts[i] \in Nat /\ o_starts[i] =< o_now
        /\ \A i \in 1 .. n - 1 : o_deadline > o_starts[i] + (n - 1 - i) * Interval
    BY <2>1 DEF Spaced
  <2> HIDE DEF n
  <2>3. o_deadline' \in Nat /\ o_deadline' >= o_deadline + Interval /\ o_deadline' > o_now
    BY <2>1
  <2>4. \A i \in 1 .. n : o_deadline' > o_starts[i] + (n - i) * Interval
    <3> SUFFICES ASSUME NEW i \in 1 .. n PROVE o_deadline' > o_starts[i] + (n - i) * Interval
      OBVIOUS
    <3>1. CASE i = n
      <4>1. n - i = 0
        BY <3>1, <2>2
      <4>2. (n - i) * Interval = 0
        BY <4>1
      <4> QED BY <4>2, <2>2, <2>3
    <3>2. CASE i # n
      <4>1. i \in 1 .. n - 1 /\ n - i = (n - 1 - i) + 1 /\ n - 1 - i \in Int /\ Interval \in Int
        BY <3>2, <2>2
      <4>2. /\ (n - i) * Interval = (n - 1 - i) * Interval + Interval
            /\ (n - 1 - i) * Interval \in Int
        BY <4>1, Slots
      <4>3. o_deadline > o_starts[i] + (n - 1 - i) * Interval /\ o_starts[i] \in Nat
        BY <4>1, <2>2
      <4> HIDE DEF n
      <4> DEFINE m == (n - 1 - i) * Interval
      <4>4. m \in Int /\ (n - i) * Interval = m + Interval /\ o_deadline > o_starts[i] + m
        BY <4>2, <4>3
      <4> HIDE DEF m
      <4> QED BY <4>3, <4>4, <2>3
    <3> QED BY <3>1, <3>2
  <2>5. Spaced'
    BY <2>1, <2>4 DEF Spaced, n
  <2>6. NoBurst'
    BY <2>1 DEF NoBurst
  <2> QED BY <2>1, <2>3, <2>5, <2>6
<1>4. CASE UNCHANGED pacerVars
  BY <1>4 DEF pacerVars, Spaced, NoBurst
<1> QED BY <1>1, <1>2, <1>3, <1>4 DEF PacerNext

(* A stalled background producer never catches up with a burst             *)
(* (OutputPacer.advance() in terminal_bench_fixture.py), whatever the      *)
(* rate, the length of the run and the stalls.                             *)
THEOREM PacerNoBurst == ToolsSpec => []NoBurst
<1>1. ToolsInit => PacerInv
  BY DEF ToolsInit, PacerInit, PacerInv, PacerTypeOK, Spaced, NoBurst
<1>2. [ToolsNext]_toolVars => [PacerNext]_pacerVars
  BY DEF ToolsNext, toolVars, Placement, Gate, Native, Echo, Throughput, Isolated, Pacer, Slot, Machine
<1>3. PacerInv => NoBurst
  BY DEF PacerInv
<1> QED BY <1>1, <1>2, <1>3, PacerStep, PTL DEF ToolsSpec

--------------------------------------------------------------------------------
(* The isolated run (IsolatedRun).                                         *)

IsolatedTypeOK ==
  /\ i_pc \in {"idle", "measuring", "owned", "stopping", "kill", "wait", "final", "complete", "raised"}
  /\ i_result \in [exited : BOOLEAN, complete : BOOLEAN]
  /\ i_raced \in BOOLEAN
  /\ DOMAIN i_session = Pids

(* The runner is in a session of its own, which is never cleaned, and is   *)
(* never signalled.                                                        *)
RunnerSpared ==
  i_session["runner"] = "runner" /\ "runner" \notin i_owned /\ "runner" \notin i_doomed

(* What the scans know of the processes.  Between the two halves of the    *)
(* first scan the listed processes are there and are in the sessions below *)
(* the runtime; from then on those are the sessions to clean; and the last *)
(* scan lists every process.  A race inside a scan voids it.               *)
ScansKnow ==
  \/ i_raced
  \/ /\ i_pc = "owned" => i_listed \subseteq i_alive /\ i_below = {i_session[p] : p \in i_listed}
     /\ i_pc \in {"stopping", "kill", "wait", "final", "complete"} => i_owned = i_below
     /\ i_pc = "final" => i_alive \subseteq i_listed
     /\ i_pc = "complete" => \A p \in i_alive : i_session[p] \notin i_owned

ResultTrue ==
  /\ i_result.complete => i_pc = "complete"
  /\ i_result.exited => i_pc \notin {"idle", "measuring"} /\ "runtime" \notin i_alive

IsolatedInv == IsolatedTypeOK /\ RunnerSpared /\ ScansKnow /\ ResultTrue

(* A process that is born is a new one: it changes the session of no       *)
(* process that exists, nor the runner's, and is not the runtime.          *)
LEMMA BirthsAreNew ==
  ASSUME IsolatedTypeOK, i_session["runner"] = "runner",
         NEW p \in Unborn, NEW parent, NEW session, Born(p, parent, session)
  PROVE  /\ DOMAIN i_session' = Pids /\ i_session'["runner"] = "runner"
         /\ \A q \in i_alive : i_session'[q] = i_session[q]
         /\ i_alive \subseteq i_alive' /\ p # "runtime" /\ i_alive' = i_alive \cup {p}
<1>1. p \in Pids /\ p \notin i_alive /\ p # "runner" /\ p # "runtime"
  BY IsolatedAssumption DEF Unborn, Pids
<1>2. i_session' = [i_session EXCEPT ![p] = session] /\ i_alive' = i_alive \cup {p}
  BY DEF Born
<1>3. \A q \in Pids : q # p => i_session'[q] = i_session[q]
  BY <1>2 DEF IsolatedTypeOK
<1>4. "runner" \in Pids
  BY DEF Pids
<1>5. \A q : q \in DOMAIN i_session' <=> q \in Pids
  BY <1>2 DEF IsolatedTypeOK
<1>6. \A q : q # p => i_session'[q] = i_session[q]
  BY <1>2 DEF IsolatedTypeOK
<1> QED BY <1>1, <1>2, <1>3, <1>4, <1>5, <1>6 DEF IsolatedTypeOK

(* The steps of one measurement and of its processes keep the invariant:   *)
(* measure(), stop_runtime() and cleanup_sessions() of perf_e2e.py.        *)
LEMMA IsolatedStep == IsolatedInv /\ [IsolatedNext]_isolatedVars => IsolatedInv'
<1> SUFFICES ASSUME IsolatedInv, [IsolatedNext]_isolatedVars PROVE IsolatedInv'
  OBVIOUS
<1> USE DEF IsolatedInv
<1>1. CASE StartRuntime
  <2>1. /\ i_pc = "idle" /\ i_pc' = "measuring" /\ i_alive' = i_alive \cup {"runtime"}
        /\ UNCHANGED <<i_doomed, i_parent, i_listed, i_owned, i_below, i_raced, i_result>>
    BY <1>1 DEF StartRuntime
  <2>2. PICK s : i_session' = [i_session EXCEPT !["runtime"] = s]
    BY <1>1 DEF StartRuntime
  <2>3. DOMAIN i_session' = Pids /\ i_session'["runner"] = "runner"
    BY <2>2 DEF IsolatedTypeOK, RunnerSpared, Pids
  <2> QED BY <2>1, <2>3 DEF IsolatedTypeOK, RunnerSpared, ScansKnow, ResultTrue
<1>2. CASE OpenPane
  <2>1. /\ i_pc = "measuring"
        /\ UNCHANGED <<i_pc, i_doomed, i_listed, i_owned, i_below, i_raced, i_result>>
    BY <1>2 DEF OpenPane
  <2>2. PICK p \in Unborn : Born(p, "runtime", p)
    BY <1>2 DEF OpenPane
  <2>3. DOMAIN i_session' = Pids /\ i_session'["runner"] = "runner"
    BY <2>2, BirthsAreNew DEF RunnerSpared
  <2> QED BY <2>1, <2>3 DEF IsolatedTypeOK, RunnerSpared, ScansKnow, ResultTrue
<1>3. CASE Fork
  <2>1. /\ i_pc \notin {"idle", "complete", "raised"} /\ i_raced' = (i_raced \/ i_pc = "final")
        /\ UNCHANGED <<i_pc, i_doomed, i_listed, i_owned, i_below, i_result>>
    BY <1>3 DEF Fork
  <2>2. PICK q \in i_alive, p \in Unborn : Born(p, q, i_session[q])
    BY <1>3 DEF Fork
  <2>3. /\ DOMAIN i_session' = Pids /\ i_session'["runner"] = "runner"
        /\ \A r \in i_alive : i_session'[r] = i_session[r]
        /\ i_alive \subseteq i_alive' /\ p # "runtime" /\ i_alive' = i_alive \cup {p}
    BY <2>2, BirthsAreNew DEF RunnerSpared
  <2>4. i_listed \subseteq i_alive => {i_session'[r] : r \in i_listed} = {i_session[r] : r \in i_listed}
    BY <2>3
  <2>5. ScansKnow'
    BY <2>1, <2>3, <2>4 DEF ScansKnow, IsolatedTypeOK
  <2>6. ResultTrue'
    BY <2>1, <2>3 DEF ResultTrue
  <2> QED BY <2>1, <2>3, <2>5, <2>6 DEF IsolatedTypeOK, RunnerSpared
<1>4. CASE Exit
  <2>1. PICK p \in i_alive : /\ i_alive' = i_alive \ {p}
                             /\ i_raced' = (i_raced \/ (i_pc = "owned" /\ p \in i_listed))
    BY <1>4 DEF Exit
  <2>2. /\ i_pc \notin {"idle", "complete", "raised"}
        /\ UNCHANGED <<i_pc, i_doomed, i_session, i_listed, i_owned, i_below, i_result>>
    BY <1>4 DEF Exit
  <2>3. ScansKnow'
    BY <2>1, <2>2 DEF ScansKnow, IsolatedTypeOK
  <2> QED BY <2>1, <2>2, <2>3 DEF IsolatedTypeOK, RunnerSpared, ResultTrue
<1>5. CASE ListOwned
  <2>1. /\ i_pc = "measuring" /\ i_pc' = "owned" /\ i_below' = {i_session[p] : p \in i_listed'}
        /\ i_listed' \subseteq i_alive /\ UNCHANGED <<processVars, i_owned, i_raced, i_result>>
    BY <1>5 DEF ListOwned, Descendants
  <2> QED BY <2>1 DEF processVars, IsolatedTypeOK, RunnerSpared, ScansKnow, ResultTrue
<1>6. CASE ReadOwned
  <2>1. /\ i_pc = "owned" /\ UNCHANGED <<i_alive, i_doomed, i_session, i_listed, i_below, i_raced, i_result>>
        /\ i_pc' = IF SharesRunner THEN "raised" ELSE "stopping"
        /\ i_owned' = IF SharesRunner THEN {} ELSE OwnedSessions
    BY <1>6 DEF ReadOwned, processVars
  <2>2. "runner" \notin i_owned'
    BY <2>1 DEF SharesRunner
  <2>3. ~i_raced => i_below = OwnedSessions
    <3> SUFFICES ASSUME ~i_raced PROVE i_below = OwnedSessions
      OBVIOUS
    <3>1. i_listed \subseteq i_alive /\ i_below = {i_session[p] : p \in i_listed}
      BY <2>1 DEF ScansKnow
    <3>2. i_listed \cap i_alive = i_listed
      BY <3>1
    <3> QED BY <3>1, <3>2 DEF OwnedSessions
  <2>4. ScansKnow'
    BY <2>1, <2>3 DEF ScansKnow, IsolatedTypeOK
  <2> QED BY <2>1, <2>2, <2>4 DEF IsolatedTypeOK, RunnerSpared, ResultTrue
<1>7. CASE StopRuntime
  <2>1. /\ i_pc = "stopping" /\ i_pc' = "kill" /\ UNCHANGED <<i_alive, i_doomed, i_session, i_owned, i_below, i_raced>>
        /\ i_result' = [i_result EXCEPT !.exited = "runtime" \notin i_alive]
    BY <1>7 DEF StopRuntime, processVars
  <2>2. /\ i_result' \in [exited : BOOLEAN, complete : BOOLEAN]
        /\ i_result'.exited = ("runtime" \notin i_alive) /\ i_result'.complete = i_result.complete
    BY <2>1 DEF IsolatedTypeOK
  <2> QED BY <2>1, <2>2 DEF IsolatedTypeOK, RunnerSpared, ScansKnow, ResultTrue
<1>8. CASE KillMembers
  <2>1. /\ i_pc = "kill" /\ i_pc' = "wait" /\ i_doomed' = i_doomed \cup (i_listed \cap Members)
        /\ UNCHANGED <<i_alive, i_parent, i_session, i_listed, i_owned, i_below, i_raced, i_result>>
    BY <1>8 DEF KillMembers
  <2>2. "runner" \notin i_doomed'
    BY <2>1 DEF RunnerSpared, Members
  <2> QED BY <2>1, <2>2 DEF IsolatedTypeOK, RunnerSpared, ScansKnow, ResultTrue
<1>9. CASE WaitEnds
  <2>1. /\ i_pc = "wait" /\ i_pc' = "final" /\ i_listed' = i_alive
        /\ UNCHANGED <<i_alive, i_doomed, i_session, i_owned, i_below, i_raced, i_result>>
    BY <1>9 DEF WaitEnds, processVars
  <2> QED BY <2>1 DEF IsolatedTypeOK, RunnerSpared, ScansKnow, ResultTrue
<1>10. CASE FinalScan
  <2>1. /\ i_pc = "final" /\ i_pc' = IF i_listed \cap Members = {} THEN "complete" ELSE "raised"
        /\ i_result' = [i_result EXCEPT !.complete = (i_listed \cap Members = {})]
        /\ UNCHANGED <<i_alive, i_doomed, i_session, i_listed, i_owned, i_below, i_raced>>
    BY <1>10 DEF FinalScan, processVars
  <2>2. /\ i_result' \in [exited : BOOLEAN, complete : BOOLEAN]
        /\ i_result'.complete = (i_listed \cap Members = {}) /\ i_result'.exited = i_result.exited
    BY <2>1 DEF IsolatedTypeOK
  <2>3. i_alive \subseteq i_listed /\ i_listed \cap Members = {} => \A p \in i_alive : i_session[p] \notin i_owned
    BY DEF Members
  <2>4. ScansKnow'
    BY <2>1, <2>3 DEF ScansKnow, IsolatedTypeOK
  <2> QED BY <2>1, <2>2, <2>4 DEF IsolatedTypeOK, RunnerSpared, ResultTrue
<1>11. CASE UNCHANGED isolatedVars
  BY <1>11 DEF isolatedVars, IsolatedTypeOK, RunnerSpared, ScansKnow, ResultTrue
<1> QED BY <1>1, <1>2, <1>3, <1>4, <1>5, <1>6, <1>7, <1>8, <1>9, <1>10, <1>11 DEF IsolatedNext

(* A shutdown that says cleanup_complete has left nothing of the sessions  *)
(* the runtime had below it, never signals the runner, and reports no      *)
(* runtime as exited that is there (stop_runtime() in perf_e2e.py),        *)
(* however many processes there are and whenever they fork and exit.       *)
THEOREM IsolatedSessionsReclaimed == ToolsSpec => []SessionsReclaimed
<1>1. ToolsInit => IsolatedInv
  <2> SUFFICES ASSUME IsolatedInit PROVE IsolatedInv
    BY DEF ToolsInit
  <2>1. DOMAIN i_session = Pids /\ i_session["runner"] = "runner"
    BY DEF IsolatedInit, Pids
  <2> QED BY <2>1 DEF IsolatedInit, IsolatedInv, IsolatedTypeOK, RunnerSpared, ScansKnow, ResultTrue
<1>2. [ToolsNext]_toolVars => [IsolatedNext]_isolatedVars
  BY DEF ToolsNext, toolVars, Placement, Gate, Native, Echo, Throughput, Isolated, Pacer, Slot, Machine
<1>3. IsolatedInv => SessionsReclaimed
  BY DEF IsolatedInv, IsolatedTypeOK, RunnerSpared, ScansKnow, ResultTrue, SessionsReclaimed
<1> QED BY <1>1, <1>2, <1>3, IsolatedStep, PTL DEF ToolsSpec

--------------------------------------------------------------------------------
(* The Linux machine (VmHost).                                             *)

(* The steps that belong to up and start, and where they are before the    *)
(* disk is made.                                                           *)
BeforeDisk == {"launch", "download", "downloading", "verify", "disk"}
Booting == BeforeDisk \cup {"popen", "pid", "ssh"}

VmTypeOK ==
  /\ v_pc \in Booting \cup {"shell", "cloud", "provision", "sync", "build", "open", "shot", "close", "stop"}
  /\ v_disk \in {"absent", "blank", "user", "seeded", "unseeded"}
  /\ v_first \in BOOLEAN /\ v_seed \in BOOLEAN /\ v_cut \in BOOLEAN
  /\ v_torn \in BOOLEAN /\ v_left \in BOOLEAN /\ v_window \in BOOLEAN /\ v_overlap \in BOOLEAN

(* Which command a step belongs to. *)
StepsBelong ==
  /\ v_pc \in Booting => v_command \in {"up", "start"}
  /\ v_pc \in {"open", "shot", "close"} => v_command = "smoke"

(* The first boot: without a disk QEMU is not started, and an up is a      *)
(* first boot whose seed answers; a disk that cloud-init has not finished  *)
(* with is, unless its first boot was cut short, that of an up which still *)
(* waits for it with its seed, and the machine was told where the seed is. *)
FirstBootKept ==
  /\ v_disk = "absent" => v_machine = 0 /\ v_pc # "popen"
  /\ v_disk = "absent" /\ v_pc \in BeforeDisk /\ v_command = "up" => v_first /\ v_seed
  /\ v_disk = "blank" /\ ~v_cut =>
       /\ v_pc \in {"popen", "pid", "ssh"} /\ v_command = "up" /\ v_first /\ v_seed
       /\ v_pc = "popen" => v_machine = 0
       /\ v_machine # 0 => v_serial
  /\ v_disk = "user" /\ ~v_cut =>
       v_pc \in {"pid", "ssh", "cloud"} /\ v_command = "up" /\ v_first /\ v_seed
  /\ v_disk = "unseeded" => v_cut

(* The tree that a command is about to build is its own whole one, unless  *)
(* a script that runs on changed it or the machine is gone; and an open    *)
(* window is about to be closed by the gui-smoke that opened it.           *)
GuestKept ==
  /\ v_pc = "build" => v_tree = "whole" \/ v_overlap \/ v_machine = 0
  /\ \A b \in v_built : b.tree = "whole" \/ b.overlap
  /\ v_window => v_left \/ v_pc \in {"shot", "close"}

HostKept ==
  /\ v_base # "bad"
  /\ v_machine # 0 /\ v_machine # v_pid => v_torn \/ v_pc = "pid"

VmInv == VmTypeOK /\ StepsBelong /\ FirstBootKept /\ GuestKept /\ HostKept

(* The commands, their interruption between any two steps, and the guest   *)
(* keep the invariant: vm.py.                                              *)
LEMMA VmStep == VmInv /\ [VmNext]_vmVars => VmInv'
<1> SUFFICES ASSUME VmInv, [VmNext]_vmVars PROVE VmInv'
  OBVIOUS
<1> USE DEF VmInv, VmTypeOK, StepsBelong, FirstBootKept, GuestKept, HostKept, BeforeDisk, Booting,
            hostFiles, machineVars, guestVars, treeVars, windowVars, vmHistory, Ends, Goes
<1>1. CASE Command
  BY <1>1 DEF Command, FirstBoot
<1>2. CASE Launch
  BY <1>2 DEF Launch, Running
<1>3. CASE BeginDownload
  BY <1>3 DEF BeginDownload, DownloadTo
<1>4. CASE EndDownload
  <2>1. VmTypeOK' /\ StepsBelong'
    BY <1>4 DEF EndDownload, DownloadTo
  <2>2. FirstBootKept'
    BY <1>4 DEF EndDownload, DownloadTo
  <2>3. GuestKept' /\ HostKept'
    BY <1>4 DEF EndDownload, DownloadTo
  <2> QED BY <2>1, <2>2, <2>3
<1>5. CASE Verify
  <2>1. VmTypeOK' /\ StepsBelong'
    BY <1>5 DEF Verify
  <2>2. FirstBootKept'
    BY <1>5 DEF Verify
  <2>3. GuestKept' /\ HostKept'
    BY <1>5 DEF Verify
  <2> QED BY <2>1, <2>2, <2>3
<1>6. CASE CreateDisk
  BY <1>6 DEF CreateDisk
<1>7. CASE StartQemu
  <2>1. VmTypeOK'
    BY <1>7 DEF StartQemu
  <2>2. StepsBelong'
    BY <1>7 DEF StartQemu
  <2>3. FirstBootKept'
    BY <1>7 DEF StartQemu
  <2>4. GuestKept'
    BY <1>7 DEF StartQemu
  <2>5. HostKept'
    BY <1>7 DEF StartQemu
  <2> QED BY <2>1, <2>2, <2>3, <2>4, <2>5
<1>8. CASE WritePid
  <2>1. VmTypeOK' /\ StepsBelong'
    BY <1>8 DEF WritePid
  <2>2. FirstBootKept'
    BY <1>8 DEF WritePid
  <2>3. GuestKept' /\ HostKept'
    BY <1>8 DEF WritePid
  <2> QED BY <2>1, <2>2, <2>3
<1>9. CASE WaitForSsh
  <2>1. VmTypeOK' /\ StepsBelong'
    BY <1>9 DEF WaitForSsh, Reachable
  <2>2. FirstBootKept'
    BY <1>9 DEF WaitForSsh, Reachable
  <2>3. GuestKept' /\ HostKept'
    BY <1>9 DEF WaitForSsh, Reachable
  <2> QED BY <2>1, <2>2, <2>3
<1>10. CASE AwaitCloudInit
  <2>1. VmTypeOK' /\ StepsBelong'
    BY <1>10 DEF AwaitCloudInit, CloudInitDone
  <2>2. FirstBootKept'
    BY <1>10 DEF AwaitCloudInit, CloudInitDone
  <2>3. GuestKept' /\ HostKept'
    BY <1>10 DEF AwaitCloudInit, CloudInitDone
  <2> QED BY <2>1, <2>2, <2>3
<1>11. CASE Provision
  <2>1. VmTypeOK' /\ StepsBelong'
    BY <1>11 DEF Provision
  <2>2. FirstBootKept'
    BY <1>11 DEF Provision
  <2>3. GuestKept' /\ HostKept'
    BY <1>11 DEF Provision
  <2> QED BY <2>1, <2>2, <2>3
<1>12. CASE SyncTree
  <2>1. VmTypeOK'
    BY <1>12 DEF SyncTree, SyncRaises, LeavesScript, Running
  <2>2. StepsBelong'
    BY <1>12 DEF SyncTree, SyncRaises, LeavesScript, Running
  <2>3. FirstBootKept'
    BY <1>12 DEF SyncTree, SyncRaises, LeavesScript, Running
  <2>4. GuestKept'
    BY <1>12 DEF SyncTree, SyncRaises, LeavesScript, Running
  <2>5. HostKept'
    BY <1>12 DEF SyncTree, SyncRaises, LeavesScript, Running
  <2> QED BY <2>1, <2>2, <2>3, <2>4, <2>5
<1>13. CASE BuildTree
  <2>1. VmTypeOK'
    BY <1>13 DEF BuildTree, Running
  <2>2. StepsBelong'
    BY <1>13 DEF BuildTree, Running
  <2>3. FirstBootKept'
    BY <1>13 DEF BuildTree, Running
  <2>4. GuestKept'
    BY <1>13 DEF BuildTree, Running
  <2>5. HostKept'
    BY <1>13 DEF BuildTree, Running
  <2> QED BY <2>1, <2>2, <2>3, <2>4, <2>5
<1>14. CASE OpenWindow
  <2>1. VmTypeOK'
    BY <1>14 DEF OpenWindow
  <2>2. StepsBelong'
    BY <1>14 DEF OpenWindow
  <2>3. FirstBootKept'
    BY <1>14 DEF OpenWindow
  <2>4. GuestKept'
    BY <1>14 DEF OpenWindow
  <2>5. HostKept'
    BY <1>14 DEF OpenWindow
  <2> QED BY <2>1, <2>2, <2>3, <2>4, <2>5
<1>15. CASE Screenshot
  BY <1>15 DEF Screenshot
<1>16. CASE CloseSmoke
  <2>1. VmTypeOK'
    BY <1>16 DEF CloseSmoke
  <2>2. StepsBelong'
    BY <1>16 DEF CloseSmoke
  <2>3. FirstBootKept'
    BY <1>16 DEF CloseSmoke
  <2>4. GuestKept'
    BY <1>16 DEF CloseSmoke
  <2>5. HostKept'
    BY <1>16 DEF CloseSmoke
  <2> QED BY <2>1, <2>2, <2>3, <2>4, <2>5
<1>17. CASE Stop
  <2>1. VmTypeOK'
    BY <1>17 DEF Stop, GuestStops
  <2>2. StepsBelong'
    BY <1>17 DEF Stop, GuestStops
  <2>3. FirstBootKept'
    BY <1>17 DEF Stop, GuestStops
  <2>4. GuestKept'
    BY <1>17 DEF Stop, GuestStops
  <2>5. HostKept'
    BY <1>17 DEF Stop, GuestStops
  <2> QED BY <2>1, <2>2, <2>3, <2>4, <2>5
<1>18. CASE Interrupt
  <2>1. VmTypeOK'
    BY <1>18 DEF Interrupt
  <2>2. StepsBelong'
    BY <1>18 DEF Interrupt
  <2>3. FirstBootKept'
    BY <1>18 DEF Interrupt
  <2>4. GuestKept'
    BY <1>18 DEF Interrupt
  <2>5. HostKept'
    BY <1>18 DEF Interrupt
  <2> QED BY <2>1, <2>2, <2>3, <2>4, <2>5
<1>19. CASE GuestBoots
  BY <1>19 DEF GuestBoots
<1>20. CASE CloudInitEnds
  BY <1>20 DEF CloudInitEnds
<1>21. CASE QemuExits
  <2>1. VmTypeOK'
    BY <1>21 DEF QemuExits, GuestStops
  <2>2. StepsBelong'
    BY <1>21 DEF QemuExits, GuestStops
  <2>3. FirstBootKept'
    BY <1>21 DEF QemuExits, GuestStops
  <2>4. GuestKept'
    BY <1>21 DEF QemuExits, GuestStops
  <2>5. HostKept'
    BY <1>21 DEF QemuExits, GuestStops
  <2> QED BY <2>1, <2>2, <2>3, <2>4, <2>5
<1>22. CASE ScriptRunsOn
  <2>0. PICK s \in v_scripts :
             /\ ScriptReplaces(s) \/ ScriptBuilds(s) \/ ScriptWindow(s)
             /\ UNCHANGED <<v_command, v_pc, v_first, v_seed, v_disk, v_child, hostFiles, machineVars, vmHistory>>
    BY <1>22 DEF ScriptRunsOn
  <2>1. ScriptReplaces(s) \/ ScriptBuilds(s) \/ ScriptWindow(s)
    BY <2>0
  <2>2. UNCHANGED <<v_command, v_pc, v_first, v_seed, v_disk, v_child, hostFiles, machineVars, vmHistory>>
    BY <2>0
  <2>3. CASE ScriptReplaces(s)
    <3>1. VmTypeOK' /\ StepsBelong'
      BY <2>2, <2>3 DEF ScriptReplaces
    <3>2. FirstBootKept' /\ HostKept'
      BY <2>2, <2>3 DEF ScriptReplaces
    <3>3. GuestKept'
      <4>1. v_overlap' <=> v_overlap \/ v_pc \in {"sync", "build"}
        BY <2>3 DEF ScriptReplaces
      <4>2. v_pc' = v_pc /\ v_machine' = v_machine /\ v_built' = v_built /\ v_window' = v_window /\ v_left' = v_left
        BY <2>2, <2>3 DEF ScriptReplaces
      <4>3. v_pc' = "build" => v_overlap'
        BY <4>1, <4>2
      <4> QED BY <4>2, <4>3
    <3> QED BY <3>1, <3>2, <3>3
  <2>4. CASE ScriptBuilds(s)
    BY <2>2, <2>4 DEF ScriptBuilds
  <2>5. CASE ScriptWindow(s)
    BY <2>2, <2>5 DEF ScriptWindow
  <2> QED BY <2>1, <2>3, <2>4, <2>5
<1>23. CASE UNCHANGED vmVars
  BY <1>23 DEF vmVars
<1> QED
  BY <1>1, <1>2, <1>3, <1>4, <1>5, <1>6, <1>7, <1>8, <1>9, <1>10, <1>11, <1>12, <1>13, <1>14, <1>15, <1>16,
     <1>17, <1>18, <1>19, <1>20, <1>21, <1>22, <1>23 DEF VmNext

(* The commands of vm.py may be interrupted anywhere, and their ssh calls  *)
(* fail, as often as one likes: the base image stays a verified one, a     *)
(* disk misses its seed only when its first boot was not an up's or was    *)
(* cut short, qemu.pid names the machine unless its command was cut short  *)
(* before that, a command builds the archive it sent unless a script of an *)
(* earlier one ran on over it, and gui-smoke leaves no window but when it  *)
(* fails or is cut short.                                                  *)
THEOREM VmMachineKept == ToolsSpec => []MachineKept
<1>1. ToolsInit => VmInv
  BY DEF ToolsInit, VmInit, VmInv, VmTypeOK, StepsBelong, FirstBootKept, GuestKept, HostKept, BeforeDisk, Booting
<1>2. [ToolsNext]_toolVars => [VmNext]_vmVars
  BY DEF ToolsNext, toolVars, Placement, Gate, Native, Echo, Throughput, Isolated, Pacer, Slot, Machine
<1>3. VmInv => MachineKept
  BY DEF VmInv, VmTypeOK, StepsBelong, FirstBootKept, GuestKept, HostKept, MachineKept
<1> QED BY <1>1, <1>2, <1>3, VmStep, PTL DEF ToolsSpec

--------------------------------------------------------------------------------
(* The throughput fixture (BenchFixture).                                  *)

(* The statements of one case, and those of measure_throughput(). *)
InCase == {"home", "writing", "asking", "end"}
InThroughput == InCase \cup {"prepare"}

(* What the fixture writes. *)
Texts == {Payloads[i] : i \in 1 .. Len(Payloads)} \cup {"query", "text"}

FixtureTypeOK ==
  /\ f_pc \in InThroughput \cup {"absent", "viewport", "ready", "failed", "gone"}
  /\ f_wire \in Seq(Texts) /\ f_answers \in Seq({"home", "elsewhere"})
  /\ f_generation \in Nat /\ f_caseGeneration \in Nat
  /\ f_winch \in BOOLEAN /\ f_disturbed \in BOOLEAN
  /\ f_throughput \in [cases : Seq([name : Texts, disturbed : BOOLEAN, unread : BOOLEAN, attached : BOOLEAN]),
                       failed : BOOLEAN]

(* Where measure_throughput() is, the receipt says so, and a case that is  *)
(* begun is one of the payloads.                                           *)
CasePlace ==
  /\ f_pc \in InThroughput => f_phase = "throughput"
  /\ f_pc \in InCase => Len(f_throughput.cases) < Len(Payloads)

(* One query at a time: it is on its way to the terminal, where the        *)
(* payload of the case cannot be behind it, or its answer is on the way    *)
(* back and the payload has been read.                                     *)
NoQuery == \A i \in 1 .. Len(f_wire) : f_wire[i] # "query"
Unasked == NoQuery /\ f_answers = <<>>
Behind(i) == \A j \in 1 .. Len(f_wire) : j > i => f_wire[j] # Current
Asked ==
  /\ f_answers = <<>>
  /\ \E i \in 1 .. Len(f_wire) :
       /\ \A j \in 1 .. Len(f_wire) : f_wire[j] = "query" <=> j = i
       /\ f_pc = "end" => Behind(i)
Answered == NoQuery /\ Len(f_answers) = 1 /\ (f_pc = "end" => Behind(0))
OneQuery ==
  /\ f_pc \in {"absent", "viewport", "prepare", "writing", "asking", "ready"} => Unasked
  /\ f_pc \in {"home", "end"} => Asked \/ Answered

(* A resize inside a case is pending as a signal or counted in the         *)
(* generation, which never falls behind the one the case began with.       *)
ResizeSeen ==
  /\ f_pc \in InCase => f_generation >= f_caseGeneration
  /\ Timing /\ f_disturbed => f_winch \/ f_generation > f_caseGeneration

(* The fixture measures only when released, and the driver releases it     *)
(* with --detach only when the client is gone.                             *)
ReleasedAlone ==
  /\ d_pc = "idle" => f_pc = "absent" /\ ~d_released
  /\ f_pc = "absent" => f_throughput.cases = <<>>
  /\ f_pc \in InThroughput => d_released
  /\ d_released /\ d_detach => d_client = "gone"

FixtureInv == FixtureTypeOK /\ CasePlace /\ OneQuery /\ ResizeSeen /\ ReleasedAlone /\ CasesSound

(* The next payload is one of the payloads, not a query. *)
LEMMA CurrentPayload ==
  ASSUME FixtureTypeOK, Len(f_throughput.cases) < Len(Payloads)
  PROVE  Current \in Texts /\ Current # "query"
<1>1. Len(f_throughput.cases) \in Nat /\ Len(Payloads) \in Nat
  BY FixtureAssumption DEF FixtureTypeOK
<1>2. Len(f_throughput.cases) + 1 \in 1 .. Len(Payloads)
  BY <1>1
<1> QED BY <1>2, FixtureAssumption DEF Current, Texts

(* What is written to the terminal comes last. *)
LEMMA Written ==
  ASSUME NEW S, NEW w \in Seq(S), NEW x \in S
  PROVE  /\ Append(w, x) \in Seq(S) /\ Len(w) \in Nat /\ Len(Append(w, x)) = Len(w) + 1
         /\ Append(w, x)[Len(w) + 1] = x
         /\ \A i \in 1 .. Len(w) : Append(w, x)[i] = w[i]
  OBVIOUS

(* What the terminal leaves. *)
LEMMA Read ==
  ASSUME NEW S, NEW w \in Seq(S), w # <<>>
  PROVE  /\ Tail(w) \in Seq(S) /\ Len(w) \in Nat /\ Len(w) > 0 /\ Len(Tail(w)) = Len(w) - 1
         /\ Head(w) = w[1] /\ Head(w) \in S
         /\ \A i \in 1 .. Len(w) - 1 : Tail(w)[i] = w[i + 1]
  OBVIOUS

LEMMA FixtureTypes == FixtureInv /\ [FixtureNext]_fixtureVars => FixtureTypeOK'
<1> SUFFICES ASSUME FixtureInv, [FixtureNext]_fixtureVars PROVE FixtureTypeOK'
  OBVIOUS
<1> USE DEF FixtureInv, InThroughput, InCase
<1>0. f_wire \in Seq(Texts) /\ f_answers \in Seq({"home", "elsewhere"})
  BY DEF FixtureTypeOK
<1>a. Append(f_wire, "query") \in Seq(Texts) /\ Append(f_wire, "text") \in Seq(Texts)
  <2>1. "query" \in Texts /\ "text" \in Texts
    BY DEF Texts
  <2> QED BY <1>0, <2>1, Written
<1>1. CASE Resize
  BY <1>1 DEF Resize, FixtureTypeOK, geometryVars, caseVars, driverVars, Timing
<1>2. CASE TerminalReads
  <2>1. f_wire' \in Seq(Texts)
    BY <1>2, Read DEF TerminalReads, FixtureTypeOK
  <2>2. f_answers' \in Seq({"home", "elsewhere"})
    <3>1. PICK x \in {"home", "elsewhere"} : f_answers' \in {f_answers, Append(f_answers, x)}
      BY <1>2 DEF TerminalReads
    <3> QED BY <1>0, <3>1, Written
  <2> QED BY <1>2, <2>1, <2>2 DEF TerminalReads, FixtureTypeOK, geometryVars, caseVars, driverVars, ptyVars
<1>3. CASE HandleResize
  <2>1. f_wire' \in Seq(Texts)
    BY <1>0, <1>a, <1>3 DEF HandleResize
  <2>2. f_generation' = f_generation + 1 /\ f_winch' = FALSE /\ f_generation \in Nat
    BY <1>3 DEF HandleResize, RefreshSize, FixtureTypeOK
  <2>3. UNCHANGED <<f_pc, f_answers, f_caseGeneration, f_disturbed, f_throughput>>
    BY <1>3 DEF HandleResize, caseVars
  <2>4. f_generation' \in Nat
    BY <2>2, SMT
  <2>5. f_winch' \in BOOLEAN
    BY <2>2, Zenon
  <2> QED BY <2>1, <2>3, <2>4, <2>5, Zenon DEF FixtureTypeOK
<1>4. CASE FixtureStarts
  BY <1>4 DEF FixtureStarts, FixtureTypeOK, caseVars, driverVars
<1>5. CASE ViewportReady
  BY <1>5 DEF ViewportReady, RefreshSize, FixtureTypeOK, caseVars, driverVars, ptyVars
<1>6. CASE BeginCase
  <2>1. f_wire' \in Seq(Texts)
    BY <1>a, <1>6 DEF BeginCase
  <2> QED BY <1>6, <2>1 DEF BeginCase, RefreshSize, FixtureTypeOK, driverVars, ptyVars
<1>7. CASE StartTiming
  <2>1. f_answers' \in Seq({"home", "elsewhere"})
    BY <1>7, Read DEF StartTiming, TakeAnswer, FixtureTypeOK
  <2> QED BY <1>7, <2>1 DEF StartTiming, FixtureTypeOK, geometryVars, caseVars, driverVars
<1>8. CASE WritePayload
  <2>1. Current \in Texts
    BY <1>8, CurrentPayload DEF WritePayload, CasePlace
  <2>2. f_wire' \in Seq(Texts)
    BY <1>8, <2>1 DEF WritePayload, FixtureTypeOK
  <2> QED BY <1>8, <2>2 DEF WritePayload, FixtureTypeOK, geometryVars, caseVars, driverVars, ptyVars
<1>9. CASE AskEnd
  <2>1. f_wire' \in Seq(Texts)
    BY <1>a, <1>9 DEF AskEnd
  <2> QED BY <1>9, <2>1 DEF AskEnd, FixtureTypeOK, geometryVars, caseVars, driverVars, ptyVars
<1>10. CASE EndCase
  <2> DEFINE case == [name |-> Current, disturbed |-> f_disturbed,
                      unread |-> \E i \in DOMAIN f_wire : f_wire[i] = Current,
                      attached |-> d_client # "gone"]
             Case == [name : Texts, disturbed : BOOLEAN, unread : BOOLEAN, attached : BOOLEAN]
  <2>1. Current \in Texts
    BY <1>10, CurrentPayload DEF EndCase, CasePlace
  <2>2. case \in Case
    BY <2>1, Zenon DEF FixtureTypeOK
  <2>3. f_throughput' = [f_throughput EXCEPT !.cases = Append(@, case)]
    BY <1>10 DEF EndCase
  <2>4. f_throughput \in [cases : Seq(Case), failed : BOOLEAN]
    BY DEF FixtureTypeOK
  <2> HIDE DEF case, Case
  <2>5. f_throughput' \in [cases : Seq(Case), failed : BOOLEAN]
    BY <2>2, <2>3, <2>4
  <2>6. f_answers' \in Seq({"home", "elsewhere"})
    BY <1>10, Read DEF EndCase, FixtureTypeOK
  <2> QED BY <1>10, <2>5, <2>6 DEF EndCase, FixtureTypeOK, geometryVars, caseVars, driverVars, ptyVars, Case
<1>11. CASE Fails
  BY <1>11 DEF Fails, FixtureTypeOK, geometryVars, caseVars, driverVars, ptyVars
<1>12. CASE FixtureReady
  BY <1>12 DEF FixtureReady, FixtureTypeOK, geometryVars, caseVars, driverVars, ptyVars
<1>13. CASE FixtureHungUp
  BY <1>13 DEF FixtureHungUp, FixtureTypeOK, geometryVars, caseVars, driverVars, ptyVars
<1>14. CASE StartDriver \/ ClientLeaves \/ Release \/ DriverEnds
  BY <1>14 DEF StartDriver, ClientLeaves, Release, DriverEnds, FixtureTypeOK, geometryVars, caseVars, ptyVars
<1>15. CASE UNCHANGED fixtureVars
  BY <1>15 DEF fixtureVars, FixtureTypeOK, geometryVars, caseVars, driverVars, ptyVars
<1> QED
  BY <1>1, <1>2, <1>3, <1>4, <1>5, <1>6, <1>7, <1>8, <1>9, <1>10, <1>11, <1>12, <1>13, <1>14, <1>15
  DEF FixtureNext, FixtureTimeout, WrongAnswer, GeometryChanged

(* Whatever the terminal reads, one query is answered by one answer, and   *)
(* the answer to the last one of a case comes behind its payload.          *)
LEMMA QueryStep == FixtureInv /\ [FixtureNext]_fixtureVars => OneQuery'
<1> SUFFICES ASSUME FixtureInv, [FixtureNext]_fixtureVars PROVE OneQuery'
  OBVIOUS
<1> USE DEF FixtureInv, InThroughput, InCase
<1>0. f_wire \in Seq(Texts) /\ f_answers \in Seq({"home", "elsewhere"}) /\ Len(f_wire) \in Nat
  BY DEF FixtureTypeOK
<1>a. ASSUME UNCHANGED <<f_wire, f_answers, f_throughput, f_pc>> PROVE OneQuery'
  BY <1>a DEF OneQuery, Unasked, NoQuery, Asked, Answered, Behind, Current
<1>1. CASE TerminalReads
  <2> DEFINE n == Len(f_wire) - 1
  <2>1. /\ f_wire # <<>> /\ Alive /\ f_wire' = Tail(f_wire) /\ f_pc' = f_pc /\ f_throughput' = f_throughput
        /\ (Head(f_wire) # "query" => f_answers' = f_answers)
        /\ (Head(f_wire) = "query" => \E a \in {"home", "elsewhere"} : f_answers' = Append(f_answers, a))
    BY <1>1 DEF TerminalReads
  <2>2. /\ n \in Nat /\ Len(f_wire) = n + 1 /\ Len(f_wire') = n /\ Head(f_wire) = f_wire[1]
        /\ \A i \in 1 .. n : f_wire'[i] = f_wire[i + 1]
    BY <1>0, <2>1, Read
  <2>3. Current' = Current
    BY <2>1 DEF Current
  <2> HIDE DEF n
  <2>4. ASSUME NoQuery PROVE NoQuery' /\ f_answers' = f_answers
    BY <2>1, <2>2, <2>4 DEF NoQuery
  <2>5. ASSUME Unasked PROVE Unasked'
    BY <2>4, <2>5 DEF Unasked
  <2>6. ASSUME Answered PROVE Answered'
    <3>1. NoQuery' /\ f_answers' = f_answers
      BY <2>4, <2>6 DEF Answered
    <3>2. f_pc = "end" => Behind(0)'
      BY <2>6, <2>2, <2>3 DEF Answered, Behind
    <3> QED BY <3>1, <3>2, <2>1, <2>6 DEF Answered
  <2>7. ASSUME Asked PROVE Asked' \/ Answered'
    <3> PICK q \in 1 .. n + 1 :
            /\ \A j \in 1 .. n + 1 : f_wire[j] = "query" <=> j = q
            /\ f_pc = "end" => Behind(q)
      BY <2>7, <2>2 DEF Asked
    <3>1. CASE q = 1
      <4>1. NoQuery'
        BY <3>1, <2>2 DEF NoQuery
      <4>2. Len(f_answers') = 1
        BY <3>1, <2>1, <2>2, <2>7, <1>0 DEF Asked
      <4>3. f_pc = "end" => Behind(0)'
        BY <3>1, <2>2, <2>3 DEF Behind
      <4> QED BY <4>1, <4>2, <4>3, <2>1 DEF Answered
    <3>2. CASE q # 1
      <4>1. q - 1 \in 1 .. n /\ f_answers' = <<>>
        BY <3>2, <2>1, <2>2, <2>7 DEF Asked
      <4>2. \A j \in 1 .. n : f_wire'[j] = "query" <=> j = q - 1
        BY <4>1, <2>2
      <4>3. f_pc = "end" => Behind(q - 1)'
        BY <4>1, <2>2, <2>3 DEF Behind
      <4> QED BY <4>1, <4>2, <4>3, <2>1, <2>2 DEF Asked
    <3> QED BY <3>1, <3>2
  <2> QED BY <2>1, <2>5, <2>6, <2>7 DEF OneQuery
<1>2. CASE HandleResize
  <2>1. /\ f_pc' = f_pc /\ f_answers' = f_answers /\ f_throughput' = f_throughput
        /\ f_wire' = IF f_phase \in {"ready", "awaiting_viewport"} THEN Append(f_wire, "text") ELSE f_wire
    BY <1>2 DEF HandleResize
  <2>2. CASE f_phase \notin {"ready", "awaiting_viewport"}
    BY <2>1, <2>2, <1>a
  <2>3. CASE f_phase \in {"ready", "awaiting_viewport"}
    <3>1. f_pc \notin InThroughput
      BY <2>3 DEF CasePlace
    <3>2. ASSUME Unasked PROVE Unasked'
      <4>1. /\ Len(f_wire') = Len(f_wire) + 1 /\ f_wire'[Len(f_wire) + 1] = "text"
            /\ \A i \in 1 .. Len(f_wire) : f_wire'[i] = f_wire[i]
        BY <1>0, <2>1, <2>3, Written
      <4> QED BY <4>1, <3>2, <1>0, <2>1 DEF Unasked, NoQuery
    <3> QED BY <3>1, <3>2, <2>1 DEF OneQuery
  <2> QED BY <2>2, <2>3
<1>3. CASE FixtureStarts \/ ViewportReady \/ FixtureReady
  <2>1. UNCHANGED <<f_wire, f_answers>> /\ f_pc \in {"absent", "viewport", "prepare"} /\ f_pc' \notin {"home", "end"}
    BY <1>3 DEF FixtureStarts, ViewportReady, FixtureReady
  <2> QED BY <2>1 DEF OneQuery, Unasked, NoQuery
<1>4. ASSUME Unasked, f_wire' = Append(f_wire, "query"), f_answers' = f_answers, f_pc' \in {"home", "end"}
      PROVE  OneQuery'
  <2>1. /\ Len(f_wire') = Len(f_wire) + 1 /\ f_wire'[Len(f_wire) + 1] = "query"
        /\ \A i \in 1 .. Len(f_wire) : f_wire'[i] = f_wire[i]
    BY <1>0, <1>4, Written
  <2>2. \A j \in 1 .. Len(f_wire') : f_wire'[j] = "query" <=> j = Len(f_wire')
    BY <1>0, <1>4, <2>1 DEF Unasked, NoQuery
  <2>3. Behind(Len(f_wire))'
    BY <1>0, <2>1 DEF Behind
  <2>4. Len(f_wire') \in 1 .. Len(f_wire')
    BY <1>0, <2>1
  <2>5. Asked'
    BY <2>2, <2>3, <2>4, <1>4 DEF Asked, Unasked
  <2> QED BY <2>5, <1>4 DEF OneQuery
<1>5. CASE BeginCase \/ AskEnd
  BY <1>5, <1>4 DEF BeginCase, AskEnd, OneQuery
<1>6. ASSUME f_answers # <<>>, f_answers' = Tail(f_answers), f_pc \in {"home", "end"}, f_wire' = f_wire,
             f_pc' \in {"writing", "prepare"}
      PROVE  OneQuery'
  <2>1. NoQuery /\ Len(f_answers) = 1
    BY <1>6 DEF OneQuery, Asked, Answered
  <2>2. f_answers' = <<>>
    BY <2>1, <1>0, <1>6
  <2> QED BY <2>1, <2>2, <1>6 DEF OneQuery, Unasked, NoQuery
<1>7. CASE StartTiming \/ EndCase
  BY <1>7, <1>6 DEF StartTiming, TakeAnswer, EndCase
<1>8. CASE WritePayload
  <2>1. Current \in Texts /\ Current # "query"
    BY <1>8, CurrentPayload DEF WritePayload, CasePlace
  <2>2. f_pc = "writing" /\ f_pc' = "asking" /\ f_wire' = Append(f_wire, Current) /\ f_answers' = f_answers
    BY <1>8 DEF WritePayload
  <2>3. /\ Len(f_wire') = Len(f_wire) + 1 /\ f_wire'[Len(f_wire) + 1] = Current
        /\ \A i \in 1 .. Len(f_wire) : f_wire'[i] = f_wire[i]
    BY <1>0, <2>1, <2>2, Written
  <2> QED BY <2>1, <2>2, <2>3, <1>0 DEF OneQuery, Unasked, NoQuery
<1>9. CASE Fails \/ FixtureHungUp
  BY <1>9 DEF Fails, FixtureHungUp, OneQuery
<1>10. CASE Resize \/ StartDriver \/ ClientLeaves \/ Release \/ DriverEnds \/ UNCHANGED fixtureVars
  BY <1>10, <1>a DEF Resize, StartDriver, ClientLeaves, Release, DriverEnds, fixtureVars
<1> QED
  BY <1>1, <1>2, <1>3, <1>5, <1>7, <1>8, <1>9, <1>10
  DEF FixtureNext, FixtureTimeout, WrongAnswer, GeometryChanged

(* The other parts of the invariant: none but SIGWINCH moves the           *)
(* generation inside a case, and a client that is gone stays gone.         *)
LEMMA PlaceStep == FixtureInv /\ [FixtureNext]_fixtureVars => (CasePlace /\ ResizeSeen /\ ReleasedAlone)'
<1> SUFFICES ASSUME FixtureInv, [FixtureNext]_fixtureVars PROVE (CasePlace /\ ResizeSeen /\ ReleasedAlone)'
  OBVIOUS
<1> USE DEF FixtureInv, InThroughput, InCase, CasePlace, ResizeSeen, ReleasedAlone
<1>1. f_generation \in Nat /\ f_caseGeneration \in Nat /\ f_winch \in BOOLEAN
  BY DEF FixtureTypeOK
<1>2. CASE Resize \/ TerminalReads
  BY <1>1, <1>2 DEF Resize, TerminalReads, geometryVars, caseVars, driverVars, ptyVars, Timing
<1>3. CASE HandleResize
  BY <1>1, <1>3 DEF HandleResize, RefreshSize, caseVars, driverVars, Timing
<1>4. CASE FixtureStarts \/ ViewportReady
  BY <1>1, <1>4 DEF FixtureStarts, ViewportReady, Record, RefreshSize, caseVars, driverVars, ptyVars, Timing
<1>5. CASE BeginCase
  BY <1>1, <1>5 DEF BeginCase, RefreshSize, driverVars, ptyVars, Timing
<1>6. CASE StartTiming \/ WritePayload \/ AskEnd
  BY <1>1, <1>6 DEF StartTiming, WritePayload, AskEnd, geometryVars, caseVars, driverVars, ptyVars, Timing
<1>7. CASE EndCase
  BY <1>1, <1>7 DEF EndCase, geometryVars, caseVars, driverVars, ptyVars, Timing
<1>8. CASE FixtureReady \/ FixtureHungUp
  BY <1>8 DEF FixtureReady, FixtureHungUp, Alive, Record, geometryVars, caseVars, driverVars, ptyVars, Timing
<1>9. CASE FixtureTimeout \/ WrongAnswer \/ GeometryChanged
  BY <1>9 DEF FixtureTimeout, WrongAnswer, GeometryChanged, Alive, Fails, geometryVars, caseVars, driverVars, ptyVars, Timing
<1>10. CASE StartDriver \/ ClientLeaves \/ Release \/ DriverEnds
  <2>1. UNCHANGED <<f_pc, f_phase, f_generation, f_caseGeneration, f_disturbed, f_winch, f_throughput>>
    BY <1>10 DEF StartDriver, ClientLeaves, Release, DriverEnds, geometryVars, caseVars, ptyVars
  <2>2. ReleasedAlone'
    <3>1. CASE StartDriver
      BY <3>1, <2>1 DEF StartDriver
    <3>2. CASE ClientLeaves
      BY <3>2, <2>1 DEF ClientLeaves
    <3>3. CASE Release
      BY <3>3, <2>1 DEF Release, MayRelease
    <3>4. CASE DriverEnds
      BY <3>4, <2>1 DEF DriverEnds
    <3> QED BY <1>10, <3>1, <3>2, <3>3, <3>4
  <2> QED BY <2>1, <2>2 DEF Timing
<1>11. CASE UNCHANGED fixtureVars
  BY <1>11 DEF fixtureVars, geometryVars, caseVars, driverVars, ptyVars, Timing
<1> QED
  BY <1>2, <1>3, <1>4, <1>5, <1>6, <1>7, <1>8, <1>9, <1>10, <1>11 DEF FixtureNext

LEMMA CaseStep == FixtureInv /\ [FixtureNext]_fixtureVars => CasesSound'
<1> SUFFICES ASSUME FixtureInv, [FixtureNext]_fixtureVars PROVE CasesSound'
  OBVIOUS
<1> USE DEF FixtureInv, InThroughput, InCase
<1>1. CASE EndCase
  <2> DEFINE case == [name |-> Current, disturbed |-> f_disturbed,
                      unread |-> \E i \in DOMAIN f_wire : f_wire[i] = Current,
                      attached |-> d_client # "gone"]
  <2>1. f_throughput' = [f_throughput EXCEPT !.cases = Append(@, case)] /\ d_detach' = d_detach
    BY <1>1 DEF EndCase, driverVars
  <2>2. ~f_disturbed
    BY <1>1 DEF EndCase, ResizeSeen, Timing, FixtureTypeOK
  <2>3. \A i \in DOMAIN f_wire : f_wire[i] # Current
    <3>1. Behind(0)
      BY <1>1 DEF EndCase, OneQuery, Asked, Answered
    <3>2. f_wire \in Seq(Texts)
      BY DEF FixtureTypeOK
    <3> QED BY <3>1, <3>2 DEF Behind
  <2>4. d_detach => d_client = "gone"
    BY <1>1 DEF EndCase, ReleasedAlone
  <2>5. ~case.disturbed /\ ~case.unread /\ (d_detach => ~case.attached)
    BY <2>2, <2>3, <2>4
  <2> HIDE DEF case
  <2>6. f_throughput.cases \in Seq([name : Texts, disturbed : BOOLEAN, unread : BOOLEAN, attached : BOOLEAN])
    BY DEF FixtureTypeOK
  <2>7. f_throughput'.cases = Append(f_throughput.cases, case)
    BY <2>1 DEF FixtureTypeOK
  <2> SUFFICES ASSUME NEW i \in DOMAIN f_throughput'.cases
               PROVE  /\ ~f_throughput'.cases[i].disturbed /\ ~f_throughput'.cases[i].unread
                      /\ (d_detach => ~f_throughput'.cases[i].attached)
    BY <2>1 DEF CasesSound
  <2>8. f_throughput'.cases[i] = case \/ (i \in DOMAIN f_throughput.cases /\ f_throughput'.cases[i] = f_throughput.cases[i])
    BY <2>6, <2>7
  <2> QED BY <2>5, <2>8 DEF CasesSound
<1>2. CASE StartDriver
  BY <1>2 DEF StartDriver, ReleasedAlone, CasesSound
<1>3. CASE Fails
  <2>1. f_throughput'.cases = f_throughput.cases /\ d_detach' = d_detach
    BY <1>3 DEF Fails, FixtureTypeOK, driverVars
  <2> QED BY <2>1 DEF CasesSound
<1>4. ASSUME UNCHANGED <<f_throughput, d_detach>> PROVE CasesSound'
  BY <1>4 DEF CasesSound
<1>5. CASE \/ Resize \/ TerminalReads \/ HandleResize \/ FixtureStarts \/ ViewportReady \/ BeginCase \/ StartTiming
           \/ WritePayload \/ AskEnd \/ FixtureReady \/ FixtureHungUp
  BY <1>5, <1>4 DEF Resize, TerminalReads, HandleResize, FixtureStarts, ViewportReady, BeginCase, StartTiming,
     WritePayload, AskEnd, FixtureReady, FixtureHungUp, driverVars
<1>6. CASE ClientLeaves \/ Release \/ DriverEnds \/ UNCHANGED fixtureVars
  BY <1>6, <1>4 DEF ClientLeaves, Release, DriverEnds, fixtureVars, driverVars
<1> QED
  BY <1>1, <1>2, <1>3, <1>5, <1>6 DEF FixtureNext, FixtureTimeout, WrongAnswer, GeometryChanged

(* A case that terminal_bench_fixture.py counts was timed on one geometry, *)
(* ended behind its payload and, with --detach, without a client, for any  *)
(* payloads and sizes and any number of resizes.                           *)
THEOREM FixtureCasesSound == ToolsSpec => []CasesSound
<1>1. ToolsInit => FixtureInv
  <2> SUFFICES ASSUME FixtureInit PROVE FixtureInv
    BY DEF ToolsInit
  <2>1. f_throughput = [cases |-> <<>>, failed |-> FALSE] /\ f_wire = <<>> /\ f_answers = <<>>
    BY DEF FixtureInit
  <2>2. FixtureTypeOK
    <3>1. \A S : <<>> \in Seq(S)
      OBVIOUS
    <3> DEFINE Case == [name : Texts, disturbed : BOOLEAN, unread : BOOLEAN, attached : BOOLEAN]
    <3>2. f_throughput \in [cases : Seq(Case), failed : BOOLEAN] /\ f_wire \in Seq(Texts)
      <4> HIDE DEF Case
      <4> QED BY <3>1, <2>1
    <3> QED BY <3>1, <3>2, <2>1 DEF FixtureInit, FixtureTypeOK, InThroughput, InCase
  <2>3. OneQuery
    BY <2>1 DEF FixtureInit, OneQuery, Unasked, NoQuery
  <2>4. CasesSound
    BY <2>1 DEF CasesSound
  <2> QED BY <2>1, <2>2, <2>3, <2>4
    DEF FixtureInit, FixtureInv, CasePlace, ResizeSeen, ReleasedAlone, InThroughput, InCase, Timing
<1>2. [ToolsNext]_toolVars => [FixtureNext]_fixtureVars
  BY DEF ToolsNext, toolVars, Placement, Gate, Native, Echo, Throughput, Isolated, Pacer, Slot, Machine
<1>3. FixtureInv /\ [FixtureNext]_fixtureVars => FixtureInv'
  BY FixtureTypes, QueryStep, PlaceStep, CaseStep DEF FixtureInv
<1>4. FixtureInv => CasesSound
  BY DEF FixtureInv
<1> QED BY <1>1, <1>2, <1>3, <1>4, PTL DEF ToolsSpec

--------------------------------------------------------------------------------
(* The performance gate (PerfGate).                                        *)

(* A finite set of numbers has a largest and a smallest element. *)
LEMMA Extremes ==
  ASSUME NEW S, IsFiniteSet(S), S # {}, S \subseteq Int
  PROVE  /\ Max(S) \in S /\ \A y \in S : y =< Max(S)
         /\ Min(S) \in S /\ \A y \in S : Min(S) =< y
<1> DEFINE Above(x) == {y \in S : y > x}
           Below(x) == {y \in S : y < x}
<1>1. \A x \in S : Above(x) \in FiniteSubsetsOf(S) /\ Below(x) \in FiniteSubsetsOf(S)
  BY FS_Subset DEF FiniteSubsetsOf
<1>2. IsWellFoundedOn(StrictSubsetOrdering(S), FiniteSubsetsOf(S))
  BY FS_StrictSubsetOrderingWellFounded
<1>3. \E x \in S : \A y \in S : x >= y
  <2> DEFINE T == {Above(x) : x \in S}
  <2>1. T \subseteq FiniteSubsetsOf(S) /\ T # {}
    BY <1>1
  <2>2. \E t \in T : \A u \in T : <<u, t>> \notin StrictSubsetOrdering(S)
    BY <1>2, <2>1, WFMin
  <2>3. PICK x \in S : \A z \in S : <<Above(z), Above(x)>> \notin StrictSubsetOrdering(S)
    BY <2>2
  <2>4. \A y \in S : x >= y
    <3> SUFFICES ASSUME NEW y \in S, y > x PROVE FALSE
      OBVIOUS
    <3>0. \A z \in S : z \in Int /\ (z > y => z > x) /\ ~(y > y)
      OBVIOUS
    <3>1. Above(y) \subseteq Above(x) /\ y \in Above(x) /\ y \notin Above(y)
      BY <3>0
    <3>2. <<Above(y), Above(x)>> \in StrictSubsetOrdering(S)
      BY <3>1, <1>1 DEF StrictSubsetOrdering, FiniteSubsetsOf
    <3> QED BY <3>2, <2>3
  <2> QED BY <2>4
<1>4. \E x \in S : \A y \in S : x =< y
  <2> DEFINE T == {Below(x) : x \in S}
  <2>1. T \subseteq FiniteSubsetsOf(S) /\ T # {}
    BY <1>1
  <2>2. \E t \in T : \A u \in T : <<u, t>> \notin StrictSubsetOrdering(S)
    BY <1>2, <2>1, WFMin
  <2>3. PICK x \in S : \A z \in S : <<Below(z), Below(x)>> \notin StrictSubsetOrdering(S)
    BY <2>2
  <2>4. \A y \in S : x =< y
    <3> SUFFICES ASSUME NEW y \in S, y < x PROVE FALSE
      OBVIOUS
    <3>0. \A z \in S : z \in Int /\ (z < y => z < x) /\ ~(y < y)
      OBVIOUS
    <3>1. Below(y) \subseteq Below(x) /\ y \in Below(x) /\ y \notin Below(y)
      BY <3>0
    <3>2. <<Below(y), Below(x)>> \in StrictSubsetOrdering(S)
      BY <3>1, <1>1 DEF StrictSubsetOrdering, FiniteSubsetsOf
    <3> QED BY <3>2, <2>3
  <2> QED BY <2>4
<1>5. Max(S) \in S /\ \A y \in S : Max(S) >= y
  BY <1>3 DEF Max
<1>6. Min(S) \in S /\ \A y \in S : Min(S) =< y
  BY <1>4 DEF Min
<1> QED BY <1>5, <1>6

(* The values of a list are finitely many. *)
LEMMA ValuesFinite ==
  ASSUME NEW n \in Nat, NEW v, DOMAIN v = 1 .. n, v = [i \in 1 .. n |-> v[i]]
  PROVE  IsFiniteSet(ToSet(v))
<1>1. v \in Surjection(1 .. n, ToSet(v))
  BY DEF Surjection, ToSet
<1>2. IsFiniteSet(1 .. n)
  BY FS_Interval
<1> QED BY <1>1, <1>2, FS_Surjection

(* The k-th smallest of a list is one of its values. *)
LEMMA RankedIsValue ==
  ASSUME NEW n \in Nat, NEW v \in [1 .. n -> Int], NEW k \in 1 .. n
  PROVE  Ranked(v, k) \in ToSet(v)
<1> DEFINE V == ToSet(v)
           AtMost(x) == {i \in 1 .. n : v[i] <= x}
           Less(x) == {i \in 1 .. n : v[i] < x}
           G == {x \in V : Cardinality(AtMost(x)) >= k}
<1>1. IsFiniteSet(V) /\ V # {} /\ V \subseteq Int /\ DOMAIN v = 1 .. n
  <2>1. IsFiniteSet(V)
    BY ValuesFinite
  <2>2. v[k] \in V
    BY DEF ToSet
  <2>3. V \subseteq Int
    BY DEF ToSet
  <2> QED BY <2>1, <2>2, <2>3
<1>2. \A i \in 1 .. n : v[i] \in V
  BY DEF ToSet
<1>3. \A x \in V : \E i \in 1 .. n : v[i] = x
  BY DEF ToSet
<1>4. IsFiniteSet(1 .. n) /\ Cardinality(1 .. n) = n
  BY FS_Interval
<1>5. \A x : Cardinality(AtMost(x)) \in Nat /\ Cardinality(Less(x)) \in Nat
  <2>1. \A x : IsFiniteSet(AtMost(x)) /\ IsFiniteSet(Less(x))
    BY <1>4, FS_Subset
  <2> QED BY <2>1, FS_CardinalityType
<1> HIDE DEF V
<1>6. IsFiniteSet(G) /\ G # {} /\ G \subseteq Int
  <2>1. Max(V) \in V /\ \A y \in V : y =< Max(V)
    BY <1>1, Extremes
  <2>2. AtMost(Max(V)) = 1 .. n
    BY <2>1, <1>2
  <2>3. Max(V) \in G
    <3>1. Cardinality(AtMost(Max(V))) = n
      BY <2>2, <1>4
    <3>2. Cardinality(AtMost(Max(V))) >= k
      <4> HIDE DEF AtMost
      <4> QED BY <3>1
    <3> QED BY <2>1, <3>2
  <2>4. G \in SUBSET V
    OBVIOUS
  <2>5. IsFiniteSet(G)
    BY <2>4, <1>1, FS_Subset
  <2> QED BY <2>3, <2>4, <2>5, <1>1
<1> DEFINE m == Min(G)
<1>7. m \in G /\ \A y \in G : m =< y
  BY <1>6, Extremes
<1> HIDE DEF m
<1>8. m \in V /\ m \in Int /\ Cardinality(AtMost(m)) >= k
  BY <1>7, <1>1
<1>9. Cardinality(Less(m)) < k
  <2> DEFINE B == {x \in V : x < m}
  <2>1. CASE B = {}
    <3>1. Less(m) = {}
      BY <2>1, <1>2
    <3> QED BY <3>1, FS_EmptySet
  <2>2. CASE B # {}
    <3>1. B \in SUBSET V
      OBVIOUS
    <3>2. IsFiniteSet(B)
      BY <3>1, <1>1, FS_Subset
    <3>3. Max(B) \in B /\ \A y \in B : y =< Max(B)
      BY <3>1, <3>2, <2>2, <1>1, Extremes
    <3> DEFINE w == Max(B)
    <3>4. w \in V /\ w \in Int /\ w < m /\ \A y \in V : y < m => y =< w
      BY <3>3, <1>1
    <3> HIDE DEF w
    <3>5. \A i \in 1 .. n : v[i] < m <=> v[i] =< w
      <4> SUFFICES ASSUME NEW i \in 1 .. n PROVE v[i] < m <=> v[i] =< w
        OBVIOUS
      <4>1. v[i] \in V /\ v[i] \in Int
        BY <1>2
      <4> QED BY <4>1, <3>4, <1>8
    <3>6. Less(m) = AtMost(w)
      BY <3>5
    <3>7. w \notin G
      BY <3>4, <1>7, <1>8
    <3>8. ~(Cardinality(AtMost(w)) >= k)
      BY <3>7, <3>4
    <3>9. Cardinality(AtMost(w)) \in Nat
      BY <1>5
    <3>10. Cardinality(Less(m)) = Cardinality(AtMost(w))
      BY <3>6
    <3> HIDE DEF AtMost, Less
    <3> QED BY <3>8, <3>9, <3>10
  <2> QED BY <2>1, <2>2
<1>10. \E x \in ToSet(v) :
         /\ Cardinality({i \in DOMAIN v : v[i] < x}) < k
         /\ Cardinality({i \in DOMAIN v : v[i] <= x}) >= k
  BY <1>1, <1>8, <1>9 DEF V
<1> QED BY <1>10 DEF Ranked

(* Twice the median lies between twice the smallest and the largest value. *)
LEMMA MedianBetween ==
  ASSUME NEW n \in Nat \ {0}, NEW v \in [1 .. n -> Nat]
  PROVE  /\ MedianTwice(v) \in Nat
         /\ 2 * Min(ToSet(v)) =< MedianTwice(v) /\ MedianTwice(v) =< 2 * Max(ToSet(v))
         /\ Min(ToSet(v)) \in ToSet(v) /\ Max(ToSet(v)) \in ToSet(v) /\ ToSet(v) \subseteq Nat
         /\ \A i \in 1 .. n : Min(ToSet(v)) =< v[i] /\ v[i] =< Max(ToSet(v))
<1> DEFINE V == ToSet(v)
<1>1. v \in [1 .. n -> Int] /\ Len(v) = n
  <2>1. v \in Seq(Nat)
    OBVIOUS
  <2> QED BY <2>1
<1>2. (n + 1) \div 2 \in 1 .. n /\ n \div 2 + 1 \in 1 .. n
  OBVIOUS
<1>3. Ranked(v, (n + 1) \div 2) \in V /\ Ranked(v, n \div 2 + 1) \in V
  BY <1>1, <1>2, RankedIsValue
<1>4. IsFiniteSet(V) /\ V # {} /\ V \subseteq Nat /\ \A i \in 1 .. n : v[i] \in V
  BY <1>3, ValuesFinite DEF ToSet
<1>5. /\ Max(V) \in V /\ \A y \in V : y =< Max(V)
      /\ Min(V) \in V /\ \A y \in V : Min(V) =< y
  BY <1>4, Extremes
<1> DEFINE a == Ranked(v, (n + 1) \div 2)
           b == Ranked(v, n \div 2 + 1)
<1>6. MedianTwice(v) = a + b
  BY <1>1 DEF MedianTwice
<1> HIDE DEF V, a, b
<1>7. a \in V /\ b \in V
  BY <1>3 DEF a, b
<1>8. /\ a \in Nat /\ b \in Nat /\ Min(V) \in Nat /\ Max(V) \in Nat
      /\ Min(V) =< a /\ a =< Max(V) /\ Min(V) =< b /\ b =< Max(V)
  BY <1>4, <1>5, <1>7
<1>9. a + b \in Nat /\ 2 * Min(V) =< a + b /\ a + b =< 2 * Max(V)
  BY <1>8
<1> QED BY <1>4, <1>5, <1>6, <1>9 DEF V

(* What the verdict reads of a run: natural times and payloads. *)
Timely(run) == \A n \in DOMAIN run.cases : run.cases[n].time \in [GateFields -> Nat] /\ run.cases[n].payload \in Nat

LEMMA SavedRunsTimely == \A run \in SavedRuns : Timely(run)
<1> DEFINE t == Max(GateTimes)
           usual == [f \in GateFields |-> t]
           plain == PlainRun(usual)
<1>1. t \in Nat
  <2>1. IsFiniteSet(GateTimes) /\ GateTimes # {} /\ GateTimes \subseteq Int /\ GateTimes \subseteq Nat
    BY GateAssumption
  <2>2. Max(GateTimes) \in GateTimes
    BY <2>1, Extremes
  <2> QED BY <2>1, <2>2
<1> HIDE DEF t
<1>2. usual \in [GateFields -> Nat]
  BY <1>1
<1> HIDE DEF usual
<1>3. \A times \in [GateFields -> Nat] : Timely(PlainRun(times))
  BY DEF PlainRun, Timely
<1>4. \A times \in [GateFields -> GateTimes] : times \in [GateFields -> Nat]
  BY GateAssumption
<1>5. \A run \in OddRuns(plain) : Timely(run)
  <2> SUFFICES ASSUME NEW run \in OddRuns(plain) PROVE Timely(run)
    OBVIOUS
  <2>1. plain = [readable |-> TRUE, metadata |-> "usual",
                 cases |-> [n \in GateNames |-> [time |-> usual, payload |-> 1]]]
    BY DEF PlainRun
  <2>2. CASE run \in {[plain EXCEPT !.readable = FALSE], [plain EXCEPT !.metadata = "other"]}
    <3>1. run.cases = [n \in GateNames |-> [time |-> usual, payload |-> 1]]
      BY <2>1, <2>2
    <3> QED BY <3>1, <1>2 DEF Timely
  <2>3. ASSUME NEW n \in GateNames, run = [plain EXCEPT !.cases = [x \in GateNames \ {n} |-> plain.cases[x]]]
        PROVE  Timely(run)
    <3>1. run.cases = [x \in GateNames \ {n} |-> [time |-> usual, payload |-> 1]]
      BY <2>1, <2>3
    <3> QED BY <3>1, <1>2 DEF Timely
  <2>4. ASSUME NEW n \in GateNames, run = [plain EXCEPT !.cases[n].payload = 2]
        PROVE  Timely(run)
    <3>1. run.cases = [x \in GateNames |-> [time |-> usual, payload |-> IF x = n THEN 2 ELSE 1]]
      BY <2>1, <2>4
    <3> QED BY <3>1, <1>2 DEF Timely
  <2> QED BY <2>2, <2>3, <2>4 DEF OddRuns
<1> QED BY <1>2, <1>3, <1>4, <1>5 DEF SavedRuns, t, usual

(* The times of one benchmark over runs that have it. *)
LEMMA TimesTyped ==
  ASSUME NEW k \in Nat, NEW runs \in Seq(SavedRuns), Len(runs) = k, NEW n, NEW f \in GateFields,
         \A i \in 1 .. k : n \in DOMAIN runs[i].cases
  PROVE  TimesOf(runs, n, f) \in [1 .. k -> Nat]
<1>1. DOMAIN runs = 1 .. k /\ \A i \in 1 .. k : runs[i] \in SavedRuns
  OBVIOUS
<1>2. \A i \in 1 .. k : runs[i].cases[n].time[f] \in Nat
  BY <1>1, SavedRunsTimely DEF Timely
<1> QED BY <1>1, <1>2 DEF TimesOf

LEMMA Grows == \A a, b, p \in Nat : a =< b => a * p =< b * p
  BY SMT

LEMMA Product == \A a, p \in Nat : a * p \in Nat
  BY SMT

(* Three steps of at most p per cent, from the slowest candidate run down  *)
(* to the fastest baseline run.                                            *)
LEMMA Compounded ==
  ASSUME NEW p \in Nat, NEW maxC \in Nat, NEW minC \in Nat, NEW medC \in Nat, NEW medB \in Nat,
         NEW maxB \in Nat, NEW minB \in Nat,
         maxC * 100 =< minC * p, 2 * minC =< medC, medC * 100 =< medB * p, medB =< 2 * maxB,
         maxB * 100 =< minB * p
  PROVE  maxC * 1000000 =< minB * p * p * p
<1>1. minC * 100 =< maxB * p
  <2>1. medB * p =< (2 * maxB) * p
    BY Grows
  <2>2. (2 * maxB) * p = 2 * (maxB * p) /\ maxB * p \in Nat /\ medB * p \in Nat
    BY SMT
  <2> DEFINE x == maxB * p
             y == medB * p
  <2>3. x \in Nat /\ y \in Nat /\ y =< 2 * x /\ medC * 100 =< y
    BY <2>1, <2>2
  <2> HIDE DEF x, y
  <2>4. minC * 100 =< x
    BY <2>3
  <2> QED BY <2>4 DEF x
<1>2. (maxB * p) * 100 =< (minB * p) * p
  <2>1. minB * p \in Nat /\ maxB * 100 \in Nat
    BY SMT
  <2>2. (maxB * 100) * p =< (minB * p) * p
    BY <2>1, Grows
  <2>3. (maxB * 100) * p = (maxB * p) * 100
    BY SMT
  <2> QED BY <2>2, <2>3
<1> DEFINE x == maxB * p
           q == minB * p
           r == q * p
<1>3. x \in Nat /\ q \in Nat /\ r \in Nat
  BY Product
<1>4. minC * 10000 =< r
  <2>1. minC * 100 =< x /\ x * 100 =< r
    BY <1>1, <1>2
  <2> HIDE DEF x, r
  <2> QED BY <2>1, <1>3, SMT
<1> HIDE DEF x, r
<1>5. (minC * 10000) * p =< r * p /\ r * p \in Nat
  <2>1. minC * 10000 \in Nat
    BY SMT
  <2> QED BY <2>1, <1>3, <1>4, Grows, Product, SMT
<1>6. (minC * 10000) * p = (minC * p) * 10000 /\ minC * p \in Nat
  BY SMT
<1> DEFINE s == minC * p
<1>7. s \in Nat /\ maxC * 100 =< s /\ s * 10000 =< r * p
  BY <1>5, <1>6, SMT
<1> HIDE DEF s
<1> DEFINE u == r * p
<1>8. maxC * 1000000 =< u
  <2>1. u \in Nat /\ s * 10000 =< u
    BY <1>5, <1>7, SMT
  <2> HIDE DEF u
  <2> QED BY <2>1, <1>7, SMT
<1> QED BY <1>8, SMT DEF u, r, q

(* A pass compares groups of the same benchmarks. *)
LEMMA ComparableRuns ==
  ASSUME NEW k \in Nat \ {0}, NEW b \in Seq(SavedRuns), NEW c \in Seq(SavedRuns), Len(b) = k, Len(c) = k,
         Comparable(b \o c)
  PROVE  \A i \in 1 .. k : DOMAIN b[i].cases = DOMAIN b[1].cases /\ DOMAIN c[i].cases = DOMAIN b[1].cases
<1> DEFINE all == b \o c
<1>1. /\ DOMAIN all = 1 .. k + k
      /\ \A i \in 1 .. k : all[i] = b[i] /\ all[k + i] = c[i]
  OBVIOUS
<1>2. \A i \in 1 .. k : i \in 1 .. k + k /\ k + i \in 1 .. k + k /\ 1 \in 1 .. k
  OBVIOUS
<1>3. \A i \in DOMAIN all : DOMAIN all[i].cases = DOMAIN all[1].cases
  BY DEF Comparable
<1> HIDE DEF all
<1> QED BY <1>1, <1>2, <1>3

(* A pass of perf_gate.py, on groups of any size. *)
LEMMA GatePass ==
  ASSUME NEW k \in Nat \ {0}, NEW b \in Seq(SavedRuns), NEW c \in Seq(SavedRuns), Len(b) = k, Len(c) = k,
         GateStatus({}, b, c) = 0, NEW n \in DOMAIN b[1].cases, NEW f \in GateFields,
         0 \notin ToSet(TimesOf(b, n, f)) \cup ToSet(TimesOf(c, n, f)),
         NEW i \in 1 .. k, NEW j \in 1 .. k
  PROVE  TimesOf(c, n, f)[i] * 1000000
           <= TimesOf(b, n, f)[j] * (100 + Threshold) * (100 + Threshold) * (100 + Threshold)
<1> DEFINE old == TimesOf(b, n, f)
           new == TimesOf(c, n, f)
           p == 100 + Threshold
<1>1. Comparable(b \o c) /\ ~Noisy(b) /\ ~Noisy(c)
  BY DEF GateStatus
<1>2. /\ \A x \in 1 .. k : n \in DOMAIN b[x].cases /\ n \in DOMAIN c[x].cases
      /\ n \in DOMAIN c[1].cases
  <2>1. \A x \in 1 .. k : DOMAIN b[x].cases = DOMAIN b[1].cases /\ DOMAIN c[x].cases = DOMAIN b[1].cases
    BY <1>1, ComparableRuns
  <2>2. 1 \in 1 .. k
    OBVIOUS
  <2> QED BY <2>1, <2>2
<1>3. old \in [1 .. k -> Nat] /\ new \in [1 .. k -> Nat]
  BY <1>2, TimesTyped
<1>4. /\ ~Slower(Max(ToSet(old)), Min(ToSet(old)), Threshold)
      /\ ~Slower(Max(ToSet(new)), Min(ToSet(new)), Threshold)
  BY <1>1, <1>2 DEF Noisy
<1>5. ~Slower(MedianTwice(new), MedianTwice(old), Threshold)
  BY DEF GateStatus
<1>6. 0 \notin ToSet(old) /\ 0 \notin ToSet(new) /\ p \in Nat
  BY GateAssumption
<1> HIDE DEF old, new
<1> DEFINE maxC == Max(ToSet(new))
           minC == Min(ToSet(new))
           maxB == Max(ToSet(old))
           minB == Min(ToSet(old))
           medC == MedianTwice(new)
           medB == MedianTwice(old)
<1>7. /\ medC \in Nat /\ 2 * minC =< medC /\ minC \in ToSet(new) /\ maxC \in ToSet(new) /\ ToSet(new) \subseteq Nat
      /\ new[i] =< maxC
  BY <1>3, MedianBetween
<1>8. /\ medB \in Nat /\ 2 * minB =< medB /\ medB =< 2 * maxB
      /\ minB \in ToSet(old) /\ maxB \in ToSet(old) /\ ToSet(old) \subseteq Nat
      /\ minB =< old[j]
  BY <1>3, MedianBetween
<1>9. minC # 0 /\ minB # 0 /\ {minC, maxC, minB, maxB} \subseteq Nat
  BY <1>6, <1>7, <1>8
<1>10. ~(maxC * 100 > minC * p) /\ ~(maxB * 100 > minB * p) /\ (medB # 0 => ~(medC * 100 > medB * p))
  BY <1>4, <1>5, <1>9 DEF Slower
<1>11. new[i] \in Nat /\ old[j] \in Nat
  BY <1>3
<1> HIDE DEF maxC, minC, maxB, minB, medC, medB, p
<1>12. medB # 0
  BY <1>8, <1>9
<1>13. minC * p \in Nat /\ minB * p \in Nat /\ medB * p \in Nat
  BY <1>6, <1>8, <1>9, Product
<1>14. maxC * 100 =< minC * p /\ maxB * 100 =< minB * p /\ medC * 100 =< medB * p
  <2> DEFINE x == minC * p
             y == minB * p
             z == medB * p
  <2>1. maxC \in Nat /\ maxB \in Nat /\ medC \in Nat /\ x \in Nat /\ y \in Nat /\ z \in Nat
    BY <1>7, <1>9, <1>13
  <2>2. ~(maxC * 100 > x) /\ ~(maxB * 100 > y) /\ ~(medC * 100 > z)
    BY <1>10, <1>12
  <2> HIDE DEF x, y, z
  <2>3. maxC * 100 =< x /\ maxB * 100 =< y /\ medC * 100 =< z
    BY ONLY <2>1, <2>2
  <2> QED BY <2>3 DEF x, y, z
<1>15. maxC * 1000000 =< minB * p * p * p
  <2>1. /\ p \in Nat /\ maxC \in Nat /\ minC \in Nat /\ medC \in Nat /\ medB \in Nat /\ maxB \in Nat /\ minB \in Nat
        /\ 2 * minC =< medC /\ medB =< 2 * maxB
    BY <1>6, <1>7, <1>8, <1>9
  <2> QED BY ONLY <2>1, <1>14, Compounded, SMT
<1>16. minB * p * p * p =< old[j] * p * p * p
  <2>1. minB * p \in Nat /\ minB * p * p \in Nat /\ old[j] * p \in Nat /\ old[j] * p * p \in Nat
    BY <1>6, <1>9, <1>11, Product
  <2>2. minB * p =< old[j] * p
    BY <1>6, <1>8, <1>9, <1>11, Grows
  <2>3. minB * p * p =< old[j] * p * p
    BY <1>6, <2>1, <2>2, Grows
  <2> QED BY <1>6, <2>1, <2>3, Grows
<1>17. minB * p * p * p \in Nat /\ old[j] * p * p * p \in Nat
  BY <1>6, <1>9, <1>11, Product
<1> DEFINE low == minB * p * p * p
           high == old[j] * p * p * p
<1>18. new[i] * 1000000 =< high
  <2>1. low \in Nat /\ high \in Nat /\ low =< high /\ maxC * 1000000 =< low
    BY ONLY <1>15, <1>16, <1>17, SMT
  <2>2. new[i] =< maxC /\ maxC \in Nat /\ new[i] \in Nat
    BY <1>7, <1>9, <1>11
  <2> HIDE DEF low, high
  <2> QED BY ONLY <2>1, <2>2, SMT
<1> QED BY <1>18, SMT DEF high, old, new, p

(* One run of each build: the gate finds no noise and judges the times     *)
(* themselves.                                                             *)
LEMMA SingleMedian ==
  ASSUME NEW x \in Nat, NEW v, v = [i \in 1 .. 1 |-> x]
  PROVE  MedianTwice(v) = 2 * x /\ Max(ToSet(v)) = x /\ Min(ToSet(v)) = x
<1>1. v \in [1 .. 1 -> Nat] /\ v[1] = x /\ 1 \in Nat \ {0} /\ 1 \in 1 .. 1
  OBVIOUS
<1>2. ToSet(v) = {x}
  BY DEF ToSet
<1>3. /\ MedianTwice(v) \in Nat /\ 2 * Min(ToSet(v)) =< MedianTwice(v) /\ MedianTwice(v) =< 2 * Max(ToSet(v))
      /\ Min(ToSet(v)) \in ToSet(v) /\ Max(ToSet(v)) \in ToSet(v)
  BY <1>1, MedianBetween
<1>4. Min(ToSet(v)) = x /\ Max(ToSet(v)) = x
  BY <1>2, <1>3
<1>5. 2 * x =< MedianTwice(v) /\ MedianTwice(v) =< 2 * x /\ MedianTwice(v) \in Nat
  BY <1>3, <1>4
<1> QED BY <1>4, <1>5

LEMMA SingleQuiet ==
  ASSUME NEW run \in SavedRuns
  PROVE  ~Noisy(<<run>>)
<1> SUFFICES ASSUME NEW n \in DOMAIN run.cases, NEW f \in GateFields
             PROVE  ~Slower(Max(ToSet(TimesOf(<<run>>, n, f))), Min(ToSet(TimesOf(<<run>>, n, f))), Threshold)
  BY DEF Noisy
<1> DEFINE x == run.cases[n].time[f]
<1>1. x \in Nat
  BY SavedRunsTimely DEF Timely
<1>2. TimesOf(<<run>>, n, f) = [i \in 1 .. 1 |-> x]
  BY DEF TimesOf
<1>3. Max(ToSet(TimesOf(<<run>>, n, f))) = x /\ Min(ToSet(TimesOf(<<run>>, n, f))) = x
  BY <1>1, <1>2, SingleMedian
<1> HIDE DEF x
<1>4. x * 100 =< x * (100 + Threshold)
  <2>1. 100 \in Nat /\ 100 + Threshold \in Nat /\ 100 =< 100 + Threshold
    BY GateAssumption, SMT
  <2>2. 100 * x =< (100 + Threshold) * x
    BY <2>1, <1>1, Grows, SMT
  <2>3. 100 * x = x * 100 /\ (100 + Threshold) * x = x * (100 + Threshold)
    BY <2>1, <1>1, SMT
  <2> QED BY <2>2, <2>3, SMT
<1>5. x * (100 + Threshold) \in Nat
  BY <1>1, GateAssumption, Product, SMT
<1>6. ~Slower(x, x, Threshold)
  BY <1>1, <1>4, <1>5, SMT DEF Slower
<1> QED BY <1>3, <1>6

LEMMA SinglesAgree ==
  ASSUME NEW options, NEW old \in SavedRuns, NEW new \in SavedRuns
  PROVE  /\ CompareStatus(old, new) = 2 <=> GateStatus(options, <<old>>, <<new>>) = 2
         /\ CompareStatus(old, new) = 1 => GateStatus(options, <<old>>, <<new>>) = 1
<1>1. <<old>> \o <<new>> = <<old, new>>
  <2> DEFINE s == <<old>> \o <<new>>
             t == <<old, new>>
  <2>1. s \in Seq(SavedRuns) /\ t \in Seq(SavedRuns)
    OBVIOUS
  <2>2. Len(s) = 2 /\ s[1] = old /\ s[2] = new
    OBVIOUS
  <2>3. Len(t) = 2 /\ t[1] = old /\ t[2] = new
    OBVIOUS
  <2> HIDE DEF s, t
  <2>4. \A i \in 1 .. Len(s) : s[i] = t[i]
    BY <2>2, <2>3
  <2>5. s = t
    BY <2>1, <2>2, <2>3, <2>4, SeqEqual
  <2> QED BY <2>5 DEF s, t
<1>2. ~Noisy(<<old>>) /\ ~Noisy(<<new>>)
  BY SingleQuiet
<1>3. CompareStatus(old, new) = 2 <=> ~Comparable(<<old, new>>)
  BY DEF CompareStatus
<1>4. GateStatus(options, <<old>>, <<new>>) = 2 <=> ~Comparable(<<old, new>>)
  <2> DEFINE Worse == \E n \in DOMAIN <<old>>[1].cases :
                        \/ \E f \in GateFields : Slower(MedianTwice(TimesOf(<<new>>, n, f)),
                                                        MedianTwice(TimesOf(<<old>>, n, f)), Threshold)
                        \/ PayloadDelta(<<old>>, <<new>>, n) # 0
  <2>1. GateStatus(options, <<old>>, <<new>>)
          = IF ~Comparable(<<old>> \o <<new>>) \/ ("--allow-noisy" \notin options /\ (Noisy(<<old>>) \/ Noisy(<<new>>)))
              THEN 2 ELSE IF Worse THEN 1 ELSE 0
    BY DEF GateStatus
  <2> HIDE DEF Worse
  <2>2. GateStatus(options, <<old>>, <<new>>) = IF ~Comparable(<<old, new>>) THEN 2 ELSE IF Worse THEN 1 ELSE 0
    BY <1>1, <1>2, <2>1, Zenon
  <2>3. CASE Comparable(<<old, new>>)
    <3>1. GateStatus(options, <<old>>, <<new>>) = IF Worse THEN 1 ELSE 0
      BY <2>2, <2>3, Zenon
    <3> QED BY <2>3, <3>1
  <2>4. CASE ~Comparable(<<old, new>>)
    BY <2>2, <2>4, Zenon
  <2> QED BY <2>3, <2>4
<1>5. ASSUME CompareStatus(old, new) = 1 PROVE GateStatus(options, <<old>>, <<new>>) = 1
  <2>1. Comparable(<<old, new>>)
    BY <1>5 DEF CompareStatus
  <2>2. PICK n \in DOMAIN old.cases :
             \/ Slower(new.cases[n].time["p50"], old.cases[n].time["p50"], Threshold)
             \/ Slower(new.cases[n].payload, old.cases[n].payload, Threshold)
    BY <1>5 DEF CompareStatus
  <2>3. n \in DOMAIN new.cases
    BY <2>1 DEF Comparable
  <2>4. "p50" \in GateFields /\ Threshold \in Nat
    BY GateAssumption
  <2>5. CASE Slower(new.cases[n].time["p50"], old.cases[n].time["p50"], Threshold)
    <3> DEFINE x == new.cases[n].time["p50"]
               y == old.cases[n].time["p50"]
    <3>1. x \in Nat /\ y \in Nat
      BY <2>3, <2>4, SavedRunsTimely DEF Timely
    <3>2. TimesOf(<<new>>, n, "p50") = [i \in 1 .. 1 |-> x] /\ TimesOf(<<old>>, n, "p50") = [i \in 1 .. 1 |-> y]
      BY DEF TimesOf
    <3>3. Slower(x, y, Threshold)
      BY <2>5
    <3> HIDE DEF x, y
    <3>4. MedianTwice(TimesOf(<<new>>, n, "p50")) = 2 * x /\ MedianTwice(TimesOf(<<old>>, n, "p50")) = 2 * y
      BY <3>1, <3>2, SingleMedian
    <3>5. Slower(2 * x, 2 * y, Threshold)
      <4> DEFINE q == y * (100 + Threshold)
      <4>1. (2 * y) * (100 + Threshold) = 2 * q /\ q \in Nat
        BY <3>1, <2>4, SMT
      <4>2. y # 0 /\ x * 100 > q
        BY <3>3 DEF Slower
      <4> HIDE DEF q
      <4>3. 2 * y # 0 /\ (2 * x) * 100 > 2 * q
        BY <3>1, <4>1, <4>2, SMT
      <4> QED BY <4>1, <4>3 DEF Slower
    <3> QED BY <1>1, <1>2, <2>1, <2>4, <3>4, <3>5 DEF GateStatus
  <2>6. CASE Slower(new.cases[n].payload, old.cases[n].payload, Threshold)
    <3> DEFINE x == new.cases[n].payload
               y == old.cases[n].payload
    <3>1. x \in Nat /\ y \in Nat
      BY <2>3, SavedRunsTimely DEF Timely
    <3>2. /\ [i \in DOMAIN <<new>> |-> <<new>>[i].cases[n].payload] = [i \in 1 .. 1 |-> x]
          /\ [i \in DOMAIN <<old>> |-> <<old>>[i].cases[n].payload] = [i \in 1 .. 1 |-> y]
      OBVIOUS
    <3>3. y # 0 /\ x * 100 > y * (100 + Threshold)
      BY <2>6 DEF Slower
    <3> HIDE DEF x, y
    <3>4. /\ MedianTwice([i \in DOMAIN <<new>> |-> <<new>>[i].cases[n].payload]) = 2 * x
          /\ MedianTwice([i \in DOMAIN <<old>> |-> <<old>>[i].cases[n].payload]) = 2 * y
      BY <3>1, <3>2, SingleMedian
    <3>5. x > y
      <4> DEFINE q == y * Threshold
      <4>1. y * (100 + Threshold) = y * 100 + q /\ q \in Nat
        BY <3>1, <2>4, SMT
      <4> HIDE DEF q
      <4> QED BY <4>1, <3>1, <3>3, SMT
    <3>6. PayloadDelta(<<old>>, <<new>>, n) = IF 2 * x - 2 * y < 0 THEN -(-(2 * x - 2 * y) \div 2) ELSE (2 * x - 2 * y) \div 2
      BY <3>4 DEF PayloadDelta
    <3>7. PayloadDelta(<<old>>, <<new>>, n) # 0
      BY <3>1, <3>5, <3>6, SMT
    <3> QED BY <1>1, <1>2, <2>1, <3>7 DEF GateStatus
  <2> QED BY <2>2, <2>5, <2>6
<1> QED BY <1>3, <1>4, <1>5

(* Runs are what the suite saved, as many as it was asked for once it is   *)
(* done; the verdicts are those of the files.                              *)
GateInv ==
  /\ g_phase \in {"idle", "collecting", "collected", "aborted", "judged"}
  /\ g_files \in [Labels -> Seq(SavedRuns)]
  /\ g_phase \in {"collected", "judged"} => \A l \in Labels : Len(g_files[l]) = Repetitions
  /\ g_phase # "judged" => g_exit = 3
  /\ g_phase = "judged" => /\ g_exit = GateStatus(g_options, g_files["baseline"], g_files["candidate"])
                           /\ g_compare = CompareStatus(Head(g_files["baseline"]), Head(g_files["candidate"]))

LEMMA GateHolds == ToolsSpec => []GateInv
<1>1. ToolsInit => GateInv
  BY DEF ToolsInit, GateInit, GateInv
<1>2. [ToolsNext]_toolVars => [GateNext]_gateVars
  BY DEF ToolsNext, toolVars, Placement, Gate, Native, Echo, Throughput, Isolated, Pacer, Slot, Machine
<1>3. ASSUME GateInv, [GateNext]_gateVars PROVE GateInv'
  <2> USE DEF GateInv
  <2>1. CASE StartSuite
    BY <1>3, <2>1 DEF StartSuite
  <2>2. CASE SuiteRun
    <3>1. g_files' \in [Labels -> Seq(SavedRuns)]
      BY <1>3, <2>2 DEF SuiteRun
    <3> QED BY <1>3, <2>2, <3>1 DEF SuiteRun
  <2>3. CASE SuiteFails
    BY <1>3, <2>3 DEF SuiteFails
  <2>4. CASE SuiteEnds
    BY <1>3, <2>4 DEF SuiteEnds
  <2>5. CASE Judge
    BY <1>3, <2>5 DEF Judge
  <2>6. CASE UNCHANGED gateVars
    BY <1>3, <2>6 DEF gateVars
  <2> QED BY <1>3, <2>1, <2>2, <2>3, <2>4, <2>5, <2>6 DEF GateNext
<1> QED BY <1>1, <1>2, <1>3, PTL DEF ToolsSpec

(* A pass of perf_gate.py without --allow-noisy bounds every run of the    *)
(* candidate by every run of the baseline, although it compares medians,   *)
(* on each timing that no run of either build has at zero: for any number  *)
(* of repetitions, even or odd, any benchmarks, times and threshold.       *)
THEOREM GatePassBoundsEveryRun == ToolsSpec => []PassBoundsEveryRun
<1>1. GateInv => PassBoundsEveryRun
  <2> SUFFICES ASSUME GateInv, g_exit = 0, g_options = {}
               PROVE  PassBoundsEveryRun
    BY DEF PassBoundsEveryRun
  <2> DEFINE b == g_files["baseline"]
             c == g_files["candidate"]
  <2>1. GateStatus({}, b, c) = 0 /\ b \in Seq(SavedRuns) /\ c \in Seq(SavedRuns)
        /\ Len(b) = Repetitions /\ Len(c) = Repetitions
    BY DEF GateInv, Labels
  <2>2. Repetitions \in Nat \ {0}
    BY GateAssumption
  <2> HIDE DEF b, c
  <2>3. ASSUME NEW n \in DOMAIN b[1].cases, NEW f \in GateFields,
               0 \notin ToSet(TimesOf(b, n, f)) \cup ToSet(TimesOf(c, n, f)),
               NEW i \in DOMAIN TimesOf(c, n, f), NEW j \in DOMAIN TimesOf(b, n, f)
        PROVE  TimesOf(c, n, f)[i] * 1000000
                 <= TimesOf(b, n, f)[j] * (100 + Threshold) * (100 + Threshold) * (100 + Threshold)
    <3>1. i \in 1 .. Repetitions /\ j \in 1 .. Repetitions
      BY <2>1, <2>3, SMT DEF TimesOf
    <3> QED BY <2>1, <2>2, <2>3, <3>1, GatePass, SMT
  <2> QED BY <2>3, SMT DEF PassBoundsEveryRun, b, c
<1> QED BY <1>1, GateHolds, PTL

(* perf_gate.py and bench_compare.py agree on one run of each build: they  *)
(* refuse the same pairs, and a regression to the one is one to the other, *)
(* for any benchmarks, times, payloads and threshold.                      *)
THEOREM GateToolsAgree == ToolsSpec => []ToolsAgree
<1>1. GateInv => ToolsAgree
  <2> SUFFICES ASSUME GateInv, g_phase = "judged"
               PROVE  LET gate == GateStatus(g_options, <<Head(g_files["baseline"])>>, <<Head(g_files["candidate"])>>)
                      IN (g_compare = 2 <=> gate = 2) /\ (g_compare = 1 => gate = 1)
    BY DEF ToolsAgree
  <2> DEFINE old == Head(g_files["baseline"])
             new == Head(g_files["candidate"])
  <2>1. old \in SavedRuns /\ new \in SavedRuns
    <3>1. \A l \in Labels : g_files[l] \in Seq(SavedRuns) /\ Len(g_files[l]) = Repetitions
      BY DEF GateInv
    <3>2. \A l \in Labels : g_files[l] # <<>>
      BY <3>1, GateAssumption
    <3>3. \A l \in Labels : Head(g_files[l]) \in SavedRuns
      BY <3>1, <3>2
    <3> QED BY <3>3 DEF Labels
  <2>2. g_compare = CompareStatus(old, new)
    BY DEF GateInv
  <2> HIDE DEF old, new
  <2>3. /\ g_compare = 2 <=> GateStatus(g_options, <<old>>, <<new>>) = 2
        /\ g_compare = 1 => GateStatus(g_options, <<old>>, <<new>>) = 1
    BY <2>1, <2>2, SinglesAgree
  <2> QED BY <2>3 DEF old, new
<1> QED BY <1>1, GateHolds, PTL

--------------------------------------------------------------------------------
(* The slot trace (SlotTrace).                                             *)

LEMMA Larger == \A a, b \in Int : Max({a, b}) = IF a >= b THEN a ELSE b
<1> SUFFICES ASSUME NEW a \in Int, NEW b \in Int PROVE Max({a, b}) = IF a >= b THEN a ELSE b
  OBVIOUS
<1>1. \E x \in {a, b} : \A y \in {a, b} : x >= y
  OBVIOUS
<1>2. Max({a, b}) \in {a, b} /\ \A y \in {a, b} : Max({a, b}) >= y
  BY <1>1 DEF Max
<1> QED BY <1>2

LEMMA Smaller == \A a, b \in Int : Min({a, b}) = IF a =< b THEN a ELSE b
<1> SUFFICES ASSUME NEW a \in Int, NEW b \in Int PROVE Min({a, b}) = IF a =< b THEN a ELSE b
  OBVIOUS
<1>1. \E x \in {a, b} : \A y \in {a, b} : x =< y
  OBVIOUS
<1>2. Min({a, b}) \in {a, b} /\ \A y \in {a, b} : Min({a, b}) =< y
  BY <1>1 DEF Min
<1> QED BY <1>2

(* A clipped interval, one tick longer, and one of no length. *)
LEMMA ClippedGrows ==
  ASSUME NEW from \in Int, NEW to \in Int, s_window[1] \in Int, s_window[2] \in Int
  PROVE  /\ Clipped(from, to) \in Nat
         /\ Clipped(from, to + 1)
              = Clipped(from, to) + IF s_window[1] =< to /\ to < s_window[2] /\ from =< to THEN 1 ELSE 0
         /\ from >= to => Clipped(from, to) = 0
<1> DEFINE lo == IF from >= s_window[1] THEN from ELSE s_window[1]
           hi(t) == IF t =< s_window[2] THEN t ELSE s_window[2]
           span(t) == IF 0 >= hi(t) - lo THEN 0 ELSE hi(t) - lo
<1>1. ASSUME NEW t \in Int PROVE Clipped(from, t) = span(t)
  <2>1. Max({from, s_window[1]}) = lo /\ Min({t, s_window[2]}) = hi(t)
    BY Larger, Smaller
  <2>2. hi(t) - lo \in Int
    OBVIOUS
  <2>3. Max({0, hi(t) - lo}) = span(t)
    BY <2>2, Larger
  <2> QED BY <2>1, <2>3 DEF Clipped, Span
<1>2. Clipped(from, to) = span(to) /\ Clipped(from, to + 1) = span(to + 1)
  BY <1>1
<1> QED BY <1>2

(* The fields of analyze()'s locals. *)
IsReplay(r) ==
  r = [state |-> r.state, previous |-> r.previous, demand |-> r.demand, pending |-> r.pending,
       frames |-> r.frames, dirtyBusy |-> r.dirtyBusy, eligibleBusy |-> r.eligibleBusy]

View == [dirty : BOOLEAN, busy : BOOLEAN, visible : BOOLEAN, closed : BOOLEAN, deadline : Nat]

(* The replayed flags are the view's.  The deadline, which no step of a    *)
(* frame records, is the view's while the slot is busy.                    *)
Follows ==
  LET state == s_replay.state
  IN /\ state.dirty = s_view.dirty /\ state.busy = s_view.busy
     /\ state.visible = s_view.visible /\ state.closed = s_view.closed
     /\ s_view.busy => state.deadline = s_view.deadline

(* What analyze() has counted, and what it will count of the interval that *)
(* is open, is the time blocked so far.                                    *)
Open(from) == IF Blocked(s_replay.state) THEN Clipped(from, s_now) ELSE 0
Counted ==
  /\ s_blocked.dirty = s_replay.dirtyBusy + Open(s_replay.previous)
  /\ s_blocked.eligible = s_replay.eligibleBusy + Open(Max({s_replay.previous, s_replay.state.deadline}))

SlotTypeOK ==
  /\ s_pc \in {"idle", "recording", "closing", "closed"}
  /\ s_now \in Nat /\ s_window \in Nat \X Nat
  /\ s_view \in View /\ s_replay.state \in View /\ IsReplay(s_replay)
  /\ s_replay.previous \in Nat /\ s_replay.previous =< s_now
  /\ s_replay.dirtyBusy \in Nat /\ s_replay.eligibleBusy \in Nat
  /\ s_blocked \in [dirty : Nat, eligible : Nat]

SlotInv ==
  /\ SlotTypeOK /\ Follows /\ Counted
  /\ s_view.busy <=> s_stage = "waiting"
  /\ s_view.closed <=> s_pc \in {"closing", "closed"}
  /\ s_pc = "idle" => s_now = 0 /\ s_stage = "free"

(* Account() brings the totals up to date, whatever was open. *)
LEMMA Accounted ==
  ASSUME SlotInv, NEW a, a = Account(s_replay)
  PROVE  /\ IsReplay(a) /\ a.previous = s_now /\ a.state = s_replay.state
         /\ a.dirtyBusy = s_blocked.dirty /\ a.eligibleBusy = s_blocked.eligible
         /\ s_blocked.dirty \in Nat /\ s_blocked.eligible \in Nat
<1> DEFINE r == s_replay
           due == Max({r.previous, r.state.deadline})
<1>1. /\ IsReplay(r) /\ r.previous \in Nat /\ r.state.deadline \in Nat
      /\ r.dirtyBusy \in Nat /\ r.eligibleBusy \in Nat
      /\ s_blocked.dirty = r.dirtyBusy + Open(r.previous) /\ s_blocked.eligible = r.eligibleBusy + Open(due)
      /\ s_blocked.dirty \in Nat /\ s_blocked.eligible \in Nat
  BY DEF SlotInv, SlotTypeOK, Counted, View
<1> HIDE DEF r
<1>2. CASE ~Blocked(r.state)
  <2>1. Open(r.previous) = 0 /\ Open(due) = 0
    BY <1>2 DEF Open, r
  <2>2. a = [r EXCEPT !.previous = s_now]
    BY <1>2 DEF Account, r
  <2>3. IsReplay(a) /\ a.previous = s_now /\ a.state = r.state /\ a.dirtyBusy = r.dirtyBusy /\ a.eligibleBusy = r.eligibleBusy
    BY <2>2, <1>1 DEF IsReplay
  <2> QED BY <1>1, <2>1, <2>3 DEF r
<1>3. CASE Blocked(r.state)
  <2>1. Open(r.previous) = Clipped(r.previous, s_now) /\ Open(due) = Clipped(due, s_now)
    BY <1>3 DEF Open, r
  <2> DEFINE d == Waited(r.demand, r.previous, due)
  <2>2. a = [r EXCEPT !.previous = s_now, !.dirtyBusy = @ + Clipped(r.previous, s_now),
                      !.eligibleBusy = @ + Clipped(due, s_now), !.demand = d]
    BY <1>3 DEF Account, r
  <2> HIDE DEF d, due
  <2>3. /\ IsReplay(a) /\ a.previous = s_now /\ a.state = r.state
        /\ a.dirtyBusy = r.dirtyBusy + Clipped(r.previous, s_now)
        /\ a.eligibleBusy = r.eligibleBusy + Clipped(due, s_now)
    BY <2>2, <1>1 DEF IsReplay
  <2> QED BY <1>1, <2>1, <2>3 DEF r
<1> QED BY <1>2, <1>3

(* After an event nothing is open. *)
LEMMA EventCounted ==
  ASSUME SlotInv, NEW a, a = Account(s_replay), s_now' = s_now, s_window' = s_window, s_blocked' = s_blocked,
         s_view' \in View, IsReplay(s_replay'), s_replay'.state \in View,
         s_replay'.previous = a.previous, s_replay'.dirtyBusy = a.dirtyBusy,
         s_replay'.eligibleBusy = a.eligibleBusy, s_pc' \in {"idle", "recording", "closing", "closed"}
  PROVE  SlotTypeOK' /\ Counted'
<1>1. /\ a.previous = s_now /\ a.dirtyBusy = s_blocked.dirty /\ a.eligibleBusy = s_blocked.eligible
      /\ s_blocked.dirty \in Nat /\ s_blocked.eligible \in Nat
  BY Accounted
<1>2. s_now \in Nat /\ s_window \in Nat \X Nat /\ s_blocked \in [dirty : Nat, eligible : Nat]
  BY DEF SlotInv, SlotTypeOK
<1>3. SlotTypeOK'
  BY <1>1, <1>2 DEF SlotTypeOK
<1> DEFINE due == Max({s_replay'.previous, s_replay'.state.deadline})
<1>4. due \in Int /\ due >= s_now'
  <2>1. s_replay'.state.deadline \in Int /\ s_replay'.previous \in Int /\ s_replay'.previous = s_now
    BY <1>1, <1>2 DEF View
  <2> QED BY <2>1, Larger
<1>5. s_window[1] \in Int /\ s_window[2] \in Int /\ s_now \in Int
  BY <1>2
<1> HIDE DEF due
<1>6. Clipped(s_now, s_now) = 0 /\ Clipped(due, s_now) = 0
  BY <1>4, <1>5, ClippedGrows
<1>7. Clipped(s_now, s_now)' = 0 /\ Clipped(due, s_now') = Clipped(due, s_now)
  BY <1>6 DEF Clipped
<1>8. Open(s_replay.previous)' = 0
  BY <1>1, <1>6 DEF Open, Clipped
<1>9. Open(Max({s_replay.previous, s_replay.state.deadline}))' = 0
  BY <1>6 DEF Open, Clipped, due
<1> QED BY <1>1, <1>3, <1>8, <1>9 DEF Counted

LEMMA SlotStep == SlotInv /\ [SlotNext]_slotVars => SlotInv'
<1> SUFFICES ASSUME SlotInv, [SlotNext]_slotVars PROVE SlotInv'
  OBVIOUS
<1>0. /\ SlotTypeOK /\ Follows /\ Counted
      /\ (s_view.busy <=> s_stage = "waiting")
      /\ (s_view.closed <=> s_pc \in {"closing", "closed"})
      /\ (s_pc = "idle" => s_now = 0 /\ s_stage = "free")
  BY DEF SlotInv
<1>1. /\ s_view \in View /\ s_replay.state \in View /\ IsReplay(s_replay) /\ s_now \in Nat
      /\ s_pc \in {"idle", "recording", "closing", "closed"}
  BY <1>0 DEF SlotTypeOK
<1> DEFINE a == Account(s_replay)
<1>2. IsReplay(a) /\ a.state = s_replay.state
  BY Accounted
<1> HIDE DEF a
<1>3. CASE MeasureStart
  <2>1. PICK dirty \in BOOLEAN, busy \in BOOLEAN, visible \in BOOLEAN, deadline \in 0 .. FramePeriod :
          /\ s_view' = [dirty |-> dirty, busy |-> busy, visible |-> visible, closed |-> FALSE, deadline |-> deadline]
          /\ s_stage' = IF busy THEN "waiting" ELSE "free"
          /\ s_replay' = [s_replay EXCEPT !.state = s_view', !.frames = IF busy THEN <<Nothing>> ELSE <<>>]
    BY <1>3 DEF MeasureStart
  <2>2. /\ s_pc = "idle" /\ s_pc' = "recording" /\ s_now' = s_now /\ s_blocked' = s_blocked
        /\ s_window' \in Nat \X Nat /\ s_now = 0
    BY <1>0, <1>3, SlotAssumption DEF MeasureStart
  <2>3. /\ s_view' \in View /\ s_view'.busy = busy /\ s_view'.closed = FALSE
    <3>1. deadline \in Nat
      BY DEF FramePeriod
    <3> QED BY <2>1, <3>1 DEF View
  <2>4. /\ IsReplay(s_replay') /\ s_replay'.state = s_view' /\ s_replay'.previous = s_replay.previous
        /\ s_replay'.dirtyBusy = s_replay.dirtyBusy /\ s_replay'.eligibleBusy = s_replay.eligibleBusy
    BY <2>1, <1>1 DEF IsReplay
  <2>5. SlotTypeOK'
    BY <1>0, <2>2, <2>3, <2>4 DEF SlotTypeOK
  <2>6. Follows'
    BY <2>4 DEF Follows
  <2>7. ~Blocked(s_replay.state)
    BY <1>0, <2>2 DEF Follows, Blocked
  <2>8. s_blocked.dirty = s_replay.dirtyBusy /\ s_blocked.eligible = s_replay.eligibleBusy
    BY <1>0, <2>7 DEF Counted, Open, SlotTypeOK
  <2>9. s_replay'.previous = 0 /\ s_replay'.state.deadline \in Nat
    BY <1>0, <2>2, <2>3, <2>4 DEF SlotTypeOK, View
  <2> DEFINE due == Max({s_replay'.previous, s_replay'.state.deadline})
  <2>10. due \in Int /\ due >= 0
    BY <2>9, Larger
  <2>11. s_window'[1] \in Int /\ s_window'[2] \in Int
    BY <2>2
  <2> HIDE DEF due
  <2>12. \A from \in Int : from >= 0 => Max({0, Min({0, s_window'[2]}) - Max({from, s_window'[1]})}) = 0
    <3> DEFINE w1 == s_window'[1]
               w2 == s_window'[2]
    <3> HIDE DEF w1, w2
    <3>0. w1 \in Int /\ w2 \in Int
      BY <2>11 DEF w1, w2
    <3>1. ASSUME NEW from \in Int, from >= 0 PROVE Max({0, Min({0, w2}) - Max({from, w1})}) = 0
      <4>1. Min({0, w2}) \in Int /\ Min({0, w2}) =< 0
        BY <3>0, Smaller
      <4>2. Max({from, w1}) \in Int /\ Max({from, w1}) >= 0
        BY <3>0, <3>1, Larger
      <4> DEFINE d == Min({0, w2}) - Max({from, w1})
      <4>3. d \in Int /\ d =< 0
        BY <4>1, <4>2
      <4> HIDE DEF d
      <4>4. Max({0, d}) = 0
        BY <4>3, Larger
      <4> QED BY <4>4 DEF d
    <3> QED BY <3>1 DEF w1, w2
  <2>13. Open(s_replay.previous)' = 0
    <3>1. Max({0, Min({0, s_window'[2]}) - Max({0, s_window'[1]})}) = 0
      BY <2>12
    <3> QED BY <3>1, <2>2, <2>9 DEF Open, Clipped, Span
  <2>14. Open(Max({s_replay.previous, s_replay.state.deadline}))' = 0
    <3>1. Max({0, Min({0, s_window'[2]}) - Max({due, s_window'[1]})}) = 0
      BY <2>10, <2>12
    <3> QED BY <3>1, <2>2 DEF Open, Clipped, Span, due
  <2>15. Counted'
    BY <2>2, <2>4, <2>8, <2>13, <2>14, <1>0 DEF Counted, SlotTypeOK
  <2>16. (s_view.busy <=> s_stage = "waiting")'
    BY <2>1, <2>3
  <2> QED BY <1>0, <2>2, <2>3, <2>5, <2>6, <2>15, <2>16 DEF SlotInv
<1>4. CASE SlotTick
  <2>1. /\ s_pc \in {"recording", "closing"} /\ s_now' = s_now + 1
        /\ UNCHANGED <<s_pc, s_view, s_stage, s_window, s_replay>>
    BY <1>4 DEF SlotTick
  <2> DEFINE counted == Blocked(s_view) /\ s_window[1] <= s_now /\ s_now < s_window[2]
             one == IF counted THEN 1 ELSE 0
             two == IF counted /\ s_now >= s_view.deadline THEN 1 ELSE 0
  <2>2. s_blocked' = [dirty |-> s_blocked.dirty + one, eligible |-> s_blocked.eligible + two]
    BY <1>4 DEF SlotTick
  <2>3. one \in Nat /\ two \in Nat
    OBVIOUS
  <2>4. Blocked(s_view) <=> Blocked(s_replay.state)
    BY <1>0 DEF Follows, Blocked
  <2>5. Blocked(s_view) => s_replay.state.deadline = s_view.deadline
    BY <1>0 DEF Follows, Blocked
  <2> DEFINE prev == s_replay.previous
             due == Max({s_replay.previous, s_replay.state.deadline})
  <2>6. /\ prev \in Int /\ prev =< s_now /\ s_window[1] \in Int /\ s_window[2] \in Int /\ s_now \in Int
        /\ s_replay.state.deadline \in Int
    BY <1>0 DEF SlotTypeOK, View
  <2>7. due \in Int /\ (due =< s_now <=> s_replay.state.deadline =< s_now)
    <3> DEFINE dl == s_replay.state.deadline
    <3>1. due = IF prev >= dl THEN prev ELSE dl
      BY <2>6, Larger
    <3>2. dl \in Int /\ prev \in Int /\ prev =< s_now /\ s_now \in Int
      BY <2>6
    <3> HIDE DEF due, prev, dl
    <3>3. due \in Int /\ (due =< s_now <=> dl =< s_now)
      BY <3>1, <3>2
    <3> QED BY <3>3 DEF dl
  <2>8. /\ Clipped(prev, s_now) \in Nat /\ Clipped(due, s_now) \in Nat
        /\ Clipped(prev, s_now + 1)
             = Clipped(prev, s_now) + IF s_window[1] =< s_now /\ s_now < s_window[2] /\ prev =< s_now THEN 1 ELSE 0
        /\ Clipped(due, s_now + 1)
             = Clipped(due, s_now) + IF s_window[1] =< s_now /\ s_now < s_window[2] /\ due =< s_now THEN 1 ELSE 0
    BY <2>6, <2>7, ClippedGrows
  <2>9. Open(s_replay.previous)' = Open(prev) + one
    <3>1. Open(s_replay.previous)' = IF Blocked(s_replay.state) THEN Clipped(prev, s_now + 1) ELSE 0
      BY <2>1 DEF Open, Clipped
    <3> HIDE DEF prev, due
    <3> QED BY <3>1, <2>4, <2>6, <2>8 DEF Open
  <2>10. Open(Max({s_replay.previous, s_replay.state.deadline}))' = Open(due) + two
    <3>1. Open(Max({s_replay.previous, s_replay.state.deadline}))'
            = IF Blocked(s_replay.state) THEN Clipped(due, s_now + 1) ELSE 0
      BY <2>1 DEF Open, Clipped
    <3>2. Blocked(s_view) => (s_now >= s_view.deadline <=> due =< s_now)
      BY <2>5, <2>6, <2>7
    <3> HIDE DEF prev, due
    <3> QED BY <3>1, <3>2, <2>4, <2>6, <2>8 DEF Open
  <2>11. Open(prev) \in Nat /\ Open(due) \in Nat
    BY <2>8 DEF Open
  <2>12. /\ s_blocked.dirty = s_replay.dirtyBusy + Open(prev) /\ s_blocked.eligible = s_replay.eligibleBusy + Open(due)
         /\ s_blocked.dirty \in Nat /\ s_blocked.eligible \in Nat
         /\ s_replay.dirtyBusy \in Nat /\ s_replay.eligibleBusy \in Nat
    BY <1>0 DEF Counted, SlotTypeOK
  <2> HIDE DEF one, two, prev, due
  <2>13. Counted'
    <3>1. s_blocked'.dirty = s_blocked.dirty + one /\ s_blocked'.eligible = s_blocked.eligible + two
      BY <2>2
    <3>2. s_blocked'.dirty = s_replay.dirtyBusy + (Open(prev) + one)
          /\ s_blocked'.eligible = s_replay.eligibleBusy + (Open(due) + two)
      BY <3>1, <2>3, <2>11, <2>12
    <3> QED BY <3>2, <2>1, <2>9, <2>10 DEF Counted
  <2>14. SlotTypeOK'
    <3>1. s_blocked' \in [dirty : Nat, eligible : Nat]
      BY <2>2, <2>3, <2>12
    <3>2. s_now' \in Nat /\ s_replay.previous =< s_now'
      BY <2>1, <1>0 DEF SlotTypeOK
    <3> QED BY <3>1, <3>2, <2>1, <1>0 DEF SlotTypeOK
  <2> QED BY <1>0, <2>1, <2>13, <2>14 DEF SlotInv, Follows
<1>5. CASE RequestDraw
  <2>1. /\ s_pc = "recording" /\ s_view' = [s_view EXCEPT !.dirty = TRUE] /\ s_replay' = OnRequest(s_replay)
        /\ UNCHANGED <<s_pc, s_now, s_stage, s_window, s_blocked>>
    BY <1>5 DEF RequestDraw
  <2> DEFINE read == [a EXCEPT !.state = s_view]
  <2>2. WithState(s_replay) = read /\ read.state = s_view /\ ~s_view.closed /\ IsReplay(read)
        /\ read.previous = a.previous /\ read.dirtyBusy = a.dirtyBusy /\ read.eligibleBusy = a.eligibleBusy
    BY <1>0, <1>2, <2>1 DEF WithState, a, IsReplay
  <2> HIDE DEF read
  <2>3. s_replay' = [read EXCEPT !.state.dirty = TRUE,
           !.demand = IF read.demand = Nothing THEN [Nothing EXCEPT !.requestAt = s_now, !.observed = TRUE] ELSE read.demand]
    BY <2>1, <2>2 DEF OnRequest
  <2> DEFINE d == IF read.demand = Nothing THEN [Nothing EXCEPT !.requestAt = s_now, !.observed = TRUE] ELSE read.demand
  <2>4. s_replay' = [read EXCEPT !.state.dirty = TRUE, !.demand = d]
    BY <2>3
  <2> HIDE DEF d
  <2>5. /\ IsReplay(s_replay') /\ s_replay'.state = [s_view EXCEPT !.dirty = TRUE]
        /\ s_replay'.previous = a.previous /\ s_replay'.dirtyBusy = a.dirtyBusy /\ s_replay'.eligibleBusy = a.eligibleBusy
    BY <2>2, <2>4 DEF IsReplay
  <2>6. s_view' \in View /\ s_view'.busy = s_view.busy /\ s_view'.closed = s_view.closed /\ s_replay'.state = s_view'
    BY <2>1, <2>5, <1>1 DEF View
  <2>7. SlotTypeOK' /\ Counted'
    BY <2>1, <2>5, <2>6, EventCounted DEF a
  <2>8. Follows'
    BY <2>6 DEF Follows
  <2> QED BY <1>0, <2>1, <2>6, <2>7, <2>8 DEF SlotInv
<1>6. CASE Occlude
  <2>1. /\ s_pc = "recording" /\ s_view' = [s_view EXCEPT !.visible = ~@]
        /\ s_replay' = [a EXCEPT !.state = s_view']
        /\ UNCHANGED <<s_pc, s_now, s_stage, s_window, s_blocked>>
    BY <1>6 DEF Occlude, a
  <2>2. s_view' \in View /\ s_view'.busy = s_view.busy /\ s_view'.closed = s_view.closed
    BY <2>1, <1>1 DEF View
  <2>3. /\ IsReplay(s_replay') /\ s_replay'.state = s_view'
        /\ s_replay'.previous = a.previous /\ s_replay'.dirtyBusy = a.dirtyBusy /\ s_replay'.eligibleBusy = a.eligibleBusy
    BY <1>2, <2>1 DEF IsReplay
  <2>4. SlotTypeOK' /\ Counted'
    BY <2>1, <2>2, <2>3, EventCounted DEF a
  <2> QED BY <1>0, <2>1, <2>2, <2>3, <2>4 DEF SlotInv, Follows
<1>7. CASE Prepare
  <2>1. /\ s_pc = "recording" /\ s_stage = "free" /\ s_stage' = "preparing"
        /\ s_view' = [s_view EXCEPT !.dirty = FALSE, !.deadline = s_now + FramePeriod]
        /\ s_replay' = OnPrepareBegin(s_replay) /\ UNCHANGED <<s_pc, s_now, s_window, s_blocked>>
    BY <1>7 DEF Prepare
  <2>2. PICK p : s_replay' = [a EXCEPT !.state.dirty = FALSE, !.demand = Nothing, !.pending = p]
    BY <2>1 DEF OnPrepareBegin, a
  <2>3. /\ IsReplay(s_replay') /\ s_replay'.state = [s_replay.state EXCEPT !.dirty = FALSE]
        /\ s_replay'.previous = a.previous /\ s_replay'.dirtyBusy = a.dirtyBusy /\ s_replay'.eligibleBusy = a.eligibleBusy
    BY <1>2, <2>2 DEF IsReplay
  <2>4. /\ s_replay'.state \in View /\ s_view' \in View
        /\ s_view'.busy = s_view.busy /\ s_view'.closed = s_view.closed /\ ~s_view.busy
    <3>1. s_replay'.state \in View
      BY <1>1, <2>3 DEF View
    <3>2. s_now + FramePeriod \in Nat
      BY <1>1 DEF FramePeriod
    <3>3. s_view' \in View /\ s_view'.busy = s_view.busy /\ s_view'.closed = s_view.closed
      BY <1>1, <2>1, <3>2 DEF View
    <3>4. ~s_view.busy
      BY <1>0, <2>1
    <3> QED BY <3>1, <3>3, <3>4
  <2>5. SlotTypeOK' /\ Counted'
    BY <2>1, <2>3, <2>4, EventCounted DEF a
  <2>6. Follows'
    BY <1>0, <1>1, <2>1, <2>3, <2>4 DEF Follows, View
  <2> QED BY <1>0, <2>1, <2>4, <2>5, <2>6 DEF SlotInv
<1>8. CASE Prepared \/ Completed
  <2>1. /\ s_stage \in {"preparing", "completing"} /\ s_stage' \in {"prepared", "free"}
        /\ UNCHANGED <<s_pc, s_now, s_view, s_window, s_blocked>>
    BY <1>8 DEF Prepared, Completed
  <2>2. \E f, p : s_replay' = [a EXCEPT !.frames = f, !.pending = p]
    <3>1. CASE Prepared
      BY <3>1 DEF Prepared, OnPrepareEnd, a
    <3>2. CASE Completed
      <4>1. s_replay' = [a EXCEPT !.frames[Len(a.frames)].completeEnd = s_now]
        BY <3>2 DEF Completed, OnCompleteEnd, a
      <4>2. PICK f : f = [a.frames EXCEPT ![Len(a.frames)].completeEnd = s_now]
        OBVIOUS
      <4>3. s_replay' = [a EXCEPT !.frames = f]
        BY <4>1, <4>2
      <4>4. s_replay' = [a EXCEPT !.frames = f, !.pending = a.pending]
        BY <4>3, <1>2 DEF IsReplay
      <4> QED BY <4>4
    <3> QED BY <1>8, <3>1, <3>2
  <2>3. /\ IsReplay(s_replay') /\ s_replay'.state = s_replay.state
        /\ s_replay'.previous = a.previous /\ s_replay'.dirtyBusy = a.dirtyBusy /\ s_replay'.eligibleBusy = a.eligibleBusy
    BY <1>2, <2>2 DEF IsReplay
  <2>4. SlotTypeOK' /\ Counted'
    BY <1>1, <2>1, <2>3, EventCounted DEF a
  <2> QED BY <1>0, <2>1, <2>3, <2>4 DEF SlotInv, Follows
<1>9. CASE Submit
  <2>1. /\ s_stage = "prepared" /\ s_stage' = "waiting" /\ s_view' = [s_view EXCEPT !.busy = TRUE]
        /\ s_replay' = [[a EXCEPT !.state.busy = TRUE] EXCEPT !.state = s_view']
        /\ UNCHANGED <<s_pc, s_now, s_window, s_blocked>>
    BY <1>9 DEF Submit, OnWaitBegin, a
  <2>2. /\ IsReplay(s_replay') /\ s_replay'.state = s_view'
        /\ s_replay'.previous = a.previous /\ s_replay'.dirtyBusy = a.dirtyBusy /\ s_replay'.eligibleBusy = a.eligibleBusy
    BY <1>2, <2>1 DEF IsReplay
  <2>3. s_view' \in View /\ s_view'.busy = TRUE /\ s_view'.closed = s_view.closed
    BY <1>1, <2>1 DEF View
  <2>4. SlotTypeOK' /\ Counted'
    BY <1>1, <2>1, <2>2, <2>3, EventCounted DEF a
  <2>5. s_pc # "idle"
    BY <1>0, <2>1
  <2> QED BY <1>0, <2>1, <2>2, <2>3, <2>4, <2>5 DEF SlotInv, Follows
<1>10. CASE CompleteFrame
  <2>1. /\ s_stage = "waiting" /\ s_stage' = "completing" /\ s_view' = [s_view EXCEPT !.busy = FALSE]
        /\ s_replay' = [a EXCEPT !.state.busy = FALSE]
        /\ UNCHANGED <<s_pc, s_now, s_window, s_blocked>>
    BY <1>10 DEF CompleteFrame, OnCompleteBegin, a
  <2>2. /\ IsReplay(s_replay') /\ s_replay'.state = [s_replay.state EXCEPT !.busy = FALSE]
        /\ s_replay'.previous = a.previous /\ s_replay'.dirtyBusy = a.dirtyBusy /\ s_replay'.eligibleBusy = a.eligibleBusy
    BY <1>2, <2>1 DEF IsReplay
  <2>3. s_view' \in View /\ s_replay'.state \in View /\ s_view'.busy = FALSE /\ s_view'.closed = s_view.closed
    <3>1. s_view' \in View /\ s_view'.busy = FALSE /\ s_view'.closed = s_view.closed
      BY <1>1, <2>1 DEF View
    <3>2. s_replay'.state \in View
      BY <1>1, <2>2 DEF View
    <3> QED BY <3>1, <3>2
  <2>4. SlotTypeOK' /\ Counted'
    BY <1>1, <2>1, <2>2, <2>3, EventCounted DEF a
  <2>5. Follows'
    <3>1. /\ s_replay'.state.dirty = s_replay.state.dirty /\ s_replay'.state.visible = s_replay.state.visible
          /\ s_replay'.state.closed = s_replay.state.closed /\ s_replay'.state.busy = FALSE
      BY <1>1, <2>2 DEF View
    <3>2. /\ s_view'.dirty = s_view.dirty /\ s_view'.visible = s_view.visible
          /\ s_view'.closed = s_view.closed /\ s_view'.busy = FALSE
      BY <1>1, <2>1 DEF View
    <3> QED BY <1>0, <3>1, <3>2 DEF Follows
  <2> QED BY <1>0, <2>1, <2>3, <2>4, <2>5 DEF SlotInv
<1>11. CASE CloseWindow
  <2>1. /\ s_pc = "recording" /\ s_pc' = "closing" /\ s_view' = [s_view EXCEPT !.closed = TRUE]
        /\ s_replay' = [[a EXCEPT !.state = s_view] EXCEPT !.state.closed = TRUE]
        /\ UNCHANGED <<s_now, s_stage, s_window, s_blocked>>
    BY <1>11 DEF CloseWindow, OnCloseBegin, WithState, a
  <2>2. /\ IsReplay(s_replay') /\ s_replay'.state = [s_view EXCEPT !.closed = TRUE]
        /\ s_replay'.previous = a.previous /\ s_replay'.dirtyBusy = a.dirtyBusy /\ s_replay'.eligibleBusy = a.eligibleBusy
    BY <1>2, <2>1 DEF IsReplay
  <2>3. s_view' \in View /\ s_replay'.state = s_view' /\ s_view'.closed = TRUE /\ s_view'.busy = s_view.busy
    BY <1>1, <2>1, <2>2 DEF View
  <2>4. SlotTypeOK' /\ Counted'
    BY <1>1, <2>1, <2>2, <2>3, EventCounted DEF a
  <2> QED BY <1>0, <2>1, <2>3, <2>4 DEF SlotInv, Follows
<1>12. CASE Joined
  <2>1. /\ s_pc = "closing" /\ s_pc' = "closed" /\ s_replay' = [a EXCEPT !.state = s_view]
        /\ UNCHANGED <<s_now, s_view, s_stage, s_window, s_blocked>>
    BY <1>12 DEF Joined, WithState, a
  <2>2. /\ IsReplay(s_replay') /\ s_replay'.state = s_view
        /\ s_replay'.previous = a.previous /\ s_replay'.dirtyBusy = a.dirtyBusy /\ s_replay'.eligibleBusy = a.eligibleBusy
    BY <1>2, <2>1 DEF IsReplay
  <2>3. SlotTypeOK' /\ Counted'
    BY <1>1, <2>1, <2>2, EventCounted DEF a
  <2> QED BY <1>0, <2>1, <2>2, <2>3 DEF SlotInv, Follows
<1>13. CASE UNCHANGED slotVars
  <2>1. UNCHANGED <<s_pc, s_now, s_view, s_stage, s_window, s_replay, s_blocked>>
    BY <1>13 DEF slotVars
  <2> QED BY <2>1, <1>0 DEF SlotInv, SlotTypeOK, Follows, Counted, Open, Clipped
<1> QED
  BY <1>3, <1>4, <1>5, <1>6, <1>7, <1>8, <1>9, <1>10, <1>11, <1>12, <1>13 DEF SlotNext

(* What analyze() has counted and has still to count is exact at any time. *)
LEMMA SlotHolds == ToolsSpec => []SlotInv
<1>1. ToolsInit => SlotInv
  <2> SUFFICES ASSUME SlotInit PROVE SlotInv
    BY DEF ToolsInit
  <2>1. /\ s_view = [dirty |-> FALSE, busy |-> FALSE, visible |-> TRUE, closed |-> FALSE, deadline |-> 0]
        /\ s_pc = "idle" /\ s_now = 0 /\ s_stage = "free" /\ s_window = <<0, 0>>
        /\ s_blocked = [dirty |-> 0, eligible |-> 0]
    BY DEF SlotInit
  <2>2. /\ s_replay.state = s_view /\ s_replay.previous = 0 /\ s_replay.dirtyBusy = 0 /\ s_replay.eligibleBusy = 0
        /\ IsReplay(s_replay)
    BY DEF SlotInit, IsReplay
  <2>3. s_view \in View /\ ~Blocked(s_replay.state)
    BY <2>1, <2>2 DEF View, Blocked
  <2>4. SlotTypeOK
    BY <2>1, <2>2, <2>3 DEF SlotTypeOK
  <2>5. Counted
    BY <2>1, <2>2, <2>3 DEF Counted, Open
  <2> QED BY <2>1, <2>2, <2>4, <2>5 DEF SlotInv, Follows
<1>2. [ToolsNext]_toolVars => [SlotNext]_slotVars
  BY DEF ToolsNext, toolVars, Placement, Gate, Native, Echo, Throughput, Isolated, Pacer, Slot, Machine
<1> QED BY <1>1, <1>2, SlotStep, PTL DEF ToolsSpec

(* Whatever the window cuts, the totals that analyze() reports of a closed *)
(* recording are the time the view was blocked inside it, for recordings   *)
(* of any length: the first half of WindowedTotals.                        *)
LEMMA SlotTotalsExact == ToolsSpec => [](s_pc = "closed" => TotalsExact)
<1>1. SlotInv => (s_pc = "closed" => TotalsExact)
  <2> SUFFICES ASSUME SlotInv, s_pc = "closed" PROVE TotalsExact
    OBVIOUS
  <2>1. ~Blocked(s_replay.state)
    BY DEF SlotInv, Follows, Blocked
  <2> QED BY <2>1 DEF SlotInv, Counted, Open, SlotTypeOK, TotalsExact
<1> QED BY <1>1, SlotHolds, PTL

================================================================================
