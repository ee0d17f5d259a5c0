------------------------------ MODULE IsolatedRun ------------------------------
(***************************************************************************)
(* tools/perf_e2e.py: one measurement on a private runtime, and the        *)
(* cleanup that must leave nothing of it behind (stop_runtime(),           *)
(* owned_sessions(), cleanup_sessions()).  A scan lists the processes with *)
(* ps and asks for the session of each afterwards: processes fork and exit *)
(* in between.  A process identifier is not used again within a run.       *)
(***************************************************************************)
EXTENDS Integers, FiniteSets

CONSTANTS Children     \* bound: processes that may come to exist beside the runtime

ASSUME IsolatedAssumption == "runner" \notin Children /\ "runtime" \notin Children

VARIABLES
  i_pc,         \* the step of measure() and stop_runtime()
  i_alive,      \* processes that exist
  i_doomed,     \* the ones sent SIGKILL
  i_parent, i_session,
  i_listed,     \* what the last ps listed
  i_owned,      \* the sessions stop_runtime() cleans
  i_below,      \* history: the sessions the runtime had below it when they were listed
  i_raced,      \* history: a listed process exited inside the first scan, or one forked inside the last
  i_result      \* shutdown.json: [exited, complete]

isolatedVars == <<i_pc, i_alive, i_doomed, i_parent, i_session, i_listed, i_owned, i_below, i_raced, i_result>>
processVars == <<i_alive, i_doomed, i_parent, i_session>>

Pids == Children \cup {"runner", "runtime"}

IsolatedInit ==
  /\ i_pc = "idle" /\ i_alive = {"runner"} /\ i_doomed = {}
  /\ i_parent = [p \in Pids |-> "init"] /\ i_session = [p \in Pids |-> p]
  /\ i_listed = {} /\ i_owned = {} /\ i_below = {} /\ i_raced = FALSE
  /\ i_result = [exited |-> FALSE, complete |-> FALSE]

Unborn == {p \in Children : p \notin i_alive /\ i_session[p] = p /\ i_parent[p] = "init"}
Members == {p \in i_alive : i_session[p] \in i_owned}

--------------------------------------------------------------------------------
(* The headless client starts the runtime, in a session of its own: the    *)
(* daemon's, or, were it not daemonized, the runner's.                     *)
StartRuntime ==
  /\ i_pc = "idle" /\ i_pc' = "measuring"
  /\ i_alive' = i_alive \cup {"runtime"}
  /\ \E s \in {"runtime", "runner"} : i_session' = [i_session EXCEPT !["runtime"] = s]
  /\ UNCHANGED <<i_doomed, i_parent, i_listed, i_owned, i_below, i_raced, i_result>>

Born(p, parent, session) ==
  /\ i_alive' = i_alive \cup {p}
  /\ i_parent' = [i_parent EXCEPT ![p] = parent]
  /\ i_session' = [i_session EXCEPT ![p] = session]

(* A client opens a pane: its shell leads a new session. *)
OpenPane ==
  /\ i_pc = "measuring" /\ "runtime" \in i_alive
  /\ \E p \in Unborn : Born(p, "runtime", p)
  /\ UNCHANGED <<i_pc, i_doomed, i_listed, i_owned, i_below, i_raced, i_result>>

(* A process of the runtime or of a pane forks within its session. *)
Fork ==
  /\ i_pc \notin {"idle", "complete", "raised"}
  /\ \E q \in i_alive \ ({"runner"} \cup i_doomed), p \in Unborn : Born(p, q, i_session[q])
  /\ i_raced' = (i_raced \/ i_pc = "final")
  /\ UNCHANGED <<i_pc, i_doomed, i_listed, i_owned, i_below, i_result>>

(* A process ends; its children are reparented and keep their session. *)
Exit ==
  /\ i_pc \notin {"idle", "complete", "raised"}
  /\ \E p \in i_alive \ {"runner"} :
       /\ i_alive' = i_alive \ {p}
       /\ i_parent' = [q \in Pids |-> IF q = p THEN "dead" ELSE IF i_parent[q] = p THEN "init" ELSE i_parent[q]]
       /\ i_raced' = (i_raced \/ (i_pc = "owned" /\ p \in i_listed))
  /\ UNCHANGED <<i_pc, i_doomed, i_session, i_listed, i_owned, i_below, i_result>>

--------------------------------------------------------------------------------
(* descendants(): the smallest set with the roots and their children. *)
Descendants(roots) ==
  {p \in i_alive : \A S \in SUBSET Pids :
     roots \subseteq S /\ (\A q \in i_alive : i_parent[q] \in S => q \in S) => p \in S}

(* stop_runtime() begins, measured or failed: the runtime is looked up by  *)
(* its socket and the processes below it are listed.                       *)
ListOwned ==
  /\ i_pc = "measuring" /\ i_pc' = "owned"
  /\ i_listed' = Descendants({"runtime"} \cap i_alive)
  /\ i_below' = {i_session[p] : p \in i_listed'}
  /\ UNCHANGED <<processVars, i_owned, i_raced, i_result>>

(* Mutant: the runtime's own session stands for its panes'. *)
RuntimeSessions == {i_session[p] : p \in i_listed \cap i_alive \cap {"runtime"}}

(* Mutant: the runner's session is not told apart. *)
SharesNothing == FALSE

(* owned_sessions(): the sessions of the listed processes that still exist. *)
OwnedSessions == {i_session[p] : p \in i_listed \cap i_alive}

SharesRunner == "runner" \in OwnedSessions

ReadOwned ==
  /\ i_pc = "owned"
  /\ i_pc' = IF SharesRunner THEN "raised" ELSE "stopping"
  /\ i_owned' = IF SharesRunner THEN {} ELSE OwnedSessions
  /\ UNCHANGED <<processVars, i_listed, i_below, i_raced, i_result>>

(* `server stop`, and the wait for the runtime's exit: at most 5 seconds. *)
StopRuntime ==
  /\ i_pc = "stopping" /\ i_pc' = "kill"
  /\ i_result' = [i_result EXCEPT !.exited = "runtime" \notin i_alive]
  /\ i_listed' = i_alive
  /\ UNCHANGED <<processVars, i_owned, i_below, i_raced>>

(* One pass of SIGKILL over the listed processes that are in the sessions. *)
KillMembers ==
  /\ i_pc = "kill" /\ i_pc' = "wait"
  /\ i_doomed' = i_doomed \cup (i_listed \cap Members)
  /\ UNCHANGED <<i_alive, i_parent, i_session, i_listed, i_owned, i_below, i_raced, i_result>>

(* The scans of the wait: it ends on an empty one or after two seconds;    *)
(* the final scan, which follows, decides.                                 *)
WaitEnds ==
  /\ i_pc = "wait" /\ i_pc' = "final"
  /\ i_listed' = i_alive
  /\ UNCHANGED <<processVars, i_owned, i_below, i_raced, i_result>>

FinalScan ==
  /\ i_pc = "final"
  /\ i_pc' = IF i_listed \cap Members = {} THEN "complete" ELSE "raised"
  /\ i_result' = [i_result EXCEPT !.complete = (i_listed \cap Members = {})]
  /\ UNCHANGED <<processVars, i_listed, i_owned, i_below, i_raced>>

IsolatedNext ==
  \/ StartRuntime \/ OpenPane \/ Fork \/ Exit
  \/ ListOwned \/ ReadOwned \/ StopRuntime \/ KillMembers \/ WaitEnds \/ FinalScan

--------------------------------------------------------------------------------
(* When the shutdown says cleanup_complete nothing is left of the sessions *)
(* the runtime had below it: what was forked after the list was taken,     *)
(* what was reparented, and a runtime that ignored the stop included.  The *)
(* scans themselves may race: a listed process that exits before its       *)
(* session is read, or a member that forks and exits inside the last scan, *)
(* is left out.  The runner is never signalled, and a runtime reported as  *)
(* exited has exited.                                                      *)
SessionsReclaimed ==
  /\ "runner" \notin i_doomed
  /\ i_result.complete /\ ~i_raced => \A p \in i_alive : i_session[p] \notin i_below
  /\ i_result.exited => "runtime" \notin i_alive

================================================================================
