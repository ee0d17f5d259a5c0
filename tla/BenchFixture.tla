----------------------------- MODULE BenchFixture -----------------------------
(***************************************************************************)
(* tools/terminal_runtime_bench.py drives tools/terminal_bench_fixture.py  *)
(* through a runtime: the fixture waits in its pane for viewport.ready,    *)
(* then times payloads between two cursor reports (DSR) of the terminal.   *)
(* They share files only: the receipt, viewport.ready, throughput.json.    *)
(* A resize of the PTY sets its size and posts SIGWINCH at once; the       *)
(* handler runs before the fixture's next statement.                       *)
(***************************************************************************)
EXTENDS Integers, Sequences, FiniteSets

CONSTANTS
  Payloads,      \* the cases' names, in order
  Sizes,         \* sizes the PTY may have
  MaxResizes     \* bound: resizes of the PTY

(* No payload is or contains a query of its own (payload_chunk()). *)
ASSUME FixtureAssumption ==
  /\ Payloads \in Seq(STRING) /\ \A i \in 1 .. Len(Payloads) : Payloads[i] # "query"
  /\ Sizes # {} /\ MaxResizes \in Nat

VARIABLES
  f_pc,          \* "absent", "viewport", "prepare", "home", "writing", "asking", "end", "ready", "failed", "gone"
  f_phase,       \* the receipt's phase, as other processes read it
  f_size, f_generation,           \* Fixture.size and geometry_generation
  f_caseSize, f_caseGeneration,   \* the same when the current case began
  f_tty, f_winch,                 \* the PTY's size; SIGWINCH is posted and not handled
  f_resizes,                      \* resizes so far
  f_disturbed,                    \* history: a resize while the current case is timed
  f_wire, f_answers,              \* fixture -> terminal; terminal -> fixture
  f_throughput,                   \* throughput.json: [cases, failed]
  d_pc,          \* the driver: "idle", "polling", "reported", "raised"
  d_detach,      \* --detach
  d_client,      \* the headless client: "running", "leaving", "gone"
  d_released     \* viewport.ready exists

ptyVars == <<f_tty, f_winch, f_resizes, f_disturbed>>
geometryVars == <<f_size, f_generation>>
caseVars == <<f_caseSize, f_caseGeneration>>
driverVars == <<d_pc, d_detach, d_client, d_released>>
fixtureVars == <<f_pc, f_phase, geometryVars, caseVars, ptyVars, f_wire, f_answers, f_throughput, driverVars>>

FixtureInit ==
  /\ f_pc = "absent" /\ f_phase = "none"
  /\ f_tty = "none" /\ f_size = "none" /\ f_caseSize = "none"
  /\ f_generation = 0 /\ f_caseGeneration = 0
  /\ f_winch = FALSE /\ f_resizes = 0 /\ f_disturbed = FALSE
  /\ f_wire = <<>> /\ f_answers = <<>> /\ f_throughput = [cases |-> <<>>, failed |-> FALSE]
  /\ d_pc = "idle" /\ d_detach = FALSE /\ d_client = "running" /\ d_released = FALSE

Current == Payloads[Len(f_throughput.cases) + 1]
Timing == f_pc \in {"writing", "asking", "end"}
(* record(): the receipt is replaced, with SIGWINCH deferred meanwhile. *)
Record(phase) == f_phase' = phase
Alive == f_pc \notin {"absent", "failed", "gone"}

--------------------------------------------------------------------------------
(* The terminal side of the PTY: the runtime, or the native application.   *)

Resize ==
  /\ Alive /\ f_resizes < MaxResizes
  /\ \E s \in Sizes \ {f_tty} : f_tty' = s
  /\ f_winch' = TRUE /\ f_resizes' = f_resizes + 1
  /\ f_disturbed' = (f_disturbed \/ Timing)
  /\ UNCHANGED <<f_pc, f_phase, geometryVars, caseVars, f_wire, f_answers, f_throughput, driverVars>>

(* It consumes the output in order and answers every query; the cursor is  *)
(* home, unless the terminal is at fault.                                  *)
TerminalReads ==
  /\ f_wire # <<>> /\ Alive
  /\ f_wire' = Tail(f_wire)
  /\ \/ Head(f_wire) # "query" /\ UNCHANGED f_answers
     \/ Head(f_wire) = "query" /\ \E a \in {"home", "elsewhere"} : f_answers' = Append(f_answers, a)
  /\ UNCHANGED <<f_pc, f_phase, geometryVars, caseVars, ptyVars, f_throughput, driverVars>>

--------------------------------------------------------------------------------
(* Mutant: the handler, too, ignores a size it already knows. *)
RefreshIfChanged(signalled) ==
  /\ f_size' = f_tty
  /\ f_generation' = IF f_size = f_tty THEN f_generation ELSE f_generation + 1

(* refresh_size(): a signal counts even when the size is back to what it was. *)
RefreshSize(signalled) ==
  /\ f_size' = f_tty
  /\ f_generation' = IF f_size = f_tty /\ ~signalled THEN f_generation ELSE f_generation + 1

(* SIGWINCH is handled: the receipt is rewritten and, while the marker     *)
(* shows, the screen.                                                      *)
HandleResize ==
  /\ Alive /\ f_winch
  /\ RefreshSize(TRUE) /\ f_winch' = FALSE
  /\ f_wire' = IF f_phase \in {"ready", "awaiting_viewport"} THEN Append(f_wire, "text") ELSE f_wire
  /\ UNCHANGED <<f_pc, f_phase, caseVars, f_tty, f_resizes, f_disturbed, f_answers, f_throughput, driverVars>>

(* The pane's PTY exists; run() goes up to await_viewport(). *)
FixtureStarts ==
  /\ f_pc = "absent" /\ d_pc = "polling"
  /\ f_pc' = "viewport" /\ Record("awaiting_viewport")
  /\ f_tty' \in Sizes /\ f_size' = f_tty' /\ f_generation' = f_generation + 1
  /\ UNCHANGED <<caseVars, f_winch, f_resizes, f_disturbed, f_wire, f_answers, f_throughput, driverVars>>

(* viewport.ready is there: measure_throughput() begins. *)
ViewportReady ==
  /\ f_pc = "viewport" /\ ~f_winch /\ d_released
  /\ RefreshSize(FALSE)
  /\ f_pc' = "prepare" /\ Record("throughput")
  /\ UNCHANGED <<caseVars, ptyVars, f_wire, f_answers, f_throughput, driverVars>>

(* A case begins: its geometry, and a query that says the screen is clear. *)
BeginCase ==
  /\ f_pc = "prepare" /\ ~f_winch /\ Len(f_throughput.cases) < Len(Payloads)
  /\ RefreshSize(FALSE)
  /\ f_caseSize' = f_size' /\ f_caseGeneration' = f_generation'
  /\ f_wire' = Append(f_wire, "query")
  /\ f_pc' = "home"
  /\ UNCHANGED <<f_phase, ptyVars, f_answers, f_throughput, driverVars>>

(* Mutant: timing starts without waiting for the first answer. *)
TakeNoAnswer == UNCHANGED f_answers

(* await_dsr() returns: the cursor is home. *)
TakeAnswer == f_answers # <<>> /\ Head(f_answers) = "home" /\ f_answers' = Tail(f_answers)

StartTiming ==
  /\ f_pc = "home" /\ ~f_winch /\ TakeAnswer
  /\ f_pc' = "writing" /\ f_disturbed' = FALSE
  /\ UNCHANGED <<f_phase, geometryVars, caseVars, f_tty, f_winch, f_resizes, f_wire, f_throughput, driverVars>>

(* The payload is written, then the query that ends the case. *)
WritePayload ==
  /\ f_pc = "writing" /\ ~f_winch
  /\ f_wire' = Append(f_wire, Current) /\ f_pc' = "asking"
  /\ UNCHANGED <<f_phase, geometryVars, caseVars, ptyVars, f_answers, f_throughput, driverVars>>

AskEnd ==
  /\ f_pc = "asking" /\ ~f_winch
  /\ f_wire' = Append(f_wire, "query") /\ f_pc' = "end"
  /\ UNCHANGED <<f_phase, geometryVars, caseVars, ptyVars, f_answers, f_throughput, driverVars>>

(* The end of a case that counts: throughput.json is replaced.  History:   *)
(* whether a resize fell into the timing, whether the payload is unread,   *)
(* whether the client is attached.                                         *)
EndCase ==
  /\ f_pc = "end" /\ ~f_winch
  /\ f_answers # <<>> /\ Head(f_answers) = "home" /\ f_answers' = Tail(f_answers)
  /\ f_generation = f_caseGeneration /\ f_size = f_caseSize /\ f_tty = f_caseSize
  /\ f_throughput' = [f_throughput EXCEPT !.cases =
       Append(@, [name |-> Current, disturbed |-> f_disturbed,
                  unread |-> \E i \in DOMAIN f_wire : f_wire[i] = Current,
                  attached |-> d_client # "gone"])]
  /\ f_pc' = "prepare"
  /\ UNCHANGED <<f_phase, geometryVars, caseVars, ptyVars, f_wire, driverVars>>

(* An exception: in a case throughput.json says that it failed; run()      *)
(* records the failure.                                                    *)
Fails ==
  /\ f_pc' = "failed" /\ Record("failed")
  /\ f_throughput' = IF f_phase = "throughput" THEN [f_throughput EXCEPT !.failed = TRUE] ELSE f_throughput
  /\ UNCHANGED <<geometryVars, caseVars, ptyVars, f_wire, f_answers, driverVars>>

(* A DSR or the viewport did not come in time, or the lifetime ended. *)
FixtureTimeout == Alive /\ f_pc # "ready" /\ ~f_winch /\ Fails

WrongAnswer == f_pc \in {"home", "end"} /\ ~f_winch /\ f_answers # <<>> /\ Head(f_answers) # "home" /\ Fails

GeometryChanged ==
  /\ f_pc = "end" /\ ~f_winch /\ f_answers # <<>> /\ Head(f_answers) = "home"
  /\ f_generation # f_caseGeneration \/ f_size # f_caseSize \/ f_tty # f_caseSize
  /\ Fails

(* Every case is done: the marker is drawn and keys are answered. *)
FixtureReady ==
  /\ f_pc = "prepare" /\ ~f_winch /\ Len(f_throughput.cases) = Len(Payloads)
  /\ f_pc' = "ready" /\ Record("ready")
  /\ UNCHANGED <<geometryVars, caseVars, ptyVars, f_wire, f_answers, f_throughput, driverVars>>

(* The driver stopped the runtime: SIGHUP ends the fixture, unfailed. *)
FixtureHungUp ==
  /\ Alive /\ d_pc \in {"reported", "raised"}
  /\ f_pc' = "gone" /\ Record("finished")
  /\ UNCHANGED <<geometryVars, caseVars, ptyVars, f_wire, f_answers, f_throughput, driverVars>>

--------------------------------------------------------------------------------
StartDriver ==
  /\ d_pc = "idle" /\ d_pc' = "polling" /\ d_detach' \in BOOLEAN
  /\ UNCHANGED <<f_pc, f_phase, geometryVars, caseVars, ptyVars, f_wire, f_answers, f_throughput, d_client, d_released>>

(* The headless client leaves when its detach key reaches it; it may also  *)
(* die at any time.                                                        *)
ClientLeaves ==
  /\ d_client # "gone" /\ d_pc = "polling" /\ d_client' = "gone"
  /\ UNCHANGED <<f_pc, f_phase, geometryVars, caseVars, ptyVars, f_wire, f_answers, f_throughput, d_pc, d_detach, d_released>>

(* Mutant: the fixture is released once the detach key was sent. *)
ReleaseWhenAsked == ~d_detach \/ d_client' # "running"

(* Release: the client is gone, or was to stay. *)
MayRelease == ~d_detach \/ d_client = "gone"

(* One turn of main()'s loop up to the release. *)
Release ==
  /\ d_pc = "polling" /\ f_phase = "awaiting_viewport" /\ ~d_released
  /\ d_client' = IF d_detach /\ d_client = "running" THEN "leaving" ELSE d_client
  /\ d_released' = MayRelease
  /\ <<d_client', d_released'>> # <<d_client, d_released>>
  /\ UNCHANGED <<f_pc, f_phase, geometryVars, caseVars, ptyVars, f_wire, f_answers, f_throughput, d_pc, d_detach>>

(* The rest of a turn: throughput.json is whole, or says that it failed,   *)
(* or is not whole when the client left early or 150 seconds have passed.  *)
DriverEnds ==
  /\ d_pc = "polling"
  /\ \/ ~f_throughput.failed /\ Len(f_throughput.cases) = Len(Payloads) /\ d_pc' = "reported"
     \/ f_throughput.failed /\ d_pc' = "raised"
     \/ Len(f_throughput.cases) < Len(Payloads) /\ d_pc' = "raised"
  /\ UNCHANGED <<f_pc, f_phase, geometryVars, caseVars, ptyVars, f_wire, f_answers, f_throughput, d_detach, d_client, d_released>>

FixtureNext ==
  \/ Resize \/ TerminalReads \/ HandleResize
  \/ FixtureStarts \/ ViewportReady \/ BeginCase \/ StartTiming \/ WritePayload \/ AskEnd \/ EndCase
  \/ FixtureTimeout \/ WrongAnswer \/ GeometryChanged \/ FixtureReady \/ FixtureHungUp
  \/ StartDriver \/ ClientLeaves \/ Release \/ DriverEnds

--------------------------------------------------------------------------------
(* A case that counts was timed on one geometry throughout (a resize that  *)
(* was undone before the signal was handled voids it too: the generation   *)
(* in terminal_bench_fixture.py:182 is there for that); it ended when the  *)
(* terminal had consumed its whole payload (no earlier query's answer was  *)
(* taken for the last one's); and with --detach no client was attached.    *)
CasesSound ==
  \A i \in DOMAIN f_throughput.cases :
    LET case == f_throughput.cases[i]
    IN ~case.disturbed /\ ~case.unread /\ (d_detach => ~case.attached)

================================================================================
