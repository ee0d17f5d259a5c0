# A TLA+ verification of telar

telar is a terminal multiplexer. A long-lived **runtime** owns the shells, the
terminals and the workspaces; disposable **clients** (GUI, terminal, headless,
command line) attach to it over a socket and show what it publishes. This
directory models the parts of the program where concurrency, failure and order
decide whether it is correct, checks them with TLC on small instances, and
proves the central invariants with TLAPS for every value of the constants. The
program itself is written in Zig; beside it the repository keeps a body of Python
tools under `tools/` that measure it and keep its virtual machine. What those
tools report decides which changes are accepted, so they are modelled too.

Paths below are relative to the repository.

## 1. Inventory

| Component | State | Operations | Hard behaviour | What makes it correct |
|---|---|---|---|---|
| Client inbox, `lib/mailbox` | slots, generations, ring, reservations, event, native wake, turn budget | reserve, publish, release, post, notify, wait, receive, begin/next/end, close | producers on many threads, one signal per batch, late tickets, close with reservations out | no lost message or wakeup, first-in first-out, one owner per ticket |
| Drop queue, `lib/dropqueue` | bounded storage, atomic depth, counters | publish, receive, tryReceive, close | lock-free admission by compare-and-swap | depth neither lost nor invented |
| Pane lifecycle, `src/backend/pane`, `src/backend/runtime/pane_*.zig` | flags of seven actors, queues, exit, close, observers | launch, read, ingest, media, observation, writes, resize, exit, collection | actors borrow the pane on other threads, any spawn may fail, exit and end of output race | nothing outlives the pane, no read is lost, every closing pane is collected |
| Pane store and tabs, `PaneStore.zig`, `tab_*.zig` | panes by identity, counters, committed tabs | allocate, insert, remove, close a tab, split | launches that fail halfway | counters exact, no orphaned tab or pane |
| Cell delivery, `src/backend/runtime/attachment`, `client_delivery.zig` | screen, shared damage, per-client baseline, outstanding frame | render, snapshot, patch, acknowledge, settle, exit | clients of different pace share damage, baseline moves at send time, resizes | the client's replica follows, nothing is forgotten, everybody catches up |
| Client replica, `src/model/panes`, `src/client/panes` | cells, applied frame, pending open | apply, acknowledge, ask for snapshot, open, detach, resize | frames that cannot be stored, answers to abandoned requests | patches always fit |
| Publication pacing, `lib/pacing` | pacer credit, armed deadline | wait until, record, update, complete | a timer that cannot be armed | throttled cells are sent |
| Geometry lease, `geometry_lease.zig` | owner per workspace | acquire, release | several clients, one size | only the owner resizes |
| Runtime loop, `Runtime.zig`, `Loop.zig` | selector of tasks, phase | next event, dispatch, flush, cancel | handler failure, teardown with actors out | joins before it frees |
| Client connections, `client_connection.zig`, `client/` | handshake slots, sessions with generations, pending read/write/search/descent | accept, handshake, expire, receive, send, drop, finalize, stop | late completions of a dropped client, silent peers | a slot is reused only when idle, nothing is held for ever |
| Response queue, `delivery/ResponseQueue.zig` | ring of answers, workspace to resynchronize | push, pushOrDrop, resync | overflow, several times, in different workspaces | a lost change is remembered |
| Workspace synchronization, `resync_required.zig` on both sides, `workspace_handoff.zig` | what the runtime believes a client views, what it projects | notify, leave, select, apply | messages crossing in opposite directions | a resynchronization is answered with a snapshot request |
| Session checkpoint, `CheckpointWriter.zig`, `session_checkpoint.zig` | dirty, write in flight, file | note change, start, complete, discard, write now | failure and shutdown during a write | the last change reaches the file |
| Request tracker and outbox, `src/model/connection` | requests by identity, bounded outbox, link phase | register, complete, fail, lose, reconnect | answers after a reconnection | every request ends once |
| Agent tracking, `agent_status.zig`, `agent_hooks.zig` | agents by pane, evidence, parked reports | report, observe process or screen, expire | evidence from three sources out of order | status follows the newest evidence |
| Executions, `execution/Executions.zig` | slots, pipes | start, output, finish, cancel | cancellation racing completion | one completion each |
| History, media, proxy, plugins, paths, editors | databases, images, tunnels, Lua hosts, indexes | I/O | | not modelled, see section 9 |
| Placement benchmark, `tools/placement_bench.py` | runs of a session, results file | build, run a variant, classify, save, replay | failing and interrupted runs | a change compares two good runs of one round |
| Performance gate, `perf_suite.py`, `perf_gate.py`, `bench_compare.py` | files of two builds | collect, judge | noise, zero times, two tools on the same files | a pass bounds every run where no time is zero, the tools agree |
| Native latency, `gui_tui_latency.py`, `terminal_bench_report.py` | accepted and rejected measurements | measure, retry, compare, report | startups without a window | orders stay balanced, no timing is thrown away |
| Echo and flood probes, `echo_latency.py`, `load_latency.py`, `echo_path.py`, `flood.py`, `headless_client.py` | sample, line, frames | type, read, time out, erase | late echoes, repaints, bytes of several paints | a latency is its own echo's, or which other one's |
| Throughput fixture, `terminal_bench_fixture.py`, `terminal_runtime_bench.py` | phase, geometry, cases, release file; pacer deadline | prepare, time, report, release | SIGWINCH between any two statements, stalls | a case counted is undisturbed, no burst after a stall |
| Isolated end-to-end runs, `perf_e2e.py` | processes, sessions, scans | start, list, stop, kill, list again | forks, exits, reparenting | a clean shutdown is really clean |
| Slot trace, `gui_slot_probe.py`, `gui_slot_probe.m` | replayed state, totals | analyze | intervals cut by the window | totals are the time blocked inside the window |
| Virtual machine, `vm/vm.py` | image, disk, pid file, guest tree | up, start, stop, build, smoke test | a command or an ssh call cut short anywhere, scripts that run on in the guest | what it leaves is usable or recognised |

Interaction: every worker of the runtime is a task of one selector; its
completion is an event; one thread handles one event at a time and flushes the
deliveries of every client after each. Actors share the pane with that thread,
which is why flags and `actor_count` say who borrows what. Clients and runtime
exchange messages over one reliable ordered stream in each direction. Inside a
client, workers report to the host's loop through the inbox. The tools run one
at a time, drive builds of the program as child processes and share only files
with them.

The hazards each component is exposed to are listed in `PROJECT.json` with the
line where they bite and the properties that would catch them.

## 2. Modules

| Module | Role |
|---|---|
| `FifoMailbox` | abstract specification: what a consumer may rely on of an inbox |
| `Inbox` | `GenericInbox.zig` with `DrainBudget.zig`, and the two kinds of host loop |
| `InboxProofs` | eight theorems about `Inbox`, the refinement of `FifoMailbox` among them |
| `DropQueue`, `DropQueueProofs` | `GenericDropQueue.zig` at the grain of one atomic access, and three theorems |
| `PaneLifecycle` | panes, their actors, the store, tabs, client requests as they touch panes, teardown |
| `PaneProofs` | eight theorems about `PaneLifecycle` |
| `CellDelivery` | composition of pane rendering, attachments, delivery, timer, streams and client replicas |
| `DeliveryProofs` | two theorems about `CellDelivery`: types and shared damage |
| `ReplicaProofs` | seven more, about the conversation of a client with the runtime |
| `ClientConnection` | handshakes, sessions, their actors, responses and resynchronizations as the runtime keeps them |
| `SessionCheckpoint` | the write-behind of the checkpoint |
| `RuntimeService` | composes the two: the event loop, the stop and `deinit()` |
| `ServiceProofs` | four theorems about `RuntimeService` |
| `WorkspaceSync` | one client and the runtime over two ordered streams, as far as `resync_required` goes |
| `PlacementBench`, `PerfGate`, `NativeBench`, `EchoProbe`, `BenchFixture`, `OutputPacer`, `IsolatedRun`, `SlotTrace`, `VmHost` | one tool, or two that share files, each |
| `BenchTools` | an invocation of one of the tools |
| `ToolProofs` | six theorems about five of the tools |
| `BenchProofs` | four about what four tools compare, add up and count |
| `MCInbox`, `MCDropQueue`, `MCPaneLifecycle`, `MCCellDelivery`, `MCRuntimeService`, `MCWorkspaceSync`, `MCBenchTools` | instances for TLC |

Definitions that a comment marks *Mutant* change one definition the way a
plausible mistake in the code would; no specification uses them. They show that
each checked property can be violated.

### Inbox

Every method body of `GenericInbox.zig` that runs under its mutex is one action.
A turn is `OpenTurn` (begin), `TakeNext` (next) and `End` (end), so producers
run between the calls. `start()` is `Reserve` followed by the task's `Publish`,
or by `Release` when the task could not be spawned. `wake` is the native wake of
the window system, consumed by the event it becomes; `ready` is the event that
`wait()` sleeps on. `blocking` is chosen in `Init` and names the host: the headless client sleeps in
`wait()`; the GUI takes a turn on each window event. A stale ticket changes only
a counter, which is a stuttering step. The millisecond of the turn is a free
choice of `End`, as is the one handler the budget always permits.

### DropQueue

`publish()` is `Load`, `CompareFails` or `Reserve`, `Put` or `PutRefused`,
`Rollback`, `CountDrop`, `Mark`; `receive()` and `tryReceive()` are `Get` and
`Release`. The `std.Io.Queue` inside is external: an atomic bounded buffer. Its
direct hand-over to a waiting receiver is `Put` followed by `Get`; a spurious
failure of the weak compare-and-swap observes the same depth and is a stutter.

### PaneLifecycle

One action is a whole event: handler, every actor it starts, and the flush with
its collection and media starts. A handler works on a record of the pane, the
tasks in flight and whether everything could be started; an operator that spawns
yields the set of its outcomes, because any `select.concurrent` may fail.
`tasks` is the truth, the flags and `actor_count` are the pane's belief; the
properties relate the two. A spawn that fails in an event handler ends
`Runtime.run` (`ConcurrencyUnavailable` is not a limit error), so the phase
becomes `failed` and the flush is skipped; in a client request it drops the
client and the flush still runs. `Stop`, `Join` and `Release` are
`Runtime.deinit()`. Tab identities are consumed when a launch commits, so a
failed launch leaves a pane under an identity that is given out again.
Abstracted: bytes, batches and their quotas (whether there is work), colours,
agent drafts, text kept of exited panes. The error branch of `finishIngest` is
unreachable because the error set of `ingest` is empty; branches for stale keys
are unreachable by `NoDanglingBorrow`.

### CellDelivery

One pane, several clients. An event is handled when `pump` is 0 and starts the
flush, which visits one client per step and ends in `Settle`
(`scheduleCellPublication`, `settleDamage`). Clients, writers and time move in
between. The terminal holds rows of small values; `screen` is the rendered copy,
`damaged_rows` the shared damage, `acknowledged` the baseline of an attachment.
Revisions are only ever compared with the present one, so an attachment keeps a
flag `observed`. The pacer is a flag that time clears; `sync` is synchronized
output with its expiry. A patch whose spans do not fit is sent in full.
`SameSize` is the assertion of `collectSpans`: the runtime goes no further where
it fails, and `SizesAgree` states that it never does. Abstracted: cursor, mouse,
text metadata, title and cwd lanes, graphics, viewport pins, dropped clients,
the cap on client resynchronizations.

### ClientConnection, SessionCheckpoint, RuntimeService

One action is a whole event: its handler and the flush of every client that
follows. `c_actors` is the truth of what runs beside the loop, `pending` a
session's own flags; `BorrowsHeld` relates them. A write the scheduler refuses
(`MaxRefusals`) drops its client. Requests are
told apart by what they do to a session: view a workspace, ask for something,
start a search or a descent walk, park a report, change a workspace, stop the
runtime. Responses are counted. `lost` is history: the workspace whose change
did not fit the queue. A drop shuts the connection down and leaves the session
closing until its last actor retires.

The checkpoint's snapshots are `current` or `stale`, which is all that its
writer can get wrong; the encoding, the debounce (any delay) and the restore are
left out. The worker's rename and the loop's completion are separate steps, so a
change may fall between them and a stop may discard the completion.

`RuntimeService` runs the phases `running`, `returned`, `cancelled`, `written`,
`released`. `update()` looks for a delivered stop after client events only, so
`ClientEvent` is part of three actions and of no other. `Cancel` is
`shutdownAll()` with `loop.cancel()`: it joins every actor and may still let a
checkpoint write finish. `close_after_reply` and reads the scheduler refuses are
left out.

### WorkspaceSync

`view` and `resync` are the runtime's, `projected` and `tracker` the client's,
`up` and `down` the streams. Leaving or selecting a workspace retires the
client's projection at once, the runtime hears of it later. Workspaces are never
closed here, so the branches of `workspace_closed` are absent.

### The tools

* `PlacementBench`: a session's phases; the output of an executable is reduced to
  what `parse_run` decides on. `p_outputs` remembers what it really did, so that
  the statistics can be compared with it.
* `PerfGate`: percentages compared exactly on integers; medians as the code takes
  them. `--allow-noisy` is given or not; `--payload-byte-delta` has its default,
  and one threshold stands for those of the three timings.
* `NativeBench`: an outcome is accepted, retried (no window, no sample) or raises.
* `EchoProbe`: four probes over one multiplexer that echoes byte by byte in order,
  with any delay and repaints. `e_buf` is the token probes' `buf`: all visible
  bytes since the token was written, over any number of reads, in which it is
  searched; each byte is a cell that remembers its sample. `e_origin` keeps the
  cells a sample was counted on. A flood's marker and the verified tilde count
  as one byte.
* `BenchFixture`: fixture, terminal, driver and client as four processes.
  `SIGWINCH` may be handled between any two statements of the fixture.
* `OutputPacer`: time in ticks, writes of any duration.
* `IsolatedRun`: a scan is a list and a later read of each session; processes
  fork, exit and are reparented in between.
* `SlotTrace`: the view that is recorded runs beside the replay of `analyze()`,
  and `s_blocked` counts what really happened in the window. Which events carry
  the view's state is `gui_slot_probe.m`'s; what the view does between two of them
  is external. A recording starts in any state: dirty or not, a frame in flight or
  not, visible or not, the next draw due or not.
* `VmHost`: commands step by step with an interruption after any step and a failure
  of any ssh call. Nothing stops what such a command had running in the guest:
  `v_scripts` are the scripts that run on (a sync with the whole archive or part of
  it, a build, the opening or closing of the window) beside later commands, until
  they end or the guest does. `provision.sh` is left out, so it leaves none. QEMU,
  the guest and the network are external.

## 3. Runs

| Run | Bounds | Shows |
|---|---|---|
| `inbox` | 2 slots, 2 producers, 3 messages of 2 kinds, generation 2, one message per turn, both hosts | ring, counters, event, wakes, ownership, refinement of `FifoMailbox`, draining after close, every message consumed |
| `drop_queue` | 3 publishers, 2 receivers, 2 places, 3 refusals | depth; an admitted reservation finds room |
| `pane_actors` | 1 pane, 1 client, 1 response, 1 input | flags and borrows, reads, exit, collection, liveness |
| `pane_store` | 2 panes, 2 tabs, no client | counters and tabs through failing launches |
| `pane_resize_fails` | 1 pane, late resize failures | violation, see section 6 |
| `cell_replica` | 1 client, 2 heights, 4 moves, synchronized output, timers that fail | baseline and replica agree, patches fit, exit comes last, the client catches up with screen and exit |
| `cell_shared` | 2 clients, 2 rows, 4 moves | shared damage, owed cells have a timer |
| `cell_spectator` | 2 clients, 2 heights, 3 moves | violation, see section 6 |
| `runtime_service` | 1 handshake slot, 2 client slots, 2 clients ever, 2 workspaces, queue of 1, 2 requests, 3 closed tabs, 1 refused actor | slots, losses, checkpoint, orderly end |
| `workspace_resync` | 2 workspaces, 2 changes, 2 moves | violation, see section 6 |
| `bench_tools` | see below | the ten properties of the tools |
| `placement_order` | 2 variants, 2 rounds, no faults | violation, see section 6 |

Why the bounds are enough. Two slots wrap the ring and fill it, two producers
and two generations make a stale ticket meet its successor. Collection and every
flag are per pane, so one pane with all its actors covers their interleavings;
what couples panes is the store's counters and the tabs, which is the other
run. In `CellDelivery` a move is an output, an open, a detach, a resize or a
failed application; four cover attach, two outputs and a resize in every order,
and a detach with a reopening. Two heights give growing and shrinking, two
contents (blank and written) a row that changes and changes back. `DropQueue`
threads are symmetric. In `RuntimeService` a queue of one overflows with two
closed tabs and the third overflows it again after the client has moved; two
client slots and two keys let one client be dropped while another is told;
one handshake slot is contended by its successor. `BenchTools` chooses the tool
in `Init`; the tools are independent, so the state space is the sum of theirs:
2 variants, 2 rounds, 2 faulty runs; 2 repetitions with times around a threshold
of 25 per cent and zero; 2 applications, 4 rounds (a full cycle of orders), 3
startups each; 2 tokens and 4 samples, so that a token comes round; 2 payloads,
2 sizes, 3 resizes (there and back inside a case); 3 child processes; 8 ticks
with slots of 2; recordings of 4 ticks and 2 frames from every start with every window;
4 commands with 2 interruptions, any number of failing ssh calls.

`pane_*`, `drop_queue`, `runtime_service`, `workspace_resync`, `bench_tools` and
`placement_order` do not check deadlock: a released runtime, a closed queue, a
client that ended and a tool that exited stop.

## 4. Fairness

* `Inbox`: the host's loop runs: a turn begins when there is a wake or an event,
  and is drained and ended. Producers owe nothing.
* `PaneLifecycle`: actors that do bounded work complete (ingest, media,
  observation, writes). The child of a closing pane exits (it was signalled);
  the output of an exiting child ends, with strong fairness because data may
  precede its end; a client whose pane has exited and drained is detached by the
  delivery of the exit, which `Converges` of `CellDelivery` shows. Nothing is
  assumed of reads, clients or launches.
* `CellDelivery`: the flush proceeds, streams deliver, time passes. Completions
  of tasks (timer, ingest, write, request read) wait for the end of each flush,
  hence strong fairness: the selector serves them all. The periodic tick is
  counted on only where timers may fail (`Disturbed`).
* `RuntimeService`: the actors of a client end (a write when its peer reads or
  goes away, a search wake, a descent walk, a read once its connection is shut
  down); the periodic tick expires a handshake that is overdue, and a handshake
  whose connection was shut down completes; the teardown, which is sequential
  code, proceeds. Nothing is assumed of peers that keep a connection open, nor
  of the checkpoint worker.
* `DropQueue`, `WorkspaceSync` and the tools: none, only safety is stated.

## 5. Properties worth knowing

* `ReadyTracksWork`, `WakePosted`: no lost wakeup for either kind of host.
* `ImplementsFifo`: slots, tickets and ring implement a queue.
* `NoDanglingBorrow`, `ActorsCounted`: a pane is never destroyed under an actor,
  and every completion finds the flag it asserts, also after failed spawns.
* `ReadNeverLost`, `HeldReadResumes`: output cannot stop for ever behind media.
* `ExitRecorded`: whichever of exit and end of output is last, history gets it.
* `DamageCovers`: shared damage is cleared only when nobody needs it.
* `ReplicaFollows`, `PatchesApply`: the runtime's baseline is what the client
  will hold, under the frame the next patch names, across resizes, snapshots,
  reopenings and frames the client could not store.
* `ExitAfterLastFrame`, `Converges`: the last screen, then the exit, and
  eventually both.
* `BorrowsHeld`, `Settles`: a slot is not given to a new client under the actors
  of the old one, and neither silent peers nor pending work keep a slot or a
  stopping runtime for ever.
* `LossRemembered`: a change dropped by a full queue is resynchronized in the
  workspace the client views, also after earlier losses elsewhere.
* `ChangePersisted`: a change is in the file, owed to it, or could not be
  encoded, through failing, overlapping and interrupted writes.
* `PairedWithinRound`, `PassBoundsEveryRun`, `OwnEcho`, `CasesSound`,
  `WindowedTotals`: what a tool reports, compared with a history of what really
  happened. Each names its limits: `PassBoundsEveryRun` is about gates without
  `--allow-noisy` and timings that are zero in no run of either build, since a zero
  hides its group's spread (at 25 per cent, baseline 4, 4 and candidate 0, 9 pass);
  `OwnEcho` lets the token probe take another sample's whole echo only a cycle of
  tokens late, and says of what it finds across several paints only that samples
  never go back behind an earlier one.
* `SessionsReclaimed`, `MachineKept`: processes and files after a run or a
  command that was cut short.

## 6. Findings

* **A failed resize keeps an exited pane.** `applyPendingResize` queues work for
  the history observer before its last fallible step; `pane_resize.resize`
  closes the pane and returns without starting it. If the child had exited and
  the output had ended, nothing starts it any more and `readyToDestroy` stays
  false (`pane_resize_fails`). `pane_actors` shows that without late failures
  every exited pane is collected.
* **A spectator's baseline lags behind a resize.** A resize by the lease holder
  changes the shared screen at once and only the holder's baseline with it; the
  flush of the same update prepares the other clients' cells, where
  `collectSpans` asserts equal sizes (`cell_spectator`). With one client, or one
  height, the sizes always agree (`cell_replica`).
* **A resynchronization that crosses a departure ends the client.** The runtime
  sends `resync_required` for the workspace it believes the client views; a client
  that has left or changed it since returns `UnexpectedResync`, which is not a
  limit error and ends it (`workspace_resync`).
* **Two placement variants never change places.** `ordered()` shifts by one place
  per round and reverses odd rounds; with two variants the two cancel
  (`placement_order`).

Observed while modelling, without a run of their own:

* `placement_bench.py` says a run that counts "reported both cases", `parse_run`
  asks for at least one.
* A baseline of zero hides any regression from `perf_gate.py`, a zero in either
  build the spread of its group; `PassBoundsEveryRun` leaves zero times out.
* `perf_e2e.py` misses a session when a listed process exits before its session
  is read, or a member forks and exits inside the last scan; `SessionsReclaimed`
  leaves those races out (`i_raced`).
* The token probes may count an echo that is a whole cycle of tokens late; the
  headless one may count a frame of an earlier input. `OwnEcho` bounds both.
* The two-byte tokens of `echo_latency.py` overlap and are searched in all bytes
  read since the token was written, and the erase "so a later repaint of this line
  cannot be mistaken for the next echo" (line 128) is drained for `gap` but not
  awaited. When the multiplexer is further behind, late `qz` and `xz` hold `zx`,
  and two repaints of `zq` hold `qz`: another sample's bytes are counted at once.
  `OwnEcho` says of these only that they come in order. Tokens of one byte,
  `--single` and `load_latency.py`, are not affected.
* `vm.py`: an interrupted first `up` leaves a disk that no later `up` seeds; QEMU
  runs before its pid is written; an archive cut short still reaches
  `rsync --delete`, and the script that unpacks it, or that builds, runs on in the
  guest when its command is interrupted, into the sync and build of the next; the
  smoke test's window stays open when the check of the login shell or the ssh call
  that closes it fails. `MachineKept` excuses these by name.

## 7. Proofs

Every theorem is `Spec => []P`, an action property, or the refinement, proved by
an inductive invariant for every value of the constants. The assumptions are the
named ASSUMEs of the models, which TLC evaluates on every run; two theorems have
a hypothesis of their own, named below.

* **`InboxProofs`**, from `InboxAssumption`. `ReservationsCounted` and
  `RingHoldsReadySlots` need each other: an append is into a slot outside the
  ring, and the ring has room because its length and the reservations add up to
  at most the slots. `OneOwner` needs that every ticket's generation is of its
  slot's past or present (`TicketsIssued`). `WakePosted` needs that a turn ends
  in `End`, and `BudgetCovered` is what lets `TakeNext` succeed. Type correctness
  and `BudgetCovered` are theorems only; no run repeats them. `ImplementsFifo` is
  a step simulation: the abstract queue is the ring read through the slots, a
  publish or a post appends to it, a notification refreshes or appends, a receive
  takes its head, closing closes it, and every other action stutters.
* **`DropQueueProofs`**, from finiteness of the thread sets. `DepthAccounted` is
  inductive with `TypeOK` and `queued <= Capacity`; `ReservedFits` follows since
  a publisher about to put accounts for one unit that is not buffered, so only a
  close or its own cancellation makes the put take nothing.
* **`PaneProofs`**, from `PaneAssumption`. Handlers and starts yield sets of
  outcomes, so the lemmas say what each operator makes of a pane and its tasks
  (`Extends`, `SameBut`), and only then that an event keeps the store. `PaneInv`
  holds the store's counters in every phase, flags equal to tasks (`Borrowed`)
  until they are joined, and, while the loop runs, that every pane has a reader,
  that queued work has an actor to take it, and that a drained exit is queued
  for history (`Sound`). A failed spawn breaks the last part, which is why it
  stops at the phase `failed`. `PaneCollectedWhenFree` assumes
  `~ResizeFailsLate`: with it the statement is false, as `pane_resize_fails`
  shows.
* **`DeliveryProofs`**, from `DeliveryAssumption`. `DamageCovers` is not
  inductive: `settleDamage` forgets damage on the strength of `observed`. The
  invariant `Covered` adds that an attachment that observed the present revision
  has the whole screen as its baseline; `Wire` types sessions and messages, since
  sizes and frame identities arrive by message.
* **`ReplicaProofs`** continues it. The invariant is about one conversation: the
  attachment, the answers queued for the client, both streams and the replica.
  It says in which of four situations they are: the client has let go
  (`LetsGo`), has asked to open (`Asked`), has been answered and has not read it
  (`Answered`), or has the pane (`Follows`). In the last one at most the first
  frame on its way is a patch, and it fits; the frame before the next one turns
  the replica into the baseline; an acknowledgement of that frame means it has.
  From it follow `PatchesApply`; that a settled client holds exactly the
  baseline (`CellReplicaSettled`); and that a client is told of the exit only
  when it shows the final screen (`CellExitFindsFinalScreen`).
  `ReplicaFollows` and `ExitAfterLastFrame` speak of the client after it has read
  everything on its way, a fold over messages (`Reaches`). The fold exists and
  has its two equations for streams of every length by a least counterexample,
  and what every message respects the fold respects (`FoldWithin`). `MirrorInv`
  is about its value: it is the baseline under the last frame's identity unless
  a snapshot is due or the client has asked for one (`Level`); no open reaches the
  runtime while the attachment stands (`Opens`); a client that leaves nothing
  behind will have the pane by then (`Hopes`); and one that was told of the exit
  was told the truth, with its attachment ending (`Over`).
  `OwedCellsTimed` needs a flush invariant (`Timed`): clients already visited by
  the flush wait for something, or for the timer that its end will arm.
  `CellSizesAgreeAlone` assumes `MaxClients = 1`; `cell_spectator` shows that
  with two clients it is false.
* **`ServiceProofs`**. `CheckpointInv` relates the dirty flag, the write in
  flight with its worker's progress, and the phases of the teardown.
  `SessionsInv` says that the actors are exactly what the pending flags of the
  sessions name, that keys are never issued twice, and that each session
  remembers its losses; one lemma covers every handler with the flush after it.
* **`ToolProofs`**. A tool has its own variables, so each has its own invariant
  over its own next-state relation. `PacerInv`: every write lies one slot behind
  the deadline for each write since. `IsolatedInv`: what a scan may miss is a
  race that is recorded. `VmInv`: which steps belong to which command, what
  each leaves when cut short, and which scripts of ended commands may still touch
  the tree, the build or the window. `FixtureInv`: a query is outstanding only for the
  present case, and a resize within a case is seen by its generation. `GateInv`
  with the median: it is one of the values or between two of them, a quiet
  group's extremes are within the threshold of each other, and the three factors
  compound. `SlotInv`: what `analyze()` has counted and the interval that is
  still open add up to the time blocked so far; the open interval grows by one
  tick exactly when the view is blocked inside the window. `SlotTotalsExact`, a
  lemma here, is the first half of `WindowedTotals`.
* **`BenchProofs`** extends it. Sums over sets, counts over sequences and joined
  sequences are recursive functions of the library; each is shown to exist and to
  have its equations by a least counterexample, which needs no induction rule.
  `NativeInv` and `PlacementInv` say where the i-th result belongs: its round is
  the quotient of `i - 1` by the number of applications or variants, its place
  the remainder. Since those are unique, an application or variant comes once in
  a round; for `NativeOrderBalanced` the places of an application are then
  counted over the block of rounds in which the shift goes round, and for
  `PlacementPairedWithinRound` the first match `derive()` selects in a round is
  the only one. `SlotWindowedTotals` needs that no two frames claim the same
  time: `Claims` bounds the waits of the kept frames, the pending one and the
  current demand together by the totals (`Fresh`: by nothing before there is a
  window).
  `ProbeOwnEcho` has an invariant for each way of measuring. For the token probe:
  inputs and frames keep the order of the samples (`Stream`), and once a sample was
  counted nothing before it can still be read (`NoEarlier`); what is written is
  whole tokens and whole erases that match the line (`Chain`), so every frame
  shows bytes of one sample (`OneToken`) and the buffer is in order too. A whole echo found for another sample spells the same token, and two
  samples with one token are a cycle apart because tokens are distinct
  (`CycleApart`, from `EchoAssumption`). The verified exchange leaves nothing in
  flight behind (`VerifiedOK`), and the frames of the headless trace come in the
  order of what they show (`TraceInOrder`, `TraceBehind`).

Every invariant and every action property that a run checks is a theorem.

Left to TLC:

* Liveness (fairness and ENABLED are out of the provers' reach): `Converges`,
  `Settles`, `LeavingCollected`, `HeldReadResumes`, `DrainedAfterClose`,
  `EveryMessageConsumed`.
* The four violations of section 6: that a statement is false is shown by TLC's
  counterexample. `PaneCollectedWhenFree` and `CellSizesAgreeAlone` are two of
  these statements under the hypothesis that makes them true.

## 8. How the map was chosen

Every definition that models code names its lines in `PROJECT.json`. Definitions
marked external stand for what the code is built on: the queue of the standard
library, PTYs, the multiplexer under test, QEMU and the guest.

## 9. Not modelled

Request tracker, outbox and reconnection of the client, agent status and
executions: planned below. What a checkpoint holds and its restore, closed
workspaces in `WorkspaceSync`, `close_after_reply`. History storage (SQLite),
media transfers, the network proxy and its service, plugins, path indexes and
editors are dominated by I/O and parsing. GUI, text rendering, CLI, site,
packaging and vendored code carry no protocol of their own. Of the tools:
reports and plots, percentiles, probes of host and toolchain, lints, release and
packaging scripts, which read files and print. `perf_e2e.py` repeats the
alternation that `PerfGate` models.

## 10. Plan

Done: the modules of section 2 with their runs, and the proofs of section 7.
Next, in this order:

1. Proofs of liveness, should the provers come to support ENABLED; no safety
   property is left to prove.
2. `Requests`: tracker, outbox and link phases of the client, with loss and
   reconnection; abstract specification: every request ends exactly once.
3. `Executions` and `AgentStatus`.
