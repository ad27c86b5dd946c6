# AgenTerm: a TLA+ model of the workspace authority and its helpers

AgenTerm (`partnernetsoftware/agenterm`) is a terminal workspace with a local control plane. One
process, the *workspace authority*, owns the tabs and their terminals; command line clients, agents
and GUI windows talk to it over a loopback IPC socket. Around it are processes that come and go:
servers that are started and recovered, script workers under a supervisor, and the commands and
resident owners of `agenterm-cu` (computer use). This directory models the parts of them which are
hard to test: what they promise to clients that time out, retry, crash, reconnect and race each
other. Paths are relative to the repository (`src/…` is its source directory).

1. [Inventory](#inventory)
2. [Modules and their correspondence to the code](#modules)
3. [Runs](#runs)
4. [Fairness](#fairness)
5. [Proofs](#proofs)
6. [Findings](#findings)
7. [Observations](#observations)
8. [What is not modelled](#what-is-not-modelled)
9. [Plan](#plan)

How to run: `tlc -config MCEventJournal.cfg MCEventJournal` (likewise for the other `.cfg` files) and
`tlapm EventJournalProofs.tla`.

## Inventory

| Component | State | Operations | What makes it correct |
|---|---|---|---|
| Event journal (`event_journal.rs`) | epoch, sequence, deque of the last 4096 envelopes | `commit_correlated`, `read_after`, `position`, a new epoch per process | the deque is the end of what was committed; a reader loses nothing silently; a gap is reported exactly when there is one |
| Control contract (`control_contract.rs`, `control_authority.rs`) | replay window of 512 receipts, one pending submission per tab | `admit`, `complete`, `update_accepted`, `finish_submission` | a retried request runs once and gets its own receipt; running receipts survive; an accepted one is settled, truthfully |
| Terminals (`terminal_runtime.rs`, `terminal_lifecycle.rs`) | PTY, parser, submission in progress | `submit`, `send`, `poll`, `close_process` | one submission at a time; its Enter follows its text |
| Workspace (`server_app.rs`, `workspace.rs`, `tab_tree.rs`) | tabs with index and parent, collapsed set, active tab, next id, `workspace.json` | create, close (children move up), select, re-parent, collapse, rename, kill, save, restore | the tree is a forest whose snapshot every client accepts, also after restarts |
| Delta protocol (`control_dispatch.rs`, `ui_bridge.rs`, `ui_client.rs`) | client's snapshot and position | bootstrap, `ui-deltas`, apply, validate, reconnect | a client in step shows the server's state exactly; one that fell out gets back |
| IPC transport (`platform/ipc_transport_impl.rs`, `wake_signal.rs`) | listener, connection threads (32), mailbox (64), coalescing wake flag | accept, try_send, wake, wait 5 s at most, answer | no request is stranded or executed twice; answers are true |
| Hosts of the mailbox: window loop (`platform/adapters/unix/frontend`), headless loop (`server_app.rs`) | sleeping or draining; the batch | drain on a wake and before sleeping; at most 16 requests per tick | every request is executed, in order, although the window sleeps without a timer |
| UI leases (`ui_lease.rs`) | at most 16 leases with an expiry time | attach, heartbeat, acknowledge, detach, reap | one lease per client; the window events tell the truth |
| Command relay (`ui_command.rs`, `server_app.rs`) | pending, in flight, preapplied, completed commands; the projection of one client | enqueue (and preapply), poll, apply, complete, result | a command has one fate; results do not get mixed up; effects happen once |
| Server lifecycle (`instances.rs`, `frontend_server.rs`, tick of `remote_frontend.rs`) | registration files, shutdown marker, each window's lease and restart suppression | bind, register, serve, shutdown, unregister; prune; connect or start, verified attach, reconnect, recover | a window never works with a server of another image; it restarts a server that crashed and not one that was stopped, although process ids are used again |
| Worker supervisor and framed worker (`worker_supervisor/`, `script_worker.rs`) | two pipes, deadline, cancellation, active invocation, pending broker request | invoke, cancel, broker call and answer, grace, kill, reap, shutdown | a result belongs to its invocation and an answer to its request; timeouts are true; no worker is left; everything ends |
| Device claims of `agenterm-cu` (`executor/device_leases.rs`, `executor/runtime.rs`, `executor/setup.rs`, `device_lease_owner.rs`) over its stores (`idempotency_store.rs`, `runtime_coordinator.rs`, `device_lease_store.rs`) | request receipts, sessions and locks, lease records, a resident owner per lease | claim, release, renew, reconcile, session-end, refresh; the owner's bind, open, activate, expire, close, mark | an open device is on record; one owner per device; an ended session has nothing open; a retried claim claims once |
| Recoverable file commands (`file_transactions.rs`, `file_move_transactions.rs`) | receipt per transaction, private names next to the user's files | apply, recover, rollback, finalize of a copy or a move | no file of the user is lost; an interrupted command can be undone or finished exactly |
| Not modelled | | | see [What is not modelled](#what-is-not-modelled) |

How they interact. Connection threads hand requests to the host through the mailbox; the host
executes one request at a time (`execute_request`): it asks the control authority for admission,
dispatches the command, which changes the workspace, a terminal, the lease table or the relay and
commits journal events, and settles the receipt. Terminals are polled between requests and finish
submissions. GUI clients follow the journal with `ui-deltas`, hold a lease, and poll commands that
other clients queued for them. A window finds its server through the registry, and starts one when
there is none. A script runs in a worker process and reaches the workspace only through broker
requests to its host. The commands of `agenterm-cu` share nothing but files: stores that are changed
under a lock, OS locks that end with their process, and the IPC of a resident owner.

The hard behaviours are the ones listed under `hazards` in `PROJECT.json`: retries racing timeouts,
bounded buffers that wrap or fill, a server that restarts under readers, deltas that join old
events with new state, a coalesced wake against a sleeping loop, leases that end under a client
that works on a command, answers that are lost, a cancel racing the result it is meant to stop, a
process killed between an effect and the record of it, a process id that comes back.

## Modules

```
Journal ── EventJournal ── EventJournalProofs
   └────── Workspace ── UiMirror ─┬─ UiProofs
UiRelay ── UiSession ─────────────┘
ReplayWindow ── ControlPlane ── ControlPlaneProofs
Mailbox ─┬─ GuiHost ────┬─ HostProofs         both hosts implement OrderedService
         └─ ServerHost ─┘
ServerLifecycle ── ServerLifecycleProofs
WorkerSupervisor ── WorkerSupervisorProofs
IdempotencyStore, RuntimeCoordinator, DeviceLeaseStore ── DeviceClaims ── DeviceClaimsProofs
FileTransactions ── FileTransactionsProofs
```

`MC*` modules extend these and give the constants the values that a `.cfg` cannot write.
Definitions keep the names of the code; the exact lines are in the `map` of `PROJECT.json`.
Definitions headed *Slip* are deliberately wrong variants of their neighbour: each property is shown
to fail when a definition is replaced by its slip.

**Journal, EventJournal.** `Journal` has the pure functions of the data structure. In `EventJournal`
a journal is committed to, wraps around and is replaced by one of a new epoch (`Restart`), while
readers take a baseline from a snapshot response and read batches from there. An envelope is its
epoch, its number and one opaque value for kind, tab and payload. `new_epoch` builds a name from
process id and time; the model assumes names are fresh.

**ReplayWindow, ControlPlane.** `ReplayWindow` has admission and settlement as functions of the
window. `ControlPlane` executes requests, any number of times and in any order, against tabs whose
terminal accepts 0, 1 or 2 more writes before it breaks; commands without a contract interleave;
the poll writes Enter and settles. Since the host executes one request at a time, each is one step.
The commands are those that start, disturb or end a submission, one query, and one that writes
several times. A receipt keeps its outcome, as the only part the code tests. A call
is an id with the operation and the tab it asks for: a retry is the same call, possibly with another
deadline. What clients were `told` about a call, how often it ran and how far its effect went is kept
from the moment it was admitted until its receipt is evicted.

**Workspace, UiMirror.** Tabs are a function from ids to parent, index and text; the tab vector, which
the code keeps sorted by index, is recovered by `FirstOf` and `LastOf`. Title, note, draft and screen
of a tab are its text, of which only the encoded size and whether it is over a limit of a snapshot
matter (`Bytes`, `Oversized`). Each operation commits exactly the code's events, so that `close_tab`
commits one event although it changes other tabs, and `kill_server` (kill-session, kill-server) none
although it removes them all; the rest of its batch is still answered, which is why anything may follow
it before `Restart`. `Restart` starts a server from the saved file after a crash or after an exit that
saved, or starts one with `--empty`, which looks at no file. A start that cannot spawn the terminal of
a saved tab gives up, and its drop saves the tabs restored so far with all of the collapsed ids
(`Abandoned`); the ghost variable `torn` marks workspaces that go back to such a file. `validate` has
the rules of a snapshot in three parts: its limits, indices and active tab, and parents. `UiMirror` adds a
client: `ui_delta_batch` reports the *current* state of the tabs that the read events are about, as
the code does; a batch may be any prefix because of the byte limit, and fails if not even one event
fits. Whatever fails, the client drops its model and connects anew, which the server refuses as long as
its own snapshot is not valid.

**Mailbox, GuiHost, ServerHost.** One thread per connection goes through reading, `try_send`, the
compare-and-swap of `WakeSignal::request`, the wake and the wait, each a step of its own. `GuiHost`
is the Unix window: it drains on a wake, and again before it sleeps, and sleeps without a deadline.
Other events may or may not come. `ServerHost` is the headless loop: it takes up to `Budget`
envelopes, one step each, executes them and ticks; the request of a connection in `Shutdowns` ends
it after its batch. The executions are single steps here; `ControlPlane` and `UiRelay` say what they
do. A PTY reader thread that wins the wake flag behaves like a connection thread that does, and is
not modelled separately. The closing of the window is not modelled: it ends the process.

**OrderedService** says what either host promises, without threads, wakes, permits or batches: one
queue, each request taken on once or never, executed in order, one verdict for its client, which is
true. Both hosts instantiate it (`Service`): `queue` is what they have taken on (for the headless
server the batch followed by the mailbox), `verdict` what the connection thread wrote. The properties
`GuiServesInOrder` and `ServerServesInOrder` are its specification.

**UiRelay, UiSession.** `UiRelay` has the server's handlers for leases and relayed commands as
functions of one record; `UiSession` lets clients and requesters call them. Any answer to a client
may be lost, clients crash, leases expire. A completion stores the answer, stamps the event position
of the server into an answer that is a projection, detaches if the window closes and stamps again;
a repeated completion goes through all of this once more. Either stamp fails if the answer grows over
its byte budget, with what was done before it left in place (`failing`). That an answer was stamped is
kept, the position is not. A preapplied command may be refused, or be carried out and then have an
answer too long to record. Leases are a set of records, of which each carries a flag for `expires_unix_ms <= now`
instead of a time: the handlers only ever compare the two, every lease is renewed to the same
distance from now, and leases of live clients can expire in any order, so the flag loses nothing.
A client whose call fails drops what it holds and connects again, as the Windows frontend does.

**ServerLifecycle.** One logical instance has one endpoint, which the operating system gives to one
listener at a time. A server binds, registers (which removes old shutdown markers and replaced stale
records), serves, and on shutdown writes its marker, drops the listener and then the registration;
it may crash anywhere; one that was told to stop still answers the rest of its batch (`Answering`). A window connects or starts a server, attaches in three requests (image,
attach, image again), notices the loss of its server at a poll, and recovers. Each of the three may
fail at a server that answers, for instance because its lease table is full, and a start may fail too
(`NotStarted`). The identity of a
server (start time, nonce, epoch) is its number; the marker holds a process id only, as in the code,
and process ids are reused freely. `list-instances --prune` is two steps, the record and the marker.

**WorkerSupervisor.** Both hosts, the one-shot and the persistent one, and the worker they talk to:
frames in two pipes, a reader thread and a script thread in the worker, a broker request that waits
for its answer, the deadline that turns into a cancel frame, the grace after it, kill and reap. The
reader takes the request out of its slot to compare it with an answer, and puts it back in a second
step if they differ (`TakePending`, `PutBack`); the script may give up or ask again in between. A frame
may be too large to be written: the one-shot host then returns and leaves the worker alone with its
input closed (`NotTold`, `LetGo`), the persistent one terminates it. A worker that was let go of is followed
until the next invocation, which has a worker of its own. The worker may crash and the host may be killed at any point. A rejection is a result frame that echoes
the rejected frame, as `write_shared_protocol_frame` builds it, which is why results can be stale.

**IdempotencyStore, RuntimeCoordinator, DeviceLeaseStore, DeviceClaims.** The first three have the
operations of one durable store each as operators on its table. `DeviceClaims` runs the commands as
processes that call them one by one; a store call is tried once and is applied or refused as a whole.
A claim goes through request reservation, audit, fence and gate, lock, lease record, launch of the
owner, wait, classification and receipt, with a kill possible between any two. The resident owner
binds its endpoint, takes up the claim, opens the device, serves, closes, and marks its record.
Records of earlier claims make eviction happen. `Earlier` leases stand for a store that is not empty.

**FileTransactions.** A file system of names and objects, in which a snapshot is identity and
content. Every call that changes it is a step of its own, links and unlinks included, and a command
may stop after any of them. `recover`, `rollback` and `finalize` look at the receipt last stored and
the names as they stand. The user's own programs write, replace and remove files in between. A
snapshot in the code holds identity, size, modification time, permissions and checksum, so that a file
the user has written again is told apart from what it was: the content `Written(k)` is new with every
user action. A user who writes the very bytes of a copy into it is not modelled.
A private name holds the id of its transaction (`NamesAssumption`).

## Runs

| Run | States | Shows |
|---|---|---|
| `event_journal` | 225,866 | with a journal of 2 events, 5 commits per epoch and a restart: `NoSilentLoss`, `RefusedOnlyWhenLost`; a reader `CatchesUp` |
| `control_plane` | 79,682 | a window of 2 receipts, five requests (one with a deadline and its retry without, two sharing an id, submissions on two tabs) and four uncontrolled commands, one closing a tab: `AtMostOnce`, `SameAnswer`, `PendingHasReceipt`, `CommittedMeansEntered`; `WaitEnds` |
| `ui_mirror` | 1,106,586 | 3 tab ids, three texts (plain, long, over a limit) and room for three plain ones, 4 events in the first life and 2 in the second and what the last operation adds, through a journal of 2: `BootstrapServes`, `MirrorExact`; a client that dropped its model is `InStepAgain` |
| `gui_host` | 78,432 | 3 connections, 2 permits, 2 places: `NoneStranded`; the refinement `GuiServesInOrder`; `GuiServed` |
| `server_host` | 59,706 | 3 connections, batches of 2, one shutdown: the refinement `ServerServesInOrder`; `ServerServed` |
| `ui_session` | 405,852 | 2 clients, 2 leases, a queue of 1, 2 requests of 2 kinds: `OneFate`, `OwnResult`, `AppliedOnce`, `VisibilityTruth`; `Taken` |
| `server_lifecycle` | 471,604 | a window, 3 servers of 2 images with 2 process ids: `ImageMatches`, `LiveIsListed`, `StoppedStaysStopped`, `SuppressedOnlyIfStopped`; `Recovers` |
| `worker_supervisor` | 233,371 | 3 invocations on workers that serve 2, 3 broker requests each, both hosts: `OwnResult`, `OwnAnswer`, `TimeoutTruth`, `NoneLeft`; `Ends`, `NoOrphan` |
| `device_claims` | 1,530,379 | 2 commands at a time, 2 sessions, 2 request ids, 2 new leases and an old one in a store for 2, one device: `OpenIsRecorded`, `OneOwner`, `EndedMeansClosed`, `ReadyMeansQuiet`, `AtMostOnce` |
| `file_transactions` | 2,426,841 | 2 transactions on 2 paths, a user action: `NothingLost`, `RefusedOnlyIfTouched`; `EndsExact` |
| `control_overwritten`, `worker_blocks` | | violations, see [Findings](#findings) |

Type invariants are not repeated in the runs: `TypeOK` is a theorem of every module that states one.
`SYMMETRY` is used in `device_claims` and `file_transactions` over sets whose members occur in no
ordered comparison; neither of these runs has a liveness property (`EndsExact` is an action property).

Why the bounds are enough. A capacity of 2 is the least that has a first, a last and a forgotten
element; the sequence bound exceeds it so that the journal wraps, by more than one batch, and `MaxEpoch = 2`
has the one restart that matters (an epoch is only compared for equality). A window of 2 with four
calls has both kinds of full window, with and without a final receipt. Three tab ids make a
parent in the middle, whose closing promotes a child, and a cycle of length three; a long text takes
the room of two plain ones, so that the size limit is reached by three tabs, and new tabs are plain
because `set_tab_text` makes them anything. `MaxTabs` is not exceeded in the run (it acts like the size
limit); a second life of two events restores, changes a tab and loses its client once more. Three connections
with two permits and two places reach every limit, and three are needed for a winner of the wake
flag, a thread that is coalesced and one that comes after the drain. Two clients and two leases
let either client lose its lease and come back, or both be attached at once; a relay queue of one
makes its bound and the trimming of completed results happen. Of the five kinds of relayed commands
the run has two: a preapplied one and the one that stops the server. A command of kind
"local" is a preapplied one without the preapply, a handoff one that may be refused for want of a
visible window, and "keep" is "stop" without the shutdown, which
here only comes if the result is collected; the theorems cover all five. Three servers make a crashed, a stopped and a recovered
one, and two process ids force the reuse that the marker is exposed to; commands launch servers too, so
one window has rivals, and the theorems cover any number of windows. Three invocations on a
worker limited to two have a successor for every stale frame, the limit, and a replaced worker; three
broker requests are one that was given up, one that is put back over it, and the next. Two processes are a claim and whatever races it (another claim,
session-end, a refresh, a renewal); a further one can only be kept out by the same fence or gate, and
the theorems cover any number. Two transactions make the source of one the destination of the other, and one
user action is what tells `RefusedOnlyIfTouched` apart from "never refused".
All bounds other than the buffer limits of the code are named as such where
they are declared, and occur in guards only.

`CHECK_DEADLOCK FALSE` is used where the system really stops: a headless server that was shut down, a
session in which every window has been closed, and where a bound (servers, invocations, requests,
transactions) is used up.

## Fairness

- `EventJournal`: readers keep polling (weak fairness of `Read`) and a refused reader takes a new
  baseline: the loops of the clients run on timers. Nothing is assumed of the server. `CatchesUp`
  holds because commits and restarts are bounded, that is for a server that falls quiet now and
  then; a reader can of course be outrun for ever by one that does not.
- `ControlPlane`: each submission in progress is eventually due, because the host polls its terminals on
  every tick and the delay before Enter is fixed. No request is ever fair.
- `UiMirror`: the client's tick runs, and polls or reconnects. The remark on `CatchesUp` applies to
  `InStepAgain`, which excepts a server that was killed or refuses its own snapshot.
- `GuiHost`: the loop runs unless it sleeps, and a thread between `try_send` and its wake is
  scheduled. Other window events are not fair, so `GuiServed` rests on the wake alone. That the window
  library delivers a wake it accepted is assumed.
- `ServerHost`: the loop ticks, and threads are scheduled.
- `UiSession`: each client's timer keeps calling its tick, which polls when it has no command in hand and finishes
  or gives up within three tries when it has. `Taken` is conditional on one client that stays attached.
- `ServerLifecycle`: a started server goes on to serve and a stopping one to exit; a window goes on
  with its attach or recovery, and its poll fails once its server is gone. Nobody has to launch, stop,
  crash or close anything, and no attempt has to succeed: `Recovers` excepts a window that is turned
  away again and again (`TurnedAway`: a request fails at a serving server of its image, or a server it
  may start does not start), and names what else may come: the window is closed or suppressed,
  another image holds the endpoint, or the bound on servers is used up.
- `WorkerSupervisor`: the host and the reader thread of the worker run, and time passes
  (`Scheduled`). `Cooperative` adds that a script which was cancelled stops: the engines test the
  flag between steps and in the wait for the broker. `Ends` holds under both, `NoOrphan` too, also for
  the worker that a one-shot host has let go of; without
  `Cooperative` `Ends` fails (`worker_blocks`), although the code means to survive such scripts.

## Proofs

The proof modules extend the specifications and are checked by TLAPS for every value of the
constants, under the named assumptions of the modules: `CapacityAssumption` (a natural number, 0
included: `capacity.max(1)` is part of the model), `BoundsAssumption`, `MailboxAssumption` (limits
are natural numbers; the set of connections need not be finite), `ServerAssumption` (the budget
is positive), `LifecycleAssumption` (at least one image and one process id), `WorkerAssumption`,
`LeaseLimitAssumption`, `DeviceAssumption` (lock ids are positive numbers, old leases are leases),
`WindowAssumption` and `RequestsAssumption` (requests are records; a missing deadline is no time),
`RelayAssumption` and `SessionAssumption` (positive limits), `WorkspaceAssumption` (tab ids are
numbers, and there may be at least one), `FileAssumption` (finitely many paths, and
an object for each) and `NamesAssumption`.

- `EventJournalProofs`. The inductive invariant is `TypeOK /\ JournalIsSuffix /\ NoSilentLoss /\
  FutureEmpty`. `FutureEmpty` (nothing is committed in an epoch to come) is needed when a restart
  moves to the next epoch: the new journal is empty and must agree with its log. `CommitFacts`,
  `TakeFacts` and `AnswerFacts` say what the operators return: that the events after a position are
  a contiguous piece which starts right after it. From the invariant follow `TypeCorrect`,
  `RetainedSuffix` and `ReadersMissNothing`, then `GapIsExact`, and `ReadersNeverFuture`, which holds
  because a cursor never passes the log of its epoch.
- `ControlPlaneProofs`. `Admitted` says of any window and request that an admission keeps the window
  within its capacity (hence `WindowBounded`), with one entry per id, and evicts at most its oldest
  final entry, when it is full (`Extended`, `Evictable`). The invariant joins that to the four properties of the run and two facts that make them inductive:
  only a tab that exists is waited for (`WaitsForTab`), and the submission in the terminal of a tab
  that is waited for is that of the waiting request, or that request wrote nothing
  (`OwnSubmission`). Without it the poll could settle a receipt as committed for another request's
  Enter. From it `RunsOnce`, `OneAnswer`, `WaitingIsRetained` and `CommittedIsEntered`, and the action
  property `FinalIsFinal`: no step rewrites a final receipt or removes any other than the oldest final
  one of a full window.
- `HostProofs` is about both hosts of the mailbox, first the threads they share: counting permits
  (`PermitsAccept`, `PermitsShrink`), moving an element between two queues (`MoveHead`, `AppendRight`)
  and what a step of a thread preserves (`ThreadMail`, `ThreadAnswers`, `ThreadQueues`).
  Then the window. `NoneStranded` is not inductive. The chain that makes it so is: a request in the
  mailbox of a sleeping window has set the flag, or its thread is about to (`MailMeansFlag`); a set flag means
  a wake that is posted, or a producer about to post it, or a drain still to come (`FlagMeansWake`);
  and a window that sleeps has installed its wake (`OpenedInstalled`). Also proved: types, order,
  true answers, and that the window implements the service: every step is a step of `OrderedService`
  or leaves its four variables alone. The argument is about what a thread may still say: one whose
  request was refused was never in the queue, and one that waits is in the queue or was executed.
  Then the same for the headless loop, where requests pass through the batch and the shutdown drops
  the mailbox, with the batch in front of the mailbox. `Settled` is the extra fact for the shutdown:
  once the host has stopped, a request that was not executed is in no queue any more.
- `UiProofs`, the relay. The server is one record that each handler transforms, often in two stages (reap,
  then serve), so the invariant is stated of a server value and the lemmas say what each stage does
  to it. `LeasesFine` has the lease table: unique ids and clients, and a last event that is true.
  `QueueFine` has the relay: command ids are never given twice (`AskedOnce`), every command and every
  result is that of the request it names (`Known`), where a command is it is nowhere else (`Apart`),
  `preapplied` holds exactly the active commands that were carried out (`Preapplied`), and what a
  requester has seen is over and stays the only answer (`Collected`), although results are trimmed,
  the queue is cleared when its owner leaves, and completions are repeated and stamped anew, or fail
  between two of their steps. `Quiet` is what a change
  of leases may do to the queue: nothing, or clear it as a whole. From it `OnePlace`, `AnswerIsOwn`,
  `CarriedOutOnce` and `VisibilityIsTrue`.
- `UiProofs`, the workspace. `BootstrapServes` becomes inductive when the saved file is as good as what
  is served (`TreeInv`, `GoodWorkspace`), for a restart serves the file. A start that failed midway leaves
  a file that keeps only types and unique indices, and `torn` says so; all other files have a sound tree
  (`SoundTree`). Since a kill leaves collapsed ids of tabs that are gone, `SoundTree` also says that
  such ids lie below every open tab, from which `StartedTree` concludes that no tab to come is born
  collapsed. Three more steps need an argument. A new tab finds a
  free index because there is one index more than tabs (`FreeIndexFree`). A loop through the promoted
  children of a closed tab would have been a loop through the tab itself (`CloseTree`). And a move that
  `would_create_cycle` lets pass makes no loop (`MoveForest`): the walk from the new parent reaches the
  root and does not meet the moved tab, while a loop through that tab would hold the whole walk. From it
  `ServesBootstrap`, and `CycleCheckIsExact`: unless the tree is torn, a move is refused exactly if it would close a loop. One step
  per tab is enough for the walk, since a longer one would meet a tab twice and the tree have a loop
  already (`WalkReachesRoot`), and a walk that meets the moved tab makes a loop once it is moved (`MetLoops`).
  `ClientInStep` rests on `MirrorInv`: as long as every event that the client has not seen is retained
  and the server was not killed, the client agrees with the server about each tab that none of these events is about, except that a
  tab may still hang under a parent that was closed (`AgreeOn`); closed ids do not come back within an
  epoch. So a client that has seen everything shows a closed parent, and then its snapshot is invalid,
  or agrees. `Logged` says what a commit does to the events a client still has to see, `TakeAbout` what
  a poll takes of them, and `ServerStep` what every operation of the server has in common. What the two
  recursive functions compute (the walk, and the events of a starting server) is shown by a least
  counterexample (`Least`, `AllNat`, `WalkExists`, `RestoreExists`), since the induction theorems of the
  library are out of reach of the provers.
- `ServerLifecycleProofs`. Two invariants, of the servers (`ServerInv`: types, births in order,
  a server in the registry from `Register` to `Unregister`) and of the windows given those (`GuiInv`).
  `NoFalseStop` is the subtle one: the marker holds a process id. It rests on `MarkerInv` (the marker
  is of a server that was told to stop, and no later one with the same process id has registered or has
  a window) and on `Births`: a live server's process id is given to nobody else, so that one with that
  id was started later, and it removes the marker when it registers, before any window can attach. `StopIsRespected` needs `ToldInv`: while a window has not yet
  noticed, the marker still names its server.
- `WorkerSupervisorProofs`. The invariant speaks of every frame in the pipes: those to the worker are
  of the current or an earlier invocation, and at most one is the invocation that is not yet started
  (`ToWorker`); a result frame that echoes the current invocation carries what its script ended with
  (`ToHost`); a cancellation flag is set only for an
  invocation whose deadline is over, or whose host is gone (`Cancellation`); the reader holds a
  request only in the middle of an answer it rejects (`Slots`). Nothing is claimed about the request in the
  slot, which may be one that was given up: `AnswerIsOwn` rests on the channel of the request instead
  (`Receives`). From it `ResultIsOwn`,
  `AnswerIsOwn`, `TimeoutIsTrue` and `NoWorkerLeft`; the last one names the worker that it does not
  cover, the one a one-shot host could not write to, and `NoOrphan` shows that it ends.
- `DeviceClaimsProofs`. The invariant: an owner is no further than its record says (`Phases`), one
  record per device is neither terminal nor evicted (`OneLive`), one command at most is inside the
  refresh fence (`Fence`), a command that launches or classifies an owner has its record and the owner
  is in the state it believes (`Claiming`), no such record exists while a refresh publishes (`Quiet`), and a
  request id that is being served, or has a claim, has left its first state (`Begun`). `TameKeeps`
  states once what a step may do without disturbing any of this; every action but the beginning of a
  claim and the reservation of its record is an instance. From it `OpenOnRecord`, `SingleOwner`,
  `PublishesQuietly` and `ClaimedOnce`. `EndedIsClosed` rests on a second invariant (`EInv`): one command at most is inside the gate of a session (`Gate`), a session that
  ended stays ended and has no claim past its admission (`Ended`), the client an owner will answer is
  waiting for that owner (`Clients`), and whatever record of the session may still open its device is
  on the list of its session-end, or is what session-end waits for (`Accounted`). `EndFrame` states
  what a step may do without disturbing it.
- `FileTransactionsProofs`. `NoFileLost` holds for any number of transactions, paths and user actions,
  under the hypothesis `~Intrusive`: other programs keep away from a path while a command has it locked
  (they may do anything to it as soon as the command has ended or was killed). The hypothesis is needed,
  for `Publish` replaces whatever is at the destination by then. `NothingLost` itself says nothing about
  what a command is going to remove. The invariant adds: commands at work lock disjoint paths
  (`LocksApart`); what stands under the temporary and the marker name is no file of the user and has
  no other name (`ScratchApart`); the destination is vacant when the copy is published (`Vacant`); a
  stored result is the copy that was made, which is not a file of the user unless the user wrote to
  it, and then its content differs (`CopyIsOurs`), so that a rollback which removes "the result"
  removes nothing of the user's; and a backup exists only of what there was (`Backups`), so that finalize
  drops only what its receipt covers. Each effect on the file system is one of a few shapes (a name
  goes, a second name, a new object, nothing), for which `ClearStep`, `AliasStep` and `StillStep` say
  once that every file keeps a name; `Frame` says what no other transaction notices. The proof showed
  that one content for everything the user writes would have been too coarse: then a file that was
  written again is taken for the copy, which the checksum and the modification time of the code exclude.

  `RecoveryFindsItsWay` and `EndsAsStored` rest on a second invariant, `HInv` (theorem `Findable`). A
  command checks names at one step and relies on them at a later one, so `Exact` says, for every place
  where a command can be, what it has seen to and its locks have kept: with `Tidy`, all `EndsAsStored` needs,
  and it holds of touched transactions too. That a check of recover does not fail needs more: `Shape`
  says for every stored state, with no command at work, which combinations of destination, source and
  their backups a transaction nobody has touched can have been left with, and `Tidy` and `Marked` what
  can stand under its temporary and marker names. Two facts keep it inductive. The lock on a path does
  not cover the backup of what was there, so `OneHome` says that no object has names of two paths: what
  the user writes to one path cannot change what a backup of another one holds. And an untouched
  transaction shares no path with another unfinished one (`Alone`), because `Begin` puts both on record
  as touched.

Only model-checked: the liveness properties (`CatchesUp`, `WaitEnds`, `InStepAgain`, `GuiServed`,
`ServerServed`, `Taken`, `Ends`, `NoOrphan`, `Recovers`), which are beyond this prover. Every other
property of a passing run is stated by a theorem.

## Findings

Each is a `violation` run: the property is what a text of the repository says, and the trace shows
what the code does. The quotations and lines are in `PROJECT.json`.

1. `control_overwritten`: a second `send-composer` with an empty draft is accepted while the first
   one waits, takes its place in `pending_submissions`, and the first receipt is never settled.
2. `worker_blocks`: after the deadline the one-shot host takes the next frame as the last one, a
   broker request included, and then waits for the exit of the worker without a limit
   (`worker_supervisor/mod.rs`, lines 168 and 259). A script that asks the broker and then blocks in
   a native call keeps its host waiting for ever, where `PRD_02_36_agenterm_qjswasm.md`, line 774,
   promises a hard timeout and a reaped worker.

## Observations

Found while modelling, and not the subject of a run. The first group is visible in the models.

- Control plane: closing a tab leaves its receipt "accepted" for ever; such receipts are never
  evicted, and 512 of them make the window refuse everything until the server restarts. A `send-keys`
  that wrote some of its keys and then failed gets a `no_op` receipt. A retry that comes after its
  final receipt was evicted runs again.
- Requests: a client whose request times out is told "AgenTerm GUI did not process the command"
  although the envelope stays in the mailbox and is executed later. The control plane document lists
  the missing proof of execution after a timeout as open work.
- Mirror: closing a tab with children changes the children without an event about them; clients find
  their model invalid and bootstrap again. `MirrorExact` and `InStepAgain` show that nothing worse
  comes of it. `kill-session` and `kill-server` remove all tabs without an event, although the
  specification of the operation lists `workspace.shutdown` (`operations.rs`, lines 1449 to 1463), so
  that a client served later in the same batch shows tabs that are gone.
- Workspace: a start that cannot spawn the terminal of a saved tab overwrites `workspace.json` with the
  tabs restored before it (`server_app.rs`, lines 365 and 2162). The rest is lost; if a parent is among
  it, every later bootstrap is refused; ids of lost tabs are handed out again, so that a tab gets a
  parent it was never given, or itself, and may be born collapsed. `rename-window` and `set-tab-note`
  know no limit, and a title or note over the limit of a snapshot makes every bootstrap be refused until
  it is changed. Collapsed ids of tabs that were killed are saved.
- Relay: a repeated completion stamps the event position of now into the stored answer, so that a
  requester which asks twice may see two positions. A completion whose answer grows over its budget by
  the stamp is answered with an error although it is stored, and with the second stamp the lease is
  already released. A preapplied command whose answer is too long to record has had its effect and is
  answered with an error. A completion that closes the window stores the projection of the lease it has just
  released. When the owner of the projection leaves, the command that another attached client works
  on is forgotten. A lost answer to a poll leaves its command in flight with nobody working on it; a
  command queued for clients that are gone waits for the next window; `stop-server-and-exit` stops
  the server only when its result is collected.
- Lifecycle: `list-instances --prune` of any stale record removes the shutdown marker, there being one
  marker file per scope, and with it the protection of a stopped server (`told` is cleared there). A
  window that lost its poll before the shutdown is not suppressed by it. A window that a full lease table
  turns away tries again for ever. A suppression outlives its
  server until the next attach.
- Worker: a frame over `SCRIPT_FRAME_MAX_BYTES` makes the one-shot host return without terminating or
  waiting for its worker (`worker_supervisor/mod.rs`, lines 123 and 248); the worker ends by itself when
  it notices that its input is closed. A broker request that the script gave up on, put back into its slot by the reader,
  stays there: later broker calls on that worker, also of later invocations, fail with
  `broker_request_already_outstanding` as long as the slot holds it; a newer request that it overwrites ends with
  `broker_response_channel_closed`. A cancel that comes too late is answered by a rejection. The one-shot host that takes it
  reports a crash or a protocol error; the persistent host finds it in the pipe at its next invocation
  and gives the worker up. The persistent client is used by tests only.
- Device claims: a second claim of the same session is given the session's own lock, and releases it
  when it fails, so that renewals of the first lease are refused from then on. A store that cannot be
  read while a claim waits makes the claim fail although its owner goes on to become active.
  `device-release` answers ok when the cleanup was uncertain; compare `docs/agenterm-cu-verbs.md`,
  line 1374.
- File commands: a crash while the marker is written leaves a torn marker, with which recovery is
  refused for ever (`StageMarker`, `CleanStaging`); compare `docs/agenterm-cu-verbs.md`, line 1760.
  With `Intrusive = TRUE` a file that the user puts at a new destination between the plan and the
  publication is replaced: locks bind the commands only.

Outside the models: the failure of the window's wake is ignored with the flag left set
(`platform/adapters/unix/frontend/mod.rs`, line 4273), and the thread that writes the answer to a
shutdown races the exit of the process (`server_app.rs`, line 1788).

## What is not modelled

The repository has some 306,800 lines. Most of them draw, lay out and paint (frontends, render,
control center, themes, geometry), translate data (command catalogues, parsers, JSON and tmux
syntax, wire formats, MCP schemas), call one operating system or another (the providers of
`agenterm-cu`, PTY and window adapters), or bind and embed engines (`agenterm-abi`, Lua, QuickJS,
SQL, VNC). They keep no state that two actors share, so a model of them would restate them line by
line; the models here cover the small share that has protocol state, and a mapped share of 30 % of
all lines is not within reach of faithful abstractions.

- Rendering, geometry, themes, input methods, settings, named buffers: no protocol state.
- Parsing and formatting of commands, JSON and tmux syntax: translation of data.
- Script engines and their catalogue, MCP adapters and fleet views: sequential adapters.
- PTY reader threads, the terminal parser, scrollback and the shutdown of terminal processes.
- Several live endpoints of one logical instance (pinned peers), alias files of the old registry
  schema, and the throttle between two restarts of a server.
- Managed jobs of `agenterm-cu`, its other verbs, and reads and writes of an open device; the retention
  of request receipts, `session-renew`, and the encoding of its stores. `publish_file`, which lives in
  another crate, is modelled from its use.
- Vendored and third-party code, `lab/`, `research/`, `scripts/`, `tools/`.
- The event position inside a relayed answer, whose value differs with every stamp.
- Records that are taken for live because a stranger has their process id and its start identity
  cannot be read.
- Reuse of process ids by the reaping of UI leases, and wall clocks that go backwards.

## Plan

Done, in order of importance: journal, control plane, workspace and mirror, mailbox and hosts,
leases and relay, the refinement of the hosts, server lifecycle, worker supervisor, device claims
and file transactions; the theorems above.

Next, proving:

1. That `ControlPlane` and the claims of `DeviceClaims` implement the specification of item 3 below.

Next, modelling:

1. `TerminalRuntime`: reader thread, bounded output channel, wake, `close_process`; composed with
   `ControlPlane`, of which the tab record is the abstraction.
2. Managed jobs of `agenterm-cu`: crash between any two writes, recovery on the next start.
3. An abstract specification of "a request has at most one effect and one receipt", implemented by
   `ControlPlane` and by the claims of `DeviceClaims`.
