# A TLA+ verification of NTIP

NTIP connects Nodes to a Master over encrypted UDP. This directory models the
part of it where threads, queues, timers, crashes and a lossy network meet: the
runtime of the two daemons (`src/src/runtime`). Paths below are relative to
`src/`, so `src/runtime/data_worker.zig` is the file `src/src/runtime/data_worker.zig`
of `PROJECT.json`.

* [Inventory](#inventory): the system's parts, their state and what makes them correct
* [Plan](#plan): the modules, those written and those to come
* [Modules](#modules): how state and actions correspond to the code
* [Runs](#runs): what TLC checks, with which bounds and fairness
* [Proofs](#proofs): what TLAPS proves
* [Disagreements](#disagreements-with-the-documentation): where the code does not do what its documents say
* [Limits](#limits): what is only model-checked and what is not modelled

## Inventory

### Processes and threads

Each daemon has a **control thread** and a **DATA worker** thread. The Master's
control thread runs `runControlLoop` (`service.zig`): management requests, then
`advanceRuntime`, which polls the control plane for events of the worker, ticks
the Master's coordinator and the configuration publisher, and moves snapshots to
the worker. The Node's runs the same loop with `NodeLoop` as its hook. The two
threads share nothing but bounded single-producer queues. All tables are bounded
and allocated at start-up, so every hand-over may be refused.

    management -> SQLite commit -> SnapshotInstaller --command queue---> DATA worker
    MasterCoordinator / NodeCoordinator -> ControlPlane --command queue---> (sessions,
                                                \-------retirement queue--->  routes,
    MasterPublisher / NodeApplier  <- ControlPlane <----event queue---------  fences)
    SnapshotInstaller <-----------------barrier acknowledgement queue--------

### Components

| component (file) | state | operations | hard behaviour | correct when |
| --- | --- | --- | --- | --- |
| Control plane (`control_plane.zig`) | list of peers: state, right to transmit, removal queued, candidate endpoint | register, confirm, abort, make receive-only, onEvent, tick | refused pushes; events lost; a peer that ends while the retirement queue is full | a session in the worker always has somebody to remove it; it is retired once |
| DATA worker (`data_worker.zig`) | phase of its loop, retirement fences, pending acknowledgement | run, handleTun, handleUdp, processRetirements, processCommands | retirements overtake commands; fence overflow; head-of-line acknowledgement | a retired session never comes back and never sends again |
| DATA plane (`data_plane.zig`) | session table, routes and their bindings | install, confirm, remove, replace snapshots, encrypt, decrypt | overlapping sessions of one Node; snapshots replaced under them | one transmitting session per Node; routes follow it; no return to an old sequence space |
| Session table (`session_table.zig`) | slots, count | put, get, remove | tombstones, wrap-around, load factor | it is a map; it erases exactly the keys it drops |
| Bounded queue (`bounded_queue.zig`) | ring, one index per thread | push, pop, popSecure, occupancy | the other thread's index may be an old one; full and empty | FIFO, nothing lost or doubled, no slot accessed by both, key material wiped |
| Replay window (`protocol/replay.zig`) | highest number, bit words | check, commit | shifts across words | no number accepted twice, none refused that is new and not too old |
| Endpoint validator (`protocol/endpoint.zig`) | current endpoint, candidate, challenge | observe, accept | late responses, roaming, full queues | only a proven path is used; both threads use the same one |
| Node coordinator (`handshake_coordinator.zig`) and `NodeLoop` (`service.zig`) | one attempt, active and draining session, backoff | begin, receive, tick, sessionConfirmed, enrollmentCompleted | late and lost replies, refused pushes, expiry, rekey overlap | no peer is lost track of; only newer sessions become active; attempts end |
| Master coordinator (`handshake_coordinator.zig`) | slots of handshakes, association per Node | receive, tick, sessionConfirmed, retireAssociation | revocation against a full queue, confirmations that arrive after it, slots outliving activation | revocation is final and ends; one pending session per Node; drains end |
| Enrollment persistence (`service_state.zig`, `sqlite_registry.zig`) | Node: staged or enrolled state, token; Master: credential, binding | stageAssignment, completeEnrollment; lookup, consumeAndBind | crashes between writes; lost completion | a Node can always continue; a credential binds once |
| Node reconfiguration (`client_transaction.zig`, `atomic_file.zig`, `ntcl`) | five files and a write-ahead intent, in two directories | commit, recover, import, start-up | a crash or loss of power between any two file operations | the files are always of one configuration; what was reported stays |
| Configuration publication (`configuration_runtime.zig`, `config_sync.zig`) | pending generation, request, hash; applied generation, reassembly | tick, ready, receive, apply, installed | loss, reordering, stale acknowledgements, sessions that change under it | what is acknowledged is installed; the Node converges |
| Snapshot installer and control loop (`service.zig`) | pending and in-flight projection, expected acknowledgement, failure | captureCommitted, poll, drainAcknowledgements, readyForMutation, advanceRuntime | commit against installation; one acknowledgement slot for two kinds | one projection at a time; store, routes and worker agree |
| Live settings (`settings_runtime.zig`, `settings_repository.zig`) | desired and effective revision, mailbox, revision at the worker | createRevision, tick, begin, commitApplied, activateAfterRestart | superseded revisions, refused commands, restart | all followers of a setting agree; the next start succeeds |
| Connectivity checks (`connectivity.zig`, `connectivity_runtime.zig`) | row, admission counter, correlator, recorder | start, submit, begin, matchReply, expire, interruptAll, poll | late replies, full queues, stop, kill | one result per admitted check, for which there is room |
| Idempotent dispatch (`api_application.zig`, `idempotency_repository.zig`) | record per key, commit hook, staged control | reserve, mark, commit, cancel, prune, recover, arm | failure or crash between mutation and response; pruning during an export | a mutation executes once; an accepting answer is true |
| Management plane (rest), repositories (rest), CLI, platform, codecs, cryptography | database, sockets | request handlers | transactions, parsing | see `PROJECT.json` for why they are left aside |

`PROJECT.json` lists every component with its status, and under `hazards` what is
hard to test in this code, at its line, with the property that covers it.

## Plan

| order | module | of | state |
| --- | --- | --- | --- |
| 1 | `SessionRuntime`, `SessionRuntime_proofs` | control plane, DATA worker and the queues between | written, its safety proved |
| 2 | `SessionTable` implementing `SessionMap` | session table | written, proved |
| 3 | `NodeCoordinator`, `NodeCoordinator_proofs` | Node coordinator, `NodeLoop`, the Node's files | written, its safety proved |
| 4 | `MasterCoordinator`, `MasterCoordinator_proofs` | Master coordinator | written, its safety proved |
| 5 | `ConfigSync` | publisher, applier, reassembly | written, its safety proved |
| 6 | `Reconfiguration` implementing `NodeConfiguration` | the Node's files | written, its safety proved |
| 7 | `SpscQueue` implementing `FifoQueue` | the ring | written, proved |
| 8 | `ReplayWindow`; `WorkerStructures`, `WorkerStructures_proofs` | replay window; runs 2, 7 and 8 together | written, all three proved |
| 9 | `Connectivity`, `Connectivity_proofs` | connectivity checks | written, its safety proved |
| 10 | `EndpointMigration`; `SessionControl_proofs` | endpoint migration; proofs of 5 and 10 | written, its safety proved |
| 11 | `Publication`, `Publication_proofs` | snapshot installer, control loop, settings | written, its safety proved |
| 12 | `Idempotency`; `Durability_proofs` | idempotent dispatch, staged controls; proofs of 6 and 12 | written, its safety proved |
| next | `Enrollment` | the Master's registry, credential and reset, composed with both coordinators | open |

Abstract specifications: a map (`SessionMap`), a bounded FIFO channel
(`FifoQueue`), a set of files replaced as a whole (`NodeConfiguration`).

## Modules

Common conventions. A session id is random in the code and a number that counts
up here, so that a larger id is a later session. Queues that may refuse a push
either have a small capacity (`SessionRuntime`) or appear as a constant set
`Refusals` or `Faults` of the things that may fail (the others). Time is the
passing of deadlines: `Elapse` may fire at any moment.

### SessionRuntime

One daemon: `peers` is the control plane's list, `commands`, `retirements`,
`events` and `acks` the four queues, `sessions`, `routes`, `fences`, `overflow`,
`ackPending` and `phase` the worker. Actions of the control thread are whole
calls (`Register`, `ConfirmAsInitiator`, `Abort`, `MakeReceiveOnly`, `Publish`,
`OnEvent`, `Tick`); the worker's steps are those between which the other thread
can act: the head of a pass (`BeginPass`: acknowledgement, then retirements), one
command (`ProcessCommand`), the end of the pass where the fences fall
(`EndPass`), a connectivity request after the pass (`SendProbe`), the retirements
that `handleTun` and `handleUdp` look at before they read (`BeginPacket`), what
becomes of the packet that was then read (`SendData`, `ReceivePacket`,
`DropPacket`), and `Wake`. A session is chosen only by `Transmit` (`encryptData`), in
a step after the one that looked at the retirements; several requests may leave
without another look. The history `heeded` holds the sessions whose retirement
had been queued when the worker last looked.

* "online" stands for online, suspect and rekey_required.
* Control frames, datagrams and observations travel in the same queues and change
  nothing modelled: a push may be refused, and an event lost, at any time, and
  the fences may stay at the end of a pass.
* The coordinators are replaced by their contract: ids are fresh, the clock is
  monotone, a Node has one unconfirmed session, a Node confirms its newest. At a
  Node the unconfirmed session is the attempt's, which is its newest
  (`NoStrayPeer`, and `TypeOK` for fresh ids, of `NodeCoordinator`); at the Master
  the third is `OnePendingPerNode` of `MasterCoordinator`. The clock is monotonic.

### SessionTable and SessionMap

`slots` with linear probing over an arbitrary fixed `hash`. `SessionMap` says
what the worker expects, including which values an operation erases; the property
`ImplementsMap` is the refinement under `Map == [k \in Keys |-> Lookup(k)]`.

### NodeCoordinator

`attempt`, `active`, `draining` and the two deadlines of the coordinator; the
control-plane peers by the effect of its calls (`Aborts`, `Confirms`: result and
new list); `loop` for the fixed order of `tickOpaque` (the coordinator's tick,
then the decision to connect); `enrollment` and `token` for the Node's files, which
survive `Restart`. The Master is reduced to whether it has bound the key; replies
come at any time, or never. `cancel()` is unused by the loop and left out. Restart
covers a crash before any write and between the two writes of
`completeEnrollment`, whose partial outcomes are disjuncts of `CompletesEnrollment`.

### MasterCoordinator

`slots`, `associations`, `peers`, `bound`, deadlines, and the history `revokedIds`
of the sessions that a reset has revoked. One `Acceptances` set per handler says
which retirements the queue takes while the handler runs, so that any mixture of
accepted and refused ones occurs. The branch of `sessionConfirmed` for a revoked
slot cannot be reached through `onEvent`, whose peers are receive-only by then;
it shares a disjunct with "nothing in flight". Cookies, cached responses and their
retransmission change no modelled state and are left out, as is the capacity of
the association array, which is one per Node.

### ConfigSync

The publisher's entry for one Node (`published`), the Node's `applier` and
`receiver`, and the sessions as both ends see them (`links`, `peers`). A snapshot
is named by the generation of the store it was built from, so its label
(`generation`) and its content may differ, as they do in the code. Since a pending
snapshot is resent every second in new packets, a sent frame stays deliverable, in
any order and any number of times, until `Fade`; frames for a closed session are
dropped. A process whose loop returns an error stops, which to the other is an
offline peer; the model ends there. During a rekey two sessions transmit at the Node,
the open one and the attempt, and `BeginFirst` selects whichever a BEGIN comes on. The
history `left` notes for a session the newest generation the Node had applied in it when it
went back to the one that was still open, before it had activated this one.
`AcknowledgedStays` says that only this undoes an acknowledgement: once the new session
is activated, the old one is receive-only and its frames select it no more.

### WorkerStructures: SpscQueue, SessionTable, ReplayWindow

The three structures the runtime modules take for granted share no state; the
run's behaviours are those of one of them each.

`SpscQueue` has a step for every load, slot access and store of `push`, `pop` and
`popSecure`. Each index has one writer. An acquire load returns some value between
the one the thread saw last and the current one (`Visible`), which is what release and
acquire promise. `FifoQueue` is what `SessionRuntime`, `Publication`,
`Connectivity` and `EndpointMigration` assume: a push or a pop is one step of a
bounded sequence; a push that is refused or a pop that finds nothing, perhaps
because of an old index, changes nothing. The refinement maps the queue to `Contents`: a push takes effect with the store of the head, a pop
with the store of the tail.

`ReplayWindow` keeps a word as the set of its one bits; `check` and `commit` are
separate, as `transport.open` calls them before and after the tag is verified.

### Reconfiguration and NodeConfiguration

`disk` is what survives a loss of power, `journal` the renames and unlinks of each
directory that have not been synced, in order; `todo` the file operations that the
process holding `state.lock` has still to make. Every operation is two steps, the
rename or unlink (`Apply`) and the sync of its directory (`Sync`). A kill leaves
the journal, a loss of power a prefix of each. `NodeConfiguration` is the abstract
specification: the files change by a whole reconfiguration or progress towards
enrollment. The mapping, `Durable`, reads an intent on disk as the files it will be
rolled forward to.

* A number stands for a reconfiguration, its configuration and its credential; a
  number in `Tickets` is an import. The sample configuration of the package counts as
  absent. `persistGeneration` is left out.

### Connectivity

`record` is the row in the database, `requests` and `completions` the Channel's
queues, `slots` and `count` the correlator, `outstanding` the admission counter,
`pending` the completion the recorder holds. The worker learns which completions were
consumed only through the requests it takes (`known`), as the index of the other
thread may be stale otherwise. The control loop's steps are `Create`, `Submit`,
`Refuse`, `MarkRunning` (the operator's request) and `Record`; the worker's
`Begin`, `FailRequest`, `matchReply`, `expire` and, when it ends, `InterruptRequest` and
`InterruptProbe`; `Join`, `Exit`, `Kill`, `Startup` are the process.

### EndpointMigration

`current`, `candidate` and `candidate_endpoint` are the peer's in the control plane,
`endpoint` the DATA plane's, `wire` the network in both directions. Of a random
challenge the model keeps whether it is the candidate's (`live`): replacing or
accepting the candidate makes all copies of its challenge dead. `heardAt` records
where the Node got the live challenge. `Burst` is the rest of the control plane,
which fills the command queue.

### Publication

The control loop is cut where the worker can act: `pc` names the place in
`runControlLoop` and `advanceRuntime`. `db` is the database: durable generation,
number of Nodes, desired and effective revision. `installer`, `mailbox` and
`applier` are the objects of the same names; `acks` is the barrier queue both
kinds of acknowledgement share; `broken` records that an assertion between the
parts failed, after which the Master ends.

* The settings that change while the Master runs (MTU, liveness, traffic,
  retention) are one value, `live`; `capacity` is the one that needs a restart.
* Several polls with nothing between them are one. Requests that run checkpoints
  commit nothing after them. Nodes are a count, a generation's content its number.
* `activateAfterRestart` called by `commitApplied` never applies, as the revision is
  not marked for a restart at that point.
* Failures of memory, kernel or database end the Master and are `Restart`.

### Idempotency

`records` is the table, `current` and `pc` the one request being served, `completed`
the commit hook's flag, `control` the staged decision. `Serve` is the lookup and
reservation, `Mutate` the transaction of the handler with the hook in it, `GiveUp`,
`Complete`, `Incomplete` and `Arm` the ends of the dispatcher. Every database call may
fail, the process may end at every step, retention may prune at every checkpoint, and
`SetBack` moves the wall clock. `executions` is the history of committed
mutations.

* A key stands for an actor and its key. Authentication before the lookup and
  handlers of several transactions are left out.

## Runs

Passing runs; each property is checked with a mutant of the code that breaks it.

| run | instance | checks | states |
| --- | --- | --- | --- |
| `SessionRuntime` | 1 Node, 2 sessions with equal creation time, commands 2, events 1, retirements 1, acknowledgements 1, table 2, 1 snapshot | `RetiredStaysGone`, `OneTransmitter`, `RoutesFollowSessions`, `NoRollback`, `NoOrphanSession`, `RetiredOnce`, `RevocationReachesData`, `OfflineIsErased` | 758 244 |
| `NodeCoordinator` | 5 sessions, every refusal, crashes | `NoStrayPeer`, `NeverStranded`, `ActiveOnlyAdvances` | 47 700 |
| `MasterCoordinator` | 1 Node, 2 slots, 4 sessions, every refusal | `TypeOK`, `OnePendingPerNode`, `RevokedForGood`, `StrayIsSilent`, `RevocationEnds` | 17 600 |
| `ConfigSync` | 2 generations, 2 sessions, 2 chunks, 1 fault of any kind or rekey | `AcknowledgedStays`, `Converges` | 176 838 |
| `Reconfiguration` | 3 reconfigurations, the first an import, 3 interruptions | `StartsWhole`, `RunsWhatWasReported`, `AllOrNothing` | 50 767 |
| `WorkerStructures` | ring of 3 and 2 values; 3 keys, 4 slots, every hash; 3 words of 3 bits, 12 numbers | `NoSlotRace`, `VacatedIsErased`, `ImplementsFifo`, `WindowIsExact`, `TableIsMap` | 24 996 |
| `Connectivity` | 3 checks, queues of 2, 1 fault of 4 kinds | `PublishNeverRefused`, `OneResultEach`, `RunningEnds` | 92 664 |
| `EndpointMigration` | 3 endpoints, queues of 2, 2 disturbances | `EndpointsAgree`, `OnlyProven`, `FollowsNode` | 187 683 |
| `Publication` | 2 live values, capacities 1 and 2, commands 2, acknowledgements 2, 4 revisions, 2 generations, 2 restarts, 2 other commands | `NeverBroken`, `Coherent`, `StartsAgain`, `Settles` | 536 216 |
| `Idempotency` | 1 key; a change, an export and a restart; retention 2, clock to 4, set back twice | `AtMostOnce`, `ClaimsAreTrue`, `ControlIsRecorded`, `ReservationEnds` | 128 820 |

Two runs are to be violated, `ConfigSyncOffline` and `EndpointMigrationChallenge`:
see [Disagreements](#disagreements-with-the-documentation), which also lists
configurations that reproduce further counterexamples.

### What the runs show

* *Sessions.* The retirement queue overtakes installs and no overflow brings a
  session back; a rekey overlaps without a second transmitter; what the queues
  refuse is retried until the keys are gone.
* *Handshakes.* Nothing the queues, the files or the peers do leaves a session that
  nobody removes, except a silent one; enrollment can always continue.
* *Files.* A Node never runs with a mixture of two configurations, after any
  three interruptions.
* *Structures.* The assumptions of the modules above hold of the code.
* *Publication.* The admission gate is enough: with requests, settings, handshakes
  and a slow worker no commit meets a projection in flight; what is committed can be
  started from, also when a smaller capacity waits for a restart.
* *Checks, paths and requests.* A result, a proven path and a mutation are each taken
  once, whichever of reply, expiry, stop, crash and retry comes first.

### Why these bounds

* *SessionRuntime.* Its hazards need two sessions of one owner (one superseding the
  other), a retirement queue and fence array of one (so that the second
  retirement overflows) and a command queue of two (an install with a
  confirmation or a snapshot behind it, overtaken by the retirement). Owners do not interact except through
  capacities, which one owner already exhausts; equal creation times exercise the
  tie-break, and the proofs cover every other number. A table of two never refuses
  for lack of room with two sessions, but an install may be refused through the
  fences, which has the same effect. Two events hold as well (1.8 million states),
  and two snapshots with command and event queues of one (743 000).
* *NodeCoordinator.* A draining, an active and an attempted session are three ids; two more
  let an expired attempt be followed by further ones, after an activation and after a
  crash.
* *MasterCoordinator.* The same roles on one Node, plus one session drawn after a
  reset. Two Nodes with three sessions (66 000 states with one slot, 243 000 with
  two) hold as well: Nodes meet only in the number of slots.
* *ConfigSync.* Two generations give an older and a newer one, two chunks an order, two
  sessions a successor, which a rekey has beside its predecessor. Rekeys are normal
  operation but counted with the faults, so that the run has one of either:
  `AckedStays` covers every combination. Without counting them the safety part holds
  with one chunk and one more fault as well (1 774 000 states), but its liveness takes
  longer than the run may.
* *Reconfiguration.* Three reconfigurations let one be interrupted over the remains of
  another after a first that completed; three interruptions hit a command, its
  recovery and the recovery's repetition.
* *WorkerStructures.* A ring of three slots in use wraps after four pushes, with
  every order of the four indices. Load factor 7/10 of four slots admits two keys; the
  third gives the tombstone that is reused, and all 64 hash functions give every
  collision and wrap-around. Three words of three bits make shifts by none, one
  and several words with every remainder, and beyond the window.
* *Connectivity.* With queues of two a third check waits for a place that a
  completion frees. One fault is enough for each way a check can end early.
* *EndpointMigration.* Three addresses: where the Node was, is and was meanwhile. A
  queue of two is filled by one burst and one command.
* *Publication.* Four revisions give one in flight, one superseding it, one refused
  and one for the restart. Two handshakes' generations and two Nodes fill the smaller
  capacity. Two other commands fill the command queue.
* *Idempotency.* Keys do not interact: two keys hold as well. A clock of twice the retention lets a key expire and be used again.

Deadlock is not checked (`CHECK_DEADLOCK FALSE`): ids, generations,
revisions, checks and time are bounded, so a behaviour that has used them up may
stop, and a process that ended with an error does stop.

### Fairness

* `SessionRuntime`: the worker's loop, which epoll wakes at least once a second: what
  it does with one packet ends (`WF(Packet)`), and the pass comes round again although
  packets come between (`SF(Pass)`: one `epoll_wait` reports a descriptor once, an
  event is one packet, and the pass follows); and the tick of every
  offline peer (`pollTimers` visits all peers). No
  coordinator call, frame or event is assumed. `OfflineIsErased` (the worker comes
  back, time and again, to holding no keys but those of sessions in use) is
  conditional on the end of the Node's confirmations, because commands are processed until the
  queue is empty and retirements wait: the retry schedule has five steps.
* `NodeCoordinator`: the loop's two parts and the passing of deadlines.
* `MasterCoordinator`: a tick in which the retirement queue has room recurs, since
  the worker empties that queue on every pass. `TimedSpec` adds that deadlines pass.
* `ConfigSync`: the loops turn, the queues have room now and then, and what is
  pending gets through now and then. Strong fairness is needed for one step, the
  chunk that completes a snapshot: each repeated BEGIN restarts the reassembly, so
  the code converges only if all chunks of one period arrive in one period.
  `Converges` is conditional on a session that lasts, and on a commit after a generation
  that the Node had applied and left during a rekey (`NotLeft`): the Master, which has
  it as acknowledged, sends it no more.
* `Connectivity`: both loops turn, deadlines pass, a clock that was set back catches
  up, and the service manager starts the Master again.
* `EndpointMigration`: both threads turn, the Node keeps sending, challenges expire.
  The network delivers traffic and challenges that stay in flight; strong fairness
  for a response, which needs room for its two events when it arrives. A round trip takes less
  than a challenge lasts, except by a disturbance, of which there are finitely many.
* `Publication`: both threads turn and the Master is started again. The load of other
  commands is finite, which is the assumption that the queue has room in the end.
* `Idempotency`: the dispatcher serves to the end, the Master is started again, time
  passes, and retention meets an expired key again and again (strong fairness, as a
  request being served holds it up).

## Proofs

All theorems hold for every value of the constants their modules' assumptions
admit. The assumptions are: ids, capacities and bounds are positive numbers, a ring
holds at least two, the first endpoint is one of the endpoints, an export is not a
control, a Node is not a number that could be a session. TLC evaluates them in the runs of the
same modules (`SpscQueue`'s in `WorkerStructures`). `SessionTable` and `ReplayWindow` are proved about as instances
in `WorkerStructures`, which assumes of them positive sizes and that 0 marks no key
and no session.

| module | theorem | statement |
| --- | --- | --- |
| `SessionRuntime_proofs` | `Typing` | `Spec => []TypeOK`: types, and every queue and the fences within capacity |
| | `SingleTransmitter` | `Spec => []OneTransmitter` |
| | `RevocationHeeded` | `Spec => []RevocationReachesData` |
| | `RetiredForGood` | `Spec => []RetiredStaysGone` |
| | `RoutesAlwaysFollow` | `Spec => []RoutesFollowSessions` |
| | `RetirementsAreUnique` | `Spec => []RetiredOnce` |
| | `NeverBack` | `Spec => []NoRollback` |
| | `NoOrphans` | `Spec => []NoOrphanSession` |
| `NodeCoordinator_proofs` | `NodeTyping`, `NoPeerIsForgotten`, `StrandedNever`, `ActivationAdvances` | `Spec => []` of `TypeOK`, `NoStrayPeer`, `NeverStranded`, and `Spec => ActiveOnlyAdvances` |
| `MasterCoordinator_proofs` | `MasterTyping`, `OnePending`, `RevocationIsFinal`, `StraysAreSilent` | `Spec => []` of `TypeOK`, `OnePendingPerNode`, `RevokedForGood`, `StrayIsSilent` |
| `WorkerStructures_proofs` | `WindowAccepts` | `Structures => []WindowIsExact` |
| | `TableImplementsMap` | `Structures => TableIsMap` |
| | `RingTyping`, `NoRace`, `Erasure`, `SafeCounts` | `Spec => []` of `TypeOK`, `NoSlotRace`, `VacatedIsErased`, `OccupancyErrsSafely` |
| | `RingIsFifo` | `Spec => ImplementsFifo` |
| | `RingAmongStructures` | `Structures => Spec` |
| `Connectivity_proofs` | `ReservationHolds`, `ResultsAreSingle` | `Spec => []` of `PublishNeverRefused`, `OneResultEach` |
| `SessionControl_proofs` | `SyncTyping` | `SyncSpec => []SyncTypeOK` |
| | `AckedStays` | `SyncSpec => []AcknowledgedStays` |
| | `MigrationTyping`, `ThreadsAgree` | `Spec => []` of `TypeOK`, `EndpointsAgree` |
| | `AcceptsProvenOnly` | `Spec => OnlyProven` |
| `Publication_proofs` | `CanAlwaysStart`, `GateSuffices`, `SettingsAgree` | `Spec => []` of `StartsAgain`, `NeverBroken`, `Coherent` |
| `Durability_proofs` | `RecordTyping`, `ExecutedOnce`, `AcceptedIsDone`, `ControlAfterRecord` | `Spec => []` of `TypeOK`, `AtMostOnce`, `ClaimsAreTrue`, `ControlIsRecorded` |
| | `FilesTyping`, `NodesStartWhole`, `ReportedIsRun` | `FilesSpec => []` of `FilesTypeOK`, `StartsWhole`, `RunsWhatWasReported` |
| | `FilesAreWhole` | `FilesSpec => AllOrNothing` |

### SessionRuntime

*Types and one transmitter* are proved together (`TypingInv`): a binding is of the
right type only if `Selected` finds its newest candidate, and `CHOOSE` is
determined because there is at most one. `TableStep` and `SessionsStep` reduce
every action to the four ways in which the session table changes; only a
confirmation adds a transmitter and it silences the others of its owner.

*A retired session stays gone* is not inductive: the state must say why an
install that still waits in the command queue cannot succeed. `FencedInv` adds

* `Fenced`: an install queued for a retired session is blocked, by its fence or by
  the overflow flag;
* `FreshInstalls`: ids are installed once: every id in the table, in the queues or
  retired was registered, and no id is queued twice for installation.

The fences fall only when the command queue is empty, when `Fenced` holds with
nothing to block; a retirement that is drained is fenced in the same step; a new
install is of an id that was never registered and therefore never retired.

*Routes follow sessions* needs `RoutesInv`, the agreement for routed owners, and
`FreshInstalls`: an install leaves bindings alone, which is right because the
installed session is new and unconfirmed. Every other step that changes a
transmitter rebinds its owner in the same step (`RebindFollows`).

*DATA after a retirement*: between the worker's look at the retirement queue and
the choice of a session lie a whole pass, with commands, or the reading of a packet.
What it had looked at it has carried out (`HeededStep`); by `FencedInv` no install
that the pass still had to carry out revives such a session, and by `RoutesInv` no
confirmation or snapshot routes to it. A retirement that is queued after the look,
while a packet is read (`data_worker.zig:443`-`450`) or before the requests
of the pass (`data_worker.zig:415`), comes too late: one DATA packet, or the queued
requests, may still leave on the session. The code does not look again, and the
property does not say that it does.

*Retired once* needs `Marked`: a peer whose retirement is queued or carried out
carries the mark that it is, until it leaves; and an id that left is never
registered again (`FreshInstalls`).

*No rollback*: what DATA was last sent on still transmits or is `Over`, that is,
superseded or out of the table with no install to come; what it was sent on before
is over (`SentOn`). A confirmation is the only way to a right to transmit and none
leads back from `Over` (`TableFate`, `OverStays`).

*No orphan session* has the longest argument. A peer leaves with its retirement
queued, or with a report that the worker failed to install or to confirm its
session. The reports are the danger: a confirmation that was refused because the
session was superseded would take the peer of a session that is still in the table.
`InOrder` shows that this does not happen: a confirmation is queued for the newest
session of the Node (`NewestAwaits`), after its install, and any newer session is
installed behind it; so what supersedes a session was queued after every
confirmation of it. Hence a report is about a session that is `Gone`
(`FailedIsGone`), and every registered session has a peer, is gone or is on its way
out (`Accounted`).

### NodeCoordinator

`IInv` adds to the properties what an attempt may rely on. While it waits for
message 1 its id is fresh: no peer has it and it is neither active nor draining
(`ResponseIsFresh`), so the attempt may be dropped at any error. An XK attempt then
finds the Node not enrolled, which is why staging cannot undo an enrollment. A
confirming IK attempt is known to the Master (`SessionIsBound`); that carries
`NeverStranded` over a completed recovery. The attempt's session is the newest
(`AttemptIsNewest`), from which `ActiveOnlyAdvances` follows, since only an attempt is
ever activated.

All steps but three only let peers go, and confirm but never unconfirm them
(`Shrinks`). `Forgetting` turns that into the invariant once: what the coordinator
drops must have no peer left, or be activated. Expiry, the end of a drain and an activation meet
it because each keeps its session where the abort failed. A new attempt (`BeginStep`)
and the two replies (`Registering`) are the rest.

### MasterCoordinator

The four safety properties hold together (`IInv`), because each is the reason for
another. A reset silences the Node's association and its slots; that this silences
every session of the Node is `StrayIsSilent`. One pending session per Node follows
from one slot per Node (`OneSlot`) and from a slot outliving its unconfirmed session
(`AwaitingHasSlot`), which is why `expireSlot` keeps a slot whose peer it cannot
abort. `Finals` says that a slot that still awaits XK message 2 has no peer and was not
revoked: nothing keeps such a slot through a reset, so a revoked enrollment cannot
install its session later. Ticks, resets, events and confirmations only quieten peers
(`Quieter`), which `Removal` turns into the invariant once for all of them; only an
admission and the end of an enrollment start a session.

### WorkerStructures

*The window.* The invariant (`WindowInv`) names every sequence number in reach by its
offset from the highest and says that the bit of an offset is set iff that number was
committed. The work is in `ShiftMoves`: after a shift by any amount below the width
the bit of an offset is the bit that stood `amount` lower before, whether it moved
inside its word, over a word boundary by the carry, or by whole words. Offsets that
leave the window are numbers too old to pass.

*The table.* `Placement` says that a key is held at most once and that no slot on the
probe sequence before it is empty; hence a lookup, which ends at the first empty slot,
finds it. Neither operation makes an occupied or a deleted slot empty, and `put` takes
a deleted slot only after an empty one has shown that the key is nowhere behind
(`Destinations`). Slots occupied and `count` change alike (`CountStep`), from which the
load factor follows, and with it that there is a slot to take.

*The ring.* The invariant orders the four indices around the ring: seen from the last tail the
producer knows, come the tail, the last head the consumer knows, the head, and
never a whole lap (`Ordered`). A thread between its load and its store still has
what the load entitled it to (`Entitled`), because the other thread's index moves
in one direction only. Modulo arithmetic is confined to a few lemmas on
`Occupancy` (`SeenFrom` and those after it). For the refinement each store is
shown to be a push or a pop of `Contents`, and every other step to leave it alone.

### Connectivity

That the completion queue has room is a count over both threads (`Accounts`):
requests queued, probes pending and completions not consumed make up the admission
counter, which is at most the capacity. What the worker has published or holds
pending exceeds the pops it knows of by at most the capacity, and every queued
request brings the knowledge that keeps this true once it is taken. That a result
frees one slot needs each check to be in one place (`Distinct`).

`OneResultEach` counts those places for every check. `Apart` says that the four (the
request queue, the correlator, the completion queue and what the recorder holds) are
disjoint and hold no check twice, `RowsFit` what a check's row says of them: a step of
the worker moves a check from one place to another (`Moved`), and only a result that
the recorder has stored takes one out.

### ConfigSync

`SyncInv` holds under all faults. Sessions are confirmed in the order of their
handshakes, and what is published is of the latest that was confirmed (`InTurn`). A
session asks for one generation after the other, and once more for each fault that
kept its slot (`Numbered`), which bounds the request ids by generations and faults
together. A label is never newer than the content it is on, at the publisher, on the
wire, in the reassembly and in the applier; an acknowledgement that is due is of the
active session.

`AckedInv` is what `AcknowledgedStays` needs besides. Within a session the applied
generation only grows (`RunsForward`). An acknowledgement on its way is not ahead of
what is applied in the active session, unless its session was followed by another or
left with that generation (`AcksBehind`). The Master takes one of its latest confirmed
session only, which none followed. A BEGIN that makes the Node leave a session is of a
newer one, which the Master would have confirmed later, or of an older one, and then
the session it leaves is not activated and `left` records what was applied
(`OlderIsOpen`). This is by `OnePair`: an attempt is newer than all other sessions,
so the older one is open, and of two sessions one is open at most, because
activation closes the other. This needs no assumption on
`Faults`: rekeys, offline sessions, resets and refusals may occur in any number
and order.

### EndpointMigration

`Trail` says that while the control plane has an endpoint to send challenges to, every
live challenge on its way goes there and the Node can have heard one only there, and
that a live response exists only if the Node has heard one. `Agreement` is
`EndpointsAgree` with the last queued update made explicit.

### Publication

`Restartable` says of the database what admission and the creation of revisions keep
between each other: a revision that may still be activated has room for the Nodes
there are, and sequence numbers are given once. `Running` says where the one snapshot
and the one settings command on their way are (in the command queue, at the
worker or in the acknowledgement queue, and nowhere else), what `pc` implies about the
gate, and what is staged in kernel, liveness and worker.

### Idempotency

`Retained` says that an execution whose retention has not passed, by any time the clock
has shown, still has its consumed record; `Truth` that a stored answer is about an execution;
`Served` and `Owned` tie the request being served and the staged decision to their
record. `AtMostOnce` speaks of the latest time the clock has shown, because the clock may be
set back.

### Reconfiguration

The properties speak of what a loss of power leaves, which is the disk after a prefix
of the unsynced operations; `FilesInv` therefore speaks of every such prefix
(`View`), and `Latest`, the last of them, is what the processes see. Three facts hold
of the views (`Storage`):

* `EachSound`: a view has an intent, or it is whole and no less far than the disk
  (`Sound`, `Below`); and it leads to a configuration that may be configured
  (`Candidate`);
* `ConfigAfterIntent`: while a replacement of the configuration, which is in another
  directory, waits for its sync, every view has the intent. This is why losing
  the two directories independently does no harm;
* `IntentsAgree`: where a view has lost the intent, earlier views can only have the
  intent of the configuration on disk. Deletion of the intent is the last operation,
  and this makes it safe to report success after its sync.

A process that recovers or commits is at one operation of a roll forward and those
before it are on disk (`Rolling`); as each is a replacement, repeating them from the
first does no harm. A service is at most one assignment ahead in its files of what it
has in memory (`Loaded`). Every append to the journal is shown to give an admissible view
(`Admissible`), every sync and loss of power to choose one; for the refinement a change
between views is a reconfiguration if the new one has an intent, and progress if not
(`ViewImplements`). The longest view has one operation for each interruption and one
more, by which `FilesTyping` also justifies the range of `PowerLoss`.

## Disagreements with the documentation

The first two are runs, quoted in `PROJECT.json` under `findings`. For the others
`tlc -config X.cfg M` gives the counterexample.

1. `ConfigSyncOffline`: a Node that is offline when its configuration is due ends
   the Master's control loop (`configuration_runtime.zig:51`, `docs/protocol.md:481`).
2. `EndpointMigrationChallenge`: a challenge that a full queue refuses is later sent to
   the endpoint of an older candidate (`docs/threat-model.md:195`,
   `docs/protocol.md:493`). `OnlyProven` is therefore stated for challenges that went to the
   candidate.
3. `SessionTableHeadroom.cfg` (`SessionTable`): tombstones use up the empty slots
   that `put` needs, and sessions are refused below the headroom that
   `service.zig:2154` promises.
4. `NodeCoordinatorEnds.cfg` (`NodeCoordinator`): an expired attempt that was
   activated leaves an unknown session active and then draining, on which every tick
   fails; attempts no longer end (`docs/protocol.md:185`).
5. `NodeCoordinatorConfirm.cfg` (`NodeCoordinator`): the retry of a refused
   SESSION_CONFIRM does not make the previous peer receive-only
   (`handshake_coordinator.zig:526`).
6. `MasterCoordinatorDrain.cfg` (`MasterCoordinator`): a slot that outlives the
   activation of its session expires and removes the current session; later drains
   and activations fail on it (`docs/protocol.md:470`).
7. `ConfigSyncRekey.cfg` (`ConfigSync`): between the confirmation of a rekey and its
   activation on the Node, frames of the old session, not yet receive-only, select it
   again, and the generation acknowledged in the new one is undone until
   the next commit (`docs/protocol.md:377`). `AcknowledgedStays` is what is left.
8. `ReconfigurationImport.cfg` (`Reconfiguration`): a kill inside an import may leave a temporary file in
   the state directory, and the repeated import is refused (`apps/ntcl.zig:164`);
   `docs/operator-guide.md:341` says "An interrupted same-invitation import is
   idempotent."
9. `ConnectivityRetry.cfg` (`Connectivity`): a result that the database refuses is
   kept, but the error ends the Master (`service.zig:1475`), where
   `connectivity_runtime.zig:103` says it is retried "on the next tick". A clock that
   was set back is enough (`operations_repository.zig:591`); the next start settles the
   row, so that `RunningEnds` holds.

Smaller observations, in the hazards or without a run: a stray peer that cannot
transmit but whose keys stay in memory (`handshake_coordinator.zig:1299`); the IK
recovery that a full command queue uses up (`service.zig:1615`); the comment at
`operations_service.zig:744` that a client of a failed export "can retry through the
central idempotency dispatcher", although the receipt has consumed the key and a
retry under it is refused.

## Limits

Only model-checked: all liveness, which is outside the prover's reach. What the
configurations under Disagreements refute is of course not proved: of
acknowledged configurations `AcknowledgedStays` is, with the exception it states.

Not modelled: cryptography and encodings (a message authenticates or does not),
contents of packets and snapshots, counters and events for the operator, SQL
(its transactions are taken as atomic), HTTP, IPC, system calls, the rest of the
command line and the dashboard. The file transaction of the file-based Master
(`server_transaction.zig`) is reached by tests only. The composition of both
daemons is by contract rather than by one module: `SessionRuntime` assumes of its
callers what the coordinators' modules check, `ConfigSync` takes from the
coordinators which sessions exist at either end, and the queues of all of them are
the FIFO that `SpscQueue` is proved to implement.
