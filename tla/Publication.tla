----------------------------- MODULE Publication -----------------------------
(***************************************************************************)
(* How what the Master commits to its database reaches the DATA worker:    *)
(* the SnapshotInstaller and its admission gate in the control loop        *)
(* (runtime/service.zig), live settings (runtime/settings_runtime.zig,     *)
(* state/settings_repository.zig) and the worker's barrier acknowledgement *)
(* that both share (runtime/data_worker.zig), across restarts.  Two        *)
(* threads: the control loop, between whose steps the worker may act, and  *)
(* the worker.  Database transactions are atomic.                          *)
(***************************************************************************)
EXTENDS Integers, Sequences, FiniteSets

CONSTANTS
  Live,            \* values of what changes while the Master runs: MTU,
                   \* liveness, traffic and retention settings
  FirstLive,
  Capacities,      \* values of maximum_nodes, which a restart changes
  CommandCap,      \* of the command queue
  AckCap,          \* of the barrier acknowledgement queue, 2 in the code
  MaxRevisions,    \* bound on the settings revisions
  MaxGenerations,  \* bound on the durable generations
  MaxRestarts,     \* bound on crashes and restarts
  MaxOthers        \* bound on the commands that others send to the worker

ASSUME ParametersAssumption ==
  /\ FirstLive \in Live
  /\ Capacities \subseteq Nat \ {0} /\ Capacities # {}
  /\ {CommandCap, AckCap} \subseteq Nat \ {0}
  /\ {MaxRevisions, MaxGenerations, MaxRestarts, MaxOthers} \subseteq Nat

VARIABLES
  db,         \* what SQLite holds
  pc,         \* where the control loop is; "down" when no Master runs
  store,      \* store.generation
  config,     \* the settings in memory: what Nodes and requests are told
  runtime_capacity,   \* maximum_nodes that the tables were built with
  kernel,     \* MTU of the interface and of the routes over it
  liveness,   \* what the control plane was configured with
  installer,  \* SnapshotInstaller
  mailbox,    \* of published revisions
  applier,    \* Applier
  commands, acks, worker,
  others, restarts,
  broken      \* history: a contract between these parts was violated

memory == <<store, config, runtime_capacity, kernel, liveness>>
queues == <<commands, acks, worker>>
vars == <<db, pc, memory, installer, mailbox, applier, queues, others, restarts, broken>>

None == [sequence |-> 0]
Statuses == {"active", "pending_apply", "pending_restart", "failed"}
Values == [live : Live, capacity : Capacities]
Revisions ==
  [sequence : 1..2 * MaxRevisions + 1, values : Values, status : Statuses]
Generations == 0..MaxGenerations + 2 * MaxRevisions
NoPending == [generation |-> -1, mtu |-> FirstLive, reconciled |-> FALSE]

ControlSteps == {"advance", "events", "hook", "settle", "admit", "serve", "served"}
Polling == {"advance", "settle", "admit", "served"}

Acknowledgements ==
  [kind : {"runtime_settings", "master_snapshot"}, number : Nat]
NoAck == [kind |-> "none", number |-> 0]
Commands ==
  [kind : {"other", "apply_runtime_settings", "install_master_snapshot"},
   number : Nat, live : Live]

-----------------------------------------------------------------------------
(* The database                                                            *)

\* classify
LiveChange(previous, desired) == previous.live # desired.live
RestartChange(previous, desired) == previous.capacity # desired.capacity

\* State.validate: anything else is CorruptSettingsState, wherever it is read.
Valid ==
  LET desired == db.desired  effective == db.effective
      live == LiveChange(effective.values, desired.values)
      restart == RestartChange(effective.values, desired.values)
      same == desired.sequence = effective.sequence
  IN /\ effective.status = "active"
     /\ desired.status = "active" => same /\ ~live /\ ~restart
     /\ desired.status = "pending_apply" => ~same /\ live
     /\ desired.status = "pending_restart" => ~same /\ ~live /\ restart
     /\ desired.status = "failed" => ~same /\ (live \/ restart)

\* startupOperationalSettings
StartupCapacity ==
  IF db.desired.status = "pending_restart" THEN db.desired.values.capacity
  ELSE db.effective.values.capacity

\* nodeAdmissionCapacity, with the @min of createNode
Smaller(a, b) == IF a < b THEN a ELSE b
AdmissionCapacityOfMemory == config.capacity
AdmissionCapacity ==
  Smaller(config.capacity,
          IF db.desired.status \in {"pending_apply", "pending_restart"}
          THEN Smaller(db.desired.values.capacity, db.effective.values.capacity)
          ELSE db.effective.values.capacity)

\* acknowledgeApplied, and what it refuses
Acknowledgeable(sequence) ==
  /\ db.desired.sequence = sequence /\ db.desired.status = "pending_apply"
  /\ LiveChange(db.effective.values, db.desired.values)
Projection ==
  [sequence |-> db.last + 1, status |-> "active",
   values |-> [db.desired.values EXCEPT !.capacity = db.effective.values.capacity]]
AcknowledgedAs ==
  IF RestartChange(db.effective.values, db.desired.values)
  THEN [db EXCEPT !.desired.status = "pending_restart", !.effective = Projection,
                  !.last = @ + 1, !.generation = @ + 1]
  ELSE [db EXCEPT !.desired.status = "active",
                  !.effective = [db.desired EXCEPT !.status = "active"],
                  !.generation = @ + 1]

\* activateAfterRestart
ActivatedAs(d) ==
  [d EXCEPT !.desired.status = "active",
            !.effective = [d.desired EXCEPT !.status = "active"],
            !.generation = @ + 1]
Activatable(d) ==
  d.desired.status = "pending_restart" /\ d.desired.values.capacity = runtime_capacity

-----------------------------------------------------------------------------
(* SnapshotInstaller                                                       *)

Ready ==
  ~installer.failure /\ installer.pending = NoPending /\ ~installer.in_flight

\* captureCommitted, with the MTU that was staged
Refuses(generation) ==
  ~installer.failure /\ (~Ready \/ generation <= installer.captured)
Captured(generation, mtu) ==
  IF installer.failure THEN installer
  ELSE IF Refuses(generation) THEN [installer EXCEPT !.failure = TRUE, !.mtu = mtu]
  ELSE [installer EXCEPT
          !.pending = [generation |-> generation, mtu |-> mtu, reconciled |-> FALSE],
          !.captured = generation, !.mtu = mtu]
Publish(generation, mtu) ==
  /\ installer' = Captured(generation, mtu)
  /\ broken' = (broken \/ Refuses(generation))

\* bounded_queue.zig push
HasRoom(queue, capacity) == Len(queue) < capacity

\* Errors of tick and poll leave the loop; the process ends.
Stop == pc' = "down" /\ broken' = TRUE

\* One turn of `while (self.acknowledgements.pop())'
DrainAcknowledgement ==
  /\ pc \in Polling /\ acks # <<>>
  /\ acks' = Tail(acks)
  /\ \/ /\ Head(acks).kind = "master_snapshot"
        /\ IF installer.in_flight /\ Head(acks).number = installer.expected
           THEN installer' = [installer EXCEPT !.in_flight = FALSE] /\ UNCHANGED <<pc, broken>>
           ELSE Stop /\ UNCHANGED installer
        /\ UNCHANGED applier
     \/ /\ Head(acks).kind = "runtime_settings"      \* appliedOpaque
        /\ applier' =
             IF applier.in_flight.sequence = Head(acks).number /\ applier.acknowledged = 0
             THEN [applier EXCEPT !.acknowledged = Head(acks).number]
             ELSE [applier EXCEPT !.mismatch = TRUE]
        /\ UNCHANGED <<pc, broken, installer>>
  /\ UNCHANGED <<db, memory, mailbox, commands, worker, others, restarts>>

\* Where the loop goes from a poll: advanceRuntime and the requests check the
\* gate, the hook and a served request leave it to the next poll.
AfterUngated ==
  CASE pc = "advance" -> "events"
    [] pc = "settle" -> "admit"
    [] pc = "admit" -> IF Ready THEN "serve" ELSE "advance"
    [] pc = "served" -> "advance"
After ==
  CASE pc = "advance" -> IF Ready THEN "events" ELSE "admit"
    [] pc = "settle" -> "admit"
    [] pc = "admit" -> IF Ready THEN "serve" ELSE "advance"
    [] pc = "served" -> "advance"

\* The rest of poll.  A kernel that refuses the routes ends the process, as
\* Restart does.
Poll ==
  /\ pc \in Polling /\ acks = <<>>
  /\ \/ /\ installer.failure \/ installer.in_flight \/ installer.pending = NoPending
        /\ IF installer.failure THEN Stop ELSE pc' = After /\ UNCHANGED broken
        /\ UNCHANGED <<kernel, installer, commands>>
     \/ /\ ~installer.failure /\ ~installer.in_flight /\ installer.pending # NoPending
        /\ kernel' = IF installer.pending.reconciled THEN kernel
                     ELSE [kernel EXCEPT !.routes = installer.pending.mtu]
        /\ \/ /\ HasRoom(commands, CommandCap)
              /\ commands' =
                   Append(commands, [kind |-> "install_master_snapshot", live |-> FirstLive,
                                     number |-> installer.pending.generation])
              /\ installer' = [installer EXCEPT !.pending = NoPending, !.in_flight = TRUE,
                                                !.expected = installer.pending.generation]
           \/ /\ ~HasRoom(commands, CommandCap)
              /\ installer' = [installer EXCEPT !.pending.reconciled = TRUE]
              /\ UNCHANGED commands
        /\ pc' = After /\ UNCHANGED broken
  /\ UNCHANGED <<db, store, config, runtime_capacity, liveness, mailbox, applier, acks,
                 worker, others, restarts>>

-----------------------------------------------------------------------------
(* The control loop                                                        *)

\* An event of the worker that completes an enrollment (consumeAndBind); the
\* loop over events ends there.  Other events commit nothing.
CommitGeneration(d) ==
  /\ db' = [d EXCEPT !.generation = @ + 1]
  /\ store' = db.generation + 1
  /\ Publish(db.generation + 1, installer.mtu)

Events ==
  /\ pc = "events"
  /\ \/ /\ store = db.generation            \* requireMatchingProjection
        /\ db.generation < MaxGenerations
        /\ CommitGeneration(db)
        /\ pc' = "settle"
     \/ pc' = "hook" /\ UNCHANGED <<db, store, installer, broken>>
  /\ UNCHANGED <<config, runtime_capacity, kernel, liveness, mailbox, applier, queues,
                 others, restarts>>

\* The coordinator and the control plane send the worker commands of theirs.
SendOther ==
  /\ pc \in {"events", "hook"} /\ others < MaxOthers
  /\ HasRoom(commands, CommandCap)
  /\ commands' = Append(commands, [kind |-> "other", number |-> 0, live |-> FirstLive])
  /\ others' = others + 1
  /\ UNCHANGED <<db, pc, memory, installer, mailbox, applier, acks, worker, restarts, broken>>

\* begin: everything is changed before the worker is asked, and changed back
\* when it cannot be.
StagedAnyway(accepted, command) == command.values.live
Staged(accepted, command) ==
  IF accepted THEN command.values.live ELSE db.effective.values.live
RestoredNever(command) == None
Restored(command) == command

Begin(command) ==
  LET current == db.desired.sequence = command.sequence
                 /\ db.desired.status = "pending_apply"
  IN \/ \* it is stale, or the kernel or the control plane refuses: commitFailed
        /\ db' = IF current THEN [db EXCEPT !.desired.status = "failed"] ELSE db
        /\ mailbox' = None
        /\ UNCHANGED <<kernel, liveness, installer, applier, commands>>
     \/ LET accepted == HasRoom(commands, CommandCap)
            live == Staged(accepted, command)
        IN /\ current
           /\ kernel' = [link |-> live, routes |-> live]
           /\ liveness' = live
           /\ installer' = [installer EXCEPT !.mtu = live]
           /\ IF accepted
              THEN /\ commands' =
                        Append(commands, [kind |-> "apply_runtime_settings",
                                          number |-> command.sequence,
                                          live |-> command.values.live])
                   /\ applier' = [applier EXCEPT !.in_flight = command]
                   /\ mailbox' = None
              ELSE mailbox' = Restored(command) /\ UNCHANGED <<commands, applier>>
           /\ UNCHANGED db

\* commitApplied and the observer's committed
CommitApplied ==
  LET applied == IF Activatable(AcknowledgedAs) THEN ActivatedAs(AcknowledgedAs)
                 ELSE AcknowledgedAs
  IN /\ db' = applied
     /\ config' = applied.effective.values
     /\ store' = applied.generation
     /\ Publish(applied.generation, applied.effective.values.live)
     /\ applier' = [applier EXCEPT !.in_flight = None, !.acknowledged = 0]

\* SettingsAcknowledgementMismatch
Mismatched ==
  applier.mismatch \/ (applier.acknowledged # 0 /\ ~Acknowledgeable(applier.acknowledged))

\* MasterLoop.tickOpaque, of which runtime_settings.tick is what commits
Tick ==
  /\ pc = "hook"
  /\ \/ /\ ~Mismatched /\ applier.acknowledged # 0
        /\ CommitApplied
        /\ pc' = "settle" /\ UNCHANGED <<kernel, liveness, mailbox, commands>>
     \/ /\ Mismatched \/ (applier.in_flight # None /\ applier.acknowledged = 0)
           \/ (applier.in_flight = None /\ mailbox = None)
        /\ IF Mismatched THEN Stop ELSE pc' = "settle" /\ UNCHANGED broken
        /\ UNCHANGED <<db, store, config, kernel, liveness, installer, mailbox, applier, commands>>
     \/ /\ ~Mismatched /\ applier.in_flight = None /\ mailbox # None
        /\ Begin(mailbox)
        /\ pc' = "settle" /\ UNCHANGED <<store, config, broken>>
  /\ UNCHANGED <<runtime_capacity, acks, worker, others, restarts>>

\* A management request: one that changes the inventory, ...
Mutate(nodes) ==
  /\ db.generation < MaxGenerations
  /\ nodes > db.nodes => db.nodes < AdmissionCapacity
  /\ CommitGeneration([db EXCEPT !.nodes = nodes])
  /\ UNCHANGED mailbox

\* ... one that creates a settings revision (createRevisionInternal), where
\* only a rollback may leave everything as it is, ...
CreateRevision(values) ==
  LET live == LiveChange(db.effective.values, values)
      restart == RestartChange(db.effective.values, values)
      revision == [sequence |-> db.last + 1, values |-> values,
                   status |-> IF live THEN "pending_apply"
                              ELSE IF restart THEN "pending_restart" ELSE "active"]
  IN /\ db.last < MaxRevisions
     /\ db.desired.status # "pending_apply"
     /\ values.capacity >= db.nodes
     /\ db' = [db EXCEPT !.desired = revision, !.last = @ + 1,
                         !.effective = IF live \/ restart THEN @ ELSE revision]
     /\ mailbox' = IF live /\ mailbox.sequence < revision.sequence
                   THEN [sequence |-> revision.sequence, values |-> values] ELSE mailbox
     /\ UNCHANGED <<store, installer, broken>>

\* ... or any other.  One that runs the loop meanwhile, for a password or an
\* export (checkpointRuntime), commits nothing afterwards.
Serve ==
  /\ pc = "serve" /\ pc' = "served"
  /\ \/ \E nodes \in {db.nodes - 1, db.nodes, db.nodes + 1} \cap Nat : Mutate(nodes)
     \/ \E values \in Values : CreateRevision(values)
     \/ UNCHANGED <<db, store, installer, mailbox, broken>>
  /\ UNCHANGED <<config, runtime_capacity, kernel, liveness, applier, queues, others, restarts>>

-----------------------------------------------------------------------------
(* The DATA worker                                                         *)

\* processCommand; nothing is taken while an acknowledgement waits.
Process ==
  LET command == Head(commands)
  IN /\ pc # "down" /\ commands # <<>> /\ worker.ack = NoAck
     /\ commands' = Tail(commands)
     /\ worker' =
          CASE command.kind = "other" -> worker
            [] command.kind = "install_master_snapshot" ->
                 [worker EXCEPT !.generation = command.number,
                                !.ack = [kind |-> "master_snapshot", number |-> command.number]]
            [] command.kind = "apply_runtime_settings" ->
                 [worker EXCEPT !.live = command.live,
                                !.ack = [kind |-> "runtime_settings", number |-> command.number]]
     /\ UNCHANGED <<db, pc, memory, installer, mailbox, applier, acks, others, restarts, broken>>

\* flushSnapshotAck
Flush ==
  /\ pc # "down" /\ worker.ack # NoAck /\ HasRoom(acks, AckCap)
  /\ acks' = Append(acks, worker.ack)
  /\ worker' = [worker EXCEPT !.ack = NoAck]
  /\ UNCHANGED <<db, pc, memory, installer, mailbox, applier, commands, others, restarts, broken>>

-----------------------------------------------------------------------------
(* Restarts                                                                *)

\* A crash, a fatal error that is no breach of contract (memory, the kernel,
\* the database) or an ordered restart, at any point.
Restart ==
  /\ pc # "down" /\ restarts < MaxRestarts
  /\ pc' = "down" /\ restarts' = restarts + 1
  /\ UNCHANGED <<db, memory, installer, mailbox, applier, queues, others, broken>>

\* The start of the Master on the database d: everything follows the effective
\* settings but the capacity, and recover goes on with the desired ones.
Started(d, live, capacity, activated) ==
  /\ config' = [live |-> live, capacity |-> capacity]
  /\ runtime_capacity' = capacity
  /\ kernel' = [link |-> live, routes |-> live]
  /\ liveness' = live
  /\ store' = d.generation
  /\ installer' =
       [pending |-> IF activated
                    THEN [generation |-> d.generation, mtu |-> live, reconciled |-> FALSE]
                    ELSE NoPending,
        in_flight |-> FALSE, expected |-> 0, captured |-> d.generation,
        failure |-> FALSE, mtu |-> live]
  /\ mailbox' = IF d.desired.status = "pending_apply"
                THEN [sequence |-> d.desired.sequence, values |-> d.desired.values] ELSE None
  /\ applier' = [in_flight |-> None, acknowledged |-> 0, mismatch |-> FALSE]
  /\ commands' = <<>> /\ acks' = <<>>
  /\ worker' = [generation |-> IF activated THEN d.generation - 1 ELSE d.generation,
                live |-> live, ack |-> NoAck]
  /\ pc' = "advance"

\* A start that finds the settings corrupt, or more Nodes than it has room for,
\* is refused.
Start ==
  /\ pc = "down"
  /\ Valid /\ db.nodes <= StartupCapacity
  /\ db' = IF db.desired.status = "pending_restart" THEN ActivatedAs(db) ELSE db
  /\ Started(db', db.effective.values.live, StartupCapacity,
             db.desired.status = "pending_restart")
  /\ UNCHANGED <<others, restarts, broken>>

Init ==
  \E capacity \in Capacities :
    LET first == [sequence |-> 1, status |-> "active",
                  values |-> [live |-> FirstLive, capacity |-> capacity]]
    IN /\ db = [generation |-> 0, nodes |-> 0, last |-> 1,
                desired |-> first, effective |-> first]
       /\ pc = "advance" /\ store = 0
       /\ config = first.values /\ runtime_capacity = capacity
       /\ kernel = [link |-> FirstLive, routes |-> FirstLive] /\ liveness = FirstLive
       /\ installer = [pending |-> NoPending, in_flight |-> FALSE, expected |-> 0,
                       captured |-> 0, failure |-> FALSE, mtu |-> FirstLive]
       /\ mailbox = None
       /\ applier = [in_flight |-> None, acknowledged |-> 0, mismatch |-> FALSE]
       /\ commands = <<>> /\ acks = <<>>
       /\ worker = [generation |-> 0, live |-> FirstLive, ack |-> NoAck]
       /\ others = 0 /\ restarts = 0 /\ broken = FALSE

Control == DrainAcknowledgement \/ Poll \/ Events \/ Tick \/ Serve
Worker == Process \/ Flush
Next == Control \/ SendOther \/ Worker \/ Restart \/ Start

\* Both threads run, and a Master that ended is started again.
Spec ==
  Init /\ [][Next]_vars /\ WF_vars(Control) /\ WF_vars(Worker) /\ WF_vars(Start)

-----------------------------------------------------------------------------
TypeOK ==
  /\ DOMAIN db = {"generation", "nodes", "last", "desired", "effective"}
  /\ db.generation \in Generations /\ db.nodes \in Nat
  /\ db.last \in 1..2 * MaxRevisions + 1
  /\ db.desired \in Revisions /\ db.effective \in Revisions
  /\ pc \in ControlSteps \cup {"down"}
  /\ store \in Generations /\ config \in Values /\ runtime_capacity \in Capacities
  /\ kernel \in [link : Live, routes : Live] /\ liveness \in Live
  /\ installer.captured \in Generations /\ installer.expected \in Generations
  /\ installer.mtu \in Live
  /\ {installer.in_flight, installer.failure} \subseteq BOOLEAN
  /\ installer.pending.generation \in Generations \cup {-1}
  /\ {mailbox, applier.in_flight}
       \subseteq {None} \cup [sequence : 1..2 * MaxRevisions + 1, values : Values]
  /\ applier.acknowledged \in Nat /\ applier.mismatch \in BOOLEAN
  /\ Len(commands) <= CommandCap /\ Len(acks) <= AckCap
  /\ \A i \in DOMAIN commands : commands[i] \in Commands
  /\ \A i \in DOMAIN acks : acks[i] \in Acknowledgements
  /\ worker.ack \in Acknowledgements \cup {NoAck}
  /\ worker.generation \in Generations /\ worker.live \in Live

\* A commit never meets a projection that is still pending or in flight, nor an
\* acknowledgement one that it was not meant for, although the worker's events,
\* settings, requests and restarts all commit generations and the two kinds of
\* acknowledgement share one queue.  Otherwise the Master ends.
NeverBroken == ~broken

\* While no settings are at the worker, all that follows them agrees: the
\* kernel, the control plane, the worker, what Nodes are told and what a restart
\* would use; with settings at the worker, Nodes and requests are still told
\* the old ones.  When nothing is to be published, the worker has the durable
\* generation.  Nodes are admitted up to the capacity that tables were built for.
Coherent ==
  pc # "down" =>
    /\ config = db.effective.values /\ config.capacity = runtime_capacity
    /\ store = db.generation
    /\ applier.in_flight = None =>
         {kernel.link, kernel.routes, liveness, installer.mtu, worker.live}
           = {db.effective.values.live}
    /\ Ready => worker.generation = db.generation

\* Whatever is committed, the Master can be started from it: the settings are
\* valid and there are no more Nodes than the desired capacity allows.
StartsAgain == Valid /\ db.nodes <= StartupCapacity

\* Settings are applied, refused or wait for a restart, and every committed
\* generation reaches the worker.
Settled ==
  pc # "down" /\ db.desired.status # "pending_apply" /\ worker.generation = db.generation
Settles == []<>Settled
=============================================================================
