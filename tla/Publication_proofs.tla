-------------------------- MODULE Publication_proofs --------------------------
(***************************************************************************)
(* Proofs about Publication, for every value of the constants.             *)
(*                                                                         *)
(* The Master can be started from whatever it commits: Restartable         *)
(* strengthens StartsAgain by what the admission of Nodes and the creation *)
(* of revisions keep between the two: a revision that may still be         *)
(* activated has room for the Nodes there are, and sequences are never     *)
(* given twice.  Only the database and the settings in memory matter.      *)
(*                                                                         *)
(* A commit never meets a projection in progress, and what follows the     *)
(* settings agrees: Running strengthens NeverBroken and Coherent by where  *)
(* the one snapshot and the one settings command that may be on their way  *)
(* are, the control loop's view of the gate, and what is staged.           *)
(***************************************************************************)
EXTENDS Publication, TLAPS

Revision == [sequence : Nat, values : Values, status : Statuses]
Database ==
  [generation : Nat, nodes : Nat, last : Nat, desired : Revision, effective : Revision]
MayActivate(d) == d.desired.status \in {"pending_apply", "pending_restart"}

\* Valid of any database.
Sound(d) ==
  LET live == LiveChange(d.effective.values, d.desired.values)
      restart == RestartChange(d.effective.values, d.desired.values)
      same == d.desired.sequence = d.effective.sequence
  IN /\ d.effective.status = "active"
     /\ d.desired.status = "active" => same /\ ~live /\ ~restart
     /\ d.desired.status = "pending_apply" => ~same /\ live
     /\ d.desired.status = "pending_restart" => ~same /\ ~live /\ restart
     /\ d.desired.status = "failed" => ~same /\ (live \/ restart)

Restartable(d) ==
  /\ d \in Database
  /\ Sound(d)
  /\ d.desired.sequence <= d.last /\ d.effective.sequence <= d.last
  /\ d.desired.sequence # 0
  /\ d.nodes <= d.effective.values.capacity
  /\ MayActivate(d) => d.nodes <= d.desired.values.capacity

Durable == Restartable(db) /\ config \in Values

\* The settings of the database are valid when they are sound.
LEMMA SoundIsValid == Sound(db) <=> Valid
BY DEF Sound, Valid

\* A capacity is a natural number.
LEMMA CapacitiesAreNumbers == \A c \in Capacities : c \in Nat
BY ParametersAssumption

\* The conjuncts of Durable are what StartsAgain needs.
LEMMA Enough == Durable => StartsAgain
<1>. SUFFICES ASSUME Durable PROVE StartsAgain
  OBVIOUS
<1>1. Valid
  BY SoundIsValid DEF Durable, Restartable
<1>2. db.nodes <= StartupCapacity
  BY DEF Durable, Restartable, MayActivate, StartupCapacity
<1>. QED
  BY <1>1, <1>2 DEF StartsAgain

\* A new generation changes nothing that matters.
LEMMA NextGeneration ==
  ASSUME NEW d, Restartable(d)
  PROVE  Restartable([d EXCEPT !.generation = @ + 1])
BY DEF Restartable, Database, Sound, MayActivate

\* Activating a revision that may be activated leaves it both desired and
\* effective.
LEMMA Activation ==
  ASSUME NEW d, Restartable(d), d.desired.status = "pending_restart"
  PROVE  Restartable(ActivatedAs(d)) /\ ActivatedAs(d).effective.values \in Values
<1>1. d \in Database /\ d.desired \in Revision /\ d.desired.values \in Values
  BY DEF Restartable, Database, Revision
<1>2. d.nodes <= d.desired.values.capacity
  BY DEF Restartable, MayActivate
<1>. DEFINE e == ActivatedAs(d)
            r == [d.desired EXCEPT !.status = "active"]
<1>3. /\ e.desired = r /\ e.effective = r /\ e.nodes = d.nodes /\ e.last = d.last
      /\ r \in Revision /\ r.values = d.desired.values /\ r.status = "active"
      /\ r.sequence = d.desired.sequence
  BY <1>1 DEF ActivatedAs, Database, Revision, Statuses
<1>4. e \in Database
  <2>1. e = [generation |-> e.generation, nodes |-> e.nodes, last |-> e.last,
             desired |-> e.desired, effective |-> e.effective]
    <3>1. DOMAIN d = {"generation", "nodes", "last", "desired", "effective"}
      BY <1>1 DEF Database
    <3>2. /\ DOMAIN e = DOMAIN d
          /\ e = [f \in DOMAIN e |-> e[f]]
      BY <1>1 DEF ActivatedAs, Database
    <3>. HIDE DEF e
    <3>. QED
      BY <3>1, <3>2
  <2>2. e.generation = d.generation + 1
    BY <1>1 DEF ActivatedAs, Database
  <2>. HIDE DEF e
  <2>. QED
    BY <1>1, <1>3, <2>1, <2>2 DEF Database
<1>5. Sound(e)
  BY <1>3 DEF Sound, LiveChange, RestartChange
<1>. QED
  BY <1>1, <1>2, <1>3, <1>4, <1>5 DEF Restartable, MayActivate

\* What an acknowledged live revision leaves: either it is both desired and
\* effective, or it waits for a restart beside a projection of its live part.
LEMMA Acknowledgement ==
  ASSUME Durable, NEW sequence, Acknowledgeable(sequence)
  PROVE  /\ Restartable(AcknowledgedAs)
         /\ AcknowledgedAs.effective.values \in Values
<1>1. /\ db \in Database /\ db.desired \in Revision /\ db.effective \in Revision
      /\ db.desired.values \in Values /\ db.effective.values \in Values
      /\ db.desired.status = "pending_apply"
      /\ db.nodes <= db.desired.values.capacity
      /\ db.nodes <= db.effective.values.capacity
      /\ db.desired.sequence <= db.last /\ db.effective.sequence <= db.last
      /\ db.desired.sequence # 0
      /\ db.desired.values.capacity \in Nat /\ db.effective.values.capacity \in Nat
  BY CapacitiesAreNumbers
     DEF Durable, Restartable, Database, Revision, Acknowledgeable, MayActivate, Values
<1>. DEFINE e == AcknowledgedAs
<1>2. CASE RestartChange(db.effective.values, db.desired.values)
  <2>1. /\ Projection \in Revision /\ Projection.status = "active"
        /\ Projection.sequence = db.last + 1
        /\ Projection.values \in Values
        /\ Projection.values.live = db.desired.values.live
        /\ Projection.values.capacity = db.effective.values.capacity
    BY <1>1 DEF Projection, Revision, Values, Statuses, Database
  <2>2. /\ e.effective = Projection /\ e.nodes = db.nodes /\ e.last = db.last + 1
        /\ e.desired = [db.desired EXCEPT !.status = "pending_restart"]
        /\ e.desired.values = db.desired.values
        /\ e.desired.status = "pending_restart"
        /\ e.desired.sequence = db.desired.sequence
        /\ e.desired \in Revision
    BY <1>1, <1>2 DEF AcknowledgedAs, Database, Revision, Statuses
  <2>3. e \in Database
    <3>1. e = [generation |-> db.generation + 1, nodes |-> db.nodes, last |-> db.last + 1,
               desired |-> [db.desired EXCEPT !.status = "pending_restart"],
               effective |-> Projection]
      BY <1>1, <1>2 DEF AcknowledgedAs, Database
    <3>. QED
      BY <1>1, <2>1, <2>2, <3>1 DEF Database
  <2>4. db.last \in Nat /\ db.desired.sequence \in Nat
    BY <1>1 DEF Database, Revision
  <2>5. Sound(e)
    BY <1>1, <1>2, <2>1, <2>2, <2>4 DEF Sound, LiveChange, RestartChange
  <2>. QED
    BY <1>1, <2>1, <2>2, <2>3, <2>4, <2>5 DEF Restartable, MayActivate
<1>3. CASE ~RestartChange(db.effective.values, db.desired.values)
  <2>. DEFINE r == [db.desired EXCEPT !.status = "active"]
  <2>1. /\ r \in Revision /\ r.values = db.desired.values /\ r.status = "active"
        /\ r.sequence = db.desired.sequence
    BY <1>1 DEF Revision, Statuses
  <2>2. e.effective = r /\ e.nodes = db.nodes /\ e.last = db.last /\ e.desired = r
    BY <1>1, <1>3 DEF AcknowledgedAs, Database, Revision
  <2>3. e \in Database
    <3>1. e = [generation |-> e.generation, nodes |-> e.nodes, last |-> e.last,
               desired |-> e.desired, effective |-> e.effective]
      BY <1>1, <1>3 DEF AcknowledgedAs, Database
    <3>2. e.generation = db.generation + 1
      BY <1>1, <1>3 DEF AcknowledgedAs, Database
    <3>. HIDE DEF e
    <3>. QED
      BY <1>1, <2>1, <2>2, <3>1, <3>2 DEF Database
  <2>4. Sound(e)
    BY <2>1, <2>2 DEF Sound, LiveChange, RestartChange
  <2>. QED
    BY <1>1, <2>1, <2>2, <2>3, <2>4 DEF Restartable, MayActivate
<1>. QED
  BY <1>2, <1>3

\* A live revision that cannot be applied is given up.
LEMMA Failure ==
  ASSUME Restartable(db), db.desired.status = "pending_apply"
  PROVE  Restartable([db EXCEPT !.desired.status = "failed"])
<1>. DEFINE e == [db EXCEPT !.desired.status = "failed"]
<1>1. db \in Database /\ db.desired \in Revision
  BY DEF Restartable, Database
<1>2. /\ e.effective = db.effective /\ e.nodes = db.nodes /\ e.last = db.last
      /\ e.desired.values = db.desired.values /\ e.desired.status = "failed"
      /\ e.desired.sequence = db.desired.sequence /\ e.desired \in Revision
  BY <1>1 DEF Database, Revision, Statuses
<1>3. e \in Database
  <2>1. e = [generation |-> db.generation, nodes |-> db.nodes, last |-> db.last,
             desired |-> [db.desired EXCEPT !.status = "failed"],
             effective |-> db.effective]
    BY <1>1 DEF Database
  <2>. QED
    BY <1>1, <1>2, <2>1 DEF Database
<1>4. Sound(e)
  BY <1>2 DEF Restartable, Sound
<1>. QED
  BY <1>2, <1>3, <1>4 DEF Restartable, MayActivate

\* A Node is created only below a capacity that whatever may become effective
\* has.
LEMMA Inventory ==
  ASSUME Durable, NEW nodes \in Nat, nodes \in {db.nodes - 1, db.nodes, db.nodes + 1},
         nodes > db.nodes => db.nodes < AdmissionCapacity
  PROVE  Restartable([[db EXCEPT !.nodes = nodes] EXCEPT !.generation = @ + 1])
<1>. DEFINE e == [db EXCEPT !.nodes = nodes]
<1>1. /\ db \in Database /\ db.nodes \in Nat
      /\ db.effective.values.capacity \in Nat /\ db.desired.values.capacity \in Nat
      /\ config.capacity \in Nat
  BY CapacitiesAreNumbers DEF Durable, Restartable, Database, Revision, Values
<1>2. /\ e \in Database /\ e.nodes = nodes /\ e.last = db.last
      /\ e.desired = db.desired /\ e.effective = db.effective
  BY <1>1 DEF Database
<1>3. Sound(e)
  BY <1>2 DEF Durable, Restartable, Sound
<1>4. nodes <= db.effective.values.capacity
  BY <1>1 DEF Durable, Restartable, AdmissionCapacity, Smaller
<1>5. MayActivate(db) => nodes <= db.desired.values.capacity
  BY <1>1 DEF Durable, Restartable, AdmissionCapacity, Smaller, MayActivate
<1>6. Restartable(e)
  BY <1>2, <1>3, <1>4, <1>5 DEF Durable, Restartable, MayActivate
<1>. QED
  BY <1>6, NextGeneration

\* A revision has room for the Nodes there are, and its status is what its
\* difference from the effective one calls for.
LEMMA Creation ==
  ASSUME Durable, NEW values \in Values, CreateRevision(values)
  PROVE  Restartable(db')
<1>. DEFINE live == LiveChange(db.effective.values, values)
            restart == RestartChange(db.effective.values, values)
            revision == [sequence |-> db.last + 1, values |-> values,
                         status |-> IF live THEN "pending_apply"
                                    ELSE IF restart THEN "pending_restart" ELSE "active"]
<1>1. /\ db \in Database /\ db.last \in Nat /\ db.effective \in Revision
      /\ db.effective.sequence \in Nat /\ db.effective.sequence <= db.last
      /\ db.effective.status = "active" /\ db.nodes <= db.effective.values.capacity
      /\ db.nodes <= values.capacity /\ values.capacity \in Nat
  BY CapacitiesAreNumbers
     DEF Durable, Restartable, Database, Revision, Sound, CreateRevision, Values
<1>2. revision \in Revision
  BY <1>1 DEF Revision, Statuses
<1>3. db' = [db EXCEPT !.desired = revision, !.last = @ + 1,
                       !.effective = IF live \/ restart THEN @ ELSE revision]
  BY DEF CreateRevision
<1>4. /\ db'.desired = revision /\ db'.last = db.last + 1 /\ db'.nodes = db.nodes
      /\ db'.effective = IF live \/ restart THEN db.effective ELSE revision
  BY <1>1, <1>3 DEF Database
<1>5. db' \in Database
  <2>1. db' = [generation |-> db.generation, nodes |-> db.nodes, last |-> db.last + 1,
               desired |-> revision,
               effective |-> IF live \/ restart THEN db.effective ELSE revision]
    BY <1>1, <1>3 DEF Database
  <2>. QED
    BY <1>1, <1>2, <2>1 DEF Database
<1>6. Sound(db')
  BY <1>1, <1>4 DEF Sound, LiveChange, RestartChange
<1>. QED
  BY <1>1, <1>2, <1>4, <1>5, <1>6 DEF Restartable, MayActivate

LEMMA InitHolds == Init => Durable
<1>. SUFFICES ASSUME Init PROVE Durable
  OBVIOUS
<1>1. PICK capacity \in Capacities :
        LET first == [sequence |-> 1, status |-> "active",
                      values |-> [live |-> FirstLive, capacity |-> capacity]]
        IN db = [generation |-> 0, nodes |-> 0, last |-> 1,
                 desired |-> first, effective |-> first] /\ config = first.values
  BY DEF Init
<1>2. [live |-> FirstLive, capacity |-> capacity] \in Values /\ capacity \in Nat
  BY <1>1, ParametersAssumption DEF Values
<1>. QED
  BY <1>1, <1>2
     DEF Durable, Restartable, Database, Revision, Statuses, Sound, MayActivate,
         LiveChange, RestartChange

LEMMA StepHolds == Durable /\ [Next]_vars => Durable'
<1>. SUFFICES ASSUME Durable, [Next]_vars PROVE Durable'
  OBVIOUS
<1>. USE DEF Durable
<1>1. CASE DrainAcknowledgement
  BY <1>1 DEF DrainAcknowledgement, memory
<1>2. CASE Poll
  BY <1>2 DEF Poll
<1>3. CASE Events
  <2>1. db' = [db EXCEPT !.generation = @ + 1] \/ db' = db
    BY <1>3 DEF Events, CommitGeneration
  <2>. QED
    BY <1>3, <2>1, NextGeneration DEF Events
<1>4. CASE Tick
  <2>1. CASE ~Mismatched /\ applier.acknowledged # 0 /\ CommitApplied
    <3>1. Acknowledgeable(applier.acknowledged)
      BY <2>1 DEF Mismatched
    <3>2. /\ Restartable(AcknowledgedAs)
          /\ AcknowledgedAs.effective.values \in Values
      BY <3>1, Acknowledgement
    <3>3. /\ Activatable(AcknowledgedAs) =>
               /\ Restartable(ActivatedAs(AcknowledgedAs))
               /\ ActivatedAs(AcknowledgedAs).effective.values \in Values
      BY <3>2, Activation DEF Activatable
    <3>4. \/ /\ Activatable(AcknowledgedAs)
             /\ db' = ActivatedAs(AcknowledgedAs)
             /\ config' = ActivatedAs(AcknowledgedAs).effective.values
          \/ db' = AcknowledgedAs /\ config' = AcknowledgedAs.effective.values
      BY <2>1 DEF CommitApplied
    <3>. QED
      BY <3>2, <3>3, <3>4
  <2>2. CASE UNCHANGED <<db, config>>
    BY <2>2
  <2>3. CASE Begin(mailbox) /\ UNCHANGED config
    <3>1. db' = db \/ (/\ db.desired.status = "pending_apply"
                       /\ db' = [db EXCEPT !.desired.status = "failed"])
      BY <2>3 DEF Begin
    <3>. QED
      BY <2>3, <3>1, Failure
  <2>. QED
    BY <1>4, <2>1, <2>2, <2>3 DEF Tick
<1>5. CASE Serve
  <2>1. config' = config
    BY <1>5 DEF Serve
  <2>2. CASE \E nodes \in {db.nodes - 1, db.nodes, db.nodes + 1} \cap Nat : Mutate(nodes)
    <3>1. PICK nodes \in {db.nodes - 1, db.nodes, db.nodes + 1} \cap Nat : Mutate(nodes)
      BY <2>2
    <3>2. /\ db' = [[db EXCEPT !.nodes = nodes] EXCEPT !.generation = @ + 1]
          /\ nodes > db.nodes => db.nodes < AdmissionCapacity
      BY <3>1 DEF Mutate, CommitGeneration
    <3>. QED
      BY <2>1, <3>1, <3>2, Inventory
  <2>3. CASE \E values \in Values : CreateRevision(values)
    BY <2>1, <2>3, Creation
  <2>4. CASE UNCHANGED db
    BY <2>1, <2>4
  <2>. QED
    BY <1>5, <2>2, <2>3, <2>4 DEF Serve
<1>6. CASE SendOther
  BY <1>6 DEF SendOther, memory
<1>7. CASE Worker
  BY <1>7 DEF Worker, Process, Flush, memory
<1>8. CASE Restart
  BY <1>8 DEF Restart, memory
<1>9. CASE Start
  <2>1. (db' = ActivatedAs(db) /\ db.desired.status = "pending_restart") \/ db' = db
    BY <1>9 DEF Start
  <2>2. Restartable(db')
    BY <2>1, Activation
  <2>3. config' = [live |-> db.effective.values.live, capacity |-> StartupCapacity]
    BY <1>9 DEF Start, Started
  <2>4. db.effective.values \in Values /\ db.desired.values \in Values
    BY DEF Restartable, Database, Revision
  <2>5. config' \in Values
    BY <2>3, <2>4 DEF Values, StartupCapacity
  <2>. QED
    BY <2>2, <2>5
<1>10. CASE UNCHANGED vars
  BY <1>10 DEF vars, memory
<1>. QED
  BY <1>1, <1>2, <1>3, <1>4, <1>5, <1>6, <1>7, <1>8, <1>9, <1>10 DEF Next, Control

\* Whatever a Master has committed when it ends, by a crash at any point or by
\* order, the next start finds
\* valid settings and room for every Node (State.validate and the registry's
\* capacity check in runMasterLinux), for any capacities and any number of
\* revisions, generations and restarts.
THEOREM CanAlwaysStart == Spec => []StartsAgain
<1>1. Init => Durable
  BY InitHolds
<1>2. Durable /\ [Next]_vars => Durable'
  BY StepHolds
<1>3. Durable => StartsAgain
  BY Enough
<1>. QED
  BY <1>1, <1>2, <1>3, PTL DEF Spec

-----------------------------------------------------------------------------
(* The gate                                                                *)

AckTypes == Acknowledgements \cup {NoAck}
Published == [sequence : Nat, values : Values]
Shapes ==
  /\ pc \in ControlSteps \cup {"down"}
  /\ kernel \in [link : Live, routes : Live] /\ liveness \in Live
  /\ installer \in [pending : [generation : Int, mtu : Live, reconciled : BOOLEAN],
                    in_flight : BOOLEAN, expected : Nat, captured : Nat,
                    failure : BOOLEAN, mtu : Live]
  /\ mailbox \in Published \cup {None}
  /\ applier \in [in_flight : Published \cup {None}, acknowledged : Nat, mismatch : BOOLEAN]
  /\ commands \in Seq(Commands) /\ acks \in Seq(Acknowledgements)
  /\ worker \in [generation : Int, live : Live, ack : AckTypes]

\* What is in a queue: whether there is anything of a kind, and that there is
\* one at most and what its number is.
Has(queue, kind) == \E i \in 1..Len(queue) : queue[i].kind = kind
Only(queue, kind, number) ==
  \A i \in 1..Len(queue) : queue[i].kind = kind =>
    /\ queue[i].number = number
    /\ \A j \in 1..Len(queue) : queue[j].kind = kind => j = i

\* A barrier command is in one of three places until it is acknowledged.
Underway(queue, held, answers, waiting, command, ack, number) ==
  /\ Only(queue, command, number) /\ Only(answers, ack, number)
  /\ held.kind = ack => held.number = number
  /\ waiting <=> Has(queue, command) \/ held.kind = ack \/ Has(answers, ack)
  /\ ~(Has(queue, command) /\ held.kind = ack)
  /\ ~(Has(queue, command) /\ Has(answers, ack))
  /\ ~(held.kind = ack /\ Has(answers, ack))
SnapshotUnderway(waiting, number) ==
  Underway(commands, worker.ack, acks, waiting, "install_master_snapshot",
           "master_snapshot", number)
SettingsUnderway(waiting, number) ==
  Underway(commands, worker.ack, acks, waiting, "apply_runtime_settings",
           "runtime_settings", number)

Snapshots ==
  /\ ~installer.failure
  /\ pc \in {"events", "hook", "serve"} => Ready
  /\ installer.captured <= db.generation
  /\ installer.pending # NoPending =>
       /\ ~installer.in_flight /\ installer.pending.generation = db.generation
       /\ installer.pending.mtu = installer.mtu
  /\ installer.in_flight => installer.expected = db.generation
  /\ SnapshotUnderway(installer.in_flight, installer.expected)
  /\ installer.in_flight /\ ~Has(commands, "install_master_snapshot")
       => worker.generation = installer.expected
  /\ Ready => worker.generation = db.generation

Memory ==
  /\ store = db.generation /\ config = db.effective.values
  /\ config.capacity = runtime_capacity

Waiting == applier.in_flight # None /\ applier.acknowledged = 0
Chosen == IF applier.in_flight = None THEN db.effective.values.live
          ELSE db.desired.values.live
Settings ==
  /\ db.desired.sequence # 0 /\ ~applier.mismatch
  /\ applier.in_flight # None =>
       /\ applier.in_flight.sequence = db.desired.sequence
       /\ db.desired.status = "pending_apply"
  /\ applier.acknowledged # 0 => /\ applier.in_flight # None
                                /\ applier.acknowledged = db.desired.sequence
  /\ mailbox # None =>
       /\ mailbox.sequence <= db.last
       /\ mailbox.sequence = db.desired.sequence => mailbox.values = db.desired.values
  /\ SettingsUnderway(Waiting, db.desired.sequence)
  /\ \A i \in 1..Len(commands) :
       commands[i].kind = "apply_runtime_settings" => commands[i].live = Chosen
  /\ kernel.link = Chosen /\ kernel.routes = Chosen /\ liveness = Chosen
  /\ installer.mtu = Chosen
  /\ ~Has(commands, "apply_runtime_settings") => worker.live = Chosen

Running == Shapes /\ broken = FALSE /\ (pc # "down" => Snapshots /\ Memory /\ Settings)

\* A queue that grows or shrinks.
LEMMA Grows ==
  ASSUME NEW S, NEW queue \in Seq(S), NEW m \in S, NEW q, q = Append(queue, m), NEW kind
  PROVE  /\ Has(q, kind) <=> Has(queue, kind) \/ m.kind = kind
         /\ \A number : Only(queue, kind, number) /\ m.kind # kind => Only(q, kind, number)
         /\ ~Has(queue, kind) => Only(q, kind, m.number)
<1>1. /\ Len(queue) \in Nat /\ Len(q) = Len(queue) + 1
      /\ q[Len(queue) + 1] = m
      /\ \A n \in 1..Len(queue) : q[n] = queue[n]
      /\ \A n \in 1..Len(q) : n = Len(queue) + 1 \/ n \in 1..Len(queue)
  OBVIOUS
<1>2. Len(queue) + 1 \in 1..Len(q) /\ \A n \in 1..Len(queue) : n \in 1..Len(q)
  BY <1>1
<1>. QED
  BY <1>1, <1>2 DEF Has, Only

LEMMA Shrinks ==
  ASSUME NEW S, NEW queue \in Seq(S), queue # <<>>, NEW q, q = Tail(queue), NEW kind,
         NEW number, Only(queue, kind, number)
  PROVE  /\ Only(q, kind, number)
         /\ Head(queue).kind # kind => (Has(q, kind) <=> Has(queue, kind))
         /\ Head(queue).kind = kind => /\ Has(queue, kind) /\ ~Has(q, kind)
                                      /\ Head(queue).number = number
<1>1. /\ Len(queue) \in Nat \ {0} /\ Len(q) = Len(queue) - 1
      /\ Head(queue) = queue[1]
      /\ \A n \in 1..Len(q) : q[n] = queue[n + 1]
  OBVIOUS
<1>2. /\ \A n \in 1..Len(q) : n + 1 \in 1..Len(queue) /\ n + 1 # 1
      /\ \A n \in 1..Len(queue) : n # 1 => n - 1 \in 1..Len(q) /\ q[n - 1] = queue[n]
      /\ 1 \in 1..Len(queue)
  BY <1>1
<1>3. Only(q, kind, number)
  <2>. SUFFICES ASSUME NEW i \in 1..Len(q), q[i].kind = kind
                PROVE  /\ q[i].number = number
                       /\ \A j \in 1..Len(q) : q[j].kind = kind => j = i
    BY DEF Only
  <2>1. queue[i + 1].kind = kind /\ i + 1 \in 1..Len(queue)
    BY <1>1, <1>2
  <2>2. q[i].number = number
    BY <1>1, <2>1 DEF Only
  <2>3. ASSUME NEW j \in 1..Len(q), q[j].kind = kind PROVE j = i
    <3>1. queue[j + 1].kind = kind /\ j + 1 \in 1..Len(queue)
      BY <1>1, <1>2, <2>3
    <3>2. j + 1 = i + 1
      BY <2>1, <3>1 DEF Only
    <3>. QED
      BY <3>2
  <2>. QED
    BY <2>2, <2>3
<1>4. Head(queue).kind # kind => (Has(q, kind) <=> Has(queue, kind))
  BY <1>1, <1>2 DEF Has
<1>5. Head(queue).kind = kind => /\ Has(queue, kind) /\ ~Has(q, kind)
                               /\ Head(queue).number = number
  BY <1>1, <1>2 DEF Has, Only
<1>. QED
  BY <1>3, <1>4, <1>5

\* A barrier on its way: sent, executed, answered, acknowledged; and the steps
\* of anything else.
LEMMA ExecutedOther ==
  ASSUME NEW queue \in Seq(Commands), queue # <<>>, NEW answers, NEW waiting \in BOOLEAN,
         NEW command, NEW ack, NEW number, NEW held, held.kind # ack,
         Head(queue).kind # command, NoAck.kind # ack,
         Underway(queue, NoAck, answers, waiting, command, ack, number)
  PROVE  /\ Underway(Tail(queue), held, answers, waiting, command, ack, number)
         /\ Has(Tail(queue), command) <=> Has(queue, command)
<1>1. /\ Only(Tail(queue), command, number)
      /\ Has(Tail(queue), command) <=> Has(queue, command)
  BY Shrinks DEF Underway
<1>. QED
  BY <1>1 DEF Underway

LEMMA Answered ==
  ASSUME NEW queue, NEW answers \in Seq(Acknowledgements), NEW held \in Acknowledgements,
         NEW waiting \in BOOLEAN, NEW command, NEW ack, ack # "none", NEW number,
         Underway(queue, held, answers, waiting, command, ack, number),
         NEW a, a = Append(answers, held)
  PROVE  Underway(queue, NoAck, a, waiting, command, ack, number)
<1>1. /\ Has(a, ack) <=> Has(answers, ack) \/ held.kind = ack
      /\ held.kind # ack => Only(a, ack, number)
      /\ ~Has(answers, ack) => Only(a, ack, held.number)
  BY Grows DEF Underway
<1>2. NoAck.kind # ack
  BY DEF NoAck
<1>. QED
  BY <1>1, <1>2 DEF Underway

LEMMA AcknowledgedOther ==
  ASSUME NEW queue, NEW answers \in Seq(Acknowledgements), answers # <<>>,
         NEW held, NEW waiting \in BOOLEAN, NEW command, NEW ack, NEW number,
         Head(answers).kind # ack,
         Underway(queue, held, answers, waiting, command, ack, number)
  PROVE  Underway(queue, held, Tail(answers), waiting, command, ack, number)
<1>1. Only(Tail(answers), ack, number) /\ (Has(Tail(answers), ack) <=> Has(answers, ack))
  BY Shrinks DEF Underway
<1>. QED
  BY <1>1 DEF Underway

\* When nothing is on its way its number does not matter.
LEMMA Idle ==
  ASSUME NEW queue, NEW held, NEW answers, NEW command, NEW ack, NEW number, NEW other,
         Underway(queue, held, answers, FALSE, command, ack, number)
  PROVE  /\ Underway(queue, held, answers, FALSE, command, ack, other)
         /\ ~Has(queue, command)
BY DEF Underway, Only, Has

-----------------------------------------------------------------------------
(* The steps of the worker                                                 *)

LEMMA ProcessStep == Running /\ Process => Running'
<1>. SUFFICES ASSUME Running, Process PROVE Running'
  OBVIOUS
<1>. DEFINE command == Head(commands)
<1>1. /\ pc # "down" /\ commands # <<>> /\ worker.ack = NoAck
      /\ commands' = Tail(commands)
      /\ UNCHANGED <<db, pc, memory, installer, mailbox, applier, acks, broken>>
  BY DEF Process
<1>2. /\ commands \in Seq(Commands) /\ acks \in Seq(Acknowledgements)
      /\ command \in Commands /\ command = commands[1]
      /\ Len(commands) \in Nat \ {0}
      /\ commands' \in Seq(Commands) /\ Len(commands') = Len(commands) - 1
      /\ \A i \in 1..Len(commands') : commands'[i] = commands[i + 1]
      /\ worker \in [generation : Int, live : Live, ack : AckTypes]
  BY <1>1 DEF Running, Shapes
<1>3. \/ command.kind = "other" /\ worker' = worker
      \/ /\ command.kind = "install_master_snapshot"
         /\ worker' = [worker EXCEPT !.generation = command.number,
                         !.ack = [kind |-> "master_snapshot", number |-> command.number]]
      \/ /\ command.kind = "apply_runtime_settings"
         /\ worker' = [worker EXCEPT !.live = command.live,
                         !.ack = [kind |-> "runtime_settings", number |-> command.number]]
  BY <1>2 DEF Process, Commands
<1>4. command.number \in Nat /\ command.live \in Live
  BY <1>2 DEF Commands
<1>5. Snapshots /\ Memory /\ Settings
  BY <1>1 DEF Running
<1>6. /\ worker' \in [generation : Int, live : Live, ack : AckTypes]
      /\ command.kind = "other" => worker' = worker
      /\ command.kind = "install_master_snapshot" =>
           /\ worker'.generation = command.number /\ worker'.live = worker.live
           /\ worker'.ack = [kind |-> "master_snapshot", number |-> command.number]
      /\ command.kind = "apply_runtime_settings" =>
           /\ worker'.generation = worker.generation /\ worker'.live = command.live
           /\ worker'.ack = [kind |-> "runtime_settings", number |-> command.number]
  <2>1. CASE command.kind = "other" /\ worker' = worker
    BY <1>2, <2>1
  <2>2. CASE /\ command.kind = "install_master_snapshot"
             /\ worker' = [worker EXCEPT !.generation = command.number,
                             !.ack = [kind |-> "master_snapshot", number |-> command.number]]
    <3>1. [kind |-> "master_snapshot", number |-> command.number] \in AckTypes
      BY <1>4 DEF AckTypes, Acknowledgements
    <3>2. command.number \in Int
      BY <1>4
    <3>. HIDE DEF command
    <3>3. /\ worker' \in [generation : Int, live : Live, ack : AckTypes]
          /\ worker'.generation = command.number /\ worker'.live = worker.live
          /\ worker'.ack = [kind |-> "master_snapshot", number |-> command.number]
      BY <1>2, <2>2, <3>1, <3>2
    <3>. QED
      BY <2>2, <3>3
  <2>3. CASE /\ command.kind = "apply_runtime_settings"
             /\ worker' = [worker EXCEPT !.live = command.live,
                             !.ack = [kind |-> "runtime_settings", number |-> command.number]]
    <3>1. [kind |-> "runtime_settings", number |-> command.number] \in AckTypes
      BY <1>4 DEF AckTypes, Acknowledgements
    <3>. QED
      BY <1>2, <1>4, <2>3, <3>1
  <2>. QED
    BY <1>3, <2>1, <2>2, <2>3
<1>7. command.kind \in {"other", "install_master_snapshot", "apply_runtime_settings"}
  BY <1>2 DEF Commands
<1>. HIDE DEF command
<1>8. /\ SnapshotUnderway(installer.in_flight, installer.expected)'
      /\ command.kind # "install_master_snapshot" =>
           (Has(commands', "install_master_snapshot") <=> Has(commands, "install_master_snapshot"))
      /\ command.kind = "install_master_snapshot" =>
           installer.in_flight /\ command.number = installer.expected
  <2>1. Underway(commands, NoAck, acks, installer.in_flight, "install_master_snapshot",
                 "master_snapshot", installer.expected)
    BY <1>1, <1>5 DEF Snapshots, SnapshotUnderway
  <2>2. installer.in_flight \in BOOLEAN
    BY DEF Running, Shapes
  <2>3. NoAck.kind # "master_snapshot"
    BY DEF NoAck
  <2>4. CASE command.kind = "install_master_snapshot"
    <3>1. worker'.ack.kind = "master_snapshot" /\ worker'.ack.number = command.number
      BY <1>6, <2>4
    <3>2. /\ Underway(Tail(commands), worker'.ack, acks, installer.in_flight, "install_master_snapshot", "master_snapshot", installer.expected)
          /\ ~Has(Tail(commands), "install_master_snapshot") /\ Head(commands).number = installer.expected
          /\ installer.in_flight = TRUE
      <4>1. /\ commands \in Seq(Commands) /\ commands # <<>>
            /\ Head(commands).kind = "install_master_snapshot"
            /\ worker'.ack.number = Head(commands).number
        BY <1>1, <1>2, <2>4, <3>1 DEF command
      <4>. QED
        <5>1. Only(commands, "install_master_snapshot", installer.expected)
          BY <2>1 DEF Underway
        <5>2. /\ Only(Tail(commands), "install_master_snapshot", installer.expected)
              /\ Has(commands, "install_master_snapshot") /\ ~Has(Tail(commands), "install_master_snapshot")
              /\ Head(commands).number = installer.expected
          BY <4>1, <5>1, Shrinks
        <5>. QED
          BY <2>1, <2>3, <3>1, <4>1, <5>2 DEF Underway
    <3>. QED
      BY <1>1, <2>2, <2>4, <3>2 DEF SnapshotUnderway, command
  <2>5. CASE command.kind # "install_master_snapshot"
    <3>1. worker'.ack.kind # "master_snapshot"
      BY <1>1, <1>6, <1>7, <2>3, <2>5
    <3>2. /\ Underway(Tail(commands), worker'.ack, acks, installer.in_flight, "install_master_snapshot", "master_snapshot", installer.expected)
          /\ Has(Tail(commands), "install_master_snapshot") <=> Has(commands, "install_master_snapshot")
      <4>1. /\ commands \in Seq(Commands) /\ commands # <<>>
            /\ Head(commands).kind # "install_master_snapshot"
        BY <1>1, <1>2, <2>5 DEF command
      <4>. QED
        BY <2>1, <2>2, <2>3, <3>1, <4>1, ExecutedOther
    <3>. QED
      BY <1>1, <2>2, <2>5, <3>2 DEF SnapshotUnderway
  <2>. QED
    BY <2>4, <2>5
<1>9. /\ SettingsUnderway(Waiting, db.desired.sequence)'
      /\ command.kind # "apply_runtime_settings" =>
           (Has(commands', "apply_runtime_settings") <=> Has(commands, "apply_runtime_settings"))
      /\ command.kind = "apply_runtime_settings" => ~Has(commands', "apply_runtime_settings")
  <2>1. Underway(commands, NoAck, acks, Waiting, "apply_runtime_settings",
                 "runtime_settings", db.desired.sequence)
    BY <1>1, <1>5 DEF Settings, SettingsUnderway
  <2>2. Waiting \in BOOLEAN /\ Waiting' = Waiting
    BY <1>1 DEF Waiting
  <2>3. NoAck.kind # "runtime_settings"
    BY DEF NoAck
  <2>4. CASE command.kind = "apply_runtime_settings"
    <3>1. worker'.ack.kind = "runtime_settings" /\ worker'.ack.number = command.number
      BY <1>6, <2>4
    <3>2. /\ Underway(Tail(commands), worker'.ack, acks, Waiting, "apply_runtime_settings", "runtime_settings", db.desired.sequence)
          /\ ~Has(Tail(commands), "apply_runtime_settings") /\ Head(commands).number = db.desired.sequence
          /\ Waiting = TRUE
      <4>1. /\ commands \in Seq(Commands) /\ commands # <<>>
            /\ Head(commands).kind = "apply_runtime_settings"
            /\ worker'.ack.number = Head(commands).number
        BY <1>1, <1>2, <2>4, <3>1 DEF command
      <4>. QED
        <5>1. Only(commands, "apply_runtime_settings", db.desired.sequence)
          BY <2>1 DEF Underway
        <5>2. /\ Only(Tail(commands), "apply_runtime_settings", db.desired.sequence)
              /\ Has(commands, "apply_runtime_settings") /\ ~Has(Tail(commands), "apply_runtime_settings")
              /\ Head(commands).number = db.desired.sequence
          BY <4>1, <5>1, Shrinks
        <5>. QED
          BY <2>1, <2>3, <3>1, <4>1, <5>2 DEF Underway
    <3>. QED
      BY <1>1, <2>2, <2>4, <3>2 DEF SettingsUnderway, command
  <2>5. CASE command.kind # "apply_runtime_settings"
    <3>1. worker'.ack.kind # "runtime_settings"
      BY <1>1, <1>6, <1>7, <2>3, <2>5
    <3>2. /\ Underway(Tail(commands), worker'.ack, acks, Waiting, "apply_runtime_settings", "runtime_settings", db.desired.sequence)
          /\ Has(Tail(commands), "apply_runtime_settings") <=> Has(commands, "apply_runtime_settings")
      <4>1. /\ commands \in Seq(Commands) /\ commands # <<>>
            /\ Head(commands).kind # "apply_runtime_settings"
        BY <1>1, <1>2, <2>5 DEF command
      <4>. QED
        BY <2>1, <2>2, <2>3, <3>1, <4>1, ExecutedOther
    <3>. QED
      BY <1>1, <2>2, <2>5, <3>2 DEF SettingsUnderway
  <2>. QED
    BY <2>4, <2>5
<1>10. Shapes'
  BY <1>1, <1>2, <1>6 DEF Running, Shapes, memory
<1>11. Ready' = Ready
  BY <1>1 DEF Ready
<1>12. Snapshots'
  <2>1. installer.in_flight /\ ~Has(commands', "install_master_snapshot")
          => worker'.generation = installer.expected
    BY <1>5, <1>6, <1>7, <1>8 DEF Snapshots
  <2>2. Ready => worker'.generation = db.generation
    BY <1>5, <1>6, <1>7, <1>8 DEF Snapshots, Ready
  <2>. QED
    BY <1>1, <1>5, <1>8, <1>11, <2>1, <2>2 DEF Snapshots
<1>13. Memory'
  BY <1>1, <1>5 DEF Memory, memory
<1>14. Settings'
  <2>1. Chosen' = Chosen
    BY <1>1 DEF Chosen
  <2>2. \A i \in 1..Len(commands') :
          commands'[i].kind = "apply_runtime_settings" => commands'[i].live = Chosen
    <3>1. \A i \in 1..Len(commands') : i + 1 \in 1..Len(commands)
      BY <1>2
    <3>. QED
      BY <1>2, <1>5, <3>1 DEF Settings
  <2>3. command.kind = "apply_runtime_settings" => command.live = Chosen
    <3>1. 1 \in 1..Len(commands)
      BY <1>2
    <3>. QED
      BY <1>2, <1>5, <3>1 DEF Settings
  <2>4. ~Has(commands', "apply_runtime_settings") => worker'.live = Chosen
    BY <1>5, <1>6, <1>7, <1>9, <2>3 DEF Settings
  <2>. QED
    BY <1>1, <1>5, <1>9, <2>1, <2>2, <2>4 DEF Settings, memory
<1>. QED
  BY <1>1, <1>10, <1>12, <1>13, <1>14 DEF Running

LEMMA FlushStep == Running /\ Flush => Running'
<1>. SUFFICES ASSUME Running, Flush PROVE Running'
  OBVIOUS
<1>1. /\ pc # "down" /\ worker.ack # NoAck
      /\ acks' = Append(acks, worker.ack) /\ worker' = [worker EXCEPT !.ack = NoAck]
      /\ UNCHANGED <<db, pc, memory, installer, mailbox, applier, commands, broken>>
  BY DEF Flush
<1>2. /\ acks \in Seq(Acknowledgements) /\ worker.ack \in Acknowledgements
      /\ worker'.ack = NoAck /\ worker'.generation = worker.generation
      /\ worker'.live = worker.live
      /\ worker' \in [generation : Int, live : Live, ack : AckTypes]
  BY <1>1 DEF Running, Shapes, AckTypes
<1>3. acks' \in Seq(Acknowledgements)
  BY <1>1, <1>2
<1>4. Snapshots /\ Memory /\ Settings
  BY <1>1 DEF Running
<1>5. SnapshotUnderway(installer.in_flight, installer.expected)'
  <2>1. installer.in_flight \in BOOLEAN
    BY DEF Running, Shapes
  <2>. QED
    BY <1>1, <1>2, <1>4, <2>1, Answered DEF Snapshots, SnapshotUnderway
<1>6. SettingsUnderway(Waiting, db.desired.sequence)'
  <2>1. Waiting \in BOOLEAN /\ Waiting' = Waiting
    BY <1>1 DEF Waiting
  <2>. QED
    BY <1>1, <1>2, <1>4, <2>1, Answered DEF Settings, SettingsUnderway
<1>7. Shapes'
  BY <1>1, <1>2, <1>3 DEF Running, Shapes, memory
<1>8. Snapshots'
  BY <1>1, <1>2, <1>4, <1>5 DEF Snapshots, Ready
<1>9. Memory'
  BY <1>1, <1>4 DEF Memory, memory
<1>10. Settings'
  <2>1. Chosen' = Chosen
    BY <1>1 DEF Chosen
  <2>. QED
    BY <1>1, <1>2, <1>4, <1>6, <2>1 DEF Settings, memory
<1>. QED
  BY <1>1, <1>7, <1>8, <1>9, <1>10 DEF Running

-----------------------------------------------------------------------------
(* The steps of the control loop                                           *)

\* Nothing but the position of the loop changes for the snapshots.
LEMMA SameSnapshots ==
  ASSUME Snapshots, UNCHANGED <<installer, commands, acks, worker>>,
         db'.generation = db.generation,
         pc' \in {"events", "hook", "serve"} => Ready
  PROVE  Snapshots'
BY DEF Snapshots, SnapshotUnderway, Ready

LEMMA SameSettings ==
  ASSUME Settings, UNCHANGED <<applier, mailbox, commands, acks, worker, kernel, liveness>>,
         db'.desired = db.desired, db'.last = db.last,
         db'.effective = db.effective, installer'.mtu = installer.mtu
  PROVE  Settings'
BY DEF Settings, SettingsUnderway, Waiting, Chosen

LEMMA RestartStep == Running /\ Restart => Running'
<1>. SUFFICES ASSUME Running, Restart PROVE Running'
  OBVIOUS
<1>1. /\ pc' = "down" /\ broken' = broken
      /\ UNCHANGED <<kernel, liveness, installer, mailbox, applier, commands, acks, worker>>
  BY DEF Restart, memory, queues
<1>2. Shapes'
  BY <1>1 DEF Running, Shapes
<1>. QED
  BY <1>1, <1>2 DEF Running

\* A command of another kind is sent; the barrier itself is.
LEMMA SentOther ==
  ASSUME NEW queue \in Seq(Commands), NEW m \in Commands, NEW held, NEW answers,
         NEW waiting, NEW command, NEW ack, NEW number, m.kind # command,
         Underway(queue, held, answers, waiting, command, ack, number)
  PROVE  /\ Underway(Append(queue, m), held, answers, waiting, command, ack, number)
         /\ Has(Append(queue, m), command) <=> Has(queue, command)
<1>. DEFINE q == Append(queue, m)
<1>1. Only(queue, command, number)
  BY DEF Underway
<1>2. q = Append(queue, m)
  OBVIOUS
<1>. HIDE DEF q
<1>3. Has(q, command) <=> Has(queue, command) \/ m.kind = command
  BY <1>2, Grows
<1>4. Only(q, command, number)
  BY <1>1, <1>2, Grows
<1>5. Underway(q, held, answers, waiting, command, ack, number)
  BY <1>3, <1>4 DEF Underway
<1>. QED
  BY <1>2, <1>3, <1>5

LEMMA Sent ==
  ASSUME NEW queue \in Seq(Commands), NEW m \in Commands, NEW held, NEW answers,
         NEW ack, NEW number,
         Underway(queue, held, answers, FALSE, m.kind, ack, number)
  PROVE  /\ Underway(Append(queue, m), held, answers, TRUE, m.kind, ack, m.number)
         /\ Has(Append(queue, m), m.kind)
<1>. DEFINE q == Append(queue, m)
<1>1. /\ Underway(queue, held, answers, FALSE, m.kind, ack, m.number)
      /\ ~Has(queue, m.kind)
  BY Idle
<1>2. q = Append(queue, m)
  OBVIOUS
<1>. HIDE DEF q
<1>3. Has(q, m.kind)
  BY <1>2, Grows
<1>4. Only(q, m.kind, m.number)
  BY <1>1, <1>2, Grows
<1>5. Underway(q, held, answers, TRUE, m.kind, ack, m.number)
  BY <1>1, <1>3, <1>4 DEF Underway
<1>. QED
  BY <1>2, <1>3, <1>5

LEMMA SettingsBesideOther ==
  ASSUME Shapes, Settings, NEW m \in Commands, m.kind # "apply_runtime_settings",
         commands' = Append(commands, m),
         UNCHANGED <<db, applier, mailbox, acks, worker, liveness>>,
         kernel'.link = kernel.link, kernel'.routes = Chosen, installer'.mtu = installer.mtu
  PROVE  Settings'
<1>1. Waiting \in BOOLEAN /\ Waiting' = Waiting /\ Chosen' = Chosen
  BY DEF Waiting, Chosen
<1>2. commands \in Seq(Commands)
  BY DEF Shapes
<1>4. /\ Underway(Append(commands, m), worker.ack, acks, Waiting, "apply_runtime_settings",
                  "runtime_settings", db.desired.sequence)
      /\ Has(Append(commands, m), "apply_runtime_settings")
           <=> Has(commands, "apply_runtime_settings")
  <2>1. Underway(commands, worker.ack, acks, Waiting, "apply_runtime_settings",
                 "runtime_settings", db.desired.sequence)
    BY DEF Settings, SettingsUnderway
  <2>. QED
    BY <1>2, <2>1, SentOther
<1>5. SettingsUnderway(Waiting, db.desired.sequence)'
  BY <1>1, <1>4 DEF SettingsUnderway
<1>6. \A i \in 1..Len(commands') :
        commands'[i].kind = "apply_runtime_settings" => commands'[i].live = Chosen
  <2>1. /\ \A i \in 1..Len(commands) : commands'[i] = commands[i]
        /\ commands'[Len(commands) + 1] = m
        /\ \A i \in 1..Len(commands') : i = Len(commands) + 1 \/ i \in 1..Len(commands)
    BY <1>2
  <2>. QED
    BY <2>1 DEF Settings
<1>. QED
  BY <1>1, <1>4, <1>5, <1>6 DEF Settings

LEMMA SendOtherStep == Running /\ SendOther => Running'
<1>. SUFFICES ASSUME Running, SendOther PROVE Running'
  OBVIOUS
<1>. DEFINE m == [kind |-> "other", number |-> 0, live |-> FirstLive]
<1>1. /\ pc \in {"events", "hook"} /\ commands' = Append(commands, m)
      /\ UNCHANGED <<db, pc, memory, installer, mailbox, applier, acks, worker, broken>>
  BY DEF SendOther
<1>2. m \in Commands /\ m.kind = "other"
  BY ParametersAssumption DEF Commands
<1>. HIDE DEF m
<1>3. commands \in Seq(Commands) /\ commands' \in Seq(Commands)
  BY <1>1, <1>2 DEF Running, Shapes
<1>4. Snapshots /\ Memory /\ Settings
  BY <1>1 DEF Running
<1>5. /\ SnapshotUnderway(installer.in_flight, installer.expected)'
      /\ Has(commands', "install_master_snapshot") <=> Has(commands, "install_master_snapshot")
  <2>2. m.kind # "install_master_snapshot"
    BY <1>2
  <2>4. commands' = Append(commands, m)
    BY <1>1
  <2>5. /\ Underway(Append(commands, m), worker.ack, acks, installer.in_flight,
                    "install_master_snapshot", "master_snapshot", installer.expected)
        /\ Has(Append(commands, m), "install_master_snapshot") <=> Has(commands, "install_master_snapshot")
    <3>1. Underway(commands, worker.ack, acks, installer.in_flight,
                   "install_master_snapshot", "master_snapshot", installer.expected)
      BY <1>4 DEF Snapshots, SnapshotUnderway
    <3>. QED
      BY <1>2, <1>3, <2>2, <3>1, SentOther
  <2>. QED
    BY <1>1, <2>4, <2>5 DEF SnapshotUnderway
<1>7. Shapes'
  BY <1>1, <1>3 DEF Running, Shapes, memory
<1>8. Snapshots'
  BY <1>1, <1>4, <1>5 DEF Snapshots, Ready
<1>9. Memory'
  BY <1>1, <1>4 DEF Memory, memory
<1>10. Settings'
  <2>1. m.kind # "apply_runtime_settings"
    BY <1>2
  <2>2. /\ Shapes /\ m \in Commands /\ commands' = Append(commands, m)
        /\ UNCHANGED <<db, applier, mailbox, acks, worker, liveness, kernel, installer>>
    BY <1>1, <1>2 DEF Running, memory
  <2>3. kernel.routes = Chosen
    BY <1>4 DEF Settings
  <2>. QED
    BY <1>4, <2>1, <2>2, <2>3, SettingsBesideOther
<1>. QED
  BY <1>1, <1>7, <1>8, <1>9, <1>10 DEF Running

LEMMA DrainStep == Running /\ DrainAcknowledgement => Running'
<1>. SUFFICES ASSUME Running, DrainAcknowledgement PROVE Running'
  OBVIOUS
<1>1. /\ pc \in Polling /\ pc # "down" /\ acks # <<>> /\ acks' = Tail(acks)
      /\ UNCHANGED <<db, store, config, runtime_capacity, kernel, liveness, mailbox,
                     commands, worker>>
  BY DEF DrainAcknowledgement, Polling, memory
<1>2. Snapshots /\ Memory /\ Settings
  BY <1>1 DEF Running
<1>3. /\ acks \in Seq(Acknowledgements) /\ acks' \in Seq(Acknowledgements)
      /\ Head(acks) \in Acknowledgements
  BY <1>1 DEF Running, Shapes
<1>4. Head(acks).kind \in {"runtime_settings", "master_snapshot"} /\ Head(acks).number \in Nat
  BY <1>3 DEF Acknowledgements
<1>5. installer.in_flight \in BOOLEAN /\ Waiting \in BOOLEAN
  BY DEF Running, Shapes, Waiting
<1>6. Underway(commands, worker.ack, acks, installer.in_flight,
               "install_master_snapshot", "master_snapshot", installer.expected)
  BY <1>2 DEF Snapshots, SnapshotUnderway
<1>7. Underway(commands, worker.ack, acks, Waiting,
               "apply_runtime_settings", "runtime_settings", db.desired.sequence)
  BY <1>2 DEF Settings, SettingsUnderway
<1>8. /\ Head(acks).kind # "master_snapshot" =>
           Underway(commands, worker.ack, Tail(acks), installer.in_flight,
                    "install_master_snapshot", "master_snapshot", installer.expected)
      /\ Head(acks).kind = "master_snapshot" =>
           /\ installer.in_flight /\ Head(acks).number = installer.expected
           /\ ~Has(commands, "install_master_snapshot")
           /\ Underway(commands, worker.ack, Tail(acks), FALSE,
                       "install_master_snapshot", "master_snapshot", installer.expected)
  <2>1. CASE Head(acks).kind # "master_snapshot"
    <3>1. Underway(commands, worker.ack, Tail(acks), installer.in_flight,
                   "install_master_snapshot", "master_snapshot", installer.expected)
      <4>1. acks # <<>> /\ acks \in Seq(Acknowledgements)
        BY <1>1, <1>3
      <4>. QED
        BY <1>5, <1>6, <2>1, <4>1, AcknowledgedOther
    <3>. QED
      BY <2>1, <3>1
  <2>2. CASE Head(acks).kind = "master_snapshot"
    <3>1. Only(acks, "master_snapshot", installer.expected)
      BY <1>6 DEF Underway
    <3>2. acks # <<>> /\ acks \in Seq(Acknowledgements)
      BY <1>1, <1>3
    <3>3. /\ Only(Tail(acks), "master_snapshot", installer.expected)
          /\ Has(acks, "master_snapshot") /\ ~Has(Tail(acks), "master_snapshot")
          /\ Head(acks).number = installer.expected
      BY <2>2, <3>1, <3>2, Shrinks
    <3>. QED
      BY <1>6, <2>2, <3>3 DEF Underway
  <2>. QED
    BY <2>1, <2>2
<1>9. /\ Head(acks).kind # "runtime_settings" =>
           Underway(commands, worker.ack, Tail(acks), Waiting,
                    "apply_runtime_settings", "runtime_settings", db.desired.sequence)
      /\ Head(acks).kind = "runtime_settings" =>
           /\ Waiting /\ Head(acks).number = db.desired.sequence
           /\ ~Has(commands, "apply_runtime_settings")
           /\ Underway(commands, worker.ack, Tail(acks), FALSE,
                       "apply_runtime_settings", "runtime_settings", db.desired.sequence)
  <2>1. CASE Head(acks).kind # "runtime_settings"
    <3>1. Underway(commands, worker.ack, Tail(acks), Waiting,
                   "apply_runtime_settings", "runtime_settings", db.desired.sequence)
      <4>1. acks # <<>> /\ acks \in Seq(Acknowledgements)
        BY <1>1, <1>3
      <4>. QED
        BY <1>5, <1>7, <2>1, <4>1, AcknowledgedOther
    <3>. QED
      BY <2>1, <3>1
  <2>2. CASE Head(acks).kind = "runtime_settings"
    <3>1. Only(acks, "runtime_settings", db.desired.sequence)
      BY <1>7 DEF Underway
    <3>2. acks # <<>> /\ acks \in Seq(Acknowledgements)
      BY <1>1, <1>3
    <3>3. /\ Only(Tail(acks), "runtime_settings", db.desired.sequence)
          /\ Has(acks, "runtime_settings") /\ ~Has(Tail(acks), "runtime_settings")
          /\ Head(acks).number = db.desired.sequence
      BY <2>2, <3>1, <3>2, Shrinks
    <3>. QED
      BY <1>7, <2>2, <3>3 DEF Underway
  <2>. QED
    BY <2>1, <2>2
<1>10. pc \notin {"events", "hook", "serve"}
  BY <1>1 DEF Polling
<1>11. CASE Head(acks).kind = "master_snapshot"
  <2>1. /\ installer' = [installer EXCEPT !.in_flight = FALSE]
        /\ UNCHANGED <<pc, broken, applier>>
    BY <1>8, <1>11 DEF DrainAcknowledgement
  <2>2. /\ installer'.in_flight = FALSE /\ installer'.expected = installer.expected
        /\ installer'.pending = installer.pending /\ installer'.captured = installer.captured
        /\ installer'.failure = installer.failure /\ installer'.mtu = installer.mtu
    BY <2>1 DEF Running, Shapes
  <2>3. Shapes'
    BY <1>1, <1>3, <2>1 DEF Running, Shapes
  <2>4. SnapshotUnderway(installer.in_flight, installer.expected)'
    BY <1>1, <1>8, <1>11, <2>2 DEF SnapshotUnderway
  <2>5. Snapshots'
    <3>1. worker.generation = db.generation
      BY <1>2, <1>8, <1>11 DEF Snapshots
    <3>. QED
      BY <1>1, <1>2, <1>8, <1>10, <1>11, <2>1, <2>2, <2>4, <3>1 DEF Snapshots
  <2>6. Memory'
    BY <1>1, <1>2 DEF Memory
  <2>7. Settings'
    <3>1. SettingsUnderway(Waiting, db.desired.sequence)'
      BY <1>1, <1>9, <1>11, <2>1 DEF SettingsUnderway, Waiting
    <3>. QED
      BY <1>1, <1>2, <2>1, <2>2, <3>1 DEF Settings, Chosen
  <2>. QED
    BY <1>1, <2>1, <2>3, <2>5, <2>6, <2>7 DEF Running
<1>12. CASE Head(acks).kind = "runtime_settings"
  <2>1. applier.in_flight # None /\ applier.acknowledged = 0
    BY <1>9, <1>12 DEF Waiting
  <2>2. applier.in_flight.sequence = Head(acks).number
    BY <1>2, <1>9, <1>12, <2>1 DEF Settings
  <2>3. /\ applier' = [applier EXCEPT !.acknowledged = Head(acks).number]
        /\ UNCHANGED <<pc, broken, installer>>
    BY <1>12, <2>1, <2>2 DEF DrainAcknowledgement
  <2>4. /\ applier'.acknowledged = db.desired.sequence
        /\ applier'.in_flight = applier.in_flight /\ applier'.mismatch = applier.mismatch
    BY <1>9, <1>12, <2>3 DEF Running, Shapes
  <2>5. Shapes'
    BY <1>1, <1>3, <1>4, <2>3 DEF Running, Shapes
  <2>6. SnapshotUnderway(installer.in_flight, installer.expected)'
    BY <1>1, <1>8, <1>12, <2>3 DEF SnapshotUnderway
  <2>7. Snapshots'
    BY <1>1, <1>2, <2>3, <2>6 DEF Snapshots, Ready
  <2>8. Memory'
    BY <1>1, <1>2 DEF Memory
  <2>9. Settings'
    <3>1. Waiting' = FALSE
      BY <1>2, <2>4 DEF Waiting, Settings
    <3>2. SettingsUnderway(Waiting, db.desired.sequence)'
      BY <1>1, <1>9, <1>12, <3>1 DEF SettingsUnderway
    <3>3. Chosen' = Chosen
      BY <1>1, <2>4 DEF Chosen
    <3>. QED
      BY <1>1, <1>2, <2>1, <2>3, <2>4, <3>2, <3>3 DEF Settings
  <2>. QED
    BY <1>1, <2>3, <2>5, <2>7, <2>8, <2>9 DEF Running
<1>. QED
  BY <1>4, <1>11, <1>12

\* A generation is committed where the gate is open, and the loop goes on to
\* poll.
LEMMA Commit ==
  ASSUME Shapes, broken = FALSE, Snapshots, Ready, db.generation \in Nat,
         NEW g \in Nat, g > db.generation, db'.generation = g,
         NEW mtu \in Live, Publish(g, mtu),
         UNCHANGED <<commands, acks, worker>>,
         pc' \notin {"events", "hook", "serve"}
  PROVE  /\ broken' = FALSE /\ Snapshots' /\ installer'.mtu = mtu
         /\ installer' \in [pending : [generation : Int, mtu : Live, reconciled : BOOLEAN],
                            in_flight : BOOLEAN, expected : Nat, captured : Nat,
                            failure : BOOLEAN, mtu : Live]
<1>. DEFINE p == [generation |-> g, mtu |-> mtu, reconciled |-> FALSE]
<1>1. /\ ~installer.failure /\ installer.pending = NoPending /\ ~installer.in_flight
      /\ installer.captured <= db.generation /\ installer.captured \in Nat
  BY DEF Ready, Snapshots, Shapes
<1>2. ~Refuses(g)
  BY <1>1 DEF Refuses
<1>3. installer' = [installer EXCEPT !.pending = p, !.captured = g, !.mtu = mtu]
  BY <1>1, <1>2 DEF Publish, Captured
<1>4. broken' = FALSE
  BY <1>2 DEF Publish
<1>5. p # NoPending /\ p.generation = g /\ p.mtu = mtu
      /\ p \in [generation : Int, mtu : Live, reconciled : BOOLEAN]
  BY DEF NoPending
<1>. HIDE DEF p
<1>6. /\ installer'.pending = p /\ installer'.captured = g /\ installer'.mtu = mtu
      /\ installer'.in_flight = installer.in_flight /\ installer'.expected = installer.expected
      /\ installer'.failure = installer.failure
  BY <1>3 DEF Shapes
<1>7. ~Ready'
  BY <1>5, <1>6 DEF Ready
<1>8. SnapshotUnderway(installer.in_flight, installer.expected)'
  BY <1>6 DEF Snapshots, SnapshotUnderway
<1>9. Snapshots'
  BY <1>1, <1>5, <1>6, <1>7, <1>8 DEF Snapshots
<1>. QED
  BY <1>3, <1>4, <1>5, <1>6, <1>9 DEF Shapes

LEMMA NumbersOf ==
  ASSUME Durable
  PROVE  /\ db.generation \in Nat /\ db.last \in Nat /\ db \in Database
         /\ db.desired \in Revision /\ db.effective \in Revision
         /\ db.desired.values \in Values /\ db.effective.values \in Values
         /\ db.desired.values.live \in Live /\ db.effective.values.live \in Live
         /\ db.desired.sequence \in Nat
BY DEF Durable, Restartable, Database, Revision, Values

LEMMA EventsStep == Durable /\ Running /\ Events => Running'
<1>. SUFFICES ASSUME Durable, Running, Events PROVE Running'
  OBVIOUS
<1>1. /\ pc = "events" /\ UNCHANGED <<config, runtime_capacity, kernel, liveness, mailbox,
                                    applier, commands, acks, worker>>
  BY DEF Events, queues
<1>2. Shapes /\ broken = FALSE /\ Snapshots /\ Memory /\ Settings /\ Ready
  BY <1>1 DEF Running, Snapshots
<1>3. CASE CommitGeneration(db) /\ pc' = "settle"
  <2>1. db' = [db EXCEPT !.generation = @ + 1] /\ store' = db.generation + 1
        /\ Publish(db.generation + 1, installer.mtu)
    BY <1>3 DEF CommitGeneration
  <2>2. /\ db'.generation = db.generation + 1 /\ db'.desired = db.desired
        /\ db'.effective = db.effective /\ db'.last = db.last
    BY <2>1, NumbersOf DEF Database
  <2>3. installer.mtu \in Live /\ db.generation \in Nat /\ db.generation + 1 \in Nat
        /\ db.generation + 1 > db.generation /\ pc' \notin {"events", "hook", "serve"}
    BY <1>2, <1>3, NumbersOf DEF Shapes
  <2>4. /\ broken' = FALSE /\ Snapshots' /\ installer'.mtu = installer.mtu
        /\ installer' \in [pending : [generation : Int, mtu : Live, reconciled : BOOLEAN],
                           in_flight : BOOLEAN, expected : Nat, captured : Nat,
                           failure : BOOLEAN, mtu : Live]
    BY <1>1, <1>2, <2>1, <2>2, <2>3, Commit
  <2>5. Shapes'
    BY <1>1, <1>2, <1>3, <2>4 DEF Shapes, ControlSteps
  <2>6. Memory'
    BY <1>1, <1>2, <2>1, <2>2 DEF Memory
  <2>7. Settings'
    BY <1>1, <1>2, <2>2, <2>4, SameSettings
  <2>. QED
    BY <1>3, <2>4, <2>5, <2>6, <2>7 DEF Running
<1>4. CASE pc' = "hook" /\ UNCHANGED <<db, store, installer, broken>>
  <2>1. Snapshots'
    BY <1>1, <1>2, <1>4, SameSnapshots
  <2>2. Settings'
    BY <1>1, <1>2, <1>4, SameSettings
  <2>3. Memory' /\ Shapes' /\ broken' = FALSE
    BY <1>1, <1>2, <1>4 DEF Memory, Shapes, ControlSteps
  <2>. QED
    BY <2>1, <2>2, <2>3 DEF Running
<1>. QED
  BY <1>3, <1>4 DEF Events

\* Where a poll leaves the loop.
LEMMA AfterPoll ==
  ASSUME pc \in Polling
  PROVE  /\ After \in ControlSteps
         /\ After \in {"events", "hook", "serve"} => Ready
         /\ After # "down"
BY DEF After, Polling, ControlSteps

LEMMA PollStep == Durable /\ Running /\ Poll => Running'
<1>. SUFFICES ASSUME Durable, Running, Poll PROVE Running'
  OBVIOUS
<1>1. /\ pc \in Polling /\ pc # "down"
      /\ UNCHANGED <<db, store, config, runtime_capacity, liveness, mailbox, applier, acks,
                     worker>>
  BY DEF Poll, Polling
<1>2. Shapes /\ broken = FALSE /\ Snapshots /\ Memory /\ Settings /\ ~installer.failure
  BY <1>1 DEF Running, Snapshots
<1>3. Memory'
  BY <1>1, <1>2 DEF Memory
<1>4. CASE pc' = After /\ UNCHANGED <<kernel, installer, commands, broken>>
  <2>1. Snapshots'
    BY <1>1, <1>2, <1>4, AfterPoll, SameSnapshots
  <2>2. Settings'
    BY <1>1, <1>2, <1>4, SameSettings
  <2>3. Shapes'
    BY <1>1, <1>2, <1>4, AfterPoll DEF Shapes
  <2>. QED
    BY <1>2, <1>3, <1>4, <2>1, <2>2, <2>3 DEF Running
<1>5. CASE /\ ~installer.in_flight /\ installer.pending # NoPending
           /\ kernel' = IF installer.pending.reconciled THEN kernel
                        ELSE [kernel EXCEPT !.routes = installer.pending.mtu]
           /\ pc' = After /\ UNCHANGED broken
  <2>1. pc' \in ControlSteps /\ pc' \notin {"events", "hook", "serve"}
    BY <1>1, <1>5, AfterPoll DEF Ready
  <2>2. /\ installer.pending.mtu = Chosen /\ kernel.link = Chosen /\ kernel.routes = Chosen
        /\ installer.pending.generation = db.generation
    BY <1>2, <1>5 DEF Snapshots, Settings
  <2>3. /\ kernel' \in [link : Live, routes : Live]
        /\ kernel'.link = kernel.link /\ kernel'.routes = Chosen
    BY <1>2, <1>5, <2>2 DEF Shapes
  <2>4. CASE /\ installer' = [installer EXCEPT !.pending.reconciled = TRUE]
             /\ UNCHANGED commands
    <3>1. /\ installer' \in [pending : [generation : Int, mtu : Live, reconciled : BOOLEAN],
                             in_flight : BOOLEAN, expected : Nat, captured : Nat,
                             failure : BOOLEAN, mtu : Live]
          /\ installer'.in_flight = installer.in_flight
          /\ installer'.expected = installer.expected
          /\ installer'.captured = installer.captured
          /\ installer'.failure = installer.failure /\ installer'.mtu = installer.mtu
          /\ installer'.pending.generation = installer.pending.generation
          /\ installer'.pending.mtu = installer.pending.mtu
          /\ installer'.pending.reconciled
      BY <1>2, <2>4 DEF Shapes
    <3>2. Shapes'
      BY <1>1, <1>2, <2>1, <2>3, <2>4, <3>1 DEF Shapes
    <3>3. installer'.pending # NoPending
      BY <3>1 DEF NoPending
    <3>4. SnapshotUnderway(installer.in_flight, installer.expected)'
      BY <1>1, <1>2, <2>4, <3>1 DEF Snapshots, SnapshotUnderway
    <3>5. Snapshots'
      BY <1>1, <1>2, <1>5, <2>1, <2>4, <3>1, <3>3, <3>4 DEF Snapshots, Ready
    <3>6. Settings'
      <4>1. Chosen' = Chosen /\ Waiting' = Waiting
        BY <1>1 DEF Chosen, Waiting
      <4>2. SettingsUnderway(Waiting, db.desired.sequence)'
        BY <1>1, <1>2, <2>4, <4>1 DEF Settings, SettingsUnderway
      <4>. QED
        BY <1>1, <1>2, <2>2, <2>3, <2>4, <3>1, <4>1, <4>2 DEF Settings
    <3>. QED
      BY <1>2, <1>3, <1>5, <3>2, <3>5, <3>6 DEF Running
  <2>5. CASE /\ commands' =
                   Append(commands, [kind |-> "install_master_snapshot", live |-> FirstLive,
                                     number |-> installer.pending.generation])
             /\ installer' = [installer EXCEPT !.pending = NoPending, !.in_flight = TRUE,
                                               !.expected = installer.pending.generation]
    <3>. DEFINE m == [kind |-> "install_master_snapshot", live |-> FirstLive,
                      number |-> installer.pending.generation]
    <3>1. db.generation \in Nat
      BY NumbersOf
    <3>2. m \in Commands /\ m.kind = "install_master_snapshot" /\ m.number = db.generation
      BY <2>2, <3>1, ParametersAssumption DEF Commands
    <3>3. commands' = Append(commands, m)
      BY <2>5
    <3>. HIDE DEF m
    <3>4. /\ installer'.in_flight = TRUE /\ installer'.expected = db.generation
          /\ installer'.captured = installer.captured /\ installer'.pending = NoPending
          /\ installer'.failure = installer.failure /\ installer'.mtu = installer.mtu
          /\ installer' \in [pending : [generation : Int, mtu : Live, reconciled : BOOLEAN],
                             in_flight : BOOLEAN, expected : Nat, captured : Nat,
                             failure : BOOLEAN, mtu : Live]
      <4>1. NoPending \in [generation : Int, mtu : Live, reconciled : BOOLEAN]
        BY ParametersAssumption DEF NoPending
      <4>2. installer' = [installer EXCEPT !.pending = NoPending, !.in_flight = TRUE,
                                           !.expected = db.generation]
        BY <2>2, <2>5
      <4>. QED
        BY <1>2, <3>1, <4>1, <4>2 DEF Shapes
    <3>5. commands \in Seq(Commands) /\ commands' \in Seq(Commands)
      BY <1>2, <3>2, <3>3 DEF Shapes
    <3>6. Shapes'
      BY <1>1, <1>2, <2>1, <2>3, <3>4, <3>5 DEF Shapes
    <3>7. /\ SnapshotUnderway(installer.in_flight, installer.expected)'
          /\ Has(commands', "install_master_snapshot")
      <4>1. Underway(commands, worker.ack, acks, FALSE, "install_master_snapshot",
                     "master_snapshot", installer.expected)
        <5>1. installer.in_flight = FALSE
          BY <1>2, <1>5 DEF Shapes
        <5>. QED
          BY <1>2, <5>1 DEF Snapshots, SnapshotUnderway
      <4>2. Underway(commands, worker.ack, acks, FALSE, m.kind,
                     "master_snapshot", installer.expected)
        BY <3>2, <4>1
      <4>3. /\ Underway(Append(commands, m), worker.ack, acks, TRUE, m.kind,
                        "master_snapshot", m.number)
            /\ Has(Append(commands, m), m.kind)
        BY <3>2, <3>5, <4>2, Sent
      <4>. QED
        BY <1>1, <3>2, <3>3, <3>4, <4>3 DEF SnapshotUnderway
    <3>8. Snapshots'
      BY <1>1, <1>2, <2>1, <3>4, <3>7 DEF Snapshots, Ready
    <3>9. Settings'
      <4>1. m.kind # "apply_runtime_settings"
        BY <3>2
      <4>2. /\ Shapes /\ m \in Commands /\ commands' = Append(commands, m)
            /\ UNCHANGED <<db, applier, mailbox, acks, worker, liveness>>
            /\ installer'.mtu = installer.mtu
        BY <1>1, <1>2, <3>2, <3>3, <3>4
      <4>. QED
        BY <1>2, <2>3, <4>1, <4>2, SettingsBesideOther
    <3>. QED
      BY <1>2, <1>3, <1>5, <3>6, <3>8, <3>9 DEF Running
  <2>. QED
    <3>1. \/ /\ installer' = [installer EXCEPT !.pending.reconciled = TRUE]
             /\ UNCHANGED commands
          \/ /\ commands' =
                   Append(commands, [kind |-> "install_master_snapshot", live |-> FirstLive,
                                     number |-> installer.pending.generation])
             /\ installer' = [installer EXCEPT !.pending = NoPending, !.in_flight = TRUE,
                                               !.expected = installer.pending.generation]
      BY <1>2, <1>5 DEF Poll
    <3>. QED
      BY <2>4, <2>5, <3>1
<1>. QED
  BY <1>2, <1>4, <1>5 DEF Poll

\* A request is served where the gate is open.  A revision is created only when
\* no settings are at the worker, and changes nothing that follows the
\* effective ones.
LEMMA MutateStep ==
  ASSUME Durable, Running, Serve, NEW nodes \in Nat, Mutate(nodes)
  PROVE  Running'
<1>1. /\ pc = "serve" /\ pc' = "served"
      /\ UNCHANGED <<config, runtime_capacity, kernel, liveness, mailbox, applier, commands,
                     acks, worker>>
  BY DEF Serve, Mutate, queues
<1>2. Shapes /\ broken = FALSE /\ Snapshots /\ Memory /\ Settings /\ Ready
  BY <1>1 DEF Running, Snapshots
<1>3. /\ db' = [[db EXCEPT !.nodes = nodes] EXCEPT !.generation = @ + 1]
      /\ store' = db.generation + 1 /\ Publish(db.generation + 1, installer.mtu)
  BY DEF Mutate, CommitGeneration
<1>4. /\ db'.generation = db.generation + 1 /\ db'.desired = db.desired
      /\ db'.effective = db.effective /\ db'.last = db.last
  BY <1>3, NumbersOf DEF Database
<1>5. installer.mtu \in Live /\ db.generation \in Nat /\ db.generation + 1 \in Nat
      /\ db.generation + 1 > db.generation /\ pc' \notin {"events", "hook", "serve"}
  BY <1>1, <1>2, NumbersOf DEF Shapes
<1>6. /\ broken' = FALSE /\ Snapshots' /\ installer'.mtu = installer.mtu
      /\ installer' \in [pending : [generation : Int, mtu : Live, reconciled : BOOLEAN],
                         in_flight : BOOLEAN, expected : Nat, captured : Nat,
                         failure : BOOLEAN, mtu : Live]
  BY <1>1, <1>2, <1>3, <1>4, <1>5, Commit
<1>7. Shapes'
  BY <1>1, <1>2, <1>6 DEF Shapes, ControlSteps
<1>8. Memory'
  BY <1>1, <1>2, <1>3, <1>4 DEF Memory
<1>9. Settings'
  BY <1>1, <1>2, <1>4, <1>6, SameSettings
<1>. QED
  BY <1>6, <1>7, <1>8, <1>9 DEF Running

LEMMA CreateStep ==
  ASSUME Durable, Running, Serve, NEW values \in Values, CreateRevision(values)
  PROVE  Running'
<1>. DEFINE live == LiveChange(db.effective.values, values)
            restart == RestartChange(db.effective.values, values)
            revision == [sequence |-> db.last + 1, values |-> values,
                         status |-> IF live THEN "pending_apply"
                                    ELSE IF restart THEN "pending_restart" ELSE "active"]
<1>1. /\ pc = "serve" /\ pc' = "served"
      /\ UNCHANGED <<store, config, runtime_capacity, kernel, liveness, installer, applier,
                     commands, acks, worker, broken>>
  BY DEF Serve, CreateRevision, queues
<1>2. Shapes /\ broken = FALSE /\ Snapshots /\ Memory /\ Settings
  BY <1>1 DEF Running
<1>3. /\ db' = [db EXCEPT !.desired = revision, !.last = @ + 1,
                          !.effective = IF live \/ restart THEN @ ELSE revision]
      /\ db.desired.status # "pending_apply"
      /\ mailbox' = IF live /\ mailbox.sequence < revision.sequence
                    THEN [sequence |-> revision.sequence, values |-> values] ELSE mailbox
  BY DEF CreateRevision
<1>4. /\ revision.sequence = db.last + 1 /\ revision.values = values
      /\ db.last \in Nat /\ db.effective.values \in Values
  BY NumbersOf
<1>. HIDE DEF revision
<1>5. /\ db'.generation = db.generation /\ db'.desired = revision /\ db'.last = db.last + 1
      /\ db'.effective = IF live \/ restart THEN db.effective ELSE revision
  BY <1>3, NumbersOf DEF Database
<1>6. db'.effective.values = db.effective.values
  <2>1. CASE live \/ restart
    BY <1>5, <2>1
  <2>2. CASE ~live /\ ~restart
    <3>1. values.live = db.effective.values.live /\ values.capacity = db.effective.values.capacity
      BY <2>2 DEF LiveChange, RestartChange
    <3>2. values = db.effective.values
      BY <1>4, <3>1 DEF Values
    <3>. QED
      BY <1>4, <1>5, <2>2, <3>2
  <2>. QED
    BY <2>1, <2>2
<1>7. applier.in_flight = None /\ applier.acknowledged = 0
  BY <1>2, <1>3 DEF Settings
<1>8. Waiting = FALSE /\ Waiting' = FALSE
  BY <1>1, <1>7 DEF Waiting
<1>9. Chosen' = Chosen
  BY <1>1, <1>6, <1>7 DEF Chosen
<1>10. SettingsUnderway(Waiting, db.desired.sequence)'
  <2>1. Underway(commands, worker.ack, acks, FALSE, "apply_runtime_settings",
                 "runtime_settings", db.desired.sequence)
    BY <1>2, <1>8 DEF Settings, SettingsUnderway
  <2>2. Underway(commands, worker.ack, acks, FALSE, "apply_runtime_settings",
                 "runtime_settings", db'.desired.sequence)
    BY <2>1, Idle
  <2>. QED
    BY <1>1, <1>8, <2>2 DEF SettingsUnderway
<1>11. /\ mailbox' \in Published \cup {None}
       /\ mailbox' # None =>
            /\ mailbox'.sequence <= db.last + 1
            /\ mailbox'.sequence = db.last + 1 => mailbox'.values = values
  <2>1. CASE mailbox' = [sequence |-> revision.sequence, values |-> values]
    BY <1>4, <2>1 DEF Published
  <2>2. CASE mailbox' = mailbox
    <3>1. mailbox \in Published \cup {None}
      BY <1>2 DEF Shapes
    <3>2. ASSUME mailbox # None
          PROVE  mailbox.sequence <= db.last + 1 /\ mailbox.sequence # db.last + 1
      <4>1. mailbox.sequence \in Nat /\ mailbox.sequence <= db.last
        BY <1>2, <3>1, <3>2 DEF Settings, Published
      <4>. QED
        BY <1>4, <4>1
    <3>. QED
      BY <2>2, <3>1, <3>2
  <2>. QED
    BY <1>3, <2>1, <2>2
<1>12. Shapes'
  BY <1>1, <1>2, <1>11 DEF Shapes, ControlSteps
<1>13. Snapshots'
  BY <1>1, <1>2, <1>5, SameSnapshots
<1>14. Memory'
  BY <1>1, <1>2, <1>5, <1>6 DEF Memory
<1>15. Settings'
  <2>1. db'.desired.sequence = db.last + 1 /\ db'.desired.values = values /\ db.last + 1 # 0
    BY <1>4, <1>5
  <2>2. applier'.in_flight = None /\ applier'.acknowledged = 0 /\ ~applier'.mismatch
    BY <1>1, <1>2, <1>7 DEF Settings
  <2>3. mailbox' # None =>
          /\ mailbox'.sequence <= db'.last
          /\ mailbox'.sequence = db'.desired.sequence => mailbox'.values = db'.desired.values
    BY <1>5, <1>11, <2>1
  <2>4. /\ \A i \in 1..Len(commands') :
             commands'[i].kind = "apply_runtime_settings" => commands'[i].live = Chosen'
        /\ kernel'.link = Chosen' /\ kernel'.routes = Chosen' /\ liveness' = Chosen'
        /\ installer'.mtu = Chosen'
        /\ ~Has(commands', "apply_runtime_settings") => worker'.live = Chosen'
    BY <1>1, <1>2, <1>9 DEF Settings
  <2>. QED
    BY <1>10, <2>1, <2>2, <2>3, <2>4 DEF Settings
<1>. QED
  BY <1>1, <1>2, <1>12, <1>13, <1>14, <1>15 DEF Running

LEMMA ServeStep == Durable /\ Running /\ Serve => Running'
<1>. SUFFICES ASSUME Durable, Running, Serve PROVE Running'
  OBVIOUS
<1>1. CASE \E nodes \in {db.nodes - 1, db.nodes, db.nodes + 1} \cap Nat : Mutate(nodes)
  BY <1>1, MutateStep
<1>2. CASE \E values \in Values : CreateRevision(values)
  BY <1>2, CreateStep
<1>3. CASE UNCHANGED <<db, store, installer, mailbox, broken>>
  <2>1. /\ pc = "serve" /\ pc' = "served"
        /\ UNCHANGED <<db, store, config, runtime_capacity, kernel, liveness, installer,
                       mailbox, applier, commands, acks, worker, broken>>
    BY <1>3 DEF Serve, queues
  <2>2. Shapes /\ broken = FALSE /\ Snapshots /\ Memory /\ Settings
    BY <2>1 DEF Running
  <2>3. Snapshots'
    BY <2>1, <2>2, SameSnapshots
  <2>4. Settings'
    BY <2>1, <2>2, SameSettings
  <2>5. Memory' /\ Shapes'
    BY <2>1, <2>2 DEF Memory, Shapes, ControlSteps
  <2>. QED
    BY <2>1, <2>2, <2>3, <2>4, <2>5 DEF Running
<1>. QED
  BY <1>1, <1>2, <1>3 DEF Serve

\* An acknowledged revision becomes effective, or its live part does, and the
\* generation that says so meets an open gate.  Nothing is activated: what
\* waits for a restart differs from what the tables were built with.
LEMMA AppliedStep ==
  ASSUME Durable, Running, pc = "hook", pc' = "settle",
         ~Mismatched, applier.acknowledged # 0, CommitApplied,
         UNCHANGED <<runtime_capacity, kernel, liveness, mailbox, commands, acks, worker>>
  PROVE  Running'
<1>. DEFINE e == AcknowledgedAs
            restart == RestartChange(db.effective.values, db.desired.values)
<1>1. Shapes /\ broken = FALSE /\ Snapshots /\ Memory /\ Settings /\ Ready
  BY DEF Running, Snapshots
<1>2. /\ applier.in_flight # None /\ db.desired.status = "pending_apply"
      /\ Chosen = db.desired.values.live /\ ~applier.mismatch
  BY <1>1 DEF Settings, Chosen
<1>3. /\ e.generation = db.generation + 1
      /\ e.desired.sequence = db.desired.sequence /\ e.desired.values = db.desired.values
      /\ e.desired.status = IF restart THEN "pending_restart" ELSE "active"
      /\ e.effective.values = IF restart THEN Projection.values ELSE db.desired.values
      /\ e.last \in Nat /\ e.last >= db.last
  <2>1. CASE restart
    BY <2>1, NumbersOf DEF AcknowledgedAs, Database, Revision
  <2>2. CASE ~restart
    BY <2>2, NumbersOf DEF AcknowledgedAs, Database, Revision
  <2>. QED
    BY <2>1, <2>2
<1>4. /\ e.effective.values.live = db.desired.values.live
      /\ e.effective.values.capacity = db.effective.values.capacity
  <2>1. CASE restart
    <3>1. Projection.values = [db.desired.values EXCEPT !.capacity = db.effective.values.capacity]
      BY DEF Projection
    <3>. QED
      BY <1>3, <2>1, <3>1, NumbersOf DEF Values
  <2>2. CASE ~restart
    BY <1>3, <2>2 DEF RestartChange
  <2>. QED
    BY <2>1, <2>2
<1>5. ~Activatable(e)
  BY <1>1, <1>3 DEF Activatable, Memory, RestartChange
<1>. HIDE DEF e
<1>6. /\ db' = e /\ config' = e.effective.values /\ store' = e.generation
      /\ Publish(e.generation, e.effective.values.live)
      /\ applier' = [applier EXCEPT !.in_flight = None, !.acknowledged = 0]
  BY <1>5 DEF CommitApplied, e
<1>7. applier' \in [in_flight : Published \cup {None}, acknowledged : Nat, mismatch : BOOLEAN]
      /\ applier'.in_flight = None /\ applier'.acknowledged = 0 /\ ~applier'.mismatch
  BY <1>1, <1>2, <1>6 DEF Shapes
<1>8. /\ db.generation \in Nat /\ e.generation \in Nat /\ e.generation > db.generation
      /\ db'.generation = e.generation /\ pc' \notin {"events", "hook", "serve"}
      /\ e.effective.values.live \in Live
  BY <1>3, <1>4, <1>6, NumbersOf
<1>9. /\ broken' = FALSE /\ Snapshots' /\ installer'.mtu = e.effective.values.live
      /\ installer' \in [pending : [generation : Int, mtu : Live, reconciled : BOOLEAN],
                         in_flight : BOOLEAN, expected : Nat, captured : Nat,
                         failure : BOOLEAN, mtu : Live]
  BY <1>1, <1>6, <1>8, Commit
<1>10. Shapes'
  BY <1>1, <1>7, <1>9 DEF Shapes, ControlSteps
<1>11. Memory'
  BY <1>1, <1>4, <1>6 DEF Memory
<1>12. Settings'
  <2>1. Waiting = FALSE /\ Waiting' = FALSE
    BY <1>7 DEF Waiting
  <2>2. Chosen' = Chosen
    BY <1>2, <1>4, <1>6, <1>7 DEF Chosen
  <2>3. SettingsUnderway(Waiting, db.desired.sequence)'
    BY <1>1, <1>3, <1>6, <2>1 DEF Settings, SettingsUnderway
  <2>4. mailbox' # None =>
          /\ mailbox'.sequence <= db'.last
          /\ mailbox'.sequence = db'.desired.sequence => mailbox'.values = db'.desired.values
    <3>. SUFFICES ASSUME mailbox # None
                  PROVE  /\ mailbox.sequence <= e.last
                         /\ mailbox.sequence = db.desired.sequence
                              => mailbox.values = db.desired.values
      BY <1>3, <1>6
    <3>1. mailbox.sequence \in Nat /\ mailbox.sequence <= db.last
      BY <1>1 DEF Shapes, Settings, Published
    <3>. QED
      BY <1>1, <1>3, <3>1, NumbersOf DEF Settings
  <2>5. /\ \A i \in 1..Len(commands') :
             commands'[i].kind = "apply_runtime_settings" => commands'[i].live = Chosen'
        /\ kernel'.link = Chosen' /\ kernel'.routes = Chosen' /\ liveness' = Chosen'
        /\ ~Has(commands', "apply_runtime_settings") => worker'.live = Chosen'
    BY <1>1, <2>2 DEF Settings
  <2>6. installer'.mtu = Chosen'
    BY <1>2, <1>4, <1>9, <2>2
  <2>7. db'.desired.sequence # 0
    BY <1>1, <1>3, <1>6 DEF Settings
  <2>. QED
    BY <1>7, <2>3, <2>4, <2>5, <2>6, <2>7 DEF Settings
<1>. QED
  BY <1>9, <1>10, <1>11, <1>12 DEF Running

\* A revision that is taken from the mailbox is given up, sent to the worker
\* with everything staged, or staged, taken back and kept.
LEMMA BeginStep ==
  ASSUME Durable, Running, pc = "hook", pc' = "settle", applier.in_flight = None,
         mailbox # None, Begin(mailbox),
         UNCHANGED <<runtime_capacity, store, config, acks, worker, broken>>
  PROVE  Running'
<1>1. Shapes /\ broken = FALSE /\ Snapshots /\ Memory /\ Settings /\ Ready
  BY DEF Running, Snapshots
<1>2. /\ applier.acknowledged = 0 /\ Waiting = FALSE /\ Chosen = db.effective.values.live
      /\ mailbox \in Published
  BY <1>1 DEF Settings, Waiting, Chosen, Shapes
<1>3. CASE /\ db' = db \/ (/\ db.desired.status = "pending_apply"
                           /\ db' = [db EXCEPT !.desired.status = "failed"])
           /\ mailbox' = None
           /\ UNCHANGED <<kernel, liveness, installer, applier, commands>>
  <2>1. /\ db'.generation = db.generation /\ db'.effective = db.effective
        /\ db'.desired.sequence = db.desired.sequence
    BY <1>3, NumbersOf DEF Database, Revision
  <2>2. Snapshots'
    BY <1>1, <1>3, <2>1, SameSnapshots
  <2>3. Chosen' = Chosen /\ Waiting' = Waiting
    BY <1>2, <1>3, <2>1 DEF Chosen, Waiting
  <2>4. SettingsUnderway(Waiting, db.desired.sequence)'
    BY <1>1, <1>3, <2>1, <2>3 DEF Settings, SettingsUnderway
  <2>5. Settings'
    BY <1>1, <1>2, <1>3, <2>1, <2>3, <2>4 DEF Settings
  <2>6. Memory' /\ Shapes'
    BY <1>1, <1>3, <2>1 DEF Memory, Shapes, ControlSteps
  <2>. QED
    BY <1>1, <2>2, <2>5, <2>6 DEF Running
<1>4. CASE /\ kernel' = [link |-> db.effective.values.live, routes |-> db.effective.values.live]
           /\ liveness' = db.effective.values.live
           /\ installer' = [installer EXCEPT !.mtu = db.effective.values.live]
           /\ UNCHANGED <<db, mailbox, commands, applier>>
  <2>1. installer.mtu = db.effective.values.live /\ installer' = installer
    BY <1>1, <1>2, <1>4 DEF Settings, Shapes
  <2>2. kernel' = kernel /\ liveness' = liveness
    BY <1>1, <1>2, <1>4 DEF Settings, Shapes
  <2>3. Snapshots'
    BY <1>1, <1>4, <2>1, SameSnapshots
  <2>4. Settings'
    BY <1>1, <1>4, <2>1, <2>2, SameSettings
  <2>5. Memory' /\ Shapes'
    BY <1>1, <1>4, <2>1, <2>2 DEF Memory, Shapes, ControlSteps
  <2>. QED
    BY <1>1, <2>3, <2>4, <2>5 DEF Running
<1>5. CASE /\ db.desired.sequence = mailbox.sequence /\ db.desired.status = "pending_apply"
           /\ kernel' = [link |-> mailbox.values.live, routes |-> mailbox.values.live]
           /\ liveness' = mailbox.values.live
           /\ installer' = [installer EXCEPT !.mtu = mailbox.values.live]
           /\ commands' = Append(commands, [kind |-> "apply_runtime_settings",
                                            number |-> mailbox.sequence,
                                            live |-> mailbox.values.live])
           /\ applier' = [applier EXCEPT !.in_flight = mailbox]
           /\ mailbox' = None
           /\ UNCHANGED db
  <2>. DEFINE m == [kind |-> "apply_runtime_settings", number |-> mailbox.sequence,
                    live |-> mailbox.values.live]
              live == db.desired.values.live
  <2>1. mailbox.values.live = live /\ live \in Live
    BY <1>1, <1>5, NumbersOf DEF Settings
  <2>2. /\ m \in Commands /\ m.kind = "apply_runtime_settings"
        /\ m.number = db.desired.sequence /\ m.live = live
        /\ commands' = Append(commands, m)
    BY <1>2, <1>5, <2>1 DEF Commands, Published
  <2>. HIDE DEF m, live
  <2>3. /\ kernel' = [link |-> live, routes |-> live] /\ liveness' = live
        /\ installer' = [installer EXCEPT !.mtu = live]
    BY <1>5, <2>1
  <2>4. /\ installer' \in [pending : [generation : Int, mtu : Live, reconciled : BOOLEAN],
                           in_flight : BOOLEAN, expected : Nat, captured : Nat,
                           failure : BOOLEAN, mtu : Live]
        /\ installer'.mtu = live /\ installer'.pending = installer.pending
        /\ installer'.in_flight = installer.in_flight
        /\ installer'.expected = installer.expected
        /\ installer'.captured = installer.captured
        /\ installer'.failure = installer.failure
    BY <1>1, <2>1, <2>3 DEF Shapes
  <2>5. /\ applier' \in [in_flight : Published \cup {None}, acknowledged : Nat,
                         mismatch : BOOLEAN]
        /\ applier'.in_flight = mailbox /\ applier'.acknowledged = 0 /\ ~applier'.mismatch
    BY <1>1, <1>2, <1>5 DEF Shapes, Settings
  <2>6. commands \in Seq(Commands) /\ commands' \in Seq(Commands)
    BY <1>1, <2>2 DEF Shapes
  <2>7. Shapes'
    <3>1. kernel' \in [link : Live, routes : Live] /\ liveness' \in Live
      BY <2>1, <2>3
    <3>. QED
      BY <1>1, <1>5, <2>4, <2>5, <2>6, <3>1 DEF Shapes, ControlSteps
  <2>8. Memory'
    BY <1>1, <1>5 DEF Memory
  <2>9. Snapshots'
    <3>1. Underway(commands, worker.ack, acks, installer.in_flight, "install_master_snapshot",
                   "master_snapshot", installer.expected)
      BY <1>1 DEF Snapshots, SnapshotUnderway
    <3>2. m.kind # "install_master_snapshot"
      BY <2>2
    <3>3. /\ Underway(Append(commands, m), worker.ack, acks, installer.in_flight,
                      "install_master_snapshot", "master_snapshot", installer.expected)
          /\ Has(Append(commands, m), "install_master_snapshot")
               <=> Has(commands, "install_master_snapshot")
      BY <2>2, <2>6, <3>1, <3>2, SentOther
    <3>4. /\ SnapshotUnderway(installer.in_flight, installer.expected)'
          /\ Has(commands', "install_master_snapshot")
               <=> Has(commands, "install_master_snapshot")
      BY <2>2, <2>4, <3>3 DEF SnapshotUnderway
    <3>5. Ready'
      BY <1>1, <2>4 DEF Ready
    <3>. QED
      BY <1>1, <1>5, <2>4, <3>4, <3>5 DEF Snapshots, Ready
  <2>10. Settings'
    <3>1. Waiting' = TRUE /\ Chosen' = live
      BY <1>5, <2>5 DEF Waiting, Chosen, live
    <3>2. Underway(commands, worker.ack, acks, FALSE, "apply_runtime_settings",
                   "runtime_settings", db.desired.sequence)
      BY <1>1, <1>2 DEF Settings, SettingsUnderway
    <3>3. ~Has(commands, "apply_runtime_settings")
      BY <3>2, Idle
    <3>4. Underway(commands, worker.ack, acks, FALSE, m.kind, "runtime_settings",
                   db.desired.sequence)
      BY <2>2, <3>2
    <3>5. /\ Underway(Append(commands, m), worker.ack, acks, TRUE, m.kind,
                      "runtime_settings", m.number)
          /\ Has(Append(commands, m), m.kind)
      BY <2>2, <2>6, <3>4, Sent
    <3>6. SettingsUnderway(Waiting, db.desired.sequence)'
          /\ Has(commands', "apply_runtime_settings")
      BY <1>5, <2>2, <3>1, <3>5 DEF SettingsUnderway
    <3>7. \A i \in 1..Len(commands') :
            commands'[i].kind = "apply_runtime_settings" => commands'[i].live = live
      <4>1. /\ \A i \in 1..Len(commands) : commands'[i] = commands[i]
            /\ commands'[Len(commands) + 1] = m
            /\ \A i \in 1..Len(commands') : i = Len(commands) + 1 \/ i \in 1..Len(commands)
        BY <2>2, <2>6
      <4>. QED
        BY <2>2, <3>3, <4>1 DEF Has
    <3>8. /\ db'.desired.sequence # 0 /\ applier'.in_flight # None
          /\ applier'.in_flight.sequence = db'.desired.sequence
          /\ db'.desired.status = "pending_apply"
      BY <1>1, <1>5, <2>5 DEF Settings
    <3>9. kernel'.link = live /\ kernel'.routes = live
      BY <2>3
    <3>. QED
      BY <1>5, <2>3, <2>4, <2>5, <3>1, <3>6, <3>7, <3>8, <3>9 DEF Settings
  <2>. QED
    BY <1>1, <2>7, <2>8, <2>9, <2>10 DEF Running
<1>. QED
  BY <1>3, <1>4, <1>5 DEF Begin, Staged, Restored

LEMMA TickStep == Durable /\ Running /\ Tick => Running'
<1>. SUFFICES ASSUME Durable, Running, Tick PROVE Running'
  OBVIOUS
<1>1. pc = "hook" /\ UNCHANGED <<runtime_capacity, acks, worker>>
  BY DEF Tick
<1>2. Shapes /\ broken = FALSE /\ Snapshots /\ Memory /\ Settings /\ Ready
  BY <1>1 DEF Running, Snapshots
<1>3. ~Mismatched
  <2>1. ~applier.mismatch
    BY <1>2 DEF Settings
  <2>2. ASSUME applier.acknowledged # 0 PROVE Acknowledgeable(applier.acknowledged)
    <3>1. /\ applier.acknowledged = db.desired.sequence
          /\ db.desired.status = "pending_apply"
      BY <1>2, <2>2 DEF Settings
    <3>2. LiveChange(db.effective.values, db.desired.values)
      BY <3>1 DEF Durable, Restartable, Sound
    <3>. QED
      BY <3>1, <3>2 DEF Acknowledgeable
  <2>. QED
    BY <2>1, <2>2 DEF Mismatched
<1>4. CASE /\ applier.acknowledged # 0 /\ CommitApplied
           /\ pc' = "settle" /\ UNCHANGED <<kernel, liveness, mailbox, commands>>
  BY <1>1, <1>3, <1>4, AppliedStep
<1>5. CASE /\ pc' = "settle" /\ UNCHANGED broken
           /\ UNCHANGED <<db, store, config, kernel, liveness, installer, mailbox, applier,
                          commands>>
  <2>1. Snapshots'
    BY <1>1, <1>2, <1>5, SameSnapshots
  <2>2. Settings'
    BY <1>1, <1>2, <1>5, SameSettings
  <2>3. Memory' /\ Shapes'
    BY <1>1, <1>2, <1>5 DEF Memory, Shapes, ControlSteps
  <2>. QED
    BY <1>2, <1>5, <2>1, <2>2, <2>3 DEF Running
<1>6. CASE /\ applier.in_flight = None /\ mailbox # None /\ Begin(mailbox)
           /\ pc' = "settle" /\ UNCHANGED <<store, config, broken>>
  BY <1>1, <1>6, BeginStep
<1>. QED
  BY <1>3, <1>4, <1>5, <1>6 DEF Tick

-----------------------------------------------------------------------------
(* Starts                                                                  *)

\* With nothing in the queues nothing is on its way.
LEMMA Nothing ==
  ASSUME NEW command, NEW ack, ack # "none", NEW number
  PROVE  Underway(<<>>, NoAck, <<>>, FALSE, command, ack, number)
<1>1. Len(<<>>) = 0 /\ \A i \in 1..0 : FALSE
  OBVIOUS
<1>. QED
  BY <1>1 DEF Underway, Only, Has, NoAck

\* A start makes everything follow the database, whose settings in memory are
\* then the effective ones.
LEMMA FromDatabase ==
  ASSUME Restartable(db)', NEW live \in Live, NEW capacity \in Capacities,
         NEW activated \in BOOLEAN,
         Started(db', live, capacity, activated),
         db'.effective.values = [live |-> live, capacity |-> capacity], broken' = FALSE
  PROVE  Running'
<1>1. /\ db'.generation \in Nat /\ db'.desired.sequence \in Nat /\ db'.last \in Nat
      /\ db'.desired.values \in Values /\ db'.desired.sequence <= db'.last
      /\ db'.desired.sequence # 0
  BY DEF Restartable, Database, Revision
<1>2. /\ commands' = <<>> /\ acks' = <<>> /\ pc' = "advance"
      /\ kernel' = [link |-> live, routes |-> live] /\ liveness' = live
      /\ applier' = [in_flight |-> None, acknowledged |-> 0, mismatch |-> FALSE]
      /\ mailbox' = IF db'.desired.status = "pending_apply"
                    THEN [sequence |-> db'.desired.sequence, values |-> db'.desired.values]
                    ELSE None
      /\ store' = db'.generation /\ runtime_capacity' = capacity
      /\ config' = [live |-> live, capacity |-> capacity]
  BY DEF Started
<1>3. /\ worker' = [generation |-> IF activated THEN db'.generation - 1 ELSE db'.generation,
                    live |-> live, ack |-> NoAck]
      /\ installer' =
           [pending |-> IF activated
                        THEN [generation |-> db'.generation, mtu |-> live, reconciled |-> FALSE]
                        ELSE NoPending,
            in_flight |-> FALSE, expected |-> 0, captured |-> db'.generation,
            failure |-> FALSE, mtu |-> live]
  BY DEF Started
<1>4. /\ NoPending \in [generation : Int, mtu : Live, reconciled : BOOLEAN]
      /\ [generation |-> db'.generation, mtu |-> live, reconciled |-> FALSE]
            \in [generation : Int, mtu : Live, reconciled : BOOLEAN]
  BY <1>1, ParametersAssumption DEF NoPending
<1>5. installer' \in [pending : [generation : Int, mtu : Live, reconciled : BOOLEAN],
                     in_flight : BOOLEAN, expected : Nat, captured : Nat,
                     failure : BOOLEAN, mtu : Live]
  BY <1>1, <1>3, <1>4
<1>6. worker' \in [generation : Int, live : Live, ack : AckTypes]
  BY <1>1, <1>3 DEF AckTypes
<1>7. mailbox' \in Published \cup {None}
  BY <1>1, <1>2 DEF Published
<1>8. /\ applier' \in [in_flight : Published \cup {None}, acknowledged : Nat,
                       mismatch : BOOLEAN]
      /\ kernel' \in [link : Live, routes : Live]
      /\ commands' \in Seq(Commands) /\ acks' \in Seq(Acknowledgements)
  BY <1>2
<1>9. Shapes'
  BY <1>2, <1>5, <1>6, <1>7, <1>8 DEF Shapes, ControlSteps
<1>10. worker'.ack = NoAck /\ worker'.live = live
       /\ installer'.in_flight = FALSE /\ installer'.failure = FALSE
       /\ installer'.captured = db'.generation /\ installer'.mtu = live
  BY <1>3
<1>11. installer'.pending # NoPending =>
         /\ installer'.pending.generation = db'.generation /\ installer'.pending.mtu = live
  BY <1>3
<1>12. installer'.pending = NoPending => worker'.generation = db'.generation
  <2>1. CASE activated
    <3>1. [generation |-> db'.generation, mtu |-> live, reconciled |-> FALSE] # NoPending
      BY <1>1 DEF NoPending
    <3>. QED
      BY <1>3, <2>1, <3>1
  <2>2. CASE ~activated
    BY <1>3, <2>2
  <2>. QED
    BY <2>1, <2>2
<1>13. Snapshots'
  <2>1. Underway(<<>>, NoAck, <<>>, FALSE, "install_master_snapshot", "master_snapshot",
                 installer'.expected)
    BY Nothing
  <2>2. SnapshotUnderway(installer.in_flight, installer.expected)'
    BY <1>2, <1>10, <2>1 DEF SnapshotUnderway
  <2>3. installer'.captured <= db'.generation
    BY <1>1, <1>10
  <2>. QED
    BY <1>2, <1>10, <1>11, <1>12, <2>2, <2>3 DEF Snapshots, Ready
<1>14. Memory'
  BY <1>2 DEF Memory
<1>15. Settings'
  <2>1. Waiting' = FALSE /\ Chosen' = live
    BY <1>2 DEF Waiting, Chosen
  <2>2. Underway(<<>>, NoAck, <<>>, FALSE, "apply_runtime_settings", "runtime_settings",
                 db'.desired.sequence)
    BY Nothing
  <2>3. SettingsUnderway(Waiting, db.desired.sequence)'
    BY <1>2, <1>10, <2>1, <2>2 DEF SettingsUnderway
  <2>4. mailbox' # None => /\ mailbox'.sequence <= db'.last
                          /\ mailbox'.values = db'.desired.values
    BY <1>1, <1>2
  <2>5. \A i \in 1..Len(commands') :
          commands'[i].kind = "apply_runtime_settings" => commands'[i].live = live
    BY <1>2
  <2>6. /\ applier'.in_flight = None /\ applier'.acknowledged = 0 /\ ~applier'.mismatch
        /\ kernel'.link = live /\ kernel'.routes = live
    BY <1>2
  <2>. QED
    BY <1>1, <1>2, <1>10, <2>1, <2>3, <2>4, <2>5, <2>6 DEF Settings
<1>. QED
  BY <1>9, <1>13, <1>14, <1>15 DEF Running

\* What a start activates differs from the effective settings in the capacity
\* only, so both starts leave the effective settings in memory.
LEMMA StartStep == Durable /\ Running /\ Start => Running'
<1>. SUFFICES ASSUME Durable, Running, Start PROVE Running'
  OBVIOUS
<1>. DEFINE live == db.effective.values.live
            activated == db.desired.status = "pending_restart"
<1>1. Restartable(db)' /\ broken' = FALSE
  <2>1. Restartable(ActivatedAs(db)) \/ ~activated
    BY Activation DEF Durable
  <2>. QED
    BY <2>1 DEF Start, Durable, Running
<1>2. live \in Live /\ StartupCapacity \in Capacities /\ activated \in BOOLEAN
  BY NumbersOf DEF Values, StartupCapacity
<1>3. Started(db', live, StartupCapacity, activated)
  BY DEF Start
<1>4. db'.effective.values = [live |-> live, capacity |-> StartupCapacity]
  <2>1. CASE activated
    <3>1. db' = ActivatedAs(db) /\ StartupCapacity = db.desired.values.capacity
      BY <2>1 DEF Start, StartupCapacity
    <3>2. db'.effective.values = db.desired.values
      BY <3>1, NumbersOf DEF ActivatedAs, Database, Revision
    <3>3. db.desired.values.live = live
      BY <2>1 DEF Durable, Restartable, Sound, LiveChange
    <3>. QED
      BY <3>1, <3>2, <3>3, NumbersOf DEF Values
  <2>2. CASE ~activated
    BY <2>2, NumbersOf DEF Start, StartupCapacity, Values
  <2>. QED
    BY <2>1, <2>2
<1>. HIDE DEF live, activated
<1>. QED
  BY <1>1, <1>2, <1>3, <1>4, FromDatabase

LEMMA RunningInit == Init => Running
<1>. SUFFICES ASSUME Init PROVE Running
  OBVIOUS
<1>1. PICK capacity \in Capacities :
        LET first == [sequence |-> 1, status |-> "active",
                      values |-> [live |-> FirstLive, capacity |-> capacity]]
        IN /\ db = [generation |-> 0, nodes |-> 0, last |-> 1,
                    desired |-> first, effective |-> first]
           /\ config = first.values
           /\ runtime_capacity = capacity
  BY DEF Init
<1>2. /\ pc = "advance" /\ store = 0
      /\ kernel = [link |-> FirstLive, routes |-> FirstLive] /\ liveness = FirstLive
      /\ installer = [pending |-> NoPending, in_flight |-> FALSE, expected |-> 0,
                      captured |-> 0, failure |-> FALSE, mtu |-> FirstLive]
      /\ mailbox = None
      /\ applier = [in_flight |-> None, acknowledged |-> 0, mismatch |-> FALSE]
      /\ commands = <<>> /\ acks = <<>>
      /\ worker = [generation |-> 0, live |-> FirstLive, ack |-> NoAck]
      /\ broken = FALSE
  BY DEF Init
<1>3. /\ db.generation = 0 /\ db.desired.sequence = 1
      /\ db.effective.values = [live |-> FirstLive, capacity |-> capacity]
      /\ db.effective.values.live = FirstLive
  BY <1>1
<1>4. FirstLive \in Live
  BY ParametersAssumption
<1>5. NoPending \in [generation : Int, mtu : Live, reconciled : BOOLEAN]
  BY <1>4 DEF NoPending
<1>6. Shapes
  <2>1. installer \in [pending : [generation : Int, mtu : Live, reconciled : BOOLEAN],
                       in_flight : BOOLEAN, expected : Nat, captured : Nat,
                       failure : BOOLEAN, mtu : Live]
    BY <1>2, <1>4, <1>5
  <2>2. worker \in [generation : Int, live : Live, ack : AckTypes]
    BY <1>2, <1>4 DEF AckTypes
  <2>3. /\ applier \in [in_flight : Published \cup {None}, acknowledged : Nat,
                        mismatch : BOOLEAN]
        /\ kernel \in [link : Live, routes : Live] /\ mailbox \in Published \cup {None}
        /\ commands \in Seq(Commands) /\ acks \in Seq(Acknowledgements)
    BY <1>2, <1>4
  <2>. QED
    BY <1>2, <1>4, <2>1, <2>2, <2>3 DEF Shapes, ControlSteps
<1>7. Snapshots
  <2>1. Underway(<<>>, NoAck, <<>>, FALSE, "install_master_snapshot", "master_snapshot", 0)
    BY Nothing
  <2>2. SnapshotUnderway(installer.in_flight, installer.expected)
    BY <1>2, <2>1 DEF SnapshotUnderway
  <2>3. /\ installer.failure = FALSE /\ installer.in_flight = FALSE
        /\ installer.pending = NoPending /\ installer.captured = 0
        /\ worker.generation = 0 /\ pc = "advance"
    BY <1>2
  <2>. QED
    BY <1>3, <2>2, <2>3 DEF Snapshots
<1>8. Memory
  BY <1>1, <1>2, <1>3 DEF Memory
<1>9. Settings
  <2>1. Waiting = FALSE /\ Chosen = FirstLive
    BY <1>2, <1>3 DEF Waiting, Chosen
  <2>2. Underway(<<>>, NoAck, <<>>, FALSE, "apply_runtime_settings", "runtime_settings", 1)
    BY Nothing
  <2>3. SettingsUnderway(Waiting, db.desired.sequence)
    BY <1>2, <1>3, <2>1, <2>2 DEF SettingsUnderway
  <2>4. \A i \in 1..Len(commands) :
          commands[i].kind = "apply_runtime_settings" => commands[i].live = FirstLive
    BY <1>2
  <2>. QED
    BY <1>2, <1>3, <2>1, <2>3, <2>4 DEF Settings
<1>. QED
  BY <1>2, <1>6, <1>7, <1>8, <1>9 DEF Running

-----------------------------------------------------------------------------
LEMMA RunningStep == Durable /\ Running /\ [Next]_vars => Running'
<1>. SUFFICES ASSUME Durable, Running, [Next]_vars PROVE Running'
  OBVIOUS
<1>1. CASE Control
  BY <1>1, DrainStep, PollStep, EventsStep, TickStep, ServeStep DEF Control
<1>2. CASE SendOther
  BY <1>2, SendOtherStep
<1>3. CASE Worker
  BY <1>3, ProcessStep, FlushStep DEF Worker
<1>4. CASE Restart
  BY <1>4, RestartStep
<1>5. CASE Start
  BY <1>5, StartStep
<1>6. CASE UNCHANGED vars
  <2>1. UNCHANGED <<db, pc, store, config, runtime_capacity, kernel, liveness, installer,
                    mailbox, applier, commands, acks, worker, broken>>
    BY <1>6 DEF vars, memory, queues
  <2>2. Shapes' /\ broken' = FALSE
    BY <2>1 DEF Running, Shapes
  <2>3. ASSUME pc # "down" PROVE Snapshots' /\ Memory' /\ Settings'
    <3>1. Snapshots /\ Memory /\ Settings
      BY <2>3 DEF Running
    <3>2. Snapshots'
      BY <2>1, <3>1, SameSnapshots DEF Snapshots
    <3>3. Settings'
      BY <2>1, <3>1, SameSettings
    <3>. QED
      BY <2>1, <3>1, <3>2, <3>3 DEF Memory
  <2>. QED
    BY <2>1, <2>2, <2>3 DEF Running
<1>. QED
  BY <1>1, <1>2, <1>3, <1>4, <1>5, <1>6 DEF Next

\* What follows the settings is what the invariant says it is, except while
\* settings are at the worker.
LEMMA RunningIsCoherent == Running => Coherent
<1>. SUFFICES ASSUME Running, pc # "down"
              PROVE  /\ config = db.effective.values /\ config.capacity = runtime_capacity
                     /\ store = db.generation
                     /\ applier.in_flight = None =>
                          {kernel.link, kernel.routes, liveness, installer.mtu, worker.live}
                            = {db.effective.values.live}
                     /\ Ready => worker.generation = db.generation
  BY DEF Coherent
<1>1. Snapshots /\ Memory /\ Settings
  BY DEF Running
<1>2. ASSUME applier.in_flight = None
      PROVE  {kernel.link, kernel.routes, liveness, installer.mtu, worker.live}
               = {db.effective.values.live}
  <2>1. Waiting = FALSE /\ Chosen = db.effective.values.live
    BY <1>2 DEF Waiting, Chosen
  <2>2. ~Has(commands, "apply_runtime_settings")
    BY <1>1, <2>1 DEF Settings, SettingsUnderway, Underway
  <2>3. /\ kernel.link = Chosen /\ kernel.routes = Chosen /\ liveness = Chosen
        /\ installer.mtu = Chosen /\ worker.live = Chosen
    BY <1>1, <2>2 DEF Settings
  <2>. QED
    BY <2>1, <2>3
<1>. QED
  BY <1>1, <1>2 DEF Snapshots, Memory

\* The gate of the control loop (readyForMutation, checked by advanceRuntime and
\* before a request is read) is enough: no commit is ever refused by
\* captureCommitted and no acknowledgement goes astray, for any capacity of the
\* two queues, any number of revisions, generations and restarts, and any
\* interleaving with the worker.
THEOREM GateSuffices == Spec => []NeverBroken
<1>1. Init => Durable /\ Running
  BY InitHolds, RunningInit
<1>2. (Durable /\ Running) /\ [Next]_vars => (Durable /\ Running)'
  BY StepHolds, RunningStep
<1>3. Durable /\ Running => NeverBroken
  BY DEF Running, NeverBroken
<1>. QED
  BY <1>1, <1>2, <1>3, PTL DEF Spec

\* Settings are all changed, all changed back or all committed (begin,
\* commitApplied, commitFailed and EffectiveSettingsContext.committed), and an
\* open gate means that the worker forwards by the durable generation.
THEOREM SettingsAgree == Spec => []Coherent
<1>1. Init => Durable /\ Running
  BY InitHolds, RunningInit
<1>2. (Durable /\ Running) /\ [Next]_vars => (Durable /\ Running)'
  BY StepHolds, RunningStep
<1>3. Durable /\ Running => Coherent
  BY RunningIsCoherent
<1>. QED
  BY <1>1, <1>2, <1>3, PTL DEF Spec
=============================================================================
