------------------------ MODULE SessionRuntime_proofs ------------------------
(***************************************************************************)
(* Proofs about the control thread and the DATA worker of SessionRuntime,  *)
(* for any number of sessions and owners and any queue capacities.         *)
(*                                                                         *)
(*   Typing                types and capacities                            *)
(*   SingleTransmitter     one DATA sequence space per Node                *)
(*   RetiredForGood        an overtaken install cannot revive a session    *)
(*   RoutesAlwaysFollow    routes and sessions agree                       *)
(*   RevocationHeeded      DATA begun after a retirement heeds it          *)
(*   RetirementsAreUnique  a session is retired once                       *)
(*   NeverBack             DATA does not return to a session it has left   *)
(*   NoOrphans             no session is left that nobody will retire      *)
(***************************************************************************)
EXTENDS SessionRuntime, FiniteSetTheorems, TLAPS

USE SessionsAssumption, OwnersAssumption, CapsAssumption

LEMMA Capacities ==
  /\ CommandCap \in Nat /\ EventCap \in Nat
  /\ RetirementCap \in Nat /\ AckCap \in Nat
OBVIOUS

-----------------------------------------------------------------------------
(* One transmitter per owner                                               *)

\* The typing that the transmission rights rest on.
TableOK ==
  /\ sessions \in [Sessions -> Session]
  /\ commands \in Seq(SessionCommand \cup SnapshotCommand)
  /\ retirements \in Seq(Sessions)

\* A drain only takes sessions out of the table.
LEMMA DrainTable ==
  ASSUME TableOK, Drain
  PROVE  /\ sessions' \in [Sessions -> Session]
         /\ \A s \in Sessions : sessions'[s] = sessions[s] \/ sessions'[s] = NoSession
         /\ \A s \in Range(retirements) : sessions'[s] = NoSession
         /\ Range(retirements) \subseteq Sessions
<1>1. Range(retirements) \subseteq Sessions  BY DEF TableOK, Range
<1>2. NoSession \in Session  BY DEF NoSession, Session
<1> QED  BY <1>1, <1>2 DEF Drain, TableOK

\* What a command taken from the queue can be.
LEMMA HeadCommand ==
  ASSUME TableOK, commands # <<>>
  PROVE  /\ Tail(commands) \in Seq(SessionCommand \cup SnapshotCommand)
         /\ Len(Tail(commands)) = Len(commands) - 1
         /\ Head(commands).kind \in {"install", "confirm"}
              => Head(commands).session \in Sessions
         /\ Head(commands).kind = "snapshot" => Head(commands).owners \subseteq Owners
<1>1. Head(commands) \in SessionCommand \cup SnapshotCommand  BY DEF TableOK
<1> QED  BY <1>1 DEF TableOK, SessionCommand, SnapshotCommand

\* How one step of the worker changes the session table.
LEMMA TableStep ==
  ASSUME TableOK, ProcessCommand
  PROVE  \/ UNCHANGED sessions
         \/ \E s \in Sessions :
              /\ commands # <<>> /\ Head(commands).kind = "install"
              /\ Head(commands).session = s /\ ~Blocked(s)
              /\ sessions' = [sessions EXCEPT ![s] =
                    [live |-> TRUE, confirmed |-> FALSE, transmit |-> TRUE]]
         \/ \E s \in Sessions :
              /\ commands # <<>> /\ Head(commands).kind = "confirm"
              /\ Head(commands).session = s
              /\ sessions[s].live /\ ~sessions[s].confirmed
              /\ sessions' = [t \in Sessions |->
                    IF t = s
                    THEN [live |-> TRUE, confirmed |-> TRUE, transmit |-> TRUE]
                    ELSE IF t \in Superseded(s)
                         THEN [sessions[t] EXCEPT !.transmit = FALSE]
                         ELSE sessions[t]]
<1> DEFINE c == Head(commands)
<1>1. CASE c.kind = "install" /\ Install(c.session)
  <2>1. c.session \in Sessions  BY <1>1, HeadCommand DEF ProcessCommand
  <2>2. CASE UNCHANGED sessions  BY <2>2
  <2>3. CASE /\ ~Blocked(c.session)
             /\ sessions' = [sessions EXCEPT ![c.session] =
                   [live |-> TRUE, confirmed |-> FALSE, transmit |-> TRUE]]
    BY <1>1, <2>1, <2>3 DEF ProcessCommand
  <2> QED  BY <1>1, <2>2, <2>3 DEF Install
<1>2. CASE c.kind = "confirm" /\ Confirm(c.session)
  <2>1. commands # <<>> /\ c.session \in Sessions
    BY <1>2, HeadCommand DEF ProcessCommand
  <2> QED  BY <1>2, <2>1 DEF Confirm
<1>3. CASE c.kind = "snapshot" /\ InstallSnapshot(c.owners)
  BY <1>3 DEF InstallSnapshot
<1> QED  BY <1>1, <1>2, <1>3 DEF ProcessCommand

\* Actions that leave the worker's table alone.
LEMMA OtherSteps ==
  ASSUME Next, ~BeginPass, ~ProcessCommand, ~BeginPacket
  PROVE  UNCHANGED sessions
BY DEF Next, CoordinatorCall, Control, Pass, Traffic, Packet, Register,
       ConfirmAsInitiator, Abort, MakeReceiveOnly, Publish, OnEvent, TakeAck,
       Tick, EndPass, Wake, SendProbe, SendData, ReceivePacket, DropPacket, workerVars

\* How one step of the whole system changes it.
LEMMA SessionsStep ==
  ASSUME TableOK, [Next]_vars
  PROVE  \/ UNCHANGED sessions
         \/ Drain
         \/ ProcessCommand
<1>1. CASE BeginPass  BY <1>1 DEF BeginPass
<1>2. CASE BeginPacket  BY <1>2 DEF BeginPacket, RetirementsBeforePacket
<1>3. CASE UNCHANGED vars  BY <1>3 DEF vars, workerVars
<1> QED  BY <1>1, <1>2, <1>3, OtherSteps

LEMMA OneTransmitterStep ==
  ASSUME TableOK, OneTransmitter, [Next]_vars
  PROVE  OneTransmitter'
<1>1. CASE UNCHANGED sessions  BY <1>1 DEF OneTransmitter, Transmits
<1>2. CASE Drain
  <2>1. \A s \in Sessions : sessions'[s] = sessions[s] \/ sessions'[s] = NoSession
    BY <1>2, DrainTable
  <2>2. \A s \in Sessions : Transmits(s)' => Transmits(s)
    BY <2>1 DEF Transmits, NoSession
  <2> QED  BY <2>2 DEF OneTransmitter
<1>3. CASE ProcessCommand
  <2>1. ASSUME NEW s \in Sessions,
               sessions' = [sessions EXCEPT ![s] =
                  [live |-> TRUE, confirmed |-> FALSE, transmit |-> TRUE]]
        PROVE  OneTransmitter'
    <3>1. /\ ~Transmits(s)'
          /\ \A t \in Sessions \ {s} : Transmits(t)' = Transmits(t)
      BY <2>1 DEF Transmits, TableOK
    <3> QED  BY <3>1 DEF OneTransmitter
  <2>2. ASSUME NEW s \in Sessions,
               sessions' = [t \in Sessions |->
                    IF t = s
                    THEN [live |-> TRUE, confirmed |-> TRUE, transmit |-> TRUE]
                    ELSE IF t \in Superseded(s)
                         THEN [sessions[t] EXCEPT !.transmit = FALSE]
                         ELSE sessions[t]]
        PROVE  OneTransmitter'
    <3>1. \A t \in Superseded(s) : ~Transmits(t)'
      BY <2>2 DEF Transmits, Superseded, TableOK, Session
    <3>2. \A t \in Sessions \ (Superseded(s) \cup {s}) :
            sessions'[t] = sessions[t] /\ OwnerOf[t] # OwnerOf[s]
      BY <2>2 DEF Superseded
    <3> QED  BY <3>1, <3>2 DEF OneTransmitter, Transmits, Superseded
  <2> QED  BY <1>3, <1>1, <2>1, <2>2, TableStep
<1> QED  BY <1>1, <1>2, <1>3, SessionsStep

-----------------------------------------------------------------------------
(* The choice of rebindOwner                                               *)

Sends(table, s) == table[s].confirmed /\ table[s].transmit

\* The binding r is the right one for owner o.
Follows(table, o, r) ==
  /\ r \in Candidates(table, o) \cup {0}
  /\ r = 0 => Candidates(table, o) = {}

\* With at most one candidate the choice is determined.
LEMMA SelectedFollows ==
  ASSUME NEW table, NEW o,
         \A s, t \in Sessions : Sends(table, s) /\ Sends(table, t)
           /\ OwnerOf[s] = OwnerOf[t] => s = t
  PROVE  Follows(table, o, Selected(table, o))
<1>1. 0 \notin Candidates(table, o)  BY DEF Candidates
<1>2. CASE Candidates(table, o) = {}  BY <1>2 DEF Selected, Follows
<1>3. ASSUME NEW s \in Candidates(table, o)
      PROVE  Follows(table, o, Selected(table, o))
  <2>1. \A t \in Candidates(table, o) : t = s
    BY DEF Candidates, Sends
  <2>2. CreatedNs[s] \in Nat /\ s \in Nat  BY DEF Candidates
  <2>3. \A t \in Candidates(table, o) :
          \/ CreatedNs[t] < CreatedNs[s]
          \/ CreatedNs[t] = CreatedNs[s] /\ t <= s
    BY <2>1, <2>2
  <2>4. Selected(table, o) \in Candidates(table, o)  BY <2>3 DEF Selected
  <2> QED  BY <2>4, <1>1 DEF Follows
<1> QED  BY <1>2, <1>3

\* Rebinding the owners in os repairs a binding that is right for the others.
LEMMA RebindFollows ==
  ASSUME NEW table, NEW bound, NEW os,
         \A s, t \in Sessions : Sends(table, s) /\ Sends(table, t)
           /\ OwnerOf[s] = OwnerOf[t] => s = t,
         \A o \in DOMAIN bound \ os : Follows(table, o, bound[o])
  PROVE  /\ DOMAIN Rebind(table, bound, os) = DOMAIN bound
         /\ \A o \in DOMAIN bound : Follows(table, o, Rebind(table, bound, os)[o])
BY SelectedFollows DEF Rebind

-----------------------------------------------------------------------------
(* Types and capacities                                                    *)

LEMMA RangeOfQueue ==
  ASSUME NEW S, NEW q \in Seq(S)
  PROVE  Range(q) \subseteq S
BY DEF Range

\* Every update of a peer keeps it a peer.
LEMMA PeerUpdates ==
  ASSUME TypeOK, NEW s \in Sessions
  PROVE  /\ NoPeer \in Peer /\ NewPeer \in Peer
         /\ [peers[s] EXCEPT !.transmit = FALSE] \in Peer
         /\ [peers[s] EXCEPT !.state = "online"] \in Peer
         /\ peers[s].removalQueued \in BOOLEAN
<1>1. NoPeer \in Peer /\ NewPeer \in Peer
  BY DEF Peer, PeerStates, NoPeer, NewPeer
<1>2. peers[s] \in Peer  BY DEF TypeOK
<1>3. \A p \in Peer : /\ [p EXCEPT !.transmit = FALSE] \in Peer
                      /\ [p EXCEPT !.state = "online"] \in Peer
                      /\ p.removalQueued \in BOOLEAN
  BY DEF Peer, PeerStates
<1> QED  BY <1>1, <1>2, <1>3

LEMMA SubmitType ==
  ASSUME TypeOK, NEW c \in SessionCommand \cup SnapshotCommand, Submit(c)
  PROVE  /\ commands' \in Seq(SessionCommand \cup SnapshotCommand)
         /\ Len(commands') <= CommandCap
BY DEF TypeOK, Submit

LEMMA RegisterType == ASSUME TypeOK, NEW s \in Sessions, Register(s) PROVE TypeOK'
<1>1. Command("install", s) \in SessionCommand  BY DEF Command, SessionCommand
<1>2. /\ commands' \in Seq(SessionCommand \cup SnapshotCommand)
      /\ Len(commands') <= CommandCap
  BY <1>1, SubmitType DEF Register
<1>3. peers' \in [Sessions -> Peer] /\ newest' \in [Owners -> Sessions \cup {0}]
  BY PeerUpdates DEF TypeOK, Register
<1>4. registered' \subseteq Sessions  BY DEF TypeOK, Register
<1> QED
  BY <1>2, <1>3, <1>4 DEF TypeOK, Register, workerVars, historyVars

LEMMA RetireType ==
  ASSUME TypeOK, NEW s \in Sessions, Len(retirements) < RetirementCap
  PROVE  /\ Append(retirements, s) \in Seq(Sessions)
         /\ Len(Append(retirements, s)) <= RetirementCap
BY DEF TypeOK

LEMMA CallType ==
  ASSUME TypeOK, NEW s \in Sessions,
         ConfirmAsInitiator(s) \/ Abort(s) \/ MakeReceiveOnly(s)
  PROVE  TypeOK'
<1>1. CASE ConfirmAsInitiator(s)
  <2>1. Command("confirm", s) \in SessionCommand  BY DEF Command, SessionCommand
  <2>2. /\ commands' \in Seq(SessionCommand \cup SnapshotCommand)
        /\ Len(commands') <= CommandCap
    BY <1>1, <2>1, SubmitType DEF ConfirmAsInitiator
  <2>3. peers' \in [Sessions -> Peer]
    BY <1>1, PeerUpdates DEF TypeOK, ConfirmAsInitiator
  <2> QED
    BY <1>1, <2>2, <2>3 DEF TypeOK, ConfirmAsInitiator, workerVars, historyVars
<1>2. CASE Abort(s)
  <2>1. peers' \in [Sessions -> Peer]
    <3>1. PICK p \in Peer : peers' = [peers EXCEPT ![s] = p]
      <4>1. NoPeer \in Peer /\ KeptWhenRefused(s) \in Peer
        BY PeerUpdates DEF KeptWhenRefused
      <4> QED  BY <1>2, <4>1 DEF Abort
    <3> QED  BY <3>1 DEF TypeOK
  <2>2. /\ retirements' \in Seq(Sessions)
        /\ Len(retirements') <= RetirementCap
    <3>1. CASE UNCHANGED retirements  BY <3>1 DEF TypeOK
    <3>2. CASE /\ Len(retirements) < RetirementCap
               /\ retirements' = Append(retirements, s)
      BY <3>2, RetireType
    <3> QED  BY <1>2, <3>1, <3>2 DEF Abort
  <2> QED  BY <1>2, <2>1, <2>2 DEF TypeOK, Abort, workerVars, historyVars
<1>3. CASE MakeReceiveOnly(s)
  <2>1. peers' \in [Sessions -> Peer]
    BY <1>3, PeerUpdates DEF TypeOK, MakeReceiveOnly
  <2> QED
    BY <1>3, <2>1 DEF TypeOK, MakeReceiveOnly, queueVars, workerVars, historyVars
<1> QED  BY <1>1, <1>2, <1>3

LEMMA PublishType ==
  ASSUME TypeOK, NEW R \in SUBSET Owners, Publish(R)
  PROVE  TypeOK'
<1>1. [kind |-> "snapshot", owners |-> R] \in SnapshotCommand
  BY DEF SnapshotCommand
<1>2. /\ commands' \in Seq(SessionCommand \cup SnapshotCommand)
      /\ Len(commands') <= CommandCap
  BY <1>1, SubmitType DEF Publish
<1> QED  BY <1>2 DEF TypeOK, Publish, workerVars, historyVars

LEMMA GoOfflineType ==
  ASSUME TypeOK, NEW s \in Sessions, GoOffline(s)
  PROVE  /\ peers' \in [Sessions -> Peer]
         /\ retirements' \in Seq(Sessions)
         /\ Len(retirements') <= RetirementCap
<1> DEFINE accepted == Owed(s) /\ Len(retirements) < RetirementCap
           queued == peers[s].removalQueued \/ accepted
           p == [state |-> "offline", transmit |-> FALSE, removalQueued |-> queued]
<1>1. peers' \in [Sessions -> Peer]
  <2>1. p \in Peer  BY DEF Peer, PeerStates
  <2>2. peers' = [peers EXCEPT ![s] = p]  BY DEF GoOffline
  <2> HIDE DEF p
  <2> QED  BY <2>1, <2>2 DEF TypeOK
<1>2. retirements' \in Seq(Sessions) /\ Len(retirements') <= RetirementCap
  <2>1. CASE accepted  BY <2>1, RetireType DEF GoOffline
  <2>2. CASE ~accepted  BY <2>2 DEF TypeOK, GoOffline
  <2> QED  BY <2>1, <2>2
<1> QED  BY <1>1, <1>2

LEMMA OnEventType == ASSUME TypeOK, OnEvent PROVE TypeOK'
<1> DEFINE s == Head(events).session
<1>1. /\ s \in Sessions
      /\ events' \in Seq(Event) /\ Len(events') <= EventCap
  <2>1. events \in Seq(Event) /\ events # <<>> /\ Len(events) <= EventCap
    BY DEF TypeOK, OnEvent
  <2>2. Head(events) \in Event  BY <2>1
  <2> QED  BY <2>1, <2>2 DEF OnEvent, Event
<1>2. /\ peers' \in [Sessions -> Peer]
      /\ commands' \in Seq(SessionCommand \cup SnapshotCommand)
      /\ Len(commands') <= CommandCap
      /\ retirements' \in Seq(Sessions)
      /\ Len(retirements') <= RetirementCap
  <2>1. CASE peers' = [peers EXCEPT ![s] = NoPeer] /\ UNCHANGED <<commands, retirements>>
    BY <2>1, <1>1, PeerUpdates DEF TypeOK
  <2>2. CASE OnSessionConfirm(s)
    <3>1. Command("confirm", s) \in SessionCommand
      BY <1>1 DEF Command, SessionCommand
    <3>2. peers' \in [Sessions -> Peer]
      BY <2>2, <1>1, PeerUpdates DEF TypeOK, OnSessionConfirm
    <3> QED  BY <2>2, <3>1, <3>2, SubmitType DEF TypeOK, OnSessionConfirm
  <2>3. CASE OnGoodbye(s)
    BY <2>3, <1>1, GoOfflineType DEF TypeOK, OnGoodbye
  <2>4. CASE UNCHANGED <<commands, peers, retirements>>
    BY <2>4 DEF TypeOK
  <2> QED  BY <2>1, <2>2, <2>3, <2>4 DEF OnEvent
<1> QED  BY <1>1, <1>2 DEF TypeOK, OnEvent, workerVars, historyVars

LEMMA TimerType ==
  ASSUME TypeOK, TakeAck \/ \E s \in Sessions : Tick(s)
  PROVE  TypeOK'
<1>1. CASE TakeAck
  BY <1>1 DEF TypeOK, TakeAck, controlVars, workerVars, historyVars
<1>2. ASSUME NEW s \in Sessions, Tick(s)  PROVE TypeOK'
  BY <1>2, GoOfflineType
  DEF TypeOK, Tick, RetryRetirement, Silence, workerVars, historyVars
<1> QED  BY <1>1, <1>2

\* Bindings chosen for one transmitter per owner are sessions.
LEMMA RebindType ==
  ASSUME NEW bound, NEW os, NEW D, bound \in [D -> Sessions \cup {0}], OneTransmitter'
  PROVE  /\ DOMAIN Rebind(sessions', bound, os) = D
         /\ Rebind(sessions', bound, os) \in [D -> Sessions \cup {0}]
<1>1. \A s, t \in Sessions : Sends(sessions', s) /\ Sends(sessions', t)
           /\ OwnerOf[s] = OwnerOf[t] => s = t
  BY DEF OneTransmitter, Transmits, Sends
<1>2. \A o : Selected(sessions', o) \in Sessions \cup {0}
  BY <1>1, SelectedFollows DEF Follows, Candidates
<1> QED  BY <1>2 DEF Rebind

LEMMA DrainType ==
  ASSUME TypeOK, OneTransmitter', Drain
  PROVE  /\ retirements' \in Seq(Sessions) /\ Len(retirements') <= RetirementCap
         /\ sessions' \in [Sessions -> Session]
         /\ DOMAIN routes' \subseteq Owners
         /\ routes' \in [DOMAIN routes' -> Sessions \cup {0}]
         /\ fences' \subseteq Sessions /\ Cardinality(fences') <= RetirementCap
         /\ overflow' \in BOOLEAN
         /\ retired' \subseteq Sessions
<1>1. TableOK  BY DEF TypeOK, TableOK
<1>2. /\ sessions' \in [Sessions -> Session]
      /\ Range(retirements) \subseteq Sessions
  BY <1>1, DrainTable
<1>3. DOMAIN routes' = DOMAIN routes /\ routes' \in [DOMAIN routes -> Sessions \cup {0}]
  <2>1. PICK os : routes' = Rebind(sessions', routes, os)  BY DEF Drain
  <2> QED  BY <2>1, RebindType DEF TypeOK
<1>4. fences' \subseteq Sessions /\ Cardinality(fences') <= RetirementCap
  BY <1>2 DEF TypeOK, Drain, FencesHold
<1>5. overflow' \in BOOLEAN /\ retired' \subseteq Sessions
  BY <1>2 DEF TypeOK, Drain
<1>6. retirements' \in Seq(Sessions) /\ Len(retirements') <= RetirementCap
  <2>1. retirements' = <<>>  BY DEF Drain
  <2> QED  BY <2>1, Capacities
<1> QED  BY <1>2, <1>3, <1>4, <1>5, <1>6 DEF TypeOK

LEMMA FlushType ==
  ASSUME TypeOK, NEW pending \in BOOLEAN, Flush(pending)
  PROVE  acks' \in 0..AckCap /\ ackPending' \in BOOLEAN
<1>1. CASE pending /\ acks < AckCap
  <2>1. acks' = acks + 1 /\ ackPending' = FALSE  BY <1>1 DEF Flush
  <2>2. acks \in 0..AckCap  BY DEF TypeOK
  <2>3. acks < AckCap  BY <1>1
  <2>4. acks' \in 0..AckCap  BY <2>1, <2>2, <2>3, Capacities
  <2> QED  BY <2>1, <2>4
<1>2. CASE ~(pending /\ acks < AckCap)
  BY <1>2 DEF TypeOK, Flush
<1> QED  BY <1>1, <1>2

LEMMA PushType ==
  ASSUME TypeOK, NEW e \in Event, Push(e)
  PROVE  events' \in Seq(Event) /\ Len(events') <= EventCap
<1>1. CASE events' = events  BY <1>1 DEF TypeOK
<1>2. CASE Len(events) < EventCap /\ events' = Append(events, e)
  BY <1>2, Capacities DEF TypeOK
<1> QED  BY <1>1, <1>2 DEF Push

LEMMA ProcessCommandType ==
  ASSUME TypeOK, OneTransmitter', ProcessCommand
  PROVE  TypeOK'
<1> DEFINE c == Head(commands)
<1>1. TableOK  BY DEF TypeOK, TableOK
<1>2. /\ commands' \in Seq(SessionCommand \cup SnapshotCommand)
      /\ Len(commands') <= CommandCap
  BY <1>1, HeadCommand DEF TypeOK, ProcessCommand
<1>3. \A s \in Sessions : [kind |-> "failed", session |-> s] \in Event
  BY DEF Event
<1>5. /\ \A r \in Session : [r EXCEPT !.transmit = FALSE] \in Session
      /\ [live |-> TRUE, confirmed |-> FALSE, transmit |-> TRUE] \in Session
      /\ [live |-> TRUE, confirmed |-> TRUE, transmit |-> TRUE] \in Session
  BY DEF Session
<1>4. /\ sessions' \in [Sessions -> Session]
      /\ DOMAIN routes' \subseteq Owners
      /\ routes' \in [DOMAIN routes' -> Sessions \cup {0}]
      /\ events' \in Seq(Event) /\ Len(events') <= EventCap
      /\ acks' \in 0..AckCap /\ ackPending' \in BOOLEAN
  <2>1. CASE c.kind = "install" /\ Install(c.session)
    <3>1. c.session \in Sessions  BY <1>1, <2>1, HeadCommand DEF ProcessCommand
    <3>2. sessions' \in [Sessions -> Session]
      <4>1. CASE sessions' = [sessions EXCEPT ![c.session] =
                   [live |-> TRUE, confirmed |-> FALSE, transmit |-> TRUE]]
        BY <1>5, <3>1, <4>1 DEF TypeOK
      <4>2. CASE UNCHANGED sessions  BY <4>2 DEF TypeOK
      <4> QED  BY <2>1, <4>1, <4>2 DEF Install
    <3>3. events' \in Seq(Event) /\ Len(events') <= EventCap
      BY <2>1, <3>1, <1>3, PushType DEF TypeOK, Install
    <3> QED  BY <2>1, <3>2, <3>3 DEF TypeOK, Install
  <2>2. CASE c.kind = "confirm" /\ Confirm(c.session)
    <3>1. c.session \in Sessions  BY <1>1, <2>2, HeadCommand DEF ProcessCommand
    <3>2. sessions' \in [Sessions -> Session]
      <4>1. \A t \in Sessions : /\ sessions[t] \in Session
                               /\ [sessions[t] EXCEPT !.transmit = FALSE] \in Session
        BY <1>5 DEF TypeOK
      <4> QED  BY <1>5, <2>2, <3>1, <4>1 DEF TypeOK, Confirm
    <3>3. DOMAIN routes' \subseteq Owners /\ routes' \in [DOMAIN routes' -> Sessions \cup {0}]
      <4>1. CASE routes' = Rebind(sessions', routes, {OwnerOf[c.session]})
        BY <4>1, RebindType DEF TypeOK
      <4> QED  BY <2>2, <4>1 DEF TypeOK, Confirm
    <3>4. events' \in Seq(Event) /\ Len(events') <= EventCap
      BY <2>2, <3>1, <1>3, PushType DEF TypeOK, Confirm
    <3> QED  BY <2>2, <3>2, <3>3, <3>4 DEF TypeOK, Confirm
  <2>3. CASE c.kind = "snapshot" /\ InstallSnapshot(c.owners)
    <3>1. c.owners \subseteq Owners  BY <1>1, <2>3, HeadCommand DEF ProcessCommand
    <3>2. DOMAIN routes' = c.owners /\ routes' \in [c.owners -> Sessions \cup {0}]
      <4>1. sessions' = sessions  BY <2>3 DEF InstallSnapshot
      <4>2. routes' = Rebind(sessions', [o \in c.owners |-> 0], c.owners)
        BY <2>3, <4>1 DEF InstallSnapshot, RoutesBound
      <4> QED  BY <4>2, RebindType
    <3> QED  BY <2>3, <3>1, <3>2, FlushType DEF TypeOK, InstallSnapshot
  <2> QED  BY <2>1, <2>2, <2>3 DEF ProcessCommand
<1> QED
  BY <1>2, <1>4 DEF TypeOK, ProcessCommand, controlVars, historyVars

LEMMA RetirementsTyped ==
  ASSUME TypeOK  PROVE retired \cup Range(retirements) \subseteq Sessions
BY DEF TypeOK, Range

LEMMA PassType ==
  ASSUME TypeOK, OneTransmitter', BeginPass \/ EndPass \/ Wake
  PROVE  TypeOK'
<1>1. CASE BeginPass
  BY <1>1, DrainType, FlushType, RetirementsTyped DEF TypeOK, BeginPass, controlVars
<1>2. CASE EndPass
  <2>1. fences' \subseteq Sessions /\ Cardinality(fences') <= RetirementCap
    <3>1. CASE UNCHANGED fences  BY <3>1 DEF TypeOK
    <3>2. CASE fences' = {}  BY <3>2, FS_EmptySet, Capacities
    <3> QED  BY <1>2, <3>1, <3>2 DEF EndPass
  <2> QED
    BY <1>2, <2>1 DEF TypeOK, EndPass, controlVars, queueVars, historyVars
<1>3. CASE Wake
  BY <1>3 DEF TypeOK, Wake, controlVars, queueVars, historyVars
<1> QED  BY <1>1, <1>2, <1>3

LEMMA TransmitType ==
  ASSUME TypeOK, NEW o \in Owners, NEW s \in Sessions, Transmit(o, s)
  PROVE  lastSent' \in [Owners -> Sessions \cup {0}] /\ replaced' \subseteq Sessions
BY DEF TypeOK, Transmit

LEMMA TrafficType ==
  ASSUME TypeOK, OneTransmitter', Traffic
  PROVE  TypeOK'
<1>1. CASE BeginPacket
  BY <1>1, DrainType, RetirementsTyped
  DEF TypeOK, BeginPacket, RetirementsBeforePacket, controlVars
<1>2. ASSUME NEW o \in Owners, SendProbe(o)  PROVE TypeOK'
  <2>1. lastSent' \in [Owners -> Sessions \cup {0}] /\ replaced' \subseteq Sessions
    BY <1>2, TransmitType DEF SendProbe
  <2> QED  BY <1>2, <2>1 DEF TypeOK, SendProbe, controlVars, queueVars, workerVars
<1>3. ASSUME NEW o \in Owners, SendData(o)  PROVE TypeOK'
  <2>1. lastSent' \in [Owners -> Sessions \cup {0}] /\ replaced' \subseteq Sessions
    BY <1>3, TransmitType DEF SendData
  <2> QED  BY <1>3, <2>1 DEF TypeOK, SendData, controlVars, queueVars
<1>4. ASSUME NEW s \in Sessions, ReceivePacket(s)  PROVE TypeOK'
  <2>1. \A frame \in Frames : [kind |-> frame, session |-> s] \in Event
    BY DEF Event
  <2>2. events' \in Seq(Event) /\ Len(events') <= EventCap
    BY <1>4, <2>1, PushType DEF ReceivePacket
  <2> QED  BY <1>4, <2>2 DEF TypeOK, ReceivePacket, controlVars, historyVars
<1>5. CASE DropPacket
  BY <1>5 DEF TypeOK, DropPacket, controlVars, queueVars, historyVars
<1> QED  BY <1>1, <1>2, <1>3, <1>4, <1>5 DEF Traffic, Packet

LEMMA TypeStep ==
  ASSUME TypeOK, OneTransmitter', [Next]_vars
  PROVE  TypeOK'
<1>1. CASE UNCHANGED vars
  BY <1>1 DEF TypeOK, vars, controlVars, queueVars, workerVars, historyVars
<1> QED
  BY <1>1, RegisterType, CallType, PublishType, OnEventType, TimerType,
     ProcessCommandType, PassType, TrafficType
  DEF Next, CoordinatorCall, Control, Pass

TypingInv == TypeOK /\ OneTransmitter

LEMMA TypingInvInit == Init => TypingInv
<1> SUFFICES ASSUME Init PROVE TypingInv
  OBVIOUS
<1>1. TypeOK
  <2>1. NoPeer \in Peer /\ NoSession \in Session
    BY DEF NoPeer, Peer, PeerStates, NoSession, Session
  <2>2. DOMAIN routes \subseteq Owners /\ routes \in [DOMAIN routes -> Sessions \cup {0}]
    BY DEF Init
  <2>3. Cardinality(fences) = 0  BY FS_EmptySet DEF Init
  <2>4. /\ commands \in Seq(SessionCommand \cup SnapshotCommand)
        /\ Len(commands) <= CommandCap
        /\ retirements \in Seq(Sessions) /\ Len(retirements) <= RetirementCap
        /\ events \in Seq(Event) /\ Len(events) <= EventCap
        /\ acks \in 0..AckCap /\ published \in 0..MaxPublications
    BY Capacities DEF Init
  <2> QED  BY <2>1, <2>2, <2>3, <2>4, Capacities DEF Init, TypeOK
<1>2. OneTransmitter
  BY DEF Init, OneTransmitter, Transmits, NoSession
<1> QED  BY <1>1, <1>2 DEF TypingInv

LEMMA TypingInvStep == TypingInv /\ [Next]_vars => TypingInv'
<1> SUFFICES ASSUME TypingInv, [Next]_vars PROVE TypingInv'
  OBVIOUS
<1>1. TableOK  BY DEF TypingInv, TypeOK, TableOK
<1>2. OneTransmitter'  BY <1>1, OneTransmitterStep DEF TypingInv
<1> QED  BY <1>2, TypeStep DEF TypingInv

\* Types hold, and no queue or fence array outgrows its capacity.
THEOREM Typing == Spec => []TypeOK
<1>1. TypingInv => TypeOK  BY DEF TypingInv
<1> QED  BY <1>1, TypingInvInit, TypingInvStep, PTL DEF Spec

\* Whatever the order of confirmations, retirements and removals, a Node has
\* one session that DATA may leave on.
THEOREM SingleTransmitter == Spec => []OneTransmitter
<1>1. TypingInv => OneTransmitter  BY DEF TypingInv
<1> QED  BY <1>1, TypingInvInit, TypingInvStep, PTL DEF Spec

-----------------------------------------------------------------------------
(* Retired sessions                                                        *)

\* An install command for s waits at place i of the command queue.
InstallAt(i, s) == i \in 1..Len(commands) /\ commands[i] = Command("install", s)

\* A session is installed at most once, and everything that exists of it was
\* registered.
FreshInstalls ==
  /\ \A s \in Sessions : sessions[s].live \/ HasPeer(s) => s \in registered
  /\ Range(retirements) \cup retired \subseteq registered
  /\ \A s \in Sessions, i \in Nat :
       InstallAt(i, s) => s \in registered /\ ~sessions[s].live
  /\ \A s \in Sessions, i, j \in Nat : InstallAt(i, s) /\ InstallAt(j, s) => i = j

\* A retired session is gone, and an install of it still queued is fenced off.
Fenced ==
  \A s \in retired :
    /\ ~sessions[s].live
    /\ \A i \in Nat : InstallAt(i, s) => Blocked(s)

\* What the steps do to the queued installs.
LEMMA SubmitInstalls ==
  ASSUME TypeOK, NEW c, Submit(c)
  PROVE  \A s \in Sessions, i \in Nat :
           InstallAt(i, s)' =>
             InstallAt(i, s) \/ (i = Len(commands) + 1 /\ c = Command("install", s))
BY DEF TypeOK, Submit, InstallAt, Command

LEMMA TailInstalls ==
  ASSUME TypeOK, commands # <<>>, commands' = Tail(commands)
  PROVE  /\ \A s \in Sessions, i \in Nat : InstallAt(i, s)' => InstallAt(i + 1, s)
         /\ \A s \in Sessions :
              Head(commands) = Command("install", s) => InstallAt(1, s)
<1> DEFINE S == SessionCommand \cup SnapshotCommand
<1>1. /\ commands \in Seq(S) /\ Len(commands) \in Nat \ {0}
      /\ Head(commands) = commands[1]
      /\ commands' \in Seq(S) /\ Len(commands') = Len(commands) - 1
      /\ \A i \in 1..Len(commands') : commands'[i] = commands[i + 1]
  BY DEF TypeOK
<1> HIDE DEF S
<1> QED  BY <1>1 DEF InstallAt

LEMMA RangeAppend ==
  ASSUME NEW S, NEW q \in Seq(S), NEW e \in S
  PROVE  Range(Append(q, e)) = Range(q) \cup {e}
<1>1. Append(q, e) \in Seq(S) /\ Len(Append(q, e)) = Len(q) + 1  OBVIOUS
<1>2. /\ \A i \in 1..Len(q) : Append(q, e)[i] = q[i]
      /\ Append(q, e)[Len(q) + 1] = e
  OBVIOUS
<1> QED  BY <1>1, <1>2 DEF Range

\* A retirement is queued for an existing peer only, and peers only go.
LEMMA ControlStep ==
  ASSUME TypeOK, OnEvent \/ \E s \in Sessions : Tick(s) \/ Abort(s)
  PROVE  /\ \A s \in Sessions : HasPeer(s)' => HasPeer(s)
         /\ \A s \in Range(retirements') :
              s \in Range(retirements) \/ (s \in Sessions /\ HasPeer(s))
         /\ \A s \in Sessions, i \in Nat : InstallAt(i, s)' => InstallAt(i, s)
         /\ UNCHANGED <<sessions, registered, retired, fences, overflow>>
<1>1. ASSUME NEW s \in Sessions, GoOffline(s), HasPeer(s)
      PROVE  /\ \A t \in Sessions : HasPeer(t)' => HasPeer(t)
             /\ \A t \in Range(retirements') : t \in Range(retirements) \cup {s}
  <2>1. \A t \in Sessions : HasPeer(t)' => HasPeer(t)
    BY <1>1 DEF GoOffline, HasPeer, TypeOK
  <2>2. CASE UNCHANGED retirements  BY <2>1, <2>2
  <2>3. CASE retirements' = Append(retirements, s)
    BY <2>1, <2>3, RangeAppend DEF TypeOK
  <2> QED  BY <1>1, <2>2, <2>3 DEF GoOffline
<1>2. ASSUME NEW s \in Sessions, Tick(s)
      PROVE  /\ \A t \in Sessions : HasPeer(t)' => HasPeer(t)
             /\ \A t \in Range(retirements') :
                  t \in Range(retirements) \/ (t \in Sessions /\ HasPeer(t))
             /\ UNCHANGED <<commands, sessions, registered, retired, fences, overflow>>
  <2>1. HasPeer(s)  BY <1>2 DEF Tick, RetryRetirement, Silence, HasPeer
  <2>2. GoOffline(s)  BY <1>2 DEF Tick, RetryRetirement, Silence
  <2> QED  BY <1>1, <1>2, <2>1, <2>2 DEF Tick, workerVars, historyVars
<1>3. ASSUME NEW s \in Sessions, Abort(s)
      PROVE  /\ \A t \in Sessions : HasPeer(t)' => HasPeer(t)
             /\ \A t \in Range(retirements') :
                  t \in Range(retirements) \/ (t \in Sessions /\ HasPeer(t))
             /\ UNCHANGED <<commands, sessions, registered, retired, fences, overflow>>
  <2>1. \A t \in Sessions : HasPeer(t)' => HasPeer(t)
    BY <1>3 DEF Abort, HasPeer, TypeOK
  <2>2. CASE UNCHANGED retirements
    BY <1>3, <2>1, <2>2 DEF Abort, workerVars, historyVars
  <2>3. CASE retirements' = Append(retirements, s)
    BY <1>3, <2>1, <2>3, RangeAppend DEF TypeOK, Abort, workerVars, historyVars
  <2> QED  BY <1>3, <2>2, <2>3 DEF Abort
<1>4. ASSUME OnEvent
      PROVE  /\ \A t \in Sessions : HasPeer(t)' => HasPeer(t)
             /\ \A t \in Range(retirements') :
                  t \in Range(retirements) \/ (t \in Sessions /\ HasPeer(t))
             /\ UNCHANGED <<sessions, registered, retired, fences, overflow>>
             /\ \A t \in Sessions, i \in Nat : InstallAt(i, t)' => InstallAt(i, t)
  <2> DEFINE s == Head(events).session
  <2>1. s \in Sessions
    <3>1. Head(events) \in Event  BY <1>4 DEF TypeOK, OnEvent
    <3> QED  BY <3>1 DEF Event
  <2>2. UNCHANGED <<sessions, registered, retired, fences, overflow>>
    BY <1>4 DEF OnEvent, workerVars, historyVars
  <2>3. CASE /\ peers' = [peers EXCEPT ![s] = NoPeer]
             /\ UNCHANGED <<commands, retirements>>
    BY <2>1, <2>2, <2>3 DEF TypeOK, HasPeer, NoPeer, InstallAt
  <2>4. CASE HasPeer(s) /\ OnSessionConfirm(s)
    <3>1. \A t \in Sessions : HasPeer(t)' => HasPeer(t)
      BY <2>1, <2>4 DEF TypeOK, HasPeer, OnSessionConfirm
    <3>2. \A t \in Sessions, i \in Nat : InstallAt(i, t)' => InstallAt(i, t)
      <4>1. \A t \in Sessions : Command("confirm", s) # Command("install", t)
        BY DEF Command
      <4> QED  BY <2>4, <4>1, SubmitInstalls DEF OnSessionConfirm
    <3> QED  BY <2>2, <2>4, <3>1, <3>2 DEF OnSessionConfirm
  <2>5. CASE HasPeer(s) /\ OnGoodbye(s)
    BY <2>1, <2>2, <2>5, <1>1 DEF OnGoodbye, InstallAt
  <2>6. CASE UNCHANGED <<commands, peers, retirements>>
    BY <2>2, <2>6 DEF HasPeer, InstallAt
  <2> QED  BY <1>4, <2>3, <2>4, <2>5, <2>6 DEF OnEvent
<1>5. UNCHANGED commands => \A s \in Sessions, i \in Nat : InstallAt(i, s)' => InstallAt(i, s)
  BY DEF InstallAt
<1> QED  BY <1>2, <1>3, <1>4, <1>5

\* Steps that neither install, retire nor fence anything.
Idle ==
  /\ UNCHANGED <<sessions, routes, retirements, registered, retired, fences, overflow>>
  /\ \A s \in Sessions : /\ HasPeer(s)' <=> HasPeer(s)
                         /\ peers'[s].removalQueued = peers[s].removalQueued
  /\ \A s \in Sessions, i \in Nat : InstallAt(i, s)' => InstallAt(i, s)

LEMMA StepKinds ==
  ASSUME TypeOK, [Next]_vars
  PROVE  \/ \E s \in Sessions : Register(s)
         \/ OnEvent \/ \E s \in Sessions : Tick(s) \/ Abort(s)
         \/ Drain /\ UNCHANGED <<commands, peers, registered>>
         \/ ProcessCommand
         \/ EndPass
         \/ Idle
<1>1. ASSUME NEW s \in Sessions, ConfirmAsInitiator(s)  PROVE Idle
  <2>1. \A t \in Sessions : Command("confirm", s) # Command("install", t)
    BY DEF Command
  <2>2. \A t \in Sessions, i \in Nat : InstallAt(i, t)' => InstallAt(i, t)
    BY <1>1, <2>1, SubmitInstalls DEF ConfirmAsInitiator
  <2>3. \A t \in Sessions : /\ HasPeer(t)' <=> HasPeer(t)
                             /\ peers'[t].removalQueued = peers[t].removalQueued
    <3>1. peers[s] \in Peer  BY DEF TypeOK
    <3> QED  BY <1>1, <3>1 DEF TypeOK, ConfirmAsInitiator, HasPeer, Peer
  <2> QED  BY <1>1, <2>2, <2>3 DEF Idle, ConfirmAsInitiator, workerVars, historyVars
<1>2. ASSUME NEW s \in Sessions, MakeReceiveOnly(s)  PROVE Idle
  <2>1. \A t \in Sessions : /\ HasPeer(t)' <=> HasPeer(t)
                             /\ peers'[t].removalQueued = peers[t].removalQueued
    <3>1. peers[s] \in Peer  BY DEF TypeOK
    <3> QED  BY <1>2, <3>1 DEF TypeOK, MakeReceiveOnly, HasPeer, Peer
  <2> QED
    BY <1>2, <2>1 DEF Idle, MakeReceiveOnly, InstallAt, queueVars, workerVars, historyVars
<1>3. ASSUME NEW R \in SUBSET Owners, Publish(R)  PROVE Idle
  <2>1. \A t \in Sessions : [kind |-> "snapshot", owners |-> R] # Command("install", t)
    <3>1. ASSUME NEW t \in Sessions,
                 [kind |-> "snapshot", owners |-> R] = Command("install", t)
          PROVE  FALSE
      <4>1. [kind |-> "snapshot", owners |-> R].kind = Command("install", t).kind
        BY <3>1
      <4> QED  BY <4>1 DEF Command
    <3> QED  BY <3>1
  <2>2. \A t \in Sessions, i \in Nat : InstallAt(i, t)' => InstallAt(i, t)
    BY <1>3, <2>1, SubmitInstalls DEF Publish
  <2> QED  BY <1>3, <2>2 DEF Idle, Publish, HasPeer, workerVars, historyVars
<1>4. CASE TakeAck \/ Wake \/ UNCHANGED vars
  BY <1>4 DEF Idle, TakeAck, Wake, InstallAt, HasPeer, vars, controlVars, queueVars,
              workerVars, historyVars
<1>5. CASE BeginPass \/ BeginPacket
  BY <1>5 DEF BeginPass, BeginPacket, RetirementsBeforePacket, controlVars
<1>6. CASE Packet \/ \E o \in Owners : SendProbe(o)
  BY <1>6 DEF Idle, Packet, SendProbe, SendData, ReceivePacket, DropPacket, InstallAt,
              HasPeer, controlVars, queueVars, workerVars, historyVars
<1> QED
  BY <1>1, <1>2, <1>3, <1>4, <1>5, <1>6 DEF Next, CoordinatorCall, Control, Pass, Traffic

LEMMA FreshStep ==
  ASSUME TypingInv, FreshInstalls, [Next]_vars
  PROVE  FreshInstalls'
<1> USE DEF TypingInv
<1>1. TableOK  BY DEF TypeOK, TableOK
<1>2. ASSUME NEW s \in Sessions, Register(s)  PROVE FreshInstalls'
  <2>1. /\ UNCHANGED <<sessions, retirements, retired>>
        /\ registered' = registered \cup {s} /\ s \notin registered
        /\ \A t \in Sessions \ {s} : HasPeer(t)' = HasPeer(t)
    BY <1>2 DEF TypeOK, Register, HasPeer, workerVars, historyVars
  <2>2. \A t \in Sessions, i \in Nat :
          InstallAt(i, t)' => InstallAt(i, t) \/ (t = s /\ i = Len(commands) + 1)
    BY <1>2, SubmitInstalls DEF Register, Command
  <2> QED  BY <2>1, <2>2 DEF FreshInstalls
<1>3. CASE OnEvent \/ \E s \in Sessions : Tick(s) \/ Abort(s)
  BY <1>3, ControlStep DEF FreshInstalls
<1>4. CASE Drain /\ UNCHANGED <<commands, peers, registered>>
  <2>1. \A s \in Sessions : sessions'[s].live => sessions[s].live
    BY <1>1, <1>4, DrainTable DEF NoSession
  <2>2. Range(retirements') = {} /\ retired' = retired \cup Range(retirements)
    BY <1>4 DEF Drain, Range
  <2> QED  BY <1>4, <2>1, <2>2 DEF FreshInstalls, InstallAt, HasPeer
<1>5. CASE ProcessCommand
  <2>1. /\ commands # <<>> /\ commands' = Tail(commands)
        /\ UNCHANGED <<peers, registered, retirements, retired>>
    BY <1>5 DEF ProcessCommand, controlVars, historyVars
  <2>2. /\ \A s \in Sessions, i \in Nat : InstallAt(i, s)' => InstallAt(i + 1, s)
        /\ \A s \in Sessions : Head(commands) = Command("install", s) => InstallAt(1, s)
    BY <2>1, TailInstalls
  <2>3. \A s \in Sessions : sessions'[s].live /\ ~sessions[s].live =>
          InstallAt(1, s)
    <3>1. ASSUME NEW s \in Sessions, commands # <<>>,
                 Head(commands).kind = "install", Head(commands).session = s
          PROVE  Head(commands) = Command("install", s)
      <4>1. Head(commands) \in SessionCommand \cup SnapshotCommand
        BY <3>1 DEF TypeOK
      <4> QED  BY <3>1, <4>1 DEF SessionCommand, SnapshotCommand, Command
    <3>2. CASE UNCHANGED sessions  BY <3>2
    <3>3. ASSUME NEW s \in Sessions, commands # <<>>,
                 Head(commands).kind = "install", Head(commands).session = s,
                 sessions' = [sessions EXCEPT ![s] =
                    [live |-> TRUE, confirmed |-> FALSE, transmit |-> TRUE]]
          PROVE  \A t \in Sessions : sessions'[t].live /\ ~sessions[t].live =>
                   InstallAt(1, t)
      BY <2>2, <3>1, <3>3 DEF TypeOK
    <3>4. ASSUME NEW s \in Sessions, sessions[s].live,
                 sessions' = [t \in Sessions |->
                    IF t = s
                    THEN [live |-> TRUE, confirmed |-> TRUE, transmit |-> TRUE]
                    ELSE IF t \in Superseded(s)
                         THEN [sessions[t] EXCEPT !.transmit = FALSE]
                         ELSE sessions[t]]
          PROVE  \A t \in Sessions : sessions'[t].live => sessions[t].live
      <4>1. \A t \in Sessions :
              [sessions[t] EXCEPT !.transmit = FALSE].live = sessions[t].live
        BY DEF TypeOK, Session
      <4> QED  BY <3>4, <4>1
    <3> QED  BY <1>1, <1>5, <3>2, <3>3, <3>4, TableStep
  <2>4. \A s \in Sessions, i \in Nat : InstallAt(i, s)' => ~InstallAt(1, s)
    <3>1. \A s \in Sessions, i \in Nat : InstallAt(i, s)' => i + 1 # 1
      BY DEF InstallAt
    <3> QED  BY <2>2, <3>1 DEF FreshInstalls
  <2>5. \A s \in Sessions, i, j \in Nat : InstallAt(i, s)' /\ InstallAt(j, s)' => i = j
    BY <2>2 DEF FreshInstalls
  <2>6. \A s \in Sessions, i \in Nat : InstallAt(i, s)' => s \in registered /\ ~sessions'[s].live
    BY <2>2, <2>3, <2>4 DEF FreshInstalls
  <2>7. \A s \in Sessions : sessions'[s].live => s \in registered
    BY <2>3 DEF FreshInstalls
  <2> QED  BY <2>1, <2>5, <2>6, <2>7 DEF FreshInstalls, HasPeer
<1>6. CASE EndPass
  BY <1>6 DEF EndPass, FreshInstalls, InstallAt, HasPeer, controlVars, queueVars, historyVars
<1>7. CASE Idle
  BY <1>7 DEF Idle, FreshInstalls
<1> QED  BY <1>2, <1>3, <1>4, <1>5, <1>6, <1>7, StepKinds

LEMMA FencedStep ==
  ASSUME TypingInv, FreshInstalls, Fenced, [Next]_vars
  PROVE  Fenced'
<1> USE DEF TypingInv
<1>1. TableOK /\ retired \subseteq Sessions  BY DEF TypeOK, TableOK
<1>2. ASSUME NEW s \in Sessions, Register(s)  PROVE Fenced'
  <2>1. /\ UNCHANGED <<sessions, retired, fences, overflow>>
        /\ s \notin registered
    BY <1>2 DEF Register, workerVars, historyVars
  <2>2. \A t \in Sessions, i \in Nat : InstallAt(i, t)' => InstallAt(i, t) \/ t = s
    BY <1>2, SubmitInstalls DEF Register, Command
  <2>3. s \notin retired  BY <2>1 DEF FreshInstalls
  <2> QED  BY <1>1, <2>1, <2>2, <2>3 DEF Fenced, Blocked
<1>3. CASE OnEvent \/ \E s \in Sessions : Tick(s) \/ Abort(s)
  <2>1. /\ UNCHANGED <<sessions, retired, fences, overflow>>
        /\ \A s \in Sessions, i \in Nat : InstallAt(i, s)' => InstallAt(i, s)
    BY <1>3, ControlStep
  <2>2. \A s : Blocked(s)' <=> Blocked(s)  BY <2>1 DEF Blocked
  <2> QED  BY <1>1, <2>1, <2>2 DEF Fenced
<1>4. CASE Drain /\ UNCHANGED <<commands, peers, registered>>
  <2>1. \A s \in retired : ~sessions'[s].live
    BY <1>1, <1>4, DrainTable DEF Fenced, NoSession
  <2>2. \A s \in Range(retirements) : ~sessions'[s].live /\ Blocked(s)'
    <3>1. \A s \in Range(retirements) : ~sessions'[s].live
      BY <1>1, <1>4, DrainTable DEF NoSession
    <3>2. CASE FencesHold(fences \cup Range(retirements))
      BY <1>4, <3>1, <3>2 DEF Drain, Blocked
    <3>3. CASE ~FencesHold(fences \cup Range(retirements))
      BY <1>4, <3>1, <3>3 DEF Drain, Blocked
    <3> QED  BY <3>2, <3>3
  <2>3. \A s : Blocked(s) => Blocked(s)'
    BY <1>4 DEF Drain, Blocked
  <2>4. retired' = retired \cup Range(retirements)  BY <1>4 DEF Drain
  <2>5. \A s, i : InstallAt(i, s)' <=> InstallAt(i, s)  BY <1>4 DEF InstallAt
  <2> QED  BY <2>1, <2>2, <2>3, <2>4, <2>5 DEF Fenced
<1>5. CASE ProcessCommand
  <2>1. /\ commands # <<>> /\ commands' = Tail(commands)
        /\ UNCHANGED <<fences, overflow, retired>>
    BY <1>5 DEF ProcessCommand, historyVars
  <2>2. /\ \A s \in Sessions, i \in Nat : InstallAt(i, s)' => InstallAt(i + 1, s)
        /\ \A s \in Sessions : Head(commands) = Command("install", s) => InstallAt(1, s)
    BY <2>1, TailInstalls
  <2>3. \A s \in retired : ~sessions'[s].live
    <3>1. ASSUME NEW s \in Sessions, commands # <<>>,
                 Head(commands).kind = "install", Head(commands).session = s
          PROVE  Head(commands) = Command("install", s)
      <4>1. Head(commands) \in SessionCommand \cup SnapshotCommand
        BY <3>1 DEF TypeOK
      <4> QED  BY <3>1, <4>1 DEF SessionCommand, SnapshotCommand, Command
    <3>2. CASE UNCHANGED sessions  BY <3>2 DEF Fenced
    <3>3. ASSUME NEW s \in Sessions, commands # <<>>,
                 Head(commands).kind = "install", Head(commands).session = s,
                 ~Blocked(s),
                 sessions' = [sessions EXCEPT ![s] =
                    [live |-> TRUE, confirmed |-> FALSE, transmit |-> TRUE]]
          PROVE  \A t \in retired : ~sessions'[t].live
      <4>1. s \notin retired  BY <2>2, <3>1, <3>3 DEF Fenced
      <4> QED  BY <1>1, <3>3, <4>1 DEF TypeOK, Fenced
    <3>4. ASSUME NEW s \in Sessions, sessions[s].live,
                 sessions' = [t \in Sessions |->
                    IF t = s
                    THEN [live |-> TRUE, confirmed |-> TRUE, transmit |-> TRUE]
                    ELSE IF t \in Superseded(s)
                         THEN [sessions[t] EXCEPT !.transmit = FALSE]
                         ELSE sessions[t]]
          PROVE  \A t \in retired : ~sessions'[t].live
      <4>1. \A t \in Sessions :
              [sessions[t] EXCEPT !.transmit = FALSE].live = sessions[t].live
        BY DEF TypeOK, Session
      <4> QED  BY <1>1, <3>4, <4>1 DEF Fenced
    <3> QED  BY <1>1, <1>5, <3>2, <3>3, <3>4, TableStep
  <2>4. \A s : Blocked(s)' <=> Blocked(s)  BY <2>1 DEF Blocked
  <2>5. \A s \in retired, i \in Nat : InstallAt(i, s)' => Blocked(s)'
    <3>1. \A i \in Nat : i + 1 \in Nat  OBVIOUS
    <3> QED  BY <1>1, <2>2, <2>4, <3>1 DEF Fenced
  <2> QED  BY <2>1, <2>3, <2>5 DEF Fenced
<1>6. CASE EndPass
  <2>1. UNCHANGED <<sessions, retired, commands>>
    BY <1>6 DEF EndPass, queueVars, historyVars
  <2>2. CASE commands = <<>>
    BY <2>1, <2>2 DEF Fenced, InstallAt
  <2>3. CASE UNCHANGED <<fences, overflow>>
    BY <2>1, <2>3 DEF Fenced, InstallAt, Blocked
  <2> QED  BY <1>6, <2>2, <2>3 DEF EndPass
<1>7. CASE Idle
  BY <1>1, <1>7 DEF Idle, Fenced, Blocked
<1> QED  BY <1>2, <1>3, <1>4, <1>5, <1>6, <1>7, StepKinds

FencedInv == TypingInv /\ FreshInstalls /\ Fenced

LEMMA FencedInvInit == Init => FencedInv
<1> SUFFICES ASSUME Init PROVE FencedInv
  OBVIOUS
<1>1. TypingInv  BY TypingInvInit
<1>2. \A s \in Sessions : ~sessions[s].live /\ ~HasPeer(s)
  BY DEF Init, NoSession, NoPeer, HasPeer
<1>3. \A s, i : ~InstallAt(i, s)
  BY DEF Init, InstallAt
<1>4. Range(retirements) = {} /\ retired = {}
  BY DEF Init, Range
<1> QED  BY <1>1, <1>2, <1>3, <1>4 DEF FencedInv, FreshInstalls, Fenced

LEMMA FencedInvStep == FencedInv /\ [Next]_vars => FencedInv'
BY TypingInvStep, FreshStep, FencedStep DEF FencedInv

\* However the command and the retirement queue are interleaved, a session the
\* worker has retired never comes back.
THEOREM RetiredForGood == Spec => []RetiredStaysGone
<1>1. FencedInv => RetiredStaysGone  BY DEF FencedInv, Fenced, RetiredStaysGone
<1> QED  BY <1>1, FencedInvInit, FencedInvStep, PTL DEF Spec

-----------------------------------------------------------------------------
(* Route bindings                                                          *)

\* A route is bound to a transmitter, and transmitters are in the table: what
\* lets a removal or a fresh install skip the owners it does not touch.
RoutesInv ==
  /\ \A o \in DOMAIN routes : Follows(sessions, o, routes[o])
  /\ \A s \in Sessions : Sends(sessions, s) => sessions[s].live

LEMMA RoutesAgree ==
  ASSUME RoutesInv PROVE RoutesFollowSessions
BY DEF RoutesInv, RoutesFollowSessions, Follows, Candidates, Transmits, Sends

\* Who may bind a route depends on its owner's sessions only.
LEMMA FollowsFrame ==
  ASSUME NEW old, NEW new, NEW o, NEW r,
         \A s \in Sessions : OwnerOf[s] = o => (Sends(new, s) <=> Sends(old, s)),
         Follows(old, o, r)
  PROVE  Follows(new, o, r)
<1>1. Candidates(new, o) = Candidates(old, o)  BY DEF Candidates, Sends
<1> QED  BY <1>1 DEF Follows

LEMMA RoutesStep ==
  ASSUME FencedInv, RoutesInv, [Next]_vars, TypingInv'
  PROVE  RoutesInv'
<1> USE DEF FencedInv, TypingInv
<1>1. TableOK  BY DEF TypeOK, TableOK
<1>2. \A s, t \in Sessions : Sends(sessions', s) /\ Sends(sessions', t)
           /\ OwnerOf[s] = OwnerOf[t] => s = t
  BY DEF OneTransmitter, Transmits, Sends
<1>3. CASE UNCHANGED <<sessions, routes>>
  BY <1>3 DEF RoutesInv
<1>4. CASE \/ \E s \in Sessions : Register(s)
           \/ OnEvent \/ \E s \in Sessions : Tick(s) \/ Abort(s)
           \/ EndPass \/ Idle
  BY <1>3, <1>4
  DEF Register, OnEvent, Tick, Abort, EndPass, Idle, workerVars
<1>5. CASE Drain
  <2> DEFINE gone == Range(retirements)
             touched == {OwnerOf[s] : s \in {t \in gone : sessions[t].live}}
  <2>1. routes' = Rebind(sessions', routes, touched)  BY <1>5 DEF Drain
  <2>2. \A o \in DOMAIN routes \ touched : Follows(sessions', o, routes[o])
    <3>1. ASSUME NEW o \in DOMAIN routes \ touched,
                 NEW s \in Sessions, OwnerOf[s] = o
          PROVE  Sends(sessions', s) <=> Sends(sessions, s)
      <4>1. CASE s \in gone
        <5>1. ~sessions[s].live  BY <3>1, <4>1
        <5>2. ~Sends(sessions, s)  BY <5>1 DEF RoutesInv
        <5>3. sessions'[s] = NoSession  BY <1>1, <1>5, <4>1, DrainTable
        <5> QED  BY <5>2, <5>3 DEF Sends, NoSession
      <4>2. CASE s \notin gone
        <5>1. sessions'[s] = sessions[s]  BY <1>5, <4>2 DEF Drain
        <5> QED  BY <5>1 DEF Sends
      <4> QED  BY <4>1, <4>2
    <3> QED  BY <3>1, FollowsFrame DEF RoutesInv
  <2>3. \A o \in DOMAIN routes' : Follows(sessions', o, routes'[o])
    BY <1>2, <2>1, <2>2, RebindFollows
  <2>4. \A s \in Sessions : Sends(sessions', s) => sessions'[s].live
    <3>1. \A s \in Sessions : sessions'[s] = sessions[s] \/ sessions'[s] = NoSession
      BY <1>1, <1>5, DrainTable
    <3> QED  BY <3>1 DEF RoutesInv, Sends, NoSession
  <2> QED  BY <2>3, <2>4 DEF RoutesInv
<1>6. CASE ProcessCommand
  <2> DEFINE c == Head(commands)
  <2>1. commands # <<>>  BY <1>6 DEF ProcessCommand
  <2>2. CASE c.kind = "install" /\ Install(c.session)
    <3>1. c.session \in Sessions  BY <1>1, <2>1, <2>2, HeadCommand
    <3>2. c = Command("install", c.session)
      <4>1. c \in SessionCommand \cup SnapshotCommand  BY <2>1 DEF TypeOK
      <4> QED  BY <2>2, <4>1 DEF SessionCommand, SnapshotCommand, Command
    <3>3. ~sessions[c.session].live
      <4>1. InstallAt(1, c.session)
        BY <1>6, <2>1, <3>1, <3>2, TailInstalls DEF ProcessCommand
      <4> QED  BY <3>1, <4>1 DEF FreshInstalls
    <3>4. CASE sessions' = [sessions EXCEPT ![c.session] =
                 [live |-> TRUE, confirmed |-> FALSE, transmit |-> TRUE]]
      <4>1. \A s \in Sessions : Sends(sessions', s) <=> Sends(sessions, s)
        BY <3>1, <3>3, <3>4 DEF RoutesInv, Sends, TypeOK
      <4>2. \A s \in Sessions : sessions[s].live => sessions'[s].live
        BY <3>1, <3>4 DEF TypeOK
      <4>3. UNCHANGED routes  BY <2>2 DEF Install
      <4> QED  BY <4>1, <4>2, <4>3, FollowsFrame DEF RoutesInv
    <3> QED  BY <1>3, <2>2, <3>4 DEF Install
  <2>3. CASE c.kind = "confirm" /\ Confirm(c.session)
    <3>1. c.session \in Sessions  BY <1>1, <2>1, <2>3, HeadCommand
    <3>2. ASSUME sessions[c.session].live,
                 sessions' = [t \in Sessions |->
                    IF t = c.session
                    THEN [live |-> TRUE, confirmed |-> TRUE, transmit |-> TRUE]
                    ELSE IF t \in Superseded(c.session)
                         THEN [sessions[t] EXCEPT !.transmit = FALSE]
                         ELSE sessions[t]],
                 routes' = Rebind(sessions', routes, {OwnerOf[c.session]})
          PROVE  RoutesInv'
      <4>1. \A s \in Sessions :
              [sessions[s] EXCEPT !.transmit = FALSE].live = sessions[s].live
            /\ ~[sessions[s] EXCEPT !.transmit = FALSE].transmit
        BY DEF TypeOK, Session
      <4>2. \A s \in Sessions : OwnerOf[s] # OwnerOf[c.session] =>
              sessions'[s] = sessions[s]
        BY <3>1, <3>2 DEF Superseded
      <4>3. \A o \in DOMAIN routes \ {OwnerOf[c.session]} : Follows(sessions', o, routes[o])
        BY <4>2, FollowsFrame DEF RoutesInv, Sends
      <4>4. \A o \in DOMAIN routes' : Follows(sessions', o, routes'[o])
        BY <1>2, <3>2, <4>3, RebindFollows
      <4>5. \A s \in Sessions : Sends(sessions', s) => sessions'[s].live
        BY <3>2, <4>1 DEF RoutesInv, Sends
      <4> QED  BY <4>4, <4>5 DEF RoutesInv
    <3> QED  BY <1>3, <2>3, <3>2 DEF Confirm
  <2>4. CASE c.kind = "snapshot" /\ InstallSnapshot(c.owners)
    <3> DEFINE R == c.owners
    <3>1. sessions' = sessions  BY <2>4 DEF InstallSnapshot
    <3>2. routes' = Rebind(sessions', [o \in R |-> 0], R)
      BY <2>4, <3>1 DEF InstallSnapshot, RoutesBound
    <3>3. \A o \in DOMAIN routes' : Follows(sessions', o, routes'[o])
      BY <1>2, <3>2, RebindFollows
    <3> QED  BY <3>1, <3>3 DEF RoutesInv
  <2> QED  BY <1>6, <2>2, <2>3, <2>4 DEF ProcessCommand
<1> QED  BY <1>4, <1>5, <1>6, StepKinds

LEMMA RoutesInvInit == Init => RoutesInv
<1> SUFFICES ASSUME Init PROVE RoutesInv
  OBVIOUS
<1>1. \A s \in Sessions : ~Sends(sessions, s)
  BY DEF Init, Sends, NoSession
<1>2. \A o \in DOMAIN routes : routes[o] = 0  BY DEF Init
<1> QED
  BY <1>1, <1>2 DEF RoutesInv, Follows, Candidates, Sends

LEMMA RoutesInvStep == FencedInv /\ RoutesInv /\ [Next]_vars => RoutesInv'
<1>1. FencedInv' => TypingInv'  BY DEF FencedInv
<1> QED  BY <1>1, FencedInvStep, RoutesStep

\* Routes and sessions agree after every install, confirmation, retirement and
\* snapshot.
THEOREM RoutesAlwaysFollow == Spec => []RoutesFollowSessions
<1>1. Init => FencedInv /\ RoutesInv
  BY FencedInvInit, RoutesInvInit
<1>2. FencedInv /\ RoutesInv /\ [Next]_vars => (FencedInv /\ RoutesInv)'
  BY FencedInvStep, RoutesInvStep
<1>3. FencedInv /\ RoutesInv => RoutesFollowSessions  BY RoutesAgree
<1> QED  BY <1>1, <1>2, <1>3, PTL DEF Spec

-----------------------------------------------------------------------------
(* Revocation and DATA                                                     *)

\* What the worker had heeded when it began, it has carried out.
LEMMA HeededStep ==
  ASSUME heeded \subseteq retired, [Next]_vars
  PROVE  heeded' \subseteq retired'
<1>1. CASE BeginPass \/ BeginPacket
  BY <1>1 DEF BeginPass, BeginPacket, RetirementsBeforePacket, Drain
<1>2. (BeginPass \/ BeginPacket) \/ UNCHANGED <<heeded, retired>>
  BY DEF Next, CoordinatorCall, Control, Pass, Traffic, Packet, Register,
         ConfirmAsInitiator, Abort, MakeReceiveOnly, Publish, OnEvent, TakeAck, Tick,
         ProcessCommand, EndPass, Wake, SendProbe, SendData, ReceivePacket, DropPacket,
         historyVars, vars
<1> QED  BY <1>1, <1>2

\* DATA begun after a retirement was queued is not sent on its session, though
\* installs, confirmations and snapshots may be carried out in between: the
\* worker drains before it begins, no overtaken install brings the session
\* back, and only a session in the table transmits.
THEOREM RevocationHeeded == Spec => []RevocationReachesData
<1> DEFINE Heeds == FencedInv /\ RoutesInv /\ heeded \subseteq retired
<1>1. Init => Heeds
  BY FencedInvInit, RoutesInvInit DEF Init
<1>2. Heeds /\ [Next]_vars => Heeds'
  BY FencedInvStep, RoutesInvStep, HeededStep
<1>3. Heeds => RevocationReachesData
  BY DEF FencedInv, Fenced, RoutesInv, Sends, Transmits, TypingInv, TypeOK,
         RevocationReachesData
<1> QED  BY <1>1, <1>2, <1>3, PTL DEF Spec

-----------------------------------------------------------------------------
(* Retirements                                                             *)

\* What was queued for retirement is marked in the peer that is left.
Marked ==
  \A s \in Range(retirements) \cup retired :
    HasPeer(s) => peers[s].removalQueued

\* A control step queues one retirement, of a peer not marked before.
LEMMA RetireStep ==
  ASSUME TypeOK, OnEvent \/ \E s \in Sessions : Tick(s) \/ Abort(s)
  PROVE  /\ \A t \in Sessions : HasPeer(t)' /\ peers[t].removalQueued
                                  => peers'[t].removalQueued
         /\ \/ UNCHANGED retirements
            \/ \E s \in Sessions :
                 /\ HasPeer(s) /\ ~peers[s].removalQueued
                 /\ retirements' = Append(retirements, s)
                 /\ HasPeer(s)' => peers'[s].removalQueued
<1> DEFINE Retires(s) ==
      /\ \A t \in Sessions : HasPeer(t)' /\ peers[t].removalQueued
                               => peers'[t].removalQueued
      /\ \/ UNCHANGED retirements
         \/ /\ HasPeer(s) /\ ~peers[s].removalQueued
            /\ retirements' = Append(retirements, s)
            /\ HasPeer(s)' => peers'[s].removalQueued
<1>0. \A s \in Sessions : peers[s] \in Peer  BY DEF TypeOK
<1>1. ASSUME NEW s \in Sessions, GoOffline(s), HasPeer(s)  PROVE Retires(s)
  BY <1>0, <1>1 DEF GoOffline, Owed, HasPeer, TypeOK, Peer
<1>2. ASSUME NEW s \in Sessions, Tick(s)  PROVE Retires(s)
  BY <1>1, <1>2 DEF Tick, RetryRetirement, Silence, HasPeer
<1>3. ASSUME NEW s \in Sessions, Abort(s)  PROVE Retires(s)
  <2>1. CASE peers' = [peers EXCEPT ![s] = NoPeer]
    <3>1. ~HasPeer(s)' /\ \A t \in Sessions \ {s} : peers'[t] = peers[t]
      BY <2>1 DEF TypeOK, HasPeer, NoPeer
    <3>2. /\ HasPeer(s)
          /\ UNCHANGED retirements
             \/ (Owed(s) /\ retirements' = Append(retirements, s))
      BY <1>3 DEF Abort
    <3> QED  BY <3>1, <3>2 DEF Owed
  <2>2. CASE peers' = [peers EXCEPT ![s] = KeptWhenRefused(s)] /\ UNCHANGED retirements
    <3>1. KeptWhenRefused(s).removalQueued = peers[s].removalQueued
      BY <1>0 DEF KeptWhenRefused, Peer
    <3> QED  BY <2>2, <3>1 DEF TypeOK
  <2> QED  BY <1>3, <2>1, <2>2 DEF Abort
<1>4. ASSUME OnEvent  PROVE \E s \in Sessions : Retires(s)
  <2> DEFINE s == Head(events).session
  <2>1. s \in Sessions
    <3>1. Head(events) \in Event  BY <1>4 DEF TypeOK, OnEvent
    <3> QED  BY <3>1 DEF Event
  <2>2. \/ peers' = [peers EXCEPT ![s] = NoPeer] /\ UNCHANGED retirements
        \/ HasPeer(s) /\ OnSessionConfirm(s)
        \/ HasPeer(s) /\ OnGoodbye(s)
        \/ UNCHANGED <<peers, retirements>>
    BY <1>4 DEF OnEvent
  <2> HIDE DEF s
  <2>3. ASSUME peers' = [peers EXCEPT ![s] = NoPeer], UNCHANGED retirements
        PROVE  Retires(s)
    BY <1>0, <2>1, <2>3 DEF TypeOK, HasPeer, NoPeer
  <2>4. ASSUME HasPeer(s), OnSessionConfirm(s)  PROVE Retires(s)
    BY <1>0, <2>1, <2>4 DEF TypeOK, OnSessionConfirm, Peer
  <2>5. ASSUME HasPeer(s), OnGoodbye(s)  PROVE Retires(s)
    <3> HIDE DEF Retires
    <3> QED  BY <1>1, <2>1, <2>5 DEF OnGoodbye
  <2>6. ASSUME UNCHANGED <<peers, retirements>>  PROVE Retires(s)
    BY <2>6
  <2> HIDE DEF Retires
  <2>7. Retires(s)  BY <2>2, <2>3, <2>4, <2>5, <2>6
  <2> QED  BY <2>1, <2>7
<1> QED  BY <1>2, <1>3, <1>4

LEMMA RetiredOnceStep ==
  ASSUME FencedInv, RetiredOnce, Marked, [Next]_vars
  PROVE  RetiredOnce' /\ Marked'
<1> USE DEF FencedInv, TypingInv
<1>1. Range(retirements) \cup retired \subseteq Sessions
  BY DEF TypeOK, Range
<1>2. ASSUME NEW s \in Sessions, Register(s)  PROVE RetiredOnce' /\ Marked'
  <2>1. /\ UNCHANGED <<retirements, retired>> /\ s \notin registered
        /\ \A t \in Sessions \ {s} : peers'[t] = peers[t]
    BY <1>2 DEF TypeOK, Register, workerVars, historyVars
  <2>2. s \notin Range(retirements) \cup retired  BY <2>1 DEF FreshInstalls
  <2>3. Marked'
    BY <1>1, <2>1, <2>2 DEF Marked, HasPeer
  <2> QED  BY <2>1, <2>3 DEF RetiredOnce
<1>3. CASE OnEvent \/ \E s \in Sessions : Tick(s) \/ Abort(s)
  <2>1. /\ \A t \in Sessions : HasPeer(t)' => HasPeer(t)
        /\ retired' = retired
    BY <1>3, ControlStep
  <2>2. \A t \in Sessions : HasPeer(t)' /\ peers[t].removalQueued => peers'[t].removalQueued
    BY <1>3, RetireStep
  <2>3. CASE UNCHANGED retirements
    BY <1>1, <2>1, <2>2, <2>3 DEF RetiredOnce, Marked
  <2>4. ASSUME NEW s \in Sessions, HasPeer(s), ~peers[s].removalQueued,
               retirements' = Append(retirements, s),
               HasPeer(s)' => peers'[s].removalQueued
        PROVE  RetiredOnce' /\ Marked'
    <3>1. s \notin Range(retirements) \cup retired  BY <2>4 DEF Marked
    <3>2. Range(retirements') = Range(retirements) \cup {s}
      BY <2>4, RangeAppend DEF TypeOK
    <3>3. IsInjective(retirements')
      <4>1. /\ DOMAIN retirements = 1..Len(retirements) /\ Len(retirements) \in Nat
            /\ DOMAIN retirements' = 1..(Len(retirements) + 1)
            /\ \A i \in 1..Len(retirements) : retirements'[i] = retirements[i]
            /\ retirements'[Len(retirements) + 1] = s
        BY <2>4 DEF TypeOK
      <4>2. \A i \in 1..Len(retirements) : retirements[i] # s
        BY <3>1, <4>1 DEF Range
      <4>3. \A i, j \in 1..Len(retirements) : retirements[i] = retirements[j] => i = j
        BY <4>1 DEF RetiredOnce, IsInjective
      <4> SUFFICES ASSUME NEW i \in 1..(Len(retirements) + 1),
                          NEW j \in 1..(Len(retirements) + 1),
                          retirements'[i] = retirements'[j]
                   PROVE  i = j
        BY <4>1 DEF IsInjective
      <4>4. CASE i \in 1..Len(retirements) /\ j \in 1..Len(retirements)
        BY <4>1, <4>3, <4>4
      <4>5. CASE i = Len(retirements) + 1 \/ j = Len(retirements) + 1
        <5>1. i = Len(retirements) + 1 \/ i \in 1..Len(retirements)
          BY <4>1
        <5>2. j = Len(retirements) + 1 \/ j \in 1..Len(retirements)
          BY <4>1
        <5> QED  BY <4>1, <4>2, <4>5, <5>1, <5>2
      <4> QED  BY <4>1, <4>4, <4>5
    <3> QED  BY <1>1, <2>1, <2>2, <2>4, <3>1, <3>2, <3>3 DEF RetiredOnce, Marked
  <2> QED  BY <1>3, <2>3, <2>4, RetireStep
<1>4. CASE Drain /\ UNCHANGED <<commands, peers, registered>>
  <2>1. /\ retirements' = <<>> /\ Range(retirements') = {}
        /\ retired' = retired \cup Range(retirements)
    BY <1>4 DEF Drain, Range
  <2> QED  BY <1>4, <2>1 DEF RetiredOnce, Marked, HasPeer, IsInjective
<1>5. CASE ProcessCommand \/ EndPass
  BY <1>5 DEF ProcessCommand, EndPass, RetiredOnce, Marked, HasPeer, controlVars,
              queueVars, historyVars
<1>6. CASE Idle
  BY <1>1, <1>6 DEF Idle, RetiredOnce, Marked
<1> QED  BY <1>2, <1>3, <1>4, <1>5, <1>6, StepKinds

\* No session is retired twice, across refused retirements and their retries,
\* aborts of a peer that went offline and retirements already carried out.
THEOREM RetirementsAreUnique == Spec => []RetiredOnce
<1>1. Init => FencedInv /\ RetiredOnce /\ Marked
  <2> SUFFICES ASSUME Init PROVE FencedInv /\ RetiredOnce /\ Marked
    OBVIOUS
  <2>1. retirements = <<>> /\ Range(retirements) = {} /\ retired = {}
    BY DEF Init, Range
  <2> QED  BY <2>1, FencedInvInit DEF RetiredOnce, Marked, IsInjective
<1>2. FencedInv /\ RetiredOnce /\ Marked /\ [Next]_vars
        => (FencedInv /\ RetiredOnce /\ Marked)'
  BY FencedInvStep, RetiredOnceStep
<1> QED  BY <1>1, <1>2, PTL DEF Spec

-----------------------------------------------------------------------------
(* The sequence space of a Node                                            *)

\* A session that is over as a transmitter: it will not be installed, and what
\* is left of it in the table was superseded.
Over(s) ==
  /\ s \in registered
  /\ \A i \in Nat : ~InstallAt(i, s)
  /\ sessions[s].live => sessions[s].confirmed /\ ~sessions[s].transmit

\* What DATA was sent on last still transmits or is over, and what it was sent
\* on before is over.
SentOn ==
  /\ \A o \in Owners : lastSent[o] # 0 =>
       /\ OwnerOf[lastSent[o]] = o
       /\ Sends(sessions, lastSent[o]) \/ Over(lastSent[o])
  /\ \A s \in replaced : Over(s)

\* An install has happened or never will: what may become of the session then.
LEMMA TableFate ==
  ASSUME FencedInv, [Next]_vars, NEW s \in Sessions,
         s \in registered, \A i \in Nat : ~InstallAt(i, s)
  PROVE  /\ s \in registered'
         /\ \A i \in Nat : ~InstallAt(i, s)'
         /\ \/ sessions'[s] = sessions[s]
            \/ sessions'[s] = NoSession
            \/ sessions'[s] = [sessions[s] EXCEPT !.transmit = FALSE]
            \/ /\ sessions[s].live /\ ~sessions[s].confirmed
               /\ sessions'[s] = [live |-> TRUE, confirmed |-> TRUE, transmit |-> TRUE]
<1> USE DEF FencedInv, TypingInv
<1>1. TableOK  BY DEF TypeOK, TableOK
<1>2. ASSUME NEW t \in Sessions, Register(t)
      PROVE  /\ s \in registered' /\ UNCHANGED sessions
             /\ \A i \in Nat : ~InstallAt(i, s)'
  <2>1. t # s /\ registered' = registered \cup {t} /\ UNCHANGED sessions
    BY <1>2 DEF Register, workerVars
  <2>2. \A i \in Nat : ~InstallAt(i, s)'
    <3>1. Command("install", t) # Command("install", s)
      <4>1. Command("install", t).session = t /\ Command("install", s).session = s
        BY DEF Command
      <4> QED  BY <2>1, <4>1
    <3> QED  BY <1>2, <3>1, SubmitInstalls DEF Register
  <2> QED  BY <2>1, <2>2
<1>3. CASE OnEvent \/ \E t \in Sessions : Tick(t) \/ Abort(t)
  BY <1>3, ControlStep
<1>4. CASE Drain /\ UNCHANGED <<commands, peers, registered>>
  BY <1>1, <1>4, DrainTable DEF InstallAt
<1>5. CASE ProcessCommand
  <2>1. /\ commands # <<>> /\ commands' = Tail(commands) /\ UNCHANGED registered
    BY <1>5 DEF ProcessCommand, controlVars
  <2>2. /\ \A i \in Nat : InstallAt(i, s)' => InstallAt(i + 1, s)
        /\ Head(commands) # Command("install", s)
    BY <2>1, TailInstalls
  <2>3. \A i \in Nat : ~InstallAt(i, s)'
    <3>1. \A i \in Nat : i + 1 \in Nat  OBVIOUS
    <3> QED  BY <2>2, <3>1
  <2>4. CASE UNCHANGED sessions  BY <2>1, <2>3, <2>4
  <2>5. ASSUME NEW t \in Sessions, Head(commands).kind = "install",
               Head(commands).session = t,
               sessions' = [sessions EXCEPT ![t] =
                  [live |-> TRUE, confirmed |-> FALSE, transmit |-> TRUE]]
        PROVE  sessions'[s] = sessions[s]
    <3>1. Head(commands) = Command("install", t)
      <4>1. Head(commands) \in SessionCommand \cup SnapshotCommand
        BY <2>1 DEF TypeOK
      <4> QED  BY <2>5, <4>1 DEF SessionCommand, SnapshotCommand, Command
    <3> QED  BY <2>2, <2>5, <3>1 DEF TypeOK
  <2>6. ASSUME NEW t \in Sessions, sessions[t].live, ~sessions[t].confirmed,
               sessions' = [u \in Sessions |->
                  IF u = t
                  THEN [live |-> TRUE, confirmed |-> TRUE, transmit |-> TRUE]
                  ELSE IF u \in Superseded(t)
                       THEN [sessions[u] EXCEPT !.transmit = FALSE]
                       ELSE sessions[u]]
        PROVE  \/ sessions'[s] = sessions[s]
               \/ sessions'[s] = [sessions[s] EXCEPT !.transmit = FALSE]
               \/ /\ sessions[s].live /\ ~sessions[s].confirmed
                  /\ sessions'[s] = [live |-> TRUE, confirmed |-> TRUE, transmit |-> TRUE]
    BY <2>6
  <2> QED  BY <1>1, <1>5, <2>1, <2>3, <2>4, <2>5, <2>6, TableStep
<1>6. CASE EndPass
  BY <1>6 DEF EndPass, InstallAt, controlVars, queueVars
<1>7. CASE Idle
  BY <1>7 DEF Idle
<1> QED  BY <1>2, <1>3, <1>4, <1>5, <1>6, <1>7, StepKinds

\* A transmitter goes on or is over, and what is over stays so.
LEMMA OverStays ==
  ASSUME FencedInv, RoutesInv, [Next]_vars, NEW s \in Sessions,
         Sends(sessions, s) \/ Over(s)
  PROVE  Over(s)' \/ (Sends(sessions', s) /\ ~Over(s))
<1>1. sessions[s] \in Session /\ (Sends(sessions, s) => sessions[s].live)
  BY DEF FencedInv, TypingInv, TypeOK, RoutesInv
<1>2. s \in registered /\ \A i \in Nat : ~InstallAt(i, s)
  BY <1>1 DEF Over, FencedInv, FreshInstalls
<1>3. Sends(sessions, s) => ~Over(s)
  BY <1>1 DEF Over, Sends
<1>4. /\ s \in registered' /\ \A i \in Nat : ~InstallAt(i, s)'
      /\ \/ sessions'[s] = sessions[s]
         \/ sessions'[s] = NoSession
         \/ sessions'[s] = [sessions[s] EXCEPT !.transmit = FALSE]
         \/ /\ sessions[s].live /\ ~sessions[s].confirmed
            /\ sessions'[s] = [live |-> TRUE, confirmed |-> TRUE, transmit |-> TRUE]
  BY <1>2, TableFate
<1>5. CASE sessions'[s] = sessions[s]
  BY <1>3, <1>4, <1>5 DEF Over, Sends
<1>6. CASE sessions'[s] = NoSession
  BY <1>4, <1>6 DEF Over, NoSession
<1>7. CASE sessions'[s] = [sessions[s] EXCEPT !.transmit = FALSE]
  <2>1. /\ sessions'[s].live = sessions[s].live /\ ~sessions'[s].transmit
        /\ sessions'[s].confirmed = sessions[s].confirmed
    BY <1>1, <1>7 DEF Session
  <2> QED  BY <1>4, <2>1 DEF Over, Sends
<1>8. CASE sessions[s].live /\ ~sessions[s].confirmed
  BY <1>8 DEF Over, Sends
<1> QED  BY <1>4, <1>5, <1>6, <1>7, <1>8

LEMMA SentOnStep ==
  ASSUME FencedInv, RoutesInv, SentOn, NoRollback, [Next]_vars, FencedInv', RoutesInv'
  PROVE  SentOn' /\ NoRollback'
<1>1. /\ lastSent \in [Owners -> Sessions \cup {0}] /\ replaced \subseteq Sessions
      /\ lastSent' \in [Owners -> Sessions \cup {0}]
  BY DEF FencedInv, TypingInv, TypeOK
<1>2. \A s \in replaced : Over(s)'
  BY <1>1, OverStays DEF SentOn
<1>3. ASSUME NEW o \in Owners, NEW t \in Sessions, lastSent[o] = t
      PROVE  OwnerOf[t] = o /\ (Sends(sessions', t) \/ Over(t)')
  <2>1. lastSent[o] # 0 /\ OwnerOf[t] = o /\ (Sends(sessions, t) \/ Over(t))
    BY <1>3 DEF SentOn
  <2> QED  BY <2>1, OverStays
<1>4. CASE UNCHANGED <<lastSent, replaced>>
  <2>1. \A o \in Owners : lastSent'[o] # 0 =>
          OwnerOf[lastSent'[o]] = o /\ (Sends(sessions', lastSent'[o]) \/ Over(lastSent[o])')
    <3> SUFFICES ASSUME NEW o \in Owners, NEW t \in Sessions, lastSent[o] = t
                 PROVE  OwnerOf[t] = o /\ (Sends(sessions', t) \/ Over(t)')
      BY <1>1, <1>4
    <3> QED  BY <1>3
  <2> QED  BY <1>2, <1>4, <2>1 DEF SentOn, NoRollback
<1>5. ASSUME NEW o \in Owners, SendData(o) \/ SendProbe(o)
      PROVE  SentOn' /\ NoRollback'
  <2>1. PICK s \in Sessions :
          /\ o \in DOMAIN routes' /\ routes'[o] = s
          /\ sessions'[s].confirmed /\ sessions'[s].transmit
          /\ lastSent' = [lastSent EXCEPT ![o] = s]
          /\ replaced' = replaced \cup ({lastSent[o]} \ {0, s})
    BY <1>5 DEF SendData, SendProbe, Transmit, Transmits, workerVars
  <2>2. Sends(sessions', s) /\ sessions'[s].live /\ ~Over(s)'
    BY <2>1 DEF Sends, RoutesInv, Over
  <2>3. s # 0 /\ OwnerOf[s] = o
    <3>1. RoutesFollowSessions'  BY RoutesAgree, PTL
    <3> QED  BY <2>1, <3>1 DEF RoutesFollowSessions
  <2>4. ASSUME NEW t \in Sessions, lastSent[o] = t, t # s  PROVE Over(t)'
    <3>1. OwnerOf[t] = OwnerOf[s] /\ (Sends(sessions', t) \/ Over(t)')
      BY <1>3, <2>3, <2>4
    <3>2. ~Sends(sessions', t)
      BY <2>2, <2>4, <3>1 DEF FencedInv, TypingInv, OneTransmitter, Transmits, Sends
    <3> QED  BY <3>1, <3>2
  <2>5. \A t \in replaced' : Over(t)'
    <3>1. \A t \in replaced' \ replaced : t \in Sessions /\ lastSent[o] = t /\ t # s
      BY <1>1, <2>1
    <3> QED  BY <1>2, <2>4, <3>1
  <2>6. /\ lastSent'[o] = s
        /\ \A p \in Owners \ {o} : lastSent'[p] = lastSent[p]
    BY <1>1, <2>1
  <2>7. SentOn'
    <3>1. ASSUME NEW p \in Owners, NEW t \in Sessions, lastSent'[p] = t
          PROVE  OwnerOf[t] = p /\ (Sends(sessions', t) \/ Over(t)')
      BY <1>3, <2>2, <2>3, <2>6, <3>1
    <3>2. \A p \in Owners : lastSent'[p] # 0 => lastSent'[p] \in Sessions
      BY <1>1
    <3> QED  BY <2>5, <3>1, <3>2 DEF SentOn
  <2>8. \A p \in Owners : lastSent'[p] \notin replaced'
    <3>1. s \notin replaced'  BY <2>2, <2>5
    <3>2. ASSUME NEW p \in Owners \ {o}  PROVE lastSent[p] \notin replaced'
      <4>1. lastSent[p] # 0 /\ lastSent[o] # 0 => lastSent[p] # lastSent[o]
        <5> SUFFICES ASSUME NEW t \in Sessions, lastSent[p] = t, lastSent[o] = t
                     PROVE  FALSE
          BY <1>1
        <5>1. OwnerOf[t] = p  BY <1>3
        <5>2. OwnerOf[t] = o  BY <1>3
        <5> QED  BY <5>1, <5>2
      <4> QED  BY <2>1, <4>1 DEF NoRollback
    <3> QED  BY <2>6, <3>1, <3>2
  <2> QED  BY <2>7, <2>8 DEF NoRollback
<1>6. (\E o \in Owners : SendData(o) \/ SendProbe(o)) \/ UNCHANGED <<lastSent, replaced>>
  BY DEF Next, CoordinatorCall, Control, Pass, Traffic, Packet, Register,
         ConfirmAsInitiator, Abort, MakeReceiveOnly, Publish, OnEvent, TakeAck, Tick,
         BeginPass, ProcessCommand, EndPass, Wake, BeginPacket, ReceivePacket,
         DropPacket, historyVars, vars
<1> QED  BY <1>4, <1>5, <1>6

\* DATA to a Node never goes back to a session it has left: what was replaced
\* was superseded or removed, and neither is undone.
THEOREM NeverBack == Spec => []NoRollback
<1> DEFINE I == FencedInv /\ RoutesInv /\ SentOn /\ NoRollback
<1>1. Init => I
  <2>1. Init => SentOn /\ NoRollback
    BY DEF Init, SentOn, NoRollback
  <2> QED  BY <2>1, FencedInvInit, RoutesInvInit
<1>2. I /\ [Next]_vars => I'
  <2>1. FencedInv /\ RoutesInv /\ [Next]_vars => FencedInv' /\ RoutesInv'
    BY FencedInvStep, RoutesInvStep
  <2> QED  BY <2>1, SentOnStep
<1> QED  BY <1>1, <1>2, PTL DEF Spec

-----------------------------------------------------------------------------
(* Sessions without a peer                                                 *)

\* A confirmation of s waits at place i of the command queue.
ConfirmAt(i, s) == i \in 1..Len(commands) /\ commands[i] = Command("confirm", s)

\* Only the newest session of a Node is unconfirmed.
NewestAwaits ==
  \A s \in Sessions : peers[s].state = "awaiting" => newest[OwnerOf[s]] = s

\* Another session of the owner was confirmed after s.
Overtaken(s) == sessions[s].live /\ sessions[s].confirmed /\ ~sessions[s].transmit

\* Installs and confirmations are queued in the order of registration, so that
\* no confirmation finds its session overtaken.
InstallAfter(i, s) == \E k \in Nat : k > i /\ InstallAt(k, s)
InstallBetween(j, i, s) == \E k \in Nat : j < k /\ k < i /\ InstallAt(k, s)
Placed(i, s) ==
  /\ s \in registered
  /\ \A k \in Nat : InstallAt(k, s) => k < i
  /\ ~Overtaken(s)
  /\ \A n \in Sessions \ {s} : newest[OwnerOf[s]] = n => InstallAfter(i, n)
InOrder ==
  /\ \A s \in Sessions, i \in Nat : ConfirmAt(i, s) => Placed(i, s)
  /\ \A s, t \in Sessions, i, j \in Nat :
       /\ ConfirmAt(j, t) /\ ConfirmAt(i, s) /\ j < i
       /\ OwnerOf[s] = OwnerOf[t] /\ s # t
       => InstallBetween(j, i, s)
  /\ \A s \in Sessions : newest[OwnerOf[s]] = s => ~Overtaken(s)

LEMMA NewestStep ==
  ASSUME TypeOK, NewestAwaits, [Next]_vars
  PROVE  NewestAwaits'
<1>0. \A s \in Sessions : peers[s] \in Peer  BY DEF TypeOK
<1>1. CASE /\ UNCHANGED newest
           /\ \A s \in Sessions : peers'[s].state = "awaiting" => peers[s].state = "awaiting"
  BY <1>1 DEF NewestAwaits
<1>2. ASSUME NEW s \in Sessions, Register(s)  PROVE NewestAwaits'
  <2>1. /\ \A t \in Sessions \ {s} : peers'[t] = peers[t]
        /\ newest' = [newest EXCEPT ![OwnerOf[s]] = s]
        /\ \A t \in Sessions : OwnerOf[t] = OwnerOf[s] => peers[t].state # "awaiting"
    BY <1>2 DEF Register, TypeOK
  <2> QED  BY <2>1 DEF NewestAwaits, TypeOK
<1>3. ASSUME NEW s \in Sessions, GoOffline(s)
      PROVE  \A t \in Sessions : peers'[t].state = "awaiting" => peers[t].state = "awaiting"
  BY <1>3 DEF GoOffline, TypeOK
<1>4. ASSUME NEW s \in Sessions, ConfirmAsInitiator(s)  PROVE NewestAwaits'
  BY <1>0, <1>1, <1>4 DEF ConfirmAsInitiator, TypeOK, Peer
<1>5. ASSUME NEW s \in Sessions, Abort(s)  PROVE NewestAwaits'
  <2>1. NoPeer.state # "awaiting" /\ KeptWhenRefused(s).state = peers[s].state
    BY <1>0 DEF NoPeer, KeptWhenRefused, Peer
  <2>2. \A t \in Sessions : peers'[t].state = "awaiting" => peers[t].state = "awaiting"
    BY <1>5, <2>1 DEF Abort, TypeOK
  <2> QED  BY <1>1, <1>5, <2>2 DEF Abort
<1>6. ASSUME NEW s \in Sessions, MakeReceiveOnly(s)  PROVE NewestAwaits'
  BY <1>0, <1>1, <1>6 DEF MakeReceiveOnly, TypeOK, Peer
<1>7. CASE OnEvent
  <2> DEFINE s == Head(events).session
  <2>1. s \in Sessions
    <3>1. Head(events) \in Event  BY <1>7 DEF TypeOK, OnEvent
    <3> QED  BY <3>1 DEF Event
  <2>2. /\ UNCHANGED newest
        /\ \/ peers' = [peers EXCEPT ![s] = NoPeer]
           \/ OnSessionConfirm(s)
           \/ OnGoodbye(s)
           \/ UNCHANGED peers
    BY <1>7 DEF OnEvent
  <2> HIDE DEF s
  <2>3. \A t \in Sessions : peers'[t].state = "awaiting" => peers[t].state = "awaiting"
    <3>1. CASE peers' = [peers EXCEPT ![s] = NoPeer]
      BY <2>1, <3>1 DEF TypeOK, NoPeer
    <3>2. CASE OnSessionConfirm(s)
      BY <1>0, <2>1, <3>2 DEF TypeOK, OnSessionConfirm, Peer
    <3>3. CASE OnGoodbye(s)
      BY <1>3, <2>1, <3>3 DEF OnGoodbye
    <3> QED  BY <2>2, <3>1, <3>2, <3>3
  <2> QED  BY <1>1, <2>2, <2>3
<1>8. ASSUME NEW s \in Sessions, Tick(s)  PROVE NewestAwaits'
  BY <1>1, <1>3, <1>8 DEF Tick, RetryRetirement, Silence
<1>9. ASSUME UNCHANGED <<peers, newest>>  PROVE NewestAwaits'
  BY <1>9 DEF NewestAwaits
<1>10. CASE (\E R \in SUBSET Owners : Publish(R)) \/ TakeAck \/ Pass \/ Traffic \/ UNCHANGED vars
  BY <1>9, <1>10 DEF Publish, TakeAck, Pass, BeginPass, ProcessCommand, EndPass, Wake,
     Traffic, Packet, BeginPacket, SendProbe, SendData, ReceivePacket, DropPacket,
     controlVars, vars
<1> QED
  BY <1>2, <1>4, <1>5, <1>6, <1>7, <1>8, <1>10 DEF Next, CoordinatorCall, Control

LEMMA CommandsDiffer ==
  ASSUME NEW s, NEW t
  PROVE  /\ Command("install", s) # Command("confirm", t)
         /\ Command("install", s) = Command("install", t) <=> t = s
         /\ Command("confirm", s) = Command("confirm", t) <=> t = s
         /\ \A R : /\ [kind |-> "snapshot", owners |-> R] # Command("install", s)
                   /\ [kind |-> "snapshot", owners |-> R] # Command("confirm", s)
<1> DEFINE in(u) == Command("install", u)
           co(u) == Command("confirm", u)
<1>1. \A u : /\ in(u).kind = "install" /\ in(u).session = u
             /\ co(u).kind = "confirm" /\ co(u).session = u
  BY DEF Command
<1>2. \A R : [kind |-> "snapshot", owners |-> R].kind = "snapshot"
  OBVIOUS
<1>3. in(s) # co(t) /\ (in(s) = in(t) <=> t = s) /\ (co(s) = co(t) <=> t = s)
  <2> HIDE DEF in, co
  <2> QED  BY <1>1
<1>4. ASSUME NEW R
      PROVE  [kind |-> "snapshot", owners |-> R] \notin {in(s), co(s)}
  <2> HIDE DEF in, co
  <2> QED  BY <1>1, <1>2
<1> QED  BY <1>3, <1>4

\* What a submission and a taken command do to the queued installs and
\* confirmations.
LEMMA Queued ==
  ASSUME TypeOK, NEW c, Submit(c)
  PROVE  /\ \A s \in Sessions, i \in Nat :
              /\ InstallAt(i, s)' <=> \/ InstallAt(i, s)
                                      \/ i = Len(commands) + 1 /\ c = Command("install", s)
              /\ ConfirmAt(i, s)' <=> \/ ConfirmAt(i, s)
                                      \/ i = Len(commands) + 1 /\ c = Command("confirm", s)
              /\ InstallAt(i, s) \/ ConfirmAt(i, s) => i <= Len(commands)
         /\ Len(commands) \in Nat
<1>1. /\ commands' = Append(commands, c) /\ Len(commands) \in Nat
      /\ Len(commands') = Len(commands) + 1 /\ commands'[Len(commands) + 1] = c
      /\ \A i \in 1..Len(commands) : commands'[i] = commands[i]
  BY DEF Submit, TypeOK
<1> QED  BY <1>1 DEF InstallAt, ConfirmAt

LEMMA Taken ==
  ASSUME TypeOK, commands # <<>>, commands' = Tail(commands)
  PROVE  \A s \in Sessions, i \in Nat :
           /\ InstallAt(i, s)' <=> i > 0 /\ InstallAt(i + 1, s)
           /\ ConfirmAt(i, s)' <=> i > 0 /\ ConfirmAt(i + 1, s)
           /\ InstallAt(i, s) \/ ConfirmAt(i, s) => i > 0
           /\ InstallAt(1, s) <=> Head(commands) = Command("install", s)
           /\ ConfirmAt(1, s) <=> Head(commands) = Command("confirm", s)
<1>1. /\ Len(commands) \in Nat \ {0} /\ Head(commands) = commands[1]
      /\ Len(commands') = Len(commands) - 1
      /\ \A i \in 1..Len(commands') : commands'[i] = commands[i + 1]
  BY DEF TypeOK
<1> QED  BY <1>1 DEF InstallAt, ConfirmAt

\* A confirmation is queued for the newest session of its Node.
ConfirmQueued(s) ==
  /\ Submit(Command("confirm", s)) /\ s \in registered /\ newest[OwnerOf[s]] = s
  /\ UNCHANGED <<newest, sessions, registered>>

LEMMA OrderKinds ==
  ASSUME TypeOK, FreshInstalls, NewestAwaits, [Next]_vars
  PROVE  \/ \E s \in Sessions : Register(s) \/ ConfirmQueued(s)
         \/ \E R \in SUBSET Owners :
              /\ Submit([kind |-> "snapshot", owners |-> R])
              /\ UNCHANGED <<newest, sessions, registered>>
         \/ ProcessCommand
         \/ /\ UNCHANGED <<newest, commands, registered>>
            /\ \A s \in Sessions : sessions'[s] = sessions[s] \/ sessions'[s] = NoSession
<1>1. ASSUME NEW s \in Sessions, ConfirmAsInitiator(s)  PROVE ConfirmQueued(s)
  BY <1>1 DEF ConfirmAsInitiator, ConfirmQueued, FreshInstalls, workerVars
<1>2. CASE OnEvent
  <2> DEFINE s == Head(events).session
  <2>1. s \in Sessions
    <3>1. Head(events) \in Event  BY <1>2 DEF TypeOK, OnEvent
    <3> QED  BY <3>1 DEF Event
  <2>2. /\ UNCHANGED <<newest, sessions, registered>>
        /\ (HasPeer(s) /\ OnSessionConfirm(s)) \/ UNCHANGED commands
    BY <1>2 DEF OnEvent, OnGoodbye, workerVars
  <2> HIDE DEF s
  <2>3. CASE HasPeer(s) /\ OnSessionConfirm(s)
    <3>1. ConfirmQueued(s)
      BY <2>1, <2>2, <2>3 DEF OnSessionConfirm, ConfirmQueued, FreshInstalls, NewestAwaits
    <3> QED  BY <2>1, <3>1
  <2> QED  BY <2>2, <2>3
<1>3. ASSUME NEW R \in SUBSET Owners, Publish(R)
      PROVE  /\ Submit([kind |-> "snapshot", owners |-> R])
             /\ UNCHANGED <<newest, sessions, registered>>
  BY <1>3 DEF Publish, workerVars
<1>4. CASE BeginPass \/ BeginPacket
  <2>1. Drain /\ UNCHANGED <<newest, commands, registered>>
    BY <1>4 DEF BeginPass, BeginPacket, RetirementsBeforePacket, controlVars
  <2>2. TableOK  BY DEF TypeOK, TableOK
  <2> QED  BY <2>1, <2>2, DrainTable
<1>5. CASE \/ \E s \in Sessions : Abort(s) \/ MakeReceiveOnly(s) \/ Tick(s)
           \/ TakeAck \/ EndPass \/ Wake \/ Packet
           \/ (\E o \in Owners : SendProbe(o)) \/ UNCHANGED vars
  BY <1>5 DEF Abort, MakeReceiveOnly, Tick, TakeAck, EndPass, Wake, Packet, SendProbe,
              SendData, ReceivePacket, DropPacket, vars, controlVars, queueVars, workerVars
<1> QED
  BY <1>1, <1>2, <1>3, <1>4, <1>5 DEF Next, CoordinatorCall, Control, Pass, Traffic

LEMMA RegisterInOrder ==
  ASSUME TypeOK, FreshInstalls, InOrder, NEW n \in Sessions, Register(n)
  PROVE  InOrder'
<1>1. /\ Submit(Command("install", n)) /\ n \notin registered
      /\ registered' = registered \cup {n} /\ UNCHANGED sessions
      /\ newest' = [newest EXCEPT ![OwnerOf[n]] = n]
  BY DEF Register, workerVars
<1>2. /\ newest'[OwnerOf[n]] = n
      /\ \A s \in Sessions : OwnerOf[s] # OwnerOf[n] => newest'[OwnerOf[s]] = newest[OwnerOf[s]]
  BY <1>1 DEF TypeOK
<1>3. \A s \in Sessions : /\ Command("install", n) # Command("confirm", s)
                          /\ Command("install", n) = Command("install", s) <=> s = n
  BY CommandsDiffer
<1>4. \A s \in Sessions, i \in Nat :
        /\ ConfirmAt(i, s)' <=> ConfirmAt(i, s)
        /\ InstallAt(i, s)' <=> InstallAt(i, s) \/ (s = n /\ i = Len(commands) + 1)
        /\ ConfirmAt(i, s) => i <= Len(commands) /\ s # n
  <2>1. \A s \in Sessions, i \in Nat :
          /\ InstallAt(i, s)' <=> \/ InstallAt(i, s)
                                  \/ i = Len(commands) + 1 /\ Command("install", n) = Command("install", s)
          /\ ConfirmAt(i, s)' <=> \/ ConfirmAt(i, s)
                                  \/ i = Len(commands) + 1 /\ Command("install", n) = Command("confirm", s)
          /\ InstallAt(i, s) \/ ConfirmAt(i, s) => i <= Len(commands)
    BY <1>1, Queued
  <2>2. \A s \in Sessions, i \in Nat : ConfirmAt(i, s) => s # n
    BY <1>1 DEF InOrder, Placed
  <2> QED  BY <1>3, <2>1, <2>2
<1>5. Len(commands) \in Nat
  BY DEF TypeOK
<1>6. \A s \in Sessions : /\ Overtaken(s)' <=> Overtaken(s)
                          /\ s = n => ~Overtaken(s)
  BY <1>1 DEF Overtaken, FreshInstalls
<1>7. ASSUME NEW s \in Sessions, NEW i \in Nat, ConfirmAt(i, s)
      PROVE  Placed(i, s)'
  <2>1. Placed(i, s)  BY <1>7 DEF InOrder
  <2>2. /\ s \in registered' /\ ~Overtaken(s)'
        /\ \A k \in Nat : InstallAt(k, s)' => k < i
    BY <1>1, <1>4, <1>6, <1>7, <2>1 DEF Placed
  <2>3. ASSUME NEW m \in Sessions \ {s}, newest'[OwnerOf[s]] = m
        PROVE  InstallAfter(i, m)'
    <3>1. CASE OwnerOf[s] = OwnerOf[n]
      <4>1. PICK k \in Nat : k = Len(commands) + 1  BY <1>5
      <4>2. m = n /\ InstallAt(k, m)'  BY <1>2, <1>4, <2>3, <3>1, <4>1
      <4>3. k > i  BY <1>4, <1>5, <1>7, <4>1
      <4> QED  BY <4>2, <4>3 DEF InstallAfter
    <3>2. CASE OwnerOf[s] # OwnerOf[n]
      <4>1. InstallAfter(i, m)  BY <1>2, <2>1, <2>3, <3>2 DEF Placed
      <4> QED  BY <1>4, <4>1 DEF InstallAfter
    <3> QED  BY <3>1, <3>2
  <2> QED  BY <2>2, <2>3 DEF Placed
<1>8. ASSUME NEW s \in Sessions, NEW t \in Sessions, NEW i \in Nat, NEW j \in Nat,
             ConfirmAt(j, t), ConfirmAt(i, s), j < i, OwnerOf[s] = OwnerOf[t], s # t
      PROVE  InstallBetween(j, i, s)'
  <2>1. InstallBetween(j, i, s)  BY <1>8 DEF InOrder
  <2> QED  BY <1>4, <2>1 DEF InstallBetween
<1>9. \A s \in Sessions : newest'[OwnerOf[s]] = s => ~Overtaken(s)'
  BY <1>2, <1>6 DEF InOrder
<1> QED  BY <1>4, <1>7, <1>8, <1>9 DEF InOrder

LEMMA ConfirmInOrder ==
  ASSUME TypeOK, InOrder, NEW n \in Sessions, ConfirmQueued(n)
  PROVE  InOrder'
<1>1. \A s \in Sessions : /\ Command("confirm", n) # Command("install", s)
                          /\ Command("confirm", n) = Command("confirm", s) <=> s = n
  BY CommandsDiffer
<1>2. /\ Len(commands) \in Nat
      /\ \A s \in Sessions, i \in Nat :
           /\ ConfirmAt(i, s)' <=> ConfirmAt(i, s) \/ (s = n /\ i = Len(commands) + 1)
           /\ InstallAt(i, s)' <=> InstallAt(i, s)
           /\ InstallAt(i, s) \/ ConfirmAt(i, s) => i <= Len(commands)
  BY <1>1, Queued DEF ConfirmQueued
<1>3. /\ n \in registered /\ newest[OwnerOf[n]] = n /\ ~Overtaken(n)
      /\ UNCHANGED <<newest, registered>>
      /\ \A s \in Sessions : Overtaken(s)' <=> Overtaken(s)
  BY DEF ConfirmQueued, Overtaken, InOrder
<1>4. ASSUME NEW s \in Sessions, NEW i \in Nat, ConfirmAt(i, s)'
      PROVE  Placed(i, s)'
  <2>1. CASE ConfirmAt(i, s)
    <3>1. Placed(i, s)  BY <2>1 DEF InOrder
    <3>2. \A m \in Sessions : InstallAfter(i, m) => InstallAfter(i, m)'
      BY <1>2 DEF InstallAfter
    <3> QED  BY <1>2, <1>3, <3>1, <3>2 DEF Placed
  <2>2. CASE s = n /\ i = Len(commands) + 1
    <3>1. \A k \in Nat : InstallAt(k, s)' => k < i  BY <1>2, <2>2
    <3> QED  BY <1>3, <2>2, <3>1 DEF Placed
  <2> QED  BY <1>2, <1>4, <2>1, <2>2
<1>5. ASSUME NEW s \in Sessions, NEW t \in Sessions, NEW i \in Nat, NEW j \in Nat,
             ConfirmAt(j, t)', ConfirmAt(i, s)', j < i, OwnerOf[s] = OwnerOf[t], s # t
      PROVE  InstallBetween(j, i, s)'
  <2>1. ConfirmAt(j, t)
    <3>1. i <= Len(commands) + 1  BY <1>2, <1>5
    <3> QED  BY <1>2, <1>5, <3>1
  <2>2. CASE ConfirmAt(i, s)
    <3>1. InstallBetween(j, i, s)  BY <1>5, <2>1, <2>2 DEF InOrder
    <3> QED  BY <1>2, <3>1 DEF InstallBetween
  <2>3. CASE s = n /\ i = Len(commands) + 1
    <3>1. newest[OwnerOf[t]] = s /\ s \in Sessions \ {t}  BY <1>3, <1>5, <2>3
    <3>2. PICK k \in Nat : k > j /\ InstallAt(k, s)
      BY <2>1, <3>1 DEF InOrder, Placed, InstallAfter
    <3>3. InstallAt(k, s)' /\ k <= Len(commands)  BY <1>2, <3>2
    <3>4. k < i  BY <1>2, <2>3, <3>3
    <3> QED  BY <3>2, <3>3, <3>4 DEF InstallBetween
  <2> QED  BY <1>2, <1>5, <2>2, <2>3
<1>6. \A s \in Sessions : newest'[OwnerOf[s]] = s => ~Overtaken(s)'
  BY <1>3 DEF InOrder
<1> QED  BY <1>4, <1>5, <1>6 DEF InOrder

\* Frames of InOrder: the queue keeps its installs and confirmations, and no
\* session becomes overtaken.
LEMMA SameOrder ==
  ASSUME InOrder, UNCHANGED <<newest, registered>>,
         \A s \in Sessions, i \in Nat : /\ ConfirmAt(i, s)' <=> ConfirmAt(i, s)
                                        /\ InstallAt(i, s)' <=> InstallAt(i, s),
         \A s \in Sessions : Overtaken(s)' => Overtaken(s)
  PROVE  InOrder'
<1>1. \A s \in Sessions, i \in Nat : InstallAfter(i, s) => InstallAfter(i, s)'
  BY DEF InstallAfter
<1>2. \A s \in Sessions, i, j \in Nat : InstallBetween(j, i, s) => InstallBetween(j, i, s)'
  BY DEF InstallBetween
<1>3. \A s \in Sessions, i \in Nat : Placed(i, s) => Placed(i, s)'
  BY <1>1 DEF Placed
<1> QED  BY <1>2, <1>3 DEF InOrder

\* The worker takes the head of the queue.  A confirmation overtakes only
\* sessions whose install has yet to come.
LEMMA TakeInOrder ==
  ASSUME TypeOK, FreshInstalls, InOrder, ProcessCommand
  PROVE  InOrder'
<1>1. /\ commands # <<>> /\ commands' = Tail(commands)
      /\ UNCHANGED <<newest, registered>>
  BY DEF ProcessCommand, controlVars
<1>2. \A s \in Sessions, i \in Nat :
        /\ InstallAt(i, s)' <=> i > 0 /\ InstallAt(i + 1, s)
        /\ ConfirmAt(i, s)' <=> i > 0 /\ ConfirmAt(i + 1, s)
        /\ InstallAt(i, s) \/ ConfirmAt(i, s) => i > 0
  BY <1>1, Taken
<1>3. \A s \in Sessions : Overtaken(s)' =>
        \/ Overtaken(s)
        \/ \E t \in Sessions \ {s} :
             ConfirmAt(1, t) /\ OwnerOf[s] = OwnerOf[t] /\ sessions[s].live
  <2>1. TableOK  BY DEF TypeOK, TableOK
  <2>2. CASE UNCHANGED sessions  BY <2>2 DEF Overtaken
  <2>3. ASSUME NEW t \in Sessions,
               sessions' = [sessions EXCEPT ![t] =
                  [live |-> TRUE, confirmed |-> FALSE, transmit |-> TRUE]]
        PROVE  \A s \in Sessions : Overtaken(s)' => Overtaken(s)
    BY <2>3 DEF TypeOK, Overtaken
  <2>4. ASSUME NEW t \in Sessions,
               Head(commands).kind = "confirm", Head(commands).session = t,
               sessions' = [u \in Sessions |->
                  IF u = t
                  THEN [live |-> TRUE, confirmed |-> TRUE, transmit |-> TRUE]
                  ELSE IF u \in Superseded(t)
                       THEN [sessions[u] EXCEPT !.transmit = FALSE]
                       ELSE sessions[u]],
               NEW s \in Sessions, Overtaken(s)', ~Overtaken(s)
        PROVE  \E u \in Sessions \ {s} :
                 ConfirmAt(1, u) /\ OwnerOf[s] = OwnerOf[u] /\ sessions[s].live
    <3>1. s # t /\ s \in Superseded(t)
      BY <2>4 DEF Overtaken
    <3>2. sessions[s].live
      BY <2>4, <3>1 DEF Overtaken, TypeOK, Session
    <3>3. Head(commands) = Command("confirm", t)
      <4>1. Head(commands) \in SessionCommand \cup SnapshotCommand
        BY <1>1 DEF TypeOK
      <4> QED  BY <2>4, <4>1 DEF SessionCommand, SnapshotCommand, Command
    <3>4. ConfirmAt(1, t)  BY <1>1, <3>3, Taken
    <3> QED  BY <3>1, <3>2, <3>4 DEF Superseded
  <2> QED  BY <2>1, <2>2, <2>3, <2>4, TableStep
<1>4. ASSUME NEW s \in Sessions, NEW i \in Nat, ConfirmAt(i, s)'
      PROVE  Placed(i, s)'
  <2>1. i > 0 /\ i + 1 \in Nat /\ ConfirmAt(i + 1, s)
    <3>1. i > 0 /\ ConfirmAt(i + 1, s)  BY <1>2, <1>4
    <3> QED  BY <3>1
  <2>2. Placed(i + 1, s)  BY <2>1 DEF InOrder
  <2>3. s \in registered' /\ ~Overtaken(s)  BY <1>1, <2>2 DEF Placed
  <2>4. \A k \in Nat : InstallAt(k, s)' => k < i
    <3>1. \A k \in Nat : InstallAt(k, s)' => k + 1 \in Nat /\ InstallAt(k + 1, s)
      BY <1>2
    <3>2. \A k \in Nat : InstallAt(k, s)' => k + 1 < i + 1
      BY <2>2, <3>1 DEF Placed
    <3> QED  BY <3>2
  <2>5. ASSUME NEW t \in Sessions \ {s}, ConfirmAt(1, t), OwnerOf[s] = OwnerOf[t]
        PROVE  ~sessions[s].live
    <3>1. PICK m \in Nat : m = i + 1 /\ 1 < m /\ ConfirmAt(m, s)  BY <2>1
    <3>2. InstallBetween(1, m, s)  BY <2>5, <3>1 DEF InOrder
    <3> QED  BY <3>2 DEF InstallBetween, FreshInstalls
  <2>6. ASSUME NEW n \in Sessions \ {s}, newest'[OwnerOf[s]] = n
        PROVE  InstallAfter(i, n)'
    <3>1. PICK k \in Nat : k > i + 1 /\ InstallAt(k, n)
      BY <1>1, <2>2, <2>6 DEF Placed, InstallAfter
    <3>2. k - 1 \in Nat /\ k - 1 > i /\ k - 1 > 0 /\ (k - 1) + 1 = k
      BY <3>1
    <3>3. InstallAt(k - 1, n)'  BY <1>2, <3>1, <3>2
    <3> QED  BY <3>2, <3>3 DEF InstallAfter
  <2> QED  BY <1>3, <2>3, <2>4, <2>5, <2>6 DEF Placed
<1>5. ASSUME NEW s \in Sessions, NEW t \in Sessions, NEW i \in Nat, NEW j \in Nat,
             ConfirmAt(j, t)', ConfirmAt(i, s)', j < i, OwnerOf[s] = OwnerOf[t], s # t
      PROVE  InstallBetween(j, i, s)'
  <2>1. /\ ConfirmAt(j + 1, t) /\ ConfirmAt(i + 1, s)
        /\ i + 1 \in Nat /\ j + 1 \in Nat /\ j + 1 < i + 1
    <3>1. ConfirmAt(j + 1, t) /\ ConfirmAt(i + 1, s)  BY <1>2, <1>5
    <3> QED  BY <1>5, <3>1
  <2>2. PICK k \in Nat : j + 1 < k /\ k < i + 1 /\ InstallAt(k, s)
    BY <1>5, <2>1 DEF InOrder, InstallBetween
  <2>3. k - 1 \in Nat /\ k - 1 > 0 /\ j < k - 1 /\ k - 1 < i /\ (k - 1) + 1 = k
    BY <2>2
  <2>4. InstallAt(k - 1, s)'  BY <1>2, <2>2, <2>3
  <2> QED  BY <2>3, <2>4 DEF InstallBetween
<1>6. ASSUME NEW s \in Sessions, newest'[OwnerOf[s]] = s  PROVE ~Overtaken(s)'
  <2>1. ~Overtaken(s)  BY <1>1, <1>6 DEF InOrder
  <2>2. ASSUME NEW t \in Sessions \ {s}, ConfirmAt(1, t), OwnerOf[s] = OwnerOf[t]
        PROVE  ~sessions[s].live
    <3>1. newest[OwnerOf[t]] = s /\ Placed(1, t)  BY <1>1, <1>6, <2>2 DEF InOrder
    <3>2. \E k \in Nat : InstallAt(k, s)  BY <2>2, <3>1 DEF Placed, InstallAfter
    <3> QED  BY <3>2 DEF FreshInstalls
  <2> QED  BY <1>3, <2>1, <2>2
<1> QED  BY <1>4, <1>5, <1>6 DEF InOrder

LEMMA InOrderStep ==
  ASSUME TypeOK, FreshInstalls, NewestAwaits, InOrder, [Next]_vars
  PROVE  InOrder'
<1>1. ASSUME NEW R \in SUBSET Owners, Submit([kind |-> "snapshot", owners |-> R]),
             UNCHANGED <<newest, sessions, registered>>
      PROVE  InOrder'
  <2>1. \A s \in Sessions : /\ [kind |-> "snapshot", owners |-> R] # Command("install", s)
                            /\ [kind |-> "snapshot", owners |-> R] # Command("confirm", s)
    BY CommandsDiffer
  <2>2. \A s \in Sessions, i \in Nat : /\ ConfirmAt(i, s)' <=> ConfirmAt(i, s)
                                       /\ InstallAt(i, s)' <=> InstallAt(i, s)
    BY <1>1, <2>1, Queued
  <2>3. \A s \in Sessions : Overtaken(s)' => Overtaken(s)
    BY <1>1 DEF Overtaken
  <2> QED  BY <1>1, <2>2, <2>3, SameOrder
<1>2. CASE /\ UNCHANGED <<newest, commands, registered>>
           /\ \A s \in Sessions : sessions'[s] = sessions[s] \/ sessions'[s] = NoSession
  <2>1. \A s \in Sessions, i \in Nat : /\ ConfirmAt(i, s)' <=> ConfirmAt(i, s)
                                       /\ InstallAt(i, s)' <=> InstallAt(i, s)
    BY <1>2 DEF ConfirmAt, InstallAt
  <2>2. \A s \in Sessions : Overtaken(s)' => Overtaken(s)
    BY <1>2 DEF Overtaken, NoSession
  <2> QED  BY <1>2, <2>1, <2>2, SameOrder
<1> QED
  BY <1>1, <1>2, RegisterInOrder, ConfirmInOrder, TakeInOrder, OrderKinds

\* A session that is not in the table and will not be.
Gone(s) ==
  /\ s \in registered /\ ~sessions[s].live
  /\ \A i \in Nat : ~InstallAt(i, s)

Failure(s) == [kind |-> "failed", session |-> s]

FailedIsGone == \A s \in Sessions : Failure(s) \in Range(events) => Gone(s)

\* A session without a peer that is in the table, or may yet be, is on its way
\* out; and a peer that is marked has been queued for removal.
Accounted ==
  /\ \A s \in Sessions : peers[s].removalQueued => s \in Range(retirements) \cup retired
  /\ \A s \in Sessions : HasPeer(s) \/ Gone(s) \/ s \in Range(retirements) \cup retired
                           \/ s \notin registered

LEMMA GoneStays ==
  ASSUME FencedInv, [Next]_vars, NEW s \in Sessions, Gone(s)
  PROVE  Gone(s)'
<1>1. /\ s \in registered' /\ \A i \in Nat : ~InstallAt(i, s)'
      /\ \/ sessions'[s] = sessions[s]
         \/ sessions'[s] = NoSession
         \/ sessions'[s] = [sessions[s] EXCEPT !.transmit = FALSE]
         \/ sessions[s].live
  BY TableFate DEF Gone
<1>2. ~sessions[s].live /\ sessions[s] \in Session
  BY DEF Gone, FencedInv, TypingInv, TypeOK
<1>3. ~[sessions[s] EXCEPT !.transmit = FALSE].live /\ ~NoSession.live
  BY <1>2 DEF Session, NoSession
<1>4. ~sessions'[s].live  BY <1>1, <1>2, <1>3
<1> QED  BY <1>1, <1>4 DEF Gone

LEMMA PushRange ==
  ASSUME TypeOK, NEW event \in Event, Push(event)
  PROVE  Range(events') \subseteq Range(events) \cup {event}
<1>1. events \in Seq(Event)  BY DEF TypeOK
<1>2. Range(Append(events, event)) = Range(events) \cup {event}
  BY <1>1, RangeAppend
<1> QED  BY <1>2 DEF Push

\* The worker reports a failure when an install is refused, or a confirmation
\* finds no session; a session that was overtaken is never confirmed.
LEMMA FailureReported ==
  ASSUME FencedInv, InOrder, ProcessCommand, NEW s \in Sessions,
         Failure(s) \in Range(events'), Failure(s) \notin Range(events)
  PROVE  Gone(s)'
<1> USE DEF FencedInv, TypingInv
<1> DEFINE c == Head(commands)
<1>1. /\ commands # <<>> /\ commands' = Tail(commands) /\ registered' = registered
      /\ c \in SessionCommand \cup SnapshotCommand
  BY DEF ProcessCommand, controlVars, TypeOK
<1>2. \A i \in Nat : InstallAt(i, s)' => i > 0 /\ i + 1 \in Nat /\ InstallAt(i + 1, s)
  <2>1. \A i \in Nat : InstallAt(i, s)' => i > 0 /\ InstallAt(i + 1, s)
    BY <1>1, Taken
  <2> QED  BY <2>1
<1>3. ASSUME NEW t \in Sessions, Push([kind |-> "failed", session |-> t])  PROVE t = s
  <2>1. [kind |-> "failed", session |-> t] \in Event  BY DEF Event
  <2>2. Range(events') \subseteq Range(events) \cup {[kind |-> "failed", session |-> t]}
    BY <1>3, <2>1, PushRange
  <2>3. Failure(s) = [kind |-> "failed", session |-> t]  BY <2>2
  <2>4. Failure(s).session = s /\ [kind |-> "failed", session |-> t].session = t
    BY DEF Failure
  <2> QED  BY <2>3, <2>4
<1>4. CASE c.kind = "install" /\ Install(c.session)
  <2>1. c.session \in Sessions  BY <1>1, <1>4, HeadCommand DEF TypeOK, TableOK
  <2>2. c.session = s /\ UNCHANGED sessions
    BY <1>3, <1>4, <2>1 DEF Install
  <2>3. InstallAt(1, s)
    <3>1. c = Command("install", s)
      BY <1>1, <1>4, <2>2 DEF SessionCommand, SnapshotCommand, Command
    <3> QED  BY <1>1, <3>1, Taken
  <2>4. s \in registered /\ ~sessions[s].live  BY <2>3 DEF FreshInstalls
  <2>5. \A i \in Nat : ~InstallAt(i, s)'
    <3> SUFFICES ASSUME NEW i \in Nat, InstallAt(i, s)' PROVE FALSE
      OBVIOUS
    <3>1. i > 0 /\ i + 1 = 1  BY <1>2, <2>3 DEF FreshInstalls
    <3> QED  BY <3>1
  <2> QED  BY <1>1, <2>2, <2>4, <2>5 DEF Gone
<1>5. CASE c.kind = "confirm" /\ Confirm(c.session)
  <2>1. c.session \in Sessions  BY <1>1, <1>5, HeadCommand DEF TypeOK, TableOK
  <2>2. /\ c.session = s /\ UNCHANGED sessions
        /\ ~sessions[s].live \/ (sessions[s].confirmed /\ ~sessions[s].transmit)
    BY <1>3, <1>5, <2>1 DEF Confirm
  <2>3. ConfirmAt(1, s)
    <3>1. c = Command("confirm", s)
      BY <1>1, <1>5, <2>2 DEF SessionCommand, SnapshotCommand, Command
    <3> QED  BY <1>1, <3>1, Taken
  <2>4. Placed(1, s)  BY <2>3 DEF InOrder
  <2>5. s \in registered /\ ~sessions[s].live
    BY <2>2, <2>4 DEF Placed, Overtaken
  <2>6. \A i \in Nat : ~InstallAt(i, s)'
    <3> SUFFICES ASSUME NEW i \in Nat, InstallAt(i, s)' PROVE FALSE
      OBVIOUS
    <3>1. i > 0 /\ i + 1 < 1  BY <1>2, <2>4 DEF Placed
    <3> QED  BY <3>1
  <2> QED  BY <1>1, <2>2, <2>5, <2>6 DEF Gone
<1>6. CASE c.kind = "snapshot" /\ InstallSnapshot(c.owners)
  BY <1>6 DEF InstallSnapshot
<1> QED  BY <1>4, <1>5, <1>6 DEF ProcessCommand

LEMMA FailedStep ==
  ASSUME FencedInv, InOrder, FailedIsGone, [Next]_vars
  PROVE  FailedIsGone'
<1> USE DEF FencedInv, TypingInv
<1>1. ASSUME NEW s \in Sessions, Failure(s) \in Range(events)  PROVE Gone(s)'
  BY <1>1, GoneStays DEF FailedIsGone
<1>2. CASE Range(events') \subseteq Range(events)
  BY <1>1, <1>2 DEF FailedIsGone
<1>3. CASE OnEvent
  <2>1. events # <<>> /\ events' = Tail(events) /\ events \in Seq(Event)
    BY <1>3 DEF OnEvent, TypeOK
  <2>2. /\ Len(events') = Len(events) - 1 /\ Len(events) \in Nat
        /\ \A i \in 1..Len(events') : events'[i] = events[i + 1]
    BY <2>1
  <2>3. Range(events') \subseteq Range(events)
    BY <2>1, <2>2 DEF Range
  <2> QED  BY <1>2, <2>3
<1>4. ASSUME NEW t \in Sessions, ReceivePacket(t)  PROVE FailedIsGone'
  <2>1. PICK frame \in Frames : Push([kind |-> frame, session |-> t])
    BY <1>4 DEF ReceivePacket
  <2>2. [kind |-> frame, session |-> t] \in Event  BY DEF Event
  <2>3. Range(events') \subseteq Range(events) \cup {[kind |-> frame, session |-> t]}
    BY <2>1, <2>2, PushRange
  <2>4. ASSUME NEW s \in Sessions  PROVE Failure(s) # [kind |-> frame, session |-> t]
    <3>1. /\ Failure(s).kind = "failed"
          /\ [kind |-> frame, session |-> t].kind = frame /\ frame # "failed"
      BY DEF Failure, Frames
    <3> QED  BY <3>1
  <2> QED  BY <1>1, <2>3, <2>4 DEF FailedIsGone
<1>5. CASE ProcessCommand
  BY <1>1, <1>5, FailureReported DEF FailedIsGone
<1>6. CASE UNCHANGED events
  BY <1>2, <1>6
<1>7. OnEvent \/ ProcessCommand \/ (\E t \in Sessions : ReceivePacket(t)) \/ UNCHANGED events
  BY DEF Next, CoordinatorCall, Control, Pass, Traffic, Packet, Register,
         ConfirmAsInitiator, Abort, MakeReceiveOnly, Publish, TakeAck, Tick, BeginPass,
         EndPass, Wake, BeginPacket, SendProbe, SendData, DropPacket, queueVars, vars
<1> QED  BY <1>3, <1>4, <1>5, <1>6, <1>7

\* A peer is marked, or leaves, only with its retirement queued or its session
\* reported as failed.
LEMMA LeaveStep ==
  ASSUME TypeOK, OnEvent \/ \E s \in Sessions : Tick(s) \/ Abort(s), NEW t \in Sessions
  PROVE  /\ Range(retirements) \subseteq Range(retirements')
         /\ peers'[t].removalQueued => peers[t].removalQueued \/ t \in Range(retirements')
         /\ HasPeer(t) /\ ~HasPeer(t)'
              => \/ peers[t].removalQueued \/ t \in Range(retirements')
                 \/ Failure(t) \in Range(events)
<1> DEFINE Left(u) ==
      /\ Range(retirements) \subseteq Range(retirements')
      /\ peers'[u].removalQueued => peers[u].removalQueued \/ u \in Range(retirements')
      /\ HasPeer(u) /\ ~HasPeer(u)'
           => \/ peers[u].removalQueued \/ u \in Range(retirements')
              \/ Failure(u) \in Range(events)
<1>1. /\ \A s \in Sessions : peers[s] \in Peer
      /\ \A s \in Sessions : retirements' = Append(retirements, s)
           => Range(retirements') = Range(retirements) \cup {s}
  <2>1. retirements \in Seq(Sessions)  BY DEF TypeOK
  <2>2. \A s \in Sessions : Range(Append(retirements, s)) = Range(retirements) \cup {s}
    BY <2>1, RangeAppend
  <2> QED  BY <2>2 DEF TypeOK
<1>2. ASSUME NEW s \in Sessions, GoOffline(s)  PROVE Left(t)
  BY <1>1, <1>2 DEF GoOffline, HasPeer, TypeOK
<1>3. ASSUME NEW s \in Sessions, Abort(s)  PROVE Left(t)
  <2>1. \A u \in Sessions \ {s} : peers'[u] = peers[u]
    BY <1>3 DEF Abort, TypeOK
  <2>2. CASE peers' = [peers EXCEPT ![s] = NoPeer] /\ ~Owed(s) /\ UNCHANGED retirements
    BY <2>1, <2>2 DEF TypeOK, Owed, NoPeer, HasPeer
  <2>3. CASE peers' = [peers EXCEPT ![s] = NoPeer] /\ retirements' = Append(retirements, s)
    BY <1>1, <2>1, <2>3 DEF TypeOK, NoPeer, HasPeer
  <2>4. CASE peers' = [peers EXCEPT ![s] = KeptWhenRefused(s)] /\ UNCHANGED retirements
    <3>1. /\ KeptWhenRefused(s).removalQueued = peers[s].removalQueued
          /\ KeptWhenRefused(s).state = peers[s].state
      BY <1>1 DEF KeptWhenRefused, Peer
    <3> QED  BY <2>1, <2>4, <3>1 DEF TypeOK, HasPeer
  <2> QED  BY <1>3, <2>2, <2>3, <2>4 DEF Abort
<1>4. ASSUME OnEvent  PROVE Left(t)
  <2> DEFINE s == Head(events).session
  <2>1. s \in Sessions /\ Head(events) \in Event /\ Head(events) \in Range(events)
    <3>1. events \in Seq(Event) /\ events # <<>>  BY <1>4 DEF TypeOK, OnEvent
    <3>2. /\ Head(events) \in Event /\ Head(events) = events[1]
          /\ 1 \in DOMAIN events
      BY <3>1
    <3> QED  BY <3>2 DEF Event, Range
  <2>2. \/ /\ Head(events).kind = "failed" /\ UNCHANGED retirements
           /\ peers' = [peers EXCEPT ![s] = NoPeer]
        \/ OnSessionConfirm(s)
        \/ OnGoodbye(s)
        \/ UNCHANGED <<peers, retirements>>
    BY <1>4 DEF OnEvent
  <2>3. Head(events).kind = "failed" => Failure(s) \in Range(events)
    BY <2>1 DEF Event, Failure
  <2> HIDE DEF s
  <2>4. ASSUME peers' = [peers EXCEPT ![s] = NoPeer], UNCHANGED retirements,
               Failure(s) \in Range(events)
        PROVE  Left(t)
    BY <2>1, <2>4 DEF TypeOK, NoPeer, HasPeer
  <2>5. ASSUME OnSessionConfirm(s)  PROVE Left(t)
    <3>1. [peers[s] EXCEPT !.state = "online"].removalQueued = peers[s].removalQueued
      BY <1>1, <2>1 DEF Peer
    <3> QED  BY <1>1, <2>1, <2>5, <3>1 DEF OnSessionConfirm, TypeOK, HasPeer, Peer
  <2>6. ASSUME OnGoodbye(s)  PROVE Left(t)
    <3> HIDE DEF Left
    <3> QED  BY <1>2, <2>1, <2>6 DEF OnGoodbye
  <2>7. ASSUME UNCHANGED <<peers, retirements>>  PROVE Left(t)
    BY <2>7 DEF HasPeer
  <2> HIDE DEF Left
  <2> QED  BY <2>2, <2>3, <2>4, <2>5, <2>6, <2>7
<1>5. ASSUME NEW s \in Sessions, Tick(s)  PROVE Left(t)
  <2>1. GoOffline(s)  BY <1>5 DEF Tick, RetryRetirement, Silence
  <2> HIDE DEF Left
  <2> QED  BY <1>2, <2>1
<1>6. Left(t)
  <2> HIDE DEF Left
  <2> QED  BY <1>3, <1>4, <1>5
<1> QED  BY <1>6

LEMMA AccountedStep ==
  ASSUME FencedInv, FailedIsGone, Accounted, [Next]_vars
  PROVE  Accounted'
<1> USE DEF FencedInv, TypingInv
<1> DEFINE Out(s) == s \in Range(retirements) \cup retired
<1>1. \A s \in Sessions : Gone(s) => Gone(s)'
  BY GoneStays
<1>2. CASE /\ \A s \in Sessions : Out(s) => Out(s)'
           /\ registered' = registered
           /\ \A s \in Sessions : /\ HasPeer(s)' <=> HasPeer(s)
                                  /\ peers'[s].removalQueued = peers[s].removalQueued
  <2> HIDE DEF Out
  <2>1. \A s \in Sessions : /\ peers[s].removalQueued => Out(s)
                            /\ HasPeer(s) \/ Gone(s) \/ Out(s) \/ s \notin registered
    BY DEF Accounted, Out
  <2>2. \A s \in Sessions : /\ peers'[s].removalQueued => Out(s)'
                            /\ HasPeer(s)' \/ Gone(s)' \/ Out(s)' \/ s \notin registered'
    BY <1>1, <1>2, <2>1
  <2> QED  BY <2>2 DEF Accounted, Out
<1>3. ASSUME NEW s \in Sessions, Register(s)  PROVE Accounted'
  <2>1. /\ UNCHANGED <<retirements, retired>> /\ registered' = registered \cup {s}
        /\ peers' = [peers EXCEPT ![s] = NewPeer]
    BY <1>3 DEF Register, historyVars
  <2>2. /\ \A t \in Sessions \ {s} : peers'[t] = peers[t]
        /\ HasPeer(s)' /\ ~peers'[s].removalQueued
    BY <2>1 DEF TypeOK, HasPeer, NewPeer
  <2>3. \A t \in Sessions \ {s} : HasPeer(t)' <=> HasPeer(t)
    BY <2>2 DEF HasPeer
  <2> QED  BY <1>1, <2>1, <2>2, <2>3 DEF Accounted
<1>4. CASE OnEvent \/ \E s \in Sessions : Tick(s) \/ Abort(s)
  <2>1. UNCHANGED <<registered, retired>>  BY <1>4, ControlStep
  <2>2. ASSUME NEW t \in Sessions
        PROVE  /\ peers'[t].removalQueued => Out(t)'
               /\ HasPeer(t)' \/ Gone(t)' \/ Out(t)' \/ t \notin registered'
    <3>1. /\ Range(retirements) \subseteq Range(retirements')
          /\ peers'[t].removalQueued => peers[t].removalQueued \/ t \in Range(retirements')
          /\ HasPeer(t) /\ ~HasPeer(t)'
               => \/ peers[t].removalQueued \/ t \in Range(retirements')
                  \/ Failure(t) \in Range(events)
      BY <1>4, LeaveStep
    <3>2. Out(t) => Out(t)'  BY <2>1, <3>1
    <3>3. Failure(t) \in Range(events) => Gone(t)  BY DEF FailedIsGone
    <3> QED  BY <1>1, <2>1, <3>1, <3>2, <3>3 DEF Accounted
  <2> QED  BY <2>2 DEF Accounted
<1>5. CASE Drain /\ UNCHANGED <<commands, peers, registered>>
  <2>1. \A s \in Sessions : Out(s) => Out(s)'
    BY <1>5 DEF Drain
  <2> QED  BY <1>2, <1>5, <2>1 DEF HasPeer
<1>6. CASE ProcessCommand \/ EndPass
  BY <1>2, <1>6 DEF ProcessCommand, EndPass, controlVars, queueVars, historyVars, HasPeer
<1>7. CASE Idle
  BY <1>2, <1>7 DEF Idle
<1> QED  BY <1>3, <1>4, <1>5, <1>6, <1>7, StepKinds

\* The worker holds no keys that nobody will ever retire: a session without a
\* control peer was never installed, was refused, or is being retired.
THEOREM NoOrphans == Spec => []NoOrphanSession
<1> DEFINE I == FencedInv /\ NewestAwaits /\ InOrder /\ FailedIsGone /\ Accounted
<1>1. Init => I
  <2> SUFFICES ASSUME Init PROVE I
    OBVIOUS
  <2>1. /\ registered = {} /\ commands = <<>> /\ Range(events) = {}
        /\ \A s \in Sessions : /\ peers[s] = NoPeer /\ sessions[s] = NoSession
                               /\ \A i \in Nat : ~ConfirmAt(i, s)
    BY DEF Init, Range, ConfirmAt
  <2>2. NewestAwaits /\ FailedIsGone /\ Accounted
    BY <2>1 DEF NewestAwaits, FailedIsGone, Accounted, NoPeer
  <2>3. InOrder
    BY <2>1 DEF InOrder, Overtaken, NoSession
  <2> QED  BY <2>2, <2>3, FencedInvInit
<1>2. I /\ [Next]_vars => I'
  <2> SUFFICES ASSUME I, [Next]_vars PROVE I'
    OBVIOUS
  <2>1. TypeOK /\ FreshInstalls  BY DEF FencedInv, TypingInv
  <2> QED
    BY <2>1, FencedInvStep, NewestStep, InOrderStep, FailedStep, AccountedStep
<1>3. I => NoOrphanSession
  <2> SUFFICES ASSUME I, NEW s \in Sessions, sessions[s].live
               PROVE  HasPeer(s) \/ s \in Range(retirements)
    BY DEF NoOrphanSession
  <2>1. s \in registered /\ s \notin retired
    BY DEF FencedInv, FreshInstalls, Fenced
  <2> QED  BY <2>1 DEF Accounted, Gone
<1> QED  BY <1>1, <1>2, <1>3, PTL DEF Spec

=============================================================================
