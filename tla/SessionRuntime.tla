--------------------------- MODULE SessionRuntime ---------------------------
(***************************************************************************)
(* The two threads of one NTIP daemon (Master or Node) and the bounded     *)
(* queues between them:                                                    *)
(*                                                                         *)
(*   control thread   runtime/control_plane.zig: one Peer per session,     *)
(*                    its liveness state and its right to transmit;        *)
(*   DATA worker      runtime/data_worker.zig and runtime/data_plane.zig:  *)
(*                    session table, route bindings, retirement fences.    *)
(*                                                                         *)
(* Commands travel in FIFO order; retirements travel in a second queue     *)
(* that the worker drains first, so a retirement may overtake the install  *)
(* it revokes.  Events travel back in a queue that drops when it is full.  *)
(*                                                                         *)
(* The handshake coordinators are the callers of the control plane: here   *)
(* they make any calls that the two coordinators' contract allows (see     *)
(* Register and ConfirmAsInitiator).  The network delivers any             *)
(* authenticated frame for a session the worker holds.                     *)
(***************************************************************************)
EXTENDS Integers, Sequences, FiniteSets, Functions

CONSTANTS
  Sessions,        \* receiver session ids; 0 is "no session" in the code
  Owners,          \* Node UUIDs, the owners of sessions and of routes
  OwnerOf,         \* the owner a session was negotiated for
  CreatedNs,       \* the monotonic time at which a session is registered
  CommandCap,      \* capacity of the command queue (4096 in the daemons)
  EventCap,        \* capacity of the event queue (1024)
  RetirementCap,   \* capacity of the retirement queue and of the fences
  AckCap,          \* capacity of the barrier acknowledgement queue (2)
  TableCap,        \* sessions the open-addressed table accepts
  MaxPublications  \* bound on the snapshots published in a behaviour

ASSUME SessionsAssumption == Sessions \subseteq Nat \ {0}
ASSUME OwnersAssumption ==
  /\ OwnerOf \in [Sessions -> Owners]
  /\ CreatedNs \in [Sessions -> Nat]
ASSUME CapsAssumption ==
  /\ {CommandCap, EventCap, RetirementCap, AckCap, TableCap} \subseteq Nat \ {0}
  /\ MaxPublications \in Nat

VARIABLES
  \* control thread
  peers,        \* session -> Peer record; state "absent" when not in the list
  newest,       \* owner -> the session registered last for it
  registered,   \* every receiver id ever handed to the control plane
  published,    \* snapshots submitted so far
  \* queues
  commands, retirements, events, acks,
  \* DATA worker
  sessions,     \* session -> entry of the session table, or NoSession
  routes,       \* owner with a route in the installed snapshot -> session or 0
  fences,       \* receiver ids noted by retirements since the last quiet point
  overflow,     \* the fence array was full: every install is refused
  ackPending,   \* a barrier acknowledgement still waits for queue space
  phase,        \* where the worker is in its loop
  \* history
  retired,      \* retirements the worker has carried out
  heeded,       \* retirements queued when it began its pass or its packet
  lastSent,     \* owner -> session of the last DATA datagram sent to it
  replaced      \* sessions another session of the owner has sent DATA after

controlVars == <<peers, newest, registered, published>>
queueVars   == <<commands, retirements, events, acks>>
workerVars  == <<sessions, routes, fences, overflow, ackPending, phase>>
historyVars == <<retired, heeded, lastSent, replaced>>
vars == <<controlVars, queueVars, workerVars, historyVars>>

-----------------------------------------------------------------------------
(* Data                                                                    *)

\* "online" stands for online, suspect and rekey_due: how long a confirmed peer
\* has been silent, and whether it should rekey, is left open.
PeerStates == {"absent", "awaiting", "online", "offline"}
Peer == [state : PeerStates, transmit : BOOLEAN, removalQueued : BOOLEAN]
NoPeer == [state |-> "absent", transmit |-> FALSE, removalQueued |-> FALSE]
NewPeer == [state |-> "awaiting", transmit |-> TRUE, removalQueued |-> FALSE]

NoSession == [live |-> FALSE, confirmed |-> FALSE, transmit |-> FALSE]
Session == [live : BOOLEAN, confirmed : BOOLEAN, transmit : BOOLEAN]

SessionCommand == [kind : {"install", "confirm"}, session : Sessions]
SnapshotCommand == [kind : {"snapshot"}, owners : SUBSET Owners]
Frames == {"session_confirm", "goodbye"}
Event == [kind : {"failed"} \cup Frames, session : Sessions]

HasPeer(s) == peers[s].state # "absent"
Transmits(s) == sessions[s].confirmed /\ sessions[s].transmit

\* The command queue refuses a push when it is full and the caller sees it.
\* It also carries the CONTROL frames and the datagrams to send, which change
\* neither the session table nor a peer and are left out: the queue may be
\* full, and a push refused, with any number of commands below in it.
Command(kind, s) == [kind |-> kind, session |-> s]
Submit(command) ==
  /\ Len(commands) < CommandCap
  /\ commands' = Append(commands, command)

\* DATA-to-control events are lost when the queue is full.  The queue also
\* carries the observation of every packet and the frames that only move a peer
\* among the states of "online", so it may be full at any time.
Push(event) ==
  \/ events' = events
  \/ Len(events) < EventCap /\ events' = Append(events, event)

-----------------------------------------------------------------------------
(* Control plane: calls made by the handshake coordinators                 *)

\* registerPendingSession: the install command is queued before the peer
\* exists.  The contract of both coordinators: the receiver id is fresh, the
\* clock does not run backwards and a Node has one unconfirmed session.
Register(s) ==
  /\ s \notin registered
  /\ \A t \in registered : CreatedNs[t] <= CreatedNs[s]
  /\ \A t \in Sessions : OwnerOf[t] = OwnerOf[s] => peers[t].state # "awaiting"
  /\ Submit(Command("install", s))
  /\ peers' = [peers EXCEPT ![s] = NewPeer]
  /\ newest' = [newest EXCEPT ![OwnerOf[s]] = s]
  /\ registered' = registered \cup {s}
  /\ UNCHANGED <<published, retirements, events, acks, workerVars, historyVars>>

\* confirmAsInitiator: SESSION_CONFIRM is queued and then the activation; if
\* either is refused the peer stays unconfirmed.  The Node calls it for its
\* newest session only, and again on each retry.
ConfirmAsInitiator(s) ==
  /\ HasPeer(s) /\ peers[s].transmit
  /\ newest[OwnerOf[s]] = s
  /\ Submit(Command("confirm", s))
  /\ peers' = [peers EXCEPT ![s].state = "online"]
  /\ UNCHANGED <<newest, registered, published, retirements, events, acks,
                 workerVars, historyVars>>

\* A retirement is owed until it has been queued once.
OwedAlways(s) == TRUE
Owed(s) == ~peers[s].removalQueued

\* The peer abortSession leaves when the retirement queue is full: one that
\* cannot transmit, for the coordinator to abort again.
ForgottenWhenRefused(s) == NoPeer
KeptWhenRefused(s) == [peers[s] EXCEPT !.transmit = FALSE]

\* abortSession
Abort(s) ==
  /\ HasPeer(s)
  /\ \/ /\ ~Owed(s)
        /\ peers' = [peers EXCEPT ![s] = NoPeer]
        /\ UNCHANGED retirements
     \/ /\ Owed(s) /\ Len(retirements) < RetirementCap
        /\ retirements' = Append(retirements, s)
        /\ peers' = [peers EXCEPT ![s] = NoPeer]
     \/ /\ Owed(s) /\ Len(retirements) >= RetirementCap
        /\ peers' = [peers EXCEPT ![s] = KeptWhenRefused(s)]
        /\ UNCHANGED retirements
  /\ UNCHANGED <<newest, registered, published, commands, events, acks,
                 workerVars, historyVars>>

\* makeReceiveOnly: nothing sets transmit again.
MakeReceiveOnly(s) ==
  /\ HasPeer(s)
  /\ peers' = [peers EXCEPT ![s].transmit = FALSE]
  /\ UNCHANGED <<newest, registered, published, queueVars, workerVars,
                 historyVars>>

\* The publishers: a snapshot that routes the owners in R.
Publish(R) ==
  /\ published < MaxPublications
  /\ Submit([kind |-> "snapshot", owners |-> R])
  /\ published' = published + 1
  /\ UNCHANGED <<peers, newest, registered, retirements, events, acks,
                 workerVars, historyVars>>

-----------------------------------------------------------------------------
(* Control plane: events and timers                                        *)

\* A peer that leaves through goodbye or silence: its retirement is queued at
\* once if the queue has room, and otherwise by a later tick.
GoOffline(s) ==
  LET accepted == Owed(s) /\ Len(retirements) < RetirementCap
  IN /\ peers' = [peers EXCEPT ![s] =
          [state |-> "offline", transmit |-> FALSE,
           removalQueued |-> @.removalQueued \/ accepted]]
     /\ retirements' = IF accepted THEN Append(retirements, s)
                                   ELSE retirements

\* handleControl for session_confirm with the expected handshake hash.
OnSessionConfirm(s) ==
  /\ peers[s].state = "awaiting"
  /\ Submit(Command("confirm", s))
  /\ peers' = [peers EXCEPT ![s].state = "online"]
  /\ UNCHANGED retirements

\* handleControl for goodbye: an unconfirmed peer does not take it.
OnGoodbye(s) ==
  /\ peers[s].state # "awaiting"
  /\ GoOffline(s)
  /\ UNCHANGED commands

\* onEvent.  A receive-only peer takes nothing but a failure report, and a
\* frame may also find the command queue full, or change nothing.
OnEvent ==
  /\ events # <<>>
  /\ events' = Tail(events)
  /\ LET s == Head(events).session
         kind == Head(events).kind
         able == HasPeer(s) /\ peers[s].transmit
     IN \/ /\ kind = "failed"
           /\ peers' = [peers EXCEPT ![s] = NoPeer]
           /\ UNCHANGED <<commands, retirements>>
        \/ able /\ kind = "session_confirm" /\ OnSessionConfirm(s)
        \/ able /\ kind = "goodbye" /\ OnGoodbye(s)
        \/ /\ ~able \/ kind = "session_confirm" \/ peers[s].state = "awaiting"
           /\ kind # "failed"
           /\ UNCHANGED <<commands, peers, retirements>>
  /\ UNCHANGED <<newest, registered, published, acks, workerVars, historyVars>>

\* The timers of one peer.  How long it has been silent is left open.
NeverRetryRetirement(s) == FALSE
RetryRetirement(s) ==  \* an offline peer offers its retirement again
  /\ peers[s].state = "offline" /\ ~peers[s].removalQueued
  /\ GoOffline(s)
Silence(s) ==          \* offline_interval_ns without an authenticated packet
  /\ peers[s].state = "online" /\ peers[s].transmit
  /\ GoOffline(s)
Tick(s) ==
  /\ RetryRetirement(s) \/ Silence(s)
  /\ UNCHANGED <<newest, registered, published, commands, events, acks,
                 workerVars, historyVars>>

\* The publisher takes one barrier acknowledgement.
TakeAck ==
  /\ acks > 0
  /\ acks' = acks - 1
  /\ UNCHANGED <<controlVars, commands, retirements, events, workerVars,
                 historyVars>>

-----------------------------------------------------------------------------
(* DATA worker                                                             *)

Candidates(table, o) ==
  {s \in Sessions : OwnerOf[s] = o /\ table[s].confirmed /\ table[s].transmit}

\* rebindOwner's choice: the newest confirmed transmitting session of an
\* owner, ties broken by receiver id, or 0.
Selected(table, o) ==
  IF Candidates(table, o) = {} THEN 0
  ELSE CHOOSE s \in Candidates(table, o) : \A t \in Candidates(table, o) :
         \/ CreatedNs[t] < CreatedNs[s]
         \/ CreatedNs[t] = CreatedNs[s] /\ t <= s

Rebind(table, bound, os) ==
  [o \in DOMAIN bound |-> IF o \in os THEN Selected(table, o) ELSE bound[o]]

\* RetirementFences.note has room for these receiver ids.
FencesHold(ids) == Cardinality(ids) <= RetirementCap

\* processRetirements: every queued retirement is noted as a fence and its
\* session removed.  Once the fence array overflows its contents do not
\* matter, as every install is then refused.
Drain ==
  LET gone == Range(retirements)
      table == [s \in Sessions |->
                  IF s \in gone THEN NoSession ELSE sessions[s]]
      fits == FencesHold(fences \cup gone)
  IN /\ retirements' = <<>>
     /\ sessions' = table
     /\ routes' = Rebind(table, routes,
                         {OwnerOf[s] : s \in {t \in gone : sessions[t].live}})
     /\ fences' = IF fits THEN fences \cup gone ELSE fences
     /\ overflow' = (overflow \/ ~fits)
     /\ retired' = retired \cup gone

\* RetirementFences.blocks
BlockedByFencesOnly(s) == s \in fences
Blocked(s) == overflow \/ s \in fences

\* flushSnapshotAck, with an acknowledgement pending or not.
Flush(pending) ==
  IF pending /\ acks < AckCap
  THEN acks' = acks + 1 /\ ackPending' = FALSE
  ELSE acks' = acks /\ ackPending' = pending

\* The head of the loop: an acknowledgement that did not fit is offered again,
\* retirements go first, and commands wait while an acknowledgement does.
BeginPass ==
  /\ phase = "top"
  /\ Flush(ackPending)
  /\ Drain
  /\ heeded' = retired \cup Range(retirements)
  /\ phase' = IF ackPending' THEN "end" ELSE "commands"
  /\ UNCHANGED <<controlVars, commands, events, lastSent, replaced>>

\* processCommand for install_session.  The table refuses a session when it is
\* loaded, and also when no empty slot is left for a new key (SessionTable).
Install(s) ==
  LET room == Cardinality({t \in Sessions : sessions[t].live}) < TableCap
  IN /\ \/ /\ ~Blocked(s) /\ room
           /\ sessions' = [sessions EXCEPT ![s] =
                [live |-> TRUE, confirmed |-> FALSE, transmit |-> TRUE]]
           /\ UNCHANGED events
        \/ /\ Push([kind |-> "failed", session |-> s])
           /\ UNCHANGED sessions
     /\ UNCHANGED <<routes, acks, ackPending>>

\* The sessions that turn receive-only when s is confirmed.
SupersedesNone(s) == {}
Superseded(s) == {t \in Sessions : OwnerOf[t] = OwnerOf[s]} \ {s}

\* DataPlane.confirmSession: every other session of the owner turns
\* receive-only; a superseded session is refused.
Confirm(s) ==
  /\ \/ /\ sessions[s].live /\ ~sessions[s].confirmed
        /\ LET table == [t \in Sessions |->
                 IF t = s
                 THEN [live |-> TRUE, confirmed |-> TRUE, transmit |-> TRUE]
                 ELSE IF t \in Superseded(s)
                      THEN [sessions[t] EXCEPT !.transmit = FALSE]
                      ELSE sessions[t]]
           IN /\ sessions' = table
              /\ routes' = Rebind(table, routes, {OwnerOf[s]})
        /\ UNCHANGED events
     \/ /\ Transmits(s)
        /\ UNCHANGED <<sessions, routes, events>>
     \/ /\ ~sessions[s].live \/ (sessions[s].confirmed /\ ~sessions[s].transmit)
        /\ Push([kind |-> "failed", session |-> s])
        /\ UNCHANGED <<sessions, routes>>
  /\ UNCHANGED <<acks, ackPending>>

\* replacePolicySnapshots, replaceClientPolicySnapshots: the new routes start
\* unbound and take the current bindings.
RoutesUnbound(R) == [o \in R |-> 0]
RoutesBound(R) == Rebind(sessions, [o \in R |-> 0], R)

\* install_master_snapshot and install_client_snapshot: the routes, then the
\* barrier acknowledgement.
InstallSnapshot(R) ==
  /\ routes' = RoutesBound(R)
  /\ Flush(TRUE)
  /\ UNCHANGED <<sessions, events>>

\* processCommand on the next command.
ProcessCommand ==
  /\ phase = "commands" /\ commands # <<>>
  /\ commands' = Tail(commands)
  /\ LET c == Head(commands)
     IN \/ c.kind = "install" /\ Install(c.session)
        \/ c.kind = "confirm" /\ Confirm(c.session)
        \/ c.kind = "snapshot" /\ InstallSnapshot(c.owners)
  /\ phase' = IF ackPending' THEN "end" ELSE "commands"
  /\ UNCHANGED <<controlVars, retirements, fences, overflow, historyVars>>

\* The end of processCommands: the fences fall if the command queue is empty,
\* with no frame or datagram in it either.
EndPass ==
  /\ phase = "end" \/ (phase = "commands" /\ commands = <<>>)
  /\ \/ commands = <<>> /\ fences' = {} /\ overflow' = FALSE
     \/ UNCHANGED <<fences, overflow>>
  /\ phase' = "probes"
  /\ UNCHANGED <<controlVars, queueVars, sessions, routes, ackPending, historyVars>>

\* encryptData: a packet for an address of o leaves on the session the route is
\* bound to.
Transmit(o, s) ==
  /\ o \in DOMAIN routes /\ routes[o] = s /\ Transmits(s)
  /\ lastSent' = [lastSent EXCEPT ![o] = s]
  /\ replaced' = replaced \cup ({lastSent[o]} \ {0, s})

\* processConnectivity: the Master's connectivity requests leave as DATA, any
\* number of them after a pass and with no look at the retirements in between.
\* A request that encryptData refuses changes nothing here.
SendProbe(o) ==
  /\ phase = "probes"
  /\ \E s \in Sessions : Transmit(o, s)
  /\ UNCHANGED <<controlVars, queueVars, workerVars, retired, heeded>>

\* handleTun and handleUdp begin with the retirements, before the packet is read.
PacketBeforeRetirements ==
  UNCHANGED <<retirements, sessions, routes, fences, overflow, retired>>
RetirementsBeforePacket == Drain
BeginPacket ==
  /\ phase \in {"probes", "io"}
  /\ RetirementsBeforePacket
  /\ heeded' = retired \cup Range(retirements)
  /\ phase' = "packet"
  /\ UNCHANGED <<controlVars, commands, events, acks, ackPending, lastSent, replaced>>

\* handleTun: the packet read meanwhile is encrypted.
SendData(o) ==
  /\ phase = "packet"
  /\ \E s \in Sessions : Transmit(o, s)
  /\ phase' = "io"
  /\ UNCHANGED <<controlVars, queueVars, sessions, routes, fences, overflow,
                 ackPending, retired, heeded>>

\* handleUdp: an authenticated CONTROL frame for session s.
ReceivePacket(s) ==
  /\ phase = "packet"
  /\ sessions[s].live
  /\ \E frame \in Frames : Push([kind |-> frame, session |-> s])
  /\ phase' = "io"
  /\ UNCHANGED <<controlVars, commands, retirements, acks, sessions, routes,
                 fences, overflow, ackPending, historyVars>>

\* There is no packet, or it is dropped: no route, no session, too large, not
\* authentic, expired.
DropPacket ==
  /\ phase = "packet"
  /\ phase' = "io"
  /\ UNCHANGED <<controlVars, queueVars, sessions, routes, fences, overflow,
                 ackPending, historyVars>>

\* The wake descriptor or the one-second timeout restarts the loop.
Wake ==
  /\ phase \in {"probes", "io"}
  /\ phase' = "top"
  /\ UNCHANGED <<controlVars, queueVars, sessions, routes, fences, overflow,
                 ackPending, historyVars>>

-----------------------------------------------------------------------------
Init ==
  /\ peers = [s \in Sessions |-> NoPeer]
  /\ newest = [o \in Owners |-> 0]
  /\ registered = {}
  /\ published = 0
  /\ commands = <<>> /\ retirements = <<>> /\ events = <<>> /\ acks = 0
  /\ sessions = [s \in Sessions |-> NoSession]
  /\ routes \in {[o \in R |-> 0] : R \in SUBSET Owners}
  /\ fences = {} /\ overflow = FALSE /\ ackPending = FALSE /\ phase = "top"
  /\ retired = {} /\ heeded = {}
  /\ lastSent = [o \in Owners |-> 0]
  /\ replaced = {}

CoordinatorCall ==
  \/ \E s \in Sessions : Register(s)
  \/ \E s \in Sessions : ConfirmAsInitiator(s)
  \/ \E s \in Sessions : Abort(s)
  \/ \E s \in Sessions : MakeReceiveOnly(s)
  \/ \E R \in SUBSET Owners : Publish(R)
Control == OnEvent \/ TakeAck \/ \E s \in Sessions : Tick(s)
Pass == BeginPass \/ ProcessCommand \/ EndPass \/ Wake
Packet ==
  \/ \E o \in Owners : SendData(o)
  \/ \E s \in Sessions : ReceivePacket(s)
  \/ DropPacket
Traffic == BeginPacket \/ Packet \/ \E o \in Owners : SendProbe(o)
Next == CoordinatorCall \/ Control \/ Pass \/ Traffic

\* The operating system schedules the DATA thread and the control thread, whose
\* poll ticks every peer.  The DATA loop finishes a packet it has begun.  It may
\* find a packet at every turn, but it handles no more of them than epoll has
\* named descriptors and then comes round, within a second if there are none:
\* a step of the pass that is possible again and again is taken.  No frame,
\* event or coordinator call is assumed to happen.
Fairness ==
  /\ SF_vars(Pass)
  /\ WF_vars(Packet)
  /\ \A s \in Sessions : WF_vars(Tick(s) /\ peers[s].state = "offline")
Spec == Init /\ [][Next]_vars /\ Fairness

-----------------------------------------------------------------------------
(* Properties                                                              *)

\* Types, and every queue and array within its capacity.
TypeOK ==
  /\ peers \in [Sessions -> Peer]
  /\ newest \in [Owners -> Sessions \cup {0}]
  /\ registered \subseteq Sessions
  /\ published \in 0..MaxPublications
  /\ commands \in Seq(SessionCommand \cup SnapshotCommand)
  /\ Len(commands) <= CommandCap
  /\ retirements \in Seq(Sessions) /\ Len(retirements) <= RetirementCap
  /\ events \in Seq(Event) /\ Len(events) <= EventCap
  /\ acks \in 0..AckCap
  /\ sessions \in [Sessions -> Session]
  /\ DOMAIN routes \subseteq Owners
  /\ routes \in [DOMAIN routes -> Sessions \cup {0}]
  /\ fences \subseteq Sessions /\ Cardinality(fences) <= RetirementCap
  /\ overflow \in BOOLEAN /\ ackPending \in BOOLEAN
  /\ phase \in {"top", "commands", "end", "probes", "io", "packet"}
  /\ retired \subseteq Sessions /\ heeded \subseteq Sessions /\ replaced \subseteq Sessions
  /\ lastSent \in [Owners -> Sessions \cup {0}]

\* A retirement that the worker has carried out is final: no install command
\* still queued behind it can bring the session back, however the two queues
\* were interleaved.
RetiredStaysGone == \A s \in retired : ~sessions[s].live

\* At most one session of a Node transmits DATA at any time, also while an old
\* and a new session overlap during a rekey.
OneTransmitter ==
  \A s, t \in Sessions :
    Transmits(s) /\ Transmits(t) /\ OwnerOf[s] = OwnerOf[t] => s = t

\* A route is bound to the transmitting session of its owner, and unbound only
\* when the owner has none: after installs, confirmations, removals and
\* snapshot replacement alike.
RoutesFollowSessions ==
  \A o \in DOMAIN routes :
    /\ routes[o] # 0 => OwnerOf[routes[o]] = o /\ Transmits(routes[o])
    /\ routes[o] = 0 => \A s \in Sessions : OwnerOf[s] = o => ~Transmits(s)

\* Once DATA to a Node has moved to a new session it never moves back to the
\* sequence space of an older one.
NoRollback == \A o \in Owners : lastSent[o] \notin replaced

\* Keys are not leaked: a session in the worker's table has a control peer or
\* a retirement on its way.
NoOrphanSession ==
  \A s \in Sessions :
    sessions[s].live => HasPeer(s) \/ s \in Range(retirements)

\* A session is retired once: it is queued at most once, and never again after
\* the worker has carried it out.  The queue is sized on this.
RetiredOnce ==
  /\ IsInjective(retirements)
  /\ Range(retirements) \cap retired = {}

\* Revocation reaches DATA: a TUN packet whose handling the worker begins after a
\* retirement was queued does not start on that session, and neither does a
\* connectivity request sent after a pass that began later, whatever installs,
\* confirmations and snapshots that pass carried out.  A retirement queued while
\* the packet is being read, or during the pass, comes too late for them.
RevocationReachesData ==
  phase \in {"probes", "packet"} =>
    \A o \in DOMAIN routes : ~(routes[o] \in heeded /\ Transmits(routes[o]))

\* A session that has left the control plane, or that ended there by goodbye or
\* by silence, is erased from the worker even when the retirement queue refused
\* it at first: time and again the worker holds no keys but those of sessions
\* in use.  Commands hold retirements up while they last, so the Node must not
\* confirm one session for ever: its retry schedule has five steps.
ConfirmsEnd == <>[][~\E s \in Sessions : ConfirmAsInitiator(s)]_vars
OfflineIsErased ==
  ConfirmsEnd =>
    []<>(\A s \in Sessions :
           sessions[s].live => peers[s].state \in {"awaiting", "online"})
=============================================================================
