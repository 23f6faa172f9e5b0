-------------------------- MODULE MasterCoordinator --------------------------
(***************************************************************************)
(* MasterCoordinator of runtime/handshake_coordinator.zig: the responder   *)
(* of every Node's handshakes.  It owns a bounded array of slots, one for  *)
(* each handshake in flight, and one association per Node with its current *)
(* and its draining session.  An administrator may reset or delete a Node  *)
(* at any time: its association is revoked, and revocation has to get its  *)
(* removals into a bounded queue.                                          *)
(*                                                                         *)
(* The coordinator acts on the peers of runtime/control_plane.zig, whose   *)
(* calls appear by their effect on the peer list.  The Nodes and the       *)
(* network are the environment.                                            *)
(***************************************************************************)
EXTENDS Integers, FiniteSets

CONSTANTS
  Nodes,
  MaxSlots,     \* handshakes in flight (runtime_capacity)
  MaxSessions,  \* bound on the receiver ids drawn in a behaviour
  Refusals      \* what may fail: pushes to the "command" and "retirement"
                \* queues, the "install" of a session, the publisher's "ready"
                \* callback, the durable "commit" of a binding

ASSUME ParametersAssumption ==
  /\ MaxSlots \in Nat \ {0} /\ MaxSessions \in Nat \ {0}
  /\ Refusals \subseteq {"command", "retirement", "install", "ready", "commit"}
ASSUME NodesAssumption == \A n \in Nodes : n \notin 0..MaxSessions

VARIABLES
  slots,         \* receiver id -> MasterSlot, or NoSlot
  associations,  \* Node -> Association (its slot in the array is implied)
  due,           \* slots and drains whose deadline has passed
  next,          \* the receiver id that freshReceiverId draws next
  owner,         \* receiver id -> the Node it was drawn for
  peers,         \* control plane: receiver id -> Peer
  bound,         \* registry: Nodes whose public key is bound
  revokedIds     \* history: receiver ids drawn before a reset of their Node

vars == <<slots, associations, due, next, owner, peers, bound, revokedIds>>

Sessions == 1..MaxSessions
None == 0

\* MasterSlot.  "final" awaits XK message 2, "confirm" the SESSION_CONFIRM.
Slot == [kind : {"enrollment", "session"}, phase : {"final", "confirm"},
         revoked : BOOLEAN]
NoSlot == [kind |-> "none", phase |-> "none", revoked |-> FALSE]
NewSlot(kind, phase) == [kind |-> kind, phase |-> phase, revoked |-> FALSE]

Association == [current : Sessions \cup {None}, draining : Sessions \cup {None},
                revoking : BOOLEAN]
NoAssociation == [current |-> None, draining |-> None, revoking |-> FALSE]

\* "online" stands for every confirmed state but offline.
Peer == [state : {"absent", "awaiting", "online", "offline"},
         transmit : BOOLEAN, removalQueued : BOOLEAN]
NoPeer == [state |-> "absent", transmit |-> FALSE, removalQueued |-> FALSE]
NewPeer == [state |-> "awaiting", transmit |-> TRUE, removalQueued |-> FALSE]

HasPeer(p, s) == s # None /\ p[s].state # "absent"
Active(s) == slots[s] # NoSlot
SlotsOf(n) == {s \in Sessions : Active(s) /\ owner[s] = n}
Revoking(n) == associations[n].revoking

\* The retirements the queue accepts while one handler runs.
Acceptances ==
  IF "retirement" \in Refusals
  THEN SUBSET {s \in Sessions : HasPeer(peers, s) /\ ~peers[s].removalQueued}
  ELSE {Sessions}

-----------------------------------------------------------------------------
(* Calls of the control plane, as functions of the peer list               *)

\* makeReceiveOnly for each of the ids; an absent peer has no transmit to clear.
Silenced(p, ids) ==
  [s \in Sessions |-> IF s \in ids THEN [p[s] EXCEPT !.transmit = FALSE] ELSE p[s]]

\* abortSession for each of the ids, with the acceptances A: a peer whose
\* retirement is refused stays, unable to transmit.
Retires(p, s, A) == HasPeer(p, s) /\ (p[s].removalQueued \/ s \in A)
AbortedOrLeft(p, ids, A) ==
  [s \in Sessions |-> IF s \in ids /\ Retires(p, s, A) THEN NoPeer ELSE p[s]]
Aborted(p, ids, A) ==
  [s \in Sessions |-> IF s \notin ids THEN p[s]
                      ELSE IF Retires(p, s, A) THEN NoPeer
                      ELSE [p[s] EXCEPT !.transmit = FALSE]]

-----------------------------------------------------------------------------
(* Slots and associations                                                  *)

\* expireSlot for each of the ids: a slot is kept while its peer cannot be
\* aborted.
Expired(p, ids, A) ==
  [s \in Sessions |-> IF s \in ids /\ (~HasPeer(p, s) \/ Retires(p, s, A))
                      THEN NoSlot ELSE slots[s]]

\* retryReceiverRetirement: an id that is gone or retired is forgotten.
KeptIfUnknown(p, s, A) == IF s # None /\ ~Retires(p, s, A) THEN s ELSE None
Kept(p, s, A) == IF HasPeer(p, s) /\ ~Retires(p, s, A) THEN s ELSE None
RetriedReceivers(p, n, A) ==
  [associations[n] EXCEPT !.current = Kept(p, @, A), !.draining = Kept(p, @, A)]

\* finishRevocationIfComplete on the association a of n, with the slots sl.
Finished(n, a, sl) ==
  IF /\ a.revoking /\ a.current = None /\ a.draining = None
     /\ \A s \in Sessions : owner[s] = n => ~sl[s].revoked
  THEN NoAssociation ELSE a

\* What a reset of n revokes: its sessions and its handshakes in flight.
Receivers(n) == {associations[n].current, associations[n].draining}
NoHandshakes(n) == {}
Handshakes(n) == SlotsOf(n)

\* What beginEnrollment and beginSession require of the Node's other work: an
\* attempt of either kind makes the identity busy, and so does revocation.
HasRoom ==
  /\ Cardinality({s \in Sessions : Active(s)}) < MaxSlots
  /\ next <= MaxSessions
AdmitsOther(n) == HasRoom /\ ~Revoking(n)
Admits(n) == HasRoom /\ ~Revoking(n) /\ SlotsOf(n) = {}
Draw(n, slot) ==
  /\ slots' = [slots EXCEPT ![next] = slot]
  /\ owner' = [owner EXCEPT ![next] = n]
  /\ next' = next + 1

-----------------------------------------------------------------------------
(* receive                                                                 *)

\* XK message 0 of a Node whose credential is live.  A failure, a refused
\* response included, leaves no slot.
BeginEnrollment(n) ==
  /\ n \notin bound /\ Admits(n)
  /\ Draw(n, NewSlot("enrollment", "final"))
  /\ UNCHANGED <<associations, due, peers, bound, revokedIds>>

\* IK message 0 of a bound Node.  The slot stays if the install is queued, even
\* if the response is refused: tick sends it again.
BeginSession(n) ==
  /\ n \in bound /\ Admits(n)
  /\ Draw(n, NewSlot("session", "confirm"))
  /\ peers' = [peers EXCEPT ![next] = NewPeer]
  /\ UNCHANGED <<associations, due, bound, revokedIds>>

\* XK message 2: the binding is durable before the session is installed.  It is
\* terminal for the slot unless both succeed; a commit that reports failure may
\* have become durable all the same.
FinishEnrollment(s) ==
  LET n == owner[s]
  IN /\ slots[s].phase = "final"
     /\ \/ /\ n \notin bound
           /\ bound' = bound \cup {n}
           /\ slots' = [slots EXCEPT ![s].phase = "confirm"]
           /\ peers' = [peers EXCEPT ![s] = NewPeer]
        \/ /\ slots' = [slots EXCEPT ![s] = NoSlot]
           /\ \/ bound' = bound
              \/ /\ n \notin bound
                 /\ Refusals \cap {"commit", "command"} # {}
                 /\ bound' = bound \cup {n}
           /\ UNCHANGED peers
     /\ due' = due \ {s}
     /\ UNCHANGED <<associations, next, owner, revokedIds>>

-----------------------------------------------------------------------------
(* sessionConfirmed                                                        *)

\* activateAssociation, on the peer list p: it fails when the draining session
\* cannot be aborted, because the queue is full or because it is unknown.
ActivationFails(p, a, s, A) ==
  a.current # s /\ a.draining # None /\ ~Retires(p, a.draining, A)
ActivatedAgain(a, s) == [a EXCEPT !.draining = a.current, !.current = s]
Activated(a, s) ==
  IF a.current = s THEN a
  ELSE [a EXCEPT !.draining = a.current, !.current = s]

IsRevoked(s) == slots[s].revoked \/ Revoking(owner[s])

\* sessionConfirmed on the peer list p.
Confirmed(p, s) ==
  LET n == owner[s]
      a == associations[n]
      gone == {t \in {s} : Active(t)}
  IN \/ \* nothing is in flight, or what is in flight was revoked
        /\ ~Active(s) \/ IsRevoked(s)
        /\ \E A \in Acceptances :
             peers' = Aborted(p, gone, A) /\ slots' = Expired(p, gone, A)
        /\ UNCHANGED <<associations, due>>
     \/ /\ Active(s) /\ ~IsRevoked(s)
        /\ \E A \in Acceptances :
             \/ /\ ActivationFails(p, a, s, A)
                /\ peers' = Aborted(p, {a.draining, s}, A)
                /\ slots' = [slots EXCEPT ![s] = NoSlot]
                /\ UNCHANGED <<associations, due>>
             \/ /\ ~ActivationFails(p, a, s, A)
                /\ peers' = IF a.current = s THEN p
                            ELSE Silenced(Aborted(p, {a.draining}, A), {a.current})
                /\ associations' = [associations EXCEPT ![n] = Activated(a, s)]
                /\ due' = IF a.current = s THEN due ELSE due \ {n}
                /\ \* the ready callback and the completion signal
                   \/ slots' = [slots EXCEPT ![s] = NoSlot]
                   \/ Refusals \cap {"ready", "command"} # {} /\ UNCHANGED slots

\* handleControl for session_confirm, and for the heartbeat and its
\* acknowledgement of a confirmed peer.  The command of the first and the reply
\* to the second may be refused.
ReceiveConfirmation(s) ==
  /\ HasPeer(peers, s) /\ peers[s].transmit
  /\ Confirmed([peers EXCEPT ![s].state = "online"], s)
  /\ UNCHANGED <<next, owner, bound, revokedIds>>

-----------------------------------------------------------------------------
(* tick                                                                    *)

\* One pass over the associations, one over the slots and one over the
\* revocations that are complete by then.
TickWith(A) ==
    LET Drained == {n \in Nodes : ~Revoking(n) /\ associations[n].draining # None /\ n \in due}
        targets == {associations[n].draining : n \in Drained}
                     \cup UNION {Receivers(n) : n \in {m \in Nodes : Revoking(m)}}
        p == Aborted(peers, targets, A)
        drainedTo(n) ==
          IF n \in Drained /\ Retires(peers, associations[n].draining, A)
          THEN [associations[n] EXCEPT !.draining = None]
          ELSE IF Revoking(n) THEN RetriedReceivers(peers, n, A)
          ELSE associations[n]
        expiring == {s \in Sessions : Active(s) /\ (slots[s].revoked \/ s \in due)}
    IN /\ peers' = Aborted(p, expiring, A)
       /\ slots' = Expired(p, expiring, A)
       /\ associations' = [n \in Nodes |-> Finished(n, drainedTo(n), slots')]
       /\ due' = {d \in due : d \in Sessions => slots'[d] # NoSlot}
       /\ UNCHANGED <<next, owner, bound, revokedIds>>
Tick == \E A \in Acceptances : TickWith(A)

-----------------------------------------------------------------------------
(* retireAssociation                                                       *)

\* The commit that unbinds or deletes the Node, or leaves it unbound with its
\* credentials revoked, and then retireAssociation.
Reset(n) ==
  \E A \in Acceptances :
    LET quiet == Silenced(peers, Receivers(n) \cup Handshakes(n))
        p == Aborted(quiet, Receivers(n), A)
    IN /\ bound' = bound \ {n}
       /\ revokedIds' = revokedIds \cup {s \in Sessions : owner[s] = n}
       /\ peers' = Aborted(p, Handshakes(n), A)
       /\ slots' = [s \in Sessions |->
            IF s \in Handshakes(n) /\ Expired(p, {s}, A)[s] # NoSlot
            THEN [slots[s] EXCEPT !.revoked = TRUE]
            ELSE Expired(p, Handshakes(n), A)[s]]
       /\ associations' = [associations EXCEPT ![n] =
            Finished(n, [RetriedReceivers(quiet, n, A) EXCEPT !.revoking = TRUE],
                     slots')]
       /\ due' = {d \in due : d \in Sessions => slots'[d] # NoSlot}
       /\ UNCHANGED <<next, owner>>

-----------------------------------------------------------------------------
(* Events and timers of the control plane                                  *)

\* session_command_failed
Fail(s) ==
  /\ "install" \in Refusals /\ HasPeer(peers, s)
  /\ peers' = [peers EXCEPT ![s] = NoPeer]

\* A peer that goes offline: its retirement is queued if there is room.
GoOffline(s) ==
  \E A \in Acceptances :
    peers' = [peers EXCEPT ![s] =
      [state |-> "offline", transmit |-> FALSE,
       removalQueued |-> @.removalQueued \/ s \in A]]

\* goodbye, or offline_interval_ns of silence
Lose(s) == peers[s].state = "online" /\ peers[s].transmit /\ GoOffline(s)

\* The timer of an offline peer offers its retirement again.
RetryRetirement(s) ==
  /\ peers[s].state = "offline" /\ ~peers[s].removalQueued
  /\ GoOffline(s)

PeerEvent(s) ==
  /\ Fail(s) \/ Lose(s) \/ RetryRetirement(s)
  /\ UNCHANGED <<slots, associations, due, next, owner, bound, revokedIds>>

\* A deadline passes: the attempt's 30 seconds or the end of its schedule for a
\* slot, old_receive_drain for an association.
Elapse(d) ==
  /\ d \notin due
  /\ \/ d \in Sessions /\ Active(d)
     \/ d \in Nodes /\ associations[d].draining # None
  /\ due' = due \cup {d}
  /\ UNCHANGED <<slots, associations, next, owner, peers, bound, revokedIds>>
-----------------------------------------------------------------------------
Init ==
  /\ slots = [s \in Sessions |-> NoSlot]
  /\ associations = [n \in Nodes |-> NoAssociation]
  /\ due = {} /\ next = 1
  /\ owner = [s \in Sessions |-> None]
  /\ peers = [s \in Sessions |-> NoPeer]
  /\ bound \in SUBSET Nodes
  /\ revokedIds = {}

Protocol ==
  \/ \E n \in Nodes : BeginEnrollment(n)
  \/ \E n \in Nodes : BeginSession(n)
  \/ \E s \in Sessions : FinishEnrollment(s)
  \/ \E s \in Sessions : ReceiveConfirmation(s)
Environment ==
  \/ \E n \in Nodes : Reset(n)
  \/ \E s \in Sessions : PeerEvent(s)
  \/ \E d \in Sessions \cup Nodes : Elapse(d)
Next == Protocol \/ Tick \/ Environment

\* The control loop ticks at least every 100 ms, and the DATA worker empties the
\* retirement queue on every pass, so that the queue keeps having room when a
\* tick runs.
Spec == Init /\ [][Next]_vars /\ WF_vars(TickWith(Sessions))

\* Deadlines pass as well.
TimedSpec == Spec /\ \A d \in Sessions \cup Nodes : WF_vars(Elapse(d))

-----------------------------------------------------------------------------
(* Properties                                                              *)

\* Types; the slots in use fit their array; the sessions an association names
\* were drawn for its Node and differ, however often one is confirmed.
TypeOK ==
  /\ slots \in [Sessions -> Slot \cup {NoSlot}]
  /\ associations \in [Nodes -> Association]
  /\ due \subseteq Sessions \cup Nodes /\ next \in 1..(MaxSessions + 1)
  /\ owner \in [Sessions -> Nodes \cup {None}]
  /\ peers \in [Sessions -> Peer]
  /\ bound \subseteq Nodes /\ revokedIds \subseteq Sessions
  /\ Cardinality({s \in Sessions : Active(s)}) <= MaxSlots
  /\ \A n \in Nodes : \A s \in Receivers(n) \ {None} : owner[s] = n
  /\ \A n \in Nodes : associations[n].current # None
                       => associations[n].current # associations[n].draining

\* A Node has at most one unconfirmed session: the contract of SessionRuntime's
\* Register, across expiry, revocation and refused retirements.
OnePendingPerNode ==
  \A s, t \in Sessions :
    /\ peers[s].state = "awaiting" /\ peers[t].state = "awaiting"
    /\ owner[s] = owner[t]
    => s = t

\* A reset is final: no session drawn before it transmits again or becomes the
\* Node's current session, although its slot or its peer may outlive the reset.
RevokedForGood ==
  \A s \in revokedIds :
    /\ ~peers[s].transmit
    /\ \A n \in Nodes : associations[n].current = s => Revoking(n)

\* A peer that no slot and no association accounts for cannot transmit.
StrayIsSilent ==
  \A s \in Sessions :
    HasPeer(peers, s) /\ ~Active(s) /\ s \notin Receivers(owner[s])
    => ~peers[s].transmit

\* A revocation finishes, and the Node can connect again, whatever became of
\* the sessions it had to remove.
RevocationEnds == \A n \in Nodes : Revoking(n) ~> ~Revoking(n)

\* A drain ends: the old session is removed after its interval.
DrainEnds ==
  \A n \in Nodes, s \in Sessions :
    associations[n].draining = s ~> associations[n].draining # s
=============================================================================
