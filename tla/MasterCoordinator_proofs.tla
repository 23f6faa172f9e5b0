---------------------- MODULE MasterCoordinator_proofs ----------------------
(***************************************************************************)
(* Proofs about MasterCoordinator, for every set of Nodes, number of slots *)
(* and sessions, and kinds of refusal.                                     *)
(*                                                                         *)
(* A handshake has one slot for as long as its session is unconfirmed      *)
(* (OneSlot, AwaitingHasSlot), which gives a Node one pending session.     *)
(* What a reset revokes is silent because whatever can transmit is in a    *)
(* slot or in its Node's association (StrayIsSilent), both of which the    *)
(* reset silences; a slot that still awaits XK message 2 has no session    *)
(* yet and is gone after a reset (Finals), so that nothing revoked is      *)
(* installed later.                                                        *)
(***************************************************************************)
EXTENDS MasterCoordinator, FiniteSetTheorems, TLAPS

USE ParametersAssumption, NodesAssumption

\* Ids are drawn in order.
Drawn ==
  \A s \in Sessions :
    /\ s < next => owner[s] \in Nodes
    /\ s >= next => /\ slots[s] = NoSlot /\ owner[s] = None
                    /\ peers[s].state = "absent"
                    /\ s \notin revokedIds
OneSlot ==
  \A s, t \in Sessions : Active(s) /\ Active(t) /\ owner[s] = owner[t] => s = t
AwaitingHasSlot == \A s \in Sessions : peers[s].state = "awaiting" => Active(s)
AbsentIsSilent == \A s \in Sessions : peers[s].transmit => peers[s].state # "absent"
Finals ==
  \A s \in Sessions : slots[s].phase = "final" =>
    peers[s].state = "absent" /\ s \notin revokedIds

IInv == /\ TypeOK /\ Drawn /\ OneSlot /\ AwaitingHasSlot /\ AbsentIsSilent /\ Finals
        /\ RevokedForGood /\ StrayIsSilent

\* What every handler but the admission of a handshake does to the peers:
\* they are confirmed, silenced or removed, never started.
Quieter(p, q) ==
  /\ q \in [Sessions -> Peer]
  /\ \A s \in Sessions :
       /\ q[s].state = "awaiting" => p[s].state = "awaiting"
       /\ q[s].state # "absent" => p[s].state # "absent"
       /\ q[s].transmit => p[s].transmit /\ q[s].state # "absent"

\* A handler that does no more than this keeps the invariant.
LEMMA Removal ==
  ASSUME IInv, UNCHANGED <<next, owner>>,
         due' \subseteq Sessions \cup Nodes, bound' \subseteq Nodes,
         Quieter(peers, peers'),
         slots' \in [Sessions -> Slot \cup {NoSlot}],
         \A s \in Sessions : slots'[s] # NoSlot => slots[s] # NoSlot,
         \A s \in Sessions : slots'[s].phase = "final" => slots'[s] = slots[s],
         \A s \in Sessions : Active(s) /\ slots'[s] = NoSlot =>
           /\ peers'[s].state # "awaiting"
           /\ peers'[s].transmit => s \in Receivers(owner[s])',
         associations' \in [Nodes -> Association],
         \A n \in Nodes : \A s \in Receivers(n)' \ {None} : owner[s] = n,
         \A n \in Nodes : associations'[n].current # None
                           => associations'[n].current # associations'[n].draining,
         \A n \in Nodes : \A s \in Sessions :
           s \in Receivers(n) /\ s \notin Receivers(n)' => ~peers'[s].transmit,
         revokedIds \subseteq revokedIds', revokedIds' \subseteq Sessions,
         \A s \in revokedIds' \ revokedIds :
           s < next /\ ~peers'[s].transmit /\ slots'[s].phase # "final",
         \A s \in revokedIds' : \A n \in Nodes :
           associations'[n].current = s => associations'[n].revoking
  PROVE  IInv'
<1>1. TypeOK'
  <2>1. Cardinality({s \in Sessions : Active(s)'}) <= MaxSlots
    <3>1. IsFiniteSet({s \in Sessions : Active(s)})
      <4>1. IsFiniteSet(Sessions)
        BY FS_Interval DEF Sessions
      <4>. QED
        BY <4>1, FS_Subset
    <3>2. {s \in Sessions : Active(s)'} \subseteq {s \in Sessions : Active(s)}
      BY DEF Active
    <3>3. /\ Cardinality({s \in Sessions : Active(s)'}) \in Nat
          /\ Cardinality({s \in Sessions : Active(s)}) \in Nat
          /\ Cardinality({s \in Sessions : Active(s)'}) <= Cardinality({s \in Sessions : Active(s)})
      BY <3>1, <3>2, FS_Subset, FS_CardinalityType
    <3>. QED
      BY <3>3 DEF IInv, TypeOK
  <2>. QED
    BY <2>1 DEF IInv, TypeOK, Quieter, Receivers
<1>2. Drawn'
  <2>. SUFFICES ASSUME NEW s \in Sessions
                PROVE  /\ s < next => owner[s] \in Nodes
                       /\ s >= next => /\ slots'[s] = NoSlot /\ owner[s] = None
                                       /\ peers'[s].state = "absent"
                                       /\ s \notin revokedIds'
    BY DEF Drawn
  <2>1. s < next \/ s >= next
    BY DEF IInv, TypeOK, Sessions
  <2>2. s >= next => s \notin revokedIds' \ revokedIds
    BY DEF IInv, TypeOK, Sessions
  <2>. QED
    BY <2>1, <2>2 DEF IInv, Drawn, Quieter
<1>3. OneSlot'
  BY DEF IInv, OneSlot, Active
<1>4. AwaitingHasSlot'
  BY DEF IInv, AwaitingHasSlot, Quieter, Active
<1>5. AbsentIsSilent'
  BY DEF AbsentIsSilent, Quieter
<1>6. Finals'
  BY DEF IInv, Finals, Quieter, TypeOK, Peer
<1>7. RevokedForGood'
  BY DEF IInv, RevokedForGood, Quieter, Revoking, TypeOK
<1>8. StrayIsSilent'
  <2>. SUFFICES ASSUME NEW s \in Sessions, HasPeer(peers', s), slots'[s] = NoSlot,
                       s \notin Receivers(owner[s])'
                PROVE  ~peers'[s].transmit
    BY DEF StrayIsSilent, Active
  <2>1. owner[s] \in Nodes /\ HasPeer(peers, s)
    BY DEF IInv, Drawn, HasPeer, Quieter, NoPeer, Sessions, TypeOK
  <2>2. CASE Active(s)
    BY <2>2
  <2>3. CASE ~Active(s) /\ s \in Receivers(owner[s])
    BY <2>1, <2>3
  <2>4. CASE ~Active(s) /\ s \notin Receivers(owner[s])
    BY <2>1, <2>4 DEF IInv, StrayIsSilent, Quieter
  <2>. QED
    BY <2>2, <2>3, <2>4
<1>. QED
  BY <1>1, <1>2, <1>3, <1>4, <1>5, <1>6, <1>7, <1>8 DEF IInv

-----------------------------------------------------------------------------
\* The calls of the control plane quieten.
LEMMA AbortedQuieter ==
  ASSUME NEW p \in [Sessions -> Peer],
         \A s \in Sessions : p[s].transmit => p[s].state # "absent",
         NEW ids, NEW A
  PROVE  Quieter(p, Aborted(p, ids, A))
<1>. DEFINE q == Aborted(p, ids, A)
<1>1. \A s \in Sessions : q[s] \in {p[s], NoPeer, [p[s] EXCEPT !.transmit = FALSE]}
  BY DEF Aborted
<1>2. q \in [Sessions -> Peer]
  <2>1. \A s \in Sessions : [p[s] EXCEPT !.transmit = FALSE] \in Peer
    BY DEF Peer
  <2>. QED
    BY <1>1, <2>1 DEF Aborted, NoPeer, Peer
<1>3. ASSUME NEW s \in Sessions
      PROVE  /\ q[s].state = "awaiting" => p[s].state = "awaiting"
             /\ q[s].state # "absent" => p[s].state # "absent"
             /\ q[s].transmit => p[s].transmit /\ q[s].state # "absent"
  <2>. HIDE DEF q
  <2>1. CASE q[s] = p[s]
    BY <2>1
  <2>2. CASE q[s] = NoPeer
    BY <2>2 DEF NoPeer
  <2>3. CASE q[s] = [p[s] EXCEPT !.transmit = FALSE]
    BY <2>3 DEF Peer
  <2>. QED
    BY <1>1, <2>1, <2>2, <2>3
<1>. QED
  BY <1>2, <1>3 DEF Quieter

LEMMA SilencedQuieter ==
  ASSUME NEW p \in [Sessions -> Peer],
         \A s \in Sessions : p[s].transmit => p[s].state # "absent",
         NEW ids
  PROVE  Quieter(p, Silenced(p, ids))
<1>. DEFINE q == Silenced(p, ids)
<1>1. \A s \in Sessions : q[s] \in {p[s], [p[s] EXCEPT !.transmit = FALSE]}
  BY DEF Silenced
<1>2. q \in [Sessions -> Peer]
  <2>1. \A s \in Sessions : [p[s] EXCEPT !.transmit = FALSE] \in Peer
    BY DEF Peer
  <2>. QED
    BY <1>1, <2>1 DEF Silenced
<1>3. ASSUME NEW s \in Sessions
      PROVE  /\ q[s].state = "awaiting" => p[s].state = "awaiting"
             /\ q[s].state # "absent" => p[s].state # "absent"
             /\ q[s].transmit => p[s].transmit /\ q[s].state # "absent"
  <2>. HIDE DEF q
  <2>1. CASE q[s] = p[s]
    BY <2>1
  <2>2. CASE q[s] = [p[s] EXCEPT !.transmit = FALSE]
    BY <2>2 DEF Peer
  <2>. QED
    BY <1>1, <2>1, <2>2
<1>. QED
  BY <1>2, <1>3 DEF Quieter

LEMMA QuieterThanBoth ==
  ASSUME NEW p, NEW q, NEW r, Quieter(p, q), Quieter(q, r)
  PROVE  Quieter(p, r)
BY DEF Quieter

\* What an abort leaves of a session that it retires or that was gone.
LEMMA AbortedIsGone ==
  ASSUME NEW p \in [Sessions -> Peer], NEW ids, NEW A,
         NEW s \in Sessions, s \in ids, ~HasPeer(p, s) \/ Retires(p, s, A)
  PROVE  Aborted(p, ids, A)[s].state = "absent"
<1>1. s # None
  BY DEF Sessions, None
<1>2. CASE Retires(p, s, A)
  BY <1>2 DEF Aborted, NoPeer
<1>3. CASE ~Retires(p, s, A)
  <2>1. p[s].state = "absent"
    BY <1>1, <1>3 DEF HasPeer
  <2>2. [p[s] EXCEPT !.transmit = FALSE].state = "absent"
    BY <2>1 DEF Peer
  <2>. QED
    BY <1>3, <2>2 DEF Aborted
<1>. QED
  BY <1>2, <1>3

\* A session that an abort names does not transmit, whatever the queue says.
LEMMA AbortedIsSilent ==
  ASSUME NEW p \in [Sessions -> Peer], NEW ids, NEW A, NEW s \in Sessions, s \in ids
  PROVE  ~Aborted(p, ids, A)[s].transmit
<1>1. ~[p[s] EXCEPT !.transmit = FALSE].transmit
  BY DEF Peer
<1>. QED
  BY <1>1 DEF Aborted, NoPeer

LEMMA SilencedIsSilent ==
  ASSUME NEW p \in [Sessions -> Peer], NEW ids, NEW s \in Sessions, s \in ids
  PROVE  ~Silenced(p, ids)[s].transmit
<1>1. ~[p[s] EXCEPT !.transmit = FALSE].transmit
  BY DEF Peer
<1>. QED
  BY <1>1 DEF Silenced

LEMMA PeersTyped ==
  IInv => peers \in [Sessions -> Peer] /\ Quieter(peers, peers)
BY DEF IInv, TypeOK, AbsentIsSilent, Quieter

\* Retrying an association's removals, and finishing its revocation, forget
\* receivers and name no new one.
LEMMA RetriedNarrows ==
  ASSUME IInv, NEW p, NEW n \in Nodes, NEW A
  PROVE  /\ RetriedReceivers(p, n, A) \in Association
         /\ RetriedReceivers(p, n, A).current \in {associations[n].current, None}
         /\ RetriedReceivers(p, n, A).draining \in {associations[n].draining, None}
         /\ RetriedReceivers(p, n, A).revoking = Revoking(n)
<1>1. associations[n] \in Association
  BY DEF IInv, TypeOK
<1>. QED
  BY <1>1 DEF RetriedReceivers, Kept, Association, Revoking, None

LEMMA FinishedNarrows ==
  ASSUME NEW n \in Nodes, NEW a \in Association, NEW sl
  PROVE  /\ Finished(n, a, sl) \in Association
         /\ Finished(n, a, sl).current = a.current
         /\ Finished(n, a, sl).draining = a.draining
         /\ a.current # None => Finished(n, a, sl).revoking = a.revoking
BY DEF Finished, NoAssociation, Association, None

-----------------------------------------------------------------------------
LEMMA InitHolds == Init => IInv
<1>. SUFFICES ASSUME Init PROVE IInv
  OBVIOUS
<1>1. TypeOK
  <2>1. {s \in Sessions : Active(s)} = {}
    BY DEF Init, Active
  <2>2. Cardinality({s \in Sessions : Active(s)}) <= MaxSlots
    BY <2>1, FS_EmptySet
  <2>3. peers \in [Sessions -> Peer] /\ associations \in [Nodes -> Association]
    BY DEF Init, Peer, NoPeer, Association, NoAssociation, None
  <2>. QED
    BY <2>2, <2>3 DEF Init, TypeOK, Receivers, NoAssociation, None
<1>2. Drawn /\ OneSlot /\ AwaitingHasSlot /\ AbsentIsSilent /\ Finals
  BY DEF Init, Drawn, OneSlot, AwaitingHasSlot, AbsentIsSilent, Finals, Active,
         NoPeer, NoSlot, Sessions
<1>3. RevokedForGood /\ StrayIsSilent
  BY DEF Init, RevokedForGood, StrayIsSilent, HasPeer, NoPeer
<1>. QED
  BY <1>1, <1>2, <1>3 DEF IInv

LEMMA TickHolds ==
  ASSUME IInv, NEW A, TickWith(A) PROVE IInv'
<1>. DEFINE Drained == {n \in Nodes : ~Revoking(n) /\ associations[n].draining # None /\ n \in due}
            targets == {associations[n].draining : n \in Drained}
                         \cup UNION {Receivers(n) : n \in {m \in Nodes : Revoking(m)}}
            p == Aborted(peers, targets, A)
            drainedTo(n) ==
              IF n \in Drained /\ Retires(peers, associations[n].draining, A)
              THEN [associations[n] EXCEPT !.draining = None]
              ELSE IF Revoking(n) THEN RetriedReceivers(peers, n, A)
              ELSE associations[n]
            expiring == {s \in Sessions : Active(s) /\ (slots[s].revoked \/ s \in due)}
<1>1. /\ peers' = Aborted(p, expiring, A)
      /\ slots' = Expired(p, expiring, A)
      /\ associations' = [n \in Nodes |-> Finished(n, drainedTo(n), slots')]
      /\ due' = {d \in due : d \in Sessions => slots'[d] # NoSlot}
      /\ UNCHANGED <<next, owner, bound, revokedIds>>
  BY DEF TickWith
<1>2. Quieter(peers, p)
  BY AbortedQuieter, PeersTyped DEF Quieter
<1>3. Quieter(p, peers')
  <2>. HIDE DEF p, expiring
  <2>1. /\ p \in [Sessions -> Peer]
        /\ \A s \in Sessions : p[s].transmit => p[s].state # "absent"
    BY <1>2 DEF Quieter
  <2>. QED
    BY <1>1, <2>1, AbortedQuieter
<1>4. Quieter(peers, peers')
  BY <1>2, <1>3, QuieterThanBoth
<1>5. \A s \in Sessions : slots'[s] \in {slots[s], NoSlot}
  BY <1>1 DEF Expired
<1>6. ASSUME NEW s \in Sessions, Active(s), slots'[s] = NoSlot
      PROVE  peers'[s].state = "absent"
  <2>1. s \in expiring /\ (~HasPeer(p, s) \/ Retires(p, s, A))
    BY <1>1, <1>6 DEF Expired, Active
  <2>. QED
    BY <1>1, <1>2, <2>1, AbortedIsGone DEF Quieter
<1>7. ASSUME NEW n \in Nodes
      PROVE  /\ drainedTo(n) \in Association
             /\ drainedTo(n).current \in {associations[n].current, None}
             /\ drainedTo(n).draining \in {associations[n].draining, None}
             /\ drainedTo(n).revoking = Revoking(n)
  <2>1. associations[n] \in Association
    BY DEF IInv, TypeOK
  <2>. QED
    BY <2>1, RetriedNarrows DEF Association, Revoking, None
<1>8. ASSUME NEW n \in Nodes
      PROVE  /\ associations'[n] \in Association
             /\ associations'[n].current = drainedTo(n).current
             /\ associations'[n].draining = drainedTo(n).draining
             /\ associations'[n].current # None => associations'[n].revoking = Revoking(n)
  <2>. HIDE DEF drainedTo
  <2>1. associations'[n] = Finished(n, drainedTo(n), slots')
    BY <1>1
  <2>. QED
    BY <1>7, <2>1, FinishedNarrows
<1>9. ASSUME NEW n \in Nodes, NEW s \in Sessions, s \in Receivers(n), s \notin Receivers(n)'
      PROVE  ~peers'[s].transmit
  <2>1. s # None /\ associations[n] \in Association
    BY DEF Sessions, None, IInv, TypeOK
  <2>2. s \notin {drainedTo(n).current, drainedTo(n).draining}
    BY <1>8, <1>9 DEF Receivers
  <2>3. s \in targets /\ (~HasPeer(peers, s) \/ Retires(peers, s, A))
    <3>1. CASE n \in Drained /\ Retires(peers, associations[n].draining, A)
      <4>1. s = associations[n].draining
        BY <1>9, <2>1, <2>2, <3>1 DEF Receivers, Association
      <4>. QED
        BY <3>1, <4>1
    <3>2. CASE ~(n \in Drained /\ Retires(peers, associations[n].draining, A)) /\ Revoking(n)
      <4>1. drainedTo(n) = RetriedReceivers(peers, n, A)
        BY <3>2
      <4>2. /\ RetriedReceivers(peers, n, A).current = Kept(peers, associations[n].current, A)
            /\ RetriedReceivers(peers, n, A).draining = Kept(peers, associations[n].draining, A)
        BY <2>1 DEF RetriedReceivers, Association
      <4>3. Kept(peers, s, A) # s
        BY <1>9, <2>2, <4>1, <4>2 DEF Receivers
      <4>. QED
        BY <1>9, <2>1, <3>2, <4>3 DEF Kept
    <3>3. CASE ~(n \in Drained /\ Retires(peers, associations[n].draining, A)) /\ ~Revoking(n)
      BY <1>9, <2>2, <3>3 DEF Receivers
    <3>. QED
      BY <3>1, <3>2, <3>3
  <2>4. p[s].state = "absent"
    BY <2>3, AbortedIsGone, PeersTyped
  <2>. QED
    BY <1>3, <2>4 DEF Quieter
<1>10. associations' \in [Nodes -> Association]
  BY <1>1, <1>8
<1>11. /\ \A n \in Nodes : Receivers(n)' \subseteq Receivers(n) \cup {None}
       /\ \A n \in Nodes : associations'[n].current # None
                            => /\ associations'[n].current = associations[n].current
                               /\ associations'[n].current # associations'[n].draining
  <2>. HIDE DEF Drained, targets, p, drainedTo, expiring
  <2>1. \A n \in Nodes : Receivers(n)' \subseteq Receivers(n) \cup {None}
    BY <1>7, <1>8 DEF Receivers
  <2>2. ASSUME NEW n \in Nodes, associations'[n].current # None
        PROVE  /\ associations'[n].current = associations[n].current
               /\ associations'[n].current # associations'[n].draining
    BY <1>7, <1>8, <2>2 DEF IInv, TypeOK
  <2>. QED
    BY <2>1, <2>2
<1>12. due' \subseteq Sessions \cup Nodes /\ slots' \in [Sessions -> Slot \cup {NoSlot}]
  <2>1. slots' = [s \in Sessions |-> slots'[s]]
    BY <1>1 DEF Expired
  <2>2. slots \in [Sessions -> Slot \cup {NoSlot}] /\ due \subseteq Sessions \cup Nodes
    BY DEF IInv, TypeOK
  <2>3. \A s \in Sessions : slots'[s] \in Slot \cup {NoSlot}
    BY <1>5, <2>2
  <2>. QED
    BY <1>1, <2>1, <2>2, <2>3
<1>13. \A s \in revokedIds : \A n \in Nodes :
         associations'[n].current = s => associations'[n].revoking
  <2>. SUFFICES ASSUME NEW s \in revokedIds, NEW n \in Nodes, associations'[n].current = s
                PROVE  associations'[n].revoking
    OBVIOUS
  <2>1. s # None
    BY DEF IInv, TypeOK, Sessions, None
  <2>. QED
    BY <1>8, <1>11, <2>1 DEF IInv, RevokedForGood
<1>. HIDE DEF Drained, targets, p, drainedTo, expiring
<1>14. \A s \in Sessions : Active(s) /\ slots'[s] = NoSlot =>
         /\ peers'[s].state # "awaiting"
         /\ peers'[s].transmit => s \in Receivers(owner[s])'
  BY <1>4, <1>6 DEF Quieter
<1>15. \A s \in Sessions : /\ slots'[s] # NoSlot => slots[s] # NoSlot
                           /\ slots'[s].phase = "final" => slots'[s] = slots[s]
  <2>. SUFFICES ASSUME NEW s \in Sessions
                PROVE  /\ slots'[s] # NoSlot => slots[s] # NoSlot
                       /\ slots'[s].phase = "final" => slots'[s] = slots[s]
    OBVIOUS
  <2>1. NoSlot.phase # "final"
    BY DEF NoSlot
  <2>2. CASE slots'[s] = slots[s]
    BY <2>2
  <2>3. CASE slots'[s] = NoSlot
    BY <2>1, <2>3
  <2>. QED
    BY <1>5, <2>2, <2>3
<1>16. bound' \subseteq Nodes /\ revokedIds' = revokedIds /\ revokedIds \subseteq Sessions
       /\ UNCHANGED <<next, owner>>
  BY <1>1 DEF IInv, TypeOK
<1>17. \A n \in Nodes : \A s \in Receivers(n)' \ {None} : owner[s] = n
  BY <1>11 DEF IInv, TypeOK
<1>. QED
  BY <1>4, <1>9, <1>10, <1>11, <1>12, <1>13, <1>14, <1>15, <1>16, <1>17, Removal

\* Whatever of the Node can transmit is in its association or in a slot, and
\* is silenced before anything is removed.
LEMMA ResetHolds ==
  ASSUME IInv, NEW n \in Nodes, Reset(n) PROVE IInv'
<1>1. PICK A \in Acceptances :
        LET quiet == Silenced(peers, Receivers(n) \cup Handshakes(n))
            p == Aborted(quiet, Receivers(n), A)
        IN /\ bound' = bound \ {n}
           /\ revokedIds' = revokedIds \cup {s \in Sessions : owner[s] = n}
           /\ peers' = Aborted(p, Handshakes(n), A)
           /\ slots' = [s \in Sessions |->
                IF s \in Handshakes(n) /\ Expired(p, {s}, A)[s] # NoSlot
                THEN [slots[s] EXCEPT !.revoked = TRUE]
                ELSE Expired(p, Handshakes(n), A)[s]]
           /\ associations' = [associations EXCEPT ![n] =
                Finished(n, [RetriedReceivers(quiet, n, A) EXCEPT !.revoking = TRUE],
                         slots')]
           /\ due' = {d \in due : d \in Sessions => slots'[d] # NoSlot}
           /\ UNCHANGED <<next, owner>>
  BY DEF Reset
<1>. DEFINE quiet == Silenced(peers, Receivers(n) \cup Handshakes(n))
            p == Aborted(quiet, Receivers(n), A)
            a == RetriedReceivers(quiet, n, A)
<1>2. Quieter(peers, quiet)
  BY SilencedQuieter, PeersTyped DEF Quieter
<1>3. Quieter(quiet, p)
  <2>. HIDE DEF quiet
  <2>. QED
    BY <1>2, AbortedQuieter DEF Quieter
<1>4. Quieter(p, peers')
  <2>1. peers' = Aborted(p, Handshakes(n), A)
    BY <1>1
  <2>. HIDE DEF p
  <2>. QED
    BY <1>3, <2>1, AbortedQuieter DEF Quieter
<1>5. Quieter(peers, p) /\ Quieter(peers, peers')
  BY <1>2, <1>3, <1>4, QuieterThanBoth
<1>6. \A s \in Receivers(n) \cup Handshakes(n) : s \in Sessions => ~peers'[s].transmit
  <2>. SUFFICES ASSUME NEW s \in Receivers(n) \cup Handshakes(n), s \in Sessions
                PROVE  ~peers'[s].transmit
    OBVIOUS
  <2>1. ~quiet[s].transmit
    BY SilencedIsSilent, PeersTyped
  <2>. HIDE DEF quiet, p
  <2>. QED
    BY <1>3, <1>4, <2>1 DEF Quieter
\* The slots of n: forgotten, or kept and marked, and then not awaiting message 2.
<1>7. ASSUME NEW s \in Handshakes(n)
      PROVE  \/ slots'[s] = NoSlot /\ peers'[s].state = "absent"
             \/ /\ slots'[s] = [slots[s] EXCEPT !.revoked = TRUE]
                /\ slots[s] \in Slot /\ slots[s].phase # "final"
  <2>. HIDE DEF quiet, p
  <2>1. s \in Sessions /\ Active(s) /\ slots[s] \in Slot
    BY DEF Handshakes, SlotsOf, Active, IInv, TypeOK
  <2>2. CASE ~HasPeer(p, s) \/ Retires(p, s, A)
    <3>1. slots'[s] = NoSlot
      BY <1>1, <2>1, <2>2 DEF Expired, p, quiet
    <3>. QED
      BY <1>1, <1>5, <2>1, <2>2, <3>1, AbortedIsGone DEF Quieter, p, quiet
  <2>3. CASE HasPeer(p, s) /\ ~Retires(p, s, A)
    <3>1. slots'[s] = [slots[s] EXCEPT !.revoked = TRUE]
      BY <1>1, <2>1, <2>3 DEF Expired, p, quiet, Active
    <3>2. slots[s].phase # "final"
      BY <1>5, <2>1, <2>3 DEF IInv, Finals, HasPeer, Quieter
    <3>. QED
      BY <2>1, <3>1, <3>2
  <2>. QED
    BY <2>2, <2>3
<1>8. \A s \in Sessions : s \notin Handshakes(n) => slots'[s] = slots[s]
  BY <1>1 DEF Expired
<1>9. \A s \in Handshakes(n) : s \in Sessions /\ Active(s)
  BY DEF Handshakes, SlotsOf
<1>. HIDE DEF quiet, p
<1>10. /\ slots' \in [Sessions -> Slot \cup {NoSlot}]
       /\ \A s \in Sessions : /\ slots'[s] # NoSlot => slots[s] # NoSlot
                              /\ slots'[s].phase = "final" => slots'[s] = slots[s]
                              /\ s \in Handshakes(n) => slots'[s].phase # "final"
  <2>1. slots' = [s \in Sessions |-> slots'[s]]
    BY <1>1
  <2>2. ASSUME NEW s \in Sessions
        PROVE  /\ slots'[s] \in Slot \cup {NoSlot}
               /\ slots'[s] # NoSlot => slots[s] # NoSlot
               /\ slots'[s].phase = "final" => slots'[s] = slots[s]
               /\ s \in Handshakes(n) => slots'[s].phase # "final"
    <3>1. CASE s \notin Handshakes(n)
      BY <1>8, <3>1 DEF IInv, TypeOK
    <3>2. CASE s \in Handshakes(n) /\ slots'[s] = NoSlot
      BY <3>2 DEF NoSlot
    <3>3. CASE s \in Handshakes(n) /\ slots'[s] # NoSlot
      <4>1. /\ slots'[s] = [slots[s] EXCEPT !.revoked = TRUE]
            /\ slots[s] \in Slot /\ slots[s].phase # "final"
        BY <1>7, <3>3
      <4>2. slots'[s] \in Slot /\ slots'[s].phase = slots[s].phase
        BY <4>1 DEF Slot
      <4>. QED
        BY <1>9, <3>3, <4>1, <4>2 DEF Active
    <3>. QED
      BY <3>1, <3>2, <3>3
  <2>. QED
    BY <2>1, <2>2
<1>11. \A s \in Sessions : Active(s) /\ slots'[s] = NoSlot =>
         /\ peers'[s].state # "awaiting"
         /\ peers'[s].transmit => s \in Receivers(owner[s])'
  <2>1. ASSUME NEW s \in Sessions, Active(s), slots'[s] = NoSlot
        PROVE  peers'[s].state = "absent"
    <3>1. s \in Handshakes(n) /\ slots[s].revoked \in BOOLEAN
      BY <1>8, <2>1 DEF Active, IInv, TypeOK, Slot
    <3>2. [slots[s] EXCEPT !.revoked = TRUE] # NoSlot \/ slots[s] \notin Slot
      BY DEF Slot, NoSlot
    <3>. QED
      BY <1>7, <2>1, <3>1, <3>2
  <2>. QED
    BY <1>5, <2>1 DEF Quieter
<1>12. /\ [a EXCEPT !.revoking = TRUE] \in Association
       /\ [a EXCEPT !.revoking = TRUE].current \in {associations[n].current, None}
       /\ [a EXCEPT !.revoking = TRUE].draining \in {associations[n].draining, None}
       /\ [a EXCEPT !.revoking = TRUE].revoking
  BY RetriedNarrows DEF Association
<1>13. /\ associations' \in [Nodes -> Association]
       /\ \A m \in Nodes : m # n => associations'[m] = associations[m]
       /\ associations'[n] = Finished(n, [a EXCEPT !.revoking = TRUE], slots')
  <2>1. associations \in [Nodes -> Association]
    BY DEF IInv, TypeOK
  <2>2. Finished(n, [a EXCEPT !.revoking = TRUE], slots') \in Association
    BY <1>12, FinishedNarrows
  <2>3. associations' = [associations EXCEPT ![n] =
                           Finished(n, [a EXCEPT !.revoking = TRUE], slots')]
    BY <1>1 DEF quiet
  <2>. QED
    BY <2>1, <2>2, <2>3
<1>14. /\ associations'[n].current \in {associations[n].current, None}
       /\ associations'[n].draining \in {associations[n].draining, None}
       /\ associations'[n].current # None => associations'[n].revoking
  <2>. DEFINE b == [a EXCEPT !.revoking = TRUE]
  <2>1. /\ b \in Association /\ b.revoking
        /\ b.current \in {associations[n].current, None}
        /\ b.draining \in {associations[n].draining, None}
        /\ associations'[n] = Finished(n, b, slots')
    BY <1>12, <1>13
  <2>. HIDE DEF b
  <2>. QED
    BY <2>1, FinishedNarrows
<1>15. /\ \A m \in Nodes : Receivers(m)' \subseteq Receivers(m) \cup {None}
       /\ \A m \in Nodes : associations'[m].current # None
                            => /\ associations'[m].current = associations[m].current
                               /\ associations'[m].current # associations'[m].draining
  <2>. SUFFICES ASSUME NEW m \in Nodes
                PROVE  /\ Receivers(m)' \subseteq Receivers(m) \cup {None}
                       /\ associations'[m].current # None
                            => /\ associations'[m].current = associations[m].current
                               /\ associations'[m].current # associations'[m].draining
    OBVIOUS
  <2>1. CASE m = n
    BY <1>14, <2>1 DEF IInv, TypeOK, Receivers
  <2>2. CASE m # n
    BY <1>13, <2>2 DEF IInv, TypeOK, Receivers
  <2>. QED
    BY <2>1, <2>2
<1>16. \A m \in Nodes : \A s \in Receivers(m)' \ {None} : owner[s] = m
  BY <1>15 DEF IInv, TypeOK
<1>17. \A m \in Nodes : \A s \in Sessions :
         s \in Receivers(m) /\ s \notin Receivers(m)' => ~peers'[s].transmit
  BY <1>6, <1>13 DEF Receivers
<1>18. \A s \in revokedIds' \ revokedIds :
         s < next /\ ~peers'[s].transmit /\ slots'[s].phase # "final"
  <2>. SUFFICES ASSUME NEW s \in Sessions, owner[s] = n
                PROVE  s < next /\ ~peers'[s].transmit /\ slots'[s].phase # "final"
    BY <1>1
  <2>1. n # None
    BY DEF None
  <2>2. s < next
    BY <2>1 DEF IInv, Drawn, TypeOK, Sessions
  <2>3. ~peers'[s].transmit
    <3>1. CASE s \in Receivers(n) \cup Handshakes(n)
      BY <1>6, <3>1
    <3>2. CASE s \notin Receivers(n) \cup Handshakes(n)
      <4>1. ~Active(s) /\ s \notin Receivers(owner[s]) /\ s # None
        BY <3>2 DEF Handshakes, SlotsOf, Sessions, None
      <4>2. ~peers[s].transmit
        BY <4>1 DEF IInv, StrayIsSilent, AbsentIsSilent, HasPeer
      <4>. QED
        BY <1>5, <4>2 DEF Quieter
    <3>. QED
      BY <3>1, <3>2
  <2>4. slots'[s].phase # "final"
    <3>1. s \notin Handshakes(n) => slots[s] = NoSlot
      BY DEF Handshakes, SlotsOf, Active
    <3>. QED
      BY <1>8, <1>10, <3>1 DEF NoSlot
  <2>. QED
    BY <2>2, <2>3, <2>4
<1>19. \A s \in revokedIds' : \A m \in Nodes :
         associations'[m].current = s => associations'[m].revoking
  <2>. SUFFICES ASSUME NEW s \in revokedIds', NEW m \in Nodes,
                       associations'[m].current = s
                PROVE  associations'[m].revoking
    OBVIOUS
  <2>1. s \in Sessions /\ s # None
    BY <1>1 DEF IInv, TypeOK, Sessions, None
  <2>2. CASE m = n
    BY <1>14, <2>1, <2>2
  <2>3. CASE m # n
    <3>1. s \in Receivers(m)' \ {None}
      BY <2>1 DEF Receivers
    <3>2. owner[s] # n
      BY <1>16, <2>3, <3>1
    <3>3. s \in revokedIds /\ associations[m].current = s
      BY <1>1, <1>13, <2>3, <3>2
    <3>. QED
      BY <1>13, <2>3, <3>3 DEF IInv, RevokedForGood, Revoking
  <2>. QED
    BY <2>2, <2>3
<1>20. /\ due' \subseteq Sessions \cup Nodes /\ bound' \subseteq Nodes
       /\ UNCHANGED <<next, owner>>
       /\ revokedIds \subseteq revokedIds' /\ revokedIds' \subseteq Sessions
  BY <1>1 DEF IInv, TypeOK
<1>. QED
  BY <1>5, <1>10, <1>11, <1>13, <1>15, <1>16, <1>17, <1>18, <1>19, <1>20, Removal
-----------------------------------------------------------------------------
\* A handler that leaves the associations alone and ends slots or none.
LEMMA SlotsEnd ==
  ASSUME IInv, UNCHANGED <<associations, next, owner, revokedIds>>,
         due' \subseteq Sessions \cup Nodes, bound' \subseteq Nodes,
         Quieter(peers, peers'),
         slots' \in [Sessions -> Slot \cup {NoSlot}],
         \A s \in Sessions : slots'[s] \in {slots[s], NoSlot},
         \A s \in Sessions : Active(s) /\ slots'[s] = NoSlot =>
           /\ peers'[s].state # "awaiting"
           /\ peers'[s].transmit => s \in Receivers(owner[s])
  PROVE  IInv'
<1>1. \A n \in Nodes : Receivers(n)' = Receivers(n)
  BY DEF Receivers
<1>2. \A s \in Sessions : /\ slots'[s] # NoSlot => slots[s] # NoSlot
                          /\ slots'[s].phase = "final" => slots'[s] = slots[s]
  <2>. SUFFICES ASSUME NEW s \in Sessions
                PROVE  /\ slots'[s] # NoSlot => slots[s] # NoSlot
                       /\ slots'[s].phase = "final" => slots'[s] = slots[s]
    OBVIOUS
  <2>1. NoSlot.phase # "final"
    BY DEF NoSlot
  <2>2. CASE slots'[s] = slots[s]
    BY <2>2
  <2>3. CASE slots'[s] = NoSlot
    BY <2>1, <2>3
  <2>. QED
    BY <2>2, <2>3
<1>3. \A s \in Sessions : Active(s) /\ slots'[s] = NoSlot =>
        /\ peers'[s].state # "awaiting"
        /\ peers'[s].transmit => s \in Receivers(owner[s])'
  BY DEF Receivers
<1>4. /\ associations' \in [Nodes -> Association]
      /\ \A n \in Nodes : \A s \in Receivers(n)' \ {None} : owner[s] = n
      /\ \A n \in Nodes : associations'[n].current # None
                           => associations'[n].current # associations'[n].draining
      /\ revokedIds \subseteq revokedIds' /\ revokedIds' \subseteq Sessions
  BY <1>1 DEF IInv, TypeOK
<1>5. \A s \in revokedIds' : \A n \in Nodes :
        associations'[n].current = s => associations'[n].revoking
  BY DEF IInv, RevokedForGood, Revoking
<1>. QED
  BY <1>1, <1>2, <1>3, <1>4, <1>5, Removal

LEMMA PeerEventHolds ==
  ASSUME IInv, NEW s \in Sessions, PeerEvent(s) PROVE IInv'
<1>1. Quieter(peers, peers')
  <2>0. peers \in [Sessions -> Peer] /\ \A t \in Sessions : peers[t].transmit => peers[t].state # "absent"
    BY DEF IInv, TypeOK, AbsentIsSilent
  <2>1. CASE Fail(s)
    BY <2>0, <2>1 DEF Fail, Quieter, NoPeer, Peer
  <2>2. CASE GoOffline(s) /\ peers[s].state # "absent"
    BY <2>0, <2>2 DEF GoOffline, Quieter, Peer
  <2>. QED
    BY <2>1, <2>2 DEF PeerEvent, Lose, RetryRetirement
<1>2. UNCHANGED <<slots, associations, due, next, owner, bound, revokedIds>>
  BY DEF PeerEvent
<1>3. /\ due \subseteq Sessions \cup Nodes /\ bound \subseteq Nodes
      /\ slots \in [Sessions -> Slot \cup {NoSlot}]
  BY DEF IInv, TypeOK
<1>. QED
  BY <1>1, <1>2, <1>3, SlotsEnd DEF Active

LEMMA ElapseHolds ==
  ASSUME IInv, NEW d \in Sessions \cup Nodes, Elapse(d) PROVE IInv'
<1>1. UNCHANGED <<slots, associations, next, owner, peers, bound, revokedIds>>
      /\ due' = due \cup {d}
  BY DEF Elapse
<1>2. /\ due' \subseteq Sessions \cup Nodes /\ bound \subseteq Nodes
      /\ slots \in [Sessions -> Slot \cup {NoSlot}]
  BY <1>1 DEF IInv, TypeOK
<1>. QED
  BY <1>1, <1>2, PeersTyped, SlotsEnd DEF Active

\* The session of an enrollment is installed when its binding is durable; its
\* slot was there from message 0, and no reset came between.
LEMMA FinishEnrollmentHolds ==
  ASSUME IInv, NEW s \in Sessions, FinishEnrollment(s) PROVE IInv'
<1>1. /\ slots[s].phase = "final" /\ slots[s] \in Slot /\ Active(s)
      /\ peers[s].state = "absent" /\ ~peers[s].transmit /\ s \notin revokedIds
      /\ s < next /\ owner[s] \in Nodes
  <2>1. slots[s].phase = "final" /\ NoSlot.phase # "final"
    BY DEF FinishEnrollment, NoSlot
  <2>2. slots[s] # NoSlot /\ slots[s] \in Slot
    BY <2>1 DEF IInv, TypeOK
  <2>3. s < next
    BY <2>2 DEF IInv, Drawn, TypeOK, Sessions
  <2>. QED
    BY <2>1, <2>2, <2>3 DEF IInv, Finals, AbsentIsSilent, Drawn, Active
<1>2. UNCHANGED <<associations, next, owner, revokedIds>> /\ due' = due \ {s}
      /\ bound' \subseteq Nodes
  BY <1>1 DEF FinishEnrollment, IInv, TypeOK
<1>3. CASE /\ slots' = [slots EXCEPT ![s] = NoSlot] /\ UNCHANGED peers
  <2>1. /\ slots' \in [Sessions -> Slot \cup {NoSlot}]
        /\ \A t \in Sessions : slots'[t] \in {slots[t], NoSlot}
        /\ \A t \in Sessions : Active(t) /\ slots'[t] = NoSlot => t = s
        /\ due' \subseteq Sessions \cup Nodes
    BY <1>2, <1>3 DEF IInv, TypeOK, Active
  <2>. QED
    BY <1>1, <1>2, <1>3, <2>1, PeersTyped, SlotsEnd
<1>4. CASE /\ slots' = [slots EXCEPT ![s].phase = "confirm"]
           /\ peers' = [peers EXCEPT ![s] = NewPeer]
  <2>1. /\ slots'[s] \in Slot /\ slots'[s].phase = "confirm" /\ slots'[s] # NoSlot
        /\ peers'[s] = NewPeer
        /\ \A t \in Sessions \ {s} : slots'[t] = slots[t] /\ peers'[t] = peers[t]
    <3>1. [slots[s] EXCEPT !.phase = "confirm"] \in Slot
      BY <1>1 DEF Slot
    <3>2. slots'[s] = [slots[s] EXCEPT !.phase = "confirm"]
      BY <1>4 DEF IInv, TypeOK
    <3>3. slots'[s].phase = "confirm" /\ NoSlot.phase # "confirm"
      BY <1>1, <3>2 DEF Slot, NoSlot
    <3>. QED
      BY <1>4, <3>1, <3>2, <3>3 DEF IInv, TypeOK
  <2>2. \A t \in Sessions : Active(t)' <=> Active(t)
    BY <1>1, <2>1 DEF Active
  <2>3. TypeOK'
    <3>1. {t \in Sessions : Active(t)'} = {t \in Sessions : Active(t)}
      BY <2>2
    <3>2. /\ slots' \in [Sessions -> Slot \cup {NoSlot}]
          /\ peers' \in [Sessions -> Peer]
      <4>1. NewPeer \in Peer
        BY DEF NewPeer, Peer
      <4>. QED
        BY <1>4, <2>1, <4>1 DEF IInv, TypeOK
    <3>. QED
      BY <1>2, <3>1, <3>2 DEF IInv, TypeOK, Receivers
  <2>4. Drawn' /\ OneSlot'
    BY <1>1, <1>2, <2>1, <2>2 DEF IInv, Drawn, OneSlot, TypeOK, Sessions
  <2>5. AwaitingHasSlot' /\ AbsentIsSilent' /\ Finals'
    BY <1>1, <1>2, <2>1, <2>2
       DEF IInv, AwaitingHasSlot, AbsentIsSilent, Finals, NewPeer
  <2>6. RevokedForGood'
    BY <1>1, <1>2, <2>1 DEF IInv, TypeOK, RevokedForGood, Revoking
  <2>7. StrayIsSilent'
    BY <1>1, <1>2, <2>1, <2>2 DEF IInv, StrayIsSilent, Receivers, HasPeer
  <2>. QED
    BY <2>3, <2>4, <2>5, <2>6, <2>7 DEF IInv
<1>. QED
  BY <1>3, <1>4 DEF FinishEnrollment
-----------------------------------------------------------------------------
\* A confirmed session takes the place of the current one, which turns
\* receive-only, or is removed with its slot.
LEMMA ReceiveConfirmationHolds ==
  ASSUME IInv, NEW s \in Sessions, ReceiveConfirmation(s) PROVE IInv'
<1>. DEFINE p == [peers EXCEPT ![s].state = "online"]
            n == owner[s]
            a == associations[n]
            gone == {t \in {s} : Active(t)}
<1>1. /\ HasPeer(peers, s) /\ peers[s].transmit /\ Confirmed(p, s)
      /\ UNCHANGED <<next, owner, bound, revokedIds>>
  BY DEF ReceiveConfirmation
<1>2. Quieter(peers, p) /\ p[s].state = "online"
  BY <1>1 DEF IInv, TypeOK, AbsentIsSilent, Quieter, Peer, HasPeer
<1>3. /\ p \in [Sessions -> Peer]
      /\ \A t \in Sessions : p[t].transmit => p[t].state # "absent"
  BY <1>2 DEF Quieter
<1>4. Active(s) => n \in Nodes /\ a \in Association
  BY DEF Active, IInv, Drawn, TypeOK, Sessions
<1>5. /\ bound' \subseteq Nodes /\ due \subseteq Sessions \cup Nodes
      /\ slots \in [Sessions -> Slot \cup {NoSlot}]
      /\ associations \in [Nodes -> Association]
  BY <1>1 DEF IInv, TypeOK
<1>. HIDE DEF p
<1>6. CASE /\ UNCHANGED <<associations, due>>
           /\ \E A \in Acceptances :
                peers' = Aborted(p, gone, A) /\ slots' = Expired(p, gone, A)
  <2>1. PICK A : peers' = Aborted(p, gone, A) /\ slots' = Expired(p, gone, A)
    BY <1>6
  <2>2. Quieter(peers, peers')
    <3>1. Quieter(p, Aborted(p, gone, A))
      BY <1>3, AbortedQuieter
    <3>. QED
      BY <1>2, <2>1, <3>1, QuieterThanBoth
  <2>3. /\ slots' \in [Sessions -> Slot \cup {NoSlot}]
        /\ \A t \in Sessions : slots'[t] \in {slots[t], NoSlot}
    BY <1>5, <2>1 DEF Expired
  <2>4. ASSUME NEW t \in Sessions, Active(t), slots'[t] = NoSlot
        PROVE  peers'[t].state = "absent"
    <3>1. t \in gone /\ (~HasPeer(p, t) \/ Retires(p, t, A))
      BY <2>1, <2>4 DEF Expired, Active
    <3>. HIDE DEF gone
    <3>. QED
      BY <1>3, <2>1, <3>1, AbortedIsGone
  <2>5. \A t \in Sessions : Active(t) /\ slots'[t] = NoSlot =>
          /\ peers'[t].state # "awaiting"
          /\ peers'[t].transmit => t \in Receivers(owner[t])
    BY <2>2, <2>4 DEF Quieter
  <2>. QED
    BY <1>1, <1>5, <1>6, <2>2, <2>3, <2>5, SlotsEnd
<1>7. ASSUME NEW A, Active(s), ActivationFails(p, a, s, A),
             peers' = Aborted(p, {a.draining, s}, A),
             slots' = [slots EXCEPT ![s] = NoSlot], UNCHANGED <<associations, due>>
      PROVE  IInv'
  <2>1. Quieter(p, peers') /\ ~peers'[s].transmit
    BY <1>3, <1>7, AbortedQuieter, AbortedIsSilent
  <2>2. Quieter(peers, peers') /\ peers'[s].state # "awaiting"
    BY <1>2, <2>1, QuieterThanBoth DEF Quieter
  <2>3. /\ slots' \in [Sessions -> Slot \cup {NoSlot}]
        /\ \A t \in Sessions : slots'[t] \in {slots[t], NoSlot}
        /\ \A t \in Sessions : Active(t) /\ slots'[t] = NoSlot => t = s
    BY <1>5, <1>7 DEF Active
  <2>. QED
    BY <1>1, <1>5, <1>7, <2>1, <2>2, <2>3, SlotsEnd
<1>8. ASSUME slots' = [slots EXCEPT ![s] = NoSlot] \/ slots' = slots
      PROVE  /\ slots' \in [Sessions -> Slot \cup {NoSlot}]
             /\ \A t \in Sessions : slots'[t] \in {slots[t], NoSlot}
             /\ \A t \in Sessions : Active(t) /\ slots'[t] = NoSlot => t = s
  BY <1>5, <1>8 DEF Active
<1>9. ASSUME a.current = s, Active(s), peers' = p,
             associations' = [associations EXCEPT ![n] = a], due' = due,
             slots' = [slots EXCEPT ![s] = NoSlot] \/ slots' = slots
      PROVE  IInv'
  <2>1. associations' = associations /\ s \in Receivers(n)
    BY <1>4, <1>5, <1>9 DEF Receivers
  <2>. QED
    BY <1>1, <1>2, <1>5, <1>8, <1>9, <2>1, SlotsEnd
<1>10. ASSUME NEW A, a.current # s, Active(s), ~Revoking(n),
              peers' = Silenced(Aborted(p, {a.draining}, A), {a.current}),
              associations' = [associations EXCEPT ![n] =
                                 [a EXCEPT !.draining = a.current, !.current = s]],
              due' = due \ {n},
              slots' = [slots EXCEPT ![s] = NoSlot] \/ slots' = slots
       PROVE  IInv'
  <2>. DEFINE q == Aborted(p, {a.draining}, A)
              b == [a EXCEPT !.draining = a.current, !.current = s]
  <2>1. Quieter(p, q)
    BY <1>3, AbortedQuieter
  <2>2. Quieter(q, peers')
    <3>. HIDE DEF q
    <3>1. /\ q \in [Sessions -> Peer]
          /\ \A t \in Sessions : q[t].transmit => q[t].state # "absent"
      BY <2>1 DEF Quieter
    <3>2. peers' = Silenced(q, {a.current})
      BY <1>10 DEF q
    <3>. QED
      BY <3>1, <3>2, SilencedQuieter
  <2>3. Quieter(peers, peers') /\ peers'[s].state # "awaiting"
    <3>. HIDE DEF q
    <3>1. peers'[s].state # "awaiting"
      BY <1>2, <2>1, <2>2 DEF Quieter
    <3>. QED
      BY <1>2, <2>1, <2>2, <3>1, QuieterThanBoth
  <2>4. n \in Nodes /\ a \in Association
    BY <1>4, <1>10
  <2>5. /\ b \in Association /\ b.current = s /\ b.draining = a.current
        /\ b.revoking = a.revoking
    BY <2>4 DEF Association
  <2>6. /\ associations' \in [Nodes -> Association] /\ associations'[n] = b
        /\ \A m \in Nodes \ {n} : associations'[m] = associations[m]
    <3>. HIDE DEF n, b
    <3>1. associations' = [associations EXCEPT ![n] = b]
      BY <1>10 DEF b
    <3>. QED
      BY <1>5, <2>4, <2>5, <3>1
  <2>. HIDE DEF b
  <2>7. /\ \A m \in Nodes : \A t \in Receivers(m)' \ {None} : owner[t] = m
        /\ \A m \in Nodes : associations'[m].current # None
                             => associations'[m].current # associations'[m].draining
    <3>. SUFFICES ASSUME NEW m \in Nodes
                  PROVE  /\ \A t \in Receivers(m)' \ {None} : owner[t] = m
                         /\ associations'[m].current # None
                             => associations'[m].current # associations'[m].draining
      OBVIOUS
    <3>1. CASE m = n
      BY <1>10, <2>4, <2>5, <2>6, <3>1 DEF IInv, TypeOK, Receivers
    <3>2. CASE m # n
      BY <2>6, <3>2 DEF IInv, TypeOK, Receivers
    <3>. QED
      BY <3>1, <3>2
  <2>8. \A m \in Nodes : \A t \in Sessions :
          t \in Receivers(m) /\ t \notin Receivers(m)' => ~peers'[t].transmit
    <3>. SUFFICES ASSUME NEW m \in Nodes, NEW t \in Sessions,
                         t \in Receivers(m), t \notin Receivers(m)'
                  PROVE  ~peers'[t].transmit
      OBVIOUS
    <3>1. m = n /\ t = a.draining
      BY <2>5, <2>6 DEF Receivers
    <3>2. ~q[t].transmit
      BY <1>3, <3>1, AbortedIsSilent
    <3>. HIDE DEF q
    <3>. QED
      BY <2>2, <3>2 DEF Quieter
  <2>9. \A t \in revokedIds' : \A m \in Nodes :
          associations'[m].current = t => associations'[m].revoking
    <3>1. s \notin revokedIds
      BY <1>1 DEF IInv, RevokedForGood
    <3>. QED
      BY <1>1, <2>5, <2>6, <3>1 DEF IInv, RevokedForGood, Revoking
  <2>10. s \in Receivers(owner[s])'
    BY <1>1, <2>5, <2>6 DEF Receivers
  <2>11. \A t \in Sessions :
           /\ slots'[t] # NoSlot => slots[t] # NoSlot
           /\ slots'[t].phase = "final" => slots'[t] = slots[t]
           /\ Active(t) /\ slots'[t] = NoSlot =>
                /\ peers'[t].state # "awaiting"
                /\ peers'[t].transmit => t \in Receivers(owner[t])'
    <3>. HIDE DEF q, n, a
    <3>1. NoSlot.phase # "final"
      BY DEF NoSlot
    <3>. QED
      BY <1>5, <1>8, <1>10, <2>3, <2>10, <3>1
  <2>12. due' \subseteq Sessions \cup Nodes /\ revokedIds' \subseteq Sessions
         /\ revokedIds' = revokedIds
    BY <1>1, <1>5, <1>10 DEF IInv, TypeOK
  <2>. HIDE DEF q, n, a
  <2>13. slots' \in [Sessions -> Slot \cup {NoSlot}]
    BY <1>8, <1>10
  <2>. QED
    BY <1>1, <1>5, <2>3, <2>6, <2>7, <2>8, <2>9, <2>11, <2>12, <2>13, Removal
<1>11. CASE Active(s) /\ ~IsRevoked(s) /\ ~(\E A \in Acceptances :
              /\ ActivationFails(p, a, s, A)
              /\ peers' = Aborted(p, {a.draining, s}, A)
              /\ slots' = [slots EXCEPT ![s] = NoSlot]
              /\ UNCHANGED <<associations, due>>)
  <2>1. PICK A \in Acceptances :
          /\ peers' = IF a.current = s THEN p
                      ELSE Silenced(Aborted(p, {a.draining}, A), {a.current})
          /\ associations' = [associations EXCEPT ![n] = Activated(a, s)]
          /\ due' = IF a.current = s THEN due ELSE due \ {n}
          /\ slots' = [slots EXCEPT ![s] = NoSlot] \/ slots' = slots
    BY <1>1, <1>11 DEF Confirmed
  <2>2. ~Revoking(n)
    BY <1>11 DEF IsRevoked
  <2>3. CASE a.current = s
    BY <1>9, <1>11, <2>1, <2>3 DEF Activated
  <2>4. CASE a.current # s
    BY <1>10, <1>11, <2>1, <2>2, <2>4 DEF Activated
  <2>. QED
    BY <2>3, <2>4
<1>. QED
  BY <1>1, <1>6, <1>7, <1>11 DEF Confirmed
-----------------------------------------------------------------------------
\* The admission of a handshake: the id drawn is unknown to every structure,
\* and the Node has no other handshake.
LEMMA AdmissionHolds ==
  ASSUME IInv, NEW n \in Nodes, NEW slot \in Slot, Admits(n), Draw(n, slot),
         UNCHANGED <<associations, due, bound, revokedIds>>,
         \/ peers' = peers
         \/ peers' = [peers EXCEPT ![next] = NewPeer] /\ slot.phase # "final"
  PROVE  IInv'
<1>1. /\ next \in Sessions /\ slots[next] = NoSlot /\ owner[next] = None
      /\ peers[next].state = "absent" /\ ~peers[next].transmit /\ next \notin revokedIds
  <2>1. next \in Sessions
    BY DEF Admits, HasRoom, IInv, TypeOK, Sessions
  <2>. QED
    BY <2>1 DEF IInv, Drawn, AbsentIsSilent, Sessions
<1>2. /\ slots' \in [Sessions -> Slot \cup {NoSlot}] /\ slots'[next] = slot
      /\ owner' \in [Sessions -> Nodes \cup {None}] /\ owner'[next] = n
      /\ \A s \in Sessions \ {next} : slots'[s] = slots[s] /\ owner'[s] = owner[s]
      /\ next' = next + 1
  BY <1>1 DEF Draw, IInv, TypeOK
<1>3. slot # NoSlot /\ n # None
  BY DEF Slot, NoSlot, None
<1>4. /\ peers' \in [Sessions -> Peer]
      /\ \A s \in Sessions \ {next} : peers'[s] = peers[s]
      /\ \/ peers'[next] = peers[next]
         \/ peers'[next] = NewPeer /\ slot.phase # "final"
  <2>1. NewPeer \in Peer /\ peers \in [Sessions -> Peer]
    BY DEF NewPeer, Peer, IInv, TypeOK
  <2>2. CASE peers' = peers
    BY <2>1, <2>2
  <2>3. CASE peers' = [peers EXCEPT ![next] = NewPeer] /\ slot.phase # "final"
    BY <1>1, <2>1, <2>3
  <2>. QED
    BY <2>2, <2>3
<1>5. \A s \in Sessions : Active(s)' <=> Active(s) \/ s = next
  BY <1>2, <1>3 DEF Active
<1>6. \A s \in Sessions : s < next' <=> s < next \/ s = next
  BY <1>1, <1>2 DEF IInv, TypeOK, Sessions
<1>7. \A m \in Nodes : Receivers(m)' = Receivers(m) /\ next \notin Receivers(m)
  <2>. SUFFICES ASSUME NEW m \in Nodes
                PROVE  Receivers(m)' = Receivers(m) /\ next \notin Receivers(m)
    OBVIOUS
  <2>1. next # None /\ m # None
    BY <1>1 DEF Sessions, None
  <2>. QED
    BY <1>1, <2>1 DEF IInv, TypeOK, Receivers
<1>8. TypeOK'
  <2>1. Cardinality({s \in Sessions : Active(s)'}) <= MaxSlots
    <3>. DEFINE S == {s \in Sessions : Active(s)}
    <3>1. {s \in Sessions : Active(s)'} = S \cup {next} /\ next \notin S
      BY <1>1, <1>5 DEF Active
    <3>2. IsFiniteSet(S)
      <4>1. IsFiniteSet(Sessions)
        BY FS_Interval DEF Sessions
      <4>. QED
        BY <4>1, FS_Subset
    <3>3. Cardinality(S) < MaxSlots
      BY DEF Admits, HasRoom
    <3>. HIDE DEF S
    <3>4. Cardinality(S \cup {next}) = Cardinality(S) + 1 /\ Cardinality(S) \in Nat
      BY <3>1, <3>2, FS_AddElement, FS_CardinalityType
    <3>. QED
      BY <3>1, <3>3, <3>4
  <2>2. next' \in 1..(MaxSessions + 1)
    BY <1>1, <1>2 DEF Sessions
  <2>3. /\ \A m \in Nodes : \A s \in Receivers(m)' \ {None} : owner'[s] = m
        /\ \A m \in Nodes : associations'[m].current # None
                             => associations'[m].current # associations'[m].draining
    <3>1. \A m \in Nodes : \A s \in Receivers(m) \ {None} : s \in Sessions
      BY DEF IInv, TypeOK, Receivers, Association
    <3>. QED
      BY <1>2, <1>7, <3>1 DEF IInv, TypeOK
  <2>4. /\ associations' \in [Nodes -> Association] /\ due' \subseteq Sessions \cup Nodes
        /\ bound' \subseteq Nodes /\ revokedIds' \subseteq Sessions
    BY DEF IInv, TypeOK
  <2>. QED
    BY <1>2, <1>4, <2>1, <2>2, <2>3, <2>4 DEF TypeOK
<1>9. Drawn'
  BY <1>1, <1>2, <1>4, <1>6 DEF IInv, Drawn, TypeOK, Sessions
<1>10. OneSlot'
  <2>1. \A s \in Sessions : Active(s) => owner[s] # n
    BY DEF Admits, SlotsOf
  <2>. QED
    BY <1>1, <1>2, <1>5, <2>1 DEF IInv, OneSlot, Active
<1>11. AwaitingHasSlot' /\ AbsentIsSilent'
  BY <1>1, <1>4, <1>5 DEF IInv, AwaitingHasSlot, AbsentIsSilent, NewPeer
<1>12. Finals'
  BY <1>1, <1>2, <1>4 DEF IInv, Finals
<1>13. RevokedForGood'
  BY <1>1, <1>4 DEF IInv, TypeOK, RevokedForGood, Revoking
<1>14. StrayIsSilent'
  <2>. SUFFICES ASSUME NEW s \in Sessions, HasPeer(peers', s), ~Active(s)',
                       s \notin Receivers(owner[s])'
                PROVE  ~peers'[s].transmit
    BY DEF StrayIsSilent
  <2>1. s # next /\ ~Active(s) /\ peers'[s] = peers[s] /\ owner'[s] = owner[s]
    BY <1>2, <1>4, <1>5
  <2>2. HasPeer(peers, s) /\ s \notin Receivers(owner[s])
    BY <2>1 DEF HasPeer, Receivers
  <2>. QED
    BY <2>1, <2>2 DEF IInv, StrayIsSilent
<1>. QED
  BY <1>8, <1>9, <1>10, <1>11, <1>12, <1>13, <1>14 DEF IInv

-----------------------------------------------------------------------------
LEMMA StepHolds == IInv /\ [Next]_vars => IInv'
<1>. SUFFICES ASSUME IInv, [Next]_vars PROVE IInv'
  OBVIOUS
<1>1. ASSUME NEW n \in Nodes, BeginEnrollment(n) PROVE IInv'
  <2>1. NewSlot("enrollment", "final") \in Slot
    BY DEF NewSlot, Slot
  <2>. QED
    BY <1>1, <2>1, AdmissionHolds DEF BeginEnrollment
<1>2. ASSUME NEW n \in Nodes, BeginSession(n) PROVE IInv'
  <2>. DEFINE slot == NewSlot("session", "confirm")
  <2>1. slot \in Slot /\ slot.phase # "final"
    BY DEF NewSlot, Slot
  <2>2. /\ Admits(n) /\ Draw(n, slot) /\ peers' = [peers EXCEPT ![next] = NewPeer]
        /\ UNCHANGED <<associations, due, bound, revokedIds>>
    BY <1>2 DEF BeginSession
  <2>. HIDE DEF slot
  <2>. QED
    BY <2>1, <2>2, AdmissionHolds
<1>3. ASSUME NEW s \in Sessions, FinishEnrollment(s) PROVE IInv'
  BY <1>3, FinishEnrollmentHolds
<1>4. ASSUME NEW s \in Sessions, ReceiveConfirmation(s) PROVE IInv'
  BY <1>4, ReceiveConfirmationHolds
<1>5. CASE Tick
  BY <1>5, TickHolds DEF Tick
<1>6. ASSUME NEW n \in Nodes, Reset(n) PROVE IInv'
  BY <1>6, ResetHolds
<1>7. ASSUME NEW s \in Sessions, PeerEvent(s) PROVE IInv'
  BY <1>7, PeerEventHolds
<1>8. ASSUME NEW d \in Sessions \cup Nodes, Elapse(d) PROVE IInv'
  BY <1>8, ElapseHolds
<1>9. CASE UNCHANGED vars
  BY <1>9 DEF vars, IInv, TypeOK, Drawn, OneSlot, AwaitingHasSlot, AbsentIsSilent,
              Finals, RevokedForGood, StrayIsSilent, Active, Receivers, Revoking, HasPeer
<1>. QED
  BY <1>1, <1>2, <1>3, <1>4, <1>5, <1>6, <1>7, <1>8, <1>9
     DEF Next, Protocol, Environment

LEMMA Invariance == Spec => []IInv
<1>. QED
  BY InitHolds, StepHolds, PTL DEF Spec

\* Types; the slots in use fit their array, and an association names two
\* different sessions of its own Node, however confirmations, drains and resets
\* interleave.
THEOREM MasterTyping == Spec => []TypeOK
<1>1. IInv => TypeOK
  BY DEF IInv
<1>. QED
  BY <1>1, Invariance, PTL

\* A Node has one unconfirmed session at most: an admission finds no slot of
\* the Node, and a slot lives as long as its session is unconfirmed.
THEOREM OnePending == Spec => []OnePendingPerNode
<1>1. IInv => OnePendingPerNode
  BY DEF IInv, AwaitingHasSlot, OneSlot, OnePendingPerNode
<1>. QED
  BY <1>1, Invariance, PTL

\* What an administrator resets never transmits again and never becomes
\* current, whatever of it outlives the reset in a slot, a peer or a queue.
THEOREM RevocationIsFinal == Spec => []RevokedForGood
<1>1. IInv => RevokedForGood
  BY DEF IInv
<1>. QED
  BY <1>1, Invariance, PTL

\* A peer that neither a slot nor its Node's association knows is receive-only.
THEOREM StraysAreSilent == Spec => []StrayIsSilent
<1>1. IInv => StrayIsSilent
  BY DEF IInv
<1>. QED
  BY <1>1, Invariance, PTL
=============================================================================
