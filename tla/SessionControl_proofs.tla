----------------------- MODULE SessionControl_proofs ------------------------
(***************************************************************************)
(* Proofs about what runs inside an established session.                   *)
(*                                                                         *)
(* ConfigSync, for every number of generations, sessions, chunks and       *)
(* faults.  SyncInv is what all the faults leave standing: sessions are    *)
(* confirmed in the order of their handshakes, a session asks for no more  *)
(* than the generations and the faults together, a label is never newer    *)
(* than the snapshot it is of.  AckedInv is what makes AcknowledgedStays   *)
(* hold through rekeys: what was acknowledged in the Master's latest       *)
(* session is applied in the active one, or the Node went back to an older *)
(* session since; that one was still open and the latest not yet, because  *)
(* an attempt is newer than all other sessions and no two are open.        *)
(*                                                                         *)
(* EndpointMigration, for every set of endpoints, queue capacity and       *)
(* number of disturbances.  Types says what each channel carries.  Trail   *)
(* is what makes OnlyProven hold: as long as the control plane has an      *)
(* endpoint to send challenges to, every live challenge on its way goes    *)
(* there, and the Node can only have heard one there; a live response      *)
(* exists only once it has.                                                *)
(***************************************************************************)
EXTENDS ConfigSync, EndpointMigration, FiniteSetTheorems, SequenceTheorems, TLAPS

-----------------------------------------------------------------------------
(* ConfigSync                                                              *)

\* Sessions are confirmed in the order of their handshakes.
Confirmed(s) == s \in Sessions /\ requests[s] > 0
Latest(s) == Confirmed(s) /\ \A t \in Sessions : Confirmed(t) => t <= s
InTurn ==
  /\ peers \in [Sessions -> {"absent", "attempt", "open", "closed"}]
  /\ \E n \in 0..MaxSessions : \A s \in Sessions : peers[s] # "absent" <=> s <= n
  /\ \A s \in Sessions : Confirmed(s) => peers[s] # "absent"
  /\ published # NotPublished => Latest(published.session)
  /\ slot # None => Latest(slot)

\* A session asks for one generation after the other, and again for each fault
\* that kept its slot.
Kept(s) == IF slot = s THEN 1 ELSE 0
High == IF published.pending # None THEN published.pending ELSE published.acked
Numbered ==
  /\ \A s \in Sessions : requests[s] + Kept(s) <= effective + faults
  /\ published # NotPublished =>
       requests[published.session] + Kept(published.session) <= High + faults

MasterTyped ==
  /\ store \in Generations /\ effective \in Generations /\ effective <= store
  /\ enrolled \in BOOLEAN
  /\ links \in [Sessions -> LinkStates] /\ slot \in Sessions \cup {None}
  /\ requests \in [Sessions -> Nat]
  /\ up \subseteq {"master", "node"} /\ faults \in 0..MaxFaults
PublishedTyped ==
  /\ published \in Published \cup {NotPublished}
  /\ published.pending = None <=> published.request = None
  /\ published.pending = None <=> published.content = None
  /\ published.pending <= published.content
  /\ published.pending <= effective /\ published.acked <= effective

\* A label is never newer than the snapshot it is of.
ApplierTyped ==
  /\ applier \in Applier /\ installed \in Generations \cup {None}
  /\ applier.active # None => Confirmed(applier.active) /\ applier.request # None
  /\ applier.applied <= applier.appliedContent
  /\ applier.ackDue => applier.applied # None
  /\ applier.installing => /\ receiver = Idle /\ applier.pending # None
                           /\ applier.pending <= applier.pendingContent
  /\ applier.installing \/ applier.ackDue =>
       applier.active # None /\ applier.session = applier.active
ReceiverTyped ==
  /\ receiver \in Receiver \cup {Idle}
  /\ receiver # Idle => applier.active # None /\ receiver.generation <= receiver.content
WireTyped ==
  /\ sent \subseteq Frame /\ acks \subseteq Ack
  /\ \A f \in sent : Confirmed(f.session) /\ f.generation <= f.content

MasterInv == MasterTyped /\ PublishedTyped /\ Numbered
NodeInv == ApplierTyped /\ ReceiverTyped
SyncInv == MasterInv /\ NodeInv /\ WireTyped /\ InTurn

LEMMA Bounds ==
  /\ MaxGeneration \in Nat \ {0} /\ MaxSessions \in Nat \ {0}
  /\ MaxFaults \in Nat /\ Chunks \in Nat \ {0}
  /\ None = 0 /\ None \notin Sessions /\ None \notin Generations /\ None \notin Requests
  /\ \A s \in Sessions : s \in Nat /\ s > 0
  /\ \A g \in Generations : g \in Nat /\ g > 0
BY ParametersAssumption DEF None, Sessions, Generations, Requests

LEMMA IdleIsNone ==
  /\ Idle \notin Receiver /\ Idle.generation = None
  /\ NotPublished \notin Published /\ NotPublished.session = None /\ NotPublished.pending = None
  /\ NotPublished.acked = None /\ NotPublished.request = None /\ NotPublished.content = None
BY Bounds DEF Idle, Receiver, NotPublished, Published

\* The sessions of the Node are numbered as they come.
LEMMA NewestIs ==
  ASSUME InTurn
  PROVE  Newest \in 0..MaxSessions /\ \A s \in Sessions : peers[s] # "absent" <=> s <= Newest
<1>1. PICK n \in 0..MaxSessions : \A s \in Sessions : peers[s] # "absent" <=> s <= n
  BY DEF InTurn
<1>2. {s \in Sessions : peers[s] # "absent"} = 1..n
  <2>1. MaxSessions \in Nat /\ n \in 0..MaxSessions
    BY Bounds, <1>1
  <2>2. ASSUME NEW s \in 1..n PROVE s \in Sessions /\ s <= n
    BY <2>1 DEF Sessions
  <2>3. ASSUME NEW s \in Sessions, s <= n PROVE s \in 1..n
    BY <2>1, <2>3 DEF Sessions
  <2>. QED  BY <1>1, <2>2, <2>3
<1>3. Cardinality(1..n) = n
  <2>1. 1 \in Int /\ n \in Int /\ n \in Nat
    BY <1>1, Bounds
  <2>2. Cardinality(1..n) = IF 1 > n THEN 0 ELSE n - 1 + 1
    BY <2>1, FS_Interval
  <2>. QED  BY <2>1, <2>2
<1>. QED
  BY <1>1, <1>2, <1>3 DEF Newest

-----------------------------------------------------------------------------
\* The steps of the Master.
LEMMA SameConfirmed ==
  ASSUME requests' = requests PROVE \A s : Confirmed(s)' = Confirmed(s) /\ Latest(s)' = Latest(s)
BY DEF Confirmed, Latest

\* What does not concern the publisher leaves its invariant.
LEMMA MasterKept ==
  ASSUME MasterInv, UNCHANGED masterVars, faults' \in 0..MaxFaults, faults <= faults', up' \subseteq up
  PROVE  MasterInv'
<1>1. UNCHANGED <<store, effective, enrolled, links, published, slot, requests>>
  BY DEF masterVars
<1>2. MasterTyped' /\ PublishedTyped'
  BY <1>1 DEF MasterInv, MasterTyped, PublishedTyped
<1>3. Numbered'
  <2>1. /\ \A s : Kept(s)' = Kept(s) /\ Kept(s) \in {0, 1}
        /\ High' = High
    BY <1>1 DEF Kept, High
  <2>2. High \in Nat /\ effective \in Nat /\ faults \in Nat /\ faults' \in Nat
    BY Bounds, IdleIsNone DEF MasterInv, MasterTyped, PublishedTyped, High, Published
  <2>3. ASSUME NEW s \in Sessions PROVE requests[s] + Kept(s) <= effective + faults'
    <3>1. requests[s] \in Nat /\ requests[s] + Kept(s) <= effective + faults
      BY DEF MasterInv, MasterTyped, Numbered
    <3>. QED  BY <2>1, <2>2, <3>1
  <2>4. ASSUME published # NotPublished
        PROVE  requests[published.session] + Kept(published.session) <= High + faults'
    <3>1. published.session \in Sessions
      BY <2>4 DEF MasterInv, PublishedTyped, Published
    <3>2. requests[published.session] \in Nat
          /\ requests[published.session] + Kept(published.session) <= High + faults
      BY <2>4, <3>1 DEF MasterInv, MasterTyped, Numbered
    <3>. QED  BY <2>1, <2>2, <3>2
  <2>. QED  BY <1>1, <2>1, <2>3, <2>4 DEF Numbered
<1>. QED
  BY <1>2, <1>3 DEF MasterInv

LEMMA NodeKept ==
  ASSUME NodeInv, UNCHANGED nodeVars, \A s : Confirmed(s) => Confirmed(s)' PROVE NodeInv'
<1>1. UNCHANGED <<applier, receiver, installed>>
  BY DEF nodeVars
<1>2. ApplierTyped'
  BY <1>1 DEF NodeInv, ApplierTyped
<1>. QED
  BY <1>1, <1>2 DEF NodeInv, ReceiverTyped

LEMMA WireShrinks ==
  ASSUME WireTyped, sent' \subseteq sent, acks' \subseteq acks, \A s : Confirmed(s) => Confirmed(s)'
  PROVE  WireTyped'
BY DEF WireTyped

\* The publisher's tick, where nothing is published or the process ends.
LEMMA EffectiveIs ==
  ASSUME MasterTyped
  PROVE  Effective \in Generations /\ effective <= Effective /\ Effective <= store
BY Bounds DEF MasterTyped, Effective

LEMMA MasterIdles ==
  ASSUME MasterInv, UNCHANGED <<store, enrolled, links, slot, requests, faults>>,
         effective' = Effective, published' \in {published, NotPublished}, up' \subseteq up
  PROVE  MasterInv'
<1>1. effective' \in Generations /\ effective <= effective' /\ effective' <= store
  BY EffectiveIs DEF MasterInv
<1>2. MasterTyped'
  BY <1>1 DEF MasterInv, MasterTyped
<1>3. published.pending \in Nat /\ published.acked \in Nat /\ effective \in Nat /\ effective' \in Nat
  BY <1>1, Bounds, IdleIsNone DEF MasterInv, MasterTyped, PublishedTyped, Published
<1>4. PublishedTyped'
  <2>1. CASE published' = published
    BY <1>1, <1>3, <2>1 DEF MasterInv, PublishedTyped
  <2>2. CASE published' = NotPublished
    BY <1>3, <2>2, IdleIsNone, Bounds DEF PublishedTyped
  <2>. QED  BY <2>1, <2>2
<1>5. Numbered'
  <2>1. \A s : Kept(s)' = Kept(s) /\ Kept(s) \in {0, 1}
    BY DEF Kept
  <2>2. ASSUME NEW s \in Sessions PROVE requests[s] + Kept(s) <= effective' + faults
    <3>1. requests[s] \in Nat /\ requests[s] + Kept(s) <= effective + faults /\ faults \in Nat
      BY Bounds DEF MasterInv, MasterTyped, Numbered
    <3>. QED  BY <1>1, <1>3, <2>1, <3>1
  <2>3. published' # NotPublished => published' = published /\ High' = High
    BY DEF High
  <2>. QED  BY <2>1, <2>2, <2>3 DEF Numbered, MasterInv
<1>. QED
  BY <1>2, <1>4, <1>5 DEF MasterInv

\* A request that is drawn for the session.
LEMMA PreparedFields ==
  ASSUME NEW p, p \in Published \/ (\E s \in Sessions : p = [NotPublished EXCEPT !.session = s]),
         NEW g
  PROVE  /\ Prepared(p, g).session = p.session /\ Prepared(p, g).acked = p.acked
         /\ Prepared(p, g).pending = g /\ Prepared(p, g).request = requests[p.session] + 1
         /\ Prepared(p, g).content = store
         /\ g \in Generations /\ requests[p.session] + 1 \in Requests /\ store \in Generations =>
              Prepared(p, g) \in Published
<1>1. CASE p \in Published
  BY <1>1 DEF Prepared, Published
<1>2. ASSUME NEW s \in Sessions, p = [NotPublished EXCEPT !.session = s]
      PROVE  p \in Published
  BY <1>2 DEF NotPublished, Published
<1>3. p \in Published
  BY <1>1, <1>2
<1>. QED
  BY <1>3 DEF Prepared, Published

LEMMA RequestDrawn ==
  ASSUME MasterInv, effective' \in Generations, effective <= effective', effective' <= store,
         UNCHANGED <<store, enrolled>>, up' \subseteq up, links' \in [Sessions -> LinkStates],
         NEW s \in Sessions, NEW p, p.session = s,
         p \in Published \/ p = [NotPublished EXCEPT !.session = s],
         published' = Prepared(p, effective'), requests' = [requests EXCEPT ![s] = @ + 1],
         p.acked <= effective',
         slot' \in {slot, s, None},
         faults' \in 0..MaxFaults, faults <= faults',
         requests[s] + 1 + Kept(s)' <= effective' + faults'
  PROVE  MasterInv'
<1>1. effective \in Nat /\ effective' \in Nat /\ store \in Nat /\ faults \in Nat /\ faults' \in Nat
      /\ store \in Generations /\ effective' <= MaxGeneration /\ faults' <= MaxFaults
      /\ faults <= MaxFaults /\ MaxGeneration \in Nat /\ MaxFaults \in Nat
  BY Bounds DEF MasterInv, MasterTyped, Generations
<1>2. requests[s] \in Nat /\ requests \in [Sessions -> Nat]
  BY DEF MasterInv, MasterTyped
<1>3. requests[s] + 1 \in Requests
  <2> DEFINE k == Kept(s)'
  <2>1. k \in {0, 1} /\ requests[s] + 1 + k <= effective' + faults'
    BY DEF Kept
  <2> HIDE DEF k
  <2>. QED  BY <1>1, <1>2, <2>1 DEF Requests
<1>4. MasterTyped'
  <2>1. requests' \in [Sessions -> Nat]
    BY <1>2
  <2>2. slot' \in Sessions \cup {None}
    BY DEF MasterInv, MasterTyped
  <2>. QED  BY <2>1, <2>2 DEF MasterInv, MasterTyped
<1>5. /\ published' \in Published /\ published'.session = s /\ published'.acked = p.acked
      /\ published'.pending = effective' /\ published'.request = requests[s] + 1
      /\ published'.content = store
  BY <1>1, <1>3, PreparedFields
<1>6. PublishedTyped'
  <2>1. effective' # None /\ store # None /\ requests[s] + 1 # None
    BY <1>1, <1>3, Bounds
  <2>2. published'.pending <= published'.content /\ published'.pending <= effective'
        /\ published'.acked <= effective'
    BY <1>1, <1>5
  <2>. QED  BY <1>5, <2>1, <2>2 DEF PublishedTyped
<1>7. Numbered'
  <2>1. High' = effective'
    BY <1>5, Bounds DEF High
  <2>2. requests'[s] = requests[s] + 1
    BY <1>2
  <2>3. ASSUME NEW t \in Sessions PROVE (requests[t] + Kept(t))' <= effective' + faults'
    <3>1. CASE t = s
      BY <2>2, <3>1
    <3>2. CASE t # s
      <4>1. requests'[t] = requests[t] /\ requests[t] \in Nat
        BY <1>2, <3>2
      <4>2. Kept(t)' <= Kept(t) /\ Kept(t) \in {0, 1} /\ Kept(t)' \in {0, 1}
        BY <3>2, Bounds DEF Kept
      <4>3. requests[t] + Kept(t) <= effective + faults
        BY DEF MasterInv, Numbered
      <4> DEFINE k == Kept(t)
      <4> DEFINE kk == Kept(t)'
      <4>4. requests[t] + kk <= effective' + faults'
        <5>1. kk <= k /\ k \in {0, 1} /\ kk \in {0, 1} /\ requests[t] + k <= effective + faults
          BY <4>2, <4>3
        <5> HIDE DEF k, kk
        <5>. QED  BY <1>1, <4>1, <5>1
      <4>. QED  BY <4>1, <4>4
    <3>. QED  BY <3>1, <3>2
  <2>4. (requests[published.session] + Kept(published.session))' <= High' + faults'
    <3>1. Kept(published.session)' = Kept(s)'
      BY <1>5 DEF Kept
    <3>. QED  BY <1>5, <2>1, <2>2, <3>1
  <2>. QED  BY <2>3, <2>4 DEF Numbered
<1>. QED
  BY <1>4, <1>6, <1>7 DEF MasterInv

LEMMA FramesTyped ==
  ASSUME NEW q \in Published, q.pending \in Generations, q.request \in Requests,
         q.content \in Generations, q.pending <= q.content, NEW accepted \in 0..All,
         NEW f \in Transmission(q, accepted)
  PROVE  f \in Frame /\ f.session = q.session /\ f.generation <= f.content
<1>1. PICK i \in 0..(accepted - 1) :
        f = [session |-> q.session, part |-> i, generation |-> q.pending,
             request |-> q.request, content |-> q.content]
  BY DEF Transmission
<1>2. i \in Parts
  BY Bounds DEF All, Parts
<1>. QED
  BY <1>1, <1>2 DEF Frame, Published

LEMMA AcceptedIs == ASSUME NEW n \in AcceptedFrames PROVE n \in 0..All
BY Bounds DEF AcceptedFrames, All

LEMMA CountsFaults ==
  ASSUME faults \in 0..MaxFaults, NEW B \in BOOLEAN, B => Refused, Counts(B)
  PROVE  faults' \in 0..MaxFaults /\ faults <= faults'
BY Bounds DEF Counts, Refused, May

\* What is sent is of a session that has been confirmed.
LEMMA WireGrows ==
  ASSUME WireTyped, acks' \subseteq acks, \A s : Confirmed(s) => Confirmed(s)',
         NEW q \in Published, q.pending \in Generations, q.request \in Requests,
         q.content \in Generations, q.pending <= q.content, NEW accepted \in 0..All,
         sent' \subseteq sent \cup Transmission(q, accepted), Confirmed(q.session)'
  PROVE  WireTyped'
<1>1. \A f \in Transmission(q, accepted) :
        f \in Frame /\ f.session = q.session /\ f.generation <= f.content
  BY FramesTyped
<1>2. ASSUME NEW f \in sent'
      PROVE  f \in Frame /\ Confirmed(f.session)' /\ f.generation <= f.content
  <2>1. CASE f \in sent
    BY <2>1 DEF WireTyped
  <2>2. CASE f \in Transmission(q, accepted)
    BY <1>1, <2>2
  <2>. QED  BY <2>1, <2>2
<1>. QED
  BY <1>2 DEF WireTyped

LEMMA TurnKept ==
  ASSUME InTurn, UNCHANGED <<peers, requests>>, published' \in {published, NotPublished}
                   \/ (published # NotPublished /\ published'.session = published.session),
         slot' \in {slot, None}
  PROVE  InTurn'
<1>1. \A s : Confirmed(s)' = Confirmed(s) /\ Latest(s)' = Latest(s)
  BY SameConfirmed
<1>. QED
  BY <1>1 DEF InTurn

LEMMA PublisherTickStep ==
  ASSUME SyncInv, NEW accepted \in AcceptedFrames, NEW timer \in BOOLEAN,
         PublisherTick(accepted, timer)
  PROVE  SyncInv'
<1> DEFINE eff == Effective
           p == published
           isNew == p.pending = None /\ p.acked < eff
           q == IF isNew THEN Prepared(p, eff) ELSE p
           sends == q.pending # None /\ (isNew \/ timer)
<1>1. /\ effective' = eff
      /\ UNCHANGED <<store, enrolled, links, slot, peers, applier, receiver, installed, acks>>
      /\ UNCHANGED nodeVars
  BY DEF PublisherTick, nodeVars
<1>2. MasterInv /\ eff \in Generations /\ effective <= eff /\ eff <= store
  BY EffectiveIs DEF SyncInv, MasterInv
<1>3. accepted \in 0..All
  BY AcceptedIs
<1>4. ASSUME published' \in {published, NotPublished}, up' \subseteq up,
             UNCHANGED <<requests, sent, faults>>
      PROVE  SyncInv'
  <2>1. MasterInv'
    BY <1>1, <1>2, <1>4, MasterIdles
  <2>2. \A s : Confirmed(s)' = Confirmed(s)
    BY <1>4, SameConfirmed
  <2>3. NodeInv' /\ WireTyped'
    BY <1>1, <1>4, <2>2, NodeKept, WireShrinks DEF SyncInv
  <2>4. InTurn'
    BY <1>1, <1>4, TurnKept DEF SyncInv
  <2>. QED  BY <2>1, <2>3, <2>4 DEF SyncInv
<1>5. ASSUME p # NotPublished, published' = q,
             requests' = IF isNew THEN [requests EXCEPT ![p.session] = @ + 1] ELSE requests,
             sent' = IF sends THEN sent \cup Transmission(q, accepted) ELSE sent,
             Counts(sends /\ accepted < All), UNCHANGED up
      PROVE  SyncInv'
  <2>1. PICK s \in Sessions : s = p.session /\ p \in Published /\ Latest(s)
    <3>1. p \in Published /\ p.session \in Sessions /\ Latest(p.session)
      BY <1>5, IdleIsNone DEF SyncInv, MasterInv, PublishedTyped, InTurn, Published
    <3>. QED  BY <3>1
  <2>2. faults' \in 0..MaxFaults /\ faults <= faults'
    <3>1. accepted < All => Refused
      BY Bounds DEF AcceptedFrames, All
    <3>2. faults \in 0..MaxFaults
      BY DEF SyncInv, MasterInv, MasterTyped
    <3>. QED  BY <1>5, <3>1, <3>2, CountsFaults
  <2>3. MasterInv' /\ published'.session = s /\ q \in Published
        /\ (\A t : Confirmed(t) => Confirmed(t)') /\ Confirmed(s)'
    <3>1. CASE ~isNew
      <4>1. UNCHANGED <<published, requests>> /\ q = p
        BY <1>5, <3>1
      <4>2. MasterInv'
        <5>1. UNCHANGED <<store, enrolled, links, slot, requests, up>> /\ effective' = Effective
              /\ published' = published
          BY <1>1, <1>5, <4>1
        <5> HIDE DEF eff
        <5>2. MasterTyped' /\ PublishedTyped' /\ Numbered'
          <6>1. effective' \in Generations /\ effective <= effective' /\ effective' <= store
            BY <1>1, <1>2
          <6>2. MasterTyped'
            <7>1. MasterTyped
              BY <1>2 DEF MasterInv
            <7>. QED  BY <2>2, <5>1, <6>1, <7>1 DEF MasterTyped
          <6>3. /\ published.pending \in Nat /\ published.acked \in Nat
                /\ effective \in Nat /\ effective' \in Nat /\ faults \in Nat /\ faults' \in Nat
            BY <1>2, <2>1, <2>2, <6>1, Bounds DEF MasterInv, MasterTyped, Published
          <6>4. PublishedTyped'
            BY <1>2, <5>1, <6>1, <6>3 DEF MasterInv, PublishedTyped
          <6>5. (\A t : Kept(t)' = Kept(t) /\ Kept(t) \in {0, 1}) /\ High' = High /\ High \in Nat
            BY <5>1, <6>3 DEF Kept, High
          <6>6. ASSUME NEW t \in Sessions
                PROVE  /\ requests[t] + Kept(t) <= effective' + faults'
                       /\ t = s => requests[t] + Kept(t) <= High + faults'
            <7>1. /\ requests[t] \in Nat /\ requests[t] + Kept(t) <= effective + faults
                  /\ t = s => requests[t] + Kept(t) <= High + faults
              BY <1>2, <1>5, <2>1 DEF MasterInv, MasterTyped, Numbered
            <7>2. Kept(t) \in {0, 1}
              BY <6>5
            <7>. QED  BY <2>2, <6>1, <6>3, <6>5, <7>1, <7>2
          <6>7. Numbered'
            BY <2>1, <5>1, <6>5, <6>6 DEF Numbered
          <6>. QED  BY <6>2, <6>4, <6>7
        <5>. QED  BY <5>2 DEF MasterInv
      <4>3. \A t : Confirmed(t)' = Confirmed(t)
        BY <4>1, SameConfirmed
      <4>. QED  BY <2>1, <4>1, <4>2, <4>3 DEF Latest
    <3>2. CASE isNew
      <4>1. q = Prepared(p, effective') /\ requests' = [requests EXCEPT ![s] = @ + 1]
        BY <1>1, <1>5, <2>1, <3>2
      <4>2. requests \in [Sessions -> Nat] /\ faults \in Nat /\ faults' \in Nat
            /\ p.acked \in Nat /\ eff \in Nat /\ p.acked < eff
        BY <1>2, <2>1, <2>2, <3>2, Bounds DEF MasterInv, MasterTyped, Published
      <4>3. requests[s] + 1 + Kept(s)' <= effective' + faults'
        <5> DEFINE k == Kept(s)
        <5>1. Kept(s)' = k /\ k \in {0, 1}
          BY <1>1 DEF Kept
        <5>2. requests[s] + k <= p.acked + faults
          BY <1>2, <1>5, <2>1, <3>2 DEF MasterInv, Numbered, High
        <5>3. requests[s] \in Nat
          BY <2>1, <4>2
        <5> HIDE DEF k
        <5>. QED  BY <1>1, <2>2, <4>2, <5>1, <5>2, <5>3
      <4>4. MasterInv'
        <5>1. p.acked <= effective' /\ slot' \in {slot, s, None}
          BY <1>1, <4>2
        <5>2. links' \in [Sessions -> LinkStates] /\ up' \subseteq up
          BY <1>1, <1>2, <1>5 DEF MasterInv, MasterTyped
        <5> HIDE DEF q, eff
        <5>3. effective' \in Generations /\ effective <= effective' /\ effective' <= store
              /\ UNCHANGED <<store, enrolled>> /\ published' = Prepared(p, effective')
          BY <1>1, <1>2, <1>5, <4>1
        <5>. QED  BY <1>2, <2>1, <2>2, <4>1, <4>3, <5>1, <5>2, <5>3, RequestDrawn
      <4>5. requests'[s] > 0 /\ \A t \in Sessions : requests'[t] >= requests[t]
        BY <2>1, <4>1, <4>2
      <4>6. (\A t : Confirmed(t) => Confirmed(t)') /\ Confirmed(s)'
        <5>1. \A t \in Sessions : requests[t] \in Nat /\ requests'[t] \in Nat
          BY <4>1, <4>2
        <5>. QED  BY <2>1, <4>5, <5>1 DEF Confirmed
      <4>7. published'.session = s /\ q \in Published
        <5>1. q.session = s
          BY <2>1, <4>1, PreparedFields
        <5>2. published' \in Published \cup {NotPublished}
          BY <4>4 DEF MasterInv, PublishedTyped
        <5>3. s # NotPublished.session
          BY <2>1, IdleIsNone, Bounds
        <5>. QED  BY <1>5, <5>1, <5>2, <5>3
      <4>. QED  BY <4>4, <4>6, <4>7
    <3>. QED  BY <3>1, <3>2
  <2>4. InTurn'
    <3>1. \A t \in Sessions : Confirmed(t)' <=> Confirmed(t)
      <4>1. CASE isNew
        <5>1. \A t \in Sessions : t # s => requests'[t] = requests[t]
          BY <1>2, <1>5, <2>1, <4>1 DEF MasterInv, MasterTyped
        <5>2. Confirmed(s)
          BY <2>1 DEF Latest
        <5>. QED  BY <2>3, <5>1, <5>2 DEF Confirmed
      <4>2. CASE ~isNew
        BY <1>5, <4>2 DEF Confirmed
      <4>. QED  BY <4>1, <4>2
    <3>2. \A t : Latest(t)' = Latest(t)
      BY <3>1 DEF Latest, Confirmed
    <3>. QED  BY <1>1, <2>1, <2>3, <3>1, <3>2 DEF SyncInv, InTurn
  <2>5. WireTyped'
    <3>1. CASE sends
      <4>1. q.pending \in Generations /\ q.request \in Requests /\ q.content \in Generations
            /\ q.pending <= q.content /\ q.session = s
        BY <1>5, <2>3, <3>1 DEF MasterInv, PublishedTyped, Published
      <4>2. sent' \subseteq sent \cup Transmission(q, accepted) /\ acks' \subseteq acks
        BY <1>1, <1>5, <3>1
      <4> HIDE DEF q
      <4>. QED  BY <1>3, <2>3, <4>1, <4>2, WireGrows DEF SyncInv
    <3>2. CASE ~sends
      <4>1. sent' \subseteq sent /\ acks' \subseteq acks
        BY <1>1, <1>5, <3>2
      <4>. QED  BY <2>3, <4>1, WireShrinks DEF SyncInv
    <3>. QED  BY <3>1, <3>2
  <2>. QED  BY <1>1, <2>3, <2>4, <2>5, NodeKept DEF SyncInv
<1>6. \/ /\ p = NotPublished /\ UNCHANGED <<published, requests, sent, up, faults>>
      \/ published' = NotPublished /\ UNCHANGED <<requests, sent, up, faults>>
      \/ up' = up \ {"master"} /\ UNCHANGED <<published, requests, sent, faults>>
      \/ /\ p # NotPublished /\ published' = q
         /\ requests' = (IF isNew THEN [requests EXCEPT ![p.session] = @ + 1] ELSE requests)
         /\ sent' = (IF sends THEN sent \cup Transmission(q, accepted) ELSE sent)
         /\ Counts(sends /\ accepted < All) /\ UNCHANGED up
  BY DEF PublisherTick
<1>. QED
  BY <1>4, <1>5, <1>6

LEMMA ReceiveAckStep == ASSUME SyncInv, NEW a \in acks, ReceiveAck(a) PROVE SyncInv'
<1>1. /\ UNCHANGED <<store, effective, enrolled, links, slot, requests, up, sent, acks, faults>>
      /\ UNCHANGED nodeVars /\ UNCHANGED peers
      /\ published' = IF MatchesPending(a) THEN Settled(published, a.generation) ELSE published
  BY DEF ReceiveAck, nodeVars
<1>2. \A s : Confirmed(s)' = Confirmed(s)
  BY <1>1, SameConfirmed
<1>3. NodeInv' /\ WireTyped'
  BY <1>1, <1>2, NodeKept, WireShrinks DEF SyncInv
<1>4. CASE ~MatchesPending(a)
  <2>1. MasterInv'
    <3>1. UNCHANGED masterVars /\ faults' \in 0..MaxFaults /\ faults <= faults' /\ up' \subseteq up
      BY <1>1, <1>4, Bounds DEF masterVars, SyncInv, MasterInv, MasterTyped
    <3>. QED  BY <3>1, MasterKept DEF SyncInv
  <2>2. InTurn'
    BY <1>1, <1>4, TurnKept DEF SyncInv
  <2>. QED  BY <1>3, <2>1, <2>2 DEF SyncInv
<1>5. CASE MatchesPending(a)
  <2> DEFINE p == published
             g == a.generation
  <2>1. a \in Ack /\ p.session = a.session /\ p.pending = g
    BY <1>5 DEF MatchesPending, SyncInv, WireTyped
  <2>2. p \in Published /\ g \in Generations /\ p # NotPublished
    <3>1. p.session # None
      BY <2>1, Bounds DEF Ack
    <3>. QED  BY <2>1, <3>1, IdleIsNone DEF Ack, SyncInv, MasterInv, PublishedTyped
  <2>3. published' = Settled(p, g)
    BY <1>1, <1>5
  <2>4. /\ published' \in Published /\ published'.session = p.session /\ published'.acked = g
        /\ published'.pending = None /\ published'.request = None /\ published'.content = None
    BY <2>2, <2>3 DEF Settled, Published
  <2>5. MasterTyped'
    BY <1>1 DEF SyncInv, MasterInv, MasterTyped
  <2>6. PublishedTyped'
    <3>1. g <= effective
      BY <2>1 DEF SyncInv, MasterInv, PublishedTyped
    <3>2. None <= effective
      BY Bounds DEF SyncInv, MasterInv, MasterTyped
    <3>. QED  BY <1>1, <2>4, <3>1, <3>2, Bounds DEF PublishedTyped
  <2>7. Numbered'
    <3>1. High' = g /\ High = g
      BY <2>1, <2>2, <2>4, Bounds DEF High
    <3>2. \A s : Kept(s)' = Kept(s)
      BY <1>1 DEF Kept
    <3>3. PICK s : s = p.session
      OBVIOUS
    <3>4. requests[s] + Kept(s) <= g + faults /\ \A t \in Sessions : requests[t] + Kept(t) <= effective + faults
      BY <2>2, <3>1, <3>3 DEF SyncInv, MasterInv, Numbered
    <3>. QED  BY <1>1, <2>4, <3>1, <3>2, <3>3, <3>4 DEF Numbered
  <2>8. InTurn'
    BY <1>1, <2>2, <2>4, TurnKept DEF SyncInv
  <2>. QED  BY <1>3, <2>5, <2>6, <2>7, <2>8 DEF SyncInv, MasterInv
<1>. QED
  BY <1>4, <1>5

LEMMA CommitStep == ASSUME SyncInv, Commit PROVE SyncInv'
<1>1. /\ UNCHANGED <<enrolled, links, published, slot, requests, up, sent, acks, faults>>
      /\ UNCHANGED nodeVars /\ UNCHANGED peers
      /\ store < MaxGeneration /\ store' = store + 1 /\ effective' \in {effective, store'}
  BY DEF Commit, nodeVars
<1>2. \A s : Confirmed(s)' = Confirmed(s)
  BY <1>1, SameConfirmed
<1>3. NodeInv' /\ WireTyped' /\ InTurn'
  BY <1>1, <1>2, NodeKept, WireShrinks, TurnKept DEF SyncInv
<1>4. store \in Nat /\ effective \in Nat /\ effective <= store /\ store > 0 /\ effective > 0
      /\ MaxGeneration \in Nat
  BY Bounds DEF SyncInv, MasterInv, MasterTyped
<1>5. /\ store' \in Generations /\ effective' \in Generations /\ effective' <= store'
      /\ effective <= effective' /\ effective' \in Nat
  BY <1>1, <1>4 DEF Generations
<1>6. MasterTyped'
  BY <1>1, <1>5 DEF SyncInv, MasterInv, MasterTyped
<1>7. PublishedTyped'
  <2>1. published.pending \in Nat /\ published.acked \in Nat
    BY Bounds, IdleIsNone DEF SyncInv, MasterInv, PublishedTyped, Published
  <2>. QED  BY <1>1, <1>4, <1>5, <2>1 DEF SyncInv, MasterInv, PublishedTyped
<1>8. Numbered'
  <2>1. (\A s : Kept(s)' = Kept(s) /\ Kept(s) \in {0, 1}) /\ High' = High
    BY <1>1 DEF Kept, High
  <2>2. ASSUME NEW s \in Sessions PROVE requests[s] + Kept(s) <= effective' + faults
    <3>1. requests[s] \in Nat /\ requests[s] + Kept(s) <= effective + faults /\ faults \in Nat
      BY Bounds DEF SyncInv, MasterInv, MasterTyped, Numbered
    <3>. QED  BY <1>4, <1>5, <2>1, <3>1
  <2>. QED  BY <1>1, <2>1, <2>2 DEF SyncInv, MasterInv, Numbered
<1>. QED
  BY <1>3, <1>6, <1>7, <1>8 DEF SyncInv, MasterInv

\* The confirmation of the newest session, and each heartbeat that repeats it.
LEMMA ReadyKeeps ==
  ASSUME SyncInv, NEW s \in Sessions, Ready(s), links' \in [Sessions -> LinkStates],
         UNCHANGED <<store, effective, enrolled, up>>, UNCHANGED nodeVars,
         peers[s] # "absent", \A t \in Sessions : Confirmed(t) => t <= s,
         requests[s] + 1 <= effective + faults
  PROVE  SyncInv'
<1> DEFINE p == [NotPublished EXCEPT !.session = s]
           q == Prepared(p, effective)
<1>1. PICK accepted \in AcceptedFrames :
        /\ published' = q
        /\ requests' = [requests EXCEPT ![s] = @ + 1]
        /\ sent' = sent \cup Transmission(q, accepted)
        /\ slot' \in IF accepted < All THEN {s} ELSE IF Refused THEN {s, None} ELSE {None}
        /\ Counts(slot' = s)
        /\ acks' = StillHeard(links', acks)
  BY DEF Ready
<1>2. accepted \in 0..All /\ (accepted < All => Refused) /\ (slot' = s => Refused)
      /\ slot' \in {s, None} /\ acks' \subseteq acks
  <2>1. accepted < All => Refused
    BY Bounds DEF AcceptedFrames, All
  <2>. QED  BY <1>1, <2>1, AcceptedIs, Bounds DEF StillHeard
<1>3. faults' \in 0..MaxFaults /\ faults <= faults' /\ faults \in Nat
  <2>1. faults \in 0..MaxFaults /\ faults \in Nat
    BY Bounds DEF SyncInv, MasterInv, MasterTyped
  <2>2. (slot' = s) \in BOOLEAN
    OBVIOUS
  <2>3. Counts(slot' = s)
    BY <1>1
  <2>. QED  BY <1>2, <2>1, <2>2, <2>3, CountsFaults
<1>4. requests[s] + 1 + Kept(s)' <= effective' + faults'
  <2>1. CASE slot' = s
    <3>1. faults' = faults + 1 /\ Kept(s)' = 1
      BY <1>1, <2>1 DEF Counts, Kept
    <3>2. requests[s] \in Nat /\ effective \in Nat
      BY Bounds DEF SyncInv, MasterInv, MasterTyped
    <3>. QED  BY <1>3, <3>1, <3>2
  <2>2. CASE slot' # s
    <3>1. faults' = faults /\ Kept(s)' = 0
      BY <1>1, <2>2 DEF Counts, Kept
    <3>2. requests[s] \in Nat /\ effective \in Nat
      BY Bounds DEF SyncInv, MasterInv, MasterTyped
    <3>. QED  BY <1>3, <3>1, <3>2
  <2>. QED  BY <2>1, <2>2
<1>5. p.session = s /\ p.acked = None
  BY DEF NotPublished
<1>6. MasterInv'
  <2>1. effective' \in Generations /\ effective <= effective' /\ effective' <= store
        /\ p.acked <= effective' /\ slot' \in {slot, s, None} /\ up' \subseteq up
    BY <1>2, <1>5, Bounds DEF SyncInv, MasterInv, MasterTyped
  <2>2. published' = Prepared(p, effective')
    BY <1>1
  <2> HIDE DEF p, q
  <2>3. p = [NotPublished EXCEPT !.session = s]
    BY DEF p
  <2>. QED  BY <1>1, <1>3, <1>4, <1>5, <2>1, <2>2, <2>3, RequestDrawn DEF SyncInv
<1>7. requests'[s] > 0 /\ \A t \in Sessions : t # s => requests'[t] = requests[t]
  BY <1>1, Bounds DEF SyncInv, MasterInv, MasterTyped
<1>8. Confirmed(s)' /\ \A t \in Sessions : t # s => Confirmed(t)' = Confirmed(t)
  BY <1>7 DEF Confirmed
<1>9. \A t : Confirmed(t) => Confirmed(t)'
  BY <1>8 DEF Confirmed
<1>10. Latest(s)'
  <2>1. \A t \in Sessions : Confirmed(t)' => t <= s
    BY <1>8, Bounds
  <2>. QED  BY <1>8, <2>1 DEF Latest
<1>11. published'.session = s /\ q \in Published /\ q.session = s
  <2>1. q.session = s
    BY <1>5, PreparedFields
  <2>2. published' \in Published \cup {NotPublished}
    BY <1>6 DEF MasterInv, PublishedTyped
  <2>. QED  BY <1>1, <2>1, <2>2, IdleIsNone, Bounds
<1>12. InTurn'
  <2>1. peers' = peers
    BY DEF nodeVars
  <2>. QED  BY <1>2, <1>8, <1>10, <1>11, <2>1 DEF SyncInv, InTurn
<1>13. WireTyped'
  <2>1. q.pending \in Generations /\ q.request \in Requests /\ q.content \in Generations
        /\ q.pending <= q.content
    <3>1. q.pending = effective /\ effective # None
      BY <1>5, PreparedFields, Bounds DEF SyncInv, MasterInv, MasterTyped
    <3>. QED  BY <1>1, <1>6, <1>11, <3>1 DEF MasterInv, PublishedTyped, Published
  <2> HIDE DEF p, q
  <2>. QED  BY <1>1, <1>2, <1>8, <1>9, <1>11, <2>1, WireGrows DEF SyncInv
<1>. QED
  BY <1>6, <1>9, <1>12, <1>13, NodeKept DEF SyncInv

LEMMA ConfirmStep == ASSUME SyncInv, NEW s \in Sessions, Confirm(s) PROVE SyncInv'
<1>1. /\ s = Newest /\ requests[s] = 0 /\ links' = Supersedes(s) /\ Ready(s)
      /\ UNCHANGED <<store, effective, enrolled, up>> /\ UNCHANGED nodeVars
  BY DEF Confirm
<1>2. links' \in [Sessions -> LinkStates]
  BY <1>1 DEF Supersedes, LinkStates, SyncInv, MasterInv, MasterTyped
<1>3. peers[s] # "absent" /\ \A t \in Sessions : Confirmed(t) => t <= s
  BY <1>1, NewestIs, Bounds DEF SyncInv, InTurn
<1>4. requests[s] + 1 <= effective + faults
  <2>1. effective \in Nat /\ effective > 0 /\ faults \in Nat
    BY Bounds DEF SyncInv, MasterInv, MasterTyped
  <2>. QED  BY <1>1, <2>1
<1>. QED
  BY <1>1, <1>2, <1>3, <1>4, ReadyKeeps

LEMMA ConfirmAgainStep == ASSUME SyncInv, NEW s \in Sessions, ConfirmAgain(s) PROVE SyncInv'
<1>1. /\ s = slot /\ Ready(s)
      /\ UNCHANGED <<store, effective, enrolled, links, up>> /\ UNCHANGED nodeVars
  BY DEF ConfirmAgain
<1>2. Latest(s) /\ peers[s] # "absent"
  BY <1>1, Bounds DEF SyncInv, InTurn, Latest
<1>3. requests[s] + 1 <= effective + faults
  <2>1. Kept(s) = 1
    BY <1>1 DEF Kept
  <2>2. requests[s] + Kept(s) <= effective + faults
    BY DEF SyncInv, MasterInv, Numbered
  <2>. QED  BY <2>1, <2>2
<1>4. links' \in [Sessions -> LinkStates]
  BY <1>1 DEF SyncInv, MasterInv, MasterTyped
<1>. QED
  BY <1>1, <1>2, <1>3, <1>4, ReadyKeeps DEF Latest

\* Sessions end at the Master.
LEMMA LinksFall ==
  ASSUME SyncInv, UNCHANGED <<store, effective, published, requests, up, sent>>, UNCHANGED nodeVars,
         enrolled' \in BOOLEAN, links' \in [Sessions -> LinkStates], slot' \in {slot, None},
         acks' \subseteq acks, faults' \in 0..MaxFaults, faults <= faults'
  PROVE  SyncInv'
<1>1. \A s : Confirmed(s)' = Confirmed(s)
  BY SameConfirmed
<1>2. NodeInv' /\ WireTyped' /\ InTurn'
  <2>1. peers' = peers
    BY DEF nodeVars
  <2>. QED  BY <1>1, <2>1, NodeKept, WireShrinks, TurnKept DEF SyncInv
<1>3. MasterTyped' /\ PublishedTyped'
  BY DEF SyncInv, MasterInv, MasterTyped, PublishedTyped
<1>4. Numbered'
  <2>1. \A s : s # None => Kept(s)' <= Kept(s) /\ Kept(s) \in {0, 1} /\ Kept(s)' \in {0, 1}
    BY DEF Kept
  <2>2. High' = High /\ High \in Nat /\ effective \in Nat /\ faults \in Nat /\ faults' \in Nat
    BY Bounds, IdleIsNone DEF SyncInv, MasterInv, MasterTyped, PublishedTyped, High, Published
  <2>3. ASSUME NEW s \in Sessions
        PROVE  /\ requests[s] + Kept(s)' <= effective + faults'
               /\ requests[s] + Kept(s) <= High + faults => requests[s] + Kept(s)' <= High + faults'
    <3> DEFINE k == Kept(s)
               kk == Kept(s)'
    <3>1. k \in {0, 1} /\ kk \in {0, 1} /\ kk <= k
      BY <2>1, Bounds
    <3>2. requests[s] \in Nat /\ requests[s] + k <= effective + faults
      BY DEF SyncInv, MasterInv, MasterTyped, Numbered
    <3> HIDE DEF k, kk
    <3>3. /\ requests[s] + kk <= effective + faults'
          /\ requests[s] + k <= High + faults => requests[s] + kk <= High + faults'
      BY <2>2, <3>1, <3>2
    <3>. QED  BY <3>3 DEF k, kk
  <2>4. \A s \in Sessions : requests'[s] + Kept(s)' <= effective' + faults'
    BY <2>3
  <2>5. ASSUME published # NotPublished
        PROVE  (requests[published.session] + Kept(published.session) <= High + faults)'
    <3>1. PICK s \in Sessions : s = published.session
      BY <2>5 DEF SyncInv, MasterInv, PublishedTyped, Published
    <3>2. requests[s] + Kept(s) <= High + faults
      BY <2>5, <3>1 DEF SyncInv, MasterInv, Numbered
    <3>3. requests[s] + Kept(s)' <= High + faults'
      BY <2>3, <3>2
    <3>4. Kept(published.session)' = Kept(s)'
      BY <3>1 DEF Kept
    <3>. QED  BY <2>2, <3>1, <3>3, <3>4
  <2>. QED  BY <2>4, <2>5 DEF Numbered
<1>. QED
  BY <1>2, <1>3, <1>4 DEF SyncInv, MasterInv

LEMMA FaultHappens ==
  ASSUME SyncInv, NEW fault, May(fault), Counts(TRUE)
  PROVE  faults' \in 0..MaxFaults /\ faults <= faults'
BY Bounds DEF SyncInv, MasterInv, MasterTyped, May, Counts

LEMMA NoFault ==
  ASSUME SyncInv, faults' = faults PROVE faults' \in 0..MaxFaults /\ faults <= faults'
BY Bounds DEF SyncInv, MasterInv, MasterTyped

LEMMA ExpireSlotStep == ASSUME SyncInv, ExpireSlot PROVE SyncInv'
<1>1. links \in [Sessions -> LinkStates] /\ enrolled \in BOOLEAN
  BY DEF SyncInv, MasterInv, MasterTyped
<1>2. links' \in [Sessions -> LinkStates]
  BY <1>1 DEF ExpireSlot, LinkStates
<1>. QED
  BY <1>1, <1>2, NoFault, LinksFall DEF ExpireSlot

LEMMA MasterOfflineStep == ASSUME SyncInv, NEW s \in Sessions, MasterOffline(s) PROVE SyncInv'
<1>1. links \in [Sessions -> LinkStates] /\ enrolled \in BOOLEAN
  BY DEF SyncInv, MasterInv, MasterTyped
<1>2. links' \in [Sessions -> LinkStates] /\ acks' \subseteq acks
  BY <1>1 DEF MasterOffline, LinkStates, StillHeard
<1>3. faults' \in 0..MaxFaults /\ faults <= faults'
  BY FaultHappens DEF MasterOffline
<1>. QED
  BY <1>1, <1>2, <1>3, LinksFall DEF MasterOffline

LEMMA ResetStep == ASSUME SyncInv, Reset PROVE SyncInv'
<1>1. links' \in [Sessions -> LinkStates]
  BY DEF Reset, LinkStates
<1>2. faults' \in 0..MaxFaults /\ faults <= faults'
  BY FaultHappens DEF Reset
<1>. QED
  BY <1>1, <1>2, LinksFall DEF Reset

-----------------------------------------------------------------------------
(* The steps of the Node.                                                  *)

\* A step of the Node: what the Master keeps stays, no session begins.
LEMMA NodeStep ==
  ASSUME SyncInv, UNCHANGED masterVars, peers' = peers, sent' = sent, up' \subseteq up,
         faults' \in 0..MaxFaults, faults <= faults',
         acks' \subseteq acks \/ (\E a : acks' = acks \cup {a} /\ a \in Ack),
         NodeInv'
  PROVE  SyncInv'
<1>1. MasterInv'
  BY MasterKept DEF SyncInv
<1>2. \A s : Confirmed(s)' = Confirmed(s)
  BY SameConfirmed DEF masterVars
<1>3. WireTyped'
  BY <1>2 DEF SyncInv, WireTyped
<1>4. InTurn'
  BY TurnKept DEF SyncInv, masterVars
<1>. QED
  BY <1>1, <1>3, <1>4 DEF SyncInv

\* The Node keeps its state: the process ends, or a packet is lost.
LEMMA NodeStaysStep ==
  ASSUME SyncInv, UNCHANGED masterVars, UNCHANGED nodeVars, sent' \subseteq sent, acks' = acks,
         up' \subseteq up, faults' = faults
  PROVE  SyncInv'
<1>1. MasterInv'
  BY NoFault, MasterKept DEF SyncInv
<1>2. \A s : Confirmed(s)' = Confirmed(s)
  BY SameConfirmed DEF masterVars
<1>3. NodeInv' /\ WireTyped'
  BY <1>2, NodeKept, WireShrinks DEF SyncInv
<1>4. InTurn'
  BY TurnKept DEF SyncInv, masterVars, nodeVars
<1>. QED
  BY <1>1, <1>3, <1>4 DEF SyncInv

LEMMA StartedIs ==
  ASSUME NEW f \in Frame
  PROVE  /\ Started(f) \in Receiver /\ Started(f) # Idle
         /\ Started(f).generation = f.generation /\ Started(f).content = f.content
<1> DEFINE got == [i \in 1..Chunks |-> None]
<1>1. got \in [1..Chunks -> Generations \cup {None}]
  OBVIOUS
<1>2. Idle = [generation |-> None, content |-> None, got |-> got]
  BY DEF Idle
<1> HIDE DEF got
<1>3. f.generation \in Generations /\ f.content \in Generations
  BY DEF Frame
<1>4. Started(f) \in Receiver
  BY <1>1, <1>2, <1>3 DEF Started, Receiver
<1>5. Started(f).generation = f.generation /\ Started(f).content = f.content
  BY <1>2 DEF Started
<1>. QED
  BY <1>4, <1>5, IdleIsNone

\* The frame of a BEGIN is of a session the Master confirmed.
LEMMA FrameIs ==
  ASSUME SyncInv, NEW f \in sent
  PROVE  /\ f \in Frame /\ Confirmed(f.session) /\ f.generation <= f.content
         /\ f.session \in Sessions /\ f.session # None /\ f.request \in Requests /\ f.request # None
         /\ f.generation \in Generations /\ f.content \in Generations
BY Bounds DEF SyncInv, WireTyped, Frame

LEMMA BeginAgainStep ==
  ASSUME SyncInv, NEW f \in sent, ReceiveBegin(f), BeginAgain(f) PROVE SyncInv'
<1>1. UNCHANGED masterVars /\ peers' = peers /\ installed' = installed /\ sent' = sent
      /\ left' = left
  BY DEF ReceiveBegin, BeginAgain
<1>2. \A s : Confirmed(s)' = Confirmed(s)
  BY <1>1, SameConfirmed DEF masterVars
<1>3. /\ f.session = applier.active /\ f.session \in Sessions /\ f.session # None
      /\ f.request \in Requests /\ f.request # None /\ f.generation <= f.content
      /\ f \in Frame /\ f.generation \in Generations /\ f.content \in Generations
  BY FrameIs DEF BeginAgain
<1>4. applier \in Applier /\ ApplierTyped /\ ReceiverTyped
  BY DEF SyncInv, NodeInv, ApplierTyped
<1> DEFINE a == [applier EXCEPT !.request = f.request]
           due == [a EXCEPT !.session = f.session, !.ackDue = TRUE]
<1>5. /\ a \in Applier /\ a.request = f.request /\ a.active = applier.active
      /\ a.applied = applier.applied /\ a.appliedContent = applier.appliedContent
      /\ a.ackDue = applier.ackDue /\ a.installing = applier.installing
      /\ a.session = applier.session /\ a.pending = applier.pending
      /\ a.pendingContent = applier.pendingContent
  BY <1>3, <1>4 DEF Applier
<1>6. ASSUME applier' = a, receiver' = receiver PROVE NodeInv'
  BY <1>1, <1>2, <1>3, <1>4, <1>5, <1>6 DEF NodeInv, ApplierTyped, ReceiverTyped
<1>7. CASE UNCHANGED <<applier, receiver, up, acks, faults>>
  <2>1. UNCHANGED nodeVars /\ sent' \subseteq sent
    BY <1>1, <1>7 DEF nodeVars
  <2>. QED  BY <1>1, <1>7, <2>1, NodeStaysStep
<1>8. ASSUME IsApplied(f), UNCHANGED <<receiver, up>>,
             \/ applier' = [due EXCEPT !.ackDue = FALSE] /\ acks' = acks \cup {AckOf(due)} /\ Counts(FALSE)
             \/ Refused /\ applier' = due /\ UNCHANGED acks /\ Counts(TRUE)
      PROVE  SyncInv'
  <2>1. applier.applied # None /\ applier.appliedContent # None
    BY <1>3, <1>4, <1>8, Bounds DEF IsApplied
  <2>2. \A b \in BOOLEAN : LET d == [due EXCEPT !.ackDue = b]
        IN /\ d \in Applier /\ d.request = f.request /\ d.active = applier.active
           /\ d.applied = applier.applied /\ d.appliedContent = applier.appliedContent
           /\ d.ackDue = b /\ d.installing = applier.installing
           /\ d.session = f.session /\ d.pending = applier.pending
           /\ d.pendingContent = applier.pendingContent
    BY <1>3, <1>4 DEF Applier
  <2>3. due = [due EXCEPT !.ackDue = TRUE]
    BY <1>3, <1>4 DEF Applier
  <2>4. PICK b \in BOOLEAN : applier' = [due EXCEPT !.ackDue = b]
    BY <1>8, <2>3
  <2>5. /\ applier' \in Applier /\ applier'.request = f.request /\ applier'.active = applier.active
        /\ applier'.applied = applier.applied /\ applier'.appliedContent = applier.appliedContent
        /\ applier'.installing = applier.installing
        /\ applier'.session = f.session /\ applier'.pending = applier.pending
        /\ applier'.pendingContent = applier.pendingContent
    BY <2>2, <2>4
  <2>6. NodeInv'
    BY <1>1, <1>2, <1>3, <1>4, <1>8, <2>1, <2>5 DEF NodeInv, ApplierTyped, ReceiverTyped
  <2>7. AckOf(due) \in Ack
    <3>1. /\ due.session = f.session /\ due.applied = applier.applied /\ due.request = f.request
          /\ due.appliedContent = applier.appliedContent
      BY <2>2, <2>3
    <3>2. applier.applied \in Generations /\ applier.appliedContent \in Generations
      BY <1>4, <2>1 DEF Applier
    <3>. QED  BY <1>3, <3>1, <3>2 DEF AckOf, Ack
  <2>8. /\ faults' \in 0..MaxFaults /\ faults <= faults'
        /\ acks' \subseteq acks \/ (\E x : acks' = acks \cup {x} /\ x \in Ack)
    <3>1. CASE acks' = acks \cup {AckOf(due)} /\ Counts(FALSE)
      <4>1. faults' = faults
        BY <3>1 DEF Counts
      <4>. QED  BY <2>7, <3>1, <4>1, NoFault
    <3>2. CASE Refused /\ UNCHANGED acks /\ Counts(TRUE)
      BY <3>2, FaultHappens DEF Refused
    <3>. QED  BY <1>8, <3>1, <3>2
  <2>9. up' \subseteq up
    BY <1>8
  <2>. QED  BY <1>1, <2>6, <2>8, <2>9, NodeStep
<1>9. ASSUME applier' = a, up' \subseteq up, UNCHANGED <<receiver, acks, faults>> PROVE SyncInv'
  <2>1. NodeInv'
    BY <1>6, <1>9
  <2>2. faults' \in 0..MaxFaults /\ faults <= faults' /\ acks' \subseteq acks
    BY <1>9, NoFault
  <2>. QED  BY <1>1, <1>9, <2>1, <2>2, NodeStep
<1>10. ASSUME ~applier.installing, applier' = a, receiver' = Started(f), UNCHANGED <<up, acks, faults>>
       PROVE  SyncInv'
  <2>1. receiver' \in Receiver /\ receiver' # Idle
        /\ receiver'.generation = f.generation /\ receiver'.content = f.content
    BY <1>3, <1>10, StartedIs
  <2>2. NodeInv'
    BY <1>1, <1>2, <1>3, <1>4, <1>5, <1>10, <2>1 DEF NodeInv, ApplierTyped, ReceiverTyped
  <2>3. faults' \in 0..MaxFaults /\ faults <= faults' /\ acks' \subseteq acks /\ up' \subseteq up
    BY <1>10, NoFault
  <2>. QED  BY <1>1, <2>2, <2>3, NodeStep
<1>11. \/ UNCHANGED <<applier, receiver, up, acks, faults>>
       \/ /\ IsApplied(f) /\ UNCHANGED <<receiver, up>>
          /\ \/ applier' = [due EXCEPT !.ackDue = FALSE] /\ acks' = acks \cup {AckOf(due)} /\ Counts(FALSE)
             \/ Refused /\ applier' = due /\ UNCHANGED acks /\ Counts(TRUE)
       \/ applier' = a /\ up' \subseteq up /\ UNCHANGED <<receiver, acks, faults>>
       \/ ~applier.installing /\ applier' = a /\ receiver' = Started(f) /\ UNCHANGED <<up, acks, faults>>
  BY DEF BeginAgain
<1>. QED
  BY <1>7, <1>8, <1>9, <1>10, <1>11

LEMMA BeginFirstStep ==
  ASSUME SyncInv, NEW f \in sent, ReceiveBegin(f), BeginFirst(f) PROVE SyncInv'
<1>1. UNCHANGED masterVars /\ peers' = peers /\ installed' = installed /\ sent' = sent
      /\ UNCHANGED <<up, acks, faults>> /\ receiver' = Started(f) /\ ~applier.installing
      /\ applier' = [Selected(f.session) EXCEPT !.request = f.request]
  BY DEF ReceiveBegin, BeginFirst
<1>2. \A s : Confirmed(s)' = Confirmed(s)
  BY <1>1, SameConfirmed DEF masterVars
<1>3. applier \in Applier /\ ApplierTyped /\ ReceiverTyped
  BY DEF SyncInv, NodeInv, ApplierTyped
<1>4. /\ applier' \in Applier /\ applier'.active = f.session /\ applier'.request = f.request
      /\ applier'.applied = None /\ applier'.appliedContent = None
      /\ applier'.ackDue = FALSE /\ applier'.installing = FALSE
  BY <1>1, <1>3, FrameIs DEF Selected, Applier
<1>5. receiver' \in Receiver /\ receiver' # Idle
        /\ receiver'.generation = f.generation /\ receiver'.content = f.content
  BY <1>1, FrameIs, StartedIs
<1>6. NodeInv'
  BY <1>1, <1>2, <1>3, <1>4, <1>5, FrameIs, Bounds DEF NodeInv, ApplierTyped, ReceiverTyped
<1>7. faults' \in 0..MaxFaults /\ faults <= faults' /\ acks' \subseteq acks /\ up' \subseteq up
  BY <1>1, NoFault
<1>. QED
  BY <1>1, <1>6, <1>7, NodeStep

LEMMA ReceiveBeginStep == ASSUME SyncInv, NEW f \in sent, ReceiveBegin(f) PROVE SyncInv'
BY BeginAgainStep, BeginFirstStep DEF ReceiveBegin

LEMMA ReceiverIs ==
  ASSUME NEW r \in Receiver \cup {Idle}, r.generation \in Generations PROVE r \in Receiver /\ r # Idle
BY IdleIsNone, Bounds

LEMMA ReceiveChunkStep == ASSUME SyncInv, NEW f \in sent, ReceiveChunk(f) PROVE SyncInv'
<1>1. /\ f.part # 0 /\ f.session = applier.active /\ ~applier.installing
      /\ f.generation = receiver.generation
  BY DEF ReceiveChunk
<1>2. /\ f \in Frame /\ f.session \in Sessions /\ f.session # None /\ f.content \in Generations
      /\ f.generation \in Generations
  BY FrameIs
<1>3. applier \in Applier /\ ApplierTyped /\ ReceiverTyped
  BY DEF SyncInv, NodeInv, ApplierTyped
<1>4. receiver \in Receiver /\ receiver # Idle
  BY <1>1, <1>2, <1>3, ReceiverIs DEF ReceiverTyped
<1>5. ASSUME UNCHANGED <<masterVars, peers, installed, up, sent, acks, faults>>, NodeInv'
      PROVE  SyncInv'
  <2>1. faults' \in 0..MaxFaults /\ faults <= faults' /\ acks' \subseteq acks /\ up' \subseteq up
    BY <1>5, NoFault
  <2>2. UNCHANGED masterVars /\ peers' = peers /\ sent' = sent
    BY <1>5
  <2>. QED  BY <1>5, <2>1, <2>2, NodeStep
<1>6. CASE NodeFails
  BY <1>6, NodeStaysStep DEF NodeFails
<1>7. ASSUME receiver' = [receiver EXCEPT !.got = Collected(f)],
             UNCHANGED <<masterVars, peers, applier, installed, up, sent, acks, faults>>
      PROVE  SyncInv'
  <2>1. receiver.got \in [1..Chunks -> Generations \cup {None}]
    BY <1>4 DEF Receiver
  <2>2. Collected(f) \in [1..Chunks -> Generations \cup {None}]
    BY <1>2, <2>1 DEF Collected
  <2>3. receiver' \in Receiver /\ receiver'.generation = receiver.generation
        /\ receiver'.content = receiver.content
    BY <1>4, <1>7, <2>2 DEF Receiver
  <2>4. receiver' # Idle
    BY <2>3, IdleIsNone
  <2>5. \A s : Confirmed(s)' = Confirmed(s)
    BY <1>7, SameConfirmed DEF masterVars
  <2>6. NodeInv'
    BY <1>1, <1>3, <1>4, <1>7, <2>3, <2>4, <2>5 DEF NodeInv, ApplierTyped, ReceiverTyped
  <2>. QED  BY <1>5, <1>7, <2>6
<1>8. ASSUME applier' = [applier EXCEPT !.installing = TRUE, !.session = f.session,
                             !.pending = receiver.generation, !.pendingContent = receiver.content],
             receiver' = Idle,
             UNCHANGED <<masterVars, peers, installed, up, sent, acks, faults>>
      PROVE  SyncInv'
  <2>1. receiver.generation \in Generations /\ receiver.content \in Generations
    BY <1>4 DEF Receiver
  <2>2. /\ applier' \in Applier /\ applier'.active = applier.active
        /\ applier'.request = applier.request /\ applier'.applied = applier.applied
        /\ applier'.appliedContent = applier.appliedContent /\ applier'.ackDue = applier.ackDue
        /\ applier'.session = f.session /\ applier'.pending = receiver.generation
        /\ applier'.pendingContent = receiver.content
    BY <1>2, <1>3, <1>8, <2>1 DEF Applier
  <2>3. \A s : Confirmed(s)' = Confirmed(s)
    BY <1>8, SameConfirmed DEF masterVars
  <2>4. receiver.generation <= receiver.content /\ receiver.generation # None
    BY <1>3, <1>4, <2>1, Bounds DEF ReceiverTyped
  <2>5. NodeInv'
    BY <1>1, <1>2, <1>3, <1>8, <2>2, <2>3, <2>4 DEF NodeInv, ApplierTyped, ReceiverTyped
  <2>. QED  BY <1>5, <1>8, <2>5
<1>9. \/ NodeFails
      \/ /\ receiver' = [receiver EXCEPT !.got = Collected(f)]
         /\ UNCHANGED <<masterVars, peers, applier, installed, up, sent, acks, faults>>
      \/ /\ applier' = [applier EXCEPT !.installing = TRUE, !.session = f.session,
                             !.pending = receiver.generation, !.pendingContent = receiver.content]
         /\ receiver' = Idle
         /\ UNCHANGED <<masterVars, peers, installed, up, sent, acks, faults>>
  BY DEF ReceiveChunk
<1>. QED
  BY <1>6, <1>7, <1>8, <1>9

LEMMA InstallStep == ASSUME SyncInv, Install PROVE SyncInv'
<1>1. /\ applier.installing /\ installed' = applier.pendingContent
      /\ applier' = [applier EXCEPT !.installing = FALSE, !.ackDue = TRUE,
                        !.applied = applier.pending, !.appliedContent = applier.pendingContent]
      /\ UNCHANGED masterVars /\ UNCHANGED <<peers, receiver, up, sent, acks, faults>>
  BY DEF Install
<1>2. applier \in Applier /\ ApplierTyped /\ ReceiverTyped
  BY DEF SyncInv, NodeInv, ApplierTyped
<1>3. /\ applier' \in Applier /\ applier'.active = applier.active
      /\ applier'.request = applier.request /\ applier'.applied = applier.pending
      /\ applier'.appliedContent = applier.pendingContent /\ applier'.ackDue = TRUE
      /\ applier'.installing = FALSE /\ applier'.session = applier.session
      /\ applier.pendingContent \in Generations \cup {None}
  BY <1>1, <1>2 DEF Applier
<1>4. \A s : Confirmed(s)' = Confirmed(s)
  BY <1>1, SameConfirmed DEF masterVars
<1>5. NodeInv'
  BY <1>1, <1>2, <1>3, <1>4 DEF NodeInv, ApplierTyped, ReceiverTyped
<1>6. faults' \in 0..MaxFaults /\ faults <= faults' /\ acks' \subseteq acks /\ up' \subseteq up
  BY <1>1, NoFault
<1>. QED
  BY <1>1, <1>5, <1>6, NodeStep

LEMMA AckTyped == ASSUME ApplierTyped, applier.ackDue PROVE AckOf(applier) \in Ack
<1>1. applier \in Applier /\ applier.applied # None /\ applier.active # None
      /\ applier.session = applier.active /\ Confirmed(applier.active) /\ applier.request # None
      /\ applier.applied <= applier.appliedContent
  BY DEF ApplierTyped
<1>2. /\ applier.session \in Sessions /\ applier.applied \in Generations
      /\ applier.request \in Requests /\ applier.appliedContent \in Generations \cup {None}
  BY <1>1 DEF Applier, Confirmed
<1>3. applier.appliedContent # None
  BY <1>1, <1>2, Bounds
<1>. QED
  BY <1>2, <1>3 DEF AckOf, Ack

LEMMA ApplierTickStep == ASSUME SyncInv, ApplierTick PROVE SyncInv'
<1>1. CASE NodeFails
  BY <1>1, NodeStaysStep DEF NodeFails
<1>2. ASSUME acks' = acks \cup {AckOf(applier)}, applier' = [applier EXCEPT !.ackDue = FALSE],
             applier.ackDue,
             UNCHANGED <<masterVars, peers, receiver, installed, up, sent, faults>>
      PROVE  SyncInv'
  <2>1. applier \in Applier /\ ApplierTyped /\ ReceiverTyped
    BY DEF SyncInv, NodeInv, ApplierTyped
  <2>2. /\ applier' \in Applier /\ applier'.active = applier.active
        /\ applier'.request = applier.request /\ applier'.applied = applier.applied
        /\ applier'.appliedContent = applier.appliedContent /\ applier'.ackDue = FALSE
        /\ applier'.installing = applier.installing /\ applier'.session = applier.session
        /\ applier'.pending = applier.pending /\ applier'.pendingContent = applier.pendingContent
    BY <1>2, <2>1 DEF Applier
  <2>3. \A s : Confirmed(s)' = Confirmed(s)
    BY <1>2, SameConfirmed DEF masterVars
  <2>4. NodeInv'
    BY <1>2, <2>1, <2>2, <2>3 DEF NodeInv, ApplierTyped, ReceiverTyped
  <2>5. \E a : acks' = acks \cup {a} /\ a \in Ack
    BY <1>2, <2>1, AckTyped
  <2>6. faults' \in 0..MaxFaults /\ faults <= faults' /\ up' \subseteq up
    BY <1>2, NoFault
  <2>7. UNCHANGED masterVars /\ peers' = peers /\ sent' = sent
    BY <1>2
  <2>. QED  BY <2>4, <2>5, <2>6, <2>7, NodeStep
<1>. QED
  BY <1>1, <1>2 DEF ApplierTick

\* The sessions of the Node change.
LEMMA PeersChange ==
  ASSUME SyncInv, UNCHANGED <<masterVars, applier, receiver, installed, up, acks>>,
         sent' \subseteq sent, faults' \in 0..MaxFaults, faults <= faults',
         peers' \in [Sessions -> {"absent", "attempt", "open", "closed"}],
         NEW n \in 0..MaxSessions, \A s \in Sessions : peers'[s] # "absent" <=> s <= n,
         \A s \in Sessions : peers[s] # "absent" => peers'[s] # "absent"
  PROVE  SyncInv'
<1>1. MasterInv'
  BY MasterKept DEF SyncInv
<1>2. \A s : Confirmed(s)' = Confirmed(s) /\ Latest(s)' = Latest(s)
  BY SameConfirmed DEF masterVars
<1>3. NodeInv'
  BY <1>2 DEF SyncInv, NodeInv, ApplierTyped, ReceiverTyped
<1>4. WireTyped'
  BY <1>2, WireShrinks DEF SyncInv
<1>5. InTurn'
  BY <1>2 DEF SyncInv, InTurn, masterVars
<1>. QED
  BY <1>1, <1>3, <1>4, <1>5 DEF SyncInv

LEMMA ConnectStep == ASSUME SyncInv, Connect PROVE SyncInv'
<1>1. /\ Newest < MaxSessions /\ sent' = StillHeard(peers', sent)
      /\ peers' = [Closed(peers, {"attempt"}) EXCEPT ![Newest + 1] = "attempt"]
      /\ UNCHANGED <<masterVars, applier, receiver, installed, up, acks>>
  BY DEF Connect
<1>2. PICK n : n = Newest
  OBVIOUS
<1>3. n \in 0..MaxSessions /\ n < MaxSessions /\ \A s \in Sessions : peers[s] # "absent" <=> s <= n
  BY <1>1, <1>2, NewestIs DEF SyncInv
<1>4. peers \in [Sessions -> {"absent", "attempt", "open", "closed"}]
  BY DEF SyncInv, InTurn
<1>5. n + 1 \in Sessions /\ n + 1 \in 0..MaxSessions /\ n \in Nat
  BY <1>3, Bounds DEF Sessions
<1>6. \A s \in Sessions :
        peers'[s] = IF s = n + 1 THEN "attempt" ELSE IF peers[s] \in {"attempt"} THEN "closed" ELSE peers[s]
  BY <1>1, <1>2, <1>5 DEF Closed
<1>7. peers' \in [Sessions -> {"absent", "attempt", "open", "closed"}]
  BY <1>1, <1>2, <1>4, <1>5 DEF Closed
<1>8. \A s \in Sessions : peers'[s] # "absent" <=> s <= n + 1
  <2>1. ASSUME NEW s \in Sessions PROVE s <= n + 1 <=> s <= n \/ s = n + 1
    BY <1>5, Bounds
  <2>. QED  BY <1>3, <1>6, <2>1
<1>9. \A s \in Sessions : peers[s] # "absent" => peers'[s] # "absent"
  BY <1>6
<1>10. faults' \in 0..MaxFaults /\ faults <= faults'
  <2>1. CASE \E s \in Sessions : peers[s] = "open"
    <3>1. May("rekey") /\ Counts(TRUE)
      BY <2>1 DEF Connect, Counts
    <3>. QED  BY <3>1, FaultHappens
  <2>2. CASE ~ \E s \in Sessions : peers[s] = "open"
    <3>1. faults' = faults
      BY <2>2 DEF Connect, Counts
    <3>. QED  BY <3>1, NoFault
  <2>. QED  BY <2>1, <2>2
<1>11. sent' \subseteq sent
  BY <1>1 DEF StillHeard
<1>. QED
  BY <1>1, <1>5, <1>7, <1>8, <1>9, <1>10, <1>11, PeersChange

LEMMA PeersEnd ==
  ASSUME SyncInv, UNCHANGED <<masterVars, applier, receiver, installed, up, acks>>,
         sent' \subseteq sent, faults' \in 0..MaxFaults, faults <= faults',
         peers' \in [Sessions -> {"absent", "attempt", "open", "closed"}],
         \A s \in Sessions : peers[s] # "absent" <=> peers'[s] # "absent"
  PROVE  SyncInv'
<1>1. PICK n \in 0..MaxSessions : \A s \in Sessions : peers[s] # "absent" <=> s <= n
  BY DEF SyncInv, InTurn
<1>2. \A s \in Sessions : peers'[s] # "absent" <=> s <= n
  BY <1>1
<1>. QED
  BY <1>2, PeersChange

LEMMA ActivateStep == ASSUME SyncInv, NEW s \in Sessions, Activate(s) PROVE SyncInv'
<1>1. /\ peers[s] = "attempt" /\ sent' = StillHeard(peers', sent)
      /\ peers' = [Closed(peers, {"open"}) EXCEPT ![s] = "open"]
      /\ UNCHANGED <<masterVars, applier, receiver, installed, up, acks>> /\ faults' = faults
  BY DEF Activate
<1>2. peers \in [Sessions -> {"absent", "attempt", "open", "closed"}]
  BY DEF SyncInv, InTurn
<1>3. peers' \in [Sessions -> {"absent", "attempt", "open", "closed"}]
  BY <1>1, <1>2 DEF Closed
<1>4. \A t \in Sessions :
        peers'[t] = IF t = s THEN "open" ELSE IF peers[t] \in {"open"} THEN "closed" ELSE peers[t]
  BY <1>1 DEF Closed
<1>5. \A t \in Sessions : peers[t] # "absent" <=> peers'[t] # "absent"
  BY <1>1, <1>4
<1>6. sent' \subseteq sent /\ faults' \in 0..MaxFaults /\ faults <= faults'
  BY <1>1, NoFault DEF StillHeard
<1>. QED
  BY <1>1, <1>3, <1>5, <1>6, PeersEnd

LEMMA NodeOfflineStep == ASSUME SyncInv, NEW s \in Sessions, NodeOffline(s) PROVE SyncInv'
<1>1. /\ peers[s] = "open" /\ sent' = StillHeard(peers', sent)
      /\ peers' = [peers EXCEPT ![s] = "closed"]
      /\ UNCHANGED <<masterVars, applier, receiver, installed, up, acks>>
      /\ May("offline") /\ Counts(TRUE)
  BY DEF NodeOffline
<1>2. peers \in [Sessions -> {"absent", "attempt", "open", "closed"}]
  BY DEF SyncInv, InTurn
<1>3. /\ peers' \in [Sessions -> {"absent", "attempt", "open", "closed"}]
      /\ \A t \in Sessions : peers[t] # "absent" <=> peers'[t] # "absent"
  BY <1>1, <1>2
<1>4. sent' \subseteq sent /\ faults' \in 0..MaxFaults /\ faults <= faults'
  BY <1>1, FaultHappens DEF StillHeard
<1>. QED
  BY <1>1, <1>3, <1>4, PeersEnd

LEMMA FadeStep == ASSUME SyncInv, Fade PROVE SyncInv'
<1>1. sent' \subseteq sent /\ up' \subseteq up
      /\ UNCHANGED <<masterVars, nodeVars, acks, faults>>
  BY DEF Fade
<1>. QED
  BY <1>1, NodeStaysStep

-----------------------------------------------------------------------------
LEMMA SyncInitInv == SyncInit => SyncInv
<1> SUFFICES ASSUME SyncInit PROVE SyncInv
  OBVIOUS
<1>1. \A s : ~Confirmed(s)
  BY DEF SyncInit, Confirmed
<1>2. MasterTyped
  <2>1. 1 \in Generations /\ 0 \in 0..MaxFaults
    BY Bounds DEF Generations
  <2>. QED  BY <2>1 DEF SyncInit, MasterTyped, LinkStates
<1>3. PublishedTyped
  BY IdleIsNone, Bounds DEF SyncInit, PublishedTyped
<1>4. Numbered
  BY Bounds DEF SyncInit, Numbered, Kept
<1>5. ApplierTyped /\ ReceiverTyped
  BY <1>1, Bounds DEF SyncInit, ApplierTyped, ReceiverTyped, Fresh, Applier
<1>6. WireTyped
  BY DEF SyncInit, WireTyped
<1>7. InTurn
  <2>1. 0 \in 0..MaxSessions /\ \A s \in Sessions : ~(s <= 0)
    BY Bounds
  <2>2. \A s \in Sessions : peers[s] # "absent" <=> s <= 0
    BY <2>1 DEF SyncInit
  <2>. QED  BY <1>1, <2>1, <2>2 DEF SyncInit, InTurn
<1>. QED
  BY <1>2, <1>3, <1>4, <1>5, <1>6, <1>7 DEF SyncInv, MasterInv, NodeInv

LEMMA SyncStutter == ASSUME SyncInv, UNCHANGED syncVars PROVE SyncInv'
<1>1. UNCHANGED <<masterVars, nodeVars>> /\ sent' \subseteq sent /\ acks' = acks
      /\ up' \subseteq up /\ faults' = faults
  BY DEF syncVars
<1>. QED
  BY <1>1, NodeStaysStep

LEMMA SyncNextInv == ASSUME SyncInv, [SyncNext]_syncVars PROVE SyncInv'
<1>1. CASE Publisher
  BY <1>1, PublisherTickStep, ReceiveAckStep DEF Publisher
<1>2. CASE Master
  BY <1>2, CommitStep, ConfirmStep, ConfirmAgainStep, ExpireSlotStep, MasterOfflineStep,
     ResetStep DEF Master
<1>3. CASE Node
  BY <1>3, ReceiveBeginStep, ReceiveChunkStep, InstallStep, ApplierTickStep, ConnectStep,
     ActivateStep, NodeOfflineStep DEF Node
<1>. QED
  BY <1>1, <1>2, <1>3, FadeStep, SyncStutter DEF SyncNext

\* Every state that the publisher, the applier and the sessions under them can
\* reach satisfies SyncInv, whichever faults the constants admit.
THEOREM SyncAlways == SyncSpec => []SyncInv
<1>. QED  BY SyncInitInv, SyncNextInv, PTL DEF SyncSpec

\* What the Node left behind only grows, and only in a BEGIN of an older session.
LeftTyped == left \in [Sessions -> Generations \cup {None}]

LEMMA AppliedIs ==
  ASSUME SyncInv
  PROVE  /\ applier.applied \in Nat /\ applier.pending \in Nat /\ applier.active \in Nat
         /\ applier.active # None => applier.active \in Sessions
BY Bounds DEF SyncInv, NodeInv, ApplierTyped, Applier

LEMMA LeavesBehind ==
  ASSUME SyncInv, LeftTyped, NEW older \in Sessions, left' = Abandoned(older)
  PROVE  /\ LeftTyped' /\ \A s \in Sessions : left[s] <= left'[s] /\ left[s] \in Nat
         /\ GoesBack(older) => applier.applied <= left'[applier.active]
<1>1. applier.applied \in Generations \cup {None} /\ applier.applied \in Nat /\ applier.active \in Nat
  BY AppliedIs DEF SyncInv, NodeInv, ApplierTyped, Applier
<1>2. older \in Nat /\ older > 0 /\ \A s \in Sessions : left[s] \in Nat
  BY Bounds DEF LeftTyped
<1>3. GoesBack(older) => applier.active \in Sessions
  BY <1>1, <1>2, AppliedIs, Bounds DEF GoesBack
<1>4. CASE GoesBack(older) /\ applier.applied > left[applier.active]
  <2>1. left' = [left EXCEPT ![applier.active] = applier.applied]
    BY <1>4 DEF Abandoned
  <2>2. LeftTyped'
    BY <1>1, <2>1 DEF LeftTyped
  <2>3. \A s \in Sessions : left'[s] = IF s = applier.active THEN applier.applied ELSE left[s]
    BY <1>3, <1>4, <2>1 DEF LeftTyped
  <2>. QED  BY <1>1, <1>2, <1>3, <1>4, <2>2, <2>3
<1>5. CASE ~(GoesBack(older) /\ applier.applied > left[applier.active])
  <2>1. left' = left
    BY <1>5 DEF Abandoned
  <2>2. GoesBack(older) => applier.applied <= left[applier.active]
    BY <1>1, <1>2, <1>3, <1>5
  <2>3. \A s \in Sessions : left[s] <= left'[s]
    BY <1>2, <2>1
  <2>4. LeftTyped'
    BY <2>1 DEF LeftTyped
  <2>. QED  BY <1>2, <2>1, <2>2, <2>3, <2>4
<1>. QED
  BY <1>4, <1>5

\* Only the first BEGIN of a session changes what is left behind.
LEMMA LeavesInBegin ==
  ASSUME [SyncNext]_syncVars
  PROVE  left' = left \/ \E f \in sent : ReceiveBegin(f) /\ BeginFirst(f)
<1>1. CASE UNCHANGED syncVars
  BY <1>1 DEF syncVars, nodeVars
<1>2. CASE Publisher
  BY <1>2 DEF Publisher, PublisherTick, ReceiveAck, nodeVars
<1>3. CASE Master
  BY <1>3 DEF Master, Commit, Confirm, ConfirmAgain, ExpireSlot, MasterOffline, Reset, nodeVars
<1>4. CASE Fade
  BY <1>4 DEF Fade, nodeVars
<1>5. ASSUME NEW f \in sent, ReceiveChunk(f) PROVE left' = left
  BY <1>5 DEF ReceiveChunk, NodeFails, nodeVars
<1>6. CASE Install \/ ApplierTick \/ Connect
  BY <1>6 DEF Install, ApplierTick, Connect, NodeFails, nodeVars
<1>7. ASSUME NEW s \in Sessions, Activate(s) \/ NodeOffline(s) PROVE left' = left
  BY <1>7 DEF Activate, NodeOffline
<1>8. ASSUME NEW f \in sent, ReceiveBegin(f), ~BeginFirst(f) PROVE left' = left
  BY <1>8 DEF ReceiveBegin, BeginAgain
<1>. QED
  BY <1>1, <1>2, <1>3, <1>4, <1>5, <1>6, <1>7, <1>8 DEF SyncNext, Node

LEMMA LeftNext == ASSUME SyncInv, LeftTyped, [SyncNext]_syncVars PROVE LeftTyped'
<1>1. CASE left' = left
  BY <1>1 DEF LeftTyped
<1>2. ASSUME NEW f \in sent, BeginFirst(f) PROVE LeftTyped'
  BY <1>2, FrameIs, LeavesBehind DEF BeginFirst
<1>. QED
  BY <1>1, <1>2, LeavesInBegin

LEMMA LeftAlways == SyncSpec => []LeftTyped
<1>1. SyncInit => LeftTyped
  BY DEF SyncInit, LeftTyped
<1>. QED  BY <1>1, LeftNext, SyncAlways, PTL DEF SyncSpec

\* What every step keeps gives the types.
LEMMA SyncInvTypes == ASSUME SyncInv, LeftTyped PROVE SyncTypeOK
<1>1. requests \in [Sessions -> Requests \cup {None}]
  <2>1. ASSUME NEW s \in Sessions PROVE requests[s] \in Requests \cup {None}
    <3> DEFINE k == Kept(s)
    <3>1. k \in {0, 1} /\ requests[s] \in Nat /\ requests[s] + k <= effective + faults
      BY DEF Kept, SyncInv, MasterInv, MasterTyped, Numbered
    <3>2. effective \in Nat /\ faults \in Nat /\ effective <= MaxGeneration /\ faults <= MaxFaults
          /\ MaxGeneration \in Nat /\ MaxFaults \in Nat
      BY Bounds DEF SyncInv, MasterInv, MasterTyped, Generations
    <3> HIDE DEF k
    <3>. QED  BY <3>1, <3>2 DEF Requests, None
  <2>2. requests \in [Sessions -> Nat]
    BY DEF SyncInv, MasterInv, MasterTyped
  <2>. QED  BY <2>1, <2>2
<1>2. applier.installing \/ applier.ackDue => applier.session # None
  BY DEF SyncInv, NodeInv, ApplierTyped
<1>. QED
  BY <1>1, <1>2 DEF SyncTypeOK, SyncInv, MasterInv, MasterTyped, PublishedTyped, NodeInv, ApplierTyped,
     ReceiverTyped, WireTyped, InTurn, LeftTyped

\* The types of ConfigSync: in every state the requests of a session stay below
\* the generations and the refusals together, so that no counter outgrows its range.
THEOREM SyncTyping == SyncSpec => []SyncTypeOK
<1>1. SyncInv /\ LeftTyped => SyncTypeOK
  BY SyncInvTypes
<1>. QED  BY <1>1, SyncAlways, LeftAlways, PTL

-----------------------------------------------------------------------------
(* What is acknowledged stays, unless the Node goes back to the session     *)
(* before a rekey.                                                         *)

RunsForward ==
  /\ receiver # Idle => applier.applied <= receiver.generation
  /\ applier.installing => applier.applied <= applier.pending
  /\ applier.applied # None => installed = applier.appliedContent

\* No acknowledgement on its way is ahead of what is applied in the active
\* session, unless it is of a session that another followed or that was left.
AcksBehind ==
  \A a \in acks :
    \/ a.generation <= left[a.session]
    \/ \E t \in Sessions : Confirmed(t) /\ t > a.session
    \/ a.session = applier.active /\ a.generation <= applier.applied

\* Beside the newest session, which may still be an attempt, only the one that
\* is open transmits.
OnePair ==
  /\ \A s \in Sessions : peers[s] = "attempt" =>
       \A t \in Sessions : peers[t] # "absent" => t <= s
  /\ \A s, t \in Sessions : peers[s] = "open" /\ peers[t] = "open" => s = t

AckedHolds ==
  published.session # None /\ published.acked > left[published.session] =>
    applier.active = published.session /\ published.acked <= applier.applied

AckedInv == RunsForward /\ AcksBehind /\ OnePair /\ AckedHolds

\* Holds of every step.
ConfirmedStay == \A s : Confirmed(s) => Confirmed(s)'

LEMMA ConfirmedStays == ASSUME SyncInv, [SyncNext]_syncVars PROVE ConfirmedStay
<1>1. requests \in [Sessions -> Nat]
  BY DEF SyncInv, MasterInv, MasterTyped
<1>2. requests' = requests \/ \E s \in Sessions : requests' = [requests EXCEPT ![s] = @ + 1]
  <2>1. CASE UNCHANGED syncVars
    BY <2>1 DEF syncVars, masterVars
  <2>2. ASSUME NEW accepted \in AcceptedFrames, NEW timer \in BOOLEAN, PublisherTick(accepted, timer)
        PROVE  requests' = requests \/ \E s \in Sessions : requests' = [requests EXCEPT ![s] = @ + 1]
    <3>1. published # NotPublished => published.session \in Sessions
      BY DEF SyncInv, MasterInv, PublishedTyped, Published
    <3>. QED  BY <2>2, <3>1 DEF PublisherTick
  <2>3. CASE Master
    BY <2>3 DEF Master, Commit, Confirm, ConfirmAgain, Ready, ExpireSlot, MasterOffline, Reset
  <2>4. CASE Node
    BY <2>4 DEF Node, ReceiveBegin, ReceiveChunk, NodeFails, Install, ApplierTick, Connect, Activate,
       NodeOffline, masterVars
  <2>5. CASE Fade \/ \E a \in acks : ReceiveAck(a)
    BY <2>5 DEF Fade, ReceiveAck, masterVars
  <2>. QED  BY <2>1, <2>2, <2>3, <2>4, <2>5 DEF SyncNext, Publisher
<1>3. ASSUME NEW t \in Sessions PROVE requests[t] <= requests'[t] /\ requests'[t] \in Nat
  BY <1>1, <1>2
<1>4. ASSUME NEW t, Confirmed(t) PROVE Confirmed(t)'
  <2>1. t \in Sessions /\ requests[t] > 0 /\ requests[t] \in Nat
    BY <1>1, <1>4 DEF Confirmed
  <2>. QED  BY <1>3, <2>1 DEF Confirmed
<1>. QED
  BY <1>4 DEF ConfirmedStay

\* The Node is left as it is.
LEMMA NodeStaysAcked ==
  ASSUME LeftTyped, AckedInv, ConfirmedStay, UNCHANGED nodeVars, acks' \subseteq acks,
         \/ published'.session = None
         \/ published'.session \in Sessions /\ published'.acked = None
         \/ published'.session = published.session /\ published'.acked = published.acked
  PROVE  AckedInv'
<1>1. UNCHANGED <<peers, applier, receiver, installed, left>>
  BY DEF nodeVars
<1>2. RunsForward' /\ OnePair'
  BY <1>1 DEF AckedInv, RunsForward, OnePair
<1>3. AcksBehind'
  BY <1>1 DEF AckedInv, AcksBehind, ConfirmedStay
<1>4. AckedHolds'
  <2>1. CASE published'.session \in Sessions /\ published'.acked = None
    <3>1. left[published'.session] \in Nat
      BY <2>1, Bounds DEF LeftTyped
    <3>2. ~(None > left[published'.session])
      BY <3>1, Bounds
    <3>. QED  BY <1>1, <2>1, <3>2 DEF AckedHolds
  <2>. QED  BY <1>1, <2>1 DEF AckedInv, AckedHolds
<1>. QED
  BY <1>2, <1>3, <1>4 DEF AckedInv

LEMMA PublisherTickAcked ==
  ASSUME SyncInv, LeftTyped, AckedInv, ConfirmedStay,
         NEW accepted \in AcceptedFrames, NEW timer \in BOOLEAN, PublisherTick(accepted, timer)
  PROVE  AckedInv'
<1>1. acks' \subseteq acks /\ UNCHANGED nodeVars
  BY DEF PublisherTick
<1>2. \/ published' \in {published, NotPublished}
      \/ published # NotPublished /\ published' = Prepared(published, Effective)
  BY DEF PublisherTick
<1>3. published # NotPublished => published \in Published
  BY DEF SyncInv, MasterInv, PublishedTyped
<1>4. \/ published'.session = None
      \/ published'.session = published.session /\ published'.acked = published.acked
  BY <1>2, <1>3, PreparedFields, IdleIsNone
<1>. QED
  BY <1>1, <1>4, NodeStaysAcked

\* What is acknowledged is of the latest session of the Master: no other followed
\* it, so it is active on the Node, or has been left with this generation applied.
LEMMA ReceiveAckAcked ==
  ASSUME SyncInv, LeftTyped, AckedInv, ConfirmedStay, NEW a \in acks, ReceiveAck(a) PROVE AckedInv'
<1>1. /\ UNCHANGED nodeVars /\ acks' = acks
      /\ published' = IF MatchesPending(a) THEN Settled(published, a.generation) ELSE published
  BY DEF ReceiveAck, nodeVars
<1>2. CASE ~MatchesPending(a)
  BY <1>1, <1>2, NodeStaysAcked
<1>3. CASE MatchesPending(a)
  <2>1. a \in Ack /\ published.session = a.session
    BY <1>3 DEF MatchesPending, SyncInv, WireTyped
  <2>2. a.session \in Sessions /\ a.generation \in Generations /\ a.session > 0
    BY <2>1, Bounds DEF Ack
  <2>3. published # NotPublished /\ published \in Published
    BY <2>1, <2>2, IdleIsNone, Bounds DEF SyncInv, MasterInv, PublishedTyped
  <2>4. published'.session = a.session /\ published'.acked = a.generation
    BY <1>1, <1>3, <2>1, <2>3 DEF Settled, Published
  <2>5. a.session \in Nat /\ \A t \in Sessions : Confirmed(t) => ~(t > a.session)
    <3>1. Latest(a.session)
      BY <2>1, <2>3 DEF SyncInv, InTurn
    <3>. QED  BY <2>2, <3>1, Bounds DEF Latest
  <2>6. \/ a.generation <= left[a.session]
        \/ applier.active = a.session /\ a.generation <= applier.applied
    BY <2>5 DEF AckedInv, AcksBehind
  <2>7. a.generation \in Nat /\ left[a.session] \in Nat
    BY <2>2, Bounds DEF LeftTyped
  <2>8. AckedHolds'
    BY <1>1, <2>4, <2>6, <2>7 DEF AckedHolds, nodeVars
  <2>9. AcksBehind'
    BY <1>1 DEF AckedInv, AcksBehind, ConfirmedStay, nodeVars
  <2>. QED  BY <1>1, <2>8, <2>9 DEF AckedInv, RunsForward, OnePair, nodeVars
<1>. QED
  BY <1>2, <1>3

LEMMA ReadyAcked ==
  ASSUME SyncInv, LeftTyped, AckedInv, ConfirmedStay,
         NEW s \in Sessions, Ready(s), UNCHANGED nodeVars
  PROVE  AckedInv'
<1>1. published' = Prepared([NotPublished EXCEPT !.session = s], effective)
  BY DEF Ready
<1>2. acks' \subseteq acks
  BY DEF Ready, StillHeard
<1>3. published'.acked = [NotPublished EXCEPT !.session = s].acked
  BY <1>1, PreparedFields
<1>4. published'.acked = None
  BY <1>3 DEF NotPublished
<1>5. published'.session = s
  <2>1. published'.session = [NotPublished EXCEPT !.session = s].session
    BY <1>1, PreparedFields
  <2>. QED  BY <2>1 DEF NotPublished
<1>. QED
  BY <1>2, <1>4, <1>5, NodeStaysAcked

LEMMA MasterAcked == ASSUME SyncInv, LeftTyped, AckedInv, ConfirmedStay, Master PROVE AckedInv'
<1>1. CASE Commit
  BY <1>1, NodeStaysAcked DEF Commit
<1>2. ASSUME NEW s \in Sessions, Confirm(s) PROVE AckedInv'
  BY <1>2, ReadyAcked DEF Confirm
<1>3. ASSUME NEW s \in Sessions, ConfirmAgain(s) PROVE AckedInv'
  BY <1>3, ReadyAcked DEF ConfirmAgain
<1>4. CASE ExpireSlot
  BY <1>4, NodeStaysAcked DEF ExpireSlot
<1>5. ASSUME NEW s \in Sessions, MasterOffline(s) PROVE AckedInv'
  BY <1>5, NodeStaysAcked DEF MasterOffline, StillHeard
<1>6. CASE Reset
  BY <1>6, NodeStaysAcked DEF Reset
<1>. QED
  BY <1>1, <1>2, <1>3, <1>4, <1>5, <1>6 DEF Master

\* A BEGIN of the active session that is not stale is of no older generation.
LEMMA BeginAgainAcked ==
  ASSUME SyncInv, LeftTyped, AckedInv, ConfirmedStay,
         NEW f \in sent, ReceiveBegin(f), BeginAgain(f)
  PROVE  AckedInv'
<1>1. UNCHANGED <<peers, installed, published, left>> /\ f.session = applier.active
  BY DEF ReceiveBegin, BeginAgain, masterVars
<1>2. applier \in Applier /\ f \in Frame /\ f.generation \in Nat /\ applier.applied \in Nat
  BY FrameIs, AppliedIs, Bounds DEF SyncInv, NodeInv, ApplierTyped
<1> DEFINE a == [applier EXCEPT !.request = f.request]
           due == [a EXCEPT !.session = f.session, !.ackDue = TRUE]
<1>3. /\ a.active = applier.active /\ a.applied = applier.applied
      /\ a.appliedContent = applier.appliedContent
      /\ a.installing = applier.installing /\ a.pending = applier.pending
  BY <1>2 DEF Applier
<1>4. /\ due.active = applier.active /\ due.applied = applier.applied
      /\ due.appliedContent = applier.appliedContent /\ due.session = f.session
      /\ due.installing = applier.installing /\ due.pending = applier.pending
  BY <1>2 DEF Applier
<1>5. LET d == [due EXCEPT !.ackDue = FALSE] IN
      /\ d.active = applier.active /\ d.applied = applier.applied
      /\ d.appliedContent = applier.appliedContent
      /\ d.installing = applier.installing /\ d.pending = applier.pending
  BY <1>2 DEF Applier
<1>6. ASSUME applier'.active = applier.active, applier'.applied = applier.applied,
             applier'.appliedContent = applier.appliedContent,
             applier'.installing = applier.installing, applier'.pending = applier.pending,
             receiver' = receiver \/ (receiver' = Started(f) /\ ~IsStale(f)),
             acks' = acks \/ acks' = acks \cup {AckOf(due)}
      PROVE  AckedInv'
  <2>1. receiver' # Idle => applier'.applied <= receiver'.generation
    <3>1. CASE receiver' = receiver
      BY <1>6, <3>1 DEF AckedInv, RunsForward
    <3>2. CASE receiver' = Started(f) /\ ~IsStale(f)
      BY <1>2, <1>6, <3>2, StartedIs DEF IsStale
    <3>. QED  BY <1>6, <3>1, <3>2
  <2>2. RunsForward'
    BY <1>1, <1>6, <2>1 DEF AckedInv, RunsForward
  <2>3. AckOf(due).session = applier.active /\ AckOf(due).generation = applier.applied
    BY <1>1, <1>4 DEF AckOf
  <2>4. applier.active <= applier.active /\ applier.applied <= applier.applied
    BY <1>2, AppliedIs
  <2>5. AcksBehind'
    BY <1>1, <1>6, <2>3, <2>4 DEF AckedInv, AcksBehind, ConfirmedStay
  <2>. QED  BY <1>1, <1>6, <2>2, <2>5 DEF AckedInv, OnePair, AckedHolds
<1>7. /\ \/ applier' = applier \/ applier' = a \/ applier' = due
         \/ applier' = [due EXCEPT !.ackDue = FALSE]
      /\ receiver' = receiver \/ (receiver' = Started(f) /\ ~IsStale(f))
      /\ acks' = acks \/ acks' = acks \cup {AckOf(due)}
  BY DEF BeginAgain
<1>8. /\ applier'.active = applier.active /\ applier'.applied = applier.applied
      /\ applier'.appliedContent = applier.appliedContent
      /\ applier'.installing = applier.installing /\ applier'.pending = applier.pending
  <2> HIDE DEF a, due
  <2>. QED  BY <1>3, <1>4, <1>5, <1>7
<1>. QED
  BY <1>6, <1>7, <1>8

\* A session is left for an older one only if that one is still open: an attempt
\* is newer than all the others, and no two are open.
LEMMA OlderIsOpen ==
  ASSUME SyncInv, AckedInv, NEW older \in Sessions, Transmits(older), older < applier.active
  PROVE  GoesBack(older)
<1>1. older \in Nat /\ older > 0 /\ applier.active \in Nat
  BY AppliedIs, Bounds
<1>2. applier.active \in Sessions /\ applier.active # None
  BY <1>1, AppliedIs, Bounds
<1>3. peers[applier.active] # "absent"
  <2>1. Confirmed(applier.active)
    BY <1>2 DEF SyncInv, NodeInv, ApplierTyped
  <2>. QED  BY <1>2, <2>1 DEF SyncInv, InTurn
<1>4. peers[older] = "open"
  <2>1. peers[older] = "attempt" => applier.active <= older
    BY <1>2, <1>3 DEF AckedInv, OnePair
  <2>2. peers[older] # "attempt"
    BY <1>1, <2>1
  <2>. QED  BY <2>2 DEF Transmits
<1>5. peers[applier.active] = "open" => applier.active = older
  BY <1>2, <1>4 DEF AckedInv, OnePair
<1>6. peers[applier.active] # "open"
  BY <1>1, <1>5
<1>. QED
  BY <1>4, <1>6 DEF GoesBack

\* A BEGIN of another session is of a newer one, which the Master confirmed too,
\* or of an older one, and then what is applied is recorded as left behind.
LEMMA BeginFirstAcked ==
  ASSUME SyncInv, LeftTyped, AckedInv, ConfirmedStay, NEW f \in sent, ReceiveBegin(f), BeginFirst(f)
  PROVE  AckedInv'
<1>1. /\ UNCHANGED <<peers, installed, published, acks>> /\ receiver' = Started(f)
      /\ ~applier.installing /\ f.session # applier.active
      /\ left' = Abandoned(f.session) /\ Transmits(f.session)
      /\ applier' = [Selected(f.session) EXCEPT !.request = f.request]
  BY DEF ReceiveBegin, BeginFirst, masterVars
<1>2. applier \in Applier
  BY DEF SyncInv, NodeInv, ApplierTyped
<1>3. /\ applier'.active = f.session /\ applier'.applied = None /\ applier'.installing = FALSE
  BY <1>1, <1>2 DEF Selected, Applier
<1>4. f.session \in Sessions /\ Confirmed(f.session) /\ f \in Frame /\ f.generation \in Nat
      /\ f.session \in Nat /\ applier.active \in Nat /\ applier.applied \in Nat
  BY FrameIs, AppliedIs, Bounds
<1>5. /\ \A s \in Sessions : left[s] <= left'[s] /\ left[s] \in Nat /\ left'[s] \in Nat
      /\ f.session < applier.active => applier.applied <= left'[applier.active]
  <2>1. f.session < applier.active => GoesBack(f.session)
    BY <1>1, <1>4, OlderIsOpen
  <2>2. \A s \in Sessions : left[s] \in Nat /\ left[s] <= left'[s] /\ left'[s] \in Nat
    BY <1>1, <1>4, LeavesBehind, Bounds DEF LeftTyped
  <2>3. GoesBack(f.session) => applier.applied <= left'[applier.active]
    BY <1>1, <1>4, LeavesBehind
  <2>. QED  BY <2>1, <2>2, <2>3
<1>6. RunsForward'
  <2>1. None <= f.generation /\ receiver'.generation = f.generation
    BY <1>1, <1>4, StartedIs, Bounds
  <2>. QED  BY <1>3, <2>1 DEF RunsForward
<1>7. f.session > applier.active \/ f.session < applier.active
  BY <1>1, <1>4
<1>8. AcksBehind'
  <2>1. ASSUME NEW x \in acks
        PROVE  \/ x.generation <= left'[x.session]
               \/ \E t \in Sessions : Confirmed(t)' /\ t > x.session
    <3>1. x.session \in Sessions /\ x.generation \in Nat
      BY Bounds DEF SyncInv, WireTyped, Ack
    <3>2. CASE x.generation <= left[x.session]
      BY <1>5, <3>1, <3>2
    <3>3. CASE \E t \in Sessions : Confirmed(t) /\ t > x.session
      BY <3>3 DEF ConfirmedStay
    <3>4. ASSUME x.session = applier.active, x.generation <= applier.applied, f.session < applier.active
          PROVE  x.generation <= left'[x.session]
      BY <1>4, <1>5, <3>1, <3>4
    <3>5. ASSUME x.session = applier.active, f.session > applier.active
          PROVE  \E t \in Sessions : Confirmed(t)' /\ t > x.session
      BY <1>4, <3>5 DEF ConfirmedStay
    <3>. QED  BY <1>7, <3>2, <3>3, <3>4, <3>5 DEF AckedInv, AcksBehind
  <2>. QED  BY <1>1, <2>1 DEF AcksBehind
<1>9. AckedHolds'
  <2>1. SUFFICES ASSUME published.session # None, published.acked > left'[published.session]
                 PROVE  FALSE
    BY <1>1 DEF AckedHolds
  <2>2. published \in Published /\ published.session \in Sessions /\ published.acked \in Nat
        /\ published # NotPublished
    BY <2>1, IdleIsNone, Bounds DEF SyncInv, MasterInv, PublishedTyped, Published
  <2>3. published.acked > left[published.session]
    BY <1>5, <2>1, <2>2
  <2>4. applier.active = published.session /\ published.acked <= applier.applied
    BY <2>1, <2>3 DEF AckedInv, AckedHolds
  <2>5. f.session <= applier.active
    <3>1. Latest(applier.active)
      BY <2>2, <2>4 DEF SyncInv, InTurn
    <3>. QED  BY <1>4, <3>1 DEF Latest
  <2>6. applier.applied <= left'[published.session]
    BY <1>4, <1>5, <1>7, <2>4, <2>5
  <2>. QED  BY <1>4, <1>5, <2>1, <2>2, <2>4, <2>6
<1>. QED
  BY <1>1, <1>6, <1>8, <1>9 DEF AckedInv, OnePair

LEMMA ReceiveChunkAcked ==
  ASSUME SyncInv, LeftTyped, AckedInv, ConfirmedStay, NEW f \in sent, ReceiveChunk(f) PROVE AckedInv'
<1>1. /\ f.session = applier.active /\ ~applier.installing /\ f.generation = receiver.generation
  BY DEF ReceiveChunk
<1>2. applier \in Applier /\ f.generation \in Generations /\ receiver \in Receiver \cup {Idle}
  BY FrameIs DEF SyncInv, NodeInv, ApplierTyped, ReceiverTyped
<1>3. receiver \in Receiver /\ receiver # Idle
  BY <1>1, <1>2, ReceiverIs
<1>4. applier.applied <= receiver.generation
  BY <1>3 DEF AckedInv, RunsForward
<1>5. CASE NodeFails
  BY <1>5, NodeStaysAcked DEF NodeFails, masterVars
<1>6. ASSUME receiver' = [receiver EXCEPT !.got = Collected(f)],
             UNCHANGED <<masterVars, peers, applier, installed, left, acks>>
      PROVE  AckedInv'
  <2>1. receiver'.generation = receiver.generation
    BY <1>3, <1>6 DEF Receiver
  <2>2. published' = published
    BY <1>6 DEF masterVars
  <2>. QED
    BY <1>4, <1>6, <2>1, <2>2 DEF AckedInv, RunsForward, AcksBehind, OnePair, AckedHolds, ConfirmedStay
<1>7. ASSUME applier' = [applier EXCEPT !.installing = TRUE, !.session = f.session,
                             !.pending = receiver.generation, !.pendingContent = receiver.content],
             receiver' = Idle,
             UNCHANGED <<masterVars, peers, installed, left, acks>>
      PROVE  AckedInv'
  <2>1. /\ applier'.active = applier.active /\ applier'.applied = applier.applied
        /\ applier'.appliedContent = applier.appliedContent
        /\ applier'.pending = receiver.generation
    BY <1>2, <1>7 DEF Applier
  <2>2. published' = published
    BY <1>7 DEF masterVars
  <2>. QED
    BY <1>4, <1>7, <2>1, <2>2 DEF AckedInv, RunsForward, AcksBehind, OnePair, AckedHolds, ConfirmedStay
<1>8. \/ NodeFails
      \/ /\ receiver' = [receiver EXCEPT !.got = Collected(f)]
         /\ UNCHANGED <<masterVars, peers, applier, installed, left, acks>>
      \/ /\ applier' = [applier EXCEPT !.installing = TRUE, !.session = f.session,
                             !.pending = receiver.generation, !.pendingContent = receiver.content]
         /\ receiver' = Idle
         /\ UNCHANGED <<masterVars, peers, installed, left, acks>>
  BY DEF ReceiveChunk
<1>. QED
  BY <1>5, <1>6, <1>7, <1>8

LEMMA InstallAcked == ASSUME SyncInv, LeftTyped, AckedInv, ConfirmedStay, Install PROVE AckedInv'
<1>1. /\ applier.installing /\ installed' = applier.pendingContent
      /\ applier' = [applier EXCEPT !.installing = FALSE, !.ackDue = TRUE,
                        !.applied = applier.pending, !.appliedContent = applier.pendingContent]
      /\ UNCHANGED <<published, peers, receiver, left, acks>>
  BY DEF Install, masterVars
<1>2. applier \in Applier /\ receiver = Idle
  BY <1>1 DEF SyncInv, NodeInv, ApplierTyped
<1>3. /\ applier'.active = applier.active /\ applier'.applied = applier.pending
      /\ applier'.appliedContent = applier.pendingContent /\ applier'.installing = FALSE
  BY <1>1, <1>2 DEF Applier
<1>4. applier.applied <= applier.pending /\ applier.applied \in Nat /\ applier.pending \in Nat
  BY <1>1, AppliedIs DEF AckedInv, RunsForward
<1>5. RunsForward'
  BY <1>1, <1>2, <1>3 DEF RunsForward
<1>6. AcksBehind'
  <2>1. ASSUME NEW x \in acks, x.generation <= applier.applied PROVE x.generation <= applier.pending
    <3>1. x.generation \in Nat
      BY Bounds DEF SyncInv, WireTyped, Ack
    <3>. QED  BY <1>4, <2>1, <3>1
  <2>. QED  BY <1>1, <1>3, <2>1 DEF AckedInv, AcksBehind, ConfirmedStay
<1>7. AckedHolds'
  <2>1. published.acked \in Nat
    BY Bounds, IdleIsNone DEF SyncInv, MasterInv, PublishedTyped, Published
  <2>. QED  BY <1>1, <1>3, <1>4, <2>1 DEF AckedInv, AckedHolds
<1>. QED
  BY <1>1, <1>5, <1>6, <1>7 DEF AckedInv, OnePair

LEMMA ApplierTickAcked == ASSUME SyncInv, LeftTyped, AckedInv, ConfirmedStay, ApplierTick PROVE AckedInv'
<1>1. CASE NodeFails
  BY <1>1, NodeStaysAcked DEF NodeFails, masterVars
<1>2. ASSUME acks' = acks \cup {AckOf(applier)}, applier' = [applier EXCEPT !.ackDue = FALSE],
             applier.ackDue, UNCHANGED <<masterVars, peers, receiver, installed, left>>
      PROVE  AckedInv'
  <2>1. applier \in Applier /\ applier.session = applier.active
    BY <1>2 DEF SyncInv, NodeInv, ApplierTyped
  <2>2. /\ applier'.active = applier.active /\ applier'.applied = applier.applied
        /\ applier'.appliedContent = applier.appliedContent
        /\ applier'.installing = applier.installing /\ applier'.pending = applier.pending
    BY <1>2, <2>1 DEF Applier
  <2>3. AckOf(applier).session = applier.active /\ AckOf(applier).generation = applier.applied
    BY <2>1 DEF AckOf
  <2>4. applier.active <= applier.active /\ applier.applied <= applier.applied
    BY AppliedIs
  <2>5. AcksBehind'
    BY <1>2, <2>2, <2>3, <2>4 DEF AckedInv, AcksBehind, ConfirmedStay
  <2>6. published' = published
    BY <1>2 DEF masterVars
  <2>. QED  BY <1>2, <2>2, <2>5, <2>6 DEF AckedInv, RunsForward, OnePair, AckedHolds
<1>. QED
  BY <1>1, <1>2 DEF ApplierTick

\* What the sessions do leaves the rest as it is.
LEMMA PeersAcked ==
  ASSUME AckedInv, ConfirmedStay, UNCHANGED <<published, applier, receiver, installed, left, acks>>,
         OnePair'
  PROVE  AckedInv'
<1>1. AcksBehind'
  BY DEF AckedInv, AcksBehind, ConfirmedStay
<1>. QED
  BY <1>1 DEF AckedInv, RunsForward, AckedHolds

\* The attempt before the new session has expired.
LEMMA ConnectAcked ==
  ASSUME SyncInv, AckedInv, ConfirmedStay, Connect PROVE AckedInv'
<1>1. PICK n : n = Newest
  OBVIOUS
<1>2. /\ n < MaxSessions
      /\ peers' = [Closed(peers, {"attempt"}) EXCEPT ![n + 1] = "attempt"]
      /\ UNCHANGED <<applier, receiver, installed, left, acks, published>>
  BY <1>1 DEF Connect, masterVars
<1>3. n \in 0..MaxSessions /\ \A s \in Sessions : peers[s] # "absent" <=> s <= n
  BY <1>1, NewestIs DEF SyncInv
<1>4. n + 1 \in Sessions /\ n \in Nat
  BY <1>2, <1>3, Bounds DEF Sessions
<1>5. \A s \in Sessions :
        peers'[s] = IF s = n + 1 THEN "attempt" ELSE IF peers[s] \in {"attempt"} THEN "closed" ELSE peers[s]
  BY <1>2, <1>4 DEF Closed
<1>6. ASSUME NEW s \in Sessions, peers'[s] = "attempt", NEW t \in Sessions, peers'[t] # "absent"
      PROVE  t <= s
  <2>1. s = n + 1
    BY <1>5, <1>6
  <2>2. t = n + 1 \/ t <= n
    BY <1>3, <1>5, <1>6
  <2>. QED  BY <1>4, <2>1, <2>2, Bounds
<1>7. \A s \in Sessions : peers'[s] = "open" => peers[s] = "open"
  BY <1>5
<1>8. OnePair'
  BY <1>6, <1>7 DEF AckedInv, OnePair
<1>. QED
  BY <1>2, <1>8, PeersAcked

\* Liveness closes the session that was open before.
LEMMA ActivateAcked ==
  ASSUME SyncInv, AckedInv, ConfirmedStay, NEW s \in Sessions, Activate(s) PROVE AckedInv'
<1>1. /\ peers[s] = "attempt" /\ peers' = [Closed(peers, {"open"}) EXCEPT ![s] = "open"]
      /\ UNCHANGED <<published, applier, receiver, installed, left, acks>>
  BY DEF Activate, masterVars
<1>2. \A t \in Sessions :
        peers'[t] = IF t = s THEN "open" ELSE IF peers[t] \in {"open"} THEN "closed" ELSE peers[t]
  BY <1>1 DEF Closed
<1>3. \A t \in Sessions : /\ peers'[t] = "open" => t = s
                          /\ peers'[t] = "attempt" => peers[t] = "attempt"
                          /\ peers'[t] # "absent" => peers[t] # "absent"
  BY <1>1, <1>2
<1>4. OnePair'
  BY <1>3 DEF AckedInv, OnePair
<1>. QED
  BY <1>1, <1>4, PeersAcked

LEMMA NodeOfflineAcked ==
  ASSUME SyncInv, AckedInv, ConfirmedStay, NEW s \in Sessions, NodeOffline(s) PROVE AckedInv'
<1>1. /\ peers[s] = "open" /\ peers' = [peers EXCEPT ![s] = "closed"]
      /\ UNCHANGED <<published, applier, receiver, installed, left, acks>>
  BY DEF NodeOffline, masterVars
<1>2. \A t \in Sessions : peers'[t] = IF t = s THEN "closed" ELSE peers[t]
  BY <1>1 DEF SyncInv, InTurn
<1>3. OnePair'
  BY <1>1, <1>2 DEF AckedInv, OnePair
<1>. QED
  BY <1>1, <1>3, PeersAcked

LEMMA NodeAcked == ASSUME SyncInv, LeftTyped, AckedInv, ConfirmedStay, Node PROVE AckedInv'
<1>1. ASSUME NEW f \in sent, ReceiveBegin(f) PROVE AckedInv'
  BY <1>1, BeginAgainAcked, BeginFirstAcked DEF ReceiveBegin
<1>. QED
  BY <1>1, ReceiveChunkAcked, InstallAcked, ApplierTickAcked, ConnectAcked, ActivateAcked,
     NodeOfflineAcked DEF Node

LEMMA AckedNext ==
  ASSUME SyncInv, LeftTyped, AckedInv, [SyncNext]_syncVars PROVE AckedInv'
<1>1. ConfirmedStay
  BY ConfirmedStays
<1>2. CASE Publisher
  BY <1>1, <1>2, PublisherTickAcked, ReceiveAckAcked DEF Publisher
<1>3. CASE Fade
  BY <1>1, <1>3, NodeStaysAcked DEF Fade, masterVars
<1>4. CASE UNCHANGED syncVars
  <2>1. UNCHANGED nodeVars /\ acks' \subseteq acks /\ published' = published
    BY <1>4 DEF syncVars, masterVars
  <2>. QED  BY <1>1, <2>1, NodeStaysAcked
<1>. QED
  BY <1>1, <1>2, <1>3, <1>4, MasterAcked, NodeAcked DEF SyncNext

LEMMA AckedInit == SyncInit => AckedInv
BY IdleIsNone DEF SyncInit, AckedInv, RunsForward, AcksBehind, OnePair, AckedHolds, Fresh

LEMMA AckedInvHolds == ASSUME SyncInv, LeftTyped, AckedInv PROVE AcknowledgedStays
<1>1. SUFFICES ASSUME published.session # None, published.acked > left[published.session]
               PROVE  installed >= published.acked
  BY DEF AcknowledgedStays
<1>2. published \in Published /\ published.session \in Sessions /\ published.acked \in Nat
  BY <1>1, IdleIsNone, Bounds DEF SyncInv, MasterInv, PublishedTyped, Published
<1>3. left[published.session] \in Nat
  BY <1>2, Bounds DEF LeftTyped
<1>4. published.acked <= applier.applied
  BY <1>1 DEF AckedInv, AckedHolds
<1>5. /\ applier.applied \in Nat /\ applier.applied <= applier.appliedContent
      /\ applier.appliedContent \in Nat
  BY AppliedIs, Bounds DEF SyncInv, NodeInv, ApplierTyped, Applier
<1>6. applier.applied # None
  BY <1>1, <1>2, <1>3, <1>4, <1>5, Bounds
<1>7. installed = applier.appliedContent
  BY <1>6 DEF AckedInv, RunsForward
<1>. QED
  BY <1>2, <1>4, <1>5, <1>7

\* What the Master takes for acknowledged stays installed on the Node, rekeys and
\* all, unless a late BEGIN of the session before a rekey makes the Node go back to
\* it; and that counts only while the new session has not been activated.
THEOREM AckedStays == SyncSpec => []AcknowledgedStays
<1>1. SyncInv /\ LeftTyped /\ AckedInv /\ [SyncNext]_syncVars => AckedInv'
  BY AckedNext
<1>2. SyncInit => AckedInv
  BY AckedInit
<1>3. SyncSpec => []AckedInv
  BY <1>1, <1>2, SyncAlways, LeftAlways, PTL DEF SyncSpec
<1>4. SyncInv /\ LeftTyped /\ AckedInv => AcknowledgedStays
  BY AckedInvHolds
<1>. QED
  BY <1>3, <1>4, SyncAlways, LeftAlways, PTL

-----------------------------------------------------------------------------
(* EndpointMigration                                                       *)

USE EndpointsAssumption, BoundsAssumption

OfWire == {m \in Messages : m.kind \in {"traffic", "challenge", "response"} /\ m.at \in Endpoints}
OfEvents == {m \in Messages : m.kind \in {"observed", "response"} /\ m.at \in Endpoints}
OfCommands ==
  {m \in Messages : /\ m.kind \in {"challenge", "update", "other"}
                    /\ m.kind # "other" => m.at \in Endpoints}

Types ==
  /\ node \in Endpoints /\ wire \subseteq OfWire
  /\ events \in Seq(OfEvents) /\ Len(events) <= Capacity
  /\ commands \in Seq(OfCommands) /\ Len(commands) <= Capacity
  /\ current \in Endpoints
  /\ candidate \in [endpoint : Endpoints, fresh : BOOLEAN] \cup {NoCandidate}
  /\ candidate_endpoint \in Endpoints \cup {NoEndpoint}
  /\ endpoint \in Endpoints /\ disturbances \in 0..MaxDisturbances
  /\ heardAt \in Endpoints \cup {NoEndpoint}
  /\ candidate # NoCandidate => candidate.endpoint # current

LiveChallenge(m) == m.kind = "challenge" /\ m.live
LiveResponse(m) == m.kind = "response" /\ m.live
Heard ==
  /\ \A m \in wire : LiveResponse(m) => heardAt # NoEndpoint
  /\ \A n \in 1..Len(events) : LiveResponse(events[n]) => heardAt # NoEndpoint
Directed ==
  candidate_endpoint # NoEndpoint =>
    /\ heardAt \in {NoEndpoint, candidate_endpoint}
    /\ \A m \in wire : LiveChallenge(m) => m.at = candidate_endpoint
    /\ \A n \in 1..Len(commands) :
         LiveChallenge(commands[n]) => commands[n].at = candidate_endpoint
Trail == Heard /\ Directed

-----------------------------------------------------------------------------
(* Messages and queues                                                     *)

LEMMA KindsTyped ==
  /\ \A e \in Endpoints, live \in BOOLEAN :
       /\ Traffic(e) \in OfWire /\ Challenge(e, live) \in OfWire
       /\ Response(e, live) \in OfWire /\ Response(e, live) \in OfEvents
       /\ Observed(e) \in OfEvents /\ Challenge(e, live) \in OfCommands
       /\ Update(e) \in OfCommands
  /\ Other \in OfCommands
BY DEF Traffic, Challenge, Response, Observed, Update, Other, Messages,
       OfWire, OfEvents, OfCommands

LEMMA DeadTyped ==
  /\ \A m \in Messages :
       /\ Dead(m) \in Messages /\ Dead(m).kind = m.kind /\ Dead(m).at = m.at
       /\ ~Dead(m).live
  /\ \A m \in OfWire : Dead(m) \in OfWire
  /\ \A m \in OfEvents : Dead(m) \in OfEvents
  /\ \A m \in OfCommands : Dead(m) \in OfCommands
<1>1. \A m \in Messages :
        /\ Dead(m) \in Messages /\ Dead(m).kind = m.kind /\ Dead(m).at = m.at
        /\ ~Dead(m).live
  BY DEF Messages, Dead
<1>. QED
  BY <1>1 DEF OfWire, OfEvents, OfCommands

\* What Supersede does to a queue.
LEMMA DeadQueue ==
  ASSUME NEW S, NEW queue \in Seq(S), S \subseteq Messages,
         \A m \in S : Dead(m) \in S
  PROVE  /\ DeadAll(queue) \in Seq(S) /\ Len(DeadAll(queue)) = Len(queue)
         /\ \A n \in 1..Len(queue) :
              /\ DeadAll(queue)[n].kind = queue[n].kind
              /\ DeadAll(queue)[n].at = queue[n].at
              /\ ~DeadAll(queue)[n].live
<1>1. DOMAIN queue = 1..Len(queue) /\ Len(queue) \in Nat
  OBVIOUS
<1>2. \A n \in 1..Len(queue) : queue[n] \in S
  BY ElementOfSeq
<1>3. DeadAll(queue) = [n \in 1..Len(queue) |-> Dead(queue[n])]
  BY <1>1 DEF DeadAll
<1>4. \A n \in 1..Len(queue) : Dead(queue[n]) \in S
  BY <1>2
<1>5. DeadAll(queue) \in Seq(S) /\ Len(DeadAll(queue)) = Len(queue)
  BY <1>1, <1>3, <1>4
<1>. QED
  BY <1>1, <1>2, <1>3, <1>5, DeadTyped

LEMMA Appended ==
  ASSUME NEW S, NEW queue \in Seq(S), NEW m \in S
  PROVE  /\ Append(queue, m) \in Seq(S) /\ Len(Append(queue, m)) = Len(queue) + 1
         /\ Len(queue) \in Nat
         /\ \A n \in 1..Len(queue) + 1 :
              Append(queue, m)[n] = IF n = Len(queue) + 1 THEN m ELSE queue[n]
OBVIOUS

\* The same of the queue that results.
LEMMA AppendedTo ==
  ASSUME NEW S, NEW queue \in Seq(S), NEW m \in S, NEW q, q = Append(queue, m)
  PROVE  /\ Len(queue) \in Nat /\ Len(q) = Len(queue) + 1
         /\ q[Len(queue) + 1] = m
         /\ \A n \in 1..Len(queue) : q[n] = queue[n]
         /\ \A n \in 1..Len(q) : n = Len(queue) + 1 \/ n \in 1..Len(queue)
OBVIOUS

LEMMA Taken ==
  ASSUME NEW S, NEW queue \in Seq(S), queue # <<>>
  PROVE  /\ Head(queue) \in S /\ Head(queue) = queue[1]
         /\ Tail(queue) \in Seq(S) /\ Len(Tail(queue)) = Len(queue) - 1
         /\ Len(queue) \in Nat \ {0}
         /\ \A n \in 1..Len(queue) - 1 : Tail(queue)[n] = queue[n + 1]
<1>1. Len(queue) \in Nat \ {0}
  BY EmptySeq
<1>. QED
  BY <1>1, HeadTailProperties

\* pushEvent keeps what fits, in order.
LEMMA PushedQueue ==
  ASSUME NEW S, NEW queue \in Seq(S)
  PROVE  /\ Pushed(queue) \in Seq(S)
         /\ Len(Pushed(queue)) <= Capacity /\ Len(Pushed(queue)) <= Len(queue)
         /\ Len(Pushed(queue)) \in Nat
         /\ \A n \in 1..Len(Pushed(queue)) : Pushed(queue)[n] = queue[n]
<1>. DEFINE k == IF Len(queue) < Capacity THEN Len(queue) ELSE Capacity
<1>1. k \in Nat /\ k <= Len(queue) /\ k <= Capacity /\ Len(queue) \in Nat
  OBVIOUS
<1>2. \A i \in 1..k : queue[i] \in S
  BY <1>1, ElementOfSeq
<1>. HIDE DEF k
<1>3. /\ SubSeq(queue, 1, k) \in Seq(S)
      /\ Len(SubSeq(queue, 1, k)) = IF 1 <= k THEN k - 1 + 1 ELSE 0
      /\ \A i \in 1..k - 1 + 1 : SubSeq(queue, 1, k)[i] = queue[1 + i - 1]
  BY <1>1, <1>2, SubSeqProperties
<1>4. Len(SubSeq(queue, 1, k)) = k /\ \A i \in 1..k : SubSeq(queue, 1, k)[i] = queue[i]
  BY <1>1, <1>3
<1>5. Pushed(queue) = SubSeq(queue, 1, k)
  BY DEF Pushed, k
<1>. QED
  BY <1>1, <1>3, <1>4, <1>5

\* A datagram becomes one or two events, of which it may be the second.
LEMMA EventsTyped ==
  ASSUME NEW m \in OfWire, m.kind \in {"traffic", "response"}
  PROVE  /\ EventsOf(m) \in Seq(OfEvents)
         /\ \A n \in 1..Len(EventsOf(m)) :
              LiveResponse(EventsOf(m)[n]) => LiveResponse(m)
         /\ Len(EventsOf(m)) \in {1, 2}
<1>1. m \in Messages /\ m.at \in Endpoints
  BY DEF OfWire
<1>2. Observed(m.at) \in OfEvents /\ ~LiveResponse(Observed(m.at))
  BY <1>1, KindsTyped DEF LiveResponse, Observed
<1>3. CASE m.kind = "traffic"
  BY <1>2, <1>3 DEF EventsOf
<1>4. CASE m.kind = "response"
  <2>1. m \in OfEvents
    BY <1>1, <1>4 DEF OfEvents
  <2>2. EventsOf(m) = <<Observed(m.at), m>>
    BY <1>4 DEF EventsOf
  <2>. QED
    BY <1>2, <2>1, <2>2
<1>. QED
  BY <1>3, <1>4

-----------------------------------------------------------------------------
(* What the steps of the control plane do, in terms of the queues          *)

\* Nothing that was live is live any more.
Killed ==
  /\ wire' = {Dead(m) : m \in wire} /\ heardAt' = NoEndpoint
  /\ events' = DeadAll(Tail(events))

LEMMA KilledTyped ==
  ASSUME Types, events # <<>>, Killed
  PROVE  /\ wire' \subseteq OfWire /\ \A m \in wire' : ~m.live
         /\ events' \in Seq(OfEvents) /\ Len(events') <= Capacity
         /\ \A n \in 1..Len(events') : ~events'[n].live
<1>1. wire' \subseteq OfWire /\ \A m \in wire' : ~m.live
  BY DeadTyped DEF Killed, Types, OfWire
<1>2. Tail(events) \in Seq(OfEvents) /\ Len(Tail(events)) = Len(events) - 1
      /\ Len(events) \in Nat
  BY Taken DEF Types
<1>3. OfEvents \subseteq Messages
  BY DEF OfEvents
<1>4. /\ DeadAll(Tail(events)) \in Seq(OfEvents)
      /\ Len(DeadAll(Tail(events))) = Len(Tail(events))
      /\ \A n \in 1..Len(Tail(events)) : ~DeadAll(Tail(events))[n].live
  BY <1>2, <1>3, DeadTyped, DeadQueue
<1>. QED
  BY <1>1, <1>2, <1>4 DEF Killed, Types

LEMMA CommandsKilled ==
  ASSUME Types
  PROVE  /\ DeadAll(commands) \in Seq(OfCommands) /\ Len(DeadAll(commands)) = Len(commands)
         /\ \A n \in 1..Len(commands) :
              /\ DeadAll(commands)[n].kind = commands[n].kind
              /\ DeadAll(commands)[n].at = commands[n].at
              /\ ~DeadAll(commands)[n].live
<1>1. OfCommands \subseteq Messages
  BY DEF OfCommands
<1>. QED
  BY <1>1, DeadTyped, DeadQueue DEF Types

\* The event at hand.
LEMMA AtHand ==
  ASSUME Types, events # <<>>
  PROVE  /\ Head(events) = events[1] /\ 1 \in 1..Len(events)
         /\ Head(events).kind \in {"observed", "response"}
         /\ Head(events).at \in Endpoints /\ Head(events).live \in BOOLEAN
<1>1. Head(events) \in OfEvents /\ Head(events) = events[1] /\ Len(events) \in Nat \ {0}
  BY Taken DEF Types
<1>. QED
  BY <1>1 DEF OfEvents, Messages

\* onEvent, one alternative for each way through it.
Staged(e) ==
  /\ Refreshes(e) /\ Killed /\ UNCHANGED current
  /\ candidate' = [endpoint |-> e, fresh |-> TRUE]
  /\ \/ /\ Len(commands) < Capacity /\ candidate_endpoint' = e
        /\ commands' = Append(DeadAll(commands), Challenge(e, TRUE))
     \/ commands' = DeadAll(commands) /\ UNCHANGED candidate_endpoint
Accepted(e) ==
  /\ Head(events) = Response(e, TRUE) /\ responseValid(e, TRUE)
  /\ Accept(e)
LEMMA WaysOfOnEvent ==
  ASSUME Types, onEvent
  PROVE  /\ events # <<>> /\ UNCHANGED <<node, endpoint, disturbances>>
         /\ \/ \E e \in Endpoints : Staged(e)
            \/ \E e \in Endpoints : Accepted(e)
            \/ Ignore
<1>. DEFINE m == Head(events)
<1>1. events # <<>> /\ UNCHANGED <<node, endpoint, disturbances>>
  BY DEF onEvent
<1>2. m.at \in Endpoints /\ m.live \in BOOLEAN /\ m.kind \in {"observed", "response"}
      /\ m \in Messages
  BY <1>1, AtHand, Taken DEF Types, OfEvents
<1>3. \/ m.kind = "observed" /\ Observe(m.at)
      \/ m.kind = "response" /\ responseValid(m.at, m.live) /\ Accept(m.at)
      \/ Ignore
  BY DEF onEvent
<1>4. CASE m.kind = "observed" /\ Observe(m.at)
  <2>1. CASE Refreshes(m.at)
    <3>1. Staged(m.at)
      BY <1>4, <2>1 DEF Observe, Supersede, Killed, Staged
    <3>. QED
      BY <1>1, <1>2, <3>1
  <2>2. CASE ~Refreshes(m.at)
    BY <1>1, <1>4, <2>2 DEF Observe, Ignore
  <2>. QED
    BY <1>1, <1>2, <2>1, <2>2
<1>5. CASE m.kind = "response" /\ responseValid(m.at, m.live) /\ Accept(m.at)
  <2>1. m.live = TRUE
    BY <1>2, <1>5 DEF responseValid
  <2>2. m = Response(m.at, TRUE)
    BY <1>2, <1>5, <2>1 DEF Response, Messages
  <2>. QED
    BY <1>1, <1>2, <1>5, <2>1, <2>2 DEF Accepted
<1>. QED
  BY <1>1, <1>3, <1>4, <1>5

-----------------------------------------------------------------------------
(* Types                                                                   *)

LEMMA TypesFirst == Init => Types
BY DEF Init, Types, NoCandidate

LEMMA TypesOnEvent == Types /\ onEvent => Types'
<1>. SUFFICES ASSUME Types, onEvent PROVE Types'
  OBVIOUS
<1>1. events # <<>> /\ UNCHANGED <<node, endpoint, disturbances>>
  BY WaysOfOnEvent
<1>2. Len(commands) \in Nat
  BY DEF Types
<1>3. CASE \E e \in Endpoints : Staged(e)
  <2>1. PICK e \in Endpoints : Staged(e)
    BY <1>3
  <2>2. e # current
    BY <2>1 DEF Staged, Refreshes
  <2>3. candidate' = [endpoint |-> e, fresh |-> TRUE] /\ current' = current
        /\ heardAt' = NoEndpoint /\ candidate_endpoint' \in {e, candidate_endpoint}
    BY <2>1 DEF Staged, Killed
  <2>4. Challenge(e, TRUE) \in OfCommands
    BY KindsTyped
  <2>5. commands' \in Seq(OfCommands) /\ Len(commands') <= Capacity
    <3>1. CASE commands' = DeadAll(commands)
      BY <3>1, CommandsKilled DEF Types
    <3>2. CASE Len(commands) < Capacity
               /\ commands' = Append(DeadAll(commands), Challenge(e, TRUE))
      <4>1. commands' \in Seq(OfCommands) /\ Len(commands') = Len(DeadAll(commands)) + 1
        BY <2>4, <3>2, CommandsKilled, Appended
      <4>2. Len(DeadAll(commands)) = Len(commands)
        BY CommandsKilled
      <4>3. Len(commands) < Capacity
        BY <3>2
      <4>. QED
        BY <1>2, <4>1, <4>2, <4>3
    <3>. QED
      BY <2>1, <3>1, <3>2 DEF Staged
  <2>6. Killed
    BY <2>1 DEF Staged
  <2>. QED
    BY <1>1, <2>2, <2>3, <2>5, <2>6, KilledTyped DEF Types
<1>4. CASE \E e \in Endpoints : Accepted(e)
  <2>1. PICK e \in Endpoints : Accepted(e)
    BY <1>4
  <2>2. Killed /\ candidate' = NoCandidate /\ current' = e
        /\ heardAt' = NoEndpoint /\ candidate_endpoint' = NoEndpoint
        /\ Len(commands) < Capacity /\ commands' = Append(DeadAll(commands), Update(e))
    BY <2>1 DEF Accepted, Accept, SubmitUpdate, Supersede, Killed
  <2>3. Update(e) \in OfCommands
    BY KindsTyped
  <2>4. commands' \in Seq(OfCommands) /\ Len(commands') <= Capacity
    BY <1>2, <2>2, <2>3, CommandsKilled, Appended
  <2>. QED
    BY <1>1, <2>2, <2>4, KilledTyped DEF Types
<1>5. CASE Ignore
  BY <1>1, <1>5, Taken DEF Ignore, Types
<1>. QED
  BY <1>3, <1>4, <1>5, WaysOfOnEvent

LEMMA TypesTick == Types /\ tickPathChallenge => Types'
<1>. SUFFICES ASSUME Types, tickPathChallenge PROVE Types'
  OBVIOUS
<1>1. CASE ForgetExpired
  BY <1>1 DEF tickPathChallenge, ForgetExpired, Types
<1>2. CASE Retransmit
  <2>1. candidate_endpoint \in Endpoints
    BY <1>2 DEF Retransmit, Types
  <2>2. Challenge(candidate_endpoint, TRUE) \in OfCommands
    BY <2>1, KindsTyped
  <2>3. commands' \in Seq(OfCommands) /\ Len(commands') <= Capacity
    <3>0. Len(commands) < Capacity
      BY <1>2 DEF Retransmit
    <3>1. commands' = Append(commands, Challenge(candidate_endpoint, TRUE))
      BY <1>2 DEF Retransmit
    <3>2. commands \in Seq(OfCommands)
      BY DEF Types
    <3>3. commands' \in Seq(OfCommands) /\ Len(commands') = Len(commands) + 1
          /\ Len(commands) \in Nat
      BY <2>2, <3>1, <3>2, Appended
    <3>. QED
      BY <3>0, <3>3
  <2>. QED
    BY <1>2, <2>3 DEF tickPathChallenge, Retransmit, Types
<1>. QED
  BY <1>1, <1>2 DEF tickPathChallenge

LEMMA TypesExecute == Types /\ Execute => Types'
<1>. SUFFICES ASSUME Types, Execute PROVE Types'
  OBVIOUS
<1>1. /\ Head(commands) \in OfCommands
      /\ commands' \in Seq(OfCommands) /\ Len(commands') <= Capacity
  BY Taken DEF Execute, Types
<1>2. Head(commands).kind = "update" => Head(commands).at \in Endpoints
  BY <1>1 DEF OfCommands
<1>3. Head(commands).kind = "challenge" => Head(commands) \in OfWire
  BY <1>1 DEF OfCommands, OfWire
<1>. QED
  BY <1>1, <1>2, <1>3 DEF Execute, Types, peerVars

LEMMA TypesHandleUdp == \A m : Types /\ m \in wire /\ handleUdp(m) => Types'
<1>. SUFFICES ASSUME NEW m \in wire, Types, handleUdp(m) PROVE Types'
  BY DEF Types
<1>1. m \in OfWire /\ m.kind \in {"traffic", "response"}
  BY DEF handleUdp, Types
<1>2. EventsOf(m) \in Seq(OfEvents)
  BY <1>1, EventsTyped
<1>3. events \o EventsOf(m) \in Seq(OfEvents)
  BY <1>2, ConcatProperties DEF Types
<1>4. Pushed(events \o EventsOf(m)) \in Seq(OfEvents)
      /\ Len(Pushed(events \o EventsOf(m))) <= Capacity
  BY <1>3, PushedQueue
<1>5. disturbances' \in 0..MaxDisturbances
  BY DEF handleUdp, Disturbance, Types
<1>. QED
  BY <1>4, <1>5 DEF handleUdp, Types, peerVars

LEMMA TypesHear == \A m : Types /\ m \in wire /\ Hear(m) => Types'
<1>. SUFFICES ASSUME NEW m \in wire, Types, Hear(m) PROVE Types'
  BY DEF Types
<1>1. m \in OfWire /\ m.live \in BOOLEAN
  BY DEF Types, OfWire, Messages
<1>2. node' \in Endpoints /\ disturbances' \in 0..MaxDisturbances
  BY DEF Hear, Moves, Disturbance, Types
<1>3. Response(node', m.live) \in OfWire
  BY <1>1, <1>2, KindsTyped
<1>. QED
  BY <1>1, <1>2, <1>3 DEF Hear, Types, peerVars

LEMMA TypesStep == Types /\ [Next]_vars => Types'
<1>. SUFFICES ASSUME Types, [Next]_vars PROVE Types'
  OBVIOUS
<1>1. CASE SendTraffic
  BY <1>1, KindsTyped DEF SendTraffic, Types, peerVars
<1>2. CASE Move
  BY <1>2 DEF Move, Moves, Disturbance, Types, peerVars
<1>3. CASE Lose
  BY <1>3 DEF Lose, Disturbance, Types, peerVars
<1>4. CASE Burst
  <2>1. commands' \in Seq(OfCommands) /\ Len(commands') <= Capacity
    BY <1>4, KindsTyped, Appended DEF Burst, Types
  <2>. QED
    BY <1>4, <2>1 DEF Burst, Disturbance, Types, peerVars
<1>5. CASE Expire
  <2>1. candidate' \in [endpoint : Endpoints, fresh : BOOLEAN] \cup {NoCandidate}
        /\ candidate'.endpoint = candidate.endpoint
        /\ (candidate' # NoCandidate => candidate # NoCandidate)
    <3>1. candidate # NoCandidate
      BY <1>5 DEF Expire, NoCandidate
    <3>2. candidate \in [endpoint : Endpoints, fresh : BOOLEAN]
      BY <3>1 DEF Types
    <3>. QED
      BY <1>5, <3>1, <3>2 DEF Expire
  <2>2. disturbances' \in 0..MaxDisturbances
    BY <1>5 DEF Expire, Disturbance, Types
  <2>. QED
    BY <1>5, <2>1, <2>2 DEF Expire, Types
<1>6. CASE UNCHANGED vars
  BY <1>6 DEF vars, Types, peerVars
<1>. QED
  BY <1>1, <1>2, <1>3, <1>4, <1>5, <1>6, TypesOnEvent, TypesTick, TypesExecute,
     TypesHandleUdp, TypesHear DEF Next

LEMMA TypesAreEnough == Types => TypeOK
<1>. SUFFICES ASSUME Types PROVE TypeOK
  OBVIOUS
<1>1. OfWire \subseteq Messages /\ OfEvents \subseteq Messages /\ OfCommands \subseteq Messages
  BY DEF OfWire, OfEvents, OfCommands
<1>2. events \in Seq(Messages) /\ commands \in Seq(Messages)
  BY <1>1, SeqMonotonic DEF Types
<1>. QED
  BY <1>1, <1>2 DEF Types, TypeOK

-----------------------------------------------------------------------------
(* Trail                                                                   *)

LEMMA TrailFirst == Init => Trail
BY DEF Init, Trail, Heard, Directed

LEMMA TrailOnEvent == Types /\ Trail /\ onEvent => Trail'
<1>. SUFFICES ASSUME Types, Trail, onEvent PROVE Trail'
  OBVIOUS
<1>1. events # <<>>
  BY WaysOfOnEvent
<1>2. ASSUME Killed PROVE /\ Heard' /\ heardAt' = NoEndpoint
                          /\ \A m \in wire' : ~LiveChallenge(m)
  BY <1>1, <1>2, KilledTyped DEF Heard, Killed, LiveResponse, LiveChallenge
<1>3. CASE \E e \in Endpoints : Staged(e)
  <2>1. PICK e \in Endpoints : Staged(e)
    BY <1>3
  <2>2. Killed
    BY <2>1 DEF Staged
  <2>3. CASE commands' = DeadAll(commands)
    <3>1. \A n \in 1..Len(commands') : ~LiveChallenge(commands'[n])
      BY <2>3, CommandsKilled DEF LiveChallenge
    <3>. QED
      BY <1>2, <2>2, <3>1 DEF Trail, Directed
  <2>4. CASE /\ candidate_endpoint' = e
             /\ commands' = Append(DeadAll(commands), Challenge(e, TRUE))
    <3>1. Challenge(e, TRUE) \in OfCommands /\ Challenge(e, TRUE).at = e
      BY KindsTyped DEF Challenge
    <3>2. \A n \in 1..Len(commands') :
            LiveChallenge(commands'[n]) => commands'[n].at = e
      <4>1. /\ commands'[Len(commands) + 1] = Challenge(e, TRUE)
            /\ \A n \in 1..Len(commands) : commands'[n] = DeadAll(commands)[n]
            /\ \A n \in 1..Len(commands') : n = Len(commands) + 1 \/ n \in 1..Len(commands)
        <5>1. DeadAll(commands) \in Seq(OfCommands) /\ Len(DeadAll(commands)) = Len(commands)
          BY CommandsKilled
        <5>2. commands' = Append(DeadAll(commands), Challenge(e, TRUE))
          BY <2>4
        <5>. DEFINE c == Challenge(e, TRUE)
                    queue == DeadAll(commands)
        <5>3. c \in OfCommands /\ commands' = Append(queue, c) /\ queue \in Seq(OfCommands)
              /\ Len(queue) = Len(commands)
          BY <3>1, <5>1, <5>2
        <5>. HIDE DEF c, queue
        <5>4. /\ commands'[Len(queue) + 1] = c
              /\ \A n \in 1..Len(queue) : commands'[n] = queue[n]
              /\ \A n \in 1..Len(commands') : n = Len(queue) + 1 \/ n \in 1..Len(queue)
          BY <5>3, AppendedTo
        <5>. QED
          BY <5>3, <5>4 DEF c, queue
      <4>2. \A n \in 1..Len(commands) : ~LiveChallenge(DeadAll(commands)[n])
        BY CommandsKilled DEF LiveChallenge
      <4>. QED
        BY <3>1, <4>1, <4>2
    <3>3. candidate_endpoint' = e
      BY <2>4
    <3>. QED
      BY <1>2, <2>2, <3>2, <3>3 DEF Trail, Directed
  <2>. QED
    BY <2>1, <2>3, <2>4 DEF Staged
<1>4. CASE \E e \in Endpoints : Accepted(e)
  <2>1. Killed /\ candidate_endpoint' = NoEndpoint
    BY <1>4 DEF Accepted, Accept, Supersede, Killed
  <2>. QED
    BY <1>2, <2>1 DEF Trail, Directed
<1>5. CASE Ignore
  <2>1. /\ Len(events') = Len(events) - 1 /\ Len(events) \in Nat
        /\ \A n \in 1..Len(events) - 1 : events'[n] = events[n + 1]
    BY <1>1, <1>5, Taken DEF Ignore, Types
  <2>2. \A n \in 1..Len(events') : LiveResponse(events'[n]) => heardAt # NoEndpoint
    BY <2>1 DEF Trail, Heard
  <2>. QED
    BY <1>5, <2>2 DEF Ignore, Trail, Heard, Directed
<1>. QED
  BY <1>3, <1>4, <1>5, WaysOfOnEvent

LEMMA TrailTick == Types /\ Trail /\ tickPathChallenge => Trail'
<1>. SUFFICES ASSUME Types, Trail, tickPathChallenge PROVE Trail'
  OBVIOUS
<1>1. UNCHANGED <<wire, events, heardAt>>
  BY DEF tickPathChallenge
<1>2. CASE ForgetExpired
  BY <1>1, <1>2 DEF ForgetExpired, Trail, Heard, Directed
<1>3. CASE Retransmit
  <2>1. candidate_endpoint \in Endpoints /\ candidate_endpoint' = candidate_endpoint
    BY <1>3 DEF Retransmit, Types
  <2>2. /\ Challenge(candidate_endpoint, TRUE) \in OfCommands
        /\ Challenge(candidate_endpoint, TRUE).at = candidate_endpoint
    BY <2>1, KindsTyped DEF Challenge
  <2>3. commands' = Append(commands, Challenge(candidate_endpoint, TRUE))
    BY <1>3 DEF Retransmit
  <2>4. commands \in Seq(OfCommands)
    BY DEF Types
  <2>5. \A n \in 1..Len(commands') :
          LiveChallenge(commands'[n]) => commands'[n].at = candidate_endpoint
    <3>1. /\ commands'[Len(commands) + 1] = Challenge(candidate_endpoint, TRUE)
          /\ \A n \in 1..Len(commands) : commands'[n] = commands[n]
          /\ \A n \in 1..Len(commands') : n = Len(commands) + 1 \/ n \in 1..Len(commands)
      <4>. DEFINE c == Challenge(candidate_endpoint, TRUE)
      <4>1. c \in OfCommands /\ commands' = Append(commands, c)
        BY <2>2, <2>3
      <4>. HIDE DEF c
      <4>2. /\ commands'[Len(commands) + 1] = c
            /\ \A n \in 1..Len(commands) : commands'[n] = commands[n]
            /\ \A n \in 1..Len(commands') : n = Len(commands) + 1 \/ n \in 1..Len(commands)
        BY <2>4, <4>1, AppendedTo
      <4>. QED
        BY <4>2 DEF c
    <3>. QED
      BY <2>1, <2>2, <3>1 DEF Trail, Directed
  <2>. QED
    BY <1>1, <2>1, <2>5 DEF Trail, Heard, Directed
<1>. QED
  BY <1>2, <1>3 DEF tickPathChallenge

LEMMA TrailExecute == Types /\ Trail /\ Execute => Trail'
<1>. SUFFICES ASSUME Types, Trail, Execute PROVE Trail'
  OBVIOUS
<1>1. UNCHANGED <<events, candidate_endpoint, heardAt>>
  BY DEF Execute, peerVars
<1>2. /\ Len(commands') = Len(commands) - 1 /\ Len(commands) \in Nat \ {0}
      /\ \A n \in 1..Len(commands) - 1 : commands'[n] = commands[n + 1]
      /\ Head(commands) = commands[1]
  BY Taken DEF Execute, Types
<1>3. \A m \in wire' : m \in wire \/ (m = commands[1] /\ m.kind = "challenge")
  BY <1>2 DEF Execute
<1>4. Heard'
  BY <1>1, <1>3 DEF Trail, Heard, LiveResponse
<1>5. \A n \in 1..Len(commands') : \E k \in 1..Len(commands) : commands'[n] = commands[k]
  BY <1>2
<1>6. 1 \in 1..Len(commands)
  BY <1>2
<1>7. Directed'
  BY <1>1, <1>3, <1>5, <1>6 DEF Trail, Directed
<1>. QED
  BY <1>4, <1>7 DEF Trail

LEMMA TrailHandleUdp == \A m : Types /\ Trail /\ m \in wire /\ handleUdp(m) => Trail'
<1>. SUFFICES ASSUME NEW m \in wire, Types, Trail, handleUdp(m) PROVE Trail'
  BY DEF Types
<1>. DEFINE q == events \o EventsOf(m)
<1>1. m \in OfWire /\ m.kind \in {"traffic", "response"}
  BY DEF handleUdp, Types
<1>2. /\ EventsOf(m) \in Seq(OfEvents)
      /\ \A n \in 1..Len(EventsOf(m)) : LiveResponse(EventsOf(m)[n]) => LiveResponse(m)
  BY <1>1, EventsTyped
<1>3. /\ q \in Seq(OfEvents) /\ Len(q) = Len(events) + Len(EventsOf(m))
      /\ Len(events) \in Nat /\ Len(EventsOf(m)) \in Nat
      /\ \A n \in 1..Len(q) :
           q[n] = IF n <= Len(events) THEN events[n] ELSE EventsOf(m)[n - Len(events)]
  BY <1>2, ConcatProperties DEF Types
<1>4. \A n \in 1..Len(q) : LiveResponse(q[n]) => heardAt # NoEndpoint
  <2>1. TAKE n \in 1..Len(q)
  <2>2. CASE n <= Len(events)
    BY <1>3, <2>2 DEF Trail, Heard
  <2>3. CASE n > Len(events)
    <3>1. n - Len(events) \in 1..Len(EventsOf(m)) /\ q[n] = EventsOf(m)[n - Len(events)]
      BY <1>3, <2>3
    <3>2. LiveResponse(q[n]) => LiveResponse(m)
      BY <1>2, <3>1
    <3>. QED
      BY <3>2 DEF Trail, Heard
  <2>. QED
    BY <1>3, <2>2, <2>3
<1>. HIDE DEF q
<1>5. events' = Pushed(q)
  BY DEF handleUdp, q
<1>6. /\ Len(events') <= Len(q) /\ Len(events') \in Nat
      /\ \A n \in 1..Len(events') : events'[n] = q[n]
  BY <1>3, <1>5, PushedQueue
<1>7. \A n \in 1..Len(events') : LiveResponse(events'[n]) => heardAt # NoEndpoint
  BY <1>3, <1>4, <1>6
<1>8. wire' \subseteq wire /\ UNCHANGED <<commands, candidate_endpoint, heardAt>>
  BY DEF handleUdp, peerVars
<1>. QED
  BY <1>7, <1>8 DEF Trail, Heard, Directed

LEMMA TrailHear == \A m : Types /\ Trail /\ m \in wire /\ Hear(m) => Trail'
<1>. SUFFICES ASSUME NEW m \in wire, Types, Trail, Hear(m) PROVE Trail'
  BY DEF Types
<1>1. UNCHANGED <<events, commands, candidate_endpoint>> /\ m.kind = "challenge"
  BY DEF Hear, peerVars
<1>2. m.at \in Endpoints /\ node \in Endpoints /\ m.live \in BOOLEAN
  BY DEF Types, OfWire, Messages
<1>3. CASE m.at # node
  <2>1. wire' \subseteq wire /\ heardAt' = heardAt
    BY <1>3 DEF Hear
  <2>. QED
    BY <1>1, <2>1 DEF Trail, Heard, Directed
<1>4. CASE m.at = node
  <2>1. /\ wire' = (wire \ {m}) \cup {Response(node', m.live)}
        /\ heardAt' = IF m.live THEN node ELSE heardAt
    BY <1>4 DEF Hear
  <2>2. /\ LiveResponse(Response(node', m.live)) => m.live
        /\ ~LiveChallenge(Response(node', m.live))
    BY DEF LiveResponse, LiveChallenge, Response
  <2>3. m.live => heardAt' # NoEndpoint
    BY <1>2, <2>1
  <2>4. heardAt # NoEndpoint => heardAt' # NoEndpoint
    BY <1>2, <2>1
  <2>5. Heard'
    BY <1>1, <2>1, <2>2, <2>3, <2>4 DEF Trail, Heard
  <2>6. candidate_endpoint # NoEndpoint /\ m.live => node = candidate_endpoint
    BY <1>1, <1>4 DEF Trail, Directed, LiveChallenge
  <2>7. Directed'
    BY <1>1, <2>1, <2>2, <2>6 DEF Trail, Directed
  <2>. QED
    BY <2>5, <2>7 DEF Trail
<1>. QED
  BY <1>3, <1>4

LEMMA TrailStep == Types /\ Trail /\ [Next]_vars => Trail'
<1>. SUFFICES ASSUME Types, Trail, [Next]_vars PROVE Trail'
  OBVIOUS
<1>1. CASE SendTraffic
  BY <1>1 DEF SendTraffic, Traffic, Trail, Heard, Directed, LiveResponse, LiveChallenge, peerVars
<1>2. CASE Move \/ Expire \/ UNCHANGED vars
  BY <1>2 DEF Move, Expire, vars, Trail, Heard, Directed, peerVars
<1>3. CASE Lose
  BY <1>3 DEF Lose, Trail, Heard, Directed, peerVars
<1>4. CASE Burst
  <2>1. commands \in Seq(OfCommands) /\ Other \in OfCommands /\ ~LiveChallenge(Other)
    BY KindsTyped DEF Types, Other, LiveChallenge
  <2>2. commands' = Append(commands, Other)
        /\ UNCHANGED <<wire, events, candidate_endpoint, heardAt>>
    BY <1>4 DEF Burst, peerVars
  <2>3. \A n \in 1..Len(commands') :
          LiveChallenge(commands'[n]) => \E k \in 1..Len(commands) : commands'[n] = commands[k]
    BY <2>1, <2>2, Appended
  <2>. QED
    BY <2>2, <2>3 DEF Trail, Heard, Directed
<1>. QED
  BY <1>1, <1>2, <1>3, <1>4, TrailOnEvent, TrailTick, TrailExecute, TrailHandleUdp,
     TrailHear DEF Next

-----------------------------------------------------------------------------
(* Agreement of the two threads on the endpoint                            *)

IsUpdate(queue, n) == queue[n].kind = "update"
LastUpdate(queue, n) ==
  /\ n \in 1..Len(queue) /\ IsUpdate(queue, n)
  /\ \A k \in 1..Len(queue) : IsUpdate(queue, k) => k <= n
NoUpdate(queue) == \A n \in 1..Len(queue) : ~IsUpdate(queue, n)
Agreement ==
  \/ NoUpdate(commands) /\ endpoint = current
  \/ \E n \in 1..Len(commands) : LastUpdate(commands, n) /\ commands[n].at = current

LEMMA AgreementIsIt == Types => (Agreement <=> EndpointsAgree)
<1>. SUFFICES ASSUME Types PROVE Agreement <=> EndpointsAgree
  OBVIOUS
<1>1. DOMAIN commands = 1..Len(commands) /\ Len(commands) \in Nat
  BY DEF Types
<1>2. Updates = {n \in 1..Len(commands) : IsUpdate(commands, n)}
  BY <1>1 DEF Updates, IsUpdate
<1>3. Updates = {} <=> NoUpdate(commands)
  BY <1>2 DEF NoUpdate
<1>4. \A n : LastUpdate(commands, n) <=> n \in Updates /\ \A k \in Updates : k <= n
  BY <1>2 DEF LastUpdate
<1>5. \A n : LastUpdate(commands, n) => n \in 1..Len(commands) /\ ~NoUpdate(commands)
  BY DEF LastUpdate, NoUpdate
<1>. QED
  BY <1>3, <1>4, <1>5 DEF Agreement, EndpointsAgree

\* A queue with the same kinds and endpoints agrees as before; so does one that
\* ends with another command.
LEMMA SameAgreement ==
  ASSUME Agreement, UNCHANGED <<endpoint, current>>, Len(commands) \in Nat,
         Len(commands') = Len(commands),
         \A n \in 1..Len(commands) : /\ commands'[n].kind = commands[n].kind
                                    /\ commands'[n].at = commands[n].at
  PROVE  Agreement'
BY DEF Agreement, NoUpdate, LastUpdate, IsUpdate

LEMMA LongerAgreement ==
  ASSUME Agreement, UNCHANGED <<endpoint, current>>, Len(commands) \in Nat,
         Len(commands') = Len(commands) + 1,
         commands'[Len(commands) + 1].kind # "update",
         \A n \in 1..Len(commands) : /\ commands'[n].kind = commands[n].kind
                                    /\ commands'[n].at = commands[n].at
  PROVE  Agreement'
<1>1. CASE NoUpdate(commands) /\ endpoint = current
  <2>1. NoUpdate(commands')
    BY <1>1 DEF NoUpdate, IsUpdate
  <2>. QED
    BY <1>1, <2>1 DEF Agreement
<1>2. CASE \E n \in 1..Len(commands) : LastUpdate(commands, n) /\ commands[n].at = current
  <2>1. PICK n \in 1..Len(commands) : LastUpdate(commands, n) /\ commands[n].at = current
    BY <1>2
  <2>2. n \in 1..Len(commands') /\ LastUpdate(commands', n)
    BY <2>1 DEF LastUpdate, IsUpdate
  <2>. QED
    BY <2>1, <2>2 DEF Agreement
<1>. QED
  BY <1>1, <1>2 DEF Agreement

\* What the other thread takes is in force from then on.
LEMMA AgreementExecute == Types /\ Agreement /\ Execute => Agreement'
<1>. SUFFICES ASSUME Types, Agreement, Execute PROVE Agreement'
  OBVIOUS
<1>1. /\ Len(commands') = Len(commands) - 1 /\ Len(commands) \in Nat \ {0}
      /\ \A n \in 1..Len(commands) - 1 : commands'[n] = commands[n + 1]
      /\ Head(commands) = commands[1]
  BY Taken DEF Execute, Types
<1>2. current' = current
  BY DEF Execute, peerVars
<1>3. endpoint' = IF IsUpdate(commands, 1) THEN commands[1].at ELSE endpoint
  BY <1>1 DEF Execute, IsUpdate
<1>4. CASE NoUpdate(commands) /\ endpoint = current
  <2>1. NoUpdate(commands') /\ endpoint' = endpoint
    BY <1>1, <1>3, <1>4 DEF NoUpdate, IsUpdate
  <2>. QED
    BY <1>2, <1>4, <2>1 DEF Agreement
<1>5. CASE \E n \in 1..Len(commands) : LastUpdate(commands, n) /\ commands[n].at = current
  <2>1. PICK n \in 1..Len(commands) : LastUpdate(commands, n) /\ commands[n].at = current
    BY <1>5
  <2>2. CASE n = 1
    <3>1. endpoint' = current
      BY <1>3, <2>1, <2>2 DEF LastUpdate
    <3>2. NoUpdate(commands')
      BY <1>1, <2>1, <2>2 DEF NoUpdate, LastUpdate, IsUpdate
    <3>. QED
      BY <1>2, <3>1, <3>2 DEF Agreement
  <2>3. CASE n # 1
    <3>1. /\ n - 1 \in 1..Len(commands') /\ IsUpdate(commands', n - 1)
          /\ commands'[n - 1].at = current
      BY <1>1, <2>1, <2>3 DEF LastUpdate, IsUpdate
    <3>2. ASSUME NEW k \in 1..Len(commands'), IsUpdate(commands', k)
          PROVE  k <= n - 1
      <4>1. k + 1 \in 1..Len(commands) /\ IsUpdate(commands, k + 1)
        BY <1>1, <3>2 DEF IsUpdate
      <4>. QED
        BY <2>1, <4>1 DEF LastUpdate
    <3>3. LastUpdate(commands', n - 1)
      BY <3>1, <3>2 DEF LastUpdate
    <3>. QED
      BY <1>2, <3>1, <3>3 DEF Agreement
  <2>. QED
    BY <2>2, <2>3
<1>. QED
  BY <1>4, <1>5 DEF Agreement

LEMMA AgreementOnEvent == Types /\ Agreement /\ onEvent => Agreement'
<1>. SUFFICES ASSUME Types, Agreement, onEvent PROVE Agreement'
  OBVIOUS
<1>. DEFINE queue == DeadAll(commands)
<1>1. endpoint' = endpoint /\ Len(commands) \in Nat
  BY WaysOfOnEvent DEF Types
<1>2. /\ queue \in Seq(OfCommands) /\ Len(queue) = Len(commands)
      /\ \A n \in 1..Len(commands) :
           queue[n].kind = commands[n].kind /\ queue[n].at = commands[n].at
  BY CommandsKilled
<1>. HIDE DEF queue
<1>3. ASSUME NEW e \in Endpoints, Staged(e) PROVE Agreement'
  <2>1. current' = current
    BY <1>3 DEF Staged
  <2>2. CASE commands' = queue
    BY <1>1, <1>2, <2>1, <2>2, SameAgreement
  <2>3. CASE commands' = Append(queue, Challenge(e, TRUE))
    <3>. DEFINE c == Challenge(e, TRUE)
    <3>1. c \in OfCommands /\ c.kind # "update" /\ commands' = Append(queue, c)
      BY <2>3, KindsTyped DEF Challenge
    <3>. HIDE DEF c
    <3>2. /\ Len(commands') = Len(queue) + 1 /\ commands'[Len(queue) + 1] = c
          /\ \A n \in 1..Len(queue) : commands'[n] = queue[n]
      BY <1>2, <3>1, AppendedTo
    <3>3. /\ Len(commands') = Len(commands) + 1
          /\ commands'[Len(commands) + 1].kind # "update"
          /\ \A n \in 1..Len(commands) : /\ commands'[n].kind = commands[n].kind
                                         /\ commands'[n].at = commands[n].at
      BY <1>2, <3>1, <3>2
    <3>. QED
      BY <1>1, <2>1, <3>3, LongerAgreement
  <2>. QED
    BY <1>3, <2>2, <2>3 DEF Staged, queue
<1>4. ASSUME NEW e \in Endpoints, Accepted(e) PROVE Agreement'
  <2>. DEFINE c == Update(e)
  <2>1. /\ c \in OfCommands /\ c.kind = "update" /\ c.at = e
        /\ commands' = Append(queue, c) /\ current' = e
    BY <1>4, KindsTyped DEF Accepted, Accept, SubmitUpdate, Update, queue
  <2>. HIDE DEF c
  <2>2. /\ Len(commands') = Len(queue) + 1 /\ commands'[Len(queue) + 1] = c
    BY <1>2, <2>1, AppendedTo
  <2>3. LastUpdate(commands', Len(commands'))
    BY <1>1, <1>2, <2>1, <2>2 DEF LastUpdate, IsUpdate
  <2>4. Len(commands') \in 1..Len(commands') /\ commands'[Len(commands')].at = current'
    BY <1>1, <1>2, <2>1, <2>2
  <2>. QED
    BY <2>3, <2>4 DEF Agreement
<1>5. CASE Ignore
  BY <1>1, <1>5 DEF Ignore, Agreement
<1>. QED
  BY <1>3, <1>4, <1>5, WaysOfOnEvent

LEMMA AgreementStep == Types /\ Agreement /\ [Next]_vars => Agreement'
<1>. SUFFICES ASSUME Types, Agreement, [Next]_vars PROVE Agreement'
  OBVIOUS
<1>1. CASE \/ SendTraffic \/ Move \/ Lose \/ Expire \/ UNCHANGED vars
           \/ \E m \in wire : handleUdp(m) \/ Hear(m)
  <2>1. UNCHANGED <<commands, endpoint, current>>
    BY <1>1 DEF SendTraffic, Move, Lose, Expire, vars, handleUdp, Hear, peerVars
  <2>. QED
    BY <2>1 DEF Agreement
<1>2. ASSUME NEW c \in OfCommands, c.kind # "update", commands' = Append(commands, c),
             UNCHANGED <<endpoint, current>>
      PROVE  Agreement'
  <2>1. commands \in Seq(OfCommands)
    BY DEF Types
  <2>2. /\ Len(commands') = Len(commands) + 1 /\ commands'[Len(commands) + 1] = c
        /\ \A n \in 1..Len(commands) : commands'[n] = commands[n]
        /\ Len(commands) \in Nat
    BY <1>2, <2>1, AppendedTo
  <2>. QED
    BY <1>2, <2>2, LongerAgreement
<1>3. CASE tickPathChallenge
  <2>1. endpoint' = endpoint /\ current' = current
    BY <1>3 DEF tickPathChallenge
  <2>2. CASE ForgetExpired
    BY <2>1, <2>2 DEF ForgetExpired, Agreement
  <2>3. CASE Retransmit
    <3>1. candidate_endpoint \in Endpoints
      BY <2>3 DEF Retransmit, Types
    <3>2. /\ Challenge(candidate_endpoint, TRUE) \in OfCommands
          /\ Challenge(candidate_endpoint, TRUE).kind # "update"
      BY <3>1, KindsTyped DEF Challenge
    <3>. QED
      BY <1>2, <2>1, <2>3, <3>2 DEF Retransmit
  <2>. QED
    BY <1>3, <2>2, <2>3 DEF tickPathChallenge
<1>4. CASE Burst
  <2>1. Other \in OfCommands /\ Other.kind # "update"
    BY KindsTyped DEF Other
  <2>. QED
    BY <1>2, <1>4, <2>1 DEF Burst, peerVars
<1>. QED
  BY <1>1, <1>3, <1>4, AgreementOnEvent, AgreementExecute DEF Next

-----------------------------------------------------------------------------
(* Theorems                                                                *)

IInv == Types /\ Trail /\ Agreement

LEMMA Inductive == Spec => []IInv
<1>1. Init => IInv
  <2>1. Init => Agreement
    BY DEF Init, Agreement, NoUpdate
  <2>. QED
    BY <2>1, TypesFirst, TrailFirst DEF IInv
<1>2. IInv /\ [Next]_vars => IInv'
  BY TypesStep, TrailStep, AgreementStep DEF IInv
<1>. QED
  BY <1>1, <1>2, PTL DEF Spec

\* Each channel carries what its readers expect, and a candidate is never the
\* endpoint the session has already.
THEOREM MigrationTyping == Spec => []TypeOK
<1>1. IInv => TypeOK
  BY TypesAreEnough DEF IInv
<1>. QED
  BY <1>1, Inductive, PTL

\* Once the queued commands are executed the DATA plane sends where the control
\* plane believes the Node to be (path_response of handleControl, updateEndpoint).
THEOREM ThreadsAgree == Spec => []EndpointsAgree
<1>1. IInv => EndpointsAgree
  BY AgreementIsIt DEF IInv
<1>. QED
  BY <1>1, Inductive, PTL

\* An endpoint becomes current only after the Node got the very challenge it
\* echoed there (Validator.acceptResponse), provided that challenges went to the
\* candidate: for any number of moves, losses and late datagrams.
THEOREM AcceptsProvenOnly == Spec => OnlyProven
<1>. DEFINE Proven == current' # current /\ candidate_endpoint = candidate.endpoint =>
                        heardAt = current'
<1>1. IInv /\ [Next]_vars => [Proven]_vars
  <2>. SUFFICES ASSUME IInv, [Next]_vars, current' # current,
                       candidate_endpoint = candidate.endpoint
                PROVE  heardAt = current'
    OBVIOUS
  <2>1. onEvent
    BY DEF Next, vars, tickPathChallenge, Execute, handleUdp, Hear, SendTraffic, Move,
           Lose, Burst, Expire, peerVars
  <2>2. PICK e \in Endpoints : Accepted(e)
    BY <2>1, WaysOfOnEvent DEF IInv, Staged, Ignore
  <2>3. current' = e /\ candidate.endpoint = e /\ Head(events) = Response(e, TRUE)
    BY <2>2 DEF Accepted, Accept, responseValid
  <2>4. events # <<>>
    BY <2>1 DEF onEvent
  <2>5. LiveResponse(events[1]) /\ 1 \in 1..Len(events)
    BY <2>3, <2>4, AtHand DEF IInv, LiveResponse, Response
  <2>6. heardAt # NoEndpoint
    BY <2>5 DEF IInv, Trail, Heard
  <2>7. heardAt = candidate_endpoint
    BY <2>3, <2>6 DEF IInv, Trail, Directed
  <2>. QED
    BY <2>3, <2>7
<1>. QED
  BY <1>1, Inductive, PTL DEF Spec, OnlyProven
=============================================================================
