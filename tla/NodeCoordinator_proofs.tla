----------------------- MODULE NodeCoordinator_proofs -----------------------
(***************************************************************************)
(* Proofs about the control thread of a Node, for any number of sessions   *)
(* and whatever is refused: full queues, failed installs, failed writes.   *)
(*                                                                         *)
(*   NodeTyping           types                                            *)
(*   NoPeerIsForgotten    every peer has an owner that will abort it       *)
(*   StrandedNever        enrollment survives failed writes and crashes    *)
(*   ActivationAdvances   a late confirmation revives no older session     *)
(***************************************************************************)
EXTENDS NodeCoordinator, TLAPS

USE ParametersAssumption

-----------------------------------------------------------------------------
(* The inductive invariant                                                 *)

\* Of the sessions the attempt's is the newest.
AttemptIsNewest == InProgress => active <= attempt.receiver

\* An attempt that waits for message 1 has drawn an id and no more.
ResponseIsFresh ==
  attempt.phase = "response" =>
    /\ ~HasPeer(peers, attempt.receiver)
    /\ attempt.receiver \notin {active, draining}
    /\ attempt.kind = "enrollment" => enrollment # "enrolled"

\* Only a Master that has bound the key accepts a session.
SessionIsBound ==
  attempt.kind = "session" /\ attempt.phase = "confirmation" => bound

IInv ==
  /\ TypeOK
  /\ NoStrayPeer
  /\ NeverStranded
  /\ AttemptIsNewest
  /\ ResponseIsFresh
  /\ SessionIsBound

LEMMA AttemptType ==
  ASSUME TypeOK
  PROVE  /\ attempt.receiver \in Sessions \cup {0}
         /\ InProgress => attempt \in Attempt /\ attempt.receiver \in Sessions
         /\ attempt.phase \in {"response", "confirmation"} => InProgress
         /\ attempt.kind \in {"enrollment", "session"} => InProgress
         /\ Sessions \subseteq Nat /\ 0 \notin Sessions
         /\ next \in Nat
BY DEF TypeOK, Attempt, NoAttempt, InProgress, Sessions

LEMMA NoAttemptFacts ==
  /\ NoAttempt.receiver = 0 /\ NoAttempt.phase = "none" /\ NoAttempt.kind = "none"
BY DEF NoAttempt

LEMMA InvInit == Init => IInv
<1> SUFFICES ASSUME Init PROVE IInv
  OBVIOUS
<1>1. peers \in [Sessions -> Peer] /\ \A s \in Sessions : ~HasPeer(peers, s)
  BY DEF Init, NoPeer, Peer, PeerStates, HasPeer
<1>2. /\ next = 1 /\ next \in 1..(MaxSessions + 1)
      /\ {attempt.receiver, active, draining} \subseteq 0..(next - 1)
  BY NoAttemptFacts DEF Init
<1>3. TypeOK  BY <1>1, <1>2 DEF Init, TypeOK
<1> QED
  BY <1>1, <1>3, NoAttemptFacts
  DEF Init, IInv, NoStrayPeer, NeverStranded, AttemptIsNewest, InProgress,
      ResponseIsFresh, SessionIsBound

-----------------------------------------------------------------------------
(* Calls of the control plane                                              *)

\* Peers only go, and none becomes unconfirmed.
Shrinks(p, q) ==
  /\ q \in [Sessions -> Peer]
  /\ \A s \in Sessions : HasPeer(q, s) =>
       HasPeer(p, s) /\ (q[s].state = "awaiting" => p[s].state = "awaiting")

LEMMA ShrinksTwice ==
  ASSUME NEW p, NEW q, NEW r, Shrinks(p, q), Shrinks(q, r)
  PROVE  Shrinks(p, r)
BY DEF Shrinks

LEMMA PeerFields ==
  ASSUME NEW x \in Peer
  PROVE  /\ [x EXCEPT !.transmit = FALSE] \in Peer
         /\ [x EXCEPT !.transmit = FALSE].state = x.state
         /\ \A c \in PeerStates : /\ [x EXCEPT !.state = c] \in Peer
                                  /\ [x EXCEPT !.state = c].state = c
BY DEF Peer

\* One peer is replaced by a state that is confirmed, or gone, or as before.
LEMMA OneShrinks ==
  ASSUME NEW p \in [Sessions -> Peer], NEW s \in Sessions, NEW x \in Peer,
         \/ x.state \in {"absent", p[s].state}
         \/ HasPeer(p, s) /\ x.state # "awaiting"
  PROVE  Shrinks(p, [p EXCEPT ![s] = x])
<1> DEFINE q == [p EXCEPT ![s] = x]
<1>1. q \in [Sessions -> Peer] /\ q[s] = x /\ \A t \in Sessions \ {s} : q[t] = p[t]
  OBVIOUS
<1> HIDE DEF q
<1>2. Shrinks(p, q)  BY <1>1 DEF Shrinks, HasPeer
<1> QED  BY <1>2 DEF q

LEMMA SilencedShrinks ==
  ASSUME NEW p \in [Sessions -> Peer], NEW s \in Sessions \cup {0}
  PROVE  Shrinks(p, Silenced(p, s)) /\ Silenced(p, s) \in [Sessions -> Peer]
<1>1. CASE s # 0 /\ HasPeer(p, s)
  <2>1. s \in Sessions /\ p[s] \in Peer  BY <1>1
  <2>2. Silenced(p, s) = [p EXCEPT ![s] = [p[s] EXCEPT !.transmit = FALSE]]
    BY <1>1 DEF Silenced
  <2>3. Shrinks(p, [p EXCEPT ![s] = [p[s] EXCEPT !.transmit = FALSE]])
    BY <2>1, OneShrinks, PeerFields
  <2> QED  BY <2>2, <2>3 DEF Shrinks
<1>2. CASE ~(s # 0 /\ HasPeer(p, s))
  BY <1>2 DEF Silenced, Shrinks
<1> QED  BY <1>1, <1>2

LEMMA RemovedShrinks ==
  ASSUME NEW p \in [Sessions -> Peer], NEW s \in Sessions
  PROVE  Shrinks(p, Removed(p, s)) /\ ~HasPeer(Removed(p, s), s)
<1>1. NoPeer \in Peer /\ NoPeer.state = "absent"
  BY DEF NoPeer, Peer, PeerStates
<1> QED  BY <1>1, OneShrinks DEF Removed, HasPeer

LEMMA AbortsShrinks ==
  ASSUME NEW p \in [Sessions -> Peer], NEW s \in Sessions, NEW q, NEW ok,
         Aborts(p, s, q, ok)
  PROVE  Shrinks(p, q) /\ (ok => ~HasPeer(q, s))
<1>1. Shrinks(p, p)  BY DEF Shrinks
<1> QED  BY <1>1, SilencedShrinks, RemovedShrinks DEF Aborts

LEMMA ConfirmsShrinks ==
  ASSUME NEW p \in [Sessions -> Peer], NEW s \in Sessions, NEW q, NEW ok,
         Confirms(p, s, q, ok)
  PROVE  Shrinks(p, q) /\ (ok => q[s].state # "awaiting")
<1>1. Shrinks(p, p)  BY DEF Shrinks
<1>2. CASE HasPeer(p, s) /\ ok /\ q = [p EXCEPT ![s].state = "online"]
  <2> DEFINE x == [p[s] EXCEPT !.state = "online"]
  <2>1. x \in Peer /\ x.state = "online"
    <3>1. p[s] \in Peer  OBVIOUS
    <3> QED  BY <3>1, PeerFields DEF PeerStates
  <2>2. q = [p EXCEPT ![s] = x]  BY <1>2
  <2> HIDE DEF x
  <2>3. q[s] = x  BY <2>2
  <2>4. Shrinks(p, q)
    <3>1. HasPeer(p, s)  BY <1>2
    <3> QED  BY <2>1, <2>2, <3>1, OneShrinks
  <2> QED  BY <2>1, <2>3, <2>4
<1> QED  BY <1>1, <1>2 DEF Confirms

LEMMA OfflineShrinks ==
  ASSUME TypeOK, NEW s \in Sessions, HasPeer(peers, s), GoOffline(s)
  PROVE  Shrinks(peers, peers')
<1>1. PICK x \in Peer : peers' = [peers EXCEPT ![s] = x] /\ x.state = "offline"
  <2>1. PICK ok \in BOOLEAN :
          peers' = [peers EXCEPT ![s] =
            [state |-> "offline", transmit |-> FALSE,
             removalQueued |-> peers[s].removalQueued \/ ok]]
    BY DEF GoOffline, TypeOK
  <2> DEFINE b == peers[s].removalQueued \/ ok
             x == [state |-> "offline", transmit |-> FALSE, removalQueued |-> b]
  <2>2. x \in Peer /\ x.state = "offline"  BY DEF Peer, PeerStates
  <2>3. peers' = [peers EXCEPT ![s] = x]  BY <2>1
  <2> HIDE DEF x
  <2> QED  BY <2>2, <2>3
<1> QED  BY <1>1, OneShrinks DEF TypeOK

\* What activateSession does to the sessions it knows.
LEMMA ActivatesFacts ==
  ASSUME NEW p \in [Sessions -> Peer], NEW d, NEW r \in Sessions, NEW ok \in BOOLEAN,
         active \in Sessions \cup {0}, draining \in Sessions \cup {0},
         Activates(p, d, r, ok)
  PROVE  /\ Shrinks(p, peers') /\ due' \subseteq d
         /\ ok => active' = r
         /\ ~ok \/ active = r => UNCHANGED <<active, draining>>
         /\ ok /\ active # r => /\ draining' = active
                                /\ draining # 0 => ~HasPeer(peers', draining)
<1>1. CASE active = r /\ ok /\ peers' = p /\ due' = d /\ UNCHANGED <<active, draining>>
  BY <1>1 DEF Shrinks
<1>2. CASE active # r
  <2> DEFINE q == Silenced(p, active)
  <2>1. Shrinks(p, q) /\ q \in [Sessions -> Peer]  BY SilencedShrinks
  <2>2. \/ ok /\ Replaces(d, r)
        \/ ~ok /\ due' = d /\ UNCHANGED <<active, draining>>
    BY <1>2 DEF Activates
  <2>3. \/ draining = 0 /\ ok /\ peers' = q
        \/ draining # 0 /\ Aborts(q, draining, peers', ok)
    BY <1>2 DEF Activates
  <2> HIDE DEF q
  <2>4. CASE draining = 0 /\ ok /\ peers' = q
    BY <1>2, <2>1, <2>2, <2>4 DEF Replaces
  <2>5. CASE draining # 0 /\ Aborts(q, draining, peers', ok)
    <3>1. Shrinks(q, peers') /\ (ok => ~HasPeer(peers', draining))
      BY <2>1, <2>5, AbortsShrinks
    <3>2. Shrinks(p, peers')  BY <2>1, <3>1, ShrinksTwice
    <3> QED  BY <1>2, <2>2, <3>1, <3>2 DEF Replaces
  <2> QED  BY <2>3, <2>4, <2>5
<1> QED  BY <1>1, <1>2 DEF Activates

-----------------------------------------------------------------------------
(* Steps that start nothing                                                *)

\* A step that only lets peers go keeps the invariant if what the coordinator
\* forgets has no peer, and what it forgot an attempt for is confirmed.
LEMMA Forgetting ==
  ASSUME IInv, TypeOK', NeverStranded', Shrinks(peers, peers'),
         bound => bound',
         attempt' \in {attempt, NoAttempt},
         \A s \in Sessions : HasPeer(peers', s) /\ s \in {active, draining, attempt.receiver}
           => s \in {active', draining', attempt'.receiver},
         attempt' # attempt => \A s \in Sessions :
           s = attempt.receiver /\ HasPeer(peers', s) => peers'[s].state # "awaiting",
         attempt' = attempt /\ InProgress =>
           UNCHANGED active /\ draining' \in {draining, 0},
         attempt.phase = "response" /\ enrollment' = "enrolled" => enrollment = "enrolled"
  PROVE  IInv'
<1> USE DEF IInv
<1>1. NoStrayPeer'
  <2> SUFFICES ASSUME NEW s \in Sessions, HasPeer(peers', s)
               PROVE  /\ s \in {active', draining', attempt'.receiver}
                      /\ peers'[s].state = "awaiting" => s = attempt'.receiver
    BY DEF NoStrayPeer
  <2>1. HasPeer(peers, s) /\ (peers'[s].state = "awaiting" => peers[s].state = "awaiting")
    BY DEF Shrinks
  <2>2. s \in {active, draining, attempt.receiver}
    BY <2>1 DEF NoStrayPeer
  <2>3. ASSUME peers'[s].state = "awaiting"  PROVE s = attempt'.receiver
    <3>1. s = attempt.receiver  BY <2>1, <2>3 DEF NoStrayPeer
    <3> QED  BY <2>3, <3>1
  <2> QED  BY <2>2, <2>3
<1>2. CASE attempt' = NoAttempt
  <2>1. AttemptIsNewest' /\ ResponseIsFresh' /\ SessionIsBound'
    BY <1>2, NoAttemptFacts
    DEF AttemptIsNewest, InProgress, ResponseIsFresh, SessionIsBound
  <2> QED  BY <1>1, <2>1
<1>3. CASE attempt' = attempt /\ InProgress
  <2>1. AttemptIsNewest'
    BY <1>3 DEF AttemptIsNewest, InProgress
  <2>2. ResponseIsFresh'
    <3> SUFFICES ASSUME attempt.phase = "response"
                 PROVE  /\ ~HasPeer(peers', attempt.receiver)
                        /\ attempt.receiver \notin {active, draining'}
                        /\ attempt.kind = "enrollment" => enrollment' # "enrolled"
      BY <1>3 DEF ResponseIsFresh
    <3>1. attempt.receiver \in Sessions /\ attempt.receiver # 0
      BY <1>3, AttemptType
    <3> QED  BY <1>3, <3>1 DEF ResponseIsFresh, Shrinks
  <2>3. SessionIsBound'
    BY <1>3 DEF SessionIsBound
  <2> QED  BY <1>1, <2>1, <2>2, <2>3
<1> QED  BY <1>2, <1>3 DEF InProgress

\* Calls and timers of the control plane.
LEMMA PeerEventStep ==
  ASSUME IInv, NEW s \in Sessions, PeerEvent(s)
  PROVE  IInv'
<1>1. TypeOK /\ peers \in [Sessions -> Peer]  BY DEF IInv, TypeOK
<1>2. Shrinks(peers, peers')
  <2>1. CASE Fail(s)  BY <1>1, <2>1, RemovedShrinks DEF Fail
  <2>2. CASE RekeyDue(s)
    <3> DEFINE x == [peers[s] EXCEPT !.state = "rekey"]
    <3>1. x \in Peer /\ x.state = "rekey"
      <4>1. peers[s] \in Peer  BY <1>1
      <4> QED  BY <4>1, PeerFields DEF PeerStates
    <3>2. peers' = [peers EXCEPT ![s] = x]  BY <2>2 DEF RekeyDue
    <3> HIDE DEF x
    <3>3. HasPeer(peers, s)  BY <2>2 DEF RekeyDue, Able
    <3> QED  BY <1>1, <3>1, <3>2, <3>3, OneShrinks
  <2>3. CASE Lose(s)  BY <1>1, <2>3, OfflineShrinks DEF Lose, Able
  <2>4. CASE RetryRetirement(s)
    BY <1>1, <2>4, OfflineShrinks DEF RetryRetirement, HasPeer
  <2> QED  BY <2>1, <2>2, <2>3, <2>4 DEF PeerEvent
<1>3. UNCHANGED <<coordinatorVars, loop, recoveryAttempted, fileVars, masterVars>>
  BY DEF PeerEvent
<1>4. TypeOK'
  BY <1>1, <1>2, <1>3 DEF TypeOK, Shrinks, coordinatorVars, fileVars, masterVars
<1>5. NeverStranded'
  BY <1>3 DEF IInv, NeverStranded, fileVars, masterVars
<1> QED
  BY <1>2, <1>3, <1>4, <1>5, Forgetting DEF coordinatorVars, fileVars, masterVars

LEMMA OtherStep ==
  ASSUME IInv, \/ Refuse \/ Restart \/ Bind \/ UNCHANGED vars
               \/ \E t \in {"attempt", "drain"} : Elapse(t)
  PROVE  IInv'
<1>1. TypeOK /\ peers \in [Sessions -> Peer]  BY DEF IInv, TypeOK
<1>2. Shrinks(peers, peers)  BY <1>1 DEF Shrinks
<1>3. CASE Refuse
  <2>1. /\ attempt.phase = "response" /\ attempt' = NoAttempt
        /\ UNCHANGED <<active, draining, due, next, peers, loop, recoveryAttempted,
                       enrollment, token, finalSent, bound>>
    BY <1>3 DEF Refuse, fileVars, masterVars
  <2>2. TypeOK'
    <3>1. 0 \in 0..(next - 1)  BY <1>1 DEF TypeOK
    <3> QED  BY <1>1, <2>1, <3>1, NoAttemptFacts DEF TypeOK
  <2>3. NeverStranded'  BY <2>1 DEF IInv, NeverStranded
  <2>4. attempt.receiver \in Sessions /\ ~HasPeer(peers, attempt.receiver)
    BY <1>1, <2>1, AttemptType DEF IInv, ResponseIsFresh
  <2> QED  BY <1>2, <2>1, <2>2, <2>3, <2>4, Forgetting
<1>4. CASE Restart
  <2>1. /\ attempt' = NoAttempt /\ active' = 0 /\ draining' = 0 /\ due' = {}
        /\ peers' = [s \in Sessions |-> NoPeer] /\ loop' = "connect"
        /\ recoveryAttempted' = FALSE /\ token' = (token /\ enrollment # "enrolled")
        /\ UNCHANGED <<next, enrollment, finalSent, bound>>
    BY <1>4 DEF Restart, masterVars
  <2>2. peers' \in [Sessions -> Peer] /\ \A s \in Sessions : ~HasPeer(peers', s)
    BY <2>1 DEF NoPeer, Peer, PeerStates, HasPeer
  <2>3. TypeOK'
    <3>1. 0 \in 0..(next - 1)  BY <1>1 DEF TypeOK
    <3> QED  BY <1>1, <2>1, <2>2, <3>1, NoAttemptFacts DEF TypeOK
  <2>4. NeverStranded'  BY <2>1 DEF IInv, NeverStranded
  <2>5. Shrinks(peers, peers')  BY <2>2 DEF Shrinks
  <2>6. attempt' = attempt /\ InProgress => FALSE  BY <2>1 DEF InProgress
  <2> QED  BY <2>1, <2>2, <2>3, <2>4, <2>5, <2>6, Forgetting
<1>5. CASE Bind
  <2>1. /\ bound' = TRUE
        /\ UNCHANGED <<attempt, active, draining, due, next, peers, loop,
                       recoveryAttempted, enrollment, token, finalSent>>
    BY <1>5 DEF Bind, coordinatorVars, fileVars
  <2>2. TypeOK' /\ NeverStranded'
    BY <1>1, <2>1 DEF TypeOK, IInv, NeverStranded
  <2> QED  BY <1>2, <2>1, <2>2, Forgetting
<1>6. ASSUME NEW t \in {"attempt", "drain"}, Elapse(t)  PROVE IInv'
  <2>1. /\ due' = due \cup {t}
        /\ UNCHANGED <<attempt, active, draining, next, peers, loop,
                       recoveryAttempted, enrollment, token, finalSent, bound>>
    BY <1>6 DEF Elapse, fileVars, masterVars
  <2>2. TypeOK' /\ NeverStranded'
    BY <1>1, <2>1 DEF TypeOK, IInv, NeverStranded
  <2> QED  BY <1>2, <2>1, <2>2, Forgetting
<1>7. CASE UNCHANGED vars
  BY <1>7 DEF IInv, TypeOK, NoStrayPeer, NeverStranded, AttemptIsNewest, InProgress,
     ResponseIsFresh, SessionIsBound, vars, coordinatorVars, fileVars, masterVars
<1> QED  BY <1>3, <1>4, <1>5, <1>6, <1>7

\* NodeLoop starts an attempt, or its message 0 is refused.  The id is drawn
\* fresh, so no peer has it.
LEMMA BeginStep ==
  ASSUME IInv, ~InProgress, NEW kind \in {"enrollment", "session"},
         NEW finalizes \in BOOLEAN, Begin(kind, finalizes),
         kind = "enrollment" => enrollment # "enrolled",
         UNCHANGED <<active, draining, peers, enrollment, token, finalSent, bound>>,
         loop' = "poll", recoveryAttempted' \in BOOLEAN
  PROVE  IInv'
<1> USE DEF IInv
<1>1. TypeOK /\ attempt = NoAttempt /\ attempt.receiver = 0
  BY NoAttemptFacts DEF InProgress
<1>2. NeverStranded'  BY DEF NeverStranded
<1>3. CASE UNCHANGED <<attempt, next, due>>
  <2>1. TypeOK'  BY <1>1, <1>3 DEF TypeOK
  <2>2. Shrinks(peers, peers')  BY <1>1 DEF Shrinks, TypeOK
  <2> QED  BY <1>2, <1>3, <2>1, <2>2, Forgetting
<1>4. ASSUME next <= MaxSessions, next' = next + 1, due' = due \ {"attempt"},
             attempt' = [kind |-> kind, receiver |-> next, phase |-> "response",
                         finalizes |-> finalizes]
      PROVE  IInv'
  <2>1. next \in Sessions /\ next \in Nat /\ next' \in 1..(MaxSessions + 1)
    BY <1>1, <1>4 DEF TypeOK, Sessions
  <2>2. /\ attempt' \in Attempt /\ attempt'.receiver = next
        /\ attempt'.phase = "response" /\ attempt'.kind = kind
    BY <1>4, <2>1 DEF Attempt
  <2>3. /\ active \in 0..(next - 1) /\ draining \in 0..(next - 1)
        /\ {active, draining, next} \subseteq 0..next
    BY <1>1, <2>1 DEF TypeOK
  <2>4. TypeOK'
    <3>1. {attempt'.receiver, active', draining'} \subseteq 0..(next' - 1)
      <4>1. next' - 1 = next  BY <1>4, <2>1
      <4> QED  BY <2>2, <2>3, <4>1
    <3> QED  BY <1>1, <1>4, <2>1, <2>2, <3>1 DEF TypeOK
  <2>5. next \notin {active, draining} /\ active <= next
    BY <2>1, <2>3
  <2>6. ~HasPeer(peers, next)
    <3>1. next # 0  BY <2>1 DEF Sessions
    <3> QED  BY <1>1, <2>1, <2>5, <3>1 DEF NoStrayPeer
  <2>7. NoStrayPeer'
    <3>1. 0 \notin Sessions  BY DEF Sessions
    <3> QED  BY <1>1, <3>1 DEF NoStrayPeer
  <2>8. AttemptIsNewest' /\ ResponseIsFresh' /\ SessionIsBound'
    BY <2>2, <2>5, <2>6 DEF AttemptIsNewest, ResponseIsFresh, SessionIsBound
  <2> QED  BY <1>2, <2>4, <2>7, <2>8
<1> QED  BY <1>3, <1>4 DEF Begin

LEMMA ConnectStep == ASSUME IInv, Connect PROVE IInv'
<1>1. /\ UNCHANGED <<active, draining, peers, enrollment, token, finalSent, bound>>
      /\ loop' = "poll" /\ recoveryAttempted \in BOOLEAN
  BY DEF Connect, fileVars, masterVars, IInv, TypeOK
<1>2. CASE ~InProgress /\ Begin("session", FALSE) /\ UNCHANGED recoveryAttempted
  BY <1>1, <1>2, BeginStep
<1>3. CASE ~InProgress /\ Start
  <2>1. CASE Begin("session", FALSE) /\ UNCHANGED recoveryAttempted
    BY <1>1, <1>3, <2>1, BeginStep
  <2>2. CASE recoveryAttempted' = TRUE /\ Begin("session", TRUE)
    BY <1>1, <1>3, <2>2, BeginStep
  <2>3. CASE /\ enrollment \in {"none", "staged"}
             /\ Begin("enrollment", FALSE) /\ UNCHANGED recoveryAttempted
    BY <1>1, <1>3, <2>3, BeginStep
  <2> QED  BY <1>3, <2>1, <2>2, <2>3 DEF Start
<1>4. CASE UNCHANGED <<attempt, next, due, recoveryAttempted>>
  <2>1. TypeOK' /\ NeverStranded'
    BY <1>1, <1>4 DEF IInv, TypeOK, NeverStranded
  <2>2. Shrinks(peers, peers')  BY <1>1 DEF Shrinks, IInv, TypeOK
  <2> QED  BY <1>1, <1>4, <2>1, <2>2, Forgetting
<1> QED  BY <1>2, <1>3, <1>4 DEF Connect

-----------------------------------------------------------------------------
(* Message 1: the attempt registers its session                            *)

\* The session of a reply is registered; it may replace the active one at once.
LEMMA Registering ==
  ASSUME IInv, attempt.phase = "response", attempt' = Confirming,
         Shrinks(Registered, peers'), TypeOK', NeverStranded',
         bound' = bound, attempt.kind = "session" => bound,
         \/ UNCHANGED <<active, draining>>
         \/ /\ active' = attempt.receiver /\ draining' = active
            /\ draining # 0 => ~HasPeer(peers', draining)
  PROVE  IInv'
<1> USE DEF IInv
<1> DEFINE r == attempt.receiver
<1>1. r \in Sessions /\ attempt \in Attempt  BY AttemptType
<1>2. /\ attempt'.receiver = r /\ attempt'.kind = attempt.kind
      /\ attempt'.phase = "confirmation"
  BY <1>1 DEF Confirming, Attempt
<1>3. /\ \A s \in Sessions \ {r} : Registered[s] = peers[s]
  BY DEF Registered, TypeOK
<1>4. AttemptIsNewest'
  <2>1. active <= r  BY <1>1, AttemptType DEF AttemptIsNewest
  <2>2. r <= r  BY <1>1, AttemptType
  <2> QED  BY <1>2, <2>1, <2>2 DEF AttemptIsNewest
<1>5. ResponseIsFresh' /\ SessionIsBound'
  BY <1>2 DEF ResponseIsFresh, SessionIsBound
<1>6. NoStrayPeer'
  <2> SUFFICES ASSUME NEW s \in Sessions, s # r, HasPeer(peers', s)
               PROVE  s \in {active', draining'} /\ peers'[s].state # "awaiting"
    BY <1>2 DEF NoStrayPeer
  <2>1. HasPeer(peers, s) /\ (peers'[s].state = "awaiting" => peers[s].state = "awaiting")
    BY <1>3 DEF Shrinks, HasPeer
  <2>2. s \in {active, draining} /\ peers[s].state # "awaiting" /\ s # 0
    BY <2>1, AttemptType DEF NoStrayPeer
  <2> QED  BY <2>1, <2>2
<1> QED  BY <1>4, <1>5, <1>6

LEMMA RegisteredType ==
  ASSUME TypeOK, attempt.phase = "response"
  PROVE  /\ attempt \in Attempt /\ attempt.receiver \in Sessions
         /\ Registered \in [Sessions -> Peer] /\ Shrinks(Registered, Registered)
         /\ Confirming \in Attempt /\ Confirming.receiver = attempt.receiver
<1>1. attempt \in Attempt /\ attempt.receiver \in Sessions  BY AttemptType
<1>2. NewPeer \in Peer  BY DEF NewPeer, Peer, PeerStates
<1>3. Registered \in [Sessions -> Peer]  BY <1>2 DEF Registered, TypeOK
<1>4. Confirming \in Attempt /\ Confirming.receiver = attempt.receiver
  BY <1>1 DEF Confirming, Attempt
<1> QED  BY <1>1, <1>3, <1>4 DEF Shrinks

LEMMA FinishEnrollmentStep == ASSUME IInv, FinishEnrollment PROVE IInv'
<1>1. /\ TypeOK /\ attempt.phase = "response" /\ attempt.kind = "enrollment"
      /\ enrollment' = "staged"
      /\ UNCHANGED <<active, draining, next, loop, recoveryAttempted, token, bound>>
  BY DEF FinishEnrollment, IInv
<1>2. /\ Registered \in [Sessions -> Peer] /\ Shrinks(Registered, Registered)
      /\ Confirming \in Attempt /\ Confirming.receiver = attempt.receiver
      /\ attempt.receiver \in Sessions
  BY <1>1, RegisteredType
<1>3. NeverStranded'
  BY <1>1 DEF IInv, NeverStranded, ResponseIsFresh
<1>4. CASE attempt' = NoAttempt /\ UNCHANGED <<peers, due, finalSent>>
  <2>1. TypeOK'
    <3>1. 0 \in 0..(next - 1)  BY <1>1 DEF TypeOK
    <3> QED  BY <1>1, <1>4, <3>1, NoAttemptFacts DEF TypeOK
  <2>2. Shrinks(peers, peers')  BY <1>1, <1>4 DEF Shrinks, TypeOK
  <2>3. ~HasPeer(peers', attempt.receiver)
    BY <1>1, <1>4 DEF IInv, ResponseIsFresh
  <2> QED  BY <1>1, <1>2, <1>3, <1>4, <2>1, <2>2, <2>3, Forgetting
<1>5. ASSUME attempt' = Confirming, due' = Restarted, NEW sent \in BOOLEAN,
             finalSent' = (finalSent \/ sent),
             IF sent
             THEN \E ok \in BOOLEAN : Confirms(Registered, attempt.receiver, peers', ok)
             ELSE peers' = Registered
      PROVE  IInv'
  <2>1. Shrinks(Registered, peers')
    BY <1>2, <1>5, ConfirmsShrinks
  <2>2. TypeOK'
    BY <1>1, <1>2, <1>5, <2>1 DEF TypeOK, Shrinks, Restarted
  <2> QED  BY <1>1, <1>3, <1>5, <2>1, <2>2, Registering
<1> QED  BY <1>4, <1>5 DEF FinishEnrollment

\* What becomes of the sessions if r is activated, or not.
LEMMA ActivationType ==
  ASSUME TypeOK, NEW p \in [Sessions -> Peer], NEW d \in SUBSET {"attempt", "drain"},
         NEW ok \in BOOLEAN, Activates(p, d, attempt.receiver, ok), InProgress
  PROVE  /\ active' \in Sessions \cup {0} /\ draining' \in Sessions \cup {0}
         /\ active' # 0 => active' # draining'
         /\ {active', draining'} \subseteq 0..(next - 1)
         /\ due' \subseteq {"attempt", "drain"}
         /\ peers' \in [Sessions -> Peer]
<1>1. /\ attempt.receiver \in Sessions /\ attempt.receiver \in 0..(next - 1)
      /\ active \in Sessions \cup {0} /\ draining \in Sessions \cup {0}
      /\ active # 0 => active # draining
      /\ {active, draining} \subseteq 0..(next - 1)
  BY AttemptType DEF TypeOK
<1>2. /\ Shrinks(p, peers') /\ due' \subseteq d
      /\ ok => active' = attempt.receiver
      /\ ~ok \/ active = attempt.receiver => UNCHANGED <<active, draining>>
      /\ ok /\ active # attempt.receiver => draining' = active
  BY <1>1, ActivatesFacts
<1>3. due' \subseteq {"attempt", "drain"} /\ peers' \in [Sessions -> Peer]
  BY <1>2 DEF Shrinks
<1>4. CASE UNCHANGED <<active, draining>>
  BY <1>1, <1>3, <1>4
<1>5. CASE ok /\ active # attempt.receiver
  BY <1>1, <1>2, <1>3, <1>5
<1> QED  BY <1>2, <1>4, <1>5

LEMMA FinishSessionStep == ASSUME IInv, FinishSession PROVE IInv'
<1>1. /\ TypeOK /\ attempt.phase = "response" /\ attempt.kind = "session" /\ bound
      /\ UNCHANGED <<next, loop, recoveryAttempted, enrollment, token, finalSent, bound>>
  BY DEF FinishSession, IInv, fileVars, masterVars
<1>2. /\ Registered \in [Sessions -> Peer] /\ Shrinks(Registered, Registered)
      /\ Confirming \in Attempt /\ Confirming.receiver = attempt.receiver
      /\ attempt.receiver \in Sessions /\ InProgress
  BY <1>1, RegisteredType, AttemptType
<1>3. NeverStranded'
  BY <1>1 DEF IInv, NeverStranded
<1>4. CASE attempt' = NoAttempt /\ UNCHANGED <<peers, active, draining, due>>
  <2>1. TypeOK'
    <3>1. 0 \in 0..(next - 1)  BY <1>1 DEF TypeOK
    <3> QED  BY <1>1, <1>4, <3>1, NoAttemptFacts DEF TypeOK
  <2>2. Shrinks(peers, peers')  BY <1>1, <1>4 DEF Shrinks, TypeOK
  <2>3. ~HasPeer(peers', attempt.receiver)
    BY <1>1, <1>4 DEF IInv, ResponseIsFresh
  <2> QED  BY <1>1, <1>2, <1>3, <1>4, <2>1, <2>2, <2>3, Forgetting
<1>5. ASSUME attempt' = Confirming, NEW q, NEW ok \in BOOLEAN,
             Confirms(Registered, attempt.receiver, q, ok),
             IF ok
             THEN \E done \in BOOLEAN : Activates(q, Restarted, attempt.receiver, done)
             ELSE peers' = q /\ due' = Restarted /\ UNCHANGED <<active, draining>>
      PROVE  IInv'
  <2>1. Shrinks(Registered, q) /\ q \in [Sessions -> Peer]
    BY <1>2, <1>5, ConfirmsShrinks DEF Shrinks
  <2>2. Restarted \in SUBSET {"attempt", "drain"}
    BY <1>1 DEF Restarted, TypeOK
  <2>3. CASE ~ok
    <3>1. TypeOK'
      BY <1>1, <1>2, <1>5, <2>1, <2>2, <2>3 DEF TypeOK
    <3> QED  BY <1>1, <1>3, <1>5, <2>1, <2>3, <3>1, Registering
  <2>4. ASSUME NEW done \in BOOLEAN, Activates(q, Restarted, attempt.receiver, done)
        PROVE  IInv'
    <3>1. TypeOK'
      <4>1. /\ active' \in Sessions \cup {0} /\ draining' \in Sessions \cup {0}
            /\ active' # 0 => active' # draining'
            /\ {active', draining'} \subseteq 0..(next - 1)
            /\ due' \subseteq {"attempt", "drain"} /\ peers' \in [Sessions -> Peer]
        BY <1>1, <1>2, <2>1, <2>2, <2>4, ActivationType
      <4>2. attempt' \in Attempt /\ attempt'.receiver \in 0..(next - 1)
        BY <1>1, <1>2, <1>5 DEF TypeOK
      <4> QED  BY <1>1, <4>1, <4>2 DEF TypeOK
    <3>2. active \in Sessions \cup {0} /\ draining \in Sessions \cup {0}
      BY <1>1 DEF TypeOK
    <3>3. /\ Shrinks(q, peers')
          /\ done => active' = attempt.receiver
          /\ ~done \/ active = attempt.receiver => UNCHANGED <<active, draining>>
          /\ done /\ active # attempt.receiver =>
               draining' = active /\ (draining # 0 => ~HasPeer(peers', draining))
      BY <1>2, <2>1, <2>4, <3>2, ActivatesFacts
    <3>4. Shrinks(Registered, peers')  BY <2>1, <3>3, ShrinksTwice
    <3>5. \/ UNCHANGED <<active, draining>>
          \/ /\ active' = attempt.receiver /\ draining' = active
             /\ draining # 0 => ~HasPeer(peers', draining)
      BY <3>3
    <3> QED  BY <1>1, <1>3, <1>5, <3>1, <3>4, <3>5, Registering
  <2> QED  BY <1>5, <2>3, <2>4
<1> QED  BY <1>4, <1>5 DEF FinishSession

-----------------------------------------------------------------------------
(* Confirmations and timers                                                *)

\* The Master has been heard on the attempt's session, which is activated.
LEMMA ActivateStep ==
  ASSUME IInv, Able(attempt.receiver), peers[attempt.receiver].state # "awaiting",
         InProgress, ActivateAttempt(attempt.receiver),
         UNCHANGED <<next, loop, recoveryAttempted, finalSent, bound>>,
         enrollment' \in {"none", "staged", "enrolled"}, token' \in BOOLEAN,
         NeverStranded'
  PROVE  IInv'
<1> USE DEF IInv
<1> DEFINE r == attempt.receiver
<1>1. /\ r \in Sessions /\ 0 \notin Sessions /\ attempt \in Attempt
      /\ peers \in [Sessions -> Peer] /\ due \in SUBSET {"attempt", "drain"}
      /\ active \in Sessions \cup {0} /\ draining \in Sessions \cup {0}
  BY AttemptType DEF TypeOK
<1>2. PICK ok \in BOOLEAN : /\ Activates(peers, due, r, ok)
                            /\ attempt' = IF ok THEN NoAttempt ELSE attempt
  BY DEF ActivateAttempt
<1>3. /\ Shrinks(peers, peers')
      /\ ok => active' = r
      /\ ~ok \/ active = r => UNCHANGED <<active, draining>>
      /\ ok /\ active # r =>
           draining' = active /\ (draining # 0 => ~HasPeer(peers', draining))
  BY <1>1, <1>2, ActivatesFacts
<1>4. TypeOK'
  <2>1. /\ active' \in Sessions \cup {0} /\ draining' \in Sessions \cup {0}
        /\ active' # 0 => active' # draining'
        /\ {active', draining'} \subseteq 0..(next - 1)
        /\ due' \subseteq {"attempt", "drain"} /\ peers' \in [Sessions -> Peer]
    BY <1>1, <1>2, ActivationType
  <2>2. attempt' \in Attempt \cup {NoAttempt} /\ attempt'.receiver \in 0..(next - 1)
    <3>1. 0 \in 0..(next - 1)  BY DEF TypeOK
    <3> QED  BY <1>1, <1>2, <3>1, NoAttemptFacts DEF TypeOK
  <2> QED  BY <2>1, <2>2 DEF TypeOK
<1>5. \A s \in Sessions : HasPeer(peers', s) /\ s \in {active, draining, r}
        => s \in {active', draining', attempt'.receiver}
  BY <1>1, <1>2, <1>3
<1>6. attempt' # attempt => \A s \in Sessions :
        s = r /\ HasPeer(peers', s) => peers'[s].state # "awaiting"
  BY <1>3 DEF Shrinks
<1>7. attempt' = attempt /\ InProgress => UNCHANGED active /\ draining' \in {draining, 0}
  BY <1>2, <1>3 DEF InProgress
<1>8. attempt.phase # "response"
  BY DEF ResponseIsFresh, Able
<1>9. attempt' \in {attempt, NoAttempt}  BY <1>2
<1> QED  BY <1>3, <1>4, <1>5, <1>6, <1>7, <1>8, <1>9, Forgetting

\* A confirmation that changes files only.
LEMMA FilesStep ==
  ASSUME IInv, attempt.phase # "response",
         UNCHANGED <<attempt, active, draining, due, peers, next, loop,
                     recoveryAttempted, finalSent, bound>>,
         enrollment' \in {"none", "staged", "enrolled"}, token' \in BOOLEAN,
         NeverStranded'
  PROVE  IInv'
<1>1. TypeOK'  BY DEF IInv, TypeOK
<1>2. Shrinks(peers, peers')  BY DEF Shrinks, IInv, TypeOK
<1> QED  BY <1>1, <1>2, Forgetting

\* Whatever write of completeEnrollment fails.
LEMMA CompletesSafely ==
  ASSUME IInv, bound, bound' = bound, NEW done, CompletesEnrollment(done)
  PROVE  /\ NeverStranded'
         /\ enrollment' \in {"none", "staged", "enrolled"} /\ token' \in BOOLEAN
BY DEF IInv, TypeOK, NeverStranded, CompletesEnrollment, fileVars

LEMMA ConfirmedStep ==
  ASSUME IInv, NEW s \in Sessions, SessionConfirmed(s) \/ EnrollmentCompleted(s)
  PROVE  IInv'
<1>1. /\ Able(s) /\ peers[s].state # "awaiting" /\ attempt.receiver = s
      /\ attempt.kind \in {"enrollment", "session"}
      /\ UNCHANGED <<next, loop, recoveryAttempted, finalSent, bound>>
  BY DEF SessionConfirmed, EnrollmentCompleted, AttemptOf, masterVars
<1>2. InProgress /\ attempt \in Attempt
  BY <1>1, AttemptType DEF IInv
<1>3. attempt.phase # "response"
  BY <1>1 DEF IInv, ResponseIsFresh, Able
<1>4. attempt.phase = "confirmation"
  BY <1>2, <1>3 DEF Attempt
<1>5. bound
  BY <1>4 DEF SessionConfirmed, EnrollmentCompleted, AttemptOf, IInv, SessionIsBound
<1>6. CASE ActivateAttempt(s) /\ UNCHANGED fileVars
  <2>1. /\ enrollment' \in {"none", "staged", "enrolled"} /\ token' \in BOOLEAN
        /\ NeverStranded'
    BY <1>1, <1>6 DEF IInv, TypeOK, NeverStranded, fileVars
  <2> QED  BY <1>1, <1>2, <1>6, <2>1, ActivateStep
<1>7. CASE ActivateAttempt(s) /\ CompletesEnrollment(TRUE)
  <2>1. /\ enrollment' \in {"none", "staged", "enrolled"} /\ token' \in BOOLEAN
        /\ NeverStranded'
    BY <1>1, <1>5, <1>7, CompletesSafely
  <2> QED  BY <1>1, <1>2, <1>7, <2>1, ActivateStep
<1>8. CASE /\ CompletesEnrollment(FALSE)
           /\ UNCHANGED <<attempt, active, draining, due, peers>>
  <2>1. /\ enrollment' \in {"none", "staged", "enrolled"} /\ token' \in BOOLEAN
        /\ NeverStranded'
    BY <1>1, <1>5, <1>8, CompletesSafely
  <2> QED  BY <1>1, <1>3, <1>8, <2>1, FilesStep
<1> QED  BY <1>6, <1>7, <1>8 DEF SessionConfirmed, EnrollmentCompleted

\* The attempt's part of a tick, on the peer list p: what it forgets has no peer.
AttemptTicked(p) ==
  /\ Shrinks(p, peers') /\ finalSent' \in BOOLEAN
  /\ \/ attempt' = attempt
     \/ /\ attempt' = NoAttempt /\ attempt.receiver \in Sessions
        /\ ~HasPeer(peers', attempt.receiver)
DrainTicked ==
  \/ draining' = draining
  \/ draining' = 0 /\ draining # 0 /\ ~HasPeer(peers', draining)

LEMMA TickAttemptFacts ==
  ASSUME TypeOK, NEW p \in [Sessions -> Peer], TickAttempt(p)
  PROVE  AttemptTicked(p)
<1> USE DEF AttemptTicked
<1>1. finalSent \in BOOLEAN /\ Shrinks(p, p)  BY DEF TypeOK, Shrinks
<1>2. CASE InProgress /\ ExpireAttempt(p) /\ UNCHANGED finalSent
  <2>1. attempt.receiver \in Sessions  BY <1>2, AttemptType
  <2>2. CASE ~HasPeer(p, attempt.receiver) /\ ForgetAttempt(p)
    BY <1>1, <1>2, <2>1, <2>2 DEF ForgetAttempt
  <2>3. ASSUME NEW ok \in BOOLEAN, Aborts(p, attempt.receiver, peers', ok),
               attempt' = IF ok THEN NoAttempt ELSE attempt
        PROVE  /\ Shrinks(p, peers')
               /\ attempt' = attempt \/ (/\ attempt' = NoAttempt
                                         /\ ~HasPeer(peers', attempt.receiver))
    BY <2>1, <2>3, AbortsShrinks
  <2> QED  BY <1>1, <1>2, <2>1, <2>2, <2>3 DEF ExpireAttempt
<1>3. CASE /\ InProgress /\ UNCHANGED attempt
           /\ finalSent' \in {finalSent, finalSent \/ attempt.kind = "enrollment"}
           /\ \E ok \in BOOLEAN : Confirms(p, attempt.receiver, peers', ok)
  <2>1. attempt.receiver \in Sessions  BY <1>3, AttemptType
  <2>2. Shrinks(p, peers')  BY <1>3, <2>1, ConfirmsShrinks
  <2> QED  BY <1>1, <1>3, <2>2
<1>4. CASE peers' = p /\ UNCHANGED <<attempt, finalSent>>
  BY <1>1, <1>4
<1> QED  BY <1>2, <1>3, <1>4 DEF TickAttempt

LEMMA TickStep == ASSUME IInv, Tick PROVE IInv'
<1>1. /\ TypeOK /\ peers \in [Sessions -> Peer] /\ Shrinks(peers, peers)
      /\ draining \in Sessions \cup {0} /\ 0 \notin Sessions
  BY AttemptType DEF IInv, TypeOK, Shrinks
<1>2. /\ loop' = "connect"
      /\ UNCHANGED <<active, due, next, recoveryAttempted, enrollment, token, bound>>
  BY DEF Tick, fileVars
<1>3. AttemptTicked(peers) /\ DrainTicked
  <2>1. CASE TickAttempt(peers) /\ UNCHANGED draining
    BY <1>1, <2>1, TickAttemptFacts DEF DrainTicked
  <2>2. ASSUME draining # 0, NEW q, NEW ok \in BOOLEAN, Aborts(peers, draining, q, ok),
               ok, draining' = 0, TickAttempt(q)
        PROVE  AttemptTicked(peers) /\ DrainTicked
    <3>1. Shrinks(peers, q) /\ ~HasPeer(q, draining) /\ draining \in Sessions
      BY <1>1, <2>2, AbortsShrinks
    <3>2. q \in [Sessions -> Peer]  BY <3>1 DEF Shrinks
    <3>3. AttemptTicked(q)
      BY <1>1, <2>2, <3>2, TickAttemptFacts
    <3>4. Shrinks(peers, peers')  BY <3>1, <3>3, ShrinksTwice DEF AttemptTicked
    <3>5. ~HasPeer(peers', draining)
      BY <3>1, <3>3 DEF Shrinks, AttemptTicked
    <3> QED  BY <2>2, <3>3, <3>4, <3>5 DEF AttemptTicked, DrainTicked
  <2>3. ASSUME draining # 0, NEW q, NEW ok \in BOOLEAN, Aborts(peers, draining, q, ok),
               peers' = q, UNCHANGED <<draining, attempt, finalSent>>
        PROVE  AttemptTicked(peers) /\ DrainTicked
    <3>1. Shrinks(peers, peers')  BY <1>1, <2>3, AbortsShrinks
    <3> QED  BY <1>1, <2>3, <3>1 DEF TypeOK, AttemptTicked, DrainTicked
  <2> QED  BY <2>1, <2>2, <2>3 DEF Tick
<1>4. TypeOK'
  <2>1. 0 \in 0..(next - 1)  BY <1>1 DEF TypeOK
  <2> QED  BY <1>1, <1>2, <1>3, <2>1, NoAttemptFacts DEF TypeOK, Shrinks, AttemptTicked, DrainTicked
<1>5. NeverStranded'  BY <1>2 DEF IInv, NeverStranded
<1>6. \A s \in Sessions : HasPeer(peers', s) /\ s \in {active, draining, attempt.receiver}
        => s \in {active', draining', attempt'.receiver}
  BY <1>2, <1>3 DEF AttemptTicked, DrainTicked
<1> QED  BY <1>2, <1>3, <1>4, <1>5, <1>6, Forgetting DEF AttemptTicked, DrainTicked

-----------------------------------------------------------------------------
(* The theorems                                                            *)

LEMMA InvStep == IInv /\ [Next]_vars => IInv'
BY ConnectStep, TickStep, FinishEnrollmentStep, FinishSessionStep, ConfirmedStep,
   PeerEventStep, OtherStep
DEF Next, Network, Timers

\* The coordinator's state stays well typed, and no id is used that was not drawn.
THEOREM NodeTyping == Spec => []TypeOK
<1>1. IInv => TypeOK  BY DEF IInv
<1> QED  BY <1>1, InvInit, InvStep, PTL DEF Spec

\* Every peer of the control plane is one the coordinator will abort: whatever
\* abort, push or install fails on the way.
THEOREM NoPeerIsForgotten == Spec => []NoStrayPeer
<1>1. IInv => NoStrayPeer  BY DEF IInv
<1> QED  BY <1>1, InvInit, InvStep, PTL DEF Spec

\* Enrollment survives failed writes and crashes at any point: the token is there
\* until the Node is durably enrolled, and then the Master has bound its key.
THEOREM StrandedNever == Spec => []NeverStranded
<1>1. IInv => NeverStranded  BY DEF IInv
<1> QED  BY <1>1, InvInit, InvStep, PTL DEF Spec

LEMMA AdvanceStep ==
  ASSUME IInv, Next
  PROVE  active' \in {0, active} \/ active' > active
<1>1. /\ TypeOK /\ active \in Nat /\ 0 \in Nat
      /\ active \in Sessions \cup {0} /\ draining \in Sessions \cup {0}
      /\ peers \in [Sessions -> Peer]
  BY AttemptType DEF IInv, TypeOK
<1>2. ASSUME NEW p \in [Sessions -> Peer], NEW d, NEW ok \in BOOLEAN, InProgress,
             Activates(p, d, attempt.receiver, ok)
      PROVE  active' \in {0, active} \/ active' > active
  <2>1. attempt.receiver \in Sessions /\ attempt.receiver \in Nat
    BY <1>1, <1>2, AttemptType
  <2>2. active <= attempt.receiver  BY <1>2 DEF IInv, AttemptIsNewest
  <2>3. active' \in {active, attempt.receiver}
    BY <1>1, <1>2, <2>1, ActivatesFacts
  <2> QED  BY <1>1, <2>1, <2>2, <2>3
<1>3. CASE FinishSession
  <2>1. /\ attempt.phase = "response" /\ InProgress
        /\ Registered \in [Sessions -> Peer] /\ attempt.receiver \in Sessions
    BY <1>1, <1>3, RegisteredType, AttemptType DEF FinishSession
  <2>2. ASSUME NEW q, NEW ok \in BOOLEAN, NEW done \in BOOLEAN,
               Confirms(Registered, attempt.receiver, q, ok),
               Activates(q, Restarted, attempt.receiver, done)
        PROVE  active' \in {0, active} \/ active' > active
    <3>1. q \in [Sessions -> Peer]  BY <2>1, <2>2, ConfirmsShrinks DEF Shrinks
    <3> QED  BY <1>2, <2>1, <2>2, <3>1
  <2> QED  BY <1>3, <2>2 DEF FinishSession
<1>4. ASSUME NEW s \in Sessions, SessionConfirmed(s) \/ EnrollmentCompleted(s)
      PROVE  active' \in {0, active} \/ active' > active
  <2>1. InProgress /\ attempt.receiver = s
    BY <1>1, <1>4, AttemptType DEF SessionConfirmed, EnrollmentCompleted, AttemptOf
  <2>2. ActivateAttempt(s) \/ UNCHANGED active
    BY <1>4 DEF SessionConfirmed, EnrollmentCompleted
  <2> QED  BY <1>1, <1>2, <2>1, <2>2 DEF ActivateAttempt
<1>5. CASE \/ Tick \/ Connect \/ Refuse \/ FinishEnrollment \/ Bind \/ Timers \/ Restart
           \/ \E s \in Sessions : PeerEvent(s)
  BY <1>5 DEF Tick, Connect, Refuse, FinishEnrollment, Bind, Timers, Elapse, Restart,
              PeerEvent, coordinatorVars
<1> QED  BY <1>3, <1>4, <1>5 DEF Next, Network

\* No delayed confirmation, of however many attempts, makes an older session the
\* active one again.
THEOREM ActivationAdvances == Spec => ActiveOnlyAdvances
<1>1. IInv /\ [Next]_vars => [active' \in {0, active} \/ active' > active]_vars
  BY AdvanceStep
<1> QED  BY <1>1, InvInit, InvStep, PTL DEF Spec, ActiveOnlyAdvances

=============================================================================
