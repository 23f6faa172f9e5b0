--------------------------- MODULE NodeCoordinator ---------------------------
(***************************************************************************)
(* The control thread of a Node: NodeLoop (runtime/service.zig) decides    *)
(* when to connect, NodeCoordinator (runtime/handshake_coordinator.zig)    *)
(* owns the one handshake attempt and the active and draining sessions,    *)
(* and NodePersistenceAdapter (runtime/service_state.zig) keeps the        *)
(* enrollment across crashes.  The coordinator acts on the peers of        *)
(* runtime/control_plane.zig, whose calls appear here by their effect on   *)
(* the peer list; SessionRuntime models what the DATA worker makes of them.*)
(*                                                                         *)
(* The Master and the network are the environment: any reply may come late *)
(* or never.  Of the Master only the binding of the Node's key is kept.    *)
(***************************************************************************)
EXTENDS Integers, FiniteSets

CONSTANTS
  MaxSessions,  \* bound on the receiver ids drawn in a behaviour
  Refusals      \* what may fail: pushes to the "command" and "retirement"
                \* queues, the "install" of a session, writes to the "disk"

ASSUME ParametersAssumption ==
  /\ MaxSessions \in Nat \ {0}
  /\ Refusals \subseteq {"command", "retirement", "install", "disk"}

VARIABLES
  \* NodeCoordinator
  attempt,     \* the handshake in progress, or NoAttempt
  active,      \* active_receiver_id, 0 for null
  draining,    \* draining_receiver_id, 0 for null
  due,         \* the deadlines that have passed: of the attempt, of the drain
  next,        \* the receiver id that freshReceiverId draws next
  \* control plane
  peers,       \* session -> Peer
  \* NodeLoop
  loop,        \* polling, or past the coordinator's tick
  recoveryAttempted,
  \* files of the Node
  enrollment,  \* "none", "staged" (a Node UUID, unenrolled) or "enrolled"
  token,       \* the enrollment token file exists
  \* the Master
  finalSent,   \* some XK message 2 has been sent
  bound        \* the Master has consumed the credential and bound the key

coordinatorVars == <<attempt, active, draining, due, next>>
fileVars == <<enrollment, token>>
masterVars == <<finalSent, bound>>
vars == <<coordinatorVars, peers, loop, recoveryAttempted, fileVars, masterVars>>

Sessions == 1..MaxSessions

\* Session ids are random 64-bit values that no peer uses: here they count up,
\* so that a larger id is a later session.
PeerStates == {"absent", "awaiting", "online", "rekey", "offline"}
Peer == [state : PeerStates, transmit : BOOLEAN, removalQueued : BOOLEAN]
NoPeer == [state |-> "absent", transmit |-> FALSE, removalQueued |-> FALSE]
NewPeer == [state |-> "awaiting", transmit |-> TRUE, removalQueued |-> FALSE]

\* NodeAttempt.  The phase moves from "response" to "confirmation".
Attempt == [kind : {"enrollment", "session"}, receiver : Sessions,
            phase : {"response", "confirmation"}, finalizes : BOOLEAN]
NoAttempt == [kind |-> "none", receiver |-> 0, phase |-> "none",
              finalizes |-> FALSE]
InProgress == attempt # NoAttempt

HasPeer(p, s) == p[s].state # "absent"
Able(s) == HasPeer(peers, s) /\ peers[s].transmit

\* A push to a bounded queue, or a write to disk, succeeds or not.
Accepts(what, ok) == ok \in BOOLEAN /\ (ok \/ what \in Refusals)

-----------------------------------------------------------------------------
(* Calls of the control plane, as functions of the peer list               *)

Silenced(p, s) ==
  IF s # 0 /\ HasPeer(p, s) THEN [p EXCEPT ![s].transmit = FALSE] ELSE p
Removed(p, s) == [p EXCEPT ![s] = NoPeer]

\* abortSession(s) turns p into q and succeeds or not: an unknown session is an
\* error, a full retirement queue leaves a peer that cannot transmit.
Aborts(p, s, q, ok) ==
  \/ ~HasPeer(p, s) /\ ~ok /\ q = p
  \/ HasPeer(p, s) /\ ok /\ q = Removed(p, s)
  \/ /\ HasPeer(p, s) /\ ~ok /\ ~p[s].removalQueued
     /\ "retirement" \in Refusals
     /\ q = Silenced(p, s)
AbortResults(p, s) == {p, Silenced(p, s), Removed(p, s)}

\* confirmAsInitiator(s) turns p into q.  It fails on a peer that is gone or
\* receive-only, and when either of its two commands is refused.
Confirms(p, s, q, ok) ==
  \/ HasPeer(p, s) /\ p[s].transmit /\ ok /\ q = [p EXCEPT ![s].state = "online"]
  \/ ~ok /\ q = p /\ (~p[s].transmit \/ "command" \in Refusals)
ConfirmResults(p, s) == {p, [p EXCEPT ![s].state = "online"]}

\* A peer that goes offline: its retirement is queued if there is room.
GoOffline(s) ==
  \E ok \in BOOLEAN :
    /\ Accepts("retirement", ok)
    /\ peers' = [peers EXCEPT ![s] =
         [state |-> "offline", transmit |-> FALSE,
          removalQueued |-> @.removalQueued \/ ok]]

-----------------------------------------------------------------------------
(* NodeCoordinator                                                         *)

\* The end of activateSession: the previous session drains until a new deadline.
Replaces(d, r) ==
  draining' = active /\ active' = r /\ due' = d \ {"drain"}

\* activateSession(r), on the peer list p and with the deadlines d: the active
\* session turns receive-only and drains, the one that was draining is aborted.
\* A failed abort leaves the active session receive-only and active.
Activates(p, d, r, ok) ==
  \/ /\ active = r /\ ok
     /\ peers' = p /\ due' = d
     /\ UNCHANGED <<active, draining>>
  \/ /\ active # r
     /\ LET q == Silenced(p, active)
        IN \/ /\ draining = 0 /\ ok
              /\ peers' = q
           \/ /\ draining # 0
              /\ peers' \in AbortResults(q, draining)
              /\ Aborts(q, draining, peers', ok)
     /\ \/ ok /\ Replaces(d, r)
        \/ ~ok /\ due' = d /\ UNCHANGED <<active, draining>>

\* beginEnrollment, beginIk: the attempt exists only if message 0 was queued.
Begin(kind, finalizes) ==
  \/ /\ next <= MaxSessions
     /\ attempt' = [kind |-> kind, receiver |-> next, phase |-> "response",
                    finalizes |-> finalizes]
     /\ next' = next + 1
     /\ due' = due \ {"attempt"}
  \/ "command" \in Refusals /\ UNCHANGED <<attempt, next, due>>

\* A reply that does not authenticate or decode ends the attempt, as does an
\* install command or a staging write that fails.
Refuse ==
  /\ loop = "poll" /\ attempt.phase = "response"
  /\ attempt' = NoAttempt
  /\ UNCHANGED <<active, draining, due, next, peers, loop, recoveryAttempted,
                 fileVars, masterVars>>

\* The attempt registers its session and starts a new period of waiting.
Registered == [peers EXCEPT ![attempt.receiver] = NewPeer]
Confirming == [attempt EXCEPT !.phase = "confirmation"]
Restarted == due \ {"attempt"}

\* finishEnrollment for message 1: the assignment is durable before message 2
\* is sent, and SESSION_CONFIRM follows message 2.
FinishEnrollment ==
  /\ loop = "poll"
  /\ attempt.kind = "enrollment" /\ attempt.phase = "response"
  /\ enrollment' = "staged"
  /\ \/ attempt' = NoAttempt /\ "command" \in Refusals
        /\ UNCHANGED <<peers, due, finalSent>>
     \/ /\ attempt' = Confirming /\ due' = Restarted
        /\ \E sent \in BOOLEAN :
             /\ Accepts("command", sent)
             /\ finalSent' = (finalSent \/ sent)
             /\ IF sent
                THEN /\ peers' \in ConfirmResults(Registered, attempt.receiver)
                     /\ \E ok \in BOOLEAN : Confirms(Registered, attempt.receiver, peers', ok)
                ELSE peers' = Registered
  /\ UNCHANGED <<active, draining, next, loop, recoveryAttempted, token, bound>>

\* finishSession for message 1: a Master that has bound the key accepts.  The
\* session is activated only if the confirmation went out at once.
FinishSession ==
  /\ loop = "poll"
  /\ attempt.kind = "session" /\ attempt.phase = "response" /\ bound
  /\ \/ attempt' = NoAttempt /\ "command" \in Refusals
        /\ UNCHANGED <<peers, active, draining, due>>
     \/ /\ attempt' = Confirming
        /\ \E q \in ConfirmResults(Registered, attempt.receiver), ok \in BOOLEAN :
             /\ Confirms(Registered, attempt.receiver, q, ok)
             /\ IF ok
                THEN \E done \in BOOLEAN :
                       Activates(q, Restarted, attempt.receiver, done)
                ELSE /\ peers' = q /\ due' = Restarted
                     /\ UNCHANGED <<active, draining>>
  /\ UNCHANGED <<next, loop, recoveryAttempted, fileVars, masterVars>>

\* completeEnrollment: the enrolled state is durable before the token goes.
DeletesFirst(done) ==
  \/ "disk" \in Refusals /\ ~done /\ UNCHANGED fileVars
  \/ "disk" \in Refusals /\ ~done /\ token' = FALSE /\ UNCHANGED enrollment
  \/ done /\ enrollment' = "enrolled" /\ token' = FALSE
CompletesEnrollment(done) ==
  \/ "disk" \in Refusals /\ ~done /\ UNCHANGED fileVars
  \/ "disk" \in Refusals /\ ~done /\ enrollment' = "enrolled" /\ UNCHANGED token
  \/ done /\ enrollment' = "enrolled" /\ token' = FALSE

\* The last step of both observers.
ActivateAttempt(s) ==
  \E ok \in BOOLEAN :
    /\ Activates(peers, due, s, ok)
    /\ attempt' = IF ok THEN NoAttempt ELSE attempt

\* The callback belongs to the attempt.
AttemptOfAny(s, kind) == attempt.kind = kind
AttemptOf(s, kind) == attempt.kind = kind /\ attempt.receiver = s

\* sessionConfirmed: an authenticated heartbeat or its acknowledgement.
SessionConfirmed(s) ==
  /\ loop = "poll"
  /\ Able(s) /\ peers[s].state # "awaiting"
  /\ AttemptOf(s, "session")
  /\ \/ /\ ~attempt.finalizes
        /\ ActivateAttempt(s)
        /\ UNCHANGED fileVars
     \/ /\ attempt.finalizes
        /\ \/ CompletesEnrollment(TRUE) /\ ActivateAttempt(s)
           \/ CompletesEnrollment(FALSE) /\ UNCHANGED <<attempt, active, draining, due, peers>>
  /\ UNCHANGED <<next, loop, recoveryAttempted, masterVars>>

\* enrollmentCompleted: the Master sends ENROLLMENT_COMPLETE once it has bound
\* the key.
EnrollmentCompleted(s) ==
  /\ loop = "poll" /\ bound
  /\ Able(s) /\ peers[s].state # "awaiting"
  /\ AttemptOf(s, "enrollment")
  /\ \/ CompletesEnrollment(TRUE) /\ ActivateAttempt(s)
     \/ CompletesEnrollment(FALSE) /\ UNCHANGED <<attempt, active, draining, due, peers>>
  /\ UNCHANGED <<next, loop, recoveryAttempted, masterVars>>

\* tick, its part on the attempt: expireAttempt when a deadline has passed,
\* and otherwise a retransmission if its timer has fired.
ForgetAttempt(p) == peers' = p /\ attempt' = NoAttempt
ExpireAttempt(p) ==
  IF HasPeer(p, attempt.receiver)
  THEN /\ peers' \in AbortResults(p, attempt.receiver)
       /\ \E ok \in BOOLEAN :
            /\ Aborts(p, attempt.receiver, peers', ok)
            /\ attempt' = IF ok THEN NoAttempt ELSE attempt
  ELSE ForgetAttempt(p)
TickAttempt(p) ==
  \/ /\ InProgress /\ "attempt" \in due
     /\ ExpireAttempt(p)
     /\ UNCHANGED finalSent
  \/ /\ InProgress /\ "attempt" \notin due /\ attempt.phase = "confirmation"
     /\ finalSent' \in {finalSent, finalSent \/ attempt.kind = "enrollment"}
     /\ peers' \in ConfirmResults(p, attempt.receiver)
     /\ \E ok \in BOOLEAN : Confirms(p, attempt.receiver, peers', ok)
     /\ UNCHANGED attempt
  \/ /\ ~InProgress \/ "attempt" \notin due
     /\ peers' = p
     /\ UNCHANGED <<attempt, finalSent>>

\* tick: the drain first.  Whatever abortSession answers, an error ends it.
Tick ==
  /\ loop = "poll" /\ loop' = "connect"
  /\ \/ /\ draining = 0 \/ "drain" \notin due
        /\ TickAttempt(peers)
        /\ UNCHANGED draining
     \/ /\ draining # 0 /\ "drain" \in due
        /\ \E q \in AbortResults(peers, draining), ok \in BOOLEAN :
             /\ Aborts(peers, draining, q, ok)
             /\ IF ok
                THEN draining' = 0 /\ TickAttempt(q)
                ELSE peers' = q /\ UNCHANGED <<draining, attempt, finalSent>>
  /\ UNCHANGED <<active, due, next, recoveryAttempted, fileVars, bound>>

-----------------------------------------------------------------------------
(* NodeLoop                                                                *)

\* start: IK for an enrolled Node, one recovery by IK of a staged enrollment,
\* and otherwise XK with the credential.
Start ==
  \/ /\ enrollment = "enrolled"
     /\ Begin("session", FALSE)
     /\ UNCHANGED recoveryAttempted
  \/ /\ enrollment = "staged" /\ ~recoveryAttempted
     /\ recoveryAttempted' = TRUE
     /\ Begin("session", TRUE)
  \/ /\ enrollment = "none" \/ (enrollment = "staged" /\ recoveryAttempted)
     /\ Begin("enrollment", FALSE)
     /\ UNCHANGED recoveryAttempted

ActiveState == IF active = 0 THEN "absent" ELSE peers[active].state

\* tickOpaque after the coordinator's tick.  The reconnect backoff may not be
\* ready yet.
Connect ==
  /\ loop = "connect" /\ loop' = "poll"
  /\ \/ /\ ~InProgress /\ ActiveState = "rekey"
        /\ Begin("session", FALSE)
        /\ UNCHANGED recoveryAttempted
     \/ /\ ~InProgress /\ ActiveState \in {"absent", "offline"}
        /\ Start
     \/ UNCHANGED <<attempt, next, due, recoveryAttempted>>
  /\ UNCHANGED <<active, draining, peers, fileVars, masterVars>>

\* The process dies and starts again from its files: cleanup of the token,
\* then NodeLoop.start.
Restart ==
  /\ attempt' = NoAttempt /\ active' = 0 /\ draining' = 0 /\ due' = {}
  /\ peers' = [s \in Sessions |-> NoPeer]
  /\ loop' = "connect" /\ recoveryAttempted' = FALSE
  /\ token' = (token /\ enrollment # "enrolled")
  /\ UNCHANGED <<next, enrollment, masterVars>>

-----------------------------------------------------------------------------
(* Events and timers of the control plane, and the environment             *)

\* session_command_failed: the DATA worker refused the session.
Fail(s) ==
  /\ "install" \in Refusals /\ HasPeer(peers, s)
  /\ peers' = Removed(peers, s)

\* rekey_due and rotate_key
RekeyDue(s) ==
  /\ Able(s) /\ peers[s].state = "online"
  /\ peers' = [peers EXCEPT ![s].state = "rekey"]

\* goodbye, or offline_interval_ns of silence
Lose(s) ==
  /\ Able(s) /\ peers[s].state \in {"online", "rekey"}
  /\ GoOffline(s)

\* The timer of an offline peer offers its retirement again.
RetryRetirement(s) ==
  /\ peers[s].state = "offline" /\ ~peers[s].removalQueued
  /\ GoOffline(s)

PeerEvent(s) ==
  /\ loop = "poll"
  /\ Fail(s) \/ RekeyDue(s) \/ Lose(s) \/ RetryRetirement(s)
  /\ UNCHANGED <<coordinatorVars, loop, recoveryAttempted, fileVars, masterVars>>

\* The monotonic clock passes a deadline.
Elapse(t) ==
  /\ t \notin due
  /\ \/ t = "attempt" /\ InProgress
     \/ t = "drain" /\ draining # 0
  /\ due' = due \cup {t}
  /\ UNCHANGED <<attempt, active, draining, next, peers, loop,
                 recoveryAttempted, fileVars, masterVars>>

\* The Master receives a message 2, consumes the credential and binds the key.
Bind ==
  /\ finalSent /\ ~bound
  /\ bound' = TRUE
  /\ UNCHANGED <<coordinatorVars, peers, loop, recoveryAttempted, fileVars, finalSent>>

-----------------------------------------------------------------------------
Init ==
  /\ attempt = NoAttempt /\ active = 0 /\ draining = 0 /\ due = {}
  /\ next = 1
  /\ peers = [s \in Sessions |-> NoPeer]
  /\ loop = "connect" /\ recoveryAttempted = FALSE
  /\ enrollment = "none" /\ token = TRUE
  /\ finalSent = FALSE /\ bound = FALSE

Network ==
  \/ Refuse \/ FinishEnrollment \/ FinishSession
  \/ \E s \in Sessions : SessionConfirmed(s)
  \/ \E s \in Sessions : EnrollmentCompleted(s)
  \/ \E s \in Sessions : PeerEvent(s)
  \/ Bind
Timers == \E t \in {"attempt", "drain"} : Elapse(t)
Next == Tick \/ Connect \/ Network \/ Timers \/ Restart

\* The control loop polls at least every 100 ms and the clock advances; no
\* reply, event or crash is assumed.
Fairness ==
  /\ WF_vars(Tick) /\ WF_vars(Connect)
  /\ \A t \in {"attempt", "drain"} : WF_vars(Elapse(t))
Spec == Init /\ [][Next]_vars /\ Fairness

-----------------------------------------------------------------------------
(* Properties                                                              *)

\* Types; a session is active or drains, and every id was drawn before.
TypeOK ==
  /\ attempt \in Attempt \cup {NoAttempt}
  /\ active \in Sessions \cup {0} /\ draining \in Sessions \cup {0}
  /\ active # 0 => active # draining
  /\ {attempt.receiver, active, draining} \subseteq 0..(next - 1)
  /\ due \subseteq {"attempt", "drain"}
  /\ next \in 1..(MaxSessions + 1)
  /\ peers \in [Sessions -> Peer]
  /\ loop \in {"poll", "connect"} /\ recoveryAttempted \in BOOLEAN
  /\ enrollment \in {"none", "staged", "enrolled"} /\ token \in BOOLEAN
  /\ finalSent \in BOOLEAN /\ bound \in BOOLEAN

\* The coordinator loses track of no peer: every one in the control plane's list
\* is the active session, the draining one or the attempt's, and an unconfirmed
\* one is the attempt's.  Nothing else ever aborts a peer.
NoStrayPeer ==
  \A s \in Sessions : HasPeer(peers, s) =>
    /\ s \in {active, draining, attempt.receiver}
    /\ peers[s].state = "awaiting" => s = attempt.receiver

\* A Node that is not durably enrolled still has its token file, without which
\* it cannot start, and one that believes itself enrolled is bound at the Master:
\* whatever write fails and wherever the process dies.
NeverStranded ==
  IF enrollment = "enrolled" THEN bound ELSE token

\* A late confirmation never makes an older session the active one again.
ActiveOnlyAdvances == [][active' \in {0, active} \/ active' > active]_vars

\* A replacement whose SESSION_CONFIRM is queued has made the previous control
\* peer receive-only.
SupersededIsReceiveOnly ==
  \A s, t \in Sessions :
    /\ s < t
    /\ peers[t].state = "online" /\ peers[s].state \in {"online", "rekey"}
    => ~peers[s].transmit

\* An attempt completes or fails, so that reconnect backoff can apply.
AttemptEnds == InProgress ~> ~InProgress
=============================================================================
