-------------------------- MODULE EndpointMigration --------------------------
(***************************************************************************)
(* How the Master follows a Node whose source address changes while a      *)
(* session lasts: the Validator (protocol/endpoint.zig), the control plane *)
(* that drives it (control_plane.zig) and the DATA worker's endpoint of    *)
(* the session, with the two queues between the threads and the network.   *)
(*                                                                         *)
(* A challenge is a random value of which the model keeps only whether it  *)
(* is the candidate's: live.  When a candidate is replaced or accepted,    *)
(* its challenge matches nothing any more wherever a copy of it is.        *)
(*                                                                         *)
(* The network delays, reorders and loses datagrams; a duplicate is        *)
(* dropped by the replay window before any of this.                        *)
(***************************************************************************)
EXTENDS Integers, Sequences, FiniteSets

CONSTANTS
  Endpoints, First,   \* First is the endpoint of the handshake
  Capacity,           \* of the command and of the event queue
  WireBound,          \* the Node sends traffic while fewer are in flight
  MaxDisturbances     \* moves of the Node, losses, late or refused messages

NoEndpoint == "none"
ASSUME EndpointsAssumption == First \in Endpoints /\ NoEndpoint \notin Endpoints
ASSUME BoundsAssumption ==
  /\ Capacity \in Nat \ {0} /\ WireBound \in Nat \ {0}
  /\ MaxDisturbances \in Nat

VARIABLES
  node,        \* the Node's endpoint
  wire,        \* [kind, at, live]: at is the Node's side
  events,      \* DATA worker to control plane
  commands,    \* control plane to DATA worker
  current, candidate, candidate_endpoint, \* of the peer
  endpoint,    \* the session's, in the DATA plane
  disturbances,
  heardAt      \* history: where the Node got the live challenge

peerVars == <<current, candidate, candidate_endpoint>>
vars == <<node, wire, events, commands, peerVars, endpoint, disturbances, heardAt>>

NoCandidate == [endpoint |-> NoEndpoint, fresh |-> FALSE]
Traffic(e) == [kind |-> "traffic", at |-> e, live |-> FALSE]
Challenge(e, live) == [kind |-> "challenge", at |-> e, live |-> live]
Response(e, live) == [kind |-> "response", at |-> e, live |-> live]
Observed(e) == [kind |-> "observed", at |-> e, live |-> FALSE]
Update(e) == [kind |-> "update", at |-> e, live |-> FALSE]
Other == [kind |-> "other", at |-> NoEndpoint, live |-> FALSE]
Messages == [kind : {"traffic", "challenge", "response", "observed", "update", "other"},
             at : Endpoints \cup {NoEndpoint}, live : BOOLEAN]
InQueue(queue, m) == \E n \in DOMAIN queue : queue[n] = m
Disturbance ==
  disturbances < MaxDisturbances /\ disturbances' = disturbances + 1

TypeOK ==
  /\ node \in Endpoints
  /\ wire \subseteq Messages
  /\ events \in Seq(Messages) /\ Len(events) <= Capacity
  /\ commands \in Seq(Messages) /\ Len(commands) <= Capacity
  /\ current \in Endpoints
  /\ candidate \in [endpoint : Endpoints, fresh : BOOLEAN] \cup {NoCandidate}
  /\ candidate_endpoint \in Endpoints \cup {NoEndpoint}
  /\ endpoint \in Endpoints /\ disturbances \in 0..MaxDisturbances
  /\ heardAt \in Endpoints \cup {NoEndpoint}
  /\ candidate # NoCandidate => candidate.endpoint # current

Init ==
  /\ node = First
  /\ wire = {} /\ events = <<>> /\ commands = <<>>
  /\ current = First /\ candidate = NoCandidate
  /\ candidate_endpoint = NoEndpoint /\ endpoint = First
  /\ disturbances = 0 /\ heardAt = NoEndpoint

-----------------------------------------------------------------------------
\* No copy of the challenge that was live is any more.
Dead(m) == [m EXCEPT !.live = FALSE]
DeadAll(queue) == [n \in DOMAIN queue |-> Dead(queue[n])]
Supersede ==
  /\ wire' = {Dead(m) : m \in wire}
  /\ heardAt' = NoEndpoint

\* Validator.responseValid: against the candidate there is, not expired, from
\* the same endpoint, and with its challenge.
ResponseToAnyChallenge(e, live) == candidate.fresh /\ candidate.endpoint = e /\ live \in BOOLEAN
responseValid(e, live) == candidate.fresh /\ candidate.endpoint = e /\ live

\* The Validator takes another candidate than the one that is still good for
\* the same endpoint.
RefreshesNever(e) == e # current /\ candidate.endpoint # e
Refreshes(e) == e # current /\ ~(candidate.fresh /\ candidate.endpoint = e)

\* observeEndpoint: when the queue is full the candidate is there but not the
\* endpoint that its challenges are to be sent to.
Observe(e) ==
  IF Refreshes(e)
  THEN /\ candidate' = [endpoint |-> e, fresh |-> TRUE]
       /\ Supersede
       /\ IF Len(commands) < Capacity
          THEN /\ commands' = Append(DeadAll(commands), Challenge(e, TRUE))
               /\ candidate_endpoint' = e
          ELSE /\ commands' = DeadAll(commands)
               /\ UNCHANGED candidate_endpoint
       /\ events' = DeadAll(Tail(events))
       /\ UNCHANGED current
  ELSE /\ events' = Tail(events)
       /\ UNCHANGED <<candidate, candidate_endpoint, current, commands, wire,
                      heardAt>>

\* handleControl, a path response: the DATA worker's update first; the
\* endpoint is current once it is in the queue.
UpdateRegardless(e) ==
  commands' = IF Len(commands) < Capacity THEN Append(DeadAll(commands), Update(e))
              ELSE DeadAll(commands)
SubmitUpdate(e) ==
  /\ Len(commands) < Capacity
  /\ commands' = Append(DeadAll(commands), Update(e))
Accept(e) ==
  /\ SubmitUpdate(e)
  /\ current' = e /\ candidate' = NoCandidate
  /\ candidate_endpoint' = NoEndpoint
  /\ Supersede
  /\ events' = DeadAll(Tail(events))
Ignore ==
  /\ events' = Tail(events)
  /\ UNCHANGED <<candidate, candidate_endpoint, current, commands, wire,
                 heardAt>>

onEvent ==
  /\ events # <<>>
  /\ LET e == Head(events)
         accepted == e.kind = "response" /\ responseValid(e.at, e.live)
     IN  \/ e.kind = "observed" /\ Observe(e.at)
         \/ accepted /\ Accept(e.at)
         \/ accepted /\ Len(commands) = Capacity /\ Ignore
         \/ e.kind = "response" /\ ~accepted /\ Ignore
  /\ UNCHANGED <<node, endpoint, disturbances>>

\* tickPathChallenge.  A second passes once the last challenge has left the
\* queue and the network.
ForgetExpired ==
  /\ candidate # NoCandidate /\ ~candidate.fresh
  /\ candidate_endpoint' = NoEndpoint
  /\ UNCHANGED commands
Retransmit ==
  /\ candidate.fresh /\ candidate_endpoint # NoEndpoint
  /\ Len(commands) < Capacity
  /\ \A n \in DOMAIN commands : commands[n].kind # "challenge"
  /\ \A m \in wire : m.kind = "challenge" => ~m.live
  /\ commands' = Append(commands, Challenge(candidate_endpoint, TRUE))
  /\ UNCHANGED candidate_endpoint
tickPathChallenge ==
  /\ ForgetExpired \/ Retransmit
  /\ UNCHANGED <<node, wire, events, current, candidate, endpoint, disturbances, heardAt>>

-----------------------------------------------------------------------------
\* The DATA worker.  A command is executed; a datagram becomes the observation
\* of its source and, with a control frame in it, a second event.
Execute ==
  /\ commands # <<>>
  /\ commands' = Tail(commands)
  /\ LET c == Head(commands) IN
       \/ c.kind = "challenge" /\ wire' = wire \cup {c} /\ UNCHANGED endpoint
       \/ c.kind = "update" /\ endpoint' = c.at /\ UNCHANGED wire
       \/ c.kind = "other" /\ UNCHANGED <<wire, endpoint>>
  /\ UNCHANGED <<node, events, peerVars, disturbances, heardAt>>

EventsOf(m) ==
  IF m.kind = "traffic" THEN <<Observed(m.at)>> ELSE <<Observed(m.at), m>>
\* pushEvent refuses what does not fit: the queue is full.
Pushed(queue) == SubSeq(queue, 1, IF Len(queue) < Capacity THEN Len(queue) ELSE Capacity)
handleUdp(m) ==
  /\ m \in wire /\ m.kind \in {"traffic", "response"}
  /\ wire' = wire \ {m}
  /\ events' = Pushed(events \o EventsOf(m))
  /\ \/ Len(events) + Len(EventsOf(m)) <= Capacity /\ UNCHANGED disturbances
     \/ Len(events) + Len(EventsOf(m)) > Capacity /\ Disturbance
  /\ UNCHANGED <<node, commands, peerVars, endpoint, heardAt>>

-----------------------------------------------------------------------------
\* The Node and the network.
\* The interval of a keep-alive is longer than an event's wait.
SendTraffic ==
  /\ ~InQueue(events, Observed(node))
  /\ Traffic(node) \notin wire /\ Cardinality(wire) < WireBound
  /\ wire' = wire \cup {Traffic(node)}
  /\ UNCHANGED <<node, events, commands, peerVars, endpoint, disturbances, heardAt>>
Moves == Disturbance /\ node' \in Endpoints \ {node}
\* A challenge reaches the Node, which echoes it from where it is then, or
\* nobody if the Node is elsewhere.
Hear(m) ==
  /\ m \in wire /\ m.kind = "challenge"
  /\ IF m.at = node
     THEN /\ Moves \/ UNCHANGED <<node, disturbances>>
          /\ wire' = (wire \ {m}) \cup {Response(node', m.live)}
          /\ heardAt' = IF m.live THEN node ELSE heardAt
     ELSE wire' = wire \ {m} /\ UNCHANGED <<node, disturbances, heardAt>>
  /\ UNCHANGED <<events, commands, peerVars, endpoint>>
Move ==
  /\ Moves
  /\ UNCHANGED <<wire, events, commands, peerVars, endpoint, heardAt>>
Lose ==
  /\ Disturbance
  /\ \E m \in wire : wire' = wire \ {m}
  /\ UNCHANGED <<node, events, commands, peerVars, endpoint, heardAt>>

\* Other commands fill the queue.
Burst ==
  /\ Disturbance /\ Len(commands) < Capacity
  /\ commands' = Append(commands, Other)
  /\ UNCHANGED <<node, wire, events, peerVars, endpoint, heardAt>>

-----------------------------------------------------------------------------
\* Time.  A round trip takes less than a challenge lasts, except by a
\* disturbance.
Underway ==
  LET c == Challenge(node, TRUE)
      r == Response(candidate.endpoint, TRUE)
  IN  \/ c \in wire \/ InQueue(commands, c) \/ r \in wire \/ InQueue(events, r)
Expire ==
  /\ candidate.fresh /\ candidate' = [candidate EXCEPT !.fresh = FALSE]
  /\ IF Underway THEN Disturbance ELSE UNCHANGED disturbances
  /\ UNCHANGED <<node, wire, events, commands, current, candidate_endpoint,
                 endpoint, heardAt>>
Next ==
  \/ onEvent \/ tickPathChallenge
  \/ Execute \/ \E m \in wire : handleUdp(m) \/ Hear(m)
  \/ SendTraffic \/ Move
  \/ Lose \/ Burst \/ Expire

\* Both threads come round, the Node keeps sending, time passes, and the network
\* delivers: a response in the end when there is room for its two events.
Fairness ==
  /\ WF_vars(onEvent) /\ WF_vars(tickPathChallenge) /\ WF_vars(Execute)
  /\ WF_vars(SendTraffic)
  /\ WF_vars(Expire)
  /\ WF_vars(\E m \in wire : Hear(m))
  /\ WF_vars(\E m \in wire : m.kind = "traffic" /\ handleUdp(m))
  /\ SF_vars(\E m \in wire : m.kind = "response" /\ handleUdp(m))

Spec == Init /\ [][Next]_vars /\ Fairness

-----------------------------------------------------------------------------
\* The Master turns to an endpoint only if the Node was there and got there
\* the very challenge it echoed, however it moves and datagrams are delayed:
\* provided that the challenges went to the candidate (see
\* ChallengedWhereObserved).
OnlyProven ==
  [][current' # current /\ candidate_endpoint = candidate.endpoint =>
       heardAt = current']_vars

\* What the control plane calls current is where the DATA plane sends, or will
\* once it has executed the commands that are queued.
Updates == {n \in DOMAIN commands : commands[n].kind = "update"}
EndpointsAgree ==
  IF Updates = {} THEN endpoint = current
  ELSE \E n \in Updates : (\A k \in Updates : k <= n) /\ commands[n].at = current

\* Once the Node stays where it is and sends, its session follows it there,
\* whatever was lost, late, dropped or from an older address.
FollowsNode == <>[](endpoint = node)

\* "sends an encrypted random challenge there" (threat-model.md:196), to the
\* source it is to prove.
ChallengedWhereObserved ==
  \A n \in DOMAIN commands :
    commands[n].kind = "challenge" /\ commands[n].live =>
      commands[n].at = candidate.endpoint
=============================================================================
