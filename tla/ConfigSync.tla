----------------------------- MODULE ConfigSync -----------------------------
(***************************************************************************)
(* Configuration publication between the Master and one Node:              *)
(* MasterPublisher and NodeApplier of runtime/configuration_runtime.zig    *)
(* with the Receiver of runtime/config_sync.zig.  Each committed generation*)
(* is sent as a BEGIN and its chunks, again every second until the Node    *)
(* acknowledges generation, request and hash; the Node installs it in its  *)
(* DATA worker before it acknowledges.  Transport sessions come, are       *)
(* superseded and go offline under both ends.                              *)
(*                                                                         *)
(* A snapshot is identified by the store generation it was built from: its *)
(* hash, and the bytes of its chunks, differ from those of another.  The   *)
(* network delays, reorders and loses; a frame that was sent once may have *)
(* been sent any number of times, each time in a packet of its own, so a   *)
(* sent frame stays deliverable.  Frames of a session that its receiver has *)
(* closed are dropped on arrival, and leave the model at once.             *)
(***************************************************************************)
EXTENDS Integers, FiniteSets

CONSTANTS
  MaxGeneration,  \* bound on the committed generations
  MaxSessions,    \* bound on the transport sessions
  Chunks,         \* chunks of a snapshot
  MaxFaults,      \* bound on the faults and rekeys of a behaviour
  Faults          \* which they are: a command push is "refused", a session goes
                  \* "offline", a "reset" of the Node, and the "rekey" of a
                  \* session in use, which is no fault but bounded with them

ASSUME ParametersAssumption ==
  /\ MaxGeneration \in Nat \ {0} /\ MaxSessions \in Nat \ {0}
  /\ MaxFaults \in Nat /\ Chunks \in Nat \ {0}
  /\ Faults \subseteq {"refused", "offline", "reset", "rekey"}

VARIABLES
  store,       \* Master: generation of the committed store
  effective,   \* Master: MasterPublisher.effective_generation
  enrolled,    \* Master: the Node's key is bound
  links,       \* Master: session -> its control-plane peer
  published,   \* Master: the Node's PublishedPeer, or NotPublished
  slot,        \* Master: the confirmed session whose handshake slot is kept
  requests,    \* Master: session -> request bases drawn
  up,          \* the processes that run, of "master" and "node"
  peers,       \* Node: session -> its control-plane peer
  applier,     \* Node: the NodeApplier
  receiver,    \* Node: its Receiver, or Idle
  installed,   \* Node: snapshot in the DATA worker
  sent,        \* frames the Master has sent
  acks,        \* acknowledgements the Node has sent
  faults,      \* faults and rekeys so far
  left         \* history of the Node: session -> the newest generation it had
               \* applied in it when it went back to the session that was
               \* still open, before it had activated this one

masterVars == <<store, effective, enrolled, links, published, slot, requests>>
nodeVars == <<peers, applier, receiver, installed, left>>
syncVars == <<masterVars, nodeVars, up, sent, acks, faults>>

Sessions == 1..MaxSessions
Generations == 1..MaxGeneration
Parts == 0..Chunks  \* part 0 is the BEGIN
Requests == 1..(MaxGeneration + MaxFaults)
None == 0

\* "open": transmit_enabled; "closed": receive-only, superseded or offline.
LinkStates == {"absent", "open", "closed"}

Published == [session : Sessions, acked : Generations \cup {None},
              pending : Generations \cup {None}, request : Requests \cup {None},
              content : Generations \cup {None}]
NotPublished == [session |-> None, acked |-> None, pending |-> None,
                 request |-> None, content |-> None]

Frame == [session : Sessions, part : Parts, generation : Generations,
          request : Requests, content : Generations]
Ack == [session : Sessions, generation : Generations, request : Requests,
        content : Generations]

\* active_receiver_id, applied_*, pending_* and ack_due.
Applier == [active : Sessions \cup {None},
            applied : Generations \cup {None}, appliedContent : Generations \cup {None},
            installing : BOOLEAN, session : Sessions \cup {None},
            pending : Generations \cup {None}, pendingContent : Generations \cup {None},
            request : Requests \cup {None}, ackDue : BOOLEAN]
Fresh == [active |-> None, applied |-> None, appliedContent |-> None,
          installing |-> FALSE, session |-> None, pending |-> None,
          pendingContent |-> None, request |-> None, ackDue |-> FALSE]

\* The chunks received so far, each with the snapshot its bytes are of.
Receiver == [generation : Generations, content : Generations,
             got : [1..Chunks -> Generations \cup {None}]]
Idle == [generation |-> None, content |-> None, got |-> [i \in 1..Chunks |-> None]]

May(fault) == fault \in Faults /\ faults < MaxFaults
Refused == May("refused")
Counts(happened) == faults' = IF happened THEN faults + 1 ELSE faults

StillHeard(ends, frames) == {f \in frames : ends[f.session] # "closed"}

-----------------------------------------------------------------------------
(* MasterPublisher                                                         *)

\* The generation in force, which the tick also reads off the store.
LastNotice == effective
Effective == IF store > effective THEN store ELSE effective

\* clearPending, with the generation acknowledged
Settled(p, acked) == [p EXCEPT !.acked = acked, !.pending = None,
                               !.request = None, !.content = None]

\* prepare: the snapshot of the store as it is, labelled with the generation
\* that is effective; its request ids are new to the session.
Prepared(p, generation) ==
  [p EXCEPT !.pending = generation, !.request = requests[p.session] + 1,
            !.content = store]

\* transmit: the frames of p up to the first one the command queue refuses.
Transmission(p, accepted) ==
  {[session |-> p.session, part |-> i, generation |-> p.pending,
    request |-> p.request, content |-> p.content] : i \in 0..(accepted - 1)}
All == Chunks + 1
AcceptedFrames == IF Refused THEN 0..All ELSE {All}

\* tick of the publisher.  It may find the resend timer of a pending generation
\* still running.  A peer that cannot transmit is an error that reaches
\* runControlLoop and ends the process, except that a generation already
\* pending for an unknown session is dropped.
PublisherTick(accepted, timer) ==
  LET eff == Effective
      p == published
      isNew == p.pending = None /\ p.acked < eff
      q == IF isNew THEN Prepared(p, eff) ELSE p
      link == IF p.session = None THEN "absent" ELSE links[p.session]
      sends == q.pending # None /\ (isNew \/ timer)
  IN /\ effective' = eff
     /\ \/ /\ p = NotPublished
           /\ UNCHANGED <<published, requests, sent, up, faults>>
        \/ /\ p # NotPublished /\ ~enrolled
           /\ published' = NotPublished
           /\ UNCHANGED <<requests, sent, up, faults>>
        \/ /\ p # NotPublished /\ enrolled
           /\ link # "open" /\ (isNew \/ (sends /\ link = "closed"))
           /\ up' = up \ {"master"}
           /\ UNCHANGED <<published, requests, sent, faults>>
        \/ /\ p # NotPublished /\ enrolled
           /\ link = "absent" /\ ~isNew /\ sends
           /\ published' = NotPublished
           /\ UNCHANGED <<requests, sent, up, faults>>
        \/ /\ p # NotPublished /\ enrolled
           /\ link = "open" \/ ~sends
           /\ published' = q
           /\ requests' = IF isNew THEN [requests EXCEPT ![p.session] = @ + 1]
                          ELSE requests
           /\ sent' = IF sends THEN sent \cup Transmission(q, accepted) ELSE sent
           /\ Counts(sends /\ accepted < All)
           /\ UNCHANGED up
     /\ UNCHANGED <<store, enrolled, links, slot, nodeVars, acks>>

\* sessionReadyOpaque, which the coordinator calls on each confirmation while
\* the handshake slot of the session is kept.  A refused push, or a refused
\* completion signal after it, keeps the slot.
Ready(s) ==
  LET p == Prepared([NotPublished EXCEPT !.session = s], effective)
  IN \E accepted \in AcceptedFrames :
       /\ published' = p
       /\ requests' = [requests EXCEPT ![s] = @ + 1]
       /\ sent' = sent \cup Transmission(p, accepted)
       /\ slot' \in IF accepted < All THEN {s} ELSE IF Refused THEN {s, None} ELSE {None}
       /\ Counts(slot' = s)
       /\ acks' = StillHeard(links', acks)

\* receiveOpaque on the Master: only the exact generation, request and hash.
MatchesPending(a) ==
  /\ published.session = a.session /\ published.pending = a.generation
  /\ published.request = a.request /\ published.content = a.content
ReceiveAck(a) ==
  /\ links[a.session] = "open"
  /\ published' = IF MatchesPending(a) THEN Settled(published, a.generation)
                  ELSE published
  /\ UNCHANGED <<store, effective, enrolled, links, slot, requests,
                 nodeVars, up, sent, acks, faults>>

-----------------------------------------------------------------------------
(* The rest of the Master, as far as it changes what the publisher sees    *)

\* A mutation commits.  generationChanged follows it for settings; an inventory
\* commit leaves the notice to the publisher's next tick.
Commit ==
  /\ store < MaxGeneration
  /\ store' = store + 1
  /\ effective' \in {effective, store'}
  /\ UNCHANGED <<enrolled, links, published, slot, requests,
                 nodeVars, up, sent, acks, faults>>

\* The first confirmation of a session activates it and supersedes the current
\* one.  Whether a superseded session still drains or is gone makes no difference
\* to the publisher.
Newest == Cardinality({s \in Sessions : peers[s] # "absent"})
Supersedes(s) ==
  [t \in Sessions |-> IF t = s THEN "open"
                      ELSE IF links[t] = "open" THEN "closed" ELSE links[t]]
Confirm(s) ==
  /\ s = Newest /\ links[s] = "absent" /\ requests[s] = 0 /\ enrolled
  /\ links' = Supersedes(s)
  /\ Ready(s)
  /\ UNCHANGED <<store, effective, enrolled, nodeVars, up>>

\* A heartbeat of the session while its slot is kept.
ConfirmAgain(s) ==
  /\ s = slot /\ links[s] = "open"
  /\ UNCHANGED <<store, effective, enrolled, links, nodeVars, up>>
  /\ Ready(s)

\* The slot's deadline passes: its session is aborted, although it is current.
ExpireSlot ==
  /\ slot # None
  /\ links' = [links EXCEPT ![slot] = "absent"]
  /\ slot' = None
  /\ UNCHANGED <<store, effective, enrolled, published, requests,
                 nodeVars, up, sent, acks, faults>>

\* offline_interval_ns of silence, or a goodbye
MasterOffline(s) ==
  /\ May("offline") /\ Counts(TRUE) /\ links[s] = "open"
  /\ links' = [links EXCEPT ![s] = "closed"]
  /\ acks' = StillHeard(links', acks)
  /\ UNCHANGED <<store, effective, enrolled, published, slot, requests,
                 nodeVars, up, sent>>

\* A reset of the Node unbinds it and removes its sessions.  A later enrollment
\* would start this module anew.
Reset ==
  /\ May("reset") /\ Counts(TRUE) /\ enrolled
  /\ enrolled' = FALSE
  /\ links' = [s \in Sessions |-> "absent"]
  /\ slot' = None
  /\ UNCHANGED <<store, effective, published, requests,
                 nodeVars, up, sent, acks>>

-----------------------------------------------------------------------------
(* NodeApplier                                                             *)

Transmits(s) == s # None /\ peers[s] \in {"attempt", "open"}

\* receiveOpaque turns every error into fatal_error, which the next tick returns
\* to runControlLoop: the Node process ends.
NodeFails ==
  /\ up' = up \ {"node"}
  /\ UNCHANGED <<masterVars, nodeVars, sent, acks, faults>>

\* The acknowledgement of what is applied, with the ids of the latest BEGIN.
AckOf(a) == [session |-> a.session, generation |-> a.applied,
             request |-> a.request, content |-> a.appliedContent]

\* selectAuthenticatedSession of a session that transmits.
Selected(s) ==
  [applier EXCEPT !.active = s, !.applied = None, !.appliedContent = None,
                  !.ackDue = FALSE]

\* receive of a BEGIN.  The request id is taken from every BEGIN that is not
\* stale, before it is known what becomes of the snapshot.
Started(f) == [Idle EXCEPT !.generation = f.generation, !.content = f.content]
NeverStale(f) == FALSE
IsStale(f) == f.generation < applier.applied
IsApplied(f) == f.generation = applier.applied /\ f.content = applier.appliedContent
IsPending(f) == f.generation = applier.pending /\ f.content = applier.pendingContent

\* Of the active session.  What is applied is acknowledged again, by the tick
\* that follows at once.
BeginAgain(f) ==
  LET a == [applier EXCEPT !.request = f.request]
      due == [a EXCEPT !.session = f.session, !.ackDue = TRUE]
  IN /\ f.session = applier.active /\ UNCHANGED left
     /\ \/ /\ IsStale(f)
           /\ UNCHANGED <<applier, receiver, up, acks, faults>>
        \/ /\ ~IsStale(f) /\ IsApplied(f)
           /\ \/ /\ applier' = [due EXCEPT !.ackDue = FALSE]
                 /\ acks' = acks \cup {AckOf(due)} /\ Counts(FALSE)
              \/ Refused /\ applier' = due /\ UNCHANGED acks /\ Counts(TRUE)
           /\ UNCHANGED <<receiver, up>>
        \/ /\ ~IsStale(f) /\ ~IsApplied(f) /\ applier.installing
           /\ applier' = a
           /\ up' = IF IsPending(f) \/ f.generation <= applier.pending THEN up
                    ELSE up \ {"node"}
           /\ UNCHANGED <<receiver, acks, faults>>
        \/ /\ ~IsStale(f) /\ ~IsApplied(f) /\ ~applier.installing
           /\ applier' = a /\ receiver' = Started(f)
           /\ UNCHANGED <<up, acks, faults>>

\* Of another session, an older one too while it transmits: nothing counts as
\* applied in it yet.
GoesBack(older) ==
  older < applier.active /\ peers[older] = "open" /\ peers[applier.active] # "open"
Abandoned(older) ==
  IF GoesBack(older) /\ applier.applied > left[applier.active]
  THEN [left EXCEPT ![applier.active] = applier.applied] ELSE left
BeginFirst(f) ==
  /\ f.session # applier.active /\ ~applier.installing
  /\ left' = Abandoned(f.session)
  /\ applier' = [Selected(f.session) EXCEPT !.request = f.request]
  /\ receiver' = Started(f)
  /\ UNCHANGED <<up, acks, faults>>

ReceiveBegin(f) ==
  /\ f.part = 0 /\ Transmits(f.session)
  /\ BeginAgain(f) \/ BeginFirst(f)
  /\ UNCHANGED <<masterVars, peers, installed, sent>>

\* receive of a chunk: accept, and once all are there finish and apply.  The
\* hash is of the BEGIN; chunks of another snapshot are an error, and so is a
\* command queue that has no room for the install.
Collected(f) == [receiver.got EXCEPT ![f.part] = f.content]
Conflicts(f) == receiver.got[f.part] \notin {None, f.content}
Complete(got) == \A i \in DOMAIN got : got[i] # None
Intact(got) == \A i \in DOMAIN got : got[i] = receiver.content
ReceiveChunk(f) ==
  /\ f.part # 0 /\ Transmits(f.session)
  /\ f.session = applier.active /\ ~applier.installing
  /\ f.generation = receiver.generation
  /\ LET got == Collected(f)
     IN \/ /\ Conflicts(f) \/ (Complete(got) /\ (Refused \/ ~Intact(got)))
           /\ NodeFails
        \/ /\ ~Conflicts(f) /\ ~Complete(got)
           /\ receiver' = [receiver EXCEPT !.got = got]
           /\ UNCHANGED <<masterVars, peers, applier, installed, left, up, sent, acks,
                          faults>>
        \/ /\ ~Conflicts(f) /\ Complete(got) /\ Intact(got)
           /\ applier' = [applier EXCEPT !.installing = TRUE, !.session = f.session,
                             !.pending = receiver.generation,
                             !.pendingContent = receiver.content]
           /\ receiver' = Idle
           /\ UNCHANGED <<masterVars, peers, installed, left, up, sent, acks, faults>>

\* The DATA worker installs the snapshot, and its event runs installedOpaque.
Install ==
  /\ applier.installing
  /\ installed' = applier.pendingContent
  /\ applier' = [applier EXCEPT !.installing = FALSE, !.ackDue = TRUE,
                    !.applied = applier.pending,
                    !.appliedContent = applier.pendingContent]
  /\ UNCHANGED <<masterVars, peers, receiver, left, up, sent, acks, faults>>

\* tick of the applier: a refused push is tried again, a session that cannot
\* transmit ends the process.
ApplierTick ==
  /\ applier.ackDue
  /\ \/ /\ Transmits(applier.session)
        /\ acks' = acks \cup {AckOf(applier)}
        /\ applier' = [applier EXCEPT !.ackDue = FALSE]
        /\ UNCHANGED <<masterVars, peers, receiver, installed, left, up, sent, faults>>
     \/ ~Transmits(applier.session) /\ NodeFails

-----------------------------------------------------------------------------
(* The rest of the Node, as far as it changes what the applier sees        *)

\* A session of a handshake: a rekey beside the open session, or a reconnect.
\* The one before it that the Master never confirmed has expired.
ClosesNone(p, states) == p
Closed(p, states) == [s \in Sessions |-> IF p[s] \in states THEN "closed" ELSE p[s]]
Connect ==
  /\ Newest < MaxSessions
  /\ LET inUse == \E s \in Sessions : peers[s] = "open"
     IN (inUse => May("rekey")) /\ Counts(inUse)
  /\ peers' = [Closed(peers, {"attempt"}) EXCEPT ![Newest + 1] = "attempt"]
  /\ sent' = StillHeard(peers', sent)
  /\ UNCHANGED <<masterVars, applier, receiver, installed, left, up, acks>>

\* Liveness of the Master on the attempt activates it: the session before it
\* becomes receive-only.
Activate(s) ==
  /\ peers[s] = "attempt" /\ requests[s] > 0
  /\ peers' = [Closed(peers, {"open"}) EXCEPT ![s] = "open"]
  /\ sent' = StillHeard(peers', sent)
  /\ UNCHANGED <<masterVars, applier, receiver, installed, left, up, acks, faults>>

NodeOffline(s) ==
  /\ May("offline") /\ Counts(TRUE) /\ peers[s] = "open"
  /\ peers' = [peers EXCEPT ![s] = "closed"]
  /\ sent' = StillHeard(peers', sent)
  /\ UNCHANGED <<masterVars, applier, receiver, installed, left, up, acks>>

-----------------------------------------------------------------------------
SyncInit ==
  /\ store = 1 /\ effective = 1 /\ enrolled = TRUE
  /\ links = [s \in Sessions |-> "absent"]
  /\ published = NotPublished /\ slot = None
  /\ requests = [s \in Sessions |-> 0]
  /\ up = {"master", "node"}
  /\ peers = [s \in Sessions |-> "absent"]
  /\ applier = Fresh /\ receiver = Idle /\ installed = None
  /\ sent = {} /\ acks = {} /\ faults = 0
  /\ left = [s \in Sessions |-> None]

Publisher ==
  \/ \E accepted \in AcceptedFrames, timer \in BOOLEAN : PublisherTick(accepted, timer)
  \/ \E a \in acks : ReceiveAck(a)
Master ==
  \/ Commit
  \/ \E s \in Sessions : Confirm(s)
  \/ \E s \in Sessions : ConfirmAgain(s)
  \/ ExpireSlot
  \/ \E s \in Sessions : MasterOffline(s)
  \/ Reset
Node ==
  \/ \E f \in sent : ReceiveBegin(f)
  \/ \E f \in sent : ReceiveChunk(f)
  \/ Install
  \/ ApplierTick
  \/ Connect
  \/ \E s \in Sessions : Activate(s)
  \/ \E s \in Sessions : NodeOffline(s)
\* To the survivor, a process that ended is a peer that goes offline: the model
\* stops there.
Running == up = {"master", "node"}

\* The last packets of what is no longer sent have arrived or are lost.
OfPending(f) ==
  /\ f.session = published.session /\ f.generation = published.pending
  /\ f.request = published.request
Fade ==
  /\ sent # {f \in sent : OfPending(f)}
  /\ sent' = {f \in sent : OfPending(f)}
  /\ UNCHANGED <<masterVars, nodeVars, up, acks, faults>>
SyncNext == Running /\ (Publisher \/ Master \/ Node \/ Fade)

\* Both loops turn at least every 100 ms and push when their queues have room.
\* What is pending is sent every second and all of it gets through now and then,
\* the last chunk missing too before the next BEGIN restarts the reassembly.
Progress ==
  /\ WF_syncVars(Running /\ PublisherTick(All, TRUE))
  /\ WF_syncVars(Running /\ \E a \in acks : MatchesPending(a) /\ ReceiveAck(a))
  /\ WF_syncVars(Running /\ \E f \in sent : OfPending(f) /\ ReceiveBegin(f))
  /\ \A i \in 1..Chunks :
       WF_syncVars(Running /\ \E f \in sent :
                 f.part = i /\ OfPending(f) /\ ReceiveChunk(f))
  /\ SF_syncVars(Running /\ \E f \in sent :
               f.part # 0 /\ OfPending(f) /\ Complete(Collected(f)) /\ ReceiveChunk(f))
  /\ WF_syncVars(Running /\ Fade)
  /\ WF_syncVars(Running /\ Install)
  /\ WF_syncVars(Running /\ ApplierTick)
SyncSpec == SyncInit /\ [][SyncNext]_syncVars /\ Progress

-----------------------------------------------------------------------------
(* Properties                                                              *)

\* Types; generation, request and content are pending together; what is being
\* installed has a session to acknowledge it in.
SyncTypeOK ==
  /\ store \in Generations /\ effective \in Generations /\ enrolled \in BOOLEAN
  /\ effective <= store
  /\ links \in [Sessions -> LinkStates]
  /\ published \in Published \cup {NotPublished}
  /\ slot \in Sessions \cup {None}
  /\ requests \in [Sessions -> Requests \cup {None}]
  /\ up \subseteq {"master", "node"}
  /\ peers \in [Sessions -> {"absent", "attempt", "open", "closed"}]
  /\ published.pending = None <=> published.request = None
  /\ published.pending = None <=> published.content = None
  /\ applier.installing \/ applier.ackDue => applier.session # None
  /\ applier \in Applier /\ receiver \in Receiver \cup {Idle}
  /\ installed \in Generations \cup {None}
  /\ left \in [Sessions -> Generations \cup {None}]
  /\ sent \subseteq Frame /\ acks \subseteq Ack
  /\ faults \in 0..MaxFaults

\* What the Master takes for acknowledged in its current session is in force on
\* the Node: no delayed frame of an older generation undoes it, and none of the
\* session before a rekey, unless that was before the Node activated the new
\* session and had this generation, or a newer one, applied in it.
AcknowledgedStays ==
  published.session # None /\ published.acked > left[published.session]
    => installed >= published.acked

\* That nothing undoes it at all, which a rekey refutes (ConfigSyncRekey.cfg).
AckedIsInstalled == published.acked # None => installed >= published.acked

\* While one session lasts at both ends, the Node ends up with the snapshot of
\* the committed store, whatever was refused, lost, reordered or labelled with
\* an older generation before, and the Master knows it.  A generation that the
\* Node left behind during a rekey is not sent again: that takes a newer one.
Linked ==
  /\ Running /\ enrolled /\ published.session # None
  /\ links[published.session] = "open" /\ Transmits(published.session)
Synced == installed = store /\ published.acked = store
NotLeft == published.session # None /\ left[published.session] < store
Converges == <>[](Linked /\ NotLeft) => <>[]Synced

\* The Master survives a Node that goes offline: it keeps the generation for it.
MasterKeepsRunning == "master" \in up
=============================================================================
