---------------------------- MODULE Connectivity ----------------------------
(***************************************************************************)
(* Connectivity checks of the Master: the operator's request and its row   *)
(* in the database (operations_service.zig, operations_repository.zig),    *)
(* the Channel between the control thread and the DATA worker              *)
(* (connectivity.zig) and the recorder of results                          *)
(* (connectivity_runtime.zig), with stops, kills and restarts.             *)
(*                                                                         *)
(* The two queues are FifoQueues, which SpscQueue implements.  What the    *)
(* DATA worker knows of completions consumed is what the control thread    *)
(* had consumed when it submitted the last request the worker has taken.   *)
(***************************************************************************)
EXTENDS Integers, Sequences, FiniteSets

CONSTANTS
  MaxChecks,   \* checks are started in this order, under fresh ids
  Capacity,    \* of both queues and of the correlator
  Faults,      \* what goes wrong: subset of {"database", "clock", "kill", "worker"}
  MaxFaults

ASSUME CapacityAssumption == Capacity \in Nat /\ Capacity >= 2
ASSUME BoundsAssumption == MaxChecks \in Nat /\ MaxFaults \in Nat

VARIABLES
  record,      \* connectivity_checks in the database: check -> status
  ahead,       \* rows whose timestamps the wall clock has fallen behind
  requests,    \* [check, consumed], control to DATA
  slots,       \* the correlator's
  count,       \* and how many it believes to be taken
  overdue,     \* pending checks whose deadline has passed
  sent,        \* probes sent: a reply may come at any time, repeatedly
  completions, \* [check, status], DATA to control
  outstanding, \* admission counter
  pending,     \* the recorder's completion that is not in the database yet
  starting,    \* [check, at]: the operator's request being served
  process,     \* "up", "final" (DATA thread joined, last poll), "down"
  worker,      \* "running", "ending" (interruptAll) or "ended"
  stop,        \* lifecycle.requestStop
  faults,
  \* history
  published, consumed,   \* completions pushed and popped
  known,                 \* pops the worker has to have seen
  refused,               \* the assertion of publish failed
  asked                  \* to stop, by an operator, a kill or the worker

channelVars == <<requests, slots, count, overdue, sent, completions, outstanding,
                 published, consumed, known, refused>>
rowVars == <<record, ahead>>
runVars == <<process, worker, stop, asked>>
vars == <<channelVars, rowVars, runVars, pending, starting, faults>>

Checks == 1..MaxChecks
None == 0
Terminal == {"succeeded", "failed", "timed_out", "interrupted"}
Statuses == {"none", "queued", "running"} \cup Terminal
Active == {c \in Checks : record[c] \in {"queued", "running"}}
Nobody == [check |-> None, status |-> "none"]
Pending == {slots[i] : i \in 1..Capacity} \ {None}

EmptySlots == [i \in 1..Capacity |-> None]
NotStarting == [check |-> None, at |-> "idle"]
Init ==
  /\ record = [c \in Checks |-> "none"] /\ ahead = {}
  /\ requests = <<>> /\ completions = <<>> /\ outstanding = 0
  /\ slots = EmptySlots /\ count = 0 /\ overdue = {} /\ sent = {}
  /\ pending = Nobody /\ starting = NotStarting
  /\ process = "up" /\ worker = "running" /\ stop = FALSE
  /\ published = 0 /\ consumed = 0 /\ known = 0
  /\ refused = FALSE /\ asked = FALSE /\ faults = 0

Fault(kind) == kind \in Faults /\ faults < MaxFaults /\ faults' = faults + 1

\* The process ends and its memory is gone.
Ends ==
  /\ requests' = <<>> /\ completions' = <<>> /\ outstanding' = 0
  /\ slots' = EmptySlots /\ count' = 0 /\ overdue' = {} /\ sent' = {}
  /\ pending' = Nobody /\ starting' = NotStarting
  /\ process' = "down" /\ worker' = "running" /\ stop' = FALSE
  /\ published' = 0 /\ consumed' = 0 /\ known' = 0
  /\ refused' = FALSE /\ asked' = FALSE

-----------------------------------------------------------------------------
\* The database.
transitionAllowed(from, to) ==
  \/ from = "queued" /\ to \in {"running", "failed", "interrupted"}
  \/ from = "running" /\ to \in Terminal

\* transitionConnectivityCheck refuses an illegal step and a time before the
\* row's own: late says that the time is that of the wall clock now, not that
\* of the request.
CanTransition(c, to, late) ==
  transitionAllowed(record[c], to) /\ ~(late /\ c \in ahead)
Transition(c, to, late) ==
  /\ CanTransition(c, to, late)
  /\ record' = [record EXCEPT ![c] = to]
  /\ UNCHANGED <<ahead, faults>>
TransitionFails(c, to, late) ==
  /\ UNCHANGED rowVars
  /\ \/ ~CanTransition(c, to, late) /\ UNCHANGED faults
     \/ CanTransition(c, to, late) /\ Fault("database")

\* The wall clock is set back, and catches up.
SetBack ==
  /\ Fault("clock") /\ Active # {}
  /\ ahead' = Active
  /\ UNCHANGED <<record, channelVars, runVars, pending, starting>>
CatchUp ==
  /\ ahead # {} /\ ahead' = {}
  /\ UNCHANGED <<record, channelVars, runVars, pending, starting, faults>>

-----------------------------------------------------------------------------
\* The control thread.  startConnectivityCheck inserts the row, dispatches,
\* and marks the row: the DATA worker runs in between.
Idle == process = "up" /\ starting.at = "idle"

Create(c) ==
  /\ Idle /\ ~stop
  /\ record[c] = "none" /\ \A d \in Checks : d < c => record[d] # "none"
  /\ record' = [record EXCEPT ![c] = "queued"]
  /\ starting' = [check |-> c, at |-> "dispatch"]
  /\ UNCHANGED <<ahead, channelVars, runVars, pending, faults>>

\* Channel.submit: a place among the outstanding, then one in the queue.
AdmitsOneMore == outstanding <= Capacity
Admits == outstanding < Capacity
Submit ==
  /\ process = "up" /\ starting.at = "dispatch"
  /\ Admits
  /\ Len(requests) < Capacity
  /\ outstanding' = outstanding + 1
  /\ requests' = Append(requests, [check |-> starting.check, consumed |-> consumed])
  /\ starting' = [starting EXCEPT !.at = "mark"]
  /\ UNCHANGED <<slots, count, overdue, sent, completions, published, consumed, known,
                 refused, rowVars, runVars, pending, faults>>

\* Dispatch is refused: the channel is full, or looks full, or the Node is
\* gone or has moved.
Refuse ==
  /\ process = "up" /\ starting.at = "dispatch"
  /\ \/ Transition(starting.check, "failed", FALSE)
     \/ TransitionFails(starting.check, "failed", FALSE)
  /\ starting' = NotStarting
  /\ UNCHANGED <<channelVars, runVars, pending>>

MarkRunning ==
  /\ process = "up" /\ starting.at = "mark"
  /\ \/ Transition(starting.check, "running", FALSE)
     \/ TransitionFails(starting.check, "running", FALSE)
  /\ starting' = NotStarting
  /\ UNCHANGED <<channelVars, runVars, pending>>

\* CompletionRecorder.poll, one round of its loop: nextCompletion unless one
\* is left from before, then the row.
Upcoming ==
  IF pending # Nobody THEN {pending}
  ELSE IF completions # <<>> THEN {Head(completions)} ELSE {}
Take ==
  IF pending # Nobody THEN UNCHANGED <<completions, outstanding, consumed>>
  ELSE /\ completions' = Tail(completions)
       /\ consumed' = consumed + 1 /\ outstanding' = outstanding - 1
Polls == Idle \/ process = "final"

\* What the recorder holds after its transition failed.
Dropped(next) == Nobody
Retained(next) == next

Record ==
  /\ Polls
  /\ \E next \in Upcoming :
       Take /\ Transition(next.check, next.status, TRUE)
  /\ pending' = Nobody
  /\ UNCHANGED <<requests, slots, count, overdue, sent, published, known, refused,
                 runVars, starting>>

\* An error leaves MasterLoop.tickOpaque and with it the control loop; after
\* the last poll it is only logged.
RecordFails ==
  /\ Polls
  /\ \E next \in Upcoming :
       /\ TransitionFails(next.check, next.status, TRUE)
       /\ IF process = "up"
          THEN Take /\ pending' = Retained(next) /\ stop' = TRUE
               /\ UNCHANGED <<requests, slots, count, overdue, sent, published, known,
                              refused, starting, process, worker, asked>>
          ELSE Ends

-----------------------------------------------------------------------------
\* The DATA worker.

WorkerRuns == process # "down" /\ worker = "running"

\* publish asserts that the push succeeds: the tail it loads is not older than
\* what it knows.
Publish(c, status, seen) ==
  /\ known' = seen
  /\ completions' = Append(completions, [check |-> c, status |-> status])
  /\ published' = published + 1
  /\ refused' = (refused \/ published + 1 - seen > Capacity)

\* processConnectivity, one request: it waits for its reply, or fails (begin
\* finds the correlation in use or no slot, no session, no endpoint, no socket
\* buffer), which leaves the correlator as it was.
FreeSlots == {i \in 1..Capacity : slots[i] = None}
Begin ==
  /\ WorkerRuns /\ requests # <<>>
  /\ requests' = Tail(requests) /\ known' = Head(requests).consumed
  /\ \E i \in FreeSlots :
       /\ \A j \in FreeSlots : i <= j
       /\ slots' = [slots EXCEPT ![i] = Head(requests).check]
  /\ count' = count + 1
  /\ sent' = sent \cup {Head(requests).check}
  /\ UNCHANGED <<completions, published, refused, overdue, outstanding, consumed,
                 rowVars, runVars, pending, starting, faults>>
FailRequest ==
  /\ WorkerRuns /\ requests # <<>>
  /\ requests' = Tail(requests)
  /\ Publish(Head(requests).check, "failed", Head(requests).consumed)
  /\ UNCHANGED <<slots, count, sent, overdue, outstanding, consumed, rowVars,
                 runVars, pending, starting, faults>>

\* A probe is out of the correlator once it is answered, expired or
\* interrupted.
Cleared(c) == [i \in 1..Capacity |-> IF slots[i] = c THEN None ELSE slots[i]]
Finish(c, status) ==
  /\ c \in Pending
  /\ slots' = Cleared(c) /\ count' = count - 1 /\ overdue' = overdue \ {c}
  /\ Publish(c, status, known)
  /\ UNCHANGED <<requests, sent, outstanding, consumed, rowVars, runVars,
                 pending, starting, faults>>

matchReply(c) == WorkerRuns /\ c \in sent /\ Finish(c, "succeeded")

\* expire takes one slot after the other; a reply handled in between is one
\* that came before the pass.
Elapse(c) ==
  /\ WorkerRuns /\ c \in Pending \ overdue
  /\ overdue' = overdue \cup {c}
  /\ UNCHANGED <<requests, slots, count, sent, completions, outstanding, published,
                 consumed, known, refused, rowVars, runVars, pending, starting,
                 faults>>
expire(c) == WorkerRuns /\ c \in overdue /\ Finish(c, "timed_out")

\* run ends when it is told to, or with an error of its own.
WorkerEnds ==
  /\ WorkerRuns
  /\ \/ stop /\ UNCHANGED <<faults, asked>>
     \/ ~stop /\ Fault("worker") /\ asked' = TRUE
  /\ worker' = "ending"
  /\ UNCHANGED <<channelVars, rowVars, process, stop, pending, starting>>

\* interruptAll: the requests, then the probes; DataThreadState stops the
\* process after it.
InterruptRequest ==
  /\ worker = "ending" /\ requests # <<>>
  /\ requests' = Tail(requests)
  /\ Publish(Head(requests).check, "interrupted", Head(requests).consumed)
  /\ UNCHANGED <<slots, count, sent, overdue, outstanding, consumed, rowVars,
                 runVars, pending, starting, faults>>
InterruptProbe(c) ==
  worker = "ending" /\ requests = <<>> /\ Finish(c, "interrupted")
WorkerEnded ==
  /\ worker = "ending" /\ requests = <<>> /\ Pending = {}
  /\ worker' = "ended" /\ stop' = TRUE
  /\ UNCHANGED <<channelVars, rowVars, process, asked, pending, starting, faults>>

-----------------------------------------------------------------------------
\* The process.
RequestStop ==
  /\ process = "up" /\ ~stop
  /\ stop' = TRUE /\ asked' = TRUE
  /\ UNCHANGED <<channelVars, rowVars, process, worker, pending, starting, faults>>

\* The control loop sees the stop at its head and joins the worker.
Join ==
  /\ Idle /\ stop /\ worker = "ended"
  /\ process' = "final"
  /\ UNCHANGED <<channelVars, rowVars, worker, stop, asked, pending, starting, faults>>
Exit ==
  /\ process = "final" /\ completions = <<>> /\ pending = Nobody
  /\ Ends
  /\ UNCHANGED <<rowVars, faults>>
Kill ==
  /\ process # "down" /\ Fault("kill")
  /\ Ends
  /\ UNCHANGED rowVars

\* interruptActiveConnectivityChecks ends what the database still has as
\* active, or the start fails on a row from the future.
RecoverNothing == record
Recovered == [c \in Checks |-> IF c \in Active THEN "interrupted" ELSE record[c]]
Startup ==
  /\ process = "down" /\ Active \cap ahead = {}
  /\ record' = Recovered /\ process' = "up"
  /\ UNCHANGED <<ahead, channelVars, worker, stop, asked, pending, starting, faults>>

Control ==
  \/ \E c \in Checks : Create(c)
  \/ Submit \/ Refuse \/ MarkRunning \/ Record \/ RecordFails
Worker ==
  \/ Begin \/ FailRequest \/ WorkerEnds \/ InterruptRequest \/ WorkerEnded
  \/ \E c \in Checks : matchReply(c) \/ expire(c) \/ InterruptProbe(c)
Process == RequestStop \/ Join \/ Exit \/ Kill \/ Startup
Time == SetBack \/ CatchUp \/ \E c \in Checks : Elapse(c)
Next == Control \/ Worker \/ Process \/ Time

\* Both loops come round, deadlines pass, the clock catches up and the service
\* is started again.
Fairness ==
  /\ WF_vars(Submit \/ Refuse) /\ WF_vars(MarkRunning)
  /\ WF_vars(Record \/ RecordFails)
  /\ WF_vars(Begin \/ FailRequest) /\ WF_vars(stop /\ WorkerEnds)
  /\ WF_vars(InterruptRequest) /\ WF_vars(WorkerEnded)
  /\ WF_vars(Join) /\ WF_vars(Exit) /\ WF_vars(CatchUp) /\ WF_vars(Startup)
  /\ \A c \in Checks :
       WF_vars(Elapse(c)) /\ WF_vars(expire(c)) /\ WF_vars(InterruptProbe(c))

Spec == Init /\ [][Next]_vars /\ Fairness

-----------------------------------------------------------------------------
TypeOK ==
  /\ record \in [Checks -> Statuses] /\ ahead \subseteq Checks
  /\ \A n \in DOMAIN requests :
       requests[n] \in [check : Checks, consumed : 0..consumed]
  /\ \A n \in DOMAIN completions :
       completions[n] \in [check : Checks, status : Terminal]
  /\ slots \in [1..Capacity -> Checks \cup {None}]
  /\ overdue \subseteq Pending /\ Pending \subseteq sent /\ sent \subseteq Checks
  /\ count \in 0..Capacity /\ outstanding \in 0..Capacity
  /\ pending \in [check : Checks, status : Terminal] \cup {Nobody}
  /\ starting \in [check : Checks \cup {None}, at : {"idle", "dispatch", "mark"}]
  /\ process \in {"up", "final", "down"} /\ worker \in {"running", "ending", "ended"}
  /\ stop \in BOOLEAN /\ asked \in BOOLEAN /\ refused \in BOOLEAN
  /\ faults \in 0..MaxFaults
  /\ known <= consumed /\ consumed <= published /\ published \in Nat

\* The reservation: "the DATA worker can always publish exactly one terminal
\* result without blocking or dropping it" (connectivity.zig:66), although it
\* may not have seen the latest pops of the other thread: the request it
\* answers carries the ones that made room.
PublishNeverRefused == ~refused

\* An admitted check is in one place, from its admission until its result is
\* in the database: none is lost and none is answered twice, whichever of
\* reply, expiry and interruption comes first.
Places(c) ==
  Cardinality({n \in DOMAIN requests : requests[n].check = c})
  + Cardinality({i \in 1..Capacity : slots[i] = c})
  + Cardinality({n \in DOMAIN completions : completions[n].check = c})
  + (IF pending.check = c THEN 1 ELSE 0)
OneResultEach ==
  process # "down" =>
    \A c \in Checks :
      /\ Places(c) <= 1
      /\ record[c] = "running" => Places(c) = 1
      /\ record[c] \in Terminal => Places(c) = 0

\* A check that was dispatched gets a result, whatever stops the Master.
RunningEnds == \A c \in Checks : record[c] = "running" ~> record[c] \in Terminal

\* connectivity_runtime.zig:103: "A failed database transition retains the
\* popped completion locally and retries it on the next tick": the Master goes
\* on.
ResultsAreRetried == stop => asked
=============================================================================
