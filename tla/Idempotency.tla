----------------------------- MODULE Idempotency -----------------------------
(***************************************************************************)
(* At most one execution of an idempotent POST: the reservation of its key *)
(* (idempotency_repository.zig), the commit hook that consumes it in the   *)
(* transaction of the mutation (sqlite.zig), the dispatcher that completes *)
(* or cancels it (api_application.zig) and the staged decision to stop or  *)
(* restart the Master (operations_service.zig), with database failures,    *)
(* crashes, retention and a wall clock that can be set back.               *)
(*                                                                         *)
(* A key stands for an actor and its key.  The dispatcher is serialized,   *)
(* but a handler's checkpoints (exports, password hashing, backups) run    *)
(* the loop's periodic work before the handler's audited transaction.      *)
(***************************************************************************)
EXTENDS Integers, Sequences

CONSTANTS
  Keys,
  Requests,     \* what a key may be used for
  Exports,      \* operations.audit.export: streamed, never replayed
  Controls,     \* service.restart and service.shutdown
  None,
  Retention,    \* idempotency_retention_seconds
  MaxClock,
  MaxSetbacks   \* of the wall clock

ASSUME KindsAssumption == /\ Exports \subseteq Requests /\ Controls \subseteq Requests
                          /\ Exports \cap Controls = {}
ASSUME NoneAssumption == None \notin Keys /\ None \notin Requests
ASSUME TimeAssumption == /\ Retention \in Nat \ {0} /\ MaxClock \in Nat
                         /\ MaxSetbacks \in Nat

VARIABLES
  records,      \* idempotency_records: key -> [request, status, body, expires]
  clock,        \* wallSeconds
  setbacks,
  pc,           \* where the dispatcher is, or "down"
  current,      \* the request it serves: [key, request, now, outcome]
  completed,    \* the commit hook's
  control,      \* ControlState: [stage, key], stage "none", "staged" or "pending"
  \* history
  latest,       \* the highest time the clock has shown
  executions,   \* key -> committed mutations, [request, until, at]
  answer        \* the last response: [key, request, outcome]

storeVars == <<records, executions>>
timeVars == <<clock, setbacks, latest>>
dispatchVars == <<pc, current, completed>>
vars == <<storeVars, timeVars, dispatchVars, control, answer>>

Idle == [key |-> None, request |-> None, now |-> 0, outcome |-> "none"]
NoControl == [stage |-> "none", key |-> None]
NoRecord == [request |-> None, status |-> "absent", body |-> "empty", expires |-> 0]
NoAnswer == [key |-> None, request |-> None, outcome |-> "none"]

Init ==
  /\ records = [k \in Keys |-> NoRecord] /\ executions = [k \in Keys |-> <<>>]
  /\ clock = 0 /\ setbacks = 0 /\ latest = 0
  /\ pc = "idle" /\ current = Idle /\ completed = FALSE
  /\ control = NoControl
  /\ answer = NoAnswer

Present(k) == records[k].status # "absent"
\* As if retention spared what is still reserved.
ExpiredUnlessReserved(k) == records[k].expires <= clock /\ records[k].status # "reserved"
Expired(k) == records[k].expires <= clock
IsReserved(k, r) == records[k].status = "reserved" /\ records[k].request = r

Answered(outcome) == answer' = [key |-> current.key, request |-> current.request,
                                outcome |-> outcome]

\* As if an early return forgot the stage.
ReturnsStaged ==
  /\ pc' = "idle" /\ current' = Idle /\ completed' = FALSE /\ UNCHANGED control
\* The dispatcher returns: its hook is removed and its stage, if it still has
\* one, discarded.
Returns ==
  /\ pc' = "idle" /\ current' = Idle /\ completed' = FALSE
  /\ control' = IF control.stage = "staged" THEN NoControl ELSE control

----------------------------------------------------------------------------
(* The dispatcher *)

\* As if the hash of the request were not compared.
ReplyToAny(k, r) ==
  CASE records[k].status = "reserved" -> "in progress"
    [] records[k].status = "committed" -> "unavailable"
    [] records[k].body = "once" -> "unavailable"
    [] OTHER -> records[k].body
\* What a key that is in use answers.
Reply(k, r) ==
  CASE records[k].request # r -> "conflict"
    [] records[k].status = "reserved" -> "in progress"
    [] records[k].status = "committed" -> "unavailable"
    [] records[k].body = "once" -> "unavailable"
    [] OTHER -> records[k].body

Look(k, r) ==
  /\ pc = "idle" /\ Present(k) /\ ~Expired(k)
  /\ answer' = [key |-> k, request |-> r, outcome |-> Reply(k, r)]
  /\ UNCHANGED <<storeVars, timeVars, dispatchVars, control>>

\* The row of an expired key makes room for a new reservation.
Reserve(k, r) ==
  /\ pc = "idle" /\ (Present(k) => Expired(k))
  /\ clock + Retention <= MaxClock
  /\ records' = [records EXCEPT ![k] = [request |-> r, status |-> "reserved",
                    body |-> "empty", expires |-> clock + Retention]]
  /\ pc' = "handling" /\ completed' = FALSE
  /\ current' = [key |-> k, request |-> r, now |-> clock, outcome |-> "none"]
  /\ answer' = NoAnswer
  /\ UNCHANGED <<executions, timeVars, control>>

\* beforeCommit: the reservation this request made, not yet expired when the
\* request arrived, becomes the mark of a committed mutation.
CanMark ==
  /\ IsReserved(current.key, current.request)
  /\ records[current.key].expires > current.now
Marked == [records EXCEPT ![current.key].status = "committed"]

\* The audited transaction: mutation, audit entry and mark in one commit.
Mutate ==
  /\ pc = "handling" /\ ~completed /\ CanMark
  /\ current.request \in Controls => control.stage = "none"
  /\ records' = Marked /\ completed' = TRUE
  /\ executions' = [executions EXCEPT ![current.key] =
        Append(@, [request |-> current.request, at |-> latest,
                   until |-> records[current.key].expires])]
  /\ control' = IF current.request \in Controls
                THEN [stage |-> "staged", key |-> current.key] ELSE control
  /\ UNCHANGED <<timeVars, pc, current, answer>>

\* The handler ends well only with its mutation committed; it can fail before
\* (validation, the hook, the database) and after.
Handled(outcome) ==
  /\ pc = "handling" /\ (outcome = "accepted" => completed)
  /\ pc' = "finishing" /\ current' = [current EXCEPT !.outcome = outcome]
  /\ UNCHANGED <<storeVars, timeVars, completed, control, answer>>

\* cancel: only the exact row that is still reserved.
Cancelled == IF IsReserved(current.key, current.request)
             THEN [records EXCEPT ![current.key] = NoRecord] ELSE records

\* Nothing was committed: the key is free for another attempt, unless the
\* database refuses that too.
GiveUp ==
  /\ pc = "finishing" /\ ~completed
  /\ records' \in {Cancelled, records}
  /\ Answered("failed") /\ Returns
  /\ UNCHANGED <<executions, timeVars>>

\* idempotencyStoredPayload
StoredBody == IF current.request \in Exports THEN "once" ELSE current.outcome

\* commit: attaches the response to the reserved or marked row.
CanComplete ==
  /\ completed /\ Present(current.key)
  /\ records[current.key].request = current.request
  /\ records[current.key].expires > current.now
  /\ current.request \in Exports => current.outcome = "accepted"
Completed == [records EXCEPT ![current.key].status = "final",
                             ![current.key].body = StoredBody]

Complete ==
  /\ pc = "finishing" /\ CanComplete
  /\ records' = Completed
  /\ IF current.request \in Controls /\ current.outcome = "accepted"
       THEN pc' = "arming" /\ UNCHANGED <<current, completed, control, answer>>
       ELSE Answered(current.outcome) /\ Returns
  /\ UNCHANGED <<executions, timeVars>>

\* An export that failed after its receipt, a row that is gone, a response
\* that cannot be stored, a database failure: the mark stays.
Incomplete ==
  /\ pc = "finishing" /\ completed
  /\ Answered("failed") /\ Returns
  /\ UNCHANGED <<storeVars, timeVars>>

\* armStagedControl, then the response.
Arm ==
  /\ pc = "arming" /\ control' = [control EXCEPT !.stage = "pending"]
  /\ Answered("accepted")
  /\ pc' = "idle" /\ current' = Idle /\ completed' = FALSE
  /\ UNCHANGED <<storeVars, timeVars>>

----------------------------------------------------------------------------
(* The loop, the clock, crashes *)

\* Retention, on the loop or at a checkpoint of a handler.
Prune(k) ==
  /\ control.stage # "pending"
  /\ pc = "idle" \/ (pc = "handling" /\ ~completed)
  /\ Present(k) /\ Expired(k)
  /\ records' = [records EXCEPT ![k] = NoRecord]
  /\ UNCHANGED <<executions, timeVars, dispatchVars, control, answer>>

Gone ==
  /\ pc' = "down" /\ current' = Idle /\ completed' = FALSE /\ control' = NoControl
  /\ answer' = NoAnswer
  /\ UNCHANGED <<storeVars, timeVars>>

\* serviceControlDisposition: the first thing after the request was served.
Leave == pc = "idle" /\ control.stage = "pending" /\ Gone

Crash == pc # "down" /\ Gone

\* As if a start released every key that has no response.
ReleasedUnanswered == [k \in Keys |-> IF records[k].status # "final" THEN NoRecord
                                      ELSE records[k]]
\* recoverInterruptedReservations
Released == [k \in Keys |-> IF records[k].status = "reserved" THEN NoRecord
                            ELSE records[k]]
Start ==
  /\ pc = "down" /\ pc' = "idle" /\ records' = Released
  /\ UNCHANGED <<executions, timeVars, current, completed, control, answer>>

Tick ==
  /\ clock < MaxClock /\ clock' = clock + 1
  /\ latest' = IF clock' > latest THEN clock' ELSE latest
  /\ UNCHANGED <<storeVars, setbacks, dispatchVars, control, answer>>

SetBack ==
  /\ setbacks < MaxSetbacks /\ clock > 0
  /\ clock' = clock - 1 /\ setbacks' = setbacks + 1
  /\ UNCHANGED <<storeVars, latest, dispatchVars, control, answer>>

Serve == \E k \in Keys, r \in Requests : Look(k, r) \/ Reserve(k, r)
Dispatch ==
  \/ \E outcome \in {"accepted", "failed"} : Handled(outcome)
  \/ GiveUp \/ Complete \/ Incomplete \/ Arm

Next ==
  \/ (control.stage # "pending" /\ Serve) \/ Mutate \/ Dispatch
  \/ \E k \in Keys : Prune(k)
  \/ Leave \/ Crash \/ Start \/ Tick \/ SetBack

\* A request is served to its end, the Master is started again, time passes and
\* retention comes round between requests.
Fairness ==
  /\ WF_vars(Dispatch) /\ WF_vars(Leave) /\ WF_vars(Start) /\ WF_vars(Tick)
  /\ \A k \in Keys : SF_vars(Prune(k))
Spec == Init /\ [][Next]_vars /\ Fairness

----------------------------------------------------------------------------
Outcomes == {"none", "accepted", "failed"}
Records == [request : Requests \cup {None},
            status : {"absent", "reserved", "committed", "final"},
            body : {"empty", "once", "accepted", "failed", "none"}, expires : Nat]
Executions == [request : Requests, at : Nat, until : Nat]
TypeOK ==
  /\ records \in [Keys -> Records] /\ executions \in [Keys -> Seq(Executions)]
  /\ clock \in Nat /\ latest \in Nat /\ setbacks \in Nat
  /\ pc \in {"down", "idle", "handling", "finishing", "arming"}
  /\ current \in [key : Keys \cup {None}, request : Requests \cup {None}, now : Nat,
                  outcome : Outcomes]
  /\ completed \in BOOLEAN
  /\ control \in [stage : {"none", "staged", "pending"}, key : Keys \cup {None}]
  /\ answer \in [key : Keys \cup {None}, request : Requests \cup {None},
                 outcome : Outcomes \cup {"conflict", "in progress", "unavailable"}]

\* A key executes again only once every earlier execution under it has expired
\* by a time the clock has shown: no crash, failure, retry or pruning at a
\* checkpoint makes a mutation happen twice (management-plane.md: "can never
\* re-execute the operation").
AtMostOnce ==
  \A k \in Keys : \A i, j \in DOMAIN executions[k] :
    i < j => executions[k][i].until <= executions[k][j].at

\* A response that accepts a request, new or replayed, is about a mutation of
\* that key and that request which is in the database (management-plane.md:
\* "The response never claims a mutation that failed to commit").
ClaimsAreTrue ==
  answer.outcome = "accepted" =>
    \E i \in DOMAIN executions[answer.key] :
      executions[answer.key][i].request = answer.request

\* The decision to stop or restart is never left staged, which would refuse all
\* later ones, and becomes executable only when its key's accepted response is
\* in the database.
ControlIsRecorded ==
  /\ control.stage = "staged" => pc \in {"handling", "finishing", "arming"}
  /\ control.stage = "pending" =>
       /\ records[control.key].status = "final"
       /\ records[control.key].body = "accepted"

\* A reservation does not keep its key for ever: it is consumed, cancelled,
\* released by a start or pruned.
ReservationEnds ==
  \A k \in Keys : records[k].status = "reserved" ~> records[k].status # "reserved"
=============================================================================
