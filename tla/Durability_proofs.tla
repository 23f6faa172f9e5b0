-------------------------- MODULE Durability_proofs --------------------------
(***************************************************************************)
(* Proofs about what survives a failure: the Master's records of what was  *)
(* executed (Idempotency) and the files of a Node (Reconfiguration), for   *)
(* any keys, requests, configurations, tickets and interruptions.          *)
(***************************************************************************)
EXTENDS Idempotency, Reconfiguration, SequenceTheorems, WellFoundedInduction, TLAPS

(***************************************************************************)
(* At most one execution (Idempotency).                                    *)
(* An execution that has not expired keeps its key consumed (Retained), so *)
(* that no reservation is made while it counts; a consumed key was         *)
(* executed with the request it names (Truth), so that a replayed          *)
(* acceptance is true; a staged decision belongs to the request being      *)
(* served (Owned).                                                         *)
(***************************************************************************)

Consumed(k) == records[k].status \in {"committed", "final"}
Executed(k, r) == \E i \in DOMAIN executions[k] : executions[k][i].request = r
Serving == pc \in {"handling", "finishing", "arming"}

Bodies == {"once"} \cup Outcomes
Truth ==
  \A k \in Keys :
    /\ Consumed(k) => Executed(k, records[k].request)
    /\ records[k].status = "final" => records[k].body \in Bodies

Retained ==
  \A k \in Keys : \A i \in DOMAIN executions[k] :
    executions[k][i].until > latest =>
      Consumed(k) /\ records[k].expires >= executions[k][i].until

Served ==
  /\ Serving => current.key \in Keys /\ current.request \in Requests
  /\ completed => Serving /\ Executed(current.key, current.request)
  /\ current.outcome = "accepted" => completed
  /\ pc = "arming" => completed

Claimed == answer.outcome = "accepted" =>
             answer.key \in Keys /\ Executed(answer.key, answer.request)

Owned ==
  /\ control.stage = "staged" => Serving /\ control.key = current.key
  /\ completed /\ current.request \in Controls => control.stage = "staged"
  /\ pc = "arming" => /\ current.request \in Controls
                      /\ records[current.key].status = "final"
                      /\ records[current.key].body = "accepted"
  /\ control.stage = "pending" => /\ pc = "idle" /\ control.key \in Keys
                                  /\ records[control.key].status = "final"
                                  /\ records[control.key].body = "accepted"

IInv == /\ TypeOK /\ clock <= latest /\ Truth /\ Retained /\ AtMostOnce
        /\ Served /\ Claimed /\ Owned

USE KindsAssumption, NoneAssumption, TimeAssumption

\* The clock and the rows, as TypeOK types them.
LEMMA Typed ==
  TypeOK => /\ clock \in Nat /\ latest \in Nat
            /\ records \in [Keys -> Records] /\ executions \in [Keys -> Seq(Executions)]
            /\ \A k \in Keys : /\ records[k] \in Records /\ records[k].expires \in Nat
                               /\ executions[k] \in Seq(Executions)
<1>. SUFFICES ASSUME TypeOK
              PROVE  /\ clock \in Nat /\ latest \in Nat
                     /\ records \in [Keys -> Records]
                     /\ executions \in [Keys -> Seq(Executions)]
                     /\ \A k \in Keys : records[k].expires \in Nat
  OBVIOUS
<1>1. /\ clock \in Nat /\ latest \in Nat /\ records \in [Keys -> Records]
      /\ executions \in [Keys -> Seq(Executions)]
  BY DEF TypeOK
<1>. QED
  BY <1>1 DEF Records

LEMMA ExecutionTimes ==
  ASSUME TypeOK, NEW k \in Keys, NEW i \in DOMAIN executions[k]
  PROVE  executions[k][i].until \in Nat /\ executions[k][i].at \in Nat
<1>1. executions[k] \in Seq(Executions)
  BY Typed
<1>2. executions[k][i] \in Executions
  BY <1>1
<1>. QED
  BY <1>2 DEF Executions

\* What the updates of a row make of it.
LEMMA NoRow == NoRecord \in Records /\ NoRecord.status = "absent"
BY DEF Records, NoRecord

LEMMA MarkedRow ==
  ASSUME NEW r \in Records, NEW q, q = [r EXCEPT !.status = "committed"]
  PROVE  /\ q \in Records /\ q.status = "committed"
         /\ q.request = r.request /\ q.expires = r.expires
BY DEF Records

LEMMA FinalRow ==
  ASSUME NEW r \in Records, NEW b \in Bodies, NEW q,
         q = [r EXCEPT !.status = "final", !.body = b]
  PROVE  /\ q \in Records /\ q.status = "final" /\ q.body = b
         /\ q.request = r.request /\ q.expires = r.expires
BY DEF Records, Bodies, Outcomes

LEMMA InitInvariant == Init => IInv
<1>. SUFFICES ASSUME Init PROVE IInv
  OBVIOUS
<1>. USE DEF Init
<1>1. executions \in [Keys -> Seq(Executions)] /\ records \in [Keys -> Records]
  <2>1. <<>> \in Seq(Executions)
    OBVIOUS
  <2>. QED
    BY <2>1, NoRow
<1>2. TypeOK
  BY <1>1 DEF TypeOK, Idle, NoControl, NoRecord, NoAnswer, Outcomes
<1>3. \A k \in Keys : ~Consumed(k) /\ records[k].status # "final" /\ DOMAIN executions[k] = {}
  <2>1. \A k \in Keys : records[k] = NoRecord /\ executions[k] = <<>>
    OBVIOUS
  <2>2. DOMAIN <<>> = {}
    OBVIOUS
  <2>. QED
    BY <2>1, <2>2, NoRow DEF Consumed
<1>4. Truth /\ Retained /\ AtMostOnce
  BY <1>3 DEF Truth, Retained, AtMostOnce
<1>5. Served /\ Claimed /\ Owned
  BY DEF Served, Serving, Claimed, Owned, Idle, NoControl, NoAnswer
<1>. QED
  BY <1>2, <1>4, <1>5 DEF IInv

\* What the store promises survives a step that leaves it alone and one that
\* drops rows that are not consumed or have expired.
LEMMA StoreKept ==
  ASSUME TypeOK, Truth, Retained, AtMostOnce, executions' = executions,
         latest' \in Nat, latest' >= latest,
         \A k \in Keys :
           \/ records'[k] = records[k]
           \/ records'[k] = NoRecord /\ (Consumed(k) => records[k].expires <= latest)
  PROVE  Truth' /\ Retained' /\ AtMostOnce'
<1>1. Truth'
  BY DEF Truth, Consumed, Executed, NoRecord
<1>2. Retained'
  <2>. SUFFICES ASSUME NEW k \in Keys, NEW i \in DOMAIN executions[k],
                       executions[k][i].until > latest'
                PROVE  Consumed(k)' /\ records'[k].expires >= executions[k][i].until
    BY DEF Retained
  <2>1. executions[k][i].until \in Nat /\ latest \in Nat /\ records[k].expires \in Nat
    BY Typed, ExecutionTimes
  <2>2. Consumed(k) /\ records[k].expires >= executions[k][i].until
    BY <2>1 DEF Retained
  <2>3. records'[k] = records[k]
    BY <2>1, <2>2
  <2>. QED
    BY <2>2, <2>3 DEF Consumed
<1>3. AtMostOnce'
  BY DEF AtMostOnce
<1>. QED
  BY <1>1, <1>2, <1>3

LEMMA LookKeeps ==
  ASSUME IInv, NEW k \in Keys, NEW r \in Requests, Look(k, r)
  PROVE  IInv'
<1>. USE DEF IInv, Look, storeVars, timeVars, dispatchVars
<1>1. TypeOK'
  <2>1. records[k].status \in {"reserved", "committed", "final"}
    BY Typed DEF Present, Records
  <2>2. Reply(k, r) \in Outcomes \cup {"conflict", "in progress", "unavailable"}
    BY <2>1 DEF Reply, Truth, Bodies, Outcomes
  <2>. QED
    BY <2>2 DEF TypeOK
<1>2. Truth' /\ Retained' /\ AtMostOnce'
  BY StoreKept, Typed
<1>3. Served' /\ Owned'
  BY DEF Served, Serving, Executed, Owned
<1>4. Claimed'
  <2>. SUFFICES ASSUME Reply(k, r) = "accepted" PROVE Executed(k, r)
    BY DEF Claimed, Executed
  <2>0. records[k].status \in {"reserved", "committed", "final"}
    BY Typed DEF Present, Records
  <2>1. records[k].request = r /\ Consumed(k)
    BY <2>0 DEF Reply, Consumed
  <2>. QED
    BY <2>1 DEF Truth
<1>. QED
  BY <1>1, <1>2, <1>3, <1>4

LEMMA ReserveKeeps ==
  ASSUME IInv, NEW k \in Keys, NEW r \in Requests, Reserve(k, r), control.stage # "pending"
  PROVE  IInv'
<1>. USE DEF IInv, Reserve, timeVars
<1>0. clock \in Nat /\ records \in [Keys -> Records]
  BY Typed
<1>1. TypeOK'
  <2>1. records' \in [Keys -> Records]
    BY <1>0 DEF Records
  <2>. QED
    BY <1>0, <2>1 DEF TypeOK, Outcomes, NoAnswer
<1>2. \A j \in Keys : j # k => records'[j] = records[j]
  BY <1>0
<1>3. ~Consumed(k)' /\ records'[k].status # "final"
  BY <1>0 DEF Consumed
<1>4. Truth'
  BY <1>2, <1>3 DEF Truth, Consumed, Executed
<1>5. Retained'
  <2>. SUFFICES ASSUME NEW j \in Keys, NEW i \in DOMAIN executions[j],
                       executions[j][i].until > latest
                PROVE  Consumed(j)' /\ records'[j].expires >= executions[j][i].until
    BY DEF Retained
  <2>1. Consumed(j) /\ records[j].expires >= executions[j][i].until
    BY DEF Retained
  <2>2. executions[j][i].until \in Nat /\ latest \in Nat /\ clock \in Nat
        /\ records[j].expires \in Nat
    BY Typed, ExecutionTimes
  <2>3. j # k
    BY <2>1, <2>2 DEF Present, Expired, Consumed
  <2>. QED
    BY <1>2, <2>1, <2>3 DEF Consumed
<1>6. AtMostOnce'
  BY DEF AtMostOnce
<1>7. Served' /\ Claimed' /\ Owned'
  BY DEF Served, Serving, Claimed, Owned, NoAnswer
<1>. QED
  BY <1>1, <1>4, <1>5, <1>6, <1>7

LEMMA MutateKeeps == ASSUME IInv, Mutate PROVE IInv'
<1>. DEFINE k == current.key
            new == [request |-> current.request, at |-> latest, until |-> records[k].expires]
            n == Len(executions[k])
<1>. USE DEF IInv, Mutate, timeVars
<1>0. k \in Keys /\ current.request \in Requests /\ Serving
  BY DEF Served, Serving
<1>1. /\ executions[k] \in Seq(Executions) /\ executions \in [Keys -> Seq(Executions)]
      /\ records[k] \in Records /\ records \in [Keys -> Records]
      /\ new \in Executions
  BY <1>0, Typed DEF Executions
<1>2. /\ executions' = [executions EXCEPT ![k] = Append(@, new)]
      /\ executions'[k] = Append(executions[k], new)
      /\ \A j \in Keys : j # k => executions'[j] = executions[j]
      /\ executions' \in [Keys -> Seq(Executions)]
  BY <1>0, <1>1
<1>3. /\ n \in Nat /\ DOMAIN executions[k] = 1..n /\ DOMAIN executions'[k] = 1..(n + 1)
      /\ executions'[k][n + 1] = new
      /\ \A i \in 1..n : executions'[k][i] = executions[k][i]
  BY <1>1, <1>2
<1>4. /\ records'[k] = [records[k] EXCEPT !.status = "committed"]
      /\ \A j \in Keys : j # k => records'[j] = records[j]
      /\ records' \in [Keys -> Records]
  <2>. DEFINE row == [records[k] EXCEPT !.status = "committed"]
  <2>1. records' = [records EXCEPT ![k] = row]
    BY <1>0, <1>1 DEF Marked
  <2>2. row \in Records
    BY <1>1, MarkedRow
  <2>. HIDE DEF row
  <2>3. /\ records'[k] = row /\ \A j \in Keys : j # k => records'[j] = records[j]
        /\ records' \in [Keys -> Records]
    BY <1>0, <1>1, <2>1, <2>2
  <2>. QED
    BY <2>3 DEF row
<1>5. ~Consumed(k) /\ records[k].request = current.request
  BY <1>0 DEF CanMark, IsReserved, Consumed
<1>6. Consumed(k)' /\ records'[k].request = current.request
      /\ records'[k].expires = records[k].expires
  <2>1. /\ records'[k].status = "committed" /\ records'[k].request = records[k].request
        /\ records'[k].expires = records[k].expires
    BY <1>1, <1>4, MarkedRow
  <2>. QED
    BY <1>5, <2>1 DEF Consumed
<1>7. TypeOK'
  BY <1>0, <1>2, <1>4 DEF TypeOK
<1>8. \A j \in Keys, r \in Requests \cup {None} : Executed(j, r) => Executed(j, r)'
  BY <1>2, <1>3 DEF Executed
<1>9. Executed(k, current.request)'
  BY <1>3 DEF Executed
<1>10. Truth'
  <2>. SUFFICES ASSUME NEW j \in Keys
                PROVE  /\ Consumed(j)' => Executed(j, records[j].request)'
                       /\ records'[j].status = "final" => records'[j].body \in Bodies
    BY DEF Truth, Bodies
  <2>1. CASE j = k
    <3>1. records'[k].status = "committed"
      BY <1>1, <1>4, MarkedRow
    <3>. QED
      BY <1>6, <1>9, <2>1, <3>1 DEF Executed
  <2>2. CASE j # k
    BY <1>2, <1>4, <2>2 DEF Truth, Consumed, Executed
  <2>. QED
    BY <2>1, <2>2
<1>11. Retained'
  <2>. SUFFICES ASSUME NEW j \in Keys, NEW i \in DOMAIN executions'[j],
                       executions'[j][i].until > latest
                PROVE  Consumed(j)' /\ records'[j].expires >= executions'[j][i].until
    BY DEF Retained
  <2>1. CASE j # k
    <3>1. executions'[j] = executions[j] /\ records'[j] = records[j]
      BY <1>2, <1>4, <2>1
    <3>. QED
      BY <3>1 DEF Retained, Consumed
  <2>2. CASE j = k
    <3>1. i = n + 1
      BY <1>3, <1>5, <2>2 DEF Retained
    <3>. QED
      BY <1>0, <1>3, <1>6, <2>2, <3>1, Typed
  <2>. QED
    BY <2>1, <2>2
<1>12. AtMostOnce'
  <2>. SUFFICES ASSUME NEW j \in Keys, NEW a \in DOMAIN executions'[j],
                       NEW b \in DOMAIN executions'[j], a < b
                PROVE  executions'[j][a].until <= executions'[j][b].at
    BY DEF AtMostOnce
  <2>1. CASE j # k
    BY <1>2, <2>1 DEF AtMostOnce
  <2>2. CASE j = k /\ b # n + 1
    BY <1>0, <1>3, <2>2 DEF AtMostOnce
  <2>3. CASE j = k /\ b = n + 1
    <3>1. a \in 1..n /\ executions'[j][a] = executions[k][a]
          /\ executions'[j][b].at = latest
      BY <1>3, <2>3
    <3>2. ~(executions[k][a].until > latest)
      BY <1>0, <1>3, <1>5, <3>1 DEF Retained
    <3>3. executions[k][a].until \in Nat /\ latest \in Nat
      BY <1>0, <1>3, <3>1, Typed, ExecutionTimes
    <3>. QED
      BY <3>1, <3>2, <3>3
  <2>. QED
    BY <2>1, <2>2, <2>3
<1>13. Served'
  BY <1>0, <1>9 DEF Served, Serving, Executed
<1>14. Claimed'
  BY <1>8 DEF Claimed, TypeOK
<1>15. Owned'
  <2>1. control.stage # "pending" /\ pc' = "handling"
    BY DEF Owned
  <2>. QED
    BY <1>0, <2>1 DEF Owned, Serving
<1>. QED
  BY <1>7, <1>10, <1>11, <1>12, <1>13, <1>14, <1>15

LEMMA HandledKeeps ==
  ASSUME IInv, NEW outcome \in {"accepted", "failed"}, Handled(outcome)
  PROVE  IInv'
<1>. USE DEF IInv, Handled, storeVars, timeVars
<1>1. TypeOK'
  BY DEF TypeOK, Outcomes
<1>2. Truth' /\ Retained' /\ AtMostOnce'
  BY StoreKept, Typed
<1>3. current'.key = current.key /\ current'.request = current.request
      /\ current'.outcome = outcome
  BY DEF TypeOK
<1>4. Served' /\ Claimed' /\ Owned'
  BY <1>3 DEF Served, Serving, Executed, Claimed, Owned
<1>. QED
  BY <1>1, <1>2, <1>4

LEMMA ReturnsKeeps ==
  ASSUME TypeOK, Owned, Returns, control.stage # "pending"
  PROVE  /\ control'.stage = "none"
         /\ control' \in [stage : {"none", "staged", "pending"}, key : Keys \cup {None}]
         /\ Served' /\ Owned'
BY DEF Returns, TypeOK, NoControl, Served, Serving, Owned, Idle

LEMMA GiveUpKeeps == ASSUME IInv, GiveUp PROVE IInv'
<1>. USE DEF IInv, GiveUp, timeVars
<1>1. current.key \in Keys /\ current.request \in Requests /\ control.stage # "pending"
  BY DEF Served, Serving, Owned
<1>2. Served' /\ Owned'
  BY <1>1, ReturnsKeeps
<1>3. TypeOK'
  <2>1. Cancelled \in [Keys -> Records]
    BY <1>1, Typed, NoRow DEF Cancelled
  <2>2. records' \in [Keys -> Records]
    BY <2>1, Typed
  <2>. QED
    BY <1>1, <2>2, ReturnsKeeps DEF TypeOK, Returns, Idle, Answered, Outcomes
<1>4. \A k \in Keys : \/ records'[k] = records[k]
                      \/ records'[k] = NoRecord /\ ~Consumed(k)
  BY <1>1, Typed DEF Cancelled, IsReserved, Consumed
<1>5. Truth' /\ Retained' /\ AtMostOnce'
  BY <1>4, StoreKept, Typed
<1>6. Claimed'
  BY DEF Claimed, Answered
<1>. QED
  BY <1>2, <1>3, <1>5, <1>6

LEMMA CompleteKeeps == ASSUME IInv, Complete PROVE IInv'
<1>. DEFINE k == current.key
<1>. USE DEF IInv, Complete, timeVars
<1>1. k \in Keys /\ current.request \in Requests /\ control.stage # "pending"
      /\ Executed(k, current.request) /\ completed
  BY DEF Served, Serving, Owned, CanComplete
<1>0. StoredBody \in Bodies
  BY DEF StoredBody, TypeOK, Outcomes, Bodies
<1>2. /\ records'[k] = [records[k] EXCEPT !.status = "final", !.body = StoredBody]
      /\ \A j \in Keys : j # k => records'[j] = records[j]
      /\ records' \in [Keys -> Records] /\ records[k] \in Records
  <2>. DEFINE row == [records[k] EXCEPT !.status = "final", !.body = StoredBody]
  <2>0. records \in [Keys -> Records] /\ records[k] \in Records
    BY <1>1, Typed
  <2>1. records' = [records EXCEPT ![k] = row]
    BY <1>1, <2>0 DEF Completed
  <2>2. row \in Records
    BY <1>0, <2>0, FinalRow
  <2>. HIDE DEF row
  <2>3. /\ records'[k] = row /\ \A j \in Keys : j # k => records'[j] = records[j]
        /\ records' \in [Keys -> Records]
    BY <1>1, <2>0, <2>1, <2>2
  <2>. QED
    BY <2>0, <2>3 DEF row
<1>3. /\ records'[k].status = "final" /\ records'[k].body = StoredBody
      /\ records'[k].request = current.request
      /\ records'[k].expires = records[k].expires
  <2>1. /\ records'[k].status = "final" /\ records'[k].body = StoredBody
        /\ records'[k].request = records[k].request
        /\ records'[k].expires = records[k].expires
    <3>1. /\ StoredBody \in Bodies /\ records[k] \in Records
          /\ records'[k] = [records[k] EXCEPT !.status = "final", !.body = StoredBody]
      BY <1>0, <1>2
    <3>. HIDE DEF k
    <3>. QED
      BY <3>1 DEF Records
  <2>. QED
    BY <2>1 DEF CanComplete
<1>4. TypeOK'
  <2>3. CASE pc' = "arming" /\ UNCHANGED <<current, completed, control, answer>>
    BY <1>2, <2>3 DEF TypeOK
  <2>4. CASE Answered(current.outcome) /\ Returns
    BY <1>1, <1>2, <2>4, ReturnsKeeps DEF TypeOK, Returns, Idle, Answered, Outcomes
  <2>. QED
    BY <2>3, <2>4
<1>5. Truth'
  <2>. SUFFICES ASSUME NEW j \in Keys
                PROVE  /\ Consumed(j)' => Executed(j, records[j].request)'
                       /\ records'[j].status = "final" => records'[j].body \in Bodies
    BY DEF Truth, Bodies
  <2>1. CASE j = k
    BY <1>0, <1>1, <1>3, <2>1 DEF Executed
  <2>2. CASE j # k
    BY <1>2, <2>2 DEF Truth, Consumed, Executed
  <2>. QED
    BY <2>1, <2>2
<1>6. Retained'
  BY <1>1, <1>2, <1>3 DEF Retained, Consumed
<1>7. AtMostOnce'
  BY DEF AtMostOnce
<1>8. Served' /\ Claimed' /\ Owned'
  <2>1. CASE /\ pc' = "arming" /\ UNCHANGED <<current, completed, control, answer>>
             /\ current.request \in Controls /\ current.outcome = "accepted"
    <3>1. StoredBody = "accepted"
      BY <2>1 DEF StoredBody
    <3>. QED
      BY <1>1, <1>3, <2>1, <3>1 DEF Served, Serving, Claimed, Executed, Owned
  <2>2. CASE Answered(current.outcome) /\ Returns
    BY <1>1, <2>2, ReturnsKeeps DEF Claimed, Answered, Executed
  <2>. QED
    BY <2>1, <2>2
<1>. QED
  BY <1>4, <1>5, <1>6, <1>7, <1>8

LEMMA IncompleteKeeps == ASSUME IInv, Incomplete PROVE IInv'
<1>. USE DEF IInv, Incomplete, storeVars, timeVars
<1>1. control.stage # "pending"
  BY DEF Owned
<1>2. TypeOK'
  BY <1>1, ReturnsKeeps DEF TypeOK, Returns, Idle, Answered, Outcomes
<1>3. Truth' /\ Retained' /\ AtMostOnce'
  BY StoreKept, Typed
<1>4. Served' /\ Owned' /\ Claimed'
  BY <1>1, ReturnsKeeps DEF Claimed, Answered
<1>. QED
  BY <1>2, <1>3, <1>4

LEMMA ArmKeeps == ASSUME IInv, Arm PROVE IInv'
<1>. USE DEF IInv, Arm, storeVars, timeVars
<1>1. /\ completed /\ current.key \in Keys /\ Executed(current.key, current.request)
      /\ control.stage = "staged" /\ control.key = current.key
      /\ control'.stage = "pending" /\ control'.key = current.key
  BY DEF Served, Serving, Owned, TypeOK
<1>2. TypeOK'
  BY <1>1 DEF TypeOK, Idle, Answered, Outcomes
<1>3. Truth' /\ Retained' /\ AtMostOnce'
  BY StoreKept, Typed
<1>4. Served' /\ Claimed' /\ Owned'
  BY <1>1 DEF Served, Serving, Claimed, Executed, Answered, Owned, Idle
<1>. QED
  BY <1>2, <1>3, <1>4

LEMMA PruneKeeps == ASSUME IInv, NEW k \in Keys, Prune(k) PROVE IInv'
<1>. USE DEF IInv, Prune, timeVars, dispatchVars
<1>1. TypeOK'
  <2>1. records' \in [Keys -> Records]
    BY Typed, NoRow
  <2>. QED
    BY <2>1 DEF TypeOK
<1>2. \A j \in Keys : \/ records'[j] = records[j]
                      \/ records'[j] = NoRecord /\ records[j].expires <= latest
  BY Typed DEF Expired
<1>3. Truth' /\ Retained' /\ AtMostOnce'
  BY <1>2, StoreKept, Typed
<1>4. Served' /\ Claimed' /\ Owned'
  BY DEF Served, Serving, Claimed, Executed, Owned
<1>. QED
  BY <1>1, <1>3, <1>4

LEMMA GoneKeeps == ASSUME IInv, Gone PROVE IInv'
<1>. USE DEF IInv, Gone, storeVars, timeVars
<1>1. TypeOK'
  BY DEF TypeOK, Idle, NoControl, NoAnswer, Outcomes
<1>2. Truth' /\ Retained' /\ AtMostOnce'
  BY StoreKept, Typed
<1>3. Served' /\ Claimed' /\ Owned'
  BY DEF Served, Serving, Claimed, Owned, Idle, NoControl, NoAnswer
<1>. QED
  BY <1>1, <1>2, <1>3

LEMMA StartKeeps == ASSUME IInv, Start PROVE IInv'
<1>. USE DEF IInv, Start, timeVars
<1>1. TypeOK'
  <2>1. records' \in [Keys -> Records]
    BY Typed, NoRow DEF Released
  <2>. QED
    BY <2>1 DEF TypeOK
<1>2. \A j \in Keys : \/ records'[j] = records[j]
                      \/ records'[j] = NoRecord /\ ~Consumed(j)
  BY DEF Released, Consumed
<1>3. Truth' /\ Retained' /\ AtMostOnce'
  BY <1>2, StoreKept, Typed
<1>4. Served' /\ Claimed' /\ Owned'
  BY DEF Served, Serving, Claimed, Executed, Owned
<1>. QED
  BY <1>1, <1>3, <1>4

LEMMA ClockKeeps == ASSUME IInv, Tick \/ SetBack PROVE IInv'
<1>. USE DEF IInv, Tick, SetBack, storeVars, dispatchVars
<1>1. /\ clock' \in Nat /\ setbacks' \in Nat
      /\ clock' <= latest' /\ latest' \in Nat /\ latest' >= latest
  <2>1. clock \in Nat /\ latest \in Nat /\ setbacks \in Nat
    BY DEF TypeOK
  <2>. QED
    BY <2>1
<1>4. TypeOK'
  BY <1>1 DEF TypeOK
<1>2. Truth' /\ Retained' /\ AtMostOnce'
  BY <1>1, StoreKept
<1>3. Served' /\ Claimed' /\ Owned'
  BY DEF Served, Serving, Claimed, Executed, Owned
<1>. QED
  BY <1>1, <1>2, <1>3, <1>4

LEMMA StepInvariant == IInv /\ [Next]_vars => IInv'
<1>. SUFFICES ASSUME IInv, [Next]_vars PROVE IInv'
  OBVIOUS
<1>1. CASE control.stage # "pending" /\ Serve
  BY <1>1, LookKeeps, ReserveKeeps DEF Serve
<1>2. CASE Mutate
  BY <1>2, MutateKeeps
<1>3. CASE Dispatch
  BY <1>3, HandledKeeps, GiveUpKeeps, CompleteKeeps, IncompleteKeeps, ArmKeeps
     DEF Dispatch
<1>4. CASE \E k \in Keys : Prune(k)
  BY <1>4, PruneKeeps
<1>5. CASE Leave \/ Crash
  BY <1>5, GoneKeeps DEF Leave, Crash
<1>6. CASE Start
  BY <1>6, StartKeeps
<1>7. CASE Tick \/ SetBack
  BY <1>7, ClockKeeps
<1>8. CASE UNCHANGED vars
  <2>0. /\ UNCHANGED records /\ UNCHANGED executions /\ UNCHANGED clock
        /\ UNCHANGED setbacks /\ UNCHANGED latest /\ UNCHANGED pc /\ UNCHANGED current
        /\ UNCHANGED completed /\ UNCHANGED control /\ UNCHANGED answer
    BY <1>8 DEF vars, storeVars, timeVars, dispatchVars
  <2>1. clock' <= latest'
    BY <2>0 DEF IInv
  <2>4. TypeOK'
    <3>1. completed' \in BOOLEAN
      BY <2>0 DEF TypeOK, IInv
    <3>. QED
      BY <2>0, <3>1 DEF TypeOK, IInv
  <2>2. Truth' /\ Retained' /\ AtMostOnce'
    BY <2>0, StoreKept, Typed DEF IInv
  <2>3. Served' /\ Claimed' /\ Owned'
    BY <2>0 DEF Served, Serving, Claimed, Executed, Owned, IInv
  <2>. QED
    BY <2>1, <2>2, <2>3, <2>4 DEF IInv
<1>. QED
  BY <1>1, <1>2, <1>3, <1>4, <1>5, <1>6, <1>7, <1>8 DEF Next

LEMMA Invariance == Spec => []IInv
BY InitInvariant, StepInvariant, PTL DEF Spec

\* Every reachable state is one of the shapes TypeOK lists.
THEOREM RecordTyping == Spec => []TypeOK
<1>1. IInv => TypeOK
  BY DEF IInv
<1>. QED
  BY <1>1, Invariance, PTL

\* No crash, failure, retry, pruning or setting back of the clock makes the
\* mutation of a key happen again before the first one has expired.
THEOREM ExecutedOnce == Spec => []AtMostOnce
<1>1. IInv => AtMostOnce
  BY DEF IInv
<1>. QED
  BY <1>1, Invariance, PTL

\* An accepting response, new or replayed, is about a mutation in the database.
THEOREM AcceptedIsDone == Spec => []ClaimsAreTrue
<1>1. IInv => ClaimsAreTrue
  BY DEF IInv, Claimed, Executed, ClaimsAreTrue
<1>. QED
  BY <1>1, Invariance, PTL

\* The decision to stop is never left staged and is armed only once recorded.
THEOREM ControlAfterRecord == Spec => []ControlIsRecorded
<1>1. IInv => ControlIsRecorded
  BY DEF IInv, Owned, Serving, ControlIsRecorded
<1>. QED
  BY <1>1, Invariance, PTL

-----------------------------------------------------------------------------
(***************************************************************************)
(* The files of a Node (Reconfiguration).                                  *)
(* What a loss of power can leave of the state directory is the files      *)
(* after some of the unsynced operations (View).  Each view has an intent, *)
(* which is rolled forward whatever else it has, or it is whole and has    *)
(* come no less far than the disk (Sound); the configuration, in another   *)
(* directory, is replaced only where every view has the intent             *)
(* (ConfigAfterIntent).  A process that recovers or commits is at one      *)
(* operation of a roll forward, with those before it durable (Rolling); a  *)
(* service's memory is at most one assignment behind its files (Loaded).   *)
(***************************************************************************)
J == journal["state directory"]
K == journal["config directory"]
Values == States \cup Configurations \cup {Absent}
Operations(files) ==
  {op \in [file : files, content : Values] : op.content \in Contents(op.file)}
View(n) == [f \in Files |-> After(disk, SubSeq(J, 1, n), f)]
Latest == View(Len(J))
JournalsTyped ==
  /\ DOMAIN journal = Directories
  /\ J \in Seq(Operations(StateFiles)) /\ K \in Seq(Operations({"config"}))

\* A set of numbers has a largest one if it is bounded.
LEMMA LargestExists ==
  ASSUME NEW bound \in Nat, NEW S \in SUBSET (1..bound), S # {}
  PROVE  Max(S) \in S /\ \A j \in S : j <= Max(S)
<1> DEFINE R == {ss \in Nat \X Nat : ss[1] < ss[2]}
           D == {bound - i : i \in S}
<1>1. \A x, y \in Nat : <<y, x>> \in R <=> y < x
  OBVIOUS
<1>2. IsWellFoundedOn(R, Nat)
  BY NatLessThanWellFounded, Zenon DEF OpToRel
<1>3. D \subseteq Nat /\ D # {}
  <2>1. \A i \in S : i \in 1..bound
    OBVIOUS
  <2>2. \A i \in 1..bound : bound - i \in Nat
    OBVIOUS
  <2>. QED  BY <2>1, <2>2
<1> HIDE DEF R
<1>4. \E x \in D : \A y \in D : ~(<<y, x>> \in R)
  <2> HIDE DEF D
  <2>. QED  BY <1>2, <1>3, WFMin, Zenon
<1>5. \E x \in D : \A y \in D : ~(y < x)
  BY <1>1, <1>3, <1>4, Zenon
<1>6. \E i \in S : \A j \in S : j <= i
  <2>1. PICK i \in S : \A y \in D : ~(y < bound - i)
    BY <1>5
  <2>2. ASSUME NEW j \in S PROVE j <= i
    <3>1. ~(bound - j < bound - i)
      BY <2>1, <2>2
    <3>2. i \in Int /\ j \in Int
      BY <2>1, <2>2
    <3>. QED  BY <3>1, <3>2
  <2>. QED  BY <2>2
<1>7. \E i \in S : \A j \in S : i >= j
  <2>1. \A i, j \in S : j <= i => i >= j
    OBVIOUS
  <2>. QED  BY <1>6, <2>1, Zenon
<1>8. Max(S) \in S /\ \A j \in S : Max(S) >= j
  BY <1>7, Zenon DEF Max
<1>. QED
  BY <1>8

\* What one operation more does to the content of a file.
LEMMA AfterNothing ==
  ASSUME NEW x, NEW f PROVE After(x, <<>>, f) = x[f]
<1>1. {i \in DOMAIN <<>> : <<>>[i].file = f} = {}
  OBVIOUS
<1>. QED
  BY <1>1 DEF After

LEMMA AfterAppend ==
  ASSUME NEW x, NEW T, NEW s \in Seq(T), NEW op \in T, NEW f
  PROVE  After(x, Append(s, op), f) = IF op.file = f THEN op.content ELSE After(x, s, f)
<1> DEFINE t == Append(s, op)
           n == Len(s) + 1
           on == {i \in DOMAIN s : s[i].file = f}
           more == {i \in DOMAIN t : t[i].file = f}
<1>1. n \in Nat /\ DOMAIN s = 1..Len(s) /\ DOMAIN t = 1..n /\ t[n] = op
      /\ \A i \in DOMAIN s : t[i] = s[i] /\ i < n /\ n \notin DOMAIN s
  OBVIOUS
<1>2. CASE op.file = f
  <2>1. n \in more /\ more \subseteq 1..n
    BY <1>1, <1>2
  <2>2. Max(more) \in more /\ n <= Max(more)
    BY <1>1, <2>1, LargestExists
  <2>3. Max(more) = n
    <3>1. Max(more) \in 1..n
      BY <2>1, <2>2, Zenon
    <3>2. n <= Max(more) /\ n \in Nat
      BY <1>1, <2>2
    <3> HIDE DEF n, more
    <3>. QED  BY <3>1, <3>2
  <2>. QED  BY <1>1, <1>2, <2>1, <2>3 DEF After
<1>3. CASE op.file # f
  <2>1. more = on
    <3>1. DOMAIN t = DOMAIN s \cup {n}
      BY <1>1
    <3>. QED  BY <1>1, <1>3, <3>1
  <2>2. on # {} => Max(on) \in on
    <3>1. on \subseteq 1..Len(s) /\ Len(s) \in Nat
      BY <1>1
    <3> HIDE DEF on
    <3>. QED  BY <3>1, LargestExists
  <2>3. on # {} => t[Max(on)] = s[Max(on)]
    BY <1>1, <2>2
  <2>4. After(x, t, f) = (IF more = {} THEN x[f] ELSE t[Max(more)].content)
    BY DEF After
  <2>5. After(x, s, f) = (IF on = {} THEN x[f] ELSE s[Max(on)].content)
    BY DEF After
  <2> HIDE DEF on, more
  <2>. QED  BY <1>3, <2>1, <2>3, <2>4, <2>5
<1>. QED
  BY <1>2, <1>3

LEMMA AfterTyped ==
  ASSUME NEW x, NEW files \in SUBSET Files, NEW s \in Seq(Operations(files)), NEW f \in Files,
         x[f] \in Contents(f)
  PROVE  /\ After(x, s, f) \in Contents(f)
         /\ f \notin files => After(x, s, f) = x[f]
<1> DEFINE on == {i \in DOMAIN s : s[i].file = f}
<1>1. DOMAIN s = 1..Len(s) /\ Len(s) \in Nat /\ \A i \in DOMAIN s : s[i] \in Operations(files)
  OBVIOUS
<1>2. \A i \in on : s[i].content \in Contents(f) /\ f \in files
  BY <1>1 DEF Operations
<1>3. on # {} => Max(on) \in on
  BY <1>1, LargestExists
<1>4. After(x, s, f) = (IF on = {} THEN x[f] ELSE s[Max(on)].content)
  BY DEF After
<1> HIDE DEF on
<1>. QED
  BY <1>2, <1>3, <1>4

\* How the views change when an operation is made and when it is synced.
Changed(v, op) == [f \in Files |-> IF op.file = f THEN op.content ELSE v[f]]

LEMMA ViewFacts ==
  ASSUME JournalsTyped, disk = [f \in Files |-> disk[f]]
  PROVE  /\ Len(J) \in Nat /\ View(0) = disk
         /\ \A f \in StateFiles : Visible(f) = Latest[f]
         /\ K = <<>> => Visible("config") = disk["config"]
         /\ J = <<>> => Latest = disk
<1>1. J \in Seq(Operations(StateFiles)) /\ Len(J) \in Nat
  BY DEF JournalsTyped
<1>2. SubSeq(J, 1, 0) = <<>>
  BY SubSeqEmpty
<1>3. SubSeq(J, 1, Len(J)) = J
  BY <1>1, SubSeqFull
<1>4. \A f \in Files : After(disk, <<>>, f) = disk[f]
  BY AfterNothing
<1>5. View(0) = disk
  BY <1>2, <1>4 DEF View
<1>6. \A f \in StateFiles : Visible(f) = Latest[f]
  BY <1>3 DEF Visible, Latest, View, StateFiles, Directory, J
<1>7. K = <<>> => Visible("config") = disk["config"]
  BY <1>4 DEF Visible, Directory, K, Files
<1>8. J = <<>> => Latest = disk
  <2>1. J = <<>> => Len(J) = 0
    OBVIOUS
  <2>. QED  BY <1>5, <2>1 DEF Latest
<1>. QED
  BY <1>1, <1>5, <1>6, <1>7, <1>8

LEMMA ConfigStays ==
  ASSUME JournalsTyped, \A f \in Files : disk[f] \in Contents(f), NEW n \in 0..Len(J)
  PROVE  /\ View(n)["config"] = disk["config"]
         /\ \A f \in Files : View(n)[f] \in Contents(f)
<1>1. J \in Seq(Operations(StateFiles)) /\ Len(J) \in Nat
  BY DEF JournalsTyped
<1>2. SubSeq(J, 1, n) \in Seq(Operations(StateFiles))
  <2>1. \A i \in 1..n : J[i] \in Operations(StateFiles)
    BY <1>1
  <2>. QED  BY <2>1, SubSeqProperties
<1>3. StateFiles \in SUBSET Files /\ "config" \in Files /\ "config" \notin StateFiles
  BY DEF StateFiles, Files
<1>4. \A f \in Files : /\ After(disk, SubSeq(J, 1, n), f) \in Contents(f)
                       /\ f \notin StateFiles => After(disk, SubSeq(J, 1, n), f) = disk[f]
  BY <1>2, <1>3, AfterTyped
<1>. QED
  BY <1>3, <1>4 DEF View

LEMMA ViewsAppended ==
  ASSUME JournalsTyped, NEW op \in Operations(StateFiles),
         J' = Append(J, op), disk' = disk
  PROVE  /\ Len(J)' = Len(J) + 1
         /\ \A n \in 0..Len(J) : View(n)' = View(n)
         /\ Latest' = Changed(Latest, op)
<1>1. J \in Seq(Operations(StateFiles)) /\ Len(J) \in Nat
  BY DEF JournalsTyped
<1>2. J' \in Seq(Operations(StateFiles)) /\ Len(J') = Len(J) + 1
  BY <1>1
<1>3. ASSUME NEW n \in 0..Len(J) PROVE SubSeq(J', 1, n) = SubSeq(J, 1, n)
  <2>1. \A i \in 1..n : J'[i] = J[i] /\ J[i] \in Operations(StateFiles)
    BY <1>1
  <2>2. n \in Int /\ 1 \in Int
    BY <1>1
  <2>3. /\ SubSeq(J, 1, n) \in Seq(Operations(StateFiles))
        /\ Len(SubSeq(J, 1, n)) = IF 1 <= n THEN n - 1 + 1 ELSE 0
        /\ \A i \in 1..n - 1 + 1 : SubSeq(J, 1, n)[i] = J[1 + i - 1]
    BY <2>1, <2>2, SubSeqProperties
  <2>4. /\ SubSeq(J', 1, n) \in Seq(Operations(StateFiles))
        /\ Len(SubSeq(J', 1, n)) = IF 1 <= n THEN n - 1 + 1 ELSE 0
        /\ \A i \in 1..n - 1 + 1 : SubSeq(J', 1, n)[i] = J'[1 + i - 1]
    BY <2>1, <2>2, SubSeqProperties
  <2>5. \A i \in 1..Len(SubSeq(J', 1, n)) : SubSeq(J', 1, n)[i] = SubSeq(J, 1, n)[i]
    BY <2>1, <2>3, <2>4
  <2>. QED  BY <2>3, <2>4, <2>5, SeqEqual
<1>4. \A n \in 0..Len(J) : View(n)' = View(n)
  BY <1>3 DEF View
<1>5. Latest' = [f \in Files |-> After(disk, J', f)]
  <2>1. SubSeq(J', 1, Len(J')) = J'
    BY <1>2, SubSeqFull
  <2>. QED  BY <2>1 DEF Latest, View
<1>6. Latest = [f \in Files |-> After(disk, J, f)]
  <2>1. SubSeq(J, 1, Len(J)) = J
    BY <1>1, SubSeqFull
  <2>. QED  BY <2>1 DEF Latest, View
<1>7. \A f \in Files : After(disk, J', f) = IF op.file = f THEN op.content ELSE After(disk, J, f)
  BY <1>1, AfterAppend
<1>. QED
  BY <1>2, <1>4, <1>5, <1>6, <1>7 DEF Changed

LEMMA ViewsEmptied ==
  ASSUME J' = <<>>, disk' = [f \in Files |-> disk'[f]]
  PROVE  Len(J)' = 0 /\ View(0)' = disk' /\ Latest' = disk'
<1>1. Len(J') = 0
  OBVIOUS
<1>2. SubSeq(J', 1, 0) = <<>>
  BY SubSeqEmpty
<1>3. \A f \in Files : After(disk', <<>>, f) = disk'[f]
  BY AfterNothing
<1>4. View(0)' = [f \in Files |-> After(disk', SubSeq(J', 1, 0), f)]
  BY DEF View
<1>5. View(0)' = disk'
  <2>1. \A f \in Files : After(disk', SubSeq(J', 1, 0), f) = disk'[f]
    BY <1>2, <1>3
  <2>2. View(0)' = [f \in Files |-> disk'[f]]
    BY <1>4, <2>1, Zenon
  <2>. QED  BY <2>2, Zenon
<1>6. Latest' = View(0)'
  BY <1>1 DEF Latest
<1>. QED
  BY <1>1, <1>5, <1>6

\* Syncing the directory of the configuration changes that file only.
LEMMA ViewsOfState ==
  ASSUME J' = J, \A f \in StateFiles : disk'[f] = disk[f], NEW n
  PROVE  \A f \in StateFiles : View(n)'[f] = View(n)[f]
<1>1. ASSUME NEW f \in StateFiles, NEW s PROVE After(disk', s, f) = After(disk, s, f)
  BY <1>1 DEF After
<1>. QED
  BY <1>1 DEF View, StateFiles

\* A set of files of one configuration, at some stage of its enrollment.
Enrollment(s) == IF s = Missing THEN NoAssignment ELSE s
TicketMarker(c) == IF c \in Tickets THEN c ELSE Absent
Later(q, p) == q = p \/ p = "none" \/ q = "enrolled"

WholeView(v) ==
  LET c == v["config"]
      e == Enrollment(v["state"])
  IN  /\ v["intent"] = Absent
      /\ v["identity"] \in {Absent, c} /\ v["token"] \in {Absent, c}
      /\ v["marker"] \in {Absent, TicketMarker(c)}
      /\ v["state"] = Missing => c = Absent
      /\ e.phase \in {"none", "staged", "enrolled"}
      /\ e.phase = "none" => e.by = Absent
      /\ e.phase # "none" => c # Absent /\ e.by = c /\ v["identity"] = c
      /\ e.phase # "enrolled" => v["token"] = c /\ v["marker"] = TicketMarker(c)

\* The files v have progressed from x.
Below(x, v) ==
  /\ v["config"] = x["config"]
  /\ x["identity"] # Absent => v["identity"] = x["identity"]
  /\ Later(Enrollment(v["state"]).phase, Enrollment(x["state"]).phase)
  /\ v["token"] \in {x["token"], Absent}
  /\ v["marker"] \in {x["marker"], Absent}

\* What a loss of power may make of the disk x: an intent that is rolled
\* forward, or whole files that x has come to.
Sound(x, v) ==
  v["intent"] = Absent =>
    /\ WholeView(v)
    /\ v["config"] = x["config"]
    /\ x["intent"] = Absent => Below(x, v)
    /\ x["intent"] # Absent => x["intent"] = x["config"]

\* The configuration that files lead to.
Candidate(v) == IF v["intent"] # Absent THEN v["intent"] ELSE v["config"]

EachSound ==
  \A n \in 0..Len(J) : Sound(disk, View(n)) /\ Candidate(View(n)) \in expected
ConfigAfterIntent ==
  K # <<>> => \A n \in 0..Len(J) : View(n)["intent"] # Absent
IntentsAgree ==
  \A n \in 0..Len(J) : View(n)["intent"] = Absent =>
    \A m \in 0..n : View(m)["intent"] \in {Absent, disk["config"]}
FilesTyped ==
  /\ disk = [f \in Files |-> disk[f]] /\ \A f \in Files : disk[f] \in Contents(f)
  /\ JournalsTyped
Storage == FilesTyped /\ EachSound /\ ConfigAfterIntent /\ IntentsAgree

LEMMA SoundOfItself ==
  ASSUME NEW x, NEW v, Sound(x, v) PROVE Sound(v, v)
BY DEF Sound, Below, Later

LEMMA AppendKeeps ==
  ASSUME Storage, NEW op \in Operations(StateFiles),
         J' = Append(J, op), K' = K, DOMAIN journal' = Directories,
         disk' = disk, expected' = expected,
         Sound(disk, Changed(Latest, op)), Candidate(Changed(Latest, op)) \in expected,
         K # <<>> => Changed(Latest, op)["intent"] # Absent,
         Changed(Latest, op)["intent"] = Absent =>
           \A m \in 0..Len(J) : View(m)["intent"] \in {Absent, disk["config"]}
  PROVE  Storage'
<1> DEFINE w == Changed(Latest, op)
<1>1. JournalsTyped /\ Len(J) \in Nat
  BY DEF Storage, FilesTyped, JournalsTyped
<1>2. /\ Len(J)' = Len(J) + 1
      /\ \A n \in 0..Len(J) : View(n)' = View(n)
      /\ Latest' = w
  BY <1>1, ViewsAppended
<1>3. ASSUME NEW n, n = Len(J) + 1 PROVE View(n)' = w
  BY <1>2, <1>3 DEF Latest
<1>4. FilesTyped'
  <2>1. J' \in Seq(Operations(StateFiles))
    BY <1>1 DEF JournalsTyped
  <2>2. JournalsTyped'
    BY <1>1, <2>1 DEF JournalsTyped
  <2>. QED  BY <2>2 DEF Storage, FilesTyped
<1> HIDE DEF w
<1>5. \A n \in 0..Len(J)' : n \in 0..Len(J) \/ n = Len(J) + 1
  <2>1. Len(J)' = Len(J) + 1 /\ Len(J) \in Nat
    BY <1>1, <1>2
  <2>2. \A k \in Nat : \A n \in 0..k + 1 : n \in 0..k \/ n = k + 1
    OBVIOUS
  <2>. QED  BY <2>1, <2>2
<1>6. EachSound'
  <2>1. ASSUME NEW n \in 0..Len(J)'
        PROVE  Sound(disk', View(n)') /\ Candidate(View(n)') \in expected'
    <3>1. CASE n \in 0..Len(J)
      BY <1>2, <3>1 DEF Storage, EachSound
    <3>2. CASE n = Len(J) + 1
      BY <1>3, <3>2 DEF w
    <3>. QED  BY <1>5, <3>1, <3>2
  <2>. QED  BY <2>1 DEF EachSound
<1>7. ConfigAfterIntent'
  <2>1. ASSUME K # <<>>, NEW n \in 0..Len(J)' PROVE View(n)'["intent"] # Absent
    <3>1. CASE n \in 0..Len(J)
      BY <1>2, <2>1, <3>1 DEF Storage, ConfigAfterIntent
    <3>2. CASE n = Len(J) + 1
      BY <1>3, <2>1, <3>2 DEF w
    <3>. QED  BY <1>5, <3>1, <3>2
  <2>. QED  BY <2>1 DEF ConfigAfterIntent
<1>8. IntentsAgree'
  <2>1. ASSUME NEW n \in 0..Len(J)', View(n)'["intent"] = Absent, NEW m \in 0..n
        PROVE  View(m)'["intent"] \in {Absent, disk["config"]}
    <3>1. CASE n \in 0..Len(J)
      <4>1. m \in 0..Len(J)
        BY <1>1, <3>1
      <4>. QED  BY <1>2, <2>1, <3>1, <4>1 DEF Storage, IntentsAgree
    <3>2. CASE n = Len(J) + 1
      <4>1. w["intent"] = Absent
        BY <1>3, <2>1, <3>2
      <4>2. m \in 0..Len(J) \/ m = Len(J) + 1
        BY <1>1, <3>2
      <4>. QED  BY <1>2, <1>3, <4>1, <4>2 DEF w
    <3>. QED  BY <1>5, <3>1, <3>2
  <2>. QED  BY <2>1 DEF IntentsAgree
<1>. QED
  BY <1>4, <1>6, <1>7, <1>8 DEF Storage

LEMMA ConfigAppendKeeps ==
  ASSUME Storage, NEW op \in Operations({"config"}),
         K' = Append(K, op), J' = J, DOMAIN journal' = Directories,
         disk' = disk, expected' = expected,
         \A n \in 0..Len(J) : View(n)["intent"] # Absent
  PROVE  Storage'
<1>1. \A n : View(n)' = View(n)
  BY DEF View
<1>2. K' \in Seq(Operations({"config"}))
  BY DEF Storage, FilesTyped, JournalsTyped
<1>3. FilesTyped'
  BY <1>2 DEF Storage, FilesTyped, JournalsTyped
<1>. QED
  BY <1>1, <1>3 DEF Storage, EachSound, ConfigAfterIntent, IntentsAgree

\* A single view, once nothing waits to be synced.
LEMMA SettledKeeps ==
  ASSUME J' = <<>>, K' = <<>>, DOMAIN journal' = Directories,
         disk' = [f \in Files |-> disk'[f]], \A f \in Files : disk'[f] \in Contents(f),
         Sound(disk', disk'), Candidate(disk') \in expected'
  PROVE  Storage'
<1>1. Len(J)' = 0 /\ View(0)' = disk'
  BY ViewsEmptied
<1>2. FilesTyped'
  BY DEF FilesTyped, JournalsTyped
<1>3. \A n \in 0..Len(J)' : n = 0
  BY <1>1
<1>4. \A n \in 0..Len(J)' : \A m \in 0..n : m = 0 /\ n = 0
  BY <1>1
<1>5. EachSound'
  BY <1>1, <1>3 DEF EachSound
<1>6. ConfigAfterIntent'
  BY DEF ConfigAfterIntent
<1>7. IntentsAgree'
  BY <1>1, <1>4 DEF IntentsAgree
<1>. QED
  BY <1>2, <1>5, <1>6, <1>7 DEF Storage

LEMMA OnlyZero == ASSUME NEW k \in Nat, k = 0 PROVE \A n \in 0..k : n = 0 /\ \A m \in 0..n : m = 0
<1>1. ASSUME NEW n \in 0..k PROVE n = 0
  OBVIOUS
<1>2. ASSUME NEW n \in 0..k, NEW m \in 0..n PROVE m = 0
  BY <1>1
<1>. QED
  BY <1>1, <1>2

LEMMA StateFilesAre ==
  /\ StateFiles \subseteq Files /\ "config" \in Files /\ Files = StateFiles \cup {"config"}
  /\ "config" \notin StateFiles /\ "intent" \in StateFiles
  /\ \A f \in StateFiles : Directory(f) = "state directory"
  /\ Directory("config") = "config directory"
  /\ "state directory" # "config directory"
  /\ Directories = {"state directory", "config directory"}
BY DEF StateFiles, Files, Directory, Directories

LEMMA SyncedState ==
  ASSUME FilesTyped PROVE Synced("state directory") = Latest
<1>1. J \in Seq(Operations(StateFiles)) /\ JournalsTyped
  BY DEF FilesTyped, JournalsTyped
<1>2. SubSeq(J, 1, Len(J)) = J
  BY <1>1, SubSeqFull
<1>3. Len(J) \in 0..Len(J)
  BY <1>1
<1>4. Latest["config"] = disk["config"]
  BY <1>1, <1>3, ConfigStays DEF FilesTyped, Latest
<1>5. After(disk, J, "config") = disk["config"]
  BY <1>2, <1>4, StateFilesAre DEF Latest, View
<1>6. Latest = [f \in Files |-> After(disk, J, f)]
  BY <1>2 DEF Latest, View
<1>7. \A f \in Files : (IF Directory(f) = "state directory" THEN After(disk, J, f) ELSE disk[f])
                       = After(disk, J, f)
  BY <1>5, StateFilesAre
<1>. QED
  BY <1>6, <1>7 DEF Synced, J

LEMMA SyncedConfig ==
  /\ \A f \in StateFiles : Synced("config directory")[f] = disk[f]
  /\ Synced("config directory")["config"] = Visible("config")
BY StateFilesAre DEF Synced, Visible

LEMMA LatestFacts ==
  ASSUME Storage
  PROVE  /\ Len(J) \in Nat /\ Len(J) \in 0..Len(J)
         /\ Latest = [f \in Files |-> Latest[f]]
         /\ \A f \in Files : Latest[f] \in Contents(f)
         /\ Latest["config"] = disk["config"]
         /\ Sound(disk, Latest) /\ Candidate(Latest) \in expected
         /\ \A f \in StateFiles : Visible(f) = Latest[f]
         /\ Latest["intent"] = Absent => K = <<>> /\ Visible("config") = disk["config"]
         /\ J = <<>> => Latest = disk
<1>1. JournalsTyped /\ J \in Seq(Operations(StateFiles))
  BY DEF Storage, FilesTyped, JournalsTyped
<1>2. Len(J) \in Nat /\ Len(J) \in 0..Len(J)
  BY <1>1
<1>3. (\A f \in Files : Latest[f] \in Contents(f)) /\ Latest["config"] = disk["config"]
  BY <1>1, <1>2, ConfigStays DEF Latest, Storage, FilesTyped
<1>4. Sound(disk, Latest) /\ Candidate(Latest) \in expected
  BY <1>2 DEF Latest, Storage, EachSound
<1>5. Latest["intent"] = Absent => K = <<>>
  BY <1>2 DEF Latest, Storage, ConfigAfterIntent
<1>6. /\ \A f \in StateFiles : Visible(f) = Latest[f]
      /\ K = <<>> => Visible("config") = disk["config"]
      /\ J = <<>> => Latest = disk
  BY <1>1, ViewFacts DEF Storage, FilesTyped
<1>7. Latest = [f \in Files |-> Latest[f]]
  BY DEF Latest, View
<1>. QED
  BY <1>2, <1>3, <1>4, <1>5, <1>6, <1>7

LEMMA SyncStateKeeps ==
  ASSUME Storage, disk' = Synced("state directory"), DOMAIN journal' = Directories,
         J' = <<>>, K' = K, expected' = expected
  PROVE  Storage' /\ disk' = Latest /\ Latest' = Latest
<1>1. disk' = Latest
  BY SyncedState DEF Storage
<1>2. disk' = [f \in Files |-> disk'[f]] /\ \A f \in Files : disk'[f] \in Contents(f)
  BY <1>1, LatestFacts
<1>3. Len(J)' = 0 /\ View(0)' = disk' /\ Latest' = disk'
  BY <1>2, ViewsEmptied
<1>4. Sound(disk', disk') /\ Candidate(disk') \in expected'
  BY <1>1, LatestFacts, SoundOfItself
<1>5. \A n \in 0..Len(J)' : n = 0 /\ \A m \in 0..n : m = 0
  BY <1>3, OnlyZero
<1>6. FilesTyped'
  <2>1. J' \in Seq(Operations(StateFiles)) /\ K' \in Seq(Operations({"config"}))
    BY EmptySeq DEF FilesTyped, JournalsTyped, Storage
  <2>2. JournalsTyped'
    BY <2>1 DEF JournalsTyped
  <2>. QED  BY <1>2, <2>2 DEF FilesTyped
<1>7. EachSound'
  BY <1>3, <1>4, <1>5 DEF EachSound
<1>8. ConfigAfterIntent'
  <2>1. K # <<>> => Latest["intent"] # Absent
    BY LatestFacts
  <2>. QED  BY <1>1, <1>3, <1>5, <2>1 DEF ConfigAfterIntent
<1>9. IntentsAgree'
  BY <1>3, <1>5 DEF IntentsAgree
<1>. QED
  BY <1>1, <1>3, <1>6, <1>7, <1>8, <1>9 DEF Storage

LEMMA SyncConfigKeeps ==
  ASSUME Storage, disk' = Synced("config directory"), DOMAIN journal' = Directories,
         K' = <<>>, J' = J, expected' = expected,
         \A n \in 0..Len(J) : View(n)["intent"] # Absent
  PROVE  /\ Storage'
         /\ \A f \in StateFiles : disk'[f] = disk[f] /\ Latest'[f] = Latest[f]
         /\ disk'["config"] = Visible("config")
<1>1. (\A f \in StateFiles : disk'[f] = disk[f]) /\ disk'["config"] = Visible("config")
  BY SyncedConfig
<1>2. ASSUME NEW n PROVE \A f \in StateFiles : View(n)'[f] = View(n)[f]
  BY <1>1, ViewsOfState
<1>3. \A n \in 0..Len(J) : View(n)'["intent"] = View(n)["intent"] /\ View(n)'["intent"] # Absent
  BY <1>2, StateFilesAre
<1>4. Len(J)' = Len(J)
  OBVIOUS
<1>5. FilesTyped'
  <2>1. disk' = [f \in Files |-> disk'[f]]
    BY DEF Synced
  <2>2. K \in Seq(Operations({"config"})) /\ disk["config"] \in Contents("config")
    BY StateFilesAre DEF Storage, FilesTyped, JournalsTyped
  <2>3. After(disk, K, "config") \in Contents("config")
    BY <2>2, StateFilesAre, AfterTyped
  <2>4. Visible("config") \in Contents("config")
    BY <2>3, StateFilesAre DEF Visible, K
  <2>5. \A f \in Files : disk'[f] \in Contents(f)
    BY <1>1, <2>4, StateFilesAre DEF Storage, FilesTyped
  <2>6. JournalsTyped'
    <3>1. J' \in Seq(Operations(StateFiles)) /\ K' \in Seq(Operations({"config"}))
      BY EmptySeq DEF FilesTyped, JournalsTyped, Storage
    <3>. QED  BY <3>1 DEF JournalsTyped
  <2>. QED  BY <2>1, <2>5, <2>6 DEF FilesTyped
<1>6. EachSound'
  <2>1. ASSUME NEW n \in 0..Len(J)
        PROVE  Sound(disk', View(n)') /\ Candidate(View(n)') \in expected'
    BY <1>3, <2>1 DEF Storage, EachSound, Sound, Candidate
  <2>. QED  BY <1>4, <2>1 DEF EachSound
<1>7. ConfigAfterIntent' /\ IntentsAgree'
  BY <1>3, <1>4 DEF ConfigAfterIntent, IntentsAgree
<1>8. \A f \in StateFiles : Latest'[f] = Latest[f]
  BY <1>2, <1>4 DEF Latest
<1>. QED
  BY <1>1, <1>5, <1>6, <1>7, <1>8 DEF Storage

\* A loss of power leaves one of the views, with a configuration that may be
\* newer where there is an intent to roll forward.
LEMMA LossLeavesView ==
  ASSUME Storage, NEW kept \in [Directories -> 0..MaxInterruptions + 1],
         \A d \in Directories : kept[d] <= Len(journal[d]),
         disk' = [f \in Files |->
            LET d == Directory(f) IN After(disk, SubSeq(journal[d], 1, kept[d]), f)]
  PROVE  \E n \in 0..Len(J) :
           /\ \A f \in StateFiles : disk'[f] = View(n)[f]
           /\ \/ View(n)["intent"] # Absent
              \/ disk'["config"] = View(n)["config"]
           /\ \A f \in Files : disk'[f] \in Contents(f)
<1> DEFINE n == kept["state directory"]
           m == kept["config directory"]
<1>1. /\ J \in Seq(Operations(StateFiles)) /\ K \in Seq(Operations({"config"}))
      /\ n \in Nat /\ m \in Nat /\ n <= Len(J) /\ m <= Len(K) /\ Len(J) \in Nat
  <2>1. J \in Seq(Operations(StateFiles)) /\ K \in Seq(Operations({"config"})) /\ Len(J) \in Nat
    BY DEF Storage, FilesTyped, JournalsTyped
  <2>2. n \in 0..MaxInterruptions + 1 /\ m \in 0..MaxInterruptions + 1
    BY StateFilesAre
  <2>3. n <= Len(J) /\ m <= Len(K)
    BY StateFilesAre DEF J, K
  <2> HIDE DEF n, m
  <2>4. n \in Nat /\ m \in Nat
    BY <2>2, ParametersAssumption
  <2>. QED  BY <2>1, <2>3, <2>4
<1> HIDE DEF n, m
<1>2. n \in 0..Len(J)
  BY <1>1
<1>3. \A f \in StateFiles : disk'[f] = View(n)[f]
  BY StateFilesAre DEF View, J, n
<1>4. disk'["config"] = After(disk, SubSeq(K, 1, m), "config")
  BY StateFilesAre DEF K, m
<1>5. /\ View(n)["config"] = disk["config"]
      /\ \A f \in Files : View(n)[f] \in Contents(f)
  BY <1>2, ConfigStays DEF Storage, FilesTyped
<1>6. K = <<>> => disk'["config"] = disk["config"]
  <2>1. K = <<>> => m = 0
    <3>1. K = <<>> => Len(K) = 0
      OBVIOUS
    <3>. QED  BY <1>1, <3>1
  <2>2. SubSeq(K, 1, 0) = <<>>
    BY SubSeqEmpty
  <2>. QED  BY <1>4, <2>1, <2>2, AfterNothing
<1>7. disk'["config"] \in Contents("config")
  <2>1. \A i \in 1..m : K[i] \in Operations({"config"})
    <3>1. \A i \in 1..m : i \in 1..Len(K)
      BY <1>1
    <3>. QED  BY <1>1, <3>1, ElementOfSeq
  <2>2. SubSeq(K, 1, m) \in Seq(Operations({"config"}))
    BY <1>1, <2>1, SubSeqProperties
  <2>3. disk["config"] \in Contents("config") /\ {"config"} \in SUBSET Files
    BY StateFilesAre DEF Storage, FilesTyped
  <2>. QED  BY <1>4, <2>2, <2>3, StateFilesAre, AfterTyped
<1>8. \A f \in Files : disk'[f] \in Contents(f)
  BY <1>3, <1>5, <1>7, StateFilesAre
<1>9. View(n)["intent"] # Absent \/ disk'["config"] = View(n)["config"]
  BY <1>2, <1>5, <1>6 DEF Storage, ConfigAfterIntent
<1>. QED
  BY <1>2, <1>3, <1>8, <1>9

LEMMA PowerLossKeeps == ASSUME Storage, PowerLoss PROVE Storage'
<1>1. PICK kept \in [Directories -> 0..MaxInterruptions + 1] :
        /\ \A d \in Directories : kept[d] <= Len(journal[d])
        /\ disk' = [f \in Files |->
             LET d == Directory(f) IN After(disk, SubSeq(journal[d], 1, kept[d]), f)]
  BY DEF PowerLoss
<1>2. PICK n \in 0..Len(J) :
           /\ \A f \in StateFiles : disk'[f] = View(n)[f]
           /\ \/ View(n)["intent"] # Absent
              \/ disk'["config"] = View(n)["config"]
           /\ \A f \in Files : disk'[f] \in Contents(f)
  BY <1>1, LossLeavesView
<1>3. disk' = [f \in Files |-> disk'[f]]
  BY <1>1
<1>4. journal' = [d \in Directories |-> <<>>] /\ expected' = expected
  BY DEF PowerLoss, Interruption
<1>5. J' = <<>> /\ K' = <<>> /\ DOMAIN journal' = Directories
  BY <1>4, StateFilesAre DEF J, K
<1>6. Sound(disk, View(n)) /\ Candidate(View(n)) \in expected
  BY <1>2 DEF Storage, EachSound
<1>7. Sound(disk', disk') /\ Candidate(disk') \in expected
  <2>1. disk'["intent"] = View(n)["intent"]
    BY <1>2, StateFilesAre
  <2>2. CASE View(n)["intent"] # Absent
    BY <1>6, <2>1, <2>2 DEF Sound, Candidate
  <2>3. CASE View(n)["intent"] = Absent
    <3>1. \A f \in Files : disk'[f] = View(n)[f]
      BY <1>2, <2>3, StateFilesAre
    <3>2. View(n) = [f \in Files |-> View(n)[f]]
      BY DEF View
    <3>3. disk' = View(n)
      BY <1>3, <3>1, <3>2
    <3>. QED  BY <1>6, <3>3, SoundOfItself
  <2>. QED  BY <2>2, <2>3
<1>. QED
  BY <1>2, <1>3, <1>4, <1>5, <1>7, SettledKeeps

LEMMA ExpectedGrows ==
  ASSUME Storage, UNCHANGED <<disk, journal>>, expected \subseteq expected' PROVE Storage'
<1>1. (\A n : View(n)' = View(n)) /\ J' = J /\ K' = K
  BY DEF View, J, K
<1>2. EachSound'
  BY <1>1 DEF Storage, EachSound
<1>3. FilesTyped' /\ ConfigAfterIntent' /\ IntentsAgree'
  BY <1>1 DEF Storage, FilesTyped, JournalsTyped, ConfigAfterIntent, IntentsAgree
<1>. QED
  BY <1>2, <1>3 DEF Storage

\* A command reports success when no loss of power leads elsewhere.
LEMMA ExpectedNow ==
  ASSUME Storage, UNCHANGED <<disk, journal>>, expected' = {disk["config"]},
         Latest["intent"] = Absent
  PROVE  Storage'
<1>1. (\A n : View(n)' = View(n)) /\ J' = J /\ K' = K
  BY DEF View, J, K
<1>2. \A n \in 0..Len(J) : Candidate(View(n)) = disk["config"]
  <2>1. ASSUME NEW n \in 0..Len(J)
        PROVE  View(n)["intent"] \in {Absent, disk["config"]} /\ View(n)["config"] = disk["config"]
    <3>1. View(n)["config"] = disk["config"]
      BY ConfigStays DEF Storage, FilesTyped
    <3>2. Len(J) \in 0..Len(J)
      BY LatestFacts
    <3>. QED  BY <3>1, <3>2 DEF Storage, IntentsAgree, Latest
  <2>. QED  BY <2>1 DEF Candidate
<1>3. EachSound'
  BY <1>1, <1>2 DEF Storage, EachSound
<1>4. FilesTyped' /\ ConfigAfterIntent' /\ IntentsAgree'
  BY <1>1 DEF Storage, FilesTyped, JournalsTyped, ConfigAfterIntent, IntentsAgree
<1>. QED
  BY <1>3, <1>4 DEF Storage

-----------------------------------------------------------------------------
\* The process that holds the lock: what it has made of its operations, and
\* what it relies on.
Step(c, i) == RollForward(c)[i]
Rest(c, i) == SubSeq(RollForward(c), i, 6)

\* The files of the reconfiguration c are rolled forward, from operation i on:
\* those before it are durable.
Rolling(c, i) ==
  /\ c \in Configurations /\ i \in 1..6 /\ todo = Rest(c, i)
  /\ i <= 5 \/ ~applied => Latest["intent"] = c
  /\ i >= 2 => /\ disk["intent"] = c /\ disk["token"] = c
               /\ i = 2 \/ ~applied => J = <<>>
               /\ \A f \in StateFiles : f # Step(c, i).file => Latest[f] = disk[f]
  /\ i >= 3 => disk["config"] = c /\ K = <<>>
  /\ i >= 4 => disk["identity"] = Absent
  /\ i >= 5 => disk["state"] = NoAssignment
  /\ i = 6 => disk["marker"] = TicketMarker(c)
Recovering ==
  \/ todo = <<>> /\ Latest["intent"] = Absent
  \/ \E c \in Configurations, i \in 1..6 : Rolling(c, i)
Committing ==
  \/ todo = Commit(argument) /\ K = <<>>
  \/ \E i \in 1..6 : Rolling(argument, i)
  \/ /\ todo = <<>> /\ J = <<>> /\ K = <<>>
     /\ disk["intent"] = Absent /\ disk["config"] = argument

\* A running Node: its memory is at most one assignment behind its files.
Loaded ==
  LET c == disk["config"]
      s == Latest["state"]
  IN  /\ c # Absent /\ Latest["intent"] = Absent
      /\ loaded.phase \in {"none", "staged", "enrolled"}
      /\ loaded.by = IF loaded.phase = "none" THEN Absent ELSE c
      /\ Later(s.phase, loaded.phase)
      /\ s.phase = "enrolled" => loaded.phase # "none"
      /\ loaded.phase # "enrolled" => Latest["token"] = c
Cleaning == loaded.phase = "enrolled" /\ todo \in {Cleanup, Tail(Cleanup)}
Loading == stage = "load" => todo = <<>> \/ Cleaning
Identifying ==
  stage = "identity" =>
    \/ todo = <<>> /\ Latest["identity"] = disk["config"]
    \/ todo = <<Replace("identity", disk["config"])>>
Enrolling ==
  stage = "run" =>
    /\ Latest["identity"] = disk["config"]
    /\ \/ todo = <<>> \/ Cleaning
       \/ /\ loaded.phase = "none"
          /\ todo = <<Replace("state", Assignment("staged", disk["config"]))>>
       \/ loaded.phase = "staged" /\ todo = Completion

Process ==
  /\ proc = "off" => stage = "recover" /\ todo = <<>> /\ ~applied
  /\ stage = "recover" /\ proc # "off" => Recovering
  /\ stage = "commit" => proc \in {"config", "import"} /\ argument \in expected /\ Committing
  /\ proc = "config" => argument \in expected
  /\ proc \in {"config", "import"} => argument \in Configurations
  /\ proc = "import" => argument \in Tickets
  /\ stage \in {"load", "identity", "run"} =>
       proc = "up" /\ Loaded /\ Loading /\ Identifying /\ Enrolling
MadeIsVisible ==
  applied => todo # <<>> /\ Visible(Head(todo).file) = Head(todo).content

\* Every operation is synced but one for each interruption and the current.
Current(d) == IF applied /\ Directory(Head(todo).file) = d THEN 1 ELSE 0
ProcessTyped ==
  /\ \A d \in Directories : Len(journal[d]) <= interruptions + Current(d)
  /\ proc \in {"off", "config", "import", "up"}
  /\ stage \in {"recover", "commit", "load", "identity", "run"}
  /\ argument \in Configurations \cup {Absent}
  /\ todo \in Seq(Operations(Files))
  /\ applied \in BOOLEAN
  /\ loaded \in States
  /\ litter \in BOOLEAN
  /\ interruptions \in 0..MaxInterruptions
  /\ expected \subseteq Configurations \cup {Absent}
  /\ torn \in Tickets \cup {Absent} /\ refused \in Tickets \cup {Absent}
FilesInv == ProcessTyped /\ Storage /\ MadeIsVisible /\ Process

LEMMA Named ==
  /\ Tickets \subseteq Configurations /\ Absent \notin Configurations
  /\ \A f \in Files : Nothing(f) \in Contents(f)
  /\ NoAssignment \in States /\ Missing \in States /\ NoAssignment # Missing
  /\ NoAssignment.phase = "none" /\ NoAssignment.by = Absent
  /\ Missing.phase = "missing" /\ Missing.by = Absent
  /\ \A c \in Configurations : \A phase \in {"none", "staged", "enrolled"} :
       Assignment(phase, c) \in States /\ Assignment(phase, c) # Missing
       /\ Assignment(phase, c).phase = phase /\ Assignment(phase, c).by = c
BY ParametersAssumption DEF Configurations, Absent, Files, Nothing, Contents, NoAssignment,
   Missing, States, Assignment

\* The operations of a roll forward, and their effect on which file.
LEMMA RollSteps ==
  ASSUME NEW c \in Configurations
  PROVE  /\ RollForward(c) \in Seq(Operations(Files)) /\ Len(RollForward(c)) = 6
         /\ Step(c, 1) = Replace("token", c) /\ Step(c, 2) = Replace("config", c)
         /\ Step(c, 3) = Delete("identity") /\ Step(c, 4) = Replace("state", NoAssignment)
         /\ Step(c, 5) = Replace("marker", TicketMarker(c)) /\ Step(c, 6) = Delete("intent")
<1>1. Marker(c) = Replace("marker", TicketMarker(c))
  BY DEF Marker, TicketMarker, Delete, Replace, Nothing
<1>2. RollForward(c) = <<Replace("token", c), Replace("config", c), Delete("identity"),
        Replace("state", NoAssignment), Replace("marker", TicketMarker(c)), Delete("intent")>>
  BY <1>1 DEF RollForward
<1>3. TicketMarker(c) \in Configurations \cup {Absent}
  BY DEF TicketMarker
<1>4. ASSUME NEW f \in Files, NEW x \in Contents(f)
      PROVE  Replace(f, x) \in Operations(Files) /\ Delete(f) \in Operations(Files)
  BY <1>4, Named DEF Replace, Delete, Operations, Contents, Values
<1>5. /\ "token" \in Files /\ c \in Contents("token")
      /\ "config" \in Files /\ c \in Contents("config")
      /\ "identity" \in Files /\ Absent \in Contents("identity")
      /\ "state" \in Files /\ NoAssignment \in Contents("state")
      /\ "marker" \in Files /\ TicketMarker(c) \in Contents("marker")
      /\ "intent" \in Files /\ Absent \in Contents("intent")
  BY <1>3, Named DEF Files, Contents
<1>6. /\ Replace("token", c) \in Operations(Files) /\ Replace("config", c) \in Operations(Files)
      /\ Delete("identity") \in Operations(Files)
      /\ Replace("state", NoAssignment) \in Operations(Files)
      /\ Replace("marker", TicketMarker(c)) \in Operations(Files)
      /\ Delete("intent") \in Operations(Files)
  BY <1>4, <1>5
<1>7. RollForward(c) \in Seq(Operations(Files)) /\ Len(RollForward(c)) = 6
  BY <1>2, <1>6
<1>. QED
  BY <1>2, <1>7 DEF Step

LEMMA RestSteps ==
  ASSUME NEW c \in Configurations, NEW i \in 1..6
  PROVE  /\ Rest(c, i) # <<>> /\ Head(Rest(c, i)) = Step(c, i)
         /\ i <= 5 => Tail(Rest(c, i)) = Rest(c, i + 1)
         /\ i = 6 => Tail(Rest(c, i)) = <<>>
         /\ Rest(c, i) \in Seq(Operations(Files))
<1> DEFINE r == RollForward(c)
<1>1. r \in Seq(Operations(Files)) /\ Len(r) = 6
  BY RollSteps
<1>2. \A k \in i..6 : r[k] \in Operations(Files)
  <2>1. \A k \in i..6 : k \in 1..Len(r)
    BY <1>1
  <2>. QED  BY <1>1, <2>1, ElementOfSeq
<1>3. i \in Int /\ 6 \in Int /\ i <= 6
  OBVIOUS
<1>4. Rest(c, i) \in Seq(Operations(Files)) /\ Len(Rest(c, i)) = 6 - i + 1
  BY <1>2, <1>3, SubSeqProperties DEF Rest
<1>5. Rest(c, i) # <<>>
  <2>1. Len(Rest(c, i)) # 0
    BY <1>3, <1>4
  <2>. QED  BY <2>1
<1>6. i \in 1..Len(r) /\ 6 \in i..Len(r)
  BY <1>1
<1>7. Head(SubSeq(r, i, 6)) = r[i] /\ Tail(SubSeq(r, i, 6)) = SubSeq(r, i + 1, 6)
  BY <1>1, <1>6, HeadTailOfSubSeq
<1>8. i = 6 => SubSeq(r, i + 1, 6) = <<>>
  <2>1. SubSeq(r, 7, 6) = <<>>
    BY SubSeqEmpty
  <2>. QED  BY <2>1
<1>. QED
  BY <1>4, <1>5, <1>7, <1>8 DEF Rest, Step

LEMMA Prefixed ==
  ASSUME NEW T, NEW op \in T, NEW r \in Seq(T)
  PROVE  /\ <<op>> \o r \in Seq(T) /\ <<op>> \o r # <<>>
         /\ Head(<<op>> \o r) = op /\ Tail(<<op>> \o r) = r
<1> DEFINE s == <<op>> \o r
<1>1. <<op>> \in Seq(T) /\ Len(<<op>>) = 1 /\ <<op>>[1] = op /\ Len(r) \in Nat
  OBVIOUS
<1>2. /\ s \in Seq(T) /\ Len(s) = 1 + Len(r)
      /\ \A i \in 1..1 + Len(r) : s[i] = IF i <= 1 THEN <<op>>[i] ELSE r[i - 1]
  BY <1>1, ConcatProperties
<1> HIDE DEF s
<1>3. s # <<>>
  <2>1. Len(s) # 0
    BY <1>1, <1>2
  <2>. QED  BY <2>1
<1>4. Head(s) = op
  <2>1. s[1] = op
    BY <1>1, <1>2
  <2>. QED  BY <1>2, <1>3, <2>1
<1>5. /\ Tail(s) \in Seq(T) /\ Len(Tail(s)) = Len(s) - 1
      /\ \A i \in 1..Len(Tail(s)) : Tail(s)[i] = s[i + 1]
  BY <1>2, <1>3, HeadTailProperties
<1>6. Len(Tail(s)) = Len(r)
  BY <1>1, <1>2, <1>5
<1>7. \A i \in 1..Len(Tail(s)) : Tail(s)[i] = r[i]
  BY <1>1, <1>2, <1>5, <1>6
<1>8. Tail(s) = r
  BY <1>5, <1>6, <1>7, SeqEqual
<1>. QED
  BY <1>2, <1>3, <1>4, <1>8 DEF s

LEMMA Starts ==
  ASSUME NEW c \in Configurations
  PROVE  /\ RollForward(c) = Rest(c, 1)
         /\ Commit(c) # <<>> /\ Commit(c) \in Seq(Operations(Files))
         /\ Head(Commit(c)) = Replace("intent", c) /\ Tail(Commit(c)) = Rest(c, 1)
<1>1. RollForward(c) \in Seq(Operations(Files)) /\ Len(RollForward(c)) = 6
  BY RollSteps
<1>2. RollForward(c) = Rest(c, 1)
  BY <1>1, SubSeqFull DEF Rest
<1>3. Replace("intent", c) \in Operations(Files)
  BY DEF Replace, Operations, Files, Contents, Values
<1> DEFINE op == Replace("intent", c)
           r == RollForward(c)
<1> HIDE DEF op, r
<1>4. <<op>> \o r # <<>> /\ <<op>> \o r \in Seq(Operations(Files))
      /\ Head(<<op>> \o r) = op /\ Tail(<<op>> \o r) = r
  BY <1>1, <1>3, Prefixed DEF op, r
<1>. QED
  BY <1>2, <1>4 DEF Commit, op, r

-----------------------------------------------------------------------------
\* An operation that may be made now: the view it adds is sound.
Admissible(op) ==
  LET w == Changed(Latest, op)
  IN  /\ Sound(disk, w) /\ Candidate(w) \in expected
      /\ K # <<>> => w["intent"] # Absent
      /\ w["intent"] = Absent =>
           \A m \in 0..Len(J) : View(m)["intent"] \in {Absent, disk["config"]}

LEMMA ChangedFile ==
  ASSUME NEW v, NEW op, NEW f \in Files
  PROVE  Changed(v, op)[f] = IF op.file = f THEN op.content ELSE v[f]
BY DEF Changed

LEMMA NewIntent ==
  ASSUME NEW c \in expected, c # Absent, NEW op, op.file = "intent", op.content = c
  PROVE  Admissible(op)
<1>1. Changed(Latest, op)["intent"] = c
  BY ChangedFile DEF Files
<1>. QED
  BY <1>1 DEF Admissible, Sound, Candidate

LEMMA UnderIntent ==
  ASSUME Storage, NEW op, op.file # "intent", Latest["intent"] # Absent
  PROVE  Admissible(op)
<1>1. Changed(Latest, op)["intent"] = Latest["intent"]
  BY ChangedFile DEF Files
<1>2. Candidate(Latest) \in expected
  BY LatestFacts
<1>. QED
  BY <1>1, <1>2 DEF Admissible, Sound, Candidate

LEMMA BelowTransitive ==
  ASSUME NEW x, NEW v, NEW w, Below(x, v), Below(v, w) PROVE Below(x, w)
<1>1. w["config"] = x["config"] /\ (x["identity"] # Absent => w["identity"] = x["identity"])
  BY DEF Below
<1>2. w["token"] \in {x["token"], Absent} /\ w["marker"] \in {x["marker"], Absent}
  BY DEF Below
<1>3. Later(Enrollment(w["state"]).phase, Enrollment(x["state"]).phase)
  <2> DEFINE p == Enrollment(x["state"]).phase
             q == Enrollment(v["state"]).phase
             r == Enrollment(w["state"]).phase
  <2>1. Later(q, p) /\ Later(r, q)
    BY DEF Below
  <2> HIDE DEF p, q, r
  <2>2. Later(r, p)
    BY <2>1 DEF Later
  <2>. QED  BY <2>2 DEF p, r
<1>. QED
  BY <1>1, <1>2, <1>3 DEF Below

LEMMA Progresses ==
  ASSUME Storage, Latest["intent"] = Absent, NEW op,
         WholeView(Changed(Latest, op)), Below(Latest, Changed(Latest, op))
  PROVE  Admissible(op)
<1> DEFINE w == Changed(Latest, op)
<1>1. Sound(disk, Latest) /\ Candidate(Latest) \in expected /\ Latest["config"] = disk["config"]
      /\ K = <<>>
  BY LatestFacts
<1>2. w["intent"] = Absent /\ w["config"] = Latest["config"] /\ WholeView(w) /\ Below(Latest, w)
  BY DEF WholeView, Below
<1> HIDE DEF w
<1>3. Sound(disk, w)
  <2>1. disk["intent"] = Absent => Below(disk, w)
    BY <1>1, <1>2, BelowTransitive DEF Sound
  <2>. QED  BY <1>1, <1>2, <2>1 DEF Sound
<1>4. Candidate(w) \in expected
  BY <1>1, <1>2 DEF Candidate
<1>5. \A m \in 0..Len(J) : View(m)["intent"] \in {Absent, disk["config"]}
  <2>1. Len(J) \in 0..Len(J)
    BY LatestFacts
  <2>. QED  BY <2>1 DEF Storage, IntentsAgree, Latest
<1>. QED
  BY <1>1, <1>2, <1>3, <1>4, <1>5 DEF Admissible, w

\* The end of a roll forward: the files are those of c.
LEMMA IntentMayGo ==
  ASSUME Storage, NEW c, Rolling(c, 6), ~applied
  PROVE  Admissible(Delete("intent"))
<1> DEFINE op == Delete("intent")
           w == Changed(Latest, op)
<1>1. c \in Configurations /\ J = <<>> /\ K = <<>>
      /\ disk["intent"] = c /\ disk["token"] = c /\ disk["config"] = c
      /\ disk["identity"] = Absent /\ disk["state"] = NoAssignment
      /\ disk["marker"] = TicketMarker(c)
  BY DEF Rolling
<1>2. Latest = disk /\ Candidate(Latest) \in expected /\ Len(J) \in 0..Len(J) /\ Len(J) = 0
  BY <1>1, LatestFacts
<1>3. op.file = "intent" /\ op.content = Absent
  BY DEF Delete, Nothing
<1> HIDE DEF op
<1>4. /\ w["intent"] = Absent /\ w["token"] = c /\ w["config"] = c /\ w["identity"] = Absent
      /\ w["state"] = NoAssignment /\ w["marker"] = TicketMarker(c)
  BY <1>1, <1>2, <1>3, ChangedFile DEF Files
<1> HIDE DEF w
<1>5. c # Absent /\ c \in expected
  BY <1>1, <1>2, Named DEF Candidate
<1>6. WholeView(w)
  BY <1>4, <1>5, Named DEF WholeView, Enrollment
<1>7. Sound(disk, w)
  BY <1>1, <1>4, <1>5, <1>6 DEF Sound
<1>8. \A m \in 0..Len(J) : View(m)["intent"] \in {Absent, disk["config"]}
  <2>1. View(0) = disk
    BY ViewFacts DEF Storage, FilesTyped
  <2>2. \A m \in 0..Len(J) : m = 0
    BY <1>2, OnlyZero
  <2>. QED  BY <1>1, <2>1, <2>2
<1>. QED
  BY <1>1, <1>4, <1>5, <1>7, <1>8 DEF Admissible, Candidate, w, op

-----------------------------------------------------------------------------
\* What Apply does: nothing, or one operation more in the journal of its
\* directory.
Skipped(op) ==
  /\ op.content = Nothing(op.file) /\ Visible(op.file) = Nothing(op.file)
  /\ todo' = Tail(todo) /\ UNCHANGED <<journal, applied>>
Made(op) ==
  /\ applied' /\ todo' = todo /\ DOMAIN journal' = Directories
  /\ \/ op.file \in StateFiles /\ J' = Append(J, op) /\ K' = K
     \/ op.file = "config" /\ K' = Append(K, op) /\ J' = J
Calm == UNCHANGED <<disk, proc, stage, argument, loaded, expected>>

LEMMA ApplyCases ==
  ASSUME FilesInv, Apply, NEW op, op = Head(todo)
  PROVE  /\ todo # <<>> /\ ~applied /\ op \in Operations(Files)
         /\ op.file \in StateFiles => op \in Operations(StateFiles)
         /\ op.file = "config" => op \in Operations({"config"})
         /\ Calm /\ (Skipped(op) \/ Made(op))
<1>1. todo # <<>> /\ ~applied /\ todo \in Seq(Operations(Files)) /\ Calm
  BY DEF Apply, FilesInv, ProcessTyped, historyVars, Calm
<1>2. op \in Operations(Files)
  BY <1>1
<1>3. /\ op.file \in StateFiles => op \in Operations(StateFiles)
      /\ op.file = "config" => op \in Operations({"config"})
  BY <1>2 DEF Operations
<1>4. op.file \in Files /\ (op.file \in StateFiles \/ op.file = "config")
  BY <1>2, StateFilesAre DEF Operations
<1>5. ASSUME Deletes(op), Visible(op.file) = Nothing(op.file) PROVE Skipped(op)
  BY <1>5 DEF Apply, Deletes, Skipped
<1>6. ASSUME ~(Deletes(op) /\ Visible(op.file) = Nothing(op.file)) PROVE Made(op)
  <2>1. /\ journal' = [journal EXCEPT ![Directory(op.file)] = Append(@, op)]
        /\ applied' = TRUE /\ todo' = todo
    BY <1>6 DEF Apply
  <2>2. DOMAIN journal = Directories
    BY DEF FilesInv, Storage, FilesTyped, JournalsTyped
  <2>3. DOMAIN journal' = Directories
    BY <2>1, <2>2
  <2>4. \/ op.file \in StateFiles /\ J' = Append(J, op) /\ K' = K
        \/ op.file = "config" /\ K' = Append(K, op) /\ J' = J
    BY <1>4, <2>1, <2>2, StateFilesAre DEF J, K
  <2>. QED  BY <2>1, <2>3, <2>4 DEF Made
<1>. QED
  BY <1>1, <1>2, <1>3, <1>5, <1>6

\* An admissible operation is made: it is what is visible afterwards.
LEMMA StateMade ==
  ASSUME FilesInv, Calm, NEW op \in Operations(StateFiles), op = Head(todo), todo # <<>>,
         Made(op), Admissible(op)
  PROVE  /\ Storage' /\ Latest' = Changed(Latest, op) /\ J' = Append(J, op) /\ K' = K
         /\ MadeIsVisible'
<1>1. op.file \in StateFiles /\ op.file # "config"
  BY StateFilesAre DEF Operations
<1>2. J' = Append(J, op) /\ K' = K /\ DOMAIN journal' = Directories /\ todo' = todo
  BY <1>1 DEF Made
<1>3. Storage
  BY DEF FilesInv
<1>4. Storage'
  BY <1>2, <1>3, AppendKeeps DEF Admissible, Calm
<1>5. Latest' = Changed(Latest, op)
  BY <1>2, <1>3, ViewsAppended DEF Storage, FilesTyped, Calm
<1>6. (\A f \in StateFiles : Visible(f) = Latest[f])'
  BY <1>4, LatestFacts, PTL
<1>7. Latest'[op.file] = op.content
  <2>1. op.file \in Files
    BY <1>1, StateFilesAre
  <2>2. Changed(Latest, op)[op.file] = op.content
    BY <2>1 DEF Changed
  <2>. QED  BY <1>5, <2>2
<1>8. MadeIsVisible'
  BY <1>1, <1>2, <1>6, <1>7 DEF MadeIsVisible
<1>. QED
  BY <1>2, <1>4, <1>5, <1>8

LEMMA ConfigMade ==
  ASSUME FilesInv, Calm, NEW op \in Operations({"config"}), op = Head(todo), todo # <<>>,
         Made(op), J = <<>>, disk["intent"] # Absent
  PROVE  /\ Storage' /\ Latest' = Latest /\ J' = J /\ K' = Append(K, op)
         /\ MadeIsVisible'
<1>1. op.file \notin StateFiles /\ op.file = "config"
  BY StateFilesAre DEF Operations
<1>2. K' = Append(K, op) /\ J' = J /\ DOMAIN journal' = Directories /\ todo' = todo
  BY <1>1 DEF Made
<1>3. Storage
  BY DEF FilesInv
<1>4. \A n \in 0..Len(J) : View(n)["intent"] # Absent
  <2>1. View(0) = disk
    BY <1>3, ViewFacts DEF Storage, FilesTyped
  <2>2. \A m \in 0..Len(J) : m = 0
    <3>1. Len(J) = 0 /\ Len(J) \in Nat
      BY <1>3, LatestFacts
    <3>. QED  BY <3>1, OnlyZero
  <2>. QED  BY <2>1, <2>2
<1>5. Storage'
  BY <1>2, <1>3, <1>4, ConfigAppendKeeps DEF Calm
<1>6. Latest' = Latest
  BY <1>2 DEF Latest, View, Calm
<1>7. After(disk, K', "config") = op.content
  <2>1. K \in Seq(Operations({"config"}))
    BY <1>3 DEF Storage, FilesTyped, JournalsTyped
  <2>. QED  BY <1>1, <1>2, <2>1, AfterAppend
<1>8. Visible(op.file)' = op.content
  BY <1>1, <1>7, StateFilesAre DEF Visible, K, Calm
<1>9. MadeIsVisible'
  BY <1>2, <1>8 DEF MadeIsVisible
<1>. QED
  BY <1>2, <1>5, <1>6, <1>9

-----------------------------------------------------------------------------
\* Rolling forward, one operation or one sync.
LEMMA RollsOn ==
  ASSUME NEW c \in Configurations, NEW k \in 2..6, todo' = Rest(c, k), ~applied', J' = <<>>,
         disk'["intent"] = c, disk'["token"] = c, \A f \in StateFiles : Latest'[f] = disk'[f],
         k >= 3 => disk'["config"] = c /\ K' = <<>>,
         k >= 4 => disk'["identity"] = Absent,
         k >= 5 => disk'["state"] = NoAssignment,
         k = 6 => disk'["marker"] = TicketMarker(c)
  PROVE  Rolling(c, k)'
<1>1. Latest'["intent"] = c
  BY StateFilesAre
<1>2. k \in 1..6 /\ k >= 2
  OBVIOUS
<1>3. \A f \in StateFiles : f # Step(c, k).file => Latest'[f] = disk'[f]
  OBVIOUS
<1>. QED
  BY <1>1, <1>2, <1>3 DEF Rolling

LEMMA SkipRolls ==
  ASSUME FilesInv, NEW c, NEW i, Rolling(c, i), ~applied, Calm, Skipped(Step(c, i))
  PROVE  Storage' /\ MadeIsVisible' /\ \E k \in 1..6 : Rolling(c, k)'
<1> DEFINE op == Step(c, i)
<1>1. c \in Configurations /\ i \in 1..6 /\ todo = Rest(c, i) /\ Latest["intent"] = c
      /\ (i >= 2 => J = <<>>) /\ c # Absent
  BY Named DEF Rolling
<1>2. /\ UNCHANGED <<disk, journal, applied, expected>> /\ todo' = Tail(todo)
      /\ op.content = Nothing(op.file) /\ Visible(op.file) = Nothing(op.file)
  BY DEF Calm, Skipped
<1>3. /\ Storage /\ (\A f \in StateFiles : Visible(f) = Latest[f])
      /\ (J = <<>> => Latest = disk)
  BY LatestFacts DEF FilesInv
<1>4. Storage'
  BY <1>2, <1>3, ExpectedGrows
<1>5. J' = J /\ K' = K /\ Latest' = Latest
  BY <1>2 DEF J, K, Latest, View
<1>6. MadeIsVisible'
  BY <1>2 DEF MadeIsVisible
<1>7. i \notin {1, 2, 4, 6}
  <2>1. i = 1 => op.file = "token" /\ op.content = c
    BY <1>1, RollSteps DEF Replace
  <2>2. i = 2 => op.file = "config" /\ op.content = c
    BY <1>1, RollSteps DEF Replace
  <2>3. i = 4 => op.file = "state" /\ op.content = NoAssignment
    BY <1>1, RollSteps DEF Replace
  <2>4. i = 6 => op.file = "intent" /\ Visible("intent") = c
    <3>1. Visible("intent") = c
      BY <1>1, <1>3, StateFilesAre
    <3>2. i = 6 => op.file = "intent"
      BY <1>1, RollSteps DEF Delete
    <3>. QED  BY <3>1, <3>2
  <2> HIDE DEF op
  <2>5. i = 4 => op.content = Missing
    BY <1>2, <2>3 DEF Nothing
  <2>. QED  BY <1>1, <1>2, <2>1, <2>2, <2>3, <2>4, <2>5, Named DEF Nothing
<1>8. i = 3 \/ i = 5
  BY <1>1, <1>7
<1>9. /\ Tail(todo) = Rest(c, i + 1) /\ i + 1 \in 1..6
  <2>1. i <= 5 /\ i + 1 \in 1..6
    BY <1>8
  <2>. QED  BY <1>1, <2>1, RestSteps
<1>10. i = 3 => disk["identity"] = Absent
  <2>1. i = 3 => op.file = "identity"
    BY <1>1, RollSteps DEF Delete
  <2>2. i = 3 => Visible("identity") = Absent
    BY <1>2, <2>1 DEF Nothing
  <2>. QED  BY <1>1, <1>3, <2>2 DEF StateFiles, Files
<1>11. i = 5 => disk["marker"] = TicketMarker(c)
  <2>1. i = 5 => op.file = "marker" /\ op.content = TicketMarker(c)
    BY <1>1, RollSteps DEF Replace
  <2>2. i = 5 => Visible("marker") = TicketMarker(c)
    BY <1>2, <2>1
  <2>. QED  BY <1>1, <1>3, <2>2 DEF StateFiles, Files
<1>12. Rolling(c, i + 1)'
  <2>1. Latest' = disk' /\ J' = <<>> /\ disk' = disk
    BY <1>1, <1>2, <1>3, <1>5, <1>8
  <2>2. i + 1 \in 2..6
    BY <1>8
  <2>3. /\ disk["intent"] = c /\ disk["token"] = c /\ disk["config"] = c /\ K = <<>>
        /\ i + 1 >= 4 => disk["identity"] = Absent
        /\ i + 1 >= 5 => disk["state"] = NoAssignment
        /\ i + 1 = 6 => disk["marker"] = TicketMarker(c)
    BY <1>8, <1>10, <1>11 DEF Rolling
  <2>. QED  BY <1>1, <1>2, <1>5, <1>9, <2>1, <2>2, <2>3, RollsOn
<1>. QED
  BY <1>4, <1>6, <1>9, <1>12

LEMMA ApplyRolls ==
  ASSUME FilesInv, Apply, NEW c, NEW i, Rolling(c, i)
  PROVE  Storage' /\ MadeIsVisible' /\ \E k \in 1..6 : Rolling(c, k)'
<1> DEFINE op == Step(c, i)
<1>1. c \in Configurations /\ i \in 1..6 /\ todo = Rest(c, i) /\ c # Absent
  BY Named DEF Rolling
<1>2. op = Head(todo)
  BY <1>1, RestSteps
<1>3. /\ todo # <<>> /\ ~applied /\ op \in Operations(Files)
      /\ op.file \in StateFiles => op \in Operations(StateFiles)
      /\ op.file = "config" => op \in Operations({"config"})
      /\ Calm /\ (Skipped(op) \/ Made(op))
  BY <1>2, ApplyCases
<1>4. CASE Skipped(op)
  BY <1>3, <1>4, SkipRolls
<1>5. CASE Made(op) /\ i = 2
  <2>1. op.file = "config"
    BY <1>1, <1>5, RollSteps DEF Replace
  <2>2. J = <<>> /\ disk["intent"] = c
    BY <1>5 DEF Rolling
  <2>3. /\ Storage' /\ Latest' = Latest /\ J' = J /\ K' = Append(K, op)
        /\ MadeIsVisible'
    BY <1>1, <1>2, <1>3, <1>5, <2>1, <2>2, ConfigMade
  <2>4. Rolling(c, 2)'
    <3>1. applied' /\ todo' = todo /\ disk' = disk
      BY <1>3, <1>5 DEF Calm, Made
    <3>2. /\ todo = Rest(c, 2) /\ Latest["intent"] = c /\ disk["token"] = c
          /\ \A f \in StateFiles : f # Step(c, 2).file => Latest[f] = disk[f]
      BY <1>5 DEF Rolling
    <3>. QED  BY <1>1, <2>2, <2>3, <3>1, <3>2 DEF Rolling
  <2>. QED  BY <2>3, <2>4
<1>6. CASE Made(op) /\ i # 2
  <2>1. op.file \in StateFiles /\ (i # 6 => op.file # "intent")
    BY <1>1, <1>6, RollSteps DEF Replace, Delete, StateFiles, Files
  <2>2. Admissible(op)
    <3>1. CASE i = 6
      BY <1>1, <1>3, <3>1, IntentMayGo, RollSteps DEF FilesInv
    <3>2. CASE i # 6
      <4>1. Latest["intent"] # Absent
        BY <1>1, <1>3 DEF Rolling
      <4>. QED  BY <2>1, <3>2, <4>1, UnderIntent DEF FilesInv
    <3>. QED  BY <3>1, <3>2
  <2>3. /\ Storage' /\ Latest' = Changed(Latest, op) /\ J' = Append(J, op) /\ K' = K
        /\ MadeIsVisible'
    BY <1>2, <1>3, <1>6, <2>1, <2>2, StateMade
  <2>4. \A f \in StateFiles : f # op.file => Latest'[f] = Latest[f]
    <3> HIDE DEF op
    <3>1. ASSUME NEW f \in StateFiles, f # op.file PROVE Latest'[f] = Latest[f]
      <4>1. f \in Files
        BY StateFilesAre
      <4>2. Changed(Latest, op)[f] = Latest[f]
        BY <3>1, <4>1, ChangedFile
      <4>. QED  BY <2>3, <4>2
    <3>. QED  BY <3>1
  <2>5. i <= 5 => Latest'["intent"] = c
    <3>1. i <= 5 => op.file # "intent" /\ Latest["intent"] = c
      BY <1>1, <2>1 DEF Rolling
    <3>. QED  BY <2>4, <3>1, StateFilesAre
  <2>6. applied' /\ todo' = todo /\ disk' = disk
    BY <1>3, <1>6 DEF Made, Calm
  <2>7. i >= 2 => \A f \in StateFiles : f # op.file => Latest'[f] = disk[f]
    BY <2>4 DEF Rolling
  <2>8. Rolling(c, i)'
    <3> HIDE DEF op
    <3>1. i >= 2 => \A f \in StateFiles : f # Step(c, i).file => Latest'[f] = disk[f]
      BY <2>7 DEF op
    <3>. QED  BY <1>1, <1>6, <2>3, <2>5, <2>6, <3>1 DEF Rolling
  <2>. QED  BY <1>1, <2>3, <2>8
<1>. QED
  BY <1>3, <1>4, <1>5, <1>6

\* What Sync makes durable.
LEMMA SyncFacts ==
  ASSUME FilesInv, Sync, NEW op, op = Head(todo)
  PROVE  /\ todo # <<>> /\ applied /\ op \in Operations(Files)
         /\ todo' = Tail(todo) /\ ~applied' /\ DOMAIN journal' = Directories
         /\ UNCHANGED <<proc, stage, argument, expected>>
         /\ loaded' = IF op.file = "state" THEN op.content ELSE loaded
         /\ op.file \in StateFiles =>
              /\ Storage' /\ disk' = Latest /\ Latest' = Latest /\ J' = <<>> /\ K' = K
              /\ disk'[op.file] = op.content
         /\ op.file = "config" =>
              /\ disk' = Synced("config directory") /\ K' = <<>> /\ J' = J
              /\ Visible("config") = op.content
<1>1. /\ applied /\ todo' = Tail(todo) /\ ~applied' /\ UNCHANGED <<proc, stage, argument, expected>>
      /\ disk' = Synced(Directory(op.file))
      /\ journal' = [journal EXCEPT ![Directory(op.file)] = <<>>]
      /\ loaded' = IF op.file = "state" THEN op.content ELSE loaded
  BY DEF Sync, historyVars
<1>2. todo # <<>> /\ Visible(op.file) = op.content
  BY <1>1 DEF FilesInv, MadeIsVisible
<1>3. op \in Operations(Files)
  BY <1>2 DEF FilesInv, ProcessTyped
<1>4. DOMAIN journal = Directories /\ DOMAIN journal' = Directories /\ Storage
  BY <1>1 DEF FilesInv, Storage, FilesTyped, JournalsTyped
<1>5. ASSUME op.file \in StateFiles
      PROVE  /\ Storage' /\ disk' = Latest /\ Latest' = Latest /\ J' = <<>> /\ K' = K
             /\ disk'[op.file] = op.content
  <2>1. disk' = Synced("state directory") /\ J' = <<>> /\ K' = K
    BY <1>1, <1>4, <1>5, StateFilesAre DEF J, K
  <2>2. Storage' /\ disk' = Latest /\ Latest' = Latest
    BY <1>1, <1>4, <2>1, SyncStateKeeps
  <2>3. Visible(op.file) = Latest[op.file]
    BY <1>4, <1>5, LatestFacts
  <2>. QED  BY <1>2, <2>1, <2>2, <2>3
<1>6. ASSUME op.file = "config"
      PROVE  /\ disk' = Synced("config directory") /\ K' = <<>> /\ J' = J
             /\ Visible("config") = op.content
  BY <1>1, <1>2, <1>4, <1>6, StateFilesAre DEF J, K
<1>. QED
  BY <1>1, <1>2, <1>3, <1>4, <1>5, <1>6

LEMMA SyncRolls ==
  ASSUME FilesInv, Sync, NEW c, NEW i, Rolling(c, i)
  PROVE  /\ Storage'
         /\ i <= 5 => Rolling(c, i + 1)'
         /\ i = 6 => /\ todo' = <<>> /\ J' = <<>> /\ K' = <<>> /\ Latest'["intent"] = Absent
                     /\ disk'["intent"] = Absent /\ disk'["config"] = c
<1> DEFINE op == Step(c, i)
<1>1. c \in Configurations /\ i \in 1..6 /\ todo = Rest(c, i) /\ c # Absent
  BY Named DEF Rolling
<1>2. op = Head(todo) /\ (i <= 5 => Tail(todo) = Rest(c, i + 1)) /\ (i = 6 => Tail(todo) = <<>>)
  BY <1>1, RestSteps
<1>3. /\ todo # <<>> /\ applied /\ op \in Operations(Files)
      /\ todo' = Tail(todo) /\ ~applied' /\ DOMAIN journal' = Directories
      /\ UNCHANGED <<proc, stage, argument, expected>>
      /\ op.file \in StateFiles =>
           /\ Storage' /\ disk' = Latest /\ Latest' = Latest /\ J' = <<>> /\ K' = K
           /\ disk'[op.file] = op.content
      /\ op.file = "config" =>
           /\ disk' = Synced("config directory") /\ K' = <<>> /\ J' = J
           /\ Visible("config") = op.content
  BY <1>2, SyncFacts
<1>6. (i <= 5 => todo' = Rest(c, i + 1)) /\ (i = 6 => todo' = <<>>) /\ ~applied'
  <2>1. todo' = Tail(todo) /\ ~applied'
    BY <1>3
  <2>. QED  BY <1>2, <2>1
<1>4. CASE i = 2
  <2>1. op.file = "config" /\ op.content = c
    BY <1>1, <1>4, RollSteps DEF Replace
  <2>2. J = <<>> /\ disk["intent"] = c /\ disk["token"] = c /\ Latest["intent"] = c
    BY <1>4 DEF Rolling
  <2>3. \A n \in 0..Len(J) : View(n)["intent"] # Absent
    <3>1. View(0) = disk
      BY ViewFacts DEF FilesInv, Storage, FilesTyped
    <3>2. \A m \in 0..Len(J) : m = 0
      <4>1. Len(J) = 0 /\ Len(J) \in Nat
        BY <2>2, LatestFacts DEF FilesInv
      <4>. QED  BY <4>1, OnlyZero
    <3>. QED  BY <1>1, <2>2, <3>1, <3>2
  <2>4. /\ Storage'
        /\ \A f \in StateFiles : disk'[f] = disk[f] /\ Latest'[f] = Latest[f]
        /\ disk'["config"] = Visible("config")
    BY <1>3, <2>1, <2>3, SyncConfigKeeps DEF FilesInv
  <2>5. \A f \in StateFiles : Latest'[f] = disk'[f]
    <3>1. Latest = disk
      BY <2>2, LatestFacts DEF FilesInv
    <3>. QED  BY <2>4, <3>1
  <2>6. "intent" \in StateFiles /\ "token" \in StateFiles
    BY DEF StateFiles, Files
  <2>7. disk'["intent"] = c /\ disk'["token"] = c /\ disk'["config"] = c /\ Latest'["intent"] = c
        /\ J' = <<>> /\ K' = <<>>
    BY <1>3, <2>1, <2>2, <2>4, <2>6
  <2>8. Rolling(c, 3)'
    <3>1. todo' = Rest(c, 3) /\ ~applied'
      <4>1. i <= 5 /\ i + 1 = 3
        BY <1>4
      <4>. QED  BY <1>6, <4>1
    <3>. QED  BY <1>1, <2>5, <2>7, <3>1, RollsOn
  <2>. QED  BY <1>4, <2>4, <2>8
<1>5. CASE i # 2
  <2>1. op.file \in StateFiles
    BY <1>1, <1>5, RollSteps DEF Replace, Delete, StateFiles, Files
  <2>2. /\ Storage' /\ disk' = Latest /\ Latest' = Latest /\ J' = <<>> /\ K' = K
        /\ disk'[op.file] = op.content
    BY <1>3, <2>1
  <2>3. i >= 2 => \A f \in StateFiles : f # op.file => disk'[f] = disk[f]
    BY <2>2 DEF Rolling
  <2>4. disk'["config"] = disk["config"]
    BY <2>2, LatestFacts DEF FilesInv
  <2>5. CASE i = 1
    <3>1. op.file = "token" /\ op.content = c
      BY <1>1, <2>5, RollSteps DEF Replace
    <3>2. disk'["intent"] = c /\ disk'["token"] = c /\ Latest'["intent"] = c
      BY <2>2, <2>5, <3>1 DEF Rolling
    <3>3. \A f \in StateFiles : Latest'[f] = disk'[f]
      BY <2>2
    <3>4. Rolling(c, 2)'
      <4>1. todo' = Rest(c, 2) /\ ~applied'
        <5>1. i <= 5 /\ i + 1 = 2
          BY <2>5
        <5>. QED  BY <1>6, <5>1
      <4>. QED  BY <1>1, <2>2, <3>2, <3>3, <4>1, RollsOn
    <3>. QED  BY <2>2, <2>5, <3>4
  <2>6. CASE i \in 3..5
    <3>1. /\ i = 3 => op.file = "identity" /\ op.content = Absent
          /\ i = 4 => op.file = "state" /\ op.content = NoAssignment
          /\ i = 5 => op.file = "marker" /\ op.content = TicketMarker(c)
      BY <1>1, RollSteps DEF Replace, Delete, Nothing
    <3>2. /\ disk["intent"] = c /\ disk["token"] = c /\ disk["config"] = c /\ K = <<>>
          /\ i >= 4 => disk["identity"] = Absent
          /\ i >= 5 => disk["state"] = NoAssignment
          /\ Latest["intent"] = c
      BY <2>6 DEF Rolling
    <3>3. /\ "intent" \in StateFiles /\ "token" \in StateFiles /\ "identity" \in StateFiles
          /\ "state" \in StateFiles
      BY DEF StateFiles, Files
    <3> HIDE DEF op
    <3>4. /\ disk'["intent"] = c /\ disk'["token"] = c /\ disk'["config"] = c
          /\ disk'["identity"] = Absent
          /\ i >= 4 => disk'["state"] = NoAssignment
          /\ i = 5 => disk'["marker"] = TicketMarker(c)
      BY <2>2, <2>3, <2>4, <2>6, <3>1, <3>2, <3>3
    <3>5. \A f \in StateFiles : Latest'[f] = disk'[f]
      BY <2>2
    <3>6. Rolling(c, i + 1)'
      <4>1. todo' = Rest(c, i + 1) /\ ~applied' /\ J' = <<>> /\ K' = <<>>
        <5>1. i <= 5
          BY <2>6
        <5>. QED  BY <1>6, <2>2, <3>2, <5>1
      <4>2. i + 1 \in 2..6 /\ (i + 1 >= 5 => i >= 4) /\ (i + 1 = 6 => i = 5)
        BY <2>6
      <4>. QED  BY <1>1, <3>4, <3>5, <4>1, <4>2, RollsOn
    <3>. QED  BY <2>2, <2>6, <3>6
  <2>7. CASE i = 6
    <3>1. op.file = "intent" /\ op.content = Absent
      BY <1>1, <2>7, RollSteps DEF Delete, Nothing
    <3>2. disk["config"] = c /\ K = <<>>
      BY <2>7 DEF Rolling
    <3>3. todo' = <<>> /\ J' = <<>> /\ K' = <<>>
      BY <1>6, <2>2, <2>7, <3>2
    <3>4. disk'["intent"] = Absent /\ disk'["config"] = c /\ Latest'["intent"] = Absent
      BY <2>2, <2>4, <3>1, <3>2
    <3>5. Storage'
      BY <2>2
    <3>. QED  BY <2>7, <3>3, <3>4, <3>5
  <2>. QED  BY <1>1, <1>5, <2>5, <2>6, <2>7
<1>. QED
  BY <1>4, <1>5

-----------------------------------------------------------------------------
\* A commit begins with its intent.
LEMMA ApplyCommits ==
  ASSUME FilesInv, Apply, stage = "commit", todo = Commit(argument), K = <<>>
  PROVE  Storage' /\ MadeIsVisible' /\ todo' = todo /\ K' = <<>>
<1> DEFINE op == Replace("intent", argument)
<1>1. argument \in expected /\ argument \in Configurations
  BY DEF FilesInv, Process
<1>2. argument # Absent /\ op = Head(todo) /\ op.file = "intent" /\ op.content = argument
  BY <1>1, Named, Starts DEF Replace
<1> HIDE DEF op
<1>3. /\ todo # <<>> /\ ~applied /\ op \in Operations(Files)
      /\ op.file \in StateFiles => op \in Operations(StateFiles)
      /\ Calm /\ (Skipped(op) \/ Made(op))
  BY <1>2, ApplyCases
<1>4. Made(op) /\ op \in Operations(StateFiles)
  BY <1>2, <1>3, StateFilesAre DEF Skipped, Nothing
<1>5. Admissible(op)
  BY <1>1, <1>2, NewIntent
<1>6. /\ Storage' /\ Latest' = Changed(Latest, op) /\ J' = Append(J, op) /\ K' = K
      /\ MadeIsVisible'
  BY <1>2, <1>3, <1>4, <1>5, StateMade
<1>. QED
  BY <1>4, <1>6 DEF Made

LEMMA SyncCommits ==
  ASSUME FilesInv, Sync, stage = "commit", todo = Commit(argument)
  PROVE  Storage' /\ Rolling(argument, 1)'
<1> DEFINE op == Replace("intent", argument)
<1>1. argument \in Configurations
  BY DEF FilesInv, Process
<1>2. /\ op = Head(todo) /\ op.file = "intent" /\ op.content = argument
      /\ Tail(todo) = Rest(argument, 1)
  BY <1>1, Starts DEF Replace
<1> HIDE DEF op
<1>3. /\ todo' = Tail(todo) /\ ~applied' /\ UNCHANGED <<proc, stage, argument, expected>>
      /\ op.file \in StateFiles =>
           /\ Storage' /\ disk' = Latest /\ Latest' = Latest /\ J' = <<>> /\ K' = K
           /\ disk'[op.file] = op.content
  BY <1>2, SyncFacts
<1>4. Storage' /\ Latest'["intent"] = argument
  BY <1>2, <1>3, StateFilesAre
<1>5. todo' = Rest(argument, 1) /\ argument' = argument /\ ~applied'
  BY <1>2, <1>3
<1>6. Rolling(argument, 1)'
  BY <1>1, <1>4, <1>5 DEF Rolling
<1>. QED
  BY <1>4, <1>6

\* The operations of a Node that is up.
Serves(op) ==
  LET c == disk["config"]
  IN  \/ loaded.phase = "enrolled" /\ op \in {Delete("token"), Delete("marker")}
      \/ op = Replace("identity", c)
      \/ /\ loaded.phase = "none" /\ Latest["identity"] = c
         /\ op = Replace("state", Assignment("staged", c))
      \/ /\ loaded.phase = "staged" /\ Latest["identity"] = c
         /\ op = Replace("state", Assignment("enrolled", c))

LEMMA CleanupSteps ==
  /\ Cleanup # <<>> /\ Cleanup \in Seq(Operations(Files))
  /\ Head(Cleanup) = Delete("token")
  /\ Tail(Cleanup) = <<Delete("marker")>> /\ Tail(Cleanup) # <<>>
  /\ Head(Tail(Cleanup)) = Delete("marker") /\ Tail(Tail(Cleanup)) = <<>>
<1>1. Delete("token") \in Operations(Files) /\ Delete("marker") \in Operations(Files)
  BY DEF Delete, Operations, Files, Contents, Values, Nothing
<1>. QED
  BY <1>1 DEF Cleanup

LEMMA CompletionSteps ==
  /\ loaded.phase = "enrolled" => Completion = Cleanup
  /\ loaded.phase = "staged" /\ loaded.by \in Configurations =>
       /\ Completion # <<>> /\ Completion \in Seq(Operations(Files))
       /\ Head(Completion) = Replace("state", Assignment("enrolled", loaded.by))
       /\ Tail(Completion) = Cleanup
<1>1. ASSUME loaded.phase = "enrolled" PROVE Completion = Cleanup
  BY <1>1, CleanupSteps, ConcatEmptySeq DEF Completion
<1>2. ASSUME loaded.phase = "staged", loaded.by \in Configurations
      PROVE  /\ Completion # <<>> /\ Completion \in Seq(Operations(Files))
             /\ Head(Completion) = Replace("state", Assignment("enrolled", loaded.by))
             /\ Tail(Completion) = Cleanup
  <2> DEFINE op == Replace("state", Assignment("enrolled", loaded.by))
  <2>1. op \in Operations(Files)
    BY <1>2, Named DEF Replace, Operations, Files, Contents, Values
  <2>2. Completion = <<op>> \o Cleanup
    BY <1>2 DEF Completion
  <2> HIDE DEF op
  <2>. QED  BY <2>1, <2>2, CleanupSteps, Prefixed DEF op
<1>. QED
  BY <1>1, <1>2

UpStages == {"load", "identity", "run"}

LEMMA UpFacts ==
  ASSUME FilesInv, stage \in UpStages
  PROVE  /\ Loaded /\ Loading /\ Identifying /\ Enrolling /\ proc = "up"
         /\ disk["config"] \in Configurations /\ disk["config"] # Absent
         /\ Latest["config"] = disk["config"] /\ WholeView(Latest) /\ Storage
         /\ Latest["state"] # Missing /\ Enrollment(Latest["state"]) = Latest["state"]
<1>1. Loaded /\ Loading /\ Identifying /\ Enrolling /\ proc = "up" /\ Storage
  BY DEF FilesInv, Process, UpStages
<1>2. disk["config"] # Absent /\ Latest["intent"] = Absent
  BY <1>1 DEF Loaded
<1>3. disk["config"] \in Configurations
  <2>1. disk["config"] \in Contents("config")
    BY <1>1, StateFilesAre DEF Storage, FilesTyped
  <2>. QED  BY <1>2, <2>1 DEF Contents
<1>4. Latest["config"] = disk["config"] /\ WholeView(Latest)
  BY <1>1, <1>2, LatestFacts DEF Sound
<1>5. Latest["state"] # Missing
  BY <1>2, <1>4 DEF WholeView
<1>. QED
  BY <1>1, <1>2, <1>3, <1>4, <1>5 DEF Enrollment

LEMMA ServesWhat ==
  ASSUME FilesInv, stage \in UpStages, todo # <<>> PROVE Serves(Head(todo))
<1>1. Loaded /\ Loading /\ Identifying /\ Enrolling /\ disk["config"] \in Configurations
  BY UpFacts
<1>2. ASSUME Cleaning PROVE Serves(Head(todo))
  BY <1>2, CleanupSteps DEF Cleaning, Serves
<1>3. ASSUME stage = "identity" PROVE Serves(Head(todo))
  <2>1. todo = <<Replace("identity", disk["config"])>>
    BY <1>1, <1>3 DEF Identifying
  <2>. QED  BY <2>1 DEF Serves
<1>4. ASSUME stage = "run" PROVE Serves(Head(todo))
  <2>1. Latest["identity"] = disk["config"]
    BY <1>1, <1>4 DEF Enrolling
  <2>2. CASE todo = <<Replace("state", Assignment("staged", disk["config"]))>> /\ loaded.phase = "none"
    BY <2>1, <2>2 DEF Serves
  <2>3. CASE todo = Completion /\ loaded.phase = "staged"
    <3>1. loaded.by = disk["config"]
      BY <1>1, <2>3 DEF Loaded
    <3>2. Head(todo) = Replace("state", Assignment("enrolled", disk["config"]))
      BY <1>1, <2>3, <3>1, CompletionSteps
    <3>. QED  BY <2>1, <2>3, <3>2 DEF Serves
  <2>. QED  BY <1>1, <1>2, <1>4, <2>2, <2>3 DEF Enrolling
<1>. QED
  BY <1>1, <1>2, <1>3, <1>4 DEF UpStages, Loading

LEMMA ServesKeeps ==
  ASSUME FilesInv, stage \in UpStages, NEW op, Serves(op), NEW w, w = Changed(Latest, op)
  PROVE  /\ op \in Operations(StateFiles) /\ WholeView(w) /\ Below(Latest, w)
         /\ w["intent"] = Absent
         /\ loaded.phase # "enrolled" => w["token"] = disk["config"]
         /\ Later(w["state"].phase, loaded.phase)
         /\ w["state"].phase = "enrolled" => loaded.phase # "none"
         /\ Latest["identity"] = disk["config"] => w["identity"] = disk["config"]
<1> DEFINE c == disk["config"]
           v == Latest
<1>1. /\ Loaded /\ c \in Configurations /\ c # Absent /\ v["config"] = c /\ WholeView(v)
      /\ v["state"] # Missing /\ Enrollment(v["state"]) = v["state"]
  BY UpFacts
<1>2. \A f \in Files : w[f] = IF op.file = f THEN op.content ELSE v[f]
  BY ChangedFile
<1>3. /\ v["intent"] = Absent
      /\ v["identity"] \in {Absent, c} /\ v["token"] \in {Absent, c}
      /\ v["marker"] \in {Absent, TicketMarker(c)}
      /\ v["state"].phase \in {"none", "staged", "enrolled"}
      /\ v["state"].phase = "none" => v["state"].by = Absent
      /\ v["state"].phase # "none" => v["state"].by = c /\ v["identity"] = c
      /\ v["state"].phase # "enrolled" => v["token"] = c /\ v["marker"] = TicketMarker(c)
  BY <1>1 DEF WholeView
<1>4. /\ loaded.phase \in {"none", "staged", "enrolled"}
      /\ Later(v["state"].phase, loaded.phase)
      /\ v["state"].phase = "enrolled" => loaded.phase # "none"
      /\ loaded.phase # "enrolled" => v["token"] = c
  BY <1>1 DEF Loaded
<1>5. /\ \A phase \in {"none", "staged", "enrolled"} :
           /\ Assignment(phase, c) # Missing
           /\ Assignment(phase, c).phase = phase /\ Assignment(phase, c).by = c
           /\ Assignment(phase, c) \in States
  BY <1>1, Named
<1> HIDE DEF c, v
<1>6. CASE loaded.phase = "enrolled" /\ op = Delete("token")
  <2>1. op.file = "token" /\ op.content = Absent /\ op \in Operations(StateFiles)
    BY <1>6 DEF Delete, Nothing, Operations, StateFiles, Files, Contents, Values
  <2>2. /\ w["token"] = Absent /\ w["intent"] = v["intent"] /\ w["config"] = v["config"]
        /\ w["identity"] = v["identity"] /\ w["state"] = v["state"] /\ w["marker"] = v["marker"]
    BY <1>2, <2>1 DEF Files
  <2>3. v["state"].phase = "enrolled"
    BY <1>4, <1>6 DEF Later
  <2>4. WholeView(w)
    BY <1>1, <1>3, <2>2, <2>3 DEF WholeView
  <2>5. Below(v, w)
    BY <2>2 DEF Below, Later
  <2>. QED  BY <1>3, <1>4, <1>6, <2>1, <2>2, <2>4, <2>5 DEF c, v
<1>7. CASE loaded.phase = "enrolled" /\ op = Delete("marker")
  <2>1. op.file = "marker" /\ op.content = Absent /\ op \in Operations(StateFiles)
    BY <1>7 DEF Delete, Nothing, Operations, StateFiles, Files, Contents, Values
  <2>2. /\ w["marker"] = Absent /\ w["intent"] = v["intent"] /\ w["config"] = v["config"]
        /\ w["identity"] = v["identity"] /\ w["state"] = v["state"] /\ w["token"] = v["token"]
    BY <1>2, <2>1 DEF Files
  <2>3. v["state"].phase = "enrolled"
    BY <1>4, <1>7 DEF Later
  <2>4. WholeView(w)
    BY <1>1, <1>3, <2>2, <2>3 DEF WholeView
  <2>5. Below(v, w)
    BY <2>2 DEF Below, Later
  <2>. QED  BY <1>3, <1>4, <1>7, <2>1, <2>2, <2>4, <2>5 DEF c, v
<1>8. CASE op = Replace("identity", c)
  <2>1. op.file = "identity" /\ op.content = c /\ op \in Operations(StateFiles)
    BY <1>1, <1>8 DEF Replace, Operations, StateFiles, Files, Contents, Values
  <2>2. /\ w["identity"] = c /\ w["intent"] = v["intent"] /\ w["config"] = v["config"]
        /\ w["marker"] = v["marker"] /\ w["state"] = v["state"] /\ w["token"] = v["token"]
    BY <1>2, <2>1 DEF Files
  <2>3. WholeView(w)
    BY <1>1, <1>3, <2>2 DEF WholeView
  <2>4. Below(v, w)
    BY <1>3, <2>2 DEF Below, Later
  <2>. QED  BY <1>3, <1>4, <2>1, <2>2, <2>3, <2>4 DEF c, v
<1>9. ASSUME NEW phase \in {"staged", "enrolled"}, v["identity"] = c,
             op = Replace("state", Assignment(phase, c)),
             loaded.phase = IF phase = "staged" THEN "none" ELSE "staged"
      PROVE  /\ op \in Operations(StateFiles) /\ WholeView(w) /\ Below(v, w)
             /\ w["intent"] = Absent
             /\ loaded.phase # "enrolled" => w["token"] = c
             /\ Later(w["state"].phase, loaded.phase)
             /\ w["state"].phase = "enrolled" => loaded.phase # "none"
             /\ v["identity"] = c => w["identity"] = c
  <2>1. /\ op.file = "state" /\ op.content = Assignment(phase, c) /\ op \in Operations(StateFiles)
    BY <1>5, <1>9 DEF Replace, Operations, StateFiles, Files, Contents, Values
  <2>2. /\ w["state"] = Assignment(phase, c) /\ w["intent"] = v["intent"]
        /\ w["config"] = v["config"] /\ w["identity"] = v["identity"]
        /\ w["marker"] = v["marker"] /\ w["token"] = v["token"]
    BY <1>2, <2>1 DEF Files
  <2>3. /\ w["state"].phase = phase /\ w["state"].by = c /\ w["state"] # Missing
    BY <1>5, <2>2
  <2>4. phase = "staged" => v["state"].phase \in {"none", "staged"}
    BY <1>3, <1>4, <1>9
  <2>5. Enrollment(w["state"]) = w["state"]
    BY <2>3 DEF Enrollment
  <2>6. WholeView(w)
    BY <1>1, <1>3, <1>9, <2>2, <2>3, <2>4, <2>5 DEF WholeView
  <2>7. Later(phase, v["state"].phase)
    BY <1>3, <1>9, <2>4 DEF Later
  <2>8. Below(v, w)
    BY <1>1, <2>2, <2>3, <2>5, <2>7 DEF Below
  <2>. QED  BY <1>3, <1>4, <1>9, <2>1, <2>2, <2>3, <2>6, <2>8 DEF Later
<1>. QED
  BY <1>6, <1>7, <1>8, <1>9 DEF Serves, c, v

LEMMA ApplyServes ==
  ASSUME FilesInv, Apply, stage \in UpStages
  PROVE  Storage' /\ MadeIsVisible' /\ (Loaded /\ Loading /\ Identifying /\ Enrolling)'
<1> DEFINE op == Head(todo)
<1>1. /\ todo # <<>> /\ ~applied
      /\ Calm /\ (Skipped(op) \/ Made(op))
  BY ApplyCases
<1>2. /\ Loaded /\ Loading /\ Identifying /\ Enrolling /\ disk["config"] \in Configurations
      /\ disk["config"] # Absent /\ Latest["intent"] = Absent /\ Storage
  BY UpFacts DEF Loaded
<1>3. Serves(op)
  BY <1>1, ServesWhat
<1>4. PICK w : w = Changed(Latest, op)
  OBVIOUS
<1>5. /\ op \in Operations(StateFiles) /\ WholeView(w) /\ Below(Latest, w)
      /\ w["intent"] = Absent
      /\ loaded.phase # "enrolled" => w["token"] = disk["config"]
      /\ Later(w["state"].phase, loaded.phase)
      /\ w["state"].phase = "enrolled" => loaded.phase # "none"
      /\ Latest["identity"] = disk["config"] => w["identity"] = disk["config"]
  BY <1>3, <1>4, ServesKeeps
<1>6. UNCHANGED <<disk, loaded, stage>>
  BY <1>1 DEF Calm
<1>7. ASSUME Skipped(op)
      PROVE  Storage' /\ MadeIsVisible' /\ (Loaded /\ Loading /\ Identifying /\ Enrolling)'
  <2>1. UNCHANGED <<journal, expected, applied>> /\ todo' = Tail(todo)
        /\ op.content = Nothing(op.file)
    BY <1>1, <1>7 DEF Skipped, Calm
  <2>2. Storage' /\ MadeIsVisible'
    BY <1>1, <1>2, <1>6, <2>1, ExpectedGrows DEF MadeIsVisible
  <2>3. Latest' = Latest /\ Loaded'
    BY <1>2, <1>6, <2>1 DEF Latest, View, J, Loaded
  <2>4. loaded.phase = "enrolled" /\ op \in {Delete("token"), Delete("marker")}
    <3>1. op # Replace("identity", disk["config"])
      BY <1>2, <2>1 DEF Replace, Nothing
    <3>2. \A phase \in {"staged", "enrolled"} :
            op # Replace("state", Assignment(phase, disk["config"]))
      BY <1>2, <2>1, Named DEF Replace, Nothing
    <3>. QED  BY <1>3, <3>1, <3>2 DEF Serves
  <2>5. stage # "identity"
    <3>1. ASSUME stage = "identity" PROVE FALSE
      <4>1. op = Replace("identity", disk["config"])
        BY <1>1, <1>2, <3>1 DEF Identifying
      <4>. QED  BY <2>4, <4>1 DEF Replace, Delete
    <3>. QED  BY <3>1
  <2>6. Cleaning
    <3>1. stage = "load" => Cleaning
      BY <1>1, <1>2 DEF Loading
    <3>2. stage = "run" => Cleaning
      <4>1. Completion = Cleanup
        BY <2>4, CompletionSteps
      <4>. QED  BY <1>1, <1>2, <2>4 DEF Enrolling, Cleaning
    <3>. QED  BY <2>5, <3>1, <3>2 DEF UpStages
  <2>7. todo' = <<>> \/ Cleaning'
    BY <1>6, <2>1, <2>6, CleanupSteps DEF Cleaning
  <2>8. (Loading /\ Identifying /\ Enrolling)'
    BY <1>2, <1>6, <2>3, <2>5, <2>7 DEF Loading, Identifying, Enrolling
  <2>. QED  BY <2>2, <2>3, <2>8
<1>8. ASSUME Made(op)
      PROVE  Storage' /\ MadeIsVisible' /\ (Loaded /\ Loading /\ Identifying /\ Enrolling)'
  <2>1. Admissible(op)
    BY <1>2, <1>4, <1>5, Progresses
  <2>2. /\ Storage' /\ Latest' = Changed(Latest, op) /\ MadeIsVisible' /\ todo' = todo
    BY <1>1, <1>5, <1>8, <2>1, StateMade DEF Made
  <2>3. Latest' = w
    BY <1>4, <2>2
  <2>4. Loaded'
    BY <1>2, <1>5, <1>6, <2>3 DEF Loaded
  <2>5. Completion' = Completion
    BY <1>6 DEF Completion
  <2>6. Loading'
    BY <1>2, <1>6, <2>2 DEF Loading, Cleaning
  <2>7. Identifying'
    <3>1. ASSUME stage = "identity" PROVE todo = <<Replace("identity", disk["config"])>>
      BY <1>1, <1>2, <3>1 DEF Identifying
    <3>. QED  BY <1>6, <2>2, <3>1 DEF Identifying
  <2>8. Enrolling'
    BY <1>2, <1>5, <1>6, <2>2, <2>3, <2>5 DEF Enrolling, Cleaning
  <2>. QED  BY <2>2, <2>4, <2>6, <2>7, <2>8
<1>. QED
  BY <1>1, <1>7, <1>8

LEMMA SyncServes ==
  ASSUME FilesInv, Sync, stage \in UpStages
  PROVE  Storage' /\ (Loaded /\ Loading /\ Identifying /\ Enrolling)'
<1> DEFINE op == Head(todo)
           c == disk["config"]
<1>1. /\ todo # <<>> /\ todo' = Tail(todo)
      /\ UNCHANGED <<proc, stage, argument, expected>>
      /\ loaded' = IF op.file = "state" THEN op.content ELSE loaded
      /\ op.file \in StateFiles =>
           /\ Storage' /\ disk' = Latest /\ Latest' = Latest /\ J' = <<>> /\ K' = K
           /\ disk'[op.file] = op.content
  BY SyncFacts
<1>2. /\ Loaded /\ Loading /\ Identifying /\ Enrolling /\ c \in Configurations
      /\ c # Absent /\ Latest["intent"] = Absent /\ Latest["config"] = c
  BY UpFacts DEF Loaded
<1>3. Serves(op)
  BY <1>1, ServesWhat
<1>4. op.file \in StateFiles
  BY <1>3 DEF Serves, Replace, Delete, StateFiles, Files
<1>5. Storage' /\ disk' = Latest /\ Latest' = Latest /\ disk'[op.file] = op.content /\ disk'["config"] = c
  BY <1>1, <1>2, <1>4
<1>6. \A phase \in {"staged", "enrolled"} :
        /\ Replace("state", Assignment(phase, c)).file = "state"
        /\ Replace("state", Assignment(phase, c)).content.phase = phase
        /\ Replace("state", Assignment(phase, c)).content.by = c
  BY <1>2, Named DEF Replace
<1>7. /\ Delete("token").file = "token" /\ Delete("marker").file = "marker"
      /\ Replace("identity", c).file = "identity" /\ Replace("identity", c).content = c
  BY DEF Replace, Delete
<1> HIDE DEF c
<1>8. ASSUME NEW phase \in {"staged", "enrolled"}, op = Replace("state", Assignment(phase, c)),
             loaded.phase = IF phase = "staged" THEN "none" ELSE "staged"
      PROVE  Loaded' /\ loaded'.phase = phase
  <2>1. /\ loaded' = op.content /\ loaded'.phase = phase /\ loaded'.by = c
        /\ Latest'["state"] = loaded'
    BY <1>1, <1>5, <1>6, <1>8
  <2>2. Latest'["token"] = c
    BY <1>2, <1>5, <1>8 DEF Loaded, c
  <2>. QED  BY <1>2, <1>5, <2>1, <2>2 DEF Loaded, Later, c
<1>9. op.file # "state" => loaded' = loaded /\ Loaded'
  BY <1>1, <1>2, <1>5 DEF Loaded, c
<1>10. ASSUME Cleaning PROVE Loaded' /\ loaded' = loaded /\ (todo' = <<>> \/ Cleaning')
  <2>1. op.file # "state"
    BY <1>7, <1>10, CleanupSteps DEF Cleaning
  <2>. QED  BY <1>1, <1>9, <1>10, <2>1, CleanupSteps DEF Cleaning
<1>11. ASSUME stage = "load"
       PROVE  (Loaded /\ Loading /\ Identifying /\ Enrolling)'
  BY <1>1, <1>2, <1>10, <1>11 DEF Loading, Identifying, Enrolling
<1>12. ASSUME stage = "identity"
       PROVE  (Loaded /\ Loading /\ Identifying /\ Enrolling)'
  <2>1. todo = <<Replace("identity", c)>>
    BY <1>1, <1>2, <1>12 DEF Identifying, c
  <2>2. op = Replace("identity", c) /\ todo' = <<>>
    BY <1>1, <2>1
  <2>3. Latest'["identity"] = c /\ Loaded'
    BY <1>5, <1>7, <1>9, <2>2
  <2>. QED  BY <1>1, <1>5, <1>12, <2>2, <2>3 DEF Loading, Identifying, Enrolling
<1>13. ASSUME stage = "run"
       PROVE  (Loaded /\ Loading /\ Identifying /\ Enrolling)'
  <2>1. Latest'["identity"] = disk'["config"]
    BY <1>2, <1>5, <1>13 DEF Enrolling, c
  <2>2. Loaded' /\ (todo' = <<>> \/ Cleaning')
    <3>1. CASE Cleaning
      BY <1>10, <3>1
    <3>2. CASE todo = <<Replace("state", Assignment("staged", c))>> /\ loaded.phase = "none"
      <4>1. op = Replace("state", Assignment("staged", c)) /\ todo' = <<>>
        BY <1>1, <3>2
      <4>. QED  BY <1>8, <3>2, <4>1
    <3>3. CASE todo = Completion /\ loaded.phase = "staged"
      <4>1. loaded.by = c /\ loaded.by \in Configurations
        BY <1>2, <3>3 DEF Loaded, c
      <4>2. op = Replace("state", Assignment("enrolled", c)) /\ todo' = Cleanup
        BY <1>1, <3>3, <4>1, CompletionSteps
      <4>3. Loaded' /\ loaded'.phase = "enrolled"
        BY <1>8, <3>3, <4>2
      <4>. QED  BY <4>2, <4>3 DEF Cleaning
    <3>. QED  BY <1>1, <1>2, <1>13, <3>1, <3>2, <3>3 DEF Enrolling, c
  <2>. QED  BY <1>1, <1>13, <2>1, <2>2 DEF Loading, Identifying, Enrolling
<1>. QED
  BY <1>5, <1>11, <1>12, <1>13 DEF UpStages

-----------------------------------------------------------------------------
\* Every step keeps the invariant.
LEMMA FilesInitially == FilesInit => FilesInv
<1> SUFFICES ASSUME FilesInit PROVE FilesInv
  OBVIOUS
<1>1. /\ disk = [f \in Files |-> Nothing(f)] /\ J = <<>> /\ K = <<>>
      /\ DOMAIN journal = Directories
  BY StateFilesAre DEF FilesInit, J, K
<1>2. /\ disk["intent"] = Absent /\ disk["token"] = Absent /\ disk["config"] = Absent
      /\ disk["identity"] = Absent /\ disk["state"] = Missing /\ disk["marker"] = Absent
  BY <1>1 DEF Files, Nothing
<1>3. FilesTyped
  <2>1. J \in Seq(Operations(StateFiles)) /\ K \in Seq(Operations({"config"}))
    BY <1>1, EmptySeq
  <2>2. JournalsTyped
    BY <1>1, <2>1 DEF JournalsTyped
  <2>. QED  BY <1>1, <2>2, Named DEF FilesTyped
<1>4. View(0) = disk /\ \A n \in 0..Len(J) : n = 0 /\ \A m \in 0..n : m = 0
  <2>1. Len(J) = 0 /\ Len(J) \in Nat
    BY <1>1
  <2>. QED  BY <1>3, <2>1, OnlyZero, ViewFacts DEF FilesTyped
<1>5. Sound(disk, disk) /\ Candidate(disk) \in expected
  <2>1. WholeView(disk)
    BY <1>2, Named DEF WholeView, Enrollment, TicketMarker
  <2>2. Below(disk, disk)
    BY DEF Below, Later
  <2>. QED  BY <1>2, <2>1, <2>2 DEF Sound, Candidate, FilesInit
<1>6. Storage
  BY <1>1, <1>3, <1>4, <1>5 DEF Storage, EachSound, ConfigAfterIntent, IntentsAgree
<1>7. ProcessTyped
  <2>1. \A d \in Directories : Len(journal[d]) <= interruptions + Current(d)
    BY DEF FilesInit, Current
  <2>2. interruptions \in 0..MaxInterruptions
    BY ParametersAssumption DEF FilesInit
  <2>3. todo \in Seq(Operations(Files))
    BY EmptySeq DEF FilesInit
  <2>. QED  BY <2>1, <2>2, <2>3, Named DEF ProcessTyped, FilesInit
<1>8. Process /\ MadeIsVisible
  BY DEF Process, MadeIsVisible, FilesInit
<1>. QED
  BY <1>6, <1>7, <1>8 DEF FilesInv

\* Steps that leave the files alone.
LEMMA FilesAlone ==
  ASSUME UNCHANGED <<disk, journal>>
  PROVE  J' = J /\ K' = K /\ Latest' = Latest
BY DEF J, K, Latest, View

LEMMA Resting ==
  ASSUME FilesInv, todo = <<>>
  PROVE  /\ ~applied
         /\ stage = "recover" /\ proc # "off" => Latest["intent"] = Absent /\ K = <<>>
         /\ stage = "commit" => /\ J = <<>> /\ K = <<>> /\ Latest["intent"] = Absent
                                /\ disk["config"] = argument
<1>1. ~applied
  BY DEF FilesInv, MadeIsVisible
<1>2. ~ \E c \in Configurations, i \in 1..6 : Rolling(c, i)
  BY RestSteps DEF Rolling
<1>3. Storage
  BY DEF FilesInv
<1>4. stage = "recover" /\ proc # "off" => Latest["intent"] = Absent /\ K = <<>>
  BY <1>2, <1>3, LatestFacts DEF FilesInv, Process, Recovering
<1>5. ASSUME stage = "commit"
      PROVE  J = <<>> /\ K = <<>> /\ Latest["intent"] = Absent /\ disk["config"] = argument
  <2>1. argument \in Configurations /\ Committing
    BY <1>5 DEF FilesInv, Process
  <2>2. Commit(argument) # <<>>
    BY <2>1, Starts
  <2>. QED  BY <1>2, <1>3, <2>1, <2>2, LatestFacts DEF Committing
<1>. QED
  BY <1>1, <1>4, <1>5

LEMMA BoundKept ==
  ASSUME FilesInv, journal' = journal, ~applied',
         \/ ~applied /\ interruptions' = interruptions
         \/ interruptions' = interruptions + 1
  PROVE  (\A d \in Directories : Len(journal[d]) <= interruptions + Current(d))'
<1>1. \A d \in Directories : Len(journal[d]) \in Nat
  <2>1. J \in Seq(Operations(StateFiles)) /\ K \in Seq(Operations({"config"}))
    BY DEF FilesInv, Storage, FilesTyped, JournalsTyped
  <2>2. Len(J) \in Nat /\ Len(K) \in Nat
    BY <2>1
  <2>. QED  BY <2>2, StateFilesAre DEF J, K
<1>2. interruptions \in Nat
  BY ParametersAssumption DEF FilesInv, ProcessTyped
<1>3. \A d : Current(d)' = 0 /\ Current(d) \in {0, 1} /\ (~applied => Current(d) = 0)
  BY DEF Current
<1>4. \A d \in Directories : Len(journal[d]) <= interruptions + Current(d)
  BY DEF FilesInv, ProcessTyped
<1>5. ASSUME NEW d \in Directories PROVE Len(journal[d]) <= interruptions' + 0
  BY <1>1, <1>2, <1>3, <1>4
<1>. QED
  BY <1>3, <1>5

\* A process that ends.
LEMMA EndsKeeps ==
  ASSUME FilesInv, Ends, Storage', UNCHANGED litter \/ litter' \in BOOLEAN,
         journal' = journal \/ journal' = [d \in Directories |-> <<>>],
         \/ ~applied /\ interruptions' = interruptions
         \/ interruptions < MaxInterruptions /\ interruptions' = interruptions + 1,
         expected' \subseteq Configurations \cup {Absent},
         torn' \in Tickets \cup {Absent}, refused' \in Tickets \cup {Absent}
  PROVE  FilesInv'
<1>1. (\A d \in Directories : Len(journal[d]) <= interruptions + Current(d))'
  <2>1. CASE journal' = journal
    BY <2>1, BoundKept DEF Ends
  <2>2. CASE journal' = [d \in Directories |-> <<>>]
    <3>1. interruptions' \in Nat
      BY ParametersAssumption DEF FilesInv, ProcessTyped
    <3>2. \A d : Current(d)' = 0
      BY DEF Current, Ends
    <3>3. \A d \in Directories : Len(journal'[d]) = 0
      BY <2>2
    <3>. QED  BY <3>1, <3>2, <3>3
  <2>. QED  BY <2>1, <2>2
<1>2. interruptions' \in 0..MaxInterruptions
  BY ParametersAssumption DEF FilesInv, ProcessTyped
<1>3. ProcessTyped'
  <2>1. proc' = "off" /\ stage' = "recover" /\ argument' = Absent /\ todo' = <<>>
        /\ applied' = FALSE /\ loaded' = NoAssignment
    BY DEF Ends
  <2>2. litter' \in BOOLEAN
    BY DEF FilesInv, ProcessTyped
  <2>3. todo' \in Seq(Operations(Files))
    BY <2>1, EmptySeq
  <2>. QED  BY <1>1, <1>2, <2>1, <2>2, <2>3, Named DEF ProcessTyped
<1>4. Process' /\ MadeIsVisible'
  BY DEF Ends, Process, MadeIsVisible
<1>. QED
  BY <1>3, <1>4 DEF FilesInv

LEMMA ApplyStep == ASSUME FilesInv, Apply PROVE FilesInv'
<1> DEFINE op == Head(todo)
<1>1. /\ todo # <<>> /\ ~applied /\ op \in Operations(Files)
      /\ Calm /\ (Skipped(op) \/ Made(op))
  BY ApplyCases
<1>2. UNCHANGED <<disk, proc, stage, argument, loaded, expected, litter, interruptions, torn, refused>>
  BY <1>1 DEF Apply, Calm, historyVars
<1>3. Storage' /\ MadeIsVisible' /\ Process'
  <2>1. proc # "off"
    BY <1>1 DEF FilesInv, Process
  <2>2. CASE stage = "recover"
    <3>1. PICK c \in Configurations, i \in 1..6 : Rolling(c, i)
      BY <1>1, <2>1, <2>2 DEF FilesInv, Process, Recovering
    <3>2. Storage' /\ MadeIsVisible' /\ \E k \in 1..6 : Rolling(c, k)'
      BY <3>1, ApplyRolls
    <3>3. Recovering'
      BY <3>2 DEF Recovering
    <3>4. /\ proc' # "off" /\ stage' = "recover"
          /\ proc' = "config" => argument' \in expected'
          /\ proc' \in {"config", "import"} => argument' \in Configurations
          /\ proc' = "import" => argument' \in Tickets
      BY <1>2, <2>1, <2>2 DEF FilesInv, Process
    <3>5. Process'
      BY <3>3, <3>4 DEF Process
    <3>. QED  BY <3>2, <3>5
  <2>3. CASE stage = "commit"
    <3>1. argument \in Configurations /\ Committing
      BY <2>3 DEF FilesInv, Process
    <3>2. ASSUME todo = Commit(argument) /\ K = <<>>
          PROVE  Storage' /\ MadeIsVisible' /\ Process'
      <4>1. Storage' /\ MadeIsVisible' /\ todo' = todo /\ K' = <<>>
        BY <2>3, <3>2, ApplyCommits
      <4>2. Committing'
        BY <1>2, <3>2, <4>1 DEF Committing
      <4>. QED  BY <1>2, <2>3, <4>1, <4>2 DEF FilesInv, Process
    <3>3. ASSUME NEW i \in 1..6, Rolling(argument, i)
          PROVE  Storage' /\ MadeIsVisible' /\ Process'
      <4>1. PICK c : c = argument
        OBVIOUS
      <4>2. Storage' /\ MadeIsVisible' /\ \E k \in 1..6 : Rolling(c, k)'
        BY <3>3, <4>1, ApplyRolls
      <4>3. c = argument'
        BY <1>2, <4>1
      <4>4. Committing'
        BY <4>2, <4>3 DEF Committing
      <4>. QED  BY <1>2, <2>3, <4>2, <4>4 DEF FilesInv, Process
    <3>4. (todo = Commit(argument) /\ K = <<>>) \/ \E i \in 1..6 : Rolling(argument, i)
      BY <1>1, <3>1 DEF Committing
    <3> HIDE DEF op
    <3>5. ASSUME \E i \in 1..6 : Rolling(argument, i)
          PROVE  Storage' /\ MadeIsVisible' /\ Process'
      <4>1. PICK i \in 1..6 : Rolling(argument, i)
        BY <3>5
      <4>. QED  BY <3>3, <4>1
    <3>. QED  BY <3>2, <3>4, <3>5
  <2>4. CASE stage \in UpStages
    <3>1. Storage' /\ MadeIsVisible' /\ (Loaded /\ Loading /\ Identifying /\ Enrolling)'
      BY <2>4, ApplyServes
    <3>. QED  BY <1>2, <2>1, <2>4, <3>1 DEF FilesInv, Process, UpStages
  <2>. QED  BY <2>2, <2>3, <2>4 DEF FilesInv, ProcessTyped, UpStages
<1>4. ProcessTyped'
  <2>1. \A d \in Directories : Current(d) = 0 /\ Len(journal[d]) \in Nat
    <3>1. J \in Seq(Operations(StateFiles)) /\ K \in Seq(Operations({"config"}))
      BY DEF FilesInv, Storage, FilesTyped, JournalsTyped
    <3>2. Len(J) \in Nat /\ Len(K) \in Nat
      BY <3>1
    <3>. QED  BY <1>1, <3>2, StateFilesAre DEF Current, J, K
  <2>2. interruptions \in Nat
    BY ParametersAssumption DEF FilesInv, ProcessTyped
  <2>3. \A d \in Directories : Len(journal[d]) <= interruptions
    <3>1. \A d \in Directories : Len(journal[d]) <= interruptions + Current(d)
      BY DEF FilesInv, ProcessTyped
    <3>2. \A d \in Directories : Len(journal[d]) <= interruptions + 0
      BY <2>1, <3>1
    <3>. QED  BY <2>1, <2>2, <3>2
  <2>4. (\A d \in Directories : Len(journal[d]) <= interruptions + Current(d))'
    <3>1. CASE Skipped(op)
      <4>1. journal' = journal /\ ~applied'
        BY <1>1, <3>1 DEF Skipped
      <4>. QED  BY <1>1, <1>2, <4>1, BoundKept
    <3>2. CASE Made(op)
      <4>1. /\ applied' /\ todo' = todo
            /\ \/ op.file \in StateFiles /\ J' = Append(J, op) /\ K' = K
               \/ op.file = "config" /\ K' = Append(K, op) /\ J' = J
        BY <3>2 DEF Made
      <4>2. \A d : Current(d)' = IF Directory(op.file) = d THEN 1 ELSE 0
        BY <4>1 DEF Current
      <4> HIDE DEF op
      <4>3. /\ J \in Seq(Operations(StateFiles)) /\ K \in Seq(Operations({"config"}))
            /\ op.file \in StateFiles => op \in Operations(StateFiles)
            /\ op.file = "config" => op \in Operations({"config"})
        BY <1>1 DEF FilesInv, Storage, FilesTyped, JournalsTyped, Operations
      <4>4. Len(J) <= interruptions /\ Len(K) <= interruptions /\ Len(J) \in Nat /\ Len(K) \in Nat
        BY <2>1, <2>3, StateFilesAre DEF J, K
      <4>5. /\ Len(J') <= interruptions + Current("state directory")'
            /\ Len(K') <= interruptions + Current("config directory")'
        <5>1. CASE op.file \in StateFiles /\ J' = Append(J, op) /\ K' = K
          <6>1. Current("state directory")' = 1 /\ Current("config directory")' = 0
            BY <4>2, <5>1, StateFilesAre
          <6>2. Len(J') = Len(J) + 1
            BY <4>3, <5>1
          <6>3. Len(J') <= interruptions + 1 /\ Len(K') <= interruptions + 0
            <7>1. Len(J) + 1 <= interruptions + 1 /\ Len(K) <= interruptions + 0
              BY <2>2, <4>4
            <7>. QED  BY <5>1, <6>2, <7>1
          <6>. QED  BY <6>1, <6>3
        <5>2. CASE op.file = "config" /\ K' = Append(K, op) /\ J' = J
          <6>1. Current("state directory")' = 0 /\ Current("config directory")' = 1
            BY <4>2, <5>2, StateFilesAre
          <6>2. Len(K') = Len(K) + 1
            BY <4>3, <5>2
          <6>3. Len(J') <= interruptions + 0 /\ Len(K') <= interruptions + 1
            <7>1. Len(K) + 1 <= interruptions + 1 /\ Len(J) <= interruptions + 0
              BY <2>2, <4>4
            <7>. QED  BY <5>2, <6>2, <7>1
          <6>. QED  BY <6>1, <6>3
        <5>. QED  BY <4>1, <5>1, <5>2
      <4>. QED  BY <1>2, <4>5, StateFilesAre DEF J, K
    <3>. QED  BY <1>1, <3>1, <3>2
  <2>5. todo' \in Seq(Operations(Files)) /\ applied' \in BOOLEAN
    <3>1. todo \in Seq(Operations(Files)) /\ todo # <<>> /\ applied \in BOOLEAN
      BY <1>1 DEF FilesInv, ProcessTyped
    <3>2. Tail(todo) \in Seq(Operations(Files))
      BY <3>1
    <3>3. todo' \in {todo, Tail(todo)}
      BY <1>1 DEF Skipped, Made
    <3>4. applied' \in BOOLEAN
      BY <3>1 DEF Apply
    <3>. QED  BY <3>1, <3>2, <3>3, <3>4
  <2>. QED  BY <1>2, <2>4, <2>5 DEF FilesInv, ProcessTyped
<1>. QED
  BY <1>3, <1>4 DEF FilesInv

LEMMA SyncStep == ASSUME FilesInv, Sync PROVE FilesInv'
<1> DEFINE op == Head(todo)
<1>1. /\ todo # <<>> /\ applied /\ op \in Operations(Files)
      /\ todo' = Tail(todo) /\ ~applied' /\ DOMAIN journal' = Directories
      /\ UNCHANGED <<proc, stage, argument, expected>>
      /\ loaded' = IF op.file = "state" THEN op.content ELSE loaded
  BY SyncFacts
<1>2. UNCHANGED <<proc, stage, argument, litter, interruptions, expected, torn, refused>>
      /\ applied' = FALSE
      /\ journal' = [journal EXCEPT ![Directory(op.file)] = <<>>]
  BY DEF Sync, historyVars
<1>3. MadeIsVisible'
  BY <1>1 DEF MadeIsVisible
<1>4. Storage' /\ Process'
  <2>1. proc # "off"
    BY <1>1 DEF FilesInv, Process
  <2>2. CASE stage = "recover"
    <3>1. PICK c \in Configurations, i \in 1..6 : Rolling(c, i)
      BY <1>1, <2>1, <2>2 DEF FilesInv, Process, Recovering
    <3>2. /\ Storage'
          /\ i <= 5 => Rolling(c, i + 1)'
          /\ i = 6 => todo' = <<>> /\ Latest'["intent"] = Absent
      BY <3>1, SyncRolls
    <3>3. Recovering'
      <4>1. CASE i <= 5
        <5>1. i + 1 \in 1..6
          BY <4>1
        <5>. QED  BY <3>2, <4>1, <5>1 DEF Recovering
      <4>2. CASE i = 6
        BY <3>2, <4>2 DEF Recovering
      <4>. QED  BY <4>1, <4>2
    <3>4. /\ proc' # "off" /\ stage' = "recover"
          /\ proc' = "config" => argument' \in expected'
          /\ proc' \in {"config", "import"} => argument' \in Configurations
          /\ proc' = "import" => argument' \in Tickets
      BY <1>2, <2>1, <2>2 DEF FilesInv, Process
    <3>5. Process'
      BY <3>3, <3>4 DEF Process
    <3>. QED  BY <3>2, <3>5
  <2>3. CASE stage = "commit"
    <3>1. argument \in Configurations /\ Committing
      BY <2>3 DEF FilesInv, Process
    <3>2. ASSUME todo = Commit(argument)
          PROVE  Storage' /\ Process'
      <4>1. Storage' /\ Rolling(argument, 1)'
        BY <2>3, <3>2, SyncCommits
      <4>2. Committing'
        BY <4>1 DEF Committing
      <4>. QED  BY <1>2, <2>3, <4>1, <4>2 DEF FilesInv, Process
    <3>3. ASSUME NEW i \in 1..6, Rolling(argument, i)
          PROVE  Storage' /\ Process'
      <4>1. PICK c : c = argument
        OBVIOUS
      <4>2. /\ Storage'
            /\ i <= 5 => Rolling(c, i + 1)'
            /\ i = 6 => /\ todo' = <<>> /\ J' = <<>> /\ K' = <<>> /\ Latest'["intent"] = Absent
                        /\ disk'["intent"] = Absent /\ disk'["config"] = c
        BY <3>3, <4>1, SyncRolls
      <4>3. c = argument'
        BY <1>2, <4>1
      <4>4. Committing'
        <5>1. CASE i <= 5
          <6>1. i + 1 \in 1..6
            BY <5>1
          <6>. QED  BY <4>2, <4>3, <5>1, <6>1 DEF Committing
        <5>2. CASE i = 6
          BY <4>2, <4>3, <5>2 DEF Committing
        <5>. QED  BY <5>1, <5>2
      <4>. QED  BY <1>2, <2>3, <4>2, <4>4 DEF FilesInv, Process
    <3>4. (todo = Commit(argument)) \/ \E i \in 1..6 : Rolling(argument, i)
      BY <1>1, <3>1 DEF Committing
    <3> HIDE DEF op
    <3>5. ASSUME \E i \in 1..6 : Rolling(argument, i)
          PROVE  Storage' /\ Process'
      <4>1. PICK i \in 1..6 : Rolling(argument, i)
        BY <3>5
      <4>. QED  BY <3>3, <4>1
    <3>. QED  BY <3>2, <3>4, <3>5
  <2>4. CASE stage \in UpStages
    <3>1. Storage' /\ (Loaded /\ Loading /\ Identifying /\ Enrolling)'
      BY <2>4, SyncServes
    <3>. QED  BY <1>2, <2>1, <2>4, <3>1 DEF FilesInv, Process, UpStages
  <2>. QED  BY <2>2, <2>3, <2>4 DEF FilesInv, ProcessTyped, UpStages
<1>5. ProcessTyped'
  <2>1. interruptions \in Nat
    BY ParametersAssumption DEF FilesInv, ProcessTyped
  <2>2. (\A d \in Directories : Len(journal[d]) <= interruptions + Current(d))'
    <3>1. \A d : Current(d)' = 0 /\ (Directory(op.file) # d => Current(d) = 0)
      BY <1>1 DEF Current
    <3>2. ASSUME NEW d \in Directories PROVE Len(journal'[d]) <= interruptions + 0
      <4>1. DOMAIN journal = Directories
        BY DEF FilesInv, Storage, FilesTyped, JournalsTyped
      <4>2. CASE Directory(op.file) = d
        <5>1. journal'[d] = <<>>
          BY <1>2, <4>1, <4>2
        <5>. QED  BY <2>1, <5>1
      <4>3. CASE Directory(op.file) # d
        <5>1. journal'[d] = journal[d]
          BY <1>2, <4>1, <4>3
        <5>2. Len(journal[d]) <= interruptions + Current(d) /\ Current(d) = 0
          BY <3>1, <4>3 DEF FilesInv, ProcessTyped
        <5>. QED  BY <5>1, <5>2
      <4>. QED  BY <4>2, <4>3
    <3>. QED  BY <1>2, <3>1, <3>2
  <2>3. todo' \in Seq(Operations(Files))
    BY <1>1 DEF FilesInv, ProcessTyped
  <2>4. loaded' \in States
    BY <1>1 DEF FilesInv, ProcessTyped, Operations, Contents
  <2>. QED  BY <1>2, <2>2, <2>3, <2>4 DEF FilesInv, ProcessTyped
<1>. QED
  BY <1>3, <1>4, <1>5 DEF FilesInv

\* A step that leaves the files alone, between two operations.
LEMMA MovesKeep ==
  ASSUME FilesInv, ~applied, applied' = applied, UNCHANGED storageVars, UNCHANGED interruptions,
         Storage', Process', todo' \in Seq(Operations(Files)),
         proc' \in {"off", "config", "import", "up"},
         stage' \in {"recover", "commit", "load", "identity", "run"},
         argument' \in Configurations \cup {Absent}, loaded' \in States,
         expected' \subseteq Configurations \cup {Absent},
         torn' \in Tickets \cup {Absent}, refused' \in Tickets \cup {Absent}
  PROVE  FilesInv'
<1>1. journal' = journal /\ litter' = litter
  BY DEF storageVars
<1>2. (\A d \in Directories : Len(journal[d]) <= interruptions + Current(d))'
  BY <1>1, BoundKept
<1>3. litter' \in BOOLEAN /\ interruptions' \in 0..MaxInterruptions /\ applied' \in BOOLEAN
  BY <1>1 DEF FilesInv, ProcessTyped
<1>4. ProcessTyped'
  BY <1>2, <1>3 DEF ProcessTyped
<1>5. MadeIsVisible'
  BY DEF MadeIsVisible
<1>. QED
  BY <1>4, <1>5 DEF FilesInv

\* Every process recovers first.
LEMMA RecoveryStarts ==
  ASSUME FilesInv, ~applied, applied' = applied, UNCHANGED <<disk, journal>>, todo' = Recovery
  PROVE  Recovering' /\ todo' \in Seq(Operations(Files))
<1>1. J' = J /\ K' = K /\ Latest' = Latest
  BY FilesAlone
<1>2. Visible("intent") = Latest["intent"]
      /\ Latest["intent"] \in Contents("intent")
  BY LatestFacts, StateFilesAre DEF FilesInv
<1>3. CASE Latest["intent"] = Absent
  <2>1. todo' = <<>>
    BY <1>2, <1>3 DEF Recovery
  <2>. QED  BY <1>1, <1>3, <2>1, EmptySeq DEF Recovering
<1>4. ASSUME Latest["intent"] # Absent
      PROVE  Recovering' /\ todo' \in Seq(Operations(Files))
  <2>1. PICK c \in Configurations : c = Latest["intent"]
    BY <1>2, <1>4 DEF Contents
  <2>2. todo' = Rest(c, 1) /\ Rest(c, 1) \in Seq(Operations(Files))
    <3>1. todo' = RollForward(c)
      BY <1>2, <1>4, <2>1 DEF Recovery
    <3>. QED  BY <3>1, Starts, RestSteps
  <2>3. Rolling(c, 1)'
    BY <1>1, <2>1, <2>2 DEF Rolling
  <2>4. Recovering'
    BY <2>3 DEF Recovering
  <2>. QED  BY <2>2, <2>4
<1>. QED
  BY <1>3, <1>4

LEMMA StartProcessKeeps ==
  ASSUME FilesInv, NEW p \in {"config", "import", "up"}, NEW c \in Configurations \cup {Absent},
         StartProcess(p, c), expected \subseteq expected',
         p # "up" => c \in Configurations, p = "config" => c \in expected',
         p = "import" => c \in Tickets,
         expected' \subseteq Configurations \cup {Absent},
         torn' \in Tickets \cup {Absent}, refused' \in Tickets \cup {Absent}
  PROVE  FilesInv'
<1>1. /\ proc = "off" /\ proc' = p /\ stage' = "recover" /\ argument' = c /\ todo' = Recovery
      /\ applied' = applied /\ loaded' = loaded /\ UNCHANGED storageVars /\ UNCHANGED interruptions
      /\ UNCHANGED <<disk, journal>>
  BY DEF StartProcess, storageVars
<1>2. ~applied
  BY <1>1 DEF FilesInv, Process
<1>3. Storage'
  BY <1>1, ExpectedGrows DEF FilesInv
<1>4. Recovering' /\ todo' \in Seq(Operations(Files))
  BY <1>1, <1>2, RecoveryStarts
<1>5. Process'
  BY <1>1, <1>4 DEF Process
<1>6. loaded' \in States
  BY <1>1 DEF FilesInv, ProcessTyped
<1>. QED
  BY <1>1, <1>2, <1>3, <1>4, <1>5, <1>6, MovesKeep

LEMMA ConfigureStep == ASSUME FilesInv, NEW c \in Configurations, Configure(c) PROVE FilesInv'
<1>1. expected \subseteq Configurations \cup {Absent}
  BY DEF FilesInv, ProcessTyped
<1>. QED
  BY <1>1, StartProcessKeeps DEF Configure

LEMMA ImportStep == ASSUME FilesInv, NEW t \in Tickets, Import(t) PROVE FilesInv'
<1>1. expected \subseteq Configurations \cup {Absent} /\ t \in Configurations
  BY Named DEF FilesInv, ProcessTyped
<1>. QED
  BY <1>1, StartProcessKeeps DEF Import

LEMMA UpStep == ASSUME FilesInv, Up PROVE FilesInv'
<1>1. expected \subseteq Configurations \cup {Absent}
  BY DEF FilesInv, ProcessTyped
<1>. QED
  BY <1>1, StartProcessKeeps DEF Up

\* A command begins to commit.
LEMMA CommitKeeps ==
  ASSUME FilesInv, stage = "recover", todo = <<>>, proc \in {"config", "import"},
         stage' = "commit", todo' = Commit(argument), argument \in expected',
         UNCHANGED <<proc, argument, applied, loaded, torn, refused>>,
         UNCHANGED storageVars, UNCHANGED interruptions,
         expected \subseteq expected', expected' \subseteq Configurations \cup {Absent}
  PROVE  FilesInv'
<1>1. ~applied /\ K = <<>>
  BY Resting
<1>2. argument \in Configurations
  BY DEF FilesInv, Process
<1>3. UNCHANGED <<disk, journal>>
  BY DEF storageVars
<1>4. Storage'
  BY <1>3, ExpectedGrows DEF FilesInv
<1>5. todo' \in Seq(Operations(Files))
  BY <1>2, Starts
<1>6. Committing'
  <2>1. todo' = Commit(argument') /\ K' = <<>>
    BY <1>1, <1>3, FilesAlone
  <2>. QED  BY <2>1 DEF Committing
<1>7. Process'
  <2>1. proc = "import" => argument \in Tickets
    BY DEF FilesInv, Process
  <2>. QED  BY <1>2, <1>6, <2>1 DEF Process
<1>8. loaded' \in States /\ torn' \in Tickets \cup {Absent} /\ refused' \in Tickets \cup {Absent}
      /\ argument' \in Configurations \cup {Absent}
  BY DEF FilesInv, ProcessTyped
<1>. QED
  BY <1>1, <1>4, <1>5, <1>7, <1>8, MovesKeep

LEMMA BeginConfigurationStep == ASSUME FilesInv, BeginConfiguration PROVE FilesInv'
<1>1. expected \subseteq Configurations \cup {Absent}
  BY DEF FilesInv, ProcessTyped
<1>2. argument \in expected
  BY DEF FilesInv, Process, BeginConfiguration, Between
<1>. QED
  BY <1>1, <1>2, CommitKeeps DEF BeginConfiguration, Between, historyVars

LEMMA BeginImportStep == ASSUME FilesInv, BeginImport PROVE FilesInv'
<1>1. expected \subseteq Configurations \cup {Absent} /\ argument \in Configurations \cup {Absent}
  BY DEF FilesInv, ProcessTyped
<1>. QED
  BY <1>1, CommitKeeps DEF BeginImport, Between

\* A command ends.
LEMMA SuccessKeeps ==
  ASSUME FilesInv, todo = <<>>, Ends, Latest["intent"] = Absent, disk["config"] = argument,
         expected' = {argument}, torn' = Absent, UNCHANGED storageVars,
         UNCHANGED <<interruptions, refused>>
  PROVE  FilesInv'
<1>1. ~applied
  BY Resting
<1>2. UNCHANGED <<disk, journal, litter>>
  BY DEF storageVars
<1>3. Storage'
  BY <1>2, ExpectedNow DEF FilesInv
<1>4. expected' \subseteq Configurations \cup {Absent} /\ refused' \in Tickets \cup {Absent}
  BY DEF FilesInv, ProcessTyped
<1>. QED
  BY <1>1, <1>2, <1>3, <1>4, EndsKeeps

LEMMA ReportStep == ASSUME FilesInv, Report PROVE FilesInv'
<1>1. Latest["intent"] = Absent /\ disk["config"] = argument
  BY Resting DEF Report
<1>. QED
  BY <1>1, SuccessKeeps DEF Report

LEMMA ResumeImportStep == ASSUME FilesInv, ResumeImport PROVE FilesInv'
<1>1. Latest["intent"] = Absent
  BY Resting DEF ResumeImport, Between
<1>2. disk["config"] = argument
  <2>1. Visible("config") = disk["config"]
    BY <1>1, LatestFacts DEF FilesInv
  <2>. QED  BY <2>1 DEF ResumeImport, IsImported
<1>. QED
  BY <1>1, <1>2, SuccessKeeps DEF ResumeImport, Between

\* A process ends with nothing done.
LEMMA QuitKeeps ==
  ASSUME FilesInv, todo = <<>>, Ends, UNCHANGED storageVars,
         UNCHANGED <<interruptions, expected, torn>>, refused' \in Tickets \cup {Absent}
  PROVE  FilesInv'
<1>1. ~applied
  BY Resting
<1>2. UNCHANGED <<disk, journal, litter>>
  BY DEF storageVars
<1>3. Storage'
  BY <1>2, ExpectedGrows DEF FilesInv
<1>4. expected' \subseteq Configurations \cup {Absent} /\ torn' \in Tickets \cup {Absent}
  BY DEF FilesInv, ProcessTyped
<1>. QED
  BY <1>1, <1>2, <1>3, <1>4, EndsKeeps

LEMMA AbandonStep == ASSUME FilesInv, Abandon PROVE FilesInv'
<1>1. refused \in Tickets \cup {Absent}
  BY DEF FilesInv, ProcessTyped
<1>. QED
  BY <1>1, QuitKeeps DEF Abandon, Between, historyVars

LEMMA StopStep == ASSUME FilesInv, Stop PROVE FilesInv'
<1>1. refused \in Tickets \cup {Absent}
  BY DEF FilesInv, ProcessTyped
<1>. QED
  BY <1>1, QuitKeeps DEF Stop, Between, historyVars

\* A running service whose process fails stays, any other ends.
LEMMA FailStep == ASSUME FilesInv, Fail PROVE FilesInv'
<1>1. UNCHANGED <<disk, journal, litter>> /\ interruptions < MaxInterruptions
      /\ interruptions' = interruptions + 1 /\ UNCHANGED <<expected, torn, refused>>
  BY DEF Fail, storageVars, historyVars
<1>2. Storage'
  BY <1>1, ExpectedGrows DEF FilesInv
<1>3. /\ expected' \subseteq Configurations \cup {Absent} /\ torn' \in Tickets \cup {Absent}
      /\ refused' \in Tickets \cup {Absent}
  BY <1>1 DEF FilesInv, ProcessTyped
<1>4. CASE stage # "run"
  BY <1>1, <1>2, <1>3, <1>4, EndsKeeps DEF Fail
<1>5. ASSUME stage = "run" PROVE FilesInv'
  <2>1. todo' = <<>> /\ applied' = FALSE /\ UNCHANGED <<proc, stage, argument, loaded>>
    BY <1>5 DEF Fail
  <2>2. (\A d \in Directories : Len(journal[d]) <= interruptions + Current(d))'
    BY <1>1, <2>1, BoundKept
  <2>3. interruptions' \in 0..MaxInterruptions
    BY <1>1, ParametersAssumption DEF FilesInv, ProcessTyped
  <2>4. ProcessTyped'
    <3>1. todo' \in Seq(Operations(Files))
      BY <2>1, EmptySeq
    <3>. QED  BY <1>1, <1>3, <2>1, <2>2, <2>3, <3>1 DEF FilesInv, ProcessTyped
  <2>5. MadeIsVisible'
    BY <2>1 DEF MadeIsVisible
  <2>6. J' = J /\ K' = K /\ Latest' = Latest
    BY <1>1, FilesAlone
  <2>7. stage' = "run" /\ proc' = "up"
    BY <1>5, <2>1 DEF FilesInv, Process
  <2>8. (Loaded /\ Loading /\ Identifying /\ Enrolling)'
    BY <1>1, <1>5, <2>1, <2>6, <2>7 DEF FilesInv, Process, Loaded, Loading, Identifying, Enrolling
  <2>9. Process'
    BY <2>7, <2>8 DEF Process
  <2>. QED  BY <1>2, <2>4, <2>5, <2>9 DEF FilesInv
<1>. QED
  BY <1>4, <1>5

LEMMA InterruptionTyped ==
  ASSUME FilesInv, Interruption
  PROVE  /\ litter' \in BOOLEAN /\ expected' = expected
         /\ expected' \subseteq Configurations \cup {Absent}
         /\ torn' \in Tickets \cup {Absent} /\ refused' \in Tickets \cup {Absent}
         /\ Ends /\ interruptions < MaxInterruptions /\ interruptions' = interruptions + 1
<1>1. litter' \in BOOLEAN
  BY DEF FilesInv, ProcessTyped, Interruption, LeavesLitter, Torn
<1>2. torn' \in Tickets \cup {Absent}
  <2>1. torn \in Tickets \cup {Absent} /\ (proc = "import" => argument \in Tickets)
    BY DEF FilesInv, ProcessTyped, Process
  <2>2. torn' = Tears
    BY DEF Interruption
  <2>3. CASE proc = "import" /\ stage = "commit"
    BY <2>1, <2>2, <2>3 DEF Tears
  <2>4. CASE ~(proc = "import" /\ stage = "commit") /\ proc \in {"import", "off"}
    BY <2>1, <2>2, <2>4 DEF Tears
  <2>5. CASE proc \notin {"import", "off"}
    BY <2>2, <2>5 DEF Tears
  <2>. QED  BY <2>3, <2>4, <2>5
<1>. QED
  BY <1>1, <1>2 DEF FilesInv, ProcessTyped, Interruption

LEMMA KillStep == ASSUME FilesInv, Kill PROVE FilesInv'
<1>1. Interruption /\ UNCHANGED <<disk, journal>>
  BY DEF Kill
<1>2. Storage'
  BY <1>1, ExpectedGrows, InterruptionTyped DEF FilesInv
<1>. QED
  BY <1>1, <1>2, InterruptionTyped, EndsKeeps

LEMMA PowerLossStep == ASSUME FilesInv, PowerLoss PROVE FilesInv'
<1>1. Interruption /\ journal' = [d \in Directories |-> <<>>]
  BY DEF PowerLoss
<1>2. Storage'
  BY PowerLossKeeps DEF FilesInv
<1>. QED
  BY <1>1, <1>2, InterruptionTyped, EndsKeeps

LEMMA RefuseImportStep == ASSUME FilesInv, RefuseImport PROVE FilesInv'
<1>1. proc = "import" /\ todo = <<>> /\ refused' = argument
  BY DEF RefuseImport, Between
<1>2. argument \in Tickets
  BY <1>1 DEF FilesInv, Process
<1>. QED
  BY <1>1, <1>2, QuitKeeps DEF RefuseImport

\* The service starts: its state is loaded, its identity is made, it runs.
LEMMA UpKeeps ==
  ASSUME FilesInv, proc = "up", ~applied, UNCHANGED <<proc, argument, applied>>,
         UNCHANGED storageVars, UNCHANGED interruptions, UNCHANGED historyVars,
         stage' \in UpStages, todo' \in Seq(Operations(Files)), loaded' \in States,
         (Loaded /\ Loading /\ Identifying /\ Enrolling)'
  PROVE  FilesInv'
<1>1. UNCHANGED <<disk, journal, expected, torn, refused>>
  BY DEF storageVars, historyVars
<1>2. Storage'
  BY <1>1, ExpectedGrows DEF FilesInv
<1>3. Process'
  BY <1>1 DEF Process, UpStages
<1>4. argument' \in Configurations \cup {Absent} /\ expected' \subseteq Configurations \cup {Absent}
      /\ torn' \in Tickets \cup {Absent} /\ refused' \in Tickets \cup {Absent}
  BY <1>1 DEF FilesInv, ProcessTyped
<1>5. stage' \in {"recover", "commit", "load", "identity", "run"}
      /\ proc' \in {"off", "config", "import", "up"}
  BY DEF UpStages
<1>. QED
  BY <1>2, <1>3, <1>4, <1>5, MovesKeep

LEMMA LoadStep == ASSUME FilesInv, Load PROVE FilesInv'
<1> DEFINE s == Latest["state"]
           c == disk["config"]
<1>1. /\ proc = "up" /\ todo = <<>> /\ stage = "recover" /\ stage' = "load"
      /\ UNCHANGED <<proc, argument, applied>> /\ UNCHANGED storageVars
      /\ UNCHANGED interruptions /\ UNCHANGED historyVars
  BY DEF Load, Between
<1>2. ~applied /\ Latest["intent"] = Absent
  BY <1>1, Resting
<1>3. /\ Visible("config") = c /\ Visible("state") = s /\ s \in States
      /\ Sound(disk, Latest) /\ Latest["config"] = c
  BY <1>2, LatestFacts DEF FilesInv, StateFiles, Files, Contents
<1>4. WholeView(Latest) /\ c # Absent /\ s # Missing
  BY <1>2, <1>3 DEF Sound, WholeView, Load
<1>5. loaded' = s /\ todo' = IF s.phase = "enrolled" THEN Cleanup ELSE <<>>
  BY <1>3, <1>4 DEF Load
<1>6. J' = J /\ K' = K /\ Latest' = Latest /\ disk' = disk
  BY <1>1, FilesAlone DEF storageVars
<1>7. Loaded'
  <2>1. /\ s.phase \in {"none", "staged", "enrolled"}
        /\ s.phase = "none" => s.by = Absent
        /\ s.phase # "none" => s.by = c
        /\ s.phase # "enrolled" => Latest["token"] = c
    BY <1>3, <1>4 DEF WholeView, Enrollment
  <2> HIDE DEF s, c
  <2>2. Latest'["state"] = s /\ disk'["config"] = c
    BY <1>6 DEF s, c
  <2>. QED  BY <1>2, <1>4, <1>5, <1>6, <2>1, <2>2 DEF Loaded, Later
<1>8. (Loading /\ Identifying /\ Enrolling)'
  BY <1>1, <1>5 DEF Loading, Identifying, Enrolling, Cleaning
<1>9. todo' \in Seq(Operations(Files))
  BY <1>5, CleanupSteps, EmptySeq
<1>. QED
  BY <1>1, <1>2, <1>3, <1>5, <1>7, <1>8, <1>9, UpKeeps DEF UpStages

LEMMA LoadIdentityStep == ASSUME FilesInv, LoadIdentity PROVE FilesInv'
<1> DEFINE c == disk["config"]
<1>1. /\ proc = "up" /\ todo = <<>> /\ stage = "load" /\ stage' = "identity"
      /\ UNCHANGED <<proc, argument, applied, loaded>> /\ UNCHANGED storageVars
      /\ UNCHANGED interruptions /\ UNCHANGED historyVars
  BY DEF LoadIdentity, Between
<1>2. ~applied
  BY <1>1, Resting
<1>3. /\ Loaded /\ c \in Configurations /\ WholeView(Latest) /\ Latest["config"] = c /\ Storage
  BY <1>1, UpFacts DEF UpStages
<1>4. Visible("config") = c /\ Visible("identity") = Latest["identity"]
  BY <1>3, LatestFacts DEF Loaded, StateFiles, Files
<1>5. J' = J /\ K' = K /\ Latest' = Latest /\ disk' = disk
  BY <1>1, FilesAlone DEF storageVars
<1>6. Loaded'
  BY <1>1, <1>3, <1>5 DEF Loaded
<1>7. /\ Latest["identity"] \in {Absent, c}
      /\ todo' = IF Latest["identity"] = Absent THEN <<Replace("identity", c)>> ELSE <<>>
  BY <1>3, <1>4 DEF WholeView, LoadIdentity
<1>8. Identifying'
  BY <1>5, <1>7 DEF Identifying
<1>9. Loading' /\ Enrolling'
  BY <1>1 DEF Loading, Enrolling
<1>10. todo' \in Seq(Operations(Files)) /\ loaded' \in States
  <2>1. Replace("identity", c) \in Operations(Files)
    BY <1>3 DEF Replace, Operations, Values, Files, Contents
  <2>2. <<Replace("identity", c)>> \in Seq(Operations(Files))
    BY <2>1
  <2>3. loaded \in States
    BY DEF FilesInv, ProcessTyped
  <2>. QED  BY <1>1, <1>7, <2>2, <2>3, EmptySeq
<1>. QED
  BY <1>1, <1>2, <1>6, <1>8, <1>9, <1>10, UpKeeps DEF UpStages

LEMMA RunStep == ASSUME FilesInv, Run PROVE FilesInv'
<1>1. /\ proc = "up" /\ todo = <<>> /\ stage = "identity" /\ stage' = "run"
      /\ UNCHANGED <<proc, argument, todo, applied, loaded>> /\ UNCHANGED storageVars
      /\ UNCHANGED interruptions /\ UNCHANGED historyVars
  BY DEF Run, Between
<1>2. ~applied
  BY <1>1, Resting
<1>3. Loaded /\ Identifying
  BY <1>1, UpFacts DEF UpStages
<1>4. J' = J /\ K' = K /\ Latest' = Latest /\ disk' = disk
  BY <1>1, FilesAlone DEF storageVars
<1>5. Loaded'
  BY <1>1, <1>3, <1>4 DEF Loaded
<1>6. Enrolling'
  BY <1>1, <1>3, <1>4 DEF Identifying, Enrolling
<1>7. Loading' /\ Identifying'
  BY <1>1 DEF Loading, Identifying
<1>8. todo' \in Seq(Operations(Files)) /\ loaded' \in States
  BY <1>1 DEF FilesInv, ProcessTyped
<1>. QED
  BY <1>1, <1>2, <1>5, <1>6, <1>7, <1>8, UpKeeps DEF UpStages

\* The running service stages its assignment and completes its enrollment.
LEMMA ServiceKeeps ==
  ASSUME FilesInv, proc = "up", stage = "run", todo = <<>>,
         UNCHANGED <<proc, stage, argument, applied, loaded>>, UNCHANGED storageVars,
         UNCHANGED interruptions, UNCHANGED historyVars, todo' \in Seq(Operations(Files)),
         \/ loaded.phase = "none"
            /\ todo' = <<Replace("state", Assignment("staged", disk["config"]))>>
         \/ loaded.phase = "staged" /\ todo' = Completion
         \/ loaded.phase = "enrolled" /\ todo' = Cleanup
  PROVE  FilesInv'
<1>1. ~applied
  BY Resting
<1>2. Loaded /\ Enrolling
  BY UpFacts DEF UpStages
<1>3. J' = J /\ K' = K /\ Latest' = Latest /\ disk' = disk
  BY FilesAlone DEF storageVars
<1>4. Loaded'
  BY <1>2, <1>3 DEF Loaded
<1>5. Completion' = Completion
  BY DEF Completion
<1>6. Enrolling'
  BY <1>2, <1>3, <1>5 DEF Enrolling, Cleaning
<1>7. Loading' /\ Identifying'
  BY DEF Loading, Identifying
<1>8. loaded' \in States
  BY DEF FilesInv, ProcessTyped
<1>. QED
  BY <1>1, <1>4, <1>6, <1>7, <1>8, UpKeeps DEF UpStages

LEMMA StageStep == ASSUME FilesInv, Stage PROVE FilesInv'
<1> DEFINE c == disk["config"]
<1>1. /\ proc = "up" /\ todo = <<>> /\ stage = "run" /\ loaded.phase = "none"
      /\ UNCHANGED <<proc, stage, argument, applied, loaded>> /\ UNCHANGED storageVars
      /\ UNCHANGED interruptions /\ UNCHANGED historyVars
  BY DEF Stage, Between
<1>2. Enrolling /\ c \in Configurations /\ Storage
  BY <1>1, UpFacts DEF UpStages
<1>3. Visible("identity") = c
  BY <1>1, <1>2, LatestFacts DEF Enrolling, StateFiles, Files
<1>4. todo' = <<Replace("state", Assignment("staged", c))>>
  BY <1>3 DEF Stage
<1>5. todo' \in Seq(Operations(Files))
  <2>1. Replace("state", Assignment("staged", c)) \in Operations(Files)
    BY <1>2, Named DEF Replace, Operations, Values, Files, Contents
  <2>. QED  BY <1>4, <2>1
<1>. QED
  BY <1>1, <1>4, <1>5, ServiceKeeps

LEMMA CompleteEnrollmentStep == ASSUME FilesInv, CompleteEnrollment PROVE FilesInv'
<1>1. /\ proc = "up" /\ todo = <<>> /\ stage = "run" /\ loaded.phase \in {"staged", "enrolled"}
      /\ UNCHANGED <<proc, stage, argument, applied, loaded>> /\ UNCHANGED storageVars
      /\ UNCHANGED interruptions /\ UNCHANGED historyVars /\ todo' = Completion
  BY DEF CompleteEnrollment, Between
<1>2. Loaded /\ disk["config"] \in Configurations
  BY <1>1, UpFacts DEF UpStages
<1>3. loaded.phase = "staged" => loaded.by \in Configurations
  BY <1>2 DEF Loaded
<1>4. todo' \in Seq(Operations(Files))
  BY <1>1, <1>3, CleanupSteps, CompletionSteps
<1>. QED
  BY <1>1, <1>4, CompletionSteps, ServiceKeeps

LEMMA FilesStutter == ASSUME FilesInv, UNCHANGED filesVars PROVE FilesInv'
<1>1. /\ UNCHANGED <<disk, journal, litter, proc, stage, argument, todo, applied, loaded>>
      /\ UNCHANGED <<interruptions, expected, torn, refused>>
  BY DEF filesVars, storageVars, processVars, historyVars
<1>2. J' = J /\ K' = K /\ Latest' = Latest
  BY <1>1, FilesAlone
<1>3. Storage'
  BY <1>1, ExpectedGrows DEF FilesInv
<1>4. ProcessTyped'
  <2>1. \A d : Current(d)' = Current(d)
    BY <1>1 DEF Current
  <2>. QED  BY <1>1, <2>1 DEF FilesInv, ProcessTyped
<1>5. MadeIsVisible'
  BY <1>1 DEF FilesInv, MadeIsVisible, Visible
<1>6. Process'
  <2>1. (\A c, i : Rolling(c, i)' = Rolling(c, i))
    BY <1>1, <1>2 DEF Rolling
  <2>2. Recovering' = Recovering /\ Committing' = Committing
    BY <1>1, <1>2, <2>1 DEF Recovering, Committing
  <2>3. /\ Loaded' = Loaded /\ Loading' = Loading /\ Identifying' = Identifying
        /\ Enrolling' = Enrolling
    <3>1. Cleaning' = Cleaning /\ Completion' = Completion
      BY <1>1 DEF Cleaning, Completion
    <3>. QED  BY <1>1, <1>2, <3>1 DEF Loaded, Loading, Identifying, Enrolling
  <2>. QED  BY <1>1, <2>2, <2>3 DEF FilesInv, Process
<1>. QED
  BY <1>3, <1>4, <1>5, <1>6 DEF FilesInv

LEMMA FilesStep == FilesInv /\ [FilesNext]_filesVars => FilesInv'
<1> SUFFICES ASSUME FilesInv, [FilesNext]_filesVars PROVE FilesInv'
  OBVIOUS
<1>1. CASE UNCHANGED filesVars
  BY <1>1, FilesStutter
<1>2. CASE Apply
  BY <1>2, ApplyStep
<1>3. CASE Sync
  BY <1>3, SyncStep
<1>4. CASE \E c \in Configurations : Configure(c)
  BY <1>4, ConfigureStep
<1>5. CASE \E t \in Tickets : Import(t)
  BY <1>5, ImportStep
<1>6. CASE Up
  BY <1>6, UpStep
<1>7. CASE BeginConfiguration
  BY <1>7, BeginConfigurationStep
<1>8. CASE BeginImport
  BY <1>8, BeginImportStep
<1>9. CASE ResumeImport
  BY <1>9, ResumeImportStep
<1>10. CASE RefuseImport
  BY <1>10, RefuseImportStep
<1>11. CASE Report
  BY <1>11, ReportStep
<1>12. CASE Load
  BY <1>12, LoadStep
<1>13. CASE LoadIdentity
  BY <1>13, LoadIdentityStep
<1>14. CASE Run
  BY <1>14, RunStep
<1>15. CASE Abandon
  BY <1>15, AbandonStep
<1>16. CASE Stage
  BY <1>16, StageStep
<1>17. CASE CompleteEnrollment
  BY <1>17, CompleteEnrollmentStep
<1>18. CASE Stop
  BY <1>18, StopStep
<1>19. CASE Fail
  BY <1>19, FailStep
<1>20. CASE Kill
  BY <1>20, KillStep
<1>21. CASE PowerLoss
  BY <1>21, PowerLossStep
<1>. QED
  BY <1>1, <1>2, <1>3, <1>4, <1>5, <1>6, <1>7, <1>8, <1>9, <1>10, <1>11, <1>12, <1>13, <1>14,
     <1>15, <1>16, <1>17, <1>18, <1>19, <1>20, <1>21 DEF FilesNext

LEMMA FilesAlways == FilesSpec => []FilesInv
BY FilesInitially, FilesStep, PTL DEF FilesSpec

-----------------------------------------------------------------------------
(***************************************************************************)
(* What follows from it.                                                   *)
(***************************************************************************)

\* Every variable has its type and, in every directory, all operations but
\* one for each interruption and the current one have been synced.
THEOREM FilesTyping == FilesSpec => []FilesTypeOK
<1>1. FilesInv => FilesTypeOK
  <2> SUFFICES ASSUME FilesInv PROVE FilesTypeOK
    OBVIOUS
  <2>1. /\ J \in Seq(Operations(StateFiles)) /\ K \in Seq(Operations({"config"}))
        /\ DOMAIN disk = Files /\ (\A f \in Files : disk[f] \in Contents(f))
        /\ DOMAIN journal = Directories
    BY DEF FilesInv, Storage, FilesTyped, JournalsTyped
  <2>2. \A d \in Directories : \A i \in DOMAIN journal[d] :
          IsOperation(journal[d][i]) /\ Directory(journal[d][i].file) = d
    <3>1. ASSUME NEW i \in DOMAIN J
          PROVE  IsOperation(J[i]) /\ Directory(J[i].file) = "state directory"
      <4>1. J[i] \in Operations(StateFiles)
        BY <2>1, <3>1
      <4>. QED  BY <4>1, StateFilesAre DEF Operations, IsOperation
    <3>2. ASSUME NEW i \in DOMAIN K
          PROVE  IsOperation(K[i]) /\ Directory(K[i].file) = "config directory"
      <4>1. K[i] \in Operations({"config"})
        BY <2>1, <3>2
      <4>. QED  BY <4>1, StateFilesAre DEF Operations, IsOperation
    <3>. QED  BY <3>1, <3>2, StateFilesAre DEF J, K
  <2>3. \A d \in Directories : Len(journal[d]) <= interruptions + 1
    <3>1. \A d \in Directories : Len(journal[d]) \in Nat
      <4>1. Len(J) \in Nat /\ Len(K) \in Nat
        BY <2>1
      <4>. QED  BY <4>1, StateFilesAre DEF J, K
    <3>2. interruptions \in Nat
      BY ParametersAssumption DEF FilesInv, ProcessTyped
    <3>3. \A d : Current(d) \in {0, 1}
      BY DEF Current
    <3>4. \A d \in Directories : Len(journal[d]) <= interruptions + Current(d)
      BY DEF FilesInv, ProcessTyped
    <3>. QED  BY <3>1, <3>2, <3>3, <3>4
  <2>4. \A i \in DOMAIN todo : IsOperation(todo[i])
    <3>1. todo \in Seq(Operations(Files))
      BY DEF FilesInv, ProcessTyped
    <3>2. \A i \in DOMAIN todo : todo[i] \in Operations(Files)
      BY <3>1
    <3>. QED  BY <3>2 DEF Operations, IsOperation
  <2>5. applied => todo # <<>>
    BY DEF FilesInv, MadeIsVisible
  <2>. QED  BY <2>1, <2>2, <2>3, <2>4, <2>5 DEF FilesTypeOK, FilesInv, ProcessTyped
<1>. QED
  BY <1>1, FilesAlways, PTL

\* A Node that runs has the files of one reconfiguration, and a configured
\* one does not lack the credential it needs to run.
THEOREM NodesStartWhole == FilesSpec => []StartsWhole
<1>1. FilesInv => StartsWhole
  <2> SUFFICES ASSUME FilesInv PROVE StartsWhole
    OBVIOUS
  <2>1. ASSUME stage \in UpStages
        PROVE  /\ Visible("intent") = Absent
               /\ \A f \in {"token", "identity", "state", "marker"} : Visible(f) = Latest[f]
               /\ Visible("config") = disk["config"]
               /\ disk["config"] \in Configurations
               /\ Loaded /\ WholeView(Latest) /\ Latest["config"] = disk["config"]
               /\ Latest["state"] # Missing
    BY <2>1, UpFacts, LatestFacts DEF Loaded, StateFiles, Files
  <2>2. ASSUME stage = "identity", todo = <<>> PROVE CanRun
    <3>1. Loaded /\ Visible("token") = Latest["token"]
      BY <2>1, <2>2 DEF UpStages
    <3>. QED  BY <3>1 DEF Loaded, CanRun
  <2>3. ASSUME stage = "run"
        PROVE  LET c == Visible("config") IN
               /\ c # Absent /\ Visible("intent") = Absent
               /\ Visible("identity") = c
               /\ loaded.by \in {c, Absent} /\ Visible("state").by \in {c, Absent}
               /\ Visible("token") \in {c, Absent} /\ Visible("marker") \in {c, Absent}
               /\ loaded.phase # "enrolled" => Visible("token") = c
    <3> DEFINE c == disk["config"]
    <3>1. Enrolling
      BY <2>3, UpFacts DEF UpStages
    <3>2. Visible("config") = c /\ Visible("identity") = c /\ c # Absent
      BY <2>1, <2>3, <3>1 DEF UpStages, Enrolling, Loaded
    <3>3. loaded.by \in {c, Absent} /\ (loaded.phase # "enrolled" => Visible("token") = c)
      BY <2>1, <2>3 DEF UpStages, Loaded
    <3>4. Visible("state").by \in {c, Absent} /\ Visible("token") \in {c, Absent}
          /\ Visible("marker") \in {c, Absent}
      BY <2>1, <2>3 DEF UpStages, WholeView, Enrollment, TicketMarker
    <3>. QED  BY <2>1, <2>3, <3>2, <3>3, <3>4 DEF UpStages
  <2>. QED  BY <2>2, <2>3 DEF StartsWhole, Between
<1>. QED
  BY <1>1, FilesAlways, PTL

\* What runs is what was reported last or attempted since.
THEOREM ReportedIsRun == FilesSpec => []RunsWhatWasReported
<1>1. FilesInv => RunsWhatWasReported
  <2> SUFFICES ASSUME FilesInv, stage = "run" PROVE Visible("config") \in expected
    BY DEF RunsWhatWasReported
  <2>1. Loaded
    BY UpFacts DEF UpStages
  <2>2. Candidate(Latest) \in expected /\ Latest["intent"] = Absent
        /\ Latest["config"] = disk["config"] /\ Visible("config") = disk["config"]
    BY <2>1, LatestFacts DEF FilesInv, Loaded
  <2>. QED  BY <2>2 DEF Candidate
<1>. QED
  BY <1>1, FilesAlways, PTL

-----------------------------------------------------------------------------
(***************************************************************************)
(* The durable files implement NodeConfiguration.  Only a sync and a loss  *)
(* of power change them, and either leaves one of the views.               *)
(***************************************************************************)
LEMMA WholeNames ==
  /\ Whole!Absent = Absent
  /\ \A c : Whole!Fresh(c) = FreshFiles(c)
  /\ NoAssignment = [phase |-> "none", by |-> Absent]
BY DEF Whole!Absent, Absent, Whole!Fresh, FreshFiles, NoAssignment

LEMMA RankOrder ==
  ASSUME NEW p \in {"none", "staged", "enrolled"}, NEW q \in {"none", "staged", "enrolled"},
         Later(q, p)
  PROVE  Whole!Rank(q) >= Whole!Rank(p)
<1>1. /\ DOMAIN Whole!Phases = 1..3 /\ Whole!Phases[1] = "none"
      /\ Whole!Phases[2] = "staged" /\ Whole!Phases[3] = "enrolled"
  BY DEF Whole!Phases
<1>2. /\ \A i \in 1..3 : Whole!Phases[i] = "none" <=> i = 1
      /\ \A i \in 1..3 : Whole!Phases[i] = "staged" <=> i = 2
      /\ \A i \in 1..3 : Whole!Phases[i] = "enrolled" <=> i = 3
  BY <1>1
<1>3. Whole!Rank("none") = 1
  <2>1. Whole!Rank("none") = CHOOSE i \in 1..3 : Whole!Phases[i] = "none"
    BY <1>1 DEF Whole!Rank
  <2>. QED  BY <1>2, <2>1
<1>4. Whole!Rank("staged") = 2
  <2>1. Whole!Rank("staged") = CHOOSE i \in 1..3 : Whole!Phases[i] = "staged"
    BY <1>1 DEF Whole!Rank
  <2>. QED  BY <1>2, <2>1
<1>5. Whole!Rank("enrolled") = 3
  <2>1. Whole!Rank("enrolled") = CHOOSE i \in 1..3 : Whole!Phases[i] = "enrolled"
    BY <1>1 DEF Whole!Rank
  <2>. QED  BY <1>2, <2>1
<1>6. Whole!Rank(p) \in 1..3 /\ Whole!Rank(q) \in 1..3
  BY <1>3, <1>4, <1>5
<1>7. CASE q = p
  BY <1>6, <1>7
<1>8. CASE p = "none"
  BY <1>3, <1>6, <1>8
<1>9. CASE q = "enrolled"
  BY <1>5, <1>6, <1>9
<1>. QED
  BY <1>7, <1>8, <1>9 DEF Later

LEMMA DurableFields ==
  /\ disk["intent"] # Absent => Durable = FreshFiles(disk["intent"])
  /\ disk["intent"] = Absent =>
       /\ Durable.config = disk["config"] /\ Durable.token = disk["token"]
       /\ Durable.identity = disk["identity"] /\ Durable.marker = disk["marker"]
       /\ Durable.enrollment = Enrollment(disk["state"])
BY DEF Durable, Enrollment

LEMMA FreshFields ==
  ASSUME NEW c
  PROVE  /\ FreshFiles(c).config = c /\ FreshFiles(c).token = c
         /\ FreshFiles(c).identity = Absent /\ FreshFiles(c).enrollment = NoAssignment
         /\ FreshFiles(c).marker = TicketMarker(c)
BY DEF FreshFiles, TicketMarker

\* To come to another view is to reconfigure or to progress.
LEMMA ViewImplements ==
  ASSUME Storage, NEW n \in 0..Len(J), disk'["intent"] \in Contents("intent"),
         \A f \in StateFiles : disk'[f] = View(n)[f],
         View(n)["intent"] # Absent \/ disk'["config"] = View(n)["config"]
  PROVE  Whole!Next
<1> DEFINE v == View(n)
<1>1. /\ disk'["intent"] = v["intent"] /\ disk'["token"] = v["token"]
      /\ disk'["identity"] = v["identity"] /\ disk'["marker"] = v["marker"]
      /\ disk'["state"] = v["state"]
  BY DEF StateFiles, Files
<1>2. ASSUME v["intent"] # Absent PROVE Whole!Next
  <2>1. PICK c \in Configurations : c = disk'["intent"]
    BY <1>1, <1>2 DEF Contents
  <2>2. disk'["intent"] # Absent
    BY <1>1, <1>2
  <2>3. Durable' = FreshFiles(disk'["intent"])
    <3>1. (disk["intent"] # Absent => Durable = FreshFiles(disk["intent"]))'
      BY DurableFields, PTL
    <3>. QED  BY <2>2, <3>1
  <2>4. Durable' = Whole!Fresh(c)
    BY <2>1, <2>3, WholeNames
  <2>. QED  BY <2>4 DEF Whole!Next, Whole!Reconfigure
<1>3. ASSUME v["intent"] = Absent PROVE Whole!Next
  <2>1. /\ WholeView(v) /\ v["config"] = disk["config"]
        /\ disk["intent"] = Absent => Below(disk, v)
        /\ disk["intent"] # Absent => disk["intent"] = disk["config"]
    BY <1>3 DEF Storage, EachSound, Sound
  <2>2. disk["intent"] = Absent => WholeView(disk)
    <3>1. 0 \in 0..Len(J) /\ View(0) = disk
      BY ViewFacts, LatestFacts DEF Storage, FilesTyped
    <3>. QED  BY <3>1 DEF Storage, EachSound, Sound
  <2> DEFINE c == v["config"]
             e == Enrollment(v["state"])
             d == Durable
             w == Durable'
  <2>3. /\ w.config = c /\ w.token = v["token"] /\ w.identity = v["identity"]
        /\ w.marker = v["marker"] /\ w.enrollment = e
    <3>1. (disk["intent"] = Absent =>
             /\ Durable.config = disk["config"] /\ Durable.token = disk["token"]
             /\ Durable.identity = disk["identity"] /\ Durable.marker = disk["marker"]
             /\ Durable.enrollment = Enrollment(disk["state"]))'
      BY DurableFields, PTL
    <3>2. disk'["config"] = c
      BY <1>3
    <3>. QED  BY <1>1, <1>3, <3>1, <3>2
  <2>4. /\ d.config = c
        /\ d.identity # Absent => v["identity"] = d.identity
        /\ d.enrollment.phase \in {"none", "staged", "enrolled"}
        /\ Later(e.phase, d.enrollment.phase)
        /\ v["token"] \in {d.token, Absent} /\ v["marker"] \in {d.marker, Absent}
        /\ d.enrollment.phase # "enrolled" => d.token = c /\ d.marker = TicketMarker(c)
        /\ d.identity = Absent \/ d.identity = v["identity"]
    <3>1. CASE disk["intent"] = Absent
      <4>1. /\ d.config = disk["config"] /\ d.token = disk["token"] /\ d.identity = disk["identity"]
            /\ d.marker = disk["marker"] /\ d.enrollment = Enrollment(disk["state"])
        BY <3>1, DurableFields
      <4>. QED  BY <2>1, <2>2, <3>1, <4>1 DEF Below, WholeView
    <3>2. CASE disk["intent"] # Absent
      <4>1. d = FreshFiles(c)
        BY <2>1, <3>2, DurableFields
      <4>2. /\ d.config = c /\ d.token = c /\ d.identity = Absent
            /\ d.enrollment = NoAssignment /\ d.marker = TicketMarker(c)
        BY <4>1, FreshFields
      <4>. QED  BY <2>1, <4>2, Named DEF WholeView, Later
    <3>. QED  BY <3>1, <3>2
  <2>5. /\ e.phase \in {"none", "staged", "enrolled"}
        /\ v["identity"] \in {Absent, c}
        /\ e.phase # "none" => e.by = v["identity"]
        /\ e.phase # "enrolled" => v["token"] = c /\ v["marker"] = TicketMarker(c)
    BY <2>1 DEF WholeView
  <2>6. Whole!Rank(e.phase) >= Whole!Rank(d.enrollment.phase)
    BY <2>4, <2>5, RankOrder
  <2>7. e.phase # "enrolled" => d.enrollment.phase # "enrolled"
    BY <2>4 DEF Later
  <2> HIDE DEF d, w, e, c, v
  <2>8. /\ w.config = d.config
        /\ w.identity \in {d.identity, d.config}
        /\ d.identity # Absent => w.identity = d.identity
        /\ Whole!Rank(w.enrollment.phase) >= Whole!Rank(d.enrollment.phase)
        /\ w.enrollment.phase # "none" => w.enrollment.by = w.identity
        /\ \/ w.token = d.token /\ w.marker = d.marker
           \/ /\ w.enrollment.phase = "enrolled"
              /\ w.token \in {d.token, Absent}
              /\ w.marker \in {d.marker, Absent}
    BY <2>3, <2>4, <2>5, <2>6, <2>7
  <2>. QED  BY <2>8, WholeNames DEF Whole!Next, Whole!Progress, d, w
<1>. QED
  BY <1>2, <1>3

\* A step that keeps the durable files but, under an intent, the configuration.
LEMMA DurableKept ==
  ASSUME \A f \in StateFiles : disk'[f] = disk[f],
         disk["intent"] # Absent \/ disk'["config"] = disk["config"]
  PROVE  Durable' = Durable
<1>1. /\ disk'["intent"] = disk["intent"] /\ disk'["token"] = disk["token"]
      /\ disk'["identity"] = disk["identity"] /\ disk'["marker"] = disk["marker"]
      /\ disk'["state"] = disk["state"]
  BY DEF StateFiles, Files
<1>. QED
  BY <1>1 DEF Durable

LEMMA SyncImplements == ASSUME FilesInv, Sync PROVE Whole!Next \/ Durable' = Durable
<1> DEFINE op == Head(todo)
<1>1. /\ op \in Operations(Files)
      /\ op.file \in StateFiles => disk' = Latest
      /\ op.file = "config" => disk' = Synced("config directory")
  BY SyncFacts
<1>2. Storage
  BY DEF FilesInv
<1> HIDE DEF op
<1>3. ASSUME op.file \in StateFiles PROVE Whole!Next
  <2>1. Len(J) \in 0..Len(J) /\ disk' = View(Len(J)) /\ Latest["intent"] \in Contents("intent")
    BY <1>1, <1>2, <1>3, LatestFacts, StateFilesAre DEF Latest
  <2>. QED  BY <1>2, <2>1, ViewImplements DEF Latest
<1>4. ASSUME op.file = "config" PROVE Durable' = Durable
  <2>1. (\A f \in StateFiles : disk'[f] = disk[f]) /\ disk'["config"] = Visible("config")
    BY <1>1, <1>4, SyncedConfig
  <2>2. 0 \in 0..Len(J) /\ View(0) = disk /\ (K = <<>> => Visible("config") = disk["config"])
    BY <1>2, ViewFacts, LatestFacts DEF Storage, FilesTyped
  <2>3. disk["intent"] # Absent \/ disk'["config"] = disk["config"]
    BY <1>2, <2>1, <2>2 DEF Storage, ConfigAfterIntent
  <2>. QED  BY <2>1, <2>3, DurableKept
<1>. QED
  BY <1>1, <1>3, <1>4, StateFilesAre DEF Operations

LEMMA LossImplements == ASSUME FilesInv, PowerLoss PROVE Whole!Next
<1>1. PICK kept \in [Directories -> 0..MaxInterruptions + 1] :
        /\ \A d \in Directories : kept[d] <= Len(journal[d])
        /\ disk' = [f \in Files |->
             LET d == Directory(f) IN After(disk, SubSeq(journal[d], 1, kept[d]), f)]
  BY DEF PowerLoss
<1>2. Storage
  BY DEF FilesInv
<1>3. \E n \in 0..Len(J) :
           /\ \A f \in StateFiles : disk'[f] = View(n)[f]
           /\ \/ View(n)["intent"] # Absent
              \/ disk'["config"] = View(n)["config"]
           /\ \A f \in Files : disk'[f] \in Contents(f)
  BY <1>1, <1>2, LossLeavesView
<1>4. PICK n \in 0..Len(J) :
           /\ \A f \in StateFiles : disk'[f] = View(n)[f]
           /\ \/ View(n)["intent"] # Absent
              \/ disk'["config"] = View(n)["config"]
           /\ \A f \in Files : disk'[f] \in Contents(f)
  BY <1>3
<1>. QED
  BY <1>2, <1>4, StateFilesAre, ViewImplements

LEMMA StepImplements == FilesInv /\ [FilesNext]_filesVars => [Whole!Next]_Durable
<1> SUFFICES ASSUME FilesInv, [FilesNext]_filesVars PROVE Whole!Next \/ Durable' = Durable
  OBVIOUS
<1>1. CASE Sync
  BY <1>1, SyncImplements
<1>2. CASE PowerLoss
  BY <1>2, LossImplements
<1>3. ASSUME disk' = disk PROVE Durable' = Durable
  BY <1>3, DurableKept
<1>4. Sync \/ PowerLoss \/ disk' = disk
  <2>1. CASE UNCHANGED filesVars
    BY <2>1 DEF filesVars, storageVars
  <2>2. CASE Apply \/ Up \/ (\E c \in Configurations : Configure(c)) \/ (\E t \in Tickets : Import(t))
    BY <2>2 DEF Apply, Up, Configure, Import, StartProcess, storageVars
  <2>3. CASE BeginConfiguration \/ BeginImport \/ ResumeImport \/ RefuseImport \/ Report
    BY <2>3 DEF BeginConfiguration, BeginImport, ResumeImport, RefuseImport, Report, storageVars
  <2>4. CASE Load \/ LoadIdentity \/ Run \/ Abandon \/ Stage \/ CompleteEnrollment \/ Stop
    BY <2>4 DEF Load, LoadIdentity, Run, Abandon, Stage, CompleteEnrollment, Stop, storageVars
  <2>5. CASE Fail \/ Kill
    BY <2>5 DEF Fail, Kill, storageVars
  <2>. QED  BY <2>1, <2>2, <2>3, <2>4, <2>5 DEF FilesNext
<1>. QED
  BY <1>1, <1>2, <1>3, <1>4

\* At every moment a loss of power leaves the old configuration as a whole or
\* the new one, to be rolled forward, and enrollment never goes back: the
\* detailed files implement the abstract ones.
THEOREM FilesAreWhole == FilesSpec => AllOrNothing
<1>1. FilesInit => Whole!Init
  <2> SUFFICES ASSUME FilesInit PROVE Durable = [FreshFiles(Absent) EXCEPT !.marker = Absent]
    BY WholeNames DEF Whole!Init
  <2>1. /\ disk["intent"] = Absent /\ disk["token"] = Absent /\ disk["config"] = Absent
        /\ disk["identity"] = Absent /\ disk["state"] = Missing /\ disk["marker"] = Absent
    BY DEF FilesInit, Files, Nothing
  <2>. QED  BY <2>1 DEF Durable, FreshFiles
<1>2. FilesInv /\ [FilesNext]_filesVars => [Whole!Next]_Durable
  BY StepImplements
<1>. QED
  BY <1>1, <1>2, FilesAlways, PTL DEF FilesSpec, AllOrNothing, Whole!Spec
=============================================================================
