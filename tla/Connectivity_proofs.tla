------------------------ MODULE Connectivity_proofs -------------------------
(***************************************************************************)
(* Proofs about Connectivity, for every number of checks, capacity and     *)
(* fault.  What the worker took of the requests, published or still        *)
(* pending, exceeds the pops it has to know of by at most the capacity,    *)
(* and each queued request brings the knowledge that makes this true after *)
(* it.  That one slot is freed for each result needs the checks of the     *)
(* queue and of the correlator to be distinct.                             *)
(***************************************************************************)
EXTENDS Connectivity, FiniteSetTheorems, SequenceTheorems, TLAPS

Taken == {i \in 1..Capacity : slots[i] # None}

Shapes ==
  /\ requests \in Seq([check : Checks, consumed : Int])
  /\ completions \in Seq([check : Checks, status : Statuses])
  /\ slots \in [1..Capacity -> Checks \cup {None}]
  /\ record \in [Checks -> Statuses]
  /\ outstanding \in Int /\ count \in Int
  /\ published \in Int /\ consumed \in Int /\ known \in Int

\* A check is queued once, or in one slot, or still being dispatched.
Distinct ==
  /\ \A m, n \in DOMAIN requests : requests[m].check = requests[n].check => m = n
  /\ \A i, j \in 1..Capacity : slots[i] = slots[j] /\ slots[i] # None => i = j
  /\ \A n \in DOMAIN requests : \A i \in 1..Capacity : slots[i] # requests[n].check
  /\ \A n \in DOMAIN requests : record[requests[n].check] # "none"
  /\ \A i \in 1..Capacity : slots[i] # None => record[slots[i]] # "none"
  /\ starting.at # "idle" =>
       starting.check \in Checks /\ record[starting.check] # "none"
  /\ starting.at = "dispatch" =>
       /\ \A n \in DOMAIN requests : requests[n].check # starting.check
       /\ \A i \in 1..Capacity : slots[i] # starting.check

Accounts ==
  /\ count = Cardinality(Taken)
  /\ Len(completions) = published - consumed
  /\ outstanding = Len(requests) + count + published - consumed
  /\ outstanding <= Capacity
  /\ published + count - known <= Capacity
  /\ \A n \in DOMAIN requests :
       published + count + n - requests[n].consumed <= Capacity

IInv == Shapes /\ Distinct /\ Accounts /\ PublishNeverRefused

USE CapacityAssumption, BoundsAssumption

ReservationVars == <<requests, slots, count, completions, outstanding, published,
                     consumed, known, refused>>

LEMMA TakenFinite ==
  /\ IsFiniteSet(1..Capacity)
  /\ IsFiniteSet(Taken) /\ Cardinality(Taken) \in Nat
<1>1. IsFiniteSet(1..Capacity)
  BY FS_Interval
<1>2. Taken \subseteq 1..Capacity
  BY DEF Taken
<1>3. IsFiniteSet(Taken)
  BY <1>1, <1>2, FS_Subset
<1>. QED
  BY <1>1, <1>3, FS_CardinalityType

LEMMA Queued ==
  ASSUME Shapes
  PROVE  /\ DOMAIN requests = 1..Len(requests) /\ Len(requests) \in Nat
         /\ \A n \in DOMAIN requests :
              requests[n].check \in Checks /\ requests[n].consumed \in Int
<1>1. DOMAIN requests = 1..Len(requests) /\ Len(requests) \in Nat
  BY DEF Shapes
<1>2. ASSUME NEW n \in DOMAIN requests
      PROVE  requests[n] \in [check : Checks, consumed : Int]
  BY <1>1, ElementOfSeq DEF Shapes
<1>. QED
  BY <1>1, <1>2

LEMMA Numbers ==
  ASSUME Shapes
  PROVE  /\ outstanding \in Int /\ count \in Int
         /\ published \in Int /\ consumed \in Int /\ known \in Int
         /\ Len(completions) \in Int
BY DEF Shapes

\* The parts of the accounts that change, and those of a result.
LEMMA Accounted ==
  ASSUME NEW len, Len(requests') = len,
         count' = Cardinality(Taken'),
         Len(completions') = published' - consumed',
         outstanding' = len + count' + published' - consumed',
         outstanding' <= Capacity,
         published' + count' - known' <= Capacity,
         \A n \in DOMAIN requests' :
           published' + count' + n - requests'[n].consumed <= Capacity
  PROVE  Accounts'
BY DEF Accounts

LEMMA Published ==
  ASSUME NEW c, NEW status, NEW seen \in Int, Publish(c, status, seen), Shapes,
         PublishNeverRefused, published + 1 - seen <= Capacity
  PROVE  PublishNeverRefused'
<1>1. refused' <=> (refused \/ published + 1 - seen > Capacity)
  BY DEF Publish
<1>2. ~(published + 1 - seen > Capacity)
  BY Numbers
<1>. QED
  BY <1>1, <1>2 DEF PublishNeverRefused

\* Empty memory, at the start and after each end.
LEMMA Empty ==
  ASSUME NEW TT, TT = {i \in 1..Capacity : EmptySlots[i] # None}
  PROVE  Cardinality(TT) = 0
<1>1. TT = {}
  BY DEF EmptySlots
<1>. QED
  BY <1>1, FS_EmptySet

LEMMA Initially == Init => IInv
<1> SUFFICES ASSUME Init PROVE IInv
  OBVIOUS
<1>1. Shapes
  BY DEF Init, Shapes, EmptySlots, None, Statuses
<1>2. Distinct
  BY DEF Init, Distinct, EmptySlots, None, NotStarting
<1>3. Cardinality(Taken) = 0
  BY Empty DEF Taken, Init
<1>4. Accounts /\ PublishNeverRefused
  BY <1>3 DEF Init, Accounts, PublishNeverRefused
<1>. QED
  BY <1>1, <1>2, <1>4 DEF IInv

LEMMA AfterEnd ==
  ASSUME IInv, Ends, record' = record PROVE IInv'
<1>1. Shapes'
  BY DEF IInv, Ends, Shapes, EmptySlots, None
<1>2. Distinct'
  BY DEF Ends, Distinct, EmptySlots, None, NotStarting
<1>3. Cardinality(Taken') = 0
  BY Empty DEF Taken, Ends
<1>4. Accounts' /\ PublishNeverRefused'
  BY <1>3 DEF Ends, Accounts, PublishNeverRefused
<1>. QED
  BY <1>1, <1>2, <1>4 DEF IInv

\* Steps that leave the channel alone and lose no row.
LEMMA OfRows ==
  ASSUME IInv, UNCHANGED ReservationVars,
         record' \in [Checks -> Statuses],
         \A c \in Checks : record[c] # "none" => record'[c] # "none",
         \/ starting' = starting
         \/ starting' = NotStarting
         \/ starting'.at = "dispatch" /\ starting'.check \in Checks
            /\ record[starting'.check] = "none" /\ record'[starting'.check] # "none"
  PROVE  IInv'
<1> USE DEF IInv, ReservationVars
<1>1. Shapes'
  BY DEF Shapes
<1>2. Distinct'
  <2>1. \A n \in DOMAIN requests : requests[n].check \in Checks
    BY Queued
  <2>2. \A i \in 1..Capacity : slots[i] \in Checks \cup {None}
    BY DEF Shapes
  <2>. QED
    BY <2>1, <2>2 DEF Distinct, NotStarting, None, Checks
<1>3. Accounts' /\ PublishNeverRefused'
  BY DEF Accounts, PublishNeverRefused, Taken
<1>. QED
  BY <1>1, <1>2, <1>3

\* A transition never returns to "none".
LEMMA Transitions ==
  ASSUME IInv, NEW c, NEW to, NEW late,
         Transition(c, to, late) \/ TransitionFails(c, to, late)
  PROVE  /\ record' \in [Checks -> Statuses]
         /\ \A d \in Checks : record[d] # "none" => record'[d] # "none"
<1>1. record \in [Checks -> Statuses]
  BY DEF IInv, Shapes
<1>2. CASE Transition(c, to, late)
  <2>1. to \in Statuses /\ to # "none" /\ record' = [record EXCEPT ![c] = to]
    BY <1>2 DEF Transition, CanTransition, transitionAllowed, Statuses, Terminal
  <2>. QED
    BY <1>1, <2>1
<1>3. CASE TransitionFails(c, to, late)
  BY <1>1, <1>3 DEF TransitionFails, rowVars
<1>. QED
  BY <1>2, <1>3

LEMMA SubmitStep == IInv /\ Submit => IInv'
<1> SUFFICES ASSUME IInv, Submit PROVE IInv'
  OBVIOUS
<1> USE DEF IInv
<1> DEFINE r == [check |-> starting.check, consumed |-> consumed]
<1>1. /\ starting.check \in Checks
      /\ requests' = Append(requests, r) /\ outstanding' = outstanding + 1
      /\ starting' = [starting EXCEPT !.at = "mark"]
      /\ outstanding < Capacity
      /\ UNCHANGED <<slots, count, completions, published, consumed, known,
                     refused, record>>
  BY DEF Submit, Distinct, Admits, rowVars
<1>2. /\ requests' \in Seq([check : Checks, consumed : Int])
      /\ Len(requests') = Len(requests) + 1
      /\ DOMAIN requests = 1..Len(requests) /\ Len(requests) \in Nat
      /\ DOMAIN requests' = 1..Len(requests) + 1
      /\ \A n \in 1..Len(requests) : requests'[n] = requests[n]
      /\ requests'[Len(requests) + 1] = r
  BY <1>1 DEF Shapes
<1>3. Shapes'
  BY <1>1, <1>2 DEF Shapes
<1>4. /\ starting.at = "dispatch"
      /\ record[starting.check] # "none"
      /\ starting'.at # "dispatch" /\ (starting'.at # "idle" => starting'.check = starting.check)
  BY <1>1 DEF Submit, Distinct
<1>5. Distinct'
  <2> HIDE DEF r
  <2>0. r.check = starting.check
    BY DEF r
  <2>1. \A n \in DOMAIN requests' : n \in DOMAIN requests \/ n = Len(requests) + 1
    BY <1>2
  <2>2. \A n \in DOMAIN requests : requests'[n] = requests[n] /\ n # Len(requests) + 1
    BY <1>2
  <2>3. \A n \in DOMAIN requests : requests[n].check # starting.check
    BY <1>4 DEF Distinct
  <2>. QED
    BY <1>1, <1>2, <1>4, <2>0, <2>1, <2>2, <2>3 DEF Distinct
<1>6. Accounts'
  <2>1. Taken' = Taken
    BY <1>1 DEF Taken
  <2>2. Len(requests') = Len(requests) + 1 /\ Len(requests) \in Nat
    BY <1>2
  <2>3. /\ count = Cardinality(Taken) /\ Len(completions) = published - consumed
        /\ outstanding = Len(requests) + count + published - consumed
        /\ published + count - known <= Capacity
    BY DEF Accounts
  <2>4. outstanding < Capacity /\ outstanding' = outstanding + 1
        /\ UNCHANGED <<count, completions, published, consumed, known>>
    BY <1>1
  <2>0. /\ outstanding \in Int /\ count \in Int /\ published \in Int
        /\ consumed \in Int /\ Capacity \in Int
    BY Numbers
  <2>5. /\ outstanding' = Len(requests') + count' + published' - consumed'
        /\ outstanding' <= Capacity
    <3>1. outstanding + 1 = (Len(requests) + 1) + count + published - consumed
      BY <2>0, <2>2, <2>3
    <3>2. outstanding + 1 <= Capacity
      BY <2>0, <2>4
    <3>. QED  BY <2>2, <2>4, <3>1, <3>2
  <2>6. published + count + (Len(requests) + 1) - consumed <= Capacity
    <3>1. published + count + (Len(requests) + 1) - consumed = outstanding + 1
      BY <2>0, <2>2, <2>3
    <3>. QED  BY <2>0, <2>4, <3>1
  <2>7. ASSUME NEW n \in DOMAIN requests'
        PROVE  published' + count' + n - requests'[n].consumed <= Capacity
    <3>1. CASE n \in DOMAIN requests
      <4>1. requests'[n] = requests[n]
        BY <1>2, <3>1
      <4>2. published + count + n - requests[n].consumed <= Capacity
        BY <3>1 DEF Accounts
      <4>. QED  BY <2>4, <4>1, <4>2
    <3>2. CASE n = Len(requests) + 1
      <4>1. requests'[n].consumed = consumed
        BY <1>2, <3>2
      <4>. QED
        BY <2>4, <2>6, <3>2, <4>1
    <3>. QED  BY <1>2, <3>1, <3>2
  <2>. QED
    BY <2>1, <2>2, <2>3, <2>4, <2>5, <2>7, Accounted
<1>7. PublishNeverRefused'
  BY <1>1 DEF PublishNeverRefused
<1>. QED
  BY <1>3, <1>5, <1>6, <1>7

\* A request leaves the queue.
LEMMA Shifted ==
  ASSUME IInv, requests # <<>>, requests' = Tail(requests)
  PROVE  /\ requests' \in Seq([check : Checks, consumed : Int])
         /\ DOMAIN requests' = 1..Len(requests) - 1
         /\ Len(requests') = Len(requests) - 1 /\ Len(requests) \in Nat \ {0}
         /\ \A n \in DOMAIN requests' :
              n + 1 \in DOMAIN requests /\ n + 1 # 1 /\ requests'[n] = requests[n + 1]
         /\ Head(requests) = requests[1] /\ 1 \in DOMAIN requests
         /\ requests[1].check \in Checks /\ requests[1].consumed \in Int
         /\ \A n \in DOMAIN requests' :
              published + count + 1 + n - requests'[n].consumed <= Capacity
         /\ published + count + 1 - requests[1].consumed <= Capacity
<1>1. requests \in Seq([check : Checks, consumed : Int])
  BY DEF IInv, Shapes
<1>2. /\ requests' \in Seq([check : Checks, consumed : Int])
      /\ DOMAIN requests' = 1..Len(requests) - 1
      /\ Len(requests') = Len(requests) - 1 /\ Len(requests) \in Nat \ {0}
      /\ DOMAIN requests = 1..Len(requests)
      /\ \A n \in 1..Len(requests) - 1 : requests'[n] = requests[n + 1]
      /\ Head(requests) = requests[1]
  BY <1>1
<1>3. \A n \in DOMAIN requests : requests[n].check \in Checks /\ requests[n].consumed \in Int
  BY Queued DEF IInv
<1>4. \A n \in DOMAIN requests' : n + 1 \in DOMAIN requests /\ n + 1 # 1
  BY <1>2
<1>5. 1 \in DOMAIN requests
  BY <1>2
<1>6. published + count + 1 - requests[1].consumed <= Capacity
  BY <1>5 DEF IInv, Accounts
<1>7. ASSUME NEW n \in DOMAIN requests'
      PROVE  published + count + 1 + n - requests'[n].consumed <= Capacity
  <2>1. published + count + (n + 1) - requests[n + 1].consumed <= Capacity
    BY <1>4 DEF IInv, Accounts
  <2>2. requests'[n] = requests[n + 1] /\ n \in Int /\ requests[n + 1].consumed \in Int
    BY <1>2, <1>3, <1>4
  <2>3. published \in Int /\ count \in Int
    BY DEF IInv, Shapes
  <2>. QED
    BY <2>1, <2>2, <2>3
<1>. QED
  BY <1>2, <1>3, <1>4, <1>5, <1>6, <1>7

LEMMA BeginStep == IInv /\ Begin => IInv'
<1> SUFFICES ASSUME IInv, Begin PROVE IInv'
  OBVIOUS
<1> USE DEF IInv
<1> DEFINE c == requests[1].check
<1>1. /\ requests # <<>> /\ requests' = Tail(requests)
      /\ UNCHANGED <<completions, published, refused, outstanding, consumed,
                     record, starting>>
  BY DEF Begin, rowVars
<1>2. PICK k \in FreeSlots : slots' = [slots EXCEPT ![k] = c]
                             /\ known' = requests[1].consumed /\ count' = count + 1
  BY <1>1, Shifted DEF Begin
<1>3. k \in 1..Capacity /\ slots[k] = None /\ c \in Checks /\ c # None
      /\ slots \in [1..Capacity -> Checks \cup {None}]
  BY <1>1, <1>2, Shifted DEF FreeSlots, Shapes, Checks, None
<1>4. Shapes'
  BY <1>1, <1>2, <1>3, Shifted DEF Shapes
<1>5. Distinct'
  <2>1. \A n \in DOMAIN requests' :
          n + 1 \in DOMAIN requests /\ n + 1 # 1 /\ requests'[n] = requests[n + 1]
    BY <1>1, Shifted
  <2>2. \A m, n \in DOMAIN requests' : m + 1 = n + 1 => m = n
    BY <1>1, Shifted
  <2>3. 1 \in DOMAIN requests
    BY <1>1, Shifted
  <2>4. \A i \in 1..Capacity : slots'[i] = IF i = k THEN c ELSE slots[i]
    BY <1>2, <1>3
  <2>5. record' = record /\ starting' = starting
    BY <1>1
  <2>6. \A m, n \in DOMAIN requests' : requests'[m].check = requests'[n].check => m = n
    BY <2>1, <2>2 DEF Distinct
  <2>7. \A i, j \in 1..Capacity : slots'[i] = slots'[j] /\ slots'[i] # None => i = j
    BY <2>3, <2>4 DEF Distinct
  <2>8. \A n \in DOMAIN requests' : requests'[n].check # c
    BY <2>1, <2>3 DEF Distinct
  <2>9. \A n \in DOMAIN requests' : \A i \in 1..Capacity : slots'[i] # requests'[n].check
    BY <2>1, <2>4, <2>8 DEF Distinct
  <2>. QED
    BY <2>1, <2>3, <2>4, <2>5, <2>6, <2>7, <2>9 DEF Distinct
<1>6. Cardinality(Taken') = count + 1
  <2>1. Taken' = Taken \cup {k} /\ k \notin Taken
    BY <1>2, <1>3 DEF Taken
  <2>. QED
    BY <2>1, TakenFinite, FS_AddElement DEF Accounts
<1>7. Accounts'
  <2>1. Len(requests') = Len(requests) - 1 /\ Len(requests) \in Nat
    BY <1>1, Shifted
  <2>2. /\ Len(completions) = published - consumed
        /\ outstanding = Len(requests) + count + published - consumed
        /\ outstanding <= Capacity
    BY DEF Accounts
  <2>3. published + count + 1 - requests[1].consumed <= Capacity
    BY <1>1, Shifted
  <2>4. \A n \in DOMAIN requests' :
          published + count + 1 + n - requests'[n].consumed <= Capacity
    BY <1>1, Shifted
  <2>5. count' = count + 1 /\ known' = requests[1].consumed
        /\ UNCHANGED <<completions, published, outstanding, consumed>>
    BY <1>1, <1>2
  <2>6. outstanding' = Len(requests') + count' + published' - consumed'
        /\ outstanding' <= Capacity
    BY <2>1, <2>2, <2>5, Numbers
  <2>7. published' + count' - known' <= Capacity
    <3>1. requests[1].consumed \in Int /\ published \in Int /\ count \in Int
      BY <1>1, Shifted, Numbers
    <3>. QED  BY <2>3, <2>5, <3>1
  <2>8. \A n \in DOMAIN requests' :
          published' + count' + n - requests'[n].consumed <= Capacity
    BY <2>4, <2>5, Numbers
  <2>. QED
    BY <1>6, <2>2, <2>5, <2>6, <2>7, <2>8, Accounted
<1>8. PublishNeverRefused'
  BY <1>1 DEF PublishNeverRefused
<1>. QED
  BY <1>4, <1>5, <1>7, <1>8

\* A request that is answered at once, with a failure or an interruption.
LEMMA AnswerStep ==
  ASSUME IInv, requests # <<>>, requests' = Tail(requests),
         NEW status \in Statuses,
         Publish(requests[1].check, status, requests[1].consumed),
         UNCHANGED <<slots, count, outstanding, consumed, record, starting>>
  PROVE  IInv'
<1> USE DEF IInv
<1>1. Shapes'
  BY Shifted DEF Shapes, Publish
<1>2. Distinct'
  BY Shifted DEF Distinct
<1>3. Len(completions') = Len(completions) + 1
  BY DEF Publish, Shapes
<1>4. Taken' = Taken
  BY DEF Taken
<1>5. Accounts'
  <2>1. Len(requests') = Len(requests) - 1 /\ Len(requests) \in Nat
    BY Shifted
  <2>2. /\ Len(completions) = published - consumed /\ count = Cardinality(Taken)
        /\ outstanding = Len(requests) + count + published - consumed
        /\ outstanding <= Capacity
    BY DEF Accounts
  <2>3. published + count + 1 - requests[1].consumed <= Capacity
    BY Shifted
  <2>4. \A n \in DOMAIN requests' :
          published + count + 1 + n - requests'[n].consumed <= Capacity
    BY Shifted
  <2>5. published' = published + 1 /\ known' = requests[1].consumed
        /\ UNCHANGED <<count, outstanding, consumed>>
    BY DEF Publish
  <2>6. outstanding' = Len(requests') + count' + published' - consumed'
        /\ outstanding' <= Capacity
    BY <2>1, <2>2, <2>5, Numbers
  <2>7. requests[1].consumed \in Int
    BY Shifted
  <2>8. published' + count' - known' <= Capacity
    BY <2>3, <2>5, <2>7, Numbers
  <2>9. Len(completions') = published' - consumed'
    BY <1>3, <2>2, <2>5, Numbers
  <2>10. ASSUME NEW n \in DOMAIN requests'
         PROVE  published' + count' + n - requests'[n].consumed <= Capacity
    <3>1. published' + count' = published + count + 1
      BY <2>5, Numbers
    <3>2. published + count + 1 + n - requests'[n].consumed <= Capacity
      BY <2>4
    <3>. QED
      BY <3>1, <3>2
  <2>. QED
    BY <1>4, <2>2, <2>5, <2>6, <2>8, <2>9, <2>10, Accounted
<1>6. PublishNeverRefused'
  <2>1. requests[1].consumed \in Int
        /\ published + count + 1 - requests[1].consumed <= Capacity
    BY Shifted
  <2>2. count \in Nat
    BY TakenFinite DEF Accounts
  <2>3. published + 1 - requests[1].consumed <= Capacity
    BY <2>1, <2>2, Numbers
  <2>. QED
    BY <2>1, <2>3, Published
<1>. QED
  BY <1>1, <1>2, <1>5, <1>6

\* A probe that is answered, expired or interrupted.
LEMMA FinishStep ==
  ASSUME IInv, NEW c \in Checks, NEW status \in Statuses, Finish(c, status)
  PROVE  IInv'
<1> USE DEF IInv
<1>1. PICK k \in 1..Capacity : slots[k] = c /\ c # None
  BY DEF Finish, Pending
<1>2. /\ slots' = [i \in 1..Capacity |-> IF slots[i] = c THEN None ELSE slots[i]]
      /\ count' = count - 1 /\ Publish(c, status, known)
      /\ UNCHANGED <<requests, outstanding, consumed, record, starting>>
  BY DEF Finish, Cleared, rowVars
<1>3. Shapes'
  BY <1>2 DEF Shapes, Publish
<1>4. Distinct'
  <2>1. \A i \in 1..Capacity : slots'[i] = None \/ slots'[i] = slots[i]
    BY <1>2
  <2>2. \A n \in DOMAIN requests : requests[n].check # None
    BY Queued DEF Checks, None
  <2>3. starting.at = "dispatch" => starting.check # None
    BY DEF Distinct, Checks, None
  <2>. QED
    BY <1>2, <2>1, <2>2, <2>3 DEF Distinct
<1>5. Cardinality(Taken') = count - 1 /\ count \in Nat /\ count >= 1
  <2>1. Taken' = Taken \ {k} /\ k \in Taken
    BY <1>1, <1>2 DEF Taken, Distinct
  <2>2. Cardinality(Taken \ {k}) = Cardinality(Taken) - 1
        /\ Cardinality(Taken \ {k}) \in Nat
    BY <2>1, TakenFinite, FS_RemoveElement, FS_CardinalityType
  <2>. QED
    BY <2>1, <2>2, TakenFinite DEF Accounts
<1>6. Len(completions') = Len(completions) + 1
  BY <1>2 DEF Publish, Shapes
<1>7. Accounts'
  <2>1. /\ Len(completions) = published - consumed
        /\ outstanding = Len(requests) + count + published - consumed
        /\ outstanding <= Capacity
        /\ published + count - known <= Capacity
    BY DEF Accounts
  <2>2. published' = published + 1 /\ count' = count - 1
        /\ UNCHANGED <<requests, known, outstanding, consumed>>
    BY <1>2 DEF Publish
  <2>3. Len(requests) \in Nat
    BY Queued
  <2>4. published' + count' = published + count
    BY <2>2, Numbers
  <2>5. outstanding' = Len(requests') + count' + published' - consumed'
    <3>1. outstanding' = Len(requests) + count + published - consumed
      BY <2>1, <2>2
    <3>2. /\ Len(requests') = Len(requests) /\ consumed' = consumed
          /\ published' = published + 1 /\ count' = count - 1
      BY <2>2
    <3>3. /\ count \in Int /\ published \in Int /\ consumed \in Int
          /\ Len(requests) \in Int
      BY <2>3, Numbers
    <3> HIDE DEF IInv
    <3>. QED
      BY <3>1, <3>2, <3>3
  <2>6. Len(completions') = published' - consumed'
    BY <1>6, <2>1, <2>2, Numbers
  <2>7. \A n \in DOMAIN requests' :
          published' + count' + n - requests'[n].consumed <= Capacity
    BY <2>2, <2>4 DEF Accounts
  <2>8. outstanding' <= Capacity /\ published' + count' - known' <= Capacity
    <3>1. outstanding' <= Capacity
      BY <2>1, <2>2
    <3>2. published' + count' - known' <= Capacity
      BY <2>1, <2>2, Numbers
    <3>. QED  BY <3>1, <3>2
  <2>9. count' = Cardinality(Taken')
    BY <1>5, <2>2
  <2>. QED
    BY <2>5, <2>6, <2>7, <2>8, <2>9, Accounted
<1>8. PublishNeverRefused'
  <2>1. published + count - known <= Capacity
    BY DEF Accounts
  <2>2. published + 1 - known <= Capacity /\ known \in Int
    BY <1>5, <2>1, Numbers
  <2>. QED
    BY <1>2, <2>2, Published
<1>. QED
  BY <1>3, <1>4, <1>7, <1>8

\* The recorder pops a completion, unless it still has one.
LEMMA TakeStep ==
  ASSUME IInv, Upcoming # {}, Take, record' \in [Checks -> Statuses],
         \A c \in Checks : record[c] # "none" => record'[c] # "none",
         UNCHANGED <<requests, slots, count, published, known, refused, starting>>
  PROVE  IInv'
<1> USE DEF IInv
<1>1. CASE pending # Nobody
  <2>1. UNCHANGED ReservationVars
    BY <1>1 DEF Take, ReservationVars
  <2>. QED
    BY <2>1, OfRows
<1>2. CASE pending = Nobody
  <2>1. /\ completions # <<>> /\ completions' = Tail(completions)
        /\ consumed' = consumed + 1 /\ outstanding' = outstanding - 1
    BY <1>2 DEF Take, Upcoming
  <2>2. /\ completions \in Seq([check : Checks, status : Statuses])
        /\ completions' \in Seq([check : Checks, status : Statuses])
        /\ Len(completions') = Len(completions) - 1
    BY <2>1 DEF Shapes
  <2>3. Shapes'
    BY <2>1, <2>2 DEF Shapes
  <2>4. Distinct'
    <3>1. \A n \in DOMAIN requests : requests[n].check \in Checks
      BY Queued
    <3>2. \A i \in 1..Capacity : slots[i] \in Checks \cup {None}
      BY DEF Shapes
    <3>. QED
      BY <3>1, <3>2 DEF Distinct, None, Checks
  <2>5. Taken' = Taken
    BY DEF Taken
  <2>6. /\ Len(completions) = published - consumed /\ count = Cardinality(Taken)
        /\ outstanding = Len(requests) + count + published - consumed
        /\ outstanding <= Capacity
        /\ published + count - known <= Capacity
    BY DEF Accounts
  <2>7. Len(requests) \in Nat
    BY Queued
  <2>8. Len(completions') = published' - consumed'
    BY <2>1, <2>2, <2>6, Numbers
  <2>9. outstanding - 1 = Len(requests) + count + published - (consumed + 1)
        /\ outstanding - 1 <= Capacity
    BY <2>6, <2>7, Numbers
  <2>10. outstanding' = Len(requests') + count' + published' - consumed'
         /\ outstanding' <= Capacity
    BY <2>1, <2>9
  <2>11. \A n \in DOMAIN requests' :
           published' + count' + n - requests'[n].consumed <= Capacity
    BY DEF Accounts
  <2>12. Accounts'
    BY <2>5, <2>6, <2>8, <2>10, <2>11, Accounted
  <2>13. PublishNeverRefused'
    BY DEF PublishNeverRefused
  <2>. QED
    BY <2>3, <2>4, <2>12, <2>13
<1>. QED
  BY <1>1, <1>2

\* The operator's request.
LEMMA StartingSteps ==
  ASSUME IInv,
         (\E c \in Checks : Create(c)) \/ Refuse \/ MarkRunning
  PROVE  IInv'
<1>1. ASSUME NEW c \in Checks, Create(c) PROVE IInv'
  <2>1. UNCHANGED ReservationVars
    BY <1>1 DEF Create, channelVars, ReservationVars
  <2>2. record' \in [Checks -> Statuses]
        /\ \A d \in Checks : record[d] # "none" => record'[d] # "none"
    BY <1>1 DEF Create, IInv, Shapes, Statuses
  <2>3. starting'.at = "dispatch" /\ starting'.check = c
        /\ record[c] = "none" /\ record'[c] # "none"
    BY <1>1 DEF Create, IInv, Shapes
  <2>. QED
    BY <2>1, <2>2, <2>3, OfRows
<1>2. ASSUME Refuse \/ MarkRunning PROVE IInv'
  <2>1. UNCHANGED ReservationVars /\ starting' = NotStarting
    BY <1>2 DEF Refuse, MarkRunning, channelVars, ReservationVars
  <2>2. PICK to \in Statuses :
          \/ Transition(starting.check, to, FALSE)
          \/ TransitionFails(starting.check, to, FALSE)
    BY <1>2 DEF Refuse, MarkRunning, Statuses, Terminal
  <2>3. record' \in [Checks -> Statuses]
        /\ \A d \in Checks : record[d] # "none" => record'[d] # "none"
    BY <2>2, Transitions
  <2>. QED
    BY <2>1, <2>3, OfRows
<1>. QED
  BY <1>1, <1>2

LEMMA RecordStep == IInv /\ (Record \/ RecordFails) => IInv'
<1>1. ASSUME IInv, Record PROVE IInv'
  <2>1. PICK next \in Upcoming : Take /\ Transition(next.check, next.status, TRUE)
    BY <1>1 DEF Record
  <2>2. /\ record' \in [Checks -> Statuses]
        /\ \A c \in Checks : record[c] # "none" => record'[c] # "none"
    BY <1>1, <2>1, Transitions
  <2>3. UNCHANGED <<requests, slots, count, published, known, refused, starting>>
    BY <1>1 DEF Record
  <2>4. Upcoming # {} /\ Take
    BY <2>1
  <2>. QED
    BY <1>1, <2>2, <2>3, <2>4, TakeStep
<1>2. ASSUME IInv, RecordFails PROVE IInv'
  <2>1. PICK next \in Upcoming :
          /\ TransitionFails(next.check, next.status, TRUE)
          /\ IF process = "up"
             THEN Take /\ UNCHANGED <<requests, slots, count, published, known,
                                     refused, starting>>
             ELSE Ends
    BY <1>2 DEF RecordFails
  <2>2. record' = record
    BY <2>1 DEF TransitionFails, rowVars
  <2>3. CASE process = "up"
    <3>1. Upcoming # {} /\ Take
          /\ UNCHANGED <<requests, slots, count, published, known, refused, starting>>
      BY <2>1, <2>3
    <3>2. record' \in [Checks -> Statuses]
      BY <1>2, <2>2 DEF IInv, Shapes
    <3>. QED
      BY <1>2, <2>2, <3>1, <3>2, TakeStep
  <2>4. CASE process # "up"
    BY <1>2, <2>1, <2>2, <2>4, AfterEnd
  <2>. QED
    BY <2>3, <2>4
<1>. QED
  BY <1>1, <1>2

\* One step of each other action of the worker, the process and the clock.
LEMMA WorkerStep == IInv /\ Worker => IInv'
<1> SUFFICES ASSUME IInv, Worker PROVE IInv'
  OBVIOUS
<1>1. CASE FailRequest
  <2>1. /\ requests # <<>> /\ requests' = Tail(requests)
        /\ Publish(Head(requests).check, "failed", Head(requests).consumed)
        /\ UNCHANGED <<slots, count, outstanding, consumed, record, starting>>
    BY <1>1 DEF FailRequest, rowVars
  <2>2. Head(requests) = requests[1] /\ "failed" \in Statuses
    BY <2>1, Shifted DEF Statuses, Terminal
  <2>. QED
    BY <2>1, <2>2, AnswerStep
<1>2. CASE InterruptRequest
  <2>1. /\ requests # <<>> /\ requests' = Tail(requests)
        /\ Publish(Head(requests).check, "interrupted", Head(requests).consumed)
        /\ UNCHANGED <<slots, count, outstanding, consumed, record, starting>>
    BY <1>2 DEF InterruptRequest, rowVars
  <2>2. Head(requests) = requests[1] /\ "interrupted" \in Statuses
    BY <2>1, Shifted DEF Statuses, Terminal
  <2>. QED
    BY <2>1, <2>2, AnswerStep
<1>3. CASE WorkerEnds \/ WorkerEnded
  <2>1. UNCHANGED ReservationVars /\ UNCHANGED <<record, starting>>
    BY <1>3 DEF WorkerEnds, WorkerEnded, channelVars, rowVars, ReservationVars
  <2>2. record' \in [Checks -> Statuses]
    BY <2>1 DEF IInv, Shapes
  <2>. QED
    BY <2>1, <2>2, OfRows
<1>4. ASSUME NEW c \in Checks, matchReply(c) \/ expire(c) \/ InterruptProbe(c)
      PROVE  IInv'
  <2>1. PICK status \in Statuses : Finish(c, status)
    BY <1>4 DEF matchReply, expire, InterruptProbe, Statuses, Terminal
  <2>. QED
    BY <2>1, FinishStep
<1>. QED
  BY <1>1, <1>2, <1>3, <1>4, BeginStep DEF Worker

LEMMA ProcessStep == IInv /\ (Process \/ Time) => IInv'
<1> SUFFICES ASSUME IInv, Process \/ Time PROVE IInv'
  OBVIOUS
<1>1. CASE Exit \/ Kill
  BY <1>1, AfterEnd DEF Exit, Kill, rowVars
<1>2. CASE RequestStop \/ Join \/ SetBack \/ CatchUp \/ \E c \in Checks : Elapse(c)
  <2>1. UNCHANGED ReservationVars /\ UNCHANGED <<record, starting>>
    BY <1>2 DEF RequestStop, Join, SetBack, CatchUp, Elapse, channelVars, rowVars,
                ReservationVars
  <2>2. record' \in [Checks -> Statuses]
    BY <2>1 DEF IInv, Shapes
  <2>. QED
    BY <2>1, <2>2, OfRows
<1>3. CASE Startup
  <2>1. UNCHANGED ReservationVars /\ starting' = starting /\ record' = Recovered
    BY <1>3 DEF Startup, channelVars, ReservationVars
  <2>2. record \in [Checks -> Statuses]
    BY DEF IInv, Shapes
  <2>3. /\ Recovered \in [Checks -> Statuses]
        /\ \A c \in Checks : record[c] # "none" => Recovered[c] # "none"
    BY <2>2 DEF Recovered, Statuses, Terminal
  <2>. QED
    BY <2>1, <2>3, OfRows
<1>. QED
  BY <1>1, <1>2, <1>3 DEF Process, Time

LEMMA Inductive == IInv /\ [Next]_vars => IInv'
<1> SUFFICES ASSUME IInv, [Next]_vars PROVE IInv'
  OBVIOUS
<1>1. CASE UNCHANGED vars
  <2>1. UNCHANGED ReservationVars /\ UNCHANGED <<record, starting>>
    BY <1>1 DEF vars, channelVars, rowVars, ReservationVars
  <2>2. record' \in [Checks -> Statuses]
    BY <2>1 DEF IInv, Shapes
  <2>. QED
    BY <2>1, <2>2, OfRows
<1>2. CASE Control
  BY <1>2, SubmitStep, StartingSteps, RecordStep DEF Control
<1>. QED
  BY <1>1, <1>2, WorkerStep, ProcessStep DEF Next

\* The assertion of publish never fails: at whatever capacity and number of
\* checks, the worker finds room for the result of every request it has taken
\* although it relies on pops it learnt of from the requests alone
\* (connectivity.zig:66, 200-205).
THEOREM ReservationHolds == Spec => []PublishNeverRefused
<1>1. IInv => PublishNeverRefused
  BY DEF IInv
<1>. QED
  BY Initially, Inductive, <1>1, PTL DEF Spec
-----------------------------------------------------------------------------
(* One place for each check.  The queue, the correlator, the completions   *)
(* and the recorder's hold disjoint sets of checks; a worker's step moves  *)
(* a check between them and only the recorder's success takes one out.     *)

CheckSet(s) == {s[n].check : n \in DOMAIN s}
OneEach(s) == \A m, n \in DOMAIN s : s[m].check = s[n].check => m = n

Held == {pending.check} \ {None}
Anywhere == CheckSet(requests) \cup Pending \cup CheckSet(completions) \cup Held

Request == [check : Checks, consumed : Int]
Result == [check : Checks, status : Terminal]

Apart ==
  /\ completions \in Seq(Result) /\ pending \in Result \cup {Nobody}
  /\ OneEach(completions)
  /\ CheckSet(requests) \cap Pending = {}
  /\ CheckSet(requests) \cap CheckSet(completions) = {}
  /\ Pending \cap CheckSet(completions) = {}
  /\ Held \cap (CheckSet(requests) \cup Pending \cup CheckSet(completions)) = {}

\* What the rows say of the places, and of the request being served.
RowsFit ==
  /\ \A c \in Checks : record[c] \in Terminal \cup {"none"} => c \notin Anywhere
  /\ process # "down" => \A c \in Checks : record[c] = "running" => c \in Anywhere
  /\ process = "down" => Anywhere = {} /\ starting.at = "idle"
  /\ starting.at # "idle" => process = "up" /\ starting.check \in Checks
  /\ starting.at = "dispatch" =>
       starting.check \notin Anywhere /\ record[starting.check] = "queued"
  /\ starting.at = "mark" => starting.check \in Anywhere

Placed == Apart /\ RowsFit

LEMMA Appended ==
  ASSUME NEW T, NEW s \in Seq(T), NEW x \in T
  PROVE  /\ CheckSet(Append(s, x)) = CheckSet(s) \cup {x.check}
         /\ OneEach(s) /\ x.check \notin CheckSet(s) => OneEach(Append(s, x))
         /\ Append(s, x) \in Seq(T)
<1> DEFINE t == Append(s, x)
<1>1. /\ DOMAIN s = 1..Len(s) /\ Len(s) \in Nat /\ DOMAIN t = 1..Len(s) + 1
      /\ \A n \in 1..Len(s) : t[n] = s[n]
      /\ t[Len(s) + 1] = x /\ t \in Seq(T)
  OBVIOUS
<1> HIDE DEF t
<1>2. \A n \in DOMAIN t : n \in DOMAIN s \/ n = Len(s) + 1
  BY <1>1
<1>3. \A n \in DOMAIN s : n \in DOMAIN t /\ t[n] = s[n]
  BY <1>1
<1>4. Len(s) + 1 \in DOMAIN t
  BY <1>1
<1>5. CheckSet(t) = CheckSet(s) \cup {x.check}
  BY <1>1, <1>2, <1>3, <1>4 DEF CheckSet
<1>6. OneEach(s) /\ x.check \notin CheckSet(s) => OneEach(t)
  BY <1>1, <1>2, <1>3 DEF CheckSet, OneEach
<1>. QED
  BY <1>1, <1>5, <1>6 DEF t

LEMMA TakenOff ==
  ASSUME NEW T, NEW s \in Seq(T), s # <<>>, OneEach(s)
  PROVE  /\ Head(s).check \in CheckSet(s) /\ Head(s) \in T
         /\ CheckSet(Tail(s)) = CheckSet(s) \ {Head(s).check}
         /\ OneEach(Tail(s)) /\ Tail(s) \in Seq(T)
<1> DEFINE t == Tail(s)
<1>1. /\ DOMAIN s = 1..Len(s) /\ Len(s) \in Nat \ {0} /\ DOMAIN t = 1..Len(s) - 1
      /\ \A n \in 1..Len(s) - 1 : t[n] = s[n + 1]
      /\ Head(s) = s[1] /\ Head(s) \in T /\ t \in Seq(T)
  OBVIOUS
<1> HIDE DEF t
<1>2. 1 \in DOMAIN s
  BY <1>1
<1>3. \A n \in DOMAIN t : n + 1 \in DOMAIN s /\ n + 1 # 1 /\ t[n] = s[n + 1]
  BY <1>1
<1>4. \A m \in DOMAIN s : m # 1 => m - 1 \in DOMAIN t /\ t[m - 1] = s[m]
  BY <1>1
<1>5. \A m, n \in DOMAIN t : m + 1 = n + 1 => m = n
  BY <1>1
<1>6. CheckSet(t) = CheckSet(s) \ {s[1].check}
  <2>1. CheckSet(t) \subseteq CheckSet(s) \ {s[1].check}
    BY <1>2, <1>3 DEF CheckSet, OneEach
  <2>2. CheckSet(s) \ {s[1].check} \subseteq CheckSet(t)
    BY <1>4 DEF CheckSet
  <2>. QED  BY <2>1, <2>2
<1>7. OneEach(t)
  BY <1>3, <1>5 DEF OneEach
<1>. QED
  BY <1>1, <1>2, <1>6, <1>7 DEF t, CheckSet

LEMMA InPlaces ==
  ASSUME IInv, Placed
  PROVE  /\ requests \in Seq(Request) /\ OneEach(requests)
         /\ CheckSet(requests) \subseteq Checks /\ Pending \subseteq Checks
         /\ CheckSet(completions) \subseteq Checks
         /\ None \notin Checks
<1>1. OneEach(requests)
  BY DEF IInv, Distinct, OneEach
<1>2. CheckSet(requests) \subseteq Checks
  BY Queued DEF IInv, CheckSet
<1>3. Pending \subseteq Checks
  BY DEF IInv, Shapes, Pending
<1>4. CheckSet(completions) \subseteq Checks
  <2>1. ASSUME NEW n \in DOMAIN completions  PROVE completions[n] \in Result
    BY ElementOfSeq DEF Placed, Apart
  <2>2. ASSUME NEW n \in DOMAIN completions  PROVE completions[n].check \in Checks
    BY <2>1 DEF Result
  <2>. QED  BY <2>2 DEF CheckSet
<1>5. requests \in Seq(Request) /\ None \notin Checks
  BY DEF IInv, Shapes, Request, Checks, None
<1>. QED
  BY <1>1, <1>2, <1>3, <1>4, <1>5

LEMMA NobodyHeld == Nobody.check = None
BY DEF Nobody

\* Empty memory, whatever the rows are.
LEMMA NowhereAtAll ==
  /\ CheckSet(<<>>) = {} /\ OneEach(<<>>)
  /\ {EmptySlots[i] : i \in 1..Capacity} \ {None} = {}
BY DEF CheckSet, OneEach, EmptySlots

LEMMA PlacedInitially == Init => Placed
<1> SUFFICES ASSUME Init PROVE Placed
  OBVIOUS
<1>1. CheckSet(requests) = {} /\ CheckSet(completions) = {} /\ Pending = {}
      /\ Held = {} /\ OneEach(completions)
  BY NowhereAtAll, NobodyHeld DEF Init, Pending, Held
<1>2. Apart
  <2>1. completions \in Seq(Result)  BY DEF Init
  <2>. QED  BY <1>1, <2>1 DEF Apart, Init
<1>3. RowsFit
  BY <1>1 DEF RowsFit, Init, NotStarting, Anywhere
<1>. QED
  BY <1>2, <1>3 DEF Placed

LEMMA PlacedAfterEnd ==
  ASSUME Placed, Ends, record' = record PROVE Placed'
<1>1. (CheckSet(requests) = {} /\ CheckSet(completions) = {} /\ Pending = {}
       /\ Held = {} /\ OneEach(completions))'
  BY NowhereAtAll, NobodyHeld DEF Ends, Pending, Held
<1>2. Apart'
  <2>1. completions' \in Seq(Result)  BY DEF Ends
  <2>. QED  BY <1>1, <2>1 DEF Apart, Ends
<1>3. Anywhere' = {} /\ starting'.at = "idle" /\ process' = "down"
  BY <1>1 DEF Anywhere, Ends, NotStarting
<1>4. RowsFit'
  BY <1>3 DEF RowsFit
<1>. QED
  BY <1>2, <1>4 DEF Placed

\* A step that moves a check, or none.
LEMMA Moved ==
  ASSUME Placed, Apart', Anywhere' = Anywhere, UNCHANGED <<record, starting>>,
         (process # "down" /\ process' # "down") \/ process' = process,
         process' = process \/ starting.at = "idle"
  PROVE  Placed'
BY DEF Placed, RowsFit

PlaceVars == <<requests, slots, completions, pending>>
LEMMA Untouched ==
  ASSUME Placed, UNCHANGED PlaceVars
  PROVE  Apart' /\ Anywhere' = Anywhere
BY DEF PlaceVars, Placed, Apart, Anywhere, Held, Pending

\* A request becomes a result at once.
LEMMA AnswerMoves ==
  ASSUME IInv, Placed, requests # <<>>, requests' = Tail(requests),
         NEW status \in Terminal, NEW seen,
         Publish(Head(requests).check, status, seen),
         UNCHANGED <<slots, pending, record, starting, process>>
  PROVE  Placed'
<1> DEFINE c == Head(requests).check
           x == [check |-> c, status |-> status]
<1>1. requests \in Seq(Request) /\ completions \in Seq(Result)
  BY InPlaces DEF Placed, Apart
<1>2. /\ c \in CheckSet(requests) /\ c \in Checks
      /\ CheckSet(requests') = CheckSet(requests) \ {c}
  BY <1>1, InPlaces, TakenOff
<1>3. /\ x \in Result /\ x.check = c
      /\ completions' = Append(completions, x)
  BY <1>2 DEF Publish, Result
<1>4. c \notin CheckSet(completions) /\ c \notin Pending /\ c \notin Held
  BY <1>2 DEF Placed, Apart
<1> HIDE DEF c, x
<1>5. /\ CheckSet(completions') = CheckSet(completions) \cup {c} /\ OneEach(completions')
      /\ completions' \in Seq(Result)
  <2>1. completions \in Seq(Result) /\ OneEach(completions)
    BY DEF Placed, Apart
  <2>2. /\ CheckSet(Append(completions, x)) = CheckSet(completions) \cup {x.check}
        /\ OneEach(Append(completions, x))
        /\ Append(completions, x) \in Seq(Result)
    BY <1>3, <1>4, <2>1, Appended
  <2>. QED  BY <1>3, <1>4, <2>2
<1>6. Pending' = Pending /\ Held' = Held
  BY DEF Pending, Held
<1>7. Apart'
  BY <1>2, <1>4, <1>5, <1>6 DEF Placed, Apart
<1>8. Anywhere' = Anywhere
  BY <1>2, <1>5, <1>6 DEF Anywhere
<1>. QED
  BY <1>7, <1>8, Moved

\* A probe becomes a result.
LEMMA FinishMoves ==
  ASSUME IInv, Placed, NEW c \in Checks, NEW status \in Terminal, Finish(c, status)
  PROVE  Placed'
<1> DEFINE x == [check |-> c, status |-> status]
<1>1. /\ c \in Pending /\ slots' = Cleared(c)
      /\ completions' = Append(completions, x)
      /\ UNCHANGED <<requests, pending, record, starting, process>>
  BY DEF Finish, Publish, rowVars, runVars
<1>2. Pending' = Pending \ {c}
  BY <1>1 DEF Pending, Cleared
<1>3. c \notin CheckSet(completions) /\ c \notin CheckSet(requests) /\ c \notin Held
  BY <1>1 DEF Placed, Apart
<1>0. x \in Result /\ x.check = c
  BY DEF Result
<1> HIDE DEF x
<1>4. /\ CheckSet(completions') = CheckSet(completions) \cup {c} /\ OneEach(completions')
      /\ completions' \in Seq(Result)
  <2>1. completions \in Seq(Result) /\ OneEach(completions)
    BY DEF Placed, Apart
  <2>2. /\ CheckSet(Append(completions, x)) = CheckSet(completions) \cup {x.check}
        /\ OneEach(Append(completions, x))
        /\ Append(completions, x) \in Seq(Result)
    BY <1>0, <1>1, <1>3, <2>1, Appended
  <2>. QED  BY <1>0, <1>1, <1>3, <2>2
<1>5. CheckSet(requests') = CheckSet(requests) /\ Held' = Held
  BY <1>1 DEF Held
<1>6. Apart'
  BY <1>1, <1>2, <1>3, <1>4, <1>5 DEF Placed, Apart
<1>7. Anywhere' = Anywhere
  BY <1>1, <1>2, <1>4, <1>5 DEF Anywhere
<1>. QED
  BY <1>1, <1>6, <1>7, Moved

\* A request becomes a probe.
LEMMA BeginMoves == ASSUME IInv, Placed, Begin PROVE Placed'
<1> DEFINE c == Head(requests).check
<1>1. PICK k \in FreeSlots : slots' = [slots EXCEPT ![k] = c]
  BY DEF Begin
<1>2. /\ requests # <<>> /\ requests' = Tail(requests)
      /\ UNCHANGED <<completions, pending, record, starting, process>>
  BY DEF Begin, rowVars, runVars
<1>3. /\ c \in CheckSet(requests) /\ c \in Checks
      /\ CheckSet(requests') = CheckSet(requests) \ {c}
  <2>1. requests \in Seq(Request)
    BY InPlaces
  <2>. QED
    BY <1>2, <2>1, InPlaces, TakenOff
<1>4. c \notin CheckSet(completions) /\ c \notin Pending /\ c \notin Held
  BY <1>3 DEF Placed, Apart
<1> HIDE DEF c
<1>5. Pending' = Pending \cup {c}
  <2>1. /\ k \in 1..Capacity /\ slots[k] = None /\ slots'[k] = c /\ c # None
        /\ \A i \in 1..Capacity \ {k} : slots'[i] = slots[i]
    BY <1>1, <1>3 DEF FreeSlots, IInv, Shapes, Checks, None
  <2>. QED
    BY <2>1 DEF Pending
<1>6. CheckSet(completions') = CheckSet(completions) /\ Held' = Held
      /\ OneEach(completions')
  BY <1>2 DEF Held, Placed, Apart
<1>7. Apart'
  BY <1>2, <1>3, <1>4, <1>5, <1>6 DEF Placed, Apart
<1>8. Anywhere' = Anywhere
  BY <1>3, <1>5, <1>6 DEF Anywhere
<1>. QED
  BY <1>2, <1>7, <1>8, Moved

\* A check is admitted.
LEMMA SubmitPlaces == ASSUME IInv, Placed, Submit PROVE Placed'
<1> DEFINE c == starting.check
           x == [check |-> c, consumed |-> consumed]
<1>1. /\ starting.at = "dispatch" /\ c \in Checks /\ c \notin Anywhere
      /\ process = "up" /\ record[c] = "queued"
  BY DEF Submit, Placed, RowsFit
<1>2. /\ requests' = Append(requests, x)
      /\ starting'.at = "mark" /\ starting'.check = c
      /\ UNCHANGED <<slots, completions, pending, record, process>>
  BY <1>1 DEF Submit, rowVars, runVars, IInv, Distinct
<1>3. CheckSet(requests') = CheckSet(requests) \cup {c}
  <2>1. x \in Request /\ x.check = c
    BY <1>1, Numbers DEF IInv, Request
  <2>2. requests \in Seq(Request)
    BY InPlaces
  <2> HIDE DEF x
  <2>3. CheckSet(Append(requests, x)) = CheckSet(requests) \cup {x.check}
    BY <2>1, <2>2, Appended
  <2>. QED
    BY <1>2, <2>1, <2>3
<1>4. Pending' = Pending /\ Held' = Held
  BY <1>2 DEF Pending, Held
<1>5. Apart'
  BY <1>1, <1>2, <1>3, <1>4 DEF Placed, Apart, Anywhere
<1>6. Anywhere' = Anywhere \cup {c}
  BY <1>2, <1>3, <1>4 DEF Anywhere
<1>7. RowsFit'
  BY <1>1, <1>2, <1>6 DEF Placed, RowsFit, Terminal
<1>. QED
  BY <1>5, <1>7 DEF Placed

\* The recorder takes the result that is due.
LEMMA TakePlaces ==
  ASSUME IInv, Placed, NEW next \in Upcoming, Take, pending' \in {next, Nobody},
         UNCHANGED <<requests, slots>>
  PROVE  /\ Apart' /\ next.check \in Anywhere /\ next \in Result
         /\ Anywhere' = IF pending' = Nobody THEN Anywhere \ {next.check} ELSE Anywhere
<1> DEFINE c == next.check
<1>0. /\ completions \in Seq(Result) /\ OneEach(completions)
      /\ pending \in Result \cup {Nobody}
      /\ Pending' = Pending /\ CheckSet(requests') = CheckSet(requests)
  BY DEF Placed, Apart, Pending
<1>1. CASE pending # Nobody
  <2>1. next = pending /\ completions' = completions /\ c \in Checks /\ next \in Result
    BY <1>0, <1>1 DEF Upcoming, Take, Result
  <2>2. Held = {c} /\ c # None
    BY <2>1, InPlaces DEF Held
  <2>3. Held' = IF pending' = Nobody THEN {} ELSE {c}
    BY <2>1, <2>2, NobodyHeld DEF Held
  <2>4. Apart'
    BY <1>0, <2>1, <2>2, <2>3 DEF Placed, Apart
  <2>5. c \notin CheckSet(requests) \cup Pending \cup CheckSet(completions)
    BY <2>2 DEF Placed, Apart
  <2>. QED
    BY <1>0, <2>1, <2>2, <2>3, <2>4, <2>5 DEF Anywhere
<1>2. CASE pending = Nobody
  <2>1. completions # <<>> /\ next = Head(completions) /\ completions' = Tail(completions)
    BY <1>2 DEF Upcoming, Take
  <2>2. /\ c \in CheckSet(completions) /\ next \in Result
        /\ CheckSet(completions') = CheckSet(completions) \ {c}
        /\ OneEach(completions') /\ completions' \in Seq(Result)
    BY <1>0, <2>1, TakenOff
  <2>3. c \in Checks /\ c # None
    BY <2>2, InPlaces DEF Result
  <2>4. Held = {} /\ Held' = IF pending' = Nobody THEN {} ELSE {c}
    BY <1>2, <2>2, <2>3, NobodyHeld DEF Held
  <2>5. c \notin CheckSet(requests) /\ c \notin Pending
    BY <2>2 DEF Placed, Apart
  <2>6. Apart'
    BY <1>0, <2>2, <2>4, <2>5 DEF Placed, Apart
  <2>. QED
    BY <1>0, <2>2, <2>3, <2>4, <2>5, <2>6 DEF Anywhere
<1>. QED
  BY <1>1, <1>2

LEMMA RecordPlaces == ASSUME IInv, Placed, Record PROVE Placed'
<1>1. PICK next \in Upcoming : Take /\ Transition(next.check, next.status, TRUE)
  BY DEF Record
<1>2. /\ pending' = Nobody /\ starting.at = "idle" /\ Polls
      /\ UNCHANGED <<requests, slots, starting, process>>
  BY DEF Record, runVars, Polls, Idle, Placed, RowsFit
<1>3. /\ Apart' /\ next.check \in Checks /\ next.status \in Terminal
      /\ Anywhere' = Anywhere \ {next.check}
  BY <1>1, <1>2, TakePlaces DEF Result
<1>4. process # "down"
  BY <1>2 DEF Polls, Idle
<1>5. /\ record' = [record EXCEPT ![next.check] = next.status]
      /\ record \in [Checks -> Statuses]
  BY <1>1 DEF Transition, IInv, Shapes
<1>6. /\ record'[next.check] \in Terminal
      /\ \A c \in Checks : c # next.check => record'[c] = record[c]
  BY <1>3, <1>5
<1>7. RowsFit'
  BY <1>2, <1>3, <1>4, <1>6 DEF Placed, RowsFit, Terminal
<1>. QED
  BY <1>3, <1>7 DEF Placed

LEMMA RecordFailsPlaces == ASSUME IInv, Placed, RecordFails PROVE Placed'
<1>1. PICK next \in Upcoming :
        /\ TransitionFails(next.check, next.status, TRUE)
        /\ IF process = "up"
           THEN Take /\ pending' = next
                /\ UNCHANGED <<requests, slots, starting, process>>
           ELSE Ends
  BY DEF RecordFails, Retained
<1>2. record' = record
  BY <1>1 DEF TransitionFails, rowVars
<1>3. CASE process = "up"
  <2>1. next # Nobody
    <3>1. completions \in Seq(Result)
      BY DEF Placed, Apart
    <3>2. completions # <<>> => Head(completions) \in Result
      BY <3>1
    <3>3. Nobody \notin Result
      BY NobodyHeld, InPlaces DEF Result
    <3>. QED
      BY <1>1, <3>2, <3>3 DEF Upcoming
  <2>2. Apart' /\ Anywhere' = Anywhere
    BY <1>1, <1>3, <2>1, TakePlaces
  <2>. QED
    BY <1>1, <1>2, <1>3, <2>2, Moved
<1>4. CASE process # "up"
  BY <1>1, <1>2, <1>4, PlacedAfterEnd
<1>. QED
  BY <1>3, <1>4

\* The operator's request, and the start of the process.
LEMMA ServePlaces ==
  ASSUME IInv, Placed, (\E c \in Checks : Create(c)) \/ Refuse \/ MarkRunning
  PROVE  Placed'
<1>0. record \in [Checks -> Statuses]
  BY DEF IInv, Shapes
<1>1. ASSUME NEW c \in Checks, Create(c) PROVE Placed'
  <2>1. /\ process = "up" /\ record[c] = "none"
        /\ record' = [record EXCEPT ![c] = "queued"]
        /\ starting'.check = c /\ starting'.at = "dispatch"
        /\ UNCHANGED PlaceVars /\ process' = process
    BY <1>1 DEF Create, Idle, PlaceVars, channelVars, runVars
  <2>2. Apart' /\ Anywhere' = Anywhere
    BY <2>1, Untouched
  <2>3. c \notin Anywhere
    BY <2>1 DEF Placed, RowsFit
  <2>4. RowsFit'
    BY <1>0, <2>1, <2>2, <2>3 DEF Placed, RowsFit, Terminal
  <2>. QED  BY <2>2, <2>4 DEF Placed
<1>2. ASSUME Refuse \/ MarkRunning PROVE Placed'
  <2>0. /\ process = "up" /\ starting.at # "idle" /\ starting' = NotStarting
        /\ UNCHANGED <<channelVars, runVars, pending>>
    BY <1>2 DEF Refuse, MarkRunning
  <2>1. /\ process = "up" /\ starting'.at = "idle" /\ starting.check \in Checks
        /\ UNCHANGED PlaceVars /\ process' = process
    BY <2>0 DEF NotStarting, PlaceVars, channelVars, runVars, Placed, RowsFit
  <2>2. Apart' /\ Anywhere' = Anywhere
    BY <2>1, Untouched
  <2>3. \/ record' = record
        \/ /\ record' = [record EXCEPT ![starting.check] = "failed"]
           /\ starting.check \notin Anywhere
        \/ /\ record' = [record EXCEPT ![starting.check] = "running"]
           /\ starting.check \in Anywhere
    BY <1>2 DEF Refuse, MarkRunning, Transition, TransitionFails, rowVars, Placed, RowsFit
  <2>4. RowsFit'
    BY <1>0, <2>1, <2>2, <2>3 DEF Placed, RowsFit, Terminal
  <2>. QED  BY <2>2, <2>4 DEF Placed
<1>. QED
  BY <1>1, <1>2

LEMMA StartupPlaces == ASSUME IInv, Placed, Startup PROVE Placed'
<1>1. /\ process = "down" /\ process' = "up" /\ record' = Recovered
      /\ UNCHANGED PlaceVars /\ starting' = starting
  BY DEF Startup, PlaceVars, channelVars
<1>2. Apart' /\ Anywhere' = Anywhere
  BY <1>1, Untouched
<1>3. \A c \in Checks : Recovered[c] # "running"
  BY DEF Recovered, Active
<1>4. RowsFit'
  BY <1>1, <1>2, <1>3 DEF Placed, RowsFit
<1>. QED
  BY <1>2, <1>4 DEF Placed

LEMMA OtherPlaces ==
  ASSUME IInv, Placed,
         \/ UNCHANGED vars \/ WorkerEnds \/ WorkerEnded
         \/ RequestStop \/ Join \/ Time
  PROVE  Placed'
<1>1. UNCHANGED PlaceVars /\ UNCHANGED <<record, starting>>
  BY DEF WorkerEnds, WorkerEnded, RequestStop, Join, Time, SetBack, CatchUp, Elapse,
         vars, channelVars, rowVars, PlaceVars
<1>2. process' = process \/ (process = "up" /\ process' = "final" /\ starting.at = "idle")
  BY DEF WorkerEnds, WorkerEnded, RequestStop, Join, Idle, Time, SetBack, CatchUp,
         Elapse, vars, runVars
<1>3. Apart' /\ Anywhere' = Anywhere
  BY <1>1, Untouched
<1>. QED
  BY <1>1, <1>2, <1>3, Moved

LEMMA PlacedStep == IInv /\ Placed /\ [Next]_vars => Placed'
<1> SUFFICES ASSUME IInv, Placed, [Next]_vars PROVE Placed'
  OBVIOUS
<1>1. CASE Control
  BY <1>1, ServePlaces, SubmitPlaces, RecordPlaces, RecordFailsPlaces DEF Control
<1>2. CASE FailRequest \/ InterruptRequest
  <2>1. PICK status \in Terminal :
          Publish(Head(requests).check, status, Head(requests).consumed)
    BY <1>2 DEF FailRequest, InterruptRequest, Terminal
  <2>2. /\ requests # <<>> /\ requests' = Tail(requests)
        /\ UNCHANGED <<slots, pending, record, starting, process>>
    BY <1>2 DEF FailRequest, InterruptRequest, rowVars, runVars
  <2>. QED
    BY <2>1, <2>2, AnswerMoves
<1>3. ASSUME NEW c \in Checks, matchReply(c) \/ expire(c) \/ InterruptProbe(c)
      PROVE  Placed'
  <2>1. PICK status \in Terminal : Finish(c, status)
    BY <1>3 DEF matchReply, expire, InterruptProbe, Terminal
  <2>. QED
    BY <2>1, FinishMoves
<1>4. CASE Exit \/ Kill
  BY <1>4, PlacedAfterEnd DEF Exit, Kill, rowVars
<1>. QED
  BY <1>1, <1>2, <1>3, <1>4, BeginMoves, StartupPlaces, OtherPlaces
  DEF Next, Worker, Process

\* The count of a check's places, from the disjoint sets.
LEMMA CountOf ==
  ASSUME NEW S, \A x, y \in S : x = y
  PROVE  Cardinality(S) = IF S = {} THEN 0 ELSE 1
<1>1. CASE S = {}
  BY <1>1, FS_EmptySet
<1>2. CASE S # {}
  <2>1. PICK x : S = {x}
    BY <1>2
  <2>. QED
    BY <1>2, <2>1, FS_Singleton
<1>. QED
  BY <1>1, <1>2

LEMMA PlacesCount ==
  ASSUME IInv, Placed, NEW c \in Checks
  PROVE  Places(c) = IF c \in Anywhere THEN 1 ELSE 0
<1> DEFINE Rq == {n \in DOMAIN requests : requests[n].check = c}
           Sl == {i \in 1..Capacity : slots[i] = c}
           Cm == {n \in DOMAIN completions : completions[n].check = c}
<1>0. c # None
  BY InPlaces
<1>1. Cardinality(Rq) = IF c \in CheckSet(requests) THEN 1 ELSE 0
  <2>1. \A x, y \in Rq : x = y
    BY InPlaces DEF OneEach
  <2>2. Rq # {} <=> c \in CheckSet(requests)
    BY DEF CheckSet
  <2>. QED  BY <2>1, <2>2, CountOf
<1>2. Cardinality(Sl) = IF c \in Pending THEN 1 ELSE 0
  <2>1. \A x, y \in Sl : x = y
    BY <1>0 DEF IInv, Distinct
  <2>2. Sl # {} <=> c \in Pending
    BY <1>0 DEF Pending
  <2>. QED  BY <2>1, <2>2, CountOf
<1>3. Cardinality(Cm) = IF c \in CheckSet(completions) THEN 1 ELSE 0
  <2>1. \A x, y \in Cm : x = y
    BY DEF Placed, Apart, OneEach
  <2>2. Cm # {} <=> c \in CheckSet(completions)
    BY DEF CheckSet
  <2>. QED  BY <2>1, <2>2, CountOf
<1>4. c \in Held <=> pending.check = c
  BY <1>0 DEF Held
<1>5. Places(c) = Cardinality(Rq) + Cardinality(Sl) + Cardinality(Cm)
                  + (IF pending.check = c THEN 1 ELSE 0)
  BY DEF Places
<1> HIDE DEF Rq, Sl, Cm
<1>6. /\ c \in CheckSet(requests) => c \notin Pending /\ c \notin CheckSet(completions)
      /\ c \in Pending => c \notin CheckSet(completions)
      /\ c \in Held => /\ c \notin CheckSet(requests) /\ c \notin Pending
                       /\ c \notin CheckSet(completions)
  BY DEF Placed, Apart
<1>. QED
  BY <1>1, <1>2, <1>3, <1>4, <1>5, <1>6 DEF Anywhere

\* An admitted check is in one place until its result is in the database, at
\* whatever capacity and number of checks, through replies, expiries,
\* interruptions, failed writes and restarts (connectivity.zig:66,
\* connectivity_runtime.zig:103).
THEOREM ResultsAreSingle == Spec => []OneResultEach
<1>1. IInv /\ Placed => OneResultEach
  <2> SUFFICES ASSUME IInv, Placed, process # "down", NEW c \in Checks
               PROVE  /\ Places(c) <= 1
                      /\ record[c] = "running" => Places(c) = 1
                      /\ record[c] \in Terminal => Places(c) = 0
    BY DEF OneResultEach
  <2>. QED
    BY PlacesCount DEF Placed, RowsFit
<1>2. Init => IInv /\ Placed
  BY Initially, PlacedInitially
<1>3. IInv /\ Placed /\ [Next]_vars => (IInv /\ Placed)'
  BY Inductive, PlacedStep
<1>. QED
  BY <1>1, <1>2, <1>3, PTL DEF Spec
=============================================================================
