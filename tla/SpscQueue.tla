----------------------------- MODULE SpscQueue ------------------------------
(***************************************************************************)
(* runtime/bounded_queue.zig: the ring between the control thread and the  *)
(* DATA worker, with every load, store and slot access a step of its own.  *)
(* Each index has one writer; the other thread's acquire load may return   *)
(* any value of it that is not older than the one it has seen before       *)
(* (headSeen, tailSeen), which is all that release and acquire promise.    *)
(***************************************************************************)
EXTENDS Integers, Sequences

CONSTANTS
  Capacity,   \* desired_capacity; init refuses less than two
  Values,
  Nothing     \* a slot that was never written, or was wiped

ASSUME CapacityAssumption == Capacity \in Nat /\ Capacity >= 2
ASSUME NothingAssumption == Nothing \notin Values

VARIABLES
  storage, head, tail,
  secure,     \* the consumer uses popSecure
  producer,   \* [pc, value]: how far push is
  consumer,   \* [pc, value]: how far pop or popSecure is
  tailSeen,   \* the last tail the producer loaded
  headSeen,   \* the last head the consumer loaded
  result      \* what the last pop returned

producerVars == <<head, producer, tailSeen>>
consumerVars == <<tail, consumer, headSeen, result>>
vars == <<storage, secure, producerVars, consumerVars>>

\* One slot stays free, so that a full ring differs from an empty one.
Slots == 0..Capacity

\* next
Succeeding(index) == IF index + 1 = Capacity + 1 THEN 0 ELSE index + 1

\* occupancy, of the indices as a thread knows them
Occupancy(h, t) == IF h >= t THEN h - t ELSE Capacity + 1 - t + h

\* What a load may return, and the slots between what a thread has seen of an
\* index and what the index is: it does not know that they were passed.
Visible(seen, index) == {i \in Slots : Occupancy(i, seen) <= Occupancy(index, seen)}
Unknown(seen, index) == {i \in Slots : Occupancy(i, seen) < Occupancy(index, seen)}

TypeOK ==
  /\ storage \in [Slots -> Values \cup {Nothing}]
  /\ head \in Slots /\ tail \in Slots
  /\ headSeen \in Slots /\ tailSeen \in Slots
  /\ secure \in BOOLEAN
  /\ producer \in [pc : {"idle", "admitted", "written"}, value : Values \cup {Nothing}]
  /\ consumer \in [pc : {"idle", "ready", "taken", "wiped"},
                   value : Values \cup {Nothing}]
  /\ result \in Values \cup {Nothing}

Init ==
  /\ storage = [i \in Slots |-> Nothing]
  /\ head = 0 /\ tail = 0 /\ headSeen = 0 /\ tailSeen = 0
  /\ secure \in BOOLEAN
  /\ producer = [pc |-> "idle", value |-> Nothing]
  /\ consumer = [pc |-> "idle", value |-> Nothing]
  /\ result = Nothing

-----------------------------------------------------------------------------
\* push.  A refused one changes nothing but what is known of the tail.
FullWhenEmpty(h, t) == h = t /\ h # t
IsFull(h, t) == Succeeding(h) = t

PushLoad(v) ==
  /\ producer.pc = "idle"
  /\ \E t \in Visible(tailSeen, tail) :
       /\ tailSeen' = t
       /\ producer' = IF IsFull(head, t) THEN producer
                      ELSE [pc |-> "admitted", value |-> v]
  /\ UNCHANGED <<storage, secure, head, consumerVars>>

PushWrite ==
  /\ producer.pc = "admitted"
  /\ storage' = [storage EXCEPT ![head] = producer.value]
  /\ producer' = [producer EXCEPT !.pc = "written"]
  /\ UNCHANGED <<secure, head, tailSeen, consumerVars>>

PushPublish ==
  /\ producer.pc = "written"
  /\ head' = Succeeding(head)
  /\ producer' = [pc |-> "idle", value |-> Nothing]
  /\ UNCHANGED <<storage, secure, tailSeen, consumerVars>>

\* pop and popSecure
EmptyNever(h, t) == h # h /\ t = t
IsEmpty(h, t) == t = h

PopLoad ==
  /\ consumer.pc = "idle"
  /\ \E h \in Visible(headSeen, head) :
       /\ headSeen' = h
       /\ consumer' = IF IsEmpty(h, tail) THEN consumer
                      ELSE [consumer EXCEPT !.pc = "ready"]
  /\ UNCHANGED <<storage, secure, tail, result, producerVars>>

PopRead ==
  /\ consumer.pc = "ready"
  /\ consumer' = [pc |-> "taken", value |-> storage[tail]]
  /\ UNCHANGED <<storage, secure, tail, headSeen, result, producerVars>>

WipeNothing ==
  /\ secure /\ consumer.pc = "taken"
  /\ consumer' = [consumer EXCEPT !.pc = "wiped"]
  /\ UNCHANGED <<storage, secure, tail, headSeen, result, producerVars>>
Wipe ==
  /\ secure /\ consumer.pc = "taken"
  /\ storage' = [storage EXCEPT ![tail] = Nothing]
  /\ consumer' = [consumer EXCEPT !.pc = "wiped"]
  /\ UNCHANGED <<secure, tail, headSeen, result, producerVars>>

PopRelease ==
  /\ consumer.pc = IF secure THEN "wiped" ELSE "taken"
  /\ tail' = Succeeding(tail)
  /\ result' = consumer.value
  /\ consumer' = [pc |-> "idle", value |-> Nothing]
  /\ UNCHANGED <<storage, secure, headSeen, producerVars>>

\* occupancy(), as either thread calls it (data_worker.zig:608 and 755).
ConsumerCounts ==
  /\ consumer.pc = "idle"
  /\ headSeen' \in Visible(headSeen, head)
  /\ UNCHANGED <<storage, secure, tail, consumer, result, producerVars>>
ProducerCounts ==
  /\ producer.pc = "idle"
  /\ tailSeen' \in Visible(tailSeen, tail)
  /\ UNCHANGED <<storage, secure, head, producer, consumerVars>>

Produce == (\E v \in Values : PushLoad(v)) \/ PushWrite \/ PushPublish \/ ProducerCounts
Consume == PopLoad \/ PopRead \/ Wipe \/ PopRelease \/ ConsumerCounts
Next == Produce \/ Consume

Spec == Init /\ [][Next]_vars

-----------------------------------------------------------------------------
\* A thread touches a slot only when it knows that the other is done with it:
\* no access of one is concurrent with, or unordered to, an access of the
\* other, although the slots themselves are not atomic.
Writing == producer.pc = "admitted"
Reading == consumer.pc = "ready" \/ (secure /\ consumer.pc = "taken")
NoSlotRace ==
  /\ Writing => head \notin Unknown(tailSeen, tail)
  /\ Reading => tail \notin Unknown(headSeen, head)
  /\ ~(Writing /\ Reading /\ head = tail)

\* popSecure leaves nothing of what it took ("Use this for queues whose values
\* may contain ephemeral session key material"): a slot that holds a value
\* holds one that is still to be popped, or is being written.
Occupied(i) == Occupancy(i, tail) < Occupancy(head, tail)
VacatedIsErased ==
  secure => \A i \in Slots :
    storage[i] # Nothing => Occupied(i) \/ (i = head /\ producer.pc = "written")

\* The count each thread computes is never more than the capacity and errs to
\* its safe side: the producer's is not below what is there, the consumer's not
\* above (the fences fall at 0 at data_worker.zig:608).
OccupancyErrsSafely ==
  /\ Occupancy(head, tail) <= Occupancy(head, tailSeen)
  /\ Occupancy(head, tailSeen) <= Capacity
  /\ Occupancy(headSeen, tail) <= Occupancy(head, tail)

\* The ring is a bounded FIFO: pushes take effect with the store of the head,
\* pops with the store of the tail.
Element(i) ==
  IF i = tail /\ consumer.pc \in {"taken", "wiped"} THEN consumer.value
  ELSE storage[i]
At(n) == IF tail + n > Capacity THEN tail + n - Capacity - 1 ELSE tail + n
Contents == [n \in 1..Occupancy(head, tail) |-> Element(At(n - 1))]
Fifo == INSTANCE FifoQueue WITH queue <- Contents, delivered <- result
ImplementsFifo == Fifo!Spec
=============================================================================
