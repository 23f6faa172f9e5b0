---------------------------- MODULE SessionTable ----------------------------
(***************************************************************************)
(* runtime/session_table.zig: the open-addressed table the DATA worker     *)
(* keeps its sessions in.  Linear probing, tombstones on removal, a load   *)
(* factor of 7/10 and no growth.  It implements SessionMap.                *)
(***************************************************************************)
EXTENDS Integers, FiniteSets

CONSTANTS
  Keys,       \* receiver ids, without 0
  Values,     \* sessions, without 0
  SlotCount   \* a power of two

VARIABLES
  slots,    \* 0..SlotCount-1 -> slot
  count,
  hash,     \* key -> its home slot; fixed, but any function
  erased,   \* values the cleanup hook erased in the last operation
  result    \* of the last operation

vars == <<slots, count, hash, erased, result>>

Slots == 0..SlotCount - 1
Slot ==
  [state : {"empty", "occupied", "tombstone"}, key : Keys \cup {0},
   value : Values \cup {0}]
Empty == [state |-> "empty", key |-> 0, value |-> 0]
Occupied(k, v) == [state |-> "occupied", key |-> k, value |-> v]

\* remove keeps the slot's place in the probe sequences that run over it.
Tombstone == [state |-> "tombstone", key |-> 0, value |-> 0]

Probe(k, i) == (hash[k] + i) % SlotCount
Holds(slot, k) == slot.state = "occupied" /\ slot.key = k

\* The slots a probe for k looks at: it ends at the first empty one.
Visited(k) ==
  LET ends == {i \in Slots : slots[Probe(k, i)].state = "empty"}
  IN {i \in Slots : \A j \in ends : i <= j}
First(indexes) == CHOOSE i \in indexes : \A j \in indexes : i <= j
In(k, state) == {i \in Visited(k) : slots[Probe(k, i)].state = state}

Matches(k) == {i \in Visited(k) : Holds(slots[Probe(k, i)], k)}

\* find and get
Lookup(k) ==
  IF Matches(k) = {} THEN 0 ELSE slots[Probe(k, First(Matches(k)))].value

\* put takes the first tombstone it passed, but only once an empty slot has
\* shown that the key is nowhere behind it.
EagerDestination(k) ==
  Probe(k, First(In(k, "tombstone") \cup In(k, "empty") \cup Matches(k)))
Destination(k) ==
  IF Matches(k) # {} THEN Probe(k, First(Matches(k)))
  ELSE IF In(k, "tombstone") # {} THEN Probe(k, First(In(k, "tombstone")))
  ELSE Probe(k, First(In(k, "empty")))

\* put refuses a session that would exceed the load factor, and, as it looks no
\* further, a replacement that would not.
Loaded == (count + 1) * 10 > SlotCount * 7

\* What the cleanup hook erases when a slot is overwritten or vacated.
Erased(slot) == {slot.value} \ {0}

Put(k, v) ==
  /\ \/ /\ ~Loaded
        /\ Matches(k) # {} \/ In(k, "empty") # {}
        /\ slots' = [slots EXCEPT ![Destination(k)] = Occupied(k, v)]
        /\ count' = count + (IF Matches(k) = {} THEN 1 ELSE 0)
        /\ erased' = Erased(slots[Destination(k)])
        /\ result' = "ok"
     \/ /\ Loaded \/ (Matches(k) = {} /\ In(k, "empty") = {})
        /\ result' = "TableFull"
        /\ erased' = {}
        /\ UNCHANGED <<slots, count>>
  /\ UNCHANGED hash

Remove(k) ==
  /\ Matches(k) # {}
  /\ LET i == Probe(k, First(Matches(k)))
     IN /\ slots' = [slots EXCEPT ![i] = Tombstone]
        /\ erased' = Erased(slots[i])
  /\ count' = count - 1
  /\ result' = "ok"
  /\ UNCHANGED hash

Init ==
  /\ slots = [i \in Slots |-> Empty]
  /\ count = 0
  /\ hash \in [Keys -> Slots]
  /\ erased = {}
  /\ result = "ok"

Next == \E k \in Keys : Remove(k) \/ \E v \in Values : Put(k, v)

Spec == Init /\ [][Next]_vars

-----------------------------------------------------------------------------
(* Properties                                                              *)

\* Types, and the load factor is kept.
TypeOK ==
  /\ slots \in [Slots -> Slot]
  /\ count \in Nat /\ count * 10 <= SlotCount * 7
  /\ hash \in [Keys -> Slots]
  /\ erased \subseteq Values
  /\ result \in {"ok", "TableFull"}

\* The table is a map: what is put is found, what is removed is not, and each
\* operation erases exactly the keys that it drops.
Map == [k \in Keys |-> Lookup(k)]
M == INSTANCE SessionMap WITH map <- Map, NoValue <- 0
ImplementsMap == M!Spec

\* The load factor counts what is there: no slot is counted twice or lost, and
\* no session is held that a probe cannot find.
CountIsExact ==
  LET occupied == {i \in Slots : slots[i].state = "occupied"}
  IN count = Cardinality(occupied) /\ count = Cardinality({k \in Keys : Lookup(k) # 0})

\* service.zig:2154 on the capacity of four slots per Node: there is headroom
\* for a current and one draining session, so that a second one is not refused.
HeadroomForRekey ==
  [][result' = "TableFull" => count >= 2]_vars
=============================================================================
