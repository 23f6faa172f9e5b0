----------------------------- MODULE SessionMap -----------------------------
(***************************************************************************)
(* What the DATA worker expects of its session table: a map from receiver  *)
(* ids to sessions that may refuse a session, and that erases the keys of  *)
(* the session, and of no other, that an operation replaces or removes.    *)
(***************************************************************************)
CONSTANTS Keys, Values, NoValue

VARIABLES
  map,     \* receiver id -> session, or NoValue
  erased   \* the sessions erased by the last operation

Init ==
  /\ map = [k \in Keys |-> NoValue]
  /\ erased = {}

Put(k, v) ==
  /\ map' = [map EXCEPT ![k] = v]
  /\ erased' = {map[k]} \ {NoValue}

Refuse ==
  /\ erased' = {}
  /\ UNCHANGED map

Remove(k) ==
  /\ map[k] # NoValue
  /\ map' = [map EXCEPT ![k] = NoValue]
  /\ erased' = {map[k]}

Next ==
  \/ \E k \in Keys : Remove(k) \/ \E v \in Values : Put(k, v)
  \/ Refuse

Spec == Init /\ [][Next]_<<map, erased>>
=============================================================================
