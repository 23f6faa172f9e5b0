------------------------- MODULE NodeConfiguration --------------------------
(***************************************************************************)
(* What the files of a Node promise, whatever is interrupted: they are     *)
(* replaced by a reconfiguration as a whole, and otherwise they progress,  *)
(* from a configuration to an identity, an assignment and an enrollment,   *)
(* with which the token and the ticket marker may go.  Reconfiguration     *)
(* implements it with single files and a write-ahead intent.               *)
(***************************************************************************)
EXTENDS Integers

CONSTANTS
  Configurations,  \* the reconfigurations, positive numbers
  Tickets          \* those that import a bootstrap ticket

VARIABLE node
  \* [config, token, identity, marker: the reconfiguration each stems from,
  \*  0 for none; enrollment: "none", "staged" or "enrolled"; by: the
  \*  identity it belongs to]

Absent == 0
Phases == <<"none", "staged", "enrolled">>

Fresh(c) ==
  [config |-> c, token |-> c, identity |-> Absent,
   enrollment |-> [phase |-> "none", by |-> Absent],
   marker |-> IF c \in Tickets THEN c ELSE Absent]

Init == node = [Fresh(Absent) EXCEPT !.marker = Absent]

Reconfigure == \E c \in Configurations : node' = Fresh(c)

Rank(phase) == CHOOSE i \in DOMAIN Phases : Phases[i] = phase

\* Never back, never to the files of another configuration; a token and a
\* marker go only when the Node is enrolled.
Progress ==
  /\ node'.config = node.config
  /\ node'.identity \in {node.identity, node.config}
  /\ node.identity # Absent => node'.identity = node.identity
  /\ Rank(node'.enrollment.phase) >= Rank(node.enrollment.phase)
  /\ node'.enrollment.phase # "none" => node'.enrollment.by = node'.identity
  /\ \/ node'.token = node.token /\ node'.marker = node.marker
     \/ /\ node'.enrollment.phase = "enrolled"
        /\ node'.token \in {node.token, Absent}
        /\ node'.marker \in {node.marker, Absent}

Next == Reconfigure \/ Progress

Spec == Init /\ [][Next]_node
=============================================================================
