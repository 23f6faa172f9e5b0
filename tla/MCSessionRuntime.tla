--------------------------- MODULE MCSessionRuntime -------------------------
(* A Node that rekeys: its two sessions overlap, installs are overtaken by  *)
(* retirements and confirmations by replacements.                           *)
EXTENDS SessionRuntime

CONSTANTS node

MCSessions == 1..2
MCOwners == {node}
MCOwnerOf == [s \in MCSessions |-> node]
MCCreatedNs == [s \in MCSessions |-> 1]
=============================================================================
