---------------------------- MODULE MCPmProcesses -----------------------------
(* Instances of PmProcesses for TLC. *)
EXTENDS PmProcesses

CONSTANTS a1, a2, b1, d1, d2, k1
\* a dependency that has one of its own, which others need too
MCNeeds == [x \in Needy |-> CASE x = a1 -> {d1, d2} [] x = b1 -> {d2} [] x = d1 -> {d2} \cap Deps [] OTHER -> {}]
\* one dependency
MCNeedsOne == [x \in Needy |-> IF x \in Programs THEN Deps ELSE {}]
=============================================================================
