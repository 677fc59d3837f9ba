------------------------------ MODULE Consensus ------------------------------
(***************************************************************************)
(* What one index of the PaxosLog of src/src/paxos.rs promises to the      *)
(* layers above it: one entry is chosen once and for all, and every node   *)
(* learns that entry, at any later time, at most once.                     *)
(***************************************************************************)
CONSTANTS Nodes, Values, NoValue

VARIABLES
  chosen,    \* the set of chosen entries
  learned    \* what each node has learned, or NoValue

Init ==
  /\ chosen = {}
  /\ learned = [n \in Nodes |-> NoValue]

Choose(v) ==
  /\ chosen = {}
  /\ chosen' = {v}
  /\ UNCHANGED learned

Learn(n) ==
  /\ learned[n] = NoValue
  /\ \E v \in chosen : learned' = [learned EXCEPT ![n] = v]
  /\ UNCHANGED chosen

Next == (\E v \in Values : Choose(v)) \/ (\E n \in Nodes : Learn(n))

Spec == Init /\ [][Next]_<<chosen, learned>>
=============================================================================
