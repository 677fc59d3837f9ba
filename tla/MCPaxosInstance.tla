--------------------------- MODULE MCPaxosInstance ---------------------------
(***************************************************************************)
(* A small instance of PaxosInstance for TLC.                              *)
(***************************************************************************)
EXTENDS PaxosInstance, TLC

CONSTANTS
  MaxPrepares,    \* bound on the (node, round) pairs proposed
  MaxLearners     \* bound on the nodes that handle Learn messages

Prepares == {m \in msgs : m.type = "Prepare"}

(* Redrawing a round a node has already used is not counted; round 0,      *)
(* which no acceptor ever promises, is not drawn.                          *)
PreparesBound ==
  Cardinality(Prepares) =< MaxPrepares /\ \A m \in Prepares : m.crnd # 0

(* Proposals that collide: one round, drawn by several nodes or again by   *)
(* the same node, and nobody counts Learns.                                *)
CollisionBound ==
  /\ PreparesBound
  /\ \A m, o \in Prepares : m.crnd = o.crnd
  /\ \A n \in Nodes, r \in Rnd : learned[n][r] = {}

(* Proposals of different nodes in different rounds.  At most MaxLearners  *)
(* nodes count Learns (in any round); the others learn by InformLearned    *)
(* and LogSyncResponse.  Once all have learned nothing is to be learned,   *)
(* and proposers and acceptors do no more than they could do before.       *)
LearningBound ==
  /\ PreparesBound
  /\ \A m, o \in Prepares : m # o => m.from # o.from /\ m.crnd # o.crnd
  /\ \A m \in delivered : m \in proposals[m.to][m.rnd].promises
  /\ Cardinality({n \in Nodes : \E r \in Rnd : learned[n][r] # {}}) =< MaxLearners
  /\ \E n \in Nodes : learned_rnd_val[n] = NoRndVal

Bound == LearningBound \/ CollisionBound

(* The entry of a node is identified with the node. *)
MCEntry == [n \in Nodes |-> n]

Symmetry == Permutations(Nodes)
=============================================================================
