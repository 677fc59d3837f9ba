-------------------------- MODULE TransactionCommit --------------------------
(***************************************************************************)
(* What Paxos2PC promises about one transaction, seen from the PaxosLogs   *)
(* of its RMs alone: an RM first persists that it is prepared, then what   *)
(* became of the transaction, and no two RMs ever persist different        *)
(* outcomes.  No message, leader or coordinator appears here.              *)
(***************************************************************************)
CONSTANT RMs

VARIABLE outcome   \* what the log of each RM says of the transaction

Outcomes == {"working", "prepared", "committed", "aborted"}

Init == outcome = [r \in RMs |-> "working"]

Persist(r, o) == outcome' = [outcome EXCEPT ![r] = o]

Prepare(r) ==
  /\ outcome[r] = "working"
  /\ Persist(r, "prepared")

(* Committing takes every RM to be prepared. *)
Commit(r) ==
  /\ outcome[r] = "prepared"
  /\ \A q \in RMs : outcome[q] \in {"prepared", "committed"}
  /\ Persist(r, "committed")

(* A prepared RM may only give up while nobody has committed. *)
Abort(r) ==
  /\ outcome[r] = "prepared"
  /\ \A q \in RMs : outcome[q] # "committed"
  /\ Persist(r, "aborted")

Next == \E r \in RMs : Prepare(r) \/ Commit(r) \/ Abort(r)

Spec == Init /\ [][Next]_outcome
=============================================================================
