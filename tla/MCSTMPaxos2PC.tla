---------------------------- MODULE MCSTMPaxos2PC ----------------------------
(* STMPaxos2PC for TLC: two RMs, and a leader change of one of the groups. *)
EXTENDS STMPaxos2PC

CONSTANTS tm_group, r1, r2

MCGroups == {tm_group, r1, r2}
MCRMs == {r1, r2}
MCLinks == ({tm_group} \X MCRMs) \cup (MCRMs \X {tm_group})
OneGroup == {[g \in MCGroups |-> IF g = h THEN 1 ELSE 0] : h \in MCGroups}
=============================================================================
