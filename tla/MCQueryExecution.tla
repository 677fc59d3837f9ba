-------------------------- MODULE MCQueryExecution --------------------------
(* Two Tablets, two plans.                                                 *)
EXTENDS QueryExecution

Read(rms, ms_read) == [rms |-> rms, ms |-> ms_read, write |-> FALSE, subs |-> << >>]
Write(rms, subs) == [rms |-> rms, ms |-> TRUE, write |-> TRUE, subs |-> subs]

\* A write at both Tablets, then one whose subqueries read a TransTable of
\* the Coord and, in parallel, what was written at the other Tablet.
TwoWrites ==
    << <<Write({"T1", "T2"}, << >>)>>,
       <<Write({"T1"}, << <<Read({"Coord"}, FALSE), Read({"T2"}, TRUE)>> >>)>> >>

\* A Join of both Tablets, a TransTable read with a subquery, then a write.
JoinThenWrite ==
    << <<Read({"T1"}, FALSE), Read({"T2"}, FALSE)>>,
       <<[Read({"Coord"}, FALSE) EXCEPT !.subs = << <<Read({"T1"}, FALSE)>> >>]>>,
       <<Write({"T2"}, << >>)>> >>

MCPlans == {TwoWrites, JoinThenWrite}
=============================================================================
