------------------------------ MODULE MCTablet ------------------------------
(* Instances of Tablet: rows 1 and 2, of which a split moves row 2.        *)
EXTENDS Tablet, TLC

Stage(rows, cols, writes) == [rows |-> rows, cols |-> cols, writes |-> writes]
QueryPlan(gen, cols, present, stages) ==
    [gen |-> gen, cols |-> cols, present |-> present, stages |-> stages]

\* w1 updates row 1, then inserts into row 2; w2 updates both rows; w3 does so
\* too, planned after the split; r1 reads a of row 1; r2 reads row 2 with SELECT *.
MCPlan ==
    "w1" :> QueryPlan(0, {"a"}, {"a"}, <<Stage({1}, {"a"}, {"a"}), Stage({2}, {"a"}, {"a", Presence})>>)
    @@ "w2" :> QueryPlan(0, {"a"}, {"a"}, <<Stage({1, 2}, {"a"}, {"a"})>>)
    @@ "r1" :> QueryPlan(0, {"a"}, {"a"}, <<Stage({1}, {"a"}, {})>>)
    @@ "w3" :> QueryPlan(1, {}, {}, <<Stage({1, 2}, {"a"}, {"a"})>>)
    @@ "r2" :> QueryPlan(0, {AllCols}, {"a"}, <<Stage({2}, {"a"}, {})>>)
\* Writes below, at and above the reads.
MCTimestamps == [q \in {"w1", "w2", "w3", "r1", "r2"} |->
    IF q \in {"r1", "r2"} THEN {2} ELSE {1, 2, 3}]
Scenario(queries, ddls, changes) == [queries |-> queries, ddls |-> ddls, changes |-> changes]
MCScenarios ==
    {Scenario({"w1", "w2", "r1"}, {}, 0)}
    \cup {Scenario({"w1", "r2"}, {ddl}, 1) : ddl \in {"Alter", "Drop", "Split"}}
    \cup {Scenario({"w2", "r1"}, {ddl}, 1) : ddl \in {"Alter", "Split"}}
    \cup {Scenario({"w3", "r1"}, {"Split"}, 1)}
MCLostStage == {Scenario({"w1", "r1"}, {}, 0)}
MCWaitsFor == [q \in {"w1", "w2", "w3", "r1", "r2"} |-> IF q = "w2" THEN {"r1"} ELSE {}]
=============================================================================
