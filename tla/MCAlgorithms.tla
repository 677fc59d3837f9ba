---------------------------- MODULE MCAlgorithms ----------------------------
(***************************************************************************)
(* The pure algorithms of the data plane over bounded inputs: a WHERE      *)
(* clause grows (KeyRegion), or a history is written (StorageHistory), or  *)
(* a SELECT over a JOIN is evaluated (JoinRead); the other parts keep      *)
(* their initial state.                                                    *)
(***************************************************************************)
EXTENDS KeyRegion, StorageHistory, JoinRead

\* Constants of the model.
MCKeyCols == <<"k1", "k2">>
MCKeyVals == {-1, 0, 1}
MCOtherVals == {Null, Int32(0), Bool(TRUE)}
MCLeaves ==
    {BinaryExpr("Lt", Column("k1"), Value(Int32(1))),
     BinaryExpr("GtEq", Value(Int32(0)), Column("k2")),
     BinaryExpr("Eq", Column("k2"), BinaryExpr("Plus", Value(Int32(1)), Value(Int32(-1)))),
     BinaryExpr("Spaceship", Column("k1"), Column("k2")),
     BinaryExpr("Gt", Column("k1"), Value(Null)),
     BinaryExpr("LtEq", Column("Other"), Column("k1")),
     Column("Other"), Value(Bool(TRUE)), Value(Null)}
MCGrowOps == {"And", "Or", "Eq", "NotEq"}
MCRowKeys == {<<1>>, <<2>>}

----------------------------------------------------------------------------
(* Queries over the tables A, B and C with one column each; "o" is a       *)
(* column of an outer query.                                               *)

a == Column("a")
b == Column("b")
c == Column("c")
Equal(x, y) == BinaryExpr("Eq", x, y)
IsNull(x) == BinaryExpr("Spaceship", x, Value(Null))
Is(x, n) == Equal(x, Value(Int32(n)))
Sub(cols) == Is(Subquery(cols), 1)

JoinTypes == {"Inner", "Left", "Right", "Outer"}
LeafA == JoinLeaf("A", {"a"}, FALSE, << >>)
LeafB(lateral) ==
    JoinLeaf("B", {"b"}, lateral, IF lateral THEN <<BinaryExpr("GtEq", b, a)>> ELSE << >>)
LeafC == JoinLeaf("C", {"c"}, FALSE, << >>)
Join(join_type, on) == JoinInnerNode(join_type, on, << >>)
\* A JOIN B, A JOIN (B JOIN C) and (A JOIN B) JOIN C.
Pair(t, on, lateral) ==
    (<< >> :> Join(t, on)) @@ (<<"L">> :> LeafA) @@ (<<"R">> :> LeafB(lateral))
RightDeep(t, on, u, on2) ==
    (<< >> :> Join(t, on)) @@ (<<"L">> :> LeafA) @@ (<<"R">> :> Join(u, on2))
      @@ (<<"R", "L">> :> LeafB(FALSE)) @@ (<<"R", "R">> :> LeafC)
LeftDeep(t, on, u, on2) ==
    (<< >> :> Join(t, on)) @@ (<<"L">> :> Join(u, on2)) @@ (<<"R">> :> LeafC)
      @@ (<<"L", "L">> :> LeafA) @@ (<<"L", "R">> :> LeafB(FALSE))

Select(tree, w, proj) ==
    [tree |-> tree, where |-> w, proj |-> proj, proj_subquery |-> FALSE, agg |-> "None",
     agg_distinct |-> FALSE, distinct |-> FALSE]

PairOn == {<< >>, <<Equal(a, b)>>, <<Is(a, 0)>>, <<Sub({"b"})>>, <<Is(b, 0), Sub({"a", "b"})>>}
PairWhere == {<< >>, <<Is(b, 1)>>, <<IsNull(b)>>, <<Sub({"a"})>>, <<Equal(Column("o"), a)>>,
              <<Sub({"a", "b"}), IsNull(a)>>, <<Equal(a, b)>>}
UpperOn == {<<Equal(a, c)>>, <<Equal(a, b), Sub({"b"})>>}
LowerOn(x, y) == {<<Equal(Column(x), Column(y))>>, <<Is(Column(x), 0), Sub({x, y})>>}
UpperWhere == {<< >>, <<Is(c, 1)>>, <<IsNull(c), Sub({"b"})>>}

MCJoinQueries ==
    {Select(Pair(t, on, FALSE), w, {"a", "b"}) : t \in JoinTypes, on \in PairOn, w \in PairWhere}
    \cup {[Select(Pair(t, on, TRUE), w, {"b"}) EXCEPT !.agg = op, !.agg_distinct = (op = "Sum")] :
              t \in JoinTypes, on \in PairOn, w \in PairWhere, op \in {"Sum", "Avg"}}
    \cup {Select(RightDeep(t, on, u, on2), w, {"a", "c"}) :
              t \in JoinTypes, u \in JoinTypes, on \in UpperOn, on2 \in LowerOn("b", "c"),
              w \in UpperWhere}
    \cup {[Select(LeftDeep(t, on, u, on2), w, {"a"}) EXCEPT !.agg = op, !.distinct = (op = "None")] :
              t \in JoinTypes, u \in JoinTypes, on \in UpperOn, on2 \in LowerOn("a", "b"),
              w \in UpperWhere, op \in {"None", "Count"}}
    \cup {[Select(Pair("Inner", << >>, FALSE), << >>, {"a"}) EXCEPT !.proj_subquery = TRUE],
          Select(<< >> :> LeafA, <<Equal(Column("o"), a)>>, {"a"})}

View(col, counts) ==
    LET Val(n) == IF n = 9 THEN Null ELSE Int32(n)
    IN  [r \in {[d \in {col} |-> Val(n)] : n \in DOMAIN counts} |->
            counts[CHOOSE n \in DOMAIN counts : r[col] = Val(n)]]
MCJoinTables ==
    {[x \in {"A", "B", "C"} |->
         CASE x = "A" -> View("a", ta) [] x = "B" -> View("b", tb)
           [] x = "C" -> View("c", (0 :> 1) @@ (1 :> 1))] :
     ta \in {(0 :> 2) @@ (1 :> 1), (9 :> 1) @@ (0 :> 1), << >>},
     tb \in {(0 :> 1) @@ (1 :> 2), 1 :> 1}}
MCJoinContexts ==
    {[cols |-> {"o"}, rows |-> rows] :
        rows \in {<<"o" :> Int32(0)>>, <<"o" :> Int32(1), "o" :> Int32(0)>>}}
MCFirstKeyCols == {"b", "c"}

----------------------------------------------------------------------------

\* No SELECT is evaluated while the other parts move.
NoJoin ==
    /\ join_query = << >> /\ join_tables = << >> /\ join_context = << >> /\ join_plan = << >>
    /\ join_es = [phase |-> "Error", map |-> << >>, pending |-> {}, result |-> << >>]

Init == KRInit /\ SHInit /\ (NoJoin \/ (where = Value(Null) /\ JnInit))
Next == \/ NoJoin /\ storage = << >> /\ stages = [t \in Ts |-> << >>] /\ altered = {}
              /\ KRNext /\ UNCHANGED <<sh_vars, jn_vars>>
        \/ NoJoin /\ grown = 0 /\ where = Value(Null) /\ SHNext /\ UNCHANGED <<kr_vars, jn_vars>>
        \/ JnNext /\ UNCHANGED <<kr_vars, sh_vars>>
vars == <<kr_vars, sh_vars, jn_vars>>
Spec == Init /\ [][Next]_vars

\* SELECTs over JOINs only.
JoinSpec == /\ KRInit /\ SHInit /\ where = Value(Null) /\ JnInit
            /\ [][JnNext /\ UNCHANGED <<kr_vars, sh_vars>>]_vars
=============================================================================
