------------------------------ MODULE JoinRead ------------------------------
(***************************************************************************)
(* A SELECT over a tree of JOINs: how query_converter.rs pushes the        *)
(* conjunctions of ON and WHERE down the tree, and how JoinReadES          *)
(* (join_read_es.rs) evaluates the tree bottom up.  The leaves and the     *)
(* subqueries of the conjunctions are GRQuerys whose answers arrive in any *)
(* order.  A GRQuery is sent once for many context rows, without           *)
(* duplicates, and its answers are told apart by their position only: the  *)
(* pass that uses the answers must meet the context rows in the order of   *)
(* the pass that sent them.                                                *)
(*                                                                         *)
(* A JoinNodeId is a sequence of "L" and "R".  Every leaf has one alias,   *)
(* so columns have distinct names and a row is a function from column      *)
(* names to values.  A TableView is a function from rows to counts.        *)
(***************************************************************************)
EXTENDS Expression, SequencesExt

CONSTANTS
    JoinQueries,     \* records [tree, where, proj, proj_subquery, agg, ...]
    JoinTables,      \* contents of the leaves' tables: [alias -> TableView]
    JoinContexts,    \* Contexts of the JoinSelect: records [cols, rows]
    FirstKeyCols     \* the columns that are the first key column of a Table

VARIABLES
    join_query,      \* the query as it was written
    join_tables,
    join_context,
    join_plan,       \* [tree, graph] that JoinReadES gets from the planner
    join_es          \* JoinReadES: [phase, map, pending, result]

jn_vars == <<join_query, join_tables, join_context, join_plan, join_es>>

----------------------------------------------------------------------------
(* Queries.  A conjunction is a comparison of two of: a column, a value, a *)
(* subquery over some external columns.                                    *)

Subquery(cols) == [tag |-> "Subquery", cols |-> cols]

JoinLeaf(alias, cols, lateral, where) ==
    [tag |-> "JoinLeaf", alias |-> alias, cols |-> cols, lateral |-> lateral, where |-> where]
JoinInnerNode(join_type, weak, strong) ==
    [tag |-> "JoinInnerNode", join_type |-> join_type, weak |-> weak, strong |-> strong]

non_left(join_type) == join_type \in {"Right", "Inner"}
non_right(join_type) == join_type \in {"Left", "Inner"}

AtomCols(a) ==
    CASE a.tag = "ColumnRef" -> {a.col} [] a.tag = "Subquery" -> a.cols [] OTHER -> {}
ExprCols(e) == AtomCols(e.left) \cup AtomCols(e.right)
ConjCols(conjunctions) == UNION {ExprCols(conjunctions[i]) : i \in DOMAIN conjunctions}
gr_queries(conjunctions) ==
    LET Subs(e) == SelectSeq(<<e.left, e.right>>, LAMBDA a : a.tag = "Subquery")
    IN  FlattenSeq([i \in DOMAIN conjunctions |-> Subs(conjunctions[i])])

lookup_join_node(tree, id) == tree[id]
IsInner(node) == node.tag = "JoinInnerNode"
Below(tree, id) == {p \in DOMAIN tree : IsPrefix(id, p)}

\* The columns of the leaves under a node (their names stand for the JLNs).
collect_jlns(tree, id) ==
    UNION {tree[p].cols : p \in {q \in Below(tree, id) : ~IsInner(tree[q])}}

Conjunctions(node) == IF IsInner(node) THEN node.weak \o node.strong ELSE node.where
ReferredCols(tree, id) == UNION {ConjCols(Conjunctions(tree[p])) : p \in Below(tree, id)}

\* compute_children_general of a JoinNode: the columns it takes from outside.
ExternalCols(tree, id) == ReferredCols(tree, id) \ collect_jlns(tree, id)

----------------------------------------------------------------------------
(* Planning: conjunctions move down the tree (optimize_all_levels).  The   *)
(* graph maps a node to the sibling that must be evaluated before it.      *)

does_expr_use_any_jlns(e, jlns) == ExprCols(e) \cap jlns # {}

push_expr(tree, id, e) ==
    [tree EXCEPT ![id] = IF IsInner(@) THEN [@ EXCEPT !.strong = Append(@, e)]
                         ELSE [@ EXCEPT !.where = Append(@, e)]]

\* A LATERAL leaf is a right child, and not of a RIGHT JOIN.
validate_lateral(tree) ==
    \A p \in DOMAIN tree : ~IsInner(tree[p]) /\ tree[p].lateral =>
        p # << >> /\ Last(p) = "R" /\ tree[Front(p)].join_type # "Right"

add_dependencies_for_lateral_joins(tree) ==
    LET Lateral == {p \in DOMAIN tree : IsInner(tree[p])
                       /\ ~IsInner(tree[Append(p, "R")]) /\ tree[Append(p, "R")].lateral}
    IN  [q \in {Append(p, "R") : p \in Lateral} |-> Append(Front(q), "L")]

OtherSide(side) == IF side = "L" THEN "R" ELSE "L"

\* Mutant: a conjunction goes below any join but a full outer one.
try_push_expr_any(plan, id, e, is_strong, side) ==
    LET ok == plan.tree[id].join_type # "Outer"
                /\ ~does_expr_use_any_jlns(e, collect_jlns(plan.tree, Append(id, OtherSide(side))))
    IN  [ok |-> ok,
         plan |-> IF ok THEN [plan EXCEPT !.tree = push_expr(plan.tree, Append(id, side), e)]
                  ELSE plan]

\* A weak conjunction that needs the other side makes the side depend on it;
\* a strong one is pushed whatever it needs.
try_push_expr(plan, id, e, is_strong, side) ==
    LET join_type == plan.tree[id].join_type
        this == Append(id, side)
        other == Append(id, OtherSide(side))
        outer_ok == IF (side = "R") = is_strong THEN non_left(join_type) ELSE non_right(join_type)
        needs == ~is_strong /\ does_expr_use_any_jlns(e, collect_jlns(plan.tree, other))
        ok == outer_ok /\ ~(needs /\ other \in DOMAIN plan.graph)
    IN  [ok |-> ok,
         plan |-> IF ~ok THEN plan
                  ELSE [tree |-> push_expr(plan.tree, this, e),
                        graph |-> IF needs THEN (this :> other) @@ plan.graph ELSE plan.graph]]

\* The sides that a rule tries for a conjunction, one after the other.
rule_1_sides(tree, id, e) ==
    CASE ~does_expr_use_any_jlns(e, collect_jlns(tree, Append(id, "L"))) -> <<"R">>
      [] ~does_expr_use_any_jlns(e, collect_jlns(tree, Append(id, "R"))) -> <<"L">>
      [] OTHER -> << >>
rule_2_sides(tree, id, e) ==
    LET Side(a) ==
            IF a.tag # "ColumnRef" \/ AtomCols(a) \cap FirstKeyCols = {} THEN << >>
            ELSE IF AtomCols(a) \subseteq collect_jlns(tree, Append(id, "L")) THEN <<"L">>
            ELSE IF AtomCols(a) \subseteq collect_jlns(tree, Append(id, "R")) THEN <<"R">>
            ELSE << >>
    IN  IF e.op = "Eq" THEN Side(e.left) \o Side(e.right) ELSE << >>

apply_rule(rule, plan, id, is_strong) ==
    LET Sides(e) == IF rule = 1 THEN rule_1_sides(plan.tree, id, e)
                    ELSE rule_2_sides(plan.tree, id, e)
        Try(acc, side, e) ==
            LET t == try_push_expr(acc.plan, id, e, is_strong, side)
            IN  [plan |-> t.plan, pushed |-> acc.pushed \/ t.ok]
        One(acc, e) ==
            LET t == FoldLeft(LAMBDA a, side : Try(a, side, e),
                              [plan |-> acc.plan, pushed |-> FALSE], Sides(e))
            IN  [plan |-> t.plan, kept |-> IF t.pushed THEN acc.kept ELSE Append(acc.kept, e)]
        node == plan.tree[id]
        all == FoldLeft(One, [plan |-> plan, kept |-> << >>],
                        IF is_strong THEN node.strong ELSE node.weak)
    IN  [all.plan EXCEPT !.tree[id] = IF is_strong THEN [@ EXCEPT !.strong = all.kept]
                                      ELSE [@ EXCEPT !.weak = all.kept]]

optimize_top_level_once(plan, id) ==
    IF ~IsInner(plan.tree[id]) THEN plan
    ELSE FoldLeft(LAMBDA p, step : apply_rule(step[1], p, id, step[2]), plan,
                  <<<<1, TRUE>>, <<1, FALSE>>, <<2, TRUE>>, <<2, FALSE>>>>)

RECURSIVE optimize_all_levels_once(_, _)
optimize_all_levels_once(plan, id) ==
    FoldLeft(LAMBDA p, side : optimize_all_levels_once(p, Append(id, side)),
             optimize_top_level_once(plan, id),
             IF IsInner(plan.tree[id]) THEN <<"L", "R">> ELSE << >>)

RECURSIVE optimize_all_levels(_)
optimize_all_levels(plan) ==
    LET next == optimize_all_levels_once(plan, << >>)
    IN  IF next = plan THEN plan ELSE optimize_all_levels(next)

\* convert of a Select: the WHERE clause becomes the strong conjunctions of the
\* root, or joins the clause of the leaf that is the root.
flatten_select(query) ==
    [tree |-> FoldLeft(LAMBDA tree, e : push_expr(tree, << >>, e), query.tree, query.where),
     graph |-> add_dependencies_for_lateral_joins(query.tree)]

----------------------------------------------------------------------------
(* Rows, TableViews and Contexts.                                          *)

NoRow == [c \in {} |-> Null]
make_empty_row(cols) == [c \in cols |-> Null]
RowsOf(view) == DOMAIN view

\* BTreeMap yields the rows in one order, whatever it is.
Digit(x) == IF x = Null THEN 0 ELSE x.v + 2
Rank(cols, row) == FoldSet(LAMBDA c, n : 8 * n + Digit(row[c]), 0, cols)
RowSeq(view) ==
    LET R == RowsOf(view)
        Before(r) == {q \in R : Rank(DOMAIN q, q) < Rank(DOMAIN r, r)}
    IN  [i \in 1..Cardinality(R) |-> CHOOSE r \in R : Cardinality(Before(r)) = i - 1]

\* add_row_multi of each element [row, count] of a sequence.
TableViewOf(seq) ==
    LET Total(r) == FoldLeft(LAMBDA n, x : IF x.row = r THEN n + x.count ELSE n, 0, seq)
    IN  [r \in {seq[i].row : i \in DOMAIN seq} |-> Total(r)]

\* A column is looked up in the Context first, then on the two sides.
mk_context_row(cols, parent, first, second) ==
    [c \in cols |-> (parent @@ first @@ second)[c]]
make_parent_row(first, second, schema) == [c \in schema |-> (first @@ second)[c]]

\* ContextConstructorSimpleOnce: rows get an index when first seen.
Distinct(seq) == FoldLeft(LAMBDA d, r : IF Contains(d, r) THEN d ELSE Append(d, r), << >>, seq)
IndexIn(seq, r) == CHOOSE i \in 1..Len(seq) : seq[i] = r

\* extract_subquery_vals and construct_cexpr: the n-th subquery gets vals[n].
evaluate_conjunctions(conjunctions, row, vals) ==
    LET Before(i) == Len(gr_queries(SubSeq(conjunctions, 1, i - 1)))
        Closed(i) ==
            LET e == conjunctions[i]
                l == IF e.left.tag = "Subquery" THEN Value(vals[Before(i) + 1]) ELSE e.left
                r == IF e.right.tag # "Subquery" THEN e.right
                     ELSE Value(vals[Before(i) + (IF e.left.tag = "Subquery" THEN 2 ELSE 1)])
            IN  BinaryExpr(e.op, l, r)
    IN  \A i \in DOMAIN conjunctions : is_true(evaluate_c_expr(Closed(i), row))

----------------------------------------------------------------------------
(* Evaluation of a JoinInnerNode.  A pass visits pairs of rows; n holds    *)
(* what all passes share, Second(k, i) is the TableView that is paired     *)
(* with the k-th row of the First Side, which belongs to context row i.    *)

get_for_parent_context_row(data, i) == data.views[data.map[i]]

\* The rows of the First Side, context row by context row.
FirstRows(first, context) ==
    LET Of(i, view) == LET s == RowSeq(view)
                       IN  [j \in DOMAIN s |-> [i |-> i, row |-> s[j], count |-> view[s[j]]]]
    IN  FlattenSeq([i \in DOMAIN context.rows |-> Of(i, get_for_parent_context_row(first, i))])

\* The Second Side by second_side_count if it depends on the First Side.
SecondSide(n, k, i) == get_for_parent_context_row(n.second, IF n.dependent THEN k ELSE i)

\* ... except in final_join_subqueries_dependent, which passes i there.
SecondSideFinal(n, k, i) == get_for_parent_context_row(n.second, i)

\* The pass in which the strong subqueries' Contexts are made.
FinalView(n, k, i) == IF n.dependent THEN SecondSideFinal(n, k, i) ELSE SecondSide(n, k, i)

\* f is the k-th row of the First Side.
Visit(k, f, second, second_count) ==
    [k |-> k, i |-> f.i, first |-> f.row, second |-> second, count |-> f.count * second_count]

\* The pairs that a pass visits.
PairVisits(k, f, view) ==
    LET s == RowSeq(view) IN [j \in DOMAIN s |-> Visit(k, f, s[j], view[s[j]])]
WeakVisits(n, final) ==
    LET Of(k, f) ==
            PairVisits(k, f, IF final THEN FinalView(n, k, f.i) ELSE SecondSide(n, k, f.i))
    IN  FlattenSeq([k \in DOMAIN n.first_rows |-> Of(k, n.first_rows[k])])

ContextRowOf(n, q, v) == mk_context_row(q.cols, n.context.rows[v.i], v.first, v.second)
ContextRows(n, q, visits) == Distinct([x \in DOMAIN visits |-> ContextRowOf(n, q, visits[x])])

\* SubqueryExtractorSimple::get_results in a pass that makes these visits:
\* unwrap fails if there are fewer answers.
ExtractorFits(n, queries, visits, results) ==
    \A x \in DOMAIN queries : Len(ContextRows(n, queries[x], visits)) <= Len(results[x])
get_results(n, queries, visits, results, v) ==
    [x \in DOMAIN queries |->
        results[x][IndexIn(ContextRows(n, queries[x], visits), ContextRowOf(n, queries[x], v))]]

Holds(n, conjunctions, visits, results, v) ==
    evaluate_conjunctions(conjunctions, n.context.rows[v.i] @@ v.first @@ v.second,
                          get_results(n, gr_queries(conjunctions), visits, results, v))

\* kept are the pairs that the weak conjunctions do not reject.  Rows are
\* made up for rows without a partner, in the order of the loops.
AddOuterRows(n, kept) ==
    LET Of(k) ==
            LET pairs == SelectSeq(kept, LAMBDA v : v.k = k)
            IN  IF pairs = << >> /\ n.first_outer
                THEN <<Visit(k, n.first_rows[k], make_empty_row(n.second_schema), 1)>>
                ELSE pairs
        NoFirst(i) == [i |-> i, row |-> make_empty_row(n.first_schema), count |-> 1]
        Readded(i, view) ==
            LET rows == SelectSeq(RowSeq(view), LAMBDA row :
                            \A x \in DOMAIN kept : kept[x].i = i => kept[x].second # row)
            IN  [j \in DOMAIN rows |-> Visit(0, NoFirst(i), rows[j], view[rows[j]])]
        OfContextRow(i) ==
            FlattenSeq([k \in DOMAIN n.first_rows |->
                           IF n.first_rows[k].i = i THEN Of(k) ELSE << >>])
              \o (IF n.second_outer THEN Readded(i, get_for_parent_context_row(n.second, i))
                  ELSE << >>)
    IN  FlattenSeq([i \in DOMAIN n.context.rows |-> OfContextRow(i)])

StrongVisits(n, weak_visits, weak_results) ==
    AddOuterRows(n, SelectSeq(weak_visits, LAMBDA v :
                        Holds(n, n.inner.weak, weak_visits, weak_results, v)))

\* One TableView per context row.
OutputViews(n, visits, strong_results) ==
    LET kept == SelectSeq(visits, LAMBDA v : Holds(n, n.inner.strong, visits, strong_results, v))
        Of(i) == SelectSeq(kept, LAMBDA v : v.i = i)
        Rows(s) == [x \in DOMAIN s |->
            [row |-> make_parent_row(s[x].first, s[x].second, n.schema), count |-> s[x].count]]
    IN  [i \in DOMAIN n.context.rows |-> TableViewOf(Rows(Of(i)))]

finish_join_independent(n, weak_results, strong_results) ==
    OutputViews(n, StrongVisits(n, WeakVisits(n, FALSE), weak_results), strong_results)

\* The Second Side has no rows of its own to add again.
finish_join_dependent(n, weak_results, strong_results) ==
    finish_join_independent([n EXCEPT !.second_outer = FALSE], weak_results, strong_results)

----------------------------------------------------------------------------
(* JoinReadES.  es.map holds the JoinNodeEvalData of the nodes that are    *)
(* being evaluated: [context, map, state, weak, got, views], where got     *)
(* holds the answers of the subqueries that wait for each other.  A        *)
(* pending query is [id, n, context, query]: the n-th of its node.         *)

plan_tree == join_plan.tree
plan_graph == join_plan.graph
Panicked(es) == [es EXCEPT !.phase = "Panicked", !.pending = {}]

\* Columns that each node returns (build_join_node_schema and, for leaves,
\* convert_schema_to_vec).
RECURSIVE Schema(_)
Schema(id) ==
    LET parent == Front(id)
        inner == plan_tree[parent]
        left_depends == Append(parent, "L") \in DOMAIN plan_graph
        sibling == Append(parent, OtherSide(Last(id)))
        lateral == IF left_depends = (Last(id) = "R") THEN ReferredCols(plan_tree, sibling) ELSE {}
    IN  IF ~IsInner(plan_tree[id]) THEN plan_tree[id].cols
        ELSE IF id = << >> THEN join_query.proj
        ELSE collect_jlns(plan_tree, id)
               \cap (Schema(parent) \cup ConjCols(Conjunctions(inner)) \cup lateral)

\* initialize_contexts_general_once finds every column that is needed.
ColumnsKnown(cols, known) == cols \subseteq known

EvalData(context, map) ==
    [context |-> context, map |-> map, state |-> "Waiting", weak |-> << >>, got |-> << >>,
     views |-> << >>]

\* The Context of a node, given the rows it is made from: [parent, row].
NodeData(id, sources) ==
    LET cols == ExternalCols(plan_tree, id)
        all == [x \in DOMAIN sources |->
                   mk_context_row(cols, sources[x].parent, sources[x].row, NoRow)]
        rows == Distinct(all)
    IN  EvalData([cols |-> cols, rows |-> rows], [x \in DOMAIN all |-> IndexIn(rows, all[x])])

build_join_node_context(context, id) ==
    NodeData(id, [x \in DOMAIN context.rows |-> [parent |-> context.rows[x], row |-> NoRow]])

\* The nodes under id that need no sibling start, too.
RECURSIVE start_evaluating_join(_, _, _)
start_evaluating_join(es, id, data) ==
    LET here == [es EXCEPT !.map = (id :> data) @@ @]
        Child(acc, side) ==
            LET child == Append(id, side)
            IN  IF child \in DOMAIN plan_graph \/ acc.phase = "Panicked" THEN acc
                ELSE IF ~ColumnsKnown(ExternalCols(plan_tree, child), data.context.cols)
                THEN Panicked(acc)
                ELSE start_evaluating_join(acc, child, build_join_node_context(data.context, child))
    IN  IF IsInner(plan_tree[id]) THEN FoldLeft(Child, here, <<"L", "R">>)
        ELSE [here EXCEPT !.pending = @ \cup {[id |-> id, n |-> 0, context |-> data.context,
                                              query |-> plan_tree[id]]}]

\* What the passes over an inner node share.
NodeInput(es, id) ==
    LET inner == plan_tree[id]
        left == Append(id, "L")
        right == Append(id, "R")
        dependent == {left, right} \cap DOMAIN plan_graph # {}
        left_first == CASE inner.join_type = "Inner" -> ~dependent \/ right \in DOMAIN plan_graph
                        [] inner.join_type = "Right" -> FALSE
                        [] OTHER -> TRUE
        first == IF left_first THEN left ELSE right
        second == IF left_first THEN right ELSE left
    IN  [inner |-> inner, context |-> es.map[id].context, dependent |-> dependent,
         first_rows |-> FirstRows(es.map[first], es.map[id].context), second |-> es.map[second],
         first_schema |-> Schema(first), second_schema |-> Schema(second), schema |-> Schema(id),
         first_outer |-> inner.join_type # "Inner", second_outer |-> inner.join_type = "Outer"]

\* mk_subquery_data and mk_gr_queries, and the move to the next ResultState.
SendSubqueries(es, id, n, state, weak, queries, visits) ==
    LET Context(q) == [cols |-> q.cols, rows |-> ContextRows(n, q, visits)]
    IN  [es EXCEPT !.map[id].state = state, !.map[id].weak = weak,
                   !.map[id].got = [x \in DOMAIN queries |-> << >>],
                   !.pending = @ \cup {[id |-> id, n |-> x, context |-> Context(queries[x]),
                                        query |-> queries[x]] : x \in DOMAIN queries}]

\* The passes have no branch for an OUTER JOIN with a dependency.
OuterDependency(n) == n.dependent /\ n.inner.join_type = "Outer"

\* n is NodeInput(es, id) in the steps of an inner node.
advance_to_initial_subqueries(es, id, n) ==
    IF OuterDependency(n) THEN Panicked(es)
    ELSE SendSubqueries(es, id, n, "WaitingSubqueriesInitial", << >>, gr_queries(n.inner.weak),
                        WeakVisits(n, FALSE))

advance_to_final_subqueries(es, id, n, weak_results) ==
    LET found == \A k \in DOMAIN n.first_rows :
                     n.dependent => n.first_rows[k].i \in DOMAIN n.second.map
    IN  IF \/ OuterDependency(n)
           \/ ~found
           \/ ~ExtractorFits(n, gr_queries(n.inner.weak), WeakVisits(n, TRUE), weak_results)
        THEN Panicked(es)
        ELSE SendSubqueries(es, id, n, "WaitingSubqueriesFinal", weak_results,
                            gr_queries(n.inner.strong),
                            StrongVisits(n, WeakVisits(n, TRUE), weak_results))

\* perform_aggregation for the projected rows of one context row: at most
\* one SelectItem if it is an aggregate.
perform_aggregation(query, view) ==
    LET Once(v) == [r \in DOMAIN v |-> 1]
        Val(r) == r[CHOOSE c \in query.proj : TRUE]
        rows == {r \in DOMAIN view : Val(r) # Null}
        Count(r) == IF query.agg_distinct THEN 1 ELSE view[r]
        count == MapThenSumSet(Count, rows)
        sum == MapThenSumSet(LAMBDA r : Val(r).v * Count(r), rows)
        val == CASE query.agg = "Count" -> Int32(count)
                 [] rows = {} -> Null
                 [] query.agg = "Sum" -> Int32(sum)
                 [] query.agg = "Avg" -> Arithmetic("Divide", Int32(sum).v, count)
    IN  IF query.agg # "None" THEN [c \in query.proj |-> val] :> 1
        ELSE IF query.distinct THEN Once(view) ELSE view

\* The projection, one answer per context row of the JoinSelect.
finish_join_select(es, data) ==
    LET Project(view) ==
            LET s == RowSeq(view)
            IN  TableViewOf([x \in DOMAIN s |->
                    [row |-> [c \in join_query.proj |-> s[x][c]], count |-> view[s[x]]]])
        Answer(i) == perform_aggregation(join_query, Project(get_for_parent_context_row(data, i)))
    IN  [es EXCEPT !.phase = "Done", !.result = [i \in DOMAIN join_context.rows |-> Answer(i)]]

RECURSIVE join_node_finished(_, _), finish_join_node(_, _, _, _, _)

finish_join_node(es, id, n, weak_results, strong_results) ==
    LET fits == /\ ExtractorFits(n, gr_queries(n.inner.weak), WeakVisits(n, FALSE), weak_results)
                /\ ExtractorFits(n, gr_queries(n.inner.strong),
                                 StrongVisits(n, WeakVisits(n, FALSE), weak_results),
                                 strong_results)
        views == IF n.dependent THEN finish_join_dependent(n, weak_results, strong_results)
                 ELSE finish_join_independent(n, weak_results, strong_results)
        rest == [p \in DOMAIN es.map \ {Append(id, "L"), Append(id, "R")} |-> es.map[p]]
    IN  IF OuterDependency(n) \/ ~fits THEN Panicked(es)
        ELSE join_node_finished([es EXCEPT !.map = [rest EXCEPT ![id].state = "Finished",
                                                                ![id].views = views]], id)

\* Mutant: nobody starts the sibling.
start_sibling_never(es, id, sibling) == es

\* The sibling depends on id: its Context is made from the rows of id.
start_sibling(es, id, sibling) ==
    LET context == es.map[Front(id)].context
        views == es.map[id]
        Of(i) == LET s == RowSeq(get_for_parent_context_row(views, i))
                 IN  [j \in DOMAIN s |-> [parent |-> context.rows[i], row |-> s[j]]]
        sources == FlattenSeq([i \in DOMAIN context.rows |-> Of(i)])
    IN  IF ~ColumnsKnown(ExternalCols(plan_tree, sibling), context.cols \cup Schema(id))
        THEN Panicked(es)
        ELSE start_evaluating_join(es, sibling, NodeData(sibling, sources))

\* The ResultState of the root is taken before the Contexts of subqueries in
\* the SelectItems are made from it.
root_finished(es, id) ==
    IF join_query.proj_subquery THEN Panicked(es) ELSE finish_join_select(es, es.map[id])

join_node_finished(es, id) ==
    LET parent == Front(id)
        sibling == Append(parent, OtherSide(Last(id)))
        inner == plan_tree[parent]
    IN  IF id = << >> THEN root_finished(es, id)
        ELSE IF sibling \notin DOMAIN es.map THEN start_sibling(es, id, sibling)
        ELSE IF es.map[sibling].state # "Finished" THEN es
        ELSE IF gr_queries(inner.weak) # << >>
        THEN advance_to_initial_subqueries(es, parent, NodeInput(es, parent))
        ELSE IF gr_queries(inner.strong) # << >>
        THEN advance_to_final_subqueries(es, parent, NodeInput(es, parent), << >>)
        ELSE finish_join_node(es, parent, NodeInput(es, parent), << >>, << >>)

----------------------------------------------------------------------------
(* The GRQuerys: external to JoinReadES, modelled by what they return for  *)
(* each row of their Context.                                              *)

\* A scalar subquery, such as COUNT(x) FROM t WHERE t.x = c over t = {0}.
SubqueryVal(context_row) == Int32(IF \A c \in DOMAIN context_row : context_row[c] = Int32(0)
                                  THEN 1 ELSE 0)

\* Conjunctions with their subqueries evaluated in place.
RefTrue(conjunctions, env) ==
    LET Val(a) == IF a.tag = "Subquery" THEN SubqueryVal([c \in a.cols |-> env[c]])
                  ELSE evaluate_c_expr(a, env)
    IN  \A i \in DOMAIN conjunctions :
            is_true(evaluate_binary_op(conjunctions[i].op, Val(conjunctions[i].left),
                                       Val(conjunctions[i].right)))

LeafView(leaf, context_row) ==
    LET view == join_tables[leaf.alias]
    IN  [r \in {r \in RowsOf(view) : RefTrue(leaf.where, context_row @@ r)} |-> view[r]]

QueryResult(q) ==
    [x \in DOMAIN q.context.rows |->
        IF q.n = 0 THEN LeafView(q.query, q.context.rows[x]) ELSE SubqueryVal(q.context.rows[x])]

----------------------------------------------------------------------------
(* Steps.                                                                  *)

JnInit == /\ join_query \in JoinQueries
          /\ join_tables \in JoinTables
          /\ join_context \in JoinContexts
          /\ join_plan = << >>
          /\ join_es = [phase |-> "Planning", map |-> << >>, pending |-> {}, result |-> << >>]

\* The planner.
convert_to_msquery ==
    /\ join_es.phase = "Planning"
    /\ \/ /\ validate_lateral(join_query.tree)
          /\ join_plan' = optimize_all_levels(flatten_select(join_query))
          /\ join_es' = [join_es EXCEPT !.phase = "Start"]
       \/ /\ ~validate_lateral(join_query.tree)
          /\ join_es' = [join_es EXCEPT !.phase = "Error"]
          /\ UNCHANGED join_plan
    /\ UNCHANGED <<join_query, join_tables, join_context>>

start ==
    /\ join_es.phase = "Start"
    /\ LET es == [join_es EXCEPT !.phase = "JoinEvaluating"]
       IN  join_es' = IF ColumnsKnown(ExternalCols(plan_tree, << >>), join_context.cols)
                      THEN start_evaluating_join(es, << >>,
                                                 build_join_node_context(join_context, << >>))
                      ELSE Panicked(es)
    /\ UNCHANGED <<join_query, join_tables, join_context, join_plan>>

\* The last answer of a stage.
StageDone(es, id, n, data, got) ==
    IF data.state = "WaitingSubqueriesFinal" THEN finish_join_node(es, id, n, data.weak, got)
    ELSE IF gr_queries(n.inner.strong) # << >> THEN advance_to_final_subqueries(es, id, n, got)
    ELSE finish_join_node(es, id, n, got, << >>)

\* The answer of a leaf or of a subquery.
Answered(es, q, data, result) ==
    LET got == [data.got EXCEPT ![q.n] = result]
        stored == [es EXCEPT !.map[q.id].got = got]
    IN  IF data.state = "Waiting"
        THEN join_node_finished([es EXCEPT !.map[q.id].state = "Finished",
                                           !.map[q.id].views = result], q.id)
        ELSE IF \E p \in es.pending : p.id = q.id THEN stored
        ELSE StageDone(stored, q.id, NodeInput(stored, q.id), data, got)

handle_subquery_done ==
    \E q \in join_es.pending :
        /\ join_es' = Answered([join_es EXCEPT !.pending = @ \ {q}], q, join_es.map[q.id],
                               QueryResult(q))
        /\ UNCHANGED <<join_query, join_tables, join_context, join_plan>>

handle_internal_query_error ==
    /\ join_es.pending # {}
    /\ join_es' = [join_es EXCEPT !.phase = "Error", !.map = << >>, !.pending = {}]
    /\ UNCHANGED <<join_query, join_tables, join_context, join_plan>>

JnNext == \/ convert_to_msquery \/ start \/ handle_subquery_done \/ handle_internal_query_error

----------------------------------------------------------------------------
(* Reference: the query as it was written, row by row.                     *)

BagOf(S) ==
    [r \in {x.row : x \in S} |-> MapThenSumSet(LAMBDA x : x.count, {x \in S : x.row = r})]

RECURSIVE RefRows(_, _)
RefRows(id, env) ==
    LET node == join_query.tree[id]
        table == join_tables[node.alias]
        left == RefRows(Append(id, "L"), env)
        Right(l) == RefRows(Append(id, "R"), env @@ l)
        right == Right(NoRow)
        Matched(l, r) == RefTrue(node.weak, env @@ l @@ r)
        Empty(side) == make_empty_row(collect_jlns(join_query.tree, Append(id, side)))
        Joined == UNION {{[src |-> <<l, r>>, row |-> l @@ r, count |-> left[l] * Right(l)[r]] :
                             r \in {r \in RowsOf(Right(l)) : Matched(l, r)}} : l \in RowsOf(left)}
        LeftOnly == {[src |-> <<l>>, row |-> l @@ Empty("R"), count |-> left[l]] :
                        l \in {l \in RowsOf(left) : \A r \in RowsOf(Right(l)) : ~Matched(l, r)}}
        RightOnly == {[src |-> <<"R", r>>, row |-> Empty("L") @@ r, count |-> right[r]] :
                        r \in {r \in RowsOf(right) : \A l \in RowsOf(left) : ~Matched(l, r)}}
    IN  IF ~IsInner(node)
        THEN [r \in {r \in RowsOf(table) : RefTrue(node.where, env @@ r)} |-> table[r]]
        ELSE BagOf(Joined \cup (IF node.join_type \in {"Left", "Outer"} THEN LeftOnly ELSE {})
                          \cup (IF node.join_type \in {"Right", "Outer"} THEN RightOnly ELSE {}))

Expected(env) ==
    LET all == RefRows(<< >>, env)
        rows == {r \in RowsOf(all) : RefTrue(join_query.where, env @@ r)}
        projected == BagOf({[src |-> r, row |-> [c \in join_query.proj |-> r[c]],
                             count |-> all[r]] : r \in rows})
    IN  perform_aggregation(join_query, projected)

----------------------------------------------------------------------------
(* Properties.                                                             *)

\* The planner leaves every node with the columns it needs: each external
\* column of a node comes from its parent's Context or from the sibling that
\* it is made to depend on (the debug_assert of
\* initialize_contexts_general_once).
PlanComplete ==
    join_plan # << >> =>
        \A p \in DOMAIN plan_tree \ {<< >>} :
            ExternalCols(plan_tree, p) \subseteq
                ExternalCols(plan_tree, Front(p))
                  \cup (IF p \in DOMAIN plan_graph THEN collect_jlns(plan_tree, plan_graph[p])
                        ELSE {})

\* Plans that the code cannot evaluate: an incomplete one, a subquery among
\* the SelectItems, an OUTER JOIN of a LATERAL leaf, and a strong conjunction
\* with a subquery on a node whose children depend on each other.
Unevaluable ==
    \/ ~PlanComplete
    \/ join_query.proj_subquery
    \/ \E p \in DOMAIN plan_graph : plan_tree[Front(p)].join_type = "Outer"
    \/ \E p \in DOMAIN plan_graph : gr_queries(plan_tree[Front(p)].strong) # << >>

\* Whatever the shape of the tree, the join types, the conjunctions that were
\* pushed down and the order in which leaves and subqueries answer, JoinReadES
\* does not panic, and its answer is that of the query as it was written, with
\* the multiplicities of the rows.
JoinIsReference ==
    join_es.phase \in {"Panicked", "Done"} /\ ~Unevaluable =>
        /\ join_es.phase = "Done"
        /\ join_es.result = [i \in DOMAIN join_context.rows |-> Expected(join_context.rows[i])]

\* A JoinReadES that is not finished waits for some GRQuery: no node of the
\* tree is forgotten while its sibling or its subqueries are evaluated.
JoinWaitsForQueries == join_es.phase = "JoinEvaluating" => join_es.pending # {}

=============================================================================
