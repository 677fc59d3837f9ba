----------------------------- MODULE Expression -----------------------------
(***************************************************************************)
(* The WHERE clause (expression.rs): how it is evaluated for a row, and    *)
(* the key region that is computed from it before any row is read.  A row  *)
(* outside of the region is neither locked nor read, so the region must    *)
(* hold every key for which the clause can be true.                        *)
(*                                                                         *)
(* Values carry their type: [type, v], with 0 and 1 for the Booleans.      *)
(* Integers are as wide as HalfRange says and wrap around, as i32 does     *)
(* where Cargo.toml leaves overflow checks off (release).  With them, and  *)
(* for MIN / -1 and MIN % -1 in any build, the process ends instead: no    *)
(* row is returned then.  Strings, whose only use here is their order and  *)
(* StringConcat, are left out: the key columns are integers.               *)
(***************************************************************************)
EXTENDS KeyBounds

CONSTANT HalfRange               \* integers range over -HalfRange..HalfRange-1

Int32(x) == [type |-> "Int", v |-> ((x + HalfRange) % (2 * HalfRange)) - HalfRange]
Bool(b) == [type |-> "Bool", v |-> IF b THEN 1 ELSE 0]
Null == [type |-> "Null", v |-> 0]
Error == [type |-> "Error", v |-> 0]           \* EvalError
NotKnown == [type |-> "NotKnown", v |-> 0]     \* Ok(None) of evaluate_kb_expr

IsBool(x) == x.type = "Bool"
IsInt(x) == x.type = "Int"

\* ValExpr; "Other" is any column or subquery that is not a key column.
Value(x) == [tag |-> "Value", val |-> x]
Column(c) == [tag |-> "ColumnRef", col |-> c]
UnaryExpr(op, e) == [tag |-> "UnaryExpr", op |-> op, expr |-> e]
BinaryExpr(op, l, r) == [tag |-> "BinaryExpr", op |-> op, left |-> l, right |-> r]

ArithmeticOps == {"Plus", "Minus", "Multiply", "Divide", "Modulus"}
CompareOps == {"Gt", "Lt", "GtEq", "LtEq"}
LeafOps == CompareOps \cup {"Eq", "Spaceship"}

----------------------------------------------------------------------------
(* Evaluation.                                                             *)

evaluate_unary_op(op, x) ==
    CASE op = "Not" /\ IsBool(x) -> Bool(x.v = 0)
      [] op = "Minus" /\ IsInt(x) -> Int32(-x.v)
      [] op = "Plus" /\ IsInt(x) -> x
      [] op \in {"Not", "Minus", "Plus"} /\ x = Null -> Null
      [] op = "IsNull" -> Bool(x = Null)
      [] op = "IsNotNull" -> Bool(x # Null)
      [] OTHER -> Error

\* Division truncates towards zero.
Quotient(a, b) ==
    LET Abs(x) == IF x < 0 THEN -x ELSE x
        q == Abs(a) \div Abs(b)
    IN  IF (a < 0) = (b < 0) THEN q ELSE -q

Arithmetic(op, a, b) ==
    CASE op = "Plus" -> Int32(a + b)
      [] op = "Minus" -> Int32(a - b)
      [] op = "Multiply" -> Int32(a * b)
      [] b = 0 -> Error
      [] op = "Divide" -> Int32(Quotient(a, b))
      [] op = "Modulus" -> Int32(a - b * Quotient(a, b))

Compare(op, a, b) ==
    CASE op = "Gt" -> a > b
      [] op = "Lt" -> a < b
      [] op = "GtEq" -> a >= b
      [] op = "LtEq" -> a <= b

\* NULL on one side gives NULL, except for Or with a true side and <=>.
evaluate_binary_op(op, x, y) ==
    LET Typed(t) == x.type \in {t, "Null"} /\ y.type \in {t, "Null"}
        oneNull == x = Null \/ y = Null
    IN  CASE op \in ArithmeticOps /\ Typed("Int") ->
               IF oneNull THEN Null ELSE Arithmetic(op, x.v, y.v)
          [] op \in CompareOps /\ Typed("Int") ->
               IF oneNull THEN Null ELSE Bool(Compare(op, x.v, y.v))
          [] op = "Spaceship" -> Bool(x = y)
          [] op \in {"Eq", "NotEq"} /\ (Typed(x.type) \/ Typed(y.type)) ->
               IF oneNull THEN Null ELSE Bool((x.v = y.v) = (op = "Eq"))
          [] op = "And" /\ Typed("Bool") ->
               IF oneNull THEN Null ELSE Bool(x.v = 1 /\ y.v = 1)
          [] op = "Or" /\ Typed("Bool") ->
               IF Bool(TRUE) \in {x, y} THEN Bool(TRUE)
               ELSE IF oneNull THEN Null ELSE Bool(FALSE)
          [] OTHER -> Error

\* evaluate_c_expr: row gives a value to every column; an error anywhere is
\* an error of the whole.
RECURSIVE evaluate_c_expr(_, _)
evaluate_c_expr(e, row) ==
    CASE e.tag = "Value" -> e.val
      [] e.tag = "ColumnRef" -> row[e.col]
      [] e.tag = "UnaryExpr" ->
           LET x == evaluate_c_expr(e.expr, row)
           IN  IF x = Error THEN Error ELSE evaluate_unary_op(e.op, x)
      [] e.tag = "BinaryExpr" ->
           LET x == evaluate_c_expr(e.left, row)
               y == evaluate_c_expr(e.right, row)
           IN  IF Error \in {x, y} THEN Error ELSE evaluate_binary_op(e.op, x, y)

is_true(x) == x = Bool(TRUE)

\* The part of an expression without columns: NotKnown if there is one, an
\* error only if it is certain.
RECURSIVE evaluate_kb_expr(_)
evaluate_kb_expr(e) ==
    CASE e.tag = "Value" -> e.val
      [] e.tag = "ColumnRef" -> NotKnown
      [] e.tag = "UnaryExpr" ->
           LET x == evaluate_kb_expr(e.expr)
           IN  IF x \in {Error, NotKnown} THEN x ELSE evaluate_unary_op(e.op, x)
      [] e.tag = "BinaryExpr" ->
           LET x == evaluate_kb_expr(e.left)
               y == evaluate_kb_expr(e.right)
           IN  IF Error \in {x, y} THEN Error
               ELSE IF NotKnown \in {x, y} THEN NotKnown
               ELSE evaluate_binary_op(e.op, x, y)

----------------------------------------------------------------------------
(* Key bounds.                                                             *)

\* The interval of the values of a column on the left of op, with b on the right.
left_f(op, b) ==
    CASE op = "Gt" -> [start |-> Excluded(b), end |-> Unbounded]
      [] op = "Lt" -> [start |-> Unbounded, end |-> Excluded(b)]
      [] op = "GtEq" -> [start |-> Included(b), end |-> Unbounded]
      [] op = "LtEq" -> [start |-> Unbounded, end |-> Included(b)]
      [] op \in {"Eq", "Spaceship"} -> [start |-> Included(b), end |-> Included(b)]

\* ... and with the column on the right.
right_f(op, b) ==
    CASE op = "Gt" -> left_f("Lt", b)
      [] op = "Lt" -> left_f("Gt", b)
      [] op = "GtEq" -> left_f("LtEq", b)
      [] op = "LtEq" -> left_f("GtEq", b)
      [] op \in {"Eq", "Spaceship"} -> left_f(op, b)

\* key_cols are the names of the key columns, in the order of the key.
IsKeyColumn(e, key_cols) == e.tag = "ColumnRef" /\ \E i \in DOMAIN key_cols : key_cols[i] = e.col

boolean_leaf_constraint(e, col, key_cols) ==
    LET Bound(other, bound(_, _)) ==
            LET x == evaluate_kb_expr(other)
            IN  CASE x = Null -> {}
                  [] IsInt(x) -> {bound(e.op, x.v)}
                  [] OTHER -> {full_bound}
    IN  CASE IsKeyColumn(e.left, key_cols) ->
               IF e.left.col = col THEN Bound(e.right, left_f) ELSE {full_bound}
          [] ~IsKeyColumn(e.left, key_cols) /\ IsKeyColumn(e.right, key_cols) ->
               IF e.right.col = col THEN Bound(e.left, right_f) ELSE {full_bound}
          [] OTHER ->
               IF evaluate_kb_expr(e) \in {Bool(FALSE), Null} THEN {} ELSE {full_bound}

RECURSIVE compute_col_bounds(_, _, _)
compute_col_bounds(e, col, key_cols) ==
    CASE e.tag = "Value" -> IF e.val \in {Null, Bool(FALSE)} THEN {} ELSE {full_bound}
      [] e.tag = "BinaryExpr" /\ e.op = "And" ->
           col_bounds_intersect(compute_col_bounds(e.left, col, key_cols),
                                compute_col_bounds(e.right, col, key_cols))
      [] e.tag = "BinaryExpr" /\ e.op = "Or" ->
           compute_col_bounds(e.left, col, key_cols)
               \cup compute_col_bounds(e.right, col, key_cols)
      [] e.tag = "BinaryExpr" /\ e.op \in LeafOps ->
           boolean_leaf_constraint(e, col, key_cols)
      [] OTHER -> {full_bound}

\* Every key column is bounded on its own; the region is their product.
compute_key_region(e, key_cols) ==
    {kb \in [DOMAIN key_cols ->
               UNION {compute_col_bounds(e, key_cols[i], key_cols) : i \in DOMAIN key_cols}] :
        \A i \in DOMAIN key_cols : kb[i] \in compute_col_bounds(e, key_cols[i], key_cols)}
=============================================================================
