----------------------------- MODULE KeyRegion -----------------------------
(***************************************************************************)
(* A read of a sharded table (table_read_es.rs, gr_query_es.rs): the key   *)
(* region is computed from the WHERE clause, the query goes to the Tablets *)
(* of the table, each scans the part of the region in its range, and keeps *)
(* the rows for which the clause is true.                                  *)
(*                                                                         *)
(* The specification grows a WHERE clause step by step, so that every      *)
(* clause up to a size is reached; the properties say what the region and  *)
(* the sharded read are for each of them.                                  *)
(***************************************************************************)
EXTENDS Expression, Storage

CONSTANTS
  KeyCols,        \* the names of the key columns, in order
  KeyVals,        \* the integers that occur in keys
  OtherVals,      \* the values a column that is not a key column may have
  Leaves,         \* the leaves the clause is grown from
  GrowOps,        \* the binary operators the clause is grown with
  MaxGrow,        \* bound on the number of growth steps
  SplitAt         \* the keys at which the table is split between two Tablets

VARIABLES
  where,          \* the WHERE clause
  grown           \* the number of growth steps

kr_vars == <<where, grown>>

Keys == [DOMAIN KeyCols -> KeyVals]

\* A row: its key, and a value for the other column.
RowOf(key, other) ==
    [c \in {KeyCols[i] : i \in DOMAIN KeyCols} \cup {"Other"} |->
        IF c = "Other" THEN other
        ELSE Int32(key[CHOOSE i \in DOMAIN KeyCols : KeyCols[i] = c])]

\* The two ranges of a table that is split at s.
Ranges(s) == <<[start |-> NoKey, end |-> s], [start |-> s, end |-> NoKey]>>

----------------------------------------------------------------------------
\* compute_read_region: the row region that a Tablet locks.
compute_read_region(range, e) ==
    range_row_region_intersection(range, compute_key_region(e, KeyCols))

\* get_min_tablets: the Tablets that a query is sent to.  The code computes
\* the region and then takes every Tablet of the table.
get_min_tablets(ranges) == DOMAIN ranges

\* The keys a Tablet returns: its rows in the region for which the clause is
\* true; other gives the value of the other column of every row.
tablet_read(range, e, other) ==
    LET stored == {k \in Keys : contains_pkey(range, k)}
    IN  {k \in UNION {range_scan(stored, kb) : kb \in compute_read_region(range, e)} :
            is_true(evaluate_c_expr(e, RowOf(k, other)))}

\* What every Tablet that is asked returns.
sharded_read(ranges, e, other) ==
    [i \in get_min_tablets(ranges) |-> tablet_read(ranges[i], e, other)]

----------------------------------------------------------------------------
KRInit == where \in Leaves /\ grown = 0

Grow == /\ grown < MaxGrow
        /\ grown' = grown + 1
        /\ \E op \in GrowOps, leaf \in Leaves :
              where' \in {BinaryExpr(op, where, leaf), BinaryExpr(op, leaf, where)}

Negate == /\ grown < MaxGrow
          /\ grown' = grown + 1
          /\ \E op \in {"Not", "IsNull", "Minus"} : where' = UnaryExpr(op, where)

KRNext == Grow \/ Negate

----------------------------------------------------------------------------
(* A query returns the rows for which its WHERE clause is true, whatever   *)
(* the columns that are not key columns hold: the region that              *)
(* compute_key_region finds, which is read and protected, its cut to the   *)
(* ranges of the Tablets that share the table, and the scan that stops     *)
(* early lose no row, and none is returned twice.                          *)
ShardedReadComplete ==
    \A s \in SplitAt, other \in OtherVals :
        LET returned == sharded_read(Ranges(s), where, other)
        IN  /\ UNION {returned[i] : i \in DOMAIN returned}
                 = {k \in Keys : is_true(evaluate_c_expr(where, RowOf(k, other)))}
            /\ \A i, j \in DOMAIN returned : i # j => returned[i] \cap returned[j] = {}
=============================================================================
