--------------------------- MODULE StorageHistory ---------------------------
(***************************************************************************)
(* What the storage of a Tablet holds after a history of multi-stage       *)
(* transactions and schema changes.  Stages of several transactions        *)
(* interleave and transactions commit in any order of their timestamps.    *)
(* Region Isolation is reduced to its effect on cells: a cell that was     *)
(* read is not written at an earlier timestamp, and a read waits for the   *)
(* transactions with earlier timestamps that write the cell.               *)
(*                                                                         *)
(* The reference is the sequential replay of the committed events in the   *)
(* order of their timestamps, on a table that knows nothing of versions,   *)
(* tiers or presence cells.  The table has one value column, Col.          *)
(***************************************************************************)
EXTENDS Storage

CONSTANTS
  RowKeys,        \* the primary keys of the rows
  RowVals,        \* the values of the value column
  MaxTs,          \* bound on the timestamps
  MaxStages,      \* bound on the stages of a transaction
  MaxEvents       \* bound on the stages and schema changes of a history

VARIABLES
  storage,        \* the GenericMVTable
  schema,         \* table_schema.val_cols
  stages,         \* stages[t]: the stages of the transaction of timestamp t
  committed,      \* the timestamps of the committed transactions
  read_at,        \* read_at[k]: the latest timestamp that read the presence of row k
  altered         \* the timestamps of the schema changes

sh_vars == <<storage, schema, stages, committed, read_at, altered>>

Col == "v"
Unset == "Unset"                 \* an INSERT that leaves the column out
Ts == 1..MaxTs
Whole == {[i \in 1..Len(CHOOSE k \in RowKeys : TRUE) |-> full_bound]}

Insert(k, v) == [kind |-> "Insert", key |-> k, val |-> v]
Update(k, v) == [kind |-> "Update", key |-> k, val |-> v]
Delete(k) == [kind |-> "Delete", key |-> k, val |-> Unset]

----------------------------------------------------------------------------
(* The code's side.                                                        *)

\* The view that a stage writes: finish of the MSTableInsertES, the
\* MSTableWriteES and the MSTableDeleteES.
UpdateView(s) ==
    CASE s.kind = "Insert" /\ s.val = Unset -> (<<s.key, Presence>> :> PRESENCE_VALN)
      [] s.kind = "Insert" -> (<<s.key, Presence>> :> PRESENCE_VALN) @@ (<<s.key, Col>> :> s.val)
      [] s.kind = "Update" -> (<<s.key, Col>> :> s.val)
      [] s.kind = "Delete" -> (<<s.key, Presence>> :> NULL)

\* The stage with index i of a transaction writes tier MaxStages - i.
UpdateViews(ss) ==
    [tier \in {MaxStages - i : i \in DOMAIN ss} |-> UpdateView(ss[MaxStages - tier])]

\* The columns at t and the timestamps at which they were added.
ColsAt(t) == static_snapshot_read(schema, t)
ColTs(t) == [c \in ColsAt(t) |-> static_read_version(schema, c, t).ts]

\* What a plain read at t sees, and what the next stage of transaction t sees.
CommittedView(t) == SimpleStorageView(storage, Whole, ColsAt(t), t, ColTs(t))
StageView(t) ==
    MSStorageView(storage, UpdateViews(stages[t]), MaxStages - Len(stages[t]),
                  Whole, ColsAt(t), t, ColTs(t))

----------------------------------------------------------------------------
(* The reference: sequential replay.                                       *)

Effect(table, s) ==
    CASE s.kind = "Insert" ->
           (s.key :> (IF s.val = Unset THEN NULL ELSE s.val)) @@ table
      [] s.kind = "Update" -> [table EXCEPT ![s.key] = s.val]
      [] s.kind = "Delete" -> [k \in DOMAIN table \ {s.key} |-> table[k]]

Effects(table, ss) == FoldLeft(Effect, table, ss)

\* Replayed[n]: the table after the events up to timestamp n; a schema change
\* comes before the transaction of the same timestamp and clears the column.
Replayed[n \in 0..MaxTs] ==
    IF n = 0 THEN << >>
    ELSE LET before == Replayed[n - 1]
             cleared == IF n \in altered THEN [k \in DOMAIN before |-> NULL] ELSE before
         IN  IF n \in committed THEN Effects(cleared, stages[n]) ELSE cleared

\* A table as the presence snapshot that shows the columns cols.
Shown(table, cols) == [k \in DOMAIN table |-> [c \in cols |-> table[k]]]

----------------------------------------------------------------------------
SHInit ==
    /\ storage = << >>
    /\ schema = mvm_init({Col}, "Type")
    /\ stages = [t \in Ts |-> << >>]
    /\ committed = {}
    /\ read_at = [k \in RowKeys |-> 0]
    /\ altered = {}

Events == Cardinality(altered) + FoldSet(LAMBDA t, n : n + Len(stages[t]), 0, Ts)

\* The statements that succeed on row k at t: an INSERT finds no row, an
\* UPDATE and a DELETE find one.
Statements(t, k) ==
    IF k \in DOMAIN StageView(t)
    THEN {Delete(k)} \cup {Update(k, v) : v \in IF Col \in ColsAt(t) THEN RowVals ELSE {}}
    ELSE {Insert(k, v) : v \in {Unset} \cup (IF Col \in ColsAt(t) THEN RowVals ELSE {})}

\* A stage of transaction t on row k: Column Locking, the read of the presence
\* of the row, the write.
Stage(t, k) ==
    /\ t \notin committed /\ Len(stages[t]) < MaxStages /\ Events < MaxEvents
    /\ \A u \in (1..(t - 1)) \ committed : \A i \in DOMAIN stages[u] :
          <<k, Presence>> \notin DOMAIN UpdateView(stages[u][i])
    /\ \E s \in Statements(t, k) :
          /\ <<k, Presence>> \in DOMAIN UpdateView(s) => read_at[k] <= t
          /\ stages' = [stages EXCEPT ![t] = Append(@, s)]
          /\ schema' = IF s.val = Unset THEN schema ELSE update_lat(schema, Col, t)
    /\ read_at' = [read_at EXCEPT ![k] = Max({@, t})]
    /\ UNCHANGED <<storage, committed, altered>>

\* FinishQueryRMES: the views are compressed and go to storage.
Commit(t) ==
    /\ t \notin committed /\ stages[t] # << >>
    /\ storage' = commit_to_storage(storage, t, compress_updates_views(UpdateViews(stages[t])))
    /\ committed' = committed \cup {t}
    /\ UNCHANGED <<schema, stages, read_at, altered>>

\* AlterTableRMES: drops the column, or adds it again.
Alter(t) ==
    /\ CanWrite(schema, Col, t) /\ Events < MaxEvents
    /\ schema' = mvm_write(schema, Col, IF Col \in ColsAt(t) THEN NULL ELSE "Type", t)
    /\ altered' = altered \cup {t}
    /\ UNCHANGED <<storage, stages, committed, read_at>>

SHNext == \/ \E t \in Ts, k \in RowKeys : Stage(t, k)
          \/ \E t \in Ts : Commit(t)
          \/ \E t \in Ts : Alter(t)

----------------------------------------------------------------------------
\* A transaction that deletes a row it wrote and inserts it again without a
\* value for the column.
Reinserts(ss) ==
    \E i, j, l \in DOMAIN ss :
        /\ i < j /\ j < l /\ ss[i].key = ss[j].key /\ ss[j].key = ss[l].key
        /\ ss[i].val # Unset /\ ss[j].kind = "Delete" /\ ss[l] = Insert(ss[l].key, Unset)

Reinserted == \E t \in Ts : Reinserts(stages[t])

(* The storage is the history: what a read at any timestamp sees is the    *)
(* replay of the committed events up to it, in whatever order they were    *)
(* committed, and a stage of a transaction also sees the stages before it. *)
(* (add_version, find_version, compress_updates_views, the tiers of        *)
(* MSStorageView, presence cells and column timestamps, storage.rs.)       *)
SnapshotIsReplay ==
    \A t \in Ts :
        /\ CommittedView(t) = Shown(Replayed[t], ColsAt(t))
        /\ t \notin committed =>
              StageView(t) = Shown(Effects(Replayed[t], stages[t]), ColsAt(t))

(* SnapshotIsReplay for all histories but those in which a transaction     *)
(* deletes a row it wrote and inserts it again without a value.            *)
SnapshotIsReplayOtherwise == Reinserted \/ SnapshotIsReplay
=============================================================================
