------------------------------- MODULE Tablet -------------------------------
(***************************************************************************)
(* A Tablet (tablet.rs): Column Locking, Region Isolation, the execution   *)
(* of reads (TableReadES) and of the stages of multi-stage queries         *)
(* (MSTable*ES under an MSQueryES), the RM side of FinishQuery, the DDL    *)
(* RMs (Alter, Drop, ShardSplit) and the ShardingSnapshotES.               *)
(*                                                                         *)
(* The variables are the state of the Leader: what it persists through the *)
(* Paxos log and what it holds in memory.  LeaderChanged loses the latter, *)
(* together with the bundle that is not in the log yet.  A handler runs    *)
(* the Main Loop to its end before it returns: the actions of the Main     *)
(* Loop come before those of the handlers (Quiet).                         *)
(*                                                                         *)
(* Data: a region is a set of rows and of columns; the KeyBounds and the   *)
(* isolation of real regions are in KeyBounds.  What a read saw is the set *)
(* of the committed writers that it saw.                                   *)
(***************************************************************************)
EXTENDS MultiVersionMap, FiniteSetsExt, Sequences

CONSTANTS
    Writers,        \* multi-stage queries
    Reads,          \* queries that read this Tablet only
    Plan,           \* query -> [cols, present, gen, stages], see PlanOK
    InitCols,       \* the value columns at the start
    AlterCol,       \* the column that ALTER TABLE adds or drops
    NewRows,        \* the rows that a split moves away
    Timestamps,     \* query -> the timestamps it may be given
    Subqueries,     \* the queries with subqueries
    WaitsFor,       \* query -> the reads that its subqueries wait for
    Scenarios       \* set of [queries, ddls, changes]: what may happen; ddls is
                    \* a subset of {"Alter", "Drop", "Split"}, changes the
                    \* number of leader changes

Queries == Writers \cup Reads
AllCols == "All"                \* ColSet::All
Presence == "Presence"          \* the Column Indicator None

\* gen is the ShardingGen of the plan, cols the columns to lock, present
\* those that the plan takes to be in the schema.
PlanOK(p) ==
    /\ p.gen \in 0..1 /\ IsFiniteSet(p.cols)
    /\ Len(p.stages) \in Nat /\ DOMAIN p.stages = 1..Len(p.stages)
    /\ AllCols \in p.cols \/ p.present \subseteq p.cols
    /\ \A i \in DOMAIN p.stages :
          {"rows", "cols", "writes"} = DOMAIN p.stages[i]
ASSUME PlanAssumption == \A q \in Queries : PlanOK(Plan[q])
ASSUME QueriesAssumption ==
    /\ IsFiniteSet(Queries) /\ IsFiniteSet(InitCols) /\ Writers \cap Reads = {}
    /\ \A q \in Queries : Timestamps[q] \subseteq Nat
    /\ \A r \in Reads : Len(Plan[r].stages) = 1
ASSUME ScenariosAssumption == \A s \in Scenarios : s.ddls \subseteq {"Alter", "Drop", "Split"}

VARIABLES
    timestamp,                  \* query -> timestamp
    \* Persisted.
    table_schema, presence_timestamp, this_sharding_gen,
    read_protected,             \* set of reads
    prepared_writes, committed_writes,  \* writer -> [id, reads, writes]
    sharding_state, ddl_es, finish_query,
    \* In memory.
    verifying_writes,           \* writer -> [id, waiting, reads, writes]
    inserting_prepared_writes,
    waiting_read_protected, inserting_read_protected,   \* sets of reads
    waiting_locked_cols, inserting_locked_cols,         \* sets of <<query, stage>>
    es, stage, waiting_global_locks, gossip,
    tablet_bundle, inserting_bundle, bundle_applied,
    \* The environment, and what the properties observe.
    rms, outcome, ddl_left, ddl_outcome, changes_left, observed, snapshots

persisted_vars == <<table_schema, presence_timestamp, this_sharding_gen, read_protected>>
write_vars == <<verifying_writes, inserting_prepared_writes, prepared_writes, committed_writes>>
read_vars == <<waiting_read_protected, inserting_read_protected>>
col_vars == <<waiting_locked_cols, inserting_locked_cols>>
es_vars == <<es, stage, waiting_global_locks, observed>>
finish_vars == <<finish_query, rms, outcome>>
ddl_vars == <<ddl_es, ddl_left, ddl_outcome, sharding_state, snapshots>>
bundle_vars == <<tablet_bundle, inserting_bundle, bundle_applied>>
vars == <<timestamp, persisted_vars, write_vars, read_vars, col_vars, es_vars, gossip,
          finish_vars, ddl_vars, bundle_vars, changes_left>>

----------------------------------------------------------------------------
(* Regions.                                                                *)

\* The read and write regions of a stage, within the range of the Tablet.
OwnRows(q, rows) == IF Plan[q].gen = 0 THEN rows ELSE rows \ NewRows
ReadRegion(q, i) == LET s == Plan[q].stages[i] IN [rows |-> OwnRows(q, s.rows), cols |-> s.cols]
\* writes: columns, and Presence for an INSERT or DELETE; empty for a SELECT.
WriteRegion(q, i) == LET s == Plan[q].stages[i] IN [rows |-> OwnRows(q, s.rows), cols |-> s.writes]

\* is_surely_isolated, on sets instead of KeyBounds.
Isolated(write, read) ==
    \/ write.rows \cap read.rows = {}
    \/ Presence \notin write.cols /\ write.cols \cap read.cols = {}

\* The stages of `writer` whose write regions are held and conflict with a read.
Conflicts(writes, writer, read) ==
    \E i \in writes[writer].writes : ~Isolated(WriteRegion(writer, i), read)

Without(f, q) == [x \in DOMAIN f \ {q} |-> f[x]]
With(f, q, v) == [x \in DOMAIN f \cup {q} |-> IF x = q THEN v ELSE f[x]]

\* Mutant: read protections that are not persisted yet are left out.
check_write_region_isolation_persisted(q, i) ==
    /\ \A x \in Writers : timestamp[x] > timestamp[q] =>
          \A j \in 1..stage[x] : Isolated(WriteRegion(q, i), ReadRegion(x, j))
    /\ \A r \in read_protected : timestamp[r] >= timestamp[q] =>
          Isolated(WriteRegion(q, i), ReadRegion(r, 1))

\* A write must not change what a later read has been granted.
check_write_region_isolation(q, i) ==
    LET w == WriteRegion(q, i)
        IsolatedFromReads(writes) ==
            \A x \in DOMAIN writes : timestamp[x] > timestamp[q] =>
                \A j \in writes[x].reads : Isolated(w, ReadRegion(x, j))
    IN  /\ IsolatedFromReads(verifying_writes) /\ IsolatedFromReads(prepared_writes)
        /\ IsolatedFromReads(inserting_prepared_writes) /\ IsolatedFromReads(committed_writes)
        /\ \A r \in read_protected \cup inserting_read_protected :
              timestamp[r] >= timestamp[q] => Isolated(w, ReadRegion(r, 1))

\* The Main Loop grants a read once it is isolated from the current writes
\* that come before it; the m-read of a writer does not look at its own.
CurWrites == DOMAIN verifying_writes \cup DOMAIN inserting_prepared_writes
                \cup DOMAIN prepared_writes
BlockedBy(x, read) ==
    \/ x \in DOMAIN verifying_writes /\ Conflicts(verifying_writes, x, read)
    \/ x \in DOMAIN inserting_prepared_writes /\ Conflicts(inserting_prepared_writes, x, read)
    \/ x \in DOMAIN prepared_writes /\ Conflicts(prepared_writes, x, read)

ReadGrantable(r) ==
    /\ r \in waiting_read_protected
    /\ \A x \in CurWrites : timestamp[x] <= timestamp[r] => ~BlockedBy(x, ReadRegion(r, 1))

MReadGrantable(q, i) ==
    /\ q \in DOMAIN verifying_writes /\ i \in verifying_writes[q].waiting
    /\ \A x \in CurWrites : timestamp[x] < timestamp[q] => ~BlockedBy(x, ReadRegion(q, i))

\* What a read of stage i sees of the committed writers.
Visible(q, i) ==
    {x \in DOMAIN committed_writes :
        /\ x # q /\ (timestamp[x] < timestamp[q] \/ (q \in Reads /\ timestamp[x] = timestamp[q]))
        /\ Conflicts(committed_writes, x, ReadRegion(q, i))}

----------------------------------------------------------------------------
(* Column Locking.                                                         *)

LocksCol(q, col) == AllCols \in Plan[q].cols \/ col \in Plan[q].cols

\* The log already fixes what the request asks for.
GloballyLocked(q) ==
    /\ timestamp[q] <= presence_timestamp
    /\ IF AllCols \in Plan[q].cols THEN timestamp[q] <= table_schema.min_lat
       ELSE \A col \in Plan[q].cols : timestamp[q] <= get_lat(table_schema, col)

\* Mutant: only a DDL that has Prepared holds requests back.
LocallyLockable_prepared(q) ==
    \/ ddl_es.kind \in {"None", "Split"} \/ ddl_es.state = "Working"
    \/ ddl_es.kind = "Alter" /\ ~(LocksCol(q, AlterCol) /\ timestamp[q] >= ddl_es.ts)
    \/ ddl_es.kind \in {"Drop", "Dropped"} /\ timestamp[q] < ddl_es.ts

\* No DDL that is under way may conflict with the request.
LocallyLockable(q) ==
    \/ ddl_es.kind \in {"None", "Split"}
    \/ ddl_es.kind = "Alter" /\ ~(LocksCol(q, AlterCol) /\ timestamp[q] >= ddl_es.ts)
    \/ ddl_es.kind \in {"Drop", "Dropped"} /\ timestamp[q] < ddl_es.ts

\* The schema of the Tablet at the query's timestamp is the plan's.
does_query_plan_align(q) ==
    LET at == static_snapshot_read(table_schema, timestamp[q])
    IN  IF AllCols \in Plan[q].cols THEN Plan[q].present = at
        ELSE Plan[q].present = at \cap Plan[q].cols

ColsGrantable(id) ==
    /\ id \in waiting_locked_cols
    /\ GloballyLocked(id[1]) \/ LocallyLockable(id[1]) \/ ddl_es.kind = "Dropped"

PLm(type, of) == [type |-> type, of |-> of]
ESIsLocking(id) == es[id[1]] = "ColumnsLocking" /\ stage[id[1]] = id[2]

----------------------------------------------------------------------------
(* The execution strategies: what a grant makes of them.                   *)

\* Locked columns of <<q, i>>: the ES checks the plan and the GossipData and
\* asks for its region.  It may be gone: the request is granted all the same.
Locked(q, i, newes) ==
    LET writes == Plan[q].stages[i].writes # {}
        asks == newes[q] = "Asking"
        granted == q \in Reads \/ ~writes \/ check_write_region_isolation(q, i)
    IN  /\ es' = [newes EXCEPT ![q] =
                    IF ~asks THEN @ ELSE IF granted THEN "Pending" ELSE "Error"]
        /\ IF asks /\ granted /\ q \in Reads
           THEN waiting_read_protected' = waiting_read_protected \cup {q}
           ELSE UNCHANGED waiting_read_protected
        /\ IF asks /\ granted /\ q \in Writers
           THEN verifying_writes' =
                  [verifying_writes EXCEPT
                      ![q].waiting = @ \cup {i},
                      ![q].writes = IF writes THEN @ \cup {i} ELSE @]
           ELSE UNCHANGED verifying_writes
        /\ UNCHANGED <<inserting_read_protected, inserting_prepared_writes, prepared_writes,
                       committed_writes, stage, observed>>

\* check_gossip_data
GossipChecked(q) == IF gossip THEN "Asking" ELSE "GossipDataWaiting"

\* One column request of the Main Loop.
GrantLockedCols(id) ==
    LET q == id[1]
        aligned == IF does_query_plan_align(q) THEN GossipChecked(q) ELSE "Error"
        Granted(state) == IF ESIsLocking(id) THEN [es EXCEPT ![q] = state] ELSE es
    IN  /\ ColsGrantable(id)
        /\ waiting_locked_cols' = waiting_locked_cols \ {id}
        /\ \/ /\ GloballyLocked(q)
              /\ Locked(q, id[2], Granted(aligned))
              /\ UNCHANGED <<inserting_locked_cols, tablet_bundle, waiting_global_locks>>
           \/ /\ ~GloballyLocked(q) /\ LocallyLockable(q)
              /\ inserting_locked_cols' = inserting_locked_cols \cup {id}
              /\ tablet_bundle' = tablet_bundle \cup {PLm("LockedCols", id)}
              /\ waiting_global_locks' =
                    IF ESIsLocking(id) THEN [waiting_global_locks EXCEPT ![q] = @ \cup {"cols"}]
                    ELSE waiting_global_locks
              /\ Locked(q, id[2], Granted(aligned))
           \/ /\ ~GloballyLocked(q) /\ ~LocallyLockable(q) /\ ddl_es.kind = "Dropped"
              /\ Locked(q, id[2], Granted("Error"))
              /\ UNCHANGED <<inserting_locked_cols, tablet_bundle, waiting_global_locks>>
        /\ UNCHANGED <<timestamp, persisted_vars, gossip, finish_vars, ddl_vars,
                       inserting_bundle, bundle_applied, changes_left>>

\* Where the evaluation leaves an ES that has all of its results.
Finished(q, locks) ==
    IF q \in Writers THEN "StageDone"
    ELSE IF locks = {} THEN "Success" ELSE "WaitingGlobalLockedCols"

\* local_read_protected
GrantLocalReadProtected(r) ==
    /\ ReadGrantable(r) /\ ~\E id \in waiting_locked_cols : ColsGrantable(id)
    /\ waiting_read_protected' = waiting_read_protected \ {r}
    /\ inserting_read_protected' = inserting_read_protected \cup {r}
    /\ tablet_bundle' = tablet_bundle \cup {PLm("ReadProtected", r)}
    /\ IF es[r] = "Pending"
       THEN /\ waiting_global_locks' = [waiting_global_locks EXCEPT ![r] = @ \cup {"read"}]
            /\ es' = [es EXCEPT ![r] = IF r \in Subqueries THEN "Executing"
                                       ELSE "WaitingGlobalLockedCols"]
            /\ observed' = [observed EXCEPT ![r][1] = Visible(r, 1)]
       ELSE UNCHANGED <<waiting_global_locks, es, observed>>
    /\ UNCHANGED <<timestamp, persisted_vars, write_vars, col_vars, stage, gossip, finish_vars,
                   ddl_vars, inserting_bundle, bundle_applied, changes_left>>

\* new_rms: the MSQueryESs that the stages of a query went through.
NewRMs(q) == rms[q] \cup {verifying_writes[q].id}

\* m_local_read_protected
GrantMLocalReadProtected(q, i) ==
    /\ MReadGrantable(q, i) /\ ~\E id \in waiting_locked_cols : ColsGrantable(id)
    /\ verifying_writes' = [verifying_writes EXCEPT ![q].waiting = @ \ {i},
                                                    ![q].reads = @ \cup {i}]
    /\ IF es[q] = "Pending" /\ stage[q] = i
       THEN /\ es' = [es EXCEPT ![q] = IF q \in Subqueries THEN "Executing" ELSE "StageDone"]
            /\ observed' = [observed EXCEPT ![q][i] = Visible(q, i)]
            /\ rms' = IF q \in Subqueries THEN rms
                      ELSE [rms EXCEPT ![q] = NewRMs(q)]
       ELSE UNCHANGED <<es, observed, rms>>
    /\ UNCHANGED <<timestamp, persisted_vars, inserting_prepared_writes, prepared_writes,
                   committed_writes, read_vars, col_vars, stage, waiting_global_locks, gossip,
                   finish_query, outcome, ddl_vars, bundle_vars, changes_left>>

RegionGrantable ==
    \/ \E r \in waiting_read_protected : ReadGrantable(r)
    \/ \E q \in DOMAIN verifying_writes : \E i \in verifying_writes[q].waiting : MReadGrantable(q, i)

Active == {"ColumnsLocking", "GossipDataWaiting", "Pending", "Executing",
           "WaitingGlobalLockedCols"}

\* Mutant: a read that waits for a write with its own timestamp just waits.
DeadlockUnsafe_never(q) == FALSE

\* A read waits for a write with its own timestamp.
DeadlockUnsafe(q) ==
    /\ q \in DOMAIN verifying_writes
    /\ \E r \in waiting_read_protected :
          timestamp[r] = timestamp[q] /\ Conflicts(verifying_writes, q, ReadRegion(r, 1))

\* exit_ms_query_es: a pending stage is answered, a finished one is not.
DeadlockSafetyWriteAbort(q) ==
    /\ DeadlockUnsafe(q)
    /\ ~\E id \in waiting_locked_cols : ColsGrantable(id)
    /\ ~RegionGrantable
    /\ verifying_writes' = Without(verifying_writes, q)
    /\ es' = [es EXCEPT ![q] = IF @ \in Active THEN "Error" ELSE @]
    /\ UNCHANGED <<timestamp, persisted_vars, inserting_prepared_writes, prepared_writes,
                   committed_writes, read_vars, col_vars, stage, waiting_global_locks, observed,
                   gossip, finish_vars, ddl_vars, bundle_vars, changes_left>>

MainLoop ==
    \/ \E id \in waiting_locked_cols : GrantLockedCols(id)
    \/ \E r \in waiting_read_protected : GrantLocalReadProtected(r)
    \/ \E q \in DOMAIN verifying_writes :
          \/ \E i \in verifying_writes[q].waiting : GrantMLocalReadProtected(q, i)
          \/ DeadlockSafetyWriteAbort(q)

MainLoopDone ==
    /\ ~\E id \in waiting_locked_cols : ColsGrantable(id)
    /\ ~RegionGrantable
    /\ ~\E q \in DOMAIN verifying_writes : DeadlockUnsafe(q)

\* A handler may start.
GossipWaiters == {q \in Queries : gossip /\ es[q] = "GossipDataWaiting"}
Quiet == MainLoopDone /\ ~bundle_applied /\ GossipWaiters = {}

----------------------------------------------------------------------------
(* Messages of queries.                                                    *)

\* PerformQuery of the next stage: the previous one has succeeded.  The plan
\* of a query with the new ShardingGen is made after the split is Closed.
NextStage(q) == /\ es[q] \in {"Start", "StageDone"}
                /\ stage[q] < Len(Plan[q].stages)
                /\ Plan[q].gen <= this_sharding_gen

\* get_msquery_id
TimestampConflict(q) ==
    \E x \in CurWrites \cup DOMAIN committed_writes : timestamp[x] = timestamp[q]

PerformQuery(q) ==
    LET i == stage[q] + 1
        fresh == q \in Writers /\ q \notin DOMAIN verifying_writes
        refused == Plan[q].gen < this_sharding_gen \/ (fresh /\ TimestampConflict(q))
    IN  /\ NextStage(q)
        /\ IF refused
           THEN /\ es' = [es EXCEPT ![q] = "Error"]
                /\ UNCHANGED <<waiting_locked_cols, verifying_writes>>
           ELSE /\ es' = [es EXCEPT ![q] = "ColumnsLocking"]
                /\ waiting_locked_cols' = waiting_locked_cols \cup {<<q, i>>}
                /\ verifying_writes' =
                      IF fresh THEN With(verifying_writes, q, [id |-> i, waiting |-> {},
                                                               reads |-> {}, writes |-> {}])
                      ELSE verifying_writes
        /\ stage' = [stage EXCEPT ![q] = i]
        /\ UNCHANGED <<timestamp, persisted_vars, inserting_prepared_writes, prepared_writes,
                       committed_writes, read_vars, inserting_locked_cols, waiting_global_locks,
                       observed, gossip, finish_vars, ddl_vars, bundle_vars, changes_left>>

\* handle_subquery_done, handle_internal_query_error
SubqueryDone(q) ==
    /\ es[q] = "Executing"
    /\ \A r \in WaitsFor[q] : es[r] \notin Active
    /\ \/ /\ es' = [es EXCEPT ![q] = Finished(q, waiting_global_locks[q])]
          /\ rms' = IF q \in Writers THEN [rms EXCEPT ![q] = NewRMs(q)]
                    ELSE rms
       \/ es' = [es EXCEPT ![q] = "Error"] /\ UNCHANGED rms
    /\ UNCHANGED <<timestamp, persisted_vars, write_vars, read_vars, col_vars, stage, observed,
                   waiting_global_locks, gossip, finish_query, outcome, ddl_vars, bundle_vars,
                   changes_left>>

\* CancelQuery, or the sender is dead (RemoteLeaderChanged): without an answer.
CancelQuery(q) ==
    /\ es[q] \in Active \cup {"Error", "StageDone"}
    /\ es' = [es EXCEPT ![q] = "Cancelled"]
    /\ verifying_writes' = Without(verifying_writes, q)
    /\ UNCHANGED <<timestamp, persisted_vars, inserting_prepared_writes, prepared_writes,
                   committed_writes, read_vars, col_vars, stage, waiting_global_locks, observed,
                   gossip, finish_vars, ddl_vars, bundle_vars, changes_left>>

\* GossipData: the ESs that wait for it ask for their regions, one by one.
GossipData ==
    /\ ~gossip /\ gossip' = TRUE
    /\ UNCHANGED <<timestamp, persisted_vars, write_vars, read_vars, col_vars, es_vars,
                   finish_vars, ddl_vars, bundle_vars, changes_left>>
gossip_data_changed(q) ==
    /\ gossip /\ es[q] = "GossipDataWaiting"
    /\ Locked(q, stage[q], [es EXCEPT ![q] = "Asking"])
    /\ UNCHANGED <<timestamp, persisted_vars, col_vars, waiting_global_locks, gossip,
                   finish_vars, ddl_vars, bundle_vars, changes_left>>

----------------------------------------------------------------------------
(* FinishQuery: the RM side of Paxos2PC, see Paxos2PC for the protocol.    *)

\* Prepare names the MSQueryES that took part (id); it is repeated after a
\* leader change.  Without that MSQueryES the RM answers Aborted.  The
\* Coordinator keeps one payload per Tablet, so that one MSQueryES is named
\* even if the stages went through two.
Prepare(q, id) ==
    /\ outcome[q] = "None" /\ finish_query[q] = "None" /\ id \in rms[q]
    /\ es[q] \in {"StageDone", "Finishing"} /\ stage[q] = Len(Plan[q].stages)
    /\ es' = [es EXCEPT ![q] = "Finishing"]
    /\ rms' = [rms EXCEPT ![q] = {id}]
    /\ IF q \in DOMAIN verifying_writes /\ verifying_writes[q].id = id
       THEN /\ verifying_writes' = Without(verifying_writes, q)
            /\ inserting_prepared_writes' =
                  With(inserting_prepared_writes, q,
                       [id |-> id, reads |-> verifying_writes[q].reads,
                        writes |-> verifying_writes[q].writes])
            /\ finish_query' = [finish_query EXCEPT ![q] = "WaitingInsertingPrepared"]
            /\ UNCHANGED outcome
       ELSE /\ outcome' = [outcome EXCEPT ![q] = "Abort"]
            /\ UNCHANGED <<verifying_writes, inserting_prepared_writes, finish_query>>
    /\ UNCHANGED <<timestamp, persisted_vars, prepared_writes, committed_writes, read_vars,
                   col_vars, stage, waiting_global_locks, observed, gossip, ddl_vars,
                   bundle_vars, changes_left>>

\* The TM commits once the RMs have Prepared.
HandleCommit(q) ==
    /\ finish_query[q] = "Prepared" /\ outcome[q] # "Abort"
    /\ outcome' = [outcome EXCEPT ![q] = "Commit"]
    /\ finish_query' = [finish_query EXCEPT ![q] = "InsertingCommitted"]
    /\ tablet_bundle' = tablet_bundle \cup {PLm("Committed", q)}
    /\ UNCHANGED <<timestamp, persisted_vars, write_vars, read_vars, col_vars, es_vars, gossip,
                   rms, ddl_vars, inserting_bundle, bundle_applied, changes_left>>

HandleAbort(q) ==
    /\ es[q] = "Finishing" /\ outcome[q] # "Commit"
    /\ outcome' = [outcome EXCEPT ![q] = "Abort"]
    /\ \/ /\ finish_query[q] = "WaitingInsertingPrepared"       \* early_aborted
          /\ inserting_prepared_writes' = Without(inserting_prepared_writes, q)
          /\ finish_query' = [finish_query EXCEPT ![q] = "Aborted"]
          /\ UNCHANGED tablet_bundle
       \/ /\ finish_query[q] = "InsertingPrepared"
          /\ finish_query' = [finish_query EXCEPT ![q] = "InsertingPreparedAborted"]
          /\ UNCHANGED <<inserting_prepared_writes, tablet_bundle>>
       \/ /\ finish_query[q] = "Prepared"
          /\ finish_query' = [finish_query EXCEPT ![q] = "InsertingAborted"]
          /\ tablet_bundle' = tablet_bundle \cup {PLm("Aborted", q)}
          /\ UNCHANGED inserting_prepared_writes
    /\ UNCHANGED <<timestamp, persisted_vars, verifying_writes, prepared_writes,
                   committed_writes, read_vars, col_vars, es_vars, gossip, rms, ddl_vars,
                   inserting_bundle, bundle_applied, changes_left>>

----------------------------------------------------------------------------
(* DDL: the RM side of STMPaxos2PC, see STMPaxos2PC for the protocol.      *)

NoDDL == [kind |-> "None", state |-> "None", ts |-> 0]

\* ddl_outcome: what the TM decided, or the timestamp of its Commit.
NoOutcome == -2
AbortOutcome == -1

\* Mutant: the requests in memory are left out.
prepared_timestamp_persisted(kind, now) ==
    1 + Max({now} \cup (IF kind = "Alter" THEN {get_lat(table_schema, AlterCol)}
                        ELSE {get_latest_lat(table_schema), presence_timestamp}))

\* Later than everything that has been promised to a query.
prepared_timestamp(kind, now) ==
    LET requests == {timestamp[id[1]] : id \in {x \in waiting_locked_cols \cup inserting_locked_cols :
                                                  kind = "Drop" \/ LocksCol(x[1], AlterCol)}}
    IN  1 + Max({now} \cup requests
                  \cup (IF kind = "Alter" THEN {get_lat(table_schema, AlterCol)}
                        ELSE {get_latest_lat(table_schema), presence_timestamp}))

DDLPrepare(kind) ==
    /\ ddl_es = NoDDL /\ kind \in ddl_left
    /\ ddl_es' = [kind |-> kind, state |-> "Working",
                  ts |-> IF kind = "Split" THEN 0 ELSE prepared_timestamp(kind, 0)]
    /\ UNCHANGED <<timestamp, persisted_vars, write_vars, read_vars, col_vars, es_vars, gossip,
                   finish_vars, ddl_left, ddl_outcome, sharding_state, snapshots, bundle_vars,
                   changes_left>>

\* The TM's timestamp is at least the one of every RM.
DDLCommit(commit_ts) ==
    /\ ddl_es.state = "Prepared" /\ commit_ts >= ddl_es.ts
    /\ ddl_outcome \in {NoOutcome, commit_ts} /\ ddl_outcome' = commit_ts
    /\ ddl_es' = [ddl_es EXCEPT !.state = "InsertingCommitted"]
    /\ tablet_bundle' = tablet_bundle \cup {PLm("DDLCommitted", commit_ts)}
    /\ UNCHANGED <<timestamp, persisted_vars, write_vars, read_vars, col_vars, es_vars, gossip,
                   finish_vars, ddl_left, sharding_state, snapshots, inserting_bundle,
                   bundle_applied, changes_left>>

DDLAbort ==
    /\ ddl_outcome \in {NoOutcome, AbortOutcome}
    /\ \/ /\ ddl_es.state = "Working"
          /\ ddl_es' = NoDDL /\ ddl_left' = ddl_left \ {ddl_es.kind}
          /\ ddl_outcome' = NoOutcome
          /\ UNCHANGED tablet_bundle
       \/ /\ ddl_es.state = "InsertingPrepared"
          /\ ddl_es' = [ddl_es EXCEPT !.state = "InsertingPreparedAborted"]
          /\ ddl_outcome' = AbortOutcome
          /\ UNCHANGED <<ddl_left, tablet_bundle>>
       \/ /\ ddl_es.state = "Prepared"
          /\ ddl_es' = [ddl_es EXCEPT !.state = "InsertingAborted"]
          /\ tablet_bundle' = tablet_bundle \cup {PLm("DDLAborted", 0)}
          /\ ddl_outcome' = AbortOutcome
          /\ UNCHANGED ddl_left
    /\ UNCHANGED <<timestamp, persisted_vars, write_vars, read_vars, col_vars, es_vars, gossip,
                   finish_vars, sharding_state, snapshots, inserting_bundle, bundle_applied,
                   changes_left>>

----------------------------------------------------------------------------
(* The insert cycle: a bundle is applied when it is in the log, then the   *)
(* next one is dispatched.                                                 *)

Of(type) == {p.of : p \in {x \in inserting_bundle : x.type = type}}

\* The LATs are maxima: the order of the requests in the bundle is irrelevant.
ApplyLockedCols(schema, ids) ==
    LET all == {id \in ids : AllCols \in Plan[id[1]].cols}
        Latest(requests) == Max({0} \cup {timestamp[id[1]] : id \in requests})
    IN  update_lats(update_all_lats(schema, Latest(all)),
                    [col \in UNION {Plan[id[1]].cols : id \in ids \ all} |->
                        Latest({id \in ids \ all : col \in Plan[id[1]].cols})])

\* ALTER TABLE adds the column, or drops it if it is there.
ApplyAlter(schema, t) ==
    mvm_write(schema, AlterCol,
              IF static_read(schema, AlterCol, t) = NULL THEN "Type" ELSE NULL, t)

\* Mutant: queries that have Prepared are not waited for.
ReadyToSend_reads(finish, reads) == \A r \in reads : ReadRegion(r, 1).rows \cap NewRows = {}

\* All old FinishQueryRMESs are done, and no read protection of the rows
\* that move away is still in memory.
ReadyToSend(finish, reads) ==
    /\ \A q \in Writers : Plan[q].gen < this_sharding_gen =>
          finish[q] \in {"None", "Committed", "Aborted"}
    /\ \A r \in reads : ReadRegion(r, 1).rows \cap NewRows = {}

read_memory == waiting_read_protected \cup inserting_read_protected

\* What the new Tablet is made of, as far as it concerns its rows.
MovedWrites == {q \in DOMAIN committed_writes :
                  \E i \in committed_writes[q].writes : WriteRegion(q, i).rows \cap NewRows # {}}
MovedReads == {r \in read_protected : ReadRegion(r, 1).rows \cap NewRows # {}}
Snapshot == [writes |-> MovedWrites, reads |-> MovedReads,
             schema |-> table_schema, presence |-> presence_timestamp]

\* The PLms of the bundle in the log.  A split that commits aborts every
\* query that has not Prepared; `late` tells whether the grants of the same
\* bundle come after it.  A cycle of empty bundles that changes nothing is
\* left out.
TabletBundle(late) ==
    LET committing == Of("DDLCommitted")
        commit_ts == CHOOSE t \in committing : TRUE
        split == committing # {} /\ ddl_es.kind = "Split"
        granted == [r \in Queries |->
                      (IF \E id \in Of("LockedCols") : id[1] = r THEN {"cols"} ELSE {})
                      \cup (IF r \in Of("ReadProtected") THEN {"read"} ELSE {})]
        locks == [r \in Queries |-> waiting_global_locks[r] \ granted[r]]
        succeeds == {r \in Reads : es[r] = "WaitingGlobalLockedCols" /\ locks[r] = {}}
        exits == {q \in Queries : split /\ es[q] \in Active}
        locked == ApplyLockedCols(table_schema, Of("LockedCols"))
        ddl_done == committing # {} \/ Of("DDLAborted") # {}
    IN  /\ \/ inserting_bundle \cup tablet_bundle # {}
           \/ ddl_es.state = "Working" /\ sharding_state = "None"
           \/ sharding_state = "WaitingPreparedWrites" /\ ReadyToSend(finish_query, read_memory)
           \/ \E q \in Writers : finish_query[q] = "WaitingInsertingPrepared"
        /\ late => split
        /\ table_schema' = IF committing # {} /\ ddl_es.kind = "Alter"
                           THEN ApplyAlter(locked, commit_ts) ELSE locked
        /\ presence_timestamp' = Max({presence_timestamp}
                                      \cup {timestamp[id[1]] : id \in Of("LockedCols")})
        /\ inserting_locked_cols' = inserting_locked_cols \ Of("LockedCols")
        /\ read_protected' = read_protected \cup Of("ReadProtected")
        /\ inserting_read_protected' = inserting_read_protected \ Of("ReadProtected")
        /\ waiting_global_locks' = locks
        /\ es' = [q \in Queries |->
                    IF q \in succeeds /\ ~(late /\ q \in exits) THEN "Success"
                    ELSE IF q \in exits THEN "Error" ELSE es[q]]
        /\ verifying_writes' = IF split THEN << >> ELSE verifying_writes
        /\ inserting_prepared_writes' =
              [q \in DOMAIN inserting_prepared_writes \ Of("Prepared") |->
                  inserting_prepared_writes[q]]
        /\ prepared_writes' =
              [q \in (DOMAIN prepared_writes \cup Of("Prepared"))
                        \ (Of("Committed") \cup Of("Aborted")) |->
                  IF q \in Of("Prepared") THEN inserting_prepared_writes[q]
                  ELSE prepared_writes[q]]
        /\ committed_writes' =
              [q \in DOMAIN committed_writes \cup Of("Committed") |->
                  IF q \in Of("Committed") THEN prepared_writes[q] ELSE committed_writes[q]]
        /\ finish_query' =
              [q \in Writers |->
                  IF q \in Of("Prepared")
                  THEN IF finish_query[q] = "InsertingPrepared" THEN "Prepared"
                       ELSE "InsertingAborted"
                  ELSE IF q \in Of("Committed") THEN "Committed"
                  ELSE IF q \in Of("Aborted") THEN "Aborted" ELSE finish_query[q]]
        /\ ddl_es' =
              IF committing # {} /\ ddl_es.kind = "Drop"
              THEN [kind |-> "Dropped", state |-> "None", ts |-> commit_ts]
              ELSE IF ddl_done THEN NoDDL
              ELSE IF Of("DDLPrepared") # {}
              THEN [ddl_es EXCEPT !.state = IF @ = "InsertingPrepared" THEN "Prepared"
                                            ELSE "InsertingAborted"]
              ELSE ddl_es
        /\ ddl_left' = IF ddl_done THEN ddl_left \ {ddl_es.kind} ELSE ddl_left
        /\ ddl_outcome' = IF ddl_done THEN NoOutcome ELSE ddl_outcome
        /\ this_sharding_gen' = IF split THEN 1 ELSE this_sharding_gen
        /\ sharding_state' = IF split THEN "WaitingPreparedWrites"
                             ELSE IF Of("ShardingConfirmed") # {} THEN "None"
                             ELSE sharding_state
        /\ tablet_bundle' =
              tablet_bundle
              \cup {PLm("Aborted", q) : q \in {x \in Of("Prepared") :
                                                 finish_query[x] = "InsertingPreparedAborted"}}
              \cup (IF Of("DDLPrepared") # {} /\ ddl_es.state = "InsertingPreparedAborted"
                    THEN {PLm("DDLAborted", 0)} ELSE {})
        /\ inserting_bundle' = {} /\ bundle_applied' = TRUE
        /\ UNCHANGED <<timestamp, waiting_read_protected, waiting_locked_cols, stage, observed,
                       gossip, rms, outcome, snapshots, changes_left>>

\* After the Main Loop: start_inserting, handle_bundle_processed, and the
\* TabletBundleInsertion.
TabletBundleInsertion ==
    LET finishing == {q \in Writers : finish_query[q] = "WaitingInsertingPrepared"}
        ddl == ddl_es.state = "Working" /\ sharding_state = "None"      \* pause_ddl
        send == /\ sharding_state = "WaitingPreparedWrites"
                /\ ReadyToSend(finish_query, read_memory)
    IN  /\ bundle_applied /\ MainLoopDone
        /\ finish_query' = [q \in Writers |-> IF q \in finishing THEN "InsertingPrepared"
                                              ELSE finish_query[q]]
        /\ ddl_es' = IF ddl THEN [ddl_es EXCEPT !.state = "InsertingPrepared"] ELSE ddl_es
        /\ sharding_state' = IF send THEN "ShardingSnapshotSent" ELSE sharding_state
        /\ snapshots' = IF send THEN snapshots \cup {Snapshot} ELSE snapshots
        /\ inserting_bundle' = tablet_bundle \cup {PLm("Prepared", q) : q \in finishing}
                                 \cup (IF ddl THEN {PLm("DDLPrepared", 0)} ELSE {})
        /\ tablet_bundle' = {} /\ bundle_applied' = FALSE
        /\ UNCHANGED <<timestamp, persisted_vars, write_vars, read_vars, col_vars, es_vars,
                       gossip, rms, outcome, ddl_left, ddl_outcome, changes_left>>

\* The Slave of the new Tablet has its snapshot.
ShardingConfirmed ==
    /\ sharding_state = "ShardingSnapshotSent"
    /\ sharding_state' = "InsertingShardingConfirmed"
    /\ tablet_bundle' = tablet_bundle \cup {PLm("ShardingConfirmed", 0)}
    /\ UNCHANGED <<timestamp, persisted_vars, write_vars, read_vars, col_vars, es_vars, gossip,
                   finish_vars, ddl_es, ddl_left, ddl_outcome, snapshots, inserting_bundle,
                   bundle_applied, changes_left>>

\* The Slave of the new Tablet has a new Leader: the snapshot is sent again.
handle_rlc ==
    /\ sharding_state = "ShardingSnapshotSent"
    /\ snapshots' = snapshots \cup {Snapshot}
    /\ UNCHANGED <<timestamp, persisted_vars, write_vars, read_vars, col_vars, es_vars, gossip,
                   finish_vars, ddl_es, ddl_left, ddl_outcome, sharding_state, bundle_vars,
                   changes_left>>

\* Leadership moves to another node: what is in memory is lost there, and
\* so is the bundle that is not in the log.  Senders give up on the queries.
LeaderChanged ==
    LET Lost(state) == state \in {"WaitingInsertingPrepared", "InsertingPrepared",
                                  "InsertingPreparedAborted", "Working"}
        finish == [q \in Writers |-> IF Lost(finish_query[q]) THEN "None"
                                     ELSE IF finish_query[q] \in {"InsertingCommitted",
                                                                  "InsertingAborted"}
                                     THEN "Prepared" ELSE finish_query[q]]
        send == sharding_state # "None" /\ ReadyToSend(finish, {})
    IN  /\ changes_left > 0 /\ changes_left' = changes_left - 1
        /\ verifying_writes' = << >> /\ inserting_prepared_writes' = << >>
        /\ waiting_read_protected' = {} /\ inserting_read_protected' = {}
        /\ waiting_locked_cols' = {} /\ inserting_locked_cols' = {}
        /\ waiting_global_locks' = [q \in Queries |-> {}]
        /\ es' = [q \in Queries |-> IF es[q] \in Active \/ (q \in Writers /\ es[q] = "StageDone"
                                                             /\ stage[q] < Len(Plan[q].stages))
                                    THEN "Error" ELSE es[q]]
        /\ finish_query' = finish
        /\ ddl_es' = IF Lost(ddl_es.state) THEN NoDDL
                     ELSE IF ddl_es.state \in {"InsertingCommitted", "InsertingAborted"}
                     THEN [ddl_es EXCEPT !.state = "Prepared"] ELSE ddl_es
        /\ ddl_left' = IF Lost(ddl_es.state) /\ ddl_outcome = AbortOutcome
                       THEN ddl_left \ {ddl_es.kind} ELSE ddl_left
        /\ ddl_outcome' = IF Lost(ddl_es.state) THEN NoOutcome ELSE ddl_outcome
        /\ sharding_state' = IF send THEN "ShardingSnapshotSent"
                             ELSE IF sharding_state = "None" THEN "None"
                             ELSE "WaitingPreparedWrites"
        /\ snapshots' = IF send THEN snapshots \cup {Snapshot} ELSE snapshots
        /\ tablet_bundle' = {} /\ inserting_bundle' = {}
        /\ UNCHANGED <<timestamp, persisted_vars, prepared_writes, committed_writes, stage,
                       observed, gossip, rms, outcome, bundle_applied>>

----------------------------------------------------------------------------
Init ==
    /\ table_schema = mvm_init(InitCols, "Type") /\ presence_timestamp = 0
    /\ this_sharding_gen = 0 /\ read_protected = {}
    /\ prepared_writes = << >> /\ committed_writes = << >>
    /\ verifying_writes = << >> /\ inserting_prepared_writes = << >>
    /\ waiting_read_protected = {} /\ inserting_read_protected = {}
    /\ waiting_locked_cols = {} /\ inserting_locked_cols = {}
    /\ \E s \in Scenarios :
          /\ timestamp \in {f \in [Queries -> {0} \cup UNION {Timestamps[q] : q \in Queries}] :
                \A q \in Queries :
                    IF q \in s.queries
                    THEN f[q] \in Timestamps[q] /\ \A r \in WaitsFor[q] : f[r] <= f[q]
                    ELSE f[q] = 0}
          /\ es = [q \in Queries |-> IF q \in s.queries THEN "Start" ELSE "Cancelled"]
          /\ ddl_left = s.ddls /\ changes_left = s.changes
    /\ stage = [q \in Queries |-> 0]
    /\ waiting_global_locks = [q \in Queries |-> {}]
    /\ observed = [q \in Queries |-> [i \in DOMAIN Plan[q].stages |-> {}]]
    /\ gossip \in BOOLEAN
    /\ finish_query = [q \in Writers |-> "None"]
    /\ rms = [q \in Writers |-> {}] /\ outcome = [q \in Writers |-> "None"]
    /\ ddl_es = NoDDL /\ ddl_outcome = NoOutcome
    /\ sharding_state = "None" /\ snapshots = {}
    /\ tablet_bundle = {} /\ inserting_bundle = {} /\ bundle_applied = FALSE

Handlers ==
    \/ \E q \in Queries : PerformQuery(q) \/ SubqueryDone(q) \/ CancelQuery(q)
    \/ GossipData
    \/ \E q \in Writers : HandleCommit(q) \/ HandleAbort(q) \/ \E id \in 1..2 : Prepare(q, id)
    \/ \E kind \in ddl_left : DDLPrepare(kind)
    \/ \E t \in {ddl_es.ts, ddl_es.ts + 1} : DDLCommit(t)
    \/ DDLAbort
    \/ \E late \in BOOLEAN : TabletBundle(late)
    \/ ShardingConfirmed \/ handle_rlc \/ LeaderChanged

Next ==
    \/ \E q \in GossipWaiters : gossip_data_changed(q)
    \/ GossipWaiters = {} /\ MainLoop
    \/ TabletBundleInsertion
    \/ Quiet /\ Handlers

Spec == Init /\ [][Next]_vars

----------------------------------------------------------------------------
(* Properties.                                                             *)

TypeOK ==
    /\ \A q \in Queries : stage[q] \in 0..Len(Plan[q].stages)
    /\ \A r \in Reads : es[r] \in Active \cup {"Start", "Error", "Cancelled", "Success"}
    /\ \A q \in Writers :
          es[q] \in (Active \ {"WaitingGlobalLockedCols"})
                     \cup {"Start", "Error", "Cancelled", "StageDone", "Finishing"}
    /\ CurWrites \cup DOMAIN committed_writes \subseteq Writers
    /\ waiting_read_protected \cup inserting_read_protected \cup read_protected \subseteq Reads
    /\ ddl_left \subseteq {"Alter", "Drop", "Split"}

\* The reads of stages that hold a protection, in memory or in the log.
Protected ==
    {<<r, 1>> : r \in {x \in Reads : es[x] \in {"Executing", "WaitingGlobalLockedCols", "Success"}}}
    \cup (UNION {{<<q, i>> : i \in verifying_writes[q].reads} : q \in DOMAIN verifying_writes})
    \cup (UNION {{<<q, i>> : i \in inserting_prepared_writes[q].reads} :
                    q \in DOMAIN inserting_prepared_writes})
    \cup (UNION {{<<q, i>> : i \in prepared_writes[q].reads} : q \in DOMAIN prepared_writes})
    \cup (UNION {{<<q, i>> : i \in committed_writes[q].reads} : q \in DOMAIN committed_writes})

\* What a read saw when it was granted is what it would see now: no write
\* with a smaller timestamp commits into its region later, whichever leader
\* grants it (Region Isolation, run_main_loop_iteration and
\* check_write_region_isolation).
ReadsStayValid == \A p \in Protected : observed[p[1]][p[2]] = Visible(p[1], p[2])

\* The queries whose result counts: a read that has answered, a query that
\* has Prepared.
Settled == {r \in Reads : es[r] = "Success"} \cup DOMAIN prepared_writes
             \cup DOMAIN committed_writes

\* The schema that a settled query was planned with is the schema at its
\* timestamp for ever, and the table is not dropped before it (Column
\* Locking and the prepared timestamps of the DDL RMs).
SchemaStays ==
    \A q \in Settled :
        /\ does_query_plan_align(q)
        /\ ddl_es.kind = "Dropped" => timestamp[q] < ddl_es.ts

\* ALTER TABLE is committed at a timestamp above the LAT of its column, also
\* when the locks of its own bundle come first (assert of MVM::write).
AlterIsWritable ==
    \A p \in tablet_bundle \cup inserting_bundle :
        p.type = "DDLCommitted" /\ ddl_es.kind = "Alter" =>
            /\ CanWrite(table_schema, AlterCol, p.of)
            /\ \A id \in inserting_locked_cols :
                  LocksCol(id[1], AlterCol) => timestamp[id[1]] < p.of

\* A query commits with the writes of all of its stages.  It does not if its
\* MSQueryES is aborted between two stages, where nobody is told, and the
\* next stage gets a new one (exit_ms_query_es, get_msquery_id).
CommitsWhole ==
    \A q \in DOMAIN committed_writes :
        \A i \in DOMAIN Plan[q].stages :
            Plan[q].stages[i].writes # {} => i \in committed_writes[q].writes

\* Types, and the asserts and unwraps: ALTER TABLE can be written; current writes differ in their timestamps; a
\* PLm in the log finds its request; a query that Prepares waits for nothing
\* (run_main_loop_iteration, TabletBundle, FinishQueryRMInner::new).
Asserts ==
    /\ TypeOK
    /\ AlterIsWritable
    /\ \A x, y \in CurWrites \cup DOMAIN committed_writes :
          x # y => timestamp[x] # timestamp[y]
    /\ \A p \in inserting_bundle \cup tablet_bundle :
          /\ p.type = "LockedCols" => p.of \in inserting_locked_cols
          /\ p.type = "ReadProtected" => p.of \in inserting_read_protected
          /\ p.type = "Prepared" => p.of \in DOMAIN inserting_prepared_writes
          /\ p.type \in {"Committed", "Aborted"} => p.of \in DOMAIN prepared_writes
    /\ \A q \in DOMAIN verifying_writes :
          es[q] \in {"StageDone", "Finishing"} => verifying_writes[q].waiting = {}

\* A snapshot that was sent for the new Tablet is complete: nothing about
\* its rows commits or is promised afterwards (ShardingSnapshotES).
SnapshotComplete ==
    \A s \in snapshots :
        LET Moved(q) == Plan[q].gen = 0 /\
                        \E i \in DOMAIN Plan[q].stages : Plan[q].stages[i].rows \cap NewRows # {}
        IN  /\ s.writes = MovedWrites /\ DOMAIN prepared_writes \subseteq {q \in Writers : ~Moved(q)}
            /\ \A r \in {x \in Reads : es[x] = "Success" /\ Moved(x)} : r \in s.reads
            /\ \A q \in Settled : Moved(q) =>
                  /\ timestamp[q] <= s.presence
                  /\ \A col \in Plan[q].cols \ {AllCols} : timestamp[q] <= get_lat(s.schema, col)

----------------------------------------------------------------------------
(* Progress.  The Paxos group of the Tablet keeps a Leader, messages       *)
(* arrive, and the other groups answer and decide.                         *)

\* The steps that happen sooner or later.  Every step moves a query, a DDL
\* or a split forward, so that behaviours end: something that must happen
\* eventually happens exactly if no state without such a step lacks it.
FairStep ==
    \/ \E q \in GossipWaiters : gossip_data_changed(q)
    \/ GossipWaiters = {} /\ MainLoop
    \/ TabletBundleInsertion
    \/ \E late \in BOOLEAN : TabletBundle(late)
    \/ GossipData
    \/ \E q \in Queries : \/ PerformQuery(q) /\ stage[q] > 0
                          \/ SubqueryDone(q)
                          \/ CancelQuery(q) /\ es[q] = "Error"
    \/ \E q \in Writers : HandleCommit(q) \/ HandleAbort(q) \/ \E id \in 1..2 : Prepare(q, id)
    \/ \E t \in {ddl_es.ts, ddl_es.ts + 1} : DDLCommit(t)
    \/ DDLAbort \/ ShardingConfirmed

\* No query waits for ever: locks, DDL, writes with a smaller or an equal
\* timestamp and the writers that themselves wait for a read never hold it up
\* for good; and a split that has committed is confirmed, and lets later DDL
\* proceed (run_main_loop, DeadlockSafetyWriteAbort, handle_bundle_processed).
\* Left out: an MSQueryES that CommitsWhole is about, which nobody cleans up
\* once its query is over.
NothingStuck ==
    \/ \E q \in DOMAIN verifying_writes : outcome[q] # "None"
    \/ (\A q \in Queries : es[q] \notin Active) /\ sharding_state = "None"
    \/ ENABLED FairStep
=============================================================================
