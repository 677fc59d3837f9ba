---------------------------- MODULE TabletProofs ----------------------------
(***************************************************************************)
(* A Tablet, for any queries, plans, timestamps, DDL and leader changes:   *)
(* ReadsStayValid, SchemaStays, Asserts and SnapshotComplete.              *)
(*                                                                         *)
(* Region Isolation (Inv).  A write region is held from the moment a stage *)
(* asks for it until its query commits or aborts.  A read is granted only  *)
(* if no held write region before it conflicts with it, and a write region *)
(* is taken only if no granted read after it conflicts with it (Isolation).*)
(* What commits was held, so it is not before a granted read that it       *)
(* conflicts with, and the set of writers that the read sees stays.        *)
(* What remains is control: where a query is (ControlInv), that a read     *)
(* which counts has its protection in memory or in the log (ReadInv), and  *)
(* that a PLm in the bundles finds its request (BundleInv).                *)
(*                                                                         *)
(* Column Locking (SchemaInv).  Whoever has locked columns has the lock in *)
(* the log, as LATs, or as a PLm of a bundle (LocksInv); a DDL that is     *)
(* under way has a timestamp above the LATs and above the locks in the     *)
(* bundles (DDLTimestampInv), so that its commit writes above every query  *)
(* that has been promised the schema, whose plan stays aligned (AlignInv). *)
(*                                                                         *)
(* The split (SplitInv).  After it no query planned before it runs or      *)
(* holds a write; once a snapshot is sent none of them is Prepared either, *)
(* so that what the snapshot holds of their rows is final.                 *)
(***************************************************************************)
EXTENDS Tablet, FiniteSetTheorems, WellFoundedInduction, TLAPS

EsStates == Active \cup {"Start", "Error", "Cancelled", "Success", "StageDone", "Finishing"}
InsertingStates == {"WaitingInsertingPrepared", "InsertingPrepared", "InsertingPreparedAborted"}
PreparedStates == {"Prepared", "InsertingCommitted", "InsertingAborted"}
Stages(q) == DOMAIN Plan[q].stages

\* The entries of the maps of writes: stages of their query.
EntryType(writes, q) ==
    writes[q] \in [id : Nat, reads : SUBSET Stages(q), writes : SUBSET Stages(q)]
MapType(writes) == DOMAIN writes \subseteq Writers /\ \A q \in DOMAIN writes : EntryType(writes, q)
VerifyingType ==
    /\ DOMAIN verifying_writes \subseteq Writers
    /\ \A q \in DOMAIN verifying_writes :
          verifying_writes[q] \in [id : Nat, waiting : SUBSET Stages(q),
                                   reads : SUBSET Stages(q), writes : SUBSET Stages(q)]

\* The types of what the argument is about.
TypeInv ==
    /\ timestamp \in [Queries -> Nat]
    /\ es \in [Queries -> EsStates]
    /\ \A r \in Reads : es[r] \notin {"StageDone", "Finishing"}
    /\ \A q \in Writers : es[q] \notin {"WaitingGlobalLockedCols", "Success"}
    /\ stage \in [Queries -> Nat] /\ \A q \in Queries : stage[q] <= Len(Plan[q].stages)
    /\ waiting_global_locks \in [Queries -> SUBSET {"cols", "read"}]
    /\ DOMAIN observed = Queries /\ \A q \in Queries : DOMAIN observed[q] = Stages(q)
    /\ finish_query \in [Writers -> InsertingStates \cup PreparedStates
                                      \cup {"None", "Committed", "Aborted"}]
    /\ rms \in [Writers -> SUBSET Nat]
    /\ ddl_left \subseteq {"Alter", "Drop", "Split"}

WritesType ==
    /\ VerifyingType /\ MapType(inserting_prepared_writes)
    /\ MapType(prepared_writes) /\ MapType(committed_writes)

ReadsType ==
    /\ waiting_read_protected \subseteq Reads /\ inserting_read_protected \subseteq Reads
    /\ read_protected \subseteq Reads

ColsType ==
    /\ \A id \in waiting_locked_cols \cup inserting_locked_cols :
          \E q \in Queries : \E i \in 1..stage[q] : id = <<q, i>>

\* Where a query is.
ControlInv ==
    /\ \A q \in Queries : es[q] \in Active \cup {"Success"} => stage[q] > 0
    /\ \A q \in Writers : es[q] \in Active => q \in DOMAIN verifying_writes
    /\ \A q \in DOMAIN verifying_writes :
          verifying_writes[q].waiting # {} =>
              es[q] = "Pending" /\ verifying_writes[q].waiting = {stage[q]}
    /\ \A q \in Writers : finish_query[q] # "None" => es[q] = "Finishing"

\* The maps of writes and the states of FinishQueryRMES.
FinishInv ==
    /\ \A q \in DOMAIN inserting_prepared_writes : finish_query[q] \in InsertingStates
    /\ \A q \in Writers : finish_query[q] \in InsertingStates =>
          q \in DOMAIN inserting_prepared_writes
    /\ \A q \in DOMAIN prepared_writes : finish_query[q] \in PreparedStates
    /\ \A q \in Writers : finish_query[q] \in PreparedStates => q \in DOMAIN prepared_writes
    /\ \A q \in DOMAIN committed_writes : finish_query[q] = "Committed"

\* A read that counts has its protection, and if only in memory it waits for it.
ReadInv ==
    /\ \A r \in Reads : es[r] \in {"Executing", "WaitingGlobalLockedCols"} =>
          \/ r \in read_protected
          \/ r \in inserting_read_protected /\ "read" \in waiting_global_locks[r]
    /\ \A r \in Reads : es[r] = "Success" => r \in read_protected

\* The PLms of the bundles find their requests.
BundleInv ==
    /\ \A p \in tablet_bundle \cup inserting_bundle :
          /\ p.type = "LockedCols" => p.of \in inserting_locked_cols
          /\ p.type = "ReadProtected" => p.of \in inserting_read_protected
          /\ p.type = "Committed" => p.of \in Writers /\ finish_query[p.of] = "InsertingCommitted"
          /\ p.type = "Aborted" => p.of \in Writers /\ finish_query[p.of] = "InsertingAborted"
    /\ \A p \in tablet_bundle : p.type # "Prepared"
    /\ \A p \in inserting_bundle : p.type = "Prepared" =>
          p.of \in Writers /\ finish_query[p.of] \in {"InsertingPrepared", "InsertingPreparedAborted"}

\* A request is made once, and its PLm is in one of the bundles.
QueryPLms == {"LockedCols", "ReadProtected", "Prepared", "Committed", "Aborted"}
RequestsInv ==
    /\ waiting_locked_cols \cap inserting_locked_cols = {}
    /\ waiting_read_protected \cap inserting_read_protected = {}
    /\ \A r \in waiting_read_protected \cup inserting_read_protected :
          es[r] \notin {"Start", "ColumnsLocking", "GossipDataWaiting"}
    /\ \A p \in tablet_bundle : \A other \in inserting_bundle :
          p.type = other.type /\ p.type \in QueryPLms => p.of # other.of

\* Stage i of q is protected; the write region of stage j of x is held.
Protects(q, i) ==
    \/ q \in Reads /\ i = 1 /\ es[q] \in {"Executing", "WaitingGlobalLockedCols", "Success"}
    \/ q \in DOMAIN verifying_writes /\ i \in verifying_writes[q].reads
    \/ q \in DOMAIN inserting_prepared_writes /\ i \in inserting_prepared_writes[q].reads
    \/ q \in DOMAIN prepared_writes /\ i \in prepared_writes[q].reads
    \/ q \in DOMAIN committed_writes /\ i \in committed_writes[q].reads
Holds(x, j) ==
    \/ x \in DOMAIN verifying_writes /\ j \in verifying_writes[x].writes
    \/ x \in DOMAIN inserting_prepared_writes /\ j \in inserting_prepared_writes[x].writes
    \/ x \in DOMAIN prepared_writes /\ j \in prepared_writes[x].writes

\* x writes before q reads.
Before(x, q) == timestamp[x] < timestamp[q] \/ (q \in Reads /\ timestamp[x] = timestamp[q])

Isolation ==
    \A q \in Queries : \A i \in Stages(q) : Protects(q, i) =>
        \A x \in Writers : \A j \in Stages(x) : x # q /\ Before(x, q) /\ Holds(x, j) =>
            Isolated(WriteRegion(x, j), ReadRegion(q, i))

Validity ==
    \A q \in Queries : \A i \in Stages(q) : Protects(q, i) => observed[q][i] = Visible(q, i)

\* Queries in the maps of writes differ in their timestamps.
TimestampsInv ==
    \A x, y \in CurWrites \cup DOMAIN committed_writes : x # y => timestamp[x] # timestamp[y]

Inv ==
    /\ TypeInv /\ WritesType /\ ReadsType /\ ColsType
    /\ ControlInv /\ FinishInv /\ ReadInv /\ BundleInv /\ RequestsInv
    /\ Isolation /\ Validity /\ TimestampsInv

----------------------------------------------------------------------------
(* The second invariant: Column Locking, DDL and the split.                *)

\* The schema: LATs are at least min_lat.
MvmOK(m) ==
    /\ m.min_lat \in Nat /\ IsFiniteSet(DOMAIN m.map)
    /\ \A k \in DOMAIN m.map :
          /\ m.map[k].lat \in Nat /\ m.map[k].lat >= m.min_lat
          /\ m.map[k].versions \in Seq([ts : Nat, val : {"Type", NULL}])

DDLStates == {"Working", "InsertingPrepared", "InsertingPreparedAborted", "Prepared",
              "InsertingCommitted", "InsertingAborted", "None"}
SchemaType ==
    /\ MvmOK(table_schema) /\ presence_timestamp \in Nat /\ this_sharding_gen \in 0..1
    /\ ddl_es \in [kind : {"None", "Alter", "Drop", "Split", "Dropped"}, state : DDLStates, ts : Nat]

\* The columns of q are locked; the PLm of its lock is on its way.
ColsLocked(q) ==
    \/ q \in Reads /\ es[q] \in {"GossipDataWaiting", "Pending", "Executing",
                                 "WaitingGlobalLockedCols", "Success"}
    \/ /\ q \in DOMAIN verifying_writes
       /\ es[q] \in {"GossipDataWaiting", "Pending", "Executing", "StageDone", "Finishing"}
    \/ q \in DOMAIN inserting_prepared_writes \cup DOMAIN prepared_writes
               \cup DOMAIN committed_writes
Locking(bundle, q) == \E p \in bundle : p.type = "LockedCols" /\ p.of[1] = q

\* Where the locks of a query are: whoever counts has them in the log.
LocksInv ==
    /\ \A q \in Queries : ColsLocked(q) =>
          GloballyLocked(q) \/ Locking(tablet_bundle \cup inserting_bundle, q)
    /\ \A r \in Reads : ColsLocked(r) /\ "cols" \notin waiting_global_locks[r] => GloballyLocked(r)
    /\ \A r \in Reads : es[r] = "Success" => GloballyLocked(r)
    /\ \A q \in DOMAIN prepared_writes \cup DOMAIN committed_writes : GloballyLocked(q)
    /\ \A p \in inserting_bundle : p.type = "Prepared" =>
          GloballyLocked(p.of) \/ Locking(inserting_bundle, p.of)

\* The plan of a query with locked columns fits the schema.
AlignInv == \A q \in Queries : ColsLocked(q) => does_query_plan_align(q)

\* A DDL under way has a timestamp above everything that has been promised.
DDLTimestampInv ==
    /\ ddl_es.kind = "Alter" =>
          /\ get_lat(table_schema, AlterCol) < ddl_es.ts
          /\ \A id \in inserting_locked_cols :
                LocksCol(id[1], AlterCol) => timestamp[id[1]] < ddl_es.ts
    /\ ddl_es.kind \in {"Drop", "Dropped"} =>
          /\ presence_timestamp < ddl_es.ts
          /\ \A id \in inserting_locked_cols : timestamp[id[1]] < ddl_es.ts

\* The PLms of a DDL and its state.
DDLBundleInv ==
    /\ \A p \in tablet_bundle \cup inserting_bundle :
          /\ p.type = "DDLCommitted" =>
                ddl_es.state = "InsertingCommitted" /\ p.of \in Nat /\ p.of >= ddl_es.ts
          /\ p.type = "DDLAborted" => ddl_es.state = "InsertingAborted"
    /\ \A p \in inserting_bundle : p.type = "DDLPrepared" =>
          ddl_es.state \in {"InsertingPrepared", "InsertingPreparedAborted"}
    /\ \A p \in tablet_bundle : p.type # "DDLPrepared"
    /\ \A p \in tablet_bundle : \A other \in inserting_bundle :
          p.type \in {"DDLCommitted", "DDLAborted"} => p.type # other.type
    /\ ddl_es.kind = "Dropped" => ddl_es.state = "None"
    /\ bundle_applied => inserting_bundle = {}

SchemaInv == SchemaType /\ LocksInv /\ AlignInv /\ DDLTimestampInv /\ DDLBundleInv

\* Queries planned before the split.
Old(q) == Plan[q].gen = 0
ShardingInv ==
    /\ sharding_state # "None" \/ snapshots # {} => this_sharding_gen = 1
    /\ this_sharding_gen = 1 => \A q \in Queries :
          Old(q) => es[q] \notin Active /\ q \notin DOMAIN verifying_writes
    /\ sharding_state \in {"ShardingSnapshotSent", "InsertingShardingConfirmed"} \/ snapshots # {} =>
          \A q \in Writers : Old(q) => finish_query[q] \in {"None", "Committed", "Aborted"}

----------------------------------------------------------------------------
(* Isolation and Validity, by what a step does to the granted reads, the   *)
(* held writes and the committed ones.                                     *)

\* Nothing is granted, asked for or committed.
LEMMA KeepsIsolation ==
    ASSUME Isolation, Validity, timestamp' = timestamp, observed' = observed,
           committed_writes' = committed_writes,
           \A q \in Queries : \A i \in Stages(q) : Protects(q, i)' => Protects(q, i),
           \A x \in Writers : \A j \in Stages(x) : Holds(x, j)' => Holds(x, j)
    PROVE  Isolation' /\ Validity'
<1>1. Isolation'
  BY DEF Isolation, Before
<1>2. \A q, i : Visible(q, i)' = Visible(q, i)
  BY DEF Visible, Conflicts
<1>3. Validity'
  BY <1>2 DEF Validity
<1> QED BY <1>1, <1>3

\* Stage i0 of q0 is granted: no write before it is held that conflicts.
LEMMA GrantIsolates ==
    ASSUME Isolation, Validity, timestamp' = timestamp, committed_writes' = committed_writes,
           NEW q0 \in Queries, NEW i0 \in Stages(q0),
           \A q \in Queries : \A i \in Stages(q) :
               Protects(q, i)' => Protects(q, i) \/ (q = q0 /\ i = i0),
           \A x \in Writers : \A j \in Stages(x) : Holds(x, j)' => Holds(x, j),
           \A x \in Writers : \A j \in Stages(x) : x # q0 /\ Before(x, q0) /\ Holds(x, j) =>
               Isolated(WriteRegion(x, j), ReadRegion(q0, i0)),
           \A q \in Queries : \A i \in Stages(q) :
               (q # q0 \/ i # i0) /\ Protects(q, i) => observed'[q][i] = observed[q][i],
           observed'[q0][i0] = Visible(q0, i0)
    PROVE  Isolation' /\ Validity'
<1>1. Isolation'
  BY DEF Isolation, Before
<1>2. \A q, i : Visible(q, i)' = Visible(q, i)
  BY DEF Visible, Conflicts
<1>3. Validity'
  BY <1>2 DEF Validity
<1> QED BY <1>1, <1>3

\* The write region of stage j0 of x0 is asked for: no granted read after it
\* conflicts.
LEMMA WriteIsolates ==
    ASSUME Isolation, Validity, timestamp' = timestamp, committed_writes' = committed_writes,
           observed' = observed, NEW x0 \in Writers, NEW j0 \in Stages(x0),
           \A q \in Queries : \A i \in Stages(q) : Protects(q, i)' => Protects(q, i),
           \A x \in Writers : \A j \in Stages(x) :
               Holds(x, j)' => Holds(x, j) \/ (x = x0 /\ j = j0),
           \A q \in Queries : \A i \in Stages(q) :
               q # x0 /\ Before(x0, q) /\ Protects(q, i) =>
                   Isolated(WriteRegion(x0, j0), ReadRegion(q, i))
    PROVE  Isolation' /\ Validity'
<1>1. Isolation'
  BY DEF Isolation, Before
<1>2. \A q, i : Visible(q, i)' = Visible(q, i)
  BY DEF Visible, Conflicts
<1>3. Validity'
  BY <1>2 DEF Validity
<1> QED BY <1>1, <1>3

\* Held writes commit: no granted read sees more for it.
LEMMA CommitIsolates ==
    ASSUME Isolation, Validity, timestamp' = timestamp, observed' = observed,
           \A q \in Queries : \A i \in Stages(q) : Protects(q, i)' => Protects(q, i),
           \A x \in Writers : \A j \in Stages(x) : Holds(x, j)' => Holds(x, j),
           MapType(committed_writes), MapType(committed_writes)',
           \A x \in DOMAIN committed_writes :
               x \in DOMAIN committed_writes' /\ committed_writes'[x] = committed_writes[x],
           \A x \in DOMAIN committed_writes' : x \in DOMAIN committed_writes
               \/ \A j \in committed_writes'[x].writes : Holds(x, j)
    PROVE  Isolation' /\ Validity'
<1>1. Isolation'
  BY DEF Isolation, Before
<1>2. ASSUME NEW q \in Queries, NEW i \in Stages(q), Protects(q, i)
      PROVE  Visible(q, i)' = Visible(q, i)
  <2>1. ASSUME NEW x \in Visible(q, i) PROVE x \in Visible(q, i)'
    BY <2>1 DEF Visible, Conflicts
  <2>2. ASSUME NEW x \in Visible(q, i)' PROVE x \in Visible(q, i)
    <3>1. x \in DOMAIN committed_writes' /\ x # q /\ Before(x, q) /\ x \in Writers
      BY <2>2 DEF Visible, Before, MapType
    <3>2. PICK j \in committed_writes'[x].writes : ~Isolated(WriteRegion(x, j), ReadRegion(q, i))
      BY <2>2 DEF Visible, Conflicts
    <3>3. j \in Stages(x)
      BY <3>1, <3>2 DEF MapType, EntryType
    <3>4. x \in DOMAIN committed_writes
      BY <1>2, <3>1, <3>2, <3>3 DEF Isolation
    <3> QED BY <3>1, <3>2, <3>4 DEF Visible, Conflicts, Before
  <2> QED BY <2>1, <2>2
<1>3. Validity'
  BY <1>2 DEF Validity
<1> QED BY <1>1, <1>3

----------------------------------------------------------------------------
(* The steps that touch queries only through the bundles.                  *)

core_vars == <<timestamp, es, stage, waiting_global_locks, observed, finish_query, rms,
               write_vars, read_vars, read_protected, col_vars>>

LEMMA Unmoved ==
    ASSUME Inv, UNCHANGED core_vars, ddl_left' \subseteq {"Alter", "Drop", "Split"},
           \A p \in tablet_bundle' : p \in tablet_bundle \/ p.type \notin QueryPLms,
           \A p \in inserting_bundle' : p \in inserting_bundle \/ p.type \notin QueryPLms
    PROVE  Inv'
<1> USE DEF core_vars, write_vars, read_vars, col_vars
<1>1. TypeInv'
  BY DEF Inv, TypeInv
<1>2. WritesType'
  BY DEF Inv, WritesType, VerifyingType, MapType, EntryType
<1>3. ReadsType' /\ ColsType'
  BY DEF Inv, ReadsType, ColsType
<1>4. ControlInv' /\ FinishInv'
  BY DEF Inv, ControlInv, FinishInv
<1>5. ReadInv'
  BY DEF Inv, ReadInv
<1>6. BundleInv'
  BY DEF Inv, BundleInv, QueryPLms
<1>7. Isolation' /\ Validity'
  BY KeepsIsolation DEF Inv, Protects, Holds
<1>8. TimestampsInv'
  BY DEF Inv, TimestampsInv, CurWrites
<1>R. RequestsInv'
  BY DEF Inv, RequestsInv
<1> QED BY <1>1, <1>2, <1>3, <1>4, <1>5, <1>6, <1>7, <1>8, <1>R DEF Inv

LEMMA GossipDataStep == ASSUME Inv, GossipData PROVE Inv'
<1>1. UNCHANGED core_vars /\ UNCHANGED <<tablet_bundle, inserting_bundle, ddl_left>>
  BY DEF GossipData, core_vars, persisted_vars, es_vars, finish_vars, ddl_vars, bundle_vars
<1> QED BY <1>1, Unmoved DEF Inv, TypeInv

LEMMA DDLPrepareStep == ASSUME Inv, NEW kind, DDLPrepare(kind) PROVE Inv'
<1>1. UNCHANGED core_vars /\ UNCHANGED <<tablet_bundle, inserting_bundle, ddl_left>>
  BY DEF DDLPrepare, core_vars, persisted_vars, es_vars, finish_vars, bundle_vars
<1> QED BY <1>1, Unmoved DEF Inv, TypeInv

LEMMA DDLCommitStep == ASSUME Inv, NEW t, DDLCommit(t) PROVE Inv'
<1>1. UNCHANGED core_vars /\ UNCHANGED <<inserting_bundle, ddl_left>>
  BY DEF DDLCommit, core_vars, persisted_vars, es_vars, finish_vars
<1>2. \A p \in tablet_bundle' : p \in tablet_bundle \/ p.type \notin QueryPLms
  BY DEF DDLCommit, PLm, QueryPLms
<1> QED BY <1>1, <1>2, Unmoved DEF Inv, TypeInv

LEMMA DDLAbortStep == ASSUME Inv, DDLAbort PROVE Inv'
<1>1. UNCHANGED core_vars /\ UNCHANGED inserting_bundle /\ ddl_left' \subseteq ddl_left
  BY DEF DDLAbort, core_vars, persisted_vars, es_vars, finish_vars
<1>2. \A p \in tablet_bundle' : p \in tablet_bundle \/ p.type \notin QueryPLms
  BY DEF DDLAbort, PLm, QueryPLms
<1> QED BY <1>1, <1>2, Unmoved DEF Inv, TypeInv

LEMMA ShardingStep == ASSUME Inv, ShardingConfirmed \/ handle_rlc PROVE Inv'
<1>1. UNCHANGED core_vars /\ UNCHANGED <<inserting_bundle, ddl_left>>
  BY DEF ShardingConfirmed, handle_rlc, core_vars, persisted_vars, es_vars, finish_vars,
         bundle_vars
<1>2. \A p \in tablet_bundle' : p \in tablet_bundle \/ p.type \notin QueryPLms
  BY DEF ShardingConfirmed, handle_rlc, PLm, QueryPLms, bundle_vars
<1> QED BY <1>1, <1>2, Unmoved DEF Inv, TypeInv

LEMMA HandleCommitStep == ASSUME Inv, NEW q \in Writers, HandleCommit(q) PROVE Inv'
<1> USE DEF HandleCommit, write_vars, read_vars, col_vars, es_vars, persisted_vars, ddl_vars
<1>1. TypeInv'
  BY DEF Inv, TypeInv, PreparedStates
<1>2. WritesType'
  BY DEF Inv, WritesType, VerifyingType, MapType, EntryType
<1>3. ReadsType' /\ ColsType'
  BY DEF Inv, ReadsType, ColsType
<1>4. ControlInv'
  BY DEF Inv, ControlInv, TypeInv
<1>5. FinishInv'
  BY DEF Inv, FinishInv, TypeInv, PreparedStates, InsertingStates
<1>6. ReadInv'
  BY DEF Inv, ReadInv
<1>7. BundleInv'
  BY DEF Inv, BundleInv, PLm, TypeInv
<1>8. Isolation' /\ Validity'
  BY KeepsIsolation DEF Inv, Protects, Holds
<1>9. TimestampsInv'
  BY DEF Inv, TimestampsInv, CurWrites
<1>R. RequestsInv'
  BY DEF Inv, RequestsInv, BundleInv, PLm
<1> QED BY <1>1, <1>2, <1>3, <1>4, <1>5, <1>6, <1>7, <1>8, <1>9, <1>R DEF Inv

LEMMA HandleAbortStep == ASSUME Inv, NEW q \in Writers, HandleAbort(q) PROVE Inv'
<1> USE DEF HandleAbort, write_vars, read_vars, col_vars, es_vars, persisted_vars, ddl_vars
<1>1. TypeInv'
  BY DEF Inv, TypeInv, PreparedStates, InsertingStates
<1>2. WritesType'
  BY DEF Inv, WritesType, VerifyingType, MapType, EntryType, Without
<1>3. ReadsType' /\ ColsType'
  BY DEF Inv, ReadsType, ColsType
<1>4. ControlInv'
  BY DEF Inv, ControlInv, TypeInv
<1>a. finish_query' = [finish_query EXCEPT ![q] = finish_query'[q]]
      /\ \A x \in Writers \ {q} : finish_query'[x] = finish_query[x]
  BY DEF Inv, TypeInv
<1>b. \/ /\ finish_query[q] = "WaitingInsertingPrepared" /\ finish_query'[q] = "Aborted"
         /\ inserting_prepared_writes' = Without(inserting_prepared_writes, q)
         /\ tablet_bundle' = tablet_bundle
      \/ /\ finish_query[q] = "InsertingPrepared"
         /\ finish_query'[q] = "InsertingPreparedAborted"
         /\ inserting_prepared_writes' = inserting_prepared_writes
         /\ tablet_bundle' = tablet_bundle
      \/ /\ finish_query[q] = "Prepared" /\ finish_query'[q] = "InsertingAborted"
         /\ inserting_prepared_writes' = inserting_prepared_writes
         /\ tablet_bundle' = tablet_bundle \cup {PLm("Aborted", q)}
  BY DEF Inv, TypeInv
<1>c. UNCHANGED <<prepared_writes, committed_writes, inserting_locked_cols,
                  inserting_read_protected, inserting_bundle>>
  OBVIOUS
<1>d. Inv
  OBVIOUS
<1> HIDE DEF HandleAbort
<1>5. FinishInv'
  <2>1. DOMAIN prepared_writes' = DOMAIN prepared_writes
        /\ DOMAIN committed_writes' = DOMAIN committed_writes
    BY <1>c
  <2>2. CASE finish_query[q] = "WaitingInsertingPrepared"
    BY <1>a, <1>b, <2>1, <2>2 DEF Inv, FinishInv, PreparedStates, InsertingStates, WritesType, MapType, Without
  <2>3. CASE finish_query[q] = "InsertingPrepared"
    BY <1>a, <1>b, <2>1, <2>3 DEF Inv, FinishInv, PreparedStates, InsertingStates, WritesType, MapType
  <2>4. CASE finish_query[q] = "Prepared"
    BY <1>a, <1>b, <2>1, <2>4 DEF Inv, FinishInv, PreparedStates, InsertingStates, WritesType, MapType
  <2> QED BY <1>b, <2>2, <2>3, <2>4
<1>6. ReadInv'
  BY DEF HandleAbort, Inv, ReadInv
<1>7. BundleInv'
  BY <1>a, <1>b, <1>c DEF Inv, BundleInv, PLm
<1>8. Isolation' /\ Validity'
  BY <1>b, KeepsIsolation DEF HandleAbort, Inv, Protects, Holds, Without
<1>9. TimestampsInv'
  BY DEF HandleAbort, Inv, TimestampsInv, CurWrites, Without
<1>R. RequestsInv'
  BY <1>b, <1>c DEF HandleAbort, Inv, RequestsInv, BundleInv, PLm
<1> QED BY <1>1, <1>2, <1>3, <1>4, <1>5, <1>6, <1>7, <1>8, <1>9, <1>R DEF Inv

LEMMA PrepareStep == ASSUME Inv, NEW q \in Writers, NEW id \in 1..2, Prepare(q, id) PROVE Inv'
<1> USE DEF Prepare, write_vars, read_vars, col_vars, es_vars, persisted_vars, ddl_vars,
            bundle_vars
<1>1. TypeInv'
  BY QueriesAssumption DEF Inv, TypeInv, PreparedStates, InsertingStates, EsStates, Queries
<1>2. WritesType'
  BY DEF Inv, WritesType, VerifyingType, MapType, EntryType, Without, With
<1>3. ReadsType' /\ ColsType'
  BY DEF Inv, ReadsType, ColsType
<1>4. ControlInv'
  <2>1. \A x \in Queries : es'[x] \in Active \cup {"Success"} => es[x] = es'[x]
    BY DEF Inv, TypeInv, Active, Queries
  <2>2. /\ DOMAIN verifying_writes' \subseteq DOMAIN verifying_writes
        /\ \A x \in Writers \ {q} : x \in DOMAIN verifying_writes => x \in DOMAIN verifying_writes'
        /\ \A x \in DOMAIN verifying_writes' : verifying_writes'[x] = verifying_writes[x]
    BY DEF Without
  <2>3. es'[q] = "Finishing" /\ \A x \in Queries \ {q} : es'[x] = es[x]
    BY DEF Inv, TypeInv, Queries
  <2>4. \A x \in Writers \ {q} : finish_query'[x] = finish_query[x]
    BY DEF Inv, TypeInv
  <2>5. q \in DOMAIN verifying_writes => verifying_writes[q].waiting = {}
    BY DEF Inv, ControlInv
  <2>6. stage' = stage /\ Inv
    OBVIOUS
  <2> HIDE DEF Prepare
  <2>7. ASSUME NEW x \in Writers, es'[x] \in Active PROVE x \in DOMAIN verifying_writes'
    BY <2>1, <2>2, <2>3, <2>7 DEF Inv, ControlInv, Queries, Active
  <2>8. ASSUME NEW x \in DOMAIN verifying_writes', verifying_writes'[x].waiting # {}
        PROVE  es'[x] = "Pending" /\ verifying_writes'[x].waiting = {stage'[x]}
    <3>1. x # q /\ x \in Queries
      BY <2>2, <2>5, <2>8 DEF Inv, WritesType, VerifyingType, Queries
    <3> QED BY <2>2, <2>3, <2>6, <2>8, <3>1 DEF Inv, ControlInv
  <2>9. ASSUME NEW x \in Writers, finish_query'[x] # "None" PROVE es'[x] = "Finishing"
    BY <2>3, <2>4, <2>9 DEF Inv, ControlInv, Queries
  <2>10. \A x \in Queries : es'[x] \in Active \cup {"Success"} => stage'[x] > 0
    BY <2>1, <2>6 DEF Inv, ControlInv
  <2> QED BY <2>7, <2>8, <2>9, <2>10 DEF ControlInv
<1>5. FinishInv'
  <2>1. \A x \in Writers \ {q} : finish_query'[x] = finish_query[x]
    BY DEF Inv, TypeInv
  <2>2. CASE q \in DOMAIN verifying_writes /\ verifying_writes[q].id = id
    <3>1. finish_query'[q] = "WaitingInsertingPrepared" /\ finish_query[q] = "None"
      BY <2>2 DEF Inv, TypeInv
    <3>2. DOMAIN inserting_prepared_writes' = DOMAIN inserting_prepared_writes \cup {q}
      BY <2>2 DEF With
    <3>3. UNCHANGED <<prepared_writes, committed_writes>> /\ Inv
      OBVIOUS
    <3> HIDE DEF Prepare
    <3> QED BY <2>1, <3>1, <3>2, <3>3 DEF Inv, FinishInv, PreparedStates, InsertingStates, WritesType, MapType
  <2>3. CASE ~(q \in DOMAIN verifying_writes /\ verifying_writes[q].id = id)
    BY <2>3 DEF Inv, FinishInv
  <2> QED BY <2>2, <2>3
<1>6. ReadInv'
  BY QueriesAssumption DEF Inv, ReadInv, TypeInv, Queries
<1>7. BundleInv'
  BY DEF Inv, BundleInv, TypeInv
<1>8. Isolation' /\ Validity'
  <2>1. \A r \in Reads : es'[r] = es[r]
    BY QueriesAssumption DEF Inv, TypeInv, Queries
  <2>2. \A x \in Queries : \A i \in Stages(x) : Protects(x, i)' => Protects(x, i)
    BY <2>1 DEF Protects, Without, With
  <2>3. \A x \in Writers : \A i \in Stages(x) : Holds(x, i)' => Holds(x, i)
    BY DEF Holds, Without, With
  <2> QED BY <2>2, <2>3, KeepsIsolation DEF Inv
<1>9. TimestampsInv'
  BY DEF Inv, TimestampsInv, CurWrites, Without, With
<1>R. RequestsInv'
  <2>1. \A r \in Reads : es'[r] = es[r]
    BY QueriesAssumption DEF Inv, TypeInv, Queries
  <2> QED BY <2>1 DEF Inv, RequestsInv, ReadsType
<1> QED BY <1>1, <1>2, <1>3, <1>4, <1>5, <1>6, <1>7, <1>8, <1>9, <1>R DEF Inv

LEMMA CancelQueryStep == ASSUME Inv, NEW q \in Queries, CancelQuery(q) PROVE Inv'
<1> USE DEF CancelQuery, write_vars, read_vars, col_vars, es_vars, persisted_vars, ddl_vars,
            bundle_vars, finish_vars
<1>0. es'[q] = "Cancelled" /\ \A x \in Queries \ {q} : es'[x] = es[x]
  BY DEF Inv, TypeInv, Queries
<1>1. TypeInv'
  BY DEF Inv, TypeInv, EsStates, Queries
<1>2. WritesType'
  BY DEF Inv, WritesType, VerifyingType, MapType, EntryType, Without
<1>3. ReadsType' /\ ColsType'
  BY DEF Inv, ReadsType, ColsType
<1>4. ControlInv'
  <2>1. q \in Writers => finish_query[q] = "None"
    BY DEF Inv, ControlInv, Active
  <2> QED BY <1>0, <2>1 DEF Inv, ControlInv, Queries, Active, WritesType, VerifyingType, Without
<1>5. FinishInv'
  BY DEF Inv, FinishInv
<1>6. ReadInv'
  BY <1>0 DEF Inv, ReadInv, Queries
<1>7. BundleInv'
  BY DEF Inv, BundleInv
<1>8. Isolation' /\ Validity'
  <2>2. \A x \in Queries : \A i \in Stages(x) : Protects(x, i)' => Protects(x, i)
    BY <1>0 DEF Protects, Without
  <2>3. \A x \in Writers : \A i \in Stages(x) : Holds(x, i)' => Holds(x, i)
    BY DEF Holds, Without
  <2> QED BY <2>2, <2>3, KeepsIsolation DEF Inv
<1>9. TimestampsInv'
  BY DEF Inv, TimestampsInv, CurWrites, Without
<1>R. RequestsInv'
  BY <1>0 DEF Inv, RequestsInv, ReadsType, Queries
<1> QED BY <1>1, <1>2, <1>3, <1>4, <1>5, <1>6, <1>7, <1>8, <1>9, <1>R DEF Inv

LEMMA SubqueryDoneStep == ASSUME Inv, NEW q \in Queries, SubqueryDone(q) PROVE Inv'
<1> USE DEF SubqueryDone, write_vars, read_vars, col_vars, es_vars, persisted_vars, ddl_vars,
            bundle_vars
<1>0. /\ es[q] = "Executing"
      /\ es'[q] = Finished(q, waiting_global_locks[q]) \/ es'[q] = "Error"
      /\ \A x \in Queries \ {q} : es'[x] = es[x]
  BY DEF Inv, TypeInv, Queries
<1>a. /\ q \in Writers => es'[q] \in {"StageDone", "Error"}
      /\ q \in Reads => es'[q] \in {"Success", "WaitingGlobalLockedCols", "Error"}
      /\ es'[q] = "Success" => waiting_global_locks[q] = {}
      /\ q \in Writers => q \in DOMAIN verifying_writes
  BY <1>0, QueriesAssumption DEF Finished, Inv, ControlInv, Active
<1>1. TypeInv'
  <2>1. es' \in [Queries -> EsStates]
    BY <1>a DEF Inv, TypeInv, EsStates, Active, Queries, Finished
  <2>2. rms' \in [Writers -> SUBSET Nat]
    <3>1. q \in Writers => verifying_writes[q].id \in Nat
      BY <1>a DEF Inv, WritesType, VerifyingType
    <3>2. q \in Writers => NewRMs(q) \in SUBSET Nat
      BY <3>1 DEF Inv, TypeInv, NewRMs
    <3>3. rms \in [Writers -> SUBSET Nat]
      BY DEF Inv, TypeInv
    <3> QED BY <3>2, <3>3
  <2> QED BY <1>0, <1>a, <2>1, <2>2 DEF Inv, TypeInv, Queries
<1>2. WritesType'
  BY DEF Inv, WritesType, VerifyingType, MapType, EntryType
<1>3. ReadsType' /\ ColsType'
  BY DEF Inv, ReadsType, ColsType
<1>4. ControlInv'
  <2>1. q \in Writers => finish_query[q] = "None" /\ verifying_writes[q].waiting = {}
    BY <1>0, <1>a DEF Inv, ControlInv
  <2> QED BY <1>0, <1>a, <2>1 DEF Inv, ControlInv, Queries, Active, WritesType, VerifyingType
<1>5. FinishInv'
  BY DEF Inv, FinishInv
<1>6. ReadInv'
  BY <1>0, <1>a DEF Inv, ReadInv, Queries
<1>7. BundleInv'
  BY DEF Inv, BundleInv
<1>8. Isolation' /\ Validity'
  <2>2. \A x \in Queries : \A i \in Stages(x) : Protects(x, i)' => Protects(x, i)
    BY <1>0 DEF Protects
  <2>3. \A x \in Writers : \A i \in Stages(x) : Holds(x, i)' => Holds(x, i)
    BY DEF Holds
  <2> QED BY <2>2, <2>3, KeepsIsolation DEF Inv
<1>9. TimestampsInv'
  BY DEF Inv, TimestampsInv, CurWrites
<1>R. RequestsInv'
  BY <1>0, <1>a DEF Inv, RequestsInv, ReadsType, Queries
<1> QED BY <1>1, <1>2, <1>3, <1>4, <1>5, <1>6, <1>7, <1>8, <1>9, <1>R DEF Inv

LEMMA DeadlockSafetyStep ==
    ASSUME Inv, NEW q \in DOMAIN verifying_writes, DeadlockSafetyWriteAbort(q) PROVE Inv'
<1> USE DEF DeadlockSafetyWriteAbort, write_vars, read_vars, col_vars, es_vars, persisted_vars,
            ddl_vars, bundle_vars, finish_vars
<1>q. q \in Writers /\ q \in Queries /\ q \notin Reads
  BY QueriesAssumption DEF Inv, WritesType, VerifyingType, Queries
<1>0. /\ es'[q] = IF es[q] \in Active THEN "Error" ELSE es[q]
      /\ \A x \in Queries \ {q} : es'[x] = es[x]
  BY <1>q DEF Inv, TypeInv, Queries
<1>1. TypeInv'
  BY <1>q DEF Inv, TypeInv, EsStates, Queries
<1>2. WritesType'
  BY DEF Inv, WritesType, VerifyingType, MapType, EntryType, Without
<1>3. ReadsType' /\ ColsType'
  BY DEF Inv, ReadsType, ColsType
<1>4. ControlInv'
  <2>1. finish_query[q] # "None" => es'[q] = "Finishing"
    BY <1>q, <1>0 DEF Inv, ControlInv, Active
  <2>2. es'[q] \notin Active
    BY <1>0 DEF Active
  <2>3. es'[q] = "Success" => es[q] = "Success"
    BY <1>0
  <2> QED BY <1>q, <1>0, <2>1, <2>2, <2>3
       DEF Inv, ControlInv, Queries, WritesType, VerifyingType, Without
<1>5. FinishInv'
  BY DEF Inv, FinishInv
<1>6. ReadInv'
  BY <1>q, <1>0 DEF Inv, ReadInv, Queries
<1>7. BundleInv'
  BY DEF Inv, BundleInv
<1>8. Isolation' /\ Validity'
  <2>2. \A x \in Queries : \A i \in Stages(x) : Protects(x, i)' => Protects(x, i)
    BY <1>q, <1>0 DEF Protects, Without, Queries
  <2>3. \A x \in Writers : \A i \in Stages(x) : Holds(x, i)' => Holds(x, i)
    BY DEF Holds, Without
  <2> QED BY <2>2, <2>3, KeepsIsolation DEF Inv
<1>9. TimestampsInv'
  BY DEF Inv, TimestampsInv, CurWrites, Without
<1>R. RequestsInv'
  BY <1>q, <1>0 DEF Inv, RequestsInv, ReadsType, Queries
<1> QED BY <1>1, <1>2, <1>3, <1>4, <1>5, <1>6, <1>7, <1>8, <1>9, <1>R DEF Inv

LEMMA PerformQueryStep == ASSUME Inv, NEW q \in Queries, PerformQuery(q) PROVE Inv'
<1> DEFINE entry == [id |-> stage[q] + 1, waiting |-> {}, reads |-> {}, writes |-> {}]
           fresh == q \in Writers /\ q \notin DOMAIN verifying_writes
           refused == Plan[q].gen < this_sharding_gen \/ (fresh /\ TimestampConflict(q))
<1>0. /\ es[q] \in {"Start", "StageDone"} /\ stage[q] < Len(Plan[q].stages)
      /\ stage' = [stage EXCEPT ![q] = stage[q] + 1]
      /\ \/ /\ es' = [es EXCEPT ![q] = "Error"]
            /\ UNCHANGED <<waiting_locked_cols, verifying_writes>>
         \/ /\ es' = [es EXCEPT ![q] = "ColumnsLocking"]
            /\ waiting_locked_cols' = waiting_locked_cols \cup {<<q, stage[q] + 1>>}
            /\ \/ /\ fresh /\ verifying_writes' = With(verifying_writes, q, entry)
                  /\ ~TimestampConflict(q)
               \/ ~fresh /\ verifying_writes' = verifying_writes
  BY DEF PerformQuery, NextStage
<1>u. UNCHANGED <<timestamp, read_protected, inserting_prepared_writes, prepared_writes,
                  committed_writes, waiting_read_protected, inserting_read_protected,
                  inserting_locked_cols, waiting_global_locks, observed, finish_query, rms,
                  ddl_left, tablet_bundle, inserting_bundle>>
  BY DEF PerformQuery, read_vars, persisted_vars, ddl_vars, bundle_vars, finish_vars
<1> HIDE DEF entry, fresh, refused
<1>a. /\ es'[q] \in {"Error", "ColumnsLocking"} /\ stage'[q] = stage[q] + 1
      /\ \A x \in Queries \ {q} : es'[x] = es[x] /\ stage'[x] = stage[x]
      /\ stage[q] \in Nat /\ Len(Plan[q].stages) \in Nat
  BY <1>0, PlanAssumption DEF Inv, TypeInv, PlanOK
<1>b. /\ \A x \in DOMAIN verifying_writes : x \in DOMAIN verifying_writes'
                                            /\ verifying_writes'[x] = verifying_writes[x]
      /\ \A x \in DOMAIN verifying_writes' : x \in DOMAIN verifying_writes
             \/ (x = q /\ q \in Writers /\ verifying_writes'[x] = entry)
      /\ q \in Writers /\ es'[q] = "ColumnsLocking" => q \in DOMAIN verifying_writes'
  <2>1. CASE verifying_writes' = verifying_writes
    <3>1. es'[q] = "ColumnsLocking" => ~fresh \/ q \in DOMAIN verifying_writes'
      BY <1>0 DEF With, Inv, TypeInv
    <3> QED BY <2>1, <3>1 DEF fresh
  <2>2. CASE fresh /\ verifying_writes' = With(verifying_writes, q, entry)
    <3>1. /\ DOMAIN verifying_writes' = DOMAIN verifying_writes \cup {q}
          /\ verifying_writes'[q] = entry
          /\ \A x \in DOMAIN verifying_writes : x # q => verifying_writes'[x] = verifying_writes[x]
      BY <2>2 DEF With
    <3>2. \A x \in DOMAIN verifying_writes : x # q
      BY <2>2 DEF fresh
    <3>3. \A x \in DOMAIN verifying_writes : x \in DOMAIN verifying_writes'
                                            /\ verifying_writes'[x] = verifying_writes[x]
      BY <3>1, <3>2
    <3>4. \A x \in DOMAIN verifying_writes' : x \in DOMAIN verifying_writes
             \/ (x = q /\ q \in Writers /\ verifying_writes'[x] = entry)
      BY <2>2, <3>1 DEF fresh
    <3> QED BY <3>1, <3>3, <3>4
  <2> QED BY <1>0, <2>1, <2>2
<1>c. entry \in [id : Nat, waiting : SUBSET Stages(q), reads : SUBSET Stages(q),
                 writes : SUBSET Stages(q)]
      /\ entry.waiting = {} /\ entry.reads = {} /\ entry.writes = {}
  BY <1>a DEF entry
<1>1. TypeInv'
  <2>1. es' \in [Queries -> EsStates]
    BY <1>0 DEF Inv, TypeInv, EsStates, Active
  <2>2. stage' \in [Queries -> Nat] /\ \A x \in Queries : stage'[x] <= Len(Plan[x].stages)
    BY <1>0, <1>a DEF Inv, TypeInv
  <2> QED BY <1>a, <1>u, <2>1, <2>2 DEF Inv, TypeInv, Queries
<1>2. WritesType'
  <2>1. VerifyingType'
    BY <1>b, <1>c DEF Inv, WritesType, VerifyingType
  <2> QED BY <1>u, <2>1 DEF Inv, WritesType, MapType, EntryType
<1>3. ReadsType'
  BY <1>u DEF Inv, ReadsType
<1>4. ColsType'
  <2> SUFFICES ASSUME NEW id \in waiting_locked_cols' \cup inserting_locked_cols'
               PROVE  \E x \in Queries : \E i \in 1..stage'[x] : id = <<x, i>>
    BY DEF ColsType
  <2>1. CASE id \in waiting_locked_cols \cup inserting_locked_cols
    <3>0. PICK x \in Queries : \E i \in 1..stage[x] : id = <<x, i>>
      BY <2>1 DEF Inv, ColsType
    <3>1. PICK i \in 1..stage[x] : id = <<x, i>>
      BY <3>0
    <3>2. i \in 1..stage'[x]
      <4>1. stage[x] \in Nat /\ (stage'[x] = stage[x] \/ stage'[x] = stage[x] + 1)
        BY <1>a DEF Inv, TypeInv
      <4> QED BY <4>1
    <3> QED BY <3>1, <3>2
  <2>2. CASE id = <<q, stage[q] + 1>>
    <3>1. stage[q] + 1 \in 1..stage'[q]
      BY <1>a
    <3> QED BY <2>2, <3>1
  <2> QED BY <1>0, <1>u, <2>1, <2>2
<1>5. ControlInv'
  <2>1. q \in Writers => finish_query[q] = "None"
    BY <1>0 DEF Inv, ControlInv
  <2>2. q \in DOMAIN verifying_writes => verifying_writes[q].waiting = {}
    BY <1>0 DEF Inv, ControlInv
  <2>3. \A x \in Queries : es'[x] \in Active \cup {"Success"} => stage'[x] > 0
    BY <1>a DEF Inv, ControlInv
  <2>4. \A x \in Writers : es'[x] \in Active => x \in DOMAIN verifying_writes'
    BY <1>a, <1>b DEF Inv, ControlInv, Queries, Active
  <2>5. ASSUME NEW x \in DOMAIN verifying_writes', verifying_writes'[x].waiting # {}
        PROVE  es'[x] = "Pending" /\ verifying_writes'[x].waiting = {stage'[x]}
    <3>1. x # q /\ x \in DOMAIN verifying_writes /\ x \in Queries
      BY <1>b, <1>c, <2>2, <2>5 DEF Inv, WritesType, VerifyingType, Queries
    <3> QED BY <1>a, <1>b, <2>5, <3>1 DEF Inv, ControlInv
  <2>6. \A x \in Writers : finish_query'[x] # "None" => es'[x] = "Finishing"
    BY <1>a, <1>u, <2>1 DEF Inv, ControlInv, Queries
  <2> QED BY <2>3, <2>4, <2>5, <2>6 DEF ControlInv
<1>6. FinishInv'
  BY <1>u DEF Inv, FinishInv
<1>7. ReadInv'
  BY <1>a, <1>u DEF Inv, ReadInv, Queries
<1>8. BundleInv'
  BY <1>u DEF Inv, BundleInv
<1>9. Isolation' /\ Validity'
  <2>2. \A x \in Queries : \A i \in Stages(x) : Protects(x, i)' => Protects(x, i)
    BY <1>a, <1>b, <1>c, <1>u DEF Protects
  <2>3. \A x \in Writers : \A i \in Stages(x) : Holds(x, i)' => Holds(x, i)
    BY <1>b, <1>c, <1>u DEF Holds
  <2> QED BY <1>u, <2>2, <2>3, KeepsIsolation DEF Inv
<1>10. TimestampsInv'
  <2>1. (CurWrites \cup DOMAIN committed_writes)' \subseteq
            CurWrites \cup DOMAIN committed_writes \cup {q}
    BY <1>b, <1>u DEF CurWrites
  <2>2. \/ (CurWrites \cup DOMAIN committed_writes)' \subseteq CurWrites \cup DOMAIN committed_writes
        \/ ~TimestampConflict(q)
    BY <1>0, <1>u DEF CurWrites
  <2>3. CASE ~TimestampConflict(q)
    BY <1>u, <2>1, <2>3 DEF Inv, TimestampsInv, TimestampConflict
  <2> QED BY <1>u, <2>2, <2>3 DEF Inv, TimestampsInv
<1>R. RequestsInv'
  <2>1. \A r \in waiting_read_protected \cup inserting_read_protected : r # q /\ r \in Queries
    BY <1>0 DEF Inv, RequestsInv, ReadsType, TypeInv, Queries
  <2>2. <<q, stage[q] + 1>> \notin inserting_locked_cols
    <3> SUFFICES ASSUME <<q, stage[q] + 1>> \in inserting_locked_cols PROVE FALSE
      OBVIOUS
    <3>1. PICK x \in Queries : \E i \in 1..stage[x] : <<q, stage[q] + 1>> = <<x, i>>
      BY DEF Inv, ColsType
    <3>2. stage[q] + 1 \in 1..stage[q]
      BY <3>1
    <3> QED BY <1>a, <3>2
  <2> QED BY <1>0, <1>a, <1>u, <2>1, <2>2 DEF Inv, RequestsInv
<1> QED BY <1>1, <1>2, <1>3, <1>4, <1>5, <1>6, <1>7, <1>8, <1>9, <1>10, <1>R DEF Inv

----------------------------------------------------------------------------
(* The Main Loop.                                                          *)

\* Locked columns: the ES may ask for its region, then a write is isolated
\* from the granted reads after it.
LEMMA LockedStep ==
    ASSUME Inv, NEW q \in Queries, NEW i \in Stages(q), NEW newes, Locked(q, i, newes),
           \/ newes = es
           \/ /\ newes = [es EXCEPT ![q] = newes[q]]
              /\ newes[q] \in {"Asking", "GossipDataWaiting", "Error"}
              /\ es[q] \in {"ColumnsLocking", "GossipDataWaiting"} /\ stage[q] = i,
           UNCHANGED <<timestamp, read_protected, finish_query, rms, ddl_left, inserting_bundle>>,
           waiting_global_locks' \in [Queries -> SUBSET {"cols", "read"}],
           \A r \in Queries : waiting_global_locks[r] \subseteq waiting_global_locks'[r],
           waiting_locked_cols' \subseteq waiting_locked_cols,
           inserting_locked_cols \subseteq inserting_locked_cols',
           inserting_locked_cols' \subseteq waiting_locked_cols \cup inserting_locked_cols,
           waiting_locked_cols' \cap inserting_locked_cols' = {},
           \A p \in tablet_bundle' : \/ p \in tablet_bundle
                                     \/ p.type = "LockedCols" /\ p.of \in inserting_locked_cols'
                                        /\ p.of \notin inserting_locked_cols
    PROVE  Inv'
<1> DEFINE asks == newes[q] = "Asking"
           writes == Plan[q].stages[i].writes # {}
           asked == [verifying_writes[q] EXCEPT !.waiting = @ \cup {i},
                                                !.writes = IF writes THEN @ \cup {i} ELSE @]
<1>u. UNCHANGED <<inserting_read_protected, inserting_prepared_writes, prepared_writes,
                  committed_writes, stage, observed>>
  BY DEF Locked
<1>r. q \in Reads => q \notin Writers
  BY QueriesAssumption
<1>e. es \in [Queries -> EsStates] /\ es[q] # "Asking"
  BY DEF Inv, TypeInv, EsStates, Active
<1>0. asks => es[q] \in {"ColumnsLocking", "GossipDataWaiting"} /\ stage[q] = i
  BY <1>e DEF Inv, TypeInv, EsStates, Active
<1>a. /\ es'[q] = es[q] \/ (es[q] \in {"ColumnsLocking", "GossipDataWaiting"}
                            /\ es'[q] \in {"GossipDataWaiting", "Error", "Pending"})
      /\ es'[q] \in EsStates
      /\ \A x \in Queries \ {q} : es'[x] = es[x]
      /\ DOMAIN es' = Queries /\ es' = [x \in Queries |-> es'[x]]
  <2>1. CASE newes = es
    BY <1>e, <2>1 DEF Locked
  <2>2. CASE newes = [es EXCEPT ![q] = newes[q]]
    BY <1>e, <2>2 DEF Locked, EsStates, Active
  <2> QED BY <2>1, <2>2
<1>b. waiting_read_protected' = waiting_read_protected
      \/ (q \in Reads /\ waiting_read_protected' = waiting_read_protected \cup {q})
  BY DEF Locked
<1>g. waiting_read_protected' = waiting_read_protected
      \/ (/\ q \in Reads /\ waiting_read_protected' = waiting_read_protected \cup {q}
          /\ asks /\ es'[q] = "Pending")
  <2>1. CASE newes = es
    BY <1>e, <2>1 DEF Locked
  <2>2. CASE newes = [es EXCEPT ![q] = newes[q]]
    BY <1>e, <2>2 DEF Locked
  <2> QED BY <2>1, <2>2
<1>c. \/ verifying_writes' = verifying_writes
      \/ /\ asks /\ q \in Writers /\ es'[q] = "Pending"
         /\ q \in Reads \/ ~writes \/ check_write_region_isolation(q, i)
         /\ verifying_writes' = [verifying_writes EXCEPT
                                   ![q].waiting = @ \cup {i},
                                   ![q].writes = IF writes THEN @ \cup {i} ELSE @]
  <2>1. CASE newes = es
    BY <1>e, <2>1 DEF Locked
  <2>2. CASE newes = [es EXCEPT ![q] = newes[q]]
    BY <1>e, <2>2 DEF Locked
  <2> QED BY <2>1, <2>2
<1>d. \/ verifying_writes' = verifying_writes
      \/ /\ asks /\ q \in Writers /\ q \in DOMAIN verifying_writes /\ es'[q] = "Pending"
         /\ ~writes \/ check_write_region_isolation(q, i)
         /\ DOMAIN verifying_writes' = DOMAIN verifying_writes
         /\ verifying_writes'[q] = asked
         /\ \A x \in DOMAIN verifying_writes \ {q} : verifying_writes'[x] = verifying_writes[x]
  <2>1. CASE verifying_writes' = verifying_writes
    BY <2>1
  <2>2. CASE verifying_writes' # verifying_writes
    <3>1. q \in Writers /\ q \in DOMAIN verifying_writes
      BY <1>0, <1>c, <2>2 DEF Inv, ControlInv, Active
    <3>2. verifying_writes[q] \in [id : Nat, waiting : SUBSET Stages(q),
                                   reads : SUBSET Stages(q), writes : SUBSET Stages(q)]
      BY <3>1 DEF Inv, WritesType, VerifyingType
    <3> HIDE DEF writes, asks
    <3>3. verifying_writes'[q] = asked
      BY <1>c, <2>2, <3>1, <3>2
    <3>4. DOMAIN verifying_writes' = DOMAIN verifying_writes
          /\ \A x \in DOMAIN verifying_writes \ {q} : verifying_writes'[x] = verifying_writes[x]
      BY <1>c, <2>2
    <3> QED BY <1>c, <1>r, <2>2, <3>1, <3>3, <3>4
  <2> QED BY <2>1, <2>2
<1>f. q \in DOMAIN verifying_writes =>
         /\ asked \in [id : Nat, waiting : SUBSET Stages(q),
                       reads : SUBSET Stages(q), writes : SUBSET Stages(q)]
         /\ asked.waiting = verifying_writes[q].waiting \cup {i}
         /\ asked.reads = verifying_writes[q].reads
         /\ asked.writes = IF writes THEN verifying_writes[q].writes \cup {i}
                           ELSE verifying_writes[q].writes
  <2> HIDE DEF writes
  <2>1. SUFFICES ASSUME q \in DOMAIN verifying_writes
        PROVE  /\ asked \in [id : Nat, waiting : SUBSET Stages(q),
                             reads : SUBSET Stages(q), writes : SUBSET Stages(q)]
               /\ asked.waiting = verifying_writes[q].waiting \cup {i}
               /\ asked.reads = verifying_writes[q].reads
               /\ asked.writes = IF writes THEN verifying_writes[q].writes \cup {i}
                                 ELSE verifying_writes[q].writes
    OBVIOUS
  <2>2. verifying_writes[q] \in [id : Nat, waiting : SUBSET Stages(q),
                                 reads : SUBSET Stages(q), writes : SUBSET Stages(q)]
    BY <2>1 DEF Inv, WritesType, VerifyingType
  <2> QED BY <2>2
<1> HIDE DEF asked, asks, writes
<1>1. TypeInv'
  <2>1. es' \in [Queries -> EsStates]
    BY <1>a, <1>e
  <2>2. \A r \in Reads : es'[r] \notin {"StageDone", "Finishing"}
    BY <1>a DEF Inv, TypeInv, Queries
  <2>3. \A x \in Writers : es'[x] \notin {"WaitingGlobalLockedCols", "Success"}
    BY <1>a DEF Inv, TypeInv, Queries
  <2> QED BY <1>u, <2>1, <2>2, <2>3 DEF Inv, TypeInv
<1>2. WritesType'
  <2>1. VerifyingType'
    BY <1>d, <1>f DEF Inv, WritesType, VerifyingType
  <2> QED BY <1>u, <2>1 DEF Inv, WritesType, MapType, EntryType
<1>3. ReadsType'
  BY <1>u, <1>b DEF Inv, ReadsType
<1>4. ColsType'
  BY <1>u DEF Inv, ColsType
<1>5. ControlInv'
  <2>1. \A x \in Queries : es'[x] \in Active \cup {"Success"} => stage'[x] > 0
    BY <1>a, <1>u DEF Inv, ControlInv, Active
  <2>2. DOMAIN verifying_writes' = DOMAIN verifying_writes
    BY <1>d
  <2>3. \A x \in Writers : es'[x] \in Active => x \in DOMAIN verifying_writes'
    BY <1>a, <2>2 DEF Inv, ControlInv, Active, Queries
  <2>4. ASSUME NEW x \in DOMAIN verifying_writes', verifying_writes'[x].waiting # {}
        PROVE  es'[x] = "Pending" /\ verifying_writes'[x].waiting = {stage'[x]}
    <3>0. x \in Queries
      BY <2>2 DEF Inv, WritesType, VerifyingType, Queries
    <3>1. CASE verifying_writes'[x] = verifying_writes[x]
      BY <1>a, <1>u, <2>2, <2>4, <3>0, <3>1 DEF Inv, ControlInv
    <3>2. CASE verifying_writes'[x] # verifying_writes[x]
      <4>1. x = q /\ asks /\ verifying_writes'[q] = asked /\ es'[q] = "Pending"
        BY <1>d, <2>2, <3>2
      <4>2. verifying_writes[q].waiting = {}
        BY <1>0, <2>2, <4>1 DEF Inv, ControlInv
      <4> QED BY <1>0, <1>f, <1>u, <2>2, <4>1, <4>2
    <3> QED BY <3>1, <3>2
  <2>5. \A x \in Writers : finish_query'[x] # "None" => es'[x] = "Finishing"
    BY <1>a DEF Inv, ControlInv, Queries
  <2> QED BY <2>1, <2>3, <2>4, <2>5 DEF ControlInv
<1>6. FinishInv'
  BY <1>u DEF Inv, FinishInv
<1>7. ReadInv'
  BY <1>a, <1>u DEF Inv, ReadInv, Queries
<1>8. BundleInv'
  BY <1>u DEF Inv, BundleInv
<1>9. Isolation' /\ Validity'
  <2>1. \A x \in Queries : \A j \in Stages(x) : Protects(x, j)' => Protects(x, j)
    BY <1>a, <1>d, <1>f, <1>u DEF Protects, Queries
  <2>2. CASE q \in Writers /\ check_write_region_isolation(q, i)
    <3>1. \A x \in Writers : \A j \in Stages(x) : Holds(x, j)' => Holds(x, j) \/ (x = q /\ j = i)
      BY <1>d, <1>f, <1>u DEF Holds
    <3>2. ASSUME NEW x \in Queries, NEW j \in Stages(x), x # q, Before(q, x), Protects(x, j)
          PROVE  Isolated(WriteRegion(q, i), ReadRegion(x, j))
      <4>1. CASE x \in Reads
        <5>1. j = 1 /\ es[x] \in {"Executing", "WaitingGlobalLockedCols", "Success"}
          BY <3>2, <4>1, QueriesAssumption DEF Protects, Inv, WritesType, VerifyingType, MapType
        <5>2. x \in read_protected \cup inserting_read_protected
          BY <4>1, <5>1 DEF Inv, ReadInv
        <5>3. timestamp[x] >= timestamp[q]
          BY <3>2 DEF Before, Inv, TypeInv
        <5> QED BY <2>2, <5>1, <5>2, <5>3 DEF check_write_region_isolation
      <4>2. CASE x \notin Reads
        <5>1. timestamp[x] > timestamp[q]
          BY <3>2, <4>2 DEF Before, Inv, TypeInv
        <5> QED BY <2>2, <3>2, <4>2, <5>1 DEF check_write_region_isolation, Protects
      <4> QED BY <4>1, <4>2
    <3> QED BY <1>u, <2>1, <2>2, <3>1, <3>2, WriteIsolates DEF Inv
  <2>3. CASE ~(q \in Writers /\ check_write_region_isolation(q, i))
    <3>1. \A x \in Writers : \A j \in Stages(x) : Holds(x, j)' => Holds(x, j)
      BY <1>d, <1>f, <1>u, <2>3 DEF Holds
    <3> QED BY <1>u, <2>1, <3>1, KeepsIsolation DEF Inv
  <2> QED BY <2>2, <2>3
<1>10. TimestampsInv'
  BY <1>d, <1>u DEF Inv, TimestampsInv, CurWrites
<1>R. RequestsInv'
  <2>1. \A r \in waiting_read_protected' : r \in waiting_read_protected
           \/ (r = q /\ q \in Reads /\ es'[q] = "Pending"
               /\ es[q] \in {"ColumnsLocking", "GossipDataWaiting"})
    BY <1>0, <1>g
  <2>2. \A r \in waiting_read_protected \cup inserting_read_protected : (r \in Queries /\ r # q) \/
           es'[r] \notin {"Start", "ColumnsLocking", "GossipDataWaiting"}
    BY <1>a DEF Inv, RequestsInv, ReadsType, Queries
  <2>3. waiting_read_protected' \cap inserting_read_protected' = {}
    BY <1>u, <2>1 DEF Inv, RequestsInv
  <2>4. \A r \in (waiting_read_protected \cup inserting_read_protected)' :
          es'[r] \notin {"Start", "ColumnsLocking", "GossipDataWaiting"}
    BY <1>a, <1>u, <2>1, <2>2 DEF Inv, RequestsInv
  <2>5. \A p \in tablet_bundle' : \A other \in inserting_bundle' :
          p.type = other.type /\ p.type \in QueryPLms => p.of # other.of
    BY DEF Inv, RequestsInv, BundleInv
  <2> QED BY <2>3, <2>4, <2>5 DEF RequestsInv
<1> QED BY <1>1, <1>2, <1>3, <1>4, <1>5, <1>6, <1>7, <1>8, <1>9, <1>10, <1>R DEF Inv

LEMMA StagesOf ==
    ASSUME Inv, NEW q \in Queries
    PROVE  /\ stage[q] \in Nat /\ Stages(q) = 1..Len(Plan[q].stages)
           /\ Len(Plan[q].stages) \in Nat /\ \A i \in 1..stage[q] : i \in Stages(q)
<1>1. /\ stage[q] \in Nat /\ stage[q] <= Len(Plan[q].stages)
      /\ Len(Plan[q].stages) \in Nat /\ DOMAIN Plan[q].stages = 1..Len(Plan[q].stages)
  BY PlanAssumption DEF Inv, TypeInv, PlanOK
<1> QED BY <1>1 DEF Stages

LEMMA GossipChangedStep == ASSUME Inv, NEW q \in Queries, gossip_data_changed(q) PROVE Inv'
<1> DEFINE newes == [es EXCEPT ![q] = "Asking"]
<1>1. Locked(q, stage[q], newes) /\ es[q] = "GossipDataWaiting"
  BY DEF gossip_data_changed
<1>2. UNCHANGED <<timestamp, read_protected, finish_query, rms, ddl_left, inserting_bundle,
                  waiting_global_locks, waiting_locked_cols, inserting_locked_cols, tablet_bundle>>
  BY DEF gossip_data_changed, persisted_vars, col_vars, finish_vars, ddl_vars, bundle_vars
<1>3. stage[q] \in Stages(q)
  BY <1>1, StagesOf DEF Inv, ControlInv, Active
<1>4. newes[q] = "Asking" /\ newes = [es EXCEPT ![q] = newes[q]]
  BY DEF Inv, TypeInv
<1>5. waiting_global_locks' \in [Queries -> SUBSET {"cols", "read"}]
  BY <1>2 DEF Inv, TypeInv
<1>6. waiting_locked_cols' \cap inserting_locked_cols' = {}
  BY <1>2 DEF Inv, RequestsInv
<1> HIDE DEF newes
<1> QED BY <1>1, <1>2, <1>3, <1>4, <1>5, <1>6, LockedStep

LEMMA GrantLockedColsStep ==
    ASSUME Inv, NEW id \in waiting_locked_cols, GrantLockedCols(id) PROVE Inv'
<1>0. PICK q \in Queries : \E i \in 1..stage[q] : id = <<q, i>>
  BY DEF Inv, ColsType
<1>1. PICK i \in 1..stage[q] : id = <<q, i>>
  BY <1>0
<1>2. i \in Stages(q) /\ id[1] = q /\ id[2] = i
  BY <1>1, StagesOf
<1> DEFINE Granted(state) == IF ESIsLocking(id) THEN [es EXCEPT ![q] = state] ELSE es
           aligned == IF does_query_plan_align(q) THEN GossipChecked(q) ELSE "Error"
<1>3. \E state \in {aligned, "Error"} :
         /\ Locked(q, i, Granted(state))
         /\ waiting_locked_cols' = waiting_locked_cols \ {id}
         /\ \/ UNCHANGED <<inserting_locked_cols, tablet_bundle, waiting_global_locks>>
            \/ /\ inserting_locked_cols' = inserting_locked_cols \cup {id}
               /\ tablet_bundle' = tablet_bundle \cup {PLm("LockedCols", id)}
               /\ \/ waiting_global_locks' = waiting_global_locks
                  \/ waiting_global_locks' =
                        [waiting_global_locks EXCEPT ![q] = @ \cup {"cols"}]
         /\ UNCHANGED <<timestamp, read_protected, finish_query, rms, ddl_left, inserting_bundle>>
  <2>1. UNCHANGED <<timestamp, read_protected, finish_query, rms, ddl_left, inserting_bundle>>
    BY DEF GrantLockedCols, persisted_vars, finish_vars, ddl_vars
  <2>2. \/ /\ Locked(q, i, Granted(aligned))
           /\ UNCHANGED <<inserting_locked_cols, tablet_bundle, waiting_global_locks>>
        \/ /\ inserting_locked_cols' = inserting_locked_cols \cup {id}
           /\ tablet_bundle' = tablet_bundle \cup {PLm("LockedCols", id)}
           /\ waiting_global_locks' =
                IF ESIsLocking(id) THEN [waiting_global_locks EXCEPT ![q] = @ \cup {"cols"}]
                ELSE waiting_global_locks
           /\ Locked(q, i, Granted(aligned))
        \/ /\ Locked(q, i, Granted("Error"))
           /\ UNCHANGED <<inserting_locked_cols, tablet_bundle, waiting_global_locks>>
    BY <1>2 DEF GrantLockedCols
  <2>3. waiting_locked_cols' = waiting_locked_cols \ {id}
    BY DEF GrantLockedCols
  <2> HIDE DEF aligned, Granted
  <2> QED BY <2>1, <2>2, <2>3
<1>4. PICK state \in {aligned, "Error"} : Locked(q, i, Granted(state))
  BY <1>3
<1>5. state \in {"Asking", "GossipDataWaiting", "Error"}
  BY DEF GossipChecked
<1>6. \/ Granted(state) = es
      \/ /\ Granted(state) = [es EXCEPT ![q] = Granted(state)[q]]
         /\ Granted(state)[q] = state
         /\ es[q] = "ColumnsLocking" /\ stage[q] = i
  <2>1. CASE ESIsLocking(id)
    <3>1. es[q] = "ColumnsLocking" /\ stage[q] = i
      BY <1>2, <2>1 DEF ESIsLocking
    <3> QED BY <2>1, <3>1 DEF Inv, TypeInv
  <2>2. CASE ~ESIsLocking(id)
    BY <2>2
  <2> QED BY <2>1, <2>2
<1> HIDE DEF aligned, Granted
<1>7. /\ waiting_global_locks' \in [Queries -> SUBSET {"cols", "read"}]
      /\ \A r \in Queries : waiting_global_locks[r] \subseteq waiting_global_locks'[r]
  <2>1. waiting_global_locks \in [Queries -> SUBSET {"cols", "read"}]
    BY DEF Inv, TypeInv
  <2>2. \/ waiting_global_locks' = waiting_global_locks
        \/ waiting_global_locks' = [waiting_global_locks EXCEPT ![q] = @ \cup {"cols"}]
    BY <1>3
  <2> QED BY <2>1, <2>2
<1>8. /\ UNCHANGED <<timestamp, read_protected, finish_query, rms, ddl_left, inserting_bundle>>
      /\ waiting_locked_cols' \subseteq waiting_locked_cols
      /\ inserting_locked_cols \subseteq inserting_locked_cols'
      /\ inserting_locked_cols' \subseteq waiting_locked_cols \cup inserting_locked_cols
      /\ waiting_locked_cols' \cap inserting_locked_cols' = {}
  BY <1>3 DEF Inv, RequestsInv
<1>9. \A p \in tablet_bundle' : \/ p \in tablet_bundle
                                \/ p.type = "LockedCols" /\ p.of \in inserting_locked_cols'
                                   /\ p.of \notin inserting_locked_cols
  BY <1>3 DEF PLm, Inv, RequestsInv
<1> QED BY <1>2, <1>4, <1>5, <1>6, <1>7, <1>8, <1>9, LockedStep

LEMMA GrantLocalReadProtectedStep ==
    ASSUME Inv, NEW r \in waiting_read_protected, GrantLocalReadProtected(r) PROVE Inv'
<1>r. r \in Reads /\ r \in Queries /\ r \notin Writers
  BY QueriesAssumption DEF Inv, ReadsType, Queries
<1>u. /\ UNCHANGED <<timestamp, read_protected, verifying_writes, inserting_prepared_writes,
                     prepared_writes, committed_writes, waiting_locked_cols,
                     inserting_locked_cols, stage, finish_query, rms, ddl_left, inserting_bundle>>
      /\ waiting_read_protected' = waiting_read_protected \ {r}
      /\ inserting_read_protected' = inserting_read_protected \cup {r}
      /\ tablet_bundle' = tablet_bundle \cup {PLm("ReadProtected", r)}
  BY DEF GrantLocalReadProtected, persisted_vars, write_vars, col_vars, finish_vars, ddl_vars
<1>0. \/ /\ es[r] = "Pending" /\ es'[r] \in {"Executing", "WaitingGlobalLockedCols"}
         /\ waiting_global_locks' = [waiting_global_locks EXCEPT ![r] = @ \cup {"read"}]
         /\ es' = [es EXCEPT ![r] = es'[r]]
         /\ observed' = [observed EXCEPT ![r][1] = Visible(r, 1)]
      \/ UNCHANGED <<waiting_global_locks, es, observed>>
  BY <1>r DEF GrantLocalReadProtected, Inv, TypeInv
<1>a. /\ \A x \in Queries \ {r} : es'[x] = es[x] /\ observed'[x] = observed[x]
                                  /\ waiting_global_locks'[x] = waiting_global_locks[x]
      /\ waiting_global_locks[r] \subseteq waiting_global_locks'[r]
      /\ es'[r] = es[r] \/ /\ es[r] = "Pending" /\ "read" \in waiting_global_locks'[r]
                           /\ es'[r] \in {"Executing", "WaitingGlobalLockedCols"}
  BY <1>r, <1>0 DEF Inv, TypeInv
<1>1. TypeInv'
  <2>0. es' \in [Queries -> EsStates]
    BY <1>0 DEF Inv, TypeInv, EsStates, Active
  <2>1. waiting_global_locks' \in [Queries -> SUBSET {"cols", "read"}]
    <3>1. waiting_global_locks \in [Queries -> SUBSET {"cols", "read"}]
      BY DEF Inv, TypeInv
    <3>2. \/ waiting_global_locks' = waiting_global_locks
          \/ waiting_global_locks' = [waiting_global_locks EXCEPT ![r] = @ \cup {"read"}]
      BY <1>0
    <3> QED BY <3>1, <3>2
  <2>2. \A x \in Reads : es'[x] \notin {"StageDone", "Finishing"}
    BY <1>a DEF Inv, TypeInv, Queries
  <2>3. \A x \in Writers : es'[x] \notin {"WaitingGlobalLockedCols", "Success"}
    BY <1>a, <1>r DEF Inv, TypeInv, Queries
  <2>4. DOMAIN observed' = Queries /\ \A q \in Queries : DOMAIN observed'[q] = Stages(q)
    BY <1>0 DEF Inv, TypeInv
  <2> QED BY <1>u, <2>0, <2>1, <2>2, <2>3, <2>4 DEF Inv, TypeInv
<1>2. WritesType'
  BY <1>u DEF Inv, WritesType, VerifyingType, MapType, EntryType
<1>3. ReadsType' /\ ColsType'
  BY <1>u, <1>r DEF Inv, ReadsType, ColsType
<1>5. ControlInv'
  <2>1. \A x \in Queries : es'[x] \in Active \cup {"Success"} => stage'[x] > 0
    BY <1>a, <1>u DEF Inv, ControlInv, Active
  <2>2. \A x \in Writers : es'[x] = es[x]
    BY <1>a, <1>r DEF Queries
  <2> QED BY <1>u, <2>1, <2>2 DEF Inv, ControlInv, WritesType, VerifyingType
<1>6. FinishInv'
  BY <1>u DEF Inv, FinishInv
<1>7. ReadInv'
  BY <1>a, <1>u DEF Inv, ReadInv, Queries
<1>8. BundleInv'
  BY <1>u DEF Inv, BundleInv, PLm
<1>9. Isolation' /\ Validity'
  <2>1. CASE UNCHANGED <<waiting_global_locks, es, observed>>
    BY <1>u, <2>1, KeepsIsolation DEF Inv, Protects, Holds
  <2>2. CASE es[r] = "Pending" /\ observed' = [observed EXCEPT ![r][1] = Visible(r, 1)]
    <3>1. 1 \in Stages(r)
      BY <1>r, <2>2, StagesOf DEF Inv, ControlInv, Active
    <3>2. \A q \in Queries : \A i \in Stages(q) :
              Protects(q, i)' => Protects(q, i) \/ (q = r /\ i = 1)
      BY <1>a, <1>u DEF Protects
    <3>3. \A x \in Writers : \A j \in Stages(x) : Holds(x, j)' => Holds(x, j)
      BY <1>u DEF Holds
    <3>4. ASSUME NEW x \in Writers, NEW j \in Stages(x), x # r, Before(x, r), Holds(x, j)
          PROVE  Isolated(WriteRegion(x, j), ReadRegion(r, 1))
      <4>1. timestamp[x] <= timestamp[r]
        BY <1>r, <3>4 DEF Before, Inv, TypeInv, Queries
      <4>2. x \in CurWrites
        BY <3>4 DEF Holds, CurWrites
      <4>3. ~BlockedBy(x, ReadRegion(r, 1))
        BY <4>1, <4>2 DEF GrantLocalReadProtected, ReadGrantable
      <4> QED BY <3>4, <4>3 DEF BlockedBy, Holds, Conflicts
    <3>5. \A q \in Queries : \A i \in Stages(q) :
              q # r \/ i # 1 => observed'[q][i] = observed[q][i]
      BY <2>2, <1>r DEF Inv, TypeInv
    <3>6. observed'[r][1] = Visible(r, 1)
      BY <2>2, <1>r, <3>1 DEF Inv, TypeInv
    <3> QED BY <1>r, <1>u, <3>1, <3>2, <3>3, <3>4, <3>5, <3>6, GrantIsolates DEF Inv
  <2> QED BY <1>0, <2>1, <2>2
<1>10. TimestampsInv'
  BY <1>u DEF Inv, TimestampsInv, CurWrites
<1>R. RequestsInv'
  <2>1. \A p \in tablet_bundle' : \A other \in inserting_bundle' :
          p.type = other.type /\ p.type \in QueryPLms => p.of # other.of
    BY <1>u DEF Inv, RequestsInv, BundleInv, PLm
  <2> QED BY <1>a, <1>r, <1>u, <2>1 DEF Inv, RequestsInv, ReadsType, Queries
<1> QED BY <1>1, <1>2, <1>3, <1>5, <1>6, <1>7, <1>8, <1>9, <1>10, <1>R DEF Inv

LEMMA GrantMLocalReadProtectedStep ==
    ASSUME Inv, NEW q \in DOMAIN verifying_writes, NEW i \in verifying_writes[q].waiting,
           GrantMLocalReadProtected(q, i)
    PROVE  Inv'
<1> DEFINE entry == [verifying_writes[q] EXCEPT !.waiting = @ \ {i}, !.reads = @ \cup {i}]
<1>r. q \in Writers /\ q \in Queries /\ q \notin Reads
  BY QueriesAssumption DEF Inv, WritesType, VerifyingType, Queries
<1>t. verifying_writes[q] \in [id : Nat, waiting : SUBSET Stages(q),
                               reads : SUBSET Stages(q), writes : SUBSET Stages(q)]
  BY DEF Inv, WritesType, VerifyingType
<1>p. es[q] = "Pending" /\ stage[q] = i /\ i \in Stages(q)
  BY <1>t DEF Inv, ControlInv
<1>u. UNCHANGED <<timestamp, read_protected, inserting_prepared_writes, prepared_writes,
                  committed_writes, waiting_read_protected, inserting_read_protected,
                  waiting_locked_cols, inserting_locked_cols, stage, waiting_global_locks,
                  finish_query, ddl_left, tablet_bundle, inserting_bundle>>
  BY DEF GrantMLocalReadProtected, persisted_vars, read_vars, col_vars, ddl_vars, bundle_vars
<1>0. /\ MReadGrantable(q, i)
      /\ es' = [es EXCEPT ![q] = IF q \in Subqueries THEN "Executing" ELSE "StageDone"]
      /\ observed' = [observed EXCEPT ![q][i] = Visible(q, i)]
      /\ rms' = rms \/ rms' = [rms EXCEPT ![q] = NewRMs(q)]
      /\ verifying_writes' = [verifying_writes EXCEPT ![q].waiting = @ \ {i},
                                                      ![q].reads = @ \cup {i}]
  BY <1>p DEF GrantMLocalReadProtected
<1>a. /\ es'[q] \in {"Executing", "StageDone"}
      /\ \A x \in Queries \ {q} : es'[x] = es[x]
  BY <1>r, <1>0 DEF Inv, TypeInv
<1>b. /\ DOMAIN verifying_writes' = DOMAIN verifying_writes
      /\ \A x \in DOMAIN verifying_writes \ {q} : verifying_writes'[x] = verifying_writes[x]
  BY <1>0
<1>c. verifying_writes'[q] = entry
  BY <1>0, <1>t
<1>d. /\ entry \in [id : Nat, waiting : SUBSET Stages(q),
                    reads : SUBSET Stages(q), writes : SUBSET Stages(q)]
      /\ entry.waiting = verifying_writes[q].waiting \ {i}
      /\ entry.reads = verifying_writes[q].reads \cup {i}
      /\ entry.writes = verifying_writes[q].writes
  BY <1>t, <1>p
<1> HIDE DEF entry
<1>1. TypeInv'
  <2>0. es' \in [Queries -> EsStates]
    BY <1>0 DEF Inv, TypeInv, EsStates, Active
  <2>1. rms' \in [Writers -> SUBSET Nat]
    <3>1. NewRMs(q) \in SUBSET Nat
      BY <1>r, <1>t DEF Inv, TypeInv, NewRMs
    <3>2. rms \in [Writers -> SUBSET Nat]
      BY DEF Inv, TypeInv
    <3> QED BY <1>0, <3>1, <3>2
  <2>2. \A x \in Reads : es'[x] \notin {"StageDone", "Finishing"}
    BY <1>a, <1>r DEF Inv, TypeInv, Queries
  <2>3. \A x \in Writers : es'[x] \notin {"WaitingGlobalLockedCols", "Success"}
    BY <1>a DEF Inv, TypeInv, Queries
  <2>4. DOMAIN observed' = Queries /\ \A x \in Queries : DOMAIN observed'[x] = Stages(x)
    BY <1>0 DEF Inv, TypeInv
  <2> QED BY <1>u, <2>0, <2>1, <2>2, <2>3, <2>4 DEF Inv, TypeInv
<1>2. WritesType'
  <2>1. VerifyingType'
    BY <1>b, <1>c, <1>d DEF Inv, WritesType, VerifyingType
  <2> QED BY <1>u, <2>1 DEF Inv, WritesType, MapType, EntryType
<1>3. ReadsType' /\ ColsType'
  BY <1>u DEF Inv, ReadsType, ColsType
<1>5. ControlInv'
  <2>1. \A x \in Queries : es'[x] \in Active \cup {"Success"} => stage'[x] > 0
    BY <1>a, <1>p, <1>u DEF Inv, ControlInv, Active
  <2>2. \A x \in Writers : es'[x] \in Active => x \in DOMAIN verifying_writes'
    BY <1>a, <1>b DEF Inv, ControlInv, Queries
  <2>3. entry.waiting = {}
    BY <1>d, <1>p DEF Inv, ControlInv
  <2>4. ASSUME NEW x \in DOMAIN verifying_writes', verifying_writes'[x].waiting # {}
        PROVE  es'[x] = "Pending" /\ verifying_writes'[x].waiting = {stage'[x]}
    <3>1. x # q /\ x \in Queries
      BY <1>b, <1>c, <2>3, <2>4 DEF Inv, WritesType, VerifyingType, Queries
    <3> QED BY <1>a, <1>b, <1>u, <2>4, <3>1 DEF Inv, ControlInv
  <2>5. \A x \in Writers : finish_query'[x] # "None" => es'[x] = "Finishing"
    BY <1>a, <1>p, <1>u DEF Inv, ControlInv, Queries
  <2> QED BY <2>1, <2>2, <2>4, <2>5 DEF ControlInv
<1>6. FinishInv'
  BY <1>u DEF Inv, FinishInv
<1>7. ReadInv'
  BY <1>a, <1>u, <1>r DEF Inv, ReadInv, Queries
<1>8. BundleInv'
  BY <1>u DEF Inv, BundleInv
<1>9. Isolation' /\ Validity'
  <2>1. \A x \in Queries : \A j \in Stages(x) :
            Protects(x, j)' => Protects(x, j) \/ (x = q /\ j = i)
    BY <1>a, <1>b, <1>c, <1>d, <1>r, <1>u DEF Protects
  <2>2. \A x \in Writers : \A j \in Stages(x) : Holds(x, j)' => Holds(x, j)
    BY <1>b, <1>c, <1>d, <1>u DEF Holds
  <2>3. ASSUME NEW x \in Writers, NEW j \in Stages(x), x # q, Before(x, q), Holds(x, j)
        PROVE  Isolated(WriteRegion(x, j), ReadRegion(q, i))
    <3>1. timestamp[x] < timestamp[q]
      BY <1>r, <2>3 DEF Before
    <3>2. x \in CurWrites
      BY <2>3 DEF Holds, CurWrites
    <3>3. ~BlockedBy(x, ReadRegion(q, i))
      BY <1>0, <3>1, <3>2 DEF MReadGrantable
    <3> QED BY <2>3, <3>3 DEF BlockedBy, Holds, Conflicts
  <2>4. \A x \in Queries : \A j \in Stages(x) :
            x # q \/ j # i => observed'[x][j] = observed[x][j]
    BY <1>0, <1>r DEF Inv, TypeInv
  <2>5. observed'[q][i] = Visible(q, i)
    BY <1>0, <1>r, <1>p DEF Inv, TypeInv
  <2> QED BY <1>r, <1>p, <1>u, <2>1, <2>2, <2>3, <2>4, <2>5, GrantIsolates DEF Inv
<1>10. TimestampsInv'
  BY <1>b, <1>u DEF Inv, TimestampsInv, CurWrites
<1>R. RequestsInv'
  BY <1>a, <1>r, <1>u DEF Inv, RequestsInv, ReadsType, Queries
<1> QED BY <1>1, <1>2, <1>3, <1>5, <1>6, <1>7, <1>8, <1>9, <1>10, <1>R DEF Inv

----------------------------------------------------------------------------
(* The insert cycle and leader changes.                                    *)

LEMMA InsertionStep == ASSUME Inv, TabletBundleInsertion PROVE Inv'
<1>u. UNCHANGED <<timestamp, es, stage, waiting_global_locks, observed, rms, verifying_writes,
                  inserting_prepared_writes, prepared_writes, committed_writes,
                  waiting_read_protected, inserting_read_protected, read_protected,
                  waiting_locked_cols, inserting_locked_cols, ddl_left>>
  BY DEF TabletBundleInsertion, persisted_vars, write_vars, read_vars, col_vars, es_vars
<1>0. finish_query' = [x \in Writers |-> IF finish_query[x] = "WaitingInsertingPrepared"
                                         THEN "InsertingPrepared" ELSE finish_query[x]]
  BY DEF TabletBundleInsertion
<1>1. TypeInv'
  BY <1>u, <1>0 DEF Inv, TypeInv, InsertingStates
<1>2. WritesType'
  BY <1>u DEF Inv, WritesType, VerifyingType, MapType, EntryType
<1>3. ReadsType' /\ ColsType'
  BY <1>u DEF Inv, ReadsType, ColsType
<1>4. ControlInv'
  BY <1>u, <1>0 DEF Inv, ControlInv
<1>5. FinishInv'
  BY <1>u, <1>0 DEF Inv, FinishInv, WritesType, MapType, InsertingStates, PreparedStates
<1>6. ReadInv'
  BY <1>u DEF Inv, ReadInv
<1>7. BundleInv'
  <2>1. tablet_bundle' = {}
    BY DEF TabletBundleInsertion
  <2>2. \A p \in inserting_bundle' :
           \/ p \in tablet_bundle
           \/ \E q \in Writers : p = PLm("Prepared", q)
                                 /\ finish_query[q] = "WaitingInsertingPrepared"
           \/ p = PLm("DDLPrepared", 0)
    BY DEF TabletBundleInsertion
  <2>3. ASSUME NEW p \in inserting_bundle'
        PROVE  /\ p.type = "LockedCols" => p.of \in inserting_locked_cols'
               /\ p.type = "ReadProtected" => p.of \in inserting_read_protected'
               /\ p.type = "Committed" => p.of \in Writers /\ finish_query'[p.of] = "InsertingCommitted"
               /\ p.type = "Aborted" => p.of \in Writers /\ finish_query'[p.of] = "InsertingAborted"
               /\ p.type = "Prepared" => p.of \in Writers
                     /\ finish_query'[p.of] \in {"InsertingPrepared", "InsertingPreparedAborted"}
    <3>1. CASE p \in tablet_bundle
      BY <1>0, <1>u, <3>1 DEF Inv, BundleInv
    <3>2. CASE p = PLm("DDLPrepared", 0)
      BY <3>2 DEF PLm
    <3>3. ASSUME NEW q \in Writers, p = PLm("Prepared", q),
                 finish_query[q] = "WaitingInsertingPrepared"
          PROVE  p.type = "Prepared" /\ p.of = q /\ finish_query'[q] = "InsertingPrepared"
      BY <1>0, <3>3 DEF PLm
    <3> QED BY <2>2, <3>1, <3>2, <3>3
  <2> QED BY <2>1, <2>3 DEF BundleInv
<1>8. Isolation' /\ Validity'
  BY <1>u, KeepsIsolation DEF Inv, Protects, Holds
<1>9. TimestampsInv'
  BY <1>u DEF Inv, TimestampsInv, CurWrites
<1>R. RequestsInv'
  <2>1. tablet_bundle' = {}
    BY DEF TabletBundleInsertion
  <2> QED BY <1>u, <2>1 DEF Inv, RequestsInv
<1> QED BY <1>1, <1>2, <1>3, <1>4, <1>5, <1>6, <1>7, <1>8, <1>9, <1>R DEF Inv

LEMMA LeaderChangedStep == ASSUME Inv, LeaderChanged PROVE Inv'
<1>u. /\ UNCHANGED <<timestamp, stage, observed, rms, prepared_writes, committed_writes,
                     read_protected>>
      /\ verifying_writes' = << >> /\ inserting_prepared_writes' = << >>
      /\ waiting_read_protected' = {} /\ inserting_read_protected' = {}
      /\ waiting_locked_cols' = {} /\ inserting_locked_cols' = {}
      /\ waiting_global_locks' = [q \in Queries |-> {}]
      /\ tablet_bundle' = {} /\ inserting_bundle' = {}
  BY DEF LeaderChanged, persisted_vars
<1>v. DOMAIN verifying_writes' = {} /\ DOMAIN inserting_prepared_writes' = {}
  BY <1>u
<1>0. finish_query' = [x \in Writers |->
         IF finish_query[x] \in InsertingStates \cup {"Working"} THEN "None"
         ELSE IF finish_query[x] \in {"InsertingCommitted", "InsertingAborted"} THEN "Prepared"
         ELSE finish_query[x]]
  BY DEF LeaderChanged, InsertingStates
<1>a. /\ es' \in [Queries -> EsStates]
      /\ \A x \in Queries : es'[x] = es[x] \/ es'[x] = "Error"
      /\ \A x \in Queries : es'[x] \notin Active
      /\ \A x \in Queries : es[x] = "Finishing" => es'[x] = "Finishing"
  BY DEF LeaderChanged, Inv, TypeInv, EsStates, Active
<1>b. ddl_left' \subseteq ddl_left
  BY DEF LeaderChanged
<1>1. TypeInv'
  <2>1. finish_query' \in [Writers -> InsertingStates \cup PreparedStates
                                        \cup {"None", "Committed", "Aborted"}]
    BY <1>0 DEF Inv, TypeInv, PreparedStates
  <2>2. waiting_global_locks' \in [Queries -> SUBSET {"cols", "read"}]
    BY <1>u
  <2>3. \A r \in Reads : es'[r] \notin {"StageDone", "Finishing"}
    BY <1>a DEF Inv, TypeInv, Queries
  <2>4. \A q \in Writers : es'[q] \notin {"WaitingGlobalLockedCols", "Success"}
    BY <1>a DEF Inv, TypeInv, Queries
  <2> QED BY <1>a, <1>b, <1>u, <2>1, <2>2, <2>3, <2>4 DEF Inv, TypeInv
<1>2. WritesType'
  BY <1>u, <1>v DEF Inv, WritesType, VerifyingType, MapType, EntryType
<1>3. ReadsType' /\ ColsType'
  BY <1>u DEF Inv, ReadsType, ColsType
<1>4. ControlInv'
  <2>1. \A x \in Queries : es'[x] \in Active \cup {"Success"} => stage'[x] > 0
    BY <1>a, <1>u DEF Inv, ControlInv
  <2>2. \A x \in Writers : finish_query'[x] # "None" => es'[x] = "Finishing"
    BY <1>0, <1>a DEF Inv, ControlInv, Queries
  <2> QED BY <1>a, <1>v, <2>1, <2>2 DEF ControlInv, Queries
<1>5. FinishInv'
  <2>1. \A x \in Writers : finish_query'[x] \notin InsertingStates
    BY <1>0 DEF InsertingStates
  <2>2. \A x \in Writers : finish_query'[x] \in PreparedStates <=> finish_query[x] \in PreparedStates
    BY <1>0 DEF InsertingStates, PreparedStates
  <2>3. \A x \in Writers : finish_query[x] = "Committed" => finish_query'[x] = "Committed"
    BY <1>0 DEF InsertingStates
  <2> QED BY <1>u, <1>v, <2>1, <2>2, <2>3 DEF Inv, FinishInv, WritesType, MapType
<1>6. ReadInv'
  BY <1>a, <1>u DEF Inv, ReadInv, Queries, Active
<1>7. BundleInv'
  BY <1>u DEF BundleInv
<1>8. Isolation' /\ Validity'
  <2>1. \A x \in Queries : \A j \in Stages(x) : Protects(x, j)' => Protects(x, j)
    BY <1>a, <1>u, <1>v DEF Protects
  <2>2. \A x \in Writers : \A j \in Stages(x) : Holds(x, j)' => Holds(x, j)
    BY <1>u, <1>v DEF Holds
  <2> QED BY <1>u, <2>1, <2>2, KeepsIsolation DEF Inv
<1>9. TimestampsInv'
  BY <1>u, <1>v DEF Inv, TimestampsInv, CurWrites
<1>R. RequestsInv'
  BY <1>u DEF RequestsInv
<1> QED BY <1>1, <1>2, <1>3, <1>4, <1>5, <1>6, <1>7, <1>8, <1>9, <1>R DEF Inv

LEMMA OfBundle ==
    ASSUME Inv
    PROVE  /\ \A id \in Of("LockedCols") : id \in inserting_locked_cols
           /\ \A r \in Of("ReadProtected") : r \in inserting_read_protected
           /\ \A q \in Of("Prepared") : q \in Writers /\ q \in DOMAIN inserting_prepared_writes
                 /\ finish_query[q] \in {"InsertingPrepared", "InsertingPreparedAborted"}
           /\ \A q \in Of("Committed") : q \in Writers /\ q \in DOMAIN prepared_writes
                 /\ finish_query[q] = "InsertingCommitted"
           /\ \A q \in Of("Aborted") : q \in Writers /\ q \in DOMAIN prepared_writes
                 /\ finish_query[q] = "InsertingAborted"
<1>1. \A t : \A x \in Of(t) : \E p \in inserting_bundle : p.type = t /\ p.of = x
  BY DEF Of
<1>2. \A id \in Of("LockedCols") : id \in inserting_locked_cols
  BY <1>1 DEF Inv, BundleInv
<1>3. \A r \in Of("ReadProtected") : r \in inserting_read_protected
  BY <1>1 DEF Inv, BundleInv
<1>4. \A q \in Of("Prepared") : q \in Writers
         /\ finish_query[q] \in {"InsertingPrepared", "InsertingPreparedAborted"}
  BY <1>1 DEF Inv, BundleInv
<1>5. \A q \in Of("Committed") : q \in Writers /\ finish_query[q] = "InsertingCommitted"
  BY <1>1 DEF Inv, BundleInv
<1>6. \A q \in Of("Aborted") : q \in Writers /\ finish_query[q] = "InsertingAborted"
  BY <1>1 DEF Inv, BundleInv
<1> QED BY <1>2, <1>3, <1>4, <1>5, <1>6 DEF Inv, FinishInv, InsertingStates, PreparedStates

LEMMA TabletBundleStep == ASSUME Inv, NEW late \in BOOLEAN, TabletBundle(late) PROVE Inv'
<1> DEFINE locked == Of("LockedCols")
           protected == Of("ReadProtected")
           prepared == Of("Prepared")
           committed == Of("Committed")
           aborted == Of("Aborted")
<1>u. UNCHANGED <<timestamp, waiting_read_protected, waiting_locked_cols, stage, observed, rms>>
  BY DEF TabletBundle
<1>f. /\ inserting_locked_cols' = inserting_locked_cols \ locked
      /\ read_protected' = read_protected \cup protected
      /\ inserting_read_protected' = inserting_read_protected \ protected
      /\ ddl_left' \subseteq ddl_left
      /\ inserting_bundle' = {}
  BY DEF TabletBundle
<1>l. PICK split \in BOOLEAN :
      /\ \/ ~split /\ verifying_writes' = verifying_writes
         \/ split /\ verifying_writes' = << >>
      /\ es' = [q \in Queries |->
                  IF q \in {r \in Reads : es[r] = "WaitingGlobalLockedCols"
                                          /\ waiting_global_locks'[r] = {}}
                     /\ ~(late /\ split /\ es[q] \in Active) THEN "Success"
                  ELSE IF split /\ es[q] \in Active THEN "Error" ELSE es[q]]
  <2> DEFINE sp == Of("DDLCommitted") # {} /\ ddl_es.kind = "Split"
             granted == [r \in Queries |->
                           (IF \E id \in Of("LockedCols") : id[1] = r THEN {"cols"} ELSE {})
                           \cup (IF r \in Of("ReadProtected") THEN {"read"} ELSE {})]
             locks == [r \in Queries |-> waiting_global_locks[r] \ granted[r]]
             succeeds == {r \in Reads : es[r] = "WaitingGlobalLockedCols" /\ locks[r] = {}}
             exits == {q \in Queries : sp /\ es[q] \in Active}
  <2>1. verifying_writes' = IF sp THEN << >> ELSE verifying_writes
    BY DEF TabletBundle
  <2>2. es' = [q \in Queries |->
                 IF q \in succeeds /\ ~(late /\ q \in exits) THEN "Success"
                 ELSE IF q \in exits THEN "Error" ELSE es[q]]
    BY DEF TabletBundle
  <2>3. waiting_global_locks' = locks
    BY DEF TabletBundle
  <2>4. succeeds = {r \in Reads : es[r] = "WaitingGlobalLockedCols" /\ waiting_global_locks'[r] = {}}
    BY <2>3
  <2>5. \A q \in Queries : q \in exits <=> sp /\ es[q] \in Active
    OBVIOUS
  <2> HIDE DEF succeeds, exits, locks, sp
  <2>6. es' = [q \in Queries |->
                  IF q \in {r \in Reads : es[r] = "WaitingGlobalLockedCols"
                                          /\ waiting_global_locks'[r] = {}}
                     /\ ~(late /\ sp /\ es[q] \in Active) THEN "Success"
                  ELSE IF sp /\ es[q] \in Active THEN "Error" ELSE es[q]]
    BY <2>2, <2>4, <2>5
  <2>7. sp \in BOOLEAN
    BY DEF sp
  <2> QED BY <2>1, <2>6, <2>7
<1>g. /\ waiting_global_locks' \in [Queries -> SUBSET {"cols", "read"}]
      /\ \A r \in Queries : "read" \in waiting_global_locks[r] /\ r \notin protected =>
            "read" \in waiting_global_locks'[r]
  BY DEF TabletBundle, Inv, TypeInv
<1>w. /\ inserting_prepared_writes' =
           [q \in DOMAIN inserting_prepared_writes \ prepared |-> inserting_prepared_writes[q]]
      /\ prepared_writes' =
           [q \in (DOMAIN prepared_writes \cup prepared) \ (committed \cup aborted) |->
               IF q \in prepared THEN inserting_prepared_writes[q] ELSE prepared_writes[q]]
      /\ committed_writes' =
           [q \in DOMAIN committed_writes \cup committed |->
               IF q \in committed THEN prepared_writes[q] ELSE committed_writes[q]]
  BY DEF TabletBundle
<1>q. finish_query' =
         [q \in Writers |->
            IF q \in prepared
            THEN IF finish_query[q] = "InsertingPrepared" THEN "Prepared" ELSE "InsertingAborted"
            ELSE IF q \in committed THEN "Committed"
            ELSE IF q \in aborted THEN "Aborted" ELSE finish_query[q]]
  BY DEF TabletBundle
<1>t. \A p \in tablet_bundle' :
         \/ p \in tablet_bundle
         \/ \E q \in prepared : p = PLm("Aborted", q) /\ finish_query[q] = "InsertingPreparedAborted"
         \/ p = PLm("DDLAborted", 0)
  BY DEF TabletBundle
<1>o. /\ \A id \in locked : id \in inserting_locked_cols
      /\ \A r \in protected : r \in inserting_read_protected
      /\ \A q \in prepared : q \in Writers /\ q \in DOMAIN inserting_prepared_writes
            /\ finish_query[q] \in {"InsertingPrepared", "InsertingPreparedAborted"}
      /\ \A q \in committed : q \in Writers /\ q \in DOMAIN prepared_writes
            /\ finish_query[q] = "InsertingCommitted"
      /\ \A q \in aborted : q \in Writers /\ q \in DOMAIN prepared_writes
            /\ finish_query[q] = "InsertingAborted"
  BY OfBundle
<1> HIDE DEF locked, protected, prepared, committed, aborted
<1>z. DOMAIN << >> = {}
  OBVIOUS
<1>v. /\ DOMAIN verifying_writes' \subseteq DOMAIN verifying_writes
      /\ \A x \in DOMAIN verifying_writes' : verifying_writes'[x] = verifying_writes[x]
  BY <1>l, <1>z
<1>a. /\ es' \in [Queries -> EsStates]
      /\ \A x \in Writers : es'[x] = es[x] \/ (split /\ es[x] \in Active /\ es'[x] = "Error")
      /\ \A x \in Writers : split => es'[x] \notin Active
      /\ \A r \in Reads : es'[r] \in {es[r], "Error"}
            \/ (es'[r] = "Success" /\ es[r] = "WaitingGlobalLockedCols"
                /\ waiting_global_locks'[r] = {})
  <2>1. es \in [Queries -> EsStates]
    BY DEF Inv, TypeInv
  <2>2. es' \in [Queries -> EsStates]
    BY <1>l, <2>1 DEF EsStates
  <2>3. Writers \subseteq Queries /\ Reads \subseteq Queries /\ \A x \in Writers : x \notin Reads
    BY QueriesAssumption DEF Queries
  <2>4. \A x \in Writers : es'[x] = IF split /\ es[x] \in Active THEN "Error" ELSE es[x]
    BY <1>l, <2>3
  <2>5. \A r \in Reads : es'[r] \in {es[r], "Error"}
            \/ (es'[r] = "Success" /\ es[r] = "WaitingGlobalLockedCols"
                /\ waiting_global_locks'[r] = {})
    BY <1>l, <2>3
  <2>6. "Error" \notin Active
    BY DEF Active
  <2> QED BY <2>2, <2>4, <2>5, <2>6
<1>1. TypeInv'
  <2>1. finish_query' \in [Writers -> InsertingStates \cup PreparedStates
                                        \cup {"None", "Committed", "Aborted"}]
    BY <1>q DEF Inv, TypeInv, PreparedStates
  <2>2. \A r \in Reads : es'[r] \notin {"StageDone", "Finishing"}
    BY <1>a DEF Inv, TypeInv
  <2>3. \A x \in Writers : es'[x] \notin {"WaitingGlobalLockedCols", "Success"}
    BY <1>a DEF Inv, TypeInv
  <2> QED BY <1>a, <1>f, <1>g, <1>u, <2>1, <2>2, <2>3 DEF Inv, TypeInv
<1>2. WritesType'
  <2>1. VerifyingType'
    BY <1>v DEF Inv, WritesType, VerifyingType
  <2>2. MapType(inserting_prepared_writes)'
    BY <1>w DEF Inv, WritesType, MapType, EntryType
  <2>3. MapType(prepared_writes)'
    BY <1>w, <1>o DEF Inv, WritesType, MapType, EntryType
  <2>4. MapType(committed_writes)'
    BY <1>w, <1>o DEF Inv, WritesType, MapType, EntryType
  <2> QED BY <2>1, <2>2, <2>3, <2>4 DEF WritesType
<1>3. ReadsType' /\ ColsType'
  BY <1>f, <1>o, <1>u DEF Inv, ReadsType, ColsType
<1>4. ControlInv'
  <2>1. \A x \in Queries : es'[x] \in Active \cup {"Success"} => stage'[x] > 0
    BY <1>a, <1>u DEF Inv, ControlInv, Active, Queries
  <2>2. \A x \in Writers : es'[x] \in Active => x \in DOMAIN verifying_writes'
    BY <1>a, <1>l DEF Inv, ControlInv
  <2>3. ASSUME NEW x \in DOMAIN verifying_writes', verifying_writes'[x].waiting # {}
        PROVE  es'[x] = "Pending" /\ verifying_writes'[x].waiting = {stage'[x]}
    <3>1. ~split /\ x \in Writers
      BY <1>l, <1>z, <1>v DEF Inv, WritesType, VerifyingType
    <3> QED BY <1>a, <1>u, <1>v, <2>3, <3>1 DEF Inv, ControlInv
  <2>4. ASSUME NEW x \in Writers, finish_query'[x] # "None" PROVE es'[x] = "Finishing"
    <3>1. finish_query[x] # "None"
      BY <1>q, <1>o, <2>4
    <3>2. es[x] = "Finishing"
      BY <3>1 DEF Inv, ControlInv
    <3> QED BY <1>a, <3>2 DEF Active
  <2> QED BY <2>1, <2>2, <2>3, <2>4 DEF ControlInv
<1>5. FinishInv'
  <2>0. /\ \A x \in Writers : x \in prepared => finish_query'[x] \in {"Prepared", "InsertingAborted"}
        /\ \A x \in Writers : x \in committed => finish_query'[x] = "Committed"
        /\ \A x \in Writers : x \in aborted => finish_query'[x] = "Aborted"
        /\ \A x \in Writers : x \notin prepared \cup committed \cup aborted =>
              finish_query'[x] = finish_query[x]
    BY <1>q, <1>o
  <2>1. \A x \in DOMAIN inserting_prepared_writes' : finish_query'[x] \in InsertingStates
    BY <1>w, <1>o, <2>0 DEF Inv, FinishInv, WritesType, MapType, InsertingStates
  <2>2. \A x \in Writers : finish_query'[x] \in InsertingStates =>
            x \in DOMAIN inserting_prepared_writes'
    BY <1>w, <2>0 DEF Inv, FinishInv, InsertingStates
  <2>3. \A x \in DOMAIN prepared_writes' : finish_query'[x] \in PreparedStates
    BY <1>w, <1>o, <2>0 DEF Inv, FinishInv, WritesType, MapType, PreparedStates
  <2>4. \A x \in Writers : finish_query'[x] \in PreparedStates => x \in DOMAIN prepared_writes'
    BY <1>w, <1>o, <2>0 DEF Inv, FinishInv, PreparedStates
  <2>5. \A x \in DOMAIN committed_writes' : finish_query'[x] = "Committed"
    BY <1>w, <1>o, <2>0 DEF Inv, FinishInv, WritesType, MapType
  <2> QED BY <2>1, <2>2, <2>3, <2>4, <2>5 DEF FinishInv
<1>6. ReadInv'
  <2>1. ASSUME NEW r \in Reads, es'[r] \in {"Executing", "WaitingGlobalLockedCols"}
        PROVE  \/ r \in read_protected'
               \/ r \in inserting_read_protected' /\ "read" \in waiting_global_locks'[r]
    <3>1. es[r] \in {"Executing", "WaitingGlobalLockedCols"} /\ r \in Queries
      BY <1>a, <2>1 DEF Queries
    <3> QED BY <1>f, <1>g, <3>1 DEF Inv, ReadInv
  <2>2. ASSUME NEW r \in Reads, es'[r] = "Success" PROVE r \in read_protected'
    <3>1. CASE es[r] = "Success"
      BY <1>f, <3>1 DEF Inv, ReadInv
    <3>2. CASE es[r] = "WaitingGlobalLockedCols" /\ waiting_global_locks'[r] = {}
      BY <1>f, <1>g, <3>2 DEF Inv, ReadInv, Queries
    <3> QED BY <1>a, <2>2, <3>1, <3>2
  <2> QED BY <2>1, <2>2 DEF ReadInv
<1>7. BundleInv'
  <2>1. ASSUME NEW p \in tablet_bundle'
        PROVE  /\ p.type = "LockedCols" => p.of \in inserting_locked_cols'
               /\ p.type = "ReadProtected" => p.of \in inserting_read_protected'
               /\ p.type = "Committed" => p.of \in Writers /\ finish_query'[p.of] = "InsertingCommitted"
               /\ p.type = "Aborted" => p.of \in Writers /\ finish_query'[p.of] = "InsertingAborted"
               /\ p.type # "Prepared"
    <3>1. CASE p \in tablet_bundle
      <4>1. /\ p.type = "LockedCols" => p.of \notin locked
            /\ p.type = "ReadProtected" => p.of \notin protected
            /\ p.type = "Committed" => p.of \notin committed
            /\ p.type = "Aborted" => p.of \notin aborted
        <5>1. ASSUME NEW t \in QueryPLms, p.type = t PROVE p.of \notin Of(t)
          BY <3>1, <5>1 DEF Of, Inv, RequestsInv
        <5> QED BY <5>1 DEF QueryPLms, locked, protected, committed, aborted
      <4>2. /\ p.type = "LockedCols" => p.of \in inserting_locked_cols'
            /\ p.type = "ReadProtected" => p.of \in inserting_read_protected'
        BY <1>f, <3>1, <4>1 DEF Inv, BundleInv
      <4>3. p.type = "Committed" => p.of \in Writers /\ finish_query'[p.of] = "InsertingCommitted"
        BY <1>q, <1>o, <3>1, <4>1 DEF Inv, BundleInv
      <4>4. p.type = "Aborted" => p.of \in Writers /\ finish_query'[p.of] = "InsertingAborted"
        BY <1>q, <1>o, <3>1, <4>1 DEF Inv, BundleInv
      <4> QED BY <3>1, <4>2, <4>3, <4>4 DEF Inv, BundleInv
    <3>2. ASSUME NEW q \in prepared, p = PLm("Aborted", q),
                 finish_query[q] = "InsertingPreparedAborted"
          PROVE  p.type = "Aborted" /\ p.of = q /\ q \in Writers
                 /\ finish_query'[q] = "InsertingAborted"
      BY <1>q, <1>o, <3>2 DEF PLm
    <3>3. CASE p = PLm("DDLAborted", 0)
      BY <3>3 DEF PLm
    <3> QED BY <1>t, <3>1, <3>2, <3>3
  <2> QED BY <1>f, <2>1 DEF BundleInv
<1>8. Isolation' /\ Validity'
  <2>1. \A x \in Queries : \A j \in Stages(x) : Protects(x, j)' => Protects(x, j)
    <3>1. \A r \in Reads : es'[r] \in {"Executing", "WaitingGlobalLockedCols", "Success"} =>
              es[r] \in {"Executing", "WaitingGlobalLockedCols", "Success"}
      BY <1>a
    <3> QED BY <1>v, <1>w, <1>o, <3>1 DEF Protects
  <2>2. \A x \in Writers : \A j \in Stages(x) : Holds(x, j)' => Holds(x, j)
    BY <1>v, <1>w, <1>o DEF Holds
  <2>3. \A x \in DOMAIN committed_writes :
            x \in DOMAIN committed_writes' /\ committed_writes'[x] = committed_writes[x]
    <3>1. \A x \in DOMAIN committed_writes : x \notin committed
      BY <1>o DEF Inv, FinishInv
    <3> QED BY <1>w, <3>1
  <2>4. \A x \in DOMAIN committed_writes' : x \in DOMAIN committed_writes
            \/ \A j \in committed_writes'[x].writes : Holds(x, j)
    BY <1>w, <1>o DEF Holds
  <2> QED BY <1>2, <1>u, <2>1, <2>2, <2>3, <2>4, CommitIsolates DEF Inv, WritesType
<1>9. TimestampsInv'
  <2>1. (CurWrites \cup DOMAIN committed_writes)' \subseteq CurWrites \cup DOMAIN committed_writes
    BY <1>v, <1>w, <1>o DEF CurWrites
  <2> QED BY <1>u, <2>1 DEF Inv, TimestampsInv
<1>R. RequestsInv'
  BY <1>a, <1>f, <1>u DEF Inv, RequestsInv, ReadsType
<1> QED BY <1>1, <1>2, <1>3, <1>4, <1>5, <1>6, <1>7, <1>8, <1>9, <1>R DEF Inv

----------------------------------------------------------------------------
(* Maxima of finite sets, and finiteness.                                  *)

\* By the smallest subset that has no greatest element.
LEMMA MaxFinite ==
    ASSUME NEW S \in SUBSET Nat, IsFiniteSet(S), S # {}
    PROVE  Max(S) \in S /\ \A x \in S : x <= Max(S)
<1> DEFINE HasMax(T) == \E x \in T : \A y \in T : x >= y
           Bad == {n \in Nat : \E T \in SUBSET S : T # {} /\ Cardinality(T) = n /\ ~HasMax(T)}
<1>1. Bad = {}
  <2> SUFFICES ASSUME Bad # {} PROVE FALSE
    OBVIOUS
  <2>1. Bad \subseteq Nat
    OBVIOUS
  <2> HIDE DEF Bad
  <2>2. PICK n \in Bad : \A y \in Bad : <<y, n>> \notin OpToRel(<, Nat)
    BY <2>1, NatLessThanWellFounded, WFMin
  <2>3. n \in Nat /\ \A y \in Bad : ~(y < n)
    BY <2>1, <2>2 DEF OpToRel
  <2>4. PICK T \in SUBSET S : T # {} /\ Cardinality(T) = n /\ ~HasMax(T)
    BY DEF Bad
  <2>5. PICK x \in T : TRUE
    BY <2>4
  <2> DEFINE U == T \ {x}
  <2>6. IsFiniteSet(T)
    BY FS_Subset
  <2>7. Cardinality(U) = n - 1 /\ IsFiniteSet(U) /\ Cardinality(U) \in Nat
    BY <2>4, <2>5, <2>6, FS_RemoveElement, FS_CardinalityType
  <2>8. U \in SUBSET S /\ \A y \in T : y = x \/ y \in U
    OBVIOUS
  <2>9. U # {}
    <3> SUFFICES ASSUME U = {} PROVE FALSE
      OBVIOUS
    <3>1. \A y \in T : y = x /\ x \in Nat
      BY <2>5, <2>8
    <3> QED BY <2>4, <2>5, <3>1
  <2> HIDE DEF U, HasMax
  <2>10. HasMax(U)
    BY <2>3, <2>7, <2>8, <2>9 DEF Bad
  <2>11. PICK m \in U : \A y \in U : m >= y
    BY <2>10 DEF HasMax
  <2>12. m \in T /\ m \in Nat /\ x \in Nat /\ \A y \in T : y \in Nat
    BY <2>5, <2>8, <2>11 DEF U
  <2>13. HasMax(T)
    <3>1. CASE m >= x
      BY <2>8, <2>11, <2>12, <3>1 DEF HasMax
    <3>2. CASE x >= m
      BY <2>5, <2>8, <2>11, <2>12, <3>2 DEF HasMax
    <3> QED BY <2>12, <3>1, <3>2
  <2> QED BY <2>4, <2>13
<1>2. HasMax(S)
  BY <1>1, FS_CardinalityType
<1>3. PICK x \in S : \A y \in S : x >= y
  BY <1>2
<1> QED BY <1>3 DEF Max

LEMMA RangeFinite ==
    ASSUME NEW S, IsFiniteSet(S), NEW f, DOMAIN f = S, f = [x \in S |-> f[x]],
           NEW T, T \subseteq {f[x] : x \in S}
    PROVE  IsFiniteSet(T)
<1> DEFINE R == {f[x] : x \in S}
<1>1. f \in Surjection(S, R)
  BY DEF Surjection
<1> HIDE DEF R
<1>2. IsFiniteSet(R)
  BY <1>1, FS_Surjection
<1>3. T \in SUBSET R
  BY DEF R
<1> QED BY <1>2, <1>3, FS_Subset

\* The greatest of a few timestamps and those of some queries.
LEMMA MaxTimestamps ==
    ASSUME timestamp \in [Queries -> Nat], NEW ids, \A id \in ids : id[1] \in Queries,
           NEW B \in SUBSET Nat, B # {}, IsFiniteSet(B)
    PROVE  LET S == B \cup {timestamp[id[1]] : id \in ids}
           IN  Max(S) \in S /\ Max(S) \in Nat /\ \A x \in S : x <= Max(S)
<1> DEFINE T == {timestamp[id[1]] : id \in ids}
<1>1. T \subseteq {timestamp[q] : q \in Queries} /\ T \subseteq Nat
  OBVIOUS
<1> HIDE DEF T
<1>2. IsFiniteSet(T)
  BY <1>1, RangeFinite, QueriesAssumption
<1>3. IsFiniteSet(B \cup T)
  BY <1>2, FS_Union
<1>4. B \cup T \in SUBSET Nat /\ B \cup T # {}
  BY <1>1
<1>5. Max(B \cup T) \in B \cup T /\ \A x \in B \cup T : x <= Max(B \cup T)
  BY <1>3, <1>4, MaxFinite
<1> QED BY <1>4, <1>5 DEF T

----------------------------------------------------------------------------
(* The multi-version map.                                                  *)

LEMMA LatType ==
    ASSUME NEW m, MvmOK(m)
    PROVE  \A k : get_lat(m, k) \in Nat /\ get_lat(m, k) >= m.min_lat
BY DEF MvmOK, get_lat

LEMMA VersionsType ==
    ASSUME NEW m, MvmOK(m)
    PROVE  \A k : mvm_versions(m, k) \in Seq([ts : Nat, val : {"Type", NULL}])
<1> TAKE k
<1> DEFINE V == [ts : Nat, val : {"Type", NULL}]
<1>1. CASE k \in DOMAIN m.map
  <2>1. m.map[k].versions \in Seq(V)
    BY <1>1 DEF MvmOK
  <2> QED BY <1>1, <2>1 DEF mvm_versions
<1>2. CASE k \notin DOMAIN m.map
  <2> HIDE DEF V
  <2>1. << >> \in Seq(V)
    OBVIOUS
  <2>2. mvm_versions(m, k) = << >>
    BY <1>2 DEF mvm_versions
  <2> QED BY <2>1, <2>2 DEF V
<1> QED BY <1>1, <1>2

\* m and n have the same versions, and LATs only grow.
Grown(m, n) ==
    /\ MvmOK(n) /\ n.min_lat >= m.min_lat
    /\ \A k : mvm_versions(n, k) = mvm_versions(m, k) /\ get_lat(n, k) >= get_lat(m, k)

LEMMA UpdateAllLats ==
    ASSUME NEW m, MvmOK(m), NEW t \in Nat
    PROVE  LET n == update_all_lats(m, t)
           IN  /\ Grown(m, n) /\ n.min_lat >= t
               /\ \A k : get_lat(n, k) = get_lat(m, k) \/ (get_lat(n, k) = t /\ t > m.min_lat)
<1> DEFINE n == update_all_lats(m, t)
<1>1. CASE t <= m.min_lat
  <2>1. n = m
    BY <1>1 DEF update_all_lats
  <2>2. \A k : get_lat(m, k) >= get_lat(m, k)
    BY LatType
  <2>3. m.min_lat \in Nat
    BY DEF MvmOK
  <2> HIDE DEF n
  <2> QED BY <1>1, <2>1, <2>2, <2>3 DEF Grown, n
<1>2. CASE ~(t <= m.min_lat)
  <2>1. n = MVM(t, [k \in DOMAIN m.map |->
                      [lat |-> Max({m.map[k].lat, t}), versions |-> m.map[k].versions]])
    BY <1>2 DEF update_all_lats
  <2>2. n.min_lat = t /\ DOMAIN n.map = DOMAIN m.map
        /\ \A k \in DOMAIN m.map : n.map[k].lat = Max({m.map[k].lat, t})
                                   /\ n.map[k].versions = m.map[k].versions
    BY <2>1 DEF MVM
  <2> HIDE DEF n
  <2>3. \A k \in DOMAIN m.map : m.map[k].lat \in Nat
    BY DEF MvmOK
  <2>4. \A a \in Nat : Max({a, t}) \in Nat /\ Max({a, t}) >= a /\ Max({a, t}) >= t
                       /\ (Max({a, t}) = a \/ Max({a, t}) = t)
    <3> TAKE a \in Nat
    <3>1. \E x \in {a, t} : \A y \in {a, t} : x >= y
      <4>1. a >= t \/ t >= a
        OBVIOUS
      <4> QED BY <4>1
    <3>2. Max({a, t}) \in {a, t} /\ \A y \in {a, t} : Max({a, t}) >= y
      BY <3>1 DEF Max
    <3> QED BY <3>2
  <2>5. \A k \in DOMAIN m.map : n.map[k].lat \in Nat /\ n.map[k].lat >= m.map[k].lat
           /\ n.map[k].lat >= t /\ (n.map[k].lat = m.map[k].lat \/ n.map[k].lat = t)
    BY <2>2, <2>3, <2>4
  <2>6. m.min_lat \in Nat /\ t > m.min_lat
    BY <1>2 DEF MvmOK
  <2>7. MvmOK(n)
    BY <2>2, <2>5, <2>6 DEF MvmOK
  <2>8. \A k : mvm_versions(n, k) = mvm_versions(m, k)
    BY <2>2 DEF mvm_versions
  <2>9. \A k : get_lat(n, k) >= get_lat(m, k) /\ (get_lat(n, k) = get_lat(m, k) \/ get_lat(n, k) = t)
    BY <2>2, <2>5, <2>6 DEF get_lat
  <2> QED BY <2>2, <2>6, <2>7, <2>8, <2>9 DEF Grown, n
<1> QED BY <1>1, <1>2

LEMMA UpdateLats ==
    ASSUME NEW m, MvmOK(m), NEW lats, IsFiniteSet(DOMAIN lats),
           \A k \in DOMAIN lats : lats[k] \in Nat
    PROVE  LET n == update_lats(m, lats)
           IN  /\ Grown(m, n) /\ n.min_lat = m.min_lat
               /\ \A k \in DOMAIN lats : get_lat(n, k) >= lats[k]
               /\ \A k : get_lat(n, k) = get_lat(m, k)
                         \/ (k \in DOMAIN lats /\ get_lat(n, k) = lats[k] /\ lats[k] > get_lat(m, k))
<1> DEFINE n == update_lats(m, lats)
           raised == {k \in DOMAIN lats : lats[k] > get_lat(m, k)}
<1>1. n = MVM(m.min_lat, [k \in DOMAIN m.map \cup raised |->
                            [lat |-> IF k \in raised THEN lats[k] ELSE get_lat(m, k),
                             versions |-> mvm_versions(m, k)]])
  BY DEF update_lats
<1>2. /\ n.min_lat = m.min_lat /\ DOMAIN n.map = DOMAIN m.map \cup raised
      /\ \A k \in DOMAIN m.map \cup raised :
            /\ n.map[k].lat = IF k \in raised THEN lats[k] ELSE get_lat(m, k)
            /\ n.map[k].versions = mvm_versions(m, k)
  BY <1>1 DEF MVM
<1>3. \A k : get_lat(m, k) \in Nat /\ get_lat(m, k) >= m.min_lat
  BY LatType
<1>4. raised \subseteq DOMAIN lats /\ \A k \in raised : lats[k] \in Nat /\ lats[k] > get_lat(m, k)
  OBVIOUS
<1>5. IsFiniteSet(DOMAIN m.map \cup raised)
  <2>1. IsFiniteSet(raised)
    BY <1>4, FS_Subset
  <2>2. IsFiniteSet(DOMAIN m.map)
    BY DEF MvmOK
  <2> QED BY <2>1, <2>2, FS_Union
<1>6. \A k \in DOMAIN lats : k \in raised \/ get_lat(m, k) >= lats[k]
  BY <1>3
<1> HIDE DEF n, raised
<1>7. m.min_lat \in Nat
  BY DEF MvmOK
<1>8. \A k : mvm_versions(m, k) \in Seq([ts : Nat, val : {"Type", NULL}])
  BY VersionsType
<1>9. \A k \in DOMAIN m.map \cup raised : n.map[k].lat \in Nat /\ n.map[k].lat >= m.min_lat
  BY <1>2, <1>3, <1>4, <1>7
<1>10. MvmOK(n)
  BY <1>2, <1>5, <1>7, <1>8, <1>9 DEF MvmOK
<1>11. \A k : get_lat(n, k) = IF k \in raised THEN lats[k] ELSE get_lat(m, k)
  BY <1>2, <1>4 DEF get_lat
<1>12. \A k : mvm_versions(n, k) = mvm_versions(m, k)
  <2> TAKE k
  <2>1. CASE k \in DOMAIN m.map \cup raised
    BY <1>2, <2>1 DEF mvm_versions
  <2>2. CASE k \notin DOMAIN m.map \cup raised
    BY <1>2, <2>2 DEF mvm_versions
  <2> QED BY <2>1, <2>2
<1>13. \A k : get_lat(n, k) >= get_lat(m, k)
  BY <1>3, <1>4, <1>11
<1>14. \A k \in DOMAIN lats : get_lat(n, k) >= lats[k]
  BY <1>6, <1>11
<1> QED BY <1>2, <1>4, <1>7, <1>10, <1>11, <1>12, <1>13, <1>14 DEF Grown, n

\* Reads depend on the versions alone.
LEMMA SameReads ==
    ASSUME NEW m, NEW n, \A k : mvm_versions(n, k) = mvm_versions(m, k), NEW t
    PROVE  static_snapshot_read(n, t) = static_snapshot_read(m, t)
<1>1. \A k : static_read(n, k, t) = static_read(m, k, t)
  BY DEF static_read, static_read_version
<1>2. find_version(<< >>, t).val = NULL
  BY DEF find_version, NoVersion, Version
<1>3. \A k : k \notin DOMAIN m.map => static_read(m, k, t) = NULL
  BY <1>2 DEF static_read, static_read_version, mvm_versions
<1>4. \A k : k \notin DOMAIN n.map => static_read(n, k, t) = NULL
  BY <1>2 DEF static_read, static_read_version, mvm_versions
<1> QED BY <1>1, <1>3, <1>4 DEF static_snapshot_read

\* A version that is written at t changes no read before t.
LEMMA WriteReads ==
    ASSUME NEW m, MvmOK(m), NEW key, NEW value \in {"Type", NULL}, NEW t \in Nat,
           get_lat(m, key) < t
    PROVE  LET n == mvm_write(m, key, value, t)
           IN  /\ MvmOK(n) /\ n.min_lat = m.min_lat
               /\ \A k : get_lat(n, k) = IF k = key THEN t ELSE get_lat(m, k)
               /\ \A u \in Nat : \A k : u < t \/ k # key => static_read(n, k, u) = static_read(m, k, u)
<1> DEFINE n == mvm_write(m, key, value, t)
           vs == mvm_versions(m, key)
<1>1. n = MVM(m.min_lat, [k \in DOMAIN m.map \cup {key} |->
                            IF k = key THEN [lat |-> t, versions |-> Append(vs, Version(t, value))]
                            ELSE m.map[k]])
  BY DEF mvm_write, mvm_set
<1>2. /\ n.min_lat = m.min_lat /\ DOMAIN n.map = DOMAIN m.map \cup {key}
      /\ n.map[key] = [lat |-> t, versions |-> Append(vs, Version(t, value))]
      /\ \A k \in DOMAIN m.map : k # key => n.map[k] = m.map[k]
  BY <1>1 DEF MVM
<1>3. vs \in Seq([ts : Nat, val : {"Type", NULL}])
  BY VersionsType
<1>4. Append(vs, Version(t, value)) \in Seq([ts : Nat, val : {"Type", NULL}])
  <2>1. Version(t, value) \in [ts : Nat, val : {"Type", NULL}]
    BY DEF Version
  <2> QED BY <1>3, <2>1
<1> HIDE DEF n, vs
<1>5. m.min_lat \in Nat /\ m.min_lat <= t /\ IsFiniteSet(DOMAIN m.map \cup {key})
  <2>1. m.min_lat \in Nat /\ IsFiniteSet(DOMAIN m.map)
    BY DEF MvmOK
  <2>2. m.min_lat <= t
    BY <2>1, LatType
  <2> QED BY <2>1, <2>2, FS_AddElement
<1>6. MvmOK(n)
  <2>1. n.map[key].lat = t /\ n.map[key].versions = Append(vs, Version(t, value))
    BY <1>2
  <2>2. ASSUME NEW k \in DOMAIN n.map
        PROVE  /\ n.map[k].lat \in Nat /\ n.map[k].lat >= n.min_lat
               /\ n.map[k].versions \in Seq([ts : Nat, val : {"Type", NULL}])
    <3>1. CASE k = key
      BY <1>2, <1>4, <1>5, <2>1, <3>1
    <3>2. CASE k # key
      BY <1>2, <2>2, <3>2 DEF MvmOK
    <3> QED BY <3>1, <3>2
  <2> QED BY <1>2, <1>5, <2>2 DEF MvmOK
<1>7. \A k : get_lat(n, k) = IF k = key THEN t ELSE get_lat(m, k)
  BY <1>2 DEF get_lat
<1>8. \A k : k # key => mvm_versions(n, k) = mvm_versions(m, k)
  BY <1>2 DEF mvm_versions
<1>9. mvm_versions(n, key) = Append(vs, Version(t, value))
  BY <1>2 DEF mvm_versions
<1>10. ASSUME NEW u \in Nat, u < t
       PROVE  find_version(Append(vs, Version(t, value)), u) = find_version(vs, u)
  <2> DEFINE w == Append(vs, Version(t, value))
             older == {i \in DOMAIN vs : vs[i].ts <= u}
  <2>1. PICK l \in Nat : l = Len(vs) /\ DOMAIN vs = 1..l
    BY <1>3
  <2>2. DOMAIN w = 1..(l + 1) /\ w[l + 1] = Version(t, value) /\ \A i \in 1..l : w[i] = vs[i]
    BY <1>3, <2>1
  <2>3. w[l + 1].ts = t
    BY <2>2 DEF Version
  <2> HIDE DEF w
  <2>4. {i \in DOMAIN w : w[i].ts <= u} = older
    BY <1>10, <2>1, <2>2, <2>3
  <2>5. CASE older = {}
    BY <2>4, <2>5 DEF find_version, w
  <2>6. CASE older # {}
    <3>1. older \in SUBSET Nat /\ older \in SUBSET (1..l)
      BY <2>1
    <3>2. IsFiniteSet(older)
      <4>1. IsFiniteSet(1..l)
        BY FS_Interval
      <4> QED BY <3>1, <4>1, FS_Subset
    <3>3. Max(older) \in 1..l
      BY <2>6, <3>1, <3>2, MaxFinite
    <3> QED BY <2>2, <2>4, <2>6, <3>3 DEF find_version, w
  <2> QED BY <2>5, <2>6
<1>11. \A u \in Nat : \A k : u < t \/ k # key => static_read(n, k, u) = static_read(m, k, u)
  BY <1>8, <1>9, <1>10 DEF static_read, static_read_version, vs
<1> QED BY <1>2, <1>6, <1>7, <1>11 DEF n

LEMMA SnapshotRead ==
    ASSUME NEW m, NEW t, NEW k
    PROVE  k \in static_snapshot_read(m, t) <=> static_read(m, k, t) # NULL
<1>1. find_version(<< >>, t).val = NULL
  BY DEF find_version, NoVersion, Version
<1>2. k \notin DOMAIN m.map => static_read(m, k, t) = NULL
  BY <1>1 DEF static_read, static_read_version, mvm_versions
<1> QED BY <1>2 DEF static_snapshot_read

\* A plan stays aligned if the reads of the columns that it locks stay.
LEMMA StaysAligned ==
    ASSUME NEW q \in Queries, does_query_plan_align(q), timestamp' = timestamp,
           \A k : LocksCol(q, k) =>
               static_read(table_schema', k, timestamp[q]) = static_read(table_schema, k, timestamp[q])
    PROVE  does_query_plan_align(q)'
<1> DEFINE old == static_snapshot_read(table_schema, timestamp[q])
           new == static_snapshot_read(table_schema', timestamp[q])
<1>1. \A k : LocksCol(q, k) => (k \in new <=> k \in old)
  BY SnapshotRead
<1> HIDE DEF old, new
<1>2. CASE AllCols \in Plan[q].cols
  <2>1. new = old
    BY <1>1, <1>2 DEF LocksCol
  <2> QED BY <1>2, <2>1 DEF does_query_plan_align, old, new
<1>3. CASE AllCols \notin Plan[q].cols
  <2>1. new \cap Plan[q].cols = old \cap Plan[q].cols
    BY <1>1, <1>3 DEF LocksCol
  <2> QED BY <1>3, <2>1 DEF does_query_plan_align, old, new
<1> QED BY <1>2, <1>3

LEMMA LatestLat ==
    ASSUME NEW m, MvmOK(m)
    PROVE  get_latest_lat(m) \in Nat
<1> DEFINE f == [k \in DOMAIN m.map |-> m.map[k].lat]
           T == {m.map[k].lat : k \in DOMAIN m.map}
<1>1. T \subseteq {f[k] : k \in DOMAIN m.map} /\ T \subseteq Nat /\ m.min_lat \in Nat
  BY DEF MvmOK
<1>2. IsFiniteSet(DOMAIN m.map) /\ DOMAIN f = DOMAIN m.map /\ f = [k \in DOMAIN m.map |-> f[k]]
  BY DEF MvmOK
<1> HIDE DEF f, T
<1>3. IsFiniteSet(T)
  BY <1>1, <1>2, RangeFinite
<1>4. IsFiniteSet({m.min_lat} \cup T)
  BY <1>3, FS_Singleton, FS_Union
<1>5. {m.min_lat} \cup T \in SUBSET Nat /\ {m.min_lat} \cup T # {}
  BY <1>1
<1>6. Max({m.min_lat} \cup T) \in Nat
  BY <1>4, <1>5, MaxFinite
<1> QED BY <1>6 DEF get_latest_lat, T

\* What the locks of a bundle do to the LATs.
LEMMA AppliedLocks ==
    ASSUME timestamp \in [Queries -> Nat], NEW m, MvmOK(m), NEW ids,
           \A id \in ids : id[1] \in Queries
    PROVE  LET n == ApplyLockedCols(m, ids)
           IN  /\ Grown(m, n)
               /\ \A id \in ids : IF AllCols \in Plan[id[1]].cols THEN timestamp[id[1]] <= n.min_lat
                                  ELSE \A col \in Plan[id[1]].cols : timestamp[id[1]] <= get_lat(n, col)
               /\ \A k : \A b \in Nat :
                     (get_lat(m, k) < b /\ \A id \in ids : LocksCol(id[1], k) => timestamp[id[1]] < b)
                         => get_lat(n, k) < b
<1> DEFINE all == {id \in ids : AllCols \in Plan[id[1]].cols}
           Latest(requests) == Max({0} \cup {timestamp[id[1]] : id \in requests})
           cols == UNION {Plan[id[1]].cols : id \in ids \ all}
           Of1(col) == {id \in ids \ all : col \in Plan[id[1]].cols}
           lats == [col \in cols |-> Latest(Of1(col))]
           m1 == update_all_lats(m, Latest(all))
           n == update_lats(m1, lats)
<1>1. ASSUME NEW R \in SUBSET ids
      PROVE  /\ Latest(R) \in Nat /\ \A id \in R : timestamp[id[1]] <= Latest(R)
             /\ Latest(R) = 0 \/ \E id \in R : Latest(R) = timestamp[id[1]]
  <2>1. \A id \in R : id[1] \in Queries
    OBVIOUS
  <2>2. {0} \in SUBSET Nat /\ {0} # {} /\ IsFiniteSet({0})
    <3>1. {0} \in SUBSET Nat /\ {0} # {}
      OBVIOUS
    <3> QED BY <3>1, FS_Singleton
  <2> DEFINE S == {0} \cup {timestamp[id[1]] : id \in R}
  <2>3. Max(S) \in S /\ Max(S) \in Nat /\ \A x \in S : x <= Max(S)
    BY <2>1, <2>2, MaxTimestamps
  <2> QED BY <2>3
<1>2. n = ApplyLockedCols(m, ids)
  BY DEF ApplyLockedCols
<1>3. \A id \in ids : id \in all <=> AllCols \in Plan[id[1]].cols
  OBVIOUS
<1>4. all \in SUBSET ids /\ (\A col : Of1(col) \in SUBSET ids)
  OBVIOUS
<1>5. IsFiniteSet(cols)
  <2> DEFINE f == [q \in Queries |-> Plan[q].cols]
             CS == {Plan[id[1]].cols : id \in ids \ all}
  <2>1. CS \subseteq {f[q] : q \in Queries} /\ DOMAIN f = Queries /\ f = [q \in Queries |-> f[q]]
    OBVIOUS
  <2>2. \A C \in CS : IsFiniteSet(C)
    BY PlanAssumption DEF PlanOK
  <2>3. cols = UNION CS
    OBVIOUS
  <2> HIDE DEF f, CS, cols
  <2>4. IsFiniteSet(CS)
    BY <2>1, RangeFinite, QueriesAssumption
  <2> QED BY <2>2, <2>3, <2>4, FS_UNION
<1>6. \A id \in ids \ all : \A col \in Plan[id[1]].cols : col \in cols /\ id \in Of1(col)
  OBVIOUS
<1>7. \A col : \A id \in Of1(col) : id \in ids /\ id \notin all /\ col \in Plan[id[1]].cols
  OBVIOUS
<1>8. DOMAIN lats = cols /\ (\A col \in cols : lats[col] = Latest(Of1(col)))
  OBVIOUS
<1>a. m1 = update_all_lats(m, Latest(all)) /\ n = update_lats(m1, lats)
  OBVIOUS
<1> HIDE DEF all, Latest, cols, Of1, lats, m1, n
<1>9. /\ Grown(m, m1) /\ m1.min_lat >= Latest(all) /\ Latest(all) \in Nat
      /\ \A k : get_lat(m1, k) = get_lat(m, k)
                \/ (get_lat(m1, k) = Latest(all) /\ Latest(all) > m.min_lat)
  BY <1>1, <1>4, <1>a, UpdateAllLats
<1>10. MvmOK(m1) /\ \A k \in DOMAIN lats : lats[k] \in Nat
  BY <1>1, <1>4, <1>8, <1>9 DEF Grown
<1>11. /\ Grown(m1, n) /\ n.min_lat = m1.min_lat
       /\ \A k \in DOMAIN lats : get_lat(n, k) >= lats[k]
       /\ \A k : get_lat(n, k) = get_lat(m1, k)
                 \/ (k \in DOMAIN lats /\ get_lat(n, k) = lats[k] /\ lats[k] > get_lat(m1, k))
  BY <1>5, <1>8, <1>10, <1>a, UpdateLats
<1>12. MvmOK(n) /\ \A k : get_lat(m, k) \in Nat /\ get_lat(m1, k) \in Nat /\ get_lat(n, k) \in Nat
  BY <1>9, <1>11, LatType DEF Grown
<1>13. m.min_lat \in Nat /\ m1.min_lat \in Nat /\ n.min_lat \in Nat
  BY <1>10, <1>12 DEF MvmOK
<1>14. Grown(m, n)
  BY <1>9, <1>11, <1>12, <1>13 DEF Grown
<1>15. ASSUME NEW id \in ids, id \in all PROVE timestamp[id[1]] <= n.min_lat
  <2>1. timestamp[id[1]] <= Latest(all) /\ timestamp[id[1]] \in Nat
    BY <1>1, <1>4, <1>15
  <2> QED BY <1>9, <1>11, <1>13, <2>1
<1>16. ASSUME NEW id \in ids, id \notin all, NEW col \in Plan[id[1]].cols
       PROVE  timestamp[id[1]] <= get_lat(n, col)
  <2>1. col \in cols /\ id \in Of1(col)
    BY <1>6, <1>16
  <2>2. timestamp[id[1]] <= lats[col] /\ timestamp[id[1]] \in Nat /\ lats[col] \in Nat
    BY <1>1, <1>4, <1>8, <1>10, <2>1
  <2> QED BY <1>8, <1>11, <1>12, <2>1, <2>2
<1>17. ASSUME NEW k, NEW b \in Nat, get_lat(m, k) < b,
              \A id \in ids : LocksCol(id[1], k) => timestamp[id[1]] < b
       PROVE  get_lat(n, k) < b
  <2>1. get_lat(m1, k) < b
    <3>1. CASE get_lat(m1, k) = get_lat(m, k)
      BY <1>17, <3>1
    <3>2. CASE get_lat(m1, k) = Latest(all) /\ Latest(all) > m.min_lat
      <4>1. Latest(all) # 0
        BY <1>9, <1>13, <3>2
      <4>2. PICK id \in all : Latest(all) = timestamp[id[1]]
        BY <1>1, <1>4, <4>1
      <4>3. id \in ids /\ LocksCol(id[1], k)
        BY <1>3, <1>4, <4>2 DEF LocksCol
      <4> QED BY <1>17, <3>2, <4>2, <4>3
    <3> QED BY <1>9, <3>1, <3>2
  <2>2. CASE get_lat(n, k) = get_lat(m1, k)
    BY <2>1, <2>2
  <2>3. CASE k \in DOMAIN lats /\ get_lat(n, k) = lats[k] /\ lats[k] > get_lat(m1, k)
    <3>1. lats[k] # 0 /\ lats[k] = Latest(Of1(k))
      BY <1>8, <1>10, <1>12, <2>3
    <3>2. PICK id \in Of1(k) : lats[k] = timestamp[id[1]]
      BY <1>1, <1>4, <3>1
    <3>3. id \in ids /\ LocksCol(id[1], k)
      BY <1>7, <3>2 DEF LocksCol
    <3> QED BY <1>17, <2>3, <3>2, <3>3
  <2> QED BY <1>11, <2>2, <2>3
<1> QED BY <1>2, <1>3, <1>14, <1>15, <1>16, <1>17

----------------------------------------------------------------------------
(* Column Locking: one lemma per action, as above.                         *)

LEMMA LockedMonotone ==
    ASSUME NEW q \in Queries, timestamp \in [Queries -> Nat], timestamp' = timestamp,
           presence_timestamp \in Nat, presence_timestamp' \in Nat,
           presence_timestamp' >= presence_timestamp,
           MvmOK(table_schema), MvmOK(table_schema'), table_schema'.min_lat >= table_schema.min_lat,
           \A k : get_lat(table_schema', k) >= get_lat(table_schema, k),
           GloballyLocked(q)
    PROVE  GloballyLocked(q)'
<1>1. \A k : get_lat(table_schema, k) \in Nat /\ get_lat(table_schema', k) \in Nat
  BY LatType
<1>2. table_schema.min_lat \in Nat /\ table_schema'.min_lat \in Nat /\ timestamp[q] \in Nat
  BY DEF MvmOK
<1>3. timestamp[q] <= presence_timestamp'
  BY <1>2 DEF GloballyLocked
<1>4. CASE AllCols \in Plan[q].cols
  <2>1. timestamp[q] <= table_schema'.min_lat
    BY <1>2, <1>4 DEF GloballyLocked
  <2> QED BY <1>3, <1>4, <2>1 DEF GloballyLocked
<1>5. CASE AllCols \notin Plan[q].cols
  <2>1. \A col \in Plan[q].cols : timestamp[q] <= get_lat(table_schema, col)
    BY <1>5 DEF GloballyLocked
  <2>2. \A col \in Plan[q].cols : timestamp[q] <= get_lat(table_schema', col)
    BY <1>1, <1>2, <2>1
  <2> QED BY <1>3, <1>5, <2>2 DEF GloballyLocked
<1> QED BY <1>4, <1>5

LEMMA LockedCol ==
    ASSUME NEW q \in Queries, timestamp \in [Queries -> Nat], MvmOK(table_schema),
           GloballyLocked(q), NEW k, LocksCol(q, k)
    PROVE  timestamp[q] <= get_lat(table_schema, k)
<1>1. get_lat(table_schema, k) \in Nat /\ get_lat(table_schema, k) >= table_schema.min_lat
  BY LatType
<1>2. timestamp[q] \in Nat /\ table_schema.min_lat \in Nat
  BY DEF MvmOK
<1>3. CASE AllCols \in Plan[q].cols
  BY <1>1, <1>2, <1>3 DEF GloballyLocked
<1>4. CASE AllCols \notin Plan[q].cols
  BY <1>4 DEF GloballyLocked, LocksCol
<1> QED BY <1>3, <1>4

\* No lock, no DDL and no bundle is touched.
LEMMA SchemaKept ==
    ASSUME SchemaInv,
           UNCHANGED <<timestamp, table_schema, presence_timestamp, this_sharding_gen, ddl_es,
                       inserting_locked_cols, inserting_bundle, bundle_applied>>,
           tablet_bundle \subseteq tablet_bundle',
           \A p \in tablet_bundle' :
               p \in tablet_bundle \/ p.type \notin {"DDLCommitted", "DDLAborted", "DDLPrepared"},
           \A q \in Queries : ColsLocked(q)' => ColsLocked(q),
           \A r \in Reads : waiting_global_locks[r] \subseteq waiting_global_locks'[r],
           \A r \in Reads : es'[r] = "Success" =>
               es[r] = "Success" \/ (ColsLocked(r) /\ "cols" \notin waiting_global_locks[r]),
           DOMAIN prepared_writes' \cup DOMAIN committed_writes'
               \subseteq DOMAIN prepared_writes \cup DOMAIN committed_writes
    PROVE  SchemaInv'
<1>1. \A q : GloballyLocked(q)' <=> GloballyLocked(q)
  BY DEF GloballyLocked
<1>2. \A q : does_query_plan_align(q)' <=> does_query_plan_align(q)
  BY DEF does_query_plan_align
<1>3. \A q : Locking(tablet_bundle \cup inserting_bundle, q) =>
             Locking(tablet_bundle' \cup inserting_bundle', q)
  BY DEF Locking
<1>4. SchemaType'
  BY DEF SchemaInv, SchemaType
<1>5. LocksInv'
  <2> USE DEF SchemaInv
  <2>1. \A q \in Queries : ColsLocked(q)' =>
          GloballyLocked(q)' \/ Locking(tablet_bundle \cup inserting_bundle, q)'
    <3> SUFFICES ASSUME NEW q \in Queries, ColsLocked(q)'
                 PROVE  GloballyLocked(q)' \/ Locking(tablet_bundle' \cup inserting_bundle', q)
      BY DEF Locking
    <3>1. GloballyLocked(q) \/ Locking(tablet_bundle \cup inserting_bundle, q)
      BY DEF LocksInv
    <3> QED BY <1>1, <1>3, <3>1
  <2>2. \A r \in Reads : ColsLocked(r)' /\ "cols" \notin waiting_global_locks'[r] => GloballyLocked(r)'
    BY <1>1 DEF LocksInv, Queries
  <2>3. \A r \in Reads : es'[r] = "Success" => GloballyLocked(r)'
    BY <1>1 DEF LocksInv
  <2>4. \A q \in DOMAIN prepared_writes' \cup DOMAIN committed_writes' : GloballyLocked(q)'
    BY <1>1 DEF LocksInv
  <2>5. \A p \in inserting_bundle' : p.type = "Prepared" =>
           GloballyLocked(p.of)' \/ Locking(inserting_bundle, p.of)'
    BY <1>1 DEF LocksInv, Locking
  <2> QED BY <2>1, <2>2, <2>3, <2>4, <2>5 DEF LocksInv
<1>6. AlignInv'
  BY <1>2 DEF SchemaInv, AlignInv
<1>7. DDLTimestampInv'
  BY DEF SchemaInv, DDLTimestampInv
<1>8. DDLBundleInv'
  BY DEF SchemaInv, DDLBundleInv
<1> QED BY <1>4, <1>5, <1>6, <1>7, <1>8 DEF SchemaInv

LEMMA QuietSchema ==
    ASSUME Inv, SchemaInv, GossipData \/ ShardingConfirmed \/ handle_rlc
    PROVE  SchemaInv'
<1>1. UNCHANGED <<timestamp, persisted_vars, write_vars, col_vars, es_vars, ddl_es,
                  inserting_bundle, bundle_applied>>
  BY DEF GossipData, ShardingConfirmed, handle_rlc, ddl_vars, bundle_vars
<1>2. tablet_bundle' = tablet_bundle \/ tablet_bundle' = tablet_bundle \cup {PLm("ShardingConfirmed", 0)}
  BY DEF GossipData, ShardingConfirmed, handle_rlc, bundle_vars
<1>3. \A q \in Queries : ColsLocked(q)' => ColsLocked(q)
  BY <1>1 DEF ColsLocked, es_vars, write_vars
<1>4. \A p \in tablet_bundle' :
          p \in tablet_bundle \/ p.type \notin {"DDLCommitted", "DDLAborted", "DDLPrepared"}
  BY <1>2 DEF PLm
<1> QED BY <1>1, <1>2, <1>3, <1>4, SchemaKept DEF persisted_vars, write_vars, col_vars, es_vars

LEMMA HandleCommitSchema ==
    ASSUME Inv, SchemaInv, NEW q \in Writers, HandleCommit(q) PROVE SchemaInv'
<1> USE DEF HandleCommit, persisted_vars, write_vars, col_vars, es_vars, ddl_vars
<1>1. \A x \in Queries : ColsLocked(x)' => ColsLocked(x)
  BY DEF ColsLocked
<1>2. \A p \in tablet_bundle' :
          p \in tablet_bundle \/ p.type \notin {"DDLCommitted", "DDLAborted", "DDLPrepared"}
  BY DEF PLm
<1> QED BY <1>1, <1>2, SchemaKept

LEMMA HandleAbortSchema ==
    ASSUME Inv, SchemaInv, NEW q \in Writers, HandleAbort(q) PROVE SchemaInv'
<1> USE DEF persisted_vars, col_vars, es_vars, ddl_vars
<1>1. DOMAIN inserting_prepared_writes' \subseteq DOMAIN inserting_prepared_writes
  BY DEF HandleAbort, Without
<1>2. UNCHANGED <<verifying_writes, prepared_writes, committed_writes, es>>
  BY DEF HandleAbort
<1>3. \A x \in Queries : ColsLocked(x)' => ColsLocked(x)
  BY <1>1, <1>2 DEF ColsLocked
<1>4. \A p \in tablet_bundle' :
          p \in tablet_bundle \/ p.type \notin {"DDLCommitted", "DDLAborted", "DDLPrepared"}
  BY DEF HandleAbort, PLm
<1>5. tablet_bundle \subseteq tablet_bundle'
  BY DEF HandleAbort
<1> QED BY <1>2, <1>3, <1>4, <1>5, SchemaKept DEF HandleAbort

LEMMA PrepareSchema ==
    ASSUME Inv, SchemaInv, NEW q \in Writers, NEW id \in 1..2, Prepare(q, id) PROVE SchemaInv'
<1> USE DEF persisted_vars, col_vars, ddl_vars, bundle_vars
<1>1. es' = [es EXCEPT ![q] = "Finishing"] /\ es[q] \in {"StageDone", "Finishing"}
      /\ UNCHANGED <<prepared_writes, committed_writes>>
  BY DEF Prepare
<1>2. es \in [Queries -> EsStates] /\ q \in Queries /\ q \notin Reads
  BY QueriesAssumption DEF Inv, TypeInv, Queries
<1>3. /\ DOMAIN verifying_writes' \subseteq DOMAIN verifying_writes
      /\ DOMAIN inserting_prepared_writes' \subseteq DOMAIN inserting_prepared_writes \cup {q}
      /\ q \in DOMAIN inserting_prepared_writes' =>
            q \in DOMAIN inserting_prepared_writes \/ q \in DOMAIN verifying_writes
  <2>1. CASE q \in DOMAIN verifying_writes /\ verifying_writes[q].id = id
    BY <2>1 DEF Prepare, Without, With
  <2>2. CASE ~(q \in DOMAIN verifying_writes /\ verifying_writes[q].id = id)
    BY <2>2 DEF Prepare
  <2> QED BY <2>1, <2>2
<1>4. ASSUME NEW x \in Queries, ColsLocked(x)' PROVE ColsLocked(x)
  <2>1. CASE x = q
    BY <1>1, <1>2, <1>3, <1>4, <2>1 DEF ColsLocked
  <2>2. CASE x # q
    BY <1>1, <1>2, <1>3, <1>4, <2>2 DEF ColsLocked
  <2> QED BY <2>1, <2>2
<1>5. \A r \in Reads : es'[r] = es[r]
  BY <1>1, <1>2
<1> QED BY <1>1, <1>4, <1>5, SchemaKept DEF Prepare

LEMMA CancelQuerySchema ==
    ASSUME Inv, SchemaInv, NEW q \in Queries, CancelQuery(q) PROVE SchemaInv'
<1> USE DEF persisted_vars, col_vars, ddl_vars, bundle_vars
<1>1. es' = [es EXCEPT ![q] = "Cancelled"] /\ DOMAIN verifying_writes' \subseteq DOMAIN verifying_writes
      /\ UNCHANGED <<inserting_prepared_writes, prepared_writes, committed_writes>>
  BY DEF CancelQuery, Without
<1>2. es \in [Queries -> EsStates]
  BY DEF Inv, TypeInv
<1>3. \A x \in Queries : es'[x] = es[x] \/ es'[x] = "Cancelled"
  BY <1>1, <1>2
<1>4. \A x \in Queries : ColsLocked(x)' => ColsLocked(x)
  BY <1>1, <1>3 DEF ColsLocked
<1>5. \A r \in Reads : es'[r] = "Success" => es[r] = "Success"
  BY <1>3 DEF Queries
<1> QED BY <1>1, <1>4, <1>5, SchemaKept DEF CancelQuery

LEMMA DeadlockSafetySchema ==
    ASSUME Inv, SchemaInv, NEW q \in DOMAIN verifying_writes, DeadlockSafetyWriteAbort(q)
    PROVE  SchemaInv'
<1> USE DEF persisted_vars, col_vars, ddl_vars, bundle_vars
<1>1. es' = [es EXCEPT ![q] = IF @ \in Active THEN "Error" ELSE @]
      /\ DOMAIN verifying_writes' \subseteq DOMAIN verifying_writes
      /\ UNCHANGED <<inserting_prepared_writes, prepared_writes, committed_writes>>
  BY DEF DeadlockSafetyWriteAbort, Without
<1>2. es \in [Queries -> EsStates]
  BY DEF Inv, TypeInv
<1>3. \A x \in Queries : es'[x] = es[x] \/ es'[x] = "Error"
  BY <1>1, <1>2
<1>4. \A x \in Queries : ColsLocked(x)' => ColsLocked(x)
  BY <1>1, <1>3 DEF ColsLocked
<1>5. \A r \in Reads : es'[r] = "Success" => es[r] = "Success"
  BY <1>3 DEF Queries
<1> QED BY <1>1, <1>4, <1>5, SchemaKept DEF DeadlockSafetyWriteAbort

LEMMA PerformQuerySchema ==
    ASSUME Inv, SchemaInv, NEW q \in Queries, PerformQuery(q) PROVE SchemaInv'
<1> USE DEF persisted_vars, ddl_vars, bundle_vars
<1>1. /\ es' = [es EXCEPT ![q] = "Error"] \/ es' = [es EXCEPT ![q] = "ColumnsLocking"]
      /\ UNCHANGED <<inserting_prepared_writes, prepared_writes, committed_writes>>
      /\ DOMAIN verifying_writes' \subseteq DOMAIN verifying_writes \cup {q}
  BY DEF PerformQuery, With
<1>2. es \in [Queries -> EsStates]
  BY DEF Inv, TypeInv
<1>3. \A x \in Queries : (x # q /\ es'[x] = es[x]) \/ es'[x] \in {"Error", "ColumnsLocking"}
  BY <1>1, <1>2
<1>4. \A x \in Queries : ColsLocked(x)' => ColsLocked(x)
  BY <1>1, <1>3 DEF ColsLocked
<1>5. \A r \in Reads : es'[r] = "Success" => es[r] = "Success"
  BY <1>3 DEF Queries
<1>6. UNCHANGED <<timestamp, persisted_vars, inserting_locked_cols, waiting_global_locks, ddl_vars,
                  bundle_vars>>
  BY DEF PerformQuery
<1> QED BY <1>1, <1>4, <1>5, <1>6, SchemaKept

LEMMA SubqueryDoneSchema ==
    ASSUME Inv, SchemaInv, NEW q \in Queries, SubqueryDone(q) PROVE SchemaInv'
<1> USE DEF persisted_vars, write_vars, col_vars, ddl_vars, bundle_vars
<1>1. /\ es' = [es EXCEPT ![q] = Finished(q, waiting_global_locks[q])] \/ es' = [es EXCEPT ![q] = "Error"]
      /\ es[q] = "Executing" /\ UNCHANGED write_vars
  BY DEF SubqueryDone
<1>2. es \in [Queries -> EsStates] /\ (q \in Writers => q \in DOMAIN verifying_writes)
  BY <1>1 DEF Inv, TypeInv, ControlInv, Active
<1>3. \A x \in Queries : x # q => es'[x] = es[x]
  BY <1>1, <1>2
<1>4. ColsLocked(q)
  BY <1>1, <1>2 DEF ColsLocked, Queries
<1>5. \A x \in Queries : ColsLocked(x)' => ColsLocked(x)
  BY <1>1, <1>3, <1>4 DEF ColsLocked
<1>6. q \in Reads /\ es'[q] = "Success" => "cols" \notin waiting_global_locks[q]
  BY <1>1, <1>2, QueriesAssumption DEF Finished, Queries
<1>7. \A r \in Reads : es'[r] = "Success" =>
          es[r] = "Success" \/ (ColsLocked(r) /\ "cols" \notin waiting_global_locks[r])
  BY <1>3, <1>4, <1>6 DEF Queries
<1>8. UNCHANGED <<timestamp, persisted_vars, write_vars, col_vars, waiting_global_locks, ddl_vars,
                  bundle_vars>>
  BY DEF SubqueryDone
<1> QED BY <1>5, <1>7, <1>8, SchemaKept

LEMMA GrantLocalReadProtectedSchema ==
    ASSUME Inv, SchemaInv, NEW r \in waiting_read_protected, GrantLocalReadProtected(r)
    PROVE  SchemaInv'
<1> USE DEF persisted_vars, write_vars, col_vars, ddl_vars
<1>1. UNCHANGED <<timestamp, persisted_vars, write_vars, col_vars, ddl_vars, inserting_bundle,
                  bundle_applied>> /\ tablet_bundle' = tablet_bundle \cup {PLm("ReadProtected", r)}
  BY DEF GrantLocalReadProtected
<1>2. es \in [Queries -> EsStates] /\ r \in Reads /\ waiting_global_locks \in [Queries -> SUBSET {"cols", "read"}]
  BY DEF Inv, TypeInv, ReadsType
<1>3. \A x \in Queries : es'[x] = es[x] \/ (x = r /\ es[r] = "Pending" /\ es'[r] # "Success")
  BY <1>2 DEF GrantLocalReadProtected
<1>4. \A x \in Queries : ColsLocked(x)' => ColsLocked(x)
  BY <1>1, <1>2, <1>3 DEF ColsLocked
<1>5. \A x \in Reads : waiting_global_locks[x] \subseteq waiting_global_locks'[x]
  BY <1>2 DEF GrantLocalReadProtected, Queries
<1>6. \A p \in tablet_bundle' :
          p \in tablet_bundle \/ p.type \notin {"DDLCommitted", "DDLAborted", "DDLPrepared"}
  BY <1>1 DEF PLm
<1>7. \A x \in Reads : es'[x] = "Success" => es[x] = "Success"
  BY <1>3 DEF Queries
<1> QED BY <1>1, <1>4, <1>5, <1>6, <1>7, SchemaKept

LEMMA GrantMLocalReadProtectedSchema ==
    ASSUME Inv, SchemaInv, NEW q \in DOMAIN verifying_writes, NEW i, GrantMLocalReadProtected(q, i)
    PROVE  SchemaInv'
<1> USE DEF persisted_vars, col_vars, ddl_vars, bundle_vars
<1>1. UNCHANGED <<timestamp, persisted_vars, inserting_prepared_writes, prepared_writes,
                  committed_writes, col_vars, waiting_global_locks, ddl_vars, bundle_vars>>
  BY DEF GrantMLocalReadProtected
<1>2. es \in [Queries -> EsStates] /\ q \in Writers
  BY DEF Inv, TypeInv, WritesType, VerifyingType
<1>3. \A x \in Queries : es'[x] = es[x] \/ (x = q /\ es[q] = "Pending" /\ es'[q] # "Success")
  BY <1>2 DEF GrantMLocalReadProtected
<1>4. DOMAIN verifying_writes' = DOMAIN verifying_writes
  BY DEF GrantMLocalReadProtected
<1>5. \A x \in Queries : ColsLocked(x)' => ColsLocked(x)
  BY <1>1, <1>2, <1>3, <1>4, QueriesAssumption DEF ColsLocked
<1>6. \A x \in Reads : es'[x] = "Success" => es[x] = "Success"
  BY <1>3 DEF Queries
<1> QED BY <1>1, <1>5, <1>6, SchemaKept

LEMMA GossipChangedSchema ==
    ASSUME Inv, SchemaInv, NEW q \in Queries, gossip_data_changed(q) PROVE SchemaInv'
<1> USE DEF persisted_vars, col_vars, ddl_vars, bundle_vars
<1>1. UNCHANGED <<timestamp, persisted_vars, inserting_prepared_writes, prepared_writes,
                  committed_writes, col_vars, waiting_global_locks, ddl_vars, bundle_vars>>
      /\ es[q] = "GossipDataWaiting"
  BY DEF gossip_data_changed, Locked
<1>2. es \in [Queries -> EsStates] /\ (q \in Writers => q \in DOMAIN verifying_writes)
  BY <1>1 DEF Inv, TypeInv, ControlInv, Active
<1>3. DOMAIN verifying_writes' = DOMAIN verifying_writes
  BY DEF gossip_data_changed, Locked
<1>4. \A x \in Queries : x # q => es'[x] = es[x]
  BY <1>2 DEF gossip_data_changed, Locked
<1>5. es'[q] \in {"Pending", "Error"}
  BY <1>2 DEF gossip_data_changed, Locked
<1>6. ColsLocked(q)
  BY <1>1, <1>2 DEF ColsLocked, Queries
<1>7. \A x \in Queries : ColsLocked(x)' => ColsLocked(x)
  BY <1>1, <1>3, <1>4, <1>6 DEF ColsLocked
<1>8. \A x \in Reads : es'[x] = "Success" => es[x] = "Success"
  BY <1>4, <1>5 DEF Queries
<1> QED BY <1>1, <1>7, <1>8, SchemaKept

LEMMA GrantLockedColsSchema ==
    ASSUME Inv, SchemaInv, NEW id \in waiting_locked_cols, GrantLockedCols(id)
    PROVE  SchemaInv'
<1> DEFINE q == id[1]
           plm == PLm("LockedCols", id)
           Asked == ESIsLocking(id)
<1>1. UNCHANGED <<timestamp, table_schema, presence_timestamp, this_sharding_gen, ddl_es,
                  inserting_prepared_writes, prepared_writes, committed_writes,
                  inserting_bundle, bundle_applied>>
  BY DEF GrantLockedCols, Locked, persisted_vars, ddl_vars
<1>2. /\ es \in [Queries -> EsStates] /\ q \in Queries /\ timestamp \in [Queries -> Nat]
      /\ waiting_global_locks \in [Queries -> SUBSET {"cols", "read"}]
  BY DEF Inv, TypeInv, ColsType
<1>3. Asked /\ q \in Writers => q \in DOMAIN verifying_writes
  BY DEF Inv, ControlInv, Active, ESIsLocking
<1>4. DOMAIN verifying_writes' = DOMAIN verifying_writes
  BY DEF GrantLockedCols, Locked
<1>5. \A x \in Queries : x # q => es'[x] = es[x]
  BY <1>2 DEF GrantLockedCols, Locked
<1>6. ~Asked => es'[q] = es[q]
  BY <1>2 DEF GrantLockedCols, Locked, EsStates, Active
<1>7. Asked => /\ es'[q] \in {"Error", "GossipDataWaiting", "Pending"}
               /\ es'[q] # "Error" => does_query_plan_align(q)
  BY <1>2 DEF GrantLockedCols, Locked, GossipChecked
<1>8. \/ /\ GloballyLocked(q) \/ (Asked => es'[q] = "Error")
         /\ UNCHANGED <<inserting_locked_cols, tablet_bundle, waiting_global_locks>>
      \/ /\ LocallyLockable(q)
         /\ inserting_locked_cols' = inserting_locked_cols \cup {id}
         /\ tablet_bundle' = tablet_bundle \cup {plm}
         /\ waiting_global_locks' =
               IF Asked THEN [waiting_global_locks EXCEPT ![q] = @ \cup {"cols"}]
               ELSE waiting_global_locks
  <2>1. CASE GloballyLocked(q)
    BY <2>1 DEF GrantLockedCols
  <2>2. CASE ~GloballyLocked(q) /\ LocallyLockable(q)
    BY <2>2 DEF GrantLockedCols
  <2>3. CASE ~GloballyLocked(q) /\ ~LocallyLockable(q)
    <3>1. Locked(q, id[2], IF Asked THEN [es EXCEPT ![q] = "Error"] ELSE es)
          /\ UNCHANGED <<inserting_locked_cols, tablet_bundle, waiting_global_locks>>
      BY <2>3 DEF GrantLockedCols
    <3>2. Asked => es'[q] = "Error"
      BY <1>2, <3>1 DEF Locked
    <3> QED BY <3>1, <3>2
  <2> QED BY <2>1, <2>2, <2>3
<1>9. plm.type = "LockedCols" /\ plm.of = id
  BY DEF PLm
<1> HIDE DEF q, plm, Asked
<1>10. \A x : GloballyLocked(x)' <=> GloballyLocked(x)
  BY <1>1 DEF GloballyLocked
<1>11. \A x : does_query_plan_align(x)' <=> does_query_plan_align(x)
  BY <1>1 DEF does_query_plan_align
<1>12. ASSUME NEW x \in Queries, ColsLocked(x)', ~ColsLocked(x)
       PROVE  /\ x = q /\ Asked /\ does_query_plan_align(q)
              /\ GloballyLocked(q) \/ (plm \in tablet_bundle' /\ "cols" \in waiting_global_locks'[q])
  <2>1. x = q /\ Asked
    BY <1>1, <1>4, <1>5, <1>6, <1>12 DEF ColsLocked
  <2>2. es'[q] # "Error"
    BY <1>1, <1>4, <1>7, <1>12, <2>1 DEF ColsLocked
  <2> QED BY <1>2, <1>7, <1>8, <2>1, <2>2
<1>13. SchemaType'
  BY <1>1 DEF SchemaInv, SchemaType
<1>14. tablet_bundle \subseteq tablet_bundle'
       /\ (\A p \in tablet_bundle' : p \in tablet_bundle \/ p = plm)
       /\ (\A x \in Queries : waiting_global_locks[x] \subseteq waiting_global_locks'[x])
  BY <1>2, <1>8
<1>15. LocksInv'
  <2>1. ASSUME NEW x \in Queries, ColsLocked(x)'
        PROVE  GloballyLocked(x)' \/ Locking(tablet_bundle \cup inserting_bundle, x)'
    <3>1. CASE ColsLocked(x)
      <4>1. GloballyLocked(x) \/ Locking(tablet_bundle \cup inserting_bundle, x)
        BY <3>1 DEF SchemaInv, LocksInv
      <4> QED BY <1>1, <1>10, <1>14, <4>1 DEF Locking
    <3>2. CASE ~ColsLocked(x)
      BY <1>9, <1>10, <1>12, <2>1, <3>2 DEF Locking, q
    <3> QED BY <3>1, <3>2
  <2>2. ASSUME NEW r \in Reads, ColsLocked(r)', "cols" \notin waiting_global_locks'[r]
        PROVE  GloballyLocked(r)'
    <3>1. CASE ColsLocked(r)
      BY <1>10, <1>14, <2>2, <3>1 DEF SchemaInv, LocksInv, Queries
    <3>2. CASE ~ColsLocked(r)
      BY <1>10, <1>12, <2>2, <3>2 DEF Queries
    <3> QED BY <3>1, <3>2
  <2>3. \A r \in Reads : es'[r] = "Success" => GloballyLocked(r)'
    BY <1>5, <1>6, <1>7, <1>10 DEF SchemaInv, LocksInv, Queries
  <2>4. \A x \in DOMAIN prepared_writes' \cup DOMAIN committed_writes' : GloballyLocked(x)'
    BY <1>1, <1>10 DEF SchemaInv, LocksInv
  <2>5. \A p \in inserting_bundle' : p.type = "Prepared" =>
           GloballyLocked(p.of)' \/ Locking(inserting_bundle, p.of)'
    BY <1>1, <1>10 DEF SchemaInv, LocksInv, Locking
  <2> QED BY <2>1, <2>2, <2>3, <2>4, <2>5 DEF LocksInv
<1>16. AlignInv'
  BY <1>11, <1>12 DEF SchemaInv, AlignInv
<1>17. DDLTimestampInv'
  <2>1. CASE inserting_locked_cols' = inserting_locked_cols
    BY <1>1, <2>1 DEF SchemaInv, DDLTimestampInv
  <2>2. CASE LocallyLockable(q) /\ inserting_locked_cols' = inserting_locked_cols \cup {id}
    <3>1. timestamp[q] \in Nat /\ ddl_es.ts \in Nat
      BY <1>2 DEF SchemaInv, SchemaType
    <3>2. /\ ddl_es.kind = "Alter" /\ LocksCol(q, AlterCol) => timestamp[q] < ddl_es.ts
          /\ ddl_es.kind \in {"Drop", "Dropped"} => timestamp[q] < ddl_es.ts
      BY <2>2, <3>1 DEF LocallyLockable
    <3> QED BY <1>1, <2>2, <3>2 DEF SchemaInv, DDLTimestampInv, q
  <2> QED BY <1>8, <2>1, <2>2
<1>18. DDLBundleInv'
  BY <1>1, <1>9, <1>14 DEF SchemaInv, DDLBundleInv
<1> QED BY <1>13, <1>15, <1>16, <1>17, <1>18 DEF SchemaInv

LEMMA DDLPrepareSchema ==
    ASSUME Inv, SchemaInv, NEW kind \in ddl_left, DDLPrepare(kind) PROVE SchemaInv'
<1>1. UNCHANGED <<timestamp, table_schema, presence_timestamp, this_sharding_gen, write_vars,
                  inserting_locked_cols, waiting_locked_cols, es, waiting_global_locks, bundle_vars>>
  BY DEF DDLPrepare, persisted_vars, col_vars, es_vars
<1>2. /\ timestamp \in [Queries -> Nat] /\ kind \in {"Alter", "Drop", "Split"}
      /\ \A id \in waiting_locked_cols \cup inserting_locked_cols : id[1] \in Queries
  BY DEF Inv, TypeInv, ColsType
<1>3. /\ ddl_es = NoDDL
      /\ ddl_es' = [kind |-> kind, state |-> "Working",
                    ts |-> IF kind = "Split" THEN 0 ELSE prepared_timestamp(kind, 0)]
  BY DEF DDLPrepare
<1>4. MvmOK(table_schema) /\ presence_timestamp \in Nat
  BY DEF SchemaInv, SchemaType
<1>5. get_lat(table_schema, AlterCol) \in Nat /\ get_latest_lat(table_schema) \in Nat
  BY <1>4, LatType, LatestLat
<1> DEFINE ids == {x \in waiting_locked_cols \cup inserting_locked_cols :
                     kind = "Drop" \/ LocksCol(x[1], AlterCol)}
           B == {0} \cup (IF kind = "Alter" THEN {get_lat(table_schema, AlterCol)}
                          ELSE {get_latest_lat(table_schema), presence_timestamp})
           S == B \cup {timestamp[id[1]] : id \in ids}
<1>6. prepared_timestamp(kind, 0) = 1 + Max(S)
  <2>1. S = {0} \cup {timestamp[id[1]] : id \in ids}
              \cup (IF kind = "Alter" THEN {get_lat(table_schema, AlterCol)}
                    ELSE {get_latest_lat(table_schema), presence_timestamp})
    OBVIOUS
  <2> QED BY <2>1 DEF prepared_timestamp
<1>7. Max(S) \in Nat /\ \A x \in S : x <= Max(S)
  <2>1. B \in SUBSET Nat /\ B # {}
    BY <1>4, <1>5
  <2>2. IsFiniteSet(B)
    <3>1. IsFiniteSet({get_lat(table_schema, AlterCol)}) /\ IsFiniteSet({presence_timestamp})
          /\ IsFiniteSet({get_latest_lat(table_schema)}) /\ IsFiniteSet({0})
      BY FS_Singleton
    <3>2. B \subseteq ({0} \cup {get_lat(table_schema, AlterCol)})
                        \cup ({presence_timestamp} \cup {get_latest_lat(table_schema)})
      OBVIOUS
    <3> HIDE DEF B
    <3>3. IsFiniteSet(({0} \cup {get_lat(table_schema, AlterCol)})
                        \cup ({presence_timestamp} \cup {get_latest_lat(table_schema)}))
      BY <3>1, FS_Union
    <3> QED BY <3>2, <3>3, FS_Subset
  <2>3. \A id \in ids : id[1] \in Queries
    BY <1>2
  <2> HIDE DEF B, ids
  <2> QED BY <1>2, <2>1, <2>2, <2>3, MaxTimestamps
<1>8. \A id \in inserting_locked_cols :
         kind = "Drop" \/ LocksCol(id[1], AlterCol) => timestamp[id[1]] \in S /\ timestamp[id[1]] \in Nat
  BY <1>2
<1>9. /\ kind = "Alter" => get_lat(table_schema, AlterCol) \in S
      /\ kind = "Drop" => presence_timestamp \in S
  OBVIOUS
<1> HIDE DEF S, B, ids
<1>10. ddl_es'.kind = kind /\ ddl_es'.state = "Working" /\ ddl_es'.ts \in Nat
       /\ (kind # "Split" => ddl_es'.ts = 1 + Max(S))
  BY <1>3, <1>6, <1>7
<1>11. SchemaType'
  BY <1>1, <1>2, <1>3, <1>10 DEF SchemaInv, SchemaType, DDLStates
<1>12. LocksInv' /\ AlignInv'
  <2>1. LocksInv'
    BY <1>1 DEF SchemaInv, LocksInv, ColsLocked, Locking, GloballyLocked, write_vars, bundle_vars
  <2>2. AlignInv'
    BY <1>1 DEF SchemaInv, AlignInv, ColsLocked, does_query_plan_align, write_vars
  <2> QED BY <2>1, <2>2
<1>13. DDLTimestampInv'
  <2>1. CASE kind = "Alter"
    <3>1. get_lat(table_schema, AlterCol) < ddl_es'.ts
      BY <1>5, <1>7, <1>9, <1>10, <2>1
    <3>2. \A id \in inserting_locked_cols : LocksCol(id[1], AlterCol) => timestamp[id[1]] < ddl_es'.ts
      BY <1>7, <1>8, <1>10, <2>1
    <3> QED BY <1>1, <1>10, <2>1, <3>1, <3>2 DEF DDLTimestampInv
  <2>2. CASE kind = "Drop"
    <3>1. presence_timestamp < ddl_es'.ts
      BY <1>4, <1>7, <1>9, <1>10, <2>2
    <3>2. \A id \in inserting_locked_cols : timestamp[id[1]] < ddl_es'.ts
      BY <1>7, <1>8, <1>10, <2>2
    <3> QED BY <1>1, <1>10, <2>2, <3>1, <3>2 DEF DDLTimestampInv
  <2>3. CASE kind = "Split"
    BY <1>10, <2>3 DEF DDLTimestampInv
  <2> QED BY <1>2, <2>1, <2>2, <2>3
<1>14. DDLBundleInv'
  <2>1. ddl_es.state = "None"
    BY <1>3 DEF NoDDL
  <2>2. \A p \in tablet_bundle \cup inserting_bundle :
           p.type \notin {"DDLCommitted", "DDLAborted", "DDLPrepared"}
    BY <2>1 DEF SchemaInv, DDLBundleInv
  <2>3. bundle_applied => inserting_bundle = {}
    BY DEF SchemaInv, DDLBundleInv
  <2> QED BY <1>1, <1>2, <1>10, <2>2, <2>3 DEF DDLBundleInv, bundle_vars
<1> QED BY <1>11, <1>12, <1>13, <1>14 DEF SchemaInv

\* A step of the DDL RM that keeps the timestamp.
LEMMA DDLStepSchema ==
    ASSUME Inv, SchemaInv,
           UNCHANGED <<timestamp, table_schema, presence_timestamp, this_sharding_gen, write_vars,
                       inserting_locked_cols, es, waiting_global_locks, inserting_bundle, bundle_applied>>,
           ddl_es' = NoDDL \/ (ddl_es'.kind = ddl_es.kind /\ ddl_es'.ts = ddl_es.ts),
           ddl_es' \in [kind : {"None", "Alter", "Drop", "Split", "Dropped"}, state : DDLStates, ts : Nat],
           tablet_bundle \subseteq tablet_bundle',
           \A p \in tablet_bundle' : p \in tablet_bundle \/ p.type # "LockedCols",
           DDLBundleInv'
    PROVE  SchemaInv'
<1>1. SchemaType'
  BY DEF SchemaInv, SchemaType
<1>2. \A x : GloballyLocked(x)' <=> GloballyLocked(x)
  BY DEF GloballyLocked
<1>3. \A x : ColsLocked(x)' <=> ColsLocked(x)
  BY DEF ColsLocked, write_vars
<1>4. \A x : Locking(tablet_bundle \cup inserting_bundle, x) =>
             Locking(tablet_bundle \cup inserting_bundle, x)'
  BY DEF Locking
<1>5. \A x : Locking(inserting_bundle, x)' <=> Locking(inserting_bundle, x)
  BY DEF Locking
<1>6. LocksInv'
  BY <1>2, <1>3, <1>4, <1>5 DEF SchemaInv, LocksInv, write_vars
<1>7. AlignInv'
  BY <1>3 DEF SchemaInv, AlignInv, does_query_plan_align
<1>8. DDLTimestampInv'
  <2>1. CASE ddl_es' = NoDDL
    BY <2>1 DEF NoDDL, DDLTimestampInv
  <2>2. CASE ddl_es'.kind = ddl_es.kind /\ ddl_es'.ts = ddl_es.ts
    BY <2>2 DEF SchemaInv, DDLTimestampInv
  <2> QED BY <2>1, <2>2
<1> QED BY <1>1, <1>6, <1>7, <1>8 DEF SchemaInv

LEMMA DDLCommitSchema ==
    ASSUME Inv, SchemaInv, NEW t, t \in {ddl_es.ts, ddl_es.ts + 1}, DDLCommit(t) PROVE SchemaInv'
<1>1. UNCHANGED <<timestamp, table_schema, presence_timestamp, this_sharding_gen, write_vars,
                  inserting_locked_cols, es, waiting_global_locks, inserting_bundle, bundle_applied>>
  BY DEF DDLCommit, persisted_vars, col_vars, es_vars
<1>2. ddl_es \in [kind : {"None", "Alter", "Drop", "Split", "Dropped"}, state : DDLStates, ts : Nat]
  BY DEF SchemaInv, SchemaType
<1>3. /\ ddl_es'.kind = ddl_es.kind /\ ddl_es'.ts = ddl_es.ts /\ ddl_es'.state = "InsertingCommitted"
      /\ ddl_es' \in [kind : {"None", "Alter", "Drop", "Split", "Dropped"}, state : DDLStates, ts : Nat]
      /\ tablet_bundle' = tablet_bundle \cup {PLm("DDLCommitted", t)} /\ ddl_es.state = "Prepared"
  BY <1>2 DEF DDLCommit, DDLStates
<1>4. t \in Nat /\ t >= ddl_es.ts
  BY <1>2
<1>5. \A p \in tablet_bundle \cup inserting_bundle :
         p.type \notin {"DDLCommitted", "DDLAborted", "DDLPrepared"}
  BY <1>3 DEF SchemaInv, DDLBundleInv
<1>6. \A p \in tablet_bundle' : p \in tablet_bundle \/ (p.type = "DDLCommitted" /\ p.of = t)
  BY <1>3 DEF PLm
<1>7. (bundle_applied => inserting_bundle = {}) /\ ddl_es.kind # "Dropped"
  BY <1>3 DEF SchemaInv, DDLBundleInv
<1>8. DDLBundleInv'
  BY <1>1, <1>3, <1>4, <1>5, <1>6, <1>7 DEF DDLBundleInv
<1> QED BY <1>1, <1>3, <1>6, <1>8, DDLStepSchema

LEMMA DDLAbortSchema == ASSUME Inv, SchemaInv, DDLAbort PROVE SchemaInv'
<1>1. UNCHANGED <<timestamp, table_schema, presence_timestamp, this_sharding_gen, write_vars,
                  inserting_locked_cols, es, waiting_global_locks, inserting_bundle, bundle_applied>>
  BY DEF DDLAbort, persisted_vars, col_vars, es_vars
<1>2. ddl_es \in [kind : {"None", "Alter", "Drop", "Split", "Dropped"}, state : DDLStates, ts : Nat]
  BY DEF SchemaInv, SchemaType
<1>3. \/ ddl_es.state = "Working" /\ ddl_es' = NoDDL /\ tablet_bundle' = tablet_bundle
      \/ /\ ddl_es.state = "InsertingPrepared" /\ tablet_bundle' = tablet_bundle
         /\ ddl_es' = [ddl_es EXCEPT !.state = "InsertingPreparedAborted"]
      \/ /\ ddl_es.state = "Prepared" /\ tablet_bundle' = tablet_bundle \cup {PLm("DDLAborted", 0)}
         /\ ddl_es' = [ddl_es EXCEPT !.state = "InsertingAborted"]
  BY DEF DDLAbort
<1>4. ddl_es' = NoDDL \/ (ddl_es'.kind = ddl_es.kind /\ ddl_es'.ts = ddl_es.ts)
  BY <1>2, <1>3
<1>5. ddl_es' \in [kind : {"None", "Alter", "Drop", "Split", "Dropped"}, state : DDLStates, ts : Nat]
  BY <1>2, <1>3 DEF DDLStates, NoDDL
<1>6. \A p \in tablet_bundle \cup inserting_bundle : p.type \notin {"DDLCommitted", "DDLAborted"}
  BY <1>3 DEF SchemaInv, DDLBundleInv
<1>7. \A p \in tablet_bundle : p.type # "DDLPrepared"
  BY DEF SchemaInv, DDLBundleInv
<1>8. (bundle_applied => inserting_bundle = {}) /\ ddl_es.kind # "Dropped"
  BY <1>3 DEF SchemaInv, DDLBundleInv
<1>9. \A p \in inserting_bundle : p.type = "DDLPrepared" => ddl_es.state = "InsertingPrepared"
  BY <1>3 DEF SchemaInv, DDLBundleInv
<1>10. \A p \in tablet_bundle' : p \in tablet_bundle \/ p = PLm("DDLAborted", 0)
  BY <1>3
<1>11. DDLBundleInv'
  <2>1. CASE ddl_es.state = "Working" /\ ddl_es' = NoDDL /\ tablet_bundle' = tablet_bundle
    BY <1>1, <1>6, <1>7, <1>8, <1>9, <2>1 DEF DDLBundleInv, NoDDL
  <2>2. CASE /\ ddl_es.state = "InsertingPrepared" /\ tablet_bundle' = tablet_bundle
             /\ ddl_es' = [ddl_es EXCEPT !.state = "InsertingPreparedAborted"]
    BY <1>1, <1>2, <1>6, <1>7, <1>8, <1>9, <2>2 DEF DDLBundleInv
  <2>3. CASE /\ ddl_es.state = "Prepared" /\ tablet_bundle' = tablet_bundle \cup {PLm("DDLAborted", 0)}
             /\ ddl_es' = [ddl_es EXCEPT !.state = "InsertingAborted"]
    <3>1. ddl_es'.state = "InsertingAborted" /\ ddl_es'.kind = ddl_es.kind
      BY <1>2, <2>3
    <3>2. PLm("DDLAborted", 0).type = "DDLAborted"
      BY DEF PLm
    <3> QED BY <1>1, <1>6, <1>7, <1>8, <1>9, <1>10, <2>3, <3>1, <3>2 DEF DDLBundleInv
  <2> QED BY <1>3, <2>1, <2>2, <2>3
<1>12. tablet_bundle \subseteq tablet_bundle' /\ \A p \in tablet_bundle' : p \in tablet_bundle \/ p.type # "LockedCols"
  BY <1>3 DEF PLm
<1> QED BY <1>1, <1>4, <1>5, <1>11, <1>12, DDLStepSchema

LEMMA InsertionSchema == ASSUME Inv, SchemaInv, TabletBundleInsertion PROVE SchemaInv'
<1> DEFINE finishing == {q \in Writers : finish_query[q] = "WaitingInsertingPrepared"}
           ddl == ddl_es.state = "Working" /\ sharding_state = "None"
<1>1. UNCHANGED <<timestamp, table_schema, presence_timestamp, this_sharding_gen, write_vars,
                  inserting_locked_cols, es, waiting_global_locks>> /\ bundle_applied
  BY DEF TabletBundleInsertion, persisted_vars, col_vars, es_vars
<1>2. ddl_es \in [kind : {"None", "Alter", "Drop", "Split", "Dropped"}, state : DDLStates, ts : Nat]
  BY DEF SchemaInv, SchemaType
<1>3. /\ ddl_es' = IF ddl THEN [ddl_es EXCEPT !.state = "InsertingPrepared"] ELSE ddl_es
      /\ inserting_bundle' = tablet_bundle \cup {PLm("Prepared", q) : q \in finishing}
                                \cup (IF ddl THEN {PLm("DDLPrepared", 0)} ELSE {})
      /\ tablet_bundle' = {} /\ bundle_applied' = FALSE
  BY DEF TabletBundleInsertion
<1>4. inserting_bundle = {}
  BY <1>1 DEF SchemaInv, DDLBundleInv
<1>5. \A q : PLm("Prepared", q).type = "Prepared" /\ PLm("Prepared", q).of = q
  BY DEF PLm
<1>6. PLm("DDLPrepared", 0).type = "DDLPrepared"
  BY DEF PLm
<1>7. \A q \in finishing : q \in DOMAIN inserting_prepared_writes /\ q \in Queries
  BY DEF Inv, FinishInv, InsertingStates, Queries
<1>8. tablet_bundle \subseteq inserting_bundle' /\
      \A p \in inserting_bundle' : \/ p \in tablet_bundle \/ (ddl /\ p.type = "DDLPrepared")
                                   \/ (p.type = "Prepared" /\ p.of \in finishing)
  BY <1>3, <1>5, <1>6
<1> HIDE DEF finishing
<1>9. \A x : GloballyLocked(x)' <=> GloballyLocked(x)
  BY <1>1 DEF GloballyLocked
<1>10. \A x : ColsLocked(x)' <=> ColsLocked(x)
  BY <1>1 DEF ColsLocked, write_vars
<1>11. \A x : Locking(tablet_bundle \cup inserting_bundle, x) => Locking(inserting_bundle', x)
  BY <1>4, <1>8 DEF Locking
<1>12. SchemaType'
  <2>1. ddl_es' \in [kind : {"None", "Alter", "Drop", "Split", "Dropped"}, state : DDLStates, ts : Nat]
    BY <1>2, <1>3 DEF DDLStates
  <2> QED BY <1>1, <2>1 DEF SchemaInv, SchemaType
<1>13. LocksInv'
  <2>1. \A q \in Queries : ColsLocked(q)' =>
           GloballyLocked(q)' \/ Locking(tablet_bundle \cup inserting_bundle, q)'
    <3>1. \A q : Locking(inserting_bundle', q) => Locking(tablet_bundle' \cup inserting_bundle', q)
      BY DEF Locking
    <3> QED BY <1>9, <1>10, <1>11, <3>1 DEF SchemaInv, LocksInv
  <2>2. \A r \in Reads : ColsLocked(r)' /\ "cols" \notin waiting_global_locks'[r] => GloballyLocked(r)'
    BY <1>1, <1>9, <1>10 DEF SchemaInv, LocksInv
  <2>3. \A r \in Reads : es'[r] = "Success" => GloballyLocked(r)'
    BY <1>1, <1>9 DEF SchemaInv, LocksInv
  <2>4. \A q \in DOMAIN prepared_writes' \cup DOMAIN committed_writes' : GloballyLocked(q)'
    BY <1>1, <1>9 DEF SchemaInv, LocksInv, write_vars
  <2>5. ASSUME NEW p \in inserting_bundle', p.type = "Prepared"
        PROVE  GloballyLocked(p.of)' \/ Locking(inserting_bundle', p.of)
    <3>1. p \notin tablet_bundle
      BY <2>5 DEF Inv, BundleInv
    <3>2. p.of \in finishing
      BY <1>8, <2>5, <3>1
    <3>3. p.of \in Queries /\ ColsLocked(p.of)
      BY <1>7, <3>2 DEF ColsLocked
    <3> QED BY <1>9, <1>11, <3>3 DEF SchemaInv, LocksInv
  <2> QED BY <2>1, <2>2, <2>3, <2>4, <2>5 DEF LocksInv
<1>14. AlignInv'
  BY <1>1, <1>10 DEF SchemaInv, AlignInv, does_query_plan_align
<1>15. ddl_es'.kind = ddl_es.kind /\ ddl_es'.ts = ddl_es.ts
       /\ (ddl => ddl_es'.state = "InsertingPrepared") /\ (~ddl => ddl_es' = ddl_es)
  BY <1>2, <1>3
<1>16. DDLTimestampInv'
  BY <1>1, <1>15 DEF SchemaInv, DDLTimestampInv
<1>17. DDLBundleInv'
  <2>1. \A p \in tablet_bundle :
           /\ p.type = "DDLCommitted" =>
                 ddl_es.state = "InsertingCommitted" /\ p.of \in Nat /\ p.of >= ddl_es.ts
           /\ p.type = "DDLAborted" => ddl_es.state = "InsertingAborted"
           /\ p.type # "DDLPrepared"
    BY DEF SchemaInv, DDLBundleInv
  <2>2. ddl_es.kind = "Dropped" => ddl_es.state = "None"
    BY DEF SchemaInv, DDLBundleInv
  <2> QED BY <1>3, <1>8, <1>15, <2>1, <2>2 DEF DDLBundleInv
<1> QED BY <1>12, <1>13, <1>14, <1>16, <1>17 DEF SchemaInv

LEMMA LeaderChangedSchema == ASSUME Inv, SchemaInv, LeaderChanged PROVE SchemaInv'
<1>1. /\ UNCHANGED <<timestamp, table_schema, presence_timestamp, this_sharding_gen,
                     prepared_writes, committed_writes, bundle_applied>>
      /\ verifying_writes' = << >> /\ inserting_prepared_writes' = << >>
      /\ inserting_locked_cols' = {} /\ tablet_bundle' = {} /\ inserting_bundle' = {}
      /\ waiting_global_locks' = [q \in Queries |-> {}]
  BY DEF LeaderChanged, persisted_vars
<1>2. ddl_es \in [kind : {"None", "Alter", "Drop", "Split", "Dropped"}, state : DDLStates, ts : Nat]
  BY DEF SchemaInv, SchemaType
<1>3. \/ ddl_es' = NoDDL \/ ddl_es' = ddl_es
      \/ ddl_es.state # "None" /\ ddl_es' = [ddl_es EXCEPT !.state = "Prepared"]
  BY DEF LeaderChanged
<1>4. ddl_es' \in [kind : {"None", "Alter", "Drop", "Split", "Dropped"}, state : DDLStates, ts : Nat]
  BY <1>2, <1>3 DEF NoDDL, DDLStates
<1>5. \A q \in Queries : es'[q] = es[q] \/ es'[q] = "Error"
  BY DEF LeaderChanged
<1>6. \A r \in Reads : es'[r] \notin Active
  BY DEF LeaderChanged, Queries, Active
<1>7. \A x : GloballyLocked(x)' <=> GloballyLocked(x)
  BY <1>1 DEF GloballyLocked
<1>8. ASSUME NEW x \in Queries, ColsLocked(x)' PROVE ColsLocked(x) /\ GloballyLocked(x)
  <2>1. \/ x \in Reads /\ es'[x] = "Success"
        \/ x \in DOMAIN prepared_writes \cup DOMAIN committed_writes
    <3>1. DOMAIN verifying_writes' = {} /\ DOMAIN inserting_prepared_writes' = {}
      BY <1>1
    <3> QED BY <1>1, <1>6, <1>8, <3>1 DEF ColsLocked, Active
  <2>2. CASE x \in Reads /\ es'[x] = "Success"
    BY <1>5, <2>2 DEF SchemaInv, LocksInv, ColsLocked
  <2>3. CASE x \in DOMAIN prepared_writes \cup DOMAIN committed_writes
    BY <2>3 DEF SchemaInv, LocksInv, ColsLocked
  <2> QED BY <2>1, <2>2, <2>3
<1>9. SchemaType'
  BY <1>1, <1>4 DEF SchemaInv, SchemaType
<1>10. LocksInv'
  <2>1. \A r \in Reads : es'[r] = "Success" => GloballyLocked(r)'
    BY <1>5, <1>7 DEF SchemaInv, LocksInv, Queries
  <2>2. \A q \in DOMAIN prepared_writes' \cup DOMAIN committed_writes' : GloballyLocked(q)'
    BY <1>1, <1>7 DEF SchemaInv, LocksInv
  <2> QED BY <1>1, <1>7, <1>8, <2>1, <2>2 DEF LocksInv, Queries
<1>11. AlignInv'
  BY <1>1, <1>8 DEF SchemaInv, AlignInv, does_query_plan_align
<1>12. DDLTimestampInv'
  <2>1. ddl_es' = NoDDL \/ (ddl_es'.kind = ddl_es.kind /\ ddl_es'.ts = ddl_es.ts)
    BY <1>2, <1>3
  <2>2. CASE ddl_es' = NoDDL
    BY <2>2 DEF NoDDL, DDLTimestampInv
  <2>3. CASE ddl_es'.kind = ddl_es.kind /\ ddl_es'.ts = ddl_es.ts
    BY <1>1, <2>3 DEF SchemaInv, DDLTimestampInv
  <2> QED BY <2>1, <2>2, <2>3
<1>13. DDLBundleInv'
  <2>1. ddl_es.kind = "Dropped" => ddl_es.state = "None"
    BY DEF SchemaInv, DDLBundleInv
  <2>2. ddl_es'.kind = "Dropped" => ddl_es'.state = "None"
    BY <1>2, <1>3, <2>1 DEF NoDDL
  <2> QED BY <1>1, <2>2 DEF DDLBundleInv
<1> QED BY <1>9, <1>10, <1>11, <1>12, <1>13 DEF SchemaInv

LEMMA TabletBundleSchema ==
    ASSUME Inv, SchemaInv, NEW late \in BOOLEAN, TabletBundle(late) PROVE SchemaInv'
<1> DEFINE ids == Of("LockedCols")
           committing == Of("DDLCommitted")
           t == CHOOSE x \in committing : TRUE
           locked == ApplyLockedCols(table_schema, ids)
           alter == committing # {} /\ ddl_es.kind = "Alter"
           done == committing # {} \/ Of("DDLAborted") # {}
<1>1. /\ timestamp \in [Queries -> Nat] /\ timestamp' = timestamp
      /\ es \in [Queries -> EsStates] /\ \A q \in Writers : es[q] # "WaitingGlobalLockedCols"
  BY DEF Inv, TypeInv, TabletBundle
<1>2. /\ MvmOK(table_schema) /\ presence_timestamp \in Nat
      /\ ddl_es \in [kind : {"None", "Alter", "Drop", "Split", "Dropped"}, state : DDLStates, ts : Nat]
  BY DEF SchemaInv, SchemaType
<1>3. /\ table_schema' = IF alter THEN ApplyAlter(locked, t) ELSE locked
      /\ presence_timestamp' = Max({presence_timestamp} \cup {timestamp[id[1]] : id \in ids})
      /\ inserting_locked_cols' = inserting_locked_cols \ ids
      /\ inserting_bundle' = {}
  BY DEF TabletBundle
<1>4. /\ ddl_es' = IF committing # {} /\ ddl_es.kind = "Drop"
                   THEN [kind |-> "Dropped", state |-> "None", ts |-> t]
                   ELSE IF done THEN NoDDL
                   ELSE IF Of("DDLPrepared") # {}
                   THEN [ddl_es EXCEPT !.state = IF @ = "InsertingPrepared" THEN "Prepared"
                                                 ELSE "InsertingAborted"]
                   ELSE ddl_es
      /\ tablet_bundle' = tablet_bundle
              \cup {PLm("Aborted", q) : q \in {x \in Of("Prepared") :
                                                 finish_query[x] = "InsertingPreparedAborted"}}
              \cup (IF Of("DDLPrepared") # {} /\ ddl_es.state = "InsertingPreparedAborted"
                    THEN {PLm("DDLAborted", 0)} ELSE {})
  BY DEF TabletBundle
<1>5. \A type : \A x \in Of(type) : \E p \in inserting_bundle : p.type = type /\ p.of = x
  BY DEF Of
<1>6. \A p \in inserting_bundle : p.of \in Of(p.type)
  BY DEF Of
<1>7. \A id \in ids : id \in inserting_locked_cols
  BY OfBundle
<1>8. \A id \in inserting_locked_cols : id[1] \in Queries /\ timestamp[id[1]] \in Nat
  BY <1>1 DEF Inv, ColsType
<1>9. committing # {} => /\ t \in committing /\ t \in Nat /\ t >= ddl_es.ts
                         /\ ddl_es.state = "InsertingCommitted"
  <2>1. committing # {} => t \in committing
    OBVIOUS
  <2>2. \A x \in committing : x \in Nat /\ x >= ddl_es.ts /\ ddl_es.state = "InsertingCommitted"
    BY <1>5 DEF SchemaInv, DDLBundleInv
  <2> HIDE DEF t
  <2> QED BY <2>1, <2>2
<1>10. LET n == ApplyLockedCols(table_schema, ids)
       IN  /\ Grown(table_schema, n)
           /\ \A id \in ids : IF AllCols \in Plan[id[1]].cols THEN timestamp[id[1]] <= n.min_lat
                              ELSE \A col \in Plan[id[1]].cols : timestamp[id[1]] <= get_lat(n, col)
           /\ \A k : \A b \in Nat :
                 (get_lat(table_schema, k) < b
                     /\ \A id \in ids : LocksCol(id[1], k) => timestamp[id[1]] < b)
                     => get_lat(n, k) < b
  <2>1. \A id \in ids : id[1] \in Queries
    BY <1>7, <1>8
  <2> HIDE DEF ids
  <2> QED BY <1>1, <1>2, <2>1, AppliedLocks
<1>11. /\ Grown(table_schema, locked)
       /\ \A id \in ids : IF AllCols \in Plan[id[1]].cols THEN timestamp[id[1]] <= locked.min_lat
                          ELSE \A col \in Plan[id[1]].cols : timestamp[id[1]] <= get_lat(locked, col)
       /\ \A k : \A b \in Nat :
             (get_lat(table_schema, k) < b
                 /\ \A id \in ids : LocksCol(id[1], k) => timestamp[id[1]] < b)
                 => get_lat(locked, k) < b
  BY <1>10
<1>12. alter <=> committing # {} /\ ddl_es.kind = "Alter"
  OBVIOUS
<1>13. done <=> committing # {} \/ Of("DDLAborted") # {}
  OBVIOUS
<1>14. committing = Of("DDLCommitted") /\ ids = Of("LockedCols")
  OBVIOUS
<1> HIDE DEF t, committing, locked, alter, ids, done
<1>15. /\ presence_timestamp' \in Nat /\ presence_timestamp' >= presence_timestamp
       /\ \A id \in ids : timestamp[id[1]] <= presence_timestamp'
       /\ presence_timestamp' = presence_timestamp \/ \E id \in ids : presence_timestamp' = timestamp[id[1]]
  <2> DEFINE S == {presence_timestamp} \cup {timestamp[id[1]] : id \in ids}
  <2>1. {presence_timestamp} \in SUBSET Nat /\ {presence_timestamp} # {}
    BY <1>2
  <2>2. IsFiniteSet({presence_timestamp})
    BY FS_Singleton
  <2>3. \A id \in ids : id[1] \in Queries
    BY <1>7, <1>8
  <2>4. Max(S) \in S /\ Max(S) \in Nat /\ \A x \in S : x <= Max(S)
    BY <1>1, <2>1, <2>2, <2>3, MaxTimestamps
  <2> QED BY <1>2, <1>3, <2>4
<1>16. MvmOK(locked) /\ \A k : get_lat(locked, k) \in Nat /\ get_lat(table_schema, k) \in Nat
  BY <1>2, <1>11, LatType DEF Grown
<1>17. /\ ddl_es.kind = "Alter" =>
             /\ get_lat(table_schema, AlterCol) < ddl_es.ts
             /\ get_lat(locked, AlterCol) < ddl_es.ts
       /\ ddl_es.kind \in {"Drop", "Dropped"} => presence_timestamp' < ddl_es.ts
  <2>1. ddl_es.ts \in Nat
    BY <1>2
  <2>2. CASE ddl_es.kind = "Alter"
    <3>1. get_lat(table_schema, AlterCol) < ddl_es.ts
          /\ \A id \in ids : LocksCol(id[1], AlterCol) => timestamp[id[1]] < ddl_es.ts
      BY <1>7, <2>2 DEF SchemaInv, DDLTimestampInv
    <3> QED BY <1>11, <2>1, <2>2, <3>1
  <2>3. CASE ddl_es.kind \in {"Drop", "Dropped"}
    <3>1. presence_timestamp < ddl_es.ts /\ \A id \in ids : timestamp[id[1]] < ddl_es.ts
      BY <1>7, <2>3 DEF SchemaInv, DDLTimestampInv
    <3> QED BY <1>15, <2>3, <3>1
  <2> QED BY <2>2, <2>3
<1>18. alter => get_lat(locked, AlterCol) < t
  BY <1>2, <1>9, <1>12, <1>16, <1>17
<1>19. \A k : \A u : static_read(locked, k, u) = static_read(table_schema, k, u)
  BY <1>11 DEF Grown, static_read, static_read_version
<1>20. /\ MvmOK(table_schema') /\ table_schema'.min_lat = locked.min_lat
       /\ \A k : get_lat(table_schema', k) >= get_lat(locked, k)
       /\ \A u \in Nat : \A k : (alter /\ k = AlterCol /\ u >= t)
             \/ static_read(table_schema', k, u) = static_read(table_schema, k, u)
  <2>1. CASE alter
    <3> DEFINE v == IF static_read(locked, AlterCol, t) = NULL THEN "Type" ELSE NULL
               n == mvm_write(locked, AlterCol, v, t)
    <3>1. v \in {"Type", NULL}
      OBVIOUS
    <3>2. n = table_schema'
      BY <1>3, <2>1 DEF ApplyAlter
    <3> HIDE DEF v, n
    <3>3. t \in Nat
      BY <1>9, <1>12, <2>1
    <3>4. /\ MvmOK(n) /\ n.min_lat = locked.min_lat
          /\ \A k : get_lat(n, k) = IF k = AlterCol THEN t ELSE get_lat(locked, k)
          /\ \A u \in Nat : \A k : u < t \/ k # AlterCol => static_read(n, k, u) = static_read(locked, k, u)
      BY <1>16, <1>18, <2>1, <3>1, <3>3, WriteReads DEF n
    <3>5. \A k : get_lat(n, k) >= get_lat(locked, k)
      BY <1>16, <1>18, <2>1, <3>3, <3>4
    <3>6. \A u \in Nat : u < t \/ u >= t
      BY <3>3
    <3> QED BY <1>19, <2>1, <3>2, <3>4, <3>5, <3>6
  <2>2. CASE ~alter
    <3>1. table_schema' = locked
      BY <1>3, <2>2
    <3> QED BY <1>16, <1>19, <3>1
  <2> QED BY <2>1, <2>2
<1>21. /\ \A k : get_lat(table_schema', k) \in Nat /\ get_lat(table_schema', k) >= get_lat(table_schema, k)
       /\ table_schema'.min_lat >= table_schema.min_lat
  <2>1. \A k : get_lat(table_schema', k) \in Nat
    BY <1>20, LatType
  <2> QED BY <1>11, <1>16, <1>20, <2>1 DEF Grown
<1>22. \A q \in Queries : GloballyLocked(q) => GloballyLocked(q)'
  BY <1>1, <1>2, <1>15, <1>20, <1>21, LockedMonotone
<1>23. ASSUME NEW q \in Queries, Locking(inserting_bundle, q) PROVE GloballyLocked(q)'
  <2>1. PICK p \in inserting_bundle : p.type = "LockedCols" /\ p.of[1] = q
    BY <1>23 DEF Locking
  <2>2. p.of \in ids
    BY <1>6, <1>14, <2>1
  <2>3. timestamp[q] \in Nat /\ timestamp[q] <= presence_timestamp'
    BY <1>1, <1>15, <2>1, <2>2
  <2>4. IF AllCols \in Plan[q].cols THEN timestamp[q] <= table_schema'.min_lat
        ELSE \A col \in Plan[q].cols : timestamp[q] <= get_lat(locked, col)
    BY <1>11, <1>20, <2>1, <2>2
  <2>5. AllCols \notin Plan[q].cols =>
           \A col \in Plan[q].cols : timestamp[q] <= get_lat(table_schema', col)
    BY <1>16, <1>20, <1>21, <2>3, <2>4
  <2> QED BY <1>1, <2>3, <2>4, <2>5 DEF GloballyLocked
<1>24. \A q \in Queries : \/ es'[q] = es[q] \/ es'[q] = "Error"
                          \/ /\ q \in Reads /\ es[q] = "WaitingGlobalLockedCols"
                             /\ es'[q] = "Success" /\ waiting_global_locks'[q] = {}
  BY DEF TabletBundle
<1>25. \A r \in Queries : "cols" \in waiting_global_locks[r] /\ "cols" \notin waiting_global_locks'[r] =>
                             Locking(inserting_bundle, r)
  <2>1. \A r \in Queries : waiting_global_locks'[r] =
           waiting_global_locks[r] \ ((IF \E id \in Of("LockedCols") : id[1] = r THEN {"cols"} ELSE {})
                                        \cup (IF r \in Of("ReadProtected") THEN {"read"} ELSE {}))
    BY DEF TabletBundle
  <2>2. \A r \in Queries : "cols" \in waiting_global_locks[r] /\ "cols" \notin waiting_global_locks'[r] =>
                             \E id \in Of("LockedCols") : id[1] = r
    BY <2>1
  <2> QED BY <1>5, <2>2 DEF Locking
<1>26. /\ DOMAIN verifying_writes' \subseteq DOMAIN verifying_writes
       /\ DOMAIN inserting_prepared_writes' \subseteq DOMAIN inserting_prepared_writes
       /\ DOMAIN prepared_writes' \subseteq DOMAIN prepared_writes \cup Of("Prepared")
       /\ DOMAIN committed_writes' \subseteq DOMAIN committed_writes \cup Of("Committed")
  BY DEF TabletBundle
<1>27. (\A q \in Of("Prepared") : q \in Writers /\ q \in DOMAIN inserting_prepared_writes)
       /\ (\A q \in Of("Committed") : q \in Writers /\ q \in DOMAIN prepared_writes)
  BY OfBundle
<1>28. ASSUME NEW q \in Queries, ColsLocked(q)' PROVE ColsLocked(q)
  BY <1>24, <1>26, <1>27, <1>28 DEF ColsLocked
<1>29. tablet_bundle \subseteq tablet_bundle'
  BY <1>4
<1>30. SchemaType'
  <2>1. this_sharding_gen' \in 0..1
    <3>1. this_sharding_gen \in 0..1
      BY DEF SchemaInv, SchemaType
    <3>2. this_sharding_gen' = 1 \/ this_sharding_gen' = this_sharding_gen
      BY DEF TabletBundle
    <3> QED BY <3>1, <3>2
  <2>2. ddl_es' \in [kind : {"None", "Alter", "Drop", "Split", "Dropped"}, state : DDLStates, ts : Nat]
    BY <1>2, <1>4, <1>9 DEF DDLStates, NoDDL
  <2> QED BY <1>15, <1>20, <2>1, <2>2 DEF SchemaType
<1>31. LocksInv'
  <2>1. ASSUME NEW q \in Queries, ColsLocked(q)'
        PROVE  GloballyLocked(q)' \/ Locking(tablet_bundle' \cup inserting_bundle', q)
    <3>1. GloballyLocked(q) \/ Locking(tablet_bundle \cup inserting_bundle, q)
      BY <1>28, <2>1 DEF SchemaInv, LocksInv
    <3>2. Locking(tablet_bundle \cup inserting_bundle, q) =>
             Locking(inserting_bundle, q) \/ Locking(tablet_bundle' \cup inserting_bundle', q)
      BY <1>29 DEF Locking
    <3> QED BY <1>22, <1>23, <3>1, <3>2
  <2>2. ASSUME NEW r \in Reads, ColsLocked(r)', "cols" \notin waiting_global_locks'[r]
        PROVE  GloballyLocked(r)'
    <3>1. r \in Queries /\ ColsLocked(r)
      BY <1>28, <2>2 DEF Queries
    <3>2. CASE "cols" \in waiting_global_locks[r]
      BY <1>23, <1>25, <2>2, <3>1, <3>2
    <3>3. CASE "cols" \notin waiting_global_locks[r]
      BY <1>22, <3>1, <3>3 DEF SchemaInv, LocksInv
    <3> QED BY <3>2, <3>3
  <2>3. ASSUME NEW r \in Reads, es'[r] = "Success" PROVE GloballyLocked(r)'
    <3>1. CASE es[r] = "Success"
      BY <1>22, <3>1 DEF SchemaInv, LocksInv, Queries
    <3>2. CASE waiting_global_locks'[r] = {}
      BY <2>2, <2>3, <3>2 DEF ColsLocked
    <3> QED BY <1>24, <2>3, <3>1, <3>2 DEF Queries
  <2>4. ASSUME NEW q \in DOMAIN prepared_writes' \cup DOMAIN committed_writes'
        PROVE  GloballyLocked(q)'
    <3>1. CASE q \in DOMAIN prepared_writes \cup DOMAIN committed_writes
      <4>1. q \in Queries
        BY <3>1 DEF Inv, WritesType, MapType, Queries
      <4> QED BY <1>22, <3>1, <4>1 DEF SchemaInv, LocksInv
    <3>2. CASE q \in Of("Prepared")
      <4>1. PICK p \in inserting_bundle : p.type = "Prepared" /\ p.of = q
        BY <1>5, <3>2
      <4>2. GloballyLocked(q) \/ Locking(inserting_bundle, q)
        BY <4>1 DEF SchemaInv, LocksInv
      <4>3. q \in Queries
        BY <1>27, <3>2 DEF Queries
      <4> QED BY <1>22, <1>23, <4>2, <4>3
    <3> QED BY <1>26, <1>27, <2>4, <3>1, <3>2
  <2> QED BY <1>3, <2>1, <2>2, <2>3, <2>4 DEF LocksInv
<1>32. AlignInv'
  <2> SUFFICES ASSUME NEW q \in Queries, ColsLocked(q)' PROVE does_query_plan_align(q)'
    BY DEF AlignInv
  <2>1. does_query_plan_align(q) /\ timestamp[q] \in Nat
    BY <1>1, <1>28 DEF SchemaInv, AlignInv
  <2>2. ~(alter /\ LocksCol(q, AlterCol) /\ timestamp[q] >= t)
    <3> SUFFICES ASSUME alter, LocksCol(q, AlterCol) PROVE timestamp[q] < t
      BY <1>9, <1>12, <2>1
    <3>1. t \in Nat /\ t >= ddl_es.ts /\ ddl_es.ts \in Nat /\ ddl_es.kind = "Alter"
      BY <1>2, <1>9, <1>12
    <3>2. CASE GloballyLocked(q)
      <4>1. timestamp[q] <= get_lat(table_schema, AlterCol)
        BY <1>1, <1>2, <3>2, LockedCol
      <4> QED BY <1>16, <1>17, <2>1, <3>1, <4>1
    <3>3. CASE Locking(tablet_bundle \cup inserting_bundle, q)
      <4>1. PICK p \in tablet_bundle \cup inserting_bundle : p.type = "LockedCols" /\ p.of[1] = q
        BY <3>3 DEF Locking
      <4>2. p.of \in inserting_locked_cols
        BY <4>1 DEF Inv, BundleInv
      <4>3. timestamp[q] < ddl_es.ts
        BY <3>1, <4>1, <4>2 DEF SchemaInv, DDLTimestampInv
      <4> QED BY <2>1, <3>1, <4>3
    <3> QED BY <1>28, <3>2, <3>3 DEF SchemaInv, LocksInv
  <2>3. \A k : LocksCol(q, k) =>
           static_read(table_schema', k, timestamp[q]) = static_read(table_schema, k, timestamp[q])
    BY <1>20, <2>1, <2>2
  <2> QED BY <1>1, <2>1, <2>3, StaysAligned
<1>33. DDLTimestampInv'
  <2>1. CASE committing # {} /\ ddl_es.kind = "Drop"
    <3>1. ddl_es'.kind = "Dropped" /\ ddl_es'.ts = t
      BY <1>4, <2>1
    <3>2. t \in Nat /\ t >= ddl_es.ts /\ ddl_es.ts \in Nat
      BY <1>2, <1>9, <2>1
    <3>3. presence_timestamp' < t
      BY <1>15, <1>17, <2>1, <3>2
    <3>4. \A id \in inserting_locked_cols : timestamp[id[1]] < ddl_es.ts
      BY <2>1 DEF SchemaInv, DDLTimestampInv
    <3>5. \A id \in inserting_locked_cols' : timestamp[id[1]] < t
      BY <1>3, <1>8, <3>2, <3>4
    <3> QED BY <1>1, <3>1, <3>3, <3>5 DEF DDLTimestampInv
  <2>2. CASE ddl_es' = NoDDL
    BY <2>2 DEF DDLTimestampInv, NoDDL
  <2>3. CASE ddl_es'.kind = ddl_es.kind /\ ddl_es'.ts = ddl_es.ts /\ ~alter
    <3>1. table_schema' = locked
      BY <1>3, <2>3
    <3> QED BY <1>1, <1>3, <1>17, <2>3, <3>1 DEF SchemaInv, DDLTimestampInv
  <2> QED BY <1>2, <1>4, <1>12, <1>13, <2>1, <2>2, <2>3
<1>34. DDLBundleInv'
  <2>1. \A p \in tablet_bundle' :
           \/ p \in tablet_bundle \/ p.type = "Aborted"
           \/ /\ p.type = "DDLAborted" /\ Of("DDLPrepared") # {}
              /\ ddl_es.state = "InsertingPreparedAborted"
    BY <1>4 DEF PLm
  <2>2. /\ committing # {} => /\ ddl_es.state = "InsertingCommitted"
                              /\ \A p \in tablet_bundle : p.type # "DDLCommitted"
        /\ Of("DDLAborted") # {} => /\ ddl_es.state = "InsertingAborted"
                                    /\ \A p \in tablet_bundle : p.type # "DDLAborted"
        /\ Of("DDLPrepared") # {} =>
              ddl_es.state \in {"InsertingPrepared", "InsertingPreparedAborted"}
    BY <1>5, <1>14 DEF SchemaInv, DDLBundleInv
  <2>3. \A p \in tablet_bundle :
           /\ p.type = "DDLCommitted" =>
                 ddl_es.state = "InsertingCommitted" /\ p.of \in Nat /\ p.of >= ddl_es.ts
           /\ p.type = "DDLAborted" => ddl_es.state = "InsertingAborted"
           /\ p.type # "DDLPrepared"
    BY DEF SchemaInv, DDLBundleInv
  <2>4. ddl_es.kind = "Dropped" => ddl_es.state = "None"
    BY DEF SchemaInv, DDLBundleInv
  <2>5. ddl_es'.kind = "Dropped" => ddl_es'.state = "None"
    BY <1>2, <1>4, <2>2, <2>4 DEF NoDDL
  <2>6. ASSUME NEW p \in tablet_bundle', p.type = "DDLCommitted"
        PROVE  ddl_es' = ddl_es /\ p \in tablet_bundle
    BY <1>4, <1>13, <2>1, <2>2, <2>3, <2>6
  <2>7. ASSUME NEW p \in tablet_bundle', p.type = "DDLAborted"
        PROVE  ddl_es'.state = "InsertingAborted"
    <3>1. CASE p \in tablet_bundle
      <4>1. ddl_es' = ddl_es /\ ddl_es.state = "InsertingAborted"
        BY <1>4, <1>13, <2>2, <2>3, <2>7, <3>1
      <4> QED BY <4>1
    <3>2. CASE Of("DDLPrepared") # {} /\ ddl_es.state = "InsertingPreparedAborted"
      <4>1. ~done /\ committing = {}
        BY <1>13, <2>2, <3>2
      <4>2. ddl_es' = [ddl_es EXCEPT !.state = "InsertingAborted"]
        BY <1>4, <3>2, <4>1
      <4> QED BY <1>2, <4>2
    <3> QED BY <2>1, <2>7, <3>1, <3>2
  <2>8. \A p \in tablet_bundle' : p.type # "DDLPrepared"
    BY <2>1, <2>3
  <2> QED BY <1>3, <2>3, <2>5, <2>6, <2>7, <2>8 DEF DDLBundleInv
<1> QED BY <1>30, <1>31, <1>32, <1>33, <1>34 DEF SchemaInv

----------------------------------------------------------------------------
(* The split: queries planned before it are over, or Prepared.             *)

Moved(q) == Old(q) /\ \E i \in Stages(q) : Plan[q].stages[i].rows \cap NewRows # {}
Over == {"None", "Committed", "Aborted"}

SnapshotOK(s) ==
    /\ s.writes = MovedWrites /\ DOMAIN prepared_writes \subseteq {q \in Writers : ~Moved(q)}
    /\ \A r \in {x \in Reads : es[x] = "Success" /\ Moved(x)} : r \in s.reads
    /\ \A q \in Settled : Moved(q) =>
          /\ timestamp[q] <= s.presence
          /\ \A col \in Plan[q].cols \ {AllCols} : timestamp[q] <= get_lat(s.schema, col)

\* What a step may do to the queries of before the split.
OldKept ==
    \A q \in Queries : Old(q) =>
        /\ es'[q] \in Active \cup {"Success"} => es'[q] = es[q]
        /\ q \in DOMAIN verifying_writes' => q \in DOMAIN verifying_writes
        /\ q \in DOMAIN prepared_writes' => q \in DOMAIN prepared_writes
        /\ q \in DOMAIN committed_writes' <=> q \in DOMAIN committed_writes
        /\ q \in DOMAIN committed_writes => committed_writes'[q] = committed_writes[q]
        /\ q \in Writers /\ finish_query[q] \in Over => finish_query'[q] \in Over

LEMMA SnapshotsOK ==
    /\ SnapshotComplete <=> \A s \in snapshots : SnapshotOK(s)
    /\ SnapshotComplete' <=> \A s \in snapshots' : SnapshotOK(s)'
<1>1. SnapshotComplete <=> \A s \in snapshots : SnapshotOK(s)
  BY DEF SnapshotComplete, SnapshotOK, Moved, Old, Stages
<1>2. SnapshotComplete' <=> \A s \in snapshots' : SnapshotOK(s)'
  BY DEF SnapshotComplete, SnapshotOK, Moved, Old, Stages
<1> QED BY <1>1, <1>2

LEMMA MovedIsOld ==
    ASSUME NEW q \in Queries, NEW i, WriteRegion(q, i).rows \cap NewRows # {}
    PROVE  Old(q)
<1>1. Plan[q].gen \in 0..1
  BY PlanAssumption DEF PlanOK
<1> QED BY <1>1 DEF WriteRegion, OwnRows, Old

LEMMA SnapshotKept ==
    ASSUME Inv, Inv', OldKept, timestamp' = timestamp, NEW s, SnapshotOK(s)
    PROVE  SnapshotOK(s)'
<1>1. DOMAIN committed_writes \subseteq Queries /\ DOMAIN committed_writes' \subseteq Queries
      /\ DOMAIN prepared_writes' \subseteq Writers /\ DOMAIN prepared_writes' \subseteq Queries
  BY DEF Inv, WritesType, MapType, Queries
<1>2. MovedWrites' = MovedWrites
  <2>1. ASSUME NEW q \in Queries
        PROVE  q \in MovedWrites' <=> q \in MovedWrites
    <3>1. CASE Old(q)
      BY <3>1 DEF OldKept, MovedWrites
    <3>2. CASE ~Old(q)
      BY <3>2, MovedIsOld DEF MovedWrites
    <3> QED BY <3>1, <3>2
  <2>2. MovedWrites \subseteq Queries /\ MovedWrites' \subseteq Queries
    BY <1>1 DEF MovedWrites
  <2> QED BY <2>1, <2>2
<1>3. DOMAIN prepared_writes' \subseteq {q \in Writers : ~Moved(q)}
  BY <1>1 DEF SnapshotOK, OldKept, Moved
<1>4. \A r \in {x \in Reads : es'[x] = "Success" /\ Moved(x)} : r \in s.reads
  BY DEF SnapshotOK, OldKept, Moved, Queries
<1>5. \A q \in Settled' : Moved(q) => q \in Settled
  <2>1. \A q \in Settled' : q \in Queries
    BY <1>1 DEF Settled, Queries
  <2> QED BY <2>1 DEF Settled, OldKept, Moved
<1>6. \A q \in Settled' : Moved(q) =>
         /\ timestamp'[q] <= s.presence
         /\ \A col \in Plan[q].cols \ {AllCols} : timestamp'[q] <= get_lat(s.schema, col)
  BY <1>5 DEF SnapshotOK
<1> QED BY <1>2, <1>3, <1>4, <1>6 DEF SnapshotOK

\* A snapshot that is taken once the old queries are over is complete.
LEMMA SnapshotFresh ==
    ASSUME Inv, SchemaInv, \A q \in DOMAIN prepared_writes : ~Old(q)
    PROVE  SnapshotOK(Snapshot)
<1> DEFINE s == Snapshot
<1>1. s.writes = MovedWrites /\ s.reads = MovedReads /\ s.schema = table_schema
      /\ s.presence = presence_timestamp
  BY DEF Snapshot
<1>2. DOMAIN prepared_writes \subseteq {q \in Writers : ~Moved(q)}
  BY DEF Moved, Inv, WritesType, MapType
<1>3. ASSUME NEW r \in Reads, es[r] = "Success", Moved(r) PROVE r \in MovedReads
  <2>1. r \in read_protected
    BY <1>3 DEF Inv, ReadInv
  <2>2. DOMAIN Plan[r].stages = 1..1
    BY PlanAssumption, QueriesAssumption DEF PlanOK, Queries
  <2>3. Plan[r].stages[1].rows \cap NewRows # {} /\ Plan[r].gen = 0
    BY <1>3, <2>2 DEF Moved, Old, Stages
  <2> QED BY <2>1, <2>3 DEF MovedReads, ReadRegion, OwnRows
<1>4. ASSUME NEW q \in Settled
      PROVE  /\ timestamp[q] <= presence_timestamp
             /\ \A col \in Plan[q].cols \ {AllCols} : timestamp[q] <= get_lat(table_schema, col)
  <2>1. GloballyLocked(q)
    BY DEF Settled, SchemaInv, LocksInv
  <2>2. q \in Queries
    BY DEF Settled, Inv, WritesType, MapType, Queries
  <2>3. timestamp \in [Queries -> Nat] /\ MvmOK(table_schema)
    BY DEF Inv, TypeInv, SchemaInv, SchemaType
  <2>4. \A col \in Plan[q].cols : timestamp[q] <= get_lat(table_schema, col)
    BY <2>1, <2>2, <2>3, LockedCol DEF LocksCol
  <2> QED BY <2>1, <2>4 DEF GloballyLocked
<1> HIDE DEF s
<1> QED BY <1>1, <1>2, <1>3, <1>4 DEF SnapshotOK, s

SplitInv == ShardingInv /\ SnapshotComplete

LEMMA SplitKept ==
    ASSUME Inv, Inv', SchemaInv, SplitInv, timestamp' = timestamp, snapshots' = snapshots,
           this_sharding_gen = 1 => this_sharding_gen' = 1 /\ OldKept,
           this_sharding_gen # 1 /\ this_sharding_gen' = 1 =>
               \A q \in Queries : es'[q] \notin Active /\ q \notin DOMAIN verifying_writes',
           \/ sharding_state' = sharding_state \/ sharding_state' = "None"
           \/ sharding_state' = "WaitingPreparedWrites" /\ this_sharding_gen' = 1
           \/ sharding_state = "ShardingSnapshotSent" /\ sharding_state' = "InsertingShardingConfirmed"
    PROVE  SplitInv'
<1>1. sharding_state' # "None" \/ snapshots' # {} => this_sharding_gen' = 1
  BY DEF SplitInv, ShardingInv
<1>2. this_sharding_gen' = 1 => \A q \in Queries :
         Old(q) => es'[q] \notin Active /\ q \notin DOMAIN verifying_writes'
  <2>1. CASE this_sharding_gen = 1
    BY <2>1 DEF SplitInv, ShardingInv, OldKept
  <2>2. CASE this_sharding_gen # 1
    BY <2>2
  <2> QED BY <2>1, <2>2
<1>3. sharding_state' \in {"ShardingSnapshotSent", "InsertingShardingConfirmed"} \/ snapshots' # {} =>
         \A q \in Writers : Old(q) => finish_query'[q] \in Over
  <2> SUFFICES ASSUME sharding_state' \in {"ShardingSnapshotSent", "InsertingShardingConfirmed"}
                      \/ snapshots' # {},
                      NEW q \in Writers, Old(q)
               PROVE  finish_query'[q] \in Over
    OBVIOUS
  <2>1. sharding_state \in {"ShardingSnapshotSent", "InsertingShardingConfirmed"} \/ snapshots # {}
    OBVIOUS
  <2>2. finish_query[q] \in Over /\ this_sharding_gen = 1
    BY <2>1 DEF SplitInv, ShardingInv, Over
  <2> QED BY <2>2 DEF OldKept, Queries
<1>4. ASSUME NEW s \in snapshots' PROVE SnapshotOK(s)'
  <2>1. this_sharding_gen = 1 /\ SnapshotOK(s)
    BY SnapshotsOK DEF SplitInv, ShardingInv
  <2> QED BY <2>1, SnapshotKept
<1>5. ShardingInv'
  BY <1>1, <1>2, <1>3 DEF ShardingInv, Old, Over
<1>6. SnapshotComplete'
  BY <1>4, SnapshotsOK
<1> QED BY <1>5, <1>6 DEF SplitInv

\* A snapshot is sent, maybe once more.
LEMMA SplitSent ==
    ASSUME Inv, Inv', SchemaInv, SplitInv, timestamp' = timestamp, OldKept,
           this_sharding_gen = 1, this_sharding_gen' = 1, snapshots' = snapshots \cup {Snapshot},
           \A q \in DOMAIN prepared_writes : ~Old(q),
           \A q \in Writers : Old(q) => finish_query'[q] \in Over
    PROVE  SplitInv'
<1>1. \A q \in Queries : Old(q) => es'[q] \notin Active /\ q \notin DOMAIN verifying_writes'
  BY DEF SplitInv, ShardingInv, OldKept
<1>2. ShardingInv'
  BY <1>1 DEF ShardingInv, Old, Over
<1>3. ASSUME NEW s \in snapshots' PROVE SnapshotOK(s)'
  <2>1. SnapshotOK(s)
    BY SnapshotsOK, SnapshotFresh DEF SplitInv
  <2> QED BY <2>1, SnapshotKept
<1>4. SnapshotComplete'
  BY <1>3, SnapshotsOK
<1> QED BY <1>2, <1>4 DEF SplitInv

\* Queries before the split neither run nor hold a write region after it.
LEMMA OldIdle ==
    ASSUME SplitInv, this_sharding_gen = 1, NEW q \in Queries, Old(q)
    PROVE  es[q] \notin Active /\ q \notin DOMAIN verifying_writes
BY DEF SplitInv, ShardingInv

LEMMA OtherSplit ==
    ASSUME Inv, Inv', SchemaInv, SplitInv,
           \/ GossipData \/ ShardingConfirmed \/ (\E kind : DDLPrepare(kind))
           \/ (\E t : DDLCommit(t)) \/ DDLAbort
    PROVE  SplitInv'
<1>1. UNCHANGED <<timestamp, persisted_vars, write_vars, es_vars, finish_vars, snapshots>>
  BY DEF GossipData, ShardingConfirmed, DDLPrepare, DDLCommit, DDLAbort, ddl_vars
<1>2. \/ sharding_state' = sharding_state
      \/ sharding_state = "ShardingSnapshotSent" /\ sharding_state' = "InsertingShardingConfirmed"
  BY DEF GossipData, ShardingConfirmed, DDLPrepare, DDLCommit, DDLAbort, ddl_vars
<1>3. OldKept
  BY <1>1 DEF OldKept, write_vars, es_vars, finish_vars
<1> QED BY <1>1, <1>2, <1>3, SplitKept DEF persisted_vars

\* A step of one query, of before or after the split.
LEMMA QuerySplit ==
    ASSUME Inv, Inv', SchemaInv, SplitInv,
           UNCHANGED <<timestamp, this_sharding_gen, ddl_vars, prepared_writes, committed_writes>>,
           NEW q \in Queries, \A x \in Queries : x # q => es'[x] = es[x],
           DOMAIN verifying_writes' \subseteq DOMAIN verifying_writes \cup {q},
           \A x \in Writers : x # q => finish_query'[x] = finish_query[x],
           this_sharding_gen = 1 /\ Old(q) =>
               /\ es'[q] \in Active \cup {"Success"} => es'[q] = es[q]
               /\ q \notin DOMAIN verifying_writes'
               /\ q \in Writers /\ finish_query[q] \in Over => finish_query'[q] \in Over
    PROVE  SplitInv'
<1>1. this_sharding_gen = 1 => OldKept
  BY DEF OldKept
<1> QED BY <1>1, SplitKept DEF ddl_vars

LEMMA HandleCommitSplit ==
    ASSUME Inv, Inv', SchemaInv, SplitInv, NEW q \in Writers, HandleCommit(q) PROVE SplitInv'
<1>1. UNCHANGED <<timestamp, persisted_vars, ddl_vars, write_vars, es_vars>>
      /\ finish_query' = [finish_query EXCEPT ![q] = "InsertingCommitted"] /\ finish_query[q] = "Prepared"
  BY DEF HandleCommit
<1>2. q \in Queries /\ DOMAIN finish_query = Writers
  BY DEF Queries, Inv, TypeInv
<1>3. \A x \in Writers : x # q => finish_query'[x] = finish_query[x]
  BY <1>1, <1>2
<1>4. finish_query[q] \notin Over
  BY <1>1 DEF Over
<1> QED BY <1>1, <1>2, <1>3, <1>4, OldIdle, QuerySplit DEF persisted_vars, write_vars, es_vars

LEMMA HandleAbortSplit ==
    ASSUME Inv, Inv', SchemaInv, SplitInv, NEW q \in Writers, HandleAbort(q) PROVE SplitInv'
<1>1. UNCHANGED <<timestamp, persisted_vars, ddl_vars, verifying_writes, prepared_writes,
                  committed_writes, es_vars>>
      /\ finish_query[q] \in {"WaitingInsertingPrepared", "InsertingPrepared", "Prepared"}
  BY DEF HandleAbort
<1>2. q \in Queries /\ DOMAIN finish_query = Writers
  BY DEF Queries, Inv, TypeInv
<1>3. \A x \in Writers : x # q => finish_query'[x] = finish_query[x]
  BY <1>2 DEF HandleAbort
<1>4. finish_query[q] \notin Over
  BY <1>1 DEF Over
<1> QED BY <1>1, <1>2, <1>3, <1>4, OldIdle, QuerySplit DEF persisted_vars, es_vars

LEMMA PrepareSplit ==
    ASSUME Inv, Inv', SchemaInv, SplitInv, NEW q \in Writers, NEW id \in 1..2, Prepare(q, id)
    PROVE  SplitInv'
<1>1. UNCHANGED <<timestamp, persisted_vars, ddl_vars, prepared_writes, committed_writes>>
      /\ es' = [es EXCEPT ![q] = "Finishing"]
  BY DEF Prepare
<1>2. q \in Queries /\ DOMAIN finish_query = Writers /\ DOMAIN es = Queries
  BY DEF Queries, Inv, TypeInv
<1>3. /\ \A x \in Writers : x # q => finish_query'[x] = finish_query[x]
      /\ DOMAIN verifying_writes' \subseteq DOMAIN verifying_writes
      /\ q \notin DOMAIN verifying_writes => finish_query' = finish_query
  BY <1>2 DEF Prepare, Without
<1>4. es'[q] = "Finishing" /\ \A x \in Queries : x # q => es'[x] = es[x]
  BY <1>1, <1>2
<1>5. "Finishing" \notin Active \cup {"Success"}
  BY DEF Active
<1> QED BY <1>1, <1>2, <1>3, <1>4, <1>5, OldIdle, QuerySplit DEF persisted_vars

LEMMA CancelQuerySplit ==
    ASSUME Inv, Inv', SchemaInv, SplitInv, NEW q \in Queries, CancelQuery(q) PROVE SplitInv'
<1>1. UNCHANGED <<timestamp, persisted_vars, ddl_vars, prepared_writes, committed_writes, finish_vars>>
      /\ es' = [es EXCEPT ![q] = "Cancelled"] /\ DOMAIN verifying_writes' \subseteq DOMAIN verifying_writes
  BY DEF CancelQuery, Without
<1>2. DOMAIN es = Queries
  BY DEF Inv, TypeInv
<1>3. es'[q] = "Cancelled" /\ \A x \in Queries : x # q => es'[x] = es[x]
  BY <1>1, <1>2
<1>4. "Cancelled" \notin Active \cup {"Success"}
  BY DEF Active
<1> QED BY <1>1, <1>3, <1>4, OldIdle, QuerySplit DEF persisted_vars, finish_vars

LEMMA DeadlockSafetySplit ==
    ASSUME Inv, Inv', SchemaInv, SplitInv, NEW q \in DOMAIN verifying_writes,
           DeadlockSafetyWriteAbort(q)
    PROVE  SplitInv'
<1>1. UNCHANGED <<timestamp, persisted_vars, ddl_vars, prepared_writes, committed_writes, finish_vars>>
      /\ es' = [es EXCEPT ![q] = IF @ \in Active THEN "Error" ELSE @]
      /\ DOMAIN verifying_writes' \subseteq DOMAIN verifying_writes
  BY DEF DeadlockSafetyWriteAbort, Without
<1>2. DOMAIN es = Queries /\ q \in Queries
  BY DEF Inv, TypeInv, WritesType, VerifyingType, Queries
<1>3. \A x \in Queries : x # q => es'[x] = es[x]
  BY <1>1, <1>2
<1>4. this_sharding_gen = 1 => ~Old(q)
  BY <1>2, OldIdle
<1> QED BY <1>1, <1>2, <1>3, <1>4, QuerySplit DEF persisted_vars, finish_vars

LEMMA PerformQuerySplit ==
    ASSUME Inv, Inv', SchemaInv, SplitInv, NEW q \in Queries, PerformQuery(q) PROVE SplitInv'
<1>1. UNCHANGED <<timestamp, persisted_vars, ddl_vars, prepared_writes, committed_writes, finish_vars>>
  BY DEF PerformQuery
<1>2. DOMAIN es = Queries
  BY DEF Inv, TypeInv
<1>3. \A x \in Queries : x # q => es'[x] = es[x]
  BY <1>2 DEF PerformQuery
<1>4. DOMAIN verifying_writes' \subseteq DOMAIN verifying_writes \cup {q}
  BY DEF PerformQuery, With
<1>5. this_sharding_gen = 1 /\ Old(q) => es'[q] = "Error" /\ verifying_writes' = verifying_writes
  BY <1>2 DEF PerformQuery, Old
<1>6. "Error" \notin Active \cup {"Success"}
  BY DEF Active
<1> QED BY <1>1, <1>3, <1>4, <1>5, <1>6, OldIdle, QuerySplit DEF persisted_vars, finish_vars

LEMMA SubqueryDoneSplit ==
    ASSUME Inv, Inv', SchemaInv, SplitInv, NEW q \in Queries, SubqueryDone(q) PROVE SplitInv'
<1>1. UNCHANGED <<timestamp, persisted_vars, ddl_vars, write_vars, finish_query>> /\ es[q] \in Active
  BY DEF SubqueryDone, Active
<1>2. DOMAIN es = Queries
  BY DEF Inv, TypeInv
<1>3. \A x \in Queries : x # q => es'[x] = es[x]
  BY <1>2 DEF SubqueryDone
<1>4. this_sharding_gen = 1 => ~Old(q)
  BY <1>1, OldIdle
<1> QED BY <1>1, <1>3, <1>4, QuerySplit DEF persisted_vars, write_vars

LEMMA GrantLocalReadProtectedSplit ==
    ASSUME Inv, Inv', SchemaInv, SplitInv, NEW r \in waiting_read_protected, GrantLocalReadProtected(r)
    PROVE  SplitInv'
<1>1. UNCHANGED <<timestamp, persisted_vars, ddl_vars, write_vars, finish_vars>>
  BY DEF GrantLocalReadProtected
<1>2. DOMAIN es = Queries /\ r \in Queries /\ r \notin Writers
  BY QueriesAssumption DEF Inv, TypeInv, ReadsType, Queries
<1>3. \A x \in Queries : x # r => es'[x] = es[x]
  BY <1>2 DEF GrantLocalReadProtected
<1>4. es'[r] = es[r] \/ es[r] \in Active
  BY <1>2 DEF GrantLocalReadProtected, Active
<1>5. this_sharding_gen = 1 /\ Old(r) => es'[r] = es[r] /\ r \notin DOMAIN verifying_writes
  BY <1>2, <1>4, OldIdle
<1> QED BY <1>1, <1>2, <1>3, <1>5, QuerySplit DEF persisted_vars, write_vars, finish_vars

LEMMA GrantMLocalReadProtectedSplit ==
    ASSUME Inv, Inv', SchemaInv, SplitInv, NEW q \in DOMAIN verifying_writes, NEW i,
           GrantMLocalReadProtected(q, i)
    PROVE  SplitInv'
<1>1. UNCHANGED <<timestamp, persisted_vars, ddl_vars, prepared_writes, committed_writes, finish_query>>
      /\ DOMAIN verifying_writes' = DOMAIN verifying_writes
  BY DEF GrantMLocalReadProtected
<1>2. DOMAIN es = Queries /\ q \in Queries
  BY DEF Inv, TypeInv, WritesType, VerifyingType, Queries
<1>3. \A x \in Queries : x # q => es'[x] = es[x]
  BY <1>2 DEF GrantMLocalReadProtected
<1>4. this_sharding_gen = 1 => ~Old(q)
  BY <1>2, OldIdle
<1> QED BY <1>1, <1>2, <1>3, <1>4, QuerySplit DEF persisted_vars

LEMMA GossipChangedSplit ==
    ASSUME Inv, Inv', SchemaInv, SplitInv, NEW q \in Queries, gossip_data_changed(q) PROVE SplitInv'
<1>1. UNCHANGED <<timestamp, persisted_vars, ddl_vars, prepared_writes, committed_writes, finish_vars>>
      /\ DOMAIN verifying_writes' = DOMAIN verifying_writes /\ es[q] \in Active
  BY DEF gossip_data_changed, Locked, Active
<1>2. DOMAIN es = Queries
  BY DEF Inv, TypeInv
<1>3. \A x \in Queries : x # q => es'[x] = es[x]
  BY <1>2 DEF gossip_data_changed, Locked
<1>4. this_sharding_gen = 1 => ~Old(q)
  BY <1>1, OldIdle
<1> QED BY <1>1, <1>3, <1>4, QuerySplit DEF persisted_vars, finish_vars

LEMMA GrantLockedColsSplit ==
    ASSUME Inv, Inv', SchemaInv, SplitInv, NEW id \in waiting_locked_cols, GrantLockedCols(id)
    PROVE  SplitInv'
<1> DEFINE q == id[1]
<1>1. UNCHANGED <<timestamp, persisted_vars, ddl_vars, prepared_writes, committed_writes, finish_vars>>
      /\ DOMAIN verifying_writes' = DOMAIN verifying_writes
  BY DEF GrantLockedCols, Locked
<1>2. es \in [Queries -> EsStates] /\ q \in Queries
  BY DEF Inv, TypeInv, ColsType
<1>3. \A x \in Queries : x # q => es'[x] = es[x]
  BY <1>2 DEF GrantLockedCols, Locked
<1>4. ~ESIsLocking(id) => es'[q] = es[q]
  BY <1>2 DEF GrantLockedCols, Locked, EsStates, Active
<1>5. ESIsLocking(id) => es[q] \in Active
  BY DEF ESIsLocking, Active
<1> HIDE DEF q
<1>6. this_sharding_gen = 1 /\ Old(q) => es'[q] = es[q] /\ q \notin DOMAIN verifying_writes
  BY <1>2, <1>4, <1>5, OldIdle
<1> QED BY <1>1, <1>2, <1>3, <1>6, QuerySplit DEF persisted_vars, finish_vars

LEMMA HandleRlcSplit ==
    ASSUME Inv, Inv', SchemaInv, SplitInv, handle_rlc PROVE SplitInv'
<1>1. UNCHANGED <<timestamp, persisted_vars, write_vars, es_vars, finish_vars>>
      /\ snapshots' = snapshots \cup {Snapshot} /\ sharding_state = "ShardingSnapshotSent"
  BY DEF handle_rlc
<1>2. OldKept
  BY <1>1 DEF OldKept, write_vars, es_vars, finish_vars
<1>3. this_sharding_gen = 1 /\ \A q \in Writers : Old(q) => finish_query[q] \in Over
  BY <1>1 DEF SplitInv, ShardingInv, Over
<1>4. \A q \in DOMAIN prepared_writes : ~Old(q)
  BY <1>3 DEF Inv, FinishInv, WritesType, MapType, Over, PreparedStates
<1> QED BY <1>1, <1>2, <1>3, <1>4, SplitSent DEF persisted_vars, finish_vars

LEMMA InsertionSplit ==
    ASSUME Inv, Inv', SchemaInv, SplitInv, TabletBundleInsertion PROVE SplitInv'
<1> DEFINE send == /\ sharding_state = "WaitingPreparedWrites"
                   /\ ReadyToSend(finish_query, read_memory)
<1>1. UNCHANGED <<timestamp, persisted_vars, write_vars, es_vars>>
  BY DEF TabletBundleInsertion
<1>2. /\ sharding_state' = IF send THEN "ShardingSnapshotSent" ELSE sharding_state
      /\ snapshots' = IF send THEN snapshots \cup {Snapshot} ELSE snapshots
  BY DEF TabletBundleInsertion
<1>3. \A q \in Writers : finish_query[q] \in Over => finish_query'[q] = finish_query[q]
  BY DEF TabletBundleInsertion, Over
<1>4. OldKept
  BY <1>1, <1>3 DEF OldKept, write_vars, es_vars
<1>5. CASE send
  <2>1. this_sharding_gen = 1
    BY <1>5 DEF SplitInv, ShardingInv
  <2>2. \A q \in Writers : Old(q) => finish_query[q] \in Over
    BY <1>5, <2>1 DEF ReadyToSend, Old, Over
  <2>3. \A q \in DOMAIN prepared_writes : ~Old(q)
    BY <2>2 DEF Inv, FinishInv, WritesType, MapType, Over, PreparedStates
  <2> QED BY <1>1, <1>2, <1>3, <1>4, <1>5, <2>1, <2>2, <2>3, SplitSent DEF persisted_vars
<1>6. CASE ~send
  BY <1>1, <1>2, <1>4, <1>6, SplitKept DEF persisted_vars
<1> QED BY <1>5, <1>6

LEMMA LeaderChangedSplit ==
    ASSUME Inv, Inv', SchemaInv, SplitInv, LeaderChanged PROVE SplitInv'
<1> DEFINE send == sharding_state # "None" /\ ReadyToSend(finish_query', {})
<1>1. /\ UNCHANGED <<timestamp, persisted_vars, prepared_writes, committed_writes>>
      /\ verifying_writes' = << >>
  BY DEF LeaderChanged
<1>2. /\ sharding_state' = IF send THEN "ShardingSnapshotSent"
                           ELSE IF sharding_state = "None" THEN "None" ELSE "WaitingPreparedWrites"
      /\ snapshots' = IF send THEN snapshots \cup {Snapshot} ELSE snapshots
  BY DEF LeaderChanged
<1>3. \A q \in Writers : /\ finish_query[q] \in Over => finish_query'[q] = finish_query[q]
                         /\ finish_query[q] \in PreparedStates => finish_query'[q] = "Prepared"
  BY DEF LeaderChanged, Over, PreparedStates
<1>4. \A q \in Queries : es'[q] = es[q] \/ es'[q] = "Error"
  BY DEF LeaderChanged
<1>5. OldKept
  <2>1. DOMAIN verifying_writes' = {}
    BY <1>1
  <2> QED BY <1>1, <1>3, <1>4, <2>1 DEF OldKept, Active
<1>6. CASE send
  <2>1. this_sharding_gen = 1
    BY <1>6 DEF SplitInv, ShardingInv
  <2>2. \A q \in Writers : Old(q) => finish_query'[q] \in Over
    BY <1>6, <2>1 DEF ReadyToSend, Old, Over
  <2>3. \A q \in DOMAIN prepared_writes : ~Old(q)
    BY <1>3, <2>2 DEF Inv, FinishInv, WritesType, MapType, Over
  <2> QED BY <1>1, <1>2, <1>5, <1>6, <2>1, <2>2, <2>3, SplitSent DEF persisted_vars
<1>7. CASE ~send
  <2>1. sharding_state # "None" => this_sharding_gen = 1
    BY DEF SplitInv, ShardingInv
  <2> QED BY <1>1, <1>2, <1>5, <1>7, <2>1, SplitKept DEF persisted_vars
<1> QED BY <1>6, <1>7

LEMMA TabletBundleSplit ==
    ASSUME Inv, Inv', SchemaInv, SplitInv, NEW late \in BOOLEAN, TabletBundle(late) PROVE SplitInv'
<1> DEFINE split == Of("DDLCommitted") # {} /\ ddl_es.kind = "Split"
<1>1. /\ UNCHANGED <<timestamp, snapshots>>
      /\ this_sharding_gen' = IF split THEN 1 ELSE this_sharding_gen
      /\ verifying_writes' = IF split THEN << >> ELSE verifying_writes
      /\ sharding_state' = IF split THEN "WaitingPreparedWrites"
                           ELSE IF Of("ShardingConfirmed") # {} THEN "None" ELSE sharding_state
  BY DEF TabletBundle
<1>2. /\ \A q \in Queries : \/ es'[q] = es[q] \/ es'[q] = "Error"
                            \/ es[q] = "WaitingGlobalLockedCols" /\ es'[q] = "Success"
      /\ split => \A q \in Queries : es'[q] = "Success" \/ es'[q] = "Error" \/ es[q] \notin Active
  BY DEF TabletBundle
<1>3. /\ DOMAIN prepared_writes' \subseteq DOMAIN prepared_writes \cup Of("Prepared")
      /\ DOMAIN committed_writes' = DOMAIN committed_writes \cup Of("Committed")
      /\ \A q \in DOMAIN committed_writes : q \notin Of("Committed") =>
            committed_writes'[q] = committed_writes[q]
      /\ \A q \in Writers : q \in Of("Prepared") \/ finish_query'[q] \in Over
                            \/ finish_query'[q] = finish_query[q]
  BY DEF TabletBundle, Over
<1>4. /\ \A q \in Of("Prepared") : q \in Writers /\ q \in DOMAIN inserting_prepared_writes
            /\ finish_query[q] \in {"InsertingPrepared", "InsertingPreparedAborted"}
      /\ \A q \in Of("Committed") : q \in Writers /\ q \in DOMAIN prepared_writes
            /\ finish_query[q] = "InsertingCommitted"
  BY OfBundle
<1> HIDE DEF split
<1>5. CASE snapshots = {} /\ sharding_state' \notin {"ShardingSnapshotSent", "InsertingShardingConfirmed"}
  <2>1. sharding_state' # "None" => this_sharding_gen' = 1
    BY <1>1 DEF SplitInv, ShardingInv
  <2>2. ASSUME this_sharding_gen' = 1, NEW q \in Queries, Old(q)
        PROVE  es'[q] \notin Active /\ q \notin DOMAIN verifying_writes'
    <3>1. CASE split
      BY <1>1, <1>2, <3>1 DEF Active
    <3>2. CASE ~split
      <4>1. this_sharding_gen = 1 /\ verifying_writes' = verifying_writes
        BY <1>1, <2>2, <3>2
      <4>2. es[q] \notin Active /\ q \notin DOMAIN verifying_writes
        BY <2>2, <4>1, OldIdle
      <4> QED BY <1>2, <4>1, <4>2 DEF Active
    <3> QED BY <3>1, <3>2
  <2>3. ShardingInv'
    BY <1>1, <1>5, <2>1, <2>2 DEF ShardingInv, Old
  <2>4. SnapshotComplete'
    BY <1>1, <1>5, SnapshotsOK
  <2> QED BY <2>3, <2>4 DEF SplitInv
<1>6. CASE snapshots # {} \/ sharding_state' \in {"ShardingSnapshotSent", "InsertingShardingConfirmed"}
  <2>1. snapshots # {} \/ sharding_state \in {"ShardingSnapshotSent", "InsertingShardingConfirmed"}
    BY <1>1, <1>6
  <2>2. this_sharding_gen = 1 /\ \A q \in Writers : Old(q) => finish_query[q] \in Over
    BY <2>1 DEF SplitInv, ShardingInv, Over
  <2>3. \A q \in Of("Prepared") \cup Of("Committed") : ~Old(q)
    BY <1>4, <2>2 DEF Over
  <2>4. ASSUME NEW q \in Queries, Old(q), es'[q] \in Active \cup {"Success"} PROVE es'[q] = es[q]
    BY <1>2, <2>2, <2>4, OldIdle DEF Active
  <2>5. DOMAIN verifying_writes' \subseteq DOMAIN verifying_writes
    BY <1>1
  <2>6. \A q \in Writers : Old(q) => finish_query'[q] \in Over
    BY <1>3, <2>2, <2>3
  <2>7. OldKept
    BY <1>3, <2>3, <2>4, <2>5, <2>6 DEF OldKept
  <2>8. this_sharding_gen' = 1
    BY <1>1, <2>2
  <2> QED BY <1>1, <2>2, <2>7, <2>8, SplitKept
<1> QED BY <1>5, <1>6

----------------------------------------------------------------------------
(* The theorems.                                                           *)

LEMMA InitInv == Init => Inv
<1> SUFFICES ASSUME Init PROVE Inv
  OBVIOUS
<1> USE DEF Init
<1>e. DOMAIN << >> = {}
  OBVIOUS
<1>0. PICK s \in Scenarios :
        /\ timestamp \in [Queries -> {0} \cup UNION {Timestamps[q] : q \in Queries}]
        /\ es = [q \in Queries |-> IF q \in s.queries THEN "Start" ELSE "Cancelled"]
        /\ ddl_left = s.ddls
  OBVIOUS
<1>1. TypeInv
  <2>1. timestamp \in [Queries -> Nat]
    <3>1. {0} \cup UNION {Timestamps[q] : q \in Queries} \subseteq Nat
      BY QueriesAssumption
    <3> QED BY <1>0, <3>1
  <2>2. es \in [Queries -> EsStates] /\ \A q \in Queries : es[q] \in {"Start", "Cancelled"}
    BY <1>0 DEF EsStates
  <2>3. stage \in [Queries -> Nat] /\ \A q \in Queries : stage[q] <= Len(Plan[q].stages)
    BY PlanAssumption DEF PlanOK
  <2>4. ddl_left \subseteq {"Alter", "Drop", "Split"}
    BY <1>0, ScenariosAssumption
  <2> QED BY <2>1, <2>2, <2>3, <2>4 DEF TypeInv, Stages, Queries
<1>2. WritesType /\ ReadsType /\ ColsType
  BY <1>e DEF WritesType, VerifyingType, MapType, ReadsType, ColsType
<1>3. ControlInv /\ FinishInv
  BY <1>e, <1>0 DEF ControlInv, FinishInv, Active, InsertingStates, PreparedStates, Queries
<1>4. ReadInv /\ BundleInv /\ RequestsInv
  BY <1>0 DEF ReadInv, BundleInv, RequestsInv, Queries
<1>5. Isolation /\ Validity
  <2>1. \A q \in Queries : \A i : ~Protects(q, i)
    BY <1>e, <1>0 DEF Protects
  <2> QED BY <2>1 DEF Isolation, Validity
<1>6. TimestampsInv
  BY <1>e DEF TimestampsInv, CurWrites
<1> QED BY <1>1, <1>2, <1>3, <1>4, <1>5, <1>6 DEF Inv

LEMMA NextInv == Inv /\ [Next]_vars => Inv'
<1> SUFFICES ASSUME Inv, [Next]_vars PROVE Inv'
  OBVIOUS
<1>1. CASE UNCHANGED vars
  <2>1. UNCHANGED core_vars /\ UNCHANGED <<ddl_left, tablet_bundle, inserting_bundle>>
    BY <1>1 DEF vars, core_vars, persisted_vars, es_vars, finish_vars, ddl_vars, bundle_vars
  <2> QED BY <2>1, Unmoved DEF Inv, TypeInv
<1>2. ASSUME NEW q \in GossipWaiters, gossip_data_changed(q) PROVE Inv'
  BY <1>2, GossipChangedStep DEF GossipWaiters
<1>3. CASE MainLoop
  BY <1>3, GrantLockedColsStep, GrantLocalReadProtectedStep, GrantMLocalReadProtectedStep,
     DeadlockSafetyStep DEF MainLoop
<1>4. CASE TabletBundleInsertion
  BY <1>4, InsertionStep
<1>5. CASE Handlers
  <2>1. ASSUME NEW q \in Queries, PerformQuery(q) \/ SubqueryDone(q) \/ CancelQuery(q) PROVE Inv'
    BY <2>1, PerformQueryStep, SubqueryDoneStep, CancelQueryStep
  <2>2. ASSUME NEW q \in Writers,
               HandleCommit(q) \/ HandleAbort(q) \/ \E id \in 1..2 : Prepare(q, id)
        PROVE  Inv'
    BY <2>2, HandleCommitStep, HandleAbortStep, PrepareStep
  <2>3. CASE GossipData
    BY <2>3, GossipDataStep
  <2>4. ASSUME NEW kind \in ddl_left, DDLPrepare(kind) PROVE Inv'
    BY <2>4, DDLPrepareStep
  <2>5. ASSUME NEW t \in {ddl_es.ts, ddl_es.ts + 1}, DDLCommit(t) PROVE Inv'
    BY <2>5, DDLCommitStep
  <2>6. CASE DDLAbort
    BY <2>6, DDLAbortStep
  <2>7. ASSUME NEW late \in BOOLEAN, TabletBundle(late) PROVE Inv'
    BY <2>7, TabletBundleStep
  <2>8. CASE ShardingConfirmed \/ handle_rlc
    BY <2>8, ShardingStep
  <2>9. CASE LeaderChanged
    BY <2>9, LeaderChangedStep
  <2> QED BY <1>5, <2>1, <2>2, <2>3, <2>4, <2>5, <2>6, <2>7, <2>8, <2>9 DEF Handlers
<1> QED BY <1>1, <1>2, <1>3, <1>4, <1>5 DEF Next

\* Inv holds in every reachable state of a Tablet.
THEOREM Invariance == Spec => []Inv
BY InitInv, NextInv, PTL DEF Spec

\* What a read saw when it was granted is what it would see now, whichever
\* queries, plans and timestamps: Region Isolation (run_main_loop_iteration,
\* check_write_region_isolation), across FinishQuery, splits and leader changes.
THEOREM ReadsStayValidTheorem == Spec => []ReadsStayValid
<1>1. Inv => ReadsStayValid
  <2> SUFFICES ASSUME Inv, NEW p \in Protected PROVE observed[p[1]][p[2]] = Visible(p[1], p[2])
    BY DEF ReadsStayValid
  <2> DEFINE A == {<<r, 1>> : r \in {x \in Reads : es[x] \in {"Executing", "WaitingGlobalLockedCols", "Success"}}}
             B == UNION {{<<q, i>> : i \in verifying_writes[q].reads} : q \in DOMAIN verifying_writes}
             C == UNION {{<<q, i>> : i \in inserting_prepared_writes[q].reads} :
                            q \in DOMAIN inserting_prepared_writes}
             D == UNION {{<<q, i>> : i \in prepared_writes[q].reads} : q \in DOMAIN prepared_writes}
             E == UNION {{<<q, i>> : i \in committed_writes[q].reads} : q \in DOMAIN committed_writes}
  <2>0. Protected = A \cup B \cup C \cup D \cup E
    BY Zenon DEF Protected
  <2>1. PICK q, i : p = <<q, i>> /\ Protects(q, i)
    <3>1. CASE p \in A
      BY <3>1 DEF Protects
    <3>2. CASE p \in B
      BY <3>2 DEF Protects
    <3>3. CASE p \in C
      BY <3>3 DEF Protects
    <3>4. CASE p \in D
      BY <3>4 DEF Protects
    <3>5. CASE p \in E
      BY <3>5 DEF Protects
    <3> HIDE DEF A, B, C, D, E
    <3> QED BY <2>0, <3>1, <3>2, <3>3, <3>4, <3>5
  <2>2. q \in Queries /\ i \in Stages(q)
    <3>1. CASE q \in Reads /\ i = 1 /\ es[q] \in {"Executing", "WaitingGlobalLockedCols", "Success"}
      BY <3>1, StagesOf DEF Inv, ControlInv, Active, Queries
    <3>2. CASE ~(q \in Reads /\ i = 1 /\ es[q] \in {"Executing", "WaitingGlobalLockedCols", "Success"})
      BY <2>1, <3>2 DEF Protects, Inv, WritesType, VerifyingType, MapType, EntryType, Queries
    <3> QED BY <3>1, <3>2
  <2> QED BY <2>1, <2>2 DEF Inv, Validity
<1> QED BY <1>1, Invariance, PTL

LEMMA InitSchema == Init => SchemaInv /\ SplitInv
<1> SUFFICES ASSUME Init PROVE SchemaInv /\ SplitInv
  OBVIOUS
<1> DEFINE m == mvm_init(InitCols, "Type")
           e == [lat |-> 0, versions |-> <<Version(0, "Type")>>]
<1>1. MvmOK(m)
  <2>1. m.min_lat = 0 /\ m.map = [k \in InitCols |-> e]
    BY DEF mvm_init, MVM
  <2>2. e.lat = 0 /\ e.versions = <<Version(0, "Type")>>
    OBVIOUS
  <2>3. Version(0, "Type") \in [ts : Nat, val : {"Type", NULL}]
    BY DEF Version
  <2>4. e.versions \in Seq([ts : Nat, val : {"Type", NULL}])
    BY <2>2, <2>3
  <2> HIDE DEF m, e
  <2>5. DOMAIN m.map = InitCols /\ \A k \in InitCols : m.map[k] = e
    BY <2>1
  <2>6. \A k \in DOMAIN m.map :
           /\ m.map[k].lat = 0
           /\ m.map[k].versions \in Seq([ts : Nat, val : {"Type", NULL}])
    BY <2>2, <2>4, <2>5
  <2>7. IsFiniteSet(DOMAIN m.map)
    BY <2>5, QueriesAssumption
  <2>8. m.min_lat \in Nat /\ \A k \in DOMAIN m.map : m.map[k].lat \in Nat /\ m.map[k].lat >= m.min_lat
    BY <2>1, <2>6
  <2> QED BY <2>6, <2>7, <2>8 DEF MvmOK
<1> HIDE DEF m, e
<1>2. /\ table_schema = m /\ presence_timestamp = 0 /\ this_sharding_gen = 0 /\ ddl_es = NoDDL
      /\ prepared_writes = << >> /\ committed_writes = << >>
      /\ verifying_writes = << >> /\ inserting_prepared_writes = << >>
      /\ sharding_state = "None" /\ snapshots = {}
      /\ tablet_bundle = {} /\ inserting_bundle = {} /\ bundle_applied = FALSE
      /\ \A q \in Queries : es[q] \in {"Start", "Cancelled"}
  BY DEF Init, m
<1>3. DOMAIN << >> = {}
  OBVIOUS
<1>4. SchemaType
  BY <1>1, <1>2 DEF SchemaType, NoDDL, DDLStates
<1>5. \A q \in Queries : ~ColsLocked(q)
  BY <1>2, <1>3 DEF ColsLocked
<1>6. \A r \in Reads : r \in Queries /\ es[r] # "Success"
  BY <1>2 DEF Queries
<1>7. LocksInv /\ AlignInv
  BY <1>2, <1>3, <1>5, <1>6 DEF LocksInv, AlignInv
<1>8. DDLTimestampInv /\ DDLBundleInv
  BY <1>2 DEF DDLTimestampInv, DDLBundleInv, NoDDL
<1>9. SplitInv
  BY <1>2 DEF SplitInv, ShardingInv, SnapshotComplete
<1> QED BY <1>4, <1>7, <1>8, <1>9 DEF SchemaInv

LEMMA NextSchema == Inv /\ SchemaInv /\ SplitInv /\ [Next]_vars => SchemaInv' /\ SplitInv'
<1> SUFFICES ASSUME Inv, Inv', SchemaInv, SplitInv, [Next]_vars PROVE SchemaInv' /\ SplitInv'
  BY NextInv
<1>1. CASE UNCHANGED vars
  <2> USE DEF vars, persisted_vars, write_vars, col_vars, es_vars, finish_vars, ddl_vars, bundle_vars
  <2>1. \A q : ColsLocked(q)' <=> ColsLocked(q)
    BY <1>1 DEF ColsLocked
  <2>2. SchemaInv'
    BY <1>1, <2>1, SchemaKept
  <2>3. OldKept
    BY <1>1 DEF OldKept
  <2>4. SplitInv'
    BY <1>1, <2>3, SplitKept
  <2> QED BY <2>2, <2>4
<1>2. ASSUME NEW q \in GossipWaiters, gossip_data_changed(q) PROVE SchemaInv' /\ SplitInv'
  BY <1>2, GossipChangedSchema, GossipChangedSplit DEF GossipWaiters
<1>3. CASE MainLoop
  <2>1. SchemaInv'
    BY <1>3, GrantLockedColsSchema, GrantLocalReadProtectedSchema, GrantMLocalReadProtectedSchema,
       DeadlockSafetySchema DEF MainLoop
  <2>2. SplitInv'
    BY <1>3, GrantLockedColsSplit, GrantLocalReadProtectedSplit, GrantMLocalReadProtectedSplit,
       DeadlockSafetySplit DEF MainLoop
  <2> QED BY <2>1, <2>2
<1>4. CASE TabletBundleInsertion
  BY <1>4, InsertionSchema, InsertionSplit
<1>5. CASE Handlers
  <2>1. ASSUME NEW q \in Queries, PerformQuery(q) \/ SubqueryDone(q) \/ CancelQuery(q)
        PROVE  SchemaInv' /\ SplitInv'
    BY <2>1, PerformQuerySchema, SubqueryDoneSchema, CancelQuerySchema,
       PerformQuerySplit, SubqueryDoneSplit, CancelQuerySplit
  <2>2. ASSUME NEW q \in Writers,
               HandleCommit(q) \/ HandleAbort(q) \/ \E id \in 1..2 : Prepare(q, id)
        PROVE  SchemaInv' /\ SplitInv'
    BY <2>2, HandleCommitSchema, HandleAbortSchema, PrepareSchema,
       HandleCommitSplit, HandleAbortSplit, PrepareSplit
  <2>3. CASE GossipData \/ ShardingConfirmed
    BY <2>3, QuietSchema, OtherSplit
  <2>4. ASSUME NEW kind \in ddl_left, DDLPrepare(kind) PROVE SchemaInv' /\ SplitInv'
    BY <2>4, DDLPrepareSchema, OtherSplit
  <2>5. ASSUME NEW t \in {ddl_es.ts, ddl_es.ts + 1}, DDLCommit(t) PROVE SchemaInv' /\ SplitInv'
    BY <2>5, DDLCommitSchema, OtherSplit
  <2>6. CASE DDLAbort
    BY <2>6, DDLAbortSchema, OtherSplit
  <2>7. ASSUME NEW late \in BOOLEAN, TabletBundle(late) PROVE SchemaInv' /\ SplitInv'
    BY <2>7, TabletBundleSchema, TabletBundleSplit
  <2>8. CASE handle_rlc
    BY <2>8, QuietSchema, HandleRlcSplit
  <2>9. CASE LeaderChanged
    BY <2>9, LeaderChangedSchema, LeaderChangedSplit
  <2> QED BY <1>5, <2>1, <2>2, <2>3, <2>4, <2>5, <2>6, <2>7, <2>8, <2>9 DEF Handlers
<1> QED BY <1>1, <1>2, <1>3, <1>4, <1>5 DEF Next

\* Column Locking and the split keep their invariants in every reachable state.
THEOREM SchemaInvariance == Spec => [](SchemaInv /\ SplitInv)
BY InitInv, InitSchema, NextInv, NextSchema, PTL DEF Spec

\* The schema that a settled query was planned with is the schema at its
\* timestamp for ever, and no DROP TABLE commits at or below it, whatever ALTER
\* TABLE, DROP TABLE and leader changes do (Column Locking in tablet.rs).
THEOREM SchemaStaysTheorem == Spec => []SchemaStays
<1>1. Inv /\ SchemaInv => SchemaStays
  <2> SUFFICES ASSUME Inv, SchemaInv, NEW q \in Settled
               PROVE  /\ does_query_plan_align(q)
                      /\ ddl_es.kind = "Dropped" => timestamp[q] < ddl_es.ts
    BY DEF SchemaStays
  <2>1. q \in Queries /\ ColsLocked(q) /\ GloballyLocked(q)
    BY DEF Settled, ColsLocked, SchemaInv, LocksInv, Inv, WritesType, MapType, Queries
  <2>2. timestamp[q] \in Nat /\ presence_timestamp \in Nat /\ ddl_es.ts \in Nat
        /\ timestamp[q] <= presence_timestamp
    BY <2>1 DEF GloballyLocked, Inv, TypeInv, SchemaInv, SchemaType
  <2>3. does_query_plan_align(q)
    BY <2>1 DEF SchemaInv, AlignInv
  <2>4. ddl_es.kind = "Dropped" => timestamp[q] < ddl_es.ts
    BY <2>2 DEF SchemaInv, DDLTimestampInv
  <2> QED BY <2>3, <2>4
<1> QED BY <1>1, Invariance, SchemaInvariance, PTL

\* A snapshot that was sent for the new Tablet stays complete: nothing about its
\* rows commits or is promised afterwards, across leader changes, confirmations
\* and snapshots that are sent again (ShardingSnapshotES).
THEOREM SnapshotCompleteTheorem == Spec => []SnapshotComplete
<1>1. SplitInv => SnapshotComplete
  BY DEF SplitInv
<1> QED BY <1>1, SchemaInvariance, PTL

\* The asserts and unwraps of the Tablet hold: ALTER TABLE can be written, the
\* writes differ in their timestamps, every PLm of a bundle finds its request and
\* a query that Prepares waits for nothing (run_main_loop_iteration, MVM::write,
\* FinishQueryRMInner::new).
THEOREM AssertsTheorem == Spec => []Asserts
<1>1. Inv /\ SchemaInv => Asserts
  <2> SUFFICES ASSUME Inv, SchemaInv PROVE Asserts
    OBVIOUS
  <2>1. TypeOK
    <3>1. \A q \in Queries : stage[q] \in 0..Len(Plan[q].stages)
      <4> TAKE q \in Queries
      <4>1. PICK n \in Nat : n = Len(Plan[q].stages)
        BY PlanAssumption DEF PlanOK
      <4>2. stage[q] \in Nat /\ stage[q] <= n
        BY <4>1 DEF Inv, TypeInv
      <4> QED BY <4>1, <4>2
    <3>2. \A r \in Reads : es[r] \in Active \cup {"Start", "Error", "Cancelled", "Success"}
      BY DEF Inv, TypeInv, EsStates, Queries
    <3>3. \A q \in Writers :
             es[q] \in (Active \ {"WaitingGlobalLockedCols"})
                        \cup {"Start", "Error", "Cancelled", "StageDone", "Finishing"}
      BY DEF Inv, TypeInv, EsStates, Queries
    <3>4. CurWrites \cup DOMAIN committed_writes \subseteq Writers
      BY DEF CurWrites, Inv, WritesType, VerifyingType, MapType
    <3>5. waiting_read_protected \cup inserting_read_protected \cup read_protected \subseteq Reads
      BY DEF Inv, ReadsType
    <3>6. ddl_left \subseteq {"Alter", "Drop", "Split"}
      BY DEF Inv, TypeInv
    <3> QED BY <3>1, <3>2, <3>3, <3>4, <3>5, <3>6 DEF TypeOK
  <2>2. AlterIsWritable
    <3> SUFFICES ASSUME NEW p \in tablet_bundle \cup inserting_bundle,
                        p.type = "DDLCommitted", ddl_es.kind = "Alter"
                 PROVE  /\ CanWrite(table_schema, AlterCol, p.of)
                        /\ \A id \in inserting_locked_cols :
                              LocksCol(id[1], AlterCol) => timestamp[id[1]] < p.of
      BY DEF AlterIsWritable
    <3>1. p.of \in Nat /\ p.of >= ddl_es.ts /\ ddl_es.ts \in Nat
      BY DEF SchemaInv, DDLBundleInv, SchemaType
    <3>2. get_lat(table_schema, AlterCol) \in Nat
      BY LatType DEF SchemaInv, SchemaType
    <3>3. get_lat(table_schema, AlterCol) < ddl_es.ts
          /\ \A id \in inserting_locked_cols :
                LocksCol(id[1], AlterCol) => timestamp[id[1]] < ddl_es.ts
      BY DEF SchemaInv, DDLTimestampInv
    <3>4. \A id \in inserting_locked_cols : timestamp[id[1]] \in Nat
      BY DEF Inv, ColsType, TypeInv
    <3> QED BY <3>1, <3>2, <3>3, <3>4 DEF CanWrite
  <2>3. \A x, y \in CurWrites \cup DOMAIN committed_writes : x # y => timestamp[x] # timestamp[y]
    BY DEF Inv, TimestampsInv
  <2>4. \A p \in inserting_bundle \cup tablet_bundle :
           /\ p.type = "LockedCols" => p.of \in inserting_locked_cols
           /\ p.type = "ReadProtected" => p.of \in inserting_read_protected
           /\ p.type = "Prepared" => p.of \in DOMAIN inserting_prepared_writes
           /\ p.type \in {"Committed", "Aborted"} => p.of \in DOMAIN prepared_writes
    BY DEF Inv, BundleInv, FinishInv, InsertingStates, PreparedStates
  <2>5. \A q \in DOMAIN verifying_writes :
           es[q] \in {"StageDone", "Finishing"} => verifying_writes[q].waiting = {}
    BY DEF Inv, ControlInv
  <2> QED BY <2>1, <2>2, <2>3, <2>4, <2>5 DEF Asserts
<1> QED BY <1>1, Invariance, SchemaInvariance, PTL
=============================================================================
