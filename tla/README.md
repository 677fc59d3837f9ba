# A TLA+ model of rUniversalDB

rUniversalDB is a distributed SQL database in Rust. Its nodes form *PaxosGroups*
(one Master group, many Slave groups). A group replicates a log with Multi-Paxos;
the node that the log names as leader acts for the group, the others replay what it
persisted. Groups talk to each other leader to leader, and transactions that span
groups are committed with 2PC protocols that survive leader changes. On top of that a
Coord runs SQL queries over Tablets, which isolate them by regions and timestamps. This
directory models that machinery in TLA+, checks it with TLC and proves parts with TLAPS.
Paths below are relative to the repository (`src/paxos.rs` is its `src/src/paxos.rs`
seen from the directory that holds both).

## 1. Inventory

| Component | State | Operations | Interacts with | What is hard |
|---|---|---|---|---|
| Paxos instance (`paxos.rs`) | `ProposerState`, `AcceptorState`, `LearnerState`, `learned_rnd_val` | propose, Prepare, Promise, Accept, Learn, InformLearned, LogSync | other nodes of the group | random, colliding rounds; Learn without a value; learning by three other ways |
| PaxosDriver log (`paxos.rs`) | `next_index`, `paxos_instances`, `buffered_messages`, `remote_next_indices`, `leader`, `next_insert`, `paxos_nodes` | deliver_learned_entries, insert_bundle, retry, heartbeat, NextIndex purge, reconfiguration | Slave and Master | messages ahead of or behind the log, purging, membership change |
| NetworkDriver, bundle insertion (`network_driver.rs`, `slave.rs`, `server.rs`) | `leader_map`, `network_buffer`, `remote_leader_changes`, bundles | receive, deliver_blocked_messages, maybe_start_insert, process_bundle, leader changes, gossip | PaxosDriver below, execution strategies above, remote leaders | old and new remote leaders talking at once; nothing may be acted on before it is persisted |
| Paxos2PC (`paxos2pc_tm.rs`, `paxos2pc_rm.rs`, FinishQuery) | ES of the TM (not persisted), ES of each RM | Prepare, Prepared, Commit, Abort, CheckPrepared, InformPrepared, Wait; PLms; leader changes | Coord (TM), Tablets (RMs) | a TM that persists nothing; messages and PLms crossing leader changes on both sides |
| STMPaxos2PC (`stmpaxos2pc_*.rs`) and its instances (create/alter/drop table, shard split) | persisted ES of TM and RMs | Prepare, Commit, Abort, Closed; PLms | Master (TM), Slaves and Tablets | retries of a persisted decision |
| Tablet (`tablet.rs`, `table_read_es.rs`, `ms_table_*.rs`, `shard_snapshot_es.rs`) | column locks, region locks in five collections, MSQueryESs, DDL ES, storage, bundle | PerformQuery, main loop, FinishQuery and DDL RMs, split, leader changes | Slave, Coord, Master | what is in memory and what is persisted; deadlock avoidance; rows that are handed over while queries run |
| Storage (`multiversion_map.rs`, `storage.rs`) | versions per cell | read, write, LAT, range scan, merge of views | Tablet | commits out of the order of timestamps; presence of rows; stages of one timestamp |
| Coord, query ESs (`coord.rs`, `ms_query_coord_es.rs`, `tm_status.rs`, `gr_query_es.rs`, ...) | MSCoordES, TMStatuss, ESs, registered MSQueryESs | planning, stages, subqueries, cancel, abort, retry | Tablets, Master | retries; clean-up of children at groups whose leaders change |
| JOINs (`query_converter.rs`, `join_read_es.rs`, `join_util.rs`) | JoinTree with evaluation state per node | push-down of conjunctions, evaluation of leaves, subqueries and nodes | Coord, Tablets | outer joins; sides that depend on each other; answers in any order |
| Regions and expressions (`expression.rs`, `common.rs`) | none | key regions of WHERE, intersection, isolation | Tablet, Storage | a bound that is too tight loses rows and locks too little |
| Master (`master.rs`, `free_node_manager.rs`, `slave_reconfig_es.rs`, `slave_group_create_es.rs`) | free nodes, reconfigurations, gossip | heartbeats, grants, reconfiguration, group creation | free nodes, Slaves | stale knowledge of who is alive |
| Node (`node.rs`, `net.rs`) | life cycle, buffered messages | start, snapshot, filter | all | messages before the node knows its peers |
| SQL front end, query planning (`sql_parser.rs`, `query_planning.rs`, ...) | none | tree transformations | Coord, Master | - |

What makes each correct, in short: one value per index and the same log everywhere
(Paxos); messages between leaders in order, from the current remote leader only, and
only after the own log names it (NetworkDriver); all RMs of a transaction end alike,
and none stays prepared for ever (Paxos2PC, STMPaxos2PC); a node is never in two groups
(Master); what a query has read stays valid, and its schema (Tablet); a request commits all
of its writes once or none, and leaves nothing behind (Coord); a query returns what it
says (Storage, expressions, JOINs). `PROJECT.json` lists the hazards at
the line where they bite, with the properties that cover them.

## 2. Modules

### PaxosInstance, Consensus, PaxosInstanceProofs

`PaxosInstance` is one `PLIndex` of `paxos.rs` under a fixed configuration. Variables
carry the names of the struct fields; each arm of `handle_paxos_message_internal` is an
action (`HandlePrepare`, `HandlePromise`, `HandleAccept`, `HandleLearn`,
`HandleInformLearned`, `HandleLogSyncResponse`), and `propose_next_index` is the
proposer. Messages are kept in a set and may be handled in any order or never, which
covers loss, delay and the Prepares that a node ignores while it believes in its leader.
Only a Promise changes something when handled twice, so `delivered` keeps those apart.

`Consensus` is what an index promises: one entry is chosen, once, and nodes learn only
that entry. `ImplementsConsensus` states the refinement, with `chosen` the values that a
majority accepted in some round.

### NetworkDriver, NetworkDelivery, NetworkDriverProofs, NetworkDeliveryProofs

`NetworkDriver` is the layer between the log and the execution strategies. A *node*
`<<g, k>>` is the node of group `g` that holds the Leadership of generation `k`.
Followers have no state but the log (`log_gen`, `log_leader_map`, `log_plms`), which is
what they have replayed. `Receive` is `NetworkDriver::receive`; `maybe_start_insert` and
`process_bundle` are the two ends of the insertion of a bundle, which the Paxos below
turns into one atomic append as long as no newer `LeaderChanged` is in the log;
`deliver_blocked_messages` then empties a buffer that the LeaderMap has caught up with;
`GainLeadership` and `LoseLeadership` are the two sides of a `LeaderChanged`, at
different times: an old leader goes on, unaware, until it processes it.
The module has no behaviour of its own; modules that extend it say what is sent and
what handling an input does.

`NetworkDelivery` is the simplest of these: leaders of one group send numbered messages
to those of another. It states what the layer above may rely on.

### TransactionCommit, Paxos2PC, Paxos2PCProofs

`Paxos2PC` puts the TM and the RMs of one FinishQuery transaction on `NetworkDriver`.
Every function of `paxos2pc_tm.rs` and `paxos2pc_rm.rs` has a definition of the same
name. A handler gets the leader `n` it runs on and the queues `q` without the message
it handles. The MSQueryES that Prepare takes over is the Boolean `ms_query`: it may be
gone beforehand (`MayAbort`), and it goes away with a new Leadership of the TM's group
or of its own. Persisted PLms are appended by `start_inserting`, `maybe_start_insert`
and handed back by `process_bundle`.

`TransactionCommit` is the promise, seen from the RMs' logs alone.

### STMPaxos2PC, STMPaxos2PCProofs

The same for the DDL queries. The TM is an ES of the Master that persists `Prepared`,
`Committed` or `Aborted`, and `Closed`; the RMs are the DDLESs of Tablets, which may only
refuse in the simulation (`MayAbort`). The client's cancellation
(`CancelExternalDDLQuery`) is an action of its own. Queries that have not left `Start`
and the table locks of the Master around the queries are left out.

A leader may panic while it handles a message: `handle_msg` of the TM unwraps an ES that may
be gone (`TMFails`), and `handle_commit` and `handle_abort` of the RM have a
`debug_assert!(false)` for states in which they expect no outcome (`RMFails`). `Cargo.toml`
compiles debug assertions into the release profile too, and `scripts/transact` runs the debug
build, so that both end the node (the action `Panic`). The Master runs in the main thread of
its process. A Tablet has a thread of its own (`create_tablet`); when that is gone, the Slave
panics at the next message or bundle that it forwards to the Tablet (`tablet_forward(..)`
unwraps the `send`). What the Slave does in between it could have done before, so `Panic` is
one step. The node then holds nothing; messages to it are lost, and so may be the last ones it
sent, which were not written to a connection yet. The other nodes of its group miss its
heartbeats and elect a leader, which goes on from the log (`TakeOver`). The properties
`UnwrapsFindES` and `ClosedFindsES` say where a leader may not panic.

`STMPaxos2PC` implements `TransactionCommit` too.

### FreeNodeManager, FreeNodeManagerProofs

The Master's book-keeping of nodes. The Master's log is one sequence `log` of
`LeaderChanged`s and bundles that every Master node replays from `next_index` on; what
the leader collects between two bundles (`pending_new_free_nodes`, the heartbeat counts,
`requested_reconfig_eids`, the states of the SlaveReconfigESs and SlaveGroupCreateESs)
is kept per Master node. `InsertBundle` is `FreeNodeManager::process` and the insertion
of what it yields, `HandleBundle` and `HandleLeaderChanged` the two arms of the
Master's `handle_input`. `given` of a PLm holds both `granted_reconfig_eids` and
`new_slave_groups`. On the other side, `process_input` is `node.rs` for a node that
starts in `DNEState`: what each state makes of a FreeNodeMessage, with a FIFO queue
from each Master node. `request_new_eids` and `handle_reconfigured_msg` stand for a group
that finds nodes dead and one that has taken new nodes in, at any time; nodes that are
replaced are outside of the model.

### Tablet, MultiVersionMap, TabletProofs

`Tablet` is one Tablet under the queries of a *scenario*: reads, multi-stage writes, ALTER,
DROP, a split, and a leader change. The variables are those of `TabletContext` and
`Statuses`, in two groups: what is persisted, and what only the leader has in memory.
`LeaderChanged` loses the latter, with the bundle that is not in the log. The main loop
(`MainLoop`: column locks, region locks, DeadlockSafetyWriteAbort) runs to its end before
the next handler (`Quiet`), as in `run_main_loop`. A region is a set of rows and columns.
What a read saw is the set of the committed writers it saw (`observed`), which is compared
with what it would see now. `MultiVersionMap` (`multiversion_map.rs`) holds the schema.
The other RMs, the TM of the commit and the Master are the environment, which answers as
Paxos2PC and STMPaxos2PC allow. `LocallyLockable`, `ReadGrantable`, `ReadyToSend` and the
like are the conditions of the code's branches, under the names of what they decide.

### QueryExecution

One request over a Coord and Tablets of different groups. An ES, with its GRQueryESs and
JoinReadESs, is a record that runs phases of TMStatuss; a QueryId is the path from the
MSCoordES down to it, so that parents and children are found by their ids. Handlers are
operators that map a record of the state (`Cur`) to its successor, since they call each
other: an aborted child aborts its parent, whose other children are cancelled, up to the
MSCoordES, which retries, or answers the client. Channels are FIFO and carry Leaderships;
what the NetworkDriver guarantees is built in. What Tablets compute and lock is a choice.

### Expression, KeyBounds, KeyRegion, Storage, StorageHistory, KeyBoundsProofs

Pure algorithms as operators, with the names of the Rust functions. `Expression` evaluates
CExprs (integers of a small width that wrap around, NULL, errors; `i32` wraps around in the release
profile, while the debug build, and `MIN / -1` in any, panics: not modelled, no row is returned then)
and turns a WHERE clause into a key region; `KeyBounds` has intervals, their intersection,
inversion (`invert_col_bounds`, which the program never calls) and isolation, and Tablet ranges; `Storage` the scan, the presence snapshot and
the tiers of a transaction's own writes. Two small state machines feed them: in `KeyRegion`
a WHERE clause grows, in `StorageHistory` transactions run stages, commit in any order, and
columns are dropped and added. The references know nothing of bounds or versions: the
rows for which the clause is true, and the sequential replay of the committed events.

### JoinRead

A SELECT over a JoinTree: the planner's push-down of conjunctions (`flatten_select` to
`optimize_all_levels`, with the dependencies it adds between the sides), then JoinReadES
node by node, with leaves and subqueries that answer in any order or fail. A JoinTree is
a function from paths (`<<"L", "R">>`) to nodes, a TableView a function from rows to
multiplicities. The reference evaluates the query as it was written: ON clauses at their
JOINs, padding with NULLs, then WHERE, then the SelectItems and aggregates. Comparisons
cannot fail here; evaluation errors inside conjunctions are left out. `perform_aggregation` is
used by the evaluation and by the reference: aggregates are not checked on their own.

## 3. Runs

| Run | Checks | Bounds and why they suffice |
|---|---|---|
| `paxos` | `TypeOK`, `OneValuePerRound`, `Agreement`, `LearnedIsChosen`, `ImplementsConsensus` | 3 nodes, two Prepares: of one round by any nodes, redraws included (every way two proposals can collide), or of different nodes in different rounds, with one node that counts Learns and all learning by InformLearned and LogSync (an old confirmed round against a newer vote) |
| `network` | `NoGap`, `PersistedBeforeDelivered`, `BufferUnblocks`, `EventuallyDelivered` | the sending group changes leaders twice, or both groups once; two messages per leader: a buffer is replaced, flushed and dropped |
| `commit` | `TypeOK`, `PLmExpected`, `FollowersAgree`, `ReplyIsOutcome`, `ImplementsTransactionCommit`, `PreparedIsResolved` | 2 RMs that may refuse, one leader change of any group |
| `ddl_commit` | `TypeOK`, `FollowersAgree`, `ClosedMeansResolved`, `ReplyIsOutcome`, `UnwrapsFindES`, `ImplementsTransactionCommit`, `PreparedIsClosed` | 2 RMs, one of which may refuse, one leader change of any group, and the replacement of a leader that panics, beyond that one change; a leader of generation 1, the last one here, panics only once the query is closed |
| `ddl_closed_twice` | `ClosedFindsES`, violated | as `ddl_commit`, no RM refuses |
| `free_nodes` | `UnwrapsFind`, `OneHome`, `PublishedIsRunning`, `ShutdownIsFinal` | 2 Master nodes, 2 nodes for a new group of two and for requests of the Master and a SlaveGroup, one leader change, 4 log entries: a node may be registered, declared dead or given away by different leaders |
| `algorithms` | `ShardedReadComplete`, `SnapshotIsReplayOtherwise`, `JoinIsReference`, `JoinWaitsForQueries` | WHERE clauses of up to three leaves over two key columns, split in two; histories of up to 4 stages and schema changes at 3 timestamps over 2 rows; JOINs of 2 and 3 tables in both shapes, all JOIN types, LATERAL, ON and WHERE with and without subqueries, aggregates, one or two outer rows |
| `storage_reinsert` | `SnapshotIsReplay`, violated | as `algorithms` |
| `join_plan` | `PlanComplete`, violated | the JOINs of `algorithms` |
| `tablet` | `ReadsStayValid`, `SchemaStays`, `Asserts`, `SnapshotComplete`, `NothingStuck` | 2 rows, of which a split moves one; three queries without DDL, or two with one DDL and a leader change; the writes at timestamps below, at and above the reads and each other |
| `tablet_lost_stage` | `CommitsWhole`, violated | a transaction of two stages and a read |
| `query` | `TypeOK`, `CommitsAllWrites`, `NoLateralError`, `NothingLeft`, `AnsweredOnce` | a Coord and 2 Tablets; two plans that have parallel stages, subqueries across Tablets and several writes; one error and one leader change anywhere, two attempts |

`free_nodes` uses the thresholds 2 and 1 instead of 6 and 3. Only the comparisons with the
two thresholds matter, and the order of the counts 0, backup and dead is the same; there are
just fewer timer steps between them. `SnapshotIsReplayOtherwise` is `SnapshotIsReplay` for
all histories but those that the violation is about, so that nothing else is hidden behind
it; `JoinIsReference` leaves out, by `Unevaluable`, the plans described below.

### What the violations show

They are disagreements between the code and what it, or the repository's README, says.

* `ddl_closed_twice`: the comment on the unwrap in `stmpaxos2pc_tm.rs` says that the ES
  of a `Closed` is still there, since it waits for every `Closed`. An RM that sees the
  change of the TM's leader in the same bundle as its own `Committed` sends `Closed` to the
  new leader, and a second one in answer to the `Commit` that was buffered. If that RM is
  the last, the TM is closed after the first one and the leader of the Master panics on
  the second. Nothing is lost: a new leader takes over, and `PreparedIsClosed` holds.
  The `debug_assert!(false)` in `handle_commit` and `handle_abort` of `stmpaxos2pc_rm.rs` can
  be hit as well, in the runs of `ddl_commit`: while the gossip of a new leader of the TM is
  being inserted at an RM, the old leader's `Commit` is still delivered, and the RM begins to
  insert `Committed`; once the gossip is in, the new leader's `Commit` finds it
  `InsertingCommitted`, and the leader of the RM panics. Its successor finds `Prepared` or
  `Committed` in the log, the TM sends it the outcome again, and it comes to an end:
  `PreparedIsClosed` and the safety properties hold with these panics.
* `storage_reinsert`: a transaction sets a column of a row, deletes the row and inserts it
  again without that column. All three happen at one timestamp, and the presence snapshot
  tells old values from new ones by timestamps: the old value reappears.
* `join_plan`: a WHERE equality on the first key column of a joined table
  (`... JOIN user U ON true WHERE I.email = U.email`) is pushed into that table's leaf with
  no dependency on the other side, whose column it uses. The leaf cannot be evaluated.
* `tablet_lost_stage`: a read makes the Tablet abort an MSQueryES
  (DeadlockSafetyWriteAbort) between two stages of its transaction. No ES is there to be
  told; the next stage gets a new MSQueryES, and the Coord prepares one of the two. If it is
  the second, the transaction commits without the writes of its first stage; and the one
  that is not prepared is left behind, which `NothingStuck` exempts.

Three more defects of JOINs are excluded in `Unevaluable`. They are plain panics, no
disagreement with a text: subqueries of WHERE above a JOIN whose sides depend on each other
(`final_join_subqueries_dependent` indexes the second side by the wrong counter);
subqueries among the SelectItems of a JOIN (`join_node_finished` unwraps a result that it
has just taken); and FULL OUTER JOIN LATERAL (accepted by `validate_lateral`, an unexpected
branch in JoinReadES).

One answer to a question of the source: `ShardingSnapshotES::handle_msg` asks in a TODO why
its `debug_assert!`, which is commented out there, can be hit. The snapshot is sent again when a leader on either side
changes, and the Slave of the new Tablet confirms a copy that it no longer needs as well
(`shard_pending_es.rs`), so that a second confirmation can come while the first one is being
inserted. It changes nothing, and `SnapshotComplete` says that the copies are the same.

A caveat that no run shows: the `CreateSlaveGroup` of a new leader of the Master can overtake
the `FreeNodeRegistered` of the previous one. A node in `DNEState` drops it, nobody sends it
again, and the group stays unconfirmed until the next leader change. Likewise
`FreeNodeManager::process` gives away nodes that the new leader has not heard of, since it
adds the nodes that the filter before it has left out.

Deadlock is not checked: in every run the bounded system may simply have nothing left
to do (all messages read, no leader change left).

Fairness. Liveness is checked under weak fairness of the work that a running leader
always gets to: reading each of its queues, inserting bundles, handling forwarded
inputs. Gossip of Leaderships is sent again on a timer (`SlaveTimerInput::
RemoteLeaderChanged`), which justifies weak fairness of hearing it. Leader changes,
retirement of old leaders, and sending need never happen, with one exception: a leader that
has panicked sends no heartbeats, and `paxos.rs` elects another one once
`heartbeat_threshold` of them are missing (weak fairness of `TakeOver` in `STMPaxos2PC`). In `Tablet` and `QueryExecution`
every step moves something forward and behaviours end, so that progress is checked as an
invariant: no state lacks both a step that must happen (`FairStep`; in `QueryExecution`,
`Idle` says that there is none) and what must have happened.

Every property comes with a mutant: a definition that differs from the model as a
plausible slip in the code would, under which TLC finds the property violated. The
mutants stand in front of the definition they change.

## 4. Proofs

`PaxosInstanceProofs` proves for a Paxos instance, for every finite `Nodes`, every
`Values`, `Entry`, `ProposalIncrement` and `MaxRnd`:

* `Invariance`: `IndInv` is an invariant;
* `TypeCorrect`, `RoundsExclusive`, `LogsAgree`, `LearnedWasChosen`: `TypeOK`,
  `OneValuePerRound`, `Agreement` and `LearnedIsChosen` are;
* `Refinement`: the instance implements `Consensus` (`ImplementsConsensus`): every step
  chooses nothing, or chooses one value where none was.

`Agreement` is far from inductive. `IndInv` adds what the argument needs: a promise
reports the highest vote of its sender and binds it (`PromiseInv`, `AcceptorInv`);
a proposer counts promises that were made to it for that very round (`ProposalInv`);
an Accept is backed by a majority of promises that its sender either still counts or has
forgotten by redrawing the round (`BackedInv`), so that a redrawn round is not sent
a second, different Accept, and colliding proposers cannot both get a majority;
the value of an Accept is safe (`SafeInv`: no other value was or will be chosen in a
lower round); and the learner counts only real votes (`LearnerInv`). The proof has one
lemma per action; `MajoritiesMeet` is the only place where cardinalities enter.

`KeyBoundsProofs` proves about `expression.rs`, for integers of any size, keys of any
number of columns and regions of any size: `IntersectionExact` (of which the source says
"TODO: prove this function formally"), `SurelyEmptyIsEmpty` and `InversionExact` for
intervals; from these `IsolationSound`: when Region Isolation lets a write pass a read, they
share no key or the write does not touch what is read; and `RoutingSound`: a Tablet finds
every key of its range that a query asks for. `Tablet` relies on the former where it takes
`Isolated` for `is_surely_isolated`.

`NetworkDriverProofs` holds what is true of the NetworkDriver whatever runs above it:
`NetInv` (types; the node of the last Leadership of a log leads; a node that does not
lead holds nothing; `LeaderChanged` is the first thing a new leader handles; what is held
back came over a link and from a Leadership that had to be announced), one lemma per
action that keeps it, and one on handling an input, for any handler that touches only what
`HandlesInput` says. `UnderWay` is what the layer above reasons with: a message in a queue,
in a buffer or among the forwarded inputs; only sending adds to it (`NothingSent`,
`HandleSends`).

`NetworkDeliveryProofs` proves for any groups and links, any number of messages, leader
changes and generations: `Invariance`, and that `NoGap`, `PersistedBeforeDelivered` and
`BufferUnblocks` are invariants. `NoGap` depends on where every message is. `Stream` says so
for each pair of nodes: of what one sent, nothing was taken from the queue as long as the
receiver knows of no Leadership as new as the sender's (`NewerInv`); or what was taken is
held back, from number 1 on (`HeldInv`); or it was delivered or let go, the numbers of the
two being contiguous (`CurrentInv`), messages that are let go being handled before anything
else. That a buffer is dropped only when its sender is outdated, and that a change of the
LeaderMap makes a sender current only if nothing of it was taken yet, is then what each
action has to keep. `PersistInv` (what a leader knows of other leaders, or is about to, is in
the log of its group) gives `PersistedBeforeDelivered`; `ForwardInv` (the changes of a
bundle are handled first, and the second pass over each is still to come) and `BufferInv`
give `BufferUnblocks`. `EventuallyDelivered` is model-checked only.

`Paxos2PCProofs` proves for one FinishQuery transaction, for any number of RMs, leader
changes, messages and generations:

* `Invariance`: `IndInv` is an invariant;
* `TypeCorrect`, `PLmsExpected`, `FollowersAlwaysAgree`, `ReplyIsAlwaysOutcome`: `TypeOK`,
  `PLmExpected`, `FollowersAgree` and `ReplyIsOutcome` are;
* `Refinement`: `Paxos2PC` implements `TransactionCommit`.

It assumes of the constants that there is an RM: the Coord replies at once, and runs no
Paxos2PC, when `all_rms` is empty (`coord.rs`, `MSFinishWriteES`). Beside `NetInv`, the
invariant says where the one PLm of an RM can be on its way (`PipelineInv`: gathered,
handed over, in the log and not processed, forwarded; never two of them), that the state
of an RM's leader is what the log of its group, and the PLm on its way, say (`LogInv`), and
what the messages under way mean. The heart of it is a pair of facts about all RMs
together: `AllPrepared` (the log of every RM holds Prepared) and `Doomed` (some RM has
not prepared and never will: its log is empty and its leader has neither the ES nor the
MSQueryES that a Prepare would find). Both are stable and exclude each other (`NotBoth`); a
Commit, a Committed PLm and the reply "committed" each imply the first, an Abort, an Aborted
and the reply that makes the client retry the second (`MessageInv`, `OutcomeInv`). What makes
Doomed stable is that a Prepare that arrives after a leader change of either side finds no
MSQueryES, and that before that it is the first message of the TM to be handled (`QueryInv`).
`Refinement` is then a statement about
what one bundle adds to a log (`LogStep`).

`STMPaxos2PCProofs` proves for one DDL query, for any number of RMs, leader changes, messages
and generations, and with leaders of the TM and of the RMs that may panic:

* `Invariance`: `IndInv` is an invariant;
* `TypeCorrect`, `FollowersAlwaysAgree`, `ClosedAlwaysMeansResolved`, `ReplyIsAlwaysOutcome`,
  `UnwrapsAlwaysFindES`: `TypeOK`, `FollowersAgree`, `ClosedMeansResolved`, `ReplyIsOutcome`
  and `UnwrapsFindES` are;
* `Refinement`: `STMPaxos2PC` implements `TransactionCommit`.

It assumes of the constants that there is an RM. The argument differs from that of Paxos2PC,
since the ESs of RMs come and go: an RM that has committed holds nothing, and a Prepare that
reached it then would start it anew. That this never happens depends on the order of
messages and on what each leader knows of the others, so the invariant begins with the
network: what a leader knows is in its log, and a new leader knows at least as much as those
before it (`LagInv`, `MonotoneInv`); nothing was sent to a node before it led (`SilentInv`,
`ElectedInv`); what was held back is let go all at once (`LetGoInv`); and in no queue is a
Prepare, or an answer to one, behind an outcome or a Closed (`FifoInv`).
Everything else is tied to facts that stay true once they are: leaders of an RM from a
generation on know that it is prepared (`PreparedFrom`), are asked to prepare no more
(`Unasked`; `Settled`, if that is final), the leaders of the TM from a generation on know the
outcome (`Late`), and the leader of a generation is the last one of its RM to do anything
(`Over`). A Commit under way implies that its receiver is prepared and settled, a Closed
that its sender is over, and an RM that a leader of the TM counts as closed will not be heard
of again (`RMMessageInv`, `TMMessageInv`, `TMStateInv`). The proof is in two halves. `Step`
says what a step of the system may do, in terms of the protocol and not of the code; `Assemble`
and the lemmas before it show that such a step keeps the facts and the invariants on
them, and one lemma per handler shows that it is such a step. TLC was used to check that
each conjunct of `IndInv` is an invariant and each of `Step` an action property of the
instance of `ddl_commit` before they were proved. `ClosedFindsES`, which the code's comments
claim as well, is violated (section 3), and the assertions of the RM can be hit, which is why `Step` has to
cover a leader that panics: to the others it is one that follows, but for the end of its queues
that is lost (`Drops`).
`PreparedIsClosed` is liveness, and model-checked only.

`FreeNodeManagerProofs` proves for the Master's management of nodes, for any set of Master
nodes, any finite sets of nodes and new SlaveGroups, any group size, thresholds and bounds:
`Invariance`, and that `UnwrapsFind`, `OneHome`, `PublishedIsRunning` and `ShutdownIsFinal`
are invariants. None of them is inductive, since each compares what Master nodes that are at
different places of the log have replayed. `IndInv` therefore speaks of the log: a node is
new in one entry and gone in one, where it is either dead or given to one group (`LogInv`);
what a Master node holds is a function of the part it has replayed (`ReplayInv`); a bundle is
inserted by the node that the log before it makes leader, who has replayed all of that
(`LidInv`, `AuthorInv`), so that what a new leader grants is free after the whole log. Beside
these: a registration is pending at one leader (`PendingInv`), what leaders and followers hold
of the reconfigurations under way (`RoleInv`), that only dead nodes are sent ShutdownNode
(`ShutdownInv`), and that confirmations come from nodes that run the group and stay there
(`CreateInv`).

`TabletProofs` proves for one Tablet, for any finite set of queries with any plans and
timestamps, any schema, ALTER, DROP and split, and any number of leader changes:
`ReadsStayValid`, `SchemaStays`, `SnapshotComplete` and `Asserts`. It assumes of the
constants that a query is a read or a write but not both, that a read has one stage, and that
the queries, the columns of a plan and of the initial schema are finite sets. The invariant has three parts.

* Region Isolation (`Inv`). `ReadsStayValid` is not inductive, since it says nothing of the
  writes that have not committed. `Isolation` does: no write region that is *held* (from the
  stage that asks for it on, through the three collections, until the query commits or
  aborts) conflicts with a read that is granted and comes after it. Granting a read, taking
  a write region and committing are the three steps that could break it, and each of the two
  checks of the main loop is what one of them needs (`GrantIsolates`, `WriteIsolates`,
  `CommitIsolates`). That a check over what is in memory and in the log is enough after a
  leader change needs that a read which counts has its protection in the log (`ReadInv`), that
  the collections a writer is in match its FinishQuery (`FinishInv`), and that a PLm of a
  bundle has its request (`BundleInv`, `RequestsInv`).
* Column Locking (`SchemaInv`). Whoever has locked columns has them in the LATs of the log,
  or in a PLm of a bundle (`LocksInv`); whoever counts has them in the log. A DDL under way has
  a timestamp above the LAT of its column, or above the presence timestamp, and above the locks
  in the bundles (`DDLTimestampInv`), although the locks of a bundle are applied before its
  commit. So it writes above every query whose plan the schema must stay aligned with
  (`AlignInv`). The lemmas on `MultiVersionMap` say what a step does to LATs and reads
  (`AppliedLocks`, `WriteReads`).
* The split (`SplitInv`). After it no query planned before it runs; once a snapshot is sent
  none is Prepared either, also after a leader change that sends it again. What a fresh
  snapshot holds is complete by the first two parts (`SnapshotFresh`), and stays so
  (`SnapshotKept`).

`NothingStuck` is about what is enabled, and is model-checked only.

What is model-checked only:

* liveness (`EventuallyDelivered`, `PreparedIsResolved`, `PreparedIsClosed`)
  and what is enabled (`NothingStuck`), of which the prover knows nothing;
* what recursive definitions compute for every input: key regions and evaluation
  (`ShardedReadComplete`), JOINs (`JoinIsReference`, `JoinWaitsForQueries`) and the replay of a
  history (`SnapshotIsReplayOtherwise`). These would need induction over expressions, trees and
  sequences. The algorithms that do not recurse are those of `KeyBoundsProofs`;
* `QueryExecution` (`AnsweredOnce` included): its handlers call each other, up and down the
  tree of ESs, and are folds over the whole state, whose effect would again have to be proved
  by induction.

## 5. What is left

1. `PaxosDriver`: the log across indices, purging, heartbeats and reconfiguration.
2. The Slave's side of a split (`PendingShardingES`), and how a SlaveGroup takes new nodes
   in and drops dead ones, over `NetworkDriver`.
3. The buffering of messages of unknown senders in `node.rs`; the Master's main loop with
   the table locks of DDL queries.

Not modelled, and not planned: SQL parsing, renaming and column usage in query planning
(sequential tree transformations), sockets and threads (`bin/`), type declarations.
