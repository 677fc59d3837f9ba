--------------------------- MODULE QueryExecution ---------------------------
(***************************************************************************)
(* The execution of one request over a Coord and Tablets of different      *)
(* PaxosGroups: the MSCoordES with its planning and its stages (coord.rs,  *)
(* ms_query_coord_es.rs), the TMStatuss that send PerformQuery             *)
(* (tm_status.rs), the ESs that run them, with subqueries of their own     *)
(* (GRQueryES, JoinReadES, TransTableReadES), the MSQueryESs that hold     *)
(* writes at the Tablets, and how all of it is cleaned up, retried and     *)
(* handed over to FinishQuery.                                             *)
(*                                                                         *)
(* An ES and its GRQueryESs and JoinReadESs are one record: it runs phases *)
(* of TMStatuss, those of one phase in parallel.  What the Tablets lock    *)
(* and read is in Tablet; the commit protocol is in Paxos2PC; here they    *)
(* are a choice of results.  In particular DeadlockSafetyWriteAbort of an  *)
(* MSQueryES between two stages is left to Tablet.                         *)
(*                                                                         *)
(* Messages between two groups arrive in order, from the Leadership that   *)
(* the receiver knows to the Leadership that they are meant for (see       *)
(* NetworkDriver).                                                         *)
(***************************************************************************)
EXTENDS Naturals, Sequences, FiniteSetsExt

CONSTANTS
    Coord, Tablets,
    Plans,          \* set of queries: sequences of phases, a phase is a
                    \* sequence of stages [rms, ms, write, subs]; subs are
                    \* the phases of subqueries that every RM runs
    Errors,         \* what an ES at a Tablet may answer by itself
    MaxErrors,      \* bound on such answers
    MaxChanges,     \* bound on leader changes
    MaxAttempts     \* bound on the attempts at the request

Nodes == {Coord} \cup Tablets

VARIABLES
    plan,               \* the query
    gen,                \* the Leadership of each group
    leader_map,         \* node -> node -> the Leadership that it knows
    query_leader_map,   \* attempt -> the Leaderships that it was planned with
    chan,               \* <<node, node>> -> messages under way
    es,                 \* node -> the ESs that run a PerformQuery
    tm,                 \* node -> TMStatuss
    ms,                 \* node -> MSQueryESs
    made,               \* node -> number of MSQueryESs made so far
    root,               \* the MSCoordES, then the FinishQueryTMES
    finish,             \* RM -> [is, wrote]: what has become of its Prepare
    gossip,             \* the local GossipData has everything that is needed
    asked,              \* the Master's leader knows of the planning request
    answer,             \* to the External
    commits,            \* the commits so far: [attempt, wrote]
    errors_left, changes_left

vars == <<plan, gen, leader_map, query_leader_map, chan, es, tm, ms, made, root, finish,
          gossip, asked, answer, commits, errors_left, changes_left>>

----------------------------------------------------------------------------
(* QueryIds: <<attempt>> for the MSCoordES, followed by <<phase, branch>>  *)
(* for a TMStatus and by the RM for the ES that runs it there.             *)

StageAt(id) == LET stage == plan[id[2]][id[3]] IN
               IF Len(id) < 6 THEN stage ELSE stage.subs[id[5]][id[6]]
Owner(t) == SubSeq(t, 1, Len(t) - 2)
OwnerNode(t) == IF Len(t) = 3 THEN Coord ELSE t[Len(t) - 2]
TMOf(e) == SubSeq(e, 1, Len(e) - 1)
Attempt(id) == id[1]
IsRoot(id) == Len(id) = 1
TMsOf(s, n, owner) == {t \in s.tm[n] : Owner(t.id) = owner}

\* What a handler changes; `s` below is always such a record.
Cur == [es |-> es, tm |-> tm, ms |-> ms, made |-> made, root |-> root, chan |-> chan,
        finish |-> finish, asked |-> asked, answer |-> answer, map |-> leader_map,
        plan_map |-> query_leader_map]
Becomes(s) ==
    /\ es' = s.es /\ tm' = s.tm /\ ms' = s.ms /\ made' = s.made /\ root' = s.root
    /\ chan' = s.chan /\ finish' = s.finish /\ asked' = s.asked /\ answer' = s.answer
    /\ leader_map' = s.map /\ query_leader_map' = s.plan_map

\* posts: set of [to, m].  What goes down to an RM is meant for the
\* Leadership of the plan, the rest for the one that n knows.
Post(s, n, posts) ==
    LET Lid(x) == IF x.m.type \in {"PerformQuery", "CancelQuery"}
                  THEN s.plan_map[Attempt(x.m.id)][x.to] ELSE s.map[n][x.to]
    IN  [s EXCEPT !.chan = FoldSet(LAMBDA x, q :
            [q EXCEPT ![<<n, x.to>>] = Append(@, [from |-> gen[n], to |-> Lid(x), m |-> x.m])],
            @, posts)]

Message(type, id) == [type |-> type, id |-> id]
To(n, m) == [to |-> n, m |-> m]

----------------------------------------------------------------------------
(* TMStatus.                                                               *)

\* exit_and_clean_up of TMStatuss.
ExitTMs(s, n, tms) ==
    Post([s EXCEPT !.tm[n] = @ \ tms], n,
         UNION {{To(r, Message("CancelQuery", t.id)) : r \in t.remaining} : t \in tms})

\* No Leadership of an RM may have changed since the query was planned.
send_general(s, n, id, stage) ==
    \A r \in stage.rms : s.plan_map[Attempt(id)][r] >= s.map[n][r]

\* The TMStatuss of phase p of `owner`; the branches that cannot be sent,
\* and those after them, are not started.
Launch(s, n, owner, phase, p) ==
    LET sent == {b \in DOMAIN phase : \A c \in 1..b : send_general(s, n, owner, phase[c])}
        tms == {[id |-> owner \o <<p, b>>, remaining |-> phase[b].rms, rms |-> {}] : b \in sent}
    IN  Post([s EXCEPT !.tm[n] = @ \cup tms], n,
             UNION {{To(r, Message("PerformQuery", t.id)) : r \in t.remaining} : t \in tms})
Launches(s, n, owner, phase) == \A b \in DOMAIN phase : send_general(s, n, owner, phase[b])

----------------------------------------------------------------------------
(* The ESs of PerformQuery.                                                *)

\* child_queries; the Coord does not record those of a TransTableReadES.
Children(s, n, e) == IF n = Coord THEN {} ELSE TMsOf(s, n, e.id)

ExitES(s, n, e) == ExitTMs([s EXCEPT !.es[n] = @ \ {e}], n, Children(s, n, e))

\* TPESAction::QueryError
ErrorES(s, n, e, error) ==
    ExitES(Post(s, n, {To(OwnerNode(TMOf(e.id)),
                          [type |-> "QueryAborted", id |-> TMOf(e.id), error |-> error, rm |-> n])}),
           n, e)

\* TPESAction::Success: the MSQueryES keeps the writes and becomes an RM.
FinishES(s, n, e) ==
    LET stage == StageAt(e.id)
        mine == {q \in s.ms[n] : stage.ms /\ q.attempt = Attempt(e.id)}
        wrote == {[q EXCEPT !.wrote = @ \cup (IF stage.write THEN {TMOf(e.id)} ELSE {})] : q \in mine}
        rms == e.rms \cup {[node |-> n, id |-> q.id] : q \in mine}
    IN  Post([s EXCEPT !.es[n] = @ \ {e}, !.ms[n] = (@ \ mine) \cup wrote], n,
             {To(OwnerNode(TMOf(e.id)),
                 [type |-> "QuerySuccess", id |-> TMOf(e.id), rms |-> rms, rm |-> n])})

\* The subqueries of phase p, or the end.
AdvanceES(s, n, e, p) ==
    LET subs == StageAt(e.id).subs
        next == [e EXCEPT !.phase = p]
        moved == [s EXCEPT !.es[n] = (@ \ {e}) \cup {next}]
    IN  IF p > Len(subs) THEN FinishES(s, n, e)
        ELSE IF Launches(s, n, e.id, subs[p]) THEN Launch(moved, n, e.id, subs[p], p)
        ELSE ErrorES(Launch(moved, n, e.id, subs[p], p), n, next, "InvalidLeadershipId")

----------------------------------------------------------------------------
(* The MSCoordES.                                                          *)

RootId(s) == <<s.root.attempt>>
Ended(s, reply) == [s EXCEPT !.root.state = "Done", !.answer = reply, !.asked = FALSE]

\* exit_and_clean_up, with the child_queries.
ExitRoot(s) ==
    ExitTMs(Post([s EXCEPT !.root.registered = {}], Coord,
                 {To(q.node, Message("CancelMSQuery", q.id)) : q \in s.root.registered}),
            Coord, TMsOf(s, Coord, RootId(s)))

FatalFailure(s) == Ended(ExitRoot(s), "Aborted")

\* handle_planning_action: the plan takes the Leaderships known now.
Execute(s) ==
    LET planned == [s EXCEPT !.root.state = "Executing", !.root.phase = 1, !.asked = FALSE,
                             !.plan_map[s.root.attempt] = s.map[Coord]]
    IN  Launch(planned, Coord, RootId(s), plan[1], 1)

\* start of the QueryPlanningES
StartPlanning(s, with_master) ==
    IF gossip /\ ~with_master THEN Execute(s)
    ELSE [s EXCEPT !.root.state = "MasterQueryPlanning", !.asked = TRUE]

\* NonFatalFailure, and a FinishQuery that was aborted: a new MSCoordES.
Retry(s, with_master) ==
    IF s.root.attempt = MaxAttempts THEN Ended(s, "Bound")
    ELSE StartPlanning([s EXCEPT !.root = [attempt |-> @.attempt + 1, state |-> "Start",
                                           phase |-> 0, rms |-> {}, registered |-> {}]],
                       with_master)
NonFatalFailure(s, with_master) == Retry(ExitRoot(s), with_master)

\* The Coord names one MSQueryES per Tablet.
PreparedRMs(rms) == {q.node : q \in rms}

\* advance, after the last stage.
FinishRoot(s) ==
    LET r == s.root
        changed == \E q \in r.rms : s.plan_map[r.attempt][q.node] # s.map[Coord][q.node]
        cancelled == Post(s, Coord, {To(q.node, Message("CancelMSQuery", q.id)) :
                                        q \in r.registered \ r.rms})
        named == {CHOOSE q \in r.rms : q.node = n : n \in PreparedRMs(r.rms)}
    IN  IF changed THEN NonFatalFailure(s, FALSE)
        ELSE IF r.rms = {} THEN Ended(cancelled, "Success")
        ELSE Post([cancelled EXCEPT !.root.state = "Finishing",
                                    !.finish = [n \in PreparedRMs(r.rms) |-> [is |-> "Sent", wrote |-> {}]]],
                  Coord, {To(q.node, Message("Prepare", q.id)) : q \in named})

AdvanceRoot(s) ==
    LET p == s.root.phase + 1
    IN  IF p > Len(plan) THEN FinishRoot(s)
        ELSE IF Launches(s, Coord, RootId(s), plan[p])
        THEN Launch([s EXCEPT !.root.phase = p], Coord, RootId(s), plan[p], p)
        ELSE NonFatalFailure(Launch(s, Coord, RootId(s), plan[p], p), FALSE)

\* handle_tm_aborted of the MSCoordES.
AbortRoot(s, error) ==
    CASE error \in {"TypeError", "RuntimeError"} -> FatalFailure(s)
      [] error = "InvalidQueryPlan" -> NonFatalFailure(s, TRUE)
      [] error \in {"WriteRegionConflictWithSubsequentRead", "DeadlockSafetyAbortion",
                    "TimestampConflict", "InvalidLeadershipId"} -> NonFatalFailure(s, FALSE)
      [] error = "LateralError" -> s

----------------------------------------------------------------------------
(* Routing of what the RMs answer.                                         *)

OwnerES(s, n, t) == {e \in s.es[n] : e.id = Owner(t.id)}
OwnedByRoot(s, n, t) ==
    n = Coord /\ IsRoot(Owner(t.id)) /\ Owner(t.id) = RootId(s) /\ s.root.state = "Executing"

\* handle_tm_done: a phase is over when its last TMStatus is.
TMDone(s, n, t) ==
    LET left == [s EXCEPT !.tm[n] = @ \ {t}]
        last == TMsOf(left, n, Owner(t.id)) = {}
        More(e) == [e EXCEPT !.rms = @ \cup t.rms]
        AddTo(e) == [left EXCEPT !.es[n] = (@ \ {e}) \cup {More(e)}]
    IN  IF OwnedByRoot(s, n, t)
        THEN LET told == [left EXCEPT !.root.rms = @ \cup t.rms]
             IN  IF last THEN AdvanceRoot(told) ELSE told
        ELSE FoldSet(LAMBDA e, r : IF last THEN AdvanceES(AddTo(e), n, More(e), e.phase + 1)
                                   ELSE AddTo(e),
                     left, OwnerES(s, n, t))

\* handle_tm_aborted, and a TMStatus whose RM has a new Leadership.
TMAborted(s, n, t, error) ==
    LET left == ExitTMs(s, n, {t})
    IN  IF OwnedByRoot(s, n, t) THEN AbortRoot(left, error)
        ELSE FoldSet(LAMBDA e, r : ErrorES(r, n, e, error), left, OwnerES(s, n, t))

\* Mutant: looks whether all have answered before it takes this answer.
handle_query_success_before(s, n, m) ==
    LET More(t) == [t EXCEPT !.remaining = @ \ {m.rm}, !.rms = @ \cup m.rms]
    IN  FoldSet(LAMBDA t, r : IF t.remaining = {} THEN TMDone(s, n, t)
                              ELSE [s EXCEPT !.tm[n] = (@ \ {t}) \cup {More(t)}],
                s, {t \in s.tm[n] : t.id = m.id})

\* Mutant: done at the first answer.
handle_query_success_first(s, n, m) ==
    FoldSet(LAMBDA t, r : TMDone([s EXCEPT !.tm[n] = @ \ {t}], n, [t EXCEPT !.rms = m.rms]),
            s, {t \in s.tm[n] : t.id = m.id})

handle_query_success(s, n, m) ==
    LET More(t) == [t EXCEPT !.remaining = @ \ {m.rm}, !.rms = @ \cup m.rms]
    IN  FoldSet(LAMBDA t, r : IF t.remaining \subseteq {m.rm} THEN TMDone([s EXCEPT !.tm[n] = (@ \ {t}) \cup {More(t)}], n, More(t))
                              ELSE [s EXCEPT !.tm[n] = (@ \ {t}) \cup {More(t)}],
                s, {t \in s.tm[n] : t.id = m.id})

handle_query_aborted(s, n, m) ==
    FoldSet(LAMBDA t, r : TMAborted(r, n, t, m.error), s, {t \in s.tm[n] : t.id = m.id})

----------------------------------------------------------------------------
(* PerformQuery, and the MSQueryESs.                                       *)

\* get_msquery_id: the MSQueryES of the attempt is made and registered,
\* unless its root is known to be dead.
RootIsDead(s, n, id) == s.plan_map[Attempt(id)][Coord] < s.map[n][Coord]
get_msquery_id(s, n, id) ==
    LET q == [attempt |-> Attempt(id), id |-> s.made[n] + 1, wrote |-> {}]
    IN  IF \E x \in s.ms[n] : x.attempt = Attempt(id) THEN s
        ELSE Post([s EXCEPT !.ms[n] = @ \cup {q}, !.made[n] = @ + 1], n,
                  {To(Coord, [type |-> "RegisterQuery", attempt |-> q.attempt,
                              query |-> [node |-> n, id |-> q.id]])})

\* A TransTableSelectQuery finds its source in the MSCoordES.
handle_perform_query(s, n, m) ==
    LET e == [id |-> Append(m.id, n), phase |-> 0, rms |-> {}]
        stage == StageAt(m.id)
        refused == IF n = Coord THEN ~(s.root.state = "Executing" /\ s.root.attempt = Attempt(m.id))
                   ELSE stage.ms /\ RootIsDead(s, n, m.id)
                        /\ ~\E x \in s.ms[n] : x.attempt = Attempt(m.id)
        started == IF stage.ms THEN get_msquery_id(s, n, m.id) ELSE s
    IN  IF refused
        THEN Post(s, n, {To(OwnerNode(m.id),
                            [type |-> "QueryAborted", id |-> m.id, rm |-> n,
                             error |-> IF n = Coord THEN "LateralError" ELSE "InvalidLeadershipId"])})
        ELSE [started EXCEPT !.es[n] = @ \cup {e}]

\* exit_ms_query_es, on CancelQuery and when its root is dead.
ExitMSQuery(s, n, q) ==
    LET pending == {e \in s.es[n] : StageAt(e.id).ms /\ Attempt(e.id) = q.attempt}
    IN  FoldSet(LAMBDA e, r : ErrorES(r, n, e, "LateralError"), [s EXCEPT !.ms[n] = @ \ {q}], pending)

\* Mutant: a query whose MSCoordES is gone is not told.
handle_register_query_silent(s, m) ==
    IF s.root.state = "Executing" /\ s.root.attempt = m.attempt
    THEN [s EXCEPT !.root.registered = @ \cup {m.query}] ELSE s

\* Mutant: a query that was registered is not registered again.
handle_register_query_once(s, m) ==
    IF s.root.state = "Executing" /\ s.root.registered = {}
    THEN [s EXCEPT !.root.registered = @ \cup {m.query}]
    ELSE Post(s, Coord, {To(m.query.node, Message("CancelMSQuery", m.query.id))})

handle_register_query(s, m) ==
    IF s.root.state = "Executing" /\ s.root.attempt = m.attempt
    THEN [s EXCEPT !.root.registered = @ \cup {m.query}]
    ELSE Post(s, Coord, {To(m.query.node, Message("CancelMSQuery", m.query.id))})

\* The RM of FinishQuery takes the MSQueryES over, if it is there.
handle_prepare(s, n, q) ==
    [s EXCEPT !.ms[n] = @ \ q,
              !.finish[n] = [is |-> IF q = {} THEN "Refused" ELSE "Prepared",
                             wrote |-> UNION {x.wrote : x \in q}]]

Handle(s, n, m) ==
    LET named == {q \in s.ms[n] : m.type \in {"CancelMSQuery", "Prepare"} /\ q.id = m.id}
    IN  CASE m.type = "PerformQuery" -> handle_perform_query(s, n, m)
          [] m.type = "QuerySuccess" -> handle_query_success(s, n, m)
          [] m.type = "QueryAborted" -> handle_query_aborted(s, n, m)
          [] m.type = "CancelQuery" ->
                FoldSet(LAMBDA e, r : ExitES(r, n, e), s, {e \in s.es[n] : TMOf(e.id) = m.id})
          [] m.type = "CancelMSQuery" -> FoldSet(LAMBDA q, r : ExitMSQuery(r, n, q), s, named)
          [] m.type = "RegisterQuery" -> handle_register_query(s, m)
          [] m.type = "Prepare" -> handle_prepare(s, n, named)

----------------------------------------------------------------------------
(* Actions.                                                                *)

Init ==
    /\ plan \in Plans
    /\ gen = [n \in Nodes |-> 0]
    /\ leader_map = [n \in Nodes |-> [g \in Nodes |-> 0]]
    /\ query_leader_map = [a \in 1..MaxAttempts |-> [g \in Nodes |-> 0]]
    /\ chan = [c \in Nodes \X Nodes |-> << >>]
    /\ es = [n \in Nodes |-> {}] /\ tm = [n \in Nodes |-> {}] /\ ms = [n \in Nodes |-> {}]
    /\ made = [n \in Nodes |-> 0]
    /\ root = [attempt |-> 1, state |-> "Start", phase |-> 0, rms |-> {}, registered |-> {}]
    /\ finish = << >> /\ gossip \in BOOLEAN /\ asked = FALSE
    /\ answer = "None" /\ commits = << >>
    /\ errors_left = MaxErrors /\ changes_left = MaxChanges

env_vars == <<plan, gen, gossip, commits, errors_left, changes_left>>

PerformExternalQuery ==
    /\ root.state = "Start"
    /\ Becomes(StartPlanning(Cur, FALSE))
    /\ UNCHANGED env_vars

\* Mutant: a request can be cancelled until it is answered.
CancelExternalQuery_late ==
    /\ root.state \in {"MasterQueryPlanning", "GossipDataWaiting", "Executing", "Finishing"}
    /\ Becomes(IF root.state = "Finishing" THEN [Cur EXCEPT !.answer = "Cancelled"]
               ELSE Ended(ExitRoot(Cur), "Cancelled"))
    /\ UNCHANGED env_vars

\* "a request is only cancellable while it is an MSCoordES"
CancelExternalQuery ==
    /\ root.state \in {"MasterQueryPlanning", "GossipDataWaiting", "Executing"}
    /\ Becomes(Ended(ExitRoot(Cur), "Cancelled"))
    /\ UNCHANGED env_vars

\* handle_master_query_plan
MasterQueryPlanningSuccess ==
    /\ root.state = "MasterQueryPlanning" /\ asked
    /\ \/ gossip /\ Becomes(Execute(Cur))
       \/ ~gossip /\ Becomes([Cur EXCEPT !.root.state = "GossipDataWaiting", !.asked = FALSE])
       \/ Becomes(FatalFailure(Cur))                        \* QueryPlanningError
    /\ UNCHANGED env_vars

GossipData ==
    /\ ~gossip /\ gossip' = TRUE
    /\ IF root.state = "GossipDataWaiting" THEN Becomes(Execute(Cur)) ELSE Becomes(Cur)
    /\ UNCHANGED <<plan, gen, commits, errors_left, changes_left>>

\* The Master's leader changes; the Coord hears of it and asks again.
MasterLeaderLost ==
    /\ asked /\ changes_left > 0 /\ changes_left' = changes_left - 1
    /\ Becomes([Cur EXCEPT !.asked = FALSE])
    /\ UNCHANGED <<plan, gen, gossip, commits, errors_left>>
master_leader_changed ==
    /\ root.state = "MasterQueryPlanning" /\ ~asked
    /\ Becomes([Cur EXCEPT !.asked = TRUE])
    /\ UNCHANGED env_vars

\* An ES has its locks and goes on, or it fails.
Proceed(n, e) ==
    /\ e.phase = 0
    /\ Becomes(AdvanceES(Cur, n, e, 1))
    /\ UNCHANGED env_vars
Fail(n, e, error) ==
    /\ errors_left > 0 /\ errors_left' = errors_left - 1
    /\ Becomes(ErrorES(Cur, n, e, error))
    /\ UNCHANGED <<plan, gen, gossip, commits, changes_left>>

\* The NetworkDriver holds back messages of a Leadership that is not known
\* yet, and drops those from or to an old one.
Receive(from, to) ==
    LET q == chan[<<from, to>>]
        rest == [Cur EXCEPT !.chan[<<from, to>>] = Tail(@)]
    IN  /\ q # << >> /\ Head(q).from <= leader_map[to][from]
        /\ Becomes(IF Head(q).from = leader_map[to][from] /\ Head(q).to = gen[to]
                   THEN Handle(rest, to, Head(q).m) ELSE rest)
        /\ UNCHANGED env_vars

\* Everything but the log is gone at the new leader.
LeaderChanged(n) ==
    /\ changes_left > 0 /\ changes_left' = changes_left - 1
    /\ answer = "None" /\ root.state # "Start"
    /\ gen' = [gen EXCEPT ![n] = @ + 1]
    /\ LET lost == [Cur EXCEPT !.es[n] = {}, !.tm[n] = {}, !.ms[n] = {}, !.map[n][n] = gen[n] + 1]
       IN  Becomes(IF n = Coord THEN Ended([lost EXCEPT !.root.registered = {}], "Lost") ELSE lost)
    /\ UNCHANGED <<plan, gossip, commits, errors_left>>

\* ESs that were sent by g exit; TMStatuss that had contacted g are aborted,
\* since g was not to change (see send_general); MSQueryESs of a dead root exit.
RemoteLeaderChanged(n, g) ==
    LET known == [Cur EXCEPT !.map[n][g] = gen[g],
                             !.root.registered = IF n = Coord THEN {q \in @ : q.node # g} ELSE @,
                             !.finish = [r \in DOMAIN @ |->
                                            IF n = Coord /\ r = g /\ @[r].is = "Sent"
                                            THEN [@[r] EXCEPT !.is = "Refused"] ELSE @[r]]]
        exited == FoldSet(LAMBDA e, s : ExitES(s, n, e), known,
                          {e \in es[n] : OwnerNode(TMOf(e.id)) = g})
        contacted == {t.id : t \in {x \in tm[n] : g \in StageAt(x.id).rms}}
        aborted == FoldSet(LAMBDA id, s :
                              FoldSet(LAMBDA t, r : TMAborted(r, n, t, "InvalidLeadershipId"), s,
                                      {t \in s.tm[n] : t.id = id}),
                           exited, contacted)
        dead == FoldSet(LAMBDA q, s : ExitMSQuery(s, n, q), aborted,
                        {q \in ms[n] : g = Coord /\ RootIsDead(known, n, <<q.attempt>>)})
    IN  /\ leader_map[n][g] < gen[g]
        /\ Becomes(dead)
        /\ UNCHANGED env_vars

\* FinishQuery, see Paxos2PC: all RMs commit if all have Prepared; one that
\* changed its Leadership may have lost that before it was in its log.
FinishQuery ==
    /\ root.state = "Finishing" /\ \A n \in DOMAIN finish : finish[n].is # "Sent"
    /\ \/ /\ \A n \in DOMAIN finish : finish[n].is = "Prepared"
          /\ Becomes(Ended([Cur EXCEPT !.finish = << >>], "Success"))
          /\ commits' = Append(commits, [attempt |-> root.attempt,
                                         wrote |-> UNION {{<<n, t>> : t \in finish[n].wrote} : n \in DOMAIN finish}])
       \/ /\ \E n \in DOMAIN finish : \/ finish[n].is = "Refused"
                                      \/ gen[n] > query_leader_map[root.attempt][n]
          /\ Becomes(Retry([Cur EXCEPT !.finish = << >>], FALSE))
          /\ UNCHANGED commits
    /\ UNCHANGED <<plan, gen, gossip, errors_left, changes_left>>

Next ==
    \/ PerformExternalQuery \/ CancelExternalQuery
    \/ MasterQueryPlanningSuccess \/ GossipData \/ MasterLeaderLost \/ master_leader_changed
    \/ \E n \in Nodes : \E e \in es[n] : Proceed(n, e) \/ \E error \in Errors : Fail(n, e, error)
    \/ \E from, to \in Nodes : Receive(from, to)
    \/ \E n \in Nodes : LeaderChanged(n) \/ \E g \in Nodes : RemoteLeaderChanged(n, g)
    \/ FinishQuery

Spec == Init /\ [][Next]_vars

----------------------------------------------------------------------------
(* Properties.                                                             *)

TypeOK ==
    /\ gen \in [Nodes -> Nat] /\ leader_map \in [Nodes -> [Nodes -> Nat]]
    /\ \A n \in Nodes :
        /\ \A e \in es[n] : e.id[Len(e.id)] = n /\ e.phase \in 0..Len(StageAt(e.id).subs)
        /\ \A t \in tm[n] : t.remaining # {} /\ t.remaining \subseteq StageAt(t.id).rms
        /\ \A q, r \in ms[n] : q.attempt = r.attempt => q = r
    /\ \A q \in root.rms \cup root.registered : q.node \in Tablets /\ q.id \in 1..made[q.node]
    /\ root.state \in {"Start", "MasterQueryPlanning", "GossipDataWaiting", "Executing",
                       "Finishing", "Done"}

\* The writes of the query: every write stage at every RM of it.
Writes(attempt) ==
    UNION {UNION {{<<n, <<attempt, p, b>>>> : n \in plan[p][b].rms} :
                    b \in {c \in DOMAIN plan[p] : plan[p][c].write}} : p \in DOMAIN plan}

\* A request is committed at most once, before Success is answered, and with
\* every write of every stage of the attempt, at every Tablet, and of no
\* earlier attempt: no MSQueryES was cancelled, lost with its leader or
\* replaced on the way (TMStatus, registered_queries and all_rms).
CommitsAllWrites ==
    /\ \A i \in DOMAIN commits : commits[i].wrote = Writes(commits[i].attempt)
    /\ Len(commits) <= 1
    /\ answer = "Success" /\ Writes(1) # {} => commits # << >>

\* "Recall that LateralErrors should never make it back to the MSCoordES":
\* an MSQueryES is not cancelled while its MSCoordES waits for it.
NoLateralError ==
    \A n \in Nodes : \A i \in DOMAIN chan[<<n, Coord>>] :
        LET x == chan[<<n, Coord>>][i]
        IN  (/\ x.m.type = "QueryAborted" /\ x.m.error = "LateralError"
             /\ x.to = gen[Coord] /\ x.from = gen[n] /\ x.from = leader_map[Coord][n])
            => ~\E t \in tm[Coord] : t.id = x.m.id /\ OwnedByRoot(Cur, Coord, t)

\* The External is answered once, and nothing is committed after that: a
\* request that was confirmed to be cancelled is not carried out.
AnsweredOnce == [][answer # "None" => UNCHANGED <<answer, commits>>]_vars

\* Nothing is under way, and nobody can go on by himself.
Idle ==
    /\ \A c \in Nodes \X Nodes : chan[c] = << >>
    /\ \A n, g \in Nodes : leader_map[n][g] = gen[g]
    /\ \A n \in Nodes, e \in UNION {es[x] : x \in Nodes} : e \in es[n] => e.phase # 0
    /\ root.state \notin {"Start", "MasterQueryPlanning", "GossipDataWaiting"}
    /\ root.state = "Finishing" => \E n \in DOMAIN finish : finish[n].is = "Sent"

\* When all is quiet the request is answered, unless its Coord was lost, and
\* no ES, TMStatus or MSQueryES is left anywhere: cancelling, registration,
\* and the RemoteLeaderChanged handlers together clean up every attempt.
NothingLeft ==
    Idle => /\ answer # "None"
            /\ \A n \in Nodes : es[n] = {} /\ tm[n] = {} /\ ms[n] = {}

=============================================================================
