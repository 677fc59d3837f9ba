------------------------------ MODULE Paxos2PC ------------------------------
(***************************************************************************)
(* Paxos2PC (paxos2pc_tm.rs, paxos2pc_rm.rs) as FinishQuery runs it to     *)
(* commit one transaction: the TM is a Coord of group TM, which persists   *)
(* nothing, and every RM is a Tablet of a group of its own, which persists *)
(* Prepared, then Committed or Aborted.  Every group may change leaders.   *)
(***************************************************************************)
EXTENDS NetworkDriver

CONSTANTS
  TM,        \* the group of the coordinator
  RMs,       \* the groups of the Tablets written to: there are some, or
             \* the Coord answers the client without Paxos2PC
  MayAbort   \* the RMs whose MSQueryES may be gone when Prepare arrives

ASSUME TMAssumption ==
  /\ TM \notin RMs
  /\ RMs # {}
  /\ Groups = RMs \cup {TM}
  /\ MayAbort \subseteq RMs
  /\ Links = ({TM} \X RMs) \cup (RMs \X {TM})

VARIABLES
  tm,        \* finish_query_tm_ess of each leader of TM
  rm,        \* finish_query_ess of each leader of an RM
  ms_query,  \* whether the MSQueryES is still there at the leader of an RM
  reply      \* what became of the client's request

esVars == <<tm, rm, ms_query, reply>>
vars == <<netVars, esVars>>

TMNodes == {TM} \X Gens
RMNodes == RMs \X Gens

(* Paxos2PCTMOuter; all_rms is always RMs.  response_data is only there if *)
(* the client is still waiting for this leader.                            *)
NoTM == [st |-> "None", rms_remaining |-> {}, response_data |-> FALSE]
TMStates ==
  {NoTM} \cup [st : {"Preparing", "CheckingPrepared"},
               rms_remaining : (SUBSET RMs) \ {{}}, response_data : BOOLEAN]

(* Paxos2PCRMOuter; the generation of orig_tm_lid is kept where it matters *)
Unprepared == {"WaitingInsertingPrepared", "InsertingPrepared"}
RMSt == {"None", "Prepared", "InsertingCommitted", "InsertingPreparedAborted",
         "InsertingAborted", "Committed", "Aborted"}
RMStates == [st : RMSt, orig_tm : {0}] \cup [st : Unprepared, orig_tm : Gens]
InState(st) == [st |-> st, orig_tm |-> 0]

RMMessage == [type : {"Prepare", "CheckPrepared", "Commit", "Abort"}]
TMMessage == [type : {"Prepared", "InformPrepared", "Wait", "Aborted"}]

Msg(type) == [type |-> type]

(* The query has been run.  Its MSQueryES may be gone at an RM already,    *)
(* by DeadlockSafetyWriteAbort or CancelQuery; as nothing looks at it      *)
(* before Prepare arrives, that it goes away before Prepare is all that    *)
(* matters, and no action of its own is needed.                            *)
Init ==
  /\ NetInit
  /\ tm = [n \in TMNodes |-> NoTM]
  /\ rm = [n \in RMNodes |-> InState("None")]
  /\ \E gone \in SUBSET MayAbort :
       ms_query = [n \in RMNodes |-> Gen(n) = 0 /\ Gid(n) \notin gone]
  /\ reply = "none"

ToRMs(rms, type) == [r \in rms |-> Msg(type)]
ToTM(type) == [h \in {TM} |-> Msg(type)]
-----------------------------------------------------------------------------
(* The TM.  Each handler is given the leader n and the queues q without    *)
(* the message it handles, and says what becomes of its ES, what it sends  *)
(* and what becomes of the request.                                        *)

TMBecomes(n, q, es, out) ==
  /\ tm' = [tm EXCEPT ![n] = es]
  /\ chan' = Outgoing(n, q, out)

TMUnchanged(q) == chan' = q /\ UNCHANGED <<tm, reply>>

(* start_orig: MSCoordES::advance starts it when none of the Leaderships   *)
(* that the query was run under have changed.                              *)
start_orig(n) ==
  /\ status[n] = "leader"
  /\ reply = "none"
  /\ \A r \in RMs : leader_map[n][r] = 0
  /\ UNCHANGED leader_map
  /\ TMBecomes(n, chan, [st |-> "Preparing", rms_remaining |-> RMs, response_data |-> TRUE],
               ToRMs(RMs, "Prepare"))
  /\ reply' = "waiting"
  /\ UNCHANGED <<logVars, status, bundleVars, network_buffer, inbox, rm, ms_query>>

start_rec(n, q) ==
  /\ TMBecomes(n, q, [st |-> "CheckingPrepared", rms_remaining |-> RMs, response_data |-> FALSE],
               ToRMs(RMs, "CheckPrepared"))
  /\ UNCHANGED reply

(* commit, or the end of handle_aborted: tell the RMs and forget the       *)
(* transaction; then handle_finish_query_es_action answers the client, or  *)
(* starts its request anew, as another transaction.                        *)
Decide(n, q, type, answer) ==
  /\ TMBecomes(n, q, NoTM, ToRMs(RMs, type))
  /\ reply' = IF tm[n].response_data THEN answer ELSE reply

handle_prepared(n, q, r) ==
  LET remaining == tm[n].rms_remaining \ {r}
  IN \/ /\ remaining = {}
        /\ Decide(n, q, "Commit", "committed")
     \/ /\ remaining # {}
        /\ tm' = [tm EXCEPT ![n].rms_remaining = remaining]
        /\ chan' = q
        /\ UNCHANGED reply

handle_aborted(n, q) == Decide(n, q, "Abort", "retried")

handle_wait(n, q, r) ==
  IF tm[n].st = "CheckingPrepared" /\ r \in tm[n].rms_remaining
  THEN TMBecomes(n, q, tm[n], ToRMs({r}, "CheckPrepared")) /\ UNCHANGED reply
  ELSE TMUnchanged(q)

handle_tm_msg(n, q, r, m) ==
  \/ /\ m.type = "InformPrepared"
     /\ IF tm[n] = NoTM THEN start_rec(n, q) ELSE TMUnchanged(q)
  \/ /\ m.type # "InformPrepared"
     /\ tm[n] = NoTM
     /\ TMUnchanged(q)
  \/ /\ tm[n] # NoTM
     /\ \/ m.type = "Prepared" /\ handle_prepared(n, q, r)
        \/ m.type = "Aborted" /\ handle_aborted(n, q)
        \/ m.type = "Wait" /\ handle_wait(n, q, r)

(* remote_leader_changed of the TM: ask an RM that has not answered again. *)
tm_remote_leader_changed(n, q, g) ==
  IF g \in tm[n].rms_remaining
  THEN /\ TMBecomes(n, q, tm[n],
            ToRMs({g}, IF tm[n].st = "Preparing" THEN "Prepare" ELSE "CheckPrepared"))
       /\ UNCHANGED reply
  ELSE TMUnchanged(q)

(* The inputs of a leader of TM. *)
HandleTMInput(n) ==
  \E in \in Inputs(n) :
    LET item == in.item
        q == in.queues
    IN
     /\ inbox' = [inbox EXCEPT ![n] = in.rest]
     /\ \/ /\ item.type = "LeaderChanged"
           /\ UNCHANGED leader_map
           /\ TMUnchanged(q)
        \/ /\ item.type = "RemoteLeaderChanged"
           /\ leader_map' = [leader_map EXCEPT ![n] = RemoteLeaderChanged(@, item)]
           /\ IF leader_map' # leader_map
              THEN tm_remote_leader_changed(n, q, item.gid)
              ELSE TMUnchanged(q)
        \/ /\ item.type = "Payload"
           /\ UNCHANGED leader_map
           /\ handle_tm_msg(n, q, item.from, item.payload)
     /\ UNCHANGED <<logVars, status, bundleVars, network_buffer, rm, ms_query>>
-----------------------------------------------------------------------------
(* The RMs.  Each handler says what becomes of the ES of the leader n,     *)
(* which message it sends to the TM and which PLm it pushes, if any.       *)

None == "none"

RMBecomes(n, q, es, message, plm) ==
  /\ rm' = [rm EXCEPT ![n] = es]
  /\ chan' = IF message = None THEN q ELSE Outgoing(n, q, ToTM(message))
  /\ tablet_bundle' =
       IF plm = None THEN tablet_bundle ELSE [tablet_bundle EXCEPT ![n] = Append(@, plm)]

RMSends(n, q, message) == RMBecomes(n, q, rm[n], message, None)
RMUnchanged(n, q) == RMBecomes(n, q, rm[n], None, None)

(* Mutant: answers before Prepared is persisted. *)
handle_prepare_early(n, q) ==
  \/ /\ rm[n].st = "None"
     /\ ms_query[n]
     /\ ms_query' = [ms_query EXCEPT ![n] = FALSE]
     /\ RMBecomes(n, q, [st |-> "WaitingInsertingPrepared", orig_tm |-> leader_map[n][TM]],
                  "Prepared", None)
  \/ /\ ~(rm[n].st = "None" /\ ms_query[n])
     /\ RMSends(n, q, IF rm[n].st = "None" THEN "Aborted" ELSE "Prepared")
     /\ UNCHANGED ms_query

(* Prepare: the MSQueryES, if it is still there, becomes the RM's ES. *)
handle_prepare(n, q) ==
  \/ /\ rm[n].st = "None"
     /\ ms_query[n]
     /\ ms_query' = [ms_query EXCEPT ![n] = FALSE]
     /\ RMBecomes(n, q, [st |-> "WaitingInsertingPrepared", orig_tm |-> leader_map[n][TM]],
                  None, None)
  \/ /\ rm[n].st = "None"
     /\ ~ms_query[n]
     /\ RMSends(n, q, "Aborted")
     /\ UNCHANGED ms_query
  \/ /\ rm[n].st # "None"
     /\ IF rm[n].st = "Prepared" THEN RMSends(n, q, "Prepared") ELSE RMUnchanged(n, q)
     /\ UNCHANGED ms_query

handle_check_prepared(n, q) ==
  \/ /\ rm[n].st \in {"None", "Aborted"}
     /\ RMSends(n, q, "Aborted")
  \/ /\ rm[n].st \in Unprepared \cup {"InsertingPreparedAborted"}
     /\ RMSends(n, q, "Wait")
  \/ /\ rm[n].st \in {"Prepared", "InsertingCommitted", "InsertingAborted", "Committed"}
     /\ RMSends(n, q, "Prepared")

(* Mutant: a second Commit is persisted as well. *)
handle_commit_twice(n, q) ==
  IF rm[n].st \in {"Prepared", "InsertingCommitted"}
  THEN RMBecomes(n, q, InState("InsertingCommitted"), None, "Committed")
  ELSE RMUnchanged(n, q)

handle_commit(n, q) ==
  IF rm[n].st = "Prepared"
  THEN RMBecomes(n, q, InState("InsertingCommitted"), None, "Committed")
  ELSE RMUnchanged(n, q)

(* Mutant: exits although Prepared is being inserted. *)
handle_abort_exits(n, q) ==
  \/ /\ rm[n].st \in Unprepared
     /\ RMBecomes(n, q, InState("None"), None, None)
  \/ /\ rm[n].st = "Prepared"
     /\ RMBecomes(n, q, InState("InsertingAborted"), None, "Aborted")
  \/ /\ rm[n].st \notin Unprepared \cup {"Prepared"}
     /\ RMUnchanged(n, q)

handle_abort(n, q) ==
  \/ /\ rm[n].st = "WaitingInsertingPrepared"
     /\ RMBecomes(n, q, InState("None"), None, None)
  \/ /\ rm[n].st = "InsertingPrepared"
     /\ RMBecomes(n, q, InState("InsertingPreparedAborted"), None, None)
  \/ /\ rm[n].st = "Prepared"
     /\ RMBecomes(n, q, InState("InsertingAborted"), None, "Aborted")
  \/ /\ rm[n].st \notin Unprepared \cup {"Prepared"}
     /\ RMUnchanged(n, q)

handle_rm_msg(n, q, m) ==
  \/ /\ m.type = "Prepare"
     /\ handle_prepare(n, q)
  \/ /\ \/ m.type = "CheckPrepared" /\ handle_check_prepared(n, q)
        \/ m.type = "Commit" /\ handle_commit(n, q)
        \/ m.type = "Abort" /\ handle_abort(n, q)
     /\ UNCHANGED ms_query

(* The leader learns that its own PLm is in the log. *)
handle_prepared_plm(n, q) ==
  \/ /\ rm[n].st = "InsertingPrepared"
     /\ RMBecomes(n, q, InState("Prepared"),
                  IF rm[n].orig_tm # leader_map[n][TM] THEN "InformPrepared" ELSE "Prepared",
                  None)
  \/ /\ rm[n].st = "InsertingPreparedAborted"
     /\ RMBecomes(n, q, InState("InsertingAborted"), None, "Aborted")
  \/ /\ rm[n].st \notin {"InsertingPrepared", "InsertingPreparedAborted"}
     /\ RMUnchanged(n, q)

handle_committed_plm(n, q) ==
  IF rm[n].st = "InsertingCommitted"
  THEN RMBecomes(n, q, InState("Committed"), None, None)
  ELSE RMUnchanged(n, q)

handle_aborted_plm(n, q) ==
  IF rm[n].st = "InsertingAborted"
  THEN RMBecomes(n, q, InState("Aborted"), None, None)
  ELSE RMUnchanged(n, q)

handle_rm_plm(n, q, plm) ==
  \/ plm = "Prepared" /\ handle_prepared_plm(n, q)
  \/ plm = "Committed" /\ handle_committed_plm(n, q)
  \/ plm = "Aborted" /\ handle_aborted_plm(n, q)

(* Mutant: does not ask the new TM. *)
rm_remote_leader_changed_silent(n, q, g) ==
  /\ ms_query' = IF g = TM THEN [ms_query EXCEPT ![n] = FALSE] ELSE ms_query
  /\ RMUnchanged(n, q)

(* A new Leadership of the group of the TM: the MSQueryES is cleaned up,   *)
(* as the root of its query is gone, and a prepared RM asks the new TM.    *)
rm_remote_leader_changed(n, q, g) ==
  \/ /\ g = TM
     /\ ms_query' = [ms_query EXCEPT ![n] = FALSE]
     /\ IF rm[n].st = "Prepared" THEN RMSends(n, q, "InformPrepared") ELSE RMUnchanged(n, q)
  \/ /\ g # TM
     /\ RMUnchanged(n, q)
     /\ UNCHANGED ms_query

(* What a follower has replayed from the log (init_follower and the PLm    *)
(* handlers in state Follower).                                            *)
Replay(plms) ==
  CASE plms = <<>> -> "None"
    [] plms # <<>> /\ Last(plms) = "Prepared" -> "Follower"
    [] plms # <<>> /\ Last(plms) # "Prepared" -> Last(plms)

(* Mutant: the new leader presumes that the transaction was aborted. *)
leader_changed_presumes(n, q) ==
  LET replayed == Replay(log_plms[Gid(n)])
  IN IF replayed = "Follower"
     THEN RMBecomes(n, q, InState("InsertingAborted"), None, "Aborted")
     ELSE RMBecomes(n, q, InState(replayed), None, None)

(* leader_changed where the Leadership is gained. *)
leader_changed(n, q) ==
  LET replayed == Replay(log_plms[Gid(n)])
  IN IF replayed = "Follower"
     THEN RMBecomes(n, q, InState("Prepared"), "InformPrepared", None)
     ELSE RMBecomes(n, q, InState(replayed), None, None)

(* Mutant: takes it that Prepared, once proposed, is in the log. *)
reconfig_snapshot_early(es) ==
  CASE es.st \in {"Committed", "Aborted"} -> es.st
    [] es.st \in {"None", "WaitingInsertingPrepared"} -> "None"
    [] OTHER -> "Follower"

(* What leader_changed where the Leadership is lost, and reconfig_snapshot *)
(* for a node that joins the group, make of the ES.                        *)
reconfig_snapshot(es) ==
  CASE es.st \in {"Committed", "Aborted"} -> es.st
    [] es.st \in {"Prepared", "InsertingCommitted", "InsertingAborted"} -> "Follower"
    [] es.st \in Unprepared \cup {"InsertingPreparedAborted", "None"} -> "None"

(* The inputs of a leader of an RM. *)
HandleRMInput(n) ==
  \E in \in Inputs(n) :
    LET item == in.item
        q == in.queues
    IN
     /\ inbox' = [inbox EXCEPT ![n] = in.rest]
     /\ \/ /\ item.type = "LeaderChanged"
           /\ UNCHANGED <<leader_map, ms_query>>
           /\ leader_changed(n, q)
        \/ /\ item.type = "RemoteLeaderChanged"
           /\ leader_map' = [leader_map EXCEPT ![n] = RemoteLeaderChanged(@, item)]
           /\ IF leader_map' # leader_map
              THEN rm_remote_leader_changed(n, q, item.gid)
              ELSE RMUnchanged(n, q) /\ UNCHANGED ms_query
        \/ /\ item.type = "PLm"
           /\ UNCHANGED <<leader_map, ms_query>>
           /\ handle_rm_plm(n, q, item.plm)
        \/ /\ item.type = "Payload"
           /\ UNCHANGED leader_map
           /\ handle_rm_msg(n, q, item.payload)
     /\ UNCHANGED <<logVars, status, remote_leader_changes, tablet_bundles, next_insert,
                    network_buffer, tm, reply>>

(* The Tablet hands its bundle over, after start_inserting: an ES that     *)
(* waits adds its Prepared.  It does so once per bundle, when the one      *)
(* before has been processed.                                              *)
start_inserting(n) ==
  LET waiting == rm[n].st = "WaitingInsertingPrepared"
      bundle == tablet_bundle[n] \o (IF waiting THEN <<"Prepared">> ELSE <<>>)
  IN /\ status[n] = "leader"
     /\ tablet_bundles[n] = <<>>
     /\ next_insert[n] = NoInsert
     /\ bundle # <<>>
     /\ tablet_bundles' = [tablet_bundles EXCEPT ![n] = bundle]
     /\ tablet_bundle' = [tablet_bundle EXCEPT ![n] = <<>>]
     /\ rm' = IF waiting THEN [rm EXCEPT ![n].st = "InsertingPrepared"] ELSE rm
     /\ UNCHANGED <<logVars, status, leader_map, remote_leader_changes, next_insert,
                    network_buffer, chan, inbox, tm, ms_query, reply>>

(* Losing the Leadership: the TM's ES and the MSQueryES are winked away,   *)
(* and the RM's ES becomes that of a follower (see FollowersAgree).        *)
BecomeFollower(n) ==
  /\ LoseLeadership(n)
  /\ tm' = IF n \in TMNodes THEN [tm EXCEPT ![n] = NoTM] ELSE tm
  /\ rm' = IF n \in RMNodes THEN [rm EXCEPT ![n] = InState("None")] ELSE rm
  /\ ms_query' = IF n \in RMNodes THEN [ms_query EXCEPT ![n] = FALSE] ELSE ms_query
  /\ UNCHANGED reply
-----------------------------------------------------------------------------
Handle ==
  \/ \E n \in TMNodes : HandleTMInput(n)
  \/ \E n \in RMNodes : HandleRMInput(n)

(* What is always done in time; the rest may or may not happen. *)
Work ==
  \/ Handle
  \/ NetworkWork /\ UNCHANGED esVars
  \/ Quiet /\ \E n \in RMNodes : start_inserting(n)

(* Leader changes and gossip before start_orig make no difference: unless  *)
(* the TM knows of them, and does not start, they may as well come after.  *)
Event ==
  /\ reply # "none"
  /\ \/ Quiet /\ \E n \in Nodes : BecomeFollower(n)
     \/ NetworkEvent /\ UNCHANGED esVars

Next == (\E n \in TMNodes : start_orig(n)) \/ Work \/ Event

Spec == Init /\ [][Next]_vars

(* Messages are read from every queue, bundles are inserted, and gossip is *)
(* repeated until it is heard.  Leader changes need not happen.            *)
HandleFrom(e) ==
  /\ chan[e] # <<>>
  /\ Handle
  /\ chan'[e] = Tail(chan[e])

HandleForwarded ==
  /\ ~Quiet
  /\ \/ Handle
     \/ \E n \in Nodes : deliver_blocked_messages(n) /\ UNCHANGED esVars

Fairness ==
  /\ \A e \in Linked :
       /\ WF_vars(HandleFrom(e))
       /\ WF_vars(Quiet /\ Receive(e[2], e[1]) /\ UNCHANGED esVars)
       /\ WF_vars(Quiet /\ RemoteLeaderChangedGossip(e[2], e[1]) /\ UNCHANGED esVars)
  /\ WF_vars(HandleForwarded)
  /\ \A n \in Nodes :
       /\ WF_vars(Quiet /\ maybe_start_insert(n) /\ UNCHANGED esVars)
       /\ WF_vars(Quiet /\ process_bundle(n) /\ UNCHANGED esVars)
  /\ \A n \in RMNodes : WF_vars(Quiet /\ start_inserting(n))

LiveSpec == Spec /\ Fairness
-----------------------------------------------------------------------------
(* Properties *)

(* Types.  The log of every RM holds Prepared, then at most one of         *)
(* Committed and Aborted: the second Commit or Abort of a recovering TM,   *)
(* and one that races a leader change, adds nothing.                       *)
TypeOK ==
  /\ log_gen \in [Groups -> Gens]
  /\ leader_map \in [Nodes -> [Groups -> Gens]]
  /\ log_plms[TM] = <<>>
  /\ \A r \in RMs : log_plms[r] \in
       {<<>>, <<"Prepared">>, <<"Prepared", "Committed">>, <<"Prepared", "Aborted">>}
  /\ \A e \in Linked :
       Range(chan[e]) \subseteq (IF e[1] \in TMNodes THEN RMMessage ELSE TMMessage)
  /\ tm \in [TMNodes -> TMStates]
  /\ rm \in [RMNodes -> RMStates]
  /\ ms_query \in [RMNodes -> BOOLEAN]
  /\ reply \in {"none", "waiting", "committed", "retried"}

(* The ES that con.get_mut(..).unwrap() looks up in handle_rm_plm is there *)
(* and waits for this very PLm.                                            *)
PLmExpected ==
  \A n \in RMNodes :
    /\ inbox[n] # <<>>
    /\ Head(inbox[n]).type = "PLm"
    => rm[n].st \in CASE Head(inbox[n]).plm = "Prepared" ->
                           {"InsertingPrepared", "InsertingPreparedAborted"}
                      [] Head(inbox[n]).plm = "Committed" -> {"InsertingCommitted"}
                      [] Head(inbox[n]).plm = "Aborted" -> {"InsertingAborted"}

(* A leader that has processed all of the log holds exactly what a         *)
(* follower has replayed: losing the Leadership, or giving a snapshot to a *)
(* new node, neither loses a prepared transaction nor invents one.         *)
FollowersAgree ==
  \A n \in RMNodes :
    /\ Quiet
    /\ status[n] = "leader"
    /\ log_gen[Gid(n)] = Gen(n)
    /\ next_insert[n] = NoInsert
    => reconfig_snapshot(rm[n]) = Replay(log_plms[Gid(n)])

(* The client hears of success only once every RM is prepared for good,    *)
(* and its request is only started anew if no RM commits this attempt: no  *)
(* write is lost after it was confirmed, and none is done twice.           *)
ReplyIsOutcome ==
  \A r \in RMs :
    /\ reply = "committed" => log_plms[r] \in {<<"Prepared">>, <<"Prepared", "Committed">>}
    /\ reply = "retried" => log_plms[r] # <<"Prepared", "Committed">>

(* Together the RMs implement TransactionCommit: in particular, no RM      *)
(* persists Committed and another one Aborted, whichever TM decides.       *)
Outcome(plms) ==
  CASE Replay(plms) = "None" -> "working"
    [] Replay(plms) = "Follower" -> "prepared"
    [] Replay(plms) = "Committed" -> "committed"
    [] Replay(plms) = "Aborted" -> "aborted"

Abstract == INSTANCE TransactionCommit WITH outcome <- [r \in RMs |-> Outcome(log_plms[r])]

ImplementsTransactionCommit == Abstract!Spec

(* No RM stays prepared, and its region locked, for ever: whatever leaders *)
(* change, a TM is made to decide.                                         *)
PreparedIsResolved ==
  \A r \in RMs : (log_plms[r] = <<"Prepared">>) ~> (Len(log_plms[r]) = 2)
=============================================================================
