----------------------------- MODULE STMPaxos2PC -----------------------------
(***************************************************************************)
(* STMPaxos2PC (stmpaxos2pc_tm.rs, stmpaxos2pc_rm.rs), the commitment      *)
(* protocol of the DDL queries: the TM is an ES of the Master, which       *)
(* persists Prepared, then Committed or Aborted, then Closed, and resumes  *)
(* from there after a leader change; every RM is the DDLES of a Tablet.    *)
(* No RM of a DDL query refuses to prepare; those of the simulation in     *)
(* bin/paxos2pc_sim may.                                                   *)
(***************************************************************************)
EXTENDS NetworkDriver

CONSTANTS
  TM,        \* the group of the TM
  RMs,       \* the groups of the RMs
  MayAbort   \* the RMs that may answer Prepare with Aborted

ASSUME STMAssumption ==
  /\ TM \notin RMs
  /\ RMs # {}
  /\ Groups = RMs \cup {TM}
  /\ MayAbort \subseteq RMs
  /\ Links = ({TM} \X RMs) \cup (RMs \X {TM})

VARIABLES
  tm,     \* the ES of each leader of TM
  rm,     \* the ES of each leader of an RM
  reply   \* what the client has been told

esVars == <<tm, rm, reply>>
vars == <<netVars, esVars>>

TMNodes == {TM} \X Gens
RMNodes == RMs \X Gens

(* STMPaxos2PCTMOuter.  "None": there is no ES.  A query still in Start    *)
(* has done nothing that is seen here.  Of the inner ES, only whether the  *)
(* client still waits for this leader is kept.                             *)
Counting == {"Preparing", "Committed", "Aborted"}
Uncounted == {"WaitingInsertTMPrepared", "InsertTMPreparing", "InsertingTMCommitted",
              "InsertingTMAborted", "InsertingTMClosed"}
TMState(st, remaining, waits) ==
  [st |-> st, rms_remaining |-> remaining, response_data |-> waits]
NoTM == TMState("None", {}, FALSE)
TMStates ==
  {NoTM}
  \cup [st : Uncounted, rms_remaining : {{}}, response_data : BOOLEAN]
  \cup [st : Counting, rms_remaining : (SUBSET RMs) \ {{}}, response_data : BOOLEAN]

(* STMPaxos2PCRMOuter; again, "None" is no ES. *)
RMStates == {"None", "Working", "InsertingPrepared", "Prepared", "InsertingCommitted",
             "InsertingPreparedAborted", "InsertingAborted"}

PLms == {"Prepared", "Committed", "Aborted", "Closed"}
RMMessage == {"Prepare", "Commit", "Abort"}
TMMessage == {"Prepared", "Aborted", "Closed"}

Init ==
  /\ NetInit
  /\ tm = [n \in TMNodes |-> NoTM]
  /\ rm = [n \in RMNodes |-> "None"]
  /\ reply = "none"

ToRMs(rms, message) == [r \in rms |-> message]
-----------------------------------------------------------------------------
(* The TM.  A PLm is pushed to the bundle of the Master itself, which the  *)
(* next maybe_start_insert takes.                                          *)

TMBecomes(n, es) == tm' = [tm EXCEPT ![n] = es]
TMPushes(n, plm) == tablet_bundles' = [tablet_bundles EXCEPT ![n] = Append(@, plm)]

(* The query has passed run_main_loop. *)
Start(n) ==
  /\ status[n] = "leader"
  /\ reply = "none"
  /\ TMBecomes(n, TMState("WaitingInsertTMPrepared", {}, TRUE))
  /\ reply' = "waiting"
  /\ UNCHANGED <<netVars, rm>>

Cancels(n) ==
  /\ status[n] = "leader"
  /\ TMBecomes(n, NoTM)
  /\ reply' = "cancelled"
  /\ UNCHANGED <<netVars, rm>>

(* Mutant: a query that is being inserted is still cancelled. *)
CancelExternalDDLQuery_late(n) ==
  /\ tm[n].st \in {"WaitingInsertTMPrepared", "InsertTMPreparing"}
  /\ Cancels(n)

(* The client may withdraw a query that is not being inserted yet; after   *)
(* that, cancelling changes nothing.                                       *)
CancelExternalDDLQuery(n) ==
  /\ tm[n].st = "WaitingInsertTMPrepared"
  /\ Cancels(n)

(* The Master has processed a bundle and makes up the next one. *)
tm_start_inserting(n) ==
  /\ status[n] = "leader"
  /\ next_insert[n] = NoInsert
  /\ tm[n].st = "WaitingInsertTMPrepared"
  /\ TMPushes(n, "Prepared")
  /\ tm' = [tm EXCEPT ![n].st = "InsertTMPreparing"]
  /\ UNCHANGED <<logVars, status, leader_map, remote_leader_changes, tablet_bundle,
                 next_insert, network_buffer, chan, inbox, rm, reply>>

(* Mutant: the last RM's answer is not waited for.                         *)
TakeOff_last(n, r, plm, st) ==
  IF Cardinality(tm[n].rms_remaining \ {r}) < 2
  THEN /\ TMPushes(n, plm)
       /\ TMBecomes(n, [tm[n] EXCEPT !.st = st, !.rms_remaining = {}])
  ELSE /\ TMBecomes(n, [tm[n] EXCEPT !.rms_remaining = @ \ {r}])
       /\ UNCHANGED tablet_bundles

(* r has answered; when all have, push plm and go on to st. *)
TakeOff(n, r, plm, st) ==
  IF tm[n].rms_remaining = {r}
  THEN /\ TMPushes(n, plm)
       /\ TMBecomes(n, [tm[n] EXCEPT !.st = st, !.rms_remaining = {}])
  ELSE /\ TMBecomes(n, [tm[n] EXCEPT !.rms_remaining = @ \ {r}])
       /\ UNCHANGED tablet_bundles

TMUnchanged == UNCHANGED <<tm, tablet_bundles>>

(* handle_prepared, handle_aborted, handle_closed *)
handle_tm_msg(n, r, message) ==
  \/ /\ message = "Prepared"
     /\ IF tm[n].st = "Preparing"
        THEN TakeOff(n, r, "Committed", "InsertingTMCommitted")
        ELSE TMUnchanged
  \/ /\ message = "Aborted"
     /\ IF tm[n].st = "Preparing"
        THEN /\ TMPushes(n, "Aborted")
             /\ TMBecomes(n, [tm[n] EXCEPT !.st = "InsertingTMAborted", !.rms_remaining = {}])
        ELSE TMUnchanged
  \/ /\ message = "Closed"
     /\ IF tm[n].st \in {"Committed", "Aborted"}
        THEN TakeOff(n, r, "Closed", "InsertingTMClosed")
        ELSE TMUnchanged

(* handle_msg unwraps the ES that a message is for. *)
TMFails(n) == tm[n] = NoTM

(* The message of advance_to_prepared, _committed and _aborted. *)
Broadcast(st) ==
  CASE st = "Preparing" -> "Prepare"
    [] st = "Committed" -> "Commit"
    [] st = "Aborted" -> "Abort"

AdvanceTo(n, q, st, waits) ==
  /\ TMBecomes(n, TMState(st, RMs, waits))
  /\ chan' = Outgoing(n, q, ToRMs(RMs, Broadcast(st)))

(* handle_plm of the leader; committed_plm_inserted and                    *)
(* aborted_plm_inserted of the inner ES answer the client.                 *)
handle_tm_plm(n, q, plm) ==
  \/ /\ plm = "Prepared"
     /\ tm[n].st = "InsertTMPreparing"
     /\ AdvanceTo(n, q, "Preparing", tm[n].response_data)
     /\ UNCHANGED reply
  \/ /\ plm = "Committed"
     /\ tm[n].st = "InsertingTMCommitted"
     /\ AdvanceTo(n, q, "Committed", FALSE)
     /\ reply' = IF tm[n].response_data THEN "success" ELSE reply
  \/ /\ plm = "Aborted"
     /\ tm[n].st = "InsertingTMAborted"
     /\ AdvanceTo(n, q, "Aborted", FALSE)
     /\ reply' = IF tm[n].response_data THEN "aborted" ELSE reply
  \/ /\ plm = "Closed"
     /\ tm[n].st = "InsertingTMClosed"
     /\ TMBecomes(n, NoTM)
     /\ chan' = q
     /\ UNCHANGED reply

(* What a follower has replayed (FollowerState); Closed removes the ES. *)
TMReplay(plms) ==
  IF plms = <<>> \/ "Closed" \in Range(plms) THEN "None"
  ELSE IF Last(plms) = "Prepared" THEN "Preparing" ELSE Last(plms)

(* leader_changed where the Leadership is gained. *)
tm_leader_changed(n, q) ==
  LET replayed == TMReplay(log_plms[TM])
  IN IF replayed = "None"
     THEN chan' = q /\ UNCHANGED tm
     ELSE AdvanceTo(n, q, replayed, FALSE)

(* Mutant: nothing is sent again. *)
tm_remote_leader_changed_silent(n, q, g) == chan' = q

(* An RM that has not answered has a new leader: send again. *)
tm_remote_leader_changed(n, q, g) ==
  chan' = IF g \in tm[n].rms_remaining
          THEN Outgoing(n, q, ToRMs({g}, Broadcast(tm[n].st)))
          ELSE q

(* What leader_changed where the Leadership is lost, and reconfig_snapshot *)
(* make of the ES; follower is Committed or Aborted from that PLm on.      *)
tm_reconfig_snapshot(es) ==
  CASE es.st \in {"None", "WaitingInsertTMPrepared", "InsertTMPreparing"} -> {"None"}
    [] es.st \in {"Preparing", "InsertingTMCommitted", "InsertingTMAborted"} -> {"Preparing"}
    [] es.st \in {"Committed", "Aborted"} -> {es.st}
    [] es.st = "InsertingTMClosed" -> {"Committed", "Aborted"}

(* The inputs of a leader of TM. *)
HandleTMInput(n) ==
  \E in \in Inputs(n) :
    LET item == in.item
        q == in.queues
    IN
     /\ inbox' = [inbox EXCEPT ![n] = in.rest]
     /\ \/ /\ item.type = "LeaderChanged"
           /\ UNCHANGED <<leader_map, tablet_bundles, reply>>
           /\ tm_leader_changed(n, q)
        \/ /\ item.type = "RemoteLeaderChanged"
           /\ leader_map' = [leader_map EXCEPT ![n] = RemoteLeaderChanged(@, item)]
           /\ IF leader_map' # leader_map
              THEN tm_remote_leader_changed(n, q, item.gid)
              ELSE chan' = q
           /\ UNCHANGED <<tm, tablet_bundles, reply>>
        \/ /\ item.type = "PLm"
           /\ UNCHANGED <<leader_map, tablet_bundles>>
           /\ handle_tm_plm(n, q, item.plm)
        \/ /\ item.type = "Payload"
           /\ ~TMFails(n)
           /\ handle_tm_msg(n, item.from, item.payload)
           /\ chan' = q
           /\ UNCHANGED <<leader_map, reply>>
     /\ UNCHANGED <<logVars, status, remote_leader_changes, tablet_bundle, next_insert,
                    network_buffer, rm>>
-----------------------------------------------------------------------------
(* The RMs.  Each handler says what becomes of the ES of the leader n,     *)
(* which message it sends to the TM and which PLm it pushes, if any.       *)

Nothing == "nothing"

RMBecomes(n, q, st, message, plm) ==
  /\ rm' = [rm EXCEPT ![n] = st]
  /\ chan' = IF message = Nothing THEN q ELSE Outgoing(n, q, [h \in {TM} |-> message])
  /\ tablet_bundle' =
       IF plm = Nothing THEN tablet_bundle ELSE [tablet_bundle EXCEPT ![n] = Append(@, plm)]

RMSends(n, q, message) == RMBecomes(n, q, rm[n], message, Nothing)

(* Prepare: whatever happened before, no ES means a new one. *)
handle_prepare(n, q) ==
  IF rm[n] = "None"
  THEN RMBecomes(n, q, "Working", Nothing, Nothing)
  ELSE RMSends(n, q, IF rm[n] = "Prepared" THEN "Prepared" ELSE Nothing)

(* In the simulation, SlaveContext::handle_input refuses at random, before *)
(* the ES, which may well be there, is looked up.                          *)
RefusePrepare(n, q) ==
  /\ Gid(n) \in MayAbort
  /\ RMSends(n, q, "Aborted")

(* Mutant: Closed is sent while Committed is being inserted. *)
handle_commit_closes(n, q) ==
  \/ rm[n] = "None" /\ RMSends(n, q, "Closed")
  \/ rm[n] = "Prepared" /\ RMBecomes(n, q, "InsertingCommitted", "Closed", "Committed")

(* Commit: no ES means that all is done.  *)
handle_commit(n, q) ==
  \/ rm[n] = "None" /\ RMSends(n, q, "Closed")
  \/ rm[n] = "Prepared" /\ RMBecomes(n, q, "InsertingCommitted", Nothing, "Committed")

(* Mutant: an ES that is inserting Prepared exits, as one that is Working. *)
handle_abort_exits(n, q) ==
  \/ /\ rm[n] \in {"None", "Working", "InsertingPrepared"}
     /\ RMBecomes(n, q, "None", "Closed", Nothing)
  \/ rm[n] = "Prepared" /\ RMBecomes(n, q, "InsertingAborted", Nothing, "Aborted")

handle_abort(n, q) ==
  \/ rm[n] \in {"None", "Working"} /\ RMBecomes(n, q, "None", "Closed", Nothing)
  \/ /\ rm[n] = "InsertingPrepared"
     /\ RMBecomes(n, q, "InsertingPreparedAborted", Nothing, Nothing)
  \/ rm[n] = "Prepared" /\ RMBecomes(n, q, "InsertingAborted", Nothing, "Aborted")

(* In any other state, the two hit debug_assert!(false), which is compiled *)
(* in by every profile of Cargo.toml: an outcome that a new leader of the  *)
(* TM sends once more must not find this one still inserting it.           *)
RMFails(n, message) ==
  \/ message = "Commit" /\ rm[n] \notin {"None", "Prepared"}
  \/ message = "Abort" /\ rm[n] \notin {"None", "Working", "InsertingPrepared", "Prepared"}

handle_rm_msg(n, q, message) ==
  \/ message = "Prepare" /\ (handle_prepare(n, q) \/ RefusePrepare(n, q))
  \/ message = "Commit" /\ handle_commit(n, q)
  \/ message = "Abort" /\ handle_abort(n, q)

(* handle_prepared_plm, handle_committed_plm and handle_aborted_plm of the *)
(* leader that pushed the PLm.                                             *)
handle_rm_plm(n, q, plm) ==
  \/ /\ plm = "Prepared"
     /\ \/ /\ rm[n] = "InsertingPrepared"
           /\ RMBecomes(n, q, "Prepared", "Prepared", Nothing)
        \/ /\ rm[n] = "InsertingPreparedAborted"
           /\ RMBecomes(n, q, "InsertingAborted", Nothing, "Aborted")
  \/ /\ plm = "Committed"
     /\ rm[n] = "InsertingCommitted"
     /\ RMBecomes(n, q, "None", "Closed", Nothing)
  \/ /\ plm = "Aborted"
     /\ rm[n] = "InsertingAborted"
     /\ RMBecomes(n, q, "None", "Closed", Nothing)

(* What a follower has replayed: an ES in state Follower, or none. *)
RMReplay(plms) == IF plms # <<>> /\ Last(plms) = "Prepared" THEN "Follower" ELSE "None"

(* Mutant: the new leader forgets that it is prepared. *)
rm_leader_changed_forgets(n, q) == RMBecomes(n, q, "None", Nothing, Nothing)

(* leader_changed where the Leadership is gained; the TM is not told. *)
rm_leader_changed(n, q) ==
  RMBecomes(n, q, IF RMReplay(log_plms[Gid(n)]) = "Follower" THEN "Prepared" ELSE "None",
            Nothing, Nothing)

(* Mutant: takes it that Prepared, once proposed, is in the log. *)
rm_reconfig_snapshot_early(st) == IF st \in {"None", "Working"} THEN "None" ELSE "Follower"

(* What leader_changed where the Leadership is lost, and reconfig_snapshot *)
(* make of the ES.                                                         *)
rm_reconfig_snapshot(st) ==
  IF st \in {"Prepared", "InsertingCommitted", "InsertingAborted"} THEN "Follower" ELSE "None"

(* The inputs of a leader of an RM. *)
HandleRMInput(n) ==
  \E in \in Inputs(n) :
    LET item == in.item
        q == in.queues
    IN
     /\ inbox' = [inbox EXCEPT ![n] = in.rest]
     /\ leader_map' = IF item.type = "RemoteLeaderChanged"
                      THEN [leader_map EXCEPT ![n] = RemoteLeaderChanged(@, item)]
                      ELSE leader_map
     /\ \/ item.type = "LeaderChanged" /\ rm_leader_changed(n, q)
        \/ item.type = "RemoteLeaderChanged" /\ RMSends(n, q, Nothing)
        \/ item.type = "PLm" /\ handle_rm_plm(n, q, item.plm)
        \/ item.type = "Payload" /\ handle_rm_msg(n, q, item.payload)
     /\ UNCHANGED <<logVars, status, remote_leader_changes, tablet_bundles, next_insert,
                    network_buffer, tm, reply>>

(* The Tablet hands its bundle over, after start_inserting.  The inner ES  *)
(* of a Working one may be held up (pause_ddl) until a later bundle.       *)
rm_start_inserting(n) ==
  LET working == rm[n] = "Working"
      bundle == tablet_bundle[n] \o (IF working THEN <<"Prepared">> ELSE <<>>)
  IN /\ status[n] = "leader"
     /\ tablet_bundles[n] = <<>>
     /\ next_insert[n] = NoInsert
     /\ bundle # <<>>
     /\ tablet_bundles' = [tablet_bundles EXCEPT ![n] = bundle]
     /\ tablet_bundle' = [tablet_bundle EXCEPT ![n] = <<>>]
     /\ rm' = IF working THEN [rm EXCEPT ![n] = "InsertingPrepared"] ELSE rm
     /\ UNCHANGED <<logVars, status, leader_map, remote_leader_changes, next_insert,
                    network_buffer, chan, inbox, tm, reply>>

(* Losing the Leadership leaves the ES of a follower: see FollowersAgree.  *)
Forget(n) ==
  /\ tm' = IF n \in TMNodes THEN [tm EXCEPT ![n] = NoTM] ELSE tm
  /\ rm' = IF n \in RMNodes THEN [rm EXCEPT ![n] = "None"] ELSE rm
  /\ UNCHANGED reply

BecomeFollower(n) ==
  /\ LoseLeadership(n)
  /\ Forget(n)
-----------------------------------------------------------------------------
(* The thread that handles the message panics.  For the Master that is the *)
(* process; if it is a Tablet's, the Slave panics when it forwards the     *)
(* next message or bundle to it, and what it does until then it could have *)
(* done before.  All that the node holds is gone, and so is the end of     *)
(* what it has sent but not yet written to a connection.                   *)
Panic(n) ==
  /\ \E in \in Inputs(n) :
       /\ in.item.type = "Payload"
       /\ IF n \in TMNodes THEN TMFails(n) ELSE RMFails(n, in.item.payload)
  /\ status' = [status EXCEPT ![n] = "panicked"]
  /\ remote_leader_changes' = [remote_leader_changes EXCEPT ![n] = <<>>]
  /\ tablet_bundle' = [tablet_bundle EXCEPT ![n] = <<>>]
  /\ tablet_bundles' = [tablet_bundles EXCEPT ![n] = <<>>]
  /\ next_insert' = [next_insert EXCEPT ![n] = NoInsert]
  /\ network_buffer' = [network_buffer EXCEPT ![n] = [h \in Groups |-> EmptyBuffer]]
  /\ LET sent == {e \in Linked : e[1] = n}
     IN \E left \in [sent -> UNION {Prefixes(chan[e]) : e \in sent}] :
          /\ \A e \in sent : left[e] \in Prefixes(chan[e])
          /\ chan' = [e \in Linked |-> IF e[2] = n THEN <<>>
                                       ELSE IF e[1] = n THEN left[e] ELSE chan[e]]
  /\ inbox' = [inbox EXCEPT ![n] = <<>>]
  /\ Forget(n)
  /\ UNCHANGED <<logVars, leader_map>>

Handle ==
  \/ \E n \in TMNodes : HandleTMInput(n)
  \/ \E n \in RMNodes : HandleRMInput(n)
  \/ \E n \in Nodes : Panic(n)

Insert ==
  /\ Quiet
  /\ \/ \E n \in TMNodes : tm_start_inserting(n)
     \/ \E n \in RMNodes : rm_start_inserting(n)

(* Leader changes before Start make no difference to what follows. *)
Event ==
  /\ reply # "none"
  /\ \/ Quiet /\ \E n \in Nodes : BecomeFollower(n)
     \/ NetworkEvent /\ UNCHANGED esVars

Next ==
  \/ \E n \in TMNodes : Start(n) \/ CancelExternalDDLQuery(n)
  \/ Handle
  \/ Insert
  \/ NetworkWork /\ UNCHANGED esVars
  \/ Event

Spec == Init /\ [][Next]_vars

(* As for Paxos2PC: messages are read from every queue (or lost with the   *)
(* node), bundles are inserted, and gossip is repeated until it is heard.  *)
(* The other nodes of a group miss the heartbeats of a leader that         *)
(* panicked, and elect another one.                                        *)
HandleFrom(e) ==
  /\ chan[e] # <<>>
  /\ \/ e[2] \in TMNodes /\ HandleTMInput(e[2])
     \/ e[2] \in RMNodes /\ HandleRMInput(e[2])
     \/ Panic(e[2])
  /\ chan'[e] \in {Tail(chan[e]), <<>>}

TakeOver(g) ==
  /\ status[<<g, log_gen[g]>>] = "panicked"
  /\ Quiet
  /\ GainLeadership(g)
  /\ UNCHANGED esVars

HandleForwarded ==
  /\ ~Quiet
  /\ \/ Handle
     \/ \E n \in Nodes : deliver_blocked_messages(n) /\ UNCHANGED esVars

Fairness ==
  /\ \A e \in Linked :
       /\ WF_vars(HandleFrom(e))
       /\ WF_vars(Quiet /\ Receive(e[2], e[1]) /\ UNCHANGED esVars)
       /\ WF_vars(Quiet /\ RemoteLeaderChangedGossip(e[2], e[1]) /\ UNCHANGED esVars)
  /\ WF_vars(HandleForwarded)
  /\ \A n \in Nodes :
       /\ WF_vars(Quiet /\ maybe_start_insert(n) /\ UNCHANGED esVars)
       /\ WF_vars(Quiet /\ process_bundle(n) /\ UNCHANGED esVars)
  /\ \A g \in Groups : WF_vars(TakeOver(g))
  /\ \A n \in TMNodes : WF_vars(Quiet /\ tm_start_inserting(n))
  /\ \A n \in RMNodes : WF_vars(Quiet /\ rm_start_inserting(n))

LiveSpec == Spec /\ Fairness
-----------------------------------------------------------------------------
(* Properties *)

(* Types.  The log of an RM holds Prepared once, then one outcome at most: *)
(* a Prepare that is sent again never revives an ES that has exited.       *)
TypeOK ==
  /\ log_gen \in [Groups -> Gens]
  /\ leader_map \in [Nodes -> [Groups -> Gens]]
  /\ Range(log_plms[TM]) \subseteq PLms
  /\ \A r \in RMs : log_plms[r] \in
       {<<>>, <<"Prepared">>, <<"Prepared", "Committed">>, <<"Prepared", "Aborted">>}
  /\ \A e \in Linked :
       Range(chan[e]) \subseteq (IF e[1] \in TMNodes THEN RMMessage ELSE TMMessage)
  /\ tm \in [TMNodes -> TMStates]
  /\ rm \in [RMNodes -> RMStates]
  /\ reply \in {"none", "waiting", "success", "aborted", "cancelled"}

(* A PLm is only handled by an ES that waits for it: what the unwraps of   *)
(* handle_plm and handle_rm_plm and the debug_assert!(false) of the PLm    *)
(* handlers stand for.                                                     *)
PLmExpected ==
  \A n \in Nodes :
    /\ inbox[n] # <<>>
    /\ Head(inbox[n]).type = "PLm"
    => LET plm == Head(inbox[n]).plm
       IN IF n \in TMNodes
          THEN tm[n].st = CASE plm = "Prepared" -> "InsertTMPreparing"
                            [] plm = "Committed" -> "InsertingTMCommitted"
                            [] plm = "Aborted" -> "InsertingTMAborted"
                            [] plm = "Closed" -> "InsertingTMClosed"
          ELSE rm[n] \in CASE plm = "Prepared" ->
                                {"InsertingPrepared", "InsertingPreparedAborted"}
                           [] plm = "Committed" -> {"InsertingCommitted"}
                           [] plm = "Aborted" -> {"InsertingAborted"}

(* A leader that has processed all of the log holds what a follower has    *)
(* replayed, so that losing the Leadership, or a snapshot for a new node,  *)
(* neither loses a query nor invents one.                                  *)
FollowersAgree ==
  \A n \in Nodes :
    /\ Quiet
    /\ status[n] = "leader"
    /\ log_gen[Gid(n)] = Gen(n)
    /\ next_insert[n] = NoInsert
    => IF n \in TMNodes
       THEN TMReplay(log_plms[TM]) \in tm_reconfig_snapshot(tm[n])
       ELSE rm_reconfig_snapshot(rm[n]) = RMReplay(log_plms[Gid(n)])

(* Once the TM has persisted Closed and forgotten the query, every RM has  *)
(* persisted the outcome, or never was prepared for a query that aborted:  *)
(* no RM is left behind with a query that nobody will ever resolve.        *)
ClosedMeansResolved ==
  LET log == log_plms[TM]
  IN "Closed" \in Range(log) =>
       \A r \in RMs :
         IF log[2] = "Committed"
         THEN log_plms[r] = <<"Prepared", "Committed">>
         ELSE log_plms[r] \in {<<>>, <<"Prepared", "Aborted">>}

(* What the client is told holds for good: no query that was cancelled is  *)
(* ever persisted, whoever leads the Master, and one that succeeded or was *)
(* aborted has that outcome in the log.                                    *)
ReplyIsOutcome ==
  LET log == log_plms[TM]
  IN /\ reply = "cancelled" => log = <<>>
     /\ reply = "success" => Len(log) > 1 /\ log[2] = "Committed"
     /\ reply = "aborted" => Len(log) > 1 /\ log[2] = "Aborted"

(* "We can `unwrap` here because in order for the ES to disappear, all     *)
(* `Closed` messages must arrive, meaning all Prepared messages sent back  *)
(* to the TM must also arrive before": no Prepared or Aborted comes to a   *)
(* TM without the ES.                                                      *)
AnswerFindsES ==
  \A n \in TMNodes : \A in \in Inputs(n) :
    in.item.type = "Payload" /\ in.item.payload # "Closed" => tm[n] # NoTM

(* The handlers of inputs, and of PLms, find the ES that they unwrap.       *)
UnwrapsFindES == PLmExpected /\ AnswerFindsES

(* The same for Closed, whose ES is unwrapped as well: all Closed messages *)
(* arrive before the ES disappears.                                        *)
ClosedFindsES ==
  \A n \in TMNodes : \A in \in Inputs(n) :
    in.item.type = "Payload" /\ in.item.payload = "Closed" => tm[n] # NoTM

(* The RMs implement TransactionCommit, as those of Paxos2PC do. *)
Outcome(plms) ==
  CASE plms = <<>> -> "working"
    [] plms # <<>> /\ Last(plms) = "Prepared" -> "prepared"
    [] plms # <<>> /\ Last(plms) = "Committed" -> "committed"
    [] plms # <<>> /\ Last(plms) = "Aborted" -> "aborted"

Abstract == INSTANCE TransactionCommit WITH outcome <- [r \in RMs |-> Outcome(log_plms[r])]

ImplementsTransactionCommit == Abstract!Spec

(* A query that the TM has persisted is closed in the end, however leaders *)
(* change: DDL queries do not block a table for ever.                      *)
PreparedIsClosed == (log_plms[TM] # <<>>) ~> ("Closed" \in Range(log_plms[TM]))
=============================================================================
