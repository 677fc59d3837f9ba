------------------------ MODULE STMPaxos2PCProofs ------------------------
(***************************************************************************)
(* The proof that STMPaxos2PC implements TransactionCommit, and of its     *)
(* invariants, for any number of RMs, leader changes and generations.      *)
(*                                                                         *)
(* Every message, state of an ES and log entry is tied to facts that, once *)
(* true, stay true: leaders of an RM from some generation on know that it  *)
(* is prepared (PreparedFrom), are not asked to prepare (Unasked, Settled) *)
(* or are done for good (Over); leaders of the TM from some generation on  *)
(* know the outcome (Late).                                                *)
(***************************************************************************)
EXTENDS STMPaxos2PC, NetworkDriverProofs

Messages == RMMessage \cup TMMessage

(* What a TM and an RM send while the outcome is open, and after that. *)
Asks == {"Prepare", "Prepared", "Aborted"}
Ends == {"Commit", "Abort", "Closed"}
-----------------------------------------------------------------------------
(* The network *)

IsChange(item) == item.type = "RemoteLeaderChanged"

(* Whatever n knows of g, or is about to, is of generation k at most. *)
Within(n, g, k) ==
  /\ leader_map[n][g] =< k
  /\ \A c \in Range(next_insert[n].rlcs) : c.gid = g => c.gen =< k
  /\ \A c \in Range(inbox[n]) : IsChange(c) /\ c.gid = g => c.gen =< k

IsCurrent(n) == status[n] = "leader" /\ log_gen[Gid(n)] = Gen(n)

(* What a leader knows is in its log, and what a deposed leader knows the  *)
(* one after it knows as well.                                             *)
LagInv == \A n \in Nodes, g \in Groups : Within(n, g, log_leader_map[Gid(n)][g])

MonotoneInv ==
  \A n, o \in Nodes :
    IsCurrent(n) /\ status[o] = "leader" /\ Gid(o) = Gid(n) /\ o # n =>
      \A g \in Groups : Within(o, g, leader_map[n][g])

(* Inputs are handled in one go. *)
BusyInv == \A n, o \in Nodes : inbox[n] # <<>> /\ inbox[o] # <<>> => n = o

(* Nothing has been sent to the node n. *)
Unheard(n) ==
  /\ \A g \in Groups : network_buffer[n][g].payloads = <<>>
  /\ \A e \in Linked : e[2] = n => chan[e] = <<>>

(* A new leader starts from its log. *)
ElectedInv ==
  \A n \in Nodes : inbox[n] = <<LC>> => leader_map[n] = log_leader_map[Gid(n)] /\ Unheard(n)

(* Nothing is sent to a node that does not lead, and one that is not       *)
(* elected yet has sent nothing.                                           *)
SilentInv ==
  /\ \A n \in Nodes : status[n] # "none" => Gen(n) =< log_gen[Gid(n)]
  /\ \A n \in Nodes : status[n] # "leader" => Unheard(n)
  /\ \A e \in Linked : chan[e] # <<>> => Gen(e[1]) =< log_gen[Gid(e[1])]
  /\ \A n \in Nodes, g \in Groups : network_buffer[n][g].payloads # <<>> =>
       network_buffer[n][g].gen =< log_gen[g]
  /\ \A g, h \in Groups : log_leader_map[g][h] =< log_gen[h]
  /\ \A n \in Nodes : \A c \in Range(remote_leader_changes[n]) : c.gen =< log_gen[c.gid]

(* Messages that were held back are let go when all changes of the bundle  *)
(* have been handled, and all at once.                                     *)
LetGoInv ==
  \A n \in Nodes : \A i \in DOMAIN inbox[n] : inbox[n][i].type = "Payload" =>
    /\ \A j \in DOMAIN inbox[n] : ~IsChange(inbox[n][j])
    /\ network_buffer[n][inbox[n][i].from].payloads = <<>>

ForwardInv ==
  \A n \in Nodes : \A i, j \in DOMAIN inbox[n] :
    i < j /\ IsChange(inbox[n][j]) => IsChange(inbox[n][i])

NetworkInv ==
  /\ NetInv(Messages, PLms)
  /\ LagInv
  /\ MonotoneInv
  /\ BusyInv
  /\ ElectedInv
  /\ SilentInv
  /\ LetGoInv
  /\ ForwardInv

(* The node s has sent p to n, which has not handled or dropped it. *)
From(s, n, p) ==
  \/ p \in Range(chan[<<s, n>>])
  \/ /\ network_buffer[n][Gid(s)].gen = Gen(s)
     /\ p \in Range(network_buffer[n][Gid(s)].payloads)
  \/ /\ leader_map[n][Gid(s)] = Gen(s)
     /\ Payload(Gid(s), p) \in Range(inbox[n])

(* Nothing of Asks is behind something of Ends. *)
Sorted(ps) == \A i, j \in DOMAIN ps : i < j /\ ps[i] \in Ends => ps[j] \notin Asks

InOrder(s, n) ==
  LET buffer == network_buffer[n][Gid(s)]
      Held(A) == buffer.gen = Gen(s) /\ Range(buffer.payloads) \cap A # {}
      LetGo(A) == /\ leader_map[n][Gid(s)] = Gen(s)
                  /\ \E p \in A : Payload(Gid(s), p) \in Range(inbox[n])
  IN /\ Sorted(chan[<<s, n>>])
     /\ Sorted(buffer.payloads)
     /\ \A i, j \in DOMAIN inbox[n] : \A p \in Ends, q \in Asks :
          i < j /\ inbox[n][i] = Payload(Gid(s), p) => inbox[n][j] # Payload(Gid(s), q)
     /\ Held(Ends) \/ LetGo(Ends) => Range(chan[<<s, n>>]) \cap Asks = {}

FifoInv == \A e \in Linked : InOrder(e[1], e[2])
-----------------------------------------------------------------------------
(* The PLm that a leader waits for; there is at most one at a time. *)

TMInserting(st) ==
  CASE st = "InsertTMPreparing" -> "Prepared"
    [] st = "InsertingTMCommitted" -> "Committed"
    [] st = "InsertingTMAborted" -> "Aborted"
    [] st = "InsertingTMClosed" -> "Closed"
    [] OTHER -> Nothing

RMInserting(st) ==
  CASE st \in {"InsertingPrepared", "InsertingPreparedAborted"} -> "Prepared"
    [] st = "InsertingCommitted" -> "Committed"
    [] st = "InsertingAborted" -> "Aborted"
    [] OTHER -> Nothing

Waits(n) == IF n \in TMNodes THEN TMInserting(tm[n].st) ELSE RMInserting(rm[n])

(* A leader that waits for a PLm has nothing left to insert: it is in the  *)
(* log.                                                                    *)
Stored(n) == tablet_bundle[n] = <<>> /\ tablet_bundles[n] = <<>>

NothingPending(n) ==
  /\ Stored(n)
  /\ next_insert[n].plms = <<>>
  /\ NoPLm(inbox[n])

Gathered(n, x) ==
  /\ \/ tablet_bundle[n] = <<x>> /\ tablet_bundles[n] = <<>> /\ n \notin TMNodes
     \/ tablet_bundle[n] = <<>> /\ tablet_bundles[n] = <<x>>
  /\ next_insert[n].plms = <<>>
  /\ NoPLm(inbox[n])

Persisted(n, x) ==
  /\ Stored(n)
  /\ \/ next_insert[n].plms = <<x>> /\ NoPLm(inbox[n])
     \/ next_insert[n].plms = <<>> /\ OnePLm(inbox[n], x)

Pipeline(n) ==
  LET x == Waits(n)
  IN IF x = Nothing THEN NothingPending(n) ELSE Gathered(n, x) \/ Persisted(n, x)

PipelineInv == \A n \in Nodes : Pipeline(n)
-----------------------------------------------------------------------------
(* The logs *)

Asked == log_plms[TM] # <<>>

Decision ==
  IF log_plms[TM] \in {<<"Prepared", "Committed">>, <<"Prepared", "Committed", "Closed">>}
  THEN "Committed"
  ELSE IF log_plms[TM] \in {<<"Prepared", "Aborted">>, <<"Prepared", "Aborted", "Closed">>}
  THEN "Aborted"
  ELSE Nothing

IsClosed ==
  log_plms[TM] \in {<<"Prepared", "Committed", "Closed">>, <<"Prepared", "Aborted", "Closed">>}

HasPrepared(r) == log_plms[r] # <<>>
HasOutcome(r) == log_plms[r] \in {<<"Prepared", "Committed">>, <<"Prepared", "Aborted">>}

Active(n) == status[n] = "leader" /\ inbox[n] # <<LC>>

(* A leader of the TM that does not know the outcome, and one that does. *)
Undecided(t) ==
  \/ tm[t].st \in {"WaitingInsertTMPrepared", "InsertTMPreparing", "Preparing"}
  \/ tm[t].st \in {"InsertingTMCommitted", "InsertingTMAborted"} /\ ~Stored(t)

Decided(t) ==
  \/ tm[t].st \in {"Committed", "Aborted", "InsertingTMClosed"}
  \/ tm[t].st \in {"InsertingTMCommitted", "InsertingTMAborted"} /\ Stored(t)

(* What the state of a leader of the TM says of the log, and what it says  *)
(* if the log has not deposed it.                                          *)
TMAgrees(t) ==
  LET st == tm[t].st
  IN /\ st = "None" => ~Asked \/ IsClosed
     /\ st \in {"WaitingInsertTMPrepared", "InsertTMPreparing"} => Gen(t) = 0
     /\ st = "WaitingInsertTMPrepared" => ~Asked
     /\ st = "InsertTMPreparing" => (Asked <=> Stored(t))
     /\ st \in Counting \cup {"InsertingTMCommitted", "InsertingTMAborted", "InsertingTMClosed"} => Asked
     /\ st = "Committed" => Decision = "Committed"
     /\ st = "Aborted" => Decision = "Aborted"
     /\ st = "InsertingTMCommitted" /\ Stored(t) => Decision = "Committed"
     /\ st = "InsertingTMAborted" /\ Stored(t) => Decision = "Aborted"
     /\ st = "InsertingTMClosed" => Decision # Nothing
     /\ st = "InsertingTMClosed" /\ Stored(t) => IsClosed

TMCurrent(t) ==
  /\ Undecided(t) => Decision = Nothing
  /\ Decided(t) /\ ~(tm[t].st = "InsertingTMClosed" /\ Stored(t)) => ~IsClosed

TMLog(t) ==
  IF Active(t)
  THEN TMAgrees(t) /\ (IsCurrent(t) => TMCurrent(t))
  ELSE tm[t] = NoTM

TMLogInv ==
  /\ log_plms[TM] \in {<<>>, <<"Prepared">>,
                       <<"Prepared", "Committed">>, <<"Prepared", "Committed", "Closed">>,
                       <<"Prepared", "Aborted">>, <<"Prepared", "Aborted", "Closed">>}
  /\ \A t \in TMNodes : TMLog(t)

(* The client. *)
ReplyInv ==
  /\ reply = "none" => NetInit /\ tm = [n \in TMNodes |-> NoTM] /\ rm = [n \in RMNodes |-> "None"]
  /\ reply = "cancelled" => ~Asked /\ \A t \in TMNodes : tm[t] = NoTM
  /\ reply = "success" => Decision = "Committed"
  /\ reply = "aborted" => Decision = "Aborted"
-----------------------------------------------------------------------------
(* Facts that stay true *)

(* A leader that does not know that its RM is prepared. *)
Unprepared(m) ==
  \/ rm[m] \in {"None", "Working"}
  \/ rm[m] \in {"InsertingPrepared", "InsertingPreparedAborted"} /\ ~Stored(m)

(* The RM r is prepared, and its leaders from generation k on know of it   *)
(* as long as it matters.                                                  *)
PreparedFrom(r, k) ==
  /\ HasPrepared(r)
  /\ \A m \in RMNodes :
       Gid(m) = r /\ Gen(m) >= k /\ Active(m) /\ Unprepared(m) => HasOutcome(r)

(* No leader of r after generation k is asked to prepare. *)
Unasked(r, k) ==
  /\ \A m \in RMNodes : Gid(m) = r /\ Gen(m) > k =>
       /\ rm[m] \notin {"Working", "InsertingPrepared", "InsertingPreparedAborted"}
       /\ \A t \in TMNodes : ~From(t, m, "Prepare")
       /\ \A t \in TMNodes : ~From(m, t, "Prepared") /\ ~From(m, t, "Aborted")
  /\ HasPrepared(r) => PreparedFrom(r, k)

(* And there will never be one. *)
Settled(r, k) ==
  /\ Decision # Nothing
  /\ Unasked(r, k)
  /\ \A t \in TMNodes : Undecided(t) => Within(t, r, k)

(* The leaders of the TM from generation k on know the outcome. *)
Late(k) ==
  /\ Decision # Nothing
  /\ \A t \in TMNodes :
       /\ Gen(t) >= k => ~Undecided(t)
       /\ Gen(t) > k => \A m \in RMNodes : ~From(t, m, "Prepare")

(* The leader m of an RM is never asked to prepare again. *)
Deaf(m) ==
  /\ Late(leader_map[m][TM])
  /\ ~From(<<TM, leader_map[m][TM]>>, m, "Prepare")

Resolved(r) ==
  /\ Decision = "Committed" => log_plms[r] = <<"Prepared", "Committed">>
  /\ Decision = "Aborted" => log_plms[r] \in {<<>>, <<"Prepared", "Aborted">>}

(* The leader of generation k was the last one to do anything. *)
Finished(m) ==
  /\ Active(m)
  /\ rm[m] = "None" \/ (rm[m] \in {"InsertingCommitted", "InsertingAborted"} /\ Stored(m))
  /\ Deaf(m)

Over(r, k) ==
  /\ k =< log_gen[r]
  /\ Settled(r, k)
  /\ Resolved(r)
  /\ status[<<r, k>>] = "leader" => Finished(<<r, k>>)

(* The leader t of the TM has heard the last of r. *)
Mute(t, r) ==
  \E k \in Gens :
    /\ k =< leader_map[t][r]
    /\ Over(r, k)
    /\ \A m \in RMNodes : Gid(m) = r /\ Gen(m) >= k =>
         ~From(m, t, "Prepared") /\ ~From(m, t, "Aborted")
-----------------------------------------------------------------------------
(* What they follow from *)

AskedInv ==
  \A r \in RMs :
    /\ Unasked(r, log_leader_map[TM][r])
    /\ \A t \in TMNodes : IsCurrent(t) => Unasked(r, leader_map[t][r])
    /\ \A t \in TMNodes : Decided(t) => Settled(r, leader_map[t][r])
    /\ Decision # Nothing => Settled(r, log_leader_map[TM][r])

LateInv == \A t \in TMNodes : Decided(t) => Late(Gen(t))

RMMessageInv ==
  \A t \in TMNodes, m \in RMNodes :
    /\ From(t, m, "Prepare") => Asked
    /\ From(t, m, "Commit") => Decision = "Committed" /\ PreparedFrom(Gid(m), Gen(m))
    /\ From(t, m, "Abort") => Decision = "Aborted"
    /\ From(t, m, "Commit") \/ From(t, m, "Abort") => Settled(Gid(m), Gen(m)) /\ Late(Gen(t))

TMMessageInv ==
  \A t \in TMNodes, m \in RMNodes :
    /\ From(m, t, "Prepared") => Asked /\ PreparedFrom(Gid(m), Gen(m))
    /\ From(m, t, "Aborted") => Asked
    /\ From(m, t, "Closed") => Over(Gid(m), Gen(m))

(* The leader that the log knows holds what is in it. *)
RMCurrent(m) ==
  LET plms == log_plms[Gid(m)]
      P == <<"Prepared">>
  IN /\ rm[m] = "None" => plms # P
     /\ rm[m] = "Working" => plms = <<>>
     /\ rm[m] \in {"InsertingPrepared", "InsertingPreparedAborted"} =>
          plms = IF Stored(m) THEN P ELSE <<>>
     /\ rm[m] = "Prepared" => plms = P
     /\ rm[m] = "InsertingCommitted" =>
          plms = IF Stored(m) THEN <<"Prepared", "Committed">> ELSE P
     /\ rm[m] = "InsertingAborted" =>
          plms = IF Stored(m) THEN <<"Prepared", "Aborted">> ELSE P

RMStateInv ==
  \A m \in RMNodes :
    IF Active(m)
    THEN /\ rm[m] # "None" => Asked
         /\ ~Unprepared(m) => PreparedFrom(Gid(m), Gen(m))
         /\ rm[m] = "InsertingCommitted" => Decision = "Committed"
         /\ rm[m] \in {"InsertingPreparedAborted", "InsertingAborted"} => Decision = "Aborted"
         /\ rm[m] \in {"InsertingPreparedAborted", "InsertingCommitted", "InsertingAborted"} =>
              Settled(Gid(m), Gen(m)) /\ Deaf(m)
         /\ rm[m] \in {"InsertingCommitted", "InsertingAborted"} /\ Stored(m) =>
              Over(Gid(m), Gen(m))
         /\ IsCurrent(m) => RMCurrent(m)
    ELSE rm[m] = "None"

RMLogInv ==
  \A r \in RMs :
    /\ log_plms[r] \in {<<>>, <<"Prepared">>, <<"Prepared", "Committed">>, <<"Prepared", "Aborted">>}
    /\ HasPrepared(r) => Asked
    /\ HasOutcome(r) => \E k \in Gens : Over(r, k)

TMStateInv ==
  /\ \A t \in TMNodes, r \in RMs :
       /\ tm[t].st = "Preparing" /\ r \notin tm[t].rms_remaining => PreparedFrom(r, leader_map[t][r])
       /\ tm[t].st \in {"InsertingTMCommitted", "Committed"} => PreparedFrom(r, leader_map[t][r])
       /\ tm[t].st \in {"Committed", "Aborted"} /\ r \notin tm[t].rms_remaining => Mute(t, r)
       /\ tm[t].st = "InsertingTMClosed" => Mute(t, r)
       /\ Active(t) /\ tm[t] = NoTM /\ Asked => Mute(t, r)
  /\ \A r \in RMs :
       /\ Decision = "Committed" => PreparedFrom(r, log_leader_map[TM][r])
       /\ IsClosed => \E k \in Gens : k =< log_leader_map[TM][r] /\ Over(r, k)

StateTypes ==
  /\ tm \in [TMNodes -> TMStates]
  /\ rm \in [RMNodes -> RMStates]
  /\ reply \in {"none", "waiting", "success", "aborted", "cancelled"}
  /\ \A e \in Linked : \A p \in Messages :
       From(e[1], e[2], p) => p \in (IF e[1] \in TMNodes THEN RMMessage ELSE TMMessage)
-----------------------------------------------------------------------------
(* What a step does *)

Tentative == {"Working", "InsertingPrepared", "InsertingPreparedAborted"}
Resolving == {"InsertingCommitted", "InsertingAborted"}

(* The leader that m knows of the TM has asked it to prepare. *)
IsAsked(m) == From(<<TM, leader_map[m][TM]>>, m, "Prepare")

New(s, n, p) == ~From(s, n, p) /\ From(s, n, p)'

(* The PLm of the leader m enters the log of its RM. *)
Inserts(m) ==
  /\ IsCurrent(m) /\ IsCurrent(m)'
  /\ Active(m) /\ Active(m)'
  /\ rm' = rm
  /\ RMInserting(rm[m]) # Nothing
  /\ ~Stored(m) /\ Stored(m)'
  /\ log_plms' = [log_plms EXCEPT ![Gid(m)] = Append(@, RMInserting(rm[m]))]

LogStep ==
  /\ Decision # Nothing => Decision' = Decision
  /\ Asked => Asked'
  /\ \A g \in Groups : log_gen[g] =< log_gen'[g]
  /\ \A g, h \in Groups : log_leader_map[g][h] =< log_leader_map'[g][h]
  /\ \A r \in RMs : log_plms'[r] # log_plms[r] =>
       \E m \in RMNodes : Gid(m) = r /\ Inserts(m)
  /\ \A r \in RMs :
       /\ Decision' = "Committed" => PreparedFrom(r, log_leader_map[TM][r])
       /\ IsClosed' => \E k \in Gens : k =< log_leader_map[TM][r] /\ Over(r, k)

LeaderStep ==
  /\ \A n \in Nodes :
       /\ status'[n] = "leader" => status[n] = "leader" \/ Gen(n) > log_gen[Gid(n)]
       /\ Active(n)' => status[n] = "leader"
       /\ status[n] = "leader" /\ status'[n] = "leader" =>
            /\ \A g \in Groups : leader_map[n][g] =< leader_map'[n][g]
            /\ Active(n) => Active(n)'
  /\ \A t \in TMNodes :
       IsCurrent(t)' => IsCurrent(t) \/ leader_map'[t] = log_leader_map'[TM]

RMStep(m) ==
  /\ Active(m)' /\ Unprepared(m)' =>
       (Active(m) /\ Unprepared(m)) \/ HasOutcome(Gid(m)) \/ ~HasPrepared(Gid(m))
  /\ rm'[m] \in Tentative => rm[m] \in Tentative \/ \E t \in TMNodes : From(t, m, "Prepare")
  /\ Active(m)' /\ rm'[m] # "None" => Asked
  /\ Active(m) /\ status'[m] = "leader" =>
       /\ rm[m] = "None" => rm'[m] = "None" \/ IsAsked(m)
       /\ rm[m] \in Resolving /\ Stored(m) => rm'[m] = "None" \/ (rm'[m] \in Resolving /\ Stored(m)')
  /\ Active(m)' /\ ~Unprepared(m)' => (Active(m) /\ ~Unprepared(m)) \/ IsCurrent(m)'
  /\ Active(m)' /\ rm'[m] \in {"InsertingPreparedAborted", "InsertingCommitted", "InsertingAborted"} =>
       /\ Active(m) /\ Settled(Gid(m), Gen(m)) /\ Deaf(m)
       /\ Decision = IF rm'[m] = "InsertingCommitted" THEN "Committed" ELSE "Aborted"
  /\ Active(m)' /\ rm'[m] \in Resolving /\ Stored(m)' =>
       (Active(m) /\ rm[m] \in Resolving /\ Stored(m)) \/ IsCurrent(m)'
  /\ Active(m)' /\ IsCurrent(m)' => RMCurrent(m)'
  /\ ~Active(m)' => rm'[m] = "None"

TMStep(t) ==
  /\ Decision # Nothing /\ Undecided(t)' =>
       Undecided(t) /\ \A g \in Groups, k \in Gens : Within(t, g, k) => Within(t, g, k)'
  /\ Decided(t)' => Decided(t) \/ IsCurrent(t)'
  /\ \A r \in RMs :
       /\ tm'[t].st = "Preparing" /\ r \notin tm'[t].rms_remaining => PreparedFrom(r, leader_map[t][r])
       /\ tm'[t].st \in {"InsertingTMCommitted", "Committed"} => PreparedFrom(r, leader_map[t][r])
       /\ tm'[t].st \in {"Committed", "Aborted"} /\ r \notin tm'[t].rms_remaining => Mute(t, r)
       /\ tm'[t].st = "InsertingTMClosed" => Mute(t, r)
       /\ Active(t)' /\ tm'[t] = NoTM /\ Asked' => Mute(t, r)

MessageStep(t, m) ==
  /\ \A x \in {<<"Prepare", "Preparing">>, <<"Commit", "Committed">>, <<"Abort", "Aborted">>} :
       New(t, m, x[1]) => /\ Active(t)' /\ tm'[t].st = x[2]
                          /\ Gen(m) = leader_map'[t][Gid(m)]
  /\ New(m, t, "Prepared") \/ New(m, t, "Aborted") =>
       Active(m) /\ (rm[m] \in Tentative \/ IsAsked(m))
  /\ New(m, t, "Prepared") => Active(m)' /\ rm'[m] = "Prepared"
  /\ New(m, t, "Closed") =>
       /\ Active(m) /\ Active(m)' /\ rm'[m] = "None"
       /\ Settled(Gid(m), Gen(m)) /\ Resolved(Gid(m)) /\ Deaf(m)
       /\ UNCHANGED log_plms

Step ==
  /\ LogStep
  /\ LeaderStep
  /\ \A m \in RMNodes : RMStep(m)
  /\ \A t \in TMNodes : TMStep(t)
  /\ \A t \in TMNodes, m \in RMNodes : MessageStep(t, m)
-----------------------------------------------------------------------------
(* Generations are natural numbers. *)
LEMMA GensNat == Gens \subseteq Nat
BY NetworkAssumption DEF Gens

(* What the types say of the variables that are reasoned about below. *)
LEMMA TypeFacts ==
  ASSUME NetInv(Messages, PLms)
  PROVE  /\ log_gen \in [Groups -> Nat]
         /\ log_leader_map \in [Groups -> [Groups -> Nat]]
         /\ log_plms \in [Groups -> Seq(PLms)]
         /\ leader_map \in [Nodes -> [Groups -> Nat]]
         /\ status \in [Nodes -> {"none", "leader", "retired", "panicked"}]
         /\ remote_leader_changes \in [Nodes -> Seq(RLCs)]
         /\ tablet_bundle \in [Nodes -> Seq(PLms)]
         /\ tablet_bundles \in [Nodes -> Seq(PLms)]
         /\ \A n \in Nodes : next_insert[n].rlcs \in Seq(RLCs) /\ next_insert[n].plms \in Seq(PLms)
         /\ \A n \in Nodes, g \in Groups : /\ network_buffer[n][g] \in Buffers(Messages)
                                           /\ network_buffer[n][g].gen \in Nat
                                           /\ network_buffer[n][g].payloads \in Seq(Messages)
         /\ chan \in [Linked -> Seq(Messages)]
         /\ inbox \in [Nodes -> Seq(Items(Messages, PLms))]
<1>1. NetType(Messages, PLms)
  BY DEF NetInv
<1>2. [Groups -> Gens] \subseteq [Groups -> Nat]
  BY GensNat
<1>3. /\ log_gen \in [Groups -> Nat]
      /\ log_leader_map \in [Groups -> [Groups -> Nat]]
      /\ leader_map \in [Nodes -> [Groups -> Nat]]
  BY <1>1, <1>2 DEF NetType
<1>4. \A n \in Nodes : next_insert[n].rlcs \in Seq(RLCs) /\ next_insert[n].plms \in Seq(PLms)
  BY <1>1 DEF NetType, Bundles
<1>5. \A n \in Nodes, g \in Groups : /\ network_buffer[n][g] \in Buffers(Messages)
                                     /\ network_buffer[n][g].gen \in Nat
                                     /\ network_buffer[n][g].payloads \in Seq(Messages)
  <2>1. \A b \in Buffers(Messages) : b.gen \in Nat /\ b.payloads \in Seq(Messages)
    BY GensNat DEF Buffers
  <2>2. \A n \in Nodes, g \in Groups : network_buffer[n][g] \in Buffers(Messages)
    BY <1>1 DEF NetType
  <2> QED
    BY <2>1, <2>2
<1> QED
  BY <1>1, <1>3, <1>4, <1>5 DEF NetType

(* An element of a sequence of changes is a change. *)
LEMMA ChangeFacts ==
  ASSUME NEW s \in Seq(RLCs), NEW c \in Range(s)
  PROVE  /\ c \in RLCs /\ c.gid \in Groups /\ c.gen \in Nat /\ IsChange(c)
<1>1. c \in RLCs
  BY RangeOfSeq
<1> QED
  BY <1>1, NetworkAssumption DEF RLCs, IsChange

(* So is what the forwarded inputs hold of that type. *)
LEMMA InboxChange ==
  ASSUME NetInv(Messages, PLms), NEW n \in Nodes, NEW c \in Range(inbox[n]), IsChange(c)
  PROVE  c \in RLCs /\ c.gid \in Groups /\ c.gen \in Nat
<1>1. c \in Items(Messages, PLms)
  BY TypeFacts, RangeOfSeq
<1>2. c \in RLCs
  BY <1>1 DEF Items, Unblocks, PLmItems, PayloadItems, LC, IsChange
<1> QED
  BY <1>2, NetworkAssumption DEF RLCs

(* Knowing less is knowing less than more. *)
LEMMA WithinMore ==
  ASSUME NetInv(Messages, PLms), NEW n \in Nodes, NEW g \in Groups, NEW j \in Nat, NEW k \in Nat,
         Within(n, g, j), j =< k
  PROVE  Within(n, g, k)
<1>1. leader_map[n][g] \in Nat
  BY TypeFacts
<1>2. \A c \in Range(next_insert[n].rlcs) : c.gen \in Nat
  BY TypeFacts, ChangeFacts
<1>3. \A c \in Range(inbox[n]) : IsChange(c) => c.gen \in Nat
  BY InboxChange
<1> QED
  BY <1>1, <1>2, <1>3 DEF Within

(* A step of which no leader learns, and no log. *)
LEMMA CalmInv ==
  ASSUME NetworkInv, NetInv(Messages, PLms)',
         UNCHANGED <<log_gen, log_leader_map>>,
         \A n \in Nodes : status'[n] = "leader" =>
           /\ status[n] = "leader"
           /\ \A g \in Groups : leader_map[n][g] =< leader_map'[n][g],
         \A n \in Nodes, g \in Groups, k \in Nat : Within(n, g, k) => Within(n, g, k)'
  PROVE  LagInv' /\ MonotoneInv'
<1>1. LagInv'
  <2>1. \A n \in Nodes, g \in Groups : log_leader_map[Gid(n)][g] \in Nat
    BY NodeFacts, TypeFacts DEF NetworkInv
  <2>2. \A n \in Nodes, g \in Groups : Within(n, g, log_leader_map[Gid(n)][g])'
    <3> SUFFICES ASSUME NEW n \in Nodes, NEW g \in Groups
                 PROVE  Within(n, g, log_leader_map[Gid(n)][g])'
      OBVIOUS
    <3>1. PICK k \in Nat : k = log_leader_map[Gid(n)][g]
      BY <2>1
    <3>2. Within(n, g, k)
      BY <3>1 DEF NetworkInv, LagInv
    <3>3. Within(n, g, k)'
      BY <3>2
    <3> QED
      BY <3>1, <3>3
  <2> QED
    BY <2>2 DEF LagInv
<1>2. MonotoneInv'
  <2> SUFFICES ASSUME NEW n \in Nodes, NEW o \in Nodes, IsCurrent(n)', status'[o] = "leader",
                      Gid(o) = Gid(n), o # n, NEW g \in Groups
               PROVE  Within(o, g, leader_map[n][g])'
    BY DEF MonotoneInv
  <2>1. PICK k \in Nat : k = leader_map[n][g]
    BY TypeFacts DEF NetworkInv
  <2>2. PICK j \in Nat : j = leader_map'[n][g]
    BY GensNat DEF NetInv, NetType
  <2>3. IsCurrent(n) /\ status[o] = "leader" /\ k =< j
    BY <2>1, <2>2 DEF IsCurrent
  <2>4. Within(o, g, k)
    BY <2>1, <2>3 DEF NetworkInv, MonotoneInv
  <2>5. Within(o, g, j)
    BY <2>3, <2>4, WithinMore DEF NetworkInv
  <2>6. Within(o, g, j)'
    BY <2>5
  <2> QED
    BY <2>2, <2>6
<1> QED
  BY <1>1, <1>2

(* Where nothing is forwarded, there is nothing to say of it. *)
LEMMA QuietNext ==
  ASSUME \A n \in Nodes : inbox'[n] = <<>>
  PROVE  BusyInv' /\ ElectedInv' /\ LetGoInv' /\ ForwardInv'
<1>1. \A n \in Nodes : DOMAIN inbox'[n] = {} /\ inbox'[n] # <<LC>>
  OBVIOUS
<1> QED
  BY <1>1 DEF BusyInv, ElectedInv, LetGoInv, ForwardInv

(* A RemoteLeaderChangedPLm is pushed. *)
LEMMA PushFacts ==
  ASSUME NetInv(Messages, PLms), NEW n \in Nodes, NEW g \in Groups, NEW k \in 1 .. MaxGen,
         PushRLC(n, g, k)
  PROVE  \A x \in Nodes : \A c \in Range(remote_leader_changes'[x]) :
           c \in Range(remote_leader_changes[x]) \/ c = RLC(g, k)
<1>1. RLC(g, k) \in RLCs
  BY DEF RLC, RLCs
<1>2. remote_leader_changes \in [Nodes -> Seq(RLCs)]
  BY TypeFacts
<1>3. CASE RLC(g, k) \in Range(remote_leader_changes[n])
  BY <1>3 DEF PushRLC
<1>4. CASE RLC(g, k) \notin Range(remote_leader_changes[n])
  <2>1. remote_leader_changes' =
          [remote_leader_changes EXCEPT ![n] = Append(remote_leader_changes[n], RLC(g, k))]
    BY <1>4 DEF PushRLC
  <2>2. Range(Append(remote_leader_changes[n], RLC(g, k))) =
          Range(remote_leader_changes[n]) \cup {RLC(g, k)}
    BY <1>1, <1>2, RangeAppend
  <2> QED
    BY <1>2, <2>1, <2>2
<1> QED
  BY <1>3, <1>4

(* No message is added, and none is sent to a node that does not lead. *)
LEMMA SilentNext ==
  ASSUME NetworkInv,
         UNCHANGED <<log_gen, log_leader_map>>,
         \A n \in Nodes : status'[n] # "leader" => Unheard(n)',
         \A n \in Nodes : status[n] = "none" => status'[n] = "none",
         \A e \in Linked : chan'[e] # <<>> => chan[e] # <<>> \/ status[e[1]] = "leader",
         \A n \in Nodes, g \in Groups : network_buffer'[n][g].payloads # <<>> =>
           \/ network_buffer'[n][g] = network_buffer[n][g]
           \/ network_buffer'[n][g].gen =< log_gen[g],
         \A n \in Nodes : \A c \in Range(remote_leader_changes'[n]) :
           c \in Range(remote_leader_changes[n]) \/ c.gen =< log_gen[c.gid]
  PROVE  SilentInv'
<1>1. \A e \in Linked : chan'[e] # <<>> => Gen(e[1]) =< log_gen'[Gid(e[1])]
  BY LinkedFacts DEF NetworkInv, SilentInv, NetInv, StatusInv
<1>2. \A n \in Nodes, g \in Groups : network_buffer'[n][g].payloads # <<>> =>
        network_buffer'[n][g].gen =< log_gen'[g]
  BY DEF NetworkInv, SilentInv
<1>3. \A g, h \in Groups : log_leader_map'[g][h] =< log_gen'[h]
  BY DEF NetworkInv, SilentInv
<1>4. \A n \in Nodes : \A c \in Range(remote_leader_changes'[n]) : c.gen =< log_gen'[c.gid]
  BY DEF NetworkInv, SilentInv
<1>5. \A n \in Nodes : status'[n] # "none" => Gen(n) =< log_gen'[Gid(n)]
  BY DEF NetworkInv, SilentInv
<1> QED
  BY <1>1, <1>2, <1>3, <1>4, <1>5 DEF SilentInv

(* What a node hears of is not changed by what it does not take part in. *)
LEMMA WithinSame ==
  ASSUME NEW n, NEW g, NEW k, Within(n, g, k),
         UNCHANGED <<leader_map[n], next_insert[n], inbox[n]>>
  PROVE  Within(n, g, k)'
BY DEF Within

(* Receive keeps what is said of the network. *)
LEMMA ReceiveNetwork ==
  ASSUME NetworkInv, Quiet, NEW e \in Linked, Receive(e[2], e[1])
  PROVE  NetworkInv'
<1>n. PICK n \in Nodes : n = e[2]
  BY LinkedFacts
<1>g. PICK g \in Groups : g = Gid(e[1])
  BY LinkedFacts, NodeFacts
<1>k. PICK k \in Gens : k = Gen(e[1])
  BY LinkedFacts, NodeFacts
<1>1. e = <<e[1], n>>
  BY <1>n, LinkedFacts
<1>2. /\ chan[e] # <<>>
      /\ status[n] = "leader"
      /\ chan' = [chan EXCEPT ![e] = Tail(@)]
      /\ UNCHANGED <<log_gen, log_leader_map, status, leader_map, next_insert, inbox>>
  BY <1>n, <1>1 DEF Receive, logVars
<1>3. NetInv(Messages, PLms)'
  BY ReceiveNet DEF NetworkInv
<1>4. k =< log_gen[g]
  BY <1>2, <1>g, <1>k DEF NetworkInv, SilentInv
<1>5. \A x \in Nodes, h \in Groups :
        network_buffer'[x][h] = network_buffer[x][h] \/ (x = n /\ network_buffer'[x][h].gen = k)
  <2>1. \/ network_buffer' = network_buffer
        \/ \E ps : network_buffer' = [network_buffer EXCEPT ![n][g] = [gen |-> k, payloads |-> ps]]
    BY <1>n, <1>g, <1>k, <1>1 DEF Receive
  <2>2. network_buffer \in [Nodes -> [Groups -> Buffers(Messages)]]
    BY DEF NetworkInv, NetInv, NetType
  <2> QED
    BY <2>1, <2>2
<1>6. \A x \in Nodes : \A c \in Range(remote_leader_changes'[x]) :
        c \in Range(remote_leader_changes[x]) \/ c.gen =< log_gen[c.gid]
  <2>1. CASE UNCHANGED remote_leader_changes
    BY <2>1
  <2>2. CASE k > Known(n, g) /\ PushRLC(n, g, k)
    <3>1. Known(n, g) \in Nat
      BY TypeFacts DEF Known, NetworkInv
    <3>2. k \in 1 .. MaxGen
      BY <2>2, <3>1, NetworkAssumption DEF Gens
    <3>3. RLC(g, k).gid = g /\ RLC(g, k).gen = k
      BY DEF RLC
    <3>4. \A x \in Nodes : \A c \in Range(remote_leader_changes'[x]) :
            c \in Range(remote_leader_changes[x]) \/ c = RLC(g, k)
      BY <2>2, <3>2, PushFacts DEF NetworkInv
    <3> QED
      BY <1>4, <3>3, <3>4
  <2> QED
    BY <1>n, <1>g, <1>k, <2>1, <2>2 DEF Receive
<1>7. \A x \in Nodes : status'[x] # "leader" => Unheard(x)'
  <2> SUFFICES ASSUME NEW x \in Nodes, status'[x] # "leader"
               PROVE  Unheard(x)'
    OBVIOUS
  <2>1. x # n /\ Unheard(x)
    BY <1>2 DEF NetworkInv, SilentInv
  <2>2. \A d \in Linked : d[2] = x => chan'[d] = chan[d]
    BY <1>n, <1>2, <2>1 DEF NetworkInv, NetInv, NetType
  <2> QED
    BY <1>5, <2>1, <2>2 DEF Unheard
<1>8. \A d \in Linked : chan'[d] # <<>> => chan[d] # <<>>
  BY <1>2 DEF NetworkInv, NetInv, NetType
<1>9. \A x \in Nodes, h \in Groups : network_buffer'[x][h].payloads # <<>> =>
        \/ network_buffer'[x][h] = network_buffer[x][h]
        \/ network_buffer'[x][h].gen =< log_gen[h]
  <2>1. \A x \in Nodes, h \in Groups : network_buffer'[x][h] # network_buffer[x][h] => h = g
    <3>1. \/ network_buffer' = network_buffer
          \/ \E ps : network_buffer' = [network_buffer EXCEPT ![n][g] = [gen |-> k, payloads |-> ps]]
      BY <1>n, <1>g, <1>k, <1>1 DEF Receive
    <3>2. network_buffer \in [Nodes -> [Groups -> Buffers(Messages)]]
      BY DEF NetworkInv, NetInv, NetType
    <3> QED
      BY <3>1, <3>2
  <2> QED
    BY <1>4, <1>5, <2>1
<1>10. SilentInv'
  BY <1>2, <1>6, <1>7, <1>8, <1>9, SilentNext
<1>11. \A x \in Nodes, h \in Groups : leader_map[x][h] =< leader_map'[x][h]
  BY <1>2, TypeFacts DEF NetworkInv
<1>12. LagInv' /\ MonotoneInv'
  BY <1>2, <1>3, <1>11, WithinSame, CalmInv
<1>13. \A x \in Nodes : inbox'[x] = <<>>
  BY <1>2 DEF Quiet
<1> QED
  BY <1>3, <1>10, <1>12, <1>13, QuietNext DEF NetworkInv

(* So does the gossip of a Leadership. *)
LEMMA GossipNetwork ==
  ASSUME NetworkInv, Quiet, NEW n \in Nodes, NEW src \in Nodes, RemoteLeaderChangedGossip(n, src)
  PROVE  NetworkInv'
<1>1. /\ Gen(src) > leader_map[n][Gid(src)]
      /\ status[src] # "none"
      /\ PushRLC(n, Gid(src), Gen(src))
      /\ UNCHANGED <<log_gen, log_leader_map, status, leader_map, next_insert, network_buffer,
                     chan, inbox>>
  BY DEF RemoteLeaderChangedGossip, logVars
<1>2. NetInv(Messages, PLms)'
  BY GossipNet DEF NetworkInv
<1>3. /\ Gid(src) \in Groups /\ Gen(src) \in 1 .. MaxGen
      /\ Gen(src) =< log_gen[Gid(src)]
  <2>1. Gid(src) \in Groups /\ Gen(src) \in Gens
    BY NodeFacts
  <2>2. leader_map[n][Gid(src)] \in Nat
    BY <2>1, TypeFacts DEF NetworkInv
  <2> QED
    BY <1>1, <2>1, <2>2, NetworkAssumption DEF NetworkInv, SilentInv, Gens
<1>4. RLC(Gid(src), Gen(src)).gid = Gid(src) /\ RLC(Gid(src), Gen(src)).gen = Gen(src)
  BY DEF RLC
<1>5. \A x \in Nodes : \A c \in Range(remote_leader_changes'[x]) :
        c \in Range(remote_leader_changes[x]) \/ c.gen =< log_gen[c.gid]
  BY <1>1, <1>3, <1>4, PushFacts DEF NetworkInv
<1>6. \A x \in Nodes : status'[x] # "leader" => Unheard(x)'
  BY <1>1 DEF NetworkInv, SilentInv, Unheard
<1>7. SilentInv'
  BY <1>1, <1>5, <1>6, SilentNext
<1>8. \A x \in Nodes, h \in Groups : leader_map[x][h] =< leader_map'[x][h]
  BY <1>1, TypeFacts DEF NetworkInv
<1>9. LagInv' /\ MonotoneInv'
  BY <1>1, <1>2, <1>8, WithinSame, CalmInv
<1>10. \A x \in Nodes : inbox'[x] = <<>>
  BY <1>1 DEF Quiet
<1> QED
  BY <1>2, <1>7, <1>9, <1>10, QuietNext DEF NetworkInv

(* So does a step of which only the bundles and the ESs of a node take     *)
(* part.                                                                   *)
LEMMA LocalNetwork ==
  ASSUME NetworkInv, NetInv(Messages, PLms)',
         UNCHANGED <<log_gen, log_leader_map, status, leader_map, remote_leader_changes,
                     next_insert, network_buffer, chan, inbox>>
  PROVE  NetworkInv'
<1>1. \A x \in Nodes : status'[x] # "leader" => Unheard(x)'
  BY DEF NetworkInv, SilentInv, Unheard
<1>2. SilentInv'
  BY <1>1, SilentNext
<1>3. \A x \in Nodes, h \in Groups : leader_map[x][h] =< leader_map'[x][h]
  BY TypeFacts DEF NetworkInv
<1>4. LagInv' /\ MonotoneInv'
  BY <1>3, WithinSame, CalmInv
<1>5. BusyInv' /\ ElectedInv' /\ LetGoInv' /\ ForwardInv'
  BY DEF NetworkInv, BusyInv, ElectedInv, LetGoInv, ForwardInv, Unheard
<1> QED
  BY <1>2, <1>4, <1>5 DEF NetworkInv

(* The last Leadership of a log is that of one node. *)
LEMMA CurrentUnique ==
  ASSUME NEW n \in Nodes, NEW o \in Nodes, Gid(n) = Gid(o),
         log_gen[Gid(n)] = Gen(n), log_gen[Gid(o)] = Gen(o)
  PROVE  n = o
BY NodeFacts

(* A bundle that enters the log takes what its leader has heard of into    *)
(* the log.                                                                *)
LEMMA InsertNetwork ==
  ASSUME NetworkInv, Quiet, NEW n \in Nodes, maybe_start_insert(n)
  PROVE  /\ NetworkInv'
         /\ \A g, h \in Groups : log_leader_map[g][h] =< log_leader_map'[g][h]
<1> DEFINE g == Gid(n)
           rlcs == remote_leader_changes[n]
<1>0. /\ status[n] = "leader" /\ log_gen[g] = Gen(n) /\ next_insert[n] = NoInsert
      /\ next_insert' = [next_insert EXCEPT ![n] = [rlcs |-> rlcs, plms |-> tablet_bundles[n]]]
      /\ log_leader_map' = [log_leader_map EXCEPT ![g] = Replayed(log_leader_map[g], rlcs)]
      /\ remote_leader_changes' = [remote_leader_changes EXCEPT ![n] = <<>>]
      /\ UNCHANGED <<log_gen, status, leader_map, network_buffer, chan, inbox>>
  BY DEF maybe_start_insert
<1>1. g \in Groups
  BY NodeFacts
<1>2. /\ next_insert \in [Nodes -> Bundles(PLms)]
      /\ log_leader_map \in [Groups -> [Groups -> Gens]]
      /\ remote_leader_changes \in [Nodes -> Seq(RLCs)]
  BY DEF NetworkInv, NetInv, NetType
<1>3. /\ \A x \in Nodes : x # n => /\ remote_leader_changes'[x] = remote_leader_changes[x]
                                   /\ next_insert'[x] = next_insert[x]
      /\ next_insert'[n].rlcs = rlcs
      /\ remote_leader_changes'[n] = <<>>
      /\ \A h \in Groups : h # g => log_leader_map'[h] = log_leader_map[h]
      /\ log_leader_map'[g] = Replayed(log_leader_map[g], rlcs)
  BY <1>0, <1>1, <1>2
<1>4. /\ Replayed(log_leader_map[g], rlcs) \in [Groups -> Gens]
      /\ \A h \in Groups : log_leader_map[g][h] =< Replayed(log_leader_map[g], rlcs)[h]
      /\ \A c \in Range(rlcs) : c.gen =< Replayed(log_leader_map[g], rlcs)[c.gid]
  BY <1>1, <1>2, ReplayedFacts
<1>5. \A h, j \in Groups : /\ log_leader_map[h][j] =< log_leader_map'[h][j]
                           /\ log_leader_map[h][j] \in Nat /\ log_leader_map'[h][j] \in Nat
  <2> SUFFICES ASSUME NEW h \in Groups, NEW j \in Groups
               PROVE  /\ log_leader_map[h][j] =< log_leader_map'[h][j]
                      /\ log_leader_map[h][j] \in Nat /\ log_leader_map'[h][j] \in Nat
    OBVIOUS
  <2>1. log_leader_map[h][j] \in Nat
    BY <1>2, GensNat
  <2>2. CASE h = g
    BY <1>3, <1>4, <2>1, <2>2, GensNat
  <2>3. CASE h # g
    BY <1>3, <2>1, <2>3
  <2> QED
    BY <2>2, <2>3
<1>6. NetInv(Messages, PLms)'
  BY InsertNet DEF NetworkInv
<1>7. \A h, j \in Groups : log_leader_map'[h][j] =< log_gen'[j]
  <2> SUFFICES ASSUME NEW h \in Groups, NEW j \in Groups
               PROVE  log_leader_map'[h][j] =< log_gen'[j]
    OBVIOUS
  <2>1. CASE h # g
    BY <1>0, <1>3, <2>1 DEF NetworkInv, SilentInv
  <2>2. CASE h = g
    <3> DEFINE S == {log_leader_map[g][j]} \cup {c.gen : c \in {d \in Range(rlcs) : d.gid = j}}
    <3>1. \A c \in Range(rlcs) : c \in RLCs /\ c.gen \in 1 .. MaxGen
      <4>1. rlcs \in Seq(RLCs)
        BY <1>2
      <4>2. \A c \in Range(rlcs) : c \in RLCs
        BY <4>1, RangeOfSeq
      <4> QED
        BY <4>2 DEF RLCs
    <3>2. S \in SUBSET (0 .. MaxGen) /\ S # {}
      <4>1. log_leader_map[g][j] \in 0 .. MaxGen
        BY <1>1, <1>2 DEF Gens
      <4>2. \A x \in 1 .. MaxGen : x \in 0 .. MaxGen
        BY NetworkAssumption
      <4> QED
        BY <3>1, <4>1, <4>2
    <3>3. Max(S) \in S
      BY <3>2, HasMax, NetworkAssumption
    <3>4. \A x \in S : x =< log_gen[j]
      BY <1>1 DEF NetworkInv, SilentInv
    <3>5. log_leader_map'[h][j] = Max(S)
      BY <1>3, <2>2 DEF Replayed
    <3> QED
      BY <1>0, <3>3, <3>4, <3>5
  <2> QED
    BY <2>1, <2>2
<1>8. SilentInv'
  <2>1. \A x \in Nodes : Range(remote_leader_changes'[x]) \subseteq Range(remote_leader_changes[x])
    BY <1>3 DEF Range
  <2>2. \A x \in Nodes : Unheard(x) => Unheard(x)'
    BY <1>0 DEF Unheard
  <2> QED
    BY <1>0, <1>7, <2>1, <2>2 DEF NetworkInv, SilentInv
<1>9. \A x \in Nodes, h \in Groups, k \in Nat : x # n /\ Within(x, h, k) => Within(x, h, k)'
  BY <1>0, <1>3, WithinSame
<1>10. LagInv'
  <2> SUFFICES ASSUME NEW x \in Nodes, NEW h \in Groups
               PROVE  Within(x, h, log_leader_map[Gid(x)][h])'
    BY DEF LagInv
  <2>1. Gid(x) \in Groups
    BY NodeFacts
  <2>2. PICK k \in Nat : k = log_leader_map[Gid(x)][h]
    BY <1>5, <2>1
  <2>3. PICK j \in Nat : j = log_leader_map'[Gid(x)][h]
    BY <1>5, <2>1
  <2>4. k =< j
    BY <1>5, <2>1, <2>2, <2>3
  <2>5. Within(x, h, k)
    BY <2>2 DEF NetworkInv, LagInv
  <2>6. Within(x, h, j)
    BY <2>4, <2>5, WithinMore DEF NetworkInv
  <2>7. CASE x # n
    BY <1>9, <2>3, <2>6, <2>7
  <2>8. CASE x = n
    <3>1. \A c \in Range(rlcs) : c.gid = h => c.gen =< j
      BY <1>3, <1>4, <2>3, <2>8
    <3> QED
      BY <1>0, <1>3, <2>3, <2>6, <2>8, <3>1 DEF Within
  <2> QED
    BY <2>7, <2>8
<1>11. MonotoneInv'
  <2> SUFFICES ASSUME NEW x \in Nodes, NEW o \in Nodes, IsCurrent(x)', status'[o] = "leader",
                      Gid(o) = Gid(x), o # x, NEW h \in Groups
               PROVE  Within(o, h, leader_map[x][h])'
    BY DEF MonotoneInv
  <2>1. IsCurrent(x) /\ status[o] = "leader"
    BY <1>0 DEF IsCurrent
  <2>2. o # n
    BY <1>0, <2>1, CurrentUnique DEF IsCurrent
  <2>3. PICK k \in Nat : k = leader_map[x][h]
    BY TypeFacts DEF NetworkInv
  <2>4. Within(o, h, k)
    BY <2>1, <2>3 DEF NetworkInv, MonotoneInv
  <2>5. Within(o, h, k)'
    BY <1>9, <2>2, <2>4
  <2> QED
    BY <1>0, <2>3, <2>5
<1>12. \A x \in Nodes : inbox'[x] = <<>>
  BY <1>0 DEF Quiet
<1>13. BusyInv' /\ ElectedInv' /\ LetGoInv' /\ ForwardInv'
  BY <1>12, QuietNext
<1> QED
  BY <1>5, <1>6, <1>8, <1>10, <1>11, <1>13 DEF NetworkInv

(* A bundle is forwarded with the changes of Leaderships first. *)
LEMMA ForwardedOrder ==
  ASSUME NEW rlcs \in Seq(RLCs), NEW plms \in Seq(PLms)
  PROVE  LET F == Forwarded(rlcs, plms)
         IN /\ \A c \in Range(F) : IsChange(c) => c \in Range(rlcs)
            /\ \A i, j \in DOMAIN F : i < j /\ IsChange(F[j]) => IsChange(F[i])
<1> DEFINE F == Forwarded(rlcs, plms)
           pl == [i \in DOMAIN plms |-> PLm(plms[i])]
           ub == [i \in DOMAIN rlcs |-> Unblock(rlcs[i].gid, rlcs[i].gen)]
           A == RLCs \cup Unblocks \cup PLmItems(PLms)
<1>a. PICK a \in Nat : a = Len(rlcs) /\ DOMAIN rlcs = 1 .. a
  BY LenProperties
<1>b. PICK b \in Nat : b = Len(plms) /\ DOMAIN plms = 1 .. b
  BY LenProperties
<1>1. \A i \in 1 .. a : rlcs[i] \in RLCs
  BY <1>a, ElementOfSeq
<1>2. \A i \in 1 .. a : Unblock(rlcs[i].gid, rlcs[i].gen) \in Unblocks
  BY <1>1 DEF Unblock, Unblocks, RLCs
<1>3. \A i \in 1 .. b : PLm(plms[i]) \in PLmItems(PLms)
  BY <1>b, ElementOfSeq DEF PLm, PLmItems
<1>4. ub \in Seq(Unblocks) /\ Len(ub) = a /\ \A i \in 1 .. a : ub[i] \in Unblocks
  BY <1>a, <1>2
<1>5. pl \in Seq(PLmItems(PLms)) /\ Len(pl) = b /\ \A i \in 1 .. b : pl[i] \in PLmItems(PLms)
  BY <1>b, <1>3
<1>6. rlcs \in Seq(A) /\ ub \in Seq(A) /\ pl \in Seq(A)
  BY <1>4, <1>5, SeqMonotonic
<1>7. F = (rlcs \o pl) \o ub
  BY DEF Forwarded
<1> HIDE DEF F, pl, ub, A
<1>8. /\ rlcs \o pl \in Seq(A) /\ Len(rlcs \o pl) = a + b
      /\ \A i \in 1 .. a + b : (rlcs \o pl)[i] = IF i =< a THEN rlcs[i] ELSE pl[i - a]
  BY <1>a, <1>5, <1>6, ConcatProperties
<1>9. /\ DOMAIN F = 1 .. (a + b) + a
      /\ \A i \in 1 .. (a + b) + a : F[i] = IF i =< a + b THEN (rlcs \o pl)[i] ELSE ub[i - (a + b)]
  <2> HIDE DEF A
  <2>1. PICK s \in Seq(A) : s = rlcs \o pl
    BY <1>8
  <2>2. /\ s \o ub \in Seq(A) /\ Len(s \o ub) = Len(s) + Len(ub)
        /\ \A i \in 1 .. Len(s) + Len(ub) :
             (s \o ub)[i] = IF i =< Len(s) THEN s[i] ELSE ub[i - Len(s)]
    BY <1>6, ConcatProperties
  <2>3. DOMAIN (s \o ub) = 1 .. Len(s \o ub)
    BY <2>2, LenProperties
  <2> QED
    BY <1>4, <1>7, <1>8, <2>1, <2>2, <2>3
<1>10. \A i \in 1 .. a : F[i] = rlcs[i] /\ IsChange(F[i])
  <2> SUFFICES ASSUME NEW i \in 1 .. a
               PROVE  F[i] = rlcs[i] /\ IsChange(F[i])
    OBVIOUS
  <2>1. i \in 1 .. a + b /\ i \in 1 .. (a + b) + a /\ i =< a /\ i =< a + b
    OBVIOUS
  <2>2. F[i] = rlcs[i]
    BY <1>8, <1>9, <2>1
  <2> QED
    BY <1>1, <2>2 DEF IsChange, RLCs
<1>11. \A i \in 1 .. (a + b) + a : i > a => ~IsChange(F[i])
  <2> SUFFICES ASSUME NEW i \in 1 .. (a + b) + a, i > a
               PROVE  ~IsChange(F[i])
    OBVIOUS
  <2>1. CASE i =< a + b
    <3>1. i \in 1 .. a + b /\ ~(i =< a) /\ i - a \in 1 .. b
      BY <2>1
    <3>2. F[i] = pl[i - a]
      BY <1>8, <1>9, <2>1, <3>1
    <3> QED
      BY <1>5, <3>1, <3>2 DEF PLmItems, IsChange
  <2>2. CASE ~(i =< a + b)
    <3>1. i - (a + b) \in 1 .. a
      BY <2>2
    <3>2. F[i] = ub[i - (a + b)]
      BY <1>9, <2>2
    <3> QED
      BY <1>4, <3>1, <3>2 DEF Unblocks, IsChange
  <2> QED
    BY <2>1, <2>2
<1>12. ASSUME NEW c \in Range(F), IsChange(c)
       PROVE  c \in Range(rlcs)
  <2>1. PICK i \in 1 .. (a + b) + a : c = F[i]
    BY <1>9, <1>12 DEF Range
  <2>2. i \in 1 .. a
    BY <1>11, <1>12, <2>1
  <2> QED
    BY <1>a, <1>10, <2>1, <2>2 DEF Range
<1>13. ASSUME NEW i \in DOMAIN F, NEW j \in DOMAIN F, i < j, IsChange(F[j])
       PROVE  IsChange(F[i])
  <2>1. i \in 1 .. (a + b) + a /\ j \in 1 .. (a + b) + a
    BY <1>9, <1>13
  <2>2. j =< a
    BY <1>11, <1>13, <2>1
  <2>3. i \in 1 .. a
    BY <1>13, <2>1, <2>2
  <2> QED
    BY <1>10, <2>3
<1> QED
  BY <1>12, <1>13 DEF F

(* No node hears of a later Leadership. *)
WithinKept ==
  \A n \in Nodes, g \in Groups, k \in Nat : Within(n, g, k) => Within(n, g, k)'

(* A bundle that is processed forwards what is in the log already. *)
LEMMA ProcessNetwork ==
  ASSUME NetworkInv, Quiet, NEW n \in Nodes, process_bundle(n)
  PROVE  NetworkInv' /\ WithinKept /\ \A x \in Nodes : inbox'[x] # <<LC>>
<1> DEFINE F == Forwarded(next_insert[n].rlcs, next_insert[n].plms)
<1>0. /\ status[n] = "leader"
      /\ next_insert' = [next_insert EXCEPT ![n] = NoInsert]
      /\ UNCHANGED <<log_gen, log_leader_map, status, leader_map, remote_leader_changes,
                     network_buffer, chan>>
  BY DEF process_bundle, logVars
<1>1. NetInv(Messages, PLms)' /\ inbox' = [inbox EXCEPT ![n] = F]
  BY ProcessNet DEF NetworkInv
<1>2. next_insert[n].rlcs \in Seq(RLCs) /\ next_insert[n].plms \in Seq(PLms)
  BY TypeFacts DEF NetworkInv
<1>3. /\ \A c \in Range(F) : IsChange(c) => c \in Range(next_insert[n].rlcs)
      /\ \A i, j \in DOMAIN F : i < j /\ IsChange(F[j]) => IsChange(F[i])
  BY <1>2, ForwardedOrder
<1>4. \A c \in Range(F) : c.type # "Payload" /\ c # LC
  BY <1>2, ForwardedFacts
<1> HIDE DEF F
<1>5. /\ \A x \in Nodes : x # n => inbox'[x] = <<>> /\ next_insert'[x] = next_insert[x]
      /\ inbox'[n] = F /\ next_insert'[n] = NoInsert
  BY <1>0, <1>1 DEF NetworkInv, NetInv, NetType, Quiet
<1>6. \A x \in Nodes, h \in Groups, k \in Nat : Within(x, h, k) => Within(x, h, k)'
  <2> SUFFICES ASSUME NEW x \in Nodes, NEW h \in Groups, NEW k \in Nat, Within(x, h, k)
               PROVE  Within(x, h, k)'
    OBVIOUS
  <2>1. CASE x # n
    BY <1>0, <1>5, <2>1, WithinSame DEF Quiet
  <2>2. CASE x = n
    <3>1. Range(NoInsert.rlcs) = {}
      BY DEF NoInsert, Range
    <3> QED
      BY <1>0, <1>3, <1>5, <2>2, <3>1 DEF Within
  <2> QED
    BY <2>1, <2>2
<1>7. \A x \in Nodes, h \in Groups : leader_map[x][h] =< leader_map'[x][h]
  BY <1>0, TypeFacts DEF NetworkInv
<1>8. LagInv' /\ MonotoneInv'
  BY <1>0, <1>1, <1>6, <1>7, CalmInv
<1>9. \A x \in Nodes : status'[x] # "leader" => Unheard(x)'
  BY <1>0 DEF NetworkInv, SilentInv, Unheard
<1>10. SilentInv'
  BY <1>0, <1>9, SilentNext
<1>11. BusyInv'
  BY <1>5 DEF BusyInv
<1>16. \A x \in Nodes : inbox'[x] # <<LC>>
  <2>1. F # <<LC>> /\ <<>> # <<LC>>
    BY <1>4 DEF Range
  <2> QED
    BY <1>5, <2>1
<1>12. ElectedInv'
  BY <1>16 DEF ElectedInv
<1>13. \A x \in Nodes : x # n => DOMAIN inbox'[x] = {}
  BY <1>5
<1>14. LetGoInv'
  BY <1>4, <1>5, <1>13 DEF LetGoInv, Range
<1>15. ForwardInv'
  BY <1>3, <1>5, <1>13 DEF ForwardInv
<1> QED
  BY <1>1, <1>6, <1>8, <1>10, <1>11, <1>12, <1>14, <1>15, <1>16 DEF NetworkInv, WithinKept

(* Behind anything but a change there are no changes. *)
LEMMA NoChanges ==
  ASSUME NetworkInv, NEW n \in Nodes, inbox[n] # <<>>, ~IsChange(Head(inbox[n]))
  PROVE  \A c \in Range(inbox[n]) : ~IsChange(c)
<1>1. inbox[n] \in Seq(Items(Messages, PLms))
  BY TypeFacts DEF NetworkInv
<1>2. 1 \in DOMAIN inbox[n] /\ inbox[n][1] = Head(inbox[n]) /\ \A j \in DOMAIN inbox[n] : j \in Nat /\ (j = 1 \/ 1 < j)
  BY <1>1
<1> QED
  BY <1>2 DEF NetworkInv, ForwardInv, Range

(* Messages that are let go, or dropped, tell nobody of a Leadership. *)
LEMMA DeliverNetwork ==
  ASSUME NetworkInv, NEW n \in Nodes, deliver_blocked_messages(n)
  PROVE  NetworkInv' /\ WithinKept /\ \A x \in Nodes : inbox'[x] # <<LC>>
<1> DEFINE g == Head(inbox[n]).gid
           rest == Tail(inbox[n])
<1>0. /\ inbox[n] # <<>>
      /\ Head(inbox[n]).type = "Unblock"
      /\ UNCHANGED <<log_gen, log_leader_map, status, leader_map, remote_leader_changes,
                     next_insert, chan>>
  BY DEF deliver_blocked_messages, logVars, bundleVars
<1>1. NetInv(Messages, PLms)' /\ \A x \in Nodes : x # n => inbox'[x] = inbox[x]
  BY DeliverNet DEF NetworkInv
<1>2. inbox[n] \in Seq(Items(Messages, PLms))
  BY TypeFacts DEF NetworkInv
<1>3. /\ rest \in Seq(Items(Messages, PLms)) /\ Range(rest) \subseteq Range(inbox[n])
      /\ Head(inbox[n]) \in Items(Messages, PLms) /\ Head(inbox[n]) \in Range(inbox[n])
  BY <1>0, <1>2, RangeTail
<1>4. Head(inbox[n]) \in Unblocks
  BY <1>0, <1>3 DEF Items, RLCs, PLmItems, PayloadItems, LC
<1>5. g \in Groups
  BY <1>4 DEF Unblocks
<1>6. /\ BlockedOf(n, g) \in Seq(Items(Messages, PLms))
      /\ Range(BlockedOf(n, g)) = {Payload(g, p) : p \in Range(network_buffer[n][g].payloads)}
  BY <1>5, BlockedFacts, TypeFacts DEF NetworkInv
<1>7. Range(BlockedOf(n, g) \o rest) = Range(BlockedOf(n, g)) \cup Range(rest)
  <2>1. ASSUME NEW s \in Seq(Items(Messages, PLms))
        PROVE  Range(s \o rest) = Range(s) \cup Range(rest)
    BY <1>3, RangeConcatenation
  <2> QED
    BY <1>6, <2>1
<1>8. \/ /\ inbox'[n] = rest
         /\ network_buffer' = network_buffer
      \/ /\ inbox'[n] = rest
         /\ network_buffer' = [network_buffer EXCEPT ![n][g] = EmptyBuffer]
      \/ /\ inbox'[n] = BlockedOf(n, g) \o rest
         /\ network_buffer' = [network_buffer EXCEPT ![n][g] = EmptyBuffer]
  BY DEF deliver_blocked_messages, NetworkInv, NetInv, NetType
<1> HIDE DEF g, rest
<1>9. EmptyBuffer.payloads = <<>>
  BY DEF EmptyBuffer
<1>10. /\ \A x \in Nodes, h \in Groups :
            \/ network_buffer'[x][h] = network_buffer[x][h]
            \/ network_buffer'[x][h] = EmptyBuffer
       /\ inbox'[n] # rest => network_buffer'[n][g] = EmptyBuffer
  <2>1. network_buffer \in [Nodes -> [Groups -> Buffers(Messages)]]
    BY DEF NetworkInv, NetInv, NetType
  <2> QED
    BY <1>5, <1>8, <2>1
<1>11. \A c \in Range(inbox'[n]) :
         \/ c \in Range(inbox[n])
         \/ /\ network_buffer'[n][g] = EmptyBuffer
            /\ c.type = "Payload" /\ c.from = g
  <2>1. \A p : Payload(g, p).type = "Payload" /\ Payload(g, p).from = g
    BY DEF Payload
  <2>2. CASE inbox'[n] = rest
    BY <1>3, <2>2
  <2>3. CASE inbox'[n] # rest
    <3>1. inbox'[n] = BlockedOf(n, g) \o rest /\ network_buffer'[n][g] = EmptyBuffer
      BY <1>8, <1>10, <2>3
    <3>2. \A c \in Range(inbox'[n]) : c \in Range(rest) \/ c \in Range(BlockedOf(n, g))
      BY <1>7, <3>1
    <3>3. \A c \in Range(BlockedOf(n, g)) : c.type = "Payload" /\ c.from = g
      BY <1>6, <2>1
    <3> QED
      BY <1>3, <3>1, <3>2, <3>3
  <2> QED
    BY <2>2, <2>3
<1>12. \A c \in Range(inbox'[n]) : ~IsChange(c) /\ c # LC
  <2>1. \A c \in Range(inbox[n]) : ~IsChange(c)
    BY <1>0, NoChanges DEF IsChange
  <2>2. LC \notin Range(inbox[n])
    BY <1>0 DEF NetworkInv, NetInv, FreshInv, LC
  <2> QED
    BY <1>11, <2>1, <2>2 DEF IsChange, LC
<1>13. \A x \in Nodes : x # n => inbox[x] = <<>> /\ inbox'[x] = <<>> /\ DOMAIN inbox'[x] = {}
  BY <1>0, <1>1 DEF NetworkInv, BusyInv
<1>14. \A x \in Nodes, h \in Groups, k \in Nat : Within(x, h, k) => Within(x, h, k)'
  BY <1>0, <1>12, <1>13 DEF Within
<1>15. \A x \in Nodes, h \in Groups : leader_map[x][h] =< leader_map'[x][h]
  BY <1>0, TypeFacts DEF NetworkInv
<1>16. LagInv' /\ MonotoneInv'
  BY <1>0, <1>1, <1>14, <1>15, CalmInv
<1>17. \A x \in Nodes : status'[x] # "leader" => Unheard(x)'
  BY <1>0, <1>9, <1>10 DEF NetworkInv, SilentInv, Unheard
<1>18. SilentInv'
  BY <1>0, <1>9, <1>10, <1>17, SilentNext
<1>19. BusyInv'
  BY <1>13 DEF BusyInv
<1>23. \A x \in Nodes : inbox'[x] # <<LC>>
  <2>1. inbox'[n] # <<LC>> /\ <<>> # <<LC>>
    BY <1>12 DEF Range
  <2> QED
    BY <1>13, <2>1
<1>20. ElectedInv'
  BY <1>23 DEF ElectedInv
<1>21. ForwardInv'
  BY <1>12, <1>13 DEF ForwardInv, Range
<1>22. LetGoInv'
  <2> SUFFICES ASSUME NEW x \in Nodes, NEW i \in DOMAIN inbox'[x], inbox'[x][i].type = "Payload"
               PROVE  /\ \A j \in DOMAIN inbox'[x] : ~IsChange(inbox'[x][j])
                      /\ network_buffer'[x][inbox'[x][i].from].payloads = <<>>
    BY DEF LetGoInv
  <2>1. x = n /\ inbox'[n][i] \in Range(inbox'[n])
    BY <1>13 DEF Range
  <2>2. \A j \in DOMAIN inbox'[x] : ~IsChange(inbox'[x][j])
    BY <1>12, <2>1 DEF Range
  <2>3. CASE inbox'[n][i] \in Range(inbox[n])
    <3>1. PICK j \in DOMAIN inbox[n] : inbox'[n][i] = inbox[n][j]
      BY <2>3 DEF Range
    <3>2. network_buffer[n][inbox'[n][i].from].payloads = <<>>
      BY <2>1, <3>1 DEF NetworkInv, LetGoInv
    <3>3. inbox'[n][i].from \in Groups
      BY <2>1, <2>3, NetworkAssumption DEF NetworkInv, NetInv, BlockedInv
    <3> QED
      BY <1>9, <1>10, <2>1, <2>2, <3>2, <3>3
  <2>4. CASE inbox'[n][i] \notin Range(inbox[n])
    BY <1>9, <1>11, <2>1, <2>2, <2>4
  <2> QED
    BY <2>3, <2>4
<1> QED
  BY <1>1, <1>14, <1>16, <1>18, <1>19, <1>20, <1>21, <1>22, <1>23 DEF NetworkInv, WithinKept

(* A new leader starts from the log; the others go on as before. *)
LEMMA GainNetwork ==
  ASSUME NetworkInv, Quiet, NEW g \in Groups, GainLeadership(g)
  PROVE  /\ NetworkInv'
         /\ \A h, j \in Groups : log_leader_map[h][j] =< log_leader_map'[h][j]
         /\ \A h \in Groups : log_gen[h] =< log_gen'[h]
         /\ \A x \in Nodes : status'[x] = "leader" =>
              \/ status[x] = "leader" /\ leader_map'[x] = leader_map[x]
              \/ status[x] # "leader" /\ inbox'[x] = <<LC>> /\ Gen(x) > log_gen[Gid(x)]
         /\ \A x \in Nodes : inbox'[x] # inbox[x] => inbox'[x] = <<LC>> /\ status[x] # "leader"
<1>k. PICK k \in Nat : k = log_gen[g] + 1
  BY TypeFacts DEF NetworkInv
<1>n. PICK n \in Nodes : n = <<g, k>> /\ Gid(n) = g /\ Gen(n) = k
  BY <1>k, GainNet DEF NetworkInv, Gid, Gen
<1>1. /\ log_gen' = [log_gen EXCEPT ![g] = k]
      /\ log_leader_map' = [log_leader_map EXCEPT ![g][g] = k]
      /\ status' = [status EXCEPT ![n] = "leader"]
      /\ leader_map' = [leader_map EXCEPT ![n] = log_leader_map'[g]]
      /\ inbox' = [inbox EXCEPT ![n] = <<LC>>]
      /\ UNCHANGED <<remote_leader_changes, next_insert, network_buffer, chan>>
  BY <1>k, <1>n DEF GainLeadership, bundleVars
<1>2. NetInv(Messages, PLms)' /\ status[n] # "leader"
  BY <1>k, <1>n, GainNet DEF NetworkInv
<1>3. /\ log_gen \in [Groups -> Nat]
      /\ log_leader_map \in [Groups -> [Groups -> Nat]]
      /\ leader_map \in [Nodes -> [Groups -> Nat]]
      /\ status \in [Nodes -> {"none", "leader", "retired", "panicked"}]
      /\ inbox \in [Nodes -> Seq(Items(Messages, PLms))]
  BY TypeFacts DEF NetworkInv
<1>4. /\ \A h \in Groups : log_gen'[h] = IF h = g THEN k ELSE log_gen[h]
      /\ \A h, j \in Groups : log_leader_map'[h][j] = IF h = g /\ j = g THEN k ELSE log_leader_map[h][j]
      /\ \A x \in Nodes : status'[x] = IF x = n THEN "leader" ELSE status[x]
      /\ \A x \in Nodes : leader_map'[x] = IF x = n THEN log_leader_map'[g] ELSE leader_map[x]
      /\ \A x \in Nodes : inbox'[x] = IF x = n THEN <<LC>> ELSE <<>>
  BY <1>1, <1>3 DEF Quiet
<1>5. \A h, j \in Groups : log_leader_map[h][j] =< log_gen[j] /\ log_leader_map[h][j] \in Nat
  BY <1>3 DEF NetworkInv, SilentInv
<1>6. /\ \A h, j \in Groups : log_leader_map[h][j] =< log_leader_map'[h][j]
      /\ \A h, j \in Groups : log_leader_map'[h][j] =< log_gen'[j] /\ log_leader_map'[h][j] \in Nat
      /\ \A h \in Groups : log_gen[h] =< log_gen'[h]
  <2> SUFFICES ASSUME NEW h \in Groups, NEW j \in Groups
               PROVE  /\ log_leader_map[h][j] =< log_leader_map'[h][j]
                      /\ log_leader_map'[h][j] =< log_gen'[j] /\ log_leader_map'[h][j] \in Nat
                      /\ log_gen[j] =< log_gen'[j]
    OBVIOUS
  <2>1. log_gen[j] \in Nat
    BY <1>3
  <2> QED
    BY <1>k, <1>4, <1>5, <2>1
<1>7. /\ next_insert[n] = NoInsert /\ Unheard(n)
      /\ \A x \in Nodes : inbox[x] = <<>>
  BY <1>2 DEF NetworkInv, NetInv, IdleInv, SilentInv, Quiet
<1>8. SilentInv'
  <2>1. \A x \in Nodes : Unheard(x) => Unheard(x)'
    BY <1>1 DEF Unheard
  <2>2. \A x \in Nodes : status'[x] # "none" => Gen(x) =< log_gen'[Gid(x)]
    <3> SUFFICES ASSUME NEW x \in Nodes, status'[x] # "none"
                 PROVE  Gen(x) =< log_gen'[Gid(x)]
      OBVIOUS
    <3>1. Gid(x) \in Groups /\ Gen(x) \in Nat
      BY NodeFacts
    <3>2. CASE x = n
      BY <1>n, <1>4, <3>2
    <3>3. CASE x # n
      <4>1. Gen(x) =< log_gen[Gid(x)] /\ log_gen[Gid(x)] \in Nat
        BY <1>3, <1>4, <3>1, <3>3 DEF NetworkInv, SilentInv
      <4>2. log_gen[Gid(x)] =< log_gen'[Gid(x)] /\ log_gen'[Gid(x)] \in Nat
        BY <1>4, <1>6, <3>1, <4>1
      <4> QED
        BY <3>1, <4>1, <4>2
    <3> QED
      BY <3>2, <3>3
  <2>3. \A h \in Groups, j \in Nat : j =< log_gen[h] => j =< log_gen'[h]
    <3> SUFFICES ASSUME NEW h \in Groups, NEW j \in Nat, j =< log_gen[h]
                 PROVE  j =< log_gen'[h]
      OBVIOUS
    <3>1. log_gen[h] \in Nat /\ log_gen'[h] \in Nat
      BY <1>3, <1>4
    <3>2. log_gen[h] =< log_gen'[h]
      BY <1>6
    <3> QED
      BY <3>1, <3>2
  <2>4. \A e \in Linked : chan'[e] # <<>> => Gen(e[1]) =< log_gen'[Gid(e[1])]
    BY <1>1, <2>3, LinkedFacts, NodeFacts DEF NetworkInv, SilentInv
  <2>5. \A x \in Nodes, h \in Groups : network_buffer'[x][h].payloads # <<>> =>
          network_buffer'[x][h].gen =< log_gen'[h]
    BY <1>1, <2>3, TypeFacts DEF NetworkInv, SilentInv
  <2>6. \A x \in Nodes : \A c \in Range(remote_leader_changes'[x]) : c.gen =< log_gen'[c.gid]
    <3> SUFFICES ASSUME NEW x \in Nodes, NEW c \in Range(remote_leader_changes[x])
                 PROVE  c.gen =< log_gen'[c.gid]
      BY <1>1
    <3>1. c.gid \in Groups /\ c.gen \in Nat
      BY TypeFacts, ChangeFacts DEF NetworkInv
    <3> QED
      BY <2>3, <3>1 DEF NetworkInv, SilentInv
  <2>7. \A x \in Nodes : status'[x] # "leader" => Unheard(x)'
    BY <1>4, <2>1 DEF NetworkInv, SilentInv
  <2> QED
    BY <1>6, <2>2, <2>4, <2>5, <2>6, <2>7 DEF SilentInv
<1>9. \A x \in Nodes, h \in Groups, j \in Nat : x # n /\ Within(x, h, j) => Within(x, h, j)'
  BY <1>1, <1>4, <1>7 DEF Within
<1>10. \A x \in Nodes, h \in Groups : Within(x, h, log_leader_map[Gid(x)][h])'
  <2> SUFFICES ASSUME NEW x \in Nodes, NEW h \in Groups
               PROVE  Within(x, h, log_leader_map[Gid(x)][h])'
    OBVIOUS
  <2>1. Gid(x) \in Groups
    BY NodeFacts
  <2>2. CASE x = n
    <3>1. Range(<<LC>>) = {LC} /\ ~IsChange(LC)
      BY DEF Range, IsChange, LC
    <3>2. Range(NoInsert.rlcs) = {}
      BY DEF NoInsert, Range
    <3>3. leader_map'[n][h] = log_leader_map'[g][h] /\ log_leader_map'[g][h] \in Nat
      BY <1>4, <1>6
    <3>4. next_insert'[n] = NoInsert /\ inbox'[n] = <<LC>>
      BY <1>1, <1>4, <1>7
    <3>5. \A c \in Range(inbox'[n]) : ~IsChange(c)
      BY <3>1, <3>4
    <3>6. Range(next_insert'[n].rlcs) = {}
      BY <3>2, <3>4
    <3>7. leader_map'[n][h] =< log_leader_map'[g][h]
      BY <3>3
    <3> QED
      BY <1>n, <2>2, <3>5, <3>6, <3>7 DEF Within
  <2>3. CASE x # n
    <3>1. PICK i \in Nat : i = log_leader_map[Gid(x)][h]
      BY <1>5, <2>1
    <3>2. PICK j \in Nat : j = log_leader_map'[Gid(x)][h]
      BY <1>6, <2>1
    <3>3. i =< j
      BY <1>6, <2>1, <3>1, <3>2
    <3>4. Within(x, h, i)
      BY <3>1 DEF NetworkInv, LagInv
    <3>5. Within(x, h, j)
      BY <3>3, <3>4, WithinMore DEF NetworkInv
    <3>6. Within(x, h, j)'
      BY <1>9, <2>3, <3>5
    <3> QED
      BY <3>2, <3>6
  <2> QED
    BY <2>2, <2>3
<1>11. MonotoneInv'
  <2> SUFFICES ASSUME NEW x \in Nodes, NEW o \in Nodes, IsCurrent(x)', status'[o] = "leader",
                      Gid(o) = Gid(x), o # x, NEW h \in Groups
               PROVE  Within(o, h, leader_map[x][h])'
    BY DEF MonotoneInv
  <2>1. CASE x = n
    <3>1. leader_map'[x][h] = log_leader_map'[Gid(o)][h]
      BY <1>n, <1>4, <2>1
    <3> QED
      BY <1>10, <3>1
  <2>2. CASE x # n
    <3>1. Gid(x) # g
      <4>1. x = <<Gid(x), Gen(x)>>
        BY NodeFacts
      <4> QED
        BY <1>n, <1>4, <2>2, <4>1 DEF IsCurrent
    <3>2. o # n /\ IsCurrent(x) /\ status[o] = "leader"
      BY <1>n, <1>4, <2>2, <3>1, NodeFacts DEF IsCurrent
    <3>3. PICK j \in Nat : j = leader_map[x][h]
      BY <1>3
    <3>4. Within(o, h, j)
      BY <3>2, <3>3 DEF NetworkInv, MonotoneInv
    <3>5. Within(o, h, j)'
      BY <1>9, <3>2, <3>4
    <3> QED
      BY <1>4, <2>2, <3>3, <3>5
  <2> QED
    BY <2>1, <2>2
<1>12. BusyInv'
  BY <1>4 DEF BusyInv
<1>13. ElectedInv'
  <2>1. Unheard(n)'
    BY <1>1, <1>7 DEF Unheard
  <2>2. <<>> # <<LC>>
    OBVIOUS
  <2> QED
    BY <1>n, <1>4, <2>1, <2>2 DEF ElectedInv
<1>14. LetGoInv' /\ ForwardInv'
  <2>1. DOMAIN <<>> = {} /\ DOMAIN <<LC>> = {1} /\ <<LC>>[1] = LC /\ LC.type = "LeaderChanged"
    BY DEF LC
  <2>2. \A x \in Nodes : \A i \in DOMAIN inbox'[x] : inbox'[x][i].type = "LeaderChanged"
    BY <1>4, <2>1
  <2> QED
    BY <2>2 DEF LetGoInv, ForwardInv, IsChange
<1>15. \A x \in Nodes : status'[x] = "leader" =>
         \/ status[x] = "leader" /\ leader_map'[x] = leader_map[x]
         \/ status[x] # "leader" /\ inbox'[x] = <<LC>> /\ Gen(x) > log_gen[Gid(x)]
  <2> SUFFICES ASSUME NEW x \in Nodes, status'[x] = "leader"
               PROVE  \/ status[x] = "leader" /\ leader_map'[x] = leader_map[x]
                      \/ status[x] # "leader" /\ inbox'[x] = <<LC>> /\ Gen(x) > log_gen[Gid(x)]
    OBVIOUS
  <2>1. CASE x = n
    <3>1. log_gen[g] \in Nat
      BY <1>3
    <3> QED
      BY <1>k, <1>n, <1>2, <1>4, <2>1, <3>1
  <2>2. CASE x # n
    BY <1>4, <2>2
  <2> QED
    BY <2>1, <2>2
<1>16. \A x \in Nodes : inbox'[x] # inbox[x] => inbox'[x] = <<LC>> /\ status[x] # "leader"
  BY <1>2, <1>4, <1>7
<1> QED
  BY <1>2, <1>6, <1>8, <1>10, <1>11, <1>12, <1>13, <1>14, <1>15, <1>16 DEF NetworkInv, LagInv

(* What is left of a queue when its end is lost. *)
IsStart(ps, qs) == DOMAIN ps \subseteq DOMAIN qs /\ \A i \in DOMAIN ps : ps[i] = qs[i]

(* The node n ends, or follows: it holds nothing any more. *)
Drops(n) ==
  /\ status'[n] \notin {"leader", "none"}
  /\ \A g \in Groups : leader_map'[n][g] =< leader_map[n][g]
  /\ remote_leader_changes'[n] = <<>>
  /\ next_insert'[n] = NoInsert
  /\ \A g \in Groups : network_buffer'[n][g] = EmptyBuffer
  /\ \A e \in Linked : IF e[2] = n THEN chan'[e] = <<>> ELSE IsStart(chan'[e], chan[e])
  /\ \A x \in Nodes : inbox'[x] = <<>>
  /\ \A x \in Nodes : x # n =>
       /\ inbox[x] = <<>>
       /\ status'[x] = status[x]
       /\ leader_map'[x] = leader_map[x]
       /\ remote_leader_changes'[x] = remote_leader_changes[x]
       /\ next_insert'[x] = next_insert[x]
       /\ network_buffer'[x] = network_buffer[x]
  /\ UNCHANGED <<log_gen, log_leader_map, log_plms>>

(* A node that holds nothing any more keeps what is said of the network. *)
LEMMA DropNetwork ==
  ASSUME NetworkInv, NEW n \in Nodes, status[n] = "leader", NetInv(Messages, PLms)', Drops(n)
  PROVE  NetworkInv'
<1> USE DEF Drops
<1>1. EmptyBuffer.payloads = <<>> /\ Range(<<>>) = {} /\ NoInsert.rlcs = <<>>
  BY DEF EmptyBuffer, Range, NoInsert
<1>2. \A e \in Linked : chan'[e] # <<>> => chan[e] # <<>>
  <2>1. chan' \in [Linked -> Seq(Messages)] /\ DOMAIN <<>> = {}
    BY DEF NetInv, NetType
  <2>2. \A ps \in Seq(Messages) : DOMAIN ps = {} => ps = <<>>
    OBVIOUS
  <2> QED
    BY <2>1, <2>2 DEF IsStart
<1>3. \A x \in Nodes : Unheard(x) => Unheard(x)'
  BY <1>1, <1>2 DEF Unheard
<1>4. Unheard(n)'
  BY <1>1 DEF Unheard
<1>5. \A x \in Nodes : status'[x] # "leader" => Unheard(x)'
  BY <1>3, <1>4 DEF NetworkInv, SilentInv
<1>6. \A x \in Nodes : status[x] = "none" => status'[x] = "none"
  OBVIOUS
<1>7. \A x \in Nodes, g \in Groups : network_buffer'[x][g].payloads # <<>> =>
        network_buffer'[x][g] = network_buffer[x][g]
  BY <1>1
<1>8. \A x \in Nodes : \A c \in Range(remote_leader_changes'[x]) :
        c \in Range(remote_leader_changes[x])
  BY <1>1
<1>9. SilentInv'
  BY <1>2, <1>5, <1>6, <1>7, <1>8, SilentNext
<1>10. \A x \in Nodes : status'[x] = "leader" =>
         /\ status[x] = "leader"
         /\ \A g \in Groups : leader_map[x][g] =< leader_map'[x][g]
  <2>1. \A x \in Nodes, g \in Groups : leader_map[x][g] \in Nat
    BY TypeFacts DEF NetworkInv
  <2> QED
    BY <2>1
<1>11. \A x \in Nodes, g \in Groups, k \in Nat : Within(x, g, k) => Within(x, g, k)'
  <2> SUFFICES ASSUME NEW x \in Nodes, NEW g \in Groups, NEW k \in Nat, Within(x, g, k)
               PROVE  Within(x, g, k)'
    OBVIOUS
  <2>1. CASE x # n
    BY <2>1, WithinSame
  <2>2. CASE x = n
    <3>1. leader_map[n][g] \in Nat
      BY TypeFacts DEF NetworkInv
    <3>2. leader_map'[n][g] \in Nat
      <4>1. leader_map' \in [Nodes -> [Groups -> Gens]]
        BY DEF NetInv, NetType
      <4> QED
        BY <4>1, GensNat
    <3> QED
      BY <1>1, <2>2, <3>1, <3>2 DEF Within
  <2> QED
    BY <2>1, <2>2
<1>12. LagInv' /\ MonotoneInv'
  BY <1>10, <1>11, CalmInv
<1> QED
  BY <1>9, <1>12, QuietNext DEF NetworkInv

(* The old leader that learns that it is deposed drops all it holds. *)
LEMMA LoseNetwork ==
  ASSUME NetworkInv, Quiet, NEW n \in Nodes, LoseLeadership(n)
  PROVE  NetworkInv' /\ Drops(n)
<1>1. NetInv(Messages, PLms)'
  BY LoseNet DEF NetworkInv
<1>2. /\ status[n] = "leader"
      /\ next_insert[n] = NoInsert
      /\ status' = [status EXCEPT ![n] = "retired"]
      /\ leader_map' = [leader_map EXCEPT ![n] = [h \in Groups |-> 0]]
      /\ remote_leader_changes' = [remote_leader_changes EXCEPT ![n] = <<>>]
      /\ network_buffer' = [network_buffer EXCEPT ![n] = [h \in Groups |-> EmptyBuffer]]
      /\ chan' = [e \in Linked |-> IF e[2] = n THEN <<>> ELSE chan[e]]
      /\ UNCHANGED <<log_gen, log_leader_map, log_plms, next_insert, inbox>>
  BY DEF LoseLeadership, logVars
<1>3. NetType(Messages, PLms) /\ \A g \in Groups : leader_map[n][g] \in Nat
  BY TypeFacts DEF NetworkInv, NetInv
<1>4. /\ \A g \in Groups : leader_map'[n][g] =< leader_map[n][g]
      /\ status'[n] = "retired"
      /\ remote_leader_changes'[n] = <<>>
      /\ \A g \in Groups : network_buffer'[n][g] = EmptyBuffer
  BY <1>2, <1>3 DEF NetType
<1>5. \A x \in Nodes : x # n =>
        /\ status'[x] = status[x]
        /\ leader_map'[x] = leader_map[x]
        /\ remote_leader_changes'[x] = remote_leader_changes[x]
        /\ network_buffer'[x] = network_buffer[x]
  BY <1>2, <1>3 DEF NetType
<1>6. Drops(n)
  BY <1>2, <1>4, <1>5 DEF Drops, Quiet, IsStart
<1> QED
  BY <1>1, <1>2, <1>6, DropNetwork

(* The nodes of the TM and of the RMs. *)
LEMMA NodeKinds ==
  /\ TM \in Groups /\ RMs \subseteq Groups /\ Groups = RMs \cup {TM} /\ TM \notin RMs
  /\ Nodes = TMNodes \cup RMNodes
  /\ TMNodes \cap RMNodes = {}
  /\ \A n \in Nodes : (n \in TMNodes <=> Gid(n) = TM) /\ (n \in RMNodes <=> Gid(n) \in RMs)
BY STMAssumption DEF Nodes, TMNodes, RMNodes, Gid

(* A node handles an input while nothing is forwarded to the others. *)
LEMMA BusyAlone ==
  ASSUME NetworkInv, NEW n \in Nodes, NEW in \in Inputs(n)
  PROVE  \A x \in Nodes : x # n => inbox[x] = <<>>
<1>1. CASE inbox[n] # <<>>
  BY <1>1 DEF NetworkInv, BusyInv
<1>2. CASE inbox[n] = <<>>
  BY <1>2 DEF Inputs, Quiet
<1> QED
  BY <1>1, <1>2

(* So does a node whose process ends. *)
LEMMA PanicNetwork ==
  ASSUME NetworkInv, NEW n \in Nodes, Panic(n)
  PROVE  NetworkInv' /\ Drops(n) /\ status[n] = "leader"
<1> DEFINE sent == {e \in Linked : e[1] = n}
<1>1. /\ status' = [status EXCEPT ![n] = "panicked"]
      /\ remote_leader_changes' = [remote_leader_changes EXCEPT ![n] = <<>>]
      /\ tablet_bundle' = [tablet_bundle EXCEPT ![n] = <<>>]
      /\ tablet_bundles' = [tablet_bundles EXCEPT ![n] = <<>>]
      /\ next_insert' = [next_insert EXCEPT ![n] = NoInsert]
      /\ network_buffer' = [network_buffer EXCEPT ![n] = [h \in Groups |-> EmptyBuffer]]
      /\ inbox' = [inbox EXCEPT ![n] = <<>>]
      /\ UNCHANGED <<log_gen, log_leader_map, log_plms, leader_map>>
  BY DEF Panic, logVars
<1>2. PICK left \in [sent -> UNION {Prefixes(chan[e]) : e \in sent}] :
        /\ \A e \in sent : left[e] \in Prefixes(chan[e])
        /\ chan' = [e \in Linked |-> IF e[2] = n THEN <<>>
                                     ELSE IF e[1] = n THEN left[e] ELSE chan[e]]
  BY DEF Panic
<1>3. PICK in \in Inputs(n) : TRUE
  BY DEF Panic
<1>4. status[n] = "leader" /\ \A x \in Nodes : x # n => inbox[x] = <<>>
  BY <1>3, BusyAlone, InputFacts DEF NetworkInv
<1>5. NetType(Messages, PLms) /\ \A g \in Groups : leader_map[n][g] \in Nat
  BY TypeFacts DEF NetworkInv, NetInv
<1>6. \A e \in Linked : /\ chan'[e] \in Seq(Messages)
                         /\ IF e[2] = n THEN chan'[e] = <<>> ELSE IsStart(chan'[e], chan[e])
  <2> SUFFICES ASSUME NEW e \in Linked
               PROVE  /\ chan'[e] \in Seq(Messages)
                      /\ IF e[2] = n THEN chan'[e] = <<>> ELSE IsStart(chan'[e], chan[e])
    OBVIOUS
  <2>1. chan[e] \in Seq(Messages)
    BY <1>5 DEF NetType
  <2>2. ASSUME NEW i \in 0 .. Len(chan[e])
        PROVE  /\ SubSeq(chan[e], 1, i) \in Seq(Messages)
               /\ IsStart(SubSeq(chan[e], 1, i), chan[e])
    BY <2>1 DEF IsStart
  <2>3. CASE e[2] = n
    BY <1>2, <2>3
  <2>4. CASE e[2] # n /\ e[1] = n
    <3>1. chan'[e] = left[e] /\ left[e] \in Prefixes(chan[e])
      BY <1>2, <2>4
    <3>2. PICK i \in 0 .. Len(chan[e]) : left[e] = SubSeq(chan[e], 1, i)
      BY <3>1 DEF Prefixes
    <3> QED
      BY <2>2, <2>4, <3>1, <3>2
  <2>5. CASE e[2] # n /\ e[1] # n
    BY <1>2, <2>1, <2>5 DEF IsStart
  <2> QED
    BY <2>3, <2>4, <2>5
<1>7. /\ \A g \in Groups : leader_map'[n][g] =< leader_map[n][g]
      /\ status'[n] = "panicked"
      /\ remote_leader_changes'[n] = <<>>
      /\ next_insert'[n] = NoInsert
      /\ tablet_bundle'[n] = <<>> /\ tablet_bundles'[n] = <<>>
      /\ \A g \in Groups : network_buffer'[n][g] = EmptyBuffer
  BY <1>1, <1>5 DEF NetType
<1>8. \A x \in Nodes : x # n =>
        /\ status'[x] = status[x]
        /\ leader_map'[x] = leader_map[x]
        /\ remote_leader_changes'[x] = remote_leader_changes[x]
        /\ next_insert'[x] = next_insert[x]
        /\ tablet_bundle'[x] = tablet_bundle[x] /\ tablet_bundles'[x] = tablet_bundles[x]
        /\ network_buffer'[x] = network_buffer[x]
  BY <1>1, <1>5 DEF NetType
<1>9. \A x \in Nodes : inbox'[x] = <<>>
  BY <1>1, <1>4, <1>5 DEF NetType
<1>10. NetType(Messages, PLms)'
  <2>1. EmptyBuffer \in Buffers(Messages) /\ NoInsert \in Bundles(PLms)
    BY NetworkAssumption DEF EmptyBuffer, Buffers, Gens, NoInsert, Bundles
  <2>2. /\ status' \in [Nodes -> {"none", "leader", "retired", "panicked"}]
        /\ remote_leader_changes' \in [Nodes -> Seq(RLCs)]
        /\ tablet_bundle' \in [Nodes -> Seq(PLms)]
        /\ tablet_bundles' \in [Nodes -> Seq(PLms)]
    BY <1>1, <1>5 DEF NetType
  <2>3. /\ next_insert' \in [Nodes -> Bundles(PLms)]
        /\ network_buffer' \in [Nodes -> [Groups -> Buffers(Messages)]]
    BY <1>1, <1>5, <2>1 DEF NetType
  <2>4. chan' \in [Linked -> Seq(Messages)] /\ inbox' \in [Nodes -> Seq(Items(Messages, PLms))]
    <3>1. chan' = [e \in Linked |-> chan'[e]]
      BY <1>2
    <3> QED
      BY <1>1, <1>5, <1>6, <3>1 DEF NetType
  <2> QED
    BY <1>1, <1>5, <2>2, <2>3, <2>4 DEF NetType
<1>11. EmptyBuffer.payloads = <<>> /\ Range(<<>>) = {}
  BY DEF EmptyBuffer, Range
<1>12. StatusInv' /\ IdleInv'
  BY <1>1, <1>7, <1>8, <1>9 DEF NetworkInv, NetInv, StatusInv, IdleInv
<1>13. FreshInv' /\ BlockedInv'
  BY <1>7, <1>8, <1>9, <1>11 DEF NetworkInv, NetInv, FreshInv, BlockedInv
<1>14. NetInv(Messages, PLms)'
  BY <1>10, <1>12, <1>13 DEF NetInv
<1>15. Drops(n)
  BY <1>1, <1>4, <1>6, <1>7, <1>8, <1>9 DEF Drops
<1> QED
  BY <1>4, <1>14, <1>15, DropNetwork

(* What is left of the queues, and of what was forwarded. *)
LEMMA InputQueues ==
  ASSUME NetInv(Messages, PLms), NEW n \in Nodes, NEW in \in Inputs(n)
  PROVE  /\ \A e \in Linked :
              \/ in.queues[e] = chan[e]
              \/ e[2] = n /\ chan[e] # <<>> /\ in.queues[e] = Tail(chan[e])
         /\ \A i \in DOMAIN in.rest : i + 1 \in DOMAIN inbox[n] /\ in.rest[i] = inbox[n][i + 1]
         /\ DOMAIN in.rest \subseteq Nat
<1>1. CASE IsForwarded(n, in)
  <2>1. inbox[n] \in Seq(Items(Messages, PLms)) /\ inbox[n] # <<>> /\ in.rest = Tail(inbox[n]) /\ in.queues = chan
    BY <1>1, TypeFacts DEF IsForwarded
  <2>2. \A i \in DOMAIN Tail(inbox[n]) : i \in Nat /\ i + 1 \in DOMAIN inbox[n] /\ Tail(inbox[n])[i] = inbox[n][i + 1]
    BY <2>1
  <2> QED
    BY <2>1, <2>2
<1>2. CASE IsDelivered(n, in)
  <2>1. PICK e \in Linked : e[2] = n /\ chan[e] # <<>> /\ in.queues = [chan EXCEPT ![e] = Tail(@)]
    BY <1>2 DEF IsDelivered
  <2>2. chan \in [Linked -> Seq(Messages)] /\ in.rest = <<>> /\ DOMAIN <<>> = {}
    BY <1>2, TypeFacts DEF IsDelivered
  <2> QED
    BY <2>1, <2>2
<1> QED
  BY <1>1, <1>2, InputSource

(* Only a RemoteLeaderChanged changes what a node knows. *)
LEMMA HandledMap ==
  ASSUME NetInv(Messages, PLms), NEW n \in Nodes, NEW in \in Inputs(n), HandlesAt(n, in)
  PROVE  /\ \A x \in Nodes : x # n => leader_map'[x] = leader_map[x]
         /\ \A g \in Groups :
              /\ leader_map[n][g] =< leader_map'[n][g]
              /\ leader_map'[n][g] \in Nat
              /\ leader_map'[n][g] # leader_map[n][g] =>
                   /\ IsChange(in.item) /\ in.item \in Range(inbox[n])
                   /\ in.item.gid = g /\ in.item.gen = leader_map'[n][g]
<1>1. leader_map \in [Nodes -> [Groups -> Nat]]
  BY TypeFacts
<1>2. in.item \in Items(Messages, PLms) /\ (in.item.type # "Payload" => in.item \in Range(inbox[n]))
  BY InputFacts
<1>3. CASE leader_map' = leader_map
  BY <1>1, <1>3
<1>4. CASE /\ in.item.type = "RemoteLeaderChanged"
           /\ leader_map' = [leader_map EXCEPT ![n] = RemoteLeaderChanged(@, in.item)]
  <2>1. in.item \in RLCs
    BY <1>2, <1>4 DEF Items, Unblocks, PLmItems, PayloadItems, LC
  <2>2. in.item.gid \in Groups /\ in.item.gen \in Nat
    BY <2>1, NetworkAssumption DEF RLCs
  <2>3. /\ \A x \in Nodes : x # n => leader_map'[x] = leader_map[x]
        /\ leader_map'[n] = RemoteLeaderChanged(leader_map[n], in.item)
    BY <1>1, <1>4
  <2>4. ASSUME NEW g \in Groups
        PROVE  /\ leader_map[n][g] =< leader_map'[n][g]
               /\ leader_map'[n][g] \in Nat
               /\ leader_map'[n][g] # leader_map[n][g] =>
                    in.item.gid = g /\ in.item.gen = leader_map'[n][g]
    <3>1. leader_map[n] \in [Groups -> Nat] /\ leader_map[n][g] \in Nat
      BY <1>1
    <3> QED
      BY <2>2, <2>3, <3>1 DEF RemoteLeaderChanged
  <2> QED
    BY <1>2, <1>4, <2>3, <2>4 DEF IsChange
<1> QED
  BY <1>3, <1>4 DEF HandlesAt

(* What the node n does with an input: it sends to leaders that it knows. *)
Handles(n, in) ==
  /\ HandlesAt(n, in)
  /\ chan' \in [Linked -> Seq(Messages)]
  /\ tablet_bundle' \in [Nodes -> Seq(PLms)]
  /\ tablet_bundles' \in [Nodes -> Seq(PLms)]
  /\ \A e \in Linked :
       \/ chan'[e] = in.queues[e]
       \/ /\ e[1] = n
          /\ status[e[2]] = "leader"
          /\ Gen(e[2]) = leader_map'[n][Gid(e[2])]
          /\ \E p \in Messages : chan'[e] = Append(in.queues[e], p)

(* Handling an input, whatever is sent, keeps what is said of the network. *)
LEMMA HandleNetwork ==
  ASSUME NetworkInv, NEW n \in Nodes, NEW in \in Inputs(n), Handles(n, in)
  PROVE  NetworkInv' /\ WithinKept /\ \A x \in Nodes : inbox'[x] # <<LC>>
<1>0. HandlesAt(n, in)
  BY DEF Handles
<1>1. NetInv(Messages, PLms)'
  BY HandleAtNet DEF Handles, NetworkInv
<1>2. /\ inbox' = [inbox EXCEPT ![n] = in.rest]
      /\ UNCHANGED <<log_gen, log_leader_map, status, remote_leader_changes, next_insert,
                     network_buffer>>
  BY <1>0 DEF HandlesAt, logVars
<1>3. \A x \in Nodes : x # n => inbox[x] = <<>>
  BY BusyAlone
<1>4. /\ inbox'[n] = in.rest
      /\ \A x \in Nodes : x # n => inbox'[x] = <<>> /\ DOMAIN inbox'[x] = {}
  BY <1>2, <1>3 DEF NetworkInv, NetInv, NetType
<1>5. /\ status[n] = "leader"
      /\ Range(in.rest) \subseteq Range(inbox[n])
      /\ LC \notin Range(in.rest)
  BY InputFacts DEF NetworkInv
<1>6. /\ \A x \in Nodes : x # n => leader_map'[x] = leader_map[x]
      /\ \A g \in Groups :
           /\ leader_map[n][g] =< leader_map'[n][g]
           /\ leader_map'[n][g] # leader_map[n][g] =>
                /\ IsChange(in.item) /\ in.item \in Range(inbox[n])
                /\ in.item.gid = g /\ in.item.gen = leader_map'[n][g]
  BY <1>0, HandledMap DEF NetworkInv
<1>7. /\ \A e \in Linked :
           \/ in.queues[e] = chan[e]
           \/ e[2] = n /\ chan[e] # <<>> /\ in.queues[e] = Tail(chan[e])
      /\ \A i \in DOMAIN in.rest : i + 1 \in DOMAIN inbox[n] /\ in.rest[i] = inbox[n][i + 1]
      /\ DOMAIN in.rest \subseteq Nat
  BY InputQueues DEF NetworkInv
<1>8. \A x \in Nodes, g \in Groups, k \in Nat : Within(x, g, k) => Within(x, g, k)'
  <2> SUFFICES ASSUME NEW x \in Nodes, NEW g \in Groups, NEW k \in Nat, Within(x, g, k)
               PROVE  Within(x, g, k)'
    OBVIOUS
  <2>1. CASE x # n
    BY <1>2, <1>3, <1>4, <1>6, <2>1, WithinSame
  <2>2. CASE x = n
    <3>1. leader_map'[n][g] =< k
      BY <1>6, <2>2 DEF Within
    <3> QED
      BY <1>2, <1>4, <1>5, <2>2, <3>1 DEF Within
  <2> QED
    BY <2>1, <2>2
<1>9. \A x \in Nodes, g \in Groups : leader_map[x][g] =< leader_map'[x][g]
  <2>1. \A x \in Nodes, g \in Groups : leader_map[x][g] \in Nat
    BY TypeFacts DEF NetworkInv
  <2> QED
    BY <1>6, <2>1
<1>10. LagInv' /\ MonotoneInv'
  BY <1>1, <1>2, <1>8, <1>9, CalmInv
<1>11. \A x \in Nodes : status'[x] # "leader" => Unheard(x)'
  <2> SUFFICES ASSUME NEW x \in Nodes, status'[x] # "leader"
               PROVE  Unheard(x)'
    OBVIOUS
  <2>1. x # n /\ Unheard(x) /\ status[x] # "leader"
    BY <1>2, <1>5 DEF NetworkInv, SilentInv
  <2>2. \A e \in Linked : e[2] = x => chan'[e] = chan[e]
    BY <1>7, <2>1 DEF Handles
  <2> QED
    BY <1>2, <2>1, <2>2 DEF Unheard
<1>12. \A e \in Linked : chan'[e] # <<>> => chan[e] # <<>> \/ status[e[1]] = "leader"
  BY <1>5, <1>7 DEF Handles
<1>13. SilentInv'
  BY <1>2, <1>11, <1>12, SilentNext
<1>14. BusyInv'
  BY <1>4 DEF BusyInv
<1>18. \A x \in Nodes : inbox'[x] # <<LC>>
  <2>1. in.rest # <<LC>> /\ <<>> # <<LC>>
    BY <1>5 DEF Range
  <2> QED
    BY <1>4, <2>1
<1>15. ElectedInv'
  BY <1>18 DEF ElectedInv
<1>16. ForwardInv'
  <2> SUFFICES ASSUME NEW i \in DOMAIN in.rest, NEW j \in DOMAIN in.rest, i < j,
                      IsChange(in.rest[j])
               PROVE  IsChange(in.rest[i])
    BY <1>4 DEF ForwardInv
  <2>1. i + 1 < j + 1
    BY <1>7
  <2> QED
    BY <1>7, <2>1 DEF NetworkInv, ForwardInv
<1>17. LetGoInv'
  <2> SUFFICES ASSUME NEW i \in DOMAIN in.rest, in.rest[i].type = "Payload"
               PROVE  /\ \A j \in DOMAIN in.rest : ~IsChange(in.rest[j])
                      /\ network_buffer[n][in.rest[i].from].payloads = <<>>
    BY <1>2, <1>4 DEF LetGoInv
  <2> QED
    BY <1>7 DEF NetworkInv, LetGoInv
<1> QED
  BY <1>1, <1>8, <1>10, <1>13, <1>14, <1>15, <1>16, <1>17, <1>18 DEF NetworkInv, WithinKept

(* What is said of the network holds at the start, when nothing is under   *)
(* way.                                                                    *)
LEMMA InitNetwork ==
  ASSUME NetInit
  PROVE  NetworkInv /\ Quiet /\ \A n \in Nodes : Unheard(n)
<1>1. NetInv(Messages, PLms)
  BY InitNet
<1>2. /\ Quiet
      /\ \A n \in Nodes : inbox[n] = <<>> /\ next_insert[n] = NoInsert /\ remote_leader_changes[n] = <<>>
      /\ \A n \in Nodes, g \in Groups : leader_map[n][g] = 0 /\ network_buffer[n][g] = EmptyBuffer
      /\ \A g, h \in Groups : log_leader_map[g][h] = 0
      /\ \A g \in Groups : log_gen[g] = 0
      /\ \A e \in Linked : chan[e] = <<>>
      /\ \A n \in Nodes : status[n] # "none" => Gen(n) = 0
  BY DEF NetInit, Quiet
<1>3. Range(<<>>) = {} /\ EmptyBuffer.payloads = <<>> /\ NoInsert.rlcs = <<>> /\ DOMAIN <<>> = {} /\ <<>> # <<LC>>
  BY DEF Range, EmptyBuffer, NoInsert
<1>4. \A n \in Nodes : Unheard(n)
  BY <1>2, <1>3 DEF Unheard
<1>5. \A n \in Nodes, g \in Groups : Within(n, g, 0)
  BY <1>2, <1>3 DEF Within
<1>6. LagInv /\ MonotoneInv
  BY <1>2, <1>5, NodeFacts DEF LagInv, MonotoneInv
<1>7. SilentInv
  BY <1>2, <1>3, <1>4, NodeFacts, LinkedFacts DEF SilentInv
<1>8. BusyInv /\ ElectedInv /\ LetGoInv /\ ForwardInv
  BY <1>2, <1>3 DEF BusyInv, ElectedInv, LetGoInv, ForwardInv
<1> QED
  BY <1>1, <1>2, <1>4, <1>6, <1>7, <1>8 DEF NetworkInv
-----------------------------------------------------------------------------
(* The messages under way *)

(* No message is added to those under way. *)
NoneAdded == \A e \in Linked : \A p : From(e[1], e[2], p)' => From(e[1], e[2], p)

(* The TM and the RMs send each other messages. *)
LEMMA LinkedKinds ==
  /\ \A t \in TMNodes, m \in RMNodes : <<t, m>> \in Linked /\ <<m, t>> \in Linked
  /\ \A e \in Linked : \/ e[1] \in TMNodes /\ e[2] \in RMNodes
                       \/ e[1] \in RMNodes /\ e[2] \in TMNodes
<1>1. TMNodes \subseteq Nodes /\ RMNodes \subseteq Nodes
  BY NodeKinds
<1>2. \A t \in TMNodes, m \in RMNodes : Gid(t) = TM /\ Gid(m) \in RMs
  BY DEF TMNodes, RMNodes, Gid
<1>3. Links = ({TM} \X RMs) \cup (RMs \X {TM})
  BY STMAssumption
<1>4. \A t \in TMNodes, m \in RMNodes : <<t, m>> \in Linked /\ <<m, t>> \in Linked
  BY <1>1, <1>2, <1>3 DEF Linked
<1>5. \A e \in Linked : \/ e[1] \in TMNodes /\ e[2] \in RMNodes
                        \/ e[1] \in RMNodes /\ e[2] \in TMNodes
  <2> SUFFICES ASSUME NEW e \in Linked
               PROVE  \/ e[1] \in TMNodes /\ e[2] \in RMNodes
                      \/ e[1] \in RMNodes /\ e[2] \in TMNodes
    OBVIOUS
  <2>1. e[1] \in Nodes /\ e[2] \in Nodes /\ <<Gid(e[1]), Gid(e[2])>> \in Links
    BY LinkedFacts
  <2>2. \/ Gid(e[1]) = TM /\ Gid(e[2]) \in RMs
        \/ Gid(e[1]) \in RMs /\ Gid(e[2]) = TM
    BY <1>3, <2>1
  <2> QED
    BY <2>1, <2>2, NodeKinds
<1> QED
  BY <1>4, <1>5

(* What is sorted stays so when the first is taken off. *)
LEMMA SortedTail ==
  ASSUME NEW s \in Seq(Messages), s # <<>>, Sorted(s)
  PROVE  Sorted(Tail(s)) /\ (Head(s) \in Ends => Range(s) \cap Asks = {})
<1>1. /\ DOMAIN s = 1 .. Len(s) /\ Len(s) \in Nat /\ Len(s) >= 1 /\ Head(s) = s[1]
      /\ DOMAIN Tail(s) = 1 .. Len(s) - 1
      /\ \A i \in 1 .. Len(s) - 1 : Tail(s)[i] = s[i + 1]
  OBVIOUS
<1>2. Sorted(Tail(s))
  <2> SUFFICES ASSUME NEW i \in 1 .. Len(s) - 1, NEW j \in 1 .. Len(s) - 1, i < j,
                      s[i + 1] \in Ends
               PROVE  s[j + 1] \notin Asks
    BY <1>1 DEF Sorted
  <2>1. i + 1 \in DOMAIN s /\ j + 1 \in DOMAIN s /\ i + 1 < j + 1
    BY <1>1
  <2> QED
    BY <2>1 DEF Sorted
<1>3. ASSUME Head(s) \in Ends, NEW p \in Range(s), p \in Asks
      PROVE  FALSE
  <2>1. PICK j \in DOMAIN s : p = s[j]
    BY <1>3 DEF Range
  <2>2. j # 1
    BY <1>1, <1>3, <2>1 DEF Asks, Ends
  <2>3. 1 \in DOMAIN s /\ 1 < j
    BY <1>1, <2>1, <2>2
  <2> QED
    BY <1>1, <1>3, <2>1, <2>3 DEF Sorted
<1> QED
  BY <1>2, <1>3

(* And when something is appended that may be. *)
LEMMA SortedAppend ==
  ASSUME NEW s \in Seq(Messages), NEW p \in Messages, Sorted(s),
         p \in Asks => Range(s) \cap Ends = {}
  PROVE  Sorted(Append(s, p))
<1>1. /\ Len(s) \in Nat /\ DOMAIN s = 1 .. Len(s)
      /\ DOMAIN Append(s, p) = 1 .. Len(s) + 1
      /\ Append(s, p)[Len(s) + 1] = p
      /\ \A i \in 1 .. Len(s) : Append(s, p)[i] = s[i]
  OBVIOUS
<1> SUFFICES ASSUME NEW i \in 1 .. Len(s) + 1, NEW j \in 1 .. Len(s) + 1, i < j,
                    Append(s, p)[i] \in Ends
             PROVE  Append(s, p)[j] \notin Asks
  BY <1>1 DEF Sorted
<1>2. i \in 1 .. Len(s) /\ Append(s, p)[i] = s[i]
  BY <1>1
<1>3. CASE j \in 1 .. Len(s)
  BY <1>1, <1>2, <1>3 DEF Sorted
<1>4. CASE j = Len(s) + 1
  <2>1. s[i] \in Range(s) /\ s[i] \in Ends
    BY <1>1, <1>2 DEF Range
  <2> QED
    BY <1>1, <1>4, <2>1
<1> QED
  BY <1>1, <1>3, <1>4

(* Nothing changes for a pair of nodes. *)
LEMMA FromSame ==
  ASSUME UNCHANGED <<chan, network_buffer, leader_map, inbox>>, FifoInv
  PROVE  NoneAdded /\ FifoInv'
BY DEF NoneAdded, From, FifoInv, InOrder

(* The queues and buffers stay, and no message is let go. *)
LEMMA QuietFrom ==
  ASSUME UNCHANGED <<chan, network_buffer>>, FifoInv,
         \A n \in Nodes : \A c \in Range(inbox'[n]) : c.type # "Payload"
  PROVE  NoneAdded /\ FifoInv'
<1>1. \A n \in Nodes : \A g, p : Payload(g, p) \notin Range(inbox'[n])
  BY DEF Payload
<1>2. NoneAdded
  BY <1>1, LinkedFacts DEF NoneAdded, From
<1>3. \A n \in Nodes : \A i \in DOMAIN inbox'[n] : \A g, p : inbox'[n][i] # Payload(g, p)
  BY <1>1 DEF Range
<1>4. FifoInv'
  <2> SUFFICES ASSUME NEW e \in Linked
               PROVE  InOrder(e[1], e[2])'
    BY DEF FifoInv
  <2>1. InOrder(e[1], e[2]) /\ e[2] \in Nodes
    BY LinkedFacts DEF FifoInv
  <2> QED
    BY <1>1, <1>3, <2>1 DEF InOrder
<1> QED
  BY <1>2, <1>4

(* A node drops all that was sent to it. *)
LEMMA DropFrom ==
  ASSUME FifoInv, NEW n \in Nodes, Drops(n)
  PROVE  NoneAdded /\ FifoInv'
<1>1. /\ EmptyBuffer.payloads = <<>> /\ Range(<<>>) = {} /\ DOMAIN <<>> = {} /\ Sorted(<<>>)
  BY DEF EmptyBuffer, Range, Sorted
<1>2. \A e \in Linked : e[2] = n => /\ chan'[e] = <<>>
                                    /\ network_buffer'[e[2]][Gid(e[1])].payloads = <<>>
                                    /\ inbox'[e[2]] = <<>>
  <2> SUFFICES ASSUME NEW e \in Linked, e[2] = n
               PROVE  /\ chan'[e] = <<>>
                      /\ network_buffer'[e[2]][Gid(e[1])].payloads = <<>>
                      /\ inbox'[e[2]] = <<>>
    OBVIOUS
  <2>1. Gid(e[1]) \in Groups
    BY LinkedFacts, NodeFacts
  <2>2. network_buffer'[n][Gid(e[1])] = EmptyBuffer /\ inbox'[n] = <<>>
    BY <2>1 DEF Drops
  <2>3. chan'[e] = <<>>
    BY DEF Drops
  <2> QED
    BY <1>1, <2>2, <2>3
<1>3. \A e \in Linked : e[2] # n => /\ IsStart(chan'[e], chan[e])
                                    /\ network_buffer'[e[2]] = network_buffer[e[2]]
                                    /\ inbox'[e[2]] = <<>>
                                    /\ inbox[e[2]] = <<>>
                                    /\ leader_map'[e[2]] = leader_map[e[2]]
  BY LinkedFacts DEF Drops
<1>4. NoneAdded
  <2> SUFFICES ASSUME NEW e \in Linked, NEW p, From(e[1], e[2], p)'
               PROVE  From(e[1], e[2], p)
    BY DEF NoneAdded
  <2>1. e = <<e[1], e[2]>>
    BY LinkedFacts
  <2>2. e[2] # n
    BY <1>1, <1>2, <2>1 DEF From
  <2>3. p \in Range(chan'[e]) => p \in Range(chan[e])
    BY <1>3, <2>2 DEF IsStart, Range
  <2> QED
    BY <1>3, <2>1, <2>2, <2>3 DEF From
<1>5. FifoInv'
  <2> SUFFICES ASSUME NEW e \in Linked
               PROVE  InOrder(e[1], e[2])'
    BY DEF FifoInv
  <2>1. e = <<e[1], e[2]>> /\ InOrder(e[1], e[2])
    BY LinkedFacts DEF FifoInv
  <2>2. CASE e[2] = n
    BY <1>1, <1>2, <2>1, <2>2 DEF InOrder
  <2>3. CASE e[2] # n
    <3>1. IsStart(chan'[e], chan[e])
      BY <1>3, <2>3
    <3>2. Sorted(chan[e]) => Sorted(chan'[e])
      BY <3>1 DEF Sorted, IsStart
    <3>3. Range(chan'[e]) \subseteq Range(chan[e])
      BY <3>1 DEF IsStart, Range
    <3> QED
      BY <1>3, <2>1, <2>3, <3>2, <3>3 DEF InOrder
  <2> QED
    BY <2>2, <2>3
<1> QED
  BY <1>4, <1>5

(* A message that is not delivered at once is dropped or held back. *)
LEMMA ReceiveFrom ==
  ASSUME NetworkInv, FifoInv, Quiet, NEW e \in Linked, Receive(e[2], e[1])
  PROVE  NoneAdded /\ FifoInv'
<1>n. PICK n \in Nodes : n = e[2]
  BY LinkedFacts
<1>g. PICK g \in Groups : g = Gid(e[1])
  BY LinkedFacts, NodeFacts
<1>k. PICK k \in Gens : k = Gen(e[1])
  BY LinkedFacts, NodeFacts
<1> DEFINE b == network_buffer[n][g].payloads
           m == Head(chan[e])
<1>0. e = <<e[1], n>> /\ e[1] \in Nodes /\ e[1] = <<g, k>>
  BY <1>n, <1>g, <1>k, LinkedFacts, NodeFacts
<1>1. /\ chan[e] # <<>>
      /\ chan' = [chan EXCEPT ![e] = Tail(@)]
      /\ UNCHANGED <<leader_map, inbox>>
  BY <1>n, <1>0 DEF Receive
<1>2. chan \in [Linked -> Seq(Messages)] /\ chan[e] \in Seq(Messages)
  BY TypeFacts DEF NetworkInv
<1>3. m \in Messages /\ m \in Range(chan[e]) /\ Range(Tail(chan[e])) \subseteq Range(chan[e])
  BY <1>1, <1>2, RangeTail
<1>4. \A d \in Linked : chan'[d] = IF d = e THEN Tail(chan[e]) ELSE chan[d]
  BY <1>1, <1>2
<1>5. \/ network_buffer' = network_buffer
      \/ /\ b # <<>> /\ network_buffer[n][g].gen = k
         /\ network_buffer' = [network_buffer EXCEPT ![n][g] = [gen |-> k, payloads |-> Append(b, m)]]
      \/ /\ b # <<>> => k > network_buffer[n][g].gen
         /\ network_buffer' = [network_buffer EXCEPT ![n][g] = [gen |-> k, payloads |-> <<m>>]]
  <2>1. CASE UNCHANGED network_buffer
    BY <2>1
  <2>2. CASE /\ k = Known(n, g)
             /\ network_buffer' = [network_buffer EXCEPT ![n][g] = [gen |-> k, payloads |-> Append(b, m)]]
    <3>1. ~Delivers(n, e[1]) /\ status[n] = "leader"
      BY <1>n DEF Receive
    <3>2. b # <<>>
      BY <1>g, <1>k, <1>0, <1>1, <2>2, <3>1 DEF Known, Delivers
    <3> QED
      BY <2>2, <3>2 DEF Known
  <2>3. CASE /\ k > Known(n, g)
             /\ network_buffer' = [network_buffer EXCEPT ![n][g] = [gen |-> k, payloads |-> <<m>>]]
    BY <2>3 DEF Known
  <2> QED
    BY <1>n, <1>g, <1>k, <1>0, <2>1, <2>2, <2>3 DEF Receive
<1>6. \A d \in Linked : ~(d[2] = n /\ Gid(d[1]) = g) =>
        network_buffer'[d[2]][Gid(d[1])] = network_buffer[d[2]][Gid(d[1])]
  <2>1. network_buffer \in [Nodes -> [Groups -> Buffers(Messages)]]
    BY DEF NetworkInv, NetInv, NetType
  <2>2. \A x \in Nodes, h \in Groups : ~(x = n /\ h = g) =>
          network_buffer'[x][h] = network_buffer[x][h]
    BY <1>5, <2>1
  <2> QED
    BY <2>2, LinkedFacts, NodeFacts
<1>7. \/ network_buffer' = network_buffer
      \/ /\ b # <<>> /\ network_buffer[n][g].gen = k
         /\ network_buffer'[n][g] = [gen |-> k, payloads |-> Append(b, m)]
      \/ network_buffer'[n][g] = [gen |-> k, payloads |-> <<m>>]
  <2>1. network_buffer \in [Nodes -> [Groups -> Buffers(Messages)]]
    BY DEF NetworkInv, NetInv, NetType
  <2> QED
    BY <1>5, <2>1
<1>8. b \in Seq(Messages)
  BY TypeFacts DEF NetworkInv
<1> HIDE DEF b, m
<1>9. /\ Range(Append(b, m)) = Range(b) \cup {m}
      /\ Range(<<m>>) = {m} /\ Sorted(<<m>>)
  <2>1. Range(Append(b, m)) = Range(b) \cup {m}
    BY <1>3, <1>8, RangeAppend
  <2>2. Range(<<m>>) = {m}
    BY DEF Range
  <2>3. DOMAIN <<m>> = {1} /\ ~(1 < 1)
    OBVIOUS
  <2> QED
    BY <2>1, <2>2, <2>3 DEF Sorted
<1>10. ASSUME NEW d \in Linked, d[2] = n, Gid(d[1]) = g, d # e
       PROVE  Gen(d[1]) # k /\ d = <<d[1], n>>
  <2>1. d = <<d[1], d[2]>> /\ d[1] \in Nodes
    BY LinkedFacts
  <2>2. d[1] = <<Gid(d[1]), Gen(d[1])>>
    BY <2>1, NodeFacts
  <2> QED
    BY <1>0, <1>10, <2>1, <2>2
<1>11. inbox[n] = <<>> /\ Range(<<>>) = {} /\ DOMAIN <<>> = {}
  BY DEF Quiet, Range
<1>12. \A p : p \in Range(network_buffer'[n][g].payloads) /\ network_buffer'[n][g].gen = k =>
         From(e[1], n, p)
  <2>1. \A p \in Range(chan[e]) : From(e[1], n, p)
    BY <1>0 DEF From
  <2>2. network_buffer[n][g].gen = k => \A p \in Range(b) : From(e[1], n, p)
    BY <1>n, <1>g, <1>k DEF From, b
  <2>3. CASE network_buffer' = network_buffer
    BY <2>2, <2>3 DEF b
  <2>4. CASE network_buffer'[n][g] = [gen |-> k, payloads |-> <<m>>]
    BY <1>3, <1>9, <2>1, <2>4
  <2>5. CASE /\ network_buffer[n][g].gen = k
             /\ network_buffer'[n][g] = [gen |-> k, payloads |-> Append(b, m)]
    BY <1>3, <1>9, <2>1, <2>2, <2>5
  <2> QED
    BY <1>7, <2>3, <2>4, <2>5
<1>13. NoneAdded
  <2> SUFFICES ASSUME NEW d \in Linked, NEW p, From(d[1], d[2], p)'
               PROVE  From(d[1], d[2], p)
    BY DEF NoneAdded
  <2>1. d = <<d[1], d[2]>>
    BY LinkedFacts
  <2>2. CASE p \in Range(chan'[d])
    BY <1>3, <1>4, <2>1, <2>2 DEF From
  <2>3. CASE /\ network_buffer'[d[2]][Gid(d[1])].gen = Gen(d[1])
             /\ p \in Range(network_buffer'[d[2]][Gid(d[1])].payloads)
    <3>1. CASE network_buffer'[d[2]][Gid(d[1])] = network_buffer[d[2]][Gid(d[1])]
      BY <2>3, <3>1 DEF From
    <3>2. CASE /\ network_buffer'[d[2]][Gid(d[1])] # network_buffer[d[2]][Gid(d[1])]
      <4>1. d[2] = n /\ Gid(d[1]) = g /\ network_buffer'[n][g].gen = k
        BY <1>6, <1>7, <3>2
      <4>2. d = e
        BY <1>10, <2>3, <4>1
      <4> QED
        BY <1>n, <1>12, <2>3, <4>1, <4>2
    <3> QED
      BY <3>1, <3>2
  <2>4. CASE Payload(Gid(d[1]), p) \in Range(inbox'[d[2]]) /\ leader_map'[d[2]][Gid(d[1])] = Gen(d[1])
    BY <1>1, <2>4 DEF From
  <2> QED
    BY <2>1, <2>2, <2>3, <2>4 DEF From
<1>14. FifoInv'
  <2> SUFFICES ASSUME NEW d \in Linked
               PROVE  InOrder(d[1], d[2])'
    BY DEF FifoInv
  <2>1. d = <<d[1], d[2]>> /\ InOrder(d[1], d[2]) /\ d[2] \in Nodes
    BY LinkedFacts DEF FifoInv
  <2>2. CASE ~(d[2] = n /\ Gid(d[1]) = g)
    <3>1. chan'[d] = chan[d] /\ network_buffer'[d[2]][Gid(d[1])] = network_buffer[d[2]][Gid(d[1])]
      BY <1>n, <1>g, <1>4, <1>6, <2>2
    <3> QED
      BY <1>1, <2>1, <3>1 DEF InOrder
  <2>3. CASE d[2] = n /\ Gid(d[1]) = g
    <3>0. /\ Sorted(chan[d]) /\ Sorted(b)
          /\ network_buffer[n][g].gen = Gen(d[1]) /\ Range(b) \cap Ends # {} =>
               Range(chan[d]) \cap Asks = {}
      BY <2>1, <2>3 DEF InOrder, b
    <3>1. Sorted(chan'[d])
      BY <1>1, <1>2, <1>4, <3>0, SortedTail
    <3>2. Sorted(network_buffer'[n][g].payloads)
      <4>1. CASE network_buffer' = network_buffer
        BY <3>0, <4>1 DEF b
      <4>2. CASE network_buffer'[n][g] = [gen |-> k, payloads |-> <<m>>]
        BY <1>9, <4>2
      <4>3. CASE /\ b # <<>> /\ network_buffer[n][g].gen = k
                 /\ network_buffer'[n][g] = [gen |-> k, payloads |-> Append(b, m)]
        <5>1. InOrder(e[1], n)
          BY <1>n DEF FifoInv
        <5>2. Range(b) \cap Ends # {} => Range(chan[e]) \cap Asks = {}
          BY <1>g, <1>k, <1>0, <4>3, <5>1 DEF InOrder, b
        <5>3. m \in Asks => Range(b) \cap Ends = {}
          BY <1>3, <5>2
        <5> QED
          BY <1>3, <1>8, <3>0, <4>3, <5>3, SortedAppend
      <4> QED
        BY <1>7, <4>1, <4>2, <4>3
    <3>3. ASSUME network_buffer'[n][g].gen = Gen(d[1]),
                 Range(network_buffer'[n][g].payloads) \cap Ends # {}
          PROVE  Range(chan'[d]) \cap Asks = {}
      <4>1. CASE network_buffer' = network_buffer
        BY <1>3, <1>4, <3>0, <3>3, <4>1 DEF b
      <4>2. CASE network_buffer' # network_buffer
        <5>1. d = e
          BY <1>7, <1>10, <2>3, <3>3, <4>2
        <5>2. m \in Ends \/ (Range(b) \cap Ends # {} /\ network_buffer[n][g].gen = k)
          <6>1. CASE network_buffer'[n][g] = [gen |-> k, payloads |-> <<m>>]
            BY <1>9, <3>3, <6>1
          <6>2. CASE /\ network_buffer[n][g].gen = k
                     /\ network_buffer'[n][g] = [gen |-> k, payloads |-> Append(b, m)]
            BY <1>9, <3>3, <6>2
          <6> QED
            BY <1>7, <4>2, <6>1, <6>2
        <5>3. m \in Ends => Range(chan[e]) \cap Asks = {}
          BY <1>1, <1>2, <3>0, <5>1, SortedTail DEF m
        <5> QED
          BY <1>k, <1>3, <1>4, <3>0, <5>1, <5>2, <5>3
      <4> QED
        BY <4>1, <4>2
    <3>4. inbox'[n] = <<>>
      BY <1>1, <1>11
    <3> QED
      BY <1>11, <2>1, <2>3, <3>1, <3>2, <3>3, <3>4 DEF InOrder
  <2> QED
    BY <2>2, <2>3
<1> QED
  BY <1>13, <1>14

(* What was held back is let go, in order. *)
LEMMA DeliverFrom ==
  ASSUME NetworkInv, FifoInv, NEW n \in Nodes, deliver_blocked_messages(n)
  PROVE  NoneAdded /\ FifoInv'
<1> DEFINE k == Head(inbox[n]).gen
           rest == Tail(inbox[n])
<1>0. /\ inbox[n] # <<>>
      /\ Head(inbox[n]).type = "Unblock"
      /\ UNCHANGED <<leader_map, chan>>
  BY DEF deliver_blocked_messages
<1>1. inbox[n] \in Seq(Items(Messages, PLms))
  BY TypeFacts DEF NetworkInv
<1>2. /\ rest \in Seq(Items(Messages, PLms)) /\ Range(rest) \subseteq Range(inbox[n])
      /\ Head(inbox[n]) \in Items(Messages, PLms) /\ Head(inbox[n]) \in Range(inbox[n])
  BY <1>0, <1>1, RangeTail
<1>3. Head(inbox[n]) \in Unblocks
  BY <1>0, <1>2 DEF Items, RLCs, PLmItems, PayloadItems, LC
<1>g. PICK g \in Groups : g = Head(inbox[n]).gid
  BY <1>3 DEF Unblocks
<1> DEFINE A == BlockedOf(n, g)
           b == network_buffer[n][g].payloads
<1>4. /\ A \in Seq(Items(Messages, PLms))
      /\ Range(A) = {Payload(g, p) : p \in Range(b)}
      /\ Len(A) = Len(b)
      /\ b \in Seq(Messages)
  BY BlockedFacts, TypeFacts DEF NetworkInv
<1>5. \A i \in 1 .. Len(b) : A[i] = Payload(g, b[i])
  BY <1>4, LenProperties DEF BlockedOf
<1>6. \/ /\ inbox' = [inbox EXCEPT ![n] = rest]
         /\ \/ network_buffer' = network_buffer
            \/ network_buffer' = [network_buffer EXCEPT ![n][g] = EmptyBuffer]
      \/ /\ inbox' = [inbox EXCEPT ![n] = A \o rest]
         /\ network_buffer' = [network_buffer EXCEPT ![n][g] = EmptyBuffer]
         /\ leader_map[n][g] = network_buffer[n][g].gen
  BY <1>g DEF deliver_blocked_messages, Unblocked
<1>7. \A x \in Nodes : x # n => inbox'[x] = inbox[x]
  BY <1>6 DEF NetworkInv, NetInv, NetType
<1>8. \A x \in Nodes, h \in Groups :
        \/ network_buffer'[x][h] = network_buffer[x][h]
        \/ network_buffer'[x][h] = EmptyBuffer
  <2>1. network_buffer \in [Nodes -> [Groups -> Buffers(Messages)]]
    BY DEF NetworkInv, NetInv, NetType
  <2> QED
    BY <1>6, <2>1
<1>9. EmptyBuffer.payloads = <<>> /\ Range(<<>>) = {} /\ Sorted(<<>>)
  BY DEF EmptyBuffer, Range, Sorted
<1>10. \A i \in DOMAIN rest : i \in Nat /\ i + 1 \in DOMAIN inbox[n] /\ rest[i] = inbox[n][i + 1]
  BY <1>0, <1>1
<1>11. \/ inbox'[n] = rest
       \/ inbox'[n] = A \o rest /\ leader_map[n][g] = network_buffer[n][g].gen
  BY <1>6 DEF NetworkInv, NetInv, NetType
<1> HIDE DEF k, rest, A
<1>12. /\ Range(A \o rest) = Range(A) \cup Range(rest)
       /\ A \o rest \in Seq(Items(Messages, PLms))
       /\ DOMAIN (A \o rest) = 1 .. Len(A) + Len(rest)
       /\ \A i \in 1 .. Len(A) + Len(rest) :
            (A \o rest)[i] = IF i =< Len(A) THEN A[i] ELSE rest[i - Len(A)]
  <2>1. A \o rest \in Seq(Items(Messages, PLms)) /\ Len(A \o rest) = Len(A) + Len(rest)
    BY <1>2, <1>4, ConcatProperties
  <2>2. DOMAIN (A \o rest) = 1 .. Len(A \o rest)
    BY <2>1, LenProperties
  <2> QED
    BY <1>2, <1>4, <2>1, <2>2, ConcatProperties, RangeConcatenation
<1>13. \A h, p : /\ Payload(h, p).type = "Payload" /\ Payload(h, p).from = h
                 /\ Payload(h, p).payload = p
  BY DEF Payload
<1>14. ASSUME NEW x \in Nodes, NEW h \in Groups, NEW p, Payload(h, p) \in Range(inbox'[x])
       PROVE  \/ Payload(h, p) \in Range(inbox[x])
              \/ /\ x = n /\ h = g /\ p \in Range(b)
                 /\ leader_map[n][g] = network_buffer[n][g].gen
  <2>1. CASE x # n
    BY <1>7, <1>14, <2>1
  <2>2. CASE x = n /\ inbox'[n] = rest
    BY <1>2, <1>14, <2>2
  <2>3. CASE x = n /\ inbox'[n] = A \o rest /\ leader_map[n][g] = network_buffer[n][g].gen
    <3>1. CASE Payload(h, p) \in Range(rest)
      BY <1>2, <2>3, <3>1
    <3>2. CASE Payload(h, p) \in Range(A)
      <4>1. PICK q \in Range(b) : Payload(h, p) = Payload(g, q)
        BY <1>4, <3>2
      <4>2. h = g /\ p = q
        BY <1>13, <4>1
      <4> QED
        BY <2>3, <4>1, <4>2
    <3> QED
      BY <1>12, <1>14, <2>3, <3>1, <3>2
  <2> QED
    BY <1>11, <2>1, <2>2, <2>3
<1>15. NoneAdded
  <2> SUFFICES ASSUME NEW e \in Linked, NEW p, From(e[1], e[2], p)'
               PROVE  From(e[1], e[2], p)
    BY DEF NoneAdded
  <2>1. e[2] \in Nodes /\ Gid(e[1]) \in Groups
    BY LinkedFacts, NodeFacts
  <2>2. CASE p \in Range(chan'[<<e[1], e[2]>>])
    BY <1>0, <2>2 DEF From
  <2>3. CASE /\ network_buffer'[e[2]][Gid(e[1])].gen = Gen(e[1])
             /\ p \in Range(network_buffer'[e[2]][Gid(e[1])].payloads)
    BY <1>8, <1>9, <2>1, <2>3 DEF From
  <2>4. CASE Payload(Gid(e[1]), p) \in Range(inbox'[e[2]]) /\ leader_map'[e[2]][Gid(e[1])] = Gen(e[1])
    <3>1. leader_map[e[2]][Gid(e[1])] = Gen(e[1])
      BY <1>0, <2>4
    <3> QED
      BY <1>14, <2>1, <2>4, <3>1 DEF From
  <2> QED
    BY <2>2, <2>3, <2>4 DEF From
<1>16. FifoInv'
  <2> SUFFICES ASSUME NEW e \in Linked
               PROVE  InOrder(e[1], e[2])'
    BY DEF FifoInv
  <2>1. e[2] \in Nodes /\ Gid(e[1]) \in Groups /\ InOrder(e[1], e[2])
    BY LinkedFacts, NodeFacts DEF FifoInv
  <2>2. Sorted(chan'[<<e[1], e[2]>>])
    BY <1>0, <2>1 DEF InOrder
  <2>3. Sorted(network_buffer'[e[2]][Gid(e[1])].payloads)
    BY <1>8, <1>9, <2>1 DEF InOrder
  <2>4. ASSUME \/ /\ network_buffer'[e[2]][Gid(e[1])].gen = Gen(e[1])
                  /\ Range(network_buffer'[e[2]][Gid(e[1])].payloads) \cap Ends # {}
               \/ /\ leader_map'[e[2]][Gid(e[1])] = Gen(e[1])
                  /\ \E p \in Ends : Payload(Gid(e[1]), p) \in Range(inbox'[e[2]])
        PROVE  Range(chan'[<<e[1], e[2]>>]) \cap Asks = {}
    <3>1. CASE /\ network_buffer'[e[2]][Gid(e[1])].gen = Gen(e[1])
               /\ Range(network_buffer'[e[2]][Gid(e[1])].payloads) \cap Ends # {}
      BY <1>0, <1>8, <1>9, <2>1, <3>1 DEF InOrder
    <3>2. CASE /\ leader_map'[e[2]][Gid(e[1])] = Gen(e[1])
               /\ \E p \in Ends : Payload(Gid(e[1]), p) \in Range(inbox'[e[2]])
      <4>1. PICK p \in Ends : Payload(Gid(e[1]), p) \in Range(inbox'[e[2]])
        BY <3>2
      <4>2. CASE Payload(Gid(e[1]), p) \in Range(inbox[e[2]])
        BY <1>0, <2>1, <3>2, <4>1, <4>2 DEF InOrder
      <4>3. CASE /\ e[2] = n /\ Gid(e[1]) = g /\ p \in Range(b)
                 /\ leader_map[n][g] = network_buffer[n][g].gen
        <5>1. network_buffer[n][g].gen = Gen(e[1]) /\ Range(b) \cap Ends # {}
          BY <1>0, <3>2, <4>1, <4>3
        <5> QED
          BY <1>0, <2>1, <4>3, <5>1 DEF InOrder
      <4> QED
        BY <1>14, <2>1, <4>1, <4>2, <4>3
    <3> QED
      BY <2>4, <3>1, <3>2
  <2>5. ASSUME NEW i \in DOMAIN inbox'[e[2]], NEW j \in DOMAIN inbox'[e[2]],
               NEW p \in Ends, NEW q \in Asks,
               i < j, inbox'[e[2]][i] = Payload(Gid(e[1]), p), inbox'[e[2]][j] = Payload(Gid(e[1]), q)
        PROVE  FALSE
    <3>1. CASE e[2] # n
      BY <1>7, <2>1, <2>5, <3>1 DEF InOrder
    <3>2. ASSUME e[2] = n, NEW i1 \in DOMAIN rest, NEW j1 \in DOMAIN rest, i1 < j1,
                 rest[i1] = Payload(Gid(e[1]), p), rest[j1] = Payload(Gid(e[1]), q)
          PROVE  FALSE
      <4>1. i1 + 1 \in DOMAIN inbox[n] /\ j1 + 1 \in DOMAIN inbox[n] /\ i1 + 1 < j1 + 1
        BY <1>10, <3>2
      <4> QED
        BY <1>10, <2>1, <3>2, <4>1 DEF InOrder
    <3>3. CASE e[2] = n /\ inbox'[n] = rest
      BY <2>5, <3>2, <3>3
    <3>4. CASE e[2] = n /\ inbox'[n] = A \o rest
      <4>a. PICK a \in Nat : a = Len(A) /\ a = Len(b)
        BY <1>4, LenProperties
      <4>c. PICK c \in Nat : c = Len(rest) /\ DOMAIN rest = 1 .. c
        BY <1>2, LenProperties
      <4>1. i \in 1 .. a + c /\ j \in 1 .. a + c
        BY <1>12, <2>5, <3>4, <4>a, <4>c
      <4>x. \A y \in 1 .. a + c :
              /\ y =< a => (A \o rest)[y] = A[y]
              /\ y > a => y - a \in 1 .. c /\ (A \o rest)[y] = rest[y - a]
        <5> SUFFICES ASSUME NEW y \in 1 .. a + c
                     PROVE  /\ y =< a => (A \o rest)[y] = A[y]
                            /\ y > a => y - a \in 1 .. c /\ (A \o rest)[y] = rest[y - a]
          OBVIOUS
        <5>1. (A \o rest)[y] = IF y =< Len(A) THEN A[y] ELSE rest[y - Len(A)]
          BY <1>12, <4>a, <4>c
        <5>2. (A \o rest)[y] = IF y =< a THEN A[y] ELSE rest[y - a]
          BY <4>a, <5>1
        <5>3. y > a => y - a \in 1 .. c
          OBVIOUS
        <5>4. CASE y =< a
          BY <5>2, <5>4
        <5>5. CASE ~(y =< a)
          BY <5>2, <5>3, <5>5
        <5> QED
          BY <5>4, <5>5
      <4>y. (A \o rest)[i] = Payload(Gid(e[1]), p) /\ (A \o rest)[j] = Payload(Gid(e[1]), q)
        BY <2>5, <3>4
      <4>2. /\ i =< a => A[i] = Payload(Gid(e[1]), p)
            /\ i > a => i - a \in DOMAIN rest /\ rest[i - a] = Payload(Gid(e[1]), p)
            /\ j =< a => A[j] = Payload(Gid(e[1]), q)
            /\ j > a => j - a \in DOMAIN rest /\ rest[j - a] = Payload(Gid(e[1]), q)
        BY <4>c, <4>1, <4>x, <4>y
      <4>3. CASE i > a
        <5>1. i - a < j - a /\ j > a
          BY <2>5, <4>1, <4>3
        <5> QED
          BY <3>2, <3>4, <4>2, <4>3, <5>1
      <4>4. CASE i =< a /\ j =< a
        <5>1. i \in 1 .. Len(b) /\ j \in 1 .. Len(b) /\ DOMAIN b = 1 .. Len(b)
          BY <1>4, <4>a, <4>1, <4>4, LenProperties
        <5>2. Payload(Gid(e[1]), p) = Payload(g, b[i]) /\ Payload(Gid(e[1]), q) = Payload(g, b[j])
          BY <1>5, <4>2, <4>4, <5>1
        <5>3. Gid(e[1]) = g /\ p = b[i] /\ q = b[j]
          BY <1>13, <5>2
        <5>4. Sorted(b)
          BY <2>1, <3>4, <5>3 DEF InOrder
        <5> QED
          BY <2>5, <5>1, <5>3, <5>4 DEF Sorted
      <4>5. CASE i =< a /\ j > a
        <5>1. i \in 1 .. Len(b) /\ b # <<>>
          BY <1>4, <4>a, <4>1, <4>5
        <5>2. Payload(Gid(e[1]), p) = Payload(g, b[i])
          BY <1>5, <4>2, <4>5, <5>1
        <5>3. Gid(e[1]) = g
          BY <1>13, <5>2
        <5>4. (j - a) + 1 \in DOMAIN inbox[n] /\ inbox[n][(j - a) + 1] = Payload(g, q)
          BY <1>10, <4>2, <4>5, <5>3
        <5>5. b = <<>>
          BY <1>13, <5>4 DEF NetworkInv, LetGoInv
        <5> QED
          BY <5>1, <5>5
      <4> QED
        BY <4>1, <4>3, <4>4, <4>5
    <3> QED
      BY <1>11, <3>1, <3>3, <3>4
  <2> QED
    BY <2>2, <2>3, <2>4, <2>5 DEF InOrder
<1> QED
  BY <1>15, <1>16

(* Handling an input adds what the node sends, to a leader that it knows. *)
Sent(n, in, e, p) ==
  /\ e[1] = n
  /\ status[e[2]] = "leader"
  /\ Gen(e[2]) = leader_map'[n][Gid(e[2])]
  /\ chan'[e] = Append(in.queues[e], p)

(* What is let go to a node stays so while it handles its inputs. *)
LEMMA LetGoStays ==
  ASSUME NetworkInv, NEW n \in Nodes, NEW in \in Inputs(n), Handles(n, in),
         NEW e \in Linked, NEW p,
         leader_map'[e[2]][Gid(e[1])] = Gen(e[1]), Payload(Gid(e[1]), p) \in Range(inbox'[e[2]])
  PROVE  leader_map[e[2]][Gid(e[1])] = Gen(e[1]) /\ Payload(Gid(e[1]), p) \in Range(inbox[e[2]])
<1>1. NetInv(Messages, PLms) /\ HandlesAt(n, in)
  BY DEF NetworkInv, Handles
<1>2. e[2] \in Nodes /\ Gid(e[1]) \in Groups
  BY LinkedFacts, NodeFacts
<1>3. inbox' = [inbox EXCEPT ![n] = in.rest] /\ inbox \in [Nodes -> Seq(Items(Messages, PLms))]
  BY <1>1, TypeFacts DEF HandlesAt
<1>4. Range(in.rest) \subseteq Range(inbox[n])
  BY <1>1, InputFacts
<1>5. Payload(Gid(e[1]), p) \in Range(inbox[e[2]])
  BY <1>2, <1>3, <1>4
<1>6. leader_map'[e[2]][Gid(e[1])] = leader_map[e[2]][Gid(e[1])]
  <2>1. CASE e[2] # n
    BY <1>1, <1>2, <2>1, HandledMap
  <2>2. CASE e[2] = n
    <3> SUFFICES ASSUME leader_map'[n][Gid(e[1])] # leader_map[n][Gid(e[1])]
                 PROVE  FALSE
      BY <2>2
    <3>1. IsChange(in.item) /\ in.item \in Range(inbox[n])
      BY <1>1, <1>2, HandledMap
    <3>2. PICK j \in DOMAIN inbox[n] : IsChange(inbox[n][j])
      BY <3>1 DEF Range
    <3>3. PICK i \in DOMAIN inbox[n] : inbox[n][i] = Payload(Gid(e[1]), p)
      BY <1>5, <2>2 DEF Range
    <3>4. inbox[n][i].type = "Payload"
      BY <3>3 DEF Payload
    <3> QED
      BY <3>2, <3>4 DEF NetworkInv, LetGoInv
  <2> QED
    BY <2>1, <2>2
<1> QED
  BY <1>5, <1>6

(* A message that is under way after an input was handled was so before,   *)
(* or is sent.                                                             *)
LEMMA HandledFrom ==
  ASSUME NetworkInv, NEW n \in Nodes, NEW in \in Inputs(n), Handles(n, in),
         NEW e \in Linked, NEW p, From(e[1], e[2], p)'
  PROVE  From(e[1], e[2], p) \/ Sent(n, in, e, p)
<1>1. NetInv(Messages, PLms) /\ HandlesAt(n, in)
  BY DEF NetworkInv, Handles
<1>2. e = <<e[1], e[2]>>
  BY LinkedFacts
<1>3. CASE p \in Range(chan'[<<e[1], e[2]>>])
  <2>q. in.queues \in [Linked -> Seq(Messages)]
    BY <1>1, InputFacts
  <2>r. Range(in.queues[e]) \subseteq Range(chan[e])
    BY <1>1, InputFacts
  <2>1. Range(in.queues[e]) \subseteq Range(chan[e]) /\ in.queues[e] \in Seq(Messages)
    BY <2>q, <2>r
  <2>2. CASE p \in Range(in.queues[e])
    BY <1>2, <2>1, <2>2 DEF From
  <2>3. CASE p \notin Range(in.queues[e])
    <3>1. chan'[e] # in.queues[e]
      BY <1>2, <1>3, <2>3
    <3>2. PICK q \in Messages : /\ e[1] = n /\ status[e[2]] = "leader"
                                /\ Gen(e[2]) = leader_map'[n][Gid(e[2])]
                                /\ chan'[e] = Append(in.queues[e], q)
      BY <3>1 DEF Handles
    <3>3. Range(chan'[e]) = Range(in.queues[e]) \cup {q}
      BY <2>1, <3>2, RangeAppend
    <3> QED
      BY <1>2, <1>3, <2>3, <3>2, <3>3 DEF Sent
  <2> QED
    BY <2>2, <2>3
<1>4. CASE /\ network_buffer'[e[2]][Gid(e[1])].gen = Gen(e[1])
           /\ p \in Range(network_buffer'[e[2]][Gid(e[1])].payloads)
  BY <1>1, <1>4 DEF HandlesAt, From
<1>5. CASE leader_map'[e[2]][Gid(e[1])] = Gen(e[1]) /\ Payload(Gid(e[1]), p) \in Range(inbox'[e[2]])
  BY <1>5, LetGoStays DEF From
<1> QED
  BY <1>3, <1>4, <1>5 DEF From

(* Messages stay in order if nothing of Asks is sent after something of    *)
(* Ends.                                                                   *)
LEMMA HandledFifo ==
  ASSUME NetworkInv, FifoInv, NEW n \in Nodes, NEW in \in Inputs(n), Handles(n, in),
         \A e \in Linked : \A p \in Asks, q \in Ends :
           Sent(n, in, e, p) => ~From(e[1], e[2], q)
  PROVE  FifoInv'
<1> SUFFICES ASSUME NEW e \in Linked
             PROVE  InOrder(e[1], e[2])'
  BY DEF FifoInv
<1>1. NetInv(Messages, PLms) /\ HandlesAt(n, in) /\ UNCHANGED network_buffer
  BY DEF NetworkInv, Handles, HandlesAt
<1>2. e = <<e[1], e[2]>> /\ e[2] \in Nodes /\ Gid(e[1]) \in Groups
  BY LinkedFacts, NodeFacts
<1>3. InOrder(e[1], e[2]) /\ Sorted(chan[e])
  BY <1>2 DEF FifoInv, InOrder
<1>4. in.queues[e] \in Seq(Messages) /\ chan[e] \in Seq(Messages)
      /\ Range(in.queues[e]) \subseteq Range(chan[e])
  <2>1. in.queues \in [Linked -> Seq(Messages)]
    BY <1>1, InputFacts
  <2>2. Range(in.queues[e]) \subseteq Range(chan[e])
    BY <1>1, InputFacts
  <2>3. chan \in [Linked -> Seq(Messages)]
    BY <1>1, TypeFacts
  <2> QED
    BY <2>1, <2>2, <2>3
<1>5. Sorted(in.queues[e])
  BY <1>1, <1>3, <1>4, InputQueues, SortedTail
<1>6. ASSUME NEW q \in Ends, q \in Range(chan[e]) PROVE From(e[1], e[2], q)
  BY <1>2, <1>6 DEF From
<1>7. \/ chan'[e] = in.queues[e]
      \/ \E p \in Messages : Sent(n, in, e, p) /\ chan'[e] = Append(in.queues[e], p)
  BY DEF Handles, Sent
<1>8. Sorted(chan'[e])
  <2>1. CASE chan'[e] = in.queues[e]
    BY <1>5, <2>1
  <2>2. ASSUME NEW p \in Messages, Sent(n, in, e, p), chan'[e] = Append(in.queues[e], p)
        PROVE  Sorted(chan'[e])
    <3>1. p \in Asks => Range(in.queues[e]) \cap Ends = {}
      BY <1>4, <1>6, <2>2
    <3> QED
      BY <1>4, <1>5, <2>2, <3>1, SortedAppend
  <2> QED
    BY <1>7, <2>1, <2>2
<1>9. Sorted(network_buffer'[e[2]][Gid(e[1])].payloads)
  BY <1>1, <1>3 DEF InOrder
<1>10. inbox' = [inbox EXCEPT ![n] = in.rest] /\ inbox \in [Nodes -> Seq(Items(Messages, PLms))]
  BY <1>1, TypeFacts DEF HandlesAt
<1>11. ASSUME NEW i \in DOMAIN inbox'[e[2]], NEW j \in DOMAIN inbox'[e[2]],
              NEW p \in Ends, NEW q \in Asks,
              i < j, inbox'[e[2]][i] = Payload(Gid(e[1]), p), inbox'[e[2]][j] = Payload(Gid(e[1]), q)
       PROVE  FALSE
  <2>1. CASE e[2] # n
    BY <1>2, <1>3, <1>10, <1>11, <2>1 DEF InOrder
  <2>2. CASE e[2] = n
    <3>1. inbox'[n] = in.rest
      BY <1>10
    <3>2. /\ i + 1 \in DOMAIN inbox[n] /\ in.rest[i] = inbox[n][i + 1]
          /\ j + 1 \in DOMAIN inbox[n] /\ in.rest[j] = inbox[n][j + 1]
          /\ i \in Nat /\ j \in Nat
      BY <1>1, <1>11, <2>2, <3>1, InputQueues
    <3>3. i + 1 < j + 1
      BY <1>11, <3>2
    <3> QED
      BY <1>3, <1>11, <2>2, <3>1, <3>2, <3>3 DEF InOrder
  <2> QED
    BY <2>1, <2>2
<1>12. ASSUME NEW p \in Ends,
              \/ /\ network_buffer'[e[2]][Gid(e[1])].gen = Gen(e[1])
                 /\ p \in Range(network_buffer'[e[2]][Gid(e[1])].payloads)
              \/ /\ leader_map'[e[2]][Gid(e[1])] = Gen(e[1])
                 /\ Payload(Gid(e[1]), p) \in Range(inbox'[e[2]])
       PROVE  Range(chan'[e]) \cap Asks = {}
  <2>1. \/ /\ network_buffer[e[2]][Gid(e[1])].gen = Gen(e[1])
           /\ p \in Range(network_buffer[e[2]][Gid(e[1])].payloads)
        \/ /\ leader_map[e[2]][Gid(e[1])] = Gen(e[1])
           /\ Payload(Gid(e[1]), p) \in Range(inbox[e[2]])
    <3>1. CASE /\ network_buffer'[e[2]][Gid(e[1])].gen = Gen(e[1])
               /\ p \in Range(network_buffer'[e[2]][Gid(e[1])].payloads)
      BY <1>1, <3>1
    <3>2. CASE /\ leader_map'[e[2]][Gid(e[1])] = Gen(e[1])
               /\ Payload(Gid(e[1]), p) \in Range(inbox'[e[2]])
      BY <3>2, LetGoStays
    <3> QED
      BY <1>12, <3>1, <3>2
  <2>2. From(e[1], e[2], p)
    BY <2>1 DEF From
  <2>3. Range(chan[e]) \cap Asks = {}
    BY <1>2, <1>3, <2>1 DEF InOrder
  <2>4. CASE chan'[e] = in.queues[e]
    BY <1>4, <2>3, <2>4
  <2>5. ASSUME NEW q \in Messages, Sent(n, in, e, q), chan'[e] = Append(in.queues[e], q)
        PROVE  Range(chan'[e]) \cap Asks = {}
    <3>1. Range(chan'[e]) = Range(in.queues[e]) \cup {q}
      BY <1>4, <2>5, RangeAppend
    <3>2. q \notin Asks
      BY <2>2, <2>5
    <3> QED
      BY <1>4, <2>3, <3>1, <3>2
  <2> QED
    BY <1>7, <2>4, <2>5
<1> QED
  BY <1>2, <1>8, <1>9, <1>11, <1>12 DEF InOrder

(* A message that is handled was sent by the leader that the node knows,   *)
(* and if it is one of Ends, it has sent nothing of Asks since.            *)
LEMMA InputFrom ==
  ASSUME NetworkInv, FifoInv, NEW n \in Nodes, NEW in \in Inputs(n), in.item.type = "Payload"
  PROVE  LET s == <<in.item.from, leader_map[n][in.item.from]>>
         IN /\ s \in Nodes /\ <<s, n>> \in Linked
            /\ in.item.payload \in Messages
            /\ From(s, n, in.item.payload)
            /\ in.item.payload \in Ends => \A q \in Asks : ~From(s, n, q)
<1> DEFINE g == in.item.from
           s == <<g, leader_map[n][g]>>
           p == in.item.payload
<1>1. NetInv(Messages, PLms)
  BY DEF NetworkInv
<1>2. g \in Groups /\ <<g, Gid(n)>> \in Links
  BY <1>1, InputFacts
<1>3. leader_map[n][g] \in Gens
  BY <1>1, <1>2 DEF NetInv, NetType
<1>4. s \in Nodes /\ Gid(s) = g /\ Gen(s) = leader_map[n][g]
  BY <1>2, <1>3 DEF Nodes, Gid, Gen
<1>5. <<s, n>> \in Linked /\ <<s, n>>[1] = s /\ <<s, n>>[2] = n
  BY <1>2, <1>4 DEF Linked
<1>6. p \in Messages /\ in.item = Payload(g, p)
  <2>1. in.item \in Items(Messages, PLms)
    BY <1>1, InputFacts
  <2>2. in.item \in PayloadItems(Messages)
    BY <2>1 DEF Items, RLCs, Unblocks, PLmItems, LC
  <2> QED
    BY <2>2 DEF PayloadItems, Payload
<1> HIDE DEF s, p, g
<1>7. InOrder(s, n)
  BY <1>5 DEF FifoInv
<1>8. \A q : (Payload(g, q) = Payload(g, p)) => q = p
  <2>1. \A q : Payload(g, q).payload = q
    BY DEF Payload
  <2> QED
    BY <2>1
<1>9. Asks \cap Ends = {}
  BY DEF Asks, Ends
<1>10. CASE IsForwarded(n, in)
  <2>1. inbox[n] \in Seq(Items(Messages, PLms)) /\ inbox[n] # <<>>
    BY <1>1, <1>10, TypeFacts DEF IsForwarded
  <2>2. 1 \in DOMAIN inbox[n] /\ inbox[n][1] = Payload(g, p) /\ DOMAIN inbox[n] \subseteq Nat \ {0}
    <3>1. inbox[n][1] = Head(inbox[n]) /\ DOMAIN inbox[n] = 1 .. Len(inbox[n]) /\ Len(inbox[n]) \in Nat
          /\ Len(inbox[n]) # 0
      BY <2>1
    <3> QED
      BY <1>6, <1>10, <3>1 DEF IsForwarded
  <2>3. Payload(g, p) \in Range(inbox[n])
    BY <2>2 DEF Range
  <2>4. From(s, n, p)
    BY <1>4, <2>3 DEF From
  <2>5. ASSUME p \in Ends, NEW q \in Asks, From(s, n, q)
        PROVE  FALSE
    <3>1. q \notin Range(chan[<<s, n>>])
      BY <1>4, <1>7, <2>3, <2>5 DEF InOrder
    <3>2. network_buffer[n][g].payloads = <<>>
      <4>1. inbox[n][1].type = "Payload" /\ inbox[n][1].from = g
        BY <2>2 DEF Payload
      <4> QED
        BY <2>2, <4>1 DEF NetworkInv, LetGoInv
    <3>3. q \notin Range(network_buffer[n][g].payloads)
      BY <3>2 DEF Range
    <3>4. Payload(g, q) \in Range(inbox[n])
      BY <1>4, <2>5, <3>1, <3>3 DEF From
    <3>5. PICK j \in DOMAIN inbox[n] : inbox[n][j] = Payload(g, q)
      BY <3>4 DEF Range
    <3>6. j # 1
      BY <1>8, <1>9, <2>2, <2>5, <3>5
    <3>7. 1 < j
      BY <2>2, <3>6
    <3> QED
      BY <1>4, <1>7, <2>2, <2>5, <3>5, <3>7 DEF InOrder
  <2> QED
    BY <1>4, <1>5, <1>6, <2>4, <2>5 DEF s, p, g
<1>11. CASE IsDelivered(n, in)
  <2>1. PICK e \in Linked : /\ e[2] = n /\ Delivers(n, e[1]) /\ chan[e] # <<>>
                            /\ in.item = Payload(Gid(e[1]), Head(chan[e]))
    BY <1>11 DEF IsDelivered
  <2>2. Gid(e[1]) = g /\ Head(chan[e]) = p
    <3>1. in.item.from = Gid(e[1]) /\ in.item.payload = Head(chan[e])
      BY <2>1 DEF Payload
    <3> QED
      BY <3>1 DEF g, p
  <2>3. e[1] = s /\ e = <<s, n>> /\ network_buffer[n][g].payloads = <<>>
    <3>1. e = <<e[1], e[2]>> /\ e[1] \in Nodes
      BY LinkedFacts
    <3>2. e[1] = <<Gid(e[1]), Gen(e[1])>>
      BY <3>1, NodeFacts
    <3>3. Gen(e[1]) = leader_map[n][g]
      BY <2>1, <2>2 DEF Delivers
    <3>4. e[1] = s
      BY <2>2, <3>2, <3>3 DEF s
    <3> QED
      BY <2>1, <2>2, <3>1, <3>4 DEF Delivers
  <2>4. chan[e] \in Seq(Messages) /\ Head(chan[e]) \in Range(chan[e])
    BY <1>1, <2>1, TypeFacts, RangeTail
  <2>5. From(s, n, p)
    BY <2>2, <2>3, <2>4 DEF From
  <2>6. ASSUME p \in Ends, NEW q \in Asks, From(s, n, q)
        PROVE  FALSE
    <3>1. Sorted(chan[e])
      BY <1>7, <2>3 DEF InOrder
    <3>2. q \notin Range(chan[<<s, n>>])
      BY <2>1, <2>2, <2>3, <2>4, <2>6, <3>1, SortedTail
    <3>3. q \notin Range(network_buffer[n][g].payloads)
      BY <2>3 DEF Range
    <3>4. inbox[n] = <<>>
      BY <1>11 DEF IsDelivered
    <3>5. Payload(g, q) \notin Range(inbox[n])
      BY <3>4 DEF Range
    <3> QED
      BY <1>4, <2>6, <3>2, <3>3, <3>5 DEF From
  <2> QED
    BY <1>4, <1>5, <1>6, <2>5, <2>6 DEF s, p, g
<1> QED
  BY <1>10, <1>11, InputSource
-----------------------------------------------------------------------------
(* What a step does keeps the invariants *)

ProtocolInv ==
  /\ AskedInv
  /\ LateInv
  /\ RMMessageInv
  /\ TMMessageInv
  /\ RMStateInv
  /\ RMLogInv
  /\ TMStateInv

IndInv ==
  /\ NetworkInv
  /\ FifoInv
  /\ StateTypes
  /\ PipelineInv
  /\ TMLogInv
  /\ ReplyInv
  /\ ProtocolInv

Advance ==
  /\ IndInv
  /\ NetworkInv'
  /\ StateTypes'
  /\ TMLogInv'
  /\ Step

(* Generations are numbers, before and after a step. *)
LEMMA AdvanceTypes ==
  ASSUME Advance
  PROVE  /\ \A n \in Nodes, g \in Groups :
              /\ leader_map[n][g] \in Nat /\ leader_map'[n][g] \in Nat
              /\ leader_map[n][g] \in Gens /\ leader_map'[n][g] \in Gens
         /\ \A g, h \in Groups :
              /\ log_leader_map[g][h] \in Nat /\ log_leader_map'[g][h] \in Nat
              /\ log_leader_map[g][h] \in Gens
         /\ \A g \in Groups : log_gen[g] \in Nat /\ log_gen'[g] \in Nat
<1>1. Gens \subseteq Nat
  BY GensNat
<1>2. leader_map \in [Nodes -> [Groups -> Gens]] /\ leader_map' \in [Nodes -> [Groups -> Gens]]
  BY DEF Advance, IndInv, NetworkInv, NetInv, NetType
<1>3. /\ log_leader_map \in [Groups -> [Groups -> Gens]]
      /\ log_leader_map' \in [Groups -> [Groups -> Gens]]
  BY DEF Advance, IndInv, NetworkInv, NetInv, NetType
<1>4. log_gen \in [Groups -> Gens] /\ log_gen' \in [Groups -> Gens]
  BY DEF Advance, IndInv, NetworkInv, NetInv, NetType
<1> QED
  BY <1>1, <1>2, <1>3, <1>4

(* A node of the TM or of an RM. *)
LEMMA TheirNodes ==
  /\ \A t \in TMNodes : t \in Nodes /\ Gid(t) = TM /\ Gen(t) \in Nat /\ Gen(t) \in Gens
  /\ \A m \in RMNodes : m \in Nodes /\ Gid(m) \in RMs /\ Gid(m) \in Groups
                        /\ Gen(m) \in Nat /\ Gen(m) \in Gens
  /\ \A m, x \in Nodes : Gid(m) = Gid(x) /\ Gen(m) = Gen(x) => m = x
  /\ TM \in Groups /\ RMs \subseteq Groups
  /\ \A r \in RMs, k \in Gens : <<r, k>> \in RMNodes /\ Gid(<<r, k>>) = r /\ Gen(<<r, k>>) = k
  /\ \A k \in Gens : <<TM, k>> \in TMNodes /\ Gid(<<TM, k>>) = TM /\ Gen(<<TM, k>>) = k
<1>1. \A t \in TMNodes : t \in Nodes /\ Gid(t) = TM
  BY NodeKinds
<1>2. \A m \in RMNodes : m \in Nodes /\ Gid(m) \in RMs /\ Gid(m) \in Groups
  BY NodeKinds
<1>3. \A n \in Nodes : Gen(n) \in Nat /\ Gen(n) \in Gens /\ n = <<Gid(n), Gen(n)>>
  BY NodeFacts
<1>4. \A m, x \in Nodes : Gid(m) = Gid(x) /\ Gen(m) = Gen(x) => m = x
  BY <1>3
<1>5. \A r \in RMs, k \in Gens : <<r, k>> \in RMNodes /\ Gid(<<r, k>>) = r /\ Gen(<<r, k>>) = k
  BY DEF RMNodes, Gid, Gen
<1>6. \A k \in Gens : <<TM, k>> \in TMNodes /\ Gid(<<TM, k>>) = TM /\ Gen(<<TM, k>>) = k
  BY DEF TMNodes, Gid, Gen
<1> QED
  BY <1>1, <1>2, <1>3, <1>4, <1>5, <1>6, NodeKinds

(* The outcomes of an RM are told apart. *)
LEMMA Logs ==
  /\ <<"Prepared">> # <<>> /\ <<"Prepared", "Committed">> # <<>> /\ <<"Prepared", "Aborted">> # <<>>
  /\ <<"Prepared">> # <<"Prepared", "Committed">>
  /\ <<"Prepared">> # <<"Prepared", "Aborted">>
  /\ <<"Prepared", "Aborted">> # <<"Prepared", "Committed">>
  /\ Append(<<>>, "Prepared") = <<"Prepared">>
  /\ Append(<<"Prepared">>, "Committed") = <<"Prepared", "Committed">>
  /\ Append(<<"Prepared">>, "Aborted") = <<"Prepared", "Aborted">>
<1>0. "Prepared" \in PLms /\ "Committed" \in PLms /\ "Aborted" \in PLms /\ <<"Prepared">> \in Seq(PLms)
  BY DEF PLms
<1>1. <<"Prepared">> # <<>> /\ <<"Prepared", "Committed">> # <<>> /\ <<"Prepared", "Aborted">> # <<>>
  OBVIOUS
<1>2. /\ <<"Prepared">> # <<"Prepared", "Committed">>
      /\ <<"Prepared">> # <<"Prepared", "Aborted">>
      /\ <<"Prepared", "Aborted">> # <<"Prepared", "Committed">>
  <2>1. /\ Len(<<"Prepared">>) = 1 /\ Len(<<"Prepared", "Committed">>) = 2
        /\ Len(<<"Prepared", "Aborted">>) = 2
    OBVIOUS
  <2>2. <<"Prepared", "Aborted">>[2] = "Aborted" /\ <<"Prepared", "Committed">>[2] = "Committed"
    OBVIOUS
  <2>3. <<"Prepared", "Aborted">> # <<"Prepared", "Committed">>
    BY <2>2
  <2> QED
    BY <2>1, <2>3
<1>3. Append(<<>>, "Prepared") = <<"Prepared">>
  OBVIOUS
<1>4. Append(<<"Prepared">>, "Committed") = <<"Prepared", "Committed">>
  BY <1>0, AppendIsConcat, ConcatPair
<1>5. Append(<<"Prepared">>, "Aborted") = <<"Prepared", "Aborted">>
  BY <1>0, AppendIsConcat, ConcatPair
<1> QED
  BY <1>1, <1>2, <1>3, <1>4, <1>5

(* Facts about later generations follow from those about earlier ones. *)
LEMMA PreparedMore ==
  ASSUME NEW r, NEW j \in Nat, NEW k \in Nat, j =< k, PreparedFrom(r, j)
  PROVE  PreparedFrom(r, k)
<1>1. \A m \in RMNodes : Gen(m) \in Nat
  BY TheirNodes
<1> QED
  BY <1>1 DEF PreparedFrom

(* Who is not asked after generation j is not asked after a later one. *)
LEMMA UnaskedMore ==
  ASSUME NEW r, NEW j \in Nat, NEW k \in Nat, j =< k, Unasked(r, j)
  PROVE  Unasked(r, k)
<1>1. \A m \in RMNodes : Gen(m) \in Nat
  BY TheirNodes
<1>2. \A m \in RMNodes : Gen(m) > k => Gen(m) > j
  BY <1>1
<1>3. HasPrepared(r) => PreparedFrom(r, k)
  BY PreparedMore DEF Unasked
<1> QED
  BY <1>2, <1>3 DEF Unasked

(* The same holds once the outcome is decided. *)
LEMMA SettledMore ==
  ASSUME NetworkInv, NEW r \in RMs, NEW j \in Nat, NEW k \in Nat, j =< k, Settled(r, j)
  PROVE  Settled(r, k)
<1>1. Unasked(r, k)
  BY UnaskedMore DEF Settled
<1>2. NetInv(Messages, PLms) /\ r \in Groups /\ \A t \in TMNodes : t \in Nodes
  BY TheirNodes DEF NetworkInv
<1>3. \A t \in TMNodes : Undecided(t) => Within(t, r, k)
  BY <1>2, WithinMore DEF Settled
<1> QED
  BY <1>1, <1>3 DEF Settled

(* And of the leaders of the TM that know the outcome. *)
LEMMA LateMore ==
  ASSUME NEW j \in Nat, NEW k \in Nat, j =< k, Late(j)
  PROVE  Late(k)
<1>1. \A t \in TMNodes : Gen(t) \in Nat
  BY TheirNodes
<1>2. \A t \in TMNodes : (Gen(t) >= k => Gen(t) >= j) /\ (Gen(t) > k => Gen(t) > j)
  BY <1>1
<1> QED
  BY <1>2 DEF Late

(* What an RM inserts is what its log lacks. *)
LEMMA InsertedLog ==
  ASSUME IndInv, NEW m \in RMNodes, Inserts(m)
  PROVE  \/ /\ rm[m] \in {"InsertingPrepared", "InsertingPreparedAborted"}
            /\ log_plms[Gid(m)] = <<>> /\ log_plms'[Gid(m)] = <<"Prepared">>
         \/ /\ rm[m] = "InsertingCommitted"
            /\ log_plms[Gid(m)] = <<"Prepared">> /\ log_plms'[Gid(m)] = <<"Prepared", "Committed">>
         \/ /\ rm[m] = "InsertingAborted"
            /\ log_plms[Gid(m)] = <<"Prepared">> /\ log_plms'[Gid(m)] = <<"Prepared", "Aborted">>
<1>1. RMCurrent(m) /\ ~Stored(m) /\ RMInserting(rm[m]) # Nothing
  BY DEF IndInv, ProtocolInv, RMStateInv, Inserts
<1>2. Gid(m) \in Groups /\ log_plms \in [Groups -> Seq(PLms)]
  BY TheirNodes DEF IndInv, NetworkInv, NetInv, NetType
<1>3. log_plms'[Gid(m)] = Append(log_plms[Gid(m)], RMInserting(rm[m]))
  BY <1>2 DEF Inserts
<1>4. CASE rm[m] \in {"InsertingPrepared", "InsertingPreparedAborted"}
  <2>1. log_plms[Gid(m)] = <<>> /\ RMInserting(rm[m]) = "Prepared"
    BY <1>1, <1>4 DEF RMCurrent, RMInserting
  <2> QED
    BY <1>3, <1>4, <2>1, Logs
<1>5. CASE rm[m] = "InsertingCommitted"
  <2>1. log_plms[Gid(m)] = <<"Prepared">> /\ RMInserting(rm[m]) = "Committed"
    BY <1>1, <1>5 DEF RMCurrent, RMInserting
  <2> QED
    BY <1>3, <1>5, <2>1, Logs
<1>6. CASE rm[m] = "InsertingAborted"
  <2>1. log_plms[Gid(m)] = <<"Prepared">> /\ RMInserting(rm[m]) = "Aborted"
    BY <1>1, <1>6 DEF RMCurrent, RMInserting
  <2> QED
    BY <1>3, <1>6, <2>1, Logs
<1>7. \/ rm[m] \in {"InsertingPrepared", "InsertingPreparedAborted"}
      \/ rm[m] = "InsertingCommitted" \/ rm[m] = "InsertingAborted"
  BY <1>1 DEF RMInserting
<1> QED
  BY <1>4, <1>5, <1>6, <1>7

(* The logs of the RMs grow. *)
LEMMA LogsGrow ==
  ASSUME Advance, NEW r \in RMs
  PROVE  /\ HasPrepared(r) => HasPrepared(r)'
         /\ HasOutcome(r) => HasOutcome(r)'
<1>1. CASE log_plms'[r] = log_plms[r]
  BY <1>1 DEF HasPrepared, HasOutcome
<1>2. CASE log_plms'[r] # log_plms[r]
  <2>1. PICK m \in RMNodes : Gid(m) = r /\ Inserts(m)
    BY <1>2 DEF Advance, Step, LogStep
  <2>2. IndInv
    BY DEF Advance
  <2>3. log_plms'[r] # <<>> /\ ~HasOutcome(r)
    BY <2>1, <2>2, InsertedLog, Logs DEF HasOutcome
  <2> QED
    BY <2>3 DEF HasPrepared
<1> QED
  BY <1>1, <1>2

(* An RM whose leaders know that it is prepared stays so. *)
LEMMA PreparedKept ==
  ASSUME Advance, NEW r \in RMs, NEW k, PreparedFrom(r, k)
  PROVE  PreparedFrom(r, k)'
<1>1. HasPrepared(r)'
  BY LogsGrow DEF PreparedFrom
<1>2. ASSUME NEW m \in RMNodes, Gid(m) = r, Gen(m) >= k, Active(m)', Unprepared(m)'
      PROVE  HasOutcome(r)'
  <2>1. \/ Active(m) /\ Unprepared(m)
        \/ HasOutcome(r) \/ ~HasPrepared(r)
    BY <1>2 DEF Advance, Step, RMStep
  <2>2. HasOutcome(r)
    BY <1>2, <2>1 DEF PreparedFrom
  <2> QED
    BY <2>2, LogsGrow
<1> QED
  BY <1>1, <1>2 DEF PreparedFrom, Gid, Gen

(* An RM that is newly prepared. *)
LEMMA NewlyPrepared ==
  ASSUME Advance, NEW r \in RMs, ~HasPrepared(r), HasPrepared(r)'
  PROVE  \E m \in RMNodes :
           /\ Gid(m) = r /\ IsCurrent(m)' /\ rm[m] \in Tentative /\ Asked /\ ~Unprepared(m)'
<1>1. log_plms'[r] # log_plms[r]
  BY DEF HasPrepared
<1>2. PICK m \in RMNodes : Gid(m) = r /\ Inserts(m)
  BY <1>1 DEF Advance, Step, LogStep
<1>3. IndInv /\ log_plms[r] = <<>>
  BY DEF Advance, HasPrepared
<1>4. rm[m] \in {"InsertingPrepared", "InsertingPreparedAborted"}
  BY <1>2, <1>3, InsertedLog, Logs
<1>5. Active(m) /\ Stored(m)' /\ rm' = rm /\ IsCurrent(m)'
  BY <1>2 DEF Inserts
<1>6. Asked
  BY <1>3, <1>4, <1>5 DEF IndInv, ProtocolInv, RMStateInv
<1>7. ~Unprepared(m)'
  BY <1>4, <1>5 DEF Unprepared
<1> QED
  BY <1>2, <1>4, <1>5, <1>6, <1>7 DEF Tentative

(* Leaders from k on are not asked if no Prepare is sent to them. *)
LEMMA UnaskedKept ==
  ASSUME Advance, NEW r \in RMs, NEW k \in Nat, Unasked(r, k),
         \A t \in TMNodes, m \in RMNodes : Gid(m) = r /\ New(t, m, "Prepare") => Gen(m) =< k
  PROVE  Unasked(r, k)'
<1>0. \A m \in RMNodes : Gen(m) \in Nat /\ m \in Nodes /\ Gid(m) \in Groups
  BY TheirNodes
<1>1. ASSUME NEW m \in RMNodes, Gid(m) = r, Gen(m) > k
      PROVE  /\ rm'[m] \notin Tentative
             /\ \A t \in TMNodes : ~From(t, m, "Prepare")'
             /\ \A t \in TMNodes : ~From(m, t, "Prepared")' /\ ~From(m, t, "Aborted")'
  <2>1. /\ rm[m] \notin Tentative
        /\ \A t \in TMNodes : ~From(t, m, "Prepare")
        /\ \A t \in TMNodes : ~From(m, t, "Prepared") /\ ~From(m, t, "Aborted")
    BY <1>1 DEF Unasked, Tentative
  <2>2. rm'[m] \notin Tentative
    BY <2>1 DEF Advance, Step, RMStep
  <2>3. \A t \in TMNodes : ~From(t, m, "Prepare")'
    BY <1>0, <1>1, <2>1 DEF New
  <2>4. ~IsAsked(m)
    <3>1. leader_map[m][TM] \in Gens
      BY <1>0, AdvanceTypes, TheirNodes
    <3> QED
      BY <2>1, <3>1, TheirNodes DEF IsAsked
  <2>5. ASSUME NEW t \in TMNodes
        PROVE  ~From(m, t, "Prepared")' /\ ~From(m, t, "Aborted")'
    <3>1. MessageStep(t, m)
      BY DEF Advance, Step
    <3> QED
      BY <2>1, <2>4, <3>1 DEF MessageStep, New
  <2> QED
    BY <2>2, <2>3, <2>5
<1>2. ASSUME HasPrepared(r)'
      PROVE  PreparedFrom(r, k)'
  <2>1. CASE HasPrepared(r)
    BY <2>1, PreparedKept DEF Unasked
  <2>2. CASE ~HasPrepared(r)
    <3>1. PICK m0 \in RMNodes : /\ Gid(m0) = r /\ IsCurrent(m0)' /\ rm[m0] \in Tentative
                                /\ ~Unprepared(m0)'
      BY <1>2, <2>2, NewlyPrepared
    <3>2. Gen(m0) =< k
      BY <1>0, <3>1 DEF Unasked, Tentative
    <3>3. ASSUME NEW m \in RMNodes, Gid(m) = r, Gen(m) >= k, Active(m)', Unprepared(m)'
          PROVE  FALSE
      <4>1. Gen(m) =< log_gen'[Gid(m)]
        BY <1>0, <3>3 DEF Advance, NetworkInv, NetInv, StatusInv, Active
      <4>2. log_gen'[r] = Gen(m0)
        BY <3>1 DEF IsCurrent
      <4>3. Gen(m) = Gen(m0)
        BY <1>0, <3>2, <3>3, <4>1, <4>2
      <4>4. m = m0
        BY <1>0, <3>1, <3>3, <4>3, TheirNodes
      <4> QED
        BY <3>1, <3>3, <4>4
    <3> QED
      BY <1>2, <3>3 DEF PreparedFrom
  <2> QED
    BY <2>1, <2>2
<1> QED
  BY <1>1, <1>2 DEF Unasked, Tentative

(* A leader of the TM that asks to prepare does not know the outcome. *)
LEMMA NewPrepare ==
  ASSUME Advance, NEW t \in TMNodes, NEW m \in RMNodes, New(t, m, "Prepare")
  PROVE  /\ Active(t)' /\ status'[t] = "leader"
         /\ tm'[t].st = "Preparing" /\ Undecided(t)'
         /\ Gen(m) = leader_map'[t][Gid(m)]
<1>1. MessageStep(t, m)
  BY DEF Advance, Step
<1>2. /\ Active(t)' /\ tm'[t].st = "Preparing"
      /\ Gen(m) = leader_map'[t][Gid(m)]
  <2> DEFINE x == <<"Prepare", "Preparing">>
  <2>1. x[1] = "Prepare" /\ x[2] = "Preparing"
    OBVIOUS
  <2>2. New(t, m, x[1]) => /\ Active(t)' /\ tm'[t].st = x[2]
                           /\ Gen(m) = leader_map'[t][Gid(m)]
    BY <1>1 DEF MessageStep
  <2> QED
    BY <2>1, <2>2
<1> QED
  BY <1>2 DEF Undecided, Active

(* Nobody who does not know the outcome hears of a later leader of an RM:  *)
(* what is settled stays so.                                               *)
LEMMA SettledKept ==
  ASSUME Advance, NEW r \in RMs, NEW k \in Gens, Settled(r, k)
  PROVE  Settled(r, k)'
<1>1. Decision # Nothing /\ Decision' # Nothing
  BY DEF Advance, Step, LogStep, Settled
<1>2. k \in Nat /\ r \in Groups
  BY GensNat, TheirNodes
<1>3. \A t \in TMNodes : Undecided(t)' => Within(t, r, k)'
  BY <1>1, <1>2 DEF Advance, Step, TMStep, Settled
<1>4. ASSUME NEW t \in TMNodes, NEW m \in RMNodes, Gid(m) = r, New(t, m, "Prepare")
      PROVE  Gen(m) =< k
  <2>1. Undecided(t)' /\ Gen(m) = leader_map'[t][r]
    BY <1>4, NewPrepare
  <2>2. Within(t, r, k)'
    BY <1>3, <2>1
  <2>3. leader_map'[t][r] =< k
    BY <2>2 DEF Within
  <2> QED
    BY <2>1, <2>3
<1>5. Unasked(r, k)'
  BY <1>2, <1>4, UnaskedKept DEF Settled
<1> QED
  BY <1>1, <1>3, <1>5 DEF Settled

(* Leaders of the TM that know the outcome do not forget it. *)
LEMMA LateKept ==
  ASSUME Advance, NEW k \in Nat, Late(k)
  PROVE  Late(k)'
<1>1. Decision # Nothing /\ Decision' # Nothing
  BY DEF Advance, Step, LogStep, Late
<1>2. \A t \in TMNodes : Undecided(t)' => Undecided(t)
  BY <1>1 DEF Advance, Step, TMStep
<1>3. \A t \in TMNodes : Gen(t) \in Nat
  BY TheirNodes
<1>4. ASSUME NEW t \in TMNodes, Gen(t) > k, NEW m \in RMNodes, From(t, m, "Prepare")'
      PROVE  FALSE
  <2>1. New(t, m, "Prepare")
    BY <1>4 DEF Late, New
  <2>2. Undecided(t)
    BY <1>2, <2>1, NewPrepare
  <2> QED
    BY <1>3, <1>4, <2>2 DEF Late
<1> QED
  BY <1>1, <1>2, <1>4 DEF Late

(* Nothing makes the leader of an RM hear a Prepare again. *)
LEMMA DeafKept ==
  ASSUME Advance, NEW m \in RMNodes, status[m] = "leader", status'[m] = "leader", Deaf(m)
  PROVE  Deaf(m)'
<1>1. m \in Nodes /\ TM \in Groups
  BY TheirNodes
<1>2. PICK j \in Gens : j = leader_map[m][TM]
  BY <1>1, AdvanceTypes
<1>3. PICK k \in Gens : k = leader_map'[m][TM]
  BY <1>1, AdvanceTypes
<1>4. j =< k /\ j \in Nat /\ k \in Nat
  BY <1>1, <1>2, <1>3, GensNat DEF Advance, Step, LeaderStep
<1>5. Late(j) /\ ~From(<<TM, j>>, m, "Prepare")
  BY <1>2 DEF Deaf
<1>6. Late(k) /\ Late(j)'
  BY <1>4, <1>5, LateMore, LateKept
<1>7. Late(k)'
  BY <1>4, <1>6, LateKept
<1>8. /\ <<TM, k>> \in TMNodes /\ Gen(<<TM, k>>) = k
  BY TheirNodes
<1>9. ~From(<<TM, k>>, m, "Prepare")
  <2>1. CASE k = j
    BY <1>5, <2>1
  <2>2. CASE k # j
    BY <1>4, <1>5, <1>8, <2>2 DEF Late
  <2> QED
    BY <2>1, <2>2
<1>10. ~From(<<TM, k>>, m, "Prepare")'
  <2> SUFFICES ASSUME New(<<TM, k>>, m, "Prepare")
               PROVE  FALSE
    BY <1>9 DEF New
  <2>1. Undecided(<<TM, k>>)'
    BY <1>8, NewPrepare
  <2> QED
    BY <1>4, <1>7, <1>8, <2>1 DEF Late
<1> QED
  BY <1>3, <1>7, <1>10 DEF Deaf

(* A leader that Deaf holds of is not asked. *)
LEMMA DeafUnasked ==
  ASSUME NEW m, Deaf(m)
  PROVE  ~IsAsked(m)
  BY DEF Deaf, IsAsked

(* The last leader of an RM to do anything does nothing any more. *)
LEMMA FinishedKept ==
  ASSUME Advance, NEW m \in RMNodes, status'[m] = "leader", Finished(m)
  PROVE  Finished(m)'
<1>1. m \in Nodes /\ Active(m) /\ status[m] = "leader" /\ Deaf(m)
  BY TheirNodes DEF Finished, Active
<1>2. Active(m)'
  BY <1>1 DEF Advance, Step, LeaderStep
<1>3. Deaf(m)'
  BY <1>1, DeafKept
<1>4. rm[m] = "None" \/ (rm[m] \in Resolving /\ Stored(m))
  BY DEF Finished, Resolving
<1>5. RMStep(m) /\ ~IsAsked(m)
  BY <1>1, DeafUnasked DEF Advance, Step
<1>6. rm'[m] = "None" \/ (rm'[m] \in Resolving /\ Stored(m)')
  BY <1>1, <1>4, <1>5 DEF RMStep
<1> QED
  BY <1>2, <1>3, <1>6 DEF Finished, Resolving

(* The log of an RM that is done does not change any more. *)
LEMMA ResolvedKept ==
  ASSUME Advance, NEW r \in RMs, NEW k \in Gens, Over(r, k)
  PROVE  Resolved(r)'
<1>1. Decision # Nothing /\ Decision' = Decision
  BY DEF Advance, Step, LogStep, Over, Settled
<1>2. CASE log_plms'[r] = log_plms[r]
  BY <1>1, <1>2 DEF Over, Resolved
<1>3. CASE log_plms'[r] # log_plms[r]
  <2>1. PICK m \in RMNodes : Gid(m) = r /\ Inserts(m)
    BY <1>3 DEF Advance, Step, LogStep
  <2>2. IndInv
    BY DEF Advance
  <2>3. /\ Active(m) /\ ~Stored(m) /\ log_gen[r] = Gen(m) /\ status[m] = "leader"
        /\ Gen(m) \in Nat /\ k \in Nat /\ m = <<Gid(m), Gen(m)>>
    BY <2>1, TheirNodes, GensNat, NodeFacts DEF Inserts, IsCurrent
  <2>4. k =< Gen(m)
    BY <2>3 DEF Over
  <2>5. CASE Gen(m) = k
    <3>1. Finished(m)
      BY <2>1, <2>3, <2>5 DEF Over
    <3>2. rm[m] = "None"
      BY <2>3, <3>1 DEF Finished
    <3> QED
      BY <2>1, <3>2 DEF Inserts, RMInserting
  <2>6. CASE Gen(m) > k
    <3>1. rm[m] \notin {"InsertingPrepared", "InsertingPreparedAborted"}
      BY <2>1, <2>6 DEF Over, Settled, Unasked
    <3>2. log_plms[r] = <<"Prepared">>
      BY <2>1, <2>2, <3>1, InsertedLog
    <3>3. Decision = "Committed" \/ Decision = "Aborted"
      BY <1>1 DEF Decision
    <3> QED
      BY <3>2, <3>3, Logs DEF Over, Resolved
  <2> QED
    BY <2>3, <2>4, <2>5, <2>6
<1> QED
  BY <1>2, <1>3

(* An RM that is done stays so. *)
LEMMA OverKept ==
  ASSUME Advance, NEW r \in RMs, NEW k \in Gens, Over(r, k)
  PROVE  Over(r, k)'
<1>1. /\ r \in Groups /\ log_gen[r] \in Nat /\ log_gen'[r] \in Nat /\ k \in Nat
      /\ <<r, k>> \in RMNodes /\ <<r, k>> \in Nodes /\ Gid(<<r, k>>) = r /\ Gen(<<r, k>>) = k
  BY AdvanceTypes, TheirNodes, GensNat
<1>2. k =< log_gen[r] /\ log_gen[r] =< log_gen'[r]
  BY <1>1 DEF Advance, Step, LogStep, Over
<1>3. k =< log_gen'[r]
  BY <1>1, <1>2
<1>4. Settled(r, k)'
  BY SettledKept DEF Over
<1>5. Resolved(r)'
  BY ResolvedKept
<1>6. ASSUME status'[<<r, k>>] = "leader"
      PROVE  Finished(<<r, k>>)'
  <2>1. status[<<r, k>>] = "leader"
    BY <1>1, <1>2, <1>6 DEF Advance, Step, LeaderStep
  <2>2. Finished(<<r, k>>)
    BY <2>1 DEF Over
  <2> QED
    BY <1>1, <1>6, <2>2, FinishedKept
<1> QED
  BY <1>3, <1>4, <1>5, <1>6 DEF Over

(* An RM that is done asks for nothing any more. *)
LEMMA OverSilent ==
  ASSUME Advance, NEW r \in RMs, NEW k \in Gens, Over(r, k),
         NEW m \in RMNodes, Gid(m) = r, Gen(m) >= k, NEW t \in TMNodes
  PROVE  ~New(m, t, "Prepared") /\ ~New(m, t, "Aborted")
<1> SUFFICES ASSUME Active(m), rm[m] \in Tentative \/ IsAsked(m)
             PROVE  FALSE
  BY DEF Advance, Step, MessageStep
<1>1. Gen(m) \in Nat /\ k \in Nat /\ m = <<r, Gen(m)>> /\ m \in Nodes /\ TM \in Groups
  BY TheirNodes, GensNat, NodeFacts
<1>2. CASE Gen(m) = k
  <2>1. Finished(m)
    BY <1>1, <1>2 DEF Over, Active
  <2>2. ~IsAsked(m)
    BY <2>1, DeafUnasked DEF Finished
  <2> QED
    BY <2>1, <2>2 DEF Finished, Tentative
<1>3. CASE Gen(m) > k
  <2>1. rm[m] \notin Tentative /\ \A x \in TMNodes : ~From(x, m, "Prepare")
    BY <1>3 DEF Over, Settled, Unasked, Tentative
  <2>2. <<TM, leader_map[m][TM]>> \in TMNodes
    BY <1>1, AdvanceTypes, TheirNodes
  <2> QED
    BY <2>1, <2>2 DEF IsAsked
<1> QED
  BY <1>1, <1>2, <1>3

(* The leader of the TM that has heard the last of an RM hears nothing     *)
(* more of it.                                                             *)
LEMMA MuteKept ==
  ASSUME Advance, NEW t \in TMNodes, NEW r \in RMs, Mute(t, r),
         leader_map[t][r] =< leader_map'[t][r]
  PROVE  Mute(t, r)'
<1>1. PICK k \in Gens :
        /\ k =< leader_map[t][r]
        /\ Over(r, k)
        /\ \A m \in RMNodes : Gid(m) = r /\ Gen(m) >= k =>
             ~From(m, t, "Prepared") /\ ~From(m, t, "Aborted")
  BY DEF Mute
<1>2. k =< leader_map'[t][r]
  <2>1. leader_map[t][r] \in Nat /\ leader_map'[t][r] \in Nat /\ k \in Nat
    BY AdvanceTypes, TheirNodes, GensNat
  <2> QED
    BY <1>1, <2>1
<1>3. Over(r, k)'
  BY <1>1, OverKept
<1>4. \A m \in RMNodes : Gid(m) = r /\ Gen(m) >= k =>
        ~From(m, t, "Prepared")' /\ ~From(m, t, "Aborted")'
  BY <1>1, OverSilent DEF New
<1> QED
  BY <1>2, <1>3, <1>4 DEF Mute, Gid, Gen

(* A message is from a node that has been elected. *)
LEMMA FromGen ==
  ASSUME NetworkInv', NEW t \in TMNodes, NEW m \in RMNodes, NEW p, From(t, m, p)'
  PROVE  Gen(t) =< log_gen'[TM]
<1>1. /\ t \in Nodes /\ m \in Nodes /\ Gid(t) = TM /\ TM \in Groups /\ Gid(m) \in Groups
      /\ Gen(t) \in Nat
  BY TheirNodes
<1>2. <<t, m>> \in Linked
  BY LinkedKinds
<1>3. SilentInv' /\ LagInv'
  BY DEF NetworkInv
<1>4. CASE p \in Range(chan'[<<t, m>>])
  <2>1. chan'[<<t, m>>] # <<>>
    BY <1>4 DEF Range
  <2>2. <<t, m>>[1] = t
    OBVIOUS
  <2>3. Gen(<<t, m>>[1]) =< log_gen'[Gid(<<t, m>>[1])]
    BY <1>2, <1>3, <2>1 DEF SilentInv
  <2> QED
    BY <1>1, <2>2, <2>3
<1>5. CASE network_buffer'[m][Gid(t)].gen = Gen(t) /\ p \in Range(network_buffer'[m][Gid(t)].payloads)
  <2>1. network_buffer'[m][TM].payloads # <<>>
    BY <1>1, <1>5 DEF Range
  <2>2. network_buffer'[m][TM].gen =< log_gen'[TM]
    BY <1>1, <1>3, <2>1 DEF SilentInv
  <2> QED
    BY <1>1, <1>5, <2>2
<1>6. CASE leader_map'[m][Gid(t)] = Gen(t)
  <2>1. log_leader_map' \in [Groups -> [Groups -> Gens]] /\ log_gen' \in [Groups -> Gens]
    BY DEF NetworkInv, NetInv, NetType
  <2>2. log_leader_map'[Gid(m)][TM] \in Nat /\ log_gen'[TM] \in Nat
    BY <1>1, <2>1, GensNat
  <2>3. leader_map'[m][TM] =< log_leader_map'[Gid(m)][TM]
    BY <1>1, <1>3 DEF LagInv, Within
  <2>4. log_leader_map'[Gid(m)][TM] =< log_gen'[TM]
    BY <1>1, <1>3 DEF SilentInv
  <2> QED
    BY <1>1, <1>6, <2>2, <2>3, <2>4
<1> QED
  BY <1>4, <1>5, <1>6 DEF From

(* The ES of a leader of the TM. *)
LEMMA TMLeads ==
  ASSUME TMLogInv, NEW t \in TMNodes, tm[t].st # "None"
  PROVE  Active(t) /\ TMAgrees(t)
<1>1. tm[t] # NoTM
  BY DEF NoTM, TMState
<1> QED
  BY <1>1 DEF TMLogInv, TMLog

(* The same after a step. *)
LEMMA TMLeadsNext ==
  ASSUME TMLogInv', NEW t \in TMNodes, tm'[t].st # "None"
  PROVE  Active(t)' /\ TMAgrees(t)' /\ status'[t] = "leader"
<1>1. tm'[t] # NoTM
  BY DEF NoTM, TMState
<1>2. Active(t)' /\ TMAgrees(t)'
  BY <1>1 DEF TMLogInv, TMLog, NoTM
<1> QED
  BY <1>2 DEF Active

(* A leader of the TM that knows the outcome leads, and there is one. *)
LEMMA DecidedNext ==
  ASSUME TMLogInv', NEW t \in TMNodes, Decided(t)'
  PROVE  Active(t)' /\ status'[t] = "leader" /\ Decision' # Nothing /\ ~Undecided(t)'
<1>1. tm'[t].st # "None"
  BY DEF Decided
<1>2. Active(t)' /\ TMAgrees(t)' /\ status'[t] = "leader"
  BY <1>1, TMLeadsNext
<1>3. Decision' # Nothing
  BY <1>2 DEF TMAgrees, Decided, Nothing
<1> QED
  BY <1>2, <1>3 DEF Decided, Undecided

(* A leader of the TM knows more and more. *)
LEMMA MapGrows ==
  ASSUME Advance, NEW t \in TMNodes, Active(t)', NEW r \in RMs
  PROVE  leader_map[t][r] =< leader_map'[t][r] /\ status[t] = "leader"
<1>1. t \in Nodes /\ r \in Groups
  BY TheirNodes
<1>2. status[t] = "leader" /\ status'[t] = "leader"
  BY <1>1 DEF Advance, Step, LeaderStep, Active
<1> QED
  BY <1>1, <1>2 DEF Advance, Step, LeaderStep

(* Leaders of an RM that the TM does not know of are not asked to prepare. *)
LEMMA AskedNext ==
  ASSUME Advance
  PROVE  AskedInv'
<1> SUFFICES ASSUME NEW r \in RMs
             PROVE  /\ Unasked(r, log_leader_map[TM][r])'
                    /\ \A t \in TMNodes : IsCurrent(t)' => Unasked(r, leader_map[t][r])'
                    /\ \A t \in TMNodes : Decided(t)' => Settled(r, leader_map[t][r])'
                    /\ Decision' # Nothing => Settled(r, log_leader_map[TM][r])'
  BY DEF AskedInv
<1>1. /\ r \in Groups /\ TM \in Groups /\ \A t \in TMNodes : t \in Nodes /\ Gid(t) = TM
      /\ AskedInv /\ NetworkInv /\ NetworkInv' /\ TMLogInv'
  BY TheirNodes DEF Advance, IndInv, ProtocolInv
<1>2. PICK K \in Nat : K = log_leader_map'[TM][r]
  BY <1>1, AdvanceTypes
<1>3. \A t \in TMNodes : Within(t, r, K)' /\ leader_map'[t][r] =< K
  <2>1. \A t \in TMNodes : Within(t, r, log_leader_map[Gid(t)][r])'
    BY <1>1 DEF NetworkInv, LagInv
  <2>2. \A t \in TMNodes : Within(t, r, K)'
    BY <1>1, <1>2, <2>1 DEF Within
  <2> QED
    BY <2>2 DEF Within
<1>4. Unasked(r, K)'
  <2>1. PICK j \in Nat : j = log_leader_map[TM][r]
    BY <1>1, AdvanceTypes
  <2>2. j =< K
    BY <1>1, <1>2, <2>1 DEF Advance, Step, LogStep
  <2>3. Unasked(r, K)
    BY <1>1, <2>1, <2>2, UnaskedMore DEF AskedInv
  <2>4. \A t \in TMNodes, m \in RMNodes : Gid(m) = r /\ New(t, m, "Prepare") => Gen(m) =< K
    BY <1>3, NewPrepare
  <2> QED
    BY <2>3, <2>4, UnaskedKept
<1>5. ASSUME NEW t \in TMNodes, IsCurrent(t)'
      PROVE  Unasked(r, leader_map[t][r])'
  <2>1. PICK k \in Nat : k = leader_map'[t][r]
    BY <1>1, AdvanceTypes
  <2>2. CASE leader_map'[t] = log_leader_map'[TM]
    BY <1>2, <1>4, <2>2 DEF Unasked
  <2>3. CASE IsCurrent(t)
    <3>1. PICK j \in Nat : j = leader_map[t][r]
      BY <1>1, AdvanceTypes
    <3>2. j =< k
      BY <1>1, <1>5, <2>1, <2>3, <3>1 DEF Advance, Step, LeaderStep, IsCurrent
    <3>3. Unasked(r, k)
      BY <1>1, <2>3, <3>1, <3>2, UnaskedMore DEF AskedInv
    <3>4. ASSUME NEW x \in TMNodes, NEW m \in RMNodes, Gid(m) = r, New(x, m, "Prepare")
          PROVE  Gen(m) =< k
      <4>1. status'[x] = "leader" /\ Gen(m) = leader_map'[x][r]
        BY <3>4, NewPrepare
      <4>2. CASE x = t
        BY <2>1, <4>1, <4>2
      <4>3. CASE x # t
        <5>1. Within(x, r, leader_map[t][r])'
          BY <1>1, <1>5, <4>1, <4>3 DEF NetworkInv, MonotoneInv
        <5> QED
          BY <2>1, <4>1, <5>1 DEF Within
      <4> QED
        BY <4>2, <4>3
    <3>5. Unasked(r, k)'
      BY <3>3, <3>4, UnaskedKept
    <3> QED
      BY <2>1, <3>5 DEF Unasked
  <2> QED
    BY <1>5, <2>2, <2>3 DEF Advance, Step, LeaderStep
<1>6. ASSUME NEW t \in TMNodes, Decided(t)'
      PROVE  Settled(r, leader_map[t][r])'
  <2>1. Active(t)' /\ status'[t] = "leader" /\ Decision' # Nothing /\ ~Undecided(t)'
    BY <1>1, <1>6, DecidedNext
  <2>2. PICK k \in Gens : k = leader_map'[t][r]
    BY <1>1, AdvanceTypes
  <2>3. CASE Decided(t)
    <3>1. PICK j \in Nat : j = leader_map[t][r]
      BY <1>1, AdvanceTypes
    <3>2. j =< k /\ k \in Nat
      BY <2>1, <2>2, <3>1, MapGrows, GensNat
    <3>3. Settled(r, j)
      BY <1>1, <2>3, <3>1 DEF AskedInv
    <3>4. Settled(r, k)
      BY <1>1, <3>2, <3>3, SettledMore
    <3>5. Settled(r, k)'
      BY <3>4, SettledKept
    <3> QED
      BY <2>2, <3>5 DEF Settled
  <2>4. CASE IsCurrent(t)'
    <3>1. Unasked(r, leader_map[t][r])'
      BY <1>5, <2>4
    <3>2. ASSUME NEW x \in TMNodes, Undecided(x)'
          PROVE  Within(x, r, leader_map[t][r])'
      <4>1. x # t /\ tm'[x].st # "None"
        BY <2>1, <3>2 DEF Undecided
      <4>2. status'[x] = "leader"
        BY <1>1, <4>1, TMLeadsNext
      <4> QED
        BY <1>1, <2>4, <4>1, <4>2 DEF NetworkInv, MonotoneInv
    <3> QED
      BY <2>1, <3>1, <3>2 DEF Settled
  <2> QED
    BY <1>6, <2>3, <2>4 DEF Advance, Step, TMStep
<1>7. ASSUME Decision' # Nothing
      PROVE  Settled(r, K)'
  BY <1>3, <1>4, <1>7 DEF Settled
<1>8. Unasked(r, log_leader_map[TM][r])'
  BY <1>2, <1>4 DEF Unasked
<1>9. Decision' # Nothing => Settled(r, log_leader_map[TM][r])'
  BY <1>2, <1>7 DEF Settled
<1> QED
  BY <1>5, <1>6, <1>8, <1>9

(* The leaders of the TM after one that knows the outcome know it as well. *)
LEMMA LateNext ==
  ASSUME Advance
  PROVE  LateInv'
<1> SUFFICES ASSUME NEW t \in TMNodes, Decided(t)'
             PROVE  Late(Gen(t))'
  BY DEF LateInv
<1>1. /\ t \in Nodes /\ Gid(t) = TM /\ Gen(t) \in Nat /\ TM \in Groups
      /\ NetworkInv' /\ TMLogInv' /\ log_gen'[TM] \in Nat
  BY TheirNodes, AdvanceTypes DEF Advance
<1>2. Decision' # Nothing /\ ~Undecided(t)'
  BY <1>1, DecidedNext
<1>3. CASE Decided(t)
  <2>1. Late(Gen(t))
    BY <1>3 DEF Advance, IndInv, ProtocolInv, LateInv
  <2>2. Late(Gen(t))'
    BY <1>1, <2>1, LateKept
  <2> QED
    BY <2>2
<1>4. CASE IsCurrent(t)'
  <2>1. log_gen'[TM] = Gen(t)
    BY <1>1, <1>4 DEF IsCurrent
  <2>2. ASSUME NEW x \in TMNodes, Gen(x) >= Gen(t), Undecided(x)'
        PROVE  FALSE
    <3>1. x \in Nodes /\ Gid(x) = TM /\ Gen(x) \in Nat
      BY TheirNodes
    <3>2. status'[x] = "leader"
      BY <1>1, <2>2, TMLeadsNext DEF Undecided
    <3>3. Gen(x) =< log_gen'[TM]
      BY <1>1, <3>1, <3>2 DEF NetworkInv, NetInv, StatusInv
    <3>4. Gen(x) = Gen(t)
      BY <1>1, <2>1, <2>2, <3>1, <3>3
    <3>5. x = t
      BY <1>1, <3>1, <3>4, TheirNodes
    <3> QED
      BY <1>2, <2>2, <3>5
  <2>3. ASSUME NEW x \in TMNodes, Gen(x) > Gen(t), NEW m \in RMNodes, From(x, m, "Prepare")'
        PROVE  FALSE
    <3>1. Gen(x) =< log_gen'[TM] /\ Gen(x) \in Nat
      BY <1>1, <2>3, FromGen, TheirNodes
    <3> QED
      BY <1>1, <2>1, <2>3, <3>1
  <2> QED
    BY <1>2, <2>2, <2>3 DEF Late
<1> QED
  BY <1>3, <1>4 DEF Advance, Step, TMStep

(* What the TM counts as answered is true of the RMs. *)
LEMMA TMStateNext ==
  ASSUME Advance
  PROVE  TMStateInv'
<1>1. \A t \in TMNodes : t \in Nodes /\ TMStep(t)
  BY TheirNodes DEF Advance, Step
<1>2. RMs \subseteq Groups /\ TM \in Groups /\ TMLogInv'
  BY TheirNodes DEF Advance
<1>3. ASSUME NEW t \in TMNodes, NEW r \in RMs, tm'[t].st # "None", PreparedFrom(r, leader_map[t][r])
      PROVE  PreparedFrom(r, leader_map[t][r])'
  <2>1. PICK j \in Nat : j = leader_map[t][r]
    BY <1>1, <1>2, AdvanceTypes
  <2>2. PICK k \in Nat : k = leader_map'[t][r]
    BY <1>1, <1>2, AdvanceTypes
  <2>3. Active(t)'
    BY <1>2, <1>3, TMLeadsNext
  <2>4. j =< k
    BY <2>1, <2>2, <2>3, MapGrows
  <2>5. PreparedFrom(r, k)
    BY <1>3, <2>1, <2>4, PreparedMore
  <2>6. PreparedFrom(r, k)'
    BY <2>5, PreparedKept
  <2> QED
    BY <2>2, <2>6 DEF PreparedFrom
<1>4. ASSUME NEW t \in TMNodes, NEW r \in RMs, Active(t)', Mute(t, r)
      PROVE  Mute(t, r)'
  <2>1. leader_map[t][r] =< leader_map'[t][r]
    BY <1>4, MapGrows
  <2> QED
    BY <1>4, <2>1, MuteKept
<1>5. ASSUME NEW t \in TMNodes, NEW r \in RMs
      PROVE  /\ tm'[t].st = "Preparing" /\ r \notin tm'[t].rms_remaining => PreparedFrom(r, leader_map[t][r])'
             /\ tm'[t].st \in {"InsertingTMCommitted", "Committed"} => PreparedFrom(r, leader_map[t][r])'
  BY <1>1, <1>3 DEF TMStep
<1>6. ASSUME NEW t \in TMNodes, NEW r \in RMs
      PROVE  /\ tm'[t].st \in {"Committed", "Aborted"} /\ r \notin tm'[t].rms_remaining => Mute(t, r)'
             /\ tm'[t].st = "InsertingTMClosed" => Mute(t, r)'
             /\ Active(t)' /\ tm'[t] = NoTM /\ Asked' => Mute(t, r)'
  <2>1. tm'[t].st \in {"Committed", "Aborted", "InsertingTMClosed"} => Active(t)'
    BY <1>2, TMLeadsNext
  <2> QED
    BY <1>1, <1>4, <2>1 DEF TMStep
<1>7. ASSUME NEW r \in RMs
      PROVE  /\ Decision' = "Committed" => PreparedFrom(r, log_leader_map[TM][r])'
             /\ IsClosed' => \E k \in Gens : k =< log_leader_map'[TM][r] /\ Over(r, k)'
  <2>1. PICK j \in Nat : j = log_leader_map[TM][r]
    BY <1>2, AdvanceTypes
  <2>2. PICK k \in Nat : k = log_leader_map'[TM][r]
    BY <1>2, AdvanceTypes
  <2>3. j =< k
    BY <1>2, <2>1, <2>2 DEF Advance, Step, LogStep
  <2>4. ASSUME Decision' = "Committed"
        PROVE  PreparedFrom(r, log_leader_map[TM][r])'
    <3>1. PreparedFrom(r, j)
      BY <2>1, <2>4 DEF Advance, Step, LogStep
    <3>2. PreparedFrom(r, k)
      BY <2>3, <3>1, PreparedMore
    <3>3. PreparedFrom(r, k)'
      BY <3>2, PreparedKept
    <3> QED
      BY <2>2, <3>3 DEF PreparedFrom
  <2>5. ASSUME IsClosed'
        PROVE  \E i \in Gens : i =< log_leader_map'[TM][r] /\ Over(r, i)'
    <3>1. PICK i \in Gens : i =< j /\ Over(r, i)
      BY <2>1, <2>5 DEF Advance, Step, LogStep
    <3>2. Over(r, i)' /\ i =< k
      BY <2>3, <3>1, OverKept, GensNat
    <3> QED
      BY <2>2, <3>2
  <2> QED
    BY <2>4, <2>5
<1> QED
  BY <1>5, <1>6, <1>7 DEF TMStateInv

(* What a leader of the TM sends when it knows the outcome. *)
LEMMA NewOutcome ==
  ASSUME Advance, NEW t \in TMNodes, NEW m \in RMNodes
  PROVE  /\ New(t, m, "Commit") => /\ tm'[t].st = "Committed" /\ Decided(t)'
                                   /\ Gen(m) = leader_map'[t][Gid(m)]
         /\ New(t, m, "Abort") => /\ tm'[t].st = "Aborted" /\ Decided(t)'
                                  /\ Gen(m) = leader_map'[t][Gid(m)]
<1>1. MessageStep(t, m)
  BY DEF Advance, Step
<1>2. ASSUME NEW x \in {<<"Commit", "Committed">>, <<"Abort", "Aborted">>}, New(t, m, x[1])
      PROVE  tm'[t].st = x[2] /\ Gen(m) = leader_map'[t][Gid(m)]
  BY <1>1, <1>2 DEF MessageStep
<1>3. <<"Commit", "Committed">>[1] = "Commit" /\ <<"Commit", "Committed">>[2] = "Committed"
  OBVIOUS
<1>4. <<"Abort", "Aborted">>[1] = "Abort" /\ <<"Abort", "Aborted">>[2] = "Aborted"
  OBVIOUS
<1>5. New(t, m, "Commit") => tm'[t].st = "Committed" /\ Gen(m) = leader_map'[t][Gid(m)]
  BY <1>2, <1>3
<1>6. New(t, m, "Abort") => tm'[t].st = "Aborted" /\ Gen(m) = leader_map'[t][Gid(m)]
  BY <1>2, <1>4
<1> QED
  BY <1>5, <1>6 DEF Decided

(* What is under way to an RM is true of the TM. *)
LEMMA RMMessageNext ==
  ASSUME Advance
  PROVE  RMMessageInv'
<1> SUFFICES ASSUME NEW t \in TMNodes, NEW m \in RMNodes
             PROVE  /\ From(t, m, "Prepare")' => Asked'
                    /\ From(t, m, "Commit")' => Decision' = "Committed" /\ PreparedFrom(Gid(m), Gen(m))'
                    /\ From(t, m, "Abort")' => Decision' = "Aborted"
                    /\ From(t, m, "Commit")' \/ From(t, m, "Abort")' =>
                         Settled(Gid(m), Gen(m))' /\ Late(Gen(t))'
  BY DEF RMMessageInv, Gid, Gen
<1>1. /\ Gid(m) \in RMs /\ Gen(m) \in Gens /\ Gen(m) \in Nat /\ Gen(t) \in Nat
      /\ TMLogInv' /\ RMMessageInv /\ LogStep
  BY TheirNodes DEF Advance, IndInv, ProtocolInv, Step
<1>2. AskedInv' /\ LateInv' /\ TMStateInv'
  BY AskedNext, LateNext, TMStateNext
<1>3. ASSUME From(t, m, "Prepare")' PROVE Asked'
  <2>1. CASE From(t, m, "Prepare")
    BY <1>1, <2>1 DEF RMMessageInv, LogStep
  <2>2. CASE New(t, m, "Prepare")
    <3>1. tm'[t].st = "Preparing"
      BY <2>2, NewPrepare
    <3>2. TMAgrees(t)'
      BY <1>1, <3>1, TMLeadsNext
    <3> QED
      BY <3>1, <3>2 DEF TMAgrees, Counting
  <2> QED
    BY <1>3, <2>1, <2>2 DEF New
<1>4. ASSUME Decided(t)', Gen(m) = leader_map'[t][Gid(m)]
      PROVE  Settled(Gid(m), Gen(m))' /\ Late(Gen(t))'
  <2>1. Settled(Gid(m), leader_map[t][Gid(m)])'
    BY <1>1, <1>2, <1>4 DEF AskedInv
  <2>2. Settled(Gid(m), Gen(m))'
    BY <1>4, <2>1 DEF Settled
  <2> QED
    BY <1>2, <1>4, <2>2 DEF LateInv
<1>5. ASSUME From(t, m, "Commit")'
      PROVE  /\ Decision' = "Committed" /\ PreparedFrom(Gid(m), Gen(m))'
             /\ Settled(Gid(m), Gen(m))' /\ Late(Gen(t))'
  <2>1. CASE From(t, m, "Commit")
    <3>1. /\ Decision = "Committed" /\ PreparedFrom(Gid(m), Gen(m))
          /\ Settled(Gid(m), Gen(m)) /\ Late(Gen(t))
      BY <1>1, <2>1 DEF RMMessageInv
    <3>2. Decision' = "Committed"
      BY <1>1, <3>1 DEF LogStep, Nothing
    <3>3. PreparedFrom(Gid(m), Gen(m))'
      BY <1>1, <3>1, PreparedKept
    <3>4. Settled(Gid(m), Gen(m))'
      BY <1>1, <3>1, SettledKept
    <3>5. Late(Gen(t))'
      BY <1>1, <3>1, LateKept
    <3> QED
      BY <3>2, <3>3, <3>4, <3>5
  <2>2. CASE New(t, m, "Commit")
    <3>1. tm'[t].st = "Committed" /\ Decided(t)' /\ Gen(m) = leader_map'[t][Gid(m)]
      BY <2>2, NewOutcome
    <3>2. Decision' = "Committed"
      <4>1. TMAgrees(t)'
        BY <1>1, <3>1, TMLeadsNext
      <4> QED
        BY <3>1, <4>1 DEF TMAgrees
    <3>3. PreparedFrom(Gid(m), leader_map[t][Gid(m)])'
      BY <1>1, <1>2, <3>1 DEF TMStateInv
    <3>4. PreparedFrom(Gid(m), Gen(m))'
      BY <3>1, <3>3 DEF PreparedFrom
    <3> QED
      BY <1>4, <3>1, <3>2, <3>4
  <2> QED
    BY <1>5, <2>1, <2>2 DEF New
<1>6. ASSUME From(t, m, "Abort")'
      PROVE  Decision' = "Aborted" /\ Settled(Gid(m), Gen(m))' /\ Late(Gen(t))'
  <2>1. CASE From(t, m, "Abort")
    <3>1. Decision = "Aborted" /\ Settled(Gid(m), Gen(m)) /\ Late(Gen(t))
      BY <1>1, <2>1 DEF RMMessageInv
    <3>2. Decision' = "Aborted"
      BY <1>1, <3>1 DEF LogStep, Nothing
    <3>4. Settled(Gid(m), Gen(m))'
      BY <1>1, <3>1, SettledKept
    <3>5. Late(Gen(t))'
      BY <1>1, <3>1, LateKept
    <3> QED
      BY <3>2, <3>4, <3>5
  <2>2. CASE New(t, m, "Abort")
    <3>1. tm'[t].st = "Aborted" /\ Decided(t)' /\ Gen(m) = leader_map'[t][Gid(m)]
      BY <2>2, NewOutcome
    <3>2. Decision' = "Aborted"
      <4>1. TMAgrees(t)'
        BY <1>1, <3>1, TMLeadsNext
      <4> QED
        BY <3>1, <4>1 DEF TMAgrees
    <3> QED
      BY <1>4, <3>1, <3>2
  <2> QED
    BY <1>6, <2>1, <2>2 DEF New
<1> QED
  BY <1>3, <1>5, <1>6

(* What the leader of an RM holds agrees with the log of the RM and of the *)
(* TM.                                                                     *)
LEMMA RMStateNext ==
  ASSUME Advance
  PROVE  RMStateInv'
<1> DEFINE Late3 == {"InsertingPreparedAborted", "InsertingCommitted", "InsertingAborted"}
<1> SUFFICES ASSUME NEW m \in RMNodes
             PROVE  IF Active(m)'
                    THEN /\ rm'[m] # "None" => Asked'
                         /\ ~Unprepared(m)' => PreparedFrom(Gid(m), Gen(m))'
                         /\ rm'[m] = "InsertingCommitted" => Decision' = "Committed"
                         /\ rm'[m] \in {"InsertingPreparedAborted", "InsertingAborted"} =>
                              Decision' = "Aborted"
                         /\ rm'[m] \in Late3 => Settled(Gid(m), Gen(m))' /\ Deaf(m)'
                         /\ rm'[m] \in {"InsertingCommitted", "InsertingAborted"} /\ Stored(m)' =>
                              Over(Gid(m), Gen(m))'
                         /\ IsCurrent(m)' => RMCurrent(m)'
                    ELSE rm'[m] = "None"
  BY DEF RMStateInv, Gid, Gen
<1>1. /\ m \in Nodes /\ Gid(m) \in RMs /\ Gid(m) \in Groups /\ Gen(m) \in Gens /\ Gen(m) \in Nat
      /\ m = <<Gid(m), Gen(m)>>
  BY TheirNodes, NodeFacts
<1>2. /\ RMStep(m) /\ LogStep /\ LeaderStep /\ RMStateInv /\ NetworkInv'
      /\ rm' \in [RMNodes -> RMStates] /\ rm'[m] \in RMStates
  BY DEF Advance, Step, IndInv, ProtocolInv, StateTypes
<1>3. CASE ~Active(m)'
  BY <1>2, <1>3 DEF RMStep
<1>4. CASE Active(m)'
  <2>1. rm'[m] # "None" => Asked'
    BY <1>2, <1>4 DEF RMStep, LogStep
  <2>2. IsCurrent(m)' => RMCurrent(m)'
    BY <1>2, <1>4 DEF RMStep
  <2>3. ASSUME ~Unprepared(m)'
        PROVE  PreparedFrom(Gid(m), Gen(m))'
    <3>1. CASE Active(m) /\ ~Unprepared(m)
      <4>1. PreparedFrom(Gid(m), Gen(m))
        BY <1>2, <3>1 DEF RMStateInv
      <4> QED
        BY <1>1, <4>1, PreparedKept
    <3>2. CASE IsCurrent(m)'
      <4>1. RMCurrent(m)'
        BY <2>2, <3>2
      <4>2. HasPrepared(Gid(m))'
        <5>1. \/ rm'[m] \in {"InsertingPrepared", "InsertingPreparedAborted"} /\ Stored(m)'
              \/ rm'[m] \in {"Prepared", "InsertingCommitted", "InsertingAborted"}
          BY <1>2, <2>3 DEF Unprepared, RMStates
        <5> QED
          BY <4>1, <5>1, Logs DEF RMCurrent, HasPrepared
      <4>3. ASSUME NEW x \in RMNodes, Gid(x) = Gid(m), Gen(x) >= Gen(m), Active(x)'
            PROVE  x = m
        <5>1. x \in Nodes /\ Gen(x) \in Nat
          BY TheirNodes
        <5>2. Gen(x) =< log_gen'[Gid(x)]
          BY <1>2, <4>3, <5>1 DEF NetworkInv, NetInv, StatusInv, Active
        <5>3. log_gen'[Gid(m)] = Gen(m)
          BY <3>2 DEF IsCurrent
        <5>4. Gen(x) = Gen(m)
          BY <1>1, <4>3, <5>1, <5>2, <5>3
        <5> QED
          BY <1>1, <4>3, <5>1, <5>4, TheirNodes
      <4>4. \A x \in RMNodes : Gid(x) = Gid(m) /\ Gen(x) >= Gen(m) /\ Active(x)' => ~Unprepared(x)'
        BY <2>3, <4>3
      <4> QED
        BY <4>2, <4>4 DEF PreparedFrom, Gid, Gen
    <3> QED
      BY <1>2, <1>4, <2>3, <3>1, <3>2 DEF RMStep
  <2>4. ASSUME rm'[m] \in Late3
        PROVE  /\ Decision' = IF rm'[m] = "InsertingCommitted" THEN "Committed" ELSE "Aborted"
               /\ Settled(Gid(m), Gen(m))' /\ Deaf(m)'
    <3>1. /\ Active(m) /\ Settled(Gid(m), Gen(m)) /\ Deaf(m)
          /\ Decision = IF rm'[m] = "InsertingCommitted" THEN "Committed" ELSE "Aborted"
      BY <1>2, <1>4, <2>4 DEF RMStep
    <3>2. Settled(Gid(m), Gen(m))'
      BY <1>1, <3>1, SettledKept
    <3>3. Deaf(m)'
      BY <1>4, <3>1, DeafKept DEF Active
    <3>4. Decision' = Decision
      BY <1>2, <3>1 DEF LogStep, Settled
    <3> QED
      BY <3>1, <3>2, <3>3, <3>4
  <2>5. ASSUME rm'[m] \in Resolving, Stored(m)'
        PROVE  Over(Gid(m), Gen(m))'
    <3>1. CASE Active(m) /\ rm[m] \in Resolving /\ Stored(m)
      <4>1. Over(Gid(m), Gen(m))
        BY <1>2, <3>1 DEF RMStateInv, Resolving
      <4> QED
        BY <1>1, <4>1, OverKept
    <3>2. CASE IsCurrent(m)'
      <4>1. RMCurrent(m)' /\ log_gen'[Gid(m)] = Gen(m)
        BY <2>2, <3>2 DEF IsCurrent
      <4>2. rm'[m] \in Late3
        BY <2>5 DEF Resolving
      <4>3. /\ Decision' = IF rm'[m] = "InsertingCommitted" THEN "Committed" ELSE "Aborted"
            /\ Settled(Gid(m), Gen(m))' /\ Deaf(m)'
        BY <2>4, <4>2
      <4>4. Resolved(Gid(m))'
        <5>1. CASE rm'[m] = "InsertingCommitted"
          BY <2>5, <4>1, <4>3, <5>1 DEF RMCurrent, Resolved
        <5>2. CASE rm'[m] = "InsertingAborted"
          BY <2>5, <4>1, <4>3, <5>2 DEF RMCurrent, Resolved
        <5> QED
          BY <2>5, <5>1, <5>2 DEF Resolving
      <4>5. Finished(m)'
        BY <1>4, <2>5, <4>3 DEF Finished, Resolving
      <4>6. Finished(<<Gid(m), Gen(m)>>)'
        <5>1. <<Gid(m), Gen(m)>> = m
          BY <1>1
        <5> QED
          BY <4>5, <5>1
      <4>7. Gen(m) =< log_gen'[Gid(m)]
        BY <1>1, <4>1
      <4> QED
        BY <4>3, <4>4, <4>6, <4>7 DEF Over
    <3> QED
      BY <1>2, <1>4, <2>5, <3>1, <3>2 DEF RMStep
  <2>6. ASSUME rm'[m] \in {"InsertingCommitted", "InsertingAborted"}, Stored(m)'
        PROVE  Over(Gid(m), Gen(m))'
    BY <2>5, <2>6 DEF Resolving
  <2>7. /\ rm'[m] = "InsertingCommitted" => Decision' = "Committed"
        /\ rm'[m] \in {"InsertingPreparedAborted", "InsertingAborted"} => Decision' = "Aborted"
        /\ rm'[m] \in Late3 => Settled(Gid(m), Gen(m))' /\ Deaf(m)'
    BY <2>4
  <2> HIDE DEF Late3
  <2> QED
    BY <1>4, <2>1, <2>2, <2>3, <2>6, <2>7
<1> QED
  BY <1>3, <1>4

(* What is under way to the TM is true of the RM. *)
LEMMA TMMessageNext ==
  ASSUME Advance
  PROVE  TMMessageInv'
<1> SUFFICES ASSUME NEW t \in TMNodes, NEW m \in RMNodes
             PROVE  /\ From(m, t, "Prepared")' => Asked' /\ PreparedFrom(Gid(m), Gen(m))'
                    /\ From(m, t, "Aborted")' => Asked'
                    /\ From(m, t, "Closed")' => Over(Gid(m), Gen(m))'
  BY DEF TMMessageInv, Gid, Gen
<1>1. /\ m \in Nodes /\ Gid(m) \in RMs /\ Gid(m) \in Groups /\ Gen(m) \in Gens /\ Gen(m) \in Nat
      /\ m = <<Gid(m), Gen(m)>> /\ TM \in Groups
  BY TheirNodes, NodeFacts
<1>2. MessageStep(t, m) /\ LogStep /\ TMMessageInv /\ RMStateInv /\ RMMessageInv /\ NetworkInv
  BY DEF Advance, Step, IndInv, ProtocolInv
<1>3. RMStateInv'
  BY RMStateNext
<1>4. ASSUME New(m, t, "Prepared") \/ New(m, t, "Aborted")
      PROVE  Asked'
  <2>1. Active(m) /\ (rm[m] \in Tentative \/ IsAsked(m))
    BY <1>2, <1>4 DEF MessageStep
  <2>2. CASE rm[m] \in Tentative
    BY <1>2, <2>1, <2>2 DEF RMStateInv, Tentative, LogStep
  <2>3. CASE IsAsked(m)
    <3>1. <<TM, leader_map[m][TM]>> \in TMNodes
      BY <1>1, AdvanceTypes, TheirNodes
    <3> QED
      BY <1>2, <2>3, <3>1 DEF RMMessageInv, IsAsked, LogStep
  <2> QED
    BY <2>1, <2>2, <2>3
<1>5. ASSUME From(m, t, "Prepared")'
      PROVE  Asked' /\ PreparedFrom(Gid(m), Gen(m))'
  <2>1. CASE From(m, t, "Prepared")
    <3>1. Asked /\ PreparedFrom(Gid(m), Gen(m))
      BY <1>2, <2>1 DEF TMMessageInv
    <3>2. PreparedFrom(Gid(m), Gen(m))'
      BY <1>1, <3>1, PreparedKept
    <3> QED
      BY <1>2, <3>1, <3>2 DEF LogStep
  <2>2. CASE New(m, t, "Prepared")
    <3>1. Active(m)' /\ rm'[m] = "Prepared"
      BY <1>2, <2>2 DEF MessageStep
    <3>2. ~Unprepared(m)'
      BY <3>1 DEF Unprepared
    <3>3. PreparedFrom(Gid(m), Gen(m))'
      BY <1>3, <3>1, <3>2 DEF RMStateInv
    <3> QED
      BY <1>4, <2>2, <3>3
  <2> QED
    BY <1>5, <2>1, <2>2 DEF New
<1>6. ASSUME From(m, t, "Aborted")'
      PROVE  Asked'
  <2>1. CASE From(m, t, "Aborted")
    BY <1>2, <2>1 DEF TMMessageInv, LogStep
  <2>2. CASE New(m, t, "Aborted")
    BY <1>4, <2>2
  <2> QED
    BY <1>6, <2>1, <2>2 DEF New
<1>7. ASSUME From(m, t, "Closed")'
      PROVE  Over(Gid(m), Gen(m))'
  <2>1. CASE From(m, t, "Closed")
    <3>1. Over(Gid(m), Gen(m))
      BY <1>2, <2>1 DEF TMMessageInv
    <3> QED
      BY <1>1, <3>1, OverKept
  <2>2. CASE New(m, t, "Closed")
    <3>1. /\ Active(m) /\ Active(m)' /\ rm'[m] = "None"
          /\ Settled(Gid(m), Gen(m)) /\ Resolved(Gid(m)) /\ Deaf(m)
          /\ UNCHANGED log_plms
      BY <1>2, <2>2 DEF MessageStep
    <3>2. Settled(Gid(m), Gen(m))'
      BY <1>1, <3>1, SettledKept
    <3>3. Deaf(m)'
      BY <3>1, DeafKept DEF Active
    <3>4. Finished(m)'
      BY <3>1, <3>3 DEF Finished
    <3>5. Finished(<<Gid(m), Gen(m)>>)'
      <4>1. <<Gid(m), Gen(m)>> = m
        BY <1>1
      <4> QED
        BY <3>4, <4>1
    <3>6. Resolved(Gid(m))'
      <4>1. Decision' = Decision
        BY <3>1 DEF Decision
      <4> QED
        BY <3>1, <4>1 DEF Resolved
    <3>7. Gen(m) =< log_gen'[Gid(m)]
      <4>1. NetworkInv' /\ status'[m] = "leader"
        BY <3>1 DEF Advance, Active
      <4> QED
        BY <1>1, <4>1 DEF NetworkInv, NetInv, StatusInv
    <3> QED
      BY <3>2, <3>5, <3>6, <3>7 DEF Over
  <2> QED
    BY <1>7, <2>1, <2>2 DEF New
<1> QED
  BY <1>5, <1>6, <1>7

(* The log of an RM holds what it may, and an outcome only when the RM is  *)
(* done.                                                                   *)
LEMMA RMLogNext ==
  ASSUME Advance
  PROVE  RMLogInv'
<1> SUFFICES ASSUME NEW r \in RMs
             PROVE  /\ log_plms'[r] \in {<<>>, <<"Prepared">>, <<"Prepared", "Committed">>,
                                         <<"Prepared", "Aborted">>}
                    /\ HasPrepared(r)' => Asked'
                    /\ HasOutcome(r)' => \E k \in Gens : Over(r, k)'
  BY DEF RMLogInv
<1>1. IndInv /\ RMLogInv /\ LogStep
  BY DEF Advance, IndInv, ProtocolInv, Step
<1>2. RMStateInv'
  BY RMStateNext
<1>3. CASE log_plms'[r] = log_plms[r]
  <2>1. log_plms'[r] \in {<<>>, <<"Prepared">>, <<"Prepared", "Committed">>, <<"Prepared", "Aborted">>}
    BY <1>1, <1>3 DEF RMLogInv
  <2>2. HasPrepared(r)' => Asked'
    BY <1>1, <1>3 DEF RMLogInv, HasPrepared, LogStep
  <2>3. ASSUME HasOutcome(r)' PROVE \E k \in Gens : Over(r, k)'
    <3>1. HasOutcome(r)
      BY <1>3, <2>3 DEF HasOutcome
    <3>2. PICK k \in Gens : Over(r, k)
      BY <1>1, <3>1 DEF RMLogInv
    <3> QED
      BY <3>2, OverKept
  <2> QED
    BY <2>1, <2>2, <2>3
<1>4. CASE log_plms'[r] # log_plms[r]
  <2>1. PICK m \in RMNodes : Gid(m) = r /\ Inserts(m)
    BY <1>1, <1>4 DEF LogStep
  <2>2. \/ /\ rm[m] \in {"InsertingPrepared", "InsertingPreparedAborted"}
           /\ log_plms'[r] = <<"Prepared">>
        \/ /\ rm[m] = "InsertingCommitted" /\ log_plms'[r] = <<"Prepared", "Committed">>
        \/ /\ rm[m] = "InsertingAborted" /\ log_plms'[r] = <<"Prepared", "Aborted">>
    BY <1>1, <2>1, InsertedLog
  <2>3. Asked'
    BY <1>1, <2>1, <2>2 DEF Inserts, IndInv, ProtocolInv, RMStateInv, LogStep
  <2>4. ASSUME HasOutcome(r)' PROVE \E k \in Gens : Over(r, k)'
    <3>1. rm[m] \in {"InsertingCommitted", "InsertingAborted"}
      BY <2>2, <2>4, Logs DEF HasOutcome
    <3>2. Active(m)' /\ rm'[m] \in {"InsertingCommitted", "InsertingAborted"} /\ Stored(m)'
      BY <2>1, <3>1 DEF Inserts
    <3>3. Over(Gid(m), Gen(m))'
      BY <1>2, <3>2 DEF RMStateInv
    <3> QED
      BY <2>1, <3>3, TheirNodes
  <2> QED
    BY <2>2, <2>3, <2>4
<1> QED
  BY <1>3, <1>4

(* The invariant of the protocol is kept. *)
LEMMA ProtocolNext ==
  ASSUME Advance
  PROVE  ProtocolInv'
  BY AskedNext, LateNext, RMMessageNext, TMMessageNext, RMStateNext, RMLogNext, TMStateNext
     DEF ProtocolInv
-----------------------------------------------------------------------------
(* Nodes that a step leaves alone *)

(* The leader of an RM that goes on as before. *)
LEMMA RMSameStored ==
  ASSUME IndInv, NEW m \in RMNodes,
         rm'[m] = rm[m], Active(m)' <=> Active(m),
         Active(m)' /\ IsCurrent(m)' => IsCurrent(m) /\ log_plms'[Gid(m)] = log_plms[Gid(m)],
         Stored(m)' <=> Stored(m)
  PROVE  RMStep(m)
<1>1. /\ rm'[m] = rm[m]
      /\ (Stored(m)' <=> Stored(m)) /\ (Unprepared(m)' <=> Unprepared(m))
  BY DEF Unprepared
<1>2. RMStateInv
  BY DEF IndInv, ProtocolInv
<1>3. IsCurrent(m)' /\ Active(m)' => RMCurrent(m)'
  <2>1. IsCurrent(m)' /\ Active(m)' => RMCurrent(m)
    BY <1>2 DEF RMStateInv
  <2> QED
    BY <1>1, <2>1 DEF RMCurrent
<1>4. /\ Active(m)' /\ rm'[m] # "None" => Asked
      /\ ~Active(m)' => rm'[m] = "None"
      /\ Active(m)' /\ rm'[m] \in {"InsertingPreparedAborted", "InsertingCommitted", "InsertingAborted"} =>
           /\ Active(m) /\ Settled(Gid(m), Gen(m)) /\ Deaf(m)
           /\ Decision = IF rm'[m] = "InsertingCommitted" THEN "Committed" ELSE "Aborted"
  BY <1>1, <1>2 DEF RMStateInv
<1> QED
  BY <1>1, <1>3, <1>4 DEF RMStep

(* Because it is left alone. *)
LEMMA RMSame ==
  ASSUME IndInv, NEW m \in RMNodes,
         rm'[m] = rm[m], Active(m)' <=> Active(m),
         Active(m)' /\ IsCurrent(m)' => IsCurrent(m) /\ log_plms'[Gid(m)] = log_plms[Gid(m)],
         UNCHANGED <<tablet_bundle[m], tablet_bundles[m]>>
  PROVE  RMStep(m)
<1>1. Stored(m)' <=> Stored(m)
  BY DEF Stored
<1> QED
  BY <1>1, RMSameStored

(* A node that follows, or has ended. *)
LEMMA RMGone ==
  ASSUME NEW m \in RMNodes, rm'[m] = "None", status'[m] # "leader"
  PROVE  RMStep(m)
<1>1. ~Active(m)'
  BY DEF Active
<1> QED
  BY <1>1 DEF RMStep, Tentative

(* A leader of the TM that goes on as before. *)
LEMMA TMSame ==
  ASSUME IndInv, NEW t \in TMNodes,
         tm'[t] = tm[t], Active(t)' <=> Active(t),
         UNCHANGED <<log_plms[TM], tablet_bundle[t], tablet_bundles[t]>>,
         Decision # Nothing /\ Undecided(t) =>
           \A g \in Groups, k \in Gens : Within(t, g, k) => Within(t, g, k)'
  PROVE  TMStep(t)
<1>1. /\ tm'[t] = tm[t] /\ log_plms'[TM] = log_plms[TM] /\ (Stored(t)' <=> Stored(t))
      /\ (Undecided(t)' <=> Undecided(t)) /\ (Decided(t)' <=> Decided(t)) /\ (Asked' <=> Asked)
  BY DEF Stored, Undecided, Decided, Asked
<1>2. TMStateInv
  BY DEF IndInv, ProtocolInv
<1>3. ASSUME NEW r \in RMs
      PROVE  /\ tm'[t].st = "Preparing" /\ r \notin tm'[t].rms_remaining => PreparedFrom(r, leader_map[t][r])
             /\ tm'[t].st \in {"InsertingTMCommitted", "Committed"} => PreparedFrom(r, leader_map[t][r])
             /\ tm'[t].st \in {"Committed", "Aborted"} /\ r \notin tm'[t].rms_remaining => Mute(t, r)
             /\ tm'[t].st = "InsertingTMClosed" => Mute(t, r)
             /\ Active(t)' /\ tm'[t] = NoTM /\ Asked' => Mute(t, r)
  BY <1>1, <1>2 DEF TMStateInv
<1> QED
  BY <1>1, <1>3 DEF TMStep

(* A node of the TM that follows, or has ended. *)
LEMMA TMGone ==
  ASSUME NEW t \in TMNodes, tm'[t] = NoTM, status'[t] # "leader"
  PROVE  TMStep(t)
<1>1. ~Active(t)' /\ tm'[t].st = "None"
  BY DEF Active, NoTM, TMState
<1> QED
  BY <1>1 DEF TMStep, Undecided, Decided

(* What a leader of the TM holds agrees with the log if neither changes. *)
LEMMA TMLogSame ==
  ASSUME NEW t \in TMNodes, TMLog(t),
         tm'[t] = tm[t], Active(t)' <=> Active(t), Active(t)' /\ IsCurrent(t)' => IsCurrent(t),
         UNCHANGED <<log_plms[TM], tablet_bundle[t], tablet_bundles[t]>>
  PROVE  TMLog(t)'
<1>1. /\ tm'[t] = tm[t] /\ log_plms'[TM] = log_plms[TM] /\ (Stored(t)' <=> Stored(t))
      /\ (Undecided(t)' <=> Undecided(t)) /\ (Decided(t)' <=> Decided(t)) /\ (Asked' <=> Asked)
      /\ Decision' = Decision /\ (IsClosed' <=> IsClosed)
  BY DEF Stored, Undecided, Decided, Asked, Decision, IsClosed
<1>2. CASE ~Active(t)
  BY <1>1, <1>2 DEF TMLog
<1>3. CASE Active(t)
  <2>1. TMAgrees(t)'
    BY <1>1, <1>3 DEF TMLog, TMAgrees
  <2>2. IsCurrent(t)' => TMCurrent(t)'
    BY <1>1, <1>3 DEF TMLog, TMCurrent
  <2> QED
    BY <1>3, <2>1, <2>2 DEF TMLog
<1> QED
  BY <1>2, <1>3

(* No PLm enters a log. *)
LEMMA LogSame ==
  ASSUME IndInv, UNCHANGED log_plms,
         \A g \in Groups : log_gen[g] =< log_gen'[g],
         \A g, h \in Groups : log_leader_map[g][h] =< log_leader_map'[g][h]
  PROVE  LogStep
<1>1. Decision' = Decision /\ (Asked' <=> Asked) /\ (IsClosed' <=> IsClosed)
  BY DEF Decision, Asked, IsClosed
<1>2. TMStateInv
  BY DEF IndInv, ProtocolInv
<1>3. \A r \in RMs :
        /\ Decision' = "Committed" => PreparedFrom(r, log_leader_map[TM][r])
        /\ IsClosed' => \E k \in Gens : k =< log_leader_map[TM][r] /\ Over(r, k)
  BY <1>1, <1>2 DEF TMStateInv
<1> QED
  BY <1>1, <1>3 DEF LogStep

(* No message is sent. *)
LEMMA MessageNone ==
  ASSUME NoneAdded, NEW t \in TMNodes, NEW m \in RMNodes
  PROVE  MessageStep(t, m)
<1>1. <<t, m>> \in Linked /\ <<m, t>> \in Linked
  BY LinkedKinds
<1>2. \A p : ~New(t, m, p) /\ ~New(m, t, p)
  <2>1. \A p : From(<<t, m>>[1], <<t, m>>[2], p)' => From(<<t, m>>[1], <<t, m>>[2], p)
    BY <1>1 DEF NoneAdded
  <2>2. \A p : From(<<m, t>>[1], <<m, t>>[2], p)' => From(<<m, t>>[1], <<m, t>>[2], p)
    BY <1>1 DEF NoneAdded
  <2>3. <<t, m>>[1] = t /\ <<t, m>>[2] = m /\ <<m, t>>[1] = m /\ <<m, t>>[2] = t
    OBVIOUS
  <2>4. \A p : From(t, m, p)' => From(t, m, p)
    BY <2>1, <2>3
  <2>5. \A p : From(m, t, p)' => From(m, t, p)
    BY <2>2, <2>3
  <2> QED
    BY <2>4, <2>5 DEF New
<1> QED
  BY <1>2 DEF MessageStep

(* A node goes on waiting for the same PLm. *)
LEMMA PipelineSame ==
  ASSUME NEW n, Pipeline(n), Waits(n)' = Waits(n),
         UNCHANGED <<tablet_bundle[n], tablet_bundles[n]>>,
         next_insert'[n].plms = next_insert[n].plms,
         NoPLm(inbox[n]) => NoPLm(inbox'[n]),
         \A x : OnePLm(inbox[n], x) => OnePLm(inbox'[n], x)
  PROVE  Pipeline(n)'
<1>1. Waits(n)' = Waits(n) /\ (Stored(n)' <=> Stored(n))
  BY DEF Stored
<1>2. CASE Waits(n) = Nothing
  <2>1. NothingPending(n)'
    BY <1>1, <1>2 DEF Pipeline, NothingPending
  <2> QED
    BY <1>1, <1>2, <2>1 DEF Pipeline
<1>3. CASE Waits(n) # Nothing
  <2>1. ASSUME NEW x, Gathered(n, x) PROVE Gathered(n, x)'
    BY <2>1 DEF Gathered
  <2>2. ASSUME NEW x, Persisted(n, x) PROVE Persisted(n, x)'
    BY <1>1, <2>2 DEF Persisted
  <2>3. PICK x : x = Waits(n)
    OBVIOUS
  <2>4. Gathered(n, x)' \/ Persisted(n, x)'
    BY <1>3, <2>1, <2>2, <2>3 DEF Pipeline
  <2> QED
    BY <1>1, <1>3, <2>3, <2>4 DEF Pipeline, Gathered, Persisted
<1> QED
  BY <1>2, <1>3

(* The invariants follow from what a step does. *)
LEMMA Assemble ==
  ASSUME IndInv, NetworkInv', FifoInv', StateTypes', PipelineInv', TMLogInv', ReplyInv', Step
  PROVE  IndInv'
  BY ProtocolNext DEF IndInv, Advance

(* What is sent to a node is of the right kind, if nothing is added. *)
LEMMA TypesSame ==
  ASSUME StateTypes, NoneAdded, UNCHANGED reply,
         tm' \in [TMNodes -> TMStates], rm' \in [RMNodes -> RMStates]
  PROVE  StateTypes'
  BY DEF StateTypes, NoneAdded
-----------------------------------------------------------------------------
(* The steps of the network *)

(* A step of the network that changes no log, LeaderMap or bundle keeps    *)
(* the invariants.                                                         *)
LEMMA NetworkOnly ==
  ASSUME IndInv, NetworkInv', FifoInv', NoneAdded, reply # "none" \/ ReplyInv',
         UNCHANGED <<tm, rm, reply, log_plms, log_gen, log_leader_map, status, leader_map,
                     tablet_bundle, tablet_bundles>>,
         \A n \in Nodes : Active(n)' <=> Active(n),
         WithinKept,
         \A n \in Nodes : Pipeline(n)'
  PROVE  IndInv'
<1>0. /\ tm' = tm /\ rm' = rm /\ reply' = reply /\ log_plms' = log_plms /\ log_gen' = log_gen
      /\ log_leader_map' = log_leader_map /\ status' = status /\ leader_map' = leader_map
      /\ tablet_bundle' = tablet_bundle /\ tablet_bundles' = tablet_bundles
  OBVIOUS
<1>1. (\A t \in TMNodes : t \in Nodes) /\ (\A m \in RMNodes : m \in Nodes) /\ Gens \subseteq Nat
  BY TheirNodes, GensNat
<1>2. \A n \in Nodes : IsCurrent(n)' <=> IsCurrent(n)
  BY <1>0 DEF IsCurrent
<1>3. \A m \in RMNodes : RMStep(m)
  BY <1>0, <1>1, <1>2, RMSame
<1>4. \A t \in TMNodes : TMStep(t)
  <2> SUFFICES ASSUME NEW t \in TMNodes
               PROVE  TMStep(t)
    OBVIOUS
  <2>1. \A g \in Groups, k \in Gens : Within(t, g, k) => Within(t, g, k)'
    BY <1>1 DEF WithinKept
  <2> QED
    BY <1>0, <1>1, <2>1, TMSame
<1>5. \A t \in TMNodes, m \in RMNodes : MessageStep(t, m)
  BY MessageNone
<1>6. LogStep
  <2>1. NetInv(Messages, PLms)
    BY DEF IndInv, NetworkInv
  <2>2. (\A g \in Groups : log_gen[g] \in Nat) /\ \A g, h \in Groups : log_leader_map[g][h] \in Nat
    BY <2>1, TypeFacts
  <2> QED
    BY <1>0, <2>2, LogSame
<1>7. LeaderStep
  <2>1. NetInv(Messages, PLms)
    BY DEF IndInv, NetworkInv
  <2>2. \A n \in Nodes, g \in Groups : leader_map[n][g] \in Nat
    BY <2>1, TypeFacts
  <2>3. \A n \in Nodes : Active(n)' => status[n] = "leader"
    BY <1>0 DEF Active
  <2> QED
    BY <1>0, <1>1, <1>2, <2>2, <2>3 DEF LeaderStep
<1>8. Step
  BY <1>3, <1>4, <1>5, <1>6, <1>7 DEF Step
<1>9. StateTypes'
  BY <1>0, TypesSame DEF IndInv, StateTypes
<1>10. TMLogInv'
  <2>1. \A t \in TMNodes : TMLog(t)'
    BY <1>0, <1>1, <1>2, TMLogSame DEF IndInv, TMLogInv
  <2> QED
    BY <1>0, <2>1 DEF IndInv, TMLogInv
<1>11. ReplyInv'
  <2>1. (Asked' <=> Asked) /\ Decision' = Decision
    BY <1>0 DEF Asked, Decision
  <2> QED
    BY <1>0, <2>1 DEF IndInv, ReplyInv
<1>12. PipelineInv'
  BY DEF PipelineInv
<1> QED
  BY <1>8, <1>9, <1>10, <1>11, <1>12, Assemble

(* Before the query, there is nothing to do. *)
LEMMA Started ==
  ASSUME IndInv, reply = "none"
  PROVE  /\ NetInit /\ \A n \in Nodes : inbox[n] = <<>> /\ next_insert[n] = NoInsert
                                   /\ remote_leader_changes[n] = <<>>
                                   /\ tablet_bundle[n] = <<>> /\ tablet_bundles[n] = <<>>
         /\ \A e \in Linked : chan[e] = <<>>
         /\ \A t \in TMNodes : tm[t] = NoTM
         /\ \A m \in RMNodes : rm[m] = "None"
<1>1. /\ NetInit /\ tm = [n \in TMNodes |-> NoTM] /\ rm = [n \in RMNodes |-> "None"]
  BY DEF IndInv, ReplyInv
<1> QED
  BY <1>1 DEF NetInit

(* Receive: the message is dropped or held back. *)
LEMMA ReceiveStep ==
  ASSUME IndInv, Quiet, NEW e \in Linked, Receive(e[2], e[1]), UNCHANGED esVars
  PROVE  IndInv'
<1>1. NetworkInv /\ FifoInv /\ PipelineInv
  BY DEF IndInv
<1>2. NetworkInv' /\ NoneAdded /\ FifoInv'
  BY <1>1, ReceiveNetwork, ReceiveFrom
<1>3. reply # "none"
  <2>1. e = <<e[1], e[2]>>
    BY LinkedFacts
  <2>2. chan[e] # <<>>
    BY <2>1 DEF Receive
  <2> QED
    BY <2>2, Started
<1>4. UNCHANGED <<log_plms, log_gen, log_leader_map, status, leader_map,
                  tablet_bundle, tablet_bundles, next_insert, inbox>>
  BY DEF Receive, logVars
<1>5. \A n \in Nodes : Active(n)' <=> Active(n)
  BY <1>4 DEF Active
<1>6. WithinKept
  BY <1>4, WithinSame DEF WithinKept
<1>7. UNCHANGED <<tm, rm, reply>>
  BY DEF esVars
<1>8. \A n \in Nodes : Pipeline(n)'
  BY <1>1, <1>4, <1>7 DEF PipelineInv, Pipeline, Waits, NothingPending, Gathered, Persisted, Stored
<1> QED
  BY <1>2, <1>3, <1>4, <1>5, <1>6, <1>7, <1>8, NetworkOnly

(* RemoteLeaderChangedGossip *)
LEMMA GossipStep ==
  ASSUME IndInv, Quiet, reply # "none", NEW e \in Peers,
         RemoteLeaderChangedGossip(e[2], e[1]), UNCHANGED esVars
  PROVE  IndInv'
<1>0. e[1] \in Nodes /\ e[2] \in Nodes
  BY DEF Peers
<1>1. NetworkInv /\ FifoInv /\ PipelineInv
  BY DEF IndInv
<1>4. UNCHANGED <<log_plms, log_gen, log_leader_map, status, leader_map,
                  tablet_bundle, tablet_bundles, next_insert, inbox, network_buffer, chan>>
  BY DEF RemoteLeaderChangedGossip, logVars
<1>2. NetworkInv' /\ NoneAdded /\ FifoInv'
  <2>1. NetworkInv'
    BY <1>0, <1>1, GossipNetwork
  <2> QED
    BY <1>1, <1>4, <2>1, FromSame
<1>5. \A n \in Nodes : Active(n)' <=> Active(n)
  BY <1>4 DEF Active
<1>6. WithinKept
  BY <1>4, WithinSame DEF WithinKept
<1>7. UNCHANGED <<tm, rm, reply>>
  BY DEF esVars
<1>8. \A n \in Nodes : Pipeline(n)'
  BY <1>1, <1>4, <1>7 DEF PipelineInv, Pipeline, Waits, NothingPending, Gathered, Persisted, Stored
<1> QED
  BY <1>2, <1>4, <1>5, <1>6, <1>7, <1>8, NetworkOnly

(* process_bundle *)
LEMMA ProcessStep ==
  ASSUME IndInv, Quiet, NEW n \in Nodes, process_bundle(n), UNCHANGED esVars
  PROVE  IndInv'
<1> DEFINE F == Forwarded(next_insert[n].rlcs, next_insert[n].plms)
<1>1. NetworkInv /\ FifoInv /\ PipelineInv /\ NetInv(Messages, PLms)
  BY DEF IndInv, NetworkInv
<1>2. NetworkInv' /\ WithinKept /\ \A x \in Nodes : inbox'[x] # <<LC>>
  BY <1>1, ProcessNetwork
<1>3. reply # "none" /\ status[n] = "leader"
  BY Started DEF process_bundle
<1>4. UNCHANGED <<log_plms, log_gen, log_leader_map, status, leader_map,
                  tablet_bundle, tablet_bundles, network_buffer, chan>>
  BY DEF process_bundle, logVars
<1>5. \A x \in Nodes : Active(x)' <=> Active(x)
  <2>1. <<>> # <<LC>>
    OBVIOUS
  <2>2. \A x \in Nodes : inbox[x] # <<LC>>
    BY <2>1 DEF Quiet
  <2> QED
    BY <1>2, <1>4, <2>2 DEF Active
<1>6. inbox' = [inbox EXCEPT ![n] = F] /\ next_insert' = [next_insert EXCEPT ![n] = NoInsert]
  BY <1>1, ProcessNet DEF process_bundle
<1>7. UNCHANGED <<tm, rm, reply>>
  BY DEF esVars
<1>8. next_insert[n].rlcs \in Seq(RLCs) /\ next_insert[n].plms \in Seq(PLms)
  BY <1>1, TypeFacts
<1>9. /\ \A item \in Range(F) : item.type # "Payload" /\ item # LC
      /\ next_insert[n].plms = <<>> => NoPLm(F)
      /\ \A x : next_insert[n].plms = <<x>> => OnePLm(F, x)
  BY <1>8, ForwardedFacts
<1> HIDE DEF F
<1>10. /\ inbox'[n] = F /\ next_insert'[n] = NoInsert
       /\ \A x \in Nodes : x # n => inbox'[x] = inbox[x] /\ next_insert'[x] = next_insert[x]
  BY <1>1, <1>6 DEF NetInv, NetType
<1>11. NoneAdded /\ FifoInv'
  <2>1. \A x \in Nodes : \A c \in Range(inbox'[x]) : c.type # "Payload"
    <3>1. \A x \in Nodes : x # n => Range(inbox'[x]) = {}
      BY <1>10 DEF Quiet, Range
    <3> QED
      BY <1>9, <1>10, <3>1
  <2> QED
    BY <1>1, <1>4, <2>1, QuietFrom
<1>12. \A x \in Nodes : x # n => Pipeline(x)'
  <2> SUFFICES ASSUME NEW x \in Nodes, x # n
               PROVE  Pipeline(x)'
    OBVIOUS
  <2>1. Pipeline(x) /\ Waits(x)' = Waits(x)
    BY <1>1, <1>7 DEF PipelineInv, Waits
  <2> QED
    BY <1>4, <1>10, <2>1, PipelineSame
<1>13. Pipeline(n)'
  <2>1. Pipeline(n) /\ Waits(n)' = Waits(n) /\ (Stored(n)' <=> Stored(n))
    BY <1>1, <1>4, <1>7 DEF PipelineInv, Waits, Stored
  <2>2. inbox[n] = <<>> /\ NoInsert.plms = <<>>
    BY DEF Quiet, NoInsert
  <2>3. CASE Waits(n) = Nothing
    BY <1>9, <1>10, <2>1, <2>2, <2>3 DEF Pipeline, NothingPending
  <2>4. CASE Waits(n) # Nothing /\ Gathered(n, Waits(n))
    <3>1. Gathered(n, Waits(n))'
      BY <1>4, <1>9, <1>10, <2>1, <2>2, <2>4 DEF Gathered
    <3> QED
      BY <2>1, <2>4, <3>1 DEF Pipeline, Gathered
  <2>5. CASE Waits(n) # Nothing /\ Persisted(n, Waits(n))
    <3>1. PICK x : x = Waits(n)
      OBVIOUS
    <3>2. ~OnePLm(inbox[n], x)
      BY <2>2 DEF OnePLm
    <3>3. next_insert[n].plms = <<x>> /\ Stored(n)
      BY <2>5, <3>1, <3>2 DEF Persisted
    <3>4. Persisted(n, x)'
      BY <1>9, <1>10, <2>1, <2>2, <3>3 DEF Persisted
    <3> QED
      BY <2>1, <2>5, <3>1, <3>4 DEF Pipeline, Persisted
  <2> QED
    BY <2>1, <2>3, <2>4, <2>5 DEF Pipeline
<1> QED
  BY <1>2, <1>3, <1>4, <1>5, <1>7, <1>11, <1>12, <1>13, NetworkOnly

(* deliver_blocked_messages *)
LEMMA DeliverStep ==
  ASSUME IndInv, NEW n \in Nodes, deliver_blocked_messages(n), UNCHANGED esVars
  PROVE  IndInv'
<1>1. NetworkInv /\ FifoInv /\ PipelineInv /\ NetInv(Messages, PLms)
  BY DEF IndInv, NetworkInv
<1>2. NetworkInv' /\ WithinKept /\ \A x \in Nodes : inbox'[x] # <<LC>>
  BY <1>1, DeliverNetwork
<1>3. reply # "none"
  BY Started DEF deliver_blocked_messages
<1>4. /\ UNCHANGED <<log_plms, log_gen, log_leader_map, status, leader_map,
                     tablet_bundle, tablet_bundles, next_insert>>
      /\ inbox[n] # <<>> /\ Head(inbox[n]).type = "Unblock"
  BY DEF deliver_blocked_messages, logVars, bundleVars
<1>5. \A x \in Nodes : Active(x)' <=> Active(x)
  <2>1. <<>> # <<LC>> /\ Head(<<LC>>) = LC /\ LC.type = "LeaderChanged"
    BY DEF LC
  <2>2. inbox[n] # <<LC>>
    BY <1>4, <2>1
  <2>3. \A x \in Nodes : x # n => inbox[x] = <<>>
    BY <1>1, <1>4 DEF NetworkInv, BusyInv
  <2>4. \A x \in Nodes : inbox[x] # <<LC>>
    BY <2>1, <2>2, <2>3
  <2> QED
    BY <1>2, <1>4, <2>4 DEF Active
<1>6. /\ NoPLm(inbox[n]) => NoPLm(inbox'[n])
      /\ \A x : OnePLm(inbox[n], x) => OnePLm(inbox'[n], x)
      /\ \A x \in Nodes : x # n => inbox'[x] = inbox[x]
  BY <1>1, DeliverNet
<1>7. UNCHANGED <<tm, rm, reply>>
  BY DEF esVars
<1>8. \A x \in Nodes : Pipeline(x)'
  <2> SUFFICES ASSUME NEW x \in Nodes
               PROVE  Pipeline(x)'
    OBVIOUS
  <2>1. Pipeline(x) /\ Waits(x)' = Waits(x)
    BY <1>1, <1>7 DEF PipelineInv, Waits
  <2>2. (NoPLm(inbox[x]) => NoPLm(inbox'[x])) /\ \A y : OnePLm(inbox[x], y) => OnePLm(inbox'[x], y)
    BY <1>6
  <2> QED
    BY <1>4, <2>1, <2>2, PipelineSame
<1>9. NoneAdded /\ FifoInv'
  BY <1>1, DeliverFrom
<1> QED
  BY <1>2, <1>3, <1>4, <1>5, <1>7, <1>8, <1>9, NetworkOnly

(* GainLeadership: a node takes over, from what the log says. *)
LEMMA GainStep ==
  ASSUME IndInv, Quiet, reply # "none", NEW g \in Groups, GainLeadership(g), UNCHANGED esVars
  PROVE  IndInv'
<1>1. NetworkInv /\ FifoInv /\ PipelineInv /\ NetInv(Messages, PLms)
  BY DEF IndInv, NetworkInv
<1>2. /\ NetworkInv'
      /\ \A h, j \in Groups : log_leader_map[h][j] =< log_leader_map'[h][j]
      /\ \A h \in Groups : log_gen[h] =< log_gen'[h]
  BY <1>1, GainNetwork
<1>3. PICK k \in Nat : k = log_gen[g] + 1
  BY <1>1, TypeFacts
<1>4. PICK n \in Nodes : n = <<g, k>> /\ status[n] # "leader"
  BY <1>1, <1>3, GainNet
<1>5. Gid(n) = g /\ Gen(n) = k
  BY <1>4 DEF Gid, Gen
<1>6. /\ log_gen' = [log_gen EXCEPT ![g] = k]
      /\ status' = [status EXCEPT ![n] = "leader"]
      /\ leader_map' = [leader_map EXCEPT ![n] = log_leader_map'[g]]
      /\ inbox' = [inbox EXCEPT ![n] = <<LC>>]
      /\ UNCHANGED <<log_plms, tablet_bundle, tablet_bundles, next_insert, network_buffer, chan>>
  BY <1>3, <1>4 DEF GainLeadership, bundleVars
<1>7. /\ log_gen \in [Groups -> Nat] /\ DOMAIN status = Nodes /\ DOMAIN leader_map = Nodes
      /\ DOMAIN inbox = Nodes
  BY <1>1, TypeFacts
<1>8. /\ log_gen'[g] = k /\ \A h \in Groups : h # g => log_gen'[h] = log_gen[h]
      /\ inbox'[n] = <<LC>> /\ leader_map'[n] = log_leader_map'[g]
      /\ \A x \in Nodes : x # n => /\ status'[x] = status[x] /\ leader_map'[x] = leader_map[x]
                                   /\ inbox'[x] = inbox[x]
  BY <1>6, <1>7
<1>9. \A x \in Nodes : Active(x)' <=> Active(x)
  BY <1>4, <1>8 DEF Active
<1>10. ASSUME NEW x \in Nodes, Active(x)', IsCurrent(x)'
       PROVE  IsCurrent(x)
  <2>1. x # n
    BY <1>8, <1>10 DEF Active
  <2>2. Gid(x) # g
    <3> SUFFICES ASSUME Gid(x) = g PROVE FALSE
      OBVIOUS
    <3>1. Gen(x) = k
      BY <1>8, <1>10 DEF IsCurrent
    <3> QED
      BY <1>5, <2>1, <3>1, TheirNodes
  <2> QED
    BY <1>8, <1>10, <2>1, <2>2, NodeFacts DEF IsCurrent
<1>11. UNCHANGED <<tm, rm, reply>>
  BY DEF esVars
<1>12. (\A t \in TMNodes : t \in Nodes /\ Gid(t) = TM) /\ (\A m \in RMNodes : m \in Nodes)
  BY TheirNodes
<1>13. NoneAdded /\ FifoInv'
  <2>1. \A x \in Nodes : \A c \in Range(inbox'[x]) : c.type # "Payload"
    <3>1. \A x \in Nodes : x # n => Range(inbox'[x]) = {}
      BY <1>8 DEF Quiet, Range
    <3>2. \A c \in Range(inbox'[n]) : c.type # "Payload"
      BY <1>8 DEF Range, LC
    <3> QED
      BY <3>1, <3>2
  <2> QED
    BY <1>1, <1>6, <2>1, QuietFrom
<1>14. \A x \in Nodes : Pipeline(x)'
  <2> SUFFICES ASSUME NEW x \in Nodes
               PROVE  Pipeline(x)'
    OBVIOUS
  <2>1. Pipeline(x) /\ Waits(x)' = Waits(x) /\ inbox[x] = <<>>
    BY <1>1, <1>11 DEF PipelineInv, Waits, Quiet
  <2>2. NoPLm(inbox'[x]) /\ \A y : ~OnePLm(inbox[x], y)
    <3>1. NoPLm(<<>>) /\ NoPLm(<<LC>>) /\ \A y : ~OnePLm(<<>>, y)
      BY DEF NoPLm, OnePLm, LC
    <3> QED
      BY <1>8, <2>1, <3>1
  <2> QED
    BY <1>6, <2>1, <2>2, PipelineSame
<1>15. \A m \in RMNodes : RMStep(m)
  BY <1>6, <1>9, <1>10, <1>11, <1>12, RMSame
<1>16. \A t \in TMNodes : TMStep(t)
  <2> SUFFICES ASSUME NEW t \in TMNodes
               PROVE  TMStep(t)
    OBVIOUS
  <2>1. ASSUME Undecided(t), NEW h \in Groups, NEW j \in Gens, Within(t, h, j)
        PROVE  Within(t, h, j)'
    <3>1. tm[t].st # "None"
      BY <2>1 DEF Undecided
    <3>2. Active(t)
      BY <3>1, TMLeads DEF IndInv
    <3>3. t # n
      BY <1>4, <3>2 DEF Active
    <3> QED
      BY <1>6, <1>8, <1>12, <2>1, <3>3, WithinSame
  <2> QED
    BY <1>6, <1>9, <1>11, <1>12, <2>1, TMSame
<1>17. \A t \in TMNodes, m \in RMNodes : MessageStep(t, m)
  BY <1>13, MessageNone
<1>18. LogStep
  BY <1>2, <1>6, LogSame
<1>19. LeaderStep
  <2>1. \A x \in Nodes, h \in Groups : leader_map[x][h] \in Nat
    BY <1>1, TypeFacts
  <2>2. k > log_gen[g]
    BY <1>3, <1>7
  <2>3. \A x \in Nodes :
          /\ status'[x] = "leader" => status[x] = "leader" \/ Gen(x) > log_gen[Gid(x)]
          /\ Active(x)' => status[x] = "leader"
    BY <1>5, <1>8, <1>9, <2>2 DEF Active
  <2>4. \A x \in Nodes : status[x] = "leader" /\ status'[x] = "leader" =>
            /\ \A h \in Groups : leader_map[x][h] =< leader_map'[x][h]
            /\ Active(x) => Active(x)'
    BY <1>4, <1>8, <1>9, <2>1
  <2>5. ASSUME NEW t \in TMNodes, IsCurrent(t)'
        PROVE  IsCurrent(t) \/ leader_map'[t] = log_leader_map'[TM]
    <3>1. CASE t = n
      BY <1>5, <1>8, <1>12, <3>1
    <3>2. CASE t # n
      <4>1. Gid(t) # g
        <5> SUFFICES ASSUME Gid(t) = g PROVE FALSE
          OBVIOUS
        <5>1. Gen(t) = k
          BY <1>8, <2>5 DEF IsCurrent
        <5> QED
          BY <1>5, <1>12, <3>2, <5>1, TheirNodes
      <4> QED
        BY <1>8, <1>12, <2>5, <3>2, <4>1, NodeFacts DEF IsCurrent
    <3> QED
      BY <3>1, <3>2
  <2> QED
    BY <2>3, <2>4, <2>5 DEF LeaderStep
<1>20. Step
  BY <1>15, <1>16, <1>17, <1>18, <1>19 DEF Step
<1>21. StateTypes'
  BY <1>11, <1>13, TypesSame DEF IndInv, StateTypes
<1>22. TMLogInv'
  <2>1. \A t \in TMNodes : TMLog(t)'
    BY <1>6, <1>9, <1>10, <1>11, <1>12, TMLogSame DEF IndInv, TMLogInv
  <2> QED
    BY <1>6, <2>1 DEF IndInv, TMLogInv
<1>23. ReplyInv'
  <2>1. (Asked' <=> Asked) /\ Decision' = Decision
    BY <1>6 DEF Asked, Decision
  <2> QED
    BY <1>11, <2>1 DEF IndInv, ReplyInv
<1>24. PipelineInv'
  BY <1>14 DEF PipelineInv
<1> QED
  BY <1>2, <1>13, <1>20, <1>21, <1>22, <1>23, <1>24, Assemble

(* A node that ends, or follows, leaves nothing behind. *)
LEMMA DropStep ==
  ASSUME IndInv, NetworkInv', NEW n \in Nodes, Drops(n), status[n] = "leader", reply # "none",
         UNCHANGED reply,
         tablet_bundle'[n] = <<>>, tablet_bundles'[n] = <<>>,
         \A x \in Nodes : x # n => UNCHANGED <<tablet_bundle[x], tablet_bundles[x]>>,
         tm' \in [TMNodes -> TMStates], rm' \in [RMNodes -> RMStates],
         \A t \in TMNodes : tm'[t] = IF t = n THEN NoTM ELSE tm[t],
         \A m \in RMNodes : rm'[m] = IF m = n THEN "None" ELSE rm[m]
  PROVE  IndInv'
<1>1. NetworkInv /\ FifoInv /\ PipelineInv /\ NetInv(Messages, PLms) /\ StateTypes
  BY DEF IndInv, NetworkInv
<1>2. /\ status'[n] # "leader" /\ next_insert'[n] = NoInsert /\ inbox'[n] = <<>>
      /\ \A x \in Nodes : x # n =>
           /\ inbox'[x] = inbox[x] /\ status'[x] = status[x] /\ leader_map'[x] = leader_map[x]
           /\ next_insert'[x] = next_insert[x] /\ network_buffer'[x] = network_buffer[x]
      /\ log_gen' = log_gen /\ log_leader_map' = log_leader_map /\ log_plms' = log_plms
  BY DEF Drops
<1>3. ~Active(n)' /\ \A x \in Nodes : x # n => (Active(x)' <=> Active(x))
  BY <1>2 DEF Active
<1>4. ~IsCurrent(n)' /\ \A x \in Nodes : x # n => (IsCurrent(x)' <=> IsCurrent(x))
  BY <1>2 DEF IsCurrent
<1>5. (\A t \in TMNodes : t \in Nodes /\ Gid(t) = TM) /\ (\A m \in RMNodes : m \in Nodes)
  BY TheirNodes
<1>6. NoneAdded /\ FifoInv'
  BY <1>1, DropFrom
<1>7. \A m \in RMNodes : RMStep(m)
  <2> SUFFICES ASSUME NEW m \in RMNodes PROVE RMStep(m)
    OBVIOUS
  <2>1. CASE m = n
    BY <1>2, <2>1, RMGone
  <2>2. CASE m # n
    BY <1>2, <1>3, <1>4, <1>5, <2>2, RMSame
  <2> QED
    BY <2>1, <2>2
<1>8. \A t \in TMNodes : TMStep(t)
  <2> SUFFICES ASSUME NEW t \in TMNodes PROVE TMStep(t)
    OBVIOUS
  <2>1. CASE t = n
    BY <1>2, <2>1, TMGone
  <2>2. CASE t # n
    <3>1. \A g \in Groups, k \in Gens : Within(t, g, k) => Within(t, g, k)'
      BY <1>2, <1>5, <2>2, WithinSame
    <3> QED
      BY <1>2, <1>3, <1>5, <2>2, <3>1, TMSame
  <2> QED
    BY <2>1, <2>2
<1>9. \A t \in TMNodes, m \in RMNodes : MessageStep(t, m)
  BY <1>6, MessageNone
<1>10. LogStep
  <2>1. (\A g \in Groups : log_gen[g] \in Nat) /\ \A g, h \in Groups : log_leader_map[g][h] \in Nat
    BY <1>1, TypeFacts
  <2> QED
    BY <1>2, <2>1, LogSame
<1>11. LeaderStep
  <2>1. \A x \in Nodes, g \in Groups : leader_map[x][g] \in Nat
    BY <1>1, TypeFacts
  <2>2. \A x \in Nodes : Active(x)' => status[x] = "leader"
    BY <1>3 DEF Active
  <2> QED
    BY <1>2, <1>3, <1>4, <1>5, <2>1, <2>2 DEF LeaderStep
<1>12. Step
  BY <1>7, <1>8, <1>9, <1>10, <1>11 DEF Step
<1>13. StateTypes'
  BY <1>1, <1>6, TypesSame
<1>14. TMLogInv'
  <2>1. ASSUME NEW t \in TMNodes PROVE TMLog(t)'
    <3>1. CASE t = n
      BY <1>3, <3>1 DEF TMLog, NoTM
    <3>2. CASE t # n
      <4>1. TMLog(t)
        BY DEF IndInv, TMLogInv
      <4> QED
        BY <1>2, <1>3, <1>4, <1>5, <3>2, <4>1, TMLogSame
    <3> QED
      BY <3>1, <3>2
  <2> QED
    BY <1>2, <2>1 DEF IndInv, TMLogInv
<1>15. ReplyInv'
  <2>1. (Asked' <=> Asked) /\ Decision' = Decision
    BY <1>2 DEF Asked, Decision
  <2> QED
    BY <2>1 DEF IndInv, ReplyInv
<1>16. PipelineInv'
  <2> SUFFICES ASSUME NEW x \in Nodes PROVE Pipeline(x)'
    BY DEF PipelineInv
  <2>0. x \in TMNodes \/ x \in RMNodes
    BY NodeKinds
  <2>1. CASE x = n
    <3>1. Waits(n)' = Nothing
      <4>1. n \in TMNodes => tm'[n].st = "None"
        BY DEF NoTM, TMState
      <4>2. n \notin TMNodes => rm'[n] = "None"
        BY <2>0, <2>1
      <4> QED
        BY <4>1, <4>2 DEF Waits, TMInserting, RMInserting
    <3>2. NothingPending(n)'
      BY <1>2 DEF NothingPending, Stored, NoInsert, NoPLm
    <3> QED
      BY <2>1, <3>1, <3>2 DEF Pipeline
  <2>2. CASE x # n
    <3>1. Pipeline(x) /\ Waits(x)' = Waits(x)
      BY <1>1, <2>0, <2>2 DEF PipelineInv, Waits
    <3> QED
      BY <1>2, <2>2, <3>1, PipelineSame
  <2> QED
    BY <2>1, <2>2
<1> QED
  BY <1>6, <1>12, <1>13, <1>14, <1>15, <1>16, Assemble

(* The ESs of the node n are gone. *)
LEMMA Forgotten ==
  ASSUME StateTypes, NEW n \in Nodes, Forget(n)
  PROVE  /\ tm' \in [TMNodes -> TMStates] /\ rm' \in [RMNodes -> RMStates]
         /\ \A t \in TMNodes : tm'[t] = IF t = n THEN NoTM ELSE tm[t]
         /\ \A m \in RMNodes : rm'[m] = IF m = n THEN "None" ELSE rm[m]
         /\ reply' = reply
<1>1. tm \in [TMNodes -> TMStates] /\ rm \in [RMNodes -> RMStates]
  BY DEF StateTypes
<1>2. /\ tm' = IF n \in TMNodes THEN [tm EXCEPT ![n] = NoTM] ELSE tm
      /\ rm' = IF n \in RMNodes THEN [rm EXCEPT ![n] = "None"] ELSE rm
      /\ reply' = reply
  BY DEF Forget
<1>3. NoTM \in TMStates /\ "None" \in RMStates
  BY DEF TMStates, RMStates
<1>4. /\ tm' \in [TMNodes -> TMStates]
      /\ \A t \in TMNodes : tm'[t] = IF t = n THEN NoTM ELSE tm[t]
  BY <1>1, <1>2, <1>3
<1>5. /\ rm' \in [RMNodes -> RMStates]
      /\ \A m \in RMNodes : rm'[m] = IF m = n THEN "None" ELSE rm[m]
  BY <1>1, <1>2, <1>3
<1> QED
  BY <1>2, <1>4, <1>5

(* BecomeFollower *)
LEMMA FollowerStep ==
  ASSUME IndInv, Quiet, reply # "none", NEW n \in Nodes, BecomeFollower(n)
  PROVE  IndInv'
<1>1. NetworkInv /\ StateTypes /\ NetInv(Messages, PLms) /\ LoseLeadership(n) /\ Forget(n)
  BY DEF IndInv, NetworkInv, BecomeFollower
<1>2. NetworkInv' /\ Drops(n)
  BY <1>1, LoseNetwork
<1>3. /\ status[n] = "leader"
      /\ tablet_bundle' = [tablet_bundle EXCEPT ![n] = <<>>]
      /\ tablet_bundles' = [tablet_bundles EXCEPT ![n] = <<>>]
  BY <1>1 DEF LoseLeadership
<1>4. DOMAIN tablet_bundle = Nodes /\ DOMAIN tablet_bundles = Nodes
  BY <1>1, TypeFacts
<1>5. /\ tm' \in [TMNodes -> TMStates] /\ rm' \in [RMNodes -> RMStates]
      /\ \A t \in TMNodes : tm'[t] = IF t = n THEN NoTM ELSE tm[t]
      /\ \A m \in RMNodes : rm'[m] = IF m = n THEN "None" ELSE rm[m]
      /\ reply' = reply
  BY <1>1, Forgotten
<1>6. /\ tablet_bundle'[n] = <<>> /\ tablet_bundles'[n] = <<>>
      /\ \A x \in Nodes : x # n => UNCHANGED <<tablet_bundle[x], tablet_bundles[x]>>
  BY <1>3, <1>4
<1> QED
  BY <1>2, <1>3, <1>5, <1>6, DropStep

(* An input is there only after the start. *)
LEMMA InputStarted ==
  ASSUME IndInv, NEW n \in Nodes, NEW in \in Inputs(n)
  PROVE  reply # "none"
  BY InputSource, Started DEF IsForwarded, IsDelivered

(* Panic *)
LEMMA PanicStep ==
  ASSUME IndInv, NEW n \in Nodes, Panic(n)
  PROVE  IndInv'
<1>1. NetworkInv /\ StateTypes /\ NetInv(Messages, PLms)
  BY DEF IndInv, NetworkInv
<1>2. NetworkInv' /\ Drops(n) /\ status[n] = "leader"
  BY <1>1, PanicNetwork
<1>3. /\ tablet_bundle' = [tablet_bundle EXCEPT ![n] = <<>>]
      /\ tablet_bundles' = [tablet_bundles EXCEPT ![n] = <<>>]
      /\ Forget(n)
  BY DEF Panic
<1>4. DOMAIN tablet_bundle = Nodes /\ DOMAIN tablet_bundles = Nodes
  BY <1>1, TypeFacts
<1>5. reply # "none"
  BY InputStarted DEF Panic
<1>6. /\ tm' \in [TMNodes -> TMStates] /\ rm' \in [RMNodes -> RMStates]
      /\ \A t \in TMNodes : tm'[t] = IF t = n THEN NoTM ELSE tm[t]
      /\ \A m \in RMNodes : rm'[m] = IF m = n THEN "None" ELSE rm[m]
      /\ reply' = reply
  BY <1>1, <1>3, Forgotten
<1>7. /\ tablet_bundle'[n] = <<>> /\ tablet_bundles'[n] = <<>>
      /\ \A x \in Nodes : x # n => UNCHANGED <<tablet_bundle[x], tablet_bundles[x]>>
  BY <1>3, <1>4
<1> QED
  BY <1>2, <1>5, <1>6, <1>7, DropStep
-----------------------------------------------------------------------------
(* The steps of one node *)

(* Only the leader n takes part. *)
Alone(n) ==
  /\ UNCHANGED <<log_gen, status>>
  /\ status[n] = "leader" /\ inbox'[n] # <<LC>>
  /\ \A g \in Groups : leader_map[n][g] =< leader_map'[n][g]
  /\ \A g, h \in Groups : log_leader_map[g][h] =< log_leader_map'[g][h]
  /\ \A x \in Nodes : x # n =>
       /\ leader_map'[x] = leader_map[x] /\ next_insert'[x] = next_insert[x]
       /\ inbox'[x] = inbox[x]
       /\ tablet_bundle'[x] = tablet_bundle[x] /\ tablet_bundles'[x] = tablet_bundles[x]
  /\ \A t \in TMNodes : t # n => tm'[t] = tm[t]
  /\ \A m \in RMNodes : m # n => rm'[m] = rm[m]

(* Nothing changes for the others. *)
LEMMA AloneOthers ==
  ASSUME IndInv, NEW n \in Nodes, Alone(n)
  PROVE  /\ Active(n)' /\ (IsCurrent(n)' <=> IsCurrent(n))
         /\ \A x \in Nodes : x # n => (Active(x)' <=> Active(x)) /\ (IsCurrent(x)' <=> IsCurrent(x))
         /\ \A x \in Nodes : x # n => Pipeline(x)'
         /\ LeaderStep
<1>1. \A x \in Nodes : IsCurrent(x)' <=> IsCurrent(x)
  BY DEF Alone, IsCurrent
<1>2. \A x \in Nodes : x # n => (Active(x)' <=> Active(x))
  BY DEF Alone, Active
<1>3. Active(n)' /\ status[n] = "leader"
  BY DEF Alone, Active
<1>4. ASSUME NEW x \in Nodes, x # n PROVE Pipeline(x)'
  <2>1. x \in TMNodes \/ x \in RMNodes
    BY NodeKinds
  <2>2. x \in TMNodes => tm'[x] = tm[x]
    BY <1>4 DEF Alone
  <2>3. x \in RMNodes => rm'[x] = rm[x]
    BY <1>4 DEF Alone
  <2>4. Waits(x)' = Waits(x) /\ Pipeline(x)
    BY <2>1, <2>2, <2>3 DEF Waits, IndInv, PipelineInv
  <2>5. /\ UNCHANGED <<tablet_bundle[x], tablet_bundles[x]>>
        /\ next_insert'[x].plms = next_insert[x].plms
        /\ inbox'[x] = inbox[x]
    BY <1>4 DEF Alone
  <2> QED
    BY <2>4, <2>5, PipelineSame
<1>5. LeaderStep
  <2>1. NetInv(Messages, PLms)
    BY DEF IndInv, NetworkInv
  <2>2. \A x \in Nodes, g \in Groups : leader_map[x][g] \in Nat
    BY <2>1, TypeFacts
  <2>3. \A x \in Nodes, g \in Groups : leader_map[x][g] =< leader_map'[x][g]
    <3> SUFFICES ASSUME NEW x \in Nodes, NEW g \in Groups PROVE leader_map[x][g] =< leader_map'[x][g]
      OBVIOUS
    <3>1. CASE x = n
      BY <3>1 DEF Alone
    <3>2. CASE x # n
      <4>1. leader_map'[x] = leader_map[x]
        BY <3>2 DEF Alone
      <4> QED
        BY <2>2, <4>1
    <3> QED
      BY <3>1, <3>2
  <2>4. \A x \in Nodes : Active(x) => Active(x)'
    BY <1>2, <1>3
  <2>5. status' = status
    BY DEF Alone
  <2>6. \A x \in Nodes : Active(x)' => status[x] = "leader"
    BY <2>5 DEF Active
  <2>7. \A t \in TMNodes : t \in Nodes
    BY TheirNodes
  <2> QED
    BY <1>1, <2>3, <2>4, <2>5, <2>6, <2>7 DEF LeaderStep
<1> QED
  BY <1>1, <1>2, <1>3, <1>4, <1>5

(* The RMs, of which at most the one that n leads gets something into its log. *)
LEMMA AloneRMs ==
  ASSUME IndInv, NEW n \in Nodes, Alone(n),
         NEW m \in RMNodes, m # n,
         log_plms'[Gid(m)] = log_plms[Gid(m)] \/ ~IsCurrent(m)
  PROVE  RMStep(m)
<1>1. m \in Nodes
  BY TheirNodes
<1>2. (Active(m)' <=> Active(m)) /\ (IsCurrent(m)' <=> IsCurrent(m))
  BY <1>1, AloneOthers
<1>3. rm'[m] = rm[m] /\ UNCHANGED <<tablet_bundle[m], tablet_bundles[m]>>
  BY <1>1 DEF Alone
<1> QED
  BY <1>2, <1>3, RMSame

(* The leaders of the TM, if nothing gets into its log. *)
LEMMA AloneTMs ==
  ASSUME IndInv, NEW n \in Nodes, Alone(n),
         NEW t \in TMNodes, t # n, log_plms'[TM] = log_plms[TM]
  PROVE  TMStep(t) /\ TMLog(t)'
<1>1. t \in Nodes
  BY TheirNodes
<1>2. (Active(t)' <=> Active(t)) /\ (IsCurrent(t)' <=> IsCurrent(t))
  BY <1>1, AloneOthers
<1>3. /\ tm'[t] = tm[t]
      /\ UNCHANGED <<tablet_bundle[t], tablet_bundles[t], leader_map[t], next_insert[t], inbox[t]>>
  BY <1>1 DEF Alone
<1>4. \A g \in Groups, k \in Gens : Within(t, g, k) => Within(t, g, k)'
  BY <1>3, WithinSame
<1>5. TMLog(t)
  BY DEF IndInv, TMLogInv
<1>6. TMStep(t)
  BY <1>2, <1>3, <1>4, TMSame
<1>7. TMLog(t)'
  BY <1>2, <1>3, <1>5, TMLogSame
<1> QED
  BY <1>6, <1>7

(* So much is left to show of a step that gets nothing into a log. *)
LEMMA AloneAssemble ==
  ASSUME IndInv, NEW n \in Nodes, Alone(n), UNCHANGED log_plms,
         NetworkInv', FifoInv', StateTypes', ReplyInv', Pipeline(n)',
         n \in RMNodes => RMStep(n),
         n \in TMNodes => TMStep(n) /\ TMLog(n)',
         \A t \in TMNodes, m \in RMNodes : MessageStep(t, m)
  PROVE  IndInv'
<1>1. log_plms' = log_plms
  OBVIOUS
<1>2. LeaderStep /\ \A x \in Nodes : x # n => Pipeline(x)'
  BY AloneOthers
<1>3. \A m \in RMNodes : RMStep(m)
  BY <1>1, AloneRMs
<1>4. \A t \in TMNodes : TMStep(t) /\ TMLog(t)'
  BY <1>1, AloneTMs
<1>5. LogStep
  <2>1. NetInv(Messages, PLms)
    BY DEF IndInv, NetworkInv
  <2>2. \A g \in Groups : log_gen[g] \in Nat
    BY <2>1, TypeFacts
  <2>3. /\ \A g \in Groups : log_gen[g] =< log_gen'[g]
        /\ \A g, h \in Groups : log_leader_map[g][h] =< log_leader_map'[g][h]
    BY <2>2 DEF Alone
  <2> QED
    BY <1>1, <2>3, LogSame
<1>6. Step
  BY <1>2, <1>3, <1>4, <1>5 DEF Step
<1>7. PipelineInv'
  BY <1>2 DEF PipelineInv
<1>8. TMLogInv'
  BY <1>1, <1>4 DEF IndInv, TMLogInv
<1> QED
  BY <1>6, <1>7, <1>8, Assemble

(* Handling an input is a step of one node. *)
LEMMA HandleAlone ==
  ASSUME IndInv, NEW n \in Nodes, NEW in \in Inputs(n), Handles(n, in),
         \A t \in TMNodes : t # n => tm'[t] = tm[t],
         \A m \in RMNodes : m # n => rm'[m] = rm[m]
  PROVE  /\ Alone(n) /\ UNCHANGED log_plms /\ NetworkInv' /\ WithinKept
         /\ UNCHANGED <<log_leader_map, next_insert>>
<1>1. NetworkInv /\ NetInv(Messages, PLms)
  BY DEF IndInv, NetworkInv
<1>2. NetworkInv' /\ WithinKept /\ \A x \in Nodes : inbox'[x] # <<LC>>
  BY <1>1, HandleNetwork
<1>3. HandlesAt(n, in)
  BY DEF Handles
<1>4. /\ \A x \in Nodes : x # n => leader_map'[x] = leader_map[x]
      /\ \A g \in Groups : leader_map[n][g] =< leader_map'[n][g]
  BY <1>1, <1>3, HandledMap
<1>5. status[n] = "leader"
  BY <1>1, InputFacts
<1>6. \A g, h \in Groups : log_leader_map[g][h] \in Nat
  BY <1>1, TypeFacts
<1>7. /\ UNCHANGED <<log_gen, log_leader_map, log_plms, status, next_insert>>
      /\ inbox' = [inbox EXCEPT ![n] = in.rest]
      /\ \A x \in Nodes : x # n => /\ tablet_bundle'[x] = tablet_bundle[x]
                                   /\ tablet_bundles'[x] = tablet_bundles[x]
  BY <1>3 DEF HandlesAt, logVars
<1>8. \A x \in Nodes : x # n => inbox'[x] = inbox[x]
  BY <1>1, <1>7, TypeFacts
<1>9. Alone(n)
  BY <1>2, <1>4, <1>5, <1>6, <1>7, <1>8 DEF Alone
<1> QED
  BY <1>2, <1>7, <1>9

(* What the leader n of an RM does with an input. *)
RMHandled(n, in) ==
  /\ Handles(n, in)
  /\ UNCHANGED <<tm, reply>>
  /\ rm' \in [RMNodes -> RMStates]
  /\ \A m \in RMNodes : m # n => rm'[m] = rm[m]

(* It sends messages only when it may. *)
RMMaySend(n, p) ==
  /\ p \in TMMessage
  /\ Active(n)
  /\ p \in Asks => rm[n] \in Tentative \/ IsAsked(n)
  /\ p = "Prepared" => rm'[n] = "Prepared"
  /\ p = "Closed" => /\ rm'[n] = "None"
                     /\ Settled(Gid(n), Gen(n)) /\ Resolved(Gid(n)) /\ Deaf(n)

(* Then the invariants are kept, if it does what a step of an RM may do. *)
LEMMA RMHandledStep ==
  ASSUME IndInv, NEW n \in RMNodes, NEW in \in Inputs(n), RMHandled(n, in),
         RMStep(n), Pipeline(n)',
         \A e \in Linked : \A p : Sent(n, in, e, p) => RMMaySend(n, p)
  PROVE  IndInv'
<1>0. n \in Nodes /\ n \notin TMNodes /\ Gid(n) \in RMs /\ Gen(n) \in Gens /\ n = <<Gid(n), Gen(n)>>
  BY TheirNodes, NodeKinds, NodeFacts
<1>1. NetworkInv /\ FifoInv /\ StateTypes /\ TMMessageInv
  BY DEF IndInv, ProtocolInv
<1>2. /\ Handles(n, in) /\ tm' = tm /\ reply' = reply /\ rm' \in [RMNodes -> RMStates]
      /\ \A m \in RMNodes : m # n => rm'[m] = rm[m]
  BY DEF RMHandled
<1>3. Alone(n) /\ log_plms' = log_plms /\ NetworkInv'
  BY <1>0, <1>2, HandleAlone
<1>4. Active(n)'
  BY <1>0, <1>3, AloneOthers
<1>5. \A e \in Linked : \A p : From(e[1], e[2], p)' => From(e[1], e[2], p) \/ Sent(n, in, e, p)
  BY <1>0, <1>1, <1>2, HandledFrom
<1>6. FifoInv'
  <2> SUFFICES ASSUME NEW e \in Linked, NEW p \in Asks, NEW q \in Ends,
                      Sent(n, in, e, p), From(e[1], e[2], q)
               PROVE  FALSE
    BY <1>0, <1>1, <1>2, HandledFifo
  <2>1. RMMaySend(n, p) /\ e[1] = n
    BY DEF Sent
  <2>2. e[2] \in TMNodes
    BY <1>0, <2>1, LinkedKinds, NodeKinds
  <2>3. q \in TMMessage
    <3>1. q \in Messages
      BY DEF Ends, Messages, RMMessage, TMMessage
    <3> QED
      BY <1>0, <1>1, <2>1, <3>1 DEF StateTypes
  <2>4. q = "Closed"
    BY <2>3 DEF Ends, TMMessage
  <2>5. Over(Gid(n), Gen(n))
    BY <1>1, <2>1, <2>2, <2>4 DEF TMMessageInv
  <2>6. Finished(n)
    <3>1. status[n] = "leader"
      BY <2>1 DEF RMMaySend, Active
    <3> QED
      BY <1>0, <2>5, <3>1 DEF Over
  <2>7. rm[n] \notin Tentative
    BY <2>6 DEF Finished, Tentative
  <2>8. ~IsAsked(n)
    BY <2>6, DeafUnasked DEF Finished
  <2> QED
    BY <2>1, <2>7, <2>8 DEF RMMaySend
<1>7. ASSUME NEW t \in TMNodes, NEW m \in RMNodes PROVE MessageStep(t, m)
  <2>1. <<t, m>> \in Linked /\ <<m, t>> \in Linked /\ t # n
    BY <1>0, LinkedKinds
  <2>2. <<t, m>>[1] = t /\ <<t, m>>[2] = m /\ <<m, t>>[1] = m /\ <<m, t>>[2] = t
    OBVIOUS
  <2>3. \A p : From(t, m, p)' => From(t, m, p)
    <3>1. \A p : From(t, m, p)' => From(t, m, p) \/ Sent(n, in, <<t, m>>, p)
      BY <1>5, <2>1, <2>2
    <3>2. \A p : ~Sent(n, in, <<t, m>>, p)
      BY <2>1, <2>2 DEF Sent
    <3> QED
      BY <3>1, <3>2
  <2>4. \A p : From(m, t, p)' => From(m, t, p) \/ Sent(n, in, <<m, t>>, p)
    BY <1>5, <2>1, <2>2
  <2>5. \A p : New(m, t, p) => m = n /\ RMMaySend(n, p)
    <3>1. \A p : Sent(n, in, <<m, t>>, p) => m = n /\ RMMaySend(n, p)
      BY <2>1, <2>2 DEF Sent
    <3> QED
      BY <2>4, <3>1 DEF New
  <2>6. \A p : ~New(t, m, p)
    BY <2>3 DEF New
  <2>7. New(m, t, "Prepared") \/ New(m, t, "Aborted") => Active(m) /\ (rm[m] \in Tentative \/ IsAsked(m))
    BY <2>5 DEF RMMaySend, Asks
  <2>8. New(m, t, "Prepared") => Active(m)' /\ rm'[m] = "Prepared"
    BY <1>4, <2>5 DEF RMMaySend
  <2>9. New(m, t, "Closed") =>
          /\ Active(m) /\ Active(m)' /\ rm'[m] = "None"
          /\ Settled(Gid(m), Gen(m)) /\ Resolved(Gid(m)) /\ Deaf(m)
          /\ UNCHANGED log_plms
    BY <1>3, <1>4, <2>5 DEF RMMaySend
  <2> QED
    BY <2>6, <2>7, <2>8, <2>9 DEF MessageStep
<1>8. StateTypes'
  <2>1. ASSUME NEW e \in Linked, NEW p \in Messages, From(e[1], e[2], p)'
        PROVE  p \in (IF e[1] \in TMNodes THEN RMMessage ELSE TMMessage)
    <3>1. CASE From(e[1], e[2], p)
      BY <1>1, <3>1 DEF StateTypes
    <3>2. CASE Sent(n, in, e, p)
      <4>1. p \in TMMessage /\ e[1] = n
        BY <3>2 DEF RMMaySend, Sent
      <4> QED
        BY <1>0, <4>1
    <3> QED
      BY <1>5, <2>1, <3>1, <3>2
  <2> QED
    BY <1>1, <1>2, <2>1 DEF StateTypes
<1>9. ReplyInv'
  <2>1. reply # "none"
    BY <1>0, InputStarted
  <2>2. (Asked' <=> Asked) /\ Decision' = Decision
    BY <1>3 DEF Asked, Decision
  <2> QED
    BY <1>2, <2>1, <2>2 DEF IndInv, ReplyInv
<1> QED
  BY <1>0, <1>3, <1>6, <1>7, <1>8, <1>9, AloneAssemble
-----------------------------------------------------------------------------
(* The inputs of an RM *)

(* LeaderChanged is handled by a leader that has done nothing before. *)
LEMMA LCInput ==
  ASSUME IndInv, NEW n \in Nodes, NEW in \in Inputs(n)
  PROVE  IF in.item.type = "LeaderChanged"
         THEN inbox[n] = <<LC>> /\ ~Active(n) /\ IsCurrent(n)
         ELSE Active(n)
<1>1. NetInv(Messages, PLms)
  BY DEF IndInv, NetworkInv
<1>2. /\ status[n] = "leader" /\ in.item \in Items(Messages, PLms)
      /\ in.item.type # "Payload" => in.item \in Range(inbox[n])
      /\ LC \in Range(inbox[n]) => in.item = LC
  BY <1>1, InputFacts
<1>3. LC.type = "LeaderChanged" /\ LC \in Range(<<LC>>)
  BY DEF LC, Range
<1>4. CASE in.item.type = "LeaderChanged"
  <2>1. in.item = LC
    BY <1>2, <1>4 DEF Items, RLCs, Unblocks, PLmItems, PayloadItems
  <2>2. inbox[n] = <<LC>> /\ log_gen[Gid(n)] = Gen(n)
    BY <1>1, <1>2, <1>4, <2>1 DEF NetInv, FreshInv
  <2> QED
    BY <1>2, <1>4, <2>2 DEF Active, IsCurrent
<1>5. CASE in.item.type # "LeaderChanged"
  <2>1. inbox[n] # <<LC>>
    BY <1>2, <1>3, <1>5
  <2> QED
    BY <1>2, <1>5, <2>1 DEF Active
<1> QED
  BY <1>4, <1>5

(* A PLm is handled by the leader that waits for it. *)
LEMMA PLmInput ==
  ASSUME IndInv, NEW n \in Nodes, NEW in \in Inputs(n)
  PROVE  IF in.item.type = "PLm"
         THEN /\ in.item = PLm(Waits(n)) /\ Waits(n) # Nothing
              /\ Stored(n) /\ next_insert[n].plms = <<>> /\ NoPLm(in.rest)
         ELSE /\ NoPLm(inbox[n]) => NoPLm(in.rest)
              /\ \A x : OnePLm(inbox[n], x) => OnePLm(in.rest, x)
<1>1. NetInv(Messages, PLms) /\ Pipeline(n)
  BY DEF IndInv, NetworkInv, PipelineInv
<1>2. /\ NoPLm(inbox[n]) => NoPLm(in.rest) /\ in.item.type # "PLm"
      /\ \A x : OnePLm(inbox[n], x) =>
           IF in.item.type = "PLm" THEN in.item = PLm(x) /\ NoPLm(in.rest)
           ELSE OnePLm(in.rest, x)
  BY <1>1, InputFacts
<1>3. CASE in.item.type = "PLm"
  <2>1. PICK x : x = Waits(n)
    OBVIOUS
  <2>2. x # Nothing /\ Persisted(n, x)
    BY <1>1, <1>2, <1>3, <2>1 DEF Pipeline, NothingPending, Gathered
  <2>3. Stored(n) /\ next_insert[n].plms = <<>> /\ OnePLm(inbox[n], x)
    BY <1>2, <1>3, <2>2 DEF Persisted
  <2> QED
    BY <1>2, <1>3, <2>1, <2>2, <2>3
<1>4. CASE in.item.type # "PLm"
  BY <1>2, <1>4
<1> QED
  BY <1>3, <1>4

(* What handling an input of the leader of an RM has in common. *)
RMInput(n, in) ==
  /\ inbox' = [inbox EXCEPT ![n] = in.rest]
  /\ leader_map' = IF in.item.type = "RemoteLeaderChanged"
                   THEN [leader_map EXCEPT ![n] = RemoteLeaderChanged(@, in.item)]
                   ELSE leader_map
  /\ UNCHANGED <<logVars, status, remote_leader_changes, tablet_bundles, next_insert,
                 network_buffer, tm, reply>>

(* A queue to which one message is appended has that message appended. *)
LEMMA AppendOne ==
  ASSUME NEW s \in Seq(Messages), NEW p, NEW q \in Messages
  PROVE  /\ Append(s, p) # s
         /\ Append(s, p) = Append(s, q) => p = q
<1>1. Len(Append(s, p)) = Len(s) + 1 /\ Len(s) \in Nat /\ Append(s, p)[Len(s) + 1] = p
  OBVIOUS
<1>2. Append(s, q)[Len(s) + 1] = q
  OBVIOUS
<1> QED
  BY <1>1, <1>2

(* What becomes of the leader n of an RM, and what it sends. *)
LEMMA RMBecomesFacts ==
  ASSUME IndInv, NEW n \in RMNodes, NEW in \in Inputs(n), RMInput(n, in),
         NEW st \in RMStates, NEW message \in TMMessage \cup {Nothing}, NEW plm \in PLms \cup {Nothing},
         RMBecomes(n, in.queues, st, message, plm)
  PROVE  /\ RMHandled(n, in)
         /\ rm'[n] = st
         /\ \A e \in Linked : \A p : Sent(n, in, e, p) => p = message /\ message # Nothing
         /\ tablet_bundle'[n] = IF plm = Nothing THEN tablet_bundle[n] ELSE Append(tablet_bundle[n], plm)
         /\ tablet_bundles'[n] = tablet_bundles[n]
         /\ next_insert'[n] = next_insert[n]
         /\ inbox'[n] = in.rest
         /\ log_plms' = log_plms
         /\ Active(n)' /\ (IsCurrent(n)' <=> IsCurrent(n))
<1>0. n \in Nodes /\ n \notin TMNodes
  BY TheirNodes, NodeKinds
<1>1. NetworkInv /\ NetInv(Messages, PLms) /\ StateTypes
  BY DEF IndInv, NetworkInv
<1>2. in.queues \in [Linked -> Seq(Messages)]
  BY <1>0, <1>1, InputFacts
<1>3. /\ rm \in [RMNodes -> RMStates] /\ tablet_bundle \in [Nodes -> Seq(PLms)]
      /\ tablet_bundles \in [Nodes -> Seq(PLms)] /\ DOMAIN inbox = Nodes
  BY <1>1, TypeFacts DEF StateTypes
<1>4. /\ rm' = [rm EXCEPT ![n] = st]
      /\ chan' = IF message = Nothing THEN in.queues
                 ELSE Outgoing(n, in.queues, [h \in {TM} |-> message])
      /\ tablet_bundle' =
           IF plm = Nothing THEN tablet_bundle ELSE [tablet_bundle EXCEPT ![n] = Append(@, plm)]
  BY DEF RMBecomes
<1>5. rm' \in [RMNodes -> RMStates] /\ rm'[n] = st /\ \A m \in RMNodes : m # n => rm'[m] = rm[m]
  BY <1>3, <1>4
<1>6. /\ tablet_bundle' \in [Nodes -> Seq(PLms)]
      /\ tablet_bundle'[n] = IF plm = Nothing THEN tablet_bundle[n] ELSE Append(tablet_bundle[n], plm)
      /\ \A x \in Nodes : x # n => tablet_bundle'[x] = tablet_bundle[x]
  <2>1. CASE plm = Nothing
    BY <1>3, <1>4, <2>1
  <2>2. CASE plm # Nothing
    <3>1. plm \in PLms
      BY <2>2
    <3>2. Append(tablet_bundle[n], plm) \in Seq(PLms)
      BY <1>0, <1>3, <3>1
    <3>3. tablet_bundle' = [tablet_bundle EXCEPT ![n] = Append(tablet_bundle[n], plm)]
      BY <1>4, <2>2
    <3> QED
      BY <1>0, <1>3, <2>2, <3>2, <3>3
  <2> QED
    BY <2>1, <2>2
<1>7. /\ inbox' = [inbox EXCEPT ![n] = in.rest]
      /\ UNCHANGED <<logVars, status, remote_leader_changes, tablet_bundles, next_insert,
                     network_buffer, tm, reply>>
      /\ \/ leader_map' = leader_map
         \/ /\ in.item.type = "RemoteLeaderChanged"
            /\ leader_map' = [leader_map EXCEPT ![n] = RemoteLeaderChanged(@, in.item)]
  BY DEF RMInput
<1>8. HandlesAt(n, in)
  BY <1>6, <1>7 DEF HandlesAt
<1>9. /\ chan' \in [Linked -> Seq(Messages)]
      /\ \A e \in Linked :
           \/ chan'[e] = in.queues[e]
           \/ /\ e[1] = n
              /\ status[e[2]] = "leader"
              /\ Gen(e[2]) = leader_map'[n][Gid(e[2])]
              /\ message \in Messages /\ chan'[e] = Append(in.queues[e], message)
  <2>1. CASE message = Nothing
    BY <1>2, <1>4, <2>1
  <2>2. CASE message # Nothing
    <3>1. message \in Messages /\ chan' = Outgoing(n, in.queues, [h \in {TM} |-> message])
      BY <1>4, <2>2 DEF Messages
    <3>2. chan' \in [Linked -> Seq(Messages)]
      <4>1. [h \in {TM} |-> message] \in [{TM} -> Messages]
        BY <3>1
      <4> QED
        BY <1>2, <3>1, <4>1, OutgoingFacts
    <3> QED
      BY <3>1, <3>2 DEF Outgoing
  <2> QED
    BY <2>1, <2>2
<1>10. Handles(n, in)
  <2>1. tablet_bundles' \in [Nodes -> Seq(PLms)]
    BY <1>3, <1>7
  <2> QED
    BY <1>6, <1>8, <1>9, <2>1 DEF Handles
<1>11. RMHandled(n, in)
  BY <1>5, <1>7, <1>10 DEF RMHandled
<1>12. ASSUME NEW e \in Linked, NEW p, Sent(n, in, e, p)
       PROVE  p = message /\ message # Nothing
  <2>1. chan'[e] = Append(in.queues[e], p) /\ in.queues[e] \in Seq(Messages)
    BY <1>2, <1>12 DEF Sent
  <2>2. Nothing \notin Messages /\ "Prepared" \in Messages
    BY DEF Nothing, Messages, RMMessage, TMMessage
  <2>3. CASE chan'[e] = in.queues[e]
    BY <2>1, <2>2, <2>3, AppendOne
  <2>4. CASE message \in Messages /\ chan'[e] = Append(in.queues[e], message)
    BY <2>1, <2>2, <2>4, AppendOne
  <2> QED
    BY <1>9, <2>3, <2>4
<1>13. Active(n)' /\ (IsCurrent(n)' <=> IsCurrent(n)) /\ log_plms' = log_plms
  <2>1. Alone(n) /\ log_plms' = log_plms
    BY <1>0, <1>5, <1>7, <1>10, HandleAlone
  <2> QED
    BY <1>0, <2>1, AloneOthers
<1>14. inbox'[n] = in.rest
  BY <1>0, <1>3, <1>7
<1> QED
  BY <1>5, <1>6, <1>7, <1>11, <1>12, <1>13, <1>14

(* An RM with an outcome has the one that was decided. *)
LEMMA OutcomeResolved ==
  ASSUME IndInv, NEW r \in RMs, HasOutcome(r)
  PROVE  Resolved(r)
<1>1. \E k \in Gens : Over(r, k)
  BY DEF IndInv, ProtocolInv, RMLogInv
<1> QED
  BY <1>1 DEF Over

(* What a message says to the leader n of an RM. *)
LEMMA RMMessageFacts ==
  ASSUME IndInv, NEW n \in RMNodes, NEW in \in Inputs(n), in.item.type = "Payload"
  PROVE  LET p == in.item.payload
         IN /\ Active(n)
            /\ p = "Prepare" => Asked /\ IsAsked(n) /\ \E t \in TMNodes : From(t, n, "Prepare")
            /\ p = "Commit" => Decision = "Committed" /\ PreparedFrom(Gid(n), Gen(n))
            /\ p = "Abort" => Decision = "Aborted"
            /\ p \in {"Commit", "Abort"} => Settled(Gid(n), Gen(n)) /\ Deaf(n)
<1>0. n \in Nodes /\ n \notin TMNodes
  BY TheirNodes, NodeKinds
<1>1. NetworkInv /\ FifoInv /\ RMMessageInv
  BY DEF IndInv, ProtocolInv
<1>2. Active(n)
  BY <1>0, LCInput
<1>3. PICK s \in Nodes : s = <<in.item.from, leader_map[n][in.item.from]>>
  BY <1>0, <1>1, InputFrom
<1>4. /\ <<s, n>> \in Linked
      /\ From(s, n, in.item.payload)
      /\ in.item.payload \in Ends => \A q \in Asks : ~From(s, n, q)
  BY <1>0, <1>1, <1>3, InputFrom
<1>5. s \in TMNodes
  <2>1. <<s, n>>[1] = s /\ <<s, n>>[2] = n
    OBVIOUS
  <2> QED
    BY <1>0, <1>4, <2>1, LinkedKinds
<1>6. Gid(s) = in.item.from /\ Gen(s) = leader_map[n][in.item.from]
  BY <1>3 DEF Gid, Gen
<1>7. Gid(s) = TM
  BY <1>5, TheirNodes
<1>8. s = <<TM, leader_map[n][TM]>> /\ Gen(s) = leader_map[n][TM]
  BY <1>3, <1>6, <1>7
<1>9. CASE in.item.payload = "Prepare"
  BY <1>1, <1>2, <1>4, <1>5, <1>8, <1>9 DEF RMMessageInv, IsAsked
<1>10. CASE in.item.payload \in {"Commit", "Abort"}
  <2>1. /\ in.item.payload = "Commit" => Decision = "Committed" /\ PreparedFrom(Gid(n), Gen(n))
        /\ in.item.payload = "Abort" => Decision = "Aborted"
        /\ Settled(Gid(n), Gen(n)) /\ Late(Gen(s))
    BY <1>1, <1>4, <1>5, <1>10 DEF RMMessageInv
  <2>2. ~From(s, n, "Prepare")
    BY <1>4, <1>10 DEF Ends, Asks
  <2>3. Deaf(n)
    BY <1>8, <2>1, <2>2 DEF Deaf
  <2> QED
    BY <1>2, <1>10, <2>1, <2>3
<1> QED
  BY <1>2, <1>9, <1>10

(* Closed may be sent when the RM is done. *)
LEMMA MayClose ==
  ASSUME IndInv, NEW n \in RMNodes, NEW in \in Inputs(n), in.item.type = "Payload",
         \/ in.item.payload = "Commit" /\ rm[n] = "None"
         \/ in.item.payload = "Abort" /\ rm[n] \in {"None", "Working"}
  PROVE  Resolved(Gid(n))
<1>0. Gid(n) \in RMs /\ Gen(n) \in Nat /\ Active(n) /\ Unprepared(n)
  BY TheirNodes, RMMessageFacts DEF Unprepared
<1>1. PreparedFrom(Gid(n), Gen(n)) => HasOutcome(Gid(n))
  BY <1>0 DEF PreparedFrom
<1>2. CASE in.item.payload = "Commit"
  BY <1>0, <1>1, <1>2, RMMessageFacts, OutcomeResolved
<1>3. CASE in.item.payload = "Abort"
  <2>1. Decision = "Aborted" /\ Settled(Gid(n), Gen(n))
    BY <1>3, RMMessageFacts
  <2>2. CASE HasPrepared(Gid(n))
    BY <1>0, <1>1, <2>1, <2>2, OutcomeResolved DEF Settled, Unasked
  <2>3. CASE ~HasPrepared(Gid(n))
    BY <2>1, <2>3 DEF Resolved, HasPrepared
  <2> QED
    BY <2>2, <2>3
<1> QED
  BY <1>2, <1>3

(* Prepare is only heard where it was not heard before. *)
LEMMA AskedAfresh ==
  ASSUME IndInv, NEW n \in RMNodes, IsAsked(n), Active(n), IsCurrent(n), rm[n] = "None"
  PROVE  log_plms[Gid(n)] = <<>>
<1>0. /\ Gid(n) \in RMs /\ Gen(n) \in Nat /\ n = <<Gid(n), Gen(n)>> /\ n \in Nodes
      /\ leader_map[n][TM] \in Gens
  <2>1. NetInv(Messages, PLms)
    BY DEF IndInv, NetworkInv
  <2> QED
    BY <2>1, TheirNodes, NodeFacts DEF NetInv, NetType
<1>1. RMLogInv /\ RMStateInv
  BY DEF IndInv, ProtocolInv
<1>2. log_plms[Gid(n)] # <<"Prepared">>
  BY <1>1 DEF RMStateInv, RMCurrent
<1>3. ~HasOutcome(Gid(n))
  <2> SUFFICES ASSUME HasOutcome(Gid(n)) PROVE FALSE
    OBVIOUS
  <2>1. PICK k \in Gens : Over(Gid(n), k)
    BY <1>0, <1>1 DEF RMLogInv
  <2>2. k \in Nat /\ k =< Gen(n)
    BY <2>1, GensNat DEF Over, IsCurrent
  <2>3. CASE k = Gen(n)
    <3>1. Finished(n)
      BY <1>0, <2>1, <2>3 DEF Over, Active
    <3> QED
      BY <3>1, DeafUnasked DEF Finished
  <2>4. CASE k < Gen(n)
    <3>1. <<TM, leader_map[n][TM]>> \in TMNodes
      BY <1>0, TheirNodes
    <3>2. ~From(<<TM, leader_map[n][TM]>>, n, "Prepare")
      BY <1>0, <2>1, <2>4, <3>1 DEF Over, Settled, Unasked
    <3> QED
      BY <3>2 DEF IsAsked
  <2> QED
    BY <1>0, <2>2, <2>3, <2>4
<1> QED
  BY <1>0, <1>1, <1>2, <1>3 DEF RMLogInv, HasOutcome

(* The leader of an RM stays in its state. *)
LEMMA RMStays ==
  ASSUME IndInv, NEW n \in RMNodes, NEW in \in Inputs(n), RMInput(n, in),
         in.item.type \notin {"PLm", "LeaderChanged"},
         NEW message \in TMMessage \cup {Nothing},
         RMBecomes(n, in.queues, rm[n], message, Nothing),
         message \in Asks => IsAsked(n),
         message = "Prepared" => rm[n] = "Prepared",
         message = "Closed" => /\ rm[n] = "None"
                               /\ Settled(Gid(n), Gen(n)) /\ Resolved(Gid(n)) /\ Deaf(n)
  PROVE  IndInv'
<1>0. n \in Nodes /\ n \notin TMNodes
  BY TheirNodes, NodeKinds
<1>1. Active(n)
  BY <1>0, LCInput
<1>2. Pipeline(n)
  BY <1>0 DEF IndInv, PipelineInv
<1> PICK st \in RMStates : st = rm[n]
  BY DEF IndInv, StateTypes
<1> PICK plm \in PLms \cup {Nothing} : plm = Nothing
  OBVIOUS
<1>3. /\ RMHandled(n, in)
      /\ rm'[n] = rm[n]
      /\ \A e \in Linked : \A p : Sent(n, in, e, p) => p = message /\ message # Nothing
      /\ tablet_bundle'[n] = tablet_bundle[n] /\ tablet_bundles'[n] = tablet_bundles[n]
      /\ next_insert'[n] = next_insert[n] /\ inbox'[n] = in.rest /\ log_plms' = log_plms
      /\ Active(n)' /\ (IsCurrent(n)' <=> IsCurrent(n))
  <2>1. RMBecomes(n, in.queues, st, message, plm)
    OBVIOUS
  <2>2. /\ RMHandled(n, in)
        /\ rm'[n] = st
        /\ \A e \in Linked : \A p : Sent(n, in, e, p) => p = message /\ message # Nothing
        /\ tablet_bundle'[n] = IF plm = Nothing THEN tablet_bundle[n] ELSE Append(tablet_bundle[n], plm)
        /\ tablet_bundles'[n] = tablet_bundles[n]
        /\ next_insert'[n] = next_insert[n] /\ inbox'[n] = in.rest /\ log_plms' = log_plms
        /\ Active(n)' /\ (IsCurrent(n)' <=> IsCurrent(n))
    BY <2>1, RMBecomesFacts
  <2> QED
    BY <2>2
<1>4. RMStep(n)
  BY <1>1, <1>3, RMSame
<1>5. Pipeline(n)'
  <2>1. Waits(n)' = Waits(n)
    BY <1>0, <1>3 DEF Waits
  <2>2. /\ NoPLm(inbox[n]) => NoPLm(inbox'[n])
        /\ \A x : OnePLm(inbox[n], x) => OnePLm(inbox'[n], x)
    BY <1>0, <1>3, PLmInput
  <2> QED
    BY <1>2, <1>3, <2>1, <2>2, PipelineSame
<1>6. message # Nothing => RMMaySend(n, message)
  BY <1>1, <1>3 DEF RMMaySend
<1> QED
  BY <1>3, <1>4, <1>5, <1>6, RMHandledStep

(* And it changes its state. *)
LEMMA RMMoves ==
  ASSUME IndInv, NEW n \in RMNodes, NEW in \in Inputs(n), RMInput(n, in),
         NEW st \in RMStates, NEW message \in TMMessage \cup {Nothing}, NEW plm \in PLms \cup {Nothing},
         RMBecomes(n, in.queues, st, message, plm),
         RMStep(n),
         message # Nothing => RMMaySend(n, message),
         \* What it waits for next.
         \/ /\ in.item.type # "PLm" /\ RMInserting(st) = RMInserting(rm[n]) /\ plm = Nothing
         \/ /\ in.item.type = "PLm" \/ RMInserting(rm[n]) = Nothing
            /\ plm = RMInserting(st)
  PROVE  IndInv'
<1>0. n \in Nodes /\ n \notin TMNodes
  BY TheirNodes, NodeKinds
<1>1. Pipeline(n) /\ NetInv(Messages, PLms)
  BY <1>0 DEF IndInv, PipelineInv, NetworkInv
<1>2. /\ RMHandled(n, in)
      /\ rm'[n] = st
      /\ \A e \in Linked : \A p : Sent(n, in, e, p) => p = message /\ message # Nothing
      /\ tablet_bundle'[n] = IF plm = Nothing THEN tablet_bundle[n] ELSE Append(tablet_bundle[n], plm)
      /\ tablet_bundles'[n] = tablet_bundles[n]
      /\ next_insert'[n] = next_insert[n] /\ inbox'[n] = in.rest
  BY RMBecomesFacts
<1>3. Waits(n)' = RMInserting(st) /\ Waits(n) = RMInserting(rm[n])
  BY <1>0, <1>2 DEF Waits
<1>4. Pipeline(n)'
  <2>1. CASE in.item.type # "PLm" /\ RMInserting(st) = RMInserting(rm[n]) /\ plm = Nothing
    <3>1. /\ NoPLm(inbox[n]) => NoPLm(inbox'[n])
          /\ \A x : OnePLm(inbox[n], x) => OnePLm(inbox'[n], x)
      BY <1>0, <1>2, <2>1, PLmInput
    <3> QED
      BY <1>1, <1>2, <1>3, <2>1, <3>1, PipelineSame
  <2>2. CASE (in.item.type = "PLm" \/ RMInserting(rm[n]) = Nothing) /\ plm = RMInserting(st)
    <3>1. Stored(n) /\ next_insert[n].plms = <<>> /\ NoPLm(in.rest)
      <4>1. CASE in.item.type = "PLm"
        BY <1>0, <4>1, PLmInput
      <4>2. CASE in.item.type # "PLm" /\ RMInserting(rm[n]) = Nothing
        <5>1. NothingPending(n)
          BY <1>1, <1>3, <4>2 DEF Pipeline
        <5> QED
          BY <1>0, <4>2, <5>1, PLmInput DEF NothingPending
      <4> QED
        BY <2>2, <4>1, <4>2
    <3>2. tablet_bundle[n] = <<>> /\ tablet_bundles[n] = <<>>
      BY <3>1 DEF Stored
    <3>3. CASE plm = Nothing
      <4>1. NothingPending(n)'
        BY <1>2, <3>1, <3>2, <3>3 DEF NothingPending, Stored
      <4> QED
        BY <1>3, <2>2, <3>3, <4>1 DEF Pipeline
    <3>4. CASE plm # Nothing
      <4>1. tablet_bundle'[n] = <<plm>>
        <5>1. tablet_bundle'[n] = Append(<<>>, plm)
          BY <1>2, <3>2, <3>4
        <5> QED
          BY <5>1
      <4>2. Gathered(n, plm)'
        BY <1>0, <1>2, <3>1, <3>2, <4>1 DEF Gathered
      <4> QED
        BY <1>3, <2>2, <3>4, <4>2 DEF Pipeline, Gathered
    <3> QED
      BY <3>3, <3>4
  <2> QED
    BY <2>1, <2>2
<1> QED
  BY <1>2, <1>4, RMHandledStep

(* What a step of an RM may do, for a leader that moves to the state st. *)
LEMMA RMMovesTo ==
  ASSUME IndInv, NEW n \in RMNodes, NEW in \in Inputs(n), RMInput(n, in),
         NEW st \in RMStates, NEW message \in TMMessage \cup {Nothing}, NEW plm \in PLms \cup {Nothing},
         RMBecomes(n, in.queues, st, message, plm)
  PROVE  /\ rm'[n] = st /\ Active(n)' /\ (IsCurrent(n)' <=> IsCurrent(n)) /\ log_plms' = log_plms
         /\ plm = Nothing => (Stored(n)' <=> Stored(n))
         /\ plm # Nothing => ~Stored(n)'
         /\ Active(n) => RMStateInv
<1>1. /\ rm'[n] = st
      /\ tablet_bundle'[n] = IF plm = Nothing THEN tablet_bundle[n] ELSE Append(tablet_bundle[n], plm)
      /\ tablet_bundles'[n] = tablet_bundles[n]
      /\ log_plms' = log_plms
      /\ Active(n)' /\ (IsCurrent(n)' <=> IsCurrent(n))
  BY RMBecomesFacts
<1>2. plm = Nothing => (Stored(n)' <=> Stored(n))
  BY <1>1 DEF Stored
<1>3. plm # Nothing => ~Stored(n)'
  <2>1. ASSUME plm # Nothing PROVE tablet_bundle'[n] # <<>>
    <3>1. NetInv(Messages, PLms) /\ n \in Nodes /\ plm \in PLms
      BY <2>1, TheirNodes DEF IndInv, NetworkInv
    <3>2. tablet_bundle[n] \in Seq(PLms)
      BY <3>1, TypeFacts
    <3> QED
      BY <1>1, <2>1, <3>1, <3>2, RangeAppend
  <2> QED
    BY <2>1 DEF Stored
<1> QED
  BY <1>1, <1>2, <1>3 DEF IndInv, ProtocolInv

(* leader_changed *)
LEMMA RMLeaderChanged ==
  ASSUME IndInv, NEW n \in RMNodes, NEW in \in Inputs(n), RMInput(n, in),
         in.item.type = "LeaderChanged", rm_leader_changed(n, in.queues)
  PROVE  IndInv'
<1>0. n \in Nodes /\ Gid(n) \in RMs
  BY TheirNodes
<1>1. ~Active(n) /\ IsCurrent(n)
  BY <1>0, LCInput
<1>2. rm[n] = "None" /\ RMLogInv
  BY <1>1 DEF IndInv, ProtocolInv, RMStateInv
<1> DEFINE L == log_plms[Gid(n)]
<1> PICK st : st = IF RMReplay(L) = "Follower" THEN "Prepared" ELSE "None"
  OBVIOUS
<1>3. /\ st = "Prepared" => L = <<"Prepared">>
      /\ st # "Prepared" => L # <<"Prepared">>
      /\ st \in {"Prepared", "None"}
  <2>1. /\ <<"Prepared">> # <<>> /\ Last(<<"Prepared">>) = "Prepared"
        /\ Last(<<"Prepared", "Committed">>) = "Committed" /\ Last(<<"Prepared", "Aborted">>) = "Aborted"
    BY DEF Last
  <2>2. L \in {<<>>, <<"Prepared">>, <<"Prepared", "Committed">>, <<"Prepared", "Aborted">>}
    BY <1>0, <1>2 DEF RMLogInv
  <2> QED
    BY <2>1, <2>2 DEF RMReplay
<1> PICK none \in TMMessage \cup {Nothing} : none = Nothing
  OBVIOUS
<1> PICK plm \in PLms \cup {Nothing} : plm = Nothing
  OBVIOUS
<1>4. st \in RMStates /\ RMBecomes(n, in.queues, st, none, plm)
  BY <1>3 DEF rm_leader_changed, RMStates
<1>5. /\ rm'[n] = st /\ Active(n)' /\ IsCurrent(n)' /\ log_plms' = log_plms
  BY <1>1, <1>4, RMMovesTo
<1> HIDE DEF L
<1>6. L \in {<<>>, <<"Prepared">>, <<"Prepared", "Committed">>, <<"Prepared", "Aborted">>}
  BY <1>0, <1>2 DEF RMLogInv, L
<1>7. L = log_plms[Gid(n)]
  BY DEF L
<1>8. RMStep(n)
  <2>1. CASE st = "Prepared"
    <3>1. Asked
      BY <1>0, <1>2, <1>3, <1>7, <2>1, Logs DEF RMLogInv, HasPrepared
    <3>2. ~Unprepared(n)' /\ RMCurrent(n)'
      BY <1>3, <1>5, <1>7, <2>1 DEF Unprepared, RMCurrent
    <3> QED
      BY <1>1, <1>5, <2>1, <3>1, <3>2 DEF RMStep, Tentative, Resolving
  <2>2. CASE st = "None"
    <3>1. HasOutcome(Gid(n)) \/ ~HasPrepared(Gid(n))
      BY <1>3, <1>6, <1>7, <2>2 DEF HasOutcome, HasPrepared
    <3>2. RMCurrent(n)' /\ Unprepared(n)'
      BY <1>3, <1>5, <1>7, <2>2 DEF RMCurrent, Unprepared
    <3> QED
      BY <1>1, <1>5, <2>2, <3>1, <3>2 DEF RMStep, Tentative, Resolving
  <2> QED
    BY <1>3, <2>1, <2>2
<1>9. RMInserting(st) = Nothing /\ RMInserting(rm[n]) = Nothing
  BY <1>2, <1>3 DEF RMInserting
<1> QED
  BY <1>4, <1>8, <1>9, RMMoves

(* handle_prepare, and the refusal of the simulation *)
LEMMA RMPrepare ==
  ASSUME IndInv, NEW n \in RMNodes, NEW in \in Inputs(n), RMInput(n, in),
         in.item.type = "Payload", in.item.payload = "Prepare",
         handle_prepare(n, in.queues) \/ RefusePrepare(n, in.queues)
  PROVE  IndInv'
<1>1. Active(n) /\ Asked /\ IsAsked(n) /\ \E t \in TMNodes : From(t, n, "Prepare")
  BY RMMessageFacts
<1> PICK none \in TMMessage \cup {Nothing} : none = Nothing
  OBVIOUS
<1> PICK plm \in PLms \cup {Nothing} : plm = Nothing
  OBVIOUS
<1>2. CASE RefusePrepare(n, in.queues)
  <2>1. "Aborted" \in TMMessage /\ RMBecomes(n, in.queues, rm[n], "Aborted", Nothing)
    BY <1>2 DEF RefusePrepare, RMSends, TMMessage
  <2> QED
    BY <1>1, <2>1, RMStays
<1>3. CASE handle_prepare(n, in.queues) /\ rm[n] # "None"
  <2>1. CASE rm[n] = "Prepared"
    <3>1. "Prepared" \in TMMessage /\ RMBecomes(n, in.queues, rm[n], "Prepared", Nothing)
      BY <1>3, <2>1 DEF handle_prepare, RMSends, TMMessage
    <3> QED
      BY <1>1, <2>1, <3>1, RMStays
  <2>2. CASE rm[n] # "Prepared"
    <3>1. RMBecomes(n, in.queues, rm[n], none, Nothing)
      BY <1>3, <2>2 DEF handle_prepare, RMSends
    <3>2. none \notin Asks /\ none # "Closed" /\ none # "Prepared"
      BY DEF Asks, Nothing
    <3> QED
      BY <1>1, <3>1, <3>2, RMStays
  <2> QED
    BY <2>1, <2>2
<1>4. CASE handle_prepare(n, in.queues) /\ rm[n] = "None"
  <2> PICK st \in RMStates : st = "Working"
    BY DEF RMStates
  <2>1. RMBecomes(n, in.queues, st, none, plm)
    BY <1>4 DEF handle_prepare
  <2>2. rm'[n] = st /\ Active(n)' /\ (IsCurrent(n)' <=> IsCurrent(n)) /\ log_plms' = log_plms
    BY <2>1, RMMovesTo
  <2>3. IsCurrent(n)' => RMCurrent(n)'
    <3>1. IsCurrent(n)' => log_plms[Gid(n)] = <<>>
      BY <1>1, <1>4, <2>2, AskedAfresh
    <3> QED
      BY <2>2, <3>1 DEF RMCurrent
  <2>4. Unprepared(n) /\ Unprepared(n)'
    BY <1>4, <2>2 DEF Unprepared
  <2>5. RMStep(n)
    BY <1>1, <1>4, <2>2, <2>3, <2>4 DEF RMStep, Tentative, Resolving
  <2>6. RMInserting(st) = Nothing /\ RMInserting(rm[n]) = Nothing
    BY <1>4 DEF RMInserting
  <2> QED
    BY <2>1, <2>5, <2>6, RMMoves
<1> QED
  BY <1>2, <1>3, <1>4

(* The leader of a prepared RM goes on to insert the outcome. *)
LEMMA RMResolves ==
  ASSUME IndInv, NEW n \in RMNodes, NEW in \in Inputs(n), RMInput(n, in),
         NEW st \in RMStates, NEW plm \in PLms,
         \/ st = "InsertingCommitted" /\ plm = "Committed" /\ Decision = "Committed"
         \/ st = "InsertingAborted" /\ plm = "Aborted" /\ Decision = "Aborted",
         \/ in.item.type # "PLm" /\ rm[n] = "Prepared"
         \/ in.item.type = "PLm" /\ rm[n] = "InsertingPreparedAborted",
         Active(n), Settled(Gid(n), Gen(n)), Deaf(n),
         RMBecomes(n, in.queues, st, Nothing, plm)
  PROVE  IndInv'
<1>0. n \in Nodes /\ n \notin TMNodes
  BY TheirNodes, NodeKinds
<1> PICK none \in TMMessage \cup {Nothing} : none = Nothing
  OBVIOUS
<1>1. plm \in PLms \cup {Nothing} /\ plm # Nothing /\ RMBecomes(n, in.queues, st, none, plm)
  BY DEF PLms, Nothing
<1>2. /\ rm'[n] = st /\ Active(n)' /\ (IsCurrent(n)' <=> IsCurrent(n)) /\ log_plms' = log_plms
      /\ ~Stored(n)' /\ RMStateInv
  BY <1>1, RMMovesTo
<1>3. rm[n] = "InsertingPreparedAborted" => Stored(n)
  BY <1>0, PLmInput
<1>4. ~Unprepared(n)
  BY <1>3 DEF Unprepared
<1>5. ~Unprepared(n)'
  BY <1>2 DEF Unprepared
<1>6. IsCurrent(n)' => RMCurrent(n)'
  <2>1. IsCurrent(n)' => log_plms[Gid(n)] = <<"Prepared">>
    BY <1>2, <1>3 DEF RMStateInv, RMCurrent
  <2> QED
    BY <1>2, <2>1 DEF RMCurrent
<1>7. Asked
  BY <1>2 DEF RMStateInv
<1>8. RMStep(n)
  BY <1>2, <1>4, <1>5, <1>6, <1>7 DEF RMStep, Tentative, Resolving
<1>9. /\ in.item.type = "PLm" \/ RMInserting(rm[n]) = Nothing
      /\ plm = RMInserting(st)
  BY DEF RMInserting
<1> QED
  BY <1>1, <1>8, <1>9, RMMoves

(* handle_commit *)
LEMMA RMCommit ==
  ASSUME IndInv, NEW n \in RMNodes, NEW in \in Inputs(n), RMInput(n, in),
         in.item.type = "Payload", in.item.payload = "Commit", handle_commit(n, in.queues)
  PROVE  IndInv'
<1>1. Active(n) /\ Decision = "Committed" /\ Settled(Gid(n), Gen(n)) /\ Deaf(n)
  BY RMMessageFacts
<1>2. CASE rm[n] = "None"
  <2>1. "Closed" \in TMMessage /\ RMBecomes(n, in.queues, rm[n], "Closed", Nothing)
    BY <1>2 DEF handle_commit, RMSends, TMMessage
  <2>2. "Closed" \notin Asks
    BY DEF Asks
  <2> QED
    BY <1>1, <1>2, <2>1, <2>2, MayClose, RMStays
<1>3. CASE rm[n] = "Prepared"
  <2> PICK st \in RMStates : st = "InsertingCommitted"
    BY DEF RMStates
  <2> PICK plm \in PLms : plm = "Committed"
    BY DEF PLms
  <2>1. RMBecomes(n, in.queues, st, Nothing, plm)
    BY <1>3 DEF handle_commit
  <2> QED
    BY <1>1, <1>3, <2>1, RMResolves
<1> QED
  BY <1>2, <1>3 DEF handle_commit

(* handle_abort *)
LEMMA RMAbort ==
  ASSUME IndInv, NEW n \in RMNodes, NEW in \in Inputs(n), RMInput(n, in),
         in.item.type = "Payload", in.item.payload = "Abort", handle_abort(n, in.queues)
  PROVE  IndInv'
<1>1. Active(n) /\ Decision = "Aborted" /\ Settled(Gid(n), Gen(n)) /\ Deaf(n)
  BY RMMessageFacts
<1> PICK none \in TMMessage \cup {Nothing} : none = Nothing
  OBVIOUS
<1> PICK noPlm \in PLms \cup {Nothing} : noPlm = Nothing
  OBVIOUS
<1>2. CASE rm[n] = "None"
  <2>1. "Closed" \in TMMessage /\ RMBecomes(n, in.queues, rm[n], "Closed", Nothing)
    BY <1>2 DEF handle_abort, TMMessage
  <2>2. "Closed" \notin Asks
    BY DEF Asks
  <2> QED
    BY <1>1, <1>2, <2>1, <2>2, MayClose, RMStays
<1>3. CASE rm[n] = "Working"
  <2> PICK st \in RMStates : st = "None"
    BY DEF RMStates
  <2> PICK message \in TMMessage \cup {Nothing} : message = "Closed"
    BY DEF TMMessage
  <2>1. RMBecomes(n, in.queues, st, message, noPlm)
    BY <1>3 DEF handle_abort
  <2>2. /\ rm'[n] = st /\ Active(n)' /\ (IsCurrent(n)' <=> IsCurrent(n)) /\ log_plms' = log_plms
        /\ RMStateInv
    BY <1>1, <2>1, RMMovesTo
  <2>3. IsCurrent(n)' => RMCurrent(n)'
    <3>1. IsCurrent(n)' => log_plms[Gid(n)] = <<>>
      BY <1>1, <1>3, <2>2 DEF RMStateInv, RMCurrent
    <3> QED
      BY <2>2, <3>1, Logs DEF RMCurrent
  <2>4. Unprepared(n) /\ Unprepared(n)'
    BY <1>3, <2>2 DEF Unprepared
  <2>5. RMStep(n)
    BY <1>1, <1>3, <2>2, <2>3, <2>4 DEF RMStep, Tentative, Resolving
  <2>6. RMInserting(st) = Nothing /\ RMInserting(rm[n]) = Nothing
    BY <1>3 DEF RMInserting
  <2>7. RMMaySend(n, message)
    BY <1>1, <1>3, <2>2, MayClose DEF RMMaySend, Asks, TMMessage
  <2> QED
    BY <2>1, <2>5, <2>6, <2>7, RMMoves
<1>4. CASE rm[n] = "InsertingPrepared"
  <2> PICK st \in RMStates : st = "InsertingPreparedAborted"
    BY DEF RMStates
  <2>1. RMBecomes(n, in.queues, st, none, noPlm)
    BY <1>4 DEF handle_abort
  <2>2. /\ rm'[n] = st /\ Active(n)' /\ (IsCurrent(n)' <=> IsCurrent(n)) /\ log_plms' = log_plms
        /\ RMStateInv /\ (Stored(n)' <=> Stored(n))
    BY <1>1, <2>1, RMMovesTo
  <2>3. IsCurrent(n)' => RMCurrent(n)'
    <3>1. IsCurrent(n)' => log_plms[Gid(n)] = IF Stored(n) THEN <<"Prepared">> ELSE <<>>
      BY <1>1, <1>4, <2>2 DEF RMStateInv, RMCurrent
    <3> QED
      BY <2>2, <3>1 DEF RMCurrent
  <2>4. Unprepared(n) <=> Unprepared(n)'
    BY <1>4, <2>2 DEF Unprepared
  <2>5. Asked
    BY <1>1, <1>4, <2>2 DEF RMStateInv
  <2>6. RMStep(n)
    BY <1>1, <1>4, <2>2, <2>3, <2>4, <2>5 DEF RMStep, Tentative, Resolving
  <2>7. RMInserting(st) = RMInserting(rm[n])
    BY <1>4 DEF RMInserting
  <2> QED
    BY <2>1, <2>6, <2>7, RMMoves
<1>5. CASE rm[n] = "Prepared"
  <2> PICK st \in RMStates : st = "InsertingAborted"
    BY DEF RMStates
  <2> PICK plm \in PLms : plm = "Aborted"
    BY DEF PLms
  <2>1. RMBecomes(n, in.queues, st, Nothing, plm)
    BY <1>5 DEF handle_abort
  <2> QED
    BY <1>1, <1>5, <2>1, RMResolves
<1> QED
  BY <1>2, <1>3, <1>4, <1>5 DEF handle_abort

(* handle_prepared_plm, handle_committed_plm and handle_aborted_plm *)
LEMMA RMPLm ==
  ASSUME IndInv, NEW n \in RMNodes, NEW in \in Inputs(n), RMInput(n, in),
         in.item.type = "PLm", handle_rm_plm(n, in.queues, in.item.plm)
  PROVE  IndInv'
<1>0. n \in Nodes /\ Gid(n) \in RMs /\ Gen(n) \in Nat
  BY TheirNodes
<1>1. Active(n) /\ Stored(n)
  BY <1>0, LCInput, PLmInput
<1>2. RMStateInv /\ RMLogInv
  BY DEF IndInv, ProtocolInv
<1> PICK noPlm \in PLms \cup {Nothing} : noPlm = Nothing
  OBVIOUS
<1>3. CASE rm[n] = "InsertingPrepared" /\ RMBecomes(n, in.queues, "Prepared", "Prepared", Nothing)
  <2> PICK st \in RMStates : st = "Prepared"
    BY DEF RMStates
  <2> PICK message \in TMMessage \cup {Nothing} : message = "Prepared"
    BY DEF TMMessage
  <2>1. RMBecomes(n, in.queues, st, message, noPlm)
    BY <1>3
  <2>2. /\ rm'[n] = st /\ Active(n)' /\ (IsCurrent(n)' <=> IsCurrent(n)) /\ log_plms' = log_plms
    BY <2>1, RMMovesTo
  <2>3. IsCurrent(n)' => RMCurrent(n)'
    <3>1. IsCurrent(n)' => log_plms[Gid(n)] = <<"Prepared">>
      BY <1>1, <1>2, <1>3, <2>2 DEF RMStateInv, RMCurrent
    <3> QED
      BY <2>2, <3>1 DEF RMCurrent
  <2>4. ~Unprepared(n) /\ ~Unprepared(n)'
    BY <1>1, <1>3, <2>2 DEF Unprepared
  <2>5. Asked
    BY <1>1, <1>2, <1>3 DEF RMStateInv
  <2>6. RMStep(n)
    BY <1>1, <1>3, <2>2, <2>3, <2>4, <2>5 DEF RMStep, Tentative, Resolving
  <2>7. RMInserting(st) = Nothing
    BY DEF RMInserting
  <2>8. RMMaySend(n, message)
    BY <1>1, <1>3, <2>2 DEF RMMaySend, Asks, TMMessage, Tentative
  <2> QED
    BY <2>1, <2>6, <2>7, <2>8, RMMoves
<1>4. CASE /\ rm[n] = "InsertingPreparedAborted"
           /\ RMBecomes(n, in.queues, "InsertingAborted", Nothing, "Aborted")
  <2> PICK st \in RMStates : st = "InsertingAborted"
    BY DEF RMStates
  <2> PICK plm \in PLms : plm = "Aborted"
    BY DEF PLms
  <2>1. RMBecomes(n, in.queues, st, Nothing, plm)
    BY <1>4
  <2>2. Decision = "Aborted" /\ Settled(Gid(n), Gen(n)) /\ Deaf(n)
    BY <1>1, <1>2, <1>4 DEF RMStateInv
  <2> QED
    BY <1>1, <1>4, <2>1, <2>2, RMResolves
<1>5. CASE rm[n] \in Resolving /\ RMBecomes(n, in.queues, "None", "Closed", Nothing)
  <2> PICK st \in RMStates : st = "None"
    BY DEF RMStates
  <2> PICK message \in TMMessage \cup {Nothing} : message = "Closed"
    BY DEF TMMessage
  <2>1. RMBecomes(n, in.queues, st, message, noPlm)
    BY <1>5
  <2>2. /\ rm'[n] = st /\ Active(n)' /\ (IsCurrent(n)' <=> IsCurrent(n)) /\ log_plms' = log_plms
    BY <2>1, RMMovesTo
  <2>3. Over(Gid(n), Gen(n)) /\ Deaf(n)
    BY <1>1, <1>2, <1>5 DEF RMStateInv, Resolving
  <2>4. HasOutcome(Gid(n)) /\ Resolved(Gid(n)) /\ Settled(Gid(n), Gen(n))
    <3>1. ~Unprepared(n)
      BY <1>5 DEF Unprepared, Resolving
    <3>2. HasPrepared(Gid(n))
      BY <1>1, <1>2, <3>1 DEF RMStateInv, PreparedFrom
    <3>3. Decision \in {"Committed", "Aborted"}
      BY <1>1, <1>2, <1>5 DEF RMStateInv, Resolving
    <3> QED
      BY <2>3, <3>2, <3>3 DEF Over, Resolved, HasOutcome, HasPrepared
  <2>5. IsCurrent(n)' => RMCurrent(n)'
    <3>1. log_plms[Gid(n)] # <<"Prepared">>
      BY <2>4, Logs DEF HasOutcome
    <3> QED
      BY <2>2, <3>1 DEF RMCurrent
  <2>6. Unprepared(n)'
    BY <2>2 DEF Unprepared
  <2>7. RMStep(n)
    BY <1>1, <1>5, <2>2, <2>4, <2>5, <2>6 DEF RMStep, Tentative, Resolving
  <2>8. RMInserting(st) = Nothing
    BY DEF RMInserting
  <2>9. RMMaySend(n, message)
    BY <1>1, <2>2, <2>3, <2>4 DEF RMMaySend, Asks, TMMessage
  <2> QED
    BY <2>1, <2>7, <2>8, <2>9, RMMoves
<1> QED
  BY <1>3, <1>4, <1>5 DEF handle_rm_plm, Resolving

(* The inputs of a leader of an RM. *)
LEMMA RMInputStep ==
  ASSUME IndInv, NEW n \in RMNodes, HandleRMInput(n)
  PROVE  IndInv'
<1>1. PICK in \in Inputs(n) :
        /\ RMInput(n, in)
        /\ \/ in.item.type = "LeaderChanged" /\ rm_leader_changed(n, in.queues)
           \/ in.item.type = "RemoteLeaderChanged" /\ RMSends(n, in.queues, Nothing)
           \/ in.item.type = "PLm" /\ handle_rm_plm(n, in.queues, in.item.plm)
           \/ in.item.type = "Payload" /\ handle_rm_msg(n, in.queues, in.item.payload)
  BY DEF HandleRMInput, RMInput
<1>2. CASE in.item.type = "LeaderChanged" /\ rm_leader_changed(n, in.queues)
  BY <1>1, <1>2, RMLeaderChanged
<1>3. CASE in.item.type = "RemoteLeaderChanged" /\ RMSends(n, in.queues, Nothing)
  <2> PICK none \in TMMessage \cup {Nothing} : none = Nothing
    OBVIOUS
  <2>1. RMBecomes(n, in.queues, rm[n], none, Nothing)
    BY <1>3 DEF RMSends
  <2>2. none \notin Asks /\ none # "Closed" /\ none # "Prepared"
    BY DEF Asks, Nothing
  <2> QED
    BY <1>1, <1>3, <2>1, <2>2, RMStays
<1>4. CASE in.item.type = "PLm" /\ handle_rm_plm(n, in.queues, in.item.plm)
  BY <1>1, <1>4, RMPLm
<1>5. CASE in.item.type = "Payload" /\ handle_rm_msg(n, in.queues, in.item.payload)
  BY <1>1, <1>5, RMPrepare, RMCommit, RMAbort DEF handle_rm_msg
<1> QED
  BY <1>1, <1>2, <1>3, <1>4, <1>5
-----------------------------------------------------------------------------
(* The inputs of the TM *)

(* What the leader n of the TM does with an input. *)
TMHandled(n, in) ==
  /\ Handles(n, in)
  /\ UNCHANGED rm
  /\ tm' \in [TMNodes -> TMStates]
  /\ \A t \in TMNodes : t # n => tm'[t] = tm[t]

(* It sends what it counts the answers to. *)
TMMaySend(n, p) ==
  /\ tm'[n].st \in Counting
  /\ p = Broadcast(tm'[n].st)
  /\ p = "Prepare" => Undecided(n) \/ Decision = Nothing

(* Then the invariants are kept, if it does what a step of the TM may do. *)
LEMMA TMHandledStep ==
  ASSUME IndInv, NEW n \in TMNodes, NEW in \in Inputs(n), TMHandled(n, in),
         TMStep(n), TMLog(n)', Pipeline(n)', ReplyInv',
         reply' \in {"none", "waiting", "success", "aborted", "cancelled"},
         \A e \in Linked : \A p : Sent(n, in, e, p) => TMMaySend(n, p)
  PROVE  IndInv'
<1>0. n \in Nodes /\ n \notin RMNodes
  BY NodeKinds
<1>1. NetworkInv /\ FifoInv /\ StateTypes /\ RMMessageInv
  BY DEF IndInv, ProtocolInv
<1>2. /\ Handles(n, in) /\ rm' = rm /\ tm' \in [TMNodes -> TMStates]
      /\ \A t \in TMNodes : t # n => tm'[t] = tm[t]
  BY DEF TMHandled
<1>3. Alone(n) /\ log_plms' = log_plms /\ NetworkInv'
  BY <1>0, <1>2, HandleAlone
<1>4. Active(n)'
  BY <1>0, <1>3, AloneOthers
<1>5. \A e \in Linked : \A p : From(e[1], e[2], p)' => From(e[1], e[2], p) \/ Sent(n, in, e, p)
  BY <1>0, <1>1, <1>2, HandledFrom
<1>6. \A p : TMMaySend(n, p) =>
        /\ p \in RMMessage
        /\ p = "Prepare" => tm'[n].st = "Preparing"
        /\ p = "Commit" => tm'[n].st = "Committed"
        /\ p = "Abort" => tm'[n].st = "Aborted"
  BY DEF TMMaySend, Counting, Broadcast, RMMessage
<1>7. FifoInv'
  <2> SUFFICES ASSUME NEW e \in Linked, NEW p \in Asks, NEW q \in Ends,
                      Sent(n, in, e, p), From(e[1], e[2], q)
               PROVE  FALSE
    BY <1>0, <1>1, <1>2, HandledFifo
  <2>1. TMMaySend(n, p) /\ e[1] = n
    BY DEF Sent
  <2>2. e[2] \in RMNodes
    BY <1>0, <2>1, LinkedKinds
  <2>3. q \in RMMessage
    <3>1. q \in Messages
      BY DEF Ends, Messages, RMMessage, TMMessage
    <3> QED
      BY <1>0, <1>1, <2>1, <3>1 DEF StateTypes
  <2>4. q \in {"Commit", "Abort"} /\ p = "Prepare"
    BY <1>6, <2>1, <2>3 DEF Ends, RMMessage, Asks
  <2>5. Late(Gen(n)) /\ Gen(n) \in Nat
    BY <1>1, <2>1, <2>2, <2>4, TheirNodes DEF RMMessageInv
  <2>6. Decision # Nothing /\ ~Undecided(n)
    BY <2>5 DEF Late
  <2> QED
    BY <2>1, <2>4, <2>6 DEF TMMaySend
<1>8. ASSUME NEW t \in TMNodes, NEW m \in RMNodes PROVE MessageStep(t, m)
  <2>1. <<t, m>> \in Linked /\ <<m, t>> \in Linked /\ m # n
    BY <1>0, LinkedKinds
  <2>2. <<t, m>>[1] = t /\ <<t, m>>[2] = m /\ <<m, t>>[1] = m /\ <<m, t>>[2] = t
    OBVIOUS
  <2>3. \A p : ~New(m, t, p)
    <3>1. \A p : From(m, t, p)' => From(m, t, p) \/ Sent(n, in, <<m, t>>, p)
      BY <1>5, <2>1, <2>2
    <3>2. \A p : ~Sent(n, in, <<m, t>>, p)
      BY <2>1, <2>2 DEF Sent
    <3> QED
      BY <3>1, <3>2 DEF New
  <2>4. \A p : From(t, m, p)' => From(t, m, p) \/ Sent(n, in, <<t, m>>, p)
    BY <1>5, <2>1, <2>2
  <2>5. \A p : New(t, m, p) => t = n /\ TMMaySend(n, p) /\ Gen(m) = leader_map'[t][Gid(m)]
    <3>1. \A p : Sent(n, in, <<t, m>>, p) => t = n /\ TMMaySend(n, p) /\ Gen(m) = leader_map'[t][Gid(m)]
      BY <2>1, <2>2 DEF Sent
    <3> QED
      BY <2>4, <3>1 DEF New
  <2>6. \A x \in {<<"Prepare", "Preparing">>, <<"Commit", "Committed">>, <<"Abort", "Aborted">>} :
          New(t, m, x[1]) => /\ Active(t)' /\ tm'[t].st = x[2]
                             /\ Gen(m) = leader_map'[t][Gid(m)]
    BY <1>4, <1>6, <2>5
  <2> QED
    BY <2>3, <2>6 DEF MessageStep
<1>9. StateTypes'
  <2>1. ASSUME NEW e \in Linked, NEW p \in Messages, From(e[1], e[2], p)'
        PROVE  p \in (IF e[1] \in TMNodes THEN RMMessage ELSE TMMessage)
    <3>1. CASE From(e[1], e[2], p)
      BY <1>1, <3>1 DEF StateTypes
    <3>2. CASE Sent(n, in, e, p)
      <4>1. p \in RMMessage /\ e[1] = n
        BY <1>6, <3>2 DEF Sent
      <4> QED
        BY <4>1
    <3> QED
      BY <1>5, <2>1, <3>1, <3>2
  <2> QED
    BY <1>1, <1>2, <2>1 DEF StateTypes
<1> QED
  BY <1>0, <1>3, <1>7, <1>8, <1>9, AloneAssemble

(* What handling an input of the leader of the TM has in common. *)
TMInput(n, in) ==
  /\ inbox' = [inbox EXCEPT ![n] = in.rest]
  /\ \/ leader_map' = leader_map
     \/ /\ in.item.type = "RemoteLeaderChanged"
        /\ leader_map' = [leader_map EXCEPT ![n] = RemoteLeaderChanged(@, in.item)]
  /\ UNCHANGED <<logVars, status, remote_leader_changes, tablet_bundle, next_insert,
                 network_buffer, rm>>

(* What is sent to the groups G, and what is gathered. *)
TMBecomesSo(n, in, es, plm, G, message) ==
  /\ tm' = [tm EXCEPT ![n] = es]
  /\ tablet_bundles' = IF plm = Nothing THEN tablet_bundles
                       ELSE [tablet_bundles EXCEPT ![n] = Append(@, plm)]
  /\ chan' = IF message = Nothing THEN in.queues ELSE Outgoing(n, in.queues, ToRMs(G, message))

(* What becomes of the leader n of the TM, and what it sends. *)
LEMMA TMBecomesFacts ==
  ASSUME IndInv, NEW n \in TMNodes, NEW in \in Inputs(n), TMInput(n, in),
         NEW es \in TMStates, NEW plm \in PLms \cup {Nothing},
         NEW G, NEW message \in RMMessage \cup {Nothing},
         TMBecomesSo(n, in, es, plm, G, message)
  PROVE  /\ TMHandled(n, in)
         /\ tm'[n] = es
         /\ \A e \in Linked : \A p : Sent(n, in, e, p) => p = message /\ message # Nothing
         /\ tablet_bundles'[n] = IF plm = Nothing THEN tablet_bundles[n] ELSE Append(tablet_bundles[n], plm)
         /\ tablet_bundle'[n] = tablet_bundle[n]
         /\ next_insert'[n] = next_insert[n]
         /\ inbox'[n] = in.rest
         /\ log_plms' = log_plms
         /\ Active(n)' /\ (IsCurrent(n)' <=> IsCurrent(n))
         /\ WithinKept
<1>0. n \in Nodes /\ n \notin RMNodes
  BY NodeKinds
<1>1. NetworkInv /\ NetInv(Messages, PLms) /\ StateTypes
  BY DEF IndInv, NetworkInv
<1>2. in.queues \in [Linked -> Seq(Messages)]
  BY <1>0, <1>1, InputFacts
<1>3. /\ tm \in [TMNodes -> TMStates] /\ tablet_bundle \in [Nodes -> Seq(PLms)]
      /\ tablet_bundles \in [Nodes -> Seq(PLms)] /\ DOMAIN inbox = Nodes
  BY <1>1, TypeFacts DEF StateTypes
<1>4. /\ tm' = [tm EXCEPT ![n] = es]
      /\ chan' = IF message = Nothing THEN in.queues
                 ELSE Outgoing(n, in.queues, ToRMs(G, message))
      /\ tablet_bundles' =
           IF plm = Nothing THEN tablet_bundles ELSE [tablet_bundles EXCEPT ![n] = Append(@, plm)]
  BY DEF TMBecomesSo
<1>5. tm' \in [TMNodes -> TMStates] /\ tm'[n] = es /\ \A t \in TMNodes : t # n => tm'[t] = tm[t]
  BY <1>3, <1>4
<1>6. /\ tablet_bundles' \in [Nodes -> Seq(PLms)]
      /\ tablet_bundles'[n] = IF plm = Nothing THEN tablet_bundles[n] ELSE Append(tablet_bundles[n], plm)
      /\ \A x \in Nodes : x # n => tablet_bundles'[x] = tablet_bundles[x]
  <2>1. CASE plm = Nothing
    BY <1>3, <1>4, <2>1
  <2>2. CASE plm # Nothing
    <3>1. plm \in PLms
      BY <2>2
    <3>2. Append(tablet_bundles[n], plm) \in Seq(PLms)
      BY <1>0, <1>3, <3>1
    <3>3. tablet_bundles' = [tablet_bundles EXCEPT ![n] = Append(tablet_bundles[n], plm)]
      BY <1>4, <2>2
    <3> QED
      BY <1>0, <1>3, <2>2, <3>2, <3>3
  <2> QED
    BY <2>1, <2>2
<1>7. /\ inbox' = [inbox EXCEPT ![n] = in.rest]
      /\ UNCHANGED <<logVars, status, remote_leader_changes, tablet_bundle, next_insert,
                     network_buffer, rm>>
      /\ \/ leader_map' = leader_map
         \/ /\ in.item.type = "RemoteLeaderChanged"
            /\ leader_map' = [leader_map EXCEPT ![n] = RemoteLeaderChanged(@, in.item)]
  BY DEF TMInput
<1>8. HandlesAt(n, in)
  BY <1>6, <1>7 DEF HandlesAt
<1>9. /\ chan' \in [Linked -> Seq(Messages)]
      /\ \A e \in Linked :
           \/ chan'[e] = in.queues[e]
           \/ /\ e[1] = n
              /\ status[e[2]] = "leader"
              /\ Gen(e[2]) = leader_map'[n][Gid(e[2])]
              /\ message \in Messages /\ chan'[e] = Append(in.queues[e], message)
  <2>1. CASE message = Nothing
    BY <1>2, <1>4, <2>1
  <2>2. CASE message # Nothing
    <3>1. message \in Messages /\ chan' = Outgoing(n, in.queues, ToRMs(G, message))
      BY <1>4, <2>2 DEF Messages
    <3>2. ToRMs(G, message) \in [G -> Messages] /\ \A h \in G : ToRMs(G, message)[h] = message
      BY <3>1 DEF ToRMs
    <3>3. chan' \in [Linked -> Seq(Messages)]
      BY <1>2, <3>1, <3>2, OutgoingFacts
    <3>4. DOMAIN ToRMs(G, message) = G
      BY DEF ToRMs
    <3> QED
      BY <3>1, <3>2, <3>3, <3>4 DEF Outgoing
  <2> QED
    BY <2>1, <2>2
<1>10. Handles(n, in)
  <2>1. tablet_bundle' \in [Nodes -> Seq(PLms)]
    BY <1>3, <1>7
  <2> QED
    BY <1>6, <1>8, <1>9, <2>1 DEF Handles
<1>11. TMHandled(n, in)
  BY <1>5, <1>7, <1>10 DEF TMHandled
<1>12. ASSUME NEW e \in Linked, NEW p, Sent(n, in, e, p)
       PROVE  p = message /\ message # Nothing
  <2>1. chan'[e] = Append(in.queues[e], p) /\ in.queues[e] \in Seq(Messages)
    BY <1>2, <1>12 DEF Sent
  <2>2. Nothing \notin Messages /\ "Prepared" \in Messages
    BY DEF Nothing, Messages, RMMessage, TMMessage
  <2>3. CASE chan'[e] = in.queues[e]
    BY <2>1, <2>2, <2>3, AppendOne
  <2>4. CASE message \in Messages /\ chan'[e] = Append(in.queues[e], message)
    BY <2>1, <2>2, <2>4, AppendOne
  <2> QED
    BY <1>9, <2>3, <2>4
<1>13. Active(n)' /\ (IsCurrent(n)' <=> IsCurrent(n)) /\ log_plms' = log_plms /\ WithinKept
  <2>1. Alone(n) /\ log_plms' = log_plms /\ WithinKept
    BY <1>0, <1>5, <1>7, <1>10, HandleAlone
  <2> QED
    BY <1>0, <2>1, AloneOthers
<1>14. inbox'[n] = in.rest
  BY <1>0, <1>3, <1>7
<1> QED
  BY <1>5, <1>6, <1>7, <1>11, <1>12, <1>13, <1>14

(* The client is told nothing, or the outcome. *)
LEMMA ReplyNext ==
  ASSUME IndInv, UNCHANGED log_plms, reply # "none",
         NEW n \in TMNodes, \A t \in TMNodes : t # n => tm'[t] = tm[t],
         \/ reply' = reply /\ (reply = "cancelled" => tm'[n] = NoTM)
         \/ reply' = "success" /\ Decision = "Committed"
         \/ reply' = "aborted" /\ Decision = "Aborted"
  PROVE  ReplyInv' /\ reply' \in {"none", "waiting", "success", "aborted", "cancelled"}
<1>1. ReplyInv /\ reply \in {"none", "waiting", "success", "aborted", "cancelled"}
  BY DEF IndInv, StateTypes
<1>2. (Asked' <=> Asked) /\ Decision' = Decision
  BY DEF Asked, Decision
<1> QED
  BY <1>1, <1>2 DEF ReplyInv

(* The leader of the TM moves to the state es. *)
LEMMA TMMovesTo ==
  ASSUME IndInv, NEW n \in TMNodes, NEW in \in Inputs(n), TMInput(n, in),
         NEW es \in TMStates, NEW plm \in PLms \cup {Nothing},
         NEW G, NEW message \in RMMessage \cup {Nothing},
         TMBecomesSo(n, in, es, plm, G, message)
  PROVE  /\ tm'[n] = es /\ Active(n)' /\ (IsCurrent(n)' <=> IsCurrent(n)) /\ log_plms' = log_plms
         /\ plm = Nothing => (Stored(n)' <=> Stored(n))
         /\ plm # Nothing => ~Stored(n)'
         /\ (Asked' <=> Asked) /\ Decision' = Decision /\ (IsClosed' <=> IsClosed)
         /\ \A g \in Groups, k \in Gens : Within(n, g, k) => Within(n, g, k)'
<1>1. /\ tm'[n] = es
      /\ tablet_bundles'[n] = IF plm = Nothing THEN tablet_bundles[n] ELSE Append(tablet_bundles[n], plm)
      /\ tablet_bundle'[n] = tablet_bundle[n]
      /\ log_plms' = log_plms
      /\ Active(n)' /\ (IsCurrent(n)' <=> IsCurrent(n))
  BY TMBecomesFacts
<1>6. WithinKept
  BY TMBecomesFacts
<1>2. plm = Nothing => (Stored(n)' <=> Stored(n))
  BY <1>1 DEF Stored
<1>0. n \in Nodes
  BY TheirNodes
<1>3. plm # Nothing => ~Stored(n)'
  <2>1. ASSUME plm # Nothing PROVE tablet_bundles'[n] # <<>>
    <3>1. NetInv(Messages, PLms) /\ plm \in PLms
      BY <2>1 DEF IndInv, NetworkInv
    <3>2. tablet_bundles[n] \in Seq(PLms)
      BY <1>0, <3>1, TypeFacts
    <3> QED
      BY <1>1, <2>1, <3>1, <3>2, RangeAppend
  <2> QED
    BY <2>1 DEF Stored
<1>4. (Asked' <=> Asked) /\ Decision' = Decision /\ (IsClosed' <=> IsClosed)
  BY <1>1 DEF Asked, Decision, IsClosed
<1>5. \A g \in Groups, k \in Gens : Within(n, g, k) => Within(n, g, k)'
  BY <1>0, <1>6, GensNat DEF WithinKept
<1> QED
  BY <1>1, <1>2, <1>3, <1>4, <1>5

(* The invariants are kept, if it does what a step of the TM may do. *)
LEMMA TMMoves ==
  ASSUME IndInv, NEW n \in TMNodes, NEW in \in Inputs(n), TMInput(n, in),
         NEW es \in TMStates, NEW plm \in PLms \cup {Nothing},
         NEW G, NEW message \in RMMessage \cup {Nothing},
         TMBecomesSo(n, in, es, plm, G, message),
         TMStep(n), TMLog(n)',
         message # Nothing => TMMaySend(n, message),
         \/ reply' = reply /\ (reply = "cancelled" => es = NoTM)
         \/ reply' = "success" /\ Decision = "Committed"
         \/ reply' = "aborted" /\ Decision = "Aborted",
         \* What it waits for next.
         \/ /\ in.item.type # "PLm" /\ TMInserting(es.st) = TMInserting(tm[n].st) /\ plm = Nothing
         \/ /\ in.item.type = "PLm" \/ TMInserting(tm[n].st) = Nothing
            /\ plm = TMInserting(es.st)
  PROVE  IndInv'
<1>0. n \in Nodes
  BY TheirNodes
<1>1. Pipeline(n) /\ NetInv(Messages, PLms)
  BY <1>0 DEF IndInv, PipelineInv, NetworkInv
<1>2. /\ TMHandled(n, in)
      /\ tm'[n] = es
      /\ \A e \in Linked : \A p : Sent(n, in, e, p) => p = message /\ message # Nothing
      /\ tablet_bundles'[n] = IF plm = Nothing THEN tablet_bundles[n] ELSE Append(tablet_bundles[n], plm)
      /\ tablet_bundle'[n] = tablet_bundle[n]
      /\ next_insert'[n] = next_insert[n] /\ inbox'[n] = in.rest /\ log_plms' = log_plms
  BY TMBecomesFacts
<1>3. Waits(n)' = TMInserting(es.st) /\ Waits(n) = TMInserting(tm[n].st)
  BY <1>0, <1>2 DEF Waits
<1>4. Pipeline(n)'
  <2>1. CASE in.item.type # "PLm" /\ TMInserting(es.st) = TMInserting(tm[n].st) /\ plm = Nothing
    <3>1. /\ NoPLm(inbox[n]) => NoPLm(inbox'[n])
          /\ \A x : OnePLm(inbox[n], x) => OnePLm(inbox'[n], x)
      BY <1>0, <1>2, <2>1, PLmInput
    <3> QED
      BY <1>1, <1>2, <1>3, <2>1, <3>1, PipelineSame
  <2>2. CASE (in.item.type = "PLm" \/ TMInserting(tm[n].st) = Nothing) /\ plm = TMInserting(es.st)
    <3>1. Stored(n) /\ next_insert[n].plms = <<>> /\ NoPLm(in.rest)
      <4>1. CASE in.item.type = "PLm"
        BY <1>0, <4>1, PLmInput
      <4>2. CASE in.item.type # "PLm" /\ TMInserting(tm[n].st) = Nothing
        <5>1. NothingPending(n)
          BY <1>1, <1>3, <4>2 DEF Pipeline
        <5> QED
          BY <1>0, <4>2, <5>1, PLmInput DEF NothingPending
      <4> QED
        BY <2>2, <4>1, <4>2
    <3>2. tablet_bundle[n] = <<>> /\ tablet_bundles[n] = <<>>
      BY <3>1 DEF Stored
    <3>3. CASE plm = Nothing
      <4>1. NothingPending(n)'
        BY <1>2, <3>1, <3>2, <3>3 DEF NothingPending, Stored
      <4> QED
        BY <1>3, <2>2, <3>3, <4>1 DEF Pipeline
    <3>4. CASE plm # Nothing
      <4>1. tablet_bundles'[n] = <<plm>>
        <5>1. tablet_bundles'[n] = Append(<<>>, plm)
          BY <1>2, <3>2, <3>4
        <5> QED
          BY <5>1
      <4>2. Gathered(n, plm)'
        BY <1>0, <1>2, <3>1, <3>2, <4>1 DEF Gathered
      <4> QED
        BY <1>3, <2>2, <3>4, <4>2 DEF Pipeline, Gathered
    <3> QED
      BY <3>3, <3>4
  <2> QED
    BY <2>1, <2>2
<1>5. ReplyInv' /\ reply' \in {"none", "waiting", "success", "aborted", "cancelled"}
  <2>1. reply # "none"
    BY <1>0, InputStarted
  <2>2. \A t \in TMNodes : t # n => tm'[t] = tm[t]
    BY <1>2 DEF TMHandled
  <2> QED
    BY <1>2, <2>1, <2>2, ReplyNext
<1> QED
  BY <1>2, <1>4, <1>5, TMHandledStep

(* The leader of the TM stays in its state. *)
LEMMA TMStays ==
  ASSUME IndInv, NEW n \in TMNodes, NEW in \in Inputs(n), TMInput(n, in), UNCHANGED reply,
         in.item.type \notin {"PLm", "LeaderChanged"},
         NEW G, NEW message \in RMMessage \cup {Nothing},
         TMBecomesSo(n, in, tm[n], Nothing, G, message),
         message # Nothing => tm[n].st \in Counting /\ message = Broadcast(tm[n].st)
  PROVE  IndInv'
<1>0. n \in Nodes
  BY TheirNodes
<1>1. Active(n)
  BY <1>0, LCInput
<1> PICK es \in TMStates : es = tm[n]
  BY DEF IndInv, StateTypes
<1> PICK plm \in PLms \cup {Nothing} : plm = Nothing
  OBVIOUS
<1>2. TMBecomesSo(n, in, es, plm, G, message)
  OBVIOUS
<1>3. /\ tm'[n] = es /\ Active(n)' /\ (IsCurrent(n)' <=> IsCurrent(n)) /\ log_plms' = log_plms
      /\ \A g \in Groups, k \in Gens : Within(n, g, k) => Within(n, g, k)'
  BY <1>2, TMMovesTo
<1>4. tablet_bundle'[n] = tablet_bundle[n] /\ tablet_bundles'[n] = tablet_bundles[n]
  BY DEF TMBecomesSo, TMInput
<1>5. TMStep(n)
  BY <1>1, <1>3, <1>4, TMSame
<1>6. TMLog(n)'
  <2>1. TMLog(n)
    BY DEF IndInv, TMLogInv
  <2> QED
    BY <1>1, <1>3, <1>4, <2>1, TMLogSame
<1>7. message # Nothing => TMMaySend(n, message)
  <2>1. message = "Prepare" => tm[n].st = "Preparing"
    BY DEF Broadcast, Counting, Nothing
  <2> QED
    BY <1>3, <2>1 DEF TMMaySend, Undecided
<1>8. reply = "cancelled" => es = NoTM
  BY DEF IndInv, ReplyInv
<1> QED
  BY <1>2, <1>5, <1>6, <1>7, <1>8, TMMoves

(* advance_to_prepared, _committed and _aborted *)
LEMMA TMAdvance ==
  ASSUME IndInv, NEW n \in TMNodes, NEW in \in Inputs(n), TMInput(n, in),
         NEW st \in Counting, NEW waits \in BOOLEAN,
         AdvanceTo(n, in.queues, st, waits), UNCHANGED tablet_bundles,
         in.item.type = "PLm" \/ TMInserting(tm[n].st) = Nothing,
         st = "Preparing" => /\ Asked
                             /\ Decision = Nothing \/ Undecided(n)
                             /\ IsCurrent(n) => Decision = Nothing,
         st = "Committed" => /\ Decision = "Committed"
                             /\ \A r \in RMs : PreparedFrom(r, leader_map[n][r]),
         st = "Aborted" => Decision = "Aborted",
         st # "Preparing" => /\ Decided(n) \/ IsCurrent(n)
                             /\ IsCurrent(n) => ~IsClosed,
         \/ reply' = reply /\ reply # "cancelled"
         \/ reply' = "success" /\ Decision = "Committed"
         \/ reply' = "aborted" /\ Decision = "Aborted"
  PROVE  IndInv'
<1>1. PICK es \in TMStates : es = TMState(st, RMs, waits)
  <2>1. RMs \in (SUBSET RMs) \ {{}}
    BY STMAssumption
  <2> QED
    BY <2>1 DEF TMStates, TMState
<1>2. es.st = st /\ es.rms_remaining = RMs /\ es # NoTM
  BY <1>1 DEF TMState, NoTM, Counting
<1>3. PICK message \in RMMessage \cup {Nothing} : message = Broadcast(st)
  BY DEF RMMessage, Broadcast, Counting
<1>4. message # Nothing /\ (message = "Prepare" => st = "Preparing")
  BY <1>3 DEF Broadcast, Counting, Nothing
<1> PICK plm \in PLms \cup {Nothing} : plm = Nothing
  OBVIOUS
<1>5. TMBecomesSo(n, in, es, plm, RMs, message)
  BY <1>1, <1>3, <1>4 DEF TMBecomesSo, AdvanceTo, TMBecomes
<1>6. /\ tm'[n] = es /\ Active(n)' /\ (IsCurrent(n)' <=> IsCurrent(n))
      /\ (Asked' <=> Asked) /\ Decision' = Decision /\ (IsClosed' <=> IsClosed)
      /\ \A g \in Groups, k \in Gens : Within(n, g, k) => Within(n, g, k)'
  BY <1>5, TMMovesTo
<1>7. Asked
  BY Logs DEF Counting, Decision, Asked, Nothing
<1>8. /\ Undecided(n)' <=> st = "Preparing"
      /\ Decided(n)' <=> st # "Preparing"
  BY <1>2, <1>6 DEF Undecided, Decided, Counting
<1>9. TMStep(n)
  <2>1. Decision # Nothing /\ Undecided(n)' =>
          Undecided(n) /\ \A g \in Groups, k \in Gens : Within(n, g, k) => Within(n, g, k)'
    BY <1>6, <1>8
  <2>2. Decided(n)' => Decided(n) \/ IsCurrent(n)'
    BY <1>6, <1>8
  <2>3. ASSUME NEW r \in RMs
        PROVE  /\ tm'[n].st = "Preparing" /\ r \notin tm'[n].rms_remaining => PreparedFrom(r, leader_map[n][r])
               /\ tm'[n].st \in {"InsertingTMCommitted", "Committed"} => PreparedFrom(r, leader_map[n][r])
               /\ tm'[n].st \in {"Committed", "Aborted"} /\ r \notin tm'[n].rms_remaining => Mute(n, r)
               /\ tm'[n].st = "InsertingTMClosed" => Mute(n, r)
               /\ Active(n)' /\ tm'[n] = NoTM /\ Asked' => Mute(n, r)
    BY <1>2, <1>6, <2>3 DEF Counting
  <2> QED
    BY <2>1, <2>2, <2>3 DEF TMStep
<1>10. TMLog(n)'
  <2>1. TMAgrees(n)'
    BY <1>2, <1>6, <1>7 DEF TMAgrees, Counting
  <2>2. IsCurrent(n)' => TMCurrent(n)'
    BY <1>6, <1>8 DEF TMCurrent
  <2> QED
    BY <1>6, <2>1, <2>2 DEF TMLog
<1>11. TMMaySend(n, message)
  BY <1>2, <1>3, <1>4, <1>6 DEF TMMaySend
<1>12. TMInserting(es.st) = Nothing
  BY <1>2 DEF TMInserting, Counting
<1> QED
  BY <1>2, <1>5, <1>9, <1>10, <1>11, <1>12, TMMoves

(* A leader of the TM that is new to it has heard from nobody. *)
LEMMA NewIsMute ==
  ASSUME IndInv, NEW n \in TMNodes, inbox[n] = <<LC>>, IsClosed, NEW r \in RMs
  PROVE  Mute(n, r)
<1>0. n \in Nodes /\ Gid(n) = TM
  BY TheirNodes
<1>1. leader_map[n] = log_leader_map[TM] /\ Unheard(n)
  BY <1>0 DEF IndInv, NetworkInv, ElectedInv
<1>2. PICK k \in Gens : k =< log_leader_map[TM][r] /\ Over(r, k)
  BY DEF IndInv, ProtocolInv, TMStateInv
<1>3. ASSUME NEW m \in RMNodes, NEW p PROVE ~From(m, n, p)
  <2>1. <<m, n>> \in Linked /\ Gid(m) \in Groups /\ <<m, n>>[2] = n
    BY LinkedKinds, TheirNodes
  <2>2. chan[<<m, n>>] = <<>> /\ network_buffer[n][Gid(m)].payloads = <<>>
    BY <1>1, <2>1 DEF Unheard
  <2>3. Range(<<>>) = {} /\ Range(<<LC>>) = {LC} /\ Payload(Gid(m), p) # LC
    BY DEF Range, LC, Payload
  <2> QED
    BY <2>2, <2>3 DEF From
<1> QED
  BY <1>1, <1>2, <1>3 DEF Mute

(* leader_changed *)
LEMMA TMLeaderChanged ==
  ASSUME IndInv, NEW n \in TMNodes, NEW in \in Inputs(n), TMInput(n, in),
         in.item.type = "LeaderChanged", UNCHANGED <<tablet_bundles, reply>>,
         tm_leader_changed(n, in.queues)
  PROVE  IndInv'
<1>0. n \in Nodes /\ Gid(n) = TM
  BY TheirNodes
<1>1. ~Active(n) /\ IsCurrent(n) /\ inbox[n] = <<LC>>
  BY <1>0, LCInput
<1>2. tm[n] = NoTM /\ TMLogInv /\ TMStateInv /\ tm \in [TMNodes -> TMStates]
  BY <1>1 DEF IndInv, ProtocolInv, TMLogInv, TMLog, StateTypes
<1>3. tm[n].st = "None" /\ TMInserting(tm[n].st) = Nothing
  BY <1>2 DEF NoTM, TMState, TMInserting
<1> DEFINE L == log_plms[TM]
<1>4. L \in {<<>>, <<"Prepared">>, <<"Prepared", "Committed">>, <<"Prepared", "Committed", "Closed">>,
             <<"Prepared", "Aborted">>, <<"Prepared", "Aborted", "Closed">>}
  BY <1>2 DEF TMLogInv
<1>5. /\ L = <<>> => TMReplay(L) = "None" /\ ~Asked
      /\ L = <<"Prepared">> => TMReplay(L) = "Preparing" /\ Asked /\ Decision = Nothing
      /\ L = <<"Prepared", "Committed">> => TMReplay(L) = "Committed" /\ Asked
                                            /\ Decision = "Committed" /\ ~IsClosed
      /\ L = <<"Prepared", "Aborted">> => TMReplay(L) = "Aborted" /\ Asked
                                          /\ Decision = "Aborted" /\ ~IsClosed
      /\ L = <<"Prepared", "Committed", "Closed">> => TMReplay(L) = "None" /\ IsClosed
      /\ L = <<"Prepared", "Aborted", "Closed">> => TMReplay(L) = "None" /\ IsClosed
  <2>1. CASE L = <<>>
    BY <2>1 DEF TMReplay, Asked
  <2>2. CASE L = <<"Prepared">>
    <3>1. Range(L) = {"Prepared"} /\ L # <<>> /\ Last(L) = "Prepared"
      BY <2>2 DEF Range, Last
    <3>2. Decision = Nothing
      BY <2>2 DEF Decision
    <3> QED
      BY <2>2, <3>1, <3>2 DEF TMReplay, Asked
  <2>3. CASE L = <<"Prepared", "Committed">>
    <3>1. Range(L) = {"Prepared", "Committed"} /\ L # <<>> /\ Last(L) = "Committed"
      BY <2>3 DEF Range, Last
    <3>2. Decision = "Committed" /\ ~IsClosed
      BY <2>3 DEF Decision, IsClosed
    <3> QED
      BY <2>3, <3>1, <3>2 DEF TMReplay, Asked
  <2>4. CASE L = <<"Prepared", "Aborted">>
    <3>1. Range(L) = {"Prepared", "Aborted"} /\ L # <<>> /\ Last(L) = "Aborted"
      BY <2>4 DEF Range, Last
    <3>2. Decision = "Aborted" /\ ~IsClosed
      BY <2>4 DEF Decision, IsClosed
    <3> QED
      BY <2>4, <3>1, <3>2 DEF TMReplay, Asked
  <2>5. CASE L = <<"Prepared", "Committed", "Closed">>
    <3>1. "Closed" \in Range(L)
      BY <2>5 DEF Range
    <3> QED
      BY <2>5, <3>1 DEF TMReplay, IsClosed
  <2>6. CASE L = <<"Prepared", "Aborted", "Closed">>
    <3>1. "Closed" \in Range(L)
      BY <2>6 DEF Range
    <3> QED
      BY <2>6, <3>1 DEF TMReplay, IsClosed
  <2> QED
    BY <2>1, <2>2, <2>3, <2>4, <2>5, <2>6
<1> HIDE DEF L
<1>6. CASE TMReplay(L) = "None"
  <2>1. ~Asked \/ IsClosed
    BY <1>4, <1>5, <1>6
  <2> PICK es \in TMStates : es = NoTM
    BY DEF TMStates
  <2> PICK plm \in PLms \cup {Nothing} : plm = Nothing
    OBVIOUS
  <2> PICK message \in RMMessage \cup {Nothing} : message = Nothing
    OBVIOUS
  <2>2. TMBecomesSo(n, in, es, plm, {}, message)
    BY <1>2, <1>6 DEF tm_leader_changed, TMBecomesSo, L
  <2>3. /\ tm'[n] = es /\ Active(n)' /\ (IsCurrent(n)' <=> IsCurrent(n))
        /\ (Asked' <=> Asked) /\ Decision' = Decision /\ (IsClosed' <=> IsClosed)
    BY <2>2, TMMovesTo
  <2>4. tm'[n].st = "None" /\ ~Undecided(n)' /\ ~Decided(n)'
    BY <2>3 DEF NoTM, TMState, Undecided, Decided
  <2>5. TMStep(n)
    <3>1. \A r \in RMs : Asked' => Mute(n, r)
      BY <1>1, <2>1, <2>3, NewIsMute
    <3> QED
      BY <2>4, <3>1 DEF TMStep
  <2>6. TMLog(n)'
    <3>1. TMAgrees(n)'
      BY <2>1, <2>3, <2>4 DEF TMAgrees, Counting
    <3>2. TMCurrent(n)'
      BY <2>4 DEF TMCurrent
    <3> QED
      BY <2>3, <3>1, <3>2 DEF TMLog
  <2>7. TMInserting(es.st) = Nothing
    BY <1>2, <1>3
  <2> QED
    BY <1>3, <2>2, <2>5, <2>6, <2>7, TMMoves
<1>7. CASE TMReplay(L) # "None"
  <2>1. PICK st \in Counting : st = TMReplay(L)
    BY <1>4, <1>5, <1>7 DEF Counting
  <2>2. AdvanceTo(n, in.queues, st, FALSE)
    BY <1>7, <2>1 DEF tm_leader_changed, L
  <2>3. /\ Asked
        /\ st = "Preparing" => Decision = Nothing
        /\ st = "Committed" => Decision = "Committed" /\ ~IsClosed
        /\ st = "Aborted" => Decision = "Aborted" /\ ~IsClosed
    BY <1>4, <1>5, <1>7, <2>1
  <2>4. st = "Committed" => \A r \in RMs : PreparedFrom(r, leader_map[n][r])
    <3>1. leader_map[n] = log_leader_map[TM]
      BY <1>0, <1>1 DEF IndInv, NetworkInv, ElectedInv
    <3> QED
      BY <1>2, <2>3, <3>1 DEF TMStateInv
  <2>5. reply # "cancelled" /\ reply' = reply
    BY <2>3 DEF IndInv, ReplyInv
  <2> QED
    BY <1>1, <1>3, <2>2, <2>3, <2>4, <2>5, TMAdvance DEF Counting
<1> QED
  BY <1>6, <1>7

(* The states of a leader of the TM. *)
LEMMA TMStateFacts ==
  ASSUME IndInv, NEW n \in TMNodes
  PROVE  /\ tm[n].response_data \in BOOLEAN
         /\ tm[n].rms_remaining \subseteq RMs
         /\ tm[n].st \in Counting => tm[n].rms_remaining # {}
         /\ tm[n].rms_remaining # {} => tm[n].st \in Counting
         /\ tm[n].st \in Counting \cup Uncounted \cup {"None"}
         /\ tm[n].st # "None" => tm[n] # NoTM
         /\ tm' = tm => tm' = [tm EXCEPT ![n] = tm[n]]
         /\ tm[n] \in [st : Counting \cup Uncounted \cup {"None"}, rms_remaining : SUBSET RMs,
                       response_data : BOOLEAN]
<1>1. tm[n] \in TMStates /\ tm \in [TMNodes -> TMStates]
  BY DEF IndInv, StateTypes
<1>2. CASE tm[n] = NoTM
  BY <1>1, <1>2 DEF NoTM, TMState, Counting
<1>3. CASE tm[n] \in [st : Uncounted, rms_remaining : {{}}, response_data : BOOLEAN]
  BY <1>1, <1>3 DEF Counting, Uncounted, NoTM, TMState
<1>4. CASE tm[n] \in [st : Counting, rms_remaining : (SUBSET RMs) \ {{}}, response_data : BOOLEAN]
  BY <1>1, <1>4 DEF Counting, NoTM, TMState
<1> QED
  BY <1>1, <1>2, <1>3, <1>4 DEF TMStates

(* remote_leader_changed *)
LEMMA TMRemoteLeaderChanged ==
  ASSUME IndInv, NEW n \in TMNodes, NEW in \in Inputs(n), TMInput(n, in),
         in.item.type = "RemoteLeaderChanged", UNCHANGED <<tm, tablet_bundles, reply>>,
         chan' = in.queues \/ tm_remote_leader_changed(n, in.queues, in.item.gid)
  PROVE  IndInv'
<1>1. tm' = [tm EXCEPT ![n] = tm[n]] /\ tablet_bundles' = tablet_bundles /\ reply' = reply
  BY TMStateFacts
<1>2. CASE chan' = in.queues
  <2> PICK message \in RMMessage \cup {Nothing} : message = Nothing
    OBVIOUS
  <2>1. TMBecomesSo(n, in, tm[n], Nothing, {}, message)
    BY <1>1, <1>2 DEF TMBecomesSo
  <2> QED
    BY <1>1, <2>1, TMStays
<1>3. CASE /\ in.item.gid \in tm[n].rms_remaining
           /\ chan' = Outgoing(n, in.queues, ToRMs({in.item.gid}, Broadcast(tm[n].st)))
  <2>1. tm[n].st \in Counting
    BY <1>3, TMStateFacts
  <2> PICK message \in RMMessage \cup {Nothing} : message = Broadcast(tm[n].st) /\ message # Nothing
    BY <2>1 DEF Counting, Broadcast, RMMessage, Nothing
  <2>2. TMBecomesSo(n, in, tm[n], Nothing, {in.item.gid}, message)
    BY <1>1, <1>3 DEF TMBecomesSo
  <2> QED
    BY <1>1, <2>1, <2>2, TMStays
<1> QED
  BY <1>2, <1>3 DEF tm_remote_leader_changed

(* handle_plm *)
LEMMA TMPLm ==
  ASSUME IndInv, NEW n \in TMNodes, NEW in \in Inputs(n), TMInput(n, in),
         in.item.type = "PLm", UNCHANGED tablet_bundles,
         handle_tm_plm(n, in.queues, in.item.plm)
  PROVE  IndInv'
<1>0. n \in Nodes
  BY TheirNodes
<1>1. Active(n) /\ Stored(n)
  BY <1>0, LCInput, PLmInput
<1>2. TMAgrees(n) /\ (IsCurrent(n) => TMCurrent(n)) /\ TMStateInv
  BY <1>1 DEF IndInv, TMLogInv, TMLog, ProtocolInv
<1>3. tm[n].st # "None" => reply # "cancelled"
  BY TMStateFacts DEF IndInv, ReplyInv
<1> PICK st : st = tm[n].st
  OBVIOUS
<1>4. CASE /\ st = "InsertTMPreparing" /\ reply' = reply
           /\ AdvanceTo(n, in.queues, "Preparing", tm[n].response_data)
  <2>1. "Preparing" \in Counting /\ tm[n].response_data \in BOOLEAN
    BY TMStateFacts DEF Counting
  <2>2. Undecided(n) /\ Asked
    BY <1>1, <1>2, <1>4 DEF Undecided, TMAgrees
  <2>3. IsCurrent(n) => Decision = Nothing
    BY <1>2, <2>2 DEF TMCurrent
  <2> QED
    BY <1>3, <1>4, <2>1, <2>2, <2>3, TMAdvance
<1>5. CASE /\ st = "InsertingTMCommitted" /\ AdvanceTo(n, in.queues, "Committed", FALSE)
           /\ reply' = IF tm[n].response_data THEN "success" ELSE reply
  <2>1. "Committed" \in Counting /\ FALSE \in BOOLEAN
    BY DEF Counting
  <2>2. Decided(n) /\ Decision = "Committed" /\ \A r \in RMs : PreparedFrom(r, leader_map[n][r])
    BY <1>1, <1>2, <1>5 DEF Decided, TMAgrees, TMStateInv
  <2>3. IsCurrent(n) => ~IsClosed
    BY <1>2, <1>5, <2>2 DEF TMCurrent
  <2> QED
    BY <1>3, <1>5, <2>1, <2>2, <2>3, TMAdvance
<1>6. CASE /\ st = "InsertingTMAborted" /\ AdvanceTo(n, in.queues, "Aborted", FALSE)
           /\ reply' = IF tm[n].response_data THEN "aborted" ELSE reply
  <2>1. "Aborted" \in Counting /\ FALSE \in BOOLEAN
    BY DEF Counting
  <2>2. Decided(n) /\ Decision = "Aborted"
    BY <1>1, <1>2, <1>6 DEF Decided, TMAgrees
  <2>3. IsCurrent(n) => ~IsClosed
    BY <1>2, <1>6, <2>2 DEF TMCurrent
  <2> QED
    BY <1>3, <1>6, <2>1, <2>2, <2>3, TMAdvance
<1>7. CASE /\ st = "InsertingTMClosed" /\ tm' = [tm EXCEPT ![n] = NoTM]
           /\ chan' = in.queues /\ reply' = reply
  <2> PICK es \in TMStates : es = NoTM
    BY DEF TMStates
  <2> PICK plm \in PLms \cup {Nothing} : plm = Nothing
    OBVIOUS
  <2> PICK message \in RMMessage \cup {Nothing} : message = Nothing
    OBVIOUS
  <2>1. TMBecomesSo(n, in, es, plm, {}, message)
    BY <1>7 DEF TMBecomesSo
  <2>2. /\ tm'[n] = es /\ Active(n)'
        /\ (Asked' <=> Asked) /\ Decision' = Decision /\ (IsClosed' <=> IsClosed)
    BY <2>1, TMMovesTo
  <2>3. tm'[n].st = "None" /\ ~Undecided(n)' /\ ~Decided(n)'
    BY <2>2 DEF NoTM, TMState, Undecided, Decided
  <2>4. TMStep(n)
    <3>1. \A r \in RMs : Mute(n, r)
      BY <1>2, <1>7 DEF TMStateInv
    <3> QED
      BY <2>3, <3>1 DEF TMStep
  <2>5. TMLog(n)'
    <3>1. IsClosed
      BY <1>1, <1>2, <1>7 DEF TMAgrees
    <3>2. TMAgrees(n)'
      BY <2>2, <2>3, <3>1 DEF TMAgrees, Counting
    <3>3. TMCurrent(n)'
      BY <2>3 DEF TMCurrent
    <3> QED
      BY <2>2, <3>2, <3>3 DEF TMLog
  <2>6. TMInserting(es.st) = Nothing
    BY DEF TMInserting, NoTM, TMState
  <2> QED
    BY <1>7, <2>1, <2>4, <2>5, <2>6, TMMoves
<1> QED
  BY <1>4, <1>5, <1>6, <1>7 DEF handle_tm_plm, TMBecomes

(* What a message says to the leader n of the TM. *)
LEMMA TMMessageFacts ==
  ASSUME IndInv, NEW n \in TMNodes, NEW in \in Inputs(n), in.item.type = "Payload"
  PROVE  LET p == in.item.payload
             r == in.item.from
         IN /\ Active(n) /\ r \in RMs
            /\ p = "Prepared" => PreparedFrom(r, leader_map[n][r])
            /\ p = "Closed" => Mute(n, r)
            /\ p \in {"Prepared", "Aborted"} => tm[n] # NoTM
<1>0. n \in Nodes /\ n \notin RMNodes
  BY NodeKinds
<1>1. NetworkInv /\ FifoInv /\ TMMessageInv /\ TMStateInv /\ NetInv(Messages, PLms)
  BY DEF IndInv, ProtocolInv, NetworkInv
<1>2. Active(n)
  BY <1>0, LCInput
<1>3. PICK s \in Nodes : s = <<in.item.from, leader_map[n][in.item.from]>>
  BY <1>0, <1>1, InputFrom
<1>4. /\ <<s, n>> \in Linked
      /\ From(s, n, in.item.payload)
      /\ in.item.payload \in Ends => \A q \in Asks : ~From(s, n, q)
  BY <1>0, <1>1, <1>3, InputFrom
<1>5. s \in RMNodes
  <2>1. <<s, n>>[1] = s /\ <<s, n>>[2] = n
    OBVIOUS
  <2> QED
    BY <1>0, <1>4, <2>1, LinkedKinds
<1>6. Gid(s) = in.item.from /\ Gen(s) = leader_map[n][in.item.from]
  BY <1>3 DEF Gid, Gen
<1>7. Gid(s) \in RMs /\ Gen(s) \in Gens /\ Gen(s) \in Nat
  BY <1>5, TheirNodes
<1>8. in.item.payload = "Prepared" => PreparedFrom(Gid(s), Gen(s))
  BY <1>1, <1>4, <1>5 DEF TMMessageInv
<1>9. in.item.payload = "Closed" => Mute(n, Gid(s))
  <2> SUFFICES ASSUME in.item.payload = "Closed" PROVE Mute(n, Gid(s))
    OBVIOUS
  <2>1. Over(Gid(s), Gen(s))
    BY <1>1, <1>4, <1>5 DEF TMMessageInv
  <2>2. ASSUME NEW m \in RMNodes, Gid(m) = Gid(s), Gen(m) >= Gen(s)
        PROVE  ~From(m, n, "Prepared") /\ ~From(m, n, "Aborted")
    <3>1. Gen(m) \in Nat /\ m \in Nodes
      BY TheirNodes
    <3>2. CASE Gen(m) = Gen(s)
      <4>1. m = s
        BY <2>2, <3>1, <3>2, TheirNodes
      <4> QED
        BY <1>4, <4>1 DEF Ends, Asks
    <3>3. CASE Gen(m) > Gen(s)
      BY <2>1, <2>2, <3>3 DEF Over, Settled, Unasked
    <3> QED
      BY <1>7, <2>2, <3>1, <3>2, <3>3
  <2>3. Gen(s) =< leader_map[n][Gid(s)]
    BY <1>6, <1>7
  <2> QED
    BY <1>7, <2>1, <2>2, <2>3 DEF Mute
<1>10. in.item.payload \in {"Prepared", "Aborted"} => tm[n] # NoTM
  <2> SUFFICES ASSUME in.item.payload \in {"Prepared", "Aborted"}, tm[n] = NoTM PROVE FALSE
    OBVIOUS
  <2>1. Asked
    BY <1>1, <1>4, <1>5 DEF TMMessageInv
  <2>2. Mute(n, Gid(s))
    BY <1>1, <1>2, <1>7, <2>1 DEF TMStateInv
  <2>3. PICK k \in Gens : /\ k =< leader_map[n][Gid(s)]
                          /\ \A m \in RMNodes : Gid(m) = Gid(s) /\ Gen(m) >= k =>
                               ~From(m, n, "Prepared") /\ ~From(m, n, "Aborted")
    BY <2>2 DEF Mute
  <2>4. Gen(s) >= k
    BY <1>6, <1>7, <2>3, GensNat
  <2> QED
    BY <1>4, <1>5, <2>3, <2>4
<1> QED
  BY <1>2, <1>6, <1>7, <1>8, <1>9, <1>10

(* All answers that were waited for are there: plm is inserted next. *)
LEMMA TMPushesNext ==
  ASSUME IndInv, NEW n \in TMNodes, NEW in \in Inputs(n), TMInput(n, in),
         in.item.type = "Payload", UNCHANGED reply, chan' = in.queues,
         NEW plm \in PLms, NEW st,
         TMPushes(n, plm),
         TMBecomes(n, [tm[n] EXCEPT !.st = st, !.rms_remaining = {}]),
         \/ /\ tm[n].st = "Preparing"
            /\ \/ /\ plm = "Committed" /\ st = "InsertingTMCommitted"
                  /\ \A r \in RMs : PreparedFrom(r, leader_map[n][r])
               \/ plm = "Aborted" /\ st = "InsertingTMAborted"
         \/ /\ tm[n].st \in {"Committed", "Aborted"}
            /\ plm = "Closed" /\ st = "InsertingTMClosed"
            /\ \A r \in RMs : Mute(n, r)
  PROVE  IndInv'
<1>1. /\ tm[n] \in [st : Counting \cup Uncounted \cup {"None"}, rms_remaining : SUBSET RMs,
                    response_data : BOOLEAN]
      /\ tm[n].st # "None" => tm[n] # NoTM
  BY TMStateFacts
<1>2. st \in Uncounted
  BY DEF Uncounted
<1>3. PICK es \in TMStates : es = [tm[n] EXCEPT !.st = st, !.rms_remaining = {}]
  <2>1. [tm[n] EXCEPT !.st = st, !.rms_remaining = {}]
          \in [st : Uncounted, rms_remaining : {{}}, response_data : BOOLEAN]
    BY <1>1, <1>2
  <2> QED
    BY <2>1 DEF TMStates
<1>4. es.st = st /\ es # NoTM
  BY <1>1, <1>2, <1>3 DEF Uncounted, NoTM, TMState
<1>5. plm \in PLms \cup {Nothing} /\ plm # Nothing
  BY DEF PLms, Nothing
<1> PICK message \in RMMessage \cup {Nothing} : message = Nothing
  OBVIOUS
<1>6. TMBecomesSo(n, in, es, plm, {}, message)
  BY <1>3, <1>5 DEF TMBecomesSo, TMPushes, TMBecomes
<1>7. /\ tm'[n] = es /\ Active(n)' /\ (IsCurrent(n)' <=> IsCurrent(n)) /\ ~Stored(n)'
      /\ (Asked' <=> Asked) /\ Decision' = Decision /\ (IsClosed' <=> IsClosed)
      /\ \A g \in Groups, k \in Gens : Within(n, g, k) => Within(n, g, k)'
  BY <1>5, <1>6, TMMovesTo
<1>8. Active(n)
  BY TMMessageFacts
<1>9. TMAgrees(n) /\ (IsCurrent(n) => TMCurrent(n))
  BY <1>8 DEF IndInv, TMLogInv, TMLog
<1>10. /\ st # "InsertingTMClosed" => Undecided(n) /\ Undecided(n)' /\ ~Decided(n)' /\ Asked
       /\ st = "InsertingTMClosed" => Decided(n) /\ ~Undecided(n)' /\ Decision # Nothing /\ Asked
  BY <1>4, <1>7, <1>9 DEF Undecided, Decided, TMAgrees, Counting, Nothing
<1>11. TMStep(n)
  <2>1. Decision # Nothing /\ Undecided(n)' =>
          Undecided(n) /\ \A g \in Groups, k \in Gens : Within(n, g, k) => Within(n, g, k)'
    BY <1>7, <1>10
  <2>2. Decided(n)' => Decided(n) \/ IsCurrent(n)'
    BY <1>10
  <2>3. ASSUME NEW r \in RMs
        PROVE  /\ tm'[n].st = "Preparing" /\ r \notin tm'[n].rms_remaining => PreparedFrom(r, leader_map[n][r])
               /\ tm'[n].st \in {"InsertingTMCommitted", "Committed"} => PreparedFrom(r, leader_map[n][r])
               /\ tm'[n].st \in {"Committed", "Aborted"} /\ r \notin tm'[n].rms_remaining => Mute(n, r)
               /\ tm'[n].st = "InsertingTMClosed" => Mute(n, r)
               /\ Active(n)' /\ tm'[n] = NoTM /\ Asked' => Mute(n, r)
    BY <1>4, <1>7, <2>3
  <2> QED
    BY <2>1, <2>2, <2>3 DEF TMStep
<1>12. TMLog(n)'
  <2>1. TMAgrees(n)'
    BY <1>4, <1>7, <1>10 DEF TMAgrees, Counting
  <2>2. IsCurrent(n)' => TMCurrent(n)'
    BY <1>4, <1>7, <1>9, <1>10 DEF TMCurrent
  <2> QED
    BY <1>7, <2>1, <2>2 DEF TMLog
<1>13. TMInserting(tm[n].st) = Nothing /\ plm = TMInserting(es.st)
  BY <1>4 DEF TMInserting
<1>14. reply # "cancelled"
  BY <1>1 DEF IndInv, ReplyInv
<1> QED
  BY <1>5, <1>6, <1>11, <1>12, <1>13, <1>14, TMMoves

(* The answer of r is there, and others are still waited for. *)
LEMMA TMTakesOff ==
  ASSUME IndInv, NEW n \in TMNodes, NEW in \in Inputs(n), TMInput(n, in),
         in.item.type = "Payload", UNCHANGED <<reply, tablet_bundles>>, chan' = in.queues,
         NEW r \in RMs, tm[n].rms_remaining # {r}, tm[n].st \in Counting,
         TMBecomes(n, [tm[n] EXCEPT !.rms_remaining = @ \ {r}]),
         tm[n].st = "Preparing" => PreparedFrom(r, leader_map[n][r]),
         tm[n].st # "Preparing" => Mute(n, r)
  PROVE  IndInv'
<1>1. /\ tm[n] \in [st : Counting \cup Uncounted \cup {"None"}, rms_remaining : SUBSET RMs,
                    response_data : BOOLEAN]
      /\ tm[n].st # "None" => tm[n] # NoTM
      /\ tm[n].rms_remaining # {}
  BY TMStateFacts
<1>2. PICK es \in TMStates : es = [tm[n] EXCEPT !.rms_remaining = tm[n].rms_remaining \ {r}]
  <2>1. tm[n].rms_remaining \ {r} \in (SUBSET RMs) \ {{}}
    BY <1>1
  <2>2. [tm[n] EXCEPT !.rms_remaining = tm[n].rms_remaining \ {r}]
          \in [st : Counting, rms_remaining : (SUBSET RMs) \ {{}}, response_data : BOOLEAN]
    BY <1>1, <2>1
  <2> QED
    BY <2>2 DEF TMStates
<1>3. es.st = tm[n].st /\ es.rms_remaining = tm[n].rms_remaining \ {r} /\ es # NoTM
  BY <1>1, <1>2 DEF NoTM, TMState, Counting
<1> PICK plm \in PLms \cup {Nothing} : plm = Nothing
  OBVIOUS
<1> PICK message \in RMMessage \cup {Nothing} : message = Nothing
  OBVIOUS
<1>4. TMBecomesSo(n, in, es, plm, {}, message)
  BY <1>2 DEF TMBecomesSo, TMBecomes
<1>5. /\ tm'[n] = es /\ Active(n)' /\ (IsCurrent(n)' <=> IsCurrent(n))
      /\ (Asked' <=> Asked) /\ Decision' = Decision /\ (IsClosed' <=> IsClosed)
      /\ \A g \in Groups, k \in Gens : Within(n, g, k) => Within(n, g, k)'
  BY <1>4, TMMovesTo
<1>6. Active(n)
  BY TMMessageFacts
<1>7. TMAgrees(n) /\ (IsCurrent(n) => TMCurrent(n)) /\ TMStateInv
  BY <1>6 DEF IndInv, TMLogInv, TMLog, ProtocolInv
<1>8. (Undecided(n)' <=> Undecided(n)) /\ (Decided(n)' <=> Decided(n))
  BY <1>3, <1>5 DEF Undecided, Decided, Counting
<1>9. TMStep(n)
  <2>1. Decision # Nothing /\ Undecided(n)' =>
          Undecided(n) /\ \A g \in Groups, k \in Gens : Within(n, g, k) => Within(n, g, k)'
    BY <1>5, <1>8
  <2>2. Decided(n)' => Decided(n) \/ IsCurrent(n)'
    BY <1>8
  <2>3. ASSUME NEW s \in RMs
        PROVE  /\ tm'[n].st = "Preparing" /\ s \notin tm'[n].rms_remaining => PreparedFrom(s, leader_map[n][s])
               /\ tm'[n].st \in {"InsertingTMCommitted", "Committed"} => PreparedFrom(s, leader_map[n][s])
               /\ tm'[n].st \in {"Committed", "Aborted"} /\ s \notin tm'[n].rms_remaining => Mute(n, s)
               /\ tm'[n].st = "InsertingTMClosed" => Mute(n, s)
               /\ Active(n)' /\ tm'[n] = NoTM /\ Asked' => Mute(n, s)
    <3>1. CASE s = r
      BY <1>3, <1>5, <1>7, <3>1 DEF TMStateInv, Counting
    <3>2. CASE s # r
      BY <1>3, <1>5, <1>7, <3>2 DEF TMStateInv, Counting
    <3> QED
      BY <3>1, <3>2
  <2> QED
    BY <2>1, <2>2, <2>3 DEF TMStep
<1>10. TMLog(n)'
  <2>1. TMAgrees(n)'
    BY <1>3, <1>5, <1>7 DEF TMAgrees, Counting
  <2>2. IsCurrent(n)' => TMCurrent(n)'
    BY <1>3, <1>5, <1>7, <1>8 DEF TMCurrent, Counting
  <2> QED
    BY <1>5, <2>1, <2>2 DEF TMLog
<1>11. reply # "cancelled"
  BY <1>1 DEF IndInv, ReplyInv, Counting
<1>12. TMInserting(es.st) = TMInserting(tm[n].st)
  BY <1>3
<1> QED
  BY <1>4, <1>9, <1>10, <1>11, <1>12, TMMoves

(* handle_prepared, handle_aborted and handle_closed *)
LEMMA TMMsg ==
  ASSUME IndInv, NEW n \in TMNodes, NEW in \in Inputs(n), TMInput(n, in),
         in.item.type = "Payload", UNCHANGED reply, chan' = in.queues,
         handle_tm_msg(n, in.item.from, in.item.payload)
  PROVE  IndInv'
<1>1. /\ in.item.from \in RMs
      /\ in.item.payload = "Prepared" =>
           PreparedFrom(in.item.from, leader_map[n][in.item.from])
      /\ in.item.payload = "Closed" => Mute(n, in.item.from)
  BY TMMessageFacts
<1> PICK r \in RMs : r = in.item.from
  BY <1>1
<1>2. TMStateInv /\ tm[n].rms_remaining \subseteq RMs
  BY TMStateFacts DEF IndInv, ProtocolInv
<1>3. CASE TMUnchanged
  <2> PICK message \in RMMessage \cup {Nothing} : message = Nothing
    OBVIOUS
  <2>1. tm' = [tm EXCEPT ![n] = tm[n]] /\ tablet_bundles' = tablet_bundles
    BY <1>3, TMStateFacts DEF TMUnchanged
  <2>2. TMBecomesSo(n, in, tm[n], Nothing, {}, message)
    BY <2>1 DEF TMBecomesSo
  <2> QED
    BY <2>2, TMStays
<1>4. CASE /\ in.item.payload = "Prepared" /\ tm[n].st = "Preparing"
           /\ TakeOff(n, r, "Committed", "InsertingTMCommitted")
  <2>1. CASE tm[n].rms_remaining = {r}
    <3>1. \A s \in RMs : PreparedFrom(s, leader_map[n][s])
      BY <1>1, <1>2, <1>4, <2>1 DEF TMStateInv
    <3>2. /\ TMPushes(n, "Committed")
          /\ TMBecomes(n, [tm[n] EXCEPT !.st = "InsertingTMCommitted", !.rms_remaining = {}])
      BY <1>4, <2>1 DEF TakeOff
    <3>3. "Committed" \in PLms
      BY DEF PLms
    <3> QED
      BY <1>4, <3>1, <3>2, <3>3, TMPushesNext
  <2>2. CASE tm[n].rms_remaining # {r}
    <3>1. TMBecomes(n, [tm[n] EXCEPT !.rms_remaining = @ \ {r}]) /\ UNCHANGED tablet_bundles
      BY <1>4, <2>2 DEF TakeOff
    <3> QED
      BY <1>1, <1>4, <2>2, <3>1, TMTakesOff DEF Counting
  <2> QED
    BY <2>1, <2>2
<1>5. CASE /\ in.item.payload = "Aborted" /\ tm[n].st = "Preparing"
           /\ TMPushes(n, "Aborted")
           /\ TMBecomes(n, [tm[n] EXCEPT !.st = "InsertingTMAborted", !.rms_remaining = {}])
  <2>1. "Aborted" \in PLms
    BY DEF PLms
  <2> QED
    BY <1>5, <2>1, TMPushesNext
<1>6. CASE /\ in.item.payload = "Closed" /\ tm[n].st \in {"Committed", "Aborted"}
           /\ TakeOff(n, r, "Closed", "InsertingTMClosed")
  <2>1. CASE tm[n].rms_remaining = {r}
    <3>1. \A s \in RMs : Mute(n, s)
      BY <1>1, <1>2, <1>6, <2>1 DEF TMStateInv
    <3>2. /\ TMPushes(n, "Closed")
          /\ TMBecomes(n, [tm[n] EXCEPT !.st = "InsertingTMClosed", !.rms_remaining = {}])
      BY <1>6, <2>1 DEF TakeOff
    <3>3. "Closed" \in PLms
      BY DEF PLms
    <3> QED
      BY <1>6, <3>1, <3>2, <3>3, TMPushesNext
  <2>2. CASE tm[n].rms_remaining # {r}
    <3>1. TMBecomes(n, [tm[n] EXCEPT !.rms_remaining = @ \ {r}]) /\ UNCHANGED tablet_bundles
      BY <1>6, <2>2 DEF TakeOff
    <3> QED
      BY <1>1, <1>6, <2>2, <3>1, TMTakesOff DEF Counting
  <2> QED
    BY <2>1, <2>2
<1> QED
  BY <1>3, <1>4, <1>5, <1>6 DEF handle_tm_msg

(* The inputs of a leader of the TM. *)
LEMMA TMInputStep ==
  ASSUME IndInv, NEW n \in TMNodes, HandleTMInput(n)
  PROVE  IndInv'
<1>1. PICK in \in Inputs(n) :
        /\ inbox' = [inbox EXCEPT ![n] = in.rest]
        /\ \/ /\ in.item.type = "LeaderChanged"
              /\ UNCHANGED <<leader_map, tablet_bundles, reply>>
              /\ tm_leader_changed(n, in.queues)
           \/ /\ in.item.type = "RemoteLeaderChanged"
              /\ leader_map' = [leader_map EXCEPT ![n] = RemoteLeaderChanged(@, in.item)]
              /\ IF leader_map' # leader_map
                 THEN tm_remote_leader_changed(n, in.queues, in.item.gid)
                 ELSE chan' = in.queues
              /\ UNCHANGED <<tm, tablet_bundles, reply>>
           \/ /\ in.item.type = "PLm"
              /\ UNCHANGED <<leader_map, tablet_bundles>>
              /\ handle_tm_plm(n, in.queues, in.item.plm)
           \/ /\ in.item.type = "Payload"
              /\ handle_tm_msg(n, in.item.from, in.item.payload)
              /\ chan' = in.queues
              /\ UNCHANGED <<leader_map, reply>>
        /\ UNCHANGED <<logVars, status, remote_leader_changes, tablet_bundle, next_insert,
                       network_buffer, rm>>
  BY DEF HandleTMInput
<1>2. TMInput(n, in)
  BY <1>1 DEF TMInput
<1>3. CASE /\ in.item.type = "LeaderChanged"
           /\ UNCHANGED <<leader_map, tablet_bundles, reply>>
           /\ tm_leader_changed(n, in.queues)
  BY <1>2, <1>3, TMLeaderChanged
<1>4. CASE /\ in.item.type = "RemoteLeaderChanged"
           /\ UNCHANGED <<tm, tablet_bundles, reply>>
           /\ chan' = in.queues \/ tm_remote_leader_changed(n, in.queues, in.item.gid)
  BY <1>2, <1>4, TMRemoteLeaderChanged
<1>5. CASE /\ in.item.type = "PLm"
           /\ UNCHANGED <<leader_map, tablet_bundles>>
           /\ handle_tm_plm(n, in.queues, in.item.plm)
  BY <1>2, <1>5, TMPLm
<1>6. CASE /\ in.item.type = "Payload"
           /\ handle_tm_msg(n, in.item.from, in.item.payload)
           /\ chan' = in.queues
           /\ UNCHANGED <<leader_map, reply>>
  BY <1>2, <1>6, TMMsg
<1> QED
  BY <1>1, <1>3, <1>4, <1>5, <1>6
-----------------------------------------------------------------------------
(* The steps that a node takes of its own accord *)

(* Nothing happens in the network. *)
LEMMA StillNetwork ==
  ASSUME IndInv, UNCHANGED netVars
  PROVE  NetworkInv' /\ NoneAdded /\ FifoInv'
<1>1. NetworkInv /\ FifoInv /\ NetInv(Messages, PLms)
  BY DEF IndInv, NetworkInv
<1>2. UNCHANGED <<log_gen, log_leader_map, log_plms, status, leader_map, remote_leader_changes,
                  tablet_bundle, tablet_bundles, next_insert, network_buffer, chan, inbox>>
  BY DEF netVars, logVars, bundleVars
<1>3. chan' \in [Linked -> Seq(Messages)]
  BY <1>1, <1>2, TypeFacts
<1>4. NetInv(Messages, PLms)'
  BY <1>1, <1>2, <1>3, SendNet DEF logVars, bundleVars
<1>5. NetworkInv'
  BY <1>1, <1>2, <1>4, LocalNetwork
<1> QED
  BY <1>1, <1>2, <1>5, FromSame

(* Only the state of the leader n changes, and what it gathers. *)
LEMMA LocalAlone ==
  ASSUME IndInv, NEW n \in Nodes, status[n] = "leader", inbox[n] # <<LC>>,
         UNCHANGED <<log_gen, log_leader_map, status, leader_map, next_insert, inbox>>,
         \A x \in Nodes : x # n => UNCHANGED <<tablet_bundle[x], tablet_bundles[x]>>,
         \A t \in TMNodes : t # n => tm'[t] = tm[t],
         \A m \in RMNodes : m # n => rm'[m] = rm[m]
  PROVE  Alone(n)
<1>1. NetInv(Messages, PLms)
  BY DEF IndInv, NetworkInv
<1>2. /\ \A g \in Groups : leader_map[n][g] \in Nat
      /\ \A g, h \in Groups : log_leader_map[g][h] \in Nat
  BY <1>1, TypeFacts
<1>3. /\ leader_map' = leader_map /\ log_leader_map' = log_leader_map /\ log_gen' = log_gen
      /\ status' = status /\ next_insert' = next_insert /\ inbox' = inbox
  OBVIOUS
<1> QED
  BY <1>2, <1>3 DEF Alone

(* Start *)
LEMMA StartStep ==
  ASSUME IndInv, NEW n \in TMNodes, Start(n)
  PROVE  IndInv'
<1>0. n \in Nodes /\ n \notin RMNodes /\ \A m \in RMNodes : m # n
  BY NodeKinds
<1>1. /\ status[n] = "leader" /\ reply = "none" /\ reply' = "waiting"
      /\ tm' = [tm EXCEPT ![n] = TMState("WaitingInsertTMPrepared", {}, TRUE)]
      /\ UNCHANGED netVars /\ rm' = rm
  BY DEF Start, TMBecomes
<1>2. /\ NetInit /\ inbox[n] = <<>> /\ tm[n] = NoTM /\ \A t \in TMNodes : tm[t] = NoTM
  BY <1>0, <1>1, Started
<1>3. UNCHANGED <<log_gen, log_leader_map, log_plms, status, leader_map, remote_leader_changes,
                  tablet_bundle, tablet_bundles, next_insert, network_buffer, chan, inbox>>
  BY <1>1 DEF netVars, logVars, bundleVars
<1>4. NetworkInv' /\ NoneAdded /\ FifoInv'
  BY <1>1, StillNetwork
<1>5. StateTypes /\ Pipeline(n) /\ NetworkInv
  BY <1>0 DEF IndInv, PipelineInv
<1>6. PICK es \in TMStates : es = TMState("WaitingInsertTMPrepared", {}, TRUE)
  BY DEF TMStates, TMState, Uncounted
<1>7. es.st = "WaitingInsertTMPrepared"
  BY <1>6 DEF TMState
<1>8. tm' \in [TMNodes -> TMStates] /\ tm'[n] = es /\ \A t \in TMNodes : t # n => tm'[t] = tm[t]
  BY <1>1, <1>5, <1>6 DEF StateTypes
<1>9. Alone(n)
  <2>1. <<>> # <<LC>>
    OBVIOUS
  <2> QED
    BY <1>0, <1>1, <1>2, <1>3, <1>8, <2>1, LocalAlone
<1>10. StateTypes'
  BY <1>1, <1>4, <1>5, <1>8 DEF StateTypes, NoneAdded
<1>11. Pipeline(n)'
  <2>1. Waits(n)' = Waits(n)
    BY <1>2, <1>7, <1>8 DEF Waits, TMInserting, NoTM, TMState
  <2> QED
    BY <1>3, <1>5, <2>1, PipelineSame
<1>12. ~Asked /\ Decision = Nothing /\ ~Asked' /\ Decision' = Nothing /\ Gen(n) = 0
  <2>1. log_plms[TM] = <<>>
    BY <1>2, NodeKinds DEF NetInit
  <2>2. log_plms'[TM] = <<>>
    BY <1>3, <2>1
  <2>3. Gen(n) = 0
    BY <1>0, <1>1, <1>2 DEF NetInit
  <2> QED
    BY <2>1, <2>2, <2>3 DEF Asked, Decision
<1>13. Active(n)'
  BY <1>0, <1>9, AloneOthers
<1>14. TMStep(n)
  BY <1>7, <1>8, <1>12 DEF TMStep, Undecided, Decided, NoTM, TMState
<1>15. TMLog(n)'
  <2>1. TMAgrees(n)'
    BY <1>7, <1>8, <1>12 DEF TMAgrees, Counting
  <2>2. TMCurrent(n)'
    BY <1>7, <1>8, <1>12 DEF TMCurrent, Decided
  <2> QED
    BY <1>13, <2>1, <2>2 DEF TMLog
<1>16. ReplyInv'
  BY <1>1 DEF ReplyInv
<1>17. \A t \in TMNodes, m \in RMNodes : MessageStep(t, m)
  BY <1>4, MessageNone
<1> QED
  BY <1>0, <1>3, <1>4, <1>9, <1>10, <1>11, <1>14, <1>15, <1>16, <1>17, AloneAssemble

(* CancelExternalDDLQuery *)
LEMMA CancelStep ==
  ASSUME IndInv, NEW n \in TMNodes, CancelExternalDDLQuery(n)
  PROVE  IndInv'
<1>0. n \in Nodes /\ n \notin RMNodes /\ \A m \in RMNodes : m # n
  BY NodeKinds
<1>1. /\ status[n] = "leader" /\ tm[n].st = "WaitingInsertTMPrepared" /\ reply' = "cancelled"
      /\ tm' = [tm EXCEPT ![n] = NoTM]
      /\ UNCHANGED netVars /\ rm' = rm
  BY DEF CancelExternalDDLQuery, Cancels, TMBecomes
<1>2. Active(n) /\ TMAgrees(n)
  BY <1>1, TMLeads DEF IndInv
<1>3. UNCHANGED <<log_gen, log_leader_map, log_plms, status, leader_map, remote_leader_changes,
                  tablet_bundle, tablet_bundles, next_insert, network_buffer, chan, inbox>>
  BY <1>1 DEF netVars, logVars, bundleVars
<1>4. NetworkInv' /\ NoneAdded /\ FifoInv'
  BY <1>1, StillNetwork
<1>5. StateTypes /\ Pipeline(n) /\ TMLogInv
  BY <1>0 DEF IndInv, PipelineInv
<1>6. NoTM \in TMStates /\ NoTM.st = "None"
  BY DEF TMStates, NoTM, TMState
<1>7. tm' \in [TMNodes -> TMStates] /\ tm'[n] = NoTM /\ \A t \in TMNodes : t # n => tm'[t] = tm[t]
  BY <1>1, <1>5, <1>6 DEF StateTypes
<1>8. ~Asked /\ ~Asked' /\ Gen(n) = 0
  <2>1. ~Asked /\ Gen(n) = 0
    BY <1>1, <1>2 DEF TMAgrees
  <2> QED
    BY <1>3, <2>1 DEF Asked
<1>9. Alone(n)
  BY <1>0, <1>1, <1>2, <1>3, <1>7, LocalAlone DEF Active
<1>10. StateTypes'
  BY <1>1, <1>4, <1>5, <1>7 DEF StateTypes, NoneAdded
<1>11. Pipeline(n)'
  <2>1. Waits(n)' = Waits(n)
    BY <1>1, <1>6, <1>7 DEF Waits, TMInserting
  <2> QED
    BY <1>3, <1>5, <2>1, PipelineSame
<1>12. Active(n)'
  BY <1>0, <1>9, AloneOthers
<1>13. TMStep(n)
  BY <1>6, <1>7, <1>8 DEF TMStep, Undecided, Decided
<1>14. TMLog(n)'
  <2>1. TMAgrees(n)'
    BY <1>6, <1>7, <1>8 DEF TMAgrees, Counting
  <2>2. TMCurrent(n)'
    BY <1>6, <1>7 DEF TMCurrent, Decided, Undecided
  <2> QED
    BY <1>12, <2>1, <2>2 DEF TMLog
<1>15. ASSUME NEW t \in TMNodes PROVE tm'[t] = NoTM
  <2>1. CASE t = n
    BY <1>7, <2>1
  <2>2. CASE t # n
    <3>1. Gen(t) # 0
      BY <1>0, <1>8, <2>2, TheirNodes
    <3>2. tm[t].st = "None"
      <4> SUFFICES ASSUME tm[t].st # "None" PROVE FALSE
        OBVIOUS
      <4>1. TMAgrees(t)
        BY <1>5, TMLeads
      <4>2. tm[t].st \in Counting \cup Uncounted
        BY TMStateFacts
      <4> QED
        BY <1>8, <3>1, <4>1, <4>2 DEF TMAgrees, Counting, Uncounted
    <3>3. tm[t] \in TMStates
      BY <1>5 DEF StateTypes
    <3>4. tm[t] = NoTM
      BY <3>2, <3>3 DEF TMStates, Counting, Uncounted
    <3> QED
      BY <1>7, <2>2, <3>4
  <2> QED
    BY <2>1, <2>2
<1>16. ReplyInv'
  BY <1>1, <1>8, <1>15 DEF ReplyInv
<1>17. \A t \in TMNodes, m \in RMNodes : MessageStep(t, m)
  BY <1>4, MessageNone
<1> QED
  BY <1>0, <1>3, <1>4, <1>9, <1>10, <1>11, <1>13, <1>14, <1>16, <1>17, AloneAssemble

(* The Master gathers Prepared for its next bundle. *)
LEMMA TMInsertingStep ==
  ASSUME IndInv, NEW n \in TMNodes, tm_start_inserting(n)
  PROVE  IndInv'
<1>0. n \in Nodes /\ n \notin RMNodes /\ \A m \in RMNodes : m # n
  BY NodeKinds
<1>1. /\ status[n] = "leader" /\ tm[n].st = "WaitingInsertTMPrepared"
      /\ tablet_bundles' = [tablet_bundles EXCEPT ![n] = Append(@, "Prepared")]
      /\ tm' = [tm EXCEPT ![n].st = "InsertTMPreparing"]
      /\ UNCHANGED <<log_gen, log_leader_map, log_plms, status, leader_map, remote_leader_changes,
                     tablet_bundle, next_insert, network_buffer, chan, inbox>>
      /\ rm' = rm /\ reply' = reply
  BY DEF tm_start_inserting, TMPushes, logVars
<1>2. Active(n) /\ TMAgrees(n)
  BY <1>1, TMLeads DEF IndInv
<1>3. NetworkInv /\ FifoInv /\ NetInv(Messages, PLms) /\ StateTypes /\ Pipeline(n) /\ TMLog(n)
  BY <1>0 DEF IndInv, NetworkInv, PipelineInv, TMLogInv
<1>4. /\ tablet_bundle \in [Nodes -> Seq(PLms)] /\ tablet_bundles \in [Nodes -> Seq(PLms)]
      /\ tm \in [TMNodes -> TMStates]
  BY <1>3, TypeFacts DEF StateTypes
<1>5. tablet_bundle[n] = <<>> /\ tablet_bundles[n] = <<>> /\ NothingPending(n)
  <2>1. Waits(n) = Nothing
    BY <1>1 DEF Waits, TMInserting
  <2> QED
    BY <1>3, <2>1 DEF Pipeline, NothingPending, Stored
<1>6. "Prepared" \in PLms /\ Append(<<>>, "Prepared") = <<"Prepared">> /\ <<"Prepared">> # <<>>
      /\ "Prepared" # Nothing
  BY DEF PLms, Nothing
<1>7. /\ tablet_bundles' = [tablet_bundles EXCEPT ![n] = <<"Prepared">>]
      /\ tablet_bundles'[n] = <<"Prepared">>
      /\ \A x \in Nodes : x # n => tablet_bundles'[x] = tablet_bundles[x]
  BY <1>0, <1>1, <1>4, <1>5, <1>6
<1>8. NetworkInv'
  <2>1. <<"Prepared">> \in Seq(PLms)
    BY <1>6
  <2>2. tablet_bundle' = [tablet_bundle EXCEPT ![n] = <<>>]
    BY <1>0, <1>1, <1>4, <1>5
  <2>3. NetInv(Messages, PLms)'
    BY <1>0, <1>1, <1>3, <1>7, <2>1, <2>2, HandOverNet DEF logVars
  <2> QED
    BY <1>1, <1>3, <2>3, LocalNetwork
<1>9. NoneAdded /\ FifoInv'
  BY <1>1, <1>3, FromSame
<1>10. /\ tm' \in [TMNodes -> TMStates]
       /\ tm'[n] = [tm[n] EXCEPT !.st = "InsertTMPreparing"]
       /\ tm'[n].st = "InsertTMPreparing"
       /\ \A t \in TMNodes : t # n => tm'[t] = tm[t]
  <2>1. tm[n] \in [st : Uncounted, rms_remaining : {{}}, response_data : BOOLEAN]
    <3>1. tm[n] \in TMStates
      BY <1>4
    <3>2. tm[n] # NoTM
      BY <1>1 DEF NoTM, TMState
    <3>3. tm[n] \notin [st : Counting, rms_remaining : (SUBSET RMs) \ {{}}, response_data : BOOLEAN]
      BY <1>1 DEF Counting
    <3> QED
      BY <3>1, <3>2, <3>3 DEF TMStates
  <2>2. [tm[n] EXCEPT !.st = "InsertTMPreparing"]
          \in [st : Uncounted, rms_remaining : {{}}, response_data : BOOLEAN]
    BY <2>1 DEF Uncounted
  <2>3. [tm[n] EXCEPT !.st = "InsertTMPreparing"] \in TMStates
    BY <2>2 DEF TMStates
  <2>4. [tm[n] EXCEPT !.st = "InsertTMPreparing"].st = "InsertTMPreparing"
    BY <2>1
  <2> QED
    BY <1>1, <1>4, <2>3, <2>4
<1>11. Alone(n)
  BY <1>0, <1>1, <1>2, <1>7, <1>10, LocalAlone DEF Active
<1>12. Active(n)' /\ (IsCurrent(n)' <=> IsCurrent(n))
  BY <1>0, <1>11, AloneOthers
<1>13. StateTypes'
  BY <1>1, <1>3, <1>9, <1>10, TypesSame DEF StateTypes
<1>14. Pipeline(n)'
  <2>1. Waits(n)' = "Prepared"
    BY <1>10 DEF Waits, TMInserting
  <2>2. Gathered(n, "Prepared")'
    BY <1>1, <1>5, <1>7 DEF Gathered, NothingPending
  <2> QED
    BY <1>6, <2>1, <2>2 DEF Pipeline, Gathered
<1>15. ~Asked /\ ~Asked' /\ Decision' = Decision /\ Gen(n) = 0 /\ Decision = Nothing
  <2>1. ~Asked /\ Gen(n) = 0
    BY <1>1, <1>2 DEF TMAgrees
  <2>2. Decision = Nothing
    BY <2>1, Logs DEF Decision, Asked
  <2> QED
    BY <1>1, <2>1, <2>2 DEF Asked, Decision
<1>16. ~Stored(n)'
  BY <1>6, <1>7 DEF Stored
<1>17. TMStep(n)
  BY <1>10, <1>15 DEF TMStep, Undecided, Decided, NoTM, TMState
<1>18. TMLog(n)'
  <2>1. TMAgrees(n)'
    BY <1>10, <1>15, <1>16 DEF TMAgrees, Counting
  <2>2. TMCurrent(n)'
    BY <1>10, <1>15 DEF TMCurrent, Decided
  <2> QED
    BY <1>12, <2>1, <2>2 DEF TMLog
<1>19. ReplyInv'
  <2>1. tm[n] # NoTM
    BY <1>1, TMStateFacts
  <2>2. reply # "none" /\ reply # "cancelled"
    BY <2>1, Started DEF IndInv, ReplyInv
  <2> QED
    BY <1>1, <1>15, <2>2 DEF IndInv, ReplyInv
<1>20. \A t \in TMNodes, m \in RMNodes : MessageStep(t, m)
  BY <1>9, MessageNone
<1> QED
  BY <1>0, <1>1, <1>8, <1>9, <1>11, <1>13, <1>14, <1>17, <1>18, <1>19, <1>20, AloneAssemble

(* The Tablet hands its bundle over. *)
LEMMA RMInsertingStep ==
  ASSUME IndInv, NEW n \in RMNodes, Quiet, rm_start_inserting(n)
  PROVE  IndInv'
<1>0. n \in Nodes /\ n \notin TMNodes /\ \A t \in TMNodes : t # n
  BY NodeKinds
<1> DEFINE working == rm[n] = "Working"
           bundle == tablet_bundle[n] \o (IF working THEN <<"Prepared">> ELSE <<>>)
<1>1. /\ status[n] = "leader" /\ tablet_bundles[n] = <<>> /\ next_insert[n] = NoInsert
      /\ bundle # <<>>
      /\ tablet_bundles' = [tablet_bundles EXCEPT ![n] = bundle]
      /\ tablet_bundle' = [tablet_bundle EXCEPT ![n] = <<>>]
      /\ rm' = IF working THEN [rm EXCEPT ![n] = "InsertingPrepared"] ELSE rm
      /\ UNCHANGED <<log_gen, log_leader_map, log_plms, status, leader_map, remote_leader_changes,
                     next_insert, network_buffer, chan, inbox>>
      /\ tm' = tm /\ reply' = reply
  BY DEF rm_start_inserting, logVars
<1>2. NetworkInv /\ FifoInv /\ NetInv(Messages, PLms) /\ StateTypes /\ Pipeline(n) /\ RMStateInv
  BY <1>0 DEF IndInv, NetworkInv, PipelineInv, ProtocolInv
<1>3. /\ tablet_bundle \in [Nodes -> Seq(PLms)] /\ tablet_bundles \in [Nodes -> Seq(PLms)]
      /\ rm \in [RMNodes -> RMStates] /\ NoInsert.plms = <<>>
  BY <1>2, TypeFacts DEF StateTypes, NoInsert
<1>4. inbox[n] = <<>> /\ <<>> # <<LC>> /\ Active(n)
  <2>1. inbox[n] = <<>> /\ <<>> # <<LC>>
    BY <1>0 DEF Quiet
  <2> QED
    BY <1>1, <2>1 DEF Active
<1>5. Waits(n) = RMInserting(rm[n]) /\ Waits(n)' = RMInserting(rm'[n])
  BY <1>0 DEF Waits
<1>6. PICK x \in PLms :
        /\ bundle = <<x>> /\ x = RMInserting(rm'[n]) /\ x # Nothing
        /\ rm'[n] \in RMStates /\ (IF working THEN rm'[n] = "InsertingPrepared" ELSE rm'[n] = rm[n])
        /\ ~working => ~Stored(n)
        /\ working => tablet_bundle[n] = <<>>
  <2>1. CASE working
    <3>1. Waits(n) = Nothing
      BY <1>5, <2>1 DEF RMInserting
    <3>2. tablet_bundle[n] = <<>>
      BY <1>2, <3>1 DEF Pipeline, NothingPending, Stored
    <3>3. bundle = <<"Prepared">>
      BY <2>1, <3>2
    <3>4. rm'[n] = "InsertingPrepared"
      BY <1>1, <1>3, <2>1
    <3>5. "Prepared" \in PLms /\ "Prepared" # Nothing /\ RMInserting("InsertingPrepared") = "Prepared"
          /\ "InsertingPrepared" \in RMStates
      BY DEF PLms, Nothing, RMInserting, RMStates
    <3> QED
      BY <2>1, <3>2, <3>3, <3>4, <3>5
  <2>2. CASE ~working
    <3>1. bundle = tablet_bundle[n]
      BY <1>0, <1>3, <2>2
    <3>2. tablet_bundle[n] # <<>> /\ ~Stored(n)
      BY <1>1, <3>1 DEF Stored
    <3>3. PICK x : x = Waits(n)
      OBVIOUS
    <3>4. x # Nothing /\ Gathered(n, x)
      BY <1>2, <3>2, <3>3 DEF Pipeline, NothingPending, Persisted
    <3>5. tablet_bundle[n] = <<x>>
      BY <3>2, <3>4 DEF Gathered
    <3>6. x \in PLms
      BY <1>5, <3>3, <3>4 DEF RMInserting, PLms
    <3>7. rm'[n] = rm[n] /\ rm[n] \in RMStates
      BY <1>1, <1>3, <2>2
    <3> QED
      BY <1>5, <2>2, <3>1, <3>2, <3>3, <3>4, <3>5, <3>6, <3>7
  <2> QED
    BY <2>1, <2>2
<1> HIDE DEF working, bundle
<1>7. /\ tablet_bundles'[n] = <<x>> /\ tablet_bundle'[n] = <<>>
      /\ \A y \in Nodes : y # n => tablet_bundles'[y] = tablet_bundles[y] /\ tablet_bundle'[y] = tablet_bundle[y]
  BY <1>0, <1>1, <1>3, <1>6
<1>8. NetworkInv'
  <2>1. bundle \in Seq(PLms)
    BY <1>6
  <2>2. NetInv(Messages, PLms)'
    BY <1>0, <1>1, <1>2, <2>1, HandOverNet DEF logVars
  <2> QED
    BY <1>1, <1>2, <2>2, LocalNetwork
<1>9. NoneAdded /\ FifoInv'
  BY <1>1, <1>2, FromSame
<1>10. rm' \in [RMNodes -> RMStates] /\ \A m \in RMNodes : m # n => rm'[m] = rm[m]
  <2>1. "InsertingPrepared" \in RMStates
    BY DEF RMStates
  <2> QED
    BY <1>1, <1>3, <2>1
<1>11. Alone(n)
  BY <1>0, <1>1, <1>4, <1>7, <1>10, LocalAlone
<1>12. Active(n)' /\ (IsCurrent(n)' <=> IsCurrent(n))
  BY <1>0, <1>11, AloneOthers
<1>13. StateTypes'
  BY <1>1, <1>2, <1>9, <1>10, TypesSame DEF StateTypes
<1>14. Pipeline(n)'
  <2>1. NoPLm(<<>>)
    BY DEF NoPLm
  <2>2. Gathered(n, x)'
    BY <1>1, <1>3, <1>4, <1>7, <2>1 DEF Gathered
  <2> QED
    BY <1>5, <1>6, <2>2 DEF Pipeline, Gathered
<1>15. ~Stored(n)'
  <2>1. <<x>> # <<>>
    OBVIOUS
  <2> QED
    BY <1>7, <2>1 DEF Stored
<1>16. RMStep(n)
  <2>1. CASE working
    <3>1. rm[n] = "Working" /\ rm'[n] = "InsertingPrepared"
      BY <1>6, <2>1 DEF working
    <3>2. IsCurrent(n)' => RMCurrent(n)'
      <4>1. IsCurrent(n)' => log_plms[Gid(n)] = <<>>
        BY <1>2, <1>4, <1>12, <3>1 DEF RMStateInv, RMCurrent
      <4> QED
        BY <1>1, <1>15, <3>1, <4>1 DEF RMCurrent
    <3>3. Asked
      BY <1>2, <1>4, <3>1 DEF RMStateInv
    <3>4. Unprepared(n) /\ Unprepared(n)'
      BY <1>15, <3>1 DEF Unprepared
    <3> QED
      BY <1>4, <1>12, <3>1, <3>2, <3>3, <3>4 DEF RMStep, Tentative, Resolving
  <2>2. CASE ~working
    BY <1>1, <1>4, <1>6, <1>12, <1>15, <2>2, RMSameStored
  <2> QED
    BY <2>1, <2>2
<1>17. ReplyInv'
  <2>1. reply # "none"
    <3> SUFFICES ASSUME reply = "none" PROVE FALSE
      OBVIOUS
    <3>1. tablet_bundle[n] = <<>> /\ rm[n] = "None"
      BY <1>0, Started
    <3> QED
      BY <1>6, <3>1 DEF working, Stored, RMInserting
  <2>2. (Asked' <=> Asked) /\ Decision' = Decision
    BY <1>1 DEF Asked, Decision
  <2> QED
    BY <1>1, <2>1, <2>2 DEF IndInv, ReplyInv
<1>18. \A t \in TMNodes, m \in RMNodes : MessageStep(t, m)
  BY <1>9, MessageNone
<1> QED
  BY <1>0, <1>1, <1>8, <1>9, <1>11, <1>13, <1>14, <1>16, <1>17, <1>18, AloneAssemble
-----------------------------------------------------------------------------
(* A bundle enters the log *)

(* What inserting a bundle has in common for all leaders. *)
LEMMA InsertFacts ==
  ASSUME IndInv, Quiet, NEW n \in Nodes, maybe_start_insert(n), UNCHANGED esVars
  PROVE  /\ Alone(n) /\ Active(n) /\ IsCurrent(n)
         /\ NetworkInv' /\ NoneAdded /\ FifoInv' /\ StateTypes'
         /\ tm' = tm /\ rm' = rm /\ reply' = reply /\ reply # "none"
         /\ log_plms' = [log_plms EXCEPT ![Gid(n)] = @ \o tablet_bundles[n]]
         /\ log_plms \in [Groups -> Seq(PLms)] /\ tablet_bundles[n] \in Seq(PLms)
         /\ next_insert[n].plms = <<>> /\ next_insert'[n].plms = tablet_bundles[n]
         /\ tablet_bundle'[n] = tablet_bundle[n] /\ tablet_bundles'[n] = <<>>
         /\ inbox[n] = <<>> /\ inbox'[n] = <<>>
<1>1. NetworkInv /\ FifoInv /\ StateTypes /\ NetInv(Messages, PLms)
  BY DEF IndInv, NetworkInv
<1> DEFINE bundle == [rlcs |-> remote_leader_changes[n], plms |-> tablet_bundles[n]]
<1>2. /\ status[n] = "leader" /\ log_gen[Gid(n)] = Gen(n)
      /\ next_insert[n] = NoInsert /\ bundle # NoInsert
      /\ next_insert' = [next_insert EXCEPT ![n] = bundle]
      /\ log_plms' = [log_plms EXCEPT ![Gid(n)] = @ \o bundle.plms]
      /\ tablet_bundles' = [tablet_bundles EXCEPT ![n] = <<>>]
      /\ UNCHANGED <<log_gen, status, leader_map, tablet_bundle, network_buffer, chan, inbox>>
      /\ tm' = tm /\ rm' = rm /\ reply' = reply
  BY DEF maybe_start_insert, esVars
<1>3. bundle.plms = tablet_bundles[n] /\ NoInsert.plms = <<>> /\ DOMAIN next_insert = Nodes
  BY <1>1 DEF NoInsert, NetInv, NetType
<1>4. inbox[n] = <<>> /\ <<>> # <<LC>>
  BY DEF Quiet
<1>5. NetworkInv' /\ \A g, h \in Groups : log_leader_map[g][h] =< log_leader_map'[g][h]
  BY <1>1, InsertNetwork
<1>6. NoneAdded /\ FifoInv'
  BY <1>1, <1>2, FromSame
<1>7. StateTypes'
  BY <1>1, <1>2, <1>6, TypesSame DEF StateTypes
<1>8. reply # "none"
  <2> SUFFICES ASSUME reply = "none" PROVE FALSE
    OBVIOUS
  <2>1. remote_leader_changes[n] = <<>> /\ tablet_bundles[n] = <<>>
    BY Started
  <2> QED
    BY <1>2, <2>1 DEF NoInsert
<1>9. /\ \A g \in Groups : leader_map[n][g] \in Nat
      /\ tablet_bundles \in [Nodes -> Seq(PLms)] /\ log_plms \in [Groups -> Seq(PLms)]
  BY <1>1, TypeFacts
<1>10. Alone(n)
  <2>1. /\ \A x \in Nodes : x # n => /\ next_insert'[x] = next_insert[x]
                                     /\ tablet_bundles'[x] = tablet_bundles[x]
    BY <1>2, <1>3, <1>9
  <2>2. \A g \in Groups : leader_map[n][g] =< leader_map'[n][g]
    BY <1>2, <1>9
  <2>3. inbox'[n] # <<LC>>
    BY <1>2, <1>4
  <2> QED
    BY <1>2, <1>5, <2>1, <2>2, <2>3 DEF Alone
<1>11. Active(n) /\ IsCurrent(n)
  BY <1>2, <1>4 DEF Active, IsCurrent
<1>12. /\ next_insert[n].plms = <<>> /\ next_insert'[n].plms = tablet_bundles[n]
       /\ tablet_bundle'[n] = tablet_bundle[n] /\ tablet_bundles'[n] = <<>>
       /\ inbox'[n] = <<>>
       /\ log_plms' = [log_plms EXCEPT ![Gid(n)] = @ \o tablet_bundles[n]]
  BY <1>2, <1>3, <1>4, <1>9
<1> QED
  BY <1>2, <1>4, <1>5, <1>6, <1>7, <1>8, <1>9, <1>10, <1>11, <1>12

(* The bundle holds changes of Leaderships only. *)
LEMMA InsertNone ==
  ASSUME IndInv, Quiet, NEW n \in Nodes, maybe_start_insert(n), UNCHANGED esVars,
         tablet_bundles[n] = <<>>
  PROVE  IndInv'
<1>1. /\ Alone(n) /\ Active(n) /\ IsCurrent(n)
      /\ NetworkInv' /\ NoneAdded /\ FifoInv' /\ StateTypes'
      /\ tm' = tm /\ rm' = rm /\ reply' = reply /\ reply # "none"
      /\ log_plms' = [log_plms EXCEPT ![Gid(n)] = @ \o tablet_bundles[n]]
      /\ log_plms \in [Groups -> Seq(PLms)]
      /\ next_insert[n].plms = <<>> /\ next_insert'[n].plms = tablet_bundles[n]
      /\ tablet_bundle'[n] = tablet_bundle[n] /\ tablet_bundles'[n] = <<>>
      /\ inbox[n] = <<>> /\ inbox'[n] = <<>>
  BY InsertFacts
<1>2. Gid(n) \in Groups
  BY TheirNodes, NodeKinds
<1>3. log_plms' = log_plms
  <2>1. log_plms[Gid(n)] \o tablet_bundles[n] = log_plms[Gid(n)]
    <3>1. log_plms[Gid(n)] \in Seq(PLms)
      BY <1>1, <1>2
    <3> QED
      BY <3>1
  <2> QED
    BY <1>1, <1>2, <2>1
<1>4. /\ Active(n)' /\ (Active(n)' <=> Active(n)) /\ (IsCurrent(n)' <=> IsCurrent(n))
  BY <1>1, AloneOthers
<1>5. UNCHANGED <<tablet_bundle[n], tablet_bundles[n]>>
  BY <1>1
<1>6. Pipeline(n)'
  <2>1. Waits(n)' = Waits(n)
    BY <1>1 DEF Waits
  <2>2. Pipeline(n)
    BY DEF IndInv, PipelineInv
  <2>3. next_insert'[n].plms = next_insert[n].plms /\ inbox'[n] = inbox[n]
    BY <1>1
  <2> QED
    BY <1>5, <2>1, <2>2, <2>3, PipelineSame
<1>7. n \in RMNodes => RMStep(n)
  BY <1>1, <1>3, <1>4, <1>5, RMSame
<1>8. n \in TMNodes => TMStep(n) /\ TMLog(n)'
  <2> SUFFICES ASSUME n \in TMNodes PROVE TMStep(n) /\ TMLog(n)'
    OBVIOUS
  <2>1. TMLog(n)
    BY DEF IndInv, TMLogInv
  <2>2. Undecided(n) => Decision = Nothing
    BY <1>1, <2>1 DEF TMLog, TMCurrent
  <2>3. TMStep(n)
    BY <1>1, <1>3, <1>4, <1>5, <2>2, TMSame
  <2>4. TMLog(n)'
    BY <1>1, <1>3, <1>4, <1>5, <2>1, TMLogSame
  <2> QED
    BY <2>3, <2>4
<1>9. ReplyInv'
  <2>1. (Asked' <=> Asked) /\ Decision' = Decision
    BY <1>3 DEF Asked, Decision
  <2> QED
    BY <1>1, <2>1 DEF IndInv, ReplyInv
<1>10. \A t \in TMNodes, m \in RMNodes : MessageStep(t, m)
  BY <1>1, MessageNone
<1> QED
  BY <1>1, <1>3, <1>6, <1>7, <1>8, <1>9, <1>10, AloneAssemble

(* The bundle holds the one PLm that its leader waits for. *)
LEMMA InsertOne ==
  ASSUME IndInv, Quiet, NEW n \in Nodes, maybe_start_insert(n), UNCHANGED esVars,
         tablet_bundles[n] # <<>>
  PROVE  /\ Waits(n) \in PLms
         /\ log_plms' = [log_plms EXCEPT ![Gid(n)] = Append(@, Waits(n))]
         /\ ~Stored(n) /\ Stored(n)' /\ Pipeline(n)'
<1>1. /\ tm' = tm /\ rm' = rm
      /\ log_plms' = [log_plms EXCEPT ![Gid(n)] = @ \o tablet_bundles[n]]
      /\ log_plms \in [Groups -> Seq(PLms)] /\ tablet_bundles[n] \in Seq(PLms)
      /\ next_insert'[n].plms = tablet_bundles[n]
      /\ tablet_bundle'[n] = tablet_bundle[n] /\ tablet_bundles'[n] = <<>>
      /\ inbox'[n] = <<>>
  BY InsertFacts
<1>2. Gid(n) \in Groups
  BY TheirNodes, NodeKinds
<1>3. PICK x : x = Waits(n)
  OBVIOUS
<1>4. Pipeline(n)
  BY DEF IndInv, PipelineInv
<1>5. x # Nothing /\ Gathered(n, x)
  BY <1>3, <1>4 DEF Pipeline, NothingPending, Persisted, Stored
<1>6. tablet_bundle[n] = <<>> /\ tablet_bundles[n] = <<x>>
  BY <1>5 DEF Gathered
<1>7. x \in PLms
  <2>1. <<x>>[1] = x /\ 1 \in DOMAIN <<x>>
    OBVIOUS
  <2>2. <<x>> \in Seq(PLms)
    BY <1>1, <1>6
  <2> QED
    BY <2>1, <2>2
<1>8. ~Stored(n) /\ Stored(n)'
  BY <1>1, <1>6 DEF Stored
<1>9. log_plms' = [log_plms EXCEPT ![Gid(n)] = Append(@, x)]
  <2>1. log_plms[Gid(n)] \o <<x>> = Append(log_plms[Gid(n)], x)
    <3>1. log_plms[Gid(n)] \in Seq(PLms)
      BY <1>1, <1>2
    <3> QED
      BY <1>7, <3>1
  <2>2. log_plms' = [log_plms EXCEPT ![Gid(n)] = log_plms[Gid(n)] \o <<x>>]
    BY <1>1, <1>6
  <2> QED
    BY <2>1, <2>2
<1>10. Pipeline(n)'
  <2>1. Waits(n)' = x
    BY <1>1, <1>3 DEF Waits
  <2>2. NoPLm(inbox'[n])
    BY <1>1 DEF NoPLm
  <2>3. Persisted(n, x)'
    BY <1>1, <1>6, <1>8, <2>2 DEF Persisted
  <2> QED
    BY <1>5, <2>1, <2>3 DEF Pipeline, Persisted
<1> QED
  BY <1>3, <1>7, <1>8, <1>9, <1>10

(* The PLm of the leader of an RM enters the log. *)
LEMMA InsertRM ==
  ASSUME IndInv, Quiet, NEW n \in RMNodes, maybe_start_insert(n), UNCHANGED esVars,
         tablet_bundles[n] # <<>>
  PROVE  Inserts(n) /\ IndInv'
<1>0. n \in Nodes /\ n \notin TMNodes /\ Gid(n) \in RMs /\ Gid(n) \in Groups /\ Gid(n) # TM
      /\ TM \in Groups /\ RMs \subseteq Groups
  BY NodeKinds, TheirNodes
<1>1. /\ Alone(n) /\ Active(n) /\ IsCurrent(n)
      /\ NetworkInv' /\ NoneAdded /\ FifoInv' /\ StateTypes'
      /\ tm' = tm /\ rm' = rm /\ reply' = reply /\ reply # "none"
      /\ log_plms \in [Groups -> Seq(PLms)]
  BY <1>0, InsertFacts
<1>2. /\ Waits(n) \in PLms
      /\ log_plms' = [log_plms EXCEPT ![Gid(n)] = Append(@, Waits(n))]
      /\ ~Stored(n) /\ Stored(n)' /\ Pipeline(n)'
  BY <1>0, InsertOne
<1>3. Waits(n) = RMInserting(rm[n]) /\ RMInserting(rm[n]) # Nothing
  BY <1>0, <1>2 DEF Waits, PLms, Nothing
<1>4. Active(n)' /\ IsCurrent(n)'
  BY <1>0, <1>1, AloneOthers
<1>5. Inserts(n)
  BY <1>1, <1>2, <1>3, <1>4 DEF Inserts
<1>6. \/ /\ rm[n] \in {"InsertingPrepared", "InsertingPreparedAborted"}
         /\ log_plms'[Gid(n)] = <<"Prepared">>
      \/ /\ rm[n] = "InsertingCommitted"
         /\ log_plms'[Gid(n)] = <<"Prepared", "Committed">>
      \/ /\ rm[n] = "InsertingAborted"
         /\ log_plms'[Gid(n)] = <<"Prepared", "Aborted">>
  BY <1>5, InsertedLog
<1>7. RMStep(n)
  <2>1. RMStateInv
    BY DEF IndInv, ProtocolInv
  <2>2. ~Unprepared(n)'
    BY <1>1, <1>2, <1>6 DEF Unprepared
  <2>3. RMCurrent(n)'
    BY <1>1, <1>2, <1>6 DEF RMCurrent
  <2>4. /\ rm[n] # "None" /\ Asked
        /\ rm[n] = "InsertingCommitted" => Decision = "Committed"
        /\ rm[n] \in {"InsertingPreparedAborted", "InsertingAborted"} => Decision = "Aborted"
        /\ rm[n] \in {"InsertingPreparedAborted", "InsertingCommitted", "InsertingAborted"} =>
             Settled(Gid(n), Gen(n)) /\ Deaf(n)
    BY <1>1, <1>6, <2>1 DEF RMStateInv
  <2> QED
    BY <1>1, <1>2, <1>4, <2>2, <2>3, <2>4 DEF RMStep
<1>8. \A m \in RMNodes : RMStep(m)
  <2> SUFFICES ASSUME NEW m \in RMNodes, m # n PROVE RMStep(m)
    BY <1>7
  <2>1. m \in Nodes /\ Gid(m) \in Groups
    BY TheirNodes
  <2>2. Gid(m) = Gid(n) => ~IsCurrent(m)
    BY <1>0, <1>1, <2>1, CurrentUnique DEF IsCurrent
  <2>3. Gid(m) # Gid(n) => log_plms'[Gid(m)] = log_plms[Gid(m)]
    BY <1>0, <1>1, <1>2, <2>1
  <2> QED
    BY <1>0, <1>1, <2>2, <2>3, AloneRMs
<1>9. log_plms'[TM] = log_plms[TM]
  BY <1>0, <1>1, <1>2
<1>10. \A t \in TMNodes : TMStep(t) /\ TMLog(t)'
  BY <1>0, <1>1, <1>9, AloneTMs
<1>11. Decision' = Decision /\ (Asked' <=> Asked) /\ (IsClosed' <=> IsClosed)
  BY <1>9 DEF Decision, Asked, IsClosed
<1>12. LogStep
  <2>1. TMStateInv
    BY DEF IndInv, ProtocolInv
  <2>2. \A r \in RMs :
          /\ Decision' = "Committed" => PreparedFrom(r, log_leader_map[TM][r])
          /\ IsClosed' => \E k \in Gens : k =< log_leader_map[TM][r] /\ Over(r, k)
    BY <1>11, <2>1 DEF TMStateInv
  <2>3. \A r \in RMs : log_plms'[r] # log_plms[r] => r = Gid(n)
    BY <1>0, <1>1, <1>2
  <2>4. \A g \in Groups : log_gen[g] \in Nat /\ log_gen'[g] = log_gen[g]
    BY <1>1, TypeFacts DEF IndInv, NetworkInv, Alone
  <2>5. /\ \A g \in Groups : log_gen[g] =< log_gen'[g]
        /\ \A g, h \in Groups : log_leader_map[g][h] =< log_leader_map'[g][h]
    BY <1>1, <2>4 DEF Alone
  <2> QED
    BY <1>5, <1>11, <2>2, <2>3, <2>5 DEF LogStep
<1>13. Step
  <2>1. \A t \in TMNodes, m \in RMNodes : MessageStep(t, m)
    BY <1>1, MessageNone
  <2>2. LeaderStep
    BY <1>0, <1>1, AloneOthers
  <2> QED
    BY <1>8, <1>10, <1>12, <2>1, <2>2 DEF Step
<1>14. PipelineInv'
  BY <1>0, <1>1, <1>2, AloneOthers DEF PipelineInv
<1>15. TMLogInv'
  BY <1>9, <1>10 DEF IndInv, TMLogInv
<1>16. ReplyInv'
  BY <1>1, <1>11 DEF IndInv, ReplyInv
<1> QED
  BY <1>1, <1>5, <1>13, <1>14, <1>15, <1>16, Assemble

(* Closed is appended to an outcome. *)
LEMMA AppendClosed ==
  ASSUME NEW x \in PLms
  PROVE  Append(<<"Prepared", x>>, "Closed") = <<"Prepared", x, "Closed">>
<1> DEFINE a == Append(<<"Prepared", x>>, "Closed")
           b == <<"Prepared", x, "Closed">>
<1>1. /\ <<"Prepared", x>> \in Seq(PLms) /\ "Closed" \in PLms /\ Len(<<"Prepared", x>>) = 2
      /\ <<"Prepared", x>>[1] = "Prepared" /\ <<"Prepared", x>>[2] = x
  BY DEF PLms
<1>2. a \in Seq(PLms) /\ Len(a) = 3 /\ a[1] = "Prepared" /\ a[2] = x /\ a[3] = "Closed"
  BY <1>1
<1>3. b \in Seq(PLms) /\ Len(b) = 3 /\ b[1] = "Prepared" /\ b[2] = x /\ b[3] = "Closed"
  BY <1>1 DEF PLms
<1> HIDE DEF a, b
<1>4. \A i \in 1 .. 3 : a[i] = b[i]
  BY <1>2, <1>3
<1>5. a = b
  BY <1>2, <1>3, <1>4, SeqEqual
<1> QED
  BY <1>5 DEF a, b

(* What the TM inserts is what its log lacks. *)
LEMMA InsertTMLog ==
  ASSUME IndInv, NEW n \in TMNodes, Active(n), IsCurrent(n), ~Stored(n),
         Waits(n) \in PLms, log_plms'[TM] = Append(log_plms[TM], Waits(n))
  PROVE  LET Becomes(st, open, decision, closed) ==
               /\ tm[n].st = st
               /\ open <=> ~Asked
               /\ Decision' = decision
               /\ IsClosed' <=> closed
         IN /\ log_plms'[TM] \in {<<"Prepared">>,
                       <<"Prepared", "Committed">>, <<"Prepared", "Committed", "Closed">>,
                       <<"Prepared", "Aborted">>, <<"Prepared", "Aborted", "Closed">>}
            /\ ~IsClosed /\ Asked'
            /\ Decision # Nothing <=> tm[n].st = "InsertingTMClosed"
            /\ \/ Becomes("InsertTMPreparing", TRUE, Nothing, FALSE) /\ Gen(n) = 0
               \/ Becomes("InsertingTMCommitted", FALSE, "Committed", FALSE)
               \/ Becomes("InsertingTMAborted", FALSE, "Aborted", FALSE)
               \/ Becomes("InsertingTMClosed", FALSE, Decision, TRUE)
<1> DEFINE P == <<"Prepared">>
           C == <<"Prepared", "Committed">>
           A == <<"Prepared", "Aborted">>
           CC == <<"Prepared", "Committed", "Closed">>
           AC == <<"Prepared", "Aborted", "Closed">>
<1>1. /\ TMAgrees(n) /\ TMCurrent(n)
      /\ log_plms[TM] \in {<<>>, P, C, CC, A, AC}
  BY DEF IndInv, TMLogInv, TMLog
<1>2. /\ P # <<>> /\ C # <<>> /\ A # <<>> /\ CC # <<>> /\ AC # <<>>
      /\ P # C /\ P # A /\ P # CC /\ P # AC /\ C # A /\ C # AC /\ C # CC
      /\ A # AC /\ A # CC /\ CC # AC
  OBVIOUS
<1>3. /\ Append(<<>>, "Prepared") = P /\ Append(P, "Committed") = C /\ Append(P, "Aborted") = A
      /\ Append(C, "Closed") = CC /\ Append(A, "Closed") = AC
  <2>1. "Committed" \in PLms /\ "Aborted" \in PLms
    BY DEF PLms
  <2> QED
    BY <2>1, Logs, AppendClosed
<1>4. Waits(n) = TMInserting(tm[n].st) /\ Waits(n) # Nothing
  BY DEF Waits, PLms, Nothing
<1>5. /\ Asked <=> log_plms[TM] # <<>>
      /\ Asked' <=> log_plms'[TM] # <<>>
      /\ Decision = IF log_plms[TM] \in {C, CC} THEN "Committed"
                    ELSE IF log_plms[TM] \in {A, AC} THEN "Aborted" ELSE Nothing
      /\ Decision' = IF log_plms'[TM] \in {C, CC} THEN "Committed"
                     ELSE IF log_plms'[TM] \in {A, AC} THEN "Aborted" ELSE Nothing
      /\ IsClosed <=> log_plms[TM] \in {CC, AC}
      /\ IsClosed' <=> log_plms'[TM] \in {CC, AC}
  BY DEF Asked, Decision, IsClosed
<1>6. "Committed" # Nothing /\ "Aborted" # Nothing
  BY DEF Nothing
<1> HIDE DEF P, C, A, CC, AC
<1>7. CASE tm[n].st = "InsertTMPreparing"
  <2>1. ~Asked /\ Gen(n) = 0
    BY <1>1, <1>7 DEF TMAgrees
  <2>2. log_plms'[TM] = P /\ log_plms[TM] = <<>>
    BY <1>3, <1>4, <1>5, <1>7, <2>1 DEF TMInserting
  <2>3. Decision = Nothing /\ Decision' = Nothing /\ Asked' /\ ~IsClosed /\ ~IsClosed'
    BY <1>2, <1>5, <2>2
  <2> QED
    BY <1>7, <2>1, <2>2, <2>3 DEF P
<1>8. CASE tm[n].st \in {"InsertingTMCommitted", "InsertingTMAborted"}
  <2>1. Asked /\ Decision = Nothing
    BY <1>1, <1>8 DEF TMAgrees, TMCurrent, Undecided
  <2>2. log_plms[TM] = P
    BY <1>1, <1>2, <1>5, <1>6, <2>1
  <2>3. ~IsClosed
    BY <1>2, <1>5, <2>2
  <2>4. CASE tm[n].st = "InsertingTMCommitted"
    <3>1. log_plms'[TM] = C
      BY <1>3, <1>4, <2>2, <2>4 DEF TMInserting
    <3>2. Decision' = "Committed" /\ ~IsClosed' /\ Asked'
      BY <1>2, <1>5, <3>1
    <3> QED
      BY <2>1, <2>3, <2>4, <3>1, <3>2 DEF C
  <2>5. CASE tm[n].st = "InsertingTMAborted"
    <3>1. log_plms'[TM] = A
      BY <1>3, <1>4, <2>2, <2>5 DEF TMInserting
    <3>2. Decision' = "Aborted" /\ ~IsClosed' /\ Asked'
      BY <1>2, <1>5, <3>1
    <3> QED
      BY <2>1, <2>3, <2>5, <3>1, <3>2 DEF A
  <2> QED
    BY <1>8, <2>4, <2>5
<1>9. CASE tm[n].st = "InsertingTMClosed"
  <2>1. Asked /\ Decision # Nothing /\ ~IsClosed
    BY <1>1, <1>9 DEF TMAgrees, TMCurrent, Decided
  <2>2. log_plms[TM] \in {C, A}
    BY <1>1, <1>2, <1>5, <2>1
  <2>3. CASE log_plms[TM] = C
    <3>1. log_plms'[TM] = CC
      BY <1>3, <1>4, <2>3, <1>9 DEF TMInserting
    <3>2. Decision' = "Committed" /\ Decision = "Committed" /\ IsClosed' /\ Asked'
      BY <1>2, <1>5, <2>3, <3>1
    <3> QED
      BY <1>9, <2>1, <3>1, <3>2 DEF CC
  <2>4. CASE log_plms[TM] = A
    <3>1. log_plms'[TM] = AC
      BY <1>3, <1>4, <2>4, <1>9 DEF TMInserting
    <3>2. Decision' = "Aborted" /\ Decision = "Aborted" /\ IsClosed' /\ Asked'
      BY <1>2, <1>5, <2>4, <3>1
    <3> QED
      BY <1>9, <2>1, <3>1, <3>2 DEF AC
  <2> QED
    BY <2>2, <2>3, <2>4
<1> QED
  BY <1>4, <1>7, <1>8, <1>9 DEF TMInserting

(* Another leader of the TM, which the log has deposed, learns nothing. *)
LEMMA InsertTMOthers ==
  ASSUME IndInv, NEW n \in TMNodes, Alone(n), Active(n), IsCurrent(n), NEW t \in TMNodes, t # n,
         ~IsClosed, Asked',
         Decision # Nothing => Decision' = Decision,
         ~Asked => Gen(n) = 0
  PROVE  TMStep(t) /\ TMLog(t)'
<1>0. n \in Nodes /\ t \in Nodes /\ Gid(n) = TM /\ Gid(t) = TM /\ Gen(t) \in Nat
  BY TheirNodes
<1>1. (Active(t)' <=> Active(t)) /\ (IsCurrent(t)' <=> IsCurrent(t))
  BY <1>0, AloneOthers
<1>2. /\ tm'[t] = tm[t]
      /\ UNCHANGED <<tablet_bundle[t], tablet_bundles[t], leader_map[t], next_insert[t], inbox[t]>>
  BY <1>0 DEF Alone
<1>3. \A g \in Groups, k \in Gens : Within(t, g, k) => Within(t, g, k)'
  BY <1>2, WithinSame
<1>4. TMLog(t) /\ TMStateInv
  BY DEF IndInv, TMLogInv, ProtocolInv
<1>5. (Stored(t)' <=> Stored(t)) /\ (Undecided(t)' <=> Undecided(t)) /\ (Decided(t)' <=> Decided(t))
  BY <1>2 DEF Stored, Undecided, Decided
<1>6. ~IsCurrent(t)
  BY <1>0, CurrentUnique DEF IsCurrent
<1>7. Active(t) => Asked
  <2> SUFFICES ASSUME Active(t), ~Asked PROVE FALSE
    OBVIOUS
  <2>1. log_gen[TM] = 0
    BY <1>0 DEF IsCurrent
  <2>2. Gen(t) =< log_gen[TM]
    BY <1>0 DEF IndInv, NetworkInv, NetInv, StatusInv, Active
  <2>3. Gen(t) = Gen(n)
    BY <1>0, <2>1, <2>2
  <2> QED
    BY <1>0, <2>3, TheirNodes
<1>8. TMStep(t)
  <2>1. Active(t)' /\ tm'[t] = NoTM => \A r \in RMs : Mute(t, r)
    BY <1>1, <1>2, <1>4, <1>7 DEF TMStateInv
  <2> QED
    BY <1>1, <1>2, <1>3, <1>4, <1>5, <2>1 DEF TMStep, TMStateInv
<1>9. TMLog(t)'
  <2>1. CASE Active(t)
    <3>1. TMAgrees(t) /\ Asked
      BY <1>4, <1>7, <2>1 DEF TMLog
    <3>2. "Committed" # Nothing /\ "Aborted" # Nothing
      BY DEF Nothing
    <3>3. TMAgrees(t)'
      BY <1>2, <1>5, <3>1, <3>2 DEF TMAgrees
    <3> QED
      BY <1>1, <1>6, <2>1, <3>3 DEF TMLog
  <2>2. CASE ~Active(t)
    BY <1>1, <1>2, <1>4, <2>2 DEF TMLog
  <2> QED
    BY <2>1, <2>2
<1> QED
  BY <1>8, <1>9

(* The PLm of the leader of the TM enters the log. *)
LEMMA InsertTM ==
  ASSUME IndInv, Quiet, NEW n \in TMNodes, maybe_start_insert(n), UNCHANGED esVars,
         tablet_bundles[n] # <<>>
  PROVE  IndInv'
<1>0. n \in Nodes /\ n \notin RMNodes /\ Gid(n) = TM /\ TM \in Groups /\ RMs \subseteq Groups
      /\ TM \notin RMs
  BY NodeKinds, TheirNodes
<1>1. /\ Alone(n) /\ Active(n) /\ IsCurrent(n)
      /\ NetworkInv' /\ NoneAdded /\ FifoInv' /\ StateTypes'
      /\ tm' = tm /\ rm' = rm /\ reply' = reply /\ reply # "none"
      /\ log_plms \in [Groups -> Seq(PLms)]
  BY <1>0, InsertFacts
<1>2. /\ Waits(n) \in PLms
      /\ log_plms' = [log_plms EXCEPT ![TM] = Append(@, Waits(n))]
      /\ ~Stored(n) /\ Stored(n)' /\ Pipeline(n)'
  BY <1>0, InsertOne
<1>3. /\ log_plms'[TM] = Append(log_plms[TM], Waits(n))
      /\ \A r \in RMs : log_plms'[r] = log_plms[r]
  BY <1>0, <1>1, <1>2
<1>4. /\ log_plms'[TM] \in {<<"Prepared">>,
                   <<"Prepared", "Committed">>, <<"Prepared", "Committed", "Closed">>,
                   <<"Prepared", "Aborted">>, <<"Prepared", "Aborted", "Closed">>}
      /\ ~IsClosed /\ Asked'
      /\ Decision # Nothing <=> tm[n].st = "InsertingTMClosed"
      /\ \/ /\ tm[n].st = "InsertTMPreparing" /\ ~Asked /\ Decision' = Nothing /\ ~IsClosed'
            /\ Gen(n) = 0
         \/ /\ tm[n].st = "InsertingTMCommitted" /\ Asked /\ Decision' = "Committed" /\ ~IsClosed'
         \/ /\ tm[n].st = "InsertingTMAborted" /\ Asked /\ Decision' = "Aborted" /\ ~IsClosed'
         \/ /\ tm[n].st = "InsertingTMClosed" /\ Asked /\ Decision' = Decision /\ IsClosed'
  BY <1>1, <1>2, <1>3, InsertTMLog
<1>5. Active(n)' /\ IsCurrent(n)'
  BY <1>0, <1>1, AloneOthers
<1>6. TMStateInv /\ TMAgrees(n)
  BY <1>1 DEF IndInv, ProtocolInv, TMLogInv, TMLog
<1>7. \A r \in RMs : leader_map[n][r] \in Nat /\ log_leader_map[TM][r] \in Nat
                     /\ leader_map[n][r] =< log_leader_map[TM][r]
  <2>1. NetInv(Messages, PLms) /\ LagInv
    BY DEF IndInv, NetworkInv
  <2> QED
    BY <1>0, <2>1, TypeFacts DEF LagInv, Within
<1>8. LogStep
  <2>1. ASSUME NEW r \in RMs, Decision' = "Committed"
        PROVE  PreparedFrom(r, log_leader_map[TM][r])
    <3>1. CASE Decision = "Committed"
      BY <1>6, <3>1 DEF TMStateInv
    <3>2. CASE Decision # "Committed"
      <4>1. tm[n].st = "InsertingTMCommitted"
        BY <1>4, <2>1, <3>2 DEF Nothing
      <4>2. PreparedFrom(r, leader_map[n][r])
        BY <1>6, <4>1 DEF TMStateInv
      <4> QED
        BY <1>7, <4>2, PreparedMore
    <3> QED
      BY <3>1, <3>2
  <2>2. ASSUME NEW r \in RMs, IsClosed'
        PROVE  \E k \in Gens : k =< log_leader_map[TM][r] /\ Over(r, k)
    <3>1. tm[n].st = "InsertingTMClosed"
      BY <1>4, <2>2
    <3>2. Mute(n, r)
      BY <1>6, <3>1 DEF TMStateInv
    <3>3. PICK k \in Gens : k =< leader_map[n][r] /\ Over(r, k)
      BY <3>2 DEF Mute
    <3>4. k \in Nat
      BY GensNat
    <3> QED
      BY <1>7, <3>3, <3>4
  <2>3. /\ Decision # Nothing => Decision' = Decision
        /\ Asked => Asked'
    BY <1>4
  <2>4. \A g \in Groups : log_gen[g] \in Nat /\ log_gen'[g] = log_gen[g]
    BY <1>1, TypeFacts DEF IndInv, NetworkInv, Alone
  <2>5. /\ \A g \in Groups : log_gen[g] =< log_gen'[g]
        /\ \A g, h \in Groups : log_leader_map[g][h] =< log_leader_map'[g][h]
    BY <1>1, <2>4 DEF Alone
  <2> QED
    BY <1>3, <2>1, <2>2, <2>3, <2>5 DEF LogStep
<1>9. TMStep(n)
  <2>1. ~(Decision # Nothing /\ Undecided(n)')
    BY <1>1, <1>2, <1>4 DEF Undecided
  <2>2. tm[n] # NoTM
    BY <1>4 DEF NoTM, TMState
  <2> QED
    BY <1>1, <1>5, <1>6, <2>1, <2>2 DEF TMStep, TMStateInv
<1>10. TMLog(n)'
  <2>1. TMAgrees(n)'
    BY <1>1, <1>2, <1>4, <1>6 DEF TMAgrees, Counting
  <2>2. TMCurrent(n)'
    BY <1>1, <1>2, <1>4 DEF TMCurrent, Undecided, Decided
  <2> QED
    BY <1>5, <2>1, <2>2 DEF TMLog
<1>11. \A t \in TMNodes : TMStep(t) /\ TMLog(t)'
  BY <1>1, <1>4, <1>9, <1>10, InsertTMOthers
<1>12. \A m \in RMNodes : RMStep(m)
  <2> SUFFICES ASSUME NEW m \in RMNodes PROVE RMStep(m)
    OBVIOUS
  <2>1. log_plms'[Gid(m)] = log_plms[Gid(m)] /\ m # n
    BY <1>0, <1>3, TheirNodes
  <2> QED
    BY <1>0, <1>1, <2>1, AloneRMs
<1>13. Step
  <2>1. \A t \in TMNodes, m \in RMNodes : MessageStep(t, m)
    BY <1>1, MessageNone
  <2>2. LeaderStep
    BY <1>0, <1>1, AloneOthers
  <2> QED
    BY <1>8, <1>11, <1>12, <2>1, <2>2 DEF Step
<1>14. PipelineInv'
  BY <1>0, <1>1, <1>2, AloneOthers DEF PipelineInv
<1>15. TMLogInv'
  BY <1>4, <1>11 DEF TMLogInv
<1>16. ReplyInv'
  <2>1. reply # "cancelled"
    <3>1. tm[n] # NoTM
      BY <1>4 DEF NoTM, TMState
    <3> QED
      BY <3>1 DEF IndInv, ReplyInv
  <2>2. "Committed" # Nothing /\ "Aborted" # Nothing
    BY DEF Nothing
  <2> QED
    BY <1>1, <1>4, <2>1, <2>2 DEF IndInv, ReplyInv
<1> QED
  BY <1>1, <1>13, <1>14, <1>15, <1>16, Assemble

(* maybe_start_insert *)
LEMMA InsertStep ==
  ASSUME IndInv, Quiet, NEW n \in Nodes, maybe_start_insert(n), UNCHANGED esVars
  PROVE  IndInv'
BY InsertNone, InsertRM, InsertTM, NodeKinds
-----------------------------------------------------------------------------
(* The inductive invariant *)

(* It holds at the start. *)
LEMMA InitInv == Init => IndInv
<1> SUFFICES ASSUME Init PROVE IndInv
  OBVIOUS
<1>0. /\ NetInit /\ tm = [n \in TMNodes |-> NoTM] /\ rm = [n \in RMNodes |-> "None"]
      /\ reply = "none"
  BY DEF Init
<1>1. NetworkInv /\ Quiet /\ \A n \in Nodes : Unheard(n)
  BY <1>0, InitNetwork
<1>2. /\ \A n \in Nodes : /\ inbox[n] = <<>> /\ tablet_bundle[n] = <<>> /\ tablet_bundles[n] = <<>>
                          /\ next_insert[n] = NoInsert
                          /\ \A g \in Groups : network_buffer[n][g] = EmptyBuffer
      /\ \A e \in Linked : chan[e] = <<>>
      /\ \A g \in Groups : log_plms[g] = <<>>
  BY <1>0 DEF NetInit
<1>3. Range(<<>>) = {} /\ EmptyBuffer.payloads = <<>>
  BY DEF Range, EmptyBuffer
<1>4. \A e \in Linked : e[1] \in Nodes /\ e[2] \in Nodes /\ Gid(e[1]) \in Groups
  BY LinkedKinds, TheirNodes
<1>4a. \A e \in Linked : e = <<e[1], e[2]>>
  BY DEF Linked, Peers
<1>5. \A e \in Linked : \A p : ~From(e[1], e[2], p)
  <2> SUFFICES ASSUME NEW e \in Linked, NEW p PROVE ~From(e[1], e[2], p)
    OBVIOUS
  <2>1. chan[<<e[1], e[2]>>] = <<>>
    BY <1>2, <1>4a
  <2> QED
    BY <1>2, <1>3, <1>4, <2>1 DEF From
<1>6. FifoInv
  <2> SUFFICES ASSUME NEW e \in Linked PROVE InOrder(e[1], e[2])
    BY DEF FifoInv
  <2>1. chan[<<e[1], e[2]>>] = <<>>
    BY <1>2, <1>4a
  <2>2. Sorted(<<>>)
    BY DEF Sorted
  <2> QED
    BY <1>2, <1>3, <1>4, <2>1, <2>2 DEF InOrder
<1>7. /\ \A t \in TMNodes : tm[t] = NoTM /\ tm[t].st = "None"
      /\ \A m \in RMNodes : rm[m] = "None"
  BY <1>0 DEF NoTM, TMState
<1>8. StateTypes
  <2>1. NoTM \in TMStates /\ "None" \in RMStates
    BY DEF TMStates, RMStates
  <2> QED
    BY <1>0, <1>5, <2>1 DEF StateTypes
<1>9. TM \in Groups /\ RMs \subseteq Groups
  BY TheirNodes
<1>10. ~Asked /\ Decision = Nothing /\ ~IsClosed
  BY <1>2, <1>9, Logs DEF Asked, Decision, IsClosed
<1>11. \A r \in RMs : log_plms[r] = <<>> /\ ~HasPrepared(r) /\ ~HasOutcome(r)
  BY <1>2, <1>9, Logs DEF HasPrepared, HasOutcome
<1>12. PipelineInv
  <2> SUFFICES ASSUME NEW n \in Nodes PROVE Pipeline(n)
    BY DEF PipelineInv
  <2>1. Waits(n) = Nothing
    BY <1>7, NodeKinds DEF Waits, TMInserting, RMInserting
  <2>2. NothingPending(n)
    BY <1>2 DEF NothingPending, Stored, NoInsert, NoPLm
  <2> QED
    BY <2>1, <2>2 DEF Pipeline
<1>13. \A t \in TMNodes : ~Undecided(t) /\ ~Decided(t)
  BY <1>7 DEF Undecided, Decided
<1>14. TMLogInv
  <2>1. ASSUME NEW t \in TMNodes PROVE TMLog(t)
    <3>1. TMAgrees(t)
      BY <1>7, <1>10 DEF TMAgrees, Counting
    <3>2. TMCurrent(t)
      BY <1>10, <1>13 DEF TMCurrent
    <3> QED
      BY <1>7, <3>1, <3>2 DEF TMLog
  <2> QED
    BY <1>2, <1>9, <2>1 DEF TMLogInv
<1>15. ReplyInv
  BY <1>0 DEF ReplyInv
<1>16. \A t \in TMNodes, m \in RMNodes : \A p : ~From(t, m, p) /\ ~From(m, t, p)
  <2> SUFFICES ASSUME NEW t \in TMNodes, NEW m \in RMNodes, NEW p
               PROVE  ~From(t, m, p) /\ ~From(m, t, p)
    OBVIOUS
  <2>1. <<t, m>> \in Linked /\ <<m, t>> \in Linked
    BY LinkedKinds
  <2>2. ~From(<<t, m>>[1], <<t, m>>[2], p) /\ ~From(<<m, t>>[1], <<m, t>>[2], p)
    BY <1>5, <2>1
  <2> QED
    BY <2>2
<1>17. \A r \in RMs : \A k : Unasked(r, k)
  BY <1>7, <1>11, <1>16 DEF Unasked
<1>18. AskedInv /\ LateInv
  BY <1>10, <1>13, <1>17 DEF AskedInv, LateInv
<1>19. RMMessageInv /\ TMMessageInv
  BY <1>16 DEF RMMessageInv, TMMessageInv
<1>20. RMStateInv
  <2> SUFFICES ASSUME NEW m \in RMNodes
               PROVE  Unprepared(m) /\ RMCurrent(m)
    BY <1>7 DEF RMStateInv
  <2>1. log_plms[Gid(m)] # <<"Prepared">>
    BY <1>11, TheirNodes, Logs
  <2> QED
    BY <1>7, <2>1 DEF Unprepared, RMCurrent
<1>21. RMLogInv
  BY <1>11 DEF RMLogInv
<1>22. TMStateInv
  BY <1>7, <1>10 DEF TMStateInv, Nothing
<1> QED
  BY <1>1, <1>6, <1>8, <1>12, <1>14, <1>15, <1>18, <1>19, <1>20, <1>21, <1>22
     DEF IndInv, ProtocolInv

(* Nothing changes. *)
LEMMA StutterStep ==
  ASSUME IndInv, UNCHANGED vars
  PROVE  IndInv'
<1>1. UNCHANGED <<log_gen, log_leader_map, log_plms, status, leader_map, remote_leader_changes,
                  tablet_bundle, tablet_bundles, next_insert, network_buffer, chan, inbox,
                  tm, rm, reply>>
      /\ UNCHANGED netVars
  BY DEF vars, esVars, netVars, logVars, bundleVars
<1>2. NetworkInv' /\ NoneAdded /\ FifoInv'
  BY <1>1, StillNetwork
<1>3. ReplyInv'
  <2>1. ReplyInv
    BY DEF IndInv
  <2> QED
    BY <1>1, <2>1 DEF ReplyInv, NetInit, Asked, Decision
<1>4. \A n \in Nodes : (Active(n)' <=> Active(n)) /\ Pipeline(n)'
  <2> SUFFICES ASSUME NEW n \in Nodes PROVE (Active(n)' <=> Active(n)) /\ Pipeline(n)'
    OBVIOUS
  <2>1. Active(n)' <=> Active(n)
    BY <1>1 DEF Active
  <2>2. Waits(n)' = Waits(n) /\ Pipeline(n)
    BY <1>1 DEF Waits, IndInv, PipelineInv
  <2>3. Pipeline(n)'
    BY <1>1, <2>2, PipelineSame
  <2> QED
    BY <2>1, <2>3
<1>5. WithinKept
  BY <1>1, WithinSame DEF WithinKept
<1> QED
  BY <1>1, <1>2, <1>3, <1>4, <1>5, NetworkOnly

(* Every step keeps the invariant. *)
LEMMA NextInv == IndInv /\ [Next]_vars => IndInv'
<1> SUFFICES ASSUME IndInv, [Next]_vars
             PROVE  IndInv'
  OBVIOUS
<1>1. CASE UNCHANGED vars
  BY <1>1, StutterStep
<1>2. CASE \E n \in TMNodes : Start(n) \/ CancelExternalDDLQuery(n)
  BY <1>2, StartStep, CancelStep
<1>3. CASE Handle
  BY <1>3, TMInputStep, PanicStep, RMInputStep DEF Handle
<1>4. CASE Insert
  BY <1>4, TMInsertingStep, RMInsertingStep DEF Insert
<1>5. CASE NetworkWork /\ UNCHANGED esVars
  <2>1. ASSUME NEW n \in Nodes, deliver_blocked_messages(n)
        PROVE  IndInv'
    BY <1>5, <2>1, DeliverStep
  <2>2. ASSUME Quiet, NEW e \in Linked, Receive(e[2], e[1])
        PROVE  IndInv'
    BY <1>5, <2>2, ReceiveStep
  <2>3. ASSUME Quiet, NEW n \in Nodes, maybe_start_insert(n) \/ process_bundle(n)
        PROVE  IndInv'
    BY <1>5, <2>3, InsertStep, ProcessStep
  <2> QED
    BY <1>5, <2>1, <2>2, <2>3 DEF NetworkWork
<1>6. CASE Event
  <2>1. reply # "none"
    BY <1>6 DEF Event
  <2>2. CASE Quiet /\ \E n \in Nodes : BecomeFollower(n)
    BY <2>1, <2>2, FollowerStep
  <2>3. CASE NetworkEvent /\ UNCHANGED esVars
    <3>1. ASSUME Quiet, NEW e \in Peers, RemoteLeaderChangedGossip(e[2], e[1])
          PROVE  IndInv'
      BY <2>1, <2>3, <3>1, GossipStep
    <3>2. ASSUME Quiet, NEW g \in Groups, GainLeadership(g)
          PROVE  IndInv'
      BY <2>1, <2>3, <3>2, GainStep
    <3> QED
      BY <2>3, <3>1, <3>2 DEF NetworkEvent
  <2> QED
    BY <1>6, <2>2, <2>3 DEF Event
<1> QED
  BY <1>1, <1>2, <1>3, <1>4, <1>5, <1>6 DEF Next

(* The inductive invariant holds of every behaviour. *)
THEOREM Invariance == Spec => []IndInv
<1>1. Init => IndInv
  BY InitInv
<1>2. IndInv /\ [Next]_vars => IndInv'
  BY NextInv
<1> QED
  BY <1>1, <1>2, PTL DEF Spec
-----------------------------------------------------------------------------
(* What the invariant says of the system *)

(* The types, and with them that the log of an RM holds Prepared once and  *)
(* then at most one outcome, however often Prepare, Commit and Abort are   *)
(* sent again and whoever leads.                                           *)
THEOREM TypeCorrect == Spec => []TypeOK
<1>1. IndInv => TypeOK
  <2> SUFFICES ASSUME IndInv PROVE TypeOK
    OBVIOUS
  <2>1. NetInv(Messages, PLms) /\ StateTypes /\ RMLogInv
    BY DEF IndInv, NetworkInv, ProtocolInv
  <2>2. log_gen \in [Groups -> Gens] /\ leader_map \in [Nodes -> [Groups -> Gens]]
    BY <2>1 DEF NetInv, NetType
  <2>3. Range(log_plms[TM]) \subseteq PLms
    <3>1. log_plms[TM] \in Seq(PLms)
      BY <2>1, TypeFacts, TheirNodes
    <3> QED
      BY <3>1 DEF Range
  <2>4. ASSUME NEW e \in Linked
        PROVE  Range(chan[e]) \subseteq (IF e[1] \in TMNodes THEN RMMessage ELSE TMMessage)
    <3> SUFFICES ASSUME NEW p \in Range(chan[e])
                 PROVE  p \in (IF e[1] \in TMNodes THEN RMMessage ELSE TMMessage)
      OBVIOUS
    <3>1. e = <<e[1], e[2]>>
      BY DEF Linked
    <3>2. From(e[1], e[2], p)
      BY <3>1 DEF From
    <3>3. p \in Messages
      <4>1. chan[e] \in Seq(Messages)
        BY <2>1, TypeFacts
      <4> QED
        BY <4>1 DEF Range
    <3> QED
      BY <2>1, <3>2, <3>3 DEF StateTypes
  <2> QED
    BY <2>1, <2>2, <2>3, <2>4 DEF TypeOK, StateTypes, RMLogInv
<1> QED
  BY <1>1, Invariance, PTL

(* The elements of the logs of the TM. *)
LEMMA TMLogs ==
  /\ Range(<<"Prepared">>) = {"Prepared"}
  /\ \A x \in {"Committed", "Aborted"} :
       /\ Range(<<"Prepared", x>>) = {"Prepared", x}
       /\ Len(<<"Prepared", x>>) = 2 /\ <<"Prepared", x>>[2] = x
       /\ Range(<<"Prepared", x, "Closed">>) = {"Prepared", x, "Closed"}
       /\ Len(<<"Prepared", x, "Closed">>) = 3 /\ <<"Prepared", x, "Closed">>[2] = x
  /\ Last(<<"Prepared">>) = "Prepared"
  /\ \A x \in {"Committed", "Aborted"} : Last(<<"Prepared", x>>) = x
BY DEF Range, Last

(* The outcome in the log of the TM. *)
LEMMA DecisionFacts ==
  ASSUME IndInv
  PROVE  /\ \A x \in {"Committed", "Aborted"} :
              Decision = x => Len(log_plms[TM]) > 1 /\ log_plms[TM][2] = x
         /\ Decision \in {"Committed", "Aborted", Nothing}
         /\ IsClosed <=> "Closed" \in Range(log_plms[TM])
         /\ IsClosed => Decision # Nothing
<1>1. log_plms[TM] \in {<<>>, <<"Prepared">>,
                        <<"Prepared", "Committed">>, <<"Prepared", "Committed", "Closed">>,
                        <<"Prepared", "Aborted">>, <<"Prepared", "Aborted", "Closed">>}
  BY DEF IndInv, TMLogInv
<1>2. Range(<<>>) = {}
  BY DEF Range
<1>3. CASE log_plms[TM] \in {<<>>, <<"Prepared">>}
  <2>1. Decision = Nothing /\ ~IsClosed
    BY <1>3 DEF Decision, IsClosed
  <2> QED
    BY <1>2, <1>3, <2>1, TMLogs DEF Nothing
<1>4. ASSUME NEW x \in {"Committed", "Aborted"},
             log_plms[TM] \in {<<"Prepared", x>>, <<"Prepared", x, "Closed">>}
      PROVE  /\ Decision = x /\ Len(log_plms[TM]) > 1 /\ log_plms[TM][2] = x
             /\ IsClosed <=> "Closed" \in Range(log_plms[TM])
  <2>1. Decision = x /\ (IsClosed <=> log_plms[TM] = <<"Prepared", x, "Closed">>)
    BY <1>4 DEF Decision, IsClosed
  <2> QED
    BY <1>4, <2>1, TMLogs
<1> QED
  BY <1>1, <1>3, <1>4 DEF Nothing

(* The client is told the outcome that is in the log, and a query that it  *)
(* cancelled is never persisted, whoever leads the Master.                 *)
THEOREM ReplyIsAlwaysOutcome == Spec => []ReplyIsOutcome
<1>1. IndInv => ReplyIsOutcome
  BY DecisionFacts DEF IndInv, ReplyInv, ReplyIsOutcome, Asked
<1> QED
  BY <1>1, Invariance, PTL

(* When the TM has persisted Closed and forgets the query, every RM has    *)
(* persisted the outcome or was never prepared.                            *)
THEOREM ClosedAlwaysMeansResolved == Spec => []ClosedMeansResolved
<1>1. IndInv => ClosedMeansResolved
  <2> SUFFICES ASSUME IndInv, "Closed" \in Range(log_plms[TM]), NEW r \in RMs
               PROVE  IF log_plms[TM][2] = "Committed"
                      THEN log_plms[r] = <<"Prepared", "Committed">>
                      ELSE log_plms[r] \in {<<>>, <<"Prepared", "Aborted">>}
    BY DEF ClosedMeansResolved
  <2>1. IsClosed
    BY DecisionFacts
  <2>2. Resolved(r)
    BY <2>1 DEF IndInv, ProtocolInv, TMStateInv, Over
  <2>3. \/ Decision = "Committed" /\ log_plms[TM][2] = "Committed"
        \/ Decision = "Aborted" /\ log_plms[TM][2] = "Aborted"
    BY <2>1, DecisionFacts
  <2> QED
    BY <2>2, <2>3 DEF Resolved
<1> QED
  BY <1>1, Invariance, PTL

(* The state that waits for a PLm. *)
LEMMA WaitsFacts ==
  /\ \A st \in Counting \cup Uncounted \cup {"None"} :
       /\ TMInserting(st) = "Prepared" => st = "InsertTMPreparing"
       /\ TMInserting(st) = "Committed" => st = "InsertingTMCommitted"
       /\ TMInserting(st) = "Aborted" => st = "InsertingTMAborted"
       /\ TMInserting(st) = "Closed" => st = "InsertingTMClosed"
       /\ TMInserting(st) \in PLms \cup {Nothing}
  /\ \A st \in RMStates :
       /\ RMInserting(st) = "Prepared" => st \in {"InsertingPrepared", "InsertingPreparedAborted"}
       /\ RMInserting(st) = "Committed" => st = "InsertingCommitted"
       /\ RMInserting(st) = "Aborted" => st = "InsertingAborted"
       /\ RMInserting(st) \in {"Prepared", "Committed", "Aborted", Nothing}
<1>1. ASSUME NEW st \in Counting \cup Uncounted \cup {"None"}
      PROVE  /\ TMInserting(st) = "Prepared" => st = "InsertTMPreparing"
             /\ TMInserting(st) = "Committed" => st = "InsertingTMCommitted"
             /\ TMInserting(st) = "Aborted" => st = "InsertingTMAborted"
             /\ TMInserting(st) = "Closed" => st = "InsertingTMClosed"
             /\ TMInserting(st) \in PLms \cup {Nothing}
  BY <1>1 DEF TMInserting, Counting, Uncounted, PLms, Nothing
<1>2. ASSUME NEW st \in RMStates
      PROVE  /\ RMInserting(st) = "Prepared" =>
                  st \in {"InsertingPrepared", "InsertingPreparedAborted"}
             /\ RMInserting(st) = "Committed" => st = "InsertingCommitted"
             /\ RMInserting(st) = "Aborted" => st = "InsertingAborted"
             /\ RMInserting(st) \in {"Prepared", "Committed", "Aborted", Nothing}
  BY <1>2 DEF RMInserting, RMStates, Nothing
<1> QED
  BY <1>1, <1>2

(* A PLm that a leader learns of is the one its ES waits for, and no       *)
(* Prepared or Aborted comes to a TM that has forgotten the query: the     *)
(* unwraps of handle_plm and of handle_msg succeed for these.              *)
THEOREM UnwrapsAlwaysFindES == Spec => []UnwrapsFindES
<1>1. IndInv => PLmExpected
  <2> SUFFICES ASSUME IndInv, NEW n \in Nodes, inbox[n] # <<>>, Head(inbox[n]).type = "PLm"
               PROVE  LET plm == Head(inbox[n]).plm
                      IN IF n \in TMNodes
                         THEN tm[n].st = CASE plm = "Prepared" -> "InsertTMPreparing"
                                           [] plm = "Committed" -> "InsertingTMCommitted"
                                           [] plm = "Aborted" -> "InsertingTMAborted"
                                           [] plm = "Closed" -> "InsertingTMClosed"
                         ELSE rm[n] \in CASE plm = "Prepared" ->
                                               {"InsertingPrepared", "InsertingPreparedAborted"}
                                          [] plm = "Committed" -> {"InsertingCommitted"}
                                          [] plm = "Aborted" -> {"InsertingAborted"}
    BY DEF PLmExpected
  <2>1. PICK in \in Inputs(n) : in.item = Head(inbox[n])
    <3>1. [item |-> Head(inbox[n]), rest |-> Tail(inbox[n]), queues |-> chan] \in Inputs(n)
      BY DEF Inputs
    <3> QED
      BY <3>1
  <2>2. Head(inbox[n]) = PLm(Waits(n)) /\ Waits(n) # Nothing
    BY <2>1, PLmInput
  <2>3. Head(inbox[n]).plm = Waits(n)
    BY <2>2 DEF PLm
  <2>4. CASE n \in TMNodes
    <3>1. Waits(n) = TMInserting(tm[n].st) /\ tm[n].st \in Counting \cup Uncounted \cup {"None"}
      BY <2>4, TMStateFacts DEF Waits
    <3>2. PICK st \in Counting \cup Uncounted \cup {"None"} : st = tm[n].st
      BY <3>1
    <3>3. Waits(n) \in {"Prepared", "Committed", "Aborted", "Closed"}
      BY <2>2, <3>1, <3>2, WaitsFacts DEF PLms
    <3> QED
      BY <2>3, <2>4, <3>1, <3>2, <3>3, WaitsFacts
  <2>5. CASE n \notin TMNodes
    <3>1. n \in RMNodes /\ Waits(n) = RMInserting(rm[n])
      BY <2>5, NodeKinds DEF Waits
    <3>2. rm[n] \in RMStates
      BY <3>1 DEF IndInv, StateTypes
    <3>3. Waits(n) \in {"Prepared", "Committed", "Aborted"}
      BY <2>2, <3>1, <3>2, WaitsFacts
    <3> QED
      BY <2>3, <2>5, <3>1, <3>2, <3>3, WaitsFacts
  <2> QED
    BY <2>4, <2>5
<1>2. IndInv => AnswerFindsES
  <2> SUFFICES ASSUME IndInv, NEW n \in TMNodes, NEW in \in Inputs(n),
                      in.item.type = "Payload", in.item.payload # "Closed"
               PROVE  tm[n] # NoTM
    BY DEF AnswerFindsES
  <2>1. in.item.payload \in TMMessage
    <3>1. n \in Nodes /\ n \notin RMNodes
      BY NodeKinds
    <3> DEFINE s == <<in.item.from, leader_map[n][in.item.from]>>
    <3>2. /\ s \in Nodes /\ <<s, n>> \in Linked /\ in.item.payload \in Messages
          /\ From(s, n, in.item.payload)
      BY <3>1, InputFrom DEF IndInv
    <3> HIDE DEF s
    <3>3. <<s, n>>[1] = s /\ <<s, n>>[2] = n
      OBVIOUS
    <3>4. s \in RMNodes
      BY <3>1, <3>2, <3>3, LinkedKinds
    <3>5. s \notin TMNodes
      BY <3>4, NodeKinds
    <3> QED
      BY <3>2, <3>3, <3>5 DEF IndInv, StateTypes
  <2>2. in.item.payload \in {"Prepared", "Aborted"}
    BY <2>1 DEF TMMessage
  <2> QED
    BY <2>2, TMMessageFacts
<1>3. IndInv => UnwrapsFindES
  BY <1>1, <1>2 DEF UnwrapsFindES
<1> QED
  BY <1>3, Invariance, PTL

(* What a follower has replayed of each log. *)
LEMMA ReplayFacts ==
  /\ TMReplay(<<>>) = "None"
  /\ TMReplay(<<"Prepared">>) = "Preparing"
  /\ TMReplay(<<"Prepared", "Committed">>) = "Committed"
  /\ TMReplay(<<"Prepared", "Aborted">>) = "Aborted"
  /\ TMReplay(<<"Prepared", "Committed", "Closed">>) = "None"
  /\ TMReplay(<<"Prepared", "Aborted", "Closed">>) = "None"
  /\ RMReplay(<<>>) = "None"
  /\ RMReplay(<<"Prepared">>) = "Follower"
  /\ RMReplay(<<"Prepared", "Committed">>) = "None"
  /\ RMReplay(<<"Prepared", "Aborted">>) = "None"
<1>1. /\ TMReplay(<<>>) = "None" /\ RMReplay(<<>>) = "None"
  BY DEF TMReplay, RMReplay
<1>2. TMReplay(<<"Prepared">>) = "Preparing" /\ RMReplay(<<"Prepared">>) = "Follower"
  BY TMLogs, Logs DEF TMReplay, RMReplay
<1>3. /\ TMReplay(<<"Prepared", "Committed">>) = "Committed"
      /\ RMReplay(<<"Prepared", "Committed">>) = "None"
  BY TMLogs, Logs DEF TMReplay, RMReplay
<1>4. /\ TMReplay(<<"Prepared", "Aborted">>) = "Aborted"
      /\ RMReplay(<<"Prepared", "Aborted">>) = "None"
  BY TMLogs, Logs DEF TMReplay, RMReplay
<1>5. /\ TMReplay(<<"Prepared", "Committed", "Closed">>) = "None"
      /\ TMReplay(<<"Prepared", "Aborted", "Closed">>) = "None"
  BY TMLogs DEF TMReplay
<1> QED
  BY <1>1, <1>2, <1>3, <1>4, <1>5

(* A leader of the Master or of an RM that has processed all of the log    *)
(* holds what a follower has replayed: losing the Leadership, or giving a  *)
(* snapshot to a new node, neither loses a query nor invents one.          *)
THEOREM FollowersAlwaysAgree == Spec => []FollowersAgree
<1>1. IndInv => FollowersAgree
  <2> SUFFICES ASSUME IndInv, NEW n \in Nodes, Quiet, status[n] = "leader",
                      log_gen[Gid(n)] = Gen(n), next_insert[n] = NoInsert
               PROVE  IF n \in TMNodes
                      THEN TMReplay(log_plms[TM]) \in tm_reconfig_snapshot(tm[n])
                      ELSE rm_reconfig_snapshot(rm[n]) = RMReplay(log_plms[Gid(n)])
    BY DEF FollowersAgree
  <2>1. inbox[n] = <<>> /\ <<>> # <<LC>>
    BY DEF Quiet
  <2>2. Active(n) /\ IsCurrent(n)
    BY <2>1 DEF Active, IsCurrent
  <2>3. Waits(n) # Nothing => ~Stored(n)
    <3>1. Pipeline(n)
      BY DEF IndInv, PipelineInv
    <3>2. NoPLm(inbox[n])
      BY <2>1 DEF NoPLm
    <3>3. \A x : ~OnePLm(inbox[n], x)
      BY <3>2, OnePLmSome
    <3>4. next_insert[n].plms = <<>>
      BY DEF NoInsert
    <3>5. \A x : <<x>> # <<>>
      OBVIOUS
    <3>6. \A x : ~Persisted(n, x)
      BY <3>3, <3>4, <3>5 DEF Persisted
    <3> QED
      BY <3>1, <3>5, <3>6 DEF Pipeline, Gathered, Stored
  <2>4. CASE n \in TMNodes
    <3> DEFINE st == tm[n].st
               log == log_plms[TM]
    <3>1. /\ TMAgrees(n) /\ TMCurrent(n)
          /\ log \in {<<>>, <<"Prepared">>,
                      <<"Prepared", "Committed">>, <<"Prepared", "Committed", "Closed">>,
                      <<"Prepared", "Aborted">>, <<"Prepared", "Aborted", "Closed">>}
      BY <2>2, <2>4 DEF IndInv, TMLogInv, TMLog
    <3>2. Waits(n) = TMInserting(st) /\ st \in Counting \cup Uncounted \cup {"None"}
      BY <2>4, TMStateFacts DEF Waits
    <3>3. st \in {"InsertTMPreparing", "InsertingTMCommitted", "InsertingTMAborted",
                  "InsertingTMClosed"} => ~Stored(n)
      BY <2>3, <3>2 DEF TMInserting, Nothing
    <3>4. /\ Asked <=> log # <<>>
          /\ Decision = Nothing <=> log \in {<<>>, <<"Prepared">>}
          /\ Decision = "Committed" <=>
               log \in {<<"Prepared", "Committed">>, <<"Prepared", "Committed", "Closed">>}
          /\ Decision = "Aborted" <=>
               log \in {<<"Prepared", "Aborted">>, <<"Prepared", "Aborted", "Closed">>}
          /\ IsClosed <=>
               log \in {<<"Prepared", "Committed", "Closed">>, <<"Prepared", "Aborted", "Closed">>}
      BY <3>1 DEF Asked, Decision, IsClosed, Nothing
    <3>5. CASE st \in {"None", "WaitingInsertTMPrepared", "InsertTMPreparing"}
      <4>1. ~Asked \/ IsClosed
        BY <3>1, <3>3, <3>5 DEF TMAgrees
      <4>2. TMReplay(log) = "None"
        BY <3>4, <4>1, ReplayFacts
      <4> QED
        BY <2>4, <3>5, <4>2 DEF tm_reconfig_snapshot
    <3>6. CASE st \in {"Preparing", "InsertingTMCommitted", "InsertingTMAborted"}
      <4>1. Asked
        BY <3>1, <3>6 DEF TMAgrees, Counting
      <4>2. Decision = Nothing
        BY <3>1, <3>3, <3>6 DEF TMCurrent, Undecided
      <4>3. TMReplay(log) = "Preparing"
        BY <3>4, <4>1, <4>2, ReplayFacts
      <4> QED
        BY <2>4, <3>6, <4>3 DEF tm_reconfig_snapshot
    <3>7. CASE st \in {"Committed", "Aborted"}
      <4>1. Decision = st
        BY <3>1, <3>7 DEF TMAgrees
      <4>2. ~IsClosed
        BY <3>1, <3>7 DEF TMCurrent, Decided
      <4>3. log = <<"Prepared", st>>
        BY <3>4, <3>7, <4>1, <4>2
      <4>4. TMReplay(log) = st
        BY <3>7, <4>3, ReplayFacts
      <4> QED
        BY <2>4, <3>7, <4>4 DEF tm_reconfig_snapshot
    <3>8. CASE st = "InsertingTMClosed"
      <4>1. Decision # Nothing
        BY <3>1, <3>8 DEF TMAgrees
      <4>2. ~IsClosed
        BY <3>1, <3>3, <3>8 DEF TMCurrent, Decided
      <4>3. log \in {<<"Prepared", "Committed">>, <<"Prepared", "Aborted">>}
        BY <3>1, <3>4, <4>1, <4>2
      <4>4. TMReplay(log) \in {"Committed", "Aborted"}
        BY <4>3, ReplayFacts
      <4> QED
        BY <2>4, <3>8, <4>4 DEF tm_reconfig_snapshot
    <3> QED
      BY <3>2, <3>5, <3>6, <3>7, <3>8 DEF Counting, Uncounted
  <2>5. CASE n \notin TMNodes
    <3> DEFINE log == log_plms[Gid(n)]
    <3>1. n \in RMNodes /\ Waits(n) = RMInserting(rm[n]) /\ Gid(n) \in RMs
      BY <2>5, NodeKinds DEF Waits
    <3>2. rm[n] \in RMStates /\ RMCurrent(n)
      BY <2>2, <3>1 DEF IndInv, StateTypes, ProtocolInv, RMStateInv
    <3>3. rm[n] \in {"InsertingPrepared", "InsertingPreparedAborted", "InsertingCommitted",
                     "InsertingAborted"} => ~Stored(n)
      BY <2>3, <3>1 DEF RMInserting, Nothing
    <3>4. CASE rm[n] = "None"
      <4>1. log \in {<<>>, <<"Prepared", "Committed">>, <<"Prepared", "Aborted">>}
        BY <3>1, <3>2, <3>4 DEF RMCurrent, IndInv, ProtocolInv, RMLogInv
      <4> QED
        BY <2>5, <3>4, <4>1, ReplayFacts DEF rm_reconfig_snapshot
    <3>5. CASE rm[n] \in {"Working", "InsertingPrepared", "InsertingPreparedAborted"}
      <4>1. log = <<>>
        BY <3>2, <3>3, <3>5 DEF RMCurrent
      <4> QED
        BY <2>5, <3>5, <4>1, ReplayFacts DEF rm_reconfig_snapshot
    <3>6. CASE rm[n] \in {"Prepared", "InsertingCommitted", "InsertingAborted"}
      <4>1. log = <<"Prepared">>
        BY <3>2, <3>3, <3>6 DEF RMCurrent
      <4> QED
        BY <2>5, <3>6, <4>1, ReplayFacts DEF rm_reconfig_snapshot
    <3> QED
      BY <3>2, <3>4, <3>5, <3>6 DEF RMStates
  <2> QED
    BY <2>4, <2>5
<1> QED
  BY <1>1, Invariance, PTL

(* Only the insertion of a bundle adds to the log of an RM, and what it    *)
(* adds is the PLm that its leader waits for.                              *)
LEMMA RMLogStep ==
  ASSUME IndInv, [Next]_vars
  PROVE  (\A r \in RMs : log_plms'[r] = log_plms[r]) \/ \E m \in RMNodes : Inserts(m)
<1>1. ASSUME Quiet, NEW n \in Nodes, maybe_start_insert(n), UNCHANGED esVars
      PROVE  (\A r \in RMs : log_plms'[r] = log_plms[r]) \/ \E m \in RMNodes : Inserts(m)
  <2>1. CASE tablet_bundles[n] = <<>>
    <3>1. /\ log_plms' = [log_plms EXCEPT ![Gid(n)] = @ \o <<>>]
          /\ log_plms \in [Groups -> Seq(PLms)]
      BY <1>1, <2>1, InsertFacts
    <3>2. RMs \subseteq Groups
      BY TheirNodes
    <3>3. \A r \in RMs : log_plms[r] \in Seq(PLms) /\ log_plms[r] \o <<>> = log_plms[r]
      BY <3>1, <3>2
    <3> QED
      BY <3>1, <3>2, <3>3
  <2>2. CASE tablet_bundles[n] # <<>> /\ n \in RMNodes
    BY <1>1, <2>2, InsertRM
  <2>3. CASE n \in TMNodes
    <3>1. /\ log_plms' = [log_plms EXCEPT ![Gid(n)] = @ \o tablet_bundles[n]]
          /\ log_plms \in [Groups -> Seq(PLms)]
      BY <1>1, InsertFacts
    <3>2. Gid(n) = TM /\ TM \notin RMs /\ RMs \subseteq Groups
      BY <2>3, NodeKinds
    <3> QED
      BY <3>1, <3>2
  <2> QED
    BY <2>1, <2>2, <2>3, NodeKinds
<1>2. CASE UNCHANGED vars
  BY <1>2 DEF vars, netVars, logVars
<1>3. CASE \E n \in TMNodes : Start(n) \/ CancelExternalDDLQuery(n)
  BY <1>3 DEF Start, CancelExternalDDLQuery, Cancels, netVars, logVars
<1>4. CASE Handle
  BY <1>4 DEF Handle, HandleTMInput, Panic, HandleRMInput, logVars
<1>5. CASE NetworkWork /\ UNCHANGED esVars
  BY <1>1, <1>5 DEF NetworkWork, deliver_blocked_messages, Receive, process_bundle, logVars
<1>6. CASE Insert
  BY <1>6 DEF Insert, tm_start_inserting, rm_start_inserting, logVars
<1>7. CASE Event
  BY <1>7 DEF Event, BecomeFollower, LoseLeadership, NetworkEvent, RemoteLeaderChangedGossip,
              GainLeadership, logVars
<1> QED
  BY <1>2, <1>3, <1>4, <1>5, <1>6, <1>7 DEF Next

(* What each log of an RM means. *)
LEMMA OutcomeFacts ==
  /\ Outcome(<<>>) = "working"
  /\ Outcome(<<"Prepared">>) = "prepared"
  /\ Outcome(<<"Prepared", "Committed">>) = "committed"
  /\ Outcome(<<"Prepared", "Aborted">>) = "aborted"
BY TMLogs, Logs DEF Outcome

(* The logs of the RMs implement TransactionCommit: however leaders of the *)
(* Master and of the RMs change, no RM persists Committed before every RM  *)
(* has persisted Prepared, and none persists another outcome.              *)
THEOREM Refinement == Spec => ImplementsTransactionCommit
<1> DEFINE outcome == [r \in RMs |-> Outcome(log_plms[r])]
<1>1. Init => Abstract!Init
  <2> SUFFICES ASSUME Init
               PROVE  Abstract!Init
    OBVIOUS
  <2>1. \A r \in RMs : log_plms[r] = <<>>
    BY NodeKinds DEF Init, NetInit
  <2> QED
    BY <2>1, OutcomeFacts DEF Abstract!Init
<1>2. IndInv /\ [Next]_vars => [Abstract!Next]_outcome
  <2> SUFFICES ASSUME IndInv, [Next]_vars, ~\A r \in RMs : log_plms'[r] = log_plms[r]
               PROVE  Abstract!Next
    OBVIOUS
  <2>1. PICK m \in RMNodes : Inserts(m)
    BY RMLogStep
  <2> DEFINE r == Gid(m)
  <2>2. /\ r \in RMs /\ RMs \subseteq Groups
        /\ log_plms \in [Groups -> Seq(PLms)]
    BY TheirNodes, TypeFacts DEF IndInv, NetworkInv
  <2>3. \A q \in RMs : log_plms[q] \in
          {<<>>, <<"Prepared">>, <<"Prepared", "Committed">>, <<"Prepared", "Aborted">>}
    BY DEF IndInv, ProtocolInv, RMLogInv
  <2>4. /\ \A q \in RMs : outcome[q] = Outcome(log_plms[q])
        /\ outcome' = [outcome EXCEPT ![r] = Outcome(log_plms'[r])]
    BY <2>1, <2>2 DEF Inserts
  <2>5. /\ rm[m] = "InsertingCommitted" => Decision = "Committed"
        /\ rm[m] = "InsertingAborted" => Decision = "Aborted"
    BY <2>1 DEF Inserts, IndInv, ProtocolInv, RMStateInv
  <2>6. \A q \in RMs :
          /\ Decision = "Committed" => HasPrepared(q)
          /\ HasOutcome(q) => Resolved(q)
    BY OutcomeResolved DEF IndInv, ProtocolInv, TMStateInv, PreparedFrom
  <2>7. \A q \in RMs :
          /\ Decision = "Committed" =>
               log_plms[q] \in {<<"Prepared">>, <<"Prepared", "Committed">>}
          /\ Decision = "Aborted" =>
               log_plms[q] \in {<<>>, <<"Prepared">>, <<"Prepared", "Aborted">>}
    BY <2>3, <2>6, Logs DEF HasPrepared, HasOutcome, Resolved
  <2> HIDE DEF outcome
  <2>8. CASE log_plms[r] = <<>> /\ log_plms'[r] = <<"Prepared">>
    <3>1. outcome[r] = "working" /\ outcome' = [outcome EXCEPT ![r] = "prepared"]
      BY <2>2, <2>4, <2>8, OutcomeFacts
    <3> QED
      BY <2>2, <3>1 DEF Abstract!Next, Abstract!Prepare, Abstract!Persist, outcome
  <2>9. CASE /\ rm[m] = "InsertingCommitted"
             /\ log_plms[r] = <<"Prepared">> /\ log_plms'[r] = <<"Prepared", "Committed">>
    <3>1. /\ outcome[r] = "prepared" /\ outcome' = [outcome EXCEPT ![r] = "committed"]
          /\ \A q \in RMs : outcome[q] \in {"prepared", "committed"}
      BY <2>2, <2>4, <2>5, <2>7, <2>9, OutcomeFacts
    <3> QED
      BY <2>2, <3>1 DEF Abstract!Next, Abstract!Commit, Abstract!Persist, outcome
  <2>10. CASE /\ rm[m] = "InsertingAborted"
              /\ log_plms[r] = <<"Prepared">> /\ log_plms'[r] = <<"Prepared", "Aborted">>
    <3>1. /\ outcome[r] = "prepared" /\ outcome' = [outcome EXCEPT ![r] = "aborted"]
          /\ \A q \in RMs : outcome[q] # "committed"
      BY <2>2, <2>4, <2>5, <2>7, <2>10, OutcomeFacts
    <3> QED
      BY <2>2, <3>1 DEF Abstract!Next, Abstract!Abort, Abstract!Persist, outcome
  <2> QED
    BY <2>1, <2>8, <2>9, <2>10, InsertedLog
<1> QED
  BY <1>1, <1>2, Invariance, PTL DEF Spec, ImplementsTransactionCommit, Abstract!Spec
=============================================================================
