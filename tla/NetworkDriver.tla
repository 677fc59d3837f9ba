---------------------------- MODULE NetworkDriver ----------------------------
(***************************************************************************)
(* What the execution strategies of a PaxosGroup run on: the group's       *)
(* replicated log as its leader sees it above the PaxosDriver, the         *)
(* LeaderMap, the insertion cycle of bundles and the NetworkDriver, which  *)
(* filters and buffers the messages of remote leaders (slave.rs,           *)
(* network_driver.rs, server.rs).                                          *)
(*                                                                         *)
(* A node <<g, k>> stands for the node of group g while it holds the       *)
(* Leadership of generation k.  A follower has no state of its own here:   *)
(* it is what it replays from the log, log_leader_map and log_plms.        *)
(* This module has no behaviour of its own.  A module that EXTENDS it adds *)
(* the execution strategies: they handle Inputs, send with Outgoing, and   *)
(* push PLms to tablet_bundle.                                             *)
(***************************************************************************)
EXTENDS Integers, Sequences, FiniteSets, FiniteSetsExt, SequencesExt

CONSTANTS
  Groups,            \* the PaxosGroupIds
  MaxGen,            \* bound on the generation of a Leadership
  Links,             \* the pairs of groups that send each other messages
  LeaderChanges      \* bounds on the leader changes of the groups: one of
                     \* these functions is not exceeded

ASSUME NetworkAssumption ==
  /\ MaxGen \in Nat
  /\ Links \subseteq Groups \X Groups
  /\ LeaderChanges \subseteq [Groups -> 0 .. MaxGen]

VARIABLES
  log_gen,         \* generation of the last LeaderChanged of each group's log
  log_leader_map,  \* the LeaderMap that replaying each group's log yields
  log_plms,        \* the PLms of the bundles of each group's log
  status,          \* "none": not elected yet, "leader", "retired", or "panicked"
                   \* (the process has ended)
  leader_map,      \* SlaveContext::leader_map, as generations
  remote_leader_changes,  \* SlaveBundle::remote_leader_changes
  tablet_bundle,   \* the PLms gathered by the Tablet
  tablet_bundles,  \* the PLms the Tablet has handed to the Slave
  next_insert,     \* the bundle in the log that its leader has yet to learn
  network_buffer,  \* NetworkDriver::network_buffer
  chan,            \* messages under way, one queue per pair of nodes
  inbox            \* SlaveForwardMsgs still to be handled by the node

logVars == <<log_gen, log_leader_map, log_plms>>
bundleVars == <<remote_leader_changes, tablet_bundle, tablet_bundles, next_insert>>
netVars == <<logVars, status, leader_map, bundleVars, network_buffer, chan, inbox>>

Gens == 0 .. MaxGen
Nodes == Groups \X Gens
Gid(n) == n[1]
Gen(n) == n[2]

(* <<src, n>> where the group of src sends messages to the group of n.  A  *)
(* LeaderMap is only ever read for a group messages are exchanged with, so *)
(* gossip between other groups is left out.                                *)
Linked == {e \in Nodes \X Nodes : <<Gid(e[1]), Gid(e[2])>> \in Links}
Peers == {e \in Nodes \X Nodes : e \in Linked \/ <<e[2], e[1]>> \in Linked}

NoInsert == [rlcs |-> <<>>, plms |-> <<>>]
EmptyBuffer == [gen |-> 0, payloads |-> <<>>]

RLC(g, k) == [type |-> "RemoteLeaderChanged", gid |-> g, gen |-> k]
LC == [type |-> "LeaderChanged"]
PLm(p) == [type |-> "PLm", plm |-> p]
Unblock(g, k) == [type |-> "Unblock", gid |-> g, gen |-> k]
Payload(g, p) == [type |-> "Payload", from |-> g, payload |-> p]

NetInit ==
  /\ log_gen = [g \in Groups |-> 0]
  /\ log_leader_map = [g \in Groups |-> [h \in Groups |-> 0]]
  /\ log_plms = [g \in Groups |-> <<>>]
  /\ status = [n \in Nodes |-> IF Gen(n) = 0 THEN "leader" ELSE "none"]
  /\ leader_map = [n \in Nodes |-> [h \in Groups |-> 0]]
  /\ remote_leader_changes = [n \in Nodes |-> <<>>]
  /\ tablet_bundle = [n \in Nodes |-> <<>>]
  /\ tablet_bundles = [n \in Nodes |-> <<>>]
  /\ next_insert = [n \in Nodes |-> NoInsert]
  /\ network_buffer = [n \in Nodes |-> [h \in Groups |-> EmptyBuffer]]
  /\ chan = [e \in Linked |-> <<>>]
  /\ inbox = [n \in Nodes |-> <<>>]

(* The forwarded inputs are handled in one go: the Tablets and Coords that *)
(* handle them share nothing with anything else that runs.                 *)
Quiet == \A n \in Nodes : inbox[n] = <<>>
-----------------------------------------------------------------------------
(* Sending *)

(* send_to_slave_common: the leader n sends out[h] to the leader it knows  *)
(* of group h; queues is chan without the message n is handling.  A node   *)
(* that is no longer leader ignores every RemoteMessage, so what is sent   *)
(* to it is dropped at once.  leader_map is primed: a RemoteLeaderChanged  *)
(* updates it before the handlers run.                                     *)
Outgoing(n, queues, out) ==
  [e \in Linked |->
     IF /\ e[1] = n
        /\ Gid(e[2]) \in DOMAIN out
        /\ Gen(e[2]) = leader_map'[n][Gid(e[2])]
        /\ status[e[2]] = "leader"
     THEN Append(queues[e], out[Gid(e[2])])
     ELSE queues[e]]
-----------------------------------------------------------------------------
(* Receiving *)

(* Mutant: no second change of a group is pushed. *)
PushRLC_once(n, g, k) ==
  remote_leader_changes' =
    IF \E rlc \in Range(remote_leader_changes[n]) : rlc.gid = g
    THEN remote_leader_changes
    ELSE [remote_leader_changes EXCEPT ![n] = Append(@, RLC(g, k))]

(* A RemoteLeaderChangedPLm is pushed; pushing the same again would change *)
(* nothing when the bundle is processed.                                   *)
PushRLC(n, g, k) ==
  remote_leader_changes' =
    IF RLC(g, k) \in Range(remote_leader_changes[n])
    THEN remote_leader_changes
    ELSE [remote_leader_changes EXCEPT ![n] = Append(@, RLC(g, k))]

(* Mutants: a message is compared to the LeaderMap and not to the buffer;  *)
(* one of a newer leader is delivered at once.                             *)
Known_unbuffered(n, g) == leader_map[n][g]

Delivers_newer(n, src) ==
  /\ chan[<<src, n>>] # <<>>
  /\ status[n] = "leader"
  /\ leader_map[n][Gid(src)] =< Gen(src)

(* NetworkDriver::receive, of the first message from src: it is delivered, *)
(* or else dropped or buffered.                                            *)
Known(n, g) ==
  LET buffer == network_buffer[n][g]
  IN IF buffer.payloads = <<>> THEN leader_map[n][g] ELSE buffer.gen

Delivers(n, src) ==
  /\ chan[<<src, n>>] # <<>>
  /\ status[n] = "leader"
  /\ network_buffer[n][Gid(src)].payloads = <<>>
  /\ leader_map[n][Gid(src)] = Gen(src)

Receive(n, src) ==
  LET g == Gid(src)
      k == Gen(src)
      buffered == network_buffer[n][g].payloads
      payload == Head(chan[<<src, n>>])
      Buffer(payloads) ==
        network_buffer' = [network_buffer EXCEPT ![n][g] = [gen |-> k, payloads |-> payloads]]
  IN /\ chan[<<src, n>>] # <<>>
     /\ status[n] = "leader"
     /\ ~Delivers(n, src)
     /\ chan' = [chan EXCEPT ![<<src, n>>] = Tail(@)]
     /\ \/ /\ k < Known(n, g)
           /\ UNCHANGED <<network_buffer, remote_leader_changes>>
        \/ /\ k = Known(n, g)
           /\ Buffer(Append(buffered, payload))
           /\ UNCHANGED remote_leader_changes
        \/ /\ k > Known(n, g)
           /\ Buffer(<<payload>>)
           /\ PushRLC(n, g, k)
     /\ UNCHANGED <<logVars, status, leader_map, tablet_bundle, tablet_bundles, next_insert,
                    inbox>>

(* The input that the node n handles next: what was forwarded to it, else  *)
(* a message that the NetworkDriver delivers; with what is left after it.  *)
Inputs(n) ==
  IF inbox[n] # <<>>
  THEN {[item |-> Head(inbox[n]), rest |-> Tail(inbox[n]), queues |-> chan]}
  ELSE {[item |-> Payload(Gid(e[1]), Head(chan[e])), rest |-> <<>>,
         queues |-> [chan EXCEPT ![e] = Tail(@)]] :
          e \in {d \in Linked : d[2] = n /\ Delivers(n, d[1]) /\ Quiet}}

(* RemoteLeaderChangedGossip.  Leaders broadcast their Leadership when they *)
(* gain it and periodically after that; a gossip can arrive late.  It only *)
(* adds to the next bundle, so it may as well arrive once the last one is  *)
(* processed, and not at all if there is no next one: the bundles of a     *)
(* leader that the log has deposed are never chosen.                       *)
RemoteLeaderChangedGossip(n, src) ==
  /\ status[n] = "leader"
  /\ log_gen[Gid(n)] = Gen(n)
  /\ status[src] # "none"
  /\ next_insert[n] = NoInsert
  /\ Gen(src) > leader_map[n][Gid(src)]
  /\ RLC(Gid(src), Gen(src)) \notin Range(remote_leader_changes[n])
  /\ PushRLC(n, Gid(src), Gen(src))
  /\ UNCHANGED <<logVars, status, leader_map, tablet_bundle, tablet_bundles, next_insert,
                 network_buffer, chan, inbox>>

(* RemoteLeaderChanged: leader_map' of n once the change is handled. *)
RemoteLeaderChanged(lm, rlc) ==
  IF rlc.gen > lm[rlc.gid] THEN [lm EXCEPT ![rlc.gid] = rlc.gen] ELSE lm

(* The LeaderMap after all of rlcs: that of the newest Leaderships. *)
Replayed(lm, rlcs) ==
  [g \in Groups |-> Max({lm[g]} \cup {rlc.gen : rlc \in {c \in Range(rlcs) : c.gid = g}})]
-----------------------------------------------------------------------------
(* The insertion cycle *)

(* maybe_start_insert: every Tablet has handed over its bundle, and the    *)
(* PaxosDriver gets the bundle into the log, which takes n to still hold   *)
(* the last Leadership of the log; otherwise it is never chosen and the    *)
(* cycle ends.  That n goes on, not knowing, until process_bundle.  (What  *)
(* happens while the bundle is proposed but not chosen yet may as well     *)
(* happen after it is chosen: nobody can see the difference, and no        *)
(* LeaderChanged comes in between.)  Bundles are inserted all the time;    *)
(* the empty ones are left out.                                            *)
maybe_start_insert(n) ==
  LET g == Gid(n)
      bundle == [rlcs |-> remote_leader_changes[n], plms |-> tablet_bundles[n]]
  IN /\ status[n] = "leader"
     /\ log_gen[g] = Gen(n)
     /\ next_insert[n] = NoInsert
     /\ bundle # NoInsert
     /\ next_insert' = [next_insert EXCEPT ![n] = bundle]
     /\ log_leader_map' = [log_leader_map EXCEPT ![g] = Replayed(@, bundle.rlcs)]
     /\ log_plms' = [log_plms EXCEPT ![g] = @ \o bundle.plms]
     /\ remote_leader_changes' = [remote_leader_changes EXCEPT ![n] = <<>>]
     /\ tablet_bundles' = [tablet_bundles EXCEPT ![n] = <<>>]
     /\ UNCHANGED <<log_gen, status, leader_map, tablet_bundle, network_buffer, chan, inbox>>

(* The leader learns that its bundle is in the log: process_bundle         *)
(* forwards what is in it, and deliver_blocked_messages then goes over its *)
(* RemoteLeaderChangedPLms once more.                                      *)
process_bundle(n) ==
  LET rlcs == next_insert[n].rlcs
      plms == next_insert[n].plms
  IN /\ status[n] = "leader"
     /\ next_insert[n] # NoInsert
     /\ inbox' = [inbox EXCEPT ![n] =
          rlcs \o [i \in DOMAIN plms |-> PLm(plms[i])]
               \o [i \in DOMAIN rlcs |-> Unblock(rlcs[i].gid, rlcs[i].gen)]]
     /\ next_insert' = [next_insert EXCEPT ![n] = NoInsert]
     /\ UNCHANGED <<logVars, status, leader_map, remote_leader_changes, tablet_bundle,
                    tablet_bundles, network_buffer, chan>>

(* Mutant: off by one. *)
Unblocked_strictly(n, g, k) ==
  /\ k = leader_map[n][g]
  /\ k > network_buffer[n][g].gen

(* The LeaderMap has caught up with what is buffered for g, or overtaken   *)
(* it.  A bundle can hold several changes of g: only the last one counts.  *)
Unblocked(n, g, k) ==
  /\ k = leader_map[n][g]
  /\ k >= network_buffer[n][g].gen

BlockedOf(n, g) ==
  [i \in DOMAIN network_buffer[n][g].payloads |-> Payload(g, network_buffer[n][g].payloads[i])]

(* deliver_blocked_messages, for one RemoteLeaderChangedPLm: the buffer of *)
(* its group is emptied; what it holds is delivered if it is of this very  *)
(* Leadership, and dropped if it is of an older one.                       *)
deliver_blocked_messages(n) ==
  LET g == Head(inbox[n]).gid
      k == Head(inbox[n]).gen
  IN /\ inbox[n] # <<>>
     /\ Head(inbox[n]).type = "Unblock"
     /\ \/ /\ Unblocked(n, g, k)
           /\ network_buffer' = [network_buffer EXCEPT ![n][g] = EmptyBuffer]
           /\ inbox' = [inbox EXCEPT ![n] =
                IF k = network_buffer[n][g].gen THEN BlockedOf(n, g) \o Tail(@) ELSE Tail(@)]
        \/ /\ ~Unblocked(n, g, k)
           /\ inbox' = [inbox EXCEPT ![n] = Tail(@)]
           /\ UNCHANGED network_buffer
     /\ UNCHANGED <<logVars, status, leader_map, bundleVars, chan>>
-----------------------------------------------------------------------------
(* Leadership *)

(* LeaderChanged enters the log of g and its node takes over from what the *)
(* log says.  The old leader goes on until it learns of it.  That may      *)
(* happen at any time, within the bounds; a leader whose process has ended *)
(* sends no heartbeats, and is replaced in any case.                       *)
GainLeadership(g) ==
  LET k == log_gen[g] + 1
      n == <<g, k>>
  IN /\ log_gen' = [log_gen EXCEPT ![g] = k]
     /\ \/ \E bound \in LeaderChanges : \A h \in Groups : log_gen'[h] =< bound[h]
        \/ status[<<g, log_gen[g]>>] = "panicked" /\ k =< MaxGen
     /\ log_leader_map' = [log_leader_map EXCEPT ![g][g] = k]
     /\ status' = [status EXCEPT ![n] = "leader"]
     /\ leader_map' = [leader_map EXCEPT ![n] = log_leader_map'[g]]
     /\ inbox' = [inbox EXCEPT ![n] = <<LC>>]
     /\ UNCHANGED <<log_plms, bundleVars, network_buffer, chan>>

(* The old leader handles LeaderChanged, after the bundles before it in    *)
(* the log.  From then on it is a follower.                                *)
LoseLeadership(n) ==
  /\ status[n] = "leader"
  /\ log_gen[Gid(n)] > Gen(n)
  /\ next_insert[n] = NoInsert
  /\ status' = [status EXCEPT ![n] = "retired"]
  /\ leader_map' = [leader_map EXCEPT ![n] = [h \in Groups |-> 0]]
  /\ remote_leader_changes' = [remote_leader_changes EXCEPT ![n] = <<>>]
  /\ tablet_bundle' = [tablet_bundle EXCEPT ![n] = <<>>]
  /\ tablet_bundles' = [tablet_bundles EXCEPT ![n] = <<>>]
  /\ network_buffer' = [network_buffer EXCEPT ![n] = [h \in Groups |-> EmptyBuffer]]
  /\ chan' = [e \in Linked |-> IF e[2] = n THEN <<>> ELSE chan[e]]
  /\ UNCHANGED <<logVars, next_insert, inbox>>
-----------------------------------------------------------------------------
(* The work a group always gets done in time: its leader reads the queues  *)
(* and its bundles are inserted.                                           *)
NetworkWork ==
  \/ \E n \in Nodes : deliver_blocked_messages(n)
  \/ /\ Quiet
     /\ \/ \E e \in Linked : Receive(e[2], e[1])
        \/ \E n \in Nodes : maybe_start_insert(n) \/ process_bundle(n)

(* What may happen at any time, and leaves the execution strategies alone. *)
NetworkEvent ==
  /\ Quiet
  /\ \/ \E e \in Peers : RemoteLeaderChangedGossip(e[2], e[1])
     \/ \E g \in Groups : GainLeadership(g)
=============================================================================
