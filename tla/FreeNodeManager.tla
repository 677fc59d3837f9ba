--------------------------- MODULE FreeNodeManager ---------------------------
(***************************************************************************)
(* The Master's management of nodes: FreeNodes register, send heartbeats,  *)
(* and are granted to groups that replace dead nodes or made into new      *)
(* SlaveGroups (free_node_manager.rs, slave_group_create_es.rs, the first  *)
(* half of slave_reconfig_es.rs, master.rs), and the life of a node that   *)
(* starts as a FreeNode (node.rs).                                         *)
(*                                                                         *)
(* The Master's log is one sequence here, that each Master node replays at *)
(* its own pace; the Paxos below it is PaxosInstance.  Two things that a   *)
(* group does are left to the environment: asking for nodes, and telling   *)
(* the Master that it has taken them in.  The nodes that the new ones      *)
(* replace are not among Eids.                                             *)
(***************************************************************************)
EXTENDS Integers, Sequences, FiniteSets, FiniteSetsExt, SequencesExt

CONSTANTS
  MasterNodes,      \* the nodes of the Master group
  FirstLeader,      \* the one that leads at first
  Eids,             \* the nodes that register
  Gids,             \* the groups that may ask for nodes to replace dead ones
  MasterGid,        \* the one of them that is the Master, if any
  Sids,             \* the SlaveGroupIds of new groups
  slave_group_size, \* MasterConfig::slave_group_size
  HEARTBEAT_DEAD_THRESHOLD,  \* 6 in the code
  HEARTBEAT_BACKUP_VALUE,    \* 3 in the code
  MaxRequest,       \* bound on the nodes that are asked for at once
  MaxGen,           \* bound on the leader changes
  MaxLog            \* bound on the length of the log

ASSUME FreeNodeAssumption ==
  /\ FirstLeader \in MasterNodes
  /\ IsFiniteSet(Eids)
  /\ IsFiniteSet(Sids)
  /\ Gids \cap Sids = {}
  /\ slave_group_size \in Nat \ {0}
  /\ HEARTBEAT_BACKUP_VALUE \in Nat
  /\ HEARTBEAT_DEAD_THRESHOLD \in Nat
  /\ HEARTBEAT_BACKUP_VALUE < HEARTBEAT_DEAD_THRESHOLD
  /\ {MaxRequest, MaxGen, MaxLog} \subseteq Nat

VARIABLES
  log,                      \* the Master's log
  next_index,               \* how much of it each Master node has handled
  lid,                      \* the Master's Leadership, as each node knows it
  free_nodes,               \* FreeNodeManager::free_nodes
  pending_new_free_nodes,   \* FreeNodeManager::pending_new_free_nodes
  free_node_heartbeat,      \* FreeNodeManager::free_node_heartbeat
  requested_reconfig_eids,  \* FreeNodeManager::requested_reconfig_eids
  members,       \* the nodes that each group was given, as far as replayed
  reconfig_es,   \* SlaveReconfigES::state; for the Master, do_reconfig
  create_es,     \* SlaveGroupCreateES::state
  confirmed,     \* the eids in SlaveGroupCreateES's WaitingConfirmed
  gossip,        \* the new SlaveGroups in GossipData
  master_bundle, \* the PLms that the ESs have pushed to the next bundle
  node,          \* the state of each node in Eids
  registered,    \* the FreeNodeType of the RegisterFreeNode that has arrived
  down,          \* messages under way from each Master node to each of Eids
  confirms       \* the ConfirmSlaveCreations under way

managerVars == <<free_nodes, pending_new_free_nodes, free_node_heartbeat,
                 requested_reconfig_eids>>
esVars == <<members, reconfig_es, create_es, confirmed, gossip, master_bundle>>
netVars == <<node, registered, down, confirms>>
vars == <<log, next_index, lid, managerVars, esVars, netVars>>

Lids == [gen : 0 .. MaxGen, eid : MasterNodes]
Groups == Gids \cup Sids

FreeNodeType == {"NewSlaveFreeNode", "ReconfigFreeNode"}

DNE == [st |-> "DNE"]
FreeNode(l) == [st |-> "FreeNode", lid |-> l]
Slave(g) == [st |-> "Slave", group |-> g]
PostExistence == [st |-> "PostExistence"]

LeaderChanged(l) == [type |-> "LeaderChanged", lid |-> l]
NoPLm ==
  [type |-> "Bundle", new_nodes |-> {}, nodes_dead |-> {}, given |-> [g \in Groups |-> {}],
   pushed |-> {}]

FreeNodeRegistered(l) == [type |-> "FreeNodeRegistered", lid |-> l]
MasterLeadershipId(l) == [type |-> "MasterLeadershipId", lid |-> l]
CreateSlaveGroup(g) == [type |-> "CreateSlaveGroup", sid |-> g]
ShutdownNode == [type |-> "ShutdownNode"]

is_leader(m) == lid[m].eid = m

Init ==
  LET first == [gen |-> 0, eid |-> FirstLeader]
  IN /\ log = <<>>
     /\ next_index = [m \in MasterNodes |-> 0]
     /\ lid = [m \in MasterNodes |-> first]
     /\ free_nodes = [m \in MasterNodes |-> {}]
     /\ pending_new_free_nodes = [m \in MasterNodes |-> {}]
     /\ free_node_heartbeat = [m \in MasterNodes |-> [e \in Eids |-> 0]]
     /\ requested_reconfig_eids = [m \in MasterNodes |-> [g \in Gids |-> 0]]
     /\ members = [m \in MasterNodes |-> [g \in Groups |-> {}]]
     /\ reconfig_es = [m \in MasterNodes |-> [g \in Gids |-> "None"]]
     /\ create_es = [m \in MasterNodes |-> [g \in Sids |-> "None"]]
     /\ confirmed = [m \in MasterNodes |-> [g \in Sids |-> {}]]
     /\ gossip = [m \in MasterNodes |-> {}]
     /\ master_bundle = [m \in MasterNodes |-> {}]
     /\ node = [e \in Eids |-> DNE]
     /\ registered = [e \in Eids |-> "None"]
     /\ down = [m \in MasterNodes |-> [e \in Eids |-> <<>>]]
     /\ confirms = {}
-----------------------------------------------------------------------------
(* A leader that has handled all of the log.  What it hears only goes into *)
(* its next bundle, so that hearing it while the last one is still to be   *)
(* handled is no different from hearing it after that, and a leader with a *)
(* LeaderChanged ahead will insert no bundle.                              *)
Active(m) == is_leader(m) /\ next_index[m] = Len(log)

(* What FreeNodes tell the Master *)

(* RegisterFreeNode, sent once when the node is started. *)
handle_register(m, e) ==
  /\ Active(m)
  /\ registered[e] = "None"
  /\ \E type \in FreeNodeType : registered' = [registered EXCEPT ![e] = type]
  /\ pending_new_free_nodes' = [pending_new_free_nodes EXCEPT ![m] = @ \cup {e}]
  /\ UNCHANGED <<log, next_index, lid, free_nodes, free_node_heartbeat,
                 requested_reconfig_eids, esVars, node, down, confirms>>

(* FreeNodeHeartbeat, of a node that knows the Leadership of m. *)
handle_heartbeat(m, e) ==
  /\ Active(m)
  /\ node[e] = FreeNode(lid[m])
  /\ e \in free_nodes[m]
  /\ free_node_heartbeat' = [free_node_heartbeat EXCEPT ![m][e] = 0]
  /\ UNCHANGED <<log, next_index, lid, free_nodes, pending_new_free_nodes,
                 requested_reconfig_eids, esVars, netVars>>

(* FreeNodeHeartbeatTimer; beyond the threshold, counts are all alike. *)
handle_timer(m) ==
  /\ Active(m)
  /\ free_node_heartbeat' = [free_node_heartbeat EXCEPT ![m] =
       [e \in Eids |-> IF e \in free_nodes[m] /\ @[e] < HEARTBEAT_DEAD_THRESHOLD
                       THEN @[e] + 1 ELSE @[e]]]
  /\ UNCHANGED <<log, next_index, lid, free_nodes, pending_new_free_nodes,
                 requested_reconfig_eids, esVars, netVars>>
-----------------------------------------------------------------------------
(* Groups that replace dead nodes *)

(* Mutant: also while a reconfiguration of the group is under way. *)
request_new_eids_again(m, g, count) ==
  /\ Active(m)
  /\ reconfig_es' = [reconfig_es EXCEPT ![m][g] = "WaitingRequestedNodes"]
  /\ requested_reconfig_eids' = [requested_reconfig_eids EXCEPT ![m][g] = count]
  /\ UNCHANGED <<log, next_index, lid, free_nodes, pending_new_free_nodes,
                 free_node_heartbeat, members, create_es, confirmed, gossip, master_bundle,
                 netVars>>

(* NodesDead, or the Master's PaxosGroupFailureDetector: request_new_eids, *)
(* unless a reconfiguration of the group is under way.                     *)
request_new_eids(m, g, count) ==
  /\ Active(m)
  /\ reconfig_es[m][g] = "None"
  /\ reconfig_es' = [reconfig_es EXCEPT ![m][g] = "WaitingRequestedNodes"]
  /\ requested_reconfig_eids' = [requested_reconfig_eids EXCEPT ![m][g] = count]
  /\ UNCHANGED <<log, next_index, lid, free_nodes, pending_new_free_nodes,
                 free_node_heartbeat, members, create_es, confirmed, gossip, master_bundle,
                 netVars>>

(* SlaveGroupReconfigured *)
handle_reconfigured_msg(m, g) ==
  /\ Active(m)
  /\ reconfig_es[m][g] = "Reconfig"
  /\ reconfig_es' = [reconfig_es EXCEPT ![m][g] = "InsertingCompletion"]
  /\ master_bundle' = [master_bundle EXCEPT ![m] = @ \cup {g}]
  /\ UNCHANGED <<log, next_index, lid, managerVars, members, create_es, confirmed, gossip,
                 netVars>>
-----------------------------------------------------------------------------
(* The bundles of the Master *)

(* Mutant: dead nodes may be given away. *)
available_dead(m, type) ==
  {e \in free_nodes[m] \cup pending_new_free_nodes[m] : registered[e] = type}

nodes_dead(m) ==
  {e \in free_nodes[m] : free_node_heartbeat[m][e] >= HEARTBEAT_DEAD_THRESHOLD}

(* The nodes of a type that process may give away: first those heard of    *)
(* recently, then all of them, then the new ones; without the dead ones.   *)
available(m, type) ==
  LET recent == {e \in free_nodes[m] : free_node_heartbeat[m][e] < HEARTBEAT_BACKUP_VALUE}
  IN {e \in (recent \cup free_nodes[m] \cup pending_new_free_nodes[m]) \ nodes_dead(m) :
        registered[e] = type}

Disjoint(given) ==
  \A g, h \in DOMAIN given : g # h => given[g] \cap given[h] = {}

(* Requests are granted one after the other, in full, up to the first that *)
(* takes more nodes than are left.                                         *)
Grants(m, given) ==
  LET free == available(m, "ReconfigFreeNode")
      requested == {g \in Gids : requested_reconfig_eids[m][g] > 0}
      granted == {g \in Gids : given[g] # {}}
      left == free \ UNION {given[g] : g \in Gids}
  IN /\ \A g \in Gids : given[g] \subseteq free
     /\ \A g \in granted : Cardinality(given[g]) = requested_reconfig_eids[m][g]
     /\ granted # requested =>
          \E g \in requested \ granted : requested_reconfig_eids[m][g] > Cardinality(left)

(* New groups with new SlaveGroupIds, as long as there are enough nodes. *)
NewSlaveGroups(m, given) ==
  LET free == available(m, "NewSlaveFreeNode")
      new == {g \in Sids : given[g] # {}}
  IN /\ \A g \in Sids : given[g] \subseteq free
     /\ \A g \in new : Cardinality(given[g]) = slave_group_size /\ members[m][g] = {}
     /\ Cardinality(free \ UNION {given[g] : g \in Sids}) < slave_group_size

(* The leader m has handled the last bundle and inserts the next:          *)
(* FreeNodeManager::process, handle_eids_granted and insert_bundle.  That  *)
(* the bundle is chosen takes m to hold the last Leadership of the log.    *)
(* Bundles with nothing in them are left out.                              *)
InsertBundle(m) ==
  /\ Active(m)
  /\ Len(log) < MaxLog
  /\ \E given \in [Groups -> SUBSET Eids] :
       LET bundle == [type |-> "Bundle", new_nodes |-> pending_new_free_nodes[m],
                      nodes_dead |-> nodes_dead(m), given |-> given,
                      pushed |-> master_bundle[m]]
       IN /\ Disjoint(given)
          /\ Grants(m, given)
          /\ NewSlaveGroups(m, given)
          /\ bundle # NoPLm
          /\ log' = Append(log, bundle)
          /\ requested_reconfig_eids' = [requested_reconfig_eids EXCEPT ![m] =
               [g \in Gids |-> IF given[g] # {} THEN 0 ELSE @[g]]]
          /\ reconfig_es' = [reconfig_es EXCEPT ![m] =
               [g \in Gids |-> IF given[g] # {} /\ @[g] = "WaitingRequestedNodes"
                               THEN "InsertingReconfig" ELSE @[g]]]
  /\ pending_new_free_nodes' = [pending_new_free_nodes EXCEPT ![m] = {}]
  /\ master_bundle' = [master_bundle EXCEPT ![m] = {}]
  /\ UNCHANGED <<next_index, lid, free_nodes, free_node_heartbeat, members, create_es,
                 confirmed, gossip, netVars>>

(* The next entry of the log, for m. *)
Entry(m) == log[next_index[m] + 1]

Message(condition, message) == IF condition THEN <<message>> ELSE <<>>

(* What the leader m sends to e when it handles the PLm. *)
Replies(m, plm, e) ==
  Message(e \in plm.new_nodes, FreeNodeRegistered(lid[m]))
  \o Message(e \in plm.nodes_dead, ShutdownNode)
  \o SetToSeq({CreateSlaveGroup(g) : g \in {h \in Sids : e \in plm.given[h]}})

(* Mutant: nodes that are given to a group are not taken off.              *)
handle_plm_keeps(m, plm) ==
  /\ free_nodes' = [free_nodes EXCEPT ![m] = (@ \cup plm.new_nodes) \ plm.nodes_dead]
  /\ free_node_heartbeat' = [free_node_heartbeat EXCEPT ![m] =
       [e \in Eids |-> IF e \in plm.new_nodes \cup plm.nodes_dead THEN 0 ELSE @[e]]]

(* FreeNodeManager::handle_plm *)
handle_plm(m, plm) ==
  LET given == UNION {plm.given[g] : g \in Groups}
      gone == plm.nodes_dead \cup given
  IN /\ free_nodes' = [free_nodes EXCEPT ![m] = (@ \cup plm.new_nodes) \ gone]
     /\ free_node_heartbeat' = [free_node_heartbeat EXCEPT ![m] =
          [e \in Eids |-> IF e \in plm.new_nodes \cup gone THEN 0 ELSE @[e]]]

(* SlaveReconfigESS::handle_plm, and what a ReconfigBundle of the Master   *)
(* does to do_reconfig.                                                    *)
Reconfigured(m, plm, g) ==
  IF plm.given[g] # {}
  THEN IF g = MasterGid THEN "None" ELSE IF is_leader(m) THEN "Reconfig" ELSE "Follower"
  ELSE IF g \in plm.pushed THEN "None" ELSE reconfig_es[m][g]

(* SlaveGroupCreateESS::handle_new_slaves and handle_plm *)
Created(m, plm, g) ==
  IF plm.given[g] # {}
  THEN IF is_leader(m) THEN "WaitingConfirmed" ELSE "Follower"
  ELSE IF g \in plm.pushed THEN "None" ELSE create_es[m][g]

(* SlaveGroupCreateES::handle_confirm_plm *)
handle_confirm_plm(m, plm) ==
  gossip' = [gossip EXCEPT ![m] = @ \cup {g \in Sids \cap plm.pushed :
               create_es[m][g] \in {"Follower", "InsertingConfirmed"}}]

HandleBundle(m) ==
  LET plm == Entry(m)
  IN /\ next_index[m] < Len(log)
     /\ plm.type = "Bundle"
     /\ next_index' = [next_index EXCEPT ![m] = @ + 1]
     /\ handle_plm(m, plm)
     /\ members' = [members EXCEPT ![m] = [g \in Groups |-> @[g] \cup plm.given[g]]]
     /\ reconfig_es' = [reconfig_es EXCEPT ![m] = [g \in Gids |-> Reconfigured(m, plm, g)]]
     /\ create_es' = [create_es EXCEPT ![m] = [g \in Sids |-> Created(m, plm, g)]]
     /\ confirmed' = [confirmed EXCEPT ![m] =
          [g \in Sids |-> IF create_es'[m][g] = "WaitingConfirmed" THEN @[g] ELSE {}]]
     /\ handle_confirm_plm(m, plm)
     /\ down' = IF is_leader(m)
                THEN [down EXCEPT ![m] = [e \in Eids |-> @[e] \o Replies(m, plm, e)]]
                ELSE down
     /\ UNCHANGED <<log, lid, pending_new_free_nodes, requested_reconfig_eids, master_bundle,
                    node, registered, confirms>>
-----------------------------------------------------------------------------
(* Leadership of the Master *)

(* Some other node has LeaderChanged inserted. *)
InsertLeaderChanged(m) ==
  LET changes == {i \in DOMAIN log : log[i].type = "LeaderChanged"}
      last == IF changes = {} THEN FirstLeader ELSE log[Max(changes)].lid.eid
      gen == Cardinality(changes) + 1
  IN /\ gen =< MaxGen
     /\ Len(log) < MaxLog
     /\ m # last
     /\ log' = Append(log, LeaderChanged([gen |-> gen, eid |-> m]))
     /\ UNCHANGED <<next_index, lid, managerVars, esVars, netVars>>

(* SlaveReconfigES::leader_changed *)
reconfig_leader_changed(leads, st) ==
  CASE st \in {"WaitingRequestedNodes", "InsertingReconfig"} -> "None"
    [] st \in {"Reconfig", "InsertingCompletion"} -> "Follower"
    [] st = "Follower" /\ leads -> "Reconfig"
    [] OTHER -> st

(* SlaveGroupCreateES::leader_changed *)
create_leader_changed(leads, st) ==
  CASE st \in {"WaitingConfirmed", "InsertingConfirmed"} -> "Follower"
    [] st = "Follower" /\ leads -> "WaitingConfirmed"
    [] OTHER -> st

(* FreeNodeManager::leader_changed *)
leader_changed(m, leads) ==
  IF leads
  THEN UNCHANGED <<pending_new_free_nodes, free_node_heartbeat, requested_reconfig_eids>>
  ELSE /\ pending_new_free_nodes' = [pending_new_free_nodes EXCEPT ![m] = {}]
       /\ free_node_heartbeat' = [free_node_heartbeat EXCEPT ![m] =
            [e \in Eids |-> IF e \in free_nodes[m] THEN HEARTBEAT_BACKUP_VALUE ELSE 0]]
       /\ requested_reconfig_eids' = [requested_reconfig_eids EXCEPT ![m] =
            [g \in Gids |-> 0]]

(* A new leader also tells the nodes of unconfirmed groups to start, and   *)
(* the FreeNodes who leads.                                                *)
HandleLeaderChanged(m) ==
  LET l == Entry(m).lid
      leads == l.eid = m
      creates(e) == {g \in Sids : create_es[m][g] = "Follower" /\ e \in members[m][g]}
  IN /\ next_index[m] < Len(log)
     /\ Entry(m).type = "LeaderChanged"
     /\ next_index' = [next_index EXCEPT ![m] = @ + 1]
     /\ lid' = [lid EXCEPT ![m] = l]
     /\ leader_changed(m, leads)
     /\ reconfig_es' = [reconfig_es EXCEPT ![m] =
          [g \in Gids |-> reconfig_leader_changed(leads, @[g])]]
     /\ create_es' = [create_es EXCEPT ![m] =
          [g \in Sids |-> create_leader_changed(leads, @[g])]]
     /\ confirmed' = [confirmed EXCEPT ![m] = [g \in Sids |-> {}]]
     /\ master_bundle' = [master_bundle EXCEPT ![m] = {}]
     /\ down' = IF leads
                THEN [down EXCEPT ![m] = [e \in Eids |->
                        @[e] \o SetToSeq({CreateSlaveGroup(g) : g \in creates(e)})
                             \o Message(e \in free_nodes[m], MasterLeadershipId(l))]]
                ELSE down
     /\ UNCHANGED <<log, free_nodes, members, gossip, node, registered, confirms>>

(* RemoteLeaderChanged timer: FreeNodes are told again.  Telling a node    *)
(* that knows, or is about to know, changes nothing.                       *)
broadcast_leadership(m, e) ==
  /\ is_leader(m)
  /\ e \in free_nodes[m]
  /\ node[e].st = "FreeNode"
  /\ node[e].lid.gen < lid[m].gen
  /\ MasterLeadershipId(lid[m]) \notin Range(down[m][e])
  /\ down' = [down EXCEPT ![m][e] = Append(@, MasterLeadershipId(lid[m]))]
  /\ UNCHANGED <<log, next_index, lid, managerVars, esVars, node, registered, confirms>>
-----------------------------------------------------------------------------
(* The nodes *)

(* Mutant: the message that is being handled counts twice. *)
Majority_early(eids, paxos_nodes) == 2 * (Cardinality(eids) + 1) > Cardinality(paxos_nodes)

Majority(eids, paxos_nodes) == 2 * Cardinality(eids) > Cardinality(paxos_nodes)

(* ConfirmSlaveCreation *)
handle_confirm_msg(m, e, g) ==
  /\ [to |-> m, from |-> e, sid |-> g] \in confirms
  /\ confirms' = confirms \ {[to |-> m, from |-> e, sid |-> g]}
  /\ IF is_leader(m) /\ create_es[m][g] = "WaitingConfirmed"
     THEN LET eids == confirmed[m][g] \cup {e}
          IN IF Majority(eids, members[m][g])
             THEN /\ create_es' = [create_es EXCEPT ![m][g] = "InsertingConfirmed"]
                  /\ confirmed' = [confirmed EXCEPT ![m][g] = {}]
                  /\ master_bundle' = [master_bundle EXCEPT ![m] = @ \cup {g}]
             ELSE /\ confirmed' = [confirmed EXCEPT ![m][g] = eids]
                  /\ UNCHANGED <<create_es, master_bundle>>
     ELSE UNCHANGED <<create_es, confirmed, master_bundle>>
  /\ UNCHANGED <<log, next_index, lid, managerVars, members, reconfig_es, gossip, node,
                 registered, down>>

(* process_input of a FreeNodeMessage: the new state of e. *)
Becomes(e, message) ==
  CASE message.type = "ShutdownNode" -> PostExistence
    [] message.type = "FreeNodeRegistered" /\ node[e] = DNE -> FreeNode(message.lid)
    [] /\ message.type = "MasterLeadershipId"
       /\ node[e].st = "FreeNode"
       /\ message.lid.gen > node[e].lid.gen -> FreeNode(message.lid)
    [] message.type = "CreateSlaveGroup" /\ node[e].st = "FreeNode" -> Slave(message.sid)
    [] OTHER -> node[e]

(* A Slave confirms its own group, whichever it is asked to create. *)
process_input(m, e) ==
  LET message == Head(down[m][e])
  IN /\ down[m][e] # <<>>
     /\ down' = [down EXCEPT ![m][e] = Tail(@)]
     /\ node' = [node EXCEPT ![e] = Becomes(e, message)]
     /\ confirms' =
          IF message.type = "CreateSlaveGroup" /\ node'[e].st = "Slave"
          THEN confirms \cup {[to |-> m, from |-> e, sid |-> node'[e].group]}
          ELSE confirms
     /\ UNCHANGED <<log, next_index, lid, managerVars, esVars, registered>>

(* A node that a group was granted gets the SlaveSnapshot or the           *)
(* MasterSnapshot of that group (Slave(MasterGid) is NominalMasterState);  *)
(* only a FreeNode takes it.                                               *)
Snapshot(e, g) ==
  /\ \E m \in MasterNodes : e \in members[m][g]
  /\ node[e].st = "FreeNode"
  /\ node' = [node EXCEPT ![e] = Slave(g)]
  /\ UNCHANGED <<log, next_index, lid, managerVars, esVars, registered, down, confirms>>
-----------------------------------------------------------------------------
Handle ==
  \E m \in MasterNodes :
    \/ HandleBundle(m)
    \/ HandleLeaderChanged(m)
    \/ \E e \in Eids : process_input(m, e)
    \/ \E e \in Eids, g \in Sids : handle_confirm_msg(m, e, g)

Next ==
  \/ Handle
  \/ \E m \in MasterNodes :
       \/ InsertBundle(m)
       \/ InsertLeaderChanged(m)
       \/ handle_timer(m)
       \/ \E e \in Eids :
            handle_register(m, e) \/ handle_heartbeat(m, e) \/ broadcast_leadership(m, e)
       \/ \E g \in Gids, count \in 1 .. MaxRequest : request_new_eids(m, g, count)
       \/ \E g \in Gids : handle_reconfigured_msg(m, g)
  \/ \E e \in Eids, g \in Gids : Snapshot(e, g)

Spec == Init /\ [][Next]_vars
-----------------------------------------------------------------------------
Placed(m) == UNION {members[m][g] : g \in Groups}

(* Types; free_node_heartbeat has the keys of free_nodes (counts of other  *)
(* nodes are 0 here): process unwraps the one that belongs to the other.   *)
TypeOK ==
  /\ next_index \in [MasterNodes -> 0 .. MaxLog]
  /\ \A m \in MasterNodes : next_index[m] =< Len(log)
  /\ lid \in [MasterNodes -> Lids]
  /\ free_nodes \in [MasterNodes -> SUBSET Eids]
  /\ pending_new_free_nodes \in [MasterNodes -> SUBSET Eids]
  /\ free_node_heartbeat \in [MasterNodes -> [Eids -> 0 .. HEARTBEAT_DEAD_THRESHOLD]]
  /\ \A m \in MasterNodes, e \in Eids :
       e \notin free_nodes[m] => free_node_heartbeat[m][e] = 0
  /\ requested_reconfig_eids \in [MasterNodes -> [Gids -> 0 .. MaxRequest]]
  /\ members \in [MasterNodes -> [Groups -> SUBSET Eids]]
  /\ reconfig_es \in [MasterNodes -> [Gids ->
       {"None", "Follower", "WaitingRequestedNodes", "InsertingReconfig", "Reconfig",
        "InsertingCompletion"}]]
  /\ create_es \in [MasterNodes -> [Sids ->
       {"None", "Follower", "WaitingConfirmed", "InsertingConfirmed"}]]
  /\ confirmed \in [MasterNodes -> [Sids -> SUBSET Eids]]
  /\ gossip \in [MasterNodes -> SUBSET Sids]
  /\ master_bundle \in [MasterNodes -> SUBSET Groups]
  /\ registered \in [Eids -> FreeNodeType \cup {"None"}]

(* A node is free or belongs to one group, never both, and never to two    *)
(* groups: no grant is made twice, whatever leader makes it.               *)
OneHome ==
  \A m \in MasterNodes :
    /\ Disjoint(members[m])
    /\ free_nodes[m] \cap Placed(m) = {}

(* handle_eids_granted unwraps the SlaveReconfigES of a group that is      *)
(* granted nodes, and the bundle handler of the Master unwraps do_reconfig *)
(* (and, when the grant is persisted, the ES again): it is there.          *)
GrantFindsES ==
  \A m \in MasterNodes : is_leader(m) =>
    \A g \in Gids :
      /\ requested_reconfig_eids[m][g] > 0 => reconfig_es[m][g] = "WaitingRequestedNodes"
      /\ /\ next_index[m] < Len(log)
         /\ Entry(m).type = "Bundle"
         /\ Entry(m).given[g] # {}
         => reconfig_es[m][g] = "InsertingReconfig"

(* What the Master's handlers unwrap is there: the heartbeat counts of the *)
(* free nodes, and the ESs of grants.                                      *)
UnwrapsFind == TypeOK /\ GrantFindsES

(* The other groups only hear of a new SlaveGroup (handle_confirm_plm)     *)
(* once a majority of its nodes runs it.                                   *)
PublishedIsRunning ==
  \A m \in MasterNodes : \A g \in gossip[m] :
    2 * Cardinality({e \in members[m][g] : node[e] = Slave(g)}) > Cardinality(members[m][g])

(* ShutdownNode is meant for FreeNodes that are believed dead: no node is  *)
(* shut down that was given to a group, or will be.                        *)
ShutdownIsFinal ==
  \A e \in Eids, m \in MasterNodes :
    \/ node[e] = PostExistence
    \/ ShutdownNode \in Range(down[m][e])
    => \A i \in MasterNodes : e \notin Placed(i)
=============================================================================
