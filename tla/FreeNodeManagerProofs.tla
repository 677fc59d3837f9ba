------------------------ MODULE FreeNodeManagerProofs ------------------------
(***************************************************************************)
(* The Master never gives a node to two groups, never shuts down one that  *)
(* it gave away, announces a new SlaveGroup only when a majority of it     *)
(* runs, and finds what it unwraps.                                        *)
(*                                                                         *)
(* Everything is about the log.  A node enters the log once, as a new one, *)
(* and leaves the free nodes once, given away or dead (LogInv); what a     *)
(* Master node holds is what the part of the log that it has replayed says *)
(* (ReplayInv); and a bundle is inserted only by the node that the log     *)
(* names as leader, once that has replayed all of it (AuthorInv), so that  *)
(* what it grants is free after the whole log.                             *)
(***************************************************************************)
EXTENDS FreeNodeManager, FiniteSetTheorems, SequenceTheorems, TLAPS

Bundles ==
  [type : {"Bundle"}, new_nodes : SUBSET Eids, nodes_dead : SUBSET Eids,
   given : [Groups -> SUBSET Eids], pushed : SUBSET Groups]
LeaderChanges == [type : {"LeaderChanged"}, lid : Lids]

NodeStates ==
  {DNE, PostExistence} \cup {FreeNode(l) : l \in Lids} \cup {Slave(g) : g \in Groups}
FreeNodeMessages ==
  {ShutdownNode} \cup {FreeNodeRegistered(l) : l \in Lids}
  \cup {MasterLeadershipId(l) : l \in Lids} \cup {CreateSlaveGroup(g) : g \in Sids}

TypeInv ==
  /\ TypeOK
  /\ log \in Seq(Bundles \cup LeaderChanges)
  /\ Len(log) =< MaxLog
  /\ node \in [Eids -> NodeStates]
  /\ down \in [MasterNodes -> [Eids -> Seq(FreeNodeMessages)]]
  /\ confirms \subseteq [to : MasterNodes, from : Eids, sid : Groups]

(* What the entry i of the log says. *)
NewAt(i) == IF log[i].type = "Bundle" THEN log[i].new_nodes ELSE {}
DeadAt(i) == IF log[i].type = "Bundle" THEN log[i].nodes_dead ELSE {}
GivenAt(i, g) == IF log[i].type = "Bundle" THEN log[i].given[g] ELSE {}
PushedAt(i) == IF log[i].type = "Bundle" THEN log[i].pushed ELSE {}
GoneAt(i) == DeadAt(i) \cup UNION {GivenAt(i, g) : g \in Groups}

(* What the first k entries say. *)
NewBy(k) == UNION {NewAt(i) : i \in 1 .. k}
DeadBy(k) == UNION {DeadAt(i) : i \in 1 .. k}
GivenBy(k, g) == UNION {GivenAt(i, g) : i \in 1 .. k}
GoneBy(k) == UNION {GoneAt(i) : i \in 1 .. k}

(* A node is new once and gone once, either dead or given to one group; a  *)
(* new SlaveGroup is given nodes once.                                     *)
LogInv ==
  /\ \A i \in 1 .. Len(log) :
       /\ \A g \in Groups : DeadAt(i) \cap GivenAt(i, g) = {}
       /\ \A g, h \in Groups : g # h => GivenAt(i, g) \cap GivenAt(i, h) = {}
       /\ GoneAt(i) \subseteq NewBy(i)
  /\ \A i, j \in 1 .. Len(log) : i # j =>
       /\ NewAt(i) \cap NewAt(j) = {}
       /\ GoneAt(i) \cap GoneAt(j) = {}
       /\ \A g \in Sids : GivenAt(i, g) = {} \/ GivenAt(j, g) = {}

(* A Master node holds what it has replayed. *)
ReplayInv ==
  \A m \in MasterNodes :
    /\ free_nodes[m] = NewBy(next_index[m]) \ GoneBy(next_index[m])
    /\ \A g \in Groups : members[m][g] = GivenBy(next_index[m], g)

(* A node that is about to be registered is in nobody else's hands. *)
PendingInv ==
  /\ \A m \in MasterNodes : pending_new_free_nodes[m] \cap NewBy(Len(log)) = {}
  /\ \A m, i \in MasterNodes :
       m # i => pending_new_free_nodes[m] \cap pending_new_free_nodes[i] = {}
  /\ \A e \in Eids : registered[e] = "None" =>
       /\ e \notin NewBy(Len(log))
       /\ \A m \in MasterNodes : e \notin pending_new_free_nodes[m]

(* l is the Leadership after the first k entries of the log. *)
ChangedAt(i) == log[i].type = "LeaderChanged"
Leads(k, l) ==
  \/ /\ l = [gen |-> 0, eid |-> FirstLeader]
     /\ \A i \in 1 .. k : ~ChangedAt(i)
  \/ \E j \in 1 .. k :
       /\ ChangedAt(j)
       /\ l = log[j].lid
       /\ \A i \in j + 1 .. k : ~ChangedAt(i)

LidInv == \A m \in MasterNodes : Leads(next_index[m], lid[m])

(* LeaderChanged names another node than the one that leads; a bundle is   *)
(* from the leader, who has handled all that is before it.                 *)
AuthorInv ==
  \A i \in 1 .. Len(log), l \in Lids : Leads(i - 1, l) =>
    /\ ChangedAt(i) => log[i].lid.eid # l.eid
    /\ ~ChangedAt(i) => next_index[l.eid] >= i - 1

(* A follower collects nothing.  A leader has requests of groups that wait *)
(* for them, and completions of those that insert them.                    *)
FollowerInv(m) ==
  /\ pending_new_free_nodes[m] = {}
  /\ master_bundle[m] = {}
  /\ \A g \in Gids : /\ requested_reconfig_eids[m][g] = 0
                     /\ reconfig_es[m][g] \in {"None", "Follower"}
  /\ \A g \in Sids : create_es[m][g] \in {"None", "Follower"}

LeaderInv(m) ==
  /\ \A g \in Gids : requested_reconfig_eids[m][g] > 0 =>
       reconfig_es[m][g] = "WaitingRequestedNodes"
  /\ \A g \in Gids \cap master_bundle[m] : reconfig_es[m][g] = "InsertingCompletion"
  /\ next_index[m] < Len(log) =>
       \A g \in Gids :
         /\ GivenAt(next_index[m] + 1, g) # {} => reconfig_es[m][g] = "InsertingReconfig"
         /\ g \in PushedAt(next_index[m] + 1) =>
              reconfig_es[m][g] = "InsertingCompletion" /\ g \notin master_bundle[m]

RoleInv == \A m \in MasterNodes : IF is_leader(m) THEN LeaderInv(m) ELSE FollowerInv(m)

(* Only dead nodes are shut down. *)
ShutdownInv ==
  \A e \in Eids :
    /\ node[e] = PostExistence => e \in DeadBy(Len(log))
    /\ \A m \in MasterNodes : ShutdownNode \in Range(down[m][e]) => e \in DeadBy(Len(log))

(* The nodes that were given to g, and those of them that run it. *)
Given(g) == GivenBy(Len(log), g)
Running(g) == {e \in Given(g) : node[e] = Slave(g)}
GroupRuns(g) == 2 * Cardinality(Running(g)) > Cardinality(Given(g))

(* A node becomes a Slave of the group it was given to, and confirms only  *)
(* that; a new SlaveGroup that is confirmed or published runs.             *)
CreateInv ==
  /\ \A e \in Eids, g \in Groups : node[e] = Slave(g) => e \in Given(g)
  /\ \A m \in MasterNodes, e \in Eids, g \in Sids :
       CreateSlaveGroup(g) \in Range(down[m][e]) => e \in Given(g)
  /\ \A c \in confirms : node[c.from] = Slave(c.sid)
  /\ \A m \in MasterNodes, g \in Sids :
       /\ create_es[m][g] # "None" => members[m][g] # {}
       /\ \A e \in confirmed[m][g] : node[e] = Slave(g)
       /\ g \in master_bundle[m] \cup gossip[m] => GroupRuns(g)
       /\ g \in gossip[m] => members[m][g] # {}
  /\ \A i \in 1 .. Len(log) : \A g \in PushedAt(i) \cap Sids : GroupRuns(g)

IndInv ==
  /\ TypeInv
  /\ LogInv
  /\ ReplayInv
  /\ PendingInv
  /\ LidInv
  /\ AuthorInv
  /\ RoleInv
  /\ ShutdownInv
  /\ CreateInv
-----------------------------------------------------------------------------
(* Sequences and the log *)

(* Where a message of two queues is. *)
LEMMA RangeJoin ==
  ASSUME NEW S, NEW s \in Seq(S), NEW t \in Seq(S)
  PROVE  s \o t \in Seq(S) /\ Range(s \o t) = Range(s) \cup Range(t)
BY ConcatProperties, RangeConcatenation

(* A message of a queue that loses its first was there before. *)
LEMMA RangeRest ==
  ASSUME NEW S, NEW s \in Seq(S), s # <<>>
  PROVE  /\ Head(s) \in S /\ Head(s) \in Range(s)
         /\ Tail(s) \in Seq(S) /\ Range(Tail(s)) \subseteq Range(s)
BY DEF Range

(* SetToSeq lists elements of the set. *)
LEMMA SetToSeqFacts ==
  ASSUME NEW S, IsFiniteSet(S)
  PROVE  SetToSeq(S) \in Seq(S) /\ Range(SetToSeq(S)) \subseteq S
<1>1. Cardinality(S) \in Nat /\ \E f : ExistsBijection(1 .. Cardinality(S), S)
  BY FS_CardinalityType
<1>2. PICK f : f \in Bijection(1 .. Cardinality(S), S)
  BY <1>1 DEF ExistsBijection
<1>3. f \in [1 .. Cardinality(S) -> S] /\ IsInjective(f)
  BY <1>2 DEF Bijection, Injection, Surjection, IsInjective
<1>4. SetToSeq(S) \in [1 .. Cardinality(S) -> S]
  BY <1>3 DEF SetToSeq
<1>5. SetToSeq(S) \in Seq(S)
  BY <1>1, <1>4
<1> QED
  BY <1>4, <1>5, RangeOfSeq

(* One more entry of the log. *)
LEMMA PrefixFacts ==
  ASSUME NEW k \in Nat
  PROVE  /\ NewBy(k + 1) = NewBy(k) \cup NewAt(k + 1)
         /\ GoneBy(k + 1) = GoneBy(k) \cup GoneAt(k + 1)
         /\ DeadBy(k + 1) = DeadBy(k) \cup DeadAt(k + 1)
         /\ \A g \in Groups : GivenBy(k + 1, g) = GivenBy(k, g) \cup GivenAt(k + 1, g)
<1>1. 1 .. k + 1 = (1 .. k) \cup {k + 1}
  OBVIOUS
<1> QED
  BY <1>1 DEF NewBy, GoneBy, DeadBy, GivenBy

(* A longer part of the log says more. *)
LEMMA PrefixGrows ==
  ASSUME NEW k \in Nat, NEW j \in Nat, k =< j
  PROVE  /\ NewBy(k) \subseteq NewBy(j)
         /\ GoneBy(k) \subseteq GoneBy(j)
         /\ DeadBy(k) \subseteq DeadBy(j)
         /\ \A g \in Groups : GivenBy(k, g) \subseteq GivenBy(j, g)
<1>1. 1 .. k \subseteq 1 .. j
  OBVIOUS
<1> QED
  BY <1>1 DEF NewBy, GoneBy, DeadBy, GivenBy

(* Nothing changes in what an entry says, and in what the first k do. *)
SameAt(i) ==
  /\ NewAt(i)' = NewAt(i)
  /\ DeadAt(i)' = DeadAt(i)
  /\ GoneAt(i)' = GoneAt(i)
  /\ PushedAt(i)' = PushedAt(i)
  /\ ChangedAt(i)' = ChangedAt(i)
  /\ \A g \in Groups : GivenAt(i, g)' = GivenAt(i, g)

SameBy(k) ==
  /\ NewBy(k)' = NewBy(k)
  /\ DeadBy(k)' = DeadBy(k)
  /\ GoneBy(k)' = GoneBy(k)
  /\ \A g \in Groups : GivenBy(k, g)' = GivenBy(k, g)
  /\ \A l : Leads(k, l)' <=> Leads(k, l)

(* That is so where the log is the same. *)
LEMMA SameFacts ==
  ASSUME NEW k \in Nat, \A i \in 1 .. k : log'[i] = log[i]
  PROVE  (\A i \in 1 .. k : SameAt(i)) /\ SameBy(k)
<1>1. \A i \in 1 .. k : /\ NewAt(i)' = NewAt(i)
                        /\ DeadAt(i)' = DeadAt(i)
                        /\ PushedAt(i)' = PushedAt(i)
                        /\ (ChangedAt(i)' <=> ChangedAt(i))
                        /\ \A g \in Groups : GivenAt(i, g)' = GivenAt(i, g)
  BY DEF NewAt, DeadAt, PushedAt, ChangedAt, GivenAt
<1>2. \A i \in 1 .. k : GoneAt(i)' = GoneAt(i)
  BY <1>1 DEF GoneAt
<1>3. \A l : Leads(k, l)' <=> Leads(k, l)
  <2>1. \A j \in 1 .. k : j + 1 .. k \subseteq 1 .. k
    OBVIOUS
  <2> QED
    BY <1>1, <2>1 DEF Leads
<1> QED
  BY <1>1, <1>2, <1>3 DEF SameAt, SameBy, NewBy, DeadBy, GoneBy, GivenBy, ChangedAt

(* What the log holds. *)
LEMMA LogTypes ==
  ASSUME TypeInv, NEW i \in 1 .. Len(log)
  PROVE  /\ NewAt(i) \subseteq Eids
         /\ DeadAt(i) \subseteq Eids
         /\ PushedAt(i) \subseteq Groups
         /\ \A g \in Groups : GivenAt(i, g) \subseteq Eids
         /\ IF ChangedAt(i) THEN log[i] \in LeaderChanges /\ log[i].lid \in Lids
            ELSE log[i] \in Bundles /\ log[i].type = "Bundle"
<1>1. log[i] \in Bundles \cup LeaderChanges
  BY DEF TypeInv
<1>2. CASE log[i] \in Bundles
  BY <1>2 DEF Bundles, NewAt, DeadAt, PushedAt, GivenAt, ChangedAt
<1>3. CASE log[i] \in LeaderChanges
  BY <1>3 DEF LeaderChanges, NewAt, DeadAt, PushedAt, GivenAt, ChangedAt
<1> QED
  BY <1>1, <1>2, <1>3

(* A log has one Leadership. *)
LEMMA LeadsUnique ==
  ASSUME NEW k \in Nat, NEW l1, NEW l2, Leads(k, l1), Leads(k, l2)
  PROVE  l1 = l2
<1>1. CASE \A i \in 1 .. k : ~ChangedAt(i)
  BY <1>1 DEF Leads
<1>2. CASE ~\A i \in 1 .. k : ~ChangedAt(i)
  <2>1. PICK j1 \in 1 .. k : ChangedAt(j1) /\ l1 = log[j1].lid /\ \A i \in j1 + 1 .. k : ~ChangedAt(i)
    BY <1>2 DEF Leads
  <2>2. PICK j2 \in 1 .. k : ChangedAt(j2) /\ l2 = log[j2].lid /\ \A i \in j2 + 1 .. k : ~ChangedAt(i)
    BY <1>2 DEF Leads
  <2>3. ~(j1 < j2) /\ ~(j2 < j1)
    BY <2>1, <2>2
  <2> QED
    BY <2>1, <2>2, <2>3
<1> QED
  BY <1>1, <1>2

(* It is that of the last LeaderChanged. *)
LEMMA LeadsStep ==
  ASSUME NEW k \in Nat
  PROVE  /\ ChangedAt(k + 1) => Leads(k + 1, log[k + 1].lid)
         /\ ~ChangedAt(k + 1) => \A l : Leads(k, l) => Leads(k + 1, l)
<1>1. ChangedAt(k + 1) => Leads(k + 1, log[k + 1].lid)
  BY DEF Leads
<1>2. ASSUME ~ChangedAt(k + 1), NEW l, Leads(k, l)
      PROVE  Leads(k + 1, l)
  <2>1. \A i \in Int : i =< k + 1 => i =< k \/ i = k + 1
    OBVIOUS
  <2>2. CASE l = [gen |-> 0, eid |-> FirstLeader] /\ \A i \in 1 .. k : ~ChangedAt(i)
    BY <1>2, <2>1, <2>2 DEF Leads
  <2>3. CASE \E j \in 1 .. k : /\ ChangedAt(j)
                               /\ l = log[j].lid
                               /\ \A i \in j + 1 .. k : ~ChangedAt(i)
    <3>1. PICK j \in 1 .. k : /\ ChangedAt(j)
                              /\ l = log[j].lid
                              /\ \A i \in j + 1 .. k : ~ChangedAt(i)
      BY <2>3
    <3>2. \A i \in j + 1 .. k + 1 : ~ChangedAt(i)
      BY <1>2, <2>1, <3>1
    <3> QED
      BY <3>1, <3>2 DEF Leads
  <2> QED
    BY <1>2, <2>2, <2>3 DEF Leads
<1> QED
  BY <1>1, <1>2

(* Its node is one of the Master's. *)
LEMMA LeadsType ==
  ASSUME TypeInv, NEW k \in 0 .. Len(log), NEW l, Leads(k, l)
  PROVE  l \in Lids
<1>1. CASE l = [gen |-> 0, eid |-> FirstLeader]
  BY <1>1, FreeNodeAssumption DEF Lids
<1>2. CASE \E j \in 1 .. k : ChangedAt(j) /\ l = log[j].lid
  BY <1>2, LogTypes DEF TypeInv
<1> QED
  BY <1>1, <1>2 DEF Leads

(* Only one node can insert bundles. *)
LEMMA OneActive ==
  ASSUME IndInv, NEW m \in MasterNodes, NEW i \in MasterNodes, is_leader(m), is_leader(i),
         next_index[m] = next_index[i]
  PROVE  m = i
<1>1. Leads(next_index[m], lid[m]) /\ Leads(next_index[m], lid[i])
  BY DEF IndInv, LidInv
<1>2. next_index[m] \in Nat
  BY DEF IndInv, TypeInv, TypeOK
<1> QED
  BY <1>1, <1>2, LeadsUnique DEF is_leader

(* Nodes are given to groups out of finitely many. *)
LEMMA GivenFinite ==
  ASSUME TypeInv, NEW g \in Groups
  PROVE  Given(g) \subseteq Eids /\ IsFiniteSet(Given(g))
<1>1. Given(g) \subseteq Eids
  BY LogTypes DEF Given, GivenBy
<1> QED
  BY <1>1, FS_Subset, FreeNodeAssumption

(* A group that runs goes on: its nodes stay Slaves. *)
LEMMA RunsStay ==
  ASSUME TypeInv, NEW g \in Groups, GroupRuns(g), Given(g)' = Given(g),
         \A e \in Eids : node[e] = Slave(g) => node'[e] = Slave(g)
  PROVE  GroupRuns(g)'
<1>1. Given(g) \subseteq Eids /\ IsFiniteSet(Given(g))
  BY GivenFinite
<1>2. Running(g) \subseteq Running(g)' /\ Running(g)' \subseteq Given(g)
  BY <1>1 DEF Running
<1>3. IsFiniteSet(Running(g)')
  BY <1>1, <1>2, FS_Subset
<1>4. /\ Cardinality(Running(g)) =< Cardinality(Running(g)')
      /\ Cardinality(Running(g)) \in Nat /\ Cardinality(Running(g)') \in Nat
      /\ Cardinality(Given(g)) \in Nat
  BY <1>1, <1>2, <1>3, FS_Subset, FS_CardinalityType
<1> QED
  BY <1>4 DEF GroupRuns

(* A group that runs has nodes. *)
LEMMA RunsGiven ==
  ASSUME NEW g \in Groups, GroupRuns(g)
  PROVE  Given(g) # {}
BY FS_EmptySet DEF GroupRuns, Running

(* At a Master node that has nodes of a new SlaveGroup, all of them are. *)
LEMMA AllMembers ==
  ASSUME IndInv, NEW m \in MasterNodes, NEW g \in Sids, members[m][g] # {}
  PROVE  members[m][g] = Given(g)
<1>1. /\ g \in Groups
      /\ next_index[m] \in Nat /\ Len(log) \in Nat /\ next_index[m] =< Len(log)
      /\ members[m][g] = GivenBy(next_index[m], g)
  BY DEF IndInv, TypeInv, TypeOK, ReplayInv, Groups
<1>2. PICK j \in 1 .. next_index[m] : GivenAt(j, g) # {}
  BY <1>1 DEF GivenBy
<1>3. \A i \in 1 .. Len(log) : GivenAt(i, g) # {} => i = j
  BY <1>1, <1>2 DEF IndInv, LogInv
<1>4. Given(g) \subseteq GivenAt(j, g)
  BY <1>3 DEF Given, GivenBy
<1>5. GivenAt(j, g) \subseteq members[m][g]
  BY <1>1 DEF GivenBy
<1>6. members[m][g] \subseteq Given(g)
  BY <1>1, PrefixGrows DEF Given
<1> QED
  BY <1>4, <1>5, <1>6

(* A node that is given to a group never dies, nor is it given to another. *)
LEMMA GoneOnce ==
  ASSUME IndInv, NEW g \in Groups, NEW e \in Given(g)
  PROVE  /\ e \notin DeadBy(Len(log))
         /\ \A h \in Groups : e \in Given(h) => h = g
<1>1. PICK i \in 1 .. Len(log) : e \in GivenAt(i, g)
  BY DEF Given, GivenBy
<1>2. e \in GoneAt(i)
  BY <1>1 DEF GoneAt
<1>3. ASSUME NEW j \in 1 .. Len(log), e \in GoneAt(j)
      PROVE  j = i
  BY <1>2, <1>3 DEF IndInv, LogInv
<1>4. ASSUME NEW j \in 1 .. Len(log), e \in DeadAt(j)
      PROVE  FALSE
  <2>1. j = i
    BY <1>3, <1>4 DEF GoneAt
  <2> QED
    BY <1>1, <1>4, <2>1 DEF IndInv, LogInv
<1>5. ASSUME NEW h \in Groups, NEW j \in 1 .. Len(log), e \in GivenAt(j, h)
      PROVE  h = g
  <2>1. j = i
    BY <1>3, <1>5 DEF GoneAt
  <2> QED
    BY <1>1, <1>5, <2>1 DEF IndInv, LogInv
<1> QED
  BY <1>4, <1>5 DEF DeadBy, Given, GivenBy
-----------------------------------------------------------------------------
(* Steps that leave the log and what is replayed of it alone *)

replayVars == <<log, next_index, lid, free_nodes, members>>

(* The log says what it said before. *)
LEMMA LogKept ==
  ASSUME UNCHANGED log, TypeInv
  PROVE  /\ LogInv => LogInv'
         /\ \A k \in Nat : SameBy(k)
         /\ SameBy(Len(log))
         /\ \A i \in 1 .. Len(log) : SameAt(i)
         /\ \A g \in Groups : Given(g)' = Given(g)
<1>1. \A k \in Nat : SameBy(k)
  BY SameFacts
<1>2. Len(log) \in Nat /\ Len(log') = Len(log)
  BY DEF TypeInv
<1>3. \A i \in 1 .. Len(log) : SameAt(i) /\ SameBy(i)
  BY <1>2, SameFacts
<1>4. \A g \in Groups : Given(g)' = Given(g)
  BY <1>1, <1>2 DEF Given, SameBy
<1>5. LogInv => LogInv'
  <2>1. ASSUME LogInv
        PROVE  LogInv'
    <3>0. Sids \subseteq Groups
      BY DEF Groups
    <3>1. \A i \in 1 .. Len(log') :
            /\ NewAt(i)' = NewAt(i) /\ DeadAt(i)' = DeadAt(i) /\ GoneAt(i)' = GoneAt(i)
            /\ NewBy(i)' = NewBy(i)
            /\ \A g \in Groups : GivenAt(i, g)' = GivenAt(i, g)
      BY <1>2, <1>3 DEF SameAt, SameBy
    <3> QED
      BY <1>2, <2>1, <3>0, <3>1 DEF LogInv
  <2> QED
    BY <2>1
<1> QED
  BY <1>1, <1>2, <1>3, <1>4, <1>5

(* And so does what is replayed. *)
LEMMA ReplayKept ==
  ASSUME IndInv, UNCHANGED replayVars
  PROVE  LogInv' /\ ReplayInv' /\ LidInv' /\ AuthorInv'
<1>0. UNCHANGED <<log, next_index, lid, free_nodes, members>>
  BY DEF replayVars
<1>1. LogInv' /\ (\A k \in Nat : SameBy(k)) /\ \A i \in 1 .. Len(log) : SameAt(i)
  BY <1>0, LogKept DEF IndInv
<1>2. \A m \in MasterNodes : next_index[m] \in Nat
  BY DEF IndInv, TypeInv, TypeOK
<1>3. ReplayInv'
  BY <1>0, <1>1, <1>2 DEF IndInv, ReplayInv, SameBy
<1>4. LidInv'
  BY <1>0, <1>1, <1>2 DEF IndInv, LidInv, SameBy
<1>5. AuthorInv'
  <2>1. \A i \in 1 .. Len(log) : i - 1 \in Nat
    BY DEF IndInv, TypeInv
  <2> QED
    BY <1>0, <1>1, <2>1 DEF IndInv, AuthorInv, SameBy, SameAt
<1> QED
  BY <1>1, <1>3, <1>4, <1>5

(* What was kept of the nodes that register, of those shut down and of     *)
(* those given to groups is still so.                                      *)
LEMMA PendingKept ==
  ASSUME IndInv, UNCHANGED <<log, pending_new_free_nodes, registered>>
  PROVE  PendingInv'
<1>1. SameBy(Len(log))
  BY LogKept DEF IndInv
<1> QED
  BY <1>1 DEF IndInv, PendingInv, SameBy

(* Likewise for those shut down, *)
LEMMA ShutdownKept ==
  ASSUME IndInv, UNCHANGED <<log, node, down>>
  PROVE  ShutdownInv'
<1>1. SameBy(Len(log))
  BY LogKept DEF IndInv
<1> QED
  BY <1>1 DEF IndInv, ShutdownInv, SameBy

(* and for those given to groups. *)
LEMMA CreateKept ==
  ASSUME IndInv, UNCHANGED <<log, members, create_es, confirmed, gossip, node, down, confirms>>,
         \A m \in MasterNodes : master_bundle'[m] \cap Sids \subseteq master_bundle[m]
  PROVE  CreateInv'
<1>1. (\A i \in 1 .. Len(log) : SameAt(i)) /\ \A g \in Groups : Given(g)' = Given(g)
  BY LogKept DEF IndInv
<1>2. \A g \in Groups : GroupRuns(g)' <=> GroupRuns(g)
  BY <1>1 DEF GroupRuns, Running
<1>3. Sids \subseteq Groups
  BY DEF Groups
<1> QED
  BY <1>1, <1>2, <1>3 DEF IndInv, CreateInv, SameAt

(* The role of a Master node that does nothing is what it was. *)
Role(m) == IF is_leader(m) THEN LeaderInv(m) ELSE FollowerInv(m)
Rests(m) ==
  /\ lid'[m] = lid[m]
  /\ next_index'[m] = next_index[m]
  /\ pending_new_free_nodes'[m] = pending_new_free_nodes[m]
  /\ requested_reconfig_eids'[m] = requested_reconfig_eids[m]
  /\ reconfig_es'[m] = reconfig_es[m]
  /\ create_es'[m] = create_es[m]
  /\ master_bundle'[m] = master_bundle[m]

(* That is so as long as nothing is added to the log. *)
LEMMA RoleKept ==
  ASSUME UNCHANGED log, NEW m \in MasterNodes, Rests(m), Role(m)
  PROVE  Role(m)'
BY DEF Rests, Role, LeaderInv, FollowerInv, is_leader, GivenAt, PushedAt

(* A new node registers. *)
LEMMA RegisterInv ==
  ASSUME IndInv, NEW m \in MasterNodes, NEW e \in Eids, handle_register(m, e)
  PROVE  IndInv'
<1>0. /\ Active(m)
      /\ registered[e] = "None"
      /\ registered' \in [Eids -> FreeNodeType \cup {"None"}]
      /\ \A x \in Eids : registered'[x] = "None" => registered[x] = "None" /\ x # e
      /\ pending_new_free_nodes' = [pending_new_free_nodes EXCEPT ![m] = @ \cup {e}]
      /\ UNCHANGED <<log, next_index, lid, free_nodes, free_node_heartbeat,
                     requested_reconfig_eids, esVars, node, down, confirms>>
  BY DEF handle_register, IndInv, TypeInv, TypeOK, FreeNodeType
<1>1. UNCHANGED replayVars /\ UNCHANGED esVars
  BY <1>0 DEF replayVars, esVars
<1>2. LogInv' /\ ReplayInv' /\ LidInv' /\ AuthorInv'
  BY <1>1, ReplayKept
<1>3. \A i \in MasterNodes : /\ i # m => pending_new_free_nodes'[i] = pending_new_free_nodes[i]
                             /\ pending_new_free_nodes'[m] = pending_new_free_nodes[m] \cup {e}
  BY <1>0 DEF IndInv, TypeInv, TypeOK
<1>4. TypeInv'
  <2>1. pending_new_free_nodes' \in [MasterNodes -> SUBSET Eids]
    BY <1>0 DEF IndInv, TypeInv, TypeOK
  <2> QED
    BY <1>0, <2>1 DEF IndInv, TypeInv, TypeOK, esVars
<1>5. PendingInv'
  <2>1. SameBy(Len(log))
    BY <1>0, LogKept DEF IndInv
  <2> QED
    BY <1>0, <1>3, <2>1 DEF IndInv, PendingInv, SameBy
<1>6. RoleInv'
  <2>1. ASSUME NEW i \in MasterNodes, i # m
        PROVE  Role(i)'
    BY <1>0, <1>3, <2>1, RoleKept DEF IndInv, RoleInv, Role, Rests, esVars
  <2>2. Role(m)'
    BY <1>0 DEF IndInv, RoleInv, Role, LeaderInv, Active, is_leader, esVars, GivenAt, PushedAt
  <2> QED
    BY <2>1, <2>2 DEF RoleInv, Role
<1>7. ShutdownInv' /\ CreateInv'
  BY <1>0, ShutdownKept, CreateKept DEF esVars
<1> QED
  BY <1>2, <1>4, <1>5, <1>6, <1>7 DEF IndInv

(* Heartbeats are counted. *)
LEMMA HeartbeatInv ==
  ASSUME IndInv, free_node_heartbeat' \in [MasterNodes -> [Eids -> 0 .. HEARTBEAT_DEAD_THRESHOLD]],
         \A m \in MasterNodes, e \in Eids : e \notin free_nodes[m] => free_node_heartbeat'[m][e] = 0,
         UNCHANGED <<log, next_index, lid, free_nodes, pending_new_free_nodes,
                     requested_reconfig_eids, esVars, netVars>>
  PROVE  IndInv'
<1>1. UNCHANGED replayVars /\ UNCHANGED <<members, reconfig_es, create_es, confirmed, gossip,
        master_bundle, node, registered, down, confirms>>
  BY DEF replayVars, esVars, netVars
<1>2. LogInv' /\ ReplayInv' /\ LidInv' /\ AuthorInv'
  BY <1>1, ReplayKept
<1>3. TypeInv'
  BY <1>1 DEF IndInv, TypeInv, TypeOK
<1>4. RoleInv'
  <2>1. ASSUME NEW i \in MasterNodes
        PROVE  Role(i)'
    BY <1>1, RoleKept DEF IndInv, RoleInv, Role, Rests
  <2> QED
    BY <2>1 DEF RoleInv, Role
<1>5. PendingInv' /\ ShutdownInv' /\ CreateInv'
  BY <1>1, PendingKept, ShutdownKept, CreateKept
<1> QED
  BY <1>2, <1>3, <1>4, <1>5 DEF IndInv

(* A group asks for nodes. *)
LEMMA RequestInv ==
  ASSUME IndInv, NEW m \in MasterNodes, NEW g \in Gids, NEW count \in 1 .. MaxRequest,
         request_new_eids(m, g, count)
  PROVE  IndInv'
<1>0. /\ Active(m)
      /\ reconfig_es[m][g] = "None"
      /\ reconfig_es' = [reconfig_es EXCEPT ![m][g] = "WaitingRequestedNodes"]
      /\ requested_reconfig_eids' = [requested_reconfig_eids EXCEPT ![m][g] = count]
      /\ UNCHANGED <<log, next_index, lid, free_nodes, pending_new_free_nodes,
                     free_node_heartbeat, members, create_es, confirmed, gossip, master_bundle,
                     node, registered, down, confirms>>
  BY DEF request_new_eids, netVars
<1>1. LogInv' /\ ReplayInv' /\ LidInv' /\ AuthorInv'
  BY <1>0, ReplayKept DEF replayVars
<1>2. TypeInv'
  <2>1. reconfig_es' \in [MasterNodes -> [Gids ->
          {"None", "Follower", "WaitingRequestedNodes", "InsertingReconfig", "Reconfig",
           "InsertingCompletion"}]]
    BY <1>0 DEF IndInv, TypeInv, TypeOK
  <2>2. requested_reconfig_eids' \in [MasterNodes -> [Gids -> 0 .. MaxRequest]]
    BY <1>0, FreeNodeAssumption DEF IndInv, TypeInv, TypeOK
  <2> QED
    BY <1>0, <2>1, <2>2 DEF IndInv, TypeInv, TypeOK
<1>3. RoleInv'
  <2>1. \A i \in MasterNodes : i # m =>
          /\ reconfig_es'[i] = reconfig_es[i]
          /\ requested_reconfig_eids'[i] = requested_reconfig_eids[i]
    BY <1>0 DEF IndInv, TypeInv, TypeOK
  <2>2. ASSUME NEW i \in MasterNodes, i # m
        PROVE  Role(i)'
    BY <1>0, <2>1, <2>2, RoleKept DEF IndInv, RoleInv, Role, Rests
  <2>3. Role(m)'
    <3>1. LeaderInv(m) /\ next_index[m] = Len(log) /\ is_leader(m)
      BY <1>0 DEF IndInv, RoleInv, Active
    <3>2. \A h \in Gids :
            /\ reconfig_es'[m][h] = IF h = g THEN "WaitingRequestedNodes" ELSE reconfig_es[m][h]
            /\ requested_reconfig_eids'[m][h] = IF h = g THEN count
                                                ELSE requested_reconfig_eids[m][h]
      BY <1>0 DEF IndInv, TypeInv, TypeOK
    <3>3. g \notin master_bundle[m]
      BY <1>0, <3>1 DEF LeaderInv
    <3>4. Len(log) \in Nat
      BY DEF IndInv, TypeInv
    <3> QED
      BY <1>0, <3>1, <3>2, <3>3, <3>4 DEF Role, LeaderInv, is_leader
  <2> QED
    BY <2>2, <2>3 DEF RoleInv, Role
<1>4. PendingInv' /\ ShutdownInv' /\ CreateInv'
  BY <1>0, PendingKept, ShutdownKept, CreateKept
<1> QED
  BY <1>1, <1>2, <1>3, <1>4 DEF IndInv

(* A group has taken its new nodes in. *)
LEMMA ReconfiguredInv ==
  ASSUME IndInv, NEW m \in MasterNodes, NEW g \in Gids, handle_reconfigured_msg(m, g)
  PROVE  IndInv'
<1>0. /\ Active(m)
      /\ reconfig_es[m][g] = "Reconfig"
      /\ reconfig_es' = [reconfig_es EXCEPT ![m][g] = "InsertingCompletion"]
      /\ master_bundle' = [master_bundle EXCEPT ![m] = @ \cup {g}]
      /\ UNCHANGED <<log, next_index, lid, free_nodes, pending_new_free_nodes,
                     free_node_heartbeat, requested_reconfig_eids, members, create_es,
                     confirmed, gossip, node, registered, down, confirms>>
  BY DEF handle_reconfigured_msg, netVars, managerVars
<1>1. LogInv' /\ ReplayInv' /\ LidInv' /\ AuthorInv'
  BY <1>0, ReplayKept DEF replayVars
<1>2. TypeInv'
  <2>1. reconfig_es' \in [MasterNodes -> [Gids ->
          {"None", "Follower", "WaitingRequestedNodes", "InsertingReconfig", "Reconfig",
           "InsertingCompletion"}]]
    BY <1>0 DEF IndInv, TypeInv, TypeOK
  <2>2. master_bundle' \in [MasterNodes -> SUBSET Groups]
    BY <1>0 DEF IndInv, TypeInv, TypeOK, Groups
  <2> QED
    BY <1>0, <2>1, <2>2 DEF IndInv, TypeInv, TypeOK
<1>3. \A i \in MasterNodes :
        /\ i # m => reconfig_es'[i] = reconfig_es[i] /\ master_bundle'[i] = master_bundle[i]
        /\ master_bundle'[m] = master_bundle[m] \cup {g}
  BY <1>0 DEF IndInv, TypeInv, TypeOK
<1>4. RoleInv'
  <2>2. ASSUME NEW i \in MasterNodes, i # m
        PROVE  Role(i)'
    BY <1>0, <1>3, <2>2, RoleKept DEF IndInv, RoleInv, Role, Rests
  <2>3. Role(m)'
    <3>1. LeaderInv(m) /\ next_index[m] = Len(log) /\ is_leader(m)
      BY <1>0 DEF IndInv, RoleInv, Active
    <3>2. \A h \in Gids :
            reconfig_es'[m][h] = IF h = g THEN "InsertingCompletion" ELSE reconfig_es[m][h]
      BY <1>0 DEF IndInv, TypeInv, TypeOK
    <3>3. ~(requested_reconfig_eids[m][g] > 0)
      BY <1>0, <3>1 DEF LeaderInv
    <3>4. Len(log) \in Nat
      BY DEF IndInv, TypeInv
    <3> QED
      BY <1>0, <1>3, <3>1, <3>2, <3>3, <3>4 DEF Role, LeaderInv, is_leader
  <2> QED
    BY <2>2, <2>3 DEF RoleInv, Role
<1>5. CreateInv'
  <2>1. g \notin Sids
    BY FreeNodeAssumption
  <2>2. \A i \in MasterNodes : master_bundle'[i] \cap Sids \subseteq master_bundle[i]
    BY <1>3, <2>1
  <2> QED
    BY <1>0, <2>2, CreateKept
<1>6. PendingInv' /\ ShutdownInv'
  BY <1>0, PendingKept, ShutdownKept
<1> QED
  BY <1>1, <1>2, <1>4, <1>5, <1>6 DEF IndInv

(* FreeNodes are told again who leads. *)
LEMMA BroadcastInv ==
  ASSUME IndInv, NEW m \in MasterNodes, NEW e \in Eids, broadcast_leadership(m, e)
  PROVE  IndInv'
<1> DEFINE msg == MasterLeadershipId(lid[m])
<1>0. /\ down' = [down EXCEPT ![m][e] = Append(@, msg)]
      /\ UNCHANGED <<log, next_index, lid, free_nodes, pending_new_free_nodes,
                     free_node_heartbeat, requested_reconfig_eids, members, reconfig_es,
                     create_es, confirmed, gossip, master_bundle, node, registered, confirms>>
  BY DEF broadcast_leadership, managerVars, esVars
<1>1. LogInv' /\ ReplayInv' /\ LidInv' /\ AuthorInv'
  BY <1>0, ReplayKept DEF replayVars
<1>2. /\ msg \in FreeNodeMessages
      /\ msg # ShutdownNode /\ \A g \in Sids : msg # CreateSlaveGroup(g)
  BY DEF IndInv, TypeInv, TypeOK, FreeNodeMessages, MasterLeadershipId, ShutdownNode,
     CreateSlaveGroup
<1> HIDE DEF msg
<1>3. down[m][e] \in Seq(FreeNodeMessages)
  BY DEF IndInv, TypeInv
<1>4. <<msg>> \in Seq(FreeNodeMessages) /\ Range(<<msg>>) = {msg}
  BY <1>2 DEF Range
<1>5. /\ Append(down[m][e], msg) \in Seq(FreeNodeMessages)
      /\ Range(Append(down[m][e], msg)) = Range(down[m][e]) \cup {msg}
  <2>1. Append(down[m][e], msg) = down[m][e] \o <<msg>>
    BY <1>2, <1>3, AppendIsConcat
  <2>2. ASSUME NEW t \in Seq(FreeNodeMessages)
        PROVE  /\ down[m][e] \o t \in Seq(FreeNodeMessages)
               /\ Range(down[m][e] \o t) = Range(down[m][e]) \cup Range(t)
    BY <1>3, RangeJoin
  <2> QED
    BY <1>4, <2>1, <2>2
<1>6. \A i \in MasterNodes, x \in Eids :
        Range(down'[i][x]) \subseteq Range(down[i][x]) \cup {msg}
  BY <1>0, <1>5 DEF IndInv, TypeInv
<1>7. TypeInv'
  <2>1. down' \in [MasterNodes -> [Eids -> Seq(FreeNodeMessages)]]
    BY <1>0, <1>5 DEF IndInv, TypeInv
  <2> QED
    BY <1>0, <2>1 DEF IndInv, TypeInv, TypeOK
<1>8. RoleInv'
  <2>1. ASSUME NEW i \in MasterNodes
        PROVE  Role(i)'
    BY <1>0, RoleKept DEF IndInv, RoleInv, Role, Rests
  <2> QED
    BY <2>1 DEF RoleInv, Role
<1>9. PendingInv'
  BY <1>0, PendingKept
<1>10. SameBy(Len(log)) /\ (\A i \in 1 .. Len(log) : SameAt(i)) /\ \A g \in Groups : Given(g)' = Given(g)
  BY <1>0, LogKept DEF IndInv
<1>11. ShutdownInv'
  BY <1>0, <1>2, <1>6, <1>10 DEF IndInv, ShutdownInv, SameBy
<1>12. CreateInv'
  <2>1. \A g \in Groups : GroupRuns(g)' <=> GroupRuns(g)
    BY <1>0, <1>10 DEF GroupRuns, Running
  <2>2. Sids \subseteq Groups
    BY DEF Groups
  <2> QED
    BY <1>0, <1>2, <1>6, <1>10, <2>1, <2>2 DEF IndInv, CreateInv, SameAt
<1> QED
  BY <1>1, <1>7, <1>8, <1>9, <1>11, <1>12 DEF IndInv

(* A node of a new SlaveGroup confirms: a majority of confirmations is a   *)
(* majority of nodes that run it.                                          *)
LEMMA ConfirmInv ==
  ASSUME IndInv, NEW m \in MasterNodes, NEW e \in Eids, NEW g \in Sids,
         handle_confirm_msg(m, e, g)
  PROVE  IndInv'
<1> DEFINE c == [to |-> m, from |-> e, sid |-> g]
           eids == confirmed[m][g] \cup {e}
<1>0. /\ c \in confirms
      /\ confirms' = confirms \ {c}
      /\ UNCHANGED <<log, next_index, lid, free_nodes, pending_new_free_nodes,
                     free_node_heartbeat, requested_reconfig_eids, members, reconfig_es,
                     gossip, node, registered, down>>
  BY DEF handle_confirm_msg, managerVars
<1>1. \/ UNCHANGED <<create_es, confirmed, master_bundle>>
      \/ /\ is_leader(m) /\ create_es[m][g] = "WaitingConfirmed"
         /\ Majority(eids, members[m][g])
         /\ create_es' = [create_es EXCEPT ![m][g] = "InsertingConfirmed"]
         /\ confirmed' = [confirmed EXCEPT ![m][g] = {}]
         /\ master_bundle' = [master_bundle EXCEPT ![m] = @ \cup {g}]
      \/ /\ confirmed' = [confirmed EXCEPT ![m][g] = eids]
         /\ UNCHANGED <<create_es, master_bundle>>
  BY DEF handle_confirm_msg
<1>2. LogInv' /\ ReplayInv' /\ LidInv' /\ AuthorInv'
  BY <1>0, ReplayKept DEF replayVars
<1>3. PendingInv' /\ ShutdownInv'
  BY <1>0, PendingKept, ShutdownKept
<1>4. /\ g \in Groups /\ g \notin Gids
      /\ confirmed[m][g] \subseteq Eids /\ eids \subseteq Eids
  BY FreeNodeAssumption DEF Groups, IndInv, TypeInv, TypeOK
<1>5. \A x \in eids : node[x] = Slave(g)
  BY <1>0 DEF IndInv, CreateInv
<1> HIDE DEF c, eids
<1>6. TypeInv'
  <2>1. confirms' \subseteq [to : MasterNodes, from : Eids, sid : Groups]
    BY <1>0 DEF IndInv, TypeInv
  <2>0. /\ create_es \in [MasterNodes -> [Sids ->
             {"None", "Follower", "WaitingConfirmed", "InsertingConfirmed"}]]
        /\ confirmed \in [MasterNodes -> [Sids -> SUBSET Eids]]
        /\ master_bundle \in [MasterNodes -> SUBSET Groups]
    BY DEF IndInv, TypeInv, TypeOK
  <2>2. create_es' \in [MasterNodes -> [Sids ->
          {"None", "Follower", "WaitingConfirmed", "InsertingConfirmed"}]]
    <3>1. CASE UNCHANGED create_es
      BY <2>0, <3>1
    <3>2. CASE create_es' = [create_es EXCEPT ![m][g] = "InsertingConfirmed"]
      BY <2>0, <3>2
    <3> QED
      BY <1>1, <3>1, <3>2
  <2>3. confirmed' \in [MasterNodes -> [Sids -> SUBSET Eids]]
    <3>1. ASSUME NEW S \in SUBSET Eids
          PROVE  [confirmed EXCEPT ![m][g] = S] \in [MasterNodes -> [Sids -> SUBSET Eids]]
      BY <2>0
    <3>2. CASE UNCHANGED confirmed
      BY <2>0, <3>2
    <3>3. CASE confirmed' = [confirmed EXCEPT ![m][g] = {}]
      BY <3>1, <3>3
    <3>4. CASE confirmed' = [confirmed EXCEPT ![m][g] = eids]
      BY <1>4, <3>1, <3>4
    <3> QED
      BY <1>1, <3>2, <3>3, <3>4
  <2>4. master_bundle' \in [MasterNodes -> SUBSET Groups]
    <3>1. CASE UNCHANGED master_bundle
      BY <2>0, <3>1
    <3>2. CASE master_bundle' = [master_bundle EXCEPT ![m] = @ \cup {g}]
      BY <1>4, <2>0, <3>2
    <3> QED
      BY <1>1, <3>1, <3>2
  <2> QED
    BY <1>0, <2>1, <2>2, <2>3, <2>4 DEF IndInv, TypeInv, TypeOK
<1>7. RoleInv'
  <2>1. ASSUME NEW i \in MasterNodes, create_es'[i] = create_es[i],
               master_bundle'[i] = master_bundle[i]
        PROVE  Role(i)'
    BY <1>0, <2>1, RoleKept DEF IndInv, RoleInv, Role, Rests
  <2>2. ASSUME is_leader(m), master_bundle'[m] = master_bundle[m] \cup {g}
        PROVE  Role(m)'
    <3>1. LeaderInv(m)
      BY <2>2 DEF IndInv, RoleInv
    <3>2. LeaderInv(m)'
      BY <1>0, <1>4, <2>2, <3>1 DEF LeaderInv, GivenAt, PushedAt
    <3> QED
      BY <1>0, <2>2, <3>2 DEF Role, is_leader
  <2>3. \A i \in MasterNodes :
          \/ create_es'[i] = create_es[i] /\ master_bundle'[i] = master_bundle[i]
          \/ i = m /\ is_leader(m) /\ master_bundle'[m] = master_bundle[m] \cup {g}
    BY <1>1 DEF IndInv, TypeInv, TypeOK
  <2> QED
    BY <2>1, <2>2, <2>3 DEF RoleInv, Role
<1>8. (\A i \in 1 .. Len(log) : SameAt(i)) /\ \A h \in Groups : Given(h)' = Given(h)
  BY <1>0, LogKept DEF IndInv
<1>9. \A h \in Groups : GroupRuns(h)' <=> GroupRuns(h)
  BY <1>0, <1>8 DEF GroupRuns, Running
<1>10. ASSUME create_es[m][g] = "WaitingConfirmed", Majority(eids, members[m][g])
       PROVE  GroupRuns(g)
  <2>1. members[m][g] = Given(g)
    BY <1>10, AllMembers DEF IndInv, CreateInv
  <2>2. eids \subseteq Running(g)
    BY <1>4, <1>5 DEF IndInv, CreateInv, Running
  <2>3. IsFiniteSet(Given(g)) /\ Running(g) \subseteq Given(g)
    BY <1>4, GivenFinite DEF IndInv, Running
  <2>4. IsFiniteSet(Running(g))
    BY <2>3, FS_Subset
  <2>5. /\ Cardinality(eids) =< Cardinality(Running(g))
        /\ Cardinality(eids) \in Nat /\ Cardinality(Running(g)) \in Nat
        /\ Cardinality(Given(g)) \in Nat
    BY <2>2, <2>3, <2>4, FS_Subset, FS_CardinalityType
  <2> QED
    BY <1>10, <2>1, <2>5 DEF Majority, GroupRuns
<1>11. CreateInv'
  <2>1. \A i \in MasterNodes, h \in Sids :
          /\ create_es'[i][h] # "None" => create_es[i][h] # "None"
          /\ confirmed'[i][h] \subseteq confirmed[i][h] \cup (IF h = g THEN eids ELSE {})
          /\ h \in master_bundle'[i] => h \in master_bundle[i] \/ GroupRuns(h)
    <3>0. /\ create_es \in [MasterNodes -> [Sids ->
               {"None", "Follower", "WaitingConfirmed", "InsertingConfirmed"}]]
          /\ confirmed \in [MasterNodes -> [Sids -> SUBSET Eids]]
          /\ master_bundle \in [MasterNodes -> SUBSET Groups]
      BY DEF IndInv, TypeInv, TypeOK
    <3>1. CASE UNCHANGED <<create_es, confirmed, master_bundle>>
      BY <3>1
    <3>2. CASE /\ create_es[m][g] = "WaitingConfirmed"
               /\ Majority(eids, members[m][g])
               /\ create_es' = [create_es EXCEPT ![m][g] = "InsertingConfirmed"]
               /\ confirmed' = [confirmed EXCEPT ![m][g] = {}]
               /\ master_bundle' = [master_bundle EXCEPT ![m] = @ \cup {g}]
      BY <1>10, <3>0, <3>2
    <3>3. CASE /\ confirmed' = [confirmed EXCEPT ![m][g] = eids]
               /\ UNCHANGED <<create_es, master_bundle>>
      BY <3>0, <3>3
    <3> QED
      BY <1>1, <3>1, <3>2, <3>3
  <2>2. \A i \in MasterNodes, h \in Sids :
          /\ create_es'[i][h] # "None" => members'[i][h] # {}
          /\ \A x \in confirmed'[i][h] : node'[x] = Slave(h)
          /\ h \in master_bundle'[i] \cup gossip'[i] => GroupRuns(h)'
          /\ h \in gossip'[i] => members'[i][h] # {}
    <3> SUFFICES ASSUME NEW i \in MasterNodes, NEW h \in Sids
                 PROVE  /\ create_es'[i][h] # "None" => members'[i][h] # {}
                        /\ \A x \in confirmed'[i][h] : node'[x] = Slave(h)
                        /\ h \in master_bundle'[i] \cup gossip'[i] => GroupRuns(h)'
                        /\ h \in gossip'[i] => members'[i][h] # {}
      OBVIOUS
    <3>1. h \in Groups
      BY DEF Groups
    <3> QED
      BY <1>0, <1>5, <1>9, <2>1, <3>1 DEF IndInv, CreateInv
  <2>3. \A i \in 1 .. Len(log') : \A h \in PushedAt(i)' \cap Sids : GroupRuns(h)'
    BY <1>0, <1>8, <1>9 DEF IndInv, CreateInv, SameAt, Groups
  <2>4. /\ \A x \in Eids, h \in Groups : node'[x] = Slave(h) => x \in Given(h)'
        /\ \A i \in MasterNodes, x \in Eids, h \in Sids :
             CreateSlaveGroup(h) \in Range(down'[i][x]) => x \in Given(h)'
        /\ \A d \in confirms' : node'[d.from] = Slave(d.sid)
    BY <1>0, <1>8 DEF IndInv, CreateInv, Groups
  <2> QED
    BY <2>2, <2>3, <2>4 DEF CreateInv
<1> QED
  BY <1>2, <1>3, <1>6, <1>7, <1>11 DEF IndInv

(* Nodes that follow the log: only the dead end, a Slave stays one, and a  *)
(* node becomes a Slave of the group it is given to.                       *)
LEMMA NodesInv ==
  ASSUME IndInv,
         UNCHANGED <<log, next_index, lid, managerVars, esVars, registered>>,
         node' \in [Eids -> NodeStates],
         down' \in [MasterNodes -> [Eids -> Seq(FreeNodeMessages)]],
         confirms' \subseteq [to : MasterNodes, from : Eids, sid : Groups],
         \A m \in MasterNodes, e \in Eids : Range(down'[m][e]) \subseteq Range(down[m][e]),
         \A e \in Eids : node'[e] = PostExistence => e \in DeadBy(Len(log)),
         \A e \in Eids, g \in Groups : node[e] = Slave(g) => node'[e] = Slave(g),
         \A e \in Eids, g \in Groups : node'[e] = Slave(g) => e \in Given(g),
         \A c \in confirms' : node'[c.from] = Slave(c.sid)
  PROVE  IndInv'
<1>0. UNCHANGED <<log, next_index, lid, free_nodes, pending_new_free_nodes, free_node_heartbeat,
                  requested_reconfig_eids, members, reconfig_es, create_es, confirmed, gossip,
                  master_bundle, registered>>
  BY DEF managerVars, esVars
<1>1. LogInv' /\ ReplayInv' /\ LidInv' /\ AuthorInv'
  BY <1>0, ReplayKept DEF replayVars
<1>2. PendingInv'
  BY <1>0, PendingKept
<1>3. TypeInv'
  BY <1>0 DEF IndInv, TypeInv, TypeOK
<1>4. RoleInv'
  <2>1. ASSUME NEW i \in MasterNodes
        PROVE  Role(i)'
    BY <1>0, RoleKept DEF IndInv, RoleInv, Role, Rests
  <2> QED
    BY <2>1 DEF RoleInv, Role
<1>5. SameBy(Len(log)) /\ (\A i \in 1 .. Len(log) : SameAt(i)) /\ \A g \in Groups : Given(g)' = Given(g)
  BY <1>0, LogKept DEF IndInv
<1>6. ShutdownInv'
  BY <1>0, <1>5 DEF IndInv, ShutdownInv, SameBy
<1>7. \A g \in Groups : GroupRuns(g) => GroupRuns(g)'
  BY <1>5, RunsStay DEF IndInv
<1>8. Sids \subseteq Groups
  BY DEF Groups
<1>9. CreateInv'
  <2>1. \A e \in Eids, g \in Groups : node'[e] = Slave(g) => e \in Given(g)'
    BY <1>5
  <2>2. \A m \in MasterNodes, e \in Eids, g \in Sids :
          CreateSlaveGroup(g) \in Range(down'[m][e]) => e \in Given(g)'
    <3> SUFFICES ASSUME NEW m \in MasterNodes, NEW e \in Eids, NEW g \in Sids,
                        CreateSlaveGroup(g) \in Range(down'[m][e])
                 PROVE  e \in Given(g)'
      OBVIOUS
    <3>1. CreateSlaveGroup(g) \in Range(down[m][e])
      OBVIOUS
    <3>2. e \in Given(g)
      BY <3>1 DEF IndInv, CreateInv
    <3> QED
      BY <1>5, <1>8, <3>2
  <2>3. ASSUME NEW m \in MasterNodes, NEW g \in Sids
        PROVE  /\ create_es'[m][g] # "None" => members'[m][g] # {}
               /\ \A e \in confirmed'[m][g] : node'[e] = Slave(g)
               /\ g \in master_bundle'[m] \cup gossip'[m] => GroupRuns(g)'
               /\ g \in gossip'[m] => members'[m][g] # {}
    <3>1. g \in Groups /\ confirmed[m][g] \subseteq Eids
      BY <1>8 DEF IndInv, TypeInv, TypeOK
    <3>2. /\ create_es[m][g] # "None" => members[m][g] # {}
          /\ \A e \in confirmed[m][g] : node[e] = Slave(g)
          /\ g \in master_bundle[m] \cup gossip[m] => GroupRuns(g)
          /\ g \in gossip[m] => members[m][g] # {}
      BY DEF IndInv, CreateInv
    <3>3. \A e \in confirmed'[m][g] : node'[e] = Slave(g)
      BY <1>0, <3>1, <3>2
    <3> QED
      BY <1>0, <1>7, <3>1, <3>2, <3>3
  <2>4. \A i \in 1 .. Len(log') : \A g \in PushedAt(i)' \cap Sids : GroupRuns(g)'
    BY <1>0, <1>5, <1>7, <1>8 DEF IndInv, CreateInv, SameAt
  <2> QED
    BY <2>1, <2>2, <2>3, <2>4 DEF CreateInv
<1> QED
  BY <1>1, <1>2, <1>3, <1>4, <1>6, <1>9 DEF IndInv

(* What a node makes of a FreeNodeMessage. *)
LEMMA BecomesFacts ==
  ASSUME NEW e \in Eids, node[e] \in NodeStates, NEW message \in FreeNodeMessages
  PROVE  /\ Becomes(e, message) \in NodeStates
         /\ \/ Becomes(e, message) = node[e]
            \/ Becomes(e, message) = PostExistence /\ message = ShutdownNode
            \/ /\ \A g \in Groups : node[e] # Slave(g)
               /\ \/ \E l \in Lids : Becomes(e, message) = FreeNode(l)
                  \/ \E g \in Sids : /\ message = CreateSlaveGroup(g)
                                     /\ Becomes(e, message) = Slave(g)
<1> USE DEF Becomes
<1>0. node[e] = DNE \/ node[e].st = "FreeNode" => \A g \in Groups : node[e] # Slave(g)
  BY DEF DNE, Slave
<1>1. CASE message = ShutdownNode
  BY <1>1 DEF ShutdownNode, NodeStates
<1>2. CASE \E l \in Lids : message = FreeNodeRegistered(l)
  <2>1. PICK l \in Lids : message = FreeNodeRegistered(l)
    BY <1>2
  <2>2. message.type = "FreeNodeRegistered" /\ message.lid = l
    BY <2>1 DEF FreeNodeRegistered
  <2>3. Becomes(e, message) = IF node[e] = DNE THEN FreeNode(l) ELSE node[e]
    BY <2>2
  <2> QED
    BY <1>0, <2>3 DEF NodeStates
<1>3. CASE \E l \in Lids : message = MasterLeadershipId(l)
  <2>1. PICK l \in Lids : message = MasterLeadershipId(l)
    BY <1>3
  <2>2. message.type = "MasterLeadershipId" /\ message.lid = l
    BY <2>1 DEF MasterLeadershipId
  <2>3. Becomes(e, message) = IF node[e].st = "FreeNode" /\ l.gen > node[e].lid.gen
                              THEN FreeNode(l) ELSE node[e]
    BY <2>2
  <2> QED
    BY <1>0, <2>3 DEF NodeStates
<1>4. CASE \E g \in Sids : message = CreateSlaveGroup(g)
  <2>1. PICK g \in Sids : message = CreateSlaveGroup(g)
    BY <1>4
  <2>2. message.type = "CreateSlaveGroup" /\ message.sid = g
    BY <2>1 DEF CreateSlaveGroup
  <2>3. Becomes(e, message) = IF node[e].st = "FreeNode" THEN Slave(g) ELSE node[e]
    BY <2>2
  <2> QED
    BY <1>0, <2>1, <2>3 DEF NodeStates, Groups
<1> QED
  BY <1>1, <1>2, <1>3, <1>4 DEF FreeNodeMessages

(* A node handles a FreeNodeMessage. *)
LEMMA ProcessInputInv ==
  ASSUME IndInv, NEW m \in MasterNodes, NEW e \in Eids, process_input(m, e)
  PROVE  IndInv'
<1> DEFINE message == Head(down[m][e])
<1>0. /\ down[m][e] # <<>>
      /\ down' = [down EXCEPT ![m][e] = Tail(@)]
      /\ node' = [node EXCEPT ![e] = Becomes(e, message)]
      /\ \A c \in confirms' : \/ c \in confirms
                              \/ /\ node'[e].st = "Slave"
                                 /\ c = [to |-> m, from |-> e, sid |-> node'[e].group]
      /\ UNCHANGED <<log, next_index, lid, managerVars, esVars, registered>>
  BY DEF process_input
<1>1. /\ node \in [Eids -> NodeStates]
      /\ down \in [MasterNodes -> [Eids -> Seq(FreeNodeMessages)]]
      /\ confirms \subseteq [to : MasterNodes, from : Eids, sid : Groups]
  BY DEF IndInv, TypeInv
<1>2. /\ message \in FreeNodeMessages /\ message \in Range(down[m][e])
      /\ Tail(down[m][e]) \in Seq(FreeNodeMessages)
      /\ Range(Tail(down[m][e])) \subseteq Range(down[m][e])
  BY <1>0, <1>1, RangeRest
<1> HIDE DEF message
<1>3. /\ Becomes(e, message) \in NodeStates
      /\ \/ Becomes(e, message) = node[e]
         \/ Becomes(e, message) = PostExistence /\ message = ShutdownNode
         \/ /\ \A g \in Groups : node[e] # Slave(g)
            /\ \/ \E l \in Lids : Becomes(e, message) = FreeNode(l)
               \/ \E g \in Sids : /\ message = CreateSlaveGroup(g)
                                  /\ Becomes(e, message) = Slave(g)
  BY <1>1, <1>2, BecomesFacts
<1>4. /\ node' \in [Eids -> NodeStates]
      /\ down' \in [MasterNodes -> [Eids -> Seq(FreeNodeMessages)]]
      /\ \A i \in MasterNodes, x \in Eids : Range(down'[i][x]) \subseteq Range(down[i][x])
      /\ \A x \in Eids : node'[x] = IF x = e THEN Becomes(e, message) ELSE node[x]
  BY <1>0, <1>1, <1>2, <1>3
<1>5. \A l, g : FreeNode(l) # PostExistence /\ Slave(g) # PostExistence /\ FreeNode(l) # Slave(g)
  BY DEF FreeNode, PostExistence, Slave
<1>6. \A g, h : Slave(g) = Slave(h) => g = h
  BY DEF Slave
<1>7. message = ShutdownNode => e \in DeadBy(Len(log))
  BY <1>2 DEF IndInv, ShutdownInv
<1>8. \A g \in Sids : message = CreateSlaveGroup(g) => e \in Given(g)
  BY <1>2 DEF IndInv, CreateInv
<1>9. \A g \in Groups : node[e] = Slave(g) => e \in Given(g) /\ e \notin DeadBy(Len(log))
  BY GoneOnce DEF IndInv, CreateInv
<1>10. \A x \in Eids : node'[x] = PostExistence => x \in DeadBy(Len(log))
  <2>1. \A x \in Eids : node[x] = PostExistence => x \in DeadBy(Len(log))
    BY DEF IndInv, ShutdownInv
  <2> QED
    BY <1>3, <1>4, <1>5, <1>7, <2>1
<1>11. \A x \in Eids, g \in Groups : node[x] = Slave(g) => node'[x] = Slave(g)
  BY <1>3, <1>4, <1>7, <1>9
<1>12. \A x \in Eids, g \in Groups : node'[x] = Slave(g) => x \in Given(g)
  <2>1. \A x \in Eids, g \in Groups : node[x] = Slave(g) => x \in Given(g)
    BY DEF IndInv, CreateInv
  <2> QED
    BY <1>3, <1>4, <1>5, <1>6, <1>8, <2>1
<1>13. ASSUME node'[e].st = "Slave"
       PROVE  \E g \in Groups : node'[e] = Slave(g) /\ node'[e].group = g
  BY <1>4, <1>13 DEF NodeStates, DNE, PostExistence, FreeNode, Slave
<1>14. /\ confirms' \subseteq [to : MasterNodes, from : Eids, sid : Groups]
       /\ \A c \in confirms' : node'[c.from] = Slave(c.sid)
  <2> SUFFICES ASSUME NEW c \in confirms'
               PROVE  /\ c \in [to : MasterNodes, from : Eids, sid : Groups]
                      /\ node'[c.from] = Slave(c.sid)
    OBVIOUS
  <2>1. CASE c \in confirms
    <3>1. c \in [to : MasterNodes, from : Eids, sid : Groups] /\ node[c.from] = Slave(c.sid)
      BY <1>1, <2>1 DEF IndInv, CreateInv
    <3>2. c.from \in Eids /\ c.sid \in Groups
      BY <3>1
    <3> QED
      BY <1>11, <3>1, <3>2
  <2>2. CASE node'[e].st = "Slave" /\ c = [to |-> m, from |-> e, sid |-> node'[e].group]
    BY <1>13, <2>2
  <2> QED
    BY <1>0, <2>1, <2>2
<1> QED
  BY <1>0, <1>4, <1>10, <1>11, <1>12, <1>14, NodesInv

(* A node that a group was granted joins it. *)
LEMMA SnapshotInv ==
  ASSUME IndInv, NEW e \in Eids, NEW g \in Gids, Snapshot(e, g)
  PROVE  IndInv'
<1>0. /\ node[e].st = "FreeNode"
      /\ node' = [node EXCEPT ![e] = Slave(g)]
      /\ UNCHANGED <<log, next_index, lid, managerVars, esVars, registered, down, confirms>>
  BY DEF Snapshot
<1>1. PICK m \in MasterNodes : e \in members[m][g]
  BY DEF Snapshot
<1>2. g \in Groups /\ node \in [Eids -> NodeStates]
  BY DEF Groups, IndInv, TypeInv
<1>3. e \in Given(g)
  <2>1. next_index[m] \in Nat /\ Len(log) \in Nat /\ next_index[m] =< Len(log)
    BY DEF IndInv, TypeInv, TypeOK
  <2>2. e \in GivenBy(next_index[m], g)
    BY <1>1, <1>2 DEF IndInv, ReplayInv
  <2> QED
    BY <1>2, <2>1, <2>2, PrefixGrows DEF Given
<1>4. /\ node' \in [Eids -> NodeStates]
      /\ \A x \in Eids : node'[x] = IF x = e THEN Slave(g) ELSE node[x]
  BY <1>0, <1>2 DEF NodeStates
<1>5. Slave(g) # PostExistence /\ (\A h : Slave(g) = Slave(h) => g = h)
      /\ \A h : node[e] # Slave(h)
  BY <1>0 DEF Slave, PostExistence
<1>6. \A x \in Eids : node'[x] = PostExistence => x \in DeadBy(Len(log))
  BY <1>4, <1>5 DEF IndInv, ShutdownInv
<1>7. \A x \in Eids, h \in Groups : node[x] = Slave(h) => node'[x] = Slave(h)
  BY <1>4, <1>5
<1>8. \A x \in Eids, h \in Groups : node'[x] = Slave(h) => x \in Given(h)
  BY <1>3, <1>4, <1>5 DEF IndInv, CreateInv
<1>9. \A c \in confirms' : node'[c.from] = Slave(c.sid)
  BY <1>0, <1>7 DEF IndInv, CreateInv, TypeInv
<1>10. /\ down' \in [MasterNodes -> [Eids -> Seq(FreeNodeMessages)]]
       /\ confirms' \subseteq [to : MasterNodes, from : Eids, sid : Groups]
       /\ \A i \in MasterNodes, x \in Eids : Range(down'[i][x]) \subseteq Range(down[i][x])
  BY <1>0 DEF IndInv, TypeInv
<1> QED
  BY <1>0, <1>4, <1>6, <1>7, <1>8, <1>9, <1>10, NodesInv
-----------------------------------------------------------------------------
(* The log grows *)

(* What it says after the entry x is added. *)
LEMMA AppendFacts ==
  ASSUME IndInv, NEW x \in Bundles \cup LeaderChanges, log' = Append(log, x),
         NEW n \in Nat, n = Len(log)
  PROVE  /\ log' \in Seq(Bundles \cup LeaderChanges)
         /\ Len(log') = n + 1
         /\ log'[n + 1] = x
         /\ \A i \in 1 .. n : log'[i] = log[i]
         /\ \A i \in 1 .. n : SameAt(i)
         /\ \A k \in 0 .. n : SameBy(k)
         /\ NewBy(n + 1)' = NewBy(n) \cup NewAt(n + 1)'
         /\ DeadBy(n + 1)' = DeadBy(n) \cup DeadAt(n + 1)'
         /\ \A g \in Groups : Given(g)' = Given(g) \cup GivenAt(n + 1, g)'
<1>1. /\ log \in Seq(Bundles \cup LeaderChanges)
      /\ log' \in Seq(Bundles \cup LeaderChanges)
      /\ Len(log') = n + 1 /\ log'[n + 1] = x /\ \A i \in 1 .. n : log'[i] = log[i]
  BY DEF IndInv, TypeInv
<1>2. \A k \in 0 .. n : (\A i \in 1 .. k : SameAt(i)) /\ SameBy(k)
  <2> SUFFICES ASSUME NEW k \in 0 .. n
               PROVE  (\A i \in 1 .. k : SameAt(i)) /\ SameBy(k)
    OBVIOUS
  <2>1. k \in Nat /\ \A i \in 1 .. k : log'[i] = log[i]
    BY <1>1
  <2> QED
    BY <2>1, SameFacts
<1>3. n \in 0 .. n /\ 1 .. n + 1 = (1 .. n) \cup {n + 1}
  OBVIOUS
<1>4. \A i \in 1 .. n : SameAt(i)
  BY <1>2, <1>3
<1>5. NewBy(n + 1)' = NewBy(n) \cup NewAt(n + 1)'
  BY <1>3, <1>4 DEF NewBy, SameAt
<1>6. DeadBy(n + 1)' = DeadBy(n) \cup DeadAt(n + 1)'
  BY <1>3, <1>4 DEF DeadBy, SameAt
<1>7. \A g \in Groups : GivenBy(n + 1, g)' = GivenBy(n, g) \cup GivenAt(n + 1, g)'
  BY <1>3, <1>4 DEF GivenBy, SameAt
<1>8. \A g \in Groups : Given(g)' = Given(g) \cup GivenAt(n + 1, g)'
  BY <1>1, <1>7 DEF Given
<1> QED
  BY <1>1, <1>2, <1>4, <1>5, <1>6, <1>8

(* What is replayed is not changed by what is not replayed yet.  The       *)
(* author of the new entry has to be right.                                *)
LEMMA AppendReplay ==
  ASSUME IndInv, NEW x \in Bundles \cup LeaderChanges, log' = Append(log, x),
         UNCHANGED <<next_index, lid, free_nodes, members>>,
         \A l \in Lids : Leads(Len(log), l) =>
           /\ x.type = "LeaderChanged" => x.lid.eid # l.eid
           /\ x.type # "LeaderChanged" => next_index[l.eid] >= Len(log)
  PROVE  ReplayInv' /\ LidInv' /\ AuthorInv'
<1>0. PICK n \in Nat : n = Len(log)
  BY DEF IndInv, TypeInv
<1>1. /\ Len(log) \in Nat /\ Len(log') = Len(log) + 1 /\ log'[Len(log) + 1] = x
      /\ (\A i \in 1 .. Len(log) : SameAt(i)) /\ (\A k \in 0 .. Len(log) : SameBy(k))
      /\ \A i \in 1 .. Len(log) : log'[i] = log[i]
  BY <1>0, AppendFacts
<1>2. \A m \in MasterNodes : next_index[m] \in 0 .. Len(log)
  BY <1>1 DEF IndInv, TypeInv, TypeOK
<1>3. ReplayInv'
  BY <1>1, <1>2 DEF IndInv, ReplayInv, SameBy
<1>4. LidInv'
  BY <1>1, <1>2 DEF IndInv, LidInv, SameBy
<1>5. AuthorInv'
  <2> SUFFICES ASSUME NEW i \in 1 .. Len(log) + 1, NEW l \in Lids, Leads(i - 1, l)'
               PROVE  /\ ChangedAt(i)' => log'[i].lid.eid # l.eid
                      /\ ~ChangedAt(i)' => next_index'[l.eid] >= i - 1
    BY <1>1 DEF AuthorInv
  <2>1. i - 1 \in 0 .. Len(log)
    BY <1>1
  <2>2. Leads(i - 1, l)
    BY <1>1, <2>1 DEF SameBy
  <2>3. CASE i \in 1 .. Len(log)
    BY <1>1, <2>2, <2>3 DEF IndInv, AuthorInv, SameAt
  <2>4. CASE i = Len(log) + 1
    <3>1. i - 1 = Len(log) /\ log'[i] = x
      BY <1>1, <2>4
    <3> QED
      BY <2>2, <3>1 DEF ChangedAt
  <2> QED
    BY <1>1, <2>3, <2>4
<1> QED
  BY <1>3, <1>4, <1>5

(* Another Master node becomes leader. *)
LEMMA InsertLeaderChangedInv ==
  ASSUME IndInv, NEW m \in MasterNodes, InsertLeaderChanged(m)
  PROVE  IndInv'
<1>n. PICK n \in Nat : n = Len(log)
  BY DEF IndInv, TypeInv
<1> DEFINE changes == {i \in DOMAIN log : log[i].type = "LeaderChanged"}
           last == IF changes = {} THEN FirstLeader ELSE log[Max(changes)].lid.eid
           gen == Cardinality(changes) + 1
           x == LeaderChanged([gen |-> gen, eid |-> m])
<1>0. /\ gen =< MaxGen /\ n < MaxLog /\ m # last /\ log' = Append(log, x)
      /\ UNCHANGED <<next_index, lid, free_nodes, pending_new_free_nodes, free_node_heartbeat,
                     requested_reconfig_eids, members, reconfig_es, create_es, confirmed,
                     gossip, master_bundle, node, registered, down, confirms>>
  BY <1>n DEF InsertLeaderChanged, managerVars, esVars, netVars
<1>1. n \in Nat /\ DOMAIN log = 1 .. n
  BY <1>n DEF IndInv, TypeInv
<1>2. Cardinality(changes) \in Nat
  <2>1. IsFiniteSet(1 .. n)
    BY <1>1, FS_Interval
  <2>2. changes \subseteq 1 .. n
    BY <1>1
  <2> HIDE DEF changes
  <2> QED
    BY <2>1, <2>2, FS_Subset, FS_CardinalityType
<1>3. x \in LeaderChanges /\ x.type = "LeaderChanged" /\ x.lid.eid = m
  <2>1. gen \in 0 .. MaxGen
    BY <1>0, <1>2, FreeNodeAssumption
  <2> HIDE DEF gen
  <2> QED
    BY <2>1 DEF LeaderChanges, LeaderChanged, Lids
<1>4. ASSUME NEW l \in Lids, Leads(n, l)
      PROVE  l.eid = last
  <2>1. CASE /\ l = [gen |-> 0, eid |-> FirstLeader]
             /\ \A i \in 1 .. n : ~ChangedAt(i)
    BY <1>1, <2>1 DEF ChangedAt
  <2>2. CASE \E j \in 1 .. n : /\ ChangedAt(j)
                               /\ l = log[j].lid
                               /\ \A i \in j + 1 .. n : ~ChangedAt(i)
    <3>1. PICK j \in 1 .. n : /\ ChangedAt(j)
                              /\ l = log[j].lid
                              /\ \A i \in j + 1 .. n : ~ChangedAt(i)
      BY <2>2
    <3>2. j \in changes /\ \A i \in changes : j >= i
      BY <1>1, <3>1 DEF ChangedAt
    <3>3. changes \subseteq Int
      BY <1>1
    <3> HIDE DEF changes
    <3>4. Max(changes) \in changes /\ \A i \in changes : Max(changes) >= i
      BY <3>2 DEF Max
    <3>5. Max(changes) >= j /\ j >= Max(changes) /\ Max(changes) \in Int /\ j \in Int
      BY <3>2, <3>3, <3>4
    <3>6. Max(changes) = j
      BY <3>5
    <3> QED
      BY <3>1, <3>2, <3>6
  <2> QED
    BY <1>4, <2>1, <2>2 DEF Leads
<1> HIDE DEF changes, last, gen, x
<1>5. x \in Bundles \cup LeaderChanges
  BY <1>3
<1>6. /\ log' \in Seq(Bundles \cup LeaderChanges)
      /\ Len(log') = n + 1 /\ log'[n + 1] = x
      /\ (\A i \in 1 .. n : SameAt(i)) /\ (\A k \in 0 .. n : SameBy(k))
      /\ NewBy(n + 1)' = NewBy(n) \cup NewAt(n + 1)'
      /\ DeadBy(n + 1)' = DeadBy(n) \cup DeadAt(n + 1)'
      /\ \A g \in Groups : Given(g)' = Given(g) \cup GivenAt(n + 1, g)'
  BY <1>n, <1>0, <1>5, AppendFacts
<1>7. /\ NewAt(n + 1)' = {} /\ DeadAt(n + 1)' = {} /\ PushedAt(n + 1)' = {}
      /\ \A g : GivenAt(n + 1, g)' = {}
      /\ GoneAt(n + 1)' = {}
  BY <1>3, <1>6 DEF NewAt, DeadAt, PushedAt, GivenAt, GoneAt
<1>8. ReplayInv' /\ LidInv' /\ AuthorInv'
  BY <1>0, <1>3, <1>4, <1>5, <1>n, AppendReplay
<1>9. Sids \subseteq Groups
  BY DEF Groups
<1>10. LogInv'
  <2>1. ASSUME NEW i \in 1 .. n + 1
        PROVE  /\ \A g \in Groups : DeadAt(i)' \cap GivenAt(i, g)' = {}
               /\ \A g, h \in Groups : g # h => GivenAt(i, g)' \cap GivenAt(i, h)' = {}
               /\ GoneAt(i)' \subseteq NewBy(i)'
    <3>1. CASE i = n + 1
      BY <1>7, <3>1
    <3>2. CASE i \in 1 .. n
      <4>1. SameAt(i) /\ SameBy(i)
        BY <1>1, <1>6, <3>2
      <4> QED
        BY <1>n, <3>2, <4>1 DEF IndInv, LogInv, SameAt, SameBy
    <3> QED
      BY <1>1, <3>1, <3>2
  <2>2. ASSUME NEW i \in 1 .. n + 1, NEW j \in 1 .. n + 1, i # j
        PROVE  /\ NewAt(i)' \cap NewAt(j)' = {}
               /\ GoneAt(i)' \cap GoneAt(j)' = {}
               /\ \A g \in Sids : GivenAt(i, g)' = {} \/ GivenAt(j, g)' = {}
    <3>1. CASE i = n + 1 \/ j = n + 1
      BY <1>7, <3>1
    <3>2. CASE i \in 1 .. n /\ j \in 1 .. n
      <4>1. SameAt(i) /\ SameAt(j)
        BY <1>6, <3>2
      <4> QED
        BY <1>n, <1>9, <2>2, <3>2, <4>1 DEF IndInv, LogInv, SameAt
    <3> QED
      BY <1>1, <3>1, <3>2
  <2> QED
    BY <1>6, <2>1, <2>2 DEF LogInv
<1>11. TypeInv'
  <2>1. \A i \in MasterNodes : next_index'[i] =< Len(log')
    BY <1>n, <1>0, <1>1, <1>6 DEF IndInv, TypeInv, TypeOK
  <2>2. Len(log') =< MaxLog
    BY <1>0, <1>1, <1>6, FreeNodeAssumption
  <2> QED
    BY <1>0, <1>6, <2>1, <2>2 DEF IndInv, TypeInv, TypeOK
<1>12. PendingInv'
  BY <1>n, <1>0, <1>6, <1>7 DEF IndInv, PendingInv
<1>13. ShutdownInv'
  BY <1>n, <1>0, <1>6, <1>7 DEF IndInv, ShutdownInv
<1>14. RoleInv'
  <2> SUFFICES ASSUME NEW i \in MasterNodes
               PROVE  IF is_leader(i)' THEN LeaderInv(i)' ELSE FollowerInv(i)'
    BY DEF RoleInv
  <2>1. IF is_leader(i) THEN LeaderInv(i) ELSE FollowerInv(i)
    BY DEF IndInv, RoleInv
  <2>2. CASE ~is_leader(i)
    BY <1>0, <2>1, <2>2 DEF is_leader, FollowerInv
  <2>3. CASE is_leader(i)
    <3>1. next_index[i] \in 0 .. n
      BY <1>n, <1>1 DEF IndInv, TypeInv, TypeOK
    <3>2. CASE next_index[i] = n
      BY <1>0, <1>7, <2>1, <2>3, <3>2 DEF is_leader, LeaderInv
    <3>3. CASE next_index[i] < n
      <4>1. SameAt(next_index[i] + 1)
        BY <1>1, <1>6, <3>1, <3>3
      <4> QED
        BY <1>n, <1>0, <2>1, <2>3, <3>3, <4>1 DEF is_leader, LeaderInv, SameAt, Groups
    <3> QED
      BY <1>1, <3>1, <3>2, <3>3
  <2> QED
    BY <2>2, <2>3
<1>15. CreateInv'
  <2>1. \A g \in Groups : Given(g)' = Given(g)
    BY <1>6, <1>7
  <2>2. \A g \in Groups : GroupRuns(g)' <=> GroupRuns(g)
    BY <1>0, <2>1 DEF GroupRuns, Running
  <2>3. \A i \in 1 .. n + 1 : \A g \in PushedAt(i)' \cap Sids : GroupRuns(g)'
    <3> SUFFICES ASSUME NEW i \in 1 .. n + 1, NEW g \in PushedAt(i)' \cap Sids
                 PROVE  GroupRuns(g)'
      OBVIOUS
    <3>1. i \in 1 .. n
      BY <1>1, <1>7
    <3> QED
      BY <1>n, <1>6, <1>9, <2>2, <3>1 DEF IndInv, CreateInv, SameAt
  <2> QED
    BY <1>0, <1>6, <1>9, <2>1, <2>2, <2>3 DEF IndInv, CreateInv
<1> QED
  BY <1>8, <1>10, <1>11, <1>12, <1>13, <1>14, <1>15 DEF IndInv

(* What is gone was new. *)
LEMMA GoneWasNew ==
  ASSUME IndInv, NEW n \in Nat, n =< Len(log)
  PROVE  GoneBy(n) \subseteq NewBy(n)
<1>1. ASSUME NEW i \in 1 .. n
      PROVE  GoneAt(i) \subseteq NewBy(n)
  <2>1. i \in 1 .. Len(log) /\ i \in Nat /\ i =< n
    BY DEF IndInv, TypeInv
  <2>2. GoneAt(i) \subseteq NewBy(i)
    BY <2>1 DEF IndInv, LogInv
  <2> QED
    BY <2>1, <2>2, PrefixGrows
<1> QED
  BY <1>1 DEF GoneBy

(* The leader inserts a bundle: what it gives away is free after the whole *)
(* log.                                                                    *)
LEMMA InsertBundleInv ==
  ASSUME IndInv, NEW m \in MasterNodes, InsertBundle(m)
  PROVE  IndInv'
<1>n. PICK n \in Nat : n = Len(log)
  BY DEF IndInv, TypeInv
<1>0. /\ Active(m) /\ n < MaxLog
      /\ pending_new_free_nodes' = [pending_new_free_nodes EXCEPT ![m] = {}]
      /\ master_bundle' = [master_bundle EXCEPT ![m] = {}]
      /\ UNCHANGED <<next_index, lid, free_nodes, free_node_heartbeat, members, create_es,
                     confirmed, gossip, node, registered, down, confirms>>
  BY <1>n DEF InsertBundle, netVars
<1>1. PICK given \in [Groups -> SUBSET Eids] :
        LET bundle == [type |-> "Bundle", new_nodes |-> pending_new_free_nodes[m],
                       nodes_dead |-> nodes_dead(m), given |-> given,
                       pushed |-> master_bundle[m]]
        IN /\ Disjoint(given)
           /\ Grants(m, given)
           /\ NewSlaveGroups(m, given)
           /\ bundle # NoPLm
           /\ log' = Append(log, bundle)
           /\ requested_reconfig_eids' = [requested_reconfig_eids EXCEPT ![m] =
                [g \in Gids |-> IF given[g] # {} THEN 0 ELSE @[g]]]
           /\ reconfig_es' = [reconfig_es EXCEPT ![m] =
                [g \in Gids |-> IF given[g] # {} /\ @[g] = "WaitingRequestedNodes"
                                THEN "InsertingReconfig" ELSE @[g]]]
  BY DEF InsertBundle
<1> DEFINE x == [type |-> "Bundle", new_nodes |-> pending_new_free_nodes[m],
                 nodes_dead |-> nodes_dead(m), given |-> given, pushed |-> master_bundle[m]]
<1>2. /\ next_index[m] = n /\ is_leader(m) /\ LeaderInv(m)
  BY <1>n, <1>0 DEF Active, IndInv, RoleInv
<1>3. /\ free_nodes[m] \subseteq Eids /\ pending_new_free_nodes[m] \subseteq Eids
      /\ master_bundle[m] \subseteq Groups
      /\ nodes_dead(m) \subseteq free_nodes[m]
  BY DEF nodes_dead, IndInv, TypeInv, TypeOK
<1>4. /\ x \in Bundles /\ x.type = "Bundle" /\ log' = Append(log, x)
      /\ x.new_nodes = pending_new_free_nodes[m] /\ x.nodes_dead = nodes_dead(m)
      /\ x.given = given /\ x.pushed = master_bundle[m]
  BY <1>1, <1>3 DEF Bundles
<1> HIDE DEF x
<1>5. x \in Bundles \cup LeaderChanges
  BY <1>4
<1>6. /\ log' \in Seq(Bundles \cup LeaderChanges)
      /\ Len(log') = n + 1 /\ log'[n + 1] = x
      /\ (\A i \in 1 .. n : SameAt(i)) /\ (\A k \in 0 .. n : SameBy(k))
      /\ NewBy(n + 1)' = NewBy(n) \cup NewAt(n + 1)'
      /\ DeadBy(n + 1)' = DeadBy(n) \cup DeadAt(n + 1)'
      /\ \A g \in Groups : Given(g)' = Given(g) \cup GivenAt(n + 1, g)'
  BY <1>n, <1>4, <1>5, AppendFacts
<1>7. /\ NewAt(n + 1)' = pending_new_free_nodes[m]
      /\ DeadAt(n + 1)' = nodes_dead(m)
      /\ PushedAt(n + 1)' = master_bundle[m]
      /\ \A g \in Groups : GivenAt(n + 1, g)' = given[g]
  BY <1>4, <1>6 DEF NewAt, DeadAt, PushedAt, GivenAt
<1>8. /\ free_nodes[m] = NewBy(n) \ GoneBy(n)
      /\ \A g \in Groups : members[m][g] = Given(g)
      /\ GoneBy(n) \subseteq NewBy(n)
  BY <1>n, <1>2, GoneWasNew DEF IndInv, ReplayInv, Given
<1>9. \A g \in Groups :
        given[g] \subseteq (free_nodes[m] \cup pending_new_free_nodes[m]) \ nodes_dead(m)
  <2>1. \A type \in FreeNodeType :
          available(m, type) \subseteq
            (free_nodes[m] \cup pending_new_free_nodes[m]) \ nodes_dead(m)
    BY DEF available
  <2>2. /\ \A g \in Gids : given[g] \subseteq available(m, "ReconfigFreeNode")
        /\ \A g \in Sids : given[g] \subseteq available(m, "NewSlaveFreeNode")
    BY <1>1 DEF Grants, NewSlaveGroups
  <2> QED
    BY <2>1, <2>2 DEF Groups, FreeNodeType
<1>10. \A g, h \in Groups : g # h => given[g] \cap given[h] = {}
  BY <1>1 DEF Disjoint
<1>11. \A g \in Sids : given[g] # {} => Given(g) = {}
  BY <1>1, <1>8 DEF NewSlaveGroups, Groups
<1>12. \A g \in Gids : given[g] # {} => requested_reconfig_eids[m][g] > 0
  <2> SUFFICES ASSUME NEW g \in Gids, given[g] # {}
               PROVE  requested_reconfig_eids[m][g] > 0
    OBVIOUS
  <2>1. given[g] \subseteq Eids
    BY DEF Groups
  <2>2. IsFiniteSet(given[g])
    BY <2>1, FS_Subset, FreeNodeAssumption
  <2>3. Cardinality(given[g]) \in Nat /\ Cardinality(given[g]) # 0
    BY <2>2, FS_CardinalityType, FS_EmptySet
  <2>4. Cardinality(given[g]) = requested_reconfig_eids[m][g]
    BY <1>1 DEF Grants
  <2> QED
    BY <2>3, <2>4
<1>13. /\ GoneAt(n + 1)' \subseteq free_nodes[m] \cup pending_new_free_nodes[m]
       /\ pending_new_free_nodes[m] \cap NewBy(n) = {}
  <2>1. pending_new_free_nodes[m] \cap NewBy(n) = {}
    BY <1>n DEF IndInv, PendingInv
  <2> QED
    BY <1>3, <1>7, <1>9, <2>1 DEF GoneAt
<1>14. ReplayInv' /\ LidInv' /\ AuthorInv'
  <2>1. ASSUME NEW l \in Lids, Leads(Len(log), l)
        PROVE  next_index[l.eid] >= Len(log)
    <3>1. l = lid[m]
      BY <1>n, <1>2, <2>1, LeadsUnique DEF IndInv, LidInv
    <3> QED
      BY <1>n, <1>2, <3>1 DEF is_leader
  <2> QED
    BY <1>0, <1>4, <1>5, <2>1, AppendReplay
<1>15. Sids \subseteq Groups /\ Gids \subseteq Groups
  BY DEF Groups
<1>16. LogInv'
  <2>1. ASSUME NEW i \in 1 .. n + 1
        PROVE  /\ \A g \in Groups : DeadAt(i)' \cap GivenAt(i, g)' = {}
               /\ \A g, h \in Groups : g # h => GivenAt(i, g)' \cap GivenAt(i, h)' = {}
               /\ GoneAt(i)' \subseteq NewBy(i)'
    <3>1. CASE i = n + 1
      <4>1. \A g \in Groups : DeadAt(i)' \cap GivenAt(i, g)' = {}
        BY <1>7, <1>9, <3>1
      <4>2. \A g, h \in Groups : g # h => GivenAt(i, g)' \cap GivenAt(i, h)' = {}
        BY <1>7, <1>10, <3>1
      <4>3. GoneAt(i)' \subseteq NewBy(i)'
        BY <1>6, <1>7, <1>8, <1>13, <3>1
      <4> QED
        BY <4>1, <4>2, <4>3
    <3>2. CASE i \in 1 .. n
      <4>1. SameAt(i) /\ SameBy(i)
        BY <1>6, <3>2
      <4> QED
        BY <1>n, <3>2, <4>1 DEF IndInv, LogInv, SameAt, SameBy
    <3> QED
      BY <3>1, <3>2
  <2>2. ASSUME NEW j \in 1 .. n
        PROVE  /\ NewAt(n + 1)' \cap NewAt(j)' = {}
               /\ GoneAt(n + 1)' \cap GoneAt(j)' = {}
               /\ \A g \in Sids : GivenAt(n + 1, g)' = {} \/ GivenAt(j, g)' = {}
    <3>1. SameAt(j)
      BY <1>6
    <3>2. NewAt(j) \subseteq NewBy(n) /\ GoneAt(j) \subseteq GoneBy(n)
      BY DEF NewBy, GoneBy
    <3>3. \A g \in Sids : GivenAt(j, g) \subseteq Given(g)
      BY <1>n DEF Given, GivenBy
    <3>4. NewAt(n + 1)' \cap NewAt(j)' = {}
      BY <1>7, <1>13, <3>1, <3>2 DEF SameAt
    <3>5. GoneAt(n + 1)' \cap GoneAt(j)' = {}
      BY <1>8, <1>13, <3>1, <3>2 DEF SameAt
    <3>6. \A g \in Sids : GivenAt(n + 1, g)' = {} \/ GivenAt(j, g)' = {}
      BY <1>7, <1>11, <1>15, <3>1, <3>3 DEF SameAt
    <3> QED
      BY <3>4, <3>5, <3>6
  <2>3. ASSUME NEW i \in 1 .. n + 1, NEW j \in 1 .. n + 1, i # j
        PROVE  /\ NewAt(i)' \cap NewAt(j)' = {}
               /\ GoneAt(i)' \cap GoneAt(j)' = {}
               /\ \A g \in Sids : GivenAt(i, g)' = {} \/ GivenAt(j, g)' = {}
    <3>1. CASE i = n + 1 /\ j \in 1 .. n
      BY <2>2, <3>1
    <3>2. CASE j = n + 1 /\ i \in 1 .. n
      BY <2>2, <3>2
    <3>3. CASE i \in 1 .. n /\ j \in 1 .. n
      <4>1. SameAt(i) /\ SameAt(j)
        BY <1>6, <3>3
      <4> QED
        BY <1>n, <1>15, <2>3, <3>3, <4>1 DEF IndInv, LogInv, SameAt
    <3> QED
      BY <2>3, <3>1, <3>2, <3>3
  <2> QED
    BY <1>6, <2>1, <2>3 DEF LogInv
<1>17. TypeInv'
  <2>1. \A i \in MasterNodes : next_index'[i] =< Len(log')
    BY <1>n, <1>0, <1>6 DEF IndInv, TypeInv, TypeOK
  <2>2. Len(log') =< MaxLog
    BY <1>0, <1>6, FreeNodeAssumption
  <2>3. pending_new_free_nodes' \in [MasterNodes -> SUBSET Eids]
    BY <1>0 DEF IndInv, TypeInv, TypeOK
  <2>4. master_bundle' \in [MasterNodes -> SUBSET Groups]
    BY <1>0 DEF IndInv, TypeInv, TypeOK
  <2>5. requested_reconfig_eids' \in [MasterNodes -> [Gids -> 0 .. MaxRequest]]
    <3>1. requested_reconfig_eids \in [MasterNodes -> [Gids -> 0 .. MaxRequest]]
      BY DEF IndInv, TypeInv, TypeOK
    <3>2. [g \in Gids |-> IF given[g] # {} THEN 0 ELSE requested_reconfig_eids[m][g]]
            \in [Gids -> 0 .. MaxRequest]
      BY <3>1, FreeNodeAssumption
    <3> QED
      BY <1>1, <3>1, <3>2
  <2>6. reconfig_es' \in [MasterNodes -> [Gids ->
          {"None", "Follower", "WaitingRequestedNodes", "InsertingReconfig", "Reconfig",
           "InsertingCompletion"}]]
    BY <1>1 DEF IndInv, TypeInv, TypeOK
  <2> QED
    BY <1>0, <1>6, <2>1, <2>2, <2>3, <2>4, <2>5, <2>6 DEF IndInv, TypeInv, TypeOK
<1>18. \A i \in MasterNodes :
         /\ pending_new_free_nodes'[i] = IF i = m THEN {} ELSE pending_new_free_nodes[i]
         /\ master_bundle'[i] = IF i = m THEN {} ELSE master_bundle[i]
         /\ i # m => /\ requested_reconfig_eids'[i] = requested_reconfig_eids[i]
                     /\ reconfig_es'[i] = reconfig_es[i]
  BY <1>0, <1>1 DEF IndInv, TypeInv, TypeOK
<1>19. PendingInv'
  <2>1. NewBy(Len(log))' = NewBy(n) \cup pending_new_free_nodes[m]
    BY <1>6, <1>7
  <2> QED
    BY <1>n, <1>0, <1>18, <2>1 DEF IndInv, PendingInv
<1>20. ShutdownInv'
  BY <1>n, <1>0, <1>6 DEF IndInv, ShutdownInv
<1>21. RoleInv'
  <2>1. ASSUME NEW i \in MasterNodes, i # m
        PROVE  IF is_leader(i)' THEN LeaderInv(i)' ELSE FollowerInv(i)'
    <3>1. IF is_leader(i) THEN LeaderInv(i) ELSE FollowerInv(i)
      BY DEF IndInv, RoleInv
    <3>2. CASE ~is_leader(i)
      BY <1>0, <1>18, <2>1, <3>1, <3>2 DEF is_leader, FollowerInv
    <3>3. CASE is_leader(i)
      <4>1. next_index[i] \in 0 .. n /\ next_index[i] # n
        BY <1>n, <1>2, <2>1, <3>3, OneActive DEF IndInv, TypeInv, TypeOK
      <4>2. SameAt(next_index[i] + 1) /\ next_index[i] < n
        BY <1>6, <4>1
      <4> QED
        BY <1>n, <1>0, <1>15, <1>18, <2>1, <3>1, <3>3, <4>2 DEF is_leader, LeaderInv, SameAt
    <3> QED
      BY <3>2, <3>3
  <2>2. is_leader(m)' /\ LeaderInv(m)'
    <3>1. \A g \in Gids :
            /\ requested_reconfig_eids'[m][g] =
                 IF given[g] # {} THEN 0 ELSE requested_reconfig_eids[m][g]
            /\ reconfig_es'[m][g] = IF given[g] # {} /\ reconfig_es[m][g] = "WaitingRequestedNodes"
                                    THEN "InsertingReconfig" ELSE reconfig_es[m][g]
      BY <1>1 DEF IndInv, TypeInv, TypeOK
    <3>2. \A g \in Gids :
            /\ requested_reconfig_eids[m][g] > 0 => reconfig_es[m][g] = "WaitingRequestedNodes"
            /\ g \in master_bundle[m] => reconfig_es[m][g] = "InsertingCompletion"
      BY <1>2 DEF LeaderInv
    <3>3. \A g \in Gids :
            /\ requested_reconfig_eids'[m][g] > 0 => reconfig_es'[m][g] = "WaitingRequestedNodes"
            /\ GivenAt(n + 1, g)' # {} => reconfig_es'[m][g] = "InsertingReconfig"
            /\ g \in PushedAt(n + 1)' => reconfig_es'[m][g] = "InsertingCompletion"
      BY <1>7, <1>12, <1>15, <3>1, <3>2
    <3>4. next_index'[m] = n /\ is_leader(m)' /\ master_bundle'[m] = {}
      BY <1>0, <1>2, <1>18 DEF is_leader
    <3> QED
      BY <3>3, <3>4 DEF LeaderInv
  <2> QED
    BY <2>1, <2>2 DEF RoleInv
<1>22. \A g \in Sids : GroupRuns(g) => GroupRuns(g)'
  <2> SUFFICES ASSUME NEW g \in Sids, GroupRuns(g)
               PROVE  GroupRuns(g)'
    OBVIOUS
  <2>1. Given(g) # {}
    BY <1>15, RunsGiven
  <2>2. Given(g)' = Given(g)
    <3>1. g \in Groups /\ given[g] = {}
      BY <1>11, <1>15, <2>1
    <3>2. Given(g)' = Given(g) \cup given[g]
      BY <1>6, <1>7, <3>1
    <3> QED
      BY <3>1, <3>2
  <2> QED
    BY <1>0, <1>15, <2>2, RunsStay DEF IndInv
<1>23. CreateInv'
  <2>1. \A g \in Groups : Given(g) \subseteq Given(g)'
    BY <1>6
  <2>2. \A i \in 1 .. n + 1 : \A g \in PushedAt(i)' \cap Sids : GroupRuns(g)'
    <3> SUFFICES ASSUME NEW i \in 1 .. n + 1, NEW g \in PushedAt(i)' \cap Sids
                 PROVE  GroupRuns(g)
      BY <1>22
    <3>1. CASE i \in 1 .. n
      BY <1>n, <1>6, <3>1 DEF IndInv, CreateInv, SameAt
    <3>2. CASE i = n + 1
      BY <1>7, <3>2 DEF IndInv, CreateInv
    <3> QED
      BY <3>1, <3>2
  <2>3. \A i \in MasterNodes, g \in Sids : g \in master_bundle'[i] \cup gossip'[i] => GroupRuns(g)'
    BY <1>0, <1>18, <1>22 DEF IndInv, CreateInv
  <2>4. /\ \A e \in Eids, g \in Groups : node'[e] = Slave(g) => e \in Given(g)'
        /\ \A i \in MasterNodes, e \in Eids, g \in Sids :
             CreateSlaveGroup(g) \in Range(down'[i][e]) => e \in Given(g)'
        /\ \A c \in confirms' : node'[c.from] = Slave(c.sid)
    BY <1>0, <1>15, <2>1 DEF IndInv, CreateInv
  <2> QED
    BY <1>0, <1>6, <2>2, <2>3, <2>4 DEF IndInv, CreateInv
<1> QED
  BY <1>14, <1>16, <1>17, <1>19, <1>20, <1>21, <1>23 DEF IndInv
-----------------------------------------------------------------------------
(* The log is replayed *)

(* One message, on a condition. *)
LEMMA MessageFacts ==
  ASSUME NEW condition, NEW message \in FreeNodeMessages
  PROVE  /\ Message(condition, message) \in Seq(FreeNodeMessages)
         /\ \A x \in Range(Message(condition, message)) : condition /\ x = message
<1>1. <<message>> \in Seq(FreeNodeMessages) /\ Range(<<message>>) = {message}
  BY DEF Range
<1>2. <<>> \in Seq(FreeNodeMessages) /\ Range(<<>>) = {}
  BY DEF Range
<1> QED
  BY <1>1, <1>2 DEF Message

(* A CreateSlaveGroup for each of some SlaveGroups. *)
LEMMA CreateFacts ==
  ASSUME NEW S \in SUBSET Sids
  PROVE  LET s == SetToSeq({CreateSlaveGroup(g) : g \in S})
         IN /\ s \in Seq(FreeNodeMessages)
            /\ \A x \in Range(s) : \E g \in S : x = CreateSlaveGroup(g)
<1> DEFINE T == {CreateSlaveGroup(g) : g \in S}
<1>1. IsFiniteSet(S)
  BY FS_Subset, FreeNodeAssumption
<1>2. IsFiniteSet(T)
  <2> DEFINE f == [g \in S |-> CreateSlaveGroup(g)]
  <2>1. f \in Surjection(S, T)
    BY DEF Surjection
  <2> HIDE DEF f, T
  <2> QED
    BY <1>1, <2>1, FS_Surjection
<1>3. T \subseteq FreeNodeMessages
  BY DEF FreeNodeMessages
<1> HIDE DEF T
<1>4. SetToSeq(T) \in Seq(T) /\ Range(SetToSeq(T)) \subseteq T
  BY <1>2, SetToSeqFacts
<1>5. SetToSeq(T) \in Seq(FreeNodeMessages)
  BY <1>3, <1>4, SeqMonotonic
<1> QED
  BY <1>4, <1>5 DEF T

(* The messages are different ones. *)
LEMMA MessagesDiffer ==
  /\ \A l : /\ FreeNodeRegistered(l) # ShutdownNode
            /\ MasterLeadershipId(l) # ShutdownNode
            /\ \A g : /\ FreeNodeRegistered(l) # CreateSlaveGroup(g)
                      /\ MasterLeadershipId(l) # CreateSlaveGroup(g)
  /\ \A g : CreateSlaveGroup(g) # ShutdownNode
  /\ \A g, h : CreateSlaveGroup(g) = CreateSlaveGroup(h) => g = h
BY DEF FreeNodeRegistered, MasterLeadershipId, ShutdownNode, CreateSlaveGroup

(* What is sent when a bundle is handled. *)
LEMMA RepliesFacts ==
  ASSUME NEW m \in MasterNodes, lid[m] \in Lids, NEW plm \in Bundles, NEW e \in Eids
  PROVE  /\ Replies(m, plm, e) \in Seq(FreeNodeMessages)
         /\ ShutdownNode \in Range(Replies(m, plm, e)) => e \in plm.nodes_dead
         /\ \A g \in Sids : CreateSlaveGroup(g) \in Range(Replies(m, plm, e)) => e \in plm.given[g]
<1> DEFINE S == {h \in Sids : e \in plm.given[h]}
           a == Message(e \in plm.new_nodes, FreeNodeRegistered(lid[m]))
           b == Message(e \in plm.nodes_dead, ShutdownNode)
           c == SetToSeq({CreateSlaveGroup(g) : g \in S})
<1>1. FreeNodeRegistered(lid[m]) \in FreeNodeMessages /\ ShutdownNode \in FreeNodeMessages
  BY DEF FreeNodeMessages
<1>2. /\ a \in Seq(FreeNodeMessages)
      /\ \A x \in Range(a) : x = FreeNodeRegistered(lid[m])
  BY <1>1, MessageFacts
<1>3. /\ b \in Seq(FreeNodeMessages)
      /\ \A x \in Range(b) : e \in plm.nodes_dead /\ x = ShutdownNode
  BY <1>1, MessageFacts
<1>4. /\ c \in Seq(FreeNodeMessages)
      /\ \A x \in Range(c) : \E g \in S : x = CreateSlaveGroup(g)
  <2>1. S \in SUBSET Sids
    OBVIOUS
  <2> HIDE DEF S
  <2> QED
    BY <2>1, CreateFacts
<1>5. \A g \in S : g \in Sids /\ e \in plm.given[g]
  OBVIOUS
<1>6. Replies(m, plm, e) = (a \o b) \o c
  BY DEF Replies
<1> HIDE DEF S, a, b, c
<1>7. a \o b \in Seq(FreeNodeMessages) /\ Range(a \o b) = Range(a) \cup Range(b)
  BY <1>2, <1>3, RangeJoin
<1>8. /\ (a \o b) \o c \in Seq(FreeNodeMessages)
      /\ Range((a \o b) \o c) = Range(a) \cup Range(b) \cup Range(c)
  <2>1. ASSUME NEW s \in Seq(FreeNodeMessages)
        PROVE  s \o c \in Seq(FreeNodeMessages) /\ Range(s \o c) = Range(s) \cup Range(c)
    BY <1>4, RangeJoin
  <2> QED
    BY <1>7, <2>1
<1> QED
  BY <1>2, <1>3, <1>4, <1>5, <1>6, <1>8, MessagesDiffer

(* A Master node goes on to the next entry of the log. *)
LEMMA AdvanceInv ==
  ASSUME IndInv, NEW m \in MasterNodes, next_index[m] < Len(log), UNCHANGED log,
         next_index' = [next_index EXCEPT ![m] = @ + 1]
  PROVE  /\ LogInv' /\ AuthorInv'
         /\ next_index' \in [MasterNodes -> 0 .. MaxLog]
         /\ \A i \in MasterNodes : next_index'[i] =< Len(log)
<1>1. /\ next_index \in [MasterNodes -> 0 .. MaxLog] /\ Len(log) \in Nat /\ Len(log) =< MaxLog
      /\ \A i \in MasterNodes : next_index[i] =< Len(log)
  BY DEF IndInv, TypeInv, TypeOK
<1>2. /\ LogInv' /\ (\A k \in Nat : SameBy(k)) /\ \A i \in 1 .. Len(log) : SameAt(i)
  BY LogKept DEF IndInv
<1>3. \A i \in MasterNodes : /\ next_index'[i] \in Nat /\ next_index[i] \in Nat
                             /\ next_index'[i] >= next_index[i]
                             /\ next_index'[i] =< Len(log)
  BY <1>1, FreeNodeAssumption
<1>4. next_index' \in [MasterNodes -> 0 .. MaxLog]
  BY <1>1, FreeNodeAssumption
<1>5. AuthorInv'
  <2> SUFFICES ASSUME NEW i \in 1 .. Len(log), NEW l \in Lids, Leads(i - 1, l)'
               PROVE  /\ ChangedAt(i)' => log[i].lid.eid # l.eid
                      /\ ~ChangedAt(i)' => next_index'[l.eid] >= i - 1
    BY DEF AuthorInv
  <2>1. i - 1 \in Nat
    BY <1>1
  <2>2. Leads(i - 1, l)
    BY <1>2, <2>1 DEF SameBy
  <2>3. /\ ChangedAt(i) => log[i].lid.eid # l.eid
        /\ ~ChangedAt(i) => next_index[l.eid] >= i - 1
    BY <2>2 DEF IndInv, AuthorInv
  <2>4. l.eid \in MasterNodes
    BY DEF Lids
  <2> QED
    BY <1>2, <1>3, <2>1, <2>3, <2>4 DEF SameAt
<1> QED
  BY <1>2, <1>3, <1>4, <1>5

(* What comes after an entry of which m is not the author, or which it has *)
(* not handled yet, is a LeaderChanged.                                    *)
LEMMA NextIsChange ==
  ASSUME IndInv, NEW m \in MasterNodes, NEW k \in Nat, k = next_index[m], k + 1 < Len(log),
         NEW l \in Lids, l.eid = m, Leads(k + 1, l)
  PROVE  /\ ChangedAt(k + 2)
         /\ PushedAt(k + 2) = {}
         /\ \A g \in Groups : GivenAt(k + 2, g) = {}
<1>1. k + 2 \in 1 .. Len(log) /\ (k + 2) - 1 = k + 1
  BY DEF IndInv, TypeInv
<1>2. ~ChangedAt(k + 2) => next_index[m] >= k + 1
  BY <1>1 DEF IndInv, AuthorInv
<1>3. ChangedAt(k + 2)
  BY <1>2
<1> QED
  BY <1>3 DEF ChangedAt, PushedAt, GivenAt

(* A bundle is handled. *)
LEMMA HandleBundleInv ==
  ASSUME IndInv, NEW m \in MasterNodes, HandleBundle(m)
  PROVE  IndInv'
<1>k. PICK k \in Nat : k = next_index[m]
  BY DEF IndInv, TypeInv, TypeOK
<1>p. PICK plm : plm = log[k + 1]
  OBVIOUS
<1>0. /\ k < Len(log)
      /\ plm.type = "Bundle"
      /\ next_index' = [next_index EXCEPT ![m] = @ + 1]
      /\ handle_plm(m, plm)
      /\ members' = [members EXCEPT ![m] = [g \in Groups |-> @[g] \cup plm.given[g]]]
      /\ reconfig_es' = [reconfig_es EXCEPT ![m] = [g \in Gids |-> Reconfigured(m, plm, g)]]
      /\ create_es' = [create_es EXCEPT ![m] = [g \in Sids |-> Created(m, plm, g)]]
      /\ confirmed' = [confirmed EXCEPT ![m] =
           [g \in Sids |-> IF create_es'[m][g] = "WaitingConfirmed" THEN @[g] ELSE {}]]
      /\ handle_confirm_plm(m, plm)
      /\ down' = IF is_leader(m)
                 THEN [down EXCEPT ![m] = [e \in Eids |-> @[e] \o Replies(m, plm, e)]]
                 ELSE down
      /\ UNCHANGED <<log, lid, pending_new_free_nodes, requested_reconfig_eids, master_bundle,
                     node, registered, confirms>>
  BY <1>k, <1>p DEF HandleBundle, Entry
<1>1. k + 1 \in 1 .. Len(log) /\ Len(log) \in Nat
  BY <1>0 DEF IndInv, TypeInv
<1>2. /\ plm \in Bundles /\ ~ChangedAt(k + 1)
      /\ NewAt(k + 1) = plm.new_nodes /\ DeadAt(k + 1) = plm.nodes_dead
      /\ PushedAt(k + 1) = plm.pushed
      /\ \A g \in Groups : GivenAt(k + 1, g) = plm.given[g]
  BY <1>p, <1>0, <1>1, LogTypes DEF IndInv, ChangedAt, NewAt, DeadAt, PushedAt, GivenAt
<1>3. /\ plm.new_nodes \subseteq Eids /\ plm.nodes_dead \subseteq Eids /\ plm.pushed \subseteq Groups
      /\ plm.given \in [Groups -> SUBSET Eids]
  BY <1>2 DEF Bundles
<1>4. Sids \subseteq Groups /\ Gids \subseteq Groups
  BY DEF Groups
<1>5. /\ LogInv' /\ AuthorInv' /\ next_index' \in [MasterNodes -> 0 .. MaxLog]
      /\ \A i \in MasterNodes : next_index'[i] =< Len(log)
  BY <1>k, <1>0, AdvanceInv
<1>6. /\ (\A j \in Nat : SameBy(j)) /\ (\A i \in 1 .. Len(log) : SameAt(i))
      /\ (\A g \in Groups : Given(g)' = Given(g)) /\ SameBy(Len(log))
  BY <1>0, LogKept DEF IndInv
<1>7. \A i \in MasterNodes : next_index'[i] = IF i = m THEN k + 1 ELSE next_index[i]
  BY <1>k, <1>0 DEF IndInv, TypeInv, TypeOK
<1>8. /\ free_nodes' = [free_nodes EXCEPT ![m] = (@ \cup NewAt(k + 1)) \ GoneAt(k + 1)]
      /\ free_node_heartbeat' = [free_node_heartbeat EXCEPT ![m] =
           [e \in Eids |-> IF e \in NewAt(k + 1) \cup GoneAt(k + 1) THEN 0 ELSE @[e]]]
  <2>1. GoneAt(k + 1) = plm.nodes_dead \cup UNION {plm.given[g] : g \in Groups}
    BY <1>2 DEF GoneAt
  <2> QED
    BY <1>0, <1>2, <2>1 DEF handle_plm
<1>9. /\ free_nodes \in [MasterNodes -> SUBSET Eids]
      /\ members \in [MasterNodes -> [Groups -> SUBSET Eids]]
      /\ lid \in [MasterNodes -> Lids]
      /\ down \in [MasterNodes -> [Eids -> Seq(FreeNodeMessages)]]
      /\ gossip \in [MasterNodes -> SUBSET Sids]
      /\ free_node_heartbeat \in [MasterNodes -> [Eids -> 0 .. HEARTBEAT_DEAD_THRESHOLD]]
      /\ \A i \in MasterNodes, e \in Eids :
           e \notin free_nodes[i] => free_node_heartbeat[i][e] = 0
      /\ reconfig_es \in [MasterNodes -> [Gids ->
           {"None", "Follower", "WaitingRequestedNodes", "InsertingReconfig", "Reconfig",
            "InsertingCompletion"}]]
      /\ create_es \in [MasterNodes -> [Sids ->
           {"None", "Follower", "WaitingConfirmed", "InsertingConfirmed"}]]
      /\ confirmed \in [MasterNodes -> [Sids -> SUBSET Eids]]
  BY DEF IndInv, TypeInv, TypeOK
<1>10. \A i \in MasterNodes :
         /\ free_nodes'[i] = IF i = m THEN (free_nodes[m] \cup NewAt(k + 1)) \ GoneAt(k + 1)
                             ELSE free_nodes[i]
         /\ \A g \in Groups : members'[i][g] = IF i = m THEN members[m][g] \cup GivenAt(k + 1, g)
                                               ELSE members[i][g]
         /\ \A g \in Gids : reconfig_es'[i][g] = IF i = m THEN Reconfigured(m, plm, g)
                                                 ELSE reconfig_es[i][g]
         /\ \A g \in Sids : create_es'[i][g] = IF i = m THEN Created(m, plm, g)
                                               ELSE create_es[i][g]
  BY <1>0, <1>2, <1>8, <1>9
<1>11. ReplayInv'
  <2>1. /\ NewBy(k + 1) = NewBy(k) \cup NewAt(k + 1)
        /\ GoneBy(k + 1) = GoneBy(k) \cup GoneAt(k + 1)
        /\ \A g \in Groups : GivenBy(k + 1, g) = GivenBy(k, g) \cup GivenAt(k + 1, g)
    BY PrefixFacts
  <2>2. NewAt(k + 1) \cap GoneBy(k) = {}
    <3>1. GoneBy(k) \subseteq NewBy(k)
      BY <1>1, GoneWasNew
    <3>2. ASSUME NEW i \in 1 .. k
          PROVE  NewAt(k + 1) \cap NewAt(i) = {}
      <4>1. i \in 1 .. Len(log) /\ i # k + 1
        BY <1>1
      <4> QED
        BY <1>1, <4>1 DEF IndInv, LogInv
    <3>3. NewAt(k + 1) \cap NewBy(k) = {}
      BY <3>2 DEF NewBy
    <3> QED
      BY <3>1, <3>3
  <2>3. /\ free_nodes[m] = NewBy(k) \ GoneBy(k)
        /\ \A g \in Groups : members[m][g] = GivenBy(k, g)
    BY <1>k DEF IndInv, ReplayInv
  <2>4. free_nodes'[m] = NewBy(k + 1) \ GoneBy(k + 1)
    BY <1>10, <2>1, <2>2, <2>3
  <2>5. ASSUME NEW g \in Groups
        PROVE  members'[m][g] = GivenBy(k + 1, g)
    <3>1. members'[m][g] = members[m][g] \cup GivenAt(k + 1, g)
      BY <1>10
    <3>2. members[m][g] = GivenBy(k, g)
      BY <2>3
    <3>3. GivenBy(k + 1, g) = GivenBy(k, g) \cup GivenAt(k + 1, g)
      BY <2>1
    <3> QED
      BY <3>1, <3>2, <3>3
  <2>6. ASSUME NEW i \in MasterNodes
        PROVE  /\ free_nodes'[i] = NewBy(next_index[i])' \ GoneBy(next_index[i])'
               /\ \A g \in Groups : members'[i][g] = GivenBy(next_index[i], g)'
    <3>1. CASE i = m
      <4>1. SameBy(k + 1)
        BY <1>6
      <4> QED
        BY <1>7, <2>4, <2>5, <3>1, <4>1 DEF SameBy
    <3>2. CASE i # m
      <4>1. next_index[i] \in Nat
        BY DEF IndInv, TypeInv, TypeOK
      <4>2. PICK j \in Nat : j = next_index[i]
        BY <4>1
      <4>3. SameBy(j)
        BY <1>6
      <4>4. /\ free_nodes[i] = NewBy(j) \ GoneBy(j)
            /\ \A g \in Groups : members[i][g] = GivenBy(j, g)
        BY <4>2 DEF IndInv, ReplayInv
      <4>5. free_nodes'[i] = free_nodes[i] /\ \A g \in Groups : members'[i][g] = members[i][g]
        BY <1>10, <3>2
      <4>6. next_index'[i] = j
        BY <1>7, <3>2, <4>2
      <4>7. /\ free_nodes'[i] = NewBy(j)' \ GoneBy(j)'
            /\ \A g \in Groups : members'[i][g] = GivenBy(j, g)'
        BY <4>3, <4>4, <4>5 DEF SameBy
      <4> QED
        BY <4>6, <4>7
    <3> QED
      BY <3>1, <3>2
  <2> QED
    BY <2>6 DEF ReplayInv
<1>12. Leads(k + 1, lid[m])
  <2>1. Leads(k, lid[m])
    BY <1>k DEF IndInv, LidInv
  <2> QED
    BY <1>2, <2>1, LeadsStep
<1>13. LidInv'
  <2> SUFFICES ASSUME NEW i \in MasterNodes
               PROVE  Leads(next_index[i], lid[i])'
    BY DEF LidInv
  <2>1. CASE i = m
    <3>1. SameBy(k + 1)
      BY <1>6
    <3>2. Leads(k + 1, lid[m])'
      BY <1>0, <1>12, <3>1 DEF SameBy
    <3> QED
      BY <1>7, <2>1, <3>2
  <2>2. CASE i # m
    <3>1. PICK j \in Nat : j = next_index[i]
      BY DEF IndInv, TypeInv, TypeOK
    <3>2. SameBy(j) /\ Leads(j, lid[i])
      BY <1>6, <3>1 DEF IndInv, LidInv
    <3>3. Leads(j, lid[i])'
      BY <1>0, <3>2 DEF SameBy
    <3> QED
      BY <1>7, <2>2, <3>1, <3>3
  <2> QED
    BY <2>1, <2>2
<1>14. PendingInv'
  BY <1>0, PendingKept
<1>15. ASSUME NEW i \in MasterNodes, NEW e \in Eids
       PROVE  /\ down'[i][e] \in Seq(FreeNodeMessages)
              /\ ShutdownNode \in Range(down'[i][e]) =>
                   ShutdownNode \in Range(down[i][e]) \/ e \in DeadAt(k + 1)
              /\ \A g \in Sids : CreateSlaveGroup(g) \in Range(down'[i][e]) =>
                   CreateSlaveGroup(g) \in Range(down[i][e]) \/ e \in GivenAt(k + 1, g)
  <2>1. CASE down'[i][e] = down[i][e]
    BY <1>9, <2>1
  <2>2. CASE i = m /\ down'[m][e] = down[m][e] \o Replies(m, plm, e)
    <3>1. /\ Replies(m, plm, e) \in Seq(FreeNodeMessages)
          /\ ShutdownNode \in Range(Replies(m, plm, e)) => e \in plm.nodes_dead
          /\ \A g \in Sids : CreateSlaveGroup(g) \in Range(Replies(m, plm, e)) => e \in plm.given[g]
      BY <1>2, <1>9, RepliesFacts
    <3>2. down[m][e] \in Seq(FreeNodeMessages)
      BY <1>9
    <3>3. /\ down[m][e] \o Replies(m, plm, e) \in Seq(FreeNodeMessages)
          /\ Range(down[m][e] \o Replies(m, plm, e)) = Range(down[m][e]) \cup Range(Replies(m, plm, e))
      BY <3>1, <3>2, RangeJoin
    <3> QED
      BY <1>2, <1>4, <2>2, <3>1, <3>3
  <2>3. down'[i][e] = down[i][e] \/ (i = m /\ down'[m][e] = down[m][e] \o Replies(m, plm, e))
    BY <1>0, <1>9
  <2> QED
    BY <2>1, <2>2, <2>3
<1>16. TypeInv'
  <2>1. down' \in [MasterNodes -> [Eids -> Seq(FreeNodeMessages)]]
    <3>1. CASE UNCHANGED down
      BY <1>9, <3>1
    <3>2. CASE down' = [down EXCEPT ![m] = [e \in Eids |-> @[e] \o Replies(m, plm, e)]]
      <4>1. \A e \in Eids : down[m][e] \o Replies(m, plm, e) \in Seq(FreeNodeMessages)
        BY <1>9, <1>15, <3>2
      <4> QED
        BY <1>9, <3>2, <4>1
    <3> QED
      BY <1>0, <3>1, <3>2
  <2>2. free_nodes' \in [MasterNodes -> SUBSET Eids]
    <3>1. NewAt(k + 1) \subseteq Eids
      BY <1>2, <1>3
    <3> QED
      BY <1>8, <1>9, <3>1
  <2>3. /\ free_node_heartbeat' \in [MasterNodes -> [Eids -> 0 .. HEARTBEAT_DEAD_THRESHOLD]]
        /\ \A i \in MasterNodes, e \in Eids :
             e \notin free_nodes'[i] => free_node_heartbeat'[i][e] = 0
    <3>1. [e \in Eids |-> IF e \in NewAt(k + 1) \cup GoneAt(k + 1) THEN 0
                          ELSE free_node_heartbeat[m][e]] \in [Eids -> 0 .. HEARTBEAT_DEAD_THRESHOLD]
      BY <1>9, FreeNodeAssumption
    <3>2. free_node_heartbeat' \in [MasterNodes -> [Eids -> 0 .. HEARTBEAT_DEAD_THRESHOLD]]
      BY <1>8, <1>9, <3>1
    <3>3. ASSUME NEW i \in MasterNodes, NEW e \in Eids, e \notin free_nodes'[i]
          PROVE  free_node_heartbeat'[i][e] = 0
      <4>1. CASE i = m
        BY <1>8, <1>9, <1>10, <3>3, <4>1
      <4>2. CASE i # m
        BY <1>8, <1>9, <1>10, <3>3, <4>2
      <4> QED
        BY <4>1, <4>2
    <3> QED
      BY <3>2, <3>3
  <2>4. members' \in [MasterNodes -> [Groups -> SUBSET Eids]]
    <3>1. [g \in Groups |-> members[m][g] \cup plm.given[g]] \in [Groups -> SUBSET Eids]
      BY <1>3, <1>9
    <3> QED
      BY <1>0, <1>9, <3>1
  <2>5. reconfig_es' \in [MasterNodes -> [Gids ->
          {"None", "Follower", "WaitingRequestedNodes", "InsertingReconfig", "Reconfig",
           "InsertingCompletion"}]]
    BY <1>0, <1>9 DEF Reconfigured
  <2>6. create_es' \in [MasterNodes -> [Sids ->
          {"None", "Follower", "WaitingConfirmed", "InsertingConfirmed"}]]
    BY <1>0, <1>9 DEF Created
  <2>7. confirmed' \in [MasterNodes -> [Sids -> SUBSET Eids]]
    <3>1. [g \in Sids |-> IF create_es'[m][g] = "WaitingConfirmed" THEN confirmed[m][g] ELSE {}]
            \in [Sids -> SUBSET Eids]
      BY <1>9
    <3> QED
      BY <1>0, <1>9, <3>1
  <2>8. gossip' \in [MasterNodes -> SUBSET Sids]
    BY <1>0, <1>9 DEF handle_confirm_plm
  <2> QED
    BY <1>0, <1>5, <2>1, <2>2, <2>3, <2>4, <2>5, <2>6, <2>7, <2>8 DEF IndInv, TypeInv, TypeOK
<1>17. ShutdownInv'
  <2>1. DeadAt(k + 1) \subseteq DeadBy(Len(log))
    BY <1>1 DEF DeadBy
  <2> QED
    BY <1>0, <1>6, <1>15, <2>1 DEF IndInv, ShutdownInv, SameBy
<1>18. RoleInv'
  <2>1. ASSUME NEW i \in MasterNodes, i # m
        PROVE  Role(i)'
    <3>1. Rests(i)
      BY <1>0, <1>7, <1>9, <2>1 DEF Rests
    <3> QED
      BY <1>0, <3>1, RoleKept DEF IndInv, RoleInv, Role
  <2>2. ASSUME is_leader(m)
        PROVE  Role(m)'
    <3>1. LeaderInv(m) /\ is_leader(m)' /\ lid[m] \in Lids /\ lid[m].eid = m
      BY <1>0, <1>9, <2>2 DEF IndInv, RoleInv, is_leader
    <3>2. \A g \in Gids :
            /\ requested_reconfig_eids[m][g] > 0 => reconfig_es[m][g] = "WaitingRequestedNodes"
            /\ g \in master_bundle[m] => reconfig_es[m][g] = "InsertingCompletion"
            /\ plm.given[g] # {} => reconfig_es[m][g] = "InsertingReconfig"
            /\ g \in plm.pushed => reconfig_es[m][g] = "InsertingCompletion" /\ g \notin master_bundle[m]
      BY <1>k, <1>0, <1>2, <1>4, <3>1 DEF LeaderInv
    <3>3. \A g \in Gids :
            /\ requested_reconfig_eids[m][g] > 0 => reconfig_es'[m][g] = "WaitingRequestedNodes"
            /\ g \in master_bundle[m] => reconfig_es'[m][g] = "InsertingCompletion"
      BY <1>10, <3>2 DEF Reconfigured
    <3>4. ASSUME k + 1 < Len(log)
          PROVE  PushedAt(k + 2)' = {} /\ \A g \in Groups : GivenAt(k + 2, g)' = {}
      <4>1. PushedAt(k + 2) = {} /\ \A g \in Groups : GivenAt(k + 2, g) = {}
        BY <1>k, <1>12, <3>1, <3>4, NextIsChange
      <4>2. SameAt(k + 2)
        BY <1>1, <1>6, <3>4
      <4> QED
        BY <4>1, <4>2 DEF SameAt
    <3>5. next_index'[m] = k + 1 /\ (k + 1) + 1 = k + 2
      BY <1>7
    <3>6. LeaderInv(m)'
      BY <1>0, <1>4, <3>3, <3>4, <3>5 DEF LeaderInv
    <3> QED
      BY <3>1, <3>6 DEF Role
  <2>3. ASSUME ~is_leader(m)
        PROVE  Role(m)'
    <3>1. FollowerInv(m) /\ ~is_leader(m)'
      BY <1>0, <2>3 DEF IndInv, RoleInv, is_leader
    <3>2. \A g \in Gids : reconfig_es'[m][g] \in {"None", "Follower"}
      BY <1>10, <2>3, <3>1 DEF FollowerInv, Reconfigured
    <3>3. \A g \in Sids : create_es'[m][g] \in {"None", "Follower"}
      BY <1>10, <2>3, <3>1 DEF FollowerInv, Created
    <3> QED
      BY <1>0, <3>1, <3>2, <3>3 DEF Role, FollowerInv
  <2> QED
    BY <2>1, <2>2, <2>3 DEF RoleInv, Role
<1>19. CreateInv'
  <2>1. \A g \in Groups : GroupRuns(g)' <=> GroupRuns(g)
    BY <1>0, <1>6 DEF GroupRuns, Running
  <2>2. \A g \in Groups : GivenAt(k + 1, g) \subseteq Given(g)
    BY <1>1 DEF Given, GivenBy
  <2>3. \A i \in MasterNodes, e \in Eids, g \in Sids :
          CreateSlaveGroup(g) \in Range(down'[i][e]) => e \in Given(g)'
    BY <1>4, <1>6, <1>15, <2>2 DEF IndInv, CreateInv
  <2>4. \A i \in MasterNodes : gossip'[i] \subseteq gossip[i] \cup
          (IF i = m THEN {g \in Sids \cap plm.pushed : create_es[m][g] # "None"} ELSE {})
    BY <1>0, <1>9 DEF handle_confirm_plm
  <2>5. \A i \in MasterNodes, g \in Sids : confirmed'[i][g] \subseteq confirmed[i][g]
    BY <1>0, <1>9
  <2>6. \A g \in Sids \cap plm.pushed : GroupRuns(g)
    BY <1>1, <1>2 DEF IndInv, CreateInv
  <2>7. ASSUME NEW i \in MasterNodes, NEW g \in Sids
        PROVE  /\ create_es'[i][g] # "None" => members'[i][g] # {}
               /\ \A e \in confirmed'[i][g] : node'[e] = Slave(g)
               /\ g \in master_bundle'[i] \cup gossip'[i] => GroupRuns(g)'
               /\ g \in gossip'[i] => members'[i][g] # {}
    <3>1. /\ create_es[i][g] # "None" => members[i][g] # {}
          /\ \A e \in confirmed[i][g] : node[e] = Slave(g)
          /\ g \in master_bundle[i] \cup gossip[i] => GroupRuns(g)
          /\ g \in gossip[i] => members[i][g] # {}
      BY DEF IndInv, CreateInv
    <3>2. members[i][g] \subseteq members'[i][g]
      BY <1>4, <1>10
    <3>3. create_es'[i][g] # "None" => create_es[i][g] # "None" \/ members'[i][g] # {}
      <4>1. CASE i # m
        BY <1>10, <4>1
      <4>2. CASE i = m
        <5>1. create_es'[m][g] = Created(m, plm, g)
          BY <1>10
        <5>2. members'[m][g] = members[m][g] \cup GivenAt(k + 1, g)
          BY <1>4, <1>10
        <5>3. GivenAt(k + 1, g) = plm.given[g]
          BY <1>2, <1>4
        <5> QED
          BY <4>2, <5>1, <5>2, <5>3 DEF Created
      <4> QED
        BY <4>1, <4>2
    <3>4. g \in gossip'[i] => g \in gossip[i] \/ (i = m /\ g \in plm.pushed /\ create_es[i][g] # "None")
      BY <2>4
    <3>5. g \in Groups
      BY <1>4
    <3>6. \A e \in confirmed'[i][g] : node'[e] = Slave(g)
      BY <1>0, <2>5, <3>1
    <3>7. g \in master_bundle'[i] \cup gossip'[i] => GroupRuns(g)'
      BY <1>0, <2>1, <2>6, <3>1, <3>4, <3>5
    <3> QED
      BY <3>1, <3>2, <3>3, <3>4, <3>6, <3>7
  <2>8. \A i \in 1 .. Len(log') : \A g \in PushedAt(i)' \cap Sids : GroupRuns(g)'
    BY <1>0, <1>4, <1>6, <2>1 DEF IndInv, CreateInv, SameAt
  <2>9. /\ \A e \in Eids, g \in Groups : node'[e] = Slave(g) => e \in Given(g)'
        /\ \A c \in confirms' : node'[c.from] = Slave(c.sid)
    BY <1>0, <1>6 DEF IndInv, CreateInv
  <2> QED
    BY <2>3, <2>7, <2>8, <2>9 DEF CreateInv
<1> QED
  BY <1>5, <1>11, <1>13, <1>14, <1>16, <1>17, <1>18, <1>19 DEF IndInv

(* A LeaderChanged is handled. *)
LEMMA HandleLeaderChangedInv ==
  ASSUME IndInv, NEW m \in MasterNodes, HandleLeaderChanged(m)
  PROVE  IndInv'
<1>k. PICK k \in Nat : k = next_index[m]
  BY DEF IndInv, TypeInv, TypeOK
<1>l. PICK l : l = log[k + 1].lid
  OBVIOUS
<1> DEFINE leads == l.eid = m
           creates(e) == {g \in Sids : create_es[m][g] = "Follower" /\ e \in members[m][g]}
           added(e) == SetToSeq({CreateSlaveGroup(g) : g \in creates(e)})
           told(e) == Message(e \in free_nodes[m], MasterLeadershipId(l))
<1>0. /\ k < Len(log)
      /\ ChangedAt(k + 1)
      /\ next_index' = [next_index EXCEPT ![m] = @ + 1]
      /\ lid' = [lid EXCEPT ![m] = l]
      /\ leader_changed(m, leads)
      /\ reconfig_es' = [reconfig_es EXCEPT ![m] =
           [g \in Gids |-> reconfig_leader_changed(leads, @[g])]]
      /\ create_es' = [create_es EXCEPT ![m] =
           [g \in Sids |-> create_leader_changed(leads, @[g])]]
      /\ confirmed' = [confirmed EXCEPT ![m] = [g \in Sids |-> {}]]
      /\ master_bundle' = [master_bundle EXCEPT ![m] = {}]
      /\ down' = IF leads
                 THEN [down EXCEPT ![m] = [e \in Eids |-> @[e] \o added(e) \o told(e)]]
                 ELSE down
      /\ UNCHANGED <<log, free_nodes, members, gossip, node, registered, confirms>>
  BY <1>k, <1>l DEF HandleLeaderChanged, Entry, ChangedAt
<1>1. k + 1 \in 1 .. Len(log) /\ Len(log) \in Nat
  BY <1>0 DEF IndInv, TypeInv
<1>2. l \in Lids /\ l.eid \in MasterNodes
  BY <1>l, <1>0, <1>1, LogTypes DEF IndInv, Lids
<1>3. /\ NewAt(k + 1) = {} /\ GoneAt(k + 1) = {} /\ \A g \in Groups : GivenAt(k + 1, g) = {}
  BY <1>0 DEF ChangedAt, NewAt, DeadAt, GivenAt, GoneAt
<1>4. Sids \subseteq Groups /\ Gids \subseteq Groups
  BY DEF Groups
<1>5. /\ LogInv' /\ AuthorInv' /\ next_index' \in [MasterNodes -> 0 .. MaxLog]
      /\ \A i \in MasterNodes : next_index'[i] =< Len(log)
  BY <1>k, <1>0, AdvanceInv
<1>6. /\ (\A j \in Nat : SameBy(j)) /\ (\A i \in 1 .. Len(log) : SameAt(i))
      /\ (\A g \in Groups : Given(g)' = Given(g)) /\ SameBy(Len(log))
  BY <1>0, LogKept DEF IndInv
<1>7. \A i \in MasterNodes : /\ next_index'[i] = IF i = m THEN k + 1 ELSE next_index[i]
                             /\ lid'[i] = IF i = m THEN l ELSE lid[i]
  BY <1>k, <1>0 DEF IndInv, TypeInv, TypeOK
<1>8. /\ lid \in [MasterNodes -> Lids]
      /\ free_nodes \in [MasterNodes -> SUBSET Eids]
      /\ members \in [MasterNodes -> [Groups -> SUBSET Eids]]
      /\ pending_new_free_nodes \in [MasterNodes -> SUBSET Eids]
      /\ requested_reconfig_eids \in [MasterNodes -> [Gids -> 0 .. MaxRequest]]
      /\ master_bundle \in [MasterNodes -> SUBSET Groups]
      /\ down \in [MasterNodes -> [Eids -> Seq(FreeNodeMessages)]]
      /\ free_node_heartbeat \in [MasterNodes -> [Eids -> 0 .. HEARTBEAT_DEAD_THRESHOLD]]
      /\ \A i \in MasterNodes, e \in Eids :
           e \notin free_nodes[i] => free_node_heartbeat[i][e] = 0
      /\ reconfig_es \in [MasterNodes -> [Gids ->
           {"None", "Follower", "WaitingRequestedNodes", "InsertingReconfig", "Reconfig",
            "InsertingCompletion"}]]
      /\ create_es \in [MasterNodes -> [Sids ->
           {"None", "Follower", "WaitingConfirmed", "InsertingConfirmed"}]]
      /\ confirmed \in [MasterNodes -> [Sids -> SUBSET Eids]]
  BY DEF IndInv, TypeInv, TypeOK
<1>9. \A i \in MasterNodes :
        /\ pending_new_free_nodes'[i] = IF i = m /\ ~leads THEN {} ELSE pending_new_free_nodes[i]
        /\ master_bundle'[i] = IF i = m THEN {} ELSE master_bundle[i]
        /\ i # m => /\ requested_reconfig_eids'[i] = requested_reconfig_eids[i]
                    /\ reconfig_es'[i] = reconfig_es[i]
                    /\ create_es'[i] = create_es[i]
        /\ \A g \in Gids :
             /\ requested_reconfig_eids'[m][g] = IF leads THEN requested_reconfig_eids[m][g] ELSE 0
             /\ reconfig_es'[m][g] = reconfig_leader_changed(leads, reconfig_es[m][g])
        /\ \A g \in Sids : /\ create_es'[m][g] = create_leader_changed(leads, create_es[m][g])
                           /\ confirmed'[i][g] \subseteq confirmed[i][g]
  <2>1. ASSUME NEW i \in MasterNodes
        PROVE  pending_new_free_nodes'[i] = IF i = m /\ ~leads THEN {} ELSE pending_new_free_nodes[i]
    <3> HIDE DEF leads
    <3>1. CASE leads
      BY <1>0, <3>1 DEF leader_changed
    <3>2. CASE ~leads
      BY <1>0, <1>8, <3>2 DEF leader_changed
    <3> QED
      BY <3>1, <3>2
  <2>2. ASSUME NEW i \in MasterNodes
        PROVE  /\ i # m => requested_reconfig_eids'[i] = requested_reconfig_eids[i]
               /\ \A g \in Gids : requested_reconfig_eids'[m][g] =
                                   IF leads THEN requested_reconfig_eids[m][g] ELSE 0
    <3> HIDE DEF leads
    <3>1. CASE leads
      BY <1>0, <3>1 DEF leader_changed
    <3>2. CASE ~leads
      BY <1>0, <1>8, <3>2 DEF leader_changed
    <3> QED
      BY <3>1, <3>2
  <2>3. ASSUME NEW i \in MasterNodes
        PROVE  /\ master_bundle'[i] = IF i = m THEN {} ELSE master_bundle[i]
               /\ \A g \in Sids : confirmed'[i][g] \subseteq confirmed[i][g]
    BY <1>0, <1>8
  <2>4. ASSUME NEW i \in MasterNodes
        PROVE  i # m => reconfig_es'[i] = reconfig_es[i] /\ create_es'[i] = create_es[i]
    BY <1>0, <1>8
  <2>5. \A g \in Gids : reconfig_es'[m][g] = reconfig_leader_changed(leads, reconfig_es[m][g])
    BY <1>0, <1>8
  <2>6. \A g \in Sids : create_es'[m][g] = create_leader_changed(leads, create_es[m][g])
    BY <1>0, <1>8
  <2> HIDE DEF leads
  <2> QED
    BY <2>1, <2>2, <2>3, <2>4, <2>5, <2>6
<1>10. \A e \in Eids :
         /\ added(e) \in Seq(FreeNodeMessages)
         /\ \A x \in Range(added(e)) : \E g \in Sids : e \in members[m][g] /\ x = CreateSlaveGroup(g)
         /\ told(e) \in Seq(FreeNodeMessages)
         /\ \A x \in Range(told(e)) : x = MasterLeadershipId(l)
  <2> SUFFICES ASSUME NEW e \in Eids
               PROVE  /\ added(e) \in Seq(FreeNodeMessages)
                      /\ \A x \in Range(added(e)) :
                           \E g \in Sids : e \in members[m][g] /\ x = CreateSlaveGroup(g)
                      /\ told(e) \in Seq(FreeNodeMessages)
                      /\ \A x \in Range(told(e)) : x = MasterLeadershipId(l)
    OBVIOUS
  <2>1. MasterLeadershipId(l) \in FreeNodeMessages
    BY <1>2 DEF FreeNodeMessages
  <2>2. told(e) \in Seq(FreeNodeMessages) /\ \A x \in Range(told(e)) : x = MasterLeadershipId(l)
    BY <2>1, MessageFacts
  <2>3. creates(e) \in SUBSET Sids /\ \A g \in creates(e) : e \in members[m][g]
    OBVIOUS
  <2>4. /\ added(e) \in Seq(FreeNodeMessages)
        /\ \A x \in Range(added(e)) : \E g \in creates(e) : x = CreateSlaveGroup(g)
    <3> HIDE DEF creates
    <3> QED
      BY <2>3, CreateFacts
  <2> HIDE DEF creates, added, told
  <2> QED
    BY <2>2, <2>3, <2>4
<1> HIDE DEF leads, creates, added, told
<1>11. ASSUME NEW i \in MasterNodes, NEW e \in Eids
       PROVE  /\ down'[i][e] \in Seq(FreeNodeMessages)
              /\ ShutdownNode \in Range(down'[i][e]) => ShutdownNode \in Range(down[i][e])
              /\ \A g \in Sids : CreateSlaveGroup(g) \in Range(down'[i][e]) =>
                   CreateSlaveGroup(g) \in Range(down[i][e]) \/ e \in members[m][g]
  <2>1. CASE down'[i][e] = down[i][e]
    BY <1>8, <2>1
  <2>2. CASE i = m /\ down'[m][e] = (down[m][e] \o added(e)) \o told(e)
    <3>0. /\ down[m][e] \in Seq(FreeNodeMessages)
          /\ added(e) \in Seq(FreeNodeMessages) /\ told(e) \in Seq(FreeNodeMessages)
      BY <1>8, <1>10
    <3>1. /\ down[m][e] \o added(e) \in Seq(FreeNodeMessages)
          /\ Range(down[m][e] \o added(e)) = Range(down[m][e]) \cup Range(added(e))
      BY <3>0, RangeJoin
    <3>2. ASSUME NEW s \in Seq(FreeNodeMessages)
          PROVE  s \o told(e) \in Seq(FreeNodeMessages) /\ Range(s \o told(e)) = Range(s) \cup Range(told(e))
      BY <3>0, RangeJoin
    <3>3. /\ down'[m][e] \in Seq(FreeNodeMessages)
          /\ Range(down'[m][e]) = Range(down[m][e]) \cup Range(added(e)) \cup Range(told(e))
      BY <2>2, <3>1, <3>2
    <3> QED
      BY <1>10, <2>2, <3>3, MessagesDiffer
  <2>3. down'[i][e] = down[i][e] \/ (i = m /\ down'[m][e] = (down[m][e] \o added(e)) \o told(e))
    BY <1>0, <1>8
  <2> QED
    BY <2>1, <2>2, <2>3
<1>12. ReplayInv'
  <2>1. NewBy(k + 1) = NewBy(k) /\ GoneBy(k + 1) = GoneBy(k)
        /\ \A g \in Groups : GivenBy(k + 1, g) = GivenBy(k, g)
    BY <1>3, PrefixFacts
  <2>2. ASSUME NEW i \in MasterNodes
        PROVE  /\ free_nodes'[i] = NewBy(next_index[i])' \ GoneBy(next_index[i])'
               /\ \A g \in Groups : members'[i][g] = GivenBy(next_index[i], g)'
    <3>1. PICK j \in Nat : j = next_index[i]
      BY DEF IndInv, TypeInv, TypeOK
    <3>2. /\ free_nodes'[i] = NewBy(j) \ GoneBy(j)
          /\ \A g \in Groups : members'[i][g] = GivenBy(j, g)
      BY <1>0, <3>1 DEF IndInv, ReplayInv
    <3>3. CASE i = m
      <4>1. j = k /\ next_index'[i] = k + 1 /\ SameBy(k + 1)
        BY <1>k, <1>6, <1>7, <3>1, <3>3
      <4>2. /\ free_nodes'[i] = NewBy(k + 1)' \ GoneBy(k + 1)'
            /\ \A g \in Groups : members'[i][g] = GivenBy(k + 1, g)'
        BY <2>1, <3>2, <4>1 DEF SameBy
      <4> QED
        BY <4>1, <4>2
    <3>4. CASE i # m
      <4>1. next_index'[i] = j /\ SameBy(j)
        BY <1>6, <1>7, <3>1, <3>4
      <4>2. /\ free_nodes'[i] = NewBy(j)' \ GoneBy(j)'
            /\ \A g \in Groups : members'[i][g] = GivenBy(j, g)'
        BY <3>2, <4>1 DEF SameBy
      <4> QED
        BY <4>1, <4>2
    <3> QED
      BY <3>3, <3>4
  <2> QED
    BY <2>2 DEF ReplayInv
<1>13. Leads(k + 1, l)
  BY <1>l, <1>0, LeadsStep
<1>14. LidInv'
  <2> SUFFICES ASSUME NEW i \in MasterNodes
               PROVE  Leads(next_index[i], lid[i])'
    BY DEF LidInv
  <2>1. CASE i = m
    <3>1. SameBy(k + 1)
      BY <1>6
    <3>2. Leads(k + 1, l)'
      BY <1>13, <3>1 DEF SameBy
    <3> QED
      BY <1>7, <2>1, <3>2
  <2>2. CASE i # m
    <3>1. PICK j \in Nat : j = next_index[i]
      BY DEF IndInv, TypeInv, TypeOK
    <3>2. SameBy(j) /\ Leads(j, lid[i])
      BY <1>6, <3>1 DEF IndInv, LidInv
    <3>3. Leads(j, lid[i])'
      BY <1>7, <2>2, <3>2 DEF SameBy
    <3> QED
      BY <1>7, <2>2, <3>1, <3>3
  <2> QED
    BY <2>1, <2>2
<1>15. TypeInv'
  <2>1. down' \in [MasterNodes -> [Eids -> Seq(FreeNodeMessages)]]
    <3>1. CASE UNCHANGED down
      BY <1>8, <3>1
    <3>2. CASE down' = [down EXCEPT ![m] = [e \in Eids |-> @[e] \o added(e) \o told(e)]]
      <4>1. \A e \in Eids : down[m][e] \o added(e) \o told(e) \in Seq(FreeNodeMessages)
        BY <1>8, <1>11, <3>2
      <4> QED
        BY <1>8, <3>2, <4>1
    <3> QED
      BY <1>0, <3>1, <3>2
  <2>2. pending_new_free_nodes' \in [MasterNodes -> SUBSET Eids]
    BY <1>0, <1>8 DEF leader_changed
  <2>3. requested_reconfig_eids' \in [MasterNodes -> [Gids -> 0 .. MaxRequest]]
    <3>1. [g \in Gids |-> 0] \in [Gids -> 0 .. MaxRequest]
      BY FreeNodeAssumption
    <3> QED
      BY <1>0, <1>8, <3>1 DEF leader_changed
  <2>4. /\ free_node_heartbeat' \in [MasterNodes -> [Eids -> 0 .. HEARTBEAT_DEAD_THRESHOLD]]
        /\ \A i \in MasterNodes, e \in Eids :
             e \notin free_nodes'[i] => free_node_heartbeat'[i][e] = 0
    <3> DEFINE reset == [e \in Eids |-> IF e \in free_nodes[m] THEN HEARTBEAT_BACKUP_VALUE ELSE 0]
    <3>1. /\ reset \in [Eids -> 0 .. HEARTBEAT_DEAD_THRESHOLD]
          /\ \A e \in Eids : e \notin free_nodes[m] => reset[e] = 0
      BY FreeNodeAssumption
    <3>2. \/ UNCHANGED free_node_heartbeat
          \/ free_node_heartbeat' = [free_node_heartbeat EXCEPT ![m] = reset]
      BY <1>0 DEF leader_changed
    <3> HIDE DEF reset
    <3>3. CASE UNCHANGED free_node_heartbeat
      BY <1>0, <1>8, <3>3
    <3>4. CASE free_node_heartbeat' = [free_node_heartbeat EXCEPT ![m] = reset]
      BY <1>0, <1>8, <3>1, <3>4
    <3> QED
      BY <3>2, <3>3, <3>4
  <2>5. reconfig_es' \in [MasterNodes -> [Gids ->
          {"None", "Follower", "WaitingRequestedNodes", "InsertingReconfig", "Reconfig",
           "InsertingCompletion"}]]
    BY <1>0, <1>8 DEF reconfig_leader_changed
  <2>6. create_es' \in [MasterNodes -> [Sids ->
          {"None", "Follower", "WaitingConfirmed", "InsertingConfirmed"}]]
    BY <1>0, <1>8 DEF create_leader_changed
  <2>7. confirmed' \in [MasterNodes -> [Sids -> SUBSET Eids]]
    BY <1>0, <1>8
  <2>8. master_bundle' \in [MasterNodes -> SUBSET Groups]
    BY <1>0, <1>8
  <2>9. lid' \in [MasterNodes -> Lids]
    BY <1>0, <1>2, <1>8
  <2> QED
    BY <1>0, <1>5, <2>1, <2>2, <2>3, <2>4, <2>5, <2>6, <2>7, <2>8, <2>9 DEF IndInv, TypeInv, TypeOK
<1>16. PendingInv'
  <2>1. \A i \in MasterNodes : pending_new_free_nodes'[i] \subseteq pending_new_free_nodes[i]
    BY <1>9
  <2>2. NewBy(Len(log))' = NewBy(Len(log))
    BY <1>6, <1>0 DEF SameBy
  <2> QED
    BY <1>0, <2>1, <2>2 DEF IndInv, PendingInv
<1>17. ShutdownInv'
  BY <1>0, <1>6, <1>11 DEF IndInv, ShutdownInv, SameBy
<1>18. RoleInv'
  <2>1. ASSUME NEW i \in MasterNodes, i # m
        PROVE  Role(i)'
    <3>1. Rests(i)
      BY <1>7, <1>9, <2>1 DEF Rests
    <3> QED
      BY <1>0, <3>1, RoleKept DEF IndInv, RoleInv, Role
  <2>2. ASSUME leads
        PROVE  Role(m)'
    <3>1. ~is_leader(m)
      <4>1. Leads((k + 1) - 1, lid[m])
        BY <1>k DEF IndInv, LidInv
      <4>2. log[k + 1].lid.eid # lid[m].eid
        BY <1>0, <1>1, <1>8, <4>1 DEF IndInv, AuthorInv
      <4> QED
        BY <1>l, <2>2, <4>2 DEF is_leader, leads
    <3>2. FollowerInv(m)
      BY <3>1 DEF IndInv, RoleInv
    <3>3. is_leader(m)'
      BY <1>7, <2>2 DEF is_leader, leads
    <3>4. master_bundle'[m] = {} /\ \A g \in Gids : requested_reconfig_eids'[m][g] = 0
      BY <1>9, <2>2, <3>2 DEF FollowerInv
    <3>5. ASSUME k + 1 < Len(log)
          PROVE  PushedAt(k + 2)' = {} /\ \A g \in Groups : GivenAt(k + 2, g)' = {}
      <4>1. PushedAt(k + 2) = {} /\ \A g \in Groups : GivenAt(k + 2, g) = {}
        BY <1>k, <1>2, <1>13, <2>2, <3>5, NextIsChange DEF leads
      <4>2. SameAt(k + 2)
        BY <1>1, <1>6, <3>5
      <4> QED
        BY <4>1, <4>2 DEF SameAt
    <3>6. next_index'[m] = k + 1 /\ (k + 1) + 1 = k + 2
      BY <1>7
    <3>7. LeaderInv(m)'
      BY <1>0, <1>4, <3>4, <3>5, <3>6 DEF LeaderInv
    <3> QED
      BY <3>3, <3>7 DEF Role
  <2>3. ASSUME ~leads
        PROVE  Role(m)'
    <3>1. ~is_leader(m)'
      BY <1>7, <2>3 DEF is_leader, leads
    <3>2. \A g \in Gids : reconfig_es'[m][g] \in {"None", "Follower"}
      <4>1. \A g \in Gids : reconfig_es[m][g] \in
              {"None", "Follower", "WaitingRequestedNodes", "InsertingReconfig", "Reconfig",
               "InsertingCompletion"}
        BY <1>8
      <4> QED
        BY <1>9, <2>3, <4>1 DEF reconfig_leader_changed
    <3>3. \A g \in Sids : create_es'[m][g] \in {"None", "Follower"}
      <4>1. \A g \in Sids : create_es[m][g] \in
              {"None", "Follower", "WaitingConfirmed", "InsertingConfirmed"}
        BY <1>8
      <4> QED
        BY <1>9, <2>3, <4>1 DEF create_leader_changed
    <3> QED
      BY <1>9, <2>3, <3>1, <3>2, <3>3 DEF Role, FollowerInv
  <2> QED
    BY <2>1, <2>2, <2>3 DEF RoleInv, Role
<1>19. CreateInv'
  <2>1. \A g \in Groups : GroupRuns(g)' <=> GroupRuns(g)
    BY <1>0, <1>6 DEF GroupRuns, Running
  <2>2. \A g \in Groups : members[m][g] \subseteq Given(g)
    <3>1. \A g \in Groups : members[m][g] = GivenBy(k, g) /\ GivenBy(k, g) \subseteq GivenBy(Len(log), g)
      BY <1>k, <1>1, <1>0, PrefixGrows DEF IndInv, ReplayInv
    <3> QED
      BY <3>1 DEF Given
  <2>3. \A i \in MasterNodes, e \in Eids, g \in Sids :
          CreateSlaveGroup(g) \in Range(down'[i][e]) => e \in Given(g)'
    BY <1>4, <1>6, <1>11, <2>2 DEF IndInv, CreateInv
  <2>4. ASSUME NEW i \in MasterNodes, NEW g \in Sids
        PROVE  /\ create_es'[i][g] # "None" => members'[i][g] # {}
               /\ \A e \in confirmed'[i][g] : node'[e] = Slave(g)
               /\ g \in master_bundle'[i] \cup gossip'[i] => GroupRuns(g)'
               /\ g \in gossip'[i] => members'[i][g] # {}
    <3>1. /\ create_es[i][g] # "None" => members[i][g] # {}
          /\ \A e \in confirmed[i][g] : node[e] = Slave(g)
          /\ g \in master_bundle[i] \cup gossip[i] => GroupRuns(g)
          /\ g \in gossip[i] => members[i][g] # {}
      BY DEF IndInv, CreateInv
    <3>2. create_es'[i][g] # "None" => create_es[i][g] # "None"
      <4>1. CASE i # m
        BY <1>9, <4>1
      <4>2. CASE i = m
        <5>1. create_es'[m][g] = create_leader_changed(leads, create_es[m][g])
          BY <1>9
        <5> QED
          BY <4>2, <5>1 DEF create_leader_changed
      <4> QED
        BY <4>1, <4>2
    <3>3. \A e \in confirmed'[i][g] : node'[e] = Slave(g)
      BY <1>0, <1>9, <3>1
    <3>4. g \in master_bundle'[i] \cup gossip'[i] => GroupRuns(g)'
      BY <1>0, <1>4, <1>9, <2>1, <3>1
    <3> QED
      BY <1>0, <3>1, <3>2, <3>3, <3>4
  <2>5. \A i \in 1 .. Len(log') : \A g \in PushedAt(i)' \cap Sids : GroupRuns(g)'
    BY <1>0, <1>4, <1>6, <2>1 DEF IndInv, CreateInv, SameAt
  <2>6. /\ \A e \in Eids, g \in Groups : node'[e] = Slave(g) => e \in Given(g)'
        /\ \A c \in confirms' : node'[c.from] = Slave(c.sid)
    BY <1>0, <1>6 DEF IndInv, CreateInv
  <2> QED
    BY <2>3, <2>4, <2>5, <2>6 DEF CreateInv
<1> QED
  BY <1>5, <1>12, <1>14, <1>15, <1>16, <1>17, <1>18, <1>19 DEF IndInv
-----------------------------------------------------------------------------
(* The theorems *)

(* Nobody has registered: the log is empty, and so is all that follows     *)
(* from it.                                                                *)
LEMMA InitInv ==
  ASSUME Init
  PROVE  IndInv
<1>0. log = <<>> /\ Len(log) = 0 /\ 1 .. Len(log) = {} /\ 1 .. 0 = {}
  BY DEF Init
<1>1. /\ NewBy(0) = {} /\ GoneBy(0) = {} /\ DeadBy(0) = {}
      /\ \A g \in Groups : GivenBy(0, g) = {} /\ Given(g) = {}
  BY <1>0 DEF NewBy, GoneBy, DeadBy, GivenBy, Given
<1>2. Sids \subseteq Groups /\ Gids \subseteq Groups
  BY DEF Groups
<1>3. TypeInv
  <2>1. [gen |-> 0, eid |-> FirstLeader] \in Lids
    BY FreeNodeAssumption DEF Lids
  <2>2. /\ next_index \in [MasterNodes -> 0 .. MaxLog]
        /\ free_node_heartbeat \in [MasterNodes -> [Eids -> 0 .. HEARTBEAT_DEAD_THRESHOLD]]
        /\ requested_reconfig_eids \in [MasterNodes -> [Gids -> 0 .. MaxRequest]]
    BY FreeNodeAssumption DEF Init
  <2>3. /\ lid \in [MasterNodes -> Lids]
        /\ free_nodes \in [MasterNodes -> SUBSET Eids]
        /\ pending_new_free_nodes \in [MasterNodes -> SUBSET Eids]
        /\ members \in [MasterNodes -> [Groups -> SUBSET Eids]]
        /\ confirmed \in [MasterNodes -> [Sids -> SUBSET Eids]]
        /\ gossip \in [MasterNodes -> SUBSET Sids]
        /\ master_bundle \in [MasterNodes -> SUBSET Groups]
    BY <2>1 DEF Init
  <2>4. /\ reconfig_es \in [MasterNodes -> [Gids ->
             {"None", "Follower", "WaitingRequestedNodes", "InsertingReconfig", "Reconfig",
              "InsertingCompletion"}]]
        /\ create_es \in [MasterNodes -> [Sids ->
             {"None", "Follower", "WaitingConfirmed", "InsertingConfirmed"}]]
        /\ registered \in [Eids -> FreeNodeType \cup {"None"}]
    BY DEF Init
  <2>5. /\ node \in [Eids -> NodeStates]
        /\ down \in [MasterNodes -> [Eids -> Seq(FreeNodeMessages)]]
        /\ confirms \subseteq [to : MasterNodes, from : Eids, sid : Groups]
    BY DEF Init, NodeStates
  <2>6. /\ \A m \in MasterNodes : next_index[m] =< Len(log)
        /\ \A m \in MasterNodes, e \in Eids :
             e \notin free_nodes[m] => free_node_heartbeat[m][e] = 0
    BY <1>0 DEF Init
  <2>7. log \in Seq(Bundles \cup LeaderChanges) /\ Len(log) =< MaxLog
    BY <1>0, FreeNodeAssumption
  <2> QED
    BY <2>2, <2>3, <2>4, <2>5, <2>6, <2>7 DEF TypeInv, TypeOK
<1>4. LogInv
  BY <1>0 DEF LogInv
<1>5. ReplayInv
  BY <1>1 DEF Init, ReplayInv
<1>6. PendingInv
  BY <1>0, <1>1 DEF Init, PendingInv
<1>7. LidInv
  BY <1>0 DEF Init, LidInv, Leads
<1>8. AuthorInv
  BY <1>0 DEF AuthorInv
<1>9. RoleInv
  BY <1>0, <1>2 DEF Init, RoleInv, LeaderInv, FollowerInv
<1>10. ShutdownInv
  BY DEF Init, ShutdownInv, DNE, PostExistence, Range
<1>11. CreateInv
  BY <1>0 DEF Init, CreateInv, DNE, Slave, Range
<1> QED
  BY <1>3, <1>4, <1>5, <1>6, <1>7, <1>8, <1>9, <1>10, <1>11 DEF IndInv

(* Each step keeps the invariant. *)
LEMMA NextInv ==
  ASSUME IndInv, [Next]_vars
  PROVE  IndInv'
<1>1. ASSUME NEW m \in MasterNodes, handle_timer(m)
      PROVE  IndInv'
  <2> DEFINE counts == [e \in Eids |->
               IF e \in free_nodes[m] /\ free_node_heartbeat[m][e] < HEARTBEAT_DEAD_THRESHOLD
               THEN free_node_heartbeat[m][e] + 1 ELSE free_node_heartbeat[m][e]]
  <2>0. /\ free_node_heartbeat \in [MasterNodes -> [Eids -> 0 .. HEARTBEAT_DEAD_THRESHOLD]]
        /\ \A i \in MasterNodes, e \in Eids :
             e \notin free_nodes[i] => free_node_heartbeat[i][e] = 0
    BY DEF IndInv, TypeInv, TypeOK
  <2>1. /\ free_node_heartbeat' = [free_node_heartbeat EXCEPT ![m] = counts]
        /\ UNCHANGED <<log, next_index, lid, free_nodes, pending_new_free_nodes,
                       requested_reconfig_eids, esVars, netVars>>
    BY <1>1 DEF handle_timer
  <2>2. /\ counts \in [Eids -> 0 .. HEARTBEAT_DEAD_THRESHOLD]
        /\ \A e \in Eids : e \notin free_nodes[m] => counts[e] = 0
    BY <2>0, FreeNodeAssumption
  <2> HIDE DEF counts
  <2>3. /\ free_node_heartbeat' \in [MasterNodes -> [Eids -> 0 .. HEARTBEAT_DEAD_THRESHOLD]]
        /\ \A i \in MasterNodes, e \in Eids :
             e \notin free_nodes[i] => free_node_heartbeat'[i][e] = 0
    BY <2>0, <2>1, <2>2
  <2> QED
    BY <2>1, <2>3, HeartbeatInv
<1>2. ASSUME NEW m \in MasterNodes, NEW e \in Eids, handle_heartbeat(m, e)
      PROVE  IndInv'
  <2>0. /\ free_node_heartbeat \in [MasterNodes -> [Eids -> 0 .. HEARTBEAT_DEAD_THRESHOLD]]
        /\ \A i \in MasterNodes, x \in Eids :
             x \notin free_nodes[i] => free_node_heartbeat[i][x] = 0
    BY DEF IndInv, TypeInv, TypeOK
  <2>1. /\ free_node_heartbeat' = [free_node_heartbeat EXCEPT ![m][e] = 0]
        /\ UNCHANGED <<log, next_index, lid, free_nodes, pending_new_free_nodes,
                       requested_reconfig_eids, esVars, netVars>>
    BY <1>2 DEF handle_heartbeat
  <2>2. /\ free_node_heartbeat' \in [MasterNodes -> [Eids -> 0 .. HEARTBEAT_DEAD_THRESHOLD]]
        /\ \A i \in MasterNodes, x \in Eids :
             x \notin free_nodes[i] => free_node_heartbeat'[i][x] = 0
    BY <2>0, <2>1, FreeNodeAssumption
  <2> QED
    BY <2>1, <2>2, HeartbeatInv
<1>3. CASE UNCHANGED vars
  BY <1>3, HeartbeatInv DEF vars, managerVars, IndInv, TypeInv, TypeOK
<1>4. CASE Handle
  BY <1>4, HandleBundleInv, HandleLeaderChangedInv, ProcessInputInv, ConfirmInv DEF Handle
<1>5. ASSUME NEW m \in MasterNodes, NEW e \in Eids,
             handle_register(m, e) \/ broadcast_leadership(m, e)
      PROVE  IndInv'
  BY <1>5, RegisterInv, BroadcastInv
<1>6. ASSUME NEW m \in MasterNodes, NEW g \in Gids,
             \/ handle_reconfigured_msg(m, g)
             \/ \E count \in 1 .. MaxRequest : request_new_eids(m, g, count)
      PROVE  IndInv'
  BY <1>6, RequestInv, ReconfiguredInv
<1>7. ASSUME NEW m \in MasterNodes, InsertBundle(m) \/ InsertLeaderChanged(m)
      PROVE  IndInv'
  BY <1>7, InsertBundleInv, InsertLeaderChangedInv
<1>8. ASSUME NEW e \in Eids, NEW g \in Gids, Snapshot(e, g)
      PROVE  IndInv'
  BY <1>8, SnapshotInv
<1> QED
  BY <1>1, <1>2, <1>3, <1>4, <1>5, <1>6, <1>7, <1>8 DEF Next

(* The inductive invariant holds of every behaviour, for any number of     *)
(* Master nodes, nodes and groups, and logs of any length.                 *)
THEOREM Invariance == Spec => []IndInv
BY InitInv, NextInv, PTL DEF Spec

(* free_node_manager.rs and slave_reconfig_es.rs unwrap only what is       *)
(* there: a heartbeat count for every free node, and the SlaveReconfigES   *)
(* of a group that is granted nodes, from the request to the handling of   *)
(* the grant, over every change of leader.                                 *)
THEOREM UnwrapsFindTheorem == Spec => []UnwrapsFind
<1>1. IndInv => UnwrapsFind
  <2> SUFFICES ASSUME IndInv PROVE GrantFindsES
    BY DEF IndInv, TypeInv, UnwrapsFind
  <2> SUFFICES ASSUME NEW m \in MasterNodes, is_leader(m), NEW g \in Gids
               PROVE  /\ requested_reconfig_eids[m][g] > 0 =>
                           reconfig_es[m][g] = "WaitingRequestedNodes"
                      /\ /\ next_index[m] < Len(log)
                         /\ Entry(m).type = "Bundle"
                         /\ Entry(m).given[g] # {}
                         => reconfig_es[m][g] = "InsertingReconfig"
    BY DEF GrantFindsES
  <2>1. LeaderInv(m)
    BY DEF IndInv, RoleInv
  <2> QED
    BY <2>1 DEF LeaderInv, GivenAt, Entry
<1> QED
  BY <1>1, Invariance, PTL

(* FreeNodeManager::process never gives away a node twice: at every Master *)
(* node, a FreeNode is free or belongs to one group.                       *)
THEOREM OneHomeTheorem == Spec => []OneHome
<1>1. IndInv => OneHome
  <2> SUFFICES ASSUME IndInv, NEW m \in MasterNodes
               PROVE  Disjoint(members[m]) /\ free_nodes[m] \cap Placed(m) = {}
    BY DEF OneHome
  <2>1. PICK k \in Nat : k = next_index[m] /\ k =< Len(log) /\ Len(log) \in Nat
    BY DEF IndInv, TypeInv, TypeOK
  <2>2. /\ members[m] \in [Groups -> SUBSET Eids]
        /\ \A g \in Groups : members[m][g] = GivenBy(k, g)
        /\ free_nodes[m] = NewBy(k) \ GoneBy(k)
    BY <2>1 DEF IndInv, TypeInv, TypeOK, ReplayInv
  <2>3. \A g \in Groups : GivenBy(k, g) \subseteq Given(g)
    BY <2>1, PrefixGrows DEF Given
  <2>4. Disjoint(members[m])
    <3> SUFFICES ASSUME NEW g \in Groups, NEW h \in Groups, g # h,
                        NEW e \in members[m][g], e \in members[m][h]
                 PROVE  FALSE
      BY <2>2 DEF Disjoint
    <3> QED
      BY <2>2, <2>3, GoneOnce
  <2>5. \A g \in Groups : GivenBy(k, g) \subseteq GoneBy(k)
    BY DEF GivenBy, GoneBy, GoneAt
  <2> QED
    BY <2>2, <2>4, <2>5 DEF Placed
<1> QED
  BY <1>1, Invariance, PTL

(* SlaveGroupCreateES publishes a new SlaveGroup only once a majority of   *)
(* its nodes runs it, whichever leaders collected the confirmations.       *)
THEOREM PublishedIsRunningTheorem == Spec => []PublishedIsRunning
<1>1. IndInv => PublishedIsRunning
  <2> SUFFICES ASSUME IndInv, NEW m \in MasterNodes, NEW g \in gossip[m]
               PROVE  2 * Cardinality({e \in members[m][g] : node[e] = Slave(g)})
                        > Cardinality(members[m][g])
    BY DEF PublishedIsRunning
  <2>1. g \in Sids
    BY DEF IndInv, TypeInv, TypeOK
  <2>2. GroupRuns(g) /\ members[m][g] # {}
    BY <2>1 DEF IndInv, CreateInv
  <2>3. members[m][g] = Given(g)
    BY <2>1, <2>2, AllMembers
  <2> QED
    BY <2>2, <2>3 DEF GroupRuns, Running
<1> QED
  BY <1>1, Invariance, PTL

(* ShutdownNode only reaches nodes that no Master node ever gives to a     *)
(* group.                                                                  *)
THEOREM ShutdownIsFinalTheorem == Spec => []ShutdownIsFinal
<1>1. IndInv => ShutdownIsFinal
  <2> SUFFICES ASSUME IndInv, NEW e \in Eids, e \in DeadBy(Len(log)),
                      NEW i \in MasterNodes, e \in Placed(i)
               PROVE  FALSE
    BY DEF ShutdownIsFinal, IndInv, ShutdownInv
  <2>1. PICK k \in Nat : k = next_index[i] /\ k =< Len(log) /\ Len(log) \in Nat
    BY DEF IndInv, TypeInv, TypeOK
  <2>2. PICK g \in Groups : e \in members[i][g]
    BY DEF Placed
  <2>3. e \in GivenBy(k, g)
    BY <2>1, <2>2 DEF IndInv, ReplayInv
  <2>4. e \in Given(g)
    BY <2>1, <2>3, PrefixGrows DEF Given
  <2> QED
    BY <2>4, GoneOnce
<1> QED
  BY <1>1, Invariance, PTL
=============================================================================
