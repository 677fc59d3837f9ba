---------------------------- MODULE PaxosInstance ----------------------------
(***************************************************************************)
(* One instance (one PLIndex) of the Multi-Paxos of src/src/paxos.rs, for  *)
(* a fixed configuration paxos_nodes.  Every node is proposer, acceptor    *)
(* and learner.  What is unusual about this Paxos, and kept here:          *)
(*                                                                         *)
(*   - round numbers are drawn at random, so two proposers may use the     *)
(*     same round, and one proposer may draw the same round twice, which   *)
(*     overwrites its Proposal (and forgets the promises counted so far);  *)
(*   - a Learn message carries the round and not the value: a node learns  *)
(*     its own accepted value once a round not above its own is confirmed; *)
(*   - a learned value also spreads by InformLearned (the round only) and  *)
(*     by LogSyncResponse (round and value).                               *)
(*                                                                         *)
(* `msgs' holds every message ever sent.  The node-to-node queues deliver  *)
(* each message at most once; handling a Prepare, an Accept or a Learn a   *)
(* second time changes nothing, and for Promise, where it would, the       *)
(* variable `delivered' remembers what has been handled.                   *)
(***************************************************************************)
EXTENDS Integers, FiniteSets

CONSTANTS
  Nodes,              \* paxos_nodes, the EndpointIds of the configuration
  Values,             \* the PLEntrys that may be proposed at this index
  Entry,              \* the PLEntry each node proposes at this index
  NoValue,            \* the absent value of an Option
  ProposalIncrement,  \* PaxosConfig::proposal_increment
  MaxRnd              \* bound on the rounds drawn

ASSUME NodesAssumption == IsFiniteSet(Nodes)
ASSUME ValuesAssumption == NoValue \notin Values /\ Entry \in [Nodes -> Values]
ASSUME RndAssumption == ProposalIncrement \in Nat /\ MaxRnd \in Nat

VARIABLES
  msgs,             \* every message sent for this index
  delivered,        \* the Promise messages that have been handled
  latest_crnd,      \* ProposerState::latest_crnd
  proposals,        \* ProposerState::proposals
  rnd,              \* AcceptorState::rnd
  vrnd_vval,        \* AcceptorState::vrnd_vval
  learned,          \* LearnerState::learned, as the senders counted
  learned_vrnd,     \* LearnerState::learned_vrnd
  learned_rnd_val   \* InstanceEntry::learned_rnd_val

proposerVars == <<latest_crnd, proposals>>
acceptorVars == <<rnd, vrnd_vval>>
learnerVars  == <<learned, learned_vrnd>>
vars == <<msgs, delivered, proposerVars, acceptorVars, learnerVars, learned_rnd_val>>
-----------------------------------------------------------------------------
(* Types *)

Rnd == 0 .. MaxRnd
NoRnd == -1                       \* None, below every round

RndVal == [vrnd : Rnd, vval : Values]
NoRndVal == [vrnd |-> NoRnd, vval |-> NoValue]

PrepareMsg == [type : {"Prepare"}, from : Nodes, crnd : Rnd]
PromiseMsg ==
  [type : {"Promise"}, from : Nodes, to : Nodes, rnd : Rnd, vote : RndVal \cup {NoRndVal}]
AcceptMsg == [type : {"Accept"}, from : Nodes, crnd : Rnd, cval : Values]
LearnMsg == [type : {"Learn"}, from : Nodes, vrnd : Rnd]
Message == PrepareMsg \cup PromiseMsg \cup AcceptMsg \cup LearnMsg

Proposal == [cval : Values, promises : SUBSET PromiseMsg]
NoProposal == [cval |-> NoValue, promises |-> {}]

(* majority(vec) = vec.len() / 2 + 1; promises and learns are counted until *)
(* the count equals it.  Promises of one round come from distinct nodes.   *)
majority_half == Cardinality(Nodes) \div 2   \* mutant: half the nodes
majority == (Cardinality(Nodes) \div 2) + 1
Senders(promises) == {m.from : m \in promises}
-----------------------------------------------------------------------------
Init ==
  /\ msgs = {}
  /\ delivered = {}
  /\ latest_crnd = [n \in Nodes |-> 0]
  /\ proposals = [n \in Nodes |-> [r \in Rnd |-> NoProposal]]
  /\ rnd = [n \in Nodes |-> 0]
  /\ vrnd_vval = [n \in Nodes |-> NoRndVal]
  /\ learned = [n \in Nodes |-> [r \in Rnd |-> {}]]
  /\ learned_vrnd = [n \in Nodes |-> NoRnd]
  /\ learned_rnd_val = [n \in Nodes |-> NoRndVal]

Send(m) == msgs' = msgs \cup {m}

(* propose_next_index: the draw is rand % proposal_increment + latest_crnd. *)
(* It is only called while this index is the node's next_index, that is    *)
(* while the node has not learned its value.  At one index a node always   *)
(* proposes the same entry: the leader its next_insert, which is kept      *)
(* until the index is learned, any other node LeaderChanged to itself.     *)
propose_next_index(n) ==
  \E r \in Rnd :
    /\ learned_rnd_val[n] = NoRndVal
    /\ latest_crnd[n] =< r /\ r < latest_crnd[n] + ProposalIncrement
    /\ proposals' = [proposals EXCEPT ![n][r] = [cval |-> Entry[n], promises |-> {}]]
    /\ latest_crnd' = [latest_crnd EXCEPT ![n] = r]
    /\ Send([type |-> "Prepare", from |-> n, crnd |-> r])
    /\ UNCHANGED <<delivered, acceptorVars, learnerVars, learned_rnd_val>>

(* A node may also drop the Prepare, when its sender is not the leader and *)
(* the leader seems alive: the message is then never handled.              *)
HandlePrepare(n) ==
  \E m \in msgs :
    /\ m.type = "Prepare"
    /\ m.crnd > rnd[n]
    /\ rnd' = [rnd EXCEPT ![n] = m.crnd]
    /\ Send([type |-> "Promise", from |-> n, to |-> m.from,
             rnd |-> m.crnd, vote |-> vrnd_vval[n]])
    /\ UNCHANGED <<delivered, proposerVars, vrnd_vval, learnerVars, learned_rnd_val>>

(* Mutant: the votes reported are ignored. *)
ChooseCval_own(promises, cval, v) == v = cval

(* The value of the highest vote reported, else the proposer's own. *)
ChooseCval(promises, cval, v) ==
  \/ /\ \A m \in promises : m.vote = NoRndVal
     /\ v = cval
  \/ \E m \in promises :
       /\ m.vote # NoRndVal
       /\ \A o \in promises : o.vote.vrnd =< m.vote.vrnd
       /\ v = m.vote.vval

HandlePromise(n) ==
  \E m \in msgs \ delivered :
    /\ m.type = "Promise"
    /\ m.to = n
    /\ delivered' = delivered \cup {m}
    /\ proposals' = [proposals EXCEPT ![n][m.rnd] =
         [cval |-> @.cval, promises |-> @.promises \cup {m}]]
    /\ LET state == proposals'[n][m.rnd]
       IN \/ /\ Cardinality(Senders(state.promises)) = majority
             /\ \E v \in Values :
                  /\ ChooseCval(state.promises, state.cval, v)
                  /\ Send([type |-> "Accept", from |-> n, crnd |-> m.rnd, cval |-> v])
          \/ /\ Cardinality(Senders(state.promises)) # majority
             /\ UNCHANGED msgs
    /\ UNCHANGED <<latest_crnd, acceptorVars, learnerVars, learned_rnd_val>>

(* Mutant: the round is not compared. *)
LearnIf_unchecked(n, ok, r, v) ==
  learned_rnd_val' =
    IF learned_rnd_val[n] = NoRndVal
    THEN [learned_rnd_val EXCEPT ![n] = [vrnd |-> r, vval |-> v]]
    ELSE learned_rnd_val

(* Set learned_rnd_val[n] to <<r, v>> when it is still unset and ok holds. *)
LearnIf(n, ok, r, v) ==
  learned_rnd_val' =
    IF learned_rnd_val[n] = NoRndVal /\ ok
    THEN [learned_rnd_val EXCEPT ![n] = [vrnd |-> r, vval |-> v]]
    ELSE learned_rnd_val

HandleAccept(n) ==
  \E m \in msgs :
    /\ m.type = "Accept"
    /\ m.crnd >= rnd[n]
    /\ rnd' = [rnd EXCEPT ![n] = m.crnd]
    /\ vrnd_vval' = [vrnd_vval EXCEPT ![n] = [vrnd |-> m.crnd, vval |-> m.cval]]
    /\ Send([type |-> "Learn", from |-> n, vrnd |-> m.crnd])
    /\ LearnIf(n, learned_vrnd[n] # NoRnd /\ learned_vrnd[n] =< m.crnd,
               learned_vrnd[n], m.cval)
    /\ UNCHANGED <<delivered, proposerVars, learnerVars>>

HandleLearn(n) ==
  \E m \in msgs :
    /\ m.type = "Learn"
    /\ m.from \notin learned[n][m.vrnd]
    /\ learned' = [learned EXCEPT ![n][m.vrnd] = @ \cup {m.from}]
    /\ IF Cardinality(learned'[n][m.vrnd]) = majority
       THEN /\ learned_vrnd' = [learned_vrnd EXCEPT ![n] =
                 IF @ = NoRnd \/ m.vrnd < @ THEN m.vrnd ELSE @]
            /\ LearnIf(n, vrnd_vval[n] # NoRndVal /\ learned_vrnd'[n] =< vrnd_vval[n].vrnd,
                       learned_vrnd'[n], vrnd_vval[n].vval)
       ELSE UNCHANGED <<learned_vrnd, learned_rnd_val>>
    /\ UNCHANGED <<msgs, delivered, proposerVars, acceptorVars>>

(* Mutant: a node learns its vote of any round. *)
HandleInformLearned_any_round(n) ==
  \E s \in Nodes :
    /\ learned_rnd_val[s] # NoRndVal
    /\ learned_rnd_val[n] = NoRndVal
    /\ vrnd_vval[n] # NoRndVal
    /\ learned_rnd_val' = [learned_rnd_val EXCEPT ![n] =
         [vrnd |-> learned_rnd_val[s].vrnd, vval |-> vrnd_vval[n].vval]]
    /\ UNCHANGED <<msgs, delivered, proposerVars, acceptorVars, learnerVars>>

(* InformLearned from node s: only the round s learned is sent.  The value *)
(* s learned is never changed, so reading it here or when it was sent is   *)
(* the same.                                                               *)
HandleInformLearned(n) ==
  \E s \in Nodes :
    /\ learned_rnd_val[s] # NoRndVal
    /\ learned_rnd_val[n] = NoRndVal
    /\ vrnd_vval[n] # NoRndVal
    /\ learned_rnd_val[s].vrnd =< vrnd_vval[n].vrnd
    /\ learned_rnd_val' = [learned_rnd_val EXCEPT ![n] =
         [vrnd |-> learned_rnd_val[s].vrnd, vval |-> vrnd_vval[n].vval]]
    /\ UNCHANGED <<msgs, delivered, proposerVars, acceptorVars, learnerVars>>

(* LogSyncRequest to s and its LogSyncResponse: round and value are taken. *)
HandleLogSyncResponse(n) ==
  \E s \in Nodes :
    /\ learned_rnd_val[s] # NoRndVal
    /\ learned_rnd_val[n] = NoRndVal
    /\ learned_rnd_val' = [learned_rnd_val EXCEPT ![n] = learned_rnd_val[s]]
    /\ UNCHANGED <<msgs, delivered, proposerVars, acceptorVars, learnerVars>>

Next ==
  \E n \in Nodes :
    \/ propose_next_index(n)
    \/ HandlePrepare(n)
    \/ HandlePromise(n)
    \/ HandleAccept(n)
    \/ HandleLearn(n)
    \/ HandleInformLearned(n)
    \/ HandleLogSyncResponse(n)

Spec == Init /\ [][Next]_vars
-----------------------------------------------------------------------------
(* Properties *)

TypeOK ==
  /\ msgs \subseteq Message
  /\ delivered \subseteq PromiseMsg
  /\ latest_crnd \in [Nodes -> Rnd]
  /\ proposals \in [Nodes -> [Rnd -> Proposal \cup {NoProposal}]]
  /\ rnd \in [Nodes -> Rnd]
  /\ vrnd_vval \in [Nodes -> RndVal \cup {NoRndVal}]
  /\ learned \in [Nodes -> [Rnd -> SUBSET Nodes]]
  /\ learned_vrnd \in [Nodes -> Rnd \cup {NoRnd}]
  /\ learned_rnd_val \in [Nodes -> RndVal \cup {NoRndVal}]

(* The nodes that accepted in round r, and v accepted by a majority of them. *)
Acceptors(r) == {a \in Nodes : [type |-> "Learn", from |-> a, vrnd |-> r] \in msgs}
AcceptSent(r, v) ==
  \E n \in Nodes : [type |-> "Accept", from |-> n, crnd |-> r, cval |-> v] \in msgs
ChosenAt(r, v) == AcceptSent(r, v) /\ Cardinality(Acceptors(r)) >= majority

chosen == {m.cval : m \in {o \in msgs : o.type = "Accept" /\ ChosenAt(o.crnd, o.cval)}}
learnedVal == [n \in Nodes |-> learned_rnd_val[n].vval]

(* No two nodes ever learn different entries for an index of the PaxosLog, *)
(* by whichever of the four ways of learning: the logs of a group agree.   *)
Agreement ==
  \A m, n \in Nodes :
    learned_rnd_val[m] # NoRndVal /\ learned_rnd_val[n] # NoRndVal
      => learned_rnd_val[m].vval = learned_rnd_val[n].vval

(* Although rounds are drawn at random and may collide between proposers,  *)
(* and although a proposer may overwrite its own Proposal, no two Accepts   *)
(* of the same round are ever sent with different values.                  *)
OneValuePerRound ==
  \A m \in msgs : m.type = "Accept" =>
    \A o \in msgs : o.type = "Accept" /\ m.crnd = o.crnd => m = o

(* The round a node holds as learned really was confirmed by a majority    *)
(* for the value it holds: a node that learns its own newer vote under an  *)
(* older confirmed round still learns the value of that older round.       *)
LearnedIsChosen ==
  \A n \in Nodes :
    learned_rnd_val[n] # NoRndVal
      => ChosenAt(learned_rnd_val[n].vrnd, learned_rnd_val[n].vval)

(* A conjunct of the inductive invariant below, and what makes it work:    *)
(* no value other than v was or ever will be chosen in a round below r.    *)
SafeAt(r, v) ==
  \A c \in Rnd : c < r =>
    \E Q \in SUBSET Nodes :
      /\ Cardinality(Q) >= majority
      /\ \A a \in Q : \/ a \in Acceptors(c) /\ AcceptSent(c, v)
                      \/ a \notin Acceptors(c) /\ rnd[a] > c

(* A Promise is only counted by the proposer that holds its Proposal, which *)
(* is what the unwrap() in the Promise handler relies on.                   *)
PrepareInv ==
  \A m \in msgs :
    /\ m.type = "Prepare" => proposals[m.from][m.crnd].cval \in Values
    /\ m.type = "Promise" => proposals[m.to][m.rnd].cval \in Values

PromiseInv ==
  \A m \in msgs : m.type = "Promise" =>
    /\ m.rnd =< rnd[m.from]
    /\ m.vote.vrnd < m.rnd
    /\ m.vote # NoRndVal => m.from \in Acceptors(m.vote.vrnd)
                             /\ AcceptSent(m.vote.vrnd, m.vote.vval)
    /\ \A c \in Rnd : m.vote.vrnd < c /\ c < m.rnd => m.from \notin Acceptors(c)
    /\ \A o \in msgs : o.type = "Promise" /\ o.from = m.from /\ o.rnd = m.rnd => o = m

AcceptorInv ==
  \A a \in Nodes :
    /\ vrnd_vval[a].vrnd =< rnd[a]
    /\ vrnd_vval[a] # NoRndVal => a \in Acceptors(vrnd_vval[a].vrnd)
                                   /\ AcceptSent(vrnd_vval[a].vrnd, vrnd_vval[a].vval)
    /\ \A r \in Rnd : a \in Acceptors(r) => r =< vrnd_vval[a].vrnd

ProposalInv ==
  /\ delivered \subseteq msgs
  /\ \A n \in Nodes, r \in Rnd : \A m \in proposals[n][r].promises :
       m \in delivered /\ m.to = n /\ m.rnd = r

(* Every Accept is backed by a majority of promises made to its sender,    *)
(* which the proposer still counts, or has forgotten altogether.           *)
BackedInv ==
  \A m \in msgs : m.type = "Accept" =>
    \E S \in SUBSET delivered :
      /\ \A o \in S : o.to = m.from /\ o.rnd = m.crnd
      /\ Cardinality(Senders(S)) >= majority
      /\ \/ S \subseteq proposals[m.from][m.crnd].promises
         \/ S \cap proposals[m.from][m.crnd].promises = {}

SafeInv == \A m \in msgs : m.type = "Accept" => SafeAt(m.crnd, m.cval)

LearnerInv ==
  \A n \in Nodes :
    /\ \A r \in Rnd : learned[n][r] \subseteq Acceptors(r)
    /\ learned_vrnd[n] # NoRnd => Cardinality(Acceptors(learned_vrnd[n])) >= majority

(* The inductive invariant: what the proofs of Agreement rest on. *)
IndInv ==
  /\ TypeOK
  /\ PrepareInv
  /\ PromiseInv
  /\ AcceptorInv
  /\ ProposalInv
  /\ BackedInv
  /\ OneValuePerRound
  /\ SafeInv
  /\ LearnerInv
  /\ LearnedIsChosen

(* What the instance promises: at most one value is ever chosen, and nodes *)
(* learn that value and never unlearn it.                                  *)
Abs == INSTANCE Consensus WITH chosen <- chosen, learned <- learnedVal
ImplementsConsensus == Abs!Spec
=============================================================================
