------------------------- MODULE PaxosInstanceProofs -------------------------
(***************************************************************************)
(* Type correctness and agreement of one Paxos instance, for every finite  *)
(* set of nodes, every set of values and every bound on the rounds.        *)
(***************************************************************************)
EXTENDS PaxosInstance, FiniteSetTheorems, TLAPS

(* majority is len / 2 + 1: a number, and twice it exceeds the group size. *)
LEMMA MajorityFact ==
  /\ Cardinality(Nodes) \in Nat
  /\ majority \in Nat
  /\ majority + majority > Cardinality(Nodes)
<1>1. Cardinality(Nodes) \in Nat
  BY NodesAssumption, FS_CardinalityType
<1> QED
  BY <1>1 DEF majority

(* Two sets of nodes that each reach the majority share a node. *)
LEMMA MajoritiesMeet ==
  ASSUME NEW P, NEW Q, P \subseteq Nodes, Q \subseteq Nodes,
         Cardinality(P) >= majority, Cardinality(Q) >= majority
  PROVE  \E a \in P : a \in Q
<1>1. Cardinality(P) \in Nat /\ Cardinality(Q) \in Nat
  BY NodesAssumption, FS_Subset, FS_CardinalityType
<1>2. Cardinality(P) + Cardinality(Q) > Cardinality(Nodes)
  BY <1>1, MajorityFact
<1>3. P \cap Q # {}
  BY <1>2, NodesAssumption, FS_MajoritiesIntersect
<1> QED
  BY <1>3

(* The records the actions build have the types their readers expect. *)
LEMMA Typing == TypeOK /\ PrepareInv /\ [Next]_vars => TypeOK'
<1> SUFFICES ASSUME TypeOK, PrepareInv, [Next]_vars
             PROVE  TypeOK'
  OBVIOUS
<1> USE ValuesAssumption, RndAssumption
<1>1. ASSUME NEW n \in Nodes, propose_next_index(n)
      PROVE  TypeOK'
  <2>1. PICK r \in Rnd : propose_next_index(n)!(r)
    BY <1>1 DEF propose_next_index
  <2>2. Entry[n] \in Values
    OBVIOUS
  <2>3. [type |-> "Prepare", from |-> n, crnd |-> r] \in Message
    BY DEF Message, PrepareMsg
  <2>4. [cval |-> Entry[n], promises |-> {}] \in Proposal
    BY <2>2 DEF Proposal
  <2>5. proposals' \in [Nodes -> [Rnd -> Proposal \cup {NoProposal}]]
    BY <2>1, <2>4 DEF TypeOK
  <2> QED
    BY <2>1, <2>3, <2>5 DEF TypeOK, Send, acceptorVars, learnerVars
<1>2. ASSUME NEW n \in Nodes, HandlePrepare(n)
      PROVE  TypeOK'
  <2>1. PICK m \in msgs : HandlePrepare(n)!(m)
    BY <1>2 DEF HandlePrepare
  <2>2. m \in PrepareMsg
    BY <2>1 DEF TypeOK, Message, PrepareMsg, PromiseMsg, AcceptMsg, LearnMsg
  <2>3. [type |-> "Promise", from |-> n, to |-> m.from,
         rnd |-> m.crnd, vote |-> vrnd_vval[n]] \in Message
    BY <2>2 DEF Message, PromiseMsg, PrepareMsg, TypeOK
  <2> QED
    BY <2>1, <2>2, <2>3 DEF TypeOK, Send, proposerVars, learnerVars, PrepareMsg
<1>3. ASSUME NEW n \in Nodes, HandlePromise(n)
      PROVE  TypeOK'
  <2>1. PICK m \in msgs \ delivered : HandlePromise(n)!(m)
    BY <1>3 DEF HandlePromise
  <2>2. m \in PromiseMsg
    BY <2>1 DEF TypeOK, Message, PrepareMsg, PromiseMsg, AcceptMsg, LearnMsg
  <2>3. m.rnd \in Rnd /\ proposals[n][m.rnd].cval \in Values
    BY <2>1, <2>2 DEF PrepareInv, PromiseMsg
  <2>4. proposals[n][m.rnd] \in Proposal
    BY <2>3 DEF TypeOK, NoProposal
  <2>5. [cval |-> proposals[n][m.rnd].cval,
         promises |-> proposals[n][m.rnd].promises \cup {m}] \in Proposal
    BY <2>2, <2>4 DEF Proposal
  <2>6. proposals' \in [Nodes -> [Rnd -> Proposal \cup {NoProposal}]]
    BY <2>1, <2>3, <2>5 DEF TypeOK
  <2>7. msgs' \subseteq Message
    <3>1. ASSUME NEW v \in Values
          PROVE  [type |-> "Accept", from |-> n, crnd |-> m.rnd, cval |-> v] \in Message
      BY <2>3 DEF Message, AcceptMsg
    <3> QED
      BY <2>1, <3>1 DEF TypeOK, Send
  <2> QED
    BY <2>1, <2>2, <2>6, <2>7 DEF TypeOK, acceptorVars, learnerVars
<1>4. ASSUME NEW n \in Nodes, HandleAccept(n)
      PROVE  TypeOK'
  <2>1. PICK m \in msgs : HandleAccept(n)!(m)
    BY <1>4 DEF HandleAccept
  <2>2. m \in AcceptMsg
    BY <2>1 DEF TypeOK, Message, PrepareMsg, PromiseMsg, AcceptMsg, LearnMsg
  <2>3. [vrnd |-> m.crnd, vval |-> m.cval] \in RndVal
    BY <2>2 DEF AcceptMsg, RndVal
  <2>4. [type |-> "Learn", from |-> n, vrnd |-> m.crnd] \in Message
    BY <2>2 DEF Message, LearnMsg, AcceptMsg
  <2>5. learned_rnd_val' \in [Nodes -> RndVal \cup {NoRndVal}]
    <3>1. CASE learned_vrnd[n] # NoRnd
      <4>1. [vrnd |-> learned_vrnd[n], vval |-> m.cval] \in RndVal
        BY <2>2, <3>1 DEF AcceptMsg, RndVal, TypeOK
      <4> QED
        BY <2>1, <4>1 DEF TypeOK, LearnIf
    <3>2. CASE learned_vrnd[n] = NoRnd
      BY <2>1, <3>2 DEF TypeOK, LearnIf
    <3> QED
      BY <3>1, <3>2
  <2> QED
    BY <2>1, <2>2, <2>3, <2>4, <2>5 DEF TypeOK, Send, proposerVars, learnerVars, AcceptMsg
<1>5. ASSUME NEW n \in Nodes, HandleLearn(n)
      PROVE  TypeOK'
  <2>1. PICK m \in msgs : HandleLearn(n)!(m)
    BY <1>5 DEF HandleLearn
  <2>2. m \in LearnMsg
    BY <2>1 DEF TypeOK, Message, PrepareMsg, PromiseMsg, AcceptMsg, LearnMsg
  <2>3. learned' \in [Nodes -> [Rnd -> SUBSET Nodes]]
    BY <2>1, <2>2 DEF TypeOK, LearnMsg
  <2>4. learned_vrnd' \in [Nodes -> Rnd \cup {NoRnd}]
    BY <2>1, <2>2 DEF TypeOK, LearnMsg
  <2>5. learned_rnd_val' \in [Nodes -> RndVal \cup {NoRndVal}]
    <3>1. CASE Cardinality(learned'[n][m.vrnd]) = majority /\ vrnd_vval[n] # NoRndVal
      <4>1. learned_vrnd'[n] \in Rnd
        BY <2>1, <2>2, <3>1 DEF TypeOK, LearnMsg
      <4>2. [vrnd |-> learned_vrnd'[n], vval |-> vrnd_vval[n].vval] \in RndVal
        BY <3>1, <4>1 DEF TypeOK, RndVal
      <4> QED
        BY <2>1, <3>1, <4>2 DEF TypeOK, LearnIf
    <3>2. CASE ~(Cardinality(learned'[n][m.vrnd]) = majority /\ vrnd_vval[n] # NoRndVal)
      BY <2>1, <3>2 DEF TypeOK, LearnIf
    <3> QED
      BY <3>1, <3>2
  <2> QED
    BY <2>1, <2>3, <2>4, <2>5 DEF TypeOK, proposerVars, acceptorVars
<1>6. ASSUME NEW n \in Nodes, HandleInformLearned(n)
      PROVE  TypeOK'
  <2>1. PICK s \in Nodes : HandleInformLearned(n)!(s)
    BY <1>6 DEF HandleInformLearned
  <2>2. [vrnd |-> learned_rnd_val[s].vrnd, vval |-> vrnd_vval[n].vval] \in RndVal
    BY <2>1 DEF TypeOK, RndVal
  <2> QED
    BY <2>1, <2>2 DEF TypeOK, proposerVars, acceptorVars, learnerVars
<1>7. ASSUME NEW n \in Nodes, HandleLogSyncResponse(n)
      PROVE  TypeOK'
  BY <1>7 DEF HandleLogSyncResponse, TypeOK, proposerVars, acceptorVars, learnerVars
<1>8. CASE UNCHANGED vars
  BY <1>8 DEF TypeOK, vars, proposerVars, acceptorVars, learnerVars
<1> QED
  BY <1>1, <1>2, <1>3, <1>4, <1>5, <1>6, <1>7, <1>8 DEF Next
-----------------------------------------------------------------------------
(* The type field tells which kind of message a message is. *)
LEMMA MessageKinds ==
  ASSUME TypeOK, NEW m \in msgs
  PROVE  /\ m.type = "Prepare" => m \in PrepareMsg
         /\ m.type = "Promise" => m \in PromiseMsg
         /\ m.type = "Accept" => m \in AcceptMsg
         /\ m.type = "Learn" => m \in LearnMsg
BY DEF TypeOK, Message, PrepareMsg, PromiseMsg, AcceptMsg, LearnMsg

(* Acceptors(r) is a set of nodes, hence finite. *)
LEMMA AcceptorsFinite ==
  ASSUME NEW r
  PROVE  /\ Acceptors(r) \subseteq Nodes
         /\ IsFiniteSet(Acceptors(r))
         /\ Cardinality(Acceptors(r)) \in Nat
<1>1. Acceptors(r) \subseteq Nodes
  BY DEF Acceptors
<1> QED
  BY <1>1, NodesAssumption, FS_Subset, FS_CardinalityType

(* What every step guarantees to the facts that must not be undone:        *)
(* messages stay sent, promised rounds only grow, and a node never newly   *)
(* accepts in a round below the one it has promised.                       *)
Grows ==
  /\ msgs \subseteq msgs'
  /\ \A a \in Nodes : rnd[a] =< rnd'[a]
  /\ \A a \in Nodes, c \in Rnd :
       a \in Acceptors(c)' /\ a \notin Acceptors(c) => rnd[a] =< c

(* Acceptances, like messages, are never withdrawn. *)
LEMMA AcceptorsGrow ==
  ASSUME msgs \subseteq msgs', NEW r, NEW v
  PROVE  /\ Acceptors(r) \subseteq Acceptors(r)'
         /\ AcceptSent(r, v) => AcceptSent(r, v)'
         /\ Cardinality(Acceptors(r)) >= majority => Cardinality(Acceptors(r)') >= majority
         /\ ChosenAt(r, v) => ChosenAt(r, v)'
<1>1. Acceptors(r) \subseteq Acceptors(r)'
  BY DEF Acceptors
<1>2. AcceptSent(r, v) => AcceptSent(r, v)'
  BY DEF AcceptSent
<1>3. Acceptors(r)' \subseteq Nodes
  BY DEF Acceptors
<1>4. IsFiniteSet(Acceptors(r)') /\ Cardinality(Acceptors(r)') \in Nat
  BY <1>3, NodesAssumption, FS_Subset, FS_CardinalityType
<1>5. Cardinality(Acceptors(r)) =< Cardinality(Acceptors(r)')
  BY <1>1, <1>4, FS_Subset
<1>6. Cardinality(Acceptors(r)) >= majority => Cardinality(Acceptors(r)') >= majority
  BY <1>4, <1>5, AcceptorsFinite, MajorityFact
<1> QED
  BY <1>1, <1>2, <1>6 DEF ChosenAt, majority

(* A value that is safe at a round stays safe there. *)
LEMMA SafeAtStable ==
  ASSUME TypeOK, TypeOK', Grows, NEW r \in Rnd, NEW v, SafeAt(r, v)
  PROVE  SafeAt(r, v)'
<1> SUFFICES ASSUME NEW c \in Rnd, c < r
             PROVE  \E Q \in SUBSET Nodes :
                      /\ Cardinality(Q) >= majority
                      /\ \A a \in Q : \/ a \in Acceptors(c)' /\ AcceptSent(c, v)'
                                      \/ a \notin Acceptors(c)' /\ rnd'[a] > c
  BY DEF SafeAt, majority
<1>1. PICK Q \in SUBSET Nodes :
        /\ Cardinality(Q) >= majority
        /\ \A a \in Q : \/ a \in Acceptors(c) /\ AcceptSent(c, v)
                        \/ a \notin Acceptors(c) /\ rnd[a] > c
  BY DEF SafeAt
<1>2. ASSUME NEW a \in Q
      PROVE  \/ a \in Acceptors(c)' /\ AcceptSent(c, v)'
             \/ a \notin Acceptors(c)' /\ rnd'[a] > c
  <2>1. CASE a \in Acceptors(c) /\ AcceptSent(c, v)
    BY <2>1, AcceptorsGrow DEF Grows
  <2>2. CASE a \notin Acceptors(c) /\ rnd[a] > c
    <3>1. a \in Nodes /\ rnd[a] \in Int /\ rnd'[a] \in Int /\ c \in Int
      BY RndAssumption DEF TypeOK, Rnd
    <3>2. a \notin Acceptors(c)'
      BY <2>2, <3>1 DEF Grows
    <3> QED
      BY <2>2, <3>1, <3>2 DEF Grows
  <2> QED
    BY <1>1, <2>1, <2>2
<1> QED
  BY <1>1, <1>2

(* If a round at or below r is confirmed, the value sent for r is the one  *)
(* chosen in it.                                                           *)
LEMMA ChosenBelow ==
  ASSUME TypeOK, SafeInv, NEW r \in Rnd, NEW k \in Rnd, r =< k, NEW v,
         AcceptSent(k, v), Cardinality(Acceptors(r)) >= majority
  PROVE  ChosenAt(r, v)
<1>1. CASE r = k
  BY <1>1 DEF ChosenAt
<1>2. CASE r < k
  <2>1. SafeAt(k, v)
    BY DEF AcceptSent, SafeInv
  <2>2. PICK Q \in SUBSET Nodes :
          /\ Cardinality(Q) >= majority
          /\ \A a \in Q : \/ a \in Acceptors(r) /\ AcceptSent(r, v)
                          \/ a \notin Acceptors(r) /\ rnd[a] > r
    BY <1>2, <2>1 DEF SafeAt
  <2>3. \E a \in Q : a \in Acceptors(r)
    BY <2>2, MajoritiesMeet, AcceptorsFinite
  <2> QED
    BY <2>2, <2>3 DEF ChosenAt
<1> QED
  BY <1>1, <1>2, RndAssumption DEF Rnd

(* At most one value is chosen, whatever the rounds. *)
LEMMA ChosenUnique ==
  ASSUME TypeOK, SafeInv, OneValuePerRound, NEW r \in Rnd, NEW k \in Rnd,
         NEW v, NEW w, ChosenAt(r, v), ChosenAt(k, w)
  PROVE  v = w
<1>1. ASSUME NEW i \in Rnd, NEW j \in Rnd, i =< j, NEW x, NEW y,
             ChosenAt(i, x), ChosenAt(j, y)
      PROVE  x = y
  <2>1. ChosenAt(i, y)
    BY <1>1, ChosenBelow DEF ChosenAt
  <2> QED
    BY <1>1, <2>1 DEF ChosenAt, AcceptSent, OneValuePerRound
<1>2. r =< k \/ k =< r
  BY RndAssumption DEF Rnd
<1> QED
  BY <1>1, <1>2
-----------------------------------------------------------------------------
(* Old promises keep what they say as long as acceptances grow as allowed. *)
LEMMA PromisesStable ==
  ASSUME TypeOK, PromiseInv, Grows, TypeOK', NEW m \in msgs, m.type = "Promise"
  PROVE  /\ m.rnd =< rnd'[m.from]
         /\ m.vote.vrnd < m.rnd
         /\ m.vote # NoRndVal => m.from \in Acceptors(m.vote.vrnd)'
                                  /\ AcceptSent(m.vote.vrnd, m.vote.vval)'
         /\ \A c \in Rnd : m.vote.vrnd < c /\ c < m.rnd => m.from \notin Acceptors(c)'
<1>1. m \in PromiseMsg
  BY MessageKinds
<1>2. m.from \in Nodes /\ m.rnd \in Int /\ rnd[m.from] \in Int /\ rnd'[m.from] \in Int
  BY <1>1, RndAssumption DEF PromiseMsg, TypeOK, Rnd
<1>3. m.rnd =< rnd'[m.from] /\ m.vote.vrnd < m.rnd
  BY <1>2 DEF PromiseInv, Grows
<1>4. m.vote # NoRndVal => m.from \in Acceptors(m.vote.vrnd)'
                           /\ AcceptSent(m.vote.vrnd, m.vote.vval)'
  BY AcceptorsGrow DEF PromiseInv, Grows
<1>5. ASSUME NEW c \in Rnd, m.vote.vrnd < c, c < m.rnd
      PROVE  m.from \notin Acceptors(c)'
  <2>1. m.from \notin Acceptors(c) /\ c \in Int
    BY <1>5, RndAssumption DEF PromiseInv, Rnd
  <2> QED
    BY <1>2, <1>5, <2>1 DEF PromiseInv, Grows
<1> QED
  BY <1>3, <1>4, <1>5

(* propose_next_index sends a Prepare and forgets the promises counted for *)
(* the round it draws.                                                     *)
LEMMA ProposeStep ==
  ASSUME IndInv, TypeOK', NEW n \in Nodes, propose_next_index(n)
  PROVE  IndInv'
<1> USE DEF IndInv
<1>1. PICK r \in Rnd : propose_next_index(n)!(r)
  BY DEF propose_next_index
<1> DEFINE p == [type |-> "Prepare", from |-> n, crnd |-> r]
<1>2. /\ msgs' = msgs \cup {p}
      /\ p.type = "Prepare"
      /\ UNCHANGED <<delivered, rnd, vrnd_vval, learned, learned_vrnd, learned_rnd_val>>
  BY <1>1 DEF Send, acceptorVars, learnerVars
<1>3. /\ \A c : Acceptors(c)' = Acceptors(c)
      /\ \A c, v : AcceptSent(c, v)' = AcceptSent(c, v)
  BY <1>2 DEF Acceptors, AcceptSent
<1>4. Grows
  BY <1>2, <1>3, RndAssumption DEF Grows, TypeOK, Rnd
<1>5. /\ proposals'[n][r] = [cval |-> Entry[n], promises |-> {}]
      /\ \A q \in Nodes, c \in Rnd : q # n \/ c # r => proposals'[q][c] = proposals[q][c]
  BY <1>1 DEF TypeOK
<1>6. PrepareInv'
  <2>1. ASSUME NEW m \in msgs'
        PROVE  /\ m.type = "Prepare" => proposals'[m.from][m.crnd].cval \in Values
               /\ m.type = "Promise" => proposals'[m.to][m.rnd].cval \in Values
    <3>1. Entry[n] \in Values
      BY ValuesAssumption
    <3>2. CASE m \in msgs
      BY <1>5, <3>1, <3>2, MessageKinds DEF PrepareInv, PrepareMsg, PromiseMsg
    <3>3. CASE m = p
      BY <1>5, <3>1, <3>3
    <3> QED
      BY <1>2, <3>2, <3>3
  <2> QED
    BY <2>1 DEF PrepareInv
<1>7. PromiseInv'
  BY <1>2, <1>4, PromisesStable DEF PromiseInv
<1>8. AcceptorInv'
  BY <1>2, <1>3 DEF AcceptorInv
<1>9. ProposalInv'
  BY <1>2, <1>5 DEF ProposalInv
<1>10. BackedInv'
  <2> SUFFICES ASSUME NEW m \in msgs, m.type = "Accept"
               PROVE  \E S \in SUBSET delivered :
                        /\ \A o \in S : o.to = m.from /\ o.rnd = m.crnd
                        /\ Cardinality(Senders(S)) >= majority
                        /\ \/ S \subseteq proposals'[m.from][m.crnd].promises
                           \/ S \cap proposals'[m.from][m.crnd].promises = {}
    BY <1>2 DEF BackedInv, Senders, majority
  <2>1. PICK S \in SUBSET delivered :
          /\ \A o \in S : o.to = m.from /\ o.rnd = m.crnd
          /\ Cardinality(Senders(S)) >= majority
          /\ \/ S \subseteq proposals[m.from][m.crnd].promises
             \/ S \cap proposals[m.from][m.crnd].promises = {}
    BY DEF BackedInv
  <2>2. m.from \in Nodes /\ m.crnd \in Rnd
    BY MessageKinds DEF AcceptMsg
  <2>3. CASE m.from = n /\ m.crnd = r
    <3>1. S \cap proposals'[m.from][m.crnd].promises = {}
      BY <1>5, <2>3
    <3> QED
      BY <2>1, <3>1
  <2>4. CASE m.from # n \/ m.crnd # r
    <3>1. proposals'[m.from][m.crnd] = proposals[m.from][m.crnd]
      BY <1>5, <2>2, <2>4
    <3> QED
      BY <2>1, <3>1
  <2> QED
    BY <2>3, <2>4
<1>11. OneValuePerRound'
  BY <1>2 DEF OneValuePerRound
<1>12. SafeInv'
  BY <1>2, <1>4, SafeAtStable, MessageKinds DEF SafeInv, AcceptMsg
<1>13. LearnerInv'
  BY <1>2, <1>3 DEF LearnerInv, majority
<1>14. LearnedIsChosen'
  BY <1>2, <1>3 DEF LearnedIsChosen, ChosenAt, majority
<1> QED
  BY <1>6, <1>7, <1>8, <1>9, <1>10, <1>11, <1>12, <1>13, <1>14

(* HandlePrepare raises the promised round and reports the vote. *)
LEMMA PrepareStep ==
  ASSUME IndInv, TypeOK', NEW n \in Nodes, HandlePrepare(n)
  PROVE  IndInv'
<1> USE DEF IndInv
<1>1. PICK q \in msgs : HandlePrepare(n)!(q)
  BY DEF HandlePrepare
<1> DEFINE p == [type |-> "Promise", from |-> n, to |-> q.from,
                 rnd |-> q.crnd, vote |-> vrnd_vval[n]]
<1>2. /\ msgs' = msgs \cup {p}
      /\ p.type = "Promise" /\ p.from = n /\ p.to = q.from
      /\ p.rnd = q.crnd /\ p.vote = vrnd_vval[n]
      /\ UNCHANGED <<delivered, latest_crnd, proposals, vrnd_vval, learned,
                     learned_vrnd, learned_rnd_val>>
  BY <1>1 DEF Send, proposerVars, learnerVars
<1>3. /\ q \in PrepareMsg
      /\ q.crnd \in Rnd /\ q.crnd \in Int
      /\ \A a \in Nodes : rnd[a] \in Int
      /\ rnd[n] < q.crnd
      /\ rnd' = [rnd EXCEPT ![n] = q.crnd]
  BY <1>1, MessageKinds, RndAssumption DEF PrepareMsg, TypeOK, Rnd
<1>4. /\ \A c : Acceptors(c)' = Acceptors(c)
      /\ \A c, v : AcceptSent(c, v)' = AcceptSent(c, v)
  BY <1>2 DEF Acceptors, AcceptSent
<1>5. Grows
  BY <1>2, <1>3, <1>4 DEF Grows, TypeOK
<1>6. PrepareInv'
  BY <1>1, <1>2 DEF PrepareInv
<1>7. PromiseInv'
  <2>1. ASSUME NEW m \in msgs', m = p
        PROVE  /\ m.rnd =< rnd'[m.from]
               /\ m.vote.vrnd < m.rnd
               /\ m.vote # NoRndVal => m.from \in Acceptors(m.vote.vrnd)'
                                        /\ AcceptSent(m.vote.vrnd, m.vote.vval)'
               /\ \A c \in Rnd : m.vote.vrnd < c /\ c < m.rnd => m.from \notin Acceptors(c)'
    <3>1. m.from = n /\ m.rnd = q.crnd /\ m.vote = vrnd_vval[n]
      BY <2>1
    <3>2. m.vote.vrnd \in Int
      BY <3>1, RndAssumption DEF TypeOK, RndVal, NoRndVal, NoRnd, Rnd
    <3>3. m.rnd =< rnd'[m.from] /\ m.vote.vrnd < m.rnd
      BY <1>3, <3>1, <3>2 DEF AcceptorInv, TypeOK
    <3>4. m.vote # NoRndVal => m.from \in Acceptors(m.vote.vrnd)'
                               /\ AcceptSent(m.vote.vrnd, m.vote.vval)'
      BY <1>4, <3>1 DEF AcceptorInv
    <3>5. \A c \in Rnd : m.vote.vrnd < c => m.from \notin Acceptors(c)'
      BY <1>4, <3>1, <3>2, RndAssumption DEF AcceptorInv, Rnd
    <3> QED
      BY <3>3, <3>4, <3>5
  <2>2. ASSUME NEW o \in msgs, o.type = "Promise", o.from = n
        PROVE  o.rnd # p.rnd
    BY <1>2, <1>3, <2>2, MessageKinds, RndAssumption DEF PromiseInv, PromiseMsg, Rnd
  <2>3. ASSUME NEW m \in msgs', NEW o \in msgs', m.type = "Promise", o.type = "Promise",
               o.from = m.from, o.rnd = m.rnd
        PROVE  o = m
    BY <1>2, <2>2, <2>3 DEF PromiseInv
  <2>4. ASSUME NEW m \in msgs', m.type = "Promise"
        PROVE  /\ m.rnd =< rnd'[m.from]
               /\ m.vote.vrnd < m.rnd
               /\ m.vote # NoRndVal => m.from \in Acceptors(m.vote.vrnd)'
                                        /\ AcceptSent(m.vote.vrnd, m.vote.vval)'
               /\ \A c \in Rnd : m.vote.vrnd < c /\ c < m.rnd => m.from \notin Acceptors(c)'
    <3>1. CASE m \in msgs
      BY <1>5, <2>4, <3>1, PromisesStable
    <3> QED
      BY <1>2, <2>1, <3>1
  <2> QED
    BY <2>3, <2>4 DEF PromiseInv
<1>8. AcceptorInv'
  <2>1. ASSUME NEW a \in Nodes
        PROVE  vrnd_vval[a].vrnd =< rnd'[a]
    <3>1. vrnd_vval[a].vrnd \in Int
      BY RndAssumption DEF TypeOK, RndVal, NoRndVal, NoRnd, Rnd
    <3> QED
      BY <1>3, <3>1 DEF AcceptorInv, TypeOK
  <2> QED
    BY <1>2, <1>4, <2>1 DEF AcceptorInv
<1>9. ProposalInv'
  BY <1>2 DEF ProposalInv
<1>10. BackedInv'
  BY <1>2 DEF BackedInv, Senders, majority
<1>11. OneValuePerRound'
  BY <1>2 DEF OneValuePerRound
<1>12. SafeInv'
  BY <1>2, <1>5, SafeAtStable, MessageKinds DEF SafeInv, AcceptMsg
<1>13. LearnerInv'
  BY <1>2, <1>4 DEF LearnerInv, majority
<1>14. LearnedIsChosen'
  BY <1>2, <1>4 DEF LearnedIsChosen, ChosenAt, majority
<1> QED
  BY <1>6, <1>7, <1>8, <1>9, <1>10, <1>11, <1>12, <1>13, <1>14

(* HandlePromise counts a promise and, at the majority, sends an Accept:   *)
(* the one step at which a round gets its value.                           *)
LEMMA PromiseStep ==
  ASSUME IndInv, TypeOK', NEW n \in Nodes, HandlePromise(n)
  PROVE  IndInv'
<1> USE DEF IndInv
<1>1. PICK m \in msgs \ delivered : HandlePromise(n)!(m)
  BY DEF HandlePromise
<1>2. m \in PromiseMsg /\ m.type = "Promise" /\ m.to = n
  BY <1>1, MessageKinds
<1> DEFINE r == m.rnd
           P == proposals[n][r].promises
           P1 == P \cup {m}
<1>3. r \in Rnd /\ m.from \in Nodes
  BY <1>2 DEF PromiseMsg
<1>4. /\ delivered' = delivered \cup {m}
      /\ UNCHANGED <<latest_crnd, rnd, vrnd_vval, learned, learned_vrnd, learned_rnd_val>>
  BY <1>1 DEF acceptorVars, learnerVars
<1>5. /\ proposals'[n][r].cval = proposals[n][r].cval
      /\ proposals'[n][r].promises = P1
      /\ \A q \in Nodes, c \in Rnd : q # n \/ c # r => proposals'[q][c] = proposals[q][c]
  BY <1>1, <1>3 DEF TypeOK
<1>6. /\ P1 \subseteq msgs
      /\ \A o \in P1 : o \in PromiseMsg /\ o.type = "Promise" /\ o.to = n /\ o.rnd = r
      /\ m \notin P
  <2>1. P \subseteq PromiseMsg
    <3>1. proposals[n][r] \in Proposal \cup {NoProposal}
      BY <1>3 DEF TypeOK
    <3>2. NoProposal.promises = {}
      BY DEF NoProposal
    <3> QED
      BY <3>1, <3>2 DEF Proposal
  <2> QED
    BY <1>1, <1>2, <1>3, <2>1 DEF ProposalInv, PromiseMsg
<1>7. \/ /\ Cardinality(Senders(P1)) = majority
         /\ \E v \in Values :
              /\ ChooseCval(P1, proposals[n][r].cval, v)
              /\ msgs' = msgs \cup {[type |-> "Accept", from |-> n, crnd |-> r, cval |-> v]}
      \/ msgs' = msgs
  BY <1>1, <1>5 DEF Send
<1>8. \A c : Acceptors(c)' = Acceptors(c)
  BY <1>7 DEF Acceptors
<1>9. msgs \subseteq msgs' /\ Grows
  BY <1>4, <1>7, <1>8, RndAssumption DEF Grows, TypeOK, Rnd
<1>10. \A o \in msgs' : o.type # "Accept" => o \in msgs
  BY <1>7
<1>11. PrepareInv'
  <2>1. ASSUME NEW o \in msgs
        PROVE  /\ o.type = "Prepare" => proposals'[o.from][o.crnd].cval \in Values
               /\ o.type = "Promise" => proposals'[o.to][o.rnd].cval \in Values
    BY <1>5, MessageKinds DEF PrepareInv, PrepareMsg, PromiseMsg
  <2> QED
    BY <1>10, <2>1 DEF PrepareInv
<1>12. PromiseInv'
  BY <1>9, <1>10, PromisesStable DEF PromiseInv
<1>13. AcceptorInv'
  BY <1>4, <1>8, <1>9, AcceptorsGrow DEF AcceptorInv
<1>14. ProposalInv'
  BY <1>1, <1>4, <1>5, <1>6, <1>9 DEF ProposalInv
<1>15. ASSUME NEW a \in msgs, a.type = "Accept"
       PROVE  \E S \in SUBSET delivered' :
                /\ \A o \in S : o.to = a.from /\ o.rnd = a.crnd
                /\ Cardinality(Senders(S)) >= majority
                /\ \/ S \subseteq proposals'[a.from][a.crnd].promises
                   \/ S \cap proposals'[a.from][a.crnd].promises = {}
  <2>1. PICK S \in SUBSET delivered :
          /\ \A o \in S : o.to = a.from /\ o.rnd = a.crnd
          /\ Cardinality(Senders(S)) >= majority
          /\ \/ S \subseteq proposals[a.from][a.crnd].promises
             \/ S \cap proposals[a.from][a.crnd].promises = {}
    BY <1>15 DEF BackedInv
  <2>2. a.from \in Nodes /\ a.crnd \in Rnd
    BY <1>15, MessageKinds DEF AcceptMsg
  <2>3. m \notin S
    BY <1>1
  <2>4. \/ S \subseteq proposals'[a.from][a.crnd].promises
        \/ S \cap proposals'[a.from][a.crnd].promises = {}
    BY <1>5, <2>1, <2>2, <2>3
  <2> QED
    BY <1>4, <2>1, <2>4
<1>16. CASE msgs' = msgs
  <2>1. BackedInv'
    BY <1>15, <1>16 DEF BackedInv, Senders, majority
  <2>2. OneValuePerRound'
    BY <1>16 DEF OneValuePerRound
  <2>3. SafeInv'
    BY <1>9, <1>16, SafeAtStable, MessageKinds DEF SafeInv, AcceptMsg
  <2>4. LearnerInv' /\ LearnedIsChosen'
    BY <1>4, <1>16 DEF LearnerInv, LearnedIsChosen, ChosenAt, AcceptSent, Acceptors, majority
  <2> QED
    BY <1>11, <1>12, <1>13, <1>14, <2>1, <2>2, <2>3, <2>4
<1>17. ASSUME Cardinality(Senders(P1)) = majority,
              NEW v \in Values, ChooseCval(P1, proposals[n][r].cval, v),
              msgs' = msgs \cup {[type |-> "Accept", from |-> n, crnd |-> r, cval |-> v]}
       PROVE  IndInv'
  <2>1. Senders(P1) \subseteq Nodes
    BY <1>6 DEF Senders, PromiseMsg
  <2>2. \A o \in P1, u \in msgs :
          u.type = "Promise" /\ u.from = o.from /\ u.rnd = r => u = o
    BY <1>6 DEF PromiseInv
  <2>3. ASSUME NEW a \in msgs, a.type = "Accept"
        PROVE  a.crnd # r
    <3> SUFFICES ASSUME a.crnd = r
                 PROVE  FALSE
      OBVIOUS
    <3>1. PICK S \in SUBSET delivered :
            /\ \A o \in S : o.to = a.from /\ o.rnd = r
            /\ Cardinality(Senders(S)) >= majority
            /\ \/ S \subseteq proposals[a.from][r].promises
               \/ S \cap proposals[a.from][r].promises = {}
      BY <2>3 DEF BackedInv
    <3>2. \A o \in S : o \in msgs /\ o \in PromiseMsg /\ o.type = "Promise"
      BY DEF TypeOK, ProposalInv, PromiseMsg
    <3>3. Senders(S) \subseteq Nodes
      BY <3>2 DEF Senders, PromiseMsg
    <3>4. Cardinality(Senders(P1)) >= majority
      BY <1>17, MajorityFact
    <3>5. PICK s \in Senders(S) : s \in Senders(P1)
      BY <2>1, <3>1, <3>3, <3>4, MajoritiesMeet
    <3>6. PICK o \in S : o.from = s
      BY <3>5 DEF Senders
    <3>7. PICK u \in P1 : u.from = s
      BY <3>5 DEF Senders
    <3>8. o = u
      BY <2>2, <3>1, <3>2, <3>6, <3>7
    <3>9. a.from = n /\ o \in P
      BY <1>1, <1>6, <3>1, <3>8
    <3>10. S \subseteq P
      BY <3>1, <3>9
    <3>11. Senders(S) \subseteq Senders(P) /\ Senders(P) \subseteq Nodes
      BY <1>6, <3>10 DEF Senders, PromiseMsg
    <3>12. m.from \notin Senders(P)
      BY <1>2, <1>6, <2>2 DEF Senders
    <3>13. Senders(P1) = Senders(P) \cup {m.from}
      BY DEF Senders
    <3>14. /\ IsFiniteSet(Senders(P))
           /\ Cardinality(Senders(P)) \in Nat
           /\ Cardinality(Senders(S)) \in Nat
           /\ Cardinality(Senders(S)) =< Cardinality(Senders(P))
      BY <3>3, <3>11, NodesAssumption, FS_Subset, FS_CardinalityType
    <3>15. Cardinality(Senders(P1)) = Cardinality(Senders(P)) + 1
      BY <3>12, <3>13, <3>14, FS_AddElement
    <3> QED
      BY <1>17, <3>1, <3>14, <3>15, MajorityFact
  <2> DEFINE new == [type |-> "Accept", from |-> n, crnd |-> r, cval |-> v]
  <2>4. OneValuePerRound'
    BY <1>17, <2>3 DEF OneValuePerRound
  <2>5. BackedInv'
    <3>1. ASSUME NEW a \in msgs', a = new
          PROVE  \E S \in SUBSET delivered' :
                   /\ \A o \in S : o.to = a.from /\ o.rnd = a.crnd
                   /\ Cardinality(Senders(S)) >= majority
                   /\ \/ S \subseteq proposals'[a.from][a.crnd].promises
                      \/ S \cap proposals'[a.from][a.crnd].promises = {}
      <4>1. P1 \subseteq delivered'
        BY <1>3, <1>4 DEF ProposalInv
      <4>2. Cardinality(Senders(P1)) >= majority
        BY <1>17, MajorityFact
      <4>3. a.from = n /\ a.crnd = r
        BY <3>1
      <4> QED
        BY <1>5, <1>6, <4>1, <4>2, <4>3
    <3> QED
      BY <1>15, <1>17, <3>1 DEF BackedInv, Senders, majority
  <2>6. SafeAt(r, v)
    <3> SUFFICES ASSUME NEW c \in Rnd, c < r
                 PROVE  \E Q \in SUBSET Nodes :
                          /\ Cardinality(Q) >= majority
                          /\ \A a \in Q : \/ a \in Acceptors(c) /\ AcceptSent(c, v)
                                          \/ a \notin Acceptors(c) /\ rnd[a] > c
      BY DEF SafeAt
    <3>1. c \in Int /\ r \in Int /\ Cardinality(Senders(P1)) >= majority
      BY <1>3, <1>17, MajorityFact, RndAssumption DEF Rnd
    <3>2. ASSUME NEW a \in Senders(P1)
          PROVE  rnd[a] > c
      BY <1>6, <2>1, <3>1, RndAssumption DEF PromiseInv, Senders, TypeOK, Rnd
    <3>3. \A o \in P1 : o.vote.vrnd \in Int
      BY <1>6, RndAssumption DEF PromiseMsg, RndVal, NoRndVal, NoRnd, Rnd
    <3>4. CASE \A o \in P1 : o.vote = NoRndVal
      <4>1. c > NoRnd
        BY RndAssumption DEF Rnd, NoRnd
      <4>2. \A a \in Senders(P1) : a \notin Acceptors(c)
        BY <1>6, <3>4, <4>1 DEF PromiseInv, Senders, NoRndVal
      <4> QED
        BY <2>1, <3>1, <3>2, <4>2
    <3>5. CASE \E o \in P1 :
                 /\ o.vote # NoRndVal
                 /\ \A u \in P1 : u.vote.vrnd =< o.vote.vrnd
                 /\ v = o.vote.vval
      <4>1. PICK o \in P1 :
              /\ o.vote # NoRndVal
              /\ \A u \in P1 : u.vote.vrnd =< o.vote.vrnd
              /\ v = o.vote.vval
        BY <3>5
      <4> DEFINE k == o.vote.vrnd
      <4>2. k \in Rnd /\ k \in Int /\ AcceptSent(k, v)
        BY <1>6, <3>3, <4>1 DEF PromiseInv, PromiseMsg, RndVal
      <4>3. CASE c < k
        <5>1. SafeAt(k, v)
          BY <4>2 DEF SafeInv, AcceptSent
        <5> QED
          BY <4>3, <5>1 DEF SafeAt
      <4>4. CASE c = k
        BY <2>1, <3>1, <3>2, <4>2, <4>4
      <4>5. CASE c > k
        <5>1. \A u \in P1 : u.vote.vrnd < c
          BY <3>1, <3>3, <4>1, <4>2, <4>5
        <5>2. \A a \in Senders(P1) : a \notin Acceptors(c)
          BY <1>6, <5>1 DEF PromiseInv, Senders
        <5> QED
          BY <2>1, <3>1, <3>2, <5>2
      <4> QED
        BY <3>1, <4>2, <4>3, <4>4, <4>5
    <3> QED
      BY <1>17, <3>4, <3>5 DEF ChooseCval
  <2>7. SafeInv'
    <3>1. \A a \in msgs : a.type = "Accept" => SafeAt(a.crnd, a.cval)'
      BY <1>9, SafeAtStable, MessageKinds DEF SafeInv, AcceptMsg
    <3>2. ASSUME NEW a \in msgs', a = new
          PROVE  SafeAt(a.crnd, a.cval)'
      <4>1. a.crnd = r /\ a.cval = v
        BY <3>2
      <4>2. SafeAt(a.crnd, a.cval)
        BY <2>6, <4>1
      <4> QED
        BY <1>3, <1>9, <4>1, <4>2, SafeAtStable
    <3> QED
      BY <1>17, <3>1, <3>2 DEF SafeInv
  <2>8. LearnerInv' /\ LearnedIsChosen'
    BY <1>4, <1>8, <1>9, AcceptorsGrow DEF LearnerInv, LearnedIsChosen, majority
  <2> QED
    BY <1>11, <1>12, <1>13, <1>14, <2>4, <2>5, <2>7, <2>8
<1> QED
  BY <1>7, <1>16, <1>17

(* HandleAccept moves the vote of the node up to the round of the Accept,  *)
(* and may let it learn the value under a round confirmed earlier.         *)
LEMMA AcceptStep ==
  ASSUME IndInv, TypeOK', NEW n \in Nodes, HandleAccept(n)
  PROVE  IndInv'
<1> USE DEF IndInv
<1>1. PICK m \in msgs : HandleAccept(n)!(m)
  BY DEF HandleAccept
<1>2. /\ m \in AcceptMsg
      /\ m.crnd \in Rnd /\ m.crnd \in Int /\ m.cval \in Values
      /\ \A a \in Nodes : rnd[a] \in Int /\ vrnd_vval[a].vrnd \in Int
      /\ rnd[n] =< m.crnd
  <2>1. m \in AcceptMsg
    BY <1>1, MessageKinds
  <2>2. m.crnd \in Rnd /\ m.crnd \in Int /\ m.cval \in Values
    BY <2>1, RndAssumption DEF AcceptMsg, Rnd
  <2>3. \A a \in Nodes : rnd[a] \in Int /\ vrnd_vval[a].vrnd \in Int
    BY RndAssumption DEF TypeOK, RndVal, NoRndVal, NoRnd, Rnd
  <2> QED
    BY <1>1, <2>1, <2>2, <2>3
<1> DEFINE new == [type |-> "Learn", from |-> n, vrnd |-> m.crnd]
<1>3. /\ msgs' = msgs \cup {new}
      /\ new.type = "Learn"
      /\ rnd' = [rnd EXCEPT ![n] = m.crnd]
      /\ vrnd_vval' = [vrnd_vval EXCEPT ![n] = [vrnd |-> m.crnd, vval |-> m.cval]]
      /\ UNCHANGED <<delivered, latest_crnd, proposals, learned, learned_vrnd>>
  BY <1>1 DEF Send, proposerVars, learnerVars
<1>4. AcceptSent(m.crnd, m.cval)
  BY <1>1, <1>2 DEF AcceptSent, AcceptMsg
<1>5. /\ \A c, v : AcceptSent(c, v)' = AcceptSent(c, v)
      /\ \A c : Acceptors(c) \subseteq Acceptors(c)'
      /\ \A c, a : a \in Acceptors(c)' /\ a \notin Acceptors(c) => a = n /\ c = m.crnd
      /\ n \in Acceptors(m.crnd)'
  BY <1>3 DEF AcceptSent, Acceptors
<1>6. Grows
  BY <1>2, <1>3, <1>5 DEF Grows, TypeOK
<1>7. PrepareInv'
  BY <1>3 DEF PrepareInv
<1>8. PromiseInv'
  BY <1>3, <1>6, PromisesStable DEF PromiseInv
<1>9. AcceptorInv'
  <2>1. ASSUME NEW a \in Nodes, a # n
        PROVE  /\ vrnd_vval'[a].vrnd =< rnd'[a]
               /\ vrnd_vval'[a] # NoRndVal =>
                    a \in Acceptors(vrnd_vval[a].vrnd)'
                    /\ AcceptSent(vrnd_vval[a].vrnd, vrnd_vval[a].vval)'
               /\ \A c \in Rnd : a \in Acceptors(c)' => c =< vrnd_vval'[a].vrnd
    <3>1. vrnd_vval'[a] = vrnd_vval[a] /\ rnd'[a] = rnd[a]
      BY <1>3, <2>1 DEF TypeOK
    <3>2. PICK w : w = vrnd_vval[a]
      OBVIOUS
    <3>3. w # NoRndVal => a \in Acceptors(w.vrnd)' /\ AcceptSent(w.vrnd, w.vval)'
      BY <1>5, <3>2 DEF AcceptorInv
    <3> QED
      BY <1>5, <2>1, <3>1, <3>2, <3>3 DEF AcceptorInv
  <2>2. /\ vrnd_vval'[n] = [vrnd |-> m.crnd, vval |-> m.cval]
        /\ rnd'[n] = m.crnd
    BY <1>3 DEF TypeOK
  <2>3. \A c \in Rnd : n \in Acceptors(c)' => c =< m.crnd
    BY <1>2, <1>5, RndAssumption DEF AcceptorInv, Rnd
  <2>4. n \in Acceptors(m.crnd)' /\ AcceptSent(m.crnd, m.cval)'
    BY <1>4, <1>5
  <2> QED
    BY <1>2, <2>1, <2>2, <2>3, <2>4 DEF AcceptorInv
<1>10. ProposalInv'
  BY <1>3 DEF ProposalInv
<1>11. BackedInv'
  BY <1>3 DEF BackedInv, Senders, majority
<1>12. OneValuePerRound'
  BY <1>3 DEF OneValuePerRound
<1>13. SafeInv'
  BY <1>3, <1>6, SafeAtStable, MessageKinds DEF SafeInv, AcceptMsg
<1>14. LearnerInv'
  <2>1. ASSUME NEW a \in Nodes, learned_vrnd[a] # NoRnd
        PROVE  Cardinality(Acceptors(learned_vrnd[a])') >= majority
    <3>1. PICK c : c = learned_vrnd[a]
      OBVIOUS
    <3>2. Cardinality(Acceptors(c)) >= majority
      BY <2>1, <3>1 DEF LearnerInv
    <3>3. Cardinality(Acceptors(c)') >= majority
      BY <1>3, <3>2, AcceptorsGrow
    <3> QED
      BY <1>3, <3>1, <3>3
  <2>2. \A a \in Nodes, c \in Rnd : learned[a][c] \subseteq Acceptors(c)'
    BY <1>5 DEF LearnerInv
  <2> QED
    BY <1>3, <2>1, <2>2 DEF LearnerInv, majority
<1>15. LearnedIsChosen'
  <2>1. ASSUME NEW a \in Nodes, NEW c, NEW v, learned_rnd_val'[a] # NoRndVal,
               c = learned_rnd_val'[a].vrnd, v = learned_rnd_val'[a].vval
        PROVE  ChosenAt(c, v)'
    <3>1. CASE learned_rnd_val'[a] = learned_rnd_val[a]
      <4>1. ChosenAt(c, v)
        BY <2>1, <3>1 DEF LearnedIsChosen
      <4> QED
        BY <1>3, <4>1, AcceptorsGrow
    <3>2. CASE learned_rnd_val'[a] # learned_rnd_val[a]
      <4>1. /\ learned_vrnd[n] # NoRnd /\ learned_vrnd[n] =< m.crnd
            /\ c = learned_vrnd[n] /\ v = m.cval
        BY <1>1, <2>1, <3>2 DEF LearnIf, TypeOK
      <4>2. c \in Rnd /\ Cardinality(Acceptors(c)) >= majority
        BY <4>1 DEF LearnerInv, TypeOK
      <4>3. ChosenAt(c, v)
        BY <1>2, <1>4, <4>1, <4>2, ChosenBelow
      <4> QED
        BY <1>3, <4>3, AcceptorsGrow
    <3> QED
      BY <3>1, <3>2
  <2> QED
    BY <2>1 DEF LearnedIsChosen
<1> QED
  BY <1>7, <1>8, <1>9, <1>10, <1>11, <1>12, <1>13, <1>14, <1>15

(* The steps that send nothing leave all but the learner's part alone. *)
LEMMA SilentStep ==
  ASSUME IndInv, TypeOK', LearnerInv', LearnedIsChosen',
         UNCHANGED <<msgs, delivered, proposals, rnd, vrnd_vval>>
  PROVE  IndInv'
<1>1. /\ \A c : Acceptors(c)' = Acceptors(c)
      /\ \A c, v : AcceptSent(c, v)' = AcceptSent(c, v)
  BY DEF Acceptors, AcceptSent
<1>2. PrepareInv' /\ ProposalInv' /\ OneValuePerRound'
  BY DEF IndInv, PrepareInv, ProposalInv, OneValuePerRound
<1>3. PromiseInv' /\ AcceptorInv'
  BY <1>1 DEF IndInv, PromiseInv, AcceptorInv
<1>4. BackedInv'
  BY DEF IndInv, BackedInv, Senders, majority
<1>5. SafeInv'
  BY <1>1 DEF IndInv, SafeInv, SafeAt, majority
<1> QED
  BY <1>2, <1>3, <1>4, <1>5 DEF IndInv

(* HandleLearn confirms a round when it counts the majority-th Learn. *)
LEMMA LearnStep ==
  ASSUME IndInv, TypeOK', NEW n \in Nodes, HandleLearn(n)
  PROVE  IndInv'
<1>1. PICK m \in msgs : HandleLearn(n)!(m)
  BY DEF HandleLearn
<1>2. m \in LearnMsg /\ m.vrnd \in Rnd /\ m.from \in Acceptors(m.vrnd)
  <2>1. m \in LearnMsg
    BY <1>1, MessageKinds DEF IndInv
  <2>2. m = [type |-> "Learn", from |-> m.from, vrnd |-> m.vrnd]
    BY <2>1 DEF LearnMsg
  <2> QED
    BY <2>1, <2>2 DEF LearnMsg, Acceptors
<1>3. /\ UNCHANGED <<msgs, delivered, latest_crnd, proposals, rnd, vrnd_vval>>
      /\ \A c : Acceptors(c)' = Acceptors(c)
      /\ \A c, v : ChosenAt(c, v)' = ChosenAt(c, v)
  BY <1>1 DEF proposerVars, acceptorVars, Acceptors, AcceptSent, ChosenAt, majority
<1>4. \A a \in Nodes, c \in Rnd : learned'[a][c] \subseteq Acceptors(c)
  BY <1>1, <1>2 DEF IndInv, LearnerInv, TypeOK
<1>5. ASSUME NEW a \in Nodes, learned_vrnd'[a] # NoRnd
      PROVE  Cardinality(Acceptors(learned_vrnd'[a])) >= majority
  <2>1. CASE learned_vrnd'[a] = learned_vrnd[a]
    BY <1>5, <2>1 DEF IndInv, LearnerInv
  <2>2. CASE learned_vrnd'[a] # learned_vrnd[a]
    <3>1. learned_vrnd'[a] = m.vrnd /\ Cardinality(learned'[n][m.vrnd]) = majority
      BY <1>1, <2>2 DEF IndInv, TypeOK
    <3>2. Cardinality(learned'[n][m.vrnd]) =< Cardinality(Acceptors(m.vrnd))
      BY <1>2, <1>4, AcceptorsFinite, FS_Subset
    <3> QED
      BY <3>1, <3>2, AcceptorsFinite, MajorityFact
  <2> QED
    BY <2>1, <2>2
<1>6. LearnerInv'
  BY <1>3, <1>4, <1>5 DEF LearnerInv, majority
<1>7. LearnedIsChosen'
  <2>1. ASSUME NEW a \in Nodes, NEW c, NEW v, learned_rnd_val'[a] # NoRndVal,
               c = learned_rnd_val'[a].vrnd, v = learned_rnd_val'[a].vval
        PROVE  ChosenAt(c, v)
    <3>1. CASE learned_rnd_val'[a] = learned_rnd_val[a]
      BY <2>1, <3>1 DEF IndInv, LearnedIsChosen
    <3>2. CASE learned_rnd_val'[a] # learned_rnd_val[a]
      <4>1. /\ Cardinality(learned'[n][m.vrnd]) = majority
            /\ vrnd_vval[n] # NoRndVal /\ learned_vrnd'[n] =< vrnd_vval[n].vrnd
            /\ c = learned_vrnd'[n] /\ v = vrnd_vval[n].vval
        BY <1>1, <2>1, <3>2 DEF LearnIf, IndInv, TypeOK
      <4>2. c \in Rnd /\ c # NoRnd
        BY <1>1, <1>2, <4>1, RndAssumption DEF IndInv, TypeOK, NoRnd, Rnd
      <4>3. Cardinality(Acceptors(c)) >= majority
        BY <1>5, <4>1, <4>2
      <4>4. vrnd_vval[n].vrnd \in Rnd /\ AcceptSent(vrnd_vval[n].vrnd, v)
        BY <4>1 DEF IndInv, AcceptorInv, TypeOK, RndVal
      <4> QED
        BY <4>1, <4>2, <4>3, <4>4, ChosenBelow DEF IndInv
    <3> QED
      BY <3>1, <3>2
  <2> QED
    BY <1>3, <2>1 DEF LearnedIsChosen
<1> QED
  BY <1>3, <1>6, <1>7, SilentStep

(* InformLearned and LogSyncResponse spread a value that is chosen. *)
LEMMA SpreadStep ==
  ASSUME IndInv, TypeOK', NEW n \in Nodes,
         HandleInformLearned(n) \/ HandleLogSyncResponse(n)
  PROVE  IndInv'
<1>1. UNCHANGED <<msgs, delivered, proposals, rnd, vrnd_vval, learned, learned_vrnd>>
  BY DEF HandleInformLearned, HandleLogSyncResponse, proposerVars, acceptorVars, learnerVars
<1>2. /\ \A c : Acceptors(c)' = Acceptors(c)
      /\ \A c, v : ChosenAt(c, v)' = ChosenAt(c, v)
  BY <1>1 DEF Acceptors, AcceptSent, ChosenAt, majority
<1>3. LearnerInv'
  BY <1>1, <1>2 DEF IndInv, LearnerInv, majority
<1>4. PICK s \in Nodes :
        /\ learned_rnd_val[s] # NoRndVal
        /\ \/ /\ vrnd_vval[n] # NoRndVal
              /\ learned_rnd_val[s].vrnd =< vrnd_vval[n].vrnd
              /\ learned_rnd_val' = [learned_rnd_val EXCEPT ![n] =
                   [vrnd |-> learned_rnd_val[s].vrnd, vval |-> vrnd_vval[n].vval]]
           \/ learned_rnd_val' = [learned_rnd_val EXCEPT ![n] = learned_rnd_val[s]]
  BY DEF HandleInformLearned, HandleLogSyncResponse
<1>5. ASSUME vrnd_vval[n] # NoRndVal, learned_rnd_val[s].vrnd =< vrnd_vval[n].vrnd
      PROVE  ChosenAt(learned_rnd_val[s].vrnd, vrnd_vval[n].vval)
  <2>1. /\ learned_rnd_val[s].vrnd \in Rnd
        /\ Cardinality(Acceptors(learned_rnd_val[s].vrnd)) >= majority
    BY <1>4 DEF IndInv, LearnedIsChosen, ChosenAt, TypeOK, RndVal
  <2>2. vrnd_vval[n].vrnd \in Rnd /\ AcceptSent(vrnd_vval[n].vrnd, vrnd_vval[n].vval)
    BY <1>5 DEF IndInv, AcceptorInv, TypeOK, RndVal
  <2> QED
    BY <1>5, <2>1, <2>2, ChosenBelow DEF IndInv
<1>6. LearnedIsChosen'
  <2>1. ASSUME NEW a \in Nodes, NEW c, NEW v, learned_rnd_val'[a] # NoRndVal,
               c = learned_rnd_val'[a].vrnd, v = learned_rnd_val'[a].vval
        PROVE  ChosenAt(c, v)
    <3>1. CASE learned_rnd_val'[a] = learned_rnd_val[a]
      BY <2>1, <3>1 DEF IndInv, LearnedIsChosen
    <3>2. CASE learned_rnd_val'[a] = learned_rnd_val[s]
      BY <1>4, <2>1, <3>2 DEF IndInv, LearnedIsChosen
    <3>3. CASE /\ vrnd_vval[n] # NoRndVal
               /\ learned_rnd_val[s].vrnd =< vrnd_vval[n].vrnd
               /\ learned_rnd_val'[a] =
                    [vrnd |-> learned_rnd_val[s].vrnd, vval |-> vrnd_vval[n].vval]
      BY <1>5, <2>1, <3>3
    <3> QED
      BY <1>4, <3>1, <3>2, <3>3 DEF IndInv, TypeOK
  <2> QED
    BY <1>2, <2>1 DEF LearnedIsChosen
<1> QED
  BY <1>1, <1>3, <1>6, SilentStep

(* Initially nothing is sent, voted or learned. *)
LEMMA InitInv == Init => IndInv
<1> SUFFICES ASSUME Init
             PROVE  IndInv
  OBVIOUS
<1>1. 0 \in Rnd /\ 0 \in Int
  BY RndAssumption DEF Rnd
<1>2. TypeOK
  BY <1>1 DEF Init, TypeOK, Proposal
<1>3. \A r : Acceptors(r) = {}
  BY DEF Init, Acceptors
<1>4. AcceptorInv
  BY <1>3 DEF Init, AcceptorInv, NoRndVal, NoRnd
<1>5. ProposalInv
  BY DEF Init, ProposalInv, NoProposal
<1> QED
  BY <1>2, <1>4, <1>5 DEF Init, IndInv, PrepareInv, PromiseInv, BackedInv,
     OneValuePerRound, SafeInv, LearnerInv, LearnedIsChosen

(* Every step of the instance preserves the invariant. *)
LEMMA NextInv == IndInv /\ [Next]_vars => IndInv'
<1> SUFFICES ASSUME IndInv, [Next]_vars
             PROVE  IndInv'
  OBVIOUS
<1>1. TypeOK'
  BY Typing DEF IndInv
<1>2. CASE Next
  <2>1. PICK n \in Nodes :
          \/ propose_next_index(n) \/ HandlePrepare(n) \/ HandlePromise(n)
          \/ HandleAccept(n) \/ HandleLearn(n) \/ HandleInformLearned(n)
          \/ HandleLogSyncResponse(n)
    BY <1>2 DEF Next
  <2> QED
    BY <1>1, <2>1, ProposeStep, PrepareStep, PromiseStep, AcceptStep, LearnStep, SpreadStep
<1>3. CASE UNCHANGED vars
  <2>1. UNCHANGED <<msgs, delivered, proposals, rnd, vrnd_vval, learned, learned_vrnd,
                    learned_rnd_val>>
    BY <1>3 DEF vars, proposerVars, acceptorVars, learnerVars
  <2>2. LearnerInv' /\ LearnedIsChosen'
    BY <2>1 DEF IndInv, LearnerInv, LearnedIsChosen, ChosenAt, AcceptSent, Acceptors, majority
  <2> QED
    BY <1>1, <2>1, <2>2, SilentStep
<1> QED
  BY <1>2, <1>3

(* The inductive invariant holds in every state of a Paxos instance, for  *)
(* any finite set of nodes, any entries proposed and any rounds drawn.     *)
THEOREM Invariance == Spec => []IndInv
BY InitInv, NextInv, PTL DEF Spec

(* Type correctness: among other things no Promise ever arrives for a      *)
(* proposal its proposer does not hold (the unwrap() in the handler).      *)
THEOREM TypeCorrect == Spec => []TypeOK
<1>1. IndInv => TypeOK
  BY DEF IndInv
<1> QED
  BY <1>1, Invariance, PTL

(* No two Accepts of one round carry different values, although rounds are *)
(* drawn at random by every proposer.                                      *)
THEOREM RoundsExclusive == Spec => []OneValuePerRound
<1>1. IndInv => OneValuePerRound
  BY DEF IndInv
<1> QED
  BY <1>1, Invariance, PTL

(* Nodes never learn different entries for an index. *)
THEOREM LogsAgree == Spec => []Agreement
<1>1. ASSUME IndInv
      PROVE  Agreement
  <2>1. SUFFICES ASSUME NEW m \in Nodes, NEW n \in Nodes,
                        learned_rnd_val[m] # NoRndVal, learned_rnd_val[n] # NoRndVal
                 PROVE  learned_rnd_val[m].vval = learned_rnd_val[n].vval
    BY DEF Agreement
  <2>2. learned_rnd_val[m].vrnd \in Rnd /\ learned_rnd_val[n].vrnd \in Rnd
    BY <1>1, <2>1 DEF IndInv, TypeOK, RndVal
  <2> QED
    BY <1>1, <2>1, <2>2, ChosenUnique DEF IndInv, LearnedIsChosen
<1> QED
  BY <1>1, Invariance, PTL

(* A node only learns a value that a majority accepted in the round it     *)
(* learned.                                                                *)
THEOREM LearnedWasChosen == Spec => []LearnedIsChosen
<1>1. IndInv => LearnedIsChosen
  BY DEF IndInv
<1> QED
  BY <1>1, Invariance, PTL
-----------------------------------------------------------------------------
(* chosen holds the values that a majority accepted in some round. *)
LEMMA ChosenMembers ==
  IndInv => \A v : v \in chosen <=> \E r \in Rnd : ChosenAt(r, v)
<1> SUFFICES ASSUME IndInv, NEW v
             PROVE  v \in chosen <=> \E r \in Rnd : ChosenAt(r, v)
  OBVIOUS
<1>1. ASSUME v \in chosen
      PROVE  \E r \in Rnd : ChosenAt(r, v)
  <2>1. PICK m \in msgs : m.type = "Accept" /\ ChosenAt(m.crnd, m.cval) /\ v = m.cval
    BY <1>1 DEF chosen
  <2>2. m.crnd \in Rnd
    BY <2>1, MessageKinds DEF AcceptMsg, IndInv
  <2> QED
    BY <2>1, <2>2
<1>2. ASSUME NEW r \in Rnd, ChosenAt(r, v)
      PROVE  v \in chosen
  <2>1. PICK n \in Nodes : [type |-> "Accept", from |-> n, crnd |-> r, cval |-> v] \in msgs
    BY <1>2 DEF ChosenAt, AcceptSent
  <2> DEFINE m == [type |-> "Accept", from |-> n, crnd |-> r, cval |-> v]
  <2>2. m \in {o \in msgs : o.type = "Accept" /\ ChosenAt(o.crnd, o.cval)} /\ m.cval = v
    BY <1>2, <2>1
  <2> HIDE DEF m
  <2> QED
    BY <2>2 DEF chosen
<1> QED
  BY <1>1, <1>2

(* At most one value is chosen, and it is one that may be proposed. *)
LEMMA OneChosen == IndInv => \A v, w \in chosen : v = w /\ v \in Values
<1> SUFFICES ASSUME IndInv, NEW v \in chosen, NEW w \in chosen
             PROVE  v = w /\ v \in Values
  OBVIOUS
<1>1. PICK r \in Rnd, k \in Rnd : ChosenAt(r, v) /\ ChosenAt(k, w)
  BY ChosenMembers
<1>2. v = w
  BY <1>1, ChosenUnique DEF IndInv
<1>3. PICK n \in Nodes : [type |-> "Accept", from |-> n, crnd |-> r, cval |-> v] \in msgs
  BY <1>1 DEF ChosenAt, AcceptSent
<1>4. [type |-> "Accept", from |-> n, crnd |-> r, cval |-> v] \in AcceptMsg
  BY <1>3, MessageKinds DEF IndInv
<1> QED
  BY <1>2, <1>4 DEF AcceptMsg

(* A step chooses nothing, or the first value; what is chosen stays so. *)
LEMMA ChosenStep ==
  ASSUME IndInv, IndInv', msgs \subseteq msgs'
  PROVE  \/ chosen' = chosen
         \/ chosen = {} /\ \E v \in Values : chosen' = {v}
<1>1. (IndInv => \A v : v \in chosen <=> \E r \in Rnd : ChosenAt(r, v))'
  BY ChosenMembers, PTL
<1>2. (IndInv => \A v, w \in chosen : v = w /\ v \in Values)'
  BY OneChosen, PTL
<1>3. ASSUME NEW v \in chosen
      PROVE  v \in chosen'
  <2>1. PICK r \in Rnd : ChosenAt(r, v)
    BY ChosenMembers
  <2> QED
    BY <1>1, <2>1, AcceptorsGrow
<1> QED
  BY <1>2, <1>3

(* A node learns a value that is chosen already: in particular the Accept  *)
(* that makes a node learn does not at that moment complete the majority.  *)
LEMMA LearnsChosen ==
  ASSUME IndInv, IndInv', Next, learned_rnd_val' # learned_rnd_val
  PROVE  \E n \in Nodes :
           /\ learned_rnd_val[n] = NoRndVal
           /\ \E x \in RndVal :
                /\ learned_rnd_val' = [learned_rnd_val EXCEPT ![n] = x]
                /\ x.vval \in chosen
<1>1. PICK n \in Nodes :
        \/ propose_next_index(n) \/ HandlePrepare(n) \/ HandlePromise(n)
        \/ HandleAccept(n) \/ HandleLearn(n) \/ HandleInformLearned(n)
        \/ HandleLogSyncResponse(n)
  BY DEF Next
<1>2. ASSUME learned_rnd_val[n] = NoRndVal,
             NEW x, learned_rnd_val' = [learned_rnd_val EXCEPT ![n] = x]
      PROVE  x \in RndVal
  BY <1>2 DEF IndInv, TypeOK
<1>3. CASE msgs' = msgs
  <2>1. PICK x : /\ learned_rnd_val[n] = NoRndVal
                 /\ learned_rnd_val' = [learned_rnd_val EXCEPT ![n] = x]
    BY <1>1, <1>3 DEF propose_next_index, HandlePrepare, HandlePromise, HandleAccept,
       HandleLearn, HandleInformLearned, HandleLogSyncResponse, LearnIf
  <2>2. x \in RndVal /\ x # NoRndVal /\ learned_rnd_val'[n] = x
    BY <1>2, <2>1, RndAssumption DEF IndInv, TypeOK, RndVal, NoRndVal, NoRnd, Rnd
  <2>3. ChosenAt(x.vrnd, x.vval)' /\ x.vrnd \in Rnd
    BY <2>2 DEF IndInv, LearnedIsChosen, RndVal
  <2>4. ChosenAt(x.vrnd, x.vval)
    BY <1>3, <2>3 DEF ChosenAt, AcceptSent, Acceptors, majority
  <2> QED
    BY <2>1, <2>2, <2>3, <2>4, ChosenMembers
<1>4. CASE HandleAccept(n)
  <2>1. PICK m \in msgs : HandleAccept(n)!(m)
    BY <1>4 DEF HandleAccept
  <2>2. m \in AcceptMsg
    BY <2>1, MessageKinds DEF IndInv
  <2> DEFINE x == [vrnd |-> learned_vrnd[n], vval |-> m.cval]
  <2>3. /\ learned_rnd_val[n] = NoRndVal
        /\ learned_vrnd[n] # NoRnd
        /\ learned_vrnd[n] =< m.crnd
        /\ learned_rnd_val' = [learned_rnd_val EXCEPT ![n] = x]
    BY <2>1 DEF LearnIf
  <2>4. learned_vrnd[n] \in Rnd /\ m.crnd \in Rnd
    BY <2>2, <2>3 DEF IndInv, TypeOK, AcceptMsg
  <2>5. AcceptSent(m.crnd, m.cval) /\ Cardinality(Acceptors(learned_vrnd[n])) >= majority
    BY <2>1, <2>2, <2>3 DEF IndInv, LearnerInv, AcceptSent, AcceptMsg
  <2>6. ChosenAt(learned_vrnd[n], m.cval)
    BY <2>3, <2>4, <2>5, ChosenBelow DEF IndInv
  <2>7. x \in RndVal /\ x.vval \in chosen
    BY <2>2, <2>4, <2>6, ChosenMembers DEF RndVal, AcceptMsg
  <2> HIDE DEF x
  <2> QED
    BY <2>3, <2>7
<1> QED
  BY <1>1, <1>3, <1>4 DEF propose_next_index, HandlePrepare, HandlePromise, HandleLearn,
     HandleInformLearned, HandleLogSyncResponse

(* Messages are never withdrawn. *)
LEMMA MessagesStay == Next => msgs \subseteq msgs'
BY DEF Next, Send, propose_next_index, HandlePrepare, HandlePromise, HandleAccept,
   HandleLearn, HandleInformLearned, HandleLogSyncResponse

(* The instance implements Consensus: one entry is chosen once and for     *)
(* all, and every node that learns an entry learns the chosen one, once,   *)
(* by whichever of the ways of learning.                                   *)
THEOREM Refinement == Spec => ImplementsConsensus
<1>1. Init => Abs!Init
  <2> SUFFICES ASSUME Init
               PROVE  Abs!Init
    OBVIOUS
  <2>1. chosen = {}
    BY DEF Init, chosen
  <2>2. learnedVal = [n \in Nodes |-> NoValue]
    BY DEF Init, learnedVal, NoRndVal
  <2> QED
    BY <2>1, <2>2 DEF Abs!Init
<1>2. IndInv /\ IndInv' /\ [Next]_vars => [Abs!Next]_<<chosen, learnedVal>>
  <2> SUFFICES ASSUME IndInv, IndInv', [Next]_vars
               PROVE  [Abs!Next]_<<chosen, learnedVal>>
    OBVIOUS
  <2>1. CASE UNCHANGED vars
    BY <2>1 DEF vars, chosen, learnedVal, ChosenAt, AcceptSent, Acceptors, majority
  <2>2. CASE Next /\ learned_rnd_val' = learned_rnd_val
    <3>1. UNCHANGED learnedVal
      BY <2>2 DEF learnedVal
    <3>2. \/ chosen' = chosen
          \/ chosen = {} /\ \E v \in Values : chosen' = {v}
      BY <2>2, ChosenStep, MessagesStay
    <3> QED
      BY <3>1, <3>2 DEF Abs!Next, Abs!Choose
  <2>3. CASE Next /\ learned_rnd_val' # learned_rnd_val
    <3>1. PICK n \in Nodes :
            /\ learned_rnd_val[n] = NoRndVal
            /\ \E x \in RndVal :
                 /\ learned_rnd_val' = [learned_rnd_val EXCEPT ![n] = x]
                 /\ x.vval \in chosen
      BY <2>3, LearnsChosen
    <3>2. PICK x \in RndVal : /\ learned_rnd_val' = [learned_rnd_val EXCEPT ![n] = x]
                              /\ x.vval \in chosen
      BY <3>1
    <3>3. UNCHANGED chosen
      BY <2>3, <3>2, ChosenStep, MessagesStay
    <3>4. learnedVal[n] = NoValue
      BY <3>1 DEF learnedVal, NoRndVal
    <3>5. learnedVal' = [learnedVal EXCEPT ![n] = x.vval]
      BY <3>2 DEF learnedVal, IndInv, TypeOK
    <3> QED
      BY <3>2, <3>3, <3>4, <3>5 DEF Abs!Next, Abs!Learn
  <2> QED
    BY <2>1, <2>2, <2>3
<1> QED
  BY <1>1, <1>2, Invariance, PTL DEF Spec, ImplementsConsensus, Abs!Spec
=============================================================================
