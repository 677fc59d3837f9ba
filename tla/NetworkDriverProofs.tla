------------------------ MODULE NetworkDriverProofs ------------------------
(***************************************************************************)
(* What holds of the NetworkDriver and the insertion cycle whatever runs   *)
(* above them: the lemmas that the proofs of the modules which EXTEND      *)
(* NetworkDriver share.  M stands for the set of their payloads, P for     *)
(* that of their PLms.                                                     *)
(***************************************************************************)
EXTENDS NetworkDriver, SequenceTheorems, WellFoundedInduction, TLAPS

(* A Leadership that is announced is never that of generation 0. *)
RLCs == [type : {"RemoteLeaderChanged"}, gid : Groups, gen : 1 .. MaxGen]
Unblocks == [type : {"Unblock"}, gid : Groups, gen : 1 .. MaxGen]
PLmItems(P) == [type : {"PLm"}, plm : P]
PayloadItems(M) == [type : {"Payload"}, from : Groups, payload : M]
Items(M, P) == RLCs \cup Unblocks \cup PLmItems(P) \cup PayloadItems(M) \cup {LC}

Buffers(M) == [gen : Gens, payloads : Seq(M)]
Bundles(P) == [rlcs : Seq(RLCs), plms : Seq(P)]

NetType(M, P) ==
  /\ log_gen \in [Groups -> Gens]
  /\ log_leader_map \in [Groups -> [Groups -> Gens]]
  /\ log_plms \in [Groups -> Seq(P)]
  /\ status \in [Nodes -> {"none", "leader", "retired", "panicked"}]
  /\ leader_map \in [Nodes -> [Groups -> Gens]]
  /\ remote_leader_changes \in [Nodes -> Seq(RLCs)]
  /\ tablet_bundle \in [Nodes -> Seq(P)]
  /\ tablet_bundles \in [Nodes -> Seq(P)]
  /\ next_insert \in [Nodes -> Bundles(P)]
  /\ network_buffer \in [Nodes -> [Groups -> Buffers(M)]]
  /\ chan \in [Linked -> Seq(M)]
  /\ inbox \in [Nodes -> Seq(Items(M, P))]

(* The node that holds the last Leadership of a log has been elected, one  *)
(* that is yet to be elected does not lead.                                *)
StatusInv ==
  \A n \in Nodes :
    /\ Gen(n) = log_gen[Gid(n)] => status[n] # "none"
    /\ status[n] = "leader" => Gen(n) =< log_gen[Gid(n)]

(* A node that does not lead holds nothing. *)
IdleInv ==
  \A n \in Nodes :
    status[n] # "leader" =>
      /\ inbox[n] = <<>>
      /\ next_insert[n] = NoInsert
      /\ tablet_bundle[n] = <<>>
      /\ tablet_bundles[n] = <<>>

(* LeaderChanged is the first thing that a leader handles. *)
FreshInv ==
  \A n \in Nodes :
    LC \in Range(inbox[n]) => inbox[n] = <<LC>> /\ log_gen[Gid(n)] = Gen(n)

(* What waits at a node came over a link, and what was held back comes     *)
(* from a Leadership that had to be announced.                             *)
BlockedInv ==
  \A n \in Nodes :
    /\ \A g \in Groups :
         network_buffer[n][g].payloads # <<>> => <<g, Gid(n)>> \in Links
    /\ \A item \in Range(inbox[n]) :
         item.type = "Payload" =>
           <<item.from, Gid(n)>> \in Links /\ leader_map[n][item.from] >= 1

NetInv(M, P) ==
  /\ NetType(M, P)
  /\ StatusInv
  /\ IdleInv
  /\ FreshInv
  /\ BlockedInv

(* The message p of a leader of g has been sent to the node n, or to some  *)
(* leader of h, and is not handled or dropped yet.                         *)
UnderWayTo(g, n, p) ==
  \/ \E e \in Linked : e[2] = n /\ Gid(e[1]) = g /\ p \in Range(chan[e])
  \/ p \in Range(network_buffer[n][g].payloads)
  \/ Payload(g, p) \in Range(inbox[n])

UnderWay(g, h, p) == \E n \in Nodes : Gid(n) = h /\ UnderWayTo(g, n, p)

(* The PLms among forwarded inputs: none, or x alone. *)
NoPLm(s) == \A i \in DOMAIN s : s[i].type # "PLm"
OnePLm(s, x) ==
  \E i \in DOMAIN s : /\ s[i] = PLm(x)
                      /\ \A j \in DOMAIN s : s[j].type = "PLm" => j = i
-----------------------------------------------------------------------------
(* Sequences and numbers *)

(* Appending adds one element. *)
LEMMA RangeAppend ==
  ASSUME NEW S, NEW s \in Seq(S), NEW x \in S
  PROVE  /\ Append(s, x) \in Seq(S)
         /\ Append(s, x) # <<>>
         /\ Range(Append(s, x)) = Range(s) \cup {x}
<1>1. Append(s, x) = s \o <<x>> /\ <<x>> \in Seq(S)
  BY AppendIsConcat
<1>2. Range(<<x>>) = {x}
  BY DEF Range
<1>3. Range(s \o <<x>>) = Range(s) \cup Range(<<x>>)
  BY <1>1, RangeConcatenation
<1> QED
  BY <1>1, <1>2, <1>3, AppendProperties

(* The rest of a sequence holds nothing new. *)
LEMMA RangeTail ==
  ASSUME NEW S, NEW s \in Seq(S), s # <<>>
  PROVE  /\ Head(s) \in S
         /\ Head(s) \in Range(s)
         /\ Tail(s) \in Seq(S)
         /\ Range(Tail(s)) \subseteq Range(s)
BY DEF Range

(* Two sequences of one element make one of two. *)
LEMMA ConcatPair ==
  ASSUME NEW S, NEW x \in S, NEW y \in S
  PROVE  <<x>> \o <<y>> = <<x, y>>
<1>1. <<x>> \in Seq(S) /\ <<x, y>> \in Seq(S) /\ Append(<<x>>, y) \in Seq(S)
  OBVIOUS
<1>2. Len(<<x>>) = 1 /\ Len(<<x, y>>) = 2 /\ Len(Append(<<x>>, y)) = 2
  OBVIOUS
<1>3. \A i \in 1 .. 2 : Append(<<x>>, y)[i] = <<x, y>>[i]
  OBVIOUS
<1>4. Append(<<x>>, y) = <<x, y>>
  BY <1>1, <1>2, <1>3, SeqEqual
<1> QED
  BY <1>1, <1>4, AppendIsConcat

(* A bounded set of numbers has a greatest element. *)
LEMMA HasMax ==
  ASSUME NEW N \in Nat, NEW S \in SUBSET (0 .. N), S # {}
  PROVE  Max(S) \in S /\ \A x \in S : x =< Max(S)
<1> DEFINE T == {m \in Nat : N - m \in S}
<1>1. T \subseteq Nat /\ T # {}
  <2>1. PICK x \in S : TRUE
    OBVIOUS
  <2>2. N - x \in T
    BY <2>1
  <2> QED
    BY <2>2
<1> HIDE DEF T
<1>2. PICK m \in T : \A y \in T : <<y, m>> \notin OpToRel(<, Nat)
  BY <1>1, NatLessThanWellFounded, WFMin
<1>3. \A y \in T : ~(y < m)
  BY <1>1, <1>2 DEF OpToRel
<1>4. N - m \in S /\ \A x \in S : N - m >= x
  BY <1>3 DEF T
<1> QED
  BY <1>4 DEF Max

(* Replaying changes yields a LeaderMap that is at none of them behind. *)
LEMMA ReplayedFacts ==
  ASSUME NEW lm \in [Groups -> Gens], NEW rlcs \in Seq(RLCs)
  PROVE  /\ Replayed(lm, rlcs) \in [Groups -> Gens]
         /\ \A g \in Groups : lm[g] =< Replayed(lm, rlcs)[g]
         /\ \A rlc \in Range(rlcs) : rlc.gen =< Replayed(lm, rlcs)[rlc.gid]
<1>1. Range(rlcs) \subseteq RLCs
  BY RangeOfSeq
<1>2. ASSUME NEW g \in Groups
      PROVE  LET S == {lm[g]} \cup {rlc.gen : rlc \in {c \in Range(rlcs) : c.gid = g}}
             IN S \in SUBSET (0 .. MaxGen) /\ S # {}
  BY <1>1, NetworkAssumption DEF RLCs, Gens
<1>3. ASSUME NEW g \in Groups
      PROVE  LET S == {lm[g]} \cup {rlc.gen : rlc \in {c \in Range(rlcs) : c.gid = g}}
             IN Replayed(lm, rlcs)[g] \in S /\ \A x \in S : x =< Replayed(lm, rlcs)[g]
  BY <1>2, HasMax, NetworkAssumption DEF Replayed
<1>4. \A g \in Groups : Replayed(lm, rlcs)[g] \in Gens
  BY <1>2, <1>3 DEF Gens
<1>5. Replayed(lm, rlcs) \in [Groups -> Gens]
  BY <1>4 DEF Replayed
<1>6. \A rlc \in Range(rlcs) : rlc.gid \in Groups
  BY <1>1 DEF RLCs
<1> QED
  BY <1>3, <1>5, <1>6
-----------------------------------------------------------------------------
(* PLms among forwarded inputs *)

(* What is left of inputs without a PLm has none. *)
LEMMA NoPLmTail ==
  ASSUME NEW S, NEW s \in Seq(S), s # <<>>, NoPLm(s)
  PROVE  NoPLm(Tail(s)) /\ Head(s).type # "PLm"
BY DEF NoPLm

(* Two sequences without PLms make one without. *)
LEMMA NoPLmConcat ==
  ASSUME NEW S, NEW s \in Seq(S), NEW t \in Seq(S), NoPLm(s), NoPLm(t)
  PROVE  NoPLm(s \o t)
<1> SUFFICES ASSUME NEW i \in 1 .. Len(s) + Len(t)
             PROVE  (s \o t)[i].type # "PLm"
  BY ConcatProperties, LenProperties DEF NoPLm
<1> QED
  BY ConcatProperties, LenProperties DEF NoPLm

(* The one PLm moves up until it is first. *)
LEMMA OnePLmTail ==
  ASSUME NEW S, NEW s \in Seq(S), s # <<>>, NEW x, OnePLm(s, x)
  PROVE  /\ Head(s).type = "PLm" => Head(s) = PLm(x) /\ NoPLm(Tail(s))
         /\ Head(s).type # "PLm" => OnePLm(Tail(s), x)
<1>1. PICK i \in DOMAIN s : s[i] = PLm(x) /\ \A j \in DOMAIN s : s[j].type = "PLm" => j = i
  BY DEF OnePLm
<1>2. /\ DOMAIN s = 1 .. Len(s) /\ Len(s) \in Nat /\ Head(s) = s[1]
      /\ Len(s) >= 1
      /\ DOMAIN Tail(s) = 1 .. Len(s) - 1
      /\ \A j \in 1 .. Len(s) - 1 : Tail(s)[j] = s[j + 1]
  OBVIOUS
<1>3. PLm(x).type = "PLm"
  BY DEF PLm
<1>4. CASE i = 1
  BY <1>1, <1>2, <1>3, <1>4 DEF NoPLm
<1>5. CASE i # 1
  <2>1. i - 1 \in DOMAIN Tail(s) /\ Tail(s)[i - 1] = PLm(x)
    BY <1>1, <1>2, <1>5
  <2>2. \A j \in DOMAIN Tail(s) : Tail(s)[j].type = "PLm" => j = i - 1
    BY <1>1, <1>2
  <2>3. Head(s).type # "PLm"
    BY <1>1, <1>2, <1>5
  <2> QED
    BY <2>1, <2>2, <2>3 DEF OnePLm
<1> QED
  BY <1>4, <1>5

(* The one PLm can be in either part of a sequence. *)
LEMMA OnePLmConcat ==
  ASSUME NEW S, NEW s \in Seq(S), NEW t \in Seq(S), NEW x
  PROVE  /\ NoPLm(s) /\ OnePLm(t, x) => OnePLm(s \o t, x)
         /\ OnePLm(s, x) /\ NoPLm(t) => OnePLm(s \o t, x)
<1>1. /\ Len(s) \in Nat /\ Len(t) \in Nat
      /\ DOMAIN s = 1 .. Len(s) /\ DOMAIN t = 1 .. Len(t)
      /\ DOMAIN (s \o t) = 1 .. Len(s) + Len(t)
      /\ \A i \in 1 .. Len(s) + Len(t) :
           (s \o t)[i] = IF i =< Len(s) THEN s[i] ELSE t[i - Len(s)]
  BY ConcatProperties, LenProperties
<1>2. ASSUME NoPLm(s), OnePLm(t, x)
      PROVE  OnePLm(s \o t, x)
  <2>1. PICK i \in DOMAIN t : t[i] = PLm(x) /\ \A j \in DOMAIN t : t[j].type = "PLm" => j = i
    BY <1>2 DEF OnePLm
  <2>2. i + Len(s) \in DOMAIN (s \o t) /\ (s \o t)[i + Len(s)] = PLm(x)
    BY <1>1, <2>1
  <2>3. ASSUME NEW j \in DOMAIN (s \o t), (s \o t)[j].type = "PLm"
        PROVE  j = i + Len(s)
    <3>1. j > Len(s)
      BY <1>1, <1>2, <2>3 DEF NoPLm
    <3> QED
      BY <1>1, <2>1, <2>3, <3>1
  <2> QED
    BY <2>2, <2>3 DEF OnePLm
<1>3. ASSUME OnePLm(s, x), NoPLm(t)
      PROVE  OnePLm(s \o t, x)
  <2>1. PICK i \in DOMAIN s : s[i] = PLm(x) /\ \A j \in DOMAIN s : s[j].type = "PLm" => j = i
    BY <1>3 DEF OnePLm
  <2>2. i \in DOMAIN (s \o t) /\ (s \o t)[i] = PLm(x)
    BY <1>1, <2>1
  <2>3. ASSUME NEW j \in DOMAIN (s \o t), (s \o t)[j].type = "PLm"
        PROVE  j = i
    <3>1. j =< Len(s)
      BY <1>1, <1>3, <2>3 DEF NoPLm
    <3> QED
      BY <1>1, <2>1, <2>3, <3>1
  <2> QED
    BY <2>2, <2>3 DEF OnePLm
<1> QED
  BY <1>2, <1>3

(* A PLm that is there is not both there and absent. *)
LEMMA OnePLmSome ==
  ASSUME NEW s, NEW x, OnePLm(s, x)
  PROVE  ~NoPLm(s)
BY DEF OnePLm, NoPLm, PLm

(* What process_bundle forwards. *)
Forwarded(rlcs, plms) ==
  rlcs \o [i \in DOMAIN plms |-> PLm(plms[i])]
       \o [i \in DOMAIN rlcs |-> Unblock(rlcs[i].gid, rlcs[i].gen)]

(* That is the PLms of the bundle between the two passes over its changes  *)
(* of Leaderships, and no message.                                         *)
LEMMA ForwardedFacts ==
  ASSUME NEW M, NEW P, NEW rlcs \in Seq(RLCs), NEW plms \in Seq(P)
  PROVE  /\ Forwarded(rlcs, plms) \in Seq(Items(M, P))
         /\ \A item \in Range(Forwarded(rlcs, plms)) : item.type # "Payload" /\ item # LC
         /\ plms = <<>> => NoPLm(Forwarded(rlcs, plms))
         /\ \A x : plms = <<x>> => OnePLm(Forwarded(rlcs, plms), x)
<1> DEFINE pl == [i \in DOMAIN plms |-> PLm(plms[i])]
           ub == [i \in DOMAIN rlcs |-> Unblock(rlcs[i].gid, rlcs[i].gen)]
           A == RLCs \cup Unblocks \cup PLmItems(P)
<1>0. RLCs \subseteq A /\ Unblocks \subseteq A /\ PLmItems(P) \subseteq A
  OBVIOUS
<1> HIDE DEF A
<1>1. rlcs \in Seq(A) /\ \A item \in Range(rlcs) : item.type = "RemoteLeaderChanged"
  <2>1. Range(rlcs) \subseteq RLCs
    BY RangeOfSeq
  <2> QED
    BY <1>0, <2>1, SeqMonotonic DEF RLCs
<1>2. pl \in Seq(A) /\ \A item \in Range(pl) : item.type = "PLm"
  <2>1. \A i \in 1 .. Len(plms) : PLm(plms[i]) \in PLmItems(P)
    BY DEF PLm, PLmItems
  <2>2. pl \in Seq(PLmItems(P))
    BY <2>1, LenProperties
  <2> HIDE DEF pl
  <2>3. Range(pl) \subseteq PLmItems(P)
    BY <2>2, RangeOfSeq
  <2> QED
    BY <1>0, <2>2, <2>3, SeqMonotonic DEF PLmItems
<1>3. ub \in Seq(A) /\ \A item \in Range(ub) : item.type = "Unblock"
  <2>1. \A i \in 1 .. Len(rlcs) : rlcs[i] \in RLCs
    BY ElementOfSeq
  <2>2. \A i \in 1 .. Len(rlcs) : Unblock(rlcs[i].gid, rlcs[i].gen) \in Unblocks
    BY <2>1 DEF Unblock, Unblocks, RLCs
  <2>3. ub \in Seq(Unblocks)
    BY <2>2, LenProperties
  <2> HIDE DEF ub
  <2>4. Range(ub) \subseteq Unblocks
    BY <2>3, RangeOfSeq
  <2> QED
    BY <1>0, <2>3, <2>4, SeqMonotonic DEF Unblocks
<1>4. plms = <<>> => NoPLm(pl)
  BY DEF NoPLm
<1>5. \A x : plms = <<x>> => OnePLm(pl, x)
  BY DEF OnePLm
<1>6. NoPLm(rlcs) /\ NoPLm(ub)
  BY <1>1, <1>3 DEF NoPLm, Range
<1> HIDE DEF pl, ub
<1>7. rlcs \o pl \in Seq(A) /\ Range(rlcs \o pl) = Range(rlcs) \cup Range(pl)
  BY <1>1, <1>2, ConcatProperties, RangeConcatenation
<1>8. /\ (rlcs \o pl) \o ub \in Seq(A)
      /\ Range((rlcs \o pl) \o ub) = Range(rlcs) \cup Range(pl) \cup Range(ub)
  <2>1. ASSUME NEW t \in Seq(A)
        PROVE  Range(t \o ub) = Range(t) \cup Range(ub)
    BY <1>3, RangeConcatenation
  <2> QED
    BY <1>3, <1>7, <2>1, ConcatProperties
<1>9. plms = <<>> => NoPLm((rlcs \o pl) \o ub)
  <2>1. plms = <<>> => NoPLm(rlcs \o pl)
    BY <1>1, <1>2, <1>4, <1>6, NoPLmConcat
  <2> QED
    BY <1>3, <1>6, <1>7, <2>1, NoPLmConcat
<1>10. ASSUME NEW x, plms = <<x>>
       PROVE  OnePLm((rlcs \o pl) \o ub, x)
  <2>1. OnePLm(rlcs \o pl, x)
    BY <1>1, <1>2, <1>5, <1>6, <1>10, OnePLmConcat
  <2> QED
    BY <1>3, <1>6, <1>7, <2>1, OnePLmConcat
<1>11. Forwarded(rlcs, plms) = (rlcs \o pl) \o ub
  BY DEF Forwarded, pl, ub
<1>12. A \subseteq Items(M, P)
  BY DEF Items, A
<1>13. \A item \in Range((rlcs \o pl) \o ub) : item.type # "Payload" /\ item # LC
  BY <1>1, <1>2, <1>3, <1>8 DEF LC
<1> QED
  BY <1>8, <1>9, <1>10, <1>11, <1>12, <1>13, SeqMonotonic

(* What a buffer delivers: its messages. *)
LEMMA BlockedFacts ==
  ASSUME NEW M, NEW P, NEW n, NEW g \in Groups, network_buffer[n][g] \in Buffers(M)
  PROVE  /\ BlockedOf(n, g) \in Seq(PayloadItems(M))
         /\ BlockedOf(n, g) \in Seq(Items(M, P))
         /\ NoPLm(BlockedOf(n, g))
         /\ Range(BlockedOf(n, g)) = {Payload(g, p) : p \in Range(network_buffer[n][g].payloads)}
         /\ Len(BlockedOf(n, g)) = Len(network_buffer[n][g].payloads)
<1> DEFINE ps == network_buffer[n][g].payloads
<1>1. ps \in Seq(M)
  BY DEF Buffers
<1>2. \A i \in 1 .. Len(ps) : Payload(g, ps[i]) \in PayloadItems(M)
  BY <1>1 DEF Payload, PayloadItems
<1>3. BlockedOf(n, g) = [i \in 1 .. Len(ps) |-> Payload(g, ps[i])] /\ DOMAIN ps = 1 .. Len(ps)
  BY <1>1, LenProperties DEF BlockedOf
<1>4. BlockedOf(n, g) \in Seq(PayloadItems(M)) /\ Len(BlockedOf(n, g)) = Len(ps)
  BY <1>1, <1>2, <1>3
<1>5. BlockedOf(n, g) \in Seq(Items(M, P))
  BY <1>4, SeqMonotonic DEF Items
<1>6. NoPLm(BlockedOf(n, g))
  BY <1>3 DEF NoPLm, Payload
<1>7. Range(BlockedOf(n, g)) = {Payload(g, p) : p \in Range(ps)}
  BY <1>3 DEF Range
<1> QED
  BY <1>4, <1>5, <1>6, <1>7
-----------------------------------------------------------------------------
(* The steps of the NetworkDriver and of the insertion cycle *)

(* A node is a group and a generation. *)
LEMMA NodeFacts ==
  ASSUME NEW n \in Nodes
  PROVE  /\ Gid(n) \in Groups
         /\ Gen(n) \in Gens
         /\ Gen(n) \in Nat
         /\ n = <<Gid(n), Gen(n)>>
BY NetworkAssumption DEF Nodes, Gens, Gid, Gen

(* A queue leads from a node to another, along a link. *)
LEMMA LinkedFacts ==
  ASSUME NEW e \in Linked
  PROVE  /\ e[1] \in Nodes
         /\ e[2] \in Nodes
         /\ e = <<e[1], e[2]>>
         /\ <<Gid(e[1]), Gid(e[2])>> \in Links
BY DEF Linked

(* At first nothing is under way. *)
LEMMA InitNet ==
  ASSUME NEW M, NEW P, NetInit
  PROVE  /\ NetInv(M, P)
         /\ \A n \in Nodes : NoPLm(inbox[n])
         /\ \A g \in Groups, n \in Nodes : \A p : ~UnderWayTo(g, n, p)
<1>1. 0 \in Gens /\ NoInsert \in Bundles(P) /\ EmptyBuffer \in Buffers(M)
  BY NetworkAssumption DEF Gens, NoInsert, Bundles, EmptyBuffer, Buffers
<1>2. NetType(M, P)
  BY <1>1 DEF NetInit, NetType
<1>3. \A n \in Nodes : Gid(n) \in Groups /\ Gen(n) \in Nat
  BY NodeFacts
<1>4. StatusInv
  BY <1>3 DEF NetInit, StatusInv
<1>5. IdleInv
  BY DEF NetInit, IdleInv
<1>6. Range(<<>>) = {} /\ EmptyBuffer.payloads = <<>> /\ NoPLm(<<>>)
  BY DEF Range, EmptyBuffer, NoPLm
<1>7. FreshInv
  BY <1>6 DEF NetInit, FreshInv
<1>8. BlockedInv
  BY <1>6 DEF NetInit, BlockedInv
<1>9. \A g \in Groups, n \in Nodes : \A p : ~UnderWayTo(g, n, p)
  BY <1>6 DEF NetInit, UnderWayTo
<1> QED
  BY <1>2, <1>4, <1>5, <1>6, <1>7, <1>8, <1>9 DEF NetInit, NetInv

(* No message is added to those under way. *)
NothingSent ==
  \A g \in Groups, n \in Nodes : \A p : UnderWayTo(g, n, p)' => UnderWayTo(g, n, p)

(* Receive moves a message to a buffer or drops it, and announces a newer  *)
(* Leadership.                                                             *)
LEMMA ReceiveNet ==
  ASSUME NEW M, NEW P, NetInv(M, P), NEW e \in Linked, Receive(e[2], e[1])
  PROVE  NetInv(M, P)' /\ NothingSent
<1> DEFINE n == e[2]
           g == Gid(e[1])
           k == Gen(e[1])
           m == Head(chan[e])
           buffered == network_buffer[n][g].payloads
<1>1. n \in Nodes /\ e[1] \in Nodes /\ g \in Groups /\ k \in Gens /\ e = <<e[1], n>>
  BY LinkedFacts, NodeFacts
<1>2. /\ chan[e] # <<>>
      /\ status[n] = "leader"
      /\ chan' = [chan EXCEPT ![e] = Tail(@)]
      /\ UNCHANGED <<logVars, status, leader_map, tablet_bundle, tablet_bundles, next_insert,
                     inbox>>
  BY <1>1 DEF Receive
<1>3. /\ chan[e] \in Seq(M) /\ m \in M /\ m \in Range(chan[e])
      /\ Tail(chan[e]) \in Seq(M) /\ Range(Tail(chan[e])) \subseteq Range(chan[e])
  BY <1>2, RangeTail DEF NetInv, NetType
<1>4. network_buffer[n][g] \in Buffers(M) /\ buffered \in Seq(M)
  BY <1>1 DEF NetInv, NetType, Buffers
<1>5. \/ network_buffer' = network_buffer
      \/ \E ps \in Seq(M) :
           /\ network_buffer' = [network_buffer EXCEPT ![n][g] = [gen |-> k, payloads |-> ps]]
           /\ Range(ps) \subseteq Range(buffered) \cup {m}
  <2>1. Append(buffered, m) \in Seq(M) /\ Range(Append(buffered, m)) = Range(buffered) \cup {m}
    BY <1>3, <1>4, RangeAppend
  <2>2. <<m>> \in Seq(M) /\ Range(<<m>>) = {m}
    BY <1>3 DEF Range
  <2>3. \/ network_buffer' = network_buffer
        \/ network_buffer' = [network_buffer EXCEPT ![n][g] =
                                [gen |-> k, payloads |-> Append(buffered, m)]]
        \/ network_buffer' = [network_buffer EXCEPT ![n][g] = [gen |-> k, payloads |-> <<m>>]]
    BY <1>1 DEF Receive
  <2> QED
    BY <2>1, <2>2, <2>3
<1>6. remote_leader_changes' \in [Nodes -> Seq(RLCs)]
  <2>1. CASE UNCHANGED remote_leader_changes
    BY <2>1 DEF NetInv, NetType
  <2>2. CASE k > Known(n, g) /\ PushRLC(n, g, k)
    <3>1. Known(n, g) \in Gens
      BY <1>1, <1>4 DEF Known, NetInv, NetType, Buffers
    <3>2. k \in 1 .. MaxGen
      BY <1>1, <2>2, <3>1, NetworkAssumption DEF Gens
    <3>3. RLC(g, k) \in RLCs
      BY <1>1, <3>2 DEF RLC, RLCs
    <3>4. Append(remote_leader_changes[n], RLC(g, k)) \in Seq(RLCs)
      BY <1>1, <3>3, RangeAppend DEF NetInv, NetType
    <3> QED
      BY <1>1, <2>2, <3>4 DEF PushRLC, NetInv, NetType
  <2> QED
    BY <2>1, <2>2 DEF Receive
<1> HIDE DEF n, g, k, m, buffered
<1>7. network_buffer' \in [Nodes -> [Groups -> Buffers(M)]]
  <2>1. ASSUME NEW ps \in Seq(M)
        PROVE  [gen |-> k, payloads |-> ps] \in Buffers(M)
    BY <1>1 DEF Buffers
  <2>2. network_buffer \in [Nodes -> [Groups -> Buffers(M)]]
    BY DEF NetInv, NetType
  <2>3. ASSUME NEW b \in Buffers(M)
        PROVE  [network_buffer EXCEPT ![n][g] = b] \in [Nodes -> [Groups -> Buffers(M)]]
    BY <1>1, <2>2
  <2> QED
    BY <1>5, <2>1, <2>2, <2>3
<1>8. chan' \in [Linked -> Seq(M)]
  BY <1>2, <1>3 DEF NetInv, NetType
<1>9. NetType(M, P)'
  BY <1>2, <1>6, <1>7, <1>8 DEF NetInv, NetType, logVars
<1>10. \A x \in Nodes, h \in Groups :
         network_buffer'[x][h] = network_buffer[x][h] \/ (x = n /\ h = g)
  BY <1>1, <1>5 DEF NetInv, NetType
<1>11. BlockedInv'
  BY <1>2, <1>10, LinkedFacts DEF NetInv, BlockedInv, n, g
<1>12. NothingSent
  <2> SUFFICES ASSUME NEW h \in Groups, NEW x \in Nodes, NEW p, UnderWayTo(h, x, p)'
               PROVE  UnderWayTo(h, x, p)
    BY DEF NothingSent
  <2>1. \A d \in Linked : Range(chan'[d]) \subseteq Range(chan[d])
    BY <1>2, <1>3 DEF NetInv, NetType
  <2>2. CASE \E d \in Linked : d[2] = x /\ Gid(d[1]) = h /\ p \in Range(chan'[d])
    BY <2>1, <2>2 DEF UnderWayTo
  <2>3. CASE p \in Range(network_buffer'[x][h].payloads)
    <3>1. CASE network_buffer'[x][h] = network_buffer[x][h]
      BY <2>3, <3>1 DEF UnderWayTo
    <3>2. CASE x = n /\ h = g /\ network_buffer' # network_buffer
      <4>1. p \in Range(buffered) \cup {m}
        BY <1>1, <1>5, <2>3, <3>2 DEF NetInv, NetType
      <4> QED
        BY <1>3, <3>2, <4>1 DEF UnderWayTo, buffered, m, n, g
    <3> QED
      BY <1>10, <3>1, <3>2
  <2>4. CASE Payload(h, p) \in Range(inbox'[x])
    BY <1>2, <2>4 DEF UnderWayTo
  <2> QED
    BY <2>2, <2>3, <2>4 DEF UnderWayTo
<1> QED
  BY <1>2, <1>9, <1>11, <1>12 DEF NetInv, StatusInv, IdleInv, FreshInv, logVars

(* A gossip announces a newer Leadership. *)
LEMMA GossipNet ==
  ASSUME NEW M, NEW P, NetInv(M, P), NEW n \in Nodes, NEW src \in Nodes,
         RemoteLeaderChangedGossip(n, src)
  PROVE  NetInv(M, P)' /\ NothingSent
<1>1. Gid(src) \in Groups /\ Gen(src) \in Gens /\ leader_map[n][Gid(src)] \in Gens
  BY NodeFacts DEF NetInv, NetType
<1>2. /\ Gen(src) > leader_map[n][Gid(src)]
      /\ PushRLC(n, Gid(src), Gen(src))
      /\ UNCHANGED <<logVars, status, leader_map, tablet_bundle, tablet_bundles, next_insert,
                     network_buffer, chan, inbox>>
  BY DEF RemoteLeaderChangedGossip
<1>3. Gen(src) \in 1 .. MaxGen
  BY <1>1, <1>2, NetworkAssumption DEF Gens
<1>4. RLC(Gid(src), Gen(src)) \in RLCs
  BY <1>1, <1>3 DEF RLC, RLCs
<1>5. Append(remote_leader_changes[n], RLC(Gid(src), Gen(src))) \in Seq(RLCs)
  BY <1>4, RangeAppend DEF NetInv, NetType
<1>6. remote_leader_changes' \in [Nodes -> Seq(RLCs)]
  BY <1>2, <1>5 DEF PushRLC, NetInv, NetType
<1>7. NetType(M, P)'
  BY <1>2, <1>6 DEF NetInv, NetType, logVars
<1> QED
  BY <1>2, <1>7 DEF NetInv, StatusInv, IdleInv, FreshInv, BlockedInv, NothingSent, UnderWayTo,
     logVars

(* maybe_start_insert puts the bundle of the current leader in the log. *)
LEMMA InsertNet ==
  ASSUME NEW M, NEW P, NetInv(M, P), NEW n \in Nodes, maybe_start_insert(n)
  PROVE  NetInv(M, P)' /\ NothingSent
<1> DEFINE bundle == [rlcs |-> remote_leader_changes[n], plms |-> tablet_bundles[n]]
<1>1. Gid(n) \in Groups
  BY NodeFacts
<1>2. /\ status[n] = "leader"
      /\ next_insert' = [next_insert EXCEPT ![n] = bundle]
      /\ log_leader_map' = [log_leader_map EXCEPT ![Gid(n)] = Replayed(@, bundle.rlcs)]
      /\ log_plms' = [log_plms EXCEPT ![Gid(n)] = @ \o bundle.plms]
      /\ remote_leader_changes' = [remote_leader_changes EXCEPT ![n] = <<>>]
      /\ tablet_bundles' = [tablet_bundles EXCEPT ![n] = <<>>]
      /\ UNCHANGED <<log_gen, status, leader_map, tablet_bundle, network_buffer, chan, inbox>>
  BY DEF maybe_start_insert
<1>3. bundle \in Bundles(P)
  BY DEF NetInv, NetType, Bundles
<1>4. Replayed(log_leader_map[Gid(n)], bundle.rlcs) \in [Groups -> Gens]
  BY <1>1, <1>3, ReplayedFacts DEF NetInv, NetType, Bundles
<1>5. log_plms[Gid(n)] \o bundle.plms \in Seq(P)
  BY <1>1, <1>3, ConcatProperties DEF NetInv, NetType, Bundles
<1> HIDE DEF bundle
<1>6. next_insert' \in [Nodes -> Bundles(P)]
  BY <1>2, <1>3 DEF NetInv, NetType
<1>7. /\ log_leader_map' \in [Groups -> [Groups -> Gens]]
      /\ log_plms' \in [Groups -> Seq(P)]
  BY <1>2, <1>4, <1>5 DEF NetInv, NetType
<1>8. /\ remote_leader_changes' \in [Nodes -> Seq(RLCs)]
      /\ tablet_bundles' \in [Nodes -> Seq(P)]
  BY <1>2 DEF NetInv, NetType
<1>9. NetType(M, P)'
  BY <1>2, <1>6, <1>7, <1>8 DEF NetInv, NetType
<1>10. IdleInv'
  BY <1>2 DEF NetInv, NetType, IdleInv
<1> QED
  BY <1>2, <1>9, <1>10 DEF NetInv, StatusInv, FreshInv, BlockedInv, NothingSent, UnderWayTo

(* process_bundle forwards the bundle of a leader to it. *)
LEMMA ProcessNet ==
  ASSUME NEW M, NEW P, NetInv(M, P), NEW n \in Nodes, process_bundle(n)
  PROVE  /\ NetInv(M, P)'
         /\ NothingSent
         /\ inbox' = [inbox EXCEPT ![n] = Forwarded(next_insert[n].rlcs, next_insert[n].plms)]
<1>1. /\ status[n] = "leader"
      /\ next_insert' = [next_insert EXCEPT ![n] = NoInsert]
      /\ UNCHANGED <<logVars, status, leader_map, remote_leader_changes, tablet_bundle,
                     tablet_bundles, network_buffer, chan>>
  BY DEF process_bundle
<1>2. inbox' = [inbox EXCEPT ![n] = Forwarded(next_insert[n].rlcs, next_insert[n].plms)]
  BY DEF process_bundle, Forwarded
<1> DEFINE new == Forwarded(next_insert[n].rlcs, next_insert[n].plms)
<1>3. /\ new \in Seq(Items(M, P))
      /\ \A item \in Range(new) : item.type # "Payload" /\ item # LC
  BY ForwardedFacts DEF NetInv, NetType, Bundles
<1> HIDE DEF new
<1>4. inbox' = [inbox EXCEPT ![n] = new]
  BY <1>2 DEF new
<1>5. NoInsert \in Bundles(P)
  BY DEF NoInsert, Bundles
<1>6. NetType(M, P)'
  BY <1>1, <1>3, <1>4, <1>5 DEF NetInv, NetType, logVars
<1>7. \A x \in Nodes : inbox'[x] = IF x = n THEN new ELSE inbox[x]
  BY <1>4 DEF NetInv, NetType
<1>8. \A g, p : Payload(g, p).type = "Payload"
  BY DEF Payload
<1>9. IdleInv'
  BY <1>1, <1>7 DEF NetInv, NetType, IdleInv
<1>10. FreshInv' /\ BlockedInv'
  BY <1>1, <1>3, <1>7 DEF NetInv, FreshInv, BlockedInv, logVars
<1>11. NothingSent
  BY <1>1, <1>3, <1>7, <1>8 DEF NothingSent, UnderWayTo
<1> QED
  BY <1>1, <1>2, <1>6, <1>9, <1>10, <1>11 DEF NetInv, StatusInv, logVars

(* deliver_blocked_messages moves what a buffer holds to the inputs of its *)
(* node, or drops it.                                                      *)
LEMMA DeliverNet ==
  ASSUME NEW M, NEW P, NetInv(M, P), NEW n \in Nodes, deliver_blocked_messages(n)
  PROVE  /\ NetInv(M, P)'
         /\ NothingSent
         /\ NoPLm(inbox[n]) => NoPLm(inbox'[n])
         /\ \A x : OnePLm(inbox[n], x) => OnePLm(inbox'[n], x)
         /\ \A x \in Nodes : x # n => inbox'[x] = inbox[x]
<1> DEFINE g == Head(inbox[n]).gid
           k == Head(inbox[n]).gen
           rest == Tail(inbox[n])
           added == inbox'[n]
<1>1. /\ inbox[n] # <<>>
      /\ Head(inbox[n]).type = "Unblock"
      /\ inbox[n] \in Seq(Items(M, P))
      /\ UNCHANGED <<logVars, status, leader_map, bundleVars, chan>>
  BY DEF deliver_blocked_messages, NetInv, NetType
<1>2. /\ Head(inbox[n]) \in Items(M, P)
      /\ Head(inbox[n]) \in Range(inbox[n])
      /\ rest \in Seq(Items(M, P))
      /\ Range(rest) \subseteq Range(inbox[n])
  BY <1>1, RangeTail
<1>3. Head(inbox[n]) \in Unblocks
  BY <1>1, <1>2 DEF Items, RLCs, PLmItems, PayloadItems, LC
<1>4. g \in Groups /\ k \in 1 .. MaxGen /\ k \in Int /\ k >= 1
  BY <1>3, NetworkAssumption DEF Unblocks
<1>5. network_buffer[n][g] \in Buffers(M)
  BY <1>4 DEF NetInv, NetType
<1>6. /\ BlockedOf(n, g) \in Seq(Items(M, P))
      /\ NoPLm(BlockedOf(n, g))
      /\ Range(BlockedOf(n, g)) = {Payload(g, p) : p \in Range(network_buffer[n][g].payloads)}
  BY <1>4, <1>5, BlockedFacts
<1>7. LC \notin Range(inbox[n])
  BY <1>1 DEF NetInv, FreshInv, LC
<1>8. /\ NoPLm(inbox[n]) => NoPLm(rest)
      /\ \A x : OnePLm(inbox[n], x) => OnePLm(rest, x)
  BY <1>1, NoPLmTail, OnePLmTail
<1> DEFINE flushed == BlockedOf(n, g) \o rest
<1>9. /\ flushed \in Seq(Items(M, P))
      /\ Range(flushed) = Range(BlockedOf(n, g)) \cup Range(rest)
      /\ NoPLm(inbox[n]) => NoPLm(flushed)
      /\ \A x : OnePLm(inbox[n], x) => OnePLm(flushed, x)
  <2>1. ASSUME NEW s \in Seq(Items(M, P))
        PROVE  Range(s \o rest) = Range(s) \cup Range(rest)
    BY <1>2, RangeConcatenation
  <2>2. flushed \in Seq(Items(M, P))
    BY <1>2, <1>6, ConcatProperties
  <2>3. NoPLm(inbox[n]) => NoPLm(flushed)
    BY <1>2, <1>6, <1>8, NoPLmConcat
  <2>4. \A x : OnePLm(inbox[n], x) => OnePLm(flushed, x)
    BY <1>2, <1>6, <1>8, OnePLmConcat
  <2> QED
    BY <1>6, <2>1, <2>2, <2>3, <2>4
<1>10. \/ /\ network_buffer' = network_buffer
          /\ inbox' = [inbox EXCEPT ![n] = rest]
       \/ /\ network_buffer' = [network_buffer EXCEPT ![n][g] = EmptyBuffer]
          /\ inbox' = [inbox EXCEPT ![n] = rest]
       \/ /\ network_buffer' = [network_buffer EXCEPT ![n][g] = EmptyBuffer]
          /\ inbox' = [inbox EXCEPT ![n] = flushed]
          /\ k = leader_map[n][g]
  BY DEF deliver_blocked_messages, Unblocked
<1> HIDE DEF g, k, rest, flushed
<1>11. /\ \A x \in Nodes : x # n => inbox'[x] = inbox[x]
       /\ \/ inbox'[n] = rest
          \/ inbox'[n] = flushed /\ k = leader_map[n][g]
  BY <1>10 DEF NetInv, NetType
<1>12. \A x \in Nodes, h \in Groups :
         \/ network_buffer'[x][h] = network_buffer[x][h]
         \/ x = n /\ h = g /\ network_buffer'[x][h] = EmptyBuffer
  BY <1>4, <1>10 DEF NetInv, NetType
<1>13. EmptyBuffer.payloads = <<>> /\ EmptyBuffer \in Buffers(M)
  BY NetworkAssumption DEF EmptyBuffer, Buffers, Gens
<1>14. NetType(M, P)'
  <2>1. inbox' \in [Nodes -> Seq(Items(M, P))]
    BY <1>2, <1>9, <1>10 DEF NetInv, NetType
  <2>2. network_buffer' \in [Nodes -> [Groups -> Buffers(M)]]
    <3>1. network_buffer \in [Nodes -> [Groups -> Buffers(M)]]
      BY DEF NetInv, NetType
    <3>2. [network_buffer EXCEPT ![n][g] = EmptyBuffer] \in [Nodes -> [Groups -> Buffers(M)]]
      BY <1>4, <1>13, <3>1
    <3> QED
      BY <1>10, <3>1, <3>2
  <2> QED
    BY <1>1, <2>1, <2>2 DEF NetInv, NetType, logVars, bundleVars
<1>15. \A item \in Range(inbox'[n]) :
         \/ item \in Range(inbox[n])
         \/ /\ k = leader_map[n][g]
            /\ \E p \in Range(network_buffer[n][g].payloads) : item = Payload(g, p)
  BY <1>2, <1>6, <1>9, <1>11
<1>16. IdleInv'
  BY <1>1, <1>11 DEF NetInv, IdleInv, bundleVars
<1>17. FreshInv'
  BY <1>1, <1>7, <1>11, <1>15 DEF NetInv, FreshInv, logVars, LC, Payload
<1>18. BlockedInv'
  <2>1. ASSUME NEW x \in Nodes, NEW h \in Groups, network_buffer'[x][h].payloads # <<>>
        PROVE  <<h, Gid(x)>> \in Links
    BY <1>12, <1>13, <2>1 DEF NetInv, BlockedInv
  <2>2. ASSUME NEW x \in Nodes, NEW item \in Range(inbox'[x]), item.type = "Payload"
        PROVE  <<item.from, Gid(x)>> \in Links /\ leader_map'[x][item.from] >= 1
    <3>1. CASE item \in Range(inbox[x])
      BY <1>1, <2>2, <3>1 DEF NetInv, BlockedInv
    <3>2. CASE item \notin Range(inbox[x])
      <4>1. x = n /\ k = leader_map[n][g]
        BY <1>11, <1>15, <2>2, <3>2
      <4>2. PICK p \in Range(network_buffer[n][g].payloads) : item = Payload(g, p)
        BY <1>15, <2>2, <3>2, <4>1
      <4>3. network_buffer[n][g].payloads # <<>> /\ item.from = g
        BY <4>2 DEF Range, Payload
      <4> QED
        BY <1>1, <1>4, <4>1, <4>3 DEF NetInv, BlockedInv
    <3> QED
      BY <3>1, <3>2
  <2> QED
    BY <2>1, <2>2 DEF BlockedInv
<1>19. NothingSent
  <2> SUFFICES ASSUME NEW h \in Groups, NEW x \in Nodes, NEW p, UnderWayTo(h, x, p)'
               PROVE  UnderWayTo(h, x, p)
    BY DEF NothingSent
  <2>1. CASE \E d \in Linked : d[2] = x /\ Gid(d[1]) = h /\ p \in Range(chan'[d])
    BY <1>1, <2>1 DEF UnderWayTo
  <2>2. CASE p \in Range(network_buffer'[x][h].payloads)
    BY <1>12, <1>13, <2>2 DEF UnderWayTo, Range
  <2>3. CASE Payload(h, p) \in Range(inbox'[x])
    <3>1. CASE Payload(h, p) \in Range(inbox[x])
      BY <3>1 DEF UnderWayTo
    <3>2. CASE Payload(h, p) \notin Range(inbox[x])
      <4>1. x = n /\ \E q \in Range(network_buffer[n][g].payloads) : Payload(h, p) = Payload(g, q)
        BY <1>11, <1>15, <2>3, <3>2
      <4>2. h = g /\ p \in Range(network_buffer[n][g].payloads)
        BY <4>1 DEF Payload
      <4> QED
        BY <4>1, <4>2 DEF UnderWayTo
    <3> QED
      BY <3>1, <3>2
  <2> QED
    BY <2>1, <2>2, <2>3 DEF UnderWayTo
<1> QED
  BY <1>1, <1>8, <1>9, <1>11, <1>14, <1>16, <1>17, <1>18, <1>19
     DEF NetInv, StatusInv, logVars

(* A Leadership is gained by the node of the next generation. *)
LEMMA GainNet ==
  ASSUME NEW M, NEW P, NetInv(M, P), Quiet, NEW g \in Groups, GainLeadership(g)
  PROVE  /\ NetInv(M, P)'
         /\ NothingSent
         /\ <<g, log_gen[g] + 1>> \in Nodes
         /\ status[<<g, log_gen[g] + 1>>] # "leader"
<1> DEFINE k == log_gen[g] + 1
           n == <<g, k>>
<1>1. /\ log_gen' = [log_gen EXCEPT ![g] = k]
      /\ log_leader_map' = [log_leader_map EXCEPT ![g][g] = k]
      /\ status' = [status EXCEPT ![n] = "leader"]
      /\ leader_map' = [leader_map EXCEPT ![n] = log_leader_map'[g]]
      /\ inbox' = [inbox EXCEPT ![n] = <<LC>>]
      /\ UNCHANGED <<log_plms, bundleVars, network_buffer, chan>>
  BY DEF GainLeadership
<1>2. \/ \E bound \in LeaderChanges : \A h \in Groups : log_gen'[h] =< bound[h]
      \/ k =< MaxGen
  BY DEF GainLeadership
<1>3. log_gen[g] \in Nat /\ log_gen'[g] = k
  BY <1>1, NetworkAssumption DEF NetInv, NetType, Gens
<1>4. k \in Gens /\ n \in Nodes /\ Gid(n) = g /\ Gen(n) = k
  <2>1. k =< MaxGen
    <3>1. ASSUME NEW bound \in LeaderChanges, \A h \in Groups : log_gen'[h] =< bound[h]
          PROVE  k =< MaxGen
      <4>1. bound[g] \in 0 .. MaxGen /\ k =< bound[g]
        BY <1>3, <3>1, NetworkAssumption DEF Gens
      <4> QED
        BY <1>3, <4>1, NetworkAssumption
    <3> QED
      BY <1>2, <3>1
  <2>2. k \in Gens
    BY <1>3, <2>1, NetworkAssumption DEF Gens
  <2> QED
    BY <2>2 DEF Nodes, Gid, Gen
<1>5. status[n] # "leader"
  BY <1>3, <1>4 DEF NetInv, StatusInv
<1> HIDE DEF k, n
<1>6. NetType(M, P)'
  <2>1. log_gen' \in [Groups -> Gens]
    BY <1>1, <1>4 DEF NetInv, NetType
  <2>2. log_leader_map' \in [Groups -> [Groups -> Gens]]
    BY <1>1, <1>4 DEF NetInv, NetType
  <2>3. status' \in [Nodes -> {"none", "leader", "retired", "panicked"}]
    BY <1>1, <1>4 DEF NetInv, NetType
  <2>4. leader_map' \in [Nodes -> [Groups -> Gens]]
    BY <1>1, <1>4, <2>2 DEF NetInv, NetType
  <2>5. LC \in Items(M, P)
    BY DEF Items
  <2>6. <<LC>> \in Seq(Items(M, P))
    BY <2>5
  <2>7. inbox' \in [Nodes -> Seq(Items(M, P))]
    BY <1>1, <2>6 DEF NetInv, NetType
  <2> QED
    BY <1>1, <2>1, <2>2, <2>3, <2>4, <2>7 DEF NetInv, NetType, bundleVars
<1>7. /\ \A x \in Nodes : x # n => /\ inbox'[x] = <<>>
                                   /\ status'[x] = status[x]
                                   /\ leader_map'[x] = leader_map[x]
      /\ inbox'[n] = <<LC>> /\ status'[n] = "leader"
  BY <1>1, <1>4 DEF NetInv, NetType, Quiet
<1>8. \A h \in Groups : log_gen'[h] = IF h = g THEN k ELSE log_gen[h]
  BY <1>1 DEF NetInv, NetType
<1>9. StatusInv'
  <2>1. ASSUME NEW x \in Nodes
        PROVE  /\ Gen(x) = log_gen'[Gid(x)] => status'[x] # "none"
               /\ status'[x] = "leader" => Gen(x) =< log_gen'[Gid(x)]
    <3>1. Gid(x) \in Groups /\ Gen(x) \in Nat /\ x = <<Gid(x), Gen(x)>>
      BY NodeFacts
    <3>2. CASE x = n
      BY <1>3, <1>4, <1>7, <1>8, <3>1, <3>2
    <3>3. CASE x # n /\ Gid(x) = g
      <4>1. Gen(x) # k
        BY <3>1, <3>3 DEF n
      <4> QED
        BY <1>3, <1>7, <1>8, <3>1, <3>3, <4>1 DEF NetInv, StatusInv, k
    <3>4. CASE x # n /\ Gid(x) # g
      BY <1>7, <1>8, <3>1, <3>4 DEF NetInv, StatusInv
    <3> QED
      BY <3>2, <3>3, <3>4
  <2> QED
    BY <2>1 DEF StatusInv
<1>10. IdleInv'
  BY <1>1, <1>7 DEF NetInv, IdleInv, bundleVars
<1>11. Range(<<>>) = {} /\ Range(<<LC>>) = {LC} /\ LC.type = "LeaderChanged"
  BY DEF Range, LC
<1>12. FreshInv'
  BY <1>4, <1>7, <1>8, <1>11 DEF FreshInv
<1>13. BlockedInv'
  BY <1>1, <1>7, <1>11 DEF NetInv, BlockedInv
<1>14. NothingSent
  <2>1. \A h, p : Payload(h, p) # LC
    BY DEF Payload, LC
  <2> QED
    BY <1>1, <1>7, <1>11, <2>1 DEF NothingSent, UnderWayTo
<1> QED
  BY <1>4, <1>5, <1>6, <1>9, <1>10, <1>12, <1>13, <1>14 DEF NetInv, n, k

(* A leader that the log has deposed drops all that it holds. *)
LEMMA LoseNet ==
  ASSUME NEW M, NEW P, NetInv(M, P), Quiet, NEW n \in Nodes, LoseLeadership(n)
  PROVE  NetInv(M, P)' /\ NothingSent
<1>1. /\ log_gen[Gid(n)] > Gen(n)
      /\ next_insert[n] = NoInsert
      /\ status' = [status EXCEPT ![n] = "retired"]
      /\ leader_map' = [leader_map EXCEPT ![n] = [h \in Groups |-> 0]]
      /\ remote_leader_changes' = [remote_leader_changes EXCEPT ![n] = <<>>]
      /\ tablet_bundle' = [tablet_bundle EXCEPT ![n] = <<>>]
      /\ tablet_bundles' = [tablet_bundles EXCEPT ![n] = <<>>]
      /\ network_buffer' = [network_buffer EXCEPT ![n] = [h \in Groups |-> EmptyBuffer]]
      /\ chan' = [e \in Linked |-> IF e[2] = n THEN <<>> ELSE chan[e]]
      /\ UNCHANGED <<logVars, next_insert, inbox>>
  BY DEF LoseLeadership
<1>2. Gid(n) \in Groups /\ Gen(n) \in Nat /\ log_gen[Gid(n)] \in Nat
  BY NodeFacts, NetworkAssumption DEF NetInv, NetType, Gens
<1>3. EmptyBuffer.payloads = <<>> /\ EmptyBuffer \in Buffers(M) /\ 0 \in Gens
  BY NetworkAssumption DEF EmptyBuffer, Buffers, Gens
<1>4. NetType(M, P)'
  <2>1. /\ status' \in [Nodes -> {"none", "leader", "retired", "panicked"}]
        /\ leader_map' \in [Nodes -> [Groups -> Gens]]
    BY <1>1, <1>3 DEF NetInv, NetType
  <2>2. /\ remote_leader_changes' \in [Nodes -> Seq(RLCs)]
        /\ tablet_bundle' \in [Nodes -> Seq(P)]
        /\ tablet_bundles' \in [Nodes -> Seq(P)]
    BY <1>1 DEF NetInv, NetType
  <2>3. network_buffer' \in [Nodes -> [Groups -> Buffers(M)]]
    BY <1>1, <1>3 DEF NetInv, NetType
  <2>4. chan' \in [Linked -> Seq(M)]
    BY <1>1 DEF NetInv, NetType
  <2> QED
    BY <1>1, <2>1, <2>2, <2>3, <2>4 DEF NetInv, NetType, logVars
<1>5. \A x \in Nodes : x # n => /\ status'[x] = status[x]
                               /\ tablet_bundle'[x] = tablet_bundle[x]
                               /\ tablet_bundles'[x] = tablet_bundles[x]
                               /\ network_buffer'[x] = network_buffer[x]
  BY <1>1 DEF NetInv, NetType
<1>6. /\ status'[n] = "retired" /\ tablet_bundle'[n] = <<>> /\ tablet_bundles'[n] = <<>>
      /\ \A h \in Groups : network_buffer'[n][h] = EmptyBuffer
  BY <1>1 DEF NetInv, NetType
<1>7. \A x \in Nodes : inbox'[x] = <<>>
  BY <1>1 DEF Quiet
<1>8. StatusInv'
  BY <1>1, <1>2, <1>5, <1>6 DEF NetInv, StatusInv, logVars
<1>9. IdleInv'
  BY <1>1, <1>5, <1>6, <1>7 DEF NetInv, IdleInv
<1>10. Range(<<>>) = {}
  BY DEF Range
<1>11. FreshInv' /\ BlockedInv'
  BY <1>3, <1>5, <1>6, <1>7, <1>10 DEF NetInv, FreshInv, BlockedInv
<1>12. NothingSent
  <2>1. \A e \in Linked : Range(chan'[e]) \subseteq Range(chan[e])
    BY <1>1, <1>10
  <2>2. \A x \in Nodes, h \in Groups :
          Range(network_buffer'[x][h].payloads) \subseteq Range(network_buffer[x][h].payloads)
    BY <1>3, <1>5, <1>6, <1>10
  <2> QED
    BY <1>7, <1>10, <2>1, <2>2 DEF NothingSent, UnderWayTo
<1> QED
  BY <1>4, <1>8, <1>9, <1>11, <1>12 DEF NetInv

(* A Tablet hands its bundle over. *)
LEMMA HandOverNet ==
  ASSUME NEW M, NEW P, NetInv(M, P), NEW n \in Nodes, status[n] = "leader", NEW b \in Seq(P),
         tablet_bundle' = [tablet_bundle EXCEPT ![n] = <<>>],
         tablet_bundles' = [tablet_bundles EXCEPT ![n] = b],
         UNCHANGED <<logVars, status, leader_map, remote_leader_changes, next_insert,
                     network_buffer, chan, inbox>>
  PROVE  NetInv(M, P)' /\ NothingSent
<1>1. /\ tablet_bundle' \in [Nodes -> Seq(P)]
      /\ tablet_bundles' \in [Nodes -> Seq(P)]
      /\ \A x \in Nodes : x # n => /\ tablet_bundle'[x] = tablet_bundle[x]
                                   /\ tablet_bundles'[x] = tablet_bundles[x]
  BY DEF NetInv, NetType
<1>2. NetType(M, P)'
  BY <1>1 DEF NetInv, NetType, logVars
<1>3. IdleInv'
  BY <1>1 DEF NetInv, IdleInv
<1>4. StatusInv' /\ FreshInv' /\ BlockedInv'
  BY DEF NetInv, StatusInv, FreshInv, BlockedInv, logVars
<1> QED
  BY <1>2, <1>3, <1>4 DEF NetInv, NothingSent, UnderWayTo

(* A node sends something of its own accord. *)
LEMMA SendNet ==
  ASSUME NEW M, NEW P, NetInv(M, P), chan' \in [Linked -> Seq(M)],
         UNCHANGED <<logVars, status, leader_map, bundleVars, network_buffer, inbox>>
  PROVE  NetInv(M, P)'
<1>1. NetType(M, P)'
  BY DEF NetInv, NetType, logVars, bundleVars
<1> QED
  BY <1>1 DEF NetInv, StatusInv, IdleInv, FreshInv, BlockedInv, logVars, bundleVars
-----------------------------------------------------------------------------
(* Handling an input *)

(* An input was forwarded to the node, or is the first message of a queue  *)
(* that its NetworkDriver delivers.                                        *)
IsForwarded(n, in) ==
  /\ inbox[n] # <<>>
  /\ in.item = Head(inbox[n])
  /\ in.rest = Tail(inbox[n])
  /\ in.queues = chan

IsDelivered(n, in) ==
  /\ inbox[n] = <<>>
  /\ in.rest = <<>>
  /\ \E e \in Linked :
       /\ e[2] = n /\ Delivers(n, e[1]) /\ chan[e] # <<>>
       /\ in.item = Payload(Gid(e[1]), Head(chan[e]))
       /\ in.queues = [chan EXCEPT ![e] = Tail(@)]

(* There are no other inputs. *)
LEMMA InputSource ==
  ASSUME NEW n \in Nodes, NEW in \in Inputs(n)
  PROVE  IsForwarded(n, in) \/ IsDelivered(n, in)
<1>1. CASE inbox[n] # <<>>
  BY <1>1 DEF Inputs, IsForwarded
<1>2. CASE inbox[n] = <<>>
  <2>1. PICK e \in {d \in Linked : d[2] = n /\ Delivers(n, d[1]) /\ Quiet} :
          in = [item |-> Payload(Gid(e[1]), Head(chan[e])), rest |-> <<>>,
                queues |-> [chan EXCEPT ![e] = Tail(@)]]
    BY <1>2 DEF Inputs
  <2>2. e = <<e[1], n>>
    BY <2>1, LinkedFacts
  <2>3. chan[e] # <<>>
    BY <2>1, <2>2 DEF Delivers
  <2> QED
    BY <1>2, <2>1, <2>3 DEF IsDelivered
<1> QED
  BY <1>1, <1>2

(* What is known of an input and of what is left after it. *)
LEMMA InputFacts ==
  ASSUME NEW M, NEW P, NetInv(M, P), NEW n \in Nodes, NEW in \in Inputs(n)
  PROVE  /\ status[n] = "leader"
         /\ in.item \in Items(M, P)
         /\ in.rest \in Seq(Items(M, P))
         /\ in.queues \in [Linked -> Seq(M)]
         /\ Range(in.rest) \subseteq Range(inbox[n])
         /\ \A e \in Linked : Range(in.queues[e]) \subseteq Range(chan[e])
         /\ in.item.type = "Payload" =>
              /\ in.item.from \in Groups
              /\ <<in.item.from, Gid(n)>> \in Links
              /\ UnderWayTo(in.item.from, n, in.item.payload)
         /\ in.item.type # "Payload" => in.item \in Range(inbox[n])
         /\ LC \in Range(inbox[n]) => in.item = LC
         /\ LC \notin Range(in.rest)
         /\ NoPLm(inbox[n]) => NoPLm(in.rest) /\ in.item.type # "PLm"
         /\ \A x : OnePLm(inbox[n], x) =>
              IF in.item.type = "PLm" THEN in.item = PLm(x) /\ NoPLm(in.rest)
              ELSE OnePLm(in.rest, x)
<1>0. \A g, p : /\ Payload(g, p).type = "Payload"
                /\ Payload(g, p).from = g
                /\ Payload(g, p).payload = p
  BY DEF Payload
<1>1. CASE IsForwarded(n, in)
  <2>0. /\ inbox[n] # <<>>
        /\ in.item = Head(inbox[n]) /\ in.rest = Tail(inbox[n]) /\ in.queues = chan
    BY <1>1 DEF IsForwarded
  <2>1. inbox[n] \in Seq(Items(M, P)) /\ chan \in [Linked -> Seq(M)]
    BY DEF NetInv, NetType
  <2>2. /\ in.item \in Items(M, P)
        /\ in.item \in Range(inbox[n])
        /\ in.rest \in Seq(Items(M, P))
        /\ Range(in.rest) \subseteq Range(inbox[n])
    BY <2>0, <2>1, RangeTail
  <2>3. status[n] = "leader"
    BY <2>0 DEF NetInv, IdleInv
  <2>4. NoPLm(inbox[n]) => NoPLm(in.rest) /\ in.item.type # "PLm"
    BY <2>0, <2>1, NoPLmTail
  <2>5. \A x : OnePLm(inbox[n], x) =>
          IF in.item.type = "PLm" THEN in.item = PLm(x) /\ NoPLm(in.rest)
          ELSE OnePLm(in.rest, x)
    BY <2>0, <2>1, OnePLmTail
  <2>6. LC \in Range(inbox[n]) => in.item = LC /\ in.rest = <<>>
    <3>1. ASSUME NEW x
          PROVE  Head(<<x>>) = x /\ Tail(<<x>>) = <<>>
      OBVIOUS
    <3> QED
      BY <2>0, <3>1 DEF NetInv, FreshInv
  <2>7. LC \notin Range(in.rest)
    <3>1. Range(<<>>) = {}
      BY DEF Range
    <3> QED
      BY <2>2, <2>6, <3>1
  <2>8. ASSUME in.item.type = "Payload"
        PROVE  /\ in.item.from \in Groups
               /\ <<in.item.from, Gid(n)>> \in Links
               /\ UnderWayTo(in.item.from, n, in.item.payload)
    <3>1. in.item \in PayloadItems(M)
      BY <2>2, <2>8 DEF Items, RLCs, Unblocks, PLmItems, LC
    <3>2. in.item = Payload(in.item.from, in.item.payload) /\ in.item.from \in Groups
      BY <3>1 DEF PayloadItems, Payload
    <3>3. <<in.item.from, Gid(n)>> \in Links
      BY <2>2, <2>8 DEF NetInv, BlockedInv
    <3> QED
      BY <2>2, <3>2, <3>3 DEF UnderWayTo
  <2> QED
    BY <2>0, <2>1, <2>2, <2>3, <2>4, <2>5, <2>6, <2>7, <2>8
<1>2. CASE IsDelivered(n, in)
  <2>0. inbox[n] = <<>> /\ in.rest = <<>>
    BY <1>2 DEF IsDelivered
  <2>1. PICK e \in Linked :
          /\ e[2] = n /\ Delivers(n, e[1]) /\ chan[e] # <<>>
          /\ in.item = Payload(Gid(e[1]), Head(chan[e]))
          /\ in.queues = [chan EXCEPT ![e] = Tail(@)]
    BY <1>2 DEF IsDelivered
  <2>2. chan \in [Linked -> Seq(M)]
    BY DEF NetInv, NetType
  <2>3. /\ Head(chan[e]) \in M /\ Head(chan[e]) \in Range(chan[e])
        /\ Tail(chan[e]) \in Seq(M) /\ Range(Tail(chan[e])) \subseteq Range(chan[e])
    BY <2>1, <2>2, RangeTail
  <2>4. /\ in.queues \in [Linked -> Seq(M)]
        /\ \A d \in Linked : Range(in.queues[d]) \subseteq Range(chan[d])
    BY <2>1, <2>2, <2>3
  <2>5. Gid(e[1]) \in Groups /\ <<Gid(e[1]), Gid(n)>> \in Links
    BY <2>1, LinkedFacts, NodeFacts
  <2>6. in.item \in Items(M, P)
    BY <2>1, <2>3, <2>5 DEF Items, PayloadItems, Payload
  <2>7. UnderWayTo(Gid(e[1]), n, Head(chan[e]))
    BY <2>1, <2>3 DEF UnderWayTo
  <2>8. status[n] = "leader"
    BY <2>1 DEF Delivers
  <2>9. Range(<<>>) = {} /\ NoPLm(<<>>) /\ \A x : ~OnePLm(<<>>, x)
    BY DEF Range, NoPLm, OnePLm
  <2>10. in.rest \in Seq(Items(M, P)) /\ Range(in.rest) = {} /\ NoPLm(in.rest)
    BY <2>0, <2>9
  <2>11. /\ in.item.type = "Payload"
         /\ in.item.from = Gid(e[1])
         /\ in.item.payload = Head(chan[e])
    BY <1>0, <2>1
  <2>12. Range(inbox[n]) = {} /\ \A x : ~OnePLm(inbox[n], x)
    BY <2>0, <2>9
  <2> QED
    BY <2>4, <2>5, <2>6, <2>7, <2>8, <2>10, <2>11, <2>12
<1> QED
  BY <1>1, <1>2, InputSource

(* What handling an input does, apart from what is sent and gathered. *)
HandlesAt(n, in) ==
  /\ inbox' = [inbox EXCEPT ![n] = in.rest]
  /\ \/ leader_map' = leader_map
     \/ /\ in.item.type = "RemoteLeaderChanged"
        /\ leader_map' = [leader_map EXCEPT ![n] = RemoteLeaderChanged(@, in.item)]
  /\ \A x \in Nodes : x # n => /\ tablet_bundle'[x] = tablet_bundle[x]
                               /\ tablet_bundles'[x] = tablet_bundles[x]
  /\ UNCHANGED <<logVars, status, remote_leader_changes, next_insert, network_buffer>>

HandlesInput(n, in) == HandlesAt(n, in) /\ UNCHANGED tablet_bundles

(* That keeps NetInv, whatever is sent and gathered. *)
LEMMA HandleAtNet ==
  ASSUME NEW M, NEW P, NetInv(M, P), NEW n \in Nodes, NEW in \in Inputs(n),
         HandlesAt(n, in),
         chan' \in [Linked -> Seq(M)],
         tablet_bundle' \in [Nodes -> Seq(P)],
         tablet_bundles' \in [Nodes -> Seq(P)]
  PROVE  NetInv(M, P)'
<1> USE DEF HandlesAt
<1>1. /\ status[n] = "leader"
      /\ in.item \in Items(M, P)
      /\ in.rest \in Seq(Items(M, P))
      /\ Range(in.rest) \subseteq Range(inbox[n])
      /\ LC \notin Range(in.rest)
  BY InputFacts
<1>2. leader_map \in [Nodes -> [Groups -> Gens]]
  BY DEF NetInv, NetType
<1>3. /\ leader_map' \in [Nodes -> [Groups -> Gens]]
      /\ \A x \in Nodes, g \in Groups : leader_map[x][g] =< leader_map'[x][g]
  <2>1. CASE leader_map' = leader_map
    BY <1>2, <2>1, NetworkAssumption DEF Gens
  <2>2. CASE /\ in.item.type = "RemoteLeaderChanged"
             /\ leader_map' = [leader_map EXCEPT ![n] = RemoteLeaderChanged(@, in.item)]
    <3>1. in.item \in RLCs
      BY <1>1, <2>2 DEF Items, Unblocks, PLmItems, PayloadItems, LC
    <3>2. in.item.gid \in Groups /\ in.item.gen \in Gens /\ in.item.gen \in Int
      BY <3>1, NetworkAssumption DEF RLCs, Gens
    <3>3. \A g \in Groups : leader_map[n][g] \in Int
      BY <1>2, NetworkAssumption DEF Gens
    <3>4. /\ RemoteLeaderChanged(leader_map[n], in.item) \in [Groups -> Gens]
          /\ \A g \in Groups : leader_map[n][g] =< RemoteLeaderChanged(leader_map[n], in.item)[g]
      BY <1>2, <3>2, <3>3 DEF RemoteLeaderChanged
    <3>5. \A x \in Nodes, g \in Groups : leader_map[x][g] =< leader_map[x][g]
      BY <1>2, NetworkAssumption DEF Gens
    <3> QED
      BY <1>2, <2>2, <3>4, <3>5
  <2> QED
    BY <2>1, <2>2
<1>4. \A x \in Nodes : inbox'[x] = IF x = n THEN in.rest ELSE inbox[x]
  BY DEF NetInv, NetType
<1>5. inbox' \in [Nodes -> Seq(Items(M, P))]
  BY <1>1 DEF NetInv, NetType
<1>6. NetType(M, P)'
  BY <1>3, <1>5 DEF NetInv, NetType, logVars
<1>7. IdleInv'
  BY <1>1, <1>4 DEF NetInv, IdleInv
<1>8. FreshInv'
  BY <1>1, <1>4 DEF NetInv, FreshInv, logVars
<1>9. BlockedInv'
  <2>1. ASSUME NEW x \in Nodes, NEW item \in Range(inbox'[x]), item.type = "Payload"
        PROVE  <<item.from, Gid(x)>> \in Links /\ leader_map'[x][item.from] >= 1
    <3>1. <<item.from, Gid(x)>> \in Links /\ leader_map[x][item.from] >= 1
      BY <1>1, <1>4, <2>1 DEF NetInv, BlockedInv
    <3>2. item.from \in Groups
      BY <3>1, NetworkAssumption
    <3>3. leader_map[x][item.from] \in Int /\ leader_map'[x][item.from] \in Int
      BY <1>2, <1>3, <3>2, NetworkAssumption DEF Gens
    <3> QED
      BY <1>3, <3>1, <3>2, <3>3
  <2> QED
    BY <2>1 DEF NetInv, BlockedInv
<1> QED
  BY <1>6, <1>7, <1>8, <1>9 DEF NetInv, StatusInv, logVars

LEMMA HandleNet ==
  ASSUME NEW M, NEW P, NetInv(M, P), NEW n \in Nodes, NEW in \in Inputs(n),
         HandlesInput(n, in),
         chan' \in [Linked -> Seq(M)],
         tablet_bundle' \in [Nodes -> Seq(P)]
  PROVE  NetInv(M, P)'
<1>1. tablet_bundles' \in [Nodes -> Seq(P)]
  BY DEF HandlesInput, NetInv, NetType
<1> QED
  BY <1>1, HandleAtNet DEF HandlesInput

(* Out holds what is sent, each message with the group it is sent to: only *)
(* that is added to the messages under way.                                *)
LEMMA HandleSends ==
  ASSUME NEW M, NEW P, NetInv(M, P), NEW n \in Nodes, NEW in \in Inputs(n),
         inbox' = [inbox EXCEPT ![n] = in.rest],
         UNCHANGED network_buffer,
         NEW Out,
         \A e \in Linked : \A p \in Range(chan'[e]) :
           p \in Range(in.queues[e]) \/ (e[1] = n /\ <<Gid(e[2]), p>> \in Out)
  PROVE  \A g \in Groups, x \in Nodes : \A p :
           UnderWayTo(g, x, p)' =>
             UnderWayTo(g, x, p) \/ (g = Gid(n) /\ <<Gid(x), p>> \in Out)
<1> SUFFICES ASSUME NEW g \in Groups, NEW x \in Nodes, NEW p, UnderWayTo(g, x, p)'
             PROVE  UnderWayTo(g, x, p) \/ (g = Gid(n) /\ <<Gid(x), p>> \in Out)
  OBVIOUS
<1>1. /\ Range(in.rest) \subseteq Range(inbox[n])
      /\ \A e \in Linked : Range(in.queues[e]) \subseteq Range(chan[e])
  BY InputFacts
<1>2. \A y \in Nodes : inbox'[y] = IF y = n THEN in.rest ELSE inbox[y]
  BY DEF NetInv, NetType
<1>3. CASE \E e \in Linked : e[2] = x /\ Gid(e[1]) = g /\ p \in Range(chan'[e])
  BY <1>1, <1>3 DEF UnderWayTo
<1>4. CASE p \in Range(network_buffer'[x][g].payloads)
  BY <1>4 DEF UnderWayTo
<1>5. CASE Payload(g, p) \in Range(inbox'[x])
  BY <1>1, <1>2, <1>5 DEF UnderWayTo
<1> QED
  BY <1>3, <1>4, <1>5 DEF UnderWayTo

(* The queues hold what q does, and what n adds to those of the groups G. *)
SendsOnly(n, q, G, out) ==
  \A e \in Linked : \A p \in Range(chan'[e]) :
    p \in Range(q[e]) \/ (e[1] = n /\ Gid(e[2]) \in G /\ p = out[Gid(e[2])])

(* What is first in a queue stays first. *)
HeadsStay(q) ==
  \A e \in Linked : q[e] # <<>> => chan'[e] # <<>> /\ Head(chan'[e]) = Head(q[e])

(* Outgoing appends to the queues of n alone. *)
LEMMA OutgoingFacts ==
  ASSUME NEW M, NEW n, NEW q \in [Linked -> Seq(M)], NEW G, NEW out \in [G -> M],
         chan' = Outgoing(n, q, out)
  PROVE  chan' \in [Linked -> Seq(M)] /\ SendsOnly(n, q, G, out) /\ HeadsStay(q)
<1>1. ASSUME NEW e \in Linked
      PROVE  /\ chan'[e] \in Seq(M)
             /\ \A p \in Range(chan'[e]) :
                  p \in Range(q[e]) \/ (e[1] = n /\ Gid(e[2]) \in G /\ p = out[Gid(e[2])])
             /\ q[e] # <<>> => chan'[e] # <<>> /\ Head(chan'[e]) = Head(q[e])
  <2>1. CASE chan'[e] = q[e]
    BY <2>1
  <2>2. CASE e[1] = n /\ Gid(e[2]) \in G /\ chan'[e] = Append(q[e], out[Gid(e[2])])
    <3>1. out[Gid(e[2])] \in M /\ q[e] \in Seq(M)
      BY <2>2
    <3>2. q[e] # <<>> => Head(Append(q[e], out[Gid(e[2])])) = Head(q[e])
      BY <3>1
    <3> QED
      BY <2>2, <3>1, <3>2, RangeAppend
  <2> QED
    BY <2>1, <2>2 DEF Outgoing
<1> QED
  BY <1>1 DEF Outgoing, SendsOnly, HeadsStay
=============================================================================
