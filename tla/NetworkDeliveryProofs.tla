----------------------- MODULE NetworkDeliveryProofs -----------------------
(***************************************************************************)
(* What the NetworkDriver promises, for any groups and links, any number   *)
(* of leader changes and any number of messages: what one leader sends     *)
(* another is delivered in order and without gaps, after the receiving     *)
(* group's log names the sender, and what is held back will be let go.     *)
(***************************************************************************)
EXTENDS NetworkDelivery, NetworkDriverProofs

Messages == [gen : Gens, number : Nat]

TypeInv ==
  /\ NetInv(Messages, {})
  /\ sent \in [Linked -> Nat]
  /\ delivered \in [Linked -> Seq(Nat)]

(* Nobody knows of a Leadership, or hears from one, that is not in the log *)
(* of its group.                                                           *)
ElectedInv ==
  /\ \A n \in Nodes : status[n] = "none" <=> Gen(n) > log_gen[Gid(n)]
  /\ \A g, h \in Groups : log_leader_map[g][h] =< log_gen[h]
  /\ \A n \in Nodes : \A c \in Range(remote_leader_changes[n]) : c.gen =< log_gen[c.gid]
  /\ \A e \in Linked : chan[e] # <<>> => Gen(e[1]) =< log_gen[Gid(e[1])]

(* A node that does not lead holds nothing back, and nothing is sent to it. *)
SilentInv ==
  \A n \in Nodes :
    status[n] # "leader" =>
      /\ remote_leader_changes[n] = <<>>
      /\ \A g \in Groups : network_buffer[n][g].payloads = <<>>
      /\ \A e \in Linked : e[2] = n => chan[e] = <<>>

IsChange(item) == item.type = "RemoteLeaderChanged"

(* What a leader knows, or is about to, of other groups is in its log. *)
PersistInv ==
  \A n \in Nodes :
    /\ \A g \in Groups : leader_map[n][g] =< log_leader_map[Gid(n)][g]
    /\ \A c \in Range(next_insert[n].rlcs) : c.gen =< log_leader_map[Gid(n)][c.gid]
    /\ \A c \in Range(inbox[n]) : IsChange(c) => c.gen =< log_leader_map[Gid(n)][c.gid]

(* deliver_blocked_messages goes over the changes of a bundle when all of  *)
(* them have been handled.                                                 *)
ForwardInv ==
  \A n \in Nodes :
    /\ \A c \in Range(inbox[n]) : IsChange(c) => Unblock(c.gid, c.gen) \in Range(inbox[n])
    /\ \A i, j \in 1 .. Len(inbox[n]) : i < j /\ IsChange(inbox[n][j]) => IsChange(inbox[n][i])

(* What is held back will be let go: by the change that announces its      *)
(* sender, or, when that is handled, by its second pass or that of a newer *)
(* one.                                                                    *)
Announced(n, g, k) ==
  RLC(g, k) \in Range(remote_leader_changes[n]) \cup Range(next_insert[n].rlcs)
                  \cup Range(inbox[n])

BufferInv ==
  \A n \in Nodes, g \in Groups :
    network_buffer[n][g].payloads # <<>> =>
      IF network_buffer[n][g].gen > leader_map[n][g]
      THEN Announced(n, g, network_buffer[n][g].gen)
      ELSE Unblock(g, leader_map[n][g]) \in Range(inbox[n])

(* The number of the messages from g that are let go and not handled. *)
IsFrom(item, g) == item.type = "Payload" /\ item.from = g
Waiting(n, g, p) == \A i \in 1 .. Len(inbox[n]) : IsFrom(inbox[n][i], g) <=> i =< p

(* Of what the node e[1] sent to the leader e[2], nothing was taken from   *)
(* the queue; or what was taken is held back; or it was let go.            *)
NewerInv(e) ==
  Gen(e[1]) > Known(e[2], Gid(e[1])) =>
    delivered[e] = <<>> /\ sent[e] = Len(chan[e])

HeldInv(e) ==
  LET buffer == network_buffer[e[2]][Gid(e[1])]
  IN buffer.payloads # <<>> /\ Gen(e[1]) = buffer.gen =>
       /\ delivered[e] = <<>>
       /\ sent[e] = Len(buffer.payloads) + Len(chan[e])
       /\ \A i \in 1 .. Len(buffer.payloads) :
            buffer.payloads[i] = [gen |-> Gen(e[1]), number |-> i]

CurrentInv(e) ==
  /\ network_buffer[e[2]][Gid(e[1])].payloads = <<>>
  /\ Gen(e[1]) = leader_map[e[2]][Gid(e[1])]
  => \E p \in 0 .. Len(inbox[e[2]]) :
       /\ Waiting(e[2], Gid(e[1]), p)
       /\ sent[e] = Len(delivered[e]) + p + Len(chan[e])
       /\ \A i \in 1 .. p : inbox[e[2]][i].payload =
                              [gen |-> Gen(e[1]), number |-> Len(delivered[e]) + i]

LetGoInv ==
  \A n \in Nodes : \A item \in Range(inbox[n]) :
    item.type = "Payload" => network_buffer[n][item.from].payloads = <<>>

ChanInv(e) ==
  \A i \in 1 .. Len(chan[e]) :
    chan[e][i] = [gen |-> Gen(e[1]), number |-> sent[e] - Len(chan[e]) + i]

Stream(e) ==
  /\ ChanInv(e)
  /\ status[e[2]] = "none" => sent[e] = 0 /\ delivered[e] = <<>>
  /\ status[e[2]] = "leader" => NewerInv(e) /\ HeldInv(e) /\ CurrentInv(e)

StreamInv == \A e \in Linked : Stream(e)

IndInv ==
  /\ TypeInv
  /\ ElectedInv
  /\ SilentInv
  /\ PersistInv
  /\ ForwardInv
  /\ BufferInv
  /\ LetGoInv
  /\ StreamInv
  /\ NoGap
  /\ PersistedBeforeDelivered
-----------------------------------------------------------------------------
(* Generations are natural numbers. *)
LEMMA GensNat == Gens \subseteq Nat
BY NetworkAssumption DEF Gens

(* What the type invariant says of the variables that are reasoned about   *)
(* below.                                                                  *)
LEMMA TypeFacts ==
  ASSUME TypeInv
  PROVE  /\ log_gen \in [Groups -> Nat]
         /\ log_leader_map \in [Groups -> [Groups -> Nat]]
         /\ leader_map \in [Nodes -> [Groups -> Nat]]
         /\ status \in [Nodes -> {"none", "leader", "retired", "panicked"}]
         /\ remote_leader_changes \in [Nodes -> Seq(RLCs)]
         /\ \A n \in Nodes : next_insert[n].rlcs \in Seq(RLCs) /\ next_insert[n].plms \in Seq({})
         /\ \A n \in Nodes, g \in Groups : /\ network_buffer[n][g] \in Buffers(Messages)
                                           /\ network_buffer[n][g].gen \in Nat
                                           /\ network_buffer[n][g].payloads \in Seq(Messages)
         /\ chan \in [Linked -> Seq(Messages)]
         /\ inbox \in [Nodes -> Seq(Items(Messages, {}))]
         /\ sent \in [Linked -> Nat]
         /\ delivered \in [Linked -> Seq(Nat)]
<1>1. NetType(Messages, {})
  BY DEF TypeInv, NetInv
<1>2. [Groups -> Gens] \subseteq [Groups -> Nat]
  BY GensNat
<1>3. /\ log_gen \in [Groups -> Nat]
      /\ log_leader_map \in [Groups -> [Groups -> Nat]]
      /\ leader_map \in [Nodes -> [Groups -> Nat]]
  BY <1>1, <1>2 DEF NetType
<1>4. \A n \in Nodes : next_insert[n].rlcs \in Seq(RLCs) /\ next_insert[n].plms \in Seq({})
  BY <1>1 DEF NetType, Bundles
<1>5. \A n \in Nodes, g \in Groups : /\ network_buffer[n][g] \in Buffers(Messages)
                                     /\ network_buffer[n][g].gen \in Nat
                                     /\ network_buffer[n][g].payloads \in Seq(Messages)
  <2>1. \A b \in Buffers(Messages) : b.gen \in Nat /\ b.payloads \in Seq(Messages)
    BY GensNat DEF Buffers
  <2>2. \A n \in Nodes, g \in Groups : network_buffer[n][g] \in Buffers(Messages)
    BY <1>1 DEF NetType
  <2> QED
    BY <2>1, <2>2
<1> QED
  BY <1>1, <1>3, <1>4, <1>5 DEF NetType, TypeInv

(* An element of a sequence of changes is a change. *)
LEMMA ChangeFacts ==
  ASSUME NEW s \in Seq(RLCs), NEW c \in Range(s)
  PROVE  /\ c \in RLCs /\ c.gid \in Groups /\ c.gen \in Nat /\ IsChange(c)
         /\ c = RLC(c.gid, c.gen)
<1>1. c \in RLCs
  BY RangeOfSeq
<1> QED
  BY <1>1, NetworkAssumption DEF RLCs, RLC, IsChange

(* So is what the forwarded inputs hold of that type. *)
LEMMA ForwardedChange ==
  ASSUME TypeInv, NEW n \in Nodes, NEW c \in Range(inbox[n]), IsChange(c)
  PROVE  /\ c \in RLCs /\ c.gid \in Groups /\ c.gen \in Nat
         /\ c = RLC(c.gid, c.gen)
<1>1. c \in Items(Messages, {})
  BY TypeFacts, RangeOfSeq
<1>2. c \in RLCs
  BY <1>1 DEF Items, Unblocks, PLmItems, PayloadItems, LC, IsChange
<1> QED
  BY <1>2, NetworkAssumption DEF RLCs, RLC

(* Nothing that concerns the messages from one node to another changes. *)
LEMMA StreamKept ==
  ASSUME NEW e \in Linked, Stream(e),
         chan'[e] = chan[e], sent'[e] = sent[e], delivered'[e] = delivered[e],
         status'[e[2]] = status[e[2]],
         network_buffer'[e[2]][Gid(e[1])] = network_buffer[e[2]][Gid(e[1])],
         leader_map'[e[2]][Gid(e[1])] = leader_map[e[2]][Gid(e[1])],
         inbox'[e[2]] = inbox[e[2]]
  PROVE  Stream(e)'
<1>1. ChanInv(e)'
  BY DEF Stream, ChanInv
<1>2. NewerInv(e) => NewerInv(e)'
  BY DEF NewerInv, Known
<1>3. HeldInv(e) => HeldInv(e)'
  BY DEF HeldInv
<1>4. CurrentInv(e) => CurrentInv(e)'
  BY DEF CurrentInv, Waiting
<1> QED
  BY <1>1, <1>2, <1>3, <1>4 DEF Stream

(* No message from the sender is let go. *)
NoneWaits(e) == \A i \in 1 .. Len(inbox[e[2]]) : ~IsFrom(inbox[e[2]][i], Gid(e[1]))

(* Then all that was taken from the queue is delivered. *)
LEMMA NoneWaiting ==
  ASSUME TypeInv, NEW e \in Linked, NoneWaits(e),
         network_buffer[e[2]][Gid(e[1])].payloads = <<>>,
         Gen(e[1]) = leader_map[e[2]][Gid(e[1])], CurrentInv(e)
  PROVE  sent[e] = Len(delivered[e]) + Len(chan[e])
<1>1. /\ Len(inbox[e[2]]) \in Nat /\ sent[e] \in Nat
      /\ Len(delivered[e]) \in Nat /\ Len(chan[e]) \in Nat
  <2>1. inbox[e[2]] \in Seq(Items(Messages, {})) /\ delivered[e] \in Seq(Nat)
        /\ chan[e] \in Seq(Messages) /\ sent[e] \in Nat
    BY TypeFacts, LinkedFacts
  <2> QED
    BY <2>1
<1>2. PICK p \in 0 .. Len(inbox[e[2]]) :
        Waiting(e[2], Gid(e[1]), p) /\ sent[e] = Len(delivered[e]) + p + Len(chan[e])
  BY DEF CurrentInv
<1>3. p = 0
  <2>1. p # 0 => 1 \in 1 .. Len(inbox[e[2]]) /\ 1 =< p
    BY <1>1
  <2> QED
    BY <1>2, <2>1 DEF Waiting, NoneWaits
<1> QED
  BY <1>1, <1>2, <1>3

(* The other way round, after a step. *)
LEMMA NoneWaitingNext ==
  ASSUME TypeInv', NEW e \in Linked, NoneWaits(e)',
         sent'[e] = Len(delivered'[e]) + Len(chan'[e])
  PROVE  CurrentInv(e)'
<1>1. /\ Len(inbox'[e[2]]) \in Nat /\ Len(delivered'[e]) \in Nat /\ Len(chan'[e]) \in Nat
  <2>1. inbox'[e[2]] \in Seq(Items(Messages, {})) /\ delivered'[e] \in Seq(Nat)
        /\ chan'[e] \in Seq(Messages)
    BY LinkedFacts DEF TypeInv, NetInv, NetType
  <2> QED
    BY <2>1
<1>2. Waiting(e[2], Gid(e[1]), 0)' /\ 0 \in 0 .. Len(inbox'[e[2]])
  BY <1>1 DEF Waiting, NoneWaits
<1>3. sent'[e] = Len(delivered'[e]) + 0 + Len(chan'[e]) /\ 1 .. 0 = {}
  BY <1>1
<1> QED
  BY <1>2, <1>3 DEF CurrentInv

(* Nothing waits where no message does. *)
LEMMA QuietFacts ==
  ASSUME NEW e \in Linked, inbox[e[2]] = <<>>
  PROVE  NoneWaits(e)
<1>1. Len(<<>>) = 0
  OBVIOUS
<1> QED
  BY <1>1 DEF NoneWaits

(* What a step does not touch. *)
LEMMA DeliveredKept ==
  ASSUME IndInv, UNCHANGED delivered, UNCHANGED log_leader_map
  PROVE  NoGap' /\ PersistedBeforeDelivered'
BY DEF IndInv, NoGap, PersistedBeforeDelivered

(* A RemoteLeaderChangedPLm is pushed. *)
LEMMA PushFacts ==
  ASSUME TypeInv, NEW n \in Nodes, NEW g \in Groups, NEW k \in 1 .. MaxGen, PushRLC(n, g, k)
  PROVE  /\ \A x \in Nodes : x # n => remote_leader_changes'[x] = remote_leader_changes[x]
         /\ Range(remote_leader_changes'[n]) = Range(remote_leader_changes[n]) \cup {RLC(g, k)}
<1>1. RLC(g, k) \in RLCs
  BY DEF RLC, RLCs
<1>2. remote_leader_changes \in [Nodes -> Seq(RLCs)]
  BY TypeFacts
<1>3. CASE RLC(g, k) \in Range(remote_leader_changes[n])
  BY <1>3 DEF PushRLC
<1>4. CASE RLC(g, k) \notin Range(remote_leader_changes[n])
  <2>1. remote_leader_changes' =
          [remote_leader_changes EXCEPT ![n] = Append(remote_leader_changes[n], RLC(g, k))]
    BY <1>4 DEF PushRLC
  <2>2. Range(Append(remote_leader_changes[n], RLC(g, k))) =
          Range(remote_leader_changes[n]) \cup {RLC(g, k)}
    BY <1>1, <1>2, RangeAppend
  <2> QED
    BY <1>2, <2>1, <2>2
<1> QED
  BY <1>3, <1>4

(* Gossip only adds to the next bundle. *)
LEMMA GossipInv ==
  ASSUME IndInv, NEW n \in Nodes, NEW src \in Nodes, RemoteLeaderChangedGossip(n, src),
         UNCHANGED <<sent, delivered>>
  PROVE  IndInv'
<1> DEFINE g == Gid(src)
           k == Gen(src)
<1>0. /\ status[n] = "leader" /\ status[src] # "none"
      /\ k > leader_map[n][g]
      /\ PushRLC(n, g, k)
      /\ UNCHANGED <<log_gen, log_leader_map, status, leader_map, next_insert,
                     network_buffer, chan, inbox>>
  BY DEF RemoteLeaderChangedGossip, logVars
<1>1. /\ g \in Groups /\ k \in Gens /\ k \in 1 .. MaxGen
      /\ leader_map[n][g] \in Nat
  BY <1>0, NodeFacts, TypeFacts, NetworkAssumption DEF IndInv, Gens
<1>2. /\ \A x \in Nodes : x # n => remote_leader_changes'[x] = remote_leader_changes[x]
      /\ Range(remote_leader_changes'[n]) = Range(remote_leader_changes[n]) \cup {RLC(g, k)}
  BY <1>0, <1>1, PushFacts DEF IndInv
<1>3. TypeInv'
  BY GossipNet DEF IndInv, TypeInv
<1>4. ElectedInv'
  <2>1. k =< log_gen[g] /\ RLC(g, k).gid = g /\ RLC(g, k).gen = k
    BY <1>0, <1>1, NodeFacts, TypeFacts DEF IndInv, ElectedInv, RLC
  <2>2. ASSUME NEW x \in Nodes, NEW c \in Range(remote_leader_changes'[x])
        PROVE  c.gen =< log_gen'[c.gid]
    <3>1. c \in Range(remote_leader_changes[x]) \/ c = RLC(g, k)
      BY <1>2
    <3> QED
      BY <1>0, <2>1, <3>1 DEF IndInv, ElectedInv
  <2> QED
    BY <1>0, <2>2 DEF IndInv, ElectedInv
<1>5. SilentInv'
  BY <1>0, <1>2 DEF IndInv, SilentInv
<1>6. PersistInv' /\ ForwardInv' /\ LetGoInv'
  BY <1>0 DEF IndInv, PersistInv, ForwardInv, LetGoInv
<1>7. BufferInv'
  <2>1. \A x \in Nodes : Range(remote_leader_changes[x]) \subseteq Range(remote_leader_changes'[x])
    BY <1>2
  <2>2. \A x \in Nodes, h \in Groups : \A j : Announced(x, h, j) => Announced(x, h, j)'
    BY <1>0, <2>1 DEF Announced
  <2> QED
    BY <1>0, <2>2 DEF IndInv, BufferInv
<1>8. StreamInv'
  BY <1>0, StreamKept DEF IndInv, StreamInv
<1>9. NoGap' /\ PersistedBeforeDelivered'
  BY <1>0, DeliveredKept
<1> QED
  BY <1>3, <1>4, <1>5, <1>6, <1>7, <1>8, <1>9 DEF IndInv

(* A bundle enters the log: the changes in it are known for good. *)
LEMMA InsertInv ==
  ASSUME IndInv, NEW n \in Nodes, maybe_start_insert(n), UNCHANGED <<sent, delivered>>
  PROVE  IndInv'
<1> DEFINE g == Gid(n)
           rlcs == remote_leader_changes[n]
<1>0. /\ status[n] = "leader" /\ log_gen[g] = Gen(n) /\ next_insert[n] = NoInsert
      /\ next_insert' = [next_insert EXCEPT ![n] = [rlcs |-> rlcs, plms |-> tablet_bundles[n]]]
      /\ log_leader_map' = [log_leader_map EXCEPT ![g] = Replayed(log_leader_map[g], rlcs)]
      /\ remote_leader_changes' = [remote_leader_changes EXCEPT ![n] = <<>>]
      /\ UNCHANGED <<log_gen, status, leader_map, network_buffer, chan, inbox>>
  BY DEF maybe_start_insert
<1>1. g \in Groups
  BY NodeFacts
<1>2. /\ next_insert \in [Nodes -> Bundles({})]
      /\ log_leader_map \in [Groups -> [Groups -> Gens]]
      /\ remote_leader_changes \in [Nodes -> Seq(RLCs)]
  BY DEF IndInv, TypeInv, NetInv, NetType
<1>3. /\ \A x \in Nodes : x # n => /\ remote_leader_changes'[x] = remote_leader_changes[x]
                                   /\ next_insert'[x] = next_insert[x]
      /\ next_insert'[n].rlcs = rlcs
      /\ remote_leader_changes'[n] = <<>>
      /\ \A h \in Groups : h # g => log_leader_map'[h] = log_leader_map[h]
      /\ log_leader_map'[g] = Replayed(log_leader_map[g], rlcs)
  BY <1>0, <1>1, <1>2
<1>4. /\ Replayed(log_leader_map[g], rlcs) \in [Groups -> Gens]
      /\ \A h \in Groups : log_leader_map[g][h] =< Replayed(log_leader_map[g], rlcs)[h]
      /\ \A c \in Range(rlcs) : c.gen =< Replayed(log_leader_map[g], rlcs)[c.gid]
  BY <1>1, <1>2, ReplayedFacts
<1>5. /\ \A h, j \in Groups : /\ log_leader_map[h][j] =< log_leader_map'[h][j]
                              /\ log_leader_map[h][j] \in Nat /\ log_leader_map'[h][j] \in Nat
  <2> SUFFICES ASSUME NEW h \in Groups, NEW j \in Groups
               PROVE  /\ log_leader_map[h][j] =< log_leader_map'[h][j]
                      /\ log_leader_map[h][j] \in Nat /\ log_leader_map'[h][j] \in Nat
    OBVIOUS
  <2>1. log_leader_map[h][j] \in Nat
    BY <1>2, GensNat
  <2>2. CASE h = g
    BY <1>3, <1>4, <2>1, <2>2, GensNat
  <2>3. CASE h # g
    BY <1>3, <2>1, <2>3
  <2> QED
    BY <2>2, <2>3
<1>6. TypeInv'
  BY InsertNet DEF IndInv, TypeInv
<1>7. ElectedInv'
  <2>1. ASSUME NEW h \in Groups, NEW j \in Groups
        PROVE  log_leader_map'[h][j] =< log_gen'[j]
    <3>1. CASE h # g
      BY <1>0, <1>3, <3>1 DEF IndInv, ElectedInv
    <3>2. CASE h = g
      <4> DEFINE S == {log_leader_map[g][j]} \cup {c.gen : c \in {d \in Range(rlcs) : d.gid = j}}
      <4>1. \A c \in Range(rlcs) : c \in RLCs /\ c.gen \in 1 .. MaxGen
        <5>1. rlcs \in Seq(RLCs)
          BY <1>2
        <5>2. \A c \in Range(rlcs) : c \in RLCs
          BY <5>1, RangeOfSeq
        <5> QED
          BY <5>2 DEF RLCs
      <4>2. S \in SUBSET (0 .. MaxGen) /\ S # {}
        <5>1. log_leader_map[g][j] \in 0 .. MaxGen
          BY <1>1, <1>2 DEF Gens
        <5>2. \A x \in 1 .. MaxGen : x \in 0 .. MaxGen
          BY NetworkAssumption
        <5> QED
          BY <4>1, <5>1, <5>2
      <4>3. Max(S) \in S
        BY <4>2, HasMax, NetworkAssumption
      <4>4. \A x \in S : x =< log_gen[j]
        BY <1>1 DEF IndInv, ElectedInv
      <4>5. log_leader_map'[h][j] = Max(S)
        BY <1>3, <3>2 DEF Replayed
      <4> QED
        BY <1>0, <4>3, <4>4, <4>5
    <3> QED
      BY <3>1, <3>2
  <2>2. \A x \in Nodes : Range(remote_leader_changes'[x]) \subseteq Range(remote_leader_changes[x])
    BY <1>3 DEF Range
  <2> QED
    BY <1>0, <2>1, <2>2 DEF IndInv, ElectedInv
<1>8. SilentInv'
  BY <1>0, <1>3 DEF IndInv, SilentInv
<1>9. PersistInv'
  <2> SUFFICES ASSUME NEW x \in Nodes
               PROVE  /\ \A h \in Groups : leader_map'[x][h] =< log_leader_map'[Gid(x)][h]
                      /\ \A c \in Range(next_insert'[x].rlcs) : c.gen =< log_leader_map'[Gid(x)][c.gid]
                      /\ \A c \in Range(inbox'[x]) :
                           IsChange(c) => c.gen =< log_leader_map'[Gid(x)][c.gid]
    BY DEF PersistInv
  <2>1. Gid(x) \in Groups
    BY NodeFacts
  <2>2. \A h \in Groups : leader_map'[x][h] =< log_leader_map'[Gid(x)][h]
    <3>1. \A h \in Groups : leader_map[x][h] =< log_leader_map[Gid(x)][h] /\ leader_map[x][h] \in Nat
      BY TypeFacts DEF IndInv, PersistInv
    <3> QED
      BY <1>0, <1>5, <2>1, <3>1
  <2>3. ASSUME NEW c \in Range(next_insert'[x].rlcs)
        PROVE  c.gen =< log_leader_map'[Gid(x)][c.gid]
    <3>1. CASE x = n
      BY <1>3, <1>4, <2>3, <3>1
    <3>2. CASE x # n
      <4>1. c \in Range(next_insert[x].rlcs) /\ next_insert[x].rlcs \in Seq(RLCs)
        BY <1>3, <2>3, <3>2, TypeFacts DEF IndInv
      <4>2. c.gid \in Groups /\ c.gen \in Nat
        BY <4>1, ChangeFacts
      <4>3. c.gen =< log_leader_map[Gid(x)][c.gid]
        BY <4>1 DEF IndInv, PersistInv
      <4> QED
        BY <1>5, <2>1, <4>2, <4>3
    <3> QED
      BY <3>1, <3>2
  <2>4. ASSUME NEW c \in Range(inbox'[x]), IsChange(c)
        PROVE  c.gen =< log_leader_map'[Gid(x)][c.gid]
    <3>1. c \in Range(inbox[x]) /\ c.gid \in Groups /\ c.gen \in Nat
      BY <1>0, <2>4, ForwardedChange DEF IndInv
    <3>2. c.gen =< log_leader_map[Gid(x)][c.gid]
      BY <2>4, <3>1 DEF IndInv, PersistInv
    <3> QED
      BY <1>5, <2>1, <3>1, <3>2
  <2> QED
    BY <2>2, <2>3, <2>4
<1>10. ForwardInv' /\ LetGoInv'
  BY <1>0 DEF IndInv, ForwardInv, LetGoInv
<1>11. BufferInv'
  <2>1. \A x \in Nodes, h \in Groups : \A j : Announced(x, h, j) => Announced(x, h, j)'
    <3>1. NoInsert.rlcs = <<>> /\ Range(<<>>) = {}
      BY DEF NoInsert, Range
    <3>2. ASSUME NEW x \in Nodes
          PROVE  Range(remote_leader_changes[x]) \cup Range(next_insert[x].rlcs) \subseteq
                   Range(remote_leader_changes'[x]) \cup Range(next_insert'[x].rlcs)
      BY <1>0, <1>3, <3>1
    <3> QED
      BY <1>0, <3>2 DEF Announced
  <2> QED
    BY <1>0, <2>1 DEF IndInv, BufferInv
<1>12. StreamInv'
  BY <1>0, StreamKept DEF IndInv, StreamInv
<1>13. NoGap' /\ PersistedBeforeDelivered'
  <2>1. ASSUME NEW e \in Linked, delivered'[e] # <<>>
        PROVE  log_leader_map'[Gid(e[2])][Gid(e[1])] >= Gen(e[1])
    <3>1. Gid(e[1]) \in Groups /\ Gid(e[2]) \in Groups /\ Gen(e[1]) \in Nat
      BY LinkedFacts, NodeFacts
    <3>2. log_leader_map[Gid(e[2])][Gid(e[1])] >= Gen(e[1])
      BY <2>1 DEF IndInv, PersistedBeforeDelivered
    <3> QED
      BY <1>5, <3>1, <3>2
  <2> QED
    BY <2>1 DEF IndInv, NoGap, PersistedBeforeDelivered
<1> QED
  BY <1>6, <1>7, <1>8, <1>9, <1>10, <1>11, <1>12, <1>13 DEF IndInv

(* A leader steps down: it forgets what it holds back. *)
LEMMA LoseInv ==
  ASSUME IndInv, Quiet, NEW n \in Nodes, LoseLeadership(n), UNCHANGED <<sent, delivered>>
  PROVE  IndInv'
<1>0. /\ status[n] = "leader" /\ log_gen[Gid(n)] > Gen(n)
      /\ status' = [status EXCEPT ![n] = "retired"]
      /\ leader_map' = [leader_map EXCEPT ![n] = [h \in Groups |-> 0]]
      /\ remote_leader_changes' = [remote_leader_changes EXCEPT ![n] = <<>>]
      /\ network_buffer' = [network_buffer EXCEPT ![n] = [h \in Groups |-> EmptyBuffer]]
      /\ chan' = [e \in Linked |-> IF e[2] = n THEN <<>> ELSE chan[e]]
      /\ UNCHANGED <<log_gen, log_leader_map, next_insert, inbox>>
  BY DEF LoseLeadership, logVars
<1>1. TypeInv'
  BY LoseNet DEF IndInv, TypeInv
<1>2. /\ status'[n] = "retired" /\ remote_leader_changes'[n] = <<>>
      /\ \A h \in Groups : leader_map'[n][h] = 0 /\ network_buffer'[n][h].payloads = <<>>
      /\ \A x \in Nodes : x # n => /\ status'[x] = status[x]
                                   /\ leader_map'[x] = leader_map[x]
                                   /\ remote_leader_changes'[x] = remote_leader_changes[x]
                                   /\ network_buffer'[x] = network_buffer[x]
  BY <1>0 DEF IndInv, TypeInv, NetInv, NetType, EmptyBuffer
<1>3. \A e \in Linked : chan'[e] = IF e[2] = n THEN <<>> ELSE chan[e]
  BY <1>0
<1>4. Range(<<>>) = {}
  BY DEF Range
<1>5. ElectedInv'
  <2>1. Gen(n) \in Nat /\ log_gen[Gid(n)] \in Nat
    BY NodeFacts, TypeFacts DEF IndInv
  <2>2. \A x \in Nodes : status'[x] = "none" <=> Gen(x) > log_gen[Gid(x)]
    BY <1>0, <1>2, <2>1 DEF IndInv, ElectedInv
  <2>3. \A x \in Nodes : Range(remote_leader_changes'[x]) \subseteq Range(remote_leader_changes[x])
    BY <1>2, <1>4
  <2> QED
    BY <1>0, <1>3, <2>2, <2>3 DEF IndInv, ElectedInv
<1>6. SilentInv'
  BY <1>0, <1>2, <1>3 DEF IndInv, SilentInv
<1>7. PersistInv'
  <2>1. ASSUME NEW x \in Nodes, NEW h \in Groups
        PROVE  leader_map'[x][h] =< log_leader_map'[Gid(x)][h]
    <3>1. log_leader_map[Gid(x)][h] \in Nat
      BY NodeFacts, TypeFacts DEF IndInv
    <3> QED
      BY <1>0, <1>2, <3>1 DEF IndInv, PersistInv
  <2> QED
    BY <1>0, <2>1 DEF IndInv, PersistInv
<1>8. ForwardInv' /\ LetGoInv'
  BY <1>0, <1>4 DEF Quiet, IndInv, ForwardInv, LetGoInv
<1>9. BufferInv'
  <2>1. \A x \in Nodes, h \in Groups : network_buffer'[x][h].payloads # <<>> => x # n
    BY <1>2
  <2>2. \A x \in Nodes, h \in Groups : \A j : x # n /\ Announced(x, h, j) => Announced(x, h, j)'
    BY <1>0, <1>2 DEF Announced
  <2> QED
    BY <1>0, <1>2, <2>1, <2>2 DEF IndInv, BufferInv
<1>10. StreamInv'
  <2> SUFFICES ASSUME NEW e \in Linked
               PROVE  Stream(e)'
    BY DEF StreamInv
  <2>1. e[2] \in Nodes /\ e[1] \in Nodes
    BY LinkedFacts
  <2>2. CASE e[2] = n
    BY <1>2, <1>3, <2>2 DEF Stream, ChanInv
  <2>3. CASE e[2] # n
    BY <1>0, <1>2, <1>3, <2>1, <2>3, StreamKept DEF IndInv, StreamInv
  <2> QED
    BY <2>2, <2>3
<1>11. NoGap' /\ PersistedBeforeDelivered'
  BY <1>0, DeliveredKept
<1> QED
  BY <1>1, <1>5, <1>6, <1>7, <1>8, <1>9, <1>10, <1>11 DEF IndInv

(* A message is sent: its number follows that of the last one. *)
LEMMA SendInv ==
  ASSUME IndInv, NEW n \in Nodes, NEW g \in Groups, SendMessage(n, g)
  PROVE  IndInv'
<1>L. PICK L \in Nat : L = leader_map[n][g]
  BY TypeFacts DEF IndInv
<1> DEFINE to == <<g, L>>
           d == <<n, to>>
           msg == [gen |-> Gen(n), number |-> sent[d] + 1]
<1>0. /\ status[n] = "leader"
      /\ d \in Linked
      /\ sent' = [sent EXCEPT ![d] = @ + 1]
      /\ chan' = Outgoing(n, chan, [h \in {g} |-> [gen |-> Gen(n), number |-> sent'[d]]])
      /\ UNCHANGED <<log_gen, log_leader_map, status, leader_map, remote_leader_changes,
                     next_insert, network_buffer, inbox, delivered>>
      /\ UNCHANGED <<logVars, bundleVars>>
  BY <1>L DEF SendMessage, logVars, bundleVars
<1>1. /\ sent \in [Linked -> Nat] /\ chan \in [Linked -> Seq(Messages)]
      /\ sent'[d] = sent[d] + 1
      /\ sent' \in [Linked -> Nat]
      /\ \A e \in Linked : e # d => sent'[e] = sent[e]
  BY <1>0, TypeFacts DEF IndInv
<1>2. to \in Nodes /\ Gid(to) = g /\ Gen(to) = L /\ d[1] = n /\ d[2] = to
  BY <1>0, LinkedFacts DEF Gid, Gen
<1>3. msg \in Messages /\ Gen(n) \in Nat
  BY <1>0, <1>1, NodeFacts DEF Messages
<1>4. [h \in {g} |-> msg][g] = msg
  OBVIOUS
<1>5. ASSUME NEW e \in Linked
      PROVE  chan'[e] = IF e = d /\ status[to] = "leader" THEN Append(chan[d], msg) ELSE chan[e]
  <2>1. e[1] \in Nodes /\ e[2] \in Nodes /\ e = <<e[1], e[2]>> /\ e[2] = <<Gid(e[2]), Gen(e[2])>>
    BY LinkedFacts, NodeFacts
  <2>2. chan' = Outgoing(n, chan, [h \in {g} |-> msg])
    BY <1>0, <1>1
  <2>3. chan'[e] = IF /\ e[1] = n /\ Gid(e[2]) = g /\ Gen(e[2]) = L /\ status[e[2]] = "leader"
                   THEN Append(chan[e], msg) ELSE chan[e]
    BY <1>L, <1>0, <1>4, <2>2 DEF Outgoing
  <2> QED
    BY <1>2, <2>1, <2>3
<1>6. chan' \in [Linked -> Seq(Messages)]
  <2>1. chan' = [e \in Linked |-> chan'[e]]
    BY <1>0 DEF Outgoing
  <2>2. Append(chan[d], msg) \in Seq(Messages)
    BY <1>0, <1>1, <1>3
  <2> HIDE DEF msg
  <2>3. \A e \in Linked : chan'[e] \in Seq(Messages)
    BY <1>1, <1>5, <2>2
  <2> QED
    BY <2>1, <2>3
<1>7. TypeInv'
  <2>1. delivered' \in [Linked -> Seq(Nat)]
    BY <1>0 DEF IndInv, TypeInv
  <2>2. NetInv(Messages, {})'
    BY <1>0, <1>6, SendNet DEF IndInv, TypeInv
  <2> QED
    BY <1>1, <2>1, <2>2 DEF TypeInv
<1>8. status[to] # "none"
  <2>1. L =< log_leader_map[Gid(n)][g] /\ log_leader_map[Gid(n)][g] =< log_gen[g]
    BY <1>L, NodeFacts DEF IndInv, PersistInv, ElectedInv
  <2>2. log_leader_map[Gid(n)][g] \in Nat /\ log_gen[g] \in Nat
    BY NodeFacts, TypeFacts DEF IndInv
  <2> QED
    BY <1>2, <2>1, <2>2 DEF IndInv, ElectedInv
<1>9. ElectedInv'
  <2>1. Gen(n) =< log_gen[Gid(n)]
    <3>1. log_gen[Gid(n)] \in Nat
      BY NodeFacts, TypeFacts DEF IndInv
    <3> QED
      BY <1>0, <1>3, <3>1 DEF IndInv, ElectedInv
  <2>2. \A e \in Linked : chan'[e] # <<>> => Gen(e[1]) =< log_gen'[Gid(e[1])]
    BY <1>0, <1>2, <1>5, <2>1 DEF IndInv, ElectedInv
  <2> QED
    BY <1>0, <2>2 DEF IndInv, ElectedInv
<1>10. SilentInv'
  BY <1>0, <1>2, <1>5 DEF IndInv, SilentInv
<1>11. PersistInv' /\ ForwardInv' /\ LetGoInv'
  BY <1>0 DEF IndInv, PersistInv, ForwardInv, LetGoInv
<1>12. BufferInv'
  BY <1>0 DEF IndInv, BufferInv, Announced
<1>13. StreamInv'
  <2> SUFFICES ASSUME NEW e \in Linked
               PROVE  Stream(e)'
    BY DEF StreamInv
  <2>1. CASE e # d
    BY <1>0, <1>1, <1>5, <2>1, StreamKept DEF IndInv, StreamInv
  <2>2. CASE e = d /\ status[to] # "leader"
    <3>1. chan[d] = <<>> /\ chan'[d] = <<>>
      BY <1>0, <1>2, <1>5, <2>2 DEF IndInv, SilentInv
    <3>2. Len(<<>>) = 0
      OBVIOUS
    <3>3. ChanInv(d)'
      BY <3>1, <3>2 DEF ChanInv
    <3> QED
      BY <1>0, <1>2, <1>8, <2>2, <3>3 DEF Stream
  <2>3. CASE e = d /\ status[to] = "leader"
    <3>1. /\ chan[d] \in Seq(Messages) /\ Len(chan[d]) \in Nat /\ sent[d] \in Nat
          /\ chan'[d] = Append(chan[d], msg) /\ Len(chan'[d]) = Len(chan[d]) + 1
          /\ \A i \in 1 .. Len(chan[d]) : chan'[d][i] = chan[d][i]
          /\ chan'[d][Len(chan[d]) + 1] = msg
      <4>1. chan[d] \in Seq(Messages) /\ sent[d] \in Nat /\ chan'[d] = Append(chan[d], msg)
        BY <1>0, <1>1, <1>5, <2>3
      <4> HIDE DEF msg
      <4> QED
        BY <1>3, <4>1
    <3>2. ChanInv(d) /\ NewerInv(d) /\ HeldInv(d) /\ CurrentInv(d)
      BY <1>0, <1>2, <2>3 DEF IndInv, StreamInv, Stream
    <3>3. ChanInv(d)'
      <4> SUFFICES ASSUME NEW i \in 1 .. Len(chan'[d])
                   PROVE  chan'[d][i] = [gen |-> Gen(n), number |-> sent'[d] - Len(chan'[d]) + i]
        BY <1>2 DEF ChanInv
      <4>1. i \in 1 .. Len(chan[d]) \/ i = Len(chan[d]) + 1
        BY <3>1
      <4>2. CASE i \in 1 .. Len(chan[d])
        <5>1. chan'[d][i] = [gen |-> Gen(n), number |-> sent[d] - Len(chan[d]) + i]
          BY <1>2, <3>1, <3>2, <4>2 DEF ChanInv
        <5>2. sent[d] - Len(chan[d]) + i = sent'[d] - Len(chan'[d]) + i
          BY <1>1, <3>1
        <5> QED
          BY <5>1, <5>2
      <4>3. CASE i = Len(chan[d]) + 1
        <5>1. sent[d] + 1 = sent'[d] - Len(chan'[d]) + i
          BY <1>1, <3>1, <4>3
        <5> QED
          BY <3>1, <4>3, <5>1
      <4> QED
        BY <4>1, <4>2, <4>3
    <3>4. NewerInv(d)'
      BY <1>0, <1>1, <3>1, <3>2 DEF NewerInv, Known
    <3>5. HeldInv(d)'
      <4>1. network_buffer[to][Gid(n)].payloads \in Seq(Messages)
        BY <1>2, TypeFacts, NodeFacts DEF IndInv
      <4>2. Len(network_buffer[to][Gid(n)].payloads) \in Nat
        BY <4>1
      <4>3. ASSUME NEW a \in Nat, sent[d] = a + Len(chan[d])
            PROVE  sent'[d] = a + Len(chan'[d])
        BY <1>1, <3>1, <4>3
      <4> QED
        BY <1>0, <1>2, <3>2, <4>2, <4>3 DEF HeldInv
    <3>6. CurrentInv(d)'
      <4>1. delivered[d] \in Seq(Nat) /\ Len(delivered[d]) \in Nat
        BY <1>0, TypeFacts DEF IndInv
      <4> SUFFICES ASSUME network_buffer[to][Gid(n)].payloads = <<>>,
                          Gen(n) = leader_map[to][Gid(n)]
                   PROVE  \E p \in 0 .. Len(inbox[to]) :
                            /\ Waiting(to, Gid(n), p)
                            /\ sent'[d] = Len(delivered[d]) + p + Len(chan'[d])
                            /\ \A i \in 1 .. p : inbox[to][i].payload =
                                 [gen |-> Gen(n), number |-> Len(delivered[d]) + i]
        BY <1>0, <1>2 DEF CurrentInv, Waiting
      <4>2. PICK p \in 0 .. Len(inbox[to]) :
              /\ Waiting(to, Gid(n), p)
              /\ sent[d] = Len(delivered[d]) + p + Len(chan[d])
              /\ \A i \in 1 .. p : inbox[to][i].payload =
                   [gen |-> Gen(n), number |-> Len(delivered[d]) + i]
        BY <1>2, <3>2 DEF CurrentInv
      <4>3. p \in Nat
        OBVIOUS
      <4>4. \A i, j, l, t \in Nat : t = i + j + l => t + 1 = i + j + (l + 1)
        OBVIOUS
      <4>5. sent'[d] = Len(delivered[d]) + p + Len(chan'[d])
        <5>1. /\ Len(chan[d]) \in Nat /\ Len(chan'[d]) = Len(chan[d]) + 1
              /\ sent[d] \in Nat /\ sent'[d] = sent[d] + 1
          BY <1>1, <3>1
        <5>2. sent[d] = Len(delivered[d]) + p + Len(chan[d])
          BY <4>2
        <5>3. ASSUME NEW a \in Nat, NEW c \in Nat, NEW t \in Nat, t = a + p + c
              PROVE  t + 1 = a + p + (c + 1)
          BY <4>3, <5>3
        <5>4. sent[d] + 1 = Len(delivered[d]) + p + (Len(chan[d]) + 1)
          BY <4>1, <5>1, <5>2, <5>3
        <5> QED
          BY <5>1, <5>4
      <4> QED
        BY <4>2, <4>5
    <3> QED
      BY <1>0, <1>2, <2>3, <3>3, <3>4, <3>5, <3>6 DEF Stream
  <2> QED
    BY <2>1, <2>2, <2>3
<1>14. NoGap' /\ PersistedBeforeDelivered'
  BY <1>0, DeliveredKept
<1> QED
  BY <1>7, <1>9, <1>10, <1>11, <1>12, <1>13, <1>14 DEF IndInv

(* A new leader knows what the log says, and nobody has sent it anything. *)
LEMMA GainInv ==
  ASSUME IndInv, Quiet, NEW g \in Groups, GainLeadership(g), UNCHANGED <<sent, delivered>>
  PROVE  IndInv'
<1>k. PICK k \in Nat : k = log_gen[g] + 1
  BY TypeFacts DEF IndInv
<1>n. PICK n \in Nodes : n = <<g, k>>
  BY <1>k, GainNet DEF IndInv, TypeInv
<1>0. /\ log_gen' = [log_gen EXCEPT ![g] = k]
      /\ log_leader_map' = [log_leader_map EXCEPT ![g][g] = k]
      /\ status' = [status EXCEPT ![n] = "leader"]
      /\ leader_map' = [leader_map EXCEPT ![n] = log_leader_map'[g]]
      /\ inbox' = [inbox EXCEPT ![n] = <<LC>>]
      /\ UNCHANGED <<remote_leader_changes, next_insert, network_buffer, chan>>
  BY <1>k, <1>n DEF GainLeadership, bundleVars
<1>1. Gid(n) = g /\ Gen(n) = k
  BY <1>n DEF Gid, Gen
<1>2. /\ log_gen \in [Groups -> Nat]
      /\ log_leader_map \in [Groups -> [Groups -> Nat]]
      /\ leader_map \in [Nodes -> [Groups -> Nat]]
  BY TypeFacts DEF IndInv
<1>3. /\ log_gen'[g] = k /\ log_gen[g] = k - 1
      /\ \A h \in Groups : h # g => log_gen'[h] = log_gen[h]
      /\ \A h \in Groups : log_gen[h] =< log_gen'[h] /\ log_gen'[h] \in Nat
  <2>1. log_gen'[g] = k /\ \A h \in Groups : h # g => log_gen'[h] = log_gen[h]
    BY <1>0, <1>2
  <2>2. \A h \in Groups : log_gen[h] \in Nat
    BY <1>2
  <2> QED
    BY <1>k, <2>1, <2>2
<1>4. /\ log_leader_map'[g][g] = k
      /\ \A h, j \in Groups : h # g \/ j # g => log_leader_map'[h][j] = log_leader_map[h][j]
      /\ log_leader_map' \in [Groups -> [Groups -> Nat]]
  BY <1>0, <1>2
<1>5. \A h, j \in Groups : log_leader_map[h][j] =< log_leader_map'[h][j]
  <2>1. log_leader_map[g][g] =< log_gen[g]
    BY DEF IndInv, ElectedInv
  <2>2. \A h, j \in Groups : log_leader_map[h][j] \in Nat
    BY <1>2
  <2>3. log_leader_map[g][g] =< k
    BY <1>3, <2>1, <2>2
  <2> QED
    BY <1>4, <2>2, <2>3
<1>6. /\ status'[n] = "leader" /\ leader_map'[n] = log_leader_map'[g] /\ inbox'[n] = <<LC>>
      /\ \A x \in Nodes : x # n => /\ status'[x] = status[x]
                                   /\ leader_map'[x] = leader_map[x]
                                   /\ inbox'[x] = inbox[x]
  BY <1>0 DEF IndInv, TypeInv, NetInv, NetType
<1>7. status[n] = "none"
  BY <1>1, <1>3 DEF IndInv, ElectedInv
<1>8. TypeInv'
  BY GainNet DEF IndInv, TypeInv
<1>9. Range(<<LC>>) = {LC} /\ Range(<<>>) = {} /\ Len(<<LC>>) = 1 /\ <<LC>>[1] = LC
      /\ ~IsChange(LC) /\ LC.type # "Payload"
  BY DEF Range, IsChange, LC
<1>10. \A x \in Nodes : x # n => inbox'[x] = <<>>
  BY <1>6 DEF Quiet
<1>11. ElectedInv'
  <2>1. ASSUME NEW x \in Nodes
        PROVE  status'[x] = "none" <=> Gen(x) > log_gen'[Gid(x)]
    <3>1. Gid(x) \in Groups /\ Gen(x) \in Nat /\ x = <<Gid(x), Gen(x)>>
      BY NodeFacts
    <3>2. status[x] = "none" <=> Gen(x) > log_gen[Gid(x)]
      BY DEF IndInv, ElectedInv
    <3>3. CASE x = n
      BY <1>1, <1>3, <1>6, <3>3
    <3>4. CASE x # n /\ Gid(x) = g
      <4>1. Gen(x) # k
        BY <1>n, <3>1, <3>4
      <4> QED
        BY <1>3, <1>6, <3>1, <3>2, <3>4, <4>1
    <3>5. CASE x # n /\ Gid(x) # g
      BY <1>3, <1>6, <3>1, <3>2, <3>5
    <3> QED
      BY <3>3, <3>4, <3>5
  <2>2. ASSUME NEW h \in Groups, NEW j \in Groups
        PROVE  log_leader_map'[h][j] =< log_gen'[j]
    <3>1. log_leader_map[h][j] =< log_gen[j] /\ log_leader_map[h][j] \in Nat /\ log_gen[j] \in Nat
      BY <1>2 DEF IndInv, ElectedInv
    <3> QED
      BY <1>3, <1>4, <3>1
  <2>3. ASSUME NEW x \in Nodes, NEW c \in Range(remote_leader_changes'[x])
        PROVE  c.gen =< log_gen'[c.gid]
    <3>1. remote_leader_changes[x] \in Seq(RLCs) /\ c \in Range(remote_leader_changes[x])
      BY <1>0, <2>3, TypeFacts DEF IndInv
    <3>2. c.gid \in Groups /\ c.gen \in Nat
      BY <3>1, ChangeFacts
    <3>3. c.gen =< log_gen[c.gid] /\ log_gen[c.gid] \in Nat
      BY <1>2, <3>1, <3>2 DEF IndInv, ElectedInv
    <3> QED
      BY <1>3, <3>2, <3>3
  <2>4. ASSUME NEW e \in Linked, chan'[e] # <<>>
        PROVE  Gen(e[1]) =< log_gen'[Gid(e[1])]
    <3>1. Gid(e[1]) \in Groups /\ Gen(e[1]) \in Nat
      BY LinkedFacts, NodeFacts
    <3>2. Gen(e[1]) =< log_gen[Gid(e[1])] /\ log_gen[Gid(e[1])] \in Nat
      BY <1>0, <1>2, <2>4, <3>1 DEF IndInv, ElectedInv
    <3> QED
      BY <1>3, <3>1, <3>2
  <2> QED
    BY <2>1, <2>2, <2>3, <2>4 DEF ElectedInv
<1>12. SilentInv'
  BY <1>0, <1>6 DEF IndInv, SilentInv
<1>13. PersistInv'
  <2> SUFFICES ASSUME NEW x \in Nodes
               PROVE  /\ \A h \in Groups : leader_map'[x][h] =< log_leader_map'[Gid(x)][h]
                      /\ \A c \in Range(next_insert'[x].rlcs) : c.gen =< log_leader_map'[Gid(x)][c.gid]
                      /\ \A c \in Range(inbox'[x]) :
                           IsChange(c) => c.gen =< log_leader_map'[Gid(x)][c.gid]
    BY DEF PersistInv
  <2>1. Gid(x) \in Groups
    BY NodeFacts
  <2>2. ASSUME NEW h \in Groups
        PROVE  leader_map'[x][h] =< log_leader_map'[Gid(x)][h]
    <3>1. CASE x = n
      BY <1>1, <1>4, <1>6, <3>1
    <3>2. CASE x # n
      <4>1. leader_map[x][h] =< log_leader_map[Gid(x)][h] /\ leader_map[x][h] \in Nat
            /\ log_leader_map[Gid(x)][h] \in Nat /\ log_leader_map'[Gid(x)][h] \in Nat
        BY <1>2, <1>4, <2>1 DEF IndInv, PersistInv
      <4>2. log_leader_map[Gid(x)][h] =< log_leader_map'[Gid(x)][h]
        BY <1>5, <2>1
      <4> QED
        BY <1>6, <3>2, <4>1, <4>2
    <3> QED
      BY <3>1, <3>2
  <2>3. ASSUME NEW c \in Range(next_insert'[x].rlcs)
        PROVE  c.gen =< log_leader_map'[Gid(x)][c.gid]
    <3>1. c \in Range(next_insert[x].rlcs) /\ next_insert[x].rlcs \in Seq(RLCs)
      BY <1>0, <2>3, TypeFacts DEF IndInv
    <3>2. c.gid \in Groups /\ c.gen \in Nat
      BY <3>1, ChangeFacts
    <3>3. /\ c.gen =< log_leader_map[Gid(x)][c.gid]
          /\ log_leader_map[Gid(x)][c.gid] \in Nat /\ log_leader_map'[Gid(x)][c.gid] \in Nat
      BY <1>2, <1>4, <2>1, <3>1, <3>2 DEF IndInv, PersistInv
    <3> QED
      BY <1>5, <2>1, <3>2, <3>3
  <2>4. \A c \in Range(inbox'[x]) : ~IsChange(c)
    BY <1>6, <1>9, <1>10
  <2> QED
    BY <2>2, <2>3, <2>4
<1>14. ForwardInv' /\ LetGoInv'
  <2>1. \A x \in Nodes : \A c \in Range(inbox'[x]) : ~IsChange(c) /\ c.type # "Payload"
    BY <1>6, <1>9, <1>10
  <2>2. \A x \in Nodes : \A i, j \in 1 .. Len(inbox'[x]) : ~(i < j)
    <3>1. \A x \in Nodes : Len(inbox'[x]) = 0 \/ Len(inbox'[x]) = 1
      BY <1>6, <1>9, <1>10
    <3>2. ASSUME NEW x \in Nodes, NEW i \in 1 .. Len(inbox'[x]), NEW j \in 1 .. Len(inbox'[x])
          PROVE  ~(i < j)
      <4>1. CASE Len(inbox'[x]) = 0
        BY <4>1
      <4>2. CASE Len(inbox'[x]) = 1
        BY <4>2
      <4> QED
        BY <3>1, <4>1, <4>2
    <3> QED
      BY <3>2
  <2> QED
    BY <2>1, <2>2 DEF ForwardInv, LetGoInv
<1>15. BufferInv'
  <2>1. \A x \in Nodes, h \in Groups : network_buffer'[x][h].payloads # <<>> => x # n
    BY <1>0, <1>7 DEF IndInv, SilentInv
  <2>2. \A x \in Nodes, h \in Groups : \A j : x # n /\ Announced(x, h, j) => Announced(x, h, j)'
    BY <1>0, <1>6 DEF Announced
  <2> QED
    BY <1>0, <1>6, <2>1, <2>2 DEF IndInv, BufferInv
<1>16. StreamInv'
  <2> SUFFICES ASSUME NEW e \in Linked
               PROVE  Stream(e)'
    BY DEF StreamInv
  <2>1. e[2] \in Nodes /\ e[1] \in Nodes /\ Gid(e[1]) \in Groups
    BY LinkedFacts, NodeFacts
  <2>2. CASE e[2] # n
    BY <1>0, <1>6, <2>1, <2>2, StreamKept DEF IndInv, StreamInv
  <2>3. CASE e[2] = n
    <3>1. chan'[e] = <<>> /\ sent'[e] = 0 /\ delivered'[e] = <<>>
          /\ network_buffer'[n][Gid(e[1])].payloads = <<>>
      BY <1>0, <1>7, <2>1, <2>3 DEF IndInv, SilentInv, StreamInv, Stream
    <3>2. Len(<<>>) = 0
      OBVIOUS
    <3>3. ChanInv(e)'
      BY <3>1, <3>2 DEF ChanInv
    <3>4. NewerInv(e)'
      BY <3>1, <3>2 DEF NewerInv
    <3>5. HeldInv(e)'
      BY <2>3, <3>1 DEF HeldInv
    <3>6. Waiting(n, Gid(e[1]), 0)'
      BY <1>6, <1>9 DEF Waiting, IsFrom
    <3>7. CurrentInv(e)'
      BY <1>6, <1>9, <2>3, <3>1, <3>2, <3>6 DEF CurrentInv
    <3> QED
      BY <1>6, <2>3, <3>3, <3>4, <3>5, <3>7 DEF Stream
  <2> QED
    BY <2>2, <2>3
<1>17. NoGap' /\ PersistedBeforeDelivered'
  <2>1. ASSUME NEW e \in Linked, delivered'[e] # <<>>
        PROVE  log_leader_map'[Gid(e[2])][Gid(e[1])] >= Gen(e[1])
    <3>1. Gid(e[1]) \in Groups /\ Gid(e[2]) \in Groups /\ Gen(e[1]) \in Nat
      BY LinkedFacts, NodeFacts
    <3>2. /\ log_leader_map[Gid(e[2])][Gid(e[1])] >= Gen(e[1])
          /\ log_leader_map[Gid(e[2])][Gid(e[1])] \in Nat
          /\ log_leader_map'[Gid(e[2])][Gid(e[1])] \in Nat
      BY <1>2, <1>4, <2>1, <3>1 DEF IndInv, PersistedBeforeDelivered
    <3> QED
      BY <1>5, <3>1, <3>2
  <2> QED
    BY <2>1 DEF IndInv, NoGap, PersistedBeforeDelivered
<1> QED
  BY <1>8, <1>11, <1>12, <1>13, <1>14, <1>15, <1>16, <1>17 DEF IndInv

(* What process_bundle forwards: the changes of the bundle come first, and *)
(* an Unblock of each at the end.                                          *)
LEMMA ForwardedOrder ==
  ASSUME NEW rlcs \in Seq(RLCs), NEW plms \in Seq({})
  PROVE  LET F == Forwarded(rlcs, plms)
         IN /\ \A c \in Range(rlcs) : c \in Range(F) /\ Unblock(c.gid, c.gen) \in Range(F)
            /\ \A c \in Range(F) : IsChange(c) => c \in Range(rlcs)
            /\ \A i, j \in 1 .. Len(F) : i < j /\ IsChange(F[j]) => IsChange(F[i])
<1> DEFINE F == Forwarded(rlcs, plms)
           none == [i \in DOMAIN plms |-> PLm(plms[i])]
           ub == [i \in DOMAIN rlcs |-> Unblock(rlcs[i].gid, rlcs[i].gen)]
<1>a. PICK a \in Nat : a = Len(rlcs) /\ DOMAIN rlcs = 1 .. a
  BY LenProperties
<1>1. plms = <<>>
  BY ElementOfSeq, EmptySeq
<1>2. none = <<>>
  BY <1>1
<1>3. \A i \in 1 .. a : rlcs[i] \in RLCs
  BY <1>a, ElementOfSeq
<1>4. \A i \in 1 .. a : Unblock(rlcs[i].gid, rlcs[i].gen) \in Unblocks
  BY <1>3 DEF Unblock, Unblocks, RLCs
<1>5. ub \in Seq(Unblocks) /\ Len(ub) = a
  BY <1>a, <1>4
<1> DEFINE A == RLCs \cup Unblocks
<1>6. rlcs \in Seq(A) /\ ub \in Seq(A)
  BY <1>5, SeqMonotonic
<1>7. \A i \in 1 .. a : ub[i] = Unblock(rlcs[i].gid, rlcs[i].gen)
  BY <1>a
<1>8. F = rlcs \o ub
  <2>1. F = (rlcs \o none) \o ub
    BY DEF Forwarded
  <2>2. rlcs \o <<>> = rlcs
    BY ConcatEmptySeq
  <2> QED
    BY <1>2, <2>1, <2>2
<1> HIDE DEF F, ub, A
<1>9. /\ Len(F) = a + a
      /\ \A i \in 1 .. a : F[i] = rlcs[i]
      /\ \A i \in 1 .. a : F[i + a] = ub[i]
      /\ \A i \in a + 1 .. a + a : F[i] = ub[i - a]
      /\ DOMAIN F = 1 .. a + a
  <2>1. /\ rlcs \o ub \in Seq(A)
        /\ Len(rlcs \o ub) = Len(rlcs) + Len(ub)
        /\ \A i \in 1 .. Len(rlcs) + Len(ub) :
             (rlcs \o ub)[i] = IF i =< Len(rlcs) THEN rlcs[i] ELSE ub[i - Len(rlcs)]
    BY <1>6, ConcatProperties
  <2>2. /\ F \in Seq(A) /\ Len(F) = a + a
        /\ \A i \in 1 .. a + a : F[i] = IF i =< a THEN rlcs[i] ELSE ub[i - a]
    BY <1>a, <1>5, <1>8, <2>1
  <2>3. DOMAIN F = 1 .. a + a
    BY <2>2, LenProperties
  <2>4. ASSUME NEW i \in 1 .. a
        PROVE  F[i] = rlcs[i] /\ F[i + a] = ub[i]
    <3>1. i \in 1 .. a + a /\ i =< a
      OBVIOUS
    <3>2. i + a \in 1 .. a + a /\ ~(i + a =< a) /\ (i + a) - a = i
      OBVIOUS
    <3> QED
      BY <2>2, <3>1, <3>2
  <2>5. ASSUME NEW i \in a + 1 .. a + a
        PROVE  F[i] = ub[i - a]
    <3>1. i \in 1 .. a + a /\ ~(i =< a)
      OBVIOUS
    <3> QED
      BY <2>2, <3>1
  <2> QED
    BY <2>2, <2>3, <2>4, <2>5
<1>10. \A i \in 1 .. a : IsChange(F[i])
  BY <1>3, <1>9 DEF IsChange, RLCs
<1>11. \A i \in a + 1 .. a + a : ~IsChange(F[i])
  <2>1. ASSUME NEW i \in a + 1 .. a + a
        PROVE  ~IsChange(F[i])
    <3>1. i - a \in 1 .. a
      OBVIOUS
    <3>2. F[i] \in Unblocks
      BY <1>4, <1>7, <1>9, <3>1
    <3> QED
      BY <3>2 DEF IsChange, Unblocks
  <2> QED
    BY <2>1
<1>12. ASSUME NEW c \in Range(rlcs)
       PROVE  c \in Range(F) /\ Unblock(c.gid, c.gen) \in Range(F)
  <2>1. PICK i \in 1 .. a : c = rlcs[i]
    BY <1>a, <1>12 DEF Range
  <2>2. i \in DOMAIN F /\ i + a \in DOMAIN F
    BY <1>9, <2>1
  <2>3. F[i] = c /\ F[i + a] = Unblock(c.gid, c.gen)
    BY <1>7, <1>9, <2>1
  <2> QED
    BY <2>2, <2>3 DEF Range
<1>13. ASSUME NEW c \in Range(F), IsChange(c)
       PROVE  c \in Range(rlcs)
  <2>1. PICK i \in 1 .. a + a : c = F[i]
    BY <1>9, <1>13 DEF Range
  <2>2. i \in 1 .. a
    <3>1. ~(i \in a + 1 .. a + a)
      BY <1>11, <1>13, <2>1
    <3> QED
      BY <2>1, <3>1
  <2> QED
    BY <1>a, <1>9, <2>1, <2>2 DEF Range
<1>14. ASSUME NEW i \in 1 .. Len(F), NEW j \in 1 .. Len(F), i < j, IsChange(F[j])
       PROVE  IsChange(F[i])
  <2>1. ~(j \in a + 1 .. a + a)
    BY <1>11, <1>14
  <2>2. j \in 1 .. a + a
    BY <1>9, <1>14
  <2>3. i \in 1 .. a
    BY <1>9, <1>14, <2>1, <2>2
  <2> QED
    BY <1>10, <2>3
<1> QED
  BY <1>12, <1>13, <1>14 DEF F

(* The leader learns that its bundle is in the log. *)
LEMMA ProcessInv ==
  ASSUME IndInv, Quiet, NEW n \in Nodes, process_bundle(n), UNCHANGED <<sent, delivered>>
  PROVE  IndInv'
<1> DEFINE rlcs == next_insert[n].rlcs
           F == Forwarded(rlcs, next_insert[n].plms)
<1>0. /\ status[n] = "leader"
      /\ inbox' = [inbox EXCEPT ![n] = F]
      /\ next_insert' = [next_insert EXCEPT ![n] = NoInsert]
      /\ UNCHANGED <<log_gen, log_leader_map, status, leader_map, remote_leader_changes,
                     network_buffer, chan>>
  BY DEF process_bundle, Forwarded, logVars
<1>1. rlcs \in Seq(RLCs) /\ next_insert[n].plms \in Seq({})
  BY TypeFacts DEF IndInv
<1>2. /\ \A c \in Range(rlcs) : c \in Range(F) /\ Unblock(c.gid, c.gen) \in Range(F)
      /\ \A c \in Range(F) : IsChange(c) => c \in Range(rlcs)
      /\ \A i, j \in 1 .. Len(F) : i < j /\ IsChange(F[j]) => IsChange(F[i])
  BY <1>1, ForwardedOrder
<1>3. F \in Seq(Items(Messages, {})) /\ \A item \in Range(F) : item.type # "Payload"
  BY <1>1, ForwardedFacts
<1> HIDE DEF F
<1>4. /\ inbox'[n] = F /\ next_insert'[n].rlcs = <<>>
      /\ \A x \in Nodes : x # n => inbox'[x] = <<>> /\ next_insert'[x] = next_insert[x]
  BY <1>0 DEF IndInv, TypeInv, NetInv, NetType, Quiet, NoInsert
<1>5. Range(<<>>) = {} /\ Len(<<>>) = 0
  BY DEF Range
<1>6. TypeInv'
  BY ProcessNet DEF IndInv, TypeInv
<1>7. ElectedInv' /\ SilentInv'
  BY <1>0 DEF IndInv, ElectedInv, SilentInv
<1>8. PersistInv'
  <2> SUFFICES ASSUME NEW x \in Nodes
               PROVE  /\ \A c \in Range(next_insert'[x].rlcs) : c.gen =< log_leader_map[Gid(x)][c.gid]
                      /\ \A c \in Range(inbox'[x]) :
                           IsChange(c) => c.gen =< log_leader_map[Gid(x)][c.gid]
    BY <1>0 DEF IndInv, PersistInv
  <2>1. CASE x = n
    BY <1>2, <1>4, <1>5, <2>1 DEF IndInv, PersistInv
  <2>2. CASE x # n
    BY <1>4, <1>5, <2>2 DEF IndInv, PersistInv
  <2> QED
    BY <2>1, <2>2
<1>9. ForwardInv'
  <2> SUFFICES ASSUME NEW x \in Nodes
               PROVE  /\ \A c \in Range(inbox'[x]) :
                           IsChange(c) => Unblock(c.gid, c.gen) \in Range(inbox'[x])
                      /\ \A i, j \in 1 .. Len(inbox'[x]) :
                           i < j /\ IsChange(inbox'[x][j]) => IsChange(inbox'[x][i])
    BY DEF ForwardInv
  <2>1. CASE x = n
    BY <1>2, <1>4, <2>1
  <2>2. CASE x # n
    BY <1>4, <1>5, <2>2
  <2> QED
    BY <2>1, <2>2
<1>10. LetGoInv'
  BY <1>3, <1>4, <1>5 DEF LetGoInv
<1>11. BufferInv'
  <2>1. \A x \in Nodes, g \in Groups : \A j : Announced(x, g, j) => Announced(x, g, j)'
    <3>1. \A x \in Nodes : Range(next_insert[x].rlcs) \cup Range(inbox[x]) \subseteq
                             Range(next_insert'[x].rlcs) \cup Range(inbox'[x])
      BY <1>2, <1>4, <1>5 DEF Quiet
    <3> QED
      BY <1>0, <3>1 DEF Announced
  <2>2. \A x \in Nodes : Range(inbox[x]) = {}
    BY <1>5 DEF Quiet
  <2> QED
    BY <1>0, <2>1, <2>2 DEF IndInv, BufferInv
<1>12. StreamInv'
  <2> SUFFICES ASSUME NEW e \in Linked
               PROVE  Stream(e)'
    BY DEF StreamInv
  <2>1. e[2] \in Nodes
    BY LinkedFacts
  <2>2. CASE e[2] # n
    BY <1>0, <1>4, <2>1, <2>2, StreamKept DEF IndInv, StreamInv, Quiet
  <2>3. CASE e[2] = n
    <3>1. ChanInv(e) /\ NewerInv(e) /\ HeldInv(e) /\ CurrentInv(e)
      BY <1>0, <2>3 DEF IndInv, StreamInv, Stream
    <3>2. ChanInv(e)' /\ NewerInv(e)' /\ HeldInv(e)'
      BY <1>0, <3>1 DEF ChanInv, NewerInv, HeldInv, Known
    <3>3. CurrentInv(e)'
      <4>1. NoneWaits(e) /\ NoneWaits(e)'
        <5>1. NoneWaits(e)
          BY <2>1, QuietFacts DEF Quiet
        <5>2. \A i \in 1 .. Len(F) : ~IsFrom(F[i], Gid(e[1]))
          BY <1>3 DEF IsFrom, Range
        <5> QED
          BY <1>4, <2>3, <5>1, <5>2 DEF NoneWaits
      <4>2. CASE /\ network_buffer[e[2]][Gid(e[1])].payloads = <<>>
                 /\ Gen(e[1]) = leader_map[e[2]][Gid(e[1])]
        <5>1. sent[e] = Len(delivered[e]) + Len(chan[e])
          BY <3>1, <4>1, <4>2, NoneWaiting DEF IndInv
        <5>2. sent'[e] = Len(delivered'[e]) + Len(chan'[e])
          BY <1>0, <5>1
        <5> QED
          BY <1>6, <4>1, <5>2, NoneWaitingNext
      <4> QED
        BY <1>0, <4>2 DEF CurrentInv
    <3> QED
      BY <1>0, <2>3, <3>2, <3>3 DEF Stream
  <2> QED
    BY <2>2, <2>3
<1>13. NoGap' /\ PersistedBeforeDelivered'
  BY <1>0, DeliveredKept
<1> QED
  BY <1>6, <1>7, <1>8, <1>9, <1>10, <1>11, <1>12, <1>13 DEF IndInv

(* The number of the first message of a queue, and what is left of it. *)
LEMMA TakeFirst ==
  ASSUME TypeInv, NEW e \in Linked, ChanInv(e), chan[e] # <<>>,
         chan'[e] = Tail(chan[e]), sent'[e] = sent[e]
  PROVE  /\ Len(chan[e]) \in Nat /\ Len(chan[e]) >= 1
         /\ Len(chan'[e]) = Len(chan[e]) - 1 /\ Len(chan'[e]) \in Nat
         /\ Head(chan[e]) = [gen |-> Gen(e[1]), number |-> sent[e] - Len(chan[e]) + 1]
         /\ Head(chan[e]) \in Messages
         /\ ChanInv(e)'
<1>1. chan[e] \in Seq(Messages) /\ sent[e] \in Nat
  BY TypeFacts
<1>2. /\ Len(chan[e]) \in Nat /\ Len(chan[e]) >= 1 /\ Head(chan[e]) = chan[e][1]
      /\ Len(chan'[e]) = Len(chan[e]) - 1 /\ Len(chan'[e]) \in Nat
      /\ \A i \in 1 .. Len(chan[e]) - 1 : chan'[e][i] = chan[e][i + 1]
      /\ Head(chan[e]) \in Messages
  BY <1>1
<1>3. 1 \in 1 .. Len(chan[e])
  BY <1>2
<1>4. Head(chan[e]) = [gen |-> Gen(e[1]), number |-> sent[e] - Len(chan[e]) + 1]
  BY <1>2, <1>3 DEF ChanInv
<1>5. ASSUME NEW i \in 1 .. Len(chan'[e])
      PROVE  chan'[e][i] = [gen |-> Gen(e[1]), number |-> sent'[e] - Len(chan'[e]) + i]
  <2>1. i \in 1 .. Len(chan[e]) - 1 /\ i + 1 \in 1 .. Len(chan[e])
    BY <1>2
  <2>2. chan'[e][i] = [gen |-> Gen(e[1]), number |-> sent[e] - Len(chan[e]) + (i + 1)]
    BY <1>2, <2>1 DEF ChanInv
  <2>3. sent[e] - Len(chan[e]) + (i + 1) = sent'[e] - Len(chan'[e]) + i
    BY <1>1, <1>2
  <2> QED
    BY <2>2, <2>3
<1> QED
  BY <1>2, <1>4, <1>5 DEF ChanInv

(* A message that is not delivered at once is dropped or held back. *)
LEMMA ReceiveInv ==
  ASSUME IndInv, Quiet, NEW e \in Linked, Receive(e[2], e[1]), UNCHANGED <<sent, delivered>>
  PROVE  IndInv'
<1>n. PICK n \in Nodes : n = e[2]
  BY LinkedFacts
<1>g. PICK g \in Groups : g = Gid(e[1])
  BY LinkedFacts, NodeFacts
<1>k. PICK k \in Nat : k = Gen(e[1]) /\ k \in Gens
  BY LinkedFacts, NodeFacts
<1> DEFINE buf == network_buffer[n][g]
           m == Head(chan[e])
<1>0. /\ chan[e] # <<>>
      /\ status[n] = "leader"
      /\ ~Delivers(n, e[1])
      /\ chan' = [chan EXCEPT ![e] = Tail(@)]
      /\ UNCHANGED <<log_gen, log_leader_map, status, leader_map, next_insert, inbox>>
      /\ \/ /\ k < Known(n, g)
            /\ UNCHANGED <<network_buffer, remote_leader_changes>>
         \/ /\ k = Known(n, g)
            /\ network_buffer' = [network_buffer EXCEPT ![n][g] =
                                    [gen |-> k, payloads |-> Append(buf.payloads, m)]]
            /\ UNCHANGED remote_leader_changes
         \/ /\ k > Known(n, g)
            /\ network_buffer' = [network_buffer EXCEPT ![n][g] = [gen |-> k, payloads |-> <<m>>]]
            /\ PushRLC(n, g, k)
  BY <1>n, <1>g, <1>k, LinkedFacts DEF Receive, logVars
<1>1. /\ chan \in [Linked -> Seq(Messages)]
      /\ network_buffer \in [Nodes -> [Groups -> Buffers(Messages)]]
      /\ buf.gen \in Nat /\ buf.payloads \in Seq(Messages)
      /\ leader_map[n][g] \in Nat
      /\ Known(n, g) \in Nat
  BY TypeFacts DEF IndInv, TypeInv, NetInv, NetType, Known
<1>2. /\ chan'[e] = Tail(chan[e])
      /\ \A d \in Linked : d # e => chan'[d] = chan[d]
  BY <1>0, <1>1
<1>3. ChanInv(e) /\ NewerInv(e) /\ HeldInv(e) /\ CurrentInv(e)
  BY <1>n, <1>0 DEF IndInv, StreamInv, Stream
<1>4. /\ Len(chan[e]) \in Nat /\ Len(chan[e]) >= 1
      /\ Len(chan'[e]) = Len(chan[e]) - 1 /\ Len(chan'[e]) \in Nat
      /\ m = [gen |-> k, number |-> sent[e] - Len(chan[e]) + 1]
      /\ m \in Messages
      /\ ChanInv(e)'
  BY <1>k, <1>0, <1>2, <1>3, TakeFirst DEF IndInv
<1> HIDE DEF m
<1>5. Range(<<>>) = {}
  BY DEF Range
<1>6. \A x \in Nodes, h \in Groups :
        network_buffer[x][h].payloads # <<>> => network_buffer[x][h].gen > leader_map[x][h]
  BY <1>5 DEF Quiet, IndInv, BufferInv
<1>7. \A x \in Nodes, h \in Groups : x # n \/ h # g => network_buffer'[x][h] = network_buffer[x][h]
  <2>1. CASE UNCHANGED network_buffer
    BY <2>1
  <2>2. CASE \E b : network_buffer' = [network_buffer EXCEPT ![n][g] = b]
    BY <1>1, <2>2
  <2> QED
    BY <1>0, <2>1, <2>2
<1>8. TypeInv'
  BY ReceiveNet DEF IndInv, TypeInv
<1>9. k > leader_map[n][g] => k \in 1 .. MaxGen
  BY <1>k, <1>1, NetworkAssumption DEF Gens
<1>10. Known(n, g) >= leader_map[n][g]
  BY <1>1, <1>6 DEF Known
<1>11. /\ \A x \in Nodes : x # n => remote_leader_changes'[x] = remote_leader_changes[x]
       /\ \/ Range(remote_leader_changes'[n]) = Range(remote_leader_changes[n])
          \/ Range(remote_leader_changes'[n]) = Range(remote_leader_changes[n]) \cup {RLC(g, k)}
       /\ k > Known(n, g) => RLC(g, k) \in Range(remote_leader_changes'[n])
  <2>1. CASE UNCHANGED remote_leader_changes /\ ~(k > Known(n, g))
    BY <2>1
  <2>2. CASE k > Known(n, g) /\ PushRLC(n, g, k)
    <3>1. k \in 1 .. MaxGen
      BY <1>1, <1>9, <1>10, <2>2
    <3> QED
      BY <2>2, <3>1, PushFacts DEF IndInv
  <2> QED
    BY <1>0, <1>1, <2>1, <2>2
<1>12. ElectedInv'
  <2>1. k =< log_gen[g] /\ RLC(g, k).gid = g /\ RLC(g, k).gen = k
    BY <1>g, <1>k, <1>0 DEF IndInv, ElectedInv, RLC
  <2>2. ASSUME NEW x \in Nodes, NEW c \in Range(remote_leader_changes'[x])
        PROVE  c.gen =< log_gen'[c.gid]
    <3>1. c \in Range(remote_leader_changes[x]) \/ c = RLC(g, k)
      BY <1>11
    <3> QED
      BY <1>0, <2>1, <3>1 DEF IndInv, ElectedInv
  <2>3. \A d \in Linked : chan'[d] # <<>> => chan[d] # <<>>
    BY <1>0, <1>2
  <2> QED
    BY <1>0, <2>2, <2>3 DEF IndInv, ElectedInv
<1>13. SilentInv'
  BY <1>n, <1>0, <1>2, <1>7, <1>11 DEF IndInv, SilentInv
<1>14. PersistInv' /\ ForwardInv'
  BY <1>0 DEF IndInv, PersistInv, ForwardInv
<1>15. LetGoInv'
  BY <1>0, <1>5 DEF Quiet, LetGoInv
<1>16. CASE k < Known(n, g)
  <2>0. UNCHANGED <<network_buffer, remote_leader_changes>>
    BY <1>0, <1>1, <1>16
  <2>1. BufferInv'
    BY <1>0, <2>0 DEF IndInv, BufferInv, Announced
  <2>2. ASSUME NEW d \in Linked
        PROVE  Stream(d)'
    <3>1. CASE d # e
      BY <1>0, <1>2, <2>0, <3>1, StreamKept DEF IndInv, StreamInv
    <3>2. CASE d = e
      <4>1. Known(n, g)' = Known(n, g)
        BY <1>0, <2>0 DEF Known
      <4>2. NewerInv(e)' /\ HeldInv(e)' /\ CurrentInv(e)'
        <5>1. NewerInv(e)'
          BY <1>n, <1>g, <1>k, <1>1, <1>16, <4>1 DEF NewerInv
        <5>2. /\ buf.payloads # <<>> => Known(n, g) = buf.gen
              /\ buf.payloads = <<>> => Known(n, g) = leader_map[n][g]
          BY DEF Known
        <5>3. HeldInv(e)'
          BY <1>n, <1>g, <1>k, <1>1, <1>16, <2>0, <5>2 DEF HeldInv
        <5>4. CurrentInv(e)'
          BY <1>n, <1>g, <1>k, <1>0, <1>1, <1>16, <2>0, <5>2 DEF CurrentInv
        <5> QED
          BY <5>1, <5>3, <5>4
      <4> QED
        BY <1>n, <1>0, <1>4, <3>2, <4>2 DEF Stream
    <3> QED
      BY <3>1, <3>2
  <2>3. NoGap' /\ PersistedBeforeDelivered'
    BY <1>0, DeliveredKept
  <2> QED
    BY <1>8, <1>12, <1>13, <1>14, <1>15, <2>1, <2>2, <2>3 DEF IndInv, StreamInv
<1>17. CASE k >= Known(n, g)
  <2>0. PICK ps \in Seq(Messages) :
          /\ network_buffer'[n][g] = [gen |-> k, payloads |-> ps]
          /\ ps # <<>>
          /\ k > leader_map[n][g]
          /\ k > Known(n, g) \/ (k = Known(n, g) /\ Announced(n, g, k))
          /\ delivered[e] = <<>>
          /\ sent[e] = Len(ps) + Len(chan'[e])
          /\ \A i \in 1 .. Len(ps) : ps[i] = [gen |-> k, number |-> i]
    <3>1. CASE k = Known(n, g)
      <4>1. buf.payloads # <<>> /\ buf.gen = k
        <5>1. ~(buf.payloads = <<>> /\ leader_map[n][g] = k)
          <6>1. <<e[1], n>> = e
            BY <1>n, LinkedFacts
          <6> QED
            BY <1>g, <1>k, <1>0, <6>1 DEF Delivers
        <5> QED
          BY <3>1, <5>1 DEF Known
      <4>2. k > leader_map[n][g] /\ Announced(n, g, k)
        BY <1>6, <4>1 DEF IndInv, BufferInv
      <4>3. /\ delivered[e] = <<>>
            /\ sent[e] = Len(buf.payloads) + Len(chan[e])
            /\ \A i \in 1 .. Len(buf.payloads) : buf.payloads[i] = [gen |-> k, number |-> i]
        BY <1>n, <1>g, <1>k, <1>3, <4>1 DEF HeldInv
      <4> DEFINE ps == Append(buf.payloads, m)
      <4>4. /\ ps \in Seq(Messages) /\ ps # <<>>
            /\ Len(buf.payloads) \in Nat /\ Len(ps) = Len(buf.payloads) + 1
            /\ \A i \in 1 .. Len(buf.payloads) : ps[i] = buf.payloads[i]
            /\ ps[Len(buf.payloads) + 1] = m
        BY <1>1, <1>4
      <4>5. network_buffer'[n][g] = [gen |-> k, payloads |-> ps]
        <5>1. network_buffer' = [network_buffer EXCEPT ![n][g] = [gen |-> k, payloads |-> ps]]
          BY <1>0, <1>1, <3>1
        <5> HIDE DEF ps
        <5> QED
          BY <1>1, <5>1
      <4> HIDE DEF ps
      <4>6. sent[e] = Len(ps) + Len(chan'[e])
        <5>1. PICK a \in Nat : a = Len(buf.payloads)
          BY <4>4
        <5>2. PICK c \in Nat : c = Len(chan[e])
          BY <1>4
        <5>3. Len(ps) = a + 1 /\ Len(chan'[e]) = c - 1
          BY <1>4, <4>4, <5>1, <5>2
        <5>4. a + c = (a + 1) + (c - 1)
          OBVIOUS
        <5>5. sent[e] = a + c
          BY <4>3, <5>1, <5>2
        <5> QED
          BY <5>3, <5>4, <5>5
      <4>7. m = [gen |-> k, number |-> Len(buf.payloads) + 1]
        <5>1. sent[e] - Len(chan[e]) + 1 = Len(buf.payloads) + 1
          BY <1>4, <4>3, <4>4
        <5> QED
          BY <1>4, <5>1
      <4>8. \A i \in 1 .. Len(ps) : ps[i] = [gen |-> k, number |-> i]
        <5>1. \A i \in 1 .. Len(ps) : i \in 1 .. Len(buf.payloads) \/ i = Len(buf.payloads) + 1
          BY <4>4
        <5> QED
          BY <4>3, <4>4, <4>7, <5>1
      <4> QED
        BY <3>1, <4>2, <4>3, <4>4, <4>5, <4>6, <4>8
    <3>2. CASE k > Known(n, g)
      <4>1. delivered[e] = <<>> /\ sent[e] = Len(chan[e])
        BY <1>n, <1>g, <1>k, <1>3, <3>2 DEF NewerInv
      <4>2. network_buffer'[n][g] = [gen |-> k, payloads |-> <<m>>]
        BY <1>0, <1>1, <3>2
      <4>3. m = [gen |-> k, number |-> 1]
        <5>1. sent[e] - Len(chan[e]) + 1 = 1
          BY <1>4, <4>1
        <5> QED
          BY <1>4, <5>1
      <4>4. <<m>> \in Seq(Messages) /\ <<m>> # <<>> /\ Len(<<m>>) = 1 /\ <<m>>[1] = m
        BY <1>4
      <4>5. \A i \in 1 .. Len(<<m>>) : <<m>>[i] = [gen |-> k, number |-> i]
        BY <4>3, <4>4
      <4>6. sent[e] = Len(<<m>>) + Len(chan'[e])
        BY <1>4, <4>1, <4>4
      <4>7. k > leader_map[n][g]
        BY <1>1, <1>10, <3>2
      <4> QED
        BY <3>2, <4>1, <4>2, <4>4, <4>5, <4>6, <4>7
    <3> QED
      <4>1. k = Known(n, g) \/ k > Known(n, g)
        BY <1>1, <1>17
      <4> QED
        BY <3>1, <3>2, <4>1
  <2>1. /\ network_buffer'[n][g].gen = k /\ network_buffer'[n][g].payloads = ps
    BY <2>0
  <2>2. BufferInv'
    <3>1. \A x \in Nodes, h \in Groups : \A j : Announced(x, h, j) => Announced(x, h, j)'
      <4>1. \A x \in Nodes : Range(remote_leader_changes[x]) \subseteq Range(remote_leader_changes'[x])
        BY <1>11
      <4> QED
        BY <1>0, <4>1 DEF Announced
    <3>2. Announced(n, g, k)'
      BY <1>0, <1>11, <2>0, <3>1 DEF Announced
    <3>3. ASSUME NEW x \in Nodes, NEW h \in Groups, network_buffer'[x][h].payloads # <<>>
          PROVE  /\ network_buffer'[x][h].gen > leader_map'[x][h]
                 /\ Announced(x, h, network_buffer[x][h].gen)'
      <4>1. CASE x = n /\ h = g
        BY <1>0, <2>0, <2>1, <3>2, <4>1
      <4>2. CASE x # n \/ h # g
        <5>1. network_buffer[x][h].gen > leader_map[x][h] /\ network_buffer[x][h].payloads # <<>>
          BY <1>6, <1>7, <3>3, <4>2
        <5>2. Announced(x, h, network_buffer[x][h].gen)
          BY <5>1 DEF IndInv, BufferInv
        <5> QED
          BY <1>0, <1>7, <3>1, <4>2, <5>1, <5>2
      <4> QED
        BY <4>1, <4>2
    <3> QED
      BY <3>3 DEF BufferInv
  <2>3. ASSUME NEW d \in Linked
        PROVE  Stream(d)'
    <3>0. /\ d[1] \in Nodes /\ d[2] \in Nodes /\ d = <<d[1], d[2]>>
          /\ Gid(d[1]) \in Groups /\ Gen(d[1]) \in Nat /\ d[1] = <<Gid(d[1]), Gen(d[1])>>
          /\ e = <<e[1], e[2]>> /\ e[1] = <<Gid(e[1]), Gen(e[1])>>
      BY LinkedFacts, NodeFacts
    <3>1. CASE d[2] # n \/ Gid(d[1]) # g
      <4>1. d # e
        BY <1>n, <1>g, <3>1
      <4> QED
        BY <1>0, <1>2, <1>7, <3>0, <3>1, <4>1, StreamKept DEF IndInv, StreamInv
    <3>2. CASE d[2] = n /\ Gid(d[1]) = g /\ d # e
      <4>1. Gen(d[1]) # k
        BY <1>n, <1>g, <1>k, <3>0, <3>2
      <4>2. chan'[d] = chan[d]
        BY <1>2, <3>2
      <4>3. ChanInv(d) /\ NewerInv(d)
        BY <1>0, <3>2 DEF IndInv, StreamInv, Stream
      <4>4. ChanInv(d)'
        BY <4>2, <4>3 DEF ChanInv
      <4>5. NewerInv(d)'
        <5>1. Known(n, g)' = k
          BY <2>0, <2>1 DEF Known
        <5>2. Gen(d[1]) > k => Gen(d[1]) > Known(n, g)
          BY <1>1, <1>17, <3>0
        <5> QED
          BY <3>2, <4>2, <4>3, <5>1, <5>2 DEF NewerInv
      <4>6. HeldInv(d)' /\ CurrentInv(d)'
        BY <2>0, <2>1, <3>2, <4>1 DEF HeldInv, CurrentInv
      <4> QED
        BY <1>0, <3>2, <4>4, <4>5, <4>6 DEF Stream
    <3>3. CASE d = e
      <4>1. NewerInv(e)'
        BY <1>n, <1>g, <1>k, <2>0, <2>1 DEF NewerInv, Known
      <4>2. HeldInv(e)'
        BY <1>n, <1>g, <1>k, <2>0, <2>1 DEF HeldInv
      <4>3. CurrentInv(e)'
        BY <1>n, <1>g, <2>0, <2>1 DEF CurrentInv
      <4> QED
        BY <1>n, <1>0, <1>4, <3>3, <4>1, <4>2, <4>3 DEF Stream
    <3> QED
      BY <3>1, <3>2, <3>3
  <2>4. NoGap' /\ PersistedBeforeDelivered'
    BY <1>0, DeliveredKept
  <2> QED
    BY <1>8, <1>12, <1>13, <1>14, <1>15, <2>2, <2>3, <2>4 DEF IndInv, StreamInv
<1> QED
  BY <1>1, <1>16, <1>17

(* The i-th input of e[2] and those before it are the messages from e[1]   *)
(* that come after those delivered.                                        *)
LetGo(e, i) ==
  \E p \in 0 .. Len(inbox[e[2]]) :
    /\ i =< p
    /\ Waiting(e[2], Gid(e[1]), p)
    /\ sent[e] = Len(delivered[e]) + p + Len(chan[e])
    /\ \A j \in 1 .. p : inbox[e[2]][j].payload =
                           [gen |-> Gen(e[1]), number |-> Len(delivered[e]) + j]

(* The sender of a message that was let go is the leader that n knows, and *)
(* what it sent before was delivered or is let go before it.               *)
LEMMA LetGoStream ==
  ASSUME IndInv, NEW n \in Nodes, NEW i \in 1 .. Len(inbox[n]), NEW h,
         IsFrom(inbox[n][i], h)
  PROVE  LET d == <<<<h, leader_map[n][h]>>, n>>
         IN /\ h \in Groups /\ d \in Linked
            /\ Gid(d[1]) = h /\ Gen(d[1]) = leader_map[n][h] /\ d[2] = n
            /\ status[n] = "leader"
            /\ network_buffer[n][h].payloads = <<>>
            /\ LetGo(d, i)
<1> DEFINE src == <<h, leader_map[n][h]>>
           d == <<src, n>>
<1>1. inbox[n] \in Seq(Items(Messages, {}))
  BY TypeFacts DEF IndInv
<1>2. inbox[n][i] \in Range(inbox[n]) /\ inbox[n] # <<>>
  <2>1. i \in DOMAIN inbox[n]
    BY <1>1, LenProperties
  <2> QED
    BY <1>1, <2>1 DEF Range
<1>3. <<h, Gid(n)>> \in Links
  BY <1>2 DEF IsFrom, IndInv, TypeInv, NetInv, BlockedInv
<1>4. h \in Groups
  BY <1>3, NetworkAssumption
<1>5. src \in Nodes /\ Gid(src) = h /\ Gen(src) = leader_map[n][h]
  BY <1>4 DEF IndInv, TypeInv, NetInv, NetType, Nodes, Gid, Gen
<1>6. d \in Linked /\ d[1] = src /\ d[2] = n
  BY <1>3, <1>5 DEF Linked
<1>7. status[n] = "leader"
  BY <1>2 DEF IndInv, TypeInv, NetInv, IdleInv
<1>8. network_buffer[n][h].payloads = <<>>
  BY <1>2 DEF IsFrom, IndInv, LetGoInv
<1>9. CurrentInv(d)
  BY <1>6, <1>7 DEF IndInv, StreamInv, Stream
<1>10. PICK p \in 0 .. Len(inbox[n]) :
         /\ Waiting(n, h, p)
         /\ sent[d] = Len(delivered[d]) + p + Len(chan[d])
         /\ \A j \in 1 .. p : inbox[n][j].payload =
              [gen |-> Gen(d[1]), number |-> Len(delivered[d]) + j]
  BY <1>5, <1>6, <1>8, <1>9 DEF CurrentInv
<1>11. i =< p
  BY <1>10 DEF Waiting
<1>12. LetGo(d, i)
  BY <1>5, <1>6, <1>10, <1>11 DEF LetGo
<1> QED
  BY <1>4, <1>5, <1>6, <1>7, <1>8, <1>12

(* All inputs before it are messages of the same sender. *)
LEMMA LetGoTogether ==
  ASSUME IndInv, NEW n \in Nodes, NEW i \in 1 .. Len(inbox[n]), NEW h,
         IsFrom(inbox[n][i], h)
  PROVE  \E p \in 0 .. Len(inbox[n]) : i =< p /\ Waiting(n, h, p)
<1>1. PICK d : d[2] = n /\ Gid(d[1]) = h /\ LetGo(d, i)
  BY LetGoStream
<1> QED
  BY <1>1 DEF LetGo

(* Messages that were let go come before all other inputs. *)
LEMMA PayloadsFirst ==
  ASSUME IndInv, NEW n \in Nodes, inbox[n] # <<>>, Head(inbox[n]).type # "Payload"
  PROVE  /\ \A i \in 1 .. Len(inbox[n]) : inbox[n][i].type # "Payload"
         /\ \A item \in Range(inbox[n]) : item.type # "Payload"
<1>1. inbox[n] \in Seq(Items(Messages, {}))
  BY TypeFacts DEF IndInv
<1>2. Head(inbox[n]) = inbox[n][1] /\ Len(inbox[n]) \in Nat /\ DOMAIN inbox[n] = 1 .. Len(inbox[n])
  BY <1>1
<1>3. ASSUME NEW i \in 1 .. Len(inbox[n]), inbox[n][i].type = "Payload"
      PROVE  FALSE
  <2>1. PICK p \in 0 .. Len(inbox[n]) : i =< p /\ Waiting(n, inbox[n][i].from, p)
    BY <1>3, LetGoTogether DEF IsFrom
  <2>2. 1 \in 1 .. Len(inbox[n]) /\ 1 =< p
    BY <1>2, <2>1
  <2>3. inbox[n][1].type = "Payload"
    BY <2>1, <2>2 DEF Waiting, IsFrom
  <2> QED
    BY <1>2, <2>3
<1> QED
  BY <1>2, <1>3 DEF Range

(* deliver_blocked_messages lets go what a buffer holds, or drops it. *)
LEMMA DeliverInv ==
  ASSUME IndInv, NEW n \in Nodes, deliver_blocked_messages(n), UNCHANGED <<sent, delivered>>
  PROVE  IndInv'
<1>T. /\ inbox \in [Nodes -> Seq(Items(Messages, {}))] /\ inbox[n] # <<>>
      /\ Head(inbox[n]).type = "Unblock"
  BY TypeFacts DEF IndInv, deliver_blocked_messages
<1>h. /\ Head(inbox[n]) \in Unblocks /\ Head(inbox[n]) = inbox[n][1]
      /\ Tail(inbox[n]) \in Seq(Items(Messages, {}))
      /\ Len(inbox[n]) \in Nat /\ Len(inbox[n]) >= 1 /\ Len(Tail(inbox[n])) = Len(inbox[n]) - 1
      /\ \A i \in 1 .. Len(inbox[n]) - 1 : Tail(inbox[n])[i] = inbox[n][i + 1]
      /\ DOMAIN inbox[n] = 1 .. Len(inbox[n])
  <2>1. Head(inbox[n]) \in Items(Messages, {})
    BY <1>T
  <2>2. Head(inbox[n]) \in Unblocks
    BY <1>T, <2>1 DEF Items, RLCs, PLmItems, PayloadItems, LC
  <2> QED
    BY <1>T, <2>2
<1>g. PICK g \in Groups : g = Head(inbox[n]).gid
  BY <1>h DEF Unblocks
<1>k. PICK k \in 1 .. MaxGen : k = Head(inbox[n]).gen
  BY <1>h DEF Unblocks
<1> DEFINE buf == network_buffer[n][g]
           rest == Tail(inbox[n])
<1>0. /\ \/ /\ Unblocked(n, g, k)
            /\ network_buffer' = [network_buffer EXCEPT ![n][g] = EmptyBuffer]
            /\ inbox' = [inbox EXCEPT ![n] =
                 IF k = buf.gen THEN BlockedOf(n, g) \o Tail(@) ELSE Tail(@)]
         \/ /\ ~Unblocked(n, g, k)
            /\ inbox' = [inbox EXCEPT ![n] = Tail(@)]
            /\ UNCHANGED network_buffer
      /\ UNCHANGED <<log_gen, log_leader_map, status, leader_map, remote_leader_changes,
                     next_insert, chan>>
  BY <1>g, <1>k DEF deliver_blocked_messages, logVars, bundleVars
<1>1. /\ network_buffer \in [Nodes -> [Groups -> Buffers(Messages)]]
      /\ buf \in Buffers(Messages) /\ buf.gen \in Nat /\ buf.payloads \in Seq(Messages)
      /\ leader_map[n][g] \in Nat /\ Len(buf.payloads) \in Nat
  <2>1. buf.payloads \in Seq(Messages)
    BY TypeFacts DEF IndInv
  <2> QED
    BY <2>1, TypeFacts DEF IndInv, TypeInv, NetInv, NetType
<1>2. k \in Nat
  BY NetworkAssumption
<1>3. PICK B \in Seq(Items(Messages, {})) :
        /\ B = IF Unblocked(n, g, k) /\ k = buf.gen THEN BlockedOf(n, g) ELSE <<>>
        /\ inbox'[n] = B \o rest
        /\ \A x \in Nodes : x # n => inbox'[x] = inbox[x]
  <2>1. BlockedOf(n, g) \in Seq(Items(Messages, {}))
    BY <1>1, BlockedFacts
  <2>2. <<>> \o rest = rest /\ <<>> \in Seq(Items(Messages, {}))
    BY <1>h, ConcatEmptySeq
  <2>3. inbox'[n] = (IF Unblocked(n, g, k) /\ k = buf.gen THEN BlockedOf(n, g) ELSE <<>>) \o rest
    <3>1. CASE ~Unblocked(n, g, k)
      BY <1>T, <1>0, <2>2, <3>1
    <3>2. CASE Unblocked(n, g, k) /\ k = buf.gen
      BY <1>T, <1>0, <3>2
    <3>3. CASE Unblocked(n, g, k) /\ k # buf.gen
      BY <1>T, <1>0, <2>2, <3>3
    <3> QED
      BY <3>1, <3>2, <3>3
  <2>4. \A x \in Nodes : x # n => inbox'[x] = inbox[x]
    BY <1>T, <1>0
  <2> QED
    BY <2>1, <2>2, <2>3, <2>4
<1>4. /\ Len(inbox'[n]) = Len(B) + Len(rest) /\ Len(B) \in Nat /\ Len(rest) \in Nat
      /\ \A i \in 1 .. Len(B) + Len(rest) :
           inbox'[n][i] = IF i =< Len(B) THEN B[i] ELSE rest[i - Len(B)]
      /\ Range(inbox'[n]) = Range(B) \cup Range(rest)
      /\ \A i \in 1 .. Len(B) : B[i] \in Range(B)
      /\ \A i \in 1 .. Len(rest) : rest[i] \in Range(rest)
  <2> HIDE DEF rest
  <2>1. rest \in Seq(Items(Messages, {})) /\ B \in Seq(Items(Messages, {}))
    BY <1>h, <1>3 DEF rest
  <2>2. inbox'[n] = B \o rest
    BY <1>3
  <2>3. ASSUME NEW s \in Seq(Items(Messages, {}))
        PROVE  Len(s) \in Nat /\ \A i \in 1 .. Len(s) : s[i] \in Range(s)
    BY <2>3, LenProperties DEF Range
  <2>4. /\ Len(B \o rest) = Len(B) + Len(rest)
        /\ \A i \in 1 .. Len(B) + Len(rest) :
             (B \o rest)[i] = IF i =< Len(B) THEN B[i] ELSE rest[i - Len(B)]
    BY <2>1, ConcatProperties
  <2>5. Range(B \o rest) = Range(B) \cup Range(rest)
    BY <2>1, RangeConcatenation
  <2> QED
    BY <2>1, <2>2, <2>3, <2>4, <2>5
<1>5. \A item \in Range(B) : \E i \in 1 .. Len(buf.payloads) : item = Payload(g, buf.payloads[i])
  <2>1. Range(<<>>) = {}
    BY DEF Range
  <2>2. Range(BlockedOf(n, g)) = {Payload(g, p) : p \in Range(buf.payloads)}
    BY <1>1, BlockedFacts
  <2>3. \A p \in Range(buf.payloads) : \E i \in 1 .. Len(buf.payloads) : p = buf.payloads[i]
    BY <1>1 DEF Range
  <2> QED
    BY <1>3, <2>1, <2>2, <2>3
<1>6. \A item \in Range(B) : item.type = "Payload" /\ item.from = g /\ ~IsChange(item)
  BY <1>5 DEF Payload, IsChange
<1>7. /\ \A item \in Range(inbox[n]) : item.type # "Payload" /\ ~IsChange(item)
      /\ \A item \in Range(inbox[n]) : item # Head(inbox[n]) => item \in Range(rest)
      /\ Range(rest) \subseteq Range(inbox[n])
  <2>1. \A item \in Range(inbox[n]) : item.type # "Payload"
    BY <1>T, PayloadsFirst
  <2>2. ASSUME NEW i \in 1 .. Len(inbox[n])
        PROVE  ~IsChange(inbox[n][i])
    <3>1. ~IsChange(inbox[n][1]) /\ 1 \in 1 .. Len(inbox[n])
      BY <1>T, <1>h DEF IsChange
    <3>2. CASE i = 1
      BY <3>1, <3>2
    <3>3. CASE 1 < i
      BY <3>1, <3>3 DEF IndInv, ForwardInv
    <3> QED
      BY <3>2, <3>3
  <2>3. \A item \in Range(inbox[n]) : ~IsChange(item)
    BY <1>h, <2>2 DEF Range
  <2>4. ASSUME NEW item \in Range(inbox[n]), item # Head(inbox[n])
        PROVE  item \in Range(rest)
    <3>1. PICK i \in 1 .. Len(inbox[n]) : item = inbox[n][i]
      BY <1>h DEF Range
    <3>2. i # 1 /\ i - 1 \in 1 .. Len(inbox[n]) - 1
      BY <1>h, <2>4, <3>1
    <3>3. item = rest[i - 1] /\ i - 1 \in 1 .. Len(rest)
      BY <1>h, <3>1, <3>2
    <3> QED
      BY <1>4, <3>3
  <2>5. Range(rest) \subseteq Range(inbox[n])
    BY <1>T, RangeTail
  <2> QED
    BY <2>1, <2>3, <2>4, <2>5
<1> HIDE DEF rest
<1>8. \A item \in Range(inbox'[n]) : ~IsChange(item) /\ (item.type = "Payload" => item \in Range(B))
  BY <1>4, <1>6, <1>7
<1>9. /\ \A x \in Nodes, h \in Groups : x # n \/ h # g => network_buffer'[x][h] = network_buffer[x][h]
      /\ network_buffer'[n][g] = IF Unblocked(n, g, k) THEN EmptyBuffer ELSE buf
  BY <1>0, <1>1
<1>10. TypeInv'
  BY DeliverNet DEF IndInv, TypeInv
<1>11. status[n] = "leader"
  BY <1>T DEF IndInv, TypeInv, NetInv, IdleInv
<1>12. ElectedInv'
  BY <1>0 DEF IndInv, ElectedInv
<1>13. SilentInv'
  <2>1. \A x \in Nodes, h \in Groups : x # n => network_buffer'[x][h] = network_buffer[x][h]
    BY <1>9
  <2> QED
    BY <1>0, <1>11, <2>1 DEF IndInv, SilentInv
<1>14. PersistInv'
  BY <1>0, <1>3, <1>8 DEF IndInv, PersistInv
<1>15. ForwardInv'
  <2> SUFFICES ASSUME NEW x \in Nodes
               PROVE  /\ \A c \in Range(inbox'[x]) :
                           IsChange(c) => Unblock(c.gid, c.gen) \in Range(inbox'[x])
                      /\ \A i, j \in 1 .. Len(inbox'[x]) :
                           i < j /\ IsChange(inbox'[x][j]) => IsChange(inbox'[x][i])
    BY DEF ForwardInv
  <2>1. CASE x # n
    BY <1>3, <2>1 DEF IndInv, ForwardInv
  <2>2. CASE x = n
    <3>1. inbox'[n] \in Seq(Items(Messages, {}))
      BY <1>10 DEF TypeInv, NetInv, NetType
    <3>2. \A j \in 1 .. Len(inbox'[n]) : inbox'[n][j] \in Range(inbox'[n])
      BY <3>1, LenProperties DEF Range
    <3> QED
      BY <1>8, <2>2, <3>2
  <2> QED
    BY <2>1, <2>2
<1>16. LetGoInv'
  <2> SUFFICES ASSUME NEW x \in Nodes, NEW item \in Range(inbox'[x]), item.type = "Payload"
               PROVE  network_buffer'[x][item.from].payloads = <<>>
    BY DEF LetGoInv
  <2>1. CASE x = n
    <3>1. item \in Range(B) /\ item.from = g
      BY <1>6, <1>8, <2>1
    <3>2. Unblocked(n, g, k)
      <4>1. Range(<<>>) = {}
        BY DEF Range
      <4> QED
        BY <1>3, <3>1, <4>1
    <3> QED
      BY <1>9, <2>1, <3>1, <3>2 DEF EmptyBuffer
  <2>2. CASE x # n
    <3>1. item \in Range(inbox[x]) /\ network_buffer[x][item.from].payloads = <<>>
      BY <1>3, <2>2 DEF IndInv, LetGoInv
    <3>2. <<item.from, Gid(x)>> \in Links
      BY <3>1 DEF IndInv, TypeInv, NetInv, BlockedInv
    <3>3. item.from \in Groups
      BY <3>2, NetworkAssumption
    <3> QED
      BY <1>9, <2>2, <3>1, <3>3
  <2> QED
    BY <2>1, <2>2
<1>17. BufferInv'
  <2> SUFFICES ASSUME NEW x \in Nodes, NEW h \in Groups, network_buffer'[x][h].payloads # <<>>
               PROVE  IF network_buffer'[x][h].gen > leader_map'[x][h]
                      THEN Announced(x, h, network_buffer[x][h].gen)'
                      ELSE Unblock(h, leader_map'[x][h]) \in Range(inbox'[x])
    BY DEF BufferInv
  <2>1. network_buffer'[x][h] = network_buffer[x][h]
    BY <1>9 DEF EmptyBuffer
  <2>2. IF network_buffer[x][h].gen > leader_map[x][h]
        THEN Announced(x, h, network_buffer[x][h].gen)
        ELSE Unblock(h, leader_map[x][h]) \in Range(inbox[x])
    BY <2>1 DEF IndInv, BufferInv
  <2>3. CASE x # n
    BY <1>0, <1>3, <2>1, <2>2, <2>3 DEF Announced
  <2>4. CASE x = n /\ network_buffer[x][h].gen > leader_map[x][h]
    <3>1. \A j : RLC(h, j) \notin Range(inbox[n])
      BY <1>7 DEF IsChange, RLC
    <3> QED
      BY <1>0, <2>1, <2>2, <2>4, <3>1 DEF Announced
  <2>5. CASE x = n /\ ~(network_buffer[x][h].gen > leader_map[x][h])
    <3>1. Unblock(h, leader_map[n][h]) \in Range(inbox[n])
      BY <2>2, <2>5
    <3>2. Unblock(h, leader_map[n][h]) # Head(inbox[n])
      <4> SUFFICES ASSUME Unblock(h, leader_map[n][h]) = Head(inbox[n])
                   PROVE  FALSE
        OBVIOUS
      <4>1. h = g /\ leader_map[n][g] = k
        BY <1>g, <1>k DEF Unblock
      <4>2. Unblocked(n, g, k)
        BY <1>1, <1>2, <2>5, <4>1 DEF Unblocked
      <4> QED
        BY <1>9, <2>5, <4>1, <4>2 DEF EmptyBuffer
    <3> QED
      BY <1>0, <1>4, <1>7, <2>1, <2>5, <3>1, <3>2
  <2> QED
    BY <2>3, <2>4, <2>5
<1>18. ASSUME NEW d \in Linked, d[2] = n, \A item \in Range(B) : item.from # Gid(d[1])
       PROVE  NoneWaits(d) /\ NoneWaits(d)'
  <2>1. NoneWaits(d)
    BY <1>T, <1>18, PayloadsFirst DEF NoneWaits, IsFrom
  <2>2. inbox'[n] \in Seq(Items(Messages, {}))
    BY <1>10 DEF TypeInv, NetInv, NetType
  <2>3. \A i \in 1 .. Len(inbox'[n]) : inbox'[n][i] \in Range(inbox'[n])
    BY <2>2, LenProperties DEF Range
  <2>4. NoneWaits(d)'
    BY <1>8, <1>18, <2>3 DEF NoneWaits, IsFrom
  <2> QED
    BY <2>1, <2>4
<1>19. StreamInv'
  <2> SUFFICES ASSUME NEW d \in Linked
               PROVE  Stream(d)'
    BY DEF StreamInv
  <2>0. d[2] \in Nodes /\ Gid(d[1]) \in Groups /\ Gen(d[1]) \in Nat
    BY LinkedFacts, NodeFacts
  <2>1. CASE d[2] # n
    BY <1>0, <1>3, <1>9, <2>0, <2>1, StreamKept DEF IndInv, StreamInv
  <2>2. CASE d[2] = n /\ network_buffer'[n][Gid(d[1])] = network_buffer[n][Gid(d[1])]
             /\ \A item \in Range(B) : item.from # Gid(d[1])
    <3>1. ChanInv(d) /\ NewerInv(d) /\ HeldInv(d) /\ CurrentInv(d)
      BY <1>11, <2>2 DEF IndInv, StreamInv, Stream
    <3>2. ChanInv(d)' /\ NewerInv(d)' /\ HeldInv(d)'
      BY <1>0, <2>2, <3>1 DEF ChanInv, NewerInv, HeldInv, Known
    <3>3. CurrentInv(d)'
      <4>1. NoneWaits(d) /\ NoneWaits(d)'
        BY <1>18, <2>2
      <4>2. CASE /\ network_buffer[d[2]][Gid(d[1])].payloads = <<>>
                 /\ Gen(d[1]) = leader_map[d[2]][Gid(d[1])]
        <5>1. sent[d] = Len(delivered[d]) + Len(chan[d])
          BY <3>1, <4>1, <4>2, NoneWaiting DEF IndInv
        <5>2. sent'[d] = Len(delivered'[d]) + Len(chan'[d])
          BY <1>0, <5>1
        <5> QED
          BY <1>10, <4>1, <5>2, NoneWaitingNext
      <4> QED
        BY <1>0, <2>2, <4>2 DEF CurrentInv
    <3> QED
      BY <1>0, <1>11, <2>2, <3>2, <3>3 DEF Stream
  <2>3. CASE d[2] = n /\ Gid(d[1]) = g /\ buf.payloads # <<>> /\ Unblocked(n, g, k)
    <3>0. k = leader_map[n][g] /\ k >= buf.gen
      BY <2>3 DEF Unblocked
    <3>1. ChanInv(d) /\ NewerInv(d) /\ HeldInv(d)
      BY <1>11, <2>3 DEF IndInv, StreamInv, Stream
    <3>2. network_buffer'[n][g].payloads = <<>>
      BY <1>9, <2>3 DEF EmptyBuffer
    <3>3. ChanInv(d)' /\ HeldInv(d)'
      BY <1>0, <2>3, <3>1, <3>2 DEF ChanInv, HeldInv
    <3>4. Gen(d[1]) > buf.gen => delivered[d] = <<>> /\ sent[d] = Len(chan[d])
      BY <2>3, <3>1 DEF NewerInv, Known
    <3>5. NewerInv(d)'
      <4>1. Known(n, g)' = k
        BY <1>0, <3>0, <3>2 DEF Known
      <4>2. Gen(d[1]) > k => Gen(d[1]) > buf.gen
        BY <1>1, <1>2, <2>0, <3>0
      <4> QED
        BY <1>0, <2>3, <3>4, <4>1, <4>2 DEF NewerInv
    <3>6. ASSUME Gen(d[1]) = k, k # buf.gen
          PROVE  CurrentInv(d)'
      <4>1. delivered[d] = <<>> /\ sent[d] = Len(chan[d])
        BY <1>1, <1>2, <3>0, <3>4, <3>6
      <4>2. Range(<<>>) = {} /\ Len(<<>>) = 0
        BY DEF Range
      <4>3. NoneWaits(d)'
        BY <1>3, <1>18, <2>3, <3>6, <4>2
      <4>4. sent'[d] = Len(delivered'[d]) + Len(chan'[d])
        <5>1. chan[d] \in Seq(Messages) /\ Len(chan[d]) \in Nat
          BY TypeFacts DEF IndInv
        <5> QED
          BY <1>0, <4>1, <4>2, <5>1
      <4> QED
        BY <1>10, <4>3, <4>4, NoneWaitingNext
    <3>7. ASSUME Gen(d[1]) = k, k = buf.gen
          PROVE  CurrentInv(d)'
      <4>1. /\ delivered[d] = <<>>
            /\ sent[d] = Len(buf.payloads) + Len(chan[d])
            /\ \A i \in 1 .. Len(buf.payloads) :
                 buf.payloads[i] = [gen |-> Gen(d[1]), number |-> i]
        BY <2>3, <3>1, <3>7 DEF HeldInv
      <4>2. PICK p \in Nat : p = Len(buf.payloads)
        BY <1>1
      <4>3. /\ B = BlockedOf(n, g) /\ Len(B) = p
            /\ \A i \in 1 .. p : B[i] = Payload(g, buf.payloads[i])
        <5>1. B = BlockedOf(n, g)
          BY <1>3, <2>3, <3>7
        <5>2. Len(B) = p
          BY <1>1, <4>2, <5>1, BlockedFacts
        <5>3. DOMAIN buf.payloads = 1 .. p
          BY <1>1, <4>2, LenProperties
        <5> QED
          BY <5>1, <5>2, <5>3 DEF BlockedOf
      <4>4. \A i \in 1 .. p : inbox'[n][i] = Payload(g, buf.payloads[i])
        BY <1>4, <4>3
      <4>5. \A i \in 1 .. Len(inbox'[n]) : ~(i =< p) => inbox'[n][i].type # "Payload"
        <5>1. ASSUME NEW i \in 1 .. Len(inbox'[n]), ~(i =< p)
              PROVE  inbox'[n][i].type # "Payload"
          <6>1. i \in 1 .. Len(B) + Len(rest) /\ i - Len(B) \in 1 .. Len(rest) /\ ~(i =< Len(B))
            BY <1>4, <4>3, <5>1
          <6>2. inbox'[n][i] \in Range(rest)
            BY <1>4, <6>1
          <6> QED
            BY <1>7, <6>2
        <5> QED
          BY <5>1
      <4>6. Waiting(n, g, p)'
        <5>1. \A i \in 1 .. p : inbox'[n][i].type = "Payload" /\ inbox'[n][i].from = g
          <6>1. \A x : Payload(g, x).type = "Payload" /\ Payload(g, x).from = g
            BY DEF Payload
          <6> QED
            BY <4>4, <6>1
        <5>2. \A i \in 1 .. Len(inbox'[n]) : i =< p => i \in 1 .. p
          BY <4>2
        <5> QED
          BY <4>5, <5>1, <5>2 DEF Waiting, IsFrom
      <4>7. p \in 0 .. Len(inbox'[n])
        BY <1>4, <4>3
      <4>8. /\ Len(delivered'[d]) = 0 /\ Len(chan'[d]) \in Nat
            /\ sent'[d] = Len(delivered'[d]) + p + Len(chan'[d])
        <5>1. chan[d] \in Seq(Messages) /\ Len(chan[d]) \in Nat
          BY TypeFacts DEF IndInv
        <5> QED
          BY <1>0, <4>1, <4>2, <5>1
      <4>9. \A i \in 1 .. p : inbox'[n][i].payload =
              [gen |-> Gen(d[1]), number |-> Len(delivered'[d]) + i]
        <5>1. \A i \in 1 .. p : inbox'[n][i].payload = [gen |-> Gen(d[1]), number |-> i]
          <6>1. \A x : Payload(g, x).payload = x
            BY DEF Payload
          <6> QED
            BY <4>1, <4>2, <4>4, <6>1
        <5>2. \A i \in 1 .. p : Len(delivered'[d]) + i = i
          BY <4>8
        <5> QED
          BY <5>1, <5>2
      <4> QED
        BY <2>3, <4>6, <4>7, <4>8, <4>9 DEF CurrentInv
    <3>8. CurrentInv(d)'
      <4>1. Gen(d[1]) # k => CurrentInv(d)'
        BY <1>0, <2>3, <3>0 DEF CurrentInv
      <4> QED
        BY <3>6, <3>7, <4>1
    <3> QED
      BY <1>0, <1>11, <2>3, <3>3, <3>5, <3>8 DEF Stream
  <2>4. CASE d[2] = n /\ Gid(d[1]) = g /\ buf.payloads = <<>> /\ Unblocked(n, g, k)
    <3>1. ChanInv(d) /\ NewerInv(d) /\ CurrentInv(d)
      BY <1>11, <2>4 DEF IndInv, StreamInv, Stream
    <3>2. network_buffer'[n][g].payloads = <<>>
      BY <1>9, <2>4 DEF EmptyBuffer
    <3>3. ChanInv(d)' /\ NewerInv(d)' /\ HeldInv(d)'
      BY <1>0, <2>4, <3>1, <3>2 DEF ChanInv, NewerInv, HeldInv, Known
    <3>4. NoneWaits(d) /\ NoneWaits(d)'
      <4>1. Range(B) = {}
        <5>1. 1 .. Len(buf.payloads) = {}
          BY <2>4
        <5> QED
          BY <1>5, <5>1
      <4> QED
        BY <1>18, <2>4, <4>1
    <3>5. CurrentInv(d)'
      <4>2. CASE Gen(d[1]) = leader_map[d[2]][Gid(d[1])]
        <5>1. sent[d] = Len(delivered[d]) + Len(chan[d])
          BY <2>4, <3>1, <3>4, <4>2, NoneWaiting DEF IndInv
        <5>2. sent'[d] = Len(delivered'[d]) + Len(chan'[d])
          BY <1>0, <5>1
        <5> QED
          BY <1>10, <3>4, <5>2, NoneWaitingNext
      <4> QED
        BY <1>0, <4>2 DEF CurrentInv
    <3> QED
      BY <1>0, <1>11, <2>4, <3>3, <3>5 DEF Stream
  <2>5. CASE d[2] = n /\ Gid(d[1]) = g /\ ~Unblocked(n, g, k)
    <3>1. Range(<<>>) = {}
      BY DEF Range
    <3>2. Range(B) = {} /\ network_buffer'[n][Gid(d[1])] = network_buffer[n][Gid(d[1])]
      BY <1>3, <1>9, <2>5, <3>1
    <3> QED
      BY <2>2, <2>5, <3>2
  <2>6. CASE d[2] = n /\ Gid(d[1]) # g
    BY <1>6, <1>9, <2>0, <2>2, <2>6
  <2> QED
    BY <2>1, <2>3, <2>4, <2>5, <2>6
<1>20. NoGap' /\ PersistedBeforeDelivered'
  BY <1>0, DeliveredKept
<1> QED
  BY <1>10, <1>12, <1>13, <1>14, <1>15, <1>16, <1>17, <1>19, <1>20 DEF IndInv

(* What is left when the first input is handled. *)
LEMMA RestFacts ==
  ASSUME TypeInv, NEW n \in Nodes, inbox[n] # <<>>, inbox' = [inbox EXCEPT ![n] = Tail(inbox[n])]
  PROVE  /\ Len(inbox[n]) \in Nat /\ Len(inbox[n]) >= 1
         /\ Head(inbox[n]) = inbox[n][1]
         /\ Head(inbox[n]) \in Items(Messages, {})
         /\ Head(inbox[n]) \in Range(inbox[n])
         /\ Len(inbox'[n]) = Len(inbox[n]) - 1 /\ Len(inbox'[n]) \in Nat
         /\ \A i \in 1 .. Len(inbox'[n]) :
              /\ inbox'[n][i] = inbox[n][i + 1]
              /\ i + 1 \in 1 .. Len(inbox[n])
              /\ inbox'[n][i] \in Range(inbox'[n])
         /\ Range(inbox'[n]) \subseteq Range(inbox[n])
         /\ \A item \in Range(inbox[n]) : item # Head(inbox[n]) => item \in Range(inbox'[n])
         /\ \A x \in Nodes : x # n => inbox'[x] = inbox[x]
<1>1. inbox \in [Nodes -> Seq(Items(Messages, {}))]
  BY TypeFacts
<1>2. /\ inbox'[n] = Tail(inbox[n])
      /\ \A x \in Nodes : x # n => inbox'[x] = inbox[x]
  BY <1>1
<1>3. /\ Len(inbox[n]) \in Nat /\ Len(inbox[n]) >= 1
      /\ Head(inbox[n]) = inbox[n][1]
      /\ Tail(inbox[n]) \in Seq(Items(Messages, {}))
      /\ Len(Tail(inbox[n])) = Len(inbox[n]) - 1 /\ Len(Tail(inbox[n])) \in Nat
      /\ \A i \in 1 .. Len(inbox[n]) - 1 : Tail(inbox[n])[i] = inbox[n][i + 1]
      /\ DOMAIN inbox[n] = 1 .. Len(inbox[n])
      /\ DOMAIN Tail(inbox[n]) = 1 .. Len(inbox[n]) - 1
  BY <1>1
<1>4. /\ Head(inbox[n]) \in Items(Messages, {}) /\ Head(inbox[n]) \in Range(inbox[n])
      /\ Range(Tail(inbox[n])) \subseteq Range(inbox[n])
  BY <1>1, RangeTail
<1>5. \A i \in 1 .. Len(inbox[n]) - 1 : Tail(inbox[n])[i] \in Range(Tail(inbox[n]))
  BY <1>3 DEF Range
<1>6. ASSUME NEW item \in Range(inbox[n]), item # Head(inbox[n])
      PROVE  item \in Range(Tail(inbox[n]))
  <2>1. PICK i \in 1 .. Len(inbox[n]) : item = inbox[n][i]
    BY <1>3 DEF Range
  <2>2. i # 1 /\ i - 1 \in 1 .. Len(inbox[n]) - 1 /\ (i - 1) + 1 = i
    BY <1>3, <1>6, <2>1
  <2> QED
    BY <1>3, <1>5, <2>1, <2>2
<1>7. Len(inbox'[n]) = Len(inbox[n]) - 1 /\ Len(inbox'[n]) \in Nat
  BY <1>2, <1>3
<1>8. ASSUME NEW i \in 1 .. Len(inbox'[n])
      PROVE  /\ inbox'[n][i] = inbox[n][i + 1]
             /\ i + 1 \in 1 .. Len(inbox[n])
             /\ inbox'[n][i] \in Range(inbox'[n])
  <2>1. i \in 1 .. Len(inbox[n]) - 1 /\ i + 1 \in 1 .. Len(inbox[n])
    BY <1>3, <1>7
  <2> QED
    BY <1>2, <1>3, <1>5, <2>1
<1> QED
  BY <1>2, <1>3, <1>4, <1>6, <1>7, <1>8

(* The next message of a sender is delivered. *)
LEMMA DeliverNext ==
  ASSUME IndInv, NEW d \in Linked,
         delivered' = [delivered EXCEPT ![d] = Append(@, Len(delivered[d]) + 1)],
         UNCHANGED log_leader_map,
         log_leader_map[Gid(d[2])][Gid(d[1])] >= Gen(d[1])
  PROVE  /\ delivered' \in [Linked -> Seq(Nat)]
         /\ Len(delivered[d]) \in Nat
         /\ Len(delivered'[d]) = Len(delivered[d]) + 1
         /\ \A e \in Linked : e # d => delivered'[e] = delivered[e]
         /\ NoGap'
         /\ PersistedBeforeDelivered'
<1>1. delivered \in [Linked -> Seq(Nat)]
  BY TypeFacts DEF IndInv
<1>2. PICK s \in Seq(Nat) : s = delivered[d]
  BY <1>1
<1>3. PICK k \in Nat : k = Len(s)
  OBVIOUS
<1>4. /\ delivered'[d] = Append(s, k + 1)
      /\ \A e \in Linked : e # d => delivered'[e] = delivered[e]
      /\ delivered' \in [Linked -> Seq(Nat)]
  <2>1. Append(s, k + 1) \in Seq(Nat)
    OBVIOUS
  <2>2. delivered' = [delivered EXCEPT ![d] = Append(s, k + 1)]
    BY <1>1, <1>2, <1>3
  <2> QED
    BY <1>1, <2>1, <2>2
<1>5. /\ Len(Append(s, k + 1)) = k + 1
      /\ Append(s, k + 1) = [i \in 1 .. k + 1 |-> i]
  <2>1. /\ Len(Append(s, k + 1)) = k + 1
        /\ Append(s, k + 1) \in Seq(Nat)
        /\ \A i \in 1 .. k : Append(s, k + 1)[i] = s[i]
        /\ Append(s, k + 1)[k + 1] = k + 1
    BY <1>3
  <2>2. s = [i \in 1 .. k |-> i]
    BY <1>2, <1>3 DEF IndInv, NoGap
  <2>3. \A i \in 1 .. k : s[i] = i
    BY <2>2
  <2>4. \A i \in 1 .. k + 1 : i \in 1 .. k \/ i = k + 1
    OBVIOUS
  <2>5. \A i \in 1 .. k + 1 : Append(s, k + 1)[i] = i
    BY <2>1, <2>3, <2>4
  <2>6. [i \in 1 .. k + 1 |-> i] \in Seq(Nat) /\ Len([i \in 1 .. k + 1 |-> i]) = k + 1
    OBVIOUS
  <2>7. ASSUME NEW t \in Seq(Nat), NEW u \in Seq(Nat), Len(t) = k + 1, Len(u) = k + 1,
               \A i \in 1 .. k + 1 : t[i] = u[i]
        PROVE  t = u
    BY <2>7, SeqEqual
  <2> QED
    BY <2>1, <2>5, <2>6, <2>7
<1>6. NoGap'
  <2> SUFFICES ASSUME NEW e \in Linked
               PROVE  delivered'[e] = [i \in 1 .. Len(delivered'[e]) |-> i]
    BY DEF NoGap
  <2>1. CASE e = d
    BY <1>4, <1>5, <2>1
  <2>2. CASE e # d
    BY <1>4, <2>2 DEF IndInv, NoGap
  <2> QED
    BY <2>1, <2>2
<1>7. PersistedBeforeDelivered'
  BY <1>4 DEF IndInv, PersistedBeforeDelivered
<1> QED
  BY <1>2, <1>3, <1>4, <1>5, <1>6, <1>7

(* A step of n that takes nothing from a queue, delivers nothing and lets  *)
(* nothing go only moves the LeaderMap ahead.                              *)
LEMMA AheadStream ==
  ASSUME IndInv, TypeInv', NEW d \in Linked, status[d[2]] = "leader",
         NoneWaits(d), NoneWaits(d)',
         leader_map'[d[2]][Gid(d[1])] >= leader_map[d[2]][Gid(d[1])],
         UNCHANGED <<chan, sent, delivered, status, network_buffer>>
  PROVE  Stream(d)'
<1> DEFINE n == d[2]
           g == Gid(d[1])
           k == Gen(d[1])
<1>1. /\ n \in Nodes /\ g \in Groups /\ k \in Nat
      /\ leader_map[n][g] \in Nat /\ leader_map'[n][g] \in Nat
      /\ network_buffer[n][g].gen \in Nat
      /\ Len(chan[d]) \in Nat
  <2>1. n \in Nodes /\ g \in Groups /\ k \in Nat
    BY LinkedFacts, NodeFacts
  <2>2. leader_map'[n][g] \in Gens
    BY <2>1 DEF TypeInv, NetInv, NetType
  <2>3. chan[d] \in Seq(Messages)
    BY TypeFacts DEF IndInv
  <2>4. Len(chan[d]) \in Nat
    BY <2>3
  <2>5. leader_map[n][g] \in Nat /\ network_buffer[n][g].gen \in Nat
    BY <2>1, TypeFacts DEF IndInv
  <2>6. leader_map'[n][g] \in Nat
    BY <2>2, GensNat
  <2> QED
    BY <2>1, <2>4, <2>5, <2>6
<1>2. ChanInv(d) /\ NewerInv(d) /\ HeldInv(d) /\ CurrentInv(d)
  BY DEF IndInv, StreamInv, Stream
<1>3. ChanInv(d)' /\ HeldInv(d)'
  BY <1>2 DEF ChanInv, HeldInv
<1>4. Known(n, g)' >= Known(n, g) /\ Known(n, g) \in Nat /\ Known(n, g)' \in Nat
  BY <1>1 DEF Known
<1>5. NewerInv(d)'
  <2>1. k > Known(n, g)' => k > Known(n, g)
    BY <1>1, <1>4
  <2> QED
    BY <1>2, <2>1 DEF NewerInv
<1>6. CurrentInv(d)'
  <2> SUFFICES ASSUME network_buffer'[n][g].payloads = <<>>, k = leader_map'[n][g]
               PROVE  CurrentInv(d)'
    BY DEF CurrentInv
  <2>1. sent[d] = Len(delivered[d]) + Len(chan[d])
    <3>1. CASE k = leader_map[n][g]
      BY <1>2, <3>1, NoneWaiting DEF IndInv
    <3>2. CASE k > leader_map[n][g]
      <4>1. delivered[d] = <<>> /\ sent[d] = Len(chan[d])
        BY <1>2, <3>2 DEF NewerInv, Known
      <4>2. Len(<<>>) = 0
        OBVIOUS
      <4> QED
        BY <1>1, <4>1, <4>2
    <3>3. k = leader_map[n][g] \/ k > leader_map[n][g]
      BY <1>1
    <3> QED
      BY <3>1, <3>2, <3>3
  <2> QED
    BY <2>1, NoneWaitingNext
<1> QED
  BY <1>3, <1>5, <1>6 DEF Stream

(* RemoteLeaderChanged moves the LeaderMap ahead; its second pass is still *)
(* to come.                                                                *)
LEMMA HandleChangeInv ==
  ASSUME IndInv, TypeInv', NEW n \in Nodes, inbox[n] # <<>>,
         Head(inbox[n]).type \in {"RemoteLeaderChanged", "LeaderChanged"},
         inbox' = [inbox EXCEPT ![n] = Tail(inbox[n])],
         \/ Head(inbox[n]).type = "LeaderChanged" /\ UNCHANGED leader_map
         \/ /\ IsChange(Head(inbox[n]))
            /\ leader_map' = [leader_map EXCEPT ![n] = RemoteLeaderChanged(@, Head(inbox[n]))],
         UNCHANGED <<log_gen, log_leader_map, status, remote_leader_changes, next_insert,
                     network_buffer, chan, sent, delivered>>
  PROVE  IndInv'
<1> DEFINE item == Head(inbox[n])
<1>0. /\ Len(inbox[n]) \in Nat /\ Len(inbox[n]) >= 1
      /\ item = inbox[n][1] /\ item \in Range(inbox[n])
      /\ \A i \in 1 .. Len(inbox'[n]) : /\ inbox'[n][i] = inbox[n][i + 1]
                                        /\ i + 1 \in 1 .. Len(inbox[n])
                                        /\ inbox'[n][i] \in Range(inbox'[n])
      /\ Range(inbox'[n]) \subseteq Range(inbox[n])
      /\ \A c \in Range(inbox[n]) : c # item => c \in Range(inbox'[n])
      /\ \A x \in Nodes : x # n => inbox'[x] = inbox[x]
  BY RestFacts DEF IndInv
<1>1. leader_map \in [Nodes -> [Groups -> Nat]] /\ log_leader_map \in [Groups -> [Groups -> Nat]]
  BY TypeFacts DEF IndInv
<1>2. IsChange(item) => item \in RLCs /\ item.gid \in Groups /\ item.gen \in Nat
  BY <1>0, ForwardedChange DEF IndInv
<1>3. /\ \A x \in Nodes : x # n => leader_map'[x] = leader_map[x]
      /\ \A h \in Groups :
           \/ leader_map'[n][h] = leader_map[n][h]
           \/ /\ IsChange(item) /\ h = item.gid /\ leader_map'[n][h] = item.gen
              /\ item.gen > leader_map[n][h]
      /\ IsChange(item) => leader_map'[n][item.gid] >= item.gen
  <2> HIDE DEF item
  <2>1. CASE item.type = "LeaderChanged" /\ UNCHANGED leader_map
    BY <2>1 DEF IsChange
  <2>2. CASE IsChange(item) /\ leader_map' = [leader_map EXCEPT ![n] = RemoteLeaderChanged(@, item)]
    <3>1. leader_map'[n] = RemoteLeaderChanged(leader_map[n], item)
      BY <1>1, <2>2
    <3>2. \A x \in Nodes : x # n => leader_map'[x] = leader_map[x]
      BY <1>1, <2>2
    <3>3. CASE item.gen > leader_map[n][item.gid]
      <4>1. leader_map'[n] = [leader_map[n] EXCEPT ![item.gid] = item.gen]
        BY <3>1, <3>3 DEF RemoteLeaderChanged
      <4> QED
        BY <1>1, <1>2, <2>2, <3>2, <3>3, <4>1
    <3>4. CASE ~(item.gen > leader_map[n][item.gid])
      <4>1. leader_map'[n] = leader_map[n]
        BY <3>1, <3>4 DEF RemoteLeaderChanged
      <4> QED
        BY <1>1, <1>2, <2>2, <3>2, <3>4, <4>1
    <3> QED
      BY <3>3, <3>4
  <2> QED
    BY <2>1, <2>2 DEF item
<1>4. \A h \in Groups : leader_map'[n][h] \in Nat /\ leader_map'[n][h] >= leader_map[n][h]
  BY <1>1, <1>2, <1>3
<1>5. item.type # "Payload" /\ item.type # "Unblock"
  OBVIOUS
<1>6. /\ \A i \in 1 .. Len(inbox[n]) : inbox[n][i].type # "Payload"
      /\ \A c \in Range(inbox[n]) : c.type # "Payload"
  BY <1>5, PayloadsFirst
<1>7. \A g, k : Unblock(g, k) # item
  BY <1>5 DEF Unblock
<1> HIDE DEF item
<1>8. ElectedInv' /\ SilentInv'
  BY DEF IndInv, ElectedInv, SilentInv
<1>9. PersistInv'
  <2>1. ASSUME NEW h \in Groups
        PROVE  leader_map'[n][h] =< log_leader_map[Gid(n)][h]
    <3>1. CASE leader_map'[n][h] = leader_map[n][h]
      BY <3>1 DEF IndInv, PersistInv
    <3>2. CASE IsChange(item) /\ h = item.gid /\ leader_map'[n][h] = item.gen
      BY <1>0, <3>2 DEF IndInv, PersistInv
    <3> QED
      BY <1>3, <3>1, <3>2
  <2>2. \A x \in Nodes, h \in Groups : leader_map'[x][h] =< log_leader_map[Gid(x)][h]
    BY <1>3, <2>1 DEF IndInv, PersistInv
  <2>3. \A x \in Nodes : Range(inbox'[x]) \subseteq Range(inbox[x])
    BY <1>0
  <2> QED
    BY <2>2, <2>3 DEF IndInv, PersistInv
<1>10. ForwardInv'
  <2>1. ASSUME NEW c \in Range(inbox'[n]), IsChange(c)
        PROVE  Unblock(c.gid, c.gen) \in Range(inbox'[n])
    <3>1. Unblock(c.gid, c.gen) \in Range(inbox[n])
      BY <1>0, <2>1 DEF IndInv, ForwardInv
    <3> QED
      BY <1>0, <1>7, <3>1
  <2>2. ASSUME NEW i \in 1 .. Len(inbox'[n]), NEW j \in 1 .. Len(inbox'[n]),
               i < j, IsChange(inbox'[n][j])
        PROVE  IsChange(inbox'[n][i])
    <3>1. i + 1 < j + 1 /\ i + 1 \in 1 .. Len(inbox[n]) /\ j + 1 \in 1 .. Len(inbox[n])
      BY <1>0, <2>2
    <3>2. inbox'[n][i] = inbox[n][i + 1] /\ inbox'[n][j] = inbox[n][j + 1]
      BY <1>0
    <3>3. \A a, b \in 1 .. Len(inbox[n]) : a < b /\ IsChange(inbox[n][b]) => IsChange(inbox[n][a])
      BY DEF IndInv, ForwardInv
    <3> QED
      BY <2>2, <3>1, <3>2, <3>3
  <2> QED
    BY <1>0, <2>1, <2>2 DEF IndInv, ForwardInv
<1>11. LetGoInv'
  <2>1. \A c \in Range(inbox'[n]) : c.type # "Payload"
    BY <1>0, <1>6
  <2> QED
    BY <1>0, <2>1 DEF IndInv, LetGoInv
<1>12. BufferInv'
  <2> SUFFICES ASSUME NEW x \in Nodes, NEW h \in Groups, network_buffer'[x][h].payloads # <<>>
               PROVE  IF network_buffer'[x][h].gen > leader_map'[x][h]
                      THEN Announced(x, h, network_buffer[x][h].gen)'
                      ELSE Unblock(h, leader_map'[x][h]) \in Range(inbox'[x])
    BY DEF BufferInv
  <2>1. PICK b \in Nat : b = network_buffer[x][h].gen /\ b = network_buffer'[x][h].gen
    BY TypeFacts DEF IndInv
  <2>2. IF b > leader_map[x][h] THEN Announced(x, h, b)
        ELSE Unblock(h, leader_map[x][h]) \in Range(inbox[x])
    BY <2>1 DEF IndInv, BufferInv
  <2>3. CASE x # n
    BY <1>0, <1>3, <2>1, <2>2, <2>3 DEF Announced
  <2>4. CASE x = n /\ b > leader_map'[n][h]
    <3>1. b > leader_map[n][h]
      BY <1>1, <1>4, <2>4
    <3>2. RLC(h, b) # item
      <4>1. IsChange(RLC(h, b)) /\ RLC(h, b).gid = h /\ RLC(h, b).gen = b
        BY DEF IsChange, RLC
      <4> QED
        BY <1>2, <1>3, <1>4, <2>4, <4>1
    <3>3. Announced(n, h, b)
      BY <2>2, <2>4, <3>1
    <3>4. RLC(h, b) \in Range(remote_leader_changes'[n]) \cup Range(next_insert'[n].rlcs)
                         \cup Range(inbox'[n])
      BY <1>0, <3>2, <3>3 DEF Announced
    <3> QED
      BY <2>1, <2>4, <3>4 DEF Announced
  <2>5. CASE x = n /\ ~(b > leader_map'[n][h])
    <3>1. Unblock(h, leader_map'[n][h]) \in Range(inbox[n])
      <4>1. CASE leader_map'[n][h] = leader_map[n][h]
        BY <2>2, <2>5, <4>1
      <4>2. CASE IsChange(item) /\ h = item.gid /\ leader_map'[n][h] = item.gen
        BY <1>0, <4>2 DEF IndInv, ForwardInv
      <4> QED
        BY <1>3, <4>1, <4>2
    <3> QED
      BY <1>0, <1>7, <2>1, <2>5, <3>1
  <2> QED
    BY <2>3, <2>4, <2>5
<1>13. StreamInv'
  <2> SUFFICES ASSUME NEW d \in Linked
               PROVE  Stream(d)'
    BY DEF StreamInv
  <2>0. d[2] \in Nodes /\ Gid(d[1]) \in Groups
    BY LinkedFacts, NodeFacts
  <2>1. CASE d[2] # n
    BY <1>0, <1>3, <2>0, <2>1, StreamKept DEF IndInv, StreamInv
  <2>2. CASE d[2] = n
    <3>1. NoneWaits(d)
      BY <1>6, <2>2 DEF NoneWaits, IsFrom
    <3>2. NoneWaits(d)'
      BY <1>0, <1>6, <2>2 DEF NoneWaits, IsFrom
    <3>3. status[n] = "leader"
      BY DEF IndInv, TypeInv, NetInv, IdleInv
    <3> QED
      BY <1>4, <2>0, <2>2, <3>1, <3>2, <3>3, AheadStream
  <2> QED
    BY <2>1, <2>2
<1>14. NoGap' /\ PersistedBeforeDelivered'
  BY DeliveredKept
<1> QED
  BY <1>8, <1>9, <1>10, <1>11, <1>12, <1>13, <1>14 DEF IndInv

(* The first message that was let go is delivered. *)
LEMMA HandleLetGoInv ==
  ASSUME IndInv, TypeInv', NEW n \in Nodes, inbox[n] # <<>>,
         Head(inbox[n]).type = "Payload",
         inbox' = [inbox EXCEPT ![n] = Tail(inbox[n])],
         delivered' = [delivered EXCEPT
           ![<<<<Head(inbox[n]).from, Head(inbox[n]).payload.gen>>, n>>] =
              Append(@, Head(inbox[n]).payload.number)],
         UNCHANGED <<log_gen, log_leader_map, status, leader_map, remote_leader_changes,
                     next_insert, network_buffer, chan, sent>>
  PROVE  IndInv'
<1> DEFINE item == Head(inbox[n])
<1>0. /\ Len(inbox[n]) \in Nat /\ Len(inbox[n]) >= 1
      /\ item = inbox[n][1] /\ item \in Range(inbox[n])
      /\ Len(inbox'[n]) = Len(inbox[n]) - 1 /\ Len(inbox'[n]) \in Nat
      /\ \A i \in 1 .. Len(inbox'[n]) : /\ inbox'[n][i] = inbox[n][i + 1]
                                        /\ i + 1 \in 1 .. Len(inbox[n])
                                        /\ inbox'[n][i] \in Range(inbox'[n])
      /\ Range(inbox'[n]) \subseteq Range(inbox[n])
      /\ \A c \in Range(inbox[n]) : c # item => c \in Range(inbox'[n])
      /\ \A x \in Nodes : x # n => inbox'[x] = inbox[x]
  BY RestFacts DEF IndInv
<1>g. PICK g : g = item.from /\ 1 \in 1 .. Len(inbox[n]) /\ IsFrom(inbox[n][1], g)
  <2>1. 1 \in 1 .. Len(inbox[n])
    BY <1>0
  <2>2. IsFrom(inbox[n][1], item.from)
    BY <1>0 DEF IsFrom
  <2> QED
    BY <2>1, <2>2
<1>d. PICK d \in Linked : d = <<<<g, leader_map[n][g]>>, n>>
  BY <1>g, LetGoStream
<1>1. /\ g \in Groups
      /\ Gid(d[1]) = g /\ Gen(d[1]) = leader_map[n][g] /\ d[2] = n
      /\ status[n] = "leader"
      /\ network_buffer[n][g].payloads = <<>>
      /\ LetGo(d, 1)
  BY <1>d, <1>g, LetGoStream
<1>2. PICK p \in 0 .. Len(inbox[n]) :
        /\ 1 =< p
        /\ Waiting(n, g, p)
        /\ sent[d] = Len(delivered[d]) + p + Len(chan[d])
        /\ \A j \in 1 .. p : inbox[n][j].payload =
             [gen |-> Gen(d[1]), number |-> Len(delivered[d]) + j]
  BY <1>1 DEF LetGo
<1>3. item.payload = [gen |-> leader_map[n][g], number |-> Len(delivered[d]) + 1]
  <2>1. 1 \in 1 .. p
    BY <1>0, <1>2
  <2> QED
    BY <1>0, <1>1, <1>2, <2>1
<1>4. delivered' = [delivered EXCEPT ![d] = Append(@, Len(delivered[d]) + 1)]
  <2>1. item.payload.gen = leader_map[n][g] /\ item.payload.number = Len(delivered[d]) + 1
    BY <1>3
  <2> QED
    BY <1>d, <1>g, <2>1
<1>5. log_leader_map[Gid(d[2])][Gid(d[1])] >= Gen(d[1])
  <2>1. leader_map[n][g] =< log_leader_map[Gid(n)][g]
    BY <1>1 DEF IndInv, PersistInv
  <2>2. leader_map[n][g] \in Nat /\ log_leader_map[Gid(n)][g] \in Nat
    BY <1>1, NodeFacts, TypeFacts DEF IndInv
  <2> QED
    BY <1>1, <2>1, <2>2
<1>6. /\ Len(delivered[d]) \in Nat
      /\ Len(delivered'[d]) = Len(delivered[d]) + 1
      /\ \A e \in Linked : e # d => delivered'[e] = delivered[e]
      /\ NoGap' /\ PersistedBeforeDelivered'
  BY <1>4, <1>5, DeliverNext
<1>7. \A h, k : Unblock(h, k) # item /\ RLC(h, k) # item
  BY DEF Unblock, RLC
<1> HIDE DEF item
<1>8. ElectedInv' /\ SilentInv'
  BY DEF IndInv, ElectedInv, SilentInv
<1>9. \A x \in Nodes : Range(inbox'[x]) \subseteq Range(inbox[x])
  BY <1>0
<1>10. PersistInv' /\ LetGoInv'
  BY <1>9 DEF IndInv, PersistInv, LetGoInv
<1>11. ForwardInv'
  <2>1. ASSUME NEW c \in Range(inbox'[n]), IsChange(c)
        PROVE  Unblock(c.gid, c.gen) \in Range(inbox'[n])
    <3>1. Unblock(c.gid, c.gen) \in Range(inbox[n])
      BY <1>0, <2>1 DEF IndInv, ForwardInv
    <3> QED
      BY <1>0, <1>7, <3>1
  <2>2. ASSUME NEW i \in 1 .. Len(inbox'[n]), NEW j \in 1 .. Len(inbox'[n]),
               i < j, IsChange(inbox'[n][j])
        PROVE  IsChange(inbox'[n][i])
    <3>1. i + 1 < j + 1 /\ i + 1 \in 1 .. Len(inbox[n]) /\ j + 1 \in 1 .. Len(inbox[n])
      BY <1>0, <2>2
    <3>2. inbox'[n][i] = inbox[n][i + 1] /\ inbox'[n][j] = inbox[n][j + 1]
      BY <1>0
    <3>3. \A a, b \in 1 .. Len(inbox[n]) : a < b /\ IsChange(inbox[n][b]) => IsChange(inbox[n][a])
      BY DEF IndInv, ForwardInv
    <3> QED
      BY <2>2, <3>1, <3>2, <3>3
  <2> QED
    BY <1>0, <2>1, <2>2 DEF IndInv, ForwardInv
<1>12. BufferInv'
  <2>1. \A x \in Nodes : \A h, k :
          /\ Unblock(h, k) \in Range(inbox[x]) => Unblock(h, k) \in Range(inbox'[x])
          /\ RLC(h, k) \in Range(inbox[x]) => RLC(h, k) \in Range(inbox'[x])
    BY <1>0, <1>7
  <2>2. \A x \in Nodes : \A h, k : Announced(x, h, k) => Announced(x, h, k)'
    BY <2>1 DEF Announced
  <2> QED
    BY <2>1, <2>2 DEF IndInv, BufferInv
<1>13. ASSUME NEW e \in Linked
       PROVE  Stream(e)'
  <2>0. /\ e[2] \in Nodes /\ Gid(e[1]) \in Groups
        /\ e = <<e[1], e[2]>> /\ e[1] = <<Gid(e[1]), Gen(e[1])>>
    BY LinkedFacts, NodeFacts
  <2>1. CASE e[2] # n
    <3>1. e # d
      BY <1>1, <2>1
    <3> QED
      BY <1>0, <1>6, <2>0, <2>1, <3>1, StreamKept DEF IndInv, StreamInv
  <2>2. CASE e[2] = n /\ Gid(e[1]) # g
    <3>1. e # d /\ delivered'[e] = delivered[e]
      BY <1>1, <1>6, <2>2
    <3>2. NoneWaits(e)
      <4> SUFFICES ASSUME NEW i \in 1 .. Len(inbox[n]), IsFrom(inbox[n][i], Gid(e[1]))
                   PROVE  FALSE
        BY <2>2 DEF NoneWaits
      <4>1. PICK q \in 0 .. Len(inbox[n]) : i =< q /\ Waiting(n, Gid(e[1]), q)
        BY LetGoTogether
      <4>2. 1 \in 1 .. Len(inbox[n]) /\ 1 =< q
        BY <1>0, <4>1
      <4> QED
        BY <1>g, <2>2, <4>1, <4>2 DEF Waiting, IsFrom
    <3>3. NoneWaits(e)'
      BY <1>0, <2>2, <3>2 DEF NoneWaits
    <3>4. ChanInv(e) /\ NewerInv(e) /\ HeldInv(e) /\ CurrentInv(e)
      BY <1>1, <2>2 DEF IndInv, StreamInv, Stream
    <3>5. ChanInv(e)' /\ NewerInv(e)' /\ HeldInv(e)'
      BY <3>1, <3>4 DEF ChanInv, NewerInv, HeldInv, Known
    <3>6. CurrentInv(e)'
      <4> SUFFICES ASSUME network_buffer'[e[2]][Gid(e[1])].payloads = <<>>,
                          Gen(e[1]) = leader_map'[e[2]][Gid(e[1])]
                   PROVE  CurrentInv(e)'
        BY DEF CurrentInv
      <4>1. sent[e] = Len(delivered[e]) + Len(chan[e])
        BY <3>2, <3>4, NoneWaiting DEF IndInv
      <4> QED
        BY <3>1, <3>3, <4>1, NoneWaitingNext
    <3> QED
      BY <1>1, <2>2, <3>5, <3>6 DEF Stream
  <2>3. CASE e[2] = n /\ Gid(e[1]) = g /\ e # d
    <3>1. Gen(e[1]) # leader_map[n][g] /\ delivered'[e] = delivered[e]
      BY <1>d, <1>6, <2>0, <2>3
    <3>2. ChanInv(e) /\ NewerInv(e) /\ HeldInv(e)
      BY <1>1, <2>3 DEF IndInv, StreamInv, Stream
    <3>3. ChanInv(e)' /\ NewerInv(e)' /\ HeldInv(e)'
      BY <3>1, <3>2 DEF ChanInv, NewerInv, HeldInv, Known
    <3>4. CurrentInv(e)'
      BY <2>3, <3>1 DEF CurrentInv
    <3> QED
      BY <1>1, <2>3, <3>3, <3>4 DEF Stream
  <2>4. CASE e = d
    <3>1. ChanInv(d)'
      <4>1. ChanInv(d)
        BY DEF IndInv, StreamInv, Stream
      <4> QED
        BY <4>1 DEF ChanInv
    <3>2. HeldInv(d)'
      BY <1>1 DEF HeldInv
    <3>3. NewerInv(d)'
      <4>1. Known(n, g)' = leader_map[n][g] /\ leader_map[n][g] \in Nat
        <5>1. leader_map[n][g] \in Nat
          BY <1>1, TypeFacts DEF IndInv
        <5> QED
          BY <1>1, <5>1 DEF Known
      <4> QED
        BY <1>1, <4>1 DEF NewerInv
    <3>4. CurrentInv(d)'
      <4>1. PICK q \in Nat : q = p - 1 /\ q + 1 = p /\ q \in 0 .. Len(inbox'[n])
        BY <1>0, <1>2
      <4>2. Waiting(n, g, q)'
        <5> SUFFICES ASSUME NEW i \in 1 .. Len(inbox'[n])
                     PROVE  IsFrom(inbox'[n][i], g) <=> i =< q
          BY DEF Waiting
        <5>1. inbox'[n][i] = inbox[n][i + 1] /\ i + 1 \in 1 .. Len(inbox[n])
          BY <1>0
        <5>2. IsFrom(inbox[n][i + 1], g) <=> i + 1 =< p
          BY <1>2, <5>1 DEF Waiting
        <5>3. i + 1 =< p <=> i =< q
          BY <4>1
        <5> QED
          BY <5>1, <5>2, <5>3
      <4>3. PICK a \in Nat : a = Len(delivered[d])
        BY <1>6
      <4>4. PICK c \in Nat : c = Len(chan[d])
        <5>1. chan[d] \in Seq(Messages)
          BY TypeFacts DEF IndInv
        <5> QED
          BY <5>1
      <4>5. sent'[d] = Len(delivered'[d]) + q + Len(chan'[d])
        <5>1. a + p + c = (a + 1) + q + c
          BY <4>1
        <5> QED
          BY <1>2, <1>6, <4>3, <4>4, <5>1
      <4>6. ASSUME NEW i \in 1 .. q
            PROVE  inbox'[n][i].payload = [gen |-> Gen(d[1]), number |-> Len(delivered'[d]) + i]
        <5>0. i \in 1 .. Len(inbox'[n]) /\ i + 1 \in 1 .. p
          BY <1>0, <1>2, <4>1
        <5>1. /\ i \in 1 .. Len(inbox'[n]) /\ i + 1 \in 1 .. p
              /\ Len(delivered[d]) + (i + 1) = Len(delivered'[d]) + i
          <6>1. a + (i + 1) = (a + 1) + i
            OBVIOUS
          <6> QED
            BY <1>6, <4>3, <5>0, <6>1
        <5>2. inbox'[n][i] = inbox[n][i + 1]
          BY <1>0, <5>1
        <5>3. inbox[n][i + 1].payload =
                [gen |-> Gen(d[1]), number |-> Len(delivered[d]) + (i + 1)]
          BY <1>2, <5>1
        <5> QED
          BY <5>1, <5>2, <5>3
      <4> QED
        BY <1>1, <4>1, <4>2, <4>5, <4>6 DEF CurrentInv
    <3> QED
      BY <1>1, <2>4, <3>1, <3>2, <3>3, <3>4 DEF Stream
  <2> QED
    BY <2>1, <2>2, <2>3, <2>4
<1> QED
  BY <1>6, <1>8, <1>10, <1>11, <1>12, <1>13 DEF IndInv, StreamInv

(* A message of the leader that is known is delivered from its queue. *)
LEMMA HandleDeliveredInv ==
  ASSUME IndInv, TypeInv', NEW e \in Linked, inbox[e[2]] = <<>>,
         Delivers(e[2], e[1]), chan[e] # <<>>,
         chan' = [chan EXCEPT ![e] = Tail(@)],
         delivered' = [delivered EXCEPT
           ![<<<<Gid(e[1]), Head(chan[e]).gen>>, e[2]>>] = Append(@, Head(chan[e]).number)],
         UNCHANGED <<log_gen, log_leader_map, status, leader_map, remote_leader_changes,
                     next_insert, network_buffer, inbox, sent>>
  PROVE  IndInv'
<1>n. PICK n \in Nodes : n = e[2]
  BY LinkedFacts
<1>g. PICK g \in Groups : g = Gid(e[1])
  BY LinkedFacts, NodeFacts
<1>k. PICK k \in Nat : k = Gen(e[1])
  BY LinkedFacts, NodeFacts
<1>0. /\ status[n] = "leader"
      /\ network_buffer[n][g].payloads = <<>>
      /\ leader_map[n][g] = k
  BY <1>n, <1>g, <1>k DEF Delivers
<1>1. chan \in [Linked -> Seq(Messages)]
  BY TypeFacts DEF IndInv
<1>2. /\ chan'[e] = Tail(chan[e])
      /\ \A d \in Linked : d # e => chan'[d] = chan[d]
  BY <1>1
<1>3. ChanInv(e) /\ NewerInv(e) /\ HeldInv(e) /\ CurrentInv(e)
  BY <1>n, <1>0 DEF IndInv, StreamInv, Stream
<1>4. /\ Len(chan[e]) \in Nat /\ Len(chan[e]) >= 1
      /\ Len(chan'[e]) = Len(chan[e]) - 1 /\ Len(chan'[e]) \in Nat
      /\ Head(chan[e]) = [gen |-> k, number |-> sent[e] - Len(chan[e]) + 1]
      /\ ChanInv(e)'
  BY <1>k, <1>2, <1>3, TakeFirst DEF IndInv
<1>5. NoneWaits(e) /\ NoneWaits(e)'
  <2>1. NoneWaits(e)
    BY QuietFacts
  <2> QED
    BY <2>1 DEF NoneWaits
<1>6. PICK a \in Nat : a = Len(delivered[e])
  <2>1. delivered[e] \in Seq(Nat)
    BY TypeFacts DEF IndInv
  <2> QED
    BY <2>1
<1>7. PICK c \in Nat : c = Len(chan[e])
  BY <1>4
<1>8. sent[e] = a + c
  BY <1>n, <1>g, <1>k, <1>0, <1>3, <1>5, <1>6, <1>7, NoneWaiting DEF IndInv
<1>9. Head(chan[e]).gen = k /\ Head(chan[e]).number = Len(delivered[e]) + 1
  <2>1. (a + c) - c + 1 = a + 1
    OBVIOUS
  <2>2. Head(chan[e]) = [gen |-> k, number |-> a + 1]
    BY <1>4, <1>7, <1>8, <2>1
  <2> QED
    BY <1>6, <2>2
<1>10. delivered' = [delivered EXCEPT ![e] = Append(@, Len(delivered[e]) + 1)]
  <2>1. e = <<<<Gid(e[1]), Gen(e[1])>>, e[2]>>
    BY LinkedFacts, NodeFacts
  <2> QED
    BY <1>k, <1>9, <2>1
<1>11. log_leader_map[Gid(e[2])][Gid(e[1])] >= Gen(e[1])
  <2>1. leader_map[n][g] =< log_leader_map[Gid(n)][g]
    BY DEF IndInv, PersistInv
  <2>2. log_leader_map[Gid(n)][g] \in Nat
    BY NodeFacts, TypeFacts DEF IndInv
  <2> QED
    BY <1>n, <1>g, <1>k, <1>0, <2>1, <2>2
<1>12. /\ Len(delivered'[e]) = Len(delivered[e]) + 1
       /\ \A d \in Linked : d # e => delivered'[d] = delivered[d]
       /\ NoGap' /\ PersistedBeforeDelivered'
  BY <1>10, <1>11, DeliverNext
<1>13. ElectedInv' /\ SilentInv'
  <2>1. \A d \in Linked : chan[d] = <<>> => chan'[d] = <<>>
    BY <1>2
  <2> QED
    BY <2>1 DEF IndInv, ElectedInv, SilentInv
<1>14. PersistInv' /\ ForwardInv' /\ LetGoInv' /\ BufferInv'
  BY DEF IndInv, PersistInv, ForwardInv, LetGoInv, BufferInv, Announced
<1>15. ASSUME NEW d \in Linked
       PROVE  Stream(d)'
  <2>1. CASE d # e
    BY <1>2, <1>12, <2>1, StreamKept DEF IndInv, StreamInv
  <2>2. CASE d = e
    <3>1. NewerInv(e)'
      <4>1. Known(n, g)' = k
        BY <1>0 DEF Known
      <4> QED
        BY <1>n, <1>g, <1>k, <4>1 DEF NewerInv
    <3>2. HeldInv(e)'
      BY <1>n, <1>g, <1>0 DEF HeldInv
    <3>3. sent'[e] = Len(delivered'[e]) + Len(chan'[e])
      <4>1. a + c = (a + 1) + (c - 1)
        OBVIOUS
      <4> QED
        BY <1>4, <1>6, <1>7, <1>8, <1>12, <4>1
    <3>4. CurrentInv(e)'
      BY <1>5, <3>3, NoneWaitingNext
    <3> QED
      BY <1>n, <1>0, <1>4, <2>2, <3>1, <3>2, <3>4 DEF Stream
  <2> QED
    BY <2>1, <2>2
<1> QED
  BY <1>12, <1>13, <1>14, <1>15 DEF IndInv, StreamInv

(* Handling an input. *)
LEMMA HandleInv ==
  ASSUME IndInv, NEW n \in Nodes, HandleInput(n)
  PROVE  IndInv'
<1>1. PICK in \in Inputs(n) :
        /\ inbox' = [inbox EXCEPT ![n] = in.rest]
        /\ chan' = in.queues
        /\ \/ /\ in.item.type = "RemoteLeaderChanged"
              /\ leader_map' = [leader_map EXCEPT ![n] = RemoteLeaderChanged(@, in.item)]
              /\ UNCHANGED delivered
           \/ /\ in.item.type = "LeaderChanged"
              /\ UNCHANGED <<leader_map, delivered>>
           \/ /\ in.item.type = "Payload"
              /\ delivered' = [delivered EXCEPT
                   ![<<<<in.item.from, in.item.payload.gen>>, n>>] =
                      Append(@, in.item.payload.number)]
              /\ UNCHANGED leader_map
        /\ UNCHANGED <<logVars, status, bundleVars, network_buffer, sent>>
  BY DEF HandleInput
<1>2. UNCHANGED <<log_gen, log_leader_map, log_plms, status, remote_leader_changes, tablet_bundle,
                  tablet_bundles, next_insert, network_buffer, sent>>
  BY <1>1 DEF logVars, bundleVars
<1>3. /\ in.item \in Items(Messages, {})
      /\ in.queues \in [Linked -> Seq(Messages)]
      /\ in.item.type = "Payload" => <<in.item.from, Gid(n)>> \in Links
  BY InputFacts DEF IndInv, TypeInv
<1>4. delivered' \in [Linked -> Seq(Nat)]
  <2>1. delivered \in [Linked -> Seq(Nat)]
    BY TypeFacts DEF IndInv
  <2>2. CASE UNCHANGED delivered
    BY <2>1, <2>2
  <2>3. CASE in.item.type = "Payload"
    <3>1. in.item \in PayloadItems(Messages)
      BY <1>3, <2>3 DEF Items, RLCs, Unblocks, PLmItems, LC
    <3>2. in.item.payload.gen \in Gens /\ in.item.payload.number \in Nat
      BY <3>1 DEF PayloadItems, Messages
    <3>3. \A d \in Linked : Append(delivered[d], in.item.payload.number) \in Seq(Nat)
      BY <2>1, <3>2
    <3>4. delivered' = [delivered EXCEPT ![<<<<in.item.from, in.item.payload.gen>>, n>>] =
                          Append(@, in.item.payload.number)]
      BY <1>1, <2>3
    <3> QED
      BY <2>1, <3>3, <3>4
  <2> QED
    BY <1>1, <2>2, <2>3
<1>5. TypeInv'
  <2>1. HandlesInput(n, in)
    BY <1>1, <1>2 DEF HandlesInput, HandlesAt, logVars
  <2>2. tablet_bundle' \in [Nodes -> Seq({})]
    BY <1>2 DEF IndInv, TypeInv, NetInv, NetType
  <2>3. NetInv(Messages, {})'
    BY <1>1, <1>3, <2>1, <2>2, HandleNet DEF IndInv, TypeInv
  <2> QED
    BY <1>2, <1>4, <2>3 DEF IndInv, TypeInv
<1>6. CASE IsForwarded(n, in)
  <2>0. /\ inbox[n] # <<>>
        /\ in.item = Head(inbox[n]) /\ in.rest = Tail(inbox[n]) /\ chan' = chan
        /\ inbox' = [inbox EXCEPT ![n] = Tail(inbox[n])]
    BY <1>1, <1>6 DEF IsForwarded
  <2>1. CASE in.item.type = "Payload"
    <3>1. /\ delivered' = [delivered EXCEPT
               ![<<<<Head(inbox[n]).from, Head(inbox[n]).payload.gen>>, n>>] =
                  Append(@, Head(inbox[n]).payload.number)]
          /\ UNCHANGED leader_map
          /\ Head(inbox[n]).type = "Payload"
      BY <1>1, <2>0, <2>1
    <3> QED
      BY <1>2, <1>5, <2>0, <3>1, HandleLetGoInv
  <2>2. CASE in.item.type # "Payload"
    <3>1. /\ Head(inbox[n]).type \in {"RemoteLeaderChanged", "LeaderChanged"}
          /\ \/ Head(inbox[n]).type = "LeaderChanged" /\ UNCHANGED leader_map
             \/ /\ IsChange(Head(inbox[n]))
                /\ leader_map' = [leader_map EXCEPT ![n] = RemoteLeaderChanged(@, Head(inbox[n]))]
          /\ UNCHANGED delivered
      BY <1>1, <2>0, <2>2 DEF IsChange
    <3> QED
      BY <1>2, <1>5, <2>0, <3>1, HandleChangeInv
  <2> QED
    BY <2>1, <2>2
<1>7. CASE IsDelivered(n, in)
  <2>1. PICK e \in Linked :
          /\ e[2] = n /\ Delivers(n, e[1]) /\ chan[e] # <<>>
          /\ in.item = Payload(Gid(e[1]), Head(chan[e]))
          /\ in.queues = [chan EXCEPT ![e] = Tail(@)]
    BY <1>7 DEF IsDelivered
  <2>2. inbox[n] = <<>> /\ inbox' = inbox
    <3>1. inbox \in [Nodes -> Seq(Items(Messages, {}))]
      BY TypeFacts DEF IndInv
    <3> QED
      BY <1>1, <1>7, <3>1 DEF IsDelivered
  <2>3. /\ in.item.type = "Payload" /\ in.item.from = Gid(e[1])
        /\ in.item.payload = Head(chan[e])
    BY <2>1 DEF Payload
  <2>4. /\ chan' = [chan EXCEPT ![e] = Tail(@)]
        /\ UNCHANGED leader_map
        /\ delivered' = [delivered EXCEPT
             ![<<<<Gid(e[1]), Head(chan[e]).gen>>, e[2]>>] = Append(@, Head(chan[e]).number)]
    BY <1>1, <2>1, <2>3
  <2> QED
    BY <1>2, <1>5, <2>1, <2>2, <2>4, HandleDeliveredInv
<1> QED
  BY <1>6, <1>7, InputSource
-----------------------------------------------------------------------------
(* At the start all groups have a leader that nobody has sent anything. *)
LEMMA InitInv ==
  ASSUME Init
  PROVE  IndInv
<1>0. /\ NetInit
      /\ sent = [e \in Linked |-> 0]
      /\ delivered = [e \in Linked |-> <<>>]
  BY DEF Init
<1>1. TypeInv
  <2>1. NetInv(Messages, {})
    BY <1>0, InitNet
  <2> QED
    BY <1>0, <2>1 DEF TypeInv
<1>2. Range(<<>>) = {} /\ Len(<<>>) = 0
  BY DEF Range
<1>3. /\ \A n \in Nodes : /\ inbox[n] = <<>> /\ remote_leader_changes[n] = <<>>
                          /\ next_insert[n].rlcs = <<>>
                          /\ status[n] = IF Gen(n) = 0 THEN "leader" ELSE "none"
                          /\ \A g \in Groups : /\ network_buffer[n][g].payloads = <<>>
                                               /\ leader_map[n][g] = 0
      /\ \A g \in Groups : log_gen[g] = 0 /\ \A h \in Groups : log_leader_map[g][h] = 0
      /\ \A e \in Linked : chan[e] = <<>> /\ sent[e] = 0 /\ delivered[e] = <<>>
  BY <1>0 DEF NetInit, NoInsert, EmptyBuffer
<1>4. ElectedInv
  <2>1. \A n \in Nodes : status[n] = "none" <=> Gen(n) > log_gen[Gid(n)]
    BY <1>3, NodeFacts
  <2> QED
    BY <1>2, <1>3, <2>1 DEF ElectedInv
<1>5. SilentInv
  BY <1>3, LinkedFacts DEF SilentInv
<1>6. PersistInv
  BY <1>2, <1>3, NodeFacts DEF PersistInv
<1>7. ForwardInv
  BY <1>2, <1>3 DEF ForwardInv
<1>8. BufferInv /\ LetGoInv
  BY <1>2, <1>3 DEF BufferInv, LetGoInv
<1>9. ASSUME NEW e \in Linked
      PROVE  Stream(e)
  <2>0. e[2] \in Nodes /\ Gid(e[1]) \in Groups
    BY LinkedFacts, NodeFacts
  <2>1. ChanInv(e)
    BY <1>2, <1>3 DEF ChanInv
  <2>2. NewerInv(e) /\ HeldInv(e)
    BY <1>2, <1>3, <2>0 DEF NewerInv, HeldInv
  <2>3. CurrentInv(e)
    <3>1. Waiting(e[2], Gid(e[1]), 0)
      BY <1>2, <1>3, <2>0 DEF Waiting
    <3>2. 0 \in 0 .. Len(inbox[e[2]]) /\ 1 .. 0 = {}
      BY <1>2, <1>3, <2>0
    <3>3. sent[e] = Len(delivered[e]) + 0 + Len(chan[e])
      <4>1. sent[e] = 0 /\ Len(delivered[e]) = 0 /\ Len(chan[e]) = 0
        BY <1>2, <1>3
      <4> QED
        BY <4>1
    <3> QED
      BY <3>1, <3>2, <3>3 DEF CurrentInv
  <2> QED
    BY <1>3, <2>1, <2>2, <2>3 DEF Stream
<1>10. NoGap
  <2>1. \A e \in Linked : <<>> = [i \in 1 .. 0 |-> i]
    OBVIOUS
  <2> QED
    BY <1>2, <1>3, <2>1 DEF NoGap
<1>11. PersistedBeforeDelivered
  BY <1>3 DEF PersistedBeforeDelivered
<1> QED
  BY <1>1, <1>4, <1>5, <1>6, <1>7, <1>8, <1>9, <1>10, <1>11 DEF IndInv, StreamInv

(* Every step keeps the invariant. *)
LEMMA NextInv ==
  ASSUME IndInv, [Next]_vars
  PROVE  IndInv'
<1>1. CASE \E n \in Nodes : HandleInput(n)
  BY <1>1, HandleInv
<1>2. CASE NetworkWork /\ UNCHANGED <<sent, delivered>>
  <2>1. CASE \E n \in Nodes : deliver_blocked_messages(n)
    BY <1>2, <2>1, DeliverInv
  <2>2. CASE Quiet /\ \E e \in Linked : Receive(e[2], e[1])
    BY <1>2, <2>2, ReceiveInv
  <2>3. CASE Quiet /\ \E n \in Nodes : maybe_start_insert(n)
    BY <1>2, <2>3, InsertInv
  <2>4. CASE Quiet /\ \E n \in Nodes : process_bundle(n)
    BY <1>2, <2>4, ProcessInv
  <2> QED
    BY <1>2, <2>1, <2>2, <2>3, <2>4 DEF NetworkWork
<1>3. CASE NetworkEvent /\ UNCHANGED <<sent, delivered>>
  <2>1. CASE \E e \in Peers : RemoteLeaderChangedGossip(e[2], e[1])
    <3>1. \A e \in Peers : e[1] \in Nodes /\ e[2] \in Nodes
      BY DEF Peers
    <3> QED
      BY <1>3, <2>1, <3>1, GossipInv
  <2>2. CASE Quiet /\ \E g \in Groups : GainLeadership(g)
    BY <1>3, <2>2, GainInv
  <2> QED
    BY <1>3, <2>1, <2>2 DEF NetworkEvent
<1>4. CASE Quiet /\ \E n \in Nodes : LoseLeadership(n) /\ UNCHANGED <<sent, delivered>>
  BY <1>4, LoseInv
<1>5. CASE Quiet /\ \E n \in Nodes, g \in Groups : SendMessage(n, g)
  BY <1>5, SendInv
<1>6. CASE UNCHANGED vars
  <2>1. UNCHANGED <<log_gen, log_leader_map, log_plms, status, leader_map, remote_leader_changes,
                    tablet_bundle, tablet_bundles, next_insert, network_buffer, chan, inbox,
                    sent, delivered>>
    BY <1>6 DEF vars, netVars, logVars, bundleVars
  <2>2. TypeInv'
    BY <2>1 DEF IndInv, TypeInv, NetInv, NetType, StatusInv, IdleInv, FreshInv, BlockedInv
  <2>3. ElectedInv' /\ SilentInv' /\ PersistInv' /\ ForwardInv' /\ LetGoInv'
    BY <2>1 DEF IndInv, ElectedInv, SilentInv, PersistInv, ForwardInv, LetGoInv
  <2>4. BufferInv'
    BY <2>1 DEF IndInv, BufferInv, Announced
  <2>5. StreamInv'
    BY <2>1, StreamKept DEF IndInv, StreamInv
  <2>6. NoGap' /\ PersistedBeforeDelivered'
    BY <2>1, DeliveredKept
  <2> QED
    BY <2>2, <2>3, <2>4, <2>5, <2>6 DEF IndInv
<1> QED
  BY <1>1, <1>2, <1>3, <1>4, <1>5, <1>6 DEF Next, Work

(* The inductive invariant of the NetworkDriver and of what runs above it  *)
(* holds of every behaviour: whatever a leader took from the queue of      *)
(* another is held back, let go or delivered, in order and without gaps.   *)
THEOREM Invariance == Spec => []IndInv
<1>1. Init => IndInv
  BY InitInv
<1>2. IndInv /\ [Next]_vars => IndInv'
  BY NextInv
<1> QED
  BY <1>1, <1>2, PTL DEF Spec

(* NetworkDriver::receive and deliver_blocked_messages deliver of what a   *)
(* leader sends another the first messages, in the order sent.             *)
THEOREM NoGapTheorem == Spec => []NoGap
<1>1. IndInv => NoGap
  BY DEF IndInv
<1> QED
  BY <1>1, Invariance, PTL

(* A group acts on a message of a remote leader only when its log names    *)
(* that Leadership or a later one.                                         *)
THEOREM PersistedTheorem == Spec => []PersistedBeforeDelivered
<1>1. IndInv => PersistedBeforeDelivered
  BY DEF IndInv
<1> QED
  BY <1>1, Invariance, PTL

(* What the NetworkDriver buffers is unblocked by a RemoteLeaderChangedPLm *)
(* that is under way.                                                      *)
THEOREM BufferUnblocksTheorem == Spec => []BufferUnblocks
<1>1. ASSUME IndInv
      PROVE  BufferUnblocks
  <2> SUFFICES ASSUME NEW n \in Nodes, NEW g \in Groups, network_buffer[n][g].payloads # <<>>
               PROVE  \/ RLC(g, network_buffer[n][g].gen) \in
                           Range(remote_leader_changes[n]) \cup Range(next_insert[n].rlcs)
                      \/ \E j \in network_buffer[n][g].gen .. MaxGen :
                           Unblock(g, j) \in Range(inbox[n])
    BY DEF BufferUnblocks
  <2>1. PICK k \in Nat : k = network_buffer[n][g].gen /\ k =< MaxGen
    <3>1. network_buffer[n][g].gen \in Gens
      BY <1>1 DEF IndInv, TypeInv, NetInv, NetType, Buffers
    <3> QED
      BY <3>1, NetworkAssumption DEF Gens
  <2>2. leader_map[n][g] \in Nat /\ leader_map[n][g] =< MaxGen
    <3>1. leader_map[n][g] \in Gens
      BY <1>1 DEF IndInv, TypeInv, NetInv, NetType
    <3> QED
      BY <3>1, NetworkAssumption DEF Gens
  <2>3. CASE k > leader_map[n][g]
    <3>1. Announced(n, g, k)
      BY <1>1, <2>1, <2>3 DEF IndInv, BufferInv
    <3>2. RLC(g, k) \in Range(inbox[n]) => Unblock(g, k) \in Range(inbox[n])
      <4>1. IsChange(RLC(g, k)) /\ RLC(g, k).gid = g /\ RLC(g, k).gen = k
        BY DEF IsChange, RLC
      <4> QED
        BY <1>1, <4>1 DEF IndInv, ForwardInv
    <3>3. k \in k .. MaxGen
      BY <2>1, NetworkAssumption
    <3> QED
      BY <2>1, <3>1, <3>2, <3>3 DEF Announced
  <2>4. CASE ~(k > leader_map[n][g])
    <3>1. Unblock(g, leader_map[n][g]) \in Range(inbox[n])
      BY <1>1, <2>1, <2>4 DEF IndInv, BufferInv
    <3>2. leader_map[n][g] \in k .. MaxGen
      BY <2>1, <2>2, <2>4, NetworkAssumption
    <3> QED
      BY <2>1, <3>1, <3>2
  <2> QED
    BY <2>3, <2>4
<1> QED
  BY <1>1, Invariance, PTL
=============================================================================
