--------------------------- MODULE Paxos2PCProofs ---------------------------
(***************************************************************************)
(* The proof that Paxos2PC implements TransactionCommit, and of its        *)
(* invariants, for any number of RMs, leader changes and generations.      *)
(*                                                                         *)
(* The argument rests on two facts that, once true, stay true: every RM    *)
(* has persisted Prepared (AllPrepared), or some RM will never do so       *)
(* (Doomed).  They exclude each other; every Commit on its way, in the     *)
(* memory of a leader or in a log implies the first, every Abort the       *)
(* second.  That an RM which answers Aborted is never prepared later on,   *)
(* even by a leader that its log has deposed, is what LogInv is for.       *)
(***************************************************************************)
EXTENDS Paxos2PC, NetworkDriverProofs

Messages == RMMessage \cup TMMessage
PLms == {"Prepared", "Committed", "Aborted"}

(* Where the PLm that an RM is about to persist can be; there is at most   *)
(* one at a time.                                                          *)
NothingPending(n) ==
  /\ tablet_bundle[n] = <<>>
  /\ tablet_bundles[n] = <<>>
  /\ next_insert[n].plms = <<>>
  /\ NoPLm(inbox[n])

Gathered(n, x) ==
  /\ \/ tablet_bundle[n] = <<x>> /\ tablet_bundles[n] = <<>> /\ x # "Prepared"
     \/ tablet_bundle[n] = <<>> /\ tablet_bundles[n] = <<x>>
  /\ next_insert[n].plms = <<>>
  /\ NoPLm(inbox[n])

Persisted(n, x) ==
  /\ tablet_bundle[n] = <<>>
  /\ tablet_bundles[n] = <<>>
  /\ \/ next_insert[n].plms = <<x>> /\ NoPLm(inbox[n])
     \/ next_insert[n].plms = <<>> /\ OnePLm(inbox[n], x)

(* The PLm that an RM in state st waits for. *)
Inserting(st) ==
  CASE st \in {"InsertingPrepared", "InsertingPreparedAborted"} -> "Prepared"
    [] st = "InsertingCommitted" -> "Committed"
    [] st = "InsertingAborted" -> "Aborted"
    [] OTHER -> None

Pipeline(n) ==
  LET x == Inserting(rm[n].st)
  IN IF x = None THEN NothingPending(n) ELSE Gathered(n, x) \/ Persisted(n, x)

PipelineInv ==
  /\ \A n \in TMNodes : NothingPending(n)
  /\ \A n \in RMNodes : Pipeline(n)

(* What the log holds as far as a leader in state st can tell, who may     *)
(* have the PLm it waits for persisted or not.                             *)
Logged(st, persisted) ==
  CASE st \in {"None", "WaitingInsertingPrepared"} -> <<>>
    [] st \in {"InsertingPrepared", "InsertingPreparedAborted"} ->
         IF persisted THEN <<"Prepared">> ELSE <<>>
    [] st = "Prepared" -> <<"Prepared">>
    [] st = "InsertingCommitted" ->
         IF persisted THEN <<"Prepared", "Committed">> ELSE <<"Prepared">>
    [] st = "InsertingAborted" ->
         IF persisted THEN <<"Prepared", "Aborted">> ELSE <<"Prepared">>
    [] st = "Committed" -> <<"Prepared", "Committed">>
    [] st = "Aborted" -> <<"Prepared", "Aborted">>

Expected(n) == Logged(rm[n].st, Persisted(n, Inserting(rm[n].st)))

(* The RM r is not prepared and will never be. *)
Current(r) == <<r, log_gen[r]>>
NeverPrepares(r) ==
  /\ log_plms[r] = <<>>
  /\ rm[Current(r)].st = "None"
  /\ ~ms_query[Current(r)]

AllPrepared == \A r \in RMs : log_plms[r] # <<>>
Doomed == \E r \in RMs : NeverPrepares(r)

(* The leader that the log knows holds what is in it.  One that the log    *)
(* has deposed, without its knowing, is not prepared only if its RM will   *)
(* never be.                                                               *)
Agrees(n) ==
  LET r == Gid(n)
  IN IF log_gen[r] = Gen(n)
     THEN log_plms[r] = Expected(n)
     ELSE IF Expected(n) = <<>> THEN NeverPrepares(r) ELSE log_plms[r] # <<>>

Active(n) == status[n] = "leader" /\ inbox[n] # <<LC>>

LogInv ==
  \A n \in RMNodes :
    IF Active(n) THEN Agrees(n) ELSE rm[n] = InState("None") /\ ~ms_query[n]

(* What the message p of a leader of g implies, for as long as it is under *)
(* way.                                                                    *)
Sound(g, p) ==
  /\ p.type = "Commit" => AllPrepared
  /\ p.type = "Abort" => Doomed
  /\ p.type \in {"Prepared", "InformPrepared"} => log_plms[g] # <<>>
  /\ p.type = "Aborted" => Doomed

MessageInv ==
  \A g \in Groups, n \in Nodes, p \in Messages : UnderWayTo(g, n, p) => Sound(g, p)

(* What the state of an ES implies. *)
RMSound(es) ==
  /\ es.st \in {"InsertingCommitted", "Committed"} => AllPrepared
  /\ es.st \in {"InsertingPreparedAborted", "InsertingAborted", "Aborted"} => Doomed

TMSound(es) == es # NoTM => \A r \in RMs \ es.rms_remaining : log_plms[r] # <<>>

OutcomeInv ==
  /\ \A n \in RMNodes : RMSound(rm[n])
  /\ \A t \in TMNodes : TMSound(tm[t])
  /\ \A r \in RMs :
       /\ log_plms[r] = <<"Prepared", "Committed">> => AllPrepared
       /\ log_plms[r] = <<"Prepared", "Aborted">> => Doomed
  /\ reply = "committed" => AllPrepared
  /\ reply = "retried" => Doomed

(* As long as an RM has its MSQueryES, Prepare is the first message of the *)
(* TM that it can handle.                                                  *)
First(r) == <<r, 0>>
FirstQueue(r) == <<<<TM, 0>>, <<r, 0>>>>
PrepareFirst(r) ==
  ms_query[First(r)] =>
    /\ rm[First(r)].st = "None"
    /\ leader_map[First(r)][TM] = 0
    /\ \A item \in Range(inbox[First(r)]) : item.type # "Payload"
    /\ reply # "none" =>
         \/ network_buffer[First(r)][TM].payloads # <<>>
         \/ chan[FirstQueue(r)] # <<>> /\ Head(chan[FirstQueue(r)]) = Msg("Prepare")

QueryInv ==
  /\ \A r \in RMs : PrepareFirst(r)
  /\ \A n \in RMNodes : Gen(n) # 0 => ~ms_query[n]

StartInv ==
  reply = "none" =>
    /\ NetInit
    /\ tm = [n \in TMNodes |-> NoTM]
    /\ rm = [n \in RMNodes |-> InState("None")]

IndInv ==
  /\ NetInv(Messages, PLms)
  /\ TypeOK
  /\ PipelineInv
  /\ LogInv
  /\ MessageInv
  /\ OutcomeInv
  /\ QueryInv
  /\ StartInv
-----------------------------------------------------------------------------
(* Nodes and states *)

(* The nodes are those of the TM and of the RMs; messages only go between  *)
(* the two.                                                                *)
LEMMA NodeKinds ==
  /\ TMNodes \subseteq Nodes
  /\ RMNodes \subseteq Nodes
  /\ Nodes = TMNodes \cup RMNodes
  /\ \A n \in TMNodes : Gid(n) = TM
  /\ \A n \in RMNodes : Gid(n) \in RMs /\ Gid(n) # TM /\ n \notin TMNodes
  /\ \A r \in RMs, k \in Gens : <<r, k>> \in RMNodes /\ Gid(<<r, k>>) = r /\ Gen(<<r, k>>) = k
  /\ RMs \subseteq Groups /\ TM \in Groups /\ TM \notin RMs /\ RMs # {}
  /\ \A g, h : <<g, h>> \in Links => (g = TM /\ h \in RMs) \/ (g \in RMs /\ h = TM)
BY TMAssumption DEF TMNodes, RMNodes, Nodes, Gid, Gen

(* The types of the ESs. *)
LEMMA StateTypes ==
  /\ NoTM \in TMStates
  /\ \A st \in RMSt : InState(st) \in RMStates /\ InState(st).st = st
  /\ \A es \in RMStates : es.st \in RMSt \cup Unprepared
  /\ \A es \in TMStates : es.rms_remaining \subseteq RMs
  /\ \A es \in TMStates : es # NoTM => es.rms_remaining # {}
BY DEF NoTM, TMStates, RMStates, RMSt, Unprepared, InState

(* The PLm of each state. *)
LEMMA InsertingFacts ==
  /\ Inserting("InsertingPrepared") = "Prepared"
  /\ Inserting("InsertingPreparedAborted") = "Prepared"
  /\ Inserting("InsertingCommitted") = "Committed"
  /\ Inserting("InsertingAborted") = "Aborted"
  /\ \A st \in {"None", "WaitingInsertingPrepared", "Prepared", "Committed", "Aborted"} :
       Inserting(st) = None
  /\ None \notin PLms
  /\ \A st \in RMSt \cup Unprepared : Inserting(st) \in PLms \cup {None}
BY DEF Inserting, None, PLms, RMSt, Unprepared

(* What each state says of the log. *)
LEMMA ExpectedFacts ==
  ASSUME NEW n
  PROVE  /\ rm[n].st \in {"None", "WaitingInsertingPrepared"} => Expected(n) = <<>>
         /\ rm[n].st \in {"InsertingPrepared", "InsertingPreparedAborted"} =>
              Expected(n) = IF Persisted(n, "Prepared") THEN <<"Prepared">> ELSE <<>>
         /\ rm[n].st = "Prepared" => Expected(n) = <<"Prepared">>
         /\ rm[n].st = "InsertingCommitted" =>
              Expected(n) = IF Persisted(n, "Committed") THEN <<"Prepared", "Committed">>
                            ELSE <<"Prepared">>
         /\ rm[n].st = "InsertingAborted" =>
              Expected(n) = IF Persisted(n, "Aborted") THEN <<"Prepared", "Aborted">>
                            ELSE <<"Prepared">>
         /\ rm[n].st = "Committed" => Expected(n) = <<"Prepared", "Committed">>
         /\ rm[n].st = "Aborted" => Expected(n) = <<"Prepared", "Aborted">>
BY InsertingFacts DEF Expected, Logged

(* The four logs differ. *)
LEMMA LogsDiffer ==
  /\ <<"Prepared">> # <<>>
  /\ <<"Prepared", "Committed">> # <<>>
  /\ <<"Prepared", "Aborted">> # <<>>
  /\ <<"Prepared">> # <<"Prepared", "Committed">>
  /\ <<"Prepared">> # <<"Prepared", "Aborted">>
  /\ <<"Prepared", "Committed">> # <<"Prepared", "Aborted">>
OBVIOUS

(* A PLm is in one place, before and after a step. *)
LEMMA OnePlace ==
  ASSUME NEW n, NEW x
  PROVE  /\ Gathered(n, x) => ~Persisted(n, x)
         /\ NothingPending(n) => ~Gathered(n, x) /\ ~Persisted(n, x)
         /\ Gathered(n, x)' => ~Persisted(n, x)'
         /\ NothingPending(n)' => ~Gathered(n, x)' /\ ~Persisted(n, x)'
<1>1. <<x>> # <<>>
  OBVIOUS
<1>2. /\ OnePLm(inbox[n], x) => ~NoPLm(inbox[n])
      /\ OnePLm(inbox'[n], x) => ~NoPLm(inbox'[n])
  BY OnePLmSome
<1>3. /\ Gathered(n, x) => ~Persisted(n, x)
      /\ NothingPending(n) => ~Gathered(n, x) /\ ~Persisted(n, x)
  BY <1>1, <1>2 DEF Gathered, Persisted, NothingPending
<1>4. /\ Gathered(n, x)' => ~Persisted(n, x)'
      /\ NothingPending(n)' => ~Gathered(n, x)' /\ ~Persisted(n, x)'
  BY <1>1, <1>2 DEF Gathered, Persisted, NothingPending
<1> QED
  BY <1>3, <1>4

(* Init establishes the invariant. *)
LEMMA InitInv == Init => IndInv
<1> SUFFICES ASSUME Init
             PROVE  IndInv
  OBVIOUS
<1>1. /\ NetInit
      /\ tm = [n \in TMNodes |-> NoTM]
      /\ rm = [n \in RMNodes |-> InState("None")]
      /\ reply = "none"
  BY DEF Init
<1>2. PICK gone \in SUBSET MayAbort :
        ms_query = [n \in RMNodes |-> Gen(n) = 0 /\ Gid(n) \notin gone]
  BY DEF Init
<1>3. /\ NetInv(Messages, PLms)
      /\ \A n \in Nodes : NoPLm(inbox[n])
      /\ \A g \in Groups, n \in Nodes : \A p : ~UnderWayTo(g, n, p)
  BY <1>1, InitNet
<1>4. /\ \A n \in TMNodes : tm[n] = NoTM
      /\ \A n \in RMNodes : rm[n] = InState("None") /\ rm[n].st = "None"
      /\ "None" \in RMSt
  BY <1>1 DEF InState, RMSt
<1>5. Range(<<>>) = {}
  BY DEF Range
<1>6. TypeOK
  <2>1. \A e \in Linked : Range(chan[e]) = {}
    BY <1>1, <1>5 DEF NetInit
  <2>2. tm \in [TMNodes -> TMStates] /\ rm \in [RMNodes -> RMStates]
    BY <1>1, <1>4, StateTypes
  <2>3. ms_query \in [RMNodes -> BOOLEAN]
    BY <1>2
  <2>4. \A g \in Groups : log_plms[g] = <<>>
    BY <1>1 DEF NetInit
  <2> QED
    BY <1>1, <1>3, <2>1, <2>2, <2>3, <2>4, NodeKinds DEF TypeOK, NetInv, NetType
<1>7. PipelineInv
  <2>1. \A n \in Nodes : NothingPending(n)
    BY <1>1, <1>3 DEF NetInit, NothingPending, NoInsert
  <2> QED
    BY <1>4, <2>1, NodeKinds, InsertingFacts DEF PipelineInv, Pipeline
<1>8. LogInv
  <2>1. ASSUME NEW n \in RMNodes
        PROVE  IF Active(n) THEN Agrees(n) ELSE rm[n] = InState("None") /\ ~ms_query[n]
    <3>1. n \in Nodes /\ Gid(n) \in Groups
      BY NodeKinds, NodeFacts
    <3>2. Expected(n) = <<>>
      BY <1>4, ExpectedFacts
    <3>3. log_plms[Gid(n)] = <<>> /\ log_gen[Gid(n)] = 0
      BY <1>1, <3>1 DEF NetInit
    <3>4. inbox[n] # <<LC>> /\ (status[n] = "leader" <=> Gen(n) = 0)
      BY <1>1, <3>1 DEF NetInit
    <3> QED
      BY <1>2, <1>4, <3>2, <3>3, <3>4 DEF Active, Agrees
  <2> QED
    BY <2>1 DEF LogInv
<1>9. MessageInv
  BY <1>3 DEF MessageInv
<1>10. OutcomeInv
  <2>1. \A r \in RMs : log_plms[r] = <<>>
    BY <1>1, NodeKinds DEF NetInit
  <2> QED
    BY <1>1, <1>4, <2>1, LogsDiffer DEF OutcomeInv, RMSound, TMSound
<1>11. QueryInv
  <2>1. ASSUME NEW r \in RMs
        PROVE  PrepareFirst(r)
    <3>1. First(r) \in RMNodes /\ First(r) \in Nodes
      BY NodeKinds, NetworkAssumption DEF First, Gens
    <3> QED
      BY <1>1, <1>4, <1>5, <3>1, NodeKinds DEF NetInit, PrepareFirst
  <2> QED
    BY <1>2, <2>1 DEF QueryInv
<1>12. StartInv
  BY <1>1 DEF StartInv
<1> QED
  BY <1>3, <1>6, <1>7, <1>8, <1>9, <1>10, <1>11, <1>12 DEF IndInv
-----------------------------------------------------------------------------
(* What a step must not disturb *)

(* The PLm of n, if any, stays where it is, as far as Gathered and         *)
(* Persisted tell places apart.                                            *)
Keeps(n) ==
  /\ NothingPending(n) => NothingPending(n)'
  /\ \A x \in PLms : Gathered(n, x) => Gathered(n, x)'
  /\ \A x \in PLms : Persisted(n, x) => Persisted(n, x)'

(* Then what n can tell of the log stays the same. *)
LEMMA PipelineStays ==
  ASSUME NEW n, rm[n].st \in RMSt \cup Unprepared, Pipeline(n), Keeps(n),
         Inserting(rm'[n].st) = Inserting(rm[n].st)
  PROVE  /\ Pipeline(n)'
         /\ Persisted(n, Inserting(rm[n].st))' <=> Persisted(n, Inserting(rm[n].st))
         /\ rm'[n].st = rm[n].st => Expected(n)' = Expected(n)
<1> DEFINE x == Inserting(rm[n].st)
<1>1. x \in PLms \cup {None} /\ None \notin PLms
  BY InsertingFacts
<1>2. Pipeline(n)' /\ (Persisted(n, x)' <=> Persisted(n, x))
  <2>1. CASE x = None
    BY <1>1, <2>1, OnePlace DEF Pipeline, Keeps
  <2>2. CASE x \in PLms
    BY <1>1, <2>2, OnePlace DEF Pipeline, Keeps
  <2> QED
    BY <1>1, <2>1, <2>2
<1> QED
  BY <1>2 DEF Expected, Logged

(* A node whose bundles and inputs stay the same keeps its PLm. *)
LEMMA KeepsSame ==
  ASSUME NEW n, tablet_bundle'[n] = tablet_bundle[n], tablet_bundles'[n] = tablet_bundles[n],
         next_insert'[n].plms = next_insert[n].plms,
         NoPLm(inbox[n]) => NoPLm(inbox'[n]),
         \A x : OnePLm(inbox[n], x) => OnePLm(inbox'[n], x)
  PROVE  Keeps(n)
BY DEF Keeps, NothingPending, Gathered, Persisted

(* The two facts about the transaction, once true, stay true. *)
Stable ==
  /\ \A r \in RMs : log_plms[r] # <<>> => log_plms'[r] # <<>>
  /\ \A r \in RMs : NeverPrepares(r) => NeverPrepares(r)'

(* They exclude each other. *)
LEMMA NotBoth == ~(AllPrepared /\ Doomed)
BY DEF AllPrepared, Doomed, NeverPrepares

(* What they imply stays true as well. *)
LEMMA StableFacts ==
  ASSUME Stable, log_plms[TM] = <<>>
  PROVE  /\ AllPrepared => AllPrepared'
         /\ Doomed => Doomed'
         /\ \A g \in Groups : \A p : Sound(g, p) => Sound(g, p)'
         /\ \A es : RMSound(es) => RMSound(es)'
         /\ \A es : TMSound(es) => TMSound(es)'
<1>1. (AllPrepared => AllPrepared') /\ (Doomed => Doomed')
  BY DEF Stable, AllPrepared, Doomed
<1>2. \A g \in Groups : log_plms[g] # <<>> => log_plms'[g] # <<>>
  BY TMAssumption DEF Stable
<1>3. \A g \in Groups : \A p : Sound(g, p) => Sound(g, p)'
  BY <1>1, <1>2 DEF Sound
<1>4. \A es : RMSound(es) => RMSound(es)'
  BY <1>1 DEF RMSound
<1>5. \A es : TMSound(es) => TMSound(es)'
  BY DEF TMSound, Stable
<1> QED
  BY <1>1, <1>3, <1>4, <1>5

(* What a leader of an RM knows. *)
LEMMA Knows ==
  ASSUME LogInv, NEW n \in RMNodes, Active(n)
  PROVE  /\ Expected(n) # <<>> => log_plms[Gid(n)] # <<>>
         /\ Expected(n) = <<>> /\ rm[n].st = "None" /\ ~ms_query[n] => NeverPrepares(Gid(n))
<1>1. Agrees(n)
  BY DEF LogInv
<1>2. n = <<Gid(n), Gen(n)>>
  BY NodeFacts, NodeKinds
<1>3. CASE log_gen[Gid(n)] = Gen(n)
  BY <1>1, <1>2, <1>3 DEF Agrees, NeverPrepares, Current
<1>4. CASE log_gen[Gid(n)] # Gen(n)
  BY <1>1, <1>4 DEF Agrees
<1> QED
  BY <1>3, <1>4

(* The messages sent are sound: so are then all that are under way. *)
LEMMA MessagesSound ==
  ASSUME MessageInv, Stable, log_plms[TM] = <<>>,
         \A g \in Groups, n \in Nodes : \A p \in Messages :
           UnderWayTo(g, n, p)' => UnderWayTo(g, n, p) \/ Sound(g, p)
  PROVE  MessageInv'
BY StableFacts DEF MessageInv

(* The frame of a step that leaves the logs and the Leaderships alone:     *)
(* what such a step has to keep.                                           *)
LEMMA Preserve ==
  ASSUME IndInv, NetInv(Messages, PLms)',
         UNCHANGED <<log_gen, log_plms, status>>,
         TypeOK', PipelineInv', MessageInv', QueryInv',
         reply' # "none",
         \A r \in RMs : NeverPrepares(r) => NeverPrepares(r)',
         \A n \in RMNodes : ms_query'[n] => ms_query[n],
         \A n \in RMNodes : Active(n) => inbox'[n] # <<LC>> /\ Expected(n)' = Expected(n),
         \A n \in RMNodes :
           ~Active(n) => \/ ~Active(n)' /\ rm'[n] = rm[n]
                         \/ Active(n)' /\ Expected(n)' = log_plms[Gid(n)],
         \A n \in RMNodes : RMSound(rm[n])',
         \A n \in TMNodes : TMSound(tm[n])',
         reply' = "committed" => AllPrepared,
         reply' = "retried" => Doomed
  PROVE  IndInv'
<1>1. Stable /\ log_plms[TM] = <<>>
  BY DEF Stable, IndInv, TypeOK
<1>2. (AllPrepared => AllPrepared') /\ (Doomed => Doomed')
  BY <1>1, StableFacts
<1>3. LogInv'
  <2>1. ASSUME NEW n \in RMNodes
        PROVE  (IF Active(n) THEN Agrees(n) ELSE rm[n] = InState("None") /\ ~ms_query[n])'
    <3>1. n \in Nodes /\ Gid(n) \in RMs
      BY NodeKinds
    <3>2. CASE Active(n)
      <4>1. Agrees(n)
        BY <3>2 DEF IndInv, LogInv
      <4>2. Active(n)' /\ Expected(n)' = Expected(n)
        BY <3>2 DEF Active
      <4>3. Agrees(n)'
        BY <3>1, <4>1, <4>2 DEF Agrees
      <4> QED
        BY <4>2, <4>3
    <3>3. CASE ~Active(n) /\ ~Active(n)' /\ rm'[n] = rm[n]
      BY <3>3 DEF IndInv, LogInv
    <3>4. CASE ~Active(n) /\ Active(n)' /\ Expected(n)' = log_plms[Gid(n)]
      <4>1. inbox[n] = <<LC>>
        BY <3>4 DEF Active
      <4>2. Range(<<LC>>) = {LC}
        BY DEF Range
      <4>3. log_gen[Gid(n)] = Gen(n)
        BY <3>1, <4>1, <4>2 DEF IndInv, NetInv, FreshInv
      <4> QED
        BY <3>4, <4>3 DEF Agrees
    <3> QED
      BY <3>2, <3>3, <3>4
  <2> QED
    BY <2>1 DEF LogInv
<1>4. OutcomeInv'
  BY <1>2 DEF IndInv, OutcomeInv
<1> QED
  BY <1>3, <1>4 DEF IndInv, StartInv
-----------------------------------------------------------------------------
(* The steps of the NetworkDriver *)

(* Before start_orig nothing else can happen. *)
LEMMA NotStarted ==
  ASSUME IndInv, Next, reply = "none"
  PROVE  \E n \in TMNodes : start_orig(n)
<1>1. NetInit /\ rm = [n \in RMNodes |-> InState("None")]
  BY DEF IndInv, StartInv
<1>2. /\ \A n \in Nodes : inbox[n] = <<>> /\ next_insert[n] = NoInsert
      /\ \A n \in Nodes : remote_leader_changes[n] = <<>> /\ tablet_bundle[n] = <<>>
      /\ \A n \in Nodes : tablet_bundles[n] = <<>>
      /\ \A e \in Linked : chan[e] = <<>>
  BY <1>1 DEF NetInit
<1>3. ~Event
  BY DEF Event
<1>4. ~Handle
  <2>1. ASSUME NEW n \in Nodes, NEW in \in Inputs(n)
        PROVE  FALSE
    <3>1. \E e \in Linked : chan[e] # <<>>
      BY <1>2, <2>1, InputSource DEF IsForwarded, IsDelivered
    <3> QED
      BY <1>2, <3>1
  <2> QED
    BY <2>1, NodeKinds DEF Handle, HandleTMInput, HandleRMInput
<1>5. ~NetworkWork
  <2>1. ASSUME NEW e \in Linked, Receive(e[2], e[1])
        PROVE  FALSE
    BY <1>2, <2>1, LinkedFacts DEF Receive
  <2>2. ASSUME NEW n \in Nodes
        PROVE  ~maybe_start_insert(n) /\ ~process_bundle(n) /\ ~deliver_blocked_messages(n)
    BY <1>2 DEF maybe_start_insert, process_bundle, deliver_blocked_messages, NoInsert
  <2> QED
    BY <2>1, <2>2 DEF NetworkWork
<1>6. ASSUME NEW n \in RMNodes, start_inserting(n)
      PROVE  FALSE
  <2>1. tablet_bundle[n] = <<>> /\ rm[n].st = "None"
    BY <1>1, <1>2, NodeKinds DEF InState
  <2>2. <<>> \o <<>> = <<>>
    OBVIOUS
  <2> QED
    BY <1>6, <2>1, <2>2 DEF start_inserting
<1> QED
  BY <1>3, <1>4, <1>5, <1>6 DEF Next, Work

(* What the execution strategies do not see keeps their invariant. *)
LEMMA NetStep ==
  ASSUME IndInv, reply # "none", UNCHANGED <<esVars, log_gen, log_plms, status>>,
         NetInv(Messages, PLms)', NothingSent,
         \A n \in Nodes : Keeps(n) /\ (inbox'[n] = <<LC>> <=> inbox[n] = <<LC>>),
         \A e \in Linked : Range(chan'[e]) \subseteq Range(chan[e]),
         \A r \in RMs : PrepareFirst(r)'
  PROVE  IndInv'
<1>1. TypeOK'
  BY DEF IndInv, TypeOK, esVars, NetInv, NetType
<1>2. \A n \in RMNodes : Pipeline(n)' /\ Expected(n)' = Expected(n)
  <2>1. ASSUME NEW n \in RMNodes
        PROVE  Pipeline(n)' /\ Expected(n)' = Expected(n)
    <3>1. rm[n].st \in RMSt \cup Unprepared
      BY StateTypes DEF IndInv, TypeOK
    <3>2. rm'[n] = rm[n] /\ Keeps(n) /\ Pipeline(n)
      BY NodeKinds DEF esVars, IndInv, PipelineInv
    <3> QED
      BY <3>1, <3>2, PipelineStays
  <2> QED
    BY <2>1
<1>3. PipelineInv'
  BY <1>2, NodeKinds DEF IndInv, PipelineInv, Keeps
<1>4. \A r \in RMs : NeverPrepares(r) <=> NeverPrepares(r)'
  BY DEF NeverPrepares, Current, esVars
<1>5. Stable /\ log_plms[TM] = <<>>
  BY <1>4 DEF Stable, IndInv, TypeOK
<1>6. MessageInv'
  <2>1. \A g \in Groups, n \in Nodes : \A p \in Messages :
          UnderWayTo(g, n, p)' => UnderWayTo(g, n, p) \/ Sound(g, p)
    BY DEF NothingSent
  <2> QED
    BY <1>5, <2>1, MessagesSound DEF IndInv
<1>7. QueryInv'
  BY DEF IndInv, QueryInv, esVars
<1>8. \A n \in RMNodes : Active(n)' <=> Active(n)
  BY NodeKinds DEF Active
<1>9. \A n \in RMNodes : Active(n) => inbox'[n] # <<LC>> /\ Expected(n)' = Expected(n)
  BY <1>2, NodeKinds DEF Active
<1>10. \A n \in RMNodes : ~Active(n) => ~Active(n)' /\ rm'[n] = rm[n]
  BY <1>8 DEF esVars
<1>11. /\ \A n \in RMNodes : RMSound(rm[n])'
       /\ \A n \in TMNodes : TMSound(tm[n])'
  <2>1. /\ \A n \in RMNodes : RMSound(rm[n]) /\ rm'[n] = rm[n]
        /\ \A n \in TMNodes : TMSound(tm[n]) /\ tm'[n] = tm[n]
    BY DEF IndInv, OutcomeInv, esVars
  <2> QED
    BY <1>5, <2>1, StableFacts
<1>12. /\ reply' # "none" /\ (reply' = "committed" => AllPrepared) /\ (reply' = "retried" => Doomed)
       /\ \A n \in RMNodes : ms_query'[n] => ms_query[n]
  BY DEF IndInv, OutcomeInv, esVars
<1> QED
  BY <1>1, <1>3, <1>4, <1>6, <1>7, <1>9, <1>10, <1>11, <1>12, Preserve

(* The first nodes of the groups and the queue between them. *)
LEMMA FirstFacts ==
  ASSUME NEW r \in RMs
  PROVE  /\ First(r) \in RMNodes /\ First(r) \in Nodes
         /\ Gid(First(r)) = r /\ Gen(First(r)) = 0
         /\ <<TM, 0>> \in TMNodes /\ <<TM, 0>> \in Nodes
         /\ Gid(<<TM, 0>>) = TM /\ Gen(<<TM, 0>>) = 0
         /\ FirstQueue(r) \in Linked
         /\ FirstQueue(r)[1] = <<TM, 0>> /\ FirstQueue(r)[2] = First(r)
         /\ FirstQueue(r) = <<<<TM, 0>>, First(r)>>
<1>1. 0 \in Gens
  BY NetworkAssumption DEF Gens
<1>2. First(r) \in RMNodes /\ Gid(First(r)) = r /\ Gen(First(r)) = 0
  BY <1>1, NodeKinds DEF First
<1>3. <<TM, 0>> \in TMNodes /\ Gid(<<TM, 0>>) = TM /\ Gen(<<TM, 0>>) = 0
  BY <1>1 DEF TMNodes, Gid, Gen
<1>4. <<TM, r>> \in Links
  BY TMAssumption
<1>5. FirstQueue(r) = <<<<TM, 0>>, First(r)>>
  BY DEF First, FirstQueue
<1>6. FirstQueue(r) \in Linked
  BY <1>2, <1>3, <1>4, <1>5, NodeKinds DEF Linked
<1> QED
  BY <1>2, <1>3, <1>5, <1>6, NodeKinds

(* The NetworkDriver reads a message. *)
LEMMA ReceiveInv ==
  ASSUME IndInv, reply # "none", UNCHANGED esVars, NEW e \in Linked, Receive(e[2], e[1])
  PROVE  IndInv'
<1> DEFINE n == e[2]
           g == Gid(e[1])
<1>1. NetInv(Messages, PLms)' /\ NothingSent
  BY ReceiveNet DEF IndInv
<1>2. n \in Nodes /\ e[1] \in Nodes /\ g \in Groups /\ e = <<e[1], n>> /\ <<g, Gid(n)>> \in Links
  BY LinkedFacts, NodeFacts
<1>3. /\ chan[e] # <<>>
      /\ status[n] = "leader"
      /\ ~Delivers(n, e[1])
      /\ chan' = [chan EXCEPT ![e] = Tail(@)]
      /\ UNCHANGED <<logVars, status, leader_map, tablet_bundle, tablet_bundles, next_insert,
                     inbox>>
  BY <1>2 DEF Receive
<1>4. /\ chan \in [Linked -> Seq(Messages)]
      /\ network_buffer \in [Nodes -> [Groups -> Buffers(Messages)]]
  BY DEF IndInv, NetInv, NetType
<1>5. /\ \A d \in Linked : d # e => chan'[d] = chan[d]
      /\ \A d \in Linked : Range(chan'[d]) \subseteq Range(chan[d])
  <2>1. Range(Tail(chan[e])) \subseteq Range(chan[e])
    BY <1>3, <1>4, RangeTail
  <2> QED
    BY <1>3, <1>4, <2>1
<1>6. \A x \in Nodes : Keeps(x)
  BY <1>3, KeepsSame
<1>7. /\ \A x \in Nodes : x # n => network_buffer'[x] = network_buffer[x]
      /\ network_buffer[n][g].payloads # <<>> => network_buffer'[n][g].payloads # <<>>
  <2>1. CASE UNCHANGED network_buffer
    BY <2>1
  <2>2. ASSUME NEW ps, ps # <<>>,
               network_buffer' = [network_buffer EXCEPT ![n][g] = [gen |-> Gen(e[1]), payloads |-> ps]]
        PROVE  <1>7
    BY <1>2, <1>4, <2>2
  <2>3. Head(chan[e]) \in Messages /\ network_buffer[n][g].payloads \in Seq(Messages)
    BY <1>2, <1>3, <1>4 DEF Buffers
  <2>4. /\ <<Head(chan[e])>> # <<>>
        /\ Append(network_buffer[n][g].payloads, Head(chan[e])) # <<>>
    BY <2>3, RangeAppend
  <2> QED
    BY <1>2, <2>1, <2>2, <2>4 DEF Receive
<1>8. ASSUME NEW r \in RMs
      PROVE  PrepareFirst(r)'
  <2> SUFFICES ASSUME ms_query[First(r)]
               PROVE  \/ network_buffer'[First(r)][TM].payloads # <<>>
                      \/ chan'[FirstQueue(r)] # <<>> /\ Head(chan'[FirstQueue(r)]) = Msg("Prepare")
    <3>1. PrepareFirst(r)
      BY DEF IndInv, QueryInv
    <3> QED
      BY <1>3, <3>1 DEF PrepareFirst, esVars
  <2>1. /\ leader_map[First(r)][TM] = 0
        /\ \/ network_buffer[First(r)][TM].payloads # <<>>
           \/ chan[FirstQueue(r)] # <<>> /\ Head(chan[FirstQueue(r)]) = Msg("Prepare")
    BY DEF IndInv, QueryInv, PrepareFirst
  <2>2. n = First(r) => g = TM
    BY <1>2, FirstFacts, NodeKinds
  <2>3. e = FirstQueue(r) => network_buffer[First(r)][TM].payloads # <<>>
    BY <1>2, <1>3, <2>1, FirstFacts DEF Delivers
  <2>4. network_buffer[First(r)][TM].payloads # <<>> =>
          network_buffer'[First(r)][TM].payloads # <<>>
    BY <1>7, <2>2, FirstFacts
  <2> QED
    BY <1>5, <2>1, <2>3, <2>4, FirstFacts
<1> QED
  BY <1>1, <1>3, <1>5, <1>6, <1>8, NetStep DEF logVars

(* A gossip is heard. *)
LEMMA GossipInv ==
  ASSUME IndInv, reply # "none", UNCHANGED esVars, NEW n \in Nodes, NEW src \in Nodes,
         RemoteLeaderChangedGossip(n, src)
  PROVE  IndInv'
<1>1. NetInv(Messages, PLms)' /\ NothingSent
  BY GossipNet DEF IndInv
<1>2. UNCHANGED <<logVars, status, leader_map, tablet_bundle, tablet_bundles, next_insert,
                  network_buffer, chan, inbox>>
  BY DEF RemoteLeaderChangedGossip
<1>3. \A x \in Nodes : Keeps(x)
  BY <1>2, KeepsSame
<1>4. \A r \in RMs : PrepareFirst(r)'
  BY <1>2 DEF IndInv, QueryInv, PrepareFirst, esVars
<1> QED
  BY <1>1, <1>2, <1>3, <1>4, NetStep DEF logVars

(* The leader learns that its bundle is in the log: the PLm moves on to    *)
(* its inputs.                                                             *)
LEMMA ProcessInv ==
  ASSUME IndInv, reply # "none", UNCHANGED esVars, Quiet, NEW n \in Nodes, process_bundle(n)
  PROVE  IndInv'
<1> DEFINE new == Forwarded(next_insert[n].rlcs, next_insert[n].plms)
<1>1. NetInv(Messages, PLms)' /\ NothingSent /\ inbox' = [inbox EXCEPT ![n] = new]
  BY ProcessNet DEF IndInv
<1>2. /\ next_insert' = [next_insert EXCEPT ![n] = NoInsert]
      /\ UNCHANGED <<logVars, status, leader_map, remote_leader_changes, tablet_bundle,
                     tablet_bundles, network_buffer, chan>>
  BY DEF process_bundle
<1>3. inbox \in [Nodes -> Seq(Items(Messages, PLms))] /\ next_insert \in [Nodes -> Bundles(PLms)]
  BY DEF IndInv, NetInv, NetType
<1>4. next_insert[n].rlcs \in Seq(RLCs) /\ next_insert[n].plms \in Seq(PLms)
  BY <1>3 DEF Bundles
<1>5. /\ \A item \in Range(new) : item.type # "Payload" /\ item # LC
      /\ next_insert[n].plms = <<>> => NoPLm(new)
      /\ \A x : next_insert[n].plms = <<x>> => OnePLm(new, x)
  BY <1>4, ForwardedFacts
<1> HIDE DEF new
<1>6. /\ inbox'[n] = new /\ inbox[n] = <<>> /\ next_insert'[n] = NoInsert
      /\ \A x \in Nodes : x # n => inbox'[x] = inbox[x] /\ next_insert'[x] = next_insert[x]
  BY <1>1, <1>2, <1>3 DEF Quiet
<1>7. Range(<<LC>>) = {LC} /\ <<LC>> # <<>>
  BY DEF Range
<1>8. \A x \in Nodes : inbox'[x] # <<LC>> /\ inbox[x] # <<LC>>
  BY <1>5, <1>6, <1>7 DEF Quiet
<1>9. \A x \in Nodes : Keeps(x)
  <2>1. ASSUME NEW x \in Nodes, x # n
        PROVE  Keeps(x)
    BY <1>2, <1>6, <2>1, KeepsSame
  <2>2. NoInsert.plms = <<>> /\ NoPLm(<<>>) /\ \A x : ~OnePLm(<<>>, x)
    BY DEF NoInsert, NoPLm, OnePLm
  <2>3. \A x : <<x>> # <<>>
    OBVIOUS
  <2>4. NothingPending(n) => NothingPending(n)'
    BY <1>2, <1>5, <1>6, <2>2 DEF NothingPending
  <2>5. \A x \in PLms : Gathered(n, x) => Gathered(n, x)'
    BY <1>2, <1>5, <1>6, <2>2 DEF Gathered
  <2>6. \A x \in PLms : Persisted(n, x) => Persisted(n, x)'
    BY <1>2, <1>5, <1>6, <2>2, <2>3 DEF Persisted
  <2> QED
    BY <2>1, <2>4, <2>5, <2>6 DEF Keeps
<1>10. ASSUME NEW r \in RMs
       PROVE  PrepareFirst(r)'
  <2>2. Range(<<>>) = {}
    BY DEF Range
  <2>3. \A item \in Range(inbox'[First(r)]) : item.type # "Payload"
    BY <1>5, <1>6, <2>2, FirstFacts DEF Quiet
  <2> QED
    BY <1>2, <2>3 DEF IndInv, QueryInv, PrepareFirst, esVars
<1> QED
  BY <1>1, <1>2, <1>8, <1>9, <1>10, NetStep DEF logVars

(* The buffer of a group is emptied, into the inputs or for good; not that *)
(* of an RM that still has its MSQueryES.                                  *)
LEMMA DeliverInv ==
  ASSUME IndInv, reply # "none", UNCHANGED esVars, NEW n \in Nodes, deliver_blocked_messages(n)
  PROVE  IndInv'
<1> DEFINE g == Head(inbox[n]).gid
           k == Head(inbox[n]).gen
<1>1. /\ NetInv(Messages, PLms)' /\ NothingSent
      /\ NoPLm(inbox[n]) => NoPLm(inbox'[n])
      /\ \A x : OnePLm(inbox[n], x) => OnePLm(inbox'[n], x)
      /\ \A x \in Nodes : x # n => inbox'[x] = inbox[x]
  BY DeliverNet DEF IndInv
<1>2. /\ inbox[n] # <<>>
      /\ Head(inbox[n]).type = "Unblock"
      /\ UNCHANGED <<logVars, status, leader_map, bundleVars, chan>>
  BY DEF deliver_blocked_messages
<1>3. \A x \in Nodes : Keeps(x)
  BY <1>1, <1>2, KeepsSame DEF bundleVars
<1>4. \A x \in Nodes : inbox'[x] = <<LC>> <=> inbox[x] = <<LC>>
  <2>1. Range(<<LC>>) = {LC} /\ Head(<<LC>>) = LC /\ LC.type = "LeaderChanged"
    BY DEF Range, LC
  <2>2. inbox[n] # <<LC>>
    BY <1>2, <2>1
  <2>3. inbox'[n] # <<LC>>
    <3>1. inbox[n] \in Seq(Items(Messages, PLms)) /\ LC \notin Range(inbox[n])
      BY <2>2 DEF IndInv, NetInv, NetType, FreshInv
    <3>2. LC \notin Range(inbox'[n])
      <4>1. Head(inbox[n]) \in Unblocks
        BY <1>2, <3>1, RangeTail DEF Items, RLCs, PLmItems, PayloadItems, LC
      <4>2. g \in Groups
        BY <4>1 DEF Unblocks
      <4>3. /\ BlockedOf(n, g) \in Seq(Items(Messages, PLms))
            /\ LC \notin Range(BlockedOf(n, g))
        <5>1. network_buffer[n][g] \in Buffers(Messages)
          BY <4>2 DEF IndInv, NetInv, NetType
        <5>2. \A p : Payload(g, p) # LC
          BY DEF Payload, LC
        <5>3. BlockedOf(n, g) \in Seq(Items(Messages, PLms))
          BY <4>2, <5>1, BlockedFacts
        <5>4. Range(BlockedOf(n, g)) = {Payload(g, p) : p \in Range(network_buffer[n][g].payloads)}
          BY <4>2, <5>1, BlockedFacts
        <5> QED
          BY <5>2, <5>3, <5>4
      <4>4. Tail(inbox[n]) \in Seq(Items(Messages, PLms)) /\ LC \notin Range(Tail(inbox[n]))
        BY <1>2, <3>1, RangeTail
      <4>5. LC \notin Range(BlockedOf(n, g) \o Tail(inbox[n]))
        <5>1. Range(BlockedOf(n, g) \o Tail(inbox[n])) =
                Range(BlockedOf(n, g)) \cup Range(Tail(inbox[n]))
          BY <4>3, <4>4, RangeConcatenation
        <5> QED
          BY <4>3, <4>4, <5>1
      <4>6. inbox'[n] \in {Tail(inbox[n]), BlockedOf(n, g) \o Tail(inbox[n])}
        BY DEF deliver_blocked_messages, IndInv, NetInv, NetType
      <4> QED
        BY <4>4, <4>5, <4>6
    <3> QED
      BY <2>1, <3>2
  <2> QED
    BY <1>1, <2>2, <2>3
<1>5. ASSUME NEW r \in RMs
      PROVE  PrepareFirst(r)'
  <2>1. CASE n # First(r)
    <3>1. network_buffer'[First(r)] = network_buffer[First(r)]
      BY <2>1, FirstFacts DEF deliver_blocked_messages, IndInv, NetInv, NetType
    <3> QED
      BY <1>1, <1>2, <2>1, <3>1, FirstFacts DEF IndInv, QueryInv, PrepareFirst, esVars
  <2>2. CASE n = First(r) /\ ms_query[n]
    <3>1. inbox[n] \in Seq(Items(Messages, PLms)) /\ Head(inbox[n]) \in Range(inbox[n])
      BY <1>2, RangeTail DEF IndInv, NetInv, NetType
    <3>2. Head(inbox[n]) \in Unblocks
      BY <1>2, <3>1, RangeTail DEF Items, RLCs, PLmItems, PayloadItems, LC
    <3>3. g \in Groups /\ k >= 1
      BY <3>2, NetworkAssumption DEF Unblocks
    <3>4. leader_map[n][TM] = 0 /\ \A item \in Range(inbox[n]) : item.type # "Payload"
      BY <2>2 DEF IndInv, QueryInv, PrepareFirst
    <3>5. Unblocked(n, g, k) => g # TM
      BY <3>3, <3>4 DEF Unblocked
    <3>6. g # TM => network_buffer[n][g].payloads = <<>>
      <4>1. <<g, r>> \in Links => g = TM
        BY NodeKinds
      <4>2. network_buffer[n][g].payloads # <<>> => <<g, Gid(n)>> \in Links
        BY <3>3 DEF IndInv, NetInv, BlockedInv
      <4> QED
        BY <2>2, <4>1, <4>2, FirstFacts
    <3>7. network_buffer'[n][TM] = network_buffer[n][TM]
      <4>1. network_buffer \in [Nodes -> [Groups -> Buffers(Messages)]]
        BY DEF IndInv, NetInv, NetType
      <4>2. CASE network_buffer' = [network_buffer EXCEPT ![n][g] = EmptyBuffer] /\ g # TM
        BY <4>1, <4>2, NodeKinds
      <4>3. CASE UNCHANGED network_buffer
        BY <4>3
      <4> QED
        BY <3>5, <4>2, <4>3 DEF deliver_blocked_messages
    <3>8. \A item \in Range(inbox'[n]) : item.type # "Payload"
      <4>1. Tail(inbox[n]) \in Seq(Items(Messages, PLms))
            /\ Range(Tail(inbox[n])) \subseteq Range(inbox[n])
        BY <1>2, <3>1, RangeTail
      <4>2. g # TM => BlockedOf(n, g) = <<>>
        BY <3>6 DEF BlockedOf
      <4>3. <<>> \o Tail(inbox[n]) = Tail(inbox[n])
        BY <4>1
      <4>4. inbox'[n] = Tail(inbox[n])
        BY <3>5, <4>2, <4>3 DEF deliver_blocked_messages, IndInv, NetInv, NetType
      <4> QED
        BY <3>4, <4>1, <4>4
    <3> QED
      BY <1>2, <2>2, <3>7, <3>8 DEF IndInv, QueryInv, PrepareFirst, esVars
  <2>3. CASE ~ms_query[First(r)]
    BY <2>3 DEF PrepareFirst, esVars
  <2> QED
    BY <2>1, <2>2, <2>3
<1> QED
  BY <1>1, <1>2, <1>3, <1>4, <1>5, NetStep DEF logVars
-----------------------------------------------------------------------------
(* The insertion of a bundle *)

(* The PLm x of the leader n of r gets into the log. *)
Inserts(n, x) ==
  LET r == Gid(n)
  IN /\ n \in RMNodes
     /\ x = Inserting(rm[n].st)
     /\ log_gen[r] = Gen(n)
     /\ \/ /\ x = "Prepared"
           /\ log_plms[r] = <<>>
           /\ log_plms' = [log_plms EXCEPT ![r] = <<"Prepared">>]
        \/ /\ x = "Committed"
           /\ log_plms[r] = <<"Prepared">>
           /\ log_plms' = [log_plms EXCEPT ![r] = <<"Prepared", "Committed">>]
        \/ /\ x = "Aborted"
           /\ log_plms[r] = <<"Prepared">>
           /\ log_plms' = [log_plms EXCEPT ![r] = <<"Prepared", "Aborted">>]

(* An insertion leaves the PLms of the log alone or adds the one that its  *)
(* leader waits for.                                                       *)
LEMMA InsertFacts ==
  ASSUME IndInv, Quiet, NEW n \in Nodes, maybe_start_insert(n), UNCHANGED rm
  PROVE  /\ \A y \in Nodes : y # n => Keeps(y)
         /\ \/ UNCHANGED log_plms /\ Keeps(n)
            \/ \E x \in PLms : /\ Inserts(n, x)
                               /\ Persisted(n, x)'
                               /\ Expected(n)' = log_plms'[Gid(n)]
<1> DEFINE r == Gid(n)
<1>1. /\ status[n] = "leader"
      /\ log_gen[r] = Gen(n)
      /\ next_insert[n] = NoInsert
      /\ next_insert' = [next_insert EXCEPT ![n] =
                           [rlcs |-> remote_leader_changes[n], plms |-> tablet_bundles[n]]]
      /\ log_plms' = [log_plms EXCEPT ![r] = @ \o tablet_bundles[n]]
      /\ tablet_bundles' = [tablet_bundles EXCEPT ![n] = <<>>]
      /\ UNCHANGED <<log_gen, status, leader_map, tablet_bundle, network_buffer, chan, inbox>>
  BY DEF maybe_start_insert
<1>2. /\ tablet_bundles \in [Nodes -> Seq(PLms)]
      /\ next_insert \in [Nodes -> Bundles(PLms)]
      /\ log_plms \in [Groups -> Seq(PLms)]
      /\ r \in Groups
  BY NodeFacts DEF IndInv, NetInv, NetType
<1>3. /\ next_insert'[n].plms = tablet_bundles[n] /\ tablet_bundles'[n] = <<>>
      /\ \A y \in Nodes : y # n => /\ next_insert'[y] = next_insert[y]
                                   /\ tablet_bundles'[y] = tablet_bundles[y]
  BY <1>1, <1>2
<1>4. \A y \in Nodes : y # n => Keeps(y)
  BY <1>1, <1>3, KeepsSame
<1>5. NoInsert.plms = <<>>
  BY DEF NoInsert
<1>6. CASE tablet_bundles[n] = <<>>
  <2>1. Keeps(n)
    BY <1>1, <1>3, <1>5, <1>6, KeepsSame
  <2>2. log_plms' = log_plms
    <3>1. log_plms[r] \o <<>> = log_plms[r]
      BY <1>2
    <3> QED
      BY <1>1, <1>2, <1>6, <3>1
  <2> QED
    BY <1>4, <2>1, <2>2
<1>7. CASE tablet_bundles[n] # <<>>
  <2> DEFINE x == Inserting(rm[n].st)
  <2>1. n \in RMNodes
    BY <1>7, NodeKinds DEF IndInv, PipelineInv, NothingPending
  <2>2. rm[n].st \in RMSt \cup Unprepared
    BY <2>1, StateTypes DEF IndInv, TypeOK
  <2>3. x # None /\ Gathered(n, x) /\ x \in PLms
    <3>1. Pipeline(n)
      BY <2>1 DEF IndInv, PipelineInv
    <3> QED
      BY <1>7, <2>2, <3>1, InsertingFacts DEF Pipeline, NothingPending, Persisted
  <2>4. tablet_bundles[n] = <<x>> /\ tablet_bundle[n] = <<>> /\ NoPLm(inbox[n])
    BY <1>7, <2>3 DEF Gathered
  <2>5. Persisted(n, x)'
    BY <1>1, <1>3, <2>4 DEF Persisted
  <2>6. log_plms[r] = Expected(n)
    <3>1. inbox[n] # <<LC>>
      BY DEF Quiet
    <3> QED
      BY <1>1, <2>1, <3>1 DEF IndInv, LogInv, Active, Agrees
  <2>7. ~Persisted(n, x)
    BY <2>3, OnePlace
  <2>8. /\ <<>> \o <<"Prepared">> = <<"Prepared">>
        /\ <<"Prepared">> \o <<"Committed">> = <<"Prepared", "Committed">>
        /\ <<"Prepared">> \o <<"Aborted">> = <<"Prepared", "Aborted">>
    <3>1. <<"Prepared">> \in Seq(PLms)
      BY DEF PLms
    <3>2. /\ <<"Prepared">> \o <<"Committed">> = <<"Prepared", "Committed">>
          /\ <<"Prepared">> \o <<"Aborted">> = <<"Prepared", "Aborted">>
      <4>1. "Prepared" \in PLms /\ "Committed" \in PLms /\ "Aborted" \in PLms
        BY DEF PLms
      <4>2. \A y, z \in PLms : <<y>> \o <<z>> = <<y, z>>
        BY ConcatPair
      <4> QED
        BY <4>1, <4>2
    <3>3. <<>> \o <<"Prepared">> = <<"Prepared">>
      BY <3>1, ConcatEmptySeq
    <3> QED
      BY <3>2, <3>3
  <2>9. /\ rm[n].st \in {"InsertingPrepared", "InsertingPreparedAborted"} =>
             x = "Prepared" /\ Expected(n) = <<>> /\ Expected(n)' = <<"Prepared">>
        /\ rm[n].st = "InsertingCommitted" =>
             /\ x = "Committed" /\ Expected(n) = <<"Prepared">>
             /\ Expected(n)' = <<"Prepared", "Committed">>
        /\ rm[n].st = "InsertingAborted" =>
             /\ x = "Aborted" /\ Expected(n) = <<"Prepared">>
             /\ Expected(n)' = <<"Prepared", "Aborted">>
    BY <2>5, <2>7, InsertingFacts DEF Expected, Logged
  <2>10. rm[n].st \in {"InsertingPrepared", "InsertingPreparedAborted", "InsertingCommitted",
                       "InsertingAborted"}
    BY <2>2, <2>3, InsertingFacts DEF RMSt, Unprepared
  <2>11. Inserts(n, x) /\ Expected(n)' = log_plms'[r]
    BY <1>1, <1>2, <2>1, <2>4, <2>6, <2>8, <2>9, <2>10 DEF Inserts
  <2> QED
    BY <1>4, <2>3, <2>5, <2>11
<1> QED
  BY <1>6, <1>7

(* Getting a bundle into the log keeps the invariant. *)
LEMMA InsertInv ==
  ASSUME IndInv, reply # "none", UNCHANGED esVars, Quiet, NEW n \in Nodes, maybe_start_insert(n)
  PROVE  IndInv'
<1>1. NetInv(Messages, PLms)' /\ NothingSent
  BY InsertNet DEF IndInv
<1>2. UNCHANGED <<log_gen, status, leader_map, tablet_bundle, network_buffer, chan, inbox>>
  BY DEF maybe_start_insert
<1>3. \A r \in RMs : PrepareFirst(r)'
  BY <1>2 DEF IndInv, QueryInv, PrepareFirst, esVars
<1>4. \A y \in Nodes : y # n => Keeps(y)
  BY InsertFacts DEF esVars
<1>5. CASE UNCHANGED log_plms /\ Keeps(n)
  BY <1>1, <1>2, <1>3, <1>4, <1>5, NetStep
<1>6. ASSUME NEW x \in PLms, Inserts(n, x), Persisted(n, x)', Expected(n)' = log_plms'[Gid(n)]
      PROVE  IndInv'
  <2> DEFINE r == Gid(n)
  <2>1. n \in RMNodes /\ r \in RMs /\ r \in Groups /\ n = Current(r) /\ r # TM
    BY <1>6, NodeKinds, NodeFacts DEF Inserts, Current
  <2>2. /\ x = Inserting(rm[n].st) /\ rm'[n] = rm[n] /\ x # None
        /\ log_plms[r] \in {<<>>, <<"Prepared">>}
        /\ log_plms'[r] \in {<<"Prepared">>, <<"Prepared", "Committed">>, <<"Prepared", "Aborted">>}
        /\ log_plms'[r] = <<"Prepared", "Committed">> => x = "Committed"
        /\ log_plms'[r] = <<"Prepared", "Aborted">> => x = "Aborted"
        /\ \A g \in Groups : g # r => log_plms'[g] = log_plms[g]
    BY <1>6, <2>1, LogsDiffer, InsertingFacts DEF Inserts, esVars, IndInv, NetInv, NetType
  <2>3. rm[n].st \in RMSt \cup Unprepared /\ rm[n].st # "None"
    BY <2>1, <2>2, StateTypes, InsertingFacts DEF IndInv, TypeOK
  <2>4. Stable /\ log_plms[TM] = <<>> /\ log_plms'[TM] = <<>>
    <3>1. \A q \in RMs : log_plms[q] # <<>> => log_plms'[q] # <<>>
      BY <2>2, LogsDiffer, NodeKinds
    <3>2. ~NeverPrepares(r)
      BY <2>1, <2>3 DEF NeverPrepares
    <3>3. \A q \in RMs : q # r => (NeverPrepares(q) => NeverPrepares(q)')
      BY <1>2, <2>2, NodeKinds DEF NeverPrepares, Current, esVars
    <3> QED
      BY <2>1, <2>2, <3>1, <3>2, <3>3, NodeKinds DEF Stable, IndInv, TypeOK
  <2>5. /\ AllPrepared => AllPrepared'
        /\ Doomed => Doomed'
        /\ \A es : RMSound(es) => RMSound(es)'
        /\ \A es : TMSound(es) => TMSound(es)'
    BY <2>4, StableFacts
  <2>6. TypeOK'
    <3>1. \A q \in RMs : log_plms'[q] \in
            {<<>>, <<"Prepared">>, <<"Prepared", "Committed">>, <<"Prepared", "Aborted">>}
      BY <2>2, NodeKinds DEF IndInv, TypeOK
    <3> QED
      BY <1>1, <1>2, <2>4, <3>1 DEF IndInv, TypeOK, esVars, NetInv, NetType
  <2>7. \A y \in RMNodes : Pipeline(y)' /\ (y # n => Expected(y)' = Expected(y))
    <3>1. ASSUME NEW y \in RMNodes, y # n
          PROVE  Pipeline(y)' /\ Expected(y)' = Expected(y)
      <4>1. rm[y].st \in RMSt \cup Unprepared
        BY StateTypes DEF IndInv, TypeOK
      <4>2. Keeps(y) /\ Pipeline(y) /\ rm'[y] = rm[y]
        BY <1>4, <3>1, NodeKinds DEF IndInv, PipelineInv, esVars
      <4> QED
        BY <4>1, <4>2, PipelineStays
    <3>2. Pipeline(n)'
      BY <1>6, <2>2 DEF Pipeline
    <3> QED
      BY <3>1, <3>2
  <2>8. PipelineInv'
    BY <1>4, <2>1, <2>7, NodeKinds DEF IndInv, PipelineInv, Keeps
  <2>9. LogInv'
    <3>1. ASSUME NEW y \in RMNodes
          PROVE  (IF Active(y) THEN Agrees(y) ELSE rm[y] = InState("None") /\ ~ms_query[y])'
      <4>1. y \in Nodes /\ Gid(y) \in RMs /\ y = <<Gid(y), Gen(y)>> /\ Gid(y) \in Groups
        BY NodeKinds, NodeFacts
      <4>2. CASE y = n
        <5>1. Active(n)'
          <6>1. inbox'[n] # <<LC>>
            BY <1>2 DEF Quiet
          <6> QED
            BY <1>2, <6>1 DEF Active, maybe_start_insert
        <5>2. log_gen'[r] = Gen(n)
          BY <1>2, <1>6 DEF Inserts
        <5> QED
          BY <1>6, <4>2, <5>1, <5>2 DEF Agrees
      <4>3. CASE y # n /\ ~Active(y)
        BY <1>2, <4>3 DEF Active, IndInv, LogInv, esVars
      <4>4. CASE y # n /\ Active(y)
        <5>1. Active(y)' /\ Agrees(y) /\ Expected(y)' = Expected(y)
          BY <1>2, <2>7, <4>4 DEF Active, IndInv, LogInv
        <5>2. CASE Gid(y) # r
          <6>1. log_plms'[Gid(y)] = log_plms[Gid(y)]
            BY <2>2, <4>1, <5>2
          <6>2. Agrees(y)'
            BY <1>2, <2>4, <4>1, <5>1, <6>1 DEF Agrees, Stable
          <6> QED
            BY <5>1, <6>2
        <5>3. CASE Gid(y) = r
          <6>1. log_gen[r] # Gen(y)
            BY <1>6, <2>1, <4>1, <4>4, <5>3 DEF Current
          <6>2. Agrees(y)'
            BY <1>2, <2>2, <2>4, <4>1, <5>1, <5>3, <6>1, LogsDiffer DEF Agrees, Stable
          <6> QED
            BY <5>1, <6>2
        <5> QED
          BY <5>2, <5>3
      <4> QED
        BY <4>2, <4>3, <4>4
    <3> QED
      BY <3>1 DEF LogInv
  <2>10. MessageInv'
    <3>1. \A g \in Groups, y \in Nodes : \A p \in Messages :
            UnderWayTo(g, y, p)' => UnderWayTo(g, y, p) \/ Sound(g, p)
      BY <1>1 DEF NothingSent
    <3> QED
      BY <2>4, <3>1, MessagesSound DEF IndInv
  <2>11. OutcomeInv'
    <3>1. \A y \in RMNodes : RMSound(rm[y])'
      BY <2>5 DEF IndInv, OutcomeInv, esVars
    <3>2. \A y \in TMNodes : TMSound(tm[y])'
      BY <2>5 DEF IndInv, OutcomeInv, esVars
    <3>3. /\ x = "Committed" => AllPrepared
          /\ x = "Aborted" => Doomed
      <4>1. RMSound(rm[n])
        BY <2>1 DEF IndInv, OutcomeInv
      <4> QED
        BY <2>2, <2>3, <4>1, InsertingFacts DEF RMSound, RMSt, Unprepared
    <3>4. ASSUME NEW q \in RMs
          PROVE  /\ log_plms'[q] = <<"Prepared", "Committed">> => AllPrepared'
                 /\ log_plms'[q] = <<"Prepared", "Aborted">> => Doomed'
      <4>1. CASE q = r
        BY <2>2, <2>5, <3>3, <4>1
      <4>2. CASE q # r
        BY <2>2, <2>5, <4>2, NodeKinds DEF IndInv, OutcomeInv
      <4> QED
        BY <4>1, <4>2
    <3> QED
      BY <2>5, <3>1, <3>2, <3>4 DEF IndInv, OutcomeInv, esVars
  <2>12. QueryInv' /\ StartInv'
    BY <1>3 DEF IndInv, QueryInv, StartInv, esVars
  <2> QED
    BY <1>1, <2>6, <2>8, <2>9, <2>10, <2>11, <2>12 DEF IndInv
<1> QED
  BY <1>5, <1>6, InsertFacts DEF esVars
-----------------------------------------------------------------------------
(* Leaderships *)

(* A new leader takes over: it has nothing yet, and if its RM is not       *)
(* prepared it never will be.                                              *)
LEMMA GainInv ==
  ASSUME IndInv, reply # "none", UNCHANGED esVars, Quiet, NEW g \in Groups, GainLeadership(g)
  PROVE  IndInv'
<1> DEFINE k == log_gen[g] + 1
           n == <<g, k>>
<1>1. NetInv(Messages, PLms)' /\ NothingSent /\ n \in Nodes /\ status[n] # "leader"
  BY GainNet DEF IndInv
<1>2. /\ log_gen' = [log_gen EXCEPT ![g] = k]
      /\ status' = [status EXCEPT ![n] = "leader"]
      /\ leader_map' = [leader_map EXCEPT ![n] = log_leader_map'[g]]
      /\ inbox' = [inbox EXCEPT ![n] = <<LC>>]
      /\ UNCHANGED <<log_plms, bundleVars, network_buffer, chan>>
  BY DEF GainLeadership
<1>3. /\ log_gen \in [Groups -> Nat] /\ k \in Nat /\ k # 0 /\ k # log_gen[g]
      /\ status \in [Nodes -> {"none", "leader", "retired", "panicked"}]
      /\ leader_map \in [Nodes -> [Groups -> Gens]]
      /\ inbox \in [Nodes -> Seq(Items(Messages, PLms))]
      /\ Gid(n) = g /\ Gen(n) = k
  BY NetworkAssumption DEF IndInv, NetInv, NetType, Gens, Gid, Gen
<1>4. /\ log_gen'[g] = k /\ \A h \in Groups : h # g => log_gen'[h] = log_gen[h]
      /\ inbox'[n] = <<LC>>
      /\ \A y \in Nodes : y # n => /\ status'[y] = status[y]
                                   /\ leader_map'[y] = leader_map[y]
                                   /\ inbox'[y] = <<>> /\ inbox[y] = <<>>
  BY <1>1, <1>2, <1>3 DEF Quiet
<1> HIDE DEF n, k
<1>5. \A y \in Nodes : Keeps(y)
  <2>1. NoPLm(<<>>) /\ NoPLm(<<LC>>) /\ \A x : ~OnePLm(<<>>, x)
    BY DEF NoPLm, OnePLm, LC
  <2>2. \A y \in Nodes : inbox[y] = <<>>
    BY DEF Quiet
  <2>3. \A y \in Nodes : NoPLm(inbox'[y]) /\ \A x : ~OnePLm(inbox[y], x)
    BY <1>4, <2>1, <2>2
  <2> QED
    BY <1>2, <2>3, KeepsSame DEF bundleVars
<1>6. g \in RMs => n \in RMNodes /\ rm[n] = InState("None") /\ ~ms_query[n] /\ rm[n].st = "None"
  <2>1. g \in RMs => n \in RMNodes
    BY <1>1, <1>3, NodeKinds
  <2>2. ~Active(n)
    BY <1>1 DEF Active
  <2> QED
    BY <2>1, <2>2 DEF IndInv, LogInv, InState
<1>7. Stable /\ log_plms[TM] = <<>>
  <2>1. ASSUME NEW r \in RMs, NeverPrepares(r)
        PROVE  NeverPrepares(r)'
    <3>1. CASE r = g
      <4>1. Current(r)' = n
        BY <1>4, <3>1 DEF Current, n
      <4> QED
        BY <1>2, <1>6, <2>1, <3>1, <4>1 DEF NeverPrepares, esVars
    <3>2. CASE r # g
      <4>1. Current(r)' = Current(r)
        BY <1>4, <3>2, NodeKinds DEF Current
      <4> QED
        BY <1>2, <2>1, <4>1 DEF NeverPrepares, esVars
    <3> QED
      BY <3>1, <3>2
  <2> QED
    BY <1>2, <2>1 DEF Stable, IndInv, TypeOK
<1>8. TypeOK'
  BY <1>1, <1>2 DEF IndInv, TypeOK, esVars, NetInv, NetType
<1>9. \A y \in RMNodes : Pipeline(y)' /\ Expected(y)' = Expected(y)
  <2>1. ASSUME NEW y \in RMNodes
        PROVE  Pipeline(y)' /\ Expected(y)' = Expected(y)
    <3>1. rm[y].st \in RMSt \cup Unprepared
      BY StateTypes DEF IndInv, TypeOK
    <3>2. rm'[y] = rm[y] /\ Keeps(y) /\ Pipeline(y)
      BY <1>5, NodeKinds DEF esVars, IndInv, PipelineInv
    <3> QED
      BY <3>1, <3>2, PipelineStays
  <2> QED
    BY <2>1
<1>10. PipelineInv'
  BY <1>5, <1>9, NodeKinds DEF IndInv, PipelineInv, Keeps
<1>11. LogInv'
  <2>1. ASSUME NEW y \in RMNodes
        PROVE  (IF Active(y) THEN Agrees(y) ELSE rm[y] = InState("None") /\ ~ms_query[y])'
    <3>1. y \in Nodes /\ Gid(y) \in RMs /\ Gid(y) \in Groups /\ y = <<Gid(y), Gen(y)>>
      BY NodeKinds, NodeFacts
    <3>2. CASE y = n
      BY <1>3, <1>4, <1>6, <3>1, <3>2 DEF Active, esVars
    <3>3. CASE y # n /\ ~Active(y)
      BY <1>4, <3>1, <3>3 DEF Active, IndInv, LogInv, esVars
    <3>4. CASE y # n /\ Active(y)
      <4>1. Active(y)' /\ Agrees(y) /\ Expected(y)' = Expected(y)
        BY <1>4, <1>9, <3>1, <3>4 DEF Active, IndInv, LogInv
      <4>2. CASE Gid(y) # g
        BY <1>2, <1>4, <1>7, <3>1, <4>1, <4>2 DEF Agrees, Stable
      <4>3. CASE Gid(y) = g
        <5>1. Gen(y) # k
          BY <3>1, <3>4, <4>3 DEF n
        <5>2. log_plms[g] = <<>> => (Expected(y) = <<>> => NeverPrepares(g)')
          BY <1>2, <1>4, <1>6, <3>1, <4>3 DEF NeverPrepares, Current, esVars, n
        <5>3. CASE log_gen[g] = Gen(y)
          BY <1>2, <1>4, <4>1, <4>3, <5>1, <5>2, <5>3 DEF Agrees
        <5>4. CASE log_gen[g] # Gen(y)
          BY <1>2, <1>4, <1>7, <3>1, <4>1, <4>3, <5>1, <5>4 DEF Agrees, Stable
        <5> QED
          BY <5>3, <5>4
      <4> QED
        BY <4>2, <4>3
    <3> QED
      BY <3>2, <3>3, <3>4
  <2> QED
    BY <2>1 DEF LogInv
<1>12. MessageInv'
  <2>1. \A h \in Groups, y \in Nodes : \A p \in Messages :
          UnderWayTo(h, y, p)' => UnderWayTo(h, y, p) \/ Sound(h, p)
    BY <1>1 DEF NothingSent
  <2> QED
    BY <1>7, <2>1, MessagesSound DEF IndInv
<1>13. OutcomeInv'
  BY <1>2, <1>7, StableFacts DEF IndInv, OutcomeInv, esVars
<1>14. QueryInv'
  <2>1. ASSUME NEW r \in RMs
        PROVE  PrepareFirst(r)'
    <3>1. First(r) \in Nodes /\ First(r) # n
      BY <1>3, FirstFacts
    <3>2. Range(<<>>) = {}
      BY DEF Range
    <3> QED
      BY <1>2, <1>4, <3>1, <3>2 DEF IndInv, QueryInv, PrepareFirst, esVars
  <2> QED
    BY <2>1 DEF IndInv, QueryInv, esVars
<1> QED
  BY <1>1, <1>8, <1>10, <1>11, <1>12, <1>13, <1>14 DEF IndInv, StartInv, esVars

(* A deposed leader drops its ES. *)
LEMMA LoseInv ==
  ASSUME IndInv, reply # "none", Quiet, NEW n \in Nodes, BecomeFollower(n)
  PROVE  IndInv'
<1>1. NetInv(Messages, PLms)' /\ NothingSent
  BY LoseNet DEF IndInv, BecomeFollower
<1>2. /\ log_gen[Gid(n)] > Gen(n)
      /\ next_insert[n] = NoInsert
      /\ status' = [status EXCEPT ![n] = "retired"]
      /\ leader_map' = [leader_map EXCEPT ![n] = [h \in Groups |-> 0]]
      /\ tablet_bundle' = [tablet_bundle EXCEPT ![n] = <<>>]
      /\ tablet_bundles' = [tablet_bundles EXCEPT ![n] = <<>>]
      /\ network_buffer' = [network_buffer EXCEPT ![n] = [h \in Groups |-> EmptyBuffer]]
      /\ chan' = [e \in Linked |-> IF e[2] = n THEN <<>> ELSE chan[e]]
      /\ UNCHANGED <<logVars, next_insert, inbox>>
  BY DEF BecomeFollower, LoseLeadership
<1>3. /\ tm' = IF n \in TMNodes THEN [tm EXCEPT ![n] = NoTM] ELSE tm
      /\ rm' = IF n \in RMNodes THEN [rm EXCEPT ![n] = InState("None")] ELSE rm
      /\ ms_query' = IF n \in RMNodes THEN [ms_query EXCEPT ![n] = FALSE] ELSE ms_query
      /\ reply' = reply
  BY DEF BecomeFollower
<1>4. /\ tablet_bundle'[n] = <<>> /\ tablet_bundles'[n] = <<>> /\ status'[n] = "retired"
      /\ \A y \in Nodes : y # n => /\ status'[y] = status[y]
                                   /\ leader_map'[y] = leader_map[y]
                                   /\ tablet_bundle'[y] = tablet_bundle[y]
                                   /\ tablet_bundles'[y] = tablet_bundles[y]
                                   /\ network_buffer'[y] = network_buffer[y]
  BY <1>2 DEF IndInv, NetInv, NetType
<1>5. /\ \A y \in RMNodes : y # n => rm'[y] = rm[y] /\ ms_query'[y] = ms_query[y]
      /\ n \in RMNodes => rm'[n] = InState("None") /\ ~ms_query'[n]
      /\ \A y \in TMNodes : tm'[y] \in {tm[y], NoTM}
      /\ tm' \in [TMNodes -> TMStates]
      /\ rm' \in [RMNodes -> RMStates]
      /\ ms_query' \in [RMNodes -> BOOLEAN]
  <2>1. /\ tm \in [TMNodes -> TMStates] /\ rm \in [RMNodes -> RMStates]
        /\ ms_query \in [RMNodes -> BOOLEAN]
    BY DEF IndInv, TypeOK
  <2>2. NoTM \in TMStates /\ InState("None") \in RMStates
    BY StateTypes DEF RMSt
  <2> QED
    BY <1>3, <2>1, <2>2
<1>6. \A e \in Linked : Range(chan'[e]) \subseteq Range(chan[e])
  BY <1>2 DEF Range
<1>7. TypeOK'
  BY <1>1, <1>2, <1>3, <1>5, <1>6 DEF IndInv, TypeOK, NetInv, NetType, logVars
<1>8. \A y \in Nodes : y # n => Keeps(y)
  BY <1>2, <1>4, KeepsSame
<1>9. NothingPending(n)'
  <2>1. NoPLm(<<>>) /\ NoInsert.plms = <<>>
    BY DEF NoPLm, NoInsert
  <2> QED
    BY <1>2, <1>4, <2>1 DEF NothingPending, Quiet
<1>10. \A y \in RMNodes : y # n => Pipeline(y)' /\ Expected(y)' = Expected(y)
  <2>1. ASSUME NEW y \in RMNodes, y # n
        PROVE  Pipeline(y)' /\ Expected(y)' = Expected(y)
    <3>1. rm[y].st \in RMSt \cup Unprepared
      BY StateTypes DEF IndInv, TypeOK
    <3>2. rm'[y] = rm[y] /\ Keeps(y) /\ Pipeline(y)
      BY <1>5, <1>8, <2>1, NodeKinds DEF IndInv, PipelineInv
    <3> QED
      BY <3>1, <3>2, PipelineStays
  <2> QED
    BY <2>1
<1>11. PipelineInv'
  <2>1. n \in RMNodes => Pipeline(n)'
    BY <1>5, <1>9, InsertingFacts DEF Pipeline, InState
  <2> QED
    BY <1>8, <1>9, <1>10, <2>1, NodeKinds DEF IndInv, PipelineInv, Keeps
<1>12. Stable /\ log_plms[TM] = <<>>
  <2>1. ASSUME NEW r \in RMs
        PROVE  Current(r) # n /\ Current(r) \in RMNodes
    <3>1. log_gen[r] \in Gens
      BY NodeKinds DEF IndInv, NetInv, NetType
    <3>2. log_gen[r] \in Nat /\ Gen(n) \in Nat
      BY <3>1, NodeFacts, NetworkAssumption DEF Gens
    <3> QED
      BY <1>2, <3>1, <3>2, NodeKinds DEF Current
  <2>2. \A r \in RMs : NeverPrepares(r) => NeverPrepares(r)'
    <3>1. \A r \in RMs : Current(r)' = Current(r)
      BY <1>2 DEF Current, logVars
    <3> QED
      BY <1>2, <1>5, <2>1, <3>1 DEF NeverPrepares, logVars
  <2> QED
    BY <1>2, <2>2 DEF Stable, IndInv, TypeOK, logVars
<1>13. LogInv'
  <2>1. ASSUME NEW y \in RMNodes
        PROVE  (IF Active(y) THEN Agrees(y) ELSE rm[y] = InState("None") /\ ~ms_query[y])'
    <3>1. y \in Nodes /\ Gid(y) \in RMs
      BY NodeKinds
    <3>2. CASE y = n
      BY <1>4, <1>5, <3>2 DEF Active
    <3>3. CASE y # n /\ ~Active(y)
      BY <1>2, <1>4, <1>5, <3>1, <3>3 DEF Active, IndInv, LogInv
    <3>4. CASE y # n /\ Active(y)
      <4>1. Active(y)' /\ Agrees(y) /\ Expected(y)' = Expected(y)
        BY <1>2, <1>4, <1>10, <3>1, <3>4 DEF Active, IndInv, LogInv
      <4> QED
        BY <1>2, <1>12, <3>1, <4>1 DEF Agrees, Stable, logVars
    <3> QED
      BY <3>2, <3>3, <3>4
  <2> QED
    BY <2>1 DEF LogInv
<1>14. MessageInv'
  <2>1. \A h \in Groups, y \in Nodes : \A p \in Messages :
          UnderWayTo(h, y, p)' => UnderWayTo(h, y, p) \/ Sound(h, p)
    BY <1>1 DEF NothingSent
  <2> QED
    BY <1>12, <2>1, MessagesSound DEF IndInv
<1>15. OutcomeInv'
  <2>1. RMSound(InState("None"))' /\ TMSound(NoTM)'
    BY DEF RMSound, TMSound, InState
  <2>2. \A y \in RMNodes : RMSound(rm[y])'
    BY <1>5, <1>12, <2>1, StableFacts DEF IndInv, OutcomeInv
  <2>3. \A y \in TMNodes : TMSound(tm[y])'
    BY <1>5, <1>12, <2>1, StableFacts DEF IndInv, OutcomeInv
  <2> QED
    BY <1>2, <1>3, <1>12, <2>2, <2>3, StableFacts DEF IndInv, OutcomeInv, logVars
<1>16. QueryInv'
  <2>1. ASSUME NEW r \in RMs
        PROVE  PrepareFirst(r)'
    <3>1. CASE First(r) = n
      BY <1>5, <3>1, FirstFacts DEF PrepareFirst
    <3>2. CASE First(r) # n
      <4>1. chan'[FirstQueue(r)] = chan[FirstQueue(r)]
        BY <1>2, <3>2, FirstFacts
      <4> QED
        BY <1>2, <1>3, <1>4, <1>5, <3>2, <4>1, FirstFacts DEF IndInv, QueryInv, PrepareFirst
    <3> QED
      BY <3>1, <3>2
  <2> QED
    BY <1>5, <2>1 DEF IndInv, QueryInv
<1> QED
  BY <1>1, <1>3, <1>7, <1>11, <1>13, <1>14, <1>15, <1>16 DEF IndInv, StartInv
-----------------------------------------------------------------------------
(* The Tablet hands over its bundle, and the transaction starts *)

(* The PLm is gathered, and the ES that waited for that moves on. *)
LEMMA StartInsertingInv ==
  ASSUME IndInv, reply # "none", Quiet, NEW n \in RMNodes, start_inserting(n)
  PROVE  IndInv'
<1> DEFINE waiting == rm[n].st = "WaitingInsertingPrepared"
           bundle == tablet_bundle[n] \o (IF waiting THEN <<"Prepared">> ELSE <<>>)
<1>1. /\ status[n] = "leader"
      /\ tablet_bundles[n] = <<>>
      /\ bundle # <<>>
      /\ tablet_bundles' = [tablet_bundles EXCEPT ![n] = bundle]
      /\ tablet_bundle' = [tablet_bundle EXCEPT ![n] = <<>>]
      /\ rm' = IF waiting THEN [rm EXCEPT ![n].st = "InsertingPrepared"] ELSE rm
      /\ UNCHANGED <<logVars, status, leader_map, remote_leader_changes, next_insert,
                     network_buffer, chan, inbox, tm, ms_query, reply>>
  BY DEF start_inserting
<1>2. /\ n \in Nodes /\ rm[n] \in RMStates /\ rm[n].st \in RMSt \cup Unprepared
      /\ tablet_bundle \in [Nodes -> Seq(PLms)] /\ tablet_bundles \in [Nodes -> Seq(PLms)]
      /\ rm \in [RMNodes -> RMStates]
      /\ Pipeline(n)
  BY NodeKinds, StateTypes DEF IndInv, TypeOK, NetInv, NetType, PipelineInv
<1>3. waiting => /\ tablet_bundle[n] = <<>> /\ bundle = <<"Prepared">>
                 /\ next_insert[n].plms = <<>> /\ NoPLm(inbox[n])
  <2>1. <<"Prepared">> \in Seq(PLms)
    BY DEF PLms
  <2>2. <<>> \o <<"Prepared">> = <<"Prepared">>
    BY <2>1, ConcatEmptySeq
  <2> QED
    BY <1>2, <2>2, InsertingFacts DEF Pipeline, NothingPending
<1>4. ~waiting => bundle = tablet_bundle[n]
  BY <1>2, ConcatEmptySeq
<1>5. bundle \in Seq(PLms)
  <2>1. <<"Prepared">> \in Seq(PLms)
    BY DEF PLms
  <2> HIDE DEF bundle
  <2> QED
    BY <1>2, <1>3, <1>4, <2>1
<1> HIDE DEF bundle
<1>6. NetInv(Messages, PLms)' /\ NothingSent
  BY <1>1, <1>2, <1>5, HandOverNet DEF IndInv
<1>7. /\ tablet_bundles'[n] = bundle /\ tablet_bundle'[n] = <<>>
      /\ \A y \in Nodes : y # n => /\ tablet_bundle'[y] = tablet_bundle[y]
                                   /\ tablet_bundles'[y] = tablet_bundles[y]
  BY <1>1, <1>2
<1>8. /\ \A y \in RMNodes : y # n => rm'[y] = rm[y]
      /\ waiting => rm'[n].st = "InsertingPrepared"
      /\ ~waiting => rm' = rm
      /\ rm' \in [RMNodes -> RMStates]
  <2>1. [rm[n] EXCEPT !.st = "InsertingPrepared"].st = "InsertingPrepared"
    BY <1>2 DEF RMStates
  <2>2. waiting => [rm[n] EXCEPT !.st = "InsertingPrepared"] \in RMStates
    BY <1>2 DEF RMStates, RMSt, Unprepared
  <2> QED
    BY <1>1, <1>2, <2>1, <2>2
<1>9. \A y \in Nodes : y # n => Keeps(y)
  BY <1>1, <1>7, KeepsSame
<1>10. Pipeline(n)' /\ Expected(n)' = Expected(n)
  <2>1. CASE waiting
    <3>1. Gathered(n, "Prepared")'
      BY <1>1, <1>3, <1>7, <2>1 DEF Gathered
    <3>2. ~Persisted(n, "Prepared")'
      BY <3>1, OnePlace
    <3>3. rm'[n].st = "InsertingPrepared" /\ Inserting(rm'[n].st) = "Prepared"
      BY <1>8, <2>1, InsertingFacts
    <3>4. Pipeline(n)'
      BY <3>1, <3>3, InsertingFacts DEF Pipeline, None
    <3>5. Expected(n)' = <<>>
      BY <3>2, <3>3 DEF Expected, Logged
    <3>6. Expected(n) = <<>>
      BY <2>1, ExpectedFacts
    <3> QED
      BY <3>4, <3>5, <3>6
  <2>2. CASE ~waiting
    <3>1. tablet_bundle[n] # <<>> /\ bundle = tablet_bundle[n]
      BY <1>1, <1>4, <2>2
    <3>2. Keeps(n)
      BY <1>1, <1>7, <3>1 DEF Keeps, NothingPending, Gathered, Persisted
    <3> QED
      BY <1>2, <1>8, <2>2, <3>2, PipelineStays
  <2> QED
    BY <2>1, <2>2
<1>11. \A y \in RMNodes : Pipeline(y)' /\ Expected(y)' = Expected(y)
  <2>1. ASSUME NEW y \in RMNodes, y # n
        PROVE  Pipeline(y)' /\ Expected(y)' = Expected(y)
    <3>1. rm[y].st \in RMSt \cup Unprepared
      BY StateTypes DEF IndInv, TypeOK
    <3>2. rm'[y] = rm[y] /\ Keeps(y) /\ Pipeline(y)
      BY <1>8, <1>9, <2>1, NodeKinds DEF IndInv, PipelineInv
    <3> QED
      BY <3>1, <3>2, PipelineStays
  <2> QED
    BY <1>10, <2>1
<1>12. PipelineInv'
  BY <1>2, <1>9, <1>11, NodeKinds DEF IndInv, PipelineInv, Keeps
<1>13. TypeOK'
  BY <1>1, <1>6, <1>8 DEF IndInv, TypeOK, NetInv, NetType, logVars
<1>14. \A r \in RMs : NeverPrepares(r) => NeverPrepares(r)'
  <2>1. ASSUME NEW r \in RMs, NeverPrepares(r)
        PROVE  rm'[Current(r)].st = "None"
    <3>1. log_gen[r] \in Gens /\ Current(r) \in RMNodes
      BY NodeKinds DEF IndInv, NetInv, NetType, Current
    <3> QED
      BY <1>8, <2>1, <3>1 DEF NeverPrepares
  <2> QED
    BY <1>1, <2>1 DEF NeverPrepares, Current, logVars
<1>15. MessageInv'
  <2>1. \A g \in Groups, y \in Nodes : \A p \in Messages :
          UnderWayTo(g, y, p)' => UnderWayTo(g, y, p) \/ Sound(g, p)
    BY <1>6 DEF NothingSent
  <2>2. Stable /\ log_plms[TM] = <<>>
    BY <1>1, <1>14 DEF Stable, IndInv, TypeOK, logVars
  <2> QED
    BY <2>1, <2>2, MessagesSound DEF IndInv
<1>16. QueryInv'
  <2>1. ASSUME NEW r \in RMs
        PROVE  PrepareFirst(r)'
    <3>1. rm[First(r)].st = "None" => rm'[First(r)].st = "None"
      BY <1>8, FirstFacts
    <3> QED
      BY <1>1, <3>1 DEF IndInv, QueryInv, PrepareFirst
  <2> QED
    BY <1>1, <2>1 DEF IndInv, QueryInv
<1>17. \A y \in RMNodes : /\ Active(y) => inbox'[y] # <<LC>> /\ Expected(y)' = Expected(y)
                          /\ ~Active(y) => ~Active(y)' /\ rm'[y] = rm[y]
  <2>1. \A y \in RMNodes : Active(y) <=> Active(y)'
    BY <1>1 DEF Active
  <2>2. Active(n)
    <3>1. <<LC>> # <<>>
      OBVIOUS
    <3> QED
      BY <1>1, <1>2, <3>1 DEF Active, Quiet
  <2> QED
    BY <1>8, <1>11, <2>1, <2>2 DEF Active
<1>18. Stable /\ log_plms[TM] = <<>>
  BY <1>1, <1>14 DEF Stable, IndInv, TypeOK, logVars
<1>19. \A y \in RMNodes : RMSound(rm[y])'
  <2>1. waiting => RMSound(rm[n])'
    BY <1>8 DEF RMSound
  <2>2. \A y \in RMNodes : rm'[y] = rm[y] => RMSound(rm[y])'
    BY <1>18, StableFacts DEF IndInv, OutcomeInv
  <2> QED
    BY <1>8, <2>1, <2>2
<1>20. \A t \in TMNodes : TMSound(tm[t])'
  BY <1>1, <1>18, StableFacts DEF IndInv, OutcomeInv
<1>21. /\ reply' # "none" /\ (reply' = "committed" => AllPrepared) /\ (reply' = "retried" => Doomed)
       /\ \A y \in RMNodes : ms_query'[y] => ms_query[y]
       /\ UNCHANGED <<log_gen, log_plms, status>>
  BY <1>1 DEF IndInv, OutcomeInv, logVars
<1> QED
  BY <1>6, <1>12, <1>13, <1>14, <1>15, <1>16, <1>17, <1>19, <1>20, <1>21, Preserve

(* The messages that the TM sends, and those that it gets. *)
LEMMA MessageTypes ==
  /\ \A type \in {"Prepare", "CheckPrepared", "Commit", "Abort"} :
       Msg(type) \in RMMessage /\ Msg(type) \in Messages /\ Msg(type).type = type
  /\ \A type \in {"Prepared", "InformPrepared", "Wait", "Aborted"} :
       Msg(type) \in TMMessage /\ Msg(type) \in Messages /\ Msg(type).type = type
BY DEF Msg, RMMessage, TMMessage, Messages

(* The client's request is started: Prepare is the first message of every  *)
(* queue.                                                                  *)
LEMMA StartInvariant ==
  ASSUME IndInv, NEW n \in TMNodes, start_orig(n)
  PROVE  IndInv'
<1> DEFINE out == ToRMs(RMs, "Prepare")
           es == [st |-> "Preparing", rms_remaining |-> RMs, response_data |-> TRUE]
<1>1. /\ status[n] = "leader"
      /\ reply = "none" /\ reply' = "waiting"
      /\ leader_map' = leader_map
      /\ tm' = [tm EXCEPT ![n] = es]
      /\ chan' = Outgoing(n, chan, out)
      /\ UNCHANGED <<logVars, status, bundleVars, network_buffer, inbox, rm, ms_query>>
  BY DEF start_orig, TMBecomes
<1>2. NetInit
  BY <1>1 DEF IndInv, StartInv
<1>3. n \in Nodes /\ n = <<TM, 0>>
  BY <1>1, <1>2, NodeKinds, NodeFacts DEF NetInit
<1>4. DOMAIN out = RMs /\ \A h \in RMs : out[h] = Msg("Prepare")
  BY DEF ToRMs
<1>5. chan \in [Linked -> Seq(Messages)] /\ \A e \in Linked : chan[e] = <<>>
  BY <1>2 DEF NetInit, IndInv, NetInv, NetType
<1> HIDE DEF out
<1>6. /\ chan' \in [Linked -> Seq(Messages)]
      /\ \A e \in Linked : \A p \in Range(chan'[e]) :
           p \in Range(chan[e]) \/ (e[1] = n /\ p = Msg("Prepare"))
  <2>1. out \in [RMs -> Messages]
    BY MessageTypes DEF out, ToRMs
  <2>2. /\ chan' \in [Linked -> Seq(Messages)]
        /\ \A e \in Linked : \A p \in Range(chan'[e]) :
             p \in Range(chan[e]) \/ (e[1] = n /\ Gid(e[2]) \in RMs /\ p = out[Gid(e[2])])
    <3>1. PICK q \in [Linked -> Seq(Messages)] : q = chan
      BY <1>5
    <3>2. PICK o \in [RMs -> Messages] : o = out
      BY <2>1
    <3>3. chan' = Outgoing(n, q, o)
      BY <1>1, <3>1, <3>2 DEF Outgoing
    <3>4. chan' \in [Linked -> Seq(Messages)] /\ SendsOnly(n, q, RMs, o)
      BY <3>3, OutgoingFacts, Zenon
    <3> QED
      BY <3>1, <3>2, <3>4 DEF SendsOnly
  <2> QED
    BY <1>4, <2>2
<1>7. NetInv(Messages, PLms)'
  BY <1>1, <1>6, SendNet DEF IndInv
<1>8. es \in TMStates /\ tm' \in [TMNodes -> TMStates]
  BY <1>1, NodeKinds DEF TMStates, IndInv, TypeOK
<1>9. TypeOK'
  <2>1. Msg("Prepare") \in RMMessage
    BY MessageTypes
  <2>2. \A e \in Linked :
          Range(chan'[e]) \subseteq (IF e[1] \in TMNodes THEN RMMessage ELSE TMMessage)
    BY <1>6, <2>1 DEF IndInv, TypeOK
  <2> QED
    BY <1>1, <1>8, <2>2 DEF IndInv, TypeOK, logVars
<1>10. \A y \in Nodes : Keeps(y)
  BY <1>1, KeepsSame DEF bundleVars
<1>11. \A y \in RMNodes : Pipeline(y)' /\ Expected(y)' = Expected(y)
  <2>1. ASSUME NEW y \in RMNodes
        PROVE  Pipeline(y)' /\ Expected(y)' = Expected(y)
    <3>1. rm[y].st \in RMSt \cup Unprepared
      BY StateTypes DEF IndInv, TypeOK
    <3>2. rm'[y] = rm[y] /\ Keeps(y) /\ Pipeline(y)
      BY <1>1, <1>10, NodeKinds DEF IndInv, PipelineInv
    <3> QED
      BY <3>1, <3>2, PipelineStays
  <2> QED
    BY <2>1
<1>12. PipelineInv'
  BY <1>10, <1>11, NodeKinds DEF IndInv, PipelineInv, Keeps
<1>13. \A r \in RMs : NeverPrepares(r) => NeverPrepares(r)'
  BY <1>1 DEF NeverPrepares, Current, logVars
<1>14. Stable /\ log_plms[TM] = <<>>
  BY <1>1, <1>13 DEF Stable, IndInv, TypeOK, logVars
<1>15. MessageInv'
  <2>1. \A g : Sound(g, Msg("Prepare"))
    BY DEF Sound, Msg
  <2>2. \A g \in Groups, y \in Nodes : \A p \in Messages :
          UnderWayTo(g, y, p)' => UnderWayTo(g, y, p) \/ Sound(g, p)
    BY <1>1, <1>6, <2>1 DEF UnderWayTo
  <2> QED
    BY <1>14, <2>2, MessagesSound DEF IndInv
<1>16. QueryInv'
  <2>1. ASSUME NEW r \in RMs
        PROVE  chan'[FirstQueue(r)] # <<>> /\ Head(chan'[FirstQueue(r)]) = Msg("Prepare")
    <3>1. chan'[FirstQueue(r)] = Append(<<>>, Msg("Prepare"))
      <4>1. status[First(r)] = "leader" /\ leader_map'[n][r] = 0
        BY <1>1, <1>2, <1>3, FirstFacts, NodeKinds DEF NetInit
      <4> QED
        BY <1>1, <1>3, <1>4, <1>5, <4>1, FirstFacts DEF Outgoing
    <3>2. Append(<<>>, Msg("Prepare")) # <<>> /\ Head(Append(<<>>, Msg("Prepare"))) = Msg("Prepare")
      OBVIOUS
    <3> QED
      BY <3>1, <3>2
  <2>2. \A r \in RMs : PrepareFirst(r)'
    BY <1>1, <2>1 DEF IndInv, QueryInv, PrepareFirst
  <2> QED
    BY <1>1, <2>2 DEF IndInv, QueryInv
<1>17. \A y \in RMNodes : /\ Active(y) => inbox'[y] # <<LC>> /\ Expected(y)' = Expected(y)
                          /\ ~Active(y) => ~Active(y)' /\ rm'[y] = rm[y]
  BY <1>1, <1>11 DEF Active
<1>18. \A y \in RMNodes : RMSound(rm[y])'
  BY <1>1, <1>14, StableFacts DEF IndInv, OutcomeInv
<1>19. \A t \in TMNodes : TMSound(tm[t])'
  <2>1. TMSound(es)'
    BY DEF TMSound
  <2>2. \A t \in TMNodes : tm'[t] \in {tm[t], es}
    BY <1>1 DEF IndInv, TypeOK
  <2> HIDE DEF es
  <2> QED
    BY <1>14, <2>1, <2>2, StableFacts DEF IndInv, OutcomeInv
<1>20. /\ reply' # "none" /\ reply' # "committed" /\ reply' # "retried"
       /\ \A y \in RMNodes : ms_query'[y] => ms_query[y]
       /\ UNCHANGED <<log_gen, log_plms, status>>
  BY <1>1 DEF logVars
<1> QED
  BY <1>7, <1>9, <1>12, <1>13, <1>15, <1>16, <1>17, <1>18, <1>19, <1>20, Preserve
-----------------------------------------------------------------------------
(* Handling an input *)

(* A handler sends nothing, or out to the groups G. *)
Sends(n, q, out) == chan' = q \/ chan' = Outgoing(n, q, out)

MessagesOf(n) == IF n \in TMNodes THEN RMMessage ELSE TMMessage

(* What a handler sends is all that is new. *)
LEMMA HandlerSends ==
  ASSUME IndInv, NEW n \in Nodes, NEW in \in Inputs(n),
         inbox' = [inbox EXCEPT ![n] = in.rest], UNCHANGED network_buffer,
         NEW G, NEW out \in [G -> MessagesOf(n)], Sends(n, in.queues, out)
  PROVE  /\ chan' \in [Linked -> Seq(Messages)]
         /\ HeadsStay(in.queues)
         /\ \A e \in Linked :
              Range(chan'[e]) \subseteq (IF e[1] \in TMNodes THEN RMMessage ELSE TMMessage)
         /\ \A g \in Groups, x \in Nodes : \A p :
              UnderWayTo(g, x, p)' =>
                UnderWayTo(g, x, p) \/ (g = Gid(n) /\ Gid(x) \in G /\ p = out[Gid(x)])
<1>1. /\ in.queues \in [Linked -> Seq(Messages)]
      /\ \A e \in Linked : Range(in.queues[e]) \subseteq Range(chan[e])
  BY InputFacts DEF IndInv
<1>2. out \in [G -> Messages] /\ \A h \in G : out[h] \in MessagesOf(n)
  BY DEF MessagesOf, Messages
<1>3. chan' \in [Linked -> Seq(Messages)] /\ SendsOnly(n, in.queues, G, out) /\ HeadsStay(in.queues)
  <2>1. CASE chan' = in.queues
    BY <1>1, <2>1 DEF SendsOnly, HeadsStay
  <2>2. CASE chan' = Outgoing(n, in.queues, out)
    BY <1>1, <1>2, <2>2, OutgoingFacts, Zenon
  <2> QED
    BY <2>1, <2>2 DEF Sends
<1>4. \A e \in Linked :
        Range(chan'[e]) \subseteq (IF e[1] \in TMNodes THEN RMMessage ELSE TMMessage)
  <2>1. \A e \in Linked :
          Range(chan[e]) \subseteq (IF e[1] \in TMNodes THEN RMMessage ELSE TMMessage)
    BY DEF IndInv, TypeOK
  <2>2. ASSUME NEW e \in Linked, NEW p \in Range(chan'[e])
        PROVE  p \in (IF e[1] \in TMNodes THEN RMMessage ELSE TMMessage)
    <3>1. CASE p \in Range(in.queues[e])
      BY <1>1, <2>1, <3>1
    <3>2. CASE e[1] = n /\ Gid(e[2]) \in G /\ p = out[Gid(e[2])]
      BY <1>2, <3>2 DEF MessagesOf
    <3> QED
      BY <1>3, <2>2, <3>1, <3>2 DEF SendsOnly
  <2> QED
    BY <2>2
<1>5. \A g \in Groups, x \in Nodes : \A p :
        UnderWayTo(g, x, p)' =>
          UnderWayTo(g, x, p) \/ (g = Gid(n) /\ Gid(x) \in G /\ p = out[Gid(x)])
  <2> DEFINE Out == {<<h, out[h]>> : h \in G}
  <2>1. \A h, p : <<h, p>> \in Out <=> h \in G /\ p = out[h]
    OBVIOUS
  <2>2. \A e \in Linked : \A p \in Range(chan'[e]) :
          p \in Range(in.queues[e]) \/ (e[1] = n /\ <<Gid(e[2]), p>> \in Out)
    BY <1>3, <2>1 DEF SendsOnly
  <2> HIDE DEF Out
  <2>3. \A g \in Groups, x \in Nodes : \A p :
          UnderWayTo(g, x, p)' =>
            UnderWayTo(g, x, p) \/ (g = Gid(n) /\ <<Gid(x), p>> \in Out)
    BY <2>2, HandleSends DEF IndInv
  <2> QED
    BY <2>1, <2>3
<1> QED
  BY <1>3, <1>4, <1>5

(* An RM that still has its MSQueryES handles no message but Prepare, and  *)
(* only that of the first TM.                                              *)
LEMMA PrepareIsFirst ==
  ASSUME IndInv, reply # "none", NEW n \in RMNodes, NEW in \in Inputs(n), ms_query[n],
         in.item.type = "Payload"
  PROVE  in.item.payload = Msg("Prepare")
<1>1. n \in Nodes /\ Gid(n) \in RMs /\ Gen(n) = 0 /\ n = First(Gid(n))
  BY NodeKinds, NodeFacts DEF IndInv, QueryInv, First
<1>2. PrepareFirst(Gid(n))
  BY <1>1 DEF IndInv, QueryInv
<1>3. /\ leader_map[n][TM] = 0
      /\ \A item \in Range(inbox[n]) : item.type # "Payload"
      /\ \/ network_buffer[n][TM].payloads # <<>>
         \/ chan[FirstQueue(Gid(n))] # <<>> /\ Head(chan[FirstQueue(Gid(n))]) = Msg("Prepare")
  BY <1>1, <1>2 DEF PrepareFirst
<1>4. CASE IsForwarded(n, in)
  <2>1. in.item \in Range(inbox[n])
    BY <1>1, <1>4, RangeTail DEF IsForwarded, IndInv, NetInv, NetType
  <2> QED
    BY <1>3, <2>1
<1>5. CASE IsDelivered(n, in)
  <2>1. PICK e \in Linked : /\ e[2] = n /\ Delivers(n, e[1])
                            /\ in.item = Payload(Gid(e[1]), Head(chan[e]))
    BY <1>5 DEF IsDelivered
  <2>2. e[1] \in Nodes /\ e = <<e[1], n>> /\ <<Gid(e[1]), Gid(n)>> \in Links
    BY <2>1, LinkedFacts
  <2>3. Gid(e[1]) = TM
    BY <1>1, <2>2, NodeKinds
  <2>4. Gen(e[1]) = 0 /\ network_buffer[n][TM].payloads = <<>>
    BY <1>3, <2>1, <2>3 DEF Delivers
  <2>5. e[1] = <<TM, 0>>
    BY <2>2, <2>3, <2>4, NodeFacts
  <2>6. e = FirstQueue(Gid(n))
    BY <1>1, <2>2, <2>5, FirstFacts
  <2> QED
    BY <1>3, <2>1, <2>4, <2>6 DEF Payload
<1> QED
  BY <1>1, <1>4, <1>5, InputSource

(* So Prepare stays the first message to come, as long as the MSQueryES is *)
(* there.                                                                  *)
LEMMA HandleQuery ==
  ASSUME IndInv, reply # "none", NEW n \in Nodes, NEW in \in Inputs(n),
         inbox' = [inbox EXCEPT ![n] = in.rest], UNCHANGED network_buffer,
         HeadsStay(in.queues),
         \A y \in Nodes : y # n => leader_map'[y] = leader_map[y],
         \A y \in RMNodes : y # n => rm'[y] = rm[y],
         \A y \in RMNodes : ms_query'[y] => ms_query[y],
         n \in RMNodes /\ ms_query'[n] => /\ in.item.type # "Payload"
                                          /\ rm'[n].st = "None"
                                          /\ leader_map'[n][TM] = leader_map[n][TM]
  PROVE  QueryInv'
<1>1. \A y \in RMNodes : Gen(y) # 0 => ~ms_query'[y]
  BY DEF IndInv, QueryInv
<1>2. ASSUME NEW r \in RMs
      PROVE  PrepareFirst(r)'
  <2> DEFINE f == First(r)
             e == FirstQueue(r)
  <2>1. f \in RMNodes /\ f \in Nodes /\ e \in Linked /\ e[2] = f
    BY FirstFacts
  <2> SUFFICES ASSUME ms_query'[f]
               PROVE  /\ rm'[f].st = "None"
                      /\ leader_map'[f][TM] = 0
                      /\ \A item \in Range(inbox'[f]) : item.type # "Payload"
                      /\ \/ network_buffer'[f][TM].payloads # <<>>
                         \/ chan'[e] # <<>> /\ Head(chan'[e]) = Msg("Prepare")
    BY DEF PrepareFirst
  <2>2. /\ rm[f].st = "None"
        /\ leader_map[f][TM] = 0
        /\ \A item \in Range(inbox[f]) : item.type # "Payload"
        /\ \/ network_buffer[f][TM].payloads # <<>>
           \/ chan[e] # <<>> /\ Head(chan[e]) = Msg("Prepare")
    BY <2>1 DEF IndInv, QueryInv, PrepareFirst
  <2>3. rm'[f].st = "None" /\ leader_map'[f][TM] = 0
    BY <2>1, <2>2
  <2>4. Range(inbox'[f]) \subseteq Range(inbox[f])
    <3>1. Range(in.rest) \subseteq Range(inbox[n])
      BY InputFacts DEF IndInv
    <3> QED
      BY <2>1, <3>1 DEF IndInv, NetInv, NetType
  <2>5. in.queues[e] = chan[e]
    <3>1. CASE IsForwarded(n, in)
      BY <3>1 DEF IsForwarded
    <3>2. CASE IsDelivered(n, in)
      <4>1. PICK d \in Linked : /\ d[2] = n /\ in.queues = [chan EXCEPT ![d] = Tail(@)]
                                /\ in.item = Payload(Gid(d[1]), Head(chan[d]))
        BY <3>2 DEF IsDelivered
      <4>2. in.item.type = "Payload"
        BY <4>1 DEF Payload
      <4>3. f # n
        BY <2>1, <4>2
      <4>4. d # e
        BY <2>1, <4>1, <4>3
      <4> QED
        BY <2>1, <4>1, <4>4 DEF IndInv, NetInv, NetType
    <3> QED
      BY <3>1, <3>2, InputSource
  <2>6. chan[e] # <<>> => chan'[e] # <<>> /\ Head(chan'[e]) = Head(chan[e])
    BY <2>1, <2>5 DEF HeadsStay
  <2> QED
    BY <2>2, <2>3, <2>4, <2>6
<1> QED
  BY <1>1, <1>2 DEF QueryInv

(* What a handler of the TM does keeps the invariant if the decision, if   *)
(* it takes one, is sound.                                                 *)
LEMMA TMResultInv ==
  ASSUME IndInv, reply # "none", NEW n \in TMNodes, NEW in \in Inputs(n),
         inbox' = [inbox EXCEPT ![n] = in.rest],
         \/ leader_map' = leader_map
         \/ /\ in.item.type = "RemoteLeaderChanged"
            /\ leader_map' = [leader_map EXCEPT ![n] = RemoteLeaderChanged(@, in.item)],
         UNCHANGED <<logVars, status, bundleVars, network_buffer, rm, ms_query>>,
         NEW G \in SUBSET RMs, NEW type \in {"Prepare", "CheckPrepared", "Commit", "Abort"},
         Sends(n, in.queues, ToRMs(G, type)),
         NEW es \in TMStates, tm' = [tm EXCEPT ![n] = es],
         TMSound(es),
         type = "Commit" => AllPrepared,
         type = "Abort" => Doomed,
         reply' \in {"waiting", "committed", "retried"},
         reply' = "committed" => AllPrepared,
         reply' = "retried" => Doomed
  PROVE  IndInv'
<1>1. n \in Nodes /\ n \notin RMNodes /\ Gid(n) = TM
  BY NodeKinds
<1>2. ToRMs(G, type) \in [G -> MessagesOf(n)] /\ \A h \in G : ToRMs(G, type)[h] = Msg(type)
  BY MessageTypes DEF ToRMs, MessagesOf
<1>3. PICK out \in [G -> MessagesOf(n)] : out = ToRMs(G, type)
  BY <1>2
<1>4. Sends(n, in.queues, out) /\ \A h \in G : out[h] = Msg(type)
  BY <1>2, <1>3 DEF Sends, Outgoing
<1>5. /\ chan' \in [Linked -> Seq(Messages)]
      /\ HeadsStay(in.queues)
      /\ \A e \in Linked :
           Range(chan'[e]) \subseteq (IF e[1] \in TMNodes THEN RMMessage ELSE TMMessage)
      /\ \A g \in Groups, x \in Nodes : \A p :
           UnderWayTo(g, x, p)' =>
             UnderWayTo(g, x, p) \/ (g = Gid(n) /\ Gid(x) \in G /\ p = out[Gid(x)])
  BY <1>1, <1>4, HandlerSends
<1>6. /\ NetInv(Messages, PLms)'
      /\ \A x \in Nodes : inbox'[x] = IF x = n THEN in.rest ELSE inbox[x]
  <2>1. tablet_bundle' \in [Nodes -> Seq(PLms)] /\ tablet_bundle' = tablet_bundle
    BY DEF IndInv, NetInv, NetType, bundleVars
  <2>2. NetInv(Messages, PLms)
    BY DEF IndInv
  <2>3. HandlesInput(n, in)
    BY <2>1 DEF HandlesInput, HandlesAt, bundleVars
  <2>4. NetInv(Messages, PLms)'
    BY <1>1, <1>5, <2>1, <2>2, <2>3, HandleNet
  <2> QED
    BY <2>2, <2>4 DEF NetInv, NetType
<1>7. tm' \in [TMNodes -> TMStates] /\ \A t \in TMNodes : tm'[t] \in {tm[t], es}
  BY DEF IndInv, TypeOK
<1>8. TypeOK'
  BY <1>5, <1>6, <1>7 DEF IndInv, TypeOK, NetInv, NetType, logVars
<1>9. \A y \in Nodes : Keeps(y)
  <2>1. NoPLm(inbox[n]) /\ NoPLm(in.rest)
    <3>1. NoPLm(inbox[n]) => NoPLm(in.rest)
      BY <1>1, InputFacts DEF IndInv
    <3> QED
      BY <3>1 DEF IndInv, PipelineInv, NothingPending
  <2>2. \A x : ~OnePLm(inbox[n], x)
    BY <2>1, OnePLmSome
  <2> QED
    BY <1>6, <2>1, <2>2, KeepsSame DEF bundleVars
<1>10. \A y \in RMNodes : Pipeline(y)' /\ Expected(y)' = Expected(y)
  <2>1. ASSUME NEW y \in RMNodes
        PROVE  Pipeline(y)' /\ Expected(y)' = Expected(y)
    <3>1. rm[y].st \in RMSt \cup Unprepared
      BY StateTypes DEF IndInv, TypeOK
    <3>2. rm'[y] = rm[y] /\ Keeps(y) /\ Pipeline(y)
      BY <1>9, NodeKinds DEF IndInv, PipelineInv
    <3> QED
      BY <3>1, <3>2, PipelineStays
  <2> QED
    BY <2>1
<1>11. PipelineInv'
  BY <1>9, <1>10, NodeKinds DEF IndInv, PipelineInv, Keeps
<1>12. \A r \in RMs : NeverPrepares(r) => NeverPrepares(r)'
  BY DEF NeverPrepares, Current, logVars
<1>13. Stable /\ log_plms[TM] = <<>>
  BY <1>12 DEF Stable, IndInv, TypeOK, logVars
<1>14. MessageInv'
  <2>1. \A g : Sound(g, Msg(type))
    BY DEF Sound, Msg
  <2>2. \A g \in Groups, x \in Nodes : \A p \in Messages :
          UnderWayTo(g, x, p)' => UnderWayTo(g, x, p) \/ Sound(g, p)
    BY <1>4, <1>5, <2>1
  <2> QED
    BY <1>13, <2>2, MessagesSound DEF IndInv
<1>15. QueryInv'
  <2>1. \A y \in Nodes : y # n => leader_map'[y] = leader_map[y]
    BY DEF IndInv, NetInv, NetType
  <2> QED
    BY <1>1, <1>5, <2>1, HandleQuery
<1>16. \A y \in RMNodes : /\ Active(y) => inbox'[y] # <<LC>> /\ Expected(y)' = Expected(y)
                          /\ ~Active(y) => ~Active(y)' /\ rm'[y] = rm[y]
  BY <1>1, <1>6, <1>10, NodeKinds DEF Active
<1>17. \A y \in RMNodes : RMSound(rm[y])'
  BY <1>13, StableFacts DEF IndInv, OutcomeInv
<1>18. \A t \in TMNodes : TMSound(tm[t])'
  BY <1>7, <1>13, StableFacts DEF IndInv, OutcomeInv
<1>19. /\ reply' # "none"
       /\ \A y \in RMNodes : ms_query'[y] => ms_query[y]
       /\ UNCHANGED <<log_gen, log_plms, status>>
  BY DEF logVars
<1> QED
  BY <1>6, <1>8, <1>11, <1>12, <1>14, <1>15, <1>16, <1>17, <1>18, <1>19, Preserve

(* Every handler of the TM is sound: it commits when the last RM is        *)
(* prepared, and aborts when one never will be.                            *)
LEMMA TMInv ==
  ASSUME IndInv, reply # "none", NEW n \in TMNodes, HandleTMInput(n)
  PROVE  IndInv'
<1>1. PICK in \in Inputs(n) :
        /\ inbox' = [inbox EXCEPT ![n] = in.rest]
        /\ \/ /\ in.item.type = "LeaderChanged"
              /\ UNCHANGED leader_map
              /\ TMUnchanged(in.queues)
           \/ /\ in.item.type = "RemoteLeaderChanged"
              /\ leader_map' = [leader_map EXCEPT ![n] = RemoteLeaderChanged(@, in.item)]
              /\ IF leader_map' # leader_map
                 THEN tm_remote_leader_changed(n, in.queues, in.item.gid)
                 ELSE TMUnchanged(in.queues)
           \/ /\ in.item.type = "Payload"
              /\ UNCHANGED leader_map
              /\ handle_tm_msg(n, in.queues, in.item.from, in.item.payload)
        /\ UNCHANGED <<logVars, status, bundleVars, network_buffer, rm, ms_query>>
  BY DEF HandleTMInput
<1> DEFINE q == in.queues
           r == in.item.from
           m == in.item.payload
<1>2. /\ n \in Nodes
      /\ tm \in [TMNodes -> TMStates] /\ tm[n] \in TMStates
      /\ tm[n].rms_remaining \subseteq RMs
      /\ reply \in {"waiting", "committed", "retried"}
      /\ TMSound(tm[n])
      /\ reply = "committed" => AllPrepared
      /\ reply = "retried" => Doomed
      /\ {} \in SUBSET RMs /\ RMs \in SUBSET RMs
  BY NodeKinds, StateTypes DEF IndInv, TypeOK, OutcomeInv
<1>3. ASSUME NEW G \in SUBSET RMs, NEW type \in {"Prepare", "CheckPrepared", "Commit", "Abort"},
             Sends(n, q, ToRMs(G, type)),
             NEW es \in TMStates, tm' = [tm EXCEPT ![n] = es],
             TMSound(es),
             type = "Commit" => AllPrepared,
             type = "Abort" => Doomed,
             reply' \in {"waiting", "committed", "retried"},
             reply' = "committed" => AllPrepared,
             reply' = "retried" => Doomed
      PROVE  IndInv'
  BY <1>1, <1>3, TMResultInv
<1>4. TMUnchanged(q) => IndInv'
  <2>1. ASSUME TMUnchanged(q)
        PROVE  IndInv'
    <3>1. Sends(n, q, ToRMs({}, "Prepare")) /\ tm' = [tm EXCEPT ![n] = tm[n]] /\ reply' = reply
      BY <1>2, <2>1 DEF TMUnchanged, Sends
    <3> QED
      BY <1>2, <1>3, <3>1
  <2> QED
    BY <2>1
<1>5. ASSUME in.item.type = "RemoteLeaderChanged",
             tm_remote_leader_changed(n, q, in.item.gid)
      PROVE  IndInv'
  <2> DEFINE g == in.item.gid
             type == IF tm[n].st = "Preparing" THEN "Prepare" ELSE "CheckPrepared"
  <2>1. CASE g \notin tm[n].rms_remaining
    BY <1>4, <1>5, <2>1 DEF tm_remote_leader_changed
  <2>2. CASE g \in tm[n].rms_remaining
    <3>1. /\ tm' = [tm EXCEPT ![n] = tm[n]] /\ reply' = reply
          /\ Sends(n, q, ToRMs({g}, type))
          /\ {g} \in SUBSET RMs
      BY <1>2, <1>5, <2>2 DEF tm_remote_leader_changed, TMBecomes, Sends
    <3>2. type \in {"Prepare", "CheckPrepared"}
      OBVIOUS
    <3> HIDE DEF type
    <3> QED
      BY <1>2, <1>3, <3>1, <3>2
  <2> QED
    BY <2>1, <2>2
<1>6. ASSUME in.item.type = "Payload", handle_tm_msg(n, q, r, m)
      PROVE  IndInv'
  <2>1. /\ r \in Groups /\ <<r, TM>> \in Links /\ UnderWayTo(r, n, m) /\ m \in Messages
    <3>1. /\ r \in Groups
          /\ <<r, Gid(n)>> \in Links
          /\ UnderWayTo(r, n, m)
          /\ in.item \in Items(Messages, PLms)
      BY <1>2, <1>6, InputFacts DEF IndInv
    <3>2. m \in Messages
      BY <1>6, <3>1 DEF Items, RLCs, Unblocks, PLmItems, PayloadItems, LC
    <3> QED
      BY <3>1, <3>2, NodeKinds
  <2>2. r \in RMs /\ Sound(r, m)
    BY <1>2, <2>1, NodeKinds DEF IndInv, MessageInv
  <2>3. ASSUME start_rec(n, q)
        PROVE  IndInv'
    <3> DEFINE es == [st |-> "CheckingPrepared", rms_remaining |-> RMs, response_data |-> FALSE]
    <3>1. es \in TMStates /\ TMSound(es)
      BY NodeKinds DEF TMStates, TMSound
    <3>2. /\ tm' = [tm EXCEPT ![n] = es] /\ reply' = reply
          /\ Sends(n, q, ToRMs(RMs, "CheckPrepared"))
      BY <2>3 DEF start_rec, TMBecomes, Sends
    <3> HIDE DEF es
    <3> QED
      BY <1>2, <1>3, <3>1, <3>2
  <2>4. ASSUME NEW type \in {"Commit", "Abort"}, NEW answer \in {"committed", "retried"},
               Decide(n, q, type, answer),
               type = "Commit" => AllPrepared, type = "Abort" => Doomed,
               answer = "committed" => AllPrepared, answer = "retried" => Doomed
        PROVE  IndInv'
    <3>1. NoTM \in TMStates /\ TMSound(NoTM)
      BY StateTypes DEF TMSound
    <3>2. /\ tm' = [tm EXCEPT ![n] = NoTM]
          /\ reply' \in {answer, reply}
          /\ Sends(n, q, ToRMs(RMs, type))
      BY <2>4 DEF Decide, TMBecomes, Sends
    <3>3. /\ reply' \in {"waiting", "committed", "retried"}
          /\ reply' = "committed" => AllPrepared
          /\ reply' = "retried" => Doomed
      BY <1>2, <2>4, <3>2
    <3> QED
      BY <1>2, <1>3, <2>4, <3>1, <3>2, <3>3
  <2>5. ASSUME tm[n] # NoTM, m.type = "Prepared", handle_prepared(n, q, r)
        PROVE  IndInv'
    <3> DEFINE remaining == tm[n].rms_remaining \ {r}
    <3>1. \A x \in RMs \ remaining : log_plms[x] # <<>>
      BY <1>2, <2>2, <2>5 DEF Sound, TMSound
    <3>2. CASE remaining = {} /\ Decide(n, q, "Commit", "committed")
      <4>1. AllPrepared
        BY <3>1, <3>2 DEF AllPrepared
      <4> QED
        BY <2>4, <3>2, <4>1
    <3>3. CASE /\ remaining # {}
               /\ tm' = [tm EXCEPT ![n].rms_remaining = remaining]
               /\ chan' = q
               /\ UNCHANGED reply
      <4> DEFINE es == [tm[n] EXCEPT !.rms_remaining = remaining]
      <4>1. tm' = [tm EXCEPT ![n] = es]
        BY <1>2, <3>3
      <4>2. es \in TMStates /\ es.rms_remaining = remaining
        BY <1>2, <2>5, <3>3 DEF TMStates
      <4>3. TMSound(es)
        BY <3>1, <4>2 DEF TMSound
      <4>4. Sends(n, q, ToRMs({}, "Prepare"))
        BY <3>3 DEF Sends
      <4> HIDE DEF es
      <4> QED
        BY <1>2, <1>3, <3>3, <4>1, <4>2, <4>3, <4>4
    <3> QED
      BY <2>5, <3>2, <3>3 DEF handle_prepared
  <2>6. ASSUME m.type = "Aborted", handle_aborted(n, q)
        PROVE  IndInv'
    <3>1. Doomed
      BY <2>2, <2>6 DEF Sound
    <3> QED
      BY <2>4, <2>6, <3>1 DEF handle_aborted
  <2>7. ASSUME handle_wait(n, q, r)
        PROVE  IndInv'
    <3>1. CASE TMUnchanged(q)
      BY <1>4, <3>1
    <3>2. CASE /\ TMBecomes(n, q, tm[n], ToRMs({r}, "CheckPrepared"))
               /\ UNCHANGED reply
      <4>1. /\ tm' = [tm EXCEPT ![n] = tm[n]] /\ reply' = reply
            /\ Sends(n, q, ToRMs({r}, "CheckPrepared"))
            /\ {r} \in SUBSET RMs
        BY <2>2, <3>2 DEF TMBecomes, Sends
      <4> QED
        BY <1>2, <1>3, <4>1
    <3> QED
      BY <2>7, <3>1, <3>2 DEF handle_wait
  <2> QED
    BY <1>4, <1>6, <2>3, <2>5, <2>6, <2>7 DEF handle_tm_msg
<1> QED
  BY <1>1, <1>4, <1>5, <1>6
-----------------------------------------------------------------------------
(* The handlers of the RMs *)

TMTypes == {"Prepared", "InformPrepared", "Wait", "Aborted"}

(* What a handler of an RM makes of its ES, sends and gathers is safe.     *)
RMSafe(n, in, es, message) ==
  /\ Pipeline(n)'
  /\ Expected(n)' = IF inbox[n] = <<LC>> THEN log_plms[Gid(n)] ELSE Expected(n)
  /\ message \in {"Prepared", "InformPrepared"} => log_plms[Gid(n)] # <<>>
  /\ message = "Aborted" => Doomed
  /\ RMSound(es)
  /\ NeverPrepares(Gid(n)) /\ n = Current(Gid(n)) => es.st = "None"
  /\ ms_query'[n] => /\ in.item.type # "Payload"
                     /\ es.st = "None"
                     /\ leader_map'[n][TM] = leader_map[n][TM]

(* Then it keeps the invariant. *)
LEMMA RMResultInv ==
  ASSUME IndInv, reply # "none", NEW n \in RMNodes, NEW in \in Inputs(n),
         HandlesInput(n, in),
         UNCHANGED <<tm, reply>>,
         NEW es \in RMStates, NEW message \in TMTypes \cup {None}, NEW plm \in PLms \cup {None},
         RMBecomes(n, in.queues, es, message, plm),
         ms_query' \in {ms_query, [ms_query EXCEPT ![n] = FALSE]},
         RMSafe(n, in, es, message)
  PROVE  IndInv'
<1>1. n \in Nodes /\ n \notin TMNodes /\ Gid(n) \in RMs /\ Gid(n) \in Groups
  BY NodeKinds
<1>2. /\ inbox' = [inbox EXCEPT ![n] = in.rest]
      /\ \A y \in Nodes : y # n => leader_map'[y] = leader_map[y]
      /\ \A y \in Nodes : y # n => tablet_bundle'[y] = tablet_bundle[y]
      /\ \A y \in Nodes : inbox'[y] = IF y = n THEN in.rest ELSE inbox[y]
      /\ UNCHANGED <<log_gen, log_plms, status, tablet_bundles, next_insert, network_buffer>>
  BY <1>1 DEF HandlesInput, HandlesAt, IndInv, NetInv, NetType, logVars
<1>3. /\ rm' = [rm EXCEPT ![n] = es]
      /\ rm' \in [RMNodes -> RMStates]
      /\ rm'[n] = es
      /\ \A y \in RMNodes : y # n => rm'[y] = rm[y]
  BY DEF RMBecomes, IndInv, TypeOK
<1>4. /\ ms_query' \in [RMNodes -> BOOLEAN]
      /\ \A y \in RMNodes : ms_query'[y] => ms_query[y]
  BY DEF IndInv, TypeOK
<1>5. tablet_bundle' \in [Nodes -> Seq(PLms)]
  <2>1. tablet_bundle \in [Nodes -> Seq(PLms)]
    BY DEF IndInv, NetInv, NetType
  <2>2. plm \in PLms => Append(tablet_bundle[n], plm) \in Seq(PLms)
    BY <1>1, <2>1
  <2> QED
    BY <1>1, <2>1, <2>2 DEF RMBecomes
<1>6. PICK G, out :
        /\ out \in [G -> MessagesOf(n)]
        /\ Sends(n, in.queues, out)
        /\ \A h \in G : out[h].type = message /\ message # None
  <2>1. CASE message = None
    <3>1. [h \in {} |-> None] \in [{} -> MessagesOf(n)]
      OBVIOUS
    <3>2. chan' = in.queues
      BY <2>1 DEF RMBecomes
    <3> QED
      BY <3>1, <3>2 DEF Sends
  <2>2. CASE message # None
    <3>1. ToTM(message) \in [{TM} -> MessagesOf(n)] /\ \A h \in {TM} : ToTM(message)[h].type = message
      BY <1>1, <2>2, MessageTypes DEF ToTM, MessagesOf, TMTypes
    <3>2. PICK out \in [{TM} -> MessagesOf(n)] : out = ToTM(message)
      BY <3>1
    <3>3. chan' = Outgoing(n, in.queues, out)
      BY <2>2, <3>2 DEF RMBecomes, Outgoing
    <3> QED
      BY <2>2, <3>1, <3>2, <3>3 DEF Sends
  <2> QED
    BY <2>1, <2>2
<1>7. /\ chan' \in [Linked -> Seq(Messages)]
      /\ HeadsStay(in.queues)
      /\ \A e \in Linked :
           Range(chan'[e]) \subseteq (IF e[1] \in TMNodes THEN RMMessage ELSE TMMessage)
      /\ \A g \in Groups, x \in Nodes : \A p :
           UnderWayTo(g, x, p)' =>
             UnderWayTo(g, x, p) \/ (g = Gid(n) /\ Gid(x) \in G /\ p = out[Gid(x)])
  BY <1>1, <1>2, <1>6, HandlerSends
<1>8. NetInv(Messages, PLms)'
  BY <1>1, <1>5, <1>7, HandleNet DEF IndInv
<1>9. TypeOK'
  BY <1>2, <1>3, <1>4, <1>7, <1>8 DEF IndInv, TypeOK, NetInv, NetType
<1>10. \A y \in Nodes : y # n => Keeps(y)
  BY <1>2, KeepsSame
<1>11. \A y \in RMNodes : y # n => Pipeline(y)' /\ Expected(y)' = Expected(y)
  <2>1. ASSUME NEW y \in RMNodes, y # n
        PROVE  Pipeline(y)' /\ Expected(y)' = Expected(y)
    <3>1. rm[y].st \in RMSt \cup Unprepared
      BY StateTypes DEF IndInv, TypeOK
    <3>2. rm'[y] = rm[y] /\ Keeps(y) /\ Pipeline(y)
      BY <1>3, <1>10, <2>1, NodeKinds DEF IndInv, PipelineInv
    <3> QED
      BY <3>1, <3>2, PipelineStays
  <2> QED
    BY <2>1
<1>12. PipelineInv'
  BY <1>1, <1>10, <1>11, NodeKinds DEF IndInv, PipelineInv, Keeps, RMSafe
<1>13. \A r \in RMs : NeverPrepares(r) => NeverPrepares(r)'
  <2>1. ASSUME NEW r \in RMs, NeverPrepares(r)
        PROVE  NeverPrepares(r)'
    <3>1. Current(r) \in RMNodes /\ Gid(Current(r)) = r
      BY NodeKinds DEF IndInv, NetInv, NetType, Current
    <3>2. rm'[Current(r)].st = "None"
      BY <1>3, <2>1, <3>1 DEF NeverPrepares, RMSafe
    <3> QED
      BY <1>2, <1>4, <2>1, <3>1, <3>2 DEF NeverPrepares, Current
  <2> QED
    BY <2>1
<1>14. Stable /\ log_plms[TM] = <<>>
  BY <1>2, <1>13 DEF Stable, IndInv, TypeOK
<1>15. MessageInv'
  <2>1. \A p : p.type = message => Sound(Gid(n), p) \/ message \in {"Commit", "Abort"}
    BY DEF Sound, RMSafe
  <2>2. message # "Commit" /\ message # "Abort"
    BY DEF TMTypes, None
  <2>3. \A g \in Groups, x \in Nodes : \A p \in Messages :
          UnderWayTo(g, x, p)' => UnderWayTo(g, x, p) \/ Sound(g, p)
    BY <1>6, <1>7, <2>1, <2>2
  <2> QED
    BY <1>14, <2>3, MessagesSound DEF IndInv
<1>16. QueryInv'
  BY <1>1, <1>2, <1>3, <1>4, <1>7, HandleQuery DEF RMSafe
<1>17. inbox'[n] # <<LC>> /\ status[n] = "leader"
  <2>1. LC \notin Range(in.rest) /\ status[n] = "leader"
    BY <1>1, InputFacts DEF IndInv
  <2>2. Range(<<LC>>) = {LC}
    BY DEF Range
  <2> QED
    BY <1>1, <1>2, <2>1, <2>2
<1>18. \A y \in RMNodes : Active(y) => inbox'[y] # <<LC>> /\ Expected(y)' = Expected(y)
  <2>1. Active(n) => Expected(n)' = Expected(n)
    BY DEF RMSafe, Active
  <2>2. \A y \in RMNodes : y # n /\ Active(y) => inbox'[y] # <<LC>>
    BY <1>2, NodeKinds DEF Active
  <2> QED
    BY <1>11, <1>17, <2>1, <2>2
<1>19. \A y \in RMNodes :
         ~Active(y) => \/ ~Active(y)' /\ rm'[y] = rm[y]
                       \/ Active(y)' /\ Expected(y)' = log_plms[Gid(y)]
  <2>1. ~Active(n) => Active(n)' /\ Expected(n)' = log_plms[Gid(n)]
    BY <1>2, <1>17 DEF Active, RMSafe
  <2>2. \A y \in RMNodes : y # n /\ ~Active(y) => ~Active(y)' /\ rm'[y] = rm[y]
    BY <1>2, <1>3, NodeKinds DEF Active
  <2> QED
    BY <2>1, <2>2
<1>20. \A y \in RMNodes : RMSound(rm[y])'
  <2>1. \A e : RMSound(e) => RMSound(e)'
    BY <1>14, StableFacts
  <2>2. RMSound(rm[n])'
    BY <1>3, <2>1 DEF RMSafe
  <2>3. \A y \in RMNodes : y # n => RMSound(rm[y])'
    BY <1>3, <2>1 DEF IndInv, OutcomeInv
  <2> QED
    BY <2>2, <2>3
<1>21. \A t \in TMNodes : TMSound(tm[t])'
  BY <1>14, StableFacts DEF IndInv, OutcomeInv
<1>22. /\ reply' # "none" /\ (reply' = "committed" => AllPrepared) /\ (reply' = "retried" => Doomed)
       /\ UNCHANGED <<log_gen, log_plms, status>>
  BY <1>2 DEF IndInv, OutcomeInv
<1> QED
  BY <1>4, <1>8, <1>9, <1>12, <1>13, <1>15, <1>16, <1>18, <1>19, <1>20, <1>21, <1>22, Preserve

(* What a handler of an RM makes of the PLm that it waits for. *)
LEMMA RMPipe ==
  ASSUME IndInv, NEW n \in RMNodes, NEW in \in Inputs(n), HandlesInput(n, in),
         NEW es, NEW message, NEW plm \in {"Committed", "Aborted", None},
         RMBecomes(n, in.queues, es, message, plm)
  PROVE  /\ in.item.type # "PLm" /\ plm = None => Keeps(n)
         /\ NothingPending(n) /\ plm = None => NothingPending(n)'
         /\ NothingPending(n) /\ plm # None => Gathered(n, plm)'
         /\ in.item.type = "PLm" => \E x \in PLms :
              /\ Inserting(rm[n].st) = x
              /\ Persisted(n, x)
              /\ in.item = PLm(x)
              /\ plm = None => NothingPending(n)'
              /\ plm # None => Gathered(n, plm)'
<1>1. /\ n \in Nodes
      /\ rm[n].st \in RMSt \cup Unprepared
      /\ Pipeline(n)
      /\ tablet_bundle \in [Nodes -> Seq(PLms)]
      /\ inbox \in [Nodes -> Seq(Items(Messages, PLms))]
  BY NodeKinds, StateTypes DEF IndInv, TypeOK, NetInv, NetType, PipelineInv
<1>2. /\ NoPLm(inbox[n]) => NoPLm(in.rest) /\ in.item.type # "PLm"
      /\ \A x : OnePLm(inbox[n], x) =>
           IF in.item.type = "PLm" THEN in.item = PLm(x) /\ NoPLm(in.rest)
           ELSE OnePLm(in.rest, x)
  BY <1>1, InputFacts DEF IndInv
<1>3. /\ inbox'[n] = in.rest
      /\ tablet_bundles'[n] = tablet_bundles[n]
      /\ next_insert'[n] = next_insert[n]
      /\ plm = None => tablet_bundle'[n] = tablet_bundle[n]
      /\ plm # None /\ tablet_bundle[n] = <<>> => tablet_bundle'[n] = <<plm>>
  <2>1. Append(<<>>, plm) = <<plm>>
    OBVIOUS
  <2> QED
    BY <1>1, <2>1 DEF HandlesInput, HandlesAt, RMBecomes
<1>4. in.item.type # "PLm" /\ plm = None => Keeps(n)
  BY <1>2, <1>3, KeepsSame
<1>5. NothingPending(n) /\ plm = None => NothingPending(n)'
  BY <1>2, <1>3 DEF NothingPending
<1>6. NothingPending(n) /\ plm # None => Gathered(n, plm)'
  BY <1>2, <1>3 DEF NothingPending, Gathered
<1>7. ASSUME in.item.type = "PLm"
      PROVE  \E x \in PLms :
               /\ Inserting(rm[n].st) = x
               /\ Persisted(n, x)
               /\ in.item = PLm(x)
               /\ plm = None => NothingPending(n)'
               /\ plm # None => Gathered(n, plm)'
  <2> DEFINE x == Inserting(rm[n].st)
  <2>1. ~NoPLm(inbox[n])
    BY <1>2, <1>7
  <2>2. x \in PLms /\ Persisted(n, x)
    BY <1>1, <2>1, InsertingFacts DEF Pipeline, NothingPending, Gathered
  <2> HIDE DEF x
  <2>3. /\ tablet_bundle[n] = <<>> /\ tablet_bundles[n] = <<>>
        /\ next_insert[n].plms = <<>> /\ OnePLm(inbox[n], x)
    BY <2>1, <2>2 DEF Persisted
  <2>4. in.item = PLm(x) /\ NoPLm(in.rest)
    BY <1>2, <1>7, <2>3
  <2>5. plm = None => NothingPending(n)'
    BY <1>3, <2>3, <2>4 DEF NothingPending
  <2>6. plm # None => Gathered(n, plm)'
    BY <1>3, <2>3, <2>4 DEF Gathered
  <2> QED
    BY <2>2, <2>4, <2>5, <2>6 DEF x
<1> QED
  BY <1>4, <1>5, <1>6, <1>7

(* What an ES says of the log after a step. *)
LEMMA ExpectedNext ==
  ASSUME NEW n, NEW st, rm'[n].st = st
  PROVE  /\ NothingPending(n)' /\ Inserting(st) = None => Pipeline(n)'
         /\ \A x \in PLms : Gathered(n, x)' /\ Inserting(st) = x => Pipeline(n)'
         /\ st \in {"None", "WaitingInsertingPrepared"} => Expected(n)' = <<>>
         /\ st = "Prepared" => Expected(n)' = <<"Prepared">>
         /\ st = "InsertingCommitted" /\ Gathered(n, "Committed")' =>
              Expected(n)' = <<"Prepared">>
         /\ st = "InsertingAborted" /\ Gathered(n, "Aborted")' => Expected(n)' = <<"Prepared">>
         /\ st = "Committed" => Expected(n)' = <<"Prepared", "Committed">>
         /\ st = "Aborted" => Expected(n)' = <<"Prepared", "Aborted">>
<1>1. /\ NothingPending(n)' /\ Inserting(st) = None => Pipeline(n)'
      /\ \A x \in PLms : Gathered(n, x)' /\ Inserting(st) = x => Pipeline(n)'
  BY InsertingFacts DEF Pipeline
<1>2. \A x : Gathered(n, x)' => ~Persisted(n, x)'
  BY OnePlace
<1>3. /\ st \in {"None", "WaitingInsertingPrepared"} => Expected(n)' = <<>>
      /\ st = "Prepared" => Expected(n)' = <<"Prepared">>
      /\ st = "Committed" => Expected(n)' = <<"Prepared", "Committed">>
      /\ st = "Aborted" => Expected(n)' = <<"Prepared", "Aborted">>
  BY DEF Expected, Logged
<1>4. /\ st = "InsertingCommitted" /\ Gathered(n, "Committed")' =>
           Expected(n)' = <<"Prepared">>
      /\ st = "InsertingAborted" /\ Gathered(n, "Aborted")' => Expected(n)' = <<"Prepared">>
  BY <1>2, InsertingFacts DEF Expected, Logged
<1> QED
  BY <1>1, <1>3, <1>4

(* An MSQueryES has not become an ES yet. *)
LEMMA QueryState ==
  ASSUME IndInv, NEW n \in RMNodes, ms_query[n]
  PROVE  rm[n].st = "None"
<1>1. n \in Nodes /\ Gid(n) \in RMs
  BY NodeKinds
<1>2. Gen(n) = 0
  BY DEF IndInv, QueryInv
<1>3. n = First(Gid(n))
  BY <1>1, <1>2, NodeFacts DEF First
<1> QED
  BY <1>1, <1>3 DEF IndInv, QueryInv, PrepareFirst

(* A handler of an RM that leaves the ES alone keeps the invariant if what *)
(* it says is true.                                                        *)
LEMMA RMStays ==
  ASSUME IndInv, reply # "none", NEW n \in RMNodes, NEW in \in Inputs(n), HandlesInput(n, in),
         UNCHANGED <<tm, reply>>,
         Active(n), in.item.type # "PLm",
         NEW message \in TMTypes \cup {None}, RMSends(n, in.queues, message),
         message \in {"Prepared", "InformPrepared"} => Expected(n) # <<>>,
         message = "Aborted" => Doomed,
         ms_query' \in {ms_query, [ms_query EXCEPT ![n] = FALSE]},
         ms_query'[n] => /\ in.item.type # "Payload"
                         /\ leader_map'[n][TM] = leader_map[n][TM]
  PROVE  IndInv'
<1>1. /\ rm \in [RMNodes -> RMStates]
      /\ rm[n] \in RMStates /\ rm[n].st \in RMSt \cup Unprepared
      /\ Pipeline(n) /\ RMSound(rm[n])
      /\ ms_query'[n] => ms_query[n]
  BY StateTypes DEF IndInv, TypeOK, PipelineInv, OutcomeInv
<1>2. /\ RMBecomes(n, in.queues, rm[n], message, None)
      /\ None \in {"Committed", "Aborted", None} /\ None \in PLms \cup {None}
  BY DEF RMSends
<1>3. rm'[n] = rm[n]
  BY <1>1, <1>2 DEF RMBecomes
<1>4. Keeps(n)
  BY <1>2, RMPipe
<1>5. Pipeline(n)' /\ Expected(n)' = Expected(n)
  BY <1>1, <1>3, <1>4, PipelineStays
<1>6. message \in {"Prepared", "InformPrepared"} => log_plms[Gid(n)] # <<>>
  BY Knows DEF IndInv
<1>7. ms_query'[n] => rm[n].st = "None"
  BY <1>1, QueryState
<1>8. NeverPrepares(Gid(n)) /\ n = Current(Gid(n)) => rm[n].st = "None"
  BY DEF NeverPrepares
<1>9. RMSafe(n, in, rm[n], message)
  BY <1>1, <1>5, <1>6, <1>7, <1>8 DEF RMSafe, Active
<1> QED
  BY <1>1, <1>2, <1>9, RMResultInv

(* One that takes the ES further keeps the invariant if the state it takes *)
(* it to is right.                                                         *)
LEMMA RMMoves ==
  ASSUME IndInv, reply # "none", NEW n \in RMNodes, NEW in \in Inputs(n), HandlesInput(n, in),
         UNCHANGED <<tm, reply>>,
         Active(n), in.item.type # "RemoteLeaderChanged",
         NEW es \in RMStates, NEW message \in TMTypes \cup {None}, NEW plm \in PLms \cup {None},
         RMBecomes(n, in.queues, es, message, plm),
         Pipeline(n)', Expected(n)' = Expected(n),
         message \in {"Prepared", "InformPrepared"} => Expected(n) # <<>>,
         message # "Aborted",
         RMSound(es),
         rm[n].st # "None" \/ ms_query[n],
         ms_query' \in {ms_query, [ms_query EXCEPT ![n] = FALSE]},
         ~ms_query'[n]
  PROVE  IndInv'
<1>1. message \in {"Prepared", "InformPrepared"} => log_plms[Gid(n)] # <<>>
  BY Knows DEF IndInv
<1>2. ~(NeverPrepares(Gid(n)) /\ n = Current(Gid(n)))
  BY DEF NeverPrepares
<1>3. RMSafe(n, in, es, message)
  BY <1>1, <1>2 DEF RMSafe, Active
<1> QED
  BY <1>3, RMResultInv

(* What is replayed from each of the four logs. *)
LEMMA ReplayFacts ==
  /\ Replay(<<>>) = "None"
  /\ Replay(<<"Prepared">>) = "Follower"
  /\ Replay(<<"Prepared", "Committed">>) = "Committed"
  /\ Replay(<<"Prepared", "Aborted">>) = "Aborted"
<1>1. /\ Len(<<"Prepared">>) = 1
      /\ Len(<<"Prepared", "Committed">>) = 2
      /\ Len(<<"Prepared", "Aborted">>) = 2
  OBVIOUS
<1>2. /\ Last(<<"Prepared">>) = "Prepared"
      /\ Last(<<"Prepared", "Committed">>) = "Committed"
      /\ Last(<<"Prepared", "Aborted">>) = "Aborted"
  BY <1>1 DEF Last
<1>3. Replay(<<>>) = "None"
  BY DEF Replay
<1>4. Replay(<<"Prepared">>) = "Follower"
  BY <1>2, LogsDiffer DEF Replay
<1>5. Replay(<<"Prepared", "Committed">>) = "Committed"
  BY <1>2, LogsDiffer DEF Replay
<1>6. Replay(<<"Prepared", "Aborted">>) = "Aborted"
  BY <1>2, LogsDiffer DEF Replay
<1> QED
  BY <1>3, <1>4, <1>5, <1>6

(* A new leader of an RM takes over what is in the log. *)
LEMMA LeaderChangedInv ==
  ASSUME IndInv, reply # "none", NEW n \in RMNodes, NEW in \in Inputs(n),
         inbox' = [inbox EXCEPT ![n] = in.rest],
         in.item.type = "LeaderChanged",
         UNCHANGED <<leader_map, ms_query>>,
         leader_changed(n, in.queues),
         UNCHANGED <<logVars, status, remote_leader_changes, tablet_bundles, next_insert,
                     network_buffer, tm, reply>>
  PROVE  IndInv'
<1> DEFINE log == log_plms[Gid(n)]
           st == IF Replay(log) = "Follower" THEN "Prepared" ELSE Replay(log)
           message == IF Replay(log) = "Follower" THEN "InformPrepared" ELSE None
<1>1. n \in Nodes /\ Gid(n) \in RMs
  BY NodeKinds
<1>2. inbox[n] = <<LC>>
  <2>1. in.item \in Range(inbox[n]) /\ in.item \in Items(Messages, PLms)
    BY <1>1, InputFacts DEF IndInv
  <2>2. in.item = LC
    BY <2>1 DEF Items, RLCs, Unblocks, PLmItems, PayloadItems
  <2> QED
    BY <1>1, <2>1, <2>2 DEF IndInv, NetInv, FreshInv
<1>3. rm[n] = InState("None") /\ ~ms_query[n] /\ rm[n].st = "None"
  BY <1>2 DEF IndInv, LogInv, Active, InState
<1>4. NothingPending(n)
  BY <1>3, InsertingFacts DEF IndInv, PipelineInv, Pipeline
<1>5. /\ log = <<>> => Replay(log) = "None"
      /\ log = <<"Prepared">> => Replay(log) = "Follower"
      /\ log = <<"Prepared", "Committed">> => Replay(log) = "Committed"
      /\ log = <<"Prepared", "Aborted">> => Replay(log) = "Aborted"
  BY ReplayFacts
<1>6. log \in {<<>>, <<"Prepared">>, <<"Prepared", "Committed">>, <<"Prepared", "Aborted">>}
  BY <1>1 DEF IndInv, TypeOK
<1>7. /\ log = <<>> => st = "None" /\ message = None
      /\ log = <<"Prepared">> => st = "Prepared" /\ message = "InformPrepared"
      /\ log = <<"Prepared", "Committed">> => st = "Committed" /\ message = None
      /\ log = <<"Prepared", "Aborted">> => st = "Aborted" /\ message = None
  BY <1>5
<1>8. RMBecomes(n, in.queues, InState(st), message, None)
  BY DEF leader_changed
<1> HIDE DEF st, message
<1>9. /\ st \in {"None", "Prepared", "Committed", "Aborted"}
      /\ message \in TMTypes \cup {None} /\ message # "Aborted"
  BY <1>6, <1>7 DEF TMTypes, None
<1>10. InState(st) \in RMStates /\ InState(st).st = st
  BY <1>9, StateTypes DEF RMSt
<1>11. rm'[n] = InState(st) /\ rm'[n].st = st
  BY <1>8, <1>10 DEF RMBecomes, IndInv, TypeOK
<1>12. HandlesInput(n, in)
  BY <1>8 DEF HandlesInput, HandlesAt, RMBecomes
<1>13. NothingPending(n)'
  BY <1>4, <1>8, <1>12, RMPipe
<1>14. Pipeline(n)'
  BY <1>9, <1>11, <1>13, ExpectedNext, InsertingFacts
<1>15. Expected(n)' = log
  BY <1>6, <1>7, <1>11, ExpectedNext
<1>16. RMSound(InState(st))
  BY <1>1, <1>6, <1>7, <1>10 DEF RMSound, IndInv, OutcomeInv
<1>17. RMSafe(n, in, InState(st), message)
  <2>1. message \in {"Prepared", "InformPrepared"} => log_plms[Gid(n)] # <<>>
    BY <1>6, <1>7, LogsDiffer DEF None
  <2>2. NeverPrepares(Gid(n)) => InState(st).st = "None"
    BY <1>7, <1>10 DEF NeverPrepares
  <2> QED
    BY <1>2, <1>3, <1>9, <1>14, <1>15, <1>16, <2>1, <2>2 DEF RMSafe
<1> QED
  BY <1>8, <1>9, <1>10, <1>12, <1>17, RMResultInv

(* Before anything else, a leader handles LeaderChanged. *)
LEMMA HandlesActive ==
  ASSUME IndInv, NEW n \in RMNodes, NEW in \in Inputs(n), in.item.type # "LeaderChanged"
  PROVE  Active(n)
<1>1. n \in Nodes
  BY NodeKinds
<1>2. status[n] = "leader" /\ (LC \in Range(inbox[n]) => in.item = LC)
  BY <1>1, InputFacts DEF IndInv
<1>3. Range(<<LC>>) = {LC}
  BY DEF Range
<1> QED
  BY <1>2, <1>3 DEF Active, LC

(* A prepared RM asks a new TM what became of the transaction. *)
LEMMA RemoteLeaderChangedInv ==
  ASSUME IndInv, reply # "none", NEW n \in RMNodes, NEW in \in Inputs(n),
         inbox' = [inbox EXCEPT ![n] = in.rest],
         in.item.type = "RemoteLeaderChanged",
         leader_map' = [leader_map EXCEPT ![n] = RemoteLeaderChanged(@, in.item)],
         IF leader_map' # leader_map
         THEN rm_remote_leader_changed(n, in.queues, in.item.gid)
         ELSE RMUnchanged(n, in.queues) /\ UNCHANGED ms_query,
         UNCHANGED <<logVars, status, remote_leader_changes, tablet_bundles, next_insert,
                     network_buffer, tm, reply>>
  PROVE  IndInv'
<1>1. /\ n \in Nodes /\ Active(n)
      /\ leader_map \in [Nodes -> [Groups -> Gens]]
      /\ ms_query \in [RMNodes -> BOOLEAN]
      /\ TM \in Groups
  BY NodeKinds, HandlesActive DEF IndInv, TypeOK
<1>2. ASSUME NEW message \in {"InformPrepared", None}, RMSends(n, in.queues, message),
             message = "InformPrepared" => rm[n].st = "Prepared",
             ms_query' \in {ms_query, [ms_query EXCEPT ![n] = FALSE]},
             ms_query'[n] => leader_map'[n][TM] = leader_map[n][TM]
      PROVE  IndInv'
  <2>1. message \in TMTypes \cup {None} /\ message # "Aborted" /\ message # "Prepared"
    BY <1>2 DEF TMTypes, None
  <2>2. HandlesInput(n, in)
    BY <1>2 DEF HandlesInput, HandlesAt, RMSends, RMBecomes
  <2>3. message \in {"Prepared", "InformPrepared"} => Expected(n) # <<>>
    BY <1>2, <2>1, ExpectedFacts, LogsDiffer
  <2> QED
    BY <1>1, <1>2, <2>1, <2>2, <2>3, RMStays
<1>3. ASSUME RMUnchanged(n, in.queues)
      PROVE  RMSends(n, in.queues, None)
  BY <1>3 DEF RMUnchanged, RMSends
<1>4. CASE leader_map' = leader_map
  BY <1>2, <1>3, <1>4 DEF None
<1>5. CASE rm_remote_leader_changed(n, in.queues, in.item.gid)
  <2>1. CASE /\ in.item.gid = TM
             /\ ms_query' = [ms_query EXCEPT ![n] = FALSE]
             /\ IF rm[n].st = "Prepared" THEN RMSends(n, in.queues, "InformPrepared")
                ELSE RMUnchanged(n, in.queues)
    <3>1. ~ms_query'[n]
      BY <1>1, <2>1
    <3> QED
      BY <1>2, <1>3, <2>1, <3>1 DEF None
  <2>2. CASE in.item.gid # TM /\ RMUnchanged(n, in.queues) /\ UNCHANGED ms_query
    <3>1. leader_map'[n][TM] = leader_map[n][TM]
      BY <1>1, <2>2 DEF RemoteLeaderChanged
    <3> QED
      BY <1>2, <1>3, <2>2, <3>1 DEF None
  <2> QED
    BY <1>5, <2>1, <2>2 DEF rm_remote_leader_changed
<1> QED
  BY <1>4, <1>5

(* A leader of an RM learns that its PLm is in the log. *)
LEMMA PLmInv ==
  ASSUME IndInv, reply # "none", NEW n \in RMNodes, NEW in \in Inputs(n),
         inbox' = [inbox EXCEPT ![n] = in.rest],
         in.item.type = "PLm",
         UNCHANGED <<leader_map, ms_query>>,
         handle_rm_plm(n, in.queues, in.item.plm),
         UNCHANGED <<logVars, status, remote_leader_changes, tablet_bundles, next_insert,
                     network_buffer, tm, reply>>
  PROVE  IndInv'
<1>1. /\ Active(n)
      /\ rm \in [RMNodes -> RMStates]
      /\ rm[n].st \in RMSt \cup Unprepared
      /\ RMSound(rm[n])
  BY HandlesActive, StateTypes DEF IndInv, TypeOK, OutcomeInv
<1>2. ASSUME NEW es, NEW message, NEW plm \in {"Committed", "Aborted", None},
             RMBecomes(n, in.queues, es, message, plm)
      PROVE  /\ HandlesInput(n, in)
             /\ plm = None => NothingPending(n)'
             /\ plm # None => Gathered(n, plm)'
             /\ Inserting(rm[n].st) = in.item.plm
             /\ Persisted(n, in.item.plm)
             /\ rm[n].st # "None"
             /\ ~ms_query'[n]
  <2>1. HandlesInput(n, in)
    BY <1>2 DEF HandlesInput, HandlesAt, RMBecomes
  <2>2. PICK x \in PLms : /\ Inserting(rm[n].st) = x
                          /\ Persisted(n, x)
                          /\ in.item = PLm(x)
                          /\ plm = None => NothingPending(n)'
                          /\ plm # None => Gathered(n, plm)'
    BY <1>2, <2>1, RMPipe
  <2>3. in.item.plm = x
    BY <2>2 DEF PLm
  <2>4. rm[n].st # "None"
    BY <2>2, InsertingFacts
  <2> QED
    BY <2>1, <2>2, <2>3, <2>4, QueryState
<1>3. ASSUME NEW st \in RMSt, NEW message \in TMTypes \cup {None},
             NEW plm \in {"Committed", "Aborted", None},
             RMBecomes(n, in.queues, InState(st), message, plm),
             Inserting(st) = plm,
             Expected(n)' = Expected(n),
             message \in {"Prepared", "InformPrepared"} => Expected(n) # <<>>,
             message # "Aborted",
             st \in {"InsertingCommitted", "Committed"} => AllPrepared,
             st \in {"InsertingPreparedAborted", "InsertingAborted", "Aborted"} => Doomed
      PROVE  IndInv'
  <2>1. InState(st) \in RMStates /\ InState(st).st = st /\ plm \in PLms \cup {None}
    BY StateTypes DEF PLms
  <2>2. rm'[n].st = st
    BY <1>1, <1>3, <2>1 DEF RMBecomes
  <2>3. /\ HandlesInput(n, in) /\ rm[n].st # "None" /\ ~ms_query'[n]
        /\ plm = None => NothingPending(n)'
        /\ plm # None => Gathered(n, plm)'
    BY <1>2, <1>3
  <2>4. Pipeline(n)'
    BY <1>3, <2>1, <2>2, <2>3, ExpectedNext
  <2>5. RMSound(InState(st))
    BY <1>3, <2>1 DEF RMSound
  <2> QED
    BY <1>1, <1>3, <2>1, <2>3, <2>4, <2>5, RMMoves
<1>4. CASE in.item.plm = "Prepared" /\ handle_prepared_plm(n, in.queues)
  <2>1. CASE rm[n].st = "InsertingPrepared"
    <3> DEFINE message == IF rm[n].orig_tm # leader_map[n][TM] THEN "InformPrepared"
                          ELSE "Prepared"
    <3>1. RMBecomes(n, in.queues, InState("Prepared"), message, None)
      BY <1>4, <2>1 DEF handle_prepared_plm
    <3>2. message \in {"InformPrepared", "Prepared"}
      OBVIOUS
    <3> HIDE DEF message
    <3>3. "Prepared" \in RMSt /\ InState("Prepared").st = "Prepared"
          /\ message \in TMTypes \cup {None} /\ message # "Aborted"
      BY <3>2 DEF RMSt, TMTypes, InState
    <3>4. Persisted(n, "Prepared")
      BY <1>2, <1>4, <3>1
    <3>5. rm'[n].st = "Prepared"
      BY <1>1, <3>1, <3>3 DEF RMBecomes
    <3>6. Expected(n) = <<"Prepared">> /\ Expected(n)' = <<"Prepared">>
      BY <2>1, <3>4, <3>5, ExpectedFacts, ExpectedNext
    <3> QED
      BY <1>3, <3>1, <3>3, <3>6, InsertingFacts, LogsDiffer
  <2>2. CASE rm[n].st = "InsertingPreparedAborted"
    <3>1. RMBecomes(n, in.queues, InState("InsertingAborted"), None, "Aborted")
      BY <1>4, <2>2 DEF handle_prepared_plm
    <3>2. "InsertingAborted" \in RMSt /\ InState("InsertingAborted").st = "InsertingAborted"
          /\ None \in TMTypes \cup {None}
          /\ None \notin {"Aborted", "Prepared", "InformPrepared"}
      BY DEF RMSt, InState, None
    <3>3. Persisted(n, "Prepared") /\ Gathered(n, "Aborted")'
      BY <1>2, <1>4, <3>1 DEF None
    <3>4. rm'[n].st = "InsertingAborted"
      BY <1>1, <3>1, <3>2 DEF RMBecomes
    <3>5. Expected(n) = <<"Prepared">> /\ Expected(n)' = <<"Prepared">>
      BY <2>2, <3>3, <3>4, ExpectedFacts, ExpectedNext
    <3>6. Doomed
      BY <1>1, <2>2 DEF RMSound
    <3> QED
      BY <1>3, <3>1, <3>2, <3>5, <3>6, InsertingFacts
  <2>3. CASE /\ rm[n].st \notin {"InsertingPrepared", "InsertingPreparedAborted"}
             /\ RMUnchanged(n, in.queues)
    <3>1. Inserting(rm[n].st) = "Prepared"
      BY <1>2, <1>4, <2>3 DEF RMUnchanged
    <3> QED
      BY <1>1, <2>3, <3>1, InsertingFacts DEF RMSt, Unprepared, None
  <2> QED
    BY <1>4, <2>1, <2>2, <2>3 DEF handle_prepared_plm
<1>5. ASSUME NEW plm \in {"Committed", "Aborted"}, NEW inserting,
             plm = "Committed" => inserting = "InsertingCommitted",
             plm = "Aborted" => inserting = "InsertingAborted",
             in.item.plm = plm,
             IF rm[n].st = inserting
             THEN RMBecomes(n, in.queues, InState(plm), None, None)
             ELSE RMUnchanged(n, in.queues)
      PROVE  IndInv'
  <2>1. Inserting(rm[n].st) = plm /\ Persisted(n, plm)
    BY <1>2, <1>5 DEF RMUnchanged
  <2>2. rm[n].st = inserting
    BY <1>1, <1>5, <2>1, InsertingFacts DEF RMSt, Unprepared, None
  <2>3. RMBecomes(n, in.queues, InState(plm), None, None)
    BY <1>5, <2>2
  <2>4. plm \in RMSt /\ InState(plm).st = plm /\ None \in TMTypes \cup {None}
        /\ None \notin {"Aborted", "Prepared", "InformPrepared"}
    BY <1>5 DEF RMSt, InState, None
  <2>5. rm'[n].st = plm
    BY <1>1, <2>3, <2>4 DEF RMBecomes
  <2>6. Expected(n)' = Expected(n)
    BY <1>5, <2>1, <2>2, <2>5, ExpectedFacts, ExpectedNext
  <2>7. /\ plm = "Committed" => AllPrepared
        /\ plm = "Aborted" => Doomed
    BY <1>1, <1>5, <2>2 DEF RMSound
  <2> QED
    BY <1>3, <1>5, <2>3, <2>4, <2>6, <2>7, InsertingFacts
<1>6. CASE in.item.plm = "Committed" /\ handle_committed_plm(n, in.queues)
  BY <1>5, <1>6 DEF handle_committed_plm
<1>7. CASE in.item.plm = "Aborted" /\ handle_aborted_plm(n, in.queues)
  BY <1>5, <1>7 DEF handle_aborted_plm
<1> QED
  BY <1>4, <1>6, <1>7 DEF handle_rm_plm

(* An RM handles a message of the TM. *)
LEMMA RMMessageInv ==
  ASSUME IndInv, reply # "none", NEW n \in RMNodes, NEW in \in Inputs(n),
         inbox' = [inbox EXCEPT ![n] = in.rest],
         in.item.type = "Payload",
         UNCHANGED leader_map,
         handle_rm_msg(n, in.queues, in.item.payload),
         UNCHANGED <<logVars, status, remote_leader_changes, tablet_bundles, next_insert,
                     network_buffer, tm, reply>>
  PROVE  IndInv'
<1> DEFINE q == in.queues
           m == in.item.payload
<1>1. /\ n \in Nodes /\ Gid(n) \in RMs /\ Active(n)
      /\ rm \in [RMNodes -> RMStates] /\ rm[n] \in RMStates
      /\ rm[n].st \in RMSt \cup Unprepared
      /\ RMSound(rm[n]) /\ Pipeline(n)
      /\ ms_query \in [RMNodes -> BOOLEAN]
      /\ leader_map[n][TM] \in Gens
  BY NodeKinds, HandlesActive, StateTypes DEF IndInv, TypeOK, OutcomeInv, PipelineInv
<1>2. Sound(TM, m)
  <2>1. /\ in.item.from \in Groups
        /\ <<in.item.from, Gid(n)>> \in Links
        /\ UnderWayTo(in.item.from, n, m)
        /\ in.item \in Items(Messages, PLms)
    BY <1>1, InputFacts DEF IndInv
  <2>2. m \in Messages
    BY <2>1 DEF Items, RLCs, Unblocks, PLmItems, PayloadItems, LC
  <2>3. in.item.from = TM
    BY <1>1, <2>1, NodeKinds
  <2> QED
    BY <1>1, <2>1, <2>2, <2>3 DEF IndInv, MessageInv
<1>3. m.type # "Prepare" => ~ms_query[n]
  BY PrepareIsFirst DEF Msg
<1>4. ASSUME NEW message \in TMTypes \cup {None}, RMSends(n, q, message),
             message \in {"Prepared", "InformPrepared"} => Expected(n) # <<>>,
             message = "Aborted" => Doomed,
             UNCHANGED ms_query, ~ms_query[n]
      PROVE  IndInv'
  <2>1. HandlesInput(n, in)
    BY <1>4 DEF HandlesInput, HandlesAt, RMSends, RMBecomes
  <2> QED
    BY <1>1, <1>4, <2>1, RMStays
<1>5. ASSUME RMUnchanged(n, q), UNCHANGED ms_query, ~ms_query[n]
      PROVE  IndInv'
  <2>1. RMSends(n, q, None) /\ None \notin {"Prepared", "InformPrepared", "Aborted"}
    BY <1>5 DEF RMUnchanged, RMSends, None
  <2> QED
    BY <1>4, <1>5, <2>1
<1>6. ASSUME NEW es \in RMStates, NEW plm \in {"Committed", "Aborted", None},
             RMBecomes(n, q, es, None, plm)
      PROVE  /\ HandlesInput(n, in)
             /\ rm'[n] = es
             /\ plm = None => Keeps(n)
             /\ NothingPending(n) /\ plm = None => NothingPending(n)'
             /\ NothingPending(n) /\ plm # None => Gathered(n, plm)'
  <2>1. HandlesInput(n, in) /\ rm'[n] = es
    BY <1>1, <1>6 DEF HandlesInput, HandlesAt, RMBecomes
  <2> QED
    BY <1>6, <2>1, RMPipe
<1>7. ASSUME NEW es \in RMStates, NEW plm \in {"Committed", "Aborted", None},
             RMBecomes(n, q, es, None, plm),
             Pipeline(n)', Expected(n)' = Expected(n),
             RMSound(es),
             rm[n].st # "None" \/ ms_query[n],
             ms_query' \in {ms_query, [ms_query EXCEPT ![n] = FALSE]},
             ~ms_query'[n]
      PROVE  IndInv'
  <2>1. HandlesInput(n, in)
    BY <1>6, <1>7
  <2>2. /\ None \notin {"Prepared", "InformPrepared", "Aborted"}
        /\ plm \in PLms \cup {None} /\ None \in TMTypes \cup {None}
    BY DEF None, PLms
  <2> QED
    BY <1>1, <1>7, <2>1, <2>2, RMMoves
<1>8. ASSUME rm[n].st = "Prepared", UNCHANGED ms_query, ~ms_query[n],
             NEW st \in {"InsertingCommitted", "InsertingAborted"},
             NEW plm \in {"Committed", "Aborted"},
             Inserting(st) = plm,
             RMBecomes(n, q, InState(st), None, plm),
             RMSound(InState(st))
      PROVE  IndInv'
  <2>1. InState(st) \in RMStates /\ InState(st).st = st /\ plm # None /\ plm \in PLms
    BY <1>8, StateTypes DEF RMSt, None, PLms
  <2>2. NothingPending(n)
    BY <1>1, <1>8, InsertingFacts DEF Pipeline
  <2>3. Gathered(n, plm)' /\ rm'[n].st = st
    BY <1>6, <1>8, <2>1, <2>2
  <2>4. Pipeline(n)'
    BY <1>8, <2>1, <2>3, ExpectedNext
  <2>5. Expected(n) = <<"Prepared">>
    BY <1>8, ExpectedFacts
  <2>6. /\ st = "InsertingCommitted" => plm = "Committed"
        /\ st = "InsertingAborted" => plm = "Aborted"
    BY <1>8, InsertingFacts
  <2>7. Expected(n)' = <<"Prepared">>
    BY <1>8, <2>3, <2>6, ExpectedNext
  <2> QED
    BY <1>7, <1>8, <2>1, <2>4, <2>5, <2>7
<1>9. CASE m.type = "Prepare" /\ handle_prepare(n, q)
  <2>1. CASE /\ rm[n].st = "None"
             /\ ms_query[n]
             /\ ms_query' = [ms_query EXCEPT ![n] = FALSE]
             /\ RMBecomes(n, q, [st |-> "WaitingInsertingPrepared", orig_tm |-> leader_map[n][TM]],
                          None, None)
    <3> DEFINE es == [st |-> "WaitingInsertingPrepared", orig_tm |-> leader_map[n][TM]]
    <3>1. es \in RMStates /\ es.st = "WaitingInsertingPrepared"
      BY <1>1 DEF RMStates, Unprepared
    <3>2. RMSound(es) /\ ~ms_query'[n]
      BY <1>1, <2>1 DEF RMSound
    <3>3. NothingPending(n)
      BY <1>1, <2>1, InsertingFacts DEF Pipeline
    <3>4. RMBecomes(n, q, es, None, None)
      BY <2>1
    <3> HIDE DEF es
    <3>5. NothingPending(n)' /\ rm'[n].st = "WaitingInsertingPrepared"
      BY <1>6, <3>1, <3>3, <3>4
    <3>6. Pipeline(n)' /\ Expected(n)' = <<>> /\ Expected(n) = <<>>
      BY <2>1, <3>5, ExpectedNext, ExpectedFacts, InsertingFacts
    <3> QED
      BY <1>7, <2>1, <3>1, <3>2, <3>4, <3>6
  <2>2. CASE rm[n].st = "None" /\ ~ms_query[n] /\ RMSends(n, q, "Aborted") /\ UNCHANGED ms_query
    <3>1. Expected(n) = <<>>
      BY <2>2, ExpectedFacts
    <3>2. Doomed
      BY <1>1, <2>2, <3>1, Knows DEF IndInv, Doomed
    <3> QED
      BY <1>4, <2>2, <3>2 DEF TMTypes
  <2>3. CASE /\ rm[n].st # "None"
             /\ IF rm[n].st = "Prepared" THEN RMSends(n, q, "Prepared") ELSE RMUnchanged(n, q)
             /\ UNCHANGED ms_query
    <3>1. ~ms_query[n]
      BY <2>3, QueryState
    <3>2. rm[n].st = "Prepared" => Expected(n) # <<>>
      BY ExpectedFacts, LogsDiffer
    <3> QED
      BY <1>4, <1>5, <2>3, <3>1, <3>2 DEF TMTypes
  <2> QED
    BY <1>9, <2>1, <2>2, <2>3 DEF handle_prepare
<1>10. CASE m.type = "CheckPrepared" /\ handle_check_prepared(n, q) /\ UNCHANGED ms_query
  <2>1. ~ms_query[n]
    BY <1>3, <1>10
  <2>2. CASE rm[n].st \in {"None", "Aborted"} /\ RMSends(n, q, "Aborted")
    <3>1. rm[n].st = "None" => Expected(n) = <<>>
      BY ExpectedFacts
    <3>2. Doomed
      BY <1>1, <2>1, <2>2, <3>1, Knows DEF IndInv, Doomed, RMSound
    <3> QED
      BY <1>4, <1>10, <2>1, <2>2, <3>2 DEF TMTypes
  <2>3. CASE RMSends(n, q, "Wait")
    BY <1>4, <1>10, <2>1, <2>3 DEF TMTypes
  <2>4. CASE /\ rm[n].st \in {"Prepared", "InsertingCommitted", "InsertingAborted", "Committed"}
             /\ RMSends(n, q, "Prepared")
    <3>1. Expected(n) # <<>>
      BY <2>4, ExpectedFacts, LogsDiffer
    <3> QED
      BY <1>4, <1>10, <2>1, <2>4, <3>1 DEF TMTypes
  <2> QED
    BY <1>10, <2>2, <2>3, <2>4 DEF handle_check_prepared
<1>11. CASE m.type = "Commit" /\ handle_commit(n, q) /\ UNCHANGED ms_query
  <2>1. ~ms_query[n] /\ AllPrepared
    BY <1>2, <1>3, <1>11 DEF Sound
  <2>2. RMSound(InState("InsertingCommitted"))
    BY <2>1 DEF RMSound, InState
  <2>3. CASE rm[n].st = "Prepared"
    <3>1. RMBecomes(n, q, InState("InsertingCommitted"), None, "Committed")
      BY <1>11, <2>3 DEF handle_commit
    <3> QED
      BY <1>8, <1>11, <2>1, <2>2, <2>3, <3>1, InsertingFacts
  <2>4. CASE rm[n].st # "Prepared"
    BY <1>5, <1>11, <2>1, <2>4 DEF handle_commit
  <2> QED
    BY <2>3, <2>4
<1>12. CASE m.type = "Abort" /\ handle_abort(n, q) /\ UNCHANGED ms_query
  <2>1. ~ms_query[n] /\ Doomed
    BY <1>2, <1>3, <1>12 DEF Sound
  <2>2. CASE rm[n].st = "WaitingInsertingPrepared" /\ RMBecomes(n, q, InState("None"), None, None)
    <3>1. InState("None") \in RMStates /\ InState("None").st = "None"
      BY StateTypes DEF RMSt
    <3>2. NothingPending(n)
      BY <1>1, <2>2, InsertingFacts DEF Pipeline
    <3>3. NothingPending(n)' /\ rm'[n].st = "None"
      BY <1>6, <2>2, <3>1, <3>2
    <3>4. Pipeline(n)' /\ Expected(n)' = <<>> /\ Expected(n) = <<>>
      BY <2>2, <3>3, ExpectedNext, ExpectedFacts, InsertingFacts
    <3>5. RMSound(InState("None"))
      BY <3>1 DEF RMSound
    <3> QED
      BY <1>7, <1>12, <2>1, <2>2, <3>1, <3>4, <3>5
  <2>3. CASE /\ rm[n].st = "InsertingPrepared"
             /\ RMBecomes(n, q, InState("InsertingPreparedAborted"), None, None)
    <3>1. /\ InState("InsertingPreparedAborted") \in RMStates
          /\ InState("InsertingPreparedAborted").st = "InsertingPreparedAborted"
      BY StateTypes DEF RMSt
    <3>2. Keeps(n) /\ rm'[n].st = "InsertingPreparedAborted"
      BY <1>6, <2>3, <3>1
    <3>3. Pipeline(n)' /\ (Persisted(n, "Prepared")' <=> Persisted(n, "Prepared"))
      BY <1>1, <2>3, <3>2, PipelineStays, InsertingFacts
    <3>4. Expected(n)' = Expected(n)
      BY <2>3, <3>2, <3>3 DEF Expected, Logged, Inserting
    <3>5. RMSound(InState("InsertingPreparedAborted"))
      BY <2>1, <3>1 DEF RMSound
    <3> QED
      BY <1>7, <1>12, <2>1, <2>3, <3>1, <3>3, <3>4, <3>5
  <2>4. CASE /\ rm[n].st = "Prepared"
             /\ RMBecomes(n, q, InState("InsertingAborted"), None, "Aborted")
    <3>1. RMSound(InState("InsertingAborted"))
      BY <2>1 DEF RMSound, InState
    <3> QED
      BY <1>8, <1>12, <2>1, <2>4, <3>1, InsertingFacts
  <2>5. CASE RMUnchanged(n, q)
    BY <1>5, <1>12, <2>1, <2>5
  <2> QED
    BY <1>12, <2>2, <2>3, <2>4, <2>5 DEF handle_abort
<1> QED
  BY <1>9, <1>10, <1>11, <1>12 DEF handle_rm_msg

(* Every handler of an RM keeps the invariant. *)
LEMMA RMInv ==
  ASSUME IndInv, reply # "none", NEW n \in RMNodes, HandleRMInput(n)
  PROVE  IndInv'
<1>1. PICK in \in Inputs(n) :
        /\ inbox' = [inbox EXCEPT ![n] = in.rest]
        /\ \/ /\ in.item.type = "LeaderChanged"
              /\ UNCHANGED <<leader_map, ms_query>>
              /\ leader_changed(n, in.queues)
           \/ /\ in.item.type = "RemoteLeaderChanged"
              /\ leader_map' = [leader_map EXCEPT ![n] = RemoteLeaderChanged(@, in.item)]
              /\ IF leader_map' # leader_map
                 THEN rm_remote_leader_changed(n, in.queues, in.item.gid)
                 ELSE RMUnchanged(n, in.queues) /\ UNCHANGED ms_query
           \/ /\ in.item.type = "PLm"
              /\ UNCHANGED <<leader_map, ms_query>>
              /\ handle_rm_plm(n, in.queues, in.item.plm)
           \/ /\ in.item.type = "Payload"
              /\ UNCHANGED leader_map
              /\ handle_rm_msg(n, in.queues, in.item.payload)
        /\ UNCHANGED <<logVars, status, remote_leader_changes, tablet_bundles, next_insert,
                       network_buffer, tm, reply>>
  BY DEF HandleRMInput
<1> QED
  BY <1>1, LeaderChangedInv, RemoteLeaderChangedInv, PLmInv, RMMessageInv
-----------------------------------------------------------------------------
(* The theorems *)

(* A stuttering step changes nothing that the invariant is about. *)
LEMMA StutterInv ==
  ASSUME IndInv, UNCHANGED vars
  PROVE  IndInv'
<1> USE DEF vars, netVars, esVars, logVars, bundleVars
<1>1. NetInv(Messages, PLms)'
  BY DEF IndInv, NetInv, NetType, StatusInv, IdleInv, FreshInv, BlockedInv
<1>2. TypeOK'
  BY DEF IndInv, TypeOK
<1>3. PipelineInv' /\ \A n \in RMNodes : Expected(n)' = Expected(n)
  BY DEF IndInv, PipelineInv, Pipeline, NothingPending, Gathered, Persisted, Expected
<1>4. Stable /\ (AllPrepared' <=> AllPrepared) /\ (Doomed' <=> Doomed)
  BY DEF Stable, AllPrepared, Doomed, NeverPrepares, Current
<1>5. LogInv'
  BY <1>3 DEF IndInv, LogInv, Active, Agrees, NeverPrepares, Current
<1>6. MessageInv'
  <2>1. \A g \in Groups, n \in Nodes : \A p \in Messages :
          UnderWayTo(g, n, p)' => UnderWayTo(g, n, p)
    BY DEF UnderWayTo
  <2> QED
    BY <1>4, <2>1, MessagesSound DEF IndInv, TypeOK
<1>7. OutcomeInv'
  BY <1>4 DEF IndInv, OutcomeInv, RMSound, TMSound
<1>8. QueryInv'
  BY DEF IndInv, QueryInv, PrepareFirst
<1>9. StartInv'
  BY DEF IndInv, StartInv, NetInit
<1> QED
  BY <1>1, <1>2, <1>3, <1>5, <1>6, <1>7, <1>8, <1>9 DEF IndInv

(* Every step keeps the invariant. *)
LEMMA NextInv == IndInv /\ [Next]_vars => IndInv'
<1> SUFFICES ASSUME IndInv, [Next]_vars
             PROVE  IndInv'
  OBVIOUS
<1>1. CASE UNCHANGED vars
  BY <1>1, StutterInv
<1>2. ASSUME NEW n \in TMNodes, start_orig(n)
      PROVE  IndInv'
  BY <1>2, StartInvariant
<1>3. CASE Next /\ reply = "none"
  BY <1>2, <1>3, NotStarted
<1>4. CASE Work /\ reply # "none"
  <2>1. CASE Handle
    BY <1>4, <2>1, TMInv, RMInv DEF Handle
  <2>2. CASE NetworkWork /\ UNCHANGED esVars
    <3>1. ASSUME NEW n \in Nodes, deliver_blocked_messages(n)
          PROVE  IndInv'
      BY <1>4, <2>2, <3>1, DeliverInv
    <3>2. ASSUME Quiet, NEW e \in Linked, Receive(e[2], e[1])
          PROVE  IndInv'
      BY <1>4, <2>2, <3>2, ReceiveInv
    <3>3. ASSUME Quiet, NEW n \in Nodes, maybe_start_insert(n) \/ process_bundle(n)
          PROVE  IndInv'
      BY <1>4, <2>2, <3>3, InsertInv, ProcessInv
    <3> QED
      BY <2>2, <3>1, <3>2, <3>3 DEF NetworkWork
  <2>3. CASE Quiet /\ \E n \in RMNodes : start_inserting(n)
    BY <1>4, <2>3, StartInsertingInv
  <2> QED
    BY <1>4, <2>1, <2>2, <2>3 DEF Work
<1>5. CASE Event
  <2>1. reply # "none"
    BY <1>5 DEF Event
  <2>2. CASE Quiet /\ \E n \in Nodes : BecomeFollower(n)
    BY <2>1, <2>2, LoseInv
  <2>3. CASE NetworkEvent /\ UNCHANGED esVars
    <3>1. ASSUME NEW e \in Peers, RemoteLeaderChangedGossip(e[2], e[1])
          PROVE  IndInv'
      <4>1. e[1] \in Nodes /\ e[2] \in Nodes
        BY DEF Peers
      <4> QED
        BY <2>1, <2>3, <3>1, <4>1, GossipInv
    <3>2. ASSUME Quiet, NEW g \in Groups, GainLeadership(g)
          PROVE  IndInv'
      BY <2>1, <2>3, <3>2, GainInv
    <3> QED
      BY <2>3, <3>1, <3>2 DEF NetworkEvent
  <2> QED
    BY <1>5, <2>2, <2>3 DEF Event
<1> QED
  BY <1>1, <1>2, <1>3, <1>4, <1>5 DEF Next

(* The inductive invariant holds of every behaviour. *)
THEOREM Invariance == Spec => []IndInv
<1>1. Init => IndInv
  BY InitInv
<1>2. IndInv /\ [Next]_vars => IndInv'
  BY NextInv
<1> QED
  BY <1>1, <1>2, PTL DEF Spec

(* The types, and with them that the log of an RM holds Prepared and then  *)
(* at most one of Committed and Aborted, whatever Commits and Aborts are   *)
(* sent again and whoever leads.                                           *)
THEOREM TypeCorrect == Spec => []TypeOK
<1>1. IndInv => TypeOK
  BY DEF IndInv
<1> QED
  BY <1>1, Invariance, PTL

(* A PLm that a leader learns of is the one its ES waits for: the unwraps  *)
(* of the PLm handlers succeed.                                            *)
THEOREM PLmsExpected == Spec => []PLmExpected
<1>1. IndInv => PLmExpected
  <2> SUFFICES ASSUME IndInv, NEW n \in RMNodes, inbox[n] # <<>>, Head(inbox[n]).type = "PLm"
               PROVE  rm[n].st \in CASE Head(inbox[n]).plm = "Prepared" ->
                                          {"InsertingPrepared", "InsertingPreparedAborted"}
                                     [] Head(inbox[n]).plm = "Committed" -> {"InsertingCommitted"}
                                     [] Head(inbox[n]).plm = "Aborted" -> {"InsertingAborted"}
    BY DEF PLmExpected
  <2> DEFINE x == Inserting(rm[n].st)
  <2>1. /\ n \in Nodes /\ rm[n].st \in RMSt \cup Unprepared /\ Pipeline(n)
        /\ inbox[n] \in Seq(Items(Messages, PLms))
    BY NodeKinds, StateTypes DEF IndInv, TypeOK, PipelineInv, NetInv, NetType
  <2>2. ~NoPLm(inbox[n])
    BY <2>1, NoPLmTail
  <2>3. x \in PLms /\ OnePLm(inbox[n], x)
    BY <2>1, <2>2, InsertingFacts DEF Pipeline, NothingPending, Gathered, Persisted
  <2>4. Head(inbox[n]).plm = x
    <3>1. Head(inbox[n]) = PLm(x)
      BY <2>1, <2>3, OnePLmTail
    <3> QED
      BY <3>1 DEF PLm
  <2>5. /\ x = "Prepared" => rm[n].st \in {"InsertingPrepared", "InsertingPreparedAborted"}
        /\ x = "Committed" => rm[n].st = "InsertingCommitted"
        /\ x = "Aborted" => rm[n].st = "InsertingAborted"
    BY <2>1, InsertingFacts DEF RMSt, Unprepared, None
  <2> HIDE DEF x
  <2> QED
    BY <2>3, <2>4, <2>5 DEF PLms
<1> QED
  BY <1>1, Invariance, PTL

(* A leader that has processed all of the log holds what a follower has    *)
(* replayed, so that losing the Leadership or giving a snapshot neither    *)
(* loses a prepared transaction nor invents one.                           *)
THEOREM FollowersAlwaysAgree == Spec => []FollowersAgree
<1>1. IndInv => FollowersAgree
  <2> SUFFICES ASSUME IndInv, NEW n \in RMNodes, Quiet, status[n] = "leader",
                      log_gen[Gid(n)] = Gen(n), next_insert[n] = NoInsert
               PROVE  reconfig_snapshot(rm[n]) = Replay(log_plms[Gid(n)])
    BY DEF FollowersAgree
  <2>1. n \in Nodes /\ rm[n].st \in RMSt \cup Unprepared
    BY NodeKinds, StateTypes DEF IndInv, TypeOK
  <2>2. inbox[n] = <<>>
    BY <2>1 DEF Quiet
  <2>3. Active(n)
    BY <2>2 DEF Active
  <2>4. log_plms[Gid(n)] = Expected(n)
    BY <2>3 DEF IndInv, LogInv, Agrees
  <2>5. \A x : ~Persisted(n, x)
    <3>1. NoPLm(inbox[n])
      BY <2>2 DEF NoPLm
    <3>2. \A x : ~OnePLm(inbox[n], x)
      BY <3>1, OnePLmSome
    <3>3. next_insert[n].plms = <<>>
      BY DEF NoInsert
    <3>4. \A x : <<x>> # <<>>
      OBVIOUS
    <3> QED
      BY <3>2, <3>3, <3>4 DEF Persisted
  <2>6. CASE rm[n].st \in {"None", "WaitingInsertingPrepared", "InsertingPrepared",
                           "InsertingPreparedAborted"}
    <3>1. Expected(n) = <<>>
      BY <2>5, <2>6, ExpectedFacts
    <3>2. reconfig_snapshot(rm[n]) = "None"
      BY <2>6 DEF reconfig_snapshot, Unprepared
    <3> QED
      BY <2>4, <3>1, <3>2, ReplayFacts
  <2>7. CASE rm[n].st \in {"Prepared", "InsertingCommitted", "InsertingAborted"}
    <3>1. Expected(n) = <<"Prepared">>
      BY <2>5, <2>7, ExpectedFacts
    <3>2. reconfig_snapshot(rm[n]) = "Follower"
      BY <2>7 DEF reconfig_snapshot, Unprepared
    <3> QED
      BY <2>4, <3>1, <3>2, ReplayFacts
  <2>8. CASE rm[n].st = "Committed"
    <3>1. Expected(n) = <<"Prepared", "Committed">>
      BY <2>8, ExpectedFacts
    <3>2. reconfig_snapshot(rm[n]) = "Committed"
      BY <2>8 DEF reconfig_snapshot, Unprepared
    <3> QED
      BY <2>4, <3>1, <3>2, ReplayFacts
  <2>9. CASE rm[n].st = "Aborted"
    <3>1. Expected(n) = <<"Prepared", "Aborted">>
      BY <2>9, ExpectedFacts
    <3>2. reconfig_snapshot(rm[n]) = "Aborted"
      BY <2>9 DEF reconfig_snapshot, Unprepared
    <3> QED
      BY <2>4, <3>1, <3>2, ReplayFacts
  <2> QED
    BY <2>1, <2>6, <2>7, <2>8, <2>9 DEF RMSt, Unprepared
<1> QED
  BY <1>1, Invariance, PTL

(* The client hears of success only once every RM is prepared for good,    *)
(* and its request is only started anew if no RM ever commits this one.    *)
THEOREM ReplyIsAlwaysOutcome == Spec => []ReplyIsOutcome
<1>1. IndInv => ReplyIsOutcome
  <2> SUFFICES ASSUME IndInv, NEW r \in RMs
               PROVE  /\ reply = "committed" =>
                           log_plms[r] \in {<<"Prepared">>, <<"Prepared", "Committed">>}
                      /\ reply = "retried" => log_plms[r] # <<"Prepared", "Committed">>
    BY DEF ReplyIsOutcome
  <2>1. log_plms[r] \in
          {<<>>, <<"Prepared">>, <<"Prepared", "Committed">>, <<"Prepared", "Aborted">>}
    BY DEF IndInv, TypeOK
  <2>2. /\ log_plms[r] = <<"Prepared", "Committed">> => AllPrepared
        /\ log_plms[r] = <<"Prepared", "Aborted">> => Doomed
        /\ reply = "committed" => AllPrepared
        /\ reply = "retried" => Doomed
    BY DEF IndInv, OutcomeInv
  <2>3. AllPrepared => log_plms[r] # <<>>
    BY DEF AllPrepared
  <2> QED
    BY <2>1, <2>2, <2>3, NotBoth
<1> QED
  BY <1>1, Invariance, PTL

(* Only the insertion of a bundle adds to a log, and what it adds is the   *)
(* PLm that the leader waits for.                                          *)
LEMMA LogStep ==
  ASSUME IndInv, [Next]_vars
  PROVE  UNCHANGED log_plms \/ \E n \in RMNodes, x \in PLms : Inserts(n, x)
<1>1. ASSUME Quiet, NEW n \in Nodes, maybe_start_insert(n), UNCHANGED esVars
      PROVE  UNCHANGED log_plms \/ \E y \in RMNodes, x \in PLms : Inserts(y, x)
  <2>1. UNCHANGED log_plms \/ \E x \in PLms : Inserts(n, x)
    BY <1>1, InsertFacts DEF esVars
  <2> QED
    BY <2>1 DEF Inserts
<1>2. CASE UNCHANGED vars
  BY <1>2 DEF vars, netVars, logVars
<1>3. CASE \E n \in TMNodes : start_orig(n)
  BY <1>3 DEF start_orig, logVars
<1>4. CASE Handle
  BY <1>4 DEF Handle, HandleTMInput, HandleRMInput, logVars
<1>5. CASE NetworkWork /\ UNCHANGED esVars
  BY <1>1, <1>5 DEF NetworkWork, deliver_blocked_messages, Receive, process_bundle, logVars
<1>6. CASE \E n \in RMNodes : start_inserting(n)
  BY <1>6 DEF start_inserting, logVars
<1>7. CASE Event
  BY <1>7 DEF Event, BecomeFollower, LoseLeadership, NetworkEvent, RemoteLeaderChangedGossip,
              GainLeadership, logVars
<1> QED
  BY <1>2, <1>3, <1>4, <1>5, <1>6, <1>7 DEF Next, Work

(* What each log means. *)
LEMMA OutcomeFacts ==
  /\ Outcome(<<>>) = "working"
  /\ Outcome(<<"Prepared">>) = "prepared"
  /\ Outcome(<<"Prepared", "Committed">>) = "committed"
  /\ Outcome(<<"Prepared", "Aborted">>) = "aborted"
BY ReplayFacts DEF Outcome

(* The logs of the RMs implement TransactionCommit: whichever TM decides   *)
(* and however often leaders change, no RM persists Committed before every *)
(* RM has persisted Prepared, and none persists another outcome.           *)
THEOREM Refinement == Spec => ImplementsTransactionCommit
<1> DEFINE outcome == [r \in RMs |-> Outcome(log_plms[r])]
<1>1. Init => Abstract!Init
  <2> SUFFICES ASSUME Init
               PROVE  Abstract!Init
    OBVIOUS
  <2>1. \A r \in RMs : log_plms[r] = <<>>
    BY NodeKinds DEF Init, NetInit
  <2> QED
    BY <2>1, OutcomeFacts DEF Abstract!Init
<1>2. IndInv /\ [Next]_vars => [Abstract!Next]_outcome
  <2> SUFFICES ASSUME IndInv, [Next]_vars, ~UNCHANGED log_plms
               PROVE  Abstract!Next
    OBVIOUS
  <2>1. PICK n \in RMNodes, x \in PLms : Inserts(n, x)
    BY LogStep
  <2> DEFINE r == Gid(n)
  <2>2. /\ r \in RMs /\ RMs \subseteq Groups
        /\ log_plms \in [Groups -> Seq(PLms)]
        /\ rm[n].st \in RMSt \cup Unprepared
        /\ RMSound(rm[n])
    BY NodeKinds, StateTypes DEF IndInv, NetInv, NetType, OutcomeInv, TypeOK
  <2>3. \A q \in RMs :
          /\ log_plms[q] \in
               {<<>>, <<"Prepared">>, <<"Prepared", "Committed">>, <<"Prepared", "Aborted">>}
          /\ log_plms[q] = <<"Prepared", "Committed">> => AllPrepared
          /\ log_plms[q] = <<"Prepared", "Aborted">> => Doomed
          /\ AllPrepared => log_plms[q] # <<>>
    BY DEF IndInv, TypeOK, OutcomeInv, AllPrepared
  <2>4. \A l \in Seq(PLms) :
          log_plms' = [log_plms EXCEPT ![r] = l] => outcome' = [outcome EXCEPT ![r] = Outcome(l)]
    BY <2>2
  <2>5. \A q \in RMs : outcome[q] = Outcome(log_plms[q])
    OBVIOUS
  <2>6. /\ <<"Prepared">> \in Seq(PLms)
        /\ <<"Prepared", "Committed">> \in Seq(PLms)
        /\ <<"Prepared", "Aborted">> \in Seq(PLms)
    BY DEF PLms
  <2> HIDE DEF outcome
  <2>7. CASE x = "Prepared"
    <3>1. log_plms[r] = <<>> /\ log_plms' = [log_plms EXCEPT ![r] = <<"Prepared">>]
      BY <2>1, <2>7 DEF Inserts
    <3>2. outcome[r] = "working" /\ outcome' = [outcome EXCEPT ![r] = "prepared"]
      BY <2>2, <2>4, <2>5, <2>6, <3>1, OutcomeFacts
    <3> QED
      BY <2>2, <3>2 DEF Abstract!Next, Abstract!Prepare, Abstract!Persist, outcome
  <2>8. CASE x = "Committed"
    <3>1. /\ log_plms[r] = <<"Prepared">>
          /\ log_plms' = [log_plms EXCEPT ![r] = <<"Prepared", "Committed">>]
          /\ Inserting(rm[n].st) = "Committed"
      BY <2>1, <2>8 DEF Inserts
    <3>2. AllPrepared
      BY <2>2, <3>1, InsertingFacts DEF RMSound, RMSt, Unprepared, None
    <3>3. \A q \in RMs : log_plms[q] \in {<<"Prepared">>, <<"Prepared", "Committed">>}
      BY <2>3, <3>2, NotBoth
    <3>4. /\ outcome[r] = "prepared" /\ outcome' = [outcome EXCEPT ![r] = "committed"]
          /\ \A q \in RMs : outcome[q] \in {"prepared", "committed"}
      BY <2>2, <2>4, <2>5, <2>6, <3>1, <3>3, OutcomeFacts
    <3> QED
      BY <2>2, <3>4 DEF Abstract!Next, Abstract!Commit, Abstract!Persist, outcome
  <2>9. CASE x = "Aborted"
    <3>1. /\ log_plms[r] = <<"Prepared">>
          /\ log_plms' = [log_plms EXCEPT ![r] = <<"Prepared", "Aborted">>]
          /\ Inserting(rm[n].st) = "Aborted"
      BY <2>1, <2>9 DEF Inserts
    <3>2. Doomed
      BY <2>2, <3>1, InsertingFacts DEF RMSound, RMSt, Unprepared, None
    <3>3. \A q \in RMs : log_plms[q] \in {<<>>, <<"Prepared">>, <<"Prepared", "Aborted">>}
      BY <2>3, <3>2, NotBoth
    <3>4. /\ outcome[r] = "prepared" /\ outcome' = [outcome EXCEPT ![r] = "aborted"]
          /\ \A q \in RMs : outcome[q] # "committed"
      BY <2>2, <2>4, <2>5, <2>6, <3>1, <3>3, OutcomeFacts
    <3> QED
      BY <2>2, <3>4 DEF Abstract!Next, Abstract!Abort, Abstract!Persist, outcome
  <2> QED
    BY <2>7, <2>8, <2>9 DEF PLms
<1> QED
  BY <1>1, <1>2, Invariance, PTL DEF Spec, ImplementsTransactionCommit, Abstract!Spec
=============================================================================
