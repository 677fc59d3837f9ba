--------------------------- MODULE NetworkDelivery ---------------------------
(***************************************************************************)
(* What the NetworkDriver guarantees to whatever runs above it.  The       *)
(* execution strategies are reduced to leaders that send each other        *)
(* numbered messages and note what is delivered to them.                   *)
(***************************************************************************)
EXTENDS NetworkDriver

CONSTANT
  MaxSent    \* bound on the messages of one leader

VARIABLES
  sent,       \* how many messages were sent from one node to another
  delivered   \* the numbers of those that were delivered, in order

vars == <<netVars, sent, delivered>>

Init ==
  /\ NetInit
  /\ sent = [e \in Linked |-> 0]
  /\ delivered = [e \in Linked |-> <<>>]

(* send_to_slave_leadership *)
SendMessage(n, g) ==
  LET to == <<g, leader_map[n][g]>>
  IN /\ status[n] = "leader"
     /\ <<n, to>> \in Linked
     /\ SumFunctionOnSet(sent, {e \in Linked : e[1] = n}) < MaxSent
     /\ UNCHANGED leader_map
     /\ sent' = [sent EXCEPT ![<<n, to>>] = @ + 1]
     /\ chan' = Outgoing(n, chan, [h \in {g} |-> [gen |-> Gen(n), number |-> sent'[<<n, to>>]]])
     /\ UNCHANGED <<logVars, status, bundleVars, network_buffer, inbox, delivered>>

(* handle_input *)
HandleInput(n) ==
  \E in \in Inputs(n) :
    LET item == in.item
    IN /\ inbox' = [inbox EXCEPT ![n] = in.rest]
       /\ chan' = in.queues
       /\ \/ /\ item.type = "RemoteLeaderChanged"
             /\ leader_map' = [leader_map EXCEPT ![n] = RemoteLeaderChanged(@, item)]
             /\ UNCHANGED delivered
          \/ /\ item.type = "LeaderChanged"
             /\ UNCHANGED <<leader_map, delivered>>
          \/ /\ item.type = "Payload"
             /\ delivered' = [delivered EXCEPT ![<<<<item.from, item.payload.gen>>, n>>] =
                                Append(@, item.payload.number)]
             /\ UNCHANGED leader_map
       /\ UNCHANGED <<logVars, status, bundleVars, network_buffer, sent>>

(* Queues are drained, bundles are inserted and inputs are handled: as long *)
(* as there is such work, some of it is done.  Leader changes, gossip and  *)
(* sending need not happen.                                                *)
Work ==
  \/ \E n \in Nodes : HandleInput(n)
  \/ NetworkWork /\ UNCHANGED <<sent, delivered>>

Next ==
  \/ Work
  \/ NetworkEvent /\ UNCHANGED <<sent, delivered>>
  \/ /\ Quiet
     /\ \/ \E n \in Nodes : LoseLeadership(n) /\ UNCHANGED <<sent, delivered>>
        \/ \E n \in Nodes, g \in Groups : SendMessage(n, g)

Spec == Init /\ [][Next]_vars
LiveSpec == Spec /\ WF_vars(Work)
-----------------------------------------------------------------------------
(* Properties *)

(* Of the messages one leader sends another, those delivered are the first *)
(* ones, in the order sent: dropping stale messages and replacing or       *)
(* flushing a buffer never leaves a gap behind which something is          *)
(* delivered (NetworkDriver::receive, deliver_blocked_messages).           *)
NoGap == \A e \in Linked : delivered[e] = [i \in 1 .. Len(delivered[e]) |-> i]

(* A group acts on a message of a remote leader only after its own log     *)
(* names that Leadership or a later one, so that no later leader of the    *)
(* group can go back to an older remote leader.                            *)
PersistedBeforeDelivered ==
  \A e \in Linked :
    delivered[e] # <<>> => log_leader_map[Gid(e[2])][Gid(e[1])] >= Gen(e[1])

(* A leader with buffered messages has the RemoteLeaderChangedPLm that     *)
(* will unblock them under way: in its bundle, in the one inserted, or in  *)
(* the one it is processing, where a newer one may stand in for it.        *)
BufferUnblocks ==
  \A n \in Nodes, g \in Groups :
    LET k == network_buffer[n][g].gen
    IN network_buffer[n][g].payloads # <<>> =>
         \/ RLC(g, k) \in Range(remote_leader_changes[n]) \cup Range(next_insert[n].rlcs)
         \/ \E j \in k .. MaxGen : Unblock(g, j) \in Range(inbox[n])

(* What a leader sends another is delivered, unless one of them loses its  *)
(* Leadership first.                                                       *)
EventuallyDelivered ==
  \A e \in Linked :
    (Len(delivered[e]) < sent[e]) ~>
      \/ Len(delivered[e]) = sent[e]
      \/ \E n \in {e[1], e[2]} : log_gen[Gid(n)] > Gen(n)
=============================================================================
