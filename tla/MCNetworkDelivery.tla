-------------------------- MODULE MCNetworkDelivery --------------------------
(* NetworkDelivery for TLC: leaders of g1 send to leaders of g2. *)
EXTENDS NetworkDelivery, TLC

CONSTANTS g1, g2

MCGroups == {g1, g2}
MCLinks == {<<g1, g2>>}
MCLeaderChanges == {g1 :> 2 @@ g2 :> 0, g1 :> 1 @@ g2 :> 1}
OneLeaderChange == {g1 :> 1 @@ g2 :> 1}
=============================================================================
