------------------------------ MODULE MCPubSub ------------------------------
(* Values of the constants of PubSub for TLC.                                *)
EXTENDS PubSub, TLC

CONSTANTS s1, s2, t1

SubscriptionSymmetry == Permutations(Subscriptions)
=============================================================================
