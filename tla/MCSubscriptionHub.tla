-------------------------- MODULE MCSubscriptionHub --------------------------
(* Instances of SubscriptionHub for TLC.                                   *)
EXTENDS SubscriptionHub
=============================================================================
