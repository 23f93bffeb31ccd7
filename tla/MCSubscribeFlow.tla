-------------------------- MODULE MCSubscribeFlow ---------------------------
(***************************************************************************)
(* Instances of SubscribeFlow for TLC.                                     *)
(***************************************************************************)
EXTENDS SubscribeReplica, TLC
=============================================================================
