------------------------------ MODULE MCServer ------------------------------
(***************************************************************************)
(* Instances of Server for TLC: builds in which at most one file fails to  *)
(* load besides admin_setup, two of the seven sample influencers, and two  *)
(* addresses, one of them in two spellings.                                *)
(***************************************************************************)
EXTENDS Server

CONSTANTS p0, p1, p2, ann, Ann, bob

Loadable == Modules \ {"admin_setup"}

Sound == [m \in Modules |-> IF m = "admin_setup" THEN "other" ELSE "ok"]

MCImages == {[Sound EXCEPT ![m] = o] : m \in Loadable, o \in Outcomes}
OneImage == {Sound}

MCSamples == <<p1, p2>>
MCNormal == [s \in Spellings |-> IF s = Ann THEN ann ELSE s]
=============================================================================
