----------------------------- MODULE MCSession ------------------------------
(***************************************************************************)
(* Instances of Session for TLC.                                           *)
(***************************************************************************)
EXTENDS Session, TLC

MCSignIns == {"login", "googleLogin"}
MCSignInsOne == {"login"}

\* No property of the run with two tabs tells them apart.
TabSymmetry == Permutations(Tabs)
=============================================================================
