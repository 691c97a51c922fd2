------------------------------ MODULE MCZramSetup ------------------------------
(***************************************************************************)
(* Small instances of ZramSetup for TLC.                                   *)
(***************************************************************************)
EXTENDS ZramSetup, TLC

\* Requests differ in nothing but their name.
ReqSymmetry == Permutations(Req)
===============================================================================
