------------------------------ MODULE MCZramAlloc ------------------------------
(***************************************************************************)
(* Small instances of ZramAlloc for TLC.                                   *)
(***************************************************************************)
EXTENDS ZramAlloc, TLC

\* Requests differ in nothing but their name.
ReqSymmetry == Permutations(Req)
===============================================================================
