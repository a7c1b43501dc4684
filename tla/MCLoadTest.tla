----------------------------- MODULE MCLoadTest -----------------------------
(***************************************************************************)
(* A small instance of LoadTest.                                           *)
(***************************************************************************)
EXTENDS LoadTest

CONSTANTS a1, a2   \* two source accounts
=============================================================================
