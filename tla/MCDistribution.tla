--------------------------- MODULE MCDistribution ---------------------------
(***************************************************************************)
(* Small instances of Distribution for TLC.                                *)
(***************************************************************************)
EXTENDS Distribution, TLC

CONSTANTS s1, s2, a1   \* two senders and an account

SharedAccount == s1 :> a1 @@ s2 :> a1
SingleAccount == s1 :> a1
=============================================================================
