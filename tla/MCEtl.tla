------------------------------- MODULE MCEtl -------------------------------
(***************************************************************************)
(* A small instance of Etl: blocks 0 to 2, one of them executed twice or   *)
(* left out by a log, and phases measured once, twice or not at all.       *)
(***************************************************************************)
EXTENDS Etl, TLC

CONSTANTS r1, r2

T(h, t) == [height |-> h, time |-> t]
A(h, p, v) == [height |-> h, phase |-> p, value |-> v]

SmallTmLogs ==
  {<<>>, <<T(1, 1), T(1, 2), T(2, 1)>>, <<T(0, 2), T(2, 3)>>}

SmallAbciLogs ==
  {<<>>, <<A(1, "begin", 2), A(2, "end", 1), A(1, "begin", 0)>>}

\* The runs differ in nothing but their logs, which Init chooses.
RunSymmetry == Permutations({r1, r2})
=============================================================================
