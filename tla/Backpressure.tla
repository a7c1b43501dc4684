---------------------------- MODULE Backpressure ----------------------------
(***************************************************************************)
(* What the overflow flag of TestClient promises to parallel senders: at   *)
(* most one of them at a time is recovering from a full pool, only that    *)
(* one ends the recovery, and while it lasts every other sender submits at *)
(* most Slack more transactions.                                           *)
(***************************************************************************)
EXTENDS Naturals

CONSTANTS
  Senders,  \* who submits
  Free,     \* nobody recovers
  Slack     \* Slack[s]: what s may still submit while another recovers

VARIABLES
  holder,   \* the sender that is recovering, or Free
  slips     \* slips[s]: submissions of s during another sender's recovery

vars == <<holder, slips>>

Init == holder = Free /\ slips = [s \in Senders |-> 0]

Grant(s) ==
  /\ holder = Free
  /\ holder' = s
  /\ slips' = [t \in Senders |-> 0]

Yield(s) ==
  /\ holder = s
  /\ holder' = Free
  /\ UNCHANGED slips

Slip(s) ==
  /\ holder \notin {Free, s}
  /\ slips[s] < Slack[s]
  /\ slips' = [slips EXCEPT ![s] = @ + 1]
  /\ UNCHANGED holder

Next == \E s \in Senders : Grant(s) \/ Yield(s) \/ Slip(s)

Spec == Init /\ [][Next]_vars
=============================================================================
