----------------------------- MODULE BlockFetch -----------------------------
(***************************************************************************)
(* The block command (eth_blocks in src/feth/src/main.rs): it reports the  *)
(* blocks from a height on with their distance in time, up to a number of  *)
(* blocks or for ever, while the chain grows under it and requests fail.   *)
(***************************************************************************)
EXTENDS Naturals, Sequences

CONSTANTS
  Counts,     \* what --count may be; its default is 0
  None,       \* the option is not given
  Gaps,       \* seconds between two blocks
  MaxHead,    \* bound: the height of the chain
  MaxFaults   \* bound: requests that fail

ASSUME CountsAssumption == Counts \subseteq Nat /\ 0 \in Counts
ASSUME NoneAssumption == None \notin Nat
ASSUME GapsAssumption == Gaps \subseteq Nat
ASSUME BoundsAssumption == {MaxHead, MaxFaults} \subseteq Nat

Heights == 0..MaxHead

VARIABLES
  time,      \* time[h + 1]: the timestamp of block h
  opts,      \* the options
  pc,        \* where the program is
  start,     \* start
  next,      \* the number of the block it asks for
  fetched,   \* the timestamp of the block before
  reported,  \* the lines so far: <<number, block_time>>
  faults     \* faults so far

vars == <<time, opts, pc, start, next, fetched, reported, faults>>
programVars == <<pc, start, next, fetched, reported>>

Options == [start : Heights \cup {None}, count : Counts, follow : BOOLEAN]

Head0 == Len(time) - 1
TimeOf(h) == time[h + 1]

Init ==
  /\ time = <<0>>
  /\ opts \in Options
  /\ pc = "begin"
  /\ start = 0 /\ next = 0 /\ fetched = 0
  /\ reported = <<>>
  /\ faults = 0

Fault == faults < MaxFaults /\ faults' = faults + 1

\* The height to start from: an option, or the newest block.
Begin ==
  /\ pc = "begin"
  /\ \/ opts.start # None /\ start' = opts.start /\ pc' = "check" /\ UNCHANGED faults
     \/ opts.start = None /\ start' = Head0 /\ pc' = "check" /\ UNCHANGED faults
     \/ opts.start = None /\ Fault /\ pc' = "panicked" /\ UNCHANGED start
  /\ UNCHANGED <<time, opts, next, fetched, reported>>

Check ==
  /\ pc = "check"
  /\ IF ~opts.follow /\ opts.count = 0
       THEN pc' = "panicked" /\ UNCHANGED next
       ELSE pc' = "before" /\ next' = IF start = 0 THEN 0 ELSE start - 1
  /\ UNCHANGED <<time, opts, start, fetched, reported, faults>>

\* block_with_tx_hashes: an error and a block that is not there yet are the
\* same, it asks again.
AskAgain ==
  /\ pc \in {"before", "range"}
  /\ \/ next > Head0 /\ UNCHANGED faults
     \/ Fault
  /\ UNCHANGED <<time, opts, programVars>>

\* Mutant of FetchBefore: the block before the first one is not fetched.
FetchBeforeSkipped ==
  /\ pc = "before"
  /\ next' = start
  /\ pc' = "range"
  /\ UNCHANGED <<time, opts, start, fetched, reported, faults>>

FetchBefore ==
  /\ pc = "before" /\ next <= Head0
  /\ fetched' = TimeOf(next)
  /\ next' = start
  /\ pc' = "range"
  /\ UNCHANGED <<time, opts, start, reported, faults>>

\* Mutant of InRange: the range is closed at both ends.
InRangeClosed == opts.follow \/ next <= start + opts.count

InRange == opts.follow \/ next < start + opts.count

\* Mutant of Fetch: a block that does not come is left out.
FetchSkips ==
  /\ pc = "range" /\ InRange
  /\ IF next <= Head0
       THEN /\ reported' = Append(reported, <<next, TimeOf(next) - fetched>>)
            /\ fetched' = TimeOf(next)
       ELSE UNCHANGED <<reported, fetched>>
  /\ next' = next + 1
  /\ UNCHANGED <<time, opts, pc, start, faults>>

Fetch ==
  /\ pc = "range" /\ InRange /\ next <= Head0
  /\ reported' = Append(reported, <<next, TimeOf(next) - fetched>>)
  /\ fetched' = TimeOf(next)
  /\ next' = next + 1
  /\ UNCHANGED <<time, opts, pc, start, faults>>

End ==
  /\ pc = "range" /\ ~InRange
  /\ pc' = "done"
  /\ UNCHANGED <<time, opts, start, next, fetched, reported, faults>>

Program == Begin \/ Check \/ FetchBefore \/ Fetch \/ End

Grow ==
  /\ Head0 < MaxHead
  /\ \E g \in Gaps : time' = Append(time, TimeOf(Head0) + g)
  /\ UNCHANGED <<opts, programVars, faults>>

Stopped == pc \in {"done", "panicked"} /\ UNCHANGED vars

Next == Program \/ AskAgain \/ Grow \/ Stopped

Spec == Init /\ [][Next]_vars
FairSpec == Spec /\ WF_vars(Program) /\ WF_vars(Grow)
-----------------------------------------------------------------------------
(***************************************************************************)
(* Properties.                                                             *)
(***************************************************************************)

\* Every variable stays in its type, and without --follow no block is reported
\* beyond the number asked for.
TypeOK ==
  /\ time \in Seq(Nat) /\ Len(time) \in 1..(MaxHead + 1)
  /\ opts \in Options
  /\ pc \in {"begin", "check", "before", "range", "done", "panicked"}
  /\ start \in Heights /\ next \in 0..(MaxHead + 1)
  /\ fetched \in Nat
  /\ reported \in Seq(Heights \X Nat)
  /\ ~opts.follow => Len(reported) <= opts.count
  /\ faults \in 0..MaxFaults

\* The report has every block from the first one on, once and in order, each
\* with its distance to the block before it, whatever fails on the way.
ReportGapless ==
  \A i \in 1..Len(reported) :
    LET h == start + i - 1 IN
      /\ reported[i][1] = h
      /\ reported[i][2] = (IF h = 0 THEN 0 ELSE TimeOf(h) - TimeOf(h - 1))

\* With --follow every block from the first one on is reported in the end;
\* without it the blocks that were asked for are, once the chain has them.
EveryBlockReported ==
  \A h \in Heights :
    (pc = "range" /\ h >= start /\ (opts.follow \/ h < start + opts.count))
      ~> (\E i \in 1..Len(reported) : reported[i][1] = h)
=============================================================================
