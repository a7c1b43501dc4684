------------------------------ MODULE LoadTest ------------------------------
(***************************************************************************)
(* The two ether load tests: basic_eth_test (src/feth/src/commands/tests/  *)
(* basic.rs) makes --count rounds, waits for a new block before each and   *)
(* sleeps --delay seconds after it; long_run_test (long_run.rs) goes on    *)
(* for ever and waits for --delay blocks after each round.  In a round     *)
(* every source account, on a thread of rayon's, asks for its nonce and    *)
(* sends one transaction with it.  There is no retry: what fails in a      *)
(* round is left out.                                                      *)
(***************************************************************************)
EXTENDS EvmNode

CONSTANTS
  Rounds,   \* --count; bound: the rounds of the long test that are looked at
  Delays,   \* what --delay may be
  MaxLead   \* bound: blocks that the chain gets ahead of last_height

ASSUME RoundsAssumption == Rounds \in Nat
ASSUME DelaysAssumption == Delays \subseteq Nat /\ MaxLead \in Nat

VARIABLES
  test,     \* "basic" or "long"
  delay,    \* what was asked for with --delay
  sources,  \* source_keys: the accounts with enough balance
  height,   \* the block number; 0 when the program starts
  pc,       \* where the main thread is
  last,     \* last_height
  round,    \* rounds begun
  thread,   \* thread[a]: where the thread of account a is
  nonce,    \* nonce[a]: what pending_nonce answered; 0 outside of a round
  succeed   \* total_succeed

options == <<test, delay>>
mainVars == <<sources, pc, last, round>>
threadVars == <<thread, nonce, succeed>>
vars == <<options, mainVars, threadVars, height, nodeVars>>

Init ==
  /\ NodeInit
  /\ test \in {"basic", "long"}
  /\ delay \in Delays
  /\ sources = {}
  /\ height = 0 /\ last = 0 /\ round = 0 /\ succeed = 0
  /\ pc = "start"
  /\ thread = [a \in Accounts |-> "idle"]
  /\ nonce = [a \in Accounts |-> 0]

NodeFault == Fault /\ UNCHANGED <<ledger, committed, reverted, late>>

\* An account whose balance is too small, or cannot be read, is left out; the
\* other requests are unwrapped.
Start ==
  /\ pc = "start"
  /\ \/ /\ sources' \in SUBSET Accounts
        /\ pc' = IF Rounds = 0 \/ sources' = {} THEN "done"
                 ELSE IF test = "basic" THEN "wait" ELSE "begin"
        /\ last' = height
        /\ UNCHANGED nodeVars
     \/ NodeFault /\ pc' = "crashed" /\ UNCHANGED <<sources, last>>
  /\ UNCHANGED <<round, threadVars>>

\* Blocks that a wait lasts.  The basic test waits for the next block whatever
\* --delay says, and sleeps that many seconds, which are left out.
Gap == IF test = "basic" THEN 1 ELSE delay

\* Mutant of WaitOver: last_height stays what it was at the start.
WaitKeepsLast ==
  /\ pc = "wait"
  /\ \/ height >= last + Gap /\ pc' = "begin" /\ UNCHANGED nodeVars
     \/ NodeFault /\ pc' = "crashed"
  /\ UNCHANGED <<last, sources, round, threadVars>>

\* block_number().unwrap() ends the program if the request fails.
WaitOver ==
  /\ pc = "wait"
  /\ \/ height >= last + Gap /\ pc' = "begin" /\ last' = height /\ UNCHANGED nodeVars
     \/ NodeFault /\ pc' = "crashed" /\ UNCHANGED last
  /\ UNCHANGED <<sources, round, threadVars>>

\* The long test goes on; the model stops here.
LookedAt == test = "long" /\ pc = "begin" /\ round = Rounds

BeginRound ==
  /\ pc = "begin" /\ ~LookedAt
  /\ round' = round + 1
  /\ thread' = [a \in Accounts |-> IF a \in sources THEN "nonce" ELSE "idle"]
  /\ pc' = "round"
  /\ UNCHANGED <<sources, last, nonce, succeed, nodeVars>>

\* Mutant of EndRound: one round more than --count.
EndRoundLate ==
  /\ pc = "round" /\ \A a \in Accounts : thread[a] = "idle"
  /\ pc' = IF test = "basic" /\ round > Rounds THEN "done" ELSE "wait"
  /\ UNCHANGED <<sources, last, round, threadVars, nodeVars>>

\* Mutant of EndRound: one round less than --count.
EndRoundEarly ==
  /\ pc = "round" /\ \A a \in Accounts : thread[a] = "idle"
  /\ pc' = IF test = "basic" /\ round + 1 >= Rounds THEN "done" ELSE "wait"
  /\ UNCHANGED <<sources, last, round, threadVars, nodeVars>>

EndRound ==
  /\ pc = "round" /\ \A a \in Accounts : thread[a] = "idle"
  /\ pc' = IF test = "basic" /\ round = Rounds THEN "done" ELSE "wait"
  /\ UNCHANGED <<sources, last, round, threadVars, nodeVars>>

Main == Start \/ WaitOver \/ BeginRound \/ EndRound
-----------------------------------------------------------------------------
Tx(a) == [from |-> a, nonce |-> nonce[a], pay |-> <<a, round>>]

\* A thread's part of the round is over, and its nonce is out of scope.
Idle(a) == thread' = [thread EXCEPT ![a] = "idle"] /\ nonce' = [nonce EXCEPT ![a] = 0]

\* pending_nonce asks until it is answered.
PendingNonce(a) ==
  /\ thread[a] = "nonce"
  /\ thread' = [thread EXCEPT ![a] = "send"]
  /\ nonce' = [nonce EXCEPT ![a] = Pending(a)]
  /\ UNCHANGED <<nodeVars, succeed, mainVars>>

\* distribution_simple: it signs offline, since all three values are given.
SendOk(a) ==
  /\ thread[a] = "send"
  /\ Accept(Tx(a))
  /\ Idle(a)
  /\ succeed' = succeed + 1
  /\ UNCHANGED mainVars

\* Mutant of SendErr: an error is followed by another try in the same round.
SendErrRetries(a) ==
  /\ thread[a] = "send"
  /\ \E text \in ErrorTexts : Refuse(Tx(a), text)
  /\ thread' = [thread EXCEPT ![a] = "nonce"]
  /\ UNCHANGED <<nonce, succeed, mainVars>>

SendErr(a) ==
  /\ thread[a] = "send"
  /\ \E text \in ErrorTexts : Refuse(Tx(a), text)
  /\ Idle(a)
  /\ UNCHANGED <<succeed, mainVars>>

Thread(a) == PendingNonce(a) \/ SendOk(a) \/ SendErr(a)
-----------------------------------------------------------------------------
MainStep == Main /\ UNCHANGED <<options, height>>

ThreadStep(a) == Thread(a) /\ UNCHANGED <<options, height>>

Block ==
  /\ height < last + MaxLead
  /\ height' = height + 1
  /\ UNCHANGED <<options, mainVars, threadVars, nodeVars>>

NodeStep ==
  /\ DeliverLate \/ \E a \in Accounts : Mine(a)
  /\ UNCHANGED <<options, mainVars, threadVars, height>>

\* The end of the program, or of the rounds that are looked at.
Ended ==
  /\ pc \in {"done", "crashed"} \/ LookedAt
  /\ UNCHANGED vars

Next == \/ MainStep
        \/ \E a \in Accounts : ThreadStep(a)
        \/ Block \/ NodeStep \/ Ended

Spec == Init /\ [][Next]_vars

\* The threads run, and the chain goes on making blocks.
FairSpec == /\ Spec
            /\ WF_vars(MainStep) /\ \A a \in Accounts : WF_vars(ThreadStep(a))
            /\ WF_vars(Block)
-----------------------------------------------------------------------------
(***************************************************************************)
(* Properties.                                                             *)
(***************************************************************************)
LoadPayments == Accounts \X (1..Rounds)
LoadTransactions == [from : Accounts, nonce : Nat, pay : LoadPayments]

\* Every variable stays in its type; a round never has an index without target.
TypeOK ==
  /\ test \in {"basic", "long"} /\ delay \in Delays
  /\ sources \subseteq Accounts
  /\ pc \in {"start", "wait", "begin", "round", "done", "crashed"}
  /\ height \in Nat /\ last \in 0..height
  /\ round \in 0..Rounds
  /\ thread \in [Accounts -> {"idle", "nonce", "send"}]
  /\ nonce \in [Accounts -> Nat]
  /\ succeed \in Nat
  /\ ledger \in [Accounts -> Seq(LoadPayments)]
  /\ late \subseteq LoadTransactions

\* What --delay is documented to be, "Delay in blocks" (commands/mod.rs:517): by
\* the time round r begins the chain has made (r - 1) * --delay blocks.
DelayInBlocks == round >= 1 => height >= delay * (round - 1)

\* However long rounds take, the long test keeps to --delay (long_run.rs:81-90),
\* and the basic test, which does not, still makes at most one round per block
\* (basic.rs:275-284).
Paced == IF test = "basic" THEN height >= round ELSE DelayInBlocks

\* Within an account's transactions the rounds come in order and none comes
\* twice, although a request that timed out may be accepted rounds later.
RoundsInOrder ==
  \A a \in Accounts : \A i, j \in 1..Len(ledger[a]) :
    i < j => ledger[a][i][2] < ledger[a][j][2]

\* A test that is not ended by a failing request makes all its rounds.
AllRounds ==
  <>(\/ pc = "crashed" \/ LookedAt
     \/ pc = "done" /\ (round = Rounds \/ sources = {}))
=============================================================================
