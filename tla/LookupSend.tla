----------------------------- MODULE LookupSend -----------------------------
(***************************************************************************)
(* The commands of src/agent/src/lib.rs that leave the nonce of a          *)
(* transaction to the web3 library: distribute pays its targets one after  *)
(* the other and waits for each receipt; contract_deploy runs one task of  *)
(* the pool per contract, all at once, since the throttle never acts in    *)
(* the first call of a process (TaskPool); contract_call does the same     *)
(* with its arguments in the wrong order.  A process runs one command.     *)
(***************************************************************************)
EXTENDS EvmNode

CONSTANT N   \* targets, or contracts, of the command

ASSUME NAssumption == N \in Nat \ {0}

VARIABLES
  command,  \* what the process was started for
  key,      \* key[j]: the account that signs job j
  broken,   \* the jobs with a file or a key that cannot be read
  pc,       \* "run", or the Result the command returned
  at,       \* at[j]: where job j is, or how it ended
  nonce     \* nonce[j]: the nonce that was looked up for it

inputs == <<command, key, broken>>
vars == <<inputs, pc, at, nonce, nodeVars>>

Jobs == 1..N
Ends == {"ok", "reverted", "failed", "unseen", "panicked"}
Ended(j) == at[j] \in Ends

Init ==
  /\ NodeInit
  /\ command \in {"distribute", "deploy", "call"}
  /\ key \in [Jobs -> Accounts]
  /\ command = "distribute" => \A j \in Jobs : key[j] = key[1]
  /\ broken \in IF command = "distribute" THEN {{}} ELSE SUBSET Jobs
  /\ pc = "run"
  /\ at = [j \in Jobs |-> "idle"]
  /\ nonce = [j \in Jobs |-> 0]

Tx(j) == [from |-> key[j], nonce |-> nonce[j], pay |-> j]

Goto(j, l) == at' = [at EXCEPT ![j] = l]

NodeFault == Fault /\ UNCHANGED <<ledger, committed, reverted, late>>

\* Mutant of MayStart: the next target does not wait for the receipt.
StartAfterSend(j) ==
  command = "distribute" => \A i \in 1..(j - 1) : Ended(i) \/ at[i] = "wait"

\* One target after the other; the tasks of the pool in any order.
MayStart(j) == command = "distribute" => \A i \in 1..(j - 1) : Ended(i)

\* contract_call passes the secret key where the address of the contract is
\* expected, and the other way round; the first unwrap panics.
ArgumentsFit == command # "call"

Start(j) ==
  /\ at[j] = "idle" /\ MayStart(j)
  /\ Goto(j, IF j \in broken \/ ~ArgumentsFit THEN "panicked" ELSE "sign")
  /\ UNCHANGED <<nonce, nodeVars>>

\* Mutant of LookUp: the nonce of the last mined transaction, not the next one.
LookUpLast(j) ==
  /\ at[j] = "sign"
  /\ nonce' = [nonce EXCEPT ![j] = committed[key[j]] - 1]
  /\ Goto(j, "send")
  /\ UNCHANGED nodeVars

\* Whether the library counts pooled transactions is its affair.
LookUp(j) ==
  /\ at[j] = "sign"
  /\ \/ /\ \E n \in {committed[key[j]], Pending(key[j])} :
             nonce' = [nonce EXCEPT ![j] = n]
        /\ Goto(j, "send")
        /\ UNCHANGED nodeVars
     \/ NodeFault /\ Goto(j, "failed") /\ UNCHANGED nonce

SendOk(j) ==
  /\ at[j] = "send"
  /\ Accept(Tx(j))
  /\ Goto(j, "wait")
  /\ UNCHANGED nonce

\* Mutant of SendErr: a refused payment is signed and sent again.
SendErrRetries(j) ==
  /\ at[j] = "send"
  /\ \E text \in ErrorTexts : Refuse(Tx(j), text)
  /\ Goto(j, "sign")
  /\ UNCHANGED nonce

SendErr(j) ==
  /\ at[j] = "send"
  /\ \E text \in ErrorTexts : Refuse(Tx(j), text)
  /\ Goto(j, "failed")
  /\ UNCHANGED nonce

\* Mutant of Receipt: any receipt counts as a success.
ReceiptIsOk(j) ==
  /\ at[j] = "wait" /\ Mined(key[j], nonce[j])
  /\ Goto(j, "ok")
  /\ UNCHANGED <<nonce, nodeVars>>

\* Mutant of Receipt: the break is inside the test for status 1.
ReceiptBreaksOnSuccess(j) ==
  /\ at[j] = "wait" /\ Succeeded(key[j], nonce[j])
  /\ Goto(j, "ok")
  /\ UNCHANGED <<nonce, nodeVars>>

\* A receipt that is not there yet changes nothing: it is asked for again.
Receipt(j) ==
  /\ at[j] = "wait" /\ Mined(key[j], nonce[j])
  /\ Goto(j, IF Succeeded(key[j], nonce[j]) THEN "ok" ELSE "reverted")
  /\ UNCHANGED <<nonce, nodeVars>>

\* Mutant of ReceiptErr: a receipt that cannot be read means a failed payment.
ReceiptErrFails(j) ==
  /\ at[j] = "wait" /\ NodeFault
  /\ Goto(j, "failed")
  /\ UNCHANGED nonce

\* A request for a receipt fails: distribute goes on with the next target,
\* a deployment is an error.
ReceiptErr(j) ==
  /\ at[j] = "wait" /\ NodeFault
  /\ Goto(j, "unseen")
  /\ UNCHANGED nonce

Job(j) ==
  /\ pc = "run"
  /\ Start(j) \/ LookUp(j) \/ SendOk(j) \/ SendErr(j) \/ Receipt(j) \/ ReceiptErr(j)
  /\ UNCHANGED <<inputs, pc>>

\* The arguments of a contract cannot be parsed: no task is spawned.
BadArguments ==
  /\ pc = "run" /\ command # "distribute"
  /\ \A j \in Jobs : at[j] = "idle"
  /\ pc' = "err"
  /\ UNCHANGED <<inputs, at, nonce, nodeVars>>

\* The handles are awaited in order.  A panic ends the command, and with the
\* process its other tasks; a request that is under way may still arrive.
Panic ==
  /\ pc = "run"
  /\ \E j \in Jobs : at[j] = "panicked" /\ \A i \in 1..(j - 1) : Ended(i)
  /\ pc' = "err"
  /\ \E S \in SUBSET {j \in Jobs : at[j] = "send"} : late' = late \cup {Tx(j) : j \in S}
  /\ UNCHANGED <<inputs, at, nonce, ledger, committed, reverted, faults>>

\* Everything else is logged only: the command is Ok.
Return ==
  /\ pc = "run"
  /\ \A j \in Jobs : at[j] \in Ends \ {"panicked"}
  /\ pc' = "ok"
  /\ UNCHANGED <<inputs, at, nonce, nodeVars>>

Node ==
  /\ DeliverLate \/ \E a \in Accounts : Mine(a)
  /\ UNCHANGED <<inputs, pc, at, nonce>>

Finished == pc # "run" /\ UNCHANGED vars

Next == (\E j \in Jobs : Job(j)) \/ BadArguments \/ Panic \/ Return \/ Node \/ Finished

Spec == Init /\ [][Next]_vars

\* The runtime polls whatever is ready, requests end, and blocks are made.
Fairness ==
  /\ \A j \in Jobs : WF_vars(Job(j))
  /\ WF_vars(Panic) /\ WF_vars(Return)
  /\ \A a \in Accounts : WF_vars(Mine(a) /\ UNCHANGED <<inputs, pc, at, nonce>>)

FairSpec == Spec /\ Fairness
-----------------------------------------------------------------------------
(***************************************************************************)
(* Properties.                                                             *)
(***************************************************************************)
Transactions == [from : Accounts, nonce : Nat, pay : Jobs]

\* Every variable stays in its type (the inputs, the jobs and the node).
TypeOK ==
  /\ command \in {"distribute", "deploy", "call"}
  /\ key \in [Jobs -> Accounts]
  /\ broken \subseteq Jobs
  /\ pc \in {"run", "ok", "err"}
  /\ at \in [Jobs -> Ends \cup {"idle", "sign", "send", "wait"}]
  /\ nonce \in [Jobs -> Nat]
  /\ ledger \in [Accounts -> Seq(Jobs)]
  /\ committed \in [Accounts -> Nat]
  /\ reverted \subseteq Accounts \X Nat
  /\ late \subseteq Transactions
  /\ faults \in Nat

\* distribute pays each target at most once and in the order of the list, also
\* when a request it gave up arrives behind later ones, and whatever nonce the
\* library looked up in between.
PaidInOrder ==
  command = "distribute" =>
    \A a \in Accounts : \A j, k \in 1..Pending(a) :
      j < k => ledger[a][j] < ledger[a][k]

PaidIn(j) == \E k \in 1..Pending(key[j]) : ledger[key[j]][k] = j

\* What the log says of a job is true: a payment it calls good is this job's,
\* mined and not reverted; one it calls failed, or that panicked, was not made,
\* unless its answer was lost.
OutcomesTrue ==
  \A j \in Jobs :
    /\ at[j] = "ok" =>
         Succeeded(key[j], nonce[j]) /\ ledger[key[j]][nonce[j] + 1] = j
    /\ at[j] \in {"failed", "panicked"} /\ PaidIn(j) => \E tx \in late : tx.pay = j

\* distribute loses a payment only to a fault: each target is paid before the next
\* one is looked at, so neither the pool nor the looked-up nonce gets in the way.
OnlyFaultsLose ==
  command = "distribute" /\ faults = 0 => \A j \in Jobs : Ended(j) => at[j] = "ok"

\* A contract call is an operation to be used like the others (scripts/examples.sh:
\* 76-77), which logs a transaction hash (lib.rs:773): a task panics only over a
\* file or a key that cannot be read.
OnlyBrokenPanic == \A j \in Jobs : at[j] = "panicked" => j \in broken

\* The command comes to an end, although the receipts are polled without limit.
CommandEnds == <>(pc # "run")
=============================================================================
