---------------------------- MODULE Distribution ----------------------------
(***************************************************************************)
(* TestClient::distribution (src/agent/src/lib.rs): several callers share  *)
(* one client and pay a list of targets each, one transaction after the    *)
(* other, until the pool answers that it is full.  Then one of them takes  *)
(* the overflow flag and probes until a transaction is accepted; the       *)
(* others wait for the flag.  Each atomic access to the flag and each RPC  *)
(* is a step of its own.                                                   *)
(***************************************************************************)
EXTENDS EvmNode

CONSTANTS
  Senders,    \* the ids of the callers; 0 is no id
  Free,       \* the flag's 0
  Source,     \* Source[s]: the account that s pays from
  N,          \* targets per sender
  Waiters,    \* the callers with need_wait: they poll the receipts at the end
  Retriers,   \* the callers with need_retry: they send a refused one again
  WaitTime,   \* wait_time: polls per receipt
  NoHash      \* metric.hash is None

ASSUME FreeAssumption   == Free \notin Senders
ASSUME SourceAssumption == Source \in [Senders -> Accounts]
ASSUME NAssumption      == N \in Nat \ {0}
ASSUME OptionAssumption == Waiters \subseteq Senders /\ Retriers \subseteq Senders
ASSUME WaitAssumption   == WaitTime \in Nat \ {0}
ASSUME HashAssumption   == NoHash \notin Nat

VARIABLES
  flag,     \* overflow_flag
  pc,       \* where each sender is
  idx,      \* the target it is at
  nonce,    \* its nonce cell
  probe,    \* the nonce its recovery probe was signed with
  offline,  \* chain id and gas price are known: signing needs no RPC
  hash,     \* hash[s][i]: metric.hash, as the nonce of the transaction
  status,   \* status[s][i]: metric.status
  polls,    \* polls left for the current receipt
  succeed,  \* succeed
  slips     \* history: submissions of s while another sender has the flag

senderVars == <<pc, idx, nonce, probe, offline, hash, status, polls, succeed>>
vars == <<nodeVars, senderVars, flag, slips>>

Targets == 1..N
Payments == Senders \X Targets
Transactions == [from : Accounts, nonce : Nat, pay : Payments]
Sending  == {"begin", "sign", "gate", "send", "clear", "raise", "block",
             "loop", "probe", "resubmit", "release", "resync", "retry",
             "refetch"}
Recovery == {"block", "loop", "probe", "resubmit", "release"}
PCs == Sending \cup {"wait", "done", "panicked"}

Init ==
  /\ NodeInit
  /\ flag = Free
  /\ pc = [s \in Senders |-> "begin"]
  /\ idx = [s \in Senders |-> 1]
  /\ nonce = [s \in Senders |-> 0]
  /\ probe = [s \in Senders |-> 0]
  /\ offline = [s \in Senders |-> TRUE]
  /\ hash = [s \in Senders |-> [i \in Targets |-> NoHash]]
  /\ status = [s \in Senders |-> [i \in Targets |-> 99]]
  /\ polls = [s \in Senders |-> 0]
  /\ succeed = [s \in Senders |-> 0]
  /\ slips = [s \in Senders |-> 0]

Tx(s, n) == [from |-> Source[s], nonce |-> n, pay |-> <<s, idx[s]>>]

\* The order of the substring tests decides what a text with two markers is.
ParseError(text) ==
  IF "broadcast_tx_sync" \in text THEN "SyncTx"
  ELSE IF "Transaction check error" \in text THEN "CheckTx"
  ELSE IF "error sending request" \in text THEN "SendErr"
  ELSE IF "InternalError" \in text THEN "TxInternalErr"
  ELSE "Other"

Goto(s, l) == pc' = [pc EXCEPT ![s] = l]

\* Mutant of Advance: the first loop does not stop after its last target.
AdvancePastEnd(s) ==
  /\ idx' = [idx EXCEPT ![s] = @ + 1]
  /\ Goto(s, "sign")
  /\ UNCHANGED polls

\* results.push(metric), then the next target or the end of the first loop.
Advance(s) ==
  \/ /\ idx[s] < N
     /\ idx' = [idx EXCEPT ![s] = @ + 1]
     /\ Goto(s, "sign")
     /\ UNCHANGED polls
  \/ /\ idx[s] = N
     /\ idx' = [idx EXCEPT ![s] = 1]
     /\ Goto(s, IF s \in Waiters THEN "wait" ELSE "done")
     /\ polls' = [polls EXCEPT ![s] = WaitTime]

\* Mutant of FlagLetsPass: the test for the caller's own id is forgotten.
FlagIsFree(s) == flag = Free

FlagLetsPass(s) == flag \in {Free, s}

CountSlip(s) ==
  slips' = IF FlagLetsPass(s) THEN slips ELSE [slips EXCEPT ![s] = @ + 1]

SetHash(s, n) == hash' = [hash EXCEPT ![s][idx[s]] = n]
SetStatus(s, c) == status' = [status EXCEPT ![s][idx[s]] = c]
SetNonce(s, n) == nonce' = [nonce EXCEPT ![s] = n]

\* A signature needs an RPC, which may fail, unless both values are known.
SignFault(s) ==
  ~offline[s] /\ Fault /\ UNCHANGED <<ledger, committed, reverted, late>>

\* pending_nonce passes no limit of tries: it asks again, and changes nothing
\* until it is answered, here and wherever the nonce is read again.
Begin(s) ==
  /\ pc[s] = "begin"
  /\ \/ UNCHANGED <<nodeVars, offline>>
     \/ /\ Fault
        /\ offline' = [offline EXCEPT ![s] = FALSE]
        /\ UNCHANGED <<ledger, committed, reverted, late>>
  /\ SetNonce(s, Pending(Source[s]))
  /\ Goto(s, "sign")
  /\ UNCHANGED <<idx, probe, hash, status, polls, succeed, flag, slips>>

Sign(s) ==
  /\ pc[s] = "sign"
  /\ \/ Goto(s, "gate") /\ UNCHANGED <<nodeVars, status>>
     \/ SignFault(s) /\ Goto(s, "refetch") /\ SetStatus(s, 98)
  /\ UNCHANGED <<idx, nonce, probe, offline, hash, polls, succeed, flag, slips>>

\* Mutant of Gate: check_wait_overflow is not called before a submission.
GateOpen(s) ==
  /\ pc[s] = "gate"
  /\ Goto(s, "send")
  /\ UNCHANGED <<nodeVars, idx, nonce, probe, offline, hash, status, polls,
                 succeed, flag, slips>>

Gate(s) ==
  /\ pc[s] = "gate"
  /\ FlagLetsPass(s)
  /\ Goto(s, "send")
  /\ UNCHANGED <<nodeVars, idx, nonce, probe, offline, hash, status, polls,
                 succeed, flag, slips>>

SendOk(s) ==
  /\ pc[s] = "send"
  /\ Accept(Tx(s, nonce[s]))
  /\ SetHash(s, nonce[s])
  /\ SetNonce(s, nonce[s] + 1)
  /\ CountSlip(s)
  /\ Goto(s, "clear")
  /\ UNCHANGED <<idx, probe, offline, status, polls, succeed, flag>>

\* Mutant of Clear: a plain store of 0 instead of the compare_exchange.
ClearAnyFlag(s) ==
  /\ pc[s] = "clear"
  /\ flag' = Free
  /\ Advance(s)
  /\ UNCHANGED <<nodeVars, nonce, probe, offline, hash, status, succeed, slips>>

Clear(s) ==
  /\ pc[s] = "clear"
  /\ flag' = IF flag = s THEN Free ELSE flag
  /\ Advance(s)
  /\ UNCHANGED <<nodeVars, nonce, probe, offline, hash, status, succeed, slips>>

\* Mutant of SendErr: the nonce moves on although the node said no.
SendErrCounts(s) ==
  /\ pc[s] = "send"
  /\ \E text \in ErrorTexts :
       /\ Refuse(Tx(s, nonce[s]), text)
       /\ Goto(s, IF ParseError(text) = "SyncTx" THEN "raise" ELSE "loop")
  /\ SetNonce(s, nonce[s] + 1)
  /\ CountSlip(s)
  /\ UNCHANGED <<idx, probe, offline, hash, status, polls, succeed, flag>>

SendErr(s) ==
  /\ pc[s] = "send"
  /\ \E text \in ErrorTexts :
       /\ Refuse(Tx(s, nonce[s]), text)
       /\ Goto(s, IF ParseError(text) = "SyncTx" THEN "raise" ELSE "loop")
  /\ CountSlip(s)
  /\ UNCHANGED <<idx, nonce, probe, offline, hash, status, polls, succeed, flag>>

\* Mutant of Raise: a plain store of the id instead of the compare_exchange.
RaiseAlways(s) ==
  /\ pc[s] = "raise"
  /\ flag' = s
  /\ slips' = [t \in Senders |-> 0]
  /\ Goto(s, "block")
  /\ UNCHANGED <<nodeVars, idx, nonce, probe, offline, hash, status, polls, succeed>>

Raise(s) ==
  /\ pc[s] = "raise"
  /\ IF flag = Free
       THEN flag' = s /\ slips' = [t \in Senders |-> 0]
       ELSE UNCHANGED <<flag, slips>>
  /\ Goto(s, "block")
  /\ UNCHANGED <<nodeVars, idx, nonce, probe, offline, hash, status, polls, succeed>>

Block(s) ==
  /\ pc[s] = "block"
  /\ FlagLetsPass(s)
  /\ Goto(s, "loop")
  /\ UNCHANGED <<nodeVars, idx, nonce, probe, offline, hash, status, polls,
                 succeed, flag, slips>>

\* while overflow_flag == id { ... }, then the retry if it was asked for.
Loop(s) ==
  /\ pc[s] = "loop"
  /\ \/ flag = s /\ Goto(s, "probe") /\ UNCHANGED <<idx, polls>>
     \/ flag # s /\ s \in Retriers /\ Goto(s, "resync") /\ UNCHANGED <<idx, polls>>
     \/ flag # s /\ s \notin Retriers /\ Advance(s)
  /\ UNCHANGED <<nodeVars, nonce, probe, offline, hash, status, succeed, flag, slips>>

\* Mutant of Probe: the probe is signed with the nonce cell.
ProbeStale(s) ==
  /\ pc[s] = "probe"
  /\ probe' = [probe EXCEPT ![s] = nonce[s]]
  /\ Goto(s, "resubmit")
  /\ UNCHANGED <<nodeVars, idx, nonce, offline, hash, status, polls, succeed, flag, slips>>

Probe(s) ==
  /\ pc[s] = "probe"
  /\ probe' = [probe EXCEPT ![s] = Pending(Source[s])]
  /\ \/ Goto(s, "resubmit") /\ UNCHANGED nodeVars
     \/ SignFault(s) /\ Goto(s, "loop")
  /\ UNCHANGED <<idx, nonce, offline, hash, status, polls, succeed, flag, slips>>

\* Mutant of Resubmit: one refused probe ends the recovery.
ResubmitOnce(s) ==
  /\ pc[s] = "resubmit"
  /\ Goto(s, "release")
  /\ \/ Accept(Tx(s, probe[s]))
     \/ \E text \in ErrorTexts : Refuse(Tx(s, probe[s]), text)
  /\ UNCHANGED <<idx, nonce, probe, offline, hash, status, polls, succeed, flag, slips>>

Resubmit(s) ==
  /\ pc[s] = "resubmit"
  /\ \/ Accept(Tx(s, probe[s])) /\ Goto(s, "release")
     \/ (\E text \in ErrorTexts : Refuse(Tx(s, probe[s]), text)) /\ Goto(s, "loop")
  /\ UNCHANGED <<idx, nonce, probe, offline, hash, status, polls, succeed, flag, slips>>

\* Mutant of Release: the recovery ends without clearing the flag.
ReleaseKeepsFlag(s) ==
  /\ pc[s] = "release"
  /\ Advance(s)
  /\ UNCHANGED <<nodeVars, nonce, probe, offline, hash, status, succeed, flag, slips>>

\* Mutant of Release: the hash of the refused transaction goes into the metric.
ReleaseOldHash(s) ==
  /\ pc[s] = "release"
  /\ flag' = Free
  /\ SetHash(s, nonce[s])
  /\ Advance(s)
  /\ UNCHANGED <<nodeVars, nonce, probe, offline, status, succeed, slips>>

\* Mutant of Release: skip is not set, so the retry pays once more.
ReleaseNoSkip(s) ==
  /\ pc[s] = "release"
  /\ flag' = Free
  /\ Goto(s, "loop")
  /\ UNCHANGED <<nodeVars, idx, polls, nonce, probe, offline, hash, status,
                 succeed, slips>>

\* skip = true: neither the hash nor the nonce cell is updated.
Release(s) ==
  /\ pc[s] = "release"
  /\ IF flag = s
       THEN flag' = Free /\ Advance(s)
       ELSE Goto(s, "panicked") /\ UNCHANGED <<flag, idx, polls>>
  /\ UNCHANGED <<nodeVars, nonce, probe, offline, hash, status, succeed, slips>>

\* Mutant of Resync: the pending count is taken for the last nonce used.
ResyncOffByOne(s) ==
  /\ pc[s] = "resync"
  /\ SetStatus(s, 97)
  /\ SetNonce(s, Pending(Source[s]) + 1)
  /\ Goto(s, "retry")
  /\ UNCHANGED <<nodeVars, idx, probe, offline, hash, polls, succeed, flag, slips>>

Resync(s) ==
  /\ pc[s] = "resync"
  /\ SetStatus(s, 97)
  /\ SetNonce(s, Pending(Source[s]))
  /\ \/ Goto(s, "retry") /\ UNCHANGED nodeVars
     \/ SignFault(s) /\ Goto(s, "refetch")
  /\ UNCHANGED <<idx, probe, offline, hash, polls, succeed, flag, slips>>

Retry(s) ==
  /\ pc[s] = "retry"
  /\ \/ /\ Accept(Tx(s, nonce[s]))
        /\ SetHash(s, nonce[s])
        /\ SetNonce(s, nonce[s] + 1)
        /\ Advance(s)
     \/ /\ \E text \in ErrorTexts : Refuse(Tx(s, nonce[s]), text)
        /\ Goto(s, "refetch")
        /\ UNCHANGED <<idx, polls, hash, nonce>>
  /\ CountSlip(s)
  /\ UNCHANGED <<probe, offline, status, succeed, flag>>

Refetch(s) ==
  /\ pc[s] = "refetch"
  /\ SetNonce(s, Pending(Source[s]))
  /\ Advance(s)
  /\ UNCHANGED <<nodeVars, probe, offline, hash, status, succeed, flag, slips>>

NextReceipt(s) ==
  /\ idx' = [idx EXCEPT ![s] = IF @ < N THEN @ + 1 ELSE @]
  /\ polls' = [polls EXCEPT ![s] = WaitTime]
  /\ Goto(s, IF idx[s] < N THEN "wait" ELSE "done")

\* Mutant of ReceiptFound: any receipt counts as a success.
ReceiptIsSuccess(s) ==
  /\ pc[s] = "wait"
  /\ hash[s][idx[s]] # NoHash
  /\ Mined(Source[s], hash[s][idx[s]])
  /\ SetStatus(s, 1)
  /\ succeed' = [succeed EXCEPT ![s] = @ + 1]
  /\ NextReceipt(s)
  /\ UNCHANGED <<nodeVars, nonce, probe, offline, hash, flag, slips>>

\* Mutant of ReceiptFound: the break is inside the test for status 1.
ReceiptBreaksOnSuccess(s) ==
  /\ pc[s] = "wait"
  /\ hash[s][idx[s]] # NoHash
  /\ Succeeded(Source[s], hash[s][idx[s]])
  /\ SetStatus(s, 1)
  /\ succeed' = [succeed EXCEPT ![s] = @ + 1]
  /\ NextReceipt(s)
  /\ UNCHANGED <<nodeVars, nonce, probe, offline, hash, flag, slips>>

ReceiptFound(s) ==
  /\ pc[s] = "wait"
  /\ hash[s][idx[s]] # NoHash
  /\ Mined(Source[s], hash[s][idx[s]])
  /\ IF Succeeded(Source[s], hash[s][idx[s]])
       THEN SetStatus(s, 1) /\ succeed' = [succeed EXCEPT ![s] = @ + 1]
       ELSE UNCHANGED <<status, succeed>>
  /\ NextReceipt(s)
  /\ UNCHANGED <<nodeVars, nonce, probe, offline, hash, flag, slips>>

\* The receipt is not there yet, or the request for it fails.
ReceiptMissing(s) ==
  /\ pc[s] = "wait"
  /\ hash[s][idx[s]] # NoHash
  /\ \/ ~Mined(Source[s], hash[s][idx[s]]) /\ UNCHANGED faults
     \/ Fault
  /\ IF polls[s] > 1
       THEN polls' = [polls EXCEPT ![s] = @ - 1] /\ UNCHANGED <<pc, idx>>
       ELSE NextReceipt(s)
  /\ UNCHANGED <<ledger, committed, reverted, late, nonce, probe, offline, hash,
                 status, succeed, flag, slips>>

\* Without a hash the loop body does nothing: neither break nor countdown.
SpinWithoutHash(s) ==
  /\ pc[s] = "wait"
  /\ hash[s][idx[s]] = NoHash
  /\ UNCHANGED vars

Step(s) ==
  \/ Begin(s) \/ Sign(s) \/ Gate(s) \/ SendOk(s) \/ Clear(s) \/ SendErr(s)
  \/ Raise(s) \/ Block(s) \/ Loop(s) \/ Probe(s) \/ Resubmit(s) \/ Release(s)
  \/ Resync(s) \/ Retry(s) \/ Refetch(s)
  \/ ReceiptFound(s) \/ ReceiptMissing(s) \/ SpinWithoutHash(s)

Node ==
  /\ DeliverLate \/ \E a \in Accounts : Mine(a)
  /\ UNCHANGED <<senderVars, flag, slips>>

Finished ==
  /\ \A s \in Senders : pc[s] \in {"done", "panicked"}
  /\ UNCHANGED vars

Next == (\E s \in Senders : Step(s)) \/ Node \/ Finished

Spec == Init /\ [][Next]_vars

\* Each caller is a thread of its own, and the chain keeps making blocks.
Fairness ==
  /\ \A s \in Senders : WF_vars(Step(s))
  /\ \A a \in Accounts : WF_vars(Mine(a) /\ UNCHANGED <<senderVars, flag, slips>>)

FairSpec == Spec /\ Fairness
-----------------------------------------------------------------------------
(***************************************************************************)
(* Properties.                                                             *)
(***************************************************************************)

\* Every variable stays in its type (the client's cells, metrics and history).
TypeOK ==
  /\ flag \in Senders \cup {Free}
  /\ pc \in [Senders -> PCs]
  /\ idx \in [Senders -> Targets]
  /\ nonce \in [Senders -> Nat]
  /\ probe \in [Senders -> Nat]
  /\ offline \in [Senders -> BOOLEAN]
  /\ hash \in [Senders -> [Targets -> Nat \cup {NoHash}]]
  /\ status \in [Senders -> [Targets -> {1, 97, 98, 99}]]
  /\ polls \in [Senders -> 0..WaitTime]
  /\ succeed \in [Senders -> Nat]
  /\ slips \in [Senders -> Nat]
  /\ ledger \in [Accounts -> Seq(Payments)]
  /\ committed \in [Accounts -> Nat]
  /\ reverted \subseteq Accounts \X Nat
  /\ late \subseteq Transactions
  /\ faults \in Nat

\* The flag names a sender only while that sender is inside its recovery, and
\* whoever probes or releases has it: no sender leaves a flag behind that
\* nobody would clear, nobody clears it for another, and the panic "This should
\* never happened" (lib.rs:452) is not reached.
FlagMatchesRecovery ==
  \A s \in Senders :
    /\ flag = s => pc[s] \in Recovery
    /\ pc[s] \in {"probe", "resubmit", "release"} => flag = s
    /\ pc[s] # "panicked"

\* The nonce cell never runs ahead of the chain: a sender can be refused for
\* an old nonce, which the next refetch repairs, never for a gap.
NonceNotAhead ==
  \A s \in Senders : nonce[s] <= Pending(Source[s]) /\ probe[s] <= Pending(Source[s])

\* A recorded hash is the hash of an accepted transaction, and of the one
\* that pays this very target, also when several senders share the account.
HashAccepted ==
  \A s \in Senders, i \in Targets :
    hash[s][i] # NoHash =>
      /\ hash[s][i] < Pending(Source[s])
      /\ ledger[Source[s]][hash[s][i] + 1] = <<s, i>>

Times(s, i) ==
  Cardinality({k \in 1..Pending(Source[s]) : ledger[Source[s]][k] = <<s, i>>})

\* A target is paid once, and once more at most for every request of it whose
\* answer was lost: recovery and retry never both pay it.
NoDoublePay ==
  \A s \in Senders, i \in Targets :
    Times(s, i) <= 1 + Cardinality({tx \in late : tx.pay = <<s, i>>})

\* The sender is through with target i in its first loop.
Past(s, i) == i < idx[s] \/ pc[s] \in {"wait", "done"}

\* With need_retry, a metric left at its initial status 99 and without a hash
\* is not a lost payment: it is one that the recovery loop paid in silence.
UntouchedMeansRecovered ==
  \A s \in Senders, i \in Targets :
    s \in Retriers /\ Past(s, i) /\ status[s][i] = 99 /\ hash[s][i] = NoHash =>
      \E k \in 1..Pending(Source[s]) : ledger[Source[s]][k] = <<s, i>>

\* Each sender's payments enter the chain in the order of its targets, over
\* retries, probes, and requests that arrive after they timed out.
PaymentsInOrder ==
  \A a \in Accounts : \A j, k \in 1..Pending(a) :
    j < k /\ ledger[a][j][1] = ledger[a][k][1] => ledger[a][j][2] <= ledger[a][k][2]

\* What the final report counts as succeeded is mined and did not revert.
ReportedSuccess ==
  \A s \in Senders :
    /\ succeed[s] = Cardinality({i \in Targets : status[s][i] = 1})
    /\ \A i \in Targets :
         status[s][i] = 1 => hash[s][i] # NoHash /\ Succeeded(Source[s], hash[s][i])

\* What the metrics say of the chain is true: their hashes (lib.rs:390, 483) and
\* what the report counts as succeeded (lib.rs:552).
MetricsTrue == HashAccepted /\ ReportedSuccess

Overrun(s) == IF s \in Retriers THEN 2 ELSE 1

\* While one sender recovers, each other one gets at most the submission it had
\* already passed the gate with, and its retry, which passes no gate.
SlipsBounded == \A s \in Senders : flag \notin {Free, s} => slips[s] <= Overrun(s)

Abstract == INSTANCE Backpressure WITH
              holder <- flag, Slack <- [s \in Senders |-> Overrun(s)]

\* The flag protocol implements the abstract backpressure specification.
ImplementsBackpressure == Abstract!Spec

\* Every sender gets through all its targets: whoever takes the flag gives it
\* back, and nobody waits for it forever.
EveryoneSends == \A s \in Senders : <>[](pc[s] \notin Sending)

\* A sender all of whose metrics have a hash comes back with its report.
HashedReportReturns ==
  \A s \in Senders :
    (pc[s] = "wait" /\ \A i \in Targets : hash[s][i] # NoHash) ~> pc[s] = "done"

\* scripts/examples.sh:31: "send it, and wait for the receipt, 3*block_time
\* maximum": whoever starts to wait for receipts stops waiting.
WaitIsBounded == \A s \in Senders : pc[s] = "wait" ~> pc[s] = "done"
=============================================================================
