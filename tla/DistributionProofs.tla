------------------------- MODULE DistributionProofs -------------------------
(***************************************************************************)
(* Proofs about Distribution, for any number of senders, accounts, targets *)
(* and faults and any pool size.                                           *)
(***************************************************************************)
EXTENDS Distribution, FiniteSetTheorems, TLAPS

LEMMA TxType ==
  ASSUME TypeOK, NEW s \in Senders, NEW n \in Nat
  PROVE  Tx(s, n) \in Transactions
BY SourceAssumption DEF TypeOK, Tx, Transactions, Payments

LEMMA AcceptTypes ==
  ASSUME TypeOK, NEW tx \in Transactions, Accept(tx)
  PROVE  /\ ledger' \in [Accounts -> Seq(Payments)]
         /\ UNCHANGED <<committed, reverted, late, faults>>
<1>1. tx.from \in Accounts /\ tx.pay \in Payments
  BY DEF Transactions
<1>2. ledger \in [Accounts -> Seq(Payments)]
  BY DEF TypeOK
<1>3. Append(ledger[tx.from], tx.pay) \in Seq(Payments)
  BY <1>1, <1>2
<1> QED
  BY <1>1, <1>2, <1>3 DEF Accept

LEMMA RefuseTypes ==
  ASSUME TypeOK, NEW tx \in Transactions, NEW text, Refuse(tx, text)
  PROVE  /\ faults' \in Nat
         /\ late' \subseteq Transactions
         /\ UNCHANGED <<ledger, committed, reverted>>
BY DEF TypeOK, Refuse, Fault

LEMMA PendingType ==
  ASSUME TypeOK, NEW a \in Accounts
  PROVE  Pending(a) \in Nat
BY DEF TypeOK, Pending

\* The bookkeeping at the end of a target keeps the types.
LEMMA AdvanceTypes ==
  ASSUME TypeOK, NEW s \in Senders, Advance(s)
  PROVE  /\ idx' \in [Senders -> Targets]
         /\ pc' \in [Senders -> PCs]
         /\ polls' \in [Senders -> 0..WaitTime]
<1>1. idx[s] \in 1..N /\ N \in Nat \ {0} /\ WaitTime \in 0..WaitTime
  BY NAssumption, WaitAssumption DEF TypeOK, Targets
<1>2. idx[s] < N => idx[s] + 1 \in Targets
  BY <1>1 DEF Targets
<1>3. 1 \in Targets
  BY <1>1 DEF Targets
<1>4. {"sign", "wait", "done"} \subseteq PCs
  BY DEF PCs, Sending
<1>5. CASE idx[s] < N /\ idx' = [idx EXCEPT ![s] = @ + 1] /\ Goto(s, "sign") /\ UNCHANGED polls
  BY SMTT(30), <1>2, <1>4, <1>5 DEF TypeOK, Goto
<1>6. CASE /\ idx' = [idx EXCEPT ![s] = 1]
           /\ Goto(s, IF s \in Waiters THEN "wait" ELSE "done")
           /\ polls' = [polls EXCEPT ![s] = WaitTime]
  BY <1>1, <1>3, <1>4, <1>6 DEF TypeOK, Goto
<1> QED
  BY <1>5, <1>6 DEF Advance

LEMMA Labels ==
  {"begin", "sign", "gate", "send", "clear", "raise", "block", "loop", "probe",
   "resubmit", "release", "resync", "retry", "refetch", "wait", "done",
   "panicked"} \subseteq PCs
BY DEF PCs, Sending

LEMMA GotoType ==
  ASSUME TypeOK, NEW s \in Senders, NEW l \in PCs, Goto(s, l)
  PROVE  pc' \in [Senders -> PCs]
BY DEF TypeOK, Goto

\* Writing one metric field, the nonce cell or the history keeps its type.
LEMMA CellTypes ==
  ASSUME TypeOK, NEW s \in Senders
  PROVE  /\ \A n \in Nat : SetNonce(s, n) => nonce' \in [Senders -> Nat]
         /\ \A n \in Nat :
              SetHash(s, n) => hash' \in [Senders -> [Targets -> Nat \cup {NoHash}]]
         /\ \A c \in {1, 97, 98, 99} :
              SetStatus(s, c) => status' \in [Senders -> [Targets -> {1, 97, 98, 99}]]
         /\ CountSlip(s) => slips' \in [Senders -> Nat]
<1>1. idx[s] \in Targets
  BY DEF TypeOK
<1>2. hash[s] \in [Targets -> Nat \cup {NoHash}] /\ status[s] \in [Targets -> {1, 97, 98, 99}]
  BY SMTT(30) DEF TypeOK
<1>3. ASSUME NEW n \in Nat, SetNonce(s, n) PROVE nonce' \in [Senders -> Nat]
  BY <1>3 DEF SetNonce, TypeOK
<1>4. ASSUME NEW n \in Nat, SetHash(s, n)
      PROVE  hash' \in [Senders -> [Targets -> Nat \cup {NoHash}]]
  <2>1. [hash[s] EXCEPT ![idx[s]] = n] \in [Targets -> Nat \cup {NoHash}]
    BY <1>1, <1>2
  <2>2. hash' = [hash EXCEPT ![s] = [hash[s] EXCEPT ![idx[s]] = n]]
    BY <1>4 DEF SetHash
  <2> QED
    BY <2>1, <2>2 DEF TypeOK
<1>5. ASSUME NEW c \in {1, 97, 98, 99}, SetStatus(s, c)
      PROVE  status' \in [Senders -> [Targets -> {1, 97, 98, 99}]]
  <2> DEFINE Codes == {1, 97, 98, 99}
  <2>1. /\ status \in [Senders -> [Targets -> Codes]]
        /\ c \in Codes
        /\ status' = [status EXCEPT ![s] = [status[s] EXCEPT ![idx[s]] = c]]
    BY <1>5 DEF SetStatus, TypeOK
  <2> HIDE DEF Codes
  <2>2. [status[s] EXCEPT ![idx[s]] = c] \in [Targets -> Codes]
    BY <1>1, <2>1
  <2>3. status' \in [Senders -> [Targets -> Codes]]
    BY <2>1, <2>2
  <2> QED
    BY <2>3 DEF Codes
<1>6. ASSUME CountSlip(s) PROVE slips' \in [Senders -> Nat]
  BY SMTT(30), <1>6 DEF CountSlip, TypeOK
<1> QED
  BY <1>3, <1>4, <1>5, <1>6

LEMMA TypeInit == Init => TypeOK
<1> SUFFICES ASSUME Init PROVE TypeOK
  OBVIOUS
<1> USE DEF Init, NodeInit, TypeOK
<1>1. idx \in [Senders -> Targets] /\ polls \in [Senders -> 0..WaitTime]
  BY NAssumption, WaitAssumption DEF Targets
<1>2. pc \in [Senders -> PCs]
  BY DEF PCs, Sending
<1>3. ledger \in [Accounts -> Seq(Payments)]
  OBVIOUS
<1> QED
  BY <1>1, <1>2, <1>3

LEMMA TypeStep == TypeOK /\ [Next]_vars => TypeOK'
<1> SUFFICES ASSUME TypeOK, [Next]_vars PROVE TypeOK'
  OBVIOUS
<1> USE DEF nodeVars, senderVars
<1>1. ASSUME NEW s \in Senders, Step(s) PROVE TypeOK'
  <2>a. /\ Source[s] \in Accounts /\ Pending(Source[s]) \in Nat
        /\ nonce[s] \in Nat /\ nonce[s] + 1 \in Nat /\ probe[s] \in Nat
    <3>1. Source[s] \in Accounts
      BY SourceAssumption
    <3>2. Pending(Source[s]) \in Nat
      BY <3>1, PendingType
    <3> QED
      BY SMTT(30), <3>1, <3>2 DEF TypeOK
  <2>b. Tx(s, nonce[s]) \in Transactions /\ Tx(s, probe[s]) \in Transactions
    BY <2>a, TxType
  <2>c. Fault => faults' \in Nat
    BY DEF TypeOK, Fault
  <2>1. CASE Begin(s)
    <3>1. offline' \in [Senders -> BOOLEAN]
      BY <2>1 DEF Begin, TypeOK
    <3>2. nonce' \in [Senders -> Nat] /\ pc' \in [Senders -> PCs]
      BY <2>a, <2>1, GotoType, Labels, CellTypes DEF Begin, TypeOK
    <3>3. faults' \in Nat /\ UNCHANGED <<ledger, committed, reverted, late>>
      BY SMTT(30), <2>c, <2>1 DEF Begin, TypeOK
    <3> QED
      BY <2>1, <3>1, <3>2, <3>3 DEF Begin, TypeOK
  <2>2. CASE Sign(s)
    <3>1. UNCHANGED <<idx, nonce, probe, offline, hash, polls, succeed, flag, slips,
                      ledger, committed, reverted, late>>
      BY <2>2 DEF Sign, SignFault
    <3>2. CASE Goto(s, "gate") /\ UNCHANGED <<nodeVars, status>>
      <4>1. pc' \in [Senders -> PCs]
        BY <3>2, GotoType, Labels
      <4> QED
        BY <3>1, <3>2, <4>1 DEF TypeOK
    <3>3. CASE SignFault(s) /\ Goto(s, "refetch") /\ SetStatus(s, 98)
      <4>1. pc' \in [Senders -> PCs]
        BY <3>3, GotoType, Labels
      <4>2. status' \in [Senders -> [Targets -> {1, 97, 98, 99}]]
        BY <3>3, CellTypes
      <4>3. faults' \in Nat
        BY <2>c, <3>3 DEF SignFault
      <4> QED
        BY <3>1, <4>1, <4>2, <4>3 DEF TypeOK
    <3> QED
      BY <2>2, <3>2, <3>3 DEF Sign
  <2>3. CASE Gate(s)
    BY <2>3, GotoType, Labels DEF Gate, TypeOK
  <2>4. CASE SendOk(s)
    <3>1. ledger' \in [Accounts -> Seq(Payments)] /\ UNCHANGED <<committed, reverted, late, faults>>
      BY <2>b, <2>4, AcceptTypes DEF SendOk
    <3>2. hash' \in [Senders -> [Targets -> Nat \cup {NoHash}]] /\ nonce' \in [Senders -> Nat]
      BY <2>a, <2>4, CellTypes DEF SendOk
    <3>3. slips' \in [Senders -> Nat] /\ pc' \in [Senders -> PCs]
      BY <2>4, CellTypes, GotoType, Labels DEF SendOk
    <3>4. UNCHANGED <<idx, probe, offline, status, polls, succeed, flag>>
      BY <2>4 DEF SendOk
    <3> QED
      BY <3>1, <3>2, <3>3, <3>4 DEF TypeOK
  <2>5. CASE Clear(s)
    BY <2>5, AdvanceTypes DEF Clear, TypeOK
  <2>6. CASE SendErr(s)
    <3>1. PICK text \in ErrorTexts :
            /\ Refuse(Tx(s, nonce[s]), text)
            /\ Goto(s, IF ParseError(text) = "SyncTx" THEN "raise" ELSE "loop")
      BY <2>6 DEF SendErr
    <3>2. /\ faults' \in Nat /\ late' \subseteq Transactions
          /\ UNCHANGED <<ledger, committed, reverted>>
      BY <2>b, <3>1, RefuseTypes
    <3>3. pc' \in [Senders -> PCs]
      BY <3>1, GotoType, Labels
    <3>4. slips' \in [Senders -> Nat]
      BY <2>6, CellTypes DEF SendErr
    <3>5. UNCHANGED <<idx, nonce, probe, offline, hash, status, polls, succeed, flag>>
      BY <2>6 DEF SendErr
    <3> QED
      BY <3>2, <3>3, <3>4, <3>5 DEF TypeOK
  <2>7. CASE Raise(s)
    <3>1. \/ flag' = s /\ slips' = [t \in Senders |-> 0]
          \/ UNCHANGED <<flag, slips>>
      BY <2>7 DEF Raise
    <3>2. flag' \in Senders \cup {Free} /\ slips' \in [Senders -> Nat]
      <4>1. CASE flag' = s /\ slips' = [t \in Senders |-> 0]
        BY <4>1
      <4>2. CASE UNCHANGED <<flag, slips>>
        <5>1. flag \in Senders \cup {Free} /\ slips \in [Senders -> Nat]
          BY DEF TypeOK
        <5> QED
          BY <4>2, <5>1
      <4> QED
        BY <3>1, <4>1, <4>2
    <3>3. pc' \in [Senders -> PCs]
      BY <2>7, GotoType, Labels DEF Raise
    <3>4. UNCHANGED <<nodeVars, idx, nonce, probe, offline, hash, status, polls, succeed>>
      BY <2>7 DEF Raise
    <3> QED
      BY <3>2, <3>3, <3>4 DEF TypeOK
  <2>8. CASE Block(s)
    BY <2>8, GotoType, Labels DEF Block, TypeOK
  <2>9. CASE Loop(s)
    BY <2>9, AdvanceTypes, GotoType, Labels DEF Loop, TypeOK
  <2>10. CASE Probe(s)
    <3>1. probe' \in [Senders -> Nat]
      BY <2>a, <2>10 DEF Probe, TypeOK
    <3> QED
      BY <2>c, <2>10, <3>1, GotoType, Labels DEF Probe, SignFault, TypeOK
  <2>11. CASE Resubmit(s)
    BY <2>b, <2>11, AcceptTypes, RefuseTypes, GotoType, Labels DEF Resubmit, TypeOK
  <2>12. CASE Release(s)
    BY <2>12, AdvanceTypes, GotoType, Labels DEF Release, TypeOK
  <2>13. CASE Resync(s)
    <3>1. status' \in [Senders -> [Targets -> {1, 97, 98, 99}]]
      BY <2>13, CellTypes DEF Resync
    <3>2. CASE SetNonce(s, Pending(Source[s])) /\ Goto(s, "retry") /\ UNCHANGED nodeVars
      BY <2>a, <2>13, <3>1, <3>2, GotoType, Labels, CellTypes DEF Resync, TypeOK
    <3>3. CASE SetNonce(s, Pending(Source[s])) /\ SignFault(s) /\ Goto(s, "refetch")
      BY <2>a, <2>c, <2>13, <3>1, <3>3, GotoType, Labels, CellTypes
         DEF Resync, SignFault, TypeOK
    <3> QED
      BY <2>13, <3>2, <3>3 DEF Resync
  <2>14. CASE Retry(s)
    <3>1. CASE /\ Accept(Tx(s, nonce[s])) /\ SetHash(s, nonce[s])
               /\ SetNonce(s, nonce[s] + 1) /\ Advance(s)
      <4>1. ledger' \in [Accounts -> Seq(Payments)] /\ UNCHANGED <<committed, reverted, late, faults>>
        BY <2>b, <3>1, AcceptTypes
      <4>2. /\ idx' \in [Senders -> Targets] /\ pc' \in [Senders -> PCs]
            /\ polls' \in [Senders -> 0..WaitTime]
        BY <3>1, AdvanceTypes
      <4>3. hash' \in [Senders -> [Targets -> Nat \cup {NoHash}]] /\ nonce' \in [Senders -> Nat]
        BY <2>a, <3>1, CellTypes
      <4>4. slips' \in [Senders -> Nat] /\ UNCHANGED <<probe, offline, status, succeed, flag>>
        BY <2>14, CellTypes DEF Retry
      <4> QED
        BY <4>1, <4>2, <4>3, <4>4 DEF TypeOK
    <3>2. CASE /\ \E text \in ErrorTexts : Refuse(Tx(s, nonce[s]), text)
               /\ Goto(s, "refetch") /\ UNCHANGED <<idx, polls, hash, nonce>>
      <4>1. /\ faults' \in Nat /\ late' \subseteq Transactions
            /\ UNCHANGED <<ledger, committed, reverted>>
        BY <2>b, <3>2, RefuseTypes
      <4>2. pc' \in [Senders -> PCs] /\ UNCHANGED <<idx, polls, hash, nonce>>
        BY <3>2, GotoType, Labels
      <4>3. slips' \in [Senders -> Nat] /\ UNCHANGED <<probe, offline, status, succeed, flag>>
        BY <2>14, CellTypes DEF Retry
      <4> QED
        BY <4>1, <4>2, <4>3 DEF TypeOK
    <3> QED
      BY <2>14, <3>1, <3>2 DEF Retry
  <2>15. CASE Refetch(s)
    <3>1. /\ idx' \in [Senders -> Targets] /\ pc' \in [Senders -> PCs]
          /\ polls' \in [Senders -> 0..WaitTime]
      BY <2>15, AdvanceTypes DEF Refetch
    <3>2. nonce' \in [Senders -> Nat]
      BY <2>a, <2>15, CellTypes DEF Refetch
    <3>3. UNCHANGED <<nodeVars, probe, offline, hash, status, succeed, flag, slips>>
      BY <2>15 DEF Refetch
    <3> QED
      BY <3>1, <3>2, <3>3 DEF TypeOK
  <2>d. ASSUME NextReceipt(s)
        PROVE  /\ idx' \in [Senders -> Targets] /\ pc' \in [Senders -> PCs]
               /\ polls' \in [Senders -> 0..WaitTime]
    <3>1. idx \in [Senders -> Targets] /\ idx[s] \in Targets
      BY DEF TypeOK
    <3>2. (IF idx[s] < N THEN idx[s] + 1 ELSE idx[s]) \in Targets
      BY <3>1, NAssumption DEF Targets
    <3>3. idx' \in [Senders -> Targets]
      BY <2>d, <3>1, <3>2 DEF NextReceipt
    <3>4. polls \in [Senders -> 0..WaitTime] /\ WaitTime \in 0..WaitTime
      BY WaitAssumption DEF TypeOK
    <3>5. polls' \in [Senders -> 0..WaitTime]
      BY <2>d, <3>4 DEF NextReceipt
    <3> QED
      BY <2>d, <3>3, <3>5, GotoType, Labels DEF NextReceipt
  <2>16. CASE ReceiptFound(s)
    <3>1. succeed' \in [Senders -> Nat]
      <4>1. \/ succeed' = [succeed EXCEPT ![s] = @ + 1]
            \/ UNCHANGED succeed
        BY <2>16 DEF ReceiptFound
      <4>2. succeed \in [Senders -> Nat] /\ succeed[s] + 1 \in Nat
        BY SMTT(30) DEF TypeOK
      <4> QED
        BY <4>1, <4>2
    <3>2. status' \in [Senders -> [Targets -> {1, 97, 98, 99}]]
      <4>1. SetStatus(s, 1) \/ UNCHANGED status
        BY <2>16 DEF ReceiptFound
      <4>2. SetStatus(s, 1) => status' \in [Senders -> [Targets -> {1, 97, 98, 99}]]
        BY CellTypes
      <4> QED
        BY SMTT(30), <4>1, <4>2 DEF TypeOK
    <3>3. NextReceipt(s) /\ UNCHANGED <<nodeVars, nonce, probe, offline, hash, flag, slips>>
      BY <2>16 DEF ReceiptFound
    <3>4. /\ idx' \in [Senders -> Targets] /\ pc' \in [Senders -> PCs]
          /\ polls' \in [Senders -> 0..WaitTime]
      BY <2>d, <3>3
    <3>5. UNCHANGED <<ledger, committed, reverted, late, faults, nonce, probe,
                      offline, hash, flag, slips>>
      BY <3>3
    <3> QED
      BY <3>1, <3>2, <3>4, <3>5 DEF TypeOK
  <2>17. CASE ReceiptMissing(s)
    <3>1. faults' \in Nat
      BY <2>c, <2>17 DEF ReceiptMissing, TypeOK
    <3>2. CASE polls[s] > 1
      <4>1. polls' \in [Senders -> 0..WaitTime]
        <5>1. /\ polls \in [Senders -> 0..WaitTime] /\ polls[s] \in 0..WaitTime
              /\ WaitTime \in Nat
          BY WaitAssumption DEF TypeOK
        <5>2. polls[s] - 1 \in 0..WaitTime
          BY <3>2, <5>1
        <5>3. polls' = [polls EXCEPT ![s] = @ - 1]
          BY <2>17, <3>2 DEF ReceiptMissing
        <5> QED
          BY <5>1, <5>2, <5>3
      <4> QED
        BY <2>17, <3>1, <3>2, <4>1 DEF ReceiptMissing, TypeOK
    <3>3. CASE ~(polls[s] > 1)
      BY <2>d, <2>17, <3>1, <3>3 DEF ReceiptMissing, TypeOK
    <3> QED
      BY <3>2, <3>3
  <2>18. CASE SpinWithoutHash(s)
    BY <2>18 DEF SpinWithoutHash, TypeOK, vars
  <2> QED
    BY <1>1, <2>1, <2>2, <2>3, <2>4, <2>5, <2>6, <2>7, <2>8, <2>9, <2>10,
       <2>11, <2>12, <2>13, <2>14, <2>15, <2>16, <2>17, <2>18 DEF Step
<1>2. CASE Node
  <2>1. ASSUME NEW tx \in late, Accept(tx), UNCHANGED <<senderVars, flag, slips>>
        PROVE  TypeOK'
    BY <2>1, AcceptTypes DEF TypeOK
  <2>2. ASSUME NEW a \in Accounts, Mine(a), UNCHANGED <<senderVars, flag, slips>>
        PROVE  TypeOK'
    <3>1. committed' \in [Accounts -> Nat]
      BY SMTT(30), <2>2 DEF TypeOK, Mine
    <3>2. faults' \in Nat
      BY SMTT(30), <2>2 DEF TypeOK, Mine, Fault
    <3>3. reverted' \subseteq Accounts \X Nat
      <4>1. reverted \subseteq Accounts \X Nat /\ committed[a] \in Nat
        BY DEF TypeOK
      <4>2. reverted' = reverted \/ reverted' = reverted \cup {<<a, committed[a]>>}
        BY <2>2 DEF Mine
      <4> QED
        BY <4>1, <4>2
    <3>4. UNCHANGED <<ledger, late, senderVars, flag, slips>>
      BY <2>2 DEF Mine
    <3> QED
      BY <3>1, <3>2, <3>3, <3>4 DEF TypeOK
  <2> QED
    BY <1>2, <2>1, <2>2 DEF Node, DeliverLate
<1>3. CASE UNCHANGED vars
  BY <1>3 DEF vars, TypeOK
<1> QED
  BY <1>1, <1>2, <1>3 DEF Next, Finished

\* The cells, metrics and history variables of the senders keep their types.
THEOREM TypeCorrect == Spec => []TypeOK
BY TypeInit, TypeStep, PTL DEF Spec

-----------------------------------------------------------------------------
(***************************************************************************)
(* The flag.  FlagMatchesRecovery is inductive given the types: a sender   *)
(* that probes or releases has the flag, so its compare_exchange cannot    *)
(* fail.                                                                   *)
(***************************************************************************)
LEMMA FlagInit == Init => FlagMatchesRecovery
BY FreeAssumption DEF Init, FlagMatchesRecovery

LEMMA FlagStep == TypeOK /\ FlagMatchesRecovery /\ [Next]_vars => FlagMatchesRecovery'
<1> SUFFICES ASSUME TypeOK, FlagMatchesRecovery, [Next]_vars PROVE FlagMatchesRecovery'
  OBVIOUS
<1> USE FreeAssumption DEF FlagMatchesRecovery, Recovery
<1>0. pc \in [Senders -> PCs]
  BY DEF TypeOK
<1>1. ASSUME NEW s \in Senders, Step(s) PROVE FlagMatchesRecovery'
  <2> USE DEF Goto
  <2>1. CASE Begin(s)
    BY <1>0, <2>1 DEF Begin
  <2>2. CASE Sign(s)
    BY <1>0, <2>2 DEF Sign
  <2>3. CASE Gate(s)
    BY <1>0, <2>3 DEF Gate
  <2>4. CASE SendOk(s)
    BY <1>0, <2>4 DEF SendOk
  <2>5. CASE Clear(s)
    BY <1>0, <2>5 DEF Clear, Advance
  <2>6. CASE SendErr(s)
    BY <1>0, <2>6 DEF SendErr
  <2>7. CASE Raise(s)
    BY <1>0, <2>7 DEF Raise
  <2>8. CASE Block(s)
    BY <1>0, <2>8 DEF Block
  <2>9. CASE Loop(s)
    BY <1>0, <2>9 DEF Loop, Advance
  <2>10. CASE Probe(s)
    BY <1>0, <2>10 DEF Probe
  <2>11. CASE Resubmit(s)
    BY <1>0, <2>11 DEF Resubmit
  <2>12. CASE Release(s)
    BY <1>0, <2>12 DEF Release, Advance
  <2>13. CASE Resync(s)
    BY <1>0, <2>13 DEF Resync
  <2>14. CASE Retry(s)
    BY SMTT(30), <1>0, <2>14 DEF Retry, Advance
  <2>15. CASE Refetch(s)
    BY <1>0, <2>15 DEF Refetch, Advance
  <2>16. CASE ReceiptFound(s)
    BY <1>0, <2>16 DEF ReceiptFound, NextReceipt
  <2>17. CASE ReceiptMissing(s)
    BY <1>0, <2>17 DEF ReceiptMissing, NextReceipt
  <2>18. CASE SpinWithoutHash(s)
    BY <2>18 DEF SpinWithoutHash, vars, senderVars
  <2> QED
    BY <1>1, <2>1, <2>2, <2>3, <2>4, <2>5, <2>6, <2>7, <2>8, <2>9, <2>10,
       <2>11, <2>12, <2>13, <2>14, <2>15, <2>16, <2>17, <2>18 DEF Step
<1>2. CASE Node
  BY <1>2 DEF Node, senderVars
<1>3. CASE UNCHANGED vars
  BY <1>3 DEF vars, senderVars
<1> QED
  BY <1>1, <1>2, <1>3 DEF Next, Finished

\* The panic of the recovery loop is unreachable, and the flag always names a
\* sender that is inside its recovery.
THEOREM FlagProtocol == Spec => []FlagMatchesRecovery
<1>1. Init => TypeOK /\ FlagMatchesRecovery
  BY TypeInit, FlagInit
<1>2. TypeOK /\ FlagMatchesRecovery /\ [Next]_vars => (TypeOK /\ FlagMatchesRecovery)'
  BY TypeStep, FlagStep
<1> QED
  BY <1>1, <1>2, PTL DEF Spec

-----------------------------------------------------------------------------
(***************************************************************************)
(* The slips.  SlipsBounded is not inductive: a sender that is about to    *)
(* submit has its slip still ahead.  Budget(s) counts those, and           *)
(* SlipBudget bounds what was used together with what is left.             *)
(***************************************************************************)
Again(s) == IF s \in Retriers THEN 1 ELSE 0

Budget(s) ==
  IF pc[s] = "send" THEN 1 + Again(s)
  ELSE IF pc[s] \in {"loop", "resync", "retry"} THEN Again(s)
  ELSE 0

SlipBudget ==
  \A s \in Senders :
    /\ pc[s] \in {"resync", "retry"} => s \in Retriers
    /\ flag \notin {Free, s} => slips[s] + Budget(s) <= Overrun(s)

LEMMA SlipInit == Init => SlipBudget
BY DEF Init, SlipBudget

LEMMA SlipStep == TypeOK /\ FlagMatchesRecovery /\ SlipBudget /\ [Next]_vars => SlipBudget'
<1> SUFFICES ASSUME TypeOK, FlagMatchesRecovery, SlipBudget, [Next]_vars PROVE SlipBudget'
  OBVIOUS
<1> USE FreeAssumption DEF SlipBudget, Budget, Again, Overrun
<1>0. pc \in [Senders -> PCs] /\ slips \in [Senders -> Nat]
  BY DEF TypeOK
<1>1. ASSUME NEW s \in Senders, Step(s) PROVE SlipBudget'
  <2>0. pc[s] \in {"probe", "resubmit", "release"} => flag = s
    BY DEF FlagMatchesRecovery
  <2> USE DEF Goto
  <2>1. CASE Begin(s)
    BY <1>0, <2>1 DEF Begin
  <2>2. CASE Sign(s)
    BY <1>0, <2>2 DEF Sign
  <2>3. CASE Gate(s)
    BY <1>0, <2>3 DEF Gate, FlagLetsPass
  <2>4. CASE SendOk(s)
    BY <1>0, <2>4 DEF SendOk, CountSlip, FlagLetsPass
  <2>5. CASE Clear(s)
    BY <1>0, <2>5 DEF Clear, Advance
  <2>6. CASE SendErr(s)
    BY <1>0, <2>6 DEF SendErr, CountSlip, FlagLetsPass
  <2>7. CASE Raise(s)
    BY <1>0, <2>7 DEF Raise
  <2>8. CASE Block(s)
    BY <1>0, <2>8 DEF Block, FlagLetsPass
  <2>9. CASE Loop(s)
    BY <1>0, <2>9 DEF Loop, Advance
  <2>10. CASE Probe(s)
    BY <1>0, <2>0, <2>10 DEF Probe
  <2>11. CASE Resubmit(s)
    BY <1>0, <2>0, <2>11 DEF Resubmit
  <2>12. CASE Release(s)
    BY <1>0, <2>0, <2>12 DEF Release, Advance
  <2>13. CASE Resync(s)
    BY <1>0, <2>13 DEF Resync
  <2>14. CASE Retry(s)
    BY <1>0, <2>14 DEF Retry, Advance, CountSlip, FlagLetsPass
  <2>15. CASE Refetch(s)
    BY <1>0, <2>15 DEF Refetch, Advance
  <2>16. CASE ReceiptFound(s)
    BY <1>0, <2>16 DEF ReceiptFound, NextReceipt
  <2>17. CASE ReceiptMissing(s)
    BY <1>0, <2>17 DEF ReceiptMissing, NextReceipt
  <2>18. CASE SpinWithoutHash(s)
    BY <2>18 DEF SpinWithoutHash, vars, senderVars
  <2> QED
    BY <1>1, <2>1, <2>2, <2>3, <2>4, <2>5, <2>6, <2>7, <2>8, <2>9, <2>10,
       <2>11, <2>12, <2>13, <2>14, <2>15, <2>16, <2>17, <2>18 DEF Step
<1>2. CASE Node
  BY <1>2 DEF Node, senderVars
<1>3. CASE UNCHANGED vars
  BY <1>3 DEF vars, senderVars
<1> QED
  BY <1>1, <1>2, <1>3 DEF Next, Finished

SafetyInv == TypeOK /\ FlagMatchesRecovery /\ SlipBudget

LEMMA SafetyInvariant == Spec => []SafetyInv
<1>1. Init => SafetyInv
  BY TypeInit, FlagInit, SlipInit DEF SafetyInv
<1>2. SafetyInv /\ [Next]_vars => SafetyInv'
  BY TypeStep, FlagStep, SlipStep DEF SafetyInv
<1> QED
  BY <1>1, <1>2, PTL DEF Spec

\* While one sender recovers, another one submits twice at most if it retries
\* refused transactions, and once at most if it does not.
THEOREM BoundedOverrun == Spec => []SlipsBounded
<1>1. SafetyInv => SlipsBounded
  <2> SUFFICES ASSUME SafetyInv, NEW s \in Senders, flag \notin {Free, s}
               PROVE  slips[s] <= Overrun(s)
    BY DEF SlipsBounded
  <2>1. slips[s] + Budget(s) <= Overrun(s) /\ slips[s] \in Nat
    BY DEF SafetyInv, SlipBudget, TypeOK
  <2> QED
    BY <2>1 DEF Budget, Again, Overrun
<1> QED
  BY <1>1, SafetyInvariant, PTL

-----------------------------------------------------------------------------
(***************************************************************************)
(* The refinement of Backpressure: a submission behind the flag is a Slip, *)
(* a successful compare_exchange a Grant or a Yield, anything else         *)
(* stutters.                                                               *)
(***************************************************************************)
LEMMA RefinedStep == SafetyInv /\ [Next]_vars => [Abstract!Next]_<<flag, slips>>
<1> SUFFICES ASSUME SafetyInv, [Next]_vars, ~UNCHANGED <<flag, slips>>
             PROVE  Abstract!Next
  OBVIOUS
<1> USE DEF Abstract!Next
<1>1. PICK s \in Senders : Step(s)
  BY DEF Next, Node, Finished, vars
<1>2. ASSUME pc[s] \in {"send", "retry"}, CountSlip(s), UNCHANGED flag
      PROVE  Abstract!Slip(s)
  <2>1. ~FlagLetsPass(s)
    BY <1>2 DEF CountSlip
  <2>2. flag \notin {Free, s} /\ slips' = [slips EXCEPT ![s] = @ + 1]
    BY <1>2, <2>1 DEF CountSlip, FlagLetsPass
  <2>3. slips[s] + Budget(s) <= Overrun(s) /\ slips[s] \in Nat
    BY <2>2 DEF SafetyInv, SlipBudget, TypeOK
  <2>4. pc[s] = "retry" => s \in Retriers
    BY DEF SafetyInv, SlipBudget
  <2>5. slips[s] < Overrun(s)
    BY <1>2, <2>3, <2>4 DEF Budget, Again, Overrun
  <2> QED
    BY <1>2, <2>2, <2>5 DEF Abstract!Slip
<1>3. CASE Raise(s)
  BY <1>3 DEF Raise, Abstract!Grant
<1>4. CASE Clear(s) \/ Release(s)
  BY <1>4 DEF Clear, Release, Abstract!Yield
<1>5. CASE SendOk(s) \/ SendErr(s) \/ Retry(s)
  BY <1>2, <1>5 DEF SendOk, SendErr, Retry
<1> QED
  BY <1>1, <1>3, <1>4, <1>5
  DEF Step, Begin, Sign, Gate, Block, Loop, Probe, Resubmit, Resync, Refetch,
      ReceiptFound, ReceiptMissing, SpinWithoutHash, vars

\* The overflow flag of the client implements the abstract backpressure.
THEOREM RefinesBackpressure == Spec => ImplementsBackpressure
<1>1. Init => Abstract!Init
  BY DEF Init, Abstract!Init
<1> QED
  BY <1>1, RefinedStep, SafetyInvariant, PTL
  DEF Spec, ImplementsBackpressure, Abstract!Spec, Abstract!vars

-----------------------------------------------------------------------------
(***************************************************************************)
(* What the senders write into the chain.                                  *)
(***************************************************************************)
\* An accepted transaction is the next one of its account and nothing else
\* moves.
LEMMA AcceptEffect ==
  ASSUME TypeOK, NEW tx \in Transactions, Accept(tx)
  PROVE  /\ tx.from \in Accounts
         /\ tx.nonce = Len(ledger[tx.from])
         /\ Len(ledger'[tx.from]) = Len(ledger[tx.from]) + 1
         /\ ledger'[tx.from][Len(ledger[tx.from]) + 1] = tx.pay
         /\ \A k \in 1..Len(ledger[tx.from]) :
              ledger'[tx.from][k] = ledger[tx.from][k]
         /\ \A a \in Accounts : a # tx.from => ledger'[a] = ledger[a]
<1>1. tx.from \in Accounts /\ tx.pay \in Payments
  BY DEF Transactions
<1>2. ledger \in [Accounts -> Seq(Payments)] /\ ledger[tx.from] \in Seq(Payments)
  BY <1>1 DEF TypeOK
<1>3. ledger' = [ledger EXCEPT ![tx.from] = Append(@, tx.pay)]
  BY DEF Accept
<1>4. ledger'[tx.from] = Append(ledger[tx.from], tx.pay)
  BY <1>1, <1>2, <1>3
<1>5. \A a \in Accounts : a # tx.from => ledger'[a] = ledger[a]
  BY <1>1, <1>2, <1>3
<1>6. tx.nonce = Len(ledger[tx.from])
  BY DEF Accept, Accepts, Pending
<1> QED
  BY <1>1, <1>2, <1>4, <1>5, <1>6

\* Where a transaction submitted by a step comes from.
Submits(s, n) ==
  \/ pc[s] \in {"send", "retry"} /\ n = nonce[s]
  \/ pc[s] = "resubmit" /\ n = probe[s]

\* The sender goes on to the end of its current target.
Settles(s) ==
  \/ UNCHANGED idx /\ (Goto(s, "clear") \/ Goto(s, "release"))
  \/ Advance(s)

\* What a step does to the chain: nothing, one more payment, or one more
\* request whose answer is lost.
LEMMA LedgerShape ==
  ASSUME TypeOK, [Next]_vars
  PROVE  \/ UNCHANGED <<ledger, late>>
         \/ /\ UNCHANGED late
            /\ \E tx \in late : Accept(tx)
         \/ /\ UNCHANGED late
            /\ \E s \in Senders, n \in Nat :
                 Submits(s, n) /\ Accept(Tx(s, n)) /\ Settles(s)
         \/ /\ UNCHANGED ledger
            /\ \E s \in Senders, n \in Nat :
                 Submits(s, n) /\ late' = late \cup {Tx(s, n)}
<1> USE DEF nodeVars
<1>1. ASSUME NEW tx, Accept(tx) PROVE UNCHANGED late
  BY <1>1 DEF Accept
<1>2. ASSUME NEW tx, NEW text, Refuse(tx, text)
      PROVE  UNCHANGED ledger /\ (UNCHANGED late \/ late' = late \cup {tx})
  BY <1>2 DEF Refuse
<1>3. ASSUME NEW s \in Senders, Step(s),
             ~(SendOk(s) \/ SendErr(s) \/ Resubmit(s) \/ Retry(s))
      PROVE  UNCHANGED <<ledger, late>>
  BY <1>3 DEF Step, Begin, Sign, Gate, Clear, Raise, Block, Loop, Probe,
     Release, Resync, Refetch, ReceiptFound, ReceiptMissing, SpinWithoutHash,
     SignFault, vars
<1>4. ASSUME NEW s \in Senders, SendOk(s) \/ SendErr(s) \/ Resubmit(s) \/ Retry(s)
      PROVE  \E n \in Nat :
               /\ Submits(s, n)
               /\ \/ Accept(Tx(s, n)) /\ Settles(s)
                  \/ \E text \in ErrorTexts : Refuse(Tx(s, n), text)
  <2>1. nonce[s] \in Nat /\ probe[s] \in Nat
    BY DEF TypeOK
  <2>2. CASE SendOk(s)
    BY <2>1, <2>2 DEF SendOk, Submits, Settles
  <2>3. CASE SendErr(s)
    BY <2>1, <2>3 DEF SendErr, Submits
  <2>4. CASE Resubmit(s)
    BY <2>1, <2>4 DEF Resubmit, Submits, Settles
  <2>5. CASE Retry(s)
    BY <2>1, <2>5 DEF Retry, Submits, Settles
  <2> QED
    BY <1>4, <2>2, <2>3, <2>4, <2>5
<1>5. CASE \E s \in Senders : Step(s)
  <2>1. PICK s \in Senders : Step(s)
    BY <1>5
  <2>2. CASE SendOk(s) \/ SendErr(s) \/ Resubmit(s) \/ Retry(s)
    <3>1. PICK n \in Nat :
            /\ Submits(s, n)
            /\ \/ Accept(Tx(s, n)) /\ Settles(s)
               \/ \E text \in ErrorTexts : Refuse(Tx(s, n), text)
      BY <1>4, <2>2
    <3>2. CASE Accept(Tx(s, n)) /\ Settles(s)
      BY <1>1, <3>1, <3>2
    <3>3. CASE \E text \in ErrorTexts : Refuse(Tx(s, n), text)
      BY <1>2, <3>1, <3>3
    <3> QED
      BY <3>1, <3>2, <3>3
  <2> QED
    BY <1>3, <2>1, <2>2
<1>6. CASE Node
  BY <1>1, <1>6 DEF Node, DeliverLate, Mine
<1>7. CASE UNCHANGED vars
  BY <1>7 DEF vars
<1> QED
  BY <1>5, <1>6, <1>7 DEF Next, Finished

\* No step takes an accepted payment back or changes it.
LEMMA LedgerGrows ==
  ASSUME TypeOK, [Next]_vars, NEW a \in Accounts
  PROVE  /\ Len(ledger[a]) \in Nat /\ Len(ledger'[a]) \in Nat
         /\ Len(ledger[a]) <= Len(ledger'[a])
         /\ \A k \in 1..Len(ledger[a]) : ledger'[a][k] = ledger[a][k]
<1>1. Len(ledger[a]) \in Nat
  BY DEF TypeOK
<1>2. ASSUME NEW tx \in Transactions, Accept(tx)
      PROVE  /\ Len(ledger[a]) <= Len(ledger'[a]) /\ Len(ledger'[a]) \in Nat
             /\ \A k \in 1..Len(ledger[a]) : ledger'[a][k] = ledger[a][k]
  BY SMTT(30), <1>1, <1>2, AcceptEffect
<1>3. late \subseteq Transactions
  BY DEF TypeOK
<1>4. CASE UNCHANGED ledger
  BY <1>1, <1>4
<1> QED
  BY <1>1, <1>2, <1>3, <1>4, LedgerShape, TxType

-----------------------------------------------------------------------------
(***************************************************************************)
(* The nonces.                                                             *)
(***************************************************************************)
LEMMA NonceStep == TypeOK /\ NonceNotAhead /\ [Next]_vars => NonceNotAhead'
<1> SUFFICES ASSUME TypeOK, NonceNotAhead, [Next]_vars, NEW t \in Senders
             PROVE  /\ nonce'[t] <= Len(ledger'[Source[t]])
                    /\ probe'[t] <= Len(ledger'[Source[t]])
  BY DEF NonceNotAhead, Pending
<1> DEFINE len == Len(ledger[Source[t]])
           after == Len(ledger'[Source[t]])
<1>1. /\ Source[t] \in Accounts /\ len \in Nat /\ after \in Nat /\ len <= after
      /\ nonce \in [Senders -> Nat] /\ probe \in [Senders -> Nat]
      /\ nonce[t] \in Nat /\ probe[t] \in Nat
  BY SourceAssumption, LedgerGrows DEF TypeOK
<1>2. nonce[t] <= len /\ probe[t] <= len
  BY DEF NonceNotAhead, Pending
<1>3. ASSUME nonce'[t] = nonce[t] \/ nonce'[t] = len,
             probe'[t] = probe[t] \/ probe'[t] = len
      PROVE  nonce'[t] <= after /\ probe'[t] <= after
  BY SMTT(30), <1>1, <1>2, <1>3
<1>4. ASSUME Accept(Tx(t, nonce[t])), SetNonce(t, nonce[t] + 1), UNCHANGED probe
      PROVE  nonce'[t] <= after /\ probe'[t] <= after
  <2>1. Tx(t, nonce[t]) \in Transactions /\ Tx(t, nonce[t]).from = Source[t]
        /\ Tx(t, nonce[t]).nonce = nonce[t]
    BY <1>1, TxType DEF Tx
  <2>2. nonce[t] = len /\ after = len + 1
    BY <1>4, <2>1, AcceptEffect
  <2>3. nonce'[t] = nonce[t] + 1
    BY <1>1, <1>4 DEF SetNonce
  <2> QED
    BY <1>1, <1>2, <1>4, <2>2, <2>3
<1>5. ASSUME NEW s \in Senders, Step(s)
      PROVE  nonce'[t] <= after /\ probe'[t] <= after
  <2> USE DEF SetNonce, Pending
  <2>1. CASE Begin(s) \/ Refetch(s) \/ Resync(s)
    <3>1. UNCHANGED probe
      BY <2>1 DEF Begin, Refetch, Resync
    <3>2. nonce' = [nonce EXCEPT ![s] = Len(ledger[Source[s]])]
      BY <2>1 DEF Begin, Refetch, Resync, SetNonce
    <3> QED
      BY <1>1, <1>3, <3>1, <3>2
  <2>2. CASE Probe(s)
    <3>1. UNCHANGED nonce
      BY <2>2 DEF Probe
    <3>2. probe' = [probe EXCEPT ![s] = Len(ledger[Source[s]])]
      BY <2>2 DEF Probe
    <3> QED
      BY <1>1, <1>3, <3>1, <3>2
  <2>3. CASE SendOk(s)
    <3>1. CASE s = t
      BY <1>4, <2>3, <3>1 DEF SendOk
    <3>2. CASE s # t
      BY <1>1, <1>3, <2>3, <3>2 DEF SendOk
    <3> QED
      BY <3>1, <3>2
  <2>4. CASE Retry(s)
    <3>1. CASE UNCHANGED nonce
      BY <1>3, <2>4, <3>1 DEF Retry
    <3>2. CASE Accept(Tx(s, nonce[s])) /\ SetNonce(s, nonce[s] + 1)
      <4>1. CASE s = t
        BY <1>4, <2>4, <3>2, <4>1 DEF Retry
      <4>2. CASE s # t
        BY <1>1, <1>3, <2>4, <3>2, <4>2 DEF Retry
      <4> QED
        BY <4>1, <4>2
    <3> QED
      BY <2>4, <3>1, <3>2 DEF Retry
  <2>5. CASE ~(Begin(s) \/ Refetch(s) \/ Resync(s) \/ Probe(s) \/ SendOk(s) \/ Retry(s))
    <3>1. UNCHANGED <<nonce, probe>>
      BY <1>5, <2>5
      DEF Step, Sign, Gate, Clear, SendErr, Raise, Block, Loop, Resubmit, Release,
          ReceiptFound, ReceiptMissing, SpinWithoutHash, vars, senderVars
    <3> QED
      BY <1>3, <3>1
  <2> QED
    BY <2>1, <2>2, <2>3, <2>4, <2>5
<1>6. CASE Node \/ UNCHANGED vars
  <2>1. UNCHANGED <<nonce, probe>>
    BY <1>6 DEF Node, vars, senderVars
  <2> QED
    BY <1>3, <2>1
<1>7. (\E s \in Senders : Step(s)) \/ Node \/ UNCHANGED vars
  BY DEF Next, Finished
<1> QED
  BY <1>5, <1>6, <1>7

\* A sender never signs with a nonce the chain has not reached yet.
THEOREM NoncesNotAhead == Spec => []NonceNotAhead
<1>1. Init => TypeOK /\ NonceNotAhead
  <2>1. Init => NonceNotAhead
    BY SourceAssumption DEF Init, NodeInit, NonceNotAhead, Pending
  <2> QED
    BY <2>1, TypeInit
<1>2. (TypeOK /\ NonceNotAhead) /\ [Next]_vars => (TypeOK /\ NonceNotAhead)'
  BY TypeStep, NonceStep
<1> QED
  BY <1>1, <1>2, PTL DEF Spec

-----------------------------------------------------------------------------
(***************************************************************************)
(* The hashes.                                                             *)
(***************************************************************************)
LEMMA HashShape ==
  ASSUME TypeOK, [Next]_vars
  PROVE  \/ UNCHANGED hash
         \/ \E s \in Senders : /\ pc[s] \in {"send", "retry"}
                            /\ SetHash(s, nonce[s]) /\ Accept(Tx(s, nonce[s]))
<1>1. ASSUME NEW s \in Senders, Step(s)
      PROVE  \/ UNCHANGED hash
             \/ /\ pc[s] \in {"send", "retry"}
                /\ SetHash(s, nonce[s]) /\ Accept(Tx(s, nonce[s]))
  <2>1. CASE SendOk(s) \/ Retry(s)
    BY <2>1 DEF SendOk, Retry
  <2>2. CASE ~(SendOk(s) \/ Retry(s))
    BY SMTT(30), <1>1, <2>2
    DEF Step, Begin, Sign, Gate, Clear, SendErr, Raise, Block, Loop, Probe, Resubmit,
        Release, Resync, Refetch, ReceiptFound, ReceiptMissing, SpinWithoutHash,
        vars, senderVars
  <2> QED
    BY <2>1, <2>2
<1> QED
  BY <1>1 DEF Next, Node, Finished, vars, senderVars

LEMMA HashStep == TypeOK /\ HashAccepted /\ [Next]_vars => HashAccepted'
<1> SUFFICES ASSUME TypeOK, HashAccepted, [Next]_vars,
                    NEW t \in Senders, NEW i \in Targets, hash'[t][i] # NoHash
             PROVE  /\ hash'[t][i] < Len(ledger'[Source[t]])
                    /\ ledger'[Source[t]][hash'[t][i] + 1] = <<t, i>>
  BY SMTT(30) DEF HashAccepted, Pending
<1>0. Source[t] \in Accounts
  BY SourceAssumption
<1>1. CASE hash'[t][i] = hash[t][i]
  <2>0. hash \in [Senders -> [Targets -> Nat \cup {NoHash}]]
    BY DEF TypeOK
  <2>1. /\ hash[t][i] \in Nat
        /\ hash[t][i] < Len(ledger[Source[t]])
        /\ ledger[Source[t]][hash[t][i] + 1] = <<t, i>>
    BY <1>1, <2>0 DEF HashAccepted, Pending
  <2>2. hash[t][i] + 1 \in 1..Len(ledger[Source[t]])
    BY SMTT(30), <1>0, <2>1, LedgerGrows
  <2>3. /\ Len(ledger[Source[t]]) \in Nat /\ Len(ledger'[Source[t]]) \in Nat
        /\ Len(ledger[Source[t]]) <= Len(ledger'[Source[t]])
        /\ ledger'[Source[t]][hash[t][i] + 1] = ledger[Source[t]][hash[t][i] + 1]
    BY <1>0, <2>2, LedgerGrows
  <2>4. hash[t][i] < Len(ledger'[Source[t]])
    BY SMTT(30), <2>1, <2>3
  <2> QED
    BY <1>1, <2>1, <2>3, <2>4
<1>2. CASE hash'[t][i] # hash[t][i]
  <2>1. PICK s \in Senders : SetHash(s, nonce[s]) /\ Accept(Tx(s, nonce[s]))
    BY <1>2, HashShape
  <2>2. hash \in [Senders -> [Targets -> Nat \cup {NoHash}]] /\ idx[s] \in Targets
    BY DEF TypeOK
  <2>3. s = t /\ i = idx[t] /\ hash'[t][i] = nonce[t]
    <3>1. hash' = [hash EXCEPT ![s] = [hash[s] EXCEPT ![idx[s]] = nonce[s]]]
      BY <2>1 DEF SetHash
    <3> QED
      BY <1>2, <2>2, <3>1
  <2>4. nonce[t] \in Nat
    BY DEF TypeOK
  <2>5. /\ Tx(t, nonce[t]) \in Transactions
        /\ Tx(t, nonce[t]).from = Source[t]
        /\ Tx(t, nonce[t]).nonce = nonce[t]
        /\ Tx(t, nonce[t]).pay = <<t, i>>
    BY <2>3, <2>4, TxType DEF Tx
  <2>6. Accept(Tx(t, nonce[t]))
    BY <2>1, <2>3
  <2>7. /\ nonce[t] = Len(ledger[Source[t]])
        /\ Len(ledger'[Source[t]]) = Len(ledger[Source[t]]) + 1
        /\ ledger'[Source[t]][Len(ledger[Source[t]]) + 1] = <<t, i>>
    BY <2>5, <2>6, AcceptEffect
  <2> QED
    BY <2>3, <2>4, <2>7
<1> QED
  BY SMTT(30), <1>1, <1>2

\* Every hash in a metric belongs to the accepted transaction that pays the
\* metric's own target.
THEOREM HashesAccepted == Spec => []HashAccepted
<1>1. Init => TypeOK /\ HashAccepted
  <2>1. Init => HashAccepted
    BY DEF Init, HashAccepted
  <2> QED
    BY <2>1, TypeInit
<1>2. (TypeOK /\ HashAccepted) /\ [Next]_vars => (TypeOK /\ HashAccepted)'
  BY TypeStep, HashStep
<1> QED
  BY <1>1, <1>2, PTL DEF Spec

-----------------------------------------------------------------------------
(***************************************************************************)
(* The order of payments.  A late request is the only submission that does *)
(* not come from where its sender is now.  It cannot overtake: it is       *)
(* accepted only while its account has not moved since it was signed.      *)
(***************************************************************************)
\* Nothing of a sending caller is in the chain from beyond its current target.
Behind ==
  \A s \in Senders : pc[s] \in Sending =>
    \A k \in 1..Len(ledger[Source[s]]) :
      ledger[Source[s]][k][1] = s => ledger[Source[s]][k][2] <= idx[s]

LateBehind ==
  \A tx \in late :
    /\ tx.from = Source[tx.pay[1]]
    /\ tx.nonce <= Len(ledger[tx.from])
    /\ pc[tx.pay[1]] \in Sending => tx.pay[2] <= idx[tx.pay[1]]
    /\ tx.nonce = Len(ledger[tx.from]) =>
         \A k \in 1..Len(ledger[tx.from]) :
           ledger[tx.from][k][1] = tx.pay[1] => ledger[tx.from][k][2] <= tx.pay[2]

OrderInv == PaymentsInOrder /\ Behind /\ LateBehind

LEMMA IdxType ==
  ASSUME TypeOK, NEW t \in Senders
  PROVE  idx[t] \in Targets /\ idx[t] \in Nat
<1>1. idx[t] \in Targets
  BY DEF TypeOK
<1> QED
  BY <1>1, NAssumption DEF Targets

LEMMA IdxTypeNext ==
  ASSUME TypeOK, [Next]_vars, NEW t \in Senders
  PROVE  idx'[t] \in Nat
<1>1. TypeOK'
  BY TypeStep
<1>2. idx'[t] \in Targets
  BY <1>1 DEF TypeOK
<1> QED
  BY <1>2, NAssumption DEF Targets

LEMMA AdvanceMoves ==
  ASSUME TypeOK, NEW s \in Senders, NEW t \in Senders, Advance(s), pc[s] \in Sending
  PROVE  pc'[t] \in Sending => pc[t] \in Sending /\ idx[t] <= idx'[t]
<1>1. pc \in [Senders -> PCs] /\ idx \in [Senders -> Targets] /\ idx[s] \in Nat /\ idx[t] \in Nat
  BY IdxType DEF TypeOK
<1>2. "wait" \notin Sending /\ "done" \notin Sending
  BY DEF Sending
<1>3. CASE t # s
  BY <1>1, <1>3 DEF Advance, Goto
<1>4. CASE t = s
  <2>1. \/ idx'[s] = idx[s] + 1
        \/ pc'[s] = IF s \in Waiters THEN "wait" ELSE "done"
    BY <1>1 DEF Advance, Goto
  <2> QED
    BY <1>1, <1>2, <1>4, <2>1
<1> QED
  BY <1>3, <1>4

\* A sender that is still sending was sending before, at this target or an
\* earlier one.
LEMMA IdxMonotone ==
  ASSUME TypeOK, [Next]_vars, NEW t \in Senders
  PROVE  pc'[t] \in Sending => pc[t] \in Sending /\ idx[t] <= idx'[t]
<1>1. pc \in [Senders -> PCs] /\ idx \in [Senders -> Targets] /\ idx[t] \in Nat
  BY IdxType DEF TypeOK
<1>2. ASSUME NEW s \in Senders, Step(s)
      PROVE  pc'[t] \in Sending => pc[t] \in Sending /\ idx[t] <= idx'[t]
  <2>1. ASSUME Advance(s), pc[s] \in {"clear", "loop", "release", "retry", "refetch"}
        PROVE  pc'[t] \in Sending => pc[t] \in Sending /\ idx[t] <= idx'[t]
    BY <2>1, AdvanceMoves DEF Sending
  <2>2. ASSUME NEW l, Goto(s, l), UNCHANGED idx, pc[s] \in Sending
        PROVE  pc'[t] \in Sending => pc[t] \in Sending /\ idx[t] <= idx'[t]
    BY <1>1, <2>2 DEF Goto
  <2>3. CASE Begin(s) \/ Sign(s) \/ Gate(s) \/ SendOk(s) \/ SendErr(s)
    BY <2>2, <2>3 DEF Begin, Sign, Gate, SendOk, SendErr, Sending
  <2>4. CASE Raise(s) \/ Block(s) \/ Probe(s) \/ Resubmit(s) \/ Resync(s)
    BY <2>2, <2>4 DEF Raise, Block, Probe, Resubmit, Resync, Sending
  <2>5. CASE Clear(s) \/ Refetch(s)
    BY <2>1, <2>5 DEF Clear, Refetch
  <2>6. CASE Loop(s)
    BY <2>1, <2>2, <2>6 DEF Loop, Sending
  <2>7. CASE Release(s)
    BY <2>1, <2>2, <2>7 DEF Release, Sending
  <2>8. CASE Retry(s)
    BY <2>1, <2>2, <2>8 DEF Retry, Sending
  <2>9. CASE ReceiptFound(s) \/ ReceiptMissing(s)
    <3>1. pc[s] = "wait" /\ \/ UNCHANGED <<pc, idx>>
                            \/ NextReceipt(s)
      BY <2>9 DEF ReceiptFound, ReceiptMissing
    <3>2. CASE UNCHANGED <<pc, idx>>
      BY <1>1, <3>2
    <3>3. CASE NextReceipt(s)
      <4>1. pc'[s] \in {"wait", "done"}
        BY <1>1, <3>3 DEF NextReceipt, Goto
      <4>2. t # s => pc'[t] = pc[t] /\ idx'[t] = idx[t]
        BY <1>1, <3>3 DEF NextReceipt, Goto
      <4>3. "wait" \notin Sending /\ "done" \notin Sending
        BY DEF Sending
      <4> QED
        BY <1>1, <4>1, <4>2, <4>3
    <3> QED
      BY <3>1, <3>2, <3>3
  <2>10. CASE SpinWithoutHash(s)
    BY <1>1, <2>10 DEF SpinWithoutHash, vars, senderVars
  <2> QED
    BY <1>2, <2>3, <2>4, <2>5, <2>6, <2>7, <2>8, <2>9, <2>10 DEF Step
<1>3. CASE Node \/ UNCHANGED vars
  BY <1>1, <1>3 DEF Node, vars, senderVars
<1> QED
  BY <1>2, <1>3 DEF Next, Finished

\* A transaction that a step submits is its sender's, for its current target.
LEMMA SubmittedTx ==
  ASSUME TypeOK, NonceNotAhead, NEW s \in Senders, NEW n \in Nat, Submits(s, n)
  PROVE  /\ Tx(s, n) \in Transactions
         /\ Tx(s, n).from = Source[s] /\ Tx(s, n).nonce = n
         /\ Tx(s, n).pay = <<s, idx[s]>>
         /\ Source[s] \in Accounts
         /\ n <= Len(ledger[Source[s]])
         /\ pc[s] \in Sending
BY TxType, SourceAssumption DEF Tx, Submits, NonceNotAhead, Pending, Sending

\* What a step may append, and why it is in order.
LEMMA AppendedInOrder ==
  ASSUME TypeOK, NonceNotAhead, OrderInv, NEW tx \in Transactions, Accept(tx),
         tx \in late \/ \E s \in Senders, n \in Nat : Submits(s, n) /\ tx = Tx(s, n)
  PROVE  /\ tx.pay[1] \in Senders /\ tx.pay[2] \in Nat
         /\ tx.from = Source[tx.pay[1]]
         /\ pc[tx.pay[1]] \in Sending => tx.pay[2] <= idx[tx.pay[1]]
         /\ \A k \in 1..Len(ledger[tx.from]) :
              ledger[tx.from][k][1] = tx.pay[1] => ledger[tx.from][k][2] <= tx.pay[2]
<1>1. tx.pay[1] \in Senders /\ tx.pay[2] \in Nat
  BY NAssumption DEF Transactions, Payments, Targets
<1>2. tx.nonce = Len(ledger[tx.from])
  BY AcceptEffect
<1>3. CASE tx \in late
  BY <1>1, <1>2, <1>3 DEF OrderInv, LateBehind
<1>4. ASSUME NEW s \in Senders, NEW n \in Nat, Submits(s, n), tx = Tx(s, n)
      PROVE  /\ tx.from = Source[tx.pay[1]]
             /\ pc[tx.pay[1]] \in Sending => tx.pay[2] <= idx[tx.pay[1]]
             /\ \A k \in 1..Len(ledger[tx.from]) :
                  ledger[tx.from][k][1] = tx.pay[1] => ledger[tx.from][k][2] <= tx.pay[2]
  <2>1. tx.from = Source[s] /\ tx.pay[1] = s /\ tx.pay[2] = idx[s] /\ pc[s] \in Sending
    BY <1>4, SubmittedTx
  <2> QED
    BY <1>1, <2>1 DEF OrderInv, Behind
<1> QED
  BY <1>1, <1>3, <1>4

LEMMA OrderStep ==
  TypeOK /\ NonceNotAhead /\ OrderInv /\ [Next]_vars => OrderInv'
<1> SUFFICES ASSUME TypeOK, NonceNotAhead, OrderInv, [Next]_vars PROVE OrderInv'
  OBVIOUS
<1>0. /\ \A a \in Accounts : ledger[a] \in Seq(Payments) /\ Len(ledger[a]) \in Nat
      /\ \A s \in Senders : Source[s] \in Accounts /\ idx[s] \in Nat
      /\ late \subseteq Transactions
  BY SMTT(30), SourceAssumption, IdxType DEF TypeOK
<1>1. \A p \in Payments : p[1] \in Senders /\ p[2] \in Nat
  BY NAssumption DEF Payments, Targets
<1>2. \A a \in Accounts : \A k \in 1..Len(ledger[a]) :
        ledger[a][k][1] \in Senders /\ ledger[a][k][2] \in Nat
  BY <1>0, <1>1
<1>3. \A tx \in late : /\ tx.from \in Accounts /\ tx.nonce \in Nat
                       /\ tx.pay[1] \in Senders /\ tx.pay[2] \in Nat
  BY <1>0, <1>1 DEF Transactions
<1>4. CASE UNCHANGED <<ledger, late>>
  <2>1. PaymentsInOrder'
    BY <1>4 DEF OrderInv, PaymentsInOrder, Pending
  <2>2. Behind'
    <3> SUFFICES ASSUME NEW t \in Senders, pc'[t] \in Sending,
                        NEW k \in 1..Len(ledger[Source[t]]), ledger[Source[t]][k][1] = t
                 PROVE  ledger[Source[t]][k][2] <= idx'[t]
      BY <1>4 DEF Behind
    <3>1. pc[t] \in Sending /\ idx[t] <= idx'[t] /\ idx'[t] \in Nat
      BY IdxMonotone, IdxType, IdxTypeNext
    <3>2. ledger[Source[t]][k][2] <= idx[t]
      BY <3>1 DEF OrderInv, Behind
    <3> QED
      BY SMTT(30), <1>0, <1>2, <3>1, <3>2
  <2>3. LateBehind'
    <3> SUFFICES ASSUME NEW tx \in late, pc'[tx.pay[1]] \in Sending
                 PROVE  tx.pay[2] <= idx'[tx.pay[1]]
      BY <1>4 DEF OrderInv, LateBehind
    <3>1. /\ pc[tx.pay[1]] \in Sending /\ idx[tx.pay[1]] <= idx'[tx.pay[1]]
          /\ idx'[tx.pay[1]] \in Nat
      BY <1>3, IdxMonotone, IdxType, IdxTypeNext
    <3> QED
      BY <1>0, <1>3, <3>1 DEF OrderInv, LateBehind
  <2> QED
    BY <2>1, <2>2, <2>3 DEF OrderInv
<1>5. ASSUME NEW tx \in Transactions, Accept(tx), UNCHANGED late,
             tx \in late \/ \E s \in Senders, n \in Nat : Submits(s, n) /\ tx = Tx(s, n)
      PROVE  OrderInv'
  <2> DEFINE acc == tx.from
             len == Len(ledger[acc])
  <2>1. /\ acc \in Accounts /\ len \in Nat /\ Len(ledger'[acc]) = len + 1
        /\ ledger'[acc][len + 1] = tx.pay
        /\ \A k \in 1..len : ledger'[acc][k] = ledger[acc][k]
        /\ \A a \in Accounts : a # acc => ledger'[a] = ledger[a]
    BY <1>0, <1>5, AcceptEffect
  <2>2. /\ tx.pay[1] \in Senders /\ tx.pay[2] \in Nat
        /\ acc = Source[tx.pay[1]]
        /\ pc[tx.pay[1]] \in Sending => tx.pay[2] <= idx[tx.pay[1]]
        /\ \A k \in 1..len : ledger[acc][k][1] = tx.pay[1] => ledger[acc][k][2] <= tx.pay[2]
    BY <1>5, AppendedInOrder
  <2> HIDE DEF acc, len
  <2>3. PaymentsInOrder'
    <3> SUFFICES ASSUME NEW a \in Accounts, NEW j \in 1..Len(ledger'[a]),
                        NEW k \in 1..Len(ledger'[a]), j < k,
                        ledger'[a][j][1] = ledger'[a][k][1]
                 PROVE  ledger'[a][j][2] <= ledger'[a][k][2]
      BY DEF PaymentsInOrder, Pending
    <3>1. CASE a # acc
      BY <2>1, <3>1 DEF OrderInv, PaymentsInOrder, Pending
    <3>2. CASE a = acc /\ k <= len
      <4>1. j \in 1..len /\ k \in 1..len
        BY <2>1, <3>2
      <4>2. ledger'[a][j] = ledger[a][j] /\ ledger'[a][k] = ledger[a][k]
        BY <2>1, <3>2, <4>1
      <4>3. a \in Accounts /\ len = Len(ledger[a])
        BY <3>2 DEF len
      <4>4. ledger[a][j][1] = ledger[a][k][1] => ledger[a][j][2] <= ledger[a][k][2]
        BY <4>1, <4>3 DEF OrderInv, PaymentsInOrder, Pending
      <4> QED
        BY <4>2, <4>4
    <3>3. CASE a = acc /\ ~(k <= len)
      <4>1. k = len + 1 /\ j \in 1..len
        BY <2>1, <3>3
      <4>2. ledger'[a][k] = tx.pay /\ ledger'[a][j] = ledger[a][j]
        BY <2>1, <3>3, <4>1
      <4>3. ledger[a][j][1] = tx.pay[1] => ledger[a][j][2] <= tx.pay[2]
        <5>1. \A i \in 1..len : ledger[acc][i][1] = tx.pay[1] => ledger[acc][i][2] <= tx.pay[2]
          BY <2>2
        <5> QED
          BY SMTT(30), <3>3, <4>1, <5>1
      <4> QED
        BY <4>2, <4>3
    <3> QED
      BY <3>1, <3>2, <3>3
  <2>4. Behind'
    <3> SUFFICES ASSUME NEW t \in Senders, pc'[t] \in Sending,
                        NEW k \in 1..Len(ledger'[Source[t]]), ledger'[Source[t]][k][1] = t
                 PROVE  ledger'[Source[t]][k][2] <= idx'[t]
      BY DEF Behind
    <3>1. /\ pc[t] \in Sending /\ idx[t] <= idx'[t] /\ idx'[t] \in Nat /\ idx[t] \in Nat
          /\ Source[t] \in Accounts
      BY <1>0, IdxMonotone, IdxType, IdxTypeNext
    <3>2. CASE /\ k \in 1..Len(ledger[Source[t]])
               /\ ledger'[Source[t]][k] = ledger[Source[t]][k]
      <4>1. ledger[Source[t]][k][2] <= idx[t]
        BY <3>1, <3>2 DEF OrderInv, Behind
      <4> QED
        BY SMTT(30), <1>2, <3>1, <3>2, <4>1
    <3>3. CASE Source[t] = acc /\ k = len + 1
      <4>1. ledger'[Source[t]][k] = tx.pay /\ tx.pay[1] = t
        BY <2>1, <3>3
      <4>2. tx.pay[2] <= idx[t]
        BY <2>2, <3>1, <4>1
      <4> QED
        BY SMTT(30), <2>2, <3>1, <4>1, <4>2
    <3>4. (k \in 1..Len(ledger[Source[t]]) /\ ledger'[Source[t]][k] = ledger[Source[t]][k])
          \/ (Source[t] = acc /\ k = len + 1)
      <4>1. CASE Source[t] # acc
        BY <2>1, <3>1, <4>1
      <4>2. CASE Source[t] = acc
        <5>1. k \in 1..(len + 1)
          BY <2>1, <4>2
        <5> QED
          BY SMTT(30), <2>1, <4>2, <5>1 DEF len
      <4> QED
        BY <4>1, <4>2
    <3> QED
      BY <3>2, <3>3, <3>4
  <2>5. LateBehind'
    <3> SUFFICES ASSUME NEW r \in late
                 PROVE  /\ r.from = Source[r.pay[1]]
                        /\ r.nonce <= Len(ledger'[r.from])
                        /\ pc'[r.pay[1]] \in Sending => r.pay[2] <= idx'[r.pay[1]]
                        /\ r.nonce = Len(ledger'[r.from]) =>
                             \A k \in 1..Len(ledger'[r.from]) :
                               ledger'[r.from][k][1] = r.pay[1] =>
                                 ledger'[r.from][k][2] <= r.pay[2]
      BY <1>5 DEF LateBehind
    <3>1. r.from = Source[r.pay[1]] /\ r.nonce <= Len(ledger[r.from])
      BY DEF OrderInv, LateBehind
    <3>2. Len(ledger[r.from]) <= Len(ledger'[r.from]) /\ Len(ledger[r.from]) \in Nat
      BY <1>3, LedgerGrows
    <3>3. Len(ledger'[r.from]) \in Nat
      BY <1>3, LedgerGrows
    <3>4. pc'[r.pay[1]] \in Sending => r.pay[2] <= idx'[r.pay[1]]
      <4> SUFFICES ASSUME pc'[r.pay[1]] \in Sending PROVE r.pay[2] <= idx'[r.pay[1]]
        OBVIOUS
      <4>1. /\ pc[r.pay[1]] \in Sending /\ idx[r.pay[1]] <= idx'[r.pay[1]]
            /\ idx'[r.pay[1]] \in Nat /\ idx[r.pay[1]] \in Nat
        BY <1>0, <1>3, IdxMonotone, IdxType, IdxTypeNext
      <4>2. r.pay[2] <= idx[r.pay[1]]
        BY SMTT(30), <4>1 DEF OrderInv, LateBehind
      <4> QED
        BY <1>3, <4>1, <4>2
    <3>5. CASE r.from = acc
      <4>1. r.nonce < Len(ledger'[r.from])
        BY <1>3, <2>1, <3>1, <3>5 DEF len
      <4>2. r.nonce \in Nat
        BY SMTT(30), <1>3 DEF Transactions
      <4> QED
        BY <3>1, <3>4, <4>1, <4>2
    <3>6. CASE r.from # acc
      <4>1. ledger'[r.from] = ledger[r.from]
        BY <1>3, <2>1, <3>6
      <4> QED
        BY <3>1, <3>4, <4>1 DEF OrderInv, LateBehind
    <3> QED
      BY <3>5, <3>6
  <2> QED
    BY <2>3, <2>4, <2>5 DEF OrderInv
<1>6. ASSUME NEW s \in Senders, NEW n \in Nat, Submits(s, n), UNCHANGED ledger,
             late' = late \cup {Tx(s, n)}
      PROVE  OrderInv'
  <2>1. PaymentsInOrder'
    BY <1>6 DEF OrderInv, PaymentsInOrder, Pending
  <2>2. Behind'
    <3> SUFFICES ASSUME NEW t \in Senders, pc'[t] \in Sending,
                        NEW k \in 1..Len(ledger[Source[t]]), ledger[Source[t]][k][1] = t
                 PROVE  ledger[Source[t]][k][2] <= idx'[t]
      BY <1>6 DEF Behind
    <3>1. pc[t] \in Sending /\ idx[t] <= idx'[t] /\ idx'[t] \in Nat
      BY IdxMonotone, IdxType, IdxTypeNext
    <3>2. ledger[Source[t]][k][2] <= idx[t]
      BY <3>1 DEF OrderInv, Behind
    <3> QED
      BY SMTT(30), <1>0, <1>2, <3>1, <3>2
  <2>3. ASSUME NEW r \in late'
        PROVE  /\ r.pay[1] \in Senders /\ r.pay[2] \in Nat
               /\ r.from = Source[r.pay[1]]
               /\ r.nonce <= Len(ledger[r.from])
               /\ pc[r.pay[1]] \in Sending => r.pay[2] <= idx[r.pay[1]]
               /\ r.nonce = Len(ledger[r.from]) =>
                    \A k \in 1..Len(ledger[r.from]) :
                      ledger[r.from][k][1] = r.pay[1] => ledger[r.from][k][2] <= r.pay[2]
    <3>1. CASE r \in late
      BY <1>3, <3>1 DEF OrderInv, LateBehind
    <3>2. CASE r = Tx(s, n)
      <4>1. /\ r.from = Source[s] /\ r.nonce = n /\ r.pay[1] = s /\ r.pay[2] = idx[s]
            /\ n <= Len(ledger[Source[s]]) /\ pc[s] \in Sending
        BY <1>6, <3>2, SubmittedTx
      <4> QED
        BY <1>0, <4>1 DEF OrderInv, Behind
    <3> QED
      BY <1>6, <2>3, <3>1, <3>2
  <2>4. LateBehind'
    <3> SUFFICES ASSUME NEW r \in late', pc'[r.pay[1]] \in Sending
                 PROVE  r.pay[2] <= idx'[r.pay[1]]
      BY <1>6, <2>3 DEF LateBehind
    <3>1. /\ pc[r.pay[1]] \in Sending /\ idx[r.pay[1]] <= idx'[r.pay[1]]
          /\ idx'[r.pay[1]] \in Nat
      BY <2>3, IdxMonotone, IdxType, IdxTypeNext
    <3> QED
      BY <1>0, <2>3, <3>1
  <2> QED
    BY <2>1, <2>2, <2>4 DEF OrderInv
<1> QED
  BY <1>0, <1>4, <1>5, <1>6, LedgerShape, TxType

\* Over retries, probes and requests that arrive after they timed out, the
\* chain holds each sender's payments in the order of its targets.
THEOREM PaymentOrder == Spec => []PaymentsInOrder
<1> DEFINE Inv == TypeOK /\ NonceNotAhead /\ OrderInv
<1>1. Init => Inv
  <2>1. Init => NonceNotAhead
    BY SourceAssumption DEF Init, NodeInit, NonceNotAhead, Pending
  <2>2. Init => OrderInv
    BY SourceAssumption
    DEF Init, NodeInit, OrderInv, PaymentsInOrder, Behind, LateBehind, Pending
  <2> QED
    BY <2>1, <2>2, TypeInit
<1>2. Inv /\ [Next]_vars => Inv'
  BY TypeStep, NonceStep, OrderStep
<1>3. Inv => PaymentsInOrder
  BY DEF OrderInv
<1> QED
  BY <1>1, <1>2, <1>3, PTL DEF Spec

-----------------------------------------------------------------------------
(***************************************************************************)
(* The metrics.  A metric leaves a trace of every target that is over: a   *)
(* status, a hash, or a payment in the chain.                              *)
(***************************************************************************)
PaidTo(s, i) ==
  \E k \in 1..Len(ledger[Source[s]]) : ledger[Source[s]][k] = <<s, i>>

Noted(s, i) == status[s][i] # 99 \/ hash[s][i] # NoHash \/ PaidTo(s, i)

\* The first loop is through with target i, or with what it does for it.
Over(s, i) ==
  \/ Past(s, i)
  \/ i = idx[s] /\ pc[s] \in {"clear", "release", "retry", "refetch"}

NotedInv == \A s \in Retriers, i \in Targets : Over(s, i) => Noted(s, i)

\* A status or a hash is written for the current target of one sender.
LEMMA WrittenStatus ==
  ASSUME TypeOK, NEW s \in Senders, NEW c, SetStatus(s, c),
         NEW t \in Senders, NEW i \in Targets
  PROVE  status'[t][i] = IF t = s /\ i = idx[s] THEN c ELSE status[t][i]
<1>1. status \in [Senders -> [Targets -> {1, 97, 98, 99}]] /\ idx[s] \in Targets
  BY DEF TypeOK
<1> DEFINE Codes == {1, 97, 98, 99}
<1>2. status \in [Senders -> [Targets -> Codes]]
  BY <1>1
<1>3. status' = [status EXCEPT ![s] = [status[s] EXCEPT ![idx[s]] = c]]
  BY DEF SetStatus
<1> HIDE DEF Codes
<1> QED
  BY <1>1, <1>2, <1>3

LEMMA WrittenHash ==
  ASSUME TypeOK, NEW s \in Senders, NEW n, SetHash(s, n),
         NEW t \in Senders, NEW i \in Targets
  PROVE  hash'[t][i] = IF t = s /\ i = idx[s] THEN n ELSE hash[t][i]
<1>1. hash \in [Senders -> [Targets -> Nat \cup {NoHash}]] /\ idx[s] \in Targets
  BY DEF TypeOK
<1>2. hash' = [hash EXCEPT ![s] = [hash[s] EXCEPT ![idx[s]] = n]]
  BY DEF SetHash
<1> QED
  BY <1>1, <1>2

Counted(s) ==
  /\ Succeeded(Source[s], hash[s][idx[s]])
  /\ SetStatus(s, 1) /\ succeed' = [succeed EXCEPT ![s] = @ + 1]

\* Who writes a status.
LEMMA StatusShape ==
  ASSUME TypeOK, [Next]_vars
  PROVE  \/ UNCHANGED <<status, succeed>>
         \/ \E s \in Senders :
              /\ pc[s] \in {"sign", "resync"} /\ UNCHANGED succeed
              /\ \E c \in {97, 98} : SetStatus(s, c)
         \/ \E s \in Senders : ReceiptFound(s) /\ Counted(s)
<1>1. ASSUME NEW s \in Senders, Step(s)
      PROVE  \/ UNCHANGED <<status, succeed>>
             \/ /\ pc[s] \in {"sign", "resync"} /\ UNCHANGED succeed
                /\ \E c \in {97, 98} : SetStatus(s, c)
             \/ ReceiptFound(s) /\ Counted(s)
  <2>1. CASE Sign(s) \/ Resync(s)
    BY <2>1 DEF Sign, Resync
  <2>2. CASE ReceiptFound(s)
    BY <2>2 DEF ReceiptFound, Counted
  <2>3. CASE ~(Sign(s) \/ Resync(s) \/ ReceiptFound(s))
    BY <1>1, <2>3
    DEF Step, Begin, Gate, SendOk, Clear, SendErr, Raise, Block, Loop, Probe, Resubmit,
        Release, Retry, Refetch, ReceiptMissing, SpinWithoutHash, vars, senderVars
  <2> QED
    BY <2>1, <2>2, <2>3
<1>2. CASE Node \/ UNCHANGED vars
  BY <1>2 DEF Node, vars, senderVars
<1> QED
  BY <1>1, <1>2 DEF Next, Finished

\* A trace of a target stays.
LEMMA NotedStays ==
  ASSUME TypeOK, [Next]_vars, NEW t \in Senders, NEW i \in Targets, Noted(t, i)
  PROVE  Noted(t, i)'
<1>1. CASE status[t][i] # 99
  <2>1. CASE UNCHANGED status
    BY <1>1, <2>1 DEF Noted
  <2>2. ASSUME NEW s \in Senders, NEW c \in {1, 97, 98}, SetStatus(s, c)
        PROVE  status'[t][i] # 99
    BY <1>1, <2>2, WrittenStatus
  <2>3. status'[t][i] # 99
    BY <1>1, <2>1, <2>2, StatusShape DEF Counted
  <2> QED
    BY <2>3 DEF Noted
<1>2. CASE hash[t][i] # NoHash
  <2>1. ASSUME NEW s \in Senders, SetHash(s, nonce[s]) PROVE hash'[t][i] # NoHash
    <3>1. nonce[s] \in Nat
      BY DEF TypeOK
    <3>2. nonce[s] # NoHash
      BY <3>1, HashAssumption
    <3> QED
      BY <1>2, <2>1, <3>2, WrittenHash
  <2>2. hash'[t][i] # NoHash
    BY <1>2, <2>1, HashShape
  <2> QED
    BY <2>2 DEF Noted
<1>3. CASE PaidTo(t, i)
  <2>1. Source[t] \in Accounts
    BY SourceAssumption
  <2>2. PICK k \in 1..Len(ledger[Source[t]]) : ledger[Source[t]][k] = <<t, i>>
    BY <1>3 DEF PaidTo
  <2>3. k \in 1..Len(ledger'[Source[t]]) /\ ledger'[Source[t]][k] = <<t, i>>
    BY SMTT(30), <2>1, <2>2, LedgerGrows
  <2> QED
    BY <2>3 DEF Noted, PaidTo
<1> QED
  BY <1>1, <1>2, <1>3 DEF Noted

\* A step of one sender leaves the others where they are.
LEMMA OthersStay ==
  ASSUME TypeOK, NEW s \in Senders, Step(s), NEW t \in Senders, t # s
  PROVE  pc'[t] = pc[t] /\ idx'[t] = idx[t]
<1>1. pc \in [Senders -> PCs] /\ idx \in [Senders -> Targets]
  BY DEF TypeOK
<1>2. ASSUME NEW l, Goto(s, l) PROVE pc'[t] = pc[t]
  BY <1>1, <1>2 DEF Goto
<1>3. ASSUME Advance(s) PROVE pc'[t] = pc[t] /\ idx'[t] = idx[t]
  BY <1>1, <1>3 DEF Advance, Goto
<1>4. ASSUME NextReceipt(s) PROVE pc'[t] = pc[t] /\ idx'[t] = idx[t]
  BY <1>1, <1>4 DEF NextReceipt, Goto
<1>5. CASE Begin(s) \/ Sign(s) \/ Gate(s) \/ SendOk(s) \/ SendErr(s) \/ Raise(s)
  BY <1>2, <1>5 DEF Begin, Sign, Gate, SendOk, SendErr, Raise
<1>6. CASE Block(s) \/ Probe(s) \/ Resubmit(s) \/ Resync(s)
  BY <1>2, <1>6 DEF Block, Probe, Resubmit, Resync
<1>7. CASE Clear(s) \/ Loop(s) \/ Release(s) \/ Retry(s) \/ Refetch(s)
  BY <1>2, <1>3, <1>7 DEF Clear, Loop, Release, Retry, Refetch
<1>8. CASE ReceiptFound(s) \/ ReceiptMissing(s) \/ SpinWithoutHash(s)
  BY <1>4, <1>8 DEF ReceiptFound, ReceiptMissing, SpinWithoutHash, vars, senderVars
<1> QED
  BY <1>5, <1>6, <1>7, <1>8 DEF Step

\* The end of a target adds that target to those that are over.
LEMMA AdvancePast ==
  ASSUME TypeOK, NEW s \in Senders, Advance(s), NEW i \in Targets
  PROVE  /\ Past(s, i)' => i <= idx[s]
         /\ pc'[s] \in {"sign", "wait", "done"}
<1>1. /\ pc \in [Senders -> PCs] /\ idx \in [Senders -> Targets]
      /\ idx[s] \in 1..N /\ i \in 1..N /\ N \in Nat
  BY NAssumption DEF TypeOK, Targets
<1>2. CASE idx[s] < N /\ idx' = [idx EXCEPT ![s] = @ + 1] /\ Goto(s, "sign")
  BY <1>1, <1>2 DEF Goto, Past
<1>3. CASE idx[s] = N /\ Goto(s, IF s \in Waiters THEN "wait" ELSE "done")
  BY <1>1, <1>3 DEF Goto
<1> QED
  BY <1>2, <1>3 DEF Advance

LEMMA NotedStep ==
  ASSUME TypeOK, NotedInv, [Next]_vars
  PROVE  NotedInv'
<1> SUFFICES ASSUME NEW t \in Retriers, NEW i \in Targets, Over(t, i)', ~Over(t, i)
             PROVE  Noted(t, i)'
  <2>1. \A t \in Retriers, i \in Targets : Over(t, i) => Noted(t, i)'
    BY NotedStays, OptionAssumption DEF NotedInv
  <2> QED
    BY <2>1 DEF NotedInv
<1>1. /\ t \in Senders /\ pc \in [Senders -> PCs] /\ idx \in [Senders -> Targets]
      /\ idx[t] \in 1..N /\ i \in 1..N /\ N \in Nat
  BY OptionAssumption, NAssumption DEF TypeOK, Targets
<1>2. ~(i < idx[t]) /\ pc[t] \notin {"wait", "done"}
      /\ ~(i = idx[t] /\ pc[t] \in {"clear", "release", "retry", "refetch"})
  BY DEF Over, Past
<1>3. i < idx'[t] \/ pc'[t] \in {"wait", "done"}
      \/ (i = idx'[t] /\ pc'[t] \in {"clear", "release", "retry", "refetch"})
  BY DEF Over, Past
<1>4. ASSUME NEW l, Goto(t, l), UNCHANGED idx
      PROVE  /\ pc'[t] = l /\ idx'[t] = idx[t]
             /\ l \in {"clear", "release", "retry", "refetch", "wait", "done"}
             /\ l \notin {"wait", "done"} => i = idx[t]
  BY <1>1, <1>2, <1>3, <1>4 DEF Goto
<1>5. ~(Advance(t) /\ pc[t] \in {"clear", "release", "retry", "refetch"})
  <2> SUFFICES ASSUME Advance(t), pc[t] \in {"clear", "release", "retry", "refetch"}
               PROVE  FALSE
    OBVIOUS
  <2>1. i <= idx[t] /\ pc'[t] \in {"sign", "wait", "done"}
    <3>1. Past(t, i)'
      <4>1. pc'[t] \in {"sign", "wait", "done"}
        BY <1>1, AdvancePast
      <4> QED
        BY <1>3, <4>1 DEF Past
    <3> QED
      BY <1>1, <3>1, AdvancePast
  <2> QED
    BY <1>1, <1>2, <2>1
<1>6. PICK s \in Senders : Step(s)
  <2>1. CASE Node \/ UNCHANGED vars
    BY <1>2, <1>3, <2>1 DEF Node, vars, senderVars
  <2> QED
    BY <2>1 DEF Next, Finished
<1>7. s = t
  BY <1>1, <1>2, <1>3, <1>6, OthersStay
<1>8. CASE SendOk(t)
  <2>1. SetHash(t, nonce[t]) /\ i = idx[t]
    BY <1>4, <1>8 DEF SendOk
  <2>2. nonce[t] # NoHash
    <3>1. nonce[t] \in Nat
      BY <1>1 DEF TypeOK
    <3> QED
      BY <3>1, HashAssumption
  <2>3. hash'[t][i] # NoHash
    BY <1>1, <2>1, <2>2, WrittenHash
  <2> QED
    BY <2>3 DEF Noted
<1>9. CASE Sign(t) \/ Resync(t)
  <2>1. UNCHANGED idx /\ \E l \in {"gate", "refetch", "retry"} : Goto(t, l)
    BY <1>9 DEF Sign, Resync
  <2>2. i = idx[t]
    BY <1>4, <2>1
  <2>3. \E c \in {97, 98} : SetStatus(t, c)
    <3>1. ~Goto(t, "gate")
      BY <1>4, <2>1
    <3> QED
      BY <1>9, <3>1 DEF Sign, Resync
  <2>4. status'[t][i] # 99
    BY <1>1, <2>2, <2>3, WrittenStatus
  <2> QED
    BY <2>4 DEF Noted
<1>10. CASE Resubmit(t)
  <2>1. UNCHANGED idx /\ (Goto(t, "loop") \/ (Accept(Tx(t, probe[t])) /\ Goto(t, "release")))
    BY <1>10 DEF Resubmit
  <2>2. ~Goto(t, "loop")
    BY <1>4, <2>1
  <2>3. Accept(Tx(t, probe[t])) /\ i = idx[t]
    BY <1>4, <2>1, <2>2
  <2>4. PICK tx \in Transactions : Accept(tx) /\ tx.from = Source[t] /\ tx.pay = <<t, i>>
    <3>1. probe[t] \in Nat
      BY <1>1 DEF TypeOK
    <3> QED
      BY <1>1, <2>3, <3>1, TxType DEF Tx
  <2>5. PaidTo(t, i)'
    <3>1. Len(ledger[Source[t]]) \in Nat
      BY <1>1, SourceAssumption DEF TypeOK
    <3>2. /\ Len(ledger'[Source[t]]) = Len(ledger[Source[t]]) + 1
          /\ ledger'[Source[t]][Len(ledger[Source[t]]) + 1] = <<t, i>>
      BY <2>4, AcceptEffect
    <3>3. Len(ledger[Source[t]]) + 1 \in 1..Len(ledger'[Source[t]])
      BY <3>1, <3>2
    <3> QED
      BY <3>2, <3>3 DEF PaidTo
  <2> QED
    BY <2>5 DEF Noted
<1>11. CASE Retry(t)
  BY <1>2, <1>4, <1>5, <1>11 DEF Retry
<1>12. CASE Loop(t)
  BY <1>4, <1>12 DEF Loop
<1>13. CASE Clear(t) \/ Release(t) \/ Refetch(t)
  BY <1>4, <1>5, <1>13 DEF Clear, Release, Refetch
<1>14. ~(ReceiptFound(t) \/ ReceiptMissing(t) \/ SpinWithoutHash(t))
  BY <1>2 DEF ReceiptFound, ReceiptMissing, SpinWithoutHash
<1>15. ~(Begin(t) \/ Gate(t) \/ SendErr(t) \/ Raise(t) \/ Block(t) \/ Probe(t))
  <2>1. ASSUME Begin(t) \/ Gate(t) \/ SendErr(t) \/ Raise(t) \/ Block(t) \/ Probe(t)
        PROVE  /\ UNCHANGED idx
               /\ \E l \in {"sign", "send", "raise", "loop", "block", "resubmit"} : Goto(t, l)
    BY <2>1 DEF Begin, Gate, SendErr, Raise, Block, Probe
  <2> QED
    BY <1>4, <2>1
<1> QED
  BY <1>6, <1>7, <1>8, <1>9, <1>10, <1>11, <1>12, <1>13, <1>14, <1>15 DEF Step

\* With need_retry, a target whose metric shows nothing was paid all the same:
\* the recovery loop did it, and only it leaves no trace in the metric.
THEOREM SilentMeansPaid == Spec => []UntouchedMeansRecovered
<1>1. Init => TypeOK /\ NotedInv
  <2>1. Init => NotedInv
    <3> SUFFICES ASSUME Init, NEW s \in Retriers, NEW i \in Targets PROVE ~Over(s, i)
      BY DEF NotedInv
    <3>1. pc[s] = "begin" /\ idx[s] = 1
      BY OptionAssumption DEF Init
    <3> QED
      BY <3>1, NAssumption DEF Over, Past, Targets
  <2> QED
    BY <2>1, TypeInit
<1>2. (TypeOK /\ NotedInv) /\ [Next]_vars => (TypeOK /\ NotedInv)'
  BY TypeStep, NotedStep
<1>3. NotedInv => UntouchedMeansRecovered
  BY SMTT(30) DEF NotedInv, UntouchedMeansRecovered, Over, Noted, PaidTo, Pending
<1> QED
  BY <1>1, <1>2, <1>3, PTL DEF Spec

-----------------------------------------------------------------------------
(***************************************************************************)
(* The report.  A status says success only for a receipt the report is     *)
(* through with, and the first loop, which writes statuses too, is over by *)
(* then.                                                                   *)
(***************************************************************************)
OnlyAfterReceipt ==
  \A s \in Senders, i \in Targets :
    status[s][i] = 1 => (pc[s] = "wait" /\ i < idx[s]) \/ pc[s] = "done"

ReportInv == ReportedSuccess /\ OnlyAfterReceipt

\* A mined transaction stays mined, and its receipt stays what it was.
LEMMA SucceededStays ==
  ASSUME TypeOK, [Next]_vars, NEW a \in Accounts, NEW n \in Nat, Succeeded(a, n)
  PROVE  n < committed'[a] /\ <<a, n>> \notin reverted'
<1>1. committed \in [Accounts -> Nat] /\ n < committed[a] /\ <<a, n>> \notin reverted
  BY DEF TypeOK, Succeeded, Mined
<1>2. CASE UNCHANGED <<committed, reverted>>
  BY <1>1, <1>2
<1>3. ASSUME NEW b \in Accounts, Mine(b)
      PROVE  n < committed'[a] /\ <<a, n>> \notin reverted'
  <2>1. /\ committed' = [committed EXCEPT ![b] = @ + 1]
        /\ reverted' = reverted \/ reverted' = reverted \cup {<<b, committed[b]>>}
    BY <1>3 DEF Mine
  <2>2. n < committed'[a]
    BY <1>1, <2>1
  <2>3. <<a, n>> # <<b, committed[b]>>
    BY <1>1
  <2> QED
    BY <1>1, <2>1, <2>2, <2>3
<1>4. ASSUME NEW s \in Senders, Step(s) PROVE UNCHANGED <<committed, reverted>>
  <2>1. ASSUME NEW tx, NEW text, Refuse(tx, text) PROVE UNCHANGED <<committed, reverted>>
    BY <2>1 DEF Refuse
  <2>2. ASSUME NEW tx, Accept(tx) PROVE UNCHANGED <<committed, reverted>>
    BY <2>2 DEF Accept
  <2>3. CASE SendOk(s) \/ SendErr(s) \/ Resubmit(s) \/ Retry(s)
    BY <2>1, <2>2, <2>3 DEF SendOk, SendErr, Resubmit, Retry
  <2>4. CASE ~(SendOk(s) \/ SendErr(s) \/ Resubmit(s) \/ Retry(s))
    BY <1>4, <2>4
    DEF Step, Begin, Sign, Gate, Clear, Raise, Block, Loop, Probe, Release, Resync,
        Refetch, ReceiptFound, ReceiptMissing, SpinWithoutHash, SignFault, vars, nodeVars
  <2> QED
    BY <2>3, <2>4
<1>5. CASE Node
  BY <1>2, <1>3, <1>5 DEF Node, DeliverLate, Accept
<1>6. CASE UNCHANGED vars
  BY <1>2, <1>6 DEF vars, nodeVars
<1> QED
  BY <1>2, <1>4, <1>5, <1>6 DEF Next, Finished

\* The second loop goes through the receipts in order and ends.
LEMMA ReceiptsAdvance ==
  ASSUME TypeOK, [Next]_vars, NEW t \in Senders
  PROVE  /\ pc[t] = "wait" => pc'[t] = "done" \/ (pc'[t] = "wait" /\ idx[t] <= idx'[t])
         /\ pc[t] = "done" => pc'[t] = "done"
<1>1. /\ pc \in [Senders -> PCs] /\ idx \in [Senders -> Targets] /\ idx[t] \in Nat
  BY IdxType DEF TypeOK
<1>2. ASSUME Step(t), pc[t] \in {"wait", "done"}
      PROVE  /\ pc[t] = "wait"
             /\ pc'[t] = "done" \/ (pc'[t] = "wait" /\ idx[t] <= idx'[t])
  <2>1. pc[t] = "wait" /\ (NextReceipt(t) \/ UNCHANGED <<pc, idx>>)
    BY SMTT(30), <1>2
    DEF Step, Begin, Sign, Gate, SendOk, SendErr, Clear, Raise, Block, Loop, Probe,
        Resubmit, Release, Resync, Retry, Refetch, ReceiptFound, ReceiptMissing,
        SpinWithoutHash, vars, senderVars
  <2>2. CASE NextReceipt(t)
    BY <1>1, <2>1, <2>2 DEF NextReceipt, Goto
  <2>3. CASE UNCHANGED <<pc, idx>>
    BY <1>1, <2>1, <2>3
  <2> QED
    BY <2>1, <2>2, <2>3
<1>3. ASSUME NEW s \in Senders, Step(s), s # t PROVE pc'[t] = pc[t] /\ idx'[t] = idx[t]
  BY <1>3, OthersStay
<1>4. CASE Node \/ UNCHANGED vars
  BY <1>1, <1>4 DEF Node, vars, senderVars
<1> QED
  BY <1>1, <1>2, <1>3, <1>4 DEF Next, Finished

\* One more target with status 1 is one more success.
LEMMA OneMoreSuccess ==
  ASSUME NEW old \in SUBSET Targets, NEW i \in Targets, i \notin old
  PROVE  Cardinality(old \cup {i}) = Cardinality(old) + 1
<1>1. IsFiniteSet(Targets)
  BY FS_Interval, NAssumption DEF Targets
<1>2. IsFiniteSet(old)
  BY <1>1, FS_Subset
<1> QED
  BY <1>2, FS_AddElement

LEMMA ReportStep ==
  ASSUME TypeOK, ReportInv, [Next]_vars
  PROVE  ReportInv'
<1> DEFINE ones(s) == {i \in Targets : status[s][i] = 1}
<1>1. /\ status \in [Senders -> [Targets -> {1, 97, 98, 99}]]
      /\ hash \in [Senders -> [Targets -> Nat \cup {NoHash}]]
      /\ succeed \in [Senders -> Nat]
      /\ \A s \in Senders : idx[s] \in Targets /\ idx[s] \in Nat /\ Source[s] \in Accounts
  BY IdxType, SourceAssumption DEF TypeOK
<1>2. ASSUME NEW t \in Senders, NEW i \in Targets, status[t][i] = 1
      PROVE  /\ hash'[t][i] = hash[t][i] /\ hash[t][i] # NoHash
             /\ hash[t][i] < committed'[Source[t]]
             /\ <<Source[t], hash[t][i]>> \notin reverted'
             /\ (pc'[t] = "wait" /\ i < idx'[t]) \/ pc'[t] = "done"
  <2>1. (pc[t] = "wait" /\ i < idx[t]) \/ pc[t] = "done"
    BY <1>2 DEF ReportInv, OnlyAfterReceipt
  <2>2. hash[t][i] # NoHash /\ Succeeded(Source[t], hash[t][i])
    BY <1>2 DEF ReportInv, ReportedSuccess
  <2>3. hash[t][i] \in Nat
    BY <1>1, <2>2
  <2>4. hash[t][i] < committed'[Source[t]] /\ <<Source[t], hash[t][i]>> \notin reverted'
    BY <1>1, <2>2, <2>3, SucceededStays
  <2>5. hash'[t][i] = hash[t][i]
    <3>1. CASE UNCHANGED hash
      BY <3>1
    <3>2. ASSUME NEW s \in Senders, pc[s] \in {"send", "retry"}, SetHash(s, nonce[s])
          PROVE  hash'[t][i] = hash[t][i]
      <4>1. s # t
        BY <2>1, <3>2
      <4> QED
        BY <3>2, <4>1, WrittenHash
    <3> QED
      BY <3>1, <3>2, HashShape
  <2>6. (pc'[t] = "wait" /\ i < idx'[t]) \/ pc'[t] = "done"
    <3>1. i \in Nat /\ idx[t] \in Nat /\ idx'[t] \in Nat
      BY <1>1, IdxTypeNext DEF Targets
    <3> QED
      BY <2>1, <3>1, ReceiptsAdvance
  <2> QED
    BY <2>2, <2>4, <2>5, <2>6
<1>3. \A t \in Senders : succeed[t] = Cardinality(ones(t))
  BY DEF ReportInv, ReportedSuccess
<1>4. ASSUME \A t \in Senders : succeed'[t] = succeed[t],
             \A t \in Senders, i \in Targets : status'[t][i] = 1 <=> status[t][i] = 1
      PROVE  ReportInv'
  <2>1. \A t \in Senders : {i \in Targets : status'[t][i] = 1} = ones(t)
    BY <1>4
  <2>2. \A t \in Senders : succeed'[t] = Cardinality({i \in Targets : status'[t][i] = 1})
    BY <1>3, <1>4, <2>1
  <2>3. ASSUME NEW t \in Senders, NEW i \in Targets, status'[t][i] = 1
        PROVE  /\ hash'[t][i] # NoHash
               /\ hash'[t][i] < committed'[Source[t]]
               /\ <<Source[t], hash'[t][i]>> \notin reverted'
               /\ (pc'[t] = "wait" /\ i < idx'[t]) \/ pc'[t] = "done"
    <3>1. status[t][i] = 1
      BY <1>4, <2>3
    <3>2. hash'[t][i] = hash[t][i]
      BY <1>2, <3>1
    <3> QED
      BY <1>2, <3>1, <3>2
  <2>4. ReportedSuccess'
    BY <2>2, <2>3 DEF ReportedSuccess, Succeeded, Mined
  <2>5. OnlyAfterReceipt'
    BY <2>3 DEF OnlyAfterReceipt
  <2> QED
    BY <2>4, <2>5 DEF ReportInv
<1>5. CASE UNCHANGED <<status, succeed>>
  BY <1>4, <1>5
<1>6. ASSUME NEW s \in Senders, pc[s] \in {"sign", "resync"}, UNCHANGED succeed,
             NEW c \in {97, 98}, SetStatus(s, c)
      PROVE  ReportInv'
  <2>1. \A i \in Targets : status[s][i] # 1
    BY <1>6 DEF ReportInv, OnlyAfterReceipt
  <2>2. \A t \in Senders, i \in Targets : status'[t][i] = 1 <=> status[t][i] = 1
    BY <1>6, <2>1, WrittenStatus
  <2> QED
    BY <1>4, <1>6, <2>2
<1>7. ASSUME NEW s \in Senders, ReceiptFound(s), Counted(s)
      PROVE  ReportInv'
  <2>1. /\ pc[s] = "wait" /\ hash[s][idx[s]] # NoHash
        /\ Succeeded(Source[s], hash[s][idx[s]])
        /\ SetStatus(s, 1) /\ succeed' = [succeed EXCEPT ![s] = @ + 1]
        /\ NextReceipt(s) /\ UNCHANGED <<committed, reverted, hash>>
    BY <1>7 DEF ReceiptFound, Counted, nodeVars
  <2>2. \A t \in Senders, i \in Targets :
          status'[t][i] = IF t = s /\ i = idx[s] THEN 1 ELSE status[t][i]
    BY <2>1, WrittenStatus
  <2>3. idx[s] \notin ones(s)
    BY <1>1, <2>1 DEF ReportInv, OnlyAfterReceipt
  <2>4. \A t \in Senders : t # s => {i \in Targets : status'[t][i] = 1} = ones(t)
    BY <2>2
  <2>5. {i \in Targets : status'[s][i] = 1} = ones(s) \cup {idx[s]}
    BY <1>1, <2>2
  <2>6. Cardinality(ones(s) \cup {idx[s]}) = Cardinality(ones(s)) + 1
    <3>1. ones(s) \in SUBSET Targets
      OBVIOUS
    <3> HIDE DEF ones
    <3> QED
      BY <1>1, <2>3, <3>1, OneMoreSuccess
  <2>7. \A t \in Senders : succeed'[t] = Cardinality({i \in Targets : status'[t][i] = 1})
    <3>1. succeed'[s] = succeed[s] + 1 /\ \A t \in Senders : t # s => succeed'[t] = succeed[t]
      BY <1>1, <2>1
    <3> HIDE DEF ones
    <3> QED
      BY <1>3, <2>4, <2>5, <2>6, <3>1
  <2>8. (pc'[s] = "wait" /\ idx[s] < idx'[s]) \/ pc'[s] = "done"
    <3>1. pc \in [Senders -> PCs] /\ idx \in [Senders -> Targets]
      BY SMTT(30) DEF TypeOK
    <3> QED
      BY <1>1, <2>1, <3>1 DEF NextReceipt, Goto
  <2>9. ASSUME NEW t \in Senders, NEW i \in Targets, status'[t][i] = 1
        PROVE  /\ hash'[t][i] # NoHash /\ Succeeded(Source[t], hash[t][i])'
               /\ (pc'[t] = "wait" /\ i < idx'[t]) \/ pc'[t] = "done"
    <3>1. CASE status[t][i] = 1
      BY <1>2, <3>1 DEF Succeeded, Mined
    <3>2. CASE t = s /\ i = idx[s]
      BY <2>1, <2>8, <3>2 DEF Succeeded, Mined
    <3> QED
      BY <2>2, <2>9, <3>1, <3>2
  <2> QED
    BY <2>7, <2>9 DEF ReportInv, ReportedSuccess, OnlyAfterReceipt
<1> QED
  BY <1>5, <1>6, <1>7, StatusShape

\* What the final report counts as succeeded is mined and not reverted, and
\* counted once, for any number of targets.
THEOREM ReportsAreTrue == Spec => []ReportedSuccess
<1>1. Init => TypeOK /\ ReportInv
  <2> SUFFICES ASSUME Init PROVE ReportInv
    BY TypeInit
  <2>1. \A s \in Senders : succeed[s] = 0 /\ \A i \in Targets : status[s][i] = 99
    BY DEF Init
  <2>2. \A s \in Senders : {i \in Targets : status[s][i] = 1} = {}
    BY <2>1
  <2> QED
    BY <2>1, <2>2, FS_EmptySet DEF ReportInv, ReportedSuccess, OnlyAfterReceipt
<1>2. (TypeOK /\ ReportInv) /\ [Next]_vars => (TypeOK /\ ReportInv)'
  BY TypeStep, ReportStep
<1>3. ReportInv => ReportedSuccess
  BY DEF ReportInv
<1> QED
  BY <1>1, <1>2, <1>3, PTL DEF Spec

\* What the metrics say of the chain is true, their hashes and what the report
\* counts as succeeded, for any number of senders and targets.
THEOREM MetricsAreTrue == Spec => []MetricsTrue
<1>1. HashAccepted /\ ReportedSuccess => MetricsTrue
  BY DEF MetricsTrue
<1> QED
  BY HashesAccepted, ReportsAreTrue, <1>1, PTL

-----------------------------------------------------------------------------
(***************************************************************************)
(* Double payments.  A payment in the chain is direct when no request of   *)
(* it is in the set of those whose answer was lost.  The first loop makes  *)
(* at most one direct payment of a target, and is through with the target  *)
(* when it has.                                                            *)
(***************************************************************************)
Pays(s, i) == {k \in 1..Len(ledger[Source[s]]) : ledger[Source[s]][k] = <<s, i>>}

Entry(s, i, k) == [from |-> Source[s], nonce |-> k - 1, pay |-> <<s, i>>]

Direct(s, i) == {k \in Pays(s, i) : Entry(s, i, k) \notin late}

\* The loop will not submit target i of s any more.
Through(s, i) ==
  \/ pc[s] \notin Sending
  \/ i < idx[s]
  \/ i = idx[s] /\ pc[s] \in {"clear", "release"}

DirectOnce ==
  \A s \in Senders, i \in Targets :
    /\ \A j, k \in Direct(s, i) : j = k
    /\ Direct(s, i) # {} => Through(s, i)

LEMMA LateStep ==
  ASSUME TypeOK, [Next]_vars
  PROVE  late \subseteq late' /\ (IsFiniteSet(late) => IsFiniteSet(late'))
<1>1. CASE UNCHANGED late
  BY <1>1
<1>2. ASSUME NEW tx, late' = late \cup {tx}
      PROVE  late \subseteq late' /\ (IsFiniteSet(late) => IsFiniteSet(late'))
  BY <1>2, FS_AddElement
<1> QED
  BY <1>1, <1>2, LedgerShape

\* An accepted transaction is a new direct payment of its own target only, and
\* only if its answer is not among the lost ones.
LEMMA DirectGrowth ==
  ASSUME TypeOK, NEW tx \in Transactions, Accept(tx),
         NEW s \in Senders, NEW i \in Targets, NEW k \in Direct(s, i)'
  PROVE  \/ k \in Direct(s, i)
         \/ /\ tx.pay = <<s, i>> /\ tx \notin late
            /\ k = Len(ledger[Source[s]]) + 1
<1>1. Source[s] \in Accounts /\ Len(ledger[Source[s]]) \in Nat
  BY SourceAssumption DEF TypeOK
<1>2. /\ k \in 1..Len(ledger'[Source[s]]) /\ ledger'[Source[s]][k] = <<s, i>>
      /\ Entry(s, i, k) \notin late /\ late' = late
  BY DEF Direct, Pays, Accept, Entry
<1>3. CASE k \in 1..Len(ledger[Source[s]]) /\ ledger'[Source[s]][k] = ledger[Source[s]][k]
  BY <1>2, <1>3 DEF Direct, Pays
<1>4. CASE tx.from # Source[s]
  BY <1>1, <1>2, <1>3, <1>4, AcceptEffect
<1>5. CASE tx.from = Source[s] /\ k = Len(ledger[Source[s]]) + 1
  <2>1. tx.pay = <<s, i>> /\ tx.nonce = k - 1
    BY SMTT(30), <1>1, <1>2, <1>5, AcceptEffect
  <2>2. tx = [from |-> tx.from, nonce |-> tx.nonce, pay |-> tx.pay]
    BY DEF Transactions
  <2>3. tx = Entry(s, i, k)
    BY <1>5, <2>1, <2>2 DEF Entry
  <2> QED
    BY <1>2, <1>5, <2>1, <2>3
<1>6. CASE tx.from = Source[s] /\ k # Len(ledger[Source[s]]) + 1
  <2>1. k \in 1..Len(ledger[Source[s]])
    BY SMTT(30), <1>1, <1>2, <1>6, AcceptEffect
  <2> QED
    BY <1>3, <1>6, <2>1, AcceptEffect
<1> QED
  BY <1>4, <1>5, <1>6

\* Once through with a target, a sender does not come back to it.
LEMMA ThroughStays ==
  ASSUME TypeOK, [Next]_vars, NEW t \in Senders, NEW i \in Targets, Through(t, i)
  PROVE  Through(t, i)'
<1>1. /\ idx[t] \in Nat /\ idx'[t] \in Nat /\ i \in Nat
      /\ pc \in [Senders -> PCs] /\ idx \in [Senders -> Targets]
  <2>1. i \in Nat
    BY NAssumption DEF Targets
  <2> QED
    BY <2>1, IdxType, IdxTypeNext DEF TypeOK
<1> SUFFICES ASSUME pc'[t] \in Sending
             PROVE  i < idx'[t] \/ (i = idx'[t] /\ pc'[t] \in {"clear", "release"})
  BY DEF Through
<1>2. pc[t] \in Sending /\ idx[t] <= idx'[t]
  BY IdxMonotone
<1>3. CASE i < idx[t]
  BY <1>1, <1>2, <1>3
<1>4. CASE i = idx[t] /\ pc[t] \in {"clear", "release"}
  <2>1. ASSUME NEW s \in Senders, Step(s) PROVE Clear(t) \/ Release(t) \/ s # t
    BY <1>4, <2>1
    DEF Step, Begin, Sign, Gate, SendOk, SendErr, Raise, Block, Loop, Probe, Resubmit,
        Resync, Retry, Refetch, ReceiptFound, ReceiptMissing, SpinWithoutHash
  <2>2. CASE Clear(t) \/ Release(t)
    <3>1. Advance(t) \/ Goto(t, "panicked")
      BY <2>2 DEF Clear, Release
    <3>2. ~Goto(t, "panicked")
      BY <1>1 DEF Goto, Sending
    <3>3. pc'[t] = "sign" /\ Past(t, i)'
      BY <1>1, <1>4, <3>1, <3>2 DEF Advance, Goto, Sending, Past
    <3> QED
      BY <3>3 DEF Past
  <2>3. ASSUME NEW s \in Senders, Step(s), s # t PROVE pc'[t] = pc[t] /\ idx'[t] = idx[t]
    BY <2>3, OthersStay
  <2>4. CASE Node \/ UNCHANGED vars
    BY <1>4, <2>4 DEF Node, vars, senderVars
  <2> QED
    BY <1>4, <2>1, <2>2, <2>3, <2>4 DEF Next, Finished
<1> QED
  BY <1>2, <1>3, <1>4 DEF Through

LEMMA DirectStep ==
  ASSUME TypeOK, NonceNotAhead, DirectOnce, [Next]_vars
  PROVE  DirectOnce'
<1> SUFFICES ASSUME NEW t \in Senders, NEW i \in Targets
             PROVE  /\ \A j, k \in Direct(t, i)' : j = k
                    /\ Direct(t, i)' # {} => Through(t, i)'
  BY DEF DirectOnce
<1>1. /\ \A j, k \in Direct(t, i) : j = k
      /\ Direct(t, i) # {} => Through(t, i)
  BY DEF DirectOnce
<1>2. ASSUME Direct(t, i)' \subseteq Direct(t, i)
      PROVE  /\ \A j, k \in Direct(t, i)' : j = k
             /\ Direct(t, i)' # {} => Through(t, i)'
  BY <1>1, <1>2, ThroughStays
<1>3. CASE UNCHANGED ledger
  <2>1. late \subseteq late'
    BY LateStep
  <2>2. Direct(t, i)' \subseteq Direct(t, i)
    BY <1>3, <2>1 DEF Direct, Pays, Entry
  <2> QED
    BY <1>2, <2>2
<1>4. ASSUME NEW tx \in late, Accept(tx)
      PROVE  Direct(t, i)' \subseteq Direct(t, i)
  <2>1. tx \in Transactions
    BY DEF TypeOK
  <2> QED
    BY <1>4, <2>1, DirectGrowth
<1>5. ASSUME NEW s \in Senders, NEW n \in Nat, Submits(s, n), Accept(Tx(s, n)), Settles(s)
      PROVE  /\ \A j, k \in Direct(t, i)' : j = k
             /\ Direct(t, i)' # {} => Through(t, i)'
  <2>1. Tx(s, n) \in Transactions /\ Tx(s, n).pay = <<s, idx[s]>>
    BY <1>5, SubmittedTx
  <2>2. CASE ~(t = s /\ i = idx[s])
    <3>1. Direct(t, i)' \subseteq Direct(t, i)
      BY <1>5, <2>1, <2>2, DirectGrowth
    <3> QED
      BY <1>2, <3>1
  <2>3. CASE t = s /\ i = idx[s]
    <3>1. /\ pc \in [Senders -> PCs] /\ idx \in [Senders -> Targets]
          /\ idx[s] \in Nat
      BY IdxType DEF TypeOK
    <3>2. Direct(t, i) = {}
      <4>1. pc[s] \in {"send", "retry", "resubmit"}
        BY <1>5 DEF Submits
      <4>2. ~Through(t, i)
        BY <2>3, <3>1, <4>1 DEF Through, Sending
      <4> QED
        BY <1>1, <4>2
    <3>3. \A j, k \in Direct(t, i)' : j = k
      <4>1. \A k \in Direct(t, i)' : k = Len(ledger[Source[t]]) + 1
        BY <1>5, <2>1, <3>2, DirectGrowth
      <4> QED
        BY <4>1
    <3>4. Through(t, i)'
      BY <1>5, <2>3, <3>1 DEF Settles, Advance, Goto, Through, Sending
    <3> QED
      BY <3>3, <3>4
  <2> QED
    BY <2>2, <2>3
<1> QED
  BY <1>2, <1>3, <1>4, <1>5, LedgerShape

\* As many further payments of a target as there are lost answers about it.
LEMMA LostAnswers ==
  ASSUME TypeOK, IsFiniteSet(late), NEW s \in Senders, NEW i \in Targets
  PROVE  LET Lost == {tx \in late : tx.pay = <<s, i>>}
             Other == Pays(s, i) \ Direct(s, i)
         IN  /\ IsFiniteSet(Other) /\ IsFiniteSet(Lost)
             /\ Cardinality(Other) <= Cardinality(Lost)
<1> DEFINE Lost == {tx \in late : tx.pay = <<s, i>>}
           Other == Pays(s, i) \ Direct(s, i)
           f == [k \in Other |-> Entry(s, i, k)]
<1>1. IsFiniteSet(Lost)
  BY FS_Subset
<1>2. \A k \in Other : k \in Nat /\ Entry(s, i, k) \in Lost
  BY DEF Direct, Pays, Entry
<1>3. ASSUME NEW j \in Other, NEW k \in Other, Entry(s, i, j) = Entry(s, i, k)
      PROVE  j = k
  <2>1. Entry(s, i, j).nonce = j - 1 /\ Entry(s, i, k).nonce = k - 1
    BY DEF Entry
  <2>2. j - 1 = k - 1
    BY <1>3, <2>1
  <2> QED
    BY <1>2, <2>2
<1>4. f \in Injection(Other, Lost)
  <2> HIDE DEF Other, Lost
  <2>1. f \in [Other -> Lost]
    BY <1>2
  <2> QED
    BY <1>3, <2>1 DEF Injection, IsInjective
<1> HIDE DEF f, Other, Lost
<1>5. IsFiniteSet(Other) /\ Cardinality(Other) <= Cardinality(Lost)
  BY <1>1, <1>4, FS_Injection
<1> QED
  BY <1>1, <1>5 DEF Other, Lost

\* Whatever is refused, probed, retried or delivered late, a target is paid
\* once, and once more at most for every request of it whose answer was lost.
THEOREM PaidOnce == Spec => []NoDoublePay
<1> DEFINE Inv == TypeOK /\ NonceNotAhead /\ DirectOnce /\ IsFiniteSet(late)
<1>1. Init => Inv
  <2>1. Init => NonceNotAhead
    BY SourceAssumption DEF Init, NodeInit, NonceNotAhead, Pending
  <2>2. Init => DirectOnce /\ IsFiniteSet(late)
    BY SourceAssumption, FS_EmptySet
    DEF Init, NodeInit, DirectOnce, Direct, Pays
  <2> QED
    BY <2>1, <2>2, TypeInit
<1>2. Inv /\ [Next]_vars => Inv'
  BY TypeStep, NonceStep, DirectStep, LateStep
<1>3. Inv => NoDoublePay
  <2> SUFFICES ASSUME Inv, NEW s \in Senders, NEW i \in Targets
               PROVE  Cardinality(Pays(s, i))
                        <= 1 + Cardinality({tx \in late : tx.pay = <<s, i>>})
    BY DEF NoDoublePay, Times, Pays, Pending
  <2> DEFINE Lost == {tx \in late : tx.pay = <<s, i>>}
             Other == Pays(s, i) \ Direct(s, i)
  <2>1. /\ IsFiniteSet(Other) /\ IsFiniteSet(Lost)
        /\ Cardinality(Other) <= Cardinality(Lost)
    BY LostAnswers
  <2>2. IsFiniteSet(Direct(s, i)) /\ Cardinality(Direct(s, i)) <= 1
    <3>1. CASE Direct(s, i) = {}
      <4>1. IsFiniteSet({}) /\ Cardinality({}) = 0
        BY FS_EmptySet
      <4> QED
        BY <3>1, <4>1
    <3>2. ASSUME NEW k \in Direct(s, i)
          PROVE  IsFiniteSet(Direct(s, i)) /\ Cardinality(Direct(s, i)) <= 1
      <4>1. Direct(s, i) = {k}
        BY DEF DirectOnce
      <4>2. IsFiniteSet({k}) /\ Cardinality({k}) = 1
        BY FS_Singleton
      <4> QED
        BY <4>1, <4>2
    <3> QED
      BY <3>1, <3>2
  <2> HIDE DEF Lost, Other
  <2>3. Pays(s, i) = Other \cup Direct(s, i)
    BY DEF Other, Direct
  <2>4. /\ Cardinality(Other) \in Nat /\ Cardinality(Lost) \in Nat
        /\ Cardinality(Direct(s, i)) \in Nat
        /\ Cardinality(Other \cap Direct(s, i)) \in Nat
    <3>1. IsFiniteSet(Other \cap Direct(s, i))
      BY <2>2, FS_Subset
    <3> QED
      BY <2>1, <2>2, <3>1, FS_CardinalityType
  <2>5. Cardinality(Pays(s, i)) <= 1 + Cardinality(Lost)
    <3>1. Cardinality(Pays(s, i)) =
            Cardinality(Other) + Cardinality(Direct(s, i)) - Cardinality(Other \cap Direct(s, i))
      BY <2>1, <2>2, <2>3, FS_Union
    <3> QED
      BY <2>1, <2>2, <2>4, <3>1
  <2> QED
    BY <2>5 DEF Lost
<1> QED
  BY <1>1, <1>2, <1>3, PTL DEF Spec
=============================================================================
