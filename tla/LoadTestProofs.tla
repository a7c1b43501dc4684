--------------------------- MODULE LoadTestProofs ---------------------------
(***************************************************************************)
(* Proofs about LoadTest, for any number of accounts, rounds and faults,   *)
(* any delay and any pool size.                                            *)
(***************************************************************************)
EXTENDS LoadTest, TLAPS

\* Where the main thread may be with which round: a thread of an account runs
\* only inside a round, and the basic test ends with its last round.
Control ==
  /\ committed \in [Accounts -> Nat] /\ faults \in Nat
  /\ pc = "start" => round = 0
  /\ pc = "round" => round >= 1
  /\ test = "basic" /\ pc \in {"wait", "begin"} => round < Rounds
  /\ \A a \in Accounts : thread[a] # "idle" => pc = "round"

TypeInv == TypeOK /\ Control

LEMMA TxType ==
  ASSUME TypeInv, NEW a \in Accounts, thread[a] = "send"
  PROVE  /\ Tx(a) \in LoadTransactions
         /\ Tx(a).from = a /\ Tx(a).nonce = nonce[a] /\ Tx(a).pay[2] = round
<1>1. round \in 1..Rounds
  BY RoundsAssumption DEF TypeInv, TypeOK, Control
<1>2. <<a, round>> \in LoadPayments
  BY <1>1 DEF LoadPayments
<1>3. nonce[a] \in Nat
  BY DEF TypeInv, TypeOK
<1> QED
  BY <1>2, <1>3 DEF Tx, LoadTransactions

\* An accepted transaction is the next one of its account, and nothing else
\* on the chain moves.
LEMMA AcceptEffect ==
  ASSUME TypeOK, NEW tx \in LoadTransactions, Accept(tx)
  PROVE  /\ ledger' \in [Accounts -> Seq(LoadPayments)]
         /\ UNCHANGED <<committed, late, faults>>
         /\ tx.from \in Accounts /\ tx.nonce = Len(ledger[tx.from])
         /\ Len(ledger[tx.from]) \in Nat
         /\ Len(ledger'[tx.from]) = Len(ledger[tx.from]) + 1
         /\ ledger'[tx.from][Len(ledger[tx.from]) + 1] = tx.pay
         /\ \A k \in 1..Len(ledger[tx.from]) : ledger'[tx.from][k] = ledger[tx.from][k]
         /\ \A a \in Accounts : a # tx.from => ledger'[a] = ledger[a]
<1>1. tx.from \in Accounts /\ tx.pay \in LoadPayments
  BY DEF LoadTransactions
<1>2. ledger \in [Accounts -> Seq(LoadPayments)] /\ ledger[tx.from] \in Seq(LoadPayments)
  BY <1>1 DEF TypeOK
<1>3. ledger' = [ledger EXCEPT ![tx.from] = Append(@, tx.pay)]
  BY DEF Accept
<1>4. /\ ledger'[tx.from] = Append(ledger[tx.from], tx.pay)
      /\ \A a \in Accounts : a # tx.from => ledger'[a] = ledger[a]
  BY <1>1, <1>2, <1>3
<1>5. Append(ledger[tx.from], tx.pay) \in Seq(LoadPayments)
  BY <1>1, <1>2
<1>6. ledger' \in [Accounts -> Seq(LoadPayments)]
  BY <1>1, <1>2, <1>3, <1>5
<1>7. tx.nonce = Len(ledger[tx.from]) /\ UNCHANGED <<committed, late, faults>>
  BY DEF Accept, Accepts, Pending
<1> QED
  BY <1>1, <1>2, <1>4, <1>6, <1>7

LEMMA RefuseEffect ==
  ASSUME TypeOK, faults \in Nat, NEW tx \in LoadTransactions, NEW text, Refuse(tx, text)
  PROVE  /\ faults' \in Nat /\ late' \subseteq LoadTransactions
         /\ late' = late \/ late' = late \cup {tx}
         /\ UNCHANGED <<ledger, committed>>
BY DEF TypeOK, Refuse, Fault

\* The threads of a round leave the main thread alone.
LEMMA ThreadLeavesMain ==
  ASSUME NEW a \in Accounts, ThreadStep(a)
  PROVE  UNCHANGED <<test, delay, sources, pc, last, round, height>>
BY DEF ThreadStep, Thread, PendingNonce, SendOk, SendErr, mainVars, options

LEMMA TypeInit == Init => TypeInv
<1> SUFFICES ASSUME Init PROVE TypeInv
  OBVIOUS
<1> USE DEF Init, NodeInit
<1>1. delay \in Delays /\ last \in 0..height /\ round \in 0..Rounds
  BY RoundsAssumption
<1>2. ledger \in [Accounts -> Seq(LoadPayments)]
  OBVIOUS
<1> QED
  BY <1>1, <1>2 DEF TypeInv, TypeOK, Control

LEMMA MainTypes == TypeInv /\ MainStep => TypeInv'
<1> SUFFICES ASSUME TypeInv, MainStep PROVE TypeInv'
  OBVIOUS
<1>1. /\ ledger \in [Accounts -> Seq(LoadPayments)] /\ late \subseteq LoadTransactions
      /\ test \in {"basic", "long"} /\ delay \in Delays
      /\ height \in Nat /\ last \in 0..height /\ round \in 0..Rounds /\ Rounds \in Nat
      /\ UNCHANGED <<test, delay, height>>
  BY RoundsAssumption DEF TypeInv, TypeOK, MainStep, options
<1>2. ASSUME NodeFault PROVE faults' \in Nat /\ UNCHANGED <<ledger, committed, late>>
  BY <1>2 DEF NodeFault, Fault, TypeInv, Control
<1>3. CASE Start
  <2>1. UNCHANGED nodeVars \/ NodeFault
    BY <1>3 DEF Start
  <2>2. faults' \in Nat /\ UNCHANGED <<ledger, committed, late>>
    BY <1>2, <2>1 DEF nodeVars, TypeInv, Control
  <2>3. UNCHANGED <<round, thread, nonce, succeed>> /\ pc = "start" /\ round = 0
    BY <1>3 DEF Start, threadVars, TypeInv, Control
  <2>4. /\ sources' \subseteq Accounts /\ last' \in 0..height
        /\ pc' \in {"done", "wait", "begin", "crashed"}
        /\ pc' \in {"wait", "begin"} => round < Rounds
    BY <1>1, <1>3, <2>3 DEF Start, TypeInv, TypeOK
  <2> QED
    BY <1>1, <2>2, <2>3, <2>4 DEF TypeInv, TypeOK, Control
<1>4. CASE WaitOver
  <2>1. UNCHANGED nodeVars \/ NodeFault
    BY <1>4 DEF WaitOver
  <2>2. faults' \in Nat /\ UNCHANGED <<ledger, committed, late>>
    BY <1>2, <2>1 DEF nodeVars, TypeInv, Control
  <2>3. /\ UNCHANGED <<sources, round, thread, nonce, succeed>> /\ pc = "wait"
        /\ last' \in 0..height /\ pc' \in {"begin", "crashed"}
    BY <1>1, <1>4 DEF WaitOver, threadVars
  <2> QED
    BY <1>1, <2>2, <2>3 DEF TypeInv, TypeOK, Control
<1>5. CASE BeginRound
  <2>1. /\ UNCHANGED <<sources, last, nonce, succeed, ledger, committed, late, faults>>
        /\ pc = "begin" /\ pc' = "round" /\ round' = round + 1
    BY <1>5 DEF BeginRound, nodeVars
  <2>2. round < Rounds
    BY <1>1, <1>5 DEF BeginRound, LookedAt, TypeInv, Control
  <2>3. thread' \in [Accounts -> {"idle", "nonce", "send"}]
    BY <1>5 DEF BeginRound
  <2> QED
    BY <1>1, <2>1, <2>2, <2>3 DEF TypeInv, TypeOK, Control
<1>6. CASE EndRound
  <2>1. /\ UNCHANGED <<sources, last, round, thread, nonce, succeed,
                       ledger, committed, late, faults>>
        /\ \A a \in Accounts : thread[a] = "idle"
        /\ pc = "round" /\ pc' \in {"done", "wait"}
        /\ test = "basic" /\ pc' = "wait" => round # Rounds
    BY <1>6 DEF EndRound, threadVars, nodeVars
  <2> QED
    BY <1>1, <2>1 DEF TypeInv, TypeOK, Control
<1> QED
  BY <1>3, <1>4, <1>5, <1>6 DEF MainStep, Main

LEMMA ThreadTypes == \A a \in Accounts : TypeInv /\ ThreadStep(a) => TypeInv'
<1> SUFFICES ASSUME NEW a \in Accounts, TypeInv, ThreadStep(a) PROVE TypeInv'
  OBVIOUS
<1>1. UNCHANGED <<test, delay, sources, pc, last, round, height>>
  BY ThreadLeavesMain
<1>2. /\ thread \in [Accounts -> {"idle", "nonce", "send"}]
      /\ nonce \in [Accounts -> Nat] /\ succeed \in Nat
      /\ Pending(a) \in Nat
  BY DEF TypeInv, TypeOK, Pending
<1>3. thread[a] # "idle" /\ pc = "round"
  BY DEF ThreadStep, Thread, PendingNonce, SendOk, SendErr, TypeInv, Control
<1>4. ASSUME Idle(a)
      PROVE  /\ thread' \in [Accounts -> {"idle", "nonce", "send"}]
             /\ nonce' \in [Accounts -> Nat]
  BY <1>2, <1>4 DEF Idle
<1>5. /\ ledger' \in [Accounts -> Seq(LoadPayments)] /\ late' \subseteq LoadTransactions
      /\ committed' = committed /\ faults' \in Nat
      /\ thread' \in [Accounts -> {"idle", "nonce", "send"}]
      /\ nonce' \in [Accounts -> Nat] /\ succeed' \in Nat
  <2>1. CASE PendingNonce(a)
    <3>1. UNCHANGED <<ledger, late, committed, faults, succeed>>
      BY <2>1 DEF PendingNonce, nodeVars
    <3>2. /\ thread' \in [Accounts -> {"idle", "nonce", "send"}]
          /\ nonce' \in [Accounts -> Nat]
      BY <1>2, <2>1 DEF PendingNonce
    <3> QED
      BY <1>2, <3>1, <3>2 DEF TypeInv, TypeOK, Control
  <2>2. CASE SendOk(a)
    <3>1. Accept(Tx(a)) /\ Idle(a) /\ succeed' = succeed + 1 /\ thread[a] = "send"
      BY <2>2 DEF SendOk
    <3>2. /\ ledger' \in [Accounts -> Seq(LoadPayments)]
          /\ UNCHANGED <<committed, late, faults>>
      BY <3>1, TxType, AcceptEffect DEF TypeInv
    <3> QED
      BY <1>2, <1>4, <3>1, <3>2 DEF TypeInv, TypeOK, Control
  <2>3. CASE SendErr(a)
    <3>1. PICK text : Refuse(Tx(a), text)
      BY <2>3 DEF SendErr
    <3>2. Idle(a) /\ UNCHANGED succeed /\ thread[a] = "send"
      BY <2>3 DEF SendErr
    <3>3. /\ faults' \in Nat /\ late' \subseteq LoadTransactions
          /\ UNCHANGED <<ledger, committed>>
      BY <3>1, <3>2, TxType, RefuseEffect DEF TypeInv, Control
    <3> QED
      BY <1>2, <1>4, <3>2, <3>3 DEF TypeInv, TypeOK
  <2> QED
    BY <2>1, <2>2, <2>3 DEF ThreadStep, Thread
<1> QED
  BY <1>1, <1>3, <1>5 DEF TypeInv, TypeOK, Control

\* The chain moves on its own: it mines, or takes a request that came late.
LEMMA NodeTypes == TypeInv /\ (Block \/ NodeStep) => TypeInv'
<1> SUFFICES ASSUME TypeInv, Block \/ NodeStep PROVE TypeInv'
  OBVIOUS
<1>1. /\ UNCHANGED <<test, delay, sources, pc, last, round, thread, nonce, succeed>>
      /\ height' \in {height, height + 1}
  BY DEF Block, NodeStep, options, mainVars, threadVars
<1>2. height \in Nat /\ last \in 0..height
  BY DEF TypeInv, TypeOK
<1>3. height' \in Nat /\ last \in 0..height'
  BY <1>1, <1>2
<1>4. /\ ledger' \in [Accounts -> Seq(LoadPayments)] /\ late' \subseteq LoadTransactions
      /\ committed' \in [Accounts -> Nat] /\ faults' \in Nat
  <2>0. /\ ledger \in [Accounts -> Seq(LoadPayments)] /\ late \subseteq LoadTransactions
        /\ committed \in [Accounts -> Nat] /\ faults \in Nat
    BY DEF TypeInv, TypeOK, Control
  <2>1. CASE Block
    BY <2>0, <2>1 DEF Block, nodeVars
  <2>2. ASSUME NEW tx \in late, Accept(tx)
        PROVE  /\ ledger' \in [Accounts -> Seq(LoadPayments)]
               /\ UNCHANGED <<committed, late, faults>>
    BY <2>0, <2>2, AcceptEffect DEF TypeInv
  <2>3. ASSUME NEW a \in Accounts, Mine(a)
        PROVE  /\ UNCHANGED <<ledger, late>> /\ committed' \in [Accounts -> Nat]
               /\ faults' \in Nat
    BY <2>0, <2>3 DEF Mine, Fault
  <2> QED
    BY <2>0, <2>1, <2>2, <2>3 DEF NodeStep, DeliverLate
<1> QED
  BY <1>1, <1>3, <1>4 DEF TypeInv, TypeOK, Control

LEMMA TypeStep == TypeInv /\ [Next]_vars => TypeInv'
<1> SUFFICES ASSUME TypeInv, [Next]_vars PROVE TypeInv'
  OBVIOUS
<1>1. CASE UNCHANGED vars
  BY <1>1 DEF TypeInv, TypeOK, Control, vars, options, mainVars, threadVars, nodeVars
<1> QED
  BY <1>1, MainTypes, ThreadTypes, NodeTypes DEF Next, Ended

\* Every reachable state of the load tests is well-typed; the round counter
\* never passes --count.
THEOREM LoadTypes == Spec => []TypeOK
<1>1. TypeInv => TypeOK
  BY DEF TypeInv
<1> QED
  BY <1>1, TypeInit, TypeStep, PTL DEF Spec

-----------------------------------------------------------------------------
(***************************************************************************)
(* The pace.                                                               *)
(***************************************************************************)
\* The waits for new blocks that are over: the basic test waits before each
\* round, the long one after it.
Waits ==
  IF test = "basic" THEN IF pc = "begin" THEN round + 1 ELSE round
  ELSE IF pc = "begin" \/ round = 0 THEN round ELSE round - 1

\* Each of them took last_height on by Gap at least.
WaitsPaced == last >= Gap * Waits

LEMMA OneWaitMore ==
  ASSUME NEW g \in Nat, NEW w \in Nat, NEW h \in Nat, NEW l \in Nat,
         l >= g * w, h >= l + g
  PROVE  h >= g * (w + 1)
<1>1. g * (w + 1) = g * w + g /\ g * w \in Nat
  OBVIOUS
<1> QED
  BY <1>1

LEMMA PaceStep ==
  ASSUME TypeInv, WaitsPaced, [Next]_vars
  PROVE  WaitsPaced'
<1>1. /\ test \in {"basic", "long"} /\ Gap \in Nat
      /\ last \in Nat /\ height \in Nat /\ last <= height /\ round \in Nat
      /\ pc = "start" => round = 0
      /\ pc = "round" => round >= 1
  BY DelaysAssumption, RoundsAssumption DEF TypeInv, TypeOK, Control, Gap
<1>2. Waits \in Nat
  BY <1>1 DEF Waits
<1>3. ASSUME last' = last, Gap' = Gap, Waits' = Waits PROVE WaitsPaced'
  BY <1>3 DEF WaitsPaced
<1>4. CASE UNCHANGED <<test, delay, pc, last, round>>
  BY <1>3, <1>4 DEF Waits, Gap
<1>5. CASE MainStep
  <2>1. UNCHANGED <<test, Gap, height>>
    BY <1>5 DEF MainStep, options, Gap
  <2>2. CASE Start
    <3>1. pc = "start" /\ round = 0 /\ round' = 0
      BY <1>1, <2>2 DEF Start
    <3>2. \/ last' = height
          \/ last' = last
      BY <2>2 DEF Start
    <3>3. pc' # "begin" \/ test = "long"
      BY <1>1, <2>2 DEF Start
    <3>4. Waits' = 0
      BY <2>1, <3>1, <3>3 DEF Waits
    <3>5. Gap * 0 = 0
      BY <1>1
    <3> QED
      BY <1>1, <2>1, <3>2, <3>4, <3>5 DEF WaitsPaced
  <2>3. CASE WaitOver
    <3>1. CASE pc' = "crashed" /\ UNCHANGED last
      <4>1. pc = "wait" /\ UNCHANGED round
        BY <2>3 DEF WaitOver
      <4>2. Waits' = Waits
        BY <2>1, <3>1, <4>1 DEF Waits
      <4> QED
        BY <1>3, <2>1, <3>1, <4>2
    <3>2. CASE height >= last + Gap /\ pc' = "begin" /\ last' = height
      <4>1. pc = "wait" /\ UNCHANGED round
        BY <2>3 DEF WaitOver
      <4>2. Waits' = Waits + 1 \/ (Waits' = 0)
        BY <1>1, <2>1, <3>2, <4>1 DEF Waits
      <4>3. last >= Gap * Waits
        BY DEF WaitsPaced
      <4>4. height >= Gap * (Waits + 1)
        <5> HIDE DEF Waits
        <5> QED
          BY <1>1, <1>2, <3>2, <4>3, OneWaitMore
      <4>5. Gap * 0 = 0
        BY <1>1
      <4> QED
        BY <1>1, <2>1, <3>2, <4>2, <4>4, <4>5 DEF WaitsPaced
    <3> QED
      BY <2>3, <3>1, <3>2 DEF WaitOver
  <2>4. CASE BeginRound
    <3>1. pc = "begin" /\ pc' = "round" /\ round' = round + 1 /\ last' = last
      BY <2>4 DEF BeginRound
    <3>2. Waits' = Waits
      BY <1>1, <2>1, <3>1 DEF Waits
    <3> QED
      BY <1>3, <2>1, <3>1, <3>2
  <2>5. CASE EndRound
    <3>1. pc = "round" /\ pc' \in {"done", "wait"} /\ round' = round /\ last' = last
      BY <2>5 DEF EndRound
    <3>2. Waits' = Waits
      BY <2>1, <3>1 DEF Waits
    <3> QED
      BY <1>3, <2>1, <3>1, <3>2
  <2> QED
    BY <1>5, <2>2, <2>3, <2>4, <2>5 DEF MainStep, Main
<1>6. ASSUME NEW a \in Accounts, ThreadStep(a) PROVE UNCHANGED <<test, delay, pc, last, round>>
  BY <1>6, ThreadLeavesMain
<1>7. ASSUME Block \/ NodeStep \/ UNCHANGED vars PROVE UNCHANGED <<test, delay, pc, last, round>>
  BY <1>7 DEF Block, NodeStep, vars, options, mainVars
<1> QED
  BY <1>4, <1>5, <1>6, <1>7 DEF Next, Ended

\* However long the rounds take, the long test never runs ahead of --delay, and
\* the basic test, which sleeps --delay seconds instead, never ahead of the chain.
THEOREM KeepsPace == Spec => []Paced
<1> DEFINE Inv == TypeInv /\ WaitsPaced
<1>1. Init => Inv
  <2> SUFFICES ASSUME Init PROVE Inv
    OBVIOUS
  <2>1. TypeInv
    BY TypeInit
  <2>2. last = 0 /\ Waits = 0 /\ Gap \in Nat
    BY DelaysAssumption DEF Init, Waits, Gap
  <2>3. Gap * 0 = 0
    BY <2>2
  <2> QED
    BY <2>1, <2>2, <2>3 DEF WaitsPaced
<1>2. Inv /\ [Next]_vars => Inv'
  BY TypeStep, PaceStep
<1>3. Inv => Paced
  <2> SUFFICES ASSUME Inv PROVE Paced
    OBVIOUS
  <2>1. /\ test \in {"basic", "long"} /\ Gap \in Nat
        /\ round \in Nat /\ height \in Nat /\ last \in Nat /\ last <= height
    BY DelaysAssumption, RoundsAssumption DEF TypeInv, TypeOK, Gap
  <2>2. CASE test = "basic"
    <3>1. Gap = 1 /\ Waits \in {round, round + 1}
      BY <2>2 DEF Gap, Waits
    <3>2. last >= Waits
      BY <2>1, <3>1 DEF WaitsPaced
    <3> QED
      BY <2>1, <2>2, <3>1, <3>2 DEF Paced
  <2>3. CASE test = "long" /\ round >= 1
    <3>1. PICK w \in Nat : w = round - 1
      BY <2>1, <2>3
    <3>2. Gap = delay /\ Waits \in {w, w + 1}
      BY <2>1, <2>3, <3>1 DEF Gap, Waits
    <3>3. Gap * (w + 1) = Gap * w + Gap /\ Gap * w \in Nat
      BY <2>1, <3>1
    <3>4. height >= Gap * w
      BY <2>1, <3>2, <3>3 DEF WaitsPaced
    <3> QED
      BY <2>3, <3>1, <3>2, <3>4 DEF Paced, DelayInBlocks
  <2> QED
    BY <2>1, <2>2, <2>3 DEF Paced, DelayInBlocks
<1> QED
  BY <1>1, <1>2, <1>3, PTL DEF Spec

-----------------------------------------------------------------------------
(***************************************************************************)
(* The order of rounds.  A thread sends for the current round, and at most *)
(* once, so all that its account has in the chain is older.  A request     *)
(* that is accepted late is for a round that may be over, but the node     *)
(* takes it only while nothing newer of its account has been accepted.     *)
(***************************************************************************)
\* Nothing in the chain is newer than the round, and what an account with a
\* running thread has there is older.
RoundsBehind ==
  \A a \in Accounts : \A k \in 1..Len(ledger[a]) :
    /\ ledger[a][k][2] <= round
    /\ thread[a] # "idle" => ledger[a][k][2] < round

LateBehind ==
  \A tx \in late :
    /\ tx.nonce <= Len(ledger[tx.from])
    /\ tx.pay[2] <= round
    /\ thread[tx.from] # "idle" => tx.pay[2] < round
    /\ tx.nonce = Len(ledger[tx.from]) =>
         \A k \in 1..Len(ledger[tx.from]) : ledger[tx.from][k][2] < tx.pay[2]

NonceBehind == \A a \in Accounts : nonce[a] <= Len(ledger[a])

OrderInv == RoundsInOrder /\ RoundsBehind /\ LateBehind /\ NonceBehind

\* The numbers that the proofs about the order compare.
LEMMA OrderTypes ==
  ASSUME TypeInv
  PROVE  /\ round \in Nat
         /\ \A a \in Accounts :
              /\ Len(ledger[a]) \in Nat /\ nonce[a] \in Nat
              /\ \A k \in 1..Len(ledger[a]) : ledger[a][k][2] \in Nat
         /\ \A tx \in LoadTransactions :
              tx.from \in Accounts /\ tx.nonce \in Nat /\ tx.pay[2] \in Nat
         /\ late \subseteq LoadTransactions
<1>1. round \in Nat /\ late \subseteq LoadTransactions
  BY RoundsAssumption DEF TypeInv, TypeOK
<1>2. \A p \in LoadPayments : p[2] \in Nat
  BY RoundsAssumption DEF LoadPayments
<1>3. ASSUME NEW a \in Accounts
      PROVE  /\ Len(ledger[a]) \in Nat /\ nonce[a] \in Nat
             /\ \A k \in 1..Len(ledger[a]) : ledger[a][k][2] \in Nat
  <2>1. ledger[a] \in Seq(LoadPayments) /\ nonce[a] \in Nat
    BY DEF TypeInv, TypeOK
  <2>2. \A k \in 1..Len(ledger[a]) : ledger[a][k] \in LoadPayments
    BY <2>1
  <2> QED
    BY <1>2, <2>1, <2>2
<1>4. \A tx \in LoadTransactions :
        tx.from \in Accounts /\ tx.nonce \in Nat /\ tx.pay \in LoadPayments
  BY DEF LoadTransactions
<1> QED
  BY <1>1, <1>2, <1>3, <1>4

\* Steps that leave the chain alone: a round begins, a nonce is read, or less.
LEMMA QuietStep ==
  ASSUME TypeInv, OrderInv, UNCHANGED <<ledger, late>>,
         \/ round' = round + 1
         \/ round' = round /\ \A a \in Accounts : thread'[a] # "idle" => thread[a] # "idle",
         \A a \in Accounts : nonce'[a] \in {0, nonce[a], Len(ledger[a])}
  PROVE  OrderInv'
<1>1. RoundsInOrder'
  BY DEF OrderInv, RoundsInOrder
<1>2. RoundsBehind'
  <2> SUFFICES ASSUME NEW a \in Accounts, NEW k \in 1..Len(ledger[a])
               PROVE  /\ ledger[a][k][2] <= round'
                      /\ thread'[a] # "idle" => ledger[a][k][2] < round'
    BY DEF RoundsBehind
  <2>1. /\ ledger[a][k][2] <= round
        /\ thread[a] # "idle" => ledger[a][k][2] < round
    BY DEF OrderInv, RoundsBehind
  <2> QED
    BY SMTT(30), <2>1, OrderTypes
<1>3. LateBehind'
  <2> SUFFICES ASSUME NEW tx \in late
               PROVE  /\ tx.pay[2] <= round'
                      /\ thread'[tx.from] # "idle" => tx.pay[2] < round'
    BY DEF OrderInv, LateBehind
  <2>1. /\ tx.pay[2] <= round
        /\ thread[tx.from] # "idle" => tx.pay[2] < round
    BY DEF OrderInv, LateBehind
  <2>2. tx.from \in Accounts /\ tx.pay[2] \in Nat /\ round \in Nat
    BY OrderTypes
  <2> QED
    BY <2>1, <2>2
<1>4. NonceBehind'
  BY OrderTypes DEF OrderInv, NonceBehind
<1> QED
  BY <1>1, <1>2, <1>3, <1>4 DEF OrderInv

\* An accepted transaction that is newer than all its account has in the chain
\* keeps the order.
LEMMA AppendStep ==
  ASSUME TypeInv, OrderInv, NEW tx \in LoadTransactions, Accept(tx), round' = round,
         \A a \in Accounts : /\ thread'[a] # "idle" => thread[a] # "idle"
                             /\ nonce'[a] \in {0, nonce[a]},
         tx.pay[2] <= round,
         thread'[tx.from] # "idle" => tx.pay[2] < round,
         \A k \in 1..Len(ledger[tx.from]) : ledger[tx.from][k][2] < tx.pay[2]
  PROVE  OrderInv'
<1> DEFINE acc == tx.from
           len == Len(ledger[acc])
<1>1. /\ acc \in Accounts /\ len \in Nat /\ late' = late
      /\ Len(ledger'[acc]) = len + 1
      /\ ledger'[acc][len + 1] = tx.pay
      /\ \A k \in 1..len : ledger'[acc][k] = ledger[acc][k]
      /\ \A a \in Accounts : a # acc => ledger'[a] = ledger[a]
  BY AcceptEffect DEF TypeInv
<1>2. /\ round \in Nat /\ tx.pay[2] \in Nat
      /\ \A a \in Accounts : Len(ledger[a]) \in Nat /\ nonce[a] \in Nat
  BY OrderTypes
<1>3. \A k \in 1..(len + 1) : k \in 1..len \/ k = len + 1
  BY <1>1
<1>4. \A k \in 1..len : ledger[acc][k][2] < tx.pay[2]
  OBVIOUS
<1>5. len = Len(ledger[acc])
  OBVIOUS
<1>6. tx.pay[2] <= round /\ (thread'[acc] # "idle" => tx.pay[2] < round)
  OBVIOUS
<1> HIDE DEF acc, len
<1>7. RoundsInOrder'
  <2> SUFFICES ASSUME NEW a \in Accounts, NEW i \in 1..Len(ledger'[a]),
                      NEW j \in 1..Len(ledger'[a]), i < j
               PROVE  ledger'[a][i][2] < ledger'[a][j][2]
    BY SMTT(30) DEF RoundsInOrder
  <2>1. CASE a # acc
    BY SMTT(30), <1>1, <2>1 DEF OrderInv, RoundsInOrder
  <2>2. CASE a = acc /\ j \in 1..len
    <3>1. i \in 1..len
      BY <1>1, <2>2
    <3>2. ledger[a][i][2] < ledger[a][j][2]
      BY <1>1, <1>5, <2>2, <3>1 DEF OrderInv, RoundsInOrder
    <3> QED
      BY <1>1, <2>2, <3>1, <3>2
  <2>3. CASE a = acc /\ j = len + 1
    <3>1. i \in 1..len
      BY <1>1, <2>3
    <3> QED
      BY SMTT(30), <1>1, <1>4, <2>3, <3>1
  <2> QED
    BY <1>1, <1>3, <2>1, <2>2, <2>3
<1>8. RoundsBehind'
  <2> SUFFICES ASSUME NEW a \in Accounts, NEW k \in 1..Len(ledger'[a])
               PROVE  /\ ledger'[a][k][2] <= round
                      /\ thread'[a] # "idle" => ledger'[a][k][2] < round
    BY DEF RoundsBehind
  <2>1. CASE a # acc
    BY SMTT(30), <1>1, <2>1 DEF OrderInv, RoundsBehind
  <2>2. CASE a = acc /\ k \in 1..len
    <3>1. /\ ledger[a][k][2] <= round
          /\ thread[a] # "idle" => ledger[a][k][2] < round
      BY <1>5, <2>2 DEF OrderInv, RoundsBehind
    <3> QED
      BY <1>1, <2>2, <3>1
  <2>3. CASE a = acc /\ k = len + 1
    BY <1>1, <1>6, <2>3
  <2> QED
    BY <1>1, <1>3, <2>1, <2>2, <2>3
<1>9. LateBehind'
  <2> SUFFICES ASSUME NEW r \in late
               PROVE  /\ r.nonce <= Len(ledger'[r.from])
                      /\ r.pay[2] <= round
                      /\ thread'[r.from] # "idle" => r.pay[2] < round
                      /\ r.nonce = Len(ledger'[r.from]) =>
                           \A k \in 1..Len(ledger'[r.from]) : ledger'[r.from][k][2] < r.pay[2]
    BY <1>1 DEF LateBehind
  <2>1. r.from \in Accounts /\ r.nonce \in Nat
    BY OrderTypes
  <2>2. /\ r.nonce <= Len(ledger[r.from]) /\ r.pay[2] <= round
        /\ thread[r.from] # "idle" => r.pay[2] < round
        /\ r.nonce = Len(ledger[r.from]) =>
             \A k \in 1..Len(ledger[r.from]) : ledger[r.from][k][2] < r.pay[2]
    BY DEF OrderInv, LateBehind
  <2>3. CASE r.from # acc
    BY SMTT(30), <1>1, <2>1, <2>2, <2>3
  <2>4. CASE r.from = acc
    <3>1. r.nonce < Len(ledger'[r.from])
      BY <1>1, <1>5, <2>1, <2>2, <2>4
    <3> QED
      BY <1>1, <2>1, <2>2, <2>4, <3>1
  <2> QED
    BY <2>3, <2>4
<1>10. NonceBehind'
  <2> SUFFICES ASSUME NEW a \in Accounts PROVE nonce'[a] <= Len(ledger'[a])
    BY DEF NonceBehind
  <2>1. nonce[a] <= Len(ledger[a])
    BY DEF OrderInv, NonceBehind
  <2>2. Len(ledger'[a]) = Len(ledger[a]) \/ Len(ledger'[a]) = Len(ledger[a]) + 1
    BY <1>1, <1>5
  <2> QED
    BY <1>2, <2>1, <2>2
<1> QED
  BY <1>7, <1>8, <1>9, <1>10 DEF OrderInv

\* A thread that is done with its round.
LEMMA IdleEffect ==
  ASSUME TypeInv, NEW a \in Accounts, Idle(a)
  PROVE  /\ thread'[a] = "idle"
         /\ \A b \in Accounts : /\ thread'[b] # "idle" => thread[b] # "idle"
                                /\ nonce'[b] \in {0, nonce[b]}
BY DEF Idle, TypeInv, TypeOK

LEMMA OrderStep ==
  ASSUME TypeInv, OrderInv, [Next]_vars
  PROVE  OrderInv'
<1>1. \A a \in Accounts : nonce[a] \in Nat
  BY OrderTypes
<1>2. CASE UNCHANGED <<ledger, late, round, thread, nonce>>
  BY <1>2, QuietStep
<1>3. CASE MainStep
  <2>1. CASE BeginRound
    <3>1. UNCHANGED <<ledger, late, nonce>> /\ round' = round + 1
      BY <2>1 DEF BeginRound, nodeVars
    <3> QED
      BY <3>1, QuietStep
  <2>2. CASE Start \/ WaitOver \/ EndRound
    <3>1. UNCHANGED <<ledger, late, round, thread, nonce>>
      BY <2>2 DEF Start, WaitOver, EndRound, NodeFault, nodeVars, threadVars
    <3> QED
      BY <1>2, <3>1
  <2> QED
    BY <1>3, <2>1, <2>2 DEF MainStep, Main
<1>4. ASSUME NEW a \in Accounts, ThreadStep(a) PROVE OrderInv'
  <2>0. round' = round
    BY <1>4, ThreadLeavesMain
  <2>1. CASE PendingNonce(a)
    <3>1. UNCHANGED <<ledger, late>>
      BY <2>1 DEF PendingNonce, nodeVars
    <3>2. /\ \A b \in Accounts : thread'[b] # "idle" => thread[b] # "idle"
          /\ \A b \in Accounts : nonce'[b] \in {0, nonce[b], Len(ledger[b])}
      BY <2>1 DEF PendingNonce, Pending, TypeInv, TypeOK
    <3> QED
      BY <2>0, <3>1, <3>2, QuietStep
  <2>2. CASE SendOk(a)
    <3>1. thread[a] = "send" /\ Accept(Tx(a)) /\ Idle(a)
      BY <2>2 DEF SendOk
    <3>2. /\ Tx(a) \in LoadTransactions /\ Tx(a).from = a /\ Tx(a).pay[2] = round
      BY <3>1, TxType
    <3>3. \A k \in 1..Len(ledger[a]) : ledger[a][k][2] < round
      BY <3>1 DEF OrderInv, RoundsBehind
    <3>4. round \in Nat
      BY OrderTypes
    <3>5. /\ thread'[a] = "idle"
          /\ \A b \in Accounts : /\ thread'[b] # "idle" => thread[b] # "idle"
                                 /\ nonce'[b] \in {0, nonce[b]}
      BY <3>1, IdleEffect
    <3> HIDE DEF Tx
    <3> QED
      BY <2>0, <3>1, <3>2, <3>3, <3>4, <3>5, AppendStep
  <2>3. CASE SendErr(a)
    <3>1. thread[a] = "send" /\ Idle(a)
      BY <2>3 DEF SendErr
    <3>2. PICK text : Refuse(Tx(a), text)
      BY <2>3 DEF SendErr
    <3>3. /\ Tx(a) \in LoadTransactions /\ Tx(a).from = a /\ Tx(a).pay[2] = round
          /\ Tx(a).nonce = nonce[a]
      BY <3>1, TxType
    <3>4. UNCHANGED ledger /\ (late' = late \/ late' = late \cup {Tx(a)})
      BY <3>2, <3>3, RefuseEffect DEF TypeInv, Control
    <3>5. /\ thread'[a] = "idle"
          /\ \A b \in Accounts : /\ thread'[b] # "idle" => thread[b] # "idle"
                                 /\ nonce'[b] \in {0, nonce[b]}
      BY <3>1, IdleEffect
    <3>6. CASE late' = late
      BY <2>0, <3>4, <3>5, <3>6, QuietStep
    <3>7. CASE late' = late \cup {Tx(a)}
      <4>1. RoundsInOrder'
        BY <3>4 DEF OrderInv, RoundsInOrder
      <4>2. RoundsBehind'
        BY <2>0, <3>4, <3>5 DEF OrderInv, RoundsBehind
      <4>3. NonceBehind'
        <5> SUFFICES ASSUME NEW b \in Accounts PROVE nonce'[b] <= Len(ledger[b])
          BY <3>4 DEF NonceBehind
        <5> QED
          BY <3>5, OrderTypes DEF OrderInv, NonceBehind
      <4>4. LateBehind'
        <5> SUFFICES ASSUME NEW tx \in late \cup {Tx(a)}
                     PROVE  /\ tx.nonce <= Len(ledger[tx.from])
                            /\ tx.pay[2] <= round
                            /\ thread'[tx.from] # "idle" => tx.pay[2] < round
                            /\ tx.nonce = Len(ledger[tx.from]) =>
                                 \A k \in 1..Len(ledger[tx.from]) :
                                   ledger[tx.from][k][2] < tx.pay[2]
          BY <2>0, <3>4, <3>7 DEF LateBehind
        <5>1. CASE tx \in late
          <6>1. tx.from \in Accounts
            BY <5>1, OrderTypes
          <6> QED
            BY <3>5, <5>1, <6>1 DEF OrderInv, LateBehind
        <5>2. CASE tx = Tx(a)
          <6>1. nonce[a] <= Len(ledger[a]) /\ round \in Nat
            BY OrderTypes DEF OrderInv, NonceBehind
          <6>2. \A k \in 1..Len(ledger[a]) : ledger[a][k][2] < round
            BY <3>1 DEF OrderInv, RoundsBehind
          <6> QED
            BY <3>3, <3>5, <5>2, <6>1, <6>2
        <5> QED
          BY <5>1, <5>2
      <4> QED
        BY <4>1, <4>2, <4>3, <4>4 DEF OrderInv
    <3> QED
      BY <3>4, <3>6, <3>7
  <2> QED
    BY <1>4, <2>1, <2>2, <2>3 DEF ThreadStep, Thread
<1>5. CASE NodeStep
  <2>1. UNCHANGED <<round, thread, nonce>>
    BY <1>5 DEF NodeStep, mainVars, threadVars
  <2>2. ASSUME NEW tx \in late, Accept(tx) PROVE OrderInv'
    <3>1. tx \in LoadTransactions /\ tx.from \in Accounts
      BY OrderTypes
    <3>2. tx.nonce = Len(ledger[tx.from])
      BY <2>2 DEF Accept, Accepts, Pending
    <3>3. /\ tx.pay[2] <= round
          /\ thread[tx.from] # "idle" => tx.pay[2] < round
          /\ \A k \in 1..Len(ledger[tx.from]) : ledger[tx.from][k][2] < tx.pay[2]
      BY <3>2 DEF OrderInv, LateBehind
    <3> QED
      BY <2>1, <2>2, <3>1, <3>3, AppendStep
  <2>3. ASSUME NEW a \in Accounts, Mine(a) PROVE UNCHANGED <<ledger, late>>
    BY <2>3 DEF Mine
  <2> QED
    BY <1>2, <1>5, <2>1, <2>2, <2>3 DEF NodeStep, DeliverLate
<1>6. CASE Block \/ UNCHANGED vars
  <2>1. UNCHANGED <<ledger, late, round, thread, nonce>>
    BY <1>6 DEF Block, vars, mainVars, threadVars, nodeVars
  <2> QED
    BY <1>2, <2>1
<1> QED
  BY <1>3, <1>4, <1>5, <1>6 DEF Next, Ended

\* In each account's transactions the rounds come in order and none comes
\* twice, whatever is refused, lost, or accepted rounds later.
THEOREM RoundOrder == Spec => []RoundsInOrder
<1> DEFINE Inv == TypeInv /\ OrderInv
<1>1. Init => Inv
  <2>1. Init => OrderInv
    BY DEF Init, NodeInit, OrderInv, RoundsInOrder, RoundsBehind, LateBehind, NonceBehind
  <2> QED
    BY <2>1, TypeInit
<1>2. Inv /\ [Next]_vars => Inv'
  BY TypeStep, OrderStep
<1>3. Inv => RoundsInOrder
  BY DEF OrderInv
<1> QED
  BY <1>1, <1>2, <1>3, PTL DEF Spec
=============================================================================
