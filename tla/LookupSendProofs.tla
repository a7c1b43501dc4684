-------------------------- MODULE LookupSendProofs --------------------------
(***************************************************************************)
(* Proofs about LookupSend, for any number of targets, accounts and faults *)
(* and any pool size.                                                      *)
(***************************************************************************)
EXTENDS LookupSend, FiniteSetTheorems, WellFoundedInduction, TLAPS

Labels == Ends \cup {"idle", "sign", "send", "wait"}

LEMMA TxType ==
  ASSUME TypeOK, NEW j \in Jobs
  PROVE  Tx(j) \in Transactions
<1>1. key[j] \in Accounts /\ nonce[j] \in Nat
  BY DEF TypeOK
<1> QED
  BY <1>1 DEF Tx, Transactions

\* An accepted transaction is the next one of its account and nothing else
\* moves.
LEMMA AcceptEffect ==
  ASSUME TypeOK, NEW tx \in Transactions, Accept(tx)
  PROVE  /\ tx.from \in Accounts /\ tx.pay \in Jobs
         /\ tx.nonce = Len(ledger[tx.from])
         /\ ledger' = [ledger EXCEPT ![tx.from] = Append(@, tx.pay)]
         /\ ledger' \in [Accounts -> Seq(Jobs)]
         /\ UNCHANGED <<committed, reverted, late, faults>>
<1>1. tx.from \in Accounts /\ tx.pay \in Jobs
  BY DEF Transactions
<1>2. /\ ledger' = [ledger EXCEPT ![tx.from] = Append(@, tx.pay)]
      /\ UNCHANGED <<committed, reverted, late, faults>>
  BY DEF Accept
<1>3. tx.nonce = Len(ledger[tx.from])
  BY DEF Accept, Accepts, Pending
<1>4. ledger \in [Accounts -> Seq(Jobs)]
  BY DEF TypeOK
<1>5. Append(ledger[tx.from], tx.pay) \in Seq(Jobs)
  BY <1>1, <1>4
<1>6. ledger' \in [Accounts -> Seq(Jobs)]
  BY <1>2, <1>4, <1>5
<1> QED
  BY <1>1, <1>2, <1>3, <1>6

LEMMA RefuseEffect ==
  ASSUME TypeOK, NEW tx \in Transactions, NEW text, Refuse(tx, text)
  PROVE  /\ faults' \in Nat
         /\ late' = late \/ late' = late \cup {tx}
         /\ UNCHANGED <<ledger, committed, reverted>>
<1>1. faults' = faults \/ faults' = faults + 1
  BY DEF Refuse, Fault
<1>2. late' = late \/ late' = late \cup {tx}
  BY DEF Refuse
<1>3. UNCHANGED <<ledger, committed, reverted>>
  BY DEF Refuse
<1> QED
  BY <1>1, <1>2, <1>3 DEF TypeOK

LEMMA GotoType ==
  ASSUME TypeOK, NEW j \in Jobs, NEW l \in Labels, Goto(j, l)
  PROVE  at' \in [Jobs -> Labels]
BY DEF TypeOK, Goto, Labels

LEMMA TypeInit == Init => TypeOK
<1> SUFFICES ASSUME Init PROVE TypeOK
  OBVIOUS
<1>1. ledger \in [Accounts -> Seq(Jobs)]
  BY DEF Init, NodeInit
<1>2. broken \subseteq Jobs
  BY DEF Init
<1> QED
  BY <1>1, <1>2 DEF Init, NodeInit, TypeOK

LEMMA JobTypes ==
  ASSUME TypeOK, NEW j \in Jobs, Job(j)
  PROVE  TypeOK'
<1>1. UNCHANGED <<command, key, broken, pc>>
  BY DEF Job, inputs
<1>2. Tx(j) \in Transactions /\ key[j] \in Accounts
  BY TxType DEF TypeOK
<1>3. {"ok", "reverted", "failed", "unseen", "panicked", "idle", "sign", "send", "wait"} = Labels
  BY DEF Labels, Ends
<1>4. NodeFault => faults' \in Nat /\ UNCHANGED <<ledger, committed, reverted, late>>
  BY DEF NodeFault, Fault, TypeOK
<1>5. CASE Start(j)
  <2>1. at' \in [Jobs -> Labels]
    BY <1>3, <1>5, GotoType DEF Start
  <2>2. UNCHANGED <<nonce, nodeVars>>
    BY <1>5 DEF Start
  <2> QED
    BY <1>1, <2>1, <2>2 DEF TypeOK, Labels, nodeVars
<1>6. CASE LookUp(j)
  <2>1. at' \in [Jobs -> Labels]
    BY <1>3, <1>6, GotoType DEF LookUp
  <2>2. nonce' \in [Jobs -> Nat]
    <3>1. nonce \in [Jobs -> Nat] /\ committed[key[j]] \in Nat /\ Pending(key[j]) \in Nat
      BY <1>2 DEF TypeOK, Pending
    <3>2. \/ nonce' = [nonce EXCEPT ![j] = committed[key[j]]]
          \/ nonce' = [nonce EXCEPT ![j] = Pending(key[j])]
          \/ UNCHANGED nonce
      BY <1>6 DEF LookUp
    <3> QED
      BY <3>1, <3>2
  <2>3. faults' \in Nat /\ UNCHANGED <<ledger, committed, reverted, late>>
    BY <1>4, <1>6 DEF LookUp, nodeVars, TypeOK
  <2> QED
    BY <1>1, <2>1, <2>2, <2>3 DEF TypeOK, Labels
<1>7. CASE SendOk(j)
  <2>1. at' \in [Jobs -> Labels] /\ UNCHANGED nonce
    BY <1>3, <1>7, GotoType DEF SendOk
  <2>2. /\ ledger' \in [Accounts -> Seq(Jobs)]
        /\ UNCHANGED <<committed, reverted, late, faults>>
    BY <1>2, <1>7, AcceptEffect DEF SendOk
  <2> QED
    BY <1>1, <2>1, <2>2 DEF TypeOK, Labels
<1>8. CASE SendErr(j)
  <2>1. at' \in [Jobs -> Labels] /\ UNCHANGED nonce
    BY <1>3, <1>8, GotoType DEF SendErr
  <2>2. /\ faults' \in Nat /\ (late' = late \/ late' = late \cup {Tx(j)})
        /\ UNCHANGED <<ledger, committed, reverted>>
    BY <1>2, <1>8, RefuseEffect DEF SendErr
  <2>3. late' \subseteq Transactions
    BY <1>2, <2>2 DEF TypeOK
  <2> QED
    BY SMTT(30), <1>1, <2>1, <2>2, <2>3 DEF TypeOK, Labels
<1>9. CASE Receipt(j)
  <2>1. at' \in [Jobs -> Labels]
    BY <1>3, <1>9, GotoType DEF Receipt
  <2>2. UNCHANGED <<nonce, nodeVars>>
    BY <1>9 DEF Receipt
  <2> QED
    BY <1>1, <2>1, <2>2 DEF TypeOK, Labels, nodeVars
<1>10. CASE ReceiptErr(j)
  <2>1. at' \in [Jobs -> Labels] /\ UNCHANGED nonce
    BY <1>3, <1>10, GotoType DEF ReceiptErr
  <2>2. faults' \in Nat /\ UNCHANGED <<ledger, committed, reverted, late>>
    BY <1>4, <1>10 DEF ReceiptErr
  <2> QED
    BY SMTT(30), <1>1, <2>1, <2>2 DEF TypeOK, Labels
<1> QED
  BY <1>5, <1>6, <1>7, <1>8, <1>9, <1>10 DEF Job

LEMMA NodeTypes ==
  ASSUME TypeOK, Node
  PROVE  TypeOK'
<1>1. UNCHANGED <<command, key, broken, pc, at, nonce>>
  BY DEF Node, inputs
<1>2. CASE DeliverLate
  <2>1. PICK tx \in late : Accept(tx)
    BY <1>2 DEF DeliverLate
  <2>2. tx \in Transactions
    BY DEF TypeOK
  <2>3. ledger' \in [Accounts -> Seq(Jobs)] /\ UNCHANGED <<committed, reverted, late, faults>>
    BY <2>1, <2>2, AcceptEffect
  <2> QED
    BY <1>1, <2>3 DEF TypeOK
<1>3. ASSUME NEW a \in Accounts, Mine(a) PROVE TypeOK'
  <2>1. UNCHANGED <<ledger, late>>
    BY <1>3 DEF Mine
  <2>2. committed' \in [Accounts -> Nat] /\ committed[a] \in Nat
    BY <1>3 DEF Mine, TypeOK
  <2>3. faults' \in Nat
    BY <1>3 DEF Mine, Fault, TypeOK
  <2>4. reverted' \subseteq Accounts \X Nat
    <3>1. reverted' = reverted \/ reverted' = reverted \cup {<<a, committed[a]>>}
      BY <1>3 DEF Mine
    <3> QED
      BY <2>2, <3>1 DEF TypeOK
  <2> QED
    BY <1>1, <2>1, <2>2, <2>3, <2>4 DEF TypeOK
<1> QED
  BY <1>2, <1>3 DEF Node

LEMMA TypeStep == TypeOK /\ [Next]_vars => TypeOK'
<1> SUFFICES ASSUME TypeOK, [Next]_vars PROVE TypeOK'
  OBVIOUS
<1>1. CASE BadArguments \/ Return
  <2>1. pc' \in {"run", "ok", "err"} /\ UNCHANGED <<inputs, at, nonce, nodeVars>>
    BY <1>1 DEF BadArguments, Return
  <2> QED
    BY <2>1 DEF TypeOK, inputs, nodeVars
<1>2. CASE Panic
  <2>1. /\ pc' = "err"
        /\ UNCHANGED <<inputs, at, nonce, ledger, committed, reverted, faults>>
    BY <1>2 DEF Panic
  <2>2. late' \subseteq Transactions
    <3>1. PICK S \in SUBSET {j \in Jobs : at[j] = "send"} : late' = late \cup {Tx(j) : j \in S}
      BY <1>2 DEF Panic
    <3>2. \A j \in S : Tx(j) \in Transactions
      BY TxType
    <3> QED
      BY <3>1, <3>2 DEF TypeOK
  <2> QED
    BY <2>1, <2>2 DEF TypeOK, inputs
<1>3. CASE UNCHANGED vars
  BY SMTT(30), <1>3 DEF vars, inputs, nodeVars, TypeOK
<1> QED
  BY <1>1, <1>2, <1>3, JobTypes, NodeTypes DEF Next, Finished

\* The inputs, jobs, nonces and the node of the commands keep their types.
THEOREM LookupTypes == Spec => []TypeOK
BY TypeInit, TypeStep, PTL DEF Spec
-----------------------------------------------------------------------------
(***************************************************************************)
(* The order of payments.  A nonce is never ahead of its account, so a     *)
(* request that was given up can only arrive as the next payment as long   *)
(* as nothing was paid after it.  distribute starts a target only when the *)
(* ones before it have ended, so whatever the chain holds, and whatever is *)
(* on its way, is of a target before the one that is being sent.           *)
(***************************************************************************)
Sent(j) == at[j] \notin {"idle", "sign", "send"}

Bounds ==
  /\ \A a \in Accounts : committed[a] <= Len(ledger[a])
  /\ \A j \in Jobs : nonce[j] <= Len(ledger[key[j]])
  /\ \A tx \in late : tx.nonce <= Len(ledger[tx.from])

OneByOne ==
  /\ broken = {}
  /\ \A j \in Jobs : at[j] # "panicked"
  /\ \A j \in Jobs : at[j] # "idle" => \A i \in 1..(j - 1) : Ended(i)

Before(a, p) == \A k \in 1..Len(ledger[a]) : ledger[a][k] < p

PaidSent == \A a \in Accounts : \A k \in 1..Len(ledger[a]) : Sent(ledger[a][k])
LateSent == \A tx \in late : Sent(tx.pay)
LateNext == \A tx \in late : tx.nonce = Len(ledger[tx.from]) => Before(tx.from, tx.pay)

OrderInv ==
  /\ TypeOK /\ Bounds /\ PaidInOrder
  /\ command = "distribute" => OneByOne /\ PaidSent /\ LateSent /\ LateNext

\* The account that is paid from grows by one payment, at its end.
LEMMA AcceptAppends ==
  ASSUME TypeOK, NEW tx \in Transactions, Accept(tx)
  PROVE  /\ tx.from \in Accounts /\ tx.nonce = Len(ledger[tx.from])
         /\ Len(ledger'[tx.from]) = Len(ledger[tx.from]) + 1
         /\ ledger'[tx.from][Len(ledger[tx.from]) + 1] = tx.pay
         /\ \A k \in 1..Len(ledger[tx.from]) :
              ledger'[tx.from][k] = ledger[tx.from][k]
         /\ \A a \in Accounts : a # tx.from => ledger'[a] = ledger[a]
         /\ \A a \in Accounts : Len(ledger[a]) \in Nat /\ Len(ledger'[a]) \in Nat
         /\ \A a \in Accounts : Len(ledger[a]) <= Len(ledger'[a])
<1>1. /\ tx.from \in Accounts /\ tx.pay \in Jobs /\ tx.nonce = Len(ledger[tx.from])
      /\ ledger' = [ledger EXCEPT ![tx.from] = Append(@, tx.pay)]
      /\ ledger' \in [Accounts -> Seq(Jobs)]
  BY AcceptEffect
<1>2. ledger \in [Accounts -> Seq(Jobs)] /\ ledger[tx.from] \in Seq(Jobs)
  BY <1>1 DEF TypeOK
<1>3. ledger'[tx.from] = Append(ledger[tx.from], tx.pay)
  BY <1>1, <1>2
<1>4. /\ Len(ledger'[tx.from]) = Len(ledger[tx.from]) + 1
      /\ ledger'[tx.from][Len(ledger[tx.from]) + 1] = tx.pay
      /\ \A k \in 1..Len(ledger[tx.from]) : ledger'[tx.from][k] = ledger[tx.from][k]
  BY <1>1, <1>2, <1>3
<1>5. \A a \in Accounts : a # tx.from => ledger'[a] = ledger[a]
  BY <1>1, <1>2
<1>6. \A a \in Accounts : Len(ledger[a]) \in Nat /\ Len(ledger'[a]) \in Nat
  BY <1>1, <1>2
<1>7. \A a \in Accounts : Len(ledger[a]) <= Len(ledger'[a])
  BY <1>4, <1>5, <1>6
<1> QED
  BY <1>1, <1>4, <1>5, <1>6, <1>7

\* What a step does to the chain and to the requests that were given up.
LEMMA ChainShape ==
  ASSUME TypeOK, [Next]_vars
  PROVE  \/ UNCHANGED <<ledger, late>>
         \/ UNCHANGED <<late, at>> /\ \E tx \in late : Accept(tx)
         \/ /\ UNCHANGED late
            /\ \E j \in Jobs :
                 pc = "run" /\ at[j] = "send" /\ Accept(Tx(j)) /\ Goto(j, "wait")
         \/ /\ UNCHANGED ledger
            /\ \E j \in Jobs :
                 at[j] = "send" /\ late' = late \cup {Tx(j)} /\ Goto(j, "failed")
         \/ /\ UNCHANGED <<ledger, at>>
            /\ \E j \in Jobs : at[j] = "panicked"
            /\ \E S \in SUBSET {j \in Jobs : at[j] = "send"} :
                 late' = late \cup {Tx(j) : j \in S}
<1>1. ASSUME NEW j \in Jobs, Job(j), ~SendOk(j), ~SendErr(j)
      PROVE  UNCHANGED <<ledger, late>>
  <2>1. Start(j) \/ LookUp(j) \/ Receipt(j) \/ ReceiptErr(j)
    BY <1>1 DEF Job
  <2> QED
    BY <2>1 DEF Start, LookUp, Receipt, ReceiptErr, NodeFault, nodeVars
<1>2. ASSUME NEW j \in Jobs, Job(j), SendOk(j)
      PROVE  /\ UNCHANGED late
             /\ pc = "run" /\ at[j] = "send" /\ Accept(Tx(j)) /\ Goto(j, "wait")
  BY <1>2 DEF Job, SendOk, Accept
<1>3. ASSUME NEW j \in Jobs, SendErr(j)
      PROVE  /\ UNCHANGED ledger /\ at[j] = "send" /\ Goto(j, "failed")
             /\ late' = late \/ late' = late \cup {Tx(j)}
  BY <1>3 DEF SendErr, Refuse
<1>4. ASSUME NEW j \in Jobs, Job(j)
      PROVE  \/ UNCHANGED <<ledger, late>>
             \/ /\ UNCHANGED late
                /\ pc = "run" /\ at[j] = "send" /\ Accept(Tx(j)) /\ Goto(j, "wait")
             \/ /\ UNCHANGED ledger
                /\ at[j] = "send" /\ late' = late \cup {Tx(j)} /\ Goto(j, "failed")
  BY <1>1, <1>2, <1>3, <1>4
<1>5. Node => \/ UNCHANGED <<late, at>> /\ \E tx \in late : Accept(tx)
              \/ UNCHANGED <<ledger, late>>
  BY DEF Node, DeliverLate, Accept, Mine
<1>6. Panic => /\ UNCHANGED <<ledger, at>>
               /\ \E j \in Jobs : at[j] = "panicked"
               /\ \E S \in SUBSET {j \in Jobs : at[j] = "send"} :
                    late' = late \cup {Tx(j) : j \in S}
  BY DEF Panic
<1>7. BadArguments \/ Return \/ Finished \/ UNCHANGED vars => UNCHANGED <<ledger, late>>
  BY DEF BadArguments, Return, Finished, vars, nodeVars
<1>8. (\E j \in Jobs : Job(j)) \/ Node \/ Panic
      \/ BadArguments \/ Return \/ Finished \/ UNCHANGED vars
  BY DEF Next
<1>9. CASE \E j \in Jobs : Job(j)
  BY <1>4, <1>9
<1>10. CASE Node
  BY <1>5, <1>10
<1>11. CASE Panic
  BY <1>6, <1>11
<1>12. CASE BadArguments \/ Return \/ Finished \/ UNCHANGED vars
  BY <1>7, <1>12
<1> QED
  BY <1>8, <1>9, <1>10, <1>11, <1>12

\* Where a job may go in a step.
LEMMA JobShape ==
  ASSUME TypeOK, [Next]_vars, NEW i \in Jobs
  PROVE  \/ at'[i] = at[i]
         \/ /\ at[i] = "idle" /\ MayStart(i)
            /\ at'[i] = IF i \in broken \/ ~ArgumentsFit THEN "panicked" ELSE "sign"
         \/ at[i] = "sign" /\ at'[i] \in {"send", "failed"}
         \/ at[i] = "send" /\ at'[i] \in {"wait", "failed"}
         \/ at[i] = "wait" /\ at'[i] \in {"ok", "reverted", "unseen"}
<1>1. at \in [Jobs -> Ends \cup {"idle", "sign", "send", "wait"}]
  BY DEF TypeOK
<1>2. ASSUME NEW j \in Jobs, Job(j), j # i PROVE at'[i] = at[i]
  <2>1. \E l : Goto(j, l)
    BY <1>2 DEF Job, Start, LookUp, SendOk, SendErr, Receipt, ReceiptErr
  <2> QED
    BY <1>1, <1>2, <2>1 DEF Goto
<1>3. ASSUME NEW l, Goto(i, l) PROVE at'[i] = l
  BY <1>1, <1>3 DEF Goto
<1>4. CASE Job(i)
  <2>1. CASE Start(i)
    BY <1>3, <2>1 DEF Start
  <2>2. CASE LookUp(i)
    <3>1. at[i] = "sign" /\ \E l \in {"send", "failed"} : Goto(i, l)
      BY <2>2 DEF LookUp
    <3> QED
      BY <1>3, <3>1
  <2>4. CASE SendOk(i) \/ SendErr(i)
    <3>1. at[i] = "send" /\ \E l \in {"failed", "wait"} : Goto(i, l)
      BY <2>4 DEF SendOk, SendErr
    <3> QED
      BY <1>3, <3>1
  <2>3. CASE Receipt(i) \/ ReceiptErr(i)
    <3>1. at[i] = "wait" /\ \E l \in {"ok", "reverted", "unseen"} : Goto(i, l)
      BY <2>3 DEF Receipt, ReceiptErr
    <3> QED
      BY <1>3, <3>1
  <2> QED
    BY <1>4, <2>1, <2>2, <2>3, <2>4 DEF Job
<1>5. CASE Node \/ Panic \/ BadArguments \/ Return \/ Finished \/ UNCHANGED vars
  BY <1>5 DEF Node, Panic, BadArguments, Return, Finished, vars
<1> QED
  BY <1>2, <1>4, <1>5 DEF Next

LEMMA Constant == [Next]_vars => UNCHANGED inputs
BY DEF Next, Job, BadArguments, Panic, Return, Node, Finished, vars

LEMMA LookUpBound ==
  ASSUME TypeOK, Bounds, [Next]_vars, NEW j \in Jobs
  PROVE  nonce'[j] <= Len(ledger[key[j]])
<1>1. /\ nonce \in [Jobs -> Nat] /\ key[j] \in Accounts
      /\ committed[key[j]] <= Len(ledger[key[j]]) /\ nonce[j] <= Len(ledger[key[j]])
      /\ Len(ledger[key[j]]) \in Nat
  BY DEF TypeOK, Bounds
<1>2. ASSUME NEW i \in Jobs, LookUp(i) PROVE nonce'[j] <= Len(ledger[key[j]])
  <2>1. \/ \E n \in {committed[key[i]], Pending(key[i])} : nonce' = [nonce EXCEPT ![i] = n]
        \/ UNCHANGED nonce
    BY <1>2 DEF LookUp
  <2> QED
    BY <1>1, <2>1 DEF Pending
<1>3. ASSUME NEW i \in Jobs, Job(i), ~LookUp(i) PROVE UNCHANGED nonce
  BY <1>3 DEF Job, Start, SendOk, SendErr, Receipt, ReceiptErr
<1>4. CASE Node \/ Panic \/ BadArguments \/ Return \/ Finished \/ UNCHANGED vars
  <2>1. UNCHANGED nonce
    BY <1>4 DEF Node, Panic, BadArguments, Return, Finished, vars
  <2> QED
    BY <1>1, <2>1
<1> QED
  BY <1>1, <1>2, <1>3, <1>4 DEF Next

\* No nonce is ahead of its account.
LEMMA BoundsStep == TypeOK /\ Bounds /\ [Next]_vars => Bounds'
<1> SUFFICES ASSUME TypeOK, Bounds, [Next]_vars PROVE Bounds'
  OBVIOUS
<1>1. UNCHANGED key /\ key \in [Jobs -> Accounts]
  BY Constant DEF inputs, TypeOK
<1>2. TypeOK'
  BY TypeStep
<1>3. \A a \in Accounts : /\ Len(ledger[a]) \in Nat /\ Len(ledger'[a]) \in Nat
                          /\ Len(ledger[a]) <= Len(ledger'[a])
  <2>1. \A a \in Accounts : Len(ledger[a]) \in Nat /\ Len(ledger'[a]) \in Nat
    BY <1>2 DEF TypeOK
  <2>2. CASE UNCHANGED ledger
    BY <2>1, <2>2
  <2>3. ASSUME NEW tx \in Transactions, Accept(tx)
        PROVE  \A a \in Accounts : Len(ledger[a]) <= Len(ledger'[a])
    BY <2>3, AcceptAppends
  <2>4. \/ UNCHANGED ledger
        \/ \E tx \in late : Accept(tx)
        \/ \E j \in Jobs : Accept(Tx(j))
    BY ChainShape
  <2>5. \/ UNCHANGED ledger
        \/ \E tx \in Transactions : Accept(tx)
    BY SMTT(30), <2>4, TxType DEF TypeOK
  <2> QED
    BY <2>1, <2>2, <2>3, <2>5
<1>4. ASSUME NEW a \in Accounts PROVE committed'[a] <= Len(ledger'[a])
  <2>1. committed[a] \in Nat /\ committed[a] <= Len(ledger[a]) /\ committed \in [Accounts -> Nat]
    BY DEF TypeOK, Bounds
  <2>2. CASE Mine(a)
    <3>1. committed[a] < Len(ledger[a])
      BY <1>3, <2>1, <2>2 DEF Mine, InPool
    <3>2. committed'[a] = committed[a] + 1
      BY <2>1, <2>2 DEF Mine
    <3>3. Len(ledger[a]) <= Len(ledger'[a]) /\ Len(ledger[a]) \in Nat /\ Len(ledger'[a]) \in Nat
      BY <1>3
    <3> QED
      BY <2>1, <3>1, <3>2, <3>3
  <2>3. CASE ~Mine(a)
    <3>1. committed'[a] = committed[a]
      <4>1. ASSUME NEW b \in Accounts, Mine(b), b # a PROVE committed'[a] = committed[a]
        BY <2>1, <4>1 DEF Mine
      <4>2. ASSUME NEW j \in Jobs, Job(j) PROVE committed'[a] = committed[a]
        BY <4>2 DEF Job, Start, LookUp, SendOk, SendErr, Receipt, ReceiptErr, Accept,
                    Refuse, NodeFault, nodeVars
      <4>3. CASE Node
        BY <2>3, <4>1, <4>3 DEF Node, DeliverLate, Accept
      <4>4. CASE Panic \/ BadArguments \/ Return \/ Finished \/ UNCHANGED vars
        BY <4>4 DEF Panic, BadArguments, Return, Finished, vars, nodeVars
      <4> QED
        BY <4>2, <4>3, <4>4 DEF Next
    <3>2. Len(ledger[a]) <= Len(ledger'[a]) /\ Len(ledger[a]) \in Nat /\ Len(ledger'[a]) \in Nat
      BY <1>3
    <3> QED
      BY <2>1, <3>1, <3>2
  <2> QED
    BY <2>2, <2>3
<1>5. ASSUME NEW j \in Jobs PROVE nonce'[j] <= Len(ledger'[key'[j]])
  <2>1. nonce'[j] \in Nat /\ nonce'[j] <= Len(ledger[key[j]])
    BY <1>2, LookUpBound DEF TypeOK
  <2>2. key[j] \in Accounts /\ key'[j] = key[j]
    BY <1>1
  <2> QED
    BY <1>3, <2>1, <2>2
<1>6. ASSUME NEW tx \in late' PROVE tx.nonce <= Len(ledger'[tx.from])
  <2>1. tx \in late \/ \E j \in Jobs : tx = Tx(j)
    BY ChainShape
  <2>2. tx.from \in Accounts /\ tx.nonce \in Nat
    BY <1>2 DEF TypeOK, Transactions
  <2>3. tx.nonce <= Len(ledger[tx.from])
    BY <2>1 DEF Bounds, Tx
  <2> QED
    BY SMTT(30), <1>3, <2>2, <2>3
<1> QED
  BY <1>4, <1>5, <1>6 DEF Bounds

\* distribute starts a target when those before it have ended.
LEMMA OneByOneStep ==
  TypeOK /\ OneByOne /\ command = "distribute" /\ [Next]_vars => OneByOne'
<1> SUFFICES ASSUME TypeOK, OneByOne, command = "distribute", [Next]_vars PROVE OneByOne'
  OBVIOUS
<1>1. broken' = {} /\ broken = {}
  BY Constant DEF inputs, OneByOne
<1>2. ArgumentsFit
  BY DEF ArgumentsFit
<1>3. \A j \in Jobs : Ended(j) => Ended(j)'
  BY JobShape DEF Ended, Ends
<1>4. ASSUME NEW j \in Jobs PROVE at'[j] # "panicked"
  BY <1>1, <1>2, JobShape DEF OneByOne
<1>5. ASSUME NEW j \in Jobs, at'[j] # "idle", NEW i \in 1..(j - 1) PROVE Ended(i)'
  <2>1. i \in Jobs
    BY NAssumption DEF Jobs
  <2>2. CASE at[j] # "idle"
    BY <1>3, <2>1, <2>2 DEF OneByOne
  <2>3. CASE at[j] = "idle"
    <3>1. MayStart(j)
      BY <1>5, <2>3, JobShape
    <3> QED
      BY <1>3, <2>1, <3>1 DEF MayStart
  <2> QED
    BY <2>2, <2>3
<1> QED
  BY <1>1, <1>4, <1>5 DEF OneByOne

\* What is paid, or on its way, is of a target before the one that is sent.
LEMMA PaidBefore ==
  ASSUME TypeOK, OneByOne, PaidSent, NEW j \in Jobs, at[j] = "send"
  PROVE  \A a \in Accounts : Before(a, j)
<1>1. ASSUME NEW i \in Jobs, Sent(i) PROVE i < j
  <2>1. i # j
    BY <1>1 DEF Sent
  <2>2. ~(j < i)
    <3>1. SUFFICES ASSUME j < i PROVE FALSE
      OBVIOUS
    <3>2. j \in 1..(i - 1) /\ at[i] # "idle"
      BY <1>1, <3>1, NAssumption DEF Jobs, Sent
    <3>3. Ended(j)
      BY <3>2 DEF OneByOne
    <3> QED
      BY <3>3 DEF Ended, Ends
  <2> QED
    BY <2>1, <2>2, NAssumption DEF Jobs
<1>2. ASSUME NEW a \in Accounts, NEW k \in 1..Len(ledger[a]) PROVE ledger[a][k] \in Jobs
  BY SMTT(30) DEF TypeOK
<1> QED
  BY <1>1, <1>2 DEF Before, PaidSent

LEMMA OrderInit == Init => OrderInv
<1> SUFFICES ASSUME Init PROVE OrderInv
  OBVIOUS
<1>1. TypeOK
  BY TypeInit
<1>2. \A a \in Accounts : Len(ledger[a]) = 0 /\ committed[a] = 0
  BY DEF Init, NodeInit
<1>3. late = {} /\ \A j \in Jobs : nonce[j] = 0 /\ key[j] \in Accounts /\ at[j] = "idle"
  BY DEF Init, NodeInit
<1>4. Bounds
  BY <1>2, <1>3 DEF Bounds
<1>5. PaidInOrder /\ PaidSent /\ LateSent /\ LateNext
  BY <1>2, <1>3 DEF PaidInOrder, PaidSent, LateSent, LateNext, Pending
<1>6. command = "distribute" => OneByOne
  BY <1>3 DEF Init, OneByOne
<1> QED
  BY <1>1, <1>4, <1>5, <1>6 DEF OrderInv

\* A payment behind those before it keeps the order.
LEMMA AcceptInOrder ==
  ASSUME TypeOK, PaidInOrder, command = "distribute", UNCHANGED command,
         NEW tx \in Transactions, Accept(tx), Before(tx.from, tx.pay)
  PROVE  PaidInOrder'
<1> DEFINE n == Len(ledger[tx.from])
<1>1. /\ tx.from \in Accounts /\ n \in Nat
      /\ Len(ledger'[tx.from]) = n + 1 /\ ledger'[tx.from][n + 1] = tx.pay
      /\ \A k \in 1..n : ledger'[tx.from][k] = ledger[tx.from][k]
      /\ \A a \in Accounts : a # tx.from => ledger'[a] = ledger[a]
  BY AcceptAppends
<1>2. ASSUME NEW a \in Accounts, NEW j \in 1..Len(ledger[a]), NEW k \in 1..Len(ledger[a]), j < k
      PROVE  ledger[a][j] < ledger[a][k]
  BY <1>2 DEF PaidInOrder, Pending
<1>3. ASSUME NEW a \in Accounts, NEW j \in 1..Len(ledger'[a]), NEW k \in 1..Len(ledger'[a]), j < k
      PROVE  ledger'[a][j] < ledger'[a][k]
  <2>1. CASE a # tx.from
    BY SMTT(30), <1>1, <1>2, <1>3, <2>1
  <2>2. CASE a = tx.from /\ k \in 1..n
    <3>1. j \in 1..n
      BY SMTT(30), <1>1, <1>3, <2>2
    <3> QED
      BY <1>1, <1>2, <1>3, <2>2, <3>1
  <2>3. CASE a = tx.from /\ k = n + 1
    <3>1. j \in 1..n
      BY <1>1, <1>3, <2>3
    <3>2. ledger[a][j] < tx.pay
      BY <2>3, <3>1 DEF Before
    <3> QED
      BY SMTT(30), <1>1, <2>3, <3>1, <3>2
  <2> QED
    BY SMTT(30), <1>1, <1>3, <2>1, <2>2, <2>3
<1> QED
  BY <1>3 DEF PaidInOrder, Pending

\* After a payment, every given-up request of its account is for an old nonce.
LEMMA LateStale ==
  ASSUME TypeOK, Bounds, LateNext, UNCHANGED late, NEW tx \in Transactions, Accept(tx)
  PROVE  LateNext'
<1> SUFFICES ASSUME NEW u \in late, u.nonce = Len(ledger'[u.from])
             PROVE  Before(u.from, u.pay)'
  BY DEF LateNext
<1>1. u.from \in Accounts /\ u.nonce \in Nat /\ u.nonce <= Len(ledger[u.from])
  BY DEF TypeOK, Bounds, Transactions
<1>2. u.from # tx.from
  <2>1. Len(ledger'[tx.from]) = Len(ledger[tx.from]) + 1 /\ Len(ledger[tx.from]) \in Nat
    BY AcceptAppends
  <2> QED
    BY <1>1, <2>1
<1>3. ledger'[u.from] = ledger[u.from]
  BY <1>1, <1>2, AcceptAppends
<1> QED
  BY <1>3 DEF LateNext, Before

LEMMA AcceptSent ==
  ASSUME TypeOK, PaidSent, NEW tx \in Transactions, Accept(tx), Sent(tx.pay)',
         \A j \in Jobs : Sent(j) => Sent(j)'
  PROVE  PaidSent'
<1> SUFFICES ASSUME NEW a \in Accounts, NEW k \in 1..Len(ledger'[a])
             PROVE  at'[ledger'[a][k]] \notin {"idle", "sign", "send"}
  BY DEF PaidSent, Sent
<1>1. \A i \in 1..Len(ledger[a]) : ledger[a][i] \in Jobs /\ Sent(ledger[a][i])
  BY DEF TypeOK, PaidSent
<1>2. CASE a # tx.from
  <2>1. ledger'[a] = ledger[a]
    BY SMTT(30), <1>2, AcceptAppends
  <2> QED
    BY <1>1, <2>1 DEF Sent
<1>3. CASE a = tx.from /\ k \in 1..Len(ledger[a])
  <2>1. ledger'[a][k] = ledger[a][k]
    BY <1>3, AcceptAppends
  <2> QED
    BY <1>1, <1>3, <2>1 DEF Sent
<1>4. CASE a = tx.from /\ k = Len(ledger[a]) + 1
  <2>1. ledger'[a][k] = tx.pay
    BY <1>4, AcceptAppends
  <2> QED
    BY <2>1 DEF Sent
<1>5. a = tx.from => k \in 1..Len(ledger[a]) \/ k = Len(ledger[a]) + 1
  <2>1. a = tx.from => Len(ledger'[a]) = Len(ledger[a]) + 1 /\ Len(ledger[a]) \in Nat
    BY AcceptAppends
  <2> QED
    BY SMTT(30), <2>1
<1> QED
  BY <1>2, <1>3, <1>4, <1>5

LEMMA DistributeStep ==
  ASSUME OrderInv, command = "distribute", [Next]_vars
  PROVE  PaidInOrder' /\ PaidSent' /\ LateSent' /\ LateNext'
<1>1. UNCHANGED command
  BY Constant DEF inputs
<1>2. /\ TypeOK /\ Bounds /\ PaidInOrder
      /\ OneByOne /\ PaidSent /\ LateSent /\ LateNext
  BY DEF OrderInv
<1>3. ASSUME NEW j \in Jobs, Sent(j) PROVE Sent(j)'
  <2>1. at[j] \notin {"idle", "sign", "send"}
    BY <1>3 DEF Sent
  <2>2. at'[j] \notin {"idle", "sign", "send"}
    BY <1>2, <2>1, JobShape
  <2> QED
    BY <2>2 DEF Sent
<1>4. \A a \in Accounts, k \in Nat : k \in 1..Len(ledger[a]) => ledger[a][k] \in Jobs
  BY <1>2 DEF TypeOK
<1>5. \A tx \in late : tx \in Transactions /\ tx.pay \in Jobs /\ tx.from \in Accounts
  BY <1>2 DEF TypeOK, Transactions
<1>6. ASSUME UNCHANGED ledger PROVE PaidInOrder' /\ PaidSent'
  <2>1. PaidInOrder'
    BY <1>1, <1>2, <1>6 DEF PaidInOrder, Pending
  <2>2. \A a \in Accounts : \A k \in 1..Len(ledger[a]) : ledger[a][k] \in Jobs
    BY <1>2 DEF TypeOK
  <2>3. PaidSent'
    BY <1>2, <1>3, <1>6, <2>2 DEF PaidSent, Sent
  <2> QED
    BY <2>1, <2>3
<1>7. ASSUME UNCHANGED late PROVE LateSent'
  BY <1>2, <1>3, <1>5, <1>7 DEF LateSent, Sent
<1>8. CASE UNCHANGED <<ledger, late>>
  <2>1. LateNext'
    BY <1>2, <1>8 DEF LateNext, Before
  <2> QED
    BY <1>6, <1>7, <1>8, <2>1
<1>9. ASSUME UNCHANGED late, NEW tx \in Transactions, Accept(tx),
             Sent(tx.pay)', Before(tx.from, tx.pay)
      PROVE  PaidInOrder' /\ PaidSent' /\ LateSent' /\ LateNext'
  <2>1. PaidInOrder'
    BY <1>1, <1>2, <1>9, AcceptInOrder
  <2>2. PaidSent'
    BY <1>2, <1>3, <1>9, AcceptSent
  <2>3. LateNext'
    BY <1>2, <1>9, LateStale
  <2> QED
    BY <1>7, <1>9, <2>1, <2>2, <2>3
<1>10. ASSUME UNCHANGED late, NEW tx \in late, Accept(tx)
       PROVE  PaidInOrder' /\ PaidSent' /\ LateSent' /\ LateNext'
  <2>1. tx \in Transactions /\ tx.pay \in Jobs
    BY <1>5
  <2>2. Sent(tx.pay)'
    BY <1>2, <1>3, <2>1 DEF LateSent
  <2>3. tx.nonce = Len(ledger[tx.from])
    BY <1>2, <1>10, <2>1, AcceptAppends
  <2>4. Before(tx.from, tx.pay)
    BY <1>2, <2>3 DEF LateNext
  <2> QED
    BY <1>9, <1>10, <2>1, <2>2, <2>4
<1>11. ASSUME NEW j \in Jobs, at[j] = "send"
       PROVE  /\ Tx(j) \in Transactions /\ Tx(j).pay = j /\ Tx(j).from = key[j]
              /\ Before(key[j], j)
  <2>1. key[j] \in Accounts
    BY <1>2 DEF TypeOK
  <2> QED
    BY <1>2, <1>11, <2>1, TxType, PaidBefore DEF Tx
<1>12. ASSUME NEW j \in Jobs, NEW l \in {"wait", "failed"}, Goto(j, l) PROVE Sent(j)'
  <2>1. at'[j] = l
    BY <1>2, <1>12 DEF Goto, TypeOK
  <2> QED
    BY <2>1 DEF Sent
<1>13. ASSUME UNCHANGED late, NEW j \in Jobs, at[j] = "send", Accept(Tx(j)), Goto(j, "wait")
       PROVE  PaidInOrder' /\ PaidSent' /\ LateSent' /\ LateNext'
  <2> DEFINE tx == Tx(j)
  <2>1. tx \in Transactions /\ tx.pay = j /\ Before(tx.from, tx.pay) /\ Accept(tx)
    BY <1>11, <1>13
  <2>2. Sent(j)'
    BY <1>12, <1>13
  <2>3. \E u \in Transactions : u.pay = j /\ Before(u.from, u.pay) /\ Accept(u)
    BY <2>1
  <2>4. PICK u \in Transactions : u.pay = j /\ Before(u.from, u.pay) /\ Accept(u)
    BY <2>3
  <2> QED
    BY <1>9, <1>13, <2>2, <2>4
<1>14. ASSUME UNCHANGED ledger, NEW j \in Jobs, at[j] = "send", Goto(j, "failed"),
              late' = late \cup {Tx(j)}
       PROVE  LateSent' /\ LateNext'
  <2>1. LateSent'
    <3>1. ASSUME NEW tx \in late' PROVE Sent(tx.pay)'
      <4>1. CASE tx \in late
        BY <1>2, <1>3, <1>5, <4>1 DEF LateSent
      <4>2. CASE tx = Tx(j)
        BY <1>11, <1>12, <1>14, <4>2
      <4> QED
        BY <1>14, <3>1, <4>1, <4>2
    <3> QED
      BY <3>1 DEF LateSent, Sent
  <2>2. LateNext'
    <3>1. ASSUME NEW tx \in late', tx.nonce = Len(ledger'[tx.from]) PROVE Before(tx.from, tx.pay)'
      <4>1. CASE tx \in late
        BY <1>2, <1>14, <3>1, <4>1 DEF LateNext, Before
      <4>2. CASE tx = Tx(j)
        BY <1>11, <1>14, <4>2 DEF Before
      <4> QED
        BY <1>14, <3>1, <4>1, <4>2
    <3> QED
      BY <3>1 DEF LateNext, Before
  <2> QED
    BY <2>1, <2>2
<1>15. ~\E j \in Jobs : at[j] = "panicked"
  BY <1>2 DEF OneByOne
<1> QED
  BY <1>2, <1>6, <1>8, <1>10, <1>13, <1>14, <1>15, ChainShape

LEMMA OrderStep == OrderInv /\ [Next]_vars => OrderInv'
<1> SUFFICES ASSUME OrderInv, [Next]_vars PROVE OrderInv'
  OBVIOUS
<1>1. TypeOK' /\ Bounds' /\ UNCHANGED command
  BY TypeStep, BoundsStep, Constant DEF OrderInv, inputs
<1>2. CASE command = "distribute"
  BY <1>1, <1>2, OneByOneStep, DistributeStep DEF OrderInv
<1>3. CASE command # "distribute"
  BY <1>1, <1>3 DEF OrderInv, PaidInOrder
<1> QED
  BY <1>2, <1>3

\* distribute pays each target at most once and in the order of the list, for
\* every number of targets, and wherever a given-up request turns up again.
THEOREM PaidOnceInOrder == Spec => []PaidInOrder
<1>1. OrderInv => PaidInOrder
  BY DEF OrderInv
<1> QED
  BY OrderInit, OrderStep, <1>1, PTL DEF Spec
-----------------------------------------------------------------------------
(***************************************************************************)
(* The outcomes.  A job that has its hash owns the entry of the ledger at  *)
(* its nonce; one that has none is on the chain only through a request     *)
(* that was given up; and without faults distribute never has more than    *)
(* one payment between the pool and a block, so nothing can go wrong.      *)
(***************************************************************************)
Landed(j) ==
  nonce[j] < Len(ledger[key[j]]) /\ ledger[key[j]][nonce[j] + 1] = j

Unsent == {"idle", "sign", "send", "failed", "panicked"}

Accounted ==
  \A j \in Jobs :
    /\ at[j] \in {"wait", "ok"} => Landed(j)
    /\ at[j] = "ok" => Succeeded(key[j], nonce[j])
    /\ at[j] \in Unsent /\ PaidIn(j) => \E tx \in late : tx.pay = j

\* The one payment that may be in the pool of a, and whose job waits for it.
Waiting(a) ==
  \E j \in Jobs : /\ at[j] = "wait" /\ key[j] = a
                  /\ committed[a] = nonce[j] /\ Len(ledger[a]) = nonce[j] + 1

Smooth ==
  /\ late = {} /\ reverted = {}
  /\ \A j \in Jobs : at[j] \in {"idle", "sign", "send", "wait", "ok"}
  /\ \A j \in Jobs : at[j] = "send" => nonce[j] = Len(ledger[key[j]])
  /\ \A a \in Accounts : committed[a] = Len(ledger[a]) \/ Waiting(a)

OutcomeInv ==
  /\ OrderInv /\ Accounted
  /\ command = "distribute" /\ faults = 0 => Smooth

\* In a set of subsets of a finite set some member has no smaller one.
LEMMA SmallestSubset ==
  ASSUME NEW S, IsFiniteSet(S), NEW T, T \subseteq SUBSET S, T # {}
  PROVE  \E s \in T : \A t \in T : t \subseteq s => t = s
<1> DEFINE R == StrictSubsetOrdering(S)
<1>1. IsWellFoundedOn(R, SUBSET S)
  BY FS_FiniteSubsetsOfFinite, FS_StrictSubsetOrderingWellFounded
<1>2. \A s, t \in SUBSET S : <<t, s>> \in R <=> t \subseteq s /\ t # s
  BY DEF StrictSubsetOrdering
<1> HIDE DEF R
<1>3. \E s \in T : \A t \in T : ~(<<t, s>> \in R)
  BY <1>1, WFMin
<1> QED
  BY <1>2, <1>3

\* When everything is mined there is room for a transaction: the sum of the
\* accounts' pools is 0.  A smallest set of accounts with another sum cannot
\* exist.
LEMMA RoomWhenMined ==
  ASSUME \A a \in Accounts : InPool(a) = 0
  PROVE  Room
<1> DEFINE
  pick(s) == CHOOSE x \in s : TRUE
  body(g, s) == IF s = {} THEN 0 ELSE InPool(pick(s)) + g[s \ {pick(s)}]
  sum == CHOOSE g : g = [s \in SUBSET Accounts |-> body(g, s)]
<1>1. MapThenSumSet(InPool, Accounts) = sum[Accounts]
  BY Zenon DEF MapThenSumSet, MapThenFoldSet
<1>2. sum = [s \in SUBSET Accounts |-> body(sum, s)]
  <2> DEFINE zero == [s \in SUBSET Accounts |-> 0]
  <2>1. ASSUME NEW s \in SUBSET Accounts PROVE body(zero, s) = 0
    <3>1. CASE s # {}
      <4>1. pick(s) \in s
        BY <3>1
      <4>2. InPool(pick(s)) = 0
        BY <4>1
      <4> QED
        BY <4>2
    <3> QED
      BY <3>1
  <2>2. zero = [s \in SUBSET Accounts |-> body(zero, s)]
    BY <2>1
  <2>3. \E g : g = [s \in SUBSET Accounts |-> body(g, s)]
    <3> HIDE DEF zero, body
    <3> QED
      BY Zenon, <2>2
  <2> HIDE DEF body
  <2> QED
    BY Zenon, <2>3
<1>3. \A s \in SUBSET Accounts : sum[s] = body(sum, s)
  <2> HIDE DEF sum, body
  <2> QED
    BY <1>2
<1> HIDE DEF sum
<1>4. \A s \in SUBSET Accounts : sum[s] = 0
  <2> DEFINE T == {s \in SUBSET Accounts : sum[s] # 0}
  <2> SUFFICES ASSUME T # {} PROVE FALSE
    OBVIOUS
  <2>1. T \subseteq SUBSET Accounts
    OBVIOUS
  <2>2. PICK s \in T : \A t \in T : t \subseteq s => t = s
    <3> HIDE DEF T
    <3> QED
      BY <2>1, SmallestSubset, AccountsAssumption
  <2>3. s # {}
    BY <1>3
  <2>4. pick(s) \in s /\ pick(s) \in Accounts
    BY <2>3
  <2> HIDE DEF pick
  <2>5. /\ s \ {pick(s)} \subseteq s /\ s \ {pick(s)} # s
        /\ s \ {pick(s)} \in SUBSET Accounts
    BY <2>4
  <2>6. sum[s \ {pick(s)}] = 0
    BY <2>2, <2>5
  <2> QED
    BY <1>3, <2>2, <2>3, <2>4, <2>6
<1> QED
  BY <1>1, <1>4, PoolAssumption DEF Room

\* A step keeps what the ledgers hold; they only get longer.
LEMMA LedgersGrow ==
  ASSUME TypeOK, [Next]_vars, NEW a \in Accounts
  PROVE  /\ Len(ledger[a]) \in Nat /\ Len(ledger'[a]) \in Nat
         /\ Len(ledger[a]) <= Len(ledger'[a])
         /\ \A k \in 1..Len(ledger[a]) : ledger'[a][k] = ledger[a][k]
<1>1. TypeOK'
  BY TypeStep
<1>2. Len(ledger[a]) \in Nat /\ Len(ledger'[a]) \in Nat
  BY <1>1 DEF TypeOK
<1>3. ASSUME NEW tx \in Transactions, Accept(tx)
      PROVE  /\ Len(ledger[a]) <= Len(ledger'[a])
             /\ \A k \in 1..Len(ledger[a]) : ledger'[a][k] = ledger[a][k]
  <2>1. CASE a = tx.from
    BY <1>3, <2>1, AcceptAppends
  <2>2. CASE a # tx.from
    <3>1. ledger'[a] = ledger[a]
      BY <1>3, <2>2, AcceptAppends
    <3> QED
      BY <1>2, <3>1
  <2> QED
    BY <2>1, <2>2
<1>4. UNCHANGED ledger \/ \E tx \in Transactions : Accept(tx)
  <2>1. \/ UNCHANGED ledger
        \/ \E tx \in late : Accept(tx)
        \/ \E j \in Jobs : Accept(Tx(j))
    BY ChainShape
  <2> QED
    BY <2>1, TxType DEF TypeOK
<1> QED
  BY <1>2, <1>3, <1>4

\* What a step does to blocks and receipts: one transaction is mined, or none.
LEMMA MineShape ==
  ASSUME TypeOK, [Next]_vars
  PROVE  \/ UNCHANGED <<committed, reverted>>
         \/ /\ UNCHANGED <<inputs, at, nonce, ledger, late>>
            /\ \E a \in Accounts : Mine(a)
<1>1. ASSUME NEW j \in Jobs, Job(j) PROVE UNCHANGED <<committed, reverted>>
  BY <1>1 DEF Job, Start, LookUp, SendOk, SendErr, Receipt, ReceiptErr, Accept,
              Refuse, NodeFault, nodeVars
<1>2. CASE Node
  BY <1>2 DEF Node, DeliverLate, Accept, Mine
<1>3. CASE Panic \/ BadArguments \/ Return \/ Finished \/ UNCHANGED vars
  BY <1>3 DEF Panic, BadArguments, Return, Finished, vars, nodeVars
<1> QED
  BY <1>1, <1>2, <1>3 DEF Next

\* A receipt never changes.
LEMMA SucceededStays ==
  ASSUME TypeOK, [Next]_vars, NEW a \in Accounts, NEW n \in Nat, Succeeded(a, n)
  PROVE  n < committed'[a] /\ <<a, n>> \notin reverted'
<1>1. committed \in [Accounts -> Nat] /\ n < committed[a] /\ <<a, n>> \notin reverted
  BY DEF TypeOK, Succeeded, Mined
<1>2. CASE UNCHANGED <<committed, reverted>>
  BY <1>1, <1>2
<1>3. ASSUME NEW b \in Accounts, Mine(b) PROVE n < committed'[a] /\ <<a, n>> \notin reverted'
  <2>1. /\ committed' = [committed EXCEPT ![b] = @ + 1]
        /\ reverted' = reverted \/ reverted' = reverted \cup {<<b, committed[b]>>}
    BY <1>3 DEF Mine
  <2>2. n < committed'[a]
    BY <1>1, <2>1
  <2>3. <<a, n>> # <<b, committed[b]>>
    BY <1>1
  <2> QED
    BY <1>1, <2>1, <2>2, <2>3
<1> QED
  BY <1>2, <1>3, MineShape

\* A nonce is looked up once.
LEMMA NonceStays ==
  ASSUME TypeOK, [Next]_vars, NEW j \in Jobs, at[j] # "sign"
  PROVE  nonce'[j] = nonce[j]
<1>1. nonce \in [Jobs -> Nat]
  BY DEF TypeOK
<1>2. ASSUME NEW i \in Jobs, Job(i) PROVE nonce'[j] = nonce[j]
  <2>1. CASE LookUp(i)
    <3>1. at[i] = "sign" /\ (UNCHANGED nonce \/ \E n : nonce' = [nonce EXCEPT ![i] = n])
      BY <2>1 DEF LookUp
    <3> QED
      BY <1>1, <3>1
  <2>2. CASE ~LookUp(i)
    BY <1>2, <2>2 DEF Job, Start, SendOk, SendErr, Receipt, ReceiptErr
  <2> QED
    BY <2>1, <2>2
<1>3. CASE Node \/ Panic \/ BadArguments \/ Return \/ Finished \/ UNCHANGED vars
  BY <1>3 DEF Node, Panic, BadArguments, Return, Finished, vars
<1> QED
  BY <1>2, <1>3 DEF Next

\* A job waits because its transaction was accepted, and ends well because
\* its receipt says so.
LEMMA JobEnds ==
  ASSUME TypeOK, [Next]_vars, NEW j \in Jobs
  PROVE  /\ at'[j] = "wait" /\ at[j] # "wait" => at[j] = "send" /\ Accept(Tx(j))
         /\ at'[j] = "ok" /\ at[j] # "ok" =>
              /\ at[j] = "wait" /\ Succeeded(key[j], nonce[j])
              /\ UNCHANGED <<committed, reverted>>
<1>1. at \in [Jobs -> Ends \cup {"idle", "sign", "send", "wait"}]
  BY DEF TypeOK
<1>2. ASSUME NEW l, Goto(j, l) PROVE at'[j] = l
  BY <1>1, <1>2 DEF Goto
<1>3. ASSUME NEW i \in Jobs, Job(i), i # j PROVE at'[j] = at[j]
  <2>1. \E l : Goto(i, l)
    BY <1>3 DEF Job, Start, LookUp, SendOk, SendErr, Receipt, ReceiptErr
  <2> QED
    BY <1>1, <1>3, <2>1 DEF Goto
<1>4. CASE Node \/ Panic \/ BadArguments \/ Return \/ Finished \/ UNCHANGED vars
  <2>1. at' = at
    BY <1>4 DEF Node, Panic, BadArguments, Return, Finished, vars
  <2> QED
    BY <2>1
<1>5. CASE Job(j)
  <2>1. ASSUME Start(j) \/ LookUp(j) \/ SendErr(j) \/ ReceiptErr(j)
        PROVE  at'[j] \notin {"wait", "ok"}
    <3>1. \E l \in {"panicked", "sign", "send", "failed", "unseen"} : Goto(j, l)
      BY <2>1 DEF Start, LookUp, SendErr, ReceiptErr
    <3> QED
      BY <1>2, <3>1
  <2>2. CASE SendOk(j)
    BY <1>2, <2>2 DEF SendOk
  <2>3. CASE Receipt(j)
    <3>1. /\ at[j] = "wait" /\ UNCHANGED nodeVars
          /\ Goto(j, IF Succeeded(key[j], nonce[j]) THEN "ok" ELSE "reverted")
      BY <2>3 DEF Receipt
    <3>2. at'[j] = IF Succeeded(key[j], nonce[j]) THEN "ok" ELSE "reverted"
      BY <1>2, <3>1
    <3> QED
      BY <3>1, <3>2 DEF nodeVars
  <2> QED
    BY <1>5, <2>1, <2>2, <2>3 DEF Job
<1> QED
  BY <1>3, <1>4, <1>5 DEF Next

\* What is paid to a job in a step comes from the job itself or from a request
\* that was given up.
LEMMA PaidBy ==
  ASSUME TypeOK, [Next]_vars, NEW j \in Jobs, PaidIn(j)'
  PROVE  PaidIn(j) \/ at'[j] = "wait" \/ \E tx \in late' : tx.pay = j
<1>1. key' = key /\ key[j] \in Accounts
  BY Constant DEF inputs, TypeOK
<1>2. PICK k \in 1..Len(ledger'[key[j]]) : ledger'[key[j]][k] = j
  BY <1>1 DEF PaidIn, Pending
<1>3. ASSUME NEW tx \in Transactions, Accept(tx), tx.pay # j PROVE PaidIn(j)
  <2>1. CASE tx.from # key[j]
    <3>1. ledger'[key[j]] = ledger[key[j]]
      BY <1>1, <1>3, <2>1, AcceptAppends
    <3> QED
      BY <1>2, <3>1 DEF PaidIn, Pending
  <2>2. CASE tx.from = key[j]
    <3> DEFINE n == Len(ledger[tx.from])
    <3>1. /\ n \in Nat /\ Len(ledger'[tx.from]) = n + 1 /\ ledger'[tx.from][n + 1] = tx.pay
          /\ \A i \in 1..n : ledger'[tx.from][i] = ledger[tx.from][i]
      BY <1>3, AcceptAppends, <1>1, <2>2
    <3>2. k \in 1..n \/ k = n + 1
      BY <1>2, <2>2, <3>1
    <3>3. k \in 1..n /\ ledger[key[j]][k] = j
      BY SMTT(30), <1>2, <1>3, <2>2, <3>1, <3>2
    <3> QED
      BY <2>2, <3>3 DEF PaidIn, Pending
  <2> QED
    BY <2>1, <2>2
<1>4. CASE UNCHANGED ledger
  BY <1>2, <1>4 DEF PaidIn, Pending
<1>5. ASSUME UNCHANGED late, NEW tx \in late, Accept(tx)
      PROVE  PaidIn(j) \/ \E u \in late' : u.pay = j
  <2>1. tx \in Transactions
    BY <1>5 DEF TypeOK
  <2> QED
    BY <1>3, <1>5, <2>1
<1>6. ASSUME NEW i \in Jobs, Accept(Tx(i)), Goto(i, "wait")
      PROVE  PaidIn(j) \/ at'[j] = "wait"
  <2>1. CASE i = j
    BY <1>6, <2>1 DEF Goto, TypeOK
  <2>2. CASE i # j
    <3>1. Tx(i).pay = i
      BY DEF Tx
    <3> QED
      BY <1>3, <1>6, <2>2, <3>1, TxType
  <2> QED
    BY <2>1, <2>2
<1> QED
  BY <1>4, <1>5, <1>6, ChainShape

LEMMA AccountedStep ==
  ASSUME TypeOK, Accounted, [Next]_vars
  PROVE  Accounted'
<1> USE DEF Unsent
<1>1. \A j \in Jobs : key'[j] = key[j] /\ key[j] \in Accounts /\ nonce[j] \in Nat
  BY Constant DEF inputs, TypeOK
<1>2. ASSUME NEW j \in Jobs, at[j] = "wait" \/ at[j] = "ok" PROVE Landed(j)'
  <2>1. /\ nonce'[j] = nonce[j] /\ nonce[j] < Len(ledger[key[j]])
        /\ ledger[key[j]][nonce[j] + 1] = j
    BY <1>2, NonceStays DEF Accounted, Landed
  <2>2. /\ Len(ledger[key[j]]) \in Nat /\ Len(ledger'[key[j]]) \in Nat
        /\ Len(ledger[key[j]]) <= Len(ledger'[key[j]])
        /\ \A k \in 1..Len(ledger[key[j]]) : ledger'[key[j]][k] = ledger[key[j]][k]
    BY <1>1, LedgersGrow
  <2>3. nonce[j] + 1 \in 1..Len(ledger[key[j]])
    BY <1>1, <2>1, <2>2
  <2>4. nonce[j] < Len(ledger'[key[j]]) /\ ledger'[key[j]][nonce[j] + 1] = j
    BY SMTT(30), <1>1, <2>1, <2>2, <2>3
  <2> QED
    BY <1>1, <2>1, <2>4 DEF Landed
<1>3. ASSUME NEW j \in Jobs, at[j] = "send", Accept(Tx(j)) PROVE Landed(j)'
  <2>1. Tx(j) \in Transactions /\ Tx(j).from = key[j] /\ Tx(j).nonce = nonce[j] /\ Tx(j).pay = j
    BY TxType DEF Tx
  <2>2. PICK tx \in Transactions :
          Accept(tx) /\ tx.from = key[j] /\ tx.nonce = nonce[j] /\ tx.pay = j
    BY <1>3, <2>1
  <2>3. /\ nonce[j] = Len(ledger[key[j]])
        /\ Len(ledger'[key[j]]) = nonce[j] + 1
        /\ ledger'[key[j]][nonce[j] + 1] = j
    BY SMTT(30), <2>2, AcceptAppends
  <2>4. nonce'[j] = nonce[j]
    BY <1>3, NonceStays
  <2> QED
    BY <1>1, <2>3, <2>4 DEF Landed
<1>4. ASSUME NEW j \in Jobs, at'[j] \in {"wait", "ok"} PROVE Landed(j)'
  <2>1. at[j] = "wait" \/ at[j] = "ok" \/ (at[j] = "send" /\ Accept(Tx(j)))
    BY <1>4, JobEnds
  <2> QED
    BY <1>2, <1>3, <2>1
<1>5. ASSUME NEW j \in Jobs, at'[j] = "ok" PROVE Succeeded(key[j], nonce[j])'
  <2>1. CASE at[j] = "ok"
    <3>1. Succeeded(key[j], nonce[j]) /\ nonce'[j] = nonce[j]
      BY <2>1, NonceStays DEF Accounted
    <3>2. nonce[j] < committed'[key[j]] /\ <<key[j], nonce[j]>> \notin reverted'
      BY <1>1, <3>1, SucceededStays
    <3> QED
      BY <1>1, <3>1, <3>2 DEF Succeeded, Mined
  <2>2. CASE at[j] # "ok"
    <3>1. /\ at[j] = "wait" /\ Succeeded(key[j], nonce[j])
          /\ UNCHANGED <<committed, reverted>>
      BY <1>5, <2>2, JobEnds
    <3>2. nonce'[j] = nonce[j]
      BY <3>1, NonceStays
    <3> QED
      BY <1>1, <3>1, <3>2 DEF Succeeded, Mined
  <2> QED
    BY <2>1, <2>2
<1>6. ASSUME NEW j \in Jobs, at'[j] \in Unsent, PaidIn(j)'
      PROVE  \E tx \in late' : tx.pay = j
  <2>1. at[j] \in Unsent
    BY <1>6, JobShape
  <2>2. \A tx \in late : tx \in late'
    BY ChainShape
  <2> QED
    BY <1>6, <2>1, <2>2, PaidBy DEF Accounted
<1> QED
  BY <1>4, <1>5, <1>6 DEF Accounted

\* distribute has one job at work at a time.
LEMMA AtWorkAlone ==
  ASSUME OneByOne, NEW i \in Jobs, NEW j \in Jobs,
         at[i] \in {"sign", "send", "wait"}, at[j] \in {"sign", "send", "wait"}
  PROVE  i = j
<1>1. ASSUME NEW m \in Jobs, NEW n \in Jobs, m < n, at[n] # "idle" PROVE Ended(m)
  <2>1. m \in 1..(n - 1)
    BY <1>1, NAssumption DEF Jobs
  <2> QED
    BY <1>1, <2>1 DEF OneByOne
<1>2. ~(i < j) /\ ~(j < i)
  BY <1>1 DEF Ended, Ends
<1> QED
  BY <1>2, NAssumption DEF Jobs

\* When the job at work does not wait, every transaction is mined.
LEMMA AllMined ==
  ASSUME OneByOne, Smooth, NEW j \in Jobs, at[j] \in {"sign", "send"}
  PROVE  \A a \in Accounts : committed[a] = Len(ledger[a])
<1>1. \A i \in Jobs : at[i] # "wait"
  BY AtWorkAlone
<1> QED
  BY <1>1 DEF Smooth, Waiting

\* A job of distribute goes on as it should while there is no fault.
LEMMA SmoothJob ==
  ASSUME TypeOK, Bounds, OneByOne, Smooth, command = "distribute",
         faults = 0, faults' = 0, NEW j \in Jobs, Job(j)
  PROVE  Smooth'
<1>1. /\ key' = key /\ broken = {} /\ ArgumentsFit
      /\ \A i \in Jobs : key[i] \in Accounts /\ nonce[i] \in Nat
  BY DEF Job, inputs, OneByOne, ArgumentsFit, TypeOK
<1>2. ~Fault /\ ~NodeFault
  BY DEF Fault, NodeFault
<1>3. at \in [Jobs -> Ends \cup {"idle", "sign", "send", "wait"}]
  BY DEF TypeOK
<1>4. ASSUME NEW l, Goto(j, l)
      PROVE  at'[j] = l /\ \A i \in Jobs : i # j => at'[i] = at[i]
  BY <1>3, <1>4 DEF Goto
<1>5. /\ late = {} /\ reverted = {}
      /\ \A i \in Jobs : at[i] \in {"idle", "sign", "send", "wait", "ok"}
      /\ \A i \in Jobs : at[i] = "send" => nonce[i] = Len(ledger[key[i]])
      /\ \A a \in Accounts : committed[a] = Len(ledger[a]) \/ Waiting(a)
  BY DEF Smooth
<1>6. CASE Start(j)
  <2>1. /\ at[j] = "idle" /\ Goto(j, "sign") /\ UNCHANGED nonce
        /\ UNCHANGED <<ledger, committed, reverted, late>>
    BY <1>1, <1>6 DEF Start, nodeVars
  <2>2. ASSUME NEW a \in Accounts, Waiting(a) PROVE Waiting(a)'
    BY <1>1, <1>4, <2>1, <2>2 DEF Waiting
  <2> QED
    BY <1>1, <1>4, <1>5, <2>1, <2>2 DEF Smooth
<1>7. CASE LookUp(j)
  <2>1. at[j] = "sign" /\ \A a \in Accounts : committed[a] = Len(ledger[a])
    BY <1>7, AllMined DEF LookUp
  <2>2. /\ Goto(j, "send") /\ UNCHANGED <<ledger, committed, reverted, late>>
        /\ nonce' = [nonce EXCEPT ![j] = Len(ledger[key[j]])]
    BY <1>1, <1>2, <1>7, <2>1 DEF LookUp, Pending, nodeVars
  <2>3. /\ nonce'[j] = Len(ledger[key[j]])
        /\ \A i \in Jobs : i # j => nonce'[i] = nonce[i]
    BY <2>2 DEF TypeOK
  <2> QED
    BY <1>1, <1>4, <1>5, <2>1, <2>2, <2>3 DEF Smooth
<1>8. CASE SendOk(j)
  <2>1. /\ at[j] = "send" /\ Accept(Tx(j)) /\ Goto(j, "wait") /\ UNCHANGED nonce
        /\ \A a \in Accounts : committed[a] = Len(ledger[a])
    BY <1>8, AllMined DEF SendOk
  <2>2. PICK tx \in Transactions : Accept(tx) /\ tx.from = key[j]
    BY <2>1, TxType DEF Tx
  <2>3. /\ Len(ledger'[key[j]]) = Len(ledger[key[j]]) + 1
        /\ \A a \in Accounts : a # key[j] => ledger'[a] = ledger[a]
    BY <2>2, AcceptAppends
  <2>4. UNCHANGED <<committed, reverted, late>>
    BY <2>2 DEF Accept
  <2>5. nonce[j] = Len(ledger[key[j]])
    BY <1>5, <2>1
  <2>6. ASSUME NEW a \in Accounts PROVE committed'[a] = Len(ledger'[a]) \/ Waiting(a)'
    <3>1. CASE a # key[j]
      BY <2>1, <2>3, <2>4, <3>1
    <3>2. CASE a = key[j]
      BY SMTT(30), <1>1, <1>4, <2>1, <2>3, <2>4, <2>5, <3>2 DEF Waiting
    <3> QED
      BY <3>1, <3>2
  <2>7. \A i \in Jobs : at'[i] # "send"
    BY <1>4, <2>1, AtWorkAlone
  <2>8. \A i \in Jobs : at'[i] \in {"idle", "sign", "send", "wait", "ok"}
    BY <1>4, <1>5, <2>1
  <2> QED
    BY <1>5, <2>4, <2>6, <2>7, <2>8 DEF Smooth
<1>9. CASE SendErr(j)
  <2>1. at[j] = "send" /\ \A a \in Accounts : committed[a] = Len(ledger[a])
    BY <1>9, AllMined DEF SendErr
  <2>2. \A a \in Accounts : InPool(a) = 0
    BY <2>1 DEF InPool, TypeOK
  <2>3. Refusals(Tx(j)) = {}
    BY <1>5, <2>1, <2>2, RoomWhenMined DEF Refusals, Tx, Pending
  <2> QED
    BY <1>2, <1>9, <2>3 DEF SendErr, Refuse
<1>10. CASE Receipt(j)
  <2>1. /\ at[j] = "wait" /\ Mined(key[j], nonce[j])
        /\ UNCHANGED <<nonce, ledger, committed, reverted, late>>
    BY <1>10 DEF Receipt, nodeVars
  <2>2. Goto(j, "ok")
    BY <1>5, <1>10, <2>1 DEF Receipt, Succeeded
  <2>3. ASSUME NEW a \in Accounts PROVE committed[a] = Len(ledger[a])
    <3>1. ~Waiting(a)
      <4> SUFFICES ASSUME NEW i \in Jobs, at[i] = "wait", key[i] = a, committed[a] = nonce[i]
                   PROVE  FALSE
        BY DEF Waiting
      <4>1. i = j
        BY <2>1, AtWorkAlone
      <4> QED
        BY <1>1, <2>1, <4>1 DEF Mined
    <3> QED
      BY <1>5, <3>1
  <2> QED
    BY <1>1, <1>4, <1>5, <2>1, <2>2, <2>3 DEF Smooth
<1>11. CASE ReceiptErr(j)
  BY <1>2, <1>11 DEF ReceiptErr
<1> QED
  BY <1>6, <1>7, <1>8, <1>9, <1>10, <1>11 DEF Job

LEMMA SmoothStep ==
  ASSUME TypeOK, Bounds, OneByOne, command = "distribute",
         faults = 0 => Smooth, faults' = 0, [Next]_vars
  PROVE  Smooth'
<1>1. faults = 0
  <2>1. faults \in Nat
    BY DEF TypeOK
  <2>2. faults' = faults \/ faults' = faults + 1
    <3>1. ASSUME NEW j \in Jobs, Job(j) PROVE faults' = faults \/ faults' = faults + 1
      BY <3>1 DEF Job, Start, LookUp, SendOk, SendErr, Receipt, ReceiptErr, Accept,
                  Refuse, NodeFault, Fault, nodeVars
    <3>2. CASE Node
      BY <3>2 DEF Node, DeliverLate, Accept, Mine, Fault
    <3>3. CASE Panic \/ BadArguments \/ Return \/ Finished \/ UNCHANGED vars
      BY <3>3 DEF Panic, BadArguments, Return, Finished, vars, nodeVars
    <3> QED
      BY <3>1, <3>2, <3>3 DEF Next
  <2> QED
    BY <2>1, <2>2
<1>2. Smooth
  BY <1>1
<1>3. CASE \E j \in Jobs : Job(j)
  BY <1>1, <1>2, <1>3, SmoothJob
<1>4. ASSUME UNCHANGED <<key, at, nonce, ledger, committed, reverted, late>> PROVE Smooth'
  BY <1>2, <1>4 DEF Smooth, Waiting
<1>5. CASE Node
  <2>1. UNCHANGED <<key, at, nonce>>
    BY <1>5 DEF Node, inputs
  <2>2. ~DeliverLate
    BY <1>2 DEF DeliverLate, Smooth
  <2>3. PICK a \in Accounts : Mine(a)
    BY <1>5, <2>2 DEF Node
  <2>4. /\ committed' = [committed EXCEPT ![a] = @ + 1]
        /\ UNCHANGED <<reverted, ledger, late>>
    BY <1>1, <2>3 DEF Mine, Fault
  <2>5. committed \in [Accounts -> Nat] /\ committed[a] # Len(ledger[a])
    BY <2>3 DEF Mine, InPool, TypeOK
  <2>6. committed'[a] = Len(ledger[a])
    <3>1. Waiting(a)
      BY <1>2, <2>5 DEF Smooth
    <3> QED
      BY <2>4, <2>5, <3>1 DEF Waiting
  <2>7. ASSUME NEW b \in Accounts, b # a, Waiting(b) PROVE Waiting(b)'
    <3>1. committed'[b] = committed[b]
      BY <2>4, <2>5, <2>7
    <3> QED
      BY <2>1, <2>4, <2>7, <3>1 DEF Waiting
  <2>8. \A b \in Accounts : committed'[b] = Len(ledger'[b]) \/ Waiting(b)'
    BY <1>2, <2>4, <2>5, <2>6, <2>7 DEF Smooth
  <2> QED
    BY <1>2, <2>1, <2>4, <2>8 DEF Smooth
<1>6. ~Panic /\ ~BadArguments
  BY DEF Panic, BadArguments, OneByOne
<1>7. CASE Return \/ Finished \/ UNCHANGED vars
  BY <1>4, <1>7 DEF Return, Finished, vars, inputs, nodeVars
<1> QED
  BY <1>3, <1>5, <1>6, <1>7 DEF Next

LEMMA OutcomeInit == Init => OutcomeInv
<1> SUFFICES ASSUME Init PROVE OutcomeInv
  OBVIOUS
<1>1. /\ \A a \in Accounts : ledger[a] = <<>> /\ committed[a] = 0
      /\ late = {} /\ reverted = {}
      /\ \A j \in Jobs : at[j] = "idle" /\ key[j] \in Accounts
  BY DEF Init, NodeInit
<1>2. \A j \in Jobs : ~PaidIn(j)
  BY <1>1 DEF PaidIn, Pending
<1>3. Accounted
  BY <1>1, <1>2 DEF Accounted
<1>4. Smooth
  BY <1>1 DEF Smooth
<1> QED
  BY <1>3, <1>4, OrderInit DEF OutcomeInv

LEMMA OutcomeStep == OutcomeInv /\ [Next]_vars => OutcomeInv'
<1> SUFFICES ASSUME OutcomeInv, [Next]_vars PROVE OutcomeInv'
  OBVIOUS
<1>1. OrderInv' /\ UNCHANGED command
  BY OrderStep, Constant DEF OutcomeInv, inputs
<1>2. Accounted'
  BY AccountedStep DEF OutcomeInv, OrderInv
<1>3. command = "distribute" /\ faults' = 0 => Smooth'
  BY SmoothStep DEF OutcomeInv, OrderInv
<1> QED
  BY <1>1, <1>2, <1>3 DEF OutcomeInv

\* What the log says of a job is true of the chain, for every number of jobs
\* and accounts and whatever fails.
THEOREM OutcomesAreTrue == Spec => []OutcomesTrue
<1>1. OutcomeInv => OutcomesTrue
  BY DEF OutcomeInv, OutcomesTrue, Accounted, Landed, Unsent
<1> QED
  BY OutcomeInit, OutcomeStep, <1>1, PTL DEF Spec

\* Without a fault distribute gives up no payment, for any number of targets,
\* any pool, and whichever nonce the library looks up.
THEOREM FaultsExplainLosses == Spec => []OnlyFaultsLose
<1>1. OutcomeInv => OnlyFaultsLose
  BY DEF OutcomeInv, OnlyFaultsLose, Smooth, Ended, Ends
<1> QED
  BY OutcomeInit, OutcomeStep, <1>1, PTL DEF Spec
=============================================================================
