-------------------------- MODULE ChunkTestProofs --------------------------
(***************************************************************************)
(* Proofs about ChunkTest, for any number of chunks, sources and faults    *)
(* and any lead of the chain.                                              *)
(***************************************************************************)
EXTENDS ChunkTest, FiniteSetTheorems, TLAPS

\* The chunks that the main task has taken from the channel.
Taken == produced - Len(chan)

\* A phase belongs to a chunk that was taken: one phase per chunk in the utxo
\* test, two in the prism test, the first of which is odd.
Control ==
  /\ produced \in Nat /\ height \in Nat
  /\ pc \in {"send", "wait"} => phase >= 1
  /\ flow = "utxo" => phase <= Taken
  /\ flow = "prism" =>
       /\ phase <= 2 * Taken
       /\ phase % 2 = 1 => phase < 2 * Taken
       /\ pc \in {"start", "recv"} => phase % 2 = 0

TypeInv == TypeOK /\ Control

LEMMA Parity ==
  ASSUME NEW n \in Nat
  PROVE  /\ n % 2 \in {0, 1}
         /\ n % 2 = 0 => (n + 1) % 2 = 1
         /\ n % 2 = 1 => (n + 1) % 2 = 0
         /\ (2 * n) % 2 = 0
OBVIOUS

\* The numbers that the proofs compare.
LEMMA Numbers ==
  ASSUME TypeInv
  PROVE  /\ count \in Nat /\ Sources \in Nat /\ MaxFaults \in Nat
         /\ produced \in Nat /\ Len(chan) \in Nat /\ Taken \in Nat
         /\ Taken <= count /\ produced <= count
         /\ chan \in Seq(0..Sources)
         /\ height \in Nat /\ last \in Nat /\ last <= height
         /\ phase \in Nat /\ chunk \in Nat /\ chunk <= Sources
         /\ todo \subseteq 1..chunk
<1>1. count \in Nat /\ Sources \in Nat /\ MaxFaults \in Nat
  BY CountsAssumption, BoundsAssumption DEF TypeInv, TypeOK
<1>2. chan \in Seq(0..Sources) /\ Len(chan) <= produced /\ produced <= count /\ produced \in Nat
  BY DEF TypeInv, TypeOK, Control
<1>3. Len(chan) \in Nat
  BY <1>2
<1>4. height \in Nat /\ last \in 0..height
  BY DEF TypeInv, TypeOK, Control
<1> QED
  BY <1>1, <1>2, <1>3, <1>4 DEF TypeInv, TypeOK, Taken

LEMMA TypeInit == Init => TypeInv
<1> SUFFICES ASSUME Init PROVE TypeInv
  OBVIOUS
<1>1. count \in Nat /\ Sources \in Nat /\ MaxFaults \in Nat
  BY CountsAssumption, BoundsAssumption DEF Init
<1>2. 0 \in 0..MaxFaults /\ 0 \in 0..(2 * count) /\ 0 \in 0..Sources /\ 0 \in 0..0
  BY <1>1
<1>3. Len(chan) = 0 /\ chan \in Seq(0..Sources) /\ Taken = 0
  <2>1. chan = <<>> /\ produced = 0
    BY DEF Init
  <2>2. Len(<<>>) = 0 /\ <<>> \in Seq(0..Sources)
    OBVIOUS
  <2>3. Len(chan) = 0 /\ chan \in Seq(0..Sources)
    BY <2>1, <2>2
  <2>4. produced - Len(chan) = 0
    <3>1. produced = 0
      BY <2>1
    <3> QED
      BY <2>3, <3>1
  <2> QED
    BY <2>3, <2>4 DEF Taken
<1>4. 0 % 2 = 0 /\ 0 <= 2 * 0 /\ ~(0 % 2 = 1)
  OBVIOUS
<1>5. TypeOK
  <2>1. /\ flow \in {"prism", "utxo"} /\ count \in Counts /\ pc = "start"
        /\ produced = 0 /\ open \in BOOLEAN /\ panicked \in BOOLEAN
        /\ last = 0 /\ sentAt = 0 /\ height = 0 /\ phase = 0 /\ chunk = 0 /\ faults = 0
        /\ todo = {} /\ paid = {} /\ pool = {}
    BY DEF Init
  <2>2. Len(chan) <= produced /\ produced <= count
    BY <1>1, <1>3, <2>1
  <2> QED
    BY <1>2, <1>3, <2>1, <2>2 DEF TypeOK
<1>6. Control
  BY <1>3, <1>4 DEF Init, Control
<1> QED
  BY <1>5, <1>6 DEF TypeInv

\* A new phase has a number of its own, and all its positions to send to.
LEMMA BeginTypes ==
  ASSUME TypeInv, NEW n \in 0..Sources, BeginPhase(n), UNCHANGED <<count, flow, paid, pool>>,
         phase + 1 <= 2 * count
  PROVE  /\ phase' \in 0..(2 * count') /\ chunk' \in 0..Sources /\ todo' \subseteq 1..chunk'
         /\ paid' \subseteq (1..phase') \X (1..Sources) /\ pool' \subseteq 1..phase'
         /\ pc' = "send" /\ phase' >= 1
<1>1. phase' = phase + 1 /\ chunk' = n /\ todo' = 1..n /\ pc' = "send"
  BY DEF BeginPhase
<1>2. phase \in Nat /\ count \in Nat
  BY Numbers
<1>3. 1..phase \subseteq 1..(phase + 1)
  BY <1>2
<1>4. paid \subseteq (1..phase) \X (1..Sources) /\ pool \subseteq 1..phase
  BY DEF TypeInv, TypeOK
<1> QED
  BY <1>1, <1>2, <1>3, <1>4

\* The producer hands over one more chunk, or lets go of the channel.
LEMMA ProducerTypes == TypeInv /\ ProducerStep => TypeInv'
<1> SUFFICES ASSUME TypeInv, ProducerStep PROVE TypeInv'
  OBVIOUS
<1>1. UNCHANGED <<flow, count, pc, last, phase, chunk, todo, panicked, height, paid, pool,
                  sentAt, faults>>
  BY DEF ProducerStep, Produce, Close, options, mainVars, chainVars
<1>2. /\ produced' \in Nat /\ produced' <= count /\ chan' \in Seq(0..Sources)
      /\ Len(chan') <= produced' /\ Taken' = Taken /\ open' \in BOOLEAN
  <2>1. CASE Produce
    <3>1. PICK n \in 0..Sources : chan' = Append(chan, n)
      BY <2>1 DEF Produce
    <3>2. produced' = produced + 1 /\ produced < count /\ open' = open
      BY <2>1 DEF Produce
    <3>3. chan' \in Seq(0..Sources) /\ Len(chan') = Len(chan) + 1
      BY <3>1, Numbers
    <3>4. Len(chan) <= produced /\ open \in BOOLEAN
      BY DEF TypeInv, TypeOK
    <3>5. Len(chan) \in Nat /\ produced \in Nat /\ count \in Nat
      BY Numbers
    <3>6. /\ produced' \in Nat /\ produced' <= count /\ Len(chan') <= produced'
          /\ produced' - Len(chan') = produced - Len(chan)
      BY <3>2, <3>3, <3>4, <3>5
    <3> QED
      BY <3>2, <3>3, <3>4, <3>6 DEF Taken
  <2>2. CASE Close
    BY <2>2, Numbers DEF Close, Taken, TypeInv, TypeOK
  <2> QED
    BY <2>1, <2>2 DEF ProducerStep
<1>3. TypeOK'
  BY SMTT(30), <1>1, <1>2 DEF TypeInv, TypeOK
<1>4. Control'
  BY <1>1, <1>2 DEF TypeInv, Control
<1> QED
  BY <1>3, <1>4 DEF TypeInv

LEMMA ChainTypes == TypeInv /\ ChainStep => TypeInv'
<1> SUFFICES ASSUME TypeInv, ChainStep PROVE TypeInv'
  OBVIOUS
<1>1. /\ UNCHANGED <<flow, count, pc, last, phase, chunk, todo, panicked, paid, sentAt, faults,
                     produced, chan, open>>
      /\ height' = height + 1 /\ pool' = {}
  BY DEF ChainStep, Mine, options, mainVars, producerVars
<1>2. height' \in Nat /\ 0..height \subseteq 0..height' /\ Taken' = Taken
  BY SMTT(30), <1>1, Numbers DEF Taken
<1>3. last' \in 0..height' /\ sentAt' \in 0..height' /\ pool' \subseteq 1..phase'
  BY <1>1, <1>2 DEF TypeInv, TypeOK
<1>4. TypeOK'
  BY <1>1, <1>3 DEF TypeInv, TypeOK
<1>5. Control'
  BY <1>1, <1>2 DEF TypeInv, Control
<1> QED
  BY <1>4, <1>5 DEF TypeInv

\* What no step of the main task touches.
LEMMA MainFrame ==
  ASSUME MainStep
  PROVE  UNCHANGED <<flow, count, height, produced, open>>
BY DEF MainStep, Main, Start, Recv, Send, Joined, WaitForNewBlock, options, chainVars,
       producerVars

LEMMA FaultType ==
  ASSUME TypeInv, Fault
  PROVE  faults' \in 0..MaxFaults
BY SMTT(30), Numbers DEF TypeInv, TypeOK, Fault

LEMMA MainTypes == TypeInv /\ MainStep => TypeInv'
<1> SUFFICES ASSUME TypeInv, MainStep PROVE TypeInv'
  OBVIOUS
<1>1. UNCHANGED <<flow, count, height, produced, open>>
  BY MainFrame
<1>2. /\ flow \in {"prism", "utxo"} /\ last \in 0..height /\ sentAt \in 0..height
      /\ height \in 0..height /\ height \in Nat /\ faults \in 0..MaxFaults
  BY Numbers DEF TypeInv, TypeOK
<1>3. CASE Start
  <2>1. /\ UNCHANGED <<phase, chunk, todo, panicked, paid, pool, sentAt, chan>>
        /\ pc = "start" /\ pc' \in {"recv", "crashed"} /\ last' \in 0..height
    BY <1>2, <1>3 DEF Start, producerVars
  <2>2. faults' \in 0..MaxFaults
    BY <1>2, <1>3, FaultType DEF Start
  <2>3. TypeOK'
    BY <1>1, <2>1, <2>2 DEF TypeInv, TypeOK
  <2>4. Control'
    BY <1>1, <2>1 DEF TypeInv, Control, Taken
  <2> QED
    BY <2>3, <2>4 DEF TypeInv
<1>4. CASE Recv
  <2>1. UNCHANGED <<last, panicked, paid, pool, sentAt, faults>> /\ pc = "recv"
    BY <1>4 DEF Recv, chainVars
  <2>2. CASE chan # <<>> /\ BeginPhase(Head(chan)) /\ chan' = Tail(chan)
    <3>1. /\ Head(chan) \in 0..Sources /\ chan' \in Seq(0..Sources)
          /\ Len(chan') = Len(chan) - 1 /\ Len(chan) >= 1
      BY SMTT(30), <2>2, Numbers
    <3>2. Taken' = Taken + 1 /\ Taken + 1 <= count
      <4>1. produced <= count /\ Len(chan) <= produced
        BY DEF TypeInv, TypeOK
      <4> QED
        BY SMTT(30), <1>1, <3>1, <4>1, Numbers DEF Taken
    <3>3. /\ phase <= 2 * Taken
          /\ flow = "utxo" => phase <= Taken
          /\ flow = "prism" => phase % 2 = 0
      BY SMTT(30), <1>2, <2>1, Numbers DEF TypeInv, Control
    <3>4. phase + 1 <= 2 * count
      BY SMTT(30), <3>2, <3>3, Numbers
    <3>5. phase' = phase + 1
      BY <2>2 DEF BeginPhase
    <3>6. /\ phase' \in 0..(2 * count') /\ chunk' \in 0..Sources /\ todo' \subseteq 1..chunk'
          /\ paid' \subseteq (1..phase') \X (1..Sources) /\ pool' \subseteq 1..phase'
          /\ pc' = "send" /\ phase' >= 1
      BY <1>1, <2>1, <2>2, <3>1, <3>4, BeginTypes
    <3>7. Len(chan') <= produced'
      BY SMTT(30), <1>1, <3>1, Numbers DEF TypeInv, TypeOK
    <3>8. TypeOK'
      BY <1>1, <2>1, <3>1, <3>6, <3>7 DEF TypeInv, TypeOK
    <3>9. Control'
      <4>1. flow = "utxo" => phase' <= Taken'
        BY SMTT(30), <3>2, <3>3, <3>5, Numbers
      <4>2. phase' < 2 * Taken' /\ phase' <= 2 * Taken'
        BY SMTT(30), <3>2, <3>3, <3>5, Numbers
      <4>3. produced' \in Nat /\ height' \in Nat
        BY <1>1, Numbers
      <4> QED
        BY <1>1, <3>6, <4>1, <4>2, <4>3 DEF Control
    <3> QED
      BY <3>8, <3>9 DEF TypeInv
  <2>3. CASE pc' = "done" /\ UNCHANGED <<chan, phase, chunk, todo>>
    <3>1. TypeOK'
      BY <1>1, <2>1, <2>3 DEF TypeInv, TypeOK
    <3>2. Control'
      BY <1>1, <2>3 DEF TypeInv, Control, Taken
    <3> QED
      BY <3>1, <3>2 DEF TypeInv
  <2> QED
    BY <1>4, <2>2, <2>3 DEF Recv
<1>5. ASSUME NEW k \in 1..Sources, Send(k) PROVE TypeInv'
  <2>1. /\ pc = "send" /\ k \in todo /\ todo' = todo \ {k} /\ sentAt' = height
        /\ UNCHANGED <<pc, last, phase, chunk, chan>>
    BY <1>5 DEF Send, producerVars
  <2>2. phase \in 1..phase
    BY <2>1, Numbers DEF TypeInv, Control
  <2>3. /\ paid' \subseteq (1..phase) \X (1..Sources) /\ pool' \subseteq 1..phase
        /\ faults' \in 0..MaxFaults /\ panicked' \in BOOLEAN
    <3>1. paid \subseteq (1..phase) \X (1..Sources) /\ pool \subseteq 1..phase
      BY DEF TypeInv, TypeOK
    <3>2. \/ paid' = paid /\ pool' = pool
          \/ paid' = paid \cup {<<phase, k>>} /\ pool' = pool \cup {phase}
      BY <1>5 DEF Send, Accept
    <3>3. faults' \in 0..MaxFaults
      BY <1>2, <1>5, FaultType DEF Send
    <3>4. panicked' \in BOOLEAN
      BY <1>5 DEF Send, TypeInv, TypeOK
    <3>5. <<phase, k>> \in (1..phase) \X (1..Sources)
      BY <2>2
    <3>6. paid' \subseteq (1..phase) \X (1..Sources)
      BY <3>1, <3>2, <3>5
    <3>7. pool' \subseteq 1..phase
      BY <2>2, <3>1, <3>2
    <3> QED
      BY <3>3, <3>4, <3>6, <3>7
  <2>4. TypeOK'
    BY <1>1, <1>2, <2>1, <2>3 DEF TypeInv, TypeOK
  <2>5. Control'
    BY <1>1, <2>1 DEF TypeInv, Control, Taken
  <2> QED
    BY <2>4, <2>5 DEF TypeInv
<1>6. CASE Joined
  <2>1. /\ UNCHANGED <<last, phase, chunk, todo, panicked, paid, pool, sentAt, faults, chan>>
        /\ pc = "send" /\ pc' \in {"crashed", "wait"}
    BY <1>6 DEF Joined, chainVars, producerVars
  <2>2. TypeOK'
    BY <1>1, <2>1 DEF TypeInv, TypeOK
  <2>3. Control'
    BY <1>1, <2>1 DEF TypeInv, Control, Taken
  <2> QED
    BY <2>2, <2>3 DEF TypeInv
<1>7. CASE WaitForNewBlock
  <2>1. /\ UNCHANGED <<panicked, paid, pool, sentAt, chan>> /\ pc = "wait"
        /\ faults' \in 0..MaxFaults /\ last' \in 0..height
    BY <1>2, <1>7, FaultType DEF WaitForNewBlock, producerVars
  <2>2. Taken' = Taken
    BY <1>1, <2>1 DEF Taken
  <2>3. CASE flow = "prism" /\ phase % 2 = 1 /\ BeginPhase(chunk)
    <3>1. phase < 2 * Taken /\ phase' = phase + 1 /\ phase' % 2 = 0
      BY <2>3, Numbers, Parity DEF TypeInv, Control, BeginPhase
    <3>2. phase + 1 <= 2 * count /\ chunk \in 0..Sources
      BY SMTT(30), <3>1, Numbers
    <3>3. /\ phase' \in 0..(2 * count') /\ chunk' \in 0..Sources /\ todo' \subseteq 1..chunk'
          /\ paid' \subseteq (1..phase') \X (1..Sources) /\ pool' \subseteq 1..phase'
          /\ pc' = "send" /\ phase' >= 1
      BY <1>1, <2>1, <2>3, <3>2, BeginTypes
    <3>4. TypeOK'
      BY <1>1, <2>1, <3>3 DEF TypeInv, TypeOK
    <3>5. Control'
      <4>1. phase' <= 2 * Taken' /\ produced' \in Nat /\ height' \in Nat
        BY SMTT(30), <1>1, <2>2, <3>1, Numbers
      <4> QED
        BY <1>1, <2>3, <3>1, <3>3, <4>1 DEF Control
    <3> QED
      BY <3>4, <3>5 DEF TypeInv
  <2>4. CASE /\ pc' \in {"recv", "crashed"} /\ UNCHANGED <<phase, chunk, todo>>
             /\ pc' = "recv" => ~(flow = "prism" /\ phase % 2 = 1)
    <3>1. TypeOK'
      BY SMTT(30), <1>1, <2>1, <2>4 DEF TypeInv, TypeOK
    <3>2. Control'
      <4>1. pc' = "recv" /\ flow = "prism" => phase % 2 = 0
        BY <2>4, Numbers, Parity
      <4> QED
        BY <1>1, <2>2, <2>4, <4>1 DEF TypeInv, Control
    <3> QED
      BY <3>1, <3>2 DEF TypeInv
  <2> QED
    BY <1>7, <2>3, <2>4 DEF WaitForNewBlock, Continue
<1> QED
  BY <1>3, <1>4, <1>5, <1>6, <1>7 DEF MainStep, Main

LEMMA TypeStep == TypeInv /\ [Next]_vars => TypeInv'
<1> SUFFICES ASSUME TypeInv, [Next]_vars PROVE TypeInv'
  OBVIOUS
<1>1. CASE UNCHANGED vars
  BY <1>1 DEF TypeInv, TypeOK, Control, Taken, vars, mainVars, chainVars, producerVars, options
<1> QED
  BY <1>1, MainTypes, ProducerTypes, ChainTypes DEF Next, Ended

\* Every reachable state of the chunk tests is well-typed: the channel has room
\* for all chunks, and no phase is begun beyond those of the chunks made.
THEOREM ChunkTypes == Spec => []TypeOK
<1>1. TypeInv => TypeOK
  BY DEF TypeInv
<1> QED
  BY <1>1, TypeInit, TypeStep, PTL DEF Spec

-----------------------------------------------------------------------------
(***************************************************************************)
(* The pool.  last is the height at the end of the wait before, so the     *)
(* blocks made while a phase sends end the next wait at once.  But such a  *)
(* block took with it all that was sent before it.                         *)
(***************************************************************************)
PoolInv ==
  /\ pool \subseteq {phase - 1, phase}
  /\ height > last => pool \subseteq {phase}
  /\ pc \in {"start", "recv"} => pool \subseteq {phase} /\ (height > last => pool = {})
  /\ pc = "start" => pool = {}

LEMMA PoolStep ==
  ASSUME TypeInv, PoolInv, [Next]_vars
  PROVE  PoolInv'
<1>1. phase \in Nat /\ height \in Nat /\ last \in Nat /\ last <= height
  BY Numbers
<1>2. CASE UNCHANGED <<pool, phase, height, last>> /\ pc' \notin {"start", "recv"}
  BY <1>2 DEF PoolInv
<1>3. CASE UNCHANGED <<pool, phase, height, last, pc>>
  BY <1>3 DEF PoolInv
<1>4. CASE MainStep
  <2>1. height' = height
    BY <1>4, MainFrame
  <2>2. CASE Start
    <3>1. pool' = {} /\ pc' # "start"
      BY <2>2 DEF Start, PoolInv
    <3> QED
      BY <3>1 DEF PoolInv
  <2>3. CASE Recv
    <3>1. UNCHANGED <<pool, last>> /\ pc = "recv"
      BY <2>3 DEF Recv, chainVars
    <3>2. CASE phase' = phase + 1 /\ pc' = "send"
      <4>1. phase' - 1 = phase
        BY <1>1, <3>2
      <4> QED
        BY <2>1, <3>1, <3>2, <4>1 DEF PoolInv
    <3>3. CASE UNCHANGED phase /\ pc' = "done"
      BY <1>2, <2>1, <3>1, <3>3
    <3> QED
      BY <2>3, <3>2, <3>3 DEF Recv, BeginPhase
  <2>4. ASSUME NEW k \in 1..Sources, Send(k) PROVE PoolInv'
    <3>1. UNCHANGED <<pc, last, phase>> /\ pc = "send"
      BY <2>4 DEF Send
    <3>2. pool' \subseteq pool \cup {phase}
      BY <2>4 DEF Send, Accept
    <3> QED
      BY <2>1, <3>1, <3>2 DEF PoolInv
  <2>5. CASE Joined
    BY <1>2, <2>1, <2>5 DEF Joined, chainVars
  <2>6. CASE WaitForNewBlock
    <3>1. UNCHANGED pool
      BY <2>6 DEF WaitForNewBlock
    <3>2. CASE height > last /\ last' = height /\ Continue
      <4>1. pool \subseteq {phase} /\ ~(height' > last')
        BY <1>1, <2>1, <3>2 DEF PoolInv
      <4>2. CASE phase' = phase + 1 /\ pc' = "send"
        <5>1. phase' - 1 = phase
          BY <1>1, <4>2
        <5> QED
          BY <3>1, <4>1, <4>2, <5>1 DEF PoolInv
      <4>3. CASE UNCHANGED phase /\ pc' = "recv"
        BY <3>1, <4>1, <4>3 DEF PoolInv
      <4> QED
        BY <3>2, <4>2, <4>3 DEF Continue, BeginPhase
    <3>3. CASE pc' = "crashed" /\ UNCHANGED <<last, phase>>
      BY <1>2, <2>1, <3>1, <3>3
    <3> QED
      BY <2>6, <3>2, <3>3 DEF WaitForNewBlock
  <2> QED
    BY <1>4, <2>2, <2>3, <2>4, <2>5, <2>6 DEF MainStep, Main
<1>5. CASE ProducerStep
  BY <1>3, <1>5 DEF ProducerStep, Produce, Close, mainVars, chainVars
<1>6. CASE ChainStep
  <2>1. pool' = {}
    BY <1>6 DEF ChainStep, Mine
  <2> QED
    BY <2>1 DEF PoolInv
<1>7. CASE UNCHANGED vars
  BY <1>3, <1>7 DEF vars, mainVars, chainVars
<1> QED
  BY <1>4, <1>5, <1>6, <1>7 DEF Next, Ended

\* Stale as last is, the pool never has transactions of more than two phases.
THEOREM PoolStaysSmall == Spec => []TwoPhasesPerBlock
<1> DEFINE Inv == TypeInv /\ PoolInv
<1>1. Init => Inv
  <2>1. Init => PoolInv
    BY DEF Init, PoolInv
  <2> QED
    BY <2>1, TypeInit
<1>2. Inv /\ [Next]_vars => Inv'
  BY TypeStep, PoolStep
<1>3. Inv => TwoPhasesPerBlock
  <2> SUFFICES ASSUME Inv PROVE Cardinality(pool) <= 2
    BY DEF TwoPhasesPerBlock
  <2> DEFINE two == {phase - 1} \cup {phase}
  <2>1. pool \in SUBSET two
    BY DEF PoolInv
  <2>2. IsFiniteSet({phase - 1}) /\ Cardinality({phase - 1}) = 1
    BY FS_Singleton
  <2>3. IsFiniteSet(two) /\ Cardinality(two) <= 2
    BY <2>2, FS_AddElement
  <2> HIDE DEF two
  <2>4. /\ IsFiniteSet(pool) /\ Cardinality(pool) <= Cardinality(two)
        /\ Cardinality(two) \in Nat /\ Cardinality(pool) \in Nat
    BY <2>1, <2>3, FS_Subset, FS_CardinalityType
  <2> QED
    BY <2>3, <2>4
<1> QED
  BY <1>1, <1>2, <1>3, PTL DEF Spec

-----------------------------------------------------------------------------
(***************************************************************************)
(* The deposits.  The second phase of a chunk begins only if all positions *)
(* of the first were accepted.                                             *)
(***************************************************************************)
Deposited(p, K) == \A k \in K : <<p, k>> \in paid

DepositInv ==
  flow = "prism" =>
    /\ phase % 2 = 1 /\ pc \in {"send", "wait"} /\ ~panicked =>
         Deposited(phase, (1..chunk) \ todo)
    /\ pc = "wait" => ~panicked /\ todo = {}
    /\ phase % 2 = 0 /\ pc = "send" => Deposited(phase - 1, 1..chunk)
    /\ WithdrawalsHaveDeposits

LEMMA DepositStep ==
  ASSUME TypeInv, DepositInv, [Next]_vars
  PROVE  DepositInv'
<1>1. CASE UNCHANGED <<flow, phase, chunk, todo, panicked, paid, pc>>
  BY <1>1 DEF DepositInv, WithdrawalsHaveDeposits, Deposited
<1>2. CASE UNCHANGED <<flow, phase, paid>> /\ pc' \notin {"send", "wait"}
  BY <1>2 DEF DepositInv, WithdrawalsHaveDeposits
<1>3. CASE MainStep
  <2> SUFFICES ASSUME flow = "prism" PROVE DepositInv'
    BY <1>3, MainFrame DEF DepositInv
  <2>0. flow' = flow /\ phase \in Nat
    BY <1>3, MainFrame, Numbers
  <2>1. CASE Start
    BY <1>2, <2>0, <2>1 DEF Start
  <2>2. CASE Recv
    <3>1. UNCHANGED <<paid, panicked>> /\ pc = "recv"
      BY <2>2 DEF Recv, chainVars
    <3>2. ASSUME NEW n, BeginPhase(n) PROVE DepositInv'
      <4>1. phase' = phase + 1 /\ chunk' = n /\ todo' = 1..n /\ pc' = "send"
        BY <3>2 DEF BeginPhase
      <4>2. phase' % 2 = 1
        BY <2>0, <3>1, <4>1, Parity DEF TypeInv, Control
      <4>3. Deposited(phase, (1..chunk) \ todo)'
        BY <4>1 DEF Deposited
      <4> QED
        BY <2>0, <3>1, <4>1, <4>2, <4>3 DEF DepositInv, WithdrawalsHaveDeposits
    <3>3. CASE pc' = "done" /\ UNCHANGED phase
      BY <1>2, <2>0, <3>1, <3>3
    <3> QED
      BY <2>2, <3>2, <3>3 DEF Recv
  <2>3. ASSUME NEW k \in 1..Sources, Send(k) PROVE DepositInv'
    <3>1. /\ pc = "send" /\ k \in todo /\ todo' = todo \ {k} /\ UNCHANGED <<pc, phase, chunk>>
          /\ k \in 1..chunk
      BY <2>3, Numbers DEF Send
    <3>2. ~panicked' => <<phase, k>> \in paid' /\ ~panicked
      BY <2>3 DEF Send, Accept
    <3>3. /\ paid \subseteq paid'
          /\ paid' \subseteq paid \cup {<<phase, k>>}
      BY <2>3 DEF Send, Accept
    <3>4. phase % 2 = 1 /\ ~panicked' => Deposited(phase, (1..chunk) \ todo)'
      <4> SUFFICES ASSUME phase % 2 = 1, ~panicked', NEW j \in (1..chunk) \ todo'
                   PROVE  <<phase, j>> \in paid'
        BY <3>1 DEF Deposited
      <4>1. <<phase, k>> \in paid' /\ ~panicked
        BY <3>2
      <4>2. CASE j = k
        BY <4>1, <4>2
      <4>3. CASE j # k
        BY <3>1, <3>3, <4>1, <4>3 DEF DepositInv, Deposited
      <4> QED
        BY <4>2, <4>3
    <3>5. phase % 2 = 0 => Deposited(phase - 1, 1..chunk) /\ Deposited(phase - 1, 1..chunk)'
      BY <3>1, <3>3 DEF DepositInv, Deposited
    <3>6. WithdrawalsHaveDeposits'
      <4> SUFFICES ASSUME NEW p \in paid', p[1] % 2 = 0 PROVE <<p[1] - 1, p[2]>> \in paid'
        BY DEF WithdrawalsHaveDeposits
      <4>1. CASE p \in paid
        BY <3>3, <4>1 DEF DepositInv, WithdrawalsHaveDeposits
      <4>2. CASE p = <<phase, k>>
        BY <3>1, <3>3, <3>5, <4>2 DEF Deposited
      <4> QED
        BY <3>3, <4>1, <4>2
    <3> QED
      BY <2>0, <3>1, <3>4, <3>5, <3>6 DEF DepositInv
  <2>4. CASE Joined
    <3>1. /\ UNCHANGED <<phase, chunk, todo, panicked, paid>> /\ pc = "send" /\ todo = {}
          /\ pc' = IF panicked THEN "crashed" ELSE "wait"
      BY <2>4 DEF Joined, chainVars
    <3> QED
      BY <2>0, <3>1 DEF DepositInv, WithdrawalsHaveDeposits, Deposited
  <2>5. CASE WaitForNewBlock
    <3>1. UNCHANGED <<panicked, paid>> /\ pc = "wait"
      BY <2>5 DEF WaitForNewBlock
    <3>2. CASE phase % 2 = 1 /\ BeginPhase(chunk)
      <4>1. phase' = phase + 1 /\ chunk' = chunk /\ pc' = "send"
        BY <3>2 DEF BeginPhase
      <4>2. phase' % 2 = 0 /\ phase' - 1 = phase
        BY <2>0, <3>2, <4>1, Parity
      <4>3. Deposited(phase, 1..chunk)
        BY <3>1, <3>2 DEF DepositInv, Deposited
      <4>4. Deposited(phase - 1, 1..chunk)'
        BY <3>1, <4>1, <4>2, <4>3 DEF Deposited
      <4> QED
        BY <2>0, <3>1, <4>1, <4>2, <4>4 DEF DepositInv, WithdrawalsHaveDeposits
    <3>3. CASE pc' \in {"recv", "crashed"} /\ UNCHANGED phase
      BY <1>2, <2>0, <3>1, <3>3
    <3> QED
      BY <2>5, <3>2, <3>3 DEF WaitForNewBlock, Continue
  <2> QED
    BY <1>3, <2>1, <2>2, <2>3, <2>4, <2>5 DEF MainStep, Main
<1>4. CASE ProducerStep
  BY <1>1, <1>4 DEF ProducerStep, Produce, Close, mainVars, chainVars, options
<1>5. CASE ChainStep
  BY <1>1, <1>5 DEF ChainStep, Mine, mainVars, options
<1>6. CASE UNCHANGED vars
  BY <1>1, <1>6 DEF vars, mainVars, chainVars, options
<1> QED
  BY <1>3, <1>4, <1>5, <1>6 DEF Next, Ended

\* In the prism test every withdrawal is made with an account whose deposit
\* was accepted, whatever fails in between.
THEOREM DepositsFirst == Spec => []WithdrawalsHaveDeposits
<1> DEFINE Inv == TypeInv /\ DepositInv
<1>1. Init => Inv
  <2>1. Init => DepositInv
    BY DEF Init, DepositInv, WithdrawalsHaveDeposits, Deposited
  <2> QED
    BY <2>1, TypeInit
<1>2. Inv /\ [Next]_vars => Inv'
  BY TypeStep, DepositStep
<1>3. Inv => WithdrawalsHaveDeposits
  BY DEF DepositInv, WithdrawalsHaveDeposits
<1> QED
  BY <1>1, <1>2, <1>3, PTL DEF Spec
=============================================================================
