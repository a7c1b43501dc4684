----------------------------- MODULE ChunkTest -----------------------------
(***************************************************************************)
(* The prism and utxo load tests (src/feth/src/commands/tests/basic.rs): a *)
(* producer task makes chunks of targets and hands them over a channel; the *)
(* main task sends one transaction per source to the targets of a chunk,   *)
(* waits for a block, and goes on.  Both run on one thread, so the producer *)
(* runs only while the main task awaits; the sends are threads of rayon's. *)
(***************************************************************************)
EXTENDS Naturals, Sequences, FiniteSets

CONSTANTS
  Counts,     \* what --count may be
  Sources,    \* source_cnt
  MaxLead,    \* bound: blocks that the chain gets ahead of last
  MaxFaults   \* bound: requests that fail

ASSUME CountsAssumption == Counts \subseteq Nat
ASSUME BoundsAssumption == {Sources, MaxLead, MaxFaults} \subseteq Nat

VARIABLES
  flow,      \* "prism": deposit, wait, withdraw, wait; "utxo": transfer, wait
  count,     \* --count
  height,    \* the chain's block number; 0 when the program starts
  produced,  \* chunks the producer has sent
  chan,      \* the channel: how many targets each chunk has
  open,      \* the producer still holds its end of it
  pc,        \* where the main task is
  last,      \* last
  phase,     \* send phases begun
  chunk,     \* targets in the chunk at hand
  todo,      \* positions in the chunk that are still to be sent to
  panicked,  \* an unwrap failed on one of rayon's threads
  paid,      \* what was accepted: <<phase, position>>
  pool,      \* the phases with accepted transactions that wait for a block
  sentAt,    \* history: the height at the latest send
  faults     \* faults so far

mainVars == <<pc, last, phase, chunk, todo, panicked>>
chainVars == <<height, paid, pool, sentAt, faults>>
producerVars == <<produced, chan, open>>
options == <<flow, count>>
vars == <<options, mainVars, chainVars, producerVars>>

Init ==
  /\ flow \in {"prism", "utxo"}
  /\ count \in Counts
  /\ height = 0 /\ last = 0 /\ sentAt = 0
  /\ produced = 0 /\ chan = <<>> /\ open = TRUE
  /\ pc = "start"
  /\ phase = 0 /\ chunk = 0 /\ todo = {} /\ panicked = FALSE
  /\ paid = {} /\ pool = {} /\ faults = 0

Accept(k) == paid' = paid \cup {<<phase, k>>} /\ pool' = pool \cup {phase}

Fault == faults < MaxFaults /\ faults' = faults + 1

\* tokio's channel panics on a capacity of 0; current_height may fail, too.
Start ==
  /\ pc = "start"
  /\ \/ count > 0 /\ pc' = "recv" /\ last' = height /\ UNCHANGED faults
     \/ count = 0 /\ pc' = "crashed" /\ UNCHANGED <<last, faults>>
     \/ Fault /\ pc' = "crashed" /\ UNCHANGED last
  /\ UNCHANGED <<phase, chunk, todo, panicked, height, paid, pool, sentAt, producerVars>>

\* One turn of the producer.  filter_map leaves out a key that fails.
Produce ==
  /\ pc \in {"recv", "wait"} /\ produced < count
  /\ produced' = produced + 1
  /\ \E n \in 0..Sources : chan' = Append(chan, n)
  /\ UNCHANGED <<open, mainVars, chainVars>>

\* Mutant of Close: another owner keeps the sending end alive.
CloseNever ==
  /\ pc \in {"recv", "wait"} /\ produced = count /\ open
  /\ UNCHANGED <<producerVars, mainVars, chainVars>>

Close ==
  /\ pc \in {"recv", "wait"} /\ produced = count /\ open
  /\ open' = FALSE
  /\ UNCHANGED <<produced, chan, mainVars, chainVars>>

BeginPhase(n) ==
  /\ phase' = phase + 1
  /\ chunk' = n
  /\ todo' = 1..n
  /\ pc' = "send"

\* Mutant of Recv: try_recv, which does not wait for the producer.
TryRecv ==
  /\ pc = "recv"
  /\ IF chan # <<>>
       THEN BeginPhase(Head(chan)) /\ chan' = Tail(chan)
       ELSE pc' = "done" /\ UNCHANGED <<chan, phase, chunk, todo>>
  /\ UNCHANGED <<last, panicked, chainVars, produced, open>>

Recv ==
  /\ pc = "recv"
  /\ \/ chan # <<>> /\ BeginPhase(Head(chan)) /\ chan' = Tail(chan)
     \/ chan = <<>> /\ ~open /\ pc' = "done" /\ UNCHANGED <<chan, phase, chunk, todo>>
  /\ UNCHANGED <<last, panicked, chainVars, produced, open>>

\* Mutant of Send: an error is logged, not unwrapped.
SendTolerant(k) ==
  /\ pc = "send" /\ k \in todo
  /\ todo' = todo \ {k}
  /\ \/ Accept(k) /\ UNCHANGED faults
     \/ Fault /\ UNCHANGED <<paid, pool>>
  /\ sentAt' = height
  /\ UNCHANGED <<pc, last, phase, chunk, panicked, height, producerVars>>

\* zip pairs the k-th source with the k-th target; the threads of the pool
\* take the pairs in any order.  An unwrap that fails stops only its own thread,
\* and the transaction behind it may have been accepted all the same.
Send(k) ==
  /\ pc = "send" /\ k \in todo
  /\ todo' = todo \ {k}
  /\ \/ Accept(k) /\ UNCHANGED <<faults, panicked>>
     \/ /\ Fault /\ panicked' = TRUE
        /\ Accept(k) \/ UNCHANGED <<paid, pool>>
  /\ sentAt' = height
  /\ UNCHANGED <<pc, last, phase, chunk, height, producerVars>>

\* for_each hands a thread's panic on when all are through.
Joined ==
  /\ pc = "send" /\ todo = {}
  /\ pc' = IF panicked THEN "crashed" ELSE "wait"
  /\ UNCHANGED <<last, phase, chunk, todo, panicked, chainVars, producerVars>>

\* Mutant of Continue: the chunk is not left after its second phase.
ContinueSameChunk ==
  IF flow = "prism"
    THEN BeginPhase(chunk)
    ELSE pc' = "recv" /\ UNCHANGED <<phase, chunk, todo>>

\* The other phase of the same chunk, or the next chunk.
Continue ==
  IF flow = "prism" /\ phase % 2 = 1
    THEN BeginPhase(chunk)
    ELSE pc' = "recv" /\ UNCHANGED <<phase, chunk, todo>>

\* Mutant of WaitForNewBlock: the block seen before is new enough.
WaitForSameBlock ==
  /\ pc = "wait"
  /\ height >= last /\ last' = height /\ Continue
  /\ UNCHANGED <<panicked, height, paid, pool, sentAt, faults, producerVars>>

\* wait_for_new_block: new is what is above last, which was set before the
\* transactions were sent; a request that fails is unwrapped.
WaitForNewBlock ==
  /\ pc = "wait"
  /\ \/ height > last /\ last' = height /\ Continue /\ UNCHANGED faults
     \/ Fault /\ pc' = "crashed" /\ UNCHANGED <<last, phase, chunk, todo>>
  /\ UNCHANGED <<panicked, height, paid, pool, sentAt, producerVars>>

\* A block takes all that is in the pool.
Mine ==
  /\ height < last + MaxLead
  /\ height' = height + 1
  /\ pool' = {}
  /\ UNCHANGED <<mainVars, paid, sentAt, faults, producerVars>>

Ended == pc \in {"done", "crashed"} /\ UNCHANGED vars

Main == Start \/ Recv \/ (\E k \in 1..Sources : Send(k)) \/ Joined \/ WaitForNewBlock

MainStep == Main /\ UNCHANGED options
ProducerStep == (Produce \/ Close) /\ UNCHANGED options
ChainStep == Mine /\ UNCHANGED options

Next == MainStep \/ ProducerStep \/ ChainStep \/ Ended

Spec == Init /\ [][Next]_vars

\* Both tasks are polled, and the chain goes on making blocks.
FairSpec ==
  /\ Spec
  /\ WF_vars(MainStep) /\ WF_vars(ProducerStep) /\ WF_vars(ChainStep)
-----------------------------------------------------------------------------
(***************************************************************************)
(* Properties.                                                             *)
(***************************************************************************)

\* Every variable stays in its type.  The producer is never held up, since the
\* channel has room for all its chunks, and last never passes the chain.
TypeOK ==
  /\ flow \in {"prism", "utxo"} /\ count \in Counts
  /\ pc \in {"start", "recv", "send", "wait", "done", "crashed"}
  /\ chan \in Seq(0..Sources) /\ Len(chan) <= produced /\ produced <= count
  /\ open \in BOOLEAN /\ panicked \in BOOLEAN
  /\ last \in 0..height /\ sentAt \in 0..height
  /\ phase \in 0..(2 * count) /\ chunk \in 0..Sources
  /\ todo \subseteq 1..chunk
  /\ paid \subseteq (1..phase) \X (1..Sources) /\ pool \subseteq 1..phase
  /\ faults \in 0..MaxFaults

\* Although last is stale, no block gets the transactions of more than two
\* phases: the waits keep the test from flooding the pool (basic.rs:75-84).
TwoPhasesPerBlock == Cardinality(pool) <= 2

\* In the prism test nothing is withdrawn from an account whose deposit was not
\* accepted: a failed one ends the test before the second phase of its chunk,
\* and that phase pairs the same sources and targets (basic.rs:127-140).
WithdrawalsHaveDeposits ==
  flow = "prism" =>
    \A p \in paid : p[1] % 2 = 0 => <<p[1] - 1, p[2]>> \in paid

AllChunksSent ==
  /\ phase = (IF flow = "prism" THEN 2 ELSE 1) * count
  /\ todo = {} /\ ~panicked

\* Every test comes to an end, also with sources that get no target, and one
\* that ends well has sent every chunk in all its phases: the main task does
\* not take an empty channel for the end (basic.rs:123, 186).
Terminates == <>(pc = "crashed" \/ (pc = "done" /\ AllChunksSent))

\* "4. wait for a block and send again" (basic.rs:150): a phase begins only
\* after a block that is newer than the last transaction of the phase before.
SendsAfterNewBlock ==
  [][phase' = phase + 1 /\ phase > 0 /\ paid # {} => height > sentAt]_vars
=============================================================================
