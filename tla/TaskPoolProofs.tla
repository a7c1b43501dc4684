--------------------------- MODULE TaskPoolProofs ---------------------------
(***************************************************************************)
(* Proofs about TaskPool, for every number of calls and tasks, every       *)
(* length of the queue and every width of the counters that fits the       *)
(* tasks: what the counter CUR_TASKS counts, why the throttle is idle in   *)
(* the first call, and that the queue of averages freezes.                 *)
(***************************************************************************)
EXTENDS TaskPool, FiniteSetTheorems, SequenceTheorems, WellFoundedInduction, TLAPS

-----------------------------------------------------------------------------
(* The first call.                                                         *)

\* While main spawns, no task and no updater runs: the counters of the first
\* call are those of the start.
Untouched ==
  /\ call \in Nat
  /\ call = 0 => pc = "idle"
  /\ call = 0 \/ (call = 1 /\ pc = "spawn") => cur = 0 /\ max = 2
  /\ call <= 1 => pc \notin {"pop", "throttle", "crashed"}

\* For every number of calls and tasks: the throttle of lib.rs:1046 holds back
\* nothing in the first call.
THEOREM FirstCall == Spec => []FirstCallUnthrottled
<1>1. Init => Untouched
  BY DEF Init, Untouched
<1>2. Untouched /\ [Next]_vars => Untouched'
  <2> SUFFICES ASSUME Untouched, [Next]_vars
               PROVE  Untouched'
    OBVIOUS
  <2> USE DEF Untouched
  <2>1. CASE MainStep
    <3>1. CASE Begin
      BY <3>1 DEF Begin, taskVars, updVars
    <3>2. CASE Spawn
      BY <3>2 DEF Spawn, Full, taskVars, updVars
    <3>3. CASE Pop \/ Throttle
      BY <3>3 DEF Pop, Throttle, Fail
    <3>4. CASE SpawnUpdater \/ Join
      BY <3>4 DEF SpawnUpdater, Join, Fail, taskVars
    <3>5. CASE Send \/ MainWaits \/ ReadCount \/ ReadTotal
      BY <3>5 DEF Send, MainWaits, ReadCount, ReadTotal, Fail, taskVars, updVars
    <3> QED
      BY <2>1, <3>1, <3>2, <3>3, <3>4, <3>5 DEF MainStep
  <2>2. CASE \E t \in Tasks : TaskStep(t)
    BY <2>2 DEF TaskStep, Parked, mainVars, updVars
  <2>3. CASE \E c \in 1..Calls : UpdaterStep(c)
    BY <2>3 DEF UpdaterStep, Parked, mainVars, taskVars
  <2>4. CASE Stopped \/ UNCHANGED vars
    BY <2>4 DEF Stopped, vars
  <2> QED
    BY <2>1, <2>2, <2>3, <2>4 DEF Next
<1>3. Untouched => FirstCallUnthrottled
  BY DEF Untouched, FirstCallUnthrottled
<1> QED
  BY <1>1, <1>2, <1>3, PTL DEF Spec

-----------------------------------------------------------------------------
(* The queue of averages.                                                  *)

QueueType == avgs \in Seq(Int) /\ count \in Nat /\ total \in Nat /\ took \in [Tasks -> Nat]

\* What update_res_queue_secs does to the queue: it keeps what is there, and
\* takes one more while there is room.
LEMMA RecordEffect ==
  ASSUME QueueType, NEW d \in Nat, Record(d)
  PROVE  /\ count' \in Nat /\ total' \in Nat
         /\ avgs' \in Seq(Int)
         /\ Len(avgs) = QueueMax => avgs' = avgs
<1> DEFINE a == (total + d) \div (count + 1)
           queue == Append(avgs, a)
           n == IF Len(queue) > QueueMax THEN QueueMax ELSE Len(queue)
<1>1. count' = count + 1 /\ total' = total + d /\ avgs' = SubSeq(queue, 1, n)
  BY DEF Record
<1>2. a \in Int
  BY DEF QueueType
<1> HIDE DEF a
<1>3. queue \in Seq(Int) /\ Len(queue) = Len(avgs) + 1 /\ Len(avgs) \in Nat
  BY <1>2 DEF QueueType
<1>4. QueueMax \in Nat /\ QueueMax > 0
  BY QueueAssumption
<1>5. n \in 1..Len(queue)
  BY <1>3, <1>4
<1> HIDE DEF queue, n
<1>6. SubSeq(queue, 1, n) \in Seq(Int)
  BY SMTT(30), <1>3, <1>5
<1>7. ASSUME Len(avgs) = QueueMax
      PROVE  SubSeq(queue, 1, n) = avgs
  <2>1. n = Len(avgs)
    BY <1>3, <1>4, <1>7 DEF n
  <2>2. SubSeq(Append(avgs, a), 1, Len(avgs)) = avgs
    BY <1>2 DEF QueueType
  <2> QED
    BY <2>1, <2>2 DEF queue
<1>8. count' \in Nat /\ total' \in Nat
  <2>1. count \in Nat /\ total \in Nat
    BY DEF QueueType
  <2> QED
    BY <1>1, <2>1
<1>9. avgs' \in Seq(Int) /\ (Len(avgs) = QueueMax => avgs' = avgs)
  BY <1>1, <1>6, <1>7
<1> QED
  BY <1>8, <1>9

LEMMA QueueStep ==
  ASSUME QueueType, [Next]_vars
  PROVE  QueueType' /\ (Len(avgs) = QueueMax => avgs' = avgs)
<1> USE DEF QueueType
<1>1. CASE MainStep
  <2>1. UNCHANGED <<avgs, count, total, took>>
    <3> USE DEF taskVars, dataVars
    <3>1. CASE Begin \/ Spawn \/ Pop
      BY <3>1 DEF Begin, Spawn, Pop
    <3>2. CASE Throttle \/ SpawnUpdater
      BY <3>2 DEF Throttle, SpawnUpdater
    <3>3. CASE Join
      BY <3>3 DEF Join
    <3>4. CASE Send \/ MainWaits
      BY <3>4 DEF Send, MainWaits
    <3>5. CASE ReadCount \/ ReadTotal
      BY <3>5 DEF ReadCount, ReadTotal
    <3> QED
      BY <1>1, <3>1, <3>2, <3>3, <3>4, <3>5 DEF MainStep
  <2> QED
    BY <2>1
<1>2. ASSUME NEW t \in Tasks, TaskStep(t)
      PROVE  QueueType' /\ (Len(avgs) = QueueMax => avgs' = avgs)
  <2>1. CASE TaskStart(t) \/ TaskErr(t) \/ TaskPanic(t)
    BY <2>1 DEF TaskStart, TaskErr, TaskPanic, dataVars
  <2>2. CASE TaskOk(t)
    <3>1. PICK d \in Durations :
            /\ took' = [took EXCEPT ![t] = d]
            /\ Record(d) \/ UNCHANGED dataVars
      BY <2>2 DEF TaskOk
    <3>2. d \in Nat
      BY DurationsAssumption
    <3>3. took' \in [Tasks -> Nat]
      BY <3>1, <3>2
    <3> QED
      BY <3>1, <3>2, <3>3, RecordEffect DEF dataVars
  <2>3. CASE TaskRecord(t)
    <3>1. Record(took[t]) /\ took[t] \in Nat /\ took' = took
      BY <2>3 DEF TaskRecord
    <3> QED
      BY <3>1, RecordEffect
  <2> QED
    BY <1>2, <2>1, <2>2, <2>3 DEF TaskStep
<1>3. CASE (\E c \in 1..Calls : UpdaterStep(c)) \/ Stopped \/ UNCHANGED vars
  BY <1>3 DEF UpdaterStep, Stopped, vars, taskVars, dataVars
<1> QED
  BY <1>1, <1>2, <1>3 DEF Next

\* For every length of the queue: once it is full, no step changes it.
THEOREM FullQueueFreezes == Spec => QueueFreezes
<1>1. Init => QueueType
  BY DEF Init, QueueType
<1>2. QueueType /\ [Next]_vars => QueueType'
  BY QueueStep
<1>3. QueueType /\ [Next]_vars => [Len(avgs) = QueueMax => avgs' = avgs]_vars
  BY QueueStep
<1> QED
  BY <1>1, <1>2, <1>3, PTL DEF Spec, QueueFreezes

-----------------------------------------------------------------------------
(* What CUR_TASKS counts.                                                  *)

States == {"none", "ready", "running", "locking", "ok", "err", "panicked"}

\* A task that was not spawned yet has not begun: Spawn takes nothing out of
\* the count when it makes a task ready.
CountInv ==
  /\ state \in [Tasks -> States]
  /\ call \in Nat /\ spawned \in Nat
  /\ \A t \in Tasks : t[1] > call \/ (t[1] = call /\ t[2] > spawned) => state[t] = "none"
  /\ CurCountsInFlight

LEMMA TasksFinite ==
  IsFiniteSet(Tasks) /\ Cardinality(Tasks) < Modulus
<1>1. Calls \in Nat /\ PerCall \in Nat /\ Calls > 0 /\ PerCall > 0
  BY BoundsAssumption
<1>2. /\ IsFiniteSet(1..Calls) /\ Cardinality(1..Calls) = Calls
      /\ IsFiniteSet(1..PerCall) /\ Cardinality(1..PerCall) = PerCall
  BY <1>1, FS_Interval
<1>3. IsFiniteSet(Tasks) /\ Cardinality(Tasks) = Calls * PerCall
  <2> DEFINE A == 1..Calls
             B == 1..PerCall
  <2>1. IsFiniteSet(A) /\ IsFiniteSet(B) /\ Cardinality(A) = Calls /\ Cardinality(B) = PerCall
    BY <1>2
  <2>2. Tasks = A \X B
    BY DEF Tasks
  <2> HIDE DEF A, B
  <2>3. IsFiniteSet(A \X B) /\ Cardinality(A \X B) = Cardinality(A) * Cardinality(B)
    BY <2>1, FS_Product, Zenon
  <2> QED
    BY <2>1, <2>2, <2>3
<1> QED
  BY <1>3, ModulusAssumption

\* The two sets that are counted are disjoint and fit the width.
LEMMA BothFit ==
  ASSUME NEW S \in SUBSET Tasks, NEW T \in SUBSET Tasks, S \cap T = {}
  PROVE  /\ IsFiniteSet(S) /\ IsFiniteSet(T)
         /\ Cardinality(S) \in Nat /\ Cardinality(T) \in Nat
         /\ Cardinality(S) + Cardinality(T) < Modulus
<1>1. IsFiniteSet(S) /\ IsFiniteSet(T) /\ Cardinality(S \cup T) <= Cardinality(Tasks)
  <2>1. S \cup T \in SUBSET Tasks
    OBVIOUS
  <2> QED
    BY <2>1, TasksFinite, FS_Subset
<1>2. Cardinality(S \cup T) = Cardinality(S) + Cardinality(T) - Cardinality(S \cap T)
  BY <1>1, FS_Union
<1>3. Cardinality(S \cap T) = 0
  BY FS_EmptySet
<1>4. /\ Cardinality(S) \in Nat /\ Cardinality(T) \in Nat
      /\ Cardinality(Tasks) \in Nat
  BY <1>1, TasksFinite, FS_CardinalityType
<1> QED
  BY <1>1, <1>2, <1>3, <1>4, TasksFinite, ModulusAssumption

LEMMA CountsDoNotWrap ==
  ASSUME NEW n \in Nat
  PROVE  /\ n + 1 < Modulus => (n + 1) % Modulus = n + 1
         /\ 0 < n /\ n < Modulus => (n + Modulus - 1) % Modulus = n - 1
<1>1. Modulus \in Nat /\ Modulus > 0
  BY ModulusAssumption
<1>2. ASSUME NEW k \in Nat, k < Modulus
      PROVE  k % Modulus = k /\ (k + Modulus) % Modulus = k
  BY <1>1, <1>2
<1>3. ASSUME 0 < n, n < Modulus
      PROVE  (n + Modulus - 1) % Modulus = n - 1
  <2>1. n - 1 \in Nat /\ n - 1 < Modulus /\ n + Modulus - 1 = (n - 1) + Modulus
    BY <1>1, <1>3
  <2> QED
    BY <2>1, <1>2
<1>4. ASSUME n + 1 < Modulus
      PROVE  (n + 1) % Modulus = n + 1
  BY <1>2, <1>4
<1> QED
  BY <1>3, <1>4

\* A task moves to x and the counter follows.
LEMMA Moves ==
  ASSUME state \in [Tasks -> States], CurCountsInFlight,
         NEW t \in Tasks, NEW x \in States, state' = [state EXCEPT ![t] = x]
  PROVE  /\ state' \in [Tasks -> States]
         /\ state[t] \in {"none", "ready"} /\ x = "ready" /\ cur' = cur => CurCountsInFlight'
         /\ state[t] = "ready" /\ x = "running" /\ CountUp => CurCountsInFlight'
         /\ state[t] = "running" /\ x = "locking" /\ cur' = cur => CurCountsInFlight'
         /\ state[t] = "running" /\ x = "panicked" /\ cur' = cur => CurCountsInFlight'
         /\ state[t] \in {"running", "locking"} /\ x \in {"ok", "err"} /\ CountDown
              => CurCountsInFlight'
<1>1. state' \in [Tasks -> States]
  OBVIOUS
<1> DEFINE F == InFlight
           P == Panicked
           G == InFlight'
           Q == Panicked'
<1>2. /\ F \in SUBSET Tasks /\ P \in SUBSET Tasks /\ F \cap P = {}
      /\ G \in SUBSET Tasks /\ Q \in SUBSET Tasks /\ G \cap Q = {}
  BY DEF InFlight, Panicked, Finished
<1>3. /\ IsFiniteSet(F) /\ IsFiniteSet(P) /\ Cardinality(F) \in Nat /\ Cardinality(P) \in Nat
      /\ Cardinality(F) + Cardinality(P) < Modulus
      /\ Cardinality(G) + Cardinality(Q) < Modulus
  BY <1>2, BothFit
<1>4. cur = Cardinality(F) + Cardinality(P)
  BY DEF CurCountsInFlight
<1>5. (cur' = Cardinality(G) + Cardinality(Q)) <=> CurCountsInFlight'
  BY DEF CurCountsInFlight
<1>6. /\ IsFiniteSet(F \cup {t}) /\ IsFiniteSet(F \ {t}) /\ IsFiniteSet(P \cup {t})
      /\ t \notin F => Cardinality(F \cup {t}) = Cardinality(F) + 1
      /\ t \notin P => Cardinality(P \cup {t}) = Cardinality(P) + 1
      /\ t \in F => Cardinality(F \ {t}) = Cardinality(F) - 1
  BY <1>3, FS_AddElement, FS_RemoveElement
<1>7. ASSUME state[t] \in {"none", "ready"}, x = "ready", cur' = cur
      PROVE  CurCountsInFlight'
  <2>1. G = F /\ Q = P
    BY <1>7 DEF InFlight, Panicked
  <2> QED
    BY <1>4, <1>5, <1>7, <2>1
<1>8. ASSUME state[t] = "ready", x = "running", CountUp
      PROVE  CurCountsInFlight'
  <2>1. G = F \cup {t} /\ Q = P /\ t \notin F
    BY <1>8 DEF InFlight, Panicked
  <2>2. Cardinality(G) = Cardinality(F) + 1
    BY <1>6, <2>1
  <2>3. cur \in Nat /\ cur + 1 < Modulus
    BY <1>3, <1>4, <2>1, <2>2
  <2>4. cur' = cur + 1
    BY <1>8, <2>3, CountsDoNotWrap DEF CountUp
  <2> QED
    BY <1>3, <1>4, <1>5, <2>1, <2>2, <2>4
<1>9. ASSUME state[t] = "running", x = "locking", cur' = cur
      PROVE  CurCountsInFlight'
  <2>1. G = F /\ Q = P
    BY <1>9 DEF InFlight, Panicked
  <2> QED
    BY <1>4, <1>5, <1>9, <2>1
<1>10. ASSUME state[t] = "running", x = "panicked", cur' = cur
       PROVE  CurCountsInFlight'
  <2>1. G = F \ {t} /\ Q = P \cup {t} /\ t \in F /\ t \notin P
    BY <1>10 DEF InFlight, Panicked
  <2>2. Cardinality(G) = Cardinality(F) - 1 /\ Cardinality(Q) = Cardinality(P) + 1
    BY <1>6, <2>1
  <2> QED
    BY <1>3, <1>4, <1>5, <1>10, <2>2
<1>11. ASSUME state[t] \in {"running", "locking"}, x \in {"ok", "err"}, CountDown
       PROVE  CurCountsInFlight'
  <2>1. G = F \ {t} /\ Q = P /\ t \in F
    BY <1>11 DEF InFlight, Panicked
  <2>2. Cardinality(G) = Cardinality(F) - 1 /\ Cardinality(F) > 0
    <3>1. Cardinality(F) # 0
      BY <1>3, <2>1, FS_EmptySet
    <3> QED
      BY <1>3, <1>6, <2>1, <3>1
  <2>3. cur \in Nat /\ 0 < cur /\ cur < Modulus
    BY <1>3, <1>4, <2>2
  <2>4. cur' = cur - 1
    BY <1>11, <2>3, CountsDoNotWrap DEF CountDown
  <2> QED
    BY <1>3, <1>4, <1>5, <2>1, <2>2, <2>4
<1> QED
  BY <1>1, <1>7, <1>8, <1>9, <1>10, <1>11

\* A task that was spawned moves, main does not.
LEMMA TaskKeepsCount ==
  ASSUME CountInv, NEW t \in Tasks, TaskStep(t)
  PROVE  CountInv'
<1> DEFINE To(x) == state' = [state EXCEPT ![t] = x]
<1>1. \/ state[t] = "ready" /\ To("running") /\ CountUp
      \/ state[t] = "running" /\ To("locking") /\ cur' = cur
      \/ state[t] = "running" /\ To("panicked") /\ cur' = cur
      \/ state[t] \in {"running", "locking"} /\ (To("ok") \/ To("err")) /\ CountDown
  BY DEF TaskStep, TaskStart, TaskOk, TaskRecord, TaskErr, TaskPanic
<1>2. PICK x \in States : To(x)
  BY <1>1 DEF States
<1>3. state' \in [Tasks -> States] /\ CurCountsInFlight'
  BY <1>1, Moves DEF CountInv, States
<1>4. call' = call /\ spawned' = spawned
  BY DEF TaskStep, mainVars
<1>5. state[t] # "none"
  BY <1>1
<1>6. \A u \in Tasks : state[u] = "none" => state'[u] = "none"
  BY <1>2, <1>5 DEF CountInv
<1> QED
  BY <1>3, <1>4, <1>6 DEF CountInv

LEMMA MainKeepsCount ==
  ASSUME CountInv, MainStep
  PROVE  CountInv'
<1>1. CASE Begin
  BY <1>1 DEF Begin, taskVars, CountInv, CurCountsInFlight, InFlight, Panicked, Tasks
<1>2. CASE Spawn
  <2> DEFINE t == <<call, spawned + 1>>
  <2>1. /\ state' = [state EXCEPT ![t] = "ready"]
        /\ call' = call /\ spawned' = spawned + 1 /\ cur' = cur
    BY <1>2 DEF Spawn
  <2>2. CASE t \in Tasks
    <3>1. state[t] = "none"
      BY <2>2 DEF CountInv
    <3>2. state' \in [Tasks -> States] /\ CurCountsInFlight'
      BY <2>1, <2>2, <3>1, Moves DEF CountInv, States
    <3> QED
      BY <2>1, <3>2 DEF CountInv, Tasks
  <2>3. CASE t \notin Tasks
    <3>1. state' = state
      BY <2>1, <2>3 DEF CountInv
    <3>2. CurCountsInFlight'
      BY <2>1, <3>1 DEF CountInv, CurCountsInFlight, InFlight, Panicked
    <3>3. \A u \in Tasks :
            u[1] > call \/ (u[1] = call /\ u[2] > spawned + 1) => state[u] = "none"
      BY DEF CountInv, Tasks
    <3>4. spawned + 1 \in Nat
      BY DEF CountInv
    <3> QED
      BY <2>1, <3>1, <3>2, <3>3, <3>4 DEF CountInv
  <2> QED
    BY <2>2, <2>3
<1>3. CASE UNCHANGED <<call, spawned, state, cur>>
  BY <1>3 DEF CountInv, CurCountsInFlight, InFlight, Panicked
<1>4. (Pop \/ Throttle \/ SpawnUpdater \/ Join) => UNCHANGED <<call, spawned, state, cur>>
  BY DEF Pop, Throttle, SpawnUpdater, Join, taskVars
<1>5. (Send \/ MainWaits \/ ReadCount \/ ReadTotal) => UNCHANGED <<call, spawned, state, cur>>
  BY DEF Send, MainWaits, ReadCount, ReadTotal, taskVars
<1> QED
  BY <1>1, <1>2, <1>3, <1>4, <1>5 DEF MainStep

LEMMA CountInvariant == Spec => []CountInv
<1>1. Init => CountInv
  <2>1. Init => InFlight = {} /\ Panicked = {}
    BY DEF Init, InFlight, Panicked
  <2>2. ASSUME Init
        PROVE  CurCountsInFlight
    <3>1. Cardinality(InFlight) = 0 /\ Cardinality(Panicked) = 0
      BY <2>1, <2>2, FS_EmptySet
    <3>2. cur = 0
      BY <2>2 DEF Init
    <3> QED
      BY <3>1, <3>2 DEF CurCountsInFlight
  <2>3. Init => state \in [Tasks -> States]
    BY DEF Init, States
  <2>4. Init => \A t \in Tasks : state[t] = "none"
    BY DEF Init
  <2>5. Init => call \in Nat /\ spawned \in Nat
    BY DEF Init
  <2> QED
    BY <2>2, <2>3, <2>4, <2>5 DEF CountInv
<1>2. CountInv /\ [Next]_vars => CountInv'
  <2>1. UNCHANGED <<call, spawned, state, cur>> /\ CountInv => CountInv'
    BY DEF CountInv, CurCountsInFlight, InFlight, Panicked
  <2>2. (\E c \in 1..Calls : UpdaterStep(c)) \/ Stopped \/ UNCHANGED vars
          => UNCHANGED <<call, spawned, state, cur>>
    BY DEF UpdaterStep, Stopped, vars, mainVars, taskVars
  <2> QED
    BY <2>1, <2>2, TaskKeepsCount, MainKeepsCount DEF Next
<1> QED
  BY <1>1, <1>2, PTL DEF Spec

\* For every number of calls and tasks that fits the width of the counter, and
\* in every interleaving: CUR_TASKS is the number of tasks in flight and of
\* those that panicked (lib.rs:1034-1042).
THEOREM CounterCounts == Spec => []CurCountsInFlight
<1>1. CountInv => CurCountsInFlight
  BY DEF CountInv
<1> QED
  BY CountInvariant, <1>1, PTL

-----------------------------------------------------------------------------
(* Types, and where control can be.                                        *)

\* An updater sleeps with the mutex; a call has its result only at its end.
Control ==
  /\ call = 0 => pc = "idle"
  /\ pc = "throttle" => awaited \in Tasks
  /\ \A c \in 1..Calls : upd[c] = "sleep" => Owns(Updater(c))
  /\ pc \in {"join", "send", "count", "total"} => spawned = PerCall
  /\ \A c \in 1..Calls : c > call \/ (c = call /\ pc # "idle") => result[c] = <<>>

TypeInv == TypeOK /\ Control

\* Who may hold the mutex is told apart by name.
LEMMA Names ==
  /\ \A t \in Tasks : t # Main
  /\ \A t \in Tasks, c \in 1..Calls : t # Updater(c)
  /\ \A c \in 1..Calls : Updater(c) # Main
  /\ \A c, d \in 1..Calls : c # d => Updater(c) # Updater(d)
BY DEF Tasks, Main, Updater

\* The mutex as a queue: those who join it leave its head alone.
LEMMA Queueing ==
  ASSUME NEW S, NEW q \in Seq(S), NEW x \in S
  PROVE  /\ Append(q, x) \in Seq(S)
         /\ q # <<>> => Tail(q) \in Seq(S) /\ Append(Tail(q), x) \in Seq(S)
         /\ q # <<>> => Append(q, x) # <<>> /\ Append(q, x)[1] = q[1]
BY SMTT(30)

LEMMA InitTypes ==
  ASSUME Init
  PROVE  TypeInv
<1>1. Calls \in Nat /\ PerCall \in Nat /\ Modulus \in Nat /\ Modulus > 2
  BY BoundsAssumption, ModulusAssumption
<1>2. /\ call \in 0..Calls /\ spawned \in 0..PerCall
      /\ cur \in 0..(Modulus - 1) /\ max \in 0..(Modulus - 1)
  BY <1>1 DEF Init
<1>3. /\ state \in [Tasks -> {"none", "ready", "running", "locking", "ok", "err", "panicked"}]
      /\ took \in [Tasks -> Nat]
      /\ upd \in [1..Calls -> {"none", "ready", "lock", "sleep", "done", "panicked"}]
      /\ chan \in [1..Calls -> {"none", "open", "sent", "closed"}]
      /\ result \in [1..Calls -> {<<>>, <<"err">>} \cup (Nat \X Nat)]
  BY DEF Init
<1>4. handles \in Seq(Tasks) /\ lock \in Seq(Actors) /\ avgs \in Seq(Nat)
  BY DEF Init
<1>5. checks \in BOOLEAN
  BY DEF Init
<1>6. TypeOK
  BY <1>2, <1>3, <1>4, <1>5 DEF Init, TypeOK
<1>7. Control
  BY DEF Init, Control
<1> QED
  BY <1>6, <1>7 DEF TypeInv

\* The part of main that moves neither the mutex nor an updater.
LEMMA SpawningTypes ==
  ASSUME TypeInv, Begin \/ Spawn \/ Pop \/ Throttle, UNCHANGED checks
  PROVE  TypeInv'
<1>1. Calls \in Nat /\ PerCall \in Nat /\ Calls > 0 /\ PerCall > 0
  BY BoundsAssumption
<1>2. Control /\ TypeOK
  BY DEF TypeInv
<1>3. CASE Begin
  <2>1. call' \in 0..Calls /\ spawned' \in 0..PerCall /\ call' # 0
    BY <1>1, <1>2, <1>3 DEF Begin, TypeOK
  <2>2. handles' \in Seq(Tasks)
    BY <1>3 DEF Begin
  <2>3. TypeOK'
    BY SMTT(30), <1>2, <1>3, <2>1, <2>2 DEF Begin, TypeOK, taskVars, dataVars, updVars, Actors
  <2>4. \A c \in 1..Calls : c > call' \/ c = call' => result[c] = <<>>
    BY <1>1, <1>2, <1>3 DEF Begin, Control, TypeOK
  <2>5. Control'
    BY <1>2, <1>3, <2>1, <2>4 DEF Begin, Control, updVars, Owns
  <2> QED
    BY <2>3, <2>5 DEF TypeInv
<1>4. CASE Spawn
  <2>1. call # 0
    BY <1>2, <1>4 DEF Spawn, Control
  <2>2. <<call, spawned + 1>> \in Tasks /\ spawned' \in 0..PerCall
    BY SMTT(30), <1>1, <1>2, <1>4, <2>1 DEF Spawn, TypeOK, Tasks
  <2>3. handles' \in Seq(Tasks)
    BY <1>2, <1>4, <2>2 DEF Spawn, TypeOK
  <2>4. state' \in [Tasks -> {"none", "ready", "running", "locking", "ok", "err", "panicked"}]
    BY <1>2, <1>4 DEF Spawn, TypeOK
  <2>5. TypeOK'
    BY <1>2, <1>4, <2>2, <2>3, <2>4 DEF Spawn, TypeOK, dataVars, updVars, Actors
  <2>6. Control'
    BY <1>2, <1>4, <2>1 DEF Spawn, Control, updVars, Owns
  <2> QED
    BY <2>5, <2>6 DEF TypeInv
<1>5. CASE Pop
  <2>1. handles' \in Seq(Tasks) /\ awaited' \in Tasks \cup {NoTask}
    <3>1. CASE handles = <<>>
      BY <1>2, <1>5, <3>1 DEF Pop, TypeOK
    <3>2. CASE handles # <<>>
      <4>1. handles \in Seq(Tasks) /\ Len(handles) \in Nat /\ Len(handles) > 0
        BY <1>2, <3>2 DEF TypeOK
      <4>2. SubSeq(handles, 1, Len(handles) - 1) \in Seq(Tasks) /\ handles[Len(handles)] \in Tasks
        BY SMTT(30), <4>1
      <4> QED
        BY <1>5, <3>2, <4>2 DEF Pop
    <3> QED
      BY <3>1, <3>2
  <2>2. pc' = "throttle" => awaited' \in Tasks
    <3>1. handles # <<>> => handles[Len(handles)] \in Tasks
      BY <1>2 DEF TypeOK
    <3> QED
      BY <1>5, <3>1 DEF Pop
  <2>3. TypeOK'
    BY SMTT(30), <1>2, <1>5, <2>1 DEF Pop, TypeOK, taskVars, dataVars, updVars, Actors
  <2>4. Control'
    BY <1>2, <1>5, <2>2 DEF Pop, Control, updVars, Owns
  <2> QED
    BY <2>3, <2>4 DEF TypeInv
<1>6. CASE Throttle
  <2>1. result' \in [1..Calls -> {<<>>, <<"err">>} \cup (Nat \X Nat)]
    BY SMTT(30), <1>2, <1>6 DEF Throttle, Fail, TypeOK
  <2>2. TypeOK'
    BY <1>2, <1>6, <2>1 DEF Throttle, Fail, TypeOK, taskVars, dataVars, updVars, Actors
  <2>3. \A c \in 1..Calls : c > call \/ (c = call /\ pc' # "idle") => result'[c] = <<>>
    BY SMTT(30), <1>1, <1>2, <1>6 DEF Throttle, Fail, Control, TypeOK
  <2>4. call # 0 /\ pc' \in {"idle", "pop", "spawn"}
    BY <1>2, <1>6 DEF Throttle, Fail, Control
  <2>5. Control'
    BY <1>2, <1>6, <2>3, <2>4 DEF Throttle, Control, updVars, Owns
  <2> QED
    BY <2>2, <2>5 DEF TypeInv
<1> QED
  BY <1>3, <1>4, <1>5, <1>6

LEMMA JoiningTypes ==
  ASSUME TypeInv, SpawnUpdater \/ Join \/ Send, UNCHANGED checks
  PROVE  TypeInv'
<1>1. Control /\ TypeOK
  BY DEF TypeInv
<1>2. CASE SpawnUpdater
  <2>1. /\ upd' \in [1..Calls -> {"none", "ready", "lock", "sleep", "done", "panicked"}]
        /\ chan' \in [1..Calls -> {"none", "open", "sent", "closed"}]
        /\ \A c \in 1..Calls : upd'[c] = "sleep" => upd[c] = "sleep"
    BY <1>1, <1>2 DEF SpawnUpdater, TypeOK
  <2>2. TypeOK'
    BY <1>1, <1>2, <2>1 DEF SpawnUpdater, TypeOK, taskVars, dataVars, Actors
  <2>3. Control'
    BY <1>1, <1>2, <2>1 DEF SpawnUpdater, Control, Owns
  <2> QED
    BY <2>2, <2>3 DEF TypeInv
<1>3. CASE Join
  <2>1. handles' \in Seq(Tasks)
    <3>1. handles # <<>> => Tail(handles) \in Seq(Tasks)
      BY <1>1 DEF TypeOK
    <3> QED
      BY <1>1, <1>3, <3>1 DEF Join, TypeOK
  <2>2. /\ result' \in [1..Calls -> {<<>>, <<"err">>} \cup (Nat \X Nat)]
        /\ chan' \in [1..Calls -> {"none", "open", "sent", "closed"}]
        /\ pc' \in {"join", "send", "idle"}
    BY SMTT(30), <1>1, <1>3 DEF Join, Fail, TypeOK
  <2>3. TypeOK'
    BY SMTT(30), <1>1, <1>3, <2>1, <2>2 DEF Join, TypeOK, taskVars, dataVars, Actors
  <2>4. \A c \in 1..Calls : c > call \/ (c = call /\ pc' # "idle") => result'[c] = <<>>
    <3>1. pc # "idle" /\ pc' # "idle" => result' = result
      BY <1>3 DEF Join, Fail
    <3>2. \A c \in 1..Calls : c # call => result'[c] = result[c]
      BY <1>1, <1>3 DEF Join, Fail, TypeOK
    <3>3. \A c \in 1..Calls : c > call \/ c = call => result[c] = <<>>
      BY <1>1, <1>3 DEF Join, Control
    <3>4. \A c \in 1..Calls : c > call => c # call
      BY <1>1 DEF TypeOK
    <3>5. pc # "idle"
      BY <1>3 DEF Join
    <3> QED
      BY <3>1, <3>2, <3>3, <3>4, <3>5
  <2>5. call # 0 /\ spawned = PerCall
    BY <1>1, <1>3 DEF Join, Control
  <2>6. Control'
    BY <1>1, <1>3, <2>2, <2>4, <2>5 DEF Join, Control, Owns
  <2> QED
    BY <2>3, <2>6 DEF TypeInv
<1>4. CASE Send
  <2>1. /\ result' \in [1..Calls -> {<<>>, <<"err">>} \cup (Nat \X Nat)]
        /\ chan' \in [1..Calls -> {"none", "open", "sent", "closed"}]
        /\ pc' \in {"count", "idle"}
    BY <1>1, <1>4 DEF Send, Fail, TypeOK
  <2>2. TypeOK'
    BY SMTT(30), <1>1, <1>4, <2>1 DEF Send, TypeOK, taskVars, dataVars, Actors
  <2>3. \A c \in 1..Calls : c > call \/ (c = call /\ pc' # "idle") => result'[c] = <<>>
    <3>1. pc # "idle" /\ pc' # "idle" => result' = result
      BY <1>4 DEF Send, Fail
    <3>2. \A c \in 1..Calls : c # call => result'[c] = result[c]
      BY <1>1, <1>4 DEF Send, Fail, TypeOK
    <3>3. \A c \in 1..Calls : c > call \/ c = call => result[c] = <<>>
      BY <1>1, <1>4 DEF Send, Control
    <3>4. \A c \in 1..Calls : c > call => c # call
      BY <1>1 DEF TypeOK
    <3>5. pc # "idle"
      BY <1>4 DEF Send
    <3> QED
      BY <3>1, <3>2, <3>3, <3>4, <3>5
  <2>4. call # 0 /\ spawned = PerCall
    BY <1>1, <1>4 DEF Send, Control
  <2>5. Control'
    BY <1>1, <1>4, <2>1, <2>3, <2>4 DEF Send, Control, Owns
  <2> QED
    BY <2>2, <2>5 DEF TypeInv
<1> QED
  BY <1>2, <1>3, <1>4

\* Main at the mutex: it takes and releases it in one stretch.
LEMMA MainAtLock ==
  ASSUME TypeInv, MainHasLock
  PROVE  /\ lock' \in Seq(Actors)
         /\ \A c \in 1..Calls : Owns(Updater(c)) => Owns(Updater(c))'
<1>1. lock \in Seq(Actors)
  BY DEF TypeInv, TypeOK
<1>2. CASE lock = <<>> /\ UNCHANGED lock
  BY <1>1, <1>2 DEF Owns
<1>3. CASE Owns(Main) /\ lock' = Tail(lock)
  <2>1. lock' \in Seq(Actors)
    BY <1>1, <1>3 DEF Owns
  <2>2. \A c \in 1..Calls : ~Owns(Updater(c))
    BY <1>3, Names DEF Owns
  <2> QED
    BY <2>1, <2>2
<1> QED
  BY <1>2, <1>3 DEF MainHasLock

LEMMA ReadingTypes ==
  ASSUME TypeInv, MainWaits \/ ReadCount \/ ReadTotal, UNCHANGED checks
  PROVE  TypeInv'
<1>1. Control /\ TypeOK /\ lock \in Seq(Actors)
  BY DEF TypeInv, TypeOK
<1>2. CASE MainWaits
  <2>1. /\ lock' \in Seq(Actors)
        /\ \A c \in 1..Calls : Owns(Updater(c)) => Owns(Updater(c))'
    <3>1. Main \in Actors /\ lock # <<>> /\ lock' = Append(lock, Main)
      BY <1>2 DEF MainWaits, Actors
    <3>2. lock' \in Seq(Actors) /\ lock' # <<>> /\ lock'[1] = lock[1]
      BY <1>1, <3>1, Queueing
    <3> QED
      BY <3>2 DEF Owns
  <2>2. TypeOK'
    BY <1>1, <1>2, <2>1 DEF MainWaits, TypeOK, taskVars, dataVars, updVars, Actors
  <2>3. Control'
    BY <1>1, <1>2, <2>1 DEF MainWaits, Control, updVars
  <2> QED
    BY <2>2, <2>3 DEF TypeInv
<1>3. CASE ReadCount
  <2>1. /\ lock' \in Seq(Actors)
        /\ \A c \in 1..Calls : Owns(Updater(c)) => Owns(Updater(c))'
    BY <1>3, MainAtLock DEF ReadCount
  <2>2. TypeOK'
    BY SMTT(30), <1>1, <1>3, <2>1 DEF ReadCount, TypeOK, taskVars, dataVars, updVars, Actors
  <2>3. Control'
    BY <1>1, <1>3, <2>1 DEF ReadCount, Control, updVars
  <2> QED
    BY <2>2, <2>3 DEF TypeInv
<1>4. CASE ReadTotal
  <2>1. /\ lock' \in Seq(Actors)
        /\ \A c \in 1..Calls : Owns(Updater(c)) => Owns(Updater(c))'
    BY <1>4, MainAtLock DEF ReadTotal
  <2>2. result' \in [1..Calls -> {<<>>, <<"err">>} \cup (Nat \X Nat)]
    BY <1>1, <1>4 DEF ReadTotal, TypeOK
  <2>3. TypeOK'
    BY <1>1, <1>4, <2>1, <2>2 DEF ReadTotal, TypeOK, taskVars, dataVars, updVars, Actors
  <2>4. \A c \in 1..Calls : c > call => result'[c] = <<>>
    BY <1>1, <1>4 DEF ReadTotal, Control, TypeOK
  <2>5. Control'
    BY <1>1, <1>4, <2>1, <2>4 DEF ReadTotal, Control, updVars
  <2> QED
    BY <2>3, <2>5 DEF TypeInv
<1> QED
  BY <1>2, <1>3, <1>4

\* A new average is a natural number, and the queue keeps to them.
LEMMA RecordTypes ==
  ASSUME TypeOK, NEW d \in Nat, Record(d)
  PROVE  count' \in Nat /\ total' \in Nat /\ avgs' \in Seq(Nat)
<1> DEFINE a == (total + d) \div (count + 1)
           queue == Append(avgs, a)
           n == IF Len(queue) > QueueMax THEN QueueMax ELSE Len(queue)
<1>1. count' = count + 1 /\ total' = total + d /\ avgs' = SubSeq(queue, 1, n)
  BY DEF Record
<1>2. count \in Nat /\ total \in Nat /\ avgs \in Seq(Nat)
  BY DEF TypeOK
<1>3. a \in Nat
  BY <1>2
<1> HIDE DEF a
<1>4. queue \in Seq(Nat) /\ Len(queue) = Len(avgs) + 1 /\ Len(avgs) \in Nat
  BY <1>2, <1>3
<1>5. n \in 1..Len(queue)
  BY <1>4, QueueAssumption
<1> HIDE DEF queue, n
<1>6. SubSeq(queue, 1, n) \in Seq(Nat)
  BY SMTT(30), <1>4, <1>5
<1> QED
  BY <1>1, <1>2, <1>6

LEMMA CountsInRange ==
  ASSUME cur \in 0..(Modulus - 1)
  PROVE  CountUp \/ CountDown => cur' \in 0..(Modulus - 1)
<1>1. Modulus \in Nat /\ Modulus > 0
  BY ModulusAssumption
<1>2. \A n \in Int : n % Modulus \in 0..(Modulus - 1)
  BY <1>1
<1>3. cur + 1 \in Int /\ cur + Modulus - 1 \in Int
  BY <1>1
<1> QED
  BY <1>2, <1>3 DEF CountUp, CountDown

LEMMA TaskTypes ==
  ASSUME TypeInv, NEW t \in Tasks, TaskStep(t)
  PROVE  TypeInv'
<1> DEFINE A == TaskStart(t) \/ TaskErr(t) \/ TaskPanic(t)
<1>1. Control /\ TypeOK /\ lock \in Seq(Actors) /\ t \in Actors
  BY DEF TypeInv, TypeOK, Actors
<1>2. A \/ TaskOk(t) \/ TaskRecord(t)
  BY DEF TaskStep
<1>3. UNCHANGED <<checks, call, pc, handles, spawned, awaited, seen, result, upd, chan, max>>
  BY DEF TaskStep, mainVars, updVars
<1>4. cur' \in 0..(Modulus - 1)
  <2>1. CountUp \/ CountDown \/ cur' = cur
    BY <1>2 DEF TaskStart, TaskErr, TaskPanic, TaskOk, TaskRecord
  <2> QED
    BY <1>1, <2>1, CountsInRange DEF TypeOK
<1>5. state' \in [Tasks -> {"none", "ready", "running", "locking", "ok", "err", "panicked"}]
  <2>1. \E x \in {"running", "locking", "ok", "err", "panicked"} : state' = [state EXCEPT ![t] = x]
    BY <1>2 DEF TaskStart, TaskErr, TaskPanic, TaskOk, TaskRecord
  <2> QED
    BY <1>1, <2>1 DEF TypeOK
<1>6. /\ took' \in [Tasks -> Nat]
      /\ count' \in Nat /\ total' \in Nat /\ avgs' \in Seq(Nat)
  <2>1. CASE A
    BY <1>1, <2>1 DEF TaskStart, TaskErr, TaskPanic, TypeOK, dataVars
  <2>2. CASE TaskOk(t)
    <3>1. PICK d \in Durations :
            /\ took' = [took EXCEPT ![t] = d]
            /\ Record(d) \/ UNCHANGED dataVars
      BY <2>2 DEF TaskOk
    <3>2. d \in Nat
      BY DurationsAssumption
    <3>3. took' \in [Tasks -> Nat]
      BY <1>1, <3>1, <3>2 DEF TypeOK
    <3>4. count' \in Nat /\ total' \in Nat /\ avgs' \in Seq(Nat)
      BY <1>1, <3>1, <3>2, RecordTypes DEF TypeOK, dataVars
    <3> QED
      BY <3>3, <3>4
  <2>3. CASE TaskRecord(t)
    <3>1. Record(took[t]) /\ took[t] \in Nat /\ took' = took
      BY <1>1, <2>3 DEF TaskRecord, TypeOK
    <3>2. count' \in Nat /\ total' \in Nat /\ avgs' \in Seq(Nat)
      BY <1>1, <3>1, RecordTypes
    <3> QED
      BY <1>1, <3>1, <3>2 DEF TypeOK
  <2> QED
    BY <1>2, <2>1, <2>2, <2>3
<1>7. /\ lock' \in Seq(Actors)
      /\ \A c \in 1..Calls : Owns(Updater(c)) => Owns(Updater(c))'
  <2>1. \/ lock' = lock
        \/ lock # <<>> /\ lock' = Append(lock, t)
        \/ Owns(t) /\ lock' = Tail(lock)
    BY <1>2 DEF TaskStart, TaskErr, TaskPanic, TaskOk, TaskRecord
  <2>2. CASE lock' = lock
    BY <1>1, <2>2 DEF Owns
  <2>3. CASE lock # <<>> /\ lock' = Append(lock, t)
    <3>1. lock' \in Seq(Actors) /\ lock' # <<>> /\ lock'[1] = lock[1]
      BY <1>1, <2>3, Queueing
    <3> QED
      BY <3>1 DEF Owns
  <2>4. CASE Owns(t) /\ lock' = Tail(lock)
    <3>1. lock' \in Seq(Actors)
      BY <1>1, <2>4 DEF Owns
    <3>2. \A c \in 1..Calls : ~Owns(Updater(c))
      BY <2>4, Names DEF Owns
    <3> QED
      BY <3>1, <3>2
  <2> QED
    BY <2>1, <2>2, <2>3, <2>4
<1>8. TypeOK'
  BY <1>1, <1>3, <1>4, <1>5, <1>6, <1>7 DEF TypeOK, Actors
<1>9. Control'
  BY <1>1, <1>3, <1>7 DEF Control
<1> QED
  BY <1>8, <1>9 DEF TypeInv

LEMMA UpdaterTypes ==
  ASSUME TypeInv, NEW c \in 1..Calls, UpdaterStep(c)
  PROVE  TypeInv'
<1> DEFINE Kept == \A d \in 1..Calls : upd'[d] = "sleep" => Owns(Updater(d))'
<1>1. Control /\ TypeOK /\ lock \in Seq(Actors) /\ Updater(c) \in Actors
  BY DEF TypeInv, TypeOK, Actors
<1>2. UNCHANGED <<checks, call, pc, handles, spawned, awaited, seen, result, state, took, cur,
                  count, total, avgs, chan>>
  BY DEF UpdaterStep, mainVars, taskVars, dataVars, UpdaterStart, UpdaterAdjust, UpdaterWake
<1>3. \E x \in {"lock", "sleep", "done", "panicked"} : upd' = [upd EXCEPT ![c] = x]
  BY DEF UpdaterStep, UpdaterStart, UpdaterAdjust, UpdaterWake
<1>4. max' \in 0..(Modulus - 1)
  <2>1. Modulus \in Nat /\ Modulus > 0
    BY ModulusAssumption
  <2>2. \A n \in Int : n % Modulus \in 0..(Modulus - 1)
    BY <2>1
  <2>3. max \in 0..(Modulus - 1)
    BY <1>1 DEF TypeOK
  <2>4. 2 * max \in Int /\ max + Modulus - 1 \in Int
    BY <2>1, <2>3
  <2>5. \/ max' = max
        \/ max' = (2 * max) % Modulus
        \/ max' = (max + Modulus - 1) % Modulus
    BY DEF UpdaterStep, UpdaterStart, UpdaterAdjust, UpdaterWake
  <2> QED
    BY <2>2, <2>3, <2>4, <2>5
<1>5. \A d \in 1..Calls : d # c => upd'[d] = upd[d]
  BY <1>1, <1>3 DEF TypeOK
<1>6. lock' \in Seq(Actors) /\ Kept
  <2>1. CASE UpdaterStart(c)
    <3>1. upd'[c] = "lock" /\ lock' = Append(lock, Updater(c))
      BY <1>1, <2>1 DEF UpdaterStart, TypeOK
    <3>2. lock' \in Seq(Actors) /\ (lock # <<>> => lock' # <<>> /\ lock'[1] = lock[1])
      BY <1>1, <3>1, Queueing
    <3> QED
      BY <1>1, <1>5, <3>1, <3>2 DEF Control, Owns
  <2>2. CASE UpdaterAdjust(c)
    <3>1. Owns(Updater(c)) /\ \A d \in 1..Calls : d # c => upd[d] # "sleep"
      BY <1>1, <2>2, Names DEF UpdaterAdjust, Control, Owns
    <3>2. (upd'[c] = "sleep" /\ lock' = lock) \/ (upd'[c] = "panicked" /\ lock' = Tail(lock))
      BY <1>1, <2>2 DEF UpdaterAdjust, TypeOK
    <3>3. lock' \in Seq(Actors)
      BY SMTT(30), <1>1, <3>1, <3>2 DEF Owns
    <3> QED
      BY <1>5, <3>1, <3>2, <3>3 DEF Owns
  <2>3. CASE UpdaterWake(c)
    <3>1. Owns(Updater(c)) /\ \A d \in 1..Calls : d # c => upd[d] # "sleep"
      BY <1>1, <2>3, Names DEF UpdaterWake, Control, Owns
    <3>2. /\ upd'[c] # "sleep"
          /\ lock' = Tail(lock) \/ lock' = Append(Tail(lock), Updater(c))
      BY <1>1, <2>3 DEF UpdaterWake, TypeOK
    <3>3. lock' \in Seq(Actors)
      BY SMTT(30), <1>1, <3>1, <3>2, Queueing DEF Owns
    <3> QED
      BY <1>5, <3>1, <3>2, <3>3
  <2> QED
    BY <2>1, <2>2, <2>3 DEF UpdaterStep
<1>7. upd' \in [1..Calls -> {"none", "ready", "lock", "sleep", "done", "panicked"}]
  BY <1>1, <1>3 DEF TypeOK
<1>8. TypeOK'
  BY <1>1, <1>2, <1>4, <1>6, <1>7 DEF TypeOK, Actors
<1>9. Control'
  BY <1>1, <1>2, <1>6 DEF Control
<1> QED
  BY <1>8, <1>9 DEF TypeInv

LEMMA PoolTyped == Spec => []TypeInv
<1>1. Init => TypeInv
  BY InitTypes
<1>2. TypeInv /\ [Next]_vars => TypeInv'
  <2>1. ASSUME TypeInv, UNCHANGED vars
        PROVE  TypeInv'
    BY SMTT(30), <2>1 DEF TypeInv, TypeOK, Control, Owns, vars, Actors
  <2> QED
    BY <2>1, SpawningTypes, JoiningTypes, ReadingTypes, TaskTypes, UpdaterTypes
       DEF Next, MainStep, Stopped
<1> QED
  BY <1>1, <1>2, PTL DEF Spec

\* For every number of calls and tasks: the variables keep their types, and
\* CUR_TASKS and MAX_TASKS the width of an AtomicU32 (lib.rs:65-66).
THEOREM PoolTypes == Spec => []TypeOK
<1>1. TypeInv => TypeOK
  BY DEF TypeInv
<1> QED
  BY PoolTyped, <1>1, PTL

-----------------------------------------------------------------------------
(* What a call leaves behind when no task panicked.                        *)

Over(t) == state[t] \in {"ok", "err"}

\* Main still has the handle of t.
Held(t) ==
  \/ \E i \in 1..Len(handles) : handles[i] = t
  \/ pc = "throttle" /\ awaited = t

\* Task k of this call is over.
Done(k) == Over(<<call, k>>)
Settled(k) == Done(k) \/ Held(<<call, k>>)

\* Main gives up a handle only for a task that is over, so that nothing of an
\* earlier call runs beside it; an empty task_queue means that nothing is in
\* flight, and then the throttle holds back only for a MAX_TASKS of 0.
Accounted ==
  /\ \A t \in Tasks : t[1] < call => Over(t)
  /\ pc # "crashed" => \A k \in 1..spawned : Settled(k)
  /\ pc \in {"send", "count", "total", "idle"} /\ call > 0 => \A k \in 1..PerCall : Done(k)
  /\ pc = "pop" => handles # <<>> \/ max = 0
  /\ pc = "crashed" => max = 0

\* Both numbers are of the moment at which all tasks were over.
Reported ==
  /\ pc = "total" => seen = count
  /\ pc = "idle" /\ call > 0 => result[call] \in {<<"err">>, <<count, total>>}

PoolInv == TypeInv /\ CountInv /\ (Panicked = {} => Accounted /\ Reported)

\* No step brings a panicked task back, and a task that is over stays so.
LEMMA OverStays ==
  ASSUME PoolInv, [Next]_vars, Panicked' = {}
  PROVE  Panicked = {} /\ \A t \in Tasks : Over(t) => Over(t)'
<1>1. TypeOK /\ CountInv /\ Control
  BY DEF PoolInv, TypeInv
<1>2. \A t \in Tasks : state'[t] # "panicked"
  BY DEF Panicked
<1>3. \A t \in Tasks : (state[t] = "panicked" => state'[t] = "panicked") /\ (Over(t) => Over(t)')
  <2>1. CASE Spawn
    <3>1. state' = [state EXCEPT ![<<call, spawned + 1>>] = "ready"]
      BY <2>1 DEF Spawn
    <3>2. spawned \in Nat /\ \A t \in Tasks : t = <<call, spawned + 1>> => state[t] = "none"
      BY <1>1 DEF CountInv
    <3> QED
      BY SMTT(30), <1>1, <3>1, <3>2 DEF TypeOK, Over
  <2>2. ASSUME NEW t \in Tasks, TaskStep(t)
        PROVE  \A u \in Tasks :
                 (state[u] = "panicked" => state'[u] = "panicked") /\ (Over(u) => Over(u)')
    <3>1. state[t] \in {"ready", "running", "locking"}
      BY <2>2 DEF TaskStep, TaskStart, TaskErr, TaskPanic, TaskOk, TaskRecord
    <3>2. \A u \in Tasks : u # t => state'[u] = state[u]
      BY SMTT(30), <1>1, <2>2 DEF TaskStep, TaskStart, TaskErr, TaskPanic, TaskOk, TaskRecord, TypeOK
    <3> QED
      BY <3>1, <3>2 DEF Over
  <2>3. CASE UNCHANGED state
    BY <2>3 DEF Over
  <2>4. Begin \/ Pop \/ Throttle \/ SpawnUpdater \/ Join => UNCHANGED state
    BY DEF Begin, Pop, Throttle, SpawnUpdater, Join, taskVars
  <2>5. Send \/ MainWaits \/ ReadCount \/ ReadTotal => UNCHANGED state
    BY DEF Send, MainWaits, ReadCount, ReadTotal, taskVars
  <2>6. (\E c \in 1..Calls : UpdaterStep(c)) \/ Stopped \/ UNCHANGED vars => UNCHANGED state
    BY DEF UpdaterStep, Stopped, vars, taskVars
  <2> QED
    BY <2>1, <2>2, <2>3, <2>4, <2>5, <2>6 DEF Next, MainStep
<1> QED
  BY <1>2, <1>3 DEF Panicked

\* Where every task that was spawned is over, no task moves.
LEMMA AllOverNoStep ==
  ASSUME PoolInv, Panicked = {}, NEW t \in Tasks,
         pc \in {"send", "count", "total", "idle"}, call > 0
  PROVE  ~TaskStep(t)
<1>1. call \in Nat /\ t[1] \in Nat /\ t[2] \in 1..PerCall /\ t = <<t[1], t[2]>>
  BY BoundsAssumption DEF PoolInv, CountInv, Tasks
<1>2. t[1] < call => Over(t)
  BY DEF PoolInv, Accounted
<1>3. t[1] = call => Over(t)
  BY <1>1 DEF PoolInv, Accounted, Settled, Done, Over
<1>4. t[1] > call => state[t] = "none"
  BY DEF PoolInv, CountInv
<1>5. state[t] \in {"ok", "err", "none"}
  BY <1>1, <1>2, <1>3, <1>4 DEF Over
<1> QED
  BY <1>5 DEF TaskStep, TaskStart, TaskErr, TaskPanic, TaskOk, TaskRecord

\* With the handles gone, nothing is in flight and nothing counted.
LEMMA EmptyMeansIdle ==
  ASSUME PoolInv, Panicked = {}, \A t \in Tasks : t[1] < call => Over(t),
         \A k \in 1..spawned : Over(<<call, k>>), Full
  PROVE  max = 0
<1>1. TypeOK /\ CountInv
  BY DEF PoolInv, TypeInv
<1>2. ASSUME NEW t \in Tasks
      PROVE  t \notin InFlight
  <2>1. t[1] \in Nat /\ t[2] \in Nat /\ t[2] > 0 /\ t = <<t[1], t[2]>> /\ call \in Nat /\ spawned \in Nat
    BY <1>1 DEF Tasks, CountInv
  <2>2. t[1] > call \/ (t[1] = call /\ t[2] > spawned) => state[t] = "none"
    BY <1>1 DEF CountInv
  <2>3. t[1] = call /\ t[2] <= spawned => Over(t)
    <3>1. ASSUME t[1] = call, t[2] <= spawned
          PROVE  Over(t)
      <4>1. t[2] \in 1..spawned
        BY <2>1, <3>1
      <4>2. Over(<<call, t[2]>>)
        BY <4>1
      <4> QED
        BY <2>1, <3>1, <4>2
    <3> QED
      BY <3>1
  <2>4. state[t] \in {"none", "ok", "err"}
    BY <2>1, <2>2, <2>3 DEF Over
  <2> QED
    BY <2>4 DEF InFlight
<1>3. InFlight = {}
  BY <1>2 DEF InFlight
<1>4. Cardinality(InFlight) = 0 /\ Cardinality(Panicked) = 0
  BY <1>3, FS_EmptySet
<1>5. cur = 0
  BY <1>1, <1>4 DEF CountInv, CurCountsInFlight
<1> QED
  BY <1>1, <1>5, ModulusAssumption DEF Full, TypeOK

LEMMA FinishedOver ==
  ASSUME Panicked = {}, NEW t \in Tasks, Finished(t)
  PROVE  Over(t) /\ state[t] # "panicked"
BY DEF Panicked, Finished, Over

LEMMA BeginAccounts ==
  ASSUME PoolInv, Begin, UNCHANGED checks, Panicked' = {}
  PROVE  Accounted' /\ Reported'
<1>1. Panicked = {} /\ \A t \in Tasks : Over(t) => Over(t)'
  BY OverStays DEF Next, MainStep
<1>2. Accounted /\ TypeOK
  BY <1>1 DEF PoolInv, TypeInv
<1>3. call' = call + 1 /\ pc = "idle" /\ pc' = "spawn" /\ spawned' = 0 /\ call \in Nat
  BY <1>2, BoundsAssumption DEF Begin, TypeOK
<1>4. ASSUME NEW t \in Tasks, t[1] < call'
      PROVE  Over(t)
  <2>1. t[1] \in Nat /\ t[1] > 0 /\ t[2] \in 1..PerCall /\ t = <<t[1], t[2]>>
    BY DEF Tasks
  <2>2. t[1] < call => Over(t)
    BY <1>2 DEF Accounted
  <2>3. t[1] = call => Over(t)
    BY <1>2, <1>3, <2>1 DEF Accounted, Settled, Done, Over
  <2> QED
    BY <1>3, <1>4, <2>1, <2>2, <2>3
<1> QED
  BY <1>1, <1>3, <1>4 DEF Accounted, Reported

LEMMA SpawnAccounts ==
  ASSUME PoolInv, Spawn, UNCHANGED checks, Panicked' = {}
  PROVE  Accounted' /\ Reported'
<1>1. Panicked = {} /\ \A t \in Tasks : Over(t) => Over(t)'
  BY OverStays DEF Next, MainStep
<1>2. Accounted /\ TypeOK /\ Control
  BY <1>1 DEF PoolInv, TypeInv
<1>3. /\ call' = call /\ call \in 1..Calls /\ spawned' = spawned + 1 /\ spawned \in Nat
      /\ spawned < PerCall /\ pc = "spawn" /\ pc' \in {"spawn", "pop"}
      /\ handles \in Seq(Tasks) /\ handles' = Append(handles, <<call, spawned + 1>>)
      /\ PerCall \in Nat
  BY <1>2, BoundsAssumption DEF Spawn, TypeOK, Control
<1>4. /\ Len(handles') = Len(handles) + 1 /\ Len(handles) \in Nat
      /\ handles'[Len(handles) + 1] = <<call, spawned + 1>>
      /\ \A i \in 1..Len(handles) : handles'[i] = handles[i]
  BY <1>3
<1>5. \A k \in 1..spawned : <<call, k>> \in Tasks
  BY <1>3 DEF Tasks
<1>6. ASSUME NEW k \in 1..spawned'
      PROVE  Settled(k)'
  <2>1. CASE k = spawned + 1
    <3>1. Len(handles') \in 1..Len(handles') /\ handles'[Len(handles')] = <<call', k>>
      BY <1>3, <1>4, <2>1
    <3> QED
      BY <3>1 DEF Held, Settled, Done, Over
  <2>2. CASE k # spawned + 1
    <3>1. k \in 1..spawned
      BY <1>3, <1>6, <2>2
    <3>2. Over(<<call, k>>) \/ Held(<<call, k>>)
      BY <1>2, <1>3, <3>1 DEF Accounted, Settled, Done, Over
    <3>3. CASE Over(<<call, k>>)
      BY <1>1, <1>3, <1>5, <3>1, <3>3 DEF Settled, Done, Over
    <3>4. CASE Held(<<call, k>>)
      <4>1. PICK i \in 1..Len(handles) : handles[i] = <<call, k>>
        BY <1>3, <3>4 DEF Held
      <4>2. i \in 1..Len(handles') /\ handles'[i] = <<call', k>>
        BY <1>3, <1>4, <4>1
      <4> QED
        BY <4>2 DEF Held, Settled, Done, Over
    <3> QED
      BY <3>2, <3>3, <3>4
  <2> QED
    BY <2>1, <2>2
<1>7. handles' # <<>>
  BY <1>3
<1>8. \A t \in Tasks : t[1] < call' => Over(t)'
  BY <1>1, <1>2, <1>3 DEF Accounted
<1> QED
  BY <1>3, <1>6, <1>7, <1>8 DEF Accounted, Reported

LEMMA PopAccounts ==
  ASSUME PoolInv, Pop, UNCHANGED checks, Panicked' = {}
  PROVE  Accounted' /\ Reported'
<1>1. Panicked = {} /\ \A t \in Tasks : Over(t) => Over(t)'
  BY OverStays DEF Next, MainStep
<1>2. Accounted /\ TypeOK
  BY <1>1 DEF PoolInv, TypeInv
<1>3. call' = call /\ spawned' = spawned /\ max' = max /\ pc = "pop" /\ handles \in Seq(Tasks)
  BY <1>2 DEF Pop, TypeOK, updVars
<1>4. \A t \in Tasks : t[1] < call' => Over(t)'
  BY <1>1, <1>2, <1>3 DEF Accounted
<1>5. CASE handles = <<>>
  <2>1. pc' = "crashed" /\ max' = 0
    BY <1>2, <1>3, <1>5 DEF Pop, Accounted
  <2> QED
    BY <1>4, <2>1 DEF Accounted, Reported
<1>6. CASE handles # <<>>
  <2> DEFINE n == Len(handles)
  <2>1. /\ pc' = "throttle" /\ awaited' = handles[n]
        /\ handles' = SubSeq(handles, 1, n - 1)
    BY <1>6 DEF Pop
  <2>2. n \in Nat /\ n > 0
    BY <1>3, <1>6
  <2>3. Len(handles') = n - 1 /\ \A i \in 1..(n - 1) : handles'[i] = handles[i]
    <3>1. \A i \in 1..(n - 1) : handles[i] \in Tasks
      BY <1>3, <2>2
    <3> HIDE DEF n
    <3>2. /\ Len(SubSeq(handles, 1, n - 1)) = IF 1 <= n - 1 THEN n - 1 - 1 + 1 ELSE 0
          /\ \A i \in 1..(n - 1 - 1 + 1) : SubSeq(handles, 1, n - 1)[i] = handles[1 + i - 1]
      BY <2>2, <3>1, SubSeqProperties
    <3> QED
      BY <2>1, <2>2, <3>2
  <2> HIDE DEF n
  <2>4. ASSUME NEW k \in 1..spawned'
        PROVE  Settled(k)'
    <3>1. Over(<<call, k>>) \/ Held(<<call, k>>)
      BY <1>2, <1>3 DEF Accounted, Settled, Done, Over
    <3>2. CASE Over(<<call, k>>)
      <4>1. Over(<<call, k>>)'
        BY <3>2, <1>3 DEF Pop, Over, taskVars
      <4> QED
        BY <1>3, <4>1 DEF Settled, Done, Over
    <3>3. CASE Held(<<call, k>>)
      <4>1. PICK i \in 1..n : handles[i] = <<call, k>>
        BY <1>3, <3>3 DEF Held, n, Settled, Done, Over
      <4>2. i = n \/ i \in 1..(n - 1)
        BY <2>2
      <4>3. CASE i = n
        BY <1>3, <2>1, <4>1, <4>3 DEF Held, Settled, Done, Over
      <4>4. CASE i \in 1..(n - 1)
        <5>1. i \in 1..Len(handles') /\ handles'[i] = <<call', k>>
          BY <1>3, <2>2, <2>3, <4>1, <4>4
        <5> QED
          BY <5>1 DEF Held, Settled, Done, Over
      <4> QED
        BY <4>2, <4>3, <4>4
    <3> QED
      BY <3>1, <3>2, <3>3
  <2> QED
    BY <1>4, <2>1, <2>4 DEF Accounted, Reported
<1> QED
  BY <1>5, <1>6

LEMMA ThrottleAccounts ==
  ASSUME PoolInv, Throttle, UNCHANGED checks, Panicked' = {}
  PROVE  Accounted' /\ Reported'
<1>1. Panicked = {} /\ \A t \in Tasks : Over(t) => Over(t)'
  BY OverStays DEF Next, MainStep
<1>2. Accounted /\ TypeOK /\ Control
  BY <1>1 DEF PoolInv, TypeInv
<1>3. /\ call' = call /\ spawned' = spawned /\ max' = max /\ handles' = handles
      /\ state' = state /\ pc = "throttle" /\ awaited \in Tasks
  BY <1>2 DEF Throttle, Control, updVars, taskVars
<1>4. Over(awaited) /\ pc' = (IF Full THEN "pop" ELSE "spawn")
  BY <1>1, <1>3, FinishedOver DEF Throttle
<1>5. \A t \in Tasks : t[1] < call' => Over(t)'
  BY <1>1, <1>2, <1>3 DEF Accounted
<1>6. \A k \in 1..spawned :
        Over(<<call, k>>) \/ \E i \in 1..Len(handles) : handles[i] = <<call, k>>
  BY <1>2, <1>3, <1>4 DEF Accounted, Held, Settled, Done, Over
<1>7. \A k \in 1..spawned' : Settled(k)'
  BY <1>3, <1>6 DEF Held, Over, Settled, Done
<1>8. ASSUME handles = <<>>, Full
      PROVE  max = 0
  <2>1. \A k \in 1..spawned : Over(<<call, k>>)
    BY <1>6, <1>8
  <2>2. \A t \in Tasks : t[1] < call => Over(t)
    BY <1>2 DEF Accounted
  <2> QED
    BY <1>1, <1>8, <2>1, <2>2, EmptyMeansIdle
<1>9. pc' = "pop" => handles' # <<>> \/ max' = 0
  BY <1>3, <1>4, <1>8
<1> QED
  BY <1>4, <1>5, <1>7, <1>9 DEF Accounted, Reported

LEMMA JoinAccounts ==
  ASSUME PoolInv, Join, UNCHANGED checks, Panicked' = {}
  PROVE  Accounted' /\ Reported'
<1>1. Panicked = {} /\ \A t \in Tasks : Over(t) => Over(t)'
  BY OverStays DEF Next, MainStep
<1>2. Accounted /\ TypeOK /\ Control
  BY <1>1 DEF PoolInv, TypeInv
<1>3. /\ call' = call /\ spawned' = spawned /\ state' = state /\ pc = "join"
      /\ handles \in Seq(Tasks) /\ spawned = PerCall
  BY <1>2 DEF Join, TypeOK, Control, taskVars
<1>4. \A t \in Tasks : t[1] < call' => Over(t)'
  BY <1>1, <1>2, <1>3 DEF Accounted
<1>5. \A k \in 1..spawned :
        Over(<<call, k>>) \/ \E i \in 1..Len(handles) : handles[i] = <<call, k>>
  BY <1>2, <1>3 DEF Accounted, Held, Settled, Done, Over
<1>6. CASE handles = <<>> /\ pc' = "send"
  <2>1. \A k \in 1..spawned : Over(<<call, k>>)
    BY <1>5, <1>6
  <2>2. \A k \in 1..PerCall : Done(k)'
    BY <1>3, <2>1 DEF Over, Done
  <2>3. \A k \in 1..spawned' : Settled(k)'
    BY <1>3, <2>2 DEF Settled
  <2> QED
    BY <1>4, <1>6, <2>2, <2>3 DEF Accounted, Reported
<1>7. CASE handles # <<>>
  <2>1. handles[1] \in Tasks /\ Finished(handles[1]) /\ handles' = Tail(handles)
    BY <1>3, <1>7 DEF Join
  <2>2. Over(handles[1]) /\ pc' = "join"
    BY <1>1, <1>3, <1>7, <2>1, FinishedOver DEF Join
  <2>3. /\ Len(handles) \in Nat /\ Len(handles') = Len(handles) - 1
        /\ \A i \in 1..Len(handles') : handles'[i] = handles[i + 1]
    BY <1>3, <1>7, <2>1
  <2>4. ASSUME NEW k \in 1..spawned'
        PROVE  Settled(k)'
    <3>1. CASE Over(<<call, k>>)
      BY <1>3, <3>1 DEF Over, Settled, Done
    <3>2. ASSUME NEW i \in 1..Len(handles), handles[i] = <<call, k>>
          PROVE  Settled(k)'
      <4>1. CASE i = 1
        BY SMTT(30), <1>3, <2>2, <3>2, <4>1 DEF Over, Settled, Done
      <4>2. CASE i # 1
        <5>1. i - 1 \in 1..Len(handles') /\ handles'[i - 1] = <<call', k>>
          BY SMTT(30), <1>3, <2>3, <3>2, <4>2
        <5> QED
          BY <5>1 DEF Held, Settled, Done, Over
      <4> QED
        BY <4>1, <4>2
    <3> QED
      BY <1>3, <1>5, <3>1, <3>2
  <2> QED
    BY <1>4, <2>2, <2>4 DEF Accounted, Reported
<1> QED
  BY <1>6, <1>7 DEF Join

LEMMA ClosingAccounts ==
  ASSUME PoolInv, SpawnUpdater \/ Send \/ MainWaits \/ ReadCount \/ ReadTotal,
         UNCHANGED checks, Panicked' = {}
  PROVE  Accounted' /\ Reported'
<1>1. Panicked = {} /\ \A t \in Tasks : Over(t) => Over(t)'
  BY OverStays DEF Next, MainStep
<1>2. Accounted /\ Reported /\ TypeOK /\ Control
  BY <1>1 DEF PoolInv, TypeInv
<1>3. /\ UNCHANGED <<call, spawned, handles, state, count, total>>
      /\ pc \in {"spawn", "send", "count", "total"}
      /\ pc' \in {"join", "count", "total", "idle"}
      /\ pc # "spawn" <=> pc' # "join"
  BY DEF SpawnUpdater, Send, MainWaits, ReadCount, ReadTotal, Fail, taskVars, dataVars
<1>4. \A t \in Tasks : t[1] < call' => Over(t)'
  BY <1>1, <1>2, <1>3 DEF Accounted
<1>5. \A k : Done(k) => Done(k)'
  BY <1>3 DEF Done, Over
<1>6. \A k \in 1..spawned' : Settled(k)'
  <2>1. ASSUME NEW k \in 1..spawned
        PROVE  Settled(k)'
    <3>1. Done(k) \/ \E i \in 1..Len(handles) : handles[i] = <<call, k>>
      BY <1>2, <1>3 DEF Accounted, Settled, Held
    <3>2. CASE Done(k)
      BY <1>5, <3>2 DEF Settled
    <3>3. CASE \E i \in 1..Len(handles) : handles[i] = <<call, k>>
      BY <1>3, <3>3 DEF Settled, Held
    <3> QED
      BY <3>1, <3>2, <3>3
  <2> QED
    BY <1>3, <2>1
<1>7. pc' # "join" => \A k \in 1..PerCall : Done(k)'
  <2>1. call > 0
    BY <1>2, <1>3 DEF Control, TypeOK
  <2>2. pc # "spawn" => \A k \in 1..PerCall : Done(k)
    BY <1>2, <1>3, <2>1 DEF Accounted
  <2> QED
    BY <1>3, <1>5, <2>2
<1>8. Accounted'
  BY <1>3, <1>4, <1>6, <1>7 DEF Accounted
<1>9. Reported'
  <2>1. CASE SpawnUpdater
    BY <2>1 DEF SpawnUpdater, Reported
  <2>2. CASE Send
    <3>1. call \in 1..Calls /\ DOMAIN result = 1..Calls
      BY <1>2, <1>3, BoundsAssumption DEF TypeOK, Control
    <3>2. \/ pc' = "count"
          \/ pc' = "idle" /\ result' = [result EXCEPT ![call] = <<"err">>]
      BY <2>2 DEF Send, Fail
    <3>3. result' = [result EXCEPT ![call] = <<"err">>] => result'[call] = <<"err">>
      BY <1>2, <3>1 DEF TypeOK
    <3> QED
      BY <1>3, <3>2, <3>3 DEF Reported
  <2>3. CASE MainWaits
    BY <1>2, <1>3, <2>3 DEF MainWaits, Reported
  <2>4. CASE ReadCount
    BY <1>3, <2>4 DEF ReadCount, Reported
  <2>5. CASE ReadTotal
    BY <1>2, <1>3, <2>5 DEF ReadTotal, Reported, TypeOK, Control
  <2> QED
    BY <2>1, <2>2, <2>3, <2>4, <2>5
<1> QED
  BY <1>8, <1>9

\* Tasks and updaters move while main is parked: the tasks only while main is
\* in the loops that hold their handles.
LEMMA OthersAccount ==
  ASSUME PoolInv, Panicked' = {},
         (\E t \in Tasks : TaskStep(t)) \/ (\E c \in 1..Calls : UpdaterStep(c))
  PROVE  Accounted' /\ Reported'
<1>1. Panicked = {} /\ \A t \in Tasks : Over(t) => Over(t)'
  BY OverStays DEF Next
<1>2. Accounted /\ Reported /\ TypeOK /\ Control
  BY <1>1 DEF PoolInv, TypeInv
<1>3. UNCHANGED <<call, pc, handles, spawned, awaited, seen, result>> /\ Parked
  BY DEF TaskStep, UpdaterStep, mainVars
<1>4. pc \in {"throttle", "join", "count", "total"} /\ call > 0 /\ call \in 1..Calls
  BY <1>2, <1>3, BoundsAssumption DEF Parked, Control, TypeOK
<1>5. PerCall \in Nat /\ spawned \in 0..PerCall
  BY <1>2, BoundsAssumption DEF TypeOK
<1>6. \A k \in 1..PerCall : <<call, k>> \in Tasks
  BY <1>4 DEF Tasks
<1>7. \A k \in 1..PerCall : Done(k) => Done(k)'
  BY <1>1, <1>3, <1>6 DEF Done, Over
<1>8. \A t \in Tasks : t[1] < call' => Over(t)'
  BY <1>1, <1>2, <1>3 DEF Accounted
<1>9. \A k \in 1..spawned' : Settled(k)'
  <2>1. ASSUME NEW k \in 1..spawned
        PROVE  Settled(k)'
    <3>1. k \in 1..PerCall
      BY <1>5
    <3>2. Settled(k)
      BY <1>2, <1>4 DEF Accounted
    <3> QED
      BY <1>3, <1>7, <3>1, <3>2 DEF Settled, Held
  <2> QED
    BY <1>3, <2>1
<1>10. pc \in {"count", "total"} => \A k \in 1..PerCall : Done(k)'
  BY <1>2, <1>4, <1>7 DEF Accounted
<1>11. Accounted'
  BY <1>3, <1>4, <1>8, <1>9, <1>10 DEF Accounted
<1>12. pc = "total" => count' = count
  <2>1. pc = "total" => ~\E t \in Tasks : TaskStep(t)
    BY <1>1, <1>4, AllOverNoStep
  <2>2. (\E c \in 1..Calls : UpdaterStep(c)) => count' = count
    BY DEF UpdaterStep, dataVars
  <2> QED
    BY <2>1, <2>2
<1>13. Reported'
  BY <1>2, <1>3, <1>4, <1>12 DEF Reported
<1> QED
  BY <1>11, <1>13

LEMMA PoolInvariant == Spec => []PoolInv
<1>1. Init => (Panicked = {} => Accounted /\ Reported)
  <2>1. ASSUME Init
        PROVE  call = 0 /\ spawned = 0 /\ pc = "idle"
    BY <2>1 DEF Init
  <2>2. \A t \in Tasks : ~(t[1] < 0)
    BY DEF Tasks
  <2> QED
    BY <2>1, <2>2 DEF Accounted, Reported
<1>2. (Panicked = {} => Accounted /\ Reported) /\ TypeInv /\ CountInv => PoolInv
  BY DEF PoolInv
<1>3. PoolInv /\ [Next]_vars => (Panicked' = {} => Accounted' /\ Reported')
  <2> SUFFICES ASSUME PoolInv, [Next]_vars, Panicked' = {}
               PROVE  Accounted' /\ Reported'
    OBVIOUS
  <2>1. CASE UNCHANGED vars
    <3>1. Panicked = {}
      BY OverStays
    <3>2. Accounted /\ Reported
      BY <3>1 DEF PoolInv
    <3>3. UNCHANGED <<call, pc, handles, spawned, awaited, seen, result, state, count, total, max>>
      BY <2>1 DEF vars
    <3> QED
      BY <3>2, <3>3 DEF Accounted, Reported, Settled, Done, Held, Over
  <2>2. CASE MainStep
    BY <2>2, BeginAccounts, SpawnAccounts, PopAccounts, ThrottleAccounts, JoinAccounts,
       ClosingAccounts DEF MainStep
  <2>3. CASE (\E t \in Tasks : TaskStep(t)) \/ (\E c \in 1..Calls : UpdaterStep(c))
    BY <2>3, OthersAccount
  <2> QED
    BY <2>1, <2>2, <2>3 DEF Next, Stopped
<1>4. PoolInv => TypeInv /\ CountInv
  BY DEF PoolInv
<1>5. PoolInv /\ [Next]_vars /\ TypeInv' /\ CountInv' => PoolInv'
  BY <1>3 DEF PoolInv
<1> QED
  BY <1>1, <1>2, <1>4, <1>5, PoolTyped, CountInvariant, PTL DEF Spec

\* For every number of calls and tasks, and in every interleaving of tasks and
\* updaters: without a panic a call has counted all its tasks when it returns,
\* and its two numbers, read under two separate locks, are of one moment
\* (lib.rs:1059-1068).
THEOREM ReportsOneMoment == Spec => []ReportConsistent
<1>1. PoolInv => ReportConsistent
  <2> SUFFICES ASSUME PoolInv, NEW c \in 1..Calls,
                      result[c] \in Nat \X Nat, Panicked = {}, c = call
               PROVE  /\ \A k \in 1..PerCall : state[<<c, k>>] \in {"ok", "err"}
                      /\ result[c] = <<count, total>>
    BY DEF ReportConsistent
  <2>1. Accounted /\ Reported /\ Control
    BY DEF PoolInv, TypeInv
  <2>2. ASSUME NEW p \in Nat \X Nat
        PROVE  p # <<>> /\ p # <<"err">>
    <3>1. Len(p) = 2
      BY <2>2
    <3>2. Len(<<>>) = 0 /\ Len(<<"err">>) = 1
      OBVIOUS
    <3> QED
      BY SMTT(30), <3>1, <3>2
  <2>3. result[c] # <<>> /\ result[c] # <<"err">>
    BY <2>2
  <2>4. pc = "idle" /\ call > 0
    BY <2>1, <2>3 DEF Control
  <2>5. result[c] = <<count, total>>
    BY <2>1, <2>3, <2>4 DEF Reported
  <2>6. \A k \in 1..PerCall : state[<<c, k>>] \in {"ok", "err"}
    BY <2>1, <2>4 DEF Accounted, Done, Over
  <2> QED
    BY <2>5, <2>6
<1> QED
  BY PoolInvariant, <1>1, PTL

\* For every number of calls and tasks: the unwrap of an empty task_queue at
\* lib.rs:1047 needs a task that panicked, or a MAX_TASKS of 0.
THEOREM CrashHasACause == Spec => []CrashNeedsLeakOrZero
<1>1. PoolInv => CrashNeedsLeakOrZero
  BY DEF PoolInv, Accounted, CrashNeedsLeakOrZero
<1> QED
  BY PoolInvariant, <1>1, PTL

-----------------------------------------------------------------------------
(* Sums over sets of tasks.  The recursion of SumOf is over finite sets;   *)
(* what holds of every sum is shown through a smallest set that fails it.  *)

LEMMA SmallestNat ==
  ASSUME NEW N, N \subseteq Nat, N # {}
  PROVE  \E x \in N : \A y \in N : x <= y
<1> DEFINE R == {ss \in Nat \X Nat : ss[1] < ss[2]}
<1>1. IsWellFoundedOn(R, Nat)
  BY NatLessThanWellFounded DEF OpToRel
<1>2. \A x, y \in Nat : <<y, x>> \in R <=> y < x
  OBVIOUS
<1> HIDE DEF R
<1>3. PICK x \in N : \A y \in N : ~(<<y, x>> \in R)
  BY <1>1, WFMin
<1>4. ASSUME NEW y \in N
      PROVE  x <= y
  <2>1. x \in Nat /\ y \in Nat /\ ~(y < x)
    BY <1>2, <1>3
  <2> QED
    BY <2>1
<1> QED
  BY <1>4

LEMMA SmallestSet ==
  ASSUME NEW B, B \subseteq SUBSET Tasks, B # {}
  PROVE  \E T \in B : \A U \in B : U \subseteq T => U = T
<1> DEFINE R == StrictSubsetOrdering(Tasks)
<1>1. IsWellFoundedOn(R, SUBSET Tasks)
  BY TasksFinite, FS_FiniteSubsetsOfFinite, FS_StrictSubsetOrderingWellFounded
<1>2. \A T, U \in SUBSET Tasks : <<U, T>> \in R <=> U \subseteq T /\ U # T
  BY DEF StrictSubsetOrdering
<1> HIDE DEF R
<1>3. \E T \in B : \A U \in B : ~(<<U, T>> \in R)
  BY <1>1, WFMin
<1> QED
  BY <1>2, <1>3

\* One step of the recursion, for the times f.
Choice(T) == CHOOSE t \in T : TRUE
SumStep(g, f, T) == IF T = {} THEN 0 ELSE f[Choice(T)] + g[T \ {Choice(T)}]
IsSum(g, f) == g = [T \in SUBSET Tasks |-> SumStep(g, f, T)]

\* The sums over the sets of up to n tasks extend to those of n + 1.
LEMMA SumExists ==
  ASSUME NEW f
  PROVE  \E g : IsSum(g, f)
<1> DEFINE Upto(n) == {T \in SUBSET Tasks : Cardinality(T) <= n}
           P(n) == \E g : g = [T \in Upto(n) |-> SumStep(g, f, T)]
<1>1. \A T \in SUBSET Tasks :
        /\ IsFiniteSet(T) /\ Cardinality(T) \in Nat
        /\ Cardinality(T) <= Cardinality(Tasks)
        /\ Cardinality(T) = 0 <=> T = {}
        /\ T # {} => Cardinality(T \ {Choice(T)}) = Cardinality(T) - 1
  <2> TAKE T \in SUBSET Tasks
  <2>1. IsFiniteSet(T) /\ Cardinality(T) <= Cardinality(Tasks)
    BY TasksFinite, FS_Subset
  <2>2. T # {} => Choice(T) \in T
    BY DEF Choice
  <2> QED
    BY <2>1, <2>2, FS_CardinalityType, FS_EmptySet, FS_RemoveElement
<1>2. P(0)
  <2> DEFINE g == [T \in Upto(0) |-> 0]
  <2>1. \A T \in Upto(0) : SumStep(g, f, T) = 0
    BY <1>1 DEF SumStep
  <2>2. g = [T \in Upto(0) |-> SumStep(g, f, T)]
    BY <2>1
  <2> HIDE DEF g, Upto
  <2> QED
    BY <2>2
<1>3. ASSUME NEW n \in Nat, P(n)
      PROVE  P(n + 1)
  <2>1. PICK g : g = [T \in Upto(n) |-> SumStep(g, f, T)]
    BY <1>3
  <2> DEFINE h == [T \in Upto(n + 1) |-> SumStep(g, f, T)]
  <2>2. ASSUME NEW T \in Upto(n + 1)
        PROVE  SumStep(h, f, T) = SumStep(g, f, T)
    <3>1. CASE T = {}
      BY <3>1 DEF SumStep
    <3>2. CASE T # {}
      <4>1. T \ {Choice(T)} \in Upto(n) /\ T \ {Choice(T)} \in Upto(n + 1)
        <5>1. T \in SUBSET Tasks /\ Cardinality(T) <= n + 1 /\ Cardinality(T) \in Nat
          BY <1>1
        <5>2. T \ {Choice(T)} \in SUBSET Tasks /\ Cardinality(T \ {Choice(T)}) = Cardinality(T) - 1
          BY <1>1, <3>2, <5>1
        <5> QED
          BY <5>1, <5>2
      <4> HIDE DEF Upto
      <4>2. g[T \ {Choice(T)}] = SumStep(g, f, T \ {Choice(T)})
        BY <2>1, <4>1
      <4>3. h[T \ {Choice(T)}] = SumStep(g, f, T \ {Choice(T)})
        BY <4>1
      <4> QED
        BY <4>2, <4>3 DEF SumStep
    <3> QED
      BY <3>1, <3>2
  <2>3. h = [T \in Upto(n + 1) |-> SumStep(h, f, T)]
    <3> HIDE DEF Upto
    <3> QED
      BY <2>2
  <2> HIDE DEF h, Upto
  <2> QED
    BY <2>3
<1> HIDE DEF P
<1>4. ASSUME NEW n \in Nat
      PROVE  P(n)
  <2> DEFINE N == {m \in Nat : ~P(m)}
  <2> SUFFICES ASSUME N # {}
               PROVE  FALSE
    OBVIOUS
  <2>1. PICK m \in N : \A k \in N : m <= k
    <3>1. N \subseteq Nat
      OBVIOUS
    <3> HIDE DEF N
    <3> QED
      BY <3>1, SmallestNat
  <2>2. m \in Nat /\ ~P(m) /\ m # 0
    BY <1>2, <2>1
  <2>3. m - 1 \in Nat /\ m - 1 \notin N
    BY <2>1, <2>2
  <2>4. P(m - 1)
    BY <2>3
  <2>5. P((m - 1) + 1)
    BY <1>3, <2>3, <2>4
  <2>6. (m - 1) + 1 = m
    BY <2>2
  <2> QED
    BY <2>2, <2>5, <2>6
<1>5. Cardinality(Tasks) \in Nat
  BY TasksFinite, FS_CardinalityType
<1>6. P(Cardinality(Tasks))
  BY <1>4, <1>5
<1>7. Upto(Cardinality(Tasks)) = SUBSET Tasks
  BY <1>1
<1> HIDE DEF Upto
<1> QED
  BY <1>6, <1>7 DEF P, IsSum

\* SumOf, before and after a step, is such a sum.
LEMMA SumOfIsSum ==
  IsSum(SumOf, took) /\ IsSum(SumOf', took')
<1>1. SumOf = CHOOSE g : IsSum(g, took)
  BY Zenon DEF SumOf, IsSum, SumStep, Choice
<1>2. SumOf' = CHOOSE g : IsSum(g, took')
  BY Zenon DEF SumOf, IsSum, SumStep, Choice
<1> QED
  BY <1>1, <1>2, SumExists

\* Any task may be taken out of the sum first.
LEMMA SumTakes ==
  ASSUME NEW f \in [Tasks -> Nat], NEW g, IsSum(g, f), NEW T \in SUBSET Tasks
  PROVE  g[T] \in Nat /\ g[{}] = 0 /\ \A t \in T : g[T] = f[t] + g[T \ {t}]
<1> DEFINE Fine(U) == g[U] \in Nat /\ \A t \in U : g[U] = f[t] + g[U \ {t}]
           B == {U \in SUBSET Tasks : ~Fine(U)}
<1>1. \A U \in SUBSET Tasks : g[U] = SumStep(g, f, U)
  BY DEF IsSum
<1>2. g[{}] = 0
  BY <1>1 DEF SumStep
<1>3. ASSUME B # {}
      PROVE  FALSE
  <2>1. PICK U \in B : \A V \in B : V \subseteq U => V = U
    <3>1. B \subseteq SUBSET Tasks
      OBVIOUS
    <3> HIDE DEF B
    <3> QED
      BY <1>3, <3>1, SmallestSet
  <2>2. U \in SUBSET Tasks /\ ~Fine(U)
    BY <2>1
  <2>3. \A t \in U : Fine(U \ {t})
    <3> TAKE t \in U
    <3>1. U \ {t} \in SUBSET Tasks /\ U \ {t} \subseteq U /\ U \ {t} # U
      BY <2>2
    <3>2. U \ {t} \notin B
      BY <2>1, <3>1
    <3> QED
      BY <3>1, <3>2
  <2>4. U # {}
    <3>1. Fine({})
      BY <1>2
    <3> HIDE DEF Fine
    <3> QED
      BY <2>2, <3>1
  <2> DEFINE p == Choice(U)
  <2>5. p \in U /\ g[U] = f[p] + g[U \ {p}]
    BY <1>1, <2>2, <2>4 DEF Choice, SumStep
  <2> HIDE DEF p
  <2>6. g[U \ {p}] \in Nat /\ f[p] \in Nat
    BY <2>2, <2>3, <2>5
  <2>7. ASSUME NEW t \in U, t # p
        PROVE  g[U] = f[t] + g[U \ {t}]
    <3> DEFINE W == (U \ {p}) \ {t}
    <3>1. g[U \ {p}] = f[t] + g[W] /\ g[W] \in Nat
      <4>1. t \in U \ {p} /\ g[U \ {p}] = f[t] + g[W]
        BY <2>3, <2>5, <2>7
      <4>2. W \in SUBSET Tasks /\ W \subseteq U /\ W # U
        BY <2>2, <2>5
      <4>3. W \notin B
        <5> HIDE DEF W, B
        <5> QED
          BY <2>1, <4>2
      <4>4. Fine(W)
        <5> HIDE DEF W, Fine
        <5> QED
          BY <4>2, <4>3
      <4> QED
        BY <4>1, <4>4
    <3>2. g[U \ {t}] = f[p] + g[W]
      <4>1. p \in U \ {t} /\ (U \ {t}) \ {p} = W
        BY <2>5, <2>7
      <4>2. Fine(U \ {t})
        BY <2>3
      <4> QED
        BY <4>1, <4>2
    <3>3. f[t] \in Nat /\ f[p] \in Nat
      BY <2>2, <2>5
    <3> HIDE DEF W
    <3> QED
      BY <2>5, <3>1, <3>2, <3>3
  <2>8. g[U] \in Nat
    BY <2>5, <2>6
  <2> QED
    BY <2>2, <2>5, <2>7, <2>8
<1>4. Fine(T)
  BY <1>3
<1> QED
  BY <1>2, <1>4

\* A sum depends on the times of its tasks alone.
LEMMA SumLocal ==
  ASSUME NEW f \in [Tasks -> Nat], NEW e \in [Tasks -> Nat], NEW g, NEW h,
         IsSum(g, f), IsSum(h, e), NEW T \in SUBSET Tasks,
         \A t \in T : f[t] = e[t]
  PROVE  g[T] = h[T]
<1> DEFINE B == {U \in SUBSET Tasks : U \subseteq T /\ g[U] # h[U]}
<1> SUFFICES ASSUME B # {}
             PROVE  FALSE
  OBVIOUS
<1>1. PICK U \in B : \A V \in B : V \subseteq U => V = U
  <2>1. B \subseteq SUBSET Tasks
    OBVIOUS
  <2> HIDE DEF B
  <2> QED
    BY <2>1, SmallestSet
<1>2. U \in SUBSET Tasks /\ U \subseteq T /\ g[U] # h[U]
  BY <1>1
<1>3. U # {}
  BY <1>2, SumTakes
<1>4. PICK t \in U : TRUE
  BY <1>3
<1>5. U \ {t} \in SUBSET Tasks /\ U \ {t} \subseteq T /\ U \ {t} \subseteq U /\ U \ {t} # U
  BY <1>2, <1>4
<1>6. g[U \ {t}] = h[U \ {t}]
  BY <1>1, <1>5
<1>7. g[U] = f[t] + g[U \ {t}]
  BY <1>2, <1>4, SumTakes
<1>8. h[U] = e[t] + h[U \ {t}]
  BY <1>2, <1>4, SumTakes
<1>9. f[t] = e[t]
  BY <1>2, <1>4
<1> QED
  BY <1>2, <1>6, <1>7, <1>8, <1>9

LEMMA NothingRecorded ==
  ASSUME TypeOK, TypeOK', ResultsExact,
         Succeeded' = Succeeded, count' = count, total' = total,
         \A t \in Succeeded : took'[t] = took[t]
  PROVE  ResultsExact'
<1>1. took \in [Tasks -> Nat] /\ took' \in [Tasks -> Nat] /\ Succeeded \in SUBSET Tasks
  BY DEF TypeOK, Succeeded
<1>2. SumOf'[Succeeded] = SumOf[Succeeded]
  BY <1>1, SumOfIsSum, SumLocal
<1> QED
  BY <1>2 DEF ResultsExact

LEMMA OneRecorded ==
  ASSUME TypeOK, TypeOK', ResultsExact, NEW t \in Tasks, t \notin Succeeded,
         Succeeded' = Succeeded \cup {t}, count' = count + 1, total' = total + took'[t],
         \A u \in Succeeded : took'[u] = took[u]
  PROVE  ResultsExact'
<1> DEFINE S == Succeeded
           U == Succeeded'
<1>1. took \in [Tasks -> Nat] /\ took' \in [Tasks -> Nat] /\ S \in SUBSET Tasks
  BY DEF TypeOK, Succeeded
<1>2. U = S \cup {t} /\ t \notin S /\ t \in U /\ U \in SUBSET Tasks /\ U \ {t} = S
  BY <1>1
<1>3. count = Cardinality(S) /\ total = SumOf[S]
  BY DEF ResultsExact
<1>4. \A u \in S : took'[u] = took[u]
  OBVIOUS
<1>5. (count' = Cardinality(U) /\ total' = SumOf'[U]) => ResultsExact'
  BY DEF ResultsExact
<1> HIDE DEF S, U
<1>6. count' = Cardinality(U)
  <2>1. IsFiniteSet(S)
    BY <1>1, TasksFinite, FS_Subset
  <2>2. Cardinality(S \cup {t}) = Cardinality(S) + 1
    BY <1>2, <2>1, FS_AddElement
  <2> QED
    BY <1>2, <1>3, <2>2
<1>7. IsSum(SumOf, took) /\ IsSum(SumOf', took')
  BY SumOfIsSum
<1>8. SumOf'[S] = SumOf[S]
  BY <1>1, <1>4, <1>7, SumLocal
<1>9. \A u \in U : SumOf'[U] = took'[u] + SumOf'[U \ {u}]
  BY <1>1, <1>2, <1>7, SumTakes
<1>10. SumOf'[U] = took'[t] + SumOf'[S]
  BY <1>2, <1>9
<1>11. took'[t] \in Nat /\ SumOf[S] \in Nat
  BY <1>1, <1>7, SumTakes
<1>12. total' = SumOf'[U]
  BY <1>3, <1>8, <1>10, <1>11
<1> QED
  BY <1>5, <1>6, <1>12

ResultInv == TypeInv /\ CountInv /\ ResultsExact

LEMMA TaskKeepsResults ==
  ASSUME ResultInv, TypeInv', NEW t \in Tasks, TaskStep(t)
  PROVE  ResultsExact'
<1>1. TypeOK /\ TypeOK' /\ ResultsExact
  BY DEF ResultInv, TypeInv
<1>2. state \in [Tasks -> States] /\ took \in [Tasks -> Nat]
  BY <1>1 DEF TypeOK, States
<1> DEFINE To(x) == state' = [state EXCEPT ![t] = x]
<1>3. \A x \in States : To(x) /\ state[t] \in {"ready", "running", "locking"} =>
        Succeeded' = IF x = "ok" THEN Succeeded \cup {t} ELSE Succeeded
  BY <1>2 DEF Succeeded
<1>4. state[t] \in {"ready", "running", "locking"} /\ t \notin Succeeded
  BY DEF TaskStep, TaskStart, TaskErr, TaskPanic, TaskOk, TaskRecord, Succeeded
<1>5. \A u \in Succeeded : u # t /\ u \in Tasks
  BY <1>4 DEF Succeeded
<1>6. CASE TaskStart(t) \/ TaskErr(t) \/ TaskPanic(t)
  <2>1. took' = took /\ count' = count /\ total' = total
    BY <1>6 DEF TaskStart, TaskErr, TaskPanic, dataVars
  <2>2. To("running") \/ To("err") \/ To("panicked")
    BY <1>6 DEF TaskStart, TaskErr, TaskPanic
  <2>3. Succeeded' = Succeeded
    BY <1>3, <1>4, <2>2 DEF States
  <2> QED
    BY <1>1, <2>1, <2>3, NothingRecorded
<1>7. CASE TaskOk(t)
  <2>1. PICK d \in Durations :
          /\ took' = [took EXCEPT ![t] = d]
          /\ \/ Record(d) /\ To("ok")
             \/ UNCHANGED dataVars /\ To("locking")
    BY <1>7 DEF TaskOk
  <2>2. \A u \in Succeeded : took'[u] = took[u]
    BY <1>2, <1>5, <2>1
  <2>3. took'[t] = d
    BY <1>2, <2>1
  <2>4. CASE Record(d) /\ To("ok")
    <3>1. Succeeded' = Succeeded \cup {t}
      BY <1>3, <1>4, <2>4 DEF States
    <3>2. count' = count + 1 /\ total' = total + took'[t]
      BY <2>3, <2>4 DEF Record
    <3> QED
      BY <1>1, <1>4, <2>2, <3>1, <3>2, OneRecorded
  <2>5. CASE UNCHANGED dataVars /\ To("locking")
    <3>1. Succeeded' = Succeeded
      BY <1>3, <1>4, <2>5 DEF States
    <3>2. count' = count /\ total' = total
      BY <2>5 DEF dataVars
    <3> QED
      BY <1>1, <2>2, <3>1, <3>2, NothingRecorded
  <2> QED
    BY <2>1, <2>4, <2>5
<1>8. CASE TaskRecord(t)
  <2>1. Record(took[t]) /\ To("ok") /\ took' = took
    BY <1>8 DEF TaskRecord
  <2>2. Succeeded' = Succeeded \cup {t}
    BY <1>3, <1>4, <2>1 DEF States
  <2>3. count' = count + 1 /\ total' = total + took'[t]
    BY <2>1 DEF Record
  <2> QED
    BY <1>1, <1>4, <2>1, <2>2, <2>3, OneRecorded
<1> QED
  BY <1>6, <1>7, <1>8 DEF TaskStep

LEMMA OthersKeepResults ==
  ASSUME ResultInv, TypeInv',
         MainStep \/ (\E c \in 1..Calls : UpdaterStep(c)) \/ Stopped \/ UNCHANGED vars
  PROVE  ResultsExact'
<1>1. TypeOK /\ TypeOK' /\ CountInv /\ ResultsExact
  BY DEF ResultInv, TypeInv
<1>2. UNCHANGED <<took, count, total>> /\ Succeeded' = Succeeded
  <2>1. CASE Spawn
    <3>1. state' = [state EXCEPT ![<<call, spawned + 1>>] = "ready"]
      BY <2>1 DEF Spawn
    <3>2. \A t \in Tasks : t = <<call, spawned + 1>> => state[t] = "none"
      BY <1>1 DEF CountInv
    <3>3. \A t \in Tasks : state'[t] = "ok" <=> state[t] = "ok"
      BY <1>1, <3>1, <3>2 DEF TypeOK
    <3> QED
      BY <2>1, <3>3 DEF Spawn, dataVars, Succeeded
  <2>2. CASE UNCHANGED <<took, count, total, state>>
    BY <2>2 DEF Succeeded
  <2>3. Begin \/ Pop \/ Throttle \/ SpawnUpdater \/ Join => UNCHANGED <<took, count, total, state>>
    BY DEF Begin, Pop, Throttle, SpawnUpdater, Join, taskVars, dataVars
  <2>4. Send \/ MainWaits \/ ReadCount \/ ReadTotal => UNCHANGED <<took, count, total, state>>
    BY DEF Send, MainWaits, ReadCount, ReadTotal, taskVars, dataVars
  <2>5. (\E c \in 1..Calls : UpdaterStep(c)) \/ Stopped \/ UNCHANGED vars
          => UNCHANGED <<took, count, total, state>>
    BY DEF UpdaterStep, Stopped, vars, taskVars, dataVars
  <2> QED
    BY <2>1, <2>2, <2>3, <2>4, <2>5 DEF MainStep
<1> QED
  BY <1>1, <1>2, NothingRecorded

\* For every number of calls, tasks and durations, and in every interleaving:
\* RES_QUEUE_SECS counts each task that succeeded once and adds up their times
\* (update_res_queue_secs, lib.rs:1114-1125).
THEOREM StatisticsExact == Spec => []ResultsExact
<1>1. Init => ResultsExact
  <2> SUFFICES ASSUME Init
               PROVE  ResultsExact
    OBVIOUS
  <2>1. Succeeded = {}
    BY DEF Init, Succeeded
  <2>2. took \in [Tasks -> Nat]
    BY DEF Init
  <2>3. SumOf[{}] = 0
    BY <2>2, SumOfIsSum, SumTakes
  <2>4. count = 0 /\ total = 0
    BY DEF Init
  <2> QED
    BY <2>1, <2>3, <2>4, FS_EmptySet DEF ResultsExact
<1>2. ResultsExact /\ TypeInv /\ CountInv /\ TypeInv' /\ [Next]_vars => ResultsExact'
  <2>1. ASSUME ResultsExact, TypeInv, CountInv, TypeInv', [Next]_vars
        PROVE  ResultsExact'
    <3>1. ResultInv
      BY <2>1 DEF ResultInv
    <3> QED
      BY <2>1, <3>1, TaskKeepsResults, OthersKeepResults DEF Next
  <2> QED
    BY <2>1
<1> QED
  BY <1>1, <1>2, PoolTyped, CountInvariant, PTL DEF Spec
=============================================================================
