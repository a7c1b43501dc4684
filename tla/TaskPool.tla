------------------------------ MODULE TaskPool ------------------------------
(***************************************************************************)
(* multi_tasks_impl, max_tasks_update and update_res_queue_secs            *)
(* (src/agent/src/lib.rs): the pool that runs the contract operations.     *)
(*                                                                         *)
(* The client's runtime has one thread.  A caller (here "main") drives it  *)
(* with block_on: tasks and updaters move only while main waits, and each  *)
(* runs from one await to the next without interruption, so each action is *)
(* such a stretch.  The counters, the results and the mutex around them    *)
(* are statics and survive a call.                                         *)
(***************************************************************************)
EXTENDS Integers, Sequences, FiniteSets

CONSTANTS
  Calls,           \* bound: calls made on one client
  PerCall,         \* tasks of a call
  Durations,       \* what a task may take
  Modulus,         \* 2^32 in the code: the range of an AtomicU32
  QueueMax,        \* RES_QUEUE_MAX_LEN
  Delta            \* DELTA_RANGE

ASSUME BoundsAssumption == Calls \in Nat \ {0} /\ PerCall \in Nat \ {0}
ASSUME ModulusAssumption == Modulus \in Nat /\ Modulus > 2 /\ Modulus > Calls * PerCall
ASSUME QueueAssumption == QueueMax \in Nat \ {0} /\ Delta \in Nat
ASSUME DurationsAssumption == Durations \subseteq Nat

VARIABLES
  checks,    \* a debug build: integer overflow panics instead of wrapping
  call,      \* calls begun
  pc,        \* where main is
  handles,   \* task_queue: the handles main still has
  spawned,   \* tasks of this call spawned
  awaited,   \* the task whose handle the throttle popped
  state,     \* state[t]
  took,      \* took[t]: the time a finished task took
  cur,       \* CUR_TASKS
  max,       \* MAX_TASKS
  count,     \* RES_QUEUE_SECS.0
  total,     \* RES_QUEUE_SECS.1
  avgs,      \* RES_QUEUE_SECS.2
  lock,      \* its mutex: the owner, then those who wait, first come first served
  upd,       \* upd[c]: the updater of call c
  chan,      \* chan[c]: the channel that tells it to stop
  seen,      \* the count that main has read
  result     \* result[c]: what call c returned

vars == <<checks, call, pc, handles, spawned, awaited, state, took, cur, max, count,
          total, avgs, lock, upd, chan, seen, result>>

Tasks == (1..Calls) \X (1..PerCall)
Main == <<0, 0>>
Updater(c) == <<c, 0>>
NoTask == <<0, 0>>

InFlight == {t \in Tasks : state[t] \in {"running", "locking"}}
Panicked == {t \in Tasks : state[t] = "panicked"}
Succeeded == {t \in Tasks : state[t] = "ok"}
Finished(t) == state[t] \in {"ok", "err", "panicked"}

Init ==
  /\ checks \in BOOLEAN
  /\ call = 0
  /\ pc = "idle"
  /\ handles = <<>>
  /\ spawned = 0
  /\ awaited = NoTask
  /\ state = [t \in Tasks |-> "none"]
  /\ took = [t \in Tasks |-> 0]
  /\ cur = 0
  /\ max = 2
  /\ count = 0
  /\ total = 0
  /\ avgs = <<>>
  /\ lock = <<>>
  /\ upd = [c \in 1..Calls |-> "none"]
  /\ chan = [c \in 1..Calls |-> "none"]
  /\ seen = 0
  /\ result = [c \in 1..Calls |-> <<>>]

Waits(x) == \E i \in 1..Len(lock) : lock[i] = x
Owns(x) == lock # <<>> /\ lock[1] = x

\* block_on polls the other tasks.
Parked == pc \in {"throttle", "join"} \/ (pc \in {"count", "total"} /\ Waits(Main))

\* The loop condition of the throttle.
Full == max <= cur

dataVars == <<count, total, avgs>>
taskVars == <<state, took, cur>>
updVars  == <<upd, chan, max>>

-----------------------------------------------------------------------------
Begin ==
  /\ pc = "idle" /\ call < Calls
  /\ call' = call + 1
  /\ pc' = "spawn"
  /\ handles' = <<>>
  /\ spawned' = 0
  /\ UNCHANGED <<awaited, taskVars, dataVars, lock, updVars, seen, result>>

\* tokio::spawn only queues the task; nothing has counted it yet when the
\* throttle looks at the counters.
Spawn ==
  /\ pc = "spawn" /\ spawned < PerCall
  /\ LET t == <<call, spawned + 1>> IN
       /\ state' = [state EXCEPT ![t] = "ready"]
       /\ handles' = Append(handles, t)
  /\ spawned' = spawned + 1
  /\ pc' = IF Full THEN "pop" ELSE "spawn"
  /\ UNCHANGED <<call, awaited, took, cur, dataVars, lock, updVars, seen, result>>

\* task_queue.pop().unwrap()
Pop ==
  /\ pc = "pop"
  /\ IF handles = <<>>
       THEN pc' = "crashed" /\ UNCHANGED <<awaited, handles>>
       ELSE /\ awaited' = handles[Len(handles)]
            /\ handles' = SubSeq(handles, 1, Len(handles) - 1)
            /\ pc' = "throttle"
  /\ UNCHANGED <<call, spawned, taskVars, dataVars, lock, updVars, seen, result>>

Fail == pc' = "idle" /\ result' = [result EXCEPT ![call] = <<"err">>]

\* task.await? in the throttle
Throttle ==
  /\ pc = "throttle" /\ Finished(awaited)
  /\ IF state[awaited] = "panicked"
       THEN Fail
       ELSE pc' = (IF Full THEN "pop" ELSE "spawn") /\ UNCHANGED result
  /\ UNCHANGED <<call, handles, spawned, awaited, taskVars, dataVars, lock,
                 updVars, seen>>

SpawnUpdater ==
  /\ pc = "spawn" /\ spawned = PerCall
  /\ upd' = [upd EXCEPT ![call] = "ready"]
  /\ chan' = [chan EXCEPT ![call] = "open"]
  /\ pc' = "join"
  /\ UNCHANGED <<call, handles, spawned, awaited, taskVars, dataVars, max,
                 lock, seen, result>>

\* Mutant of Join: the tasks are left to themselves.
JoinNothing ==
  /\ pc = "join"
  /\ pc' = "send"
  /\ UNCHANGED <<call, handles, spawned, awaited, taskVars, dataVars, lock, updVars,
                 seen, result>>

\* task.await? over the handles that are left; an error drops the sender.
Join ==
  /\ pc = "join"
  /\ \/ handles = <<>> /\ pc' = "send" /\ UNCHANGED <<handles, chan, result>>
     \/ /\ handles # <<>> /\ Finished(handles[1])
        /\ handles' = Tail(handles)
        /\ IF state[handles[1]] = "panicked"
             THEN Fail /\ chan' = [chan EXCEPT ![call] = "closed"]
             ELSE UNCHANGED <<pc, chan, result>>
  /\ UNCHANGED <<call, spawned, awaited, taskVars, dataVars, lock, upd, max, seen>>

\* tx1.send(()).await? fails if the updater, and its receiver, are gone.
Send ==
  /\ pc = "send"
  /\ IF upd[call] = "panicked"
       THEN Fail /\ UNCHANGED chan
       ELSE pc' = "count" /\ chan' = [chan EXCEPT ![call] = "sent"] /\ UNCHANGED result
  /\ UNCHANGED <<call, handles, spawned, awaited, taskVars, dataVars, lock, upd,
                 max, seen>>

\* lock().await finds the mutex taken: main queues up.
MainWaits ==
  /\ pc \in {"count", "total"} /\ lock # <<>> /\ ~Waits(Main)
  /\ lock' = Append(lock, Main)
  /\ UNCHANGED <<call, pc, handles, spawned, awaited, taskVars, dataVars,
                 updVars, seen, result>>

MainHasLock ==
  \/ lock = <<>> /\ UNCHANGED lock
  \/ Owns(Main) /\ lock' = Tail(lock)

ReadCount ==
  /\ pc = "count" /\ MainHasLock
  /\ seen' = count
  /\ pc' = "total"
  /\ UNCHANGED <<call, handles, spawned, awaited, taskVars, dataVars, updVars, result>>

ReadTotal ==
  /\ pc = "total" /\ MainHasLock
  /\ result' = [result EXCEPT ![call] = <<seen, total>>]
  /\ pc' = "idle"
  /\ UNCHANGED <<call, handles, spawned, awaited, taskVars, dataVars, updVars, seen>>

MainStep ==
  /\ \/ Begin \/ Spawn \/ Pop \/ Throttle \/ SpawnUpdater \/ Join \/ Send
     \/ MainWaits \/ ReadCount \/ ReadTotal
  /\ UNCHANGED checks

mainVars == <<call, pc, handles, spawned, awaited, seen, result>>

-----------------------------------------------------------------------------
\* CUR_TASKS is loaded and stored in one stretch.
CountUp == cur' = (cur + 1) % Modulus
CountDown == cur' = (cur + Modulus - 1) % Modulus

\* Mutant of Record: the queue is cut at its oldest end.
RecordDropsOldest(d) ==
  LET queue == Append(avgs, (total + d) \div (count + 1)) IN
  /\ count' = count + 1
  /\ total' = total + d
  /\ avgs' = IF Len(queue) > QueueMax THEN Tail(queue) ELSE queue

\* update_res_queue_secs: the queue is cut at its newest end.
Record(d) ==
  LET queue == Append(avgs, (total + d) \div (count + 1)) IN
  /\ count' = count + 1
  /\ total' = total + d
  /\ avgs' = SubSeq(queue, 1, IF Len(queue) > QueueMax THEN QueueMax ELSE Len(queue))

TaskStart(t) ==
  /\ state[t] = "ready"
  /\ state' = [state EXCEPT ![t] = "running"]
  /\ CountUp
  /\ UNCHANGED <<took, dataVars, lock>>

\* Mutant of TaskOk: try_lock, and no record if the mutex is taken.
TaskOkTryLock(t) ==
  /\ state[t] = "running"
  /\ \E d \in Durations :
       /\ took' = [took EXCEPT ![t] = d]
       /\ IF lock = <<>> THEN Record(d) ELSE UNCHANGED dataVars
       /\ CountDown
       /\ state' = [state EXCEPT ![t] = "ok"]
       /\ UNCHANGED lock

TaskOk(t) ==
  /\ state[t] = "running"
  /\ \E d \in Durations :
       /\ took' = [took EXCEPT ![t] = d]
       /\ IF lock = <<>>
            THEN /\ Record(d)
                 /\ CountDown
                 /\ state' = [state EXCEPT ![t] = "ok"]
                 /\ UNCHANGED lock
            ELSE /\ lock' = Append(lock, t)
                 /\ state' = [state EXCEPT ![t] = "locking"]
                 /\ UNCHANGED <<dataVars, cur>>

TaskRecord(t) ==
  /\ state[t] = "locking" /\ Owns(t)
  /\ Record(took[t])
  /\ lock' = Tail(lock)
  /\ CountDown
  /\ state' = [state EXCEPT ![t] = "ok"]
  /\ UNCHANGED took

\* Mutant of TaskErr: an early return on the error skips the count down.
TaskErrLeaks(t) ==
  /\ state[t] = "running"
  /\ state' = [state EXCEPT ![t] = "err"]
  /\ UNCHANGED <<took, cur, dataVars, lock>>

TaskErr(t) ==
  /\ state[t] = "running"
  /\ state' = [state EXCEPT ![t] = "err"]
  /\ CountDown
  /\ UNCHANGED <<took, dataVars, lock>>

\* An unwrap in the operation, say of a file that cannot be read: nothing
\* counts the task down.
TaskPanic(t) ==
  /\ state[t] = "running"
  /\ state' = [state EXCEPT ![t] = "panicked"]
  /\ UNCHANGED <<took, cur, dataVars, lock>>

TaskStep(t) ==
  /\ Parked
  /\ TaskStart(t) \/ TaskOk(t) \/ TaskRecord(t) \/ TaskErr(t) \/ TaskPanic(t)
  /\ UNCHANGED <<checks, mainVars, updVars>>

-----------------------------------------------------------------------------
\* The newest average against the older ones.
Older == 1..(Len(avgs) - 1)
Newest == avgs[Len(avgs)]
Big == Cardinality({i \in Older : Newest - avgs[i] > Delta})
Less == Cardinality({i \in Older : avgs[i] - Newest > Delta})

Grow ==
  /\ Len(avgs) > 1
  /\ \/ Big > Less
     \/ Big = Less /\ Newest - avgs[Len(avgs) - 1] > Delta

Shrink ==
  /\ Len(avgs) > 1
  /\ \/ Less > Big
     \/ Big = Less /\ avgs[Len(avgs) - 1] - Newest > Delta

Overflows == (Grow /\ 2 * max >= Modulus) \/ (Shrink /\ max = 0)

UpdaterStart(c) ==
  /\ upd[c] = "ready"
  /\ upd' = [upd EXCEPT ![c] = "lock"]
  /\ lock' = Append(lock, Updater(c))
  /\ UNCHANGED <<chan, max>>

\* Mutant of UpdaterAdjust: a signed counter, which runs below 0.
AdjustSigned(c) ==
  /\ upd[c] = "lock" /\ Owns(Updater(c))
  /\ upd' = [upd EXCEPT ![c] = "sleep"]
  /\ max' = IF Grow THEN 2 * max ELSE IF Shrink THEN max - 1 ELSE max
  /\ UNCHANGED <<chan, lock>>

\* The guard stays alive over the sleep that follows.
UpdaterAdjust(c) ==
  /\ upd[c] = "lock" /\ Owns(Updater(c))
  /\ IF checks /\ Overflows
       THEN /\ upd' = [upd EXCEPT ![c] = "panicked"]
            /\ lock' = Tail(lock)
            /\ UNCHANGED max
       ELSE /\ upd' = [upd EXCEPT ![c] = "sleep"]
            /\ max' = IF Grow THEN (2 * max) % Modulus
                      ELSE IF Shrink THEN (max + Modulus - 1) % Modulus
                      ELSE max
            /\ UNCHANGED lock
  /\ UNCHANGED chan

\* Mutant of UpdaterWake: one guard for all rounds of the loop.
WakeKeepsLock(c) ==
  /\ upd[c] = "sleep"
  /\ chan[c] = "sent"
  /\ upd' = [upd EXCEPT ![c] = "done"]
  /\ lock' = Tail(lock)
  /\ UNCHANGED <<chan, max>>

\* The end of the sleep: stop if told to, else the next round queues up again.
UpdaterWake(c) ==
  /\ upd[c] = "sleep"
  /\ IF chan[c] = "sent"
       THEN upd' = [upd EXCEPT ![c] = "done"] /\ lock' = Tail(lock)
       ELSE upd' = [upd EXCEPT ![c] = "lock"] /\ lock' = Append(Tail(lock), Updater(c))
  /\ UNCHANGED <<chan, max>>

UpdaterStep(c) ==
  /\ Parked
  /\ UpdaterStart(c) \/ UpdaterAdjust(c) \/ UpdaterWake(c)
  /\ UNCHANGED <<checks, mainVars, taskVars, dataVars>>

Stopped ==
  /\ pc = "crashed" \/ (pc = "idle" /\ call = Calls)
  /\ UNCHANGED vars

Next ==
  \/ MainStep
  \/ \E t \in Tasks : TaskStep(t)
  \/ \E c \in 1..Calls : UpdaterStep(c)
  \/ Stopped

Spec == Init /\ [][Next]_vars

\* The runtime polls whatever is ready in turn, an operation ends (its RPC
\* client answers or errs), a sleep ends.
Fairness ==
  /\ WF_vars(MainStep)
  /\ \A t \in Tasks : WF_vars(TaskStep(t))
  /\ \A c \in 1..Calls : WF_vars(UpdaterStep(c))

FairSpec == Spec /\ Fairness
-----------------------------------------------------------------------------
(***************************************************************************)
(* Properties.                                                             *)
(***************************************************************************)
Actors == {Main} \cup Tasks \cup {Updater(c) : c \in 1..Calls}

\* Every variable stays in its type, the two counters within their width.
TypeOK ==
  /\ checks \in BOOLEAN
  /\ call \in 0..Calls
  /\ pc \in {"idle", "spawn", "pop", "throttle", "join", "send", "count",
             "total", "crashed"}
  /\ handles \in Seq(Tasks)
  /\ spawned \in 0..PerCall
  /\ awaited \in Tasks \cup {NoTask}
  /\ state \in [Tasks -> {"none", "ready", "running", "locking", "ok", "err", "panicked"}]
  /\ took \in [Tasks -> Nat]
  /\ cur \in 0..(Modulus - 1)
  /\ max \in 0..(Modulus - 1)
  /\ count \in Nat
  /\ total \in Nat
  /\ avgs \in Seq(Nat)
  /\ lock \in Seq(Actors)
  /\ upd \in [1..Calls -> {"none", "ready", "lock", "sleep", "done", "panicked"}]
  /\ chan \in [1..Calls -> {"none", "open", "sent", "closed"}]
  /\ seen \in Nat
  /\ result \in [1..Calls -> {<<>>, <<"err">>} \cup (Nat \X Nat)]

\* CUR_TASKS, updated by a load and a store, never loses a step: it counts the
\* tasks in flight, and every task that panicked for good.
CurCountsInFlight == cur = Cardinality(InFlight) + Cardinality(Panicked)

SumOf[T \in SUBSET Tasks] ==
  IF T = {} THEN 0
  ELSE LET t == CHOOSE t \in T : TRUE IN took[t] + SumOf[T \ {t}]

\* The statistics agree with the tasks: nothing is recorded twice, or lost to
\* whoever holds the mutex over a sleep.
ResultsExact == count = Cardinality(Succeeded) /\ total = SumOf[Succeeded]

\* As long as no task panicked, a call that returns has counted all its tasks
\* and reports the two numbers of one and the same moment, although it reads
\* them under two separate locks.
ReportConsistent ==
  \A c \in 1..Calls :
    result[c] \in Nat \X Nat /\ Panicked = {} /\ c = call =>
      /\ \A k \in 1..PerCall : state[<<c, k>>] \in {"ok", "err"}
      /\ result[c] = <<count, total>>

\* In the first call the throttle never holds back anything: the runtime's one
\* thread starts no task before main waits, so nothing is counted in time.
FirstCallUnthrottled == call <= 1 => pc \notin {"pop", "throttle"}

\* The unwrap of an empty task_queue (lib.rs:1047) needs a task that panicked
\* before, or a MAX_TASKS that the updater has brought to 0.
CrashNeedsLeakOrZero == pc = "crashed" => Panicked # {} \/ max = 0

\* Every call comes to an end.
CallsEnd == (pc = "spawn") ~> (pc \in {"idle", "crashed"})

\* Once the queue of averages is full it never changes again, since it is cut
\* at its newest end: from then on the updater judges the same old numbers.
QueueFreezes == [][Len(avgs) = QueueMax => avgs' = avgs]_vars
=============================================================================
