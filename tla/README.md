# Verification of findora-agent

TLA+ models of the agent in `src/`: a command line tool (`feth`) and a library
(`agent`) that fund test accounts, run load tests against a Findora or Ethereum
node, run contract operations and report blocks. The models are checked with TLC
and every invariant and action property of the runs is proved with TLAPS.

## 1. Inventory

| Component | State it keeps | Operations | Hard because of |
|---|---|---|---|
| `TestClient::distribution` (`agent/src/lib.rs:340-586`) | per caller: nonce cell, error count, metrics; per client: `overflow_flag` | sign, gate, send, raise and clear the flag, probe, retry, poll receipts | several callers on one client, lost answers, a full pool, gate and send being two steps |
| Task pool `multi_tasks_impl`, `max_tasks_update`, `update_res_queue_secs` (`lib.rs:1025-1125`) | statics `CUR_TASKS`, `MAX_TASKS`, `RES_QUEUE_SECS` and its mutex; a channel per call | spawn, throttle, join, adjust the limit, record a result | a one-thread runtime, a guard held over a sleep, panicking tasks, 32-bit counters, statics that outlive a call |
| Fund command (`feth/src/commands/fund.rs`, `common.rs`) | source key file, its `.bak`, keys in memory | load, generate, save, extend and rename, select by balance, pay | death between any two steps, stale balances, file modes |
| Prism and utxo tests (`tests/basic.rs:86-196`) | channel, `last` height | produce chunks, send a phase, wait for a block | a producer on the same thread, parallel sends, a stale height, unwraps |
| Ether load tests (`tests/basic.rs:199-313`, `tests/long_run.rs`) | `last_height`, `total_succeed` | filter sources, pace rounds, nonce and send per account | a thread per account, requests that arrive rounds later |
| Block report `eth_blocks` (`feth/src/main.rs:106-148`) | next number, previous block | fetch, report | the chain grows under it, requests fail |
| `TestClient::distribute` (`lib.rs:618-686`) | none of its own | pay a target, wait for its receipt, go on | the nonce is looked up by the library, answers are lost, a receipt loop without a limit |
| Contract operations (`lib.rs:688-1023`) | none of their own | deploy, call, query | tasks that run at once and look up nonces of one account, panics that end the command while others are under way |
| ETL into redis (`commands/mod.rs:195-353`, `db.rs`) | one redis value per height | write a block, read and change and write per log line, report | no transaction around a line, runs that overlap, fail or die on data that outlives them |
| Profiler (`profiler/src/lib.rs`, `agent/src/profiler.rs`) | guard and user count under a mutex | start, stop, flame graph | unpaired stops; no crate uses the library, the command only calls a node |
| Key and transaction building (`native.rs`, `utils.rs`), command line (`mod.rs`, `main.rs`), errors | none | build, sign, parse | data rather than control |

Interactions. Every command but the ETL talks to a node through RPCs that
may time out. The fund command calls `distribution` (one caller, id 1, retry and
wait) or `distribute`; the ether tests call `distribution_simple` from rayon's
threads; contract commands call the task pool from `block_on`; the prism and utxo
tests call `deposit`, `withdraw` and `transfer` from rayon's threads and share a
channel with their producer. The key file is the only state that outlives a
process on this side of the node, besides the records the ETL keeps in redis, and it
feeds the tests. ETL processes meet each other in redis only.

What makes each component correct is listed with its properties in section 3, and
every place where something can go wrong is in `PROJECT.json`, "hazards".

## 2. Modules

| Module | Models | State | Actions |
|---|---|---|---|
| `EvmNode` | the node (external) | `ledger` accepted payments by account and nonce, `committed`, `reverted`, `late` timed-out requests, `faults` | `Accept`, `Refuse`, `DeliverLate`, `Mine` |
| `Backpressure` | what the overflow flag promises (abstract) | `holder`, `slips` | `Grant`, `Yield`, `Slip` |
| `Distribution` (extends `EvmNode`) | `TestClient::distribution` | `flag` = `overflow_flag`; per sender `pc`, `idx`, `nonce`, `probe`, `offline`, `hash`, `status`, `polls`, `succeed`; history `slips` | one per RPC and per atomic access, in the order of the code: `Begin`, `Sign`, `Gate`, `SendOk`/`SendErr`, `Clear`, `Raise`, `Block`, `Loop`, `Probe`, `Resubmit`, `Release`, `Resync`, `Retry`, `Refetch`, `ReceiptFound`/`ReceiptMissing`, `SpinWithoutHash` |
| `TaskPool` | the task pool | `cur` = `CUR_TASKS`, `max` = `MAX_TASKS`, `count`/`total`/`avgs` = `RES_QUEUE_SECS`, `lock` = its mutex with the queue of waiters, `chan`, `upd`, `handles` = `task_queue` | one per stretch between two awaits |
| `FundKeys` | both flows of the fund command | `file`, `bak`, `keys`, `todo`, `targets`, `balance`, `pending`; history `before`, `calm`, `outcome` | one per file operation and per account, `Crash` between any two |
| `ChunkTest` | prism and utxo tests | `chan`, `open`, `last`, `height`, `todo`, `paid`, `pool` | `Start`, `Produce`, `Close`, `Recv`, `Send`, `Joined`, `WaitForNewBlock`, `Mine` |
| `LoadTest` (extends `EvmNode`) | basic and long ether tests | `test`, `delay`, `last`, `round`, `thread`, `nonce`, `succeed` | `Start`, `WaitOver`, `BeginRound`, `EndRound`, per thread `PendingNonce`, `SendOk`, `SendErr` |
| `BlockFetch` | `eth_blocks` | `time`, `start`, `next`, `fetched`, `reported` | `Begin`, `Check`, `AskAgain`, `FetchBefore`, `Fetch`, `End`, `Grow` |
| `LookupSend` (extends `EvmNode`) | `distribute`, `contract_deploy`, `contract_call`: the commands that let the web3 library look up the nonce | `command`, `key`, `broken` (inputs); `pc`; per job `at`, `nonce` | per job `Start`, `LookUp`, `SendOk`/`SendErr`, `Receipt`/`ReceiptErr`; `BadArguments`, `Panic`, `Return` |
| `Etl` | `etl_cmd` and the redis client | `redis`; per run `tm`, `abci` (its logs), `pc`, `line`, `low`/`high` = `min_height`/`max_height`, `bi`, `report`; history `clean` | one per redis request: `TmLine`, `AbciGet`, `AbciSet`, `ReportGet`, `ReportLast`; `Start`, `TmEnd`, `AbciEnd`, `ReportEnd`; `Die` between any two |
| `MCDistribution`, `MCLoadTest`, `MCEtl` | instances for TLC | | |
| `DistributionProofs`, `FundKeysProofs`, `TaskPoolProofs`, `LookupSendProofs`, `EtlProofs`, `LoadTestProofs`, `BlockFetchProofs`, `ChunkTestProofs` | proofs | | |

Definitions that a comment calls "Mutant of X" are X as a plausible bug would have
it. They are not part of any specification; they show that each property can fail.

Choices of abstraction:

- A hash is the nonce of its transaction, an error is the set of marker texts that
  `parse_error` looks for, a balance counts in deposits, a chunk is its length.
- A node refuses a transaction because its pool is full or its nonce is not the
  pending count. A fault is any other answer, including a timeout after which the
  transaction may still arrive, once. The node drops nothing and replaces nothing.
- `pending_nonce` passes no limit of tries to `pending_nonce_inner` (`lib.rs:239`), so
  it asks every 3 seconds until it is answered and its `None` is never seen. A failed
  try changes nothing: in the models it is the step not being taken yet.
- `wait_time`, sleeps and timeouts are only their order, except where polls or
  blocks are counted. So the seconds that the basic ether test sleeps after a round
  are left out: they promise no number of blocks.
- In `TaskPool` an operation succeeds, fails or panics. The client's runtime has
  one thread (`lib.rs:180`), so tasks run only while the caller waits,
  and the load and the store of `CUR_TASKS` are one step.
- In `FundKeys` the two flows share neither files nor accounts, so a behaviour is
  of one flow. `distribution` and `distribute` are abstracted to a deposit that is
  made, skipped, or made twice. The balance of the root account, which pays, is
  left out.
- In `ChunkTest` a phase whose send panicked is joined when all its sends are over;
  rayon may leave out the rest of the panicked part, so fewer sends than the model allows.
- In `LookupSend` the nonce that the library looks up may count the transactions in
  the node's pool or not: that is the library's and the node's affair, and the
  properties hold either way. The three commands are one module since they differ
  only in which job may start, in whether the arguments reach the task in order, and
  in how it ends. The limit on tasks is left out, since it never acts in the first
  call of a process (`FirstCall`), and no process makes a second one.
- In `Etl` a log is the sequence of the lines its parser picks; a log that cannot be
  opened is empty. Of a record's fields the block time and the three durations are
  kept; the counts and times that the same writes copy along are not. `u64::MAX`,
  the start of `min_height`, is `MaxHeight + 1`. A failed SET and a line that does
  not parse are unwraps, so both are `Die`.

The fund command is at present the only caller of `distribution`, with the one id
1. The gate, the flag and the ids are written for several callers on one client,
and the `contention` run checks that use, on one account and with one of the callers
retrying and waiting for receipts as the fund command does; that the safety
properties also hold for accounts of their own and for more callers that retry or
wait is proved, for every `Source`, `Retriers` and `Waiters`; `fund_stuck`, the run of the finding about
receipts, is the one caller there is.

## 3. Runs

| Run | Instance | Shows |
|---|---|---|
| `contention` | 2 senders on one account (one retries and waits, one does neither), 2 targets, pool of 1, 1 fault | flag protocol (`FlagMatchesRecovery`), refinement of `Backpressure`, `NonceNotAhead`, `MetricsTrue`, `NoDoublePay`, `UntouchedMeansRecovered`, `PaymentsInOrder`, `EveryoneSends`, `HashedReportReturns` |
| `fund_stuck` | 1 sender with retry and wait, 2 targets, pool of 1, 1 fault | violation: `WaitIsBounded` |
| `taskpool` | 2 calls of 2 tasks, 3-bit counters, queue of 2 | `CurCountsInFlight`, `ResultsExact`, `ReportConsistent`, `CrashNeedsLeakOrZero`, `CallsEnd`, `QueueFreezes` |
| `keys` | 3 runs, counts 0, 2 and 3, 4 keys, 2 faults or spendings | `PaidKeysSaved`, `KeysKept`, `PaidAsAsked` |
| `keys_load` | the same | violation: `WritesBack` |
| `chunk` | up to 3 chunks, 2 sources, 1 fault | `TwoPhasesPerBlock`, `WithdrawalsHaveDeposits`, `Terminates` |
| `chunk_stale` | the same | violation: `SendsAfterNewBlock` |
| `load` | 2 accounts, 3 rounds, pool of 2, 1 fault, delays 0 and 2 in both tests | `Paced`, `RoundsInOrder`, `AllRounds` |
| `blocks` | head up to 4, counts 0 to 2, gaps 1 and 3, 2 faults | `ReportGapless`, `EveryBlockReported` |
| `lookup` | the three commands with 3 jobs on 2 accounts, pool of 2, 2 faults | `PaidInOrder`, `OutcomesTrue`, `OnlyFaultsLose`, `CommandEnds` |
| `call_swapped` | the same | violation: `OnlyBrokenPanic` |
| `etl` | 2 runs with any of 3 tendermint and 2 abci logs, heights 0 to 2, symmetric | `RecordsFromLogs`, `CleanRunComplete` |

Each passing run also checks its module's type invariant.

Why the bounds are enough to meet the interesting cases: a pool of one is full
after the first payment, so every second one goes through the flag; two targets
let the nonce cell, retry and order of one sender disagree; one lost answer is
enough for a late arrival behind a probe and a retry. Three runs let a death be
followed by a `--load` and that by another; 3-bit counters wrap after two
doublings. Two calls are enough for a leaked count or a limit of 0 to reach the
throttle of the second. Three jobs let a payment that failed and one whose answer is
lost stand before a third, and two accounts let contract tasks share one and not the
other. Two ETL processes are enough for a change between the GET and the SET of
the other, for a run that repairs what a dead one left, and for a record that
mixes both; the logs execute a block twice, leave one out, name block 0, and give a
phase twice or of a block that has no record. The bounds `MaxFaults`, `MaxEvents`, `MaxRuns`, `MaxKeys`,
`Calls`, `MaxLead`, `MaxHead`, and `Rounds` for the long test, are no part of the
code: each is a guard of the action it bounds. `MaxLead` stops a chain that would
otherwise run away from a test that does nothing, and leaves it room to make two
blocks during one phase or round.

Fairness. `Distribution`: weak fairness of every sender, since each caller is a
thread of its own whose RPCs end (the client has a timeout), and of block
production. Weak fairness of a sender is of its whole `Step`, so no particular
answer is promised. `TaskPool`: of the caller, each task and each updater, since
tokio's queue is fair, operations end and sleeps end. `ChunkTest`: of the main
task, the producer and the chain. `LoadTest`: of the main thread, the threads of
the round and the chain. `BlockFetch`: of the program when it has an answer, and of
the chain. `LookupSend`: of each job, since the runtime polls whatever is ready and
requests end, of the end of the command, and of block production. `Etl` has only
safety properties. Faults are bounded in number in all of them: a node that fails for ever
is not looked at.

### Findings

Four runs end in a violation, each of something the repository says:

- `fund_stuck`: a metric without a hash makes the loop at `lib.rs:547` spin for
  ever, where `scripts/examples.sh:31` says "wait for the receipt, 3\*block_time
  maximum". The recovery loop leaves such a metric even when it paid.
- `chunk_stale`: `last` is read before the sends, so a block made meanwhile counts
  as the new one; `basic.rs:150` says "wait for a block and send again".
- `keys_load`: `--load` with a larger `--count` cannot write the new keys back
  (`fund.rs:35`), since `write_mnemonics` refuses a file that exists.
- `call_swapped`: a contract call never reaches the node. `TestClient::contract_call`
  passes the secret key and then the address (`lib.rs:762-763`) to a function that takes
  the address and then the key (`lib.rs:970-971`), so its first unwrap panics.
  `scripts/examples.sh:76-77` gives the call as a command that works, and `lib.rs:773`
  logs its transaction hash. In the model a panic that no broken file or key explains
  breaks `OnlyBrokenPanic`.

A fifth disagreement has no run. `commands/mod.rs:517` documents `--delay` as "Delay in
blocks", and `main.rs:234` calls it `delay_in_blocks`. The long test keeps to it. The basic
ether test sleeps that many seconds (`basic.rs:301`) and then waits for one block
(`basic.rs:280`); with a delay of 2 or more `DelayInBlocks` does not hold of it. `Paced`
therefore claims `DelayInBlocks` for the long test only, and for the basic test what its
code keeps, one block per round. Both tests are given the same delays in the run. The
prism and utxo tests are not given the option at all.

Not contradicted by any text, but shown by properties that hold: the throttle of
the task pool never acts in the first call of a process (theorem `FirstCall`); the
queue of averages never changes once it is full (`QueueFreezes`), so the updater
repeats its last decision until it is stopped.

## 4. Proofs

All theorems hold for every value of the constants that their modules' named
assumptions allow; nothing is assumed besides them. Every invariant and every action
property that a passing run checks is a theorem. Each proof has the same layout: an
inductive invariant made of named parts, a lemma that every step keeps it (one
step per action, or per effect where a lemma first reduces the actions to the few
effects they have on the state in question), a lemma for `Init`, and the temporal
theorem that joins them.

**`DistributionProofs`** (any number of senders, targets, accounts, faults and polls,
any pool size).
- `TypeCorrect`: the type invariant is inductive.
- `FlagProtocol`: `FlagMatchesRecovery` is inductive with the types: the flag is taken
  only from 0 by a sender that enters recovery, and left only by its holder, so the
  panic on a flag in another's hands is never reached.
- `BoundedOverrun`: `SlipsBounded` is not inductive, since it does not say where a
  sender is. `SlipBudget` ties the number of slips to the program counter: what a
  sender that has passed the gate, or will retry, may still submit is part of the
  budget. `SafetyInv == TypeOK /\ FlagMatchesRecovery /\ SlipBudget`.
- `RefinesBackpressure`: from `SafetyInv`, each step is a `Grant`, a `Yield`, a
  `Slip` or a stutter of `Backpressure` under `holder <- flag`.
- `LedgerShape` reduces every step to one of four effects on the chain, for all that
  follows.
- `NoncesNotAhead`: nonces are only read from the pending count, or raised after an
  acceptance, and the chain only grows.
- `HashesAccepted`: a recorded hash is below the pending count, and the entry there
  never changes.
- `PaymentOrder`: `PaymentsInOrder` needs that what is in the chain, and what may
  still arrive late, is not ahead of the sender's current target:
  `OrderInv == PaymentsInOrder /\ Behind /\ LateBehind`.
- `SilentMeansPaid`: `NotedInv`. As soon as the loop is through with a target, which
  with retry includes the places `clear`, `release`, `retry` and `refetch`, that target has
  a status, a hash, or a payment in the chain. The last is what the recovery loop
  leaves behind, and it does not go away, as the chain only grows.
- `ReportsAreTrue`: `ReportInv == ReportedSuccess /\ OnlyAfterReceipt`. A metric has
  status 1 only when the receipt loop is past it, so nothing overwrites its hash any
  more; and what was mined stays mined with the receipt it had. With `HashesAccepted` it
  gives `MetricsAreTrue`, whose `MetricsTrue` the `contention` run checks.
- `PaidOnce`: the payments of a target split into those that are late deliveries and the
  others. `DirectOnce`: of the others there is at most one, and once it is there the
  loop is through with the target (`Through`). `NoDoublePay` follows by counting, as
  each late delivery is a lost request of its own.

**`TaskPoolProofs`** (any number of calls and tasks, any limits).
- `FirstCall`: until the caller first waits, the counters are those of the start
  (`Untouched`).
- `FullQueueFreezes`: what recording does to a full queue.
- `CounterCounts`: `CountInv` adds that only spawned tasks leave their first state and
  uses that the modulus exceeds the number of tasks, so the counter does not wrap;
  each task action moves the two sets it counts by one element (lemma `Moves`).
- `PoolTypes`: `TypeInv == TypeOK /\ Control`. That the mutex's waiters stay a queue
  without repetition needs to know who is where; that an updater that sleeps owns it
  is what makes its release legal.
- `CrashHasACause` and `ReportsOneMoment`: `PoolInv`. As long as no task panicked every
  task spawned is over or its handle is in the queue or awaited (`Accounted`), so with
  an empty queue nothing is in flight, and by `CountInv` the throttle acts only for a
  limit of 0. When the two numbers of the report are read, all tasks are over and none
  can change the statistics between the reads (`Reported`).
- `StatisticsExact`: `ResultsExact` speaks of a sum over a set of tasks. `SumExists`,
  `SumTakes` and `SumLocal` show that this sum exists for a finite set, does not depend on
  the order, grows by the time of the task that joins and ignores the others; a step
  then records nothing, or one task.

**`FundKeysProofs`** (any keys, runs, deaths and faults).
- `PaidKeysAreSaved`, `KeysStay`: `SavedInv == Types /\ MemoryMatchesDisk /\
  PaidKeysSaved` says at each place of a run how the keys in memory, the file and the
  `.bak` relate (what is about to be written contains what was there, what is about to
  be paid is written).
- `FundTypesHold`: the type invariant, on `SavedInv`.
- `PaysAsAsked`: `AskInv`. In a run without a fault nothing moves until the first
  payment (`Untouched`), so the choice by the balances of the moment is the choice by
  those of the start; while the run pays, each account has what it had plus, if a deposit
  was due and it is no longer among the targets, that deposit (`Owed`). The choice and the payments read balances at different times,
  which is why the invariant needs both.

**`LookupSendProofs`** (any number of jobs and accounts, any pool size).
- `LookupTypes`: the type invariant.
- `PaidOnceInOrder`: `PaidInOrder` for `distribute`. Its `OrderInv` adds that no
  looked-up nonce is ahead of the chain (`Bounds`), that only one job is under way
  (`OneByOne`), that what is in the chain, or may still arrive, is of a job that was
  sent (`PaidSent`, `LateSent`), and that the next place of the chain is not open to
  a request given up before a later payment took it (`LateNext`). `JobShape` and
  `ChainShape` reduce a step to what it does to a job and to the chain.
- `OutcomesAreTrue`, `FaultsExplainLosses`: `OutcomeInv` adds what a job's place says of
  the chain (`Accounted`), and that a `distribute` without faults has at most the payment
  it waits for in the pool (`Smooth`), so there is room for the next one once that is
  mined (`RoomWhenMined`). The first part gives `OutcomesTrue`, the second `OnlyFaultsLose`.

**`LoadTestProofs`** (any accounts, rounds, pool size and rate).
- `LoadTypes`: `TypeInv == TypeOK /\ Control`; a thread of an account runs only in a
  round.
- `KeepsPace`: `WaitsPaced`: the last height is at least `Gap`, which is `--delay` in the
  long test and 1 in the basic one, times the number of waits that are over.
- `RoundOrder`: `OrderInv` adds that the chain, and what may still arrive, is not ahead
  of the current round (`RoundsBehind`, `LateBehind`) nor a nonce ahead of the chain
  (`NonceBehind`). A late request of an earlier round keeps its old nonce, so it arrives
  only where no later round was accepted.

**`ChunkTestProofs`** (any chunks and sources).
- `ChunkTypes`: which phases there can be depends on the chunks taken so far, one each
  in the utxo test and a deposit, odd, and a withdrawal, even, in the prism test.
- `PoolStaysSmall`: `PoolInv`. The stale height ends a wait at once only if a block was
  made during the phase, and that block took what earlier phases had left.
- `DepositsFirst`: `DepositInv`: in a deposit phase the accounts done so far have their
  deposits, since the first failure panics; the withdrawal phase keeps that.

**`BlockFetchProofs`** (any range, gap and chain).
- `FetchTypes`, `NothingSkipped`: `Inv == TypeOK /\ Progress /\ ReportGapless`:
  `next` is the start plus the length of the report, and the timestamp at hand is that
  of the block before it.

**`EtlProofs`** (any processes, logs, times and heights).
- `EtlTypes`: the types, which include that no block time is negative.
- `RecordsTrue`: a record, in redis or in the hands of a run between GET and SET, is
  made of lines about its block.
- `CleanRunRepairs`: as long as a run is clean its redis has what the lines read so far
  say, a record it holds is still the one in redis, and the report agrees with redis up
  to the current height; until another run starts, which ends the cleanness, no other
  one is active (`Alone`). `CleanInv` joins these.

Sums over sets (`SumOf` of `TaskPool`, the pending counts of `RoomWhenMined`) would be
proved by induction, but the induction theorems of the library take an operator that no
installed prover can instantiate. Both proofs use well-foundedness instead: among the
sets that do not have the property there is a smallest one (`WFMin` on the strict
subset order), and taking one element out of it gives a contradiction.

Only model-checked: the liveness properties `EveryoneSends`, `HashedReportReturns`,
`CallsEnd`, `Terminates`, `AllRounds`, `EveryBlockReported` and `CommandEnds`, since the
prover has no rules for fairness and `ENABLED`; and the four runs that end in a
violation, which are counterexamples and need no proof.

## 5. Not modelled

- The profiler library: it counts its users under one mutex, but no crate of the
  workspace uses it, so no order of calls is there to be modelled; the profiler
  command is one HTTP request.
- `wait_for_tx_receipt`, `wait_receipt` and `para_eth_blocks`: no caller.
- `contract_query`: reads only.
- Key generation and the building of transactions: cryptography and data.
- Parsing of the command line, single requests whose answer is printed, shell
  scripts.
- A node that drops or replaces transactions, reorganises, or fails for ever.
- Two fund commands on one file at once.

## 6. Plan

Done, in the order of importance: the node and the distribution with its abstract
specification; the task pool; the fund command; the tests; the block report; the
commands with looked-up nonces; the ETL; a proof of every invariant and action
property that the runs check.

Next, proofs: an abstract specification of the payments of an account (in order, each
at most once and once more per lost request) that `Distribution`, `LookupSend` and
`LoadTest` implement, so that what the three have in common is stated once; the mutex
of `RES_QUEUE_SECS` as a lock with one owner that `TaskPool` implements.
