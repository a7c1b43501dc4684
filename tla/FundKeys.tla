------------------------------ MODULE FundKeys ------------------------------
(***************************************************************************)
(* The fund command (src/feth/src/commands/fund.rs): it makes key pairs,   *)
(* saves them in a source file, and pays the accounts in it.  A run may    *)
(* die between any two steps; what is on disk, in the pool and on the      *)
(* chain stays, what is in memory is gone.  Balances count in deposits.    *)
(***************************************************************************)
EXTENDS Naturals, FiniteSets

CONSTANTS
  Counts,       \* what --count may be
  RootBalance,  \* what the funding account has, in deposits
  MaxRuns,      \* bound: runs of the command
  MaxKeys,      \* bound: key pairs ever made
  MaxEvents     \* bound: RPC faults and spendings by other commands

ASSUME CountsAssumption == Counts \subseteq Nat
ASSUME BoundsAssumption == {RootBalance, MaxRuns, MaxKeys, MaxEvents} \subseteq Nat

VARIABLES
  flow,     \* --utxo or not; the two flows share neither files nor accounts
  pc,       \* where the run is; "down" when none runs
  opts,     \* its other options
  runs,     \* runs begun
  made,     \* key pairs made: the keys are 1..made
  file,     \* the source file
  bak,      \* the file with the extension .bak
  keys,     \* source_keys, mnemonics
  todo,     \* keys that filter_map has not seen yet
  targets,  \* source_accounts
  balance,  \* balance[k]: mined deposits less what was spent
  pending,  \* pending[k]: deposits in the pool
  events,   \* faults and spendings so far
  before,   \* history: balance when the run began
  calm,     \* history: nothing was pending then, no fault or spending since
  outcome   \* history: how the last run ended

vars == <<flow, pc, opts, runs, made, file, bak, keys, todo, targets, balance,
          pending, events, before, calm, outcome>>
memoryVars == <<keys, todo, targets>>
diskVars == <<file, bak>>
chainVars == <<balance, pending, events, calm>>
runVars == <<flow, opts, runs, before>>

Keys == 1..MaxKeys
Options == [load : BOOLEAN, redeposit : BOOLEAN, count : Counts]

\* A file is absent, cut off by the death of its writer, or whole.
File(state, ks) == [state |-> state, keys |-> ks]
Absent == File("absent", {})

Init ==
  /\ flow \in {"eth", "utxo"}
  /\ pc = "down"
  /\ opts \in Options
  /\ runs = 0 /\ made = 0 /\ events = 0
  /\ file = Absent /\ bak = Absent
  /\ keys = {} /\ todo = {} /\ targets = {}
  /\ balance = [k \in Keys |-> 0] /\ pending = balance /\ before = balance
  /\ calm = TRUE
  /\ outcome = "none"

Launch ==
  /\ pc = "down" /\ runs < MaxRuns
  /\ runs' = runs + 1
  /\ opts' \in Options
  /\ pc' = "open"
  /\ before' = balance
  /\ calm' = (\A k \in Keys : pending[k] = 0)
  /\ outcome' = "running"
  /\ UNCHANGED <<flow, made, diskVars, memoryVars, balance, pending, events>>

\* The end of the process forgets the memory.
End(how) ==
  /\ pc' = "down" /\ outcome' = how
  /\ keys' = {} /\ todo' = {} /\ targets' = {}

Goto(l) == pc' = l /\ UNCHANGED outcome

Event == events < MaxEvents /\ events' = events + 1 /\ calm' = FALSE

\* generate_mnemonic, one_eth_key: keys' gets n new ones.
AddKeys(n) ==
  /\ made + n <= MaxKeys
  /\ made' = made + n
  /\ keys' = keys \cup (made + 1)..(made + n)

Crash ==
  /\ pc # "down"
  /\ End("killed")
  /\ calm' = FALSE
  /\ UNCHANGED <<runVars, made, diskVars, balance, pending, events>>
-----------------------------------------------------------------------------
\* fund_accounts, --load: anything but a whole file is an unwrap panic.
EthLoad ==
  /\ flow = "eth" /\ pc = "open" /\ opts.load
  /\ IF file.state = "whole"
       THEN keys' = file.keys /\ Goto("grow") /\ UNCHANGED <<todo, targets>>
       ELSE End("failed")
  /\ UNCHANGED <<runVars, made, diskVars, chainVars>>

\* A balance that cannot be read is 0, which is too little.
EthFresh ==
  /\ flow = "eth" /\ pc = "open" /\ ~opts.load
  /\ \/ /\ file.state = "absent" /\ opts.count + 1 < RootBalance
        /\ AddKeys(opts.count)
        /\ Goto("create")
        /\ UNCHANGED <<todo, targets, chainVars>>
     \/ /\ file.state # "absent" \/ opts.count + 1 >= RootBalance
        /\ End("failed")
        /\ UNCHANGED <<made, chainVars>>
     \/ Event /\ End("failed") /\ UNCHANGED <<made, balance, pending>>
  /\ UNCHANGED <<runVars, diskVars>>

\* fs::write makes the file, then fills it.
EthCreate ==
  /\ flow = "eth" /\ pc = "create"
  /\ file' = File("torn", {})
  /\ Goto("write")
  /\ UNCHANGED <<runVars, made, bak, memoryVars, chainVars>>

EthWrite ==
  /\ flow = "eth" /\ pc = "write"
  /\ file' = File("whole", keys)
  /\ Goto("grow")
  /\ UNCHANGED <<runVars, made, bak, memoryVars, chainVars>>

Missing == opts.count > Cardinality(keys)

\* Mutant of EthGrow: the longer list is never written.
GrowInMemory ==
  /\ flow = "eth" /\ pc = "grow"
  /\ IF Missing THEN AddKeys(opts.count - Cardinality(keys)) ELSE UNCHANGED <<made, keys>>
  /\ todo' = keys'
  /\ Goto("select")
  /\ UNCHANGED <<runVars, targets, diskVars, chainVars>>

\* Mutant of EthGrow: the longer list goes into the file itself.
GrowInPlace ==
  /\ flow = "eth" /\ pc = "grow"
  /\ IF Missing
       THEN AddKeys(opts.count - Cardinality(keys)) /\ Goto("create") /\ UNCHANGED todo
       ELSE todo' = keys /\ Goto("select") /\ UNCHANGED <<made, keys>>
  /\ UNCHANGED <<runVars, targets, diskVars, chainVars>>

EthGrow ==
  /\ flow = "eth" /\ pc = "grow"
  /\ IF Missing
       THEN AddKeys(opts.count - Cardinality(keys)) /\ Goto("bak") /\ UNCHANGED todo
       ELSE todo' = keys /\ Goto("select") /\ UNCHANGED <<made, keys>>
  /\ UNCHANGED <<runVars, targets, diskVars, chainVars>>

BakCreate ==
  /\ pc = "bak"
  /\ bak' = File("torn", {})
  /\ Goto("bakwrite")
  /\ UNCHANGED <<runVars, made, file, memoryVars, chainVars>>

BakWrite ==
  /\ pc = "bakwrite"
  /\ bak' = File("whole", keys)
  /\ Goto("rename")
  /\ UNCHANGED <<runVars, made, file, memoryVars, chainVars>>

Rename ==
  /\ pc = "rename"
  /\ file' = bak /\ bak' = Absent
  /\ todo' = keys
  /\ Goto("select")
  /\ UNCHANGED <<runVars, made, keys, targets, chainVars>>

\* The order of the file.
Oldest(K) == {k \in K : \A j \in K : k <= j}

\* Mutant of EthSelect: the comparison takes equality along.
SelectEqual ==
  /\ pc = "select" /\ todo # {}
  /\ \E k \in Oldest(todo) :
       /\ todo' = todo \ {k}
       /\ targets' = IF ~opts.redeposit \/ balance[k] <= 1 THEN targets \cup {k} ELSE targets
  /\ UNCHANGED <<runVars, pc, outcome, made, keys, diskVars, chainVars>>

\* A balance that cannot be read is 0: the account is paid.
EthSelect ==
  /\ pc = "select" /\ todo # {}
  /\ \E k \in Oldest(todo) :
       /\ todo' = todo \ {k}
       /\ \/ /\ ~opts.redeposit \/ balance[k] < 1
             /\ targets' = targets \cup {k}
             /\ UNCHANGED chainVars
          \/ /\ opts.redeposit /\ balance[k] >= 1
             /\ UNCHANGED <<targets, chainVars>>
          \/ /\ opts.redeposit /\ Event
             /\ targets' = targets \cup {k}
             /\ UNCHANGED <<balance, pending>>
  /\ UNCHANGED <<runVars, pc, outcome, made, keys, diskVars>>

\* Mutant of EthSelected: a lazy filter_map, paid from before it is through.
SelectedLazily ==
  /\ pc = "select"
  /\ Goto("pay")
  /\ UNCHANGED <<runVars, made, memoryVars, diskVars, chainVars>>

EthSelected ==
  /\ pc = "select" /\ todo = {}
  /\ Goto("pay")
  /\ UNCHANGED <<runVars, made, memoryVars, diskVars, chainVars>>

\* distribution or distribute, as far as the accounts see it: with faults a
\* deposit may be skipped, or made twice.
EthPay ==
  /\ pc = "pay" /\ targets # {}
  /\ \E k \in Oldest(targets) :
       /\ targets' = targets \ {k}
       /\ \/ pending' = [pending EXCEPT ![k] = @ + 1] /\ UNCHANGED <<events, calm>>
          \/ Event /\ \E n \in {0, 2} : pending' = [pending EXCEPT ![k] = @ + n]
  /\ UNCHANGED <<runVars, pc, outcome, made, keys, todo, diskVars, balance>>

EthDone ==
  /\ pc = "pay" /\ targets = {}
  /\ End("ok")
  /\ UNCHANGED <<runVars, made, diskVars, chainVars>>
-----------------------------------------------------------------------------
\* fund_utxo_accounts, --load: the lines of a cut off file are read like those
\* of a whole one; only a half line at its end is no mnemonic.
UtxoLoad ==
  /\ flow = "utxo" /\ pc = "open" /\ opts.load
  /\ \/ file.state # "absent" /\ keys' = file.keys /\ Goto("extend") /\ UNCHANGED <<todo, targets>>
     \/ file.state # "whole" /\ End("failed")
  /\ UNCHANGED <<runVars, made, diskVars, chainVars>>

UtxoExtend ==
  /\ flow = "utxo" /\ pc = "extend"
  /\ IF Missing
       THEN AddKeys(opts.count - Cardinality(keys)) /\ Goto("create")
       ELSE Goto("transfer") /\ UNCHANGED <<made, keys>>
  /\ UNCHANGED <<runVars, todo, targets, diskVars, chainVars>>

UtxoFresh ==
  /\ flow = "utxo" /\ pc = "open" /\ ~opts.load
  /\ IF file.state = "absent"
       THEN AddKeys(opts.count) /\ Goto("create") /\ UNCHANGED <<todo, targets>>
       ELSE End("failed") /\ UNCHANGED made
  /\ UNCHANGED <<runVars, diskVars, chainVars>>

\* write_mnemonics opens with create_new, which refuses a file that exists.
UtxoCreate ==
  /\ flow = "utxo" /\ pc = "create"
  /\ IF file.state = "absent"
       THEN /\ \E n \in Keys : file' = File("torn", {k \in keys : k < n})
            /\ Goto("write")
            /\ UNCHANGED memoryVars
       ELSE End("failed") /\ UNCHANGED file
  /\ UNCHANGED <<runVars, made, bak, chainVars>>

UtxoWrite ==
  /\ flow = "utxo" /\ pc = "write"
  /\ file' = File("whole", keys)
  /\ Goto("transfer")
  /\ UNCHANGED <<runVars, made, bak, memoryVars, chainVars>>

\* One transaction pays all; its answer may be lost with it or without it.
UtxoTransfer ==
  /\ pc = "transfer"
  /\ LET paid == [k \in Keys |-> IF k \in keys THEN pending[k] + 1 ELSE pending[k]] IN
       \/ pending' = paid /\ End("ok") /\ UNCHANGED <<events, calm>>
       \/ Event /\ pending' \in {pending, paid} /\ End("failed")
  /\ UNCHANGED <<runVars, made, diskVars, balance>>
-----------------------------------------------------------------------------
Mine ==
  /\ \E k \in Keys : pending[k] > 0
  /\ balance' = [k \in Keys |-> balance[k] + pending[k]]
  /\ pending' = [k \in Keys |-> 0]
  /\ UNCHANGED <<runVars, pc, outcome, made, memoryVars, diskVars, events, calm>>

\* The tests spend what the accounts have.
Spend ==
  /\ Event
  /\ \E k \in Keys :
       balance[k] > 0 /\ balance' = [balance EXCEPT ![k] = @ - 1]
  /\ UNCHANGED <<runVars, pc, outcome, made, memoryVars, diskVars, pending>>

\* No run is under way and the next one may never come.
Idle == pc = "down" /\ UNCHANGED vars

Eth == \/ EthLoad \/ EthFresh \/ EthCreate \/ EthWrite \/ EthGrow \/ BakCreate
       \/ BakWrite \/ Rename \/ EthSelect \/ EthSelected \/ EthPay \/ EthDone
Utxo == \/ UtxoLoad \/ UtxoExtend \/ UtxoFresh \/ UtxoCreate \/ UtxoWrite
        \/ UtxoTransfer

Next == Launch \/ Crash \/ Eth \/ Utxo \/ Mine \/ Spend \/ Idle

Spec == Init /\ [][Next]_vars
-----------------------------------------------------------------------------
(***************************************************************************)
(* Properties.                                                             *)
(***************************************************************************)

\* Every variable stays in its type, and all balances are read before the
\* first payment (collect, fund.rs:140), so that no payment changes the choice.
TypeOK ==
  /\ flow \in {"eth", "utxo"}
  /\ pc \in {"down", "open", "create", "write", "grow", "bak", "bakwrite",
             "rename", "select", "pay", "extend", "transfer"}
  /\ opts \in Options
  /\ {runs, made, events} \subseteq Nat
  /\ {file, bak} \subseteq [state : {"absent", "torn", "whole"}, keys : SUBSET Keys]
  /\ {keys, todo, targets} \subseteq SUBSET Keys
  /\ todo \cup targets \subseteq keys
  /\ todo # {} => pc = "select"
  /\ {balance, pending, before} \subseteq [Keys -> Nat]
  /\ calm \in BOOLEAN
  /\ outcome \in {"none", "running", "ok", "failed", "killed"}

\* No account is ever paid whose key is in memory only: a run that dies
\* (fund.rs:98-117 saves first, then pays) never loses the money it sent.
PaidKeysSaved ==
  \A k \in Keys : balance[k] + pending[k] > 0 => k \in file.keys

\* Whatever step a run dies at, and however the file is made longer (.bak and
\* rename, fund.rs:105-117), a key that was in the file stays in it.
KeysKept == [][file.keys \subseteq file'.keys]_vars

\* A run that ends well, meets no fault and starts with nothing pending has
\* paid every account in the file once; with --redeposit those with less than
\* a deposit and no others (scripts/examples.sh:17, fund.rs:125-131).
PaidAsAsked ==
  outcome = "ok" /\ calm =>
    \A k \in file.keys :
      balance[k] + pending[k] =
        before[k] + (IF flow = "eth" /\ opts.redeposit /\ before[k] >= 1 THEN 0 ELSE 1)

\* "//write new keys back" (fund.rs:35): a run with --load and a larger --count
\* leaves a file of that many keys, unless something goes wrong around it.
WritesBack ==
  outcome \in {"ok", "failed"} /\ calm /\ opts.load /\ file.state = "whole" =>
    Cardinality(file.keys) >= opts.count
=============================================================================
