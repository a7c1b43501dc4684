--------------------------- MODULE FundKeysProofs ---------------------------
(***************************************************************************)
(* Proofs about FundKeys: for every number of runs, keys and faults, no    *)
(* account is paid whose key is not on disk, and no key leaves the file.   *)
(***************************************************************************)
EXTENDS FundKeys, FiniteSetTheorems, TLAPS

Types ==
  /\ flow \in {"eth", "utxo"}
  /\ file.state = "absent" => file.keys = {}
  /\ balance \in [Keys -> Nat]
  /\ pending \in [Keys -> Nat]

\* What memory and disk have to do with each other at each place of a run: what
\* is about to be written is all that was there before, what is about to be
\* paid is written.
MemoryMatchesDisk ==
  /\ targets \cup todo \subseteq keys
  /\ pc \notin {"select", "pay"} => targets = {} /\ todo = {}
  /\ pc = "create" /\ flow = "eth" => file.state = "absent"
  /\ pc \in {"write", "bak", "bakwrite", "rename"} => file.keys \subseteq keys
  /\ pc \in {"bak", "bakwrite", "rename", "grow", "select", "pay"} => flow = "eth"
  /\ pc \in {"extend", "transfer"} => flow = "utxo"
  /\ pc = "rename" => bak = File("whole", keys)
  /\ pc \in {"grow", "select", "pay", "extend", "transfer"} => keys = file.keys

SavedInv == Types /\ MemoryMatchesDisk /\ PaidKeysSaved

\* Nothing is paid while balance and pending stay, and keys stay in the file.
LEMMA NothingPaid ==
  ASSUME PaidKeysSaved, balance' = balance, pending' = pending,
         file.keys \subseteq file'.keys
  PROVE  PaidKeysSaved'
BY DEF PaidKeysSaved, Keys

\* A file that is there already, or is made now, only gets more keys.
LEMMA FileGrows ==
  ASSUME SavedInv, Next
  PROVE  file.keys \subseteq file'.keys
<1>1. CASE EthCreate
  BY <1>1 DEF EthCreate, SavedInv, Types, MemoryMatchesDisk, File
<1>2. CASE EthWrite
  BY <1>2 DEF EthWrite, SavedInv, MemoryMatchesDisk, File
<1>3. CASE Rename
  BY <1>3 DEF Rename, SavedInv, MemoryMatchesDisk, File
<1>4. CASE UtxoCreate
  BY <1>4 DEF UtxoCreate, SavedInv, Types, File
<1>5. CASE UtxoWrite
  BY <1>5 DEF UtxoWrite, SavedInv, MemoryMatchesDisk, File
<1>6. CASE UNCHANGED file
  BY <1>6
<1>7. (Launch \/ Crash \/ Mine \/ Spend \/ Idle) => UNCHANGED file
  BY DEF Launch, Crash, Mine, Spend, Idle, vars, diskVars
<1>8. (EthLoad \/ EthFresh \/ EthGrow \/ BakCreate \/ BakWrite \/ EthSelect
         \/ EthSelected \/ EthPay \/ EthDone) => UNCHANGED file
  BY DEF EthLoad, EthFresh, EthGrow, BakCreate, BakWrite, EthSelect, EthSelected,
         EthPay, EthDone, diskVars
<1>9. (UtxoLoad \/ UtxoExtend \/ UtxoFresh \/ UtxoTransfer) => UNCHANGED file
  BY DEF UtxoLoad, UtxoExtend, UtxoFresh, UtxoTransfer, diskVars
<1> QED
  BY <1>1, <1>2, <1>3, <1>4, <1>5, <1>6, <1>7, <1>8, <1>9 DEF Next, Eth, Utxo

LEMMA SavedInit == Init => SavedInv
BY DEF Init, SavedInv, Types, MemoryMatchesDisk, PaidKeysSaved, Absent, File, Keys

\* A deposit more keeps the counts in their type.
LEMMA Deposited ==
  ASSUME NEW f \in [Keys -> Nat], NEW k, NEW n \in Nat
  PROVE  [f EXCEPT ![k] = @ + n] \in [Keys -> Nat]
<1>1. ASSUME NEW j \in Keys
      PROVE  [f EXCEPT ![k] = @ + n][j] \in Nat
  <2>1. CASE j = k
    BY <2>1
  <2>2. CASE j # k
    BY <2>2
  <2> QED
    BY <2>1, <2>2
<1> QED
  BY <1>1

\* Where the balances are touched, they stay natural numbers.
LEMMA TypesStep ==
  ASSUME SavedInv, Next
  PROVE  Types'
<1> USE DEF SavedInv, Types
<1>1. CASE Launch
  BY <1>1 DEF Launch, diskVars
<1>2. CASE Crash
  BY <1>2 DEF Crash, diskVars, runVars
<1>3. CASE Mine
  BY <1>3 DEF Mine, diskVars, runVars
<1>4. CASE Spend
  <2>1. PICK k \in Keys : balance[k] > 0 /\ balance' = [balance EXCEPT ![k] = @ - 1]
    BY <1>4 DEF Spend
  <2> QED
    BY <1>4, <2>1 DEF Spend, diskVars, runVars
<1>5. CASE Idle
  BY <1>5 DEF Idle, vars, runVars
<1>6. CASE EthLoad \/ EthSelected \/ EthDone \/ BakCreate \/ BakWrite \/ EthGrow
  BY <1>6 DEF EthLoad, EthSelected, EthDone, BakCreate, BakWrite, EthGrow,
              diskVars, runVars, chainVars
<1>7. CASE EthFresh \/ UtxoExtend \/ UtxoFresh \/ UtxoLoad
  BY <1>7 DEF EthFresh, UtxoExtend, UtxoFresh, UtxoLoad, diskVars, runVars, chainVars
<1>8. CASE EthCreate \/ EthWrite \/ UtxoCreate \/ UtxoWrite
  BY <1>8 DEF EthCreate, EthWrite, UtxoCreate, UtxoWrite, File, runVars, chainVars
<1>9. CASE Rename
  BY <1>9 DEF Rename, MemoryMatchesDisk, File, runVars, chainVars
<1>10. CASE EthSelect
  BY <1>10 DEF EthSelect, diskVars, runVars, chainVars
<1>11. CASE EthPay
  <2>1. PICK k \in targets, n \in {0, 1, 2} : pending' = [pending EXCEPT ![k] = @ + n]
    BY <1>11 DEF EthPay, Oldest
  <2>2. n \in Nat
    OBVIOUS
  <2>3. pending' \in [Keys -> Nat]
    BY <2>1, <2>2, Deposited
  <2> QED
    BY <1>11, <2>3 DEF EthPay, diskVars, runVars
<1>12. CASE UtxoTransfer
  <2>1. pending' \in {pending, [k \in Keys |-> IF k \in keys THEN pending[k] + 1 ELSE pending[k]]}
    BY <1>12 DEF UtxoTransfer
  <2> QED
    BY <1>12, <2>1 DEF UtxoTransfer, diskVars, runVars
<1> QED
  BY <1>1, <1>2, <1>3, <1>4, <1>5, <1>6, <1>7, <1>8, <1>9, <1>10, <1>11, <1>12
     DEF Next, Eth, Utxo

LEMMA DiskStep ==
  ASSUME SavedInv, Next
  PROVE  MemoryMatchesDisk'
<1> USE DEF SavedInv, MemoryMatchesDisk
<1>1. CASE Launch
  BY <1>1 DEF Launch, diskVars, memoryVars
<1>2. CASE Crash
  BY <1>2 DEF Crash, End
<1>3. CASE Mine \/ Spend \/ Idle
  BY <1>3 DEF Mine, Spend, Idle, vars, diskVars, memoryVars, runVars
<1>4. CASE EthLoad
  BY <1>4 DEF EthLoad, Goto, End, diskVars, runVars
<1>5. CASE EthFresh
  BY <1>5 DEF EthFresh, Goto, End, AddKeys, diskVars, runVars
<1>6. CASE EthCreate
  BY <1>6 DEF EthCreate, Goto, File, memoryVars, runVars
<1>7. CASE EthWrite
  BY <1>7 DEF EthWrite, Goto, File, memoryVars, runVars
<1>8. CASE EthGrow
  <2>1. CASE Missing
    BY <1>8, <2>1 DEF EthGrow, Goto, AddKeys, diskVars, runVars
  <2>2. CASE ~Missing
    BY <1>8, <2>2 DEF EthGrow, Goto, diskVars, runVars
  <2> QED
    BY <2>1, <2>2
<1>9. CASE BakCreate \/ BakWrite
  BY <1>9 DEF BakCreate, BakWrite, Goto, memoryVars, runVars
<1>10. CASE Rename
  BY <1>10 DEF Rename, Goto, File, runVars
<1>11. CASE EthSelect
  BY <1>11 DEF EthSelect, Oldest, diskVars, runVars
<1>12. CASE EthSelected
  BY <1>12 DEF EthSelected, Goto, memoryVars, diskVars, runVars
<1>13. CASE EthPay
  BY <1>13 DEF EthPay, diskVars, runVars
<1>14. CASE EthDone
  BY <1>14 DEF EthDone, End, diskVars, runVars
<1>15. CASE UtxoLoad
  BY <1>15 DEF UtxoLoad, Goto, End, diskVars, runVars
<1>16. CASE UtxoExtend
  <2>1. CASE Missing
    BY <1>16, <2>1 DEF UtxoExtend, Goto, AddKeys, diskVars, runVars
  <2>2. CASE ~Missing
    BY <1>16, <2>2 DEF UtxoExtend, Goto, diskVars, runVars
  <2> QED
    BY <2>1, <2>2
<1>17. CASE UtxoFresh
  BY <1>17 DEF UtxoFresh, Goto, End, AddKeys, diskVars, runVars
<1>18. CASE UtxoCreate
  BY <1>18 DEF UtxoCreate, Goto, End, File, memoryVars, runVars
<1>19. CASE UtxoWrite
  BY <1>19 DEF UtxoWrite, Goto, File, memoryVars, runVars
<1>20. CASE UtxoTransfer
  BY <1>20 DEF UtxoTransfer, End, diskVars, runVars
<1> QED
  BY <1>1, <1>2, <1>3, <1>4, <1>5, <1>6, <1>7, <1>8, <1>9, <1>10, <1>11, <1>12,
     <1>13, <1>14, <1>15, <1>16, <1>17, <1>18, <1>19, <1>20 DEF Next, Eth, Utxo

\* Whom a step pays was chosen among the keys of the file.
LEMMA PaidStep ==
  ASSUME SavedInv, Next
  PROVE  PaidKeysSaved'
<1> USE DEF SavedInv, Types
<1>1. file.keys \subseteq file'.keys
  BY FileGrows
<1>2. ASSUME NEW k \in Keys, balance'[k] + pending'[k] > 0,
             balance[k] + pending[k] = 0
      PROVE  k \in file.keys
  <2>1. CASE EthPay
    <3>1. PICK j \in targets, n \in {0, 1, 2} : pending' = [pending EXCEPT ![j] = @ + n]
      BY <2>1 DEF EthPay, Oldest
    <3>2. k = j
      BY <1>2, <2>1, <3>1 DEF EthPay
    <3>3. targets \subseteq file.keys
      BY <2>1 DEF EthPay, MemoryMatchesDisk
    <3> QED
      BY <3>2, <3>3
  <2>2. CASE UtxoTransfer
    <3>1. pending' \in {pending, [j \in Keys |-> IF j \in keys THEN pending[j] + 1 ELSE pending[j]]}
      BY <2>2 DEF UtxoTransfer
    <3>2. k \in keys
      BY <1>2, <2>2, <3>1 DEF UtxoTransfer
    <3> QED
      BY <2>2, <3>2 DEF UtxoTransfer, MemoryMatchesDisk
  <2>3. CASE Spend
    <3>1. PICK j \in Keys : balance[j] > 0 /\ balance' = [balance EXCEPT ![j] = @ - 1]
      BY <2>3 DEF Spend
    <3> QED
      BY <1>2, <2>3, <3>1 DEF Spend
  <2>4. CASE Mine
    BY <1>2, <2>4 DEF Mine
  <2>5. CASE UNCHANGED <<balance, pending>>
    BY <1>2, <2>5
  <2>6. (Launch \/ Crash \/ Idle) => UNCHANGED <<balance, pending>>
    BY DEF Launch, Crash, Idle, vars
  <2>7. (EthLoad \/ EthFresh \/ EthCreate \/ EthWrite \/ EthGrow \/ BakCreate \/ BakWrite)
          => UNCHANGED <<balance, pending>>
    BY DEF EthLoad, EthFresh, EthCreate, EthWrite, EthGrow, BakCreate, BakWrite, chainVars
  <2>8. (Rename \/ EthSelect \/ EthSelected \/ EthDone) => UNCHANGED <<balance, pending>>
    BY DEF Rename, EthSelect, EthSelected, EthDone, chainVars
  <2>9. (UtxoLoad \/ UtxoExtend \/ UtxoFresh \/ UtxoCreate \/ UtxoWrite)
          => UNCHANGED <<balance, pending>>
    BY DEF UtxoLoad, UtxoExtend, UtxoFresh, UtxoCreate, UtxoWrite, chainVars
  <2> QED
    BY <2>1, <2>2, <2>3, <2>4, <2>5, <2>6, <2>7, <2>8, <2>9 DEF Next, Eth, Utxo
<1>3. \A k \in Keys : balance[k] + pending[k] > 0 \/ balance[k] + pending[k] = 0
  OBVIOUS
<1> QED
  BY <1>1, <1>2, <1>3 DEF PaidKeysSaved

LEMMA SavedInvariant == Spec => []SavedInv
<1>1. SavedInv /\ [Next]_vars => SavedInv'
  <2>1. CASE UNCHANGED vars
    BY <2>1 DEF SavedInv, Types, MemoryMatchesDisk, PaidKeysSaved, vars, Keys
  <2> QED
    BY <2>1, TypesStep, DiskStep, PaidStep DEF SavedInv
<1> QED
  BY SavedInit, <1>1, PTL DEF Spec

\* Whoever is paid can be spent from: its key is in the source file, whatever
\* step a run dies at.
THEOREM PaidKeysAreSaved == Spec => []PaidKeysSaved
<1>1. SavedInv => PaidKeysSaved
  BY DEF SavedInv
<1> QED
  BY SavedInvariant, <1>1, PTL

\* No run takes a key out of the source file, whatever step it dies at.
THEOREM KeysStay == Spec => KeysKept
<1>1. SavedInv /\ [Next]_vars => [file.keys \subseteq file'.keys]_vars
  BY FileGrows
<1> QED
  BY SavedInvariant, <1>1, PTL DEF Spec, KeysKept

-----------------------------------------------------------------------------
(* Types.                                                                  *)

Places == {"down", "open", "create", "write", "grow", "bak", "bakwrite",
           "rename", "select", "pay", "extend", "transfer"}
Files == [state : {"absent", "torn", "whole"}, keys : SUBSET Keys]

LEMMA SmallSets ==
  /\ \A S, T, U : {S, T, U} \subseteq SUBSET Keys <=> S \subseteq Keys /\ T \subseteq Keys /\ U \subseteq Keys
  /\ \A a, b, c : {a, b, c} \subseteq Nat <=> a \in Nat /\ b \in Nat /\ c \in Nat
  /\ \A x, y : {x, y} \subseteq Files <=> x \in Files /\ y \in Files
  /\ \A f, g, h : {f, g, h} \subseteq [Keys -> Nat]
                    <=> f \in [Keys -> Nat] /\ g \in [Keys -> Nat] /\ h \in [Keys -> Nat]
OBVIOUS

\* TypeOK, one variable at a time.
LEMMA TypeParts ==
  TypeOK <=>
    /\ flow \in {"eth", "utxo"} /\ pc \in Places /\ opts \in Options
    /\ runs \in Nat /\ made \in Nat /\ events \in Nat
    /\ file \in Files /\ bak \in Files
    /\ keys \subseteq Keys /\ todo \subseteq Keys /\ targets \subseteq Keys
    /\ todo \cup targets \subseteq keys
    /\ todo # {} => pc = "select"
    /\ balance \in [Keys -> Nat] /\ pending \in [Keys -> Nat] /\ before \in [Keys -> Nat]
    /\ calm \in BOOLEAN
    /\ outcome \in {"none", "running", "ok", "failed", "killed"}
BY SmallSets DEF TypeOK, Places, Files

\* The keys that are missing are a number of keys, and the new ones are keys.
LEMMA NewKeys ==
  ASSUME made \in Nat, keys \subseteq Keys, opts \in Options
  PROVE  /\ AddKeys(opts.count) => made' \in Nat /\ keys' \subseteq Keys
         /\ Missing /\ AddKeys(opts.count - Cardinality(keys)) => made' \in Nat /\ keys' \subseteq Keys
<1>1. MaxKeys \in Nat /\ opts.count \in Nat
  BY BoundsAssumption, CountsAssumption DEF Options
<1>2. ASSUME NEW n \in Nat, AddKeys(n)
      PROVE  made' \in Nat /\ keys' \subseteq Keys
  BY <1>1, <1>2 DEF AddKeys, Keys
<1>3. Cardinality(keys) \in Nat
  <2>1. IsFiniteSet(Keys)
    BY <1>1, FS_Interval DEF Keys
  <2>2. IsFiniteSet(keys)
    BY <2>1, FS_Subset
  <2> QED
    BY <2>2, FS_CardinalityType
<1>4. Missing => opts.count - Cardinality(keys) \in Nat
  BY <1>1, <1>3 DEF Missing
<1> QED
  BY <1>1, <1>2, <1>4

LEMMA EventTypes ==
  ASSUME events \in Nat
  PROVE  Event => events' \in Nat /\ calm' \in BOOLEAN
<1>1. Event => events' = events + 1
  BY Zenon DEF Event
<1>2. Event => calm' = FALSE
  BY Zenon DEF Event
<1>3. events + 1 \in Nat
  OBVIOUS
<1>4. Event => events' \in Nat
  BY Zenon, <1>1, <1>3
<1>5. Event => calm' \in BOOLEAN
  BY Zenon, <1>2
<1> QED
  BY Zenon, <1>4, <1>5

LEMMA ControlTypes ==
  ASSUME TypeOK, SavedInv, Next
  PROVE  /\ pc' \in Places /\ outcome' \in {"none", "running", "ok", "failed", "killed"}
         /\ opts' \in Options /\ calm' \in BOOLEAN
         /\ runs' \in Nat /\ events' \in Nat /\ before' \in [Keys -> Nat]
         /\ todo' # {} => pc' = "select"
<1>0. /\ flow \in {"eth", "utxo"} /\ pc \in Places /\ opts \in Options
      /\ runs \in Nat /\ events \in Nat
      /\ todo # {} => pc = "select"
      /\ balance \in [Keys -> Nat] /\ before \in [Keys -> Nat]
      /\ calm \in BOOLEAN
      /\ outcome \in {"none", "running", "ok", "failed", "killed"}
  BY TypeParts
<1> USE <1>0
<1>1. CASE Launch
  <2>1. opts' \in Options /\ calm' \in BOOLEAN /\ before' \in [Keys -> Nat]
    BY <1>1 DEF Launch
  <2>2. runs' \in Nat /\ events' \in Nat
    BY <1>1 DEF Launch
  <2>3. todo' = {} /\ pc' = "open" /\ outcome' = "running"
    BY <1>1 DEF Launch, memoryVars
  <2> QED
    BY <2>1, <2>2, <2>3 DEF Places
<1>2. CASE Crash
  BY <1>2 DEF Crash, End, runVars, Places
<1>3. CASE Mine
  BY <1>3 DEF Mine, runVars, memoryVars
<1>4. CASE Spend
  BY <1>4, EventTypes DEF Spend, runVars, memoryVars
<1>5. CASE Idle
  BY <1>5 DEF Idle, vars
<1>6. CASE EthLoad \/ EthFresh
  BY <1>6, EventTypes DEF EthLoad, EthFresh, Goto, End, runVars, chainVars, Places
<1>7. CASE EthCreate \/ EthWrite \/ EthGrow
  BY <1>7 DEF EthCreate, EthWrite, EthGrow, Goto, runVars, chainVars, memoryVars, Places
<1>8. CASE BakCreate \/ BakWrite \/ Rename
  BY <1>8 DEF BakCreate, BakWrite, Rename, Goto, runVars, chainVars, memoryVars, Places
<1>9. CASE EthSelect
  BY <1>9, EventTypes DEF EthSelect, runVars, chainVars
<1>10. CASE EthSelected \/ EthDone
  BY <1>10 DEF EthSelected, EthDone, Goto, End, runVars, chainVars, memoryVars, Places
<1>11. CASE EthPay
  BY <1>11, EventTypes DEF EthPay, runVars, Places
<1>12. CASE UtxoLoad \/ UtxoExtend \/ UtxoFresh
  BY <1>12 DEF UtxoLoad, UtxoExtend, UtxoFresh, Goto, End, runVars, chainVars, Places
<1>13. CASE UtxoCreate \/ UtxoWrite
  BY <1>13 DEF UtxoCreate, UtxoWrite, Goto, End, runVars, chainVars, memoryVars, Places
<1>14. CASE UtxoTransfer
  BY <1>14, EventTypes DEF UtxoTransfer, End, runVars, Places
<1> QED
  BY <1>1, <1>2, <1>3, <1>4, <1>5, <1>6, <1>7, <1>8, <1>9, <1>10, <1>11, <1>12, <1>13, <1>14
     DEF Next, Eth, Utxo

LEMMA DiskTypes ==
  ASSUME TypeOK, SavedInv, Next
  PROVE  /\ made' \in Nat /\ keys' \subseteq Keys
         /\ file' \in Files /\ bak' \in Files
<1>0. /\ opts \in Options /\ made \in Nat /\ keys \subseteq Keys
      /\ file \in Files /\ bak \in Files /\ file.keys \subseteq Keys
  BY TypeParts DEF Files
<1> USE <1>0
<1>1. CASE Launch
  BY <1>1 DEF Launch, diskVars, memoryVars
<1>2. CASE Crash \/ EthDone \/ UtxoTransfer
  BY <1>2 DEF Crash, EthDone, UtxoTransfer, End, diskVars
<1>3. CASE Mine \/ Spend \/ Idle
  BY <1>3 DEF Mine, Spend, Idle, vars, diskVars, memoryVars
<1>4. CASE EthLoad \/ UtxoLoad
  BY <1>4 DEF EthLoad, UtxoLoad, End, diskVars
<1>5. CASE EthFresh \/ EthGrow
  <2>1. made' \in Nat /\ keys' \subseteq Keys
    BY <1>5, NewKeys DEF EthFresh, EthGrow, End
  <2> QED
    BY <1>5, <2>1 DEF EthFresh, EthGrow, diskVars
<1>6. CASE UtxoFresh \/ UtxoExtend
  <2>1. made' \in Nat /\ keys' \subseteq Keys
    BY <1>6, NewKeys DEF UtxoFresh, UtxoExtend, End
  <2> QED
    BY <1>6, <2>1 DEF UtxoFresh, UtxoExtend, diskVars
<1>7. CASE EthCreate \/ EthWrite \/ BakCreate \/ BakWrite
  BY <1>7 DEF EthCreate, EthWrite, BakCreate, BakWrite, File, Files, memoryVars
<1>8. CASE Rename
  BY <1>8 DEF Rename, Absent, File, Files
<1>9. CASE EthSelect \/ EthSelected \/ EthPay
  BY <1>9 DEF EthSelect, EthSelected, EthPay, diskVars, memoryVars
<1>10. CASE UtxoCreate
  <2>1. keys' \subseteq Keys
    BY <1>10 DEF UtxoCreate, End, memoryVars
  <2>2. file' \in Files
    <3>1. \A n : {k \in keys : k < n} \subseteq Keys
      OBVIOUS
    <3> QED
      BY <1>10, <3>1 DEF UtxoCreate, File, Files
  <2> QED
    BY <1>10, <2>1, <2>2 DEF UtxoCreate
<1>11. CASE UtxoWrite
  BY <1>11 DEF UtxoWrite, File, Files, memoryVars
<1> QED
  BY <1>1, <1>2, <1>3, <1>4, <1>5, <1>6, <1>7, <1>8, <1>9, <1>10, <1>11 DEF Next, Eth, Utxo

\* For every number of runs, keys and faults: the types, and that all balances
\* are read before the first payment (fund.rs:125-140).
THEOREM FundTypesHold == Spec => []TypeOK
<1>1. Init => TypeOK
  <2>1. Init => balance \in [Keys -> Nat] /\ pending \in [Keys -> Nat] /\ before \in [Keys -> Nat]
    BY DEF Init
  <2>2. Init => file \in Files /\ bak \in Files
    BY DEF Init, Absent, File, Files
  <2> QED
    BY <2>1, <2>2, TypeParts DEF Init, Places
<1>2. SavedInv /\ SavedInv' /\ TypeOK /\ [Next]_vars => TypeOK'
  <2> SUFFICES ASSUME SavedInv, SavedInv', TypeOK, [Next]_vars
               PROVE  TypeOK'
    OBVIOUS
  <2>1. CASE UNCHANGED vars
    BY SMTT(30), <2>1 DEF TypeOK, vars, Keys, Options
  <2>2. CASE Next
    <3>1. flow' \in {"eth", "utxo"} /\ balance' \in [Keys -> Nat] /\ pending' \in [Keys -> Nat]
      BY DEF SavedInv, Types
    <3>2. targets' \cup todo' \subseteq keys'
      BY DEF SavedInv, MemoryMatchesDisk
    <3> QED
      BY <2>2, <3>1, <3>2, ControlTypes, DiskTypes, SmallSets DEF TypeOK, Places, Files
  <2> QED
    BY <2>1, <2>2
<1> QED
  BY <1>1, <1>2, SavedInvariant, PTL DEF Spec

-----------------------------------------------------------------------------
(* Who is paid.                                                            *)

\* What a run that meets no fault owes to an account: a deposit, unless it
\* tops up and the account had one when the run began.
Due(k) == ~(flow = "eth" /\ opts.redeposit /\ before[k] >= 1)
Owed(k) == IF Due(k) /\ k \notin targets THEN 1 ELSE 0

\* Up to the first payment nothing has moved since the run began, so that the
\* choice by the balances of the moment is the choice by those of the start.
Untouched == \A k \in Keys : balance[k] = before[k] /\ pending[k] = 0

AskInv ==
  /\ pc # "down" => outcome = "running"
  /\ targets \cap todo = {}
  /\ calm /\ pc \notin {"down", "pay"} => Untouched
  /\ calm /\ pc \in {"select", "pay"} => \A k \in targets : Due(k)
  /\ calm /\ pc = "select" => \A k \in keys : k \in todo \/ k \in targets \/ ~Due(k)
  /\ calm /\ pc = "pay" => \A k \in keys : balance[k] + pending[k] = before[k] + Owed(k)
  /\ PaidAsAsked

FundInv == TypeOK /\ SavedInv /\ AskInv

\* A step on the way to the choice, or to a failure.
LEMMA QuietStep ==
  ASSUME FundInv, pc \notin {"down", "pay"}, pc' \notin {"select", "pay"},
         outcome' \in {"running", "failed", "killed"}, pc' # "down" => outcome' = "running",
         calm' => calm, UNCHANGED <<balance, pending, before>>, targets' \cap todo' = {}
  PROVE  AskInv'
<1>1. calm' => Untouched'
  BY DEF FundInv, AskInv, Untouched
<1>2. PaidAsAsked'
  BY DEF PaidAsAsked
<1> QED
  BY <1>1, <1>2 DEF AskInv

LEMMA EventIsNoCalm == Event => calm' = FALSE
BY DEF Event

LEMMA QuietSteps ==
  ASSUME FundInv,
         \/ EthLoad \/ EthFresh \/ EthCreate \/ EthWrite \/ (EthGrow /\ Missing)
         \/ BakCreate \/ BakWrite
         \/ UtxoLoad \/ UtxoExtend \/ UtxoFresh \/ UtxoCreate \/ UtxoWrite
  PROVE  AskInv'
<1>1. /\ pc # "down" => outcome = "running"
      /\ pc \notin {"select", "pay"} => targets = {} /\ todo = {}
      /\ targets \cap todo = {}
  BY DEF FundInv, SavedInv, AskInv, MemoryMatchesDisk
<1>2. CASE EthLoad \/ UtxoLoad
  BY <1>1, <1>2, QuietStep DEF EthLoad, UtxoLoad, Goto, End, chainVars, runVars
<1>3. CASE EthFresh
  <2>1. pc = "open" /\ pc' \in {"create", "down"} /\ UNCHANGED <<balance, pending, before>>
    BY <1>3 DEF EthFresh, Goto, End, chainVars, runVars
  <2>2. calm' => calm
    BY <1>3, EventIsNoCalm DEF EthFresh, chainVars
  <2>3. outcome' \in {"running", "failed"} /\ (pc' # "down" => outcome' = "running")
    BY <1>1, <1>3 DEF EthFresh, Goto, End
  <2>4. targets' \cap todo' = {}
    BY <1>1, <1>3 DEF EthFresh, End
  <2> QED
    BY <2>1, <2>2, <2>3, <2>4, QuietStep
<1>4. CASE EthCreate \/ EthWrite
  BY <1>1, <1>4, QuietStep DEF EthCreate, EthWrite, Goto, chainVars, runVars, memoryVars
<1>5. CASE EthGrow /\ Missing
  BY <1>1, <1>5, QuietStep DEF EthGrow, Goto, chainVars, runVars
<1>6. CASE BakCreate \/ BakWrite
  BY <1>1, <1>6, QuietStep DEF BakCreate, BakWrite, Goto, chainVars, runVars, memoryVars
<1>7. CASE UtxoExtend \/ UtxoFresh
  BY <1>1, <1>7, QuietStep DEF UtxoExtend, UtxoFresh, Goto, End, chainVars, runVars
<1>8. CASE UtxoCreate \/ UtxoWrite
  BY <1>1, <1>8, QuietStep DEF UtxoCreate, UtxoWrite, Goto, End, chainVars, runVars, memoryVars
<1> QED
  BY <1>2, <1>3, <1>4, <1>5, <1>6, <1>7, <1>8

\* The choice starts from all keys, and nobody chosen.
LEMMA ChoiceBegins ==
  ASSUME FundInv, Rename \/ (EthGrow /\ ~Missing)
  PROVE  AskInv'
<1>1. /\ pc \in {"rename", "grow"} /\ pc' = "select" /\ outcome' = outcome
      /\ todo' = keys /\ keys' = keys /\ targets' = targets
      /\ UNCHANGED <<balance, pending, before, calm>>
  BY DEF Rename, EthGrow, Goto, chainVars, runVars
<1>2. targets = {} /\ outcome = "running" /\ (calm => Untouched)
  BY <1>1 DEF FundInv, SavedInv, AskInv, MemoryMatchesDisk
<1>3. PaidAsAsked' /\ Untouched' = Untouched
  BY <1>1, <1>2 DEF PaidAsAsked, Untouched
<1> QED
  BY <1>1, <1>2, <1>3 DEF AskInv

LEMMA ChoiceGoesOn ==
  ASSUME FundInv, EthSelect
  PROVE  AskInv'
<1>1. PICK k \in todo :
        /\ todo' = todo \ {k}
        /\ \/ (~opts.redeposit \/ balance[k] < 1) /\ targets' = targets \cup {k} /\ calm' = calm
           \/ opts.redeposit /\ balance[k] >= 1 /\ targets' = targets /\ calm' = calm
           \/ calm' = FALSE /\ targets' = targets \cup {k}
  BY EventIsNoCalm DEF EthSelect, Oldest, chainVars
<1>2. /\ pc = "select" /\ pc' = "select" /\ keys' = keys
      /\ UNCHANGED <<flow, opts, before, balance, pending, outcome>>
  BY DEF EthSelect, chainVars, runVars
<1>3. outcome = "running" /\ flow = "eth" /\ k \in Keys
  BY <1>2, TypeParts DEF FundInv, AskInv, SavedInv, MemoryMatchesDisk
<1>4. PaidAsAsked'
  BY <1>2, <1>3 DEF PaidAsAsked
<1>5. targets' \cap todo' = {}
  BY <1>1 DEF FundInv, AskInv
<1>6. ASSUME calm'
      PROVE  /\ Untouched'
             /\ \A j \in targets' : Due(j)'
             /\ \A j \in keys' : j \in todo' \/ j \in targets' \/ ~Due(j)'
  <2>1. calm = TRUE
    BY <1>1, <1>6, TypeParts DEF FundInv
  <2>2. Untouched /\ \A j \in targets : Due(j)
    BY <1>2, <2>1 DEF FundInv, AskInv
  <2>3. \A j \in keys : j \in todo \/ j \in targets \/ ~Due(j)
    BY <1>2, <2>1 DEF FundInv, AskInv
  <2>4. balance[k] = before[k] /\ before[k] \in Nat
    BY <1>3, <2>2, TypeParts DEF Untouched, FundInv
  <2>5. (~opts.redeposit \/ balance[k] < 1) <=> Due(k)
    BY <1>3, <2>4 DEF Due
  <2>6. (targets' = targets \cup {k} /\ Due(k)) \/ (targets' = targets /\ ~Due(k))
    <3>1. opts.redeposit /\ balance[k] >= 1 => ~Due(k)
      BY <1>3, <2>4 DEF Due
    <3>2. calm' # FALSE
      BY <1>6
    <3> QED
      BY Zenon, <1>1, <2>5, <3>1, <3>2
  <2>7. \A j : Due(j)' <=> Due(j)
    BY <1>2 DEF Due
  <2>8. Untouched'
    BY <1>2, <2>2 DEF Untouched
  <2>9. \A j \in targets' : Due(j)
    BY <2>2, <2>6
  <2>10. \A j \in keys : j \in todo' \/ j \in targets' \/ ~Due(j)
    BY <1>1, <2>3, <2>6
  <2> QED
    BY <1>2, <2>7, <2>8, <2>9, <2>10
<1> QED
  BY <1>2, <1>3, <1>4, <1>5, <1>6 DEF AskInv

LEMMA PaymentsBegin ==
  ASSUME FundInv, EthSelected
  PROVE  AskInv'
<1>1. /\ pc = "select" /\ todo = {} /\ pc' = "pay"
      /\ UNCHANGED <<flow, opts, before, balance, pending, calm, outcome, keys, todo, targets>>
  BY DEF EthSelected, Goto, chainVars, runVars, memoryVars
<1>2. outcome = "running"
  BY <1>1 DEF FundInv, AskInv
<1>3. PaidAsAsked'
  BY <1>1, <1>2 DEF PaidAsAsked
<1>4. \A k : (Due(k)' <=> Due(k)) /\ Owed(k)' = Owed(k)
  BY <1>1 DEF Due, Owed
<1>5. ASSUME calm
      PROVE  /\ \A k \in targets : Due(k)
             /\ \A k \in keys : balance[k] + pending[k] = before[k] + Owed(k)
  <2>1. Untouched /\ \A k \in targets : Due(k)
    BY <1>1, <1>5 DEF FundInv, AskInv
  <2>2. \A k \in keys : k \in targets \/ ~Due(k)
    BY <1>1, <1>5 DEF FundInv, AskInv
  <2>3. \A k \in keys : Owed(k) = 0
    BY <2>2 DEF Owed
  <2>4. \A k \in keys : balance[k] = before[k] /\ pending[k] = 0 /\ before[k] \in Nat
    BY <2>1, TypeParts DEF FundInv, Untouched
  <2> QED
    BY <2>1, <2>3, <2>4
<1>6. targets' \cap todo' = {}
  BY <1>1
<1> QED
  BY <1>1, <1>2, <1>3, <1>4, <1>5, <1>6 DEF AskInv

LEMMA PaymentMade ==
  ASSUME FundInv, EthPay
  PROVE  AskInv'
<1>1. PICK k \in targets :
        /\ targets' = targets \ {k}
        /\ (pending' = [pending EXCEPT ![k] = @ + 1] /\ calm' = calm) \/ calm' = FALSE
  BY EventIsNoCalm DEF EthPay, Oldest
<1>2. /\ pc = "pay" /\ pc' = "pay"
      /\ UNCHANGED <<flow, opts, before, balance, outcome, keys, todo>>
  BY DEF EthPay, runVars
<1>3. outcome = "running" /\ k \in keys /\ k \in Keys
  BY <1>2, TypeParts DEF FundInv, AskInv
<1>4. PaidAsAsked'
  BY <1>2, <1>3 DEF PaidAsAsked
<1>5. targets' \cap todo' = {}
  BY <1>1, <1>2 DEF FundInv, AskInv
<1>6. ASSUME calm'
      PROVE  /\ \A j \in targets' : Due(j)'
             /\ \A j \in keys' : balance'[j] + pending'[j] = before'[j] + Owed(j)'
  <2>1. pending' = [pending EXCEPT ![k] = @ + 1] /\ calm' = calm
    BY Zenon, <1>1, <1>6
  <2>2. \A j \in targets : Due(j)
    BY <1>2, <1>6, <2>1 DEF FundInv, AskInv
  <2>3. \A j \in keys : balance[j] + pending[j] = before[j] + Owed(j)
    BY <1>2, <1>6, <2>1 DEF FundInv, AskInv
  <2>4. \A j : Due(j)' <=> Due(j)
    BY <1>2 DEF Due
  <2>5. \A j : j # k => (j \in targets' <=> j \in targets)
    BY <1>1
  <2>6. \A j : j # k => Owed(j)' = Owed(j)
    BY <2>4, <2>5 DEF Owed
  <2>7. Owed(k) = 0 /\ Owed(k)' = 1
    BY <1>1, <2>2, <2>4 DEF Owed
  <2>8. /\ keys \subseteq Keys /\ pending \in [Keys -> Nat]
        /\ balance \in [Keys -> Nat] /\ before \in [Keys -> Nat]
    BY TypeParts DEF FundInv
  <2>9. ASSUME NEW j \in keys
        PROVE  balance[j] + pending'[j] = before[j] + Owed(j)'
    <3>1. CASE j = k
      <4>1. pending'[k] = pending[k] + 1
        BY <1>3, <2>1, <2>8
      <4>2. balance[k] + pending[k] = before[k] + 0
        BY <1>3, <2>3, <2>7
      <4>3. balance[k] \in Nat /\ pending[k] \in Nat /\ before[k] \in Nat
        BY <1>3, <2>8
      <4> QED
        BY <2>7, <3>1, <4>1, <4>2, <4>3
    <3>2. CASE j # k
      <4>1. pending'[j] = pending[j]
        BY <2>1, <2>8, <3>2
      <4> QED
        BY <2>3, <2>6, <3>2, <4>1
    <3> QED
      BY <3>1, <3>2
  <2>10. \A j \in targets' : Due(j)
    BY <1>1, <2>2
  <2> QED
    BY <1>2, <2>4, <2>9, <2>10
<1> QED
  BY <1>2, <1>3, <1>4, <1>5, <1>6 DEF AskInv

\* The end of a run that went well, of either flow.
LEMMA RunEnds ==
  ASSUME FundInv, EthDone
  PROVE  AskInv'
<1>1. /\ pc = "pay" /\ targets = {} /\ pc' = "down" /\ todo' = {} /\ targets' = {}
      /\ UNCHANGED <<flow, opts, before, balance, pending, calm, file>>
  BY DEF EthDone, End, chainVars, runVars, diskVars
<1>2. flow = "eth" /\ keys = file.keys
  BY <1>1 DEF FundInv, SavedInv, MemoryMatchesDisk
<1>3. ASSUME calm, NEW k \in file.keys
      PROVE  balance[k] + pending[k] =
               before[k] + (IF flow = "eth" /\ opts.redeposit /\ before[k] >= 1 THEN 0 ELSE 1)
  <2>1. balance[k] + pending[k] = before[k] + Owed(k)
    BY <1>1, <1>2, <1>3 DEF FundInv, AskInv
  <2>2. Owed(k) = IF flow = "eth" /\ opts.redeposit /\ before[k] >= 1 THEN 0 ELSE 1
    BY <1>1 DEF Owed, Due
  <2> QED
    BY <2>1, <2>2
<1>4. PaidAsAsked'
  BY <1>1, <1>3 DEF PaidAsAsked
<1> QED
  BY <1>1, <1>4 DEF AskInv

LEMMA AllPaidAtOnce ==
  ASSUME FundInv, UtxoTransfer
  PROVE  AskInv'
<1> DEFINE paid == [k \in Keys |-> IF k \in keys THEN pending[k] + 1 ELSE pending[k]]
<1>1. /\ pc = "transfer" /\ pc' = "down" /\ todo' = {} /\ targets' = {}
      /\ UNCHANGED <<flow, opts, before, balance, file>>
      /\ (pending' = paid /\ calm' = calm) \/ outcome' = "failed"
  BY DEF UtxoTransfer, End, runVars, diskVars
<1>2. flow = "utxo" /\ keys = file.keys
  BY <1>1 DEF FundInv, SavedInv, MemoryMatchesDisk
<1>3. /\ keys \subseteq Keys /\ before \in [Keys -> Nat]
      /\ calm => Untouched
  BY <1>1, TypeParts DEF FundInv, AskInv
<1>4. ASSUME calm, pending' = paid, NEW k \in file.keys
      PROVE  balance[k] + pending'[k] = before[k] + 1
  <2>1. balance[k] = before[k] /\ pending[k] = 0 /\ k \in Keys
    BY <1>2, <1>3, <1>4 DEF Untouched
  <2>2. pending'[k] = 0 + 1
    BY <1>2, <1>4, <2>1
  <2> QED
    BY <2>1, <2>2
<1>5. PaidAsAsked'
  <2>1. SUFFICES ASSUME outcome' = "ok", calm', NEW k \in file.keys
                 PROVE  balance[k] + pending'[k] = before[k] + 1
    BY <1>1, <1>2 DEF PaidAsAsked
  <2>2. pending' = paid /\ calm
    BY Zenon, <1>1, <2>1
  <2> QED
    BY <1>4, <2>2
<1> QED
  BY <1>1, <1>5 DEF AskInv

\* What happens around the command.
LEMMA AroundTheRun ==
  ASSUME FundInv, Launch \/ Crash \/ Mine \/ Spend \/ Idle
  PROVE  AskInv'
<1>1. pc \notin {"select", "pay"} => targets = {} /\ todo = {}
  BY DEF FundInv, SavedInv, MemoryMatchesDisk
<1>2. CASE Launch
  <2>1. /\ pc = "down" /\ pc' = "open" /\ outcome' = "running"
        /\ before' = balance /\ calm' = (\A k \in Keys : pending[k] = 0)
        /\ UNCHANGED <<balance, pending, todo, targets>>
    BY <1>2 DEF Launch, memoryVars
  <2>2. calm' => Untouched'
    BY <2>1 DEF Untouched
  <2>3. targets' \cap todo' = {} /\ PaidAsAsked'
    BY <1>1, <2>1 DEF PaidAsAsked
  <2> QED
    BY <2>1, <2>2, <2>3 DEF AskInv
<1>3. CASE Crash
  BY <1>3 DEF Crash, End, AskInv, PaidAsAsked
<1>4. CASE Mine
  <2>1. /\ UNCHANGED <<flow, opts, before, pc, outcome, keys, todo, targets, file, calm>>
        /\ balance' = [k \in Keys |-> balance[k] + pending[k]]
        /\ pending' = [k \in Keys |-> 0]
        /\ \E k \in Keys : pending[k] > 0
    BY <1>4 DEF Mine, runVars, memoryVars, diskVars
  <2>2. /\ balance \in [Keys -> Nat] /\ pending \in [Keys -> Nat]
        /\ keys \subseteq Keys /\ file.keys \subseteq Keys
    BY TypeParts DEF FundInv, Files
  <2>3. \A k \in Keys : balance'[k] + pending'[k] = balance[k] + pending[k]
    BY <2>1, <2>2
  <2>4. ~Untouched
    BY <2>1, <2>2 DEF Untouched
  <2>5. calm => pc \in {"down", "pay"}
    BY <2>4 DEF FundInv, AskInv
  <2>6. \A k : (Due(k)' <=> Due(k)) /\ Owed(k)' = Owed(k)
    BY <2>1 DEF Due, Owed
  <2>7. PaidAsAsked'
    BY <2>1, <2>2, <2>3 DEF FundInv, AskInv, PaidAsAsked
  <2>8. calm /\ pc = "pay" =>
          \A k \in keys : balance'[k] + pending'[k] = before[k] + Owed(k)
    BY <2>2, <2>3 DEF FundInv, AskInv
  <2>9. calm /\ pc \in {"select", "pay"} => \A k \in targets : Due(k)
    BY DEF FundInv, AskInv
  <2>10. (pc # "down" => outcome = "running") /\ targets \cap todo = {}
    BY DEF FundInv, AskInv
  <2> QED
    BY <2>1, <2>5, <2>6, <2>7, <2>8, <2>9, <2>10 DEF AskInv
<1>5. CASE Spend
  BY <1>5, EventIsNoCalm DEF Spend, runVars, memoryVars, FundInv, AskInv, PaidAsAsked
<1>6. CASE Idle
  BY <1>6 DEF Idle, vars, FundInv, AskInv, PaidAsAsked, Untouched, Due, Owed
<1> QED
  BY <1>2, <1>3, <1>4, <1>5, <1>6

LEMMA FundInvariant == Spec => []FundInv
<1>1. Init => AskInv
  BY DEF Init, AskInv, PaidAsAsked, Untouched
<1>2. FundInv /\ [Next]_vars => AskInv'
  <2>1. ASSUME FundInv, UNCHANGED vars
        PROVE  AskInv'
    BY <2>1 DEF FundInv, AskInv, PaidAsAsked, Untouched, Due, Owed, vars
  <2> QED
    BY <2>1, QuietSteps, ChoiceBegins, ChoiceGoesOn, PaymentsBegin, PaymentMade, RunEnds,
       AllPaidAtOnce, AroundTheRun DEF Next, Eth, Utxo
<1>3. TypeOK /\ SavedInv /\ AskInv <=> FundInv
  BY DEF FundInv
<1> QED
  BY <1>1, <1>2, <1>3, FundTypesHold, SavedInvariant, PTL DEF Spec

\* For every number of runs, keys and accounts: a run that ends well, meets no
\* fault and starts with nothing pending has paid once whom it was asked to pay
\* (fund.rs:119-151).
THEOREM PaysAsAsked == Spec => []PaidAsAsked
<1>1. FundInv => PaidAsAsked
  BY DEF FundInv, AskInv
<1> QED
  BY FundInvariant, <1>1, PTL
=============================================================================
