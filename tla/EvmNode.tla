------------------------------ MODULE EvmNode ------------------------------
(***************************************************************************)
(* The chain the agent talks to, as far as its RPC answers matter.  It is  *)
(* not part of this repository: it is modelled from how TestClient         *)
(* (src/agent/src/lib.rs) uses it and from the error texts the client      *)
(* looks for.                                                              *)
(*                                                                         *)
(* An account's transactions are accepted in nonce order into a pool of    *)
(* bounded size and leave it when they are mined.  An error answer is the  *)
(* set of marker texts it contains.  A request may time out: the client    *)
(* sees an error and the transaction may still reach the pool, at once,    *)
(* later, or never.                                                        *)
(***************************************************************************)
EXTENDS Naturals, Sequences, FiniteSetsExt

CONSTANTS
  Accounts,   \* the source accounts
  PoolSize,   \* transactions the pool holds before it answers "full"
  MaxFaults   \* bound: answers that are faults rather than refusals

ASSUME AccountsAssumption == IsFiniteSet(Accounts)
ASSUME PoolAssumption == PoolSize \in Nat \ {0}
ASSUME FaultsAssumption == MaxFaults \in Nat

VARIABLES
  ledger,     \* ledger[a]: the payments accepted from a, by nonce
  committed,  \* committed[a]: how many of them are mined
  reverted,   \* the <<account, nonce>> mined with receipt status 0
  late,       \* transactions whose request timed out
  faults      \* faults so far

nodeVars == <<ledger, committed, reverted, late, faults>>

NodeInit ==
  /\ ledger = [a \in Accounts |-> <<>>]
  /\ committed = [a \in Accounts |-> 0]
  /\ reverted = {}
  /\ late = {}
  /\ faults = 0

\* eth_getTransactionCount(a, pending)
Pending(a) == Len(ledger[a])

InPool(a) == Len(ledger[a]) - committed[a]

Room == MapThenSumSet(InPool, Accounts) < PoolSize

\* What the node decides about a transaction [from, nonce, pay].
Accepts(tx) == Room /\ tx.nonce = Pending(tx.from)

PoolFullText == {"InternalError", "broadcast_tx_sync"}
BadNonceText == {"InternalError", "InvalidNonce"}
TimeoutText  == {"error sending request"}
FaultTexts   == {{"Transaction check error"}, {"InternalError"}, {}}

Refusals(tx) ==
  {text \in {PoolFullText, BadNonceText} :
     \/ text = PoolFullText /\ ~Room
     \/ text = BadNonceText /\ tx.nonce # Pending(tx.from)}

Fault == faults < MaxFaults /\ faults' = faults + 1

\* eth_sendRawTransaction answers Ok(hash).
Accept(tx) ==
  /\ Accepts(tx)
  /\ ledger' = [ledger EXCEPT ![tx.from] = Append(@, tx.pay)]
  /\ UNCHANGED <<committed, reverted, late, faults>>

\* eth_sendRawTransaction answers Err(text).
Refuse(tx, text) ==
  /\ \/ text \in Refusals(tx) /\ UNCHANGED <<faults, late>>
     \/ text \in FaultTexts /\ Fault /\ UNCHANGED late
     \/ text = TimeoutText /\ Fault /\ late' = late \cup {tx}
  /\ UNCHANGED <<ledger, committed, reverted>>

ErrorTexts == {PoolFullText, BadNonceText, TimeoutText} \cup FaultTexts

\* A timed-out request reaches the pool after all.
DeliverLate == \E tx \in late : Accept(tx)

\* The oldest pooled transaction of a is mined, as success or as failure.
Mine(a) ==
  /\ InPool(a) > 0
  /\ committed' = [committed EXCEPT ![a] = @ + 1]
  /\ \/ UNCHANGED <<reverted, faults>>
     \/ Fault /\ reverted' = reverted \cup {<<a, committed[a]>>}
  /\ UNCHANGED <<ledger, late>>

Mined(a, n) == n < committed[a]
Succeeded(a, n) == Mined(a, n) /\ <<a, n>> \notin reverted
=============================================================================
