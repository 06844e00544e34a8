--------------------------- MODULE TrafficLedger ---------------------------
(***************************************************************************)
(* What the traffic meter promises, without caches, flush thresholds,      *)
(* locks or handlers: bytes are promised to an I/O within a budget, settled*)
(* when the I/O is over, and made durable all at once.  A crash forgets    *)
(* what was promised or settled and never touches what was durable.        *)
(***************************************************************************)
EXTENDS Integers

CONSTANTS
    Keys,   \* tunnel and month pairs
    Unit    \* the most bytes one I/O is promised

VARIABLES
    cap,        \* budget in force, 0 means unlimited
    durable,    \* bytes the database holds
    settled,    \* bytes moved but not yet durable
    promised    \* bytes set aside for I/O in flight

ledger == <<cap, durable, settled, promised>>

LedgerInit ==
    /\ cap \in [Keys -> Nat]
    /\ durable = [k \in Keys |-> 0]
    /\ settled = [k \in Keys |-> 0]
    /\ promised = [k \in Keys |-> 0]

Promise(k, n) ==
    /\ n > 0
    /\ cap[k] = 0 \/ durable[k] + settled[k] + promised[k] + n <= cap[k]
    /\ promised' = [promised EXCEPT ![k] = @ + n]
    /\ UNCHANGED <<cap, durable, settled>>

\* Everything settled becomes durable, or nothing does.
MakeDurable(moved) ==
    \/ /\ durable' = [k \in Keys |-> durable[k] + moved[k]]
       /\ settled' = [k \in Keys |-> 0]
    \/ /\ settled' = moved
       /\ UNCHANGED durable

\* n promised bytes end as m moved ones.
SettleBytes(k, n, m) ==
    /\ m <= n /\ n <= promised[k]
    /\ promised' = [promised EXCEPT ![k] = @ - n]
    /\ MakeDurable([settled EXCEPT ![k] = @ + m])
    /\ cap' \in [Keys -> Nat]

Persist ==
    /\ MakeDurable(settled)
    /\ cap' \in [Keys -> Nat]
    /\ UNCHANGED promised

Crash ==
    /\ settled' = [k \in Keys |-> 0]
    /\ promised' = [k \in Keys |-> 0]
    /\ cap' \in [Keys -> Nat]
    /\ UNCHANGED durable

\* The tunnel's rows are deleted with the tunnel.
Remove(S) ==
    /\ durable' = [k \in Keys |-> IF k \in S THEN 0 ELSE durable[k]]
    /\ UNCHANGED <<cap, settled, promised>>

ChangeCap ==
    /\ cap' \in [Keys -> Nat]
    /\ UNCHANGED <<durable, settled, promised>>

LedgerNext ==
    \/ \E k \in Keys, n \in 1..Unit : Promise(k, n)
    \/ \E k \in Keys, n \in 1..Unit, m \in 0..Unit : SettleBytes(k, n, m)
    \/ Persist
    \/ Crash
    \/ \E S \in SUBSET Keys : Remove(S)
    \/ ChangeCap

LedgerSpec == LedgerInit /\ [][LedgerNext]_ledger
=============================================================================
