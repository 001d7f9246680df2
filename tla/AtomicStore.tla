----------------------------- MODULE AtomicStore -----------------------------
(***************************************************************************)
(* What BudgetStore (budgets/local.py) promises of its draws to whoever    *)
(* shares the database: each operation takes effect at once or not at all, *)
(* and the cap is checked against the rows it is granted on.  Time, the    *)
(* receipts and the amounts of a settlement are in BudgetLedger.           *)
(***************************************************************************)
EXTENDS Integers, Functions

CONSTANTS
  Keys,    \* idempotency keys
  Amount,  \* amount_reserved_minor_units, by key
  Cap      \* envelopes.cap_minor_units

VARIABLE rows  \* draws.state, by key; "absent" where there is no row

DrawStates == {"absent", "reserved", "settled", "rolled_back"}

(* SELECT COALESCE(SUM(...), 0) ... WHERE state = s *)
SumIn(r, s) == SumFunctionOnSet([k \in Keys |-> IF r[k] = s THEN Amount[k] ELSE 0], Keys)

Fits(r, k) == Amount[k] <= Cap - SumIn(r, "reserved") - SumIn(r, "settled")

Reserve(k) ==
  /\ rows[k] = "absent"
  /\ Fits(rows, k)
  /\ rows' = [rows EXCEPT ![k] = "reserved"]

Settle(k) ==
  /\ rows[k] \in {"reserved", "rolled_back"}
  /\ rows' = [rows EXCEPT ![k] = "settled"]

(* rollback_sync for one draw, reap_sync for all that have expired. *)
Freed(r, S) == [k \in Keys |-> IF k \in S /\ r[k] = "reserved" THEN "rolled_back" ELSE r[k]]

Free(S) == rows' = Freed(rows, S)

AtomicNext ==
  \/ \E k \in Keys : Reserve(k) \/ Settle(k)
  \/ \E S \in SUBSET Keys : Free(S)

AtomicSpec == rows \in [Keys -> DrawStates] /\ [][AtomicNext]_rows
=============================================================================
