---------------------------- MODULE BudgetLedger ----------------------------
(***************************************************************************)
(* The draw ledger of one budget envelope: budgets/_draw.py and            *)
(* budgets/_reaper.py, called by BudgetStore (budgets/local.py).           *)
(*                                                                         *)
(* Every operation of the store runs under one asyncio lock, in one SQLite *)
(* transaction, so each is one atomic step here.  A step that the code     *)
(* refuses (unknown draw, frozen or expired envelope, cap exceeded) leaves *)
(* the database as it is and is a stuttering step.                         *)
(***************************************************************************)
EXTENDS Integers, FiniteSets, Functions

CONSTANTS
  Keys,            \* idempotency keys; UNIQUE (envelope_id, idempotency_key)
  Amounts,         \* quotes in minor units of the envelope's currency
  Cap,             \* envelopes.cap_minor_units
  EnvelopeExpiry,  \* envelopes.expires_at
  DrawTtl,         \* ttl_seconds + CLOCK_SKEW_BUFFER_SECONDS of a draw
  MaxTime          \* bound on the clock

ASSUME KeysAssumption    == IsFiniteSet(Keys)
ASSUME AmountsAssumption == Amounts \subseteq Nat
ASSUME CapAssumption     == Cap \in Nat
ASSUME TimeAssumption    == /\ EnvelopeExpiry \in Nat
                            /\ DrawTtl \in Nat
                            /\ MaxTime \in Nat

VARIABLES
  now,       \* datetime.now(UTC)
  status,    \* envelopes.status
  draws,     \* the rows of table draws, by idempotency key
  receipts,  \* the draw receipts callers have received
  late       \* history: the draws settled after they had been rolled back

ledgerVars == <<now, status, draws, receipts, late>>

DrawStates == {"absent", "reserved", "settled", "rolled_back"}

DrawRow == [state : DrawStates, reserved : Nat, settled : Nat, expires : Nat]

NoDraw == [state |-> "absent", reserved |-> 0, settled |-> 0, expires |-> 0]

Receipt == [key : Keys, amount : Nat, expires : Nat]

Held(k) == \E r \in receipts : r.key = k

-----------------------------------------------------------------------------
(* The two SELECT SUM(...) queries of the cap check. *)

reservedBy ==
  [k \in Keys |-> IF draws[k].state = "reserved" THEN draws[k].reserved ELSE 0]

settledBy ==
  [k \in Keys |-> IF draws[k].state = "settled" THEN draws[k].settled ELSE 0]

Reserved == SumFunctionOnSet(reservedBy, Keys)

Settled == SumFunctionOnSet(settledBy, Keys)

(* Mutation: the second query is forgotten. *)
AvailableIgnoringSettled == Cap - Reserved

Available == Cap - Reserved - Settled

(* What was settled late. *)
lateBy ==
  [k \in Keys |-> IF k \in late THEN draws[k].settled ELSE 0]

LateSettled == SumFunctionOnSet(lateBy, Keys)

-----------------------------------------------------------------------------
LedgerInit ==
  /\ now = 0
  /\ status = "active"
  /\ draws = [k \in Keys |-> NoDraw]
  /\ receipts = {}
  /\ late = {}

EnvelopeOpen == status = "active" /\ now < EnvelopeExpiry

ReceiptOf(k, row) == [key |-> k, amount |-> row.reserved, expires |-> row.expires]

NewRow(a) == [state |-> "reserved", reserved |-> a, settled |-> 0,
              expires |-> now + DrawTtl]

(***************************************************************************)
(* draw_sync inserts a row for a key it has not seen, if the cap allows.   *)
(* The COMMIT precedes the signing, so three things can follow it: the     *)
(* receipt is returned; the keystore fails and the row stays reserved with *)
(* no receipt (the ROLLBACK comes too late); the receipt does not verify   *)
(* against the stored public key and the row is rolled back.               *)
(***************************************************************************)
DrawInserts(k, a) ==
  /\ EnvelopeOpen
  /\ draws[k].state = "absent"
  /\ a <= Available

DrawReserves(k, a) ==
  /\ DrawInserts(k, a)
  /\ draws' = [draws EXCEPT ![k] = NewRow(a)]
  /\ receipts' = receipts \cup {ReceiptOf(k, NewRow(a))}
  /\ UNCHANGED <<now, status, late>>

DrawLosesReceipt(k, a) ==
  /\ DrawInserts(k, a)
  /\ draws' = [draws EXCEPT ![k] = NewRow(a)]
  /\ UNCHANGED <<now, status, receipts, late>>

DrawFailsVerification(k, a) ==
  /\ DrawInserts(k, a)
  /\ draws' = [draws EXCEPT ![k] = [NewRow(a) EXCEPT !.state = "rolled_back"]]
  /\ UNCHANGED <<now, status, receipts, late>>

(* Mutation: the receipt is issued from the arguments, not from the row. *)
DrawReplaysArguments(k, a) ==
  /\ EnvelopeOpen
  /\ draws[k].state # "absent"
  /\ receipts' = receipts \cup {ReceiptOf(k, NewRow(a))}
  /\ UNCHANGED <<now, status, draws, late>>

(***************************************************************************)
(* draw_sync with a key it has seen, whatever became of the row and        *)
(* whatever amount a is asked for: a receipt re-signed from the row.       *)
(***************************************************************************)
DrawReplays(k, a) ==
  /\ EnvelopeOpen
  /\ draws[k].state # "absent"
  /\ receipts' = receipts \cup {ReceiptOf(k, draws[k])}
  /\ UNCHANGED <<now, status, draws, late>>

Draw(k, a) ==
  \/ DrawReserves(k, a)
  \/ DrawLosesReceipt(k, a)
  \/ DrawFailsVerification(k, a)
  \/ DrawReplays(k, a)

(* Mutation: the UPDATE filters on 'reserved' alone. *)
ConfirmableIfReserved(k) == draws[k].state = "reserved"

(***************************************************************************)
(* confirm_sync settles a reserved draw, and one that was rolled back in   *)
(* the meantime; a settled draw keeps its amount.  The draw is named by a  *)
(* receipt; no caller settles more than it reserved.                       *)
(***************************************************************************)
Confirmable(k) == draws[k].state \in {"reserved", "rolled_back"}

Confirm(k, a) ==
  /\ Held(k)
  /\ a <= draws[k].reserved
  /\ Confirmable(k)
  /\ draws' = [draws EXCEPT ![k].state = "settled", ![k].settled = a]
  /\ late' = IF draws[k].state = "rolled_back" THEN late \cup {k} ELSE late
  /\ UNCHANGED <<now, status, receipts>>

(* Mutation: the UPDATE does not filter on the state. *)
RolledBackAlways(row) == [row EXCEPT !.state = "rolled_back"]

(***************************************************************************)
(* rollback_sync frees a reserved draw and leaves a finished one alone.    *)
(***************************************************************************)
RolledBack(row) ==
  IF row.state = "reserved" THEN [row EXCEPT !.state = "rolled_back"] ELSE row

Rollback(k) ==
  /\ Held(k)
  /\ draws' = [draws EXCEPT ![k] = RolledBack(@)]
  /\ UNCHANGED <<now, status, receipts, late>>

(* Mutation: the reaper visits the draws of active, unexpired envelopes only. *)
StaleInOpenEnvelope(k) ==
  draws[k].state = "reserved" /\ draws[k].expires < now /\ EnvelopeOpen

(***************************************************************************)
(* reap_sync rolls back every reserved draw that has expired.              *)
(***************************************************************************)
Stale(k) == draws[k].state = "reserved" /\ draws[k].expires < now

Reap ==
  /\ \E k \in Keys : Stale(k)
  /\ draws' = [k \in Keys |-> IF Stale(k) THEN RolledBack(draws[k]) ELSE draws[k]]
  /\ UNCHANGED <<now, status, receipts, late>>

(* The clock of the host, bounded by MaxTime. *)
Tick ==
  /\ now < MaxTime
  /\ now' = now + 1
  /\ UNCHANGED <<status, draws, receipts, late>>

(***************************************************************************)
(* No operation of the store writes envelopes.status; an operator freezes  *)
(* or reactivates an envelope in the database.                             *)
(***************************************************************************)
SetStatus(s) ==
  /\ status' = s
  /\ UNCHANGED <<now, draws, receipts, late>>

LedgerNext ==
  \/ \E k \in Keys, a \in Amounts : Draw(k, a) \/ Confirm(k, a)
  \/ \E k \in Keys : Rollback(k)
  \/ Reap
  \/ Tick
  \/ \E s \in {"active", "frozen"} : SetStatus(s)

LedgerSpec == LedgerInit /\ [][LedgerNext]_ledgerVars

(***************************************************************************)
(* The reaper task wakes every few seconds for as long as the store is     *)
(* open, and time passes.  Nothing obliges a caller to act.                *)
(***************************************************************************)
FairLedgerSpec == LedgerSpec /\ WF_ledgerVars(Reap) /\ WF_ledgerVars(Tick)

-----------------------------------------------------------------------------
(***************************************************************************)
(* Type invariant: the rows, the receipts and the clock have their types.  *)
(***************************************************************************)
LedgerTypeOK ==
  /\ now \in Nat
  /\ status \in {"active", "frozen"}
  /\ draws \in [Keys -> DrawRow]
  /\ receipts \subseteq Receipt
  /\ late \subseteq Keys

(***************************************************************************)
(* What is reserved and settled exceeds the cap by no more than what was   *)
(* settled late, that is, confirmed after a rollback had handed the        *)
(* capacity on (draw_sync's cap check against confirm_sync's UPDATE, which *)
(* makes none).                                                            *)
(***************************************************************************)
CapExceededOnlyByLateSettlement == Reserved + Settled <= Cap + LateSettled

(***************************************************************************)
(* Spend is never lost or rewritten: once settled, a draw keeps its state  *)
(* and its amount through later confirms, rollbacks, reaps and draws with  *)
(* the same key.                                                           *)
(***************************************************************************)
SettledDrawsAreFinal ==
  [][\A k \in Keys : draws[k].state = "settled" => draws'[k] = draws[k]]_ledgerVars

(***************************************************************************)
(* All the receipts ever handed out for a key are the same receipt, and it *)
(* is the one that describes the row, whatever amount a repeated draw asks *)
(* for and whenever it comes.                                              *)
(***************************************************************************)
ReceiptsDescribeRows ==
  \A r \in receipts : /\ draws[r.key].state # "absent"
                      /\ r = ReceiptOf(r.key, draws[r.key])

(***************************************************************************)
(* Capacity comes back: no draw stays reserved for ever, even one whose    *)
(* receipt was lost between COMMIT and signing and which no caller can     *)
(* therefore confirm or roll back.                                         *)
(***************************************************************************)
ReservationsEnd ==
  \A k \in Keys : draws[k].state = "reserved" ~> draws[k].state # "reserved"
=============================================================================
