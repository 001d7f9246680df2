--------------------------- MODULE StoreConnection ---------------------------
(***************************************************************************)
(* The one SQLite connection of BudgetStore (budgets/local.py,             *)
(* _storage.py) below the atomic steps of BudgetLedger.  A call takes the  *)
(* asyncio lock and runs in a worker thread, one SQL statement after the   *)
(* other, on a connection in autocommit mode; draw_sync (budgets/_draw.py) *)
(* opens a transaction, the others do not.                                 *)
(*                                                                         *)
(* A caller that is cancelled in to_thread leaves the lock, but its thread *)
(* runs on: from then on two threads share the connection, and with it     *)
(* whatever transaction is open.                                           *)
(***************************************************************************)
EXTENDS Integers, FiniteSets, Functions

CONSTANTS
  Calls,        \* calls of the store, the reaper's passes among them
  Keys, Amount, Cap,
  InitialRows,  \* what the file may hold when the store opens it
  Jobs,         \* what each call may ask for
  MaxCancels,   \* bound on the callers cancelled while their thread runs
  None          \* nobody, no transaction, nothing asked

Ops == {"draw", "confirm", "rollback", "reap"}

VARIABLES
  lock,    \* the call inside "async with self._lock"
  calls,   \* what each call asks for, where its thread is, what it answered
  cut,     \* the calls whose caller was cancelled while the thread ran
  view,    \* the rows of draws as the connection sees them
  tx,      \* the open transaction: who began it, what a ROLLBACK restores
  closed,  \* the connection was closed by aclose
  guests,  \* history: calls that found or wrote rows in another's transaction
  stray    \* history: a call rolled back a transaction another call began

vars == <<lock, calls, cut, view, tx, closed, guests, stray>>

(* The rows on disk, which other connections and a restart see. *)
durable == IF tx = None THEN view ELSE tx.saved

Atomic == INSTANCE AtomicStore WITH rows <- durable

ASSUME KeysAssumption == IsFiniteSet(Keys) /\ Amount \in [Keys -> Nat] /\ Cap \in Nat
ASSUME InitialAssumption == InitialRows \subseteq [Keys -> Atomic!DrawStates]
ASSUME JobsAssumption == Jobs \in [Calls -> SUBSET [op : Ops, key : Keys]]
ASSUME NoneAssumption ==
  /\ None \notin Calls \cup {"ok", "raised", "cancelled"}
  /\ None \notin [by : Calls, saved : [Keys -> Atomic!DrawStates]]

(* Between a draw's BEGIN and its COMMIT or ROLLBACK. *)
Window == {"look", "sum_reserved", "sum_settled", "insert", "commit", "replay", "abort"}

(* Where a thread is between two statements. *)
Running == {"queued", "sign", "resign", "verify", "undo", "settle"} \cup Window

Places == {"idle", "waiting", "done"} \cup Running

Job(c) == calls[c].job

At(c, place) == calls[c].at = place

Goto(c, place) == calls' = [calls EXCEPT ![c].at = place]

ConnectionInit ==
  /\ lock = None
  /\ calls = [c \in Calls |-> [job |-> None, at |-> "idle", reserved |-> 0, answer |-> None]]
  /\ cut = {}
  /\ view \in InitialRows
  /\ tx = None
  /\ closed = FALSE
  /\ guests = {}
  /\ stray = FALSE

-----------------------------------------------------------------------------
(* A receipt, by which confirm and rollback name the draw, exists. *)
Known(k) ==
  \/ durable[k] # "absent"
  \/ \E c \in Calls : calls[c].answer = "ok" /\ Job(c).op = "draw" /\ Job(c).key = k

Ask(c, job) ==
  /\ At(c, "idle")
  /\ job.op \in {"confirm", "rollback"} => Known(job.key)
  /\ calls' = [calls EXCEPT ![c].job = job, ![c].at = "waiting"]
  /\ UNCHANGED <<lock, cut, view, tx, closed, guests, stray>>

Enter(c) ==
  /\ At(c, "waiting")
  /\ lock = None
  /\ lock' = c
  /\ Goto(c, "queued")
  /\ UNCHANGED <<cut, view, tx, closed, guests, stray>>

(* Mutation: the lock is released by the last statement, not by the block. *)
EndedUnguarded(c, result) ==
  /\ calls' = [calls EXCEPT ![c].at = "done",
                            ![c].answer = IF c \in cut THEN "cancelled" ELSE result]
  /\ lock' = IF lock = c /\ result = "ok" THEN None ELSE lock

(***************************************************************************)
(* The thread returns or raises; its caller, if it still waits, leaves the *)
(* lock with the answer.                                                   *)
(***************************************************************************)
Ended(c, result) ==
  /\ calls' = [calls EXCEPT ![c].at = "done",
                            ![c].answer = IF c \in cut THEN "cancelled" ELSE result]
  /\ lock' = IF lock = c THEN None ELSE lock

(* What c reads and writes is part of whatever transaction is open. *)
Joins(c) == guests' = IF tx # None /\ tx.by # c THEN guests \cup {c} ELSE guests

Write(c, rows) == view' = rows /\ Joins(c)

Runs(c, op) == At(c, "queued") /\ Job(c).op = op /\ ~ closed

-----------------------------------------------------------------------------
(* draw_sync, statement by statement. *)

(* Mutation: a transaction is begun only if none is open. *)
BeginUnlessOpen(c) ==
  /\ Runs(c, "draw")
  /\ tx' = IF tx = None THEN [by |-> c, saved |-> view] ELSE tx
  /\ Goto(c, "look")
  /\ UNCHANGED <<lock, cut, view, closed, guests, stray>>

(***************************************************************************)
(* BEGIN IMMEDIATE stands before the try: in an open transaction it raises *)
(* and nothing is rolled back.                                             *)
(***************************************************************************)
Begin(c) ==
  /\ Runs(c, "draw")
  /\ tx = None
  /\ tx' = [by |-> c, saved |-> view]
  /\ Goto(c, "look")
  /\ UNCHANGED <<lock, cut, view, closed, guests, stray>>

BeginFails(c) ==
  /\ At(c, "queued") /\ Job(c).op = "draw"
  /\ Ended(c, "raised")
  /\ UNCHANGED <<cut, view, tx, closed, guests, stray>>

(* The envelope is open; is there a row with this key? *)
Look(c) ==
  /\ At(c, "look") /\ ~ closed
  /\ Goto(c, IF view[Job(c).key] = "absent" THEN "sum_reserved" ELSE "replay")
  /\ UNCHANGED <<lock, cut, view, tx, closed, guests, stray>>

SumReserved(c) ==
  /\ At(c, "sum_reserved") /\ ~ closed
  /\ calls' = [calls EXCEPT ![c].at = "sum_settled",
                            ![c].reserved = Atomic!SumIn(view, "reserved")]
  /\ UNCHANGED <<lock, cut, view, tx, closed, guests, stray>>

(* Mutation: the check is against the cap alone. *)
WithinCap(c) == Amount[Job(c).key] <= Cap

WithinAvailable(c) ==
  Amount[Job(c).key] <= Cap - calls[c].reserved - Atomic!SumIn(view, "settled")

SumSettled(c) ==
  /\ At(c, "sum_settled") /\ ~ closed
  /\ Goto(c, IF WithinAvailable(c) THEN "insert" ELSE "abort")
  /\ UNCHANGED <<lock, cut, view, tx, closed, guests, stray>>

(* UNIQUE (envelope_id, idempotency_key) *)
Insert(c) ==
  /\ At(c, "insert") /\ ~ closed
  /\ IF view[Job(c).key] = "absent"
     THEN Write(c, [view EXCEPT ![Job(c).key] = "reserved"]) /\ Goto(c, "commit")
     ELSE Goto(c, "abort") /\ UNCHANGED <<view, guests>>
  /\ UNCHANGED <<lock, cut, tx, closed, stray>>

(* COMMIT ends the open transaction, whoever began it, and needs one. *)
Commit(c) ==
  /\ At(c, "commit") \/ At(c, "replay")
  /\ ~ closed
  /\ Goto(c, CASE tx = None -> "abort"
               [] tx # None /\ At(c, "commit") -> "sign"
               [] tx # None /\ At(c, "replay") -> "resign")
  /\ tx' = None
  /\ UNCHANGED <<lock, cut, view, closed, guests, stray>>

Sign(c) ==
  /\ At(c, "sign")
  /\ Goto(c, "verify")
  /\ UNCHANGED <<lock, cut, view, tx, closed, guests, stray>>

Return(c) ==
  /\ At(c, "resign") \/ (At(c, "verify") /\ ~ closed)
  /\ Ended(c, "ok")
  /\ UNCHANGED <<cut, view, tx, closed, guests, stray>>

VerifyFails(c) ==
  /\ At(c, "verify")
  /\ Goto(c, "undo")
  /\ UNCHANGED <<lock, cut, view, tx, closed, guests, stray>>

Undo(c) ==
  /\ At(c, "undo") /\ ~ closed
  /\ Write(c, Atomic!Freed(view, {Job(c).key}))
  /\ Goto(c, "abort")
  /\ UNCHANGED <<lock, cut, tx, closed, stray>>

(***************************************************************************)
(* The envelope refuses, or a statement, the keystore or the signature     *)
(* raises.                                                                 *)
(***************************************************************************)
DrawFails(c) ==
  /\ calls[c].at \in (Window \ {"abort"}) \cup {"sign", "resign", "verify", "undo"}
  /\ Goto(c, "abort")
  /\ UNCHANGED <<lock, cut, view, tx, closed, guests, stray>>

(* Mutation: the exception is passed on without a ROLLBACK. *)
AbortWithoutRollback(c) ==
  /\ At(c, "abort")
  /\ Ended(c, "raised")
  /\ UNCHANGED <<cut, view, tx, closed, guests, stray>>

(* ROLLBACK, whose own failure is swallowed, ends whatever is open. *)
Abort(c) ==
  /\ At(c, "abort")
  /\ view' = durable
  /\ tx' = None
  /\ stray' = (stray \/ (tx # None /\ tx.by # c))
  /\ Ended(c, "raised")
  /\ UNCHANGED <<cut, closed, guests>>

-----------------------------------------------------------------------------
(* The operations that are single statements or begin with a SELECT. *)

ConfirmFinds(c) ==
  /\ Runs(c, "confirm")
  /\ view[Job(c).key] # "absent"
  /\ Goto(c, "settle")
  /\ Joins(c)
  /\ UNCHANGED <<lock, cut, view, tx, closed, stray>>

(* Mutation: the UPDATE settles reserved draws only. *)
SettledIfReserved(rows, k) ==
  IF rows[k] = "reserved" THEN [rows EXCEPT ![k] = "settled"] ELSE rows

Settled(rows, k) ==
  IF rows[k] \in {"reserved", "rolled_back"} THEN [rows EXCEPT ![k] = "settled"] ELSE rows

ConfirmSettles(c) ==
  /\ At(c, "settle") /\ ~ closed
  /\ Write(c, Settled(view, Job(c).key))
  /\ Ended(c, "ok")
  /\ UNCHANGED <<cut, tx, closed, stray>>

RollbackFrees(c) ==
  /\ Runs(c, "rollback")
  /\ view[Job(c).key] # "absent"
  /\ Write(c, Atomic!Freed(view, {Job(c).key}))
  /\ Ended(c, "ok")
  /\ UNCHANGED <<cut, tx, closed, stray>>

(* Which draws have expired is a matter of time. *)
ReapFrees(c, expired) ==
  /\ Runs(c, "reap")
  /\ Write(c, Atomic!Freed(view, expired))
  /\ Ended(c, "ok")
  /\ UNCHANGED <<cut, tx, closed, stray>>

(* No row, a closed connection or any other sqlite3 error. *)
StatementFails(c) ==
  /\ At(c, "settle") \/ (At(c, "queued") /\ Job(c).op # "draw")
  /\ Ended(c, "raised")
  /\ UNCHANGED <<cut, view, tx, closed, guests, stray>>

Thread(c) ==
  \/ Begin(c) \/ BeginFails(c) \/ Look(c) \/ SumReserved(c) \/ SumSettled(c)
  \/ Insert(c) \/ Commit(c) \/ Sign(c) \/ Return(c) \/ VerifyFails(c) \/ Undo(c)
  \/ DrawFails(c) \/ Abort(c)
  \/ ConfirmFinds(c) \/ ConfirmSettles(c) \/ RollbackFrees(c)
  \/ \E expired \in SUBSET Keys : ReapFrees(c, expired)
  \/ StatementFails(c)

-----------------------------------------------------------------------------
(* A caller that waits for the lock, or whose thread has not begun, is gone. *)
CancelBefore(c) ==
  /\ At(c, "waiting") \/ (At(c, "queued") /\ c \notin cut)
  /\ calls' = [calls EXCEPT ![c].at = "done", ![c].answer = "cancelled"]
  /\ lock' = IF lock = c THEN None ELSE lock
  /\ UNCHANGED <<cut, view, tx, closed, guests, stray>>

(* The await is left, the lock is released, and the thread runs on. *)
CancelWithin(c) ==
  /\ calls[c].at \in Running
  /\ c \notin cut
  /\ Cardinality(cut) < MaxCancels
  /\ cut' = cut \cup {c}
  /\ lock' = IF lock = c THEN None ELSE lock
  /\ UNCHANGED <<calls, view, tx, closed, guests, stray>>

(***************************************************************************)
(* aclose, after it has cancelled the background tasks, closes the         *)
(* connection under the lock; SQLite undoes what was not committed.        *)
(***************************************************************************)
Close ==
  /\ ~ closed
  /\ lock = None
  /\ closed' = TRUE
  /\ view' = durable
  /\ tx' = None
  /\ UNCHANGED <<lock, calls, cut, guests, stray>>

ConnectionNext ==
  \/ \E c \in Calls : \/ \E job \in Jobs[c] : Ask(c, job)
                      \/ Enter(c) \/ Thread(c) \/ CancelBefore(c) \/ CancelWithin(c)
  \/ Close

ConnectionSpec == ConnectionInit /\ [][ConnectionNext]_vars

(***************************************************************************)
(* The event loop wakes the waiters of a free lock and worker threads run. *)
(***************************************************************************)
FairConnectionSpec ==
  ConnectionSpec /\ \A c \in Calls : WF_vars(Enter(c)) /\ WF_vars(Thread(c))

-----------------------------------------------------------------------------
(***************************************************************************)
(* Type invariant.                                                         *)
(***************************************************************************)
Rows == [Keys -> Atomic!DrawStates]

ConnectionTypeOK ==
  /\ lock \in Calls \cup {None}
  /\ calls \in [Calls -> [job : [op : Ops, key : Keys] \cup {None}, at : Places,
                          reserved : {0} \cup {Atomic!SumIn(r, "reserved") : r \in Rows},
                          answer : {"ok", "raised", "cancelled", None}]]
  /\ cut \subseteq Calls
  /\ view \in Rows
  /\ tx \in [by : Calls, saved : Rows] \cup {None}
  /\ closed \in BOOLEAN
  /\ guests \subseteq Calls
  /\ stray \in BOOLEAN

(***************************************************************************)
(* As long as no caller has been cancelled while its thread ran, what is   *)
(* on disk changes by the atomic operations of the store only, although    *)
(* each is several statements and a draw may fail after its COMMIT ("BEGIN *)
(* IMMEDIATE -> cap check -> idempotency -> INSERT -> COMMIT", draw).      *)
(***************************************************************************)
AtomicUntilCancelled ==
  [][cut' = {} => Atomic!AtomicNext \/ UNCHANGED durable]_vars

(***************************************************************************)
(* A transaction, which locks the file for every other connection, is open *)
(* only while the thread that began it is on its way to COMMIT or          *)
(* ROLLBACK, whatever other threads do to it and whoever is cancelled.     *)
(***************************************************************************)
TransactionsHaveOwners == tx # None => calls[tx.by].at \in Window

(***************************************************************************)
(* A settlement that was acknowledged is on disk and stays there, unless   *)
(* its SELECT or its UPDATE ran inside the transaction of a draw whose     *)
(* caller was cancelled: that draw's ROLLBACK takes what was found, or     *)
(* the settlement, with it.                                                *)
(***************************************************************************)
SettlementsStand ==
  \A c \in Calls :
    calls[c].answer = "ok" /\ Job(c).op = "confirm" /\ c \notin guests
      => durable[Job(c).key] = "settled"

(***************************************************************************)
(* Two draws are never between their cap check and their COMMIT at once,   *)
(* even when a cancelled caller has let the second past the lock, because  *)
(* its BEGIN is refused; the exception is a transaction that a third       *)
(* call's late ROLLBACK ended under its owner.                             *)
(***************************************************************************)
Checking == {"sum_reserved", "sum_settled", "insert", "commit"}

ChecksAreExclusive ==
  \A c, d \in Calls :
    calls[c].at \in Checking /\ calls[d].at \in Checking /\ c # d => stray

(***************************************************************************)
(* Everybody who asks gets an answer: the lock is never lost, with a       *)
(* thread that fails, a caller that is cancelled or a connection that is   *)
(* closed.                                                                 *)
(***************************************************************************)
EveryoneIsAnswered == \A c \in Calls : At(c, "waiting") ~> At(c, "done")
=============================================================================
