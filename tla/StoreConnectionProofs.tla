----------------------- MODULE StoreConnectionProofs -----------------------
(***************************************************************************)
(* Proofs about StoreConnection, for any calls, keys, amounts and cap, and *)
(* any number of cancelled callers.                                        *)
(***************************************************************************)
EXTENDS StoreConnection, TLAPS

(* A call that has been asked for has a job. *)
Asked == \A c \in Calls : ~ At(c, "idle") => Job(c) \in [op : Ops, key : Keys]

TypeInv == ConnectionTypeOK /\ Asked /\ (closed => tx = None)

(* Only draws run draw_sync, and who has an answer has returned. *)
Placed ==
  \A c \in Calls :
    /\ calls[c].at \in Window \cup {"sign", "resign", "verify", "undo"} => Job(c).op = "draw"
    /\ At(c, "settle") => Job(c).op = "confirm"
    /\ calls[c].answer = "ok" => At(c, "done")

-----------------------------------------------------------------------------
(* Until a caller is cancelled in to_thread, a thread runs under the lock. *)
Locked == cut = {} => \A c \in Calls : calls[c].at \in Running => lock = c

(* Where a draw has its transaction to itself, and nothing written in it. *)
Reading == {"look", "sum_reserved", "sum_settled", "insert", "replay"}

(* What a draw has learnt of the rows on its way to the INSERT. *)
Learnt(c) ==
  /\ calls[c].at \in {"sum_reserved", "sum_settled", "insert"} => view[Job(c).key] = "absent"
  /\ At(c, "sum_settled") => calls[c].reserved = Atomic!SumIn(view, "reserved")
  /\ At(c, "insert") => Atomic!Fits(view, Job(c).key)

(* How a thread that runs alone has changed what is on disk. *)
Alone(c) ==
  /\ calls[c].at \in Running \ Window => tx = None
  /\ calls[c].at \in Reading => tx = [by |-> c, saved |-> view] /\ Learnt(c)
  /\ At(c, "commit") =>
       /\ tx # None
       /\ tx.saved[Job(c).key] = "absent" /\ Atomic!Fits(tx.saved, Job(c).key)
       /\ view = [tx.saved EXCEPT ![Job(c).key] = "reserved"]

AtomicInv == Locked /\ (cut = {} => \A c \in Calls : Alone(c))

-----------------------------------------------------------------------------
(* A settlement that stands is in the view, in which no row disappears. *)
Standing ==
  \A c \in Calls :
    /\ At(c, "settle") /\ c \notin guests => durable[Job(c).key] # "absent"
    /\ calls[c].answer = "ok" /\ Job(c).op = "confirm" /\ c \notin guests =>
         durable[Job(c).key] = "settled" /\ view[Job(c).key] = "settled"

RowsRemain == \A k \in Keys : durable[k] # "absent" => view[k] # "absent"

(* Only its own thread is in a transaction, unless one was rolled back. *)
Open == Window \ {"abort"}

OpenAreOwners ==
  ~ stray => /\ \A c \in Calls : calls[c].at \in Open => closed \/ (tx # None /\ tx.by = c)
             /\ \A c, d \in Calls : calls[c].at \in Open /\ calls[d].at \in Open => c = d

ConnectionInv ==
  /\ TypeInv /\ Placed /\ AtomicInv /\ TransactionsHaveOwners
  /\ Standing /\ RowsRemain /\ OpenAreOwners

-----------------------------------------------------------------------------
(* The steps of a thread, in two halves.                                   *)
DrawStep(c) ==
  \/ Begin(c) \/ BeginFails(c) \/ Look(c) \/ SumReserved(c) \/ SumSettled(c)
  \/ Insert(c) \/ Commit(c) \/ Sign(c) \/ Return(c) \/ VerifyFails(c) \/ Undo(c)
  \/ DrawFails(c) \/ Abort(c)

RowStep(c) ==
  \/ ConfirmFinds(c) \/ ConfirmSettles(c) \/ RollbackFrees(c)
  \/ \E expired \in SUBSET Keys : ReapFrees(c, expired)
  \/ StatementFails(c)

CallerStep(c) ==
  (\E job \in Jobs[c] : Ask(c, job)) \/ Enter(c) \/ CancelBefore(c) \/ CancelWithin(c)

LEMMA NextCases ==
  ASSUME [ConnectionNext]_vars
  PROVE  \/ \E c \in Calls : DrawStep(c) \/ RowStep(c) \/ CallerStep(c)
         \/ Close
         \/ UNCHANGED vars
BY DEF ConnectionNext, Thread, DrawStep, RowStep, CallerStep

(* What the rows may become. *)
LEMMA RowTypes ==
  ASSUME NEW r \in Rows, NEW k \in Keys
  PROVE  /\ [r EXCEPT ![k] = "reserved"] \in Rows
         /\ Settled(r, k) \in Rows
         /\ \A S \in SUBSET Keys : Atomic!Freed(r, S) \in Rows
BY DEF Rows, Settled, Atomic!Freed, Atomic!DrawStates

(* The calls, a thread's step to another place, and its last step. *)
Sums == {0} \cup {Atomic!SumIn(r, "reserved") : r \in Rows}

CallRecords ==
  [job : [op : Ops, key : Keys] \cup {None}, at : Places, reserved : Sums,
   answer : {"ok", "raised", "cancelled", None}]

CallsInv == calls \in [Calls -> CallRecords] /\ Asked

Stays(c) == \A d \in Calls : d # c => calls'[d] = calls[d]

LEMMA GotoMoves ==
  ASSUME CallsInv, NEW c \in Calls, ~ At(c, "idle"), NEW p \in Places, Goto(c, p)
  PROVE  /\ CallsInv' /\ Stays(c)
         /\ calls'[c] = [job |-> calls[c].job, at |-> p, reserved |-> calls[c].reserved,
                         answer |-> calls[c].answer]
BY DEF CallsInv, CallRecords, Asked, Stays, At, Goto, Job

LEMMA EndedMoves ==
  ASSUME CallsInv, NEW c \in Calls, ~ At(c, "idle"), NEW r \in {"ok", "raised"}, Ended(c, r)
  PROVE  /\ CallsInv' /\ Stays(c)
         /\ calls'[c] = [job |-> calls[c].job, at |-> "done", reserved |-> calls[c].reserved,
                         answer |-> IF c \in cut THEN "cancelled" ELSE r]
<1> DEFINE a == IF c \in cut THEN "cancelled" ELSE r
<1>1. PICK b \in {"ok", "raised", "cancelled"} : b = a
  OBVIOUS
<1>2. calls' = [calls EXCEPT ![c].at = "done", ![c].answer = b]
  BY <1>1 DEF Ended
<1> HIDE DEF a
<1>3. /\ CallsInv' /\ Stays(c)
      /\ calls'[c] = [job |-> calls[c].job, at |-> "done", reserved |-> calls[c].reserved,
                      answer |-> b]
  BY <1>2 DEF CallsInv, CallRecords, Asked, Stays, At, Job, Places
<1>4. QED BY <1>1, <1>3 DEF a

(* Who has moved had been asked for. *)
LEMMA ThreadsWereAsked ==
  ASSUME CallsInv, NEW c \in Calls, DrawStep(c) \/ RowStep(c)
  PROVE  ~ At(c, "idle") /\ Job(c) \in [op : Ops, key : Keys] /\ Job(c).key \in Keys
<1>1. CASE DrawStep(c)
  <2>1. ~ At(c, "idle")
    BY <1>1 DEF DrawStep, Begin, BeginFails, Look, SumReserved, SumSettled, Insert, Commit,
                Sign, Return, VerifyFails, Undo, DrawFails, Abort, Runs, At, Window
  <2>2. QED BY <2>1 DEF CallsInv, CallRecords, Asked, Job, At
<1>2. CASE RowStep(c)
  <2>1. ~ At(c, "idle")
    BY <1>2 DEF RowStep, ConfirmFinds, ConfirmSettles, RollbackFrees, ReapFrees,
                StatementFails, Runs, At
  <2>2. QED BY <2>1 DEF CallsInv, CallRecords, Asked, Job, At
<1>3. QED BY <1>1, <1>2

(* Everything but the calls. *)
StateInv ==
  /\ lock \in Calls \cup {None} /\ cut \subseteq Calls /\ view \in Rows
  /\ tx \in [by : Calls, saved : Rows] \cup {None} /\ guests \subseteq Calls
  /\ (closed => tx = None)

LEMMA TypeParts == TypeInv <=> CallsInv /\ StateInv /\ closed \in BOOLEAN /\ stray \in BOOLEAN
BY DEF TypeInv, ConnectionTypeOK, CallsInv, CallRecords, Sums, StateInv

LEMMA FlagsStep ==
  ASSUME closed \in BOOLEAN, stray \in BOOLEAN, [ConnectionNext]_vars
  PROVE  closed' \in BOOLEAN /\ stray' \in BOOLEAN
<1> USE DEF vars
<1>1. CASE UNCHANGED vars
  BY <1>1
<1>2. CASE Close
  BY <1>2, Zenon DEF Close
<1>3. ASSUME NEW c \in Calls, CallerStep(c)
      PROVE  closed' = closed /\ stray' = stray
  BY <1>3, Zenon DEF CallerStep, Ask, Enter, CancelBefore, CancelWithin
<1>4. ASSUME NEW c \in Calls, RowStep(c)
      PROVE  closed' = closed /\ stray' = stray
  BY <1>4, Zenon DEF RowStep, ConfirmFinds, ConfirmSettles, RollbackFrees, ReapFrees,
                     StatementFails
<1>5. ASSUME NEW c \in Calls, DrawStep(c), ~ Abort(c)
      PROVE  closed' = closed /\ stray' = stray
  BY <1>5, Zenon DEF DrawStep, Begin, BeginFails, Look, SumReserved, SumSettled, Insert, Commit,
                     Sign, Return, VerifyFails, Undo, DrawFails
<1>6. ASSUME NEW c \in Calls, Abort(c)
      PROVE  closed' = closed /\ stray' \in BOOLEAN
  BY <1>6, Zenon DEF Abort
<1>7. QED BY <1>1, <1>2, <1>3, <1>4, <1>5, <1>6, NextCases, Zenon

LEMMA CallerMoves ==
  ASSUME CallsInv, NEW c \in Calls, CallerStep(c)
  PROVE  /\ CallsInv' /\ Stays(c)
         /\ UNCHANGED <<view, tx, closed, guests, stray>>
<1> USE DEF CallsInv, CallRecords, Asked, Stays, At, Job, Places
<1>1. ASSUME NEW job \in Jobs[c], Ask(c, job)
      PROVE  CallsInv' /\ Stays(c) /\ UNCHANGED <<view, tx, closed, guests, stray>>
  <2>1. job \in [op : Ops, key : Keys]
    BY JobsAssumption, <1>1
  <2>2. QED BY <1>1, <2>1 DEF Ask
<1>2. CASE Enter(c)
  BY <1>2 DEF Enter, Goto, Running
<1>3. CASE CancelBefore(c)
  BY <1>3 DEF CancelBefore
<1>4. CASE CancelWithin(c)
  BY <1>4 DEF CancelWithin
<1>5. QED BY <1>1, <1>2, <1>3, <1>4 DEF CallerStep

LEMMA RowMoves ==
  ASSUME CallsInv, StateInv, NEW c \in Calls, RowStep(c)
  PROVE  CallsInv' /\ Stays(c) /\ StateInv'
<1> USE DEF StateInv, Joins, Write
<1>1. ~ At(c, "idle") /\ Job(c).key \in Keys
  BY ThreadsWereAsked
<1>2. CASE ConfirmFinds(c)
  BY <1>1, <1>2, GotoMoves DEF ConfirmFinds, Places, Running
<1>3. \A r \in {"ok", "raised"} : Ended(c, r) => CallsInv' /\ Stays(c) /\ lock' \in Calls \cup {None}
  BY <1>1, EndedMoves DEF Ended
<1>4. CASE ConfirmSettles(c)
  BY <1>1, <1>3, <1>4, RowTypes DEF ConfirmSettles
<1>5. CASE RollbackFrees(c)
  BY <1>1, <1>3, <1>5, RowTypes DEF RollbackFrees
<1>6. ASSUME NEW expired \in SUBSET Keys, ReapFrees(c, expired)
      PROVE  CallsInv' /\ Stays(c) /\ StateInv'
  <2>1. Atomic!Freed(view, expired) \in Rows
    BY <1>1, <1>6, RowTypes
  <2>2. QED BY <1>3, <1>6, <2>1 DEF ReapFrees
<1>7. CASE StatementFails(c)
  BY <1>3, <1>7 DEF StatementFails
<1>8. QED BY <1>2, <1>4, <1>5, <1>6, <1>7 DEF RowStep

LEMMA DrawMoves ==
  ASSUME CallsInv, StateInv, NEW c \in Calls, DrawStep(c)
  PROVE  CallsInv' /\ Stays(c) /\ StateInv'
<1> USE DEF StateInv, Joins, Write
<1>1. ~ At(c, "idle") /\ Job(c).key \in Keys
  BY ThreadsWereAsked
<1>2. \A r \in {"ok", "raised"} : Ended(c, r) => CallsInv' /\ Stays(c) /\ lock' \in Calls \cup {None}
  BY <1>1, EndedMoves DEF Ended
<1>3. \A p \in Places : Goto(c, p) => CallsInv' /\ Stays(c)
  BY <1>1, GotoMoves
<1> USE DEF Places, Running, Window
<1>4. CASE Begin(c)
  BY <1>3, <1>4 DEF Begin, Runs
<1>5. CASE BeginFails(c) \/ Return(c)
  BY <1>2, <1>5 DEF BeginFails, Return
<1>6. CASE Look(c) \/ SumSettled(c) \/ Sign(c) \/ VerifyFails(c) \/ DrawFails(c)
  BY <1>3, <1>6 DEF Look, SumSettled, Sign, VerifyFails, DrawFails
<1>7. CASE SumReserved(c)
  <2>1. Atomic!SumIn(view, "reserved") \in Sums
    BY DEF StateInv, Sums
  <2>2. PICK n \in Sums : n = Atomic!SumIn(view, "reserved")
    BY <2>1
  <2>3. calls' = [calls EXCEPT ![c].at = "sum_settled", ![c].reserved = n]
    BY <1>7, <2>2 DEF SumReserved
  <2>4. CallsInv' /\ Stays(c)
    <3> PICK p \in Places : p = "sum_settled"
      OBVIOUS
    <3> HIDE DEF Places, Running, Window, StateInv
    <3>1. calls' = [calls EXCEPT ![c].at = p, ![c].reserved = n]
      BY <2>3
    <3>2. calls' \in [Calls -> CallRecords]
      BY <2>2, <3>1 DEF CallsInv, CallRecords
    <3>3. Asked' /\ Stays(c)
      BY <1>1, <3>1 DEF CallsInv, CallRecords, Asked, Stays, At, Job
    <3>4. QED BY <3>2, <3>3 DEF CallsInv
  <2>5. QED BY <1>7, <2>4 DEF SumReserved
<1>8. CASE Insert(c)
  BY <1>1, <1>3, <1>8, RowTypes DEF Insert
<1>9. CASE Commit(c)
  BY <1>3, <1>9 DEF Commit
<1>10. CASE Undo(c)
  BY <1>1, <1>3, <1>10, RowTypes DEF Undo
<1>11. CASE Abort(c)
  BY <1>2, <1>11 DEF Abort, durable
<1>12. QED BY <1>4, <1>5, <1>6, <1>7, <1>8, <1>9, <1>10, <1>11 DEF DrawStep

LEMMA TypeStep ==
  ASSUME TypeInv, [ConnectionNext]_vars
  PROVE  TypeInv'
<1>1. CallsInv /\ StateInv
  BY TypeParts
<1>2. closed' \in BOOLEAN /\ stray' \in BOOLEAN
  BY TypeParts, FlagsStep
<1>3. ASSUME NEW c \in Calls, CallerStep(c)
      PROVE  CallsInv' /\ StateInv'
  <2>1. lock' \in Calls \cup {None} /\ cut' \subseteq Calls
    BY <1>1, <1>3 DEF CallerStep, Ask, Enter, CancelBefore, CancelWithin, StateInv
  <2>2. QED BY <1>1, <1>3, <2>1, CallerMoves DEF StateInv
<1>4. ASSUME Close
      PROVE  CallsInv' /\ StateInv'
  BY <1>1, <1>4 DEF Close, durable, StateInv, CallsInv, Asked, At, Job
<1>5. ASSUME UNCHANGED vars
      PROVE  CallsInv' /\ StateInv'
  BY <1>1, <1>5 DEF vars, StateInv, CallsInv, Asked, At, Job
<1>6. CallsInv' /\ StateInv'
  BY <1>1, <1>3, <1>4, <1>5, RowMoves, DrawMoves, NextCases
<1>7. QED BY <1>2, <1>6 DEF TypeInv, ConnectionTypeOK, CallsInv, CallRecords, Sums, StateInv

-----------------------------------------------------------------------------
(* Where a step leaves its thread. *)
Lands(c, p) ==
  /\ Stays(c)
  /\ calls'[c].job = calls[c].job /\ calls'[c].reserved = calls[c].reserved
  /\ calls'[c].at = p /\ calls'[c].answer = calls[c].answer

Ends(c, r) ==
  /\ Stays(c)
  /\ calls'[c].job = calls[c].job
  /\ calls'[c].at = "done" /\ calls'[c].answer = IF c \in cut THEN "cancelled" ELSE r

LEMMA Landings ==
  ASSUME CallsInv, NEW c \in Calls, ~ At(c, "idle")
  PROVE  /\ \A p \in Places : Goto(c, p) => Lands(c, p)
         /\ \A r \in {"ok", "raised"} : Ended(c, r) => Ends(c, r)
<1>1. ASSUME NEW p \in Places, Goto(c, p)
      PROVE  Lands(c, p)
  <2>1. /\ Stays(c)
        /\ calls'[c] = [job |-> calls[c].job, at |-> p, reserved |-> calls[c].reserved,
                        answer |-> calls[c].answer]
    BY <1>1, GotoMoves
  <2>2. QED BY <2>1 DEF Lands
<1>2. ASSUME NEW r \in {"ok", "raised"}, Ended(c, r)
      PROVE  Ends(c, r)
  <2>1. /\ Stays(c)
        /\ calls'[c] = [job |-> calls[c].job, at |-> "done", reserved |-> calls[c].reserved,
                        answer |-> IF c \in cut THEN "cancelled" ELSE r]
    BY <1>2, EndedMoves
  <2>2. QED BY <2>1 DEF Ends
<1>3. QED BY <1>1, <1>2

LEMMA SumLands ==
  ASSUME CallsInv, NEW c \in Calls, SumReserved(c)
  PROVE  /\ Stays(c) /\ calls'[c].job = calls[c].job /\ calls'[c].at = "sum_settled"
         /\ calls'[c].reserved = Atomic!SumIn(view, "reserved")
         /\ calls'[c].answer = calls[c].answer
<1>1. PICK n : n = Atomic!SumIn(view, "reserved")
  OBVIOUS
<1>2. calls' = [calls EXCEPT ![c].at = "sum_settled", ![c].reserved = n]
  BY <1>1 DEF SumReserved
<1>3. QED BY <1>1, <1>2 DEF CallsInv, CallRecords, Stays

(* The places between which each action moves its thread. *)
LEMMA DrawWalk ==
  ASSUME CallsInv, NEW c \in Calls, DrawStep(c)
  PROVE  /\ Stays(c) /\ calls'[c].job = calls[c].job /\ cut' = cut
         /\ calls[c].answer = calls'[c].answer \/ calls'[c].at = "done"
         /\ \/ Begin(c) /\ calls'[c].at = "look"
            \/ Look(c) /\ Lands(c, IF view[Job(c).key] = "absent" THEN "sum_reserved" ELSE "replay")
            \/ SumReserved(c) /\ calls'[c].at = "sum_settled"
                 /\ calls'[c].reserved = Atomic!SumIn(view, "reserved")
            \/ SumSettled(c) /\ Lands(c, IF WithinAvailable(c) THEN "insert" ELSE "abort")
            \/ Insert(c) /\ Lands(c, IF view[Job(c).key] = "absent" THEN "commit" ELSE "abort")
            \/ Commit(c) /\ calls'[c].at = IF tx = None THEN "abort"
                                           ELSE IF At(c, "commit") THEN "sign" ELSE "resign"
            \/ Sign(c) /\ calls'[c].at = "verify"
            \/ VerifyFails(c) /\ calls'[c].at = "undo"
            \/ (Undo(c) \/ DrawFails(c)) /\ calls'[c].at = "abort"
            \/ (BeginFails(c) \/ Abort(c)) /\ Ends(c, "raised")
            \/ Return(c) /\ Ends(c, "ok")
<1>1. ~ At(c, "idle")
  BY ThreadsWereAsked
<1>2. /\ \A p \in Places : Goto(c, p) => Lands(c, p)
      /\ \A r \in {"ok", "raised"} : Ended(c, r) => Ends(c, r)
  BY <1>1, Landings
<1> USE DEF Places, Running, Window
<1>3. CASE Begin(c)
  BY <1>2, <1>3 DEF Begin, Lands
<1>4. CASE Look(c)
  BY <1>2, <1>4 DEF Look, Lands
<1>5. CASE SumReserved(c)
  BY <1>5, SumLands DEF SumReserved
<1>6. CASE SumSettled(c)
  BY <1>2, <1>6 DEF SumSettled, Lands
<1>7. CASE Insert(c)
  BY <1>2, <1>7 DEF Insert, Lands
<1>8. CASE Commit(c)
  BY <1>2, <1>8 DEF Commit, Lands, At
<1>9. CASE Sign(c) \/ VerifyFails(c) \/ Undo(c) \/ DrawFails(c)
  BY <1>2, <1>9 DEF Sign, VerifyFails, Undo, DrawFails, Lands
<1>10. CASE BeginFails(c) \/ Abort(c) \/ Return(c)
  BY <1>2, <1>10 DEF BeginFails, Abort, Return, Ends
<1>11. QED BY <1>3, <1>4, <1>5, <1>6, <1>7, <1>8, <1>9, <1>10 DEF DrawStep

LEMMA RowWalk ==
  ASSUME CallsInv, NEW c \in Calls, RowStep(c)
  PROVE  /\ Stays(c) /\ calls'[c].job = calls[c].job /\ cut' = cut
         /\ At(c, "queued") \/ At(c, "settle")
         /\ \/ ConfirmFinds(c) /\ Lands(c, "settle")
            \/ ConfirmSettles(c) /\ Ends(c, "ok")
            \/ RollbackFrees(c) /\ Ends(c, "ok")
            \/ (\E expired \in SUBSET Keys : ReapFrees(c, expired)) /\ Ends(c, "ok")
            \/ StatementFails(c) /\ Ends(c, "raised")
<1>1. ~ At(c, "idle")
  BY ThreadsWereAsked
<1>2. /\ \A p \in Places : Goto(c, p) => Lands(c, p)
      /\ \A r \in {"ok", "raised"} : Ended(c, r) => Ends(c, r)
  BY <1>1, Landings
<1>3. CASE ConfirmFinds(c)
  BY <1>2, <1>3 DEF ConfirmFinds, Lands, Runs, Places, Running
<1>4. CASE ConfirmSettles(c) \/ RollbackFrees(c) \/ StatementFails(c)
  BY <1>2, <1>4 DEF ConfirmSettles, RollbackFrees, StatementFails, Ends, Runs
<1>5. ASSUME NEW expired \in SUBSET Keys, ReapFrees(c, expired)
      PROVE  /\ Stays(c) /\ calls'[c].job = calls[c].job /\ cut' = cut
             /\ At(c, "queued") /\ Ends(c, "ok")
  BY <1>2, <1>5 DEF ReapFrees, Ends, Runs
<1>6. QED BY <1>3, <1>4, <1>5 DEF RowStep

(* A caller moves no thread on. *)
LEMMA CallerWalk ==
  ASSUME CallsInv, NEW c \in Calls, CallerStep(c)
  PROVE  /\ Stays(c) /\ UNCHANGED <<view, tx, closed, guests, stray>>
         /\ \/ At(c, "idle") /\ calls'[c].at = "waiting" /\ calls'[c].answer = calls[c].answer
            \/ Enter(c) /\ Lands(c, "queued")
            \/ (At(c, "waiting") \/ At(c, "queued")) /\ calls'[c].at = "done"
                 /\ calls'[c].answer = "cancelled" /\ calls'[c].job = calls[c].job
            \/ cut' = cut \cup {c} /\ calls' = calls
<1>1. Stays(c) /\ UNCHANGED <<view, tx, closed, guests, stray>>
  BY CallerMoves
<1> USE DEF CallsInv, CallRecords, At
<1>2. ASSUME NEW job \in Jobs[c], Ask(c, job)
      PROVE  /\ At(c, "idle") /\ calls'[c].at = "waiting"
             /\ calls'[c].answer = calls[c].answer
  BY <1>2 DEF Ask
<1>3. CASE Enter(c)
  BY <1>1, <1>3, Landings DEF Enter, Places, Running
<1>4. CASE CancelBefore(c)
  BY <1>1, <1>4 DEF CancelBefore
<1>5. CASE CancelWithin(c)
  BY <1>1, <1>5 DEF CancelWithin
<1>6. QED BY <1>1, <1>2, <1>3, <1>4, <1>5 DEF CallerStep

-----------------------------------------------------------------------------
(* Each part of the invariant, over any step. *)
LEMMA OwnersStep ==
  ASSUME TypeInv, TransactionsHaveOwners, [ConnectionNext]_vars
  PROVE  TransactionsHaveOwners'
<1> USE NoneAssumption DEF TransactionsHaveOwners, Window, At
<1>1. CallsInv /\ (tx # None => tx.by \in Calls)
  BY TypeParts DEF StateInv
<1>2. CASE UNCHANGED vars
  BY <1>2 DEF vars
<1>3. CASE Close
  BY <1>3 DEF Close
<1>4. ASSUME NEW c \in Calls, CallerStep(c)
      PROVE  TransactionsHaveOwners'
  BY <1>1, <1>4, CallerWalk DEF Stays, Enter, Lands
<1>5. ASSUME NEW c \in Calls, RowStep(c)
      PROVE  TransactionsHaveOwners'
  <2>1. tx' = tx
    BY <1>5 DEF RowStep, ConfirmFinds, ConfirmSettles, RollbackFrees, ReapFrees, StatementFails
  <2>2. QED BY <1>1, <1>5, <2>1, RowWalk DEF Stays
<1>6. ASSUME NEW c \in Calls, DrawStep(c)
      PROVE  TransactionsHaveOwners'
  <2>1. CASE Begin(c)
    <3>1. tx' = [by |-> c, saved |-> view] /\ Goto(c, "look")
      BY <2>1 DEF Begin
    <3>2. calls'[c].at = "look"
      BY <1>1, <1>6, <3>1, ThreadsWereAsked, Landings DEF Lands, Places, Running
    <3>3. QED BY <3>1, <3>2
  <2>2. CASE Commit(c) \/ Abort(c)
    BY <2>2 DEF Commit, Abort
  <2>3. CASE ~ (Begin(c) \/ Commit(c) \/ Abort(c))
    <3>1. tx' = tx
      BY <1>6, <2>3 DEF DrawStep, BeginFails, Look, SumReserved, SumSettled, Insert, Sign, Return,
                        VerifyFails, Undo, DrawFails
    <3>2. tx # None /\ tx.by # c => calls'[tx.by] = calls[tx.by]
      BY <1>1, <1>6, DrawWalk DEF Stays
    <3>3. \/ calls[c].at \notin Window
          \/ Look(c) \/ SumReserved(c) \/ SumSettled(c) \/ Insert(c) \/ DrawFails(c)
      BY <1>6, <2>3 DEF DrawStep, BeginFails, Sign, Return, VerifyFails, Undo, Runs
    <3>4. /\ Look(c) => calls'[c].at \in Window
          /\ SumReserved(c) => calls'[c].at \in Window
          /\ SumSettled(c) => calls'[c].at \in Window
          /\ Insert(c) => calls'[c].at \in Window
          /\ DrawFails(c) => calls'[c].at \in Window
      BY <1>1, <1>6, ThreadsWereAsked, Landings, SumLands
         DEF Look, SumReserved, SumSettled, Insert, DrawFails, Lands, Places, Running
    <3>5. QED BY <1>1, <3>1, <3>2, <3>3, <3>4
  <2>4. QED BY <2>1, <2>2, <2>3
<1>7. QED BY <1>2, <1>3, <1>4, <1>5, <1>6, NextCases

LEMMA DrawsDraw ==
  ASSUME Placed, NEW c \in Calls, DrawStep(c)
  PROVE  calls[c].job.op = "draw"
BY DEF DrawStep, Begin, BeginFails, Look, SumReserved, SumSettled, Insert, Commit, Sign, Return,
       VerifyFails, Undo, DrawFails, Abort, Runs, Placed, Window, At, Job

LEMMA PlacedStep ==
  ASSUME TypeInv, Placed, [ConnectionNext]_vars
  PROVE  Placed'
<1> USE DEF Placed, Window, At, Job
<1>1. CallsInv
  BY TypeParts
<1>2. CASE UNCHANGED vars
  BY <1>2 DEF vars
<1>3. CASE Close
  BY <1>3 DEF Close
<1>4. ASSUME NEW c \in Calls, Stays(c),
             /\ calls'[c].at \in Window \cup {"sign", "resign", "verify", "undo"}
                  => calls'[c].job.op = "draw"
             /\ calls'[c].at = "settle" => calls'[c].job.op = "confirm"
             /\ calls'[c].answer = "ok" => calls'[c].at = "done"
      PROVE  Placed'
  BY <1>4 DEF Stays
<1> HIDE DEF Placed
<1>5. ASSUME NEW c \in Calls, CallerStep(c)
      PROVE  Placed'
  <2>1. CASE calls' = calls
    BY <2>1 DEF Placed
  <2>2. CASE calls' # calls
    <3>1. calls'[c].at \in {"waiting", "queued", "done"}
      BY <1>1, <1>5, <2>2, CallerWalk DEF Lands
    <3>2. calls'[c].answer = "ok" => calls'[c].at = "done"
      BY <1>1, <1>5, <2>2, CallerWalk DEF Lands, Enter, Placed
    <3>3. QED BY <1>1, <1>4, <1>5, <3>1, <3>2, CallerWalk
  <2>3. QED BY <2>1, <2>2
<1>6. ASSUME NEW c \in Calls, RowStep(c)
      PROVE  Placed'
  BY <1>1, <1>4, <1>6, RowWalk DEF Lands, Ends, ConfirmFinds, Runs, Placed
<1>7. ASSUME NEW c \in Calls, DrawStep(c)
      PROVE  Placed'
  <2>1. calls[c].job.op = "draw"
    BY <1>7, DrawsDraw
  <2>2. /\ calls'[c].at # "settle"
        /\ calls[c].at # "done"
        /\ Stays(c) /\ calls'[c].job = calls[c].job
        /\ calls[c].answer = calls'[c].answer \/ calls'[c].at = "done"
    BY <1>1, <1>7, DrawWalk DEF Lands, Ends, DrawStep, Begin, BeginFails, Look, SumReserved,
       SumSettled, Insert, Commit, Sign, Return, VerifyFails, Undo, DrawFails, Abort, Runs
  <2>3. QED BY <1>4, <2>1, <2>2 DEF Placed
<1>8. QED BY <1>2, <1>3, <1>5, <1>6, <1>7, NextCases

(* The lock is left by its holder only, whose thread has then returned. *)
LEMMA ThreadLocks ==
  ASSUME CallsInv, NEW c \in Calls, DrawStep(c) \/ RowStep(c)
  PROVE  /\ calls[c].at \in Running
         /\ lock' = IF lock = c /\ calls'[c].at = "done" THEN None ELSE lock
<1>1. calls[c].at \in Running
  BY DEF DrawStep, Begin, BeginFails, Look, SumReserved, SumSettled, Insert, Commit, Sign, Return,
         VerifyFails, Undo, DrawFails, Abort, RowStep, ConfirmFinds, ConfirmSettles,
         RollbackFrees, ReapFrees, StatementFails, Runs, At, Running, Window
<1>2. ~ At(c, "idle")
  BY ThreadsWereAsked
<1>3. ASSUME NEW r \in {"ok", "raised"}, Ended(c, r)
      PROVE  lock' = IF lock = c /\ calls'[c].at = "done" THEN None ELSE lock
  BY <1>2, <1>3, Landings DEF Ended, Ends
<1>4. CASE RowStep(c)
  BY <1>1, <1>2, <1>3, <1>4, Landings
     DEF RowStep, ConfirmFinds, ConfirmSettles, RollbackFrees, ReapFrees, StatementFails,
         Lands, Places, Running
<1>5. CASE BeginFails(c) \/ Return(c) \/ Abort(c)
  BY <1>1, <1>3, <1>5 DEF BeginFails, Return, Abort
<1>6. CASE DrawStep(c) /\ ~ (BeginFails(c) \/ Return(c) \/ Abort(c))
  <2>1. lock' = lock
    BY <1>6 DEF DrawStep, Begin, Look, SumReserved, SumSettled, Insert, Commit, Sign,
                VerifyFails, Undo, DrawFails
  <2>2. calls'[c].at # "done"
    BY <1>6, DrawWalk DEF Lands
  <2>3. QED BY <1>1, <2>1, <2>2
<1>7. QED BY <1>1, <1>4, <1>5, <1>6

LEMMA LockedStep ==
  ASSUME TypeInv, Locked, [ConnectionNext]_vars
  PROVE  Locked'
<1> USE NoneAssumption DEF Locked, At
<1>1. CallsInv /\ StateInv
  BY TypeParts
<1>2. CASE UNCHANGED vars
  BY <1>2 DEF vars
<1>3. CASE Close
  BY <1>3 DEF Close
<1>4. ASSUME NEW c \in Calls, DrawStep(c) \/ RowStep(c)
      PROVE  Locked'
  <2>1. cut' = cut /\ Stays(c)
    BY <1>1, <1>4, DrawWalk, RowWalk
  <2>2. "done" \notin Running
    BY DEF Running, Window
  <2>3. QED BY <1>1, <1>4, <2>1, <2>2, ThreadLocks DEF Stays
<1>5. ASSUME NEW c \in Calls, CallerStep(c)
      PROVE  Locked'
  <2> USE DEF Running, Window
  <2>1. Stays(c)
    BY <1>1, <1>5, CallerWalk
  <2>2. ASSUME NEW job \in Jobs[c], Ask(c, job)
        PROVE  Locked'
    <3>1. calls'[c].at = "waiting" /\ cut' = cut /\ lock' = lock
      BY <1>1, <2>2 DEF Ask, CallsInv, CallRecords
    <3>2. QED BY <2>1, <3>1 DEF Stays
  <2>3. CASE Enter(c)
    BY <1>1, <2>1, <2>3 DEF Enter, Stays
  <2>4. CASE CancelBefore(c)
    <3>1. calls'[c].at = "done" /\ cut' = cut
      BY <1>1, <2>4 DEF CancelBefore, CallsInv, CallRecords
    <3>2. QED BY <2>1, <2>4, <3>1 DEF CancelBefore, Stays
  <2>5. CASE CancelWithin(c)
    BY <2>5 DEF CancelWithin
  <2>6. QED BY <1>5, <2>2, <2>3, <2>4, <2>5 DEF CallerStep
<1>6. QED BY <1>2, <1>3, <1>4, <1>5, NextCases

(* The thread that holds the lock has the connection to itself. *)
LEMMA RowStepAlone ==
  ASSUME TypeInv, Placed, NEW c \in Calls, RowStep(c), Alone(c)
  PROVE  Alone(c)'
<1> USE DEF At
<1>1. CallsInv
  BY TypeParts
<1>2. calls'[c].at = "done" \/ (calls'[c].at = "settle" /\ tx' = tx /\ calls[c].at = "queued")
  BY <1>1, RowWalk DEF Ends, Lands, ConfirmFinds, Runs
<1>3. QED BY <1>2 DEF Alone, Learnt, Running, Window, Reading

LEMMA DrawStepAlone ==
  ASSUME TypeInv, NEW c \in Calls, DrawStep(c), Alone(c)
  PROVE  Alone(c)'
<1> USE NoneAssumption DEF At, Job
<1>1. CallsInv /\ StateInv /\ calls'[c].job = calls[c].job /\ Job(c).key \in Keys
  BY TypeParts, DrawWalk, ThreadsWereAsked
<1>2. ASSUME calls'[c].at \in {"abort", "done"}
      PROVE  Alone(c)'
  BY <1>2 DEF Alone, Learnt, Running, Window, Reading
<1>3. ASSUME calls'[c].at \in {"sign", "resign", "verify", "undo"}, tx' = None
      PROVE  Alone(c)'
  BY <1>3 DEF Alone, Learnt, Running, Window, Reading
<1>4. CASE Begin(c)
  <2>1. calls'[c].at = "look" /\ tx' = [by |-> c, saved |-> view] /\ view' = view
    BY <1>1, <1>4, DrawWalk, ThreadsWereAsked, Landings DEF Begin, Lands, Places, Running, Window
  <2>2. QED BY <2>1 DEF Alone, Learnt, Running, Window, Reading
<1>5. CASE Look(c)
  <2>1. /\ calls'[c].at = IF view[Job(c).key] = "absent" THEN "sum_reserved" ELSE "replay"
        /\ tx' = tx /\ view' = view /\ calls[c].at = "look"
    BY <1>1, <1>5, ThreadsWereAsked, Landings DEF Look, Lands, Places, Running, Window
  <2>2. tx = [by |-> c, saved |-> view]
    BY <2>1 DEF Alone, Reading
  <2>3. QED BY <1>1, <2>1, <2>2 DEF Alone, Learnt, Running, Window, Reading
<1>6. CASE SumReserved(c)
  <2>1. /\ calls'[c].at = "sum_settled" /\ calls'[c].reserved = Atomic!SumIn(view, "reserved")
        /\ tx' = tx /\ view' = view /\ calls[c].at = "sum_reserved"
    BY <1>1, <1>6, SumLands DEF SumReserved
  <2>2. tx = [by |-> c, saved |-> view] /\ view[Job(c).key] = "absent"
    BY <2>1 DEF Alone, Learnt, Reading
  <2>3. Atomic!SumIn(view, "reserved")' = Atomic!SumIn(view, "reserved")
    BY <2>1 DEF Atomic!SumIn
  <2>4. QED BY <1>1, <2>1, <2>2, <2>3 DEF Alone, Learnt, Running, Window, Reading
<1>7. CASE SumSettled(c)
  <2>1. /\ calls'[c].at = IF WithinAvailable(c) THEN "insert" ELSE "abort"
        /\ tx' = tx /\ view' = view /\ calls[c].at = "sum_settled"
    BY <1>1, <1>7, ThreadsWereAsked, Landings DEF SumSettled, Lands, Places, Running, Window
  <2>2. /\ tx = [by |-> c, saved |-> view] /\ view[Job(c).key] = "absent"
        /\ calls[c].reserved = Atomic!SumIn(view, "reserved")
    BY <2>1 DEF Alone, Learnt, Reading
  <2>3. WithinAvailable(c) => Atomic!Fits(view, Job(c).key)'
    BY <1>1, <2>1, <2>2 DEF WithinAvailable, Atomic!Fits, Atomic!SumIn
  <2>4. CASE WithinAvailable(c)
    BY <1>1, <2>1, <2>2, <2>3, <2>4 DEF Alone, Learnt, Running, Window, Reading
  <2>5. QED BY <1>2, <2>1, <2>4
<1>8. CASE Insert(c)
  <2>1. calls[c].at = "insert" /\ tx' = tx
    BY <1>8 DEF Insert
  <2>2. /\ tx = [by |-> c, saved |-> view] /\ view[Job(c).key] = "absent"
        /\ Atomic!Fits(view, Job(c).key)
    BY <2>1 DEF Alone, Learnt, Reading
  <2>3. view' = [view EXCEPT ![Job(c).key] = "reserved"] /\ calls'[c].at = "commit"
    BY <1>1, <1>8, <2>2, ThreadsWereAsked, Landings DEF Insert, Write, Lands, Places, Running, Window
  <2>4. tx'.saved = view /\ tx' # None
    BY <1>1, <2>1, <2>2 DEF StateInv, Rows
  <2>5. Atomic!Fits(tx.saved, Job(c).key)'
    BY <1>1, <2>1, <2>2 DEF Atomic!Fits, Atomic!SumIn
  <2>6. QED BY <1>1, <2>2, <2>3, <2>4, <2>5 DEF Alone, Learnt, Running, Window, Reading
<1>9. CASE Commit(c)
  <2>1. tx' = None /\ calls'[c].at = IF tx = None THEN "abort"
                                     ELSE IF At(c, "commit") THEN "sign" ELSE "resign"
    BY <1>1, <1>9, ThreadsWereAsked, Landings DEF Commit, Lands, Places, Running, Window
  <2>2. QED BY <1>2, <1>3, <2>1
<1>10. CASE Sign(c) \/ VerifyFails(c)
  <2>1. calls[c].at \in {"sign", "verify"} /\ calls'[c].at \in {"verify", "undo"} /\ tx' = tx
    BY <1>1, <1>10, ThreadsWereAsked, Landings
       DEF Sign, VerifyFails, Lands, Places, Running, Window
  <2>2. tx = None
    BY <2>1 DEF Alone, Running, Window
  <2>3. QED BY <1>3, <2>1, <2>2
<1>11. CASE Undo(c) \/ DrawFails(c)
  <2>1. calls'[c].at = "abort"
    BY <1>1, <1>11, ThreadsWereAsked, Landings DEF Undo, DrawFails, Lands, Places, Running, Window
  <2>2. QED BY <1>2, <2>1
<1>12. CASE BeginFails(c) \/ Return(c) \/ Abort(c)
  <2>1. calls'[c].at = "done"
    BY <1>1, <1>12, ThreadsWereAsked, Landings DEF BeginFails, Return, Abort, Ends
  <2>2. QED BY <1>2, <2>1
<1>13. QED BY <1>4, <1>5, <1>6, <1>7, <1>8, <1>9, <1>10, <1>11, <1>12 DEF DrawStep

LEMMA AtomicStep ==
  ASSUME TypeInv, Placed, AtomicInv, TransactionsHaveOwners, [ConnectionNext]_vars
  PROVE  AtomicInv'
<1>1. CallsInv /\ StateInv
  BY TypeParts
<1>2. Locked'
  BY LockedStep DEF AtomicInv
<1> SUFFICES ASSUME cut' = {}
             PROVE  \A c \in Calls : Alone(c)'
  BY <1>2 DEF AtomicInv
<1>3. ASSUME NEW d \in Calls, calls'[d].at \notin Running
      PROVE  Alone(d)'
  BY <1>3 DEF Alone, Learnt, Running, Reading, Window, At
<1>4. ASSUME cut = {}, lock = None
      PROVE  tx = None
  BY <1>1, <1>4, NoneAssumption
     DEF AtomicInv, Locked, TransactionsHaveOwners, StateInv, Running
<1>5. CASE UNCHANGED vars
  <2>1. calls' = calls /\ view' = view /\ tx' = tx /\ cut' = cut
    BY <1>5 DEF vars
  <2>2. QED BY <2>1 DEF AtomicInv, Alone, Learnt, At, Job, Atomic!Fits, Atomic!SumIn
<1>6. CASE Close
  BY <1>1, <1>3, <1>6, NoneAssumption DEF Close, AtomicInv, Locked
<1>7. ASSUME NEW c \in Calls, DrawStep(c) \/ RowStep(c)
      PROVE  \A d \in Calls : Alone(d)'
  <2>1. cut = {} /\ Stays(c) /\ calls[c].at \in Running
    BY <1>1, <1>7, DrawWalk, RowWalk, ThreadLocks
  <2>2. \A d \in Calls : d # c => calls'[d].at \notin Running
    BY <1>7, <2>1 DEF AtomicInv, Locked, Stays
  <2>3. Alone(c)'
    BY <1>7, <2>1, DrawStepAlone, RowStepAlone DEF AtomicInv
  <2>4. QED BY <1>3, <2>2, <2>3
<1>8. ASSUME NEW c \in Calls, CallerStep(c)
      PROVE  \A d \in Calls : Alone(d)'
  <2>1. Stays(c) /\ view' = view /\ tx' = tx
    BY <1>1, <1>8, CallerWalk
  <2>2. cut = {}
    BY <1>1, <1>8 DEF CallerStep, Ask, Enter, CancelBefore, CancelWithin, StateInv
  <2>3. ASSUME NEW d \in Calls, d # c
        PROVE  Alone(d)'
    <3>1. Alone(d) /\ calls'[d] = calls[d]
      BY <2>1, <2>2, <2>3 DEF AtomicInv, Stays
    <3>2. QED BY <2>1, <3>1 DEF Alone, Learnt, At, Job, Atomic!Fits, Atomic!SumIn
  <2>4. Alone(c)'
    <3>1. CASE Enter(c)
      <4>1. tx' = None /\ calls'[c].at = "queued"
        BY <1>1, <1>4, <2>1, <2>2, <3>1 DEF Enter, Goto, CallsInv, CallRecords
      <4>2. QED BY <4>1 DEF Alone, Learnt, Running, Reading, Window, At
    <3>2. CASE cut' = cut \cup {c}
      BY <3>2
    <3>3. CASE calls'[c].at \in {"waiting", "done"}
      BY <1>3, <3>3 DEF Running, Window
    <3>4. QED BY <1>1, <1>8, <3>1, <3>2, <3>3, CallerWalk
  <2>5. QED BY <2>3, <2>4
<1>9. QED BY <1>5, <1>6, <1>7, <1>8, NextCases

(* No statement takes a row or a settlement back; a rollback may. *)
Kept(r, s) ==
  \A k \in Keys : /\ r[k] # "absent" => s[k] # "absent"
                  /\ r[k] = "settled" => s[k] = "settled"

LEMMA WritesKeep ==
  ASSUME NEW r \in Rows, NEW k \in Keys
  PROVE  /\ Kept(r, Settled(r, k)) /\ Kept(r, r)
         /\ r[k] # "absent" => Settled(r, k)[k] = "settled"
         /\ r[k] = "absent" => Kept(r, [r EXCEPT ![k] = "reserved"])
         /\ \A S \in SUBSET Keys : Kept(r, Atomic!Freed(r, S))
BY DEF Kept, Rows, Settled, Atomic!Freed, Atomic!DrawStates

LEMMA ViewStep ==
  ASSUME TypeInv, [ConnectionNext]_vars
  PROVE  \/ view' = durable /\ tx' = None
         \/ Kept(view, view') /\ (tx' = tx \/ tx' = None)
         \/ \E c \in Calls : /\ view' = view /\ tx = None
                             /\ tx' = [by |-> c, saved |-> view]
<1>1. CallsInv /\ StateInv
  BY TypeParts
<1>2. Kept(view, view)
  BY DEF Kept
<1>3. CASE UNCHANGED vars
  BY <1>2, <1>3 DEF vars
<1>4. CASE Close
  BY <1>4 DEF Close
<1>5. ASSUME NEW c \in Calls, CallerStep(c)
      PROVE  view' = view /\ tx' = tx
  BY <1>1, <1>5, CallerWalk
<1>6. ASSUME NEW c \in Calls, RowStep(c)
      PROVE  Kept(view, view') /\ tx' = tx
  <2>1. Job(c).key \in Keys /\ view \in Rows
    BY <1>1, <1>6, ThreadsWereAsked DEF StateInv
  <2>2. tx' = tx
    BY <1>6 DEF RowStep, ConfirmFinds, ConfirmSettles, RollbackFrees, ReapFrees, StatementFails
  <2>3. CASE ConfirmFinds(c) \/ StatementFails(c)
    BY <1>2, <2>2, <2>3 DEF ConfirmFinds, StatementFails
  <2>4. CASE ConfirmSettles(c)
    BY <2>1, <2>2, <2>4, WritesKeep DEF ConfirmSettles, Write
  <2>5. CASE RollbackFrees(c)
    BY <2>1, <2>2, <2>5, WritesKeep DEF RollbackFrees, Write
  <2>6. ASSUME NEW expired \in SUBSET Keys, ReapFrees(c, expired)
        PROVE  Kept(view, view')
    BY <2>1, <2>6, WritesKeep DEF ReapFrees, Write
  <2>7. QED BY <1>6, <2>2, <2>3, <2>4, <2>5, <2>6 DEF RowStep
<1>7. ASSUME NEW c \in Calls, DrawStep(c)
      PROVE  \/ view' = durable /\ tx' = None
             \/ Kept(view, view') /\ (tx' = tx \/ tx' = None)
             \/ view' = view /\ tx = None /\ tx' = [by |-> c, saved |-> view]
  <2>1. Job(c).key \in Keys /\ view \in Rows
    BY <1>1, <1>7, ThreadsWereAsked DEF StateInv
  <2>2. CASE Begin(c) \/ Abort(c)
    BY <2>2 DEF Begin, Abort
  <2>3. CASE Insert(c)
    BY <1>2, <2>1, <2>3, WritesKeep DEF Insert, Write
  <2>4. CASE Undo(c)
    BY <2>1, <2>4, WritesKeep DEF Undo, Write
  <2>5. CASE ~ (Begin(c) \/ Abort(c) \/ Insert(c) \/ Undo(c))
    <3>1. view' = view /\ (tx' = tx \/ tx' = None)
      BY <1>7, <2>5 DEF DrawStep, BeginFails, Look, SumReserved, SumSettled, Commit, Sign, Return,
                        VerifyFails, DrawFails
    <3>2. QED BY <1>2, <3>1
  <2>6. QED BY <2>2, <2>3, <2>4, <2>5
<1>8. QED BY <1>2, <1>3, <1>4, <1>5, <1>6, <1>7, NextCases

LEMMA DurableStep ==
  ASSUME TypeInv, RowsRemain, [ConnectionNext]_vars
  PROVE  /\ RowsRemain'
         /\ \A k \in Keys : durable[k] # "absent" => durable'[k] # "absent"
         /\ \A k \in Keys : durable[k] = "settled" /\ view[k] = "settled" =>
                              durable'[k] = "settled" /\ view'[k] = "settled"
<1> USE DEF RowsRemain, durable
<1>1. CASE view' = durable /\ tx' = None
  BY <1>1
<1>2. CASE Kept(view, view') /\ (tx' = tx \/ tx' = None)
  BY <1>2 DEF Kept
<1>3. ASSUME NEW c \in Calls, view' = view, tx = None, tx' = [by |-> c, saved |-> view]
      PROVE  view' = view /\ durable' = view
  BY <1>3
<1>4. CASE view' = view /\ durable' = view /\ tx = None
  BY <1>4
<1>5. QED BY <1>1, <1>2, <1>3, <1>4, ViewStep

LEMMA GuestsStep ==
  ASSUME [ConnectionNext]_vars
  PROVE  guests \subseteq guests'
<1>1. CASE UNCHANGED vars
  BY <1>1 DEF vars
<1>2. CASE Close
  BY <1>2 DEF Close
<1>3. ASSUME NEW c \in Calls, CallerStep(c) \/ RowStep(c)
      PROVE  guests \subseteq guests'
  BY <1>3 DEF CallerStep, Ask, Enter, CancelBefore, CancelWithin, RowStep, ConfirmFinds,
              ConfirmSettles, RollbackFrees, ReapFrees, StatementFails, Write, Joins
<1>4. ASSUME NEW c \in Calls, DrawStep(c)
      PROVE  guests \subseteq guests'
  BY <1>4 DEF DrawStep, Begin, BeginFails, Look, SumReserved, SumSettled, Insert, Commit, Sign,
              Return, VerifyFails, Undo, DrawFails, Abort, Write, Joins
<1>5. QED BY <1>1, <1>2, <1>3, <1>4, NextCases

(* Outside of everybody else's transaction, the view is what is on disk. *)
LEMMA NotAGuest ==
  ASSUME TypeInv, TransactionsHaveOwners, NEW c \in Calls, calls[c].at \notin Window,
         c \notin guests', Joins(c)
  PROVE  durable = view /\ tx = None
BY DEF Joins, TransactionsHaveOwners, durable

StandsFor(c) ==
  /\ At(c, "settle") /\ c \notin guests => durable[Job(c).key] # "absent"
  /\ calls[c].answer = "ok" /\ Job(c).op = "confirm" /\ c \notin guests =>
       durable[Job(c).key] = "settled" /\ view[Job(c).key] = "settled"

LEMMA RowStepStands ==
  ASSUME ConnectionInv, NEW c \in Calls, RowStep(c)
  PROVE  StandsFor(c)'
<1> USE DEF At, Job
<1>1. CallsInv /\ StateInv /\ Job(c).key \in Keys /\ calls'[c].job = calls[c].job /\ view \in Rows
  BY TypeParts, RowWalk, ThreadsWereAsked DEF ConnectionInv, StateInv
<1>2. calls[c].at \notin Window /\ calls[c].at # "done" /\ calls[c].answer # "ok"
  BY <1>1, RowWalk DEF ConnectionInv, Placed, Window
<1>3. CASE ConfirmFinds(c)
  <2>1. calls'[c].answer # "ok"
    BY <1>1, <1>2, <1>3, ThreadsWereAsked, Landings DEF ConfirmFinds, Lands, Places, Running
  <2>2. ASSUME c \notin guests'
        PROVE  durable'[Job(c).key] # "absent"
    <3>1. tx = None /\ view[Job(c).key] # "absent" /\ view' = view /\ tx' = tx
      BY <1>2, <1>3, <2>2, NotAGuest DEF ConfirmFinds, ConnectionInv
    <3>2. QED BY <3>1 DEF durable
  <2>3. QED BY <1>1, <2>1, <2>2 DEF StandsFor
<1>4. CASE ConfirmSettles(c)
  <2>1. calls'[c].at = "done"
    BY <1>1, <1>4, ThreadsWereAsked, Landings DEF ConfirmSettles, Ends
  <2>2. ASSUME c \notin guests'
        PROVE  durable'[Job(c).key] = "settled" /\ view'[Job(c).key] = "settled"
    <3>1. /\ durable = view /\ tx = None /\ tx' = tx /\ view' = Settled(view, Job(c).key)
          /\ calls[c].at = "settle"
      BY <1>2, <1>4, <2>2, NotAGuest DEF ConfirmSettles, ConnectionInv, Write
    <3>2. c \notin guests
      BY <2>2, <1>4 DEF ConfirmSettles, Write, Joins
    <3>3. view[Job(c).key] # "absent"
      BY <3>1, <3>2 DEF ConnectionInv, Standing
    <3>4. QED BY <1>1, <3>1, <3>3, WritesKeep DEF durable
  <2>3. QED BY <1>1, <2>1, <2>2 DEF StandsFor
<1>5. CASE RollbackFrees(c) \/ (\E expired \in SUBSET Keys : ReapFrees(c, expired))
  <2>1. calls[c].job.op # "confirm"
    BY <1>5 DEF RollbackFrees, ReapFrees, Runs
  <2>2. calls'[c].at = "done"
    BY <1>1, <1>5, ThreadsWereAsked, Landings DEF RollbackFrees, ReapFrees, Ends
  <2>3. QED BY <1>1, <2>1, <2>2 DEF StandsFor
<1>6. CASE StatementFails(c)
  <2>1. calls'[c].at = "done" /\ calls'[c].answer # "ok"
    BY <1>1, <1>6, ThreadsWereAsked, Landings DEF StatementFails, Ends
  <2>2. QED BY <2>1 DEF StandsFor
<1>7. QED BY <1>3, <1>4, <1>5, <1>6 DEF RowStep

LEMMA StandingStep ==
  ASSUME ConnectionInv, [ConnectionNext]_vars
  PROVE  Standing'
<1> USE DEF At, Job
<1>1. CallsInv /\ Placed /\ Standing
  BY TypeParts DEF ConnectionInv
<1>2. guests \subseteq guests'
  BY GuestsStep
<1>3. /\ \A k \in Keys : durable[k] # "absent" => durable'[k] # "absent"
      /\ \A k \in Keys : durable[k] = "settled" /\ view[k] = "settled" =>
                           durable'[k] = "settled" /\ view'[k] = "settled"
  BY DurableStep DEF ConnectionInv
<1>4. ASSUME NEW d \in Calls, calls'[d] = calls[d]
      PROVE  StandsFor(d)'
  <2>1. CASE At(d, "idle")
    BY <1>1, <1>4, <2>1 DEF StandsFor, Placed
  <2>2. CASE ~ At(d, "idle")
    <3>1. Job(d).key \in Keys
      BY <1>1, <2>2 DEF CallsInv, Asked
    <3>2. QED BY <1>1, <1>2, <1>3, <1>4, <3>1 DEF StandsFor, Standing
  <2>3. QED BY <2>1, <2>2
<1>5. CASE UNCHANGED vars \/ Close
  <2>1. calls' = calls
    BY <1>5 DEF vars, Close
  <2>2. QED BY <1>4, <2>1 DEF Standing, StandsFor
<1>6. ASSUME NEW c \in Calls, DrawStep(c) \/ RowStep(c) \/ CallerStep(c)
      PROVE  Stays(c) /\ StandsFor(c)'
  <2>1. CASE RowStep(c)
    BY <1>1, <2>1, RowWalk, RowStepStands
  <2>2. CASE DrawStep(c)
    <3>1. Stays(c) /\ calls'[c].at # "settle" /\ calls'[c].job.op = "draw"
      BY <1>1, <2>2, DrawWalk, DrawsDraw DEF Lands, Ends
    <3>2. QED BY <3>1 DEF StandsFor
  <2>3. CASE CallerStep(c)
    <3>1. Stays(c)
      BY <1>1, <2>3, CallerWalk
    <3>2. CASE calls' = calls
      BY <1>4, <3>1, <3>2
    <3>3. CASE calls' # calls
      BY <1>1, <2>3, <3>1, <3>3, CallerWalk DEF StandsFor, Lands, Enter, Placed
    <3>4. QED BY <3>1, <3>2, <3>3
  <2>4. QED BY <1>6, <2>1, <2>2, <2>3
<1>7. ASSUME NEW c \in Calls, DrawStep(c) \/ RowStep(c) \/ CallerStep(c)
      PROVE  Standing'
  BY <1>4, <1>6, <1>7 DEF Standing, StandsFor, Stays
<1>8. QED BY <1>5, <1>7, NextCases

LEMMA OpenStep ==
  ASSUME TypeInv, OpenAreOwners, [ConnectionNext]_vars
  PROVE  OpenAreOwners'
<1> USE DEF OpenAreOwners, At
<1>1. CallsInv
  BY TypeParts
<1>2. CASE UNCHANGED vars
  BY <1>2 DEF vars
<1>3. CASE Close
  BY <1>3 DEF Close
<1>4. ASSUME NEW c \in Calls, Stays(c), calls'[c].at \notin Open,
             tx' = tx, closed' = closed, stray' = stray
      PROVE  OpenAreOwners'
  BY <1>4 DEF Stays
<1>5. ASSUME NEW c \in Calls, CallerStep(c)
      PROVE  OpenAreOwners'
  <2>1. Stays(c) /\ UNCHANGED <<tx, closed, stray>>
    BY <1>1, <1>5, CallerWalk
  <2>2. calls' = calls \/ calls'[c].at \notin Open
    BY <1>1, <1>5, CallerWalk DEF Lands, Open, Window
  <2>3. QED BY <1>4, <2>1, <2>2
<1>6. ASSUME NEW c \in Calls, RowStep(c)
      PROVE  OpenAreOwners'
  <2>1. tx' = tx /\ closed' = closed /\ stray' = stray
    BY <1>6 DEF RowStep, ConfirmFinds, ConfirmSettles, RollbackFrees, ReapFrees, StatementFails
  <2>2. Stays(c) /\ calls'[c].at \notin Open
    BY <1>1, <1>6, RowWalk DEF Lands, Ends, Open, Window
  <2>3. QED BY <1>4, <2>1, <2>2
<1>7. ASSUME NEW c \in Calls, DrawStep(c)
      PROVE  OpenAreOwners'
  <2>1. Stays(c) /\ ~ At(c, "idle")
    BY <1>1, <1>7, DrawWalk, ThreadsWereAsked
  <2>2. CASE Begin(c)
    <3>1. /\ ~ closed /\ tx = None /\ tx' = [by |-> c, saved |-> view]
          /\ closed' = closed /\ stray' = stray
      BY <2>2 DEF Begin, Runs
    <3>2. tx' # None /\ tx'.by = c
      BY <3>1, NoneAssumption, TypeParts DEF StateInv, Rows
    <3>3. QED BY <2>1, <3>1, <3>2 DEF Stays
  <2>3. CASE Commit(c)
    <3>1. calls[c].at \in Open /\ closed' = closed /\ stray' = stray
      BY <2>3 DEF Commit, Open, Window
    <3>2. calls'[c].at \notin Open
      BY <1>1, <2>1, <2>3, Landings DEF Commit, Lands, Places, Running, Open, Window
    <3>3. QED BY <2>1, <3>1, <3>2 DEF Stays
  <2>4. CASE Abort(c)
    <3>1. /\ calls[c].at = "abort" /\ stray' = (stray \/ (tx # None /\ tx.by # c))
          /\ closed' = closed
      BY <2>4 DEF Abort
    <3>2. calls'[c].at = "done"
      BY <1>1, <2>1, <2>4, Landings DEF Abort, Ends
    <3>3. ASSUME ~ stray'
          PROVE  ~ stray /\ (tx # None => tx.by = c)
      BY <3>1, <3>3, Zenon
    <3>4. QED BY <2>1, <3>1, <3>2, <3>3 DEF Stays, Open, Window
  <2>5. CASE ~ (Begin(c) \/ Commit(c) \/ Abort(c))
    <3>1. tx' = tx /\ closed' = closed /\ stray' = stray
      BY <1>7, <2>5 DEF DrawStep, BeginFails, Look, SumReserved, SumSettled, Insert, Sign, Return,
                        VerifyFails, Undo, DrawFails
    <3>2. calls[c].at \in Open \/ calls'[c].at \notin Open
      <4>1. CASE Look(c) \/ SumReserved(c) \/ SumSettled(c) \/ Insert(c)
        BY <4>1 DEF Look, SumReserved, SumSettled, Insert, Open, Window
      <4>2. CASE Sign(c) \/ VerifyFails(c) \/ Undo(c) \/ DrawFails(c)
        BY <1>1, <2>1, <4>2, Landings
           DEF Sign, VerifyFails, Undo, DrawFails, Lands, Places, Running, Open, Window
      <4>3. CASE BeginFails(c) \/ Return(c)
        BY <1>1, <2>1, <4>3, Landings DEF BeginFails, Return, Ends, Open, Window
      <4>4. QED BY <1>7, <2>5, <4>1, <4>2, <4>3 DEF DrawStep
    <3>3. QED BY <2>1, <3>1, <3>2 DEF Stays
  <2>6. QED BY <2>2, <2>3, <2>4, <2>5
<1>8. QED BY <1>2, <1>3, <1>5, <1>6, <1>7, NextCases

-----------------------------------------------------------------------------
LEMMA ConnectionInitially ==
  ASSUME ConnectionInit
  PROVE  ConnectionInv
<1> USE NoneAssumption DEF ConnectionInit
<1>1. calls \in [Calls -> CallRecords]
  BY DEF CallRecords, Sums, Places
<1>2. TypeInv
  <2>1. view \in Rows
    BY InitialAssumption DEF Rows
  <2>2. closed = FALSE /\ stray = FALSE
    OBVIOUS
  <2>3. CallsInv /\ StateInv
    BY <1>1, <2>1 DEF CallsInv, Asked, At, StateInv
  <2>4. QED BY <2>2, <2>3, TypeParts
<1>3. \A c \in Calls : calls[c].at = "idle" /\ calls[c].answer # "ok"
  OBVIOUS
<1>4. "idle" \notin Running /\ "idle" \notin Window
  BY DEF Running, Window
<1>5. Placed /\ AtomicInv /\ TransactionsHaveOwners
  BY <1>3, <1>4 DEF Placed, AtomicInv, Locked, Alone, Learnt, Reading, Window, At,
                    TransactionsHaveOwners
<1>6. Standing /\ RowsRemain
  BY <1>3 DEF Standing, RowsRemain, durable, At
<1>7. OpenAreOwners
  BY <1>3, <1>4 DEF OpenAreOwners, Open
<1>8. QED BY <1>2, <1>5, <1>6, <1>7 DEF ConnectionInv

LEMMA ConnectionStep ==
  ASSUME ConnectionInv, [ConnectionNext]_vars
  PROVE  ConnectionInv'
BY TypeStep, PlacedStep, AtomicStep, OwnersStep, StandingStep, DurableStep, OpenStep
   DEF ConnectionInv

(* The invariant holds in every reachable state. *)
THEOREM ConnectionInvariant == ConnectionSpec => []ConnectionInv
<1>1. ConnectionInv /\ UNCHANGED vars => ConnectionInv'
  BY ConnectionStep
<1>2. QED BY ConnectionInitially, ConnectionStep, PTL DEF ConnectionSpec

(* The variables keep their types, whoever is cancelled or closes. *)
THEOREM ConnectionTypeCorrect == ConnectionSpec => []ConnectionTypeOK
<1>1. ConnectionInv => ConnectionTypeOK
  BY DEF ConnectionInv, TypeInv
<1>2. QED BY <1>1, ConnectionInvariant, PTL

(***************************************************************************)
(* A transaction is open only while the thread that began it is between    *)
(* its BEGIN and its COMMIT or ROLLBACK (draw_sync).                       *)
(***************************************************************************)
THEOREM TransactionsAreOwned == ConnectionSpec => []TransactionsHaveOwners
<1>1. ConnectionInv => TransactionsHaveOwners
  BY DEF ConnectionInv
<1>2. QED BY <1>1, ConnectionInvariant, PTL

(***************************************************************************)
(* A settlement that was acknowledged is on disk and stays there, unless   *)
(* it was found or written inside another call's transaction               *)
(* (confirm_sync).                                                         *)
(***************************************************************************)
THEOREM SettlementsLast == ConnectionSpec => []SettlementsStand
<1>1. ConnectionInv => SettlementsStand
  BY DEF ConnectionInv, Standing, SettlementsStand
<1>2. QED BY <1>1, ConnectionInvariant, PTL

(***************************************************************************)
(* Two draws are never between their cap check and their COMMIT at once,   *)
(* unless a transaction was rolled back under its owner (draw_sync).       *)
(***************************************************************************)
THEOREM DrawsExcludeEachOther == ConnectionSpec => []ChecksAreExclusive
<1>1. ConnectionInv => ChecksAreExclusive
  BY DEF ConnectionInv, OpenAreOwners, ChecksAreExclusive, Checking, Open, Window
<1>2. QED BY <1>1, ConnectionInvariant, PTL

-----------------------------------------------------------------------------
(* A step while nobody is cancelled, seen on disk. *)
LEMMA RowStepIsAtomic ==
  ASSUME ConnectionInv, NEW c \in Calls, RowStep(c), cut = {}
  PROVE  Atomic!AtomicNext \/ durable' = durable
<1>1. CallsInv /\ StateInv /\ Job(c).key \in Keys /\ view \in Rows
  BY TypeParts, ThreadsWereAsked DEF ConnectionInv, StateInv
<1>2. calls[c].at \in Running \ Window
  BY <1>1, RowWalk DEF Running, Window, At
<1>3. tx = None
  BY <1>2 DEF ConnectionInv, AtomicInv, Alone
<1>4. durable = view
  BY <1>3 DEF durable
<1>5. tx' = tx
  BY DEF RowStep, ConfirmFinds, ConfirmSettles, RollbackFrees, ReapFrees, StatementFails
<1>6. durable' = view'
  BY <1>3, <1>5 DEF durable
<1>7. CASE ConfirmFinds(c) \/ StatementFails(c)
  BY <1>4, <1>6, <1>7 DEF ConfirmFinds, StatementFails
<1>8. CASE ConfirmSettles(c)
  <2>1. view' = Settled(view, Job(c).key)
    BY <1>8 DEF ConfirmSettles, Write
  <2>2. Atomic!Settle(Job(c).key) \/ durable' = durable
    BY <1>4, <1>6, <2>1 DEF Settled, Atomic!Settle
  <2>3. QED BY <1>1, <2>2 DEF Atomic!AtomicNext
<1>9. ASSUME NEW S \in SUBSET Keys, view' = Atomic!Freed(view, S)
      PROVE  Atomic!AtomicNext
  <2>1. Atomic!Free(S)
    BY <1>4, <1>6, <1>9 DEF Atomic!Free
  <2>2. QED BY <2>1 DEF Atomic!AtomicNext
<1>10. CASE RollbackFrees(c)
  BY <1>1, <1>9, <1>10 DEF RollbackFrees, Write
<1>11. ASSUME NEW expired \in SUBSET Keys, ReapFrees(c, expired)
       PROVE  Atomic!AtomicNext
  BY <1>9, <1>11 DEF ReapFrees, Write
<1>12. QED BY <1>7, <1>8, <1>10, <1>11 DEF RowStep

LEMMA DrawStepIsAtomic ==
  ASSUME ConnectionInv, NEW c \in Calls, DrawStep(c), cut = {}
  PROVE  Atomic!AtomicNext \/ durable' = durable
<1>1. CallsInv /\ StateInv /\ Job(c).key \in Keys /\ view \in Rows /\ Alone(c)
  BY TypeParts, ThreadsWereAsked DEF ConnectionInv, StateInv, AtomicInv
<1>2. CASE Begin(c)
  <2>1. tx = None /\ tx' = [by |-> c, saved |-> view]
    BY <1>2 DEF Begin
  <2>2. tx' # None
    BY <1>1, <2>1, NoneAssumption DEF Rows
  <2>3. QED BY <2>1, <2>2 DEF durable
<1>3. CASE Insert(c)
  <2>1. calls[c].at = "insert" /\ tx' = tx
    BY <1>3 DEF Insert, At
  <2>2. tx = [by |-> c, saved |-> view]
    BY <1>1, <2>1 DEF Alone, Reading
  <2>3. tx # None
    BY <1>1, <2>2, NoneAssumption DEF Rows
  <2>4. QED BY <2>1, <2>3 DEF durable
<1>4. CASE Commit(c)
  <2>1. tx' = None /\ view' = view /\ (calls[c].at = "commit" \/ calls[c].at = "replay")
    BY <1>4 DEF Commit, At
  <2>2. CASE calls[c].at = "commit"
    <3>1. /\ tx # None
          /\ tx.saved[Job(c).key] = "absent" /\ Atomic!Fits(tx.saved, Job(c).key)
          /\ view = [tx.saved EXCEPT ![Job(c).key] = "reserved"]
      BY <1>1, <2>2 DEF Alone, At
    <3>2. Atomic!Reserve(Job(c).key)
      BY <2>1, <3>1 DEF Atomic!Reserve, durable
    <3>3. QED BY <1>1, <3>2 DEF Atomic!AtomicNext
  <2>3. CASE calls[c].at = "replay"
    <3>1. tx = [by |-> c, saved |-> view]
      BY <1>1, <2>3 DEF Alone, Reading
    <3>2. QED BY <2>1, <3>1 DEF durable
  <2>4. QED BY <2>1, <2>2, <2>3
<1>5. CASE Undo(c)
  <2>1. view' = Atomic!Freed(view, {Job(c).key}) /\ tx' = tx /\ calls[c].at = "undo"
    BY <1>5 DEF Undo, Write, At
  <2>2. tx = None
    BY <1>1, <2>1 DEF Alone, Running, Window
  <2>3. Atomic!Free({Job(c).key})
    BY <2>1, <2>2 DEF Atomic!Free, durable
  <2>4. QED BY <1>1, <2>3 DEF Atomic!AtomicNext
<1>6. CASE Abort(c)
  BY <1>6 DEF Abort, durable
<1>7. CASE ~ (Begin(c) \/ Insert(c) \/ Commit(c) \/ Undo(c) \/ Abort(c))
  <2>1. view' = view /\ tx' = tx
    BY <1>7 DEF DrawStep, BeginFails, Look, SumReserved, SumSettled, Sign, Return, VerifyFails,
                DrawFails
  <2>2. QED BY <2>1 DEF durable
<1>8. QED BY <1>2, <1>3, <1>4, <1>5, <1>6, <1>7

LEMMA StepIsAtomic ==
  ASSUME ConnectionInv, [ConnectionNext]_vars, cut' = {}
  PROVE  Atomic!AtomicNext \/ durable' = durable
<1>1. CallsInv /\ StateInv
  BY TypeParts DEF ConnectionInv
<1>2. CASE UNCHANGED vars
  BY <1>2 DEF vars, durable
<1>3. CASE Close
  BY <1>3 DEF Close, durable
<1>4. ASSUME NEW c \in Calls, CallerStep(c)
      PROVE  durable' = durable
  BY <1>1, <1>4, CallerWalk DEF durable
<1>5. ASSUME NEW c \in Calls, DrawStep(c) \/ RowStep(c)
      PROVE  Atomic!AtomicNext \/ durable' = durable
  <2>1. cut = {}
    BY <1>1, <1>5, DrawWalk, RowWalk
  <2>2. QED BY <1>5, <2>1, DrawStepIsAtomic, RowStepIsAtomic
<1>6. QED BY <1>2, <1>3, <1>4, <1>5, NextCases

(***************************************************************************)
(* As long as no caller is cancelled while its thread runs, the store      *)
(* implements AtomicStore: what is on disk changes by a reservation that   *)
(* fits, a settlement or a release, as a whole (draw, confirm, rollback).  *)
(***************************************************************************)
THEOREM ConnectionIsAtomic == ConnectionSpec => AtomicUntilCancelled
<1>1. ConnectionInv /\ [ConnectionNext]_vars
        => [cut' = {} => Atomic!AtomicNext \/ UNCHANGED durable]_vars
  BY StepIsAtomic
<1>2. QED BY <1>1, ConnectionInvariant, PTL DEF ConnectionSpec, AtomicUntilCancelled
=============================================================================
