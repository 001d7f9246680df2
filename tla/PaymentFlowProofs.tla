------------------------- MODULE PaymentFlowProofs -------------------------
(***************************************************************************)
(* Proofs about the draw ledger and the payments it accounts for.  First   *)
(* the sums that stand for the ledger's SELECT SUM(...) queries, then what *)
(* BudgetLedger guarantees for every set of keys, every cap, every         *)
(* lifetime of draws and envelope, and every interleaving of its callers;  *)
(* then what PaymentFlow, which extends it, guarantees for every set of    *)
(* requests and rails and every interleaving with the reaper, the clock    *)
(* and cancellation.                                                       *)
(***************************************************************************)
EXTENDS PaymentFlow, Functions, FiniteSetTheorems, WellFoundedInduction, TLAPS

-----------------------------------------------------------------------------
(***************************************************************************)
(* Facts about SumFunctionOnSet.  The community module defines it by       *)
(* recursion over the subsets of a set, so every fact below is proved by   *)
(* induction over those subsets, with the induction hypothesis given as a  *)
(* set of subsets rather than as a predicate.                              *)
(***************************************************************************)
(* The element the recursion takes out of a non-empty set. *)
Pick(T) == CHOOSE x \in T : TRUE

(* g is the table of the sums of f over every subset of S. *)
IsSumTable(g, f, S) ==
  g = [T \in SUBSET S |->
         IF T = {} THEN 0 ELSE f[Pick(T)] + g[T \ {Pick(T)}]]

SumTable(f, S) == CHOOSE g : IsSumTable(g, f, S)

(***************************************************************************)
(* A non-empty set of natural numbers has a least element.                 *)
(***************************************************************************)
LEMMA LeastNat ==
  ASSUME NEW T, T \subseteq Nat, T # {}
  PROVE  \E n \in T : \A m \in T : n <= m
<1> DEFINE R == {ss \in Nat \X Nat : ss[1] < ss[2]}
<1>1. IsWellFoundedOn(R, Nat)
  BY NatLessThanWellFounded DEF OpToRel
<1>2. PICK n \in T : \A m \in T : ~(<<m, n>> \in R)
  <2> HIDE DEF R
  <2> QED  BY <1>1, WFMin
<1>3. ASSUME NEW m \in T  PROVE n <= m
  <2>1. m \in Nat /\ n \in Nat
    OBVIOUS
  <2>2. m < n => <<m, n>> \in R
    BY <2>1
  <2>3. QED  BY <1>2, <2>1, <2>2
<1>4. QED
  BY <1>3

(***************************************************************************)
(* Induction over the subsets of a finite set: a collection that holds {}  *)
(* and every set whose remainder after Pick it holds, holds every subset.  *)
(***************************************************************************)
LEMMA SubsetInduction ==
  ASSUME NEW S, IsFiniteSet(S), NEW P,
         {} \in P,
         \A T \in SUBSET S : T # {} /\ T \ {Pick(T)} \in P => T \in P
  PROVE  \A T \in SUBSET S : T \in P
<1> DEFINE Bad == {T \in SUBSET S : T \notin P}
           Sizes == {n \in Nat : \E T \in Bad : Cardinality(T) = n}
<1>1. \A T \in SUBSET S : IsFiniteSet(T) /\ Cardinality(T) \in Nat
  BY FS_Subset, FS_CardinalityType
<1>2. SUFFICES ASSUME Bad # {}  PROVE FALSE
  OBVIOUS
<1>3. Sizes # {}
  BY <1>1, <1>2
<1>4. PICK n \in Sizes : \A m \in Sizes : n <= m
  <2> HIDE DEF Bad
  <2> QED  BY <1>3, LeastNat
<1>5. PICK T \in Bad : Cardinality(T) = n
  BY <1>4
<1>6. T # {} /\ Pick(T) \in T
  BY <1>5 DEF Pick
<1>7. Cardinality(T \ {Pick(T)}) = n - 1
  BY <1>1, <1>5, <1>6, FS_RemoveElement
<1>8. T \ {Pick(T)} \in Bad
  BY <1>5, <1>6
<1>9. n - 1 \in Sizes
  BY <1>1, <1>7, <1>8
<1>10. QED
  BY <1>4, <1>9

(***************************************************************************)
(* The sum that the community module defines is an entry of the table.     *)
(***************************************************************************)
LEMMA SumIsTableEntry ==
  ASSUME NEW S, NEW f
  PROVE  SumFunctionOnSet(f, S) = SumTable(f, S)[S]
BY DEF SumFunctionOnSet, FoldFunctionOnSet, MapThenFoldSet,
       SumTable, IsSumTable, Pick

(***************************************************************************)
(* The table exists for a finite set: it is built size by size.            *)
(***************************************************************************)
LEMMA SumTableExists ==
  ASSUME NEW S, IsFiniteSet(S), NEW f
  PROVE  IsSumTable(SumTable(f, S), f, S)
<1> DEFINE Small(n) == {T \in SUBSET S : Cardinality(T) <= n}
           Partial(g, n) ==
             g = [T \in Small(n) |->
                    IF T = {} THEN 0 ELSE f[Pick(T)] + g[T \ {Pick(T)}]]
           Bad == {n \in Nat : ~ \E g : Partial(g, n)}
<1>1. \A T \in SUBSET S : IsFiniteSet(T) /\ Cardinality(T) \in Nat
  BY FS_Subset, FS_CardinalityType
<1>2. \A T \in SUBSET S : T # {} =>
         Pick(T) \in T /\ Cardinality(T \ {Pick(T)}) = Cardinality(T) - 1
  BY <1>1, FS_RemoveElement DEF Pick
<1>3. 0 \notin Bad
  <2>1. \A T \in Small(0) : T = {}
    BY <1>1, FS_EmptySet
  <2>2. Partial([T \in Small(0) |-> 0], 0)
    BY <2>1
  <2>3. QED  BY <2>2
<1>4. ASSUME NEW n \in Nat, n \notin Bad  PROVE n + 1 \notin Bad
  <2>1. PICK g : Partial(g, n)
    BY <1>4
  <2> DEFINE h == [T \in Small(n + 1) |->
                     IF T = {} THEN 0 ELSE f[Pick(T)] + g[T \ {Pick(T)}]]
  <2>2. ASSUME NEW T \in Small(n)  PROVE h[T] = g[T]
    <3>1. T \in Small(n + 1)
      BY <1>1
    <3>2. g[T] = IF T = {} THEN 0 ELSE f[Pick(T)] + g[T \ {Pick(T)}]
      BY <2>1, <2>2
    <3>3. QED  BY <3>1, <3>2
  <2>3. ASSUME NEW T \in Small(n + 1), T # {}
        PROVE  T \ {Pick(T)} \in Small(n)
    <3>1. /\ Cardinality(T) \in Nat
          /\ Cardinality(T) <= n + 1
          /\ Cardinality(T \ {Pick(T)}) = Cardinality(T) - 1
      BY <1>1, <1>2, <2>3
    <3>2. Cardinality(T \ {Pick(T)}) <= n
      BY <3>1
    <3>3. QED  BY <3>2
  <2>4. Partial(h, n + 1)
    BY <2>2, <2>3
  <2>5. QED  BY <2>4
<1>5. Bad = {}
  <2>1. SUFFICES ASSUME Bad # {}  PROVE FALSE
    OBVIOUS
  <2>2. PICK n \in Bad : \A m \in Bad : n <= m
    <3>1. Bad \subseteq Nat
      OBVIOUS
    <3> HIDE DEF Bad
    <3> QED  BY <2>1, <3>1, LeastNat
  <2>3. n \in Nat /\ n # 0
    BY <1>3, <2>2
  <2>4. n - 1 \in Nat /\ n - 1 \notin Bad
    <3> HIDE DEF Bad
    <3> QED  BY <2>2, <2>3
  <2>5. (n - 1) + 1 \notin Bad
    <3> HIDE DEF Bad
    <3> QED  BY <1>4, <2>4
  <2>6. QED
    <3> HIDE DEF Bad
    <3> QED  BY <2>2, <2>3, <2>5
<1>6. PICK g : Partial(g, Cardinality(S))
  BY <1>1, <1>5
<1>7. Small(Cardinality(S)) = SUBSET S
  BY <1>1, FS_Subset
<1>8. IsSumTable(g, f, S)
  BY <1>6, <1>7 DEF IsSumTable
<1>9. QED
  BY <1>8 DEF SumTable

(***************************************************************************)
(* The recursion equations of the table.                                   *)
(***************************************************************************)
LEMMA SumTableRecursion ==
  ASSUME NEW S, IsFiniteSet(S), NEW f
  PROVE  /\ SumTable(f, S)[{}] = 0
         /\ \A T \in SUBSET S : T # {} =>
              /\ Pick(T) \in T
              /\ SumTable(f, S)[T] = f[Pick(T)] + SumTable(f, S)[T \ {Pick(T)}]
<1> DEFINE g == SumTable(f, S)
<1>1. g = [T \in SUBSET S |->
             IF T = {} THEN 0 ELSE f[Pick(T)] + g[T \ {Pick(T)}]]
  BY SumTableExists DEF IsSumTable
<1> HIDE DEF g
<1>2. g[{}] = 0
  <2>1. {} \in SUBSET S
    OBVIOUS
  <2>2. g[{}] = IF {} = {} THEN 0 ELSE f[Pick({})] + g[{} \ {Pick({})}]
    BY <1>1, <2>1
  <2>3. QED  BY <2>2
<1>3. ASSUME NEW T \in SUBSET S, T # {}
      PROVE  Pick(T) \in T /\ g[T] = f[Pick(T)] + g[T \ {Pick(T)}]
  <2>1. Pick(T) \in T
    BY <1>3 DEF Pick
  <2>2. g[T] = IF T = {} THEN 0 ELSE f[Pick(T)] + g[T \ {Pick(T)}]
    BY <1>1
  <2>3. QED  BY <1>3, <2>1, <2>2
<1>4. QED
  BY <1>2, <1>3 DEF g

(***************************************************************************)
(* A sum of natural numbers is a natural number.                           *)
(***************************************************************************)
LEMMA SumIsNat ==
  ASSUME NEW S, IsFiniteSet(S), NEW f \in [S -> Nat]
  PROVE  SumFunctionOnSet(f, S) \in Nat
<1> DEFINE G == SumTable(f, S)
           P == {T \in SUBSET S : G[T] \in Nat}
<1>1. {} \in P
  BY SumTableRecursion
<1>2. ASSUME NEW T \in SUBSET S, T # {}, T \ {Pick(T)} \in P
      PROVE  T \in P
  BY <1>2, SumTableRecursion
<1>3. \A T \in SUBSET S : T \in P
  <2> HIDE DEF P
  <2> QED  BY <1>1, <1>2, SubsetInduction
<1>4. QED
  BY <1>3, SumIsTableEntry

(***************************************************************************)
(* A sum of zeros is zero.                                                 *)
(***************************************************************************)
LEMMA SumOfZeros ==
  ASSUME NEW S, IsFiniteSet(S), NEW f, \A x \in S : f[x] = 0
  PROVE  SumFunctionOnSet(f, S) = 0
<1> DEFINE G == SumTable(f, S)
           P == {T \in SUBSET S : G[T] = 0}
<1>1. {} \in P
  BY SumTableRecursion
<1>2. ASSUME NEW T \in SUBSET S, T # {}, T \ {Pick(T)} \in P
      PROVE  T \in P
  BY <1>2, SumTableRecursion
<1>3. \A T \in SUBSET S : T \in P
  <2> HIDE DEF P
  <2> QED  BY <1>1, <1>2, SubsetInduction
<1>4. QED
  BY <1>3, SumIsTableEntry

(***************************************************************************)
(* A sum grows with its summands.                                          *)
(***************************************************************************)
LEMMA SumMonotone ==
  ASSUME NEW S, IsFiniteSet(S), NEW f \in [S -> Nat], NEW g \in [S -> Nat],
         \A x \in S : f[x] <= g[x]
  PROVE  SumFunctionOnSet(f, S) <= SumFunctionOnSet(g, S)
<1> DEFINE F == SumTable(f, S)
           G == SumTable(g, S)
           P == {T \in SUBSET S : F[T] \in Nat /\ G[T] \in Nat /\ F[T] <= G[T]}
<1>1. {} \in P
  BY SumTableRecursion
<1>2. ASSUME NEW T \in SUBSET S, T # {}, T \ {Pick(T)} \in P
      PROVE  T \in P
  <2>1. T # {}
    BY <1>2
  <2>2. Pick(T) \in S
    BY <2>1, SumTableRecursion
  <2>3. F[T] = f[Pick(T)] + F[T \ {Pick(T)}]
    BY <2>1, SumTableRecursion
  <2>4. G[T] = g[Pick(T)] + G[T \ {Pick(T)}]
    BY <2>1, SumTableRecursion
  <2>5. f[Pick(T)] \in Nat /\ g[Pick(T)] \in Nat /\ f[Pick(T)] <= g[Pick(T)]
    BY <2>2
  <2> HIDE DEF F, G
  <2>6. QED  BY <1>2, <2>3, <2>4, <2>5
<1>3. \A T \in SUBSET S : T \in P
  <2> HIDE DEF P
  <2> QED  BY <1>1, <1>2, SubsetInduction
<1>4. QED
  BY <1>3, SumIsTableEntry

(***************************************************************************)
(* Changing one value changes the sum by the difference.                   *)
(***************************************************************************)
LEMMA SumUpdate ==
  ASSUME NEW S, IsFiniteSet(S), NEW f \in [S -> Nat], NEW g \in [S -> Nat],
         NEW d \in S, \A x \in S : x # d => g[x] = f[x]
  PROVE  SumFunctionOnSet(g, S) = SumFunctionOnSet(f, S) - f[d] + g[d]
<1> DEFINE F == SumTable(f, S)
           G == SumTable(g, S)
           P == {T \in SUBSET S :
                   /\ F[T] \in Int
                   /\ G[T] = F[T] + (IF d \in T THEN g[d] - f[d] ELSE 0)}
<1>1. {} \in P
  BY SumTableRecursion
<1>2. ASSUME NEW T \in SUBSET S, T # {}, T \ {Pick(T)} \in P
      PROVE  T \in P
  <2>0. T # {}
    BY <1>2
  <2>1. Pick(T) \in S /\ Pick(T) \in T
    BY <2>0, SumTableRecursion
  <2>2. /\ F[T] = f[Pick(T)] + F[T \ {Pick(T)}]
        /\ G[T] = g[Pick(T)] + G[T \ {Pick(T)}]
    <3>1. F[T] = f[Pick(T)] + F[T \ {Pick(T)}]
      BY <2>0, SumTableRecursion
    <3>2. G[T] = g[Pick(T)] + G[T \ {Pick(T)}]
      BY <2>0, SumTableRecursion
    <3>3. QED  BY <3>1, <3>2
  <2>3. /\ f[Pick(T)] \in Nat /\ f[d] \in Nat /\ g[d] \in Nat
        /\ Pick(T) # d => g[Pick(T)] = f[Pick(T)]
    BY <2>1
  <2>4. /\ F[T \ {Pick(T)}] \in Int
        /\ G[T \ {Pick(T)}] = F[T \ {Pick(T)}]
             + (IF d \in T \ {Pick(T)} THEN g[d] - f[d] ELSE 0)
    BY <1>2
  <2>5. d \in T \ {Pick(T)} <=> d \in T /\ d # Pick(T)
    OBVIOUS
  <2> HIDE DEF F, G
  <2>6. CASE Pick(T) = d
    BY <2>1, <2>2, <2>3, <2>4, <2>5, <2>6
  <2>7. CASE Pick(T) # d
    BY <2>1, <2>2, <2>3, <2>4, <2>5, <2>7
  <2> QED  BY <2>6, <2>7
<1>3. \A T \in SUBSET S : T \in P
  <2> HIDE DEF P
  <2> QED  BY <1>1, <1>2, SubsetInduction
<1>4. G[S] = F[S] + (g[d] - f[d])
  BY <1>3
<1>5. SumFunctionOnSet(f, S) = F[S] /\ SumFunctionOnSet(g, S) = G[S]
  BY SumIsTableEntry
<1>6. F[S] \in Int /\ f[d] \in Int /\ g[d] \in Int
  BY <1>3
<1>7. QED
  <2> HIDE DEF F, G
  <2> QED  BY <1>4, <1>5, <1>6

USE KeysAssumption, AmountsAssumption, CapAssumption, TimeAssumption

-----------------------------------------------------------------------------
(* The row a draw inserts is a row of the table, reserved or rolled back.  *)
LEMMA NewRowType ==
  ASSUME NEW a \in Nat, now \in Nat
  PROVE  /\ NewRow(a) \in DrawRow
         /\ [NewRow(a) EXCEPT !.state = "rolled_back"] \in DrawRow
BY DEF NewRow, DrawRow, DrawStates

(* So is a row that was rolled back. *)
LEMMA RolledBackType ==
  ASSUME NEW row \in DrawRow
  PROVE  RolledBack(row) \in DrawRow
BY DEF RolledBack, DrawRow, DrawStates

(* Any row of a known key has a receipt. *)
LEMMA ReceiptType ==
  ASSUME NEW k \in Keys, NEW row \in DrawRow
  PROVE  ReceiptOf(k, row) \in Receipt
BY DEF ReceiptOf, Receipt, DrawRow

(***************************************************************************)
(* Every step keeps the types of the rows, the receipts and the clock.     *)
(***************************************************************************)
LEMMA LedgerTypeStep == LedgerTypeOK /\ [LedgerNext]_ledgerVars => LedgerTypeOK'
<1> SUFFICES ASSUME LedgerTypeOK, [LedgerNext]_ledgerVars
             PROVE  LedgerTypeOK'
  OBVIOUS
<1> USE DEF LedgerTypeOK
<1>1. ASSUME NEW k \in Keys, NEW a \in Amounts, DrawReserves(k, a)
      PROVE  LedgerTypeOK'
  BY <1>1, NewRowType, ReceiptType DEF DrawReserves
<1>2. ASSUME NEW k \in Keys, NEW a \in Amounts, DrawLosesReceipt(k, a)
      PROVE  LedgerTypeOK'
  BY <1>2, NewRowType DEF DrawLosesReceipt
<1>3. ASSUME NEW k \in Keys, NEW a \in Amounts, DrawFailsVerification(k, a)
      PROVE  LedgerTypeOK'
  BY <1>3, NewRowType DEF DrawFailsVerification
<1>4. ASSUME NEW k \in Keys, NEW a \in Amounts, DrawReplays(k, a)
      PROVE  LedgerTypeOK'
  BY <1>4, ReceiptType DEF DrawReplays
<1>5. ASSUME NEW k \in Keys, NEW a \in Amounts, Confirm(k, a)
      PROVE  LedgerTypeOK'
  BY <1>5 DEF Confirm, DrawRow, DrawStates
<1>6. ASSUME NEW k \in Keys, Rollback(k)
      PROVE  LedgerTypeOK'
  BY <1>6, RolledBackType DEF Rollback
<1>7. CASE Reap
  BY <1>7, RolledBackType DEF Reap
<1>8. CASE Tick
  BY <1>8 DEF Tick
<1>9. ASSUME NEW s \in {"active", "frozen"}, SetStatus(s)
      PROVE  LedgerTypeOK'
  BY <1>9 DEF SetStatus
<1>10. CASE UNCHANGED ledgerVars
  BY <1>10 DEF ledgerVars
<1>11. QED
  BY <1>1, <1>2, <1>3, <1>4, <1>5, <1>6, <1>7, <1>8, <1>9, <1>10
     DEF LedgerNext, Draw

(* The empty table is well typed. *)
LEMMA LedgerTypeInit == LedgerInit => LedgerTypeOK
BY DEF LedgerInit, LedgerTypeOK, NoDraw, DrawRow, DrawStates

(***************************************************************************)
(* Type correctness of the ledger.                                         *)
(***************************************************************************)
THEOREM LedgerTypeCorrect == LedgerSpec => []LedgerTypeOK
BY LedgerTypeInit, LedgerTypeStep, PTL DEF LedgerSpec

-----------------------------------------------------------------------------
(***************************************************************************)
(* Only settled draws are late: the strengthening the cap bound needs, for *)
(* a confirm of a draw that is not late must leave LateSettled alone.      *)
(***************************************************************************)
LateDrawsAreSettled == \A k \in late : draws[k].state = "settled"

CapInv ==
  /\ LedgerTypeOK
  /\ LateDrawsAreSettled
  /\ CapExceededOnlyByLateSettlement

SumsOK ==
  /\ reservedBy \in [Keys -> Nat]
  /\ settledBy \in [Keys -> Nat]
  /\ lateBy \in [Keys -> Nat]
  /\ Reserved \in Nat /\ Settled \in Nat /\ LateSettled \in Nat

(* The sums are natural numbers, before a step and after it. *)
LEMMA SumTypes == /\ LedgerTypeOK => SumsOK
                  /\ LedgerTypeOK' => SumsOK'
<1> USE DEF LedgerTypeOK, reservedBy, settledBy, lateBy, DrawRow
<1>1. ASSUME LedgerTypeOK  PROVE SumsOK
  <2>1. /\ reservedBy \in [Keys -> Nat]
        /\ settledBy \in [Keys -> Nat]
        /\ lateBy \in [Keys -> Nat]
    BY <1>1
  <2> HIDE DEF LedgerTypeOK, reservedBy, settledBy, lateBy
  <2>2. QED  BY <2>1, SumIsNat DEF SumsOK, Reserved, Settled, LateSettled
<1>2. ASSUME LedgerTypeOK'  PROVE SumsOK'
  <2>1. /\ reservedBy' \in [Keys -> Nat]
        /\ settledBy' \in [Keys -> Nat]
        /\ lateBy' \in [Keys -> Nat]
    BY <1>2
  <2> HIDE DEF LedgerTypeOK, reservedBy, settledBy, lateBy
  <2>2. QED  BY <2>1, SumIsNat DEF SumsOK, Reserved, Settled, LateSettled
<1>3. QED
  BY <1>1, <1>2

(* A step that changes no summand changes no sum. *)
LEMMA SameSums ==
  ASSUME draws' = draws, late' = late, CapInv
  PROVE  LateDrawsAreSettled' /\ CapExceededOnlyByLateSettlement'
<1>1. reservedBy' = reservedBy /\ settledBy' = settledBy /\ lateBy' = lateBy
  BY DEF reservedBy, settledBy, lateBy
<1>2. Reserved' = Reserved /\ Settled' = Settled /\ LateSettled' = LateSettled
  BY <1>1 DEF Reserved, Settled, LateSettled
<1>3. QED
  BY <1>2 DEF CapInv, LateDrawsAreSettled, CapExceededOnlyByLateSettlement

(* A step that only rolls reserved draws back can only lower Reserved. *)
LEMMA FewerReserved ==
  ASSUME CapInv, LedgerTypeOK', late' = late,
         \A k \in Keys : draws'[k] = draws[k] \/ draws'[k] = RolledBack(draws[k])
  PROVE  LateDrawsAreSettled' /\ CapExceededOnlyByLateSettlement'
<1> USE DEF CapInv
<1>0. \A k \in Keys : draws[k] \in DrawRow /\ draws'[k] \in DrawRow
  BY DEF LedgerTypeOK
<1>1. \A k \in Keys : draws'[k].state # draws[k].state =>
         draws[k].state = "reserved" /\ draws'[k].state = "rolled_back"
  BY <1>0 DEF RolledBack, DrawRow
<1>2. \A k \in Keys : /\ draws'[k].reserved = draws[k].reserved
                      /\ draws'[k].settled = draws[k].settled
  BY <1>0 DEF RolledBack, DrawRow
<1>3. settledBy' = settledBy
  BY <1>1, <1>2 DEF settledBy
<1>4. lateBy' = lateBy
  BY <1>2 DEF lateBy
<1>5. \A k \in Keys : reservedBy'[k] <= reservedBy[k]
  BY <1>0, <1>1, <1>2 DEF reservedBy, DrawRow
<1>6. Reserved' <= Reserved
  BY <1>5, SumTypes, SumMonotone DEF Reserved, SumsOK
<1>7. Settled' = Settled /\ LateSettled' = LateSettled
  BY <1>3, <1>4 DEF Settled, LateSettled
<1>8. CapExceededOnlyByLateSettlement'
  BY <1>6, <1>7, SumTypes DEF SumsOK, CapExceededOnlyByLateSettlement
<1>9. LateDrawsAreSettled'
  BY <1>1 DEF LateDrawsAreSettled, LedgerTypeOK
<1>10. QED
  BY <1>8, <1>9

(* A new reservation fits in what the cap check found available. *)
LEMMA ReservationFits ==
  ASSUME CapInv, LedgerTypeOK', NEW k \in Keys, NEW a \in Nat,
         DrawInserts(k, a), late' = late,
         draws' = [draws EXCEPT ![k] = NewRow(a)]
  PROVE  LateDrawsAreSettled' /\ CapExceededOnlyByLateSettlement'
<1> USE DEF CapInv
<1>1. draws \in [Keys -> DrawRow] /\ draws[k].state = "absent" /\ k \notin late
  BY DEF LedgerTypeOK, DrawInserts, LateDrawsAreSettled
<1>2. /\ reservedBy[k] = 0 /\ reservedBy'[k] = a
      /\ \A j \in Keys : j # k => reservedBy'[j] = reservedBy[j]
  BY <1>1 DEF reservedBy, NewRow
<1>3. settledBy' = settledBy
  BY <1>1 DEF settledBy, NewRow
<1>4. lateBy' = lateBy
  BY <1>1 DEF lateBy
<1>5. Reserved' = Reserved - 0 + a
  BY <1>2, SumTypes, SumUpdate DEF Reserved, SumsOK
<1>6. Settled' = Settled /\ LateSettled' = LateSettled
  BY <1>3, <1>4 DEF Settled, LateSettled
<1>7. CapExceededOnlyByLateSettlement'
  BY <1>5, <1>6, SumTypes
     DEF SumsOK, CapExceededOnlyByLateSettlement, DrawInserts, Available
<1>8. LateDrawsAreSettled'
  BY <1>1 DEF LateDrawsAreSettled, NewRow, LedgerTypeOK
<1>9. QED
  BY <1>7, <1>8

(* A row inserted and rolled back at once counts for nothing. *)
LEMMA FailedVerificationIsFree ==
  ASSUME CapInv, LedgerTypeOK', NEW k \in Keys, NEW a \in Nat,
         DrawFailsVerification(k, a)
  PROVE  LateDrawsAreSettled' /\ CapExceededOnlyByLateSettlement'
<1> USE DEF CapInv, DrawFailsVerification
<1>1. draws \in [Keys -> DrawRow] /\ draws[k].state = "absent" /\ k \notin late
  BY DEF LedgerTypeOK, DrawInserts, LateDrawsAreSettled
<1>2. draws'[k].state = "rolled_back" /\ \A j \in Keys : j # k => draws'[j] = draws[j]
  BY <1>1 DEF NewRow
<1>3. reservedBy' = reservedBy /\ settledBy' = settledBy
  BY <1>1, <1>2 DEF reservedBy, settledBy
<1>4. lateBy' = lateBy
  BY <1>1, <1>2 DEF lateBy
<1>5. Reserved' = Reserved /\ Settled' = Settled /\ LateSettled' = LateSettled
  BY <1>3, <1>4 DEF Reserved, Settled, LateSettled
<1>6. QED
  BY <1>1, <1>2, <1>5
     DEF LateDrawsAreSettled, CapExceededOnlyByLateSettlement, LedgerTypeOK

(* Settling on time moves an amount from one sum to the other; settling    *)
(* late adds it to Settled and to LateSettled alike.                       *)
LEMMA SettlementIsCounted ==
  ASSUME CapInv, LedgerTypeOK', NEW k \in Keys, NEW a \in Nat, Confirm(k, a)
  PROVE  LateDrawsAreSettled' /\ CapExceededOnlyByLateSettlement'
<1> USE DEF CapInv
<1>1. /\ draws \in [Keys -> DrawRow]
      /\ late \subseteq Keys
      /\ draws[k].state # "settled"
      /\ k \notin late
      /\ draws[k].reserved \in Nat /\ a <= draws[k].reserved
  BY DEF LedgerTypeOK, Confirm, Confirmable, LateDrawsAreSettled, DrawRow
<1>2. /\ draws'[k].state = "settled" /\ draws'[k].settled = a
      /\ \A j \in Keys : j # k => draws'[j] = draws[j]
  BY <1>1 DEF Confirm, DrawRow
<1>3. LateDrawsAreSettled'
  BY <1>1, <1>2 DEF LateDrawsAreSettled, Confirm
<1>4. /\ settledBy[k] = 0 /\ settledBy'[k] = a
      /\ \A j \in Keys : j # k => settledBy'[j] = settledBy[j]
  BY <1>1, <1>2 DEF settledBy
<1>5. Settled' = Settled - 0 + a
  BY <1>4, SumTypes, SumUpdate DEF Settled, SumsOK
<1>6. CASE draws[k].state = "reserved"
  <2>1. /\ reservedBy[k] = draws[k].reserved /\ reservedBy'[k] = 0
        /\ \A j \in Keys : j # k => reservedBy'[j] = reservedBy[j]
    BY <1>1, <1>2, <1>6 DEF reservedBy
  <2>2. Reserved' = Reserved - draws[k].reserved + 0
    BY <2>1, SumTypes, SumUpdate DEF Reserved, SumsOK
  <2>3. late' = late
    BY <1>6 DEF Confirm
  <2>4. lateBy' = lateBy
    BY <1>1, <1>2, <2>3 DEF lateBy
  <2>5. LateSettled' = LateSettled
    BY <2>4 DEF LateSettled
  <2>6. CapExceededOnlyByLateSettlement'
    BY <1>1, <1>5, <2>2, <2>5, SumTypes DEF SumsOK, CapExceededOnlyByLateSettlement
  <2>7. QED  BY <1>3, <2>6
<1>7. CASE draws[k].state = "rolled_back"
  <2>1. reservedBy' = reservedBy
    BY <1>1, <1>2, <1>7 DEF reservedBy
  <2>2. late' = late \cup {k}
    BY <1>7 DEF Confirm
  <2>3. /\ lateBy[k] = 0 /\ lateBy'[k] = a
        /\ \A j \in Keys : j # k => lateBy'[j] = lateBy[j]
    BY <1>1, <1>2, <2>2 DEF lateBy
  <2>4. LateSettled' = LateSettled - 0 + a
    BY <2>3, SumTypes, SumUpdate DEF LateSettled, SumsOK
  <2>5. Reserved' = Reserved
    BY <2>1 DEF Reserved
  <2>6. CapExceededOnlyByLateSettlement'
    BY <1>5, <2>4, <2>5, SumTypes DEF SumsOK, CapExceededOnlyByLateSettlement
  <2>7. QED  BY <1>3, <2>6
<1>8. QED
  BY <1>6, <1>7 DEF Confirm, Confirmable

(* The strengthened bound is inductive. *)
LEMMA CapStep == CapInv /\ [LedgerNext]_ledgerVars => CapInv'
<1> SUFFICES ASSUME CapInv, [LedgerNext]_ledgerVars
             PROVE  CapInv'
  OBVIOUS
<1>1. LedgerTypeOK'
  BY LedgerTypeStep DEF CapInv
<1>2. SUFFICES LateDrawsAreSettled' /\ CapExceededOnlyByLateSettlement'
  BY <1>1 DEF CapInv
<1>3. ASSUME NEW k \in Keys, NEW a \in Amounts, DrawReserves(k, a)
      PROVE  LateDrawsAreSettled' /\ CapExceededOnlyByLateSettlement'
  BY <1>1, <1>3, ReservationFits DEF DrawReserves
<1>4. ASSUME NEW k \in Keys, NEW a \in Amounts, DrawLosesReceipt(k, a)
      PROVE  LateDrawsAreSettled' /\ CapExceededOnlyByLateSettlement'
  BY <1>1, <1>4, ReservationFits DEF DrawLosesReceipt
<1>5. ASSUME NEW k \in Keys, NEW a \in Amounts, DrawFailsVerification(k, a)
      PROVE  LateDrawsAreSettled' /\ CapExceededOnlyByLateSettlement'
  BY <1>1, <1>5, FailedVerificationIsFree
<1>6. ASSUME NEW k \in Keys, NEW a \in Amounts, DrawReplays(k, a)
      PROVE  LateDrawsAreSettled' /\ CapExceededOnlyByLateSettlement'
  BY <1>6, SameSums DEF DrawReplays
<1>7. ASSUME NEW k \in Keys, NEW a \in Amounts, Confirm(k, a)
      PROVE  LateDrawsAreSettled' /\ CapExceededOnlyByLateSettlement'
  BY <1>1, <1>7, SettlementIsCounted
<1>8. ASSUME NEW k \in Keys, Rollback(k)
      PROVE  LateDrawsAreSettled' /\ CapExceededOnlyByLateSettlement'
  BY <1>1, <1>8, FewerReserved DEF Rollback, CapInv, LedgerTypeOK
<1>9. CASE Reap
  BY <1>1, <1>9, FewerReserved DEF Reap
<1>10. CASE Tick
  BY <1>10, SameSums DEF Tick
<1>11. ASSUME NEW s \in {"active", "frozen"}, SetStatus(s)
       PROVE  LateDrawsAreSettled' /\ CapExceededOnlyByLateSettlement'
  BY <1>11, SameSums DEF SetStatus
<1>12. CASE UNCHANGED ledgerVars
  BY <1>12, SameSums DEF ledgerVars
<1>13. QED
  BY <1>3, <1>4, <1>5, <1>6, <1>7, <1>8, <1>9, <1>10, <1>11, <1>12
     DEF LedgerNext, Draw

(* Nothing is reserved or settled at the start. *)
LEMMA CapInit == LedgerInit => CapInv
<1> SUFFICES ASSUME LedgerInit  PROVE CapInv
  OBVIOUS
<1>1. LedgerTypeOK
  BY LedgerTypeInit
<1>2. LateDrawsAreSettled
  BY DEF LedgerInit, LateDrawsAreSettled
<1>3. \A k \in Keys : reservedBy[k] = 0 /\ settledBy[k] = 0
  BY DEF LedgerInit, reservedBy, settledBy, NoDraw
<1>4. Reserved = 0 /\ Settled = 0
  BY <1>3, SumOfZeros DEF Reserved, Settled
<1>5. QED
  BY <1>1, <1>2, <1>4, SumTypes DEF CapInv, CapExceededOnlyByLateSettlement, SumsOK

(***************************************************************************)
(* For every cap, every set of concurrent draws and every order in which   *)
(* draws, confirms, rollbacks and reaps come, the ledger is over its cap   *)
(* by no more than what was settled after a rollback.                      *)
(***************************************************************************)
THEOREM CapIsRespected == LedgerSpec => []CapExceededOnlyByLateSettlement
<1>1. CapInv => CapExceededOnlyByLateSettlement
  BY DEF CapInv
<1>2. QED
  BY <1>1, CapInit, CapStep, PTL DEF LedgerSpec

-----------------------------------------------------------------------------
(* No operation touches what a receipt was signed from.                    *)
LEMMA RowsKeepTheirTerms ==
  ASSUME LedgerTypeOK, [LedgerNext]_ledgerVars, NEW k \in Keys,
         draws[k].state # "absent"
  PROVE  /\ draws'[k].state # "absent"
         /\ draws'[k].reserved = draws[k].reserved
         /\ draws'[k].expires = draws[k].expires
<1> USE DEF LedgerTypeOK
<1>1. ASSUME NEW j \in Keys, NEW a \in Amounts, Draw(j, a)
      PROVE  draws'[k] = draws[k]
  BY <1>1 DEF Draw, DrawReserves, DrawLosesReceipt, DrawFailsVerification,
              DrawReplays, DrawInserts
<1>2. ASSUME NEW j \in Keys, NEW a \in Amounts, Confirm(j, a)
      PROVE  /\ draws'[k].state # "absent"
             /\ draws'[k].reserved = draws[k].reserved
             /\ draws'[k].expires = draws[k].expires
  BY <1>2 DEF Confirm, DrawRow
<1>3. ASSUME draws'[k] = RolledBack(draws[k]) \/ draws'[k] = draws[k]
      PROVE  /\ draws'[k].state # "absent"
             /\ draws'[k].reserved = draws[k].reserved
             /\ draws'[k].expires = draws[k].expires
  BY <1>3 DEF RolledBack, DrawRow
<1>4. ASSUME NEW j \in Keys, Rollback(j)
      PROVE  draws'[k] = RolledBack(draws[k]) \/ draws'[k] = draws[k]
  BY <1>4 DEF Rollback
<1>5. CASE Reap
  BY <1>3, <1>5 DEF Reap
<1>6. CASE Tick \/ (\E s \in {"active", "frozen"} : SetStatus(s)) \/ UNCHANGED ledgerVars
  BY <1>6 DEF Tick, SetStatus, ledgerVars
<1>7. QED
  BY <1>1, <1>2, <1>3, <1>4, <1>5, <1>6 DEF LedgerNext

(* A new receipt describes its row, and an old one goes on describing it.  *)
LEMMA ReceiptsStep ==
  LedgerTypeOK /\ ReceiptsDescribeRows /\ [LedgerNext]_ledgerVars
    => ReceiptsDescribeRows'
<1> SUFFICES ASSUME LedgerTypeOK, ReceiptsDescribeRows, [LedgerNext]_ledgerVars,
                    NEW r \in receipts'
             PROVE  /\ draws'[r.key].state # "absent"
                    /\ r = ReceiptOf(r.key, draws'[r.key])
  BY DEF ReceiptsDescribeRows, ReceiptOf
<1> USE DEF LedgerTypeOK
<1>1. CASE r \in receipts
  <2>1. r.key \in Keys /\ draws[r.key].state # "absent"
        /\ r = ReceiptOf(r.key, draws[r.key])
    BY <1>1 DEF ReceiptsDescribeRows, Receipt
  <2>2. QED
    BY <2>1, RowsKeepTheirTerms DEF ReceiptOf
<1>2. CASE r \notin receipts
  <2>1. PICK k \in Keys, a \in Amounts : DrawReserves(k, a) \/ DrawReplays(k, a)
    BY <1>2 DEF LedgerNext, Draw, DrawLosesReceipt, DrawFailsVerification,
                Confirm, Rollback, Reap, Tick, SetStatus, ledgerVars
  <2>2. CASE DrawReserves(k, a)
    BY <1>2, <2>2 DEF DrawReserves, ReceiptOf, NewRow
  <2>3. CASE DrawReplays(k, a)
    BY <1>2, <2>3 DEF DrawReplays, ReceiptOf
  <2>4. QED  BY <2>1, <2>2, <2>3
<1>3. QED
  BY <1>1, <1>2

(***************************************************************************)
(* A repeated draw always returns the receipt of the first one.            *)
(***************************************************************************)
THEOREM ReceiptsAreReproducible == LedgerSpec => []ReceiptsDescribeRows
<1>1. LedgerInit => ReceiptsDescribeRows
  BY DEF LedgerInit, ReceiptsDescribeRows
<1>2. QED
  BY <1>1, ReceiptsStep, LedgerTypeCorrect, PTL DEF LedgerSpec

(* No operation changes a settled row. *)
LEMMA SettledStep ==
  ASSUME LedgerTypeOK, [LedgerNext]_ledgerVars, NEW k \in Keys,
         draws[k].state = "settled"
  PROVE  draws'[k] = draws[k]
<1> USE DEF LedgerTypeOK
<1>1. ASSUME NEW j \in Keys, NEW a \in Amounts, Draw(j, a)
      PROVE  draws'[k] = draws[k]
  BY <1>1 DEF Draw, DrawReserves, DrawLosesReceipt, DrawFailsVerification,
              DrawReplays, DrawInserts
<1>2. ASSUME NEW j \in Keys, NEW a \in Amounts, Confirm(j, a)
      PROVE  draws'[k] = draws[k]
  BY <1>2 DEF Confirm, Confirmable
<1>3. RolledBack(draws[k]) = draws[k]
  BY DEF RolledBack
<1>4. ASSUME NEW j \in Keys, Rollback(j)
      PROVE  draws'[k] = draws[k]
  BY <1>3, <1>4 DEF Rollback
<1>5. CASE Reap
  BY <1>3, <1>5 DEF Reap
<1>6. CASE Tick \/ (\E s \in {"active", "frozen"} : SetStatus(s)) \/ UNCHANGED ledgerVars
  BY <1>6 DEF Tick, SetStatus, ledgerVars
<1>7. QED
  BY <1>1, <1>2, <1>4, <1>5, <1>6 DEF LedgerNext

(***************************************************************************)
(* A settled draw is never changed again, by any operation of any caller.  *)
(***************************************************************************)
THEOREM SettlementIsFinal == LedgerSpec => SettledDrawsAreFinal
<1>1. LedgerTypeOK /\ [LedgerNext]_ledgerVars
        => [\A k \in Keys : draws[k].state = "settled" => draws'[k] = draws[k]]_ledgerVars
  BY SettledStep
<1>2. QED
  BY <1>1, LedgerTypeCorrect, PTL DEF LedgerSpec, SettledDrawsAreFinal

-----------------------------------------------------------------------------
USE RailsAssumption, KeysAreAttempts, NoneAssumption, MaxPerCallAssumption

-----------------------------------------------------------------------------
(***************************************************************************)
(* The inductive invariant.  The locals of a flow agree with one another   *)
(* and with its receipt; the rows of a request are those of the attempts   *)
(* it has made, and only the last can be settled, by a flow that is done;  *)
(* a payment is one of the current attempt, whose locals it repeats, or of *)
(* an attempt given up on an ambiguous rail.                               *)
(***************************************************************************)
Engaged == {"drawing", "paying", "committed", "retrying", "confirming", "rolling_back"}

Covered == {"paying", "committed", "retrying", "confirming", "rolling_back"}

LocalInv(r) ==
  /\ flow[r].attempt = Cardinality(flow[r].excluded)
  /\ flow[r].pc \in Engaged => /\ flow[r].rail \in Rails \ flow[r].excluded
                               /\ PassesGate(flow[r].rail, flow[r].quote)
  /\ flow[r].pc = "drawing" => flow[r].receipt = None
  /\ flow[r].pc \in Covered /\ flow[r].receipt = None
       => flow[r].quote = None /\ flow[r].rail \notin AllowedRails

ReceiptInv(r) ==
  flow[r].pc \in Covered \cup {"done"} /\ flow[r].receipt # None
    => /\ flow[r].receipt \in receipts
       /\ flow[r].receipt.key = KeyOf(r)
       /\ flow[r].receipt.amount = flow[r].quote
       /\ flow[r].quote # None

RowInv(r) ==
  \A i \in Attempts :
    /\ draws[<<r, i>>].state # "absent"
         => \/ i < flow[r].attempt
            \/ i = flow[r].attempt /\ flow[r].pc \notin {"routing", "drawing"}
    /\ draws[<<r, i>>].state = "settled"
         => i = flow[r].attempt /\ flow[r].pc = "done"

DoneInv(r) ==
  flow[r].pc = "done" /\ flow[r].receipt # None
    => /\ draws[flow[r].receipt.key].state = "settled"
       /\ draws[flow[r].receipt.key].settled = flow[r].quote

PaidInv(p) ==
  LET local == flow[p.request] IN
    \/ /\ p.attempt < local.attempt
       /\ p.rail \in local.excluded \cap AmbiguousRails
    \/ /\ p.attempt = local.attempt
       /\ local.pc \notin {"routing", "drawing", "paying"}
       /\ p.rail = local.rail /\ p.quote = local.quote /\ p.receipt = local.receipt
       /\ local.pc = "rolling_back" => p.rail \in AmbiguousRails

RequestInv(r) == LocalInv(r) /\ ReceiptInv(r) /\ RowInv(r) /\ DoneInv(r)

FlowInv ==
  /\ FlowTypeOK
  /\ ReceiptsDescribeRows
  /\ \A r \in Requests : RequestInv(r)
  /\ \A p \in paid : PaidInv(p)
  /\ OnlyHiddenPaymentsAreRepeated
  /\ PaymentsAreAuthorised

-----------------------------------------------------------------------------
(* While a rail is left, the attempts are not exhausted.                   *)
LEMMA RoomLeft ==
  ASSUME NEW S \in SUBSET Rails, NEW x \in Rails \ S
  PROVE  /\ Cardinality(S) \in Attempts
         /\ Cardinality(S \cup {x}) = Cardinality(S) + 1
         /\ Cardinality(S) + 1 \in 0 .. Cardinality(Rails)
<1>1. IsFiniteSet(S) /\ IsFiniteSet(S \cup {x}) /\ S \cup {x} \subseteq Rails
  BY FS_Subset
<1>2. Cardinality(S \cup {x}) = Cardinality(S) + 1
  BY <1>1, FS_AddElement
<1>3. Cardinality(S \cup {x}) <= Cardinality(Rails)
  BY <1>1, FS_Subset
<1>4. Cardinality(S) \in Nat /\ Cardinality(Rails) \in Nat
  BY <1>1, FS_CardinalityType
<1>5. QED
  BY <1>2, <1>3, <1>4 DEF Attempts

(* A flow that has chosen a rail has a key of the ledger for its draw.     *)
LEMMA EngagedKey ==
  ASSUME FlowInv, NEW r \in Requests, flow[r].pc \in Engaged
  PROVE  flow[r].attempt \in Attempts /\ KeyOf(r) \in Keys
<1>1. /\ flow[r].excluded \in SUBSET Rails
      /\ flow[r].rail \in Rails \ flow[r].excluded
      /\ flow[r].attempt = Cardinality(flow[r].excluded)
  BY DEF FlowInv, FlowTypeOK, RequestInv, LocalInv, Local
<1>2. flow[r].attempt \in Attempts
  BY <1>1, RoomLeft
<1>3. QED
  BY <1>2 DEF KeyOf

(* The receipt a flow pays and settles with is one of its own draw.        *)
LEMMA OwnReceipt ==
  ASSUME FlowInv, NEW r \in Requests, flow[r].pc \in Covered, flow[r].receipt # None
  PROVE  /\ flow[r].receipt.key = KeyOf(r)
         /\ KeyOf(r) \in Keys
         /\ flow[r].receipt.amount = flow[r].quote
         /\ flow[r].quote \in Amounts
         /\ draws[KeyOf(r)].state # "absent"
<1>1. /\ flow[r].receipt \in receipts
      /\ flow[r].receipt.key = KeyOf(r)
      /\ flow[r].receipt.amount = flow[r].quote
      /\ flow[r].quote # None
  BY DEF FlowInv, RequestInv, ReceiptInv
<1>2. flow[r].quote \in Amounts
  BY <1>1 DEF FlowInv, FlowTypeOK, Local
<1>3. KeyOf(r) \in Keys
  BY EngagedKey DEF Covered, Engaged
<1>4. draws[KeyOf(r)].state # "absent"
  BY <1>1 DEF FlowInv, ReceiptsDescribeRows
<1>5. QED
  BY <1>1, <1>2, <1>3, <1>4

-----------------------------------------------------------------------------
(***************************************************************************)
(* Whatever a flow does is, to the ledger, an operation of the store.      *)
(***************************************************************************)
LEMMA FlowStepIsLedgerStep ==
  FlowInv /\ [FlowNext]_flowVars => [LedgerNext]_ledgerVars
<1> SUFFICES ASSUME FlowInv, [FlowNext]_flowVars
             PROVE  LedgerNext \/ UNCHANGED ledgerVars
  OBVIOUS
<1>1. ASSUME NEW r \in Requests, Drawing(r)
      PROVE  KeyOf(r) \in Keys /\ flow[r].quote \in Amounts
  BY <1>1, EngagedKey DEF Drawing, At, Engaged, FlowInv, FlowTypeOK, Local
<1>2. ASSUME NEW r \in Requests, DrawGranted(r) \/ DrawBreaks(r) \/ CancelDraw(r)
      PROVE  LedgerNext
  <2>1. KeyOf(r) \in Keys /\ flow[r].quote \in Amounts
    BY <1>1, <1>2 DEF DrawGranted, DrawBreaks, CancelDraw
  <2>2. Draw(KeyOf(r), flow[r].quote)
    BY <1>2 DEF DrawGranted, DrawBreaks, CancelDraw, Draw
  <2>3. QED
    BY <2>1, <2>2 DEF LedgerNext
<1>3. ASSUME NEW r \in Requests, Release(r)
      PROVE  LedgerNext \/ UNCHANGED ledgerVars
  <2>1. flow[r].pc \in Covered
    BY <1>3 DEF Release, At, Covered
  <2>2. QED
    BY <1>3, <2>1, OwnReceipt DEF Release, LedgerNext
<1>4. ASSUME NEW r \in Requests, ConfirmDraw(r)
      PROVE  LedgerNext \/ UNCHANGED ledgerVars
  <2>1. flow[r].pc \in Covered
    BY <1>4 DEF ConfirmDraw, At, Covered
  <2>2. QED
    BY <1>4, <2>1, OwnReceipt DEF ConfirmDraw, SettleDraw, LedgerNext
<1>5. ASSUME NEW r \in Requests, FlowStep(r)
      PROVE  LedgerNext \/ UNCHANGED ledgerVars
  BY <1>2, <1>3, <1>4, <1>5
     DEF FlowStep, Route, RouteFails, SkipDraw, DrawRefused, FundsLeave, PayReturns,
         PayFailsPostCommit, PayFails, RetryReturns, ConfirmFails
<1>6. CASE Background
  BY <1>6 DEF Background, LedgerNext
<1>7. QED
  BY <1>2, <1>5, <1>6 DEF FlowNext, Cancel, flowVars, ledgerVars

(* A step of one flow leaves the locals and the draws of the others alone. *)
LEMMA FlowFrame ==
  ASSUME FlowInv, NEW r \in Requests, FlowStep(r) \/ Cancel(r) \/ CancelDraw(r)
  PROVE  /\ flow' = [flow EXCEPT ![r] = flow'[r]]
         /\ \A s \in Requests \ {r} : flow'[s] = flow[s]
         /\ \A k \in Keys \ {KeyOf(r)} : draws'[k] = draws[k]
<1>1. flow \in [Requests -> Local] /\ draws \in [Keys -> DrawRow]
  BY DEF FlowInv, FlowTypeOK, LedgerTypeOK
<1>2. /\ flow' = [flow EXCEPT ![r] = flow'[r]]
      /\ \A s \in Requests \ {r} : flow'[s] = flow[s]
  BY <1>1 DEF FlowStep, Route, RouteFails, SkipDraw, DrawGranted, DrawRefused, DrawBreaks,
       FundsLeave, PayReturns, PayFailsPostCommit, PayFails, Release, RetryReturns,
       ConfirmDraw, ConfirmFails, Cancel, CancelDraw, Goto
<1>3. ASSUME DrawGranted(r) \/ DrawBreaks(r) \/ CancelDraw(r)
      PROVE  \A k \in Keys \ {KeyOf(r)} : draws'[k] = draws[k]
  BY <1>1, <1>3 DEF DrawGranted, DrawBreaks, CancelDraw, DrawReserves, DrawReplays,
                    DrawLosesReceipt, DrawFailsVerification
<1>4. ASSUME Release(r) \/ ConfirmDraw(r)
      PROVE  \A k \in Keys \ {KeyOf(r)} : draws'[k] = draws[k]
  <2>1. flow[r].pc \in Covered
    BY <1>4 DEF Release, ConfirmDraw, At, Covered
  <2>2. flow[r].receipt # None => flow[r].receipt.key = KeyOf(r)
    BY <2>1, OwnReceipt
  <2>3. QED
    BY <1>1, <1>4, <2>2 DEF Release, ConfirmDraw, Rollback, SettleDraw, Confirm, ledgerVars
<1>5. QED
  BY <1>2, <1>3, <1>4
     DEF FlowStep, Route, RouteFails, SkipDraw, DrawRefused, FundsLeave, PayReturns,
         PayFailsPostCommit, PayFails, RetryReturns, ConfirmFails, Cancel, ledgerVars

(* The types of the ledger and of its receipts are kept by every step.     *)
LEMMA FlowKeepsLedger ==
  ASSUME FlowInv, [FlowNext]_flowVars
  PROVE  /\ LedgerTypeOK'
         /\ ReceiptsDescribeRows'
         /\ receipts \subseteq receipts'
<1>1. [LedgerNext]_ledgerVars
  BY FlowStepIsLedgerStep
<1>2. LedgerTypeOK' /\ ReceiptsDescribeRows'
  BY <1>1, LedgerTypeStep, ReceiptsStep DEF FlowInv, FlowTypeOK
<1>3. receipts \subseteq receipts'
  BY <1>1 DEF LedgerNext, Draw, DrawReserves, DrawLosesReceipt, DrawFailsVerification,
              DrawReplays, Confirm, Rollback, Reap, Tick, SetStatus, ledgerVars
<1>4. QED
  BY <1>2, <1>3

(***************************************************************************)
(* A request whose locals a step does not touch keeps its part of the      *)
(* invariant, though the reaper may have rolled its draws back.            *)
(***************************************************************************)
LEMMA BystandersKeep ==
  ASSUME FlowInv, NEW s \in Requests, flow'[s] = flow[s], receipts \subseteq receipts',
         \A k \in Keys : k[1] = s => draws'[k] = draws[k] \/ draws'[k] = RolledBack(draws[k])
  PROVE  RequestInv(s)'
<1>1. RequestInv(s) /\ flow[s] \in Local /\ draws \in [Keys -> DrawRow]
  BY DEF FlowInv, FlowTypeOK, LedgerTypeOK
<1>2. ASSUME NEW k \in Keys, k[1] = s
      PROVE  /\ draws'[k].state = "absent" <=> draws[k].state = "absent"
             /\ draws'[k].state = "settled" <=> draws[k].state = "settled"
             /\ draws'[k].settled = draws[k].settled
  BY <1>1, <1>2 DEF RolledBack, DrawRow
<1>3. LocalInv(s)'
  BY <1>1 DEF RequestInv, LocalInv
<1>4. ReceiptInv(s)'
  BY <1>1 DEF RequestInv, ReceiptInv, KeyOf
<1>5. RowInv(s)'
  <2>1. \A i \in Attempts : <<s, i>> \in Keys /\ <<s, i>>[1] = s
    OBVIOUS
  <2>2. QED
    BY <1>1, <1>2, <2>1 DEF RequestInv, RowInv
<1>6. DoneInv(s)'
  <2>1. SUFFICES ASSUME flow[s].pc = "done", flow[s].receipt # None
                 PROVE  /\ draws'[flow[s].receipt.key].state = "settled"
                        /\ draws'[flow[s].receipt.key].settled = flow[s].quote
    BY DEF DoneInv
  <2>2. /\ flow[s].receipt.key = <<s, flow[s].attempt>>
        /\ flow[s].receipt.key \in Keys
    BY <1>1, <2>1 DEF RequestInv, ReceiptInv, KeyOf, Local, Receipt
  <2>3. QED
    BY <1>1, <1>2, <2>1, <2>2 DEF RequestInv, DoneInv
<1>7. QED
  BY <1>3, <1>4, <1>5, <1>6 DEF RequestInv

-----------------------------------------------------------------------------
(* What an action of request r owes the invariant.                         *)
Keeps(r) ==
  /\ flow[r] \in Local
  /\ RequestInv(r)
  /\ \A p \in paid : p.request = r => PaidInv(p)

(* A draw in progress has no row yet, and no payment: its key is fresh.    *)
LEMMA FreshDraw ==
  ASSUME FlowInv, NEW r \in Requests, flow[r].pc = "drawing"
  PROVE  /\ draws[KeyOf(r)].state = "absent"
         /\ \A p \in paid : p.request = r => p.attempt < flow[r].attempt
<1>1. flow[r].attempt \in Attempts
  BY EngagedKey DEF Engaged
<1>2. draws[KeyOf(r)].state = "absent"
  BY <1>1 DEF FlowInv, RequestInv, RowInv, KeyOf, Attempts
<1>3. \A p \in paid : p.request = r => p.attempt < flow[r].attempt
  BY DEF FlowInv, PaidInv
<1>4. QED
  BY <1>2, <1>3

(* Nothing of a request that is not done is settled.                       *)
LEMMA OnlyDoneSettles ==
  ASSUME FlowInv, NEW r \in Requests, flow[r].pc # "done", NEW i \in Attempts
  PROVE  draws[<<r, i>>].state # "settled"
BY DEF FlowInv, RequestInv, RowInv

(***************************************************************************)
(* Going from one place to another keeps the invariant, provided that the  *)
(* flow pays only when its draw is there or not needed, and gives a        *)
(* committed payment up only on an ambiguous rail.                         *)
(***************************************************************************)
LEMMA MoveKeeps ==
  ASSUME FlowInv, NEW r \in Requests, NEW place \in Places,
         Goto(r, place), draws' = draws, receipts' = receipts, paid' = paid,
         place \notin {"routing", "drawing", "done"}, ~ Ended(r),
         place \in Covered =>
           \/ flow[r].pc \in Covered
           \/ /\ flow[r].pc = "drawing"
              /\ flow[r].quote = None /\ flow[r].rail \notin AllowedRails,
         place \in {"paying", "rolling_back"} =>
           \/ flow[r].pc \in {"drawing", "paying"}
           \/ flow[r].rail \in AmbiguousRails /\ place = "rolling_back"
  PROVE  Keeps(r)'
<1> USE DEF Places, Finals, Covered, Engaged
<1>1. /\ flow[r] \in Local /\ RequestInv(r)
      /\ flow \in [Requests -> Local]
  BY DEF FlowInv, FlowTypeOK
<1>2. /\ flow'[r].pc = place
      /\ flow'[r].attempt = flow[r].attempt
      /\ flow'[r].excluded = flow[r].excluded
      /\ flow'[r].rail = flow[r].rail
      /\ flow'[r].quote = flow[r].quote
      /\ flow'[r].receipt = flow[r].receipt
      /\ flow'[r] \in Local
  BY <1>1 DEF Goto, Local
<1>3. LocalInv(r)'
  BY <1>1, <1>2 DEF RequestInv, LocalInv, PassesGate
<1>4. ReceiptInv(r)'
  BY <1>1, <1>2 DEF RequestInv, ReceiptInv, LocalInv, KeyOf
<1>5. RowInv(r)'
  BY <1>1, <1>2 DEF RequestInv, RowInv, Ended
<1>6. DoneInv(r)'
  BY <1>2 DEF DoneInv
<1>7. ASSUME NEW p \in paid, p.request = r  PROVE PaidInv(p)'
  BY <1>2, <1>7 DEF FlowInv, PaidInv
<1>8. QED
  BY <1>2, <1>3, <1>4, <1>5, <1>6, <1>7 DEF Keeps, RequestInv

(* The actions that only move.                                             *)
Moves(r) ==
  \/ RouteFails(r) \/ SkipDraw(r) \/ DrawRefused(r) \/ PayReturns(r)
  \/ PayFailsPostCommit(r) \/ PayFails(r) \/ RetryReturns(r) \/ ConfirmFails(r)
  \/ Cancel(r)

(* Each of them meets the conditions of MoveKeeps. *)
LEMMA MovesKeep ==
  ASSUME FlowInv, NEW r \in Requests, Moves(r)
  PROVE  Keeps(r)'
<1> USE DEF Places, Finals, Covered, Engaged, At, Ended, ledgerVars
<1>1. CASE RouteFails(r)
  BY <1>1, MoveKeeps DEF RouteFails
<1>2. CASE SkipDraw(r)
  <2>1. CASE flow[r].rail \in AllowedRails
    BY <1>2, <2>1, MoveKeeps DEF SkipDraw
  <2>2. CASE flow[r].rail \notin AllowedRails
    BY <1>2, <2>2, MoveKeeps DEF SkipDraw
  <2>3. QED
    BY <2>1, <2>2
<1>3. CASE DrawRefused(r)
  BY <1>3, MoveKeeps DEF DrawRefused, Drawing
<1>4. CASE PayReturns(r)
  BY <1>4, MoveKeeps DEF PayReturns
<1>5. CASE PayFailsPostCommit(r)
  BY <1>5, MoveKeeps DEF PayFailsPostCommit
<1>6. CASE PayFails(r)
  BY <1>6, MoveKeeps DEF PayFails
<1>7. CASE RetryReturns(r)
  BY <1>7, MoveKeeps DEF RetryReturns
<1>8. CASE ConfirmFails(r)
  BY <1>8, MoveKeeps DEF ConfirmFails
<1>9. CASE Cancel(r)
  BY <1>9, MoveKeeps DEF Cancel
<1>10. QED
  BY <1>1, <1>2, <1>3, <1>4, <1>5, <1>6, <1>7, <1>8, <1>9 DEF Moves

(* Choosing a rail that has not failed, with any quote or none.            *)
LEMMA RouteKeeps ==
  ASSUME FlowInv, NEW r \in Requests, NEW rail \in Rails,
         NEW quote \in Amounts \cup {None}, Route(r, rail, quote)
  PROVE  Keeps(r)'
<1> USE DEF Places, Finals, Covered, Engaged
<1>1. /\ flow[r] \in Local /\ RequestInv(r)
      /\ flow \in [Requests -> Local]
      /\ flow[r].pc = "routing"
  BY DEF FlowInv, FlowTypeOK, Route, At
<1>2. /\ flow'[r].pc \in {"drawing", "refused"}
      /\ flow'[r].pc = "drawing" => PassesGate(rail, quote)
      /\ flow'[r].attempt = flow[r].attempt
      /\ flow'[r].excluded = flow[r].excluded
      /\ flow'[r].rail = rail
      /\ flow'[r].quote = quote
      /\ flow'[r].receipt = None
      /\ flow'[r] \in Local
  BY <1>1 DEF Route, Routed, Local
<1>3. /\ draws' = draws /\ paid' = paid /\ rail \notin flow[r].excluded
  BY DEF Route, ledgerVars
<1>4. LocalInv(r)'
  BY <1>1, <1>2, <1>3 DEF RequestInv, LocalInv, PassesGate
<1>5. ReceiptInv(r)' /\ DoneInv(r)'
  BY <1>2 DEF ReceiptInv, DoneInv
<1>6. RowInv(r)'
  BY <1>1, <1>2, <1>3 DEF RequestInv, RowInv
<1>7. ASSUME NEW p \in paid, p.request = r  PROVE PaidInv(p)'
  BY <1>1, <1>2, <1>7 DEF FlowInv, PaidInv
<1>8. QED
  BY <1>2, <1>3, <1>4, <1>5, <1>6, <1>7 DEF Keeps, RequestInv

(* A granted draw inserts the row its receipt describes.                   *)
LEMMA DrawGrantedKeeps ==
  ASSUME FlowInv, LedgerTypeOK', NEW r \in Requests, DrawGranted(r)
  PROVE  Keeps(r)'
<1> USE DEF Places, Finals, Covered, Engaged
<1>1. /\ flow[r] \in Local /\ RequestInv(r)
      /\ flow \in [Requests -> Local] /\ draws \in [Keys -> DrawRow]
      /\ flow[r].pc = "drawing" /\ flow[r].quote \in Amounts
      /\ flow[r].quote # None /\ paid' = paid
  BY DEF FlowInv, FlowTypeOK, LedgerTypeOK, DrawGranted, Drawing, At, Local
<1>2. flow[r].attempt \in Attempts /\ KeyOf(r) \in Keys
  BY <1>1, EngagedKey
<1>3. DrawReserves(KeyOf(r), flow[r].quote)
  BY <1>1, FreshDraw DEF DrawGranted, DrawReplays
<1>4. draws' = [draws EXCEPT ![KeyOf(r)] = NewRow(flow[r].quote)]
  BY <1>3 DEF DrawReserves
<1>5. draws'[KeyOf(r)] = NewRow(flow[r].quote)
  BY <1>1, <1>2, <1>4
<1>6. ReceiptOf(KeyOf(r), NewRow(flow[r].quote)) \in receipts' \cap Receipt
  BY <1>3 DEF DrawReserves, LedgerTypeOK
<1>7. /\ flow'[r].pc = "paying"
      /\ flow'[r].attempt = flow[r].attempt
      /\ flow'[r].excluded = flow[r].excluded
      /\ flow'[r].rail = flow[r].rail
      /\ flow'[r].quote = flow[r].quote
      /\ flow'[r].receipt = ReceiptOf(KeyOf(r), NewRow(flow[r].quote))
      /\ flow'[r] \in Local
  BY <1>1, <1>5, <1>6 DEF DrawGranted, Local
<1>8. /\ flow'[r].receipt \in receipts'
      /\ flow'[r].receipt # None
      /\ flow'[r].receipt.key = <<r, flow'[r].attempt>>
      /\ flow'[r].receipt.amount = flow'[r].quote
      /\ flow'[r].quote # None
  <2>1. flow'[r].receipt.key = KeyOf(r) /\ flow'[r].receipt.amount = flow[r].quote
    BY <1>7 DEF ReceiptOf, NewRow
  <2>2. flow'[r].receipt \in receipts' /\ flow'[r].receipt # None
    BY <1>6, <1>7
  <2>3. KeyOf(r) = <<r, flow[r].attempt>>
    BY DEF KeyOf
  <2>4. QED
    BY <1>1, <1>7, <2>1, <2>2, <2>3
<1>9. LocalInv(r)'
  BY <1>1, <1>7, <1>8 DEF RequestInv, LocalInv, PassesGate
<1>10. ReceiptInv(r)'
  BY <1>8 DEF ReceiptInv, KeyOf
<1>11. RowInv(r)'
  <2>1. ASSUME NEW i \in Attempts, i # flow[r].attempt
        PROVE  draws'[<<r, i>>] = draws[<<r, i>>]
    BY <1>1, <1>4, <2>1 DEF KeyOf
  <2>2. draws'[<<r, flow[r].attempt>>].state = "reserved"
    BY <1>5 DEF NewRow, KeyOf
  <2>3. QED
    BY <1>1, <1>7, <2>1, <2>2 DEF RequestInv, RowInv
<1>12. DoneInv(r)'
  BY <1>7 DEF DoneInv
<1>13. ASSUME NEW p \in paid, p.request = r  PROVE PaidInv(p)'
  BY <1>1, <1>7, <1>13 DEF FlowInv, PaidInv
<1>14. QED
  BY <1>1, <1>7, <1>9, <1>10, <1>11, <1>12, <1>13 DEF Keeps, RequestInv

(* A draw that breaks leaves a row behind, and a flow that has ended.      *)
LEMMA DrawLostKeeps ==
  ASSUME FlowInv, NEW r \in Requests, DrawBreaks(r) \/ CancelDraw(r)
  PROVE  Keeps(r)'
<1> USE DEF Places, Finals, Covered, Engaged
<1>1. /\ flow[r] \in Local /\ RequestInv(r)
      /\ flow \in [Requests -> Local] /\ draws \in [Keys -> DrawRow]
      /\ flow[r].pc = "drawing" /\ paid' = paid
  BY DEF FlowInv, FlowTypeOK, LedgerTypeOK, DrawBreaks, CancelDraw, Drawing, At
<1>2. PICK row : /\ draws' = [draws EXCEPT ![KeyOf(r)] = row]
                 /\ row.state \in {"reserved", "rolled_back"}
  <2>1. NewRow(flow[r].quote).state = "reserved"
    BY DEF NewRow
  <2>2. [NewRow(flow[r].quote) EXCEPT !.state = "rolled_back"].state = "rolled_back"
    BY DEF NewRow
  <2>3. QED
    BY <2>1, <2>2 DEF DrawBreaks, CancelDraw, DrawLosesReceipt, DrawFailsVerification
<1>3. /\ flow'[r].pc \in {"refused", "cancelled"}
      /\ flow'[r].attempt = flow[r].attempt
      /\ flow'[r].excluded = flow[r].excluded
      /\ flow'[r].rail = flow[r].rail
      /\ flow'[r].quote = flow[r].quote
      /\ flow'[r].receipt = flow[r].receipt
      /\ flow'[r] \in Local
  BY <1>1 DEF DrawBreaks, CancelDraw, Goto, Local
<1>4. LocalInv(r)' /\ ReceiptInv(r)' /\ DoneInv(r)'
  BY <1>1, <1>3 DEF RequestInv, LocalInv, ReceiptInv, DoneInv
<1>5. RowInv(r)'
  <2>1. flow[r].attempt \in Attempts /\ KeyOf(r) \in Keys
    BY <1>1, EngagedKey
  <2>2. ASSUME NEW i \in Attempts, i # flow[r].attempt
        PROVE  draws'[<<r, i>>] = draws[<<r, i>>]
    BY <1>1, <1>2, <2>2 DEF KeyOf
  <2>3. draws'[<<r, flow[r].attempt>>] = row
    BY <1>1, <1>2, <2>1 DEF KeyOf
  <2>4. QED
    BY <1>1, <1>2, <1>3, <2>2, <2>3 DEF RequestInv, RowInv
<1>6. ASSUME NEW p \in paid, p.request = r  PROVE PaidInv(p)'
  BY <1>1, <1>3, <1>6 DEF FlowInv, PaidInv
<1>7. QED
  BY <1>1, <1>3, <1>4, <1>5, <1>6 DEF Keeps, RequestInv

(* A failed payment gives its rail and its attempt up.                     *)
LEMMA ReleaseKeeps ==
  ASSUME FlowInv, NEW r \in Requests, Release(r)
  PROVE  Keeps(r)'
<1> USE DEF Places, Finals, Covered, Engaged
<1>1. /\ flow[r] \in Local /\ RequestInv(r)
      /\ flow \in [Requests -> Local] /\ draws \in [Keys -> DrawRow]
      /\ flow[r].pc = "rolling_back" /\ paid' = paid
      /\ flow[r].rail \in Rails \ flow[r].excluded
      /\ flow[r].attempt = Cardinality(flow[r].excluded)
      /\ flow[r].excluded \in SUBSET Rails
  BY DEF FlowInv, FlowTypeOK, LedgerTypeOK, Release, At, RequestInv, LocalInv, Local
<1>2. /\ flow[r].attempt \in Nat
      /\ Cardinality(flow[r].excluded \cup {flow[r].rail}) = flow[r].attempt + 1
      /\ flow[r].attempt + 1 \in 0 .. Cardinality(Rails)
  <2>1. flow[r].attempt \in Nat
    BY <1>1 DEF Local, Attempts
  <2>2. PICK S \in SUBSET Rails, rail \in Rails : /\ S = flow[r].excluded
                                                 /\ rail = flow[r].rail
    BY <1>1
  <2>3. Cardinality(S \cup {rail}) = Cardinality(S) + 1
        /\ Cardinality(S) + 1 \in 0 .. Cardinality(Rails)
    BY <1>1, <2>2, RoomLeft
  <2>4. QED BY <1>1, <2>1, <2>2, <2>3
<1>3. /\ flow'[r].pc = "routing"
      /\ flow'[r].attempt = flow[r].attempt + 1
      /\ flow'[r].excluded = flow[r].excluded \cup {flow[r].rail}
      /\ flow'[r] \in Local
  BY <1>1, <1>2 DEF Release, Advanced, Local
<1>4. \A k \in Keys : draws'[k] = draws[k] \/ draws'[k] = RolledBack(draws[k])
  BY <1>1 DEF Release, Rollback, ledgerVars
<1>5. LocalInv(r)' /\ ReceiptInv(r)' /\ DoneInv(r)'
  BY <1>2, <1>3 DEF LocalInv, ReceiptInv, DoneInv
<1>6. RowInv(r)'
  <2>1. ASSUME NEW i \in Attempts
        PROVE  /\ draws'[<<r, i>>].state # "absent" => draws[<<r, i>>].state # "absent"
               /\ draws'[<<r, i>>].state # "settled"
    <3>1. draws[<<r, i>>] \in DrawRow /\ draws[<<r, i>>].state # "settled"
      BY <1>1, OnlyDoneSettles
    <3>2. QED
      BY <1>4, <3>1 DEF RolledBack, DrawRow
  <2>2. QED
    BY <1>1, <1>2, <1>3, <2>1 DEF RequestInv, RowInv, Attempts
<1>7. ASSUME NEW p \in paid, p.request = r  PROVE PaidInv(p)'
  <2>1. p.attempt \in Nat
    BY DEF FlowInv, FlowTypeOK, Attempts
  <2>2. QED
    BY <1>1, <1>2, <1>3, <1>7, <2>1 DEF FlowInv, PaidInv
<1>8. QED
  BY <1>1, <1>3, <1>5, <1>6, <1>7 DEF Keeps, RequestInv

(***************************************************************************)
(* Settling always succeeds when the store answers: the row is there, and  *)
(* is reserved or was rolled back by the reaper, for nothing else settles  *)
(* the draw of a flow that is not done.                                    *)
(***************************************************************************)
LEMMA ConfirmKeeps ==
  ASSUME FlowInv, NEW r \in Requests, ConfirmDraw(r)
  PROVE  Keeps(r)'
<1> USE DEF Places, Finals, Covered, Engaged
<1>1. /\ flow[r] \in Local /\ RequestInv(r)
      /\ flow \in [Requests -> Local] /\ draws \in [Keys -> DrawRow]
      /\ flow[r].pc = "confirming" /\ paid' = paid
      /\ flow[r].attempt \in Attempts
  BY EngagedKey DEF FlowInv, FlowTypeOK, LedgerTypeOK, ConfirmDraw, At
<1>2. /\ flow'[r].pc = "done"
      /\ flow'[r].attempt = flow[r].attempt
      /\ flow'[r].excluded = flow[r].excluded
      /\ flow'[r].rail = flow[r].rail
      /\ flow'[r].quote = flow[r].quote
      /\ flow'[r].receipt = flow[r].receipt
      /\ flow'[r] \in Local
  BY <1>1 DEF ConfirmDraw, Goto, Local
<1>3. receipts' = receipts
  BY DEF ConfirmDraw, SettleDraw, Confirm, ledgerVars
<1>4. LocalInv(r)'
  BY <1>1, <1>2 DEF RequestInv, LocalInv
<1>5. ReceiptInv(r)'
  BY <1>1, <1>2, <1>3 DEF RequestInv, ReceiptInv, KeyOf
<1>6. ASSUME NEW i \in Attempts, i # flow[r].attempt
      PROVE  draws'[<<r, i>>] = draws[<<r, i>>]
  BY <1>6, FlowFrame DEF KeyOf, FlowStep
<1>7. ASSUME flow[r].receipt = None
      PROVE  RowInv(r)' /\ DoneInv(r)'
  <2>1. draws' = draws
    BY <1>7 DEF ConfirmDraw, ledgerVars
  <2>2. QED
    BY <1>1, <1>2, <1>7, <2>1, OnlyDoneSettles DEF RequestInv, RowInv, DoneInv
<1>8. ASSUME flow[r].receipt # None
      PROVE  RowInv(r)' /\ DoneInv(r)'
  <2>1. /\ flow[r].receipt.key = <<r, flow[r].attempt>>
        /\ flow[r].receipt.amount = flow[r].quote
        /\ KeyOf(r) \in Keys
        /\ draws[<<r, flow[r].attempt>>].state # "absent"
    BY <1>1, <1>8, OwnReceipt DEF KeyOf
  <2>2. draws[<<r, flow[r].attempt>>].state # "settled"
    BY <1>1, OnlyDoneSettles
  <2>3. Confirmable(<<r, flow[r].attempt>>)
    BY <1>1, <2>1, <2>2 DEF Confirmable, DrawRow, DrawStates
  <2>4. Confirm(<<r, flow[r].attempt>>, flow[r].quote)
    BY <1>8, <2>1, <2>3 DEF ConfirmDraw, SettleDraw
  <2>5. /\ draws'[<<r, flow[r].attempt>>].state = "settled"
        /\ draws'[<<r, flow[r].attempt>>].settled = flow[r].quote
    BY <1>1, <2>4 DEF Confirm, DrawRow
  <2>6. RowInv(r)'
    BY <1>1, <1>2, <1>6, <2>5, OnlyDoneSettles DEF RequestInv, RowInv
  <2>7. DoneInv(r)'
    BY <1>2, <2>1, <2>5 DEF DoneInv
  <2>8. QED
    BY <2>6, <2>7
<1>9. ASSUME NEW p \in paid, p.request = r  PROVE PaidInv(p)'
  BY <1>1, <1>2, <1>9 DEF FlowInv, PaidInv
<1>10. QED
  BY <1>1, <1>2, <1>4, <1>5, <1>7, <1>8, <1>9 DEF Keeps, RequestInv

(***************************************************************************)
(* When the funds leave, the new payment repeats the locals of its flow.   *)
(***************************************************************************)
LEMMA FundsLeaveKeeps ==
  ASSUME FlowInv, NEW r \in Requests, FundsLeave(r)
  PROVE  /\ Keeps(r)'
         /\ paid' = paid \cup {Payment(r)}
         /\ Payment(r) \in [request : Requests, attempt : Attempts, rail : Rails,
                            quote : Amounts \cup {None}, receipt : Receipt \cup {None}]
<1> USE DEF Places, Finals, Covered, Engaged
<1>1. /\ flow[r] \in Local /\ RequestInv(r)
      /\ flow \in [Requests -> Local]
      /\ flow[r].pc = "paying" /\ paid' = paid \cup {Payment(r)}
      /\ draws' = draws /\ receipts' = receipts
      /\ flow[r].attempt \in Attempts
      /\ flow[r].rail \in Rails
  BY EngagedKey DEF FlowInv, FlowTypeOK, FundsLeave, At, RequestInv, LocalInv, ledgerVars
<1>2. /\ flow'[r].pc = "committed"
      /\ flow'[r].attempt = flow[r].attempt
      /\ flow'[r].excluded = flow[r].excluded
      /\ flow'[r].rail = flow[r].rail
      /\ flow'[r].quote = flow[r].quote
      /\ flow'[r].receipt = flow[r].receipt
      /\ flow'[r] \in Local
  BY <1>1 DEF FundsLeave, Goto, Local
<1>3. LocalInv(r)' /\ DoneInv(r)'
  BY <1>1, <1>2 DEF RequestInv, LocalInv, PassesGate, DoneInv
<1>4. ReceiptInv(r)'
  BY <1>1, <1>2 DEF RequestInv, ReceiptInv, KeyOf
<1>5. RowInv(r)'
  BY <1>1, <1>2 DEF RequestInv, RowInv
<1>6. ASSUME NEW p \in paid, p.request = r  PROVE PaidInv(p)'
  BY <1>1, <1>2, <1>6 DEF FlowInv, PaidInv
<1>7. PaidInv(Payment(r))'
  BY <1>2 DEF PaidInv, Payment
<1>8. Payment(r) \in [request : Requests, attempt : Attempts, rail : Rails,
                      quote : Amounts \cup {None}, receipt : Receipt \cup {None}]
  BY <1>1 DEF Payment, Local
<1>9. Payment(r)' = Payment(r)
  BY <1>2 DEF Payment
<1>10. ASSUME NEW p \in paid', p.request = r  PROVE PaidInv(p)'
  BY <1>1, <1>6, <1>7, <1>9, <1>10
<1>11. Keeps(r)'
  BY <1>2, <1>3, <1>4, <1>5, <1>10 DEF Keeps, RequestInv
<1>12. QED
  BY <1>1, <1>8, <1>11

(* An earlier payment of the request was given up on an ambiguous rail,    *)
(* which is excluded from this attempt.                                    *)
LEMMA FundsLeaveOnce ==
  ASSUME FlowInv, NEW r \in Requests, FundsLeave(r)
  PROVE  OnlyHiddenPaymentsAreRepeated'
<1>1. /\ paid' = paid \cup {Payment(r)} /\ flow[r].pc = "paying"
      /\ flow[r].attempt \in Attempts
      /\ flow[r].rail \notin flow[r].excluded
  BY EngagedKey DEF FundsLeave, At, FlowInv, RequestInv, LocalInv, Engaged
<1>2. /\ Payment(r).request = r /\ Payment(r).attempt = flow[r].attempt
      /\ Payment(r).rail = flow[r].rail
  BY DEF Payment
<1>3. \A p \in paid : p.request = r =>
        /\ p.attempt < flow[r].attempt
        /\ p.rail \in flow[r].excluded \cap AmbiguousRails
  BY <1>1 DEF FlowInv, PaidInv
<1>4. \A p \in paid : p.attempt \in Attempts
  BY DEF FlowInv, FlowTypeOK
<1>5. ASSUME NEW p \in paid', NEW q \in paid', p.request = q.request, p.attempt < q.attempt
      PROVE  p.rail \in AmbiguousRails /\ p.rail # q.rail
  <2>1. CASE p \in paid /\ q \in paid
    BY <1>5, <2>1 DEF FlowInv, OnlyHiddenPaymentsAreRepeated
  <2>2. CASE p \in paid /\ q = Payment(r)
    BY <1>1, <1>2, <1>3, <1>5, <2>2
  <2>3. CASE p = Payment(r) /\ q \in paid
    BY <1>1, <1>2, <1>3, <1>4, <1>5, <2>3 DEF Attempts
  <2>4. CASE p = Payment(r) /\ q = Payment(r)
    BY <1>1, <1>2, <1>5, <2>4 DEF Attempts
  <2>5. QED
    BY <1>1, <2>1, <2>2, <2>3, <2>4
<1>6. QED
  BY <1>5 DEF OnlyHiddenPaymentsAreRepeated

(* A payment leaves only with the draw and within the limit it needs.      *)
LEMMA FundsLeaveAuthorised ==
  ASSUME FlowInv, NEW r \in Requests, FundsLeave(r)
  PROVE  PaymentsAreAuthorised'
<1> DEFINE Authorised(p) ==
      /\ p.rail \in AllowedRails \/ p.quote # None
           => /\ p.receipt # None
              /\ p.receipt.key = <<p.request, p.attempt>>
              /\ p.receipt.amount = p.quote
      /\ MaxPerCall[p.rail] # None => p.quote # None /\ p.quote <= MaxPerCall[p.rail]
<1>1. paid' = paid \cup {Payment(r)} /\ flow[r].pc = "paying"
  BY DEF FundsLeave, At
<1>2. /\ flow[r].receipt = None => flow[r].quote = None /\ flow[r].rail \notin AllowedRails
      /\ PassesGate(flow[r].rail, flow[r].quote)
      /\ flow[r].receipt # None => /\ flow[r].receipt.key = <<r, flow[r].attempt>>
                                   /\ flow[r].receipt.amount = flow[r].quote
  BY <1>1, OwnReceipt DEF FlowInv, RequestInv, LocalInv, Covered, Engaged, KeyOf
<1>3. Authorised(Payment(r))
  BY <1>2 DEF Payment, PassesGate
<1>4. \A p \in paid : Authorised(p)
  BY DEF FlowInv, PaymentsAreAuthorised
<1>5. \A p \in paid' : Authorised(p)
  BY <1>1, <1>3, <1>4
<1>6. QED
  BY <1>5 DEF PaymentsAreAuthorised

-----------------------------------------------------------------------------
(* Every action of a request keeps what the invariant says of it.          *)
LEMMA OwnStepKeeps ==
  ASSUME FlowInv, LedgerTypeOK', NEW r \in Requests,
         FlowStep(r) \/ Cancel(r) \/ CancelDraw(r)
  PROVE  Keeps(r)'
<1>1. CASE \E rail \in Rails, quote \in Amounts \cup {None} : Route(r, rail, quote)
  BY <1>1, RouteKeeps
<1>2. CASE DrawGranted(r)
  BY <1>2, DrawGrantedKeeps
<1>3. CASE DrawBreaks(r) \/ CancelDraw(r)
  BY <1>3, DrawLostKeeps
<1>4. CASE FundsLeave(r)
  BY <1>4, FundsLeaveKeeps
<1>5. CASE Release(r)
  BY <1>5, ReleaseKeeps
<1>6. CASE ConfirmDraw(r)
  BY <1>6, ConfirmKeeps
<1>7. CASE Moves(r)
  BY <1>7, MovesKeep
<1>8. QED
  BY <1>1, <1>2, <1>3, <1>4, <1>5, <1>6, <1>7 DEF FlowStep, Moves

(* Only FundsLeave adds a payment, and one of its own request.             *)
LEMMA PaymentsKept ==
  ASSUME FlowInv, NEW r \in Requests, FlowStep(r) \/ Cancel(r) \/ CancelDraw(r)
  PROVE  /\ \A p \in paid' : p \in paid \/ p.request = r
         /\ paid' \subseteq [request : Requests, attempt : Attempts, rail : Rails,
                             quote : Amounts \cup {None}, receipt : Receipt \cup {None}]
         /\ OnlyHiddenPaymentsAreRepeated' /\ PaymentsAreAuthorised'
<1>1. CASE FundsLeave(r)
  <2>1. OnlyHiddenPaymentsAreRepeated' /\ PaymentsAreAuthorised'
    BY <1>1, FundsLeaveOnce, FundsLeaveAuthorised
  <2>2. /\ paid' = paid \cup {Payment(r)}
        /\ Payment(r) \in [request : Requests, attempt : Attempts, rail : Rails,
                           quote : Amounts \cup {None}, receipt : Receipt \cup {None}]
    BY <1>1, FundsLeaveKeeps
  <2>3. Payment(r).request = r
    BY DEF Payment
  <2>4. QED
    BY <2>1, <2>2, <2>3 DEF FlowInv, FlowTypeOK
<1>2. CASE ~ FundsLeave(r)
  <2>1. paid' = paid
    BY <1>2 DEF FlowStep, Route, RouteFails, SkipDraw, DrawGranted, DrawRefused,
                DrawBreaks, PayReturns, PayFailsPostCommit, PayFails, Release,
                RetryReturns, ConfirmDraw, ConfirmFails, Cancel, CancelDraw
  <2>2. QED
    BY <2>1 DEF FlowInv, FlowTypeOK, OnlyHiddenPaymentsAreRepeated, PaymentsAreAuthorised
<1>3. QED
  BY <1>1, <1>2

(* A step of one request keeps the invariant of all. *)
LEMMA RequestStepKeeps ==
  ASSUME FlowInv, NEW r \in Requests, FlowStep(r) \/ Cancel(r) \/ CancelDraw(r)
  PROVE  FlowInv'
<1>1. LedgerTypeOK' /\ ReceiptsDescribeRows' /\ receipts \subseteq receipts'
  BY FlowKeepsLedger DEF FlowNext
<1>2. Keeps(r)'
  BY <1>1, OwnStepKeeps
<1>3. /\ flow' = [flow EXCEPT ![r] = flow'[r]]
      /\ \A s \in Requests \ {r} : flow'[s] = flow[s]
      /\ \A k \in Keys \ {KeyOf(r)} : draws'[k] = draws[k]
  BY FlowFrame
<1>4. /\ \A p \in paid' : p \in paid \/ p.request = r
      /\ paid' \subseteq [request : Requests, attempt : Attempts, rail : Rails,
                          quote : Amounts \cup {None}, receipt : Receipt \cup {None}]
      /\ OnlyHiddenPaymentsAreRepeated' /\ PaymentsAreAuthorised'
  BY PaymentsKept
<1>5. flow' \in [Requests -> Local]
  BY <1>2, <1>3 DEF Keeps, FlowInv, FlowTypeOK
<1>6. ASSUME NEW s \in Requests  PROVE RequestInv(s)'
  <2>1. CASE s = r
    BY <1>2, <2>1 DEF Keeps
  <2>2. CASE s # r
    <3>1. \A k \in Keys : k[1] = s => draws'[k] = draws[k]
      BY <1>3, <2>2 DEF KeyOf
    <3>2. QED
      BY <1>1, <1>3, <2>2, <3>1, BystandersKeep
  <2>3. QED
    BY <2>1, <2>2
<1>7. ASSUME NEW p \in paid'  PROVE PaidInv(p)'
  <2>1. CASE p.request = r
    BY <1>2, <2>1 DEF Keeps
  <2>2. CASE p.request # r
    <3>1. p \in paid /\ p.request \in Requests
      BY <1>4, <2>2 DEF FlowInv, FlowTypeOK
    <3>2. flow'[p.request] = flow[p.request]
      BY <1>3, <2>2, <3>1
    <3>3. QED
      BY <3>1, <3>2 DEF FlowInv, PaidInv
  <2>3. QED
    BY <2>1, <2>2
<1>8. FlowTypeOK'
  BY <1>1, <1>4, <1>5 DEF FlowTypeOK
<1>9. QED
  BY <1>1, <1>4, <1>6, <1>7, <1>8 DEF FlowInv

(* The reaper, the clock and the operator do not touch the flows.          *)
LEMMA BackgroundKeeps ==
  ASSUME FlowInv, Background
  PROVE  FlowInv'
<1>1. LedgerTypeOK' /\ ReceiptsDescribeRows' /\ receipts \subseteq receipts'
  BY FlowKeepsLedger DEF FlowNext
<1>2. flow' = flow /\ paid' = paid
  BY DEF Background
<1>3. \A k \in Keys : draws'[k] = draws[k] \/ draws'[k] = RolledBack(draws[k])
  BY DEF Background, Reap, Tick, SetStatus
<1>4. ASSUME NEW s \in Requests  PROVE RequestInv(s)'
  BY <1>1, <1>2, <1>3, BystandersKeep
<1>5. ASSUME NEW p \in paid'  PROVE PaidInv(p)'
  BY <1>2 DEF FlowInv, PaidInv
<1>6. FlowTypeOK'
  BY <1>1, <1>2 DEF FlowInv, FlowTypeOK
<1>7. OnlyHiddenPaymentsAreRepeated' /\ PaymentsAreAuthorised'
  BY <1>2 DEF FlowInv, OnlyHiddenPaymentsAreRepeated, PaymentsAreAuthorised
<1>8. QED
  BY <1>1, <1>4, <1>5, <1>6, <1>7 DEF FlowInv

(* No flow has drawn or paid at the start. *)
LEMMA FlowInvInit == FlowInit => FlowInv
<1> SUFFICES ASSUME FlowInit  PROVE FlowInv
  OBVIOUS
<1>1. /\ LedgerTypeOK
      /\ receipts = {} /\ paid = {}
      /\ \A k \in Keys : draws[k].state = "absent"
  BY LedgerTypeInit DEF FlowInit, LedgerInit, NoDraw
<1>2. Cardinality(Rails) \in Nat /\ Cardinality({}) = 0
  BY FS_CardinalityType, FS_EmptySet
<1>3. ASSUME NEW r \in Requests
      PROVE  /\ flow[r].pc = "routing" /\ flow[r].attempt = 0
             /\ flow[r].excluded = {} /\ flow[r].receipt = None
  BY DEF FlowInit
<1>4. flow \in [Requests -> Local]
  BY <1>2 DEF FlowInit, Local, Places
<1>5. FlowTypeOK
  BY <1>1, <1>4 DEF FlowTypeOK
<1>6. ASSUME NEW r \in Requests  PROVE RequestInv(r)
  <2>1. LocalInv(r) /\ ReceiptInv(r) /\ DoneInv(r)
    BY <1>2, <1>3 DEF LocalInv, ReceiptInv, DoneInv, Engaged, Covered
  <2>2. RowInv(r)
    BY <1>1 DEF RowInv
  <2>3. QED
    BY <2>1, <2>2 DEF RequestInv
<1>7. /\ ReceiptsDescribeRows
      /\ \A p \in paid : PaidInv(p)
      /\ OnlyHiddenPaymentsAreRepeated /\ PaymentsAreAuthorised
  BY <1>1 DEF ReceiptsDescribeRows, OnlyHiddenPaymentsAreRepeated, PaymentsAreAuthorised
<1>8. QED
  BY <1>5, <1>6, <1>7 DEF FlowInv

(* The invariant is inductive. *)
LEMMA FlowInvStep == FlowInv /\ [FlowNext]_flowVars => FlowInv'
<1> SUFFICES ASSUME FlowInv, [FlowNext]_flowVars  PROVE FlowInv'
  OBVIOUS
<1>1. ASSUME NEW r \in Requests, FlowStep(r) \/ Cancel(r) \/ CancelDraw(r)
      PROVE  FlowInv'
  BY <1>1, RequestStepKeeps
<1>2. CASE Background
  BY <1>2, BackgroundKeeps
<1>3. CASE UNCHANGED flowVars
  <2>1. LedgerTypeOK' /\ ReceiptsDescribeRows' /\ receipts \subseteq receipts'
    BY FlowKeepsLedger
  <2>2. flow' = flow /\ paid' = paid /\ draws' = draws
    BY <1>3 DEF flowVars
  <2>3. ASSUME NEW s \in Requests  PROVE RequestInv(s)'
    BY <2>1, <2>2, BystandersKeep
  <2>4. ASSUME NEW p \in paid'  PROVE PaidInv(p)'
    BY <2>2 DEF FlowInv, PaidInv
  <2>5. FlowTypeOK' /\ OnlyHiddenPaymentsAreRepeated' /\ PaymentsAreAuthorised'
    BY <2>1, <2>2
       DEF FlowInv, FlowTypeOK, OnlyHiddenPaymentsAreRepeated, PaymentsAreAuthorised
  <2>6. QED
    BY <2>1, <2>3, <2>4, <2>5 DEF FlowInv
<1>4. QED
  BY <1>1, <1>2, <1>3 DEF FlowNext

(* The invariant of every reachable state.                                 *)
LEMMA FlowInvariant == FlowSpec => []FlowInv
BY FlowInvInit, FlowInvStep, PTL DEF FlowSpec

-----------------------------------------------------------------------------
(***************************************************************************)
(* Type correctness of the flows and of the payments they make.            *)
(***************************************************************************)
THEOREM FlowTypeCorrect == FlowSpec => []FlowTypeOK
<1>1. FlowInv => FlowTypeOK
  BY DEF FlowInv
<1>2. QED
  BY <1>1, FlowInvariant, PTL

(***************************************************************************)
(* The flows use the ledger as its specification says: every run of the    *)
(* flows is a run of the ledger, under the identity mapping.               *)
(***************************************************************************)
THEOREM FlowImplementsLedger == FlowSpec => LedgerSpec
<1>1. FlowInit => LedgerInit
  BY DEF FlowInit
<1>2. QED
  BY <1>1, FlowStepIsLedgerStep, FlowInvariant, PTL DEF FlowSpec, LedgerSpec

(***************************************************************************)
(* The bound on the cap holds for the requests that share the envelope,    *)
(* however many they are.                                                  *)
(***************************************************************************)
THEOREM FlowsRespectCap == FlowSpec => []CapExceededOnlyByLateSettlement
BY FlowImplementsLedger, CapIsRespected, PTL

(***************************************************************************)
(* A payment whose request ran to its end is settled in the ledger, even   *)
(* if its draw had been reaped.                                            *)
(***************************************************************************)
THEOREM SpendIsAlwaysRecorded == FlowSpec => []SpendIsRecorded
<1>1. FlowInv => SpendIsRecorded
  <2>1. SUFFICES ASSUME FlowInv, NEW p \in paid, p.receipt # None,
                        At(p.request, "done"), p.attempt = flow[p.request].attempt
                 PROVE  /\ draws[p.receipt.key].state = "settled"
                        /\ draws[p.receipt.key].settled = p.quote
    BY DEF SpendIsRecorded
  <2>2. p.request \in Requests /\ p.attempt \in Nat
    BY <2>1 DEF FlowInv, FlowTypeOK, Attempts
  <2>3. p.receipt = flow[p.request].receipt /\ p.quote = flow[p.request].quote
    BY <2>1, <2>2 DEF FlowInv, PaidInv
  <2>4. QED
    BY <2>1, <2>2, <2>3 DEF FlowInv, RequestInv, DoneInv, At
<1>2. QED
  BY <1>1, FlowInvariant, PTL

(***************************************************************************)
(* The draw of an attempt that failed is never charged.                    *)
(***************************************************************************)
THEOREM GivenUpDrawsStayFree == FlowSpec => []GivenUpDrawsAreNotCharged
<1>1. FlowInv => GivenUpDrawsAreNotCharged
  <2>1. SUFFICES ASSUME FlowInv, NEW r \in Requests, NEW i \in Attempts,
                        i < flow[r].attempt
                 PROVE  draws[<<r, i>>].state # "settled"
    BY DEF GivenUpDrawsAreNotCharged
  <2>2. i # flow[r].attempt
    BY <2>1 DEF Attempts
  <2>3. QED
    BY <2>1, <2>2 DEF FlowInv, RequestInv, RowInv
<1>2. QED
  BY <1>1, FlowInvariant, PTL

(***************************************************************************)
(* A request pays again only on another rail, after an ambiguous failure.  *)
(***************************************************************************)
THEOREM RepetitionIsBounded == FlowSpec => []OnlyHiddenPaymentsAreRepeated
<1>1. FlowInv => OnlyHiddenPaymentsAreRepeated
  BY DEF FlowInv
<1>2. QED
  BY <1>1, FlowInvariant, PTL

(***************************************************************************)
(* Every payment has the draw, and is within the limit, that it needs.     *)
(***************************************************************************)
THEOREM EveryPaymentIsAuthorised == FlowSpec => []PaymentsAreAuthorised
<1>1. FlowInv => PaymentsAreAuthorised
  BY DEF FlowInv
<1>2. QED
  BY <1>1, FlowInvariant, PTL
=============================================================================
