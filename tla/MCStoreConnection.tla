------------------------- MODULE MCStoreConnection -------------------------
(***************************************************************************)
(* Instance of StoreConnection for TLC.                                    *)
(***************************************************************************)
EXTENDS StoreConnection, TLC

CONSTANTS c1, c2, c3, new, spare, old

MCCalls == {c1, c2, c3}

MCKeys == {new, spare, old}

MCAmount == [k \in MCKeys |-> 1]

(* One earlier draw, which its caller or the reaper may have freed. *)
MCInitialRows ==
  {[k \in MCKeys |-> IF k = old THEN s ELSE "absent"] : s \in {"reserved", "rolled_back"}}

(* Two draws of the free capacity, or one and its retry, and a third call. *)
MCJobs ==
  LET draw(k) == [op |-> "draw", key |-> k]
  IN  (c1 :> {draw(new)}) @@ (c2 :> {draw(new), draw(spare)})
        @@ (c3 :> {draw(spare)} \cup [op : Ops \ {"draw"}, key : {old}])
=============================================================================
