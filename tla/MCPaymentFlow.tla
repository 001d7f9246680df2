--------------------------- MODULE MCPaymentFlow ---------------------------
(***************************************************************************)
(* Instances of PaymentFlow for TLC.                                       *)
(***************************************************************************)
EXTENDS PaymentFlow, TLC

CONSTANTS rq1, rq2, x402, l402

MCRequests == {rq1, rq2}

MCRails == {x402, l402}

MCKeys == MCRequests \X (0 .. 1)

(* The policy limits calls on one rail to less than the dearest quote. *)
MCMaxPerCall == [rail \in MCRails |-> IF rail = x402 THEN 1 ELSE None]

RequestSymmetry == Permutations(MCRequests)
=============================================================================
