---------------------------- MODULE RailPayments ----------------------------
(***************************************************************************)
(* Concurrent payments through the rail adapters (rails/): parse, pay and  *)
(* confirm, between them the clock, and on the other side the parties that *)
(* move the money: the Lightning node, the server that broadcasts a Tempo  *)
(* transaction or redeems an authorization or a token, the Tempo chain.    *)
(* What an adapter raises and returns is what PaymentFlow and CallTrace    *)
(* start from.                                                             *)
(***************************************************************************)
EXTENDS RailChallenges, FiniteSets, Functions

CONSTANTS
  Payments,   \* attempts to pay, one 402 response each
  Responses,  \* the 402 responses that servers may give
  MaxFee,     \* max_fee_msat of the Lightning source
  Garbled,    \* a receipt that cannot be decoded
  MaxTime     \* bound on the clock

(* Fees are fees, and whatever a server asks for is a number. *)
ASSUME FeeAssumption == MaxFee \in Nat
ASSUME PricesAssumption ==
  /\ None \notin Int
  /\ \A response \in Responses :
       /\ response.l402 # None /\ response.l402.invoice # None
            => response.l402.invoice.digits \in Nat \cup {None}
       /\ response.x402 # None
            => \A entry \in Range(ExactEntries(response.x402)) : entry.amount \in Int
       /\ Params(response.payment).request # None
            => Params(response.payment).request.amount \in Int \cup {None}

VARIABLES
  now,
  pays,   \* the locals of each attempt and what it handed out
  node,   \* the Lightning node's part in each attempt
  pool,   \* the attempts whose Tempo transaction waits to be mined
  mined,  \* the number of the wallet's Tempo transactions that are mined
  spent   \* history: what left a wallet, when, and for which attempt

vars == <<now, pays, node, pool, mined, spent>>

Finals == {"refused", "failed", "no_verdict", "post_commit", "cancelled",
           "confirmed", "unverified"}

Places == {"idle", "parsed", "sending", "signing", "paid", "sent"} \cup Finals

At(p, place) == pays[p].at = place

Goto(p, place) == pays' = [pays EXCEPT ![p].at = place]

Rail(p) == pays[p].challenge.rail

Raw(p) == pays[p].challenge.raw

Source(p) == MatchFunding(pays[p].challenge)

(* An attempt at pay(), for which there is a funding source. *)
Paying(p, rail) == At(p, "parsed") /\ Rail(p) = rail /\ Source(p) # None

(* seen: the transactions on the chain when the nonce was read *)
Idle == [at |-> "idle", challenge |-> None, signed |-> None, seen |-> {}, settlement |-> None]

RailsInit ==
  /\ now = 0
  /\ pays = [p \in Payments |-> Idle]
  /\ node = [p \in Payments |-> "idle"]
  /\ pool = {}
  /\ mined = 0
  /\ spent = {}

(* A nonce is unique to its response: an identifier, or a payment hash. *)
OwnNonce(p, challenge) == [challenge EXCEPT !.nonce = <<p, challenge.nonce>>]

Receive(p, response, rail) ==
  /\ At(p, "idle")
  /\ CanHandle(rail, response)
  /\ LET parsed == Parse(rail, response, now)
     IN  IF parsed \in {Malformed, Expired}
         THEN Goto(p, "refused")
         ELSE pays' = [pays EXCEPT ![p].at = "parsed", ![p].challenge = OwnNonce(p, parsed)]
  /\ UNCHANGED <<now, node, pool, mined, spent>>

(* NoFundingForRailError, before anything is asked of a source. *)
PayUnfunded(p) ==
  /\ At(p, "parsed")
  /\ Source(p) = None
  /\ Goto(p, "failed")
  /\ UNCHANGED <<now, node, pool, mined, spent>>

(* A credential for the retried request; what it allows, and until when. *)
Signed(amount, deadline, nonce) == [amount |-> amount, deadline |-> deadline, nonce |-> nonce]

HandsOut(p, signed) == pays' = [pays EXCEPT ![p].at = "paid", ![p].signed = signed]

Spend(p, amount) == spent' = spent \cup {[by |-> p, amount |-> amount, at |-> now]}

Spent(p) == \E s \in spent : s.by = p

-----------------------------------------------------------------------------
(* l402: the node is asked by a thread that reads a stream of its states.  *)

InvoiceMsat(invoice) ==
  IF invoice.digits = None THEN None
  ELSE IF invoice.multiplier = "p" THEN invoice.digits \div 10 ELSE AmountMsat(invoice)

SendInvoice(p) ==
  /\ Paying(p, "l402")
  /\ Goto(p, "sending")
  /\ node' = [node EXCEPT ![p] = "trying"]
  /\ UNCHANGED <<now, pool, mined, spent>>

(* The node pays what the invoice says, which must not have expired. *)
NodePays(p, fee) ==
  /\ node[p] = "trying"
  /\ InvoiceMsat(Raw(p).invoice) # None
  /\ now < InvoiceExpires(Raw(p).invoice)
  /\ Spend(p, InvoiceMsat(Raw(p).invoice) + fee)
  /\ node' = [node EXCEPT ![p] = "paid"]
  /\ UNCHANGED <<now, pays, pool, mined>>

NodeGivesUp(p) ==
  /\ node[p] = "trying"
  /\ node' = [node EXCEPT ![p] = "gave_up"]
  /\ UNCHANGED <<now, pays, pool, mined, spent>>

InvoicePaid(p) ==
  /\ At(p, "sending")
  /\ node[p] = "paid"
  /\ HandsOut(p, Signed(pays[p].challenge.price, None, None))
  /\ UNCHANGED <<now, node, pool, mined, spent>>

(* The node's preimage is not that of the invoice. *)
PreimageMismatch(p) ==
  /\ At(p, "sending")
  /\ node[p] = "paid"
  /\ Goto(p, "post_commit")
  /\ UNCHANGED <<now, node, pool, mined, spent>>

(* Mutation: a state of the stream that is not SUCCEEDED is a failure. *)
InvoiceFailsEarly(p) ==
  /\ At(p, "sending")
  /\ node[p] \in {"trying", "gave_up"}
  /\ Goto(p, "failed")
  /\ UNCHANGED <<now, node, pool, mined, spent>>

InvoiceFails(p) ==
  /\ At(p, "sending")
  /\ node[p] = "gave_up"
  /\ Goto(p, "failed")
  /\ UNCHANGED <<now, node, pool, mined, spent>>

(* The stream breaks off, with an exception or without a final state. *)
StreamEnds(p) ==
  /\ At(p, "sending")
  /\ Goto(p, "no_verdict")
  /\ UNCHANGED <<now, node, pool, mined, spent>>

-----------------------------------------------------------------------------
(***************************************************************************)
(* x402: the SDK is handed every entry that the server accepts and signs   *)
(* an exact one on a network it has a signer for, valid for the entry's    *)
(* timeout.                                                                *)
(***************************************************************************)
Signable(body) ==
  {entry \in Range(ExactEntries(body)) : entry.network \in EvmNetworks}

SignX402(p) ==
  /\ Paying(p, "x402")
  /\ \E entry \in Signable(Raw(p)) :
       HandsOut(p, Signed(entry.amount, now + entry.timeout, None))
  /\ UNCHANGED <<now, node, pool, mined, spent>>

-----------------------------------------------------------------------------
(* mpp-tempo: the nonce is read, in one await, and signed for in the next. *)

Nonces(txs) == {pays[p].signed.nonce : p \in txs}

(* Mutation: transactions that wait to be mined are not counted. *)
LatestCount == mined

(* eth_getTransactionCount(address, "pending") *)
PendingCount == Min((mined .. mined + Cardinality(pool)) \ Nonces(pool))

OnChain == pool \cup {p \in Payments : Spent(p) /\ Rail(p) = "mpp-tempo"}

FetchNonce(p) ==
  /\ Paying(p, "mpp-tempo")
  /\ pays' = [pays EXCEPT ![p].at = "signing",
                          ![p].signed = Signed(None, None, PendingCount),
                          ![p].seen = OnChain]
  /\ UNCHANGED <<now, node, pool, mined, spent>>

(* Mutation: the transaction is valid for a fixed time from its signature. *)
ValidityFromNow(p) == now + DefaultValidity

(* valid_before of a transaction and expires_at of a token. *)
ValidBefore(p) == pays[p].challenge.expires

(* A negative amount does not fit the transfer's calldata. *)
SignTempo(p) ==
  /\ At(p, "signing")
  /\ pays[p].challenge.price >= 0
  /\ HandsOut(p, Signed(pays[p].challenge.price, ValidBefore(p), pays[p].signed.nonce))
  /\ UNCHANGED <<now, node, pool, mined, spent>>

(* mpp-spt: Stripe mints a token limited to the price and the expiry. *)
CreateToken(p) ==
  /\ Paying(p, "mpp-spt")
  /\ HandsOut(p, Signed(pays[p].challenge.price, ValidBefore(p), None))
  /\ UNCHANGED <<now, node, pool, mined, spent>>

(* The client of the node, the SDK, the RPC endpoint, the signer or Stripe raises. *)
PayFails(p) ==
  /\ \/ At(p, "parsed") /\ Source(p) # None
     \/ At(p, "signing")
  /\ Goto(p, "failed")
  /\ UNCHANGED <<now, node, pool, mined, spent>>

(* The caller is cancelled; a thread that talks to the node runs on. *)
Cancel(p) ==
  /\ pays[p].at \in {"parsed", "sending", "signing", "paid"}
  /\ Goto(p, "cancelled")
  /\ UNCHANGED <<now, node, pool, mined, spent>>

-----------------------------------------------------------------------------
(* The server gets the credential with the retried request. *)
Retry(p) ==
  /\ At(p, "paid")
  /\ Goto(p, "sent")
  /\ UNCHANGED <<now, node, pool, mined, spent>>

(* What was delivered can be used once, before or after the answer. *)
Usable(p) ==
  /\ pays[p].at \in {"sent", "confirmed", "unverified"}
  /\ ~ Spent(p)
  /\ now < pays[p].signed.deadline

Collect(p) ==
  /\ pays[p].signed # None /\ Rail(p) \in {"x402", "mpp-spt"}
  /\ Usable(p)
  /\ Spend(p, pays[p].signed.amount)
  /\ UNCHANGED <<now, pays, node, pool, mined>>

(* A transaction is taken if no other holds or has used its nonce. *)
Broadcast(p) ==
  /\ pays[p].signed # None /\ Rail(p) = "mpp-tempo"
  /\ Usable(p)
  /\ pays[p].signed.nonce >= mined
  /\ pays[p].signed.nonce \notin Nonces(pool)
  /\ pool' = pool \cup {p}
  /\ UNCHANGED <<now, pays, node, mined, spent>>

Mine(p) ==
  /\ p \in pool
  /\ pays[p].signed.nonce = mined
  /\ now < pays[p].signed.deadline
  /\ pool' = pool \ {p}
  /\ mined' = mined + 1
  /\ Spend(p, pays[p].signed.amount)
  /\ UNCHANGED <<now, pays, node>>

Evict(p) ==
  /\ p \in pool
  /\ now >= pays[p].signed.deadline
  /\ pool' = pool \ {p}
  /\ UNCHANGED <<now, pays, node, mined, spent>>

-----------------------------------------------------------------------------
(***************************************************************************)
(* confirm: success, the reference that the settlement records, and what   *)
(* it went by: the challenge named by a receipt that was accepted, or None *)
(* if there was no such receipt (history; the code does not keep it).      *)
(*                                                                         *)
(* A receipt is None, Garbled, or has fields of the server's choice.  The  *)
(* challenge it names is compared with the attempt's own, its reference    *)
(* with nothing; the receipt of another payment may come with the answer.  *)
(***************************************************************************)
Settlement(success, reference, names) ==
  [success |-> success, reference |-> reference, names |-> names]

(* proof_value: the hash of a transaction, which is that of its content; a  *)
(* token or a preimage, of which there is one for each challenge.  The hash *)
(* of an x402 transaction is the server's to tell.                          *)
Proof(p) ==
  <<Rail(p), IF Rail(p) = "mpp-tempo" THEN pays[p].signed ELSE pays[p].challenge.nonce>>

(* Mutation: the receipt's challenge is not compared. *)
ReceiptMatchesMethod(p, receipt) == receipt.method \in Methods(Rail(p))

ReceiptMatches(p, receipt) ==
  receipt.challenge = pays[p].challenge.nonce /\ receipt.method \in Methods(Rail(p))

Settled(p, ok, receipt) ==
  CASE Rail(p) = "l402" -> Settlement(ok, None, None)
    [] Rail(p) = "x402" /\ receipt \in {None, Garbled} -> Settlement(ok, None, None)
    [] Rail(p) = "x402" /\ receipt \notin {None, Garbled} ->
         Settlement(receipt.success, receipt.reference, None)
    [] Rail(p) \in MppRails /\ receipt = None -> Settlement(ok, Proof(p), None)
    [] OTHER -> Settlement(ok /\ receipt.success, receipt.reference, receipt.challenge)

Refused(p, receipt) ==
  /\ Rail(p) \in MppRails
  /\ receipt # None
  /\ receipt = Garbled \/ ~ ReceiptMatches(p, receipt)

(* What is known of the other payments: their challenges and their proofs. *)
Receipts ==
  {None, Garbled} \cup
    [challenge : {pays[q].challenge.nonce : q \in {r \in Payments : pays[r].challenge # None}},
     reference : {Proof(q) : q \in {r \in Payments : pays[r].at \in {"paid", "sent", "confirmed"}}},
     method : {"tempo", "stripe"}, success : BOOLEAN]

Confirm(p, ok, receipt) ==
  /\ At(p, "sent")
  /\ IF Refused(p, receipt)
     THEN Goto(p, "unverified")
     ELSE pays' = [pays EXCEPT ![p].at = "confirmed",
                               ![p].settlement = Settled(p, ok, receipt)]
  /\ UNCHANGED <<now, node, pool, mined, spent>>

Tick ==
  /\ now < MaxTime
  /\ now' = now + 1
  /\ UNCHANGED <<pays, node, pool, mined, spent>>

RailsNext ==
  \/ \E p \in Payments :
       \/ \E response \in Responses, rail \in Rails : Receive(p, response, rail)
       \/ PayUnfunded(p) \/ PayFails(p) \/ Cancel(p) \/ Retry(p)
       \/ SendInvoice(p) \/ \E fee \in {0, MaxFee} : NodePays(p, fee)
       \/ NodeGivesUp(p) \/ InvoicePaid(p) \/ PreimageMismatch(p)
       \/ InvoiceFails(p) \/ StreamEnds(p)
       \/ SignX402(p) \/ FetchNonce(p) \/ SignTempo(p) \/ CreateToken(p)
       \/ Collect(p) \/ Broadcast(p) \/ Mine(p) \/ Evict(p)
       \/ \E ok \in BOOLEAN, receipt \in Receipts : Confirm(p, ok, receipt)
  \/ Tick

RailsSpec == RailsInit /\ [][RailsNext]_vars

-----------------------------------------------------------------------------
(***************************************************************************)
(* Money that leaves a wallet is covered by the price that the draw and    *)
(* the policy went by, up to the node's fee and a part of a satoshi.  The  *)
(* price does not cover a pico invoice, which is decoded as free, nor an   *)
(* x402 payment of another entry than the first.                           *)
(***************************************************************************)
QuotedEntryIsSigned(body) == Signable(body) \subseteq {ExactEntries(body)[1]}

Covers(price, s) ==
  CASE Rail(s.by) = "l402" ->
         \/ Raw(s.by).invoice.multiplier = "p"
         \/ s.amount < (price + 1) * MsatPerSat + MaxFee
    [] Rail(s.by) = "x402" -> ~ QuotedEntryIsSigned(Raw(s.by)) \/ s.amount <= price
    [] OTHER -> s.amount <= price

PricesCoverSpending == \A s \in spent : Covers(pays[s.by].challenge.price, s)

(***************************************************************************)
(* An attempt that failed costs nothing, then or later, whatever is still  *)
(* running or was handed out.  Only the node can pay for a caller that is  *)
(* gone or was left without a verdict; every other rail loses nothing      *)
(* before the retried request has left.  This is what the auth flow's      *)
(* rollback of a failed payment relies on.                                 *)
(***************************************************************************)
FailuresCostNothing ==
  \A s \in spent :
    \/ pays[s.by].at \in {"sent", "confirmed", "unverified"}
    \/ Rail(s.by) = "l402"
         /\ pays[s.by].at \in {"sending", "paid", "no_verdict", "post_commit", "cancelled"}

(***************************************************************************)
(* A transaction or a token that an MPP server keeps and uses later costs  *)
(* nothing once the challenge it answers has expired.                      *)
(***************************************************************************)
SpendingEndsWithChallenge ==
  \A s \in spent : Rail(s.by) \in MppRails => s.at < pays[s.by].challenge.expires

(***************************************************************************)
(* Two Tempo payments conflict only if they raced: a nonce that was taken  *)
(* on the chain when an attempt read its own is not signed for again.      *)
(***************************************************************************)
TakenNoncesAreSkipped ==
  \A p \in Payments :
    pays[p].seen \cap OnChain # {} =>
      pays[p].signed.nonce \notin Nonces(pays[p].seen \cap OnChain)

(***************************************************************************)
(* No receipt settles a payment but one that names the payment's own       *)
(* challenge, though the answer may carry that of another payment; and     *)
(* without a receipt the settlement records what was signed for it         *)
(* ("mismatched fields" in confirm_mpp_receipt).  Nothing is said of the   *)
(* reference in a receipt, which the code takes as it comes.               *)
(***************************************************************************)
ReceiptsSettleTheirChallenge ==
  \A p \in Payments :
    LET settlement == pays[p].settlement
    IN  settlement # None /\ Rail(p) \in MppRails =>
          \/ settlement.names = pays[p].challenge.nonce
          \/ settlement.names = None /\ settlement.reference = Proof(p)
=============================================================================
