--------------------------- MODULE MCRailPayments ---------------------------
(***************************************************************************)
(* Instance of RailPayments for TLC: two attempts, and for each rail the   *)
(* responses at the edges of its parser.                                   *)
(***************************************************************************)
EXTENDS RailPayments, TLC

CONSTANTS p1, p2

MCPayments == {p1, p2}

MCFunding ==
  LET source(rail, network, asset) == [rail |-> rail, network |-> network, asset |-> asset]
  IN  << source("mpp-tempo", "moderato", "pathusd"), source("x402", "base", "usdc"),
         source("l402", "bitcoin", "btc"), source("mpp-spt", "pm_first", "usd"),
         source("mpp-spt", "pm_hinted", "usd") >>

Response(x402, l402, payment) ==
  [status |-> 402, x402 |-> x402, l402 |-> l402, payment |-> payment]

-----------------------------------------------------------------------------
Hash == [tag |-> "payment_hash", length |-> 52, value |-> "hash"]

ExpiresIn(seconds) == [tag |-> "expiry", length |-> 2, value |-> seconds]

Invoice(network, digits, multiplier, tags, cut) ==
  [network |-> network, digits |-> digits, multiplier |-> multiplier,
   timestamp |-> 0, tags |-> tags, cut |-> cut]

L402(invoice, valid_until) ==
  Response(None, [invoice |-> invoice, valid_until |-> valid_until], <<>>)

(* 1.5 sats, 3 sats in pico, no amount; a hash that is cut off, another network,
   no invoice. *)
MCInvoices ==
  { L402(Invoice("bitcoin", 15, "n", <<Hash, ExpiresIn(2)>>, FALSE), 1),
    L402(Invoice("bitcoin", 30000, "p", <<Hash>>, FALSE), None),
    L402(Invoice("bitcoin", None, "", <<ExpiresIn(1), Hash, ExpiresIn(3)>>, TRUE), 3),
    L402(Invoice("bitcoin", 1, "u", <<ExpiresIn(2), Hash>>, TRUE), None),
    L402(Invoice("signet", 1, "u", <<Hash>>, FALSE), None),
    L402(None, None) }

-----------------------------------------------------------------------------
Entry(scheme, network, amount) ==
  [scheme |-> scheme, network |-> network, asset |-> "usdc", amount |-> amount,
   timeout |-> 2, valid_before |-> None]

Offer(version, accepts) == [version |-> version, accepts |-> accepts]

(* One entry, a first entry that cannot be signed, one that can but also a second. *)
MCOffers ==
  { Offer(2, <<Entry("upto", "base", 1), Entry("exact", "base", 2)>>),
    Offer(2, <<Entry("exact", "base", 2), Entry("exact", "solana", 1)>>),
    Offer(2, <<Entry("exact", "solana", 1), Entry("exact", "base", 2)>>),
    Offer(2, <<[Entry("exact", "base", 2) EXCEPT !.valid_before = 1]>>),
    Offer(1, <<Entry("exact", "base", 2)>>) }

-----------------------------------------------------------------------------
Payment(id, method, request, expires) ==
  [id |-> id, method |-> method, request |-> request, expires |-> expires]

(* code: the currency is a code of 2 to 4 letters, and no contract *)
Request(amount, currency, chain, hint) ==
  [amount |-> amount, currency |-> currency, code |-> chain = None, recipient |-> "seller",
   chain |-> chain, pull |-> chain # None, hint |-> hint]

Tempo(amount, expires) ==
  Payment("tempo_id", "tempo", Request(amount, "pathusd", "moderato", None), expires)

Stripe(amount, expires) ==
  Payment("stripe_id", "stripe", Request(amount, "usd", None, "pm_hinted"), expires)

(* A challenge without one of its fields. *)
Without(challenge, field) == [challenge EXCEPT !.request[field] = None]

(* Complete, without an expiry, negative, too small, and two in one header;
   without a recipient, a contract for a currency code, and no "pull". *)
MCPaymentHeaders ==
  { <<Tempo(2, 2)>>, <<Tempo(2, None)>>, <<Tempo(-1, 2)>>,
    <<Payment(None, "tempo", None, None)>>,
    <<Without(Tempo(2, 2), "recipient")>>,
    <<[Tempo(2, 2) EXCEPT !.request.pull = FALSE]>>,
    <<[Stripe(2, 1) EXCEPT !.request.code = FALSE]>>,
    <<Stripe(2, 1)>>, <<Stripe(1, 2)>>,
    <<Tempo(2, 1), Stripe(3, None)>> }

MCResponses ==
  MCInvoices
    \cup {Response(offer, None, <<>>) : offer \in MCOffers}
    \cup {Response(None, None, header) : header \in MCPaymentHeaders}
    \cup {Response(Offer(2, <<Entry("exact", "base", 2)>>), None, <<Tempo(2, 3)>>)}

PaymentSymmetry == Permutations(MCPayments)
=============================================================================
