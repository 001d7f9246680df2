--------------------------- MODULE RailChallenges ---------------------------
(***************************************************************************)
(* What the four rail adapters (rails/) make of a 402 response: which of   *)
(* them handles it, the price and the expiry that the budget and the       *)
(* router go by, and the funding source that can pay it.  Header syntax,   *)
(* base64 and JSON are abstracted to the values they carry; a value that   *)
(* is missing and one that cannot be read are None.                        *)
(***************************************************************************)
EXTENDS Integers, Sequences, FiniteSetsExt

CONSTANTS
  Funding,          \* the client's funding sources, in order
  DefaultValidity,  \* _DEFAULT_VALIDITY_SECONDS of the MPP rails
  DefaultExpiry,    \* seconds an invoice without an expiry tag is valid
  FiatMinimum,      \* _STRIPE_FIAT_MIN_MINOR_UNITS
  KnownFiats,       \* _STRIPE_KNOWN_FIATS
  EvmNetworks,      \* the networks the x402 SDK has signers registered for
  Malformed,        \* ChallengeParseError
  Expired,          \* ChallengeExpiredError
  None

ASSUME SecondsAssumption == DefaultValidity \in Nat /\ DefaultExpiry \in Nat

Rails == {"x402", "l402", "mpp-tempo", "mpp-spt"}

MppRails == {"mpp-tempo", "mpp-spt"}

Methods(rail) == CASE rail = "mpp-tempo" -> {"tempo"}
                   [] rail = "mpp-spt" -> {"stripe", "card"}

-----------------------------------------------------------------------------
(* BOLT-11 invoices (rails/_bolt11.py).                                    *)

MsatPerSat == 1000

(***************************************************************************)
(* The amount of the human-readable part in millisatoshi.  Pico amounts    *)
(* and every unknown multiplier are None, like no amount at all.           *)
(***************************************************************************)
AmountMsat(invoice) ==
  CASE invoice.digits = None -> None
    [] invoice.digits # None /\ invoice.multiplier = "m" -> invoice.digits * 100000000
    [] invoice.digits # None /\ invoice.multiplier = "u" -> invoice.digits * 100000
    [] invoice.digits # None /\ invoice.multiplier = "n" -> invoice.digits * 100
    [] invoice.digits # None /\ invoice.multiplier = "" -> invoice.digits * 100000 * 1000000
    [] OTHER -> None

(* A tag whose value is cut off ends the list and is dropped. *)
WholeTags(invoice) ==
  IF invoice.cut /\ invoice.tags # <<>>
  THEN SubSeq(invoice.tags, 1, Len(invoice.tags) - 1)
  ELSE invoice.tags

(* A later tag replaces an earlier one. *)
LastValue(tags, default) == IF tags = <<>> THEN default ELSE tags[Len(tags)].value

PaymentHash(invoice) ==
  LastValue(SelectSeq(WholeTags(invoice), LAMBDA t : t.tag = "payment_hash" /\ t.length = 52),
            None)

Expiry(invoice) ==
  LastValue(SelectSeq(WholeTags(invoice), LAMBDA t : t.tag = "expiry"), DefaultExpiry)

InvoiceExpires(invoice) == invoice.timestamp + Expiry(invoice)

-----------------------------------------------------------------------------
(* A challenge is what parse returns; Malformed and Expired are raised.    *)

Challenge(rail, price, nonce, expires, raw) ==
  [rail |-> rail, price |-> price, nonce |-> nonce, expires |-> expires, raw |-> raw]

Sats(invoice) == (IF AmountMsat(invoice) = None THEN 0 ELSE AmountMsat(invoice)) \div MsatPerSat

(* The earlier of the invoice's expiry and the macaroon's valid_until. *)
L402Expires(body) ==
  LET invoice == InvoiceExpires(body.invoice)
  IN  IF body.valid_until # None THEN Min({invoice, body.valid_until}) ELSE invoice

ParseL402(body, now) ==
  IF body.invoice = None \/ PaymentHash(body.invoice) = None THEN Malformed
  ELSE IF L402Expires(body) <= now THEN Expired
  ELSE Challenge("l402", Sats(body.invoice), PaymentHash(body.invoice), L402Expires(body), body)

ExactEntries(body) == SelectSeq(body.accepts, LAMBDA entry : entry.scheme = "exact")

X402Expires(entry, now) ==
  IF entry.valid_before # None THEN entry.valid_before ELSE now + entry.timeout

(* Mutation: entries of other schemes are not left out. *)
ParseX402AnyScheme(body, now) ==
  IF body.version # 2 \/ body.accepts = <<>> THEN Malformed
  ELSE LET chosen == body.accepts[1]
       IN  IF X402Expires(chosen, now) <= now THEN Expired
           ELSE Challenge("x402", chosen.amount, None, X402Expires(chosen, now), body)

(* The first entry with the scheme "exact" gives the price and the expiry. *)
ParseX402(body, now) ==
  IF body.version # 2 \/ ExactEntries(body) = <<>> THEN Malformed
  ELSE LET chosen == ExactEntries(body)[1]
       IN  IF X402Expires(chosen, now) <= now THEN Expired
           ELSE Challenge("x402", chosen.amount, None, X402Expires(chosen, now), body)

(***************************************************************************)
(* The parameters of a Payment header, which may hold several challenges:  *)
(* a later parameter replaces an earlier one of its name.                  *)
(***************************************************************************)
Params(challenges) ==
  [name \in {"id", "method", "request", "expires"} |->
     LET given == SelectSeq(challenges, LAMBDA c : c[name] # None)
     IN  IF given = <<>> THEN None ELSE given[Len(given)][name]]

MppExpires(params, now) ==
  IF params.expires # None THEN params.expires ELSE now + DefaultValidity

RequestComplete(params) ==
  /\ params.id # None /\ params.request # None
  /\ params.request.amount # None /\ params.request.currency # None
  /\ params.request.recipient # None

(* Tempo offers a chain and the mode "pull". *)
TempoRequestValid(request) == request.chain # None /\ request.pull

(* Stripe takes a currency that looks like a code, and a minimum of the known. *)
SptRequestValid(request) ==
  /\ request.code
  /\ request.amount >= 0
  /\ request.currency \in KnownFiats => request.amount >= FiatMinimum

ParseMpp(rail, challenges, now) ==
  LET params == Params(challenges)
      expires == MppExpires(params, now)
  IN  IF ~ RequestComplete(params) THEN Malformed
      ELSE IF rail = "mpp-tempo" /\ ~ TempoRequestValid(params.request) THEN Malformed
      ELSE IF rail = "mpp-spt" /\ ~ SptRequestValid(params.request) THEN Malformed
      ELSE IF now >= expires THEN Expired
      ELSE Challenge(rail, params.request.amount, params.id, expires, params)

(***************************************************************************)
(* A response is its status, its PAYMENT-REQUIRED body and what its        *)
(* WWW-Authenticate header holds, an L402 challenge or Payment challenges. *)
(***************************************************************************)
CanHandle(rail, response) ==
  /\ response.status = 402
  /\ CASE rail = "x402" -> response.x402 # None
       [] rail = "l402" -> response.l402 # None
       [] rail \in MppRails -> Params(response.payment).method \in Methods(rail)

Parse(rail, response, now) ==
  CASE rail = "x402" -> ParseX402(response.x402, now)
    [] rail = "l402" -> ParseL402(response.l402, now)
    [] rail \in MppRails -> ParseMpp(rail, response.payment, now)

-----------------------------------------------------------------------------
(* Funding sources are records of their rail, network and asset.           *)

FirstSource(sources) == IF sources = <<>> THEN None ELSE sources[1]

SourcesFor(entry) ==
  SelectSeq(Funding, LAMBDA s : s.rail = "x402" /\ s.network = entry.network
                                                /\ s.asset = entry.asset)

(* The first entry that a source can pay decides, not the first source. *)
MatchX402(body) ==
  LET payable == SelectSeq(ExactEntries(body), LAMBDA entry : SourcesFor(entry) # <<>>)
  IN  IF payable = <<>> THEN None ELSE FirstSource(SourcesFor(payable[1]))

MatchL402(body) ==
  FirstSource(SelectSeq(Funding, LAMBDA s : s.rail = "l402" /\ s.network = body.invoice.network))

MatchTempo(request) ==
  FirstSource(SelectSeq(Funding, LAMBDA s : s.rail = "mpp-tempo" /\ s.network = request.chain
                                                                 /\ s.asset = request.currency))

(* The payment method that the challenge hints at is preferred. *)
MatchSpt(request) ==
  LET covering == SelectSeq(Funding, LAMBDA s : s.rail = "mpp-spt" /\ s.asset = request.currency)
      hinted == SelectSeq(covering, LAMBDA s : s.network = request.hint)
  IN  FirstSource(hinted \o covering)

MatchFunding(challenge) ==
  CASE challenge.rail = "x402" -> MatchX402(challenge.raw)
    [] challenge.rail = "l402" -> MatchL402(challenge.raw)
    [] challenge.rail = "mpp-tempo" -> MatchTempo(challenge.raw.request)
    [] challenge.rail = "mpp-spt" -> MatchSpt(challenge.raw.request)
=============================================================================
