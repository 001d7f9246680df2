------------------------- MODULE RailPaymentsProofs -------------------------
(***************************************************************************)
(* What RailPayments guarantees for every number of concurrent payments,   *)
(* every response a server may give, every funding and every fee.          *)
(***************************************************************************)
EXTENDS RailPayments, FiniteSetTheorems, WellFoundedInduction, TLAPS

-----------------------------------------------------------------------------
(***************************************************************************)
(* The inductive invariant.  An attempt that has got past parse has a      *)
(* challenge of its rail; what it handed out allows the price of the       *)
(* challenge; nothing has left the wallet for it, unless it has sent that  *)
(* out or the Lightning node has paid; and it avoids every nonce it saw.   *)
(***************************************************************************)
Fields == {"at", "challenge", "signed", "seen", "settlement"}

Delivered == {"sent", "confirmed", "unverified"}

HandedOut == {"paid"} \cup Delivered

Unparsed == {"idle", "refused"}

(* A challenge as the adapter of its rail parses it. *)
ParsedOK(c) ==
  /\ c.rail \in Rails
  /\ c.rail = "l402" => /\ c.raw.invoice.digits \in Nat \cup {None}
                        /\ c.price = Sats(c.raw.invoice)
  /\ c.rail = "x402" => /\ c.price = ExactEntries(c.raw)[1].amount
                        /\ \A entry \in Range(ExactEntries(c.raw)) : entry.amount \in Int
  /\ c.rail \in MppRails => c.price \in Int

(* What was handed out allows what was asked for, until it expires. *)
SignedOK(c, signed) ==
  /\ c.rail = "x402" => \E entry \in Signable(c.raw) : signed.amount = entry.amount
  /\ c.rail \in MppRails => signed.amount = c.price /\ signed.deadline = c.expires

ProofOf(x) ==
  <<x.challenge.rail,
    IF x.challenge.rail = "mpp-tempo" THEN x.signed ELSE x.challenge.nonce>>

SettlementOK(x) ==
  /\ x.at # "confirmed" => x.settlement = None
  /\ x.settlement # None /\ x.challenge.rail \in MppRails =>
       \/ x.settlement.names = x.challenge.nonce
       \/ x.settlement.names = None /\ x.settlement.reference = ProofOf(x)

LocalOK(x) ==
  /\ DOMAIN x = Fields /\ x.at \in Places
  /\ x.at \notin Unparsed => ParsedOK(x.challenge)
  /\ x.at \in HandedOut => SignedOK(x.challenge, x.signed)
  /\ x.at = "signing" => x.challenge.rail = "mpp-tempo"
  /\ x.at \in {"signing"} \cup HandedOut /\ x.challenge.rail = "mpp-tempo"
       => x.signed.nonce \in Nat
  /\ x.at \in Unparsed \cup {"parsed", "sending"} => x.seen = {}
  /\ SettlementOK(x)

NodeStates == {"idle", "trying", "paid", "gave_up"}

NodeOK(x, state) ==
  /\ state # "idle" => x.challenge.rail = "l402" /\ x.at \notin Unparsed \cup {"parsed"}
  /\ state = "trying" => x.at \in {"sending", "no_verdict", "cancelled"}

(* A transaction that the chain may hold or has held. *)
OnItsWay(q) == pays[q].at \in Delivered /\ Rail(q) = "mpp-tempo"

Avoids(x) ==
  /\ x.seen \subseteq Payments
  /\ \A q \in x.seen : OnItsWay(q) /\ pays[q].signed.nonce # x.signed.nonce

ChainOK ==
  /\ mined \in Nat
  /\ IsFiniteSet(pool) /\ pool \subseteq Payments
  /\ \A p \in pool : OnItsWay(p)
  /\ \A s \in spent : Rail(s.by) = "mpp-tempo" => pays[s.by].signed.nonce \in 0 .. mined - 1

SpentOK ==
  /\ \A s \in spent : s.by \in Payments
  /\ \A s \in spent : Rail(s.by) = "l402" => node[s.by] = "paid"
  /\ FailuresCostNothing /\ PricesCoverSpending /\ SpendingEndsWithChallenge

RailsInv ==
  /\ DOMAIN pays = Payments /\ node \in [Payments -> NodeStates]
  /\ \A p \in Payments : LocalOK(pays[p]) /\ NodeOK(pays[p], node[p]) /\ Avoids(pays[p])
  /\ ChainOK
  /\ SpentOK

-----------------------------------------------------------------------------
(* Steps of one attempt, which becomes x, while no money moves. *)
Engaged == {"sending", "paid", "no_verdict", "post_commit", "cancelled"}

MayBecome(p, x) ==
  /\ LocalOK(x) /\ Avoids(x)
  /\ pays[p].at # "idle" => x.challenge = pays[p].challenge
  /\ pays[p].at \in Delivered => x.at \in Delivered /\ x.signed = pays[p].signed
  /\ Spent(p) => x.at \in Delivered \/ (Rail(p) = "l402" /\ x.at \in Engaged)

LEMMA AttemptStep ==
  ASSUME RailsInv, NEW p \in Payments, NEW x, pays' = [pays EXCEPT ![p] = x], MayBecome(p, x),
         NEW state \in NodeStates, node' = [node EXCEPT ![p] = state], NodeOK(x, state),
         Spent(p) => state = node[p],
         UNCHANGED <<pool, mined, spent>>
  PROVE  RailsInv'
<1>1. /\ DOMAIN pays' = Payments /\ node' \in [Payments -> NodeStates]
      /\ pays'[p] = x /\ node'[p] = state
      /\ \A q \in Payments \ {p} : pays'[q] = pays[q] /\ node'[q] = node[q]
  BY DEF RailsInv
<1>2. ASSUME NEW q \in Payments, OnItsWay(q)
      PROVE  OnItsWay(q)' /\ pays'[q].signed = pays[q].signed
  BY <1>1, <1>2 DEF OnItsWay, MayBecome, Delivered, Rail
<1>3. ASSUME NEW q \in Payments
      PROVE  LocalOK(pays[q])' /\ NodeOK(pays[q], node[q])'
  BY <1>1 DEF MayBecome, RailsInv
<1>4. ASSUME NEW q \in Payments
      PROVE  Avoids(pays[q])'
  <2>1. PICK y : y = pays'[q]
    OBVIOUS
  <2>2. Avoids(y)
    BY <1>1, <2>1 DEF MayBecome, RailsInv
  <2>3. \A z \in y.seen : OnItsWay(z)' /\ pays'[z].signed.nonce # y.signed.nonce
    BY <1>2, <2>2 DEF Avoids
  <2>4. QED BY <2>1, <2>2, <2>3 DEF Avoids
<1>5. ASSUME NEW s \in spent
      PROVE  /\ s.by \in Payments /\ pays'[s.by].challenge = pays[s.by].challenge
             /\ Rail(s.by) = "l402" => node'[s.by] = "paid"
             /\ \/ pays'[s.by].at \in Delivered
                \/ Rail(s.by) = "l402" /\ pays'[s.by].at \in Engaged
  <2>1. /\ s.by \in Payments
        /\ Rail(s.by) = "l402" => node[s.by] = "paid"
        /\ \/ pays[s.by].at \in Delivered
           \/ Rail(s.by) = "l402" /\ pays[s.by].at \in Engaged
    <3>1. SpentOK
      BY DEF RailsInv
    <3>2. FailuresCostNothing
      BY <3>1 DEF SpentOK
    <3>3. QED BY <3>1, <3>2 DEF SpentOK, FailuresCostNothing, Delivered, Engaged
  <2>2. s.by = p => Spent(p)
    BY DEF Spent
  <2>3. QED BY <1>1, <2>1, <2>2 DEF MayBecome, Delivered, Engaged
<1>6. ChainOK'
  <2>1. \A q \in pool : OnItsWay(q)'
    BY <1>2 DEF RailsInv, ChainOK
  <2>2. ASSUME NEW s \in spent, Rail(s.by)' = "mpp-tempo"
        PROVE  pays'[s.by].signed.nonce \in 0 .. mined - 1
    <3>1. Rail(s.by) = "mpp-tempo" /\ s.by \in Payments
      BY <1>5, <2>2 DEF Rail
    <3>2. OnItsWay(s.by)
      BY <3>1 DEF OnItsWay, RailsInv, SpentOK, FailuresCostNothing, Delivered
    <3>3. QED BY <1>2, <3>1, <3>2 DEF RailsInv, ChainOK
  <2>3. QED BY <2>1, <2>2 DEF RailsInv, ChainOK
<1>7. SpentOK'
  <2>1. FailuresCostNothing'
    BY <1>5 DEF FailuresCostNothing, Rail, Delivered, Engaged
  <2>2. ASSUME NEW s \in spent
        PROVE  Covers(pays[s.by].challenge.price, s)'
    <3>1. pays'[s.by].challenge = pays[s.by].challenge
      BY <1>5
    <3>2. Covers(pays[s.by].challenge.price, s)
      BY DEF RailsInv, SpentOK, PricesCoverSpending
    <3>3. QED BY <3>1, <3>2 DEF Covers, Rail, Raw
  <2>3. SpendingEndsWithChallenge'
    BY <1>5 DEF RailsInv, SpentOK, SpendingEndsWithChallenge, Rail
  <2>4. QED BY <1>5, <2>1, <2>2, <2>3 DEF SpentOK, PricesCoverSpending, Rail
<1>8. QED BY <1>1, <1>3, <1>4, <1>6, <1>7 DEF RailsInv
(* An attempt for which money has left a wallet is not just anywhere. *)
LEMMA WhereSpent ==
  ASSUME RailsInv, NEW p \in Payments, Spent(p)
  PROVE  \/ pays[p].at \in Delivered
         \/ Rail(p) = "l402" /\ pays[p].at \in Engaged /\ node[p] = "paid"
<1>1. PICK s \in spent : s.by = p
  BY DEF Spent
<1>2. SpentOK
  BY DEF RailsInv
<1>3. FailuresCostNothing
  BY <1>2 DEF SpentOK
<1>4. QED BY <1>1, <1>2, <1>3 DEF SpentOK, FailuresCostNothing, Delivered, Engaged

(* Steps that only go on to another place. *)
Leads(p, place) ==
  \/ pays[p].at = "idle" /\ place = "refused"
  \/ pays[p].at \in {"parsed", "signing"} /\ place \in {"failed", "cancelled"}
  \/ pays[p].at = "sending" /\ place \in {"no_verdict", "cancelled"}
  \/ pays[p].at = "sending" /\ place = "post_commit" /\ node[p] = "paid"
  \/ pays[p].at = "sending" /\ place = "failed" /\ node[p] = "gave_up"
  \/ pays[p].at = "paid" /\ place \in {"cancelled", "sent"}
  \/ pays[p].at = "sent" /\ place = "unverified"

LEMMA PlaceStep ==
  ASSUME RailsInv, NEW p \in Payments, NEW place, Goto(p, place), Leads(p, place),
         UNCHANGED <<node, pool, mined, spent>>
  PROVE  RailsInv'
<1>1. PICK x : x = [pays[p] EXCEPT !.at = place]
  OBVIOUS
<1>2. /\ LocalOK(pays[p]) /\ NodeOK(pays[p], node[p]) /\ Avoids(pays[p])
      /\ DOMAIN pays = Payments /\ node \in [Payments -> NodeStates]
      /\ DOMAIN pays[p] = Fields
  BY DEF RailsInv, LocalOK
<1>3. /\ DOMAIN x = Fields /\ x.at = place /\ x.challenge = pays[p].challenge
      /\ x.signed = pays[p].signed /\ x.seen = pays[p].seen
      /\ x.settlement = pays[p].settlement
  BY <1>1, <1>2 DEF Fields
<1>4. pays' = [pays EXCEPT ![p] = x]
  BY <1>1, <1>2 DEF Goto
<1>5. LocalOK(x)
  BY <1>2, <1>3 DEF LocalOK, SettlementOK, Leads, Places, Finals, Unparsed, HandedOut, Delivered
<1>6. Avoids(x)
  BY <1>2, <1>3 DEF Avoids
<1>7. Spent(p) => x.at \in Delivered \/ (Rail(p) = "l402" /\ x.at \in Engaged)
  <2>1. CASE Spent(p)
    <3>1. \/ pays[p].at \in Delivered
          \/ Rail(p) = "l402" /\ pays[p].at \in Engaged /\ node[p] = "paid"
      BY <2>1, WhereSpent
    <3>2. QED BY <1>3, <3>1 DEF Leads, Delivered, Engaged
  <2>2. QED BY <2>1
<1>8. MayBecome(p, x)
  BY <1>3, <1>5, <1>6, <1>7 DEF MayBecome, Leads, Delivered
<1>9. NodeOK(x, node[p])
  BY <1>2, <1>3 DEF NodeOK, Leads, Unparsed
<1>10. node' = [node EXCEPT ![p] = node[p]] /\ node[p] \in NodeStates
  BY <1>2
<1>11. QED BY <1>4, <1>8, <1>9, <1>10, AttemptStep

(* Steps that hand out a credential. *)
LEMMA HandingOut ==
  ASSUME RailsInv, NEW p \in Payments, NEW signed, HandsOut(p, signed),
         pays[p].at \in {"parsed", "sending", "signing"}, node[p] # "trying",
         SignedOK(pays[p].challenge, signed),
         Rail(p) = "mpp-tempo" =>
           pays[p].at = "signing" /\ signed.nonce = pays[p].signed.nonce,
         Rail(p) # "mpp-tempo" => pays[p].at # "signing",
         UNCHANGED <<node, pool, mined, spent>>
  PROVE  RailsInv'
<1>1. PICK x : x = [pays[p] EXCEPT !.at = "paid", !.signed = signed]
  OBVIOUS
<1>2. /\ LocalOK(pays[p]) /\ NodeOK(pays[p], node[p]) /\ Avoids(pays[p])
      /\ DOMAIN pays = Payments /\ node \in [Payments -> NodeStates]
      /\ DOMAIN pays[p] = Fields
  BY DEF RailsInv, LocalOK
<1>3. /\ DOMAIN x = Fields /\ x.at = "paid" /\ x.challenge = pays[p].challenge
      /\ x.signed = signed /\ x.seen = pays[p].seen
      /\ x.settlement = pays[p].settlement
  BY <1>1, <1>2 DEF Fields
<1>4. pays' = [pays EXCEPT ![p] = x]
  BY <1>1, <1>2 DEF HandsOut
<1>5. Rail(p) = "mpp-tempo" => signed.nonce \in Nat
  BY <1>2 DEF LocalOK, Rail
<1>6. LocalOK(x)
  BY <1>2, <1>3, <1>5
     DEF LocalOK, SettlementOK, Places, Finals, Unparsed, HandedOut, Delivered, Rail
<1>7. Avoids(x)
  BY <1>2, <1>3 DEF Avoids, LocalOK
<1>8. Spent(p) => x.at \in Delivered \/ (Rail(p) = "l402" /\ x.at \in Engaged)
  BY <1>3, WhereSpent DEF Delivered, Engaged
<1>9. MayBecome(p, x)
  BY <1>3, <1>6, <1>7, <1>8 DEF MayBecome, Delivered
<1>10. NodeOK(x, node[p])
  BY <1>2, <1>3 DEF NodeOK, Unparsed
<1>11. node' = [node EXCEPT ![p] = node[p]] /\ node[p] \in NodeStates
  BY <1>2
<1>12. QED BY <1>4, <1>9, <1>10, <1>11, AttemptStep
-----------------------------------------------------------------------------
(* What parse returns, if it does not raise. *)
LEMMA ParsedChallenges ==
  ASSUME NEW response \in Responses, NEW rail \in Rails, CanHandle(rail, response), NEW t,
         Parse(rail, response, t) \notin {Malformed, Expired}
  PROVE  \E price, nonce, expires, raw :
           /\ Parse(rail, response, t) = Challenge(rail, price, nonce, expires, raw)
           /\ ParsedOK(Challenge(rail, price, nonce, expires, raw))
<1> USE DEF Challenge
<1>1. CASE rail = "l402"
  <2> DEFINE body == response.l402
  <2>1. body # None /\ Parse(rail, response, t) = ParseL402(body, t)
    BY <1>1 DEF CanHandle, Parse, MppRails
  <2>2. /\ body.invoice # None
        /\ ParseL402(body, t) = Challenge("l402", Sats(body.invoice), PaymentHash(body.invoice),
                                          L402Expires(body), body)
    BY <2>1 DEF ParseL402
  <2>3. body.invoice.digits \in Nat \cup {None}
    BY <2>1, <2>2, PricesAssumption
  <2> HIDE DEF body
  <2>4. ParsedOK(Challenge("l402", Sats(body.invoice), PaymentHash(body.invoice),
                           L402Expires(body), body))
    BY <2>3 DEF ParsedOK, Rails, MppRails
  <2>5. QED BY <1>1, <2>1, <2>2, <2>4
<1>2. CASE rail = "x402"
  <2> DEFINE body == response.x402
             chosen == ExactEntries(body)[1]
  <2>1. body # None /\ Parse(rail, response, t) = ParseX402(body, t)
    BY <1>2 DEF CanHandle, Parse, MppRails
  <2>2. ParseX402(body, t) = Challenge("x402", chosen.amount, None, X402Expires(chosen, t), body)
    BY <2>1 DEF ParseX402
  <2>3. \A entry \in Range(ExactEntries(body)) : entry.amount \in Int
    BY <2>1, PricesAssumption
  <2> HIDE DEF body
  <2>4. ParsedOK(Challenge("x402", chosen.amount, None, X402Expires(chosen, t), body))
    BY <2>3 DEF ParsedOK, Rails, MppRails
  <2>5. QED BY <1>2, <2>1, <2>2, <2>4
<1>3. CASE rail \in MppRails
  <2> DEFINE params == Params(response.payment)
             expires == MppExpires(params, t)
  <2>1. Parse(rail, response, t) = ParseMpp(rail, response.payment, t)
    BY <1>3 DEF Parse, MppRails
  <2>2. /\ RequestComplete(params)
        /\ ParseMpp(rail, response.payment, t)
             = Challenge(rail, params.request.amount, params.id, expires, params)
    BY <2>1 DEF ParseMpp
  <2>3. params.request.amount \in Int
    BY <2>2, PricesAssumption DEF RequestComplete
  <2> HIDE DEF params, expires
  <2>4. ParsedOK(Challenge(rail, params.request.amount, params.id, expires, params))
    BY <1>3, <2>3 DEF ParsedOK, Rails, MppRails
  <2>5. QED BY <2>1, <2>2, <2>4
<1>4. QED BY <1>1, <1>2, <1>3 DEF Rails, MppRails

LEMMA ReceiveStep ==
  ASSUME RailsInv, NEW p \in Payments, NEW response \in Responses, NEW rail \in Rails,
         Receive(p, response, rail)
  PROVE  RailsInv'
<1>1. PICK parsed : parsed = Parse(rail, response, now)
  OBVIOUS
<1>2. CASE parsed \in {Malformed, Expired}
  <2>1. Goto(p, "refused") /\ Leads(p, "refused") /\ UNCHANGED <<node, pool, mined, spent>>
    BY <1>1, <1>2 DEF Receive, At, Leads
  <2>2. QED BY <2>1, PlaceStep
<1>3. CASE parsed \notin {Malformed, Expired}
  <2>1. PICK price, nonce, expires, raw :
          /\ parsed = Challenge(rail, price, nonce, expires, raw)
          /\ ParsedOK(Challenge(rail, price, nonce, expires, raw))
    BY <1>1, <1>3, ParsedChallenges DEF Receive
  <2>2. PICK c : c = OwnNonce(p, parsed)
    OBVIOUS
  <2>3. c = Challenge(rail, price, <<p, nonce>>, expires, raw)
    BY <2>1, <2>2 DEF OwnNonce, Challenge
  <2>4. ParsedOK(c)
    BY <2>1, <2>3 DEF ParsedOK, Challenge
  <2>5. PICK x : x = [pays[p] EXCEPT !.at = "parsed", !.challenge = c]
    OBVIOUS
  <2>6. /\ LocalOK(pays[p]) /\ NodeOK(pays[p], node[p]) /\ Avoids(pays[p])
        /\ DOMAIN pays = Payments /\ node \in [Payments -> NodeStates]
        /\ DOMAIN pays[p] = Fields /\ pays[p].at = "idle"
    BY DEF RailsInv, LocalOK, Receive, At
  <2>7. /\ DOMAIN x = Fields /\ x.at = "parsed" /\ x.challenge = c
        /\ x.seen = pays[p].seen /\ x.settlement = pays[p].settlement
    BY <2>5, <2>6 DEF Fields
  <2>8. pays' = [pays EXCEPT ![p] = x] /\ UNCHANGED <<node, pool, mined, spent>>
    BY <1>1, <1>3, <2>2, <2>5, <2>6 DEF Receive
  <2>9. LocalOK(x) /\ Avoids(x)
    BY <2>4, <2>6, <2>7
       DEF LocalOK, SettlementOK, Avoids, Places, Unparsed, HandedOut, Delivered
  <2>10. ~ Spent(p)
    BY <2>6, WhereSpent DEF Delivered, Engaged
  <2>11. MayBecome(p, x)
    BY <2>6, <2>9, <2>10 DEF MayBecome, Delivered
  <2>12. node[p] = "idle" /\ NodeOK(x, node[p])
    BY <2>6 DEF NodeOK, Unparsed, NodeStates
  <2>13. node' = [node EXCEPT ![p] = node[p]] /\ node[p] \in NodeStates
    BY <2>6, <2>8
  <2>14. QED BY <2>8, <2>11, <2>12, <2>13, AttemptStep
<1>4. QED BY <1>2, <1>3

-----------------------------------------------------------------------------
(* The next nonce is one that no transaction waiting to be mined has. *)
LEMMA PendingNonce ==
  ASSUME mined \in Nat, IsFiniteSet(pool)
  PROVE  /\ PendingCount \in Nat /\ PendingCount >= mined
         /\ PendingCount \notin Nonces(pool)
<1> DEFINE R == mined .. mined + Cardinality(pool)
           N == Nonces(pool)
           f == [q \in pool |-> pays[q].signed.nonce]
<1>1. Cardinality(pool) \in Nat
  BY FS_CardinalityType
<1>2. IsFiniteSet(R) /\ Cardinality(R) = Cardinality(pool) + 1
  BY <1>1, FS_Interval
<1>3. f \in Surjection(pool, N)
  BY DEF Surjection, Nonces
<1>4. IsFiniteSet(N) /\ Cardinality(N) <= Cardinality(pool)
  <2> HIDE DEF f, N
  <2>1. QED BY <1>3, FS_Surjection
<1>5. R \ N # {}
  <2> HIDE DEF R, N
  <2>1. SUFFICES ASSUME R \subseteq N PROVE FALSE
    OBVIOUS
  <2>2. Cardinality(R) <= Cardinality(N)
    BY <1>4, <2>1, FS_Subset
  <2>3. Cardinality(N) \in Nat
    BY <1>4, FS_CardinalityType
  <2>4. QED BY <1>1, <1>2, <1>4, <2>2, <2>3
<1>6. PICK n \in R \ N : \A m \in R \ N : n <= m
  <2>1. R \ N \subseteq Nat
    BY <1>1
  <2> DEFINE Less == {ss \in Nat \X Nat : ss[1] < ss[2]}
  <2>2. IsWellFoundedOn(Less, Nat)
    BY NatLessThanWellFounded DEF OpToRel
  <2>3. PICK n \in R \ N : \A m \in R \ N : ~ (<<m, n>> \in Less)
    <3> HIDE DEF R, N, Less
    <3>1. QED BY <1>5, <2>1, <2>2, WFMin
  <2>4. ASSUME NEW m \in R \ N
        PROVE  n <= m
    <3>1. m \in Nat /\ n \in Nat /\ <<m, n>> \notin Less
      BY <2>1, <2>3
    <3> HIDE DEF R, N
    <3>2. QED BY <3>1
  <2>5. QED BY <2>3, <2>4
<1>7. PendingCount \in R \ N
  BY <1>6 DEF PendingCount, Min
<1>8. QED BY <1>1, <1>7

LEMMA FetchStep ==
  ASSUME RailsInv, NEW p \in Payments, FetchNonce(p)
  PROVE  RailsInv'
<1>1. PICK n : n = PendingCount
  OBVIOUS
<1>2. PICK x : x = [pays[p] EXCEPT !.at = "signing", !.signed = Signed(None, None, n),
                                   !.seen = OnChain]
  OBVIOUS
<1>3. /\ LocalOK(pays[p]) /\ NodeOK(pays[p], node[p])
      /\ DOMAIN pays = Payments /\ node \in [Payments -> NodeStates]
      /\ DOMAIN pays[p] = Fields /\ pays[p].at = "parsed"
      /\ Rail(p) = "mpp-tempo"
  BY DEF RailsInv, LocalOK, FetchNonce, Paying, At
<1>4. /\ DOMAIN x = Fields /\ x.at = "signing" /\ x.challenge = pays[p].challenge
      /\ x.signed.nonce = n /\ x.seen = OnChain /\ x.settlement = pays[p].settlement
  BY <1>2, <1>3 DEF Fields, Signed
<1>5. pays' = [pays EXCEPT ![p] = x] /\ UNCHANGED <<node, pool, mined, spent>>
  BY <1>1, <1>2, <1>3 DEF FetchNonce
<1>6. mined \in Nat /\ n \in Nat /\ n >= mined /\ n \notin Nonces(pool)
  BY <1>1, PendingNonce DEF RailsInv, ChainOK
<1>7. LocalOK(x)
  BY <1>3, <1>4, <1>6 DEF LocalOK, SettlementOK, Places, Unparsed, HandedOut, Delivered, Rail
<1>8. Avoids(x)
  <2>1. OnChain \subseteq Payments
    BY DEF OnChain, RailsInv, ChainOK
  <2>2. ASSUME NEW q \in OnChain
        PROVE  OnItsWay(q) /\ pays[q].signed.nonce # n
    <3>1. CASE q \in pool
      BY <1>6, <3>1 DEF Nonces, RailsInv, ChainOK
    <3>2. CASE q \in Payments /\ Spent(q) /\ Rail(q) = "mpp-tempo"
      <4>1. OnItsWay(q)
        BY <3>2, WhereSpent DEF OnItsWay
      <4>2. pays[q].signed.nonce \in 0 .. mined - 1
        BY <3>2 DEF Spent, RailsInv, ChainOK
      <4>3. QED BY <1>6, <4>1, <4>2 DEF RailsInv, ChainOK
    <3>3. QED BY <3>1, <3>2 DEF OnChain
  <2>3. QED BY <1>4, <2>1, <2>2 DEF Avoids
<1>9. ~ Spent(p)
  BY <1>3, WhereSpent DEF Delivered, Engaged
<1>10. MayBecome(p, x)
  BY <1>3, <1>4, <1>7, <1>8, <1>9 DEF MayBecome, Delivered
<1>11. NodeOK(x, node[p])
  BY <1>3, <1>4 DEF NodeOK, Unparsed, NodeStates
<1>12. node' = [node EXCEPT ![p] = node[p]] /\ node[p] \in NodeStates
  BY <1>3, <1>5
<1>13. QED BY <1>5, <1>10, <1>11, <1>12, AttemptStep
-----------------------------------------------------------------------------
(* What confirm makes of the answer. *)
LEMMA ConfirmStep ==
  ASSUME RailsInv, NEW p \in Payments, NEW ok, NEW receipt, Confirm(p, ok, receipt)
  PROVE  RailsInv'
<1>1. CASE Refused(p, receipt)
  <2>1. Goto(p, "unverified") /\ Leads(p, "unverified") /\ UNCHANGED <<node, pool, mined, spent>>
    BY <1>1 DEF Confirm, At, Leads
  <2>2. QED BY <2>1, PlaceStep
<1>2. CASE ~ Refused(p, receipt)
  <2>1. PICK settled : settled = Settled(p, ok, receipt)
    OBVIOUS
  <2>2. Rail(p) \in MppRails =>
          \/ settled.names = pays[p].challenge.nonce
          \/ settled.names = None /\ settled.reference = Proof(p)
    <3>1. CASE Rail(p) \in MppRails /\ receipt = None
      <4>1. settled = Settlement(ok, Proof(p), None)
        BY <2>1, <3>1 DEF Settled, MppRails
      <4>2. QED BY <4>1 DEF Settlement
    <3>2. CASE Rail(p) \in MppRails /\ receipt # None
      <4>1. receipt.challenge = pays[p].challenge.nonce
        BY <1>2, <3>2 DEF Refused, ReceiptMatches
      <4>2. settled = Settlement(ok /\ receipt.success, receipt.reference, receipt.challenge)
        BY <2>1, <3>2 DEF Settled, MppRails
      <4>3. QED BY <4>1, <4>2 DEF Settlement
    <3>3. QED BY <3>1, <3>2
  <2>3. PICK x : x = [pays[p] EXCEPT !.at = "confirmed", !.settlement = settled]
    OBVIOUS
  <2>4. /\ LocalOK(pays[p]) /\ NodeOK(pays[p], node[p]) /\ Avoids(pays[p])
        /\ DOMAIN pays = Payments /\ node \in [Payments -> NodeStates]
        /\ DOMAIN pays[p] = Fields /\ pays[p].at = "sent"
    BY DEF RailsInv, LocalOK, Confirm, At
  <2>5. /\ DOMAIN x = Fields /\ x.at = "confirmed" /\ x.challenge = pays[p].challenge
        /\ x.signed = pays[p].signed /\ x.seen = pays[p].seen /\ x.settlement = settled
    BY <2>3, <2>4 DEF Fields
  <2>6. pays' = [pays EXCEPT ![p] = x] /\ UNCHANGED <<node, pool, mined, spent>>
    BY <1>2, <2>1, <2>3, <2>4 DEF Confirm
  <2>7. LocalOK(x)
    <3>1. SettlementOK(x)
      BY <2>2, <2>5 DEF SettlementOK, Proof, ProofOf, Rail
    <3>2. QED BY <2>4, <2>5, <3>1
       DEF LocalOK, SettlementOK, Places, Finals, Unparsed, HandedOut, Delivered, Rail
  <2>8. Avoids(x)
    BY <2>4, <2>5 DEF Avoids
  <2>9. MayBecome(p, x)
    BY <2>4, <2>5, <2>7, <2>8 DEF MayBecome, Delivered
  <2>10. NodeOK(x, node[p])
    BY <2>4, <2>5 DEF NodeOK, Unparsed
  <2>11. node' = [node EXCEPT ![p] = node[p]] /\ node[p] \in NodeStates
    BY <2>4, <2>6
  <2>12. QED BY <2>6, <2>9, <2>10, <2>11, AttemptStep
<1>3. QED BY <1>1, <1>2

(* The invoice goes to the node. *)
LEMMA SendInvoiceStep ==
  ASSUME RailsInv, NEW p \in Payments, SendInvoice(p)
  PROVE  RailsInv'
<1>1. PICK x : x = [pays[p] EXCEPT !.at = "sending"]
  OBVIOUS
<1>2. /\ LocalOK(pays[p]) /\ Avoids(pays[p])
      /\ DOMAIN pays = Payments /\ node \in [Payments -> NodeStates]
      /\ DOMAIN pays[p] = Fields /\ pays[p].at = "parsed" /\ Rail(p) = "l402"
  BY DEF RailsInv, LocalOK, SendInvoice, Paying, At
<1>3. /\ DOMAIN x = Fields /\ x.at = "sending" /\ x.challenge = pays[p].challenge
      /\ x.signed = pays[p].signed /\ x.seen = pays[p].seen
      /\ x.settlement = pays[p].settlement
  BY <1>1, <1>2 DEF Fields
<1>4. /\ pays' = [pays EXCEPT ![p] = x] /\ node' = [node EXCEPT ![p] = "trying"]
      /\ UNCHANGED <<pool, mined, spent>>
  BY <1>1, <1>2 DEF SendInvoice, Goto
<1>5. LocalOK(x)
  BY <1>2, <1>3 DEF LocalOK, SettlementOK, Places, Unparsed, HandedOut, Delivered
<1>6. Avoids(x)
  BY <1>2, <1>3 DEF Avoids
<1>7. ~ Spent(p)
  BY <1>2, WhereSpent DEF Delivered, Engaged
<1>8. MayBecome(p, x)
  BY <1>2, <1>3, <1>5, <1>6, <1>7 DEF MayBecome, Delivered
<1>9. NodeOK(x, "trying") /\ "trying" \in NodeStates
  BY <1>2, <1>3 DEF NodeOK, NodeStates, Unparsed, Rail
<1>10. QED BY <1>4, <1>7, <1>8, <1>9, AttemptStep

-----------------------------------------------------------------------------
(* Steps in which the locals of the attempts stay, and money may move. *)
LEMMA LocalsStay ==
  ASSUME RailsInv, UNCHANGED pays
  PROVE  /\ DOMAIN pays' = Payments
         /\ \A p \in Payments : LocalOK(pays[p])' /\ Avoids(pays[p])'
<1>1. ASSUME NEW p \in Payments
      PROVE  LocalOK(pays[p])' /\ Avoids(pays[p])'
  BY DEF RailsInv, Avoids, OnItsWay, Rail
<1>2. QED BY <1>1 DEF RailsInv

LEMMA NodesStay ==
  ASSUME RailsInv, UNCHANGED <<pays, node>>
  PROVE  /\ node' \in [Payments -> NodeStates]
         /\ \A p \in Payments : NodeOK(pays[p], node[p])'
BY DEF RailsInv

LEMMA Spending ==
  ASSUME RailsInv, NEW p \in Payments, NEW amount, Spend(p, amount), UNCHANGED pays,
         pays[p].at \in Delivered \/ (Rail(p) = "l402" /\ pays[p].at \in Engaged),
         Covers(pays[p].challenge.price, [by |-> p, amount |-> amount, at |-> now]),
         Rail(p) \in MppRails => now < pays[p].challenge.expires,
         Rail(p) = "l402" => node'[p] = "paid",
         \A q \in Payments : node[q] = "paid" => node'[q] = "paid"
  PROVE  SpentOK'
<1>1. SpentOK
  BY DEF RailsInv
<1>2. PICK new : new = [by |-> p, amount |-> amount, at |-> now]
  OBVIOUS
<1>3. /\ new.by = p /\ new.at = now
      /\ spent' = spent \cup {new}
  BY <1>2 DEF Spend
<1>4. \A s \in spent' : s.by \in Payments /\ (Rail(s.by) = "l402" => node'[s.by] = "paid")
  BY <1>1, <1>3 DEF SpentOK
<1>5. FailuresCostNothing'
  BY <1>1, <1>3 DEF SpentOK, FailuresCostNothing, Delivered, Engaged, Rail
<1>6. ASSUME NEW s \in spent'
      PROVE  Covers(pays[s.by].challenge.price, s)'
  <2>1. Covers(pays[s.by].challenge.price, s)
    BY <1>1, <1>2, <1>3 DEF SpentOK, PricesCoverSpending
  <2>2. QED BY <2>1 DEF Covers, Rail, Raw
<1>7. SpendingEndsWithChallenge'
  BY <1>1, <1>3 DEF SpentOK, SpendingEndsWithChallenge, Rail
<1>8. QED BY <1>4, <1>5, <1>6, <1>7 DEF SpentOK, PricesCoverSpending, Rail

LEMMA NothingSpent ==
  ASSUME RailsInv, UNCHANGED <<pays, spent>>,
         \A q \in Payments : node[q] = "paid" => node'[q] = "paid"
  PROVE  SpentOK'
<1>1. SpentOK
  BY DEF RailsInv
<1>2. FailuresCostNothing' /\ PricesCoverSpending' /\ SpendingEndsWithChallenge'
  BY <1>1 DEF SpentOK, FailuresCostNothing, PricesCoverSpending, SpendingEndsWithChallenge,
              Covers, Rail, Raw
<1>3. QED BY <1>1, <1>2 DEF SpentOK, Rail

LEMMA InvoiceIsCovered ==
  ASSUME NEW invoice, invoice.digits \in Nat \cup {None}, invoice.multiplier # "p",
         InvoiceMsat(invoice) # None, NEW fee \in {0, MaxFee}
  PROVE  InvoiceMsat(invoice) + fee < (Sats(invoice) + 1) * MsatPerSat + MaxFee
<1>1. InvoiceMsat(invoice) = AmountMsat(invoice) /\ invoice.digits \in Nat
  BY PricesAssumption DEF InvoiceMsat
<1>2. AmountMsat(invoice) \in Nat
  <2>1. AmountMsat(invoice) # None /\ invoice.digits # None
    BY <1>1, PricesAssumption
  <2>2. PICK n \in Nat : n = invoice.digits
    BY <1>1
  <2>3. /\ n * 100000000 \in Nat /\ n * 100000 \in Nat /\ n * 100 \in Nat
        /\ n * 100000 * 1000000 \in Nat
    BY SMT
  <2>4. AmountMsat(invoice) \in {None, n * 100000000, n * 100000, n * 100, n * 100000 * 1000000}
    BY <2>2, SMT DEF AmountMsat
  <2>5. QED BY <2>1, <2>3, <2>4, SMT
<1>3. PICK a \in Nat : a = AmountMsat(invoice)
  BY <1>2
<1>4. Sats(invoice) = a \div 1000
  BY <1>1, <1>3, PricesAssumption DEF Sats, MsatPerSat
<1>5. a < (a \div 1000 + 1) * 1000
  BY <1>3
<1>6. fee \in Nat /\ MaxFee \in Nat /\ fee <= MaxFee
  BY FeeAssumption
<1>7. QED BY <1>1, <1>3, <1>4, <1>5, <1>6 DEF MsatPerSat
(* The node pays, or gives up. *)
LEMMA NodePaysStep ==
  ASSUME RailsInv, NEW p \in Payments, NEW fee \in {0, MaxFee}, NodePays(p, fee)
  PROVE  RailsInv'
<1>1. /\ LocalOK(pays[p]) /\ NodeOK(pays[p], node[p]) /\ node \in [Payments -> NodeStates]
      /\ node[p] = "trying" /\ UNCHANGED <<now, pays, pool, mined>>
      /\ node' = [node EXCEPT ![p] = "paid"]
  BY DEF RailsInv, NodePays
<1>2. Rail(p) = "l402" /\ pays[p].at \in Engaged
  BY <1>1 DEF NodeOK, Engaged, Rail
<1>3. ParsedOK(pays[p].challenge)
  BY <1>1, <1>2 DEF LocalOK, Engaged, Unparsed
<1>4. PICK amount : amount = InvoiceMsat(Raw(p).invoice) + fee
  OBVIOUS
<1>5. Covers(pays[p].challenge.price, [by |-> p, amount |-> amount, at |-> now])
  <2>1. CASE Raw(p).invoice.multiplier = "p"
    BY <1>2, <2>1 DEF Covers
  <2>2. CASE Raw(p).invoice.multiplier # "p"
    <3>1. PICK invoice : invoice = Raw(p).invoice
      OBVIOUS
    <3>2. /\ invoice.digits \in Nat \cup {None} /\ invoice.multiplier # "p"
          /\ InvoiceMsat(invoice) # None /\ pays[p].challenge.price = Sats(invoice)
      BY <1>2, <1>3, <2>2, <3>1 DEF ParsedOK, Rail, Raw, NodePays
    <3>3. InvoiceMsat(invoice) + fee < (Sats(invoice) + 1) * MsatPerSat + MaxFee
      BY <3>2, InvoiceIsCovered
    <3>4. amount < (pays[p].challenge.price + 1) * MsatPerSat + MaxFee
      BY <1>4, <3>1, <3>2, <3>3
    <3>5. QED BY <1>2, <3>4 DEF Covers
  <2>3. QED BY <2>1, <2>2
<1>6. Spend(p, amount)
  BY <1>4 DEF NodePays
<1>7. /\ node'[p] = "paid" /\ node' \in [Payments -> NodeStates]
      /\ \A q \in Payments : node[q] = "paid" => node'[q] = "paid"
  BY <1>1 DEF NodeStates
<1>8. SpentOK'
  BY <1>1, <1>2, <1>5, <1>6, <1>7, Spending DEF MppRails
<1>9. ASSUME NEW q \in Payments
      PROVE  NodeOK(pays[q], node[q])'
  BY <1>1, <1>7 DEF NodeOK, RailsInv, NodeStates
<1>10. ChainOK'
  <2>1. ASSUME NEW s \in spent', Rail(s.by)' = "mpp-tempo"
        PROVE  s \in spent
    BY <1>1, <1>2, <1>6, <2>1 DEF Spend, Rail
  <2>2. QED BY <1>1, <2>1 DEF RailsInv, ChainOK, OnItsWay, Rail
<1>11. QED BY <1>1, <1>7, <1>8, <1>9, <1>10, LocalsStay DEF RailsInv

LEMMA NodeGivesUpStep ==
  ASSUME RailsInv, NEW p \in Payments, NodeGivesUp(p)
  PROVE  RailsInv'
<1>1. /\ node \in [Payments -> NodeStates] /\ node[p] = "trying"
      /\ node' = [node EXCEPT ![p] = "gave_up"] /\ UNCHANGED <<pays, pool, mined, spent>>
  BY DEF RailsInv, NodeGivesUp
<1>2. /\ node' \in [Payments -> NodeStates]
      /\ \A q \in Payments : node[q] = "paid" => node'[q] = "paid"
  BY <1>1 DEF NodeStates
<1>3. ASSUME NEW q \in Payments
      PROVE  NodeOK(pays[q], node[q])'
  BY <1>1, <1>2 DEF NodeOK, RailsInv, NodeStates
<1>4. ChainOK'
  BY <1>1 DEF RailsInv, ChainOK, OnItsWay, Rail
<1>5. SpentOK'
  BY <1>1, <1>2, NothingSpent
<1>6. QED BY <1>1, <1>2, <1>3, <1>4, <1>5, LocalsStay DEF RailsInv

-----------------------------------------------------------------------------
(* What was signed for covers what is paid with it. *)
LEMMA SignedIsCovered ==
  ASSUME RailsInv, NEW p \in Payments, pays[p].at \in Delivered, Rail(p) # "l402"
  PROVE  Covers(pays[p].challenge.price,
                [by |-> p, amount |-> pays[p].signed.amount, at |-> now])
<1>1. ParsedOK(pays[p].challenge) /\ SignedOK(pays[p].challenge, pays[p].signed)
  BY DEF RailsInv, LocalOK, Delivered, HandedOut, Unparsed
<1>2. PICK price, amount : price = pays[p].challenge.price /\ amount = pays[p].signed.amount
  OBVIOUS
<1>3. CASE Rail(p) = "x402"
  <2>1. PICK body : body = Raw(p)
    OBVIOUS
  <2>2. PICK entry \in Signable(body) : amount = entry.amount
    BY <1>1, <1>2, <1>3, <2>1 DEF SignedOK, Rail, Raw
  <2>3. entry.amount \in Int
    BY <1>1, <1>3, <2>1, <2>2 DEF ParsedOK, Signable, Rail, Raw
  <2>4. price = ExactEntries(body)[1].amount
    BY <1>1, <1>2, <1>3, <2>1 DEF ParsedOK, Rail, Raw
  <2>5. QuotedEntryIsSigned(body) => amount <= price
    BY <2>2, <2>3, <2>4 DEF QuotedEntryIsSigned
  <2>6. QED BY <1>2, <1>3, <2>1, <2>5 DEF Covers
<1>4. CASE Rail(p) \in MppRails
  <2>1. amount = price /\ price \in Int
    BY <1>1, <1>2, <1>4 DEF ParsedOK, SignedOK, Rail
  <2>2. QED BY <1>2, <1>4, <2>1 DEF Covers, MppRails
<1>5. QED BY <1>1, <1>3, <1>4 DEF ParsedOK, Rails, MppRails, Rail

LEMMA CollectStep ==
  ASSUME RailsInv, NEW p \in Payments, Collect(p)
  PROVE  RailsInv'
<1>1. /\ UNCHANGED <<now, pays, node, pool, mined>>
      /\ Rail(p) \in {"x402", "mpp-spt"} /\ pays[p].at \in Delivered
      /\ Spend(p, pays[p].signed.amount) /\ now < pays[p].signed.deadline
  BY DEF Collect, Usable, Delivered
<1>2. SignedOK(pays[p].challenge, pays[p].signed)
  BY <1>1 DEF RailsInv, LocalOK, Delivered, HandedOut
<1>3. Rail(p) \in MppRails => now < pays[p].challenge.expires
  BY <1>1, <1>2 DEF SignedOK, Rail
<1>4. Covers(pays[p].challenge.price,
             [by |-> p, amount |-> pays[p].signed.amount, at |-> now])
  BY <1>1, SignedIsCovered
<1>5. SpentOK'
  BY <1>1, <1>3, <1>4, Spending
<1>6. ChainOK'
  <2>1. ASSUME NEW s \in spent', Rail(s.by)' = "mpp-tempo"
        PROVE  s \in spent
    BY <1>1, <2>1 DEF Spend, Rail
  <2>2. QED BY <1>1, <2>1 DEF RailsInv, ChainOK, OnItsWay, Rail
<1>7. QED BY <1>1, <1>5, <1>6, LocalsStay, NodesStay DEF RailsInv

LEMMA BroadcastStep ==
  ASSUME RailsInv, NEW p \in Payments, Broadcast(p) \/ Evict(p)
  PROVE  RailsInv'
<1>1. UNCHANGED <<pays, node, mined, spent>>
  BY DEF Broadcast, Evict
<1>2. Broadcast(p) => OnItsWay(p)
  BY DEF Broadcast, Usable, OnItsWay, Delivered
<1>3. IsFiniteSet(pool) /\ pool \subseteq Payments /\ \A q \in pool : OnItsWay(q)
  BY DEF RailsInv, ChainOK
<1>4. IsFiniteSet(pool \cup {p}) /\ IsFiniteSet(pool \ {p})
  BY <1>3, FS_AddElement, FS_RemoveElement
<1>5. IsFiniteSet(pool') /\ pool' \subseteq Payments /\ \A q \in pool' : OnItsWay(q)
  BY <1>2, <1>3, <1>4 DEF Broadcast, Evict
<1>6. ChainOK'
  BY <1>1, <1>5 DEF RailsInv, ChainOK, OnItsWay, Rail
<1>7. SpentOK'
  BY <1>1, NothingSpent
<1>8. QED BY <1>1, <1>6, <1>7, LocalsStay, NodesStay DEF RailsInv

LEMMA MineStep ==
  ASSUME RailsInv, NEW p \in Payments, Mine(p)
  PROVE  RailsInv'
<1>1. /\ UNCHANGED <<now, pays, node>> /\ p \in pool /\ pool' = pool \ {p}
      /\ pays[p].signed.nonce = mined /\ mined' = mined + 1
      /\ Spend(p, pays[p].signed.amount) /\ now < pays[p].signed.deadline
  BY DEF Mine
<1>2. pays[p].at \in Delivered /\ Rail(p) = "mpp-tempo"
  BY <1>1 DEF RailsInv, ChainOK, OnItsWay
<1>3. SignedOK(pays[p].challenge, pays[p].signed)
  BY <1>2 DEF RailsInv, LocalOK, Delivered, HandedOut
<1>4. now < pays[p].challenge.expires
  BY <1>1, <1>2, <1>3 DEF SignedOK, Rail, MppRails
<1>5. Covers(pays[p].challenge.price,
             [by |-> p, amount |-> pays[p].signed.amount, at |-> now])
  BY <1>2, SignedIsCovered
<1>6. SpentOK'
  BY <1>1, <1>2, <1>4, <1>5, Spending
<1>7. ChainOK'
  <2>1. /\ mined \in Nat /\ IsFiniteSet(pool) /\ pool \subseteq Payments
        /\ \A q \in pool : OnItsWay(q)
        /\ \A s \in spent : Rail(s.by) = "mpp-tempo" => pays[s.by].signed.nonce \in 0 .. mined - 1
    BY DEF RailsInv, ChainOK
  <2>2. IsFiniteSet(pool')
    BY <1>1, <2>1, FS_RemoveElement
  <2>3. \A q \in pool' : OnItsWay(q)'
    BY <1>1, <2>1 DEF OnItsWay, Rail
  <2>4. ASSUME NEW s \in spent', Rail(s.by)' = "mpp-tempo"
        PROVE  pays'[s.by].signed.nonce \in 0 .. mined' - 1
    <3>1. CASE s \in spent
      <4>1. pays[s.by].signed.nonce \in 0 .. mined - 1
        BY <1>1, <2>1, <2>4, <3>1 DEF Rail
      <4>2. QED BY <1>1, <2>1, <4>1
    <3>2. CASE s.by = p
      BY <1>1, <2>1, <3>2
    <3>3. QED BY <1>1, <3>1, <3>2 DEF Spend
  <2>5. QED BY <1>1, <2>1, <2>2, <2>3, <2>4 DEF ChainOK
<1>8. QED BY <1>1, <1>6, <1>7, LocalsStay, NodesStay DEF RailsInv
-----------------------------------------------------------------------------
LEMMA RailsInitially ==
  ASSUME RailsInit
  PROVE  RailsInv
<1>1. ASSUME NEW p \in Payments
      PROVE  LocalOK(pays[p]) /\ NodeOK(pays[p], node[p]) /\ Avoids(pays[p])
  <2>1. pays[p] = Idle /\ node[p] = "idle"
    BY DEF RailsInit
  <2>2. /\ DOMAIN Idle = Fields /\ Idle.at = "idle" /\ Idle.seen = {}
        /\ Idle.settlement = None
    BY DEF Idle, Fields
  <2>3. LocalOK(Idle)
    BY <2>2 DEF LocalOK, SettlementOK, Places, Unparsed, HandedOut, Delivered
  <2>4. NodeOK(Idle, "idle") /\ Avoids(Idle)
    BY <2>2 DEF NodeOK, NodeStates, Avoids
  <2>5. QED BY <2>1, <2>3, <2>4
<1>2. DOMAIN pays = Payments /\ node \in [Payments -> NodeStates]
  BY DEF RailsInit, NodeStates
<1>3. ChainOK
  BY FS_EmptySet DEF RailsInit, ChainOK
<1>4. SpentOK
  BY DEF RailsInit, SpentOK, FailuresCostNothing, PricesCoverSpending, SpendingEndsWithChallenge
<1>5. QED BY <1>1, <1>2, <1>3, <1>4 DEF RailsInv

(* Steps that go on to another place, and those that hand something out. *)
LEMMA SimpleSteps ==
  ASSUME RailsInv, NEW p \in Payments,
         \/ PayUnfunded(p) \/ PayFails(p) \/ Cancel(p) \/ Retry(p)
         \/ PreimageMismatch(p) \/ InvoiceFails(p) \/ StreamEnds(p)
  PROVE  RailsInv'
<1>1. PICK place : Goto(p, place) /\ Leads(p, place) /\ UNCHANGED <<node, pool, mined, spent>>
  <2>1. CASE PayUnfunded(p) \/ PayFails(p)
    <3>1. Goto(p, "failed") /\ Leads(p, "failed") /\ UNCHANGED <<node, pool, mined, spent>>
      BY <2>1 DEF PayUnfunded, PayFails, Leads, At
    <3>2. QED BY <3>1
  <2>2. CASE Cancel(p)
    <3>1. Goto(p, "cancelled") /\ Leads(p, "cancelled") /\ UNCHANGED <<node, pool, mined, spent>>
      BY <2>2 DEF Cancel, Leads, At
    <3>2. QED BY <3>1
  <2>3. CASE Retry(p)
    <3>1. Goto(p, "sent") /\ Leads(p, "sent") /\ UNCHANGED <<node, pool, mined, spent>>
      BY <2>3 DEF Retry, Leads, At
    <3>2. QED BY <3>1
  <2>4. CASE PreimageMismatch(p)
    <3>1. /\ Goto(p, "post_commit") /\ Leads(p, "post_commit")
          /\ UNCHANGED <<node, pool, mined, spent>>
      BY <2>4 DEF PreimageMismatch, Leads, At
    <3>2. QED BY <3>1
  <2>5. CASE InvoiceFails(p)
    <3>1. Goto(p, "failed") /\ Leads(p, "failed") /\ UNCHANGED <<node, pool, mined, spent>>
      BY <2>5 DEF InvoiceFails, Leads, At
    <3>2. QED BY <3>1
  <2>6. CASE StreamEnds(p)
    <3>1. Goto(p, "no_verdict") /\ Leads(p, "no_verdict") /\ UNCHANGED <<node, pool, mined, spent>>
      BY <2>6 DEF StreamEnds, Leads, At
    <3>2. QED BY <3>1
  <2>7. QED BY <2>1, <2>2, <2>3, <2>4, <2>5, <2>6
<1>2. QED BY <1>1, PlaceStep

LEMMA SigningSteps ==
  ASSUME RailsInv, NEW p \in Payments,
         InvoicePaid(p) \/ SignX402(p) \/ SignTempo(p) \/ CreateToken(p)
  PROVE  RailsInv'
<1>1. LocalOK(pays[p]) /\ NodeOK(pays[p], node[p])
  BY DEF RailsInv
<1>2. CASE InvoicePaid(p)
  <2>1. PICK signed : signed = Signed(pays[p].challenge.price, None, None)
    OBVIOUS
  <2>2. /\ HandsOut(p, signed) /\ pays[p].at = "sending" /\ node[p] = "paid"
        /\ UNCHANGED <<node, pool, mined, spent>>
    BY <1>2, <2>1 DEF InvoicePaid, At
  <2>3. Rail(p) = "l402"
    BY <1>1, <2>2 DEF NodeOK, Rail
  <2>4. SignedOK(pays[p].challenge, signed)
    BY <2>3 DEF SignedOK, Rail, MppRails
  <2>5. QED BY <2>2, <2>3, <2>4, HandingOut
<1>3. CASE SignX402(p)
  <2>1. /\ pays[p].at = "parsed" /\ Rail(p) = "x402"
        /\ UNCHANGED <<node, pool, mined, spent>>
    BY <1>3 DEF SignX402, Paying, At
  <2>2. PICK entry \in Signable(Raw(p)) :
          HandsOut(p, Signed(entry.amount, now + entry.timeout, None))
    BY <1>3 DEF SignX402
  <2>3. PICK signed : signed = Signed(entry.amount, now + entry.timeout, None)
    OBVIOUS
  <2>4. SignedOK(pays[p].challenge, signed)
    BY <2>1, <2>2, <2>3 DEF SignedOK, Signed, Rail, Raw, MppRails
  <2>5. node[p] # "trying"
    BY <1>1, <2>1 DEF NodeOK
  <2>6. QED BY <2>1, <2>2, <2>3, <2>4, <2>5, HandingOut
<1>4. CASE SignTempo(p)
  <2>1. PICK signed :
          signed = Signed(pays[p].challenge.price, ValidBefore(p), pays[p].signed.nonce)
    OBVIOUS
  <2>2. /\ HandsOut(p, signed) /\ pays[p].at = "signing"
        /\ UNCHANGED <<node, pool, mined, spent>>
    BY <1>4, <2>1 DEF SignTempo, At
  <2>3. Rail(p) = "mpp-tempo" /\ node[p] # "trying"
    BY <1>1, <2>2 DEF LocalOK, NodeOK, Rail
  <2>4. SignedOK(pays[p].challenge, signed) /\ signed.nonce = pays[p].signed.nonce
    BY <2>1, <2>3 DEF SignedOK, Signed, ValidBefore, Rail
  <2>5. QED BY <2>2, <2>3, <2>4, HandingOut
<1>5. CASE CreateToken(p)
  <2>1. PICK signed : signed = Signed(pays[p].challenge.price, ValidBefore(p), None)
    OBVIOUS
  <2>2. /\ HandsOut(p, signed) /\ pays[p].at = "parsed" /\ Rail(p) = "mpp-spt"
        /\ UNCHANGED <<node, pool, mined, spent>>
    BY <1>5, <2>1 DEF CreateToken, Paying, At
  <2>3. SignedOK(pays[p].challenge, signed)
    BY <2>1, <2>2 DEF SignedOK, Signed, ValidBefore, Rail
  <2>4. node[p] # "trying"
    BY <1>1, <2>2 DEF NodeOK
  <2>5. QED BY <2>2, <2>3, <2>4, HandingOut
<1>6. QED BY <1>2, <1>3, <1>4, <1>5

LEMMA RailsStep ==
  ASSUME RailsInv, [RailsNext]_vars
  PROVE  RailsInv'
<1>1. CASE UNCHANGED vars \/ Tick
  <2>1. UNCHANGED <<pays, node, pool, mined, spent>>
    BY <1>1 DEF vars, Tick
  <2>2. ChainOK'
    BY <2>1 DEF RailsInv, ChainOK, OnItsWay, Rail
  <2>3. SpentOK'
    BY <2>1, NothingSpent
  <2>4. QED BY <2>1, <2>2, <2>3, LocalsStay, NodesStay DEF RailsInv
<1>2. ASSUME NEW p \in Payments, NEW response \in Responses, NEW rail \in Rails,
             Receive(p, response, rail)
      PROVE  RailsInv'
  BY <1>2, ReceiveStep
<1>3. ASSUME NEW p \in Payments, NEW fee \in {0, MaxFee}, NodePays(p, fee)
      PROVE  RailsInv'
  BY <1>3, NodePaysStep
<1>4. ASSUME NEW p \in Payments, NEW ok \in BOOLEAN, NEW receipt \in Receipts,
             Confirm(p, ok, receipt)
      PROVE  RailsInv'
  BY <1>4, ConfirmStep
<1>5. ASSUME NEW p \in Payments,
             \/ PayUnfunded(p) \/ PayFails(p) \/ Cancel(p) \/ Retry(p)
             \/ PreimageMismatch(p) \/ InvoiceFails(p) \/ StreamEnds(p)
      PROVE  RailsInv'
  BY <1>5, SimpleSteps
<1>6. ASSUME NEW p \in Payments,
             InvoicePaid(p) \/ SignX402(p) \/ SignTempo(p) \/ CreateToken(p)
      PROVE  RailsInv'
  BY <1>6, SigningSteps
<1>7. ASSUME NEW p \in Payments,
             \/ SendInvoice(p) \/ NodeGivesUp(p) \/ FetchNonce(p)
             \/ Collect(p) \/ Broadcast(p) \/ Mine(p) \/ Evict(p)
      PROVE  RailsInv'
  BY <1>7, SendInvoiceStep, NodeGivesUpStep, FetchStep, CollectStep, BroadcastStep, MineStep
<1>8. QED BY <1>1, <1>2, <1>3, <1>4, <1>5, <1>6, <1>7 DEF RailsNext

THEOREM RailsInvariant == RailsSpec => []RailsInv
<1>1. RailsInv /\ UNCHANGED vars => RailsInv'
  BY RailsStep
<1>2. QED BY RailsInitially, RailsStep, PTL DEF RailsSpec

-----------------------------------------------------------------------------
(***************************************************************************)
(* Money that leaves a wallet is covered by the price that the draw and    *)
(* the policy went by, up to the node's fee and a part of a satoshi (parse *)
(* and pay of each adapter), but for pico invoices and x402 entries other  *)
(* than the first.                                                         *)
(***************************************************************************)
THEOREM PricesCover == RailsSpec => []PricesCoverSpending
<1>1. RailsInv => PricesCoverSpending
  BY DEF RailsInv, SpentOK
<1>2. QED BY <1>1, RailsInvariant, PTL

(***************************************************************************)
(* An attempt that failed costs nothing, then or later: what the rollback  *)
(* of a failed payment relies on (except clauses of pay).                  *)
(***************************************************************************)
THEOREM FailuresAreFree == RailsSpec => []FailuresCostNothing
<1>1. RailsInv => FailuresCostNothing
  BY DEF RailsInv, SpentOK
<1>2. QED BY <1>1, RailsInvariant, PTL

(***************************************************************************)
(* A transaction or a token that an MPP server keeps costs nothing once    *)
(* the challenge it answers has expired (valid_before, expires_at).        *)
(***************************************************************************)
THEOREM SpendingEnds == RailsSpec => []SpendingEndsWithChallenge
<1>1. RailsInv => SpendingEndsWithChallenge
  BY DEF RailsInv, SpentOK
<1>2. QED BY <1>1, RailsInvariant, PTL

(***************************************************************************)
(* A nonce that was taken on the chain when an attempt read its own is not *)
(* signed for again (eth_getTransactionCount of "pending").                *)
(***************************************************************************)
THEOREM NoncesAreSkipped == RailsSpec => []TakenNoncesAreSkipped
<1>1. ASSUME RailsInv
      PROVE  TakenNoncesAreSkipped
  <2>1. ASSUME NEW p \in Payments
        PROVE  pays[p].signed.nonce \notin Nonces(pays[p].seen \cap OnChain)
    <3>1. \A q \in pays[p].seen : pays[q].signed.nonce # pays[p].signed.nonce
      BY <1>1 DEF RailsInv, Avoids
    <3>2. QED BY <3>1 DEF Nonces
  <2>2. QED BY <2>1 DEF TakenNoncesAreSkipped
<1>2. QED BY <1>1, RailsInvariant, PTL

(***************************************************************************)
(* No receipt settles a payment but one that names the payment's own       *)
(* challenge, and without a receipt the settlement records what was signed *)
(* for it (confirm_mpp_receipt, _mpp_http.py).                             *)
(***************************************************************************)
THEOREM ReceiptsSettleOwn == RailsSpec => []ReceiptsSettleTheirChallenge
<1>1. ASSUME RailsInv
      PROVE  ReceiptsSettleTheirChallenge
  <2>1. \A p \in Payments : SettlementOK(pays[p])
    BY <1>1 DEF RailsInv, LocalOK
  <2>2. QED BY <2>1 DEF ReceiptsSettleTheirChallenge, SettlementOK, Proof, ProofOf, Rail
<1>2. QED BY <1>1, RailsInvariant, PTL
=============================================================================
