----------------------------- MODULE MCRouting -----------------------------
(***************************************************************************)
(* Instances of Routing for TLC: three rails, two rules, and prices in     *)
(* dollars and euros, in stablecoins, in satoshis and in an asset that the *)
(* registry does not know.                                                 *)
(***************************************************************************)
EXTENDS Routing

(* One major unit is ten minor units here, except that the yen has none. *)
MCMinorPerMajor == [cur \in {"usd", "eur", "jpy"} |-> IF cur = "jpy" THEN 1 ELSE 10]

MCOfflineRates ==
  [pair \in {<<"usd", "eur">>, <<"eur", "usd">>, <<"usd", "jpy">>, <<"jpy", "usd">>} |->
     CASE pair = <<"usd", "eur">> -> 92
       [] pair = <<"eur", "usd">> -> 109
       [] pair = <<"usd", "jpy">> -> 15350
       [] pair = <<"jpy", "usd">> -> 1]

(* The snapshot of a store: a live cross rate, and that of the satoshi. *)
MCSnapshot ==
  [pair \in {<<"usd", "eur">>, <<"sats", "usd">>} |->
     IF pair = <<"usd", "eur">> THEN 95 ELSE 7]

MCAdapters == <<"x402", "l402", "spt">>

(* The first rule denies; the second prefers a rail. *)
MCRules == <<[deny |-> TRUE, prefer |-> {}], [deny |-> FALSE, prefer |-> {"l402"}]>>

Amounts == {1, 3, 5, 9, 10, 19, 25, 30}

FiatPrices == [kind : {"fiat"}, currency : {"usd", "eur"}, amount : Amounts]

YenPrices == [kind : {"fiat"}, currency : {"usd", "jpy"}, amount : Amounts]

StablePrices == [kind : {"stable"}, currency : {"usd", "eur"}, amount : Amounts]

OtherPrices == [kind : {"sats", "other"}, currency : {"btc"}, amount : Amounts]

Offer(fault, matches, price) == [fault |-> fault, matches |-> matches, price |-> price]

Dollars(kind, amount) == [kind |-> kind, currency |-> "usd", amount |-> amount]

Unknown == [kind |-> "other", currency |-> "btc", amount |-> 1]

(***************************************************************************)
(* What a rail may offer when the rails compete: a low price, a higher one *)
(* under a rule that may prefer the rail, one that cannot be converted,    *)
(* and a challenge that a rule denies.                                     *)
(***************************************************************************)
Competing ==
  {Offer("none", {}, Dollars("fiat", 1)),
   Offer("none", {2}, Dollars("stable", 20)),
   Offer("none", {}, Unknown),
   Offer("none", {1, 2}, Dollars("fiat", 1))}

MCRails == {"x402", "l402", "spt"}

(* One rail alone quotes every price there is. *)
Alone(prices) ==
  {[rail \in MCRails |-> IF rail = "spt" THEN Offer("none", {}, price)
                         ELSE Offer(IF rail = "x402" THEN "funding" ELSE "parse", {}, price)] : price \in prices}

(* The first request meets every offer, the second makes rails sticky. *)
MCOffers ==
  [r \in {"rq1", "rq2"} |->
     IF r = "rq1"
     THEN [MCRails -> Competing] \cup Alone(FiatPrices \cup StablePrices \cup OtherPrices)
     ELSE {[rail \in MCRails |-> Offer("none", {2}, Dollars("fiat", 1))]}]

MCYenOffers == [r \in {"rq1"} |-> Alone(YenPrices)]
=============================================================================
