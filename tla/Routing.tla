------------------------------ MODULE Routing ------------------------------
(***************************************************************************)
(* The choice of rails: Router.decide (routing/router.py) with the first   *)
(* rule of the policy that matches (policy/engine.py), the conversion of   *)
(* prices, and the StickyCache (routing/sticky.py), used by concurrent     *)
(* requests of one sticky key (_auth.py).  Between two awaits a flow looks *)
(* up the cache and decides, so that is one action; so are eviction,       *)
(* lookup and the decision of the next attempt after a failed payment.     *)
(***************************************************************************)
EXTENDS FmvConversion, FiniteSets, Sequences, SequencesExt

CONSTANTS
  Requests,     \* requests that share a sticky key
  Adapters,     \* the rails, in the order in which adapters are registered
  Rules,        \* the policy's rules: what they deny and which rails they prefer
  DefaultRail,  \* the policy's default_rail
  Offers,       \* the 402 responses the server may give to each request
  Lifetimes,    \* for how long a challenge may be valid
  References,   \* reference currencies a client may have, None for none
  Snapshot,     \* the FMV snapshot that was loaded for the request
  StickyTtl,    \* StickyCache's ttl
  MaxTime       \* bound on the clock

Rails == ToSet(Adapters)

ASSUME AdaptersAssumption ==
  /\ Adapters \in Seq(Rails) /\ IsInjective(Adapters)
  /\ None \notin Rails /\ None \notin [rail : Rails, at : Nat, expires : Nat]
ASSUME TimesAssumption == /\ Lifetimes \subseteq Nat
                          /\ StickyTtl \in Nat /\ MaxTime \in Nat

(* A currency is worth itself (capture_fmv_snapshot). *)
ASSUME SnapshotAssumption ==
  \A pair \in DOMAIN Snapshot : /\ Snapshot[pair] \in Nat
                                /\ pair[1] = pair[2] => Snapshot[pair] = RateScale
ASSUME ReferencesAssumption == References \subseteq DOMAIN MinorPerMajor \cup {None}

(* The rules that match are numbered; no server is paid a negative price. *)
ASSUME OffersAssumption ==
  \A r \in Requests : \A o \in Offers[r] : \A rail \in Rails :
    /\ o[rail].matches \subseteq Nat
    /\ o[rail].price.kind \in Kinds /\ o[rail].price.amount \in Nat

VARIABLES
  now,        \* datetime.now(UTC)
  reference,  \* RouteweilerAuth._reference_currency
  sticky,     \* the entry of the key in the cache, None without one
  request,    \* the flow of each request
  won         \* history: the payment that was remembered last, and when

vars == <<now, reference, sticky, request, won>>

Ends == {"new", "done", "refused", "abandoned"}

-----------------------------------------------------------------------------
(***************************************************************************)
(* PolicyEngine.evaluate.  The offer of a rail says what the adapter finds *)
(* in the response (fault), which rules match the challenge, and its       *)
(* price.  The first rule that matches decides.                            *)
(***************************************************************************)
NoRule == [deny |-> FALSE, prefer |-> {}]

Decision(offer) ==
  IF offer.matches = {} THEN NoRule
  ELSE Rules[CHOOSE i \in offer.matches : \A j \in offer.matches : i <= j]

(* Mutation: the first denial ends the filtering. *)
FeasibleUnlessDenied(o, excluded) ==
  IF \E rail \in Rails \ excluded : o[rail].fault = "none" /\ Decision(o[rail]).deny THEN {}
  ELSE {rail \in Rails \ excluded : o[rail].fault = "none"}

(***************************************************************************)
(* The filters of Router.decide: the adapter handles the response, its     *)
(* rail is not excluded, the challenge parses, the policy does not deny    *)
(* it, and some funding source matches it.                                 *)
(***************************************************************************)
Feasible(o, excluded) ==
  {rail \in Rails \ excluded : o[rail].fault = "none" /\ ~ Decision(o[rail]).deny}

(* _fmv_quote. *)
Quote(price) ==
  IF reference = None THEN 0 ELSE EnvelopeAmount(price, reference, Snapshot)

Preferred(o, rail) == rail \in Decision(o[rail]).prefer

Position(rail) == CHOOSE i \in DOMAIN Adapters : Adapters[i] = rail

Penalty(condition) == IF condition THEN 1 ELSE 0

(* Mutation: the preference is compared before the cost. *)
RankPreferenceFirst(o, rail) ==
  LET quote == Quote(o[rail].price)
  IN <<Penalty(~ Preferred(o, rail)), Penalty(quote = None),
       IF quote = None THEN 0 ELSE quote,
       Penalty(rail # DefaultRail), Position(rail)>>

(* The sort key of _select_winner; a missing quote is an infinite cost. *)
Rank(o, rail) ==
  LET quote == Quote(o[rail].price)
  IN <<Penalty(quote = None), IF quote = None THEN 0 ELSE quote,
       Penalty(~ Preferred(o, rail)), Penalty(rail # DefaultRail), Position(rail)>>

Precedes(k, l) ==
  \E i \in DOMAIN k : k[i] < l[i] /\ \A j \in 1 .. i - 1 : k[j] = l[j]

(* _select_winner. *)
Winner(o, feasible, stuck) ==
  IF stuck \in feasible THEN stuck
  ELSE CHOOSE rail \in feasible :
         \A other \in feasible \ {rail} : Precedes(Rank(o, rail), Rank(o, other))

-----------------------------------------------------------------------------
(* Mutation: the cache does not look at the expiry of its entry. *)
LookupAnyAge == IF sticky = None THEN None ELSE sticky.rail

(* StickyCache.lookup, which drops an entry that has expired. *)
Lookup == IF sticky # None /\ now < sticky.expires THEN sticky.rail ELSE None

(* The locals of a flow before its 402 and after its end. *)
Without(place) == [pc |-> place, offers |-> None, expires |-> 0, tried |-> <<>>]

Init ==
  /\ now = 0
  /\ reference \in References
  /\ sticky = None
  /\ request = [r \in Requests |-> Without("new")]
  /\ won = None

Excluded(local) == {local.tried[i].rail : i \in DOMAIN local.tried}

(* Mutation: nobody asks whether a candidate is left. *)
DecidedUnchecked(local, stuck) ==
  LET feasible == Feasible(local.offers, Excluded(local))
      rail == IF feasible = {} THEN None ELSE Winner(local.offers, feasible, stuck)
  IN [local EXCEPT !.pc = "paying",
                   !.tried = Append(@, [rail |-> rail, sticky |-> rail = stuck])]

(* Router.decide: the next attempt of a flow, or its end. *)
Decided(local, stuck) ==
  LET feasible == Feasible(local.offers, Excluded(local))
      rail == Winner(local.offers, feasible, stuck)
  IN IF feasible = {} THEN [local EXCEPT !.pc = "refused"]
     ELSE [local EXCEPT !.pc = "paying",
                        !.tried = Append(@, [rail |-> rail, sticky |-> rail = stuck])]

(* A request is answered with 402 and routed for the first time. *)
Receive(r, o, lifetime) ==
  /\ request[r].pc = "new"
  /\ request' = [request EXCEPT ![r] =
                   Decided([@ EXCEPT !.offers = o, !.expires = now + lifetime], Lookup)]
  /\ sticky' = IF Lookup = None THEN None ELSE sticky
  /\ UNCHANGED <<now, reference, won>>

(* Mutation: the failed rail is not evicted. *)
PayFailsUnforgotten(r) ==
  /\ request[r].pc = "paying"
  /\ request' = [request EXCEPT ![r] = Decided(@, Lookup)]
  /\ sticky' = IF Lookup = None THEN None ELSE sticky
  /\ UNCHANGED <<now, reference, won>>

(***************************************************************************)
(* A payment fails: once the draw has been rolled back, the key's entry is *)
(* forgotten, whichever rail it holds, and the next attempt is routed.     *)
(***************************************************************************)
PayFails(r) ==
  /\ request[r].pc = "paying"
  /\ request' = [request EXCEPT ![r] = Decided(@, None)]
  /\ sticky' = None
  /\ UNCHANGED <<now, reference, won>>

(* The payment fails after the wire commit: its entry is forgotten, too. *)
PayFailsPostCommit(r) ==
  /\ request[r].pc = "paying"
  /\ request' = [request EXCEPT ![r] = Without("abandoned")]
  /\ sticky' = None
  /\ UNCHANGED <<now, reference, won>>

(* The gate or the draw refuses the payment, or the request is cancelled. *)
Abandon(r) ==
  /\ request[r].pc = "paying"
  /\ request' = [request EXCEPT ![r] = Without("abandoned")]
  /\ UNCHANGED <<now, reference, sticky, won>>

(* StickyCache.remember, when the payment was made and its draw confirmed. *)
Remember(r) ==
  LET local == request[r]
      rail == Last(local.tried).rail
  IN /\ local.pc = "paying"
     /\ request' = [request EXCEPT ![r] = Without("done")]
     /\ sticky' = [rail |-> rail,
                   expires |-> IF local.expires < now + StickyTtl THEN local.expires
                               ELSE now + StickyTtl]
     /\ won' = [rail |-> rail, at |-> now, expires |-> local.expires]
     /\ UNCHANGED <<now, reference>>

Tick ==
  /\ now < MaxTime
  /\ now' = now + 1
  /\ UNCHANGED <<reference, sticky, request, won>>

Next ==
  \/ \E r \in Requests :
       \/ \E o \in Offers[r], lifetime \in Lifetimes : Receive(r, o, lifetime)
       \/ PayFails(r) \/ PayFailsPostCommit(r) \/ Abandon(r) \/ Remember(r)
  \/ Tick

Spec == Init /\ [][Next]_vars

-----------------------------------------------------------------------------
(***************************************************************************)
(* Type invariant: the clock, the cache and the flows have their types.    *)
(***************************************************************************)
Attempt == [rail : Rails, sticky : BOOLEAN]

TypeOK ==
  /\ now \in Nat /\ reference \in References
  /\ sticky \in [rail : Rails, expires : Nat] \cup {None}
  /\ \A r \in Requests :
       /\ request[r].pc \in Ends \cup {"paying"}
       /\ request[r].offers \in Offers[r] \cup {None}
       /\ request[r].expires \in Nat
       /\ request[r].tried \in Seq(Attempt)
  /\ won \in [rail : Rails, at : Nat, expires : Nat] \cup {None}

(***************************************************************************)
(* Failover goes down the documented order: a rail that is tried later was *)
(* not cheaper, and at the same cost not preferred over the earlier one;   *)
(* a rail without a quote comes last; no rail is tried twice (_select_     *)
(* winner, over the successive decisions of one request).                  *)
(***************************************************************************)
FailoverFollowsRank ==
  \A r \in Requests :
    LET tried == request[r].tried
        o == request[r].offers
        Cost(i) == Quote(o[tried[i].rail].price)
    IN \A i, j \in DOMAIN tried : i < j =>
         /\ tried[i].rail # tried[j].rail
         /\ ~ tried[i].sticky /\ Cost(j) # None =>
              /\ Cost(i) # None /\ Cost(i) <= Cost(j)
              /\ Cost(i) = Cost(j) /\ Preferred(o, tried[j].rail) => Preferred(o, tried[i].rail)

(***************************************************************************)
(* A request is refused only when each rail that the policy and the        *)
(* funding allow has been tried: one rail's denial, parse error or failure *)
(* never takes another one with it.                                        *)
(***************************************************************************)
RefusedHavingTriedAll ==
  \A r \in Requests : request[r].pc = "refused" =>
    \A rail \in Rails :
      LET offer == request[r].offers[rail]
      IN \/ offer.fault # "none"
         \/ Decision(offer).deny
         \/ rail \in Excluded(request[r])

(***************************************************************************)
(* A request is routed by stickiness only to the rail of the latest        *)
(* payment on this key, within the cache's ttl and the validity of that    *)
(* payment's challenge, however other requests remember and forget in      *)
(* between (remember, lookup).                                             *)
(***************************************************************************)
StickyRailsHavePaid ==
  [][\A r \in Requests :
       LET tried == request'[r].tried
       IN Len(tried) > Len(request[r].tried) /\ Last(tried).sticky =>
            /\ won # None
            /\ Last(tried).rail = won.rail
            /\ now < won.at + StickyTtl
            /\ now < won.expires]_vars

(***************************************************************************)
(* Once a payment has failed, the request is routed by the ranking alone,  *)
(* although other requests may make a rail sticky meanwhile: the eviction  *)
(* and the next lookup are not interleaved (the except clause in _auth.py).*)
(***************************************************************************)
StickinessEndsWithFailure ==
  \A r \in Requests : \A i \in DOMAIN request[r].tried :
    request[r].tried[i].sticky => i = 1

(* The prices of the rails that a request has tried. *)
TriedPrices(r) ==
  {request[r].offers[rail].price : rail \in Excluded(request[r])}

(***************************************************************************)
(* A quote covers the worth of the price and exceeds it by the buffer and  *)
(* one unit at the most, so the cap is neither bypassed nor eaten up       *)
(* (amount_to_envelope_minor_units).                                       *)
(***************************************************************************)
QuotesCoverPrices ==
  \A r \in Requests : \A price \in TriedPrices(r) :
    reference # None /\ Quote(price) # None =>
      LET n == Numerator(price, reference, Snapshot)
          d == Denominator(price)
      IN n <= Quote(price) * d /\ 100 * Quote(price) * d < 105 * n + 100 * d

(***************************************************************************)
(* What the trace reports of a payment is never more than was drawn for    *)
(* it, and is only reported where there was a draw (fmv_for_trace, which   *)
(* repeats the case analysis of amount_to_envelope_minor_units).           *)
(***************************************************************************)
TracesStayWithinQuotes ==
  \A r \in Requests : \A price \in TriedPrices(r) :
    reference # None /\ TraceAmount(price, reference, Snapshot) # None =>
      /\ Quote(price) # None
      /\ TraceAmount(price, reference, Snapshot) <= Quote(price)
=============================================================================
