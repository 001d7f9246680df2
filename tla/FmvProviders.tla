---------------------------- MODULE FmvProviders ----------------------------
(***************************************************************************)
(* The two sources of rates of a BudgetStore: CoinGeckoProvider            *)
(* (budgets/fmv_provider.py), which keeps the rate of the satoshi for a    *)
(* fixed time, and LiveEcbProvider (budgets/ecb_provider.py), which keeps  *)
(* the table of a day.  Both look at their cache, await the server, and    *)
(* then overwrite the cache, so that calls may overtake each other.        *)
(*                                                                         *)
(* A rate is abstracted to the time at which the server quoted it; the     *)
(* envelope has one currency.                                              *)
(***************************************************************************)
EXTENDS Naturals

CONSTANTS
  None,
  Users,       \* the tasks that call a provider, each one call at a time
  Crosses,     \* the legs whose rates an ECB table may hold
  CacheTtl,    \* cache_ttl_seconds
  DayLength,   \* of a calendar day (UTC)
  MaxLatency,  \* how long a request may take, as its timeouts see to
  MaxTime      \* bound on the clock

ASSUME TimesAssumption ==
  /\ CacheTtl \in Nat /\ MaxLatency \in Nat
  /\ DayLength \in Nat \ {0} /\ MaxTime \in Nat \ {0}

ASSUME NoneAssumption ==
  /\ None \notin Nat
  /\ None \notin [rate : Nat, expires : Nat]
  /\ None \notin [day : Nat, rate : Nat, listed : SUBSET Crosses]

VARIABLES
  clock,     \* time, and the latest quote of the markets
  btcCache,  \* CoinGeckoProvider._cache: a rate and the time it expires
  ecbCache,  \* LiveEcbProvider._cache: a day, and the table it stands for
  asked      \* when each user's request went out, None if there is none

providerVars == <<clock, btcCache, ecbCache, asked>>

Today == clock \div DayLength

ProvidersInit ==
  /\ clock = 1
  /\ btcCache = None
  /\ ecbCache = None
  /\ asked = [u \in Users |-> None]

(* Time passes, but not beyond the timeout of a request. *)
Tick ==
  /\ clock < MaxTime
  /\ \A u \in Users : asked[u] # None => clock < asked[u] + MaxLatency
  /\ clock' = clock + 1
  /\ UNCHANGED <<btcCache, ecbCache, asked>>

(* The server answers with a rate it has quoted since the request went out. *)
QuotedFor(u, rate) ==
  /\ asked[u] # None
  /\ rate \in asked[u] .. clock

(* A request goes out, or comes to its end. *)
Asks(u) == asked[u] = None /\ asked' = [asked EXCEPT ![u] = clock]

Answered(u) == asked' = [asked EXCEPT ![u] = None]

(* The request fails, by its timeout, its status or its content. *)
RequestFails(u) ==
  /\ asked[u] # None
  /\ Answered(u)
  /\ UNCHANGED <<clock, btcCache, ecbCache>>

-----------------------------------------------------------------------------
(***************************************************************************)
(* CoinGeckoProvider.fetch_btc_to.                                         *)
(***************************************************************************)
BtcCached == btcCache # None /\ clock < btcCache.expires

BtcHits(u, rate) ==
  /\ asked[u] = None
  /\ BtcCached
  /\ rate = btcCache.rate
  /\ UNCHANGED providerVars

BtcAsks(u) ==
  /\ ~BtcCached
  /\ Asks(u)
  /\ UNCHANGED <<clock, btcCache, ecbCache>>

BtcAnswers(u, rate) ==
  /\ QuotedFor(u, rate)
  /\ btcCache' = [rate |-> rate, expires |-> clock + CacheTtl]
  /\ Answered(u)
  /\ UNCHANGED <<clock, ecbCache>>

-----------------------------------------------------------------------------
(***************************************************************************)
(* LiveEcbProvider.fetch_rate for one leg.  A table is cached whole, under *)
(* the day read before the request went out; a leg that it does not list   *)
(* stays unavailable for as long as the table is cached.                   *)
(***************************************************************************)
EcbCached == ecbCache # None /\ ecbCache.day = Today

EcbHits(u) ==
  /\ asked[u] = None
  /\ EcbCached
  /\ UNCHANGED providerVars

EcbAsks(u) ==
  /\ ~EcbCached
  /\ Asks(u)
  /\ UNCHANGED <<clock, btcCache, ecbCache>>

(* Mutation: the table is cached under the day on which it arrived. *)
EcbAnswersStampedLate(u, rate, listed) ==
  /\ QuotedFor(u, rate)
  /\ ecbCache' = [day |-> Today, rate |-> rate, listed |-> listed]
  /\ Answered(u)
  /\ UNCHANGED <<clock, btcCache>>

EcbAnswers(u, rate, listed) ==
  /\ QuotedFor(u, rate)
  /\ ecbCache' = [day |-> asked[u] \div DayLength, rate |-> rate, listed |-> listed]
  /\ Answered(u)
  /\ UNCHANGED <<clock, btcCache>>

(* The rate of a leg is returned from the cache or from a new table. *)
EcbServes(u, leg, rate) ==
  \/ EcbHits(u) /\ leg \in ecbCache.listed /\ rate = ecbCache.rate
  \/ \E listed \in SUBSET Crosses : leg \in listed /\ EcbAnswers(u, rate, listed)

(* FmvUnavailableError: no table can be had, or it does not list the leg. *)
EcbUnavailable(u, leg) ==
  \/ RequestFails(u)
  \/ EcbHits(u) /\ leg \notin ecbCache.listed
  \/ \E rate \in 0 .. MaxTime, listed \in SUBSET Crosses :
        leg \notin listed /\ EcbAnswers(u, rate, listed)
=============================================================================
