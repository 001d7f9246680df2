---------------------------- MODULE FmvSnapshot ----------------------------
(***************************************************************************)
(* The FMV snapshot of one envelope (budgets/local.py): its capture when   *)
(* the envelope is created, and the two background tasks of BudgetStore    *)
(* that refresh it, one for the rate of the satoshi, the other for the     *)
(* cross rates of the fiat currencies.  Each reads the snapshot, awaits    *)
(* its provider, and upserts a whole new row.  Other tasks of the store,   *)
(* which create or refresh other envelopes, share the providers.           *)
(*                                                                         *)
(* Rates are the times of their quotes, as in FmvProviders; 0 is the       *)
(* constant of the offline table.                                          *)
(***************************************************************************)
EXTENDS FmvProviders, Functions

CONSTANTS
  Sats,            \* the leg sats->currency
  Tabled,          \* the cross legs that the offline table knows
  Configurations,  \* the sets of providers a store may be given
  BtcOthers,       \* other tasks of the store that ask for the satoshi
  EcbOthers        \* other tasks of the store that ask for cross rates

ASSUME LegsAssumption == Sats \notin Crosses /\ Tabled \subseteq Crosses
ASSUME ConfigurationsAssumption == Configurations \subseteq SUBSET {"btc", "ecb"}
ASSUME UsersAssumption == {"creation", "btc", "ecb"} \cup BtcOthers \cup EcbOthers \subseteq Users

VARIABLES
  providers,  \* the providers the store was given
  rates,      \* rates_json, a function from the legs in the snapshot
  creation,   \* where create_envelope has got to, and its locals
  btc,        \* where _refresh_sats_leg has got to, and its locals
  ecb         \* where _refresh_ecb_legs has got to, and its locals

snapshotVars == <<providers, rates, creation, btc, ecb>>

vars == <<providerVars, snapshotVars>>

Legs == {Sats} \cup Crosses

NoRates == [leg \in {} |-> 0]

Rates == UNION {[S -> 0 .. MaxTime] : S \in SUBSET Legs}

(* The rates of two dictionaries, of which the first counts. *)
Merged(first, second) ==
  [leg \in DOMAIN first \cup DOMAIN second |->
     IF leg \in DOMAIN first THEN first[leg] ELSE second[leg]]

WithLeg(some, leg, rate) == Merged([l \in {leg} |-> rate], some)

(* capture_fmv_snapshot: the tabled legs, live or offline, and the satoshi. *)
Captured(sats, live) ==
  [leg \in Tabled \cup DOMAIN sats |->
     IF leg \in DOMAIN sats THEN sats[leg]
     ELSE IF leg \in DOMAIN live THEN live[leg] ELSE 0]

(* A task that has come to its end has no locals. *)
CreationOver(place) ==
  [pc |-> place, sats |-> NoRates, live |-> NoRates, pending |-> {}]

BtcAsleep == [pc |-> "asleep", prior |-> NoRates, sats |-> NoRates]

(* With a rate in hand, fetched or carried forward, the prior is done with. *)
BtcHas(place, sats) == [pc |-> place, prior |-> NoRates, sats |-> sats]

EcbAsleep ==
  [pc |-> "asleep", prior |-> NoRates, live |-> NoRates, kept |-> NoRates,
   pending |-> {}]

Init ==
  /\ ProvidersInit
  /\ providers \in Configurations
  /\ rates = NoRates
  /\ creation = [pc |-> IF "btc" \in providers THEN "btc" ELSE "ecb",
                 sats |-> NoRates, live |-> NoRates,
                 pending |-> IF "ecb" \in providers THEN Crosses ELSE {}]
  /\ btc = BtcAsleep
  /\ ecb = EcbAsleep

-----------------------------------------------------------------------------
(***************************************************************************)
(* create_envelope: the satoshi first, then the cross rates in any order;  *)
(* what is unavailable is left out.  An XML error is not an                *)
(* FmvUnavailableError and ends the creation, as a cancellation does.      *)
(***************************************************************************)
CreationAsks ==
  /\ \/ creation.pc = "btc" /\ BtcAsks("creation")
     \/ creation.pc = "ecb" /\ creation.pending # {} /\ EcbAsks("creation")
  /\ UNCHANGED snapshotVars

CreationHasBtc(rate) ==
  /\ creation.pc = "btc"
  /\ BtcHits("creation", rate) \/ BtcAnswers("creation", rate)
  /\ creation' = [creation EXCEPT !.pc = "ecb", !.sats = WithLeg(NoRates, Sats, rate)]
  /\ UNCHANGED <<providers, rates, btc, ecb>>

CreationLacksBtc ==
  /\ creation.pc = "btc"
  /\ RequestFails("creation")
  /\ creation' = [creation EXCEPT !.pc = "ecb"]
  /\ UNCHANGED <<providers, rates, btc, ecb>>

CreationHasEcb(leg, rate) ==
  /\ creation.pc = "ecb"
  /\ leg \in creation.pending
  /\ EcbServes("creation", leg, rate)
  /\ creation' = [creation EXCEPT !.live = WithLeg(@, leg, rate), !.pending = @ \ {leg}]
  /\ UNCHANGED <<providers, rates, btc, ecb>>

CreationLacksEcb(leg) ==
  /\ creation.pc = "ecb"
  /\ leg \in creation.pending
  /\ EcbUnavailable("creation", leg)
  /\ creation' = [creation EXCEPT !.pending = @ \ {leg}]
  /\ UNCHANGED <<providers, rates, btc, ecb>>

CreationInserts ==
  /\ creation.pc = "ecb" /\ creation.pending = {}
  /\ rates' = Captured(creation.sats, creation.live)
  /\ creation' = CreationOver("done")
  /\ UNCHANGED <<providerVars, providers, btc, ecb>>

CreationAborts ==
  /\ creation.pc \in {"btc", "ecb"}
  /\ RequestFails("creation")
  /\ creation' = CreationOver("aborted")
  /\ UNCHANGED <<providers, rates, btc, ecb>>

-----------------------------------------------------------------------------
(***************************************************************************)
(* _refresh_sats_leg.  The prior snapshot is read without the lock.  When  *)
(* the fetch fails, the prior rate is carried forward if there is one, and *)
(* the refresh is given up if there is none.                               *)
(***************************************************************************)
BtcLoads ==
  /\ "btc" \in providers /\ creation.pc = "done"
  /\ btc.pc = "asleep"
  /\ BtcAsks("btc")
  /\ btc' = [btc EXCEPT !.pc = "fetching", !.prior = rates]
  /\ UNCHANGED <<providers, rates, creation, ecb>>

(* The provider has the rate in its cache: no await lies in between. *)
BtcLoadsFromCache(rate) ==
  /\ "btc" \in providers /\ creation.pc = "done"
  /\ btc.pc = "asleep"
  /\ BtcHits("btc", rate)
  /\ btc' = BtcHas("fetched", WithLeg(NoRates, Sats, rate))
  /\ UNCHANGED <<providers, rates, creation, ecb>>

BtcFetches(rate) ==
  /\ btc.pc = "fetching"
  /\ BtcAnswers("btc", rate)
  /\ btc' = BtcHas("fetched", WithLeg(NoRates, Sats, rate))
  /\ UNCHANGED <<providers, rates, creation, ecb>>

BtcFetchFails ==
  /\ btc.pc = "fetching"
  /\ RequestFails("btc")
  /\ btc' = IF Sats \in DOMAIN btc.prior
            THEN BtcHas("kept", Restrict(btc.prior, {Sats}))
            ELSE BtcAsleep
  /\ UNCHANGED <<providers, rates, creation, ecb>>

BtcWrites ==
  /\ btc.pc \in {"fetched", "kept"}
  /\ rates' = Captured(btc.sats, NoRates)
  /\ btc' = BtcAsleep
  /\ UNCHANGED <<providerVars, providers, creation, ecb>>

(* The upsert fails, or the task is cancelled, perhaps with its request. *)
BtcStops ==
  /\ \/ btc.pc = "fetching" /\ RequestFails("btc")
     \/ btc.pc \in {"fetched", "kept"} /\ UNCHANGED providerVars
  /\ btc' = BtcAsleep
  /\ UNCHANGED <<providers, rates, creation, ecb>>

-----------------------------------------------------------------------------
(***************************************************************************)
(* _refresh_ecb_legs, which fetches one leg after the other, and carries a *)
(* leg forward when its fetch fails for whatever reason.  The legs are in  *)
(* live or in kept; the code has one dictionary for both.                  *)
(***************************************************************************)
EcbLoads ==
  /\ "ecb" \in providers /\ creation.pc = "done"
  /\ ecb.pc = "asleep"
  /\ ecb' = [EcbAsleep EXCEPT !.pc = "fetching", !.prior = rates, !.pending = Crosses]
  /\ UNCHANGED <<providerVars, providers, rates, creation, btc>>

EcbRequests ==
  /\ ecb.pc = "fetching" /\ ecb.pending # {}
  /\ EcbAsks("ecb")
  /\ UNCHANGED snapshotVars

EcbFetches(leg, rate) ==
  /\ ecb.pc = "fetching"
  /\ leg \in ecb.pending
  /\ EcbServes("ecb", leg, rate)
  /\ ecb' = [ecb EXCEPT !.live = WithLeg(@, leg, rate), !.pending = @ \ {leg}]
  /\ UNCHANGED <<providers, rates, creation, btc>>

(* Mutation: a leg whose fetch fails falls back to the offline table. *)
EcbFetchFailsOffline(leg) ==
  /\ ecb.pc = "fetching"
  /\ leg \in ecb.pending
  /\ EcbUnavailable("ecb", leg)
  /\ ecb' = [ecb EXCEPT !.pending = @ \ {leg}]
  /\ UNCHANGED <<providers, rates, creation, btc>>

EcbFetchFails(leg) ==
  /\ ecb.pc = "fetching"
  /\ leg \in ecb.pending
  /\ EcbUnavailable("ecb", leg)
  /\ ecb' = [ecb EXCEPT !.kept = IF leg \in DOMAIN ecb.prior
                                 THEN WithLeg(@, leg, ecb.prior[leg]) ELSE @,
                        !.pending = @ \ {leg}]
  /\ UNCHANGED <<providers, rates, creation, btc>>

EcbWrites ==
  /\ ecb.pc = "fetching" /\ ecb.pending = {}
  /\ rates' = Captured(NoRates, Merged(ecb.live, ecb.kept))
  /\ ecb' = EcbAsleep
  /\ UNCHANGED <<providerVars, providers, creation, btc>>

EcbStops ==
  /\ ecb.pc = "fetching"
  /\ IF asked["ecb"] = None THEN UNCHANGED providerVars ELSE RequestFails("ecb")
  /\ ecb' = EcbAsleep
  /\ UNCHANGED <<providers, rates, creation, btc>>

-----------------------------------------------------------------------------
(***************************************************************************)
(* Another task of the store asks a provider, and gets an answer or none.  *)
(***************************************************************************)
OtherUsesBtc(u) ==
  /\ "btc" \in providers
  /\ \/ BtcAsks(u)
     \/ \E rate \in 1 .. MaxTime : BtcAnswers(u, rate)
     \/ RequestFails(u)
  /\ UNCHANGED snapshotVars

OtherUsesEcb(u) ==
  /\ "ecb" \in providers
  /\ \/ EcbAsks(u)
     \/ \E rate \in 1 .. MaxTime, listed \in SUBSET Crosses : EcbAnswers(u, rate, listed)
     \/ RequestFails(u)
  /\ UNCHANGED snapshotVars

Next ==
  \/ Tick /\ UNCHANGED snapshotVars
  \/ CreationAsks \/ CreationLacksBtc \/ CreationInserts \/ CreationAborts
  \/ \E rate \in 1 .. MaxTime : CreationHasBtc(rate)
  \/ \E leg \in Crosses : CreationLacksEcb(leg)
  \/ \E leg \in Crosses, rate \in 1 .. MaxTime : CreationHasEcb(leg, rate)
  \/ BtcLoads \/ BtcFetchFails \/ BtcWrites \/ BtcStops
  \/ \E rate \in 1 .. MaxTime : BtcLoadsFromCache(rate) \/ BtcFetches(rate)
  \/ EcbLoads \/ EcbRequests \/ EcbWrites \/ EcbStops
  \/ \E leg \in Crosses : EcbFetchFails(leg)
  \/ \E leg \in Crosses, rate \in 1 .. MaxTime : EcbFetches(leg, rate)
  \/ \E u \in BtcOthers : OtherUsesBtc(u)
  \/ \E u \in EcbOthers : OtherUsesEcb(u)

Spec == Init /\ [][Next]_vars

-----------------------------------------------------------------------------
(***************************************************************************)
(* Type invariant: a snapshot always has the tabled legs, and no leg that  *)
(* is neither tabled nor the satoshi.                                      *)
(***************************************************************************)
Times == 0 .. MaxTime

TypeOK ==
  /\ clock \in Times \ {0}
  /\ btcCache \in {None} \cup [rate : Times, expires : 0 .. MaxTime + CacheTtl]
  /\ ecbCache \in {None} \cup [day : Times, rate : Times, listed : SUBSET Crosses]
  /\ asked \in [Users -> {None} \cup Times]
  /\ providers \in Configurations
  /\ rates \in Rates
  /\ IF creation.pc = "done" THEN DOMAIN rates \in {Tabled, Tabled \cup {Sats}}
                             ELSE rates = NoRates
  /\ creation \in [pc : {"btc", "ecb", "done", "aborted"}, sats : Rates, live : Rates,
                   pending : SUBSET Crosses]
  /\ btc \in [pc : {"asleep", "fetching", "fetched", "kept"}, prior : Rates, sats : Rates]
  /\ ecb \in [pc : {"asleep", "fetching"}, prior : Rates, live : Rates, kept : Rates,
              pending : SUBSET Crosses]

OneRefresher == providers # {"btc", "ecb"}

(* The leg stays in the snapshot, and a live rate is not made a constant. *)
Survives(leg) ==
  /\ leg \in DOMAIN rates'
  /\ rates[leg] > 0 => rates'[leg] > 0

(***************************************************************************)
(* A refresh never puts an older rate in the place of a newer one, but for *)
(* the time that one request may overtake another, whichever fetches fail  *)
(* and whoever else writes the row.  In a store with one refresher it also *)
(* never takes a leg out of the snapshot, nor puts the offline constant in *)
(* the place of a live rate ("carried forward" in budgets/local.py).       *)
(***************************************************************************)
LegsAreKept ==
  [][\A leg \in DOMAIN rates :
       /\ OneRefresher => Survives(leg)
       /\ leg \in DOMAIN rates' /\ rates'[leg] > 0 => rates[leg] <= rates'[leg] + MaxLatency]_vars

(***************************************************************************)
(* No refresh takes a leg of the snapshot away or resets it, with both     *)
(* refreshers too ("upsert only the sats leg of the snapshot" and "upsert  *)
(* only those legs of the snapshot" in budgets/local.py).                  *)
(***************************************************************************)
OtherLegsSurvive == [][\A leg \in DOMAIN rates : Survives(leg)]_vars

(* When the call that user u ends in this step began. *)
Began(u) == IF asked[u] = None THEN clock ELSE asked[u]

(***************************************************************************)
(* However the calls of several tasks overtake each other and share what   *)
(* is cached, a refresh is given no rate of the satoshi older than the     *)
(* life of the cache and one request ("Caches results in-process for       *)
(* cache_ttl_seconds"), and no cross rate of a day before the one on which *)
(* the call began ("cached in-process keyed by calendar date").            *)
(***************************************************************************)
RatesAreFresh ==
  [][/\ btc.pc # "fetched" /\ btc'.pc = "fetched" =>
          btc'.sats[Sats] + CacheTtl + MaxLatency >= clock
     /\ \A leg \in DOMAIN ecb'.live \ DOMAIN ecb.live :
          ecb'.live[leg] \div DayLength >= Began("ecb") \div DayLength]_vars
=============================================================================
