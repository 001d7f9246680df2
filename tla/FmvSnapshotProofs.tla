------------------------- MODULE FmvSnapshotProofs -------------------------
(***************************************************************************)
(* Proofs about FmvSnapshot, for any legs, users and lifetimes.            *)
(***************************************************************************)
EXTENDS FmvSnapshot, TLAPS

LEMMA MergedRates ==
  ASSUME NEW first \in Rates, NEW second \in Rates
  PROVE  /\ Merged(first, second) \in Rates
         /\ DOMAIN Merged(first, second) = DOMAIN first \cup DOMAIN second
<1>1. PICK S \in SUBSET Legs : first \in [S -> 0 .. MaxTime]
  BY DEF Rates
<1>2. PICK T \in SUBSET Legs : second \in [T -> 0 .. MaxTime]
  BY DEF Rates
<1>3. Merged(first, second) \in [S \cup T -> 0 .. MaxTime]
  BY <1>1, <1>2 DEF Merged
<1>4. S \cup T \in SUBSET Legs
  OBVIOUS
<1> QED
  BY <1>1, <1>2, <1>3, <1>4 DEF Rates, Merged

LEMMA WithLegRates ==
  ASSUME NEW some \in Rates, NEW leg \in Legs, NEW rate \in 0 .. MaxTime
  PROVE  /\ WithLeg(some, leg, rate) \in Rates
         /\ DOMAIN WithLeg(some, leg, rate) = DOMAIN some \cup {leg}
         /\ WithLeg(some, leg, rate)[leg] = rate
         /\ \A l \in DOMAIN some \ {leg} : WithLeg(some, leg, rate)[l] = some[l]
<1> DEFINE one == [l \in {leg} |-> rate]
<1>1. one \in [{leg} -> 0 .. MaxTime] /\ {leg} \in SUBSET Legs
  OBVIOUS
<1>2. one \in Rates
  BY <1>1 DEF Rates
<1>3. DOMAIN one = {leg} /\ one[leg] = rate
  OBVIOUS
<1>4. WithLeg(some, leg, rate) = Merged(one, some)
  BY DEF WithLeg
<1> HIDE DEF one
<1>5. \A l \in DOMAIN one \cup DOMAIN some :
        Merged(one, some)[l] = IF l \in DOMAIN one THEN one[l] ELSE some[l]
  BY DEF Merged
<1>6. Merged(one, some) \in Rates /\ DOMAIN Merged(one, some) = DOMAIN one \cup DOMAIN some
  BY <1>2, MergedRates
<1>7. WithLeg(some, leg, rate)[leg] = rate
  BY <1>3, <1>4, <1>5
<1>8. \A l \in DOMAIN some \ {leg} : WithLeg(some, leg, rate)[l] = some[l]
  BY <1>3, <1>4, <1>5
<1> QED
  BY <1>3, <1>4, <1>6, <1>7, <1>8

LEMMA RatesOfLegs ==
  ASSUME NEW some \in Rates
  PROVE  DOMAIN some \subseteq Legs /\ \A leg \in DOMAIN some : some[leg] \in 0 .. MaxTime
BY DEF Rates

LEMMA NoRatesType == NoRates \in Rates /\ DOMAIN NoRates = {}
<1>1. NoRates \in [{} -> 0 .. MaxTime] /\ {} \in SUBSET Legs
  BY DEF NoRates
<1> QED
  BY <1>1 DEF Rates, NoRates

LEMMA OnlySats ==
  ASSUME NEW rate \in 0 .. MaxTime
  PROVE  /\ WithLeg(NoRates, Sats, rate) \in Rates
         /\ DOMAIN WithLeg(NoRates, Sats, rate) = {Sats}
         /\ WithLeg(NoRates, Sats, rate)[Sats] = rate
<1>1. Sats \in Legs
  BY DEF Legs
<1>2. /\ WithLeg(NoRates, Sats, rate) \in Rates
      /\ DOMAIN WithLeg(NoRates, Sats, rate) = DOMAIN NoRates \cup {Sats}
      /\ WithLeg(NoRates, Sats, rate)[Sats] = rate
  BY <1>1, NoRatesType, WithLegRates
<1> QED
  BY <1>2, NoRatesType

LEMMA CapturedRates ==
  ASSUME NEW sats \in Rates, NEW live \in Rates
  PROVE  /\ Captured(sats, live) \in Rates
         /\ DOMAIN Captured(sats, live) = Tabled \cup DOMAIN sats
         /\ \A leg \in Tabled \cup DOMAIN sats :
              Captured(sats, live)[leg] =
                IF leg \in DOMAIN sats THEN sats[leg]
                ELSE IF leg \in DOMAIN live THEN live[leg] ELSE 0
<1>1. Tabled \cup DOMAIN sats \in SUBSET Legs
  BY RatesOfLegs, LegsAssumption DEF Legs
<1>2. 0 \in 0 .. MaxTime
  BY TimesAssumption
<1>3. Captured(sats, live) \in [Tabled \cup DOMAIN sats -> 0 .. MaxTime]
  BY <1>2, RatesOfLegs DEF Captured
<1> QED
  BY <1>1, <1>3 DEF Rates, Captured

-----------------------------------------------------------------------------
(***************************************************************************)
(* Type correctness.                                                       *)
(***************************************************************************)
BtcEntry == [rate : Times, expires : 0 .. MaxTime + CacheTtl]
EcbEntry == [day : Times, rate : Times, listed : SUBSET Crosses]

ProvidersType ==
  /\ clock \in Times \ {0}
  /\ btcCache \in {None} \cup BtcEntry
  /\ ecbCache \in {None} \cup EcbEntry
  /\ asked \in [Users -> {None} \cup Times]

(* A step of one of the providers, whoever takes it. *)
ProviderStep ==
  \/ Tick
  \/ UNCHANGED providerVars
  \/ \E u \in Users :
       \/ BtcAsks(u) \/ EcbAsks(u) \/ RequestFails(u)
       \/ \E rate \in Nat : BtcAnswers(u, rate)
       \/ \E rate \in Nat, listed \in SUBSET Crosses : EcbAnswers(u, rate, listed)

LEMMA DaysAreTimes ==
  ASSUME NEW t \in Times
  PROVE  t \div DayLength \in Times
<1>1. t \in Nat /\ DayLength \in Nat /\ DayLength > 0 /\ t <= MaxTime
  BY TimesAssumption DEF Times
<1>2. t \div DayLength \in Nat /\ t \div DayLength <= t
  BY <1>1, SMTT(30)
<1> QED
  BY <1>1, <1>2, TimesAssumption DEF Times

LEMMA ProvidersKeepType ==
  ASSUME ProvidersType, ProviderStep
  PROVE  ProvidersType'
<1> USE TimesAssumption, NoneAssumption DEF ProvidersType, Times
<1>1. CASE Tick
  BY <1>1 DEF Tick
<1>2. CASE UNCHANGED providerVars
  BY <1>2 DEF providerVars
<1>3. ASSUME NEW u \in Users, BtcAsks(u) \/ EcbAsks(u) \/ RequestFails(u)
      PROVE  ProvidersType'
  BY <1>3 DEF BtcAsks, EcbAsks, RequestFails, Asks, Answered
<1>4. ASSUME NEW u \in Users, NEW rate \in Nat, BtcAnswers(u, rate)
      PROVE  ProvidersType'
  <2>1. rate \in Times /\ clock + CacheTtl \in 0 .. MaxTime + CacheTtl
    BY <1>4 DEF BtcAnswers, QuotedFor
  <2> QED
    BY <1>4, <2>1 DEF BtcAnswers, QuotedFor, Answered, BtcEntry
<1>5. ASSUME NEW u \in Users, NEW rate \in Nat, NEW listed \in SUBSET Crosses,
             EcbAnswers(u, rate, listed)
      PROVE  ProvidersType'
  <2>1. rate \in Times /\ asked[u] \in Times
    BY <1>5 DEF EcbAnswers, QuotedFor
  <2>2. asked[u] \div DayLength \in Times
    BY <2>1, DaysAreTimes
  <2>3. [day |-> asked[u] \div DayLength, rate |-> rate, listed |-> listed] \in EcbEntry
    BY <2>1, <2>2 DEF EcbEntry
  <2> QED
    BY <1>5, <2>3 DEF EcbAnswers, Answered
<1> QED
  BY <1>1, <1>2, <1>3, <1>4, <1>5 DEF ProviderStep

LEMMA NextIsProviderStep ==
  ASSUME Next
  PROVE  ProviderStep
<1> USE UsersAssumption DEF ProviderStep
<1>1. 1 .. MaxTime \subseteq Nat /\ 0 .. MaxTime \subseteq Nat
  BY TimesAssumption
<1>2. CASE Tick /\ UNCHANGED snapshotVars
  BY <1>2
<1>3. CASE \/ CreationAsks \/ CreationLacksBtc \/ CreationInserts \/ CreationAborts
           \/ \E rate \in 1 .. MaxTime : CreationHasBtc(rate)
           \/ \E leg \in Crosses : CreationLacksEcb(leg)
           \/ \E leg \in Crosses, rate \in 1 .. MaxTime : CreationHasEcb(leg, rate)
  BY <1>1, <1>3 DEF CreationAsks, CreationLacksBtc, CreationInserts, CreationAborts,
     CreationHasBtc, CreationLacksEcb, CreationHasEcb, EcbServes, EcbUnavailable,
     EcbHits, BtcHits
<1>4. CASE \/ BtcLoads \/ BtcFetchFails \/ BtcWrites \/ BtcStops
           \/ \E rate \in 1 .. MaxTime : BtcLoadsFromCache(rate) \/ BtcFetches(rate)
  BY <1>1, <1>4 DEF BtcLoads, BtcFetchFails, BtcWrites, BtcStops, BtcLoadsFromCache,
     BtcFetches, BtcHits
<1>5. CASE \/ EcbLoads \/ EcbRequests \/ EcbWrites \/ EcbStops
           \/ \E leg \in Crosses : EcbFetchFails(leg)
           \/ \E leg \in Crosses, rate \in 1 .. MaxTime : EcbFetches(leg, rate)
  BY <1>1, <1>5 DEF EcbLoads, EcbRequests, EcbWrites, EcbStops, EcbFetchFails,
     EcbFetches, EcbServes, EcbUnavailable, EcbHits
<1>6. CASE \/ \E u \in BtcOthers : OtherUsesBtc(u)
           \/ \E u \in EcbOthers : OtherUsesEcb(u)
  BY <1>1, <1>6 DEF OtherUsesBtc, OtherUsesEcb
<1> QED
  BY <1>2, <1>3, <1>4, <1>5, <1>6 DEF Next

(* What a provider returns is a time. *)
LEMMA ServedTypes ==
  ASSUME ProvidersType, NEW u \in Users, NEW leg, NEW rate,
         BtcHits(u, rate) \/ BtcAnswers(u, rate) \/ EcbServes(u, leg, rate)
  PROVE  rate \in Times
BY TimesAssumption, NoneAssumption DEF ProvidersType, Times, BtcHits, BtcCached, BtcAnswers,
   EcbServes, EcbHits, EcbCached, EcbAnswers, QuotedFor, BtcEntry, EcbEntry

CreationType ==
  creation \in [pc : {"btc", "ecb", "done", "aborted"}, sats : Rates, live : Rates,
               pending : SUBSET Crosses]

BtcType ==
  btc \in [pc : {"asleep", "fetching", "fetched", "kept"}, prior : Rates, sats : Rates]

EcbType ==
  ecb \in [pc : {"asleep", "fetching"}, prior : Rates, live : Rates, kept : Rates,
          pending : SUBSET Crosses]

SnapshotType ==
  /\ providers \in Configurations
  /\ rates \in Rates
  /\ IF creation.pc = "done" THEN DOMAIN rates \in {Tabled, Tabled \cup {Sats}}
                             ELSE rates = NoRates
  /\ CreationType /\ BtcType /\ EcbType

(* Which legs the dictionaries of satoshi rates hold. *)
SatsLegs ==
  /\ DOMAIN creation.sats \subseteq {Sats}
  /\ DOMAIN btc.sats \subseteq {Sats}

LEMMA TypeOKParts == TypeOK <=> ProvidersType /\ SnapshotType
BY DEF TypeOK, ProvidersType, SnapshotType, BtcEntry, EcbEntry, CreationType, BtcType, EcbType

LEMMA CreationKeepsType ==
  ASSUME ProvidersType, SnapshotType, SatsLegs,
         \/ CreationAsks \/ CreationLacksBtc \/ CreationInserts \/ CreationAborts
         \/ \E rate \in 1 .. MaxTime : CreationHasBtc(rate)
         \/ \E leg \in Crosses : CreationLacksEcb(leg)
         \/ \E leg \in Crosses, rate \in 1 .. MaxTime : CreationHasEcb(leg, rate)
  PROVE  SnapshotType' /\ SatsLegs'
<1> USE DEF SnapshotType, SatsLegs
<1>1. CASE CreationAsks
  BY <1>1 DEF CreationAsks, snapshotVars, CreationType, BtcType, EcbType
<1>2. CASE CreationLacksBtc \/ CreationAborts
  BY <1>2, NoRatesType
     DEF CreationLacksBtc, CreationAborts, CreationOver, CreationType, BtcType, EcbType
<1>3. CASE CreationInserts
  <2>1. /\ rates' \in Rates
        /\ DOMAIN rates' = Tabled \cup DOMAIN creation.sats
    BY <1>3, CapturedRates DEF CreationInserts, CreationType
  <2>2. creation'.pc = "done"
    BY <1>3 DEF CreationInserts, CreationOver
  <2>3. DOMAIN rates' \in {Tabled, Tabled \cup {Sats}}
    BY <2>1
  <2>4. CreationType' /\ BtcType' /\ EcbType' /\ SatsLegs'
    BY <1>3, NoRatesType DEF CreationInserts, CreationOver, CreationType, BtcType, EcbType
  <2>5. providers' \in Configurations
    BY <1>3 DEF CreationInserts
  <2> QED
    BY <2>1, <2>2, <2>3, <2>4, <2>5
<1>4. ASSUME NEW rate \in 1 .. MaxTime, CreationHasBtc(rate)
      PROVE  SnapshotType' /\ SatsLegs'
  <2>2. /\ WithLeg(NoRates, Sats, rate) \in Rates
        /\ DOMAIN WithLeg(NoRates, Sats, rate) = {Sats}
    BY OnlySats
  <2> QED
    BY <1>4, <2>2 DEF CreationHasBtc, CreationType, BtcType, EcbType
<1>5. ASSUME NEW leg \in Crosses, CreationLacksEcb(leg)
      PROVE  SnapshotType' /\ SatsLegs'
  BY <1>5 DEF CreationLacksEcb, CreationType, BtcType, EcbType
<1>6. ASSUME NEW leg \in Crosses, NEW rate \in 1 .. MaxTime, CreationHasEcb(leg, rate)
      PROVE  SnapshotType' /\ SatsLegs'
  <2>1. rate \in 0 .. MaxTime /\ leg \in Legs /\ creation.live \in Rates
    BY DEF Legs, CreationType
  <2>2. WithLeg(creation.live, leg, rate) \in Rates
    BY <2>1, WithLegRates
  <2> QED
    BY <1>6, <2>2 DEF CreationHasEcb, CreationType, BtcType, EcbType
<1> QED
  BY <1>1, <1>2, <1>3, <1>4, <1>5, <1>6

LEMMA AsleepTypes ==
  /\ BtcAsleep \in [pc : {"asleep", "fetching", "fetched", "kept"}, prior : Rates, sats : Rates]
  /\ EcbAsleep \in [pc : {"asleep", "fetching"}, prior : Rates, live : Rates, kept : Rates,
                    pending : SUBSET Crosses]
BY NoRatesType DEF BtcAsleep, EcbAsleep

LEMMA BtcKeepsType ==
  ASSUME ProvidersType, SnapshotType, SatsLegs,
         btc.pc \in {"fetched", "kept"} => creation.pc = "done",
         \/ BtcLoads \/ BtcFetchFails \/ BtcWrites \/ BtcStops
         \/ \E rate \in 1 .. MaxTime : BtcLoadsFromCache(rate) \/ BtcFetches(rate)
  PROVE  SnapshotType' /\ SatsLegs'
<1> USE DEF SnapshotType, SatsLegs
<1>a. Sats \in Legs
  BY DEF Legs
<1>1. CASE BtcLoads
  BY <1>1 DEF BtcLoads, CreationType, BtcType, EcbType
<1>2. CASE BtcFetchFails
  <2>1. btc.prior \in Rates
    BY DEF BtcType
  <2>2. Sats \in DOMAIN btc.prior =>
          Restrict(btc.prior, {Sats}) \in [{Sats} -> 0 .. MaxTime]
    BY <2>1, RatesOfLegs DEF Restrict
  <2>3. Sats \in DOMAIN btc.prior =>
          /\ Restrict(btc.prior, {Sats}) \in Rates
          /\ DOMAIN Restrict(btc.prior, {Sats}) = {Sats}
    BY <2>2, <1>a DEF Rates
  <2>4. btc' \in [pc : {"asleep", "fetching", "fetched", "kept"}, prior : Rates, sats : Rates]
    BY <1>2, <2>3, AsleepTypes, NoRatesType DEF BtcFetchFails, BtcHas, BtcType
  <2>5. DOMAIN btc'.sats \subseteq {Sats}
    BY <1>2, <2>3, NoRatesType DEF BtcFetchFails, BtcHas, BtcAsleep
  <2> QED
    BY <1>2, <2>4, <2>5 DEF BtcFetchFails, CreationType, BtcType, EcbType
<1>3. CASE BtcWrites
  <2>1. btc.sats \in Rates /\ creation.pc = "done"
    BY <1>3 DEF BtcType, BtcWrites
  <2>2. rates' \in Rates /\ DOMAIN rates' = Tabled \cup DOMAIN btc.sats
    BY <1>3, <2>1, NoRatesType, CapturedRates DEF BtcWrites
  <2>3. DOMAIN rates' \in {Tabled, Tabled \cup {Sats}}
    BY <2>2
  <2>4. btc' = BtcAsleep /\ DOMAIN btc'.sats = {}
    BY <1>3, NoRatesType DEF BtcWrites, BtcAsleep
  <2> QED
    BY <1>3, <2>1, <2>2, <2>3, <2>4, AsleepTypes DEF BtcWrites, CreationType, BtcType, EcbType
<1>4. CASE BtcStops
  <2>1. btc' = BtcAsleep /\ DOMAIN btc'.sats = {}
    BY <1>4, NoRatesType DEF BtcStops, BtcAsleep
  <2> QED
    BY <1>4, <2>1, AsleepTypes DEF BtcStops, CreationType, BtcType, EcbType
<1>5. ASSUME NEW rate \in 1 .. MaxTime, BtcLoadsFromCache(rate) \/ BtcFetches(rate)
      PROVE  SnapshotType' /\ SatsLegs'
  <2>1. /\ WithLeg(NoRates, Sats, rate) \in Rates
        /\ DOMAIN WithLeg(NoRates, Sats, rate) = {Sats}
    BY OnlySats
  <2>4. PICK only \in Rates : only = WithLeg(NoRates, Sats, rate)
    BY <2>1
  <2>2. BtcType' /\ btc'.sats = only
    BY <1>5, <2>4, NoRatesType DEF BtcLoadsFromCache, BtcFetches, BtcHas, BtcType
  <2>3. CreationType' /\ EcbType' /\ UNCHANGED <<providers, rates, creation>>
    BY <1>5 DEF BtcLoadsFromCache, BtcFetches, CreationType, EcbType
  <2> QED
    BY <2>1, <2>2, <2>3, <2>4
<1> QED
  BY <1>1, <1>2, <1>3, <1>4, <1>5

LEMMA EcbKeepsType ==
  ASSUME ProvidersType, SnapshotType, SatsLegs,
         ecb.pc = "fetching" => creation.pc = "done",
         \/ EcbLoads \/ EcbRequests \/ EcbWrites \/ EcbStops
         \/ \E leg \in Crosses : EcbFetchFails(leg)
         \/ \E leg \in Crosses, rate \in 1 .. MaxTime : EcbFetches(leg, rate)
  PROVE  SnapshotType' /\ SatsLegs'
<1> USE DEF SnapshotType, SatsLegs
<1>1. CASE EcbLoads
  <2>1. ecb' \in [pc : {"asleep", "fetching"}, prior : Rates, live : Rates, kept : Rates,
                 pending : SUBSET Crosses]
    BY <1>1, AsleepTypes DEF EcbLoads, EcbAsleep
  <2> QED
    BY <1>1, <2>1 DEF EcbLoads, CreationType, BtcType, EcbType
<1>2. CASE EcbRequests
  BY <1>2 DEF EcbRequests, snapshotVars, CreationType, BtcType, EcbType
<1>3. CASE EcbWrites
  <2>1. Merged(ecb.live, ecb.kept) \in Rates
    BY MergedRates DEF EcbType
  <2>2. PICK live \in Rates : rates' = Captured(NoRates, live)
    BY <1>3, <2>1 DEF EcbWrites
  <2>3. rates' \in Rates /\ DOMAIN rates' = Tabled \cup DOMAIN NoRates
    BY <2>2, NoRatesType, CapturedRates
  <2>4. DOMAIN rates' = Tabled
    BY <2>3, NoRatesType
  <2>5. EcbType'
    BY <1>3, AsleepTypes DEF EcbWrites, EcbType
  <2>6. creation'.pc = "done"
    BY <1>3 DEF EcbWrites
  <2> QED
    BY <1>3, <2>3, <2>4, <2>5, <2>6 DEF EcbWrites, CreationType, BtcType
<1>4. CASE EcbStops
  BY <1>4, AsleepTypes DEF EcbStops, CreationType, BtcType, EcbType
<1>5. ASSUME NEW leg \in Crosses, EcbFetchFails(leg)
      PROVE  SnapshotType' /\ SatsLegs'
  <2>1. leg \in Legs /\ ecb.prior \in Rates /\ ecb.kept \in Rates
    BY DEF Legs, EcbType
  <2>2. leg \in DOMAIN ecb.prior => WithLeg(ecb.kept, leg, ecb.prior[leg]) \in Rates
    BY <2>1, RatesOfLegs, WithLegRates
  <2> QED
    BY <1>5, <2>2 DEF EcbFetchFails, CreationType, BtcType, EcbType
<1>6. ASSUME NEW leg \in Crosses, NEW rate \in 1 .. MaxTime, EcbFetches(leg, rate)
      PROVE  SnapshotType' /\ SatsLegs'
  <2>1. leg \in Legs /\ rate \in 0 .. MaxTime /\ ecb.live \in Rates
    BY DEF Legs, EcbType
  <2>2. WithLeg(ecb.live, leg, rate) \in Rates
    BY <2>1, WithLegRates
  <2> QED
    BY <1>6, <2>2 DEF EcbFetches, CreationType, BtcType, EcbType
<1> QED
  BY <1>1, <1>2, <1>3, <1>4, <1>5, <1>6

-----------------------------------------------------------------------------
(***************************************************************************)
(* The invariant.  No request is older than its timeouts allow, and so no  *)
(* cache is behind a rate already in use by more than one request.         *)
(***************************************************************************)
ProvidersInv ==
  /\ \A u \in Users : asked[u] # None =>
       /\ asked[u] \in 1 .. clock
       /\ clock <= asked[u] + MaxLatency
  /\ btcCache # None =>
       /\ btcCache.rate \in 1 .. clock
       /\ btcCache.expires <= btcCache.rate + MaxLatency + CacheTtl
  /\ ecbCache # None =>
       /\ ecbCache.rate \in 1 .. clock
       /\ ecbCache.day <= ecbCache.rate \div DayLength

(* A live rate was quoted in the past, and the cache is hardly older. *)
BtcBacked(rate) ==
  /\ rate \in 1 .. clock
  /\ btcCache # None /\ rate <= btcCache.rate + MaxLatency

EcbBacked(rate) ==
  /\ rate \in 1 .. clock
  /\ ecbCache # None /\ rate <= ecbCache.rate + MaxLatency

LEMMA DaysGrow ==
  ASSUME NEW s \in Nat, NEW t \in Nat, s <= t
  PROVE  s \div DayLength <= t \div DayLength
<1>1. DayLength \in Nat /\ DayLength > 0
  BY TimesAssumption
<1> QED
  BY <1>1, SMTT(30)

LEMMA ProvidersKeepInv ==
  ASSUME ProvidersType, ProvidersInv, ProviderStep
  PROVE  ProvidersInv'
<1> USE TimesAssumption, NoneAssumption DEF ProvidersType, ProvidersInv, Times
<1>1. CASE Tick
  BY <1>1 DEF Tick
<1>2. CASE UNCHANGED providerVars
  BY <1>2 DEF providerVars
<1>3. ASSUME NEW u \in Users, BtcAsks(u) \/ EcbAsks(u) \/ RequestFails(u)
      PROVE  ProvidersInv'
  BY <1>3 DEF BtcAsks, EcbAsks, RequestFails, Asks, Answered
<1>4. ASSUME NEW u \in Users, NEW rate \in Nat, BtcAnswers(u, rate)
      PROVE  ProvidersInv'
  <2>1. /\ asked[u] \in Nat /\ clock \in Nat /\ rate \in asked[u] .. clock
        /\ asked[u] >= 1 /\ clock <= asked[u] + MaxLatency
    BY <1>4 DEF BtcAnswers, QuotedFor
  <2>2. btcCache' = [rate |-> rate, expires |-> clock + CacheTtl] /\ UNCHANGED <<clock, ecbCache>>
    BY <1>4 DEF BtcAnswers
  <2>3. \A v \in Users : asked'[v] # None => asked'[v] = asked[v]
    BY <1>4 DEF BtcAnswers, Answered
  <2> QED
    BY <2>1, <2>2, <2>3
<1>5. ASSUME NEW u \in Users, NEW rate \in Nat, NEW listed \in SUBSET Crosses,
             EcbAnswers(u, rate, listed)
      PROVE  ProvidersInv'
  <2>1. /\ asked[u] \in Nat /\ clock \in Nat /\ rate \in asked[u] .. clock
        /\ asked[u] >= 1
    BY <1>5 DEF EcbAnswers, QuotedFor
  <2>2. /\ ecbCache'.rate = rate /\ ecbCache'.day = asked[u] \div DayLength
        /\ UNCHANGED <<clock, btcCache>>
    BY <1>5 DEF EcbAnswers
  <2>3. asked[u] \div DayLength <= rate \div DayLength
    BY <2>1, DaysGrow
  <2>4. \A v \in Users : asked'[v] # None => asked'[v] = asked[v]
    BY <1>5 DEF EcbAnswers, Answered
  <2> QED
    BY <2>1, <2>2, <2>3, <2>4
<1> QED
  BY <1>1, <1>2, <1>3, <1>4, <1>5 DEF ProviderStep

(* Whatever overtakes what, a backed rate stays backed. *)
LEMMA BackingIsKept ==
  ASSUME ProvidersType, ProvidersInv, ProviderStep, NEW rate
  PROVE  (BtcBacked(rate) => BtcBacked(rate)') /\ (EcbBacked(rate) => EcbBacked(rate)')
<1> USE TimesAssumption, NoneAssumption
    DEF ProvidersType, ProvidersInv, Times, BtcBacked, EcbBacked
<1>1. CASE Tick
  BY <1>1 DEF Tick
<1>2. CASE UNCHANGED providerVars
  BY <1>2 DEF providerVars
<1>3. ASSUME NEW u \in Users, BtcAsks(u) \/ EcbAsks(u) \/ RequestFails(u)
      PROVE  (BtcBacked(rate) => BtcBacked(rate)') /\ (EcbBacked(rate) => EcbBacked(rate)')
  BY <1>3 DEF BtcAsks, EcbAsks, RequestFails
<1>4. ASSUME NEW u \in Users, NEW new \in Nat, BtcAnswers(u, new)
      PROVE  (BtcBacked(rate) => BtcBacked(rate)') /\ (EcbBacked(rate) => EcbBacked(rate)')
  <2>1. /\ asked[u] \in Nat /\ clock \in Nat /\ new \in asked[u] .. clock
        /\ clock <= asked[u] + MaxLatency
    BY <1>4 DEF BtcAnswers, QuotedFor
  <2>2. btcCache' = [rate |-> new, expires |-> clock + CacheTtl] /\ UNCHANGED <<clock, ecbCache>>
    BY <1>4 DEF BtcAnswers
  <2> QED
    BY <2>1, <2>2
<1>5. ASSUME NEW u \in Users, NEW new \in Nat, NEW listed \in SUBSET Crosses,
             EcbAnswers(u, new, listed)
      PROVE  (BtcBacked(rate) => BtcBacked(rate)') /\ (EcbBacked(rate) => EcbBacked(rate)')
  <2>1. /\ asked[u] \in Nat /\ clock \in Nat /\ new \in asked[u] .. clock
        /\ clock <= asked[u] + MaxLatency
    BY <1>5 DEF EcbAnswers, QuotedFor
  <2>2. /\ ecbCache' = [day |-> asked[u] \div DayLength, rate |-> new, listed |-> listed]
        /\ UNCHANGED <<clock, btcCache>>
    BY <1>5 DEF EcbAnswers
  <2> QED
    BY <2>1, <2>2
<1> QED
  BY <1>1, <1>2, <1>3, <1>4, <1>5 DEF ProviderStep

(* What is served is backed, and hardly older than any rate so far. *)
LEMMA ServedBtcIsBacked ==
  ASSUME ProvidersType, ProvidersInv, NEW u \in Users, NEW rate,
         BtcHits(u, rate) \/ BtcAnswers(u, rate)
  PROVE  /\ BtcBacked(rate)'
         /\ \A older : BtcBacked(older) => older <= rate + MaxLatency
         /\ rate + CacheTtl + MaxLatency >= clock
BY TimesAssumption, NoneAssumption
   DEF ProvidersType, ProvidersInv, Times, BtcBacked, BtcHits, BtcCached, BtcAnswers, QuotedFor,
       providerVars, BtcEntry

LEMMA ServedEcbIsBacked ==
  ASSUME ProvidersType, ProvidersInv, NEW u \in Users, NEW leg, NEW rate, EcbServes(u, leg, rate)
  PROVE  /\ EcbBacked(rate)'
         /\ \A older : EcbBacked(older) => older <= rate + MaxLatency
         /\ rate \div DayLength >= Began(u) \div DayLength
<1> USE TimesAssumption, NoneAssumption DEF ProvidersType, ProvidersInv, Times, EcbBacked
<1>1. CASE EcbHits(u) /\ leg \in ecbCache.listed /\ rate = ecbCache.rate
  BY <1>1 DEF EcbHits, EcbCached, Today, Began, providerVars, EcbEntry
<1>2. ASSUME NEW listed \in SUBSET Crosses, EcbAnswers(u, rate, listed)
      PROVE  /\ EcbBacked(rate)'
             /\ \A older : EcbBacked(older) => older <= rate + MaxLatency
             /\ rate \div DayLength >= Began(u) \div DayLength
  <2>1. /\ asked[u] \in Nat /\ clock \in Nat /\ rate \in asked[u] .. clock
        /\ clock <= asked[u] + MaxLatency /\ asked[u] >= 1 /\ Began(u) = asked[u]
    BY <1>2 DEF EcbAnswers, QuotedFor, Began
  <2>2. /\ ecbCache' = [day |-> asked[u] \div DayLength, rate |-> rate, listed |-> listed]
        /\ UNCHANGED <<clock, btcCache>>
    BY <1>2 DEF EcbAnswers
  <2>3. rate \div DayLength >= asked[u] \div DayLength
    BY <2>1, DaysGrow, DaysAreTimes
  <2> QED
    BY <2>1, <2>2, <2>3
<1> QED
  BY <1>1, <1>2 DEF EcbServes

-----------------------------------------------------------------------------
(***************************************************************************)
(* What the snapshot, the creation and the refreshers hold.  A rate on its *)
(* way into the snapshot is backed, and hardly older than the rate in      *)
(* whose place it goes.  A refresher may not know that its own legs have   *)
(* been dropped or reset, but it knows every live rate that is still       *)
(* there, since nobody else writes those.                                  *)
(***************************************************************************)
RatesBacked ==
  \A leg \in DOMAIN rates :
    IF leg = Sats THEN "btc" \in providers /\ BtcBacked(rates[leg])
    ELSE rates[leg] > 0 => "ecb" \in providers /\ EcbBacked(rates[leg])

CreationBacked ==
  /\ creation.pc = "btc" => "btc" \in providers
  /\ creation.pending # {} => "ecb" \in providers
  /\ Sats \in DOMAIN creation.sats => "btc" \in providers /\ BtcBacked(creation.sats[Sats])
  /\ \A leg \in DOMAIN creation.live :
       leg \in Crosses /\ "ecb" \in providers /\ EcbBacked(creation.live[leg])

BtcRefreshes ==
  btc.pc # "asleep" =>
    /\ "btc" \in providers
    /\ creation.pc = "done"
    /\ btc.pc = "fetching" =>
         /\ Sats \in DOMAIN btc.prior => BtcBacked(btc.prior[Sats])
         /\ Sats \in DOMAIN rates => Sats \in DOMAIN btc.prior /\ btc.prior[Sats] = rates[Sats]
    /\ btc.pc \in {"fetched", "kept"} =>
         /\ Sats \in DOMAIN btc.sats
         /\ BtcBacked(btc.sats[Sats])
         /\ Sats \in DOMAIN rates => rates[Sats] <= btc.sats[Sats] + MaxLatency

EcbRefreshes ==
  ecb.pc # "asleep" =>
    /\ "ecb" \in providers
    /\ creation.pc = "done"
    /\ Tabled \subseteq DOMAIN ecb.prior
    /\ \A leg \in DOMAIN ecb.prior \ {Sats} : ecb.prior[leg] > 0 => EcbBacked(ecb.prior[leg])
    /\ \A leg \in DOMAIN rates \ {Sats} : rates[leg] \in {0, ecb.prior[leg]}
    /\ \A leg \in DOMAIN ecb.live :
         /\ leg \in Crosses
         /\ EcbBacked(ecb.live[leg])
         /\ leg \in DOMAIN rates => rates[leg] <= ecb.live[leg] + MaxLatency
    /\ \A leg \in DOMAIN ecb.kept :
         leg \in Crosses /\ leg \in DOMAIN ecb.prior /\ ecb.kept[leg] = ecb.prior[leg]
    /\ DOMAIN ecb.prior \cap Crosses \subseteq ecb.pending \cup DOMAIN ecb.live \cup DOMAIN ecb.kept

SnapshotInv ==
  /\ ProvidersType /\ ProvidersInv
  /\ SnapshotType /\ SatsLegs
  /\ RatesBacked /\ CreationBacked
  /\ BtcRefreshes /\ EcbRefreshes

(* A step that leaves the snapshot, or one of the tasks, alone. *)
LEMMA RatesStayBacked ==
  ASSUME ProvidersType, ProvidersInv, ProviderStep, UNCHANGED <<providers, rates>>, RatesBacked
  PROVE  RatesBacked'
BY BackingIsKept DEF RatesBacked

LEMMA CreationStaysBacked ==
  ASSUME ProvidersType, ProvidersInv, ProviderStep, UNCHANGED <<providers, creation>>,
         CreationBacked
  PROVE  CreationBacked'
BY BackingIsKept DEF CreationBacked

LEMMA BtcStaysBacked ==
  ASSUME ProvidersType, ProvidersInv, ProviderStep,
         UNCHANGED <<providers, creation, rates, btc>>, BtcRefreshes
  PROVE  BtcRefreshes'
BY BackingIsKept DEF BtcRefreshes

LEMMA EcbStaysBacked ==
  ASSUME ProvidersType, ProvidersInv, ProviderStep,
         UNCHANGED <<providers, creation, rates, ecb>>, EcbRefreshes
  PROVE  EcbRefreshes'
BY BackingIsKept DEF EcbRefreshes

(* A live cross rate and one of the satoshi never meet in one snapshot. *)
LEMMA EitherBtcOrEcb ==
  ASSUME SnapshotType, OneRefresher
  PROVE  ~ ("btc" \in providers /\ "ecb" \in providers)
BY ConfigurationsAssumption DEF SnapshotType, OneRefresher

(* The three tasks and the others, as Next divides them. *)
CreationStep ==
  \/ CreationAsks \/ CreationLacksBtc \/ CreationInserts \/ CreationAborts
  \/ \E rate \in 1 .. MaxTime : CreationHasBtc(rate)
  \/ \E leg \in Crosses : CreationLacksEcb(leg)
  \/ \E leg \in Crosses, rate \in 1 .. MaxTime : CreationHasEcb(leg, rate)

BtcStep ==
  \/ BtcLoads \/ BtcFetchFails \/ BtcWrites \/ BtcStops
  \/ \E rate \in 1 .. MaxTime : BtcLoadsFromCache(rate) \/ BtcFetches(rate)

EcbStep ==
  \/ EcbLoads \/ EcbRequests \/ EcbWrites \/ EcbStops
  \/ \E leg \in Crosses : EcbFetchFails(leg)
  \/ \E leg \in Crosses, rate \in 1 .. MaxTime : EcbFetches(leg, rate)

OtherStep ==
  \/ Tick /\ UNCHANGED snapshotVars
  \/ \E u \in BtcOthers : OtherUsesBtc(u)
  \/ \E u \in EcbOthers : OtherUsesEcb(u)

Kept ==
  \A leg \in DOMAIN rates :
    /\ OneRefresher => Survives(leg)
    /\ leg \in DOMAIN rates' /\ rates'[leg] > 0 => rates[leg] <= rates'[leg] + MaxLatency

Fresh ==
  /\ btc.pc # "fetched" /\ btc'.pc = "fetched" =>
       btc'.sats[Sats] + CacheTtl + MaxLatency >= clock
  /\ \A leg \in DOMAIN ecb'.live \ DOMAIN ecb.live :
       ecb'.live[leg] \div DayLength >= Began("ecb") \div DayLength

LEMMA SameRatesAreKept ==
  ASSUME SnapshotType, rates' = rates
  PROVE  Kept
<1>1. \A leg \in DOMAIN rates : rates[leg] \in Nat
  BY RatesOfLegs, TimesAssumption DEF SnapshotType
<1> QED
  BY <1>1, TimesAssumption DEF Kept, Survives

LEMMA CreationKeepsInv ==
  ASSUME SnapshotInv, ProviderStep, CreationStep
  PROVE  /\ RatesBacked' /\ CreationBacked' /\ BtcRefreshes' /\ EcbRefreshes'
         /\ Kept /\ Fresh
<1> USE DEF SnapshotInv
<1>1. creation.pc # "done" /\ UNCHANGED <<providers, btc, ecb>>
  BY DEF CreationStep, CreationAsks, CreationLacksBtc, CreationInserts, CreationAborts,
     CreationHasBtc, CreationLacksEcb, CreationHasEcb, snapshotVars
<1>2. btc.pc = "asleep" /\ ecb.pc = "asleep" /\ BtcRefreshes' /\ EcbRefreshes' /\ Fresh
  BY <1>1 DEF BtcRefreshes, EcbRefreshes, Fresh
<1>3. DOMAIN rates = {} /\ Kept
  BY <1>1, NoRatesType DEF SnapshotType, Kept
<1>4. CASE CreationAsks
  BY <1>2, <1>3, <1>4, RatesStayBacked, CreationStaysBacked DEF CreationAsks, snapshotVars
<1>5. CASE CreationLacksBtc \/ \E leg \in Crosses : CreationLacksEcb(leg)
  <2>1. /\ UNCHANGED <<providers, rates>>
        /\ creation'.pc # "btc" /\ UNCHANGED <<creation.sats, creation.live>>
        /\ creation'.pending \subseteq creation.pending
    BY <1>5 DEF CreationLacksBtc, CreationLacksEcb, SnapshotType, CreationType
  <2>2. CreationBacked'
    BY <2>1, BackingIsKept DEF CreationBacked
  <2> QED
    BY <1>2, <1>3, <2>1, <2>2, RatesStayBacked
<1>a. CASE CreationAborts
  <2>1. CreationBacked' /\ UNCHANGED <<providers, rates>>
    BY <1>a, NoRatesType DEF CreationAborts, CreationOver, CreationBacked
  <2> QED
    BY <1>2, <1>3, <2>1, RatesStayBacked
<1>6. CASE CreationInserts
  <2> DEFINE sats == creation.sats
             live == creation.live
  <2>1. sats \in Rates /\ live \in Rates
    BY DEF SnapshotType, CreationType
  <2>2. /\ DOMAIN rates' = Tabled \cup DOMAIN sats
        /\ \A leg \in Tabled \cup DOMAIN sats :
             rates'[leg] = IF leg \in DOMAIN sats THEN sats[leg]
                           ELSE IF leg \in DOMAIN live THEN live[leg] ELSE 0
    <3>1. rates' = Captured(sats, live)
      BY <1>6 DEF CreationInserts
    <3> HIDE DEF sats, live
    <3> QED
      BY <2>1, <3>1, CapturedRates
  <2>3. /\ creation' = CreationOver("done")
        /\ UNCHANGED providerVars
    BY <1>6 DEF CreationInserts
  <2>4. CreationBacked'
    BY <2>3, NoRatesType DEF CreationOver, CreationBacked
  <2>5. ASSUME NEW leg \in DOMAIN rates'
        PROVE  IF leg = Sats THEN "btc" \in providers' /\ BtcBacked(rates[leg])'
               ELSE rates'[leg] > 0 => "ecb" \in providers' /\ EcbBacked(rates[leg])'
    <3>1. CASE leg = Sats
      <4>1. leg \in DOMAIN sats /\ rates'[leg] = sats[leg]
        BY <2>2, <2>5, <3>1, LegsAssumption
      <4>2. "btc" \in providers /\ BtcBacked(sats[leg])
        BY <3>1, <4>1 DEF CreationBacked
      <4> QED
        BY <1>1, <2>3, <3>1, <4>1, <4>2 DEF BtcBacked, providerVars
    <3>2. CASE leg # Sats
      <4>1. leg \notin DOMAIN sats
        BY <3>2 DEF SatsLegs
      <4>2. leg \in DOMAIN live => "ecb" \in providers /\ EcbBacked(live[leg])
        BY DEF CreationBacked
      <4> QED
        BY <1>1, <2>2, <2>3, <2>5, <3>2, <4>1, <4>2 DEF EcbBacked, providerVars
    <3> QED
      BY <3>1, <3>2
  <2>6. RatesBacked'
    BY <2>5 DEF RatesBacked
  <2> QED
    BY <1>2, <1>3, <2>4, <2>6
<1>7. ASSUME NEW rate \in 1 .. MaxTime, CreationHasBtc(rate)
      PROVE  RatesBacked' /\ CreationBacked'
  <2>1. BtcBacked(rate)' /\ UNCHANGED <<providers, rates>> /\ "btc" \in providers
    BY <1>7, ServedBtcIsBacked, UsersAssumption DEF CreationHasBtc, CreationBacked
  <2>2. PICK only \in Rates : /\ only = WithLeg(NoRates, Sats, rate)
                              /\ only[Sats] = rate
    BY OnlySats
  <2>3. creation' = [creation EXCEPT !.pc = "ecb", !.sats = only]
    BY <1>7, <2>2 DEF CreationHasBtc
  <2>4. creation'.sats = only /\ UNCHANGED <<creation.live, creation.pending>>
        /\ creation'.pc = "ecb"
    BY <2>3 DEF SnapshotType, CreationType
  <2>5. CreationBacked'
    BY <2>1, <2>2, <2>4, BackingIsKept DEF CreationBacked
  <2> QED
    BY <2>1, <2>5, RatesStayBacked
<1>8. ASSUME NEW leg \in Crosses, NEW rate \in 1 .. MaxTime, CreationHasEcb(leg, rate)
      PROVE  RatesBacked' /\ CreationBacked'
  <2>1. EcbBacked(rate)' /\ UNCHANGED <<providers, rates>> /\ "ecb" \in providers
    BY <1>8, ServedEcbIsBacked, UsersAssumption DEF CreationHasEcb, CreationBacked
  <2>2. creation.live \in Rates /\ leg \in Legs /\ rate \in 0 .. MaxTime
    BY DEF SnapshotType, CreationType, Legs
  <2>a. /\ WithLeg(creation.live, leg, rate) \in Rates
        /\ DOMAIN WithLeg(creation.live, leg, rate) = DOMAIN creation.live \cup {leg}
        /\ WithLeg(creation.live, leg, rate)[leg] = rate
        /\ \A l \in DOMAIN creation.live \ {leg} :
             WithLeg(creation.live, leg, rate)[l] = creation.live[l]
    BY <2>2, WithLegRates
  <2>3. PICK new \in Rates :
          /\ new = WithLeg(creation.live, leg, rate)
          /\ DOMAIN new = DOMAIN creation.live \cup {leg}
          /\ new[leg] = rate
          /\ \A l \in DOMAIN creation.live \ {leg} : new[l] = creation.live[l]
    BY <2>a
  <2>4. creation' = [creation EXCEPT !.live = new, !.pending = @ \ {leg}]
    BY <1>8, <2>3 DEF CreationHasEcb
  <2>5. creation'.live = new /\ UNCHANGED <<creation.sats, creation.pc>>
        /\ creation'.pending \subseteq creation.pending
    BY <2>4 DEF SnapshotType, CreationType
  <2>6. CreationBacked'
    BY <2>1, <2>3, <2>5, BackingIsKept DEF CreationBacked
  <2> QED
    BY <2>1, <2>6, RatesStayBacked
<1> QED
  BY <1>2, <1>3, <1>4, <1>5, <1>a, <1>6, <1>7, <1>8 DEF CreationStep

LEMMA BtcKeepsInv ==
  ASSUME SnapshotInv, ProviderStep, BtcStep
  PROVE  /\ RatesBacked' /\ CreationBacked' /\ BtcRefreshes' /\ EcbRefreshes'
         /\ Kept /\ Fresh
<1> USE UsersAssumption DEF SnapshotInv
<1>1. "btc" \in providers /\ creation.pc = "done" /\ UNCHANGED <<providers, creation, ecb>>
  BY DEF BtcStep, BtcLoads, BtcFetchFails, BtcWrites, BtcStops, BtcLoadsFromCache, BtcFetches,
     BtcRefreshes
<1>2. CreationBacked'
  BY <1>1, CreationStaysBacked
<1>3. rates' = rates => RatesBacked' /\ EcbRefreshes' /\ Kept
  BY <1>1, RatesStayBacked, EcbStaysBacked, SameRatesAreKept
<1>4. \A leg \in DOMAIN rates : rates[leg] \in Nat
  BY RatesOfLegs, TimesAssumption DEF SnapshotType
<1>5. ecb'.live = ecb.live
  BY <1>1
<1>6. CASE BtcLoads
  <2>1. btc' = [btc EXCEPT !.pc = "fetching", !.prior = rates] /\ rates' = rates
    BY <1>6 DEF BtcLoads
  <2>2. btc'.pc = "fetching" /\ btc'.prior = rates
    BY <2>1 DEF SnapshotType, BtcType
  <2>3. Sats \in DOMAIN rates => BtcBacked(rates[Sats])'
    BY <2>1, BackingIsKept DEF RatesBacked
  <2>4. BtcRefreshes'
    BY <1>1, <2>1, <2>2, <2>3 DEF BtcRefreshes, BtcBacked
  <2> QED
    BY <1>2, <1>3, <1>5, <2>1, <2>2, <2>4 DEF Fresh
<1>7. CASE BtcStops
  <2>1. btc'.pc = "asleep" /\ rates' = rates
    BY <1>7 DEF BtcStops, BtcAsleep
  <2> QED
    BY <1>2, <1>3, <1>5, <2>1 DEF Fresh, BtcRefreshes
<1>8. CASE BtcFetchFails
  <2>1. btc.pc = "fetching" /\ rates' = rates
    BY <1>8 DEF BtcFetchFails
  <2>2. CASE Sats \notin DOMAIN btc.prior
    <3>1. btc'.pc = "asleep"
      BY <1>8, <2>2 DEF BtcFetchFails, BtcAsleep
    <3> QED
      BY <1>2, <1>3, <1>5, <2>1, <3>1 DEF Fresh, BtcRefreshes
  <2>3. CASE Sats \in DOMAIN btc.prior
    <3>1. /\ btc'.pc = "kept"
          /\ DOMAIN btc'.sats = {Sats} /\ btc'.sats[Sats] = btc.prior[Sats]
      BY <1>8, <2>3 DEF BtcFetchFails, BtcHas, Restrict
    <3>2. BtcBacked(btc.prior[Sats]) /\ (Sats \in DOMAIN rates => btc.prior[Sats] = rates[Sats])
      BY <2>1, <2>3 DEF BtcRefreshes
    <3>3. BtcBacked(btc.sats[Sats])'
      BY <3>1, <3>2, BackingIsKept DEF BtcBacked
    <3>4. BtcRefreshes'
      BY <1>1, <1>4, <2>1, <3>1, <3>2, <3>3, TimesAssumption DEF BtcRefreshes, BtcBacked
    <3> QED
      BY <1>2, <1>3, <1>5, <2>1, <3>1, <3>4 DEF Fresh
  <2> QED
    BY <2>2, <2>3
<1>9. CASE BtcWrites
  <2>1. btc.pc \in {"fetched", "kept"} /\ btc'.pc = "asleep" /\ UNCHANGED providerVars
    BY <1>9 DEF BtcWrites, BtcAsleep
  <2>2. /\ DOMAIN btc.sats = {Sats}
        /\ BtcBacked(btc.sats[Sats])
        /\ Sats \in DOMAIN rates => rates[Sats] <= btc.sats[Sats] + MaxLatency
    BY <2>1 DEF BtcRefreshes, SatsLegs
  <2>3. /\ DOMAIN rates' = Tabled \cup {Sats}
        /\ \A leg \in Tabled \cup {Sats} :
             rates'[leg] = IF leg = Sats THEN btc.sats[Sats] ELSE 0
    <3>1. btc.sats \in Rates
      BY DEF SnapshotType, BtcType
    <3>2. /\ DOMAIN rates' = Tabled \cup DOMAIN btc.sats
          /\ \A leg \in Tabled \cup DOMAIN btc.sats :
               rates'[leg] = IF leg \in DOMAIN btc.sats THEN btc.sats[leg]
                             ELSE IF leg \in DOMAIN NoRates THEN NoRates[leg] ELSE 0
      BY <1>9, <3>1, NoRatesType, CapturedRates DEF BtcWrites
    <3> QED
      BY <2>2, <3>2, NoRatesType
  <2>4. RatesBacked'
    BY <1>1, <2>1, <2>2, <2>3 DEF RatesBacked, BtcBacked, providerVars
  <2>5. DOMAIN rates \subseteq Tabled \cup {Sats}
    BY <1>1 DEF SnapshotType
  <2>6. btc.sats[Sats] \in Nat /\ btc.sats[Sats] > 0
    BY <2>2, TimesAssumption DEF BtcBacked, ProvidersType, Times
  <2>7. OneRefresher => \A leg \in DOMAIN rates : leg # Sats => rates[leg] = 0
    BY <1>1, <1>4, EitherBtcOrEcb DEF RatesBacked
  <2>8. Kept
    BY <2>2, <2>3, <2>5, <2>6, <2>7, TimesAssumption DEF Kept, Survives
  <2>9. EcbRefreshes'
    <3>1. ecb.pc # "asleep" => \A leg \in DOMAIN ecb.prior \ {Sats} :
                                 ecb.prior[leg] > 0 => EcbBacked(ecb.prior[leg])'
      BY <1>1, <2>1 DEF EcbRefreshes, EcbBacked, providerVars
    <3>2. ecb.pc # "asleep" => \A leg \in DOMAIN ecb.live :
                                 /\ leg \in Crosses /\ leg # Sats
                                 /\ EcbBacked(ecb.live[leg])'
                                 /\ ecb.live[leg] \in Nat
      BY <1>1, <2>1, LegsAssumption, TimesAssumption
         DEF EcbRefreshes, EcbBacked, providerVars, ProvidersType, Times
    <3>3. ecb.pc # "asleep" => \A leg \in DOMAIN ecb.live :
                                 leg \in DOMAIN rates' => rates'[leg] <= ecb.live[leg] + MaxLatency
      BY <2>3, <3>2, TimesAssumption
    <3>4. \A leg \in DOMAIN rates' \ {Sats} : rates'[leg] \in {0, ecb.prior[leg]}
      BY <2>3
    <3> QED
      BY <1>1, <3>1, <3>2, <3>3, <3>4 DEF EcbRefreshes
  <2> QED
    BY <1>2, <1>5, <2>1, <2>4, <2>8, <2>9 DEF Fresh, BtcRefreshes
<1>10. ASSUME NEW rate \in 1 .. MaxTime, BtcLoadsFromCache(rate) \/ BtcFetches(rate)
       PROVE  BtcRefreshes' /\ rates' = rates /\ Fresh
  <2>1. PICK only \in Rates : /\ only = WithLeg(NoRates, Sats, rate)
                              /\ DOMAIN only = {Sats} /\ only[Sats] = rate
    BY OnlySats
  <2>2. rates' = rates /\ btc'.pc = "fetched" /\ btc'.sats = only
    BY <1>10, <2>1 DEF BtcLoadsFromCache, BtcFetches, BtcHas
  <2>3. /\ BtcBacked(rate)'
        /\ \A older : BtcBacked(older) => older <= rate + MaxLatency
        /\ rate + CacheTtl + MaxLatency >= clock
    BY <1>10, ServedBtcIsBacked DEF BtcLoadsFromCache, BtcFetches
  <2>4. Sats \in DOMAIN rates => rates[Sats] <= rate + MaxLatency
    BY <2>3 DEF RatesBacked
  <2>5. BtcRefreshes'
    BY <1>1, <2>1, <2>2, <2>3, <2>4 DEF BtcRefreshes, BtcBacked
  <2> QED
    BY <1>5, <2>1, <2>2, <2>3, <2>5 DEF Fresh
<1> QED
  BY <1>2, <1>3, <1>6, <1>7, <1>8, <1>9, <1>10 DEF BtcStep

LEMMA EcbKeepsInv ==
  ASSUME SnapshotInv, ProviderStep, EcbStep
  PROVE  /\ RatesBacked' /\ CreationBacked' /\ BtcRefreshes' /\ EcbRefreshes'
         /\ Kept /\ Fresh
<1> USE UsersAssumption DEF SnapshotInv
<1>1. "ecb" \in providers /\ creation.pc = "done" /\ UNCHANGED <<providers, creation, btc>>
  BY DEF EcbStep, EcbLoads, EcbRequests, EcbWrites, EcbStops, EcbFetchFails, EcbFetches,
     EcbRefreshes, snapshotVars
<1>2. CreationBacked'
  BY <1>1, CreationStaysBacked
<1>3. rates' = rates => RatesBacked' /\ BtcRefreshes' /\ Kept
  BY <1>1, RatesStayBacked, BtcStaysBacked, SameRatesAreKept
<1>4. /\ \A leg \in DOMAIN rates : rates[leg] \in Nat
      /\ Tabled \subseteq DOMAIN rates /\ DOMAIN rates \subseteq Tabled \cup {Sats}
  BY <1>1, RatesOfLegs, TimesAssumption DEF SnapshotType
<1>5. Sats \notin Crosses /\ Sats \notin Tabled /\ Tabled \subseteq Crosses
  BY LegsAssumption
<1>6. CASE EcbLoads
  <2>1. /\ ecb'.pc = "fetching" /\ ecb'.prior = rates /\ rates' = rates
        /\ ecb'.live = NoRates /\ ecb'.kept = NoRates /\ ecb'.pending = Crosses
    BY <1>6 DEF EcbLoads, EcbAsleep
  <2>2. \A leg \in DOMAIN rates \ {Sats} : rates[leg] > 0 => EcbBacked(rates[leg])'
    BY <2>1, BackingIsKept DEF RatesBacked
  <2>3. EcbRefreshes'
    BY <1>1, <1>4, <2>1, <2>2, NoRatesType DEF EcbRefreshes
  <2> QED
    BY <1>1, <1>2, <1>3, <2>1, <2>3, NoRatesType DEF Fresh
<1>7. CASE EcbRequests
  <2>1. UNCHANGED <<rates, ecb>>
    BY <1>7 DEF EcbRequests, snapshotVars
  <2> QED
    BY <1>1, <1>2, <1>3, <2>1, EcbStaysBacked DEF Fresh
<1>8. CASE EcbStops
  <2>1. ecb' = EcbAsleep /\ rates' = rates
    BY <1>8 DEF EcbStops
  <2>2. ecb'.pc = "asleep" /\ DOMAIN ecb'.live = {}
    BY <2>1, NoRatesType DEF EcbAsleep
  <2> QED
    BY <1>1, <1>2, <1>3, <2>1, <2>2 DEF Fresh, EcbRefreshes
<1>a. ecb.pc = "fetching" =>
        /\ Tabled \subseteq DOMAIN ecb.prior
        /\ \A leg \in DOMAIN ecb.prior \ {Sats} : ecb.prior[leg] > 0 => EcbBacked(ecb.prior[leg])
        /\ \A leg \in DOMAIN rates \ {Sats} : rates[leg] \in {0, ecb.prior[leg]}
        /\ \A leg \in DOMAIN ecb.live :
             /\ leg \in Crosses
             /\ EcbBacked(ecb.live[leg])
             /\ leg \in DOMAIN rates => rates[leg] <= ecb.live[leg] + MaxLatency
        /\ \A leg \in DOMAIN ecb.kept :
             leg \in Crosses /\ leg \in DOMAIN ecb.prior /\ ecb.kept[leg] = ecb.prior[leg]
        /\ DOMAIN ecb.prior \cap Crosses
             \subseteq ecb.pending \cup DOMAIN ecb.live \cup DOMAIN ecb.kept
  BY DEF EcbRefreshes
<1>9. ASSUME NEW leg \in Crosses, EcbFetchFails(leg)
      PROVE  rates' = rates /\ EcbRefreshes' /\ Fresh
  <2>1. ecb.pc = "fetching" /\ rates' = rates
    BY <1>9 DEF EcbFetchFails
  <2>2. PICK kept \in Rates :
          /\ ecb' = [ecb EXCEPT !.kept = kept, !.pending = @ \ {leg}]
          /\ DOMAIN kept = DOMAIN ecb.kept \cup ({leg} \cap DOMAIN ecb.prior)
          /\ \A l \in DOMAIN kept :
               kept[l] = IF l = leg THEN ecb.prior[leg] ELSE ecb.kept[l]
    <3>1. ecb.kept \in Rates /\ ecb.prior \in Rates /\ leg \in Legs
      BY DEF SnapshotType, EcbType, Legs
    <3>2. CASE leg \in DOMAIN ecb.prior
      <4>1. ecb.prior[leg] \in 0 .. MaxTime
        BY <3>1, <3>2, RatesOfLegs
      <4>2. /\ WithLeg(ecb.kept, leg, ecb.prior[leg]) \in Rates
            /\ DOMAIN WithLeg(ecb.kept, leg, ecb.prior[leg]) = DOMAIN ecb.kept \cup {leg}
            /\ WithLeg(ecb.kept, leg, ecb.prior[leg])[leg] = ecb.prior[leg]
            /\ \A l \in DOMAIN ecb.kept \ {leg} :
                 WithLeg(ecb.kept, leg, ecb.prior[leg])[l] = ecb.kept[l]
        BY <3>1, <4>1, WithLegRates
      <4>3. ecb' = [ecb EXCEPT !.kept = WithLeg(ecb.kept, leg, ecb.prior[leg]),
                              !.pending = @ \ {leg}]
        BY <1>9, <3>2 DEF EcbFetchFails
      <4> QED
        BY <3>2, <4>2, <4>3
    <3>3. CASE leg \notin DOMAIN ecb.prior
      <4>1. ecb' = [ecb EXCEPT !.kept = ecb.kept, !.pending = @ \ {leg}]
        BY <1>9, <3>3 DEF EcbFetchFails
      <4>2. \A l \in DOMAIN ecb.kept : l \in DOMAIN ecb.prior
        BY <2>1, <1>a
      <4> QED
        BY <3>1, <3>3, <4>1, <4>2
    <3> QED
      BY <3>2, <3>3
  <2>3. /\ UNCHANGED <<ecb.pc, ecb.prior, ecb.live>>
        /\ ecb'.kept = kept /\ ecb'.pending = ecb.pending \ {leg}
    BY <2>2 DEF SnapshotType, EcbType
  <2>4. EcbRefreshes'
    <3>1. \A l \in DOMAIN ecb.live : EcbBacked(ecb.live[l])'
      <4>1. \A l \in DOMAIN ecb.live : EcbBacked(ecb.live[l])
        BY <1>a, <2>1
      <4> QED
        BY <2>3, <4>1, BackingIsKept
    <3>2. \A l \in DOMAIN ecb.prior \ {Sats} : ecb.prior[l] > 0 => EcbBacked(ecb.prior[l])'
      <4>1. \A l \in DOMAIN ecb.prior \ {Sats} : ecb.prior[l] > 0 => EcbBacked(ecb.prior[l])
        BY <1>a, <2>1
      <4> QED
        BY <2>3, <4>1, BackingIsKept
    <3>3. \A l \in DOMAIN kept : l \in Crosses /\ l \in DOMAIN ecb.prior /\ kept[l] = ecb.prior[l]
      BY <1>9, <1>a, <2>1, <2>2
    <3>4. DOMAIN ecb.prior \cap Crosses
            \subseteq (ecb.pending \ {leg}) \cup DOMAIN ecb.live \cup DOMAIN kept
      BY <1>a, <2>1, <2>2
    <3> QED
      BY <1>1, <1>a, <2>1, <2>3, <3>1, <3>2, <3>3, <3>4 DEF EcbRefreshes
  <2> QED
    BY <1>1, <2>1, <2>3, <2>4 DEF Fresh
<1>10. ASSUME NEW leg \in Crosses, NEW rate \in 1 .. MaxTime, EcbFetches(leg, rate)
       PROVE  rates' = rates /\ EcbRefreshes' /\ Fresh
  <2>1. ecb.pc = "fetching" /\ rates' = rates
    BY <1>10 DEF EcbFetches
  <2>2. ecb.live \in Rates /\ leg \in Legs /\ rate \in 0 .. MaxTime
    BY DEF SnapshotType, EcbType, Legs
  <2>3. /\ WithLeg(ecb.live, leg, rate) \in Rates
        /\ DOMAIN WithLeg(ecb.live, leg, rate) = DOMAIN ecb.live \cup {leg}
        /\ WithLeg(ecb.live, leg, rate)[leg] = rate
        /\ \A l \in DOMAIN ecb.live \ {leg} : WithLeg(ecb.live, leg, rate)[l] = ecb.live[l]
    BY <2>2, WithLegRates
  <2>4. PICK live \in Rates :
          /\ live = WithLeg(ecb.live, leg, rate)
          /\ DOMAIN live = DOMAIN ecb.live \cup {leg}
          /\ live[leg] = rate
          /\ \A l \in DOMAIN ecb.live \ {leg} : live[l] = ecb.live[l]
    BY <2>3
  <2>5. ecb' = [ecb EXCEPT !.live = live, !.pending = @ \ {leg}]
    BY <1>10, <2>4 DEF EcbFetches
  <2>6. /\ UNCHANGED <<ecb.pc, ecb.prior, ecb.kept>>
        /\ ecb'.live = live /\ ecb'.pending = ecb.pending \ {leg}
    BY <2>5 DEF SnapshotType, EcbType
  <2>7. /\ EcbBacked(rate)'
        /\ \A older : EcbBacked(older) => older <= rate + MaxLatency
        /\ rate \div DayLength >= Began("ecb") \div DayLength
    BY <1>10, ServedEcbIsBacked DEF EcbFetches
  <2>8. leg \in DOMAIN rates => rates[leg] <= rate + MaxLatency
    <3>1. leg \in DOMAIN rates /\ rates[leg] > 0 => EcbBacked(rates[leg])
      BY <1>5 DEF RatesBacked
    <3> QED
      BY <1>4, <2>7, <3>1, TimesAssumption
  <2>9. \A l \in DOMAIN live :
          /\ l \in Crosses
          /\ EcbBacked(live[l])'
          /\ l \in DOMAIN rates => rates[l] <= live[l] + MaxLatency
    <3>1. ASSUME NEW l \in DOMAIN live \ {leg}
          PROVE  /\ l \in Crosses
                 /\ EcbBacked(live[l])'
                 /\ l \in DOMAIN rates => rates[l] <= live[l] + MaxLatency
      BY <1>a, <2>1, <2>4, BackingIsKept
    <3> QED
      BY <2>4, <2>7, <2>8, <3>1
  <2>10. EcbRefreshes'
    <3>1. DOMAIN ecb.prior \cap Crosses
            \subseteq (ecb.pending \ {leg}) \cup DOMAIN live \cup DOMAIN ecb.kept
      BY <1>a, <2>1, <2>4
    <3>2. \A l \in DOMAIN ecb.prior \ {Sats} : ecb.prior[l] > 0 => EcbBacked(ecb.prior[l])'
      <4>1. \A l \in DOMAIN ecb.prior \ {Sats} : ecb.prior[l] > 0 => EcbBacked(ecb.prior[l])
        BY <1>a, <2>1
      <4> QED
        BY <2>6, <4>1, BackingIsKept
    <3> QED
      BY <1>1, <1>a, <2>1, <2>6, <2>9, <3>1, <3>2 DEF EcbRefreshes
  <2>11. Fresh
    BY <1>1, <2>4, <2>6, <2>7 DEF Fresh
  <2> QED
    BY <2>1, <2>10, <2>11
<1>11. CASE EcbWrites
  <2>1. /\ ecb.pc = "fetching" /\ ecb.pending = {} /\ ecb' = EcbAsleep
        /\ rates' = Captured(NoRates, Merged(ecb.live, ecb.kept))
        /\ UNCHANGED providerVars
    BY <1>11 DEF EcbWrites
  <2>2. ecb.live \in Rates /\ ecb.kept \in Rates
    BY DEF SnapshotType, EcbType
  <2>3. PICK all \in Rates :
          /\ all = Merged(ecb.live, ecb.kept)
          /\ DOMAIN all = DOMAIN ecb.live \cup DOMAIN ecb.kept
          /\ \A leg \in DOMAIN all :
               all[leg] = IF leg \in DOMAIN ecb.live THEN ecb.live[leg] ELSE ecb.kept[leg]
    <3>1. /\ Merged(ecb.live, ecb.kept) \in Rates
          /\ DOMAIN Merged(ecb.live, ecb.kept) = DOMAIN ecb.live \cup DOMAIN ecb.kept
      BY <2>2, MergedRates
    <3>2. \A leg \in DOMAIN ecb.live \cup DOMAIN ecb.kept :
            Merged(ecb.live, ecb.kept)[leg] =
              IF leg \in DOMAIN ecb.live THEN ecb.live[leg] ELSE ecb.kept[leg]
      BY DEF Merged
    <3> QED
      BY <3>1, <3>2
  <2>4. /\ DOMAIN rates' = Tabled
        /\ \A leg \in Tabled : rates'[leg] = IF leg \in DOMAIN all THEN all[leg] ELSE 0
    <3>1. rates' = Captured(NoRates, all)
      BY <2>1, <2>3
    <3>2. /\ DOMAIN rates' = Tabled \cup DOMAIN NoRates
          /\ \A leg \in Tabled \cup DOMAIN NoRates :
               rates'[leg] = IF leg \in DOMAIN NoRates THEN NoRates[leg]
                             ELSE IF leg \in DOMAIN all THEN all[leg] ELSE 0
      BY <3>1, NoRatesType, CapturedRates
    <3> QED
      BY <3>2, NoRatesType
  <2>5. \A leg \in DOMAIN all :
          \/ leg \in DOMAIN ecb.live /\ all[leg] = ecb.live[leg]
          \/ leg \in DOMAIN ecb.prior \ {Sats} /\ all[leg] = ecb.prior[leg]
    BY <1>5, <1>a, <2>1, <2>3
  <2>6. \A leg \in DOMAIN all : all[leg] > 0 => EcbBacked(all[leg])
    BY <1>a, <2>1, <2>5
  <2>7. RatesBacked'
    <3>1. ASSUME NEW leg \in DOMAIN rates'
          PROVE  leg # Sats /\ (rates'[leg] > 0 => "ecb" \in providers' /\ EcbBacked(rates[leg])')
      <4>1. leg \in Tabled /\ leg # Sats
        BY <1>5, <2>4
      <4>2. rates'[leg] > 0 => EcbBacked(rates'[leg])
        BY <2>4, <2>6, <4>1
      <4> QED
        BY <1>1, <2>1, <4>1, <4>2 DEF EcbBacked, providerVars
    <3> QED
      BY <3>1 DEF RatesBacked
  <2>8. BtcRefreshes'
    BY <1>1, <1>5, <2>1, <2>4 DEF BtcRefreshes, BtcBacked, providerVars
  <2>9. \A leg \in DOMAIN ecb.live : ecb.live[leg] \in Nat /\ ecb.live[leg] > 0
    BY <1>a, <2>1, TimesAssumption DEF EcbBacked, ProvidersType, Times
  <2>10. ASSUME NEW leg \in DOMAIN rates, leg \in DOMAIN rates', rates'[leg] > 0
         PROVE  rates[leg] <= rates'[leg] + MaxLatency
    <3>1. leg \in Tabled /\ leg # Sats /\ leg \in DOMAIN all /\ rates'[leg] = all[leg]
      BY <1>5, <2>4, <2>10
    <3>2. rates[leg] \in Nat /\ rates[leg] \in {0, ecb.prior[leg]}
      BY <1>4, <1>a, <2>1, <3>1
    <3>3. rates'[leg] \in Nat
      BY <2>3, <3>1, RatesOfLegs, TimesAssumption
    <3>4. CASE leg \in DOMAIN ecb.live /\ all[leg] = ecb.live[leg]
      BY <1>a, <2>1, <3>1, <3>4
    <3>5. CASE all[leg] = ecb.prior[leg]
      BY <3>1, <3>2, <3>3, <3>5, TimesAssumption
    <3> QED
      BY <2>5, <3>1, <3>4, <3>5
  <2>11. ASSUME OneRefresher, NEW leg \in DOMAIN rates
         PROVE  Survives(leg)
    <3>1. "btc" \notin providers
      BY <1>1, <2>11, EitherBtcOrEcb
    <3>2. leg # Sats /\ leg \in Tabled
      BY <1>4, <3>1 DEF RatesBacked
    <3>3. leg \in DOMAIN all
      BY <1>5, <1>a, <2>1, <2>3, <3>2
    <3>4. rates[leg] \in {0, ecb.prior[leg]}
      BY <1>a, <2>1, <3>2
    <3>5. rates[leg] > 0 => all[leg] > 0
      BY <2>5, <2>9, <3>3, <3>4
    <3> QED
      BY <2>4, <3>2, <3>3, <3>5 DEF Survives
  <2>12. Kept
    BY <2>10, <2>11 DEF Kept
  <2>13. ecb'.pc = "asleep" /\ DOMAIN ecb'.live = {}
    BY <2>1, NoRatesType DEF EcbAsleep
  <2> QED
    BY <1>1, <1>2, <2>7, <2>8, <2>12, <2>13 DEF Fresh, EcbRefreshes
<1> QED
  BY <1>2, <1>3, <1>6, <1>7, <1>8, <1>9, <1>10, <1>11 DEF EcbStep

LEMMA OthersKeepInv ==
  ASSUME SnapshotInv, ProviderStep, OtherStep \/ UNCHANGED vars
  PROVE  /\ SnapshotType' /\ SatsLegs'
         /\ RatesBacked' /\ CreationBacked' /\ BtcRefreshes' /\ EcbRefreshes'
         /\ Kept /\ Fresh
<1> USE DEF SnapshotInv
<1>1. UNCHANGED <<providers, rates, creation, btc, ecb>>
  BY DEF OtherStep, OtherUsesBtc, OtherUsesEcb, snapshotVars, vars
<1>2. SnapshotType' /\ SatsLegs'
  BY <1>1 DEF SnapshotType, SatsLegs, CreationType, BtcType, EcbType
<1> QED
  BY <1>1, <1>2, RatesStayBacked, CreationStaysBacked, BtcStaysBacked, EcbStaysBacked,
     SameRatesAreKept DEF Fresh

LEMMA InitHolds ==
  ASSUME Init
  PROVE  SnapshotInv
<1> USE DEF Init
<1>1. ProvidersType /\ ProvidersInv
  <2>1. clock = 1 /\ 1 <= MaxTime => ProvidersType
    BY TimesAssumption DEF ProvidersInit, ProvidersType, Times
  <2> QED
    BY <2>1, TimesAssumption DEF ProvidersInit, ProvidersInv
<1>2. SnapshotType /\ SatsLegs
  BY NoRatesType, AsleepTypes
     DEF SnapshotType, SatsLegs, CreationType, BtcType, EcbType, BtcAsleep
<1>3. RatesBacked /\ CreationBacked /\ BtcRefreshes /\ EcbRefreshes
  BY NoRatesType DEF RatesBacked, CreationBacked, BtcRefreshes, EcbRefreshes, BtcAsleep, EcbAsleep
<1> QED
  BY <1>1, <1>2, <1>3 DEF SnapshotInv

LEMMA StepHolds ==
  ASSUME SnapshotInv, [Next]_vars
  PROVE  SnapshotInv' /\ Kept /\ Fresh
<1>1. ProviderStep
  BY NextIsProviderStep DEF ProviderStep, vars
<1>2. ProvidersType' /\ ProvidersInv'
  BY <1>1, ProvidersKeepType, ProvidersKeepInv DEF SnapshotInv
<1>3. CreationStep \/ BtcStep \/ EcbStep \/ OtherStep \/ UNCHANGED vars
  BY DEF Next, CreationStep, BtcStep, EcbStep, OtherStep
<1>4. CASE CreationStep
  BY <1>1, <1>2, <1>4, CreationKeepsType, CreationKeepsInv DEF SnapshotInv, CreationStep
<1>5. CASE BtcStep
  BY <1>1, <1>2, <1>5, BtcKeepsType, BtcKeepsInv DEF SnapshotInv, BtcStep, BtcRefreshes
<1>6. CASE EcbStep
  BY <1>1, <1>2, <1>6, EcbKeepsType, EcbKeepsInv DEF SnapshotInv, EcbStep, EcbRefreshes
<1>7. CASE OtherStep \/ UNCHANGED vars
  BY <1>1, <1>2, <1>7, OthersKeepInv DEF SnapshotInv
<1> QED
  BY <1>3, <1>4, <1>5, <1>6, <1>7

-----------------------------------------------------------------------------
(***************************************************************************)
(* The theorems, for a store with any set of providers.                    *)
(***************************************************************************)
LEMMA SnapshotInvariance == Spec => []SnapshotInv
<1>1. SnapshotInv /\ [Next]_vars => SnapshotInv'
  BY StepHolds
<1> QED
  BY <1>1, InitHolds, PTL DEF Spec

(* The snapshot has the tabled legs and perhaps the satoshi, and no others,  *)
(* and every task holds rates of the envelope's legs.                        *)
THEOREM SnapshotTypeCorrect == Spec => []TypeOK
<1>1. SnapshotInv => TypeOK
  BY TypeOKParts DEF SnapshotInv
<1> QED
  BY <1>1, SnapshotInvariance, PTL

(* Whatever fails, whoever shares the providers and whoever else writes the  *)
(* row, no refresh puts a rate in the place of one that is newer by more     *)
(* than the time of one request; with one refresher, none loses a leg or     *)
(* resets it.                                                                *)
THEOREM RefreshKeepsLegs == Spec => LegsAreKept
<1>1. SnapshotInv /\ [Next]_vars => [Kept]_vars
  BY StepHolds
<1> QED
  BY <1>1, SnapshotInvariance, PTL DEF Spec, LegsAreKept, Kept

(* No refresh is given a rate of the satoshi beyond the life of the cache    *)
(* and one request, or a cross rate of a day before its call, whichever      *)
(* refreshers the store has.                                                 *)
THEOREM RefreshGetsFreshRates == Spec => RatesAreFresh
<1>1. SnapshotInv /\ [Next]_vars => [Fresh]_vars
  BY StepHolds
<1> QED
  BY <1>1, SnapshotInvariance, PTL DEF Spec, RatesAreFresh, Fresh
=============================================================================
