\* Two requests of one sticky key, three rails, and a clock that outlasts the
\* entries of the cache.
CONSTANTS
  None = None
  RateScale = 100
  StableUnits = 50
  MinorPerMajor <- MCMinorPerMajor
  OfflineRates <- MCOfflineRates
  Requests = {"rq1", "rq2"}
  Adapters <- MCAdapters
  Rules <- MCRules
  DefaultRail = "spt"
  Offers <- MCOffers
  Lifetimes = {1, 3}
  References = {"usd", "eur", None}
  Snapshot <- MCSnapshot
  StickyTtl = 2
  MaxTime = 2
SPECIFICATION Spec
INVARIANT TypeOK
INVARIANT FailoverFollowsRank
INVARIANT RefusedHavingTriedAll
PROPERTY StickyRailsHavePaid
INVARIANT StickinessEndsWithFailure
INVARIANT QuotesCoverPrices
INVARIANT TracesStayWithinQuotes
CHECK_DEADLOCK FALSE
