\* The same conversions between a currency with minor units and the yen.
CONSTANTS
  None = None
  RateScale = 100
  StableUnits = 50
  MinorPerMajor <- MCMinorPerMajor
  OfflineRates <- MCOfflineRates
  Requests = {"rq1"}
  Adapters <- MCAdapters
  Rules <- MCRules
  DefaultRail = "spt"
  Offers <- MCYenOffers
  Lifetimes = {1}
  References = {"usd", "jpy"}
  Snapshot <- MCSnapshot
  StickyTtl = 2
  MaxTime = 1
SPECIFICATION Spec
INVARIANT QuotesCoverPrices
CHECK_DEADLOCK FALSE
