\* Two attempts on any of the four rails, three ticks of the clock.
CONSTANTS
  p1 = p1
  p2 = p2
  None = None
  Malformed = Malformed
  Expired = Expired
  Garbled = Garbled
  Payments <- MCPayments
  Responses <- MCResponses
  Funding <- MCFunding
  EvmNetworks = {"base"}
  KnownFiats = {"usd"}
  FiatMinimum = 2
  DefaultValidity = 2
  DefaultExpiry = 3
  MaxFee = 1000
  MaxTime = 3
SPECIFICATION RailsSpec
SYMMETRY PaymentSymmetry
INVARIANT PricesCoverSpending
INVARIANT FailuresCostNothing
INVARIANT SpendingEndsWithChallenge
INVARIANT TakenNoncesAreSkipped
INVARIANT ReceiptsSettleTheirChallenge
CHECK_DEADLOCK FALSE
