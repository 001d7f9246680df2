\* A store with one of the two refreshers, or with both, and one cross rate.
CONSTANTS
  None = None
  Users = {"creation", "btc", "ecb", "another btc", "another ecb"}
  Sats = "sats"
  Crosses = {"usd"}
  Tabled = {"usd"}
  Configurations = {{"btc"}, {"ecb"}, {"btc", "ecb"}}
  BtcOthers = {"another btc"}
  EcbOthers = {"another ecb"}
  CacheTtl = 2
  DayLength = 3
  MaxLatency = 1
  MaxTime = 5
SPECIFICATION Spec
PROPERTY LegsAreKept
PROPERTY RatesAreFresh
CHECK_DEADLOCK FALSE
