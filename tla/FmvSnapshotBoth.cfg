\* A store with both refreshers.  One of the two cross rates is unknown to
\* the offline table, like jpy->eur.
CONSTANTS
  None = None
  Users = {"creation", "btc", "ecb", "another btc", "another ecb"}
  Sats = "sats"
  Crosses = {"usd", "jpy"}
  Tabled = {"usd"}
  Configurations = {{"btc", "ecb"}}
  BtcOthers = {"another btc"}
  EcbOthers = {"another ecb"}
  CacheTtl = 2
  DayLength = 2
  MaxLatency = 1
  MaxTime = 3
SPECIFICATION Spec
PROPERTY OtherLegsSurvive
CHECK_DEADLOCK FALSE
