\* Three draws compete for a cap that the amounts fill in several ways.  A draw
\* expires while the envelope is still open, so its capacity can be granted anew,
\* and MaxTime leaves room for the last draw of the open envelope to expire.
CONSTANTS
  Keys = {k1, k2, k3}
  Amounts = {1, 2}
  Cap = 3
  EnvelopeExpiry = 2
  DrawTtl = 1
  MaxTime = 4
SPECIFICATION FairLedgerSpec
INVARIANT CapExceededOnlyByLateSettlement
INVARIANT ReceiptsDescribeRows
PROPERTY SettledDrawsAreFinal
PROPERTY ReservationsEnd
