\* The claim that a rollback is for payments that never left.
CONSTANTS
  rq1 = rq1
  rq2 = rq2
  x402 = x402
  l402 = l402
  None = None
  Requests <- MCRequests
  Rails <- MCRails
  AllowedRails = {x402, l402}
  AmbiguousRails = {l402}
  MaxPerCall <- MCMaxPerCall
  Keys <- MCKeys
  Amounts = {1}
  Cap = 1
  EnvelopeExpiry = 2
  DrawTtl = 0
  MaxTime = 1
SPECIFICATION FlowSpec
INVARIANT RolledBackPaysNeverLeft
