\* Two requests fail over between two rails.  x402 is allowed by the envelope and
\* limited per call; l402 is neither, and its pay() can fail after the funds left.
CONSTANTS
  rq1 = rq1
  rq2 = rq2
  x402 = x402
  l402 = l402
  None = None
  Requests <- MCRequests
  Rails <- MCRails
  AllowedRails = {x402}
  AmbiguousRails = {l402}
  MaxPerCall <- MCMaxPerCall
  Keys <- MCKeys
  Amounts = {1, 2}
  Cap = 2
  EnvelopeExpiry = 2
  DrawTtl = 0
  MaxTime = 2
SPECIFICATION FlowSpec
SYMMETRY RequestSymmetry
INVARIANT SpendIsRecorded
INVARIANT GivenUpDrawsAreNotCharged
INVARIANT OnlyHiddenPaymentsAreRepeated
INVARIANT PaymentsAreAuthorised
