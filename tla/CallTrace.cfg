\* A 402 that offers every kind of rail; any writer of events may fail.  The call
\* ends, and nothing is left to do then.
CONSTANTS
  None = None
  Offered = {"x402", "l402", "mpp-tempo", "mpp-spt"}
SPECIFICATION FairSpec
INVARIANT OneVerdict
INVARIANT EventsAreTrue
INVARIANT ServiceReachesCaller
INVARIANT UntracedCallsMissedOne
PROPERTY CallsReturn
CHECK_DEADLOCK FALSE
