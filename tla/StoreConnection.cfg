\* Two draws for the free capacity, one of them perhaps a retry of the other,
\* and a third call about an earlier draw; two of the callers may be cancelled.
SPECIFICATION FairConnectionSpec
CONSTANTS
  c1 = c1
  c2 = c2
  c3 = c3
  new = new
  spare = spare
  old = old
  None = None
  Calls <- MCCalls
  Keys <- MCKeys
  Amount <- MCAmount
  Cap = 2
  InitialRows <- MCInitialRows
  Jobs <- MCJobs
  MaxCancels = 2
INVARIANT TransactionsHaveOwners
INVARIANT SettlementsStand
INVARIANT ChecksAreExclusive
PROPERTY AtomicUntilCancelled
PROPERTY EveryoneIsAnswered
CHECK_DEADLOCK FALSE
