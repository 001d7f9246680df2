\* One credential, since no operation touches two; its flow and two other
\* callers of attempt_recovery interleave.  The system may stop: all calls end.
CONSTANTS
  Credentials = {c1}
  Jobs = {"job1", "job2"}
SPECIFICATION FairSpec
INVARIANT RowsTellService
INVARIANT HoldsHaveReasons
PROPERTY FollowsStateMachine
PROPERTY CallsEnd
CHECK_DEADLOCK FALSE
