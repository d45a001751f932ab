SPECIFICATION FairSpec
CONSTANTS
  Runs = {r1, r2, r3}
  Free = Free
  MaxPolls = 2
  Failures = {"build", "config", "database", "model", "crash"}
INVARIANT TypeOK
INVARIANT OneServes
INVARIANT AnnouncedHasPort
PROPERTY SomeoneServes
\* Every script has run, and one server is left or none.
CHECK_DEADLOCK FALSE
