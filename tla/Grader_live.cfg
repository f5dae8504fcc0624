\* One hook with two labs, one tester that may fail, with a parallelism that no
\* prefetch count can express; a hub that does not fail.
CONSTANTS
  h1 = h1
  h2 = h2
  lab1 = lab1
  lab2 = lab2
  Testers = {t1}
  Outputs = {pass}
  ErrorReport = error
  Yamls = {pass, error}
  Passing = {pass}
  Malformed = {}
  Hooks <- OneHook
  Labs <- TwoLabs
  Jobs <- TwoLabsJobs
  Undecodable = {}
  Unconfigured = {}
  Parallelism = 65536
  ReportsKey = FALSE
  MaxFailures = 1
  Threads = 1
  Slow = {}
  ChanBuffer = 0
  MaxAnswers = 2
  MaxFaults = 0
SPECIFICATION FairGraderSpec
INVARIANTS
  TasksBounded
PROPERTIES
  EveryJobReported
CHECK_DEADLOCK FALSE
