\* One job, two testers, a failure on either side.
CONSTANTS
  h1 = h1
  h2 = h2
  lab1 = lab1
  lab2 = lab2
  Testers = {t1, t2}
  Outputs = {pass, fail}
  ErrorReport = error
  Yamls = {pass, fail, error}
  Passing = {pass}
  Malformed = {}
  Hooks <- OneHook
  Labs <- OneLab
  Jobs <- OneJob
  Undecodable = {}
  Unconfigured = {}
  Parallelism = 1
  ReportsKey = FALSE
  MaxFailures = 1
  Threads = 1
  Slow = {}
  ChanBuffer = 0
  MaxAnswers = 2
  MaxFaults = 1
SPECIFICATION GraderSpec
INVARIANTS
  MissHasCause
PROPERTIES
  SuccessIsKept
  RunsTesters
  RunsHub
CHECK_DEADLOCK FALSE
