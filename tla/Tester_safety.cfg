\* Two instances; a good job, one of an unconfigured lab, one undecodable.
\* The diagnostics are all alike: what they say is the matter of Grader_one.
\* The property is a step property that names no tester: the symmetry is sound.
CONSTANTS
  Testers = {t1, t2}
  Jobs = {good, nolab, bad}
  Undecodable = {bad}
  Unconfigured = {nolab}
  Parallelism = 2
  Outputs = {error}
  ErrorReport = error
  Yamls = {error}
  ChanBuffer = 0
  ReportsKey = TRUE
  MaxFailures = 1
SPECIFICATION TesterSpec
SYMMETRY Symmetry
INVARIANTS
  TesterInv
  NoJobLost
  SlotsAccounted
  WorkIsUnacked
  DuplicatesNeedFailures
  OneReport
PROPERTIES
  ImplementsService
CHECK_DEADLOCK FALSE
