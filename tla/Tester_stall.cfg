\* One permit, and a message that does not decode.
CONSTANTS
  Testers = {t1}
  Jobs = {good, bad}
  Undecodable = {bad}
  Unconfigured = {}
  Parallelism = 1
  Outputs = {report}
  ErrorReport = error
  Yamls = {report, error}
  ChanBuffer = 0
  ReportsKey = TRUE
  MaxFailures = 0
SPECIFICATION FairTesterSpec
PROPERTIES
  EveryJobSettled
CHECK_DEADLOCK FALSE
