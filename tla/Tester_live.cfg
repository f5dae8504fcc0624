\* One instance that may fail twice; every decodable job ends, with one permit
\* more than undecodable messages.
CONSTANTS
  Testers = {t1}
  Jobs = {good, nolab, bad}
  Undecodable = {bad}
  Unconfigured = {nolab}
  Parallelism = 2
  Outputs = {report}
  ErrorReport = error
  Yamls = {report, error}
  ChanBuffer = 0
  ReportsKey = TRUE
  MaxFailures = 2
SPECIFICATION FairTesterSpec
PROPERTIES
  EveryJobSettled
CHECK_DEADLOCK FALSE
