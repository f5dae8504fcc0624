\* A diagnostic that is not a report.
CONSTANTS
  h1 = h1
  h2 = h2
  lab1 = lab1
  lab2 = lab2
  Testers = {}
  Yamls = {pass, garbage}
  Passing = {pass}
  Malformed = {garbage}
  Hooks <- OneHook
  Labs <- OneLab
  Jobs <- OneJob
  Threads = 1
  Slow = {}
  ChanBuffer = 0
  MaxAnswers = 1
  MaxFaults = 0
SPECIFICATION FairHubSpec
PROPERTIES
  ZipRemovedOnDiagnostic
CHECK_DEADLOCK FALSE
