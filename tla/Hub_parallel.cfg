\* Two threads, and a hook that takes for ever to zip.
CONSTANTS
  h1 = h1
  h2 = h2
  lab1 = lab1
  lab2 = lab2
  Testers = {}
  Yamls = {pass}
  Passing = {pass}
  Malformed = {}
  Hooks <- TwoHooks
  Labs <- OneLab
  Jobs <- TwoHooksJobs
  Threads = 2
  Slow = {h1}
  ChanBuffer = 0
  MaxAnswers = 1
  MaxFaults = 0
SPECIFICATION FairHubSpec
PROPERTIES
  PackagingInParallel
CHECK_DEADLOCK FALSE
