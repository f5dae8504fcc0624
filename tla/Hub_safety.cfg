\* Two hooks, one lab, answered twice; every kind of fault and of diagnostic.
CONSTANTS
  h1 = h1
  h2 = h2
  lab1 = lab1
  lab2 = lab2
  Testers = {}
  Yamls = {pass, fail, garbage}
  Passing = {pass}
  Malformed = {garbage}
  Hooks <- TwoHooks
  Labs <- OneLab
  Jobs <- TwoHooksJobs
  Threads = 1
  Slow = {}
  ChanBuffer = 0
  MaxAnswers = 2
  MaxFaults = 2
SPECIFICATION HubSpec
INVARIANTS
  HubInv
  ZipKept
  NoZipLeak
  VerdictIsFounded
  CommentsAreFounded
  GradeIsReported
PROPERTIES
  GradeIsKept
SYMMETRY HookSymmetry
CHECK_DEADLOCK FALSE
