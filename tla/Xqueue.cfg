\* Two submissions of any form, answers that repeat or do not parse, a fault.
CONSTANTS
  s1 = s1
  s2 = s2
  Submissions <- TwoSubmissions
  Yamls = {good, bad}
  Malformed = {bad}
  MaxAnswers = 2
  MaxFaults = 1
SPECIFICATION FairXSpec
INVARIANTS
  XInv
  SubmissionsAccounted
  AckedIsDealt
PROPERTIES
  EveryGradeReturned
CHECK_DEADLOCK FALSE
