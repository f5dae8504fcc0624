\* Every project, given and answered as amqp-to-test does or by hand, and what
\* the tests may print on a plain one.
CONSTANTS
  Sources = {"zip", "absolute", "relative"}
  TestFiles = {"absolute", "bare"}
  Outputs = {"written", "nofile"}
  Cases <- MCCases
SPECIFICATION FeedbackSpec
INVARIANTS
  FeedbackInv
  ReportIsTrue
  VerdictIsEarned
  FailuresAreTold
  ReceiversAgree
PROPERTIES
  EveryBuildIsTold
