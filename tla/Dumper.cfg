\* Three reports, of two labs and of two repositories; a job that may be foreign;
\* a repository whose name looks like a number; two crashes or lost connections,
\* anywhere.
CONSTANTS
  j1 = j1
  j2 = j2
  j3 = j3
  alice = alice
  bob = bob
  lab1 = lab1
  lab2 = lab2
  Jobs <- ThreeJobs
  RepoOf <- RepoOf3
  LabOf <- LabOf3
  Foreign = {j2}
  Percents = {40, 90}
  NoPercent = none
  Numeric = {bob}
  MaxReports = 3
  MaxFaults = 2
SPECIFICATION FairDumperSpec
INVARIANTS
  DumperInv
  HighestKept
PROPERTIES
  KeepsBook
  EveryReportEntered
CHECK_DEADLOCK FALSE
