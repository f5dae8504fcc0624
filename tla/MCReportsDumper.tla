--------------------------- MODULE MCReportsDumper ---------------------------
(* A small instance of ReportsDumper for TLC. *)
EXTENDS ReportsDumper, TLC

CONSTANTS j1, j2, j3, alice, bob, lab1, lab2

ThreeJobs == {j1, j2, j3}

\* Two labs of a repository, and a second repository.
RepoOf3 == (j1 :> alice) @@ (j2 :> alice) @@ (j3 :> bob)
LabOf3 == (j1 :> lab1) @@ (j2 :> lab2) @@ (j3 :> lab1)
=============================================================================
