------------------------------ MODULE MCGrader ------------------------------
(* Small instances of Grader for TLC. *)
EXTENDS Grader, TLC

CONSTANTS h1, h2, lab1, lab2

TwoHooks == {h1, h2}
OneHook == {h1}
OneLab == <<lab1>>
TwoLabs == <<lab1, lab2>>
OneJob == {<<h1, lab1>>}
TwoHooksJobs == TwoHooks \X {lab1}
TwoLabsJobs == OneHook \X {lab1, lab2}
Lab2Jobs == {<<h1, lab2>>}
=============================================================================
