--------------------------- MODULE MCGitlabToAmqp ---------------------------
(* Small instances of GitlabToAmqp for TLC. *)
EXTENDS GitlabToAmqp, TLC

CONSTANTS h1, h2, lab1, lab2

TwoHooks == {h1, h2}
OneHook == {h1}
TwoLabs == <<lab1, lab2>>
OneLab == <<lab1>>
TwoHooksJobs == TwoHooks \X {lab1}
OneJob == OneHook \X {lab1}
TwoLabsJobs == OneHook \X {lab1, lab2}

\* The hooks are interchangeable.
HookSymmetry == Permutations(TwoHooks)
=============================================================================
