---------------------------- MODULE MCAmqpToTest ----------------------------
(* Small instances of AmqpToTest for TLC. *)
EXTENDS AmqpToTest, TLC

\* Instances of the tester, and jobs of the same kind, are interchangeable.
Symmetry == Permutations(Testers)
=============================================================================
