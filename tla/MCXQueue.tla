------------------------------ MODULE MCXQueue ------------------------------
(* A small instance of XQueue for TLC. *)
EXTENDS XQueue

CONSTANTS s1, s2

TwoSubmissions == {s1, s2}
=============================================================================
