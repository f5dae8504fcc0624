---------------------------- MODULE Dictionaries ----------------------------
(***************************************************************************)
(* Functions whose domain grows: the dictionaries of the Python programs,  *)
(* what a program writes in a directory.                                   *)
(***************************************************************************)

\* d[key] = value.
With(d, key, value) ==
  [k \in DOMAIN d \cup {key} |-> IF k = key THEN value ELSE d[k]]

=============================================================================
