---------------------------- MODULE MCZipTransfer ----------------------------
(* Small instances of ZipTransfer for TLC. *)
EXTENDS ZipTransfer, TLC

CONSTANTS a, b

TwoNames == {a, b}

\* Names with a text of their own, and names that are not UTF-8.
PlainOrAlike == {(a :> a) @@ (b :> b), (a :> a) @@ (b :> a)}

Lab(top, witness, enabled) == [top |-> top, witness |-> witness, enabled |-> enabled]

\* Labs with and without a witness, of one level and of two, and a disabled one.
Labs == {Lab(<<a>>, << >>, "unset"), Lab(<<a>>, <<a, b>>, "true"),
         Lab(<<a, b>>, << >>, "true"), Lab(<<a>>, << >>, "false")}

Dir(path) == [path |-> path, kind |-> "dir"]
File(path) == [path |-> path, kind |-> "file"]

\* What a student may send: with or without entries for directories, twice the
\* same name, another directory, a file in place of top.
Sent == {<< Dir(<<a>>), File(<<a, b>>), Dir(<<a, a>>), File(<<a, a, a>>) >>,
         << File(<<a, b>>) >>,
         << Dir(<<a>>), File(<<a, b>>), File(<<a, b>>), Dir(<<a, b>>) >>,
         << Dir(<<a>>), Dir(<<b>>), File(<<b, a>>) >>,
         << File(<<a>>), File(<<a, b>>) >>,
         << Dir(<<a>>), File(<<a, a>>), File(<<a, a, b>>) >>}

\* The builders are alike.
Alike == Permutations(Builds)
=============================================================================
