------------------------------- MODULE Archive -------------------------------
(***************************************************************************)
(* The zip files of graders-utils.  gitlab-to-amqp looks for a lab in its  *)
(* clone and, if it is there, zips its directory under the name top; the   *)
(* builder unzips the file, and takes what is below top as the sources.    *)
(* Students also send zip files of their own, through EDX.                 *)
(*                                                                         *)
(* A tree is what metadata says of the paths of a directory: those that    *)
(* lead nowhere are "broken", "other" is neither a directory nor a file.   *)
(***************************************************************************)
EXTENDS Naturals, Sequences, FiniteSets, Functions, SequencesExt, Dictionaries

CONSTANTS
  Names,      \* the names of files and directories
  Texts,      \* what their text may be: functions, that lose what is not UTF-8
  LabConfigs, \* the labs: the path of top (lab.dir), that of the witness or <<>>,
              \* and enabled: "unset", "true" or "false"
  Foreign,    \* the zip files that students send: sequences of entries
  MaxPaths,   \* bound: the files and directories of a tree
  MaxDepth    \* bound: the names of a path

Kinds == {"dir", "file", "exec", "other", "broken"}
Entry == [path : Seq(Names), kind : {"dir", "file", "exec"}]

ASSUME ArchiveAssumption ==
  /\ Texts \subseteq [Names -> Names]
  /\ \A c \in LabConfigs :
       /\ c.top \in Seq(Names) \ {<< >>}
       /\ c.witness \in Seq(Names)
       /\ c.enabled \in {"unset", "true", "false"}
  /\ Foreign \subseteq Seq(Entry)
  /\ MaxPaths \in Nat /\ MaxDepth \in Nat

VARIABLES
  lab,      \* the lab
  text,     \* the text of the names
  tree,     \* the directory of the lab
  step,     \* "look" for the lab, "zip" it, "unzip" the file; "none" to do,
            \* "zipped" and never to be unzipped, or an error
  stack,    \* the directories that add_to_zip is in, and what each has left
  archive,  \* the entries of the zip file
  whole,    \* and whether the end of it was written
  damaged,  \* the entries that cannot be read, of a file that a student sends
  full,     \* a disk was full: that of the hub or, later, that of the builder
  next,     \* the entry that is to be unzipped
  out       \* what is unzipped: a function of paths

input == <<lab, text, tree, damaged>>
archiveVars == <<input, step, stack, archive, whole, full, next, out>>

\* A path of the tree is one of a directory of the tree, but for those of a
\* single name.
Paths == UNION {[1 .. n -> Names] : n \in 1 .. MaxDepth}
Trees ==
  LET Sets == {s \in SUBSET Paths : /\ Cardinality(s) <= MaxPaths
                                    /\ \A p \in s : Len(p) > 1 => Front(p) \in s}
  IN  {t \in UNION {[paths -> Kinds] : paths \in Sets} :
         \A p \in DOMAIN t : Len(p) > 1 => t[Front(p)] = "dir"}

ArchiveTypeOK ==
  /\ lab \in LabConfigs
  /\ text \in Texts
  /\ \A p \in DOMAIN tree : p \in Paths /\ tree[p] \in Kinds
  /\ step \in {"look", "zip", "unzip", "none", "zipFailed", "unzipFailed", "unzipped"}
  /\ stack \in Seq([dir : Seq(Names), left : SUBSET Names])
  /\ archive \in Seq(Entry)
  /\ whole \in BOOLEAN
  /\ damaged \subseteq DOMAIN archive
  /\ full \in BOOLEAN
  /\ next \in 1 .. Len(archive) + 1
  /\ \A p \in DOMAIN out : out[p] \in {"dir", "file", "exec"}
  /\ \A p \in DOMAIN out : Len(p) > 1 => Front(p) \in DOMAIN out

ArchiveInit ==
  /\ lab \in LabConfigs
  /\ text \in Texts
  /\ \/ step = "look" /\ archive = << >> /\ whole = FALSE /\ damaged = {} /\ tree \in Trees
     \/ step = "unzip" /\ tree = << >>
        /\ archive \in Foreign /\ whole \in BOOLEAN /\ damaged \in SUBSET DOMAIN archive
  /\ stack = << >>
  /\ full = FALSE
  /\ next = 1
  /\ out = << >>

-----------------------------------------------------------------------------
(* Zipping.                                                                *)

\* The directory is there: the lab is triggered if it is enabled, and if it
\* has no witness or its witness is a file.
Triggered ==
  /\ lab.enabled # "false"
  /\ \/ lab.witness = << >>
     \/ lab.witness \in DOMAIN tree /\ tree[lab.witness] \in {"file", "exec"}

ChildrenOf(dir) == {n \in Names : Append(dir, n) \in DOMAIN tree}

\* The name of a path of the tree in the zip file.
ZipPath(p) == lab.top \o [i \in DOMAIN p |-> text[p[i]]]

\* The last names compared, rather than the paths.
IsNewName(path, kind) == \A i \in DOMAIN archive : Last(archive[i].path) # Last(path)

\* ZipWriter takes each name once; that of a directory ends with a slash.
IsNew(path, kind) ==
  \A i \in DOMAIN archive :
    archive[i].path = path => (archive[i].kind = "dir" <=> kind # "dir")

Add(path, kind) == archive' = Append(archive, [path |-> path, kind |-> kind])

\* A directory that is not an entry of its own zip file.
LookWithoutTop ==
  /\ step = "look"
  /\ IF Triggered
     THEN /\ step' = "zip"
          /\ stack' = << [dir |-> << >>, left |-> ChildrenOf(<< >>)] >>
     ELSE step' = "none" /\ UNCHANGED stack
  /\ UNCHANGED <<input, archive, whole, full, next, out>>

\* package, up to the first entry: that of the directory itself.
Look ==
  /\ step = "look"
  /\ IF Triggered
     THEN /\ step' = "zip"
          /\ Add(lab.top, "dir")
          /\ stack' = << [dir |-> << >>, left |-> ChildrenOf(<< >>)] >>
     ELSE step' = "none" /\ UNCHANGED <<archive, stack>>
  /\ UNCHANGED <<input, whole, full, next, out>>

ZipFails == step' = "zipFailed" /\ UNCHANGED <<archive, stack>>

\* What add_to_zip does with an entry of the directory that it is in.
ZipEntry(n) ==
  LET here == Last(stack)
      path == Append(here.dir, n)
      rest == Append(Front(stack), [dir |-> here.dir, left |-> here.left \ {n}])
      kind == tree[path]
      new == IsNew(ZipPath(path), kind)
  IN  \/ /\ kind = "broken" \/ (kind # "other" /\ ~new)
         /\ ZipFails
      \/ /\ kind = "other"
         /\ stack' = rest /\ UNCHANGED <<step, archive>>
      \/ /\ kind = "dir" /\ new
         /\ Add(ZipPath(path), kind)
         /\ stack' = Append(rest, [dir |-> path, left |-> ChildrenOf(path)])
         /\ UNCHANGED step
      \/ /\ kind \in {"file", "exec"} /\ new
         /\ Add(ZipPath(path), kind)
         /\ stack' = rest /\ UNCHANGED step

\* read_dir gives the entries in any order.
AddEntry ==
  /\ step = "zip" /\ stack # << >>
  /\ \E n \in Last(stack).left : ZipEntry(n)
  /\ UNCHANGED <<input, whole, full, next, out>>

\* What is left of a directory is forgotten.
LeaveAtOnce ==
  /\ step = "zip" /\ stack # << >>
  /\ stack' = Front(stack)
  /\ UNCHANGED <<input, step, archive, whole, full, next, out>>

LeaveDirectory ==
  /\ step = "zip" /\ stack # << >>
  /\ Last(stack).left = {}
  /\ stack' = Front(stack)
  /\ UNCHANGED <<input, step, archive, whole, full, next, out>>

\* The disk is full.
WriteFails ==
  /\ step = "zip" /\ stack # << >>
  /\ ZipFails
  /\ full' = TRUE
  /\ UNCHANGED <<input, whole, next, out>>

\* The writer is dropped, and writes the directory of the zip file: an error
\* there goes unseen.
Finish ==
  /\ step = "zip" /\ stack = << >>
  /\ \/ whole' = TRUE /\ UNCHANGED full
     \/ full' = TRUE /\ UNCHANGED whole
  /\ step' = "unzip"
  /\ UNCHANGED <<input, stack, archive, next, out>>

-----------------------------------------------------------------------------
(* Unzipping.                                                              *)

\* Path::starts_with compares components: top itself starts with top and "/".
BelowTop(path) == IsPrefix(lab.top, path)

ParentExists(path) == Len(path) = 1 \/ Front(path) \in {p \in DOMAIN out : out[p] = "dir"}

\* create_dir wants no such path, File::create no such directory.
Writable(e) ==
  /\ BelowTop(e.path) /\ ParentExists(e.path)
  /\ e.path \notin {p \in DOMAIN out : e.kind = "dir" \/ out[p] = "dir"}

\* The mode that is lost when the file is written.
WrittenAsFile(e) == IF e.kind = "dir" THEN "dir" ELSE "file"

\* The mode of an entry becomes that of the file.
WrittenAs(e) == e.kind

\* ZipArchive::new does not read a file without its end, or what is no zip file.
OpenFails ==
  /\ step = "unzip" /\ ~whole
  /\ step' = "unzipFailed"
  /\ UNCHANGED <<input, stack, archive, whole, full, next, out>>

\* by_index refuses an entry whose header is spoilt, that is encrypted or whose
\* compression is not supported; io::copy, one whose contents do not match their
\* checksum.
Readable(i) == i \notin damaged

\* One turn of the loop of unzip_file.
UnzipEntry ==
  /\ step = "unzip" /\ whole /\ next <= Len(archive)
  /\ LET e == archive[next] IN
       IF Readable(next) /\ Writable(e)
       THEN /\ out' = With(out, e.path, WrittenAs(e))
            /\ next' = next + 1
            /\ UNCHANGED step
       ELSE step' = "unzipFailed" /\ UNCHANGED <<out, next>>
  /\ UNCHANGED <<input, stack, archive, whole, full>>

\* The disk of the builder is full.  (At the first entry it may have been so for
\* the download already.)
UnzipWriteFails ==
  /\ step = "unzip" /\ whole /\ next <= Len(archive)
  /\ step' = "unzipFailed"
  /\ full' = TRUE
  /\ UNCHANGED <<input, stack, archive, whole, next, out>>

Unzipped ==
  /\ step = "unzip" /\ whole /\ next = Len(archive) + 1
  /\ step' = "unzipped"
  /\ UNCHANGED <<input, stack, archive, whole, full, next, out>>

Unzip == OpenFails \/ UnzipEntry \/ UnzipWriteFails \/ Unzipped

Ended ==
  /\ step \in {"none", "zipFailed", "unzipFailed", "unzipped"}
  /\ UNCHANGED archiveVars

Package ==
  Look \/ AddEntry \/ LeaveDirectory \/ WriteFails \/ Finish

-----------------------------------------------------------------------------
(* Properties.                                                             *)

Kept == {p \in DOMAIN tree : tree[p] \in {"dir", "file", "exec"}}
Ours == archive \notin Foreign

\* The builder works on the tree that the student pushed: whatever the order
\* of the entries, an unzipped archive of ours holds each file and directory
\* of the clone, the witness of the lab as a file, executable as it was, below
\* top, and nothing else.
RoundTrip ==
  Ours /\ step = "unzipped" =>
    /\ DOMAIN out = {lab.top} \cup {ZipPath(p) : p \in Kept}
    /\ \A p \in Kept : out[ZipPath(p)] = tree[p]
    /\ lab.witness # << >> =>
         \E p \in DOMAIN out : p = ZipPath(lab.witness) /\ out[p] \in {"file", "exec"}

\* A lab is packaged unless its tree has a link that leads nowhere, two names
\* with the same text (of a directory and of a file, they differ by the slash),
\* or the disk is full.
ZipFailureHasCause ==
  step = "zipFailed" =>
    \/ full
    \/ \E p \in DOMAIN tree : tree[p] = "broken"
    \/ \E p, q \in Kept : /\ p # q /\ ZipPath(p) = ZipPath(q)
                          /\ tree[p] = "dir" <=> tree[q] = "dir"

\* The directory of a path, if any, comes before it in the zip file.
DirectoryBefore(i) ==
  \/ Len(archive[i].path) = 1
  \/ \E j \in 1 .. i - 1 :
       archive[j].path = Front(archive[i].path) /\ archive[j].kind = "dir"

\* A zip file of ours is unzipped, whatever it holds, unless its end is missing,
\* the disk of the builder is full, top is not a single name (its parent is
\* nowhere in the file), or a file and a directory have names with the same text.
\* One that was made by another program must also have entries that can be read,
\* all of them below top, each directory before what it holds, and no directory
\* twice.
UnzipFailureHasCause ==
  step = "unzipFailed" =>
    \/ ~whole
    \/ full
    \/ Ours /\ Len(lab.top) > 1
    \/ Ours /\ \E p, q \in Kept : /\ ZipPath(p) = ZipPath(q)
                                  /\ tree[p] = "dir" /\ tree[q] # "dir"
    \/ /\ ~Ours
       /\ \/ ~Readable(next)
          \/ \E i \in DOMAIN archive :
               \/ ~BelowTop(archive[i].path)
               \/ ~DirectoryBefore(i)
               \/ \E j \in 1 .. i - 1 : /\ archive[j].path = archive[i].path
                                        /\ "dir" \in {archive[i].kind, archive[j].kind}

\* What makes them true.  The archive holds top, then the paths of V, each after
\* the directory that it is in; a name is there once.
Holds(V) ==
  /\ archive # << >> /\ archive[1] = [path |-> lab.top, kind |-> "dir"]
  /\ \A i \in 2 .. Len(archive) :
       /\ \E p \in V : archive[i] = [path |-> ZipPath(p), kind |-> tree[p]]
       /\ DirectoryBefore(i)
  /\ \A p \in V :
       \E i \in 2 .. Len(archive) : archive[i] = [path |-> ZipPath(p), kind |-> tree[p]]
  /\ \A i, j \in DOMAIN archive :
       /\ archive[i].path = archive[j].path
       /\ archive[i].kind = "dir" <=> archive[j].kind = "dir"
       => i = j

\* The stack is the way from the directory of the lab to the one that
\* add_to_zip is in; what is to be added to V and may be now is left in it.
Walks(V) ==
  /\ \A p \in V : Len(p) > 1 => Front(p) \in V
  /\ \A k \in DOMAIN stack :
       LET d == stack[k].dir IN
         /\ Len(d) = k - 1
         /\ k > 1 => d \in V /\ tree[d] = "dir"
         /\ stack[k].left \subseteq ChildrenOf(d)
         /\ \A n \in stack[k].left : Append(d, n) \notin V
  /\ \A p \in Kept \ V :
       Len(p) = 1 \/ Front(p) \in V =>
         \E k \in DOMAIN stack : stack[k].dir = Front(p) /\ Last(p) \in stack[k].left

\* What is unzipped is what the entries before next say; a directory is made
\* once, and where no file is.
Unpacks ==
  /\ DOMAIN out = {archive[i].path : i \in 1 .. next - 1}
  /\ \A p \in DOMAIN out : \E i \in 1 .. next - 1 : archive[i] = [path |-> p, kind |-> out[p]]
  /\ \A i \in 1 .. next - 1 : archive[i].kind = "dir" <=> out[archive[i].path] = "dir"
  /\ \A i, j \in 1 .. next - 1 :
       i # j /\ archive[i].path = archive[j].path => archive[i].kind # "dir"
  /\ step = "unzipFailed" /\ whole /\ ~full =>
       next <= Len(archive) /\ ~(Readable(next) /\ Writable(archive[next]))
  /\ step = "unzipped" => next = Len(archive) + 1

ArchiveInv ==
  /\ \A p \in DOMAIN tree : Len(p) > 1 => Front(p) \in DOMAIN tree /\ tree[Front(p)] = "dir"
  /\ step \in {"look", "none"} => archive = << >> /\ stack = << >>
  /\ step = "zip" => Triggered /\ \E V \in SUBSET Kept : Holds(V) /\ Walks(V)
  /\ step \in {"look", "none", "zip", "zipFailed"} => next = 1
  /\ step \in {"unzip", "unzipFailed", "unzipped"} =>
       archive \in Foreign \/ (Triggered /\ Holds(Kept))
  /\ damaged # {} => step \in {"unzip", "unzipFailed", "unzipped"} /\ archive \in Foreign
  /\ ZipFailureHasCause
  /\ Unpacks
=============================================================================
