------------------------------- MODULE Builder -------------------------------
(***************************************************************************)
(* builder: what runs in the docker container of a job.  It unzips the     *)
(* sources, makes the compiler, runs the tests on it, and writes one       *)
(* diagnostic: that of the tests, or a report of the error that stopped it. *)
(* To make the compiler it tries three ways in turn; the error of each one *)
(* replaces that of the way before.                                        *)
(***************************************************************************)
EXTENDS Naturals, Sequences

CONSTANTS
  Sources,     \* how the sources are given: "zip", "absolute" or "relative"
               \* (the path of a directory)
  TestFiles,   \* how the test file is given: "absolute", or "bare", without
               \* a directory
  Outputs      \* where the diagnostic goes: "written", or "nofile", a file that
               \* cannot be written

ASSUME BuilderAssumption ==
  /\ Sources \subseteq {"zip", "absolute", "relative"}
  /\ TestFiles \subseteq {"absolute", "bare"}
  /\ Outputs \subseteq {"written", "nofile"}

VARIABLES
  opt,       \* the options
  project,   \* the sources: what they were, before anything is run on them
  tree,      \* and what they are now
  step,      \* what is next
  way,       \* the way that is tried, and the command of it that is next
  error,     \* the last error
  written,   \* the diagnostics written
  dtiger     \* history: what the tests were run on

builderVars == <<opt, project, tree, step, way, error, written, dtiger>>

Opt == [src : Sources, testFile : TestFiles, output : Outputs]

\* What a command finds: a script is absent, or not executable, or it fails or
\* works; generated is the configure that autogen.sh makes.  The Makefile is
\* absent, of use, or of another machine.  compiles: the compiler can be built.
Script == {"none", "noexec", "fails", "works"}
Tree == [makefile : {"none", "stale", "good"}, configure : Script,
         autogen : Script, generated : {"fails", "works"}, compiles : BOOLEAN,
         built : BOOLEAN]

Errors == {"none", "unzip", "bits", "missing", "script", "make", "compilation",
           "tests", "testsFail"}

BuilderTypeOK ==
  /\ opt \in Opt
  /\ project \in Tree
  /\ tree \in Tree
  /\ step \in {"unzip", "bits", "build", "test", "write", "exit", "exit1"}
  /\ way \in (1 .. 4) \X (1 .. 4)
  /\ error \in Errors
  /\ written \in Seq({"diagnostic", "error"})
  /\ Len(written) = IF step = "exit" THEN 1 ELSE 0
  /\ dtiger \in {"none", "built", "unbuilt", "unresolved"}

BuilderInit ==
  /\ opt \in Opt
  /\ project \in {t \in Tree : ~t.built}
  /\ tree = project
  /\ step = IF opt.src = "zip" THEN "unzip" ELSE "bits"
  /\ way = <<1, 1>>
  /\ error = "none"
  /\ written = << >>
  /\ dtiger = "none"

Fails(e) == error' = e /\ step' = "write"

\* unzip, of what graders-utils makes or of what a student sends.
Unzip ==
  /\ step = "unzip"
  /\ \/ step' = "bits" /\ UNCHANGED error
     \/ Fails("unzip")
  /\ UNCHANGED <<opt, project, tree, way, written, dtiger>>

CheckExecutableBits ==
  /\ step = "bits"
  /\ IF "noexec" \in {tree.configure, tree.autogen}
     THEN Fails("bits")
     ELSE step' = "build" /\ UNCHANGED error
  /\ UNCHANGED <<opt, project, tree, way, written, dtiger>>

\* build: make, or else configure, or else autogen.
Ways == << <<"make">>, <<"configure", "make">>, <<"autogen", "configure", "make">> >>

\* What a command makes of the tree when it works, and its error otherwise.
Works(command, t) ==
  CASE command = "make" -> t.makefile = "good" /\ t.compiles
    [] command = "configure" -> t.configure = "works"
    [] command = "autogen" -> t.autogen = "works"

After(command, t) ==
  CASE command = "make" -> [t EXCEPT !.built = TRUE]
    [] command = "configure" -> [t EXCEPT !.makefile = "good"]
    [] command = "autogen" -> [t EXCEPT !.configure = t.generated]

ErrorOf(command, t) ==
  CASE command = "make" -> IF t.makefile = "good" THEN "compilation" ELSE "make"
    [] command = "configure" -> IF t.configure = "none" THEN "missing" ELSE "script"
    [] command = "autogen" -> IF t.autogen = "none" THEN "missing" ELSE "script"

LastWay == way[1] = Len(Ways)
NextWay == <<way[1] + 1, 1>>

\* The error of the first way kept, rather than that of the last.
FailWayFirst(e) ==
  /\ error' = IF way[1] = 1 THEN e ELSE error
  /\ way' = NextWay
  /\ step' = IF LastWay THEN "write" ELSE "build"

\* The ways tried again after the last one.
FailWayAgain(e) ==
  /\ error' = e
  /\ way' = IF LastWay THEN <<1, 1>> ELSE NextWay
  /\ UNCHANGED step

\* or_else: the error of a way is forgotten, but for the last one.
FailWay(e) ==
  error' = e /\ way' = NextWay /\ step' = IF LastWay THEN "write" ELSE "build"

\* exec_args, of the next command of a way: the next one follows, or the next
\* way, or the tests, or the end.
RunCommand ==
  /\ step = "build"
  /\ LET command == Ways[way[1]][way[2]] IN
       IF Works(command, tree)
       THEN /\ tree' = After(command, tree)
            /\ way' = <<way[1], way[2] + 1>>
            /\ step' = IF way[2] = Len(Ways[way[1]]) THEN "test" ELSE "build"
            /\ UNCHANGED error
       ELSE FailWay(ErrorOf(command, tree)) /\ UNCHANGED tree
  /\ UNCHANGED <<opt, project, written, dtiger>>

\* run_test, in the directory of the test file ("" is none, and the command
\* does not start).  A relative path in DTIGER does not lead from there to the
\* compiler.
RunTest ==
  /\ step = "test"
  /\ IF opt.testFile = "bare"
     THEN Fails("tests") /\ UNCHANGED dtiger
     ELSE /\ dtiger' = CASE opt.src = "relative" -> "unresolved"
                         [] tree.built -> "built"
                         [] OTHER -> "unbuilt"
          /\ \/ step' = "write" /\ error' = "none"
             \/ Fails("testsFail")
  /\ UNCHANGED <<opt, project, tree, way, written>>

\* write_output and write_error.
WriteOutput ==
  /\ step = "write"
  /\ IF opt.output = "nofile"
     THEN step' = "exit1" /\ UNCHANGED written
     ELSE /\ written' = Append(written, IF error = "none" THEN "diagnostic" ELSE "error")
          /\ step' = "exit"
  /\ UNCHANGED <<opt, project, tree, way, error, dtiger>>

Exited == step \in {"exit", "exit1"} /\ UNCHANGED builderVars

BuilderNext ==
  \/ Unzip \/ CheckExecutableBits \/ RunCommand \/ RunTest \/ WriteOutput
  \/ Exited

\* The commands of a project come to an end (the tester has no time limit).
BuilderSpec ==
  BuilderInit /\ [][BuilderNext]_builderVars /\ WF_builderVars(BuilderNext)

-----------------------------------------------------------------------------
(* Properties.                                                             *)

\* The compiler can be made of a project: by make alone, after configure, or
\* after autogen.sh.
Buildable(t) ==
  /\ "noexec" \notin {t.configure, t.autogen}
  /\ t.compiles
  /\ \/ t.makefile = "good"
     \/ t.configure = "works"
     \/ t.autogen = "works" /\ t.generated = "works"

\* What the builder reports is true of the project.  The tests are run on what
\* make has made and on nothing else (unless the source is a relative path: the
\* tests, in a directory of their own, do not find the compiler by it).  A
\* project is only said not to build when there is no way to build it.  And
\* when its compilation fails that is what is reported, unless autogen.sh, which
\* is tried last, is absent or fails, or makes a configure that fails: build
\* keeps the error of the last way only.
ReportIsTrue ==
  /\ dtiger # "none" =>
       Buildable(project) /\ (dtiger = "built" \/ opt.src = "relative")
  /\ step = "exit" /\ error \in {"bits", "missing", "script", "make", "compilation"} =>
       ~Buildable(project)
  /\ (/\ step = "exit" /\ error \in {"missing", "script", "make"}
      /\ tree.makefile = "good" /\ ~project.compiles)
       => ~(project.autogen = "works" /\ project.generated = "works")

\* What makes it true.  The tree is the project, but for what the commands that
\* worked have made; the commands of the way that is tried, before the next one,
\* have worked.
TreeOfProject ==
  /\ tree.autogen = project.autogen /\ tree.generated = project.generated
  /\ tree.compiles = project.compiles
  /\ step \in {"unzip", "bits"} => tree = project /\ way = <<1, 1>>
  /\ step = "build" =>
       /\ way \in {<<1, 1>>, <<2, 1>>, <<2, 2>>, <<3, 1>>, <<3, 2>>, <<3, 3>>}
       /\ way[1] = 1 => tree = project
       /\ way[1] = 2 => tree.configure = project.configure
       /\ way = <<2, 2>> => tree.makefile = "good"
       /\ way = <<3, 2>> => tree.configure = project.generated
       /\ way = <<3, 3>> => project.generated = "works" /\ tree.makefile = "good"
       /\ way[1] = 3 /\ way[2] > 1 => project.autogen = "works"
  /\ tree.makefile = "good" =>
       \/ project.makefile = "good" \/ project.configure = "works"
       \/ project.autogen = "works" /\ project.generated = "works"

\* The ways before it have failed, as they would have on the project.
WaysFailed ==
  /\ way[1] > 1 => ~ (project.makefile = "good" /\ project.compiles)
  /\ way[1] > 2 => ~ (project.configure = "works" /\ project.compiles)
  /\ way[1] > 3 /\ project.autogen = "works" /\ project.generated = "works" =>
       ~project.compiles /\ error = "compilation"

NoBitMissing == "noexec" \notin {project.configure, project.autogen}

BuilderInv ==
  /\ BuilderTypeOK
  /\ TreeOfProject
  /\ WaysFailed
  /\ step \in {"build", "test"} => NoBitMissing
  /\ step = "test" => tree.built /\ Buildable(project)
  /\ dtiger # "none" =>
       /\ step \in {"write", "exit", "exit1"} /\ error \in {"none", "testsFail"}
       /\ Buildable(project) /\ (dtiger = "built" \/ opt.src = "relative")
  /\ step \in {"write", "exit", "exit1"} =>
       /\ error = "none" => dtiger # "none"
       /\ error = "bits" => ~NoBitMissing
       /\ error \in {"missing", "script", "make", "compilation"} => way = <<4, 1>>
  /\ step = "exit" =>
       written = << IF error = "none" THEN "diagnostic" ELSE "error" >>
=============================================================================
