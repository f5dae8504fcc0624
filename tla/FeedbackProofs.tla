---------------------------- MODULE FeedbackProofs ----------------------------
(***************************************************************************)
(* What the builder reports of a project, and what a student is told of    *)
(* it, for any options, any project and any report of the tests.           *)
(***************************************************************************)
EXTENDS Feedback, SequenceLemmas

-----------------------------------------------------------------------------
(* The builder.                                                            *)

\* A project may be made when one of the three ways leads to a compiler.
LEMMA FailedWays ==
  ASSUME BuilderInv, way = <<4, 1>>
  PROVE  ~Buildable(project)
BY DEF BuilderInv, WaysFailed, Buildable

\* The invariant says what the property does.
LEMMA BuilderInvIsTrue ==
  ASSUME BuilderInv
  PROVE  ReportIsTrue
<1>1. dtiger # "none" => Buildable(project) /\ (dtiger = "built" \/ opt.src = "relative")
  BY DEF BuilderInv
<1>2. step = "exit" /\ error \in {"bits", "missing", "script", "make", "compilation"} =>
        ~Buildable(project)
  BY FailedWays DEF BuilderInv, Buildable, NoBitMissing
<1>3. step = "exit" /\ error \in {"missing", "script", "make"} =>
        ~(project.autogen = "works" /\ project.generated = "works")
  BY DEF BuilderInv, WaysFailed
<1>4. QED
  BY <1>1, <1>2, <1>3 DEF ReportIsTrue

\* Nothing is built or tested at first.
LEMMA BuilderStarts ==
  ASSUME BuilderInit
  PROVE  BuilderInv
<1>1. BuilderTypeOK
  BY DEF BuilderInit, BuilderTypeOK, Errors
<1>2. TreeOfProject /\ WaysFailed
  BY DEF BuilderInit, TreeOfProject, WaysFailed, Tree
<1>3. QED
  BY <1>1, <1>2 DEF BuilderInit, BuilderInv

\* No command is run on the sources before the way is chosen.
LEMMA UnzipKeepsInv ==
  ASSUME BuilderInv, Unzip \/ CheckExecutableBits
  PROVE  BuilderInv'
<1>1. BuilderTypeOK'
  BY DEF BuilderInv, BuilderTypeOK, Unzip, CheckExecutableBits, Fails, Errors
<1>2. TreeOfProject' /\ WaysFailed'
  BY DEF BuilderInv, Unzip, CheckExecutableBits, Fails, TreeOfProject, WaysFailed
<1>3. QED
  BY <1>1, <1>2
  DEF BuilderInv, Unzip, CheckExecutableBits, Fails, NoBitMissing, Buildable, TreeOfProject

\* The commands of each way.
LEMMA WaysAre ==
  /\ Len(Ways) = 3
  /\ Len(Ways[1]) = 1 /\ Len(Ways[2]) = 2 /\ Len(Ways[3]) = 3
  /\ Ways[1][1] = "make"
  /\ Ways[2][1] = "configure" /\ Ways[2][2] = "make"
  /\ Ways[3][1] = "autogen" /\ Ways[3][2] = "configure" /\ Ways[3][3] = "make"
BY DEF Ways

\* A command works: the next one of the way follows, or the tests.
LEMMA CommandWorks ==
  ASSUME BuilderInv, step = "build",
         NEW command, command = Ways[way[1]][way[2]], Works(command, tree),
         tree' = After(command, tree),
         way' = <<way[1], way[2] + 1>>,
         step' = IF way[2] = Len(Ways[way[1]]) THEN "test" ELSE "build",
         UNCHANGED <<opt, project, error, written, dtiger>>
  PROVE  BuilderInv'
<1>1. /\ tree \in Tree /\ project \in Tree
      /\ way \in {<<1, 1>>, <<2, 1>>, <<2, 2>>, <<3, 1>>, <<3, 2>>, <<3, 3>>}
  BY DEF BuilderInv, BuilderTypeOK, TreeOfProject
<1>2. CASE way \in {<<1, 1>>, <<2, 2>>, <<3, 3>>}
  <2>1. command = "make" /\ step' = "test" /\ way[1] \in 1 .. 3
    <3>1. CASE way = <<1, 1>>
      BY <3>1, WaysAre
    <3>2. CASE way = <<2, 2>>
      BY <3>2, WaysAre
    <3>3. CASE way = <<3, 3>>
      BY <3>3, WaysAre
    <3>4. QED
      BY <1>2, <3>1, <3>2, <3>3
  <2>2. tree' = [tree EXCEPT !.built = TRUE] /\ tree.makefile = "good" /\ tree.compiles
    BY <2>1 DEF After, Works
  <2>3. tree' \in Tree /\ tree'.built /\ UNCHANGED <<tree.makefile, tree.configure, tree.autogen, tree.generated, tree.compiles>>
    BY <1>1, <2>2 DEF Tree
  <2>4. BuilderTypeOK'
    BY <1>1, <1>2, <2>1, <2>3 DEF BuilderInv, BuilderTypeOK
  <2>5. TreeOfProject'
    BY <1>1, <1>2, <2>1, <2>2, <2>3 DEF BuilderInv, TreeOfProject
  <2>6. WaysFailed'
    BY <1>1, <1>2, <2>1 DEF BuilderInv, WaysFailed
  <2>7. QED
    BY <1>1, <1>2, <2>1, <2>2, <2>3, <2>4, <2>5, <2>6
    DEF BuilderInv, BuilderTypeOK, TreeOfProject, NoBitMissing, Buildable
<1>3. CASE way \in {<<2, 1>>, <<3, 2>>}
  <2>1. command = "configure" /\ step' = "build"
    BY <1>3, WaysAre
  <2>2. tree' = [tree EXCEPT !.makefile = "good"] /\ tree.configure = "works"
    BY <2>1 DEF After, Works
  <2>3. tree' \in Tree /\ tree'.makefile = "good" /\ UNCHANGED <<tree.built, tree.configure, tree.autogen, tree.generated, tree.compiles>>
    BY <1>1, <2>2 DEF Tree
  <2>4. BuilderTypeOK'
    BY <1>1, <1>3, <2>1, <2>3 DEF BuilderInv, BuilderTypeOK
  <2>5. TreeOfProject'
    BY <1>1, <1>3, <2>1, <2>2, <2>3 DEF BuilderInv, TreeOfProject
  <2>6. WaysFailed'
    BY <1>1, <1>3, <2>1 DEF BuilderInv, WaysFailed
  <2>7. QED
    BY <1>1, <1>3, <2>1, <2>2, <2>3, <2>4, <2>5, <2>6
    DEF BuilderInv, BuilderTypeOK, TreeOfProject, NoBitMissing, Buildable
<1>4. CASE way = <<3, 1>>
  <2>1. command = "autogen" /\ step' = "build"
    BY <1>4, WaysAre
  <2>2. tree' = [tree EXCEPT !.configure = tree.generated] /\ tree.autogen = "works"
    BY <2>1 DEF After, Works
  <2>3. tree' \in Tree /\ tree'.configure = tree.generated /\ UNCHANGED <<tree.built, tree.makefile, tree.autogen, tree.generated, tree.compiles>>
    BY <1>1, <2>2 DEF Tree, Script
  <2>4. BuilderTypeOK'
    BY <1>1, <1>4, <2>1, <2>3 DEF BuilderInv, BuilderTypeOK
  <2>5. TreeOfProject'
    BY <1>1, <1>4, <2>1, <2>2, <2>3 DEF BuilderInv, TreeOfProject
  <2>6. WaysFailed'
    BY <1>1, <1>4, <2>1 DEF BuilderInv, WaysFailed
  <2>7. QED
    BY <1>1, <1>4, <2>1, <2>2, <2>3, <2>4, <2>5, <2>6
    DEF BuilderInv, BuilderTypeOK, TreeOfProject, NoBitMissing, Buildable
<1>5. QED
  BY <1>1, <1>2, <1>3, <1>4

\* A command fails: the way does not lead anywhere, neither here nor, tried by
\* hand, in the project.
LEMMA CommandFails ==
  ASSUME BuilderInv, step = "build",
         NEW command, command = Ways[way[1]][way[2]], ~Works(command, tree),
         FailWay(ErrorOf(command, tree)),
         UNCHANGED <<opt, project, tree, written, dtiger>>
  PROVE  BuilderInv'
<1>1. /\ tree \in Tree /\ project \in Tree
      /\ way \in {<<1, 1>>, <<2, 1>>, <<2, 2>>, <<3, 1>>, <<3, 2>>, <<3, 3>>}
  BY DEF BuilderInv, BuilderTypeOK, TreeOfProject
<1>2. /\ command \in {"make", "configure", "autogen"}
      /\ command = "make" <=> way \in {<<1, 1>>, <<2, 2>>, <<3, 3>>}
      /\ command = "configure" <=> way \in {<<2, 1>>, <<3, 2>>}
      /\ command = "autogen" <=> way = <<3, 1>>
      /\ Len(Ways) = 3
  BY <1>1, WaysAre
<1>3. /\ way' = <<way[1] + 1, 1>>
      /\ step' = IF way[1] = 3 THEN "write" ELSE "build"
      /\ error' = ErrorOf(command, tree)
  BY <1>2 DEF FailWay, NextWay, LastWay
<1>4. /\ error' \in {"missing", "script", "make", "compilation"}
      /\ command = "make" /\ tree.makefile = "good" => error' = "compilation"
  BY <1>2, <1>3 DEF ErrorOf
<1>5. /\ command = "make" => ~(tree.makefile = "good" /\ tree.compiles)
      /\ command = "configure" => tree.configure # "works"
      /\ command = "autogen" => tree.autogen # "works"
  BY <1>2 DEF Works
<1>6. BuilderTypeOK'
  BY <1>1, <1>3, <1>4 DEF BuilderInv, BuilderTypeOK, Errors
<1>7. TreeOfProject'
  BY <1>1, <1>3 DEF BuilderInv, TreeOfProject
<1>8. WaysFailed'
  BY <1>1, <1>2, <1>3, <1>4, <1>5 DEF BuilderInv, TreeOfProject, WaysFailed
<1>9. QED
  BY <1>1, <1>3, <1>4, <1>6, <1>7, <1>8 DEF BuilderInv, NoBitMissing

\* A command of a way is run: the next one follows, or the next way if it fails.
LEMMA RunCommandKeepsInv ==
  ASSUME BuilderInv, RunCommand
  PROVE  BuilderInv'
<1> DEFINE command == Ways[way[1]][way[2]]
<1>1. CASE Works(command, tree)
  BY <1>1, CommandWorks DEF RunCommand
<1>2. CASE ~Works(command, tree)
  BY <1>2, CommandFails DEF RunCommand
<1>3. QED
  BY <1>1, <1>2

\* The tests are run on what was built.
LEMMA RunTestKeepsInv ==
  ASSUME BuilderInv, RunTest
  PROVE  BuilderInv'
<1>1. BuilderTypeOK'
  BY DEF BuilderInv, BuilderTypeOK, RunTest, Fails, Errors
<1>2. TreeOfProject'
  BY DEF BuilderInv, RunTest, Fails, TreeOfProject
<1>3. WaysFailed'
  <2>1. way[1] <= 3
    BY DEF BuilderInv, BuilderTypeOK, TreeOfProject, WaysFailed, RunTest, Buildable
  <2>2. QED
    BY <2>1 DEF BuilderInv, BuilderTypeOK, RunTest, WaysFailed
<1>4. QED
  BY <1>1, <1>2, <1>3 DEF BuilderInv, RunTest, Fails, Buildable

\* What is written is what was reported.
LEMMA WriteOutputKeepsInv ==
  ASSUME BuilderInv, WriteOutput
  PROVE  BuilderInv'
<1>1. written = << >>
  BY DEF BuilderInv, BuilderTypeOK, WriteOutput
<1>2. CASE opt.output = "nofile"
  BY <1>1, <1>2 DEF BuilderInv, BuilderTypeOK, WriteOutput, TreeOfProject, WaysFailed, Buildable, NoBitMissing
<1>3. CASE opt.output # "nofile"
  <2>1. written' = << IF error = "none" THEN "diagnostic" ELSE "error" >> /\ step' = "exit"
    BY <1>1, <1>3 DEF WriteOutput
  <2>2. QED
    BY <1>1, <2>1 DEF BuilderInv, BuilderTypeOK, WriteOutput, TreeOfProject, WaysFailed, Buildable, NoBitMissing
<1>4. QED
  BY <1>2, <1>3

\* Every step of a builder keeps BuilderInv.
LEMMA BuilderStepKeepsInv ==
  ASSUME BuilderInv, [BuilderNext]_builderVars
  PROVE  BuilderInv'
<1>1. CASE UNCHANGED builderVars
  BY <1>1
  DEF builderVars, BuilderInv, BuilderTypeOK, TreeOfProject, WaysFailed, Buildable, NoBitMissing
<1>2. CASE BuilderNext
  BY <1>1, <1>2, UnzipKeepsInv, RunCommandKeepsInv, RunTestKeepsInv, WriteOutputKeepsInv
  DEF BuilderNext, Exited
<1>3. QED
  BY <1>1, <1>2

-----------------------------------------------------------------------------
(* From the diagnostic to what is told.                                    *)

\* No tester has answered at first.
LEMMA FeedbackStarts ==
  ASSUME FeedbackInit
  PROVE  FeedbackInv
<1>1. BuilderInv
  BY BuilderStarts DEF FeedbackInit
<1>2. printed \in Report
  BY FeedbackAssumption DEF FeedbackInit
<1>3. QED
  BY <1>1, <1>2 DEF FeedbackInit, FeedbackInv

\* Once the tester has answered, the builder has ended.
LEMMA BuilderStepKeepsAnswer ==
  ASSUME FeedbackInv, BuilderStep
  PROVE  FeedbackInv'
<1>1. BuilderInv'
  BY BuilderStepKeepsInv DEF FeedbackInv, BuilderStep
<1>2. UNCHANGED <<printed, diagnostic, markdown, payload>>
  BY DEF BuilderStep, told
<1>3. CASE diagnostic = << >>
  BY <1>1, <1>2, <1>3 DEF FeedbackInv
<1>4. CASE diagnostic # << >>
  <2>1. step \in {"exit", "exit1"}
    BY <1>4 DEF FeedbackInv
  <2>2. UNCHANGED builderVars
    BY <2>1 DEF BuilderStep, BuilderNext, Unzip, CheckExecutableBits, RunCommand, RunTest,
                WriteOutput, Exited
  <2>3. QED
    BY <1>1, <1>2, <2>2 DEF FeedbackInv, builderVars, Answer
<1>5. QED
  BY <1>3, <1>4

\* The tester takes what the builder wrote.
LEMMA TesterAnswersKeepsInv ==
  ASSUME FeedbackInv, TesterAnswers
  PROVE  FeedbackInv'
<1>1. UNCHANGED builderVars /\ UNCHANGED <<printed, markdown, payload>> /\ diagnostic = << >>
  BY DEF TesterAnswers, told
<1>2. BuilderInv'
  BY <1>1, BuilderStepKeepsInv DEF FeedbackInv
<1>3. markdown = << >> /\ payload = << >>
  BY <1>1 DEF FeedbackInv
<1>4. CASE step = "exit" /\ error = "none"
  <2>1. written[1] = "diagnostic"
    BY <1>4 DEF FeedbackInv, BuilderInv
  <2>2. diagnostic' = <<printed>>
    BY <1>4, <2>1 DEF TesterAnswers
  <2>3. QED
    BY <1>1, <1>2, <1>3, <1>4, <2>2 DEF FeedbackInv, builderVars
<1>5. CASE ~(step = "exit" /\ error = "none")
  <2>1. step = "exit" => written[1] = "error"
    BY <1>5 DEF FeedbackInv, BuilderInv
  <2>2. diagnostic' = <<ErrorOutput>> /\ step \in {"exit", "exit1"}
    BY <2>1 DEF TesterAnswers
  <2>3. QED
    BY <1>1, <1>2, <1>3, <1>5, <2>2 DEF FeedbackInv, builderVars
<1>6. QED
  BY <1>4, <1>5

\* Every step of the builder and of the tester keeps FeedbackInv.
LEMMA FeedbackStep ==
  ASSUME FeedbackInv, [FeedbackNext]_feedbackVars
  PROVE  FeedbackInv'
<1>1. CASE BuilderStep
  BY <1>1, BuilderStepKeepsAnswer
<1>2. CASE TesterAnswers
  BY <1>2, TesterAnswersKeepsInv
<1>3. CASE ResponseToPost
  <2>1. BuilderInv'
    BY <1>3, BuilderStepKeepsInv DEF FeedbackInv, ResponseToPost
  <2>2. QED
    BY <1>3, <2>1 DEF FeedbackInv, ResponseToPost, IsReport, Answer, builderVars
<1>4. CASE OnGraderMessage
  <2>1. BuilderInv'
    BY <1>4, BuilderStepKeepsInv DEF FeedbackInv, OnGraderMessage
  <2>2. QED
    BY <1>4, <2>1 DEF FeedbackInv, OnGraderMessage, IsReport, Answer, builderVars
<1>5. CASE UNCHANGED feedbackVars
  <2>1. BuilderInv'
    BY <1>5, BuilderStepKeepsInv DEF FeedbackInv, feedbackVars
  <2>2. QED
    BY <1>5, <2>1 DEF FeedbackInv, feedbackVars, told, Answer, builderVars
<1>6. QED
  BY <1>1, <1>2, <1>3, <1>4, <1>5 DEF FeedbackNext

\* The inductive invariant of the chain: the tree of the builder is that of the
\* project and of the commands that worked, the ways that failed lead nowhere,
\* and what is told is told of the answer.
THEOREM FeedbackInvariant == FeedbackSpec => []FeedbackInv
<1>1. FeedbackInit => FeedbackInv
  BY FeedbackStarts
<1>2. FeedbackInv /\ [FeedbackNext]_feedbackVars => FeedbackInv'
  BY FeedbackStep
<1>3. QED
  BY <1>1, <1>2, PTL DEF FeedbackSpec

\* What the builder (commands.rs) reports of a project is true: tests run on
\* what make has made only, and a project is said not to build only when none of
\* the three ways leads to a compiler.
THEOREM ReportsAreTrue == FeedbackSpec => []ReportIsTrue
<1>1. FeedbackInv => ReportIsTrue
  BY BuilderInvIsTrue DEF FeedbackInv
<1>2. QED
  BY <1>1, FeedbackInvariant, PTL

\* A success is told only of a project that was built and whose tests gave all
\* the points, and it is then told by both receivers (response_to_post,
\* parse_yaml_result).
THEOREM VerdictsAreEarned == FeedbackSpec => []VerdictIsEarned
<1>1. ASSUME FeedbackInv PROVE VerdictIsEarned
  <2>1. ~Success(ErrorOutput)
    BY DEF Success, ErrorOutput
  <2>2. /\ markdown # << >> => markdown[1].success = Success(Answer)
        /\ payload # << >> => payload[1].correct = Success(Answer)
    BY <1>1 DEF FeedbackInv, Posted, ParseYamlResult, Correct, Success
  <2>3. markdown # << >> \/ payload # << >> =>
          \/ Answer = printed /\ step = "exit" /\ error = "none" /\ dtiger # "none"
          \/ Answer = ErrorOutput /\ ~(step = "exit" /\ error = "none")
    BY <1>1 DEF FeedbackInv, BuilderInv, Answer
  <2>4. QED
    BY <2>1, <2>2, <2>3 DEF VerdictIsEarned
<1>2. QED
  BY <1>1, FeedbackInvariant, PTL

\* What is answered is a report, of tests that have the types of Report.
LEMMA AnswerIsReport ==
  ASSUME FeedbackInv, diagnostic # << >>
  PROVE  Answer \in Report
<1>1. ErrorOutput \in Report
  <2>1. << >> \in Seq(Group)
    OBVIOUS
  <2>2. QED
    BY <2>1 DEF ErrorOutput, Report, Optional
<1>2. QED
  BY <1>1 DEF FeedbackInv, Answer

\* The tests of a group of a report, as a sequence.
LEMMA TestsOf ==
  ASSUME NEW r \in Report, NEW i \in DOMAIN r.groups
  PROVE  /\ r.groups[i] \in Group
         /\ r.groups[i].tests \in Seq(Test)
         /\ DOMAIN r.groups[i].tests = 1 .. Len(r.groups[i].tests)
         /\ \A n \in DOMAIN r.groups[i].tests : r.groups[i].tests[n] \in Test
<1>1. r.groups[i] \in Group
  BY DEF Report
<1>2. r.groups[i].tests \in Seq(Test)
  BY <1>1 DEF Group
<1>3. QED
  BY <1>1, <1>2

\* What is told of a group is told of its failing tests, each with the meaning
\* of its signal.
LEMMA ToldAre ==
  ASSUME NEW tests, NEW says
  PROVE  /\ DOMAIN Told(tests, says) = Failing(tests)
         /\ \A n \in Failing(tests) :
              /\ Told(tests, says)[n].test = tests[n]
              /\ Told(tests, says)[n].says = says[tests[n].signal]
BY DEF Told

\* Of a diagnostic that both can read, gitlab-to-amqp and xqueue-to-amqp tell
\* the same verdict, the same error and, of every group, the same failing tests,
\* but for the exceptions that the property names.
THEOREM ReceiversDoAgree == FeedbackSpec => []ReceiversAgree
<1>1. ASSUME FeedbackInv, markdown # << >>, payload # << >>
      PROVE  ReceiversAgree
  <2>1. /\ markdown[1] = Posted(Answer)
        /\ payload[1] = ParseYamlResult(Answer)
        /\ ~ParseYamlResultFails(Answer)
        /\ Answer \in Report
    BY <1>1, AnswerIsReport DEF FeedbackInv
  <2>2. markdown[1].success = payload[1].correct
    BY <2>1 DEF Posted, ParseYamlResult, Correct, Success
  <2>3. ASSUME NEW comment \in Range(markdown[1].comment)
        PROVE  comment = YamlToMarkdown(Answer) /\ ~Correct(Answer)
    <3>1. markdown[1].comment = IF Success(Answer) THEN << >> ELSE <<YamlToMarkdown(Answer)>>
      BY <2>1 DEF Posted
    <3>2. CASE Success(Answer)
      BY <3>1, <3>2 DEF Range
    <3>3. CASE ~Success(Answer)
      <4>1. markdown[1].comment = <<YamlToMarkdown(Answer)>>
        BY <3>1, <3>3
      <4>2. comment = YamlToMarkdown(Answer)
        BY <4>1 DEF Range
      <4>3. QED
        BY <3>3, <4>2 DEF Correct, Success
    <3>4. QED
      BY <3>2, <3>3
  <2>4. ASSUME NEW comment \in Range(markdown[1].comment)
        PROVE  comment.error = payload[1].error
    <3>1. Answer.explanation \in {"absent", "text"}
      BY <2>1, <2>3 DEF ParseYamlResultFails, Report, Optional
    <3> DEFINE errs == ~Correct(Answer) /\ Answer.explanation # "absent"
    <3>2. payload[1].error = errs
      <4> HIDE DEF errs
      <4>1. \A p : (p = [correct |-> Correct(Answer), score |-> Answer.grade, error |-> errs,
                       sections |-> payload[1].sections]) => p.error = errs
        OBVIOUS
      <4>2. payload[1] = [correct |-> Correct(Answer), score |-> Answer.grade, error |-> errs,
                          sections |-> payload[1].sections]
        <5>1. payload[1] = ParseYamlResult(Answer)
          BY <2>1
        <5>2. QED
          BY <5>1 DEF ParseYamlResult, errs
      <4>3. QED
        BY <4>1, <4>2
    <3>3. CASE Answer.explanation = "text"
      <4>1. comment.error = TRUE
        BY <2>3, <3>3 DEF YamlToMarkdown
      <4>2. payload[1].error = TRUE
        BY <2>3, <3>3, <3>2
      <4>3. QED
        BY <4>1, <4>2
    <3>4. CASE Answer.explanation = "absent"
      <4>1. comment.error = FALSE
        BY <2>3, <3>4 DEF YamlToMarkdown
      <4>2. payload[1].error = FALSE
        BY <2>3, <3>4, <3>2
      <4>3. QED
        BY <4>1, <4>2
    <3>5. QED
      BY <3>1, <3>3, <3>4
  <2>5. ASSUME NEW comment \in Range(markdown[1].comment)
        PROVE  \/ comment.sections = << >> /\ payload[1].sections = << >>
               \/ /\ comment.sections = [k \in Shown(Answer.groups) |-> Section(Answer.groups[k])]
                  /\ payload[1].sections =
                       [k \in DOMAIN Answer.groups |-> Told(Answer.groups[k].tests, XQueueSignal)]
    <3>1. CASE Answer.explanation = "text"
      <4>1. comment.sections = << >>
        BY <2>3, <3>1 DEF YamlToMarkdown
      <4>2. payload[1].sections = << >>
        BY <2>1, <3>1 DEF ParseYamlResult
      <4>3. QED
        BY <4>1, <4>2
    <3>2. CASE Answer.explanation # "text"
      <4>1. Answer.explanation = "absent" /\ Answer.grouped
        BY <2>1, <2>3, <3>2 DEF ParseYamlResultFails, Report, Optional
      <4>2. comment.sections = [k \in Shown(Answer.groups) |-> Section(Answer.groups[k])]
        BY <2>3, <4>1 DEF YamlToMarkdown
      <4>3. payload[1].sections =
              [k \in DOMAIN Answer.groups |-> Told(Answer.groups[k].tests, XQueueSignal)]
        BY <2>1, <2>3, <4>1 DEF ParseYamlResult
      <4>4. QED
        BY <4>2, <4>3
    <3>3. QED
      BY <3>1, <3>2
  <2>6. ASSUME NEW comment \in Range(markdown[1].comment)
        PROVE  DOMAIN comment.sections \subseteq DOMAIN payload[1].sections
    <3>1. Shown(Answer.groups) \subseteq DOMAIN Answer.groups
      BY DEF Shown
    <3>2. QED
      BY <2>5, <3>1
  <2>7. ASSUME NEW comment \in Range(markdown[1].comment),
               NEW i \in DOMAIN payload[1].sections
        PROVE  IF i \notin DOMAIN comment.sections
               THEN Answer.groups[i].grade = Answer.groups[i].max
               ELSE \/ Answer.groups[i].grade = 0 /\ comment.sections[i].tests = << >>
                    \/ SameTests(comment.sections[i].tests, payload[1].sections[i])
    <3> DEFINE tests == Answer.groups[i].tests
    <3>1. /\ comment.sections = [k \in Shown(Answer.groups) |-> Section(Answer.groups[k])]
          /\ payload[1].sections =
               [k \in DOMAIN Answer.groups |-> Told(Answer.groups[k].tests, XQueueSignal)]
      BY <2>5, <2>7
    <3>2. i \in DOMAIN Answer.groups /\ payload[1].sections[i] = Told(tests, XQueueSignal)
      BY <2>7, <3>1
    <3>3. CASE i \notin Shown(Answer.groups)
      BY <3>1, <3>2, <3>3 DEF Shown
    <3>4. CASE i \in Shown(Answer.groups)
      <4>1. i \in DOMAIN comment.sections /\ comment.sections[i] = Section(Answer.groups[i])
        BY <3>1, <3>4
      <4>2. comment.sections[i].tests =
              IF Answer.groups[i].grade = 0 THEN << >> ELSE Told(tests, HubSignal)
        BY <4>1 DEF Section
      <4>3. ASSUME NEW n \in Failing(tests)
            PROVE  \/ HubSignal[tests[n].signal] = XQueueSignal[tests[n].signal]
                   \/ tests[n].signal \in {"7", "10", "null"}
        <5>1. tests[n].signal \in Signals
          BY <2>1, <3>2, <4>3, TestsOf DEF Failing, Test
        <5>2. QED
          BY <5>1 DEF HubSignal, XQueueSignal, Signals
      <4> HIDE DEF tests
      <4>4. SameTests(Told(tests, HubSignal), Told(tests, XQueueSignal))
        BY <4>3, ToldAre DEF SameTests
      <4>5. QED
        BY <3>2, <4>1, <4>2, <4>4
    <3>5. QED
      BY <3>3, <3>4
  <2>8. QED
    BY <2>2, <2>4, <2>6, <2>7 DEF ReceiversAgree
<1>2. FeedbackInv => ReceiversAgree
  BY <1>1 DEF ReceiversAgree
<1>3. QED
  BY <1>2, FeedbackInvariant, PTL

-----------------------------------------------------------------------------
(* Grades.                                                                 *)

\* What a test adds to a sum.
Counted(tests, some, n) == IF n \in some THEN tests[n].coefficient ELSE 0

\* A sum of coefficients is made a test at a time, and is a natural number.
LEMMA WeightIsSum ==
  ASSUME NEW tests \in Seq(Test), NEW some
  PROVE  \E f \in [0 .. Len(tests) -> Nat] :
           /\ f[0] = 0
           /\ \A n \in 0 .. Len(tests) - 1 : f[n + 1] = f[n] + Counted(tests, some, n + 1)
           /\ WeightOf(tests, some) = f[Len(tests)]
<1> DEFINE m == Len(tests)
           c == [n \in 1 .. m |-> Counted(tests, some, n)]
           Sums(f) == f = [n \in 0 .. m |->
                             IF n = 0 THEN 0
                             ELSE f[n - 1] + (IF n \in some THEN tests[n].coefficient ELSE 0)]
           sum == CHOOSE f : Sums(f)
<1>1. m \in Nat
  OBVIOUS
<1>2. \A n \in 1 .. m : Counted(tests, some, n) \in Nat
  BY DEF Counted, Test
<1>3. \E f : Sums(f)
  <2>1. c \in [1 .. m -> Nat]
    BY <1>2
  <2>2. PICK g \in [0 .. m -> Nat] : g[0] = 0 /\ \A n \in 1 .. m : g[n] = g[n - 1] + c[n]
    <3> HIDE DEF m, c
    <3>1. QED
      BY <1>1, <2>1, PartialSums
  <2>3. g = [n \in 0 .. m |-> g[n]]
    OBVIOUS
  <2>4. \A n \in 0 .. m :
          g[n] = IF n = 0 THEN 0
                 ELSE g[n - 1] + (IF n \in some THEN tests[n].coefficient ELSE 0)
    BY <1>1, <2>2 DEF Counted
  <2>5. Sums(g)
    <3> HIDE DEF m
    <3>1. QED
      BY <2>3, <2>4
  <2> HIDE DEF Sums
  <2>6. QED
    BY <2>5
<1>4. Sums(sum)
  <2> HIDE DEF Sums
  <2>1. QED
    BY <1>3
<1>5. sum[0] = 0 /\ \A n \in 1 .. m : sum[n] = sum[n - 1] + Counted(tests, some, n)
  <2> HIDE DEF sum
  <2>1. QED
    BY <1>1, <1>4 DEF Counted
<1>6. sum = [n \in 0 .. m |-> sum[n]]
  <2> HIDE DEF sum
  <2>1. QED
    BY <1>4
<1>7. \A n \in 0 .. m - 1 : sum[n + 1] = sum[n] + Counted(tests, some, n + 1)
  <2> HIDE DEF sum, m
  <2>1. QED
    BY <1>1, <1>5
<1>8. \A n \in Nat : n <= m => sum[n] \in Nat
  <2> DEFINE Good == {n \in Nat : n <= m => sum[n] \in Nat}
  <2> HIDE DEF sum
  <2>1. 0 \in Good
    BY <1>5
  <2>2. ASSUME NEW n \in Nat, n \in Good
        PROVE  n + 1 \in Good
    BY <1>1, <1>2, <1>5, <2>2
  <2> HIDE DEF Good
  <2>3. \A n \in Nat : n \in Good
    BY <2>1, <2>2, FromZero
  <2>4. QED
    BY <2>3 DEF Good
<1>9. WeightOf(tests, some) = sum[m]
  BY DEF WeightOf
<1>10. QED
  <2> HIDE DEF sum
  <2>1. QED
    BY <1>1, <1>5, <1>6, <1>7, <1>8, <1>9

\* The sum over two disjoint parts of a list.
LEMMA WeightSplits ==
  ASSUME NEW tests \in Seq(Test), NEW A, NEW B, A \cap B = {}
  PROVE  /\ WeightOf(tests, A) \in Nat
         /\ WeightOf(tests, B) \in Nat
         /\ WeightOf(tests, A \cup B) = WeightOf(tests, A) + WeightOf(tests, B)
<1> DEFINE m == Len(tests)
           AB == A \cup B
           Makes(f, some) ==
             /\ f[0] = 0
             /\ \A n \in 0 .. m - 1 : f[n + 1] = f[n] + Counted(tests, some, n + 1)
             /\ WeightOf(tests, some) = f[m]
<1>1. m \in Nat
  OBVIOUS
<1>2. \A n \in 1 .. m : /\ Counted(tests, A, n) \in Nat /\ Counted(tests, B, n) \in Nat
                        /\ Counted(tests, AB, n) = Counted(tests, A, n) + Counted(tests, B, n)
  BY DEF Counted, Test
<1> HIDE DEF AB
<1>3. PICK f \in [0 .. m -> Nat] : Makes(f, A)
  BY WeightIsSum
<1>4. PICK g \in [0 .. m -> Nat] : Makes(g, B)
  BY WeightIsSum
<1>5. PICK h \in [0 .. m -> Nat] : Makes(h, AB)
  BY WeightIsSum
<1> HIDE DEF m
<1> DEFINE Good == {n \in Nat : n <= m => h[n] = f[n] + g[n]}
<1>6. 0 \in Good
  BY <1>3, <1>4, <1>5
<1>7. ASSUME NEW n \in Nat, n \in Good, n + 1 <= m
      PROVE  h[n + 1] = f[n + 1] + g[n + 1]
  <2>1. n \in 0 .. m - 1 /\ n + 1 \in 1 .. m /\ n \in 0 .. m
    BY <1>1, <1>7
  <2>2. h[n] = f[n] + g[n]
    BY <1>7, <2>1
  <2>3. f[n + 1] = f[n] + Counted(tests, A, n + 1)
    BY <1>3, <2>1
  <2>4. g[n + 1] = g[n] + Counted(tests, B, n + 1)
    BY <1>4, <2>1
  <2>5. h[n + 1] = h[n] + Counted(tests, AB, n + 1)
    BY <1>5, <2>1
  <2>6. f[n] \in Nat /\ g[n] \in Nat /\ h[n] \in Nat
    BY <2>1
  <2>7. /\ Counted(tests, A, n + 1) \in Nat /\ Counted(tests, B, n + 1) \in Nat
        /\ Counted(tests, AB, n + 1) =
             Counted(tests, A, n + 1) + Counted(tests, B, n + 1)
    BY <1>2, <2>1
  <2> HIDE DEF Good
  <2>8. QED
    BY <2>2, <2>3, <2>4, <2>5, <2>6, <2>7
<1>8. \A n \in Nat : n \in Good => n + 1 \in Good
  BY <1>7
<1>9. m \in Good
  <2> HIDE DEF Good
  <2>1. QED
    BY <1>1, <1>6, <1>8, FromZero
<1>10. h[m] = f[m] + g[m] /\ h[m] \in Nat /\ f[m] \in Nat /\ g[m] \in Nat
  BY <1>1, <1>9
<1>11. QED
  BY <1>3, <1>4, <1>5, <1>10 DEF AB

\* The points of a list of tests are those of the tests that succeed and those
\* of the tests that fail.
LEMMA PointsAreLostOrWon ==
  ASSUME NEW tests \in Seq(Test)
  PROVE  /\ GradeOf(tests) \in Nat
         /\ WeightOf(tests, Failing(tests)) \in Nat
         /\ Weight(tests) = GradeOf(tests) + WeightOf(tests, Failing(tests))
<1> DEFINE Passing == {n \in DOMAIN tests : tests[n].success}
<1>1. DOMAIN tests = Passing \cup Failing(tests) /\ Passing \cap Failing(tests) = {}
  BY DEF Failing
<1>2. QED
  BY <1>1, WeightSplits DEF GradeOf, Weight

\* The concatenation of some lists of tests is a list of tests.
LEMMA FlattenIsSeq ==
  ASSUME NEW S, NEW seqs \in Seq(Seq(S))
  PROVE  FlattenSeq(seqs) \in Seq(S)
<1> DEFINE m == Len(seqs)
           Joins(f) == f = [i \in 1 .. m |-> IF i = 1 THEN seqs[i] ELSE f[i - 1] \o seqs[i]]
           joined == CHOOSE f : Joins(f)
           join == [p \in Seq(S) \X (1 .. m) |-> IF p[2] = 1 THEN seqs[1] ELSE p[1] \o seqs[p[2]]]
<1>1. m \in Nat /\ \A i \in 1 .. m : seqs[i] \in Seq(S)
  OBVIOUS
<1>2. CASE m = 0
  <2>1. seqs = << >>
    BY <1>2
  <2>2. QED
    BY <1>2, <2>1 DEF FlattenSeq
<1>3. CASE m # 0
  <2>1. join \in StepsOver(Seq(S), m)
    <3>1. ASSUME NEW p \in Seq(S) \X (1 .. m)
          PROVE  (IF p[2] = 1 THEN seqs[1] ELSE p[1] \o seqs[p[2]]) \in Seq(S)
      <4>1. p[1] \in Seq(S) /\ p[2] \in 1 .. m /\ 1 \in 1 .. m
        BY <1>1, <1>3
      <4>2. seqs[1] \in Seq(S) /\ seqs[p[2]] \in Seq(S)
        BY <1>1, <4>1
      <4> HIDE DEF m
      <4>3. QED
        BY <4>1, <4>2
    <3> HIDE DEF m
    <3>2. QED
      BY <3>1 DEF StepsOver
  <2>2. << >> \in Seq(S)
    OBVIOUS
  <2>3. PICK f : Recursion(f, Seq(S), m, << >>, join)
    <3> HIDE DEF m, join
    <3>1. QED
      BY <1>1, <2>1, <2>2, StepByStep
  <2>4. f \in [0 .. m -> Seq(S)] /\ \A i \in 1 .. m : f[i] = join[<<f[i - 1], i>>]
    BY <2>3 DEF Recursion
  <2>5. ASSUME NEW i \in 1 .. m
        PROVE  f[i] = IF i = 1 THEN seqs[i] ELSE f[i - 1] \o seqs[i]
    <3>1. i - 1 \in 0 .. m
      BY <1>1
    <3>2. <<f[i - 1], i>> \in Seq(S) \X (1 .. m)
      BY <2>4, <3>1
    <3>3. join[<<f[i - 1], i>>] = IF i = 1 THEN seqs[1] ELSE f[i - 1] \o seqs[i]
      BY <3>2
    <3> HIDE DEF join
    <3>4. QED
      BY <2>4, <3>3
  <2>6. Joins([i \in 1 .. m |-> f[i]])
    <3> DEFINE g == [i \in 1 .. m |-> f[i]]
    <3>1. \A i \in 1 .. m : i # 1 => i - 1 \in 1 .. m
      BY <1>1
    <3> HIDE DEF m
    <3>2. \A i \in 1 .. m : g[i] = IF i = 1 THEN seqs[i] ELSE g[i - 1] \o seqs[i]
      BY <2>5, <3>1
    <3>3. g = [i \in 1 .. m |-> g[i]]
      OBVIOUS
    <3> HIDE DEF g
    <3>4. g = [i \in 1 .. m |-> IF i = 1 THEN seqs[i] ELSE g[i - 1] \o seqs[i]]
      BY <3>2, <3>3
    <3>5. QED
      BY <3>4 DEF g
  <2>7. Joins(joined)
    <3> HIDE DEF Joins
    <3>1. QED
      BY <2>6
  <2>8. \A i \in 1 .. m : joined[i] = IF i = 1 THEN seqs[i] ELSE joined[i - 1] \o seqs[i]
    <3> HIDE DEF joined, m
    <3>1. QED
      BY <2>7
  <2> DEFINE Good == {n \in Nat : n + 1 <= m => joined[n + 1] \in Seq(S)}
  <2> HIDE DEF joined, m
  <2>9. ASSUME NEW j \in 1 .. m - 1
         PROVE  joined[j + 1] = joined[j] \o seqs[j + 1]
    <3> DEFINE k == j + 1
    <3>1. k \in 1 .. m /\ k # 1 /\ k - 1 = j
      BY <1>1
    <3> HIDE DEF k
    <3>2. joined[k] = joined[k - 1] \o seqs[k]
      BY <2>8, <3>1
    <3>3. joined[k] = joined[j] \o seqs[k]
      BY <3>1, <3>2
    <3>4. QED
      BY <3>3 DEF k
  <2>10. 0 \in Good
    BY <1>1, <1>3, <2>8
  <2>11. ASSUME NEW n \in Nat, n \in Good
         PROVE  n + 1 \in Good
    <3>1. SUFFICES ASSUME n + 1 + 1 <= m PROVE joined[n + 1 + 1] \in Seq(S)
      OBVIOUS
    <3>2. n + 1 + 1 \in 1 .. m /\ n + 1 \in 1 .. m - 1 /\ n + 1 <= m
      BY <1>1, <3>1
    <3>3. joined[n + 1 + 1] = joined[n + 1] \o seqs[n + 1 + 1]
      BY <2>9, <3>2
    <3>4. joined[n + 1] \in Seq(S) /\ seqs[n + 1 + 1] \in Seq(S)
      BY <1>1, <2>11, <3>2
    <3>5. QED
      BY <3>3, <3>4
  <2>12. m - 1 \in Good
    <3>1. \A n \in Nat : n \in Good => n + 1 \in Good
      BY <2>11
    <3> HIDE DEF Good
    <3>2. m - 1 \in Nat
      BY <1>1, <1>3
    <3>3. QED
      BY <2>10, <3>1, <3>2, FromZero
  <2>13. joined[m] \in Seq(S)
    BY <1>1, <1>3, <2>12
  <2>14. FlattenSeq(seqs) = joined[m]
    BY <1>3 DEF FlattenSeq, joined, m
  <2>15. QED
    BY <2>13, <2>14
<1>4. QED
  BY <1>2, <1>3

\* The tests of a report are a list of tests.
LEMMA AllTestsAreTests ==
  ASSUME NEW r \in Report
  PROVE  AllTests(r) \in Seq(Test)
<1>1. r.groups \in Seq(Group)
  BY DEF Report
<1>2. ASSUME NEW i \in DOMAIN r.groups
      PROVE  r.groups[i].tests \in Seq(Test)
  <2>1. r.groups[i] \in Group
    BY <1>1
  <2>2. QED
    BY <2>1 DEF Group
<1>3. [i \in DOMAIN r.groups |-> r.groups[i].tests] \in Seq(Seq(Test))
  BY <1>1, <1>2
<1>4. QED
  BY <1>3, FlattenIsSeq DEF AllTests

\* A grade below the maximum is said to lose the points of the tests that fail.
LEMMA PassFailTellsLost ==
  ASSUME NEW tests \in Seq(Test), GradeOf(tests) # Weight(tests)
  PROVE  PassFail(GradeOf(tests), Weight(tests)) =
           <<"failing", WeightOf(tests, Failing(tests))>>
<1> DEFINE grade == GradeOf(tests)
           lost == WeightOf(tests, Failing(tests))
<1>1. grade \in Nat /\ lost \in Nat /\ Weight(tests) = grade + lost
  BY PointsAreLostOrWon
<1>2. lost # 0
  BY <1>1
<1> HIDE DEF lost
<1>3. ASSUME NEW g \in Nat, NEW l \in Nat, l # 0
      PROVE  PassFail(g, g + l) = <<"failing", l>>
  <2>1. ~ g > g + l /\ g # g + l
    BY <1>3
  <2>2. CASE g = 0
    <3>1. PassFail(g, g + l) = <<"failing", g + l>>
      BY <2>1, <2>2 DEF PassFail
    <3>2. QED
      BY <2>2, <3>1
  <2>3. CASE g # 0
    <3>1. PassFail(g, g + l) = <<"failing", g + l - g>>
      BY <2>1, <2>3 DEF PassFail
    <3>2. g + l - g = l
      BY <1>3
    <3>3. QED
      BY <3>1, <3>2
  <2>4. QED
    BY <2>2, <2>3
<1>4. PassFail(grade, grade + lost) = <<"failing", lost>>
  <2> HIDE DEF grade
  <2>1. QED
    BY <1>1, <1>2, <1>3
<1>5. QED
  BY <1>1, <1>4 DEF lost

\* The comment of gitlab-to-amqp leaves out no failing test that costs points,
\* but those of a group without any point, and announces as lost the points of
\* the failing tests, whatever the coefficients.
THEOREM FailuresDoShow == FeedbackSpec => []FailuresAreTold
<1>1. ASSUME FeedbackInv, markdown # << >>, ~markdown[1].success, Consistent(Answer)
      PROVE  LET comment == markdown[1].comment[1]
                 LostIn(tests) == <<"failing", WeightOf(tests, Failing(tests))>>
             IN  /\ comment.title = LostIn(AllTests(Answer))
                 /\ \A i \in DOMAIN Answer.groups :
                      LET tests == Answer.groups[i].tests IN
                        WeightOf(tests, Failing(tests)) > 0 =>
                          /\ i \in DOMAIN comment.sections
                          /\ comment.sections[i].title = LostIn(tests)
                          /\ \/ comment.sections[i].tests = Told(tests, HubSignal)
                             \/ GradeOf(tests) = 0
  <2> DEFINE comment == markdown[1].comment[1]
             groups == Answer.groups
  <2>1. markdown[1] = Posted(Answer) /\ Answer \in Report
    BY <1>1, AnswerIsReport DEF FeedbackInv
  <2>2. ~Success(Answer) /\ markdown[1].comment = <<YamlToMarkdown(Answer)>>
    BY <1>1, <2>1 DEF Posted
  <2>3. Answer.explanation # "text" /\ Answer.grouped
    BY <1>1 DEF Consistent
  <2>4. /\ comment.title = PassFail(Answer.grade, Answer.max)
        /\ comment.sections = [i \in Shown(groups) |-> Section(groups[i])]
    BY <2>2, <2>3 DEF YamlToMarkdown
  <2>5. Answer.grade = GradeOf(AllTests(Answer)) /\ Answer.max = Weight(AllTests(Answer))
    BY <1>1 DEF Consistent
  <2>6. comment.title = <<"failing", WeightOf(AllTests(Answer), Failing(AllTests(Answer)))>>
    <3>1. GradeOf(AllTests(Answer)) # Weight(AllTests(Answer))
      BY <2>2, <2>5 DEF Success
    <3>2. AllTests(Answer) \in Seq(Test)
      BY <2>1, AllTestsAreTests
    <3>3. QED
      BY <2>4, <2>5, <3>1, <3>2, PassFailTellsLost
  <2>7. ASSUME NEW i \in DOMAIN groups,
               WeightOf(groups[i].tests, Failing(groups[i].tests)) > 0
        PROVE  /\ i \in DOMAIN comment.sections
               /\ comment.sections[i].title =
                    <<"failing", WeightOf(groups[i].tests, Failing(groups[i].tests))>>
               /\ \/ comment.sections[i].tests = Told(groups[i].tests, HubSignal)
                  \/ GradeOf(groups[i].tests) = 0
    <3> DEFINE tests == groups[i].tests
    <3>1. groups[i].grade = GradeOf(tests) /\ groups[i].max = Weight(tests)
      BY <1>1 DEF Consistent
    <3>2. tests \in Seq(Test)
      BY <2>1, TestsOf
    <3>3. GradeOf(tests) # Weight(tests)
      <4>1. /\ GradeOf(tests) \in Nat /\ WeightOf(tests, Failing(tests)) \in Nat
            /\ Weight(tests) = GradeOf(tests) + WeightOf(tests, Failing(tests))
        BY <3>2, PointsAreLostOrWon
      <4> HIDE DEF tests
      <4>2. WeightOf(tests, Failing(tests)) > 0
        BY <2>7 DEF tests
      <4>3. QED
        BY <4>1, <4>2
    <3>4. i \in Shown(groups)
      BY <3>1, <3>3 DEF Shown
    <3> DEFINE section == comment.sections[i]
    <3>5. i \in DOMAIN comment.sections /\ section = Section(groups[i])
      BY <2>4, <3>4
    <3>6. section.title = PassFail(GradeOf(tests), Weight(tests))
      BY <3>1, <3>5 DEF Section
    <3>7. section.tests = Told(tests, HubSignal) \/ GradeOf(tests) = 0
      BY <3>1, <3>5 DEF Section
    <3> HIDE DEF tests, section
    <3>8. section.title = <<"failing", WeightOf(tests, Failing(tests))>>
      BY <3>2, <3>3, <3>6, PassFailTellsLost
    <3>9. QED
      BY <3>5, <3>7, <3>8 DEF tests, section
  <2>8. QED
    BY <2>6, <2>7
<1>2. FeedbackInv => FailuresAreTold
  BY <1>1 DEF FailuresAreTold
<1>3. QED
  BY <1>2, FeedbackInvariant, PTL
=============================================================================
