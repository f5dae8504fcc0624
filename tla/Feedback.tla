------------------------------- MODULE Feedback -------------------------------
(***************************************************************************)
(* From the sources of a student to what the student reads: the builder    *)
(* (Builder) makes the compiler and runs the tests, the tester passes its  *)
(* diagnostic on, and the hub or xqueue-to-amqp tells it (Report).  A job  *)
(* comes from one of the two; here both tell its diagnostic, which shows   *)
(* whether they tell the same.                                             *)
(***************************************************************************)
EXTENDS Builder, Report

CONSTANT Cases   \* what the builder is given: a project, and what the tests
                 \* print on it

ASSUME FeedbackAssumption == Cases \subseteq Tree \X Report

VARIABLES
  printed,     \* what the tests print
  diagnostic,  \* what the tester answers, in a sequence of one
  markdown,    \* what the hub posts, in a sequence of one: a success, or a
               \* failure with its comment
  payload      \* what xqueue-to-amqp puts, in a sequence of one

told == <<markdown, payload>>
feedbackVars == <<builderVars, printed, diagnostic, told>>

FeedbackInit ==
  /\ BuilderInit
  /\ printed \in {c[2] : c \in {d \in Cases : d[1] = project}}
  /\ diagnostic = << >>
  /\ markdown = << >>
  /\ payload = << >>

\* What is printed taken, however the container ends.
TesterAnswersAnyway ==
  /\ diagnostic = << >>
  /\ step \in {"exit", "exit1"}
  /\ diagnostic' = <<printed>>
  /\ UNCHANGED <<builderVars, printed, told>>

\* The container ends: the tester takes what the builder wrote, or reports an
\* error of its own when the builder ends with an error.
TesterAnswers ==
  /\ diagnostic = << >>
  /\ \/ step = "exit"
        /\ diagnostic' = IF written[1] = "diagnostic" THEN <<printed>> ELSE <<ErrorOutput>>
     \/ step = "exit1" /\ diagnostic' = <<ErrorOutput>>
  /\ UNCHANGED <<builderVars, printed, told>>

Answer == diagnostic[1]
IsReport == diagnostic # << >> /\ Answer.form = "report"

\* response_to_post: a success has no comment.
Posted(report) ==
  [success |-> Success(report),
   comment |-> IF Success(report) THEN << >> ELSE <<YamlToMarkdown(report)>>]

ResponseToPost ==
  /\ IsReport /\ markdown = << >>
  /\ markdown' = << Posted(Answer) >>
  /\ UNCHANGED <<builderVars, printed, diagnostic, payload>>

OnGraderMessage ==
  /\ IsReport /\ payload = << >>
  /\ ~ParseYamlResultFails(Answer)
  /\ payload' = << ParseYamlResult(Answer) >>
  /\ UNCHANGED <<builderVars, printed, diagnostic, markdown>>

BuilderStep == BuilderNext /\ UNCHANGED <<printed, diagnostic, told>>

FeedbackNext == BuilderStep \/ TesterAnswers \/ ResponseToPost \/ OnGraderMessage

\* Every program of the chain goes on.
FeedbackSpec ==
  /\ FeedbackInit /\ [][FeedbackNext]_feedbackVars
  /\ WF_feedbackVars(BuilderStep)
  /\ WF_feedbackVars(TesterAnswers)
  /\ WF_feedbackVars(ResponseToPost)
  /\ WF_feedbackVars(OnGraderMessage)

-----------------------------------------------------------------------------
(* Properties.                                                             *)

\* A success is told of no project but one that was built and whose tests were
\* run, with all the points; it is then told by both.
VerdictIsEarned ==
  /\ (\/ markdown # << >> /\ markdown[1].success
      \/ payload # << >> /\ payload[1].correct)
       => error = "none" /\ dtiger # "none" /\ Success(printed)
  /\ (error = "none" /\ dtiger # "none" /\ step = "exit" /\ Success(printed)) =>
       /\ markdown # << >> => markdown[1].success
       /\ payload # << >> => payload[1].correct

\* The comment of a report tells all that the student has to know of it: a
\* failing test that costs points is in the list of its group, or the group is
\* said to fail as a whole and no test in it earns any; and the points that are
\* announced as lost are those of the failing tests.
FailuresAreTold ==
  markdown # << >> /\ ~markdown[1].success /\ Consistent(Answer) =>
    LET comment == markdown[1].comment[1]
        LostIn(tests) == <<"failing", WeightOf(tests, Failing(tests))>>
    IN  /\ comment.title = LostIn(AllTests(Answer))
        /\ \A i \in DOMAIN Answer.groups :
             LET tests == Answer.groups[i].tests IN
               WeightOf(tests, Failing(tests)) > 0 =>
                 /\ i \in DOMAIN comment.sections
                 /\ comment.sections[i].title = LostIn(tests)
                 /\ \/ comment.sections[i].tests = Told(tests, HubSignal)
                    \/ GradeOf(tests) = 0

\* What the comment shows of the failing tests of a group, and what the message
\* of xqueue-to-amqp lists.
SameTests(shown, listed) ==
  /\ DOMAIN shown = DOMAIN listed
  /\ \A n \in DOMAIN shown :
       /\ shown[n].test = listed[n].test
       /\ \/ shown[n].says = listed[n].says
          \/ shown[n].test.signal \in {"7", "10", "null"}

\* The two receivers tell the same of a diagnostic: the verdict, the error, and
\* of each group the failing tests, in their order.  They differ in this only:
\* a group whose grade is its maximal one is in the message of xqueue-to-amqp
\* (with its failing tests, if they weigh nothing) and not in the comment; a
\* group without any point is in the comment without its tests; signals 7 and 10
\* are not numbered alike, and a null signal is a crash for xqueue-to-amqp and
\* none for the hub.
ReceiversAgree ==
  markdown # << >> /\ payload # << >> =>
    /\ markdown[1].success = payload[1].correct
    /\ \A comment \in Range(markdown[1].comment) :
         /\ comment.error = payload[1].error
         /\ DOMAIN comment.sections \subseteq DOMAIN payload[1].sections
         /\ \A i \in DOMAIN payload[1].sections :
              LET listed == payload[1].sections[i]
                  group == Answer.groups[i]
              IN  IF i \notin DOMAIN comment.sections
                  THEN group.grade = group.max
                  ELSE \/ group.grade = 0 /\ comment.sections[i].tests = << >>
                       \/ SameTests(comment.sections[i].tests, listed)

\* What makes them true: the tester answers with what the builder wrote, and the
\* two receivers tell this answer.
FeedbackInv ==
  /\ BuilderInv
  /\ printed \in Report
  /\ \/ diagnostic = << >>
     \/ diagnostic = <<printed>> /\ step = "exit" /\ error = "none"
     \/ /\ diagnostic = <<ErrorOutput>>
        /\ step = "exit" => error # "none"
        /\ step \in {"exit", "exit1"}
  /\ markdown # << >> => diagnostic # << >> /\ markdown = << Posted(Answer) >>
  /\ payload # << >> =>
       /\ diagnostic # << >> /\ ~ParseYamlResultFails(Answer)
       /\ payload = << ParseYamlResult(Answer) >>

\* Whatever happens to a build, its student is told: by the hub unless the
\* tests print what is not a report, by xqueue-to-amqp unless a field is
\* missing as well.
EveryBuildIsTold ==
  /\ <>(markdown # << >> \/ (diagnostic # << >> /\ Answer.form = "garbage"))
  /\ <>(\/ payload # << >>
        \/ diagnostic # << >> /\ (Answer.form = "garbage" \/ ParseYamlResultFails(Answer)))
=============================================================================
