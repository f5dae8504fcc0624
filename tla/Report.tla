-------------------------------- MODULE Report --------------------------------
(***************************************************************************)
(* What a student reads of a diagnostic: the status and the comment that   *)
(* gitlab-to-amqp posts (report.rs), the payload that xqueue-to-amqp gives *)
(* to EDX (parse_yaml_result).  Operators only.                            *)
(*                                                                         *)
(* A diagnostic is a report of groups of tests, or of one error.           *)
(***************************************************************************)
EXTENDS Naturals, Sequences, SequencesExt

\* The signal of a test: the field may be left out, or be null.  11 stands for
\* the signals that both programs number alike.
Signals == {"absent", "null", "7", "10", "11"}
Test == {t \in [coefficient : Nat, success : BOOLEAN, signal : Signals] :
           t.success => t.signal = "absent"}

\* An optional field of the YAML text.
Optional == {"absent", "null", "text"}

Group == [grade : Nat, max : Nat, description : Optional, tests : Seq(Test)]

\* form: "report", or "garbage", which is not one.  grouped: it has groups.
Report == [form : {"report", "garbage"}, grade : Nat, max : Nat,
           explanation : Optional, grouped : BOOLEAN, groups : Seq(Group)]

\* The error of a builder, worth as much as its tests.
ErrorOutputOfNothing ==
  [form |-> "report", grade |-> 0, max |-> 0, explanation |-> "text",
   grouped |-> FALSE, groups |-> << >>]

\* write_error of the builder, yaml_error of amqp-to-test.
ErrorOutput ==
  [form |-> "report", grade |-> 0, max |-> 1, explanation |-> "text",
   grouped |-> FALSE, groups |-> << >>]

\* Where the tests that fail are in a list.
Failing(tests) == {n \in DOMAIN tests : ~tests[n].success}

\* The tests that fail, in their order, with what is said of their signals.
Told(tests, says) ==
  [n \in Failing(tests) |-> [test |-> tests[n], says |-> says[tests[n].signal]]]

-----------------------------------------------------------------------------
(* gitlab-to-amqp.                                                         *)

\* signal_to_explanation, for a signal that is there and is not null; the
\* numbers are those of Linux.
HubSignal ==
  [s \in Signals |-> CASE s \in {"absent", "null"} -> "none"
                       [] s = "7" -> "bus error"
                       [] s = "11" -> "segmentation fault" [] OTHER -> "crash"]

PassFail(grade, max) ==
  CASE grade > max -> <<"passing", grade>>
    [] grade = max -> <<"passing", max>>
    [] grade = 0 -> <<"failing", max>>
    [] OTHER -> <<"failing", max - grade>>

Section(group) ==
  [title |-> PassFail(group.grade, group.max),
   tests |-> IF group.grade = 0 THEN << >> ELSE Told(group.tests, HubSignal)]

\* The groups without any point.
ShownOfFailed(groups) == {i \in DOMAIN groups : groups[i].grade = 0}

\* The groups whose grade is not the maximal one have a section each.
Shown(groups) == {i \in DOMAIN groups : groups[i].grade # groups[i].max}

YamlToMarkdown(report) ==
  LET groups == IF report.grouped THEN report.groups ELSE << >> IN
    IF report.explanation = "text"
    THEN [error |-> TRUE, title |-> << >>, sections |-> << >>]
    ELSE [error |-> FALSE, title |-> PassFail(report.grade, report.max),
          sections |-> [i \in Shown(groups) |-> Section(groups[i])]]

Success(report) == report.grade = report.max

-----------------------------------------------------------------------------
(* xqueue-to-amqp.                                                         *)

\* signal_to_explanation, whenever there is a field: null is a crash.
XQueueSignal ==
  [s \in Signals |-> CASE s = "absent" -> "none" [] s = "10" -> "bus error"
                       [] s = "11" -> "segmentation fault" [] OTHER -> "crash"]

\* A diagnostic without an explanation taken for a success.
CorrectByExplanation(report) == report.explanation = "absent"

Correct(report) == report.grade = report.max

\* A field that is absent, or null where a text is wanted, is an exception.
ParseYamlResultFails(report) ==
  /\ ~Correct(report)
  /\ \/ report.explanation = "null"
     \/ /\ report.explanation = "absent"
        /\ \/ ~report.grouped
           \/ \E i \in DOMAIN report.groups : report.groups[i].description = "absent"

\* Every group is in the message.
ParseYamlResult(report) ==
  [correct |-> Correct(report), score |-> report.grade,
   error |-> ~Correct(report) /\ report.explanation # "absent",
   sections |-> IF Correct(report) \/ report.explanation # "absent"
                THEN << >>
                ELSE [i \in DOMAIN report.groups |->
                        Told(report.groups[i].tests, XQueueSignal)]]

-----------------------------------------------------------------------------
(* What the test program means.                                            *)

\* The sum of the coefficients of some of the tests of a list.
WeightOf(tests, some) ==
  LET sum[n \in 0 .. Len(tests)] ==
        IF n = 0 THEN 0
        ELSE sum[n - 1] + (IF n \in some THEN tests[n].coefficient ELSE 0)
  IN  sum[Len(tests)]

Weight(tests) == WeightOf(tests, DOMAIN tests)

AllTests(report) ==
  FlattenSeq([i \in DOMAIN report.groups |-> report.groups[i].tests])

\* Grades are the weight of the tests that succeed.
GradeOf(tests) == WeightOf(tests, {n \in DOMAIN tests : tests[n].success})

Consistent(report) ==
  /\ report.form = "report" /\ report.grouped /\ report.explanation # "text"
  /\ \A i \in DOMAIN report.groups :
       LET g == report.groups[i] IN g.grade = GradeOf(g.tests) /\ g.max = Weight(g.tests)
  /\ report.grade = GradeOf(AllTests(report))
  /\ report.max = Weight(AllTests(report))
=============================================================================
