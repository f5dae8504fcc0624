------------------------------ MODULE MCFeedback ------------------------------
(* Small instances of Feedback for TLC. *)
EXTENDS Feedback

GroupOf(tests, description) ==
  [grade |-> GradeOf(tests), max |-> Weight(tests), description |-> description,
   tests |-> tests]

ReportOf(groups, explanation) ==
  LET r == [form |-> "report", grade |-> 0, max |-> 0, explanation |-> explanation,
            grouped |-> TRUE, groups |-> groups]
  IN  [r EXCEPT !.grade = GradeOf(AllTests(r)), !.max = Weight(AllTests(r))]

\* Tests of a coefficient of two at most.
SmallTest == {t \in [coefficient : 0 .. 2, success : BOOLEAN, signal : Signals] :
                t \in Test}

UpTo(n) == UNION {[1 .. k -> SmallTest] : k \in 0 .. n}

\* Consistent reports of one group of two tests at most, and of two groups of
\* one test at most.
OneGroup == {ReportOf(<<GroupOf(tests, d)>>, "absent") :
               tests \in UpTo(2), d \in {"absent", "text"}}
TwoGroups == {ReportOf(<<GroupOf(ts, "null"), GroupOf(us, "text")>>, "null") :
                ts, us \in UpTo(1)}
             \cup {ReportOf(<<GroupOf(ts, "null"), GroupOf(us, "text")>>, "absent") :
                     ts, us \in UpTo(1)}

\* Grades that are not those of the tests, with and without an explanation.
AGroup == GroupOf(<<[coefficient |-> 2, success |-> FALSE, signal |-> "11"]>>, "text")
OtherGrades ==
  {[form |-> "report", grade |-> grade, max |-> max, explanation |-> explanation,
    grouped |-> grouped,
    groups |-> IF grouped THEN <<[AGroup EXCEPT !.grade = grade]>> ELSE << >>] :
     grade, max \in 0 .. 3, explanation \in Optional, grouped \in BOOLEAN}

Garbage == [ErrorOutput EXCEPT !.form = "garbage"]

AllReports == OneGroup \cup TwoGroups \cup OtherGrades \cup {Garbage}

\* Every project with a few reports, every report with a plain project.
Succeeds == [coefficient |-> 1, success |-> TRUE, signal |-> "absent"]
Few == {ReportOf(<<GroupOf(<<Succeeds>>, "text")>>, "absent"),
        ReportOf(<<GroupOf(<<Succeeds>>, "text"), AGroup>>, "absent"), Garbage}
Plain == [makefile |-> "none", configure |-> "works", autogen |-> "none",
          generated |-> "fails", compiles |-> TRUE, built |-> FALSE]

MCCases == (Tree \X Few) \cup ({Plain} \X AllReports)
=============================================================================
