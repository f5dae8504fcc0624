----------------------------- MODULE JobService -----------------------------
(***************************************************************************)
(* What the graders that wait behind the AMQP server promise to those who  *)
(* submit jobs, without testers, channels or connections: a job may be     *)
(* answered several times, it is never withdrawn before it was answered,   *)
(* once withdrawn it does not come back, and each of its answers is        *)
(* reported once at most.                                                  *)
(***************************************************************************)
EXTENDS Naturals, Sequences, FiniteSets

CONSTANTS Jobs, Yamls

VARIABLES submitted,   \* the jobs submitted so far
          settled,     \* those that will not be run again
          answers,     \* log of the answers
          reports      \* log of the reports

serviceVars == <<submitted, settled, answers, reports>>

HasAnswer(j) == \E i \in DOMAIN answers : answers[i].job = j
AnswersOf(j) == {i \in DOMAIN answers : answers[i].job = j}
ReportsOf(j) == {i \in DOMAIN reports : reports[i].job = j}

ServiceInit ==
  /\ submitted = {}
  /\ settled = {}
  /\ answers = << >>
  /\ reports = << >>

SubmitJob(j) ==
  /\ j \notin submitted
  /\ submitted' = submitted \cup {j}
  /\ UNCHANGED <<settled, answers, reports>>

\* An answer may be late: another one may have settled the job meanwhile.
Answer(j, yaml) ==
  /\ j \in submitted
  /\ answers' = Append(answers, [job |-> j, yaml |-> yaml])
  /\ UNCHANGED <<submitted, settled, reports>>

Settle(j) ==
  /\ j \in submitted \ settled
  /\ HasAnswer(j)
  /\ settled' = settled \cup {j}
  /\ UNCHANGED <<submitted, answers, reports>>

\* A report repeats one of the answers.
ReportJob(i) ==
  /\ Cardinality(ReportsOf(answers[i].job)) < Cardinality(AnswersOf(answers[i].job))
  /\ reports' = Append(reports, answers[i])
  /\ UNCHANGED <<submitted, settled, answers>>

ServiceNext ==
  \/ \E j \in Jobs : SubmitJob(j) \/ Settle(j)
  \/ \E j \in Jobs, yaml \in Yamls : Answer(j, yaml)
  \/ \E i \in DOMAIN answers : ReportJob(i)

ServiceSpec == ServiceInit /\ [][ServiceNext]_serviceVars
=============================================================================
