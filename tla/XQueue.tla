------------------------------- MODULE XQueue -------------------------------
(***************************************************************************)
(* xqueue-to-amqp: takes the submissions of students from the queue of EDX *)
(* for the testers, and returns the grades.  One asyncio process: the loop *)
(* poll_xqueue, and a callback per answer of the testers, all interleaved  *)
(* at their awaits.  An exception in the loop ends the process; one in a   *)
(* callback only leaves its message without acknowledgement.               *)
(*                                                                         *)
(* EDX gives each submission once.  It accepts one grade for it, and none  *)
(* once the key of the submission has expired.                             *)
(***************************************************************************)
EXTENDS Naturals, Sequences, FiniteSets, Functions, Dictionaries

CONSTANTS
  Submissions,
  Yamls,        \* the diagnostics of testers
  Malformed,    \* those that parse_yaml_result does not take
  MaxAnswers,   \* bound: how often the testers may answer one job
  MaxFaults     \* bound: crashes, lost connections and failed requests

ASSUME XAssumption ==
  /\ Malformed \subseteq Yamls
  /\ MaxAnswers \in Nat
  /\ MaxFaults \in Nat

VARIABLES
  form,       \* what students send: "good"; "garbled", the parts are not all
              \* JSON; "misnamed", without a file named zip_name or a lab
  edx,        \* at EDX: what became of each submission
  poll,       \* "down", "idle", "taking" submissions, "gathering" publications
  left,       \* how many submissions the poll has still to take
  mustGrade,  \* those it has taken
  published,  \* how many times each has been published
  answers,    \* the queue of the answers, as a log for each submission (their
              \* callbacks run together, whatever their order in the queue)
  acked,      \* the answers that are acknowledged: <<submission, position>>
  stage,      \* the answers delivered to the process, and where each callback
              \* is: "login", "put", "ack", or ended by an exception ("failed")
  link,       \* the connection with the AMQP server is up
  refused,    \* history: the answers whose grade EDX failed to take
  faults

xVars == <<form, edx, poll, left, mustGrade, published, answers, acked, stage, link,
           refused, faults>>

Answers == {i \in Submissions \X (1 .. MaxAnswers) : i[2] <= Len(answers[i[1]])}
Job(i) == i[1]
Yaml(i) == answers[i[1]][i[2]]

Waiting == {s \in Submissions : edx[s] = "waiting"}
Garbled == {s \in Submissions : form[s] = "garbled"}
Misnamed == {s \in Submissions : form[s] = "misnamed"}

XTypeOK ==
  /\ form \in [Submissions -> {"good", "garbled", "misnamed"}]
  /\ edx \in [Submissions -> {"unsent", "waiting", "pulled", "graded", "expired"}]
  /\ poll \in {"down", "idle", "taking", "gathering"}
  /\ left \in 0 .. Cardinality(Waiting)
  /\ mustGrade \in SUBSET (Submissions \ Waiting)
  /\ published \in [Submissions -> Nat]
  /\ answers \in [Submissions -> Seq(Yamls)]
  /\ \A s \in Submissions : published[s] = 0 => answers[s] = << >>
  /\ acked \in SUBSET Answers
  /\ DOMAIN stage \subseteq Answers \ acked
  /\ Range(stage) \subseteq {"login", "put", "ack", "failed"}
  /\ link \in BOOLEAN
  /\ poll = "down" => ~link /\ mustGrade = {} /\ stage = << >>
  /\ refused \in SUBSET Answers
  /\ faults \in 0 .. MaxFaults

XInit ==
  /\ form \in [Submissions -> {"good", "garbled", "misnamed"}]
  /\ edx = [s \in Submissions |-> "unsent"]
  /\ poll = "down"
  /\ left = 0
  /\ mustGrade = {}
  /\ published = [s \in Submissions |-> 0]
  /\ answers = [s \in Submissions |-> << >>]
  /\ acked = {}
  /\ stage = << >>
  /\ link = FALSE
  /\ refused = {}
  /\ faults = 0

Fault == faults < MaxFaults /\ faults' = faults + 1

\* Messages that were not acknowledged go back to the queue: they are what is
\* neither acked nor in stage.
Ends ==
  /\ poll' = "down"
  /\ left' = 0
  /\ mustGrade' = {}
  /\ stage' = << >>
  /\ link' = FALSE

-----------------------------------------------------------------------------
(* EDX and the testers.                                                    *)

Submit(s) ==
  /\ edx[s] = "unsent"
  /\ edx' = [edx EXCEPT ![s] = "waiting"]
  /\ UNCHANGED <<form, poll, left, mustGrade, published, answers, acked, stage, link,
                 refused, faults>>

\* The key of a submission expires when its grade does not come in time.
Expire(s) ==
  /\ edx[s] = "pulled"
  /\ edx' = [edx EXCEPT ![s] = "expired"]
  /\ UNCHANGED <<form, poll, left, mustGrade, published, answers, acked, stage, link,
                 refused, faults>>

\* The testers, as JobService specifies them.
TestersAnswer(s, yaml) ==
  /\ published[s] > 0
  /\ Len(answers[s]) < MaxAnswers
  /\ answers' = [answers EXCEPT ![s] = Append(@, yaml)]
  /\ UNCHANGED <<form, edx, poll, left, mustGrade, published, acked, stage, link,
                 refused, faults>>

-----------------------------------------------------------------------------
(* The loop.                                                               *)

\* main: connect, declare, consume.
Connect ==
  /\ poll = "down"
  /\ poll' = "idle"
  /\ link' = TRUE
  /\ UNCHANGED <<form, edx, left, mustGrade, published, answers, acked, stage, refused,
                 faults>>

\* One submission more than the queue has.
StartPollLonger ==
  /\ poll = "idle"
  /\ left' = Cardinality(Waiting) + 1
  /\ poll' = "taking"
  /\ UNCHANGED <<form, edx, mustGrade, published, answers, acked, stage, link, refused,
                 faults>>

\* poll_xqueue reads the length of the queue once.
StartPoll ==
  /\ poll = "idle"
  /\ left' = Cardinality(Waiting)
  /\ poll' = "taking"
  /\ UNCHANGED <<form, edx, mustGrade, published, answers, acked, stage, link, refused,
                 faults>>

\* A list of one, that forgets those before.
TakeSubmissionAlone(s) ==
  /\ poll = "taking" /\ left > 0
  /\ s \in Waiting
  /\ edx' = [edx EXCEPT ![s] = "pulled"]
  /\ IF s \in Garbled
     THEN Ends
     ELSE /\ left' = left - 1
          /\ mustGrade' = {s}
          /\ UNCHANGED <<poll, stage, link>>
  /\ UNCHANGED <<form, published, answers, acked, refused, faults>>

\* xqueue_getsubmission: EDX gives a submission, which is then decoded.
TakeSubmission(s) ==
  /\ poll = "taking" /\ left > 0
  /\ s \in Waiting
  /\ edx' = [edx EXCEPT ![s] = "pulled"]
  /\ IF s \in Garbled
     THEN Ends
     ELSE /\ left' = left - 1
          /\ mustGrade' = mustGrade \cup {s}
          /\ UNCHANGED <<poll, stage, link>>
  /\ UNCHANGED <<form, published, answers, acked, refused, faults>>

StartGather ==
  /\ poll = "taking" /\ left = 0
  /\ poll' = "gathering"
  /\ UNCHANGED <<form, edx, left, mustGrade, published, answers, acked, stage, link,
                 refused, faults>>

\* grade_submission; the publications are made in any order.
GradeSubmission(s) ==
  /\ poll = "gathering" /\ link
  /\ s \in mustGrade \ Misnamed
  /\ published' = [published EXCEPT ![s] = @ + 1]
  /\ mustGrade' = mustGrade \ {s}
  /\ UNCHANGED <<form, edx, poll, left, answers, acked, stage, link, refused, faults>>

\* The first exception among them ends the process: those that are not made
\* yet will not be.
GatherFails ==
  /\ poll = "gathering"
  /\ mustGrade # {} /\ (~link \/ mustGrade \cap Misnamed # {})
  /\ Ends
  /\ UNCHANGED <<form, edx, published, answers, acked, refused, faults>>

EndPoll ==
  /\ poll = "gathering" /\ mustGrade = {}
  /\ poll' = "idle"
  /\ UNCHANGED <<form, edx, left, mustGrade, published, answers, acked, stage, link,
                 refused, faults>>

\* A request to EDX fails, or its answer is not the expected one.
PollFails ==
  /\ poll \in {"idle", "taking"}
  /\ Fault
  /\ Ends
  /\ UNCHANGED <<form, edx, published, answers, acked, refused>>

-----------------------------------------------------------------------------
(* The callbacks.                                                          *)

\* A consumer that takes one answer at a time.
DeliverAnswerAlone(i) ==
  /\ link
  /\ i \in Answers \ acked
  /\ stage = << >>
  /\ stage' = With(stage, i, IF Yaml(i) \in Malformed THEN "failed" ELSE "login")
  /\ UNCHANGED <<form, edx, poll, left, mustGrade, published, answers, acked, link,
                 refused, faults>>

\* on_grader_message up to the login: the answer is decoded, or is not.
DeliverAnswer(i) ==
  /\ link
  /\ i \in Answers \ (acked \cup DOMAIN stage)
  /\ stage' = With(stage, i, IF Yaml(i) \in Malformed THEN "failed" ELSE "login")
  /\ UNCHANGED <<form, edx, poll, left, mustGrade, published, answers, acked, link,
                 refused, faults>>

At(i, step) == i \in DOMAIN stage /\ stage[i] = step

\* xqueue_login; its exceptions are not caught.
Login(i) ==
  /\ At(i, "login")
  /\ \/ stage' = [stage EXCEPT ![i] = "put"] /\ UNCHANGED faults
     \/ stage' = [stage EXCEPT ![i] = "failed"] /\ Fault
  /\ UNCHANGED <<form, edx, poll, left, mustGrade, published, answers, acked, link,
                 refused>>

\* EDX takes the grade of a submission that waits for one.
Graded(s) ==
  edx' = IF edx[s] = "pulled" THEN [edx EXCEPT ![s] = "graded"] ELSE edx

\* xqueue_putresult: accepted, or refused by EDX, which is logged.
PutResult(i) ==
  /\ At(i, "put")
  /\ Graded(Job(i))
  /\ stage' = [stage EXCEPT ![i] = "ack"]
  /\ UNCHANGED <<form, poll, left, mustGrade, published, answers, acked, link, refused,
                 faults>>

\* The server of EDX is in error: taken for a refusal.
PutRefused(i) ==
  /\ At(i, "put")
  /\ Fault
  /\ stage' = [stage EXCEPT ![i] = "ack"]
  /\ refused' = refused \cup {i}
  /\ UNCHANGED <<form, edx, poll, left, mustGrade, published, answers, acked, link>>

\* Any exception taken for a refusal.
PutBreaksCaught(i) ==
  /\ At(i, "put")
  /\ Fault
  /\ Graded(Job(i)) \/ UNCHANGED edx
  /\ stage' = [stage EXCEPT ![i] = "ack"]
  /\ UNCHANGED <<form, poll, left, mustGrade, published, answers, acked, link, refused>>

\* The request breaks, before or after EDX took the grade: not caught.
PutBreaks(i) ==
  /\ At(i, "put")
  /\ Fault
  /\ Graded(Job(i)) \/ UNCHANGED edx
  /\ stage' = [stage EXCEPT ![i] = "failed"]
  /\ UNCHANGED <<form, poll, left, mustGrade, published, answers, acked, link, refused>>

AckAnswer(i) ==
  /\ At(i, "ack")
  /\ IF link
     THEN acked' = acked \cup {i} /\ stage' = Restrict(stage, DOMAIN stage \ {i})
     ELSE stage' = [stage EXCEPT ![i] = "failed"] /\ UNCHANGED acked
  /\ UNCHANGED <<form, edx, poll, left, mustGrade, published, answers, link, refused,
                 faults>>

-----------------------------------------------------------------------------

Crash ==
  /\ poll # "down"
  /\ Fault
  /\ Ends
  /\ UNCHANGED <<form, edx, published, answers, acked, refused>>

\* The connection with the AMQP server is lost: no more answers come, and the
\* process only notices when it has something to publish.
Disconnect ==
  /\ link
  /\ Fault
  /\ link' = FALSE
  /\ UNCHANGED <<form, edx, poll, left, mustGrade, published, answers, acked, stage,
                 refused>>

Poll ==
  \/ Connect \/ StartPoll \/ StartGather \/ GatherFails \/ EndPoll
  \/ \E s \in Submissions : TakeSubmission(s) \/ GradeSubmission(s)

Callback(i) == DeliverAnswer(i) \/ Login(i) \/ PutResult(i) \/ AckAnswer(i)

XNext ==
  \/ \E s \in Submissions : Submit(s) \/ Expire(s)
  \/ \E s \in Submissions, yaml \in Yamls : TestersAnswer(s, yaml)
  \/ Poll \/ PollFails
  \/ \E i \in Answers : Callback(i) \/ PutRefused(i) \/ PutBreaks(i)
  \/ Crash \/ Disconnect

XSpec == XInit /\ [][XNext]_xVars

\* The event loop runs the poll and every callback, the process is started
\* again when it ends, and the testers answer every job.
FairXSpec ==
  /\ XSpec
  /\ WF_xVars(Poll)
  /\ \A i \in Submissions \X (1 .. MaxAnswers) : WF_xVars(Callback(i))
  /\ \A s \in Submissions :
       WF_xVars(/\ answers[s] = << >>
                /\ \E yaml \in Yamls : TestersAnswer(s, yaml))

-----------------------------------------------------------------------------
(* Properties.                                                             *)

Taken(s) == edx[s] \notin {"unsent", "waiting"}
InHand(s) == (IF s \in mustGrade THEN 1 ELSE 0) + published[s]
Lost(s) == Taken(s) /\ InHand(s) = 0

\* A submission that EDX gave is to be published, or was, once: it is lost
\* only with a fault, or with one that is not well-formed among those taken.
SubmissionsAccounted ==
  \A s \in Submissions :
    /\ InHand(s) <= (IF Taken(s) THEN 1 ELSE 0)
    /\ Lost(s) => faults > 0 \/ \E t \in Garbled \cup Misnamed : Taken(t)

\* The answer of a tester only leaves the queue when its submission has a
\* grade at EDX or may have none any more, whatever ends or fails in between;
\* the one exception are the errors of EDX that putresult takes for refusals.
AckedIsDealt ==
  \A i \in acked \ refused : edx[Job(i)] \in {"graded", "expired"}

\* What makes the invariants above inductive: a running process is cut from the
\* AMQP server by a fault only, and a callback that is about to acknowledge has
\* dealt with its answer.
CutByFault == poll # "down" /\ ~link => faults > 0

AckingIsDealt ==
  \A i \in DOMAIN stage \ refused :
    stage[i] = "ack" => edx[Job(i)] \in {"graded", "expired"}

XInv ==
  /\ XTypeOK
  /\ IsFiniteSet(Waiting)
  /\ SubmissionsAccounted
  /\ CutByFault
  /\ AckingIsDealt
  /\ AckedIsDealt
\* "Process all submissions in queue": without faults a submission gets its
\* grade or expires, unless it is lost with others, or all its diagnostics are
\* malformed; a malformed diagnostic, which stays with the process for ever,
\* does not hold up the grades of others.
EveryGradeReturned ==
  \A s \in Submissions :
    edx[s] = "waiting" ~>
      \/ edx[s] \in {"graded", "expired"}
      \/ Lost(s) \/ faults > 0
      \/ answers[s] # << >> /\ Range(answers[s]) \subseteq Malformed
=============================================================================
