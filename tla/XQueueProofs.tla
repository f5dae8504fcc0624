---------------------------- MODULE XQueueProofs ----------------------------
(***************************************************************************)
(* Proofs about xqueue-to-amqp, for any number of submissions, of answers  *)
(* and of faults: a submission that was taken is accounted for, and only   *)
(* an answer that was dealt with leaves the queue.                         *)
(***************************************************************************)
EXTENDS XQueue, SequenceLemmas

-----------------------------------------------------------------------------
(* The log of the answers.                                                 *)

\* The answers that are published, by submission and rank.
LEMMA AnswersAre ==
  ASSUME NEW i
  PROVE  /\ i \in Answers <=>
              \E s \in Submissions, n \in 1 .. MaxAnswers :
                i = <<s, n>> /\ n <= Len(answers[s])
         /\ i \in Answers' <=>
              \E s \in Submissions, n \in 1 .. MaxAnswers :
                i = <<s, n>> /\ n <= Len(answers'[s])
BY DEF Answers

\* An answer is to a submission that was published.
LEMMA AnswerOf ==
  ASSUME XTypeOK, SubmissionsAccounted, NEW i \in Answers
  PROVE  Job(i) \in Submissions /\ Taken(Job(i)) /\ published[Job(i)] > 0
<1>1. PICK s \in Submissions, n \in 1 .. MaxAnswers : i = <<s, n>> /\ n <= Len(answers[s])
  BY AnswersAre
<1>2. Job(i) = s
  BY <1>1 DEF Job
<1>3. published[s] \in Nat /\ published[s] > 0
  BY <1>1, XAssumption DEF XTypeOK
<1>4. Taken(s)
  BY <1>3 DEF SubmissionsAccounted, InHand
<1>5. QED
  BY <1>2, <1>3, <1>4

-----------------------------------------------------------------------------
(* What a step does to the submissions, and to the answers.                *)

\* The steps of the process that leave EDX alone.
ElseX ==
  \/ \E s \in Submissions, yaml \in Yamls : TestersAnswer(s, yaml)
  \/ Connect \/ StartPoll \/ StartGather \/ GatherFails \/ EndPoll
  \/ \E s \in Submissions : GradeSubmission(s)
  \/ PollFails
  \/ \E i \in Answers : DeliverAnswer(i) \/ Login(i) \/ AckAnswer(i) \/ PutRefused(i)
  \/ Crash \/ Disconnect
  \/ UNCHANGED xVars

\* The other steps leave EDX alone.
LEMMA ElseKeepsEdx ==
  ASSUME ElseX
  PROVE  UNCHANGED edx
BY DEF ElseX, TestersAnswer, Connect, StartPoll, StartGather, GatherFails, EndPoll,
       GradeSubmission, PollFails, DeliverAnswer, Login, AckAnswer, PutRefused,
       Crash, Disconnect, xVars

\* The steps of xqueue-to-amqp, as far as EDX is concerned.
LEMMA StepsOfX ==
  ASSUME [XNext]_xVars
  PROVE  \/ \E s \in Submissions : Submit(s)
         \/ \E s \in Submissions : Expire(s)
         \/ \E s \in Submissions : TakeSubmission(s)
         \/ \E i \in Answers : PutResult(i) \/ PutBreaks(i)
         \/ ElseX
BY DEF XNext, Poll, Callback, ElseX

\* A submission only goes on at EDX.
LEMMA EdxStep ==
  ASSUME XTypeOK, [XNext]_xVars
  PROVE  /\ edx' \in [Submissions ->
                        {"unsent", "waiting", "pulled", "graded", "expired"}]
         /\ \A s \in Submissions :
              /\ Taken(s) => Taken(s)'
              /\ edx[s] \in {"graded", "expired"} => edx'[s] = edx[s]
<1>1. edx \in [Submissions -> {"unsent", "waiting", "pulled", "graded", "expired"}]
  BY DEF XTypeOK
<1>2. ASSUME NEW i \in Answers, PutResult(i) \/ PutBreaks(i)
      PROVE  UNCHANGED edx \/ Graded(Job(i))
  BY <1>2 DEF PutResult, PutBreaks
<1>3. ASSUME NEW i \in Answers, Graded(Job(i))
      PROVE  \/ UNCHANGED edx
             \/ edx[Job(i)] = "pulled" /\ edx' = [edx EXCEPT ![Job(i)] = "graded"]
  BY <1>3 DEF Graded
<1>4. CASE UNCHANGED edx
  BY <1>1, <1>4 DEF Taken
<1>5. ASSUME NEW s, edx[s] = "pulled", NEW e \in {"graded", "expired"},
             edx' = [edx EXCEPT ![s] = e]
      PROVE  /\ edx' \in [Submissions ->
                            {"unsent", "waiting", "pulled", "graded", "expired"}]
             /\ \A k \in Submissions :
                  /\ Taken(k) => Taken(k)'
                  /\ edx[k] \in {"graded", "expired"} => edx'[k] = edx[k]
  BY <1>1, <1>5 DEF Taken
<1>6. CASE \E i \in Answers : PutResult(i) \/ PutBreaks(i)
  BY <1>2, <1>3, <1>4, <1>5, <1>6
<1>7. CASE \E s \in Submissions : Expire(s)
  BY <1>5, <1>7 DEF Expire
<1>8. CASE \E s \in Submissions : Submit(s) \/ TakeSubmission(s)
  BY <1>1, <1>8 DEF Submit, TakeSubmission, Waiting, Taken
<1>9. QED
  BY <1>4, <1>6, <1>7, <1>8, ElseKeepsEdx, StepsOfX

\* The queue of EDX, and how much of it the poll has still to take.
LEMMA WaitingStep ==
  ASSUME XTypeOK, IsFiniteSet(Waiting), [XNext]_xVars
  PROVE  /\ IsFiniteSet(Waiting')
         /\ left' \in 0 .. Cardinality(Waiting')
<1>1. /\ edx \in [Submissions -> {"unsent", "waiting", "pulled", "graded", "expired"}]
      /\ left \in 0 .. Cardinality(Waiting)
      /\ Cardinality(Waiting) \in Nat
  BY FS_CardinalityType DEF XTypeOK
<1>2. ASSUME NEW s \in Submissions, Submit(s)
      PROVE  /\ IsFiniteSet(Waiting')
             /\ left' \in 0 .. Cardinality(Waiting')
  <2>1. Waiting' = Waiting \cup {s} /\ s \notin Waiting /\ left' = left
    BY <1>1, <1>2 DEF Submit, Waiting
  <2>2. IsFiniteSet(Waiting') /\ Cardinality(Waiting') = Cardinality(Waiting) + 1
    BY <2>1, FS_AddElement
  <2>3. QED
    BY <1>1, <2>1, <2>2
<1>3. ASSUME NEW s \in Submissions, TakeSubmission(s)
      PROVE  /\ IsFiniteSet(Waiting')
             /\ left' \in 0 .. Cardinality(Waiting')
  <2>1. Waiting' = Waiting \ {s} /\ s \in Waiting /\ left > 0 /\ left' \in {0, left - 1}
    BY <1>1, <1>3 DEF TakeSubmission, Waiting, Ends
  <2>2. IsFiniteSet(Waiting') /\ Cardinality(Waiting') = Cardinality(Waiting) - 1
    BY <2>1, FS_RemoveElement
  <2>3. QED
    BY <1>1, <2>1, <2>2
<1>4. ASSUME Waiting' = Waiting, left' \in {0, left, Cardinality(Waiting)}
      PROVE  /\ IsFiniteSet(Waiting')
             /\ left' \in 0 .. Cardinality(Waiting')
  BY <1>1, <1>4
<1>5. CASE \E s \in Submissions : Expire(s)
  <2>1. Waiting' = Waiting /\ left' = left
    BY <1>1, <1>5 DEF Expire, Waiting
  <2>2. QED
    BY <1>4, <2>1
<1>6. CASE \E i \in Answers : PutResult(i) \/ PutBreaks(i)
  <2>1. Waiting' = Waiting /\ left' = left
    BY <1>1, <1>6 DEF PutResult, PutBreaks, Graded, Waiting
  <2>2. QED
    BY <1>4, <2>1
<1>7. CASE ElseX
  <2>1. Waiting' = Waiting
    BY <1>7, ElseKeepsEdx DEF Waiting
  <2>2. left' \in {0, left, Cardinality(Waiting)}
    BY <1>7
    DEF ElseX, TestersAnswer, Connect, StartPoll, StartGather, GatherFails, EndPoll,
        GradeSubmission, PollFails, DeliverAnswer, Login, AckAnswer, PutRefused,
        Crash, Disconnect, Ends, xVars
  <2>3. QED
    BY <1>4, <2>1, <2>2
<1>8. QED
  BY <1>2, <1>3, <1>5, <1>6, <1>7, StepsOfX

\* A publication, an answer of the testers, or neither.
LEMMA LogOfX ==
  ASSUME [XNext]_xVars
  PROVE  \/ \E s \in Submissions : GradeSubmission(s)
         \/ \E s \in Submissions, yaml \in Yamls : TestersAnswer(s, yaml)
         \/ UNCHANGED <<published, answers>>
BY DEF XNext, Poll, Callback, Submit, Expire, Connect, StartPoll, StartGather,
       GatherFails, EndPoll, TakeSubmission, PollFails, DeliverAnswer, Login,
       PutResult, AckAnswer, PutRefused, PutBreaks, Crash, Disconnect, xVars

\* Every step keeps the types of what is published; no answer is taken back.
LEMMA AnswersStep ==
  ASSUME XTypeOK, [XNext]_xVars
  PROVE  /\ published' \in [Submissions -> Nat]
         /\ answers' \in [Submissions -> Seq(Yamls)]
         /\ \A s \in Submissions : published'[s] = 0 => answers'[s] = << >>
         /\ Answers \subseteq Answers'
<1>1. /\ published \in [Submissions -> Nat]
      /\ answers \in [Submissions -> Seq(Yamls)]
      /\ \A s \in Submissions : published[s] = 0 => answers[s] = << >>
  BY DEF XTypeOK
<1>2. CASE UNCHANGED <<published, answers>>
  BY <1>1, <1>2 DEF Answers
<1>3. ASSUME NEW s \in Submissions, GradeSubmission(s)
      PROVE  /\ published' \in [Submissions -> Nat]
             /\ answers' = answers
             /\ \A k \in Submissions : published'[k] = 0 => published[k] = 0
  BY <1>1, <1>3 DEF GradeSubmission
<1>4. CASE \E s \in Submissions : GradeSubmission(s)
  BY <1>1, <1>3, <1>4 DEF Answers
<1>5. ASSUME NEW s \in Submissions, NEW yaml \in Yamls, TestersAnswer(s, yaml)
      PROVE  /\ answers' \in [Submissions -> Seq(Yamls)]
             /\ published' = published /\ published[s] # 0
             /\ \A k \in Submissions :
                  /\ k # s => answers'[k] = answers[k]
                  /\ Len(answers[k]) \in Nat /\ Len(answers'[k]) \in Nat
                  /\ Len(answers[k]) <= Len(answers'[k])
  <2>1. /\ published' = published /\ published[s] # 0
        /\ answers' = [answers EXCEPT ![s] = Append(@, yaml)]
    BY <1>1, <1>5 DEF TestersAnswer
  <2>2. /\ Append(answers[s], yaml) \in Seq(Yamls)
        /\ Len(Append(answers[s], yaml)) = Len(answers[s]) + 1
    BY <1>1, AppendIs
  <2>3. \A k \in Submissions : Len(answers[k]) \in Nat
    BY <1>1
  <2>4. QED
    BY <1>1, <2>1, <2>2, <2>3
<1>6. CASE \E s \in Submissions, yaml \in Yamls : TestersAnswer(s, yaml)
  <2>1. PICK s \in Submissions, yaml \in Yamls : TestersAnswer(s, yaml)
    BY <1>6
  <2>2. \A k \in Submissions : published'[k] = 0 => answers'[k] = << >>
    BY <1>1, <1>5, <2>1
  <2>3. ASSUME NEW i \in Answers
        PROVE  i \in Answers'
    <3>1. PICK k \in Submissions, n \in 1 .. MaxAnswers :
            i = <<k, n>> /\ n <= Len(answers[k])
      BY AnswersAre
    <3>2. n <= Len(answers'[k])
      BY <1>5, <2>1, <3>1
    <3>3. QED
      BY <3>1, <3>2, AnswersAre
  <2>4. QED
    BY <1>1, <1>5, <2>1, <2>2, <2>3
<1>7. QED
  BY <1>2, <1>4, <1>6, LogOfX

-----------------------------------------------------------------------------
(* The callbacks.                                                          *)

\* The callback of answer i comes to another stage.
Comes(i, to) ==
  /\ i \in DOMAIN stage /\ DOMAIN stage' = DOMAIN stage
  /\ stage'[i] = to
  /\ \A k \in DOMAIN stage \ {i} : stage'[k] = stage[k]

\* The steps of xqueue-to-amqp, as far as the callbacks are concerned.
LEMMA StageCases ==
  ASSUME [XNext]_xVars
  PROVE  \/ UNCHANGED <<stage, acked, refused>>
         \/ DOMAIN stage' = {} /\ UNCHANGED <<acked, refused>>
         \/ \E i \in Answers \ acked :
              /\ DOMAIN stage' = DOMAIN stage \cup {i}
              /\ stage'[i] \in {"login", "failed"}
              /\ \A k \in DOMAIN stage \ {i} : stage'[k] = stage[k]
              /\ UNCHANGED <<acked, refused>>
         \/ \E i \in DOMAIN stage : \E to \in {"put", "failed"} :
              Comes(i, to) /\ UNCHANGED <<acked, refused>>
         \/ \E i \in DOMAIN stage :
              PutResult(i) /\ Comes(i, "ack") /\ UNCHANGED <<acked, refused>>
         \/ \E i \in DOMAIN stage :
              /\ Comes(i, "ack") /\ UNCHANGED acked
              /\ refused' = refused \cup {i}
         \/ \E i \in DOMAIN stage :
              /\ stage[i] = "ack"
              /\ DOMAIN stage' = DOMAIN stage \ {i}
              /\ \A k \in DOMAIN stage' : stage'[k] = stage[k]
              /\ acked' = acked \cup {i} /\ UNCHANGED refused
<1>1. CASE \/ \E s \in Submissions : Submit(s) \/ Expire(s)
           \/ \E s \in Submissions, yaml \in Yamls : TestersAnswer(s, yaml)
           \/ Poll \/ PollFails \/ Crash \/ Disconnect
  <2>1. stage' \in {stage, << >>} /\ UNCHANGED <<acked, refused>>
    BY <1>1
    DEF Submit, Expire, TestersAnswer, Poll, Connect, StartPoll, StartGather,
        GatherFails, EndPoll, TakeSubmission, GradeSubmission, PollFails, Crash,
        Disconnect, Ends
  <2>2. DOMAIN << >> = {}
    OBVIOUS
  <2>3. QED
    BY <2>1, <2>2
<1>2. ASSUME NEW i \in Answers, DeliverAnswer(i)
      PROVE  /\ i \notin acked
             /\ DOMAIN stage' = DOMAIN stage \cup {i}
             /\ stage'[i] \in {"login", "failed"}
             /\ \A k \in DOMAIN stage \ {i} : stage'[k] = stage[k]
             /\ UNCHANGED <<acked, refused>>
  BY <1>2 DEF DeliverAnswer, With
<1>3. ASSUME NEW i \in Answers, Login(i)
      PROVE  /\ i \in DOMAIN stage /\ UNCHANGED <<acked, refused>>
             /\ Comes(i, "put") \/ Comes(i, "failed")
  BY <1>3 DEF Login, At, Comes
<1>4. ASSUME NEW i \in Answers, PutResult(i)
      PROVE  i \in DOMAIN stage /\ UNCHANGED <<acked, refused>> /\ Comes(i, "ack")
  BY <1>4 DEF PutResult, At, Comes
<1>5. ASSUME NEW i \in Answers, PutRefused(i)
      PROVE  /\ i \in DOMAIN stage /\ UNCHANGED acked /\ Comes(i, "ack")
             /\ refused' = refused \cup {i}
  BY <1>5 DEF PutRefused, At, Comes
<1>6. ASSUME NEW i \in Answers, PutBreaks(i)
      PROVE  i \in DOMAIN stage /\ UNCHANGED <<acked, refused>> /\ Comes(i, "failed")
  BY <1>6 DEF PutBreaks, At, Comes
<1>7. ASSUME NEW i \in Answers, AckAnswer(i), link
      PROVE  /\ i \in DOMAIN stage /\ stage[i] = "ack"
             /\ DOMAIN stage' = DOMAIN stage \ {i}
             /\ \A k \in DOMAIN stage' : stage'[k] = stage[k]
             /\ acked' = acked \cup {i} /\ UNCHANGED refused
  BY <1>7 DEF AckAnswer, At, Restrict
<1>8. ASSUME NEW i \in Answers, AckAnswer(i), ~link
      PROVE  i \in DOMAIN stage /\ UNCHANGED <<acked, refused>> /\ Comes(i, "failed")
  BY <1>8 DEF AckAnswer, At, Comes
<1>9. CASE UNCHANGED xVars
  BY <1>9 DEF xVars
<1>10. ASSUME NEW i \in Answers, Callback(i) \/ PutRefused(i) \/ PutBreaks(i)
       PROVE  \/ DeliverAnswer(i) \/ Login(i) \/ PutResult(i) \/ PutRefused(i)
              \/ PutBreaks(i)
              \/ AckAnswer(i) /\ link
              \/ AckAnswer(i) /\ ~link
  BY <1>10 DEF Callback
<1>11. CASE \E i \in Answers : Callback(i) \/ PutRefused(i) \/ PutBreaks(i)
  <2>1. PICK i \in Answers : Callback(i) \/ PutRefused(i) \/ PutBreaks(i)
    BY <1>11
  <2>2. CASE DeliverAnswer(i)
    BY <1>2, <2>2
  <2>3. CASE Login(i) \/ PutResult(i) \/ PutRefused(i) \/ PutBreaks(i)
    BY <1>3, <1>4, <1>5, <1>6, <2>3
  <2>4. CASE AckAnswer(i) /\ link
    BY <1>7, <2>4
  <2>5. CASE AckAnswer(i) /\ ~link
    BY <1>8, <2>5
  <2>6. QED
    BY <1>10, <2>1, <2>2, <2>3, <2>4, <2>5
<1>12. QED
  BY <1>1, <1>9, <1>11 DEF XNext

\* Where the callbacks are, and what was acknowledged.
LEMMA StageStep ==
  ASSUME XTypeOK, [XNext]_xVars
  PROVE  /\ acked' \in SUBSET Answers' /\ refused' \in SUBSET Answers'
         /\ DOMAIN stage' \subseteq Answers' \ acked'
         /\ Range(stage') \subseteq {"login", "put", "ack", "failed"}
<1>1. /\ acked \subseteq Answers /\ refused \subseteq Answers
      /\ DOMAIN stage \subseteq Answers \ acked
      /\ \A k \in DOMAIN stage : stage[k] \in {"login", "put", "ack", "failed"}
      /\ Answers \subseteq Answers'
  BY AnswersStep DEF XTypeOK, Range
<1>2. /\ acked' \subseteq Answers /\ refused' \subseteq Answers
      /\ DOMAIN stage' \subseteq Answers \ acked'
      /\ \A k \in DOMAIN stage' : stage'[k] \in {"login", "put", "ack", "failed"}
  BY <1>1, StageCases DEF Comes
<1>3. QED
  BY <1>1, <1>2 DEF Range

\* What is acknowledged, or about to be, was dealt with.
LEMMA DealtStep ==
  ASSUME XTypeOK, SubmissionsAccounted, AckingIsDealt, AckedIsDealt, [XNext]_xVars
  PROVE  AckingIsDealt' /\ AckedIsDealt'
<1> DEFINE Dealt(i) == edx[Job(i)] \in {"graded", "expired"}
<1>1. \A i \in Answers : Job(i) \in Submissions /\ Taken(Job(i))
  BY AnswerOf
<1>2. /\ edx \in [Submissions -> {"unsent", "waiting", "pulled", "graded", "expired"}]
      /\ acked \subseteq Answers /\ DOMAIN stage \subseteq Answers
  BY DEF XTypeOK
<1>3. \A i \in Answers : Dealt(i) => Dealt(i)'
  BY <1>1, EdxStep DEF Job
<1>4. ASSUME NEW i \in DOMAIN stage, PutResult(i)
      PROVE  Dealt(i)'
  BY <1>1, <1>2, <1>4 DEF PutResult, Graded, Taken, Job
<1>5. /\ \A i \in DOMAIN stage \ refused : stage[i] = "ack" => Dealt(i)
      /\ \A i \in acked \ refused : Dealt(i)
  BY DEF AckingIsDealt, AckedIsDealt
<1>6. SUFFICES /\ \A i \in DOMAIN stage' \ refused' : stage'[i] = "ack" => Dealt(i)'
               /\ \A i \in acked' \ refused' : Dealt(i)'
  BY DEF AckingIsDealt, AckedIsDealt
<1> HIDE DEF Dealt
<1>7. QED
  BY <1>2, <1>3, <1>4, <1>5, StageCases DEF Comes

-----------------------------------------------------------------------------
(* The loop, and what it has in hand.                                      *)

\* A step counts a fault or none.
LEMMA FaultsOfX ==
  ASSUME XTypeOK, [XNext]_xVars
  PROVE  /\ form' = form
         /\ faults' = faults \/ Fault
         /\ faults \in Nat /\ faults' \in 0 .. MaxFaults /\ faults' >= faults
<1>1. form' = form /\ (faults' = faults \/ Fault)
  BY DEF XNext, Poll, Callback, Submit, Expire, TestersAnswer, Connect, StartPoll,
         StartGather, GatherFails, EndPoll, TakeSubmission, GradeSubmission,
         PollFails, DeliverAnswer, Login, PutResult, AckAnswer, PutRefused,
         PutBreaks, Crash, Disconnect, xVars
<1>2. faults \in 0 .. MaxFaults /\ MaxFaults \in Nat
  BY XAssumption DEF XTypeOK
<1>3. QED
  BY <1>1, <1>2 DEF Fault

\* Why the process ends.
Cause ==
  \/ Fault
  \/ poll # "down" /\ ~link
  \/ mustGrade \cap Misnamed # {}
  \/ \E s \in Garbled \cap Waiting : edx' = [edx EXCEPT ![s] = "pulled"]

\* The steps of xqueue-to-amqp, as far as the submissions in hand are concerned.
LEMMA HandsCases ==
  ASSUME [XNext]_xVars
  PROVE  \/ Ends /\ Cause /\ UNCHANGED published
         \/ \E s \in Waiting :
              /\ edx' = [edx EXCEPT ![s] = "pulled"]
              /\ mustGrade' = mustGrade \cup {s}
              /\ UNCHANGED <<poll, link, published>>
         \/ \E s \in mustGrade :
              /\ published' = [published EXCEPT ![s] = @ + 1]
              /\ mustGrade' = mustGrade \ {s}
              /\ UNCHANGED <<edx, poll, link>>
         \/ /\ UNCHANGED <<mustGrade, published>>
            /\ ~\E s \in Submissions : TakeSubmission(s)
            /\ \/ UNCHANGED <<poll, link>>
               \/ poll' # "down" /\ link'
               \/ poll # "down" /\ poll' # "down" /\ UNCHANGED link
               \/ link /\ Fault /\ poll' = poll
<1>1. ASSUME NEW s \in Submissions, TakeSubmission(s), s \in Garbled
      PROVE  Ends /\ Cause /\ UNCHANGED published
  BY <1>1 DEF TakeSubmission, Cause
<1>2. ASSUME NEW s \in Submissions, TakeSubmission(s), s \notin Garbled
      PROVE  /\ s \in Waiting
             /\ edx' = [edx EXCEPT ![s] = "pulled"]
             /\ mustGrade' = mustGrade \cup {s}
             /\ UNCHANGED <<poll, link, published>>
  BY <1>2 DEF TakeSubmission
<1>3. CASE GatherFails \/ PollFails \/ Crash
  BY <1>3 DEF GatherFails, PollFails, Crash, Cause
<1>4. CASE \E s \in Submissions : GradeSubmission(s)
  BY <1>4 DEF GradeSubmission
<1>5. CASE ~\E s \in Submissions : TakeSubmission(s)
  <2>1. CASE \/ \E s \in Submissions : Submit(s) \/ Expire(s)
             \/ \E s \in Submissions, yaml \in Yamls : TestersAnswer(s, yaml)
             \/ \E i \in Answers : Callback(i) \/ PutRefused(i) \/ PutBreaks(i)
             \/ UNCHANGED xVars
    BY <1>5, <2>1
    DEF Submit, Expire, TestersAnswer, Callback, DeliverAnswer, Login, PutResult,
        AckAnswer, PutRefused, PutBreaks, xVars
  <2>2. CASE Connect \/ StartPoll \/ StartGather \/ EndPoll \/ Disconnect
    BY <1>5, <2>2 DEF Connect, StartPoll, StartGather, EndPoll, Disconnect
  <2>3. QED
    BY <1>3, <1>4, <1>5, <2>1, <2>2 DEF XNext, Poll
<1>6. QED
  BY <1>1, <1>2, <1>5

\* A process without a connection has had a fault.
LEMMA CutStep ==
  ASSUME XTypeOK, CutByFault, [XNext]_xVars
  PROVE  CutByFault'
<1>1. faults \in Nat /\ faults' \in Nat /\ faults' >= faults
  BY FaultsOfX
<1>2. CASE Ends
  BY <1>2 DEF Ends, CutByFault
<1>3. CASE UNCHANGED <<poll, link>>
  BY <1>1, <1>3 DEF CutByFault
<1>4. CASE link'
  BY <1>4 DEF CutByFault
<1>5. CASE poll # "down" /\ UNCHANGED link
  BY <1>1, <1>5 DEF CutByFault
<1>6. CASE Fault
  BY <1>1, <1>6 DEF Fault, CutByFault
<1>7. QED
  BY <1>2, <1>3, <1>4, <1>5, <1>6, HandsCases

\* What is taken is in hand, or published, once; or else it is lost with a cause.
LEMMA AccountedStep ==
  ASSUME XTypeOK, SubmissionsAccounted, CutByFault, [XNext]_xVars
  PROVE  SubmissionsAccounted'
<1> DEFINE Excuse == faults > 0 \/ \E t \in Garbled \cup Misnamed : Taken(t)
<1>1. /\ edx \in [Submissions -> {"unsent", "waiting", "pulled", "graded", "expired"}]
      /\ mustGrade \subseteq Submissions
      /\ published \in [Submissions -> Nat]
      /\ \A s \in Submissions :
           /\ InHand(s) <= (IF Taken(s) THEN 1 ELSE 0)
           /\ Lost(s) => Excuse
  BY DEF XTypeOK, SubmissionsAccounted
<1>2. \A s \in Submissions : Taken(s) => Taken(s)'
  BY EdxStep
<1>3. /\ faults \in Nat /\ faults' \in Nat /\ faults' >= faults
      /\ Garbled' = Garbled /\ Misnamed' = Misnamed
      /\ Garbled \subseteq Submissions /\ Misnamed \subseteq Submissions
  BY FaultsOfX DEF Garbled, Misnamed
<1>4. Excuse => Excuse'
  BY <1>2, <1>3
<1>5. SUFFICES ASSUME NEW s \in Submissions
               PROVE  /\ InHand(s)' <= (IF Taken(s)' THEN 1 ELSE 0)
                      /\ Lost(s)' => Excuse'
  BY DEF SubmissionsAccounted
<1>6. /\ InHand(s) \in Nat /\ InHand(s) <= (IF Taken(s) THEN 1 ELSE 0)
      /\ Lost(s) => Excuse
  BY <1>1 DEF InHand
<1>7. CASE Ends /\ Cause /\ UNCHANGED published
  <2>1. InHand(s)' \in Nat /\ InHand(s)' <= InHand(s)
    BY <1>1, <1>7 DEF InHand, Ends
  <2>2. Excuse'
    <3>1. CASE Fault
      BY <1>3, <3>1 DEF Fault
    <3>2. CASE poll # "down" /\ ~link
      BY <1>4, <3>2 DEF CutByFault
    <3>3. CASE mustGrade \cap Misnamed # {}
      <4>1. PICK t \in mustGrade : t \in Misnamed
        BY <3>3
      <4>2. InHand(t) >= 1 /\ t \in Submissions
        BY <1>1, <4>1 DEF InHand
      <4>3. Taken(t)
        BY <1>1, <4>2 DEF InHand
      <4>4. QED
        BY <1>4, <4>1, <4>3
    <3>4. CASE \E t \in Garbled \cap Waiting : edx' = [edx EXCEPT ![t] = "pulled"]
      BY <1>1, <1>3, <3>4 DEF Taken
    <3>5. QED
      BY <1>7, <3>1, <3>2, <3>3, <3>4 DEF Cause
  <2>3. QED
    BY <1>2, <1>6, <2>1, <2>2
<1>8. ASSUME NEW k \in Waiting,
             edx' = [edx EXCEPT ![k] = "pulled"],
             mustGrade' = mustGrade \cup {k},
             UNCHANGED published
      PROVE  InHand(s)' <= (IF Taken(s)' THEN 1 ELSE 0) /\ (Lost(s)' => Excuse')
  <2>1. CASE s = k
    <3>1. ~Taken(s) /\ Taken(s)' /\ published[s] \in Nat
      BY <1>1, <1>8, <2>1 DEF Taken, Waiting
    <3>2. published[s] = 0
      BY <1>6, <3>1 DEF InHand
    <3>3. InHand(s)' = 1
      BY <1>8, <2>1, <3>2 DEF InHand
    <3>4. QED
      BY <3>1, <3>3 DEF Lost
  <2>2. CASE s # k
    <3>1. InHand(s)' = InHand(s) /\ (Taken(s)' <=> Taken(s))
      BY <1>1, <1>8, <2>2 DEF InHand, Taken, Waiting
    <3>2. QED
      BY <1>4, <1>6, <3>1 DEF Lost
  <2>3. QED
    BY <2>1, <2>2
<1>9. ASSUME NEW k \in mustGrade,
             published' = [published EXCEPT ![k] = @ + 1],
             mustGrade' = mustGrade \ {k},
             UNCHANGED edx
      PROVE  InHand(s)' <= (IF Taken(s)' THEN 1 ELSE 0) /\ (Lost(s)' => Excuse')
  <2>1. InHand(s)' = InHand(s)
    BY <1>1, <1>9 DEF InHand
  <2>2. Taken(s)' <=> Taken(s)
    BY <1>9 DEF Taken
  <2>3. QED
    BY <1>4, <1>6, <2>1, <2>2 DEF Lost
<1>10. CASE UNCHANGED <<mustGrade, published>> /\ ~\E k \in Submissions : TakeSubmission(k)
  <2>1. InHand(s)' = InHand(s)
    BY <1>10 DEF InHand
  <2>2. Taken(s)' <=> Taken(s)
    BY <1>1, <1>10, StepsOfX, ElseKeepsEdx
    DEF Taken, Submit, Expire, PutResult, PutBreaks, Graded
  <2>3. QED
    BY <1>4, <1>6, <2>1, <2>2 DEF Lost
<1>11. QED
  BY <1>7, <1>8, <1>9, <1>10, HandsCases

\* Every variable stays in its type.
LEMMA XTypeStep ==
  ASSUME XTypeOK, IsFiniteSet(Waiting), SubmissionsAccounted,
         SubmissionsAccounted', [XNext]_xVars
  PROVE  XTypeOK'
<1>1. /\ form' \in [Submissions -> {"good", "garbled", "misnamed"}]
      /\ faults' \in 0 .. MaxFaults
  BY FaultsOfX DEF XTypeOK
<1>2. mustGrade' \in SUBSET Submissions
  BY HandsCases DEF Ends, XTypeOK, Waiting
<1>3. \A s \in mustGrade' : s \notin Waiting'
  <2> SUFFICES ASSUME NEW s \in mustGrade'
               PROVE  s \notin Waiting'
    OBVIOUS
  <2>1. published'[s] \in Nat /\ InHand(s)' >= 1
    BY <1>2, AnswersStep DEF InHand
  <2>2. Taken(s)'
    BY <1>2, <2>1 DEF SubmissionsAccounted, InHand
  <2>3. QED
    BY <2>2 DEF Taken, Waiting
<1>4. /\ poll' \in {"down", "idle", "taking", "gathering"}
      /\ link' \in BOOLEAN
  BY DEF XTypeOK, XNext, Poll, Callback, Submit, Expire, TestersAnswer, Connect,
         StartPoll, StartGather, GatherFails, EndPoll, TakeSubmission,
         GradeSubmission, PollFails, DeliverAnswer, Login, PutResult, AckAnswer,
         PutRefused, PutBreaks, Crash, Disconnect, Ends, xVars
<1>5. poll' = "down" => ~link' /\ mustGrade' = {} /\ stage' = << >>
  <2>1. CASE Ends
    BY <2>1 DEF Ends
  <2>2. CASE poll = "down" /\ UNCHANGED poll
    <3>1. ~link /\ mustGrade = {} /\ stage = << >>
      BY <2>2 DEF XTypeOK
    <3>2. \A i \in Answers : i \notin DOMAIN stage
      BY <3>1
    <3>3. QED
      BY <2>2, <3>1, <3>2
      DEF XNext, Poll, Callback, Submit, Expire, TestersAnswer, Connect,
          StartPoll, StartGather, GatherFails, EndPoll, TakeSubmission,
          GradeSubmission, PollFails, DeliverAnswer, Login, PutResult, AckAnswer,
          PutRefused, PutBreaks, At, Crash, Disconnect, xVars
  <2>3. CASE poll # "down" /\ UNCHANGED poll
    BY <2>3
  <2>4. CASE poll' # "down"
    BY <2>4
  <2>5. QED
    BY <2>1, <2>2, <2>3, <2>4, HandsCases
<1>6. QED
  BY <1>1, <1>2, <1>3, <1>4, <1>5, EdxStep, WaitingStep, AnswersStep, StageStep
  DEF XTypeOK

-----------------------------------------------------------------------------
(* Theorems.                                                               *)

\* The inductive invariant of xqueue-to-amqp: what EDX, the process and the
\* queues know of a submission agrees, whatever ends or fails in between.
THEOREM XInvariant == XSpec => []XInv
<1>1. XInit => XInv
  <2> SUFFICES ASSUME XInit
               PROVE  XInv
    OBVIOUS
  <2> USE DEF XInit
  <2>1. Waiting = {} /\ Answers = {}
    BY XAssumption DEF Waiting, Answers
  <2>2. IsFiniteSet(Waiting) /\ Cardinality(Waiting) = 0
    BY <2>1, FS_EmptySet
  <2>3. DOMAIN stage = {} /\ Range(stage) = {}
    BY RangeEmpty
  <2>4. XTypeOK
    <3>1. left \in 0 .. Cardinality(Waiting) /\ faults \in 0 .. MaxFaults
      BY <2>2, XAssumption
    <3>2. /\ answers \in [Submissions -> Seq(Yamls)]
          /\ published \in [Submissions -> Nat]
          /\ edx \in [Submissions ->
                        {"unsent", "waiting", "pulled", "graded", "expired"}]
      OBVIOUS
    <3>3. QED
      BY <2>3, <3>1, <3>2 DEF XTypeOK
  <2>5. SubmissionsAccounted
    BY DEF SubmissionsAccounted, InHand, Lost, Taken
  <2>6. CutByFault /\ AckingIsDealt /\ AckedIsDealt
    BY <2>3 DEF CutByFault, AckingIsDealt, AckedIsDealt
  <2>7. QED
    BY <2>2, <2>4, <2>5, <2>6 DEF XInv
<1>2. XInv /\ [XNext]_xVars => XInv'
  <2> SUFFICES ASSUME XInv, [XNext]_xVars
               PROVE  XInv'
    OBVIOUS
  <2>1. /\ XTypeOK /\ IsFiniteSet(Waiting) /\ SubmissionsAccounted /\ CutByFault
        /\ AckingIsDealt /\ AckedIsDealt
    BY DEF XInv
  <2>2. SubmissionsAccounted' /\ CutByFault' /\ IsFiniteSet(Waiting)'
    BY <2>1, AccountedStep, CutStep, WaitingStep
  <2>3. AckingIsDealt' /\ AckedIsDealt'
    BY <2>1, DealtStep
  <2>4. XTypeOK'
    BY <2>1, <2>2, XTypeStep
  <2>5. QED
    BY <2>2, <2>3, <2>4 DEF XInv
<1>3. QED
  BY <1>1, <1>2, PTL DEF XSpec

\* A submission is published once at most, and is only lost with a fault or in
\* the company of one that is not well-formed (gather ends at the first
\* exception, and the submissions taken with it are gone).
THEOREM SubmissionsAreAccounted == XSpec => []SubmissionsAccounted
<1>1. XInv => SubmissionsAccounted
  BY DEF XInv
<1>2. QED
  BY <1>1, XInvariant, PTL

\* on_grader_message only acknowledges an answer when its submission has its
\* grade or has expired, but for the errors of EDX that it takes for refusals.
THEOREM AcknowledgedIsDealt == XSpec => []AckedIsDealt
<1>1. XInv => AckedIsDealt
  BY DEF XInv
<1>2. QED
  BY <1>1, XInvariant, PTL
=============================================================================
