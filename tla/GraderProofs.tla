---------------------------- MODULE GraderProofs ----------------------------
(***************************************************************************)
(* Proofs about the whole of the Gitlab side: what is proved of the testers *)
(* alone and of the hub alone holds when they run together, for any number *)
(* of hooks, labs and testers.                                             *)
(***************************************************************************)
EXTENDS Grader, AmqpToTestProofs, GitlabToAmqpProofs

\* The two inductive invariants together: the hub makes each job once, which
\* the testers rely on, and the testers bound the answers to it.
GraderInv == TesterInv /\ HubInv

-----------------------------------------------------------------------------
(* Each step of the whole is a step of the testers.                        *)

\* The hub only publishes jobs that it never published.
LEMMA HubIsPublisher ==
  ASSUME HubInv, (HubStep \/ HubFault) /\ UNCHANGED testerOwn
  PROVE  (\E j \in Jobs : Submit(j)) \/ UNCHANGED testerVars
<1>1. CASE PublishRequest
  <2> DEFINE j == Head(requests)
  <2>1. /\ requests \in Seq(Jobs) /\ requests # << >>
        /\ Range(requests) \cap submitted = {}
    BY <1>1 DEF PublishRequest, HubInv, HubTypeOK, SentInOrder
  <2>2. j \in Jobs /\ j \notin submitted
    BY <2>1, RangeTail
  <2>3. CASE hub = "open"
    <3>1. Submit(j)
      BY <1>1, <2>2, <2>3 DEF PublishRequest, Submit, testerOwn, processVars
    <3>2. QED
      BY <2>2, <3>1
  <2>4. CASE hub # "open"
    BY <1>1, <2>4 DEF PublishRequest, testerOwn, testerVars, processVars, brokerVars
  <2>5. QED
    BY <2>3, <2>4
<1>2. CASE \/ \E h \in Hooks : TakeHook(h)
           \/ CloneDone \/ CloneFails \/ RunningPosted \/ ZipDone \/ ZipFails
           \/ FailedPosted \/ SendRequest
  <2>1. UNCHANGED brokerVars
    BY <1>2 DEF TakeHook, CloneDone, CloneFails, RunningPosted, ZipDone,
                ZipFails, FailedPosted, SendRequest, packRest
  <2>2. QED
    BY <2>1 DEF testerOwn, testerVars, processVars
<1>3. CASE \/ HubStart \/ TakeResult \/ HubNotices \/ HandleResponse
           \/ \E p \in posting : PostAccepted(p) \/ PostLost(p)
           \/ HubDisconnect \/ Ends
  <2>1. UNCHANGED brokerVars
    BY <1>3 DEF HubStart, TakeResult, HubNotices, ReceiveNext, HandleResponse,
                PostAccepted, PostLost, HubDisconnect, Ends, HubExit
  <2>2. QED
    BY <2>1 DEF testerOwn, testerVars, processVars
<1>4. QED
  BY <1>1, <1>2, <1>3, EndsIs DEF HubStep, HubFault, Packager

\* The docker run of a job ends in one of the ways a tester knows.
LEMMA StepOfTesters ==
  ASSUME HubInv, [GraderNext]_graderVars
  PROVE  [TesterNext]_testerVars
<1>1. ASSUME NEW h \in Hooks, Push(h) /\ UNCHANGED testerOwn
      PROVE  UNCHANGED testerVars
  BY <1>1 DEF Push, testerOwn, testerVars, processVars
<1>2. CASE (HubStep \/ HubFault) /\ UNCHANGED testerOwn
  BY <1>2, HubIsPublisher DEF TesterNext
<1>3. ASSUME NEW t \in Testers, TesterStep(t) \/ TesterFailure(t)
      PROVE  Process(t) \/ Failure(t)
  BY <1>3 DEF TesterStep, TesterFailure, Process, Task
<1>4. ASSUME NEW t \in Testers, NEW d \in running[t],
             Download(t, d) \/ BuilderEnds(t, d)
      PROVE  Process(t) \/ UNCHANGED testerVars
  BY <1>4 DEF Download, BuilderEnds, Process, Task
<1>5. QED
  BY <1>1, <1>2, <1>3, <1>4 DEF GraderNext, TesterNext, graderVars, testerVars

-----------------------------------------------------------------------------
(* Each step of the whole, seen from the hub.                              *)

\* What amqp_sender publishes is an answer to a job that was submitted, and
\* one of those that MaxAnswers allows, unless the connection is lost.
LEMMA ResponseIsAnswer ==
  ASSUME TesterInv, NEW t \in Testers, PublishResponse(t), Arrives(t)
  PROVE  \E j \in Jobs, yaml \in Yamls :
           /\ j \in submitted
           /\ Cardinality(AnswersOf(j)) < MaxAnswers
           /\ PublishResult([job |-> j, yaml |-> yaml])
           /\ UNCHANGED <<submitted, queued, unacked, nextTag, reports>>
<1> DEFINE r == Head(respChan[t])
<1> DEFINE j == r.d.job
<1> USE DEF TesterInv, DeliveryInv
<1>1. r \in Reply /\ r.d \in Unanswered(t)
  BY PublishMoves, MovedWork DEF OnePlace, PartNames, Process
<1>2. j \in Jobs /\ r.yaml \in Yamls
  BY <1>1 DEF Reply, Delivery
<1>3. j \in submitted
  BY <1>1 DEF JobsOnce, InProcess
<1>4. <<t, r.d>> \in ToAnswer(j)
  BY <1>1, ToAnswerIs
<1> HIDE DEF r
<1>5. Cardinality(AnswersTo(j)) < MaxAnswers
  <2>1. /\ IsFiniteSet(ToAnswer(j))
        /\ Cardinality(AnswersTo(j)) + Cardinality(ToAnswer(j)) + Pending(j)
             <= 1 + failures
    BY <1>2, CountIs
  <2>2. Cardinality(ToAnswer(j)) \in Nat /\ Cardinality(ToAnswer(j)) # 0
    BY <1>4, <2>1, FS_CardinalityType, FS_EmptySet
  <2>3. /\ failures \in Nat /\ failures <= MaxFailures /\ Pending(j) \in 0 .. 1
        /\ MaxFailures \in Nat
    BY TesterAssumption DEF TesterTypeOK, Pending
  <2>4. Cardinality(AnswersTo(j)) \in Nat
    BY AnswersFinite
  <2>5. MaxAnswers = 1 + MaxFailures
    BY GraderAssumption
  <2>6. QED
    BY <2>1, <2>2, <2>3, <2>4, <2>5
<1>6. AnswersOf(j) = AnswersTo(j)
  BY DEF AnswersOf, AnswersTo
<1>7. /\ PublishResult([job |-> j, yaml |-> r.yaml])
      /\ UNCHANGED <<submitted, queued, unacked, nextTag, reports>>
  BY DEF PublishResponse, Emitted, jobQueue, r
<1>8. QED
  BY <1>2, <1>3, <1>5, <1>6, <1>7

\* No other step of a tester shows.
LEMMA NoResponse ==
  ASSUME NEW t \in Testers, Process(t) \/ Failure(t),
         ~(PublishResponse(t) /\ Arrives(t))
  PROVE  UNCHANGED <<submitted, results>>
BY DEF Process, PublishResponse, Failure, Start, Deliver, BasicDeliver, Receive,
       Spawn, Task, RejectLab, StartDocker, DockerDone, AckJob, SendReport,
       Notice, SenderFails, Finish, Crash, Disconnect, CloseConsumer, Exit,
       Requeue, brokerVars, jobQueue

\* Each step of the whole is one of the hub, an answer, or nothing to the hub.
LEMMA StepOfHub ==
  ASSUME TesterInv, [GraderNext]_graderVars
  PROVE  \/ \E h \in Hooks : Push(h)
         \/ HubStep \/ HubFault
         \/ \E j \in Jobs, yaml \in Yamls : GradersAnswer(j, yaml)
         \/ UNCHANGED <<submitted, results, hubVars>>
<1>1. ASSUME NEW t \in Testers, Process(t) \/ Failure(t), UNCHANGED hubVars
      PROVE  \/ \E j \in Jobs, yaml \in Yamls : GradersAnswer(j, yaml)
             \/ UNCHANGED <<submitted, results, hubVars>>
  <2>1. CASE PublishResponse(t) /\ Arrives(t)
    BY <1>1, <2>1, ResponseIsAnswer DEF GradersAnswer, jobQueue
  <2>2. CASE ~(PublishResponse(t) /\ Arrives(t))
    BY <1>1, <2>2, NoResponse
  <2>3. QED
    BY <2>1, <2>2
<1>2. ASSUME NEW t \in Testers, TesterStep(t) \/ TesterFailure(t)
      PROVE  (Process(t) \/ Failure(t)) /\ UNCHANGED hubVars
  BY <1>2 DEF TesterStep, TesterFailure, Process, Task
<1>3. ASSUME NEW t \in Testers, NEW d \in running[t], BuilderEnds(t, d)
      PROVE  Process(t) /\ UNCHANGED hubVars
  BY <1>3 DEF BuilderEnds, Process, Task
<1>4. ASSUME NEW t \in Testers, NEW d \in running[t], Download(t, d)
      PROVE  UNCHANGED <<submitted, results, hubVars>>
  BY <1>4 DEF Download, testerVars, brokerVars
<1>5. CASE UNCHANGED graderVars
  BY <1>5 DEF graderVars, testerVars, brokerVars
<1>6. QED
  BY <1>1, <1>2, <1>3, <1>4, <1>5 DEF GraderNext

\* The invariant of the hub says nothing of who holds a job, nor of reports.
LEMMA HubSees ==
  ASSUME HubInv, BrokerTypeOK', UNCHANGED <<submitted, results, hubVars>>
  PROVE  HubInv'
<1>1. UNCHANGED <<submitted, results, hub, pushes, hooks, pack, requests, zips,
                  acked, taken, prefetched, responses, posting, status, comments,
                  faults>>
  BY DEF hubVars, hubProcess, received, gitlabVars
<1>2. HubTypeOK' /\ DownIsIdle' /\ PackInOrder' /\ SentInOrder'
  BY <1>1 DEF HubInv, HubTypeOK, DownIsIdle, PackInOrder, SentInOrder
<1>3. \A j : AnswersOf(j)' = AnswersOf(j)
  BY <1>1 DEF AnswersOf
<1>4. \A j : FailingAnswers(j)' = FailingAnswers(j)
  BY <1>1, <1>3 DEF FailingAnswers
<1>5. \A j : /\ Telling(j)' = Telling(j) /\ Untold(j)' = Untold(j)
            /\ Again(j)' = Again(j)
  BY <1>1, <1>4 DEF Telling, Untold, Again
<1>6. NothingFailed' = NothingFailed /\ Handled' = Handled /\ Outgoing' = Outgoing
  BY <1>1 DEF NothingFailed, Handled, Outgoing
<1>7. NotGradedYet'
  BY <1>1 DEF HubInv, NotGradedYet, ToPackage
<1>8. AnswersInOrder'
  BY <1>1 DEF HubInv, AnswersInOrder, PostsFor
<1>9. ZipKept' /\ VerdictIsFounded'
  BY <1>1, <1>3, <1>6 DEF HubInv, ZipKept, VerdictIsFounded, Answered
<1>10. CommentsCounted'
  BY <1>1, <1>4, <1>5, <1>6 DEF HubInv, CommentsCounted
<1>11. ZipsInUse'
  BY <1>1, <1>6 DEF HubInv, ZipsInUse, AnsweredJob, CurrentJob
<1>12. StatusFollows'
  BY <1>1, <1>3, <1>6 DEF HubInv, StatusFollows, AnsweredJob
<1>13. QED
  BY <1>2, <1>7, <1>8, <1>9, <1>10, <1>11, <1>12 DEF HubInv

-----------------------------------------------------------------------------
(* The invariant of the whole.                                             *)

\* GraderInv holds initially.
LEMMA GraderInvInit == GraderInit => GraderInv
<1> SUFFICES ASSUME GraderInit
             PROVE  GraderInv
  OBVIOUS
<1>1. TesterInit /\ HubInit
  BY DEF GraderInit, TesterInit, HubInit
<1>2. TesterInv
  BY <1>1, DeliveryInvInit, TesterInvInit
<1>3. HubInv
  BY <1>1, HubInvInit
<1>4. QED
  BY <1>2, <1>3 DEF GraderInv

\* Every step of the composition keeps the invariants of both sides.
LEMMA GraderInvStep ==
  ASSUME GraderInv, [GraderNext]_graderVars
  PROVE  GraderInv'
<1>1. TesterInv /\ HubInv
  BY DEF GraderInv
<1>2. [TesterNext]_testerVars
  BY <1>1, StepOfTesters
<1>3. DeliveryInv'
  BY <1>1, <1>2, DeliveryInvStep DEF TesterInv
<1>4. TesterInv'
  BY <1>1, <1>2, <1>3, TesterInvStep
<1>5. CASE UNCHANGED <<submitted, results, hubVars>>
  <2>1. BrokerTypeOK'
    BY <1>3 DEF DeliveryInv, TesterTypeOK
  <2>2. HubInv'
    BY <1>1, <1>5, <2>1, HubSees
  <2>3. QED
    BY <1>4, <2>2 DEF GraderInv
<1>6. CASE [HubNext]_hubSystemVars
  BY <1>1, <1>4, <1>6, HubInvStep DEF GraderInv
<1>7. QED
  BY <1>1, <1>5, <1>6, StepOfHub DEF HubNext

\* Run together, the hub and the testers keep what each of them keeps on its
\* own: every job is made once, and answered no more often than they rely on.
THEOREM GraderInvariant == GraderSpec => []GraderInv
<1>1. GraderInv /\ [GraderNext]_graderVars => GraderInv'
  BY GraderInvStep
<1>2. QED
  BY <1>1, GraderInvInit, PTL DEF GraderSpec

\* The testers are run by the whole as they are by anyone who submits jobs.
THEOREM TestersRun == GraderSpec => RunsTesters
<1>1. GraderInit => TesterInit
  BY DEF GraderInit
<1>2. GraderInv /\ [GraderNext]_graderVars => [TesterNext]_testerVars
  BY StepOfTesters DEF GraderInv
<1>3. QED
  BY <1>1, <1>2, GraderInvariant, PTL DEF GraderSpec, RunsTesters, TesterSpec

-----------------------------------------------------------------------------
(* The whole is a run of the hub.  HubView is the hub with a queue that keeps *)
(* what is published: what the hub does there is what it does here.        *)

\* The operators of the hub, seen through its instance, are its own.
LEMMA HubViewTerms ==
  /\ HubView!NoPack = NoPack /\ HubView!CurrentJob = CurrentJob
  /\ HubView!SomeLabs = SomeLabs
  /\ HubView!Cloning = Cloning
  /\ \A labs, zipped : HubView!Continue(labs, zipped) = Continue(labs, zipped)
  /\ \A i : HubView!PostsFor(i) = PostsFor(i) /\ HubView!AnsweredJob(i) = AnsweredJob(i)
  /\ \A yaml : HubView!StateOf(yaml) = StateOf(yaml)
  /\ \A chan : HubView!HasRoom(chan) = HasRoom(chan)
  /\ \A j : HubView!AnswersOf(j) = AnswersOf(j)
<1>1. HubView!NoPack = NoPack /\ HubView!CurrentJob = CurrentJob
  BY DEF HubView!NoPack, NoPack, HubView!CurrentJob, CurrentJob
<1>2. HubView!SomeLabs = SomeLabs
  <2>1. HubView!LabNames = LabNames
    BY DEF HubView!LabNames, LabNames, HubView!Range, Range
  <2>2. \A labs : labs \in HubView!SomeLabs <=> labs \in SomeLabs
    BY <2>1, Zenon DEF HubView!SomeLabs, SomeLabs
  <2>3. QED
    <3>1. HubView!SomeLabs \subseteq SomeLabs /\ SomeLabs \subseteq HubView!SomeLabs
      BY <2>2
    <3>2. QED
      BY <3>1, Zenon
<1>3. HubView!Cloning = Cloning
  BY DEF HubView!Cloning, Cloning
<1>4. \A labs, zipped : HubView!Continue(labs, zipped) = Continue(labs, zipped)
  BY <1>1 DEF HubView!Continue, Continue
<1>5. \A i : HubView!PostsFor(i) = PostsFor(i) /\ HubView!AnsweredJob(i) = AnsweredJob(i)
  BY DEF HubView!PostsFor, PostsFor, HubView!AnsweredJob, AnsweredJob
<1>6. \A yaml : HubView!StateOf(yaml) = StateOf(yaml)
  BY DEF HubView!StateOf, StateOf
<1>7. \A chan : HubView!HasRoom(chan) = HasRoom(chan)
  BY DEF HubView!HasRoom, HasRoom
<1>8. \A j : HubView!AnswersOf(j) = AnswersOf(j)
  BY DEF HubView!AnswersOf, AnswersOf
<1>9. QED
  BY <1>1, <1>2, <1>3, <1>4, <1>5, <1>6, <1>7, <1>8

\* The steps of the packager are those of the instance.
LEMMA HubViewPacks ==
  ASSUME Packager
  PROVE  HubView!Packager
<1> USE HubViewTerms DEF packRest, brokerVars, received, gitlabVars,
        HubView!packRest, HubView!brokerVars, HubView!received, HubView!gitlabVars
<1>1. ASSUME NEW h \in Hooks, TakeHook(h)
      PROVE  HubView!TakeHook(h)
  BY <1>1 DEF TakeHook, HubView!TakeHook
<1>2. CloneDone => HubView!CloneDone
  BY DEF CloneDone, HubView!CloneDone
<1>3. CloneFails => HubView!CloneFails
  BY DEF CloneFails, HubView!CloneFails
<1>4. RunningPosted => HubView!RunningPosted
  BY DEF RunningPosted, HubView!RunningPosted, PostStatus, HubView!PostStatus,
         Fault, HubView!Fault
<1>5. ZipDone => HubView!ZipDone
  BY DEF ZipDone, HubView!ZipDone
<1>6. ZipFails => HubView!ZipFails
  BY DEF ZipFails, HubView!ZipFails, PartOfZip, HubView!PartOfZip
<1>7. FailedPosted => HubView!FailedPosted
  BY DEF FailedPosted, HubView!FailedPosted, PostStatus, HubView!PostStatus,
         Fault, HubView!Fault
<1>8. SendRequest => HubView!SendRequest
  BY DEF SendRequest, HubView!SendRequest
<1>9. QED
  BY <1>1, <1>2, <1>3, <1>4, <1>5, <1>6, <1>7, <1>8
  DEF Packager, HubView!Packager

\* A step of the hub, or one that it does not see, is one of the instance.
LEMMA HubViewStep ==
  ASSUME [HubNext]_hubSystemVars \/ UNCHANGED <<submitted, results, hubVars>>
  PROVE  [HubView!HubNext]_(HubView!hubSystemVars)
<1> USE HubViewTerms DEF brokerVars, received, gitlabVars, HubView!brokerVars,
        HubView!received, HubView!gitlabVars, Fault, HubView!Fault
<1>1. ASSUME NEW h \in Hooks, Push(h)
      PROVE  HubView!Push(h)
  BY <1>1 DEF Push, HubView!Push
<1>2. HubStart => HubView!HubStart
  BY DEF HubStart, HubView!HubStart
<1>3. PublishRequest => HubView!PublishRequest
  BY DEF PublishRequest, HubView!PublishRequest, PublishJob, HubView!PublishJob
<1>4. ReceiveNext => HubView!ReceiveNext
  BY DEF ReceiveNext, HubView!ReceiveNext
<1>5. (TakeResult => HubView!TakeResult) /\ (HubNotices => HubView!HubNotices)
  BY <1>4 DEF TakeResult, HubView!TakeResult, HubNotices, HubView!HubNotices
<1>6. HandleResponse => HubView!HandleResponse
  BY DEF HandleResponse, HubView!HandleResponse
<1>7. ASSUME NEW p \in posting
      PROVE  /\ PostAccepted(p) => HubView!PostAccepted(p)
             /\ PostLost(p) => HubView!PostLost(p)
  BY DEF PostAccepted, HubView!PostAccepted, PostLost, HubView!PostLost
<1>8. HubDisconnect => HubView!HubDisconnect
  BY DEF HubDisconnect, HubView!HubDisconnect
<1>9. /\ HubExit => HubView!HubExit
      /\ PartOfZip => HubView!PartOfZip
  BY DEF HubExit, HubView!HubExit, PartOfZip, HubView!PartOfZip
<1>10. /\ HubCrash => HubView!HubCrash
       /\ PublishFails => HubView!PublishFails
       /\ MalformedResponse => HubView!MalformedResponse
  BY <1>9 DEF HubCrash, HubView!HubCrash, PublishFails, HubView!PublishFails,
              MalformedResponse, HubView!MalformedResponse
<1>11. ASSUME NEW j \in Jobs, NEW yaml \in Yamls, GradersAnswer(j, yaml)
       PROVE  HubView!GradersAnswer(j, yaml)
  <2>1. j \in submitted /\ HubView!Cardinality(HubView!AnswersOf(j)) < MaxAnswers
    <3>1. HubView!AnswersOf(j) = AnswersOf(j)
      OBVIOUS
    <3>2. \A S : HubView!Cardinality(S) = Cardinality(S)
      BY Zenon DEF HubView!Cardinality, Cardinality
    <3>3. QED
      BY <1>11, <3>1, <3>2 DEF GradersAnswer
  <2>2. HubView!PublishResult([job |-> j, yaml |-> yaml])
    BY <1>11 DEF GradersAnswer, PublishResult, HubView!PublishResult
  <2>3. UNCHANGED <<HubView!jobQueue, << >>, HubView!hubVars>>
    BY <1>11 DEF GradersAnswer, jobQueue, HubView!jobQueue, hubVars,
                 HubView!hubVars, hubProcess, HubView!hubProcess
  <2>4. QED
    BY <2>1, <2>2, <2>3 DEF HubView!GradersAnswer
<1>12. UNCHANGED <<submitted, results, hubVars>> => UNCHANGED HubView!hubSystemVars
  BY DEF hubVars, hubProcess, HubView!hubSystemVars, HubView!hubVars,
         HubView!hubProcess
<1>13. UNCHANGED hubSystemVars => UNCHANGED <<submitted, results, hubVars>>
  BY DEF hubSystemVars
<1>14. QED
  BY <1>1, <1>2, <1>3, <1>5, <1>6, <1>7, <1>8, <1>10, <1>11, <1>12, <1>13,
     HubViewPacks
  DEF HubNext, HubStep, HubFault, HubView!HubNext, HubView!HubStep,
      HubView!HubFault

\* And the hub is run by the whole as by any graders: with no more answers to a
\* job than one, and one per failure of a tester.
THEOREM HubRuns == GraderSpec => RunsHub
<1>1. GraderInit => HubView!HubInit
  BY DEF GraderInit, TesterInit, BrokerInit, HubInitOwn, HubView!HubInit,
         HubView!BrokerInit, HubView!HubInitOwn, NoPack, HubView!NoPack
<1>2. GraderInv /\ [GraderNext]_graderVars
        => [HubView!HubNext]_(HubView!hubSystemVars)
  <2> SUFFICES ASSUME GraderInv, [GraderNext]_graderVars
               PROVE  [HubView!HubNext]_(HubView!hubSystemVars)
    OBVIOUS
  <2>1. [HubNext]_hubSystemVars \/ UNCHANGED <<submitted, results, hubVars>>
    BY StepOfHub DEF GraderInv, HubNext
  <2>2. QED
    BY <2>1, HubViewStep
<1>3. QED
  BY <1>1, <1>2, GraderInvariant, PTL DEF GraderSpec, RunsHub, HubView!HubSpec

-----------------------------------------------------------------------------
(* The zip file of a builder.                                              *)

\* A process that never failed does not go down once it accepted a hook.
DownHasCause == NothingFailed /\ hub = "down" => pushes = {}

\* The builders in the place of the docker runs, and what they miss.
BuildsInv ==
  /\ GraderInv
  /\ \A b \in builds : b.tester \in Testers /\ b.d \in running[b.tester]
  /\ DownHasCause
  /\ MissHasCause

\* Nothing that happened is forgotten.
LEMMA PastStays ==
  ASSUME GraderInv, [GraderNext]_graderVars
  PROVE  /\ \A i \in DOMAIN results : i \in DOMAIN results' /\ results'[i] = results[i]
         /\ faults' >= faults
         /\ faults \in Nat /\ faults' \in Nat
         /\ NothingFailed' => NothingFailed
<1>1. TesterInv /\ HubInv /\ GraderInv'
  BY GraderInvStep DEF GraderInv
<1>2. faults \in Nat /\ faults' \in Nat
  BY <1>1 DEF GraderInv, HubInv, HubTypeOK
<1>3. CASE [HubNext]_hubSystemVars
  <2>1. \A i \in DOMAIN results : i \in DOMAIN results' /\ results'[i] = results[i]
    BY <1>1, <1>3, LogStays DEF HubInv
  <2>2. faults' >= faults
    BY <1>2, <1>3, FaultsStep DEF Fault
  <2>3. QED
    BY <1>2, <2>1, <2>2 DEF NothingFailed
<1>4. CASE UNCHANGED <<submitted, results, hubVars>>
  BY <1>2, <1>4 DEF hubVars, NothingFailed
<1>5. QED
  BY <1>1, <1>3, <1>4, StepOfHub DEF HubNext

\* Every step keeps a hub that is down down for a cause.
LEMMA DownHasCauseStep ==
  ASSUME GraderInv, DownHasCause, [GraderNext]_graderVars
  PROVE  DownHasCause'
<1> SUFFICES ASSUME NothingFailed', hub' = "down"
             PROVE  pushes' = {}
  BY DEF DownHasCause
<1>1. TesterInv /\ HubTypeOK /\ ZipsInUse /\ NothingFailed
  BY PastStays DEF GraderInv, HubInv
<1>2. CASE UNCHANGED <<submitted, results, hubVars>>
  BY <1>1, <1>2 DEF hubVars, hubProcess, DownHasCause
<1>3. CASE [HubNext]_hubSystemVars
  <2>1. ~(\E h \in Hooks : Push(h)) /\ ~HubStart
    BY DEF Push, HubStart
  <2>2. UNCHANGED <<hub, pushes>>
    <3>1. CASE \/ \E h \in Hooks : TakeHook(h)
               \/ CloneDone \/ CloneFails \/ RunningPosted \/ ZipDone
               \/ ZipFails \/ FailedPosted \/ SendRequest
      BY <3>1 DEF TakeHook, CloneDone, CloneFails, RunningPosted, ZipDone,
                  ZipFails, FailedPosted, SendRequest, packRest
    <3>2. CASE \/ PublishRequest \/ TakeResult \/ HandleResponse
               \/ \E p \in posting : PostAccepted(p)
               \/ \E j \in Jobs, yaml \in Yamls : GradersAnswer(j, yaml)
               \/ UNCHANGED hubSystemVars
      BY <3>2 DEF PublishRequest, TakeResult, ReceiveNext, HandleResponse,
                  PostAccepted, GradersAnswer, hubSystemVars, hubVars, hubProcess
    <3>3. QED
      BY <1>1, <1>3, <2>1, <3>1, <3>2, NothingFails
  <2>3. QED
    BY <1>1, <2>2 DEF DownHasCause
<1>4. QED
  BY <1>1, <1>2, <1>3, StepOfHub DEF HubNext

\* A zip file is only refused to a builder whose job was answered, or after a
\* failure of the hub.
LEMMA RefusedHasCause ==
  ASSUME GraderInv, DownHasCause, NEW t \in Testers, NEW d \in running[t],
         ZipRefused(d.job)
  PROVE  \/ Answered(d.job)
         \/ faults > 0
         \/ \E i \in DOMAIN results : results[i].yaml \in Malformed
<1>1. d.job \in submitted
  <2>1. d \in InProcess(t)
    BY DEF InProcess, Unanswered, Place
  <2>2. QED
    BY <2>1 DEF GraderInv, TesterInv, JobsOnce
<1>2. CASE d.job \notin zips
  BY <1>1, <1>2 DEF GraderInv, HubInv, ZipKept
<1>3. CASE hub = "down"
  <2>1. pushes # {}
    BY <1>1 DEF GraderInv, HubInv, SentInOrder
  <2>2. ~NothingFailed
    BY <1>3, <2>1 DEF DownHasCause
  <2>3. faults \in Nat
    BY DEF GraderInv, HubInv, HubTypeOK
  <2>4. QED
    BY <2>2, <2>3 DEF NothingFailed
<1>4. QED
  BY <1>2, <1>3 DEF ZipRefused

\* Every step keeps BuildsInv.
LEMMA BuildsInvStep ==
  ASSUME BuildsInv, [GraderNext]_graderVars
  PROVE  BuildsInv'
<1> DEFINE Cause(j) ==
      \/ Answered(j)
      \/ faults > 0
      \/ \E i \in DOMAIN results : results[i].yaml \in Malformed
<1> DEFINE InPlace(b) ==
      /\ b.tester \in Testers /\ b.d \in running[b.tester]
      /\ ~b.zip => Cause(b.d.job)
<1>1. GraderInv /\ DownHasCause /\ \A b \in builds : InPlace(b)
  BY DEF BuildsInv, MissHasCause
<1>2. GraderInv' /\ DownHasCause'
  BY <1>1, GraderInvStep, DownHasCauseStep
<1>3. ASSUME NEW j, Cause(j)
      PROVE  Cause(j)'
  BY <1>1, <1>3, PastStays DEF Answered
<1>4. ASSUME builds' \subseteq builds,
             \A b \in builds' : b.d \in running'[b.tester]
      PROVE  \A b \in builds' : InPlace(b)'
  BY <1>1, <1>3, <1>4
<1>5. SUFFICES \A b \in builds' : InPlace(b)'
  BY <1>2 DEF BuildsInv, MissHasCause
<1>6. CASE \/ \E t \in Testers : TesterStep(t) \/ TesterFailure(t)
           \/ \E t \in Testers : \E d \in running[t] : BuilderEnds(t, d)
  <2>1. KeepBuilds
    BY <1>6 DEF TesterStep, TesterFailure, BuilderEnds
  <2>2. builds' \subseteq builds /\ \A b \in builds' : b.d \in running'[b.tester]
    BY <2>1 DEF KeepBuilds
  <2> HIDE DEF InPlace
  <2>3. QED
    BY <1>4, <2>2
<1>7. CASE \/ \E h \in Hooks : Push(h) /\ UNCHANGED testerOwn
           \/ (HubStep \/ HubFault) /\ UNCHANGED testerOwn
           \/ UNCHANGED graderVars
  <2>1. UNCHANGED <<builds, running>>
    BY <1>7 DEF testerOwn, graderVars, testerVars, processVars
  <2>2. builds' \subseteq builds /\ \A b \in builds' : b.d \in running'[b.tester]
    BY <1>1, <2>1
  <2> HIDE DEF InPlace
  <2>3. QED
    BY <1>4, <2>2
<1>8. ASSUME NEW t \in Testers, NEW d \in running[t], Download(t, d)
      PROVE  \A b \in builds' : InPlace(b)'
  <2>1. UNCHANGED running
    BY <1>8 DEF Download, testerVars, processVars
  <2>2. PICK z \in BOOLEAN :
          /\ builds' = builds \cup {[tester |-> t, d |-> d, zip |-> z]}
          /\ z \/ ZipRefused(d.job)
    BY <1>8 DEF Download
  <2>3. \A b \in builds : InPlace(b)'
    BY <1>1, <1>3, <2>1
  <2>4. InPlace([tester |-> t, d |-> d, zip |-> z])'
    <3>1. ~z => Cause(d.job)
      BY <1>1, <1>8, <2>2, RefusedHasCause
    <3>2. ~z => Cause(d.job)'
      BY <1>3, <3>1
    <3>3. QED
      BY <1>8, <2>1, <3>2
  <2>5. QED
    BY <2>2, <2>3, <2>4
<1>9. QED
  <2> HIDE DEF InPlace
  <2>1. QED
    BY <1>6, <1>7, <1>8 DEF GraderNext

\* A builder that misses its zip file does not take away a grade that is due:
\* the job was answered before, or the hub itself failed.
THEOREM MissesHaveCauses == GraderSpec => []MissHasCause
<1>1. GraderInit => BuildsInv
  BY GraderInvInit
  DEF GraderInit, HubInitOwn, BuildsInv, DownHasCause, MissHasCause
<1>2. BuildsInv /\ [GraderNext]_graderVars => BuildsInv'
  BY BuildsInvStep
<1>3. BuildsInv => MissHasCause
  BY DEF BuildsInv
<1>4. QED
  BY <1>1, <1>2, <1>3, PTL DEF GraderSpec

-----------------------------------------------------------------------------
(* A success.                                                              *)

\* While no tester has failed, a job has one answer at most.
LEMMA OneAnswer ==
  ASSUME GraderInv, failures = 0, NEW j \in Jobs,
         NEW i \in AnswersOf(j), NEW k \in AnswersOf(j)
  PROVE  i = k
<1> SUFFICES ASSUME i # k PROVE FALSE
  OBVIOUS
<1>1. /\ IsFiniteSet(ToAnswer(j))
      /\ Cardinality(AnswersTo(j)) + Cardinality(ToAnswer(j)) + Pending(j) <= 1
  BY CountIs DEF GraderInv, TesterInv
<1>2. /\ IsFiniteSet(AnswersTo(j)) /\ Cardinality(AnswersTo(j)) \in Nat
      /\ Cardinality(ToAnswer(j)) \in Nat /\ Pending(j) \in Nat
  BY <1>1, AnswersFinite, FS_CardinalityType
  DEF GraderInv, TesterInv, DeliveryInv, Pending
<1>3. Cardinality({i, k}) = 2
  <2>1. IsFiniteSet({i}) /\ Cardinality({i}) = 1
    BY FS_Singleton
  <2>2. Cardinality({i} \cup {k}) = 2
    BY <2>1, OneMoreIs
  <2>3. {i} \cup {k} = {i, k}
    OBVIOUS
  <2>4. QED
    BY <2>2, <2>3
<1>4. {i, k} \in SUBSET AnswersTo(j)
  BY DEF AnswersOf, AnswersTo
<1>5. Cardinality({i, k}) <= Cardinality(AnswersTo(j))
  BY <1>2, <1>4, FS_Subset
<1>6. QED
  BY <1>1, <1>2, <1>3, <1>5

\* A success stays a success, unless a tester failed and ran the job again.
THEOREM SuccessesAreKept == GraderSpec => SuccessIsKept
<1>1. ASSUME GraderInv, [GraderNext]_graderVars,
             NEW j \in Jobs, status[j] = "success", ~(failures > 0)
      PROVE  status'[j] = "success"
  <2>1. TesterInv /\ HubInv /\ HubTypeOK /\ PackInOrder /\ NotGradedYet /\ failures = 0
    BY <1>1 DEF GraderInv, HubInv, TesterInv, DeliveryInv, TesterTypeOK
  <2>2. status \in [Jobs -> {"none", "running", "success", "failed"}]
    BY <2>1 DEF HubTypeOK
  <2>3. CASE UNCHANGED <<submitted, results, hubVars>>
    BY <1>1, <2>3 DEF hubVars, gitlabVars
  <2>4. CASE [HubNext]_hubSystemVars
    <3>1. CASE RunningPosted \/ FailedPosted
      <4>1. ~ToPackage(j)
        BY <1>1, <2>1 DEF NotGradedYet
      <4>2. j # CurrentJob
        BY <2>1, <3>1, <4>1, CurrentToPackage DEF RunningPosted, FailedPosted
      <4>3. QED
        BY <1>1, <2>2, <3>1, <4>2
        DEF RunningPosted, FailedPosted, PostStatus, gitlabVars
    <3>2. ASSUME NEW p \in posting, PostAccepted(p)
          PROVE  status'[j] = "success"
      <4>1. PICK i \in AnswersOf(j) : results[i].yaml \in Passing
        BY <1>1, <2>1 DEF HubInv, VerdictIsFounded
      <4>2. AnsweredJob(p.answer) = j => p.answer \in AnswersOf(j)
        BY <2>1, <3>2, ReceivedAre DEF AnsweredJob, AnswersOf
      <4>3. AnsweredJob(p.answer) = j => p.answer = i
        BY <1>1, <2>1, <4>1, <4>2, OneAnswer
      <4>4. AnsweredJob(p.answer) = j => StateOf(results[p.answer].yaml) = "success"
        BY <4>1, <4>3 DEF StateOf
      <4>5. QED
        BY <1>1, <2>2, <3>2, <4>4 DEF PostAccepted
    <3>3. QED
      BY <1>1, <2>4, <3>1, <3>2, GitlabSame
  <2>5. QED
    BY <1>1, <2>1, <2>3, <2>4, StepOfHub DEF HubNext
<1>2. GraderInv /\ [GraderNext]_graderVars =>
        \A j \in Jobs :
          status[j] = "success" => status'[j] = "success" \/ failures > 0
  BY <1>1
<1>3. QED
  BY <1>2, GraderInvariant, PTL DEF GraderSpec, SuccessIsKept
=============================================================================
