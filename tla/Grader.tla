------------------------------- MODULE Grader -------------------------------
(***************************************************************************)
(* The whole of the Gitlab side: the hub (GitlabToAmqp), the AMQP server   *)
(* (AmqpBroker), the testers (AmqpToTest) and the builders.  A builder is  *)
(* the docker container that a tester runs for a job; all it shares with   *)
(* the others is the zip file, which it downloads from the hub once, when  *)
(* it starts (graders-utils, download_url).  Jobs come from the hub alone, *)
(* and their answers from the testers.                                     *)
(***************************************************************************)
EXTENDS AmqpToTest, GitlabToAmqp

VARIABLE builds   \* the builders that have tried to download the zip file

graderVars == <<testerVars, hubVars, builds>>

ASSUME GraderAssumption ==
  /\ ErrorReport \notin Passing \cup Malformed
  /\ MaxAnswers = 1 + MaxFailures

Build == [tester : Testers, d : Delivery, zip : BOOLEAN]

GraderTypeOK ==
  /\ TesterTypeOK
  /\ HubTypeOK
  /\ builds \in SUBSET Build
  /\ \A b \in builds : b.d \in running[b.tester]

GraderInit == TesterInit /\ HubInitOwn /\ builds = {}

Tried(t, d) == \E b \in builds : b.tester = t /\ b.d = d

\* A new connection is only accepted between two steps of the common task of
\* the hub: a clone makes it wait.  A hub that is down refuses it.
ZipServed(j) == hub # "down" /\ ~Cloning /\ j \in zips
ZipRefused(j) == hub = "down" \/ (~Cloning /\ j \notin zips)

\* download_url: the file, or an error when the hub does not have it.
Download(t, d) ==
  /\ d \in running[t]
  /\ ~Tried(t, d)
  /\ \/ /\ ZipServed(d.job)
        /\ builds' = builds \cup {[tester |-> t, d |-> d, zip |-> TRUE]}
     \/ /\ ZipRefused(d.job)
        /\ builds' = builds \cup {[tester |-> t, d |-> d, zip |-> FALSE]}
  /\ UNCHANGED <<testerVars, hubVars>>

\* The builders of an instance that ends work for nobody.
KeepBuilds == builds' = {b \in builds : b.d \in running'[b.tester]}

\* What the docker run of an instance ends with: without the zip file, the
\* builder prints an error report, as does the tester if docker fails.
LastReply(t) == respChan'[t][Len(respChan'[t])]

BuilderEnds(t, d) ==
  /\ DockerDone(t, d)
  /\ \/ [tester |-> t, d |-> d, zip |-> TRUE] \in builds
     \/ LastReply(t).yaml = ErrorReport
  /\ KeepBuilds
  /\ UNCHANGED hubVars

TesterStep(t) ==
  /\ \/ Start(t) \/ Deliver(t) \/ Receive(t) \/ Spawn(t)
     \/ \E d \in waiting[t] : RejectLab(t, d) \/ StartDocker(t, d)
     \/ PublishResponse(t) \/ AckJob(t) \/ SendReport(t)
     \/ Notice(t) \/ SenderFails(t) \/ Finish(t)
  /\ KeepBuilds
  /\ UNCHANGED hubVars

TesterFailure(t) == Failure(t) /\ KeepBuilds /\ UNCHANGED hubVars

testerOwn == <<processVars, failures, closures, builds>>

GraderNext ==
  \/ \E h \in Hooks : Push(h) /\ UNCHANGED testerOwn
  \/ (HubStep \/ HubFault) /\ UNCHANGED testerOwn
  \/ \E t \in Testers : TesterStep(t) \/ TesterFailure(t)
  \/ \E t \in Testers : \E d \in running[t] : Download(t, d) \/ BuilderEnds(t, d)

GraderSpec == GraderInit /\ [][GraderNext]_graderVars

\* Every part of the testers, of the builders and of the hub goes on.
ByTester(A) == A /\ KeepBuilds /\ UNCHANGED hubVars
ByHub(A) == A /\ UNCHANGED testerOwn

GraderFairness ==
  /\ \A t \in Testers :
       /\ WF_graderVars(ByTester(Start(t)))
       /\ WF_graderVars(ByTester(Deliver(t)))
       /\ WF_graderVars(ByTester(Receive(t)))
       /\ WF_graderVars(ByTester(Spawn(t)))
       /\ WF_graderVars(ByTester(\E d \in waiting[t] :
                          RejectLab(t, d) \/ StartDocker(t, d)))
       /\ WF_graderVars(\E d \in running[t] : Download(t, d))
       /\ WF_graderVars(\E d \in running[t] : Tried(t, d) /\ BuilderEnds(t, d))
       /\ WF_graderVars(ByTester(PublishResponse(t) \/ AckJob(t) \/ SendReport(t)))
       /\ WF_graderVars(ByTester(Notice(t)))
       /\ WF_graderVars(ByTester(SenderFails(t)))
       /\ WF_graderVars(ByTester(Finish(t)))
  /\ WF_graderVars(ByHub(HubStart))
  /\ WF_graderVars(ByHub(Packager))
  /\ WF_graderVars(ByHub(PublishRequest \/ PublishFails))
  /\ WF_graderVars(ByHub(HubNotices))
  /\ WF_graderVars(ByHub(TakeResult))
  /\ WF_graderVars(ByHub(HandleResponse \/ MalformedResponse))
  /\ WF_graderVars(ByHub(\E p \in posting : PostAccepted(p)))

FairGraderSpec == GraderSpec /\ GraderFairness

-----------------------------------------------------------------------------
(* Properties.                                                             *)

\* The jobs that the hub publishes are all that the testers see of it: the
\* composition is an execution of the testers on their own ...
RunsTesters == TesterSpec

\* ... and answers are all that the hub sees of the testers: the composition
\* is an execution of the hub, with no more answers per job than one and one
\* per failure of a tester, and with a queue that nobody empties.
HubView == INSTANCE GitlabToAmqp WITH
  queued <- submitted,
  unacked <- [t \in Testers |-> {}],
  nextTag <- [t \in Testers |-> 1],
  reports <- << >>

RunsHub == HubView!HubSpec

\* A builder that does not get its zip file works on a job that was answered
\* before, or the hub went down since the job was sent.
MissHasCause ==
  \A b \in builds :
    ~b.zip =>
      \/ Answered(b.d.job)
      \/ faults > 0
      \/ \E i \in DOMAIN results : results[i].yaml \in Malformed

\* A success is not taken back, unless the failure of a tester had the job
\* run again: the zip file is then gone, and the job fails.
SuccessIsKept ==
  [][\A j \in Jobs :
       status[j] = "success" => status'[j] = "success" \/ failures > 0
    ]_graderVars
=============================================================================
