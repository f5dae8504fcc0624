----------------------------- MODULE AmqpToTest -----------------------------
(***************************************************************************)
(* amqp-to-test: the instances that take jobs from the queue, run each one *)
(* in a docker container, publish the diagnostic and acknowledge the job.  *)
(*                                                                         *)
(* One instance is a pipeline on one AMQP connection:                      *)
(*                                                                         *)
(*   deliveries -> amqp_receiver -> request channel -> start_executor      *)
(*     -> one task per request (permit, docker) -> response channel        *)
(*     -> amqp_sender: publish, acknowledge, report                        *)
(*                                                                         *)
(* with every await of the code between two actions.  An instance may be   *)
(* killed, or lose its connection or its consuming channel, at any point.  *)
(* It notices the loss later: publications and acknowledgements have no    *)
(* reply, so until then it goes on writing what the server will not read.  *)
(***************************************************************************)
EXTENDS AmqpBroker, MpscChannel, Functions

CONSTANTS
  Undecodable,   \* messages whose payload is not an AmqpRequest
  Unconfigured,  \* jobs whose lab has no entry in tester.test_files
  Outputs,       \* what a docker run that exits with 0 may print
  ErrorReport,   \* the diagnostic made by yaml_error
  Parallelism,   \* tester.parallelism
  ReportsKey,    \* whether amqp.reports_routing_key is configured
  MaxFailures    \* bound: crashes and connection losses in a behaviour

ASSUME TesterAssumption ==
  /\ Undecodable \subseteq Jobs
  /\ Unconfigured \subseteq Jobs
  /\ Yamls = Outputs \cup {ErrorReport}
  /\ Parallelism \in Nat
  /\ ReportsKey \in BOOLEAN
  /\ MaxFailures \in Nat

VARIABLES
  link,       \* the server's side: "down": no process; "open"; "ackless": it
              \* closed the consuming channel; "closed": the connection is lost
  view,       \* what the instance has noticed of that
  inbox,      \* deliveries the AMQP client has received, not yet decoded
  reqChan,    \* the mpsc channel from amqp_receiver to start_executor
  waiting,    \* spawned tasks that wait for a permit of cpu_access
  running,    \* tasks that hold a permit and run docker
  respChan,   \* the mpsc channel from the tasks to amqp_sender
  sender,     \* where amqp_sender is
  failures,   \* crashes, connection losses and closed channels so far
  closures    \* those among them where the server closed a consuming channel

taskVars == <<waiting, running>>
processVars == <<link, view, inbox, reqChan, waiting, running, respChan, sender>>
testerVars == <<brokerVars, processVars, failures, closures>>

\* A response inside the tester, with the delivery it will acknowledge.
Reply == [d : Delivery, yaml : Yamls]

Idle == [step |-> "idle"]
SenderState == {Idle} \cup [step : {"ack", "report"}, reply : Reply]

TesterTypeOK ==
  /\ BrokerTypeOK
  /\ link \in [Testers -> {"down", "open", "ackless", "closed"}]
  /\ view \in [Testers -> {"down", "open", "ackless", "closed"}]
  /\ inbox \in [Testers -> Seq(Delivery)]
  /\ reqChan \in [Testers -> Seq(Delivery)]
  /\ waiting \in [Testers -> SUBSET Delivery]
  /\ running \in [Testers -> SUBSET Delivery]
  /\ respChan \in [Testers -> Seq(Reply)]
  /\ sender \in [Testers -> SenderState]
  /\ failures \in 0 .. MaxFailures
  /\ closures \in 0 .. failures

TesterInit ==
  /\ BrokerInit
  /\ link = [t \in Testers |-> "down"]
  /\ view = [t \in Testers |-> "down"]
  /\ inbox = [t \in Testers |-> << >>]
  /\ reqChan = [t \in Testers |-> << >>]
  /\ waiting = [t \in Testers |-> {}]
  /\ running = [t \in Testers |-> {}]
  /\ respChan = [t \in Testers |-> << >>]
  /\ sender = [t \in Testers |-> Idle]
  /\ failures = 0
  /\ closures = 0

Up(t) == link[t] # "down"

-----------------------------------------------------------------------------
(* Starting and receiving.                                                 *)

\* The publisher's side: gitlab-to-amqp or xqueue-to-amqp sends a job.
Submit(j) ==
  /\ j \notin submitted
  /\ PublishJob(j)
  /\ UNCHANGED <<unacked, nextTag, results, reports, processVars, failures,
                 closures>>

\* main and amqp_process: connect, open the channels, declare the queue, set
\* the prefetch count, consume.  A failure on the way leaves the process down.
Start(t) ==
  /\ link[t] = "down"
  /\ link' = [link EXCEPT ![t] = "open"]
  /\ view' = [view EXCEPT ![t] = "open"]
  /\ nextTag' = [nextTag EXCEPT ![t] = 1]
  /\ UNCHANGED <<submitted, queued, unacked, results, reports, inbox, reqChan,
                 waiting, running, respChan, sender, failures, closures>>

U16Max == 65535

\* The conversion of the parallelism to u16 done with "as": it wraps.
PrefetchWrapped == Parallelism % (U16Max + 1)

PrefetchCount == IF Parallelism <= U16Max THEN Parallelism ELSE 1

\* The server pushes a message to the consumer, within the prefetch count.
Deliver(t) ==
  /\ link[t] = "open"
  /\ HasCredit(t, PrefetchCount)
  /\ \E j \in queued :
       /\ BasicDeliver(t, j)
       /\ inbox' = [inbox EXCEPT ![t] = Append(@, NewDelivery(t, j))]
  /\ UNCHANGED <<results, reports, link, view, reqChan, waiting, running,
                 respChan, sender, failures, closures>>

\* amqp_receiver takes one delivery.  What does not decode is filtered out,
\* and nobody acknowledges or rejects it; the rest goes to the executor.
Receive(t) ==
  /\ inbox[t] # << >>
  /\ inbox' = [inbox EXCEPT ![t] = Tail(@)]
  /\ \/ /\ Head(inbox[t]).job \in Undecodable
        /\ UNCHANGED reqChan
     \/ /\ Head(inbox[t]).job \notin Undecodable
        /\ HasRoom(reqChan[t])
        /\ reqChan' = [reqChan EXCEPT ![t] = Append(@, Head(inbox[t]))]
  /\ UNCHANGED <<brokerVars, link, view, waiting, running, respChan, sender,
                 failures, closures>>

-----------------------------------------------------------------------------
(* Executing.                                                              *)

\* start_executor spawns a task for the request and goes on at once.
Spawn(t) ==
  /\ reqChan[t] # << >>
  /\ reqChan' = [reqChan EXCEPT ![t] = Tail(@)]
  /\ waiting' = [waiting EXCEPT ![t] = @ \cup {Head(reqChan[t])}]
  /\ UNCHANGED <<brokerVars, link, view, inbox, running, respChan, sender,
                 failures, closures>>

\* The send of a task: it owns its clone of the sender, hence a slot of the
\* channel, and never waits to enqueue.
SendReply(t, d, yaml) ==
  respChan' = [respChan EXCEPT ![t] = Append(@, [d |-> d, yaml |-> yaml])]

\* A lab without configuration that is dropped instead of answered.
RejectLabSilently(t, d) ==
  /\ d \in waiting[t]
  /\ d.job \in Unconfigured
  /\ waiting' = [waiting EXCEPT ![t] = @ \ {d}]
  /\ UNCHANGED <<brokerVars, link, view, inbox, reqChan, running, respChan,
                 sender, failures, closures>>

\* execute finds no test file for the lab: an error report, and no permit.
RejectLab(t, d) ==
  /\ d \in waiting[t]
  /\ d.job \in Unconfigured
  /\ waiting' = [waiting EXCEPT ![t] = @ \ {d}]
  /\ SendReply(t, d, ErrorReport)
  /\ UNCHANGED <<brokerVars, link, view, inbox, reqChan, running, sender,
                 failures, closures>>

PermitFree(t) == Cardinality(running[t]) < Parallelism

\* execute gets a permit of cpu_access and starts docker.
StartDocker(t, d) ==
  /\ d \in waiting[t]
  /\ d.job \notin Unconfigured
  /\ PermitFree(t)
  /\ waiting' = [waiting EXCEPT ![t] = @ \ {d}]
  /\ running' = [running EXCEPT ![t] = @ \cup {d}]
  /\ UNCHANGED <<brokerVars, link, view, inbox, reqChan, respChan, sender,
                 failures, closures>>

\* docker ends: its standard output if it exits with 0, an error report if it
\* could not be run or failed.  The permit is dropped, the response is sent.
DockerDone(t, d) ==
  /\ d \in running[t]
  /\ running' = [running EXCEPT ![t] = @ \ {d}]
  /\ \E yaml \in Outputs \cup {ErrorReport} : SendReply(t, d, yaml)
  /\ UNCHANGED <<brokerVars, link, view, inbox, reqChan, waiting, sender,
                 failures, closures>>

-----------------------------------------------------------------------------
(* Answering.  amqp_sender handles one response at a time.                 *)

Emitted(reply) == [job |-> reply.d.job, yaml |-> reply.yaml]

\* The instance believes that what it writes for a queue gets there; it does
\* unless the connection is lost.
Writes(t) == view[t] \in {"open", "ackless"}
Arrives(t) == link[t] # "closed"

PublishResponse(t) ==
  /\ sender[t] = Idle
  /\ respChan[t] # << >>
  /\ Writes(t)
  /\ \/ Arrives(t) /\ PublishResult(Emitted(Head(respChan[t])))
     \/ ~Arrives(t) /\ UNCHANGED results
  /\ respChan' = [respChan EXCEPT ![t] = Tail(@)]
  /\ sender' = [sender EXCEPT ![t] =
                  [step |-> "ack", reply |-> Head(respChan[t])]]
  /\ UNCHANGED <<jobQueue, reports, link, view, inbox, reqChan, taskVars,
                 failures, closures>>

AfterAck(reply) ==
  IF ReportsKey THEN [step |-> "report", reply |-> reply] ELSE Idle

\* An acknowledgement whose future is dropped without an await: it is not sent.
AckJobNotAwaited(t) ==
  /\ sender[t].step = "ack"
  /\ view[t] = "open"
  /\ sender' = [sender EXCEPT ![t] = AfterAck(@.reply)]
  /\ UNCHANGED <<brokerVars, link, view, inbox, reqChan, taskVars, respChan,
                 failures, closures>>

\* The acknowledgement travels on the channel the delivery came from, and is
\* done when it is written.  If the server has closed that channel since, it
\* holds nothing for it any more and reads nothing from it.
AckJob(t) ==
  /\ sender[t].step = "ack"
  /\ view[t] = "open"
  /\ \/ link[t] = "open" /\ BasicAck(t, sender[t].reply.d.tag)
     \/ link[t] # "open" /\ UNCHANGED unacked
  /\ sender' = [sender EXCEPT ![t] = AfterAck(@.reply)]
  /\ UNCHANGED <<submitted, queued, nextTag, results, reports, link, view,
                 inbox, reqChan, taskVars, respChan, failures, closures>>

\* A report that is published to the result queue by mistake.
ReportToResults(t) ==
  /\ sender[t].step = "report"
  /\ Writes(t)
  /\ \/ Arrives(t) /\ PublishResult(Emitted(sender[t].reply))
     \/ ~Arrives(t) /\ UNCHANGED results
  /\ sender' = [sender EXCEPT ![t] = Idle]
  /\ UNCHANGED <<jobQueue, reports, link, view, inbox, reqChan, taskVars,
                 respChan, failures, closures>>

SendReport(t) ==
  /\ sender[t].step = "report"
  /\ Writes(t)
  /\ \/ Arrives(t) /\ PublishReport(Emitted(sender[t].reply))
     \/ ~Arrives(t) /\ UNCHANGED reports
  /\ sender' = [sender EXCEPT ![t] = Idle]
  /\ UNCHANGED <<jobQueue, results, link, view, inbox, reqChan, taskVars,
                 respChan, failures, closures>>

-----------------------------------------------------------------------------
(* Stopping.                                                               *)

\* The process ends, and with it all that it held in memory.
Exit(t) ==
  /\ Requeue(t)
  /\ link' = [link EXCEPT ![t] = "down"]
  /\ view' = [view EXCEPT ![t] = "down"]
  /\ inbox' = [inbox EXCEPT ![t] = << >>]
  /\ reqChan' = [reqChan EXCEPT ![t] = << >>]
  /\ waiting' = [waiting EXCEPT ![t] = {}]
  /\ running' = [running EXCEPT ![t] = {}]
  /\ respChan' = [respChan EXCEPT ![t] = << >>]
  /\ sender' = [sender EXCEPT ![t] = Idle]
  /\ UNCHANGED <<results, reports>>

\* An operation of amqp_sender fails, and the error goes up to main.
SenderFails(t) ==
  /\ \/ sender[t] = Idle /\ respChan[t] # << >> /\ view[t] = "closed"
     \/ sender[t].step = "ack" /\ view[t] \in {"ackless", "closed"}
     \/ sender[t].step = "report" /\ view[t] = "closed"
  /\ Exit(t)
  /\ UNCHANGED <<failures, closures>>

\* The consumer's stream is over and all that was received is dealt with: the
\* channels close one after the other and main returns.
Finish(t) ==
  /\ view[t] \in {"ackless", "closed"}
  /\ inbox[t] = << >> /\ reqChan[t] = << >> /\ respChan[t] = << >>
  /\ waiting[t] = {} /\ running[t] = {}
  /\ sender[t] = Idle
  /\ Exit(t)
  /\ UNCHANGED <<failures, closures>>

Fail == failures < MaxFailures /\ failures' = failures + 1

Crash(t) == Up(t) /\ Fail /\ UNCHANGED closures /\ Exit(t)

\* The connection is lost.  The process goes on with what it has received.
Disconnect(t) ==
  /\ link[t] \in {"open", "ackless"}
  /\ Fail
  /\ Requeue(t)
  /\ link' = [link EXCEPT ![t] = "closed"]
  /\ UNCHANGED <<closures, results, reports, view, inbox, reqChan, taskVars,
                 respChan, sender>>

\* The server closes the consuming channel alone, as it does when a delivery
\* has been left unacknowledged for too long.
CloseConsumer(t) ==
  /\ link[t] = "open"
  /\ Fail
  /\ Requeue(t)
  /\ closures' = closures + 1
  /\ link' = [link EXCEPT ![t] = "ackless"]
  /\ UNCHANGED <<results, reports, view, inbox, reqChan, taskVars, respChan,
                 sender>>

\* The client library reads that the channel or the connection is closed, or
\* misses the heartbeats.
Notice(t) ==
  /\ view[t] # link[t]
  /\ view' = [view EXCEPT ![t] = link[t]]
  /\ UNCHANGED <<brokerVars, link, inbox, reqChan, taskVars, respChan, sender,
                 failures, closures>>

-----------------------------------------------------------------------------

Task(t) ==
  \/ \E d \in waiting[t] : RejectLab(t, d) \/ StartDocker(t, d)
  \/ \E d \in running[t] : DockerDone(t, d)

Process(t) ==
  \/ Start(t)
  \/ Deliver(t)
  \/ Receive(t)
  \/ Spawn(t)
  \/ Task(t)
  \/ PublishResponse(t)
  \/ AckJob(t)
  \/ SendReport(t)
  \/ Notice(t)
  \/ SenderFails(t)
  \/ Finish(t)

Failure(t) == Crash(t) \/ Disconnect(t) \/ CloseConsumer(t)

TesterNext ==
  \/ \E j \in Jobs : Submit(j)
  \/ \E t \in Testers : Process(t) \/ Failure(t)

TesterSpec == TesterInit /\ [][TesterNext]_testerVars

\* What an instance does when nothing fails, the server and docker included.
\* A process that went down is started again, docker runs end.
TesterFairness ==
  \A t \in Testers :
    /\ WF_testerVars(Start(t))
    /\ WF_testerVars(Deliver(t))
    /\ WF_testerVars(Receive(t))
    /\ WF_testerVars(Spawn(t))
    /\ WF_testerVars(Task(t))
    /\ WF_testerVars(PublishResponse(t))
    /\ WF_testerVars(AckJob(t))
    /\ WF_testerVars(SendReport(t))
    /\ WF_testerVars(Notice(t))
    /\ WF_testerVars(SenderFails(t))
    /\ WF_testerVars(Finish(t))

FairTesterSpec == TesterSpec /\ TesterFairness

-----------------------------------------------------------------------------
(* Properties.                                                             *)

\* The deliveries that each part of instance t will still answer.
Place(t) ==
  [inbox |-> Range(inbox[t]), reqChan |-> Range(reqChan[t]),
   waiting |-> waiting[t], running |-> running[t],
   respChan |-> {reply.d : reply \in Range(respChan[t])},
   sender |-> IF sender[t].step = "ack" THEN {sender[t].reply.d} ELSE {}]

Unanswered(t) ==
  LET place == Place(t) IN
    place.inbox \cup place.reqChan \cup place.waiting \cup place.running
      \cup place.respChan

InProcess(t) == Unanswered(t) \cup Place(t).sender

\* A job is not acknowledged before its response is published, so whatever
\* instance dies or loses its link, and whenever, a submitted job is still in
\* the queue, or held by a channel that will give it back, or answered
\* (amqp_sender publishes, then acknowledges that delivery and no other).
NoJobLost ==
  \A j \in submitted : j \in queued \/ Held(j) \/ Answered(j)

\* Every message of the prefetch window of an instance is being worked on,
\* except those that did not decode: amqp_receiver drops these without an
\* answer to the server, so they keep their place in the window.
SlotsAccounted ==
  \A t \in Testers : \A d \in unacked[t] :
    d.job \in Undecodable \/ d \in InProcess(t)

\* As long as the consuming channel is open, whatever is being worked on is
\* unacknowledged there.  The tag that amqp_sender acknowledges is thus always
\* a valid one: an unknown tag would make the server close the channel.
WorkIsUnacked ==
  \A t \in Testers : link[t] = "open" => InProcess(t) \subseteq unacked[t]

\* The tasks that start_executor spawns never outnumber the permits, though
\* it spawns them without looking: the prefetch count bounds them, and it is
\* 1 when the parallelism does not fit the 16 bits of a prefetch count.
TasksBounded ==
  Parallelism > 0 =>
    \A t \in Testers :
      Cardinality(waiting[t] \cup running[t]) <=
        (IF Parallelism > U16Max THEN 1 ELSE Parallelism)

\* A job is answered more than once only if something failed in between, and
\* no more often than that.
AnswersTo(j) == {i \in DOMAIN results : results[i].job = j}

DuplicatesNeedFailures ==
  \A j \in Jobs : Cardinality(AnswersTo(j)) <= 1 + failures

\* A job that is run again is not reported again, but for one case: a report
\* that goes out after an acknowledgement that the server did not read, on the
\* channel that it left open.  There are thus no more reports of a job than
\* times that the server closed a consuming channel, and one more once the job
\* left the queue for good; each repeats a published answer (amqp_sender
\* reports after the acknowledgement is written).
ReportsOf(j) == {i \in DOMAIN reports : reports[i].job = j}

OneReport ==
  /\ Range(reports) \subseteq Range(results)
  /\ \A j \in Jobs :
       Cardinality(ReportsOf(j)) <= closures + (IF j \in Settled THEN 1 ELSE 0)

\* What makes the invariants above inductive.  The tag of a delivery that is
\* being worked on is not the tag of another unacknowledged delivery ...
Tracked(t, d) ==
  /\ d.tag < nextTag[t]
  /\ \A e \in unacked[t] : e.tag = d.tag => e = d

TagsTracked ==
  \A t \in Testers : \A d \in unacked[t] \cup InProcess(t) : Tracked(t, d)

\* ... a channel that is gone holds nothing, nor does a process that is down, so
\* that tags may start anew ...
DownIsEmpty ==
  \A t \in Testers :
    /\ link[t] # "open" => unacked[t] = {}
    /\ link[t] = "down" => InProcess(t) = {}

\* ... an instance notices a loss after it has happened ...
ViewLags ==
  \A t \in Testers :
    /\ view[t] = "down" <=> link[t] = "down"
    /\ link[t] = "open" => view[t] = "open"
    /\ link[t] = "ackless" => view[t] # "closed"

\* ... and what amqp_sender is about to acknowledge is answered, unless the
\* connection is lost.
AckedIsAnswered ==
  \A t \in Testers :
    sender[t].step = "ack" /\ Arrives(t) => Answered(sender[t].reply.d.job)

DeliveryInv ==
  /\ TesterTypeOK
  /\ TagsTracked
  /\ DownIsEmpty
  /\ ViewLags
  /\ AckedIsAnswered
  /\ NoJobLost
  /\ SlotsAccounted

\* A delivery is in one part of an instance only, and once.
Once(t) ==
  /\ IsInjective(inbox[t]) /\ IsInjective(reqChan[t])
  /\ \A i, k \in DOMAIN respChan[t] :
       respChan[t][i].d = respChan[t][k].d => i = k
  /\ LET place == Place(t) IN
       \A p, q \in DOMAIN place : p # q => place[p] \cap place[q] = {}

OnePlace == \A t \in Testers : Once(t)

\* The messages that an instance has received are no more than its prefetch
\* window.
WindowHolds ==
  \A t \in Testers :
    /\ IsFiniteSet(unacked[t]) /\ IsFiniteSet(InProcess(t))
    /\ PrefetchCount > 0 => Cardinality(InProcess(t)) <= PrefetchCount

\* A job is in the queue or in one delivery of one channel, at most.
JobsOnce ==
  /\ queued \subseteq submitted
  /\ \A t \in Testers : \A d \in unacked[t] :
       /\ d.job \in submitted \ queued
       /\ \A u \in Testers : \A e \in unacked[u] :
            e.job = d.job => u = t /\ e = d
  /\ \A t \in Testers : \A d \in InProcess(t) : d.job \in submitted

\* What amqp_sender acknowledges or reports is what it has published, unless the
\* connection is lost; each of these answers gives one report at most.  A
\* delivery that is about to be reported is nowhere else in the instance.
Reporters(j) ==
  {t \in Testers : /\ Arrives(t)
                   /\ sender[t].step \in {"ack", "report"}
                   /\ sender[t].reply.d.job = j}

SenderInOrder ==
  /\ Range(reports) \subseteq Range(results)
  /\ \A t \in Testers :
       sender[t].step \in {"ack", "report"} /\ Arrives(t)
         => Emitted(sender[t].reply) \in Range(results)
  /\ \A t \in Testers :
       /\ link[t] = "down" => sender[t] = Idle
       /\ sender[t].step = "report" =>
            /\ sender[t].reply.d.tag < nextTag[t]
            /\ sender[t].reply.d \notin unacked[t] \cup InProcess(t)
  /\ \A j \in Jobs :
       /\ IsFiniteSet(Reporters(j))
       /\ Cardinality(ReportsOf(j)) + Cardinality(Reporters(j))
            <= Cardinality(AnswersTo(j))

\* Each failure makes one more answer at most: those that were given, those that
\* are being made and that of a message in the queue are counted together.
ToAnswer(j) ==
  UNION {{t} \X {d \in Unanswered(t) : d.job = j} : t \in Testers}

AnswersCounted ==
  \A j \in Jobs :
    /\ IsFiniteSet(ToAnswer(j))
    /\ Cardinality(AnswersTo(j)) + Cardinality(ToAnswer(j))
         + (IF j \in queued \/ j \notin submitted THEN 1 ELSE 0) <= 1 + failures

\* Each channel that the server closes behind the back of an instance makes one
\* more report at most, counted in the same way.
Unreported(t) ==
  IF link[t] \in {"open", "ackless"}
    THEN unacked[t] \cup InProcess(t) \cup
           (IF sender[t].step = "report" THEN {sender[t].reply.d} ELSE {})
    ELSE {}

ToReport(j) ==
  UNION {{t} \X {d \in Unreported(t) : d.job = j} : t \in Testers}

ReportsCounted ==
  \A j \in Jobs :
    /\ IsFiniteSet(ToReport(j))
    /\ Cardinality(ReportsOf(j)) + Cardinality(ToReport(j))
         + (IF j \in queued \/ j \notin submitted THEN 1 ELSE 0) <= 1 + closures

TesterInv ==
  /\ DeliveryInv
  /\ OnePlace
  /\ WorkIsUnacked
  /\ WindowHolds
  /\ JobsOnce
  /\ SenderInOrder
  /\ AnswersCounted
  /\ ReportsCounted

\* The testers are an implementation of the service promised to those who
\* submit jobs; the settled jobs are those the server holds no longer.
Service == INSTANCE JobService WITH settled <- Settled, answers <- results
ImplementsService == Service!ServiceSpec

\* Every job that decodes is run, answered and settled in the end, once the
\* failures are over (the README of the repository: "For every job ...").
EveryJobSettled ==
  \A j \in Jobs \ Undecodable : j \in submitted ~> j \in Settled
=============================================================================
