-------------------------- MODULE AmqpToTestProofs --------------------------
(***************************************************************************)
(* Proofs about the testers, for any number of instances and of jobs, any  *)
(* parallelism and any number of failures.                                 *)
(***************************************************************************)
EXTENDS AmqpToTest, SequenceLemmas

-----------------------------------------------------------------------------
(* Types.                                                                  *)

\* What goes around in an instance is typed as the code types it.
LEMMA ReplyTypes ==
  ASSUME TesterTypeOK, NEW t \in Testers, sender[t].step \in {"ack", "report"}
  PROVE  /\ sender[t].reply \in Reply
         /\ Emitted(sender[t].reply) \in Response
         /\ AfterAck(sender[t].reply) \in SenderState
<1>1. sender[t] \in [step : {"ack", "report"}, reply : Reply]
  BY DEF TesterTypeOK, SenderState, Idle
<1>2. sender[t].reply \in Reply
  BY <1>1
<1>3. QED
  BY <1>2 DEF Reply, Emitted, Response, Delivery, AfterAck, SenderState, Idle

\* What amqp_sender publishes, and what becomes of the queue of the responses.
LEMMA PublicationIs ==
  ASSUME TesterTypeOK, NEW t \in Testers, PublishResponse(t)
  PROVE  /\ Head(respChan[t]) \in Reply
         /\ Emitted(Head(respChan[t])) \in Response
         /\ Emitted(Head(respChan[t])).job = Head(respChan[t]).d.job
         /\ sender'[t] = [step |-> "ack", reply |-> Head(respChan[t])]
         /\ sender'[t].step = "ack" /\ sender'[t].reply = Head(respChan[t])
         /\ results' \in Seq(Response)
         /\ Arrives(t) => Emitted(Head(respChan[t])) \in Range(results')
<1> DEFINE q == respChan[t]
           r == Emitted(Head(q))
<1>1. q \in Seq(Reply) /\ q # << >> /\ results \in Seq(Response)
  BY DEF TesterTypeOK, BrokerTypeOK, PublishResponse
<1>2. Head(q) \in Reply
  BY <1>1, RangeTail
<1>3. r \in Response /\ r.job = Head(q).d.job
  BY <1>2 DEF Reply, Emitted, Response, Delivery
<1>4. IF Arrives(t) THEN results' = Append(results, r) ELSE results' = results
  BY DEF PublishResponse, PublishResult
<1>5. sender'[t] = [step |-> "ack", reply |-> Head(q)]
  BY DEF PublishResponse, TesterTypeOK
<1> HIDE DEF r
<1>6. /\ Append(results, r) \in Seq(Response)
      /\ r \in Range(Append(results, r))
  BY <1>1, <1>3, RangeAppend
<1>7. results' \in Seq(Response) /\ (Arrives(t) => r \in Range(results'))
  BY <1>1, <1>4, <1>6
<1>8. sender'[t].step = "ack" /\ sender'[t].reply = Head(q)
  BY <1>5
<1>9. QED
  BY <1>2, <1>3, <1>5, <1>7, <1>8 DEF r

\* What amqp_sender reports, and what becomes of the reports.
LEMMA ReportIs ==
  ASSUME TesterTypeOK, NEW t \in Testers, SendReport(t)
  PROVE  /\ Emitted(sender[t].reply) \in Response
         /\ Emitted(sender[t].reply).job = sender[t].reply.d.job
         /\ IF Arrives(t)
              THEN reports' = Append(reports, Emitted(sender[t].reply))
              ELSE reports' = reports
         /\ reports' \in Seq(Response)
<1> DEFINE r == Emitted(sender[t].reply)
<1>1. sender[t].step = "report" /\ reports \in Seq(Response)
  BY DEF TesterTypeOK, BrokerTypeOK, SendReport
<1>2. r \in Response
  BY <1>1, ReplyTypes
<1>3. r.job = sender[t].reply.d.job
  BY DEF Emitted
<1>4. IF Arrives(t) THEN reports' = Append(reports, r) ELSE reports' = reports
  BY DEF SendReport, PublishReport
<1> HIDE DEF r
<1>5. Append(reports, r) \in Seq(Response)
  BY <1>1, <1>2, RangeAppend
<1>6. reports' \in Seq(Response)
  BY <1>1, <1>4, <1>5
<1>7. QED
  BY <1>2, <1>3, <1>4, <1>6 DEF r

\* What the server delivers of a queued job is a delivery.
LEMMA NewDeliveryType ==
  ASSUME TesterTypeOK, NEW t \in Testers, NEW j \in queued
  PROVE  NewDelivery(t, j) \in Delivery
BY DEF TesterTypeOK, BrokerTypeOK, NewDelivery, Delivery

\* A step that ends a process, or one of its links, keeps the types.
LEMMA RequeueType ==
  ASSUME BrokerTypeOK, NEW t \in Testers, Requeue(t),
         results' = results, reports' = reports
  PROVE  BrokerTypeOK'
<1>1. JobsOf(unacked[t]) \subseteq Jobs
  BY DEF BrokerTypeOK, JobsOf, Delivery
<1>2. QED
  BY <1>1 DEF BrokerTypeOK, Requeue

\* The end of a process empties its channels, and keeps the types.
LEMMA ExitType ==
  ASSUME TesterTypeOK, NEW t \in Testers, Exit(t),
         failures' \in 0 .. MaxFailures, closures' \in 0 .. failures'
  PROVE  TesterTypeOK'
<1>1. BrokerTypeOK'
  BY RequeueType DEF TesterTypeOK, Exit
<1>2. Idle \in SenderState
  BY DEF SenderState
<1>3. QED
  BY <1>1, <1>2 DEF TesterTypeOK, Exit

\* Every step of the testers keeps every variable in its type.
LEMMA TypeStep ==
  ASSUME TesterTypeOK, [TesterNext]_testerVars
  PROVE  TesterTypeOK'
<1> USE TesterAssumption
<1>1. ASSUME NEW j \in Jobs, Submit(j)
      PROVE  TesterTypeOK'
  BY <1>1 DEF TesterTypeOK, BrokerTypeOK, Submit, PublishJob, processVars
<1>2. ASSUME NEW t \in Testers, Start(t)
      PROVE  TesterTypeOK'
  BY <1>2 DEF TesterTypeOK, BrokerTypeOK, Start
<1>3. ASSUME NEW t \in Testers, Deliver(t)
      PROVE  TesterTypeOK'
  <2>1. PICK j \in queued :
          /\ BasicDeliver(t, j)
          /\ inbox' = [inbox EXCEPT ![t] = Append(@, NewDelivery(t, j))]
    BY <1>3 DEF Deliver
  <2>2. NewDelivery(t, j) \in Delivery
    BY NewDeliveryType
  <2>3. Append(inbox[t], NewDelivery(t, j)) \in Seq(Delivery)
    BY <2>2, RangeAppend DEF TesterTypeOK
  <2>4. QED
    BY <1>3, <2>1, <2>2, <2>3
    DEF TesterTypeOK, BrokerTypeOK, Deliver, BasicDeliver
<1>4. ASSUME NEW t \in Testers, Receive(t)
      PROVE  TesterTypeOK'
  <2>1. /\ Tail(inbox[t]) \in Seq(Delivery)
        /\ Head(inbox[t]) \in Delivery
    BY <1>4, RangeTail DEF TesterTypeOK, Receive
  <2>2. Append(reqChan[t], Head(inbox[t])) \in Seq(Delivery)
    BY <2>1, RangeAppend DEF TesterTypeOK
  <2>3. QED
    BY <1>4, <2>1, <2>2
    DEF TesterTypeOK, BrokerTypeOK, Receive, brokerVars
<1>5. ASSUME NEW t \in Testers, Spawn(t)
      PROVE  TesterTypeOK'
  <2>1. /\ Tail(reqChan[t]) \in Seq(Delivery)
        /\ Head(reqChan[t]) \in Delivery
    BY <1>5, RangeTail DEF TesterTypeOK, Spawn
  <2>2. QED
    BY <1>5, <2>1 DEF TesterTypeOK, BrokerTypeOK, Spawn, brokerVars
<1>6. ASSUME NEW t \in Testers, NEW d \in Delivery, NEW yaml \in Yamls
      PROVE  Append(respChan[t], [d |-> d, yaml |-> yaml]) \in Seq(Reply)
             \/ ~TesterTypeOK
  BY <1>6, RangeAppend DEF TesterTypeOK, Reply
<1>7. ASSUME NEW t \in Testers, NEW d \in waiting[t], RejectLab(t, d)
      PROVE  TesterTypeOK'
  <2>1. d \in Delivery
    BY <1>7 DEF TesterTypeOK
  <2>2. QED
    BY <1>6, <1>7, <2>1
    DEF TesterTypeOK, BrokerTypeOK, RejectLab, SendReply, brokerVars
<1>8. ASSUME NEW t \in Testers, NEW d \in waiting[t], StartDocker(t, d)
      PROVE  TesterTypeOK'
  BY <1>8 DEF TesterTypeOK, BrokerTypeOK, StartDocker, brokerVars
<1>9. ASSUME NEW t \in Testers, NEW d \in running[t], DockerDone(t, d)
      PROVE  TesterTypeOK'
  <2>1. d \in Delivery
    BY <1>9 DEF TesterTypeOK
  <2>2. PICK yaml \in Yamls : SendReply(t, d, yaml)
    BY <1>9 DEF DockerDone
  <2>3. QED
    BY <1>6, <1>9, <2>1, <2>2
    DEF TesterTypeOK, BrokerTypeOK, DockerDone, SendReply, brokerVars
<1>10. ASSUME NEW t \in Testers, PublishResponse(t)
       PROVE  TesterTypeOK'
  <2>1. /\ Tail(respChan[t]) \in Seq(Reply)
        /\ Head(respChan[t]) \in Reply
    BY <1>10, RangeTail DEF TesterTypeOK, PublishResponse
  <2>3. results' \in Seq(Response)
    BY <1>10, PublicationIs
  <2>4. [step |-> "ack", reply |-> Head(respChan[t])] \in SenderState
    BY <2>1 DEF SenderState
  <2>5. QED
    BY <1>10, <2>1, <2>3, <2>4
    DEF TesterTypeOK, BrokerTypeOK, PublishResponse, jobQueue, taskVars
<1>11. ASSUME NEW t \in Testers, AckJob(t)
       PROVE  TesterTypeOK'
  <2>1. AfterAck(sender[t].reply) \in SenderState
    BY <1>11, ReplyTypes DEF AckJob
  <2>2. QED
    BY <1>11, <2>1
    DEF TesterTypeOK, BrokerTypeOK, AckJob, BasicAck, taskVars
<1>12. ASSUME NEW t \in Testers, SendReport(t)
       PROVE  TesterTypeOK'
  <2>2. reports' \in Seq(Response)
    BY <1>12, ReportIs
  <2>3. Idle \in SenderState
    BY DEF SenderState
  <2>4. QED
    BY <1>12, <2>2, <2>3
    DEF TesterTypeOK, BrokerTypeOK, SendReport, jobQueue, taskVars
<1>13. ASSUME NEW t \in Testers, SenderFails(t) \/ Finish(t) \/ Crash(t)
       PROVE  TesterTypeOK'
  <2>1. /\ Exit(t)
        /\ failures' \in 0 .. MaxFailures
        /\ closures' \in 0 .. failures'
    BY <1>13 DEF SenderFails, Finish, Crash, Fail, TesterTypeOK
  <2>2. QED
    BY <2>1, ExitType
<1>14. ASSUME NEW t \in Testers, Disconnect(t) \/ CloseConsumer(t)
       PROVE  TesterTypeOK'
  <2>1. BrokerTypeOK'
    BY <1>14, RequeueType DEF TesterTypeOK, Disconnect, CloseConsumer
  <2>2. failures' \in 0 .. MaxFailures /\ closures' \in 0 .. failures'
    BY <1>14 DEF Disconnect, CloseConsumer, Fail, TesterTypeOK
  <2>3. QED
    BY <1>14, <2>1, <2>2
    DEF TesterTypeOK, Disconnect, CloseConsumer, taskVars
<1>15. CASE UNCHANGED testerVars
  BY <1>15
  DEF TesterTypeOK, BrokerTypeOK, testerVars, brokerVars, processVars
<1>16. ASSUME NEW t \in Testers, Notice(t)
       PROVE  TesterTypeOK'
  BY <1>16 DEF TesterTypeOK, BrokerTypeOK, Notice, brokerVars, taskVars
<1>17. QED
  BY <1>1, <1>2, <1>3, <1>4, <1>5, <1>7, <1>8, <1>9, <1>10, <1>11, <1>12,
     <1>13, <1>14, <1>15, <1>16
  DEF TesterNext, Process, Task, Failure

\* Every variable of the testers and of the server keeps its type.
THEOREM TesterTypes == TesterSpec => []TesterTypeOK
<1>1. TesterInit => TesterTypeOK
  BY TesterAssumption
  DEF TesterInit, BrokerInit, TesterTypeOK, BrokerTypeOK, SenderState
<1>2. TesterTypeOK /\ [TesterNext]_testerVars => TesterTypeOK'
  BY TypeStep
<1>3. QED
  BY <1>1, <1>2, PTL DEF TesterSpec

-----------------------------------------------------------------------------
(* What is being worked on, and how a step changes it.                     *)

Parts(t) ==
  <<inbox[t], reqChan[t], waiting[t], running[t], respChan[t], sender[t]>>

ReplyDeliveries(replies) == {reply.d : reply \in replies}

\* An instance whose parts do not change works on the same deliveries.
LEMMA SameProcess ==
  ASSUME NEW t \in Testers, UNCHANGED Parts(t)
  PROVE  InProcess(t)' = InProcess(t)
BY DEF Parts, InProcess, Unanswered, Place

\* Reading a delivery takes it from the inbox; one that decodes stays in
\* process, one that does not is forgotten.
LEMMA ReceiveProcess ==
  ASSUME TesterTypeOK, NEW t \in Testers, Receive(t)
  PROVE  /\ InProcess(t)' \subseteq InProcess(t)
         /\ \A d \in InProcess(t) :
              d \in InProcess(t)' \/ d.job \in Undecodable
<1>1. Range(inbox[t]) = {Head(inbox[t])} \cup Range(inbox'[t])
  BY RangeTail DEF Receive, TesterTypeOK
<1>2. Head(inbox[t]) \in Delivery
  BY RangeTail DEF Receive, TesterTypeOK
<1>3. UNCHANGED <<waiting, running, respChan, sender>>
  BY DEF Receive
<1>4. CASE /\ Head(inbox[t]).job \in Undecodable
           /\ UNCHANGED reqChan
  BY <1>1, <1>3, <1>4 DEF InProcess, Unanswered, Place
<1>5. CASE reqChan' = [reqChan EXCEPT ![t] = Append(@, Head(inbox[t]))]
  <2>1. Range(reqChan'[t]) = Range(reqChan[t]) \cup {Head(inbox[t])}
    BY <1>2, <1>5, RangeAppend DEF TesterTypeOK
  <2>2. QED
    BY <1>1, <1>3, <2>1 DEF InProcess, Unanswered, Place
<1>6. QED
  BY <1>4, <1>5 DEF Receive

\* What is being worked on was delivered.
LEMMA InProcessType ==
  ASSUME TesterTypeOK, NEW t \in Testers
  PROVE  InProcess(t) \subseteq Delivery
<1>1. /\ Range(inbox[t]) \subseteq Delivery
      /\ Range(reqChan[t]) \subseteq Delivery
      /\ Range(respChan[t]) \subseteq Reply
  BY DEF TesterTypeOK, Range
<1>2. sender[t].step = "ack" => sender[t].reply \in Reply
  BY ReplyTypes
<1>3. QED
  BY <1>1, <1>2 DEF TesterTypeOK, InProcess, Unanswered, Place, Reply

\* The steps of the tasks, and what amqp_sender does before and after the
\* acknowledgement, hand deliveries over from one part to the next.
HandOver(t) ==
  \/ Spawn(t)
  \/ Task(t)
  \/ PublishResponse(t)
  \/ SendReport(t)

\* The reply that a task sends carries its delivery.
LEMMA SendReplyProcess ==
  ASSUME TesterTypeOK, NEW t \in Testers, NEW d \in Delivery,
         NEW yaml \in Yamls, SendReply(t, d, yaml)
  PROVE  ReplyDeliveries(Range(respChan'[t])) =
           ReplyDeliveries(Range(respChan[t])) \cup {d}
<1>1. [d |-> d, yaml |-> yaml] \in Reply
  BY DEF Reply
<1>2. Range(respChan'[t]) = Range(respChan[t]) \cup {[d |-> d, yaml |-> yaml]}
  BY <1>1, RangeAppend DEF TesterTypeOK, SendReply
<1>3. ASSUME NEW S, NEW reply
      PROVE  ReplyDeliveries(S \cup {reply}) = ReplyDeliveries(S) \cup {reply.d}
  BY DEF ReplyDeliveries
<1>4. ReplyDeliveries(Range(respChan'[t])) =
        ReplyDeliveries(Range(respChan[t])) \cup {[d |-> d, yaml |-> yaml].d}
  BY ONLY <1>2, <1>3
<1>5. QED
  BY <1>4

\* A delivery that is handed over from one part to the next is in process still.
LEMMA HandOverProcess ==
  ASSUME TesterTypeOK, NEW t \in Testers, HandOver(t)
  PROVE  InProcess(t)' = InProcess(t)
<1> USE TesterAssumption
<1>1. CASE Spawn(t)
  <2>1. Range(reqChan[t]) = {Head(reqChan[t])} \cup Range(reqChan'[t])
    BY <1>1, RangeTail DEF Spawn, TesterTypeOK
  <2>2. waiting'[t] = waiting[t] \cup {Head(reqChan[t])}
    BY <1>1 DEF Spawn, TesterTypeOK
  <2>3. UNCHANGED <<inbox, running, respChan, sender>>
    BY <1>1 DEF Spawn
  <2>4. QED
    BY <2>1, <2>2, <2>3 DEF InProcess, Unanswered, Place
<1>2. ASSUME NEW d \in waiting[t], RejectLab(t, d)
      PROVE  InProcess(t)' = InProcess(t)
  <2>1. d \in Delivery
    BY <1>2 DEF TesterTypeOK
  <2>2. ReplyDeliveries(Range(respChan'[t])) =
          ReplyDeliveries(Range(respChan[t])) \cup {d}
    BY <1>2, <2>1, SendReplyProcess DEF RejectLab
  <2>3. waiting[t] = waiting'[t] \cup {d}
    BY <1>2 DEF RejectLab, TesterTypeOK
  <2>4. UNCHANGED <<inbox, reqChan, running, sender>>
    BY <1>2 DEF RejectLab
  <2>5. QED
    BY <2>2, <2>3, <2>4 DEF InProcess, Unanswered, Place, ReplyDeliveries
<1>3. ASSUME NEW d \in waiting[t], StartDocker(t, d)
      PROVE  InProcess(t)' = InProcess(t)
  BY <1>3 DEF StartDocker, InProcess, Unanswered, Place, TesterTypeOK
<1>4. ASSUME NEW d \in running[t], DockerDone(t, d)
      PROVE  InProcess(t)' = InProcess(t)
  <2>1. d \in Delivery
    BY <1>4 DEF TesterTypeOK
  <2>2. PICK yaml \in Yamls : SendReply(t, d, yaml)
    BY <1>4 DEF DockerDone
  <2>3. ReplyDeliveries(Range(respChan'[t])) =
          ReplyDeliveries(Range(respChan[t])) \cup {d}
    BY <2>1, <2>2, SendReplyProcess
  <2>4. running[t] = running'[t] \cup {d}
    BY <1>4 DEF DockerDone, TesterTypeOK
  <2>5. UNCHANGED <<inbox, reqChan, waiting, sender>>
    BY <1>4 DEF DockerDone
  <2>6. QED
    BY <2>3, <2>4, <2>5 DEF InProcess, Unanswered, Place, ReplyDeliveries
<1>5. CASE PublishResponse(t)
  <2>1. Range(respChan[t]) = {Head(respChan[t])} \cup Range(respChan'[t])
    BY <1>5, RangeTail DEF PublishResponse, TesterTypeOK
  <2>2. sender'[t] = [step |-> "ack", reply |-> Head(respChan[t])]
    BY <1>5 DEF PublishResponse, TesterTypeOK
  <2>3. sender[t].step = "idle"
    BY <1>5 DEF PublishResponse, Idle
  <2>4. UNCHANGED <<inbox, reqChan, waiting, running>>
    BY <1>5 DEF PublishResponse, taskVars
  <2>5. QED
    BY <2>1, <2>2, <2>3, <2>4 DEF InProcess, Unanswered, Place
<1>6. CASE SendReport(t)
  <2>1. sender'[t] = Idle /\ Idle.step = "idle"
    BY <1>6 DEF SendReport, TesterTypeOK, Idle
  <2>2. QED
    BY <1>6, <2>1 DEF SendReport, InProcess, Unanswered, Place, taskVars
<1>7. QED
  BY <1>1, <1>2, <1>3, <1>4, <1>5, <1>6 DEF HandOver, Task
-----------------------------------------------------------------------------
(* The inductive invariant.                                                *)

\* The parts of DeliveryInv that relate the window of the server to the work in
\* process; the others say what is answered.
WindowInv == TagsTracked /\ DownIsEmpty /\ SlotsAccounted

\* A step of one instance that leaves its window and its work as they are.
LEMMA SameWindow ==
  ASSUME WindowInv, UNCHANGED <<link, unacked, nextTag>>,
         \A u \in Testers : InProcess(u)' = InProcess(u)
  PROVE  WindowInv'
BY DEF WindowInv, TagsTracked, Tracked, DownIsEmpty, SlotsAccounted

\* The other instances do not take part in a step of instance t.
LEMMA OthersSame ==
  ASSUME TesterTypeOK, NEW t \in Testers, Process(t) \/ Failure(t),
         NEW u \in Testers, u # t
  PROVE  /\ UNCHANGED Parts(u)
         /\ InProcess(u)' = InProcess(u)
         /\ link'[u] = link[u]
         /\ view'[u] = view[u]
         /\ unacked'[u] = unacked[u]
         /\ nextTag'[u] = nextTag[u]
         /\ sender'[u] = sender[u]
<1>1. /\ UNCHANGED Parts(u)
      /\ link'[u] = link[u]
      /\ view'[u] = view[u]
      /\ unacked'[u] = unacked[u]
      /\ nextTag'[u] = nextTag[u]
  <2> USE DEF TesterTypeOK, BrokerTypeOK, Parts
  <2>1. CASE Start(t)
    BY <2>1 DEF Start
  <2>2. CASE Deliver(t)
    BY <2>2 DEF Deliver, BasicDeliver
  <2>3. CASE Receive(t)
    BY <2>3 DEF Receive, brokerVars
  <2>4. CASE Spawn(t)
    BY <2>4 DEF Spawn, brokerVars
  <2>5. CASE Task(t)
    BY <2>5
    DEF Task, RejectLab, StartDocker, DockerDone, SendReply, brokerVars
  <2>6. CASE PublishResponse(t)
    BY <2>6 DEF PublishResponse, jobQueue, taskVars
  <2>7. CASE AckJob(t)
    BY <2>7 DEF AckJob, BasicAck, taskVars
  <2>8. CASE SendReport(t)
    BY <2>8 DEF SendReport, jobQueue, taskVars
  <2>9. CASE Exit(t)
    BY <2>9 DEF Exit, Requeue
  <2>10. CASE Failure(t) /\ ~Exit(t)
    BY <2>10 DEF Failure, Crash, Disconnect, CloseConsumer, Requeue, taskVars
  <2>11. CASE Notice(t)
    BY <2>11 DEF Notice, brokerVars, taskVars
  <2>12. QED
    BY <2>1, <2>2, <2>3, <2>4, <2>5, <2>6, <2>7, <2>8, <2>9, <2>10, <2>11
    DEF Process, SenderFails, Finish
<1>2. QED
  BY <1>1, SameProcess DEF Parts

\* It suffices to look at the instance that takes the step.
LEMMA WindowOf ==
  ASSUME TesterTypeOK, WindowInv,
         NEW t \in Testers, Process(t) \/ Failure(t),
         \A d \in unacked'[t] \cup InProcess(t)' :
           /\ d.tag < nextTag'[t]
           /\ \A e \in unacked'[t] : e.tag = d.tag => e = d,
         link'[t] # "open" => unacked'[t] = {},
         link'[t] = "down" => InProcess(t)' = {},
         \A d \in unacked'[t] : d.job \in Undecodable \/ d \in InProcess(t)'
  PROVE  WindowInv'
BY OthersSame DEF WindowInv, TagsTracked, Tracked, DownIsEmpty, SlotsAccounted
\* The window and the work in process keep to one another in every step.
LEMMA WindowStep ==
  ASSUME TesterTypeOK, WindowInv, [TesterNext]_testerVars
  PROVE  WindowInv'
<1>1. CASE UNCHANGED testerVars \/ \E j \in Jobs : Submit(j)
  <2>1. /\ UNCHANGED <<link, unacked, nextTag>>
        /\ \A u \in Testers : UNCHANGED Parts(u)
    BY <1>1
    DEF Submit, testerVars, brokerVars, processVars, Parts
  <2>2. QED
    BY <2>1, SameProcess, SameWindow
<1>2. ASSUME NEW t \in Testers, Start(t)
      PROVE  WindowInv'
  <2>1. Process(t)
    BY <1>2 DEF Process
  <2>2. UNCHANGED Parts(t) /\ UNCHANGED unacked
    BY <1>2 DEF Start, Parts
  <2>3. InProcess(t)' = {} /\ unacked'[t] = {}
    BY <1>2, <2>2, SameProcess DEF Start, WindowInv, DownIsEmpty
  <2>4. QED
    BY <2>1, <2>3, WindowOf
<1>3. ASSUME NEW t \in Testers, Deliver(t)
      PROVE  WindowInv'
  <2>1. PICK j \in queued :
          /\ BasicDeliver(t, j)
          /\ inbox' = [inbox EXCEPT ![t] = Append(@, NewDelivery(t, j))]
    BY <1>3 DEF Deliver
  <2> DEFINE new == NewDelivery(t, j)
  <2>2. new \in Delivery /\ new.tag = nextTag[t]
    BY NewDeliveryType DEF NewDelivery
  <2>3. Range(inbox'[t]) = Range(inbox[t]) \cup {new}
    BY <2>1, <2>2, RangeAppend DEF TesterTypeOK
  <2>4. InProcess(t)' = InProcess(t) \cup {new}
    BY <1>3, <2>3 DEF Deliver, InProcess, Unanswered, Place
  <2>5. /\ unacked'[t] = unacked[t] \cup {new}
        /\ nextTag'[t] = nextTag[t] + 1
        /\ nextTag[t] \in Nat
    BY <2>1 DEF BasicDeliver, TesterTypeOK, BrokerTypeOK
  <2>6. \A d \in unacked[t] \cup InProcess(t) : d.tag < nextTag[t]
    BY DEF WindowInv, TagsTracked, Tracked
  <2>7. \A d \in InProcess(t) \cup unacked[t] : d.tag \in Nat
    <3>1. unacked[t] \subseteq Delivery
      BY DEF TesterTypeOK, BrokerTypeOK
    <3>2. InProcess(t) \subseteq Delivery
      BY InProcessType
    <3>3. QED
      BY <3>1, <3>2 DEF Delivery
  <2>8. ASSUME NEW d \in unacked'[t] \cup InProcess(t)'
        PROVE  /\ d.tag < nextTag'[t]
               /\ \A e \in unacked'[t] : e.tag = d.tag => e = d
    BY <2>2, <2>4, <2>5, <2>6, <2>7 DEF WindowInv, TagsTracked, Tracked
  <2>9. link'[t] = "open" /\ Process(t)
    BY <1>3 DEF Deliver, Process
  <2>10. \A d \in unacked'[t] : d.job \in Undecodable \/ d \in InProcess(t)'
    BY <2>4, <2>5 DEF WindowInv, SlotsAccounted
  <2>11. QED
    BY <2>8, <2>9, <2>10, WindowOf
<1>4. ASSUME NEW t \in Testers, Receive(t)
      PROVE  WindowInv'
  <2>1. Process(t)
    BY <1>4 DEF Process
  <2>2. UNCHANGED <<link, unacked, nextTag>>
    BY <1>4 DEF Receive, brokerVars
  <2>3. QED
    BY <1>4, <2>1, <2>2, ReceiveProcess, WindowOf
    DEF WindowInv, TagsTracked, Tracked, DownIsEmpty, SlotsAccounted
<1>5. ASSUME NEW t \in Testers, HandOver(t)
      PROVE  WindowInv'
  <2>1. Process(t)
    BY <1>5 DEF HandOver, Process
  <2>2. UNCHANGED <<link, unacked, nextTag>>
    BY <1>5
    DEF HandOver, Spawn, Task, RejectLab, StartDocker, DockerDone,
        PublishResponse, SendReport, brokerVars, jobQueue
  <2>3. \A u \in Testers : InProcess(u)' = InProcess(u)
    BY <1>5, <2>1, HandOverProcess, OthersSame
  <2>4. QED
    BY <2>2, <2>3, SameWindow
<1>6. ASSUME NEW t \in Testers, AckJob(t)
      PROVE  WindowInv'
  <2> DEFINE d0 == sender[t].reply.d
  <2>1. Process(t) /\ UNCHANGED <<link, nextTag>>
    BY <1>6 DEF Process, AckJob
  <2>2. d0 \in InProcess(t)
    BY <1>6 DEF AckJob, InProcess, Unanswered, Place
  <2>3. \/ unacked'[t] = {e \in unacked[t] : e.tag # d0.tag}
        \/ unacked'[t] = unacked[t] /\ link[t] # "open"
    BY <1>6 DEF AckJob, BasicAck, TesterTypeOK, BrokerTypeOK
  <2>4. /\ InProcess(t)' \subseteq InProcess(t)
        /\ InProcess(t) \subseteq InProcess(t)' \cup {d0}
    <3>1. sender'[t] = AfterAck(sender[t].reply)
      BY <1>6 DEF AckJob, TesterTypeOK
    <3>2. sender'[t].step # "ack"
      BY <3>1 DEF AfterAck, Idle
    <3>3. QED
      BY <1>6, <3>2 DEF AckJob, InProcess, Unanswered, Place, taskVars
  <2>5. unacked'[t] = {e \in unacked[t] : e.tag # d0.tag}
    BY <2>3 DEF WindowInv, DownIsEmpty
  <2>6. QED
    BY <2>1, <2>2, <2>4, <2>5, WindowOf
    DEF WindowInv, TagsTracked, Tracked, DownIsEmpty, SlotsAccounted
<1>7. ASSUME NEW t \in Testers, SenderFails(t) \/ Finish(t) \/ Crash(t)
      PROVE  WindowInv'
  <2>1. Exit(t) /\ (Process(t) \/ Failure(t))
    BY <1>7 DEF SenderFails, Finish, Crash, Process, Failure
  <2>2. unacked'[t] = {}
    BY <2>1 DEF Exit, Requeue, TesterTypeOK, BrokerTypeOK
  <2>3. InProcess(t)' = {}
    BY <2>1, RangeEmpty DEF Exit, InProcess, Unanswered, Place, TesterTypeOK, Idle
  <2>4. QED
    BY <2>1, <2>2, <2>3, WindowOf
<1>8. ASSUME NEW t \in Testers, Disconnect(t) \/ CloseConsumer(t)
      PROVE  WindowInv'
  <2>1. /\ Failure(t)
        /\ Requeue(t)
        /\ link'[t] # "down"
        /\ UNCHANGED Parts(t)
    BY <1>8
    DEF Failure, Disconnect, CloseConsumer, Parts, taskVars, TesterTypeOK
  <2>2. unacked'[t] = {} /\ nextTag' = nextTag
    BY <2>1 DEF Requeue, TesterTypeOK, BrokerTypeOK
  <2>3. InProcess(t)' = InProcess(t)
    BY <2>1, SameProcess
  <2>4. QED
    BY <2>1, <2>2, <2>3, WindowOf DEF WindowInv, TagsTracked, Tracked
<1>9. ASSUME NEW t \in Testers, Notice(t)
      PROVE  WindowInv'
  <2>1. /\ UNCHANGED <<link, unacked, nextTag>>
        /\ \A u \in Testers : UNCHANGED Parts(u)
    BY <1>9 DEF Notice, brokerVars, taskVars, Parts
  <2>2. QED
    BY <2>1, SameProcess, SameWindow
<1>10. QED
  BY <1>1, <1>2, <1>3, <1>4, <1>5, <1>6, <1>7, <1>8, <1>9
  DEF TesterNext, Process, Failure, HandOver

\* An instance notices what has happened, and nothing else.
LEMMA ViewLagsStep ==
  ASSUME TesterTypeOK, ViewLags, [TesterNext]_testerVars
  PROVE  ViewLags'
<1> DEFINE Lags(v, l) ==
      /\ v = "down" <=> l = "down"
      /\ l = "open" => v = "open"
      /\ l = "ackless" => v # "closed"
<1>1. \A t \in Testers : Lags(view[t], link[t])
  BY DEF ViewLags
<1>2. ASSUME NEW t \in Testers, Process(t) \/ Failure(t)
      PROVE  Lags(view'[t], link'[t])
  <2> USE DEF TesterTypeOK
  <2>1. CASE Start(t)
    BY <2>1 DEF Start
  <2>2. CASE Notice(t)
    BY <1>1, <2>2 DEF Notice
  <2>3. CASE Exit(t)
    BY <2>3 DEF Exit
  <2>4. CASE Disconnect(t) \/ CloseConsumer(t)
    BY <1>1, <2>4 DEF Disconnect, CloseConsumer
  <2>5. QED
    BY <1>1, <1>2, <2>1, <2>2, <2>3, <2>4
    DEF Process, Failure, Deliver, Receive, Spawn, Task, RejectLab,
        StartDocker, DockerDone, PublishResponse, AckJob, SendReport,
        SenderFails, Finish, Crash
<1>3. ASSUME NEW t \in Testers, Process(t) \/ Failure(t), NEW u \in Testers
      PROVE  Lags(view'[u], link'[u])
  BY <1>1, <1>2, <1>3, OthersSame
<1>4. CASE UNCHANGED <<view, link>>
  BY <1>4 DEF ViewLags
<1>5. QED
  BY <1>3, <1>4
  DEF ViewLags, TesterNext, Submit, testerVars, processVars
\* The responses are a log, to which amqp_sender alone adds.
LEMMA ResultsLog ==
  ASSUME TesterTypeOK, [TesterNext]_testerVars
  PROVE  results' = results \/ \E r \in Response : results' = Append(results, r)
<1>1. ASSUME NEW t \in Testers, PublishResponse(t)
      PROVE  results' = results \/ \E r \in Response : results' = Append(results, r)
  <2>1. Head(respChan[t]) \in Reply
    BY <1>1, RangeTail DEF PublishResponse, TesterTypeOK
  <2>2. Emitted(Head(respChan[t])) \in Response
    BY <2>1 DEF Reply, Emitted, Response, Delivery
  <2>3. QED
    BY <1>1, <2>2 DEF PublishResponse, PublishResult
<1>2. ASSUME NEW t \in Testers, Process(t) \/ Failure(t),
             ~PublishResponse(t)
      PROVE  results' = results
  BY <1>2
  DEF Process, Failure, Start, Deliver, Receive, Spawn, Task, RejectLab,
      StartDocker, DockerDone, AckJob, SendReport, SenderFails, Finish,
      Notice, Crash, Disconnect, CloseConsumer, Exit, brokerVars
<1>3. QED
  BY <1>1, <1>2
  DEF TesterNext, Process, Submit, testerVars, brokerVars

\* An answer is never taken back.
LEMMA AnswersStay ==
  ASSUME TesterTypeOK, [TesterNext]_testerVars, NEW j, Answered(j)
  PROVE  Answered(j)'
<1>1. results' = results \/ \E r \in Response : results' = Append(results, r)
  BY ResultsLog
<1>2. PICK i \in DOMAIN results : results[i].job = j
  BY DEF Answered
<1>3. results \in Seq(Response)
  BY DEF TesterTypeOK, BrokerTypeOK
<1>4. ASSUME NEW r \in Response, results' = Append(results, r)
      PROVE  i \in DOMAIN results' /\ results'[i] = results[i]
  <2>1. DOMAIN results = 1 .. Len(results) /\ Len(results) \in Nat
    BY <1>3
  <2>2. DOMAIN results' = 1 .. (Len(results) + 1)
    BY <1>3, <1>4
  <2>3. QED
    BY <1>2, <1>3, <1>4, <2>1, <2>2
<1>5. i \in DOMAIN results' /\ results'[i] = results[i]
  BY <1>1, <1>2, <1>4
<1>6. QED
  BY <1>2, <1>5 DEF Answered

\* What has just been published is an answer.
LEMMA PublishAnswers ==
  ASSUME TesterTypeOK, NEW t \in Testers, PublishResponse(t), Arrives(t),
         NEW j, j = sender'[t].reply.d.job
  PROVE  Answered(j)'
<1> DEFINE r == Emitted(Head(respChan[t]))
<1>2. r \in Response /\ r.job = Head(respChan[t]).d.job
  BY PublicationIs
<1>3. r \in Range(results')
  BY PublicationIs
<1>4. sender'[t].reply = Head(respChan[t])
  BY PublicationIs
<1>5. QED
  BY <1>2, <1>3, <1>4 DEF Answered, Range

\* A connection that is lost comes back with a new process only.
LEMMA LossIsFinal ==
  ASSUME TesterTypeOK, [TesterNext]_testerVars,
         NEW t \in Testers, ~Arrives(t), Arrives(t)'
  PROVE  sender'[t] = Idle
<1> USE DEF Arrives
<1>1. CASE Exit(t)
  BY <1>1 DEF Exit, TesterTypeOK
<1>2. ASSUME NEW u \in Testers, Process(u) \/ Failure(u), u # t
      PROVE  link'[t] = link[t]
  BY <1>2, OthersSame
<1>3. ASSUME Process(t) \/ Failure(t), ~Exit(t)
      PROVE  link'[t] = link[t]
  BY <1>3
  DEF Process, Failure, Start, Deliver, Receive, Spawn, Task, RejectLab,
      StartDocker, DockerDone, PublishResponse, AckJob, SendReport, Notice,
      SenderFails, Finish, Crash, Disconnect, CloseConsumer
<1>4. QED
  BY <1>1, <1>2, <1>3 DEF TesterNext, Submit, testerVars, processVars

\* amqp_sender publishes before it gets ready to acknowledge.
LEMMA AckedIsAnsweredStep ==
  ASSUME TesterTypeOK, AckedIsAnswered, [TesterNext]_testerVars
  PROVE  AckedIsAnswered'
<1> SUFFICES ASSUME NEW t \in Testers, sender'[t].step = "ack", Arrives(t)',
                    NEW j, j = sender'[t].reply.d.job
             PROVE  Answered(j)'
  BY DEF AckedIsAnswered
<1>1. CASE PublishResponse(t)
  <2>1. Arrives(t)
    BY <1>1 DEF Arrives, PublishResponse
  <2>2. QED
    BY <1>1, <2>1, PublishAnswers
<1>2. CASE sender'[t] = sender[t]
  <2>1. Arrives(t)
    BY LossIsFinal DEF Idle
  <2>2. QED
    BY <1>2, <2>1, AnswersStay DEF AckedIsAnswered
<1>3. ASSUME NEW u \in Testers, Process(u) \/ Failure(u), u # t
      PROVE  sender'[t] = sender[t]
  BY <1>3, OthersSame
<1>4. ASSUME Process(t) \/ Failure(t), ~PublishResponse(t)
      PROVE  sender'[t] = sender[t]
  <2>1. Idle.step # "ack"
    BY DEF Idle
  <2>2. CASE AckJob(t)
    BY <2>1, <2>2 DEF AckJob, AfterAck, TesterTypeOK
  <2>3. CASE SendReport(t)
    BY <2>1, <2>3 DEF SendReport, TesterTypeOK
  <2>4. CASE Exit(t)
    BY <2>1, <2>4 DEF Exit, TesterTypeOK
  <2>5. QED
    BY <1>4, <2>2, <2>3, <2>4
    DEF Process, Failure, Start, Deliver, Receive, Spawn, Task, RejectLab,
        StartDocker, DockerDone, SenderFails, Finish, Notice, Crash,
        Disconnect, CloseConsumer
<1>5. QED
  BY <1>1, <1>2, <1>3, <1>4
  DEF TesterNext, Submit, testerVars, processVars

\* No step loses a job: what leaves the queue is held, and what is no longer
\* held is either back in the queue or answered.
LEMMA NoJobLostStep ==
  ASSUME TesterTypeOK, WindowInv, AckedIsAnswered, NoJobLost,
         [TesterNext]_testerVars
  PROVE  NoJobLost'
<1> DEFINE Safe(j) == j \in queued \/ Held(j) \/ Answered(j)
<1>1. CASE UNCHANGED <<queued, unacked>> /\ submitted' = submitted
  BY <1>1, AnswersStay DEF NoJobLost, Held
<1>2. ASSUME NEW j \in Jobs, Submit(j)
      PROVE  NoJobLost'
  BY <1>2, AnswersStay DEF Submit, PublishJob, NoJobLost, Held
<1>3. ASSUME NEW t \in Testers, Deliver(t)
      PROVE  NoJobLost'
  <2>1. PICK j \in queued : BasicDeliver(t, j)
    BY <1>3 DEF Deliver
  <2>2. /\ unacked'[t] = unacked[t] \cup {NewDelivery(t, j)}
        /\ NewDelivery(t, j).job = j
        /\ queued' = queued \ {j}
        /\ submitted' = submitted
        /\ \A u \in Testers \ {t} : unacked'[u] = unacked[u]
    BY <2>1 DEF BasicDeliver, TesterTypeOK, BrokerTypeOK, NewDelivery
  <2>3. ASSUME NEW k \in submitted
        PROVE  k \in queued' \/ Held(k)' \/ Answered(k)'
    <3>1. CASE k = j
      BY <2>2, <3>1 DEF Held
    <3>2. CASE Held(k)
      BY <2>2, <3>2 DEF Held
    <3>3. CASE Answered(k)
      BY <3>3, AnswersStay
    <3>4. QED
      BY <2>2, <3>1, <3>2, <3>3 DEF NoJobLost
  <2>4. QED
    BY <2>2, <2>3 DEF NoJobLost
<1>4. ASSUME NEW t \in Testers, AckJob(t)
      PROVE  NoJobLost'
  <2> DEFINE d0 == sender[t].reply.d
  <2>0. CASE link[t] # "open"
    BY <1>1, <1>4, <2>0 DEF AckJob
  <2> SUFFICES ASSUME link[t] = "open"
               PROVE  NoJobLost'
    BY <2>0
  <2>1. /\ unacked'[t] = {e \in unacked[t] : e.tag # d0.tag}
        /\ \A u \in Testers \ {t} : unacked'[u] = unacked[u]
        /\ UNCHANGED <<queued, submitted>>
    BY <1>4 DEF AckJob, BasicAck, TesterTypeOK, BrokerTypeOK
  <2>2. d0 \in InProcess(t) /\ Answered(d0.job)
    BY <1>4 DEF AckJob, InProcess, Unanswered, Place, AckedIsAnswered, Arrives
  <2>3. \A e \in unacked[t] : e.tag = d0.tag => e = d0
    BY <2>2 DEF WindowInv, TagsTracked, Tracked
  <2>4. ASSUME NEW k \in submitted
        PROVE  k \in queued' \/ Held(k)' \/ Answered(k)'
    <3>1. CASE Answered(k)
      BY <3>1, AnswersStay
    <3>2. CASE Held(k) /\ ~Answered(k)
      BY <2>1, <2>2, <2>3, <3>2 DEF Held
    <3>3. QED
      BY <2>1, <3>1, <3>2 DEF NoJobLost
  <2>5. QED
    BY <2>1, <2>4 DEF NoJobLost
<1>5. ASSUME NEW t \in Testers, Requeue(t)
      PROVE  NoJobLost'
  <2>1. /\ queued' = queued \cup JobsOf(unacked[t])
        /\ \A u \in Testers \ {t} : unacked'[u] = unacked[u]
        /\ submitted' = submitted
    BY <1>5 DEF Requeue, TesterTypeOK, BrokerTypeOK
  <2>2. ASSUME NEW k \in submitted
        PROVE  k \in queued' \/ Held(k)' \/ Answered(k)'
    <3>1. CASE Held(k)
      BY <2>1, <3>1 DEF Held, JobsOf
    <3>2. CASE Answered(k)
      BY <3>2, AnswersStay
    <3>3. QED
      BY <2>1, <3>1, <3>2 DEF NoJobLost
  <2>3. QED
    BY <2>1, <2>2 DEF NoJobLost
<1>6. ASSUME NEW t \in Testers,
             Start(t) \/ Receive(t) \/ HandOver(t) \/ Notice(t)
      PROVE  UNCHANGED <<queued, unacked>> /\ submitted' = submitted
  BY <1>6
  DEF Start, Receive, HandOver, Spawn, Task, RejectLab, StartDocker,
      DockerDone, PublishResponse, SendReport, Notice, brokerVars, jobQueue
<1>7. QED
  BY <1>1, <1>2, <1>3, <1>4, <1>5, <1>6
  DEF TesterNext, Process, Failure, HandOver, SenderFails, Finish, Exit,
      Crash, Disconnect, CloseConsumer, testerVars, brokerVars

\* DeliveryInv holds at the start, and in every step.
LEMMA DeliveryInvInit ==
  ASSUME TesterInit
  PROVE  DeliveryInv
<1>1. TesterTypeOK
  BY TesterAssumption
  DEF TesterInit, BrokerInit, TesterTypeOK, BrokerTypeOK, SenderState
<1>2. \A t \in Testers : unacked[t] = {} /\ InProcess(t) = {}
  BY RangeEmpty DEF TesterInit, BrokerInit, InProcess, Unanswered, Place, Idle
<1>3. TagsTracked /\ DownIsEmpty /\ ViewLags /\ SlotsAccounted
  BY <1>2 DEF TagsTracked, DownIsEmpty, ViewLags, SlotsAccounted, TesterInit
<1>4. AckedIsAnswered /\ NoJobLost
  BY DEF TesterInit, BrokerInit, AckedIsAnswered, Idle, NoJobLost
<1>5. QED
  BY <1>1, <1>3, <1>4 DEF DeliveryInv

\* Every step keeps DeliveryInv.
LEMMA DeliveryInvStep ==
  ASSUME DeliveryInv, [TesterNext]_testerVars
  PROVE  DeliveryInv'
BY TypeStep, WindowStep, ViewLagsStep, AckedIsAnsweredStep, NoJobLostStep
DEF DeliveryInv, WindowInv

\* DeliveryInv holds for ever.
LEMMA DeliveryInvariant == TesterSpec => []DeliveryInv
BY DeliveryInvInit, DeliveryInvStep, PTL DEF TesterSpec

\* A submitted job is in the queue, or held by a channel that will give it
\* back, or answered, however many instances die at whatever moment.
THEOREM NoJobIsLost == TesterSpec => []NoJobLost
<1>1. DeliveryInv => NoJobLost
  BY DEF DeliveryInv
<1>2. QED
  BY <1>1, DeliveryInvariant, PTL

\* The prefetch window of an instance only holds jobs that the instance works
\* on, and messages that do not decode.
THEOREM WindowIsWork == TesterSpec => []SlotsAccounted
<1>1. DeliveryInv => SlotsAccounted
  BY DEF DeliveryInv
<1>2. QED
  BY <1>1, DeliveryInvariant, PTL

-----------------------------------------------------------------------------
(***************************************************************************)
(* The testers implement JobService.  A delivery is handed over from part  *)
(* to part of an instance without ever being copied, so that it is         *)
(* published once, acknowledged after that, and then reported.             *)
(***************************************************************************)

-----------------------------------------------------------------------------
(* Channels without copies.                                                *)

\* A response is not told from another one of the same delivery.
OneReplyEach(s) == \A i, k \in DOMAIN s : s[i].d = s[k].d => i = k

\* A reply for another delivery may join the channel.
LEMMA ReplyAppend ==
  ASSUME NEW s \in Seq(Reply), NEW r \in Reply, OneReplyEach(s),
         r.d \notin ReplyDeliveries(Range(s))
  PROVE  OneReplyEach(Append(s, r))
<1>1. /\ DOMAIN s = 1 .. Len(s)
      /\ DOMAIN Append(s, r) = 1 .. (Len(s) + 1)
      /\ \A i \in 1 .. Len(s) : Append(s, r)[i] = s[i]
      /\ Append(s, r)[Len(s) + 1] = r
      /\ Len(s) \in Nat
  OBVIOUS
<1>2. \A i \in 1 .. Len(s) : s[i].d # r.d
  BY <1>1 DEF Range, ReplyDeliveries
<1>3. QED
  BY <1>1, <1>2 DEF OneReplyEach

\* The reply at the head of the channel leaves it with its delivery.
LEMMA ReplyTail ==
  ASSUME NEW s \in Seq(Reply), s # << >>, OneReplyEach(s)
  PROVE  /\ OneReplyEach(Tail(s))
         /\ ReplyDeliveries(Range(Tail(s))) =
              ReplyDeliveries(Range(s)) \ {Head(s).d}
         /\ Head(s).d \in ReplyDeliveries(Range(s))
<1>1. /\ Len(s) \in Nat \ {0}
      /\ DOMAIN s = 1 .. Len(s)
      /\ Head(s) = s[1]
      /\ DOMAIN Tail(s) = 1 .. (Len(s) - 1)
      /\ \A i \in 1 .. (Len(s) - 1) : Tail(s)[i] = s[i + 1]
  OBVIOUS
<1>2. OneReplyEach(Tail(s))
  BY <1>1 DEF OneReplyEach
<1>3. ASSUME NEW i \in DOMAIN Tail(s)
      PROVE  Tail(s)[i].d # Head(s).d
  BY <1>1 DEF OneReplyEach
<1>4. \A r \in Range(Tail(s)) : r.d # Head(s).d
  BY <1>3 DEF Range
<1>5. Range(s) = {Head(s)} \cup Range(Tail(s))
  BY RangeTail
<1>6. QED
  BY <1>2, <1>4, <1>5 DEF ReplyDeliveries

-----------------------------------------------------------------------------
(* One place for each delivery.                                            *)

PartNames == {"inbox", "reqChan", "waiting", "running", "respChan", "sender"}

Apart(t) ==
  \A p, q \in PartNames : p # q => Place(t)[p] \cap Place(t)[q] = {}

Whole(t) ==
  /\ IsInjective(inbox[t])
  /\ IsInjective(reqChan[t])
  /\ OneReplyEach(respChan[t])

\* Once has two parts: no place holds a delivery twice, and no two places share
\* one.
LEMMA OnceIs ==
  ASSUME NEW t \in Testers
  PROVE  /\ Once(t) <=> Whole(t) /\ Apart(t)
         /\ Once(t)' <=> Whole(t)' /\ Apart(t)'
<1>1. DOMAIN Place(t) = PartNames /\ DOMAIN Place(t)' = PartNames
  BY DEF Place, PartNames
<1>2. QED
  BY <1>1 DEF Once, Whole, Apart, OneReplyEach

\* Delivery d goes from one part of an instance to another.
Moved(t, from, to, d) ==
  /\ from \in PartNames /\ to \in PartNames /\ from # to
  /\ d \in Place(t)[from]
  /\ Place(t)'[from] = Place(t)[from] \ {d}
  /\ Place(t)'[to] = Place(t)[to] \cup {d}
  /\ \A p \in PartNames \ {from, to} : Place(t)'[p] = Place(t)[p]

\* When a delivery moves, no two places share one afterwards.
LEMMA MovedApart ==
  ASSUME NEW t \in Testers, Apart(t),
         NEW from, NEW to, NEW d, Moved(t, from, to, d)
  PROVE  Apart(t)'
<1>1. ASSUME NEW p \in PartNames, NEW q \in PartNames, p # q
      PROVE  Place(t)'[p] \cap Place(t)'[q] = {}
  <2>1. ASSUME NEW x \in Place(t)'[p], x \in Place(t)'[q]
        PROVE  FALSE
    <3>1. Place(t)[p] \cap Place(t)[q] = {}
      BY <1>1 DEF Apart
    <3>2. \A r \in PartNames : r # from => d \notin Place(t)[r]
      BY DEF Apart, Moved
    <3>3. CASE x # d
      BY <2>1, <3>1, <3>3 DEF Moved
    <3>4. CASE x = d
      <4>1. \A r \in PartNames : d \in Place(t)'[r] => r = to
        BY <3>2 DEF Moved
      <4>2. QED
        BY <1>1, <2>1, <3>4, <4>1
    <3>5. QED
      BY <3>3, <3>4
  <2>2. QED
    BY <2>1
<1>2. QED
  BY <1>1 DEF Apart

\* Parts that only lose deliveries.
LEMMA ShrunkApart ==
  ASSUME NEW t \in Testers, Apart(t),
         \A p \in PartNames : Place(t)'[p] \subseteq Place(t)[p]
  PROVE  Apart(t)'
BY DEF Apart

\* A new delivery is in no part of the instance: its tag is new.
LEMMA DeliverOnce ==
  ASSUME DeliveryInv, NEW t \in Testers, Once(t), Deliver(t)
  PROVE  Once(t)'
<1>1. PICK j \in queued :
        inbox' = [inbox EXCEPT ![t] = Append(@, NewDelivery(t, j))]
  BY DEF Deliver
<1> DEFINE new == NewDelivery(t, j)
<1>2. new \in Delivery /\ new.tag = nextTag[t]
  BY NewDeliveryType DEF NewDelivery, DeliveryInv
<1>3. \A d \in InProcess(t) : d.tag < nextTag[t] /\ d.tag \in Nat
  <2>1. InProcess(t) \subseteq Delivery
    BY InProcessType DEF DeliveryInv
  <2>2. QED
    BY <2>1 DEF DeliveryInv, TagsTracked, Tracked, Delivery
<1>4. new \notin InProcess(t)
  BY <1>2, <1>3
<1>5. inbox[t] \in Seq(Delivery) /\ inbox'[t] = Append(inbox[t], new)
  BY <1>1 DEF DeliveryInv, TesterTypeOK
<1>6. \A p \in PartNames : new \notin Place(t)[p]
  BY <1>4 DEF InProcess, Unanswered, Place, PartNames
<1>7. Whole(t)'
  <2>1. new \notin Range(inbox[t])
    BY <1>6 DEF PartNames, Place
  <2>2. IsInjective(inbox'[t])
    BY <1>2, <1>5, <2>1, InjectiveAppend, OnceIs DEF Whole
  <2>3. QED
    BY <2>2, OnceIs DEF Whole, Deliver
<1>8. /\ Place(t)'.inbox = Place(t).inbox \cup {new}
      /\ \A p \in PartNames \ {"inbox"} : Place(t)'[p] = Place(t)[p]
  <2>1. Range(inbox'[t]) = Range(inbox[t]) \cup {new}
    BY <1>2, <1>5, RangeAppend
  <2>2. Place(t)'.inbox = Place(t).inbox \cup {new}
    BY <2>1 DEF Place
  <2>3. /\ Place(t)'.reqChan = Place(t).reqChan
        /\ Place(t)'.waiting = Place(t).waiting
        /\ Place(t)'.running = Place(t).running
        /\ Place(t)'.respChan = Place(t).respChan
        /\ Place(t)'.sender = Place(t).sender
    BY DEF Place, Deliver
  <2>4. QED
    BY <2>2, <2>3 DEF PartNames
<1>9. Apart(t)'
  BY <1>6, <1>8, OnceIs DEF Apart, PartNames
<1>10. QED
  BY <1>7, <1>9, OnceIs

\* What is moved is in no other part before, as the channels have no copies of it.
LEMMA MovedOnce ==
  ASSUME NEW t \in Testers, Once(t),
         NEW from, NEW to, NEW d, Moved(t, from, to, d), Whole(t)'
  PROVE  Once(t)'
BY OnceIs, MovedApart

\* A delivery is not yet where it moves to.
LEMMA MovedIsElsewhere ==
  ASSUME NEW t \in Testers, Once(t),
         NEW from \in PartNames, NEW to \in PartNames, from # to,
         NEW d \in Place(t)[from]
  PROVE  d \notin Place(t)[to]
BY OnceIs DEF Apart

\* The receiver takes a delivery from the inbox and sends it, if it decodes, to
\* the executor.
LEMMA ReceiveOnce ==
  ASSUME DeliveryInv, NEW t \in Testers, Once(t), Receive(t)
  PROVE  Once(t)'
<1> DEFINE h == Head(inbox[t])
<1>1. /\ inbox[t] \in Seq(Delivery) /\ inbox[t] # << >>
      /\ inbox'[t] = Tail(inbox[t])
      /\ reqChan[t] \in Seq(Delivery)
  BY DEF Receive, DeliveryInv, TesterTypeOK
<1>2. IsInjective(inbox[t]) /\ IsInjective(reqChan[t]) /\ OneReplyEach(respChan[t])
  BY OnceIs DEF Whole
<1>3. /\ IsInjective(inbox'[t])
      /\ Range(inbox'[t]) = Range(inbox[t]) \ {h}
      /\ h \in Delivery /\ h \in Range(inbox[t])
  BY <1>1, <1>2, InjectiveTail, RangeTail
<1>4. /\ Place(t)'.waiting = Place(t).waiting
      /\ Place(t)'.running = Place(t).running
      /\ Place(t)'.respChan = Place(t).respChan
      /\ Place(t)'.sender = Place(t).sender
      /\ Place(t)'.inbox = Place(t).inbox \ {h}
  BY <1>3 DEF Receive, Place
<1>5. CASE UNCHANGED reqChan
  <2>1. Whole(t)'
    BY <1>2, <1>3, <1>5 DEF Whole, Receive
  <2>2. Place(t)'.reqChan = Place(t).reqChan
    BY <1>5 DEF Place
  <2>3. Apart(t)'
    BY <1>4, <2>2, ShrunkApart, OnceIs DEF PartNames
  <2>4. QED
    BY <2>1, <2>3, OnceIs
<1>6. CASE reqChan' = [reqChan EXCEPT ![t] = Append(@, h)]
  <2>1. reqChan'[t] = Append(reqChan[t], h)
    BY <1>6 DEF DeliveryInv, TesterTypeOK
  <2>2. Place(t).inbox = Range(inbox[t]) /\ Place(t).reqChan = Range(reqChan[t])
    BY DEF Place
  <2>3. h \notin Range(reqChan[t])
    BY <1>3, <2>2, MovedIsElsewhere DEF PartNames
  <2>4. Whole(t)'
    BY <1>1, <1>2, <1>3, <2>1, <2>3, InjectiveAppend DEF Whole, Receive
  <2>5. Place(t)'.reqChan = Place(t).reqChan \cup {h}
    BY <1>1, <1>3, <2>1, RangeAppend DEF Place
  <2>6. Moved(t, "inbox", "reqChan", h)
    BY <1>3, <1>4, <2>2, <2>5 DEF Moved, PartNames
  <2>7. QED
    BY <2>4, <2>6, MovedOnce
<1>7. QED
  BY <1>5, <1>6 DEF Receive

\* start_executor hands a request to its task, the task to docker ...
LEMMA SpawnMoves ==
  ASSUME DeliveryInv, NEW t \in Testers, Once(t), Spawn(t)
  PROVE  Once(t)' /\ Moved(t, "reqChan", "waiting", Head(reqChan[t]))
<1> DEFINE h == Head(reqChan[t])
<1>1. /\ reqChan[t] \in Seq(Delivery) /\ reqChan[t] # << >>
      /\ reqChan'[t] = Tail(reqChan[t])
      /\ waiting'[t] = waiting[t] \cup {h}
  BY DEF Spawn, DeliveryInv, TesterTypeOK
<1>2. Whole(t)
  BY OnceIs
<1>3. /\ IsInjective(reqChan'[t])
      /\ Range(reqChan'[t]) = Range(reqChan[t]) \ {h}
      /\ h \in Range(reqChan[t])
  BY <1>1, <1>2, InjectiveTail, RangeTail DEF Whole
<1>4. Whole(t)'
  BY <1>2, <1>3 DEF Whole, Spawn
<1>5. /\ Place(t)'.inbox = Place(t).inbox
      /\ Place(t)'.running = Place(t).running
      /\ Place(t)'.respChan = Place(t).respChan
      /\ Place(t)'.sender = Place(t).sender
      /\ Place(t)'.reqChan = Place(t).reqChan \ {h}
      /\ Place(t)'.waiting = Place(t).waiting \cup {h}
      /\ h \in Place(t).reqChan
  BY <1>1, <1>3 DEF Spawn, Place
<1>6. Moved(t, "reqChan", "waiting", h)
  BY <1>5 DEF Moved, PartNames
<1>7. QED
  BY <1>4, <1>6, MovedOnce

\* A task that gets its permit moves to running.
LEMMA StartDockerMoves ==
  ASSUME DeliveryInv, NEW t \in Testers, Once(t),
         NEW d \in waiting[t], StartDocker(t, d)
  PROVE  Once(t)' /\ Moved(t, "waiting", "running", d)
<1>1. /\ waiting'[t] = waiting[t] \ {d}
      /\ running'[t] = running[t] \cup {d}
  BY DEF StartDocker, DeliveryInv, TesterTypeOK
<1>2. Whole(t)'
  BY OnceIs DEF Whole, StartDocker
<1>3. /\ Place(t)'.inbox = Place(t).inbox
      /\ Place(t)'.reqChan = Place(t).reqChan
      /\ Place(t)'.respChan = Place(t).respChan
      /\ Place(t)'.sender = Place(t).sender
      /\ Place(t)'.waiting = Place(t).waiting \ {d}
      /\ Place(t)'.running = Place(t).running \cup {d}
      /\ d \in Place(t).waiting
  BY <1>1 DEF StartDocker, Place
<1>4. Moved(t, "waiting", "running", d)
  BY <1>3 DEF Moved, PartNames
<1>5. QED
  BY <1>2, <1>4, MovedOnce

\* ... and a task that ends to amqp_sender.
LEMMA SendReplyMoves ==
  ASSUME DeliveryInv, NEW t \in Testers, Once(t),
         NEW from \in {"waiting", "running"}, NEW d \in Place(t)[from],
         NEW yaml \in Yamls, SendReply(t, d, yaml),
         Place(t)'[from] = Place(t)[from] \ {d},
         UNCHANGED <<inbox, reqChan, sender>>,
         IF from = "waiting" THEN UNCHANGED running ELSE UNCHANGED waiting
  PROVE  Once(t)' /\ Moved(t, from, "respChan", d)
<1> DEFINE r == [d |-> d, yaml |-> yaml]
<1>1. d \in Delivery
  BY DEF Place, DeliveryInv, TesterTypeOK
<1>2. r \in Reply /\ r.d = d
  BY <1>1 DEF Reply
<1>3. /\ respChan[t] \in Seq(Reply)
      /\ respChan'[t] = Append(respChan[t], r)
  BY DEF SendReply, DeliveryInv, TesterTypeOK
<1>4. Place(t).respChan = ReplyDeliveries(Range(respChan[t]))
  BY DEF Place, ReplyDeliveries
<1>5. d \notin Place(t).respChan
  BY MovedIsElsewhere DEF PartNames
<1>6. Whole(t)'
  BY <1>2, <1>3, <1>4, <1>5, ReplyAppend, OnceIs DEF Whole
<1>7. Place(t)'.respChan = Place(t).respChan \cup {d}
  <2>1. Place(t)'.respChan = ReplyDeliveries(Range(respChan'[t]))
    BY DEF Place, ReplyDeliveries
  <2>2. QED
    BY <1>1, <1>4, <2>1, SendReplyProcess DEF DeliveryInv
<1>8. /\ Place(t)'.inbox = Place(t).inbox
      /\ Place(t)'.reqChan = Place(t).reqChan
      /\ Place(t)'.sender = Place(t).sender
      /\ from = "waiting" => Place(t)'.running = Place(t).running
      /\ from = "running" => Place(t)'.waiting = Place(t).waiting
  BY DEF Place
<1>9. Moved(t, from, "respChan", d)
  BY <1>7, <1>8 DEF Moved, PartNames
<1>10. QED
  BY <1>6, <1>9, MovedOnce

\* A job of a lab that is not configured is answered at once.
LEMMA RejectLabMoves ==
  ASSUME DeliveryInv, NEW t \in Testers, Once(t),
         NEW d \in waiting[t], RejectLab(t, d)
  PROVE  Once(t)' /\ Moved(t, "waiting", "respChan", d)
<1>1. waiting'[t] = waiting[t] \ {d}
  BY DEF RejectLab, DeliveryInv, TesterTypeOK
<1>2. d \in Place(t)["waiting"] /\ Place(t)'["waiting"] = Place(t)["waiting"] \ {d}
  BY <1>1 DEF Place
<1>3. QED
  BY <1>2, SendReplyMoves, TesterAssumption DEF RejectLab

\* The end of docker moves a delivery from its task to the channel of replies.
LEMMA DockerDoneMoves ==
  ASSUME DeliveryInv, NEW t \in Testers, Once(t),
         NEW d \in running[t], DockerDone(t, d)
  PROVE  Once(t)' /\ Moved(t, "running", "respChan", d)
<1>1. running'[t] = running[t] \ {d}
  BY DEF DockerDone, DeliveryInv, TesterTypeOK
<1>2. d \in Place(t)["running"] /\ Place(t)'["running"] = Place(t)["running"] \ {d}
  BY <1>1 DEF Place
<1>3. PICK yaml \in Yamls : SendReply(t, d, yaml)
  BY TesterAssumption DEF DockerDone
<1>4. QED
  BY <1>2, <1>3, SendReplyMoves DEF DockerDone

\* amqp_sender takes a response, and has it until it is acknowledged.
LEMMA PublishMoves ==
  ASSUME DeliveryInv, NEW t \in Testers, Once(t), PublishResponse(t)
  PROVE  /\ Once(t)'
         /\ Moved(t, "respChan", "sender", Head(respChan[t]).d)
         /\ Head(respChan[t]) \in Reply
<1> DEFINE r == Head(respChan[t])
<1>1. /\ respChan[t] \in Seq(Reply) /\ respChan[t] # << >>
      /\ respChan'[t] = Tail(respChan[t])
      /\ sender'[t] = [step |-> "ack", reply |-> r]
      /\ sender[t].step = "idle"
  BY DEF PublishResponse, DeliveryInv, TesterTypeOK, Idle
<1>2. r \in Reply
  BY <1>1, RangeTail
<1>3. Whole(t)
  BY OnceIs
<1>4. /\ OneReplyEach(respChan'[t])
      /\ ReplyDeliveries(Range(respChan'[t])) =
           ReplyDeliveries(Range(respChan[t])) \ {r.d}
      /\ r.d \in ReplyDeliveries(Range(respChan[t]))
  BY <1>1, <1>3, ReplyTail DEF Whole
<1>5. Whole(t)'
  BY <1>3, <1>4 DEF Whole, PublishResponse
<1>6. /\ Place(t).respChan = ReplyDeliveries(Range(respChan[t]))
      /\ Place(t)'.respChan = ReplyDeliveries(Range(respChan'[t]))
  BY DEF Place, ReplyDeliveries
<1>7. Place(t).sender = {} /\ Place(t)'.sender = {r.d}
  BY <1>1 DEF Place
<1>8. /\ Place(t)'.inbox = Place(t).inbox
      /\ Place(t)'.reqChan = Place(t).reqChan
      /\ Place(t)'.waiting = Place(t).waiting
      /\ Place(t)'.running = Place(t).running
  BY DEF PublishResponse, taskVars, Place
<1>9. Moved(t, "respChan", "sender", r.d)
  BY <1>4, <1>6, <1>7, <1>8 DEF Moved, PartNames
<1>10. QED
  BY <1>2, <1>5, <1>9, MovedOnce

\* The acknowledged delivery is in no part of the instance any more.
LEMMA AckForgets ==
  ASSUME DeliveryInv, NEW t \in Testers, Once(t), AckJob(t)
  PROVE  /\ Once(t)'
         /\ InProcess(t)' = InProcess(t) \ {sender[t].reply.d}
         /\ Unanswered(t)' = Unanswered(t)
<1> DEFINE d0 == sender[t].reply.d
<1>1. sender'[t].step # "ack" /\ sender[t].step = "ack"
  BY DEF AckJob, AfterAck, Idle, DeliveryInv, TesterTypeOK
<1>2. /\ Place(t)'.inbox = Place(t).inbox
      /\ Place(t)'.reqChan = Place(t).reqChan
      /\ Place(t)'.waiting = Place(t).waiting
      /\ Place(t)'.running = Place(t).running
      /\ Place(t)'.respChan = Place(t).respChan
      /\ Place(t).sender = {d0}
      /\ Place(t)'.sender = {}
  BY <1>1 DEF AckJob, taskVars, Place
<1>3. Whole(t)' /\ Apart(t)'
  <2>1. Whole(t)'
    BY OnceIs DEF Whole, AckJob, taskVars
  <2>2. QED
    BY <1>2, <2>1, ShrunkApart, OnceIs DEF PartNames
<1>4. \A p \in PartNames \ {"sender"} : d0 \notin Place(t)[p]
  BY <1>2, OnceIs DEF Apart, PartNames
<1>5. Unanswered(t)' = Unanswered(t)
  BY <1>2 DEF Unanswered
<1>6. d0 \notin Unanswered(t)
  BY <1>4 DEF Unanswered, PartNames
<1>7. InProcess(t)' = InProcess(t) \ {d0}
  BY <1>2, <1>5, <1>6 DEF InProcess
<1>8. QED
  BY <1>3, <1>5, <1>7, OnceIs

\* An instance whose parts stay as they are.
LEMMA SameOnce ==
  ASSUME NEW t \in Testers, UNCHANGED Parts(t)
  PROVE  /\ Once(t)' <=> Once(t)
         /\ Unanswered(t)' = Unanswered(t)
         /\ InProcess(t)' = InProcess(t)
BY DEF Parts, Once, Unanswered, InProcess, Place

\* An instance that ends has nothing left.
LEMMA ExitForgets ==
  ASSUME DeliveryInv, NEW t \in Testers, Exit(t)
  PROVE  Once(t)' /\ InProcess(t)' = {} /\ Unanswered(t)' = {}
<1>1. /\ inbox'[t] = << >> /\ reqChan'[t] = << >> /\ respChan'[t] = << >>
      /\ waiting'[t] = {} /\ running'[t] = {} /\ sender'[t] = Idle
  BY DEF Exit, DeliveryInv, TesterTypeOK
<1>2. Whole(t)'
  BY <1>1 DEF Whole, IsInjective, OneReplyEach
<1>3. /\ Place(t)'.inbox = {} /\ Place(t)'.reqChan = {}
      /\ Place(t)'.waiting = {} /\ Place(t)'.running = {}
      /\ Place(t)'.respChan = {} /\ Place(t)'.sender = {}
  BY <1>1, RangeEmpty DEF Place, Idle
<1>4. Apart(t)'
  BY <1>3 DEF Apart, PartNames
<1>5. QED
  BY <1>2, <1>3, <1>4, OnceIs DEF InProcess, Unanswered

\* The report is made of a response that is acknowledged already.
LEMMA ReportForgets ==
  ASSUME DeliveryInv, NEW t \in Testers, Once(t), SendReport(t)
  PROVE  Once(t)' /\ InProcess(t)' = InProcess(t) /\ Unanswered(t)' = Unanswered(t)
<1>1. sender'[t].step # "ack" /\ sender[t].step # "ack"
  BY DEF SendReport, Idle, DeliveryInv, TesterTypeOK
<1>2. Place(t)' = Place(t)
  BY <1>1 DEF SendReport, taskVars, Place
<1>3. Whole(t)' /\ Apart(t)'
  BY <1>2, OnceIs DEF Whole, Apart, SendReport, taskVars
<1>4. QED
  BY <1>2, <1>3, OnceIs DEF InProcess, Unanswered

\* What a move changes of the work of an instance.
LEMMA MovedWork ==
  ASSUME NEW t \in Testers, Once(t),
         NEW from \in PartNames \ {"sender"}, NEW to, NEW d,
         Moved(t, from, to, d)
  PROVE  /\ InProcess(t)' = InProcess(t)
         /\ to # "sender" => Unanswered(t)' = Unanswered(t)
         /\ to = "sender" => Unanswered(t)' = Unanswered(t) \ {d}
         /\ d \in Unanswered(t)
<1>1. \A p \in PartNames : p # from => d \notin Place(t)[p]
  BY OnceIs DEF Apart, Moved
<1>2. /\ from \in PartNames /\ to \in PartNames /\ from # to
      /\ d \in Place(t)[from]
      /\ Place(t)'[from] = Place(t)[from] \ {d}
      /\ Place(t)'[to] = Place(t)[to] \cup {d}
      /\ \A p \in PartNames \ {from, to} : Place(t)'[p] = Place(t)[p]
  BY DEF Moved
<1>3. ASSUME NEW x
      PROVE  x \in Unanswered(t) <=>
               \E p \in PartNames \ {"sender"} : x \in Place(t)[p]
  BY DEF Unanswered, PartNames
<1>4. ASSUME NEW x
      PROVE  x \in Unanswered(t)' <=>
               \E p \in PartNames \ {"sender"} : x \in Place(t)'[p]
  BY DEF Unanswered, PartNames
<1>5. ASSUME NEW x, x # d
      PROVE  x \in Unanswered(t)' <=> x \in Unanswered(t)
  <2>1. \A p \in PartNames : x \in Place(t)'[p] <=> x \in Place(t)[p]
    BY <1>2, <1>5
  <2>2. QED
    BY <1>3, <1>4, <2>1
<1>6. d \in Unanswered(t)' <=> to # "sender"
  <2>1. \A p \in PartNames : d \in Place(t)'[p] <=> p = to
    BY <1>1, <1>2
  <2>2. QED
    BY <1>2, <1>4, <2>1
<1>7. to # "sender" => Unanswered(t)' = Unanswered(t)
  <2>1. d \in Unanswered(t)
    BY <1>2, <1>3
  <2>2. QED
    BY <1>5, <1>6, <2>1
<1>8. to = "sender" => Unanswered(t)' = Unanswered(t) \ {d}
  BY <1>5, <1>6
<1>9. d \in Unanswered(t)
  BY <1>2, <1>3
<1>10. InProcess(t)' = InProcess(t)
  <2>1. CASE to = "sender"
    BY <1>2, <1>8, <1>9, <2>1 DEF InProcess, PartNames
  <2>2. CASE to # "sender"
    BY <1>2, <1>7, <2>2 DEF InProcess, PartNames
  <2>3. QED
    BY <2>1, <2>2
<1>11. QED
  BY <1>7, <1>8, <1>9, <1>10

\* A receiver only puts in process what was in its inbox.
LEMMA ReceiveWork ==
  ASSUME DeliveryInv, NEW t \in Testers, Receive(t)
  PROVE  /\ InProcess(t)' \subseteq InProcess(t)
         /\ Unanswered(t)' \subseteq Unanswered(t)
<1> DEFINE h == Head(inbox[t])
<1>1. /\ inbox[t] \in Seq(Delivery) /\ inbox[t] # << >>
      /\ inbox'[t] = Tail(inbox[t])
      /\ reqChan[t] \in Seq(Delivery)
      /\ reqChan' = reqChan \/ reqChan'[t] = Append(reqChan[t], h)
  BY DEF Receive, DeliveryInv, TesterTypeOK
<1>2. Range(inbox[t]) = {h} \cup Range(inbox'[t]) /\ h \in Delivery
  BY <1>1, RangeTail
<1>3. Range(Append(reqChan[t], h)) = Range(reqChan[t]) \cup {h}
  BY <1>1, <1>2, RangeAppend
<1>4. Range(reqChan'[t]) \subseteq Range(reqChan[t]) \cup {h}
  BY <1>1, <1>3
<1>5. QED
  BY <1>2, <1>4, ReceiveProcess DEF Receive, DeliveryInv, Unanswered, Place

\* Only a delivery by the server adds to the work of an instance.
LEMMA WorkStep ==
  ASSUME DeliveryInv, NEW t \in Testers, Once(t), Process(t) \/ Failure(t)
  PROVE  /\ Once(t)'
         /\ ~Deliver(t) => /\ InProcess(t)' \subseteq InProcess(t)
                           /\ Unanswered(t)' \subseteq Unanswered(t)
<1>1. CASE Start(t)
  BY <1>1, SameOnce DEF Start, Parts
<1>2. CASE Deliver(t)
  BY <1>2, DeliverOnce
<1>3. CASE Receive(t)
  BY <1>3, ReceiveOnce, ReceiveWork
<1>4. CASE Spawn(t)
  BY <1>4, SpawnMoves, MovedWork DEF PartNames
<1>5. CASE Task(t)
  <2>1. ASSUME NEW d \in waiting[t], RejectLab(t, d)
        PROVE  Once(t)' /\ \E to : Moved(t, "waiting", to, d)
    BY <2>1, RejectLabMoves
  <2>2. ASSUME NEW d \in waiting[t], StartDocker(t, d)
        PROVE  Once(t)' /\ \E to : Moved(t, "waiting", to, d)
    BY <2>2, StartDockerMoves
  <2>3. ASSUME NEW d \in running[t], DockerDone(t, d)
        PROVE  Once(t)' /\ \E to : Moved(t, "running", to, d)
    BY <2>3, DockerDoneMoves
  <2>4. PICK from \in PartNames \ {"sender"} :
          \E d, to : Once(t)' /\ Moved(t, from, to, d)
    BY <1>5, <2>1, <2>2, <2>3 DEF Task, PartNames
  <2>5. QED
    BY <2>4, MovedWork
<1>6. CASE PublishResponse(t)
  BY <1>6, PublishMoves, MovedWork DEF PartNames
<1>7. CASE AckJob(t)
  BY <1>7, AckForgets
<1>8. CASE SendReport(t)
  BY <1>8, ReportForgets
<1>9. CASE Exit(t)
  BY <1>9, ExitForgets
<1>10. CASE Disconnect(t) \/ CloseConsumer(t)
  BY <1>10, SameOnce DEF Disconnect, CloseConsumer, Parts, taskVars
<1>11. CASE Notice(t)
  BY <1>11, SameOnce DEF Notice, Parts, taskVars
<1>12. QED
  BY <1>1, <1>2, <1>3, <1>4, <1>5, <1>6, <1>7, <1>8, <1>9, <1>10, <1>11
  DEF Process, Failure, SenderFails, Finish, Crash

\* Steps of no instance: a submission, or none.
LEMMA NoInstance ==
  ASSUME UNCHANGED testerVars \/ \E j \in Jobs : Submit(j)
  PROVE  /\ UNCHANGED <<link, unacked, nextTag, sender, results, reports>>
         /\ UNCHANGED <<failures, closures>>
         /\ \A t \in Testers : UNCHANGED Parts(t)
BY DEF Submit, testerVars, brokerVars, processVars, Parts

\* Every step keeps each delivery in one place.
LEMMA OnePlaceStep ==
  ASSUME DeliveryInv, OnePlace, [TesterNext]_testerVars
  PROVE  OnePlace'
<1>1. ASSUME NEW t \in Testers, Process(t) \/ Failure(t), NEW u \in Testers
      PROVE  Once(u)'
  BY <1>1, WorkStep, OthersSame, SameOnce DEF OnePlace, DeliveryInv
<1>2. CASE UNCHANGED testerVars \/ \E j \in Jobs : Submit(j)
  BY <1>2, NoInstance, SameOnce DEF OnePlace
<1>3. QED
  BY <1>1, <1>2 DEF OnePlace, TesterNext

-----------------------------------------------------------------------------
(* What a step does to the queue and to the window of an instance.          *)

\* The server pushes a message of the queue, under a new tag.
Pushed(t, new) ==
  /\ new \in Delivery
  /\ new.tag = nextTag[t]
  /\ new.job \in queued
  /\ queued' = queued \ {new.job}
  /\ unacked'[t] = unacked[t] \cup {new}
  /\ InProcess(t)' = InProcess(t) \cup {new}
  /\ Unanswered(t)' = Unanswered(t) \cup {new}

\* A delivery adds one tag, to the window and to the inbox.
LEMMA DeliverPushes ==
  ASSUME TesterTypeOK, NEW t \in Testers, Deliver(t)
  PROVE  \E new : Pushed(t, new)
<1>1. PICK j \in queued :
        /\ BasicDeliver(t, j)
        /\ inbox' = [inbox EXCEPT ![t] = Append(@, NewDelivery(t, j))]
  BY DEF Deliver
<1> DEFINE new == NewDelivery(t, j)
<1>2. new \in Delivery /\ new.tag = nextTag[t] /\ new.job = j
  BY NewDeliveryType DEF NewDelivery
<1>3. Range(inbox'[t]) = Range(inbox[t]) \cup {new}
  BY <1>1, <1>2, RangeAppend DEF TesterTypeOK
<1>4. Unanswered(t)' = Unanswered(t) \cup {new}
  BY <1>3 DEF Deliver, Unanswered, Place
<1>5. InProcess(t)' = InProcess(t) \cup {new}
  BY <1>4 DEF Deliver, InProcess, Place
<1>6. queued' = queued \ {j} /\ unacked'[t] = unacked[t] \cup {new}
  BY <1>1 DEF BasicDeliver, TesterTypeOK, BrokerTypeOK
<1>7. Pushed(t, new)
  BY <1>2, <1>4, <1>5, <1>6 DEF Pushed
<1>8. QED
  BY <1>7

\* The consuming channel is gone: what it had not acknowledged is back.
Loses(t) ==
  /\ link'[t] # "open"
  /\ queued' = queued \cup JobsOf(unacked[t])
  /\ unacked'[t] = {}

\* The steps that change neither the queue, nor the window, nor the link.
Quiet(t) == Receive(t) \/ HandOver(t) \/ Notice(t)

\* A step of an instance, as far as the queue and the window are concerned.
LEMMA WindowCases ==
  ASSUME TesterTypeOK, NEW t \in Testers, Process(t) \/ Failure(t)
  PROVE  /\ UNCHANGED submitted
         /\ ~Deliver(t) /\ ~AckJob(t) => Loses(t) \/ UNCHANGED <<queued, unacked>>
         /\ Start(t) \/ Deliver(t) \/ AckJob(t) \/ Loses(t)
              \/ (Quiet(t) /\ UNCHANGED <<link, queued, unacked>>)
<1>1. CASE Start(t)
  BY <1>1 DEF Start
<1>2. CASE Deliver(t)
  BY <1>2 DEF Deliver, BasicDeliver
<1>3. CASE AckJob(t)
  BY <1>3 DEF AckJob
<1>4. CASE Quiet(t)
  BY <1>4
  DEF Quiet, Receive, HandOver, Spawn, Task, RejectLab, StartDocker,
      DockerDone, PublishResponse, SendReport, Notice, brokerVars, jobQueue
<1>5. CASE SenderFails(t) \/ Finish(t) \/ Failure(t)
  <2>1. Requeue(t) /\ link'[t] # "open"
    BY <1>5
    DEF SenderFails, Finish, Failure, Crash, Disconnect, CloseConsumer, Exit,
        TesterTypeOK
  <2>2. Loses(t) /\ UNCHANGED submitted
    BY <2>1 DEF Loses, Requeue, TesterTypeOK, BrokerTypeOK
  <2>3. QED
    BY <2>2
<1>6. QED
  BY <1>1, <1>2, <1>3, <1>4, <1>5 DEF Process, Quiet, HandOver

\* What amqp_sender acknowledges is a valid delivery, and that one only.
LEMMA AckWithdraws ==
  ASSUME DeliveryInv, WorkIsUnacked, NEW t \in Testers, AckJob(t),
         link[t] = "open", NEW d0, d0 = sender[t].reply.d
  PROVE  /\ d0 \in unacked[t]
         /\ unacked'[t] = unacked[t] \ {d0}
         /\ UNCHANGED <<submitted, queued>>
<1>1. d0 \in InProcess(t)
  BY DEF AckJob, InProcess, Place
<1>2. d0 \in unacked[t]
  BY <1>1 DEF WorkIsUnacked, AckJob
<1>3. unacked'[t] = {e \in unacked[t] : e.tag # d0.tag}
  BY DEF AckJob, BasicAck, DeliveryInv, TesterTypeOK, BrokerTypeOK
<1>4. \A e \in unacked[t] : e.tag = d0.tag => e = d0
  BY <1>1 DEF DeliveryInv, TagsTracked, Tracked
<1>5. QED
  BY <1>2, <1>3, <1>4 DEF AckJob

-----------------------------------------------------------------------------
(* Work is unacknowledged, and within the prefetch window.                 *)

\* Every step keeps what is in process among what is unacknowledged.
LEMMA WorkIsUnackedStep ==
  ASSUME DeliveryInv, OnePlace, WorkIsUnacked, [TesterNext]_testerVars
  PROVE  WorkIsUnacked'
<1>1. ASSUME NEW t \in Testers, Process(t) \/ Failure(t), link'[t] = "open"
      PROVE  InProcess(t)' \subseteq unacked'[t]
  <2> USE DEF DeliveryInv
  <2>1. Once(t)
    BY DEF OnePlace
  <2>2. CASE Deliver(t)
    <3>1. PICK new : Pushed(t, new)
      BY <2>2, DeliverPushes
    <3>2. QED
      BY <2>2, <3>1 DEF Pushed, WorkIsUnacked, Deliver
  <2>3. CASE AckJob(t)
    <3>1. InProcess(t)' = InProcess(t) \ {sender[t].reply.d}
      BY <2>1, <2>3, AckForgets
    <3>2. link[t] = "open"
      BY <1>1, <2>3 DEF AckJob
    <3>3. unacked'[t] = unacked[t] \ {sender[t].reply.d}
      BY <2>3, <3>2, AckWithdraws
    <3>4. QED
      BY <3>1, <3>2, <3>3 DEF WorkIsUnacked
  <2>4. CASE Start(t)
    BY <1>1, <2>1, <2>4, SameOnce DEF DownIsEmpty, Start, Parts
  <2>5. CASE Quiet(t) /\ UNCHANGED <<link, queued, unacked>>
    <3>1. InProcess(t)' \subseteq InProcess(t)
      <4>1. CASE Notice(t)
        BY <4>1, SameOnce DEF Notice, Parts, taskVars
      <4>2. QED
        BY <2>5, <4>1, ReceiveProcess, HandOverProcess DEF Quiet
    <3>2. QED
      BY <1>1, <2>5, <3>1 DEF WorkIsUnacked
  <2>6. QED
    BY <1>1, <2>2, <2>3, <2>4, <2>5, WindowCases DEF Loses
<1>2. ASSUME NEW t \in Testers, Process(t) \/ Failure(t),
             NEW u \in Testers, link'[u] = "open"
      PROVE  InProcess(u)' \subseteq unacked'[u]
  BY <1>1, <1>2, OthersSame DEF WorkIsUnacked, DeliveryInv
<1>3. CASE UNCHANGED testerVars \/ \E j \in Jobs : Submit(j)
  BY <1>3, NoInstance, SameOnce DEF WorkIsUnacked
<1>4. QED
  BY <1>2, <1>3 DEF WorkIsUnacked, TesterNext

\* Every step keeps the window within the prefetch count.
LEMMA WindowHoldsStep ==
  ASSUME DeliveryInv, OnePlace, WorkIsUnacked, WindowHolds,
         [TesterNext]_testerVars
  PROVE  WindowHolds'
<1> DEFINE Holds(window, work) ==
      /\ IsFiniteSet(window) /\ IsFiniteSet(work)
      /\ PrefetchCount > 0 => Cardinality(work) <= PrefetchCount
<1> USE DEF DeliveryInv
<1>1. PrefetchCount \in Nat
  BY TesterAssumption DEF PrefetchCount
<1>2. ASSUME NEW t \in Testers
      PROVE  Holds(unacked[t], InProcess(t))
  BY DEF WindowHolds
<1>3. ASSUME NEW t \in Testers, Process(t) \/ Failure(t)
      PROVE  Holds(unacked'[t], InProcess(t)')
  <2>1. Once(t)
    BY DEF OnePlace
  <2>2. CASE Deliver(t)
    <3>1. PICK new : Pushed(t, new)
      BY <2>2, DeliverPushes
    <3>2. link[t] = "open" /\ link'[t] = "open" /\ HasCredit(t, PrefetchCount)
      BY <2>2 DEF Deliver
    <3>3. InProcess(t) \subseteq unacked[t]
      BY <3>2 DEF WorkIsUnacked
    <3>4. /\ Cardinality(InProcess(t)) <= Cardinality(unacked[t])
          /\ Cardinality(unacked[t]) \in Nat
          /\ Cardinality(InProcess(t)) \in Nat
      BY <1>2, <3>3, FS_Subset, FS_CardinalityType
    <3>5. /\ IsFiniteSet(unacked'[t]) /\ IsFiniteSet(InProcess(t)')
          /\ Cardinality(InProcess(t)') <= Cardinality(InProcess(t)) + 1
      <4>1. IsFiniteSet(unacked[t] \cup {new})
        BY <1>2, OneMore
      <4>2. /\ IsFiniteSet(InProcess(t) \cup {new})
            /\ Cardinality(InProcess(t) \cup {new}) <= Cardinality(InProcess(t)) + 1
        BY <1>2, OneMore
      <4>3. QED
        BY <3>1, <4>1, <4>2 DEF Pushed
    <3>6. Cardinality(InProcess(t)') \in Nat
      BY <3>5, FS_CardinalityType
    <3>7. PrefetchCount > 0 => Cardinality(InProcess(t)') <= PrefetchCount
      BY <1>1, <3>2, <3>4, <3>5, <3>6 DEF HasCredit
    <3>8. QED
      BY <3>2, <3>5, <3>7
  <2>3. CASE ~Deliver(t)
    <3>1. InProcess(t)' \subseteq InProcess(t)
      BY <1>3, <2>1, <2>3, WorkStep
    <3>2. /\ IsFiniteSet(InProcess(t)')
          /\ Cardinality(InProcess(t)') <= Cardinality(InProcess(t))
          /\ Cardinality(InProcess(t)') \in Nat
          /\ Cardinality(InProcess(t)) \in Nat
      BY <1>2, <3>1, FS_Subset, FS_CardinalityType
    <3>3. PrefetchCount > 0 => Cardinality(InProcess(t)') <= PrefetchCount
      BY <1>1, <1>2, <3>2
    <3>4. CASE Start(t)
      BY <1>2, <3>2, <3>3, <3>4 DEF Start, TesterTypeOK
    <3>5. CASE AckJob(t)
      <4>1. unacked'[t] \in SUBSET unacked[t]
        BY <3>5 DEF AckJob, BasicAck, TesterTypeOK, BrokerTypeOK
      <4>2. IsFiniteSet(unacked'[t])
        BY <1>2, <4>1, FS_Subset
      <4>3. QED
        BY <3>2, <3>3, <3>5, <4>2 DEF AckJob
    <3>6. CASE Loses(t)
      BY <3>2, <3>3, <3>6, FS_EmptySet DEF Loses
    <3>7. CASE UNCHANGED <<link, queued, unacked>>
      BY <1>2, <3>2, <3>3, <3>7
    <3>8. QED
      BY <1>3, <2>3, <3>4, <3>5, <3>6, <3>7, WindowCases
  <2>4. QED
    BY <2>2, <2>3
<1>4. ASSUME NEW t \in Testers, Process(t) \/ Failure(t), NEW u \in Testers
      PROVE  Holds(unacked'[u], InProcess(u)')
  BY <1>2, <1>3, <1>4, OthersSame
<1>5. CASE UNCHANGED testerVars \/ \E j \in Jobs : Submit(j)
  BY <1>2, <1>5, NoInstance, SameOnce DEF WindowHolds
<1>6. QED
  BY <1>4, <1>5 DEF WindowHolds, TesterNext

-----------------------------------------------------------------------------
(* A job is one message.                                                   *)

\* A message is in the queue or in one window.
JobsOnceStepOf(t) ==
  \A d \in unacked'[t] :
    /\ d.job \in submitted' \ queued'
    /\ \A u \in Testers : \A e \in unacked'[u] : e.job = d.job => u = t /\ e = d

\* Every step keeps a job queued or unacknowledged, once.
LEMMA JobsOnceStep ==
  ASSUME DeliveryInv, OnePlace, JobsOnce, [TesterNext]_testerVars
  PROVE  JobsOnce'
<1> USE DEF DeliveryInv
<1>1. ASSUME NEW t \in Testers, Process(t) \/ Failure(t)
      PROVE  queued' \subseteq submitted' /\ \A u \in Testers : JobsOnceStepOf(u)
  <2>1. /\ \A u \in Testers \ {t} : unacked'[u] = unacked[u]
        /\ submitted' = submitted
    BY <1>1, OthersSame, WindowCases
  <2>2. CASE Deliver(t)
    <3>1. PICK new : Pushed(t, new)
      BY <2>2, DeliverPushes
    <3>2. \A u \in Testers : \A e \in unacked[u] : e.job # new.job
      BY <3>1 DEF Pushed, JobsOnce
    <3>3. QED
      BY <2>1, <3>1, <3>2 DEF Pushed, JobsOnce, JobsOnceStepOf
  <2>3. CASE AckJob(t)
    <3>1. /\ unacked'[t] \subseteq unacked[t]
          /\ queued' = queued
      BY <2>3 DEF AckJob, BasicAck, TesterTypeOK, BrokerTypeOK
    <3>2. QED
      BY <2>1, <3>1 DEF JobsOnce, JobsOnceStepOf
  <2>4. CASE Loses(t)
    BY <2>1, <2>4 DEF Loses, JobsOf, JobsOnce, JobsOnceStepOf
  <2>5. CASE UNCHANGED <<queued, unacked>>
    BY <2>1, <2>5 DEF JobsOnce, JobsOnceStepOf
  <2>6. QED
    BY <1>1, <2>2, <2>3, <2>4, <2>5, WindowCases
<1>2. ASSUME NEW t \in Testers, Process(t) \/ Failure(t)
      PROVE  \A u \in Testers : \A d \in InProcess(u)' : d.job \in submitted'
  <2>1. submitted' = submitted /\ Once(t)
    BY <1>2, WindowCases DEF OnePlace
  <2>2. \A d \in InProcess(t)' : d.job \in submitted
    <3>1. CASE Deliver(t)
      BY <3>1, DeliverPushes DEF Pushed, JobsOnce
    <3>2. CASE ~Deliver(t)
      BY <1>2, <2>1, <3>2, WorkStep DEF JobsOnce
    <3>3. QED
      BY <3>1, <3>2
  <2>3. QED
    BY <1>2, <2>1, <2>2, OthersSame DEF JobsOnce
<1>3. ASSUME UNCHANGED testerVars \/ \E j \in Jobs : Submit(j)
      PROVE  JobsOnce'
  <2>1. \/ UNCHANGED <<queued, submitted>>
        \/ \E j \in Jobs : /\ j \notin submitted
                           /\ submitted' = submitted \cup {j}
                           /\ queued' = queued \cup {j}
    BY <1>3 DEF testerVars, brokerVars, Submit, PublishJob
  <2>2. \A t \in Testers : unacked'[t] = unacked[t] /\ InProcess(t)' = InProcess(t)
    BY <1>3, NoInstance, SameOnce
  <2>3. QED
    BY <2>1, <2>2 DEF JobsOnce
<1>4. QED
  BY <1>1, <1>2, <1>3 DEF JobsOnce, JobsOnceStepOf, TesterNext

-----------------------------------------------------------------------------
(* Acknowledged once, then reported once.                                  *)

\* What is settled is not delivered again.
LEMMA SettledStays ==
  ASSUME DeliveryInv, JobsOnce, [TesterNext]_testerVars, NEW j \in Settled
  PROVE  j \in Settled'
<1> USE DEF DeliveryInv
<1>1. j \in submitted /\ j \notin queued /\ ~Held(j)
  BY DEF Settled
<1>2. ASSUME NEW t \in Testers, Process(t) \/ Failure(t)
      PROVE  j \in submitted' /\ j \notin queued' /\ ~Held(j)'
  <2>1. /\ \A u \in Testers \ {t} : unacked'[u] = unacked[u]
        /\ submitted' = submitted
    BY <1>2, OthersSame, WindowCases
  <2>2. CASE Deliver(t)
    <3>1. PICK new : Pushed(t, new)
      BY <2>2, DeliverPushes
    <3>2. QED
      BY <1>1, <2>1, <3>1 DEF Pushed, Held
  <2>3. CASE AckJob(t)
    <3>1. /\ unacked'[t] \subseteq unacked[t]
          /\ queued' = queued
      BY <2>3 DEF AckJob, BasicAck, TesterTypeOK, BrokerTypeOK
    <3>2. QED
      BY <1>1, <2>1, <3>1 DEF Held
  <2>4. CASE Loses(t)
    BY <1>1, <2>1, <2>4 DEF Loses, JobsOf, Held
  <2>5. CASE UNCHANGED <<queued, unacked>>
    BY <1>1, <2>1, <2>5 DEF Held
  <2>6. QED
    BY <1>2, <2>2, <2>3, <2>4, <2>5, WindowCases
<1>3. CASE UNCHANGED testerVars \/ \E k \in Jobs : Submit(k)
  <2>1. unacked' = unacked
    BY <1>3, NoInstance
  <2>2. j \in submitted' /\ j \notin queued'
    BY <1>1, <1>3 DEF testerVars, brokerVars, Submit, PublishJob
  <2>3. QED
    BY <1>1, <2>1, <2>2 DEF Held, Settled
<1>4. QED
  BY <1>2, <1>3 DEF Settled, TesterNext

\* The acknowledgement withdraws the job, which no other delivery carries.
LEMMA AckSettles ==
  ASSUME DeliveryInv, WorkIsUnacked, JobsOnce, NEW t \in Testers, AckJob(t),
         link[t] = "open", NEW d0, d0 = sender[t].reply.d
  PROVE  /\ d0.job \in submitted \ Settled
         /\ Settled' = Settled \cup {d0.job}
<1> USE DEF DeliveryInv
<1>1. /\ d0 \in unacked[t]
      /\ unacked'[t] = unacked[t] \ {d0}
      /\ UNCHANGED <<submitted, queued>>
  BY AckWithdraws
<1>2. \A u \in Testers \ {t} : unacked'[u] = unacked[u]
  BY OthersSame DEF Process
<1>3. \A u \in Testers : \A e \in unacked[u] : e.job = d0.job => u = t /\ e = d0
  BY <1>1 DEF JobsOnce
<1>4. Held(d0.job) /\ ~Held(d0.job)'
  BY <1>1, <1>2, <1>3 DEF Held
<1>5. ASSUME NEW k, k # d0.job
      PROVE  Held(k)' <=> Held(k)
  BY <1>1, <1>2, <1>5 DEF Held
<1>6. d0.job \in submitted /\ d0.job \notin queued
  BY <1>1 DEF JobsOnce
<1>7. QED
  BY <1>1, <1>4, <1>5, <1>6 DEF Settled

\* No step takes an answer back.
LEMMA ResultsGrow ==
  ASSUME TesterTypeOK, [TesterNext]_testerVars
  PROVE  Range(results) \subseteq Range(results')
<1>1. results' = results \/ \E r \in Response : results' = Append(results, r)
  BY ResultsLog
<1>2. results \in Seq(Response)
  BY DEF TesterTypeOK, BrokerTypeOK
<1>3. ASSUME NEW r \in Response, results' = Append(results, r)
      PROVE  Range(results) \subseteq Range(results')
  BY <1>2, <1>3, RangeAppend
<1>4. QED
  BY <1>1, <1>3

\* What amqp_sender does in a step of its instance, and to the reports.
LEMMA SenderCases ==
  ASSUME TesterTypeOK, NEW t \in Testers, Process(t) \/ Failure(t)
  PROVE  \/ /\ PublishResponse(t) /\ UNCHANGED reports
            /\ sender'[t] = [step |-> "ack", reply |-> Head(respChan[t])]
         \/ /\ AckJob(t) /\ UNCHANGED reports
            /\ sender'[t] = AfterAck(sender[t].reply)
         \/ SendReport(t) /\ sender'[t] = Idle
         \/ sender'[t] \in {Idle, sender[t]} /\ UNCHANGED reports
<1>1. CASE PublishResponse(t)
  BY <1>1 DEF PublishResponse, TesterTypeOK
<1>2. CASE AckJob(t)
  BY <1>2 DEF AckJob, TesterTypeOK
<1>3. CASE SendReport(t)
  BY <1>3 DEF SendReport, TesterTypeOK
<1>4. CASE Exit(t)
  BY <1>4 DEF Exit, TesterTypeOK
<1>5. QED
  BY <1>1, <1>2, <1>3, <1>4
  DEF Process, Failure, Start, Deliver, Receive, Spawn, Task, RejectLab,
      StartDocker, DockerDone, SenderFails, Finish, Notice, Crash, Disconnect,
      CloseConsumer, brokerVars

\* The responses change by a publication that arrives, and in no other way.
LEMMA ResultsCases ==
  ASSUME NEW t \in Testers, Process(t) \/ Failure(t)
  PROVE  IF PublishResponse(t) /\ Arrives(t)
           THEN results' = Append(results, Emitted(Head(respChan[t])))
           ELSE results' = results
<1>1. CASE PublishResponse(t)
  BY <1>1 DEF PublishResponse, PublishResult
<1>2. CASE ~PublishResponse(t)
  BY <1>2
  DEF Process, Failure, Start, Deliver, Receive, Spawn, Task, RejectLab,
      StartDocker, DockerDone, AckJob, SendReport, SenderFails, Finish,
      Notice, Crash, Disconnect, CloseConsumer, Exit, brokerVars
<1>3. QED
  BY <1>1, <1>2

\* What amqp_sender holds is published, unless the connection is lost.
LEMMA PublishedStep ==
  ASSUME DeliveryInv, SenderInOrder, [TesterNext]_testerVars,
         NEW t \in Testers, sender'[t].step \in {"ack", "report"}, Arrives(t)'
  PROVE  Emitted(sender'[t].reply) \in Range(results')
<1> USE DEF DeliveryInv
<1>0. Arrives(t)
  BY LossIsFinal DEF Idle
<1>1. CASE sender'[t] = sender[t]
  BY <1>0, <1>1, ResultsGrow DEF SenderInOrder
<1>2. CASE PublishResponse(t)
  <2> DEFINE r == Head(respChan[t])
  <2>3. Emitted(r) \in Range(results')
    BY <1>0, <1>2, PublicationIs
  <2>4. sender'[t].reply = r
    BY <1>2, PublicationIs
  <2>5. QED
    BY <2>3, <2>4
<1>3. CASE AckJob(t)
  <2>1. sender'[t].reply = sender[t].reply
    BY <1>3, SenderCases DEF AckJob, AfterAck, Idle, TesterTypeOK
  <2>2. sender[t].step = "ack"
    BY <1>3 DEF AckJob
  <2>3. QED
    BY <1>0, <2>1, <2>2, ResultsGrow DEF SenderInOrder
<1>4. ASSUME NEW u \in Testers, Process(u) \/ Failure(u), u # t
      PROVE  sender'[t] = sender[t]
  BY <1>4, OthersSame
<1>5. ASSUME Process(t) \/ Failure(t)
      PROVE  PublishResponse(t) \/ AckJob(t) \/ sender'[t] = sender[t]
  <2>1. sender'[t] # Idle
    BY DEF Idle
  <2>2. QED
    BY <1>5, <2>1, SenderCases
<1>6. QED
  BY <1>1, <1>2, <1>3, <1>4, <1>5, NoInstance DEF TesterNext

\* What amqp_sender is about to report is nowhere else in its instance, nor will
\* it be: its tag is not given again.
Withdrawn(t) ==
  /\ link[t] = "down" => sender[t] = Idle
  /\ sender[t].step = "report" =>
       /\ sender[t].reply.d.tag < nextTag[t]
       /\ sender[t].reply.d \notin unacked[t] \cup InProcess(t)

\* A step of instance t leaves what it is about to report withdrawn.
LEMMA WithdrawnStep ==
  ASSUME DeliveryInv, OnePlace, WorkIsUnacked, NEW t \in Testers, Withdrawn(t),
         Process(t) \/ Failure(t)
  PROVE  Withdrawn(t)'
<1> USE DEF DeliveryInv
<1>1. Idle.step = "idle"
  BY DEF Idle
<1>2. CASE sender'[t] = Idle
  BY <1>1, <1>2 DEF Withdrawn
<1>3. CASE PublishResponse(t)
  <2>1. link'[t] # "down"
    BY <1>3 DEF PublishResponse, Writes, ViewLags
  <2>2. sender'[t].step = "ack"
    BY <1>3, PublicationIs
  <2>3. QED
    BY <2>1, <2>2 DEF Withdrawn
<1>4. CASE AckJob(t)
  <2> DEFINE d0 == sender[t].reply.d
  <2>1. link'[t] # "down" /\ nextTag' = nextTag
    BY <1>4 DEF AckJob, ViewLags
  <2>2. sender'[t] = Idle \/ sender'[t].reply.d = d0
    BY <1>4, SenderCases DEF AckJob, AfterAck
  <2>3. Once(t) /\ d0 \in InProcess(t)
    BY <1>4 DEF OnePlace, AckJob, InProcess, Place
  <2>4. d0.tag < nextTag'[t]
    BY <2>1, <2>3 DEF TagsTracked, Tracked
  <2>5. d0 \notin InProcess(t)'
    BY <1>4, <2>3, AckForgets
  <2>6. d0 \notin unacked'[t]
    <3>1. CASE link[t] = "open"
      BY <1>4, <3>1, AckWithdraws
    <3>2. CASE link[t] # "open"
      BY <1>4, <3>2 DEF AckJob, DownIsEmpty
    <3>3. QED
      BY <3>1, <3>2
  <2>7. QED
    BY <1>2, <2>1, <2>2, <2>4, <2>5, <2>6 DEF Withdrawn
<1>5. CASE Deliver(t)
  <2>1. PICK new : Pushed(t, new)
    BY <1>5, DeliverPushes
  <2>2. UNCHANGED sender /\ link'[t] = "open" /\ nextTag'[t] = nextTag[t] + 1
    BY <1>5 DEF Deliver, BasicDeliver, TesterTypeOK, BrokerTypeOK
  <2>3. ASSUME sender[t].step = "report"
        PROVE  /\ sender[t].reply.d.tag < nextTag'[t]
               /\ sender[t].reply.d # new
    <3>1. sender[t].reply.d \in Delivery
      BY <2>3, ReplyTypes DEF Reply
    <3>2. sender[t].reply.d.tag \in Nat /\ nextTag[t] \in Nat
      BY <3>1 DEF Delivery, TesterTypeOK, BrokerTypeOK
    <3>3. sender[t].reply.d.tag < nextTag[t] /\ new.tag = nextTag[t]
      BY <2>1, <2>3 DEF Withdrawn, Pushed
    <3>4. QED
      BY <2>2, <3>2, <3>3
  <2>4. QED
    BY <2>1, <2>2, <2>3 DEF Withdrawn, Pushed
<1>6. CASE Start(t)
  BY <1>1, <1>6 DEF Start, Withdrawn
<1>7. CASE /\ sender'[t] = sender[t] /\ sender'[t] # Idle
           /\ ~Deliver(t) /\ ~AckJob(t) /\ ~Start(t)
  <2>1. Once(t)
    BY DEF OnePlace
  <2>2. InProcess(t)' \subseteq InProcess(t)
    BY <1>7, <2>1, WorkStep
  <2>3. unacked'[t] \subseteq unacked[t]
    BY <1>7, WindowCases DEF Loses
  <2>4. nextTag' = nextTag
    BY <1>7
    DEF Process, Failure, Receive, Spawn, Task, RejectLab, StartDocker,
        DockerDone, PublishResponse, SendReport, SenderFails, Finish, Notice,
        Crash, Disconnect, CloseConsumer, Exit, Requeue, brokerVars, jobQueue
  <2>5. link'[t] = "down" => link[t] = "down" \/ sender'[t] = Idle
    BY <1>7
    DEF Process, Failure, Receive, Spawn, Task, RejectLab, StartDocker,
        DockerDone, PublishResponse, SendReport, SenderFails, Finish, Notice,
        Crash, Disconnect, CloseConsumer, Exit, TesterTypeOK
  <2>6. QED
    BY <1>7, <2>2, <2>3, <2>4, <2>5 DEF Withdrawn
<1>8. QED
  BY <1>2, <1>3, <1>4, <1>5, <1>6, <1>7, SenderCases

-----------------------------------------------------------------------------
(* One more answer for each failure, at most.                              *)

\* The answer that a message of the queue, or one not yet sent, will get.
Pending(j) == IF j \in queued \/ j \notin submitted THEN 1 ELSE 0

\* AnswersCounted, with the answer to come of a queued message named.
LEMMA CountIs ==
  AnswersCounted <=>
    \A j \in Jobs :
      /\ IsFiniteSet(ToAnswer(j))
      /\ Cardinality(AnswersTo(j)) + Cardinality(ToAnswer(j)) + Pending(j)
           <= 1 + failures
BY DEF AnswersCounted, Pending

\* What may still be answered of a job: the deliveries of it that no sender has
\* published.
LEMMA ToAnswerIs ==
  ASSUME NEW j
  PROVE  /\ \A x : x \in ToAnswer(j) <=>
              \E t \in Testers : \E d \in Unanswered(t) : d.job = j /\ x = <<t, d>>
         /\ \A x : x \in ToAnswer(j)' <=>
              \E t \in Testers : \E d \in Unanswered(t)' : d.job = j /\ x = <<t, d>>
BY DEF ToAnswer

\* The answers are finitely many, and each response adds one.
LEMMA AnswersFinite ==
  ASSUME TesterTypeOK, NEW j
  PROVE  IsFiniteSet(AnswersTo(j)) /\ Cardinality(AnswersTo(j)) \in Nat
<1>1. DOMAIN results = 1 .. Len(results) /\ Len(results) \in Nat
  BY DEF TesterTypeOK, BrokerTypeOK
<1>2. IsFiniteSet(1 .. Len(results))
  BY <1>1, FS_Interval
<1>3. AnswersTo(j) \in SUBSET (1 .. Len(results))
  BY <1>1 DEF AnswersTo
<1>4. QED
  BY <1>2, <1>3, FS_Subset, FS_CardinalityType

\* A publication is one more answer to its job, and to no other.
LEMMA OneMoreAnswer ==
  ASSUME TesterTypeOK, NEW r \in Response, results' = Append(results, r)
  PROVE  /\ AnswersTo(r.job)' = AnswersTo(r.job) \cup {Len(results) + 1}
         /\ \A j : j # r.job => AnswersTo(j)' = AnswersTo(j)
<1>1. results \in Seq(Response)
  BY DEF TesterTypeOK, BrokerTypeOK
<1>2. /\ DOMAIN results = 1 .. Len(results) /\ Len(results) \in Nat
      /\ DOMAIN results' = 1 .. (Len(results) + 1)
      /\ \A i \in DOMAIN results : results'[i] = results[i]
      /\ results'[Len(results) + 1] = r
  BY <1>1
<1>3. QED
  BY <1>2 DEF AnswersTo

\* A job whose count does not grow.
LEMMA CountOf ==
  ASSUME TesterTypeOK, TesterTypeOK', AnswersCounted, NEW j \in Jobs,
         AnswersTo(j)' = AnswersTo(j),
         ToAnswer(j)' \subseteq ToAnswer(j),
         \/ Pending(j)' <= Pending(j) /\ failures' = failures
         \/ failures' = failures + 1
  PROVE  /\ IsFiniteSet(ToAnswer(j)')
         /\ Cardinality(AnswersTo(j)') + Cardinality(ToAnswer(j)') + Pending(j)'
              <= 1 + failures'
<1>1. /\ IsFiniteSet(ToAnswer(j))
      /\ Cardinality(AnswersTo(j)) + Cardinality(ToAnswer(j)) + Pending(j)
           <= 1 + failures
  BY CountIs
<1>2. /\ IsFiniteSet(ToAnswer(j)')
      /\ Cardinality(ToAnswer(j)') <= Cardinality(ToAnswer(j))
      /\ Cardinality(ToAnswer(j)) \in Nat /\ Cardinality(ToAnswer(j)') \in Nat
  BY <1>1, FS_Subset, FS_CardinalityType
<1>3. Pending(j) \in 0 .. 1 /\ Pending(j)' \in 0 .. 1
  BY DEF Pending
<1>4. failures \in Nat /\ failures' \in Nat
  BY DEF TesterTypeOK
<1>5. Cardinality(AnswersTo(j)) \in Nat
  BY AnswersFinite
<1>6. QED
  BY <1>1, <1>2, <1>3, <1>4, <1>5

\* What is left to answer, when nothing is delivered.
LEMMA NothingNew ==
  ASSUME DeliveryInv, OnePlace, NEW t \in Testers, Process(t) \/ Failure(t),
         ~Deliver(t), NEW j
  PROVE  ToAnswer(j)' \subseteq ToAnswer(j)
<1>1. \A u \in Testers : Unanswered(u)' \subseteq Unanswered(u)
  BY OthersSame, SameOnce, WorkStep DEF DeliveryInv, OnePlace
<1>2. QED
  BY <1>1, ToAnswerIs

\* Every step keeps the answers of a job within one and its failures.
LEMMA AnswersCountedStep ==
  ASSUME DeliveryInv, OnePlace, WindowHolds, JobsOnce, AnswersCounted,
         [TesterNext]_testerVars
  PROVE  AnswersCounted'
<1> DEFINE Counted(j) ==
      /\ IsFiniteSet(ToAnswer(j))
      /\ Cardinality(AnswersTo(j)) + Cardinality(ToAnswer(j)) + Pending(j)
           <= 1 + failures
<1> USE DEF DeliveryInv
<1>1. TesterTypeOK'
  BY TypeStep
<1>2. \A j \in Jobs : Counted(j)
  BY CountIs
<1>3. SUFFICES ASSUME NEW j \in Jobs PROVE Counted(j)'
  BY DEF AnswersCounted, Pending
<1>4. CASE UNCHANGED testerVars \/ \E k \in Jobs : Submit(k)
  <2>1. /\ AnswersTo(j)' = AnswersTo(j)
        /\ failures' = failures
    BY <1>4, NoInstance DEF AnswersTo
  <2>2. \A u \in Testers : Unanswered(u)' = Unanswered(u)
    BY <1>4, NoInstance, SameOnce
  <2>3. ToAnswer(j)' \subseteq ToAnswer(j)
    BY <2>2, ToAnswerIs
  <2>4. Pending(j)' <= Pending(j)
    BY <1>4 DEF Pending, testerVars, brokerVars, Submit, PublishJob
  <2>5. QED
    BY <1>1, <2>1, <2>3, <2>4, CountOf
<1>5. ASSUME NEW t \in Testers, Deliver(t)
      PROVE  Counted(j)'
  <2>1. PICK new : Pushed(t, new)
    BY <1>5, DeliverPushes
  <2>2. /\ \A u \in Testers \ {t} : Unanswered(u)' = Unanswered(u)
        /\ submitted' = submitted
    BY <1>5, OthersSame, SameOnce, WindowCases DEF Process
  <2>3. AnswersTo(j)' = AnswersTo(j) /\ failures' = failures
    BY <1>5 DEF Deliver, AnswersTo
  <2>4. CASE j = new.job
    <3>1. ToAnswer(j)' = ToAnswer(j) \cup {<<t, new>>}
      <4>1. \A x : x \in ToAnswer(j)' <=> x \in ToAnswer(j) \/ x = <<t, new>>
        BY <2>1, <2>2, <2>4, ToAnswerIs DEF Pushed
      <4>2. QED
        BY <4>1
    <3>2. Pending(j) = 1 /\ Pending(j)' = 0
      BY <2>1, <2>2, <2>4 DEF Pending, Pushed, JobsOnce
    <3>3. IsFiniteSet(ToAnswer(j))
      BY <1>2
    <3>4. /\ IsFiniteSet(ToAnswer(j)')
          /\ Cardinality(ToAnswer(j)) \in Nat /\ Cardinality(ToAnswer(j)') \in Nat
          /\ Cardinality(ToAnswer(j)') <= Cardinality(ToAnswer(j)) + 1
      BY <3>1, <3>3, OneMore
    <3>5. Cardinality(AnswersTo(j)) \in Nat /\ failures \in Nat
      BY AnswersFinite DEF TesterTypeOK
    <3>6. QED
      BY <1>2, <2>3, <3>2, <3>4, <3>5
  <2>5. CASE j # new.job
    <3>1. ToAnswer(j)' \subseteq ToAnswer(j)
      BY <2>1, <2>2, <2>5, ToAnswerIs DEF Pushed
    <3>2. Pending(j)' <= Pending(j)
      BY <2>1, <2>2, <2>5 DEF Pending, Pushed
    <3>3. QED
      BY <1>1, <2>3, <3>1, <3>2, CountOf
  <2>6. QED
    BY <2>4, <2>5
<1>6. ASSUME NEW t \in Testers, PublishResponse(t), Arrives(t)
      PROVE  Counted(j)'
  <2> DEFINE r == Head(respChan[t])
  <2>1. /\ r \in Reply
        /\ Unanswered(t)' = Unanswered(t) \ {r.d}
        /\ r.d \in Unanswered(t)
    BY <1>6, PublishMoves, MovedWork DEF OnePlace, PartNames
  <2>2. /\ Emitted(r) \in Response
        /\ Emitted(r).job = r.d.job
        /\ results' = Append(results, Emitted(r))
    BY <1>6, <2>1
    DEF Reply, Emitted, Response, Delivery, PublishResponse, PublishResult
  <2>3. /\ \A u \in Testers \ {t} : Unanswered(u)' = Unanswered(u)
        /\ Pending(j)' = Pending(j)
        /\ failures' = failures
    BY <1>6, OthersSame, SameOnce DEF Process, PublishResponse, jobQueue, Pending
  <2>4. ToAnswer(j)' \subseteq ToAnswer(j)
    BY <2>1, <2>3, ToAnswerIs
  <2>5. CASE j = r.d.job
    <3>1. <<t, r.d>> \in ToAnswer(j) /\ <<t, r.d>> \notin ToAnswer(j)'
      BY <2>1, <2>5, ToAnswerIs
    <3>2. ToAnswer(j)' \in SUBSET (ToAnswer(j) \ {<<t, r.d>>})
      BY <2>4, <3>1
    <3>3. IsFiniteSet(ToAnswer(j))
      BY <1>2
    <3>4. /\ IsFiniteSet(ToAnswer(j) \ {<<t, r.d>>})
          /\ Cardinality(ToAnswer(j) \ {<<t, r.d>>}) = Cardinality(ToAnswer(j)) - 1
          /\ Cardinality(ToAnswer(j)) \in Nat
      BY <3>1, <3>3, FS_RemoveElement, FS_CardinalityType
    <3>5. /\ IsFiniteSet(ToAnswer(j)')
          /\ Cardinality(ToAnswer(j)') <= Cardinality(ToAnswer(j)) - 1
          /\ Cardinality(ToAnswer(j)') \in Nat
      BY <3>2, <3>4, FS_Subset, FS_CardinalityType
    <3>6. AnswersTo(j)' = AnswersTo(j) \cup {Len(results) + 1}
      BY <2>2, <2>5, OneMoreAnswer
    <3>7. /\ Cardinality(AnswersTo(j)') <= Cardinality(AnswersTo(j)) + 1
          /\ Cardinality(AnswersTo(j)) \in Nat /\ Cardinality(AnswersTo(j)') \in Nat
      BY <3>6, AnswersFinite, OneMore
    <3>8. Pending(j) \in Nat /\ failures \in Nat
      BY DEF Pending, TesterTypeOK
    <3>9. QED
      BY <1>2, <2>3, <3>4, <3>5, <3>7, <3>8
  <2>6. CASE j # r.d.job
    <3>1. AnswersTo(j)' = AnswersTo(j)
      BY <2>2, <2>6, OneMoreAnswer
    <3>2. Pending(j)' <= Pending(j)
      BY <2>3 DEF Pending
    <3>3. QED
      BY <1>1, <2>3, <2>4, <3>1, <3>2, CountOf
  <2>7. QED
    BY <2>5, <2>6
<1>7. ASSUME NEW t \in Testers, Process(t) \/ Failure(t),
             ~Deliver(t), ~(PublishResponse(t) /\ Arrives(t))
      PROVE  Counted(j)'
  <2>1. ToAnswer(j)' \subseteq ToAnswer(j)
    BY <1>7, NothingNew
  <2>2. AnswersTo(j)' = AnswersTo(j)
    BY <1>7, ResultsCases DEF AnswersTo
  <2>3. CASE Failure(t)
    <3>1. failures' = failures + 1
      BY <2>3 DEF Failure, Crash, Disconnect, CloseConsumer, Fail
    <3>2. QED
      BY <1>1, <2>1, <2>2, <3>1, CountOf
  <2>4. CASE Process(t)
    <3>1. failures' = failures
      BY <1>7, <2>4
      DEF Process, Start, Receive, Spawn, Task, RejectLab, StartDocker,
          DockerDone, PublishResponse, AckJob, SendReport, Notice, SenderFails,
          Finish
    <3>2. UNCHANGED <<submitted, queued>>
      <4>1. CASE SenderFails(t) \/ Finish(t)
        <5>1. unacked[t] = {} /\ Requeue(t)
          BY <4>1 DEF SenderFails, Finish, Exit, ViewLags, DownIsEmpty
        <5>2. QED
          BY <5>1 DEF Requeue, JobsOf
      <4>2. CASE ~SenderFails(t) /\ ~Finish(t)
        BY <1>7, <2>4, <4>2
        DEF Process, Start, Receive, Spawn, Task, RejectLab, StartDocker,
            DockerDone, PublishResponse, AckJob, SendReport, Notice,
            brokerVars, jobQueue
      <4>3. QED
        BY <4>1, <4>2
    <3>3. Pending(j)' <= Pending(j)
      BY <3>2 DEF Pending
    <3>4. QED
      BY <1>1, <2>1, <2>2, <3>1, <3>3, CountOf
  <2>5. QED
    BY <1>7, <2>3, <2>4
<1>8. QED
  BY <1>4, <1>5, <1>6, <1>7 DEF TesterNext, Process

-----------------------------------------------------------------------------
(* As many reports as answers, at most.                                    *)

\* The reports are finitely many.
LEMMA ReportsFinite ==
  ASSUME TesterTypeOK, NEW j
  PROVE  IsFiniteSet(ReportsOf(j)) /\ Cardinality(ReportsOf(j)) \in Nat
<1>1. DOMAIN reports = 1 .. Len(reports) /\ Len(reports) \in Nat
  BY DEF TesterTypeOK, BrokerTypeOK
<1>2. IsFiniteSet(1 .. Len(reports))
  BY <1>1, FS_Interval
<1>3. ReportsOf(j) \in SUBSET (1 .. Len(reports))
  BY <1>1 DEF ReportsOf
<1>4. QED
  BY <1>2, <1>3, FS_Subset, FS_CardinalityType

\* A report that arrives is one more of its job, and of no other.
LEMMA OneMoreReport ==
  ASSUME TesterTypeOK, NEW t \in Testers, SendReport(t), Arrives(t)
  PROVE  /\ \A j : ReportsOf(j)' =
              IF j = sender[t].reply.d.job
                THEN ReportsOf(j) \cup {Len(reports) + 1} ELSE ReportsOf(j)
         /\ Range(reports') = Range(reports) \cup {Emitted(sender[t].reply)}
<1> DEFINE r == Emitted(sender[t].reply)
<1>1. /\ reports \in Seq(Response) /\ r \in Response
      /\ reports' = Append(reports, r)
      /\ r.job = sender[t].reply.d.job
  BY ReportIs DEF TesterTypeOK, BrokerTypeOK
<1>2. /\ DOMAIN reports = 1 .. Len(reports) /\ Len(reports) \in Nat
      /\ DOMAIN reports' = 1 .. (Len(reports) + 1)
      /\ \A i \in DOMAIN reports : reports'[i] = reports[i]
      /\ reports'[Len(reports) + 1] = r
  BY <1>1
<1> HIDE DEF r
<1>3. Range(reports') = Range(reports) \cup {r}
  BY <1>1, RangeAppend
<1>4. ASSUME NEW j
      PROVE  ReportsOf(j)' =
               IF j = r.job THEN ReportsOf(j) \cup {Len(reports) + 1}
                            ELSE ReportsOf(j)
  BY <1>2 DEF ReportsOf
<1>5. QED
  BY <1>1, <1>3, <1>4 DEF r

\* The reports change by a report that arrives, and in no other way.
LEMMA ReportsCases ==
  ASSUME TesterTypeOK, NEW t \in Testers, Process(t) \/ Failure(t),
         ~(SendReport(t) /\ Arrives(t))
  PROVE  reports' = reports
<1>1. CASE SendReport(t)
  BY <1>1 DEF SendReport
<1>2. QED
  BY <1>1, SenderCases

\* Who has an answer and no report of it yet.
LEMMA ReportersIs ==
  ASSUME NEW j
  PROVE  /\ \A u : u \in Reporters(j) <=>
              /\ u \in Testers /\ Arrives(u)
              /\ sender[u].step \in {"ack", "report"}
              /\ sender[u].reply.d.job = j
         /\ \A u : u \in Reporters(j)' <=>
              /\ u \in Testers /\ Arrives(u)'
              /\ sender'[u].step \in {"ack", "report"}
              /\ sender'[u].reply.d.job = j
BY DEF Reporters

\* The answers of a job that are reported, or may still be.
Repeats(j) ==
  /\ IsFiniteSet(Reporters(j))
  /\ Cardinality(ReportsOf(j)) + Cardinality(Reporters(j))
       <= Cardinality(AnswersTo(j))

\* Nobody else is about to report a job when its answers and its reports stay.
LEMMA RepeatsOf ==
  ASSUME TesterTypeOK, NEW j, Repeats(j),
         ReportsOf(j)' = ReportsOf(j), AnswersTo(j)' = AnswersTo(j),
         Reporters(j)' \subseteq Reporters(j)
  PROVE  Repeats(j)'
<1>1. /\ IsFiniteSet(Reporters(j)')
      /\ Cardinality(Reporters(j)') <= Cardinality(Reporters(j))
      /\ Cardinality(Reporters(j)) \in Nat /\ Cardinality(Reporters(j)') \in Nat
  BY FS_Subset, FS_CardinalityType DEF Repeats
<1>2. Cardinality(ReportsOf(j)) \in Nat /\ Cardinality(AnswersTo(j)) \in Nat
  BY ReportsFinite, AnswersFinite
<1>3. QED
  BY <1>1, <1>2 DEF Repeats

\* Every step keeps the reports within the answers.
LEMMA RepeatsStep ==
  ASSUME DeliveryInv, OnePlace, [TesterNext]_testerVars,
         NEW j \in Jobs, Repeats(j)
  PROVE  Repeats(j)'
<1> USE DEF DeliveryInv
<1>1. ASSUME NEW t \in Testers, PublishResponse(t), Arrives(t)
      PROVE  Repeats(j)'
  <2> DEFINE r == Head(respChan[t])
  <2>2. /\ Emitted(r) \in Response
        /\ Emitted(r).job = r.d.job
        /\ results' = Append(results, Emitted(r))
    BY <1>1, PublicationIs DEF PublishResponse, PublishResult
  <2>3. /\ \A u \in Testers \ {t} : sender'[u] = sender[u]
        /\ sender'[t].reply = r /\ sender[t] = Idle
        /\ UNCHANGED <<link, reports>>
    <3>1. Process(t)
      BY <1>1 DEF Process
    <3>2. sender'[t] = [step |-> "ack", reply |-> r]
      BY <1>1, PublicationIs
    <3>3. \A u \in Testers \ {t} : sender'[u] = sender[u]
      BY <3>1, OthersSame
    <3>4. QED
      BY <1>1, <3>2, <3>3 DEF PublishResponse
  <2>4. ReportsOf(j)' = ReportsOf(j)
    BY <2>3 DEF ReportsOf
  <2>5. CASE j # r.d.job
    <3>1. AnswersTo(j)' = AnswersTo(j)
      BY <2>2, <2>5, OneMoreAnswer
    <3>2. Reporters(j)' \subseteq Reporters(j)
      BY <2>3, <2>5, ReportersIs DEF Arrives
    <3>3. QED
      BY <2>4, <3>1, <3>2, RepeatsOf
  <2>6. CASE j = r.d.job
    <3>1. AnswersTo(j)' = AnswersTo(j) \cup {Len(results) + 1}
      BY <2>2, <2>6, OneMoreAnswer
    <3>2. Len(results) + 1 \notin AnswersTo(j)
      BY DEF AnswersTo, TesterTypeOK, BrokerTypeOK
    <3>3. Cardinality(AnswersTo(j)') = Cardinality(AnswersTo(j)) + 1
      BY <3>1, <3>2, AnswersFinite, FS_AddElement
    <3>4. Reporters(j)' \subseteq Reporters(j) \cup {t}
      BY <2>3, ReportersIs DEF Arrives
    <3>5. /\ IsFiniteSet(Reporters(j) \cup {t})
          /\ Cardinality(Reporters(j) \cup {t}) <= Cardinality(Reporters(j)) + 1
          /\ Cardinality(Reporters(j) \cup {t}) \in Nat
          /\ Cardinality(Reporters(j)) \in Nat
      BY OneMore, FS_CardinalityType DEF Repeats
    <3>6. /\ IsFiniteSet(Reporters(j)')
          /\ Cardinality(Reporters(j)') <= Cardinality(Reporters(j) \cup {t})
          /\ Cardinality(Reporters(j)') \in Nat
      BY <3>4, <3>5, FS_Subset, FS_CardinalityType
    <3>7. Cardinality(ReportsOf(j)) \in Nat /\ Cardinality(AnswersTo(j)) \in Nat
      BY ReportsFinite, AnswersFinite
    <3>8. QED
      BY <2>4, <3>3, <3>5, <3>6, <3>7 DEF Repeats
  <2>7. QED
    BY <2>5, <2>6
<1>2. ASSUME NEW t \in Testers, SendReport(t), Arrives(t)
      PROVE  Repeats(j)'
  <2> DEFINE k == sender[t].reply.d.job
  <2>1. /\ \A u \in Testers \ {t} : sender'[u] = sender[u]
        /\ sender'[t] = Idle
        /\ sender[t].step = "report"
        /\ UNCHANGED <<link, results>>
    <3>1. Process(t)
      BY <1>2 DEF Process
    <3>2. sender'[t] = Idle
      BY <1>2 DEF SendReport, TesterTypeOK
    <3>3. QED
      BY <1>2, <3>1, <3>2, OthersSame DEF SendReport
  <2>2. AnswersTo(j)' = AnswersTo(j)
    BY <2>1 DEF AnswersTo
  <2>3. Reporters(j)' \subseteq Reporters(j) \ {t}
    BY <2>1, ReportersIs DEF Arrives, Idle
  <2>4. CASE j # k
    <3>1. ReportsOf(j)' = ReportsOf(j)
      BY <1>2, <2>4, OneMoreReport
    <3>2. QED
      BY <2>2, <2>3, <3>1, RepeatsOf
  <2>5. CASE j = k
    <3>1. ReportsOf(j)' = ReportsOf(j) \cup {Len(reports) + 1}
      BY <1>2, <2>5, OneMoreReport
    <3>2. /\ Cardinality(ReportsOf(j)') <= Cardinality(ReportsOf(j)) + 1
          /\ Cardinality(ReportsOf(j)') \in Nat
          /\ Cardinality(ReportsOf(j)) \in Nat
      BY <3>1, ReportsFinite, OneMore, FS_CardinalityType
    <3>3. t \in Reporters(j)
      BY <1>2, <2>1, <2>5, ReportersIs
    <3>4. /\ IsFiniteSet(Reporters(j) \ {t})
          /\ Cardinality(Reporters(j) \ {t}) = Cardinality(Reporters(j)) - 1
          /\ Cardinality(Reporters(j)) \in Nat
      BY <3>3, FS_RemoveElement, FS_CardinalityType DEF Repeats
    <3>5. /\ IsFiniteSet(Reporters(j)')
          /\ Cardinality(Reporters(j)') <= Cardinality(Reporters(j)) - 1
          /\ Cardinality(Reporters(j)') \in Nat
      BY <2>3, <3>4, FS_Subset, FS_CardinalityType
    <3>6. Cardinality(AnswersTo(j)) \in Nat
      BY AnswersFinite
    <3>7. QED
      BY <2>2, <3>2, <3>4, <3>5, <3>6 DEF Repeats
  <2>6. QED
    BY <2>4, <2>5
<1>3. ASSUME NEW t \in Testers, Process(t) \/ Failure(t),
             ~(PublishResponse(t) /\ Arrives(t)), ~(SendReport(t) /\ Arrives(t))
      PROVE  Repeats(j)'
  <2>1. ReportsOf(j)' = ReportsOf(j) /\ AnswersTo(j)' = AnswersTo(j)
    BY <1>3, ReportsCases, ResultsCases DEF ReportsOf, AnswersTo
  <2>2. \A u \in Testers \ {t} : sender'[u] = sender[u] /\ link'[u] = link[u]
    BY <1>3, OthersSame
  <2>3. ASSUME t \in Reporters(j)'
        PROVE  t \in Reporters(j)
    <3>1. /\ Arrives(t)' /\ sender'[t] # Idle
          /\ sender'[t].step \in {"ack", "report"}
          /\ sender'[t].reply.d.job = j
      BY <2>3, ReportersIs DEF Idle
    <3>2. Arrives(t)
      BY <1>3, <3>1, LossIsFinal DEF TesterNext
    <3>3. CASE AckJob(t)
      <4>1. sender[t].step = "ack" /\ sender'[t].reply = sender[t].reply
        BY <3>1, <3>3, SenderCases DEF AckJob, AfterAck, Idle, TesterTypeOK
      <4>2. QED
        BY <3>1, <3>2, <4>1, ReportersIs
    <3>4. CASE ~AckJob(t)
      <4>1. sender'[t] = sender[t]
        BY <1>3, <3>1, <3>2, <3>4, SenderCases
      <4>2. QED
        BY <3>1, <3>2, <4>1, ReportersIs
    <3>5. QED
      BY <3>3, <3>4
  <2>4. Reporters(j)' \subseteq Reporters(j)
    <3>1. ASSUME NEW u \in Reporters(j)', u # t
          PROVE  u \in Reporters(j)
      BY <2>2, <3>1, ReportersIs DEF Arrives
    <3>2. QED
      BY <2>3, <3>1
  <2>5. QED
    BY <2>1, <2>4, RepeatsOf
<1>4. CASE UNCHANGED testerVars \/ \E k \in Jobs : Submit(k)
  <2>1. UNCHANGED <<link, sender, results, reports>>
    BY <1>4, NoInstance
  <2>2. Reporters(j)' \subseteq Reporters(j)
    BY <2>1, ReportersIs DEF Arrives
  <2>3. QED
    BY <2>1, <2>2, RepeatsOf DEF ReportsOf, AnswersTo
<1>5. QED
  BY <1>1, <1>2, <1>3, <1>4 DEF TesterNext

\* A report repeats an answer, as no answer is taken back.
LEMMA RepeatedStep ==
  ASSUME DeliveryInv, SenderInOrder,
         [TesterNext]_testerVars
  PROVE  Range(reports') \subseteq Range(results')
<1> USE DEF DeliveryInv
<1>1. Range(results) \subseteq Range(results')
  BY ResultsGrow
<1>2. ASSUME NEW t \in Testers, SendReport(t), Arrives(t)
      PROVE  Range(reports') \subseteq Range(results')
  <2>1. Range(reports') = Range(reports) \cup {Emitted(sender[t].reply)}
    BY <1>2, OneMoreReport
  <2>2. Emitted(sender[t].reply) \in Range(results)
    BY <1>2 DEF SenderInOrder, SendReport
  <2>3. QED
    BY <1>1, <2>1, <2>2 DEF SenderInOrder
<1>3. ASSUME NEW t \in Testers, Process(t) \/ Failure(t),
             ~(SendReport(t) /\ Arrives(t))
      PROVE  reports' = reports
  BY <1>3, ReportsCases
<1>4. QED
  BY <1>1, <1>2, <1>3, NoInstance DEF SenderInOrder, TesterNext

\* Every step keeps what amqp_sender does in order.
LEMMA SenderInOrderStep ==
  ASSUME DeliveryInv, OnePlace, WorkIsUnacked, SenderInOrder,
         [TesterNext]_testerVars
  PROVE  SenderInOrder'
<1>1. /\ \A t \in Testers : Withdrawn(t)
      /\ \A j \in Jobs : Repeats(j)
  BY DEF SenderInOrder, Withdrawn, Repeats
<1>2. ASSUME NEW t \in Testers
      PROVE  Withdrawn(t)'
  <2>1. CASE Process(t) \/ Failure(t)
    BY <1>1, <2>1, WithdrawnStep
  <2>2. ASSUME NEW u \in Testers, Process(u) \/ Failure(u), u # t
        PROVE  Withdrawn(t)'
    BY <1>1, <2>2, OthersSame DEF Withdrawn, DeliveryInv
  <2>3. CASE UNCHANGED testerVars \/ \E k \in Jobs : Submit(k)
    BY <1>1, <2>3, NoInstance, SameOnce DEF Withdrawn
  <2>4. QED
    BY <2>1, <2>2, <2>3 DEF TesterNext
<1>3. ASSUME NEW j \in Jobs
      PROVE  Repeats(j)'
  BY <1>1, RepeatsStep
<1>4. ASSUME NEW t \in Testers,
             sender'[t].step \in {"ack", "report"}, Arrives(t)'
      PROVE  Emitted(sender'[t].reply) \in Range(results')
  BY <1>4, PublishedStep
<1>5. Range(reports') \subseteq Range(results')
  BY RepeatedStep
<1>6. QED
  BY <1>2, <1>3, <1>4, <1>5 DEF SenderInOrder, Withdrawn, Repeats

-----------------------------------------------------------------------------
(* One more report for each channel closed by the server, at most.          *)

\* ReportsCounted, for one job.
ReportCounted(j) ==
  /\ IsFiniteSet(ToReport(j))
  /\ Cardinality(ReportsOf(j)) + Cardinality(ToReport(j)) + Pending(j)
       <= 1 + closures

\* What may still be reported of a job: its deliveries on the channels that the
\* server would still read a report from.
LEMMA ToReportIs ==
  ASSUME NEW j
  PROVE  /\ \A x : x \in ToReport(j) <=>
              \E t \in Testers : \E d \in Unreported(t) : d.job = j /\ x = <<t, d>>
         /\ \A x : x \in ToReport(j)' <=>
              \E t \in Testers : \E d \in Unreported(t)' : d.job = j /\ x = <<t, d>>
BY DEF ToReport

\* The other instances have the same reports to make.
LEMMA OthersUnreported ==
  ASSUME TesterTypeOK, NEW t \in Testers, Process(t) \/ Failure(t),
         NEW u \in Testers, u # t
  PROVE  Unreported(u)' = Unreported(u)
BY OthersSame DEF Unreported

\* Only a delivery by the server adds to what an instance may report.
LEMMA UnreportedStep ==
  ASSUME DeliveryInv, OnePlace, NEW t \in Testers, Withdrawn(t),
         Process(t) \/ Failure(t)
  PROVE  /\ ~Deliver(t) => Unreported(t)' \subseteq Unreported(t)
         /\ link'[t] \in {"down", "closed"} => Unreported(t)' = {}
         /\ SendReport(t) =>
              Unreported(t)' \subseteq Unreported(t) \ {sender[t].reply.d}
<1> USE DEF DeliveryInv
<1> DEFINE Held0(r) == IF r.step = "report" THEN {r.reply.d} ELSE {}
<1>1. link'[t] \in {"down", "closed"} => Unreported(t)' = {}
  BY DEF Unreported
<1>2. Once(t)
  BY DEF OnePlace
<1>3. Idle.step = "idle"
  BY DEF Idle
<1>4. CASE Start(t)
  <2>1. /\ unacked'[t] = {} /\ InProcess(t)' = {}
        /\ sender'[t] = Idle
    BY <1>4, SameOnce DEF Start, Parts, DownIsEmpty, Withdrawn
  <2>2. Unreported(t)' = {}
    BY <1>3, <2>1 DEF Unreported
  <2>3. ~SendReport(t)
    BY <1>3, <1>4 DEF Start, Withdrawn, SendReport
  <2>4. QED
    BY <2>2, <2>3
<1>5. ASSUME ~Start(t), ~Deliver(t)
      PROVE  /\ link'[t] \in {"open", "ackless"} => link[t] \in {"open", "ackless"}
             /\ unacked'[t] \subseteq unacked[t]
             /\ InProcess(t)' \subseteq InProcess(t)
  <2>1. InProcess(t)' \subseteq InProcess(t)
    BY <1>2, <1>5, WorkStep
  <2>2. unacked'[t] \subseteq unacked[t]
    <3>1. CASE AckJob(t)
      BY <3>1 DEF AckJob, BasicAck, TesterTypeOK, BrokerTypeOK
    <3>2. CASE ~AckJob(t)
      BY <1>5, <3>2, WindowCases DEF Loses
    <3>3. QED
      BY <3>1, <3>2
  <2>3. link'[t] \in {"open", "ackless"} => link[t] \in {"open", "ackless"}
    BY <1>5
    DEF Process, Failure, Receive, Spawn, Task, RejectLab, StartDocker,
        DockerDone, PublishResponse, AckJob, SendReport, SenderFails, Finish,
        Notice, Crash, Disconnect, CloseConsumer, Exit, TesterTypeOK
  <2>4. QED
    BY <2>1, <2>2, <2>3
<1>6. ASSUME ~Start(t), ~Deliver(t)
      PROVE  Held0(sender'[t]) \subseteq Held0(sender[t]) \cup InProcess(t)
  <2>1. CASE AckJob(t)
    <3>1. sender[t].reply.d \in InProcess(t)
      BY <2>1 DEF AckJob, InProcess, Place
    <3>2. sender'[t] = Idle \/ sender'[t].reply = sender[t].reply
      BY <2>1, SenderCases DEF AckJob, AfterAck
    <3>3. QED
      BY <1>3, <3>1, <3>2
  <2>2. CASE ~AckJob(t)
    <3>0. ASSUME sender'[t] = [step |-> "ack", reply |-> Head(respChan[t])]
          PROVE  sender'[t].step # "report"
      BY <3>0
    <3>1. sender'[t].step = "report" => sender'[t] = sender[t]
      BY <1>3, <1>6, <2>2, <3>0, SenderCases
    <3>2. QED
      BY <3>1
  <2>3. QED
    BY <2>1, <2>2
<1>7. CASE ~Start(t) /\ ~Deliver(t)
  <2>1. Unreported(t)' \subseteq Unreported(t)
    BY <1>5, <1>6, <1>7 DEF Unreported
  <2>2. ASSUME SendReport(t)
        PROVE  sender[t].reply.d \notin Unreported(t)'
    <3>1. sender'[t] = Idle /\ sender[t].step = "report"
      BY <2>2 DEF SendReport, TesterTypeOK
    <3>2. sender[t].reply.d \notin unacked[t] \cup InProcess(t)
      BY <3>1 DEF Withdrawn
    <3>3. QED
      BY <1>3, <1>5, <1>7, <3>1, <3>2 DEF Unreported
  <2>3. QED
    BY <1>1, <2>1, <2>2
<1>8. CASE Deliver(t)
  <2>1. UNCHANGED sender /\ link'[t] = "open"
    BY <1>8 DEF Deliver
  <2>2. ~SendReport(t)
    <3>1. ASSUME SendReport(t) PROVE FALSE
      BY <1>3, <2>1, <3>1 DEF SendReport, TesterTypeOK
    <3>2. QED
      BY <3>1
  <2>3. QED
    BY <1>8, <2>1, <2>2
<1>9. QED
  BY <1>1, <1>4, <1>7, <1>8

\* A job whose reports stay, and which no more deliveries may report.
LEMMA ReportCountOf ==
  ASSUME TesterTypeOK, TesterTypeOK', NEW j, ReportCounted(j),
         ReportsOf(j)' = ReportsOf(j),
         ToReport(j)' \subseteq ToReport(j),
         \/ Pending(j)' <= Pending(j) /\ closures' = closures
         \/ closures' = closures + 1
         \/ closures' = closures /\ ToReport(j)' # ToReport(j)
  PROVE  ReportCounted(j)'
<1>1. /\ IsFiniteSet(ToReport(j)')
      /\ Cardinality(ToReport(j)') <= Cardinality(ToReport(j))
      /\ Cardinality(ToReport(j)) \in Nat /\ Cardinality(ToReport(j)') \in Nat
  BY FS_Subset, FS_CardinalityType DEF ReportCounted
<1>2. Pending(j) \in 0 .. 1 /\ Pending(j)' \in 0 .. 1
  BY DEF Pending
<1>3. closures \in Nat /\ closures' \in Nat
  BY DEF TesterTypeOK
<1>4. Cardinality(ReportsOf(j)) \in Nat
  BY ReportsFinite
<1>5. CASE ToReport(j)' # ToReport(j) /\ closures' = closures
  <2>1. PICK x \in ToReport(j) : x \notin ToReport(j)'
    BY <1>5
  <2>2. /\ IsFiniteSet(ToReport(j) \ {x})
        /\ Cardinality(ToReport(j) \ {x}) = Cardinality(ToReport(j)) - 1
    BY <2>1, FS_RemoveElement DEF ReportCounted
  <2>3. ToReport(j)' \in SUBSET (ToReport(j) \ {x})
    BY <2>1
  <2>4. Cardinality(ToReport(j)') <= Cardinality(ToReport(j)) - 1
    BY <2>2, <2>3, FS_Subset
  <2>5. QED
    BY <1>1, <1>2, <1>3, <1>4, <1>5, <2>4 DEF ReportCounted
<1>6. CASE \/ Pending(j)' <= Pending(j) /\ closures' = closures
           \/ closures' = closures + 1
  BY <1>1, <1>2, <1>3, <1>4, <1>6 DEF ReportCounted
<1>7. QED
  BY <1>5, <1>6

\* The server closes a consuming channel: it counts; or the channel goes with
\* its connection, and no report arrives from there; or nothing is requeued.
LEMMA RequeueCases ==
  ASSUME DeliveryInv, NEW t \in Testers, Process(t) \/ Failure(t), ~Deliver(t)
  PROVE  \/ closures' = closures + 1
         \/ closures' = closures /\ UNCHANGED <<submitted, queued>>
         \/ /\ closures' = closures
            /\ link'[t] \in {"down", "closed"}
            /\ Loses(t) /\ UNCHANGED submitted
<1> USE DEF DeliveryInv
<1>1. CASE SenderFails(t) \/ Finish(t) \/ Crash(t) \/ Disconnect(t)
  <2>1. /\ link'[t] \in {"down", "closed"}
        /\ closures' = closures
        /\ Requeue(t)
    BY <1>1
    DEF SenderFails, Finish, Crash, Disconnect, Exit, TesterTypeOK
  <2>2. Loses(t) /\ UNCHANGED submitted
    BY <2>1 DEF Loses, Requeue, TesterTypeOK, BrokerTypeOK
  <2>3. QED
    BY <2>1, <2>2
<1>2. CASE CloseConsumer(t)
  BY <1>2 DEF CloseConsumer
<1>3. CASE Start(t) \/ AckJob(t) \/ Quiet(t)
  BY <1>3
  DEF Start, AckJob, Quiet, Receive, HandOver, Spawn, Task, RejectLab,
      StartDocker, DockerDone, PublishResponse, SendReport, Notice, brokerVars,
      jobQueue
<1>4. QED
  BY <1>1, <1>2, <1>3 DEF Process, Failure, Quiet, HandOver

\* Every step keeps the reports of a job within one and the closed channels.
LEMMA ReportCountedStep ==
  ASSUME DeliveryInv, DeliveryInv', OnePlace, JobsOnce,
         \A t \in Testers : Withdrawn(t),
         [TesterNext]_testerVars, NEW j \in Jobs, ReportCounted(j)
  PROVE  ReportCounted(j)'
<1> USE DEF DeliveryInv
<1>1. CASE UNCHANGED testerVars \/ \E k \in Jobs : Submit(k)
  <2>1. /\ ReportsOf(j)' = ReportsOf(j)
        /\ closures' = closures
    BY <1>1, NoInstance DEF ReportsOf
  <2>2. \A u \in Testers : Unreported(u)' = Unreported(u)
    BY <1>1, NoInstance, SameOnce DEF Unreported
  <2>3. ToReport(j)' \subseteq ToReport(j)
    BY <2>2, ToReportIs
  <2>4. Pending(j)' <= Pending(j)
    BY <1>1 DEF Pending, testerVars, brokerVars, Submit, PublishJob
  <2>5. QED
    BY <2>1, <2>3, <2>4, ReportCountOf
<1>2. ASSUME NEW t \in Testers, Deliver(t)
      PROVE  ReportCounted(j)'
  <2>1. PICK new : Pushed(t, new)
    BY <1>2, DeliverPushes
  <2>2. /\ \A u \in Testers \ {t} : Unreported(u)' = Unreported(u)
        /\ submitted' = submitted
    BY <1>2, OthersUnreported, WindowCases DEF Process
  <2>3. Unreported(t)' = Unreported(t) \cup {new}
    BY <1>2, <2>1 DEF Deliver, Unreported, Pushed
  <2>4. ReportsOf(j)' = ReportsOf(j) /\ closures' = closures
    BY <1>2 DEF Deliver, ReportsOf
  <2>5. CASE j = new.job
    <3>1. ToReport(j)' = ToReport(j) \cup {<<t, new>>}
      <4>1. \A x : x \in ToReport(j)' <=> x \in ToReport(j) \/ x = <<t, new>>
        BY <2>2, <2>3, <2>5, ToReportIs
      <4>2. QED
        BY <4>1
    <3>2. Pending(j) = 1 /\ Pending(j)' = 0
      BY <2>1, <2>2, <2>5 DEF Pending, Pushed, JobsOnce
    <3>3. /\ IsFiniteSet(ToReport(j)')
          /\ Cardinality(ToReport(j)) \in Nat /\ Cardinality(ToReport(j)') \in Nat
          /\ Cardinality(ToReport(j)') <= Cardinality(ToReport(j)) + 1
      BY <3>1, OneMore DEF ReportCounted
    <3>4. Cardinality(ReportsOf(j)) \in Nat /\ closures \in Nat
      BY ReportsFinite DEF TesterTypeOK
    <3>5. QED
      BY <2>4, <3>2, <3>3, <3>4 DEF ReportCounted
  <2>6. CASE j # new.job
    <3>1. ToReport(j)' \subseteq ToReport(j)
      BY <2>2, <2>3, <2>6, ToReportIs
    <3>2. Pending(j)' <= Pending(j)
      BY <2>1, <2>2, <2>6 DEF Pending, Pushed
    <3>3. QED
      BY <2>4, <3>1, <3>2, ReportCountOf
  <2>7. QED
    BY <2>5, <2>6
<1>3. ASSUME NEW t \in Testers, Process(t) \/ Failure(t), ~Deliver(t)
      PROVE  ToReport(j)' \subseteq ToReport(j)
  <2>1. Unreported(t)' \subseteq Unreported(t)
    BY <1>3, UnreportedStep
  <2>2. \A u \in Testers : Unreported(u)' \subseteq Unreported(u)
    BY <1>3, <2>1, OthersUnreported
  <2>3. QED
    BY <2>2, ToReportIs
<1>4. ASSUME NEW t \in Testers, SendReport(t), Arrives(t),
             sender[t].reply.d.job = j
      PROVE  ReportCounted(j)'
  <2> DEFINE d0 == sender[t].reply.d
  <2>1. Process(t) /\ ~Deliver(t)
    <3>1. Process(t)
      BY <1>4 DEF Process
    <3>2. ASSUME Deliver(t) PROVE FALSE
      <4>1. sender'[t] = sender[t]
        BY <3>2 DEF Deliver
      <4>2. sender'[t] = Idle
        BY <1>4 DEF SendReport, TesterTypeOK
      <4>3. sender[t].step = "report"
        BY <1>4 DEF SendReport
      <4>4. QED
        BY <4>1, <4>2, <4>3 DEF Idle
    <3>3. QED
      BY <3>1, <3>2
  <2>2. link[t] \in {"open", "ackless"} /\ sender[t].step = "report"
    BY <1>4 DEF SendReport, Writes, Arrives, ViewLags, TesterTypeOK
  <2>3. d0 \in Unreported(t)
    BY <2>2 DEF Unreported
  <2>4. d0 \notin Unreported(t)'
    BY <1>4, <2>1, UnreportedStep
  <2>5. <<t, d0>> \in ToReport(j) /\ <<t, d0>> \notin ToReport(j)'
    BY <1>4, <2>3, <2>4, ToReportIs
  <2>6. ToReport(j)' \in SUBSET (ToReport(j) \ {<<t, d0>>})
    BY <1>3, <2>1, <2>5
  <2>7. /\ IsFiniteSet(ToReport(j) \ {<<t, d0>>})
        /\ Cardinality(ToReport(j) \ {<<t, d0>>}) = Cardinality(ToReport(j)) - 1
        /\ Cardinality(ToReport(j)) \in Nat
    BY <2>5, FS_RemoveElement, FS_CardinalityType DEF ReportCounted
  <2>8. /\ IsFiniteSet(ToReport(j)')
        /\ Cardinality(ToReport(j)') <= Cardinality(ToReport(j)) - 1
        /\ Cardinality(ToReport(j)') \in Nat
    BY <2>6, <2>7, FS_Subset, FS_CardinalityType
  <2>9. ReportsOf(j)' = ReportsOf(j) \cup {Len(reports) + 1}
    BY <1>4, OneMoreReport
  <2>10. /\ Cardinality(ReportsOf(j)') <= Cardinality(ReportsOf(j)) + 1
         /\ Cardinality(ReportsOf(j)') \in Nat
         /\ Cardinality(ReportsOf(j)) \in Nat
    BY <2>9, ReportsFinite, OneMore, FS_CardinalityType
  <2>11. /\ Pending(j)' = Pending(j) /\ closures' = closures
         /\ Pending(j) \in Nat /\ closures \in Nat
    BY <1>4 DEF SendReport, jobQueue, Pending, TesterTypeOK
  <2>12. QED
    BY <2>7, <2>8, <2>10, <2>11 DEF ReportCounted
<1>5. ASSUME NEW t \in Testers, Process(t) \/ Failure(t), ~Deliver(t),
             ~(SendReport(t) /\ Arrives(t) /\ sender[t].reply.d.job = j)
      PROVE  ReportCounted(j)'
  <2>1. ReportsOf(j)' = ReportsOf(j)
    <3>1. CASE SendReport(t) /\ Arrives(t)
      BY <1>5, <3>1, OneMoreReport
    <3>2. CASE ~(SendReport(t) /\ Arrives(t))
      BY <1>5, <3>2, ReportsCases DEF ReportsOf
    <3>3. QED
      BY <3>1, <3>2
  <2>2. ToReport(j)' \subseteq ToReport(j)
    BY <1>3, <1>5
  <2>3. CASE closures' = closures + 1
    BY <2>1, <2>2, <2>3, ReportCountOf
  <2>4. CASE closures' = closures /\ UNCHANGED <<submitted, queued>>
    <3>1. Pending(j)' <= Pending(j)
      BY <2>4 DEF Pending
    <3>2. QED
      BY <2>1, <2>2, <2>4, <3>1, ReportCountOf
  <2>5. CASE /\ closures' = closures
             /\ link'[t] \in {"down", "closed"}
             /\ Loses(t) /\ UNCHANGED submitted
    <3>1. CASE \E e \in unacked[t] : e.job = j
      <4>1. PICK e \in unacked[t] : e.job = j
        BY <3>1
      <4>2. link[t] = "open"
        BY <4>1 DEF DownIsEmpty
      <4>3. e \in Unreported(t) /\ Unreported(t)' = {}
        BY <1>5, <2>5, <4>1, <4>2, UnreportedStep DEF Unreported
      <4>4. <<t, e>> \in ToReport(j) /\ <<t, e>> \notin ToReport(j)'
        BY <4>1, <4>3, ToReportIs
      <4>5. QED
        BY <2>1, <2>2, <2>5, <4>4, ReportCountOf
    <3>2. CASE ~\E e \in unacked[t] : e.job = j
      <4>1. j \in queued' <=> j \in queued
        BY <2>5, <3>2 DEF Loses, JobsOf
      <4>2. Pending(j)' <= Pending(j)
        BY <2>5, <4>1 DEF Pending
      <4>3. QED
        BY <2>1, <2>2, <2>5, <4>2, ReportCountOf
    <3>3. QED
      BY <3>1, <3>2
  <2>6. QED
    BY <1>5, <2>3, <2>4, <2>5, RequeueCases
<1>6. QED
  BY <1>1, <1>2, <1>4, <1>5 DEF TesterNext

\* Every step keeps all the reports so counted.
LEMMA ReportsCountedStep ==
  ASSUME DeliveryInv, DeliveryInv', OnePlace, JobsOnce, SenderInOrder,
         ReportsCounted, [TesterNext]_testerVars
  PROVE  ReportsCounted'
<1>1. \A j \in Jobs : ReportCounted(j)
  BY DEF ReportsCounted, ReportCounted, Pending
<1>2. \A t \in Testers : Withdrawn(t)
  BY DEF SenderInOrder, Withdrawn
<1>3. \A j \in Jobs : ReportCounted(j)'
  BY <1>1, <1>2, ReportCountedStep
<1>4. QED
  BY <1>3 DEF ReportsCounted, ReportCounted, Pending

\* The count of the reports bounds them: a job that is not settled is counted in
\* the queue, or in a delivery that may be reported.
LEMMA CountsBound ==
  ASSUME DeliveryInv, ReportsCounted, NEW j \in Jobs
  PROVE  Cardinality(ReportsOf(j)) <= closures + (IF j \in Settled THEN 1 ELSE 0)
<1> USE DEF DeliveryInv
<1>1. ReportCounted(j)
  BY DEF ReportsCounted, ReportCounted, Pending
<1>2. /\ Cardinality(ToReport(j)) \in Nat
      /\ Cardinality(ReportsOf(j)) \in Nat
      /\ Pending(j) \in 0 .. 1
      /\ closures \in Nat
  BY <1>1, ReportsFinite, FS_CardinalityType
  DEF ReportCounted, Pending, TesterTypeOK
<1>3. CASE j \in Settled
  BY <1>1, <1>2, <1>3 DEF ReportCounted
<1>4. CASE j \in queued \/ j \notin submitted
  <2>1. Pending(j) = 1 /\ j \notin Settled
    BY <1>4 DEF Pending, Settled
  <2>2. QED
    BY <1>1, <1>2, <2>1 DEF ReportCounted
<1>5. CASE Held(j)
  <2>0. PICK t \in Testers : \E d \in unacked[t] : d.job = j
    BY <1>5 DEF Held
  <2>1. PICK d \in unacked[t] : d.job = j
    BY <2>0
  <2>2. link[t] = "open"
    BY <2>1 DEF DownIsEmpty
  <2>3. <<t, d>> \in ToReport(j)
    BY <2>1, <2>2, ToReportIs DEF Unreported
  <2>4. Cardinality(ToReport(j)) # 0
    BY <1>1, <2>3, FS_EmptySet DEF ReportCounted
  <2>5. j \notin Settled
    BY <1>5 DEF Settled
  <2>6. QED
    BY <1>1, <1>2, <2>4, <2>5 DEF ReportCounted
<1>6. QED
  BY <1>3, <1>4, <1>5 DEF Settled

-----------------------------------------------------------------------------
(* The invariant, and what it says.                                        *)

\* TesterInv holds initially.
LEMMA TesterInvInit ==
  ASSUME TesterInit, DeliveryInv
  PROVE  TesterInv
<1>1. \A t \in Testers :
        /\ unacked[t] = {} /\ InProcess(t) = {} /\ Unanswered(t) = {}
        /\ sender[t].step = "idle"
        /\ Whole(t) /\ Apart(t)
  <2> TAKE t \in Testers
  <2>1. /\ inbox[t] = << >> /\ reqChan[t] = << >> /\ respChan[t] = << >>
        /\ waiting[t] = {} /\ running[t] = {}
        /\ sender[t] = Idle /\ unacked[t] = {}
    BY DEF TesterInit, BrokerInit
  <2>2. sender[t].step = "idle"
    BY <2>1 DEF Idle
  <2>3. /\ Place(t).inbox = {} /\ Place(t).reqChan = {} /\ Place(t).waiting = {}
        /\ Place(t).running = {} /\ Place(t).respChan = {} /\ Place(t).sender = {}
    BY <2>1, <2>2, RangeEmpty DEF Place
  <2>4. Whole(t)
    BY <2>1 DEF Whole, IsInjective, OneReplyEach
  <2>5. Apart(t)
    BY <2>3 DEF Apart, PartNames
  <2>6. QED
    BY <2>1, <2>2, <2>3, <2>4, <2>5 DEF InProcess, Unanswered
<1>2. OnePlace
  BY <1>1, OnceIs DEF OnePlace
<1>3. WorkIsUnacked /\ WindowHolds
  <2>1. IsFiniteSet({}) /\ Cardinality({}) = 0
    BY FS_EmptySet
  <2>2. PrefetchCount \in Nat
    BY TesterAssumption DEF TesterAssumption, PrefetchCount, U16Max
  <2>3. WorkIsUnacked
    BY <1>1 DEF WorkIsUnacked
  <2>4. PrefetchCount > 0 => 0 <= PrefetchCount
    BY <2>2
  <2>5. WindowHolds
    BY <1>1, <2>1, <2>4 DEF WindowHolds
  <2>6. QED
    BY <2>3, <2>5
<1>4. JobsOnce
  BY <1>1 DEF JobsOnce, TesterInit, BrokerInit
<1>5. /\ results = << >> /\ reports = << >> /\ closures = 0
      /\ \A t \in Testers : sender[t] = Idle /\ link[t] = "down"
  BY DEF TesterInit, BrokerInit
<1>6. AnswersCounted
  <2>1. ASSUME NEW j \in Jobs
        PROVE  ToAnswer(j) = {} /\ AnswersTo(j) = {} /\ failures = 0
    BY <1>1 DEF ToAnswer, AnswersTo, TesterInit, BrokerInit
  <2>2. QED
    BY <2>1, FS_EmptySet DEF AnswersCounted
<1>7. ASSUME NEW j \in Jobs
      PROVE  /\ Reporters(j) = {} /\ ToReport(j) = {}
             /\ ReportsOf(j) = {} /\ AnswersTo(j) = {}
  BY <1>1, <1>5 DEF Reporters, ToReport, Unreported, ReportsOf, AnswersTo
<1>8. SenderInOrder
  <2>1. /\ IsFiniteSet({}) /\ Cardinality({}) = 0
    BY FS_EmptySet
  <2>2. \A j \in Jobs :
          /\ IsFiniteSet(Reporters(j))
          /\ Cardinality(ReportsOf(j)) + Cardinality(Reporters(j))
               <= Cardinality(AnswersTo(j))
    BY <1>7, <2>1
  <2>3. Range(reports) \subseteq Range(results)
    BY <1>5
  <2>4. \A t \in Testers : sender[t].step \notin {"ack", "report"}
    BY <1>1
  <2>5. QED
    BY <1>5, <2>2, <2>3, <2>4 DEF SenderInOrder
<1>9. ReportsCounted
  <2>1. /\ IsFiniteSet({}) /\ Cardinality({}) = 0
    BY FS_EmptySet
  <2>2. ASSUME NEW j \in Jobs
        PROVE  /\ IsFiniteSet(ToReport(j))
               /\ Cardinality(ReportsOf(j)) = 0
               /\ Cardinality(ToReport(j)) = 0
    BY <1>7, <2>1
  <2>3. QED
    BY <1>5, <2>2 DEF ReportsCounted
<1>10. QED
  BY <1>2, <1>3, <1>4, <1>6, <1>8, <1>9 DEF TesterInv

\* Every step keeps TesterInv.
LEMMA TesterInvStep ==
  ASSUME TesterInv, DeliveryInv', [TesterNext]_testerVars
  PROVE  TesterInv'
<1>1. OnePlace' /\ WorkIsUnacked' /\ WindowHolds' /\ JobsOnce' /\ AnswersCounted'
  BY OnePlaceStep, WorkIsUnackedStep, WindowHoldsStep, JobsOnceStep,
     AnswersCountedStep
  DEF TesterInv
<1>2. SenderInOrder' /\ ReportsCounted'
  BY SenderInOrderStep, ReportsCountedStep DEF TesterInv
<1>3. QED
  BY <1>1, <1>2 DEF TesterInv

\* The window of the server, the work of each instance, the answers and the
\* reports keep to one another, whatever fails.
THEOREM TesterInvariant == TesterSpec => []TesterInv
<1>1. TesterInit /\ DeliveryInv => TesterInv
  BY TesterInvInit
<1>2. TesterInv /\ DeliveryInv' /\ [TesterNext]_testerVars => TesterInv'
  BY TesterInvStep
<1>3. QED
  BY <1>1, <1>2, DeliveryInvariant, PTL DEF TesterSpec

\* As long as its consuming channel is open, an instance only works on what it
\* has not acknowledged: what amqp_sender acknowledges is a valid tag.
THEOREM AcknowledgesItsOwn == TesterSpec => []WorkIsUnacked
<1>1. TesterInv => WorkIsUnacked
  BY DEF TesterInv
<1>2. QED
  BY <1>1, TesterInvariant, PTL

\* The tasks of an instance are never more than the permits, or than one if the
\* parallelism is not a prefetch count.
THEOREM TasksAreBounded == TesterSpec => []TasksBounded
<1>1. TesterInv => TasksBounded
  <2> SUFFICES ASSUME TesterInv, Parallelism > 0, NEW t \in Testers
               PROVE  Cardinality(waiting[t] \cup running[t]) <=
                        (IF Parallelism > U16Max THEN 1 ELSE Parallelism)
    BY DEF TasksBounded
  <2>1. /\ PrefetchCount = IF Parallelism > U16Max THEN 1 ELSE Parallelism
        /\ PrefetchCount > 0
        /\ PrefetchCount \in Nat
    BY TesterAssumption DEF PrefetchCount, U16Max
  <2>2. /\ IsFiniteSet(InProcess(t))
        /\ Cardinality(InProcess(t)) <= PrefetchCount
    BY <2>1 DEF TesterInv, WindowHolds
  <2>3. waiting[t] \cup running[t] \in SUBSET InProcess(t)
    BY DEF InProcess, Unanswered, Place
  <2>4. /\ Cardinality(waiting[t] \cup running[t]) <= Cardinality(InProcess(t))
        /\ Cardinality(waiting[t] \cup running[t]) \in Nat
        /\ Cardinality(InProcess(t)) \in Nat
    BY <2>2, <2>3, FS_Subset, FS_CardinalityType
  <2>5. Cardinality(waiting[t] \cup running[t]) <= PrefetchCount
    BY <2>1, <2>2, <2>4
  <2>6. QED
    BY <2>1, <2>5
<1>2. QED
  BY <1>1, TesterInvariant, PTL

\* A job is answered once, and once more for each failure at most.
THEOREM AnswersAreCounted == TesterSpec => []DuplicatesNeedFailures
<1>1. TesterInv => DuplicatesNeedFailures
  <2> SUFFICES ASSUME TesterInv, NEW j \in Jobs
               PROVE  Cardinality(AnswersTo(j)) <= 1 + failures
    BY DEF DuplicatesNeedFailures
  <2>1. /\ IsFiniteSet(ToAnswer(j))
        /\ Cardinality(AnswersTo(j)) + Cardinality(ToAnswer(j)) + Pending(j)
             <= 1 + failures
    BY CountIs DEF TesterInv
  <2>2. /\ Cardinality(ToAnswer(j)) \in Nat
        /\ Cardinality(AnswersTo(j)) \in Nat
        /\ Pending(j) \in Nat
        /\ failures \in Nat
    BY <2>1, AnswersFinite, FS_CardinalityType
    DEF TesterInv, DeliveryInv, TesterTypeOK, Pending
  <2>3. QED
    BY <2>1, <2>2
<1>2. QED
  BY <1>1, TesterInvariant, PTL

\* However often a job is run again, one report of it is made at most, when it
\* has left the queue for good, and one more for each consuming channel that the
\* server closed; each report repeats an answer.
THEOREM ReportsAreCounted == TesterSpec => []OneReport
<1>1. TesterInv => OneReport
  BY CountsBound DEF OneReport, TesterInv, SenderInOrder
<1>2. QED
  BY <1>1, TesterInvariant, PTL

-----------------------------------------------------------------------------
(* The refinement.                                                         *)

\* The queue, the channels and the instances are no part of the service.
LEMMA SameService ==
  ASSUME DeliveryInv, UNCHANGED <<submitted, queued, unacked, results, reports>>
  PROVE  UNCHANGED Service!serviceVars
BY DEF Service!serviceVars, Settled, Held

\* A step of the testers is one of the abstract service, or none.
LEMMA ServiceStep ==
  ASSUME TesterInv, [TesterNext]_testerVars
  PROVE  [Service!ServiceNext]_(Service!serviceVars)
<1> USE DEF TesterInv, DeliveryInv
<1>1. ASSUME NEW j \in Jobs, Submit(j)
      PROVE  Service!SubmitJob(j)
  <2>1. UNCHANGED <<unacked, results, reports>>
    BY <1>1 DEF Submit
  <2>2. Settled' = Settled
    <3>1. /\ submitted' = submitted \cup {j} /\ queued' = queued \cup {j}
          /\ j \notin submitted
      BY <1>1 DEF Submit, PublishJob
    <3>2. QED
      BY <2>1, <3>1 DEF Settled, Held
  <2>3. QED
    BY <1>1, <2>1, <2>2 DEF Service!SubmitJob, Submit, PublishJob
<1>2. ASSUME NEW t \in Testers, AckJob(t), link[t] = "open"
      PROVE  \E j \in Jobs : Service!Settle(j)
  <2> DEFINE j == sender[t].reply.d.job
  <2>1. /\ j \in submitted \ Settled
        /\ Settled' = Settled \cup {j}
    BY <1>2, AckSettles
  <2>2. Answered(j)
    BY <1>2 DEF AckJob, AckedIsAnswered, Arrives
  <2>3. j \in Jobs
    BY <2>1 DEF TesterTypeOK, BrokerTypeOK
  <2>4. UNCHANGED <<submitted, results, reports>>
    BY <1>2 DEF AckJob
  <2>5. Service!Settle(j)
    BY <2>1, <2>2, <2>4 DEF Service!Settle, Service!HasAnswer, Answered
  <2>6. QED
    BY <2>3, <2>5
<1>3. ASSUME NEW t \in Testers, PublishResponse(t), Arrives(t)
      PROVE  \E j \in Jobs, yaml \in Yamls : Service!Answer(j, yaml)
  <2> DEFINE r == Head(respChan[t])
  <2>1. /\ r \in Reply
        /\ r.d \in InProcess(t)
    <3>1. r.d \in Unanswered(t) /\ r \in Reply
      BY <1>3, PublishMoves, MovedWork DEF OnePlace, PartNames
    <3>2. QED
      BY <3>1 DEF InProcess
  <2>2. r.d.job \in submitted
    BY <2>1 DEF JobsOnce
  <2>3. r.d.job \in Jobs /\ r.yaml \in Yamls
    BY <2>1 DEF Reply, Delivery
  <2>4. /\ UNCHANGED <<submitted, queued, unacked, reports>>
        /\ results' = Append(results, [job |-> r.d.job, yaml |-> r.yaml])
    BY <1>3 DEF PublishResponse, PublishResult, Emitted, jobQueue
  <2>5. Settled' = Settled
    BY <2>4 DEF Settled, Held
  <2>6. Service!Answer(r.d.job, r.yaml)
    BY <2>2, <2>4, <2>5 DEF Service!Answer
  <2>7. QED
    BY <2>3, <2>6
<1>4. ASSUME NEW t \in Testers, SendReport(t), Arrives(t)
      PROVE  \E i \in DOMAIN results : Service!ReportJob(i)
  <2> DEFINE r == Emitted(sender[t].reply)
  <2>1. sender[t].step = "report" /\ sender[t].reply \in Reply
    BY <1>4, ReplyTypes DEF SendReport
  <2>2. PICK i \in DOMAIN results : results[i] = r
    BY <1>4, <2>1 DEF SenderInOrder, Range
  <2>3. r.job = sender[t].reply.d.job /\ r.job \in Jobs
    BY <2>1 DEF Emitted, Reply, Delivery
  <2>4. Cardinality(ReportsOf(r.job)) < Cardinality(AnswersTo(r.job))
    <3>1. /\ IsFiniteSet(Reporters(r.job))
          /\ Cardinality(ReportsOf(r.job)) + Cardinality(Reporters(r.job))
               <= Cardinality(AnswersTo(r.job))
      BY <2>3 DEF SenderInOrder
    <3>2. t \in Reporters(r.job)
      BY <1>4, <2>1, <2>3, ReportersIs
    <3>3. Cardinality(Reporters(r.job)) \in Nat \ {0}
      BY <3>1, <3>2, FS_EmptySet, FS_CardinalityType
    <3>4. /\ Cardinality(ReportsOf(r.job)) \in Nat
          /\ Cardinality(AnswersTo(r.job)) \in Nat
      BY ReportsFinite, AnswersFinite
    <3>5. QED
      BY <3>1, <3>3, <3>4
  <2>5. /\ UNCHANGED <<submitted, queued, unacked, results>>
        /\ reports' = Append(reports, r)
    BY <1>4 DEF SendReport, PublishReport, jobQueue
  <2>6. Settled' = Settled
    BY <2>5 DEF Settled, Held
  <2>7. Service!ReportJob(i)
    <3>1. /\ Service!ReportsOf(r.job) = ReportsOf(r.job)
          /\ Service!AnswersOf(r.job) = AnswersTo(r.job)
      BY DEF Service!ReportsOf, Service!AnswersOf, ReportsOf, AnswersTo
    <3>2. \A S : Service!Cardinality(S) = Cardinality(S)
      BY DEF Service!Cardinality, Cardinality
    <3>3. QED
      BY <2>2, <2>4, <2>5, <2>6, <3>1, <3>2 DEF Service!ReportJob
  <2>8. QED
    BY <2>7
<1>5. ASSUME NEW t \in Testers, Process(t) \/ Failure(t),
             ~(AckJob(t) /\ link[t] = "open"),
             ~(PublishResponse(t) /\ Arrives(t)),
             ~(SendReport(t) /\ Arrives(t))
      PROVE  UNCHANGED Service!serviceVars
  <2>1. UNCHANGED <<submitted, results, reports>>
    BY <1>5, WindowCases, ResultsCases, ReportsCases
  <2>2. \A u \in Testers \ {t} : unacked'[u] = unacked[u]
    BY <1>5, OthersSame
  <2>3. CASE Deliver(t)
    <3>1. PICK new : Pushed(t, new)
      BY <2>3, DeliverPushes
    <3>2. ASSUME NEW j
          PROVE  j \in queued' \/ Held(j)' <=> j \in queued \/ Held(j)
      BY <2>2, <3>1 DEF Pushed, Held
    <3>3. QED
      BY <2>1, <3>2 DEF Service!serviceVars, Settled
  <2>4. CASE Loses(t)
    <3>1. ASSUME NEW j
          PROVE  j \in queued' \/ Held(j)' <=> j \in queued \/ Held(j)
      BY <2>2, <2>4 DEF Loses, JobsOf, Held
    <3>2. QED
      BY <2>1, <3>1 DEF Service!serviceVars, Settled
  <2>5. CASE UNCHANGED <<queued, unacked>>
    BY <2>1, <2>5, SameService
  <2>6. CASE AckJob(t)
    BY <1>5, <2>5, <2>6 DEF AckJob
  <2>7. QED
    BY <1>5, <2>3, <2>4, <2>5, <2>6, WindowCases
<1>6. CASE UNCHANGED testerVars
  BY <1>6, SameService DEF testerVars, brokerVars
<1>7. QED
  BY <1>1, <1>2, <1>3, <1>4, <1>5, <1>6
  DEF TesterNext, Process, Service!ServiceNext

\* Testers, channels, connections and failures amount to the service: a job is
\* withdrawn after an answer, never comes back, and its reports repeat answers,
\* each one once.
THEOREM TestersImplementService == TesterSpec => ImplementsService
<1>1. TesterInit => Service!ServiceInit
  BY DEF TesterInit, BrokerInit, Service!ServiceInit, Settled
<1>2. TesterInv /\ [TesterNext]_testerVars => [Service!ServiceNext]_(Service!serviceVars)
  BY ServiceStep
<1>3. QED
  BY <1>1, <1>2, TesterInvariant, PTL
  DEF TesterSpec, ImplementsService, Service!ServiceSpec
=============================================================================
