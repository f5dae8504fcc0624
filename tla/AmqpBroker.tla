----------------------------- MODULE AmqpBroker -----------------------------
(***************************************************************************)
(* The AMQP server, as the operations of amqp-utils drive it: the durable  *)
(* queue of jobs that testers consume with explicit acknowledgements, and  *)
(* the two queues on which testers publish, the one gitlab-to-amqp listens *)
(* to ("gitlab") and the optional one of the reports.                      *)
(*                                                                         *)
(* The server is not part of the repository; it is modelled from what      *)
(* amqp-utils/src/channel.rs asks of it.  Every job is one message, made   *)
(* once by the packager (its zip name is a fresh UUID), so the queue of    *)
(* jobs is the set of the messages that are ready.  Nothing in the code    *)
(* relies on the order in which a server returns requeued messages, and    *)
(* the set allows every order.  The two result queues are logs of all that *)
(* was ever published there; a consumer reads them by index.               *)
(***************************************************************************)
EXTENDS Naturals, Sequences, FiniteSets

CONSTANTS Jobs,      \* the messages a publisher may put in the queue of jobs
          Testers,   \* the instances of amqp-to-test, each a consumer of it
          Yamls      \* the diagnostics a response may carry

VARIABLES
  submitted,   \* history: the jobs ever published
  queued,      \* the jobs ready for delivery
  unacked,     \* per tester: what its channel got and has not acknowledged
  nextTag,     \* per tester: the next delivery tag of its channel
  results,     \* log of the responses published to the result queue
  reports      \* log of the responses published to the reports queue

jobQueue == <<submitted, queued, unacked, nextTag>>
brokerVars == <<submitted, queued, unacked, nextTag, results, reports>>

Delivery == [tag : Nat \ {0}, job : Jobs]

\* A response as it is emitted: the result queue and the delivery tag, which
\* only served inside the tester, are blanked before publication.
Response == [job : Jobs, yaml : Yamls]

BrokerTypeOK ==
  /\ submitted \in SUBSET Jobs
  /\ queued \in SUBSET Jobs
  /\ unacked \in [Testers -> SUBSET Delivery]
  /\ nextTag \in [Testers -> Nat \ {0}]
  /\ results \in Seq(Response)
  /\ reports \in Seq(Response)

BrokerInit ==
  /\ submitted = {}
  /\ queued = {}
  /\ unacked = [t \in Testers |-> {}]
  /\ nextTag = [t \in Testers |-> 1]
  /\ results = << >>
  /\ reports = << >>

-----------------------------------------------------------------------------
(* Publishing.  amqp-utils publishes without confirmation: the message is  *)
(* in its queue when the call returns.                                     *)

PublishJob(j) ==
  /\ submitted' = submitted \cup {j}
  /\ queued' = queued \cup {j}

PublishResult(r) == results' = Append(results, r)

PublishReport(r) == reports' = Append(reports, r)

-----------------------------------------------------------------------------
(* Consuming.                                                              *)

\* basic_qos(prefetch_count): no more unacknowledged messages than that on a
\* consumer; 0 stands for no limit.
HasCredit(t, prefetchCount) ==
  \/ prefetchCount = 0
  \/ Cardinality(unacked[t]) < prefetchCount

NewDelivery(t, j) == [tag |-> nextTag[t], job |-> j]

\* A delivered message that stays in the queue.
BasicDeliverKeeping(t, j) ==
  /\ unacked' = [unacked EXCEPT ![t] = @ \cup {NewDelivery(t, j)}]
  /\ nextTag' = [nextTag EXCEPT ![t] = @ + 1]
  /\ UNCHANGED <<submitted, queued>>

BasicDeliver(t, j) ==
  /\ queued' = queued \ {j}
  /\ unacked' = [unacked EXCEPT ![t] = @ \cup {NewDelivery(t, j)}]
  /\ nextTag' = [nextTag EXCEPT ![t] = @ + 1]
  /\ UNCHANGED submitted

\* Acknowledging with "multiple" set: every delivery up to the tag goes.
BasicAckMultiple(t, tag) ==
  unacked' = [unacked EXCEPT ![t] = {d \in @ : d.tag > tag}]

\* basic_ack(delivery_tag), with multiple: false.
BasicAck(t, tag) ==
  unacked' = [unacked EXCEPT ![t] = {d \in @ : d.tag # tag}]

JobsOf(deliveries) == {d.job : d \in deliveries}

\* A closed channel whose unacknowledged messages are dropped, not requeued.
RequeueNothing(t) ==
  /\ unacked' = [unacked EXCEPT ![t] = {}]
  /\ UNCHANGED <<submitted, queued, nextTag>>

\* The channel on which tester t consumes is gone, whoever closed it: what it
\* had not acknowledged is ready again.
Requeue(t) ==
  /\ queued' = queued \cup JobsOf(unacked[t])
  /\ unacked' = [unacked EXCEPT ![t] = {}]
  /\ UNCHANGED <<submitted, nextTag>>

-----------------------------------------------------------------------------
(* What the history says of a job.                                         *)

Held(j) == \E t \in Testers : \E d \in unacked[t] : d.job = j

Answered(j) == \E i \in DOMAIN results : results[i].job = j

\* The jobs that were acknowledged: they left the queue for good.
Settled == {j \in submitted : j \notin queued /\ ~Held(j)}
=============================================================================
