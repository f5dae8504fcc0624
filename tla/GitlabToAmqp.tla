---------------------------- MODULE GitlabToAmqp ----------------------------
(***************************************************************************)
(* gitlab-to-amqp, the hub between Gitlab and the testers.  Its parts run  *)
(* in one task, joined by run:                                             *)
(*                                                                         *)
(*   web_server      accepts the hooks and serves the zip files;           *)
(*   packager        clones, looks for labs, sets their status to running, *)
(*                   zips them, and sends one request per lab;             *)
(*   amqp_publisher  publishes the requests;                               *)
(*   amqp_receiver   consumes the responses of the testers;                *)
(*   response_poster removes the zip file, and posts status and comment.   *)
(*                                                                         *)
(* The first of them to fail ends the process.  What was in memory is then *)
(* lost; the zip files and the queues remain.                              *)
(***************************************************************************)
EXTENDS AmqpBroker, MpscChannel, Functions

CONSTANTS
  Hooks,      \* the hooks Gitlab may send, one per push
  Labs,       \* the names of the enabled labs, in configuration order
  Passing,    \* the diagnostics whose grade is the maximal one
  Malformed,  \* the diagnostics that are not a Report
  Threads,    \* package.threads
  Slow,       \* hooks of which no zip needs to come to an end
  MaxAnswers, \* bound: how often the testers may answer one job
  MaxFaults   \* bound: crashes, lost connections and lost posts

ASSUME HubAssumption ==
  /\ Labs \in Seq(Range(Labs))
  /\ IsInjective(Labs)       \* a lab is known by its name, to Gitlab too
  /\ Jobs = Hooks \X Range(Labs)
  /\ Passing \subseteq Yamls
  /\ Malformed \subseteq Yamls \ Passing
  /\ Threads \in Nat
  /\ Slow \subseteq Hooks
  /\ MaxAnswers \in Nat
  /\ MaxFaults \in Nat

VARIABLES
  hub,        \* "down": no process; "open"; "lost": the AMQP connection is
              \* lost, and nothing has noticed; "deaf": amqp_receiver has, and
              \* ended
  pushes,     \* history: the hooks that web_server accepted
  hooks,      \* those that the packager has not taken yet
  pack,       \* where the packager is
  requests,   \* the mpsc channel from the packager to amqp_publisher
  zips,       \* the files of zip_dir, one per job
  acked,      \* how many responses the server holds for acknowledged
  taken,      \* how many amqp_receiver has passed on: it goes through them in
              \* order, and a new connection starts with what is not acknowledged
  prefetched, \* how many the server had sent when the connection was lost
  responses,  \* the mpsc channel from amqp_receiver to response_poster: the
              \* positions of the responses in the log
  posting,    \* posts to Gitlab that are under way
  status,     \* at Gitlab: the last status accepted for each job
  comments,   \* at Gitlab: how many comments it accepted for each job
  faults      \* crashes, lost connections and lost posts so far

hubProcess == <<hub, hooks, pack, requests, responses, posting>>
gitlabVars == <<status, comments>>
received == <<acked, taken, prefetched>>
hubVars == <<hubProcess, pushes, zips, received, gitlabVars, faults>>

LabNames == Range(Labs)

\* The packager between two hooks, and at work on one.  The head of labs is
\* the lab being packaged, zipped are the jobs to send.
NoPack == [step |-> "none"]
Packing == [step : {"clone", "status", "zip", "failed", "send"},
            hook : Hooks, labs : Seq(LabNames), zipped : Seq(Jobs)]

Post == [answer : Nat \ {0}, kind : {"status", "comment"}]

HubTypeOK ==
  /\ BrokerTypeOK
  /\ hub \in {"down", "open", "lost", "deaf"}
  /\ pushes \in SUBSET Hooks
  /\ hooks \in SUBSET pushes
  /\ pack \in {NoPack} \cup Packing
  /\ requests \in Seq(Jobs)
  /\ zips \in SUBSET Jobs
  /\ taken \in 0 .. Len(results)
  /\ acked \in 0 .. taken
  /\ prefetched \in 0 .. Len(results)
  /\ responses \in Seq(DOMAIN results)
  /\ posting \in SUBSET Post
  /\ \A p \in posting : p.answer \in DOMAIN results
  /\ status \in [Jobs -> {"none", "running", "success", "failed"}]
  /\ comments \in [Jobs -> Nat]
  /\ faults \in 0 .. MaxFaults

HubInitOwn ==
  /\ hub = "down"
  /\ pushes = {}
  /\ hooks = {}
  /\ pack = NoPack
  /\ requests = << >>
  /\ zips = {}
  /\ acked = 0 /\ taken = 0 /\ prefetched = 0
  /\ responses = << >>
  /\ posting = {}
  /\ status = [j \in Jobs |-> "none"]
  /\ comments = [j \in Jobs |-> 0]
  /\ faults = 0

HubInit == BrokerInit /\ HubInitOwn

\* The clone of a repository is a blocking call made in the common task: until
\* it returns, none of the parts makes a step.
Cloning == pack.step = "clone"

Fault == faults < MaxFaults /\ faults' = faults + 1

-----------------------------------------------------------------------------
(* Accepting hooks.                                                        *)

\* main and amqp_process: connect, declare the queues, consume, listen.
HubStart ==
  /\ hub = "down"
  /\ hub' = "open"
  /\ UNCHANGED <<brokerVars, pushes, hooks, pack, requests, zips, received,
                 responses, posting, gitlabVars, faults>>

\* POST /push of a push that is not a deletion, with the right token: Gitlab
\* gets its answer, and a task spawned for the hook sends it to the packager.
\* The tasks run in any order and each has a slot of the channel of its own,
\* so that the channel is the set of the hooks that wait.
Push(h) ==
  /\ hub # "down"
  /\ h \notin pushes
  /\ pushes' = pushes \cup {h}
  /\ hooks' = hooks \cup {h}
  /\ UNCHANGED <<brokerVars, hub, pack, requests, zips, received, responses,
                 posting, gitlabVars, faults>>

-----------------------------------------------------------------------------
(* Packaging.  One hook at a time: the stream of the hooks goes to the next *)
(* when the requests of the hook before it are all sent.                   *)

packRest == <<brokerVars, hub, pushes, received, responses, posting>>

\* The packager gets a permit and calls clone.
TakeHook(h) ==
  /\ h \in hooks
  /\ pack = NoPack
  /\ Threads > 0
  /\ hooks' = hooks \ {h}
  /\ pack' = [step |-> "clone", hook |-> h, labs |-> << >>, zipped |-> << >>]
  /\ UNCHANGED <<packRest, requests, zips, gitlabVars, faults>>

CurrentJob == <<pack.hook, Head(pack.labs)>>

\* The packager at work on the labs that remain, or sending, or done.
Continue(labs, zipped) ==
  IF labs = << >> /\ zipped = << >>
  THEN NoPack
  ELSE [pack EXCEPT !.step = IF labs = << >> THEN "send" ELSE "status",
                    !.labs = labs, !.zipped = zipped]

\* Some of the enabled labs, in their order.
SomeLabs ==
  {labs \in UNION {[1 .. n -> LabNames] : n \in 0 .. Len(Labs)} :
     \E at \in [DOMAIN labs -> DOMAIN Labs] :
       \A i, k \in DOMAIN labs :
         labs[i] = Labs[at[i]] /\ (i < k => at[i] < at[k])}

\* The clone succeeds, and some of the enabled labs are in the repository.
CloneDone ==
  /\ Cloning
  /\ \E labs \in SomeLabs : pack' = Continue(labs, << >>)
  /\ UNCHANGED <<packRest, hooks, requests, zips, gitlabVars, faults>>

\* It fails: the hook is forgotten, and Gitlab is told nothing.
CloneFails ==
  /\ Cloning
  /\ pack' = NoPack
  /\ UNCHANGED <<packRest, hooks, requests, zips, gitlabVars, faults>>

\* A post of the packager, which waits for it: Gitlab has accepted the status,
\* or the post is lost, and only logged.
PostStatus(state) ==
  \/ /\ status' = [status EXCEPT ![CurrentJob] = state]
     /\ UNCHANGED <<comments, faults>>
  \/ Fault /\ UNCHANGED gitlabVars

\* A running status that is posted without waiting for the post to end.
RunningPostedLate ==
  \/ /\ pack.step = "status"
     /\ pack' = [pack EXCEPT !.step = "zip"]
     /\ UNCHANGED <<packRest, hooks, requests, zips, gitlabVars, faults>>
  \/ \E j \in submitted :
       /\ status' = [status EXCEPT ![j] = "running"]
       /\ UNCHANGED <<packRest, hooks, pack, requests, zips, comments, faults>>

RunningPosted ==
  /\ pack.step = "status"
  /\ PostStatus("running")
  /\ pack' = [pack EXCEPT !.step = "zip"]
  /\ UNCHANGED <<packRest, hooks, requests, zips>>

\* A zip file that is removed as soon as it is built.
ZipDoneUnkept ==
  /\ pack.step = "zip"
  /\ pack' = Continue(Tail(pack.labs), Append(pack.zipped, CurrentJob))
  /\ UNCHANGED <<packRest, hooks, requests, zips, gitlabVars, faults>>

\* zip_recursive succeeds, in a thread of its own.
ZipDone ==
  /\ pack.step = "zip"
  /\ zips' = zips \cup {CurrentJob}
  /\ pack' = Continue(Tail(pack.labs), Append(pack.zipped, CurrentJob))
  /\ UNCHANGED <<packRest, hooks, requests, gitlabVars, faults>>

\* What an interrupted zip leaves behind: nothing, or a part of the file.
PartOfZip ==
  zips' \in {zips, IF pack.step = "zip" THEN zips \cup {CurrentJob} ELSE zips}

ZipFails ==
  /\ pack.step = "zip"
  /\ PartOfZip
  /\ pack' = [pack EXCEPT !.step = "failed"]
  /\ UNCHANGED <<packRest, hooks, requests, gitlabVars, faults>>

FailedPosted ==
  /\ pack.step = "failed"
  /\ PostStatus("failed")
  /\ pack' = Continue(Tail(pack.labs), pack.zipped)
  /\ UNCHANGED <<packRest, hooks, requests, zips>>

\* The requests of the hook go to amqp_publisher one after the other.
SendRequest ==
  /\ pack.step = "send"
  /\ HasRoom(requests)
  /\ requests' = Append(requests, Head(pack.zipped))
  /\ pack' = Continue(<< >>, Tail(pack.zipped))
  /\ UNCHANGED <<packRest, hooks, zips, gitlabVars, faults>>

-----------------------------------------------------------------------------
(* Ending.                                                                 *)

\* The process ends, and with it all that it held in memory.
HubExit ==
  /\ hub' = "down"
  /\ hooks' = {}
  /\ pack' = NoPack
  /\ requests' = << >>
  /\ responses' = << >>
  /\ posting' = {}
  /\ taken' = acked /\ prefetched' = 0
  /\ UNCHANGED <<brokerVars, pushes, acked, gitlabVars>>

HubCrash ==
  /\ hub # "down"
  /\ Fault
  /\ PartOfZip
  /\ HubExit

\* The AMQP connection is lost.  The responses that the server has sent without
\* waiting for acknowledgements (it was given no prefetch count) are there.
HubDisconnect ==
  /\ hub = "open"
  /\ Fault
  /\ hub' = "lost"
  /\ prefetched' = Len(results)
  /\ UNCHANGED <<brokerVars, pushes, hooks, pack, requests, zips, acked, taken,
                 responses, posting, gitlabVars>>

\* The client library notices: amqp_receiver ends without an error, and the
\* process goes on without it until it has something to publish.
HubNotices ==
  /\ hub = "lost"
  /\ hub' = "deaf"
  /\ UNCHANGED <<brokerVars, pushes, hooks, pack, requests, zips, received,
                 responses, posting, gitlabVars, faults>>

-----------------------------------------------------------------------------
(* Publishing requests, receiving responses.                               *)

\* A request that may be published again.
PublishRequestTwice ==
  /\ ~Cloning
  /\ hub = "open"
  /\ requests # << >>
  /\ PublishJob(Head(requests))
  /\ requests' \in {requests, Tail(requests)}
  /\ UNCHANGED <<unacked, nextTag, results, reports, hub, pushes, hooks, pack,
                 zips, received, responses, posting, gitlabVars, faults>>

\* A publication is done when it is written: nobody confirms it.  A request
\* that is written to a connection that is lost is lost too.
PublishRequest ==
  /\ ~Cloning
  /\ requests # << >>
  /\ \/ hub = "open" /\ PublishJob(Head(requests))
     \/ hub = "lost" /\ UNCHANGED <<submitted, queued>>
  /\ requests' = Tail(requests)
  /\ UNCHANGED <<unacked, nextTag, results, reports, hub, pushes, hooks, pack,
                 zips, received, responses, posting, gitlabVars, faults>>

\* The first publication after the loss is noticed fails: amqp_process fails,
\* and the whole process with it.
PublishFails ==
  /\ ~Cloning
  /\ hub = "deaf"
  /\ requests # << >>
  /\ PartOfZip
  /\ HubExit
  /\ UNCHANGED faults

ReceiveNext ==
  /\ ~Cloning
  /\ \/ hub = "open" /\ taken < Len(results)
     \/ hub = "lost" /\ taken < prefetched
  /\ HasRoom(responses)
  /\ responses' = Append(responses, taken + 1)
  /\ taken' = taken + 1
  /\ UNCHANGED <<brokerVars, hub, pushes, hooks, pack, requests, zips,
                 prefetched, posting, gitlabVars, faults>>

\* A response whose acknowledgement is dropped before it is written.
TakeResultUnacked == ReceiveNext /\ UNCHANGED acked

\* amqp_receiver acknowledges a response, and then passes it on.  The
\* acknowledgement is done when it is written, too: when the connection is lost
\* the server will deliver the response again.
TakeResult ==
  /\ ReceiveNext
  /\ acked' = IF hub = "open" THEN taken' ELSE acked

-----------------------------------------------------------------------------
(* Posting.                                                                *)

\* Any report taken for a success.
StateOfAny(yaml) == IF yaml \in Malformed THEN "failed" ELSE "success"

StateOf(yaml) == IF yaml \in Passing THEN "success" ELSE "failed"

AnsweredJob(i) == results[i].job

\* A diagnostic whose status is forgotten when there is a comment.
PostsForWithoutStatus(i) ==
  {[answer |-> i, kind |-> IF results[i].yaml \in Passing THEN "status"
                           ELSE "comment"]}

\* A success gives a status only, a failure gives a status and a comment.
PostsFor(i) ==
  {[answer |-> i, kind |-> kind] :
     kind \in IF results[i].yaml \in Passing THEN {"status"}
              ELSE {"status", "comment"}}

\* A response whose zip file stays when the grade is the maximal one.
HandleResponseKeepingZip ==
  /\ ~Cloning
  /\ responses # << >>
  /\ LET i == Head(responses) IN
       /\ results[i].yaml \notin Malformed
       /\ zips' = IF results[i].yaml \in Passing
                  THEN zips
                  ELSE zips \ {AnsweredJob(i)}
       /\ posting' = posting \cup PostsFor(i)
  /\ responses' = Tail(responses)
  /\ UNCHANGED <<brokerVars, hub, pushes, hooks, pack, requests, received,
                 gitlabVars, faults>>

\* response_to_post of a Report, before the posts are made.  A zip file that is
\* not there, or cannot be removed, gives a warning in the log.
HandleResponse ==
  /\ ~Cloning
  /\ responses # << >>
  /\ LET i == Head(responses) IN
       /\ results[i].yaml \notin Malformed
       /\ \/ zips' = zips \ {AnsweredJob(i)} /\ UNCHANGED faults
          \/ AnsweredJob(i) \in zips /\ UNCHANGED zips /\ Fault
       /\ posting' = posting \cup PostsFor(i)
  /\ responses' = Tail(responses)
  /\ UNCHANGED <<brokerVars, hub, pushes, hooks, pack, requests, received,
                 gitlabVars>>

\* response_to_post fails on what is not a Report, before it removes the zip
\* file; response_poster gives up, and the process with it.
MalformedResponse ==
  /\ ~Cloning
  /\ responses # << >>
  /\ results[Head(responses)].yaml \in Malformed
  /\ PartOfZip
  /\ HubExit
  /\ UNCHANGED faults

\* The posts of all responses are under way at the same time.
PostAccepted(p) ==
  /\ ~Cloning
  /\ p \in posting
  /\ posting' = posting \ {p}
  /\ LET j == AnsweredJob(p.answer) IN
       IF p.kind = "status"
       THEN /\ status' = [status EXCEPT ![j] = StateOf(results[p.answer].yaml)]
            /\ UNCHANGED comments
       ELSE /\ comments' = [comments EXCEPT ![j] = @ + 1]
            /\ UNCHANGED status
  /\ UNCHANGED <<brokerVars, hub, pushes, hooks, pack, requests, zips, received,
                 responses, faults>>

\* A post that fails is logged, and not tried again.
PostLost(p) ==
  /\ ~Cloning
  /\ p \in posting
  /\ Fault
  /\ posting' = posting \ {p}
  /\ UNCHANGED <<brokerVars, hub, pushes, hooks, pack, requests, zips, received,
                 responses, gitlabVars>>

-----------------------------------------------------------------------------

Packager ==
  \/ \E h \in Hooks : TakeHook(h)
  \/ CloneDone \/ CloneFails
  \/ RunningPosted
  \/ ZipDone \/ ZipFails
  \/ FailedPosted
  \/ SendRequest

HubStep ==
  \/ HubStart
  \/ Packager
  \/ PublishRequest \/ PublishFails
  \/ HubNotices
  \/ TakeResult
  \/ HandleResponse \/ MalformedResponse
  \/ \E p \in posting : PostAccepted(p)

HubFault ==
  \/ HubCrash \/ HubDisconnect
  \/ \E p \in posting : PostLost(p)

AnswersOf(j) == {i \in DOMAIN results : results[i].job = j}

\* The testers, seen from here: a submitted job is answered, maybe more than
\* once (JobService is the specification of that service).
GradersAnswer(j, yaml) ==
  /\ j \in submitted
  /\ Cardinality(AnswersOf(j)) < MaxAnswers
  /\ PublishResult([job |-> j, yaml |-> yaml])
  /\ UNCHANGED <<jobQueue, reports, hubVars>>

HubNext ==
  \/ \E h \in Hooks : Push(h)
  \/ HubStep
  \/ HubFault
  \/ \E j \in Jobs, yaml \in Yamls : GradersAnswer(j, yaml)

hubSystemVars == <<brokerVars, hubVars>>

HubSpec == HubInit /\ [][HubNext]_hubSystemVars

\* What the hub does when nothing fails: every part goes on, clones and zips
\* come to an end, one way or the other, and a process that went down is
\* started again.
HubFairness ==
  /\ WF_hubSystemVars(HubStart)
  /\ WF_hubSystemVars(\E h \in Hooks : TakeHook(h))
  /\ WF_hubSystemVars(CloneDone \/ CloneFails)
  /\ WF_hubSystemVars(RunningPosted)
  /\ WF_hubSystemVars(pack.step = "zip" /\ pack.hook \notin Slow /\ (ZipDone \/ ZipFails))
  /\ WF_hubSystemVars(FailedPosted)
  /\ WF_hubSystemVars(SendRequest)
  /\ WF_hubSystemVars(PublishRequest)
  /\ WF_hubSystemVars(PublishFails)
  /\ WF_hubSystemVars(HubNotices)
  /\ WF_hubSystemVars(TakeResult)
  /\ WF_hubSystemVars(HandleResponse)
  /\ WF_hubSystemVars(MalformedResponse)
  /\ WF_hubSystemVars(\E p \in posting : PostAccepted(p))

\* And the testers answer every job that was submitted.
FairHubSpec ==
  /\ HubSpec
  /\ HubFairness
  /\ \A j \in Jobs :
       WF_hubSystemVars(
         AnswersOf(j) = {} /\ \E yaml \in Yamls : GradersAnswer(j, yaml))

-----------------------------------------------------------------------------
(* Properties.                                                             *)

\* The jobs that are on their way to the queue.
Outgoing ==
  Range(requests) \cup (IF pack = NoPack THEN {} ELSE Range(pack.zipped))

\* The zip file of a job is there as long as a tester may need it for its
\* first answer: from before the job is sent until it has an answer, across
\* restarts (package zips first, response_to_post removes on an answer).
ZipKept ==
  \A j \in submitted \cup Outgoing : ~Answered(j) => j \in zips

\* A grade is never covered by the running status of the same job, because
\* package waits for that post before it goes on (and a push is graded once).
GradeIsKept ==
  [][\A j \in Jobs :
       status[j] \in {"success", "failed"} => status'[j] # "running"
    ]_hubSystemVars

\* What Gitlab shows is founded on an answer: a success on a passing one, a
\* failure on another one unless the job could not even be packaged.
VerdictIsFounded ==
  \A j \in Jobs :
    /\ status[j] = "success" =>
         \E i \in AnswersOf(j) : results[i].yaml \in Passing
    /\ status[j] = "failed" =>
         \/ \E i \in AnswersOf(j) : results[i].yaml \notin Passing
         \/ j \notin submitted \cup Outgoing

FailingAnswers(j) == {i \in AnswersOf(j) : results[i].yaml \notin Passing}

\* Each failing answer makes one comment at most, and one more for each fault of
\* the hub: of all that it passes on before it notices that its connection is
\* lost, no acknowledgement reaches the server (amqp_receiver acknowledges each
\* response once, whatever becomes of it).
CommentsAreFounded ==
  \A j \in Jobs :
    comments[j] <= Cardinality(FailingAnswers(j)) * (1 + faults)

\* Nothing fails, and the testers send reports.
NothingFailed ==
  faults = 0 /\ \A i \in DOMAIN results : results[i].yaml \notin Malformed

\* No answer to job j is still to be received, handled or posted.
DealtWith(j) ==
  \A i \in AnswersOf(j) :
    /\ i <= taken
    /\ i \notin Range(responses)
    /\ \A p \in posting : p.answer # i

\* Zip files do not pile up: one that is left on the disk is still to be used
\* (it is being sent, or its job is not answered, or an answer to it is under
\* way), or else a zip that failed, a fault of the process or a diagnostic that
\* is not a report has left it.  Nothing removes such a file later.
NoZipLeak ==
  NothingFailed =>
    \A j \in zips :
      \/ j \in Outgoing
      \/ j \in submitted /\ ~(Answered(j) /\ DealtWith(j))
      \/ j \notin submitted /\ (\/ status[j] = "failed"
                                \/ pack.step = "failed" /\ j = CurrentJob)

\* Once all the answers to a job are dealt with, and as nothing failed, its
\* status is that of one of its answers (the posts are not ordered) and it has
\* one comment per failing answer.
GradeIsReported ==
  NothingFailed =>
    \A j \in Jobs : Answered(j) /\ DealtWith(j) =>
      /\ \E i \in AnswersOf(j) : status[j] = StateOf(results[i].yaml)
      /\ comments[j] = Cardinality(FailingAnswers(j))

\* What makes the invariants above inductive.  A process that is down holds
\* nothing, and all that is passed on is acknowledged unless a fault has cut the
\* connection...
DownIsIdle ==
  /\ hub = "down" =>
       /\ hooks = {} /\ pack = NoPack /\ requests = << >>
       /\ responses = << >> /\ posting = {}
  /\ hub \in {"down", "open"} => taken = acked
  /\ hub \in {"lost", "deaf"} => faults > 0

\* ... the packager takes each lab of its hook once, and then sends ...
PackInOrder ==
  pack # NoPack =>
    /\ pack.hook \in pushes \ hooks
    /\ pack.step \in {"status", "zip", "failed"} <=> pack.labs # << >>
    /\ pack.step = "clone" => pack.zipped = << >>
    /\ pack.step = "send" => pack.zipped # << >>
    /\ IsInjective(pack.labs) /\ IsInjective(pack.zipped)
    /\ \A j \in Range(pack.zipped) :
         j[1] = pack.hook /\ j[2] \notin Range(pack.labs)

\* ... so that a job is sent once, after all the labs of its hook are packaged.
SentInOrder ==
  /\ IsInjective(requests)
  /\ Range(requests) \cap submitted = {}
  /\ \A j \in submitted \cup Range(requests) :
       /\ j[1] \in pushes \ hooks
       /\ pack # NoPack /\ j[1] = pack.hook =>
            pack.step = "send" /\ j \notin Range(pack.zipped)

\* A job that is still to be packaged, or is being packaged, has no grade.
ToPackage(j) ==
  \/ j[1] \notin pushes
  \/ j[1] \in hooks
  \/ /\ pack # NoPack
     /\ j[1] = pack.hook
     /\ pack.step = "clone" \/ j[2] \in Range(pack.labs)

NotGradedYet ==
  \A j \in Jobs : ToPackage(j) => status[j] \in {"none", "running"}

\* A response is received once over each connection.
AnswersInOrder ==
  /\ \A i \in DOMAIN results : results[i].job \in submitted
  /\ IsInjective(responses)
  /\ \A i \in Range(responses) \cup {p.answer : p \in posting} : i <= taken
  /\ \A p \in posting :
       p.answer \notin Range(responses) /\ p \in PostsFor(p.answer)

\* The failing answers whose comment is still to come: those that the server
\* has, those that it will deliver once more, and those that are received.
Untold(j) == {i \in FailingAnswers(j) : i > taken}

Again(j) ==
  {i \in FailingAnswers(j) : hub \in {"lost", "deaf"} /\ i > acked}

Telling(j) ==
  {i \in FailingAnswers(j) :
     i \in Range(responses) \/ [answer |-> i, kind |-> "comment"] \in posting}

CommentsCounted ==
  \A j \in Jobs :
    LET all == comments[j] + Cardinality(Telling(j)) + Cardinality(Untold(j)) IN
      /\ all + Cardinality(Again(j)) <= Cardinality(FailingAnswers(j)) * (1 + faults)
      /\ NothingFailed => all = Cardinality(FailingAnswers(j))

\* The answers whose zip file was removed.
Handled == {i \in DOMAIN results : i <= taken /\ i \notin Range(responses)}

ZipsInUse ==
  NothingFailed =>
    /\ hub \notin {"lost", "deaf"}
    /\ \A i \in Handled : AnsweredJob(i) \notin zips
    /\ \A j \in zips :
         \/ j \in submitted \cup Outgoing
         \/ status[j] = "failed"
         \/ pack.step = "failed" /\ j = CurrentJob

StatusFollows ==
  NothingFailed =>
    \A i \in Handled :
      \/ [answer |-> i, kind |-> "status"] \in posting
      \/ \E k \in AnswersOf(AnsweredJob(i)) :
           status[AnsweredJob(i)] = StateOf(results[k].yaml)

HubInv ==
  /\ HubTypeOK
  /\ DownIsIdle
  /\ PackInOrder
  /\ SentInOrder
  /\ NotGradedYet
  /\ AnswersInOrder
  /\ ZipKept
  /\ VerdictIsFounded
  /\ CommentsCounted
  /\ ZipsInUse
  /\ StatusFollows

\* A commit does not stay in progress for ever (without faults nor malformed
\* diagnostics).
EveryJobReported ==
  \A j \in Jobs : status[j] = "running" ~> status[j] \in {"success", "failed"}

\* The README: "when it gets the diagnostic of this job run, it removes the
\* corresponding zip file from the file system".
ZipRemovedOnDiagnostic ==
  \A j \in Jobs : j \in submitted ~> j \notin zips

\* The README: "A configurable number of zip processes can occur in parallel":
\* with two threads, a slow hook does not hold up another one.
PackagingInParallel ==
  \A h \in Hooks \ Slow : h \in hooks ~> h \notin hooks
=============================================================================
