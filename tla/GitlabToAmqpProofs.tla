------------------------- MODULE GitlabToAmqpProofs -------------------------
(***************************************************************************)
(* Proofs about the hub, for any number of hooks, of labs and of answers,  *)
(* and any number of faults.                                               *)
(***************************************************************************)
EXTENDS GitlabToAmqp, SequenceLemmas

-----------------------------------------------------------------------------
(* Types.                                                                  *)

\* The packager at work.
LEMMA PackingIs ==
  ASSUME HubTypeOK, pack # NoPack
  PROVE  /\ pack \in Packing
         /\ pack.step \in {"clone", "status", "zip", "failed", "send"}
         /\ pack.hook \in Hooks
         /\ pack.labs \in Seq(LabNames)
         /\ pack.zipped \in Seq(Jobs)
<1>1. pack \in Packing
  BY DEF HubTypeOK
<1>2. QED
  BY <1>1 DEF Packing

\* The job that the packager is at: its hook, and the first of the labs that
\* are left.
LEMMA CurrentJobIs ==
  ASSUME HubTypeOK, PackInOrder, pack.step \in {"status", "zip", "failed"}
  PROVE  /\ pack \in Packing /\ pack # NoPack
         /\ pack.labs \in Seq(LabNames) /\ pack.labs # << >>
         /\ Tail(pack.labs) \in Seq(LabNames)
         /\ CurrentJob \in Jobs
         /\ CurrentJob[1] = pack.hook
         /\ CurrentJob[2] = Head(pack.labs)
<1>1. pack # NoPack
  BY DEF NoPack
<1>2. pack.labs # << >>
  BY <1>1 DEF PackInOrder
<1>3. /\ Head(pack.labs) \in LabNames
      /\ Tail(pack.labs) \in Seq(LabNames)
  BY <1>1, <1>2, PackingIs, RangeTail
<1>4. QED
  BY <1>1, <1>2, <1>3, PackingIs, HubAssumption DEF CurrentJob, LabNames

\* What the packager goes on with.
LEMMA Continued ==
  ASSUME pack \in Packing, NEW labs \in Seq(LabNames), NEW zipped \in Seq(Jobs),
         pack' = Continue(labs, zipped)
  PROVE  /\ pack' \in {NoPack} \cup Packing
         /\ labs = << >> /\ zipped = << >> => pack' = NoPack
         /\ labs # << >> \/ zipped # << >> =>
              /\ pack' # NoPack
              /\ pack'.step = IF labs = << >> THEN "send" ELSE "status"
              /\ pack'.hook = pack.hook
              /\ pack'.labs = labs /\ pack'.zipped = zipped
<1>1. CASE labs = << >> /\ zipped = << >>
  BY <1>1 DEF Continue
<1>2. CASE labs # << >> \/ zipped # << >>
  <2>1. pack' = [pack EXCEPT !.step = IF labs = << >> THEN "send" ELSE "status",
                             !.labs = labs, !.zipped = zipped]
    BY <1>2 DEF Continue
  <2>2. /\ pack' \in Packing
        /\ pack'.step = IF labs = << >> THEN "send" ELSE "status"
        /\ pack'.hook = pack.hook /\ pack'.labs = labs /\ pack'.zipped = zipped
    BY <2>1 DEF Packing
  <2>3. pack' # NoPack
    BY <2>2 DEF NoPack
  <2>4. QED
    BY <1>2, <2>2, <2>3
<1>3. QED
  BY <1>1, <1>2

\* The labs that a hook may trigger are named once.
LEMMA SomeLabsType ==
  ASSUME HubTypeOK, NEW labs \in SomeLabs
  PROVE  labs \in Seq(LabNames) /\ IsInjective(labs)
<1>1. PICK n \in 0 .. Len(Labs) : labs \in [1 .. n -> LabNames]
  BY DEF SomeLabs
<1>2. PICK at \in [DOMAIN labs -> DOMAIN Labs] :
        \A i, k \in DOMAIN labs :
          labs[i] = Labs[at[i]] /\ (i < k => at[i] < at[k])
  BY DEF SomeLabs
<1>3. n \in Nat /\ DOMAIN labs = 1 .. n /\ DOMAIN Labs \subseteq Nat
  BY <1>1, HubAssumption
<1>4. labs \in Seq(LabNames)
  BY <1>1, <1>3
<1>5. ASSUME NEW i \in DOMAIN labs, NEW k \in DOMAIN labs, labs[i] = labs[k]
      PROVE  i = k
  <2>1. at[i] \in DOMAIN Labs /\ at[k] \in DOMAIN Labs /\ Labs[at[i]] = Labs[at[k]]
    BY <1>2, <1>5
  <2>2. at[i] = at[k]
    BY <2>1, HubAssumption DEF IsInjective
  <2>3. ~(i < k) /\ ~(k < i)
    BY <1>2, <1>3, <2>1, <2>2
  <2>4. QED
    BY <1>3, <2>3
<1>6. QED
  BY <1>4, <1>5 DEF IsInjective

\* The three ways in which the process ends.
Ends ==
  /\ HubExit
  /\ PartOfZip
  /\ UNCHANGED faults \/ Fault

\* What ends the process.
LEMMA EndsIs ==
  ASSUME HubCrash \/ PublishFails \/ MalformedResponse
  PROVE  Ends
BY DEF HubCrash, PublishFails, MalformedResponse, Ends

\* The part of a zip file that a failure leaves is that of a job.
LEMMA PartOfZipType ==
  ASSUME HubTypeOK, PackInOrder, PartOfZip
  PROVE  zips' \subseteq Jobs
BY CurrentJobIs DEF PartOfZip, HubTypeOK

\* A fault is counted within its bound.
LEMMA FaultType ==
  ASSUME HubTypeOK, UNCHANGED faults \/ Fault
  PROVE  faults' \in 0 .. MaxFaults
BY HubAssumption DEF HubTypeOK, Fault

\* The server keeps its types when nothing happens to it.
LEMMA SameBroker ==
  ASSUME HubTypeOK, UNCHANGED brokerVars
  PROVE  BrokerTypeOK'
BY DEF HubTypeOK, BrokerTypeOK, brokerVars

\* What was received is in the log.
LEMMA ReceivedAre ==
  ASSUME HubTypeOK
  PROVE  /\ acked \in Nat /\ taken \in Nat /\ Len(results) \in Nat
         /\ acked <= taken /\ taken <= Len(results)
         /\ DOMAIN results = 1 .. Len(results)
         /\ \A i \in Range(responses) : i \in Nat /\ i \in DOMAIN results
         /\ \A p \in posting : p.answer \in Nat /\ p.answer \in DOMAIN results
<1>1. results \in Seq(Response)
  BY DEF HubTypeOK, BrokerTypeOK
<1>2. Len(results) \in Nat /\ DOMAIN results = 1 .. Len(results)
  BY <1>1
<1>3. \A i \in Range(responses) : i \in DOMAIN results
  BY DEF HubTypeOK, Range
<1>4. QED
  BY <1>2, <1>3 DEF HubTypeOK

\* Every step of the hub, and every answer, keeps every variable in its type.
LEMMA HubTypeStep ==
  ASSUME HubTypeOK, PackInOrder, [HubNext]_hubSystemVars
  PROVE  HubTypeOK'
<1>1. ASSUME NEW h \in Hooks, Push(h)
      PROVE  HubTypeOK'
  BY <1>1 DEF HubTypeOK, BrokerTypeOK, Push, brokerVars, received, gitlabVars
<1>2. CASE HubStart
  BY <1>2 DEF HubTypeOK, BrokerTypeOK, HubStart, brokerVars, received, gitlabVars
<1>3. ASSUME NEW h \in Hooks, TakeHook(h)
      PROVE  HubTypeOK'
  <2>1. pack' \in Packing
    BY <1>3 DEF TakeHook, Packing
  <2>2. QED
    BY <1>3, <2>1
    DEF HubTypeOK, BrokerTypeOK, TakeHook, packRest, brokerVars, received,
        gitlabVars
<1>4. ASSUME pack' \in {NoPack} \cup Packing, UNCHANGED <<packRest, hooks>>,
             requests' \in Seq(Jobs), zips' \subseteq Jobs, UNCHANGED comments,
             status' \in [Jobs -> {"none", "running", "success", "failed"}],
             UNCHANGED faults \/ Fault
      PROVE  HubTypeOK'
  <2>1. BrokerTypeOK' /\ faults' \in 0 .. MaxFaults
    BY <1>4, SameBroker, FaultType DEF packRest
  <2>2. QED
    BY <1>4, <2>1 DEF HubTypeOK, packRest, brokerVars, received
<1>5. CASE CloneDone
  <2>1. pack \in Packing /\ << >> \in Seq(Jobs)
    <3>1. pack # NoPack
      BY <1>5 DEF CloneDone, Cloning, NoPack
    <3>2. QED
      BY <3>1, PackingIs
  <2>2. PICK labs \in SomeLabs : pack' = Continue(labs, << >>)
    BY <1>5 DEF CloneDone
  <2>3. pack' \in {NoPack} \cup Packing
    BY <2>1, <2>2, SomeLabsType, Continued
  <2>4. QED
    BY <1>4, <1>5, <2>3 DEF CloneDone, HubTypeOK, gitlabVars
<1>6. CASE CloneFails
  BY <1>4, <1>6 DEF CloneFails, HubTypeOK, gitlabVars
<1>7. ASSUME NEW state \in {"running", "failed"}, PostStatus(state),
             pack.step \in {"status", "failed"}
      PROVE  /\ status' \in [Jobs -> {"none", "running", "success", "failed"}]
             /\ UNCHANGED comments
             /\ UNCHANGED faults \/ Fault
  BY <1>7 DEF PostStatus, HubTypeOK, gitlabVars
<1>8. CASE RunningPosted
  <2>1. pack' \in Packing
    BY <1>8, CurrentJobIs DEF RunningPosted, Packing
  <2>2. QED
    BY <1>4, <1>7, <1>8, <2>1 DEF RunningPosted, HubTypeOK
<1>9. CASE ZipDone
  <2>1. pack' \in {NoPack} \cup Packing
    <3>1. Append(pack.zipped, CurrentJob) \in Seq(Jobs)
      BY <1>9, CurrentJobIs, PackingIs, AppendIs DEF ZipDone
    <3>2. pack \in Packing /\ Tail(pack.labs) \in Seq(LabNames)
      BY <1>9, CurrentJobIs DEF ZipDone
    <3>3. pack' = Continue(Tail(pack.labs), Append(pack.zipped, CurrentJob))
      BY <1>9 DEF ZipDone
    <3>4. QED
      BY <3>1, <3>2, <3>3, Continued
  <2>2. QED
    BY <1>4, <1>9, <2>1, CurrentJobIs DEF ZipDone, HubTypeOK, gitlabVars
<1>10. CASE ZipFails
  <2>1. pack' \in Packing
    BY <1>10, CurrentJobIs DEF ZipFails, Packing
  <2>2. QED
    BY <1>4, <1>10, <2>1, PartOfZipType DEF ZipFails, HubTypeOK, gitlabVars
<1>11. CASE FailedPosted
  <2>1. pack' \in {NoPack} \cup Packing
    <3>1. pack \in Packing /\ Tail(pack.labs) \in Seq(LabNames) /\ pack # NoPack
      BY <1>11, CurrentJobIs DEF FailedPosted
    <3>2. pack.zipped \in Seq(Jobs)
      BY <3>1, PackingIs
    <3>3. pack' = Continue(Tail(pack.labs), pack.zipped)
      BY <1>11 DEF FailedPosted
    <3>4. QED
      BY <3>1, <3>2, <3>3, Continued
  <2>2. QED
    BY <1>4, <1>7, <1>11, <2>1 DEF FailedPosted, HubTypeOK
<1>12. CASE SendRequest
  <2>1. pack \in Packing /\ pack.zipped \in Seq(Jobs) /\ pack.zipped # << >>
    <3>1. pack # NoPack
      BY <1>12 DEF SendRequest, NoPack
    <3>2. QED
      BY <1>12, <3>1, PackingIs DEF SendRequest, PackInOrder
  <2>2. Head(pack.zipped) \in Jobs /\ Tail(pack.zipped) \in Seq(Jobs)
    BY <2>1, RangeTail
  <2>3. pack' \in {NoPack} \cup Packing
    <3>1. << >> \in Seq(LabNames)
      OBVIOUS
    <3>2. pack' = Continue(<< >>, Tail(pack.zipped))
      BY <1>12 DEF SendRequest
    <3>3. QED
      BY <2>1, <2>2, <3>1, <3>2, Continued
  <2>4. requests' \in Seq(Jobs)
    BY <1>12, <2>2, AppendIs DEF SendRequest, HubTypeOK
  <2>5. QED
    BY <1>4, <1>12, <2>3, <2>4 DEF SendRequest, HubTypeOK, gitlabVars
<1>13. CASE PublishRequest
  <2>1. Head(requests) \in Jobs /\ Tail(requests) \in Seq(Jobs)
    BY <1>13, RangeTail DEF PublishRequest, HubTypeOK
  <2>2. QED
    BY <1>13, <2>1
    DEF HubTypeOK, BrokerTypeOK, PublishRequest, PublishJob, received, gitlabVars
<1>14. CASE Ends
  <2>1. zips' \subseteq Jobs /\ BrokerTypeOK' /\ faults' \in 0 .. MaxFaults
    BY <1>14, PartOfZipType, SameBroker, FaultType DEF Ends, HubExit
  <2>2. /\ UNCHANGED <<pushes, status, comments, acked, results>>
        /\ hub' = "down" /\ taken' = acked /\ prefetched' = 0 /\ hooks' = {} /\ pack' = NoPack
        /\ requests' = << >> /\ responses' = << >> /\ posting' = {}
    BY <1>14 DEF Ends, HubExit, brokerVars, gitlabVars
  <2>3. QED
    BY <2>1, <2>2 DEF HubTypeOK
<1>15. CASE TakeResult
  <2>1. /\ acked \in Nat /\ taken \in Nat /\ acked <= taken
        /\ taken + 1 <= Len(results) /\ taken + 1 \in DOMAIN results
    BY <1>15 DEF HubTypeOK, BrokerTypeOK, TakeResult, ReceiveNext
  <2>2. responses' \in Seq(DOMAIN results)
    BY <1>15, <2>1, AppendIs DEF HubTypeOK, TakeResult, ReceiveNext
  <2>3. taken' = taken + 1 /\ acked' \in {acked, taken'}
    BY <1>15 DEF TakeResult, ReceiveNext
  <2>4. taken' \in 0 .. Len(results) /\ acked' \in 0 .. taken'
    BY <2>1, <2>3, ReceivedAre
  <2>5. BrokerTypeOK'
    BY <1>15, SameBroker DEF TakeResult, ReceiveNext
  <2>6. UNCHANGED <<hub, pushes, hooks, pack, requests, zips, prefetched, posting,
                    status, comments, results, faults>>
    BY <1>15 DEF TakeResult, ReceiveNext, brokerVars, gitlabVars
  <2>7. QED
    BY <2>2, <2>4, <2>5, <2>6 DEF HubTypeOK
<1>16. CASE HandleResponse
  <2>1. Head(responses) \in DOMAIN results /\ Tail(responses) \in Seq(DOMAIN results)
    BY <1>16, RangeTail DEF HandleResponse, HubTypeOK
  <2>2. /\ PostsFor(Head(responses)) \subseteq Post
        /\ \A p \in PostsFor(Head(responses)) : p.answer \in DOMAIN results
    <3>1. DOMAIN results \subseteq Nat \ {0}
      BY DEF HubTypeOK, BrokerTypeOK
    <3>2. QED
      BY <2>1, <3>1 DEF PostsFor, Post
  <2>3. BrokerTypeOK' /\ faults' \in 0 .. MaxFaults
    BY <1>16, SameBroker, FaultType DEF HandleResponse
  <2>4. zips' \subseteq zips
    BY <1>16 DEF HandleResponse
  <2>5. /\ responses' = Tail(responses)
        /\ posting' = posting \cup PostsFor(Head(responses))
        /\ UNCHANGED <<hub, pushes, hooks, pack, requests, taken, acked, prefetched,
                       status, comments, results>>
    BY <1>16 DEF HandleResponse, brokerVars, received, gitlabVars
  <2>6. QED
    BY <2>1, <2>2, <2>3, <2>4, <2>5 DEF HubTypeOK
<1>17. ASSUME NEW p \in posting, PostAccepted(p)
       PROVE  HubTypeOK'
  <2>1. StateOf(results[p.answer].yaml) \in {"success", "failed"}
    BY DEF StateOf
  <2>2. /\ status' \in [Jobs -> {"none", "running", "success", "failed"}]
        /\ comments' \in [Jobs -> Nat]
    <3>1. AnsweredJob(p.answer) \in Jobs
      <4>1. p.answer \in DOMAIN results /\ results \in Seq(Response)
        BY <1>17 DEF HubTypeOK, BrokerTypeOK
      <4>2. results[p.answer] \in Response
        BY <4>1
      <4>3. QED
        BY <4>2 DEF AnsweredJob, Response
    <3>2. CASE p.kind = "status"
      BY <1>17, <2>1, <3>1, <3>2 DEF HubTypeOK, PostAccepted
    <3>3. CASE p.kind # "status"
      BY <1>17, <3>1, <3>3 DEF HubTypeOK, PostAccepted
    <3>4. QED
      BY <3>2, <3>3
  <2>3. BrokerTypeOK'
    BY <1>17, SameBroker DEF PostAccepted
  <2>4. QED
    BY <1>17, <2>2, <2>3 DEF HubTypeOK, PostAccepted, brokerVars, received
<1>18. ASSUME NEW p \in posting, PostLost(p)
       PROVE  HubTypeOK'
  <2>1. BrokerTypeOK' /\ faults' \in 0 .. MaxFaults
    BY <1>18, SameBroker, FaultType DEF PostLost
  <2>2. QED
    BY <1>18, <2>1 DEF HubTypeOK, PostLost, brokerVars, received, gitlabVars
<1>19. CASE HubDisconnect
  <2>1. BrokerTypeOK' /\ faults' \in 0 .. MaxFaults
    BY <1>19, SameBroker, FaultType DEF HubDisconnect
  <2>2. prefetched' \in 0 .. Len(results)
    BY <1>19, ReceivedAre DEF HubDisconnect
  <2>3. QED
    BY <1>19, <2>1, <2>2 DEF HubTypeOK, HubDisconnect, brokerVars, gitlabVars
<1>20. ASSUME NEW j \in Jobs, NEW yaml \in Yamls, GradersAnswer(j, yaml)
       PROVE  HubTypeOK'
  <2> DEFINE r == [job |-> j, yaml |-> yaml]
  <2>1. r \in Response /\ results \in Seq(Response) /\ results' = Append(results, r)
    BY <1>20 DEF GradersAnswer, PublishResult, Response, HubTypeOK, BrokerTypeOK
  <2>2. /\ results' \in Seq(Response)
        /\ DOMAIN results \subseteq DOMAIN results'
        /\ 0 .. Len(results) \subseteq 0 .. Len(results')
    BY <2>1, AppendIs
  <2>3. responses \in Seq(DOMAIN results')
    BY <2>2, SeqWiden DEF HubTypeOK
  <2>4. QED
    BY <1>20, <2>2, <2>3
    DEF HubTypeOK, BrokerTypeOK, GradersAnswer, jobQueue, hubVars, hubProcess,
        received, gitlabVars
<1>21. CASE HubNotices \/ UNCHANGED hubSystemVars
  BY <1>21
  DEF HubTypeOK, BrokerTypeOK, HubNotices, hubSystemVars, brokerVars, hubVars,
      hubProcess, received, gitlabVars
<1>22. QED
  BY <1>1, <1>2, <1>3, <1>5, <1>6, <1>8, <1>9, <1>10, <1>11, <1>12, <1>13,
     <1>14, <1>15, <1>16, <1>17, <1>18, <1>19, <1>20, <1>21, EndsIs
  DEF HubNext, HubStep, HubFault, Packager

-----------------------------------------------------------------------------
(* What the packager does.                                                 *)

\* After the clone, the packager has labs to go through, or nothing to do.
LEMMA CloneDoneIs ==
  ASSUME HubTypeOK, CloneDone
  PROVE  /\ pack # NoPack /\ pack.step = "clone"
         /\ \/ pack' = NoPack
            \/ /\ pack' # NoPack
               /\ pack'.step = "status"
               /\ pack'.hook = pack.hook
               /\ pack'.labs \in Seq(LabNames) /\ pack'.labs # << >>
               /\ IsInjective(pack'.labs)
               /\ pack'.zipped = << >>
<1>1. pack # NoPack /\ pack.step = "clone"
  BY DEF CloneDone, Cloning, NoPack
<1>2. pack \in Packing /\ << >> \in Seq(Jobs)
  BY <1>1, PackingIs
<1>3. PICK labs \in SomeLabs : pack' = Continue(labs, << >>)
  BY DEF CloneDone
<1>4. labs \in Seq(LabNames) /\ IsInjective(labs)
  BY SomeLabsType
<1>5. CASE labs = << >>
  BY <1>1, <1>3, <1>5 DEF Continue
<1>6. CASE labs # << >>
  BY <1>1, <1>2, <1>3, <1>4, <1>6, Continued
<1>7. QED
  BY <1>5, <1>6

\* Once the running status is posted, the lab is zipped.
LEMMA RunningPostedIs ==
  ASSUME HubTypeOK, PackInOrder, RunningPosted
  PROVE  /\ pack # NoPack /\ pack.step = "status"
         /\ pack' # NoPack /\ pack'.step = "zip"
         /\ pack'.hook = pack.hook /\ pack'.labs = pack.labs
         /\ pack'.zipped = pack.zipped
<1>1. pack # NoPack /\ pack.step = "status" /\ pack \in Packing
  BY CurrentJobIs DEF RunningPosted
<1>2. /\ pack'.step = "zip" /\ pack'.hook = pack.hook
      /\ pack'.labs = pack.labs /\ pack'.zipped = pack.zipped
  BY <1>1 DEF RunningPosted, Packing
<1>3. QED
  BY <1>1, <1>2 DEF NoPack

\* A zip that fails has its status posted next.
LEMMA ZipFailsIs ==
  ASSUME HubTypeOK, PackInOrder, ZipFails
  PROVE  /\ pack # NoPack /\ pack.step = "zip"
         /\ pack' # NoPack /\ pack'.step = "failed"
         /\ pack'.hook = pack.hook /\ pack'.labs = pack.labs
         /\ pack'.zipped = pack.zipped
<1>1. pack # NoPack /\ pack.step = "zip" /\ pack \in Packing
  BY CurrentJobIs DEF ZipFails
<1>2. /\ pack'.step = "failed" /\ pack'.hook = pack.hook
      /\ pack'.labs = pack.labs /\ pack'.zipped = pack.zipped
  BY <1>1 DEF ZipFails, Packing
<1>3. QED
  BY <1>1, <1>2 DEF NoPack

\* The lab that is packaged is not packaged again.
LEMMA NextLab ==
  ASSUME HubTypeOK, PackInOrder, pack.step \in {"status", "zip", "failed"}
  PROVE  /\ IsInjective(Tail(pack.labs))
         /\ Range(Tail(pack.labs)) = Range(pack.labs) \ {CurrentJob[2]}
         /\ CurrentJob[2] \in Range(pack.labs)
         /\ CurrentJob \notin Range(pack.zipped)
<1>1. /\ pack # NoPack /\ pack.labs \in Seq(LabNames) /\ pack.labs # << >>
      /\ CurrentJob[2] = Head(pack.labs)
      /\ IsInjective(pack.labs)
  BY CurrentJobIs DEF PackInOrder
<1>2. /\ IsInjective(Tail(pack.labs))
      /\ Range(Tail(pack.labs)) = Range(pack.labs) \ {CurrentJob[2]}
      /\ CurrentJob[2] \in Range(pack.labs)
  BY <1>1, InjectiveTail, RangeTail
<1>3. QED
  BY <1>1, <1>2 DEF PackInOrder

\* A zip that ends well is one more job to send, and the next lab follows.
LEMMA ZipDoneIs ==
  ASSUME HubTypeOK, PackInOrder, ZipDone
  PROVE  /\ pack # NoPack /\ pack.step = "zip" /\ CurrentJob \in Jobs
         /\ pack' # NoPack
         /\ pack'.step = IF Tail(pack.labs) = << >> THEN "send" ELSE "status"
         /\ pack'.hook = pack.hook
         /\ pack'.labs = Tail(pack.labs)
         /\ pack'.zipped = Append(pack.zipped, CurrentJob)
         /\ pack'.zipped # << >>
         /\ IsInjective(pack'.zipped)
         /\ Range(pack'.zipped) = Range(pack.zipped) \cup {CurrentJob}
<1>1. /\ pack # NoPack /\ pack.step = "zip" /\ pack \in Packing
      /\ Tail(pack.labs) \in Seq(LabNames) /\ CurrentJob \in Jobs
  BY CurrentJobIs DEF ZipDone
<1>2. pack.zipped \in Seq(Jobs)
  BY <1>1, PackingIs
<1>3. pack' = Continue(Tail(pack.labs), Append(pack.zipped, CurrentJob))
  BY DEF ZipDone
<1>4. /\ Append(pack.zipped, CurrentJob) \in Seq(Jobs)
      /\ Append(pack.zipped, CurrentJob) # << >>
  BY <1>1, <1>2
<1>5. IsInjective(pack.zipped) /\ CurrentJob \notin Range(pack.zipped)
  BY <1>1, NextLab DEF PackInOrder
<1>6. /\ IsInjective(Append(pack.zipped, CurrentJob))
      /\ Range(Append(pack.zipped, CurrentJob)) = Range(pack.zipped) \cup {CurrentJob}
  BY <1>1, <1>2, <1>5, InjectiveAppend, RangeAppend
<1>7. /\ pack' # NoPack
      /\ pack'.step = IF Tail(pack.labs) = << >> THEN "send" ELSE "status"
      /\ pack'.hook = pack.hook /\ pack'.labs = Tail(pack.labs)
      /\ pack'.zipped = Append(pack.zipped, CurrentJob)
  BY <1>1, <1>3, <1>4, Continued
<1>8. QED
  BY <1>1, <1>4, <1>6, <1>7

\* Once a failure is posted the next lab follows, or the jobs are sent, or
\* there is nothing to do.
LEMMA FailedPostedIs ==
  ASSUME HubTypeOK, PackInOrder, FailedPosted
  PROVE  /\ pack # NoPack /\ pack.step = "failed" /\ CurrentJob \in Jobs
         /\ \/ pack' = NoPack /\ Range(pack.zipped) = {}
            \/ /\ pack' # NoPack
               /\ pack'.step = IF Tail(pack.labs) = << >> THEN "send" ELSE "status"
               /\ pack'.hook = pack.hook
               /\ pack'.labs = Tail(pack.labs)
               /\ pack'.zipped = pack.zipped
               /\ Tail(pack.labs) # << >> \/ pack.zipped # << >>
<1>1. /\ pack # NoPack /\ pack.step = "failed" /\ pack \in Packing
      /\ Tail(pack.labs) \in Seq(LabNames) /\ CurrentJob \in Jobs
  BY CurrentJobIs DEF FailedPosted
<1>2. pack.zipped \in Seq(Jobs)
  BY <1>1, PackingIs
<1>3. pack' = Continue(Tail(pack.labs), pack.zipped)
  BY DEF FailedPosted
<1>4. CASE Tail(pack.labs) = << >> /\ pack.zipped = << >>
  BY <1>1, <1>3, <1>4, RangeEmpty DEF Continue
<1>5. CASE Tail(pack.labs) # << >> \/ pack.zipped # << >>
  BY <1>1, <1>2, <1>3, <1>5, Continued
<1>6. QED
  BY <1>4, <1>5

\* The jobs that were zipped are sent in order.
LEMMA SendRequestIs ==
  ASSUME HubTypeOK, PackInOrder, SendRequest
  PROVE  /\ pack # NoPack /\ pack.step = "send"
         /\ Head(pack.zipped) \in Jobs
         /\ Head(pack.zipped) \in Range(pack.zipped)
         /\ IsInjective(Tail(pack.zipped))
         /\ Range(Tail(pack.zipped)) = Range(pack.zipped) \ {Head(pack.zipped)}
         /\ \/ pack' = NoPack /\ Tail(pack.zipped) = << >>
            \/ /\ pack' # NoPack
               /\ pack'.step = "send"
               /\ pack'.hook = pack.hook
               /\ pack'.labs = << >>
               /\ pack'.zipped = Tail(pack.zipped)
               /\ Tail(pack.zipped) # << >>
<1>1. pack # NoPack /\ pack.step = "send"
  BY DEF SendRequest, NoPack
<1>2. /\ pack \in Packing /\ pack.zipped \in Seq(Jobs) /\ pack.zipped # << >>
      /\ IsInjective(pack.zipped)
  BY <1>1, PackingIs DEF PackInOrder
<1>3. /\ Head(pack.zipped) \in Jobs /\ Tail(pack.zipped) \in Seq(Jobs)
      /\ Head(pack.zipped) \in Range(pack.zipped)
      /\ IsInjective(Tail(pack.zipped))
      /\ Range(Tail(pack.zipped)) = Range(pack.zipped) \ {Head(pack.zipped)}
  BY <1>2, RangeTail, InjectiveTail
<1>4. pack' = Continue(<< >>, Tail(pack.zipped))
  BY DEF SendRequest
<1>5. CASE Tail(pack.zipped) = << >>
  BY <1>1, <1>3, <1>4, <1>5 DEF Continue
<1>6. CASE Tail(pack.zipped) # << >>
  <2>1. << >> \in Seq(LabNames)
    OBVIOUS
  <2>2. QED
    BY <1>1, <1>2, <1>3, <1>4, <1>6, <2>1, Continued
<1>7. QED
  BY <1>5, <1>6

-----------------------------------------------------------------------------
(* The order of the packager's work.                                       *)

\* The steps on which the packager stays where it is, with the same hooks.
PackStays ==
  \/ HubStart \/ PublishRequest \/ TakeResult \/ HandleResponse
  \/ \E p \in posting : PostAccepted(p) \/ PostLost(p)
  \/ HubDisconnect \/ HubNotices
  \/ \E j \in Jobs, yaml \in Yamls : GradersAnswer(j, yaml)
  \/ UNCHANGED hubSystemVars

\* The steps that leave hooks and packager alone.
LEMMA PackStaysIs ==
  ASSUME PackStays
  PROVE  UNCHANGED <<pushes, hooks, pack>>
BY DEF PackStays, HubStart, PublishRequest, TakeResult, HubNotices, ReceiveNext,
       HandleResponse, PostAccepted, PostLost, HubDisconnect, GradersAnswer,
       hubSystemVars, hubVars, hubProcess

\* The steps that do not end the process.
HubGoes ==
  \/ \E h \in Hooks : Push(h) \/ TakeHook(h)
  \/ CloneDone \/ CloneFails \/ RunningPosted \/ ZipDone \/ ZipFails
  \/ FailedPosted \/ SendRequest
  \/ PackStays

\* The steps of the hub, as far as hooks and packager are concerned.
LEMMA HubSteps ==
  ASSUME [HubNext]_hubSystemVars
  PROVE  \/ \E h \in Hooks : Push(h)
         \/ \E h \in Hooks : TakeHook(h)
         \/ CloneDone \/ CloneFails \/ RunningPosted \/ ZipDone \/ ZipFails
         \/ FailedPosted \/ SendRequest
         \/ Ends
         \/ PackStays
BY EndsIs DEF HubNext, HubStep, HubFault, Packager, PackStays

\* The process loses all when it goes down, and starts with nothing.
LEMMA DownIsIdleStep ==
  ASSUME HubTypeOK, DownIsIdle, [HubNext]_hubSystemVars
  PROVE  DownIsIdle'
<1>1. CASE Ends
  BY <1>1 DEF Ends, HubExit, DownIsIdle
<1>2. ASSUME UNCHANGED <<hub, acked, taken>>, UNCHANGED faults \/ Fault,
             hub # "down" \/ UNCHANGED hubProcess
      PROVE  DownIsIdle'
  BY <1>2 DEF HubTypeOK, DownIsIdle, Fault, hubProcess
<1>3. CASE \/ \E h \in Hooks : Push(h) \/ TakeHook(h)
           \/ CloneDone \/ CloneFails \/ RunningPosted \/ ZipDone \/ ZipFails
           \/ FailedPosted \/ SendRequest
  <2>1. UNCHANGED <<hub, acked, taken>>
    BY <1>3 DEF Push, TakeHook, CloneDone, CloneFails, RunningPosted, ZipDone,
                ZipFails, FailedPosted, SendRequest, packRest, received
  <2>2. UNCHANGED faults \/ Fault
    BY <1>3 DEF Push, TakeHook, CloneDone, CloneFails, RunningPosted, ZipDone,
                ZipFails, FailedPosted, SendRequest, PostStatus
  <2>3. hub # "down"
    BY <1>3 DEF Push, TakeHook, CloneDone, CloneFails, Cloning, RunningPosted,
                ZipDone, ZipFails, FailedPosted, SendRequest, NoPack, DownIsIdle
  <2>4. QED
    BY <1>2, <2>1, <2>2, <2>3
<1>4. CASE PackStays
  <2>1. CASE HubStart \/ HubDisconnect \/ HubNotices
    BY <2>1 DEF HubStart, HubDisconnect, HubNotices, DownIsIdle, HubTypeOK, Fault,
                received
  <2>2. CASE TakeResult
    BY <2>2 DEF TakeResult, ReceiveNext, DownIsIdle
  <2>3. CASE \/ PublishRequest \/ HandleResponse
             \/ \E p \in posting : PostAccepted(p) \/ PostLost(p)
    <3>1. UNCHANGED <<hub, acked, taken>>
      BY <2>3 DEF PublishRequest, HandleResponse, PostAccepted, PostLost, received
    <3>2. UNCHANGED faults \/ Fault
      BY <2>3 DEF PublishRequest, HandleResponse, PostAccepted, PostLost
    <3>3. hub # "down"
      BY <2>3 DEF PublishRequest, HandleResponse, PostAccepted, PostLost, DownIsIdle
    <3>4. QED
      BY <1>2, <3>1, <3>2, <3>3
  <2>4. CASE \/ \E j \in Jobs, yaml \in Yamls : GradersAnswer(j, yaml)
             \/ UNCHANGED hubSystemVars
    BY <1>2, <2>4 DEF GradersAnswer, hubSystemVars, hubVars, hubProcess, received
  <2>5. QED
    BY <1>4, <2>1, <2>2, <2>3, <2>4 DEF PackStays
<1>5. QED
  BY <1>1, <1>3, <1>4, HubSteps

\* The packager works on one hook, lab after lab.
LEMMA PackInOrderStep ==
  ASSUME HubTypeOK, PackInOrder, [HubNext]_hubSystemVars
  PROVE  PackInOrder'
<1>1. CASE Ends \/ CloneFails
  BY <1>1 DEF Ends, HubExit, CloneFails, PackInOrder
<1>2. ASSUME NEW h \in Hooks, Push(h)
      PROVE  PackInOrder'
  <2>1. UNCHANGED pack /\ pushes' = pushes \cup {h} /\ hooks' = hooks \cup {h}
        /\ h \notin pushes
    BY <1>2 DEF Push
  <2>2. QED
    BY <2>1 DEF PackInOrder
<1>3. ASSUME NEW h \in Hooks, TakeHook(h)
      PROVE  PackInOrder'
  <2>1. /\ pack'.step = "clone" /\ pack'.hook = h
        /\ pack'.labs = << >> /\ pack'.zipped = << >>
        /\ h \in pushes' \ hooks'
    BY <1>3 DEF TakeHook, packRest, HubTypeOK
  <2>2. Range(pack'.zipped) = {} /\ IsInjective(pack'.labs) /\ IsInjective(pack'.zipped)
    BY <2>1, RangeEmpty DEF IsInjective
  <2>3. QED
    BY <2>1, <2>2 DEF PackInOrder
<1>4. CASE CloneDone
  <2>1. UNCHANGED <<pushes, hooks>>
    BY <1>4 DEF CloneDone, packRest
  <2>2. CASE pack' = NoPack
    BY <2>2 DEF PackInOrder
  <2>3. CASE pack' # NoPack
    <3>1. /\ pack # NoPack
          /\ pack'.step = "status" /\ pack'.hook = pack.hook
          /\ pack'.labs # << >> /\ IsInjective(pack'.labs)
          /\ pack'.zipped = << >>
      BY <1>4, <2>3, CloneDoneIs
    <3>2. Range(pack'.zipped) = {} /\ IsInjective(pack'.zipped)
      BY <3>1, RangeEmpty DEF IsInjective
    <3>3. QED
      BY <2>1, <3>1, <3>2 DEF PackInOrder
  <2>4. QED
    BY <2>2, <2>3
<1>5. CASE RunningPosted \/ ZipFails
  <2>1. UNCHANGED <<pushes, hooks>>
    BY <1>5 DEF RunningPosted, ZipFails, packRest
  <2>2. /\ pack # NoPack /\ pack.step \in {"status", "zip"}
        /\ pack'.step \in {"zip", "failed"}
        /\ pack'.hook = pack.hook /\ pack'.labs = pack.labs
        /\ pack'.zipped = pack.zipped
    BY <1>5, RunningPostedIs, ZipFailsIs
  <2>3. QED
    BY <2>1, <2>2 DEF PackInOrder
<1>6. CASE ZipDone
  <2>1. UNCHANGED <<pushes, hooks>>
    BY <1>6 DEF ZipDone, packRest
  <2>2. /\ pack # NoPack /\ pack.step = "zip" /\ pack'.hook = pack.hook
        /\ pack'.step = IF pack'.labs = << >> THEN "send" ELSE "status"
        /\ pack'.zipped # << >> /\ IsInjective(pack'.zipped)
        /\ pack'.labs = Tail(pack.labs)
        /\ Range(pack'.zipped) = Range(pack.zipped) \cup {CurrentJob}
    BY <1>6, ZipDoneIs
  <2>3. /\ IsInjective(pack'.labs)
        /\ Range(pack'.labs) = Range(pack.labs) \ {CurrentJob[2]}
        /\ CurrentJob[1] = pack.hook
    BY <2>2, NextLab, CurrentJobIs
  <2>4. QED
    BY <2>1, <2>2, <2>3 DEF PackInOrder
<1>7. CASE FailedPosted
  <2>1. UNCHANGED <<pushes, hooks>>
    BY <1>7 DEF FailedPosted, packRest
  <2>2. CASE pack' = NoPack
    BY <2>2 DEF PackInOrder
  <2>3. CASE pack' # NoPack
    <3>1. /\ pack # NoPack /\ pack.step = "failed" /\ pack'.hook = pack.hook
          /\ pack'.step = IF pack'.labs = << >> THEN "send" ELSE "status"
          /\ pack'.labs = Tail(pack.labs)
          /\ pack'.zipped = pack.zipped
          /\ pack'.labs # << >> \/ pack'.zipped # << >>
      BY <1>7, <2>3, FailedPostedIs
    <3>2. /\ IsInjective(pack'.labs)
          /\ Range(pack'.labs) = Range(pack.labs) \ {CurrentJob[2]}
      BY <3>1, NextLab
    <3>3. QED
      BY <2>1, <3>1, <3>2 DEF PackInOrder
  <2>4. QED
    BY <2>2, <2>3
<1>8. CASE SendRequest
  <2>1. UNCHANGED <<pushes, hooks>>
    BY <1>8 DEF SendRequest, packRest
  <2>2. CASE pack' = NoPack
    BY <2>2 DEF PackInOrder
  <2>3. CASE pack' # NoPack
    <3>1. /\ pack # NoPack /\ pack.step = "send" /\ pack'.hook = pack.hook
          /\ pack'.step = "send"
          /\ pack'.labs = << >>
          /\ pack'.zipped = Tail(pack.zipped) /\ pack'.zipped # << >>
          /\ IsInjective(pack'.zipped)
          /\ Range(pack'.zipped) \subseteq Range(pack.zipped)
      BY <1>8, <2>3, SendRequestIs
    <3>2. IsInjective(pack'.labs) /\ Range(pack'.labs) = {}
      BY <3>1, RangeEmpty DEF IsInjective
    <3>3. QED
      BY <2>1, <3>1, <3>2 DEF PackInOrder
  <2>4. QED
    BY <2>2, <2>3
<1>9. CASE PackStays
  <2>1. UNCHANGED <<pushes, hooks, pack>>
    BY <1>9, PackStaysIs
  <2>2. QED
    BY <2>1 DEF PackInOrder
<1>10. QED
  BY <1>1, <1>2, <1>3, <1>4, <1>5, <1>6, <1>7, <1>8, <1>9, HubSteps

\* The requests and the jobs that were sent, when nothing is sent.
LEMMA NothingSent ==
  ASSUME \/ \E h \in Hooks : Push(h) \/ TakeHook(h)
         \/ CloneDone \/ CloneFails \/ RunningPosted \/ ZipDone \/ ZipFails
         \/ FailedPosted
         \/ PackStays /\ ~PublishRequest
  PROVE  UNCHANGED <<requests, submitted>>
<1>1. CASE \/ \E h \in Hooks : Push(h) \/ TakeHook(h)
           \/ CloneDone \/ CloneFails \/ RunningPosted \/ ZipDone \/ ZipFails
           \/ FailedPosted
  BY <1>1 DEF Push, TakeHook, CloneDone, CloneFails, RunningPosted, ZipDone,
              ZipFails, FailedPosted, packRest, brokerVars
<1>2. CASE PackStays /\ ~PublishRequest
  BY <1>2 DEF PackStays, HubStart, TakeResult, HubNotices, ReceiveNext,
              HandleResponse, PostAccepted, PostLost, HubDisconnect,
              GradersAnswer, jobQueue, hubSystemVars, brokerVars, hubVars,
              hubProcess
<1>3. QED
  BY <1>1, <1>2

\* A job is sent once.
LEMMA SentInOrderStep ==
  ASSUME HubTypeOK, PackInOrder, SentInOrder, [HubNext]_hubSystemVars
  PROVE  SentInOrder'
<1>1. CASE Ends
  <2>1. /\ UNCHANGED <<pushes, submitted>>
        /\ hooks' = {} /\ requests' = << >> /\ pack' = NoPack
    BY <1>1 DEF Ends, HubExit, brokerVars
  <2>2. Range(requests') = {} /\ IsInjective(requests')
    BY <2>1, RangeEmpty DEF IsInjective
  <2>3. QED
    BY <2>1, <2>2 DEF SentInOrder
<1>2. ASSUME NEW h \in Hooks, Push(h)
      PROVE  SentInOrder'
  <2>1. /\ UNCHANGED <<pack, requests, submitted>> /\ h \notin pushes
        /\ pushes' = pushes \cup {h} /\ hooks' = hooks \cup {h}
    BY <1>2, NothingSent DEF Push
  <2>2. QED
    BY <2>1 DEF SentInOrder
<1>3. ASSUME NEW h \in Hooks, TakeHook(h)
      PROVE  SentInOrder'
  <2>1. /\ UNCHANGED <<pushes, requests, submitted>>
        /\ h \in hooks /\ hooks' = hooks \ {h} /\ pack'.hook = h
    BY <1>3, NothingSent DEF TakeHook, packRest
  <2>2. QED
    BY <2>1 DEF SentInOrder
<1>4. CASE \/ CloneDone \/ CloneFails \/ RunningPosted \/ ZipDone \/ ZipFails
           \/ FailedPosted
  <2>1. UNCHANGED <<pushes, hooks, requests, submitted>>
    <3>1. UNCHANGED <<requests, submitted>>
      BY <1>4, NothingSent
    <3>2. UNCHANGED <<pushes, hooks>>
      BY <1>4 DEF CloneDone, CloneFails, RunningPosted, ZipDone, ZipFails,
                  FailedPosted, packRest
    <3>3. QED
      BY <3>1, <3>2
  <2>2. CASE pack' = NoPack
    BY <2>1, <2>2 DEF SentInOrder
  <2>3. CASE pack' # NoPack
    <3>1. pack # NoPack /\ pack.step # "send" /\ pack'.hook = pack.hook
      BY <1>4, <2>3, CloneDoneIs, RunningPostedIs, ZipDoneIs, ZipFailsIs,
         FailedPostedIs DEF CloneFails
    <3>2. QED
      BY <2>1, <3>1 DEF SentInOrder
  <2>4. QED
    BY <2>2, <2>3
<1>5. CASE SendRequest
  <2> DEFINE new == Head(pack.zipped)
  <2>1. /\ pack # NoPack /\ pack.step = "send"
        /\ new \in Jobs /\ new \in Range(pack.zipped)
        /\ Range(Tail(pack.zipped)) = Range(pack.zipped) \ {new}
    BY <1>5, SendRequestIs
  <2>2. /\ UNCHANGED <<pushes, hooks, submitted>>
        /\ requests' = Append(requests, new)
    BY <1>5 DEF SendRequest, packRest, brokerVars
  <2>3. new \notin submitted \cup Range(requests) /\ new[1] = pack.hook
        /\ pack.hook \in pushes \ hooks
    BY <2>1 DEF SentInOrder, PackInOrder
  <2>4. IsInjective(requests') /\ Range(requests') = Range(requests) \cup {new}
    BY <2>1, <2>2, <2>3, InjectiveAppend, RangeAppend DEF SentInOrder, HubTypeOK
  <2>5. pack' # NoPack =>
          /\ pack'.step = "send" /\ pack'.hook = pack.hook
          /\ Range(pack'.zipped) = Range(pack.zipped) \ {new}
    BY <1>5, <2>1, SendRequestIs
  <2>6. QED
    BY <2>1, <2>2, <2>3, <2>4, <2>5 DEF SentInOrder
<1>6. CASE PublishRequest
  <2>1. UNCHANGED <<pushes, hooks, pack>>
    BY <1>6 DEF PublishRequest
  <2>2. /\ submitted' \in {submitted, submitted \cup {Head(requests)}}
        /\ requests' = Tail(requests)
        /\ requests # << >> /\ requests \in Seq(Jobs)
    BY <1>6 DEF PublishRequest, PublishJob, HubTypeOK
  <2>3. /\ IsInjective(requests')
        /\ Range(requests') = Range(requests) \ {Head(requests)}
        /\ Head(requests) \in Range(requests)
    BY <2>2, InjectiveTail, RangeTail DEF SentInOrder
  <2>4. submitted' \cup Range(requests') \subseteq submitted \cup Range(requests)
    BY <2>2, <2>3
  <2>5. Range(requests') \cap submitted' = {}
    BY <2>2, <2>3 DEF SentInOrder
  <2>6. QED
    BY <2>1, <2>3, <2>4, <2>5 DEF SentInOrder
<1>7. CASE PackStays /\ ~PublishRequest
  <2>1. UNCHANGED <<pushes, hooks, pack, requests, submitted>>
    BY <1>7, PackStaysIs, NothingSent
  <2>2. QED
    BY <2>1 DEF SentInOrder
<1>8. QED
  BY <1>1, <1>2, <1>3, <1>4, <1>5, <1>6, <1>7, HubSteps

\* A job that is sent is not to be packaged ...
LEMMA SentIsPackaged ==
  ASSUME PackInOrder, SentInOrder, NEW j \in Jobs, ToPackage(j)
  PROVE  j \notin submitted \cup Range(requests)
<1>1. SUFFICES ASSUME j \in submitted \cup Range(requests)
               PROVE  FALSE
  OBVIOUS
<1>2. j[1] \in pushes \ hooks
  BY <1>1 DEF SentInOrder
<1>3. pack # NoPack /\ j[1] = pack.hook
      /\ (pack.step = "clone" \/ j[2] \in Range(pack.labs))
  BY <1>2 DEF ToPackage
<1>4. pack.step = "send"
  BY <1>1, <1>3 DEF SentInOrder
<1>5. pack.labs = << >>
  BY <1>3, <1>4 DEF PackInOrder
<1>6. QED
  BY <1>3, <1>4, <1>5, RangeEmpty

\* ... and one that is being packaged is.
LEMMA CurrentToPackage ==
  ASSUME HubTypeOK, PackInOrder, pack.step \in {"status", "zip", "failed"}
  PROVE  ToPackage(CurrentJob)
BY CurrentJobIs, NextLab DEF ToPackage

\* What is to be packaged was to be packaged before.
LEMMA ToPackageShrinks ==
  ASSUME HubTypeOK, PackInOrder, [HubNext]_hubSystemVars, NEW j \in Jobs,
         ToPackage(j)'
  PROVE  ToPackage(j)
<1>1. CASE Ends
  BY <1>1 DEF Ends, HubExit, ToPackage
<1>2. ASSUME NEW h \in Hooks, Push(h)
      PROVE  ToPackage(j)
  BY <1>2 DEF Push, ToPackage
<1>3. ASSUME NEW h \in Hooks, TakeHook(h)
      PROVE  ToPackage(j)
  <2>1. /\ UNCHANGED pushes
        /\ h \in hooks /\ hooks' = hooks \ {h} /\ pack'.hook = h
    BY <1>3 DEF TakeHook, packRest
  <2>2. QED
    BY <2>1 DEF ToPackage
<1>4. CASE CloneDone \/ CloneFails
  <2>1. UNCHANGED <<pushes, hooks>>
    BY <1>4 DEF CloneDone, CloneFails, packRest
  <2>2. \/ pack' = NoPack
        \/ pack # NoPack /\ pack.step = "clone" /\ pack'.hook = pack.hook
    BY <1>4, CloneDoneIs DEF CloneFails
  <2>3. QED
    BY <2>1, <2>2 DEF ToPackage
<1>5. CASE RunningPosted \/ ZipFails
  <2>1. UNCHANGED <<pushes, hooks>>
    BY <1>5 DEF RunningPosted, ZipFails, packRest
  <2>2. /\ pack # NoPack /\ pack'.step \in {"zip", "failed"}
        /\ pack'.hook = pack.hook /\ pack'.labs = pack.labs
    BY <1>5, RunningPostedIs, ZipFailsIs
  <2>3. QED
    BY <2>1, <2>2 DEF ToPackage
<1>6. CASE ZipDone \/ FailedPosted
  <2>1. UNCHANGED <<pushes, hooks>>
    BY <1>6 DEF ZipDone, FailedPosted, packRest
  <2>2. /\ pack # NoPack /\ pack.step \in {"zip", "failed"}
        /\ pack' # NoPack =>
             /\ pack'.hook = pack.hook /\ pack'.step # "clone"
             /\ pack'.labs = Tail(pack.labs)
    BY <1>6, ZipDoneIs, FailedPostedIs
  <2>3. /\ Range(Tail(pack.labs)) = Range(pack.labs) \ {CurrentJob[2]}
        /\ CurrentJob[1] = pack.hook
        /\ pack.hook \in pushes \ hooks
    BY <2>2, NextLab, CurrentJobIs DEF PackInOrder
  <2>4. CASE pack' = NoPack
    BY <2>1, <2>3, <2>4 DEF ToPackage
  <2>5. CASE pack' # NoPack
    BY <2>1, <2>2, <2>3, <2>5 DEF ToPackage
  <2>6. QED
    BY <2>4, <2>5
<1>7. CASE SendRequest
  <2>1. UNCHANGED <<pushes, hooks>>
    BY <1>7 DEF SendRequest, packRest
  <2>2. pack' = NoPack \/ (pack'.step = "send" /\ pack'.labs = << >>)
    BY <1>7, SendRequestIs
  <2>3. QED
    BY <2>1, <2>2, RangeEmpty DEF ToPackage
<1>8. CASE PackStays
  <2>1. UNCHANGED <<pushes, hooks, pack>>
    BY <1>8, PackStaysIs
  <2>2. QED
    BY <2>1 DEF ToPackage
<1>9. QED
  BY <1>1, <1>2, <1>3, <1>4, <1>5, <1>6, <1>7, <1>8, HubSteps

\* A lab whose packaging has failed is not packaged again.
LEMMA FailedIsPackaged ==
  ASSUME HubTypeOK, PackInOrder, FailedPosted
  PROVE  \A j \in Jobs : j = CurrentJob => ~ToPackage(j)'
<1>1. UNCHANGED <<pushes, hooks>>
  BY DEF FailedPosted, packRest
<1>2. /\ pack # NoPack /\ pack.step = "failed"
      /\ pack' # NoPack =>
           /\ pack'.hook = pack.hook /\ pack'.step # "clone"
           /\ pack'.labs = Tail(pack.labs)
  BY FailedPostedIs
<1>3. TAKE j \in Jobs
<1>4. HAVE j = CurrentJob
<1>5. /\ Range(Tail(pack.labs)) = Range(pack.labs) \ {j[2]}
      /\ j[1] = pack.hook
      /\ pack.hook \in pushes \ hooks
  BY <1>2, <1>4, NextLab, CurrentJobIs DEF PackInOrder
<1>6. QED
  BY <1>1, <1>2, <1>5 DEF ToPackage

-----------------------------------------------------------------------------
(* Answers.                                                                *)

\* Only a post changes what Gitlab shows ...
LEMMA GitlabSame ==
  ASSUME [HubNext]_hubSystemVars
  PROVE  \/ RunningPosted \/ FailedPosted
         \/ \E p \in posting : PostAccepted(p)
         \/ UNCHANGED <<status, comments>>
<1>1. CASE \/ \E h \in Hooks : Push(h) \/ TakeHook(h)
           \/ CloneDone \/ CloneFails \/ ZipDone \/ ZipFails \/ SendRequest
           \/ Ends
  BY <1>1 DEF Push, TakeHook, CloneDone, CloneFails, ZipDone, ZipFails,
              SendRequest, Ends, HubExit, gitlabVars
<1>2. CASE PackStays
  BY <1>2 DEF PackStays, HubStart, PublishRequest, TakeResult, HubNotices,
              ReceiveNext, HandleResponse, PostLost, HubDisconnect,
              GradersAnswer, hubSystemVars, hubVars, gitlabVars
<1>3. QED
  BY <1>1, <1>2, HubSteps

\* ... and only an answer changes the log of the answers.
LEMMA LogSame ==
  ASSUME [HubNext]_hubSystemVars
  PROVE  \/ \E j \in Jobs, yaml \in Yamls : GradersAnswer(j, yaml)
         \/ UNCHANGED results
<1>1. CASE \/ \E h \in Hooks : Push(h) \/ TakeHook(h)
           \/ CloneDone \/ CloneFails \/ RunningPosted \/ ZipDone \/ ZipFails
           \/ FailedPosted \/ SendRequest \/ Ends
  BY <1>1 DEF Push, TakeHook, CloneDone, CloneFails, RunningPosted, ZipDone,
              ZipFails, FailedPosted, SendRequest, Ends, HubExit, packRest,
              brokerVars
<1>2. CASE PackStays
  BY <1>2 DEF PackStays, HubStart, PublishRequest, TakeResult, HubNotices,
              ReceiveNext, HandleResponse, PostAccepted, PostLost,
              HubDisconnect, hubSystemVars, brokerVars
<1>3. QED
  BY <1>1, <1>2, HubSteps

\* An answer comes after the answers there were.
LEMMA LogGrows ==
  ASSUME HubTypeOK, NEW j \in Jobs, NEW yaml \in Yamls, GradersAnswer(j, yaml)
  PROVE  /\ results \in Seq(Response) /\ Len(results) \in Nat
         /\ DOMAIN results = 1 .. Len(results)
         /\ Len(results') = Len(results) + 1
         /\ DOMAIN results' = DOMAIN results \cup {Len(results) + 1}
         /\ Len(results) + 1 \notin DOMAIN results
         /\ \A i \in DOMAIN results : results'[i] = results[i]
         /\ results'[Len(results) + 1].job = j
         /\ results'[Len(results) + 1].yaml = yaml
         /\ j \in submitted
         /\ UNCHANGED <<submitted, hub, pushes, hooks, pack, requests, zips, acked,
                        taken, prefetched, responses, posting, status, comments, faults>>
<1> DEFINE r == [job |-> j, yaml |-> yaml]
<1>1. /\ results' = Append(results, r) /\ j \in submitted
      /\ UNCHANGED <<submitted, hub, pushes, hooks, pack, requests, zips, acked,
                     taken, prefetched, responses, posting, status, comments, faults>>
  BY DEF GradersAnswer, PublishResult, jobQueue, hubVars, hubProcess, received,
         gitlabVars
<1>2. results \in Seq(Response) /\ r \in Response
  BY DEF HubTypeOK, BrokerTypeOK, Response
<1> HIDE DEF r
<1>3. /\ Len(results) \in Nat
      /\ DOMAIN results = 1 .. Len(results)
      /\ Len(results') = Len(results) + 1
      /\ DOMAIN results' = 1 .. (Len(results) + 1)
      /\ \A i \in DOMAIN results : results'[i] = results[i]
      /\ results'[Len(results) + 1] = r
  BY <1>1, <1>2, AppendIs
<1>4. /\ DOMAIN results' = DOMAIN results \cup {Len(results) + 1}
      /\ Len(results) + 1 \notin DOMAIN results
  BY <1>3
<1>5. r.job = j /\ r.yaml = yaml
  BY DEF r
<1>6. QED
  BY <1>1, <1>2, <1>3, <1>4, <1>5

\* A job that is still to be packaged gets no grade.
LEMMA NotGradedYetStep ==
  ASSUME HubTypeOK, PackInOrder, SentInOrder, NotGradedYet, AnswersInOrder,
         [HubNext]_hubSystemVars
  PROVE  NotGradedYet'
<1> SUFFICES ASSUME NEW j \in Jobs, ToPackage(j)'
             PROVE  status'[j] \in {"none", "running"}
  BY DEF NotGradedYet
<1>1. ToPackage(j) /\ status[j] \in {"none", "running"}
  BY ToPackageShrinks DEF NotGradedYet
<1>2. status \in [Jobs -> {"none", "running", "success", "failed"}]
  BY DEF HubTypeOK
<1>3. CASE RunningPosted
  BY <1>1, <1>2, <1>3 DEF RunningPosted, PostStatus, gitlabVars
<1>4. CASE FailedPosted
  <2>1. j # CurrentJob
    BY <1>4, FailedIsPackaged
  <2>2. QED
    BY <1>1, <1>2, <1>4, <2>1 DEF FailedPosted, PostStatus, gitlabVars
<1>5. ASSUME NEW p \in posting, PostAccepted(p)
      PROVE  status'[j] \in {"none", "running"}
  <2>1. AnsweredJob(p.answer) \in submitted
    BY <1>5 DEF AnswersInOrder, AnsweredJob, HubTypeOK
  <2>2. j # AnsweredJob(p.answer)
    BY <1>1, <2>1, SentIsPackaged
  <2>3. QED
    BY <1>1, <1>2, <1>5, <2>2 DEF PostAccepted
<1>6. QED
  BY <1>1, <1>3, <1>4, <1>5, GitlabSame

\* What is received, handled and posted follows the order of the log.
LEMMA AnswersInOrderStep ==
  ASSUME HubTypeOK, DownIsIdle, AnswersInOrder, [HubNext]_hubSystemVars
  PROVE  AnswersInOrder'
<1>1. ASSUME UNCHANGED <<results, responses, posting, taken>>,
             submitted \subseteq submitted'
      PROVE  AnswersInOrder'
  BY <1>1 DEF AnswersInOrder, PostsFor
<1>2. CASE \/ \E h \in Hooks : Push(h) \/ TakeHook(h)
           \/ CloneDone \/ CloneFails \/ RunningPosted \/ ZipDone \/ ZipFails
           \/ FailedPosted \/ SendRequest
  <2>1. UNCHANGED <<results, responses, posting, taken, submitted>>
    BY <1>2 DEF Push, TakeHook, CloneDone, CloneFails, RunningPosted, ZipDone,
                ZipFails, FailedPosted, SendRequest, packRest, received,
                brokerVars
  <2>2. QED
    BY <1>1, <2>1
<1>3. CASE Ends
  <2>1. UNCHANGED <<results, submitted>> /\ responses' = << >> /\ posting' = {}
    BY <1>3 DEF Ends, HubExit, brokerVars
  <2>2. IsInjective(responses') /\ Range(responses') = {}
    BY <2>1, RangeEmpty DEF IsInjective
  <2>3. QED
    BY <2>1, <2>2 DEF AnswersInOrder
<1>4. CASE HubStart \/ PublishRequest \/ HubDisconnect \/ HubNotices
  <2>1. UNCHANGED <<results, responses, posting, taken>>
    BY <1>4 DEF HubStart, PublishRequest, HubDisconnect, HubNotices, received,
                brokerVars
  <2>2. submitted \subseteq submitted'
    BY <1>4 DEF HubStart, PublishRequest, PublishJob, HubDisconnect, HubNotices,
                brokerVars
  <2>3. QED
    BY <1>1, <2>1, <2>2
<1>5. CASE UNCHANGED hubSystemVars
  BY <1>1, <1>5 DEF hubSystemVars, brokerVars, hubVars, hubProcess, received
<1>6. CASE TakeResult
  <2>1. /\ UNCHANGED <<results, submitted, posting>>
        /\ responses' = Append(responses, taken + 1)
        /\ taken' = taken + 1 /\ taken \in Nat /\ taken + 1 \in DOMAIN results
    BY <1>6, ReceivedAre
    DEF TakeResult, ReceiveNext, HubTypeOK, BrokerTypeOK, brokerVars
  <2>2. /\ \A i \in Range(responses) : i \in Nat /\ i <= taken
        /\ \A p \in posting : p.answer \in Nat /\ p.answer <= taken
    BY ReceivedAre DEF AnswersInOrder
  <2>3. taken + 1 \notin Range(responses) /\ \A p \in posting : p.answer # taken + 1
    BY <2>1, <2>2
  <2>4. /\ IsInjective(responses')
        /\ Range(responses') = Range(responses) \cup {taken + 1}
    BY <2>1, <2>3, InjectiveAppend, RangeAppend DEF AnswersInOrder, HubTypeOK
  <2>5. \A i \in Range(responses') \cup {p.answer : p \in posting'} : i <= taken'
    BY <2>1, <2>2, <2>4
  <2>6. \A p \in posting' :
          p.answer \notin Range(responses') /\ p \in PostsFor(p.answer)'
    BY <2>1, <2>3, <2>4 DEF AnswersInOrder, PostsFor
  <2>7. QED
    BY <2>1, <2>4, <2>5, <2>6 DEF AnswersInOrder
<1>7. CASE HandleResponse
  <2> DEFINE i == Head(responses)
  <2>1. /\ UNCHANGED <<results, submitted, taken>>
        /\ responses # << >> /\ responses' = Tail(responses)
        /\ posting' = posting \cup PostsFor(i)
    BY <1>7 DEF HandleResponse, received, brokerVars
  <2>2. /\ IsInjective(responses')
        /\ Range(responses') = Range(responses) \ {i}
        /\ i \in Range(responses)
    BY <2>1, InjectiveTail, RangeTail DEF AnswersInOrder, HubTypeOK
  <2>3. \A p \in PostsFor(i) : p.answer = i /\ p \in PostsFor(p.answer)
    BY DEF PostsFor
  <2>4. \A p \in posting' :
          p.answer \notin Range(responses') /\ p \in PostsFor(p.answer)'
    BY <2>1, <2>2, <2>3 DEF AnswersInOrder, PostsFor
  <2>5. Range(responses') \cup {p.answer : p \in posting'}
          \subseteq Range(responses) \cup {p.answer : p \in posting}
    BY <2>1, <2>2, <2>3
  <2>6. QED
    BY <2>1, <2>2, <2>4, <2>5 DEF AnswersInOrder
<1>8. ASSUME NEW p \in posting, PostAccepted(p) \/ PostLost(p)
      PROVE  AnswersInOrder'
  <2>1. /\ UNCHANGED <<results, submitted, taken, responses>>
        /\ posting' \subseteq posting
    BY <1>8 DEF PostAccepted, PostLost, received, brokerVars
  <2>2. QED
    BY <2>1 DEF AnswersInOrder, PostsFor
<1>9. ASSUME NEW j \in Jobs, NEW yaml \in Yamls, GradersAnswer(j, yaml)
      PROVE  AnswersInOrder'
  <2>1. /\ UNCHANGED <<submitted, taken, responses, posting>>
        /\ \A i \in DOMAIN results : results'[i] = results[i]
        /\ \A i \in DOMAIN results' : results'[i].job \in submitted
    <3>1. \A i \in DOMAIN results : results'[i] = results[i]
      BY <1>9, LogGrows
    <3>2. results'[Len(results) + 1].job \in submitted
      BY <1>9, LogGrows
    <3>3. DOMAIN results' = DOMAIN results \cup {Len(results) + 1}
      BY <1>9, LogGrows
    <3>4. UNCHANGED <<submitted, taken, responses, posting>>
      BY <1>9, LogGrows
    <3>5. QED
      BY <3>1, <3>2, <3>3, <3>4 DEF AnswersInOrder
  <2>2. \A p \in posting : p \in PostsFor(p.answer)'
    BY <2>1 DEF AnswersInOrder, PostsFor, HubTypeOK
  <2>3. QED
    BY <2>1, <2>2 DEF AnswersInOrder
<1>10. QED
  BY <1>2, <1>3, <1>4, <1>5, <1>6, <1>7, <1>8, <1>9, HubSteps DEF PackStays

-----------------------------------------------------------------------------
(* Zip files.                                                              *)

\* An answer stays in the log.
LEMMA LogStays ==
  ASSUME HubTypeOK, [HubNext]_hubSystemVars
  PROVE  \A i \in DOMAIN results : i \in DOMAIN results' /\ results'[i] = results[i]
BY LogSame, LogGrows

\* The jobs that are sent or on their way: a job gets there when its zip file
\* is there, and is only lost with the process or with the connection.
LEMMA OutgoingGoes ==
  ASSUME HubTypeOK, PackInOrder, HubGoes
  PROVE  \/ ZipDone /\ submitted' \cup Outgoing' = submitted \cup Outgoing \cup {CurrentJob}
         \/ /\ hub = "lost"
            /\ submitted' \cup Outgoing' \subseteq submitted \cup Outgoing
            /\ submitted \subseteq submitted'
         \/ submitted' \cup Outgoing' = submitted \cup Outgoing
<1>1. ASSUME NEW h \in Hooks, Push(h)
      PROVE  submitted' \cup Outgoing' = submitted \cup Outgoing
  <2>1. UNCHANGED <<submitted, requests, pack>>
    BY <1>1, NothingSent DEF Push
  <2>2. QED
    BY <2>1 DEF Outgoing
<1>2. ASSUME NEW h \in Hooks, TakeHook(h)
      PROVE  submitted' \cup Outgoing' = submitted \cup Outgoing
  <2>1. UNCHANGED <<submitted, requests>> /\ pack = NoPack
        /\ pack'.zipped = << >>
    BY <1>2, NothingSent DEF TakeHook
  <2>2. Outgoing = Range(requests) /\ Outgoing' = Range(requests)
    BY <2>1, RangeEmpty DEF Outgoing
  <2>3. QED
    BY <2>1, <2>2
<1>3. CASE CloneDone \/ CloneFails
  <2>1. /\ UNCHANGED <<submitted, requests>>
        /\ pack.step = "clone" /\ pack # NoPack
        /\ pack' = NoPack \/ pack'.zipped = << >>
    BY <1>3, NothingSent, CloneDoneIs DEF CloneFails, Cloning, NoPack
  <2>2. pack.zipped = << >>
    BY <2>1 DEF PackInOrder
  <2>3. Outgoing = Range(requests) /\ Outgoing' = Range(requests)
    BY <2>1, <2>2, RangeEmpty DEF Outgoing
  <2>4. QED
    BY <2>1, <2>3
<1>4. CASE RunningPosted \/ ZipFails
  <2>1. /\ UNCHANGED <<submitted, requests>>
        /\ pack # NoPack /\ pack' # NoPack /\ pack'.zipped = pack.zipped
    BY <1>4, NothingSent, RunningPostedIs, ZipFailsIs
  <2>2. QED
    BY <2>1 DEF Outgoing
<1>5. CASE ZipDone
  <2>1. /\ UNCHANGED <<submitted, requests>>
        /\ pack # NoPack /\ pack' # NoPack
        /\ Range(pack'.zipped) = Range(pack.zipped) \cup {CurrentJob}
    BY <1>5, NothingSent, ZipDoneIs
  <2>2. Outgoing' = Outgoing \cup {CurrentJob}
    BY <2>1 DEF Outgoing
  <2>3. QED
    BY <1>5, <2>1, <2>2
<1>6. CASE FailedPosted
  <2>1. /\ UNCHANGED <<submitted, requests>> /\ pack # NoPack
        /\ \/ pack' = NoPack /\ Range(pack.zipped) = {}
           \/ pack' # NoPack /\ pack'.zipped = pack.zipped
    BY <1>6, NothingSent, FailedPostedIs
  <2>2. QED
    BY <2>1 DEF Outgoing
<1>7. CASE SendRequest
  <2> DEFINE new == Head(pack.zipped)
  <2>1. /\ pack # NoPack /\ new \in Jobs
        /\ new \in Range(pack.zipped)
        /\ Range(Tail(pack.zipped)) = Range(pack.zipped) \ {new}
        /\ \/ pack' = NoPack /\ Tail(pack.zipped) = << >>
           \/ pack' # NoPack /\ pack'.zipped = Tail(pack.zipped)
    BY <1>7, SendRequestIs
  <2>2. submitted' = submitted /\ requests' = Append(requests, new)
    BY <1>7 DEF SendRequest, packRest, brokerVars
  <2>3. Range(requests') = Range(requests) \cup {new}
    BY <2>1, <2>2, RangeAppend DEF HubTypeOK
  <2>4. Outgoing = Range(requests) \cup Range(pack.zipped)
    BY <2>1 DEF Outgoing
  <2>5. Outgoing' = Range(requests') \cup (Range(pack.zipped) \ {new})
    <3>1. CASE pack' = NoPack
      BY <2>1, <3>1, RangeEmpty DEF Outgoing
    <3>2. CASE pack' # NoPack
      BY <2>1, <3>2 DEF Outgoing
    <3>3. QED
      BY <3>1, <3>2
  <2>6. QED
    BY <2>1, <2>2, <2>3, <2>4, <2>5
<1>8. CASE PublishRequest
  <2>1. /\ UNCHANGED pack
        /\ \/ submitted' = submitted \cup {Head(requests)}
           \/ hub = "lost" /\ submitted' = submitted
        /\ requests' = Tail(requests)
        /\ requests # << >> /\ requests \in Seq(Jobs)
    BY <1>8 DEF PublishRequest, PublishJob, HubTypeOK
  <2>2. Range(requests) = {Head(requests)} \cup Range(requests')
    BY <2>1, RangeTail
  <2>3. QED
    BY <2>1, <2>2 DEF Outgoing
<1>9. CASE PackStays /\ ~PublishRequest
  <2>1. UNCHANGED <<submitted, requests, pack>>
    BY <1>9, NothingSent, PackStaysIs
  <2>2. QED
    BY <2>1 DEF Outgoing
<1>10. QED
  BY <1>1, <1>2, <1>3, <1>4, <1>5, <1>6, <1>7, <1>8, <1>9 DEF HubGoes

\* The jobs on their way to the server: zipping adds one, the end of the
\* process and a lost connection lose them.
LEMMA OutgoingStep ==
  ASSUME HubTypeOK, PackInOrder, [HubNext]_hubSystemVars
  PROVE  \/ Ends /\ submitted' \cup Outgoing' = submitted
         \/ ZipDone /\ submitted' \cup Outgoing' = submitted \cup Outgoing \cup {CurrentJob}
         \/ submitted' \cup Outgoing' \subseteq submitted \cup Outgoing
<1>1. CASE Ends
  <2>1. submitted' = submitted /\ requests' = << >> /\ pack' = NoPack
    BY <1>1 DEF Ends, HubExit, brokerVars
  <2>2. Outgoing' = {}
    BY <2>1, RangeEmpty DEF Outgoing
  <2>3. QED
    BY <1>1, <2>1, <2>2
<1>2. CASE HubGoes
  BY <1>2, OutgoingGoes
<1>3. QED
  BY <1>1, <1>2, HubSteps DEF HubGoes

\* What is still to be packaged is not on its way either.
LEMMA ToPackageIsNot ==
  ASSUME PackInOrder, SentInOrder, NEW j \in Jobs, ToPackage(j)
  PROVE  j \notin submitted \cup Outgoing
<1>1. SUFFICES ASSUME pack # NoPack, j \in Range(pack.zipped)
               PROVE  FALSE
  BY SentIsPackaged DEF Outgoing
<1>2. /\ j[1] = pack.hook /\ j[2] \notin Range(pack.labs)
      /\ pack.hook \in pushes \ hooks
      /\ pack.step = "clone" => pack.zipped = << >>
  BY <1>1 DEF PackInOrder
<1>3. pack.step = "clone"
  BY <1>2 DEF ToPackage
<1>4. QED
  BY <1>1, <1>2, <1>3, RangeEmpty

\* The zip files come with their jobs, and go with an answer.
LEMMA ZipsStep ==
  ASSUME HubTypeOK, [HubNext]_hubSystemVars
  PROVE  \/ zips \subseteq zips'
         \/ /\ HandleResponse
            /\ zips' = zips \ {AnsweredJob(Head(responses))}
<1>1. CASE \/ \E h \in Hooks : Push(h) \/ TakeHook(h)
           \/ CloneDone \/ CloneFails \/ RunningPosted \/ ZipDone
           \/ FailedPosted \/ SendRequest
  BY <1>1 DEF Push, TakeHook, CloneDone, CloneFails, RunningPosted, ZipDone,
              FailedPosted, SendRequest
<1>2. CASE ZipFails \/ Ends
  BY <1>2 DEF ZipFails, Ends, PartOfZip
<1>3. CASE HandleResponse
  BY <1>3 DEF HandleResponse
<1>4. CASE PackStays /\ ~HandleResponse
  BY <1>4 DEF PackStays, HubStart, PublishRequest, TakeResult, HubNotices,
              ReceiveNext, PostAccepted, PostLost, HubDisconnect,
              GradersAnswer, hubSystemVars, hubVars
<1>5. QED
  BY <1>1, <1>2, <1>3, <1>4, HubSteps

\* A job keeps its zip file until it is answered.
LEMMA ZipKeptStep ==
  ASSUME HubTypeOK, PackInOrder, ZipKept, [HubNext]_hubSystemVars
  PROVE  ZipKept'
<1> SUFFICES ASSUME NEW j, j \in submitted' \cup Outgoing', ~Answered(j)'
             PROVE  j \in zips'
  BY DEF ZipKept
<1>1. ~Answered(j)
  BY LogStays DEF Answered
<1>2. CASE j \in submitted \cup Outgoing
  <2>1. j \in zips
    BY <1>1, <1>2 DEF ZipKept
  <2>2. CASE HandleResponse /\ zips' = zips \ {AnsweredJob(Head(responses))}
    <3>1. Head(responses) \in DOMAIN results
      BY <2>2, RangeTail DEF HandleResponse, HubTypeOK
    <3>2. j # AnsweredJob(Head(responses))
      BY <1>1, <3>1 DEF Answered, AnsweredJob
    <3>3. QED
      BY <2>1, <2>2, <3>2
  <2>3. QED
    BY <2>1, <2>2, ZipsStep
<1>3. CASE j \notin submitted \cup Outgoing
  <2>1. ZipDone /\ j = CurrentJob
    BY <1>3, OutgoingStep
  <2>2. QED
    BY <2>1 DEF ZipDone
<1>4. QED
  BY <1>2, <1>3

\* A verdict at Gitlab rests on an answer, or on a lab that has no request.
LEMMA VerdictStep ==
  ASSUME HubTypeOK, PackInOrder, SentInOrder, NotGradedYet, AnswersInOrder,
         VerdictIsFounded, [HubNext]_hubSystemVars
  PROVE  VerdictIsFounded'
<1> DEFINE Found(j) == \E i \in AnswersOf(j) : results[i].yaml \in Passing
           Failed(j) == \E i \in AnswersOf(j) : results[i].yaml \notin Passing
           Gone(j) == j \notin submitted \cup Outgoing
<1> SUFFICES ASSUME NEW j \in Jobs
             PROVE  /\ status'[j] = "success" => Found(j)'
                    /\ status'[j] = "failed" => Failed(j)' \/ Gone(j)'
  BY DEF VerdictIsFounded
<1>1. (Found(j) => Found(j)') /\ (Failed(j) => Failed(j)')
  BY LogStays DEF AnswersOf
<1>2. status \in [Jobs -> {"none", "running", "success", "failed"}]
  BY DEF HubTypeOK
<1>3. /\ status[j] = "success" => Found(j)
      /\ status[j] = "failed" => Failed(j) \/ Gone(j)
  BY DEF VerdictIsFounded
<1>4. Gone(j) => Gone(j)' \/ (ZipDone /\ j = CurrentJob)
  BY OutgoingStep
<1>5. ZipDone /\ j = CurrentJob => status[j] # "failed"
  <2>1. SUFFICES ASSUME ZipDone, j = CurrentJob
                 PROVE  status[j] # "failed"
    OBVIOUS
  <2>2. ToPackage(j)
    BY <2>1, CurrentToPackage DEF ZipDone
  <2>3. QED
    BY <2>2 DEF NotGradedYet
<1> HIDE DEF Found, Failed, Gone
<1>6. CASE status'[j] = status[j]
  BY <1>1, <1>3, <1>4, <1>5, <1>6
<1>7. CASE RunningPosted
  <2>1. status'[j] \in {status[j], "running"}
    BY <1>2, <1>7 DEF RunningPosted, PostStatus, gitlabVars
  <2>2. QED
    BY <1>6, <2>1
<1>8. CASE FailedPosted /\ status'[j] # status[j]
  <2>1. j = CurrentJob /\ status'[j] = "failed"
    BY <1>2, <1>8 DEF FailedPosted, PostStatus, gitlabVars
  <2>2. ToPackage(j)
    BY <1>8, <2>1, CurrentToPackage DEF FailedPosted
  <2>3. Gone(j) /\ ~ZipDone
    BY <1>8, <2>2, ToPackageIsNot DEF Gone, FailedPosted, ZipDone
  <2>4. QED
    BY <1>4, <2>1, <2>3
<1>9. ASSUME NEW p \in posting, PostAccepted(p), status'[j] # status[j]
      PROVE  /\ status'[j] = "success" => Found(j)'
             /\ status'[j] = "failed" => Failed(j)' \/ Gone(j)'
  <2>1. j = AnsweredJob(p.answer) /\ status'[j] = StateOf(results[p.answer].yaml)
    BY <1>2, <1>9 DEF PostAccepted
  <2>2. p.answer \in AnswersOf(j)
    BY <2>1, ReceivedAre DEF AnswersOf, AnsweredJob
  <2>3. CASE results[p.answer].yaml \in Passing
    BY <1>1, <2>1, <2>2, <2>3 DEF StateOf, Found
  <2>4. CASE results[p.answer].yaml \notin Passing
    BY <1>1, <2>1, <2>2, <2>4 DEF StateOf, Failed
  <2>5. QED
    BY <2>3, <2>4
<1>10. QED
  BY <1>6, <1>7, <1>8, <1>9, GitlabSame

-----------------------------------------------------------------------------
(* When nothing fails.                                                     *)

\* A step counts a fault or none.
LEMMA FaultsStep ==
  ASSUME [HubNext]_hubSystemVars
  PROVE  UNCHANGED faults \/ Fault
<1>1. CASE \/ \E h \in Hooks : Push(h) \/ TakeHook(h)
           \/ CloneDone \/ CloneFails \/ ZipDone \/ ZipFails \/ SendRequest
           \/ Ends
  BY <1>1 DEF Push, TakeHook, CloneDone, CloneFails, ZipDone, ZipFails,
              SendRequest, Ends
<1>2. CASE RunningPosted \/ FailedPosted
  BY <1>2 DEF RunningPosted, FailedPosted, PostStatus
<1>3. CASE PackStays
  BY <1>3 DEF PackStays, HubStart, PublishRequest, TakeResult, HubNotices,
              ReceiveNext, HandleResponse, PostAccepted, PostLost, HubDisconnect,
              GradersAnswer, hubSystemVars, hubVars
<1>4. QED
  BY <1>1, <1>2, <1>3, HubSteps

\* Nothing has failed, and nothing fails: the process goes on, and posts are
\* accepted.
LEMMA NothingFails ==
  ASSUME HubTypeOK, ZipsInUse, [HubNext]_hubSystemVars, NothingFailed'
  PROVE  /\ NothingFailed /\ hub \notin {"lost", "deaf"} /\ UNCHANGED faults /\ ~Fault
         /\ HubGoes
         /\ \/ \E h \in Hooks : Push(h) \/ TakeHook(h)
            \/ CloneDone \/ CloneFails \/ RunningPosted \/ ZipDone \/ ZipFails
            \/ FailedPosted \/ SendRequest
            \/ HubStart \/ PublishRequest \/ TakeResult \/ HandleResponse
            \/ \E p \in posting : PostAccepted(p)
            \/ \E j \in Jobs, yaml \in Yamls : GradersAnswer(j, yaml)
            \/ UNCHANGED hubSystemVars
<1>1. faults \in Nat /\ faults' = 0
  BY DEF HubTypeOK, NothingFailed
<1>2. ~Fault
  BY <1>1 DEF Fault
<1>3. UNCHANGED faults
  BY <1>2, FaultsStep
<1>4. NothingFailed
  <2>1. \A i \in DOMAIN results : results[i].yaml \notin Malformed
    BY LogStays DEF NothingFailed
  <2>2. QED
    BY <1>1, <1>3, <2>1 DEF NothingFailed
<1>5. hub \notin {"lost", "deaf"}
  BY <1>4 DEF ZipsInUse
<1>6. ~HubCrash /\ ~HubDisconnect /\ ~(\E p \in posting : PostLost(p))
  BY <1>2 DEF HubCrash, HubDisconnect, PostLost
<1>7. ~PublishFails /\ ~HubNotices
  BY <1>5 DEF PublishFails, HubNotices
<1>8. ~MalformedResponse
  <2>1. SUFFICES ASSUME MalformedResponse
                 PROVE  FALSE
    OBVIOUS
  <2>2. Head(responses) \in DOMAIN results
    BY <2>1, RangeTail DEF MalformedResponse, HubTypeOK
  <2>3. QED
    BY <1>4, <2>1, <2>2 DEF MalformedResponse, NothingFailed
<1>9. QED
  BY <1>2, <1>3, <1>4, <1>5, <1>6, <1>7, <1>8
  DEF HubNext, HubStep, HubFault, Packager, HubGoes, PackStays

\* What is handled when nothing fails.
LEMMA HandledStep ==
  ASSUME HubTypeOK, DownIsIdle, AnswersInOrder, ZipsInUse,
         [HubNext]_hubSystemVars, NothingFailed'
  PROVE  \/ Handled' = Handled
         \/ HandleResponse /\ Handled' = Handled \cup {Head(responses)}
<1>1. CASE \/ \E h \in Hooks : Push(h) \/ TakeHook(h)
           \/ CloneDone \/ CloneFails \/ RunningPosted \/ ZipDone \/ ZipFails
           \/ FailedPosted \/ SendRequest
           \/ HubStart \/ PublishRequest
           \/ \E p \in posting : PostAccepted(p)
           \/ UNCHANGED hubSystemVars
  <2>1. UNCHANGED <<results, taken, responses>>
    BY <1>1 DEF Push, TakeHook, CloneDone, CloneFails, RunningPosted, ZipDone,
                ZipFails, FailedPosted, SendRequest, HubStart, PublishRequest,
                PostAccepted, hubSystemVars, hubVars, hubProcess, packRest,
                received, brokerVars
  <2>2. QED
    BY <2>1 DEF Handled
<1>2. CASE TakeResult
  <2>1. /\ UNCHANGED results
        /\ taken' = taken + 1
        /\ responses' = Append(responses, taken + 1)
    BY <1>2 DEF TakeResult, ReceiveNext, brokerVars
  <2>2. taken + 1 \in DOMAIN results
    BY <1>2, ReceivedAre DEF TakeResult, ReceiveNext, HubTypeOK
  <2>3. Range(responses') = Range(responses) \cup {taken + 1}
    BY <2>1, <2>2, RangeAppend DEF HubTypeOK
  <2>4. \A i \in DOMAIN results :
          i <= taken' /\ i \notin Range(responses')
            <=> i <= taken /\ i \notin Range(responses)
    BY <2>1, <2>3, ReceivedAre
  <2>5. QED
    BY <2>1, <2>4 DEF Handled
<1>3. CASE HandleResponse
  <2> DEFINE i == Head(responses)
  <2>1. /\ UNCHANGED <<results, taken>>
        /\ responses # << >> /\ responses' = Tail(responses)
    BY <1>3 DEF HandleResponse, received, brokerVars
  <2>2. /\ Range(responses') = Range(responses) \ {i}
        /\ i \in Range(responses)
    BY <2>1, InjectiveTail, RangeTail DEF AnswersInOrder, HubTypeOK
  <2>3. i <= taken /\ i \in DOMAIN results
    BY <2>2, ReceivedAre DEF AnswersInOrder
  <2>4. QED
    BY <1>3, <2>1, <2>2, <2>3 DEF Handled
<1>4. ASSUME NEW j \in Jobs, NEW yaml \in Yamls, GradersAnswer(j, yaml)
      PROVE  Handled' = Handled
  <2>1. /\ DOMAIN results' = DOMAIN results \cup {Len(results) + 1}
        /\ UNCHANGED <<taken, responses>>
    BY <1>4, LogGrows
  <2>2. ~(Len(results) + 1 <= taken)
    BY ReceivedAre
  <2>3. QED
    BY <2>1, <2>2 DEF Handled
<1>5. QED
  BY <1>1, <1>2, <1>3, <1>4, NothingFails

\* The status of a job at Gitlab, when nothing fails.
LEMMA StatusStep ==
  ASSUME HubTypeOK, PackInOrder, SentInOrder, AnswersInOrder, ZipsInUse,
         [HubNext]_hubSystemVars, NothingFailed', NEW j \in submitted
  PROVE  \/ status'[j] = status[j]
         \/ \E p \in posting :
              /\ PostAccepted(p) /\ p.kind = "status"
              /\ j = AnsweredJob(p.answer)
              /\ status'[j] = StateOf(results[p.answer].yaml)
<1>1. status \in [Jobs -> {"none", "running", "success", "failed"}] /\ j \in Jobs
  BY DEF HubTypeOK, BrokerTypeOK
<1>2. CASE RunningPosted \/ FailedPosted
  <2>1. j # CurrentJob
    BY <1>1, <1>2, CurrentToPackage, ToPackageIsNot DEF RunningPosted, FailedPosted
  <2>2. QED
    BY <1>1, <1>2, <2>1 DEF RunningPosted, FailedPosted, PostStatus, gitlabVars
<1>3. ASSUME NEW p \in posting, PostAccepted(p), status'[j] # status[j]
      PROVE  /\ p.kind = "status" /\ j = AnsweredJob(p.answer)
             /\ status'[j] = StateOf(results[p.answer].yaml)
  BY <1>1, <1>3 DEF PostAccepted
<1>4. QED
  BY <1>2, <1>3, GitlabSame

\* An answer that was handled has a status, or one is being posted.
LEMMA StatusFollowsStep ==
  ASSUME HubTypeOK, DownIsIdle, PackInOrder, SentInOrder, AnswersInOrder,
         ZipsInUse, StatusFollows, [HubNext]_hubSystemVars
  PROVE  StatusFollows'
<1> SUFFICES ASSUME NothingFailed', NEW i \in Handled'
             PROVE  \/ [answer |-> i, kind |-> "status"] \in posting'
                    \/ \E k \in AnswersOf(AnsweredJob(i))' :
                         status'[AnsweredJob(i)'] = StateOf(results'[k].yaml)
  BY DEF StatusFollows
<1> DEFINE post == [answer |-> i, kind |-> "status"]
<1>1. CASE i \notin Handled
  <2>1. HandleResponse /\ i = Head(responses)
    BY <1>1, HandledStep
  <2>2. post \in PostsFor(i)
    BY DEF PostsFor
  <2>3. QED
    BY <2>1, <2>2 DEF HandleResponse
<1>2. CASE i \in Handled
  <2>1. PICK j \in submitted :
          /\ i \in DOMAIN results
          /\ AnsweredJob(i) = j /\ AnsweredJob(i)' = j
    BY <1>2, LogStays DEF Handled, AnswersInOrder, AnsweredJob
  <2>2. AnswersOf(j) \subseteq AnswersOf(j)'
        /\ \A k \in AnswersOf(j) : results'[k] = results[k]
    BY LogStays DEF AnswersOf
  <2>3. NothingFailed
    BY NothingFails
  <2>4. \/ post \in posting
        \/ \E k \in AnswersOf(j) : status[j] = StateOf(results[k].yaml)
    BY <1>2, <2>1, <2>3 DEF StatusFollows
  <2>5. CASE \E k \in AnswersOf(j) : status'[j] = StateOf(results[k].yaml)
    BY <2>1, <2>2, <2>5 DEF AnswersOf, StateOf
  <2>6. ASSUME NEW p \in posting, p.kind = "status", j = AnsweredJob(p.answer),
               status'[j] = StateOf(results[p.answer].yaml)
        PROVE  \E k \in AnswersOf(j) : status'[j] = StateOf(results[k].yaml)
    BY <2>6, ReceivedAre DEF AnswersOf, AnsweredJob
  <2>7. CASE status'[j] = status[j]
    <3>1. CASE post \in posting /\ post \notin posting'
      <4>1. PostAccepted(post)
        <5>1. CASE HandleResponse
          BY <3>1, <5>1 DEF HandleResponse
        <5>2. ASSUME NEW p \in posting, PostAccepted(p)
              PROVE  PostAccepted(post)
          BY <3>1, <5>2 DEF PostAccepted
        <5>3. CASE UNCHANGED posting
          BY <3>1, <5>3
        <5>4. UNCHANGED posting \/ HandleResponse \/ \E p \in posting : PostAccepted(p)
          BY NothingFails
          DEF Push, TakeHook, CloneDone, CloneFails, RunningPosted, ZipDone,
              ZipFails, FailedPosted, SendRequest, HubStart, PublishRequest,
              TakeResult, ReceiveNext, GradersAnswer, hubSystemVars, hubVars,
              hubProcess, packRest
        <5>5. QED
          BY <5>1, <5>2, <5>3, <5>4
      <4>2. post.answer = i /\ post.kind = "status"
        OBVIOUS
      <4>3. status'[j] = StateOf(results[i].yaml)
        BY <2>1, <4>1, <4>2 DEF PostAccepted, HubTypeOK, BrokerTypeOK
      <4>4. QED
        BY <2>1, <2>5, <2>6, <3>1, <4>2, <4>3
    <3>2. CASE post \notin posting \/ post \in posting'
      BY <2>4, <2>5, <2>7, <3>2
    <3>3. QED
      BY <3>1, <3>2
  <2>8. CASE status'[j] # status[j]
    BY <2>1, <2>5, <2>6, <2>8, StatusStep
  <2>9. QED
    BY <2>7, <2>8
<1>3. QED
  BY <1>1, <1>2

\* Where zip files come from.
LEMMA NewZips ==
  ASSUME HubGoes
  PROVE  \/ zips' \subseteq zips
         \/ (ZipDone \/ ZipFails) /\ zips' \subseteq zips \cup {CurrentJob}
<1>1. CASE \/ \E h \in Hooks : Push(h) \/ TakeHook(h)
           \/ CloneDone \/ CloneFails \/ RunningPosted
           \/ FailedPosted \/ SendRequest
  BY <1>1 DEF Push, TakeHook, CloneDone, CloneFails, RunningPosted,
              FailedPosted, SendRequest
<1>2. CASE ZipDone \/ ZipFails
  BY <1>2 DEF ZipDone, ZipFails, PartOfZip
<1>3. CASE PackStays
  BY <1>3 DEF PackStays, HubStart, PublishRequest, TakeResult, HubNotices,
              ReceiveNext, HandleResponse, PostAccepted, PostLost,
              HubDisconnect, GradersAnswer, hubSystemVars, hubVars
<1>4. QED
  BY <1>1, <1>2, <1>3 DEF HubGoes

\* The job whose zip failed, until Gitlab knows.
LEMMA FailingZip ==
  ASSUME HubTypeOK, PackInOrder, HubGoes, ~Fault, pack.step = "failed"
  PROVE  \/ status'[CurrentJob] = "failed"
         \/ UNCHANGED pack
<1>1. CASE FailedPosted
  BY <1>1, CurrentJobIs DEF FailedPosted, PostStatus, HubTypeOK
<1>2. ~(\E h \in Hooks : TakeHook(h))
  BY DEF TakeHook, NoPack
<1>3. /\ ~CloneDone /\ ~CloneFails /\ ~RunningPosted /\ ~ZipDone /\ ~ZipFails
      /\ ~SendRequest
  BY DEF CloneDone, CloneFails, Cloning, RunningPosted, ZipDone, ZipFails,
         SendRequest
<1>4. UNCHANGED pack \/ FailedPosted
  BY <1>2, <1>3, PackStaysIs DEF HubGoes, Push
<1>5. QED
  BY <1>1, <1>4

\* No zip file is left that nobody needs.
LEMMA ZipsInUseStep ==
  ASSUME HubTypeOK, DownIsIdle, PackInOrder, SentInOrder, NotGradedYet,
         AnswersInOrder, ZipsInUse, [HubNext]_hubSystemVars
  PROVE  ZipsInUse'
<1> SUFFICES ASSUME NothingFailed'
             PROVE  /\ hub' \notin {"lost", "deaf"}
                    /\ \A i \in Handled' : AnsweredJob(i)' \notin zips'
                    /\ \A j \in zips' :
                         \/ j \in submitted' \cup Outgoing'
                         \/ status'[j] = "failed"
                         \/ pack'.step = "failed" /\ j = CurrentJob'
  BY DEF ZipsInUse
<1>1. NothingFailed /\ hub \notin {"lost", "deaf"} /\ ~Fault /\ HubGoes
  BY NothingFails
<1>2. /\ \A i \in Handled : AnsweredJob(i) \notin zips
      /\ \A j \in zips :
           \/ j \in submitted \cup Outgoing
           \/ status[j] = "failed"
           \/ pack.step = "failed" /\ j = CurrentJob
  BY <1>1 DEF ZipsInUse
<1>3. hub' \notin {"lost", "deaf"}
  BY <1>1, NothingFails
  DEF Push, TakeHook, CloneDone, CloneFails, RunningPosted, ZipDone, ZipFails,
      FailedPosted, SendRequest, HubStart, PublishRequest, TakeResult,
      ReceiveNext, HandleResponse, PostAccepted, GradersAnswer, hubSystemVars,
      hubVars, hubProcess, packRest
<1>4. submitted \subseteq submitted' \cup Outgoing'
  BY <1>1, OutgoingGoes
<1>5. \/ zips' \subseteq zips
      \/ /\ ZipDone \/ ZipFails
         /\ zips' \subseteq zips \cup {CurrentJob}
         /\ CurrentJob \in Jobs
         /\ CurrentJob \notin submitted
         /\ ToPackage(CurrentJob)
  <2>1. ASSUME ZipDone \/ ZipFails
        PROVE  /\ CurrentJob \in Jobs /\ CurrentJob \notin submitted
               /\ ToPackage(CurrentJob)
    BY <2>1, CurrentJobIs, CurrentToPackage, ToPackageIsNot DEF ZipDone, ZipFails
  <2>2. QED
    BY <1>1, <2>1, NewZips
<1>6. ASSUME NEW i \in Handled'
      PROVE  AnsweredJob(i)' \notin zips'
  <2>1. CASE HandleResponse
    <3>1. /\ zips' = zips \ {AnsweredJob(Head(responses))}
          /\ UNCHANGED results
      BY <1>1, <2>1 DEF HandleResponse, brokerVars
    <3>2. i \in Handled \/ i = Head(responses)
      BY HandledStep
    <3>3. QED
      BY <1>2, <3>1, <3>2 DEF AnsweredJob
  <2>2. CASE ~HandleResponse
    <3>1. i \in Handled
      BY <2>2, HandledStep
    <3>2. /\ AnsweredJob(i)' = AnsweredJob(i)
          /\ AnsweredJob(i) \in submitted
      BY <3>1, LogStays DEF Handled, AnsweredJob, AnswersInOrder
    <3>3. QED
      BY <1>2, <1>5, <3>1, <3>2
  <2>3. QED
    BY <2>1, <2>2
<1>7. ASSUME NEW j \in zips'
      PROVE  \/ j \in submitted' \cup Outgoing'
             \/ status'[j] = "failed"
             \/ pack'.step = "failed" /\ j = CurrentJob'
  <2>1. CASE ZipDone /\ j = CurrentJob
    BY <2>1, ZipDoneIs DEF Outgoing
  <2>2. CASE ZipFails /\ j = CurrentJob
    BY <2>2, ZipFailsIs DEF CurrentJob
  <2>3. CASE j \in submitted \cup Outgoing
    BY <1>1, <2>3, OutgoingGoes
  <2>4. CASE j \in zips /\ pack.step = "failed" /\ j = CurrentJob
    <3>1. status'[j] = "failed" \/ UNCHANGED pack
      BY <1>1, <2>4, FailingZip
    <3>2. QED
      BY <2>4, <3>1 DEF CurrentJob
  <2>5. CASE j \in zips /\ status[j] = "failed"
    <3>1. /\ j \in Jobs
          /\ status \in [Jobs -> {"none", "running", "success", "failed"}]
      BY <2>5 DEF HubTypeOK
    <3>2. CASE RunningPosted
      <4>1. j # CurrentJob
        <5>1. j = CurrentJob => ToPackage(j)
          BY <3>2, CurrentToPackage DEF RunningPosted
        <5>2. QED
          BY <2>5, <3>1, <5>1 DEF NotGradedYet
      <4>2. QED
        BY <1>1, <2>5, <3>1, <3>2, <4>1 DEF RunningPosted, PostStatus
    <3>3. CASE FailedPosted
      BY <2>5, <3>1, <3>3 DEF FailedPosted, PostStatus, gitlabVars
    <3>4. ASSUME NEW p \in posting, PostAccepted(p)
          PROVE  status'[j] = "failed" \/ j \in submitted' \cup Outgoing'
      <4>1. AnsweredJob(p.answer) \in submitted
        BY ReceivedAre DEF AnswersInOrder, AnsweredJob
      <4>2. CASE j = AnsweredJob(p.answer)
        BY <1>4, <4>1, <4>2
      <4>3. CASE j # AnsweredJob(p.answer)
        BY <2>5, <3>1, <3>4, <4>3 DEF PostAccepted
      <4>4. QED
        BY <4>2, <4>3
    <3>5. QED
      BY <2>5, <3>2, <3>3, <3>4, GitlabSame
  <2>6. QED
    BY <1>2, <1>5, <2>1, <2>2, <2>3, <2>4, <2>5
<1>8. QED
  BY <1>3, <1>6, <1>7

-----------------------------------------------------------------------------
(* Comments.                                                               *)

\* The comments made, and those that are still to come; the answers that will
\* come once more, and those there are.
Comments(j) == comments[j] + Cardinality(Telling(j)) + Cardinality(Untold(j))

Redelivered(j) == Cardinality(Again(j))

Failures(j) == Cardinality(FailingAnswers(j))

\* The answers and the comments of a job can be counted.
LEMMA FailingFinite ==
  ASSUME HubTypeOK, NEW j \in Jobs
  PROVE  /\ IsFiniteSet(FailingAnswers(j)) /\ Failures(j) \in Nat
         /\ IsFiniteSet(Telling(j)) /\ Cardinality(Telling(j)) \in Nat
         /\ IsFiniteSet(Untold(j)) /\ Cardinality(Untold(j)) \in Nat
         /\ IsFiniteSet(Again(j)) /\ Redelivered(j) \in Nat
         /\ comments[j] \in Nat /\ Comments(j) \in Nat
<1>1. IsFiniteSet(DOMAIN results)
  BY ReceivedAre, FS_Interval
<1>2. FailingAnswers(j) \subseteq DOMAIN results
  BY DEF FailingAnswers, AnswersOf
<1>3. /\ Telling(j) \subseteq FailingAnswers(j) /\ Untold(j) \subseteq FailingAnswers(j)
      /\ Again(j) \subseteq FailingAnswers(j)
  BY DEF Telling, Untold, Again
<1>4. /\ IsFiniteSet(FailingAnswers(j)) /\ IsFiniteSet(Telling(j))
      /\ IsFiniteSet(Untold(j)) /\ IsFiniteSet(Again(j))
  BY <1>1, <1>2, <1>3, FS_Subset
<1>5. /\ Failures(j) \in Nat /\ Cardinality(Telling(j)) \in Nat
      /\ Cardinality(Untold(j)) \in Nat /\ Redelivered(j) \in Nat
  BY <1>4, FS_CardinalityType DEF Failures, Redelivered
<1>6. comments[j] \in Nat
  BY DEF HubTypeOK
<1>7. QED
  BY <1>4, <1>5, <1>6 DEF Comments

\* One element more is one more.
LEMMA OneMoreIs ==
  ASSUME NEW S, NEW x, IsFiniteSet(S), x \notin S
  PROVE  Cardinality(S \cup {x}) = Cardinality(S) + 1
BY FS_AddElement

\* What a fault, and an answer, add to the comments that there may be.
LEMMA MoreComments ==
  ASSUME NEW n \in Nat, NEW f \in Nat
  PROVE  /\ n * (1 + f) \in Nat
         /\ n * (1 + (f + 1)) = n * (1 + f) + n
         /\ (n + 1) * (1 + f) = n * (1 + f) + 1 + f
OBVIOUS

\* A response that is received is told instead of to be told.
LEMMA TellingReceived ==
  ASSUME HubTypeOK, AnswersInOrder, ReceiveNext, NEW j \in Jobs
  PROVE  /\ FailingAnswers(j)' = FailingAnswers(j)
         /\ taken + 1 \in FailingAnswers(j) =>
              /\ Telling(j)' = Telling(j) \cup {taken + 1}
              /\ taken + 1 \notin Telling(j)
         /\ taken + 1 \notin FailingAnswers(j) => Telling(j)' = Telling(j)
<1>1. /\ UNCHANGED <<results, posting>>
      /\ taken + 1 \in DOMAIN results /\ taken \in Nat
      /\ responses' = Append(responses, taken + 1)
  BY ReceivedAre DEF ReceiveNext, HubTypeOK, brokerVars
<1>2. /\ \A i \in Range(responses) : i \in Nat /\ i <= taken
      /\ \A p \in posting : p.answer \in Nat /\ p.answer <= taken
  BY ReceivedAre DEF AnswersInOrder
<1>3. /\ taken + 1 \notin Range(responses)
      /\ \A p \in posting : p.answer # taken + 1
  BY <1>1, <1>2
<1>4. Range(responses') = Range(responses) \cup {taken + 1}
  BY <1>1, RangeAppend DEF HubTypeOK
<1>5. FailingAnswers(j)' = FailingAnswers(j)
  BY <1>1 DEF FailingAnswers, AnswersOf
<1>6. [answer |-> taken + 1, kind |-> "comment"] \notin posting
  <2> DEFINE p == [answer |-> taken + 1, kind |-> "comment"]
  <2>1. p.answer = taken + 1
    OBVIOUS
  <2>2. QED
    BY <1>3, <2>1
<1>7. taken + 1 \notin Telling(j)
  BY <1>3, <1>6 DEF Telling
<1>8. Telling(j)' = Telling(j) \cup ({taken + 1} \cap FailingAnswers(j))
  BY <1>1, <1>4, <1>5 DEF Telling
<1>9. QED
  BY <1>5, <1>7, <1>8

\* A failing answer is to be told, then told, and then it is a comment.  A fault
\* can only make the server deliver answers once more.
LEMMA CommentsGoes ==
  ASSUME HubTypeOK, AnswersInOrder, HubGoes, NEW j \in Jobs
  PROVE  \/ /\ Failures(j)' = Failures(j) /\ Comments(j)' = Comments(j)
            /\ Redelivered(j)' = Redelivered(j)
         \/ /\ Failures(j)' = Failures(j) /\ Comments(j)' \in 0 .. Comments(j)
            /\ Redelivered(j)' \in 0 .. Redelivered(j) + Failures(j)
            /\ Fault
         \/ /\ Failures(j)' = Failures(j) + 1 /\ Comments(j)' = Comments(j) + 1
            /\ \/ Redelivered(j)' = Redelivered(j)
               \/ Redelivered(j)' = Redelivered(j) + 1 /\ hub \in {"lost", "deaf"}
<1> DEFINE Same == /\ Failures(j)' = Failures(j) /\ Comments(j)' = Comments(j)
                   /\ Redelivered(j)' = Redelivered(j)
           Failed == /\ Failures(j)' = Failures(j) /\ Comments(j)' \in 0 .. Comments(j)
                     /\ Redelivered(j)' \in 0 .. Redelivered(j) + Failures(j)
                     /\ Fault
           New == /\ Failures(j)' = Failures(j) + 1 /\ Comments(j)' = Comments(j) + 1
                  /\ \/ Redelivered(j)' = Redelivered(j)
                     \/ Redelivered(j)' = Redelivered(j) + 1 /\ hub \in {"lost", "deaf"}
<1> SUFFICES Same \/ Failed \/ New
  OBVIOUS
<1>1. ASSUME UNCHANGED <<results, taken, responses, posting, comments, acked>>,
             (hub \in {"lost", "deaf"}) = (hub \in {"lost", "deaf"})'
      PROVE  Same
  BY <1>1
  DEF Comments, Failures, Redelivered, Telling, Untold, Again, FailingAnswers, AnswersOf
<1>2. CASE \/ \E h \in Hooks : Push(h) \/ TakeHook(h)
           \/ CloneDone \/ CloneFails \/ RunningPosted \/ ZipDone \/ ZipFails
           \/ FailedPosted \/ SendRequest
  <2>1. UNCHANGED <<results, taken, responses, posting, comments, acked, hub>>
    BY <1>2
    DEF Push, TakeHook, CloneDone, CloneFails, RunningPosted, ZipDone,
        ZipFails, FailedPosted, PostStatus, SendRequest, packRest, received,
        brokerVars, gitlabVars
  <2>2. QED
    BY <1>1, <2>1
<1>3. CASE HubStart \/ PublishRequest \/ HubNotices \/ UNCHANGED hubSystemVars
  <2>1. UNCHANGED <<results, taken, responses, posting, comments, acked>>
    BY <1>3
    DEF HubStart, PublishRequest, HubNotices, hubSystemVars, brokerVars,
        hubVars, hubProcess, received, gitlabVars
  <2>2. (hub \in {"lost", "deaf"}) = (hub \in {"lost", "deaf"})'
    BY <1>3
    DEF HubStart, PublishRequest, HubNotices, hubSystemVars, hubVars, hubProcess
  <2>3. QED
    BY <1>1, <2>1, <2>2
<1>4. CASE HubDisconnect
  <2>1. UNCHANGED <<results, taken, responses, posting, comments>> /\ Fault
    BY <1>4 DEF HubDisconnect, brokerVars, gitlabVars
  <2>2. /\ FailingAnswers(j)' = FailingAnswers(j)
        /\ Telling(j)' = Telling(j) /\ Untold(j)' = Untold(j)
    BY <2>1 DEF Telling, Untold, FailingAnswers, AnswersOf
  <2>3. Again(j)' \subseteq FailingAnswers(j)
    BY <2>2 DEF Again
  <2>4. Redelivered(j)' \in Nat /\ Redelivered(j)' <= Failures(j)
    BY <2>3, FailingFinite, FS_Subset, FS_CardinalityType DEF Redelivered, Failures
  <2>5. Failures(j)' = Failures(j) /\ Comments(j)' = Comments(j)
    BY <2>1, <2>2 DEF Failures, Comments
  <2>6. Comments(j) \in Nat /\ Redelivered(j) \in Nat /\ Failures(j) \in Nat
    BY FailingFinite
  <2>7. QED
    BY <2>1, <2>4, <2>5, <2>6
<1> HIDE DEF Same, New
<1>5. CASE TakeResult
  <2> DEFINE i == taken + 1
  <2>1. /\ UNCHANGED <<results, comments, hub>> /\ ReceiveNext
        /\ taken \in Nat /\ taken' = taken + 1
        /\ hub # "open" => acked' = acked
    BY <1>5, ReceivedAre DEF TakeResult, ReceiveNext, brokerVars, gitlabVars
  <2>2. /\ FailingAnswers(j)' = FailingAnswers(j)
        /\ i \in FailingAnswers(j) =>
             Telling(j)' = Telling(j) \cup {i} /\ i \notin Telling(j)
        /\ i \notin FailingAnswers(j) => Telling(j)' = Telling(j)
    BY <2>1, TellingReceived
  <2>3. Again(j)' = Again(j)
    BY <2>1, <2>2 DEF Again
  <2>4. Redelivered(j)' = Redelivered(j) /\ Failures(j)' = Failures(j)
    BY <2>2, <2>3 DEF Redelivered, Failures
  <2>5. \A k \in FailingAnswers(j) : k \in Nat
    BY ReceivedAre DEF FailingAnswers, AnswersOf
  <2>6. CASE i \in FailingAnswers(j)
    <3>1. Untold(j) = Untold(j)' \cup {i} /\ i \notin Untold(j)'
      BY <2>1, <2>2, <2>5, <2>6 DEF Untold
    <3>2. IsFiniteSet(Untold(j)')
      BY <3>1, FailingFinite, FS_Subset
    <3>3. /\ Cardinality(Untold(j)') \in Nat
          /\ Cardinality(Untold(j)) = Cardinality(Untold(j)') + 1
      BY <3>1, <3>2, OneMoreIs, FS_CardinalityType
    <3>4. Cardinality(Telling(j)') = Cardinality(Telling(j)) + 1
      BY <2>2, <2>6, FailingFinite, OneMoreIs
    <3>5. Comments(j)' = Comments(j)
      BY <2>1, <3>3, <3>4, FailingFinite DEF Comments
    <3>6. QED
      BY <2>4, <3>5 DEF Same
  <2>7. CASE i \notin FailingAnswers(j)
    <3>1. Untold(j)' = Untold(j)
      BY <2>1, <2>2, <2>5, <2>7 DEF Untold
    <3>2. Comments(j)' = Comments(j)
      BY <2>1, <2>2, <2>7, <3>1 DEF Comments
    <3>3. QED
      BY <2>4, <3>2 DEF Same
  <2>8. QED
    BY <2>6, <2>7
\* A step that changes neither the log nor what is received of it.
<1>6. ASSUME UNCHANGED <<results, taken, acked, hub>>
      PROVE  /\ FailingAnswers(j)' = FailingAnswers(j) /\ Untold(j)' = Untold(j)
             /\ Failures(j)' = Failures(j) /\ Redelivered(j)' = Redelivered(j)
  BY <1>6 DEF FailingAnswers, AnswersOf, Untold, Again, Failures, Redelivered
<1>7. CASE HandleResponse
  <2> DEFINE i == Head(responses)
  <2>1. /\ UNCHANGED <<results, taken, acked, hub, comments>>
        /\ responses # << >> /\ responses' = Tail(responses)
        /\ posting' = posting \cup PostsFor(i)
    BY <1>7 DEF HandleResponse, brokerVars, received, gitlabVars
  <2>2. Range(responses) = {i} \cup Range(responses')
    BY <2>1, RangeTail DEF HubTypeOK
  <2>3. i \in FailingAnswers(j) => [answer |-> i, kind |-> "comment"] \in PostsFor(i)
    BY DEF FailingAnswers, PostsFor
  <2>4. ASSUME NEW k, [answer |-> k, kind |-> "comment"] \in PostsFor(i)
        PROVE  k = i
    BY <2>4 DEF PostsFor
  <2> HIDE DEF i
  <2>5. Telling(j)' = Telling(j)
    BY <1>6, <2>1, <2>2, <2>3, <2>4 DEF Telling
  <2>6. QED
    BY <1>6, <2>1, <2>5 DEF Same, Comments
<1>8. ASSUME NEW p \in posting, PostAccepted(p)
      PROVE  Same
  <2>1. /\ UNCHANGED <<results, taken, acked, hub, responses>>
        /\ posting' = posting \ {p}
    BY <1>8 DEF PostAccepted, received, brokerVars
  <2>2. /\ p = [answer |-> p.answer, kind |-> p.kind]
        /\ p.kind \in {"status", "comment"}
        /\ p.answer \in DOMAIN results
    BY ReceivedAre DEF HubTypeOK, Post
  <2>3. CASE p.kind = "comment" /\ AnsweredJob(p.answer) = j
    <3>1. comments' = [comments EXCEPT ![j] = @ + 1]
      BY <1>8, <2>3 DEF PostAccepted
    <3>2. comments'[j] = comments[j] + 1
      BY <3>1 DEF HubTypeOK
    <3>3. p.answer \notin Range(responses) /\ p \in PostsFor(p.answer)
      BY DEF AnswersInOrder
    <3>4. results[p.answer].yaml \notin Passing
      BY <2>3, <3>3 DEF PostsFor
    <3>5. p.answer \in FailingAnswers(j)
      BY <2>2, <2>3, <3>4 DEF FailingAnswers, AnswersOf, AnsweredJob
    <3>6. /\ Telling(j) = Telling(j)' \cup {p.answer}
          /\ p.answer \notin Telling(j)'
      BY <1>6, <2>1, <2>2, <2>3, <3>3, <3>5 DEF Telling
    <3>7. IsFiniteSet(Telling(j)')
      BY <3>6, FailingFinite, FS_Subset
    <3>8. /\ Cardinality(Telling(j)') \in Nat
          /\ Cardinality(Telling(j)) = Cardinality(Telling(j)') + 1
      BY <3>6, <3>7, OneMoreIs, FS_CardinalityType
    <3>9. Comments(j)' = Comments(j)
      BY <1>6, <2>1, <3>2, <3>8, FailingFinite DEF Comments
    <3>10. QED
      BY <1>6, <2>1, <3>9 DEF Same
  <2>4. CASE ~(p.kind = "comment" /\ AnsweredJob(p.answer) = j)
    <3>1. comments'[j] = comments[j]
      BY <1>8, <2>2, <2>4 DEF PostAccepted, HubTypeOK
    <3>2. \A k \in FailingAnswers(j) : p # [answer |-> k, kind |-> "comment"]
      BY <2>4 DEF FailingAnswers, AnswersOf, AnsweredJob
    <3>3. Telling(j)' = Telling(j)
      BY <1>6, <2>1, <3>2 DEF Telling
    <3>4. QED
      BY <1>6, <2>1, <3>1, <3>3 DEF Same, Comments
  <2>5. QED
    BY <2>3, <2>4
<1>9. ASSUME NEW p \in posting, PostLost(p)
      PROVE  Failed
  <2>1. /\ UNCHANGED <<results, taken, acked, hub, responses, comments>> /\ Fault
        /\ posting' = posting \ {p}
    BY <1>9 DEF PostLost, received, brokerVars, gitlabVars
  <2>2. Telling(j)' \subseteq Telling(j)
    BY <1>6, <2>1 DEF Telling
  <2>3. /\ Cardinality(Telling(j)') \in Nat
        /\ Cardinality(Telling(j)') <= Cardinality(Telling(j))
    BY <2>2, FailingFinite, FS_Subset, FS_CardinalityType
  <2>4. Comments(j)' \in 0 .. Comments(j)
    BY <1>6, <2>1, <2>3, FailingFinite DEF Comments
  <2>5. QED
    BY <1>6, <2>1, <2>4, FailingFinite
<1>10. ASSUME NEW k \in Jobs, NEW yaml \in Yamls, GradersAnswer(k, yaml)
      PROVE  Same \/ New
  <2> DEFINE i == Len(results) + 1
  <2>1. /\ DOMAIN results' = DOMAIN results \cup {i}
        /\ i \notin DOMAIN results /\ Len(results) \in Nat
        /\ \A n \in DOMAIN results : results'[n] = results[n]
        /\ results'[i].job = k /\ results'[i].yaml = yaml
        /\ UNCHANGED <<taken, acked, hub, responses, posting, comments>>
    BY <1>10, LogGrows
  <2>2. i > taken /\ i > acked /\ i \notin Range(responses)
        /\ [answer |-> i, kind |-> "comment"] \notin posting
    <3> DEFINE p == [answer |-> i, kind |-> "comment"]
    <3>1. p.answer = i
      OBVIOUS
    <3>2. i > taken /\ i > acked
      BY ReceivedAre
    <3>3. QED
      BY <2>1, <3>1, <3>2, ReceivedAre
  <2> HIDE DEF i
  <2>3. CASE k = j /\ yaml \notin Passing
    <3>1. /\ FailingAnswers(j)' = FailingAnswers(j) \cup {i}
          /\ i \notin FailingAnswers(j)
      BY <2>1, <2>3 DEF FailingAnswers, AnswersOf
    <3>2. /\ Untold(j)' = Untold(j) \cup {i} /\ i \notin Untold(j)
      BY <2>1, <2>2, <3>1 DEF Untold
    <3>3. Telling(j)' = Telling(j)
      BY <2>1, <2>2, <3>1 DEF Telling
    <3>4. /\ Cardinality(FailingAnswers(j)') = Cardinality(FailingAnswers(j)) + 1
          /\ Cardinality(Untold(j)') = Cardinality(Untold(j)) + 1
      BY <3>1, <3>2, FailingFinite, OneMoreIs
    <3>5. Failures(j)' = Failures(j) + 1
      BY <3>4 DEF Failures
    <3>6. /\ comments'[j] = comments[j]
          /\ Cardinality(Telling(j)') = Cardinality(Telling(j))
      BY <2>1, <3>3
    <3>7. /\ comments[j] \in Nat
          /\ Cardinality(Telling(j)) \in Nat /\ Cardinality(Untold(j)) \in Nat
      BY FailingFinite
    <3>8. Comments(j)' = Comments(j) + 1
      BY <3>4, <3>6, <3>7 DEF Comments
    <3>9. CASE hub \in {"lost", "deaf"}
      <4>1. Again(j)' = Again(j) \cup {i} /\ i \notin Again(j)
        BY <2>1, <2>2, <3>1, <3>9 DEF Again
      <4>2. Redelivered(j)' = Redelivered(j) + 1
        BY <4>1, FailingFinite, OneMoreIs DEF Redelivered
      <4>3. QED
        BY <3>5, <3>8, <3>9, <4>2 DEF New
    <3>10. CASE hub \notin {"lost", "deaf"}
      <4>1. Again(j)' = Again(j)
        BY <2>1, <3>10 DEF Again
      <4>2. QED
        BY <3>5, <3>8, <4>1 DEF New, Redelivered
    <3>11. QED
      BY <3>9, <3>10
  <2>4. CASE ~(k = j /\ yaml \notin Passing)
    <3>1. FailingAnswers(j)' = FailingAnswers(j)
      BY <2>1, <2>4 DEF FailingAnswers, AnswersOf
    <3>2. Untold(j)' = Untold(j) /\ Telling(j)' = Telling(j) /\ Again(j)' = Again(j)
      BY <2>1, <3>1 DEF Untold, Telling, Again
    <3>3. QED
      BY <2>1, <3>1, <3>2 DEF Same, Comments, Failures, Redelivered
  <2>5. QED
    BY <2>3, <2>4
<1> HIDE DEF Failed
<1>11. QED
  BY <1>2, <1>3, <1>4, <1>5, <1>7, <1>8, <1>9, <1>10 DEF HubGoes, PackStays

\* When the process ends, nothing is being told any more, and what was not
\* acknowledged is to be told again.
LEMMA CommentsEnd ==
  ASSUME HubTypeOK, DownIsIdle, Ends, NEW j \in Jobs
  PROVE  /\ Failures(j)' = Failures(j)
         /\ Comments(j)' \in Nat /\ Redelivered(j)' = 0
         /\ Comments(j)' <= Comments(j) + Redelivered(j)
<1>1. /\ UNCHANGED <<results, comments>> /\ taken' = acked /\ acked' = acked
      /\ responses' = << >> /\ posting' = {} /\ hub' = "down"
  BY DEF Ends, HubExit, brokerVars, gitlabVars
<1>2. /\ FailingAnswers(j)' = FailingAnswers(j)
      /\ Telling(j)' = {} /\ Again(j)' = {}
  BY <1>1, RangeEmpty DEF FailingAnswers, AnswersOf, Telling, Again
<1>3. Failures(j)' = Failures(j) /\ Redelivered(j)' = 0
  BY <1>2, FS_EmptySet DEF Failures, Redelivered
<1>4. Untold(j)' = Again(j) \/ Untold(j)' = Untold(j)
  <2>1. Untold(j)' = {i \in FailingAnswers(j) : i > acked}
    BY <1>1, <1>2 DEF Untold
  <2>2. CASE hub \in {"lost", "deaf"}
    BY <2>1, <2>2 DEF Again
  <2>3. CASE hub \notin {"lost", "deaf"}
    <3>1. taken = acked
      BY <2>3 DEF DownIsIdle, HubTypeOK
    <3>2. QED
      BY <2>1, <3>1 DEF Untold
  <2>4. QED
    BY <2>2, <2>3
<1>5. /\ Cardinality(Untold(j)') \in Nat
      /\ Cardinality(Untold(j)') <= Cardinality(Untold(j)) + Redelivered(j)
  BY <1>4, FailingFinite DEF Redelivered
<1>6. Cardinality(Telling(j)') = 0
  BY <1>2, FS_EmptySet
<1>7. Comments(j)' = comments[j] + Cardinality(Untold(j)')
  <2>1. comments'[j] = comments[j] /\ comments[j] \in Nat
    BY <1>1, FailingFinite
  <2>2. QED
    BY <1>5, <1>6, <2>1 DEF Comments
<1>8. QED
  BY <1>3, <1>5, <1>7, FailingFinite DEF Comments

\* CommentsCounted, its sums named.
LEMMA CommentsCountedIs ==
  CommentsCounted <=>
    \A j \in Jobs :
      /\ Comments(j) + Redelivered(j) <= Failures(j) * (1 + faults)
      /\ NothingFailed => Comments(j) = Failures(j)
BY DEF CommentsCounted, Comments, Redelivered, Failures

\* Every comment has its failing answer, once for each connection.
LEMMA CommentsCountedStep ==
  ASSUME HubTypeOK, HubTypeOK', DownIsIdle, AnswersInOrder, ZipsInUse,
         CommentsCounted, [HubNext]_hubSystemVars
  PROVE  CommentsCounted'
<1> SUFFICES ASSUME NEW j \in Jobs
             PROVE  /\ Comments(j)' + Redelivered(j)' <= Failures(j)' * (1 + faults')
                    /\ NothingFailed' => Comments(j)' = Failures(j)'
  BY DEF CommentsCounted, Comments, Redelivered, Failures
<1> DEFINE F == Failures(j)
           most == F * (1 + faults)
           mostNow == Failures(j)' * (1 + faults')
<1>1. /\ Comments(j) + Redelivered(j) <= most
      /\ NothingFailed => Comments(j) = F
  BY CommentsCountedIs
<1>2. /\ F \in Nat /\ Comments(j) \in Nat /\ Redelivered(j) \in Nat /\ faults \in Nat
  BY FailingFinite DEF HubTypeOK
<1>3. faults' = faults \/ faults' = faults + 1
  BY FaultsStep DEF Fault
<1>4. most \in Nat
  BY <1>2, MoreComments
<1>5. Failures(j)' = F =>
        /\ mostNow = most \/ mostNow = most + F
        /\ Fault => mostNow = most + F
  BY <1>2, <1>3, MoreComments DEF Fault
<1>6. Failures(j)' = F + 1 => mostNow \in Nat /\ mostNow >= most + 1 + faults
  <2>1. SUFFICES ASSUME Failures(j)' = F + 1
                 PROVE  mostNow \in Nat /\ mostNow >= most + 1 + faults
    OBVIOUS
  <2>2. F + 1 \in Nat /\ (F + 1) * (1 + faults) = most + 1 + faults
    BY <1>2, MoreComments
  <2>3. \/ mostNow = (F + 1) * (1 + faults)
        \/ mostNow = (F + 1) * (1 + faults) + (F + 1)
    BY <1>2, <1>3, <2>1, <2>2, MoreComments
  <2> HIDE DEF most, mostNow, F
  <2>4. QED
    BY <1>2, <1>4, <2>2, <2>3
<1>7. hub \in {"lost", "deaf"} => faults >= 1
  BY <1>2 DEF DownIsIdle
<1>8. Comments(j)' + Redelivered(j)' <= mostNow
  <2>1. CASE Ends
    <3>1. /\ Failures(j)' = F
          /\ Comments(j)' \in Nat /\ Redelivered(j)' = 0
          /\ Comments(j)' <= Comments(j) + Redelivered(j)
      BY <2>1, CommentsEnd
    <3> HIDE DEF most, mostNow, F
    <3>2. QED
      BY <1>1, <1>2, <1>4, <1>5, <3>1
  <2>2. CASE HubGoes
    <3>1. \/ /\ Failures(j)' = F /\ Comments(j)' = Comments(j)
             /\ Redelivered(j)' = Redelivered(j)
          \/ /\ Failures(j)' = F /\ Comments(j)' \in 0 .. Comments(j)
             /\ Redelivered(j)' \in 0 .. Redelivered(j) + F
             /\ Fault
          \/ /\ Failures(j)' = F + 1 /\ Comments(j)' = Comments(j) + 1
             /\ \/ Redelivered(j)' = Redelivered(j)
                \/ Redelivered(j)' = Redelivered(j) + 1 /\ hub \in {"lost", "deaf"}
      BY <2>2, CommentsGoes
    <3> HIDE DEF most, mostNow, F
    <3>2. QED
      BY <1>1, <1>2, <1>4, <1>5, <1>6, <1>7, <3>1
  <2>3. QED
    BY <2>1, <2>2, HubSteps DEF HubGoes
<1>9. NothingFailed' => Comments(j)' = Failures(j)'
  <2>1. SUFFICES ASSUME NothingFailed'
                 PROVE  Comments(j)' = Failures(j)'
    OBVIOUS
  <2>2. NothingFailed /\ ~Fault /\ HubGoes
    BY <2>1, NothingFails
  <2>3. QED
    BY <1>1, <2>2, CommentsGoes
<1>10. QED
  BY <1>8, <1>9

-----------------------------------------------------------------------------
(* Theorems.                                                               *)

\* HubInv holds initially.
LEMMA HubInvInit == HubInit => HubInv
<1> SUFFICES ASSUME HubInit
             PROVE  HubInv
  OBVIOUS
<1> USE DEF HubInit, HubInitOwn, BrokerInit
<1>1. HubTypeOK
  <2>1. BrokerTypeOK
    BY DEF BrokerTypeOK
  <2>2. /\ status \in [Jobs -> {"none", "running", "success", "failed"}]
        /\ comments \in [Jobs -> Nat]
    OBVIOUS
  <2>3. /\ taken \in 0 .. Len(results) /\ acked \in 0 .. taken
        /\ prefetched \in 0 .. Len(results)
        /\ responses \in Seq(DOMAIN results) /\ requests \in Seq(Jobs)
    OBVIOUS
  <2>4. faults \in 0 .. MaxFaults
    BY HubAssumption
  <2>5. QED
    BY <2>1, <2>2, <2>3, <2>4 DEF HubTypeOK
<1>2. /\ Range(requests) = {} /\ Range(responses) = {} /\ Outgoing = {}
      /\ DOMAIN results = {}
      /\ IsInjective(requests) /\ IsInjective(responses)
  BY RangeEmpty DEF Outgoing, IsInjective
<1>3. DownIsIdle /\ PackInOrder
  BY DEF DownIsIdle, PackInOrder
<1>4. SentInOrder /\ AnswersInOrder
  BY <1>2 DEF SentInOrder, AnswersInOrder
<1>5. \A j \in Jobs : status[j] = "none" /\ comments[j] = 0
  OBVIOUS
<1>6. NotGradedYet /\ ZipKept /\ VerdictIsFounded
  BY <1>2, <1>5 DEF NotGradedYet, ZipKept, VerdictIsFounded
<1>7. CommentsCounted
  <2>1. \A j \in Jobs : /\ FailingAnswers(j) = {} /\ Telling(j) = {}
                       /\ Untold(j) = {} /\ Again(j) = {}
    BY <1>2 DEF FailingAnswers, AnswersOf, Telling, Untold, Again
  <2>2. Cardinality({}) = 0
    BY FS_EmptySet
  <2>3. \A j \in Jobs : Failures(j) = 0 /\ Comments(j) = 0 /\ Redelivered(j) = 0
    <3> SUFFICES ASSUME NEW j \in Jobs
                 PROVE  Failures(j) = 0 /\ Comments(j) = 0 /\ Redelivered(j) = 0
      OBVIOUS
    <3>1. /\ Cardinality(FailingAnswers(j)) = 0 /\ Cardinality(Again(j)) = 0
          /\ Cardinality(Telling(j)) = 0 /\ Cardinality(Untold(j)) = 0
      BY ONLY <2>1, <2>2
    <3>2. comments[j] = 0
      BY <1>5
    <3>3. QED
      BY ONLY <3>1, <3>2 DEF Failures, Comments, Redelivered
  <2>4. faults = 0
    OBVIOUS
  <2>5. QED
    BY ONLY <2>3, <2>4, CommentsCountedIs
<1>8. Handled = {}
  BY <1>2 DEF Handled
<1>9. ZipsInUse /\ StatusFollows
  BY <1>8 DEF ZipsInUse, StatusFollows
<1>10. QED
  BY <1>1, <1>3, <1>4, <1>6, <1>7, <1>9 DEF HubInv

\* Every step keeps HubInv.
LEMMA HubInvStep ==
  ASSUME HubInv, [HubNext]_hubSystemVars
  PROVE  HubInv'
<1>1. /\ HubTypeOK /\ DownIsIdle /\ PackInOrder /\ SentInOrder /\ NotGradedYet
      /\ AnswersInOrder /\ ZipKept /\ VerdictIsFounded /\ CommentsCounted
      /\ ZipsInUse /\ StatusFollows
  BY DEF HubInv
<1>2. HubTypeOK' /\ DownIsIdle' /\ PackInOrder' /\ SentInOrder'
  BY <1>1, HubTypeStep, DownIsIdleStep, PackInOrderStep, SentInOrderStep
<1>3. NotGradedYet' /\ AnswersInOrder' /\ ZipKept' /\ VerdictIsFounded'
  BY <1>1, NotGradedYetStep, AnswersInOrderStep, ZipKeptStep, VerdictStep
<1>4. CommentsCounted' /\ ZipsInUse' /\ StatusFollows'
  BY <1>1, <1>2, CommentsCountedStep, ZipsInUseStep, StatusFollowsStep
<1>5. QED
  BY <1>2, <1>3, <1>4 DEF HubInv

\* The inductive invariant of the hub: what each part of it knows agrees with
\* the log of the answers, with the files on the disk and with Gitlab.
THEOREM HubInvariant == HubSpec => []HubInv
<1>1. HubInv /\ [HubNext]_hubSystemVars => HubInv'
  BY HubInvStep
<1>2. QED
  BY <1>1, HubInvInit, PTL DEF HubSpec

\* A zip file is on the disk from before its request is sent until the job is
\* answered, whatever crashes and connections are lost (package makes the
\* file first, response_to_post removes it on an answer).
THEOREM ZipsAreKept == HubSpec => []ZipKept
<1>1. HubInv => ZipKept
  BY DEF HubInv
<1>2. QED
  BY <1>1, HubInvariant, PTL

\* Gitlab shows no success that no passing answer earned, and no failure
\* without a failing answer or a lab that could not be zipped.
THEOREM VerdictsAreFounded == HubSpec => []VerdictIsFounded
<1>1. HubInv => VerdictIsFounded
  BY DEF HubInv
<1>2. QED
  BY <1>1, HubInvariant, PTL

\* No comment is made up: each failing answer makes one, and one more at most
\* for each fault of the hub, after which the server may deliver once more all
\* that it does not know to be acknowledged.
THEOREM CommentsHaveAnswers == HubSpec => []CommentsAreFounded
<1>1. HubInv => CommentsAreFounded
  <2> SUFFICES ASSUME HubInv, NEW j \in Jobs
               PROVE  comments[j] <= Failures(j) * (1 + faults)
    BY DEF CommentsAreFounded, Failures
  <2>1. HubTypeOK /\ Comments(j) + Redelivered(j) <= Failures(j) * (1 + faults)
    BY CommentsCountedIs DEF HubInv
  <2>2. Failures(j) * (1 + faults) \in Nat
    <3>1. Failures(j) \in Nat
      BY <2>1, FailingFinite
    <3>2. faults \in Nat
      BY <2>1, HubAssumption DEF HubTypeOK
    <3>3. QED
      BY <3>1, <3>2, MoreComments
  <2>3. comments[j] <= Comments(j) + Redelivered(j)
    BY <2>1, FailingFinite DEF Comments
  <2> DEFINE most == Failures(j) * (1 + faults)
  <2> HIDE DEF most
  <2>4. comments[j] <= most
    BY <2>1, <2>2, <2>3, FailingFinite DEF most
  <2>5. QED
    BY <2>4 DEF most
<1>2. QED
  BY <1>1, HubInvariant, PTL

\* When nothing fails, no zip file is left behind.
THEOREM ZipsAreRemoved == HubSpec => []NoZipLeak
<1>1. HubInv => NoZipLeak
  <2> SUFFICES ASSUME HubInv, NothingFailed, NEW j \in zips
               PROVE  \/ j \in Outgoing
                      \/ j \in submitted /\ ~(Answered(j) /\ DealtWith(j))
                      \/ j \notin submitted /\
                           (\/ status[j] = "failed"
                            \/ pack.step = "failed" /\ j = CurrentJob)
    BY DEF NoZipLeak
  <2>1. /\ \A i \in Handled : AnsweredJob(i) \notin zips
        /\ \/ j \in submitted \cup Outgoing
           \/ status[j] = "failed"
           \/ pack.step = "failed" /\ j = CurrentJob
    BY DEF HubInv, ZipsInUse
  <2>2. Answered(j) /\ DealtWith(j) => \E i \in Handled : AnsweredJob(i) = j
    BY DEF Answered, DealtWith, AnswersOf, Handled, AnsweredJob
  <2>3. QED
    BY <2>1, <2>2
<1>2. QED
  BY <1>1, HubInvariant, PTL

\* When nothing fails, what Gitlab shows of a job is what was answered: the
\* status of one of the answers, and a comment for each failing one.
THEOREM GradesAreReported == HubSpec => []GradeIsReported
<1>1. HubInv => GradeIsReported
  <2> SUFFICES ASSUME HubInv, NothingFailed, NEW j \in Jobs, Answered(j), DealtWith(j)
               PROVE  /\ \E i \in AnswersOf(j) : status[j] = StateOf(results[i].yaml)
                      /\ comments[j] = Cardinality(FailingAnswers(j))
    BY DEF GradeIsReported
  <2>1. HubTypeOK /\ StatusFollows /\ Comments(j) = Failures(j)
    BY CommentsCountedIs DEF HubInv
  <2>2. PICK i \in DOMAIN results : results[i].job = j
    BY DEF Answered
  <2>3. i \in Handled /\ AnsweredJob(i) = j /\ i \in AnswersOf(j)
    BY <2>2 DEF DealtWith, AnswersOf, Handled, AnsweredJob
  <2>4. [answer |-> i, kind |-> "status"] \notin posting
    <3> DEFINE p == [answer |-> i, kind |-> "status"]
    <3>1. p.answer = i
      OBVIOUS
    <3>2. QED
      BY <2>3, <3>1 DEF DealtWith
  <2>5. \E k \in AnswersOf(j) : status[j] = StateOf(results[k].yaml)
    BY <2>1, <2>3, <2>4 DEF StatusFollows
  <2>6. Telling(j) = {}
    <3>1. SUFFICES ASSUME NEW k \in Telling(j)
                   PROVE  FALSE
      OBVIOUS
    <3> DEFINE p == [answer |-> k, kind |-> "comment"]
    <3>2. p.answer = k
      OBVIOUS
    <3>3. k \in AnswersOf(j) /\ (k \in Range(responses) \/ p \in posting)
      BY <3>1 DEF Telling, FailingAnswers
    <3>4. QED
      BY <3>2, <3>3 DEF DealtWith
  <2>7. Untold(j) = {}
    <3>1. \A k \in FailingAnswers(j) : k \in Nat /\ k <= taken
      BY <2>1, ReceivedAre DEF DealtWith, FailingAnswers, AnswersOf
    <3>2. QED
      BY <2>1, <3>1, ReceivedAre DEF Untold
  <2>8. comments[j] = Failures(j)
    BY <2>1, <2>6, <2>7, FailingFinite, FS_EmptySet DEF Comments
  <2>9. QED
    BY <2>5, <2>8 DEF Failures
<1>2. QED
  BY <1>1, HubInvariant, PTL

\* No grade is covered by a running status that comes late: package waits for
\* the answer of Gitlab before it goes on to the zip.
THEOREM GradesAreKept == HubSpec => GradeIsKept
<1>1. HubInv /\ [HubNext]_hubSystemVars =>
        \A j \in Jobs : status[j] \in {"success", "failed"} => status'[j] # "running"
  <2> SUFFICES ASSUME HubInv, [HubNext]_hubSystemVars, NEW j \in Jobs,
                      status[j] \in {"success", "failed"}
               PROVE  status'[j] # "running"
    OBVIOUS
  <2>1. /\ HubTypeOK /\ PackInOrder /\ NotGradedYet
        /\ status \in [Jobs -> {"none", "running", "success", "failed"}]
    BY DEF HubInv, HubTypeOK
  <2>2. CASE RunningPosted
    <3>1. j # CurrentJob
      <4>1. j = CurrentJob => ToPackage(j)
        BY <2>1, <2>2, CurrentToPackage DEF RunningPosted
      <4>2. QED
        BY <2>1, <4>1 DEF NotGradedYet
    <3>2. QED
      BY <2>1, <2>2, <3>1 DEF RunningPosted, PostStatus, gitlabVars
  <2>3. CASE FailedPosted
    BY <2>1, <2>3 DEF FailedPosted, PostStatus, gitlabVars
  <2>4. ASSUME NEW p \in posting, PostAccepted(p)
        PROVE  status'[j] # "running"
    BY <2>1, <2>4 DEF PostAccepted, StateOf
  <2>5. QED
    BY <2>2, <2>3, <2>4, GitlabSame
<1>2. QED
  BY <1>1, HubInvariant, PTL DEF HubSpec, GradeIsKept
=============================================================================
