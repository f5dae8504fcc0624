# A verification of the graders

This directory holds TLA+ models of the programs of this repository, the TLC
configurations that check them on small instances, and proofs checked by TLAPS.
Every definition is written from the source; `PROJECT.json` maps it to its
lines.

## The system

| part | state it keeps | operations | talks to |
|---|---|---|---|
| `gitlab-to-amqp` (the hub) | hooks, the packager's progress, requests and responses in memory; zip files on disk | accept a hook; clone, set the status to running, zip; publish a job; receive a response, remove the zip file, post status and comment; serve zip files | Gitlab (http), AMQP server, builders (http) |
| AMQP server | queue of jobs with unacknowledged deliveries per channel, queue of results, queue of reports | publish, deliver within a prefetch count, acknowledge, requeue | all but the builder |
| `amqp-to-test` (the testers) | deliveries, requests, tasks, permits and responses in memory | receive, decode, run docker, publish the response, acknowledge, report | AMQP server, docker |
| `builder` | none | download and unzip, build, run the tests, print a diagnostic | hub (http), tester (standard output) |
| `graders-utils` | archives | zip a directory, unzip below a prefix, download | |
| `amqp-utils` | connection and channels | the AMQP operations | |
| `xqueue-to-amqp-py` | submissions being published | poll EDX, publish jobs, return grades | EDX (http), AMQP server |
| `reports-dumper` | results in memory and in a CSV file | load, add a report, rewrite the file | AMQP server |

Inside a Rust program the parts are futures of one task, linked by bounded
`mpsc` channels; the programs only share the queues of the AMQP server and the
zip files, and each of them may be killed between any two awaits. Nothing that
they write to the server is confirmed: neither `basic_publish` nor `basic_ack`
waits for a reply, so that a program goes on for a while over a channel or a
connection that is gone.

### What is hard, and what has to hold

* **Testers.** An instance publishes, then acknowledges on its consuming
  channel, then reports on the other one; it may die, lose its connection or
  only its consuming channel between any two of these, and notice it any time
  later, so that it reports a job that the server has given to another. Jobs end
  out of order, several instances may run one job, tags outlive their channels,
  messages may not decode, and the prefetch count alone bounds the spawned
  tasks. *No job is lost before it is answered; answers given twice have a
  cause; a report repeats an answer, and is only repeated after a channel was
  closed by the server; every message in the window is accounted for; jobs are
  settled in the end.*
* **Hub.** Responses are acknowledged before they are handled, in vain when the
  connection is lost, and all that the server had sent is then handled twice;
  posts are concurrent and never retried; a clone blocks the common task; one
  failure ends the process, and the zip files stay. *The zip file is there until
  the first answer; a verdict is founded on an answer and never covered by the
  running status; each failing answer makes one comment, and one more per fault;
  all is reported when nothing fails.*
* **Together.** A job that is given back by the server is built again without
  its zip file, so its failure may cover an earlier success. *Only the failure
  of a tester does that.*
* **Zip files.** The GET of a zip file takes four steps while the answer of
  another builder may remove the file and the hub may stop; the end of an
  archive is written when its writer is dropped, unseen; the order of its
  entries is that of `read_dir`. *A download is as good as atomic; what is
  unzipped is the tree that was pushed; every failure of zip or unzip has a
  cause that can be named.*
* **Builder and reports.** Three ways to build are tried in turn and the last
  error wins; two programs in two languages read the diagnostics. *A verdict is
  earned, an error is true, every failing test that costs points is told, both
  readers agree, and every build is told in the end.*
* **xqueue.** Submissions are taken one by one and published together; callbacks
  overlap at their awaits; an exception ends the process or only strands its
  message. *A submission is lost only with a cause; a grade leaves the queue
  when EDX is done with it; grades do not hold up one another.*
* **reports-dumper.** One file is truncated and rewritten at each report, and
  read back with other types; the whole queue is pushed to the process, which
  may enter and acknowledge several reports over a connection that is lost. *The
  highest grade stays, across restarts; reports enter in order, but that those
  not acknowledged enter again; all of them do enter.*

`PROJECT.json` lists the hazards at their lines, with the properties for each.

## Modules

| module | role | actions and state against the code |
|---|---|---|
| `AmqpBroker` | the server as the code uses it | `PublishJob`/`PublishResult`/`PublishReport` (`basic_publish`), `HasCredit` (`basic_qos`), `BasicDeliver`, `BasicAck` (`multiple: false`), `Requeue`. Jobs are a set (every order of delivery), results and reports are logs |
| `MpscChannel` | capacity of a channel | `HasRoom` |
| `JobService` | abstract: what submitters of jobs are promised | submit, answer, settle, report one of the answers |
| `AmqpToTest` | the testers, `EXTENDS AmqpBroker` | per instance `link` (the server's side of the channels), `view` (what the instance has noticed of it), `inbox`, `reqChan`, `waiting`, `running`, `respChan`, `sender`; one action between two awaits of `amqp_receiver`, `start_executor`, `execute`, `amqp_sender`; `Crash`, `Disconnect`, `CloseConsumer`, and `Notice` some time after; `SenderFails` and `Finish` are how `main` ends |
| `AmqpToTestProofs` | theorems on the testers: what is delivered, then what they promise | |
| `GitlabToAmqp` | the hub, `EXTENDS AmqpBroker` | `hooks`, `pack` (the packager's place), `requests`, `zips`, `acked` (for the server), `taken` (by the process), `prefetched`, `responses`, `posting`, and Gitlab's `status` and `comments`; one action per await of `package`, `amqp_publisher`, `amqp_receiver`, `response_poster`; `HubDisconnect`, and `HubNotices` some time after; the testers are `GradersAnswer` |
| `GitlabToAmqpProofs` | theorems on the hub | |
| `Grader` | composition, `EXTENDS AmqpToTest, GitlabToAmqp` | hub and testers on the same queues; `Download` is the builder's request for its zip file, in one step |
| `GraderProofs` | theorems on the composition | |
| `Archive` | `zip_recursive`, `unzip_file` | `stack` is the recursion of `add_to_zip`, `archive` the entries of the zip file, `whole` whether its end was written, `damaged` the entries that cannot be read, `out` what is unzipped; `Look` is the choice of a lab by `package` and `is_enabled`; `IsNew` is the refusal of a name by the zip writer, for which the name of a directory ends with a slash |
| `ZipTransfer` | composition, `EXTENDS Archive` | the web server's `IsFile`, `Metadata`, `Open`, `ReadToEnd` per connection, `RemoveZipFile` of `response_poster`, `HubDown`; then the builder unzips its copy |
| `ZipTransferProofs` | theorems on downloads, then on zip and unzip | |
| `Builder` | `main`, `build`, `run_test`, `write_error` | `way` is the place in `make(..).or_else(configure).or_else(autogen)`, `tree` what the commands find and leave |
| `Report` | operators: `yaml_to_markdown`, `pass_fail`, `signal_to_explanation`, `parse_yaml_result` | a diagnostic is a record of groups of tests; a comment is the titles and the tests it lists |
| `Feedback` | composition, `EXTENDS Builder, Report` | builder, tester's answer, what the hub and xqueue-to-amqp tell |
| `FeedbackProofs` | theorems on the builder and on what is told | |
| `XQueue` | `xqueue-to-ampq.py` | `poll`, `left`, `mustGrade` are the loop, `stage` the place of each callback between its awaits; EDX is `edx` |
| `XQueueProofs` | theorems on xqueue-to-amqp | |
| `Dictionaries` | functions that grow: the dictionaries of the Python programs, the files that are unzipped | `With` is `d[key] = value` |
| `GradeBook` | abstract: the table that reports-dumper promises | enter a report, conclude it, begin again after the last one that is done with |
| `ReportsDumper` | `reports-dumper.py`, implements `GradeBook` | `reports` is the queue, `acked` what the server holds for acknowledged, `taken` what the process is done with, `arrived` what was pushed before the link was lost; `results` and `file` are the rows in memory and on disk; `LoseLink`, and `NoticeLoss` some time after; `Tear` is a crash while writing |
| `ReportsDumperProofs` | theorems on reports-dumper | |
| `SequenceLemmas` | lemmas on sequences read at their head, on finite sets, and on sums and other functions defined by recursion on numbers | |
| `MC*` | values of the constants for TLC | |

Abstractions. A job is a hook and a lab; its names, URL and opaque string are
what identifies it. A diagnostic is a model value, in three kinds: maximal
grade, other report, not a report. Hooks that are no push, are deletions or
carry the wrong token change nothing and are left out. Names are model values,
or have a text that may coincide with another; the contents of files, the layout
of comments and the wording of messages are left out, but for the meaning of
signals, on which the two readers differ. Two deliveries of the same push by
Gitlab are two hooks. The hub's queue of hooks is a set, because the tasks that
fill it run in any order. What a program writes to the server takes effect at
once or, once the channel or the connection is gone, never; a message that is on
its way when the connection is lost is thus one of these two. A channel or a
connection that is gone gives back its deliveries at once. Each definition with
a comment like "a request that may be published again" is a faulty variant of
the definition after it; `PROJECT.json` names the property that each of them
breaks.

The bounds are constants named in the modules: `MaxFailures` (crashes, lost
connections and closed channels of testers), `MaxFaults` (of the hub: crashes,
lost connections, zip files that cannot be removed, lost posts; of xqueue and of
reports-dumper: crashes and lost connections), `MaxAnswers` (answers to one job
when the testers are abstracted), `MaxReports` (of reports-dumper), `MaxPaths`
and `MaxDepth` (files and directories of a tree, names of a path).

## Runs

| run | instance | what it shows |
|---|---|---|
| `tester_safety` | 2 testers, 3 jobs (decodable, unconfigured lab, undecodable), parallelism 2, 1 failure that is noticed at any time, diagnostics all alike | the inductive invariant `TesterInv` and the safety properties; `AmqpToTest` implements `JobService`, the settled jobs being those the server no longer has |
| `tester_live` | 1 tester, 3 jobs, 2 failures | every decodable job is settled, when the undecodable ones are fewer than the parallelism |
| `tester_stall` | parallelism 1, one undecodable message | **violated**: the tester stops serving |
| `hub_safety` | 2 hooks, 1 lab, 2 answers per job, 2 faults, malformed diagnostics | the inductive invariant `HubInv`, zip files and verdicts |
| `hub_malformed` | one malformed diagnostic | **violated**: the zip file stays, the process ends |
| `hub_parallel` | 2 threads, one slow hook | **violated**: hooks are packaged one at a time |
| `grader_one` | 1 job, 2 testers, a failure on either side | the composition is an execution of each component (`RunsTesters`, `RunsHub`), so what holds of the components holds of the whole; a success is only taken back after the failure of a tester |
| `grader_live` | 1 hook, 2 labs, 1 tester that may fail, parallelism 65536 | from the hook to the verdict, whatever labs are there and are packaged; the prefetch count falls back to 1 |
| `transfer` | every tree of up to 4 paths and 3 levels with 2 names, 4 labs, 2 texts of names; 6 archives of students; 2 downloads, by builders that are alike (symmetry) | the inductive invariant `TransferInv`, `RoundTrip`, the causes of failures, `DownloadIsAtomic` |
| `feedback` | every project (presence, executable bits and outcome of its scripts and Makefile), 3 kinds of source; every report of 2 tests at most, in 1 or 2 groups, and grades that are not those of the tests | the inductive invariant `FeedbackInv`; what the student reads |
| `xqueue` | 2 submissions of any form, 2 answers each, 1 fault | the inductive invariant `XInv`; what is lost and why; which answers leave the queue; liveness |
| `dumper` | 3 reports on 2 repositories and 2 labs, 2 crashes or lost connections | the inductive invariant `DumperInv`; the highest grade, the refinement of `GradeBook`, liveness |

Why these bounds are enough: two instances are needed for a job to be run twice
at once, and one failure cuts off the first of them while it works, answers,
acknowledges or reports; with two failures, in `tester_live`, the second run is
disturbed as well; one message of each kind and a parallelism of 2 let a message
that does not decode share the window with two others; a channel buffer of 0
makes channels fill up (their real size, 16, is above the number of messages);
two answers to one job are enough for their posts to overtake one another. A
tree of four paths has a directory with two entries beside a file, so that names
collide in one directory and across two, and each entry comes before or after
the others; a third level has `stack` come back from a directory to one that is
not finished. Two downloads let one be under way when the answer of the other
removes the file. Tests whose coefficient is 0, 1 or 2 make groups without
weight, and points lost beside others won. Two submissions make a batch in which
one may spoil the other, and two answers to each make callbacks overlap. Two
faults of reports-dumper let a file that was read back be rewritten and read
again, and two reports of one lab be entered in vain and again while a third one
waits. Deadlock checking is on in `transfer` and `feedback`, and off in the
other runs: the system comes to rest when all jobs are submitted and settled.

Fairness. The liveness runs assume weak fairness of each part of a program that
is up (the async runtime polls every future that is ready), that the server
delivers what it may, that docker, clones and zips end, that a lost channel or
connection is noticed (by its frames or the heartbeats), and that a program that
has ended is started again by its supervisor. None of them assumes anything of
failures, which are bounded. `hub_malformed` and `xqueue` assume of the testers
what `tester_live` shows: a submitted job is answered. `hub_parallel` drops the
assumption for the zips of one hook. In `xqueue` the event loop runs the poll
and each callback that can go on; in `feedback` the commands of a project end.

## Proofs

Every theorem is about the specification of its module for all values of its
constants: any number of testers, hooks, labs, jobs, answers, submissions and
reports, trees of any size and depth, reports of any number of groups and tests,
any bound on failures. They use the named assumptions of the modules
(`TesterAssumption`, `ChanBufferAssumption`, `HubAssumption`, `XAssumption`,
`DumperAssumption`, `GraderAssumption`, `BuilderAssumption`,
`FeedbackAssumption`, `ArchiveAssumption`) and nothing else. Some say more than
a type: `MaxAnswers` of the composition is one for a job and one for each
failure; and of the hub, `IsInjective(Labs)` (the configuration names a lab
once; Gitlab keeps one status per name, and `test_files` is keyed by it) and
that its jobs are its hooks and its labs.

The properties are not inductive as they stand. Each module has an inductive
invariant, a conjunction of named parts written next to the properties, which
TLC checks in the run of the module before the proof does. (Those of the
composition, `GraderInv` and `BuildsInv`, stand with its proofs: the first is
that of both sides.)

| module | inductive invariant | theorems, and the property that each states |
|---|---|---|
| `AmqpToTestProofs` | `DeliveryInv`, then `TesterInv` | `NoJobIsLost` (`NoJobLost`), `WindowIsWork` (`SlotsAccounted`), `TesterTypes`; `TesterInvariant`, `AcknowledgesItsOwn` (`WorkIsUnacked`), `TasksAreBounded` (`TasksBounded`), `AnswersAreCounted` (`DuplicatesNeedFailures`), `ReportsAreCounted` (`OneReport`), `TestersImplementService` (`ImplementsService`) |
| `GitlabToAmqpProofs` | `HubInv` | `HubInvariant`, `ZipsAreKept` (`ZipKept`), `ZipsAreRemoved` (`NoZipLeak`), `VerdictsAreFounded` (`VerdictIsFounded`), `CommentsHaveAnswers` (`CommentsAreFounded`), `GradesAreReported` (`GradeIsReported`), `GradesAreKept` (`GradeIsKept`) |
| `GraderProofs` | `GraderInv`, `BuildsInv` | `GraderInvariant`, `TestersRun` (`RunsTesters`), `HubRuns` (`RunsHub`), `MissesHaveCauses` (`MissHasCause`), `SuccessesAreKept` (`SuccessIsKept`) |
| `XQueueProofs` | `XInv` | `XInvariant`, `SubmissionsAreAccounted` (`SubmissionsAccounted`), `AcknowledgedIsDealt` (`AckedIsDealt`) |
| `ReportsDumperProofs` | `DumperInv` | `DumperInvariant`, `HighestIsKept` (`HighestKept`), `DumperKeepsBook` (`KeepsBook`) |
| `FeedbackProofs` | `FeedbackInv` | `FeedbackInvariant`, `ReportsAreTrue` (`ReportIsTrue`), `VerdictsAreEarned` (`VerdictIsEarned`), `ReceiversDoAgree` (`ReceiversAgree`), `FailuresDoShow` (`FailuresAreTold`) |
| `ZipTransferProofs` | `TransferInv`: `ArchiveInv` and `DownloadInv` | `DownloadsAreAtomic` (`DownloadIsAtomic`), `TransferInvariant`, `PackagingFailuresHaveACause` (`ZipFailureHasCause`), `UnzippingFailuresHaveACause` (`UnzipFailureHasCause`), `TheTreeIsKept` (`RoundTrip`) |

Why the invariants are what they are:

* **Testers, `DeliveryInv`.** An acknowledgement removes by its tag, and nothing
  in `NoJobLost` says that the tag is that of an answered job. `TagsTracked` (a
  tag in process is not the tag of another unacknowledged delivery, and tags
  grow), `DownIsEmpty` (so that tags may start anew), `ViewLags` (a loss is
  noticed after it has happened, so that a channel that is open is known to be)
  and `AckedIsAnswered` (the sender publishes first, and over the same
  connection) do.
* **Testers, `TesterInv`.** What an instance promises once needs each delivery
  to be in one place (`OnePlace`), each job to be queued or unacknowledged once
  (`JobsOnce`), and the sender to be at its place (`SenderInOrder`);
  `WindowHolds` bounds the window, hence the tasks, by the prefetch count, and
  `AnswersCounted` weighs the answers and the chances of one more against the
  failures. Nothing tells an instance that its acknowledgement was read, so that
  `OneReport` cannot follow from its steps alone: `ReportsCounted` weighs the
  reports of a job, and the deliveries that may still make one over an open
  connection, against the channels that the server closed. The refinement
  follows: publishing is the answer, an acknowledgement that is read settles,
  the report repeats an answer that has none yet (`SenderInOrder` counts both),
  and a requeue, a loss or what is written in vain are stutters.
* **Hub, `HubInv`.** `PackInOrder` and `SentInOrder` make the packager go
  through its labs once, so that a job is sent once and its zip file is made
  before; `NotGradedYet` keeps the grades from jobs still to be packaged, which
  is why the running status covers none; `AnswersInOrder` has each answer in one
  of the channels; `CommentsCounted` adds the comments made, in hand and to
  come, and those of the responses that a lost connection will deliver again;
  `ZipsInUse` and `StatusFollows` follow what is handled while nothing failed.
* **Composition.** `GraderInv` is `TesterInv /\ HubInv`, each kept by the steps
  of the other part: a publication of the hub is the `Submit` that the testers
  allow, for a job that is new by `SentInOrder`; a publication of the testers is
  the `GradersAnswer` that the hub allows, whose bound on answers per job is
  `DuplicatesNeedFailures` of the testers. `RunsTesters` and `RunsHub` are then
  proved step by step, and discharge what each part assumes of the other.
  `BuildsInv` adds that a builder is one of a running task, and that a hub that
  accepted a hook is only down for a cause (`DownHasCause`).
* **xqueue, `XInv`.** `CutByFault` is what separates a broken link from a
  callback that is slow; `AckingIsDealt` is that a callback acknowledges once
  EDX has the grade or has refused it.
* **reports-dumper, `DumperInv`.** The table is in memory while the file is
  rewritten, and in the file otherwise: `InMemory` ties the two, `PlainNames`
  and `TornIsDown` say what a restart may meet, and `ReportsEntered` that every
  report that the process is done with, acknowledged or in vain, is in the
  table, with the one in hand as the latest of its lab. `InOrder` says that the
  process is ahead of the server only over a lost connection; the cursor `next`
  of `GradeBook` is the process's own, `taken`, which goes back to `acked` when
  it ends. `AddIs` and `AddEnters` are the lemmas on `add_result` that it rests
  on, `RowsOfIs` that on the file, `QueueStep` that on the queue.
* **Downloads, `DownloadInv`.** `DownloadIsAtomic` speaks of downloads that have
  ended; `DownloadInv` adds what those under way have seen: the hub is up, and
  from the moment the file was found it could have been served.
* **Archives, `ArchiveInv`.** `RoundTrip` speaks of the end of two walks, and of
  trees of which the archive is a partial copy meanwhile. `Holds(V)` says that
  the archive has top, then the paths of a set `V`, each after its directory and
  each name once; `Walks(V)` that `stack` is the way to the directory that
  `add_to_zip` is in, and that a path that is not in `V` though its directory
  is, is still left in some directory of the stack. When the stack is empty
  nothing is left, and `V` is all that is kept of the tree (`WalkEnds`, from the
  shortest path that would be missing). `Unpacks` says the same of what
  `unzip_file` has written against the entries before `next`, so that a refusal
  is one for want of a directory, for a name outside of top or for a name taken,
  unless the disk is full or the entry cannot be read: the first two cannot
  happen to an archive that `Holds` (but to top, when it is nested), the third
  only between a file and a directory, and only archives of others have entries
  that are `damaged`.
* **Builder and reports, `FeedbackInv`.** `TreeOfProject` says what the commands
  have made of the project, `WaysFailed` that the ways before the current one
  lead nowhere on the project itself, not only on what the commands before have
  left. What is told is told of the answer, so that the rest is about operators:
  `ReceiversDoAgree` compares the two readers field by field, and
  `FailuresDoShow` is arithmetic on sums over the tests of a report
  (`WeightSplits`, `PointsAreLostOrWon`, `AllTestsAreTests`).

Sums and `FlattenSeq` are functions defined by recursion on numbers. The
induction they need is proved from the well-foundedness of the inclusion of
finite sets: a set of numbers that is not empty has a least element
(`LeastOf`), hence one that has 0 and with each number the next one has them all
(`FromZero`), hence a function that is stepped through by another is that other
(`StepByStep`), and sums are what they should be (`PartialSums`).

The proofs say first what a step changes of the things that an invariant speaks
of (`ReceiveProcess`, `EdxStep`, `TableStays`...), then have one step per action
and part. Only checked by TLC:

* liveness (`EveryJobSettled`, `EveryJobReported`, `EveryGradeReturned`,
  `EveryReportEntered`, `EveryBuildIsTold`) and the fairness of the
  specifications: with `ENABLED`, out of the prover's reach;
* the three violations.

## Findings

1. `tester_stall`: messages that do not decode are never acknowledged; with
   `parallelism: 1` a single one stops a tester.
2. `hub_malformed`: a diagnostic that is not a report ends `gitlab-to-amqp`
   before the zip file is removed, with everything it had under way.
3. `hub_parallel`: hooks are packaged one after the other, whatever
   `package.threads` says.

Also seen, without a document that says otherwise; the properties named here
state each as the one exception they allow:

* an acknowledgement has no reply, so that a tester whose consuming channel was
  closed reports a job that will run again, and be reported again (`OneReport`);
* a lost AMQP connection leaves the hub running but deaf until its next
  publication fails, which loses that job (`HubNotices`, `PublishFails`), or is
  written in vain before the loss is noticed (`PublishRequest`); the responses
  that it had been sent are posted now and again after the restart
  (`CommentsAreFounded`); a clone that fails tells Gitlab nothing; the README
  sets the status before the clone, the code after it;
* a zip file whose end could not be written is served like another
  (`UnzipFailureHasCause`); a lab whose `dir` is nested can be zipped but never
  downloaded nor unzipped, as nothing makes the directory above; a link that
  leads nowhere fails its lab (`ZipFailureHasCause`); a file and a directory
  whose names have the same text are zipped, as the name of the directory ends
  with a slash there, and their archive is then refused by every builder
  (`UnzipFailureHasCause`);
* the error of `autogen.sh` hides that of the compilation when the sources have
  a Makefile and no `autogen.sh` (`ReportIsTrue`); a relative source directory
  gives the tests a `DTIGER` that leads nowhere from their directory;
* signal 7 is a bus error in `report.rs:45`, signal 10 in
  `xqueue-to-ampq.py:126`; a signal that is null is none for the one and a crash
  for the other, which tests that the field is there; a failing test without
  weight in a group that has all its points is told by `xqueue-to-ampq.py` only
  (`ReceiversAgree`); parse_yaml_result raises on a failing report without
  groups, with a group without a description, or with a null explanation
  (`EveryBuildIsTold`);
* one submission without the right file or lab ends xqueue-to-amqp and loses all
  those taken with it (`SubmissionsAccounted`); a login that fails strands the
  answer until a restart; an error of the server of EDX is taken for an expired
  key, and the grade dropped (`AckedIsDealt`);
* reports-dumper turns a repository whose name looks like a number into another
  row at the next restart, and cannot sort it with the others, which empties the
  file (`HighestKept`); without a prefetch count, reports acknowledged over a
  lost connection come again, so that the latest grade of a lab may go back to
  that of an older report for a while (`KeepsBook`); a row cut short by a crash
  stops it for ever, as does a report of an xqueue job (`EveryReportEntered`).

## Order

The order in which it was built, which is also one to read it in: `AmqpBroker`,
`JobService`, `AmqpToTest`, `GitlabToAmqp`, `Grader`, `GradeBook`,
`ReportsDumper`, `XQueue`, `Builder`, `Archive`, `ZipTransfer`, `Report`,
`Feedback`; then the proofs of the testers, of downloads, of the hub, of the
composition, of xqueue-to-amqp, of reports-dumper, of the feedback and of the
archives. Every safety property that a run checks is the statement of a theorem.

When the code changes: the map in `PROJECT.json` tells which definitions its
lines are in; the run of the module says what does not hold any more, and the
proof of the action that changed is the one to mend.

## Not modelled

* The configuration, but for `is_enabled` and the witness: it is read once, and
  its values are constants.
* The container images and CI: no behaviour of their own.
* The panic of the thread that zips (`JoinError`, `gitlab/mod.rs:162`) and
  responses that are not an `AmqpResponse` (`gitlab-to-amqp/src/amqp.rs:44-48`
  acknowledges and drops them): nothing in the code makes one. Diagnostics that
  only Python can read (a signal below 0): the hub takes them as malformed.
* The server closing only the consuming channel of the hub, which acknowledges
  at once; what comes of the posts is that of `HubDisconnect`, without the loss
  of a publication.
* Of a download by the builder, its own network; its full disk is that of
  `UnzipWriteFails`. What a failed unzip leaves behind, since the builder then
  ends; files that are read-only and named twice in the archive of a student.
* A server that loses its queues (messages are not persistent), a docker run
  that hangs, a parallelism of 0: the code has nothing against them, so that any
  property would only restate the assumption.
* The texts of statuses, comments and logs, the contents of files, and what
  `make`, the scripts of a project and the test program do but for their
  outcome.
