---------------------------- MODULE ReportsDumper ----------------------------
(***************************************************************************)
(* reports-dumper: takes the reports of the testers from their queue and   *)
(* keeps the grades in a CSV file, a row per repository.  Each report has  *)
(* the whole file truncated and written again; the message is acknowledged *)
(* after that.  At start the file is read back, and every cell of it that  *)
(* looks like a number becomes one.  An exception ends the process, and    *)
(* what was not acknowledged comes back first.                             *)
(*                                                                         *)
(* No window is asked for: the server pushes the whole queue, and an       *)
(* acknowledgement has no answer.  Over a connection that is lost, and not *)
(* yet seen to be, the process goes on with the reports that have arrived; *)
(* what it acknowledges then is not, and all of it comes back.             *)
(*                                                                         *)
(* A job may be reported several times (JobService).  The cells of a row   *)
(* are those of the labs it has a grade for; the others are empty in the   *)
(* file.                                                                   *)
(***************************************************************************)
EXTENDS Naturals, Sequences, FiniteSets, Functions, Dictionaries

CONSTANTS
  Jobs,         \* the jobs that testers report
  RepoOf,       \* the repository of a job: a function of the jobs
  LabOf,        \* its lab
  Foreign,      \* jobs whose opaque string is not of gitlab-to-amqp
  Percents,     \* the percentages that the grades of reports may give
  NoPercent,    \* stands for the percentage of a report that gives none: a
                \* diagnostic of another form, or a maximal grade of 0
  Numeric,      \* the repositories whose name looks like a number
  MaxReports,   \* bound on the reports
  MaxFaults     \* bound on the crashes and the lost connections

ASSUME DumperAssumption ==
  /\ DOMAIN RepoOf = Jobs
  /\ DOMAIN LabOf = Jobs
  /\ Foreign \subseteq Jobs
  /\ Percents \subseteq Nat /\ NoPercent \notin Percents
  /\ MaxReports \in Nat /\ MaxFaults \in Nat

VARIABLES
  reports,   \* the queue, as the log of the reports published on it
  acked,     \* how many of them are acknowledged, for the server
  taken,     \* how many of them the process is done with: it begins after those
             \* that are acknowledged, and takes them in their order
  link,      \* its connection: "none"; "open"; "lost", which it has not seen
  arrived,   \* how many had been pushed to it when the connection was lost
  dumper,    \* "down"; "idle"; "dumping", the file being rewritten; "dumped"
  results,   \* the rows in memory, by the text of the name
  file,      \* the rows in the file, by the text of the name
  torn,      \* the last row of the file is incomplete
  spoilt,    \* history: a file was left without all its rows, or with a name
             \* that had become a number
  faults

queueVars == <<reports, acked, taken, link, arrived>>
dumperVars == <<queueVars, dumper, results, file, torn, spoilt, faults>>

ReportOf == [job : Jobs, percent : Percents \cup {NoPercent}]

Repositories == Range(RepoOf)
LabNames == Range(LabOf)

\* The text of the name of a repository, and the one that Python gives to the
\* number it was read as ("2024" and "2024.0").
Texts == Repositories \X {"plain", "float"}

\* Rows: whether the name of each has become a number, and its cells.
Cell == [latest : Percents, highest : Percents]
Row == [number : BOOLEAN, cells : UNION {[labs -> Cell] : labs \in SUBSET LabNames}]
AreRows(rows) == DOMAIN rows \subseteq Texts /\ \A text \in DOMAIN rows : rows[text] \in Row

\* The type invariant.
DumperTypeOK ==
  /\ reports \in Seq(ReportOf)
  /\ acked \in Nat /\ taken \in Nat /\ arrived \in Nat
  /\ link \in {"none", "open", "lost"}
  /\ dumper \in {"down", "idle", "dumping", "dumped"}
  /\ AreRows(results)
  /\ AreRows(file)
  /\ torn \in BOOLEAN
  /\ torn => file # << >>
  /\ spoilt \in BOOLEAN
  /\ faults \in 0 .. MaxFaults

DumperInit ==
  /\ reports = << >>
  /\ acked = 0 /\ taken = 0
  /\ link = "none" /\ arrived = 0
  /\ dumper = "down"
  /\ results = << >>
  /\ file = << >>
  /\ torn = FALSE
  /\ spoilt = FALSE
  /\ faults = 0

\* A tester publishes a report of a job.
PublishReport(j, percent) ==
  /\ Len(reports) < MaxReports
  /\ reports' = Append(reports, [job |-> j, percent |-> percent])
  /\ UNCHANGED <<acked, taken, link, arrived, dumper, results, file, torn, spoilt, faults>>

-----------------------------------------------------------------------------

\* float(v) of every cell, the name included.
Loaded(rows) ==
  [text \in DOMAIN rows |-> [number |-> text[1] \in Numeric, cells |-> rows[text].cells]]

\* A start that does not mind a row that lacks cells.
StartAnyway ==
  /\ dumper = "down"
  /\ results' = Loaded(file)
  /\ dumper' = "idle"
  /\ link' = "open"
  /\ UNCHANGED <<reports, acked, taken, arrived, file, torn, spoilt, faults>>

\* The process starts: it reads the file, or starts anew without one, and has
\* the queue pushed to it.  A last row that lacks cells raises (float(None)), at
\* this start and all others.
Start ==
  /\ dumper = "down"
  /\ ~torn
  /\ results' = Loaded(file)
  /\ dumper' = "idle"
  /\ link' = "open"
  /\ UNCHANGED <<reports, acked, taken, arrived, file, torn, spoilt, faults>>

\* A new row for each report, without the highest grade of the one before.
AddResultForgetful(rows, r) ==
  With(rows, <<RepoOf[r.job], "plain">>,
       [number |-> FALSE,
        cells |-> [lab \in {LabOf[r.job]} |->
                     [latest |-> r.percent, highest |-> r.percent]]])

\* add_result: the latest and the highest percentage of the lab.
AddResult(rows, r) ==
  LET text == <<RepoOf[r.job], "plain">>
      lab == LabOf[r.job]
      row == IF text \in DOMAIN rows THEN rows[text]
             ELSE [number |-> FALSE, cells |-> << >>]
      before == IF lab \in DOMAIN row.cells THEN row.cells[lab].highest ELSE 0
      cell == [latest |-> r.percent,
               highest |-> IF r.percent > before THEN r.percent ELSE before]
  IN  With(rows, text, [number |-> row.number, cells |-> With(row.cells, lab, cell)])

\* The reports pushed to the process, and the next one of them.
Arrived == IF link = "open" THEN Len(reports) ELSE arrived
Pending == reports[taken + 1]

Raises(r) == r.job \in Foreign \/ r.percent = NoPercent

\* The process ends: the queue has what was not acknowledged again.
Stopped ==
  /\ dumper' = "down"
  /\ results' = << >>
  /\ taken' = acked
  /\ link' = "none"
  /\ arrived' = 0
  /\ UNCHANGED <<reports, acked>>

\* callback on a report that has no repository or no percentage.
RaiseOnReport ==
  /\ dumper = "idle"
  /\ taken < Arrived
  /\ Raises(Pending)
  /\ Stopped
  /\ UNCHANGED <<file, torn, spoilt, faults>>

\* A file that is only replaced once it can be written.
HandleReportInPlace ==
  /\ dumper = "idle"
  /\ taken < Arrived
  /\ ~Raises(Pending)
  /\ results' = AddResult(results, Pending)
  /\ dumper' = "dumping"
  /\ UNCHANGED <<queueVars, file, torn, spoilt, faults>>

\* callback, add_result, and dump_results up to the opening of the file.
HandleReport ==
  /\ dumper = "idle"
  /\ taken < Arrived
  /\ ~Raises(Pending)
  /\ results' = AddResult(results, Pending)
  /\ file' = << >>
  /\ dumper' = "dumping"
  /\ UNCHANGED <<queueVars, torn, spoilt, faults>>

\* The rows are sorted by name, which raises when numbers meet strings.
Sortable == \A s, t \in DOMAIN results : results[s].number = results[t].number

\* What is written: a name that has become a number is spelt as one.
Text(text) == IF results[text].number THEN <<text[1], "float">> ELSE text

\* Rows whose latest grade only is written.
WrittenLatest(cells) ==
  [lab \in DOMAIN cells |->
     [latest |-> cells[lab].latest, highest |-> cells[lab].latest]]

Written(cells) == cells

\* The rows of the file, once those of some texts are written.
RowsOf(texts) ==
  [t \in {Text(s) : s \in texts} |->
     LET s == CHOOSE s \in texts : Text(s) = t
     IN  [number |-> FALSE, cells |-> Written(results[s].cells)]]

WriteFile ==
  /\ dumper = "dumping"
  /\ Sortable
  /\ file' = RowsOf(DOMAIN results)
  /\ dumper' = "dumped"
  /\ spoilt' = (spoilt \/ \E text \in DOMAIN results : results[text].number)
  /\ UNCHANGED <<queueVars, results, torn, faults>>

\* The file keeps its header only.
RaiseOnSort ==
  /\ dumper = "dumping"
  /\ ~Sortable
  /\ spoilt' = TRUE
  /\ Stopped
  /\ UNCHANGED <<file, torn, faults>>

\* basic_ack, which the server has only if the connection is there.
Ack ==
  /\ dumper = "dumped"
  /\ acked' = IF link = "open" THEN acked + 1 ELSE acked
  /\ taken' = taken + 1
  /\ dumper' = "idle"
  /\ UNCHANGED <<reports, link, arrived, results, file, torn, spoilt, faults>>

\* A read or a write finds the connection lost, and raises.
NoticeLoss ==
  /\ dumper \in {"idle", "dumped"}
  /\ link = "lost"
  /\ Stopped
  /\ UNCHANGED <<file, torn, spoilt, faults>>

-----------------------------------------------------------------------------

Faults == faults < MaxFaults /\ faults' = faults + 1

\* The connection is lost, or the server closes the channel; some of the
\* reports had reached the process.
LoseLink ==
  /\ link = "open"
  /\ Faults
  /\ link' = "lost"
  /\ arrived' \in taken .. Len(reports)
  /\ dumper \in {"dumping", "dumped"} => arrived' > taken
  /\ UNCHANGED <<reports, acked, taken, dumper, results, file, torn, spoilt>>

\* The process is killed between two writes.
Crash ==
  /\ dumper \in {"idle", "dumped"}
  /\ Faults
  /\ Stopped
  /\ UNCHANGED <<file, torn, spoilt>>

\* It is killed while it writes: some of the rows are in the file, and the
\* last of them may lack cells.  (That its last cell, a latest grade, may be
\* cut short and read as another number is left out.)
Tear ==
  /\ dumper = "dumping"
  /\ Faults
  /\ \E texts \in SUBSET {text \in DOMAIN results : Sortable} :
       /\ file' = RowsOf(texts)
       /\ torn' \in {FALSE, texts # {}}
  /\ spoilt' = TRUE
  /\ Stopped

Dumper ==
  Start \/ RaiseOnReport \/ HandleReport \/ WriteFile \/ RaiseOnSort \/ Ack \/ NoticeLoss

DumperNext ==
  \/ \E j \in Jobs, percent \in Percents \cup {NoPercent} : PublishReport(j, percent)
  \/ Dumper
  \/ LoseLink
  \/ Crash
  \/ Tear

DumperSpec == DumperInit /\ [][DumperNext]_dumperVars

\* The process runs, notices a lost connection (by the heartbeats at the latest),
\* and is started again when it ends.
FairDumperSpec == DumperSpec /\ WF_dumperVars(Dumper)

-----------------------------------------------------------------------------
(* Properties.                                                             *)

\* The grade of a report that was acknowledged is in the file, or a better
\* one, under the name of its repository (the column is the "highest %" one).
\* It is found there after any number of restarts, whenever the file is whole.
\* What may lose it are a crash in the middle of the file, and names that look
\* like numbers: those are spelt another way after a restart, and the sort
\* fails, on an emptied file, when they meet other names.
HighestKept ==
  dumper # "dumping" /\ ~spoilt =>
    \A i \in 1 .. acked :
      LET r == reports[i]
          text == <<RepoOf[r.job], "plain">>
      IN  /\ text \in DOMAIN file
          /\ LabOf[r.job] \in DOMAIN file[text].cells
          /\ file[text].cells[LabOf[r.job]].highest >= r.percent

\* What makes it inductive.  The table is what is being written, or else what
\* is in the file, and the rows in memory are then the same.
Table == IF dumper = "dumping" THEN results ELSE file

InMemory ==
  dumper \in {"idle", "dumped"} /\ ~spoilt =>
    /\ DOMAIN results = DOMAIN file
    /\ \A text \in DOMAIN file : results[text].cells = file[text].cells

\* A last row that lacks cells keeps the process from starting.
TornIsDown == torn => dumper = "down"

\* A name that has become a number is not in the file yet.
PlainNames == ~spoilt => \A text \in DOMAIN Table : text[2] = "plain"

\* A report is in the table, with its grade or a better one.
IsIn(r) ==
  LET text == <<RepoOf[r.job], "plain">> IN
    /\ text \in DOMAIN Table
    /\ LabOf[r.job] \in DOMAIN Table[text].cells
    /\ Table[text].cells[LabOf[r.job]].highest >= r.percent

\* The report in hand is in the table too, as the latest of its lab.
InHand == dumper \in {"dumping", "dumped"}

\* The process is done with what is acknowledged, and with more only over a
\* lost connection.
InOrder ==
  /\ acked <= taken /\ taken <= Len(reports) /\ arrived <= Len(reports)
  /\ link # "lost" => taken = acked
  /\ dumper = "down" <=> link = "none"

ReportsEntered ==
  /\ InHand => taken < Arrived /\ ~Raises(Pending)
  /\ ~spoilt => \A i \in 1 .. taken : reports[i].percent \in Percents /\ IsIn(reports[i])
  /\ InHand /\ ~spoilt =>
       /\ IsIn(Pending)
       /\ Table[<<RepoOf[Pending.job], "plain">>].cells[LabOf[Pending.job]].latest
            = Pending.percent

DumperInv ==
  /\ DumperTypeOK
  /\ InOrder
  /\ TornIsDown
  /\ InMemory
  /\ PlainNames
  /\ ReportsEntered

\* The table as its readers see it, the file or what is being written to it,
\* is that of GradeBook, restarts included.
CellsOf(rows) ==
  [c \in UNION {{t[1]} \X DOMAIN rows[t].cells : t \in DOMAIN rows}
     |-> rows[<<c[1], "plain">>].cells[c[2]]]

Book == INSTANCE GradeBook WITH
  log <- [i \in DOMAIN reports |->
            [repo |-> RepoOf[reports[i].job], lab |-> LabOf[reports[i].job],
             percent |-> reports[i].percent]],
  book <- CellsOf(Table),
  done <- acked,
  next <- taken

\* Until the file is spoilt: the table only changes by a report that enters it,
\* each is acknowledged once it is in, and reports enter in their order, but that
\* those not acknowledged may enter again, all of them and in their order.
KeepsBook == Book!BookInit /\ [][~spoilt' => Book!BookNext]_(Book!bookVars)

\* Every report gets into the file and is acknowledged, unless a report before
\* it in the queue raises: that one comes back for ever, as does the error of
\* reading a row that lacks cells.
EveryReportEntered ==
  \A i \in 1 .. MaxReports :
    (i \in DOMAIN reports /\ \A k \in 1 .. i : ~Raises(reports[k]))
      ~> (acked >= i \/ torn)
=============================================================================
