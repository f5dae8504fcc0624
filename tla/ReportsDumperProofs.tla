------------------------ MODULE ReportsDumperProofs ------------------------
(***************************************************************************)
(* Proofs about reports-dumper, for any number of reports, of repositories *)
(* and of crashes: as long as its file is whole, the grades that were      *)
(* acknowledged are in it, and the table is a grade book.                  *)
(***************************************************************************)
EXTENDS ReportsDumper, SequenceLemmas

-----------------------------------------------------------------------------
(* Dictionaries and rows.                                                  *)

\* The row of a report, and the highest grade of its lab so far.
TextOf(r) == <<RepoOf[r.job], "plain">>

Before(rows, r) ==
  IF TextOf(r) \in DOMAIN rows /\ LabOf[r.job] \in DOMAIN rows[TextOf(r)].cells
    THEN rows[TextOf(r)].cells[LabOf[r.job]].highest
    ELSE 0

CellsBefore(rows, r) ==
  IF TextOf(r) \in DOMAIN rows THEN DOMAIN rows[TextOf(r)].cells ELSE {}

\* The texts of a report are those of its repository and of its lab.
LEMMA NamesOfReport ==
  ASSUME NEW r \in ReportOf
  PROVE  TextOf(r) \in Texts /\ LabOf[r.job] \in LabNames
BY DumperAssumption DEF ReportOf, TextOf, Texts, Repositories, LabNames, Range

\* The cells of a row.
LEMMA CellsOfRow ==
  ASSUME NEW row \in Row
  PROVE  /\ DOMAIN row.cells \subseteq LabNames
         /\ \A lab \in DOMAIN row.cells : row.cells[lab] \in Cell
         /\ row.number \in BOOLEAN
BY DEF Row

\* A report changes one cell: it becomes the latest, and the highest if it is.
LEMMA AddIs ==
  ASSUME NEW rows, AreRows(rows), NEW r \in ReportOf, r.percent # NoPercent
  PROVE  LET new == AddResult(rows, r)
             text == TextOf(r)
             lab == LabOf[r.job]
         IN  /\ AreRows(new)
             /\ DOMAIN new = DOMAIN rows \cup {text}
             /\ \A t \in DOMAIN rows : t # text => new[t] = rows[t]
             /\ DOMAIN new[text].cells = CellsBefore(rows, r) \cup {lab}
             /\ new[text].cells[lab] =
                  [latest |-> r.percent,
                   highest |-> IF r.percent > Before(rows, r) THEN r.percent
                               ELSE Before(rows, r)]
             /\ \A l \in CellsBefore(rows, r) :
                  l # lab => new[text].cells[l] = rows[text].cells[l]
<1> DEFINE text == TextOf(r)
           lab == LabOf[r.job]
           row == IF text \in DOMAIN rows THEN rows[text]
                  ELSE [number |-> FALSE, cells |-> << >>]
           before == IF lab \in DOMAIN row.cells THEN row.cells[lab].highest ELSE 0
           cell == [latest |-> r.percent,
                    highest |-> IF r.percent > before THEN r.percent ELSE before]
           changed == [number |-> row.number, cells |-> With(row.cells, lab, cell)]
<1>1. AddResult(rows, r) = With(rows, text, changed)
  BY DEF AddResult, TextOf
<1>2. text \in Texts /\ lab \in LabNames
  BY NamesOfReport
<1>3. row \in Row
  <2>1. CASE text \in DOMAIN rows
    BY <2>1 DEF AreRows
  <2>2. CASE text \notin DOMAIN rows
    <3>1. DOMAIN << >> = {} /\ << >> = [x \in {} |-> x]
      OBVIOUS
    <3>2. << >> \in [{} -> Cell]
      BY <3>1
    <3>3. << >> \in UNION {[labs -> Cell] : labs \in SUBSET LabNames}
      BY <3>2
    <3>4. QED
      BY <2>2, <3>3 DEF Row
  <2>3. QED
    BY <2>1, <2>2
<1>4. /\ DOMAIN row.cells \subseteq LabNames
      /\ \A l \in DOMAIN row.cells : row.cells[l] \in Cell
  BY <1>3, CellsOfRow
<1>5. r.percent \in Percents
  BY DEF ReportOf
<1>6. cell \in Cell
  <2>1. CASE lab \in DOMAIN row.cells
    <3>1. before \in Percents
      BY <2>1, <1>4 DEF Cell
    <3>2. QED
      BY <3>1, <1>5 DEF Cell
  <2>2. CASE lab \notin DOMAIN row.cells
    <3>1. before = 0 /\ r.percent \in Nat
      BY <2>2, <1>5, DumperAssumption
    <3>2. (r.percent > 0) \/ r.percent = 0
      BY <3>1
    <3>3. cell = [latest |-> r.percent, highest |-> r.percent]
      BY <3>1, <3>2
    <3>4. QED
      BY <3>3, <1>5 DEF Cell
  <2>3. QED
    BY <2>1, <2>2
<1>7. /\ DOMAIN With(row.cells, lab, cell) = DOMAIN row.cells \cup {lab}
      /\ With(row.cells, lab, cell)[lab] = cell
      /\ \A l \in DOMAIN row.cells :
           l # lab => With(row.cells, lab, cell)[l] = row.cells[l]
      /\ With(row.cells, lab, cell)
           = [l \in DOMAIN With(row.cells, lab, cell) |-> With(row.cells, lab, cell)[l]]
  <2> HIDE DEF row, lab, cell
  <2>1. QED
    BY DEF With
<1>8. With(row.cells, lab, cell) \in [(DOMAIN row.cells \cup {lab}) -> Cell]
  <2> HIDE DEF row, cell
  <2>1. QED
    BY <1>4, <1>6, <1>7
<1>9. With(row.cells, lab, cell) \in UNION {[labs -> Cell] : labs \in SUBSET LabNames}
  <2> HIDE DEF row, cell
  <2>1. QED
    BY <1>2, <1>4, <1>8
<1>10. changed \in Row /\ changed.cells = With(row.cells, lab, cell)
  <2> DEFINE cells == With(row.cells, lab, cell)
             number == row.number
  <2>1. number \in BOOLEAN /\ cells \in UNION {[labs -> Cell] : labs \in SUBSET LabNames}
    BY <1>3, <1>9, CellsOfRow
  <2>2. changed = [number |-> number, cells |-> cells]
    OBVIOUS
  <2> HIDE DEF cells, number
  <2>3. [number |-> number, cells |-> cells] \in Row
        /\ [number |-> number, cells |-> cells].cells = cells
    BY ONLY <2>1 DEF Row
  <2> HIDE DEF changed
  <2>4. QED
    BY <2>2, <2>3 DEF cells
<1>11. /\ DOMAIN With(rows, text, changed) = DOMAIN rows \cup {text}
       /\ With(rows, text, changed)[text] = changed
       /\ \A t \in DOMAIN rows : t # text => With(rows, text, changed)[t] = rows[t]
  <2> HIDE DEF text, changed
  <2>1. QED
    BY DEF With
<1>12. AreRows(With(rows, text, changed))
  <2> HIDE DEF text, changed
  <2>1. QED
    BY <1>2, <1>10, <1>11 DEF AreRows
<1>13. DOMAIN row.cells = CellsBefore(rows, r) /\ before = Before(rows, r)
  <2>1. DOMAIN << >> = {}
    OBVIOUS
  <2>2. CASE text \in DOMAIN rows
    BY <2>2 DEF CellsBefore, Before
  <2>3. CASE text \notin DOMAIN rows
    BY <2>1, <2>3 DEF CellsBefore, Before
  <2>4. QED
    BY <2>2, <2>3
<1>14. \A l \in CellsBefore(rows, r) : row.cells[l] = rows[text].cells[l]
  BY DEF CellsBefore
<1>15. cell = [latest |-> r.percent,
               highest |-> IF r.percent > Before(rows, r) THEN r.percent
                           ELSE Before(rows, r)]
  BY <1>13
<1> HIDE DEF text, lab, row, before, cell, changed
<1>16. AddResult(rows, r)[text].cells = With(row.cells, lab, cell)
  BY <1>1, <1>10, <1>11
<1>17. /\ DOMAIN AddResult(rows, r)[text].cells = CellsBefore(rows, r) \cup {lab}
       /\ AddResult(rows, r)[text].cells[lab] = cell
       /\ \A l \in CellsBefore(rows, r) :
            l # lab => AddResult(rows, r)[text].cells[l] = rows[text].cells[l]
  BY <1>7, <1>13, <1>14, <1>16
<1>18. AreRows(AddResult(rows, r)) /\ DOMAIN AddResult(rows, r) = DOMAIN rows \cup {text}
       /\ \A t \in DOMAIN rows : t # text => AddResult(rows, r)[t] = rows[t]
  BY <1>1, <1>11, <1>12
<1>19. QED
  BY <1>15, <1>17, <1>18 DEF text, lab

-----------------------------------------------------------------------------
(* The grade of a report in the rows of a table.                           *)

HasGrade(rows, r) ==
  /\ TextOf(r) \in DOMAIN rows
  /\ LabOf[r.job] \in DOMAIN rows[TextOf(r)].cells
  /\ rows[TextOf(r)].cells[LabOf[r.job]].highest >= r.percent

LatestIs(rows, r) == rows[TextOf(r)].cells[LabOf[r.job]].latest = r.percent

\* Rows with the same cells.
SameCells(rows, others) ==
  /\ DOMAIN rows = DOMAIN others
  /\ \A t \in DOMAIN others : rows[t].cells = others[t].cells

\* Rows with the same cells have the same grades.
LEMMA SameCellsSameGrades ==
  ASSUME NEW rows, NEW others, SameCells(rows, others), NEW r
  PROVE  /\ HasGrade(rows, r) <=> HasGrade(others, r)
         /\ HasGrade(others, r) => (LatestIs(rows, r) <=> LatestIs(others, r))
BY DEF SameCells, HasGrade, LatestIs

\* A report has its grade in the table it is added to, and the grades of the
\* others stay there.
LEMMA AddHas ==
  ASSUME NEW rows, AreRows(rows), NEW r \in ReportOf, r.percent # NoPercent
  PROVE  /\ HasGrade(AddResult(rows, r), r) /\ LatestIs(AddResult(rows, r), r)
         /\ \A q \in ReportOf :
              q.percent \in Percents /\ HasGrade(rows, q) => HasGrade(AddResult(rows, r), q)
<1> DEFINE new == AddResult(rows, r)
           text == TextOf(r)
           lab == LabOf[r.job]
           cell == [latest |-> r.percent,
                    highest |-> IF r.percent > Before(rows, r) THEN r.percent
                                ELSE Before(rows, r)]
<1>1. /\ DOMAIN new = DOMAIN rows \cup {text}
      /\ \A t \in DOMAIN rows : t # text => new[t] = rows[t]
      /\ DOMAIN new[text].cells = CellsBefore(rows, r) \cup {lab}
      /\ new[text].cells[lab] = cell
      /\ \A l \in CellsBefore(rows, r) : l # lab => new[text].cells[l] = rows[text].cells[l]
  BY AddIs
<1>2. r.percent \in Nat /\ Percents \subseteq Nat
  BY DumperAssumption DEF ReportOf
<1>3. Before(rows, r) \in Nat
  <2>1. CASE text \in DOMAIN rows /\ lab \in DOMAIN rows[text].cells
    <3>1. rows[text] \in Row
      BY <2>1 DEF AreRows
    <3>2. rows[text].cells[lab] \in Cell
      BY <2>1, <3>1, CellsOfRow
    <3>3. QED
      BY <2>1, <3>2, <1>2 DEF Before, Cell
  <2>2. CASE ~(text \in DOMAIN rows /\ lab \in DOMAIN rows[text].cells)
    BY <2>2 DEF Before
  <2>3. QED
    BY <2>1, <2>2
<1>4. cell.latest = r.percent /\ cell.highest >= r.percent /\ cell.highest >= Before(rows, r)
      /\ cell.highest \in Nat
  BY <1>2, <1>3
<1> HIDE DEF cell
<1>5. HasGrade(new, r) /\ LatestIs(new, r)
  BY <1>1, <1>4 DEF HasGrade, LatestIs
<1>6. ASSUME NEW q \in ReportOf, q.percent \in Percents, HasGrade(rows, q)
      PROVE  HasGrade(new, q)
  <2>1. CASE TextOf(q) # text
    BY <1>1, <1>6, <2>1 DEF HasGrade
  <2>2. CASE TextOf(q) = text /\ LabOf[q.job] # lab
    <3>1. LabOf[q.job] \in CellsBefore(rows, r)
      BY <1>6, <2>2 DEF HasGrade, CellsBefore
    <3>2. QED
      BY <1>1, <1>6, <2>2, <3>1 DEF HasGrade
  <2>3. CASE TextOf(q) = text /\ LabOf[q.job] = lab
    <3>1. Before(rows, r) >= q.percent
      BY <1>6, <2>3 DEF HasGrade, Before
    <3>2. q.percent \in Nat
      BY <1>2, <1>6
    <3>3. cell.highest >= q.percent
      BY <1>3, <1>4, <3>1, <3>2
    <3>4. QED
      BY <1>1, <2>3, <3>3 DEF HasGrade
  <2>4. QED
    BY <2>1, <2>2, <2>3
<1>7. QED
  BY <1>5, <1>6

-----------------------------------------------------------------------------
(* Rows are read and written.                                              *)

\* A row is one whether its name is taken for a number or not.
LEMMA NumberOrNot ==
  ASSUME NEW row \in Row, NEW number \in BOOLEAN
  PROVE  [number |-> number, cells |-> row.cells] \in Row
<1> DEFINE cells == row.cells
<1>1. cells \in UNION {[labs -> Cell] : labs \in SUBSET LabNames}
  BY DEF Row
<1> HIDE DEF cells
<1>2. [number |-> number, cells |-> cells] \in Row
  BY ONLY <1>1, number \in BOOLEAN DEF Row
<1>3. QED
  BY <1>2 DEF cells

\* The empty table is one.
LEMMA NoRows == AreRows(<< >>)
<1>1. DOMAIN << >> = {}
  OBVIOUS
<1>2. QED
  BY <1>1 DEF AreRows

\* Reading a table gives one with the same cells: names may be numbers now.
LEMMA LoadedIs ==
  ASSUME NEW rows, AreRows(rows)
  PROVE  AreRows(Loaded(rows)) /\ SameCells(Loaded(rows), rows)
<1>1. /\ DOMAIN Loaded(rows) = DOMAIN rows
      /\ \A t \in DOMAIN rows :
           Loaded(rows)[t] = [number |-> t[1] \in Numeric, cells |-> rows[t].cells]
  BY DEF Loaded
<1>2. ASSUME NEW t \in DOMAIN rows
      PROVE  Loaded(rows)[t] \in Row /\ Loaded(rows)[t].cells = rows[t].cells
  <2>1. (t[1] \in Numeric) \in BOOLEAN
    OBVIOUS
  <2>2. rows[t] \in Row
    BY DEF AreRows
  <2>3. [number |-> t[1] \in Numeric, cells |-> rows[t].cells] \in Row
    BY <2>1, <2>2, NumberOrNot
  <2>4. QED
    BY <1>1, <2>3
<1>3. QED
  BY <1>1, <1>2 DEF AreRows, SameCells

\* The rows of a file are those of some of the rows in memory.
LEMMA RowsOfIs ==
  ASSUME AreRows(results), NEW texts \in SUBSET DOMAIN results
  PROVE  /\ AreRows(RowsOf(texts))
         /\ DOMAIN RowsOf(texts) = {Text(s) : s \in texts}
         /\ (\A t \in texts : ~results[t].number) =>
              /\ DOMAIN RowsOf(texts) = texts
              /\ \A t \in texts : RowsOf(texts)[t].cells = results[t].cells
<1> DEFINE source(t) == CHOOSE s \in texts : Text(s) = t
<1>1. /\ DOMAIN RowsOf(texts) = {Text(s) : s \in texts}
      /\ \A t \in DOMAIN RowsOf(texts) :
           RowsOf(texts)[t] = [number |-> FALSE, cells |-> results[source(t)].cells]
  BY DEF RowsOf, Written
<1>2. ASSUME NEW t \in DOMAIN RowsOf(texts)
      PROVE  source(t) \in texts /\ Text(source(t)) = t
  <2>1. \E s \in texts : Text(s) = t
    BY <1>1
  <2>2. QED
    BY <2>1
<1> HIDE DEF source
<1>3. ASSUME NEW t \in DOMAIN RowsOf(texts)
      PROVE  t \in Texts /\ RowsOf(texts)[t] \in Row
  <2>1. source(t) \in Texts /\ results[source(t)] \in Row
    BY <1>2 DEF AreRows
  <2>2. Text(source(t)) \in Texts
    BY <2>1 DEF Text, Texts
  <2>3. [number |-> FALSE, cells |-> results[source(t)].cells] \in Row
    BY <2>1, NumberOrNot
  <2>4. QED
    BY <1>1, <1>2, <2>2, <2>3
<1>4. ASSUME \A t \in texts : ~results[t].number
      PROVE  /\ DOMAIN RowsOf(texts) = texts
             /\ \A t \in texts : RowsOf(texts)[t].cells = results[t].cells
  <2>1. \A s \in texts : Text(s) = s
    BY <1>4 DEF Text
  <2>2. DOMAIN RowsOf(texts) = texts
    BY <1>1, <2>1
  <2>3. \A t \in texts : source(t) = t
    BY <1>2, <2>1, <2>2
  <2>4. ASSUME NEW t \in texts
        PROVE  RowsOf(texts)[t].cells = results[t].cells
    <3>1. RowsOf(texts)[t] = [number |-> FALSE, cells |-> results[source(t)].cells]
      BY <1>1, <2>2
    <3>2. RowsOf(texts)[t].cells = results[source(t)].cells
      BY <3>1
    <3>3. QED
      BY <2>3, <3>2
  <2>5. QED
    BY <2>2, <2>4
<1>5. QED
  BY <1>1, <1>3, <1>4 DEF AreRows

\* The file has the cells in memory, unless a name has become a number.
LEMMA WrittenIs ==
  ASSUME AreRows(results), WriteFile
  PROVE  /\ AreRows(file')
         /\ (\A t \in DOMAIN results : ~results[t].number) => SameCells(results, file')
<1>1. file' = RowsOf(DOMAIN results)
  BY DEF WriteFile
<1>2. QED
  BY <1>1, RowsOfIs DEF SameCells

\* What is torn has fewer rows.
LEMMA TornIs ==
  ASSUME AreRows(results), Tear
  PROVE  AreRows(file') /\ torn' \in BOOLEAN /\ (torn' => file' # << >>)
<1>1. PICK texts \in SUBSET {text \in DOMAIN results : Sortable} :
        file' = RowsOf(texts) /\ torn' \in {FALSE, texts # {}}
  BY DEF Tear
<1>2. texts \subseteq DOMAIN results
  OBVIOUS
<1>3. AreRows(file') /\ DOMAIN file' = {Text(s) : s \in texts}
  BY <1>1, <1>2, RowsOfIs
<1>4. torn' \in BOOLEAN /\ (torn' => texts # {})
  BY <1>1
<1>5. DOMAIN << >> = {} /\ (texts # {} => DOMAIN file' # {})
  BY <1>3
<1>6. QED
  BY <1>3, <1>4, <1>5

-----------------------------------------------------------------------------
(* The inductive invariant.                                                *)

\* A report that has reached the process, and is next, is in the queue.
LEMMA PendingIs ==
  ASSUME DumperTypeOK, InOrder, taken < Arrived
  PROVE  /\ taken < Len(reports)
         /\ taken + 1 \in DOMAIN reports
         /\ Pending \in ReportOf
         /\ ~Raises(Pending) => Pending.percent \in Percents /\ Pending.percent # NoPercent
<1>1. /\ taken \in Nat /\ Len(reports) \in Nat /\ arrived \in Nat
      /\ DOMAIN reports = 1 .. Len(reports)
      /\ \A i \in DOMAIN reports : reports[i] \in ReportOf
      /\ arrived <= Len(reports)
  BY DEF DumperTypeOK, InOrder
<1>2. Arrived \in Nat /\ Arrived <= Len(reports)
  BY <1>1 DEF Arrived
<1>3. taken < Len(reports) /\ taken + 1 \in DOMAIN reports
  BY <1>1, <1>2
<1>4. Pending \in ReportOf
  BY <1>1, <1>3 DEF Pending
<1>5. QED
  BY <1>3, <1>4 DEF Raises, ReportOf

\* The steps of reports-dumper, and of what happens to it.
LEMMA DumperSteps ==
  ASSUME [DumperNext]_dumperVars
  PROVE  \/ \E j \in Jobs, percent \in Percents \cup {NoPercent} : PublishReport(j, percent)
         \/ Start \/ RaiseOnReport \/ HandleReport \/ WriteFile \/ RaiseOnSort \/ Ack
         \/ NoticeLoss \/ LoseLink \/ Crash \/ Tear
         \/ UNCHANGED dumperVars
BY DEF DumperNext, Dumper

\* Every step keeps the types of the queue and of the connection, and the order in
\* which reports are taken.
LEMMA QueueStep ==
  ASSUME DumperTypeOK, InOrder, ReportsEntered, [DumperNext]_dumperVars
  PROVE  /\ reports' \in Seq(ReportOf)
         /\ acked' \in Nat /\ taken' \in Nat /\ arrived' \in Nat
         /\ link' \in {"none", "open", "lost"}
         /\ InOrder'
<1> DEFINE n == Len(reports)
           Kept == /\ reports' \in Seq(ReportOf)
                   /\ acked' \in Nat /\ taken' \in Nat /\ arrived' \in Nat
                   /\ link' \in {"none", "open", "lost"}
                   /\ InOrder'
<1>0. SUFFICES Kept
  OBVIOUS
<1>1. /\ reports \in Seq(ReportOf) /\ n \in Nat
      /\ acked \in Nat /\ taken \in Nat /\ arrived \in Nat
      /\ link \in {"none", "open", "lost"}
      /\ acked <= taken /\ taken <= n /\ arrived <= n
      /\ link # "lost" => taken = acked
      /\ dumper = "down" <=> link = "none"
      /\ dumper \in {"down", "idle", "dumping", "dumped"}
  BY DEF DumperTypeOK, InOrder
<1>2. ASSUME NEW j \in Jobs, NEW percent \in Percents \cup {NoPercent},
             PublishReport(j, percent)
      PROVE  Kept
  <2>1. [job |-> j, percent |-> percent] \in ReportOf
    BY DEF ReportOf
  <2>2. reports' \in Seq(ReportOf) /\ Len(reports') = n + 1
    BY <1>1, <1>2, <2>1, AppendIs DEF PublishReport
  <2>3. UNCHANGED <<acked, taken, link, arrived, dumper>>
    BY <1>2 DEF PublishReport
  <2> HIDE DEF n
  <2>4. taken' <= Len(reports') /\ arrived' <= Len(reports')
    BY <1>1, <2>2, <2>3
  <2>5. QED
    BY <1>1, <2>2, <2>3, <2>4 DEF InOrder
<1>3. ASSUME UNCHANGED queueVars, dumper' = "down" <=> dumper = "down"
      PROVE  Kept
  BY <1>1, <1>3 DEF queueVars, InOrder
<1>4. ASSUME Stopped
      PROVE  Kept
  <2>1. /\ dumper' = "down" /\ link' = "none" /\ arrived' = 0 /\ taken' = acked
        /\ reports' = reports /\ acked' = acked
    BY <1>4 DEF Stopped
  <2>2. acked <= n
    BY <1>1
  <2>3. QED
    BY <1>1, <2>1, <2>2 DEF InOrder
<1>5. CASE Start
  BY <1>1, <1>5 DEF Start, InOrder
<1>6. CASE HandleReport \/ WriteFile
  BY <1>3, <1>6 DEF HandleReport, WriteFile
<1>7. CASE Ack
  <2>1. taken < n
    BY <1>7, PendingIs DEF Ack, ReportsEntered, InHand
  <2>2. /\ acked' = (IF link = "open" THEN acked + 1 ELSE acked)
        /\ taken' = taken + 1 /\ dumper = "dumped" /\ dumper' = "idle"
        /\ UNCHANGED <<reports, link, arrived>>
    BY <1>7 DEF Ack
  <2>3. acked' \in Nat /\ acked' <= taken' /\ taken' \in Nat /\ taken' <= n
    BY <1>1, <2>1, <2>2
  <2>4. link' # "lost" => taken' = acked'
    BY <1>1, <2>2
  <2>5. QED
    BY <1>1, <2>2, <2>3, <2>4 DEF InOrder
<1>8. CASE LoseLink
  <2>1. /\ link = "open" /\ link' = "lost" /\ arrived' \in taken .. n
        /\ UNCHANGED <<reports, acked, taken, dumper>>
    BY <1>8 DEF LoseLink
  <2>2. arrived' \in Nat /\ arrived' <= n
    BY <1>1, <2>1
  <2>3. QED
    BY <1>1, <2>1, <2>2 DEF InOrder
<1>9. CASE RaiseOnReport \/ RaiseOnSort \/ NoticeLoss \/ Crash \/ Tear
  BY <1>4, <1>9 DEF RaiseOnReport, RaiseOnSort, NoticeLoss, Crash, Tear
<1>10. CASE UNCHANGED dumperVars
  BY <1>3, <1>10 DEF dumperVars
<1>11. QED
  BY <1>2, <1>5, <1>6, <1>7, <1>8, <1>9, <1>10, DumperSteps

\* Every step keeps the types, and a torn file for when the program is down.
LEMMA DumperTypes ==
  ASSUME DumperTypeOK, InOrder, TornIsDown, ReportsEntered, [DumperNext]_dumperVars
  PROVE  DumperTypeOK' /\ TornIsDown'
<1> DEFINE Others == /\ dumper' \in {"down", "idle", "dumping", "dumped"}
                     /\ AreRows(results')
                     /\ AreRows(file')
                     /\ torn' \in BOOLEAN
                     /\ torn' => file' # << >>
                     /\ spoilt' \in BOOLEAN
                     /\ faults' \in 0 .. MaxFaults
<1>0. SUFFICES Others /\ TornIsDown'
  BY QueueStep DEF DumperTypeOK
<1>1. /\ dumper \in {"down", "idle", "dumping", "dumped"}
      /\ AreRows(results) /\ AreRows(file) /\ torn \in BOOLEAN /\ spoilt \in BOOLEAN
      /\ torn => file # << >> /\ dumper = "down"
      /\ faults \in 0 .. MaxFaults
  BY DEF DumperTypeOK, TornIsDown
<1>2. ASSUME NEW j \in Jobs, NEW percent \in Percents \cup {NoPercent},
             PublishReport(j, percent)
      PROVE  Others /\ TornIsDown'
  BY <1>1, <1>2 DEF PublishReport, TornIsDown
<1>3. CASE Start
  BY <1>1, <1>3, LoadedIs DEF Start, TornIsDown
<1>4. CASE RaiseOnReport \/ NoticeLoss
  BY <1>1, <1>4, NoRows DEF RaiseOnReport, NoticeLoss, Stopped, TornIsDown
<1>5. CASE HandleReport
  <2>1. AreRows(results')
    BY <1>1, <1>5, PendingIs, AddIs DEF HandleReport
  <2>2. AreRows(file') /\ ~torn'
    BY <1>1, <1>5, NoRows DEF HandleReport
  <2>3. QED
    BY <1>1, <1>5, <2>1, <2>2 DEF HandleReport, TornIsDown
<1>6. CASE WriteFile
  <2>1. AreRows(file')
    BY <1>1, <1>6, WrittenIs
  <2>2. spoilt' \in BOOLEAN
    BY <1>6 DEF WriteFile
  <2>3. ~torn'
    BY <1>1, <1>6 DEF WriteFile
  <2>4. QED
    BY <1>1, <1>6, <2>1, <2>2, <2>3 DEF WriteFile, TornIsDown
<1>7. CASE RaiseOnSort
  BY <1>1, <1>7, NoRows DEF RaiseOnSort, Stopped, TornIsDown
<1>8. CASE Ack
  BY <1>1, <1>8 DEF Ack, TornIsDown
<1>9. ASSUME Faults
      PROVE  faults' \in 0 .. MaxFaults
  BY <1>1, <1>9, DumperAssumption DEF Faults
<1>10. CASE LoseLink
  BY <1>1, <1>9, <1>10 DEF LoseLink, TornIsDown
<1>11. CASE Crash
  BY <1>1, <1>9, <1>11, NoRows DEF Crash, Stopped, TornIsDown
<1>12. CASE Tear
  <2>1. AreRows(file') /\ torn' \in BOOLEAN /\ (torn' => file' # << >>)
    BY <1>1, <1>12, TornIs
  <2>2. Faults /\ dumper' = "down" /\ results' = << >> /\ spoilt' = TRUE
    BY <1>12 DEF Tear, Stopped
  <2>3. QED
    BY <1>9, <2>1, <2>2, NoRows DEF TornIsDown
<1>13. CASE UNCHANGED dumperVars
  BY <1>1, <1>13 DEF dumperVars, TornIsDown
<1>14. QED
  BY <1>2, <1>3, <1>4, <1>5, <1>6, <1>7, <1>8, <1>10, <1>11, <1>12, <1>13, DumperSteps

\* The invariant in terms of the rows of the table.
LEMMA TableTerms ==
  /\ InMemory <=>
       (dumper \in {"idle", "dumped"} /\ ~spoilt => SameCells(results, file))
  /\ InMemory' <=>
       (dumper' \in {"idle", "dumped"} /\ ~spoilt' => SameCells(results', file'))
  /\ ReportsEntered <=>
       /\ InHand => taken < Arrived /\ ~Raises(Pending)
       /\ ~spoilt => \A i \in 1 .. taken :
            reports[i].percent \in Percents /\ HasGrade(Table, reports[i])
       /\ InHand /\ ~spoilt => HasGrade(Table, Pending) /\ LatestIs(Table, Pending)
  /\ ReportsEntered' <=>
       /\ InHand' => taken' < Arrived' /\ ~Raises(Pending')
       /\ ~spoilt' => \A i \in 1 .. taken' :
            reports'[i].percent \in Percents /\ HasGrade(Table', reports'[i])
       /\ InHand' /\ ~spoilt' => HasGrade(Table', Pending') /\ LatestIs(Table', Pending')
<1>1. /\ InMemory <=>
           (dumper \in {"idle", "dumped"} /\ ~spoilt => SameCells(results, file))
      /\ InMemory' <=>
           (dumper' \in {"idle", "dumped"} /\ ~spoilt' => SameCells(results', file'))
  BY DEF InMemory, SameCells
<1>2. ASSUME NEW i
      PROVE  /\ IsIn(reports[i]) <=> HasGrade(Table, reports[i])
             /\ IsIn(reports[i])' <=> HasGrade(Table', reports'[i])
  BY DEF IsIn, HasGrade, TextOf
<1>3. /\ IsIn(Pending) <=> HasGrade(Table, Pending)
      /\ IsIn(Pending)' <=> HasGrade(Table', Pending')
  BY DEF IsIn, HasGrade, TextOf
<1>4. /\ Table[<<RepoOf[Pending.job], "plain">>].cells[LabOf[Pending.job]].latest
           = Pending.percent <=> LatestIs(Table, Pending)
      /\ Table'[<<RepoOf[Pending'.job], "plain">>].cells[LabOf[Pending'.job]].latest
           = Pending'.percent <=> LatestIs(Table', Pending')
  BY DEF LatestIs, TextOf
<1>5. Raises(Pending)' <=> Raises(Pending')
  BY DEF Raises
<1>6. QED
  BY <1>1, <1>2, <1>3, <1>4, <1>5 DEF ReportsEntered

\* The table is what it was, or has the same cells; no more reports are taken.
LEMMA TableStays ==
  ASSUME ReportsEntered, taken \in Nat, taken' \in Nat, taken' <= taken,
         reports' = reports,
         InHand' => InHand /\ taken' = taken /\ taken' < Arrived',
         ~spoilt' => ~spoilt /\ SameCells(Table', Table)
  PROVE  ReportsEntered'
<1>1. InHand' => Pending' = Pending
  BY DEF Pending
<1>2. InHand' => taken' < Arrived' /\ ~Raises(Pending')
  BY <1>1, TableTerms
<1>3. ASSUME ~spoilt', NEW i \in 1 .. taken'
      PROVE  reports'[i].percent \in Percents /\ HasGrade(Table', reports'[i])
  <2>0. i \in 1 .. taken
    OBVIOUS
  <2>1. reports[i].percent \in Percents /\ HasGrade(Table, reports[i])
    BY <1>3, <2>0, TableTerms
  <2>2. HasGrade(Table', reports[i])
    BY <1>3, <2>1, SameCellsSameGrades
  <2>3. QED
    BY <2>1, <2>2
<1>4. ASSUME InHand', ~spoilt'
      PROVE  HasGrade(Table', Pending') /\ LatestIs(Table', Pending')
  <2>1. HasGrade(Table, Pending) /\ LatestIs(Table, Pending)
    BY <1>4, TableTerms
  <2>2. QED
    BY <1>1, <1>4, <2>1, SameCellsSameGrades
<1>5. QED
  BY <1>2, <1>3, <1>4, TableTerms

\* Every step keeps the table in memory tied to that of the file.
LEMMA TableInvStep ==
  ASSUME DumperInv, [DumperNext]_dumperVars
  PROVE  InMemory' /\ PlainNames' /\ ReportsEntered'
<1> USE DEF DumperInv
<1>1. /\ DumperTypeOK /\ InOrder /\ TornIsDown /\ DumperTypeOK' /\ InOrder'
      /\ SameCells(Table, Table)
      /\ taken \in Nat /\ acked \in Nat /\ acked <= taken
  BY DumperTypes, QueueStep DEF SameCells, DumperTypeOK, InOrder
<1>2. InHand => taken < Arrived /\ ~Raises(Pending)
  BY TableTerms
<1>3. ASSUME NEW j \in Jobs, NEW percent \in Percents \cup {NoPercent},
             PublishReport(j, percent)
      PROVE  InMemory' /\ PlainNames' /\ ReportsEntered'
  <2>1. UNCHANGED <<taken, link, arrived, dumper, results, file, spoilt>>
    BY <1>3 DEF PublishReport
  <2>2. Table' = Table /\ InHand' = InHand
    BY <2>1 DEF Table, InHand
  <2>3. [job |-> j, percent |-> percent] \in ReportOf
    BY DEF ReportOf
  <2>4. /\ Len(reports) \in Nat /\ Len(reports') = Len(reports) + 1
        /\ \A i \in 1 .. Len(reports) : reports'[i] = reports[i]
        /\ taken <= Len(reports) /\ arrived \in Nat
    BY <1>1, <1>3, <2>3, AppendIs DEF PublishReport, DumperTypeOK, InOrder
  <2>5. \A i \in 1 .. taken : reports'[i] = reports[i]
    BY <1>1, <2>4
  <2>6. InHand => taken' < Arrived' /\ Pending' = Pending
    <3>1. CASE InHand
      <4>1. taken + 1 \in 1 .. Len(reports)
        BY <1>1, <1>2, <2>4, <3>1, PendingIs
      <4>2. Pending' = Pending
        BY <2>1, <2>4, <4>1 DEF Pending
      <4>3. taken < Len(reports)
        BY <1>1, <2>4, <4>1
      <4>4. taken' < Arrived'
        BY <1>1, <1>2, <2>1, <2>4, <3>1, <4>3 DEF Arrived
      <4>5. QED
        BY <4>2, <4>4
    <3>2. QED
      BY <3>1
  <2>7. ReportsEntered'
    BY <2>1, <2>2, <2>5, <2>6, TableTerms
  <2>8. QED
    BY <2>1, <2>2, <2>7 DEF InMemory, PlainNames
<1>4. CASE Start
  <2>1. SameCells(results', file')
    BY <1>1, <1>4, LoadedIs DEF Start, DumperTypeOK
  <2>2. Table' = Table /\ ~InHand' /\ UNCHANGED <<reports, taken, spoilt>>
    BY <1>4 DEF Start, Table, InHand
  <2>3. QED
    BY <1>1, <2>1, <2>2, TableTerms, TableStays DEF PlainNames
<1>5. CASE RaiseOnReport \/ NoticeLoss \/ Crash
  <2>1. /\ dumper \in {"idle", "dumped"} /\ dumper' = "down" /\ taken' = acked
        /\ UNCHANGED <<reports, file, spoilt>>
    BY <1>5 DEF RaiseOnReport, NoticeLoss, Crash, Stopped
  <2>2. Table' = Table /\ ~InHand'
    BY <2>1 DEF Table, InHand
  <2>3. QED
    BY <1>1, <2>1, <2>2, TableTerms, TableStays DEF PlainNames
<1>6. CASE HandleReport
  <2>1. /\ dumper = "idle" /\ dumper' = "dumping" /\ taken < Arrived
        /\ ~Raises(Pending) /\ results' = AddResult(results, Pending)
        /\ UNCHANGED <<reports, taken, link, arrived, spoilt>>
    BY <1>6 DEF HandleReport, queueVars
  <2>2. /\ Pending \in ReportOf /\ Pending.percent # NoPercent /\ Pending' = Pending
        /\ Arrived' = Arrived
    BY <1>1, <2>1, PendingIs DEF Pending, Arrived
  <2>3. Table = file /\ Table' = AddResult(results, Pending)
    BY <2>1 DEF Table
  <2>4. AreRows(results)
    BY <1>1 DEF DumperTypeOK
  <2>5. ASSUME ~spoilt, NEW i \in 1 .. taken
        PROVE  reports[i].percent \in Percents /\ HasGrade(Table', reports[i])
    <3>1. reports[i].percent \in Percents /\ HasGrade(file, reports[i])
      BY <2>3, <2>5, TableTerms
    <3>2. HasGrade(results, reports[i])
      BY <2>1, <2>5, <3>1, TableTerms, SameCellsSameGrades
    <3>3. reports[i] \in ReportOf
      BY <1>1 DEF DumperTypeOK, InOrder
    <3>4. QED
      BY <2>2, <2>3, <2>4, <3>1, <3>2, <3>3, AddHas
  <2>6. HasGrade(Table', Pending) /\ LatestIs(Table', Pending)
    BY <2>2, <2>3, <2>4, AddHas
  <2>7. ReportsEntered'
    BY <2>1, <2>2, <2>5, <2>6, TableTerms
  <2>8. PlainNames'
    <3>1. ASSUME ~spoilt, NEW t \in DOMAIN Table'
          PROVE  t[2] = "plain"
      <4>1. t \in DOMAIN results \cup {TextOf(Pending)}
        BY <2>2, <2>3, <2>4, AddIs
      <4>2. DOMAIN results = DOMAIN Table
        BY <2>1, <2>3, <3>1 DEF InMemory
      <4>3. QED
        BY <3>1, <4>1, <4>2 DEF PlainNames, TextOf
    <3>2. QED
      BY <2>1, <3>1 DEF PlainNames
  <2>9. InMemory'
    BY <2>1, TableTerms
  <2>10. QED
    BY <2>7, <2>8, <2>9
<1>7. CASE WriteFile
  <2>1. /\ dumper = "dumping" /\ dumper' = "dumped"
        /\ UNCHANGED <<reports, taken, link, arrived, results>>
        /\ ~spoilt' => ~spoilt /\ \A t \in DOMAIN results : ~results[t].number
    BY <1>7 DEF WriteFile, queueVars
  <2>2. ~spoilt' => SameCells(results, file')
    BY <1>1, <1>7, <2>1, WrittenIs DEF DumperTypeOK
  <2>3. Table = results /\ Table' = file' /\ InHand /\ Arrived' = Arrived
    BY <2>1 DEF Table, InHand, Arrived
  <2>4. ~spoilt' => SameCells(Table', Table)
    BY <2>2, <2>3 DEF SameCells
  <2>5. ReportsEntered'
    BY <1>1, <1>2, <2>1, <2>3, <2>4, TableStays
  <2>6. InMemory'
    BY <2>1, <2>2, TableTerms
  <2>7. PlainNames'
    BY <2>1, <2>4 DEF PlainNames, SameCells
  <2>8. QED
    BY <2>5, <2>6, <2>7
<1>8. CASE RaiseOnSort \/ Tear
  <2>1. spoilt' = TRUE /\ dumper' = "down"
    BY <1>8 DEF RaiseOnSort, Tear, Stopped
  <2>2. QED
    BY <2>1, TableTerms DEF PlainNames, InHand
<1>9. CASE Ack
  <2>1. /\ dumper = "dumped" /\ dumper' = "idle" /\ taken' = taken + 1
        /\ UNCHANGED <<reports, results, file, spoilt>>
    BY <1>9 DEF Ack
  <2>2. Table' = Table /\ InHand /\ ~InHand'
    BY <2>1 DEF Table, InHand
  <2>3. taken < Arrived /\ ~Raises(Pending)
    BY <2>2, TableTerms
  <2>4. Pending.percent \in Percents
    BY <1>1, <2>3, PendingIs
  <2>5. ASSUME ~spoilt', NEW i \in 1 .. taken'
        PROVE  reports'[i].percent \in Percents /\ HasGrade(Table', reports'[i])
    <3>1. i \in 1 .. taken \/ i = taken + 1
      BY <1>1, <2>1
    <3>2. CASE i \in 1 .. taken
      BY <2>1, <2>2, <2>5, <3>2, TableTerms
    <3>3. CASE i = taken + 1
      <4>1. HasGrade(Table, Pending)
        BY <2>1, <2>2, <2>5, TableTerms
      <4>2. QED
        BY <2>1, <2>2, <2>4, <3>3, <4>1 DEF Pending
    <3>4. QED
      BY <3>1, <3>2, <3>3
  <2>6. ReportsEntered'
    BY <2>2, <2>5, TableTerms
  <2>7. InMemory'
    BY <2>1 DEF InMemory
  <2>8. PlainNames'
    BY <2>1, <2>2 DEF PlainNames
  <2>9. QED
    BY <2>6, <2>7, <2>8
<1>10. CASE LoseLink
  <2>1. /\ arrived' \in taken .. Len(reports) /\ link' = "lost"
        /\ dumper \in {"dumping", "dumped"} => arrived' > taken
        /\ UNCHANGED <<reports, taken, dumper, results, file, spoilt>>
    BY <1>10 DEF LoseLink
  <2>2. Table' = Table /\ InHand' = InHand /\ Arrived' = arrived'
    BY <2>1 DEF Table, InHand, Arrived
  <2>3. InHand' => taken' < Arrived'
    BY <1>1, <2>1, <2>2 DEF InHand, DumperTypeOK
  <2>4. ReportsEntered'
    BY <1>1, <2>1, <2>2, <2>3, TableStays
  <2>5. QED
    BY <2>1, <2>2, <2>4 DEF InMemory, PlainNames
<1>11. CASE UNCHANGED dumperVars
  <2>1. UNCHANGED <<reports, taken, link, arrived, dumper, results, file, spoilt>>
    BY <1>11 DEF dumperVars, queueVars
  <2>2. Table' = Table /\ InHand' = InHand /\ Arrived' = Arrived
    BY <2>1 DEF Table, InHand, Arrived
  <2>3. ReportsEntered'
    BY <1>1, <1>2, <2>1, <2>2, TableStays
  <2>4. QED
    BY <2>1, <2>2, <2>3 DEF InMemory, PlainNames
<1>12. QED
  BY <1>3, <1>4, <1>5, <1>6, <1>7, <1>8, <1>9, <1>10, <1>11, DumperSteps

\* DumperInv holds initially.
LEMMA DumperInitially == DumperInit => DumperInv
<1> SUFFICES ASSUME DumperInit PROVE DumperInv
  OBVIOUS
<1> USE DEF DumperInit
<1>1. DOMAIN << >> = {}
  OBVIOUS
<1>2. DumperTypeOK
  <2>1. AreRows(results) /\ AreRows(file)
    BY NoRows
  <2>2. reports \in Seq(ReportOf) /\ Len(reports) = 0
    OBVIOUS
  <2>3. faults \in 0 .. MaxFaults
    BY DumperAssumption
  <2>4. QED
    BY <2>1, <2>2, <2>3 DEF DumperTypeOK
<1>3. InMemory /\ TornIsDown /\ InOrder
  BY DEF InMemory, TornIsDown, InOrder
<1>4. PlainNames
  BY <1>1 DEF PlainNames, Table
<1>5. ReportsEntered
  BY DEF ReportsEntered, InHand
<1>6. QED
  BY <1>2, <1>3, <1>4, <1>5 DEF DumperInv

-----------------------------------------------------------------------------
(* The theorems.                                                           *)

\* What reports-dumper has in memory is what is in its file, and every report
\* that was acknowledged, or that is in hand, has its grade in the table.
THEOREM DumperInvariant == DumperSpec => []DumperInv
<1>1. DumperInv /\ [DumperNext]_dumperVars => DumperInv'
  BY DumperTypes, QueueStep, TableInvStep DEF DumperInv
<1>2. QED
  BY DumperInitially, <1>1, PTL DEF DumperSpec

\* The grade of a report that was acknowledged is in the file, or a better one,
\* whatever the restarts, until the file is spoilt.
THEOREM HighestIsKept == DumperSpec => []HighestKept
<1>1. DumperInv => HighestKept
  <2> SUFFICES ASSUME DumperInv, dumper # "dumping", ~spoilt, NEW i \in 1 .. acked
               PROVE  LET r == reports[i]
                          text == <<RepoOf[r.job], "plain">>
                      IN  /\ text \in DOMAIN file
                          /\ LabOf[r.job] \in DOMAIN file[text].cells
                          /\ file[text].cells[LabOf[r.job]].highest >= r.percent
    BY DEF HighestKept
  <2>1. Table = file
    BY DEF Table
  <2>2. i \in 1 .. taken
    BY DEF DumperInv, DumperTypeOK, InOrder
  <2>3. QED
    BY <2>1, <2>2 DEF DumperInv, ReportsEntered, IsIn
<1>2. QED
  BY <1>1, DumperInvariant, PTL

-----------------------------------------------------------------------------
(* The table as a grade book.                                              *)

\* Names that are not numbers.
ArePlain(rows) == \A t \in DOMAIN rows : t[2] = "plain"

\* The cell of a lab for a repository.
IsCell(rows, repo, lab) ==
  /\ <<repo, "plain">> \in DOMAIN rows
  /\ lab \in DOMAIN rows[<<repo, "plain">>].cells

\* The cells of a table whose names are plain, as a function of repository and
\* lab.
LEMMA CellsOfIs ==
  ASSUME NEW rows, AreRows(rows), ArePlain(rows)
  PROVE  /\ \A c \in DOMAIN CellsOf(rows) : c \in Repositories \X LabNames
         /\ \A repo \in Repositories, lab \in LabNames :
              /\ <<repo, lab>> \in DOMAIN CellsOf(rows) <=> IsCell(rows, repo, lab)
              /\ <<repo, lab>> \in DOMAIN CellsOf(rows) =>
                   CellsOf(rows)[<<repo, lab>>] = rows[<<repo, "plain">>].cells[lab]
         /\ CellsOf(rows) = [c \in DOMAIN CellsOf(rows) |-> CellsOf(rows)[c]]
<1> DEFINE dom == UNION {{t[1]} \X DOMAIN rows[t].cells : t \in DOMAIN rows}
<1>1. /\ DOMAIN CellsOf(rows) = dom
      /\ \A c \in dom : CellsOf(rows)[c] = rows[<<c[1], "plain">>].cells[c[2]]
      /\ CellsOf(rows) = [c \in dom |-> CellsOf(rows)[c]]
  BY DEF CellsOf
<1>2. ASSUME NEW t \in DOMAIN rows
      PROVE  /\ t[1] \in Repositories /\ t = <<t[1], "plain">>
             /\ DOMAIN rows[t].cells \subseteq LabNames
  <2>1. t \in Texts /\ rows[t] \in Row /\ t[2] = "plain"
    BY DEF AreRows, ArePlain
  <2>2. QED
    BY <2>1, CellsOfRow DEF Texts
<1>3. ASSUME NEW c \in dom
      PROVE  c \in Repositories \X LabNames
  <2>1. PICK t \in DOMAIN rows : c \in {t[1]} \X DOMAIN rows[t].cells
    OBVIOUS
  <2>2. QED
    BY <1>2, <2>1
<1>4. ASSUME NEW repo \in Repositories, NEW lab \in LabNames
      PROVE  <<repo, lab>> \in dom <=> IsCell(rows, repo, lab)
  <2>1. ASSUME <<repo, lab>> \in dom
        PROVE  IsCell(rows, repo, lab)
    <3>1. PICK t \in DOMAIN rows : <<repo, lab>> \in {t[1]} \X DOMAIN rows[t].cells
      BY <2>1
    <3>2. repo = t[1] /\ lab \in DOMAIN rows[t].cells
      BY <3>1
    <3>3. t = <<repo, "plain">>
      BY <1>2, <3>2
    <3>4. QED
      BY <3>2, <3>3 DEF IsCell
  <2>2. ASSUME IsCell(rows, repo, lab)
        PROVE  <<repo, lab>> \in dom
    <3>1. /\ <<repo, "plain">> \in DOMAIN rows
          /\ <<repo, lab>> \in {<<repo, "plain">>[1]} \X DOMAIN rows[<<repo, "plain">>].cells
      BY <2>2 DEF IsCell
    <3>2. QED
      BY <3>1
  <2>3. QED
    BY <2>1, <2>2
<1> HIDE DEF dom
<1>5. ASSUME NEW repo \in Repositories, NEW lab \in LabNames, <<repo, lab>> \in dom
      PROVE  CellsOf(rows)[<<repo, lab>>] = rows[<<repo, "plain">>].cells[lab]
  <2>1. <<repo, lab>>[1] = repo /\ <<repo, lab>>[2] = lab
    OBVIOUS
  <2>2. QED
    BY <1>1, <1>5, <2>1
<1>6. QED
  BY <1>1, <1>3, <1>4, <1>5

\* Two tables are the same when their cells are.
LEMMA CellsOfSame ==
  ASSUME NEW rows, NEW others, AreRows(rows), AreRows(others), ArePlain(others),
         SameCells(rows, others)
  PROVE  CellsOf(rows) = CellsOf(others) /\ ArePlain(rows)
<1>1. ArePlain(rows)
  BY DEF ArePlain, SameCells
<1>2. ASSUME NEW repo \in Repositories, NEW lab \in LabNames
      PROVE  /\ IsCell(rows, repo, lab) <=> IsCell(others, repo, lab)
             /\ IsCell(rows, repo, lab) =>
                  rows[<<repo, "plain">>].cells[lab] = others[<<repo, "plain">>].cells[lab]
  BY DEF IsCell, SameCells
<1> DEFINE one == CellsOf(rows)
           two == CellsOf(others)
<1>3. /\ \A c \in DOMAIN one : c \in Repositories \X LabNames
      /\ \A repo \in Repositories, lab \in LabNames :
           /\ <<repo, lab>> \in DOMAIN one <=> IsCell(rows, repo, lab)
           /\ <<repo, lab>> \in DOMAIN one =>
                one[<<repo, lab>>] = rows[<<repo, "plain">>].cells[lab]
      /\ one = [c \in DOMAIN one |-> one[c]]
  BY <1>1, CellsOfIs
<1>4. /\ \A c \in DOMAIN two : c \in Repositories \X LabNames
      /\ \A repo \in Repositories, lab \in LabNames :
           /\ <<repo, lab>> \in DOMAIN two <=> IsCell(others, repo, lab)
           /\ <<repo, lab>> \in DOMAIN two =>
                two[<<repo, lab>>] = others[<<repo, "plain">>].cells[lab]
      /\ two = [c \in DOMAIN two |-> two[c]]
  BY CellsOfIs
<1> HIDE DEF one, two
<1>5. ASSUME NEW c \in Repositories \X LabNames
      PROVE  /\ c \in DOMAIN one <=> c \in DOMAIN two
             /\ c \in DOMAIN one => one[c] = two[c]
  <2>1. PICK repo \in Repositories, lab \in LabNames : c = <<repo, lab>>
    OBVIOUS
  <2>2. <<repo, lab>> \in DOMAIN one <=> <<repo, lab>> \in DOMAIN two
    BY <1>2, <1>3, <1>4
  <2>3. ASSUME <<repo, lab>> \in DOMAIN one
        PROVE  one[<<repo, lab>>] = two[<<repo, lab>>]
    <3>1. one[<<repo, lab>>] = rows[<<repo, "plain">>].cells[lab]
      BY ONLY <1>3, <2>3, repo \in Repositories, lab \in LabNames
    <3>2. two[<<repo, lab>>] = others[<<repo, "plain">>].cells[lab]
      BY ONLY <1>4, <2>2, <2>3, repo \in Repositories, lab \in LabNames
    <3>3. IsCell(rows, repo, lab)
      BY <1>3, <2>3
    <3>4. QED
      BY <1>2, <3>1, <3>2, <3>3
  <2>4. QED
    BY <2>1, <2>2, <2>3
<1>6. DOMAIN one = DOMAIN two
  BY <1>3, <1>4, <1>5
<1>7. \A c \in DOMAIN one : one[c] = two[c]
  BY <1>3, <1>5
<1>8. one = two
  BY <1>3, <1>4, <1>6, <1>7
<1>9. QED
  BY <1>1, <1>8 DEF one, two

\* The reports as the grade book sees them.
EntryOf(r) == [repo |-> RepoOf[r.job], lab |-> LabOf[r.job], percent |-> r.percent]

Log == [i \in DOMAIN reports |-> EntryOf(reports[i])]

\* What the grade book does with an entry: its cell changes and no other.
LEMMA EnteredTerms ==
  ASSUME NEW table, NEW r
  PROVE  LET c == <<RepoOf[r.job], LabOf[r.job]>>
             before == IF c \in DOMAIN table THEN table[c].highest ELSE 0
             new == Book!Entered(table, EntryOf(r))
         IN  /\ DOMAIN new = DOMAIN table \cup {c}
             /\ new[c] = [latest |-> r.percent,
                          highest |-> IF r.percent > before THEN r.percent ELSE before]
             /\ \A d \in DOMAIN table : d # c => new[d] = table[d]
             /\ new = [d \in DOMAIN new |-> new[d]]
<1> DEFINE e == EntryOf(r)
           c == <<RepoOf[r.job], LabOf[r.job]>>
           before == IF c \in DOMAIN table THEN table[c].highest ELSE 0
           value == [latest |-> r.percent,
                     highest |-> IF r.percent > before THEN r.percent ELSE before]
<1>1. e.repo = RepoOf[r.job] /\ e.lab = LabOf[r.job] /\ e.percent = r.percent
  BY DEF EntryOf
<1> HIDE DEF e
<1>2. Book!Entered(table, e)
        = [k \in DOMAIN table \cup {c} |-> IF k = c THEN value ELSE table[k]]
  BY <1>1 DEF Book!Entered, Book!With
<1> HIDE DEF c, value
<1>3. /\ DOMAIN Book!Entered(table, e) = DOMAIN table \cup {c}
      /\ Book!Entered(table, e)[c] = value
      /\ \A d \in DOMAIN table : d # c => Book!Entered(table, e)[d] = table[d]
      /\ Book!Entered(table, e)
           = [d \in DOMAIN Book!Entered(table, e) |-> Book!Entered(table, e)[d]]
  BY <1>2
<1>4. QED
  BY <1>3 DEF e, c, value

\* Adding a report to the rows enters it in the book.
LEMMA AddEnters ==
  ASSUME NEW rows, AreRows(rows), ArePlain(rows), NEW r \in ReportOf, r.percent # NoPercent
  PROVE  CellsOf(AddResult(rows, r)) = Book!Entered(CellsOf(rows), EntryOf(r))
<1> DEFINE added == AddResult(rows, r)
           repoR == RepoOf[r.job]
           labR == LabOf[r.job]
           one == CellsOf(added)
           table == CellsOf(rows)
           two == Book!Entered(table, EntryOf(r))
           higher(before) == [latest |-> r.percent,
                              highest |-> IF r.percent > before THEN r.percent ELSE before]
<1>1. repoR \in Repositories /\ labR \in LabNames /\ TextOf(r) = <<repoR, "plain">>
  BY NamesOfReport DEF TextOf, Texts
<1>2. /\ AreRows(added)
      /\ DOMAIN added = DOMAIN rows \cup {<<repoR, "plain">>}
      /\ \A t \in DOMAIN rows : t # <<repoR, "plain">> => added[t] = rows[t]
      /\ DOMAIN added[<<repoR, "plain">>].cells = CellsBefore(rows, r) \cup {labR}
      /\ added[<<repoR, "plain">>].cells[labR] = higher(Before(rows, r))
      /\ \A l \in CellsBefore(rows, r) :
           l # labR => added[<<repoR, "plain">>].cells[l] = rows[<<repoR, "plain">>].cells[l]
  BY <1>1, AddIs
<1>3. ArePlain(added)
  BY <1>2 DEF ArePlain
<1>4. /\ \A c \in DOMAIN one : c \in Repositories \X LabNames
      /\ \A repo \in Repositories, lab \in LabNames :
           /\ <<repo, lab>> \in DOMAIN one <=> IsCell(added, repo, lab)
           /\ <<repo, lab>> \in DOMAIN one =>
                one[<<repo, lab>>] = added[<<repo, "plain">>].cells[lab]
      /\ one = [c \in DOMAIN one |-> one[c]]
  BY <1>2, <1>3, CellsOfIs
<1>5. /\ \A c \in DOMAIN table : c \in Repositories \X LabNames
      /\ \A repo \in Repositories, lab \in LabNames :
           /\ <<repo, lab>> \in DOMAIN table <=> IsCell(rows, repo, lab)
           /\ <<repo, lab>> \in DOMAIN table =>
                table[<<repo, lab>>] = rows[<<repo, "plain">>].cells[lab]
  BY CellsOfIs
<1>6. Before(rows, r) = IF <<repoR, labR>> \in DOMAIN table
                          THEN table[<<repoR, labR>>].highest ELSE 0
  BY <1>1, <1>5 DEF Before, IsCell
<1>7. /\ DOMAIN two = DOMAIN table \cup {<<repoR, labR>>}
      /\ two[<<repoR, labR>>] = higher(Before(rows, r))
      /\ \A d \in DOMAIN table : d # <<repoR, labR>> => two[d] = table[d]
      /\ two = [d \in DOMAIN two |-> two[d]]
  <2> DEFINE before == IF <<repoR, labR>> \in DOMAIN table
                         THEN table[<<repoR, labR>>].highest ELSE 0
  <2>1. before = Before(rows, r)
    BY <1>6
  <2> HIDE DEF table
  <2>2. /\ DOMAIN two = DOMAIN table \cup {<<repoR, labR>>}
        /\ two[<<repoR, labR>>] = higher(before)
        /\ \A d \in DOMAIN table : d # <<repoR, labR>> => two[d] = table[d]
        /\ two = [d \in DOMAIN two |-> two[d]]
    BY EnteredTerms
  <2>3. QED
    BY <2>1, <2>2
<1>8. CellsBefore(rows, r) = {l \in LabNames : IsCell(rows, repoR, l)}
  <2>1. CASE <<repoR, "plain">> \in DOMAIN rows
    <3>1. DOMAIN rows[<<repoR, "plain">>].cells \subseteq LabNames
      BY <2>1, CellsOfRow DEF AreRows
    <3>2. QED
      BY <1>1, <2>1, <3>1 DEF CellsBefore, IsCell
  <2>2. CASE <<repoR, "plain">> \notin DOMAIN rows
    BY <1>1, <2>2 DEF CellsBefore, IsCell
  <2>3. QED
    BY <2>1, <2>2
<1> HIDE DEF added, repoR, labR, one, table, two, higher
<1>9. ASSUME NEW repo \in Repositories, NEW lab \in LabNames
      PROVE  /\ <<repo, lab>> \in DOMAIN one <=> <<repo, lab>> \in DOMAIN two
             /\ <<repo, lab>> \in DOMAIN one => one[<<repo, lab>>] = two[<<repo, lab>>]
  <2>1. CASE repo = repoR /\ lab = labR
    <3>1. IsCell(added, repo, lab)
      BY <1>2, <2>1 DEF IsCell
    <3>2. QED
      BY <1>2, <1>4, <1>7, <2>1, <3>1
  <2>2. CASE repo = repoR /\ lab # labR
    <3>1. IsCell(added, repo, lab) <=> IsCell(rows, repo, lab)
      BY <1>2, <1>8, <2>2 DEF IsCell
    <3>2. <<repo, lab>> # <<repoR, labR>>
      BY <2>2
    <3>3. <<repo, lab>> \in DOMAIN one <=> <<repo, lab>> \in DOMAIN two
      BY <1>4, <1>5, <1>7, <3>1, <3>2
    <3>4. ASSUME IsCell(rows, repo, lab)
          PROVE  one[<<repo, lab>>] = two[<<repo, lab>>]
      BY <1>2, <1>4, <1>5, <1>7, <1>8, <2>2, <3>1, <3>2, <3>4
    <3>5. QED
      BY <1>4, <3>1, <3>3, <3>4
  <2>3. CASE repo # repoR
    <3>1. <<repo, "plain">> # <<repoR, "plain">> /\ <<repo, lab>> # <<repoR, labR>>
      BY <2>3
    <3>2. /\ IsCell(added, repo, lab) <=> IsCell(rows, repo, lab)
          /\ IsCell(rows, repo, lab) =>
               added[<<repo, "plain">>].cells[lab] = rows[<<repo, "plain">>].cells[lab]
      BY <1>2, <3>1 DEF IsCell
    <3>3. QED
      BY <1>4, <1>5, <1>7, <3>1, <3>2
  <2>4. QED
    BY <2>1, <2>2, <2>3
<1>10. \A c \in DOMAIN two : c \in Repositories \X LabNames
  BY <1>1, <1>5, <1>7
<1>11. ASSUME NEW c \in Repositories \X LabNames
       PROVE  /\ c \in DOMAIN one <=> c \in DOMAIN two
              /\ c \in DOMAIN one => one[c] = two[c]
  <2>1. PICK repo \in Repositories, lab \in LabNames : c = <<repo, lab>>
    OBVIOUS
  <2>2. QED
    BY <1>9, <2>1
<1>12. DOMAIN one = DOMAIN two
  BY <1>4, <1>10, <1>11
<1>13. \A c \in DOMAIN one : one[c] = two[c]
  BY <1>4, <1>11
<1>14. one = two
  BY <1>4, <1>7, <1>12, <1>13
<1>15. QED
  BY <1>14 DEF one, two, added, table

\* A report that the book has, as the latest of its cell, changes nothing more.
LEMMA EnteredAgain ==
  ASSUME NEW rows, AreRows(rows), ArePlain(rows), NEW r \in ReportOf,
         r.percent \in Percents, HasGrade(rows, r), LatestIs(rows, r)
  PROVE  CellsOf(rows) = Book!Entered(CellsOf(rows), EntryOf(r))
<1> DEFINE c == <<RepoOf[r.job], LabOf[r.job]>>
           table == CellsOf(rows)
           two == Book!Entered(table, EntryOf(r))
           cell == rows[TextOf(r)].cells[LabOf[r.job]]
           value(before) == [latest |-> r.percent,
                             highest |-> IF r.percent > before THEN r.percent ELSE before]
<1>1. RepoOf[r.job] \in Repositories /\ LabOf[r.job] \in LabNames
  BY NamesOfReport DEF TextOf, Texts
<1>2. IsCell(rows, RepoOf[r.job], LabOf[r.job]) /\ cell.highest >= r.percent
      /\ cell.latest = r.percent
  BY DEF HasGrade, LatestIs, IsCell, TextOf
<1>3. c \in DOMAIN table /\ table[c] = cell /\ table = [d \in DOMAIN table |-> table[d]]
  BY <1>1, <1>2, CellsOfIs DEF TextOf
<1>4. rows[TextOf(r)] \in Row
  BY DEF AreRows, HasGrade
<1>5. cell \in Cell
  BY <1>4, CellsOfRow DEF HasGrade
<1> HIDE DEF table, cell
<1> DEFINE before == IF c \in DOMAIN table THEN table[c].highest ELSE 0
<1>6. /\ DOMAIN two = DOMAIN table \cup {c}
      /\ two[c] = value(before)
      /\ \A d \in DOMAIN table : d # c => two[d] = table[d]
      /\ two = [d \in DOMAIN two |-> two[d]]
  BY EnteredTerms
<1>7. before = cell.highest
  BY <1>3
<1>8. value(cell.highest) = cell
  <2>1. cell.highest \in Nat /\ r.percent \in Nat
    BY <1>5, DumperAssumption DEF Cell
  <2>2. ~(r.percent > cell.highest)
    BY <1>2, <2>1
  <2>3. QED
    BY <1>2, <1>5, <2>2 DEF Cell
<1> HIDE DEF c, two, value, before
<1>9. two[c] = table[c]
  BY <1>3, <1>6, <1>7, <1>8
<1>10. DOMAIN two = DOMAIN table
  BY <1>3, <1>6
<1>11. \A d \in DOMAIN table : two[d] = table[d]
  BY <1>6, <1>9
<1>12. two = table
  BY <1>3, <1>6, <1>10, <1>11
<1>13. QED
  BY <1>12 DEF two, table

\* The log of the book.
LEMMA LogIs ==
  ASSUME DumperTypeOK
  PROVE  /\ Log \in Seq(Book!Entry)
         /\ Len(Log) = Len(reports) /\ Len(reports) \in Nat
         /\ \A i \in DOMAIN reports : Log[i] = EntryOf(reports[i])
<1>1. /\ Len(reports) \in Nat /\ DOMAIN reports = 1 .. Len(reports)
      /\ \A i \in DOMAIN reports : reports[i] \in ReportOf
  BY DEF DumperTypeOK
<1>2. ASSUME NEW r \in ReportOf
      PROVE  EntryOf(r) \in Book!Entry
  BY NamesOfReport DEF EntryOf, Book!Entry, ReportOf, TextOf, Texts
<1>3. Log \in [1 .. Len(reports) -> Book!Entry]
  BY <1>1, <1>2 DEF Log
<1>4. QED
  BY <1>1, <1>3 DEF Log

\* The variables of the grade book, in those of reports-dumper.
LEMMA BookIs ==
  /\ Book!bookVars = <<Log, CellsOf(Table), acked, taken>>
  /\ Book!bookVars' = <<Log', CellsOf(Table)', acked', taken'>>
BY DEF Book!bookVars, Log, EntryOf

\* A step that leaves the cells of the table.
LEMMA BookStays ==
  ASSUME UNCHANGED <<reports, acked, taken>>, CellsOf(Table)' = CellsOf(Table)
  PROVE  UNCHANGED Book!bookVars
<1>1. Log' = Log
  BY DEF Log
<1>2. QED
  BY <1>1, BookIs

\* A step of reports-dumper is one of the book, or leaves it.
LEMMA BookStep ==
  ASSUME DumperInv, DumperInv', [DumperNext]_dumperVars, ~spoilt'
  PROVE  Book!BookNext \/ UNCHANGED Book!bookVars
<1>1. ~spoilt
  BY DumperSteps DEF PublishReport, Start, RaiseOnReport, HandleReport, WriteFile,
     RaiseOnSort, Ack, NoticeLoss, LoseLink, Crash, Tear, dumperVars
<1>2. DumperTypeOK /\ AreRows(Table) /\ ArePlain(Table) /\ ArePlain(Table')
      /\ AreRows(results) /\ AreRows(file) /\ AreRows(file')
  BY <1>1 DEF DumperInv, DumperTypeOK, Table, PlainNames, ArePlain
<1>3. acked \in Nat /\ taken \in Nat /\ InOrder /\ (InHand => taken < Arrived)
  BY <1>2, TableTerms DEF DumperInv, DumperTypeOK
<1>4. ASSUME Table' = Table, UNCHANGED <<reports, acked, taken>>
      PROVE  UNCHANGED Book!bookVars
  <2>1. CellsOf(Table)' = CellsOf(Table)
    BY <1>4 DEF CellsOf
  <2>2. QED
    BY <1>4, <2>1, BookStays
<1>5. ASSUME NEW j \in Jobs, NEW percent \in Percents \cup {NoPercent},
             PublishReport(j, percent)
      PROVE  Book!BookNext
  <2> DEFINE r == [job |-> j, percent |-> percent]
  <2>1. r \in ReportOf
    BY DEF ReportOf
  <2>2. /\ DOMAIN reports = 1 .. Len(reports) /\ DOMAIN reports' = 1 .. (Len(reports) + 1)
        /\ \A i \in DOMAIN reports : reports'[i] = reports[i]
        /\ reports'[Len(reports) + 1] = r
    BY <1>2, <1>5, <2>1, AppendIs DEF PublishReport, DumperTypeOK
  <2>3. EntryOf(r) \in Book!Entry
    BY <2>1, NamesOfReport DEF EntryOf, Book!Entry, ReportOf, TextOf, Texts
  <2>4. Log \in Seq(Book!Entry) /\ Len(Log) = Len(reports) /\ Len(reports) \in Nat
        /\ DOMAIN Log = 1 .. Len(reports)
        /\ \A i \in 1 .. Len(reports) : Log[i] = EntryOf(reports[i])
    BY <1>2, <2>2, LogIs DEF Log
  <2>5. Log' = [i \in 1 .. (Len(reports) + 1) |-> EntryOf(reports'[i])]
    BY <2>2 DEF Log, EntryOf
  <2>6. Append(Log, EntryOf(r))
          = [i \in 1 .. (Len(reports) + 1) |-> IF i = Len(reports) + 1 THEN EntryOf(r)
                                               ELSE Log[i]]
    <3> DEFINE e == EntryOf(r)
               n == Len(reports)
    <3>1. e \in Book!Entry /\ n \in Nat /\ Len(Log) = n
      BY <2>3, <2>4
    <3> HIDE DEF e, n
    <3>2. /\ DOMAIN Append(Log, e) = 1 .. (n + 1)
          /\ \A i \in 1 .. n : Append(Log, e)[i] = Log[i]
          /\ Append(Log, e)[n + 1] = e
          /\ Append(Log, e) \in Seq(Book!Entry)
      BY <2>4, <3>1, AppendIs
    <3>3. Append(Log, e) = [i \in 1 .. (n + 1) |-> Append(Log, e)[i]]
      <4> DEFINE longer == Append(Log, e)
      <4>1. longer \in Seq(Book!Entry) /\ DOMAIN longer = 1 .. (n + 1)
        BY <3>2
      <4> HIDE DEF longer
      <4>2. longer = [i \in 1 .. (n + 1) |-> longer[i]]
        BY <4>1
      <4>3. QED
        BY <4>2 DEF longer
    <3>4. \A i \in 1 .. (n + 1) : Append(Log, e)[i] = IF i = n + 1 THEN e ELSE Log[i]
      BY <3>1, <3>2
    <3>5. Append(Log, e) = [i \in 1 .. (n + 1) |-> IF i = n + 1 THEN e ELSE Log[i]]
      BY <3>3, <3>4
    <3>6. QED
      BY <3>5 DEF e, n
  <2>7. \A i \in 1 .. (Len(reports) + 1) :
          EntryOf(reports'[i]) = IF i = Len(reports) + 1 THEN EntryOf(r) ELSE Log[i]
    <3> HIDE DEF r
    <3>1. QED
      BY <2>2, <2>4
  <2>8. Log' = Append(Log, EntryOf(r))
    BY <2>5, <2>6, <2>7
  <2>9. Table' = Table /\ acked' = acked /\ taken' = taken
    BY <1>5 DEF PublishReport, Table
  <2>10. CellsOf(Table)' = CellsOf(Table)
    BY <2>9 DEF CellsOf
  <2>11. Book!Report(EntryOf(r))
    BY <2>8, <2>9, <2>10 DEF Book!Report, Log, EntryOf
  <2>12. QED
    BY <2>3, <2>11 DEF Book!BookNext
<1>6. CASE Start \/ LoseLink
  <2>1. Table' = Table /\ UNCHANGED <<reports, acked, taken>>
    BY <1>6 DEF Start, LoseLink, Table
  <2>2. QED
    BY <1>4, <2>1
<1>13. CASE RaiseOnReport \/ NoticeLoss \/ Crash
  <2>1. Table' = Table /\ UNCHANGED <<reports, acked>> /\ taken' = acked
    BY <1>13 DEF RaiseOnReport, NoticeLoss, Crash, Stopped, Table
  <2>2. Log' = Log /\ CellsOf(Table)' = CellsOf(Table)
    BY <2>1 DEF Log, CellsOf
  <2>3. Book!BeginAgain
    BY <2>1, <2>2 DEF Book!BeginAgain, Log, EntryOf
  <2>4. QED
    BY <2>3 DEF Book!BookNext
<1>7. ASSUME taken < Arrived, ~Raises(Pending)
      PROVE  /\ Pending \in ReportOf /\ Pending.percent \in Percents
             /\ Pending.percent # NoPercent
             /\ taken < Len(Log) /\ Log[taken + 1] = EntryOf(Pending)
             /\ Log[taken + 1].percent # NoPercent
  <2>1. /\ taken < Len(reports) /\ taken + 1 \in DOMAIN reports /\ Pending \in ReportOf
        /\ Pending.percent \in Percents /\ Pending.percent # NoPercent
    BY <1>2, <1>3, <1>7, PendingIs
  <2>2. Log[taken + 1] = EntryOf(Pending) /\ Len(Log) = Len(reports)
    BY <1>2, <2>1, LogIs DEF Pending
  <2>3. Log[taken + 1].percent = Pending.percent
    BY <2>2 DEF EntryOf
  <2>4. QED
    BY <2>1, <2>2, <2>3
<1>8. CASE HandleReport
  <2>1. /\ dumper = "idle" /\ dumper' = "dumping" /\ taken < Arrived
        /\ ~Raises(Pending) /\ results' = AddResult(results, Pending)
        /\ UNCHANGED <<reports, acked, taken>>
    BY <1>8 DEF HandleReport, queueVars
  <2>2. Table = file /\ Table' = AddResult(results, Pending)
    BY <2>1 DEF Table
  <2>3. SameCells(results, Table)
    BY <1>1, <2>1, <2>2, TableTerms DEF DumperInv
  <2>4. CellsOf(results) = CellsOf(Table) /\ ArePlain(results)
    BY <1>2, <2>3, CellsOfSame
  <2>5. CellsOf(AddResult(results, Pending)) = Book!Entered(CellsOf(results), EntryOf(Pending))
    BY <1>2, <1>7, <2>1, <2>4, AddEnters
  <2>6. CellsOf(Table)' = CellsOf(AddResult(results, Pending))
    BY <2>2 DEF CellsOf
  <2>7. CellsOf(Table)' = Book!Entered(CellsOf(Table), Log[taken + 1])
    BY <1>7, <2>1, <2>4, <2>5, <2>6
  <2>8. Log' = Log
    BY <2>1 DEF Log
  <2>9. Book!Enter
    BY <1>7, <2>1, <2>7, <2>8 DEF Book!Enter, Log, EntryOf
  <2>10. QED
    BY <2>9 DEF Book!BookNext
<1>9. CASE WriteFile
  <2>1. /\ dumper = "dumping" /\ dumper' = "dumped"
        /\ UNCHANGED <<reports, acked, taken>>
        /\ \A t \in DOMAIN results : ~results[t].number
    BY <1>9 DEF WriteFile, queueVars
  <2>2. Table = results /\ Table' = file'
    BY <2>1 DEF Table
  <2>3. SameCells(results, file')
    BY <1>2, <1>9, <2>1, WrittenIs
  <2>4. CellsOf(results) = CellsOf(file')
    BY <1>2, <2>2, <2>3, CellsOfSame
  <2>5. CellsOf(Table)' = CellsOf(file')
    BY <2>2 DEF CellsOf
  <2>6. CellsOf(Table)' = CellsOf(Table)
    BY <2>2, <2>4, <2>5
  <2>7. QED
    BY <2>1, <2>6, BookStays
<1>10. CASE RaiseOnSort \/ Tear
  BY <1>10 DEF RaiseOnSort, Tear
<1>11. CASE Ack
  <2>1. /\ dumper = "dumped" /\ dumper' = "idle" /\ taken' = taken + 1
        /\ acked' = (IF link = "open" THEN acked + 1 ELSE acked)
        /\ UNCHANGED <<reports, file>>
    BY <1>11 DEF Ack
  <2>2. Table' = Table /\ InHand
    BY <2>1 DEF Table, InHand
  <2>3. /\ taken < Arrived /\ ~Raises(Pending)
        /\ HasGrade(Table, Pending) /\ LatestIs(Table, Pending)
    BY <1>1, <2>2, TableTerms DEF DumperInv
  <2>4. CellsOf(Table) = Book!Entered(CellsOf(Table), Log[taken + 1])
    BY <1>2, <1>7, <2>3, EnteredAgain
  <2>5. Log' = Log /\ CellsOf(Table)' = CellsOf(Table)
    BY <2>1, <2>2 DEF Log, CellsOf
  <2>6. acked' = acked \/ (acked = taken /\ acked' = taken')
    BY <1>3, <2>1 DEF InOrder
  <2>7. Book!Conclude
    BY <1>7, <2>1, <2>3, <2>4, <2>5, <2>6 DEF Book!Conclude, Log, EntryOf
  <2>8. QED
    BY <2>7 DEF Book!BookNext
<1>12. CASE UNCHANGED dumperVars
  BY <1>4, <1>12 DEF dumperVars, queueVars, Table
<1>14. QED
  BY <1>5, <1>6, <1>8, <1>9, <1>10, <1>11, <1>12, <1>13, DumperSteps

\* Until its file is spoilt, reports-dumper keeps a grade book, whatever the crashes,
\* the lost connections and the restarts: reports enter it one after the other, with
\* the highest grade of each lab, those that are not acknowledged possibly again, and
\* they are acknowledged once they are in it.
THEOREM DumperKeepsBook == DumperSpec => KeepsBook
<1>1. DumperInit => Book!BookInit
  <2> SUFFICES ASSUME DumperInit PROVE Book!BookInit
    OBVIOUS
  <2>1. reports = << >> /\ file = << >> /\ acked = 0 /\ taken = 0 /\ Table = << >>
    BY DEF DumperInit, Table
  <2>2. DOMAIN << >> = {}
    OBVIOUS
  <2>3. Log = << >>
    <3>1. Log = [i \in {} |-> EntryOf(reports[i])]
      BY <2>1, <2>2 DEF Log
    <3>2. QED
      BY <3>1
  <2>4. CellsOf(Table) = << >>
    <3> DEFINE dom == UNION {{t[1]} \X DOMAIN Table[t].cells : t \in DOMAIN Table}
    <3>1. dom = {}
      BY <2>1, <2>2
    <3>2. DOMAIN CellsOf(Table) = dom /\ CellsOf(Table) = [c \in dom |-> CellsOf(Table)[c]]
      BY DEF CellsOf
    <3> HIDE DEF dom
    <3>3. CellsOf(Table) = [c \in {} |-> CellsOf(Table)[c]]
      BY <3>1, <3>2
    <3>4. QED
      BY <3>3
  <2>5. QED
    BY <2>1, <2>3, <2>4 DEF Book!BookInit, Log, EntryOf
<1>2. DumperInv /\ DumperInv' /\ [DumperNext]_dumperVars
        => [~spoilt' => Book!BookNext]_(Book!bookVars)
  BY BookStep
<1>3. QED
  BY DumperInvariant, <1>1, <1>2, PTL DEF DumperSpec, KeepsBook
=============================================================================
