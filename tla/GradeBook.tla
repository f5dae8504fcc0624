------------------------------ MODULE GradeBook ------------------------------
(***************************************************************************)
(* What reports-dumper promises: a table with, for each repository and each *)
(* lab, the grade of the latest report entered and the highest grade of    *)
(* all.  The reports enter it in their order, each after those before it,  *)
(* and one is only done with once it is in the table.  Those that are not  *)
(* done with may have to enter again, the oldest of them first: a latest   *)
(* grade may then go back to that of an older report, but of none that was *)
(* done with; the highest grades do not.                                   *)
(***************************************************************************)
EXTENDS Naturals, Sequences, Dictionaries

CONSTANTS Repositories, LabNames, Percents,
          NoPercent    \* stands for the grade of a report that has none

VARIABLES log,    \* the reports: repository, lab and percentage
          book,   \* the table, a partial function of <<repository, lab>>
          done,   \* how many of the reports are done with
          next    \* how many have entered, since the last time they began again

bookVars == <<log, book, done, next>>

Entry == [repo : Repositories, lab : LabNames, percent : Percents \cup {NoPercent}]

\* A table after one more report.
Entered(table, e) ==
  LET cell == <<e.repo, e.lab>>
      before == IF cell \in DOMAIN table THEN table[cell].highest ELSE 0
  IN  With(table, cell,
           [latest |-> e.percent,
            highest |-> IF e.percent > before THEN e.percent ELSE before])

BookInit == log = << >> /\ book = << >> /\ done = 0 /\ next = 0

Report(e) == log' = Append(log, e) /\ UNCHANGED <<book, done, next>>

Enter ==
  /\ next < Len(log)
  /\ log[next + 1].percent # NoPercent
  /\ book' = Entered(book, log[next + 1])
  /\ UNCHANGED <<log, done, next>>

\* One that is in the table is left, done with or not; once one is not, none of
\* those after it is.
Conclude ==
  /\ next < Len(log)
  /\ log[next + 1].percent # NoPercent
  /\ book = Entered(book, log[next + 1])
  /\ next' = next + 1
  /\ \/ done' = done
     \/ done = next /\ done' = next'
  /\ UNCHANGED <<log, book>>

BeginAgain == next' = done /\ UNCHANGED <<log, book, done>>

BookNext == Enter \/ Conclude \/ BeginAgain \/ \E e \in Entry : Report(e)

BookSpec == BookInit /\ [][BookNext]_bookVars
=============================================================================
