---------------------------- MODULE FilingPeriods ----------------------------
(***************************************************************************)
(* When a client's GST/HST periods begin and end, and when they fall due:  *)
(* calendar arithmetic on the filing frequency and the fiscal year end     *)
(* that somebody recorded for the client.                                  *)
(*                                                                         *)
(* Every question is answered by laying the periods out anew, from a year  *)
(* end near the question's own span; the answers must tile the calendar    *)
(* all the same, as days pass and as the arrangement is recorded again.    *)
(* A date is a tuple of year, month and day.                               *)
(***************************************************************************)
EXTENDS Integers, FiniteSetsExt

CONSTANTS
  FirstDay, LastDay,   \* bound: the days on which somebody asks
  Arrangements,        \* frequency, year end, and who the registrant is
  NotRecorded          \* no arrangement, no answer, no date

VARIABLES
  today,
  arrangement          \* the client's row of bookkeeping_gst_filing

filingVars == <<today, arrangement>>

-----------------------------------------------------------------------------
FREQUENCIES == {"monthly", "quarterly", "annual"}

MONTHS_IN_PERIOD == [monthly |-> 1, quarterly |-> 3, annual |-> 12]

Leap(y) == y % 4 = 0 /\ (y % 100 # 0 \/ y % 400 = 0)

MonthLength(y, m) ==
  CASE m = 2 -> IF Leap(y) THEN 29 ELSE 28
    [] m \in {4, 6, 9, 11} -> 30
    [] OTHER -> 31

Earlier(a, b) ==
  \/ a[1] < b[1]
  \/ a[1] = b[1] /\ a[2] < b[2]
  \/ a[1] = b[1] /\ a[2] = b[2] /\ a[3] < b[3]

NotLater(a, b) == a = b \/ Earlier(a, b)

NextDay(a) ==
  IF a[3] < MonthLength(a[1], a[2]) THEN <<a[1], a[2], a[3] + 1>>
  ELSE IF a[2] < 12 THEN <<a[1], a[2] + 1, 1>> ELSE <<a[1] + 1, 1, 1>>

\* What a date may be.
IsDate(a) == a \in Int \X (1 .. 12) \X (1 .. 31) /\ a[3] <= MonthLength(a[1], a[2])

ASSUME FilingAssumption ==
  /\ IsDate(FirstDay) /\ IsDate(LastDay) /\ NotLater(FirstDay, LastDay)
  /\ NotRecorded \notin [start : Int \X Int \X Int, end : Int \X Int \X Int]

Least(a, b) == IF a < b THEN a ELSE b

\* year_end_in: clamped to the month.
YearEndIn(arr, y) == <<y, arr.month, Least(arr.day, MonthLength(y, arr.month))>>

\* Fault: the day of the month is kept, whether it was the last or not.
AddMonthsClamped(a, months) ==
  LET total == a[2] - 1 + months
      y == a[1] + (total \div 12)
      m == (total % 12) + 1
  IN <<y, m, Least(a[3], MonthLength(y, m))>>

\* _add_months: the last day of a month goes to the last day of the other.
AddMonths(a, months) ==
  LET total == a[2] - 1 + months
      y == a[1] + (total \div 12)
      m == (total % 12) + 1
  IN <<y, m, IF a[3] = MonthLength(a[1], a[2]) THEN MonthLength(y, m)
             ELSE Least(a[3], MonthLength(y, m))>>

-----------------------------------------------------------------------------
\* The latest year end that is not a year past the span.
Anchor(arr, end) ==
  YearEndIn(arr, Max({y \in end[1] - 1 .. end[1] + 1 :
                        NotLater(YearEndIn(arr, y), AddMonths(end, 12))}))

\* Every boundary is measured from the anchor.
Boundary(anchor, step, k) == AddMonths(anchor, -(step * k))

\* periods_between: the periods that overlap the span, as pairs of days.
PeriodsBetween(arr, start, end) ==
  LET step == MONTHS_IN_PERIOD[arr.frequency]
      anchor == Anchor(arr, end)
      floor == AddMonths(start, -24)
      spans == 12 * (end[1] - start[1] + 5)     \* enough to reach the floor
      reach == Min({k \in 0 .. spans : Earlier(Boundary(anchor, step, k), floor)})
      laid == {[start |-> NextDay(Boundary(anchor, step, k + 1)),
                end |-> Boundary(anchor, step, k)] : k \in 0 .. reach - 1}
  IN {p \in laid : NotLater(start, p.end) /\ NotLater(p.start, end)}

Covers(p, a) == NotLater(p.start, a) /\ NotLater(a, p.end)

\* periods_for, or FilingUnknown.
PeriodFor(arr, a) ==
  LET found == {p \in PeriodsBetween(arr, AddMonths(a, -13), AddMonths(a, 13)) : Covers(p, a)}
  IN IF found = {} THEN NotRecorded
     ELSE CHOOSE p \in found : \A q \in found : NotLater(p.end, q.end)

\* prepare_current: the period that has most recently closed.
LastClosed(arr, a) ==
  LET closed == {p \in PeriodsBetween(arr, AddMonths(a, -26), a) : Earlier(p.end, a)}
  IN IF closed = {} THEN NotRecorded
     ELSE CHOOSE p \in closed : \A q \in closed : NotLater(q.end, p.end)

\* _with_due_dates: when the return is due, and the payment.
Due(arr, p) ==
  LET december == p.end[2] = 12 /\ p.end[3] = 31
      both(a) == [return |-> a, payment |-> a]
  IN CASE arr.frequency # "annual" -> both(AddMonths(p.end, 1))
       [] arr.frequency = "annual" /\ december /\ arr.individual = NotRecorded ->
            both(NotRecorded)
       [] arr.frequency = "annual" /\ december /\ arr.individual = TRUE ->
            [return |-> <<p.end[1] + 1, 6, 15>>, payment |-> <<p.end[1] + 1, 4, 30>>]
       [] OTHER -> both(AddMonths(p.end, 3))

-----------------------------------------------------------------------------
FilingInit ==
  /\ today = FirstDay
  /\ arrangement = NotRecorded

Tomorrow ==
  /\ Earlier(today, LastDay)
  /\ today' = NextDay(today)
  /\ UNCHANGED arrangement

\* record_arrangement: the row is inserted, or replaced.
RecordArrangement(arr) ==
  /\ arr.frequency \in FREQUENCIES /\ arr.month \in 1 .. 12 /\ arr.day \in 1 .. 31
  /\ arrangement' = arr
  /\ UNCHANGED today

FilingNext == Tomorrow \/ \E arr \in Arrangements : RecordArrangement(arr)

FilingSpec == FilingInit /\ [][FilingNext]_filingVars

-----------------------------------------------------------------------------
FilingTypeOK ==
  /\ today \in (FirstDay[1] .. LastDay[1]) \X (1 .. 12) \X (1 .. 31)
  /\ arrangement \in Arrangements \cup {NotRecorded}

\* Whenever somebody asks, today is in one period; the return on offer is for the period
\* right before it, though the two were laid out from different year ends; and the due date
\* the page looks up by that period's last day is that of the same period.  Then every day
\* is on one return and no day on two: "Assuming January would put a return on a period the
\* client does not file" (filing_periods.py 7-8).
EveryDayIsFiledOnce ==
  arrangement # NotRecorded =>
    LET now == PeriodFor(arrangement, today)
        closed == LastClosed(arrangement, today)
    IN /\ now # NotRecorded /\ closed # NotRecorded
       /\ now.start = NextDay(closed.end)
       /\ PeriodFor(arrangement, closed.end) = closed
=============================================================================
