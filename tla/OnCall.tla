----------------------------------- MODULE OnCall -----------------------------------
(***************************************************************************)
(* src/on-call/main.c: the hours of each shift that are outside of office  *)
(* hours are billed to their month, at a rate for weeks and another for    *)
(* week-ends. Time is a number of hours since the start of a year, in a    *)
(* calendar whose sizes are constants; it has no daylight saving.          *)
(***************************************************************************)
EXTENDS Integers, SequencesExt

CONSTANTS DayHours, WorkHours,     \* the hours of a day, and those at the office
          WeekDays, WeekEnd,
          MonthDays, YearMonths,
          Horizon, MaxShifts       \* bounds on the list of shifts

VARIABLES shifts, monthly_bills, asserted
onCallVars == <<shifts, monthly_bills, asserted>>

HourOf(t)    == t % DayHours
WeekDayOf(t) == (t \div DayHours) % WeekDays
MonthHours   == DayHours * MonthDays
MonthOf(t)   == (t \div MonthHours) % YearMonths
YearOf(t)    == t \div (MonthHours * YearMonths)
StartOf(year, month) == (year * YearMonths + month) * MonthHours

datetime_is_week_end(t)     == WeekDayOf(t) \in WeekEnd
datetime_is_working_hour(t) == ~datetime_is_week_end(t) /\ HourOf(t) \in WorkHours

\* tm_mon + 1 of the last month is normalised to the next year.
get_start_of_next_month(t) == StartOf(YearOf(t), MonthOf(t) + 1)

OnCallInit == shifts = <<>> /\ monthly_bills = <<>> /\ asserted = FALSE

NewBill(t) == [month |-> MonthOf(t), year |-> YearOf(t), week_hours |-> 0, week_end_hours |-> 0]

\* shift_bill_hour, for the hours of a range.
Billed(bill, from, to) ==
    LET hours == {t \in from .. to - 1 : ~datetime_is_working_hour(t)}
        ends  == {t \in hours : datetime_is_week_end(t)}
    IN  [bill EXCEPT !.week_end_hours = @ + Cardinality(ends),
                     !.week_hours = @ + Cardinality(hours \ ends)]

IsBillOf(bill, t) == bill.month = MonthOf(t) /\ bill.year = YearOf(t)

\* Mutant of Upserted: every shift has a bill of its own.
Upserted_always(start) == Append(monthly_bills, NewBill(start))
\* The bill of the month is the last one, or a new one.
Upserted(start) == IF monthly_bills # <<>> /\ IsBillOf(Last(monthly_bills), start) THEN monthly_bills
                   ELSE Append(monthly_bills, NewBill(start))

FirstEnd(start, end)           == Min({end, get_start_of_next_month(start)})

\* bill_shift_monthly. Only the months are compared, not the years; a shift that
\* ends in another month than this or the next fails an assertion, half-way.
bill_shift_monthly(start, end) ==
    LET bills == Upserted(start)
        first == Append(Front(bills), Billed(Last(bills), start, FirstEnd(start, end)))
    IN  IF MonthOf(start) = MonthOf(end) THEN monthly_bills' = first /\ UNCHANGED asserted
        ELSE IF MonthOf(start) + 1 # MonthOf(end) THEN monthly_bills' = first /\ asserted' = TRUE
        ELSE /\ monthly_bills' = Append(first, Billed(NewBill(end), FirstEnd(start, end), end))
             /\ UNCHANGED asserted

\* The list is sorted, and its shifts do not overlap.
BillShift(start, end) ==
    /\ ~asserted /\ Len(shifts) < MaxShifts
    /\ start < end /\ (shifts # <<>> => Last(shifts)[2] <= start)
    /\ shifts' = Append(shifts, <<start, end>>)
    /\ bill_shift_monthly(start, end)

OnCallNext == \E start, end \in 0 .. Horizon : BillShift(start, end)
OnCallSpec == OnCallInit /\ [][OnCallNext]_onCallVars
-----------------------------------------------------------------------------
Covered  == UNION {shifts[i][1] .. shifts[i][2] - 1 : i \in DOMAIN shifts}
Outside  == {t \in Covered : ~datetime_is_working_hour(t)}
\* Shifts that the program was written for: not from one year into another, and
\* within a month and the next.
IsOrdinary(s) == YearOf(s[1]) = YearOf(s[2]) /\ MonthOf(s[2]) - MonthOf(s[1]) \in {0, 1}

\* Every hour outside of office hours is billed once, in the bill of its own
\* month, at the rate of its day: however many shifts and months there are.
HoursAreBilledOnce ==
    (\A i \in DOMAIN shifts : IsOrdinary(shifts[i])) =>
        \A y \in 0 .. YearOf(Horizon), m \in 0 .. YearMonths - 1 :
            LET hours == {t \in Outside : YearOf(t) = y /\ MonthOf(t) = m}
                ends  == {t \in hours : datetime_is_week_end(t)}
                bills == {i \in DOMAIN monthly_bills : monthly_bills[i].month = m /\ monthly_bills[i].year = y}
            IN  IF bills = {} THEN hours = {}
                ELSE \E i \in bills : /\ bills = {i}
                                      /\ monthly_bills[i].week_hours = Cardinality(hours \ ends)
                                      /\ monthly_bills[i].week_end_hours = Cardinality(ends)

\* The hours of all the bills.
HoursIn(bills) ==
    LET total[n \in 0 .. Len(bills)] == IF n = 0 THEN 0
                                        ELSE total[n - 1] + bills[n].week_hours + bills[n].week_end_hours
    IN  total[Len(bills)]

\* Nobody pays for an hour twice, or for an office hour, whatever the shifts are:
\* what goes wrong at the end of a year only leaves hours out.
NothingIsBilledTwice == HoursIn(monthly_bills) <= Cardinality(Outside)

\* The bills add up, for any list of shifts.
BillsAreRight == HoursAreBilledOnce /\ NothingIsBilledTwice
=============================================================================
