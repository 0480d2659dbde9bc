------------------------------ MODULE Calendar ------------------------------
(***************************************************************************)
(* The civil date that now_iso (state.rs) computes from the days since     *)
(* 1970-01-01, against a calendar that is turned one day at a time.        *)
(***************************************************************************)
EXTENDS Integers

CONSTANT MaxDays   \* bounds the days; 146097 is one full cycle

ASSUME DaysAssumption == MaxDays \in Nat

VARIABLES
    days,      \* what the clock says
    today      \* the reference calendar

calendarVars == <<days, today>>

Era == 146097
Z(n) == n + 719468
Doe(n) == Z(n) % Era

BrokenYoe(n) == (Doe(n) - Doe(n) \div 1460 + Doe(n) \div 36524) \div 365

Yoe(n) == (Doe(n) - Doe(n) \div 1460 + Doe(n) \div 36524 - Doe(n) \div 146096) \div 365
Doy(n) == Doe(n) - (365 * Yoe(n) + Yoe(n) \div 4 - Yoe(n) \div 100)
Mp(n) == (5 * Doy(n) + 2) \div 153
Month(n) == IF Mp(n) < 10 THEN Mp(n) + 3 ELSE Mp(n) - 9

Civil(n) ==
    [y |-> Yoe(n) + 400 * (Z(n) \div Era) + (IF Month(n) <= 2 THEN 1 ELSE 0),
     m |-> Month(n),
     d |-> Doy(n) - (153 * Mp(n) + 2) \div 5 + 1]

\* The time of day from the seconds left over.
Clock(rem) == [h |-> rem \div 3600, m |-> (rem % 3600) \div 60, s |-> rem % 60]

-----------------------------------------------------------------------------
(* Reference *)

Leap(y) == y % 4 = 0 /\ (y % 100 # 0 \/ y % 400 = 0)

DaysIn(y, m) ==
    CASE m = 2 -> IF Leap(y) THEN 29 ELSE 28
      [] m \in {4, 6, 9, 11} -> 30
      [] OTHER -> 31

Tomorrow(t) ==
    IF t.d < DaysIn(t.y, t.m) THEN [y |-> t.y, m |-> t.m, d |-> t.d + 1]
    ELSE IF t.m < 12 THEN [y |-> t.y, m |-> t.m + 1, d |-> 1]
    ELSE [y |-> t.y + 1, m |-> 1, d |-> 1]

CalendarInit ==
    /\ days = 0
    /\ today = [y |-> 1970, m |-> 1, d |-> 1]

Midnight ==
    /\ days < MaxDays
    /\ days' = days + 1
    /\ today' = Tomorrow(today)

CalendarSpec == CalendarInit /\ [][Midnight]_calendarVars

\* The computed date is the calendar's, on every day (state.rs:348-368).
DateCorrect == Civil(days) = today
=============================================================================
