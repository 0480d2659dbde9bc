-------------------------- MODULE AlgorithmProofs --------------------------
(***************************************************************************)
(* The civil date of now_iso is right on every day from 1970 on, and the   *)
(* checksum of snapshot.rs is CRC-32 on every message and detects every    *)
(* short stretch of damage.                                                *)
(*                                                                         *)
(* The calendar.  Years are counted from March, within eras of 400 years:  *)
(* a day is first shown to lie in the year that Yoe gives, then to move to *)
(* the next day of that year or the first of the next, and the month and   *)
(* day follow.                                                             *)
(*                                                                         *)
(* The checksum.  Its loops are folds over sequences of any length.  What  *)
(* holds for all natural numbers is shown by SetInduction, on the set of   *)
(* the numbers it holds for.                                               *)
(***************************************************************************)
EXTENDS Calendar, Crc, TLAPS, WellFoundedInduction

(* The calendar. *)

\* The days of an era before its year y.
Start(y) == 365 * y + y \div 4 - y \div 100

\* The last day of the March year y is 29 February.
Long(y) == Leap(y + 1)

LEMMA DoeRange ==
    ASSUME NEW n \in Nat
    PROVE  /\ Doe(n) \in Int /\ 0 <= Doe(n) /\ Doe(n) <= 146096
           /\ Z(n) \div Era \in Int
           /\ Doe(n) < 146096 => Doe(n + 1) = Doe(n) + 1 /\ Z(n + 1) \div Era = Z(n) \div Era
           /\ Doe(n) = 146096 => Doe(n + 1) = 0 /\ Z(n + 1) \div Era = Z(n) \div Era + 1
  <1> USE DEF Doe, Z, Era
  <1>1. Doe(n) \in Int /\ 0 <= Doe(n) /\ Doe(n) <= 146096 /\ Z(n) \div Era \in Int
    BY SMT
  <1>2. Doe(n) < 146096 => Doe(n + 1) = Doe(n) + 1 /\ Z(n + 1) \div Era = Z(n) \div Era
    BY SMT
  <1>3. Doe(n) = 146096 => Doe(n + 1) = 0 /\ Z(n + 1) \div Era = Z(n) \div Era + 1
    BY SMT
  <1> QED BY <1>1, <1>2, <1>3, SMT

\* Yoe as a function of the day of the era.
YearOf(e) == (e - e \div 1460 + e \div 36524 - e \div 146096) \div 365

LEMMA YearRange ==
    ASSUME NEW e \in Int, 0 <= e, e <= 146096
    PROVE  /\ YearOf(e) \in Int /\ 0 <= YearOf(e) /\ YearOf(e) <= 399
           /\ Start(YearOf(e)) <= e
           /\ YearOf(e) = 399 \/ e < Start(YearOf(e) + 1)
  BY SMTT(60) DEF YearOf, Start

LEMMA YearNext ==
    ASSUME NEW e \in Int, 0 <= e, e < 146096
    PROVE  \/ /\ YearOf(e + 1) = YearOf(e)
              /\ YearOf(e) = 399 \/ e + 1 < Start(YearOf(e) + 1)
           \/ /\ YearOf(e + 1) = YearOf(e) + 1
              /\ e + 1 = Start(YearOf(e) + 1)
  BY SMTT(60) DEF YearOf, Start

LEMMA YearLength ==
    ASSUME NEW y \in Int, 0 <= y, y <= 398
    PROVE  Start(y + 1) - Start(y) = IF Long(y) THEN 366 ELSE 365
  BY SMTT(60) DEF Start, Long, Leap

LEMMA LeapByEra ==
    ASSUME NEW y \in Int, NEW k \in Int
    PROVE  Leap(y + 400 * k) <=> Leap(y)
  BY SMTT(60) DEF Leap

\* The number of the last day of the March year y.
LastDay(y) == IF Long(y) THEN 365 ELSE 364

\* The March year, counted from the year 0.
FullYear(n) == Yoe(n) + 400 * (Z(n) \div Era)

LEMMA DayOfYear ==
    ASSUME NEW n \in Nat
    PROVE  /\ Doy(n) \in Int /\ 0 <= Doy(n) /\ Doy(n) <= LastDay(FullYear(n))
           /\ FullYear(n) \in Int
           /\ \/ /\ Doy(n) < LastDay(FullYear(n))
                 /\ Doy(n + 1) = Doy(n) + 1
                 /\ FullYear(n + 1) = FullYear(n)
              \/ /\ Doy(n) = LastDay(FullYear(n))
                 /\ Doy(n + 1) = 0
                 /\ FullYear(n + 1) = FullYear(n) + 1
  <1> DEFINE e == Doe(n)
             k == Z(n) \div Era
             y == YearOf(e)
  <1>1. /\ e \in Int /\ 0 <= e /\ e <= 146096
        /\ k \in Int
        /\ e < 146096 => Doe(n + 1) = e + 1 /\ Z(n + 1) \div Era = k
        /\ e = 146096 => Doe(n + 1) = 0 /\ Z(n + 1) \div Era = k + 1
    BY DoeRange
  <1>2. /\ y \in Int /\ 0 <= y /\ y <= 399
        /\ Start(y) <= e
        /\ y = 399 \/ e < Start(y + 1)
    BY <1>1, YearRange
  <1>3. /\ Yoe(n) = y /\ Doy(n) = e - Start(y)
        /\ FullYear(n) = y + 400 * k
    BY <1>1, <1>2, SMT DEF Yoe, Doy, YearOf, Start, FullYear
  <1>4. /\ Doy(n + 1) = Doe(n + 1) - Start(YearOf(Doe(n + 1)))
         /\ FullYear(n + 1) = YearOf(Doe(n + 1)) + 400 * (Z(n + 1) \div Era)
    BY <1>1, SMT DEF Yoe, Doy, YearOf, Start, FullYear
  <1>5. Long(y + 400 * k) <=> Long(y)
    <2> HIDE DEF e, k, y
    <2>1. y + 1 \in Int /\ (y + 1) + 400 * k = (y + 400 * k) + 1  BY <1>1, <1>2, SMT
    <2>2. Leap((y + 1) + 400 * k) <=> Leap(y + 1)  BY <1>1, <2>1, LeapByEra, SMT
    <2> QED BY <2>1, <2>2, SMT DEF Long
  <1>6. y < 399 => Start(y + 1) - Start(y) = IF Long(y) THEN 366 ELSE 365
    BY <1>2, YearLength, SMT
  <1>7. Long(399) /\ Start(399) = 145731
    BY SMT DEF Long, Leap, Start
  <1>8. LastDay(y + 400 * k) = IF Long(y) THEN 365 ELSE 364
    BY <1>5 DEF LastDay
  <1>9. Start(y) \in Int /\ Start(y + 1) \in Int
    BY <1>2, SMT DEF Start
  <1>10. 0 <= Doy(n) /\ Doy(n) <= LastDay(FullYear(n)) /\ Doy(n) \in Int /\ FullYear(n) \in Int
    <2> HIDE DEF e, k, y
    <2> QED BY <1>1, <1>2, <1>3, <1>6, <1>7, <1>8, <1>9, SMT
  <1>11. CASE e = 146096
    <2>1. y = 399  BY <1>11, SMT DEF YearOf
    <2>2. YearOf(0) = 0 /\ Start(0) = 0  BY SMT DEF YearOf, Start
    <2> HIDE DEF e, k, y
    <2> QED BY <1>1, <1>3, <1>4, <1>7, <1>8, <1>10, <1>11, <2>1, <2>2, SMT
  <1>12. CASE e < 146096
    <2>1. \/ /\ YearOf(e + 1) = y
             /\ y = 399 \/ e + 1 < Start(y + 1)
          \/ /\ YearOf(e + 1) = y + 1
             /\ e + 1 = Start(y + 1)
      BY <1>1, <1>12, YearNext
    <2>2. YearOf(e + 1) = y + 1 => y < 399
      BY <1>1, <1>12, YearRange, SMT
    <2> HIDE DEF e, k, y
    <2>3. CASE YearOf(e + 1) = y /\ (y = 399 \/ e + 1 < Start(y + 1))
      BY <1>1, <1>2, <1>3, <1>4, <1>6, <1>7, <1>8, <1>9, <1>10, <1>12, <2>3, SMT
    <2>4. CASE YearOf(e + 1) = y + 1 /\ e + 1 = Start(y + 1)
      BY <1>1, <1>2, <1>3, <1>4, <1>6, <1>7, <1>8, <1>9, <1>10, <1>12, <2>2, <2>4, SMT
    <2> QED BY <2>1, <2>3, <2>4
  <1> QED BY <1>1, <1>10, <1>11, <1>12, SMT

\* The month, counted from March, and the day in it, of a day of the March year.
MonthOf(doy) == (5 * doy + 2) \div 153
DayOf(doy) == doy - (153 * MonthOf(doy) + 2) \div 5 + 1

LEMMA MonthNext ==
    ASSUME NEW doy \in Int, 0 <= doy, doy <= 365
    PROVE  LET len == IF MonthOf(doy) \in {1, 3, 6, 8} THEN 30 ELSE 31 IN
           /\ MonthOf(doy) \in Int /\ 0 <= MonthOf(doy) /\ MonthOf(doy) <= 11
           /\ DayOf(doy) \in Int /\ 1 <= DayOf(doy) /\ DayOf(doy) <= len
           /\ MonthOf(doy) = 11 <=> doy >= 337
           /\ MonthOf(doy) = 11 => DayOf(doy) = doy - 336
           /\ MonthOf(doy) < 11 =>
                \/ /\ DayOf(doy) < len
                   /\ MonthOf(doy + 1) = MonthOf(doy) /\ DayOf(doy + 1) = DayOf(doy) + 1
                \/ /\ DayOf(doy) = len
                   /\ MonthOf(doy + 1) = MonthOf(doy) + 1 /\ DayOf(doy + 1) = 1
  BY SMTT(60) DEF MonthOf, DayOf

\* The date of day doy of the March year y.
DateOf(y, doy) ==
    LET mp == MonthOf(doy)
        m == IF mp < 10 THEN mp + 3 ELSE mp - 9
    IN  [y |-> y + (IF m <= 2 THEN 1 ELSE 0), m |-> m, d |-> DayOf(doy)]

LEMMA CivilIsDateOf ==
    ASSUME NEW n \in Nat
    PROVE  Civil(n) = DateOf(FullYear(n), Doy(n))
  BY DEF Civil, DateOf, FullYear, Month, Mp, MonthOf, DayOf

LEMMA NextDayInYear ==
    ASSUME NEW y \in Int, NEW doy \in Int, 0 <= doy, doy < LastDay(y)
    PROVE  DateOf(y, doy + 1) = Tomorrow(DateOf(y, doy))
  <1> DEFINE mp == MonthOf(doy)
             nx == MonthOf(doy + 1)
             m == IF mp < 10 THEN mp + 3 ELSE mp - 9
             t == DateOf(y, doy)
  <1>1. doy <= 364 /\ (doy = 364 => Leap(y + 1))
    BY SMT DEF LastDay, Long
  <1>2. /\ mp \in Int /\ 0 <= mp /\ mp <= 11
        /\ nx \in Int /\ 0 <= nx /\ nx <= 11
        /\ DayOf(doy) \in Int /\ DayOf(doy + 1) \in Int
    BY <1>1, MonthNext, SMT
  <1>3. t = [y |-> y + (IF m <= 2 THEN 1 ELSE 0), m |-> m, d |-> DayOf(doy)]
    BY DEF DateOf
  <1>4. CASE mp = 11
    <2>1. nx = 11 /\ DayOf(doy) = doy - 336 /\ DayOf(doy + 1) = doy - 335 /\ doy >= 337
      BY <1>1, <1>4, MonthNext, SMT
    <2>2. DaysIn(t.y, t.m) = IF Leap(y + 1) THEN 29 ELSE 28
      BY <1>3, <1>4, SMT DEF DaysIn
    <2>3. t.d < DaysIn(t.y, t.m)
      BY <1>1, <1>3, <2>1, <2>2, SMT
    <2>4. DateOf(y, doy + 1) = [y |-> y + 1, m |-> 2, d |-> DayOf(doy) + 1]
      BY <2>1, SMT DEF DateOf
    <2>5. t = [y |-> y + 1, m |-> 2, d |-> DayOf(doy)]
      BY <1>3, <1>4, SMT
    <2>6. Tomorrow(t) = [y |-> t.y, m |-> t.m, d |-> t.d + 1]  BY <2>3 DEF Tomorrow
    <2> QED BY <2>4, <2>5, <2>6
  <1>5. CASE mp < 11
    <2> DEFINE len == IF mp \in {1, 3, 6, 8} THEN 30 ELSE 31
    <2>1. \/ DayOf(doy) < len /\ nx = mp /\ DayOf(doy + 1) = DayOf(doy) + 1
          \/ DayOf(doy) = len /\ nx = mp + 1 /\ DayOf(doy + 1) = 1
      BY <1>1, <1>5, MonthNext, SMT
    <2>2. t.y = y + (IF m <= 2 THEN 1 ELSE 0) /\ t.m = m /\ t.d = DayOf(doy)
      BY <1>3
    <2>3. DaysIn(t.y, t.m) = len
      BY <1>2, <1>5, <2>2, SMT DEF DaysIn
    <2>4. DateOf(y, doy + 1) =
            LET k == IF nx < 10 THEN nx + 3 ELSE nx - 9
            IN  [y |-> y + (IF k <= 2 THEN 1 ELSE 0), m |-> k, d |-> DayOf(doy + 1)]
      BY DEF DateOf
    <2>5. CASE DayOf(doy) < len /\ nx = mp /\ DayOf(doy + 1) = DayOf(doy) + 1
      <3>1. t.d < DaysIn(t.y, t.m)  BY <2>2, <2>3, <2>5
      <3>2. Tomorrow(t) = [y |-> t.y, m |-> t.m, d |-> t.d + 1]  BY <3>1 DEF Tomorrow
      <3> QED BY <2>2, <2>4, <2>5, <3>2
    <2>6. CASE DayOf(doy) = len /\ nx = mp + 1 /\ DayOf(doy + 1) = 1 /\ mp # 9
      <3>1. ~(t.d < DaysIn(t.y, t.m)) /\ t.d = DaysIn(t.y, t.m) /\ t.m < 12
        BY <1>2, <1>5, <2>2, <2>3, <2>6, SMT
      <3>2. Tomorrow(t) = [y |-> t.y, m |-> t.m + 1, d |-> 1]  BY <3>1 DEF Tomorrow
      <3>3. (IF nx < 10 THEN nx + 3 ELSE nx - 9) = m + 1 /\ (m + 1 <= 2 <=> m <= 2)
        BY <1>2, <1>5, <2>6, SMT
      <3>4. DateOf(y, doy + 1) = [y |-> y + (IF m <= 2 THEN 1 ELSE 0), m |-> m + 1, d |-> 1]
        BY <2>4, <2>6, <3>3
      <3> QED BY <2>2, <3>2, <3>4
    <2>7. CASE DayOf(doy) = len /\ nx = mp + 1 /\ DayOf(doy + 1) = 1 /\ mp = 9
      <3>1. ~(t.d < DaysIn(t.y, t.m)) /\ t.m = 12 /\ t.y = y
        BY <1>2, <2>2, <2>3, <2>7, SMT
      <3>2. Tomorrow(t) = [y |-> y + 1, m |-> 1, d |-> 1]  BY <3>1, SMT DEF Tomorrow
      <3> QED BY <1>2, <2>4, <2>7, <3>2, SMT
    <2> QED BY <2>1, <2>5, <2>6, <2>7
  <1> QED BY <1>2, <1>4, <1>5, SMT

LEMMA NextDayNewYear ==
    ASSUME NEW y \in Int
    PROVE  DateOf(y + 1, 0) = Tomorrow(DateOf(y, LastDay(y)))
  <1> DEFINE doy == LastDay(y)
             t == DateOf(y, doy)
  <1>1. doy = IF Leap(y + 1) THEN 365 ELSE 364
    BY DEF LastDay, Long
  <1>2. MonthOf(doy) = 11 /\ DayOf(doy) = IF Leap(y + 1) THEN 29 ELSE 28
    BY <1>1, MonthNext, SMT
  <1>3. t = [y |-> y + 1, m |-> 2, d |-> IF Leap(y + 1) THEN 29 ELSE 28]
    BY <1>2, SMT DEF DateOf
  <1>4. t.d = DaysIn(t.y, t.m) /\ ~(t.d < DaysIn(t.y, t.m)) /\ t.m < 12
    BY <1>3, SMT DEF DaysIn
  <1>5. Tomorrow(t) = [y |-> y + 1, m |-> 3, d |-> 1]
    <2>1. Tomorrow(t) = [y |-> t.y, m |-> t.m + 1, d |-> 1]  BY <1>4 DEF Tomorrow
    <2> HIDE DEF t
    <2> QED BY <1>3, <2>1
  <1>6. MonthOf(0) = 0 /\ DayOf(0) = 1
    BY SMT DEF MonthOf, DayOf
  <1>7. DateOf(y + 1, 0) = [y |-> y + 1, m |-> 3, d |-> 1]
    BY <1>6, SMT DEF DateOf
  <1> QED BY <1>5, <1>7

LEMMA CivilNext ==
    ASSUME NEW n \in Nat
    PROVE  Civil(n + 1) = Tomorrow(Civil(n))
  <1>1. Civil(n) = DateOf(FullYear(n), Doy(n)) /\ Civil(n + 1) = DateOf(FullYear(n + 1), Doy(n + 1))
    BY CivilIsDateOf, n + 1 \in Nat, SMT
  <1>2. CASE /\ Doy(n) < LastDay(FullYear(n))
             /\ Doy(n + 1) = Doy(n) + 1 /\ FullYear(n + 1) = FullYear(n)
    BY <1>1, <1>2, DayOfYear, NextDayInYear
  <1>3. CASE /\ Doy(n) = LastDay(FullYear(n))
             /\ Doy(n + 1) = 0 /\ FullYear(n + 1) = FullYear(n) + 1
    BY <1>1, <1>3, DayOfYear, NextDayNewYear
  <1> QED BY <1>2, <1>3, DayOfYear

\* On every day that the clock can show, the date that now_iso writes is that of
\* a calendar turned one day at a time since 1970-01-01 (state.rs:348-368).
THEOREM DateAlwaysCorrect == CalendarSpec => [](days \in Nat /\ DateCorrect)
  <1>1. CalendarInit => days \in Nat /\ DateCorrect
    BY SMT DEF CalendarInit, DateCorrect, Civil, Month, Mp, Doy, Yoe, Doe, Z, Era
  <1>2. days \in Nat /\ DateCorrect /\ [Midnight]_calendarVars => (days \in Nat /\ DateCorrect)'
    BY CivilNext DEF DateCorrect, Midnight, calendarVars
  <1> QED BY <1>1, <1>2, PTL DEF CalendarSpec

\* The hours, minutes and seconds of a day's remaining seconds are in range and
\* lose nothing (state.rs:369-374).
THEOREM ClockCorrect ==
    ASSUME NEW rem \in Nat, rem < 86400
    PROVE  /\ Clock(rem).h < 24 /\ Clock(rem).m < 60 /\ Clock(rem).s < 60
           /\ 3600 * Clock(rem).h + 60 * Clock(rem).m + Clock(rem).s = rem
  BY SMT DEF Clock

-----------------------------------------------------------------------------
(* Loops.  A fold over a sequence is a function on sets of indices that       *)
(* satisfies a recursive equation; that there is one takes an induction, and  *)
(* then it can be followed element by element.                                *)

\* Induction over the natural numbers.
LEMMA SetInduction ==
    ASSUME NEW S, 0 \in S, \A n \in Nat : n \in S => n + 1 \in S
    PROVE  Nat \subseteq S
  <1> DEFINE R == {p \in Nat \X Nat : p[1] < p[2]}
             T == Nat \ S
  <1> SUFFICES ASSUME T # {} PROVE FALSE
    OBVIOUS
  <1>1. IsWellFoundedOn(R, Nat)
    BY NatLessThanWellFounded DEF OpToRel
  <1>2. T \subseteq Nat
    OBVIOUS
  <1> HIDE DEF R, T
  <1>3. PICK x \in T : \A y \in T : ~(<<y, x>> \in R)
    BY <1>1, <1>2, WFMin
  <1> USE DEF R, T
  <1>4. x \in Nat /\ x # 0
    BY <1>3
  <1>5. x - 1 \in Nat /\ x - 1 < x /\ (x - 1) + 1 = x
    BY <1>4
  <1>6. x - 1 \notin T
    BY <1>3, <1>4, <1>5
  <1> QED BY <1>3, <1>5, <1>6

LEMMA MaxIn ==
    ASSUME NEW n \in Nat, NEW s \in SUBSET (1..n), s # {}
    PROVE  Max(s) \in s
  <1> DEFINE Has == {k \in Nat : \A t \in SUBSET (1..k) : t # {} => \E x \in t : \A y \in t : x >= y}
  <1>1. 0 \in Has
    <2>1. \A t \in SUBSET (1..0) : t = {}
      OBVIOUS
    <2> QED BY <2>1
  <1>2. ASSUME NEW k \in Nat, k \in Has PROVE k + 1 \in Has
    <2> SUFFICES ASSUME NEW t \in SUBSET (1..(k + 1)), t # {}
                 PROVE  \E x \in t : \A y \in t : x >= y
      OBVIOUS
    <2>1. CASE k + 1 \in t
      BY <2>1
    <2>2. CASE k + 1 \notin t
      <3>1. t \in SUBSET (1..k)
        BY <2>2
      <3> QED BY <3>1, <1>2
    <2> QED BY <2>1, <2>2
  <1> HIDE DEF Has
  <1>3. n \in Has
    BY <1>1, <1>2, SetInduction
  <1>4. \E x \in s : \A y \in s : x >= y
    BY <1>3 DEF Has
  <1> QED BY <1>4 DEF Max

LEMMA MaxTop ==
    ASSUME NEW n \in Nat, NEW s \in SUBSET (1..(n + 1)), n + 1 \in s
    PROVE  Max(s) = n + 1
  <1>1. \A y \in s : n + 1 >= y
    OBVIOUS
  <1>2. \A x \in s : (\A y \in s : x >= y) => x = n + 1
    OBVIOUS
  <1>3. Max(s) \in s /\ \A y \in s : Max(s) >= y
    BY <1>1 DEF Max
  <1> QED BY <1>2, <1>3

\* The function that FoldLeft chooses, for a step F.
IsFold(g, X, c, n, F) ==
    /\ g \in [SUBSET (1..n) -> X]
    /\ \A s \in SUBSET (1..n) :
           g[s] = IF s = {} THEN c ELSE F[<<g[s \ {Max(s)}], Max(s)>>]

\* A fold over a sequence of length n has a value.
LEMMA FoldExists ==
    ASSUME NEW X, NEW c \in X, NEW n \in Nat, NEW F \in [X \X Nat -> X]
    PROVE  \E g : IsFold(g, X, c, n, F)
  <1> DEFINE Fold(g, k) == \A s \in SUBSET (1..k) :
               g[s] = IF s = {} THEN c ELSE F[<<g[s \ {Max(s)}], Max(s)>>]
             Has == {k \in Nat : \E g \in [SUBSET (1..k) -> X] : Fold(g, k)}
  <1>1. 0 \in Has
    <2> DEFINE g == [s \in SUBSET (1..0) |-> c]
    <2>1. g \in [SUBSET (1..0) -> X]
      OBVIOUS
    <2>2. \A s \in SUBSET (1..0) : s = {}
      OBVIOUS
    <2>3. Fold(g, 0)
      BY <2>2
    <2> QED BY <2>1, <2>3
  <1>2. ASSUME NEW k \in Nat, k \in Has PROVE k + 1 \in Has
    <2>1. PICK g \in [SUBSET (1..k) -> X] : Fold(g, k)
      BY <1>2
    <2> DEFINE h == [s \in SUBSET (1..(k + 1)) |->
                        IF k + 1 \in s THEN F[<<g[s \ {k + 1}], k + 1>>] ELSE g[s]]
    <2>2. ASSUME NEW s \in SUBSET (1..(k + 1)), k + 1 \in s
          PROVE  /\ Max(s) = k + 1
                 /\ s \ {k + 1} \in SUBSET (1..k)
                 /\ h[s] \in X
                 /\ h[s \ {k + 1}] = g[s \ {k + 1}]
      <3>1. Max(s) = k + 1
        BY <2>2, MaxTop
      <3>2. s \ {k + 1} \in SUBSET (1..k)
        OBVIOUS
      <3>3. g[s \ {k + 1}] \in X
        BY <3>2
      <3>4. F[<<g[s \ {k + 1}], k + 1>>] \in X
        BY <3>3
      <3> QED BY <3>1, <3>2, <3>4, <2>2
    <2>3. ASSUME NEW s \in SUBSET (1..(k + 1)), k + 1 \notin s
          PROVE  /\ s \in SUBSET (1..k)
                 /\ h[s] \in X
                 /\ h[s] = g[s]
                 /\ h[s \ {Max(s)}] = g[s \ {Max(s)}]
      <3>1. s \in SUBSET (1..k)
        BY <2>3
      <3>2. h[s] = g[s]
        BY <2>3
      <3>3. ASSUME NEW m PROVE h[s \ {m}] = g[s \ {m}]
        <4>1. s \ {m} \in SUBSET (1..(k + 1)) /\ k + 1 \notin s \ {m}
          BY <2>3
        <4> QED BY <4>1
      <3> QED BY <3>1, <3>2, <3>3
    <2>4. h \in [SUBSET (1..(k + 1)) -> X]
      BY <2>2, <2>3
    <2>5. ASSUME NEW s \in SUBSET (1..(k + 1))
          PROVE  h[s] = IF s = {} THEN c ELSE F[<<h[s \ {Max(s)}], Max(s)>>]
      <3>1. CASE k + 1 \in s
        <4>1. h[s] = F[<<g[s \ {k + 1}], k + 1>>]
          BY <3>1
        <4> HIDE DEF h
        <4> QED BY <3>1, <4>1, <2>2
      <3>2. CASE k + 1 \notin s
        <4>1. g[s] = IF s = {} THEN c ELSE F[<<g[s \ {Max(s)}], Max(s)>>]
          BY <3>2, <2>3, <2>1
        <4> QED BY <3>2, <4>1, <2>3
      <3> QED BY <3>1, <3>2
    <2> HIDE DEF h
    <2>6. Fold(h, k + 1)
      BY <2>5
    <2> HIDE DEF Fold
    <2>7. \E x \in [SUBSET (1..(k + 1)) -> X] : Fold(x, k + 1)
      BY <2>4, <2>6
    <2> QED BY <2>7
  <1> HIDE DEF Has
  <1>3. n \in Has
    BY <1>1, <1>2, SetInduction
  <1> QED BY <1>3 DEF Has, IsFold

\* The two folds of the code and the one of the reference are chosen functions
\* on the subsets of 1..n; only the values on 1..i matter.
LEMMA Initial ==
    ASSUME NEW n \in Nat, NEW i \in 1..n
    PROVE  /\ 1..i \in SUBSET (1..n) /\ 1..i # {}
           /\ Max(1..i) = i /\ (1..i) \ {i} = 1..(i - 1)
           /\ 1..(i - 1) \in SUBSET (1..n)
  <1>1. i - 1 \in Nat /\ i = (i - 1) + 1 /\ i \in 1..i
    OBVIOUS
  <1>2. Max(1..i) = i
    BY <1>1, MaxTop
  <1> QED BY <1>2, SMT


\* The values of a loop with the step F, from c to its result.
IsRun(r, X, c, n, F, result) ==
    /\ r \in [0..n -> X]
    /\ r[0] = c /\ r[n] = result
    /\ \A i \in 1..n : r[i] = F[<<r[i - 1], i>>]

\* So a fold is a loop: what it holds after each element follows from what it
\* held before.
LEMMA FoldRun ==
    ASSUME NEW X, NEW c \in X, NEW n \in Nat, NEW F \in [X \X Nat -> X], NEW G,
           G[{}] = c,
           \A i \in 1..n : G[1..(i - 1)] \in X => G[1..i] = F[<<G[1..(i - 1)], i>>]
    PROVE  \E r : IsRun(r, X, c, n, F, G[1..n])
  <1> DEFINE r == [i \in 0..n |-> G[1..i]]
             Has == {k \in Nat : k <= n => r[k] \in X}
  <1>1. r[0] = c /\ r[n] = G[1..n]
    <2>1. 1..0 = {}
      OBVIOUS
    <2> QED BY <2>1
  <1>2. ASSUME NEW i \in 1..n, r[i - 1] \in X PROVE r[i] = F[<<r[i - 1], i>>]
    <2>1. i \in 0..n /\ i - 1 \in 0..n
      OBVIOUS
    <2> QED BY <1>2, <2>1
  <1> HIDE DEF r
  <1>3. 0 \in Has
    BY <1>1
  <1>4. ASSUME NEW k \in Nat, k \in Has PROVE k + 1 \in Has
    <2> SUFFICES ASSUME k + 1 <= n PROVE r[k + 1] \in X
      OBVIOUS
    <2>1. k <= n /\ k + 1 \in 1..n /\ (k + 1) - 1 = k
      OBVIOUS
    <2>2. r[k] \in X
      BY <1>4, <2>1
    <2>3. F[<<r[k], k + 1>>] \in X
      BY <2>2
    <2> QED BY <2>1, <2>2, <2>3, <1>2
  <1> HIDE DEF Has
  <1>5. \A k \in 0..n : k \in Has
    BY <1>3, <1>4, SetInduction
  <1>6. \A k \in 0..n : r[k] \in X
    BY <1>5 DEF Has
  <1>7. r \in [0..n -> X]
    BY <1>6 DEF r
  <1>8. \A i \in 1..n : r[i] = F[<<r[i - 1], i>>]
    BY <1>2, <1>6
  <1> QED BY <1>1, <1>7, <1>8 DEF IsRun

-----------------------------------------------------------------------------
(* One step of the table is linear over exclusive or, loses nothing, and is  *)
(* a shift when the lowest bit is clear; so are eight.                        *)

Reg == SUBSET Word

Step(c) == TableStep(c, 0)

Eight(c) == Step(Step(Step(Step(Step(Step(Step(Step(c))))))))

\* What a shift does to each bit.
LEMMA ShrBit ==
    ASSUME NEW c \in SUBSET Nat, NEW k \in Nat
    PROVE  /\ \A e \in Nat : e \in Shr(c, k) <=> e + k \in c
           /\ Shr(c, k) \in SUBSET Nat
  <1>1. ASSUME NEW e \in Nat, e + k \in c PROVE e \in Shr(c, k)
    <2>1. e + k >= k /\ (e + k) - k = e
      OBVIOUS
    <2> QED BY <1>1, <2>1 DEF Shr
  <1>2. ASSUME NEW e \in Shr(c, k) PROVE e \in Nat /\ e + k \in c
    <2>1. PICK i \in c : i >= k /\ e = i - k
      BY <1>2 DEF Shr
    <2> QED BY <2>1
  <1> QED BY <1>1, <1>2

LEMMA ShrType ==
    ASSUME NEW c \in Reg, NEW k \in Nat
    PROVE  Shr(c, k) \in Reg
  <1>1. c \in SUBSET Nat
    BY DEF Reg, Word
  <1>2. Shr(c, k) \in SUBSET Nat /\ \A e \in Nat : e \in Shr(c, k) <=> e + k \in c
    BY <1>1, ShrBit
  <1>3. \A e \in Shr(c, k) : e \in 0..31
    BY <1>2 DEF Reg, Word
  <1> QED BY <1>3 DEF Reg, Word

LEMMA StepBit ==
    ASSUME NEW c \in Reg
    PROVE  /\ Step(c) \in Reg
           /\ \A e \in Nat : e \in Step(c) <=> ~((0 \in c /\ e \in Poly) <=> (e + 1 \in c))
  <1>1. c \in SUBSET Nat /\ 1 \in Nat
    BY DEF Reg, Word
  <1>2. \A e \in Nat : e \in Shr(c, 1) <=> e + 1 \in c
    BY <1>1, ShrBit
  <1>3. Shr(c, 1) \in Reg
    BY ShrType
  <1>4. Poly \in Reg
    BY DEF Poly, Reg, Word
  <1>5. Step(c) = IF 0 \in c THEN Xor(Poly, Shr(c, 1)) ELSE Shr(c, 1)
    BY DEF Step, TableStep
  <1>6. Step(c) \in Reg
    BY <1>3, <1>4, <1>5 DEF Xor, Reg
  <1>7. ASSUME NEW e \in Nat
        PROVE  e \in Step(c) <=> ~((0 \in c /\ e \in Poly) <=> (e + 1 \in c))
    BY <1>2, <1>5 DEF Xor
  <1> QED BY <1>6, <1>7

LEMMA XorType ==
    ASSUME NEW a \in Reg, NEW b \in Reg
    PROVE  Xor(a, b) \in Reg
  BY DEF Xor, Reg

LEMMA StepLinear ==
    ASSUME NEW a \in Reg, NEW b \in Reg
    PROVE  Step(Xor(a, b)) = Xor(Step(a), Step(b))
  <1> DEFINE x == Xor(a, b)
  <1>1. x \in Reg
    BY XorType
  <1>2. \A e : e \in x <=> ~(e \in a <=> e \in b)
    BY DEF Xor
  <1> HIDE DEF x
  <1>3. Step(x) \in Reg /\ Step(a) \in Reg /\ Step(b) \in Reg
    BY <1>1, StepBit
  <1>4. Xor(Step(a), Step(b)) \in Reg
    BY <1>3, XorType
  <1>5. ASSUME NEW e \in Word PROVE e \in Step(x) <=> e \in Xor(Step(a), Step(b))
    <2>1. e \in Nat
      BY DEF Word
    <2>2. e \in Step(x) <=> ~((0 \in x /\ e \in Poly) <=> (e + 1 \in x))
      BY <1>1, <2>1, StepBit
    <2>3. e \in Step(a) <=> ~((0 \in a /\ e \in Poly) <=> (e + 1 \in a))
      BY <2>1, StepBit
    <2>4. e \in Step(b) <=> ~((0 \in b /\ e \in Poly) <=> (e + 1 \in b))
      BY <2>1, StepBit
    <2>5. e \in Xor(Step(a), Step(b)) <=> ~(e \in Step(a) <=> e \in Step(b))
      BY DEF Xor
    <2>6. /\ 0 \in x <=> ~(0 \in a <=> 0 \in b)
          /\ e + 1 \in x <=> ~(e + 1 \in a <=> e + 1 \in b)
      BY <1>2
    <2> QED BY <2>2, <2>3, <2>4, <2>5, <2>6
  <1>6. Step(x) = Xor(Step(a), Step(b))
    BY <1>3, <1>4, <1>5 DEF Reg
  <1> QED BY <1>6 DEF x

LEMMA StepInjective ==
    ASSUME NEW a \in Reg, NEW b \in Reg, Step(a) = Step(b)
    PROVE  a = b
  <1>1. 31 \in Nat /\ 31 + 1 \notin a /\ 31 + 1 \notin b
    BY DEF Reg, Word
  <1>2. 31 \in Poly
    BY DEF Poly
  <1>3. 0 \in a <=> 0 \in b
    <2>1. 31 \in Step(a) <=> 0 \in a
      BY <1>1, <1>2, StepBit
    <2>2. 31 \in Step(b) <=> 0 \in b
      BY <1>1, <1>2, StepBit
    <2> QED BY <2>1, <2>2
  <1>4. ASSUME NEW e \in Nat PROVE e + 1 \in a <=> e + 1 \in b
    <2>1. e \in Step(a) <=> ~((0 \in a /\ e \in Poly) <=> (e + 1 \in a))
      BY StepBit
    <2>2. e \in Step(b) <=> ~((0 \in b /\ e \in Poly) <=> (e + 1 \in b))
      BY StepBit
    <2> QED BY <2>1, <2>2, <1>3
  <1>5. ASSUME NEW e \in Word PROVE e \in a <=> e \in b
    <2>1. CASE e = 0
      BY <2>1, <1>3
    <2>2. CASE e # 0
      <3>1. e - 1 \in Nat /\ (e - 1) + 1 = e
        BY <2>2 DEF Word
      <3> QED BY <3>1, <1>4
    <2> QED BY <2>1, <2>2
  <1> QED BY <1>5 DEF Reg

LEMMA EightType ==
    ASSUME NEW a \in Reg
    PROVE  Eight(a) \in Reg
  BY StepBit DEF Eight

LEMMA EightLinear ==
    ASSUME NEW a \in Reg, NEW b \in Reg
    PROVE  Eight(Xor(a, b)) = Xor(Eight(a), Eight(b))
  <1> DEFINE Twice(c) == Step(Step(c))
             Four(c) == Twice(Twice(c))
  <1>1. ASSUME NEW x \in Reg PROVE Twice(x) \in Reg
    BY StepBit
  <1>2. ASSUME NEW x \in Reg, NEW y \in Reg PROVE Twice(Xor(x, y)) = Xor(Twice(x), Twice(y))
    BY StepBit, StepLinear
  <1>3. ASSUME NEW x \in Reg PROVE Eight(x) = Four(Four(x))
    BY DEF Eight
  <1> HIDE DEF Twice
  <1>4. ASSUME NEW x \in Reg PROVE Four(x) \in Reg
    BY <1>1
  <1>5. ASSUME NEW x \in Reg, NEW y \in Reg PROVE Four(Xor(x, y)) = Xor(Four(x), Four(y))
    BY <1>1, <1>2
  <1> HIDE DEF Four
  <1>6. Xor(a, b) \in Reg
    BY XorType
  <1> QED BY <1>3, <1>4, <1>5, <1>6

LEMMA EightInjective ==
    ASSUME NEW a \in Reg, NEW b \in Reg, Eight(a) = Eight(b)
    PROVE  a = b
  <1> DEFINE Twice(c) == Step(Step(c))
             Four(c) == Twice(Twice(c))
  <1>1. ASSUME NEW x \in Reg PROVE Twice(x) \in Reg
    BY StepBit
  <1>2. ASSUME NEW x \in Reg, NEW y \in Reg, Twice(x) = Twice(y) PROVE x = y
    <2>1. Step(x) \in Reg /\ Step(y) \in Reg
      BY StepBit
    <2>2. Step(x) = Step(y)
      BY <1>2, <2>1, StepInjective
    <2> QED BY <2>2, StepInjective
  <1>3. ASSUME NEW x \in Reg PROVE Eight(x) = Four(Four(x))
    BY DEF Eight
  <1> HIDE DEF Twice
  <1>4. ASSUME NEW x \in Reg PROVE Four(x) \in Reg
    BY <1>1
  <1>5. ASSUME NEW x \in Reg, NEW y \in Reg, Four(x) = Four(y) PROVE x = y
    <2>1. Twice(x) \in Reg /\ Twice(y) \in Reg
      BY <1>1
    <2>2. Twice(x) = Twice(y)
      BY <1>5, <2>1, <1>2
    <2> QED BY <2>2, <1>2
  <1> HIDE DEF Four
  <1>6. Four(a) \in Reg /\ Four(b) \in Reg /\ Four(Four(a)) = Four(Four(b))
    BY <1>3, <1>4
  <1>7. Four(a) = Four(b)
    BY <1>6, <1>5
  <1> QED BY <1>7, <1>5

LEMMA StepShifts ==
    ASSUME NEW c \in Reg, c \cap (0..7) = {}, NEW k \in 0..7, NEW d \in Reg,
           \A e \in Nat : e \in d <=> e + k \in c
    PROVE  /\ Step(d) \in Reg
           /\ \A e \in Nat : e \in Step(d) <=> e + (k + 1) \in c
  <1>1. 0 \notin d
    <2>1. 0 \in Nat /\ 0 + k = k /\ k \notin c
      OBVIOUS
    <2> QED BY <2>1
  <1>2. ASSUME NEW e \in Nat PROVE e \in Step(d) <=> e + (k + 1) \in c
    <2>1. e + 1 \in Nat /\ (e + 1) + k = e + (k + 1)
      OBVIOUS
    <2>2. e \in Step(d) <=> e + 1 \in d
      BY <1>1, StepBit
    <2> QED BY <2>1, <2>2
  <1> QED BY <1>2, StepBit

\* Eight steps of a register whose lowest byte is clear move it down by a byte.
LEMMA EightShifts ==
    ASSUME NEW c \in Reg, c \cap (0..7) = {}
    PROVE  /\ Eight(c) = Shr(c, 8)
           /\ \A e \in Nat : e \in Eight(c) <=> e + 8 \in c
  <1> DEFINE Shifted(d, k) == d \in Reg /\ \A e \in Nat : e \in d <=> e + k \in c
             s1 == Step(c)
             s2 == Step(s1)
             s3 == Step(s2)
             s4 == Step(s3)
             s5 == Step(s4)
             s6 == Step(s5)
             s7 == Step(s6)
             s8 == Step(s7)
  <1>1. ASSUME NEW k \in 0..7, NEW d, Shifted(d, k) PROVE Shifted(Step(d), k + 1)
    BY <1>1, StepShifts
  <1>2. Shifted(c, 0)
    OBVIOUS
  <1>3. Eight(c) = s8
    BY DEF Eight
  <1> HIDE DEF Shifted
  <1>4. Shifted(s1, 1)
    <2>1. 0 \in 0..7 /\ 0 + 1 = 1
      OBVIOUS
    <2> QED BY <2>1, <1>1, <1>2
  <1> HIDE DEF s1
  <1>5. Shifted(s2, 2)
    <2>1. 1 \in 0..7 /\ 1 + 1 = 2
      OBVIOUS
    <2> QED BY <2>1, <1>1, <1>4
  <1> HIDE DEF s2
  <1>6. Shifted(s3, 3)
    <2>1. 2 \in 0..7 /\ 2 + 1 = 3
      OBVIOUS
    <2> QED BY <2>1, <1>1, <1>5
  <1> HIDE DEF s3
  <1>7. Shifted(s4, 4)
    <2>1. 3 \in 0..7 /\ 3 + 1 = 4
      OBVIOUS
    <2> QED BY <2>1, <1>1, <1>6
  <1> HIDE DEF s4
  <1>8. Shifted(s5, 5)
    <2>1. 4 \in 0..7 /\ 4 + 1 = 5
      OBVIOUS
    <2> QED BY <2>1, <1>1, <1>7
  <1> HIDE DEF s5
  <1>9. Shifted(s6, 6)
    <2>1. 5 \in 0..7 /\ 5 + 1 = 6
      OBVIOUS
    <2> QED BY <2>1, <1>1, <1>8
  <1> HIDE DEF s6
  <1>10. Shifted(s7, 7)
    <2>1. 6 \in 0..7 /\ 6 + 1 = 7
      OBVIOUS
    <2> QED BY <2>1, <1>1, <1>9
  <1> HIDE DEF s7
  <1>11. Shifted(s8, 8)
    <2>1. 7 \in 0..7 /\ 7 + 1 = 8
      OBVIOUS
    <2> QED BY <2>1, <1>1, <1>10
  <1> HIDE DEF s8
  <1>12. Eight(c) \in Reg /\ \A e \in Nat : e \in Eight(c) <=> e + 8 \in c
    BY <1>3, <1>11 DEF Shifted
  <1>13. Shr(c, 8) \in Reg /\ \A e \in Nat : e \in Shr(c, 8) <=> e + 8 \in c
    <2>1. c \in SUBSET Nat /\ 8 \in Nat
      BY DEF Reg, Word
    <2> QED BY <2>1, ShrBit, ShrType
  <1>14. Eight(c) = Shr(c, 8)
    <2>1. \A e \in Word : e \in Nat
      BY DEF Word
    <2> QED BY <2>1, <1>12, <1>13 DEF Reg
  <1> QED BY <1>12, <1>14

-----------------------------------------------------------------------------
(* The table holds eight steps of every byte, and a byte is eight steps of   *)
(* the register.                                                             *)

LEMMA TableRun ==
    ASSUME NEW low \in Reg
    PROVE  FoldLeft(TableStep, low, [i \in 1..8 |-> i]) = Eight(low)
  <1> DEFINE n == 8
             seq == [i \in 1..8 |-> i]
             F == [p \in Reg \X Nat |-> Step(p[1])]
             Eqn(g) == [s \in SUBSET (1..n) |->
                          IF s = {} THEN low ELSE TableStep(g[s \ {Max(s)}], seq[Max(s)])]
             G == CHOOSE g : g = Eqn(g)
  <1>0. \A c, i : TableStep(c, i) = Step(c)
    BY DEF Step, TableStep
  <1>1. FoldLeft(TableStep, low, seq) = G[1..n]
    <2>1. DOMAIN seq = 1..n
      OBVIOUS
    <2> HIDE DEF seq
    <2> QED BY <2>1 DEF FoldLeft, MapThenFoldSet
  <1> HIDE DEF seq
  <1>2. F \in [Reg \X Nat -> Reg] /\ n \in Nat
    BY StepBit
  <1> HIDE DEF n
  <1>3. \E g : g = Eqn(g)
    <2> HIDE DEF F
    <2>1. PICK g : IsFold(g, Reg, low, n, F)
      BY <1>2, FoldExists
    <2>2. /\ g \in [SUBSET (1..n) -> Reg]
          /\ \A s \in SUBSET (1..n) :
                g[s] = IF s = {} THEN low ELSE F[<<g[s \ {Max(s)}], Max(s)>>]
      BY <2>1 DEF IsFold
    <2>3. ASSUME NEW s \in SUBSET (1..n), s # {}
          PROVE  g[s] = TableStep(g[s \ {Max(s)}], seq[Max(s)])
      <3>1. PICK m \in s : Max(s) = m
        BY <2>3, <1>2, MaxIn
      <3>2. m \in Nat /\ s \ {m} \in SUBSET (1..n)
        BY <1>2
      <3>3. g[s \ {m}] \in Reg
        BY <3>2, <2>2
      <3>4. F[<<g[s \ {m}], m>>] = Step(g[s \ {m}])
        BY <3>2, <3>3 DEF F
      <3>5. F[<<g[s \ {m}], m>>] = TableStep(g[s \ {m}], seq[m])
        BY <3>4, <1>0
      <3> QED BY <2>2, <2>3, <3>1, <3>5
    <2>4. g = Eqn(g)
      BY <2>2, <2>3
    <2> QED BY <2>4
  <1>4. G = Eqn(G)
    <2> HIDE DEF Eqn
    <2> QED BY <1>3
  <1> HIDE DEF G
  <1>5. G[{}] = low
    BY <1>4
  <1>6. ASSUME NEW i \in 1..n, G[1..(i - 1)] \in Reg
        PROVE  G[1..i] = F[<<G[1..(i - 1)], i>>]
    <2> DEFINE t == 1..i
    <2>1. /\ t \in SUBSET (1..n) /\ t # {}
          /\ Max(t) = i /\ t \ {i} = 1..(i - 1)
      BY <1>2, Initial
    <2> HIDE DEF t
    <2>2. G[t] = TableStep(G[1..(i - 1)], seq[i])
      BY <2>1, <1>4
    <2>3. G[t] = Step(G[1..(i - 1)])
      BY <2>2, <1>0
    <2>4. i \in Nat
      BY <1>2
    <2> QED BY <2>3, <2>4, <1>6 DEF t
  <1>7. \A i \in 1..n : G[1..(i - 1)] \in Reg => G[1..i] = F[<<G[1..(i - 1)], i>>]
    BY <1>6
  <1>8. PICK r : IsRun(r, Reg, low, n, F, G[1..n])
    <2> HIDE DEF F
    <2> QED BY <1>2, <1>5, <1>7, FoldRun
  <1>9. /\ r \in [0..n -> Reg]
        /\ r[0] = low /\ r[n] = G[1..n]
        /\ \A i \in 1..n : r[i] = F[<<r[i - 1], i>>]
    BY <1>8 DEF IsRun
  <1>10. ASSUME NEW i \in 1..n PROVE r[i] = Step(r[i - 1])
    <2>1. r[i - 1] \in Reg /\ i \in Nat
      BY <1>2, <1>9
    <2> QED BY <2>1, <1>9
  <1> HIDE DEF F
  <1>11. n = 8
    BY DEF n
  <1>12. /\ r[1] = Step(r[0]) /\ r[2] = Step(r[1]) /\ r[3] = Step(r[2])
         /\ r[4] = Step(r[3]) /\ r[5] = Step(r[4]) /\ r[6] = Step(r[5])
         /\ r[7] = Step(r[6]) /\ r[8] = Step(r[7])
    <2>1. /\ 1 \in 1..n /\ 2 \in 1..n /\ 3 \in 1..n /\ 4 \in 1..n
          /\ 5 \in 1..n /\ 6 \in 1..n /\ 7 \in 1..n /\ 8 \in 1..n
      BY <1>11
    <2>2. /\ 1 - 1 = 0 /\ 2 - 1 = 1 /\ 3 - 1 = 2 /\ 4 - 1 = 3
          /\ 5 - 1 = 4 /\ 6 - 1 = 5 /\ 7 - 1 = 6 /\ 8 - 1 = 7
      OBVIOUS
    <2> QED BY <2>1, <2>2, <1>10
  <1>13. r[8] = Eight(low)
    BY <1>12, <1>9 DEF Eight
  <1>14. r[8] = FoldLeft(TableStep, low, seq)
    BY <1>1, <1>9, <1>11
  <1> QED BY <1>13, <1>14 DEF seq

LEMMA TableEntry ==
    ASSUME NEW low \in SUBSET (0..7)
    PROVE  CrcTable[low] = Eight(low)
  <1>1. low \in Reg
    BY DEF Reg, Word
  <1>2. CrcTable[low] = FoldLeft(TableStep, low, [i \in 1..8 |-> i])
    BY DEF CrcTable
  <1> QED BY <1>1, <1>2, TableRun

LEMMA OfByteType ==
    ASSUME NEW b
    PROVE  OfByte(b) \in SUBSET (0..7)
  BY DEF OfByte

\* One turn of the loop of Crc32::update: the table replaces eight steps of the
\* register with the byte in its lowest bits.
LEMMA UpdateByteIs ==
    ASSUME NEW c \in Reg, NEW b
    PROVE  UpdateByte(c, b) = Eight(Xor(c, OfByte(b)))
  <1> DEFINE o == OfByte(b)
             x == Xor(c, o)
             low == x \cap (0..7)
             high == c \ (0..7)
  <1>1. o \in SUBSET (0..7) /\ o \in Reg
    BY OfByteType DEF Reg, Word
  <1>2. UpdateByte(c, b) = Xor(CrcTable[low], Shr(c, 8))
    BY DEF UpdateByte
  <1> HIDE DEF o
  <1>3. x \in Reg
    BY <1>1, XorType
  <1>4. low \in SUBSET (0..7) /\ low \in Reg /\ high \in Reg /\ high \cap (0..7) = {}
    BY <1>3 DEF Reg, Word
  <1>5. Xor(low, high) = x
    BY <1>1 DEF Xor
  <1>6. Shr(c, 8) = Shr(high, 8)
    <2>1. c \in SUBSET Nat /\ high \in SUBSET Nat /\ 8 \in Nat
      BY DEF Reg, Word
    <2>2. \A e \in Nat : e + 8 \in c <=> e + 8 \in high
      OBVIOUS
    <2> HIDE DEF high
    <2>3. /\ Shr(c, 8) \in SUBSET Nat /\ Shr(high, 8) \in SUBSET Nat
          /\ \A e \in Nat : e \in Shr(c, 8) <=> e + 8 \in c
          /\ \A e \in Nat : e \in Shr(high, 8) <=> e + 8 \in high
      BY <2>1, ShrBit
    <2> QED BY <2>2, <2>3
  <1> HIDE DEF x, low, high
  <1>7. Shr(c, 8) = Eight(high)
    BY <1>4, <1>6, EightShifts
  <1>8. CrcTable[low] = Eight(low)
    BY <1>4, TableEntry
  <1>9. Eight(Xor(low, high)) = Xor(Eight(low), Eight(high))
    BY <1>4, EightLinear
  <1>10. UpdateByte(c, b) = Eight(x)
    BY <1>2, <1>5, <1>7, <1>8, <1>9
  <1> QED BY <1>10 DEF x, o

LEMMA UpdateByteType ==
    ASSUME NEW c \in Reg, NEW b
    PROVE  UpdateByte(c, b) \in Reg
  <1>1. OfByte(b) \in Reg
    BY OfByteType DEF Reg, Word
  <1> QED BY <1>1, UpdateByteIs, EightType, XorType

\* The loop over a buffer, register by register.
IsUpdate(r, c, n, buf) ==
    /\ r \in [0..n -> Reg]
    /\ r[0] = c /\ r[n] = Update(c, buf)
    /\ \A i \in 1..n : r[i] = UpdateByte(r[i - 1], buf[i])

LEMMA UpdateRun ==
    ASSUME NEW c \in Reg, NEW n \in Nat, NEW buf, DOMAIN buf = 1..n
    PROVE  \E r : IsUpdate(r, c, n, buf)
  <1> DEFINE F == [p \in Reg \X Nat |-> UpdateByte(p[1], buf[p[2]])]
             Eqn(g) == [s \in SUBSET (1..n) |->
                          IF s = {} THEN c ELSE UpdateByte(g[s \ {Max(s)}], buf[Max(s)])]
             G == CHOOSE g : g = Eqn(g)
  <1>1. Update(c, buf) = G[1..n]
    BY DEF Update, FoldLeft, MapThenFoldSet
  <1>2. F \in [Reg \X Nat -> Reg]
    BY UpdateByteType
  <1>3. \E g : g = Eqn(g)
    <2> HIDE DEF F
    <2>0. PICK g : IsFold(g, Reg, c, n, F)
      BY <1>2, FoldExists
    <2>1. /\ g \in [SUBSET (1..n) -> Reg]
          /\ \A s \in SUBSET (1..n) :
                g[s] = IF s = {} THEN c ELSE F[<<g[s \ {Max(s)}], Max(s)>>]
      BY <2>0 DEF IsFold
    <2>2. ASSUME NEW s \in SUBSET (1..n), s # {}
          PROVE  g[s] = UpdateByte(g[s \ {Max(s)}], buf[Max(s)])
      <3>1. PICK m \in s : Max(s) = m
        BY <2>2, MaxIn
      <3>1a. m \in Nat /\ s \ {m} \in SUBSET (1..n)
        OBVIOUS
      <3>2. g[s \ {m}] \in Reg
        BY <3>1a, <2>1
      <3>3. F[<<g[s \ {m}], m>>] = UpdateByte(g[s \ {m}], buf[m])
        BY <3>1a, <3>2 DEF F
      <3> QED BY <2>1, <2>2, <3>1, <3>3
    <2>3. g = Eqn(g)
      BY <2>1, <2>2
    <2> QED BY <2>3
  <1>4. G = Eqn(G)
    <2> HIDE DEF Eqn
    <2> QED BY <1>3
  <1> HIDE DEF G
  <1>5. G[{}] = c
    BY <1>4
  <1>6. ASSUME NEW i \in 1..n, G[1..(i - 1)] \in Reg
        PROVE  G[1..i] = F[<<G[1..(i - 1)], i>>]
    <2> DEFINE t == 1..i
    <2>1. /\ t \in SUBSET (1..n) /\ t # {}
          /\ Max(t) = i /\ t \ {i} = 1..(i - 1)
      BY Initial
    <2> HIDE DEF t
    <2>2. G[t] = UpdateByte(G[1..(i - 1)], buf[i])
      BY <2>1, <1>4
    <2> QED BY <2>2, <1>6 DEF t
  <1>7a. \A i \in 1..n : G[1..(i - 1)] \in Reg => G[1..i] = F[<<G[1..(i - 1)], i>>]
    BY <1>6
  <1>7b. PICK r : IsRun(r, Reg, c, n, F, G[1..n])
    <2> HIDE DEF F
    <2> QED BY <1>2, <1>5, <1>7a, FoldRun
  <1>7. /\ r \in [0..n -> Reg]
        /\ r[0] = c /\ r[n] = G[1..n]
        /\ \A i \in 1..n : r[i] = F[<<r[i - 1], i>>]
    BY <1>7b DEF IsRun
  <1>8. ASSUME NEW i \in 1..n PROVE r[i] = UpdateByte(r[i - 1], buf[i])
    <2>1. r[i - 1] \in Reg /\ i \in Nat
      BY <1>7
    <2> QED BY <2>1, <1>7
  <1> QED BY <1>1, <1>7, <1>8 DEF IsUpdate

-----------------------------------------------------------------------------
(* Damage.  Two registers that differ stay different under the same bytes.   *)
(* Where they come together after k bytes, their difference before the last  *)
(* j of them fitted in 8 * j bits, so for k of at most 4 it can only have     *)
(* been empty at the start if all the bytes were the same.                    *)

\* A number is known from its half and its lowest bit.
LEMMA Halves ==
    ASSUME NEW x \in Int, NEW y \in Int, x \div 2 = y \div 2, x % 2 = y % 2
    PROVE  x = y
  BY SMT

LEMMA OfByteInjective ==
    ASSUME NEW a \in 0..255, NEW b \in 0..255, OfByte(a) = OfByte(b)
    PROVE  a = b
  <1>1. ASSUME NEW i \in 0..7 PROVE (a \div 2^i) % 2 = 1 <=> (b \div 2^i) % 2 = 1
    BY DEF OfByte
  <1>2. (a \div 1) % 2 = (b \div 1) % 2
    <2>1. 0 \in 0..7 /\ 2^0 = 1
      BY SMT
    <2>2. (a \div 1) % 2 = 1 <=> (b \div 1) % 2 = 1
      BY <1>1, <2>1
    <2> QED BY <2>2, SMT
  <1>3. (a \div 2) % 2 = (b \div 2) % 2
    <2>1. 1 \in 0..7 /\ 2^1 = 2
      BY SMT
    <2>2. (a \div 2) % 2 = 1 <=> (b \div 2) % 2 = 1
      BY <1>1, <2>1
    <2> QED BY <2>2, SMT
  <1>4. (a \div 4) % 2 = (b \div 4) % 2
    <2>1. 2 \in 0..7 /\ 2^2 = 4
      BY SMT
    <2>2. (a \div 4) % 2 = 1 <=> (b \div 4) % 2 = 1
      BY <1>1, <2>1
    <2> QED BY <2>2, SMT
  <1>5. (a \div 8) % 2 = (b \div 8) % 2
    <2>1. 3 \in 0..7 /\ 2^3 = 8
      BY SMT
    <2>2. (a \div 8) % 2 = 1 <=> (b \div 8) % 2 = 1
      BY <1>1, <2>1
    <2> QED BY <2>2, SMT
  <1>6. (a \div 16) % 2 = (b \div 16) % 2
    <2>1. 4 \in 0..7 /\ 2^4 = 16
      BY SMT
    <2>2. (a \div 16) % 2 = 1 <=> (b \div 16) % 2 = 1
      BY <1>1, <2>1
    <2> QED BY <2>2, SMT
  <1>7. (a \div 32) % 2 = (b \div 32) % 2
    <2>1. 5 \in 0..7 /\ 2^5 = 32
      BY SMT
    <2>2. (a \div 32) % 2 = 1 <=> (b \div 32) % 2 = 1
      BY <1>1, <2>1
    <2> QED BY <2>2, SMT
  <1>8. (a \div 64) % 2 = (b \div 64) % 2
    <2>1. 6 \in 0..7 /\ 2^6 = 64
      BY SMT
    <2>2. (a \div 64) % 2 = 1 <=> (b \div 64) % 2 = 1
      BY <1>1, <2>1
    <2> QED BY <2>2, SMT
  <1>9. (a \div 128) % 2 = (b \div 128) % 2
    <2>1. 7 \in 0..7 /\ 2^7 = 128
      BY SMT
    <2>2. (a \div 128) % 2 = 1 <=> (b \div 128) % 2 = 1
      BY <1>1, <2>1
    <2> QED BY <2>2, SMT
  <1>10. a \div 128 = b \div 128
    <2>1. (a \div 128) % 2 = a \div 128 /\ (b \div 128) % 2 = b \div 128
      BY SMT
    <2> QED BY <2>1, <1>9
  <1>11. a \div 64 = b \div 64
    <2>1. a \div 128 = (a \div 64) \div 2 /\ b \div 128 = (b \div 64) \div 2
      BY SMT
    <2>2. a \div 64 \in Int /\ b \div 64 \in Int
      BY SMT
    <2> QED BY <2>1, <2>2, <1>10, <1>8, Halves
  <1>12. a \div 32 = b \div 32
    <2>1. a \div 64 = (a \div 32) \div 2 /\ b \div 64 = (b \div 32) \div 2
      BY SMT
    <2>2. a \div 32 \in Int /\ b \div 32 \in Int
      BY SMT
    <2> QED BY <2>1, <2>2, <1>11, <1>7, Halves
  <1>13. a \div 16 = b \div 16
    <2>1. a \div 32 = (a \div 16) \div 2 /\ b \div 32 = (b \div 16) \div 2
      BY SMT
    <2>2. a \div 16 \in Int /\ b \div 16 \in Int
      BY SMT
    <2> QED BY <2>1, <2>2, <1>12, <1>6, Halves
  <1>14. a \div 8 = b \div 8
    <2>1. a \div 16 = (a \div 8) \div 2 /\ b \div 16 = (b \div 8) \div 2
      BY SMT
    <2>2. a \div 8 \in Int /\ b \div 8 \in Int
      BY SMT
    <2> QED BY <2>1, <2>2, <1>13, <1>5, Halves
  <1>15. a \div 4 = b \div 4
    <2>1. a \div 8 = (a \div 4) \div 2 /\ b \div 8 = (b \div 4) \div 2
      BY SMT
    <2>2. a \div 4 \in Int /\ b \div 4 \in Int
      BY SMT
    <2> QED BY <2>1, <2>2, <1>14, <1>4, Halves
  <1>16. a \div 2 = b \div 2
    <2>1. a \div 4 = (a \div 2) \div 2 /\ b \div 4 = (b \div 2) \div 2
      BY SMT
    <2>2. a \div 2 \in Int /\ b \div 2 \in Int
      BY SMT
    <2> QED BY <2>1, <2>2, <1>15, <1>3, Halves
  <1>17. a \div 1 = b \div 1
    <2>1. a \div 2 = (a \div 1) \div 2 /\ b \div 2 = (b \div 1) \div 2
      BY SMT
    <2>2. a \div 1 \in Int /\ b \div 1 \in Int
      BY SMT
    <2> QED BY <2>1, <2>2, <1>16, <1>2, Halves
  <1> QED BY <1>17, SMT

LEMMA UpdateByteDiffers ==
    ASSUME NEW c \in Reg, NEW d \in Reg, c # d, NEW b
    PROVE  UpdateByte(c, b) # UpdateByte(d, b)
  <1> DEFINE o == OfByte(b)
  <1>1. o \in Reg
    BY OfByteType DEF Reg, Word
  <1>2. UpdateByte(c, b) = Eight(Xor(c, o)) /\ UpdateByte(d, b) = Eight(Xor(d, o))
    BY UpdateByteIs
  <1> HIDE DEF o
  <1>3. Xor(c, o) \in Reg /\ Xor(d, o) \in Reg
    BY <1>1, XorType
  <1>4. Xor(c, o) # Xor(d, o)
    BY DEF Xor
  <1> QED BY <1>2, <1>3, <1>4, EightInjective

LEMMA UpdateDiffers ==
    ASSUME NEW c \in Reg, NEW d \in Reg, c # d,
           NEW n \in Nat, NEW buf, DOMAIN buf = 1..n
    PROVE  Update(c, buf) # Update(d, buf)
  <1>1a. PICK r : IsUpdate(r, c, n, buf)
    BY UpdateRun
  <1>1. /\ r \in [0..n -> Reg]
        /\ r[0] = c /\ r[n] = Update(c, buf)
        /\ \A i \in 1..n : r[i] = UpdateByte(r[i - 1], buf[i])
    BY <1>1a DEF IsUpdate
  <1>2a. PICK q : IsUpdate(q, d, n, buf)
    BY UpdateRun
  <1>2. /\ q \in [0..n -> Reg]
        /\ q[0] = d /\ q[n] = Update(d, buf)
        /\ \A i \in 1..n : q[i] = UpdateByte(q[i - 1], buf[i])
    BY <1>2a DEF IsUpdate
  <1> DEFINE Has == {k \in Nat : k <= n => r[k] # q[k]}
  <1>3. 0 \in Has
    BY <1>1, <1>2
  <1>4. ASSUME NEW k \in Nat, k \in Has PROVE k + 1 \in Has
    <2> SUFFICES ASSUME k + 1 <= n PROVE r[k + 1] # q[k + 1]
      OBVIOUS
    <2>1. k <= n /\ k + 1 \in 1..n /\ (k + 1) - 1 = k /\ k \in 0..n
      OBVIOUS
    <2>2. r[k] # q[k] /\ r[k] \in Reg /\ q[k] \in Reg
      BY <1>1, <1>2, <1>4, <2>1
    <2>3. r[k + 1] = UpdateByte(r[k], buf[k + 1]) /\ q[k + 1] = UpdateByte(q[k], buf[k + 1])
      BY <1>1, <1>2, <2>1
    <2> QED BY <2>2, <2>3, UpdateByteDiffers
  <1> HIDE DEF Has
  <1>5. n \in Has
    BY <1>3, <1>4, SetInduction
  <1>6. r[n] # q[n]
    BY <1>5 DEF Has
  <1> QED BY <1>1, <1>2, <1>6

Below(s, m) == \A e \in s : e < m

\* One byte back.
LEMMA Back ==
    ASSUME NEW u \in Reg, NEW v \in Reg,
           NEW oa \in SUBSET (0..7), NEW ob \in SUBSET (0..7), NEW j \in 0..3,
           Below(Xor(Eight(Xor(u, oa)), Eight(Xor(v, ob))), 8 * j)
    PROVE  /\ Below(Xor(u, v), 8 * (j + 1))
           /\ u = v => oa = ob /\ Eight(Xor(u, oa)) = Eight(Xor(v, ob))
  <1> DEFINE x == Xor(u, oa)
             w == Xor(v, ob)
             y == Xor(Eight(x), Eight(w))
             z == {e + 8 : e \in y}
  <1>1. x \in Reg /\ w \in Reg /\ Xor(x, w) \in Reg
    <2>1. oa \in Reg /\ ob \in Reg
      BY DEF Reg, Word
    <2> QED BY <2>1, XorType
  <1>2. \A e : e \in Xor(x, w) <=> ~(~(e \in u <=> e \in oa) <=> ~(e \in v <=> e \in ob))
    BY DEF Xor
  <1>3. \A e \in y : e < 8 * j
    BY DEF Below
  <1> HIDE DEF x, w
  <1>4. Eight(x) \in Reg /\ Eight(w) \in Reg
    BY <1>1, EightType
  <1>5. y \in Reg
    BY <1>4, XorType
  <1>6. Eight(Xor(x, w)) = y
    BY <1>1, EightLinear
  <1> HIDE DEF y
  <1>7. z \in Reg /\ z \cap (0..7) = {}
    BY <1>3, <1>5 DEF Reg, Word
  <1>8. \A e \in Nat : e + 8 \in z <=> e \in y
    BY <1>5 DEF Reg, Word
  <1>9. \A e \in z : e < 8 * (j + 1)
    BY <1>3, <1>5 DEF Reg, Word
  <1> HIDE DEF z
  <1>10. Eight(z) = y
    <2>1. \A e \in Nat : e \in Eight(z) <=> e + 8 \in z
      BY <1>7, EightShifts
    <2>2. Eight(z) \in Reg
      BY <1>7, EightType
    <2>3. \A e \in Word : e \in Nat
      BY DEF Word
    <2> QED BY <2>1, <2>2, <2>3, <1>5, <1>8 DEF Reg
  <1>11. z = Xor(x, w)
    BY <1>1, <1>6, <1>7, <1>10, EightInjective
  <1>12. \A e : e \in z <=> ~(~(e \in u <=> e \in oa) <=> ~(e \in v <=> e \in ob))
    BY <1>2, <1>11
  <1>13. ASSUME NEW e \in Xor(u, v) PROVE e < 8 * (j + 1)
    <2>1. e \in Nat /\ ~(e \in u <=> e \in v)
      BY DEF Xor, Reg, Word
    <2>2. CASE e \in 0..7
      BY <2>2
    <2>3. CASE e \notin 0..7
      <3>1. e \notin oa /\ e \notin ob
        BY <2>3
      <3>2. e \in z
        BY <2>1, <3>1, <1>12
      <3> QED BY <3>2, <1>9
    <2> QED BY <2>2, <2>3
  <1>14. ASSUME u = v PROVE oa = ob /\ Eight(x) = Eight(w)
    <2>1. \A e \in 0..7 : e \in oa <=> e \in ob
      BY <1>14, <1>12, <1>7
    <2>2. oa = ob
      BY <2>1
    <2> QED BY <1>14, <2>2 DEF x, w
  <1> QED BY <1>13, <1>14 DEF x, w, Below

\* A burst of at most four bytes: the register tells two different ones apart.
LEMMA BurstDiffers ==
    ASSUME NEW c \in Reg, NEW n \in 1..4,
           NEW a \in [1..n -> 0..255], NEW b \in [1..n -> 0..255],
           Update(c, a) = Update(c, b)
    PROVE  a = b
  <1>0. n \in Nat /\ DOMAIN a = 1..n /\ DOMAIN b = 1..n
    OBVIOUS
  <1>1a. PICK r : IsUpdate(r, c, n, a)
    BY <1>0, UpdateRun
  <1>1. /\ r \in [0..n -> Reg]
        /\ r[0] = c /\ r[n] = Update(c, a)
        /\ \A i \in 1..n : r[i] = UpdateByte(r[i - 1], a[i])
    BY <1>1a DEF IsUpdate
  <1>2a. PICK q : IsUpdate(q, c, n, b)
    BY <1>0, UpdateRun
  <1>2. /\ q \in [0..n -> Reg]
        /\ q[0] = c /\ q[n] = Update(c, b)
        /\ \A i \in 1..n : q[i] = UpdateByte(q[i - 1], b[i])
    BY <1>2a DEF IsUpdate
  <1> DEFINE Fits(j) == Below(Xor(r[n - j], q[n - j]), 8 * j)
             Same(j) == r[n - j] = q[n - j] => \A i \in (n - j + 1)..n : a[i] = b[i]
             Has == {j \in Nat : j <= n => Fits(j) /\ Same(j)}
  <1>3. 0 \in Has
    <2>1. n - 0 = n /\ r[n] = q[n] /\ Xor(r[n], q[n]) = {}
      BY <1>1, <1>2 DEF Xor
    <2>2. Fits(0)
      BY <2>1 DEF Below
    <2>3. Same(0)
      OBVIOUS
    <2> QED BY <2>2, <2>3
  <1>4. ASSUME NEW j \in Nat, j \in Has PROVE j + 1 \in Has
    <2> SUFFICES ASSUME j + 1 <= n PROVE Fits(j + 1) /\ Same(j + 1)
      OBVIOUS
    <2> DEFINE i == n - j
    <2>1. /\ j \in 0..3 /\ j <= n /\ i \in 1..n /\ i \in 0..n /\ i - 1 \in 0..n
          /\ n - (j + 1) = i - 1
          /\ n - (j + 1) + 1 = i
      OBVIOUS
    <2>2. Fits(j) /\ Same(j)
      BY <1>4, <2>1
    <2>3. Below(Xor(r[i], q[i]), 8 * j) /\ (r[i] = q[i] => \A k \in (i + 1)..n : a[k] = b[k])
      BY <2>2
    <2> HIDE DEF Fits, Same, i
    <2>4. r[i - 1] \in Reg /\ q[i - 1] \in Reg /\ a[i] \in 0..255 /\ b[i] \in 0..255
      BY <1>1, <1>2, <2>1
    <2>5. r[i] = UpdateByte(r[i - 1], a[i]) /\ q[i] = UpdateByte(q[i - 1], b[i])
      BY <1>1, <1>2, <2>1
    <2>6. /\ r[i] = Eight(Xor(r[i - 1], OfByte(a[i])))
          /\ q[i] = Eight(Xor(q[i - 1], OfByte(b[i])))
      BY <2>4, <2>5, UpdateByteIs
    <2>7. /\ Below(Xor(r[i - 1], q[i - 1]), 8 * (j + 1))
          /\ r[i - 1] = q[i - 1] => OfByte(a[i]) = OfByte(b[i]) /\ r[i] = q[i]
      <3> DEFINE u == r[i - 1]
                 v == q[i - 1]
                 oa == OfByte(a[i])
                 ob == OfByte(b[i])
      <3>1. oa \in SUBSET (0..7) /\ ob \in SUBSET (0..7) /\ u \in Reg /\ v \in Reg
        BY <2>4, OfByteType
      <3>2. r[i] = Eight(Xor(u, oa)) /\ q[i] = Eight(Xor(v, ob))
        BY <2>6
      <3> HIDE DEF u, v, oa, ob
      <3>3. Below(Xor(Eight(Xor(u, oa)), Eight(Xor(v, ob))), 8 * j)
        BY <2>3, <3>2
      <3>4. /\ Below(Xor(u, v), 8 * (j + 1))
            /\ u = v => oa = ob /\ Eight(Xor(u, oa)) = Eight(Xor(v, ob))
        BY <2>1, <3>1, <3>3, Back
      <3> QED BY <3>2, <3>4 DEF u, v, oa, ob
    <2>8. Fits(j + 1)
      BY <2>1, <2>7 DEF Fits
    <2>9. Same(j + 1)
      <3> SUFFICES ASSUME r[i - 1] = q[i - 1], NEW k \in i..n PROVE a[k] = b[k]
        BY <2>1 DEF Same
      <3>1. a[i] = b[i]
        BY <2>4, <2>7, OfByteInjective
      <3>2. CASE k = i
        BY <3>1, <3>2
      <3>3. CASE k # i
        <4>1. k \in (i + 1)..n
          BY <3>3, <2>1
        <4> QED BY <4>1, <2>3, <2>7
      <3> QED BY <3>2, <3>3
    <2> QED BY <2>8, <2>9
  <1> HIDE DEF Has
  <1>5. n \in Has
    BY <1>0, <1>3, <1>4, SetInduction
  <1>6. Same(n)
    BY <1>5 DEF Has
  <1>7. n - n = 0 /\ n - n + 1 = 1
    OBVIOUS
  <1>8. \A i \in 1..n : a[i] = b[i]
    BY <1>1, <1>2, <1>6, <1>7
  <1> QED BY <1>8


-----------------------------------------------------------------------------
(* The reference.  Long division works from the top: the quotient of a        *)
(* message followed by a byte begins with that of the message, and the eight  *)
(* steps that are left are the steps of the register, mirrored.               *)

Up(p) == {e + 8 : e \in p}

Mirror(p, d) == {d - e : e \in p}

Rest(m) == Remainder(Dividend(m), 8 * Len(m))

LEMMA UpBit ==
    ASSUME NEW p \in SUBSET Int
    PROVE  /\ Up(p) \in SUBSET Int
           /\ \A e \in Int : e \in Up(p) <=> e - 8 \in p
  <1>1. ASSUME NEW e \in Int, e - 8 \in p PROVE e \in Up(p)
    <2>1. (e - 8) + 8 = e
      OBVIOUS
    <2> QED BY <1>1, <2>1 DEF Up
  <1>2. ASSUME NEW e \in Up(p) PROVE e \in Int /\ e - 8 \in p
    <2>1. PICK i \in p : e = i + 8
      BY DEF Up
    <2>2. e \in Int /\ e - 8 = i
      BY <2>1
    <2> QED BY <2>2
  <1> QED BY <1>1, <1>2

LEMMA MirrorBit ==
    ASSUME NEW p \in SUBSET Int, NEW d \in Int
    PROVE  /\ Mirror(p, d) \in SUBSET Int
           /\ \A e \in Int : e \in Mirror(p, d) <=> d - e \in p
  <1>1. ASSUME NEW e \in Int, d - e \in p PROVE e \in Mirror(p, d)
    <2>1. d - (d - e) = e
      OBVIOUS
    <2> QED BY <1>1, <2>1 DEF Mirror
  <1>2. ASSUME NEW e \in Mirror(p, d) PROVE e \in Int /\ d - e \in p
    <2>1. PICK i \in p : e = d - i
      BY DEF Mirror
    <2>2. e \in Int /\ d - e = i
      BY <2>1
    <2> QED BY <2>2
  <1> QED BY <1>1, <1>2

LEMMA DivideBit ==
    ASSUME NEW p \in SUBSET Int, NEW d \in Int
    PROVE  /\ Divide(p, d) \in SUBSET Int
           /\ \A e \in Int :
                 e \in Divide(p, d) <=> ~(e \in p <=> (d \in p /\ e - d + 32 \in Generator))
  <1> DEFINE g == {d - 32 + e : e \in Generator}
  <1>0. Generator \in SUBSET Int
    BY DEF Generator
  <1>1. ASSUME NEW e \in Int, e - d + 32 \in Generator PROVE e \in g
    <2>1. d - 32 + (e - d + 32) = e
      OBVIOUS
    <2> QED BY <1>1, <2>1
  <1>2. ASSUME NEW e \in g PROVE e \in Int /\ e - d + 32 \in Generator
    <2>1. PICK i \in Generator : e = d - 32 + i
      OBVIOUS
    <2>2. e \in Int /\ e - d + 32 = i
      BY <2>1, <1>0
    <2> QED BY <2>2
  <1>3. Divide(p, d) = IF d \in p THEN Xor(p, g) ELSE p
    BY DEF Divide
  <1> HIDE DEF g
  <1> QED BY <1>1, <1>2, <1>3 DEF Xor

\* The division of the reference, step by step.
IsDivision(r, p, n) ==
    /\ r \in [0..n -> SUBSET Int]
    /\ r[0] = p /\ r[n] = Remainder(p, n)
    /\ \A i \in 1..n : r[i] = Divide(r[i - 1], n + 32 - i)

LEMMA DivisionRun ==
    ASSUME NEW p \in SUBSET Int, NEW n \in Nat
    PROVE  \E r : IsDivision(r, p, n)
  <1> DEFINE X == SUBSET Int
             seq == [i \in 1..n |-> n + 32 - i]
             F == [a \in X \X Nat |-> Divide(a[1], n + 32 - a[2])]
             Eqn(g) == [s \in SUBSET (1..n) |->
                          IF s = {} THEN p ELSE Divide(g[s \ {Max(s)}], seq[Max(s)])]
             G == CHOOSE g : g = Eqn(g)
  <1>0. \A i \in 1..n : seq[i] = n + 32 - i
    OBVIOUS
  <1>1. Remainder(p, n) = G[1..n]
    <2>1. DOMAIN seq = 1..n /\ Remainder(p, n) = FoldLeft(Divide, p, seq)
      BY DEF Remainder
    <2> HIDE DEF seq
    <2> QED BY <2>1 DEF FoldLeft, MapThenFoldSet
  <1> HIDE DEF seq
  <1>2. F \in [X \X Nat -> X] /\ p \in X
    <2>1. ASSUME NEW x \in X, NEW i \in Nat PROVE Divide(x, n + 32 - i) \in X
      <3>1. n + 32 - i \in Int
        OBVIOUS
      <3> QED BY <3>1, DivideBit
    <2> QED BY <2>1
  <1>3. \E g : g = Eqn(g)
    <2> HIDE DEF F, X
    <2>1. PICK g : IsFold(g, X, p, n, F)
      BY <1>2, FoldExists
    <2>2. /\ g \in [SUBSET (1..n) -> X]
          /\ \A s \in SUBSET (1..n) :
                g[s] = IF s = {} THEN p ELSE F[<<g[s \ {Max(s)}], Max(s)>>]
      BY <2>1 DEF IsFold
    <2>3. ASSUME NEW s \in SUBSET (1..n), s # {}
          PROVE  g[s] = Divide(g[s \ {Max(s)}], seq[Max(s)])
      <3>1. PICK m \in s : Max(s) = m
        BY <2>3, MaxIn
      <3>2. m \in Nat /\ m \in 1..n /\ s \ {m} \in SUBSET (1..n)
        OBVIOUS
      <3>3. g[s \ {m}] \in X
        BY <3>2, <2>2
      <3>4. F[<<g[s \ {m}], m>>] = Divide(g[s \ {m}], n + 32 - m)
        BY <3>2, <3>3 DEF F
      <3>5. F[<<g[s \ {m}], m>>] = Divide(g[s \ {m}], seq[m])
        BY <3>2, <3>4, <1>0
      <3> QED BY <2>2, <2>3, <3>1, <3>5
    <2>4. g = Eqn(g)
      BY <2>2, <2>3
    <2> QED BY <2>4
  <1>4. G = Eqn(G)
    <2> HIDE DEF Eqn
    <2> QED BY <1>3
  <1> HIDE DEF G
  <1>5. G[{}] = p
    BY <1>4
  <1>6. ASSUME NEW i \in 1..n, G[1..(i - 1)] \in X
        PROVE  G[1..i] = F[<<G[1..(i - 1)], i>>]
    <2> DEFINE t == 1..i
    <2>1. /\ t \in SUBSET (1..n) /\ t # {}
          /\ Max(t) = i /\ t \ {i} = 1..(i - 1)
      BY Initial
    <2> HIDE DEF t
    <2>2. G[t] = Divide(G[1..(i - 1)], seq[i])
      BY <2>1, <1>4
    <2>3. i \in Nat /\ seq[i] = n + 32 - i
      BY <1>0
    <2> HIDE DEF X
    <2> QED BY <2>2, <2>3, <1>6 DEF t
  <1>7. \A i \in 1..n : G[1..(i - 1)] \in X => G[1..i] = F[<<G[1..(i - 1)], i>>]
    BY <1>6
  <1> HIDE DEF X
  <1>8. PICK r : IsRun(r, X, p, n, F, G[1..n])
    <2> HIDE DEF F
    <2> QED BY <1>2, <1>5, <1>7, FoldRun
  <1>9. /\ r \in [0..n -> X]
        /\ r[0] = p /\ r[n] = G[1..n]
        /\ \A i \in 1..n : r[i] = F[<<r[i - 1], i>>]
    BY <1>8 DEF IsRun
  <1>10. ASSUME NEW i \in 1..n PROVE r[i] = Divide(r[i - 1], n + 32 - i)
    <2>1. r[i - 1] \in X /\ i \in Nat
      BY <1>9
    <2> QED BY <2>1, <1>9
  <1> HIDE DEF F
  <1> QED BY <1>1, <1>9, <1>10 DEF IsDivision, X

\* A step of the division does not see the byte that follows.
LEMMA DivideUp ==
    ASSUME NEW p \in SUBSET Int, NEW q \in SUBSET (32..39), NEW d \in Int, d >= 32
    PROVE  Divide(Xor(Up(p), q), d + 8) = Xor(Up(Divide(p, d)), q)
  <1> DEFINE u == Xor(Up(p), q)
             v == Divide(p, d)
  <1>0. q \in SUBSET Int
    OBVIOUS
  <1>1. Up(p) \in SUBSET Int /\ \A e \in Int : e \in Up(p) <=> e - 8 \in p
    BY UpBit
  <1>2. /\ v \in SUBSET Int
        /\ \A e \in Int : e \in v <=> ~(e \in p <=> (d \in p /\ e - d + 32 \in Generator))
    BY DivideBit
  <1>3. u \in SUBSET Int /\ \A e \in Int : e \in u <=> ~(e - 8 \in p <=> e \in q)
    BY <1>0, <1>1 DEF Xor
  <1> HIDE DEF u, v
  <1>4. Up(v) \in SUBSET Int /\ \A e \in Int : e \in Up(v) <=> e - 8 \in v
    BY <1>2, UpBit
  <1>5. d + 8 \in Int /\ d + 8 \notin q /\ (d + 8) - 8 = d
    OBVIOUS
  <1>6. d + 8 \in u <=> d \in p
    BY <1>3, <1>5
  <1>7. /\ Divide(u, d + 8) \in SUBSET Int
        /\ \A e \in Int :
              e \in Divide(u, d + 8) <=> ~(e \in u <=> (d + 8 \in u /\ e - (d + 8) + 32 \in Generator))
    BY <1>3, <1>5, DivideBit
  <1>8. Xor(Up(v), q) \in SUBSET Int
    BY <1>0, <1>4 DEF Xor
  <1>9. ASSUME NEW e \in Int PROVE e \in Divide(u, d + 8) <=> e \in Xor(Up(v), q)
    <2>1. e - 8 \in Int /\ (e - 8) - d + 32 = e - (d + 8) + 32
      OBVIOUS
    <2>2. e \in Xor(Up(v), q) <=> ~(e - 8 \in v <=> e \in q)
      BY <1>4 DEF Xor
    <2>3. e - 8 \in v <=> ~(e - 8 \in p <=> (d \in p /\ e - (d + 8) + 32 \in Generator))
      BY <1>2, <2>1
    <2>4. e \in Divide(u, d + 8) <=> ~(e \in u <=> (d \in p /\ e - (d + 8) + 32 \in Generator))
      BY <1>6, <1>7
    <2>5. e \in u <=> ~(e - 8 \in p <=> e \in q)
      BY <1>3
    <2> QED BY <2>2, <2>3, <2>4, <2>5
  <1>10. Divide(u, d + 8) = Xor(Up(v), q)
    BY <1>7, <1>8, <1>9
  <1> QED BY <1>10 DEF u, v

\* The reflected polynomial of the code is the generator.
LEMMA PolyIsGenerator == \A e \in 0..31 : e \in Poly <=> 31 - e \in Generator
  BY DEF Poly, Generator

\* A step of the division, seen in the mirror, is a step of the register.
LEMMA DivideMirror ==
    ASSUME NEW d \in Int, NEW p \in SUBSET ((d - 31)..d)
    PROVE  /\ Divide(p, d) \in SUBSET ((d - 32)..(d - 1))
           /\ Mirror(p, d) \in Reg
           /\ Mirror(Divide(p, d), d - 1) = Step(Mirror(p, d))
  <1> DEFINE v == Divide(p, d)
             c == Mirror(p, d)
             w == Mirror(v, d - 1)
  <1>0. p \in SUBSET Int /\ d - 1 \in Int
    OBVIOUS
  <1>1. /\ v \in SUBSET Int
        /\ \A e \in Int : e \in v <=> ~(e \in p <=> (d \in p /\ e - d + 32 \in Generator))
    BY <1>0, DivideBit
  <1>2. c \in SUBSET Int /\ \A e \in Int : e \in c <=> d - e \in p
    BY <1>0, MirrorBit
  <1> HIDE DEF v, c
  <1>3. w \in SUBSET Int /\ \A e \in Int : e \in w <=> d - 1 - e \in v
    BY <1>0, <1>1, MirrorBit
  <1> HIDE DEF w
  <1>4. ASSUME NEW e \in v PROVE e \in (d - 32)..(d - 1)
    <2>1. e \in Int /\ ~(e \in p <=> (d \in p /\ e - d + 32 \in Generator))
      BY <1>1
    <2>2. CASE e = d
      <3>1. e - d + 32 = 32 /\ 32 \in Generator
        BY <2>2 DEF Generator
      <3> QED BY <2>1, <2>2, <3>1
    <2>3. CASE e # d
      <3>1. CASE e \in p
        BY <3>1, <2>3
      <3>2. CASE e \notin p
        <4>1. e - d + 32 \in Generator
          BY <2>1, <3>2
        <4>2. e - d + 32 \in 0..32
          BY <4>1 DEF Generator
        <4> QED BY <2>1, <2>3, <4>2
      <3> QED BY <3>1, <3>2
    <2> QED BY <2>2, <2>3
  <1>5. c \in Reg
    <2>1. ASSUME NEW e \in c PROVE e \in 0..31
      <3>1. e \in Int /\ d - e \in p
        BY <1>2
      <3>2. d - e \in (d - 31)..d
        BY <3>1
      <3> QED BY <3>1, <3>2
    <2> QED BY <2>1 DEF Reg, Word
  <1>6. w \in Reg
    <2>1. ASSUME NEW e \in w PROVE e \in 0..31
      <3>1. e \in Int /\ d - 1 - e \in v
        BY <1>3
      <3>2. d - 1 - e \in (d - 32)..(d - 1)
        BY <3>1, <1>4
      <3> QED BY <3>1, <3>2
    <2> QED BY <2>1 DEF Reg, Word
  <1>7. ASSUME NEW e \in 0..31 PROVE e \in w <=> e \in Step(c)
    <2>1. /\ e \in Int /\ e \in Nat /\ d - 1 - e \in Int /\ e + 1 \in Int /\ 0 \in Int
          /\ d - (e + 1) = d - 1 - e /\ d - 0 = d
          /\ (d - 1 - e) - d + 32 = 31 - e
      OBVIOUS
    <2>2. e \in w <=> ~(d - 1 - e \in p <=> (d \in p /\ 31 - e \in Generator))
      BY <1>1, <1>3, <2>1
    <2>3. e \in Step(c) <=> ~((0 \in c /\ e \in Poly) <=> (e + 1 \in c))
      BY <1>5, <2>1, StepBit
    <2>4. 0 \in c <=> d \in p
      BY <1>2, <2>1
    <2>5. e + 1 \in c <=> d - 1 - e \in p
      BY <1>2, <2>1
    <2>6. e \in Poly <=> 31 - e \in Generator
      BY PolyIsGenerator
    <2> QED BY <2>2, <2>3, <2>4, <2>5, <2>6
  <1>8. w = Step(c)
    <2>1. Step(c) \in Reg
      BY <1>5, StepBit
    <2> QED BY <2>1, <1>6, <1>7 DEF Reg, Word
  <1>9. v \in SUBSET ((d - 32)..(d - 1))
    BY <1>4
  <1> QED BY <1>5, <1>8, <1>9 DEF v, c, w

LEMMA DividendBit ==
    ASSUME NEW m, NEW len \in Nat, Len(m) = len, NEW e \in Int
    PROVE  LET k == 8 * len + 31 - e
           IN  e \in Dividend(m) <=>
                  ~((k \in 0..(8 * len - 1) /\ (k % 8) \in OfByte(m[(k \div 8) + 1]))
                       <=> e \in (8 * len)..(8 * len + 31))
  <1> DEFINE n == 8 * len
             k == n + 31 - e
             bits == {i \in 0..(n - 1) : (i % 8) \in OfByte(m[(i \div 8) + 1])}
             top == {n + 31 - i : i \in bits}
  <1>1. Dividend(m) = Xor(top, n..(n + 31))
    BY DEF Dividend
  <1>2. k \in Int /\ n + 31 - k = e
    OBVIOUS
  <1>3. bits \in SUBSET Int /\ (k \in bits <=> k \in 0..(n - 1) /\ (k % 8) \in OfByte(m[(k \div 8) + 1]))
    OBVIOUS
  <1> HIDE DEF bits
  <1>4. e \in top <=> k \in bits
    <2>1. ASSUME e \in top PROVE k \in bits
      <3>1. PICK i \in bits : e = n + 31 - i
        BY <2>1
      <3>2. i \in Int /\ k = i
        BY <3>1, <1>3
      <3> QED BY <3>2
    <2>2. ASSUME k \in bits PROVE e \in top
      BY <2>2, <1>2
    <2> QED BY <2>1, <2>2
  <1> HIDE DEF top
  <1>5. e \in Dividend(m) <=> ~(k \in bits <=> e \in n..(n + 31))
    BY <1>1, <1>4 DEF Xor
  <1> QED BY <1>3, <1>5

LEMMA DividendType ==
    ASSUME NEW m, NEW len \in Nat, Len(m) = len
    PROVE  Dividend(m) \in SUBSET Int
  <1> DEFINE n == 8 * len
             bits == {i \in 0..(n - 1) : (i % 8) \in OfByte(m[(i \div 8) + 1])}
             top == {n + 31 - i : i \in bits}
  <1>1. Dividend(m) = Xor(top, n..(n + 31))
    BY DEF Dividend
  <1>2. bits \in SUBSET Int /\ n \in Int /\ n..(n + 31) \in SUBSET Int
    OBVIOUS
  <1> HIDE DEF bits, n
  <1>3. top \in SUBSET Int
    BY <1>2
  <1> HIDE DEF top
  <1> QED BY <1>1, <1>2, <1>3 DEF Xor

\* A byte at the end of the message: all that was there moves up.
LEMMA DividendAppend ==
    ASSUME NEW m \in Seq(Bytes), NEW b \in Bytes
    PROVE  Dividend(Append(m, b)) = Xor(Up(Dividend(m)), Mirror(OfByte(b), 39))
  <1> DEFINE len == Len(m)
             mb == Append(m, b)
             p == Dividend(m)
             q == Mirror(OfByte(b), 39)
             D == Dividend(mb)
  <1>1. /\ len \in Nat /\ len + 1 \in Nat /\ Len(mb) = len + 1
        /\ \A i \in 1..len : mb[i] = m[i]
        /\ mb[len + 1] = b
    OBVIOUS
  <1>2. p \in SUBSET Int /\ D \in SUBSET Int
    BY <1>1, DividendType
  <1>3. Up(p) \in SUBSET Int /\ \A e \in Int : e \in Up(p) <=> e - 8 \in p
    BY <1>2, UpBit
  <1>4. OfByte(b) \in SUBSET (0..7) /\ OfByte(b) \in SUBSET Int /\ 39 \in Int
    BY OfByteType
  <1>5. q \in SUBSET Int /\ \A e \in Int : e \in q <=> 39 - e \in OfByte(b)
    BY <1>4, MirrorBit
  <1>6. ASSUME NEW e \in Int
        PROVE  LET k == 8 * len + 39 - e
               IN  e \in D <=>
                      ~((k \in 0..(8 * len + 7) /\ (k % 8) \in OfByte(mb[(k \div 8) + 1]))
                           <=> e \in (8 * len + 8)..(8 * len + 39))
    <2>1. /\ 8 * (len + 1) + 31 - e = 8 * len + 39 - e
          /\ 8 * (len + 1) - 1 = 8 * len + 7
          /\ 8 * (len + 1) = 8 * len + 8
          /\ 8 * (len + 1) + 31 = 8 * len + 39
      BY <1>1
    <2> HIDE DEF len, mb
    <2>2. LET k == 8 * (len + 1) + 31 - e
           IN  e \in D <=>
                  ~((k \in 0..(8 * (len + 1) - 1) /\ (k % 8) \in OfByte(mb[(k \div 8) + 1]))
                       <=> e \in (8 * (len + 1))..(8 * (len + 1) + 31))
      BY <1>1, DividendBit
    <2> QED BY <2>1, <2>2
  <1>7. ASSUME NEW e \in Int
        PROVE  LET k == 8 * len + 39 - e
               IN  e - 8 \in p <=>
                      ~((k \in 0..(8 * len - 1) /\ (k % 8) \in OfByte(m[(k \div 8) + 1]))
                           <=> e \in (8 * len + 8)..(8 * len + 39))
    <2>1. /\ e - 8 \in Int
          /\ 8 * len + 31 - (e - 8) = 8 * len + 39 - e
          /\ e - 8 \in (8 * len)..(8 * len + 31) <=> e \in (8 * len + 8)..(8 * len + 39)
      BY <1>1
    <2>2. LET k == 8 * len + 31 - (e - 8)
           IN  e - 8 \in p <=>
                  ~((k \in 0..(8 * len - 1) /\ (k % 8) \in OfByte(m[(k \div 8) + 1]))
                       <=> e - 8 \in (8 * len)..(8 * len + 31))
      BY <1>1, <2>1, DividendBit
    <2> QED BY <2>1, <2>2
  <1> HIDE DEF p, q, D, mb, len
  <1>8. ASSUME NEW e \in Int PROVE e \in D <=> ~(e \in Up(p) <=> e \in q)
    <2> DEFINE k == 8 * len + 39 - e
               A == k \in 0..(8 * len + 7) /\ (k % 8) \in OfByte(mb[(k \div 8) + 1])
               B == k \in 0..(8 * len - 1) /\ (k % 8) \in OfByte(m[(k \div 8) + 1])
    <2>1. k \in Int /\ 39 - e = k - 8 * len
      BY <1>1
    <2>2. A <=> ~(B <=> e \in q)
      <3>1. CASE k \in 0..(8 * len - 1)
        <4>1. (k \div 8) + 1 \in 1..len /\ k \in 0..(8 * len + 7)
          BY <3>1, <1>1
        <4>2. mb[(k \div 8) + 1] = m[(k \div 8) + 1]
          BY <4>1, <1>1
        <4>3. 39 - e \notin OfByte(b)
          BY <2>1, <3>1, <1>1, <1>4
        <4> QED BY <3>1, <4>1, <4>2, <4>3, <1>5
      <3>2. CASE k \in (8 * len)..(8 * len + 7)
        <4>1. /\ (k \div 8) + 1 = len + 1 /\ k % 8 = k - 8 * len
              /\ k \in 0..(8 * len + 7) /\ k \notin 0..(8 * len - 1)
          BY <3>2, <1>1
        <4>2. mb[(k \div 8) + 1] = b
          BY <4>1, <1>1
        <4> QED BY <2>1, <4>1, <4>2, <1>5
      <3>3. CASE k \notin 0..(8 * len + 7)
        <4>1. k \notin 0..(8 * len - 1) /\ 39 - e \notin 0..7
          BY <3>3, <2>1, <1>1
        <4> QED BY <3>3, <4>1, <1>4, <1>5
      <3>4. k \in 0..(8 * len - 1) \/ k \in (8 * len)..(8 * len + 7) \/ k \notin 0..(8 * len + 7)
        BY <2>1, <1>1
      <3> QED BY <3>1, <3>2, <3>3, <3>4
    <2>3. e \in D <=> ~(A <=> e \in (8 * len + 8)..(8 * len + 39))
      BY <1>6
    <2>4. e \in Up(p) <=> ~(B <=> e \in (8 * len + 8)..(8 * len + 39))
      BY <1>3, <1>7
    <2> HIDE DEF A, B, k
    <2> QED BY <2>2, <2>3, <2>4
  <1>9. Xor(Up(p), q) \in SUBSET Int /\ \A e \in Int : e \in Xor(Up(p), q) <=> ~(e \in Up(p) <=> e \in q)
    BY <1>3, <1>5 DEF Xor
  <1>10. D = Xor(Up(p), q)
    BY <1>2, <1>8, <1>9
  <1> QED BY <1>10 DEF D, p, q, mb

LEMMA MirrorOfXor ==
    ASSUME NEW p \in SUBSET (0..31), NEW o \in SUBSET (0..7)
    PROVE  /\ Xor(Up(p), Mirror(o, 39)) \in SUBSET (8..39)
           /\ Mirror(Xor(Up(p), Mirror(o, 39)), 39) = Xor(Mirror(p, 31), o)
           /\ Mirror(p, 31) \in Reg
  <1> DEFINE u == Up(p)
             q == Mirror(o, 39)
             x == Xor(u, q)
             c == Mirror(p, 31)
             w == Mirror(x, 39)
  <1>0. p \in SUBSET Int /\ o \in SUBSET Int /\ 39 \in Int /\ 31 \in Int
    OBVIOUS
  <1>1. u \in SUBSET Int /\ \A e \in Int : e \in u <=> e - 8 \in p
    BY <1>0, UpBit
  <1>2. q \in SUBSET Int /\ \A e \in Int : e \in q <=> 39 - e \in o
    BY <1>0, MirrorBit
  <1>3. c \in SUBSET Int /\ \A e \in Int : e \in c <=> 31 - e \in p
    BY <1>0, MirrorBit
  <1> HIDE DEF u, q, c
  <1>4. x \in SUBSET Int /\ \A e \in Int : e \in x <=> ~(e - 8 \in p <=> 39 - e \in o)
    BY <1>1, <1>2 DEF Xor
  <1> HIDE DEF x
  <1>5. w \in SUBSET Int /\ \A e \in Int : e \in w <=> 39 - e \in x
    BY <1>0, <1>4, MirrorBit
  <1> HIDE DEF w
  <1>6. ASSUME NEW e \in x PROVE e \in 8..39
    <2>1. e \in Int /\ (e - 8 \in p \/ 39 - e \in o)
      BY <1>4
    <2>2. CASE e - 8 \in p
      <3>1. e - 8 \in 0..31
        BY <2>2
      <3> QED BY <2>1, <3>1
    <2>3. CASE 39 - e \in o
      <3>1. 39 - e \in 0..7
        BY <2>3
      <3> QED BY <2>1, <3>1
    <2> QED BY <2>1, <2>2, <2>3
  <1>7. ASSUME NEW e \in Int PROVE e \in w <=> e \in Xor(c, o)
    <2>1. 39 - e \in Int /\ (39 - e) - 8 = 31 - e /\ 39 - (39 - e) = e
      OBVIOUS
    <2>2. e \in w <=> ~(31 - e \in p <=> e \in o)
      BY <2>1, <1>4, <1>5
    <2>3. e \in Xor(c, o) <=> ~(e \in c <=> e \in o)
      BY DEF Xor
    <2> QED BY <2>2, <2>3, <1>3
  <1>8. Xor(c, o) \in SUBSET Int
    BY <1>0, <1>3 DEF Xor
  <1>9. w = Xor(c, o)
    BY <1>5, <1>7, <1>8
  <1>10. c \in Reg
    <2>1. ASSUME NEW e \in c PROVE e \in 0..31
      <3>1. e \in Int /\ 31 - e \in p
        BY <1>3
      <3>2. 31 - e \in 0..31
        BY <3>1
      <3> QED BY <3>1, <3>2
    <2> QED BY <2>1 DEF Reg, Word
  <1> QED BY <1>6, <1>9, <1>10 DEF u, q, x, c, w

\* The first steps of the longer division are those of the shorter one.
LEMMA DivisionPrefix ==
    ASSUME NEW p \in SUBSET Int, NEW q \in SUBSET (32..39), NEW n \in Nat,
           NEW r, IsDivision(r, p, n),
           NEW s, IsDivision(s, Xor(Up(p), q), n + 8)
    PROVE  s[n] = Xor(Up(Remainder(p, n)), q)
  <1> DEFINE Has == {i \in Nat : i <= n => s[i] = Xor(Up(r[i]), q)}
  <1>1. /\ r \in [0..n -> SUBSET Int]
        /\ r[0] = p /\ r[n] = Remainder(p, n)
        /\ \A i \in 1..n : r[i] = Divide(r[i - 1], n + 32 - i)
    BY DEF IsDivision
  <1>2. /\ s[0] = Xor(Up(p), q)
        /\ \A i \in 1..(n + 8) : s[i] = Divide(s[i - 1], (n + 8) + 32 - i)
    BY DEF IsDivision
  <1>3. 0 \in Has
    BY <1>1, <1>2
  <1>4. ASSUME NEW i \in Nat, i \in Has PROVE i + 1 \in Has
    <2> SUFFICES ASSUME i + 1 <= n PROVE s[i + 1] = Xor(Up(r[i + 1]), q)
      OBVIOUS
    <2> DEFINE d == n + 32 - (i + 1)
    <2>1. /\ i <= n /\ i \in 0..n /\ i + 1 \in 1..n /\ i + 1 \in 1..(n + 8)
          /\ (i + 1) - 1 = i
          /\ d \in Int /\ d >= 32 /\ (n + 8) + 32 - (i + 1) = d + 8
      OBVIOUS
    <2>2. r[i] \in SUBSET Int /\ s[i] = Xor(Up(r[i]), q)
      BY <1>1, <1>4, <2>1
    <2>3. r[i + 1] = Divide(r[i], d)
      BY <1>1, <2>1
    <2>4. s[i + 1] = Divide(s[i], d + 8)
      BY <1>2, <2>1
    <2> HIDE DEF d
    <2>5. Divide(Xor(Up(r[i]), q), d + 8) = Xor(Up(Divide(r[i], d)), q)
      BY <2>1, <2>2, DivideUp
    <2> QED BY <2>2, <2>3, <2>4, <2>5
  <1> HIDE DEF Has
  <1>5. n \in Has
    BY <1>3, <1>4, SetInduction
  <1>6. s[n] = Xor(Up(r[n]), q)
    BY <1>5 DEF Has
  <1> QED BY <1>1, <1>6

\* The last eight steps, in the mirror.
LEMMA DivisionLast ==
    ASSUME NEW n \in Nat, NEW p, NEW s, IsDivision(s, p, n + 8),
           s[n] \in SUBSET (8..39)
    PROVE  /\ Remainder(p, n + 8) \in SUBSET (0..31)
           /\ Mirror(Remainder(p, n + 8), 31) = Eight(Mirror(s[n], 39))
  <1> DEFINE InStep(t, c) == s[n + t] \in SUBSET ((8 - t)..(39 - t)) /\ Mirror(s[n + t], 39 - t) = c
             c0 == Mirror(s[n], 39)
             c1 == Step(c0)
             c2 == Step(c1)
             c3 == Step(c2)
             c4 == Step(c3)
             c5 == Step(c4)
             c6 == Step(c5)
             c7 == Step(c6)
             c8 == Step(c7)
  <1>1. ASSUME NEW t \in 0..7, NEW c, InStep(t, c) PROVE InStep(t + 1, Step(c))
    <2> DEFINE d == 39 - t
               P == s[n + t]
    <2>1. /\ n + t + 1 \in 1..(n + 8) /\ (n + t + 1) - 1 = n + t
          /\ (n + 8) + 32 - (n + t + 1) = d /\ n + (t + 1) = n + t + 1
          /\ d \in Int /\ d - 31 = 8 - t /\ d - 32 = 8 - (t + 1) /\ d - 1 = 39 - (t + 1)
      OBVIOUS
    <2>2. s[n + t + 1] = Divide(P, d)
      BY <2>1 DEF IsDivision
    <2>3. P \in SUBSET ((d - 31)..d) /\ Mirror(P, d) = c
      BY <1>1, <2>1
    <2> HIDE DEF d, P
    <2>4. Divide(P, d) \in SUBSET ((d - 32)..(d - 1)) /\ Mirror(Divide(P, d), d - 1) = Step(c)
      BY <2>1, <2>3, DivideMirror
    <2> QED BY <2>1, <2>2, <2>4
  <1>2. InStep(0, c0)
    <2>1. n + 0 = n /\ 8 - 0 = 8 /\ 39 - 0 = 39
      OBVIOUS
    <2> QED BY <2>1
  <1>3. Eight(Mirror(s[n], 39)) = c8
    BY DEF Eight
  <1>4. s[n + 8] = Remainder(p, n + 8) /\ 8 - 8 = 0 /\ 39 - 8 = 31
    BY DEF IsDivision
  <1> HIDE DEF InStep, c0
  <1>5. InStep(1, c1)
    <2>1. 0 \in 0..7 /\ 0 + 1 = 1
      OBVIOUS
    <2> QED BY <2>1, <1>1, <1>2
  <1> HIDE DEF c1
  <1>6. InStep(2, c2)
    <2>1. 1 \in 0..7 /\ 1 + 1 = 2
      OBVIOUS
    <2> QED BY <2>1, <1>1, <1>5
  <1> HIDE DEF c2
  <1>7. InStep(3, c3)
    <2>1. 2 \in 0..7 /\ 2 + 1 = 3
      OBVIOUS
    <2> QED BY <2>1, <1>1, <1>6
  <1> HIDE DEF c3
  <1>8. InStep(4, c4)
    <2>1. 3 \in 0..7 /\ 3 + 1 = 4
      OBVIOUS
    <2> QED BY <2>1, <1>1, <1>7
  <1> HIDE DEF c4
  <1>9. InStep(5, c5)
    <2>1. 4 \in 0..7 /\ 4 + 1 = 5
      OBVIOUS
    <2> QED BY <2>1, <1>1, <1>8
  <1> HIDE DEF c5
  <1>10. InStep(6, c6)
    <2>1. 5 \in 0..7 /\ 5 + 1 = 6
      OBVIOUS
    <2> QED BY <2>1, <1>1, <1>9
  <1> HIDE DEF c6
  <1>11. InStep(7, c7)
    <2>1. 6 \in 0..7 /\ 6 + 1 = 7
      OBVIOUS
    <2> QED BY <2>1, <1>1, <1>10
  <1> HIDE DEF c7
  <1>12. InStep(8, c8)
    <2>1. 7 \in 0..7 /\ 7 + 1 = 8
      OBVIOUS
    <2> QED BY <2>1, <1>1, <1>11
  <1> HIDE DEF c8
  <1> QED BY <1>3, <1>4, <1>12 DEF InStep

\* One more byte of the message is one turn of the loop.
LEMMA RestAppend ==
    ASSUME NEW m \in Seq(Bytes), NEW b \in Bytes, Rest(m) \in SUBSET (0..31)
    PROVE  /\ Rest(Append(m, b)) \in SUBSET (0..31)
           /\ Mirror(Rest(m), 31) \in Reg
           /\ Mirror(Rest(Append(m, b)), 31) = UpdateByte(Mirror(Rest(m), 31), b)
  <1> DEFINE n == 8 * Len(m)
             p == Dividend(m)
             o == OfByte(b)
             q == Mirror(o, 39)
             P == Dividend(Append(m, b))
             R == Rest(m)
             T == Rest(Append(m, b))
  <1>1. Len(m) \in Nat /\ n \in Nat /\ 8 * Len(Append(m, b)) = n + 8
    OBVIOUS
  <1>2. R = Remainder(p, n) /\ T = Remainder(P, n + 8)
    BY <1>1 DEF Rest
  <1>3. p \in SUBSET Int
    BY <1>1, DividendType
  <1>4. o \in SUBSET (0..7) /\ o \in SUBSET Int /\ 39 \in Int
    BY OfByteType
  <1>5. P = Xor(Up(p), q)
    BY DividendAppend
  <1> HIDE DEF n, p, o, P, R, T
  <1>6. q \in SUBSET (32..39)
    <2>1. q \in SUBSET Int /\ \A e \in Int : e \in q <=> 39 - e \in o
      BY <1>4, MirrorBit
    <2> HIDE DEF q
    <2>2. ASSUME NEW e \in q PROVE e \in 32..39
      <3>1. e \in Int /\ 39 - e \in 0..7
        BY <2>1, <1>4
      <3> QED BY <3>1
    <2> QED BY <2>2
  <1> HIDE DEF q
  <1>7. P \in SUBSET Int
    <2>1. q \in SUBSET Int
      BY <1>6
    <2> QED BY <2>1, <1>3, <1>5, UpBit DEF Xor
  <1>8. PICK r : IsDivision(r, p, n)
    BY <1>1, <1>3, DivisionRun
  <1>9. PICK s : IsDivision(s, P, n + 8)
    <2>1. n + 8 \in Nat
      BY <1>1
    <2> QED BY <2>1, <1>7, DivisionRun
  <1>10. s[n] = Xor(Up(R), q)
    <2>1. IsDivision(s, Xor(Up(p), q), n + 8)
      BY <1>5, <1>9
    <2> QED BY <2>1, <1>1, <1>2, <1>3, <1>6, <1>8, DivisionPrefix
  <1>11. R \in SUBSET (0..31)
    BY DEF R
  <1>12. /\ Xor(Up(R), Mirror(o, 39)) \in SUBSET (8..39)
         /\ Mirror(Xor(Up(R), Mirror(o, 39)), 39) = Xor(Mirror(R, 31), o)
         /\ Mirror(R, 31) \in Reg
    BY <1>4, <1>11, MirrorOfXor
  <1>13. s[n] \in SUBSET (8..39) /\ Mirror(s[n], 39) = Xor(Mirror(R, 31), o)
    BY <1>10, <1>12 DEF q
  <1>14. T \in SUBSET (0..31) /\ Mirror(T, 31) = Eight(Mirror(s[n], 39))
    BY <1>1, <1>2, <1>9, <1>13, DivisionLast
  <1>15. UpdateByte(Mirror(R, 31), b) = Eight(Xor(Mirror(R, 31), o))
    BY <1>12, UpdateByteIs DEF o
  <1> QED BY <1>12, <1>13, <1>14, <1>15 DEF R, T

LEMMA RestEmpty == Rest(<<>>) = 0..31 /\ Mirror(Rest(<<>>), 31) = NewCrc
  <1>1. Len(<<>>) = 0 /\ 8 * 0 = 0 /\ 0 \in Nat
    OBVIOUS
  <1>2. Dividend(<<>>) = 0..31
    <2>1. Dividend(<<>>) \in SUBSET Int
      BY <1>1, DividendType
    <2>2. ASSUME NEW e \in Int PROVE e \in Dividend(<<>>) <=> e \in 0..31
      <3>1. LET k == 8 * 0 + 31 - e
            IN  e \in Dividend(<<>>) <=>
                   ~((k \in 0..(8 * 0 - 1) /\ (k % 8) \in OfByte(<<>>[(k \div 8) + 1]))
                        <=> e \in (8 * 0)..(8 * 0 + 31))
        BY <1>1, DividendBit
      <3>2. 8 * 0 + 31 - e \notin 0..(8 * 0 - 1) /\ (8 * 0)..(8 * 0 + 31) = 0..31
        OBVIOUS
      <3> QED BY <3>1, <3>2
    <2>3. 0..31 \in SUBSET Int
      OBVIOUS
    <2> QED BY <2>1, <2>2, <2>3
  <1>3. Rest(<<>>) = Dividend(<<>>)
    <2>1. Rest(<<>>) = Remainder(Dividend(<<>>), 0)
      BY <1>1 DEF Rest
    <2>2. PICK r : IsDivision(r, Dividend(<<>>), 0)
      <3>1. Dividend(<<>>) \in SUBSET Int
        BY <1>1, DividendType
      <3> QED BY <3>1, <1>1, DivisionRun
    <2> QED BY <2>1, <2>2 DEF IsDivision
  <1>4. Mirror(0..31, 31) = 0..31
    <2>1. 0..31 \in SUBSET Int /\ 31 \in Int
      OBVIOUS
    <2>2. Mirror(0..31, 31) \in SUBSET Int /\ \A e \in Int : e \in Mirror(0..31, 31) <=> 31 - e \in 0..31
      BY <2>1, MirrorBit
    <2>3. \A e \in Int : 31 - e \in 0..31 <=> e \in 0..31
      OBVIOUS
    <2> QED BY <2>1, <2>2, <2>3
  <1> QED BY <1>2, <1>3, <1>4 DEF NewCrc, Word

\* The reference of any message is what the loop computes on it, from any cut.
LEMMA RestUpdate ==
    ASSUME NEW m \in Seq(Bytes), NEW n \in Nat, NEW buf \in [1..n -> Bytes],
           Rest(m) \in SUBSET (0..31)
    PROVE  /\ Rest(m \o buf) \in SUBSET (0..31)
           /\ Mirror(Rest(m), 31) \in Reg
           /\ Mirror(Rest(m \o buf), 31) = Update(Mirror(Rest(m), 31), buf)
  <1> DEFINE c == Mirror(Rest(m), 31)
             Part(i) == m \o SubSeq(buf, 1, i)
  <1>1. c \in Reg
    <2>1. {} \in SUBSET (0..7)
      OBVIOUS
    <2> QED BY <2>1, MirrorOfXor
  <1> HIDE DEF c
  <1>2. DOMAIN buf = 1..n /\ buf \in Seq(Bytes) /\ Len(buf) = n
    OBVIOUS
  <1>3. PICK r : IsUpdate(r, c, n, buf)
    BY <1>1, <1>2, UpdateRun
  <1>4. /\ r[0] = c /\ r[n] = Update(c, buf)
        /\ \A i \in 1..n : r[i] = UpdateByte(r[i - 1], buf[i])
    BY <1>3 DEF IsUpdate
  <1>5. Part(0) = m /\ Part(n) = m \o buf
    BY <1>2
  <1>6. ASSUME NEW i \in Nat, i + 1 <= n
        PROVE  /\ Part(i) \in Seq(Bytes) /\ buf[i + 1] \in Bytes
               /\ Part(i + 1) = Append(Part(i), buf[i + 1])
    BY <1>2, <1>6
  <1> HIDE DEF Part
  <1> DEFINE Has == {i \in Nat : i <= n => /\ Rest(Part(i)) \in SUBSET (0..31)
                                           /\ Mirror(Rest(Part(i)), 31) = r[i]}
  <1>7. 0 \in Has
    BY <1>4, <1>5 DEF c
  <1>8. ASSUME NEW i \in Nat, i \in Has PROVE i + 1 \in Has
    <2> SUFFICES ASSUME i + 1 <= n
                 PROVE  /\ Rest(Part(i + 1)) \in SUBSET (0..31)
                        /\ Mirror(Rest(Part(i + 1)), 31) = r[i + 1]
      OBVIOUS
    <2>1. i <= n /\ i + 1 \in 1..n /\ (i + 1) - 1 = i
      OBVIOUS
    <2>2. Rest(Part(i)) \in SUBSET (0..31) /\ Mirror(Rest(Part(i)), 31) = r[i]
      BY <1>8, <2>1
    <2>3. r[i + 1] = UpdateByte(r[i], buf[i + 1])
      BY <1>4, <2>1
    <2> QED BY <2>2, <2>3, <1>6, RestAppend
  <1> HIDE DEF Has
  <1>9. n \in Has
    BY <1>7, <1>8, SetInduction
  <1>10. Rest(Part(n)) \in SUBSET (0..31) /\ Mirror(Rest(Part(n)), 31) = r[n]
    BY <1>9 DEF Has
  <1> QED BY <1>1, <1>4, <1>5, <1>10 DEF c

-----------------------------------------------------------------------------
(* The register of the code, the register of the damaged copy and the        *)
(* reference, for every message.                                             *)

LEMMA UpdateType ==
    ASSUME NEW c \in Reg, NEW n \in Nat, NEW buf, DOMAIN buf = 1..n
    PROVE  Update(c, buf) \in Reg
  <1>1. PICK r : IsUpdate(r, c, n, buf)
    BY UpdateRun
  <1> QED BY <1>1 DEF IsUpdate

\* The messages have the same length, and the registers 32 bits.
CrcType ==
    /\ message \in Seq(Bytes) /\ copy \in Seq(Bytes) /\ Len(copy) = Len(message)
    /\ crc \in Reg /\ copyCrc \in Reg

\* The inductive invariant: the register is the remainder in the mirror, and the
\* registers agree exactly when the messages do.
CrcInv ==
    /\ CrcType
    /\ Rest(message) \in SUBSET (0..31) /\ crc = Mirror(Rest(message), 31)
    /\ copyCrc = crc <=> copy = message

LEMMA BufferType ==
    ASSUME NEW buf \in Buffers
    PROVE  /\ Len(buf) \in 1..4 /\ Len(buf) \in Nat /\ buf \in Seq(Bytes)
           /\ DOMAIN buf = 1..Len(buf)
           /\ buf \in [1..Len(buf) -> Bytes] /\ buf \in [1..Len(buf) -> 0..255]
  <1>1. PICK n \in 1..Damaged : buf \in [1..n -> Bytes]
    BY DEF Buffers
  <1>2. n \in Nat /\ n \in 1..4
    BY DamagedAssumption
  <1>3. buf \in Seq(Bytes) /\ Len(buf) = n
    BY <1>1, <1>2
  <1>4. buf \in [1..n -> 0..255]
    BY <1>1, BytesAssumption
  <1> QED BY <1>1, <1>2, <1>3, <1>4

LEMMA CrcStart == CrcInit => CrcInv
  <1> SUFFICES ASSUME CrcInit PROVE CrcInv
    OBVIOUS
  <1>1. message = <<>> /\ copy = <<>> /\ crc = NewCrc /\ copyCrc = NewCrc
    BY DEF CrcInit
  <1>2. NewCrc \in Reg
    BY DEF NewCrc, Reg
  <1>3. CrcType
    BY <1>1, <1>2 DEF CrcType
  <1>4. Rest(<<>>) \in SUBSET (0..31)
    BY RestEmpty
  <1> QED BY <1>1, <1>3, <1>4, RestEmpty DEF CrcInv

LEMMA CrcNextKeeps == CrcInv /\ [CrcNext]_crcVars => CrcInv'
  <1> SUFFICES ASSUME CrcInv, [CrcNext]_crcVars PROVE CrcInv'
    OBVIOUS
  <1>1. /\ message \in Seq(Bytes) /\ copy \in Seq(Bytes) /\ Len(copy) = Len(message)
        /\ crc \in Reg /\ copyCrc \in Reg
        /\ Rest(message) \in SUBSET (0..31) /\ crc = Mirror(Rest(message), 31)
        /\ copyCrc = crc <=> copy = message
    BY DEF CrcInv, CrcType
  <1>2. ASSUME NEW buf \in Buffers, message' = message \o buf, crc' = Update(crc, buf)
        PROVE  /\ Rest(message') \in SUBSET (0..31) /\ crc' = Mirror(Rest(message'), 31)
               /\ message' \in Seq(Bytes) /\ crc' \in Reg
    <2>1. Len(buf) \in Nat /\ buf \in [1..Len(buf) -> Bytes] /\ buf \in Seq(Bytes) /\ DOMAIN buf = 1..Len(buf)
      BY BufferType
    <2>2. Update(crc, buf) \in Reg
      BY <2>1, <1>1, UpdateType
    <2>3. /\ Rest(message \o buf) \in SUBSET (0..31)
          /\ Mirror(Rest(message \o buf), 31) = Update(Mirror(Rest(message), 31), buf)
      BY <2>1, <1>1, RestUpdate
    <2>4. message \o buf \in Seq(Bytes)
      BY <2>1, <1>1
    <2> QED BY <1>1, <1>2, <2>2, <2>3, <2>4
  <1>3. ASSUME NEW buf \in Buffers, Feed(buf) PROVE CrcInv'
    <2>1. /\ message' = message \o buf /\ crc' = Update(crc, buf)
          /\ copy' = copy \o buf /\ copyCrc' = Update(copyCrc, buf)
      BY <1>3 DEF Feed
    <2>2. Len(buf) \in Nat /\ buf \in Seq(Bytes) /\ DOMAIN buf = 1..Len(buf)
      BY BufferType
    <2>3. /\ copy \o buf \in Seq(Bytes) /\ Len(copy \o buf) = Len(message \o buf)
          /\ copy \o buf = message \o buf <=> copy = message
      <3>1. copy \o buf \in Seq(Bytes) /\ Len(copy \o buf) = Len(message \o buf)
        BY <2>2, <1>1
      <3>2. ASSUME copy \o buf = message \o buf PROVE copy = message
        <4>1. \A i \in 1..Len(message) : (copy \o buf)[i] = copy[i] /\ (message \o buf)[i] = message[i]
          BY <1>1, <2>2
        <4> QED BY <4>1, <3>2, <1>1
      <3> QED BY <3>1, <3>2
    <2>4. copyCrc' \in Reg
      BY <2>1, <2>2, <1>1, UpdateType
    <2>5. Update(copyCrc, buf) = Update(crc, buf) <=> copyCrc = crc
      BY <2>2, <1>1, UpdateDiffers
    <2> QED BY <2>1, <2>3, <2>4, <2>5, <1>1, <1>2 DEF CrcInv, CrcType
  <1>4. ASSUME NEW buf \in Buffers, NEW bad \in Buffers, Damage(buf, bad) PROVE CrcInv'
    <2>1. /\ message' = message \o buf /\ crc' = Update(crc, buf)
          /\ copy' = copy \o bad /\ copyCrc' = Update(copyCrc, bad)
          /\ copy = message /\ Len(bad) = Len(buf) /\ bad # buf
      BY <1>4 DEF Damage
    <2>2. /\ Len(buf) \in Nat /\ Len(buf) \in 1..4
          /\ buf \in Seq(Bytes) /\ bad \in Seq(Bytes) /\ DOMAIN bad = 1..Len(buf)
          /\ buf \in [1..Len(buf) -> 0..255] /\ bad \in [1..Len(buf) -> 0..255]
      <3>1. /\ Len(buf) \in Nat /\ Len(buf) \in 1..4 /\ buf \in Seq(Bytes)
            /\ buf \in [1..Len(buf) -> 0..255]
        BY BufferType
      <3>2. /\ bad \in Seq(Bytes) /\ DOMAIN bad = 1..Len(bad)
            /\ bad \in [1..Len(bad) -> 0..255]
        BY BufferType
      <3> QED BY <3>1, <3>2, <2>1
    <2>3. /\ copy \o bad \in Seq(Bytes) /\ Len(copy \o bad) = Len(message \o buf)
          /\ copy \o bad # message \o buf
      <3>1. copy \o bad \in Seq(Bytes) /\ Len(copy \o bad) = Len(message \o buf)
        <4>1. Len(copy \o bad) = Len(copy) + Len(bad) /\ Len(message \o buf) = Len(message) + Len(buf)
          BY <2>2, <1>1
        <4>2. copy \o bad \in Seq(Bytes)
          BY <2>2, <1>1
        <4> QED BY <4>1, <4>2, <2>1, <1>1
      <3>2. PICK i \in 1..Len(buf) : bad[i] # buf[i]
        BY <2>1, <2>2
      <3>3. (message \o bad)[Len(message) + i] = bad[i] /\ (message \o buf)[Len(message) + i] = buf[i]
        BY <2>1, <2>2, <1>1
      <3> QED BY <2>1, <3>1, <3>2, <3>3
    <2>4. copyCrc' \in Reg
      BY <2>1, <2>2, <1>1, UpdateType
    <2>5. copyCrc = crc
      BY <2>1, <1>1
    <2>6. Update(crc, bad) # Update(crc, buf)
      <3> DEFINE n == Len(buf)
      <3>1. n \in 1..4 /\ buf \in [1..n -> 0..255] /\ bad \in [1..n -> 0..255]
        BY <2>2
      <3> HIDE DEF n
      <3>0. crc \in Reg
        BY <1>1
      <3>2. Update(crc, bad) = Update(crc, buf) => bad = buf
        BY <3>0, <3>1, BurstDiffers
      <3> QED BY <3>2, <2>1
    <2> QED BY <2>1, <2>3, <2>4, <2>5, <2>6, <1>1, <1>2 DEF CrcInv, CrcType
  <1>5. CASE UNCHANGED crcVars
    BY <1>5 DEF CrcInv, CrcType, crcVars
  <1>6. CASE CrcNext
    BY <1>3, <1>4, <1>6 DEF CrcNext
  <1> QED BY <1>5, <1>6

LEMMA CrcAlways == CrcSpec => []CrcInv
  BY CrcStart, CrcNextKeeps, PTL DEF CrcSpec

\* For messages of any length and pieces of any lengths, the table-driven loop
\* computes the remainder of the division by the generator
\* (snapshot.rs:48-91).
THEOREM CrcAlwaysCorrect == CrcSpec => []CrcCorrect
  <1>1. CrcInv => CrcCorrect
    <2> SUFFICES ASSUME CrcInv PROVE CrcCorrect
      OBVIOUS
    <2> DEFINE w == Mirror(Rest(message), 31)
    <2>1. crc = w /\ crc \in Reg
      BY DEF CrcInv, CrcType
    <2>2. Crc32(message) = Word \ w
      BY DEF Crc32, Mirror, Rest
    <2> HIDE DEF w
    <2>3. Finish(crc) = Word \ crc
      BY <2>1 DEF Finish, Xor, Reg
    <2> QED BY <2>1, <2>2, <2>3 DEF CrcCorrect
  <1> QED BY <1>1, CrcAlways, PTL

\* Damage to at most four consecutive bytes changes the checksum, wherever in
\* a message of any length it falls (snapshot.rs:510-516, 572-578).
THEOREM DamageAlwaysDetected == CrcSpec => []DamageDetected
  <1>1. CrcInv => DamageDetected
    <2> SUFFICES ASSUME CrcInv, copy # message PROVE Finish(copyCrc) # Finish(crc)
      BY DEF DamageDetected
    <2>1. copyCrc # crc /\ copyCrc \in Reg /\ crc \in Reg
      BY DEF CrcInv, CrcType
    <2> QED BY <2>1 DEF Finish, Xor, Reg
  <1> QED BY <1>1, CrcAlways, PTL
=============================================================================
