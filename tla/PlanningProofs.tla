----------------------------- MODULE PlanningProofs -----------------------------
(***************************************************************************)
(* Theorems about Planning, for any appointments, customers and days.  The *)
(* invariant is little more than types; what the proofs take is the        *)
(* calendar: that its months follow each other without gap, that every day *)
(* is in one of them, and that months can be added to a later day without  *)
(* coming out earlier.  That is induction over the months, which           *)
(* LeastElement supplies.                                                  *)
(* And about Paging, for any rows, keys and page size: Lost, the untouched *)
(* rows that the pages read so far have passed by, grows with a change by  *)
(* one row per edge between a page that is read and one that is not.       *)
(***************************************************************************)
EXTENDS Planning, Paging, WellFoundedInduction, FiniteSetTheorems, FunctionTheorems, TLAPS
-----------------------------------------------------------------------------
(* Induction: a set of numbers has a least element, and a bounded one a      *)
(* greatest.                                                                 *)

LEMMA LeastElement ==
  ASSUME NEW T, T \subseteq Nat, T # {}
  PROVE  \E x \in T : \A y \in T : x <= y
<1> DEFINE R == OpToRel(<, Nat)
<1>1. IsWellFoundedOn(R, Nat) BY NatLessThanWellFounded
<1>2. \A x, y \in Nat : <<y, x>> \in R <=> y < x BY DEF OpToRel
<1> HIDE DEF R
<1>3. PICK x \in T : \A y \in T : ~ (<<y, x>> \in R) BY <1>1, WFMin
<1>4. \A y \in T : x \in Nat /\ y \in Nat /\ ~(y < x) BY <1>2, <1>3
<1>5. \A y \in T : x <= y BY <1>4
<1> QED BY <1>5

LEMMA GreatestElement ==
  ASSUME NEW bound \in Int, NEW T, T \subseteq Int, T # {}, \A x \in T : x <= bound
  PROVE  \E x \in T : \A y \in T : x >= y
<1> DEFINE below == {bound - x : x \in T}
<1>1. below \subseteq Nat /\ below # {}
  <2>1. \A x \in T : bound - x \in Nat
    <3>1. \A x \in Int : x <= bound => bound - x \in Nat OBVIOUS
    <3> QED BY <3>1
  <2> QED BY <2>1
<1> HIDE DEF below
<1>2. PICK d \in below : \A e \in below : d <= e BY <1>1, LeastElement
<1> USE DEF below
<1>3. PICK x \in T : d = bound - x OBVIOUS
<1>4. ASSUME NEW y \in T PROVE x >= y
  <2>1. d <= bound - y BY <1>2
  <2> QED BY <1>3, <2>1
<1> QED BY <1>3, <1>4

-----------------------------------------------------------------------------
(* The calendar.                                                             *)

LEMMA MonthLengths == ASSUME NEW m \in Month PROVE MonthLength(m) \in 28 .. 31
BY DEF MonthLength

LEMMA MonthStarts ==
  ASSUME NEW m \in Month
  PROVE  /\ MonthStart[m] \in Nat
         /\ m + 1 \in Month => MonthStart[m + 1] = MonthStart[m] + MonthLength(m)
<1> DEFINE year(n) == n \div 12
           of(n) == n % 12
           leaps(y) == (y + 3) \div 4
           leap(y, k) == IF y % 4 = 0 /\ k >= 2 THEN 1 ELSE 0
<1>1. \A n \in Month : MonthStart[n] =
        365 * year(n) + leaps(year(n)) + DaysBefore[of(n) + 1] + leap(year(n), of(n))
  BY DEF MonthStart
<1>2. /\ DaysBefore[1] = 0 /\ DaysBefore[2] = 31 /\ DaysBefore[3] = 59 /\ DaysBefore[4] = 90
      /\ DaysBefore[5] = 120 /\ DaysBefore[6] = 151 /\ DaysBefore[7] = 181 /\ DaysBefore[8] = 212
      /\ DaysBefore[9] = 243 /\ DaysBefore[10] = 273 /\ DaysBefore[11] = 304
      /\ DaysBefore[12] = 334
  BY DEF DaysBefore
<1>3. m \in Nat BY CalendarAssumption DEF Month
<1>4. /\ year(m) \in Nat /\ of(m) \in 0 .. 11
      /\ year(m + 1) = IF of(m) = 11 THEN year(m) + 1 ELSE year(m)
      /\ of(m + 1) = IF of(m) = 11 THEN 0 ELSE of(m) + 1
  BY <1>3
<1>5. MonthLength(m) = IF of(m) = 1 THEN (IF year(m) % 4 = 0 THEN 29 ELSE 28)
                       ELSE IF of(m) \in {3, 5, 8, 10} THEN 30 ELSE 31
  BY DEF MonthLength
<1>6. \A y \in Nat : leaps(y) \in Nat /\ leaps(y + 1) = leaps(y) + (IF y % 4 = 0 THEN 1 ELSE 0)
  OBVIOUS
<1> HIDE DEF year, of, leaps
<1>7. MonthStart[m] \in Nat BY <1>1, <1>2, <1>4, <1>6
<1>8. ASSUME m + 1 \in Month PROVE MonthStart[m + 1] = MonthStart[m] + MonthLength(m)
  <2>1. CASE of(m) = 11
    <3>1. /\ MonthStart[m] = 365 * year(m) + leaps(year(m)) + 334 + leap(year(m), 11)
          /\ MonthStart[m + 1] = 365 * (year(m) + 1) + leaps(year(m) + 1) + 0 + leap(year(m) + 1, 0)
      BY <1>1, <1>2, <1>4, <1>8, <2>1
    <3>2. MonthLength(m) = 31 BY <1>5, <2>1
    <3>3. leap(year(m) + 1, 0) = 0 /\ leap(year(m), 11) = IF year(m) % 4 = 0 THEN 1 ELSE 0
      OBVIOUS
    <3>4. leaps(year(m)) \in Nat /\ leaps(year(m) + 1) = leaps(year(m)) + leap(year(m), 11)
      BY <1>4, <1>6, <3>3
    <3>5. 365 * (year(m) + 1) = 365 * year(m) + 365 BY <1>4
    <3>6. leap(year(m), 11) \in {0, 1} /\ 365 * year(m) \in Nat BY <1>4
    <3> HIDE DEF leap
    <3> QED BY <3>1, <3>2, <3>3, <3>4, <3>5, <3>6
  <2>2. CASE of(m) # 11 BY <1>1, <1>2, <1>4, <1>5, <1>6, <1>8, <2>2
  <2> QED BY <2>1, <2>2
<1> QED BY <1>7, <1>8

LEMMA MonthsInOrder ==
  ASSUME NEW m \in Month, NEW n \in Month, m < n
  PROVE  MonthStart[m] + MonthLength(m) <= MonthStart[n]
<1> DEFINE T == {k \in Month : m < k /\ ~(MonthStart[m] + MonthLength(m) <= MonthStart[k])}
<1> SUFFICES ASSUME T # {} PROVE FALSE OBVIOUS
<1>1. Month \subseteq Nat BY CalendarAssumption DEF Month
<1>2. PICK k \in T : \A l \in T : k <= l BY <1>1, LeastElement
<1>3. k - 1 \in Month /\ m <= k - 1 /\ k = (k - 1) + 1 BY <1>1, <1>2, CalendarAssumption DEF Month
<1>4. MonthStart[k] = MonthStart[k - 1] + MonthLength(k - 1) /\ MonthStart[k - 1] \in Nat
  BY <1>2, <1>3, MonthStarts
<1>5. MonthStart[m] \in Nat /\ MonthLength(m) \in Nat /\ MonthLength(k - 1) \in Nat
  BY <1>3, MonthStarts, MonthLengths
<1>6. CASE m = k - 1 BY <1>2, <1>4, <1>5, <1>6
<1>7. CASE m # k - 1
  <2>1. k - 1 \notin T BY <1>1, <1>2, <1>3
  <2>2. MonthStart[m] + MonthLength(m) <= MonthStart[k - 1] BY <1>1, <1>3, <1>7, <2>1
  <2> QED BY <1>2, <1>4, <1>5, <2>2
<1> QED BY <1>6, <1>7

InMonth(day, m) == MonthStart[m] <= day /\ day < MonthStart[m] + MonthLength(m)

LEMMA OneMonth ==
  ASSUME NEW day \in CalendarDays
  PROVE  /\ MonthOf(day) \in Month /\ InMonth(day, MonthOf(day))
         /\ \A m \in Month : InMonth(day, m) => m = MonthOf(day)
<1>1. LastMonth \in Month /\ 0 \in Month /\ Month \subseteq Nat /\ \A m \in Month : m <= LastMonth
  BY CalendarAssumption DEF Month
<1>2. day \in Nat /\ day < MonthStart[LastMonth] + MonthLength(LastMonth)
  BY <1>1, MonthStarts, MonthLengths DEF CalendarDays
<1>3. \E m \in Month : InMonth(day, m)
  <2> DEFINE T == {m \in Month : MonthStart[m] <= day}
  <2>1. MonthStart[0] = 0 BY <1>1 DEF MonthStart, DaysBefore
  <2>2. 0 \in T BY <1>1, <1>2, <2>1
  <2>3. PICK m \in T : \A n \in T : m >= n
    <3>1. T \subseteq Nat /\ \A n \in T : n <= LastMonth BY <1>1
    <3>2. T # {} /\ LastMonth \in Int BY <2>2, CalendarAssumption
    <3> HIDE DEF T
    <3>3. T \subseteq Int BY <3>1
    <3> QED BY <3>1, <3>2, <3>3, GreatestElement
  <2>4. CASE m = LastMonth BY <1>2, <2>3, <2>4 DEF InMonth
  <2>5. CASE m # LastMonth
    <3>1. m + 1 \in Month BY <1>1, <2>5, CalendarAssumption DEF Month
    <3>2. m + 1 \notin T BY <1>1, <2>3
    <3>3. ~(MonthStart[m + 1] <= day) BY <3>1, <3>2
    <3>4. /\ MonthStart[m + 1] = MonthStart[m] + MonthLength(m)
          /\ MonthStart[m + 1] \in Nat
      BY <3>1, MonthStarts
    <3>5. day < MonthStart[m + 1] BY <1>2, <3>3, <3>4
    <3> QED BY <2>3, <3>4, <3>5 DEF InMonth
  <2> QED BY <2>4, <2>5
<1>4. MonthOf(day) \in Month /\ InMonth(day, MonthOf(day)) BY <1>3 DEF MonthOf, InMonth
<1>5. ASSUME NEW m \in Month, NEW n \in Month, InMonth(day, m), InMonth(day, n), m < n PROVE FALSE
  <2>1. MonthStart[m] + MonthLength(m) <= MonthStart[n] BY <1>5, MonthsInOrder
  <2>2. MonthStart[m] \in Nat /\ MonthLength(m) \in Nat /\ MonthStart[n] \in Nat
    BY MonthStarts, MonthLengths
  <2> QED BY <1>2, <1>5, <2>1, <2>2 DEF InMonth
<1>6. ASSUME NEW m \in Month, InMonth(day, m) PROVE m = MonthOf(day)
  <2>1. m \in Nat /\ MonthOf(day) \in Nat BY <1>1, <1>4
  <2>2. m < MonthOf(day) \/ m = MonthOf(day) \/ MonthOf(day) < m BY <2>1
  <2> QED BY <1>4, <1>5, <1>6, <2>2
<1> QED BY <1>4, <1>6

\* Later days are in later months.
LEMMA MonthsFollowDays ==
  ASSUME NEW day \in CalendarDays, NEW later \in CalendarDays, day <= later
  PROVE  MonthOf(day) <= MonthOf(later)
<1> SUFFICES ASSUME ~(MonthOf(day) <= MonthOf(later)) PROVE FALSE OBVIOUS
<1>1. Month \subseteq Nat /\ CalendarDays \subseteq Int BY CalendarAssumption DEF Month, CalendarDays
<1>2. MonthOf(later) < MonthOf(day)
  <2>1. MonthOf(later) \in Nat /\ MonthOf(day) \in Nat BY <1>1, OneMonth
  <2> QED BY <2>1
<1>3. MonthStart[MonthOf(later)] + MonthLength(MonthOf(later)) <= MonthStart[MonthOf(day)]
  BY <1>2, OneMonth, MonthsInOrder
<1>4. /\ MonthStart[MonthOf(later)] \in Nat /\ MonthLength(MonthOf(later)) \in Nat
      /\ MonthStart[MonthOf(day)] \in Nat
  BY OneMonth, MonthStarts, MonthLengths
<1>5. later < MonthStart[MonthOf(later)] + MonthLength(MonthOf(later))
      /\ MonthStart[MonthOf(day)] <= day
  BY OneMonth DEF InMonth
<1> QED BY <1>1, <1>3, <1>4, <1>5

-----------------------------------------------------------------------------
(* Next maintenance: later work has no earlier successor.                    *)

LEMMA MinOfTwo ==
  ASSUME NEW x \in Int, NEW y \in Int
  PROVE  Min({x, y}) = IF x <= y THEN x ELSE y
<1>1. \E z \in {x, y} : \A w \in {x, y} : z <= w BY x <= y \/ y <= x
<1>2. Min({x, y}) \in {x, y} /\ \A w \in {x, y} : Min({x, y}) <= w BY <1>1 DEF Min
<1>3. Min({x, y}) <= x /\ Min({x, y}) <= y /\ (Min({x, y}) = x \/ Min({x, y}) = y) BY <1>2
<1> HIDE DEF Min
<1> QED BY <1>3

Instant == 0 .. At(LastDay) + 1

LEMMA InstantDays ==
  ASSUME NEW a \in Instant
  PROVE  a \in Nat /\ DayOf(a) \in CalendarDays /\ DayOf(a) \in 0 .. LastDay
<1>1. a \in Nat /\ DayOf(a) \in 0 .. LastDay BY CalendarAssumption DEF Instant, At, DayOf
<1>2. LastDay \in CalendarDays
  <2>1. LastMonth \in Month BY CalendarAssumption DEF Month
  <2>2. MonthStart[LastMonth] \in Nat /\ MonthLength(LastMonth) \in Nat \ {0}
    BY <2>1, MonthStarts, MonthLengths
  <2> QED BY <2>2, CalendarAssumption DEF CalendarDays
<1>3. ASSUME NEW day \in 0 .. LastDay PROVE day \in CalendarDays
  <2> DEFINE end == MonthStart[LastMonth] + MonthLength(LastMonth) - 1
  <2>1. LastMonth \in Month BY CalendarAssumption DEF Month
  <2>2. end \in Int BY <2>1, MonthStarts, MonthLengths
  <2>3. LastDay <= end BY <1>2 DEF CalendarDays
  <2>4. day \in 0 .. end
    <3> HIDE DEF end
    <3> QED BY <2>2, <2>3, CalendarAssumption
  <2> QED BY <2>4 DEF CalendarDays
<1> QED BY <1>1, <1>3


\* The day of the month is kept, or is the last one of the month.
DayAfterMonths(day, months) ==
  MonthStart[MonthOf(day) + months]
  + Min({day - MonthStart[MonthOf(day)], MonthLength(MonthOf(day) + months) - 1})

LEMMA DaysOfMonths ==
  ASSUME NEW day \in CalendarDays, NEW months \in Nat, MonthOf(day) + months \in Month
  PROVE  /\ DayAfterMonths(day, months) \in Nat
         /\ MonthStart[MonthOf(day) + months] <= DayAfterMonths(day, months)
         /\ DayAfterMonths(day, months)
              < MonthStart[MonthOf(day) + months] + MonthLength(MonthOf(day) + months)
<1> DEFINE from == MonthStart[MonthOf(day)]
           to == MonthStart[MonthOf(day) + months]
           last == MonthLength(MonthOf(day) + months) - 1
<1>1. from \in Nat /\ to \in Nat /\ last \in Nat /\ MonthLength(MonthOf(day) + months) = last + 1
  BY OneMonth, MonthStarts, MonthLengths
<1>2. day \in Int /\ from <= day BY OneMonth DEF CalendarDays, InMonth
<1>3. day - from \in Nat
  <2> HIDE DEF from
  <2> QED BY <1>1, <1>2
<1>4. DayAfterMonths(day, months) = to + Min({day - from, last}) BY DEF DayAfterMonths
<1> HIDE DEF from, to, last
<1>5. Min({day - from, last}) \in 0 .. last BY <1>1, <1>3, MinOfTwo
<1>6. /\ DayAfterMonths(day, months) \in Nat /\ to <= DayAfterMonths(day, months)
      /\ DayAfterMonths(day, months) < to + (last + 1)
  BY <1>1, <1>4, <1>5
<1>7. to = MonthStart[MonthOf(day) + months] BY DEF to
<1> QED BY <1>1, <1>6, <1>7

LEMMA LaterDaysOfMonths ==
  ASSUME NEW day \in CalendarDays, NEW later \in CalendarDays, day <= later,
         NEW months \in Nat, MonthOf(later) + months \in Month
  PROVE  MonthOf(day) + months \in Month
         /\ DayAfterMonths(day, months) <= DayAfterMonths(later, months)
<1> DEFINE m == MonthOf(day)
           n == MonthOf(later)
<1>1. m \in Nat /\ n \in Nat /\ m <= n
  <2>1. Month \subseteq Nat BY CalendarAssumption DEF Month
  <2> QED BY <2>1, OneMonth, MonthsFollowDays
<1>2. m + months \in Month
  <2> HIDE DEF m, n
  <2>1. n + months \in Month BY DEF n
  <2> QED BY <1>1, <2>1, CalendarAssumption DEF Month
<1>3. /\ DayAfterMonths(day, months) \in Nat /\ DayAfterMonths(later, months) \in Nat
      /\ MonthStart[n + months] <= DayAfterMonths(later, months)
      /\ DayAfterMonths(day, months) < MonthStart[m + months] + MonthLength(m + months)
  BY <1>2, DaysOfMonths
<1>4. CASE m = n
  <2> DEFINE from == MonthStart[m]
             last == MonthLength(m + months) - 1
             x == day - from
             y == later - from
  <2>1. from \in Nat /\ last \in Int /\ MonthStart[m + months] \in Nat
    BY <1>2, OneMonth, MonthStarts, MonthLengths
  <2>2. day \in Int /\ later \in Int BY CalendarAssumption DEF CalendarDays
  <2>3. x \in Int /\ y \in Int /\ x <= y
    <3> HIDE DEF from
    <3> QED BY <2>1, <2>2
  <2>4. /\ DayAfterMonths(day, months) = MonthStart[m + months] + Min({x, last})
        /\ DayAfterMonths(later, months) = MonthStart[m + months] + Min({y, last})
    BY <1>4 DEF DayAfterMonths
  <2> HIDE DEF x, y, last
  <2>5. /\ Min({x, last}) = IF x <= last THEN x ELSE last
        /\ Min({y, last}) = IF y <= last THEN y ELSE last
    BY <2>1, <2>3, MinOfTwo
  <2>6. Min({x, last}) \in Int /\ Min({y, last}) \in Int /\ Min({x, last}) <= Min({y, last})
    BY <2>1, <2>3, <2>5
  <2> QED BY <1>2, <2>1, <2>4, <2>6
<1>5. CASE m # n
  <2>1. m + months < n + months /\ n + months \in Month
    <3>1. n + months \in Month OBVIOUS
    <3> HIDE DEF m, n
    <3> QED BY <1>1, <1>5, <3>1
  <2>2. MonthStart[m + months] + MonthLength(m + months) <= MonthStart[n + months]
    BY <1>2, <2>1, MonthsInOrder
  <2>3. /\ MonthStart[m + months] \in Nat /\ MonthLength(m + months) \in Nat
        /\ MonthStart[n + months] \in Nat
    BY <1>2, <2>1, MonthStarts, MonthLengths
  <2> QED BY <1>2, <1>3, <2>2, <2>3
<1> QED BY <1>4, <1>5

LEMMA HalfDays ==
  ASSUME NEW day \in Nat, NEW half \in 0 .. 1, NEW h \in Nat
  PROVE  DayOf(At(day) + half + 2 * h) = day + h
BY DEF DayOf, At

LEMMA LaterIsLater ==
  ASSUME NEW a \in Int, NEW b \in Int, a <= b
  PROVE  DayOf(a) <= DayOf(b)
BY DEF DayOf

\* Later work has a later successor, or the same.
LEMMA NextInOrder ==
  ASSUME NEW a \in Instant, NEW b \in Instant, a <= b, NEW c \in Customers
  PROVE  DayOf(NextAfter(a, c)) <= DayOf(NextAfter(b, c))
<1> DEFINE steps == c.halfSteps
<1>1. steps \in Nat /\ MonthOf(LastDay) + steps \div 2 \in Month
  BY CalendarAssumption DEF Customers
<1>2. c.cycle \in {"DAILY", "WEEKLY", "MONTHLY"} BY CycleAssumption DEF Customers
<1>3. a \in Nat /\ b \in Nat BY InstantDays
<1>4. CASE c.cycle = "DAILY"
  <2>1. NextAfter(a, c) = a + steps /\ NextAfter(b, c) = b + steps
    BY <1>4 DEF NextAfter, AddDays
  <2> HIDE DEF steps
  <2>2. a + steps \in Int /\ b + steps \in Int /\ a + steps <= b + steps BY <1>1, <1>3
  <2> QED BY <2>1, <2>2, LaterIsLater
<1>5. CASE c.cycle = "WEEKLY"
  <2>1. NextAfter(a, c) = a + 7 * steps /\ NextAfter(b, c) = b + 7 * steps
    BY <1>5 DEF NextAfter, AddDays
  <2> HIDE DEF steps
  <2>2. a + 7 * steps \in Int /\ b + 7 * steps \in Int /\ a + 7 * steps <= b + 7 * steps
    BY <1>1, <1>3
  <2> QED BY <2>1, <2>2, LaterIsLater
<1>6. CASE c.cycle = "MONTHLY"
  <2> DEFINE months == steps \div 2
             h == IF steps % 2 = 1 THEN 15 ELSE 0
             more == IF steps % 2 = 1 THEN 30 ELSE 0
  <2>1. months \in Nat /\ h \in Nat /\ more = 2 * h
    <3> HIDE DEF steps
    <3> QED BY <1>1
  <2>2. /\ NextAfter(a, c) = AddMonths(a, months) + more
        /\ NextAfter(b, c) = AddMonths(b, months) + more
    BY <1>6 DEF NextAfter, AddDays
  <2>3. MonthOf(LastDay) + months \in Month BY <1>1
  <2> HIDE DEF steps, months, h, more
  <2>4. \A i \in Instant : AddMonths(i, months) = At(DayAfterMonths(DayOf(i), months)) + (i % 2)
    BY DEF AddMonths, DayAfterMonths
  <2>5. LastDay \in CalendarDays /\ DayOf(a) <= DayOf(b) /\ DayOf(b) <= LastDay
    <3>1. At(LastDay) \in Instant /\ DayOf(At(LastDay)) = LastDay
      BY CalendarAssumption DEF Instant, At, DayOf
    <3>2. LastDay \in CalendarDays BY <3>1, InstantDays
    <3>3. DayOf(b) <= LastDay BY InstantDays, CalendarAssumption
    <3> QED BY <1>3, <3>2, <3>3, LaterIsLater
  <2>6. DayOf(a) \in CalendarDays /\ DayOf(b) \in CalendarDays BY InstantDays
  <2>7. MonthOf(DayOf(b)) + months \in Month BY <2>1, <2>3, <2>5, <2>6, LaterDaysOfMonths
  <2>8. /\ MonthOf(DayOf(a)) + months \in Month
        /\ DayAfterMonths(DayOf(a), months) <= DayAfterMonths(DayOf(b), months)
    BY <2>1, <2>5, <2>6, <2>7, LaterDaysOfMonths
  <2>9. /\ DayAfterMonths(DayOf(a), months) \in Nat
        /\ DayAfterMonths(DayOf(b), months) \in Nat
    BY <2>1, <2>6, <2>7, <2>8, DaysOfMonths
  <2>10. a % 2 \in 0 .. 1 /\ b % 2 \in 0 .. 1 BY <1>3
  <2>11. /\ DayOf(NextAfter(a, c)) = DayAfterMonths(DayOf(a), months) + h
         /\ DayOf(NextAfter(b, c)) = DayAfterMonths(DayOf(b), months) + h
    BY <2>1, <2>2, <2>4, <2>9, <2>10, HalfDays
  <2> QED BY <2>1, <2>8, <2>9, <2>11
<1> QED BY <1>2, <1>4, <1>5, <1>6

-----------------------------------------------------------------------------
(* The invariant: what an appointment and the customer may be, and that      *)
(* completed work has been done at some instant up to the last one.          *)

CompletedWasDone ==
  \A v \in Visit : visits[v] # Absent /\ visits[v].workStatus = "COMPLETED"
                   => visits[v].serviced \in Instant

PlanningInv ==
  /\ now \in Instant
  /\ visits \in [Visit -> Visits \cup {Absent}]
  /\ customer \in Customers
  /\ CompletedWasDone

LEMMA PlanningStarts == PlanningInit => PlanningInv
<1> SUFFICES ASSUME PlanningInit PROVE PlanningInv OBVIOUS
<1>1. now \in Instant BY CalendarAssumption DEF PlanningInit, Instant, At
<1> QED BY <1>1 DEF PlanningInit, PlanningInv, CompletedWasDone

LEMMA BookedAreVisits ==
  ASSUME PlanningInv, NEW v \in Booked
  PROVE  v \in Visit /\ visits[v] \in Visits /\ visits[v] # Absent
BY DEF Booked, PlanningInv

LEMMA VisitFields ==
  ASSUME NEW r \in Visits
  PROVE  /\ r.isUrgent \in BOOLEAN /\ r.cancelled \in BOOLEAN
         /\ r.workStatus \in {"WAITING", "IN_PROGRESS", "POSTPONED", "COMPLETED"}
         /\ r.scheduledDate \in {At(day) : day \in BookingDays}
         /\ r.serviced \in (0 .. At(LastDay) + 1) \cup {None}
BY DEF Visits

\* A step that changes one appointment into another.
LEMMA OneVisitChanges ==
  ASSUME PlanningInv, NEW v \in Visit, NEW r \in Visits \cup {Absent},
         visits' = [visits EXCEPT ![v] = r], UNCHANGED <<now, customer>>,
         r # Absent /\ r.workStatus = "COMPLETED" => r.serviced \in Instant
  PROVE  PlanningInv'
<1>1. visits' \in [Visit -> Visits \cup {Absent}] BY DEF PlanningInv
<1>2. \A w \in Visit : visits'[w] = IF w = v THEN r ELSE visits[w] BY DEF PlanningInv
<1>3. CompletedWasDone' BY <1>2 DEF PlanningInv, CompletedWasDone
<1> HIDE DEF Visits, Absent, CompletedWasDone
<1> QED BY <1>1, <1>3 DEF PlanningInv, Instant, Customers

LEMMA PlanningSteps == PlanningInv /\ [PlanningNext]_planningVars => PlanningInv'
<1> SUFFICES ASSUME PlanningInv, [PlanningNext]_planningVars PROVE PlanningInv' OBVIOUS
<1>1. ASSUME NEW v \in Visit, Book(v) PROVE PlanningInv'
  <2>1. PICK day \in BookingDays, urgent \in BOOLEAN :
          visits' = [visits EXCEPT ![v] =
                       [isUrgent |-> urgent, cancelled |-> FALSE, workStatus |-> "WAITING",
                        scheduledDate |-> At(day), serviced |-> None]]
    BY <1>1 DEF Book
  <2> DEFINE r == [isUrgent |-> urgent, cancelled |-> FALSE, workStatus |-> "WAITING",
                   scheduledDate |-> At(day), serviced |-> None]
  <2>2. r \in Visits /\ r.workStatus # "COMPLETED" BY DEF Visits
  <2>3. UNCHANGED <<now, customer>> BY <1>1 DEF Book
  <2> HIDE DEF r
  <2>4. visits' = [visits EXCEPT ![v] = r] BY <2>1 DEF r
  <2> QED BY <2>2, <2>3, <2>4, OneVisitChanges
<1>2. ASSUME NEW v \in Visit, Start(v) \/ Postpone(v) PROVE PlanningInv'
  <2>1. PICK status \in {"IN_PROGRESS", "POSTPONED"} :
          visits' = [visits EXCEPT ![v].workStatus = status]
    BY <1>2 DEF Start, Postpone
  <2>2. visits[v] \in Visits BY <1>2, BookedAreVisits DEF Start, Postpone
  <2> DEFINE r == [visits[v] EXCEPT !.workStatus = status]
  <2>3. r \in Visits /\ r.workStatus # "COMPLETED" BY <2>2 DEF Visits
  <2>4. visits' = [visits EXCEPT ![v] = r] BY <2>1
  <2>5. UNCHANGED <<now, customer>> BY <1>2 DEF Start, Postpone
  <2> HIDE DEF r
  <2> QED BY <2>3, <2>4, <2>5, OneVisitChanges
<1>3. ASSUME NEW v \in Visit, Complete(v) PROVE PlanningInv'
  <2>1. PICK serviced \in {At(day) : day \in BookingDays} \cup {now} :
          /\ DayOf(serviced) <= DayOf(now)
          /\ visits' = [visits EXCEPT ![v].workStatus = "COMPLETED", ![v].serviced = serviced]
    BY <1>3 DEF Complete
  <2>2. serviced \in Instant
    <3>1. CASE serviced = now BY <3>1 DEF PlanningInv
    <3>2. ASSUME NEW day \in BookingDays, serviced = At(day) PROVE serviced \in Instant
      <4>1. day \in Nat BY CalendarAssumption DEF CalendarDays
      <4>2. DayOf(serviced) = day BY <3>2, <4>1 DEF DayOf, At
      <4>3. DayOf(now) \in 0 .. LastDay BY InstantDays DEF PlanningInv
      <4>4. day <= LastDay BY <2>1, <4>1, <4>2, <4>3, CalendarAssumption
      <4> QED BY <3>2, <4>1, <4>4, CalendarAssumption DEF At, Instant
    <3> QED BY <3>1, <3>2
  <2>3. visits[v] \in Visits BY <1>3, BookedAreVisits DEF Complete
  <2> DEFINE r == [visits[v] EXCEPT !.workStatus = "COMPLETED", !.serviced = serviced]
  <2>4. r \in Visits /\ r.serviced \in Instant BY <2>2, <2>3 DEF Visits, Instant
  <2>5. visits' = [visits EXCEPT ![v] = r] BY <2>1
  <2>6. UNCHANGED <<now, customer>> BY <1>3 DEF Complete
  <2> HIDE DEF r
  <2> QED BY <2>4, <2>5, <2>6, OneVisitChanges
<1>4. ASSUME NEW v \in Visit, SetStatus(v) PROVE PlanningInv'
  <2>1. visits[v] \in Visits /\ visits[v] # Absent BY <1>4, BookedAreVisits DEF SetStatus
  <2> DEFINE r == [visits[v] EXCEPT !.cancelled = ~@]
  <2>2. r \in Visits /\ r.workStatus = visits[v].workStatus /\ r.serviced = visits[v].serviced
    BY <2>1 DEF Visits
  <2>3. visits' = [visits EXCEPT ![v] = r] BY <1>4 DEF SetStatus
  <2>4. UNCHANGED <<now, customer>> BY <1>4 DEF SetStatus
  <2>5. r.workStatus = "COMPLETED" => r.serviced \in Instant
    BY <2>1, <2>2 DEF PlanningInv, CompletedWasDone
  <2> HIDE DEF r
  <2> QED BY <2>2, <2>3, <2>4, <2>5, OneVisitChanges
<1>5. ASSUME NEW v \in Visit, Reschedule(v) PROVE PlanningInv'
  <2>1. visits[v] \in Visits /\ visits[v] # Absent BY <1>5, BookedAreVisits DEF Reschedule
  <2>2. PICK day \in BookingDays : visits' = [visits EXCEPT ![v].scheduledDate = At(day)]
    BY <1>5 DEF Reschedule
  <2> DEFINE r == [visits[v] EXCEPT !.scheduledDate = At(day)]
  <2>3. r \in Visits /\ r.workStatus = visits[v].workStatus /\ r.serviced = visits[v].serviced
    BY <2>1 DEF Visits
  <2>4. visits' = [visits EXCEPT ![v] = r] BY <2>2
  <2>5. UNCHANGED <<now, customer>> BY <1>5 DEF Reschedule
  <2>6. r.workStatus = "COMPLETED" => r.serviced \in Instant
    BY <2>1, <2>3 DEF PlanningInv, CompletedWasDone
  <2> HIDE DEF r
  <2> QED BY <2>3, <2>4, <2>5, <2>6, OneVisitChanges
<1>6. ASSUME NEW v \in Visit, Unbook(v) PROVE PlanningInv'
  <2>1. visits' = [visits EXCEPT ![v] = Absent] /\ UNCHANGED <<now, customer>> BY <1>6 DEF Unbook
  <2> HIDE DEF Absent
  <2> QED BY <2>1, OneVisitChanges
<1>7. CASE EditCustomer BY <1>7 DEF EditCustomer, PlanningInv, CompletedWasDone, Customers
<1>8. CASE Tick
  <2>1. now' \in Instant BY <1>8, CalendarAssumption DEF Tick, PlanningInv, Instant, At
  <2> QED BY <1>8, <2>1 DEF Tick, PlanningInv, CompletedWasDone
<1>9. CASE UNCHANGED planningVars BY <1>9 DEF planningVars, PlanningInv, CompletedWasDone
<1> QED BY <1>1, <1>2, <1>3, <1>4, <1>5, <1>6, <1>7, <1>8, <1>9 DEF PlanningNext

\* The days, the appointments and the customer stay what they may be.
THEOREM PlanningKeepsTypes == PlanningSpec => []PlanningInv
BY PlanningStarts, PlanningSteps, PTL DEF PlanningSpec

-----------------------------------------------------------------------------
(* The boxes of the dashboard.                                               *)

LEMMA BoxesOf ==
  ASSUME NEW v
  PROVE  /\ "completed" \in CategoriesOf(v) <=> NonUrgent(v) /\ visits[v].workStatus = "COMPLETED"
         /\ "postponed" \in CategoriesOf(v) <=> NonUrgent(v) /\ visits[v].workStatus = "POSTPONED"
         /\ "overdue" \in CategoriesOf(v)
              <=> Active(v) /\ DayOf(visits[v].scheduledDate) < DayOf(now)
         /\ "today" \in CategoriesOf(v)
              <=> Active(v) /\ DayOf(visits[v].scheduledDate) = DayOf(now)
         /\ "thisMonth" \in CategoriesOf(v)
              <=> /\ Active(v) /\ DayOf(now) < DayOf(visits[v].scheduledDate)
                  /\ DayOf(visits[v].scheduledDate) < MonthStart[MonthOf(DayOf(now)) + 1]
         /\ "nextMonth" \in CategoriesOf(v)
              <=> Active(v) /\ MonthOf(DayOf(visits[v].scheduledDate)) = MonthOf(DayOf(now)) + 1
         /\ CategoriesOf(v) \subseteq Categories
BY DEF CategoriesOf, Categories

\* Where a day is, as of today, with the month after this one in the calendar.
LEMMA DayIsSomewhere ==
  ASSUME NEW today \in 0 .. LastDay, NEW date \in CalendarDays
  PROVE  LET next == MonthOf(today) + 1 IN
         /\ today \in Nat /\ date \in Nat
         /\ MonthOf(today) \in Nat /\ MonthOf(date) \in Nat /\ MonthStart[next] \in Nat
         /\ MonthOf(date) = next => today < date /\ ~(date < MonthStart[next])
         /\ today < date /\ MonthOf(date) <= next
            => date < MonthStart[next] \/ MonthOf(date) = next
<1> DEFINE m == MonthOf(today)
           n == MonthOf(date)
<1>1. At(today) \in Instant /\ DayOf(At(today)) = today BY CalendarAssumption DEF At, Instant, DayOf
<1>2. today \in CalendarDays BY <1>1, InstantDays
<1>3. /\ m \in Month /\ InMonth(today, m) /\ n \in Month /\ InMonth(date, n)
      /\ m \in Nat /\ n \in Nat /\ today \in Nat /\ date \in Nat
  BY <1>2, OneMonth, CalendarAssumption DEF Month, CalendarDays
<1>4. m + 1 \in Month
  <2>1. m # LastMonth
    <3>1. LastMonth \in Month BY CalendarAssumption DEF Month
    <3>2. MonthStart[LastMonth] \in Nat BY <3>1, MonthStarts
    <3>3. ~(MonthStart[LastMonth] <= today) BY <3>2, CalendarAssumption
    <3> QED BY <1>3, <3>3 DEF InMonth
  <2> HIDE DEF m
  <2> QED BY <1>3, <2>1, CalendarAssumption DEF Month
<1>5. /\ MonthStart[m + 1] = MonthStart[m] + MonthLength(m)
      /\ MonthStart[m + 1] \in Nat /\ MonthStart[m] \in Nat /\ MonthLength(m) \in Nat
  BY <1>3, <1>4, MonthStarts, MonthLengths
<1>6. date <= today => n <= m BY <1>2, MonthsFollowDays
<1>7. today < date => m <= n BY <1>2, <1>3, MonthsFollowDays
<1>8. n = m + 1 => today < date /\ ~(date < MonthStart[m + 1])
  <2> HIDE DEF m, n
  <2> QED BY <1>3, <1>5, <1>6 DEF InMonth
<1>9. today < date /\ n <= m + 1 => date < MonthStart[m + 1] \/ n = m + 1
  <2>1. n = m => date < MonthStart[m + 1] BY <1>3, <1>5 DEF InMonth
  <2> HIDE DEF m, n
  <2> QED BY <1>3, <1>7, <2>1
<1> QED BY <1>3, <1>5, <1>8, <1>9

LEMMA DatesOfVisits ==
  ASSUME PlanningInv, NEW v \in Booked
  PROVE  /\ DayOf(visits[v].scheduledDate) \in CalendarDays
         /\ visits[v].scheduledDate \in Nat /\ now \in Nat
         /\ DayOf(now) \in 0 .. LastDay
<1>1. PICK day \in BookingDays : visits[v].scheduledDate = At(day)
  BY BookedAreVisits, VisitFields
<1>2. day \in CalendarDays /\ day \in Nat BY CalendarAssumption DEF CalendarDays
<1>3. At(day) \in Nat /\ DayOf(At(day)) = day BY <1>2 DEF At, DayOf
<1> QED BY <1>1, <1>2, <1>3, InstantDays DEF PlanningInv

LEMMA OneBoxHolds == PlanningInv => OneBoxEach
<1> SUFFICES ASSUME PlanningInv, NEW v \in Booked
             PROVE  /\ Cardinality(CategoriesOf(v)) <= 1
                    /\ Active(v) /\ MonthOf(DayOf(visits[v].scheduledDate)) <= MonthOf(DayOf(now)) + 1
                       => CategoriesOf(v) # {}
  BY DEF OneBoxEach
<1> DEFINE date == DayOf(visits[v].scheduledDate)
           today == DayOf(now)
           next == MonthOf(today) + 1
<1>1. /\ today \in Nat /\ date \in Nat
      /\ MonthOf(today) \in Nat /\ MonthOf(date) \in Nat /\ MonthStart[next] \in Nat
      /\ MonthOf(date) = next => today < date /\ ~(date < MonthStart[next])
      /\ today < date /\ MonthOf(date) <= next
            => date < MonthStart[next] \/ MonthOf(date) = next
  BY DatesOfVisits, DayIsSomewhere
<1>2. /\ "overdue" \in CategoriesOf(v) <=> Active(v) /\ date < today
      /\ "today" \in CategoriesOf(v) <=> Active(v) /\ date = today
      /\ "thisMonth" \in CategoriesOf(v) <=> Active(v) /\ today < date /\ date < MonthStart[next]
      /\ "nextMonth" \in CategoriesOf(v) <=> Active(v) /\ MonthOf(date) = next
  BY BoxesOf
<1>3. Active(v) => visits[v].workStatus \notin {"COMPLETED", "POSTPONED"} BY DEF Active
<1> HIDE DEF date, today, next
<1>4. ASSUME NEW j \in CategoriesOf(v), NEW k \in CategoriesOf(v) PROVE j = k
  <2>1. /\ "completed" \in CategoriesOf(v) => visits[v].workStatus = "COMPLETED"
        /\ "postponed" \in CategoriesOf(v) => visits[v].workStatus = "POSTPONED"
        /\ j \in Categories /\ k \in Categories
    BY BoxesOf
  <2>2. ~(date < today /\ date = today) /\ ~(date < today /\ today < date)
        /\ ~(date = today /\ today < date)
    BY <1>1
  <2> QED BY <1>1, <1>2, <1>3, <2>1, <2>2 DEF Categories
<1>5. Cardinality(CategoriesOf(v)) <= 1
  <2>1. CASE CategoriesOf(v) = {} BY <2>1, FS_EmptySet
  <2>2. ASSUME NEW k \in CategoriesOf(v) PROVE Cardinality(CategoriesOf(v)) <= 1
    <3>1. CategoriesOf(v) = {k} BY <1>4
    <3> QED BY <3>1, FS_Singleton
  <2> QED BY <2>1, <2>2
<1>6. ASSUME Active(v), MonthOf(date) <= next PROVE CategoriesOf(v) # {}
  <2>1. date < today \/ date = today \/ today < date BY <1>1
  <2> QED BY <1>1, <1>2, <1>6, <2>1
<1> QED BY <1>5, <1>6 DEF date, today, next

LEMMA LateAgrees == PlanningInv => LateEverywhere
<1> SUFFICES ASSUME PlanningInv, Tile("overdue") # {} \/ "OVERDUE" \in ReportStatuses
             PROVE  AlertLevel = "overdue"
  BY DEF LateEverywhere
<1>1. ASSUME NEW v \in Tile("overdue") PROVE OverdueVisits # {}
  <2>1. v \in Booked /\ Active(v) /\ DayOf(visits[v].scheduledDate) < DayOf(now)
    BY <1>1, BoxesOf DEF Tile
  <2>2. visits[v].scheduledDate < now
    <3>1. \A a, b \in Nat : a \div 2 < b \div 2 => a < b OBVIOUS
    <3> QED BY <2>1, <3>1, DatesOfVisits DEF DayOf
  <2>3. v \in OverdueVisits BY <2>1, <2>2 DEF OverdueVisits, Active
  <2> QED BY <2>3
<1>2. ASSUME "OVERDUE" \in ReportStatuses PROVE OverdueVisits # {}
  <2>1. PICK v \in Booked : StatusOf(visits[v]) = "OVERDUE" BY <1>2 DEF ReportStatuses
  <2>2. visits[v].workStatus \in {"WAITING", "IN_PROGRESS", "POSTPONED", "COMPLETED"}
    BY BookedAreVisits, VisitFields
  <2>3. visits[v].workStatus = "WAITING" /\ ~visits[v].cancelled /\ visits[v].scheduledDate < now
    BY <2>1, <2>2 DEF StatusOf
  <2>4. v \in OverdueVisits BY <2>3 DEF OverdueVisits
  <2> QED BY <2>4
<1>3. OverdueVisits # {} BY <1>1, <1>2
<1> QED BY <1>3 DEF AlertLevel

\* The dashboard never counts an appointment in two boxes nor loses one
\* between two of them, and whoever is late there or in the report is late in
\* the lists (getDashboardCategoryWheres, computeMaintenanceStatus,
\* alertLevel), in a calendar of any length and with any appointments.
THEOREM BoxesStayApart == PlanningSpec => []BoxesAgree
<1>1. PlanningInv => BoxesAgree BY OneBoxHolds, LateAgrees DEF BoxesAgree
<1> QED BY <1>1, PlanningKeepsTypes, PTL

-----------------------------------------------------------------------------
(* Reports.                                                                  *)

LEMMA LatestOf ==
  ASSUME NEW C, C \subseteq Instant, C # {}
  PROVE  Max(C) \in C /\ \A x \in C : Max(C) >= x
<1>1. \A x \in C : x \in Int /\ x <= At(LastDay) + 1 BY CalendarAssumption DEF Instant, At
<1>2. At(LastDay) + 1 \in Int /\ C \subseteq Int BY <1>1, CalendarAssumption DEF At
<1>3. \E x \in C : \A y \in C : x >= y BY <1>1, <1>2, GreatestElement
<1> QED BY <1>3 DEF Max

LEMMA OnlyCompleteCompletes ==
  ASSUME PlanningInv, [PlanningNext]_planningVars, NEW v \in Visit,
         v \in Booked, visits[v].workStatus # "COMPLETED", visits'[v].workStatus = "COMPLETED"
  PROVE  Complete(v)
<1>1. visits[v] \in Visits /\ visits \in [Visit -> Visits \cup {Absent}]
  BY BookedAreVisits DEF PlanningInv
<1>2. ASSUME NEW w \in Visit, NEW r, visits' = [visits EXCEPT ![w] = r]
      PROVE  (w # v => visits'[v] = visits[v]) /\ (w = v => visits'[v] = r)
  BY <1>1, <1>2
<1>3. ASSUME NEW w \in Visit, Book(w) PROVE FALSE
  <2>1. w # v BY <1>3 DEF Book, Booked
  <2>2. visits'[v] = visits[v] BY <1>1, <1>3, <2>1 DEF Book
  <2> QED BY <2>2
<1>4. ASSUME NEW w \in Visit, Start(w) \/ Postpone(w) \/ SetStatus(w) \/ Reschedule(w) PROVE FALSE
  <2>1. PICK r : /\ visits' = [visits EXCEPT ![w] = r]
                 /\ w = v => r.workStatus = visits[v].workStatus
                             \/ r.workStatus \in {"IN_PROGRESS", "POSTPONED"}
    <3>1. CASE Start(w)
      <4> WITNESS [visits[w] EXCEPT !.workStatus = "IN_PROGRESS"]
      <4> QED BY <1>1, <3>1 DEF Start, Visits
    <3>2. CASE Postpone(w)
      <4> WITNESS [visits[w] EXCEPT !.workStatus = "POSTPONED"]
      <4> QED BY <1>1, <3>2 DEF Postpone, Visits
    <3>3. CASE SetStatus(w)
      <4> WITNESS [visits[w] EXCEPT !.cancelled = ~@]
      <4> QED BY <1>1, <3>3 DEF SetStatus, Visits
    <3>4. CASE Reschedule(w)
      <4>1. PICK day \in BookingDays : visits' = [visits EXCEPT ![w].scheduledDate = At(day)]
        BY <3>4 DEF Reschedule
      <4> WITNESS [visits[w] EXCEPT !.scheduledDate = At(day)]
      <4> QED BY <1>1, <4>1 DEF Visits
    <3> QED BY <1>4, <3>1, <3>2, <3>3, <3>4
  <2> QED BY <1>2, <2>1
<1>5. ASSUME NEW w \in Visit, Complete(w) PROVE w = v
  <2>1. PICK serviced :
          visits' = [visits EXCEPT ![w].workStatus = "COMPLETED", ![w].serviced = serviced]
    BY <1>5 DEF Complete
  <2> QED BY <1>1, <2>1
<1>6. ASSUME NEW w \in Visit, Unbook(w) PROVE FALSE
  <2>1. visits' = [visits EXCEPT ![w] = Absent] BY <1>6 DEF Unbook
  <2>2. Absent.workStatus # "COMPLETED" BY DEF Absent
  <2> HIDE DEF Absent
  <2> QED BY <1>2, <2>1, <2>2
<1>7. EditCustomer \/ Tick \/ UNCHANGED planningVars => visits' = visits
  BY DEF EditCustomer, Tick, planningVars
<1> QED BY <1>3, <1>4, <1>5, <1>6, <1>7 DEF PlanningNext

LEMMA ReportStep ==
  ASSUME PlanningInv, PlanningInv', NEW v \in Visit, Complete(v), Completions(Booked) # {}
  PROVE  DayOf(NextMaintenance(Booked)') >= DayOf(NextMaintenance(Booked))
<1> DEFINE before == Completions(Booked)
           after == Completions(Booked)'
<1>1. before \subseteq Instant BY DEF PlanningInv, CompletedWasDone, Completions, Booked
<1>2. after \subseteq Instant BY DEF PlanningInv, CompletedWasDone, Completions, Booked, Instant
<1>3. before \subseteq after
  <2> SUFFICES ASSUME NEW w \in Booked, ~visits[w].isUrgent, visits[w].workStatus = "COMPLETED"
               PROVE  visits[w].serviced \in after
    BY DEF Completions
  <2>1. w # v BY DEF Complete
  <2>2. visits'[w] = visits[w] BY <2>1 DEF Complete, PlanningInv, Booked
  <2>3. w \in Booked' BY <2>2 DEF Booked
  <2> QED BY <2>2, <2>3 DEF Completions
<1> HIDE DEF before, after
<1>4. before # {} /\ after # {} BY <1>3 DEF before
<1>5. /\ Max(before) \in before /\ Max(after) \in after
      /\ \A x \in after : Max(after) >= x
  BY <1>1, <1>2, <1>4, LatestOf
<1>6. Max(before) \in Instant /\ Max(after) \in Instant /\ Max(before) <= Max(after)
  <2>1. Max(before) \in Instant /\ Max(after) \in Instant BY <1>1, <1>2, <1>5
  <2>2. Max(after) >= Max(before) BY <1>3, <1>5
  <2>3. Max(before) \in Nat /\ Max(after) \in Nat BY <2>1, InstantDays
  <2> HIDE DEF Max
  <2> QED BY <2>1, <2>2, <2>3
<1>7. customer \in Customers /\ customer' = customer BY DEF PlanningInv, Complete
<1>8. None \notin Instant BY DEF None, Instant
<1>9. /\ NextMaintenance(Booked) = NextAfter(Max(before), customer)
      /\ NextMaintenance(Booked)' = NextAfter(Max(after), customer')
  BY <1>4, <1>6, <1>8 DEF NextMaintenance, before, after
<1>10. DayOf(NextAfter(Max(before), customer)) <= DayOf(NextAfter(Max(after), customer))
  BY <1>6, <1>7, NextInOrder
<1> QED BY <1>7, <1>9, <1>10

\* In whatever order reports of work come in, and however months are clamped,
\* none brings the next maintenance of a customer serviced before closer
\* (computeNextMaintenanceDate, addCalendarMonths).
THEOREM ReportsOnlyPutOff == PlanningSpec => ReportsNeverBringForward
<1>1. PlanningInv /\ PlanningInv' /\ [PlanningNext]_planningVars
      => [\A v \in Visit :
            /\ v \in Booked /\ visits[v].workStatus # "COMPLETED"
            /\ visits'[v].workStatus = "COMPLETED"
            /\ Completions(Booked) # {}
            => DayOf(NextMaintenance(Booked)') >= DayOf(NextMaintenance(Booked))]_planningVars
  BY OnlyCompleteCompletes, ReportStep
<1> QED BY <1>1, PlanningKeepsTypes, PTL DEF PlanningSpec, ReportsNeverBringForward

-----------------------------------------------------------------------------
(* Paging: where a row is in the list, and on which page.                    *)

LEMMA Injected ==
  ASSUME NEW S, NEW T, IsFiniteSet(T), NEW f \in [S -> T],
         \A x, y \in S : f[x] = f[y] => x = y
  PROVE  IsFiniteSet(S) /\ Cardinality(S) <= Cardinality(T)
         /\ Cardinality(S) \in Nat /\ Cardinality(T) \in Nat
<1>1. f \in Injection(S, T) BY Fun_IsInj
<1> QED BY <1>1, FS_Injection, FS_CardinalityType

LEMMA OneAtMost ==
  ASSUME NEW S, NEW x, S \subseteq {x}
  PROVE  IsFiniteSet(S) /\ Cardinality(S) <= 1 /\ Cardinality(S) \in Nat
<1>1. CASE S = {} BY <1>1, FS_EmptySet
<1>2. CASE S = {x}
  <2>1. IsFiniteSet({x}) /\ Cardinality({x}) = 1 BY FS_Singleton, Zenon
  <2> QED BY <1>2, <2>1
<1> QED BY <1>1, <1>2

Rows(k) == {i \in Item : k[i] # NoRow}
Before(k, i) == {j \in Rows(k) : k[j] > k[i]}
Pos(k, i) == Cardinality(Before(k, i)) + 1

End(p) == p * PageSize
InPage(n, p) == (p - 1) * PageSize < n /\ n <= p * PageSize

LEMMA PageEnds ==
  /\ PageSize \in Nat /\ PageSize >= 1 /\ End(0) = 0
  /\ \A p \in Int : End(p) \in Int /\ End(p + 1) = End(p) + PageSize
  /\ \A n, p \in Int : InPage(n, p) <=> End(p) - PageSize < n /\ n <= End(p)
<1>1. PageSize \in Nat /\ PageSize >= 1 BY PageSizeAssumption
<1>2. \A p \in Int : p * PageSize \in Int /\ (p + 1) * PageSize = p * PageSize + PageSize
                     /\ (p - 1) * PageSize = p * PageSize - PageSize
  BY <1>1
<1>3. 0 * PageSize = 0 BY <1>1
<1> QED BY <1>1, <1>2, <1>3 DEF End, InPage

LEMMA NextPageEnds ==
  ASSUME NEW p \in Int
  PROVE  p + 1 \in Int /\ End(p) \in Int /\ End(p + 1) = End(p) + PageSize
<1>1. PageSize \in Nat BY PageSizeAssumption
<1>2. p * PageSize \in Int /\ (p + 1) * PageSize = p * PageSize + PageSize BY <1>1
<1> QED BY <1>2 DEF End

LEMMA LaterPagesEndLater ==
  ASSUME NEW p \in Int, NEW q \in Int, p < q
  PROVE  End(p) < End(q)
<1>1. PageSize \in Nat /\ PageSize >= 1 BY PageSizeAssumption
<1>2. \A d, e \in Nat : d >= 1 /\ e >= 1 => d * e > 0 OBVIOUS
<1>3. (q - p) * PageSize > 0 BY <1>1, <1>2
<1>4. q * PageSize = p * PageSize + (q - p) * PageSize BY <1>1
<1> QED BY <1>1, <1>3, <1>4 DEF End

\* Every position is on one of the pages it takes to hold it.
LEMMA OnSomePage ==
  ASSUME NEW n \in Nat, n >= 1, NEW last \in Nat, n <= End(last)
  PROVE  \E p \in 1 .. last : InPage(n, p)
<1> DEFINE T == {p \in 0 .. last : n <= End(p)}
<1>1. last \in T /\ T \subseteq Nat OBVIOUS
<1> HIDE DEF T
<1>2. PICK p \in T : \A q \in T : p <= q BY <1>1, LeastElement
<1> USE DEF T
<1>3. p # 0 BY <1>2, PageEnds
<1>4. p - 1 \in 0 .. last /\ ~(p <= p - 1) /\ p \in 1 .. last BY <1>3
<1>5. ~(n <= End(p - 1)) BY <1>2, <1>4
<1>6. End(p) = End(p - 1) + PageSize
  <2>1. p - 1 \in Int /\ (p - 1) + 1 = p OBVIOUS
  <2> QED BY <2>1, PageEnds
<1>7. End(p) \in Int /\ End(p - 1) \in Int BY PageEnds
<1>8. InPage(n, p) BY <1>5, <1>6, <1>7, PageEnds
<1> QED BY <1>4, <1>8

LEMMA Quotients ==
  ASSUME NEW a \in Nat, NEW b \in Nat, b >= 1
  PROVE  /\ a \div b \in Nat
         /\ (a \div b) * b <= a /\ a < (a \div b) * b + b
OBVIOUS

LEMMA QuotientsInOrder ==
  ASSUME NEW a \in Nat, NEW c \in Nat, NEW b \in Nat, b >= 1, a <= c
  PROVE  a \div b <= c \div b
<1> DEFINE x == a \div b
           y == c \div b
<1>1. x \in Nat /\ y \in Nat /\ x * b <= a /\ c < y * b + b BY Quotients
<1> HIDE DEF x, y
<1>2. SUFFICES ASSUME y + 1 <= x PROVE FALSE BY <1>1 DEF x, y
<1>3. (y + 1) * b = y * b + b BY <1>1
<1>4. (y + 1) * b <= x * b
  <2>1. \A d, e \in Nat : d * e >= 0 OBVIOUS
  <2>2. x - (y + 1) \in Nat BY <1>1, <1>2
  <2>3. (x - (y + 1)) * b >= 0 BY <2>1, <2>2
  <2>4. x * b = (y + 1) * b + (x - (y + 1)) * b BY <1>1
  <2>5. x * b \in Int /\ (y + 1) * b \in Int /\ (x - (y + 1)) * b \in Int BY <1>1
  <2> QED BY <2>3, <2>4, <2>5
<1>5. x * b \in Int /\ y * b \in Int BY <1>1
<1> QED BY <1>1, <1>3, <1>4, <1>5

\* The pages asked for hold what was counted.
LEMMA PagesHoldAll ==
  ASSUME NEW count \in Nat
  PROVE  /\ TotalPages(count) \in Nat /\ TotalPages(count) >= 1
         /\ count <= End(TotalPages(count))
         /\ count > PageSize => TotalPages(count) >= 2
         /\ count <= PageSize => TotalPages(count) = 1
<1>1. PageSize \in Nat /\ PageSize >= 1 BY PageSizeAssumption
<1>2. CASE count = 0
  <2>1. TotalPages(count) = 1 BY <1>2 DEF TotalPages
  <2>2. End(1) = PageSize BY <1>1 DEF End
  <2> QED BY <1>1, <1>2, <2>1, <2>2
<1>3. CASE count # 0
  <2> DEFINE a == count + PageSize - 1
             t == a \div PageSize
  <2>1. a \in Nat /\ TotalPages(count) = t BY <1>1, <1>3 DEF TotalPages
  <2>2. t \in Nat /\ t * PageSize <= a /\ a < t * PageSize + PageSize BY <1>1, <2>1, Quotients
  <2>3. End(t) = t * PageSize BY DEF End
  <2>4. End(t) \in Int /\ count <= End(t) BY <1>1, <2>2, <2>3, PageEnds
  <2>5. 1 * PageSize = PageSize /\ 2 * PageSize = PageSize + PageSize /\ 0 * PageSize = 0 BY <1>1
  <2>6. count > PageSize => t # 1 /\ t # 0 BY <1>1, <2>2, <2>5
  <2>7. t # 0 BY <1>1, <1>3, <2>2, <2>5
  <2>8. count <= PageSize => t < 2
    <3>1. SUFFICES ASSUME count <= PageSize, 2 <= t PROVE FALSE BY <2>2
    <3>2. End(2) = 2 * PageSize BY DEF End
    <3>3. End(2) <= End(t)
      <4>1. 2 = t \/ 2 < t BY <2>2, <3>1
      <4>2. End(2) \in Int /\ End(t) \in Int BY <2>2, PageEnds
      <4> HIDE DEF t
      <4> QED BY <2>2, <4>1, <4>2, LaterPagesEndLater
    <3> QED BY <1>1, <2>2, <2>3, <2>4, <2>5, <3>1, <3>2, <3>3
  <2> HIDE DEF t
  <2> QED BY <2>1, <2>2, <2>4, <2>6, <2>7, <2>8
<1> QED BY <1>2, <1>3

LEMMA PagesInBounds ==
  ASSUME IsFiniteSet(Item), 1 \in Page, NEW count \in Nat, count <= Cardinality(Item)
  PROVE  1 .. TotalPages(count) \subseteq Page
<1>1. PageSize \in Nat /\ PageSize >= 1 BY PageSizeAssumption
<1>2. Cardinality(Item) \in Nat BY FS_CardinalityType
<1> DEFINE a == count + PageSize - 1
           c == Cardinality(Item) + PageSize - 1
<1>3. a \in Nat /\ c \in Nat /\ a <= c BY <1>1, <1>2
<1>4. a \div PageSize <= c \div PageSize /\ c \div PageSize \in Nat /\ a \div PageSize \in Nat
  <2> HIDE DEF a, c
  <2> QED BY <1>1, <1>3, Quotients, QuotientsInOrder
<1>5. MaxPages = c \div PageSize BY DEF MaxPages
<1>6. MaxPages \in Nat /\ 1 <= MaxPages BY <1>4, <1>5 DEF Page
<1>7. TotalPages(count) \in Nat /\ TotalPages(count) <= MaxPages
  <2>1. CASE count = 0 BY <1>6, <2>1 DEF TotalPages
  <2>2. CASE count # 0
    <3>1. TotalPages(count) = a \div PageSize BY <2>2 DEF TotalPages
    <3> HIDE DEF a, c
    <3> QED BY <1>4, <1>5, <3>1
  <2> QED BY <2>1, <2>2
<1> QED BY <1>6, <1>7 DEF Page

-----------------------------------------------------------------------------
LEMMA Positions ==
  ASSUME IsFiniteSet(Item), NEW k, NEW i
  PROVE  /\ IsFiniteSet(Before(k, i)) /\ IsFiniteSet(Rows(k))
         /\ Cardinality(Before(k, i)) \in Nat /\ Cardinality(Rows(k)) \in Nat
         /\ Cardinality(Rows(k)) <= Cardinality(Item)
         /\ Pos(k, i) \in Nat /\ Pos(k, i) >= 1
<1>1. IsFiniteSet(Rows(k)) /\ Cardinality(Rows(k)) <= Cardinality(Item)
  BY FS_Subset DEF Rows
<1>2. IsFiniteSet(Before(k, i)) BY <1>1, FS_Subset DEF Before
<1>3. Cardinality(Before(k, i)) \in Nat /\ Cardinality(Rows(k)) \in Nat
  BY <1>1, <1>2, FS_CardinalityType
<1> QED BY <1>1, <1>2, <1>3 DEF Pos

LEMMA PositionsWithin ==
  ASSUME IsFiniteSet(Item), NEW k \in [Item -> Nat], NEW i \in Rows(k)
  PROVE  Pos(k, i) <= Cardinality(Rows(k))
<1>1. Before(k, i) \subseteq Rows(k) \ {i} BY DEF Before, Rows
<1>2. IsFiniteSet(Rows(k) \ {i}) /\ Cardinality(Rows(k) \ {i}) = Cardinality(Rows(k)) - 1
  BY Positions, FS_RemoveElement
<1>3. Cardinality(Before(k, i)) <= Cardinality(Rows(k) \ {i}) BY <1>1, <1>2, FS_Subset
<1>4. Cardinality(Before(k, i)) \in Nat /\ Cardinality(Rows(k)) \in Nat BY Positions
<1> QED BY <1>2, <1>3, <1>4 DEF Pos

LEMMA PositionsInOrder ==
  ASSUME IsFiniteSet(Item), NEW k \in [Item -> Nat], NEW i \in Rows(k), NEW j \in Rows(k), k[i] < k[j]
  PROVE  Pos(k, j) < Pos(k, i)
<1>1. Before(k, j) \cup {j} \subseteq Before(k, i) /\ j \notin Before(k, j) BY DEF Before, Rows
<1>2. IsFiniteSet(Before(k, i)) /\ IsFiniteSet(Before(k, j))
      /\ Cardinality(Before(k, i)) \in Nat /\ Cardinality(Before(k, j)) \in Nat
  BY Positions
<1>3. Cardinality(Before(k, j) \cup {j}) = Cardinality(Before(k, j)) + 1 BY <1>1, <1>2, FS_AddElement
<1>4. Cardinality(Before(k, j) \cup {j}) <= Cardinality(Before(k, i)) BY <1>1, <1>2, FS_Subset
<1> QED BY <1>2, <1>3, <1>4 DEF Pos

LEMMA OnePosition ==
  ASSUME IsFiniteSet(Item), NEW k \in [Item -> Nat], ~Ties(k), NEW i \in Rows(k), NEW j \in Rows(k),
         Pos(k, i) = Pos(k, j)
  PROVE  i = j
<1>1. SUFFICES ASSUME i # j PROVE FALSE OBVIOUS
<1>2. k[i] \in Nat /\ k[j] \in Nat /\ k[i] # k[j] BY <1>1 DEF Ties, Rows
<1>3. k[i] < k[j] \/ k[j] < k[i] BY <1>2
<1>4. Pos(k, j) < Pos(k, i) \/ Pos(k, i) < Pos(k, j) BY <1>3, PositionsInOrder
<1>5. Pos(k, i) \in Nat /\ Pos(k, j) \in Nat BY Positions
<1> QED BY <1>4, <1>5

Sorted(k, s) == \A m, n \in DOMAIN s : m < n => k[s[m]] >= k[s[n]]

\* Without ties the order is one: rows come at their positions.
LEMMA RowsInOrder ==
  ASSUME IsFiniteSet(Item), NEW k \in [Item -> Nat], ~Ties(k),
         NEW s \in SetToSeqs(Rows(k)), Sorted(k, s)
  PROVE  /\ DOMAIN s = 1 .. Cardinality(Rows(k))
         /\ \A n \in DOMAIN s : s[n] \in Rows(k) /\ Pos(k, s[n]) = n
         /\ \A i \in Rows(k) : \E n \in DOMAIN s : s[n] = i
<1> DEFINE c == Cardinality(Rows(k))
<1>1. s \in [1 .. c -> Rows(k)] /\ \A m, n \in 1 .. c : m # n => s[m] # s[n] BY DEF SetToSeqs
<1>2. c \in Nat /\ IsFiniteSet(Rows(k)) BY Positions
<1>3. Cardinality(1 .. c) = c BY <1>2, FS_Interval
<1>4. s \in Injection(1 .. c, Rows(k)) BY <1>1, Fun_IsInj
<1>5. s \in Surjection(1 .. c, Rows(k)) BY <1>2, <1>3, <1>4, FS_Injection
<1>6. \A i \in Rows(k) : \E n \in 1 .. c : s[n] = i BY <1>5 DEF Surjection
<1> HIDE DEF c
<1>7. ASSUME NEW n \in 1 .. c PROVE Pos(k, s[n]) = n
  <2> DEFINE f == [m \in 1 .. (n - 1) |-> s[m]]
  <2>1. ASSUME NEW m \in 1 .. (n - 1) PROVE s[m] \in Before(k, s[n])
    <3>1. m \in 1 .. c /\ m < n BY <1>2
    <3>2. s[m] \in Rows(k) /\ s[n] \in Rows(k) /\ s[m] # s[n] BY <1>1, <3>1
    <3>3. k[s[m]] >= k[s[n]] BY <1>1, <3>1 DEF Sorted
    <3>4. k[s[m]] # k[s[n]] BY <3>2 DEF Ties, Rows
    <3>5. k[s[m]] \in Nat /\ k[s[n]] \in Nat BY <3>2 DEF Rows
    <3> QED BY <3>2, <3>3, <3>4, <3>5 DEF Before
  <2>2. ASSUME NEW j \in Before(k, s[n]) PROVE \E m \in 1 .. (n - 1) : s[m] = j
    <3>1. PICK m \in 1 .. c : s[m] = j BY <1>6 DEF Before
    <3>2. k[j] > k[s[n]] /\ k[j] \in Nat /\ k[s[n]] \in Nat BY <1>1 DEF Before, Rows
    <3>3. ~(n < m) BY <1>1, <3>1, <3>2 DEF Sorted
    <3>4. n # m BY <3>1, <3>2
    <3>5. m \in 1 .. (n - 1) BY <1>2, <3>3, <3>4
    <3> QED BY <3>1, <3>5
  <2>3. f \in [1 .. (n - 1) -> Before(k, s[n])] BY <2>1
  <2>4. \A l, m \in 1 .. (n - 1) : f[l] = f[m] => l = m
    <3>1. \A m \in 1 .. (n - 1) : m \in 1 .. c BY <1>2
    <3> QED BY <1>1, <3>1
  <2>5. \A j \in Before(k, s[n]) : \E m \in 1 .. (n - 1) : f[m] = j BY <2>2
  <2>6. n - 1 \in Nat BY <1>2
  <2> HIDE DEF f
  <2>7. f \in Bijection(1 .. (n - 1), Before(k, s[n])) BY <2>3, <2>4, <2>5, Fun_IsBij
  <2>8. ExistsBijection(1 .. (n - 1), Before(k, s[n])) BY <2>7 DEF ExistsBijection
  <2>9. Cardinality(Before(k, s[n])) = n - 1 BY <2>6, <2>8, FS_CountingElements
  <2> QED BY <1>2, <2>9 DEF Pos
<1>8. DOMAIN s = 1 .. c BY <1>1
<1>9. c = Cardinality(Rows(k)) BY DEF c
<1> QED BY <1>1, <1>6, <1>7, <1>8, <1>9

LEMMA SlicesByPosition ==
  ASSUME IsFiniteSet(Item), NEW k \in [Item -> Nat], ~Ties(k),
         NEW s \in SetToSeqs(Rows(k)), Sorted(k, s), NEW p, NEW i \in Rows(k), InPage(Pos(k, i), p)
  PROVE  i \in Slice(s, p)
<1>1. PICK n \in DOMAIN s : s[n] = i BY RowsInOrder
<1>2. Pos(k, i) = n BY <1>1, RowsInOrder
<1> QED BY <1>1, <1>2 DEF Slice, InPage

\* A change of one row shifts the others by one place at most, and all of them
\* the same way.
LEMMA Shifts ==
  ASSUME IsFiniteSet(Item), NEW k \in [Item -> Nat], NEW c \in Item, NEW v \in Nat, NEW h,
         h = [k EXCEPT ![c] = v], NEW i \in Rows(k), i # c
  PROVE  /\ v > k[c] => Pos(h, i) = Pos(k, i) \/ Pos(h, i) = Pos(k, i) + 1
         /\ v < k[c] => Pos(h, i) = Pos(k, i) \/ Pos(h, i) = Pos(k, i) - 1
<1>1. h[c] = v /\ \A j \in Item \ {c} : h[j] = k[j] OBVIOUS
<1>2. k[i] \in Nat /\ k[i] # 0 /\ k[c] \in Nat /\ h[i] = k[i] BY <1>1 DEF Rows, NoRow
<1>3. \A j \in Item : j \in Before(k, i) <=> k[j] > k[i] BY <1>2 DEF Before, Rows, NoRow
<1>4. \A j \in Item : j \in Before(h, i) <=> h[j] > k[i] BY <1>1, <1>2 DEF Before, Rows, NoRow
<1>5. Before(k, i) \subseteq Item /\ Before(h, i) \subseteq Item BY DEF Before, Rows
<1>6. Before(k, i) \ {c} = Before(h, i) \ {c} BY <1>1, <1>3, <1>4, <1>5
<1>7. /\ IsFiniteSet(Before(k, i)) /\ IsFiniteSet(Before(h, i))
      /\ Cardinality(Before(k, i)) \in Nat /\ Cardinality(Before(h, i)) \in Nat
  BY Positions
<1>8. ASSUME v > k[c]
      PROVE  Before(h, i) = Before(k, i) \/ (Before(h, i) = Before(k, i) \cup {c} /\ c \notin Before(k, i))
  <2>1. k[c] > k[i] => v > k[i] BY <1>2, <1>8
  <2>2. c \in Before(k, i) => c \in Before(h, i) BY <1>1, <1>3, <1>4, <2>1
  <2>3. CASE c \in Before(k, i) \/ c \notin Before(h, i)
    <3>1. \A j : j \in Before(h, i) <=> j \in Before(k, i) BY <1>6, <2>2, <2>3
    <3> QED BY <3>1
  <2>4. CASE c \notin Before(k, i) /\ c \in Before(h, i)
    <3>1. \A j : j \in Before(h, i) <=> j \in Before(k, i) \cup {c} BY <1>6, <2>4
    <3> QED BY <2>4, <3>1
  <2> QED BY <2>3, <2>4
<1>9. ASSUME v < k[c]
      PROVE  Before(h, i) = Before(k, i) \/ (Before(h, i) = Before(k, i) \ {c} /\ c \in Before(k, i))
  <2>1. v > k[i] => k[c] > k[i] BY <1>2, <1>9
  <2>2. c \in Before(h, i) => c \in Before(k, i) BY <1>1, <1>3, <1>4, <2>1
  <2>3. CASE c \in Before(h, i) \/ c \notin Before(k, i)
    <3>1. \A j : j \in Before(h, i) <=> j \in Before(k, i) BY <1>6, <2>2, <2>3
    <3> QED BY <3>1
  <2>4. CASE c \notin Before(h, i) /\ c \in Before(k, i)
    <3>1. \A j : j \in Before(h, i) <=> j \in Before(k, i) \ {c} BY <1>6, <2>4
    <3> QED BY <2>4, <3>1
  <2> QED BY <2>3, <2>4
<1>10. c \notin Before(k, i) => Cardinality(Before(k, i) \cup {c}) = Cardinality(Before(k, i)) + 1
  BY <1>7, FS_AddElement
<1>11. c \in Before(k, i) => Cardinality(Before(k, i) \ {c}) = Cardinality(Before(k, i)) - 1
  BY <1>7, FS_RemoveElement
<1>12. ASSUME v > k[c] PROVE Pos(h, i) = Pos(k, i) \/ Pos(h, i) = Pos(k, i) + 1
  BY <1>7, <1>8, <1>10, <1>12 DEF Pos
<1>13. ASSUME v < k[c] PROVE Pos(h, i) = Pos(k, i) \/ Pos(h, i) = Pos(k, i) - 1
  <2>1. \/ Cardinality(Before(h, i)) = Cardinality(Before(k, i))
        \/ Cardinality(Before(h, i)) = Cardinality(Before(k, i)) - 1
    BY <1>9, <1>11, <1>13
  <2> QED BY <1>7, <2>1 DEF Pos
<1> QED BY <1>12, <1>13

-----------------------------------------------------------------------------
\* Of the numbers up to last, a set without neighbours has half at most.
LEMMA Sparse ==
  ASSUME NEW last \in Nat, NEW Q, Q \subseteq 1 .. last, NEW d \in Int,
         \A q \in Q : q + d \in 1 .. last /\ q + d \notin Q
  PROVE  IsFiniteSet(Q) /\ Cardinality(Q) \in Nat /\ Cardinality(Q) <= last \div 2
<1> DEFINE P == {q + d : q \in Q}
           f == [q \in Q |-> q + d]
<1>1. IsFiniteSet(1 .. last) /\ Cardinality(1 .. last) = last BY FS_Interval
<1>2. P \subseteq 1 .. last /\ Q \cap P = {} OBVIOUS
<1>3. IsFiniteSet(Q) /\ IsFiniteSet(P) BY <1>1, <1>2, FS_Subset
<1>4. f \in [Q -> P] OBVIOUS
<1>5. \A x, y \in Q : f[x] = f[y] => x = y
  <2>1. \A x, y \in Int : x + d = y + d => x = y OBVIOUS
  <2> QED BY <2>1
<1> HIDE DEF P, f
<1>6. Cardinality(Q) <= Cardinality(P) /\ Cardinality(Q) \in Nat /\ Cardinality(P) \in Nat
  <2>1. f \in Injection(Q, P) BY <1>4, <1>5, Fun_IsInj
  <2> QED BY <1>3, <2>1, FS_Injection, FS_CardinalityType
<1>7. Cardinality(Q \cup P) = Cardinality(Q) + Cardinality(P)
  <2>1. Cardinality(Q \cup P) = Cardinality(Q) + Cardinality(P) - Cardinality(Q \cap P)
    BY <1>3, FS_Union, Zenon
  <2>2. Cardinality(Q \cap P) = 0 BY <1>2, FS_EmptySet, Zenon
  <2> QED BY <1>6, <2>1, <2>2
<1>8. Cardinality(Q \cup P) <= last
  <2>1. Q \cup P \subseteq 1 .. last BY <1>2
  <2> QED BY <1>1, <2>1, FS_Subset
<1> QED BY <1>3, <1>6, <1>7, <1>8

-----------------------------------------------------------------------------
(* The invariant of Paging.  A position is passed when its page has been     *)
(* read, or is not asked for: an untouched row that comes there unread is    *)
(* lost.  A change moves rows by one position, so it loses at most one row   *)
(* at each edge between a passed page and one that is still to be read, and  *)
(* two such edges of one direction are a page apart.                         *)
Passed(n) ==
  \/ \E p \in DOMAIN page : InPage(n, p)
  \/ total # Uncounted /\ n > End(TotalPages(total))

Lost == {i \in kept : i \notin Fetched /\ Passed(Pos(key, i))}
\* Most rows one change can lose: half of the pages, or one of a single page.
Weight == IF total > PageSize THEN TotalPages(total) \div 2 ELSE 1

\* What is stored, counted and asked for fits together; ties are remembered.
PagesSound ==
  /\ key \in [Item -> Nat]
  /\ page \in [DOMAIN page -> SUBSET Item] /\ DOMAIN page \subseteq Page
  /\ total = Uncounted \/ (total \in Nat /\ total <= Cardinality(Item))
  /\ kept \subseteq Rows(key) /\ changes \in Nat
  /\ DOMAIN page # {} => 1 \in DOMAIN page
  /\ total = Uncounted => DOMAIN page \subseteq {1}
  /\ total # Uncounted => DOMAIN page \subseteq 1 .. TotalPages(total)
  /\ tied \in BOOLEAN /\ (~tied => ~Ties(key))

\* Inductive: what is lost by now is paid for by the changes so far.
LossInv == PagesSound /\ (~tied => Cardinality(Lost) <= changes * Weight)

LEMMA PresentRows == Present = Rows(key)
BY DEF Present, Rows

LEMMA Weights ==
  ASSUME PagesSound
  PROVE  /\ Weight \in Nat /\ Weight >= 1
         /\ total # Uncounted => total \in Nat /\ TotalPages(total) \in Nat /\ TotalPages(total) >= 1
         /\ total # Uncounted /\ TotalPages(total) >= 2 => Weight = TotalPages(total) \div 2
<1>1. CASE total = Uncounted
  <2>1. ~(total > PageSize) BY <1>1, PageSizeAssumption DEF Uncounted
  <2> QED BY <1>1, <2>1 DEF Weight
<1>2. CASE total # Uncounted
  <2>1. total \in Nat BY <1>2 DEF PagesSound
  <2>2. /\ TotalPages(total) \in Nat /\ TotalPages(total) >= 1
        /\ total > PageSize => TotalPages(total) >= 2
        /\ total <= PageSize => TotalPages(total) = 1
    BY <2>1, PagesHoldAll
  <2>3. total > PageSize \/ total <= PageSize BY <2>1, PageSizeAssumption
  <2>4. total > PageSize => Weight = TotalPages(total) \div 2 BY DEF Weight
  <2>5. total <= PageSize => Weight = 1 BY <2>1, PageSizeAssumption DEF Weight
  <2>6. \A n \in Nat : n >= 2 => n \div 2 \in Nat /\ n \div 2 >= 1 OBVIOUS
  <2>7. TotalPages(total) >= 2 => total > PageSize BY <2>2, <2>3
  <2> QED BY <2>1, <2>2, <2>3, <2>4, <2>5, <2>6, <2>7
<1> QED BY <1>1, <1>2

LEMMA PagesAreNumbers == PagesSound => \A p \in DOMAIN page : p \in Int /\ p >= 1
BY DEF PagesSound, Page

\* Places that a removal before them moves into a page already read.
LEMMA EdgesBelow ==
  ASSUME PagesSound, NEW N, N \subseteq Nat, \A n \in N : n >= 2 /\ ~Passed(n) /\ Passed(n - 1)
  PROVE  IsFiniteSet(N) /\ Cardinality(N) \in Nat /\ Cardinality(N) <= Weight
<1> DEFINE last == TotalPages(total)
           Q == {q \in DOMAIN page : q + 1 \notin DOMAIN page /\ (total # Uncounted => q + 1 <= last)}
           f == [n \in N |-> CHOOSE q \in Q : n = End(q) + 1]
<1>1. ASSUME NEW n \in N PROVE \E q \in Q : n = End(q) + 1
  <2>1. n \in Nat /\ n >= 2 /\ n - 1 \in Int /\ ~Passed(n) /\ Passed(n - 1) OBVIOUS
  <2>2. total # Uncounted => last \in Int /\ End(last) \in Int /\ n <= End(last)
    <3>1. ASSUME total # Uncounted PROVE last \in Int /\ End(last) \in Int
      <4>1. last \in Int BY <3>1, Weights
      <4> QED BY <4>1, PageEnds
    <3>2. ASSUME total # Uncounted PROVE ~(n > End(last)) BY <2>1, <3>2 DEF Passed
    <3> HIDE DEF last
    <3> QED BY <2>1, <3>1, <3>2
  <2>3. total # Uncounted => ~(n - 1 > End(last))
    <3> HIDE DEF last
    <3> QED BY <2>1, <2>2
  <2>4. PICK q \in DOMAIN page : InPage(n - 1, q) BY <2>1, <2>3 DEF Passed
  <2>5. q \in Int /\ q + 1 \in Int /\ End(q) \in Int /\ End(q + 1) = End(q) + PageSize
        /\ PageSize \in Nat /\ PageSize >= 1
    <3> HIDE DEF Q, f, last
    <3>1. q \in Int BY PagesAreNumbers
    <3>2. q + 1 \in Int /\ End(q) \in Int /\ End(q + 1) = End(q) + PageSize BY <3>1, NextPageEnds
    <3> QED BY <3>1, <3>2, PageSizeAssumption
  <2>6. End(q) - PageSize < n - 1 /\ n - 1 <= End(q) BY <2>1, <2>4, <2>5, PageEnds
  <2>7. ~InPage(n, q) BY <2>1 DEF Passed
  <2>8. ~(End(q) - PageSize < n /\ n <= End(q)) BY <2>1, <2>5, <2>7, PageEnds
  <2>9. n = End(q) + 1 BY <2>1, <2>5, <2>6, <2>8
  <2>10. InPage(n, q + 1)
    <3>1. End(q + 1) - PageSize < n /\ n <= End(q + 1) BY <2>5, <2>9
    <3> QED BY <2>1, <2>5, <3>1, PageEnds
  <2>11. q + 1 \notin DOMAIN page BY <2>1, <2>10 DEF Passed
  <2>12. ASSUME total # Uncounted PROVE q + 1 <= last
    <3>1. q <= last
      <4>1. q \in 1 .. last BY <2>12 DEF PagesSound
      <4> QED BY <4>1
    <3>2. q # last BY <2>2, <2>5, <2>9, <2>12
    <3>3. last \in Int BY <2>2, <2>12
    <3> HIDE DEF last
    <3> QED BY <2>5, <3>1, <3>2, <3>3
  <2> QED BY <2>9, <2>11, <2>12
<1>2. \A n \in N : f[n] \in Q /\ n = End(f[n]) + 1 BY <1>1
<1>3. f \in [N -> Q] BY <1>2
<1>4. \A x, y \in N : f[x] = f[y] => x = y BY <1>2
<1>5. Q \subseteq DOMAIN page OBVIOUS
<1>6. \A q \in Q : q \in Int /\ q >= 1 /\ q + 1 \notin Q BY PagesAreNumbers
<1>7. IsFiniteSet(Q) /\ Cardinality(Q) <= Weight /\ Cardinality(Q) \in Nat
  <2>1. CASE total = Uncounted
    <3>1. Q \subseteq {1} BY <1>5, <2>1 DEF PagesSound
    <3> HIDE DEF Q
    <3>2. IsFiniteSet(Q) /\ Cardinality(Q) <= 1 /\ Cardinality(Q) \in Nat
      BY <3>1, OneAtMost
    <3> QED BY <3>2, Weights
  <2>2. CASE total # Uncounted
    <3>1. last \in Nat BY <2>2, Weights
    <3>2. \A q \in Q : q + 1 <= last BY <2>2
    <3> HIDE DEF Q, last
    <3>3. \A q \in Q : q \in 1 .. last /\ q + 1 \in 1 .. last /\ q + 1 \notin Q
      BY <1>6, <3>1, <3>2
    <3>4. IsFiniteSet(Q) /\ Cardinality(Q) \in Nat /\ Cardinality(Q) <= last \div 2
      <4>1. Q \subseteq 1 .. last /\ 1 \in Int BY <3>3
      <4> QED BY <3>1, <3>3, <4>1, Sparse
    <3>5. CASE last >= 2
      <4>1. Weight = last \div 2 BY <2>2, <3>5, Weights DEF last
      <4> QED BY <3>4, <4>1
    <3>6. CASE ~(last >= 2)
      <4>1. last \div 2 = 0 BY <3>1, <3>6
      <4> QED BY <3>1, <3>4, <4>1, Weights
    <3> QED BY <3>5, <3>6
  <2> QED BY <2>1, <2>2
<1> HIDE DEF Q, f, last
<1>8. IsFiniteSet(N) /\ Cardinality(N) <= Cardinality(Q) /\ Cardinality(N) \in Nat
  <2>1. f \in Injection(N, Q) BY <1>3, <1>4, Fun_IsInj
  <2> QED BY <1>7, <2>1, FS_Injection, FS_CardinalityType
<1>9. Weight \in Nat BY Weights
<1> QED BY <1>7, <1>8, <1>9

\* Places that an addition before them moves into a page already read, or out
\* of the last page.
LEMMA EdgesAbove ==
  ASSUME PagesSound, NEW N, N \subseteq Nat, \A n \in N : n >= 1 /\ ~Passed(n) /\ Passed(n + 1)
  PROVE  IsFiniteSet(N) /\ Cardinality(N) \in Nat /\ Cardinality(N) <= Weight
<1> DEFINE last == TotalPages(total)
           R == {r \in 1 .. last : r \notin DOMAIN page /\ (r + 1 \in DOMAIN page \/ r = last)}
           f == [n \in N |-> CHOOSE r \in R : n = End(r)]
<1>0. PageSize \in Nat /\ PageSize >= 1 BY PageSizeAssumption
<1>1. CASE total = Uncounted
  <2>1. ASSUME NEW n \in N PROVE FALSE
    <3>1. n \in Nat /\ n >= 1 /\ n + 1 \in Int /\ ~Passed(n) /\ Passed(n + 1) OBVIOUS
    <3>2. 1 \in DOMAIN page /\ InPage(n + 1, 1) BY <1>1, <3>1 DEF Passed, PagesSound
    <3>3. End(1) = PageSize
      <4>1. End(0 + 1) = End(0) + PageSize BY PageEnds
      <4> QED BY <1>0, <4>1, PageEnds
    <3>4. n + 1 <= PageSize BY <3>1, <3>2, <3>3, PageEnds
    <3>5. InPage(n, 1)
      <4>1. End(1) - PageSize < n /\ n <= End(1) BY <1>0, <3>1, <3>3, <3>4
      <4> QED BY <3>1, <4>1, PageEnds
    <3> QED BY <3>1, <3>2, <3>5 DEF Passed
  <2>2. N = {} BY <2>1
  <2> QED BY <2>2, FS_EmptySet, Weights
<1>2. CASE total # Uncounted
  <2>1. last \in Nat /\ last >= 1 /\ last \in Int BY <1>2, Weights
  <2>2. ASSUME NEW n \in N PROVE \E r \in R : n = End(r)
    <3>1. n \in Nat /\ n >= 1 /\ n + 1 \in Int /\ ~Passed(n) /\ Passed(n + 1) OBVIOUS
    <3>2. End(last) \in Int /\ ~(n > End(last)) BY <1>2, <2>1, <3>1, PageEnds DEF Passed
    <3>3. ASSUME NEW r \in Int, n = End(r) PROVE r \notin DOMAIN page /\ r >= 1
      <4>1. End(r) - PageSize < n /\ n <= End(r) BY <1>0, <3>1, <3>3
      <4>2. InPage(n, r) BY <3>1, <3>3, <4>1, PageEnds
      <4>3. r # 0 BY <3>1, <3>3, PageEnds
      <4>4. ~(r < 0)
        <5>1. r < 0 => End(r) < End(0) BY LaterPagesEndLater
        <5> QED BY <3>1, <3>3, <5>1, PageEnds
      <4> QED BY <3>1, <4>2, <4>3, <4>4 DEF Passed
    <3>4. CASE n + 1 > End(last)
      <4>1. n = End(last)
        <5> HIDE DEF last
        <5> QED BY <3>1, <3>2, <3>4
      <4>2. last \in R BY <2>1, <3>3, <4>1
      <4> QED BY <4>1, <4>2
    <3>5. CASE ~(n + 1 > End(last))
      <4>1. PICK q \in DOMAIN page : InPage(n + 1, q) BY <3>1, <3>5 DEF Passed
      <4>2. q \in Int /\ q - 1 \in Int /\ q >= 1 /\ q = (q - 1) + 1 BY PagesAreNumbers
      <4>3. End(q) \in Int /\ End(q - 1) \in Int /\ End(q) = End(q - 1) + PageSize
        BY <4>2, PageEnds
      <4>4. End(q) - PageSize < n + 1 /\ n + 1 <= End(q) BY <3>1, <4>1, <4>2, PageEnds
      <4>5. ~InPage(n, q) BY <3>1 DEF Passed
      <4>6. ~(End(q) - PageSize < n /\ n <= End(q)) BY <3>1, <4>2, <4>5, PageEnds
      <4>7. n = End(q - 1) BY <1>0, <3>1, <4>3, <4>4, <4>6
      <4>8. q - 1 \notin DOMAIN page /\ q - 1 >= 1 BY <3>3, <4>2, <4>7
      <4>9. q \in 1 .. last BY <1>2 DEF PagesSound
      <4>10. q - 1 \in R
        <5> HIDE DEF last
        <5>1. q - 1 \in 1 .. last BY <2>1, <4>2, <4>8, <4>9
        <5> USE DEF last
        <5> QED BY <4>2, <4>8, <5>1
      <4> QED BY <4>7, <4>10
    <3> QED BY <3>4, <3>5
  <2>3. \A n \in N : f[n] \in R /\ n = End(f[n]) BY <2>2
  <2>4. f \in [N -> R] BY <2>3
  <2>5. \A x, y \in N : f[x] = f[y] => x = y BY <2>3
  <2>6. \A r \in R : r \in 1 .. last /\ r \notin DOMAIN page /\ (r + 1 \in DOMAIN page \/ r = last)
    OBVIOUS
  <2> HIDE DEF R, f
  <2>7. IsFiniteSet(R) /\ Cardinality(R) <= Weight /\ Cardinality(R) \in Nat
    <3>1. CASE last >= 2
      <4>1. Weight = last \div 2 BY <1>2, <3>1, Weights
      <4>2. 1 \notin R
        <5>1. SUFFICES ASSUME 1 \in R PROVE FALSE OBVIOUS
        <5>2. 1 \notin DOMAIN page /\ DOMAIN page # {}
          <6>1. 1 # last BY <2>1, <3>1
          <6> QED BY <2>6, <5>1, <6>1
        <5> QED BY <5>2 DEF PagesSound
      <4>3. ASSUME NEW r \in R PROVE r + (-1) \in 1 .. last /\ r + (-1) \notin R
        <5>1. r \in 1 .. last /\ r # 1 /\ r \notin DOMAIN page BY <2>6, <4>2
        <5> HIDE DEF last
        <5>2. r + (-1) \in 1 .. last /\ (r + (-1)) + 1 = r /\ r + (-1) # last BY <2>1, <5>1
        <5>3. r + (-1) \notin R
          <6> USE DEF last
          <6> QED BY <2>6, <5>1, <5>2
        <5> QED BY <5>2, <5>3
      <4>4. R \subseteq 1 .. last BY <2>6
      <4>5. -1 \in Int OBVIOUS
      <4> HIDE DEF last
      <4> QED BY <2>1, <4>1, <4>3, <4>4, <4>5, Sparse
    <3>2. CASE ~(last >= 2)
      <4>1. R \subseteq {1}
        <5>1. last = 1
          <6> HIDE DEF last
          <6> QED BY <2>1, <3>2
        <5>2. R \subseteq 1 .. last BY <2>6
        <5>3. 1 .. 1 = {1} OBVIOUS
        <5> QED BY <5>1, <5>2, <5>3
      <4>2. IsFiniteSet(R) /\ Cardinality(R) <= 1 /\ Cardinality(R) \in Nat
        BY <4>1, OneAtMost
      <4> QED BY <4>2, Weights
    <3> QED BY <3>1, <3>2
  <2> HIDE DEF last
  <2>8. IsFiniteSet(N) /\ Cardinality(N) <= Cardinality(R) /\ Cardinality(N) \in Nat
    <3>1. f \in Injection(N, R) BY <2>4, <2>5, Fun_IsInj
    <3> QED BY <2>7, <3>1, FS_Injection, FS_CardinalityType
  <2>9. Weight \in Nat BY Weights
  <2> QED BY <2>7, <2>8, <2>9
<1> QED BY <1>1, <1>2

-----------------------------------------------------------------------------
(* The steps of Paging.                                                      *)

LEMMA PagingStarts == PagingInit => LossInv
<1> SUFFICES ASSUME PagingInit PROVE LossInv OBVIOUS
<1> USE DEF PagingInit
<1>1. DOMAIN page = {} OBVIOUS
<1>2. key \in [Item -> Nat]
  <2>1. Key \cup {NoRow} \subseteq Nat BY PagingBound DEF NoRow
  <2> QED BY <2>1
<1>3. kept \subseteq Rows(key) BY PresentRows
<1>4. page \in [DOMAIN page -> SUBSET Item] BY <1>1
<1>5. tied \in BOOLEAN /\ (~tied => ~Ties(key)) BY DEF Ties
<1>6. PagesSound BY <1>1, <1>2, <1>3, <1>4, <1>5 DEF PagesSound
<1>7. Lost = {} BY <1>1 DEF Lost, Passed
<1>8. Cardinality(Lost) = 0 BY <1>7, FS_EmptySet
<1>9. changes * Weight = 0 BY <1>6, Weights
<1> QED BY <1>6, <1>8, <1>9 DEF LossInv

LEMMA LostAreRows ==
  ASSUME IsFiniteSet(Item), PagesSound
  PROVE  /\ IsFiniteSet(Lost) /\ Cardinality(Lost) \in Nat
         /\ \A i \in kept : i \in Item /\ i \in Rows(key) /\ key[i] \in Nat
<1>1. \A i \in kept : i \in Item /\ i \in Rows(key) /\ key[i] \in Nat BY DEF PagesSound, Rows
<1>2. Lost \subseteq Item BY <1>1 DEF Lost
<1> QED BY <1>1, <1>2, FS_Subset, FS_CardinalityType

LEMMA CountKeeps ==
  ASSUME IsFiniteSet(Item), LossInv, Count
  PROVE  LossInv'
<1>1. /\ total = Uncounted /\ total' = Cardinality(Rows(key))
      /\ UNCHANGED <<key, page, kept, changes, tied>>
  BY PresentRows DEF Count
<1>2. total' \in Nat /\ total' <= Cardinality(Item) /\ total' # Uncounted
  <2>1. Cardinality(Rows(key)) \in Nat /\ Cardinality(Rows(key)) <= Cardinality(Item) BY Positions
  <2> QED BY <1>1, <2>1 DEF Uncounted
<1>3. /\ TotalPages(total') \in Nat /\ TotalPages(total') >= 1
      /\ total' <= End(TotalPages(total'))
  BY <1>2, PagesHoldAll
<1>4. DOMAIN page \subseteq {1} /\ PagesSound BY <1>1 DEF LossInv, PagesSound
<1>5. DOMAIN page \subseteq 1 .. TotalPages(total') BY <1>3, <1>4
<1>6. PagesSound' BY <1>1, <1>2, <1>4, <1>5 DEF PagesSound
<1>7. Lost' \subseteq Lost
  <2> SUFFICES ASSUME NEW i \in kept, i \notin Fetched, Passed(Pos(key, i))' PROVE i \in Lost
    BY <1>1 DEF Lost, Fetched
  <2>1. Pos(key, i) \in Nat /\ Pos(key, i) <= total'
    <3>1. i \in Rows(key) /\ key \in [Item -> Nat] BY <1>4 DEF PagesSound
    <3> QED BY <1>1, <3>1, Positions, PositionsWithin
  <2>2. End(TotalPages(total')) \in Int BY <1>3, NextPageEnds
  <2>3. ~(Pos(key, i) > End(TotalPages(total'))) BY <1>2, <1>3, <2>1, <2>2
  <2>4. \E p \in DOMAIN page : InPage(Pos(key, i), p) BY <1>1, <2>3 DEF Passed
  <2> QED BY <2>4 DEF Lost, Passed
<1>8. ASSUME ~tied' PROVE Cardinality(Lost') <= changes' * Weight'
  <2>1. Cardinality(Lost) <= changes * Weight BY <1>1, <1>8 DEF LossInv
  <2>2. IsFiniteSet(Lost) /\ Cardinality(Lost) \in Nat BY <1>4, LostAreRows
  <2>3. Cardinality(Lost') <= Cardinality(Lost) /\ Cardinality(Lost') \in Nat
    BY <1>7, <2>2, FS_Subset, FS_CardinalityType
  <2>4. Weight = 1
    <3>1. ~(total > PageSize) BY <1>1, PageSizeAssumption DEF Uncounted
    <3> QED BY <3>1 DEF Weight
  <2>5. Weight' \in Nat /\ Weight' >= 1
    <3>1. /\ total' > PageSize => TotalPages(total') >= 2 BY <1>2, PagesHoldAll
    <3>2. \A n \in Nat : n >= 2 => n \div 2 \in Nat /\ n \div 2 >= 1 OBVIOUS
    <3>3. Weight' = IF total' > PageSize THEN TotalPages(total') \div 2 ELSE 1 BY DEF Weight
    <3> QED BY <1>3, <3>1, <3>2, <3>3
  <2>6. changes \in Nat /\ changes' = changes BY <1>1, <1>4 DEF PagesSound
  <2>7. \A c, w \in Nat : w >= 1 => c * 1 <= c * w
    <3>1. SUFFICES ASSUME NEW c \in Nat, NEW w \in Nat, w >= 1 PROVE c * 1 <= c * w OBVIOUS
    <3>2. \A d, e \in Nat : d * e \in Nat OBVIOUS
    <3>3. c * (w - 1) \in Nat BY <3>1, <3>2
    <3>4. c * w = c * 1 + c * (w - 1) BY <3>1
    <3>5. c * 1 \in Nat OBVIOUS
    <3> QED BY <3>3, <3>4, <3>5
  <2>8. changes * 1 <= changes * Weight' BY <2>5, <2>6, <2>7
  <2>9. changes * Weight' \in Nat /\ changes * 1 \in Nat
    <3>1. \A d, e \in Nat : d * e \in Nat OBVIOUS
    <3> QED BY <2>5, <2>6, <3>1
  <2>10. Cardinality(Lost) <= changes * 1 BY <2>1, <2>4
  <2>11. Cardinality(Lost') <= changes * Weight' BY <2>2, <2>3, <2>8, <2>9, <2>10
  <2> QED BY <2>6, <2>11
<1> QED BY <1>6, <1>8 DEF LossInv

LEMMA ReadKeeps ==
  ASSUME IsFiniteSet(Item), LossInv, NEW p \in Page, ReadPage(p)
  PROVE  LossInv'
<1>1. UNCHANGED <<key, total, kept, changes, tied>> BY DEF ReadPage
<1>2. PICK s \in Orders :
        page' = [q \in DOMAIN page \cup {p} |-> IF q = p THEN Slice(s, p) ELSE page[q]]
  BY DEF ReadPage
<1>3. Slice(s, p) \subseteq Rows(key)
  <2>1. s \in SetToSeqs(Rows(key)) BY <1>2, PresentRows DEF Orders
  <2>2. s \in [1 .. Cardinality(Rows(key)) -> Rows(key)] BY <2>1 DEF SetToSeqs
  <2> QED BY <2>2 DEF Slice
<1>4. PagesSound /\ p \notin DOMAIN page BY DEF LossInv, ReadPage
<1>5. /\ DOMAIN page' = DOMAIN page \cup {p}
      /\ page'[p] = Slice(s, p) /\ \A q \in DOMAIN page : page'[q] = page[q]
  BY <1>2, <1>4
<1>6. page' \in [DOMAIN page' -> SUBSET Item]
  <2>1. page' = [q \in DOMAIN page' |-> page'[q]] BY <1>2
  <2>2. \A q \in DOMAIN page : page[q] \subseteq Item BY <1>4 DEF PagesSound
  <2>3. \A q \in DOMAIN page' : page'[q] \in SUBSET Item BY <1>3, <1>5, <2>2 DEF Rows
  <2> QED BY <2>1, <2>3
<1>7. PagesSound'
  <2>1. 1 \in DOMAIN page' /\ DOMAIN page' \subseteq Page BY <1>4, <1>5 DEF ReadPage, Requested, PagesSound
  <2>2. total = Uncounted => DOMAIN page' \subseteq {1}
    BY <1>4, <1>5 DEF ReadPage, Requested, PagesSound
  <2>3. total # Uncounted => DOMAIN page' \subseteq 1 .. TotalPages(total)
    <3>1. SUFFICES ASSUME total # Uncounted PROVE p \in 1 .. TotalPages(total)
      BY <1>4, <1>5 DEF PagesSound
    <3>2. TotalPages(total) \in Nat /\ TotalPages(total) >= 1 BY <1>4, <3>1, Weights
    <3>3. p = 1 \/ p <= TotalPages(total) BY DEF ReadPage, Requested
    <3>4. p \in Int /\ p >= 1 BY DEF Page
    <3> QED BY <3>2, <3>3, <3>4
  <2> QED BY <1>1, <1>4, <1>6, <2>1, <2>2, <2>3 DEF PagesSound
<1>8. Fetched \subseteq Fetched' /\ Slice(s, p) \subseteq Fetched' BY <1>5 DEF Fetched
<1>9. ASSUME ~tied' PROVE Lost' \subseteq Lost
  <2> SUFFICES ASSUME NEW i \in kept, i \notin Fetched', Passed(Pos(key, i))' PROVE i \in Lost
    BY <1>1 DEF Lost
  <2>1. i \notin Slice(s, p) /\ i \notin Fetched BY <1>8
  <2>2. i \in Rows(key) /\ key \in [Item -> Nat] /\ ~Ties(key) BY <1>1, <1>4, <1>9 DEF PagesSound
  <2>3. s \in SetToSeqs(Rows(key)) /\ Sorted(key, s) BY <1>2, PresentRows DEF Orders, Sorted
  <2>4. ~InPage(Pos(key, i), p) BY <2>1, <2>2, <2>3, SlicesByPosition
  <2>5. Passed(Pos(key, i)) BY <1>1, <1>5, <2>4 DEF Passed
  <2> QED BY <2>1, <2>5 DEF Lost
<1>10. ASSUME ~tied' PROVE Cardinality(Lost') <= changes' * Weight'
  <2>1. Weight' = Weight BY <1>1 DEF Weight
  <2>2. Cardinality(Lost) <= changes * Weight BY <1>1, <1>10 DEF LossInv
  <2>3. IsFiniteSet(Lost) /\ Cardinality(Lost) \in Nat BY <1>4, LostAreRows
  <2>4. Cardinality(Lost') <= Cardinality(Lost) /\ Cardinality(Lost') \in Nat
    BY <1>9, <1>10, <2>3, FS_Subset, FS_CardinalityType
  <2>5. changes * Weight \in Nat
    <3>1. changes \in Nat /\ Weight \in Nat BY <1>4, Weights DEF PagesSound
    <3>2. \A d, e \in Nat : d * e \in Nat OBVIOUS
    <3> QED BY <3>1, <3>2
  <2>6. Cardinality(Lost') <= changes * Weight BY <2>2, <2>3, <2>4, <2>5
  <2> QED BY <1>1, <2>1, <2>6
<1> QED BY <1>7, <1>10 DEF LossInv

\* Rows that a change moves into a page already read: one at each second page.
LEMMA ChangeLoses ==
  ASSUME IsFiniteSet(Item), PagesSound, NEW c \in Item, NEW v \in Nat, NEW h,
         h = [key EXCEPT ![c] = v], v # key[c], ~Ties(key),
         NEW New, New = {i \in kept \ {c} : ~Passed(Pos(key, i)) /\ Passed(Pos(h, i))}
  PROVE  IsFiniteSet(New) /\ Cardinality(New) \in Nat /\ Cardinality(New) <= Weight
<1> DEFINE N == {Pos(key, i) : i \in New}
           f == [i \in New |-> Pos(key, i)]
<1>1. key \in [Item -> Nat] BY DEF PagesSound
<1>2. \A i \in New : i \in Rows(key) /\ i # c BY DEF PagesSound
<1>3. f \in [New -> N] OBVIOUS
<1>4. \A x, y \in New : f[x] = f[y] => x = y BY <1>1, <1>2, OnePosition
<1>5. \A i \in New : ~Passed(Pos(key, i)) /\ Passed(Pos(h, i)) OBVIOUS
<1>6. \A i \in New : Pos(key, i) \in Nat /\ Pos(key, i) >= 1 /\ Pos(h, i) \in Nat /\ Pos(h, i) >= 1
  BY Positions
<1>7. N \subseteq Nat BY <1>6
<1>8. IsFiniteSet(N) /\ Cardinality(N) \in Nat /\ Cardinality(N) <= Weight
  <2>1. CASE v > key[c]
    <3>1. ASSUME NEW i \in New
          PROVE  Pos(key, i) >= 1 /\ ~Passed(Pos(key, i)) /\ Passed(Pos(key, i) + 1)
      <4>1. Pos(h, i) = Pos(key, i) \/ Pos(h, i) = Pos(key, i) + 1
        <5>1. i \in Rows(key) /\ i # c BY <1>2
        <5> QED BY ONLY IsFiniteSet(Item), h = [key EXCEPT ![c] = v],
              c \in Item, v \in Nat, <1>1, <2>1, <5>1, Shifts
      <4> QED BY <1>5, <1>6, <4>1
    <3>2. \A n \in N : n >= 1 /\ ~Passed(n) /\ Passed(n + 1) BY <3>1
    <3> HIDE DEF N
    <3> QED BY <1>7, <3>2, EdgesAbove
  <2>2. CASE v < key[c]
    <3>1. ASSUME NEW i \in New
          PROVE  Pos(key, i) >= 2 /\ ~Passed(Pos(key, i)) /\ Passed(Pos(key, i) - 1)
      <4>1. Pos(h, i) = Pos(key, i) \/ Pos(h, i) = Pos(key, i) - 1
        <5>1. i \in Rows(key) /\ i # c BY <1>2
        <5> QED BY ONLY IsFiniteSet(Item), h = [key EXCEPT ![c] = v],
              c \in Item, v \in Nat, <1>1, <2>2, <5>1, Shifts
      <4>2. Pos(h, i) # Pos(key, i) BY <1>5
      <4>3. Pos(h, i) = Pos(key, i) - 1 BY <4>1, <4>2
      <4>4. Passed(Pos(key, i) - 1) BY <1>5, <4>3
      <4>5. ~Passed(Pos(key, i)) BY <1>5
      <4>6. Pos(key, i) >= 2
        <5>1. Pos(key, i) \in Nat /\ Pos(h, i) >= 1 BY <1>6
        <5> QED BY <4>3, <5>1
      <4> QED BY <4>4, <4>5, <4>6
    <3>2. \A n \in N : n >= 2 /\ ~Passed(n) /\ Passed(n - 1) BY <3>1
    <3> HIDE DEF N
    <3> QED BY <1>7, <3>2, EdgesBelow
  <2>3. v > key[c] \/ v < key[c]
    <3>1. key[c] \in Nat BY <1>1
    <3> QED BY <3>1
  <2> QED BY <2>1, <2>2, <2>3
<1> HIDE DEF N, f
<1>9. IsFiniteSet(New) /\ Cardinality(New) <= Cardinality(N) /\ Cardinality(New) \in Nat
  <2>1. f \in Injection(New, N) BY <1>3, <1>4, Fun_IsInj
  <2> QED BY <1>8, <2>1, FS_Injection, FS_CardinalityType
<1>10. Weight \in Nat BY Weights
<1> QED BY <1>8, <1>9, <1>10

LEMMA ChangeKeeps ==
  ASSUME IsFiniteSet(Item), LossInv, NEW c \in Item, Change(c)
  PROVE  LossInv'
<1>1. PICK v \in Key \cup {NoRow} :
        /\ v # key[c]
        /\ key' = [key EXCEPT ![c] = v]
        /\ changes' = changes + (IF NoRow \in {v, key[c]} THEN 1 ELSE 2)
  BY DEF Change
<1>2. /\ kept' = kept \ {c} /\ tied' = (tied \/ Ties(key')) /\ UNCHANGED <<page, total>>
      /\ PagesSound /\ v \in Nat /\ key \in [Item -> Nat]
  BY PagingBound DEF Change, LossInv, PagesSound, NoRow
<1>3. changes \in Nat /\ changes' \in Nat /\ changes + 1 <= changes'
  BY <1>1, <1>2 DEF PagesSound
<1>4. PagesSound'
  <2>1. key' \in [Item -> Nat] BY <1>1, <1>2
  <2>2. kept' \subseteq Rows(key') BY <1>1, <1>2 DEF PagesSound, Rows
  <2>3. tied' \in BOOLEAN /\ (~tied' => ~Ties(key')) BY <1>2 DEF PagesSound
  <2> QED BY <1>2, <1>3, <2>1, <2>2, <2>3 DEF PagesSound
<1>5. ASSUME ~tied' PROVE Cardinality(Lost') <= changes' * Weight'
  <2> DEFINE New == {i \in kept \ {c} : ~Passed(Pos(key, i)) /\ Passed(Pos(key', i))}
  <2>1. ~tied /\ ~Ties(key) BY <1>2, <1>5 DEF PagesSound
  <2>2. IsFiniteSet(New) /\ Cardinality(New) \in Nat /\ Cardinality(New) <= Weight
    BY <1>1, <1>2, <2>1, ChangeLoses
  <2>3. Lost' \subseteq Lost \cup New
    <3>1. Fetched' = Fetched BY <1>2 DEF Fetched
    <3>2. \A n : Passed(n)' <=> Passed(n) BY <1>2 DEF Passed
    <3> QED BY <1>2, <3>1, <3>2 DEF Lost, Passed
  <2> HIDE DEF New
  <2>4. Cardinality(Lost) <= changes * Weight BY <2>1 DEF LossInv
  <2>5. IsFiniteSet(Lost) /\ Cardinality(Lost) \in Nat BY <1>2, LostAreRows
  <2>6. /\ IsFiniteSet(Lost \cup New) /\ Cardinality(Lost \cup New) \in Nat
        /\ Cardinality(Lost \cup New) <= Cardinality(Lost) + Cardinality(New)
    <3>1. /\ IsFiniteSet(Lost \cup New)
          /\ Cardinality(Lost \cup New) = Cardinality(Lost) + Cardinality(New) - Cardinality(Lost \cap New)
      BY <2>2, <2>5, FS_Union
    <3>2. Cardinality(Lost \cap New) \in Nat BY <2>5, FS_Intersection, FS_CardinalityType
    <3>3. Cardinality(Lost \cup New) \in Nat BY <3>1, FS_CardinalityType
    <3> QED BY <2>2, <2>5, <3>1, <3>2, <3>3
  <2>7. Cardinality(Lost') \in Nat /\ Cardinality(Lost') <= Cardinality(Lost \cup New)
    BY <2>3, <2>6, FS_Subset, FS_CardinalityType
  <2>8. Weight' = Weight /\ Weight \in Nat BY <1>2, Weights DEF Weight
  <2>9. changes * Weight \in Nat /\ changes' * Weight \in Nat
        /\ changes * Weight + Weight <= changes' * Weight
    <3>1. \A d, e \in Nat : d * e \in Nat OBVIOUS
    <3>2. changes' - (changes + 1) \in Nat
      <4>1. \A d, e \in Nat : d + 1 <= e => e - (d + 1) \in Nat OBVIOUS
      <4> QED BY <1>3, <4>1
    <3>3. (changes' - (changes + 1)) * Weight \in Nat BY <2>8, <3>1, <3>2
    <3>4. changes' * Weight = changes * Weight + Weight + (changes' - (changes + 1)) * Weight
      BY <1>3, <2>8
    <3>5. changes * Weight \in Nat /\ changes' * Weight \in Nat BY <1>3, <2>8, <3>1
    <3> QED BY <2>8, <3>3, <3>4, <3>5
  <2>10. Cardinality(Lost') <= changes' * Weight
    BY <2>2, <2>4, <2>5, <2>6, <2>7, <2>8, <2>9
  <2> QED BY <2>8, <2>10
<1> QED BY <1>4, <1>5 DEF LossInv

LEMMA PagingSteps ==
  ASSUME IsFiniteSet(Item)
  PROVE  LossInv /\ [PagingNext]_pagingVars => LossInv'
<1> SUFFICES ASSUME LossInv, [PagingNext]_pagingVars PROVE LossInv' OBVIOUS
<1>1. CASE UNCHANGED pagingVars
  BY <1>1 DEF pagingVars, LossInv, PagesSound, Lost, Weight, Passed, Fetched
<1> QED BY <1>1, CountKeeps, ReadKeeps, ChangeKeeps DEF PagingNext

LEMMA LossInvBounds ==
  ASSUME IsFiniteSet(Item), LossInv
  PROVE  LossIsBounded
<1> SUFFICES ASSUME Done, ~tied PROVE Cardinality(kept \ Fetched) <= changes * Weight
  BY DEF LossIsBounded, Weight
<1>1. PagesSound /\ total # Uncounted /\ total \in Nat /\ total <= Cardinality(Item)
      /\ TotalPages(total) \in Nat /\ 1 \in DOMAIN page /\ DOMAIN page \subseteq Page
  BY Weights DEF LossInv, PagesSound, Done
<1>2. 1 .. TotalPages(total) \subseteq Page BY <1>1, PagesInBounds
<1>3. \A p \in 1 .. TotalPages(total) : p \in DOMAIN page
  <2>1. \A p \in 1 .. TotalPages(total) : p <= TotalPages(total) BY <1>1
  <2> QED BY <1>2, <2>1 DEF Done
<1>4. ASSUME NEW i \in kept, i \notin Fetched PROVE i \in Lost
  <2>1. Pos(key, i) \in Nat /\ Pos(key, i) >= 1 BY Positions
  <2>2. End(TotalPages(total)) \in Int BY <1>1, NextPageEnds
  <2>3. CASE Pos(key, i) > End(TotalPages(total)) BY <1>1, <1>4, <2>3 DEF Lost, Passed
  <2>4. CASE Pos(key, i) <= End(TotalPages(total))
    <3>1. \E p \in 1 .. TotalPages(total) : InPage(Pos(key, i), p)
      BY <1>1, <2>1, <2>4, OnSomePage
    <3> QED BY <1>3, <1>4, <3>1 DEF Lost, Passed
  <2> QED BY <2>1, <2>2, <2>3, <2>4
<1>5. kept \ Fetched \subseteq Lost BY <1>4
<1>6. IsFiniteSet(Lost) /\ Cardinality(Lost) \in Nat BY <1>1, LostAreRows
<1>7. Cardinality(kept \ Fetched) <= Cardinality(Lost) /\ Cardinality(kept \ Fetched) \in Nat
  BY <1>5, <1>6, FS_Subset, FS_CardinalityType
<1>8. Cardinality(Lost) <= changes * Weight BY DEF LossInv
<1>9. changes * Weight \in Nat
  <2>1. changes \in Nat /\ Weight \in Nat BY <1>1, Weights DEF PagesSound
  <2>2. \A d, e \in Nat : d * e \in Nat OBVIOUS
  <2> QED BY <2>1, <2>2
<1> QED BY <1>6, <1>7, <1>8, <1>9

\* A list fetched page by page, in whatever order the pages after the first
\* come and however many there are, lacks of the rows nobody touched one per
\* change and second page at most (fetchAllPages).
THEOREM LossStaysBounded == IsFiniteSet(Item) => (PagingSpec => []LossIsBounded)
<1> SUFFICES ASSUME IsFiniteSet(Item) PROVE PagingSpec => []LossIsBounded OBVIOUS
<1>1. LossInv => LossIsBounded BY LossInvBounds
<1> QED BY <1>1, PagingStarts, PagingSteps, PTL DEF PagingSpec
=============================================================================
