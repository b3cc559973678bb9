---------------------------- MODULE FeederProofs ----------------------------
(***************************************************************************)
(* Proofs about FeederIntervals: what a ComposingDatabarFeeder composes    *)
(* fits what it was given (FeederComposes), the intervals of a             *)
(* MultiIntervalFramework fit what the feeder composed (IntervalsCompose), *)
(* they keep their history (HistoriesKept), and only a bar before the      *)
(* time an interval starts at raises (RaisesOnlyEarly).                    *)
(*                                                                         *)
(* The predicates of FeederIntervals on a whole list of bars are replaced  *)
(* by one that grows bar by bar: every bar is Good, which it stays when    *)
(* later bars come, and follows the one before it (Chain).  Composing says *)
(* this of a composer that has completed some bars and composes one more;  *)
(* start_composer, advance and insert_adjacent_bar keep it, whatever the   *)
(* times, and ComposedFits goes back to Fits.  The feeder's composer and   *)
(* those of the intervals differ only in what they are given.              *)
(***************************************************************************)
EXTENDS FeederIntervals, SequenceTheorems, FiniteSetTheorems, WellFoundedInduction, TLAPS

-----------------------------------------------------------------------------
(* Numbers and days.                                                       *)
LEMMA Product ==
  ASSUME NEW d \in Nat \ {0}, NEW k \in Int
  PROVE  (d * k) % d = 0 /\ (d * k) \div d = k
OBVIOUS

(* Quotient and remainder.                                                 *)
LEMMA DivMod ==
  ASSUME NEW d \in Nat \ {0}, NEW a \in Int
  PROVE  /\ a \div d \in Int /\ a % d \in 0..d - 1
         /\ a = d * (a \div d) + (a % d)
OBVIOUS

(* The quotient of a natural is one.                                       *)
LEMMA DivNat ==
  ASSUME NEW d \in Nat \ {0}, NEW a \in Nat
  PROVE  a \div d \in Nat
<1> DEFINE q == a \div d
           r == a % d
<1>1. q \in Int /\ r \in 0..d - 1 /\ a = d * q + r
  BY DivMod
<1> HIDE DEF q, r
<1>2. CASE q < 0
  <2>1. d * q <= 0 - d
    BY <1>1, <1>2
  <2> QED BY <1>1, <2>1
<1>3. q \in Nat
  BY <1>1, <1>2
<1> QED BY <1>3 DEF q

(* Quotient and remainder are unique.                                      *)
LEMMA Quotient ==
  ASSUME NEW d \in Nat \ {0}, NEW k \in Int, NEW r \in 0..d - 1
  PROVE  (d * k + r) \div d = k /\ (d * k + r) % d = r
OBVIOUS

(* Multiples do not change a remainder.                                    *)
LEMMA SumMod ==
  ASSUME NEW d \in Nat \ {0}, NEW a \in Int, NEW b \in Int, b % d = 0
  PROVE  (a + b) % d = a % d /\ (a - b) % d = a % d
<1> DEFINE k == b \div d
           q == a \div d
           r == a % d
<1>1. /\ k \in Int /\ q \in Int /\ r \in 0..d - 1
      /\ b = d * k /\ a = d * q + r
  BY DivMod
<1> HIDE DEF k, q, r
<1>2. a + b = d * (q + k) + r /\ a - b = d * (q - k) + r
  BY <1>1
<1>3. (d * (q + k) + r) % d = r /\ (d * (q - k) + r) % d = r
  BY <1>1, Quotient
<1> QED BY <1>2, <1>3 DEF r

(* Two times with the same remainder are at least d apart.                 *)
LEMMA NextMultiple ==
  ASSUME NEW d \in Nat \ {0}, NEW a \in Int, NEW b \in Int, a % d = b % d, a < b
  PROVE  a + d <= b
<1> DEFINE k == a \div d
           m == b \div d
           r == a % d
<1>1. k \in Int /\ m \in Int /\ r \in Int /\ a = d * k + r /\ b = d * m + r
  BY DivMod
<1> HIDE DEF k, m, r
<1>2. k < m
  BY <1>1
<1>3. d * m >= d * (k + 1)
  BY <1>1, <1>2
<1> QED BY <1>1, <1>3

-----------------------------------------------------------------------------
Aligned(t, d, at) == ((t % DayLength) - at) % d = 0

(* Every time is in one day.                                               *)
LEMMA Days ==
  /\ DayLength \in Nat \ {0}
  /\ \A t \in Int : /\ Day(t) \in Int /\ t = DayLength * Day(t) + (t % DayLength)
                     /\ t % DayLength \in 0..DayLength - 1
<1>1. DayLength \in Nat \ {0}
  BY FeederAssumption DEF FeederAssumption
<1> QED BY <1>1, DivMod DEF Day

(* Days follow each other as times do.                                     *)
LEMMA DayOrder ==
  ASSUME NEW t \in Int, NEW u \in Int, t <= u
  PROVE  Day(t) <= Day(u)
<1> DEFINE x == Day(t)
           y == Day(u)
           r == t % DayLength
           s == u % DayLength
           D == DayLength
<1>1. /\ x \in Int /\ y \in Int /\ r \in 0..D - 1 /\ s \in 0..D - 1 /\ D \in Nat \ {0}
      /\ t = D * x + r /\ u = D * y + s
  BY Days
<1> HIDE DEF x, y, r, s, D
<1>2. CASE x > y
  <2>1. D * x >= D * (y + 1)
    BY <1>1, <1>2
  <2> QED BY <1>1, <2>1
<1>3. x <= y
  BY <1>1, <1>2
<1> QED BY <1>3 DEF x, y

(* A time between two of one day is of that day.                           *)
LEMMA DayBetween ==
  ASSUME NEW t \in Int, NEW u \in Int, NEW v \in Int, t <= u, u <= v, Day(t) = Day(v)
  PROVE  Day(u) = Day(t)
<1>1. Day(t) <= Day(u) /\ Day(u) <= Day(v) /\ Day(t) \in Int /\ Day(u) \in Int
  BY DayOrder, Days
<1> QED BY <1>1

(* Within a day, times of the day differ as times do.                      *)
LEMMA InOneDay ==
  ASSUME NEW t \in Int, NEW u \in Int, Day(t) = Day(u)
  PROVE  (u % DayLength) - (t % DayLength) = u - t
<1> DEFINE r == t % DayLength
           s == u % DayLength
           e == DayLength * Day(t)
<1>1. r \in Int /\ s \in Int /\ e \in Int /\ t = e + r /\ u = e + s
  BY Days
<1> HIDE DEF r, s, e
<1>2. s - r = u - t
  BY <1>1
<1> QED BY <1>2 DEF r, s

(* Whole durations later in the day, a time is aligned again.              *)
LEMMA AlignedSum ==
  ASSUME NEW d \in Nat \ {0}, NEW at \in Int, NEW t \in Int, NEW k \in Int,
         Day(t) = Day(t + d * k), Aligned(t, d, at)
  PROVE  Aligned(t + d * k, d, at)
<1> DEFINE e == d * k
           a == (t % DayLength) - at
           b == ((t + e) % DayLength) - at
<1>1. e \in Int /\ e % d = 0
  BY Product
<1> HIDE DEF e
<1>2. t % DayLength \in Int /\ (t + e) % DayLength \in Int /\ ((t + e) % DayLength) - (t % DayLength) = e
  <2>1. Day(t) = Day(t + e) /\ t + e \in Int
    BY <1>1 DEF e
  <2>2. ((t + e) % DayLength) - (t % DayLength) = (t + e) - t
    BY <2>1, InOneDay
  <2> QED BY <1>1, <2>1, <2>2, Days
<1>3. a \in Int /\ b = a + e
  BY <1>1, <1>2
<1>4. a % d = 0
  BY DEF Aligned
<1> HIDE DEF a, b
<1>5. b % d = 0
  BY <1>1, <1>3, <1>4, SumMod
<1> QED BY <1>5 DEF Aligned, b, e

(* The start of a composer with a time of the day: the last aligned time.  *)
LEMMA AlignedStart ==
  ASSUME NEW d \in Nat \ {0}, NEW at \in Nat, NEW t \in Int,
         t >= Day(t) * DayLength + at
  PROVE  LET start == t - ((t - (Day(t) * DayLength + at)) % d)
         IN /\ start \in Int /\ start <= t /\ t < start + d
            /\ Day(start) = Day(t) /\ Aligned(start, d, at) /\ start >= Day(t) * DayLength
<1> DEFINE x == t - (Day(t) * DayLength + at)
           r == x % d
           m == Day(t) * DayLength
<1>1. m \in Int /\ t = m + (t % DayLength) /\ t % DayLength \in 0..DayLength - 1 /\ DayLength \in Nat \ {0}
  BY Days
<1>2. x \in Nat /\ x = (t % DayLength) - at
  <2> HIDE DEF m
  <2>1. x = t - (m + at)
    BY DEF m
  <2>2. t >= m + at
    BY DEF m
  <2> QED BY <1>1, <2>1, <2>2
<1> HIDE DEF x
<1>3. r \in 0..d - 1 /\ x = d * (x \div d) + r
  <2>1. x \in Int
    BY <1>2
  <2>2. x % d \in 0..d - 1 /\ x = d * (x \div d) + (x % d)
    BY <2>1, DivMod
  <2> QED BY <2>2
<1> USE DEF x
<1>4. r <= x
  <2> DEFINE q == x \div d
  <2>1. q \in Nat
    BY <1>2, DivNat
  <2> HIDE DEF x, r, q
  <2> QED BY <1>2, <1>3, <2>1 DEF q
<1> DEFINE start == t - r
<1>5. Day(m) = Day(t) /\ Day(t) \in Int
  <2>1. DayLength * Day(t) = m /\ Day(t) \in Int
    BY Days
  <2>2. (DayLength * Day(t)) \div DayLength = Day(t)
    BY <2>1, Product, Days
  <2> QED BY <2>1, <2>2 DEF Day
<1>6. start \in Int /\ m <= start /\ start <= t /\ t < start + d
  <2> HIDE DEF x, r, m
  <2> QED BY <1>1, <1>2, <1>3, <1>4
<1>7. Day(start) = Day(t)
  <2> HIDE DEF start, m
  <2> QED BY <1>1, <1>5, <1>6, DayBetween
<1>8. (start % DayLength) - at = x - r
  <2>1. (t % DayLength) - (start % DayLength) = t - start
    <3> HIDE DEF start
    <3> QED BY <1>6, <1>7, InOneDay
  <2>2. start % DayLength \in Int
    <3> HIDE DEF start
    <3> QED BY <1>6, Days
  <2> HIDE DEF x, r
  <2> QED BY <1>1, <1>2, <1>3, <2>1, <2>2
<1>9. (x - r) % d = 0
  <2> DEFINE q == x \div d
  <2>1. q \in Int /\ x - r = d * q
    <3>1. q \in Int
      BY <1>2, DivMod
    <3> HIDE DEF x, r, q
    <3> QED BY <1>2, <1>3, <3>1 DEF q
  <2> HIDE DEF x, r, q
  <2> QED BY <2>1, Product
<1>10. Aligned(start, d, at)
  BY <1>8, <1>9 DEF Aligned
<1> QED BY <1>6, <1>7, <1>10

(* Where a day is a number of durations, times are aligned from the first. *)
LEMMA AlignedWhole ==
  ASSUME NEW d \in Nat \ {0}, DayLength % d = 0, NEW t \in Int
  PROVE  Aligned(t, d, 0) <=> t % d = 0
<1> DEFINE m == DayLength * Day(t)
           r == t % DayLength
<1>1. m \in Int /\ r \in Int /\ t = m + r
  BY Days
<1>2. m % d = 0
  <2> DEFINE q == DayLength \div d
             y == Day(t)
  <2>1. q \in Int /\ DayLength = d * q /\ y \in Int
    BY Days, DivMod
  <2> HIDE DEF q, y
  <2>2. m = d * (q * y) /\ q * y \in Int
    BY <2>1 DEF y
  <2> HIDE DEF m
  <2> QED BY <2>2, Product
<1> HIDE DEF m, r
<1>3. t % d = r % d
  <2>1. (r + m) % d = r % d
    BY <1>1, <1>2, SumMod
  <2> QED BY <1>1, <2>1
<1>4. r - 0 = r
  BY <1>1
<1> QED BY <1>3, <1>4 DEF Aligned, r

(* The start of one without: the last multiple of the duration.            *)
LEMMA WholeStart ==
  ASSUME NEW d \in Nat \ {0}, DayLength % d = 0, NEW t \in Int
  PROVE  LET start == t - (t % d)
         IN /\ start \in Int /\ start <= t /\ t < start + d
            /\ Day(start) = Day(t) /\ Aligned(start, d, 0) /\ start >= Day(t) * DayLength
<1> DEFINE start == t - (t % d)
           m == DayLength * Day(t)
<1>1. start \in Int /\ start <= t /\ t < start + d
  BY DivMod
<1>2. start % d = 0
  <2> DEFINE q == t \div d
  <2>1. q \in Int /\ start = d * q
    BY DivMod
  <2> HIDE DEF q, start
  <2> QED BY <2>1, Product
<1>3. m \in Int /\ m <= t /\ Day(t) \in Int /\ DayLength \in Nat \ {0}
  <2> DEFINE r == t % DayLength
  <2>1. Day(t) \in Int /\ t = m + r /\ r \in 0..DayLength - 1 /\ DayLength \in Nat \ {0}
    BY Days
  <2>2. m \in Int
    BY <2>1
  <2> HIDE DEF r, m
  <2> QED BY <2>1, <2>2
<1>4. Day(m) = Day(t) /\ m % DayLength = 0
  BY <1>3, Product DEF Day
<1>5. m % d = 0
  <2>1. (m % DayLength) - 0 = 0 /\ 0 % d = 0
    <3>1. (d * 0) % d = 0 /\ d * 0 = 0
      BY Product
    <3> QED BY <1>4, <3>1
  <2>2. Aligned(m, d, 0)
    BY <2>1 DEF Aligned
  <2> HIDE DEF m
  <2> QED BY <1>3, <2>2, AlignedWhole
<1>6. m <= start
  <2> HIDE DEF m, start
  <2>1. CASE start < m
    <3>1. start + d <= m
      BY <1>1, <1>2, <1>3, <1>5, <2>1, NextMultiple
    <3> QED BY <1>1, <1>3, <3>1
  <2> QED BY <1>1, <1>3, <2>1
<1>7. Day(start) = Day(t)
  <2> HIDE DEF m, start
  <2> QED BY <1>1, <1>3, <1>4, <1>6, DayBetween
<1>8. Aligned(start, d, 0)
  <2> HIDE DEF start
  <2> QED BY <1>1, <1>2, AlignedWhole
<1>9. m = Day(t) * DayLength
  BY <1>3
<1> HIDE DEF start
<1>10. start >= Day(t) * DayLength
  BY <1>6, <1>9
<1> QED BY <1>1, <1>7, <1>8, <1>10 DEF start

-----------------------------------------------------------------------------
Bar == [time : Nat, duration : Nat, open : Nat, close : Nat, gaps : BOOLEAN, parts : SUBSET Nat]

(* A bar that lasts, within one day.                                       *)
Whole(bar) == bar \in Bar /\ bar.duration > 0 /\ Day(end_time(bar) - 1) = Day(bar.time)

FirstOfDay(f, B) == \A g \in B : Day(g.time) = Day(f.time) => f.time <= g.time

(* What a composer is given: bars apart from each other, each day with a   *)
(* first one.                                                              *)
Data(B) ==
  /\ \A b \in B : Whole(b)
  /\ \A a, b \in B : a = b \/ end_time(a) <= b.time \/ end_time(b) <= a.time
  /\ \A b \in B : \E f \in B : Day(f.time) = Day(b.time) /\ FirstOfDay(f, B)

Opens(f, s, B) == f.time = s.time \/ FirstOfDay(f, B)

(* What Fits says of one bar, p the close of the bar before it.            *)
Parted(s, B) == s.parts = UNION {b.parts : b \in Inputs(s, B)}
Told(s, B) ==
  s.gaps = \/ \E b \in Inputs(s, B) : b.gaps
           \/ \E t \in s.time..end_time(s) - 1 :
                ~Covered(t, B) /\ \E f \in B : Day(f.time) = Day(t) /\ f.time <= t
Priced(s, p, B) ==
  \/ Inputs(s, B) = {} /\ s.open = p /\ s.close = p
  \/ \E f, l \in Inputs(s, B) :
       /\ \A x \in Inputs(s, B) : f.time <= x.time /\ x.time <= l.time
       /\ s.close = l.close
       /\ s.open = IF Opens(f, s, B) THEN f.open ELSE p
Good(s, p, B) == Whole(s) /\ Parted(s, B) /\ Told(s, B) /\ Priced(s, p, B)

(* The types of a bar's fields.                                            *)
LEMMA BarTimes ==
  ASSUME NEW b \in Bar
  PROVE  /\ b.time \in Nat /\ b.duration \in Nat /\ end_time(b) \in Nat
         /\ end_time(b) = b.time + b.duration /\ b.close \in Nat /\ b.open \in Nat
BY DEF Bar, end_time

(* A bar that lasts ends after it begins.                                  *)
LEMMA WholeTimes ==
  ASSUME NEW b, Whole(b)
  PROVE  /\ b \in Bar /\ b.time \in Nat /\ b.duration \in Nat /\ end_time(b) \in Nat
         /\ b.time < end_time(b)
<1>1. b \in Bar /\ b.duration > 0
  BY DEF Whole
<1> QED BY <1>1, BarTimes

(* One more bar, later than the others.                                    *)
LEMMA DataGrows ==
  ASSUME NEW B, Data(B), NEW bar, Whole(bar), \A b \in B : end_time(b) <= bar.time
  PROVE  Data(B \union {bar})
<1> DEFINE C == B \union {bar}
<1>1. \A b \in C : Whole(b)
  BY DEF Data
<1>2. \A b \in C : b.time \in Nat /\ b.duration \in Nat /\ end_time(b) \in Nat /\ b.time < end_time(b)
  BY <1>1 DEF Whole, Bar, end_time
<1>3. \A a, b \in C : a = b \/ end_time(a) <= b.time \/ end_time(b) <= a.time
  BY DEF Data
<1>4. \A f \in B : FirstOfDay(f, B) => FirstOfDay(f, C)
  <2> SUFFICES ASSUME NEW f \in B, FirstOfDay(f, B), NEW g \in C, Day(g.time) = Day(f.time)
               PROVE  f.time <= g.time
    BY DEF FirstOfDay
  <2>1. CASE g \in B
    BY <2>1 DEF FirstOfDay
  <2>2. CASE g = bar
    BY <1>2, <2>2
  <2> QED BY <2>1, <2>2
<1>5. ASSUME NEW b \in C
      PROVE  \E f \in C : Day(f.time) = Day(b.time) /\ FirstOfDay(f, C)
  <2>1. CASE \E g \in B : Day(g.time) = Day(b.time)
    <3>1. PICK g \in B : Day(g.time) = Day(b.time)
      BY <2>1
    <3>2. PICK f \in B : Day(f.time) = Day(g.time) /\ FirstOfDay(f, B)
      BY DEF Data
    <3> QED BY <1>4, <3>1, <3>2
  <2>2. CASE ~\E g \in B : Day(g.time) = Day(b.time)
    <3>1. b = bar
      BY <2>2
    <3>2. FirstOfDay(b, C)
      BY <1>2, <2>2, <3>1 DEF FirstOfDay
    <3> QED BY <3>2
  <2> QED BY <2>1, <2>2
<1> QED BY <1>1, <1>3, <1>5 DEF Data

(* A bar that is finished stays what it is when a later bar comes.         *)
LEMMA GoodStays ==
  ASSUME NEW B, \A b \in B : Whole(b), NEW bar, Whole(bar), NEW p,
         NEW s, Good(s, p, B), end_time(s) <= bar.time
  PROVE  Good(s, p, B \union {bar})
<1> DEFINE C == B \union {bar}
<1>1. \A b \in C : b.time \in Nat /\ b.duration \in Nat /\ end_time(b) \in Nat
  BY DEF Whole, Bar, end_time
<1>2. s.time \in Nat /\ end_time(s) \in Nat
  BY DEF Good, Whole, Bar, end_time
<1>3. Inputs(s, C) = Inputs(s, B)
  BY <1>1, <1>2 DEF Inputs
<1>4. Parted(s, C)
  BY <1>3 DEF Good, Parted
<1>5. Told(s, C)
  <2>1. ASSUME NEW t \in s.time..end_time(s) - 1
        PROVE  /\ Covered(t, C) <=> Covered(t, B)
               /\ (\E f \in C : Day(f.time) = Day(t) /\ f.time <= t)
                    <=> (\E f \in B : Day(f.time) = Day(t) /\ f.time <= t)
    BY <1>1, <1>2 DEF Covered
  <2> QED BY <1>3, <2>1 DEF Good, Told
<1>6. ASSUME NEW f \in Inputs(s, B)
      PROVE  Opens(f, s, C) <=> Opens(f, s, B)
  <2>1. f \in B /\ f.time < bar.time /\ f.time \in Nat /\ bar.time \in Nat
    BY <1>1, <1>2 DEF Inputs
  <2> QED BY <2>1 DEF Opens, FirstOfDay
<1>7. Priced(s, p, C)
  BY <1>3, <1>6 DEF Good, Priced
<1> QED BY <1>4, <1>5, <1>7 DEF Good

(* A bar made longer where there is no data.                               *)
LEMMA GoodExtended ==
  ASSUME NEW B, \A b \in B : Whole(b), NEW p, NEW s, Good(s, p, B),
         \A b \in B : end_time(b) <= end_time(s),
         NEW f \in B, Day(f.time) = Day(s.time), f.time < end_time(s),
         NEW length \in Nat, length > s.duration, Day(s.time + length - 1) = Day(s.time)
  PROVE  Good([s EXCEPT !.duration = length, !.gaps = TRUE], p, B)
<1> DEFINE e == [s EXCEPT !.duration = length, !.gaps = TRUE]
<1>1. s \in Bar /\ \A b \in B : b.time \in Nat /\ b.duration > 0 /\ b.duration \in Nat
  BY DEF Good, Whole, Bar
<1>2. /\ e \in Bar /\ e.time = s.time /\ e.duration = length /\ e.gaps = TRUE
      /\ e.open = s.open /\ e.close = s.close /\ e.parts = s.parts
  BY <1>1 DEF Bar
<1> HIDE DEF e
<1>3. Whole(e)
  <2>1. s.time \in Nat /\ s.duration \in Nat
    BY <1>1 DEF Bar
  <2>2. end_time(e) - 1 = s.time + length - 1 /\ e.duration > 0
    BY <1>2, <2>1 DEF end_time
  <2> QED BY <1>2, <2>2 DEF Whole
<1>4. Inputs(e, B) = Inputs(s, B)
  <2>1. end_time(s) < end_time(e) /\ end_time(s) \in Nat /\ end_time(e) \in Nat
    BY <1>1, <1>2 DEF Bar, end_time
  <2>2. \A b \in B : b.time < end_time(s)
    BY <1>1, <2>1 DEF end_time
  <2> QED BY <1>1, <1>2, <2>1, <2>2 DEF Inputs
<1>5. Told(e, B)
  <2> DEFINE t == end_time(s)
  <2>1. t \in e.time..end_time(e) - 1 /\ t \in Nat
    BY <1>1, <1>2 DEF Bar, end_time
  <2>2. ~Covered(t, B)
    BY <1>1, <2>1 DEF Covered, end_time
  <2>3. Day(t) = Day(f.time)
    <3> DEFINE u == s.time + length - 1
    <3>1. u \in Int /\ t <= u /\ s.time <= t /\ s.time \in Nat
      BY <1>1 DEF Bar, end_time
    <3> HIDE DEF u, t
    <3>2. Day(s.time) = Day(u)
      BY DEF u
    <3> QED BY <2>1, <3>1, <3>2, DayBetween
  <2>4. f.time <= t
    BY <1>1, <2>1
  <2>5. \E g \in B : Day(g.time) = Day(t) /\ g.time <= t
    BY <2>3, <2>4
  <2> HIDE DEF t
  <2>6. (\E u \in e.time..end_time(e) - 1 :
                ~Covered(u, B) /\ \E g \in B : Day(g.time) = Day(u) /\ g.time <= u) = TRUE
    BY <2>1, <2>2, <2>5
  <2> QED BY <1>2, <2>6 DEF Told
<1>6. Parted(e, B) /\ Priced(e, p, B)
  BY <1>2, <1>4 DEF Good, Parted, Priced, Opens
<1> QED BY <1>3, <1>5, <1>6 DEF Good, e

(* A bar for a time without data: it stays at the close before it.         *)
LEMMA GoodFiller ==
  ASSUME NEW B, \A b \in B : Whole(b), NEW p \in Nat, NEW from \in Nat,
         \A b \in B : end_time(b) <= from,
         NEW f \in B, Day(f.time) = Day(from),
         NEW length \in Nat, length > 0, Day(from + length - 1) = Day(from)
  PROVE  Good([zero_bar(from, p) EXCEPT !.duration = length, !.gaps = TRUE], p, B)
<1> DEFINE e == [zero_bar(from, p) EXCEPT !.duration = length, !.gaps = TRUE]
<1>1. \A b \in B : b.time \in Nat /\ b.duration > 0 /\ b.duration \in Nat
  BY DEF Whole, Bar
<1>2. /\ e \in Bar /\ e.time = from /\ e.duration = length /\ e.gaps = TRUE
      /\ e.open = p /\ e.close = p /\ e.parts = {}
  BY DEF Bar, zero_bar
<1> HIDE DEF e
<1>3. Whole(e)
  BY <1>2 DEF Whole, end_time
<1>4. Inputs(e, B) = {}
  BY <1>1, <1>2 DEF Inputs, end_time
<1>5. Told(e, B)
  <2>1. from \in e.time..end_time(e) - 1 /\ ~Covered(from, B) /\ f.time <= from
    BY <1>1, <1>2 DEF Covered, end_time
  <2>2. (\E u \in e.time..end_time(e) - 1 :
                ~Covered(u, B) /\ \E g \in B : Day(g.time) = Day(u) /\ g.time <= u) = TRUE
    BY <2>1
  <2> QED BY <1>2, <2>2 DEF Told
<1>6. Parted(e, B) /\ Priced(e, p, B)
  BY <1>2, <1>4 DEF Parted, Priced
<1> QED BY <1>3, <1>5, <1>6 DEF Good, e

(* A bar with one input has its prices.                                    *)
LEMMA PricedByOne ==
  ASSUME NEW C, NEW e, NEW bar, NEW p, Inputs(e, C) = {bar}, bar.time \in Nat,
         e.close = bar.close, e.open = IF Opens(bar, e, C) THEN bar.open ELSE p
  PROVE  Priced(e, p, C)
<1>1. bar \in Inputs(e, C) /\ \A x \in Inputs(e, C) : bar.time <= x.time /\ x.time <= bar.time
  OBVIOUS
<1> QED BY <1>1 DEF Priced

(* A bar added to one that ends where it begins.                           *)
LEMMA GoodSum ==
  ASSUME NEW B, \A b \in B : Whole(b), NEW p, NEW s, Good(s, p, B),
         NEW bar, Whole(bar), bar.time = end_time(s), Day(bar.time) = Day(s.time),
         \A b \in B : end_time(b) <= end_time(s),
         NEW f \in B, Day(f.time) = Day(s.time)
  PROVE  Good(Sum(s, bar), p, B \union {bar})
<1> DEFINE C == B \union {bar}
           e == Sum(s, bar)
<1>1. s \in Bar /\ bar \in Bar /\ \A b \in B : b \in Bar /\ b.time \in Nat /\ b.duration \in Nat /\ b.duration > 0
  BY DEF Good, Whole, Bar
<1>2. /\ s.time \in Nat /\ end_time(s) \in Nat /\ bar.time \in Nat /\ end_time(bar) \in Nat
      /\ s.time < bar.time /\ bar.time < end_time(bar) /\ s.duration \in Nat
  BY <1>1 DEF Good, Whole, Bar, end_time
<1>3. /\ e \in Bar /\ e.time = s.time /\ end_time(e) = end_time(bar) /\ e.close = bar.close
      /\ e.open = s.open /\ e.gaps = (s.gaps \/ bar.gaps) /\ e.parts = s.parts \union bar.parts
      /\ e.duration > 0
  <2>1. end_time(bar) - s.time \in Nat /\ end_time(bar) - s.time > 0
    BY <1>2
  <2>2. bar.time # end_time(s) <=> FALSE
    OBVIOUS
  <2>3. e.time = s.time /\ e.duration = end_time(bar) - s.time /\ e \in Bar /\ e.close = bar.close /\ e.open = s.open
        /\ e.parts = s.parts \union bar.parts /\ e.gaps = (s.gaps \/ bar.gaps)
    BY <1>1, <2>1 DEF Sum, Bar
  <2>4. end_time(e) = s.time + (end_time(bar) - s.time)
    BY <2>3 DEF end_time
  <2> QED BY <1>2, <2>1, <2>3, <2>4
<1> HIDE DEF e
<1>4. Whole(e)
  <2>1. Day(end_time(e) - 1) = Day(e.time)
    BY <1>3 DEF Whole
  <2> QED BY <1>3, <2>1 DEF Whole
<1>5. \A b \in B : b.time < end_time(s)
  BY <1>1, <1>2 DEF end_time
<1>6. Inputs(e, C) = Inputs(s, B) \union {bar}
  BY <1>1, <1>2, <1>3, <1>5 DEF Inputs
<1>7. Parted(e, C)
  BY <1>3, <1>6 DEF Parted, Good
<1>8. Told(e, C)
  <2>1. ASSUME NEW t \in s.time..end_time(s) - 1
        PROVE  /\ Covered(t, C) <=> Covered(t, B)
               /\ (\E g \in C : Day(g.time) = Day(t) /\ g.time <= t)
                    <=> (\E g \in B : Day(g.time) = Day(t) /\ g.time <= t)
    BY <1>1, <1>2 DEF Covered
  <2>2. \A t \in bar.time..end_time(bar) - 1 : Covered(t, C)
    BY <1>2 DEF Covered
  <2>3. \A t \in e.time..end_time(e) - 1 :
          t \in s.time..end_time(s) - 1 \/ t \in bar.time..end_time(bar) - 1
    BY <1>2, <1>3
  <2>4. \A t \in s.time..end_time(s) - 1 : t \in e.time..end_time(e) - 1
    BY <1>2, <1>3
  <2> DEFINE G(r, D) == \E t \in r : ~Covered(t, D) /\ \E g \in D : Day(g.time) = Day(t) /\ g.time <= t
  <2>5. G(e.time..end_time(e) - 1, C) <=> G(s.time..end_time(s) - 1, B)
    BY <2>1, <2>2, <2>3, <2>4
  <2>6. (\E b \in Inputs(e, C) : b.gaps) <=> (\E b \in Inputs(s, B) : b.gaps) \/ bar.gaps
    BY <1>6
  <2>7. s.gaps = ((\E b \in Inputs(s, B) : b.gaps) \/ G(s.time..end_time(s) - 1, B))
    BY DEF Good, Told
  <2> HIDE DEF G
  <2>8. e.gaps = ((\E b \in Inputs(e, C) : b.gaps) \/ G(e.time..end_time(e) - 1, C))
    BY <1>3, <2>5, <2>6, <2>7, Zenon
  <2> QED BY <2>8 DEF G, Told
<1>9. ~FirstOfDay(bar, C)
  BY <1>1, <1>2, <1>5 DEF FirstOfDay
<1>10. Priced(e, p, C)
  <2>1. CASE Inputs(s, B) = {}
    <3>1. s.open = p
      BY <2>1 DEF Good, Priced
    <3>2. Inputs(e, C) = {bar} /\ ~Opens(bar, e, C)
      BY <1>2, <1>3, <1>6, <1>9, <2>1 DEF Opens
    <3> QED BY <1>2, <1>3, <3>1, <3>2, PricedByOne
  <2>2. CASE Inputs(s, B) # {}
    <3>1. PICK g, l \in Inputs(s, B) :
            /\ \A x \in Inputs(s, B) : g.time <= x.time /\ x.time <= l.time
            /\ s.open = IF Opens(g, s, B) THEN g.open ELSE p
      BY <2>2 DEF Good, Priced
    <3>2. g \in B /\ g.time < bar.time
      BY <1>5 DEF Inputs
    <3>3. Opens(g, e, C) <=> Opens(g, s, B)
      BY <1>1, <1>2, <1>3, <3>2 DEF Opens, FirstOfDay
    <3>4. \A x \in Inputs(e, C) : g.time <= x.time /\ x.time <= bar.time
      <4>1. \A x \in Inputs(s, B) : x.time < bar.time /\ x.time \in Nat
        BY <1>1, <1>5 DEF Inputs
      <4> QED BY <1>1, <1>2, <1>6, <3>1, <3>2, <4>1
    <3> QED BY <1>3, <1>6, <3>1, <3>3, <3>4 DEF Priced
  <2> QED BY <2>1, <2>2
<1> QED BY <1>4, <1>7, <1>8, <1>10 DEF Good, e

(* A bar that begins a composed bar.                                       *)
LEMMA GoodBar ==
  ASSUME NEW B, \A b \in B : Whole(b), NEW p, NEW bar, Whole(bar),
         \A b \in B : end_time(b) <= bar.time
  PROVE  Good(bar, p, B \union {bar})
<1> DEFINE C == B \union {bar}
<1>1. /\ \A b \in C : b.time \in Nat /\ end_time(b) \in Nat /\ b.time < end_time(b)
  BY DEF Whole, Bar, end_time
<1>2. Inputs(bar, C) = {bar}
  BY <1>1 DEF Inputs
<1>3. Parted(bar, C)
  BY <1>2 DEF Parted
<1>4. Told(bar, C)
  <2>1. \A t \in bar.time..end_time(bar) - 1 : Covered(t, C)
    BY <1>1 DEF Covered
  <2>2. bar.gaps \in BOOLEAN
    BY DEF Whole, Bar
  <2>3. (\E b \in Inputs(bar, C) : b.gaps) <=> bar.gaps
    BY <1>2
  <2>4. (\E t \in bar.time..end_time(bar) - 1 :
           ~Covered(t, C) /\ \E g \in C : Day(g.time) = Day(t) /\ g.time <= t) <=> FALSE
    BY <2>1
  <2> DEFINE G == \E t \in bar.time..end_time(bar) - 1 :
                    ~Covered(t, C) /\ \E g \in C : Day(g.time) = Day(t) /\ g.time <= t
             H == \E b \in Inputs(bar, C) : b.gaps
  <2>5. (H <=> bar.gaps) /\ (G <=> FALSE)
    BY <2>3, <2>4
  <2> HIDE DEF G, H
  <2>6. bar.gaps = (H \/ G)
    BY <2>2, <2>5
  <2> QED BY <2>6 DEF Told, G, H
<1>5. Priced(bar, p, C)
  BY <1>1, <1>2, PricedByOne DEF Opens
<1> QED BY <1>3, <1>4, <1>5 DEF Good

(* The first bar of a day may begin before its first input.                *)
LEMMA GoodStart ==
  ASSUME NEW B, \A b \in B : Whole(b), NEW p, NEW bar, Whole(bar),
         \A b \in B : end_time(b) <= bar.time /\ Day(b.time) # Day(bar.time),
         NEW start \in Nat, start <= bar.time, Day(start) = Day(bar.time),
         \A b \in B : end_time(b) <= start
  PROVE  Good([bar EXCEPT !.time = start, !.duration = end_time(bar) - start], p, B \union {bar})
<1> DEFINE C == B \union {bar}
           e == [bar EXCEPT !.time = start, !.duration = end_time(bar) - start]
<1>1. \A b \in C : b.time \in Nat /\ end_time(b) \in Nat /\ b.time < end_time(b)
  BY DEF Whole, Bar, end_time
<1>2. /\ e \in Bar /\ e.time = start /\ end_time(e) = end_time(bar) /\ e.close = bar.close
      /\ e.open = bar.open /\ e.gaps = bar.gaps /\ e.parts = bar.parts /\ e.duration > 0
  <2>1. bar \in Bar /\ end_time(bar) - start \in Nat /\ end_time(bar) - start > 0
    BY <1>1 DEF Whole
  <2>2. /\ e \in Bar /\ e.time = start /\ e.duration = end_time(bar) - start /\ e.close = bar.close
        /\ e.open = bar.open /\ e.gaps = bar.gaps /\ e.parts = bar.parts
    BY <2>1 DEF Bar
  <2>3. end_time(e) = start + (end_time(bar) - start)
    BY <2>2 DEF end_time
  <2> QED BY <1>1, <2>1, <2>2, <2>3
<1> HIDE DEF e
<1>3. Whole(e)
  BY <1>2 DEF Whole
<1>4. Inputs(e, C) = {bar}
  <2>1. \A b \in B : b.time < start
    BY <1>1
  <2> QED BY <1>1, <1>2, <2>1 DEF Inputs
<1>5. Parted(e, C)
  BY <1>2, <1>4 DEF Parted
<1>6. Told(e, C)
  <2>1. ASSUME NEW t \in start..end_time(bar) - 1, ~Covered(t, C),
               NEW g \in C, Day(g.time) = Day(t), g.time <= t
        PROVE  FALSE
    <3>1. t \in Int /\ start <= t /\ t < bar.time
      BY <1>1, <2>1 DEF Covered
    <3>2. Day(t) = Day(bar.time)
      BY <1>1, <3>1, DayBetween
    <3>3. g = bar
      BY <2>1, <3>2
    <3> QED BY <1>1, <2>1, <3>1, <3>3
  <2> DEFINE G == \E t \in e.time..end_time(e) - 1 :
                    ~Covered(t, C) /\ \E g \in C : Day(g.time) = Day(t) /\ g.time <= t
             H == \E b \in Inputs(e, C) : b.gaps
  <2>2. (H <=> bar.gaps) /\ (G <=> FALSE) /\ bar.gaps \in BOOLEAN
    <3>1. H <=> bar.gaps
      BY <1>4
    <3>2. ~G
      BY <1>2, <2>1
    <3> QED BY <3>1, <3>2 DEF Whole, Bar
  <2> HIDE DEF G, H
  <2>3. e.gaps = (H \/ G)
    BY <1>2, <2>2
  <2> QED BY <2>3 DEF Told, G, H
<1>7. FirstOfDay(bar, C)
  BY <1>1 DEF FirstOfDay
<1>8. Priced(e, p, C)
  BY <1>1, <1>2, <1>4, <1>7, PricedByOne DEF Opens
<1> QED BY <1>3, <1>5, <1>6, <1>8 DEF Good, e

-----------------------------------------------------------------------------
(* The bars S composed of B, in order.                                     *)
Follows(a, b, d) == Day(a.time) = Day(b.time) => a.duration = d /\ b.time = end_time(a)
CloseOf(S)   == IF S = <<>> THEN None ELSE S[Len(S)].close
Before(S, i) == IF i = 1 THEN None ELSE S[i - 1].close

Chain(S, B, d, at) ==
  /\ S \in Seq(Bar)
  /\ \A i \in 1..Len(S) :
       S[i].duration <= d /\ Aligned(S[i].time, d, at) /\ Good(S[i], Before(S, i), B)
  /\ \A i, j \in 1..Len(S) : i < j => end_time(S[i]) <= S[j].time
  /\ \A i \in 1..Len(S) - 1 : Follows(S[i], S[i + 1], d)

Holds(S, b)  == \E i \in 1..Len(S) : S[i].time <= b.time /\ b.time < end_time(S[i])
Filled(S, B) == \A b \in B : Holds(S, b)

Composed(S, B, d, at) == Chain(S, B, d, at) /\ Filled(S, B)

(* The elements of two sequences joined.                                   *)
LEMMA Parts ==
  ASSUME NEW T, NEW P \in Seq(T), NEW q \in Seq(T)
  PROVE  /\ P \o q \in Seq(T) /\ Len(P \o q) = Len(P) + Len(q) /\ Len(P) \in Nat /\ Len(q) \in Nat
         /\ \A i \in 1..Len(P) : (P \o q)[i] = P[i] /\ P[i] \in T
         /\ \A k \in 1..Len(q) : (P \o q)[Len(P) + k] = q[k] /\ q[k] \in T
         /\ \A i \in 1..Len(P \o q) : i \in 1..Len(P) \/ \E k \in 1..Len(q) : i = Len(P) + k
<1>1. P \o q \in Seq(T) /\ Len(P \o q) = Len(P) + Len(q) /\ Len(P) \in Nat /\ Len(q) \in Nat
  OBVIOUS
<1>2. \A i \in 1..Len(P) : (P \o q)[i] = P[i] /\ P[i] \in T
  OBVIOUS
<1>3. \A k \in 1..Len(q) : (P \o q)[Len(P) + k] = q[k] /\ q[k] \in T
  OBVIOUS
<1>4. ASSUME NEW i \in 1..Len(P \o q), i \notin 1..Len(P)
      PROVE  \E k \in 1..Len(q) : i = Len(P) + k
  <2>1. i - Len(P) \in 1..Len(q) /\ i = Len(P) + (i - Len(P))
    BY <1>1, <1>4
  <2> QED BY <2>1
<1> QED BY <1>1, <1>2, <1>3, <1>4

(* A bar is held by two sequences joined when it is by one of them.        *)
LEMMA HoldsJoin ==
  ASSUME NEW P \in Seq(Bar), NEW q \in Seq(Bar), NEW b
  PROVE  Holds(P \o q, b) <=> Holds(P, b) \/ Holds(q, b)
<1> DEFINE In(s) == s.time <= b.time /\ b.time < end_time(s)
           S == P \o q
<1>1. /\ Len(S) = Len(P) + Len(q) /\ Len(P) \in Nat /\ Len(q) \in Nat
      /\ \A i \in 1..Len(P) : S[i] = P[i]
      /\ \A k \in 1..Len(q) : S[Len(P) + k] = q[k]
      /\ \A i \in 1..Len(S) : i \in 1..Len(P) \/ \E k \in 1..Len(q) : i = Len(P) + k
  BY Parts
<1>2. /\ \A i \in 1..Len(P) : i \in 1..Len(S)
      /\ \A k \in 1..Len(q) : Len(P) + k \in 1..Len(S)
  BY <1>1
<1> HIDE DEF In, S
<1>3. (\E i \in 1..Len(S) : In(S[i])) <=> (\E i \in 1..Len(P) : In(P[i])) \/ (\E k \in 1..Len(q) : In(q[k]))
  BY <1>1, <1>2
<1> QED BY <1>3 DEF In, S, Holds

(* A bar is held by a sequence of one.                                     *)
LEMMA HoldsOne ==
  ASSUME NEW x, NEW b
  PROVE  Holds(<<x>>, b) <=> x.time <= b.time /\ b.time < end_time(x)
<1>1. Len(<<x>>) = 1 /\ <<x>>[1] = x /\ \A i \in 1..1 : i = 1
  OBVIOUS
<1>2. 1 \in 1..1
  OBVIOUS
<1> QED BY <1>1, <1>2 DEF Holds

(* What is composed stays so when a later bar comes.                       *)
LEMMA ChainStays ==
  ASSUME NEW d, NEW at, NEW B, \A b \in B : Whole(b), NEW bar, Whole(bar),
         NEW S, Chain(S, B, d, at), \A i \in 1..Len(S) : end_time(S[i]) <= bar.time
  PROVE  Chain(S, B \union {bar}, d, at)
<1>1. ASSUME NEW i \in 1..Len(S)
      PROVE  Good(S[i], Before(S, i), B \union {bar})
  <2>1. Good(S[i], Before(S, i), B) /\ end_time(S[i]) <= bar.time
    BY DEF Chain
  <2> QED BY <2>1, GoodStays
<1> QED BY <1>1 DEF Chain

(* More bars after a chain.                                                *)
LEMMA ChainJoin ==
  ASSUME NEW d, NEW at, NEW B, NEW P, Chain(P, B, d, at), NEW q \in Seq(Bar),
         \A k \in 1..Len(q) :
           /\ q[k].duration <= d /\ Aligned(q[k].time, d, at)
           /\ Good(q[k], IF k = 1 THEN CloseOf(P) ELSE q[k - 1].close, B),
         \A k, m \in 1..Len(q) : k < m => end_time(q[k]) <= q[m].time,
         \A k \in 1..Len(q) - 1 : Follows(q[k], q[k + 1], d),
         \A i \in 1..Len(P), k \in 1..Len(q) : end_time(P[i]) <= q[k].time,
         P # <<>> /\ q # <<>> => Follows(P[Len(P)], q[1], d)
  PROVE  Chain(P \o q, B, d, at)
<1> DEFINE S == P \o q
           n == Len(P)
<1>1. P \in Seq(Bar)
  BY DEF Chain
<1>2. /\ S \in Seq(Bar) /\ Len(S) = n + Len(q) /\ n \in Nat /\ Len(q) \in Nat
      /\ \A i \in 1..n : S[i] = P[i]
      /\ \A k \in 1..Len(q) : S[n + k] = q[k]
      /\ \A i \in 1..Len(S) : i \in 1..n \/ \E k \in 1..Len(q) : i = n + k
  BY <1>1, Parts
<1>3. (P = <<>> <=> n = 0) /\ (q = <<>> <=> Len(q) = 0)
  BY <1>1
<1> HIDE DEF S
<1>4. ASSUME NEW i \in 1..Len(S)
      PROVE  S[i].duration <= d /\ Aligned(S[i].time, d, at) /\ Good(S[i], Before(S, i), B)
  <2>1. CASE i \in 1..n
    <3>1. Before(S, i) = Before(P, i)
      <4>1. CASE i = 1
        BY <4>1 DEF Before
      <4>2. CASE i # 1
        <5>1. i - 1 \in 1..n
          BY <1>2, <2>1, <4>2
        <5> QED BY <1>2, <4>2, <5>1 DEF Before
      <4> QED BY <4>1, <4>2
    <3> QED BY <1>2, <2>1, <3>1 DEF Chain
  <2>2. CASE \E k \in 1..Len(q) : i = n + k
    <3>1. PICK k \in 1..Len(q) : i = n + k
      BY <2>2
    <3>2. Before(S, i) = IF k = 1 THEN CloseOf(P) ELSE q[k - 1].close
      <4>1. CASE k # 1
        <5>1. k - 1 \in 1..Len(q) /\ i - 1 = n + (k - 1) /\ i # 1
          BY <1>2, <3>1, <4>1
        <5> QED BY <1>2, <4>1, <5>1 DEF Before
      <4>2. CASE k = 1 /\ n = 0
        BY <1>2, <1>3, <3>1, <4>2 DEF Before, CloseOf
      <4>3. CASE k = 1 /\ n # 0
        <5>1. i - 1 = n /\ i # 1 /\ n \in 1..n /\ P # <<>>
          BY <1>2, <1>3, <3>1, <4>3
        <5> QED BY <1>2, <4>3, <5>1 DEF Before, CloseOf
      <4> QED BY <4>1, <4>2, <4>3
    <3>3. S[i] = q[k]
      BY <1>2, <3>1
    <3> QED BY <3>2, <3>3
  <2> QED BY <1>2, <2>1, <2>2
<1>5. ASSUME NEW i \in 1..Len(S), NEW j \in 1..Len(S), i < j
      PROVE  end_time(S[i]) <= S[j].time
  <2>1. CASE j \in 1..n
    <3>1. i \in 1..n
      BY <1>2, <1>5, <2>1
    <3> QED BY <1>2, <1>5, <2>1, <3>1 DEF Chain
  <2>2. CASE i \in 1..n /\ \E m \in 1..Len(q) : j = n + m
    BY <1>2, <2>2
  <2>3. ASSUME NEW k \in 1..Len(q), NEW m \in 1..Len(q), i = n + k, j = n + m
        PROVE  end_time(S[i]) <= S[j].time
    <3>1. k < m
      BY <1>2, <1>5, <2>3
    <3> QED BY <1>2, <2>3, <3>1
  <2> QED BY <1>2, <2>1, <2>2, <2>3
<1>6. ASSUME NEW i \in 1..Len(S) - 1
      PROVE  Follows(S[i], S[i + 1], d)
  <2>1. CASE i + 1 \in 1..n
    <3>1. i \in 1..n /\ i \in 1..n - 1
      BY <1>2, <2>1
    <3> QED BY <1>2, <2>1, <3>1 DEF Chain
  <2>2. CASE i = n
    <3>1. 1 \in 1..Len(q) /\ n \in 1..n /\ P # <<>> /\ q # <<>>
      BY <1>2, <1>3, <2>2
    <3>2. S[i] = P[n] /\ S[i + 1] = q[1]
      BY <1>2, <2>2, <3>1
    <3> QED BY <3>1, <3>2
  <2>3. CASE i > n
    <3> DEFINE k == i - n
    <3>1. k \in 1..Len(q) - 1 /\ k \in 1..Len(q) /\ k + 1 \in 1..Len(q) /\ i = n + k /\ i + 1 = n + (k + 1)
      BY <1>2, <2>3
    <3> HIDE DEF k
    <3>2. S[i] = q[k] /\ S[i + 1] = q[k + 1]
      BY <1>2, <3>1
    <3> QED BY <3>1, <3>2
  <2> QED BY <1>2, <2>1, <2>2, <2>3
<1>7. Chain(S, B, d, at)
  BY <1>2, <1>4, <1>5, <1>6 DEF Chain
<1> QED BY <1>7 DEF S

(* A chain without its last bar.                                           *)
LEMMA ChainFront ==
  ASSUME NEW d, NEW at, NEW B, NEW P \in Seq(Bar), NEW x \in Bar, Chain(P \o <<x>>, B, d, at)
  PROVE  /\ Chain(P, B, d, at)
         /\ x.duration <= d /\ Aligned(x.time, d, at) /\ Good(x, CloseOf(P), B)
         /\ \A i \in 1..Len(P) : end_time(P[i]) <= x.time
         /\ P # <<>> => Follows(P[Len(P)], x, d)
<1> DEFINE S == P \o <<x>>
           n == Len(P)
<1>1. <<x>> \in Seq(Bar) /\ Len(<<x>>) = 1 /\ <<x>>[1] = x
  OBVIOUS
<1>2. /\ Len(S) = n + 1 /\ n \in Nat
      /\ \A i \in 1..n : S[i] = P[i]
      /\ S[n + 1] = x
  BY <1>1, Parts
<1>3. P = <<>> <=> n = 0
  OBVIOUS
<1>4. /\ \A i \in 1..Len(S) :
           S[i].duration <= d /\ Aligned(S[i].time, d, at) /\ Good(S[i], Before(S, i), B)
      /\ \A i, j \in 1..Len(S) : i < j => end_time(S[i]) <= S[j].time
      /\ \A i \in 1..Len(S) - 1 : Follows(S[i], S[i + 1], d)
  BY DEF Chain
<1> HIDE DEF S, n
<1>5. \A i \in 1..n : Before(S, i) = Before(P, i)
  <2> SUFFICES ASSUME NEW i \in 1..n
               PROVE  Before(S, i) = Before(P, i)
    OBVIOUS
  <2>1. i = 1 \/ i - 1 \in 1..n
    BY <1>2
  <2> QED BY <1>2, <2>1 DEF Before
<1>6. Before(S, n + 1) = CloseOf(P)
  <2>1. CASE n = 0
    BY <1>3, <2>1 DEF Before, CloseOf
  <2>2. CASE n # 0
    <3>1. n + 1 # 1 /\ n + 1 - 1 = n /\ n \in 1..n
      BY <1>2, <2>2
    <3> QED BY <1>2, <1>3, <2>2, <3>1 DEF Before, CloseOf, n
  <2> QED BY <2>1, <2>2
<1>7. Chain(P, B, d, at)
  <2>1. /\ \A i \in 1..n : i \in 1..Len(S)
        /\ \A i \in 1..n - 1 : i \in 1..Len(S) - 1 /\ i \in 1..n /\ i + 1 \in 1..n
    BY <1>2
  <2>2. \A i \in 1..n :
          P[i].duration <= d /\ Aligned(P[i].time, d, at) /\ Good(P[i], Before(P, i), B)
    BY <1>2, <1>4, <1>5, <2>1
  <2>3. \A i, j \in 1..n : i < j => end_time(P[i]) <= P[j].time
    BY <1>2, <1>4, <2>1
  <2>4. \A i \in 1..n - 1 : Follows(P[i], P[i + 1], d)
    BY <1>2, <1>4, <2>1
  <2> QED BY <2>2, <2>3, <2>4 DEF Chain, n
<1>8. x.duration <= d /\ Aligned(x.time, d, at) /\ Good(x, CloseOf(P), B)
  <2>1. n + 1 \in 1..Len(S)
    BY <1>2
  <2> QED BY <1>2, <1>4, <1>6, <2>1
<1>9. \A i \in 1..n : end_time(P[i]) <= x.time
  <2>1. n + 1 \in 1..Len(S) /\ \A i \in 1..n : i \in 1..Len(S) /\ i < n + 1
    BY <1>2
  <2> QED BY <1>2, <1>4, <2>1
<1>10. P # <<>> => Follows(P[n], x, d)
  <2> SUFFICES ASSUME n # 0
               PROVE  Follows(P[n], x, d)
    BY <1>3
  <2>1. n \in 1..Len(S) - 1 /\ n \in 1..n
    BY <1>2
  <2> QED BY <1>2, <1>4, <2>1
<1> QED BY <1>7, <1>8, <1>9, <1>10 DEF n

-----------------------------------------------------------------------------
(* A bar that is being composed, after the bars P.                         *)
Rest(b) == IF is_zero_bar(b) THEN <<>> ELSE <<b>>

Composing(P, b, B, d, at) ==
  /\ P \in Seq(Bar) /\ b \in Bar /\ b.duration < d
  /\ Composed(P \o Rest(b), B, d, at)
  /\ is_zero_bar(b) =>
       /\ P # <<>> /\ P[Len(P)].duration = d
       /\ b = zero_bar(end_time(P[Len(P)]), P[Len(P)].close)
  /\ \A x \in B : end_time(x) <= end_time(b)

(* The bar that is composed follows those that are complete.               *)
LEMMA ComposingFollows ==
  ASSUME NEW d, NEW at, NEW B, NEW P, NEW b, Composing(P, b, B, d, at)
  PROVE  /\ Chain(P, B, d, at)
         /\ \A i \in 1..Len(P) : end_time(P[i]) <= b.time
         /\ P # <<>> => Follows(P[Len(P)], b, d)
         /\ ~is_zero_bar(b) => Aligned(b.time, d, at) /\ Good(b, CloseOf(P), B)
         /\ is_zero_bar(b) => CloseOf(P) = b.close /\ b = zero_bar(b.time, b.close)
<1>1. P \in Seq(Bar) /\ b \in Bar /\ Chain(P \o Rest(b), B, d, at)
  BY DEF Composing, Composed
<1>2. CASE ~is_zero_bar(b)
  <2>1. Rest(b) = <<b>>
    BY <1>2 DEF Rest
  <2> QED BY <1>1, <1>2, <2>1, ChainFront
<1>3. CASE is_zero_bar(b)
  <2> DEFINE n == Len(P)
  <2>1. P \o Rest(b) = P
    BY <1>1, <1>3 DEF Rest
  <2>2. /\ P # <<>> /\ n \in Nat \ {0} /\ P[n].duration = d
        /\ b = zero_bar(end_time(P[n]), P[n].close)
    BY <1>1, <1>3 DEF Composing
  <2>3. b.time = end_time(P[n]) /\ b.close = P[n].close
    BY <2>2 DEF zero_bar
  <2>4. \A i \in 1..n : end_time(P[i]) <= b.time
    <3>1. ASSUME NEW i \in 1..n
          PROVE  end_time(P[i]) <= end_time(P[n])
      <4>1. P[i] \in Bar /\ P[n] \in Bar
        BY <1>1, <2>2
      <4>2. CASE i = n
        BY <4>1, <4>2 DEF Bar, end_time
      <4>3. CASE i # n
        <5>1. end_time(P[i]) <= P[n].time
          BY <1>1, <2>1, <2>2, <4>3 DEF Chain
        <5> QED BY <4>1, <5>1 DEF Bar, end_time
      <4> QED BY <4>2, <4>3
    <3> QED BY <2>3, <3>1
  <2>5. Follows(P[n], b, d) /\ CloseOf(P) = b.close /\ b = zero_bar(b.time, b.close)
    BY <2>2, <2>3 DEF Follows, CloseOf
  <2> QED BY <1>1, <1>3, <2>1, <2>4, <2>5
<1> QED BY <1>2, <1>3

(* The pieces that time is cut into, when it goes on by a.                 *)
LEMMA Steps ==
  ASSUME NEW d \in Nat \ {0}, NEW a \in Nat
  PROVE  LET K == a \div d + 1
         IN /\ K \in Nat \ {0}
            /\ \A k \in 1..K : (k - 1) * d \in Nat /\ (k - 1) * d <= a /\ (k - 1) * d = d * (k - 1)
            /\ \A k \in 1..K : k < K => (k - 1) * d + d <= a
            /\ \A k \in 1..K : (k + 1 - 1) * d = (k - 1) * d + d
            /\ \A k, m \in 1..K : k < m => (k - 1) * d + d <= (m - 1) * d
            /\ (K - 1) * d + d > a
<1> DEFINE q == a \div d
           r == a % d
<1>1. q \in Nat /\ r \in 0..d - 1 /\ a = d * q + r
  <2>1. a \div d \in Nat
    BY DivNat
  <2>2. a % d \in 0..d - 1 /\ a = d * (a \div d) + (a % d)
    BY DivMod
  <2> QED BY <2>1, <2>2
<1> HIDE DEF q, r
<1> DEFINE K == q + 1
<1>2. K \in Nat \ {0}
  BY <1>1
<1>3. \A k \in 1..K : (k - 1) * d \in Nat /\ (k - 1) * d = d * (k - 1) /\ (k + 1 - 1) * d = (k - 1) * d + d
  BY <1>2
<1>4. \A k, m \in 1..K : k < m => (k - 1) * d + d <= (m - 1) * d
  <2> SUFFICES ASSUME NEW k \in 1..K, NEW m \in 1..K, k < m
               PROVE  (k - 1) * d + d <= (m - 1) * d
    OBVIOUS
  <2> DEFINE j == m - k - 1
  <2>1. j \in Nat /\ m - 1 = (k - 1) + 1 + j
    BY <1>2
  <2> HIDE DEF j
  <2>2. (m - 1) * d = (k - 1) * d + d + j * d /\ j * d \in Nat
    BY <1>2, <2>1
  <2> QED BY <1>2, <1>3, <2>2
<1>5. (K - 1) * d = d * q
  BY <1>1
<1>6. \A k \in 1..K : (k - 1) * d <= a /\ (k < K => (k - 1) * d + d <= a)
  <2> SUFFICES ASSUME NEW k \in 1..K
               PROVE  (k - 1) * d <= a /\ (k < K => (k - 1) * d + d <= a)
    OBVIOUS
  <2>1. k = K \/ (k < K /\ (k - 1) * d + d <= (K - 1) * d)
    BY <1>2, <1>4
  <2> DEFINE x == (k - 1) * d
             y == (K - 1) * d
  <2>2. x \in Nat /\ y <= a /\ y \in Nat
    <3>1. y = d * q /\ d * q \in Nat
      BY <1>1, <1>5
    <3> QED BY <1>1, <1>3, <3>1
  <2> HIDE DEF x, y
  <2>3. k = K \/ (k < K /\ x + d <= y)
    BY <2>1 DEF x, y
  <2>4. k = K => x = y
    BY DEF x, y
  <2>5. x <= a /\ (k < K => x + d <= a)
    BY <1>2, <2>2, <2>3, <2>4
  <2> QED BY <2>5 DEF x
<1>7. (K - 1) * d + d > a
  <2>1. d * q \in Nat
    BY <1>1
  <2> DEFINE y == d * q
  <2> HIDE DEF y
  <2>2. y + d > a
    BY <1>1, <2>1 DEF y
  <2> QED BY <1>5, <2>2 DEF y
<1> QED BY <1>2, <1>3, <1>4, <1>6, <1>7 DEF q

(* What is unfinished is no bar or one.                                    *)
LEMMA RestSeq ==
  ASSUME NEW b \in Bar
  PROVE  Rest(b) \in Seq(Bar)
BY DEF Rest

(* A bar without duration has no gap.                                      *)
LEMMA ZeroBar ==
  ASSUME NEW t, NEW p
  PROVE  [zero_bar(t, p) EXCEPT !.duration = 0, !.gaps = FALSE] = zero_bar(t, p)
<1> DEFINE z == zero_bar(t, p)
<1>1. z = [k \in {"time", "duration", "open", "close", "gaps", "parts"} |-> z[k]]
  BY DEF zero_bar
<1> QED BY <1>1 DEF zero_bar

(* The smaller of two numbers.                                             *)
LEMMA MinOfTwo ==
  ASSUME NEW a \in Int, NEW b \in Int
  PROVE  Min({a, b}) = IF a <= b THEN a ELSE b
<1>1. \A m \in {a, b} : (\A y \in {a, b} : m <= y) <=> m = IF a <= b THEN a ELSE b
  OBVIOUS
<1>2. (IF a <= b THEN a ELSE b) \in {a, b}
  OBVIOUS
<1> QED BY <1>1, <1>2 DEF Min

(* A sequence is its front and its last element.                           *)
LEMMA FrontLast ==
  ASSUME NEW T, NEW R \in Seq(T), R # <<>>
  PROVE  /\ Front(R) \in Seq(T) /\ Last(R) \in T /\ R = Front(R) \o <<Last(R)>>
         /\ Len(R) \in Nat \ {0} /\ Len(Front(R)) = Len(R) - 1
         /\ \A k \in 1..Len(R) - 1 : Front(R)[k] = R[k]
         /\ Last(R) = R[Len(R)]
<1>1. Len(R) \in Nat \ {0} /\ 1 \in 1..Len(R) /\ Len(R) \in 1..Len(R)
  BY EmptySeq
<1>2. Len(R) - 1 \in 0..Len(R)
  BY <1>1
<1>3. /\ SubSeq(R, 1, Len(R) - 1) \in Seq(T)
      /\ Len(SubSeq(R, 1, Len(R) - 1)) = IF 1 <= Len(R) - 1 THEN Len(R) - 1 - 1 + 1 ELSE 0
      /\ \A k \in 1..Len(R) - 1 - 1 + 1 : SubSeq(R, 1, Len(R) - 1)[k] = R[1 + k - 1]
  BY <1>1, <1>2, SubSeqProperties
<1>4. R = SubSeq(R, 1, Len(R) - 1) \o <<R[Len(R)]>>
  BY <1>1, SubSeqFull, SubSeqRecursiveSecond
<1>5. R[Len(R)] \in T
  BY <1>1, ElementOfSeq
<1>6. \A n \in Nat \ {0} : n - 1 - 1 + 1 = n - 1 /\ (1 <= n - 1 \/ n - 1 = 0)
  OBVIOUS
<1>7. \A k \in Int : 1 + k - 1 = k
  OBVIOUS
<1> DEFINE F == SubSeq(R, 1, Len(R) - 1)
           n == Len(R)
<1>8. F = Front(R) /\ R[n] = Last(R) /\ Len(R) = n
  BY DEF Front, Last
<1>9. /\ n \in Nat \ {0} /\ F \in Seq(T) /\ R = F \o <<R[n]>> /\ R[n] \in T
      /\ Len(F) = IF 1 <= n - 1 THEN n - 1 - 1 + 1 ELSE 0
      /\ \A k \in 1..n - 1 - 1 + 1 : F[k] = R[1 + k - 1]
  BY <1>1, <1>3, <1>4, <1>5
<1> HIDE DEF F, n
<1>10. n - 1 - 1 + 1 = n - 1 /\ Len(F) = n - 1
  BY <1>6, <1>9
<1>11. \A k \in 1..n - 1 : F[k] = R[k]
  BY <1>7, <1>9, <1>10
<1> QED BY <1>8, <1>9, <1>10, <1>11

(* Front and last of a sequence with one more element.                     *)
LEMMA FrontAdded ==
  ASSUME NEW T, NEW R \in Seq(T), NEW x \in T
  PROVE  /\ R \o <<x>> \in Seq(T) /\ R \o <<x>> # <<>>
         /\ Front(R \o <<x>>) = R /\ Last(R \o <<x>>) = x
<1> DEFINE S == R \o <<x>>
<1>1. <<x>> \in Seq(T) /\ Len(<<x>>) = 1 /\ <<x>>[1] = x
  OBVIOUS
<1>2. S \in Seq(T) /\ Len(S) = Len(R) + 1 /\ Len(R) \in Nat
      /\ (\A k \in 1..Len(R) : S[k] = R[k]) /\ S[Len(R) + 1] = x
  BY <1>1, Parts
<1> HIDE DEF S
<1>3. S # <<>> /\ Last(S) = x
  BY <1>2 DEF Last
<1>4. Front(S) \in Seq(T) /\ Len(Front(S)) = Len(R) /\ \A k \in 1..Len(R) : Front(S)[k] = R[k]
  <2>1. /\ Front(S) \in Seq(T) /\ Len(Front(S)) = Len(S) - 1
        /\ \A k \in 1..Len(S) - 1 : Front(S)[k] = S[k]
    BY <1>2, <1>3, FrontLast
  <2>2. Len(S) - 1 = Len(R)
    BY <1>2
  <2> QED BY <1>2, <2>1, <2>2
<1>5. Front(S) = R
  <2>1. \A k \in 1..Len(Front(S)) : Front(S)[k] = R[k]
    BY <1>4
  <2> QED BY <1>4, <2>1, SeqEqual
<1> QED BY <1>2, <1>3, <1>5 DEF S

(* Time goes on in a composer: the bar it composes and bars without data   *)
(* fill it.                                                                *)
Advances(c, t, P, b, B, d, at) ==
  \E Q \in Seq(Bar), x \in Bar :
    /\ advance(c, t, TRUE) = [c EXCEPT !.bars = Q \o <<x>>]
    /\ Composing(P \o Q, x, B, d, at) /\ end_time(x) = t
    /\ Aligned(x.time, d, at) /\ Day(x.time) = Day(b.time) /\ x.time + d > t
    /\ \E k \in 1..(t - b.time + 1) : x.time + d = b.time + k * d

(* advance fills the time with bars that are composed of nothing.          *)
LEMMA Advanced ==
  ASSUME NEW d \in Nat \ {0}, NEW at \in Int, NEW B, \A b \in B : Whole(b),
         NEW P, NEW b, Composing(P, b, B, d, at), Aligned(b.time, d, at),
         NEW t \in Nat, end_time(b) < t, Day(t) = Day(b.time),
         NEW f \in B, Day(f.time) = Day(b.time), f.time < end_time(b),
         NEW c, c.bars = <<b>>, c.duration = d
  PROVE  Advances(c, t, P, b, B, d, at)
<1> DEFINE a == t - b.time
           K == a \div d + 1
           at_(k) == (k - 1) * d
           from(k) == b.time + (k - 1) * d
           length(k) == Min({from(k) + d, t}) - from(k)
           piece(k) == IF k = 1
                       THEN [b EXCEPT !.duration = length(k), !.gaps = @ \/ TRUE]
                       ELSE [zero_bar(from(k), b.close) EXCEPT !.duration = length(k), !.gaps = TRUE /\ length(k) > 0]
           R == [k \in 1..K |-> piece(k)]
<1>1. /\ b \in Bar /\ b.time \in Nat /\ b.duration \in Nat /\ b.duration < d /\ b.close \in Nat
      /\ P \in Seq(Bar) /\ \A y \in B : end_time(y) <= end_time(b)
      /\ end_time(b) = b.time + b.duration
  BY DEF Composing, Bar, end_time
<1>2. a \in Nat /\ a > b.duration
  BY <1>1
<1>3. /\ K \in Nat \ {0}
      /\ \A k \in 1..K : at_(k) \in Nat /\ at_(k) <= a /\ at_(k) = d * (k - 1)
      /\ \A k \in 1..K : k < K => at_(k) + d <= a
      /\ \A k \in 1..K : at_(k + 1) = at_(k) + d
      /\ \A k, m \in 1..K : k < m => at_(k) + d <= at_(m)
      /\ at_(K) + d > a
  <2> HIDE DEF a
  <2>1. LET N == a \div d + 1
        IN /\ N \in Nat \ {0}
           /\ \A k \in 1..N : (k - 1) * d \in Nat /\ (k - 1) * d <= a /\ (k - 1) * d = d * (k - 1)
           /\ \A k \in 1..N : k < N => (k - 1) * d + d <= a
           /\ \A k \in 1..N : (k + 1 - 1) * d = (k - 1) * d + d
           /\ \A k, m \in 1..N : k < m => (k - 1) * d + d <= (m - 1) * d
           /\ (N - 1) * d + d > a
    BY <1>2, Steps
  <2> QED BY <2>1
<1>4. \A k \in 1..K : from(k) = b.time + at_(k)
  OBVIOUS
<1>5. \A k \in 1..K :
        /\ length(k) \in Nat /\ (k < K => length(k) = d) /\ length(K) = t - from(K) /\ length(K) < d
        /\ length(1) > b.duration
        /\ length(k) <= t - from(k) /\ length(k) <= d
        /\ from(k) \in Nat /\ b.time <= from(k) /\ from(k) <= t
  <2> SUFFICES ASSUME NEW k \in 1..K
               PROVE  /\ length(k) \in Nat /\ (k < K => length(k) = d)
                      /\ (k = K => length(k) = t - from(k) /\ length(k) < d)
                      /\ (k = 1 => length(k) > b.duration)
                      /\ length(k) <= t - from(k) /\ length(k) <= d
                      /\ from(k) \in Nat /\ b.time <= from(k) /\ from(k) <= t
    <3>1. 1 \in 1..K /\ K \in 1..K
      BY <1>3
    <3> QED BY <3>1
  <2>1. /\ at_(k) \in Nat /\ at_(k) <= a /\ (k < K => at_(k) + d <= a) /\ (k = K => at_(k) + d > a)
        /\ (k = 1 => at_(k) = 0) /\ K \in Nat \ {0}
    <3>1. at_(1) = 0
      OBVIOUS
    <3> HIDE DEF at_, K
    <3> QED BY <1>3, <3>1
  <2> DEFINE g == from(k)
             x == at_(k)
  <2>2. length(k) = (IF g + d <= t THEN g + d ELSE t) - g
    <3>1. g + d \in Int /\ t \in Int
      BY <1>1, <2>1
    <3> HIDE DEF g
    <3>2. Min({g + d, t}) = IF g + d <= t THEN g + d ELSE t
      BY <3>1, MinOfTwo
    <3>3. length(k) = Min({g + d, t}) - g
      BY DEF g
    <3> HIDE DEF length
    <3> QED BY <3>2, <3>3
  <2>3. g = b.time + x /\ x \in Nat /\ x <= a /\ (k < K => x + d <= a) /\ (k = K => x + d > a)
        /\ (k = 1 => x = 0)
    BY <2>1
  <2> HIDE DEF x, g, length, K, at_
  <2>4. t = b.time + a
    BY <1>1
  <2> HIDE DEF a
  <2>5. CASE k < K
    <3>1. length(k) = d /\ g + d <= t
      BY <1>1, <1>2, <2>2, <2>3, <2>4, <2>5
    <3>2. g \in Nat /\ b.time <= g
      BY <1>1, <2>3
    <3>3. length(k) <= t - g /\ g <= t /\ length(k) > b.duration /\ length(k) <= d
      BY <1>1, <3>1, <3>2
    <3>4. k # K
      BY <2>1, <2>5
    <3> QED BY <2>5, <3>1, <3>2, <3>3, <3>4 DEF g
  <2>6. CASE k = K
    <3>1. length(k) = t - g /\ g + d > t
      BY <1>1, <1>2, <2>2, <2>3, <2>4, <2>6
    <3>2. g \in Nat /\ b.time <= g
      BY <1>1, <2>3
    <3>3. g <= t
      BY <1>1, <1>2, <2>3, <2>4, <3>2
    <3>4. length(k) < d /\ length(k) \in Nat /\ g <= t
      BY <3>1, <3>2, <3>3
    <3>5. k = 1 => length(k) > b.duration
      BY <1>1, <1>2, <2>3, <2>4, <3>1, <3>2
    <3>6. ~(k < K)
      BY <2>1, <2>6
    <3> QED BY <2>6, <3>1, <3>2, <3>4, <3>5, <3>6 DEF g
  <2>7. k < K \/ k = K
    BY <1>3 DEF K
  <2> QED BY <2>5, <2>6, <2>7
<1> HIDE DEF length
<1>6. \A k \in 1..K :
        /\ piece(k) \in Bar /\ piece(k).time = from(k) /\ piece(k).duration = length(k)
        /\ piece(k).close = b.close
  <2> SUFFICES ASSUME NEW k \in 1..K
               PROVE  /\ piece(k) \in Bar /\ piece(k).time = from(k) /\ piece(k).duration = length(k)
                      /\ piece(k).close = b.close
    OBVIOUS
  <2>1. length(k) \in Nat /\ from(k) \in Nat /\ (k = 1 => from(k) = b.time)
    BY <1>1, <1>5
  <2> HIDE DEF from
  <2> QED BY <1>1, <2>1 DEF Bar, zero_bar
<1>7. R \in Seq(Bar) /\ Len(R) = K /\ R # <<>> /\ \A k \in 1..K : R[k] = piece(k)
  <2>1. K \in Nat /\ \A k \in 1..K : piece(k) \in Bar
    BY <1>3, <1>6
  <2> HIDE DEF piece, K
  <2>2. R \in Seq(Bar) /\ Len(R) = K
    BY <2>1
  <2>3. R # <<>>
    BY <1>3, <2>2
  <2> QED BY <2>2, <2>3
<1>8. advance(c, t, TRUE) = [c EXCEPT !.bars = R]
  <2>1. composing_bar(c) = b /\ Front(c.bars) = <<>>
    BY DEF composing_bar, Front, Last
  <2>2. <<>> \o R = R
    BY <1>7, ConcatEmptySeq
  <2>3. advance(c, t, TRUE) = [c EXCEPT !.bars = <<>> \o R]
    BY <2>1 DEF advance, length
  <2> QED BY <2>2, <2>3
<1> DEFINE Q == Front(R)
           x == Last(R)
           q == Q \o Rest(x)
<1>9. /\ Q \in Seq(Bar) /\ R = Q \o <<x>> /\ Len(Q) = K - 1 /\ x = piece(K) /\ x \in Bar
      /\ \A k \in 1..K - 1 : Q[k] = piece(k)
  <2>1. 1..K - 1 \subseteq 1..K /\ K \in 1..K
    BY <1>3
  <2> HIDE DEF R, piece
  <2> QED BY <1>7, <2>1, FrontLast
<1> HIDE DEF R, Q, x
<1>10. /\ q \in Seq(Bar) /\ Len(q) \in Nat /\ Len(q) <= K /\ (Len(q) = K \/ (is_zero_bar(x) /\ Len(q) = K - 1))
       /\ \A k \in 1..Len(q) : k \in 1..K /\ q[k] = piece(k) /\ length(k) > 0
  <2>1. is_zero_bar(x) <=> length(K) = 0
    <3>1. K \in 1..K
      BY <1>3
    <3>2. x.duration = length(K)
      BY <1>6, <1>9, <3>1
    <3> QED BY <3>2 DEF is_zero_bar
  <2>2. CASE is_zero_bar(x)
    <3>1. q = Q
      <4>1. Rest(x) = <<>>
        BY <2>2 DEF Rest
      <4> QED BY <1>9, <4>1, ConcatEmptySeq
    <3>2. \A k \in 1..K - 1 : k \in 1..K /\ length(k) = d
      <4>1. \A k \in 1..K - 1 : k \in 1..K /\ k < K
        BY <1>3
      <4> QED BY <1>5, <4>1
    <3>3. K - 1 \in Nat /\ K - 1 <= K
      BY <1>3
    <3> HIDE DEF piece, K, q
    <3> QED BY <1>9, <2>2, <3>1, <3>2, <3>3
  <2>3. CASE ~is_zero_bar(x)
    <3>1. q = R
      BY <1>9, <2>3 DEF Rest
    <3>2. \A k \in 1..K : length(k) > 0
      <4>1. K \in 1..K /\ length(K) \in Nat /\ length(K) # 0
        BY <1>3, <1>5, <2>1, <2>3
      <4>2. \A k \in 1..K : k = K \/ k < K
        BY <1>3
      <4>3. \A k \in 1..K : k < K => length(k) = d
        BY <1>5
      <4> HIDE DEF K
      <4> QED BY <4>1, <4>2, <4>3
    <3>3. K \in Nat /\ K <= K
      BY <1>3
    <3> HIDE DEF piece, K, q
    <3> QED BY <1>7, <3>1, <3>2, <3>3 DEF R
  <2> QED BY <2>2, <2>3
<1>11. Q \in Seq(Bar) /\ x \in Bar /\ Rest(x) \in Seq(Bar) /\ Len(Q) = K - 1 /\ q = Q \o Rest(x)
  <2>1. Q \in Seq(Bar) /\ x \in Bar /\ Len(Q) = K - 1
    BY <1>9
  <2> QED BY <2>1, RestSeq
<1> HIDE DEF q
<1>12. q \in Seq(Bar) /\ Len(q) \in Nat /\ (q # <<>> => Len(q) > 0)
  <2>1. q \in Seq(Bar)
    BY <1>10
  <2> QED BY <2>1
<1>13. /\ Chain(P, B, d, at)
       /\ \A i \in 1..Len(P) : end_time(P[i]) <= b.time
       /\ P # <<>> => Follows(P[Len(P)], b, d)
       /\ ~is_zero_bar(b) => Good(b, CloseOf(P), B)
       /\ is_zero_bar(b) => CloseOf(P) = b.close /\ b = zero_bar(b.time, b.close)
  BY ComposingFollows
<1>14. \A y \in B : y.time \in Nat /\ y.time < end_time(y) /\ end_time(y) \in Nat /\ y.time < end_time(b)
  BY <1>1 DEF Whole, Bar, end_time
<1>15. \A u \in Int : b.time <= u /\ u <= t => Day(u) = Day(b.time)
  BY <1>1, DayBetween
<1>16. ASSUME NEW k \in 1..K
       PROVE  /\ Day(from(k)) = Day(b.time) /\ Aligned(from(k), d, at)
              /\ length(k) > 0 => Day(from(k) + length(k) - 1) = Day(from(k))
  <2>1. /\ from(k) \in Nat /\ b.time <= from(k) /\ from(k) <= t
        /\ length(k) \in Nat /\ length(k) <= t - from(k)
    BY <1>5
  <2>2. Day(from(k)) = Day(b.time)
    BY <1>15, <2>1
  <2>3. length(k) > 0 => Day(from(k) + length(k) - 1) = Day(from(k))
    <3> DEFINE g == from(k)
               u == g + length(k) - 1
    <3> HIDE DEF g
    <3>1. g \in Nat /\ b.time <= g /\ g <= t /\ length(k) \in Nat /\ length(k) <= t - g
      BY <2>1 DEF g
    <3>2. length(k) > 0 => u \in Int /\ b.time <= u /\ u <= t
      BY <1>1, <3>1
    <3> HIDE DEF u
    <3>3. length(k) > 0 => Day(u) = Day(b.time)
      BY <1>15, <3>2
    <3> QED BY <2>2, <3>3 DEF u, g
  <2>4. Aligned(from(k), d, at)
    <3>1. from(k) = b.time + d * (k - 1) /\ k - 1 \in Int
      BY <1>1, <1>3, <1>4
    <3>2. Day(b.time) = Day(b.time + d * (k - 1))
      BY <2>2, <3>1
    <3>3. b.time \in Int
      BY <1>1
    <3> HIDE DEF from
    <3>4. Aligned(b.time + d * (k - 1), d, at)
      BY <3>1, <3>2, <3>3, AlignedSum
    <3> QED BY <3>1, <3>4
  <2> QED BY <2>2, <2>3, <2>4
<1>17. ASSUME NEW k \in 1..K, k # 1, length(k) > 0
       PROVE  Good(piece(k), b.close, B)
  <2> DEFINE g == from(k)
  <2>1. g \in Nat /\ Day(f.time) = Day(g) /\ length(k) \in Nat /\ Day(g + length(k) - 1) = Day(g)
    BY <1>5, <1>16, <1>17
  <2>2. \A y \in B : end_time(y) <= g
    <3>1. k \in 1..K /\ 1 \in 1..K /\ 1 < k
      BY <1>3, <1>17
    <3>2. at_(1) + d <= at_(k) /\ at_(1) = 0
      <4>1. at_(1) + d <= at_(k)
        BY <1>3, <3>1
      <4> QED BY <4>1
    <3>3. g = b.time + at_(k) /\ at_(k) \in Nat
      BY <1>3
    <3> HIDE DEF g, at_
    <3>4. end_time(b) <= g
      BY <1>1, <3>2, <3>3
    <3> QED BY <1>1, <1>14, <2>1, <3>4
  <2>3. piece(k) = [zero_bar(g, b.close) EXCEPT !.duration = length(k), !.gaps = TRUE]
    BY <1>17
  <2> HIDE DEF g, piece
  <2>4. Good([zero_bar(g, b.close) EXCEPT !.duration = length(k), !.gaps = TRUE], b.close, B)
    BY <1>1, <1>17, <2>1, <2>2, GoodFiller
  <2> QED BY <2>3, <2>4
<1>18. Good(piece(1), CloseOf(P), B)
  <2>1. /\ 1 \in 1..K /\ length(1) \in Nat /\ length(1) > b.duration /\ length(1) > 0
        /\ from(1) = b.time
    <3>1. 1 \in 1..K
      BY <1>3
    <3>2. length(1) \in Nat /\ length(1) > b.duration
      BY <1>5, <3>1
    <3>3. (1 - 1) * d = 0
      OBVIOUS
    <3>4. from(1) = b.time
      BY <1>1, <3>3
    <3> HIDE DEF K
    <3> QED BY <1>1, <3>1, <3>2, <3>4
  <2>2. Day(b.time + length(1) - 1) = Day(b.time)
    BY <1>16, <2>1
  <2>3. piece(1) = [b EXCEPT !.duration = length(1), !.gaps = TRUE]
    OBVIOUS
  <2> HIDE DEF piece
  <2>4. CASE ~is_zero_bar(b)
    <3>1. Good([b EXCEPT !.duration = length(1), !.gaps = TRUE], CloseOf(P), B)
      BY <1>1, <1>13, <2>1, <2>2, <2>4, GoodExtended
    <3> QED BY <2>3, <3>1
  <2>5. CASE is_zero_bar(b)
    <3>1. CloseOf(P) = b.close /\ b = zero_bar(b.time, b.close) /\ end_time(b) = b.time
      BY <1>1, <1>13, <2>5 DEF is_zero_bar
    <3>2. Good([zero_bar(b.time, b.close) EXCEPT !.duration = length(1), !.gaps = TRUE], b.close, B)
      BY <1>1, <2>1, <2>2, <3>1, GoodFiller
    <3> QED BY <2>3, <3>1, <3>2
  <2> QED BY <2>4, <2>5
<1>19. ASSUME NEW k \in 1..Len(q)
       PROVE  /\ q[k].duration <= d /\ Aligned(q[k].time, d, at)
              /\ Good(q[k], IF k = 1 THEN CloseOf(P) ELSE q[k - 1].close, B)
              /\ q[k].time = from(k) /\ q[k].duration = length(k) /\ end_time(q[k]) = from(k) + length(k)
  <2>1. k \in 1..K /\ q[k] = piece(k) /\ length(k) > 0
    BY <1>10
  <2>2. q[k].time = from(k) /\ q[k].duration = length(k)
    BY <1>6, <2>1
  <2>3. length(k) <= d /\ Aligned(from(k), d, at)
    BY <1>5, <1>16, <2>1
  <2>4. CASE k = 1
    BY <1>18, <2>1, <2>2, <2>3, <2>4 DEF end_time
  <2>5. CASE k # 1
    <3>1. k - 1 \in 1..Len(q)
      BY <1>12, <2>5
    <3>2. q[k - 1].close = b.close
      <4>1. k - 1 \in 1..K /\ q[k - 1] = piece(k - 1)
        BY <1>10, <3>1
      <4> HIDE DEF piece, K
      <4> QED BY <1>6, <4>1
    <3>3. Good(piece(k), b.close, B)
      BY <1>17, <2>1, <2>5
    <3> HIDE DEF piece, from
    <3> QED BY <2>1, <2>2, <2>3, <2>5, <3>2, <3>3 DEF end_time
  <2> QED BY <2>4, <2>5
<1>20. \A k, m \in 1..Len(q) : k < m => end_time(q[k]) <= q[m].time /\ (m = k + 1 => Follows(q[k], q[m], d))
  <2> SUFFICES ASSUME NEW k \in 1..Len(q), NEW m \in 1..Len(q), k < m
               PROVE  end_time(q[k]) <= q[m].time /\ (m = k + 1 => Follows(q[k], q[m], d))
    OBVIOUS
  <2>1. /\ k \in 1..K /\ m \in 1..K /\ k < K
        /\ q[m].time = from(m) /\ q[k].duration = length(k) /\ end_time(q[k]) = from(k) + length(k)
    <3>1. k \in 1..K /\ m \in 1..K
      BY <1>10
    <3>2. k < K
      BY <1>3, <3>1
    <3> HIDE DEF from
    <3> QED BY <1>19, <3>1, <3>2
  <2>2. length(k) = d
    BY <1>5, <2>1
  <2>3. at_(k) + d <= at_(m) /\ (m = k + 1 => at_(m) = at_(k) + d) /\ at_(k) \in Nat /\ at_(m) \in Nat
    BY <1>3, <2>1
  <2>4. from(k) = b.time + at_(k) /\ from(m) = b.time + at_(m)
    OBVIOUS
  <2> HIDE DEF at_, from
  <2> QED BY <1>1, <2>1, <2>2, <2>3, <2>4 DEF Follows
<1>21. Chain(P \o q, B, d, at)
  <2>1. \A k \in 1..Len(q) : b.time <= q[k].time /\ q[k].time \in Nat
    <3> SUFFICES ASSUME NEW k \in 1..Len(q)
                 PROVE  b.time <= q[k].time /\ q[k].time \in Nat
      OBVIOUS
    <3>1. q[k].time = from(k) /\ k \in 1..K
      BY <1>10, <1>19
    <3> QED BY <1>5, <3>1
  <2>2. \A i \in 1..Len(P), k \in 1..Len(q) : end_time(P[i]) <= q[k].time
    <3>1. \A i \in 1..Len(P) : end_time(P[i]) \in Nat
      <4>1. \A i \in 1..Len(P) : P[i] \in Bar
        BY <1>1
      <4> QED BY <4>1 DEF Bar, end_time
    <3> QED BY <1>1, <1>13, <2>1, <3>1
  <2>3. P # <<>> /\ q # <<>> => Follows(P[Len(P)], q[1], d)
    <3>1. q # <<>> => 1 \in 1..Len(q)
      BY <1>12
    <3>2. q # <<>> => q[1].time = from(1)
      BY <1>19, <3>1
    <3>3. (1 - 1) * d = 0
      OBVIOUS
    <3>4. from(1) = b.time
      BY <1>1, <3>3
    <3> HIDE DEF from
    <3> QED BY <1>13, <3>2, <3>4 DEF Follows
  <2>4. \A k \in 1..Len(q) - 1 : Follows(q[k], q[k + 1], d)
    <3>1. \A k \in 1..Len(q) - 1 : k \in 1..Len(q) /\ k + 1 \in 1..Len(q) /\ k < k + 1
      BY <1>12
    <3> QED BY <1>20, <3>1
  <2>5. \A k \in 1..Len(q) :
           /\ q[k].duration <= d /\ Aligned(q[k].time, d, at)
           /\ Good(q[k], IF k = 1 THEN CloseOf(P) ELSE q[k - 1].close, B)
    BY <1>19
  <2>6. \A k, m \in 1..Len(q) : k < m => end_time(q[k]) <= q[m].time
    BY <1>20
  <2>7. q \in Seq(Bar)
    BY <1>10
  <2> QED BY <1>13, <2>2, <2>3, <2>4, <2>5, <2>6, <2>7, ChainJoin
<1>22. Filled(P \o q, B)
  <2> SUFFICES ASSUME NEW y \in B
               PROVE  Holds(P \o q, y)
    BY DEF Filled
  <2>1. Holds(P \o Rest(b), y)
    BY DEF Composing, Composed, Filled
  <2>2. CASE Holds(P, y)
    BY <1>1, <1>12, <2>2, HoldsJoin
  <2>3. CASE is_zero_bar(b)
    <3>1. P \o Rest(b) = P
      BY <1>1, <2>3, ConcatEmptySeq DEF Rest
    <3> QED BY <2>1, <2>2, <3>1
  <2>4. CASE ~is_zero_bar(b) /\ ~Holds(P, y)
    <3>0. <<b>> \in Seq(Bar) /\ Rest(b) = <<b>>
      BY <1>1, <2>4 DEF Rest
    <3>1. b.time <= y.time /\ y.time < end_time(b)
      BY <1>1, <2>1, <2>4, <3>0, HoldsJoin, HoldsOne
    <3>2. 1 \in 1..K /\ length(1) > b.duration /\ length(1) \in Nat
      <4>1. 1 \in 1..K
        BY <1>3
      <4> QED BY <1>5, <4>1
    <3>3. 1 \in 1..Len(q)
      <4>1. CASE Len(q) = K
        BY <3>2, <4>1
      <4>2. CASE is_zero_bar(x) /\ Len(q) = K - 1
        <5>1. x.duration = length(K)
          <6>1. K \in 1..K
            BY <1>3
          <6> QED BY <1>6, <1>9, <6>1
        <5>2. length(K) = 0 /\ length(1) # 0
          BY <1>1, <3>2, <4>2, <5>1 DEF is_zero_bar
        <5>3. K \in Nat \ {0} /\ K # 1
          BY <1>3, <5>2
        <5> HIDE DEF K
        <5> QED BY <1>12, <4>2, <5>3
      <4> QED BY <1>10, <4>1, <4>2
    <3>4. q[1].time = from(1) /\ end_time(q[1]) = from(1) + length(1)
      BY <1>19, <3>3
    <3>5. (1 - 1) * d = 0
      OBVIOUS
    <3>6. from(1) = b.time
      BY <1>1, <3>5
    <3>7. q[1].time <= y.time /\ y.time < end_time(q[1])
      <4>1. y.time \in Nat /\ b.time <= y.time /\ y.time < b.time + b.duration
        BY <1>1, <1>14, <3>1
      <4> HIDE DEF from
      <4> QED BY <1>1, <3>2, <3>4, <3>6, <4>1
    <3>8. Holds(q, y)
      BY <3>3, <3>7 DEF Holds
    <3> QED BY <1>1, <1>12, <3>8, HoldsJoin
  <2> QED BY <2>2, <2>3, <2>4
<1>23. /\ x.time = from(K) /\ x.duration = length(K) /\ x.close = b.close /\ end_time(x) = t
       /\ x.duration < d /\ K \in 1..K
  <2>1. K \in 1..K
    BY <1>3
  <2>2. x.time = from(K) /\ x.duration = length(K) /\ x.close = b.close
    BY <1>6, <1>9, <2>1
  <2>3. length(K) = t - from(K) /\ length(K) < d /\ from(K) \in Nat
    BY <1>5, <2>1
  <2> HIDE DEF from, K
  <2> QED BY <2>1, <2>2, <2>3 DEF end_time
<1>24. P \o Q \in Seq(Bar) /\ (P \o Q) \o Rest(x) = P \o q
  <2>1. P \in Seq(Bar) /\ Q \in Seq(Bar) /\ Rest(x) \in Seq(Bar) /\ q = Q \o Rest(x)
    BY <1>1, <1>11
  <2>2. P \o Q \in Seq(Bar)
    BY <2>1
  <2>3. (P \o Q) \o Rest(x) = P \o (Q \o Rest(x))
    BY <2>1, ConcatAssociative
  <2> QED BY <2>1, <2>2, <2>3
<1>25. ASSUME is_zero_bar(x)
       PROVE  /\ P \o Q # <<>> /\ (P \o Q)[Len(P \o Q)].duration = d
              /\ x = zero_bar(end_time((P \o Q)[Len(P \o Q)]), (P \o Q)[Len(P \o Q)].close)
  <2>1. length(K) = 0 /\ K # 1
    <3>1. length(K) = 0
      BY <1>23, <1>25 DEF is_zero_bar
    <3>2. 1 \in 1..K
      BY <1>3
    <3>3. length(1) > b.duration
      BY <1>5, <3>2
    <3> HIDE DEF K
    <3> QED BY <1>1, <3>1, <3>3
  <2> DEFINE j == K - 1
  <2>2. j \in 1..K /\ j < K /\ j \in 1..Len(Q) /\ Len(Q) = j /\ j \in 1..K - 1 /\ j + 1 = K
    <3>1. K \in Nat \ {0} /\ Len(Q) = K - 1
      BY <1>3, <1>11
    <3> HIDE DEF K
    <3> QED BY <2>1, <3>1
  <2>3. Q[j].time = from(j) /\ Q[j].duration = length(j) /\ Q[j].close = b.close
    <3>1. Q[j] = piece(j)
      BY <1>9, <2>2
    <3> HIDE DEF piece, from, j, K
    <3> QED BY <1>6, <2>2, <3>1
  <2>4. length(j) = d
    BY <1>5, <2>2
  <2>5. from(K) = from(j) + d
    <3>1. at_(K) = at_(j) + d /\ at_(j) \in Nat
      BY <1>3, <2>2
    <3>2. from(K) = b.time + at_(K) /\ from(j) = b.time + at_(j)
      OBVIOUS
    <3> HIDE DEF at_, from, j
    <3> QED BY <1>1, <3>1, <3>2
  <2>6. (P \o Q)[Len(P \o Q)] = Q[j] /\ P \o Q # <<>>
    <3>1. Len(P \o Q) = Len(P) + j /\ (P \o Q)[Len(P) + j] = Q[j] /\ Len(P) \in Nat
      <4>1. P \in Seq(Bar) /\ Q \in Seq(Bar) /\ j \in 1..Len(Q) /\ Len(Q) = j
        BY <1>1, <1>11, <2>2
      <4> HIDE DEF j
      <4>2. Len(P \o Q) = Len(P) + Len(Q) /\ Len(P) \in Nat
        BY <4>1, Parts
      <4>3. \A k \in 1..Len(Q) : (P \o Q)[Len(P) + k] = Q[k]
        BY <4>1, Parts
      <4> QED BY <4>1, <4>2, <4>3
    <3>2. Len(P \o Q) # 0
      BY <2>2, <3>1
    <3> QED BY <1>24, <3>1, <3>2
  <2>7. x = zero_bar(from(K), b.close)
    <3> DEFINE z == [zero_bar(from(K), b.close) EXCEPT !.duration = 0, !.gaps = FALSE]
    <3>1. x = [zero_bar(from(K), b.close) EXCEPT !.duration = length(K), !.gaps = TRUE /\ length(K) > 0]
      BY <1>9, <2>1
    <3>2. (TRUE /\ length(K) > 0) = FALSE
      BY <2>1
    <3>3. x = z
      <4> HIDE DEF piece, K, from
      <4> QED BY <2>1, <3>1, <3>2
    <3>4. z = zero_bar(from(K), b.close)
      <4> HIDE DEF from, K
      <4> QED BY ZeroBar
    <3> QED BY <3>3, <3>4
  <2> HIDE DEF from, K, piece, j
  <2> QED BY <2>3, <2>4, <2>5, <2>6, <2>7 DEF end_time
<1>26. \A y \in B : end_time(y) <= end_time(x)
  <2>1. end_time(b) \in Nat
    BY <1>1
  <2> HIDE DEF K
  <2> QED BY <1>1, <1>14, <1>23, <2>1
<1>27. Composing(P \o Q, x, B, d, at)
  <2> HIDE DEF K
  <2> QED BY <1>9, <1>21, <1>22, <1>23, <1>24, <1>25, <1>26 DEF Composing, Composed
<1>28. Aligned(x.time, d, at) /\ Day(x.time) = Day(b.time)
  BY <1>16, <1>23
<1>29. /\ x.time + d > t
       /\ \E k \in 1..(t - b.time + 1) : x.time + d = b.time + k * d
  <2>1. /\ at_(K) = (K - 1) * d /\ at_(K) \in Nat /\ at_(K) <= a /\ at_(K) = d * (K - 1)
        /\ at_(K) + d > a
    BY <1>3, <1>23
  <2>2. K \in Nat \ {0} /\ x.time = b.time + at_(K)
    BY <1>3, <1>23
  <2> HIDE DEF K
  <2>3. K * d = (K - 1) * d + d /\ d * (K - 1) >= K - 1 /\ d * (K - 1) \in Nat
    BY <2>2
  <2> HIDE DEF at_
  <2>4. x.time + d > t
    BY <1>1, <1>2, <2>1, <2>2
  <2>5. K - 1 <= a
    BY <1>2, <2>1, <2>2, <2>3
  <2>6. K \in 1..(t - b.time + 1)
    BY <1>2, <2>2, <2>5
  <2>7. x.time + d = b.time + K * d
    <3> DEFINE e == at_(K)
    <3>1. e \in Nat /\ x.time = b.time + e /\ K * d = e + d
      BY <2>1, <2>2, <2>3
    <3> HIDE DEF e
    <3> QED BY <1>1, <3>1
  <2> QED BY <2>4, <2>6, <2>7
<1>30. advance(c, t, TRUE) = [c EXCEPT !.bars = Q \o <<x>>] /\ Q \in Seq(Bar) /\ x \in Bar
  <2>1. R = Q \o <<x>>
    BY <1>9
  <2> QED BY <1>8, <1>11, <2>1
<1> QED BY <1>23, <1>27, <1>28, <1>29, <1>30 DEF Advances

Added(b, bar) == IF is_zero_bar(b) THEN bar ELSE Sum(b, bar)

(* The sum of the composing bar and one that follows it.                   *)
LEMMA AddedBar ==
  ASSUME NEW b \in Bar, NEW bar, Whole(bar), bar.time = end_time(b)
  PROVE  LET s == Added(b, bar)
         IN /\ s \in Bar /\ s.time = b.time /\ end_time(s) = end_time(bar) /\ s.close = bar.close
            /\ s.duration > 0 /\ end_time(b) < end_time(s) /\ end_time(s) = s.time + s.duration
            /\ s.duration \in Nat /\ s.time \in Nat
<1> DEFINE s == Added(b, bar)
<1>1. /\ bar \in Bar /\ bar.time \in Nat /\ bar.duration \in Nat /\ bar.duration > 0
      /\ b.time \in Nat /\ b.duration \in Nat
      /\ end_time(b) = b.time + b.duration /\ end_time(bar) = bar.time + bar.duration
  BY DEF Whole, Bar, end_time
<1>2. CASE is_zero_bar(b)
  BY <1>1, <1>2 DEF Added, is_zero_bar
<1>3. CASE ~is_zero_bar(b)
  <2> DEFINE n == end_time(bar) - b.time
  <2>1. n \in Nat /\ n > 0 /\ b.time + n = end_time(bar)
    BY <1>1
  <2>2. s \in Bar /\ s.time = b.time /\ s.duration = n /\ s.close = bar.close
    <3>1. s = Sum(b, bar)
      BY <1>3 DEF Added
    <3> HIDE DEF s
    <3> QED BY <1>1, <2>1, <3>1 DEF Sum, Bar
  <2> HIDE DEF s, n
  <2>3. end_time(s) = s.time + s.duration
    BY DEF end_time
  <2>4. end_time(b) < end_time(bar)
    BY <1>1
  <2> QED BY <1>1, <2>1, <2>2, <2>3, <2>4 DEF s
<1> QED BY <1>2, <1>3

(* insert_adjacent_bar, on a list of bars whose last is known.             *)
LEMMA InsertAdjacent ==
  ASSUME NEW Q \in Seq(Bar), NEW b \in Bar, NEW c, c.bars = Q \o <<b>>, NEW bar
  PROVE  LET s == Added(b, bar)
         IN insert_adjacent_bar(c, bar)
              = [c EXCEPT !.bars = (Q \o <<s>>) \o
                   (IF end_time(s) = b.time + c.duration THEN <<zero_bar(end_time(s), s.close)>> ELSE <<>>)]
<1>1. composing_bar(c) = b /\ Front(c.bars) = Q
  BY FrontAdded DEF composing_bar
<1>2. composed_end(c) = b.time + c.duration
  BY <1>1 DEF composed_end
<1> QED BY <1>1, <1>2 DEF insert_adjacent_bar, Added

(* The bar s is put after the bars P0 \o Q, complete or not.               *)
Putting(P0, Q, s, C, d, at) ==
  \E R \in Seq(Bar), y \in Bar :
      /\ (Q \o <<s>>) \o
           (IF end_time(s) = s.time + d THEN <<zero_bar(end_time(s), s.close)>> ELSE <<>>)
           = R \o <<y>>
      /\ Composing(P0 \o R, y, C, d, at)
      /\ end_time(y) = end_time(s)
      /\ R \o Rest(y) = Q \o <<s>>
      /\ is_zero_bar(y) <=> end_time(s) = s.time + d

(* A good bar after a chain is composed, or complete and followed by zero. *)
LEMMA Put ==
  ASSUME NEW d \in Nat \ {0}, NEW at \in Int, NEW C,
         NEW P0 \in Seq(Bar), NEW Q \in Seq(Bar), NEW s \in Bar,
         s.duration > 0, s.duration <= d, Aligned(s.time, d, at),
         Chain(P0 \o Q, C, d, at), Good(s, CloseOf(P0 \o Q), C),
         \A i \in 1..Len(P0 \o Q) : end_time((P0 \o Q)[i]) <= s.time,
         P0 \o Q # <<>> => Follows((P0 \o Q)[Len(P0 \o Q)], s, d),
         Filled((P0 \o Q) \o <<s>>, C),
         \A x \in C : end_time(x) <= end_time(s)
  PROVE  Putting(P0, Q, s, C, d, at)
<1> DEFINE P == P0 \o Q
           z == zero_bar(end_time(s), s.close)
           full == end_time(s) = s.time + d
<1>1. /\ s.time \in Nat /\ s.duration \in Nat /\ end_time(s) \in Nat
      /\ end_time(s) = s.time + s.duration /\ s.close \in Nat
  BY BarTimes
<1>2. P \in Seq(Bar)
  OBVIOUS
<1> HIDE DEF P
<1>3. <<s>> \in Seq(Bar) /\ Len(<<s>>) = 1 /\ <<s>>[1] = s /\ Len(P) \in Nat
  BY <1>1, <1>2
<1>4. Chain(P \o <<s>>, C, d, at)
  <2> DEFINE q == <<s>>
  <2>1. /\ \A k \in 1..Len(q) : k = 1 /\ q[k] = s
        /\ Len(q) = 1 /\ q[1] = s /\ q \in Seq(Bar)
    BY <1>3
  <2> HIDE DEF q
  <2>2. \A k \in 1..Len(q) :
           /\ q[k].duration <= d /\ Aligned(q[k].time, d, at)
           /\ Good(q[k], IF k = 1 THEN CloseOf(P) ELSE q[k - 1].close, C)
    BY <2>1 DEF P
  <2>3. \A k, m \in 1..Len(q) : ~(k < m)
    BY <2>1
  <2>4. \A k \in 1..Len(q) - 1 : FALSE
    BY <2>1
  <2>5. \A i \in 1..Len(P), k \in 1..Len(q) : end_time(P[i]) <= q[k].time
    BY <2>1 DEF P
  <2>6. P # <<>> /\ q # <<>> => Follows(P[Len(P)], q[1], d)
    BY <2>1 DEF P
  <2>7. Chain(P, C, d, at)
    BY DEF P
  <2>8. Chain(P \o q, C, d, at)
    BY <2>1, <2>2, <2>3, <2>4, <2>5, <2>6, <2>7, ChainJoin
  <2> QED BY <2>8 DEF q
<1>5. Filled(P \o <<s>>, C)
  BY DEF P
<1>6. Q \o <<s>> \in Seq(Bar) /\ P0 \o (Q \o <<s>>) = P \o <<s>> /\ P \o <<s>> \in Seq(Bar)
  BY <1>2, <1>3, ConcatAssociative, ConcatProperties DEF P
<1>7. CASE full
  <2> DEFINE R == Q \o <<s>>
  <2>1. z \in Bar /\ is_zero_bar(z) /\ end_time(z) = end_time(s) /\ Rest(z) = <<>>
    <3>1. z \in Bar /\ z.duration = 0 /\ z.time = end_time(s)
      BY <1>1 DEF zero_bar, Bar
    <3>2. end_time(z) = z.time + z.duration
      BY DEF end_time
    <3> HIDE DEF z
    <3> QED BY <1>1, <3>1, <3>2 DEF is_zero_bar, Rest
  <2>2. P0 \o R = P \o <<s>> /\ (P0 \o R) \o Rest(z) = P \o <<s>> /\ R \o Rest(z) = R
    BY <1>6, <2>1, ConcatEmptySeq
  <2>3. P \o <<s>> # <<>> /\ (P \o <<s>>)[Len(P \o <<s>>)] = s
    BY <1>1, <1>2, FrontAdded DEF Last
  <2>4. s.duration = d
    BY <1>1, <1>7
  <2>5. Composing(P0 \o R, z, C, d, at)
    <3>1. z.duration < d
      BY <2>1 DEF is_zero_bar
    <3>2. \A x \in C : end_time(x) <= end_time(z)
      BY <2>1
    <3> HIDE DEF R, z
    <3>3. /\ P0 \o R # <<>> /\ (P0 \o R)[Len(P0 \o R)].duration = d
          /\ z = zero_bar(end_time((P0 \o R)[Len(P0 \o R)]), (P0 \o R)[Len(P0 \o R)].close)
      BY <2>2, <2>3, <2>4 DEF z
    <3> QED BY <1>4, <1>5, <1>6, <2>1, <2>2, <3>1, <3>2, <3>3 DEF Composing, Composed
  <2>6. (Q \o <<s>>) \o (IF full THEN <<z>> ELSE <<>>) = R \o <<z>> /\ R \in Seq(Bar)
    BY <1>6, <1>7
  <2>7. is_zero_bar(z) <=> full
    BY <1>7, <2>1
  <2> HIDE DEF R, z
  <2> QED BY <2>1, <2>2, <2>5, <2>6, <2>7 DEF Putting, R, z
<1>8. CASE ~full
  <2>1. (Q \o <<s>>) \o (IF full THEN <<z>> ELSE <<>>) = Q \o <<s>>
    BY <1>6, <1>8, ConcatEmptySeq
  <2>2. ~is_zero_bar(s) /\ Rest(s) = <<s>>
    BY <1>1 DEF is_zero_bar, Rest
  <2>3. s.duration < d
    BY <1>1, <1>8
  <2>4. Composing(P0 \o Q, s, C, d, at)
    BY <1>1, <1>2, <1>4, <1>5, <2>2, <2>3 DEF Composing, Composed, P
  <2> QED BY <1>8, <2>1, <2>2, <2>4 DEF Putting
<1> QED BY <1>7, <1>8

(* A bar that comes when a composer is there extends what it composes, and *)
(* completes it or not.                                                    *)
Adds(c, bar, P0, Q, b, C, d, at) ==
  \E R \in Seq(Bar), y \in Bar :
    /\ insert_adjacent_bar(c, bar) = [c EXCEPT !.bars = R \o <<y>>]
    /\ Composing(P0 \o R, y, C, d, at)
    /\ end_time(y) = end_time(bar)
    /\ R \o Rest(y) = Q \o <<Added(b, bar)>>
    /\ is_zero_bar(y) <=> end_time(bar) = b.time + d

(* insert_adjacent_bar keeps what is composed composed.                    *)
LEMMA Adjacent ==
  ASSUME NEW d \in Nat \ {0}, NEW at \in Int, NEW B, \A b \in B : Whole(b),
         NEW P0 \in Seq(Bar), NEW Q \in Seq(Bar), NEW b \in Bar,
         Composing(P0 \o Q, b, B, d, at), Aligned(b.time, d, at),
         NEW bar, Whole(bar), bar.time = end_time(b), Day(bar.time) = Day(b.time),
         end_time(bar) <= b.time + d,
         ~is_zero_bar(b) => \E f \in B : Day(f.time) = Day(b.time),
         NEW c, c.bars = Q \o <<b>>, c.duration = d
  PROVE  Adds(c, bar, P0, Q, b, B \union {bar}, d, at)
<1> DEFINE C == B \union {bar}
           P == P0 \o Q
           s == Added(b, bar)
<1>1. /\ s \in Bar /\ s.time = b.time /\ end_time(s) = end_time(bar) /\ s.close = bar.close
      /\ s.duration > 0 /\ end_time(b) < end_time(s) /\ end_time(s) = s.time + s.duration
      /\ s.duration \in Nat /\ s.time \in Nat
  BY AddedBar
<1>2. /\ P \in Seq(Bar) /\ b \in Bar /\ \A x \in B : end_time(x) <= end_time(b)
      /\ Composed(P \o Rest(b), B, d, at)
  BY DEF Composing
<1>3. /\ Chain(P, B, d, at)
      /\ \A i \in 1..Len(P) : end_time(P[i]) <= b.time
      /\ P # <<>> => Follows(P[Len(P)], b, d)
      /\ ~is_zero_bar(b) => Good(b, CloseOf(P), B)
  BY ComposingFollows
<1>4. \A x \in C : x \in Bar /\ x.time \in Nat /\ end_time(x) \in Nat /\ x.time < end_time(x)
  <2>1. \A x \in C : Whole(x)
    OBVIOUS
  <2> HIDE DEF C
  <2> QED BY <2>1, WholeTimes
<1>5. Good(s, CloseOf(P), C)
  <2>1. CASE is_zero_bar(b)
    <3>1. s = bar /\ \A x \in B : end_time(x) <= bar.time
      BY <1>2, <2>1 DEF Added
    <3> QED BY <3>1, GoodBar
  <2>2. CASE ~is_zero_bar(b)
    <3>1. s = Sum(b, bar)
      BY <2>2 DEF Added
    <3>2. PICK f \in B : Day(f.time) = Day(b.time)
      BY <2>2
    <3>3. Good(b, CloseOf(P), B)
      BY <1>3, <2>2
    <3> HIDE DEF s, P
    <3> QED BY <1>2, <3>1, <3>2, <3>3, GoodSum
  <2> QED BY <2>1, <2>2
<1> HIDE DEF s, P
<1>6. <<s>> \in Seq(Bar)
  BY <1>1
<1>7. /\ Chain(P, C, d, at) /\ s.duration <= d /\ Aligned(s.time, d, at)
      /\ \A i \in 1..Len(P) : end_time(P[i]) <= s.time
      /\ P # <<>> => Follows(P[Len(P)], s, d)
  <2>1. b.time \in Nat /\ end_time(b) = b.time + b.duration /\ b.duration \in Nat
    BY BarTimes
  <2>2. Chain(P, C, d, at)
    <3>1. \A i \in 1..Len(P) : P[i] \in Bar
      BY <1>2
    <3>2. \A i \in 1..Len(P) : end_time(P[i]) <= bar.time
      BY <1>3, <2>1, <3>1 DEF Bar, end_time
    <3> QED BY <1>3, <3>2, ChainStays
  <2>3. s.duration <= d /\ Aligned(s.time, d, at)
    BY <1>1, <1>4, <2>1
  <2> QED BY <1>1, <1>3, <2>2, <2>3 DEF Follows
<1>8. Filled(P \o <<s>>, C)
  <2>1. Holds(<<s>>, bar)
    <3>1. end_time(b) = b.time + b.duration /\ b.time \in Nat /\ b.duration \in Nat
      BY BarTimes
    <3>2. bar.time \in Nat /\ bar.time < end_time(bar)
      BY WholeTimes
    <3>3. b.time <= bar.time
      BY <3>1
    <3> QED BY <1>1, <3>2, <3>3, HoldsOne
  <2>2. ASSUME NEW x \in B
        PROVE  Holds(P, x) \/ Holds(<<s>>, x)
    <3>1. Holds(P \o Rest(b), x)
      BY <1>2 DEF Composed, Filled
    <3>2. CASE is_zero_bar(b)
      <4>1. P \o Rest(b) = P
        BY <1>2, <3>2, ConcatEmptySeq DEF Rest
      <4> QED BY <3>1, <4>1
    <3>3. CASE ~is_zero_bar(b)
      <4>1. Rest(b) = <<b>> /\ <<b>> \in Seq(Bar)
        BY <3>3 DEF Rest
      <4>2. Holds(P, x) \/ (b.time <= x.time /\ x.time < end_time(b))
        BY <1>2, <3>1, <4>1, HoldsJoin, HoldsOne
      <4>3. x.time < end_time(b) => x.time < end_time(s)
        <5>1. x.time \in Nat /\ end_time(b) \in Nat /\ end_time(s) \in Nat
          BY <1>1, <1>4 DEF Bar, end_time
        <5> QED BY <1>1, <5>1
      <4> QED BY <1>1, <4>2, <4>3, HoldsOne
    <3> QED BY <3>2, <3>3
  <2>3. \A x : Holds(P, x) \/ Holds(<<s>>, x) => Holds(P \o <<s>>, x)
    BY <1>2, <1>6, HoldsJoin
  <2> QED BY <2>1, <2>2, <2>3 DEF Filled
<1>9. \A x \in C : end_time(x) <= end_time(s)
  <2>1. end_time(s) \in Nat /\ end_time(b) \in Nat
    BY <1>1, BarTimes
  <2>2. \A x \in B : end_time(x) \in Nat /\ end_time(x) <= end_time(b)
    BY <1>2, <1>4
  <2>3. \A x \in B : end_time(x) <= end_time(s)
    BY <1>1, <2>1, <2>2
  <2>4. end_time(bar) <= end_time(s)
    BY <1>1, <2>1
  <2> QED BY <2>3, <2>4
<1>10. Putting(P0, Q, s, C, d, at)
  <2>1. /\ Chain(P0 \o Q, C, d, at) /\ Good(s, CloseOf(P0 \o Q), C)
        /\ \A i \in 1..Len(P0 \o Q) : end_time((P0 \o Q)[i]) <= s.time
        /\ P0 \o Q # <<>> => Follows((P0 \o Q)[Len(P0 \o Q)], s, d)
        /\ Filled((P0 \o Q) \o <<s>>, C)
    BY <1>5, <1>7, <1>8 DEF P
  <2>2. s \in Bar /\ s.duration > 0 /\ s.duration <= d /\ Aligned(s.time, d, at)
    BY <1>1, <1>7
  <2> HIDE DEF C
  <2> QED BY <1>9, <2>1, <2>2, Put
<1>11. insert_adjacent_bar(c, bar)
         = [c EXCEPT !.bars = (Q \o <<s>>) \o
              (IF end_time(s) = s.time + d THEN <<zero_bar(end_time(s), s.close)>> ELSE <<>>)]
  <2>1. insert_adjacent_bar(c, bar)
         = [c EXCEPT !.bars = (Q \o <<Added(b, bar)>>) \o
              (IF end_time(Added(b, bar)) = b.time + c.duration
               THEN <<zero_bar(end_time(Added(b, bar)), Added(b, bar).close)>> ELSE <<>>)]
    BY InsertAdjacent
  <2> QED BY <1>1, <2>1 DEF s
<1> QED BY <1>1, <1>10, <1>11 DEF s, Putting, Adds

-----------------------------------------------------------------------------
Composers == [duration : Nat \ {0}, bars : Seq(Bar), start : Int, at : Int, close : {None}, error : {"none"}]

(* What raises has an error.                                               *)
LEMMA RaisesAnError ==
  ASSUME NEW c \in Composers, NEW e, e # "none"
  PROVE  Raise(c, e).error # "none"
BY DEF Raise, Composers

(* The composer c, after the bars P, has become r: it composes y and has   *)
(* completed R.                                                            *)
Becomes(c, r, P, R, y, bar, C, d, at) ==
  /\ r = [c EXCEPT !.bars = R \o <<y>>]
  /\ Composing(P \o R, y, C, d, at)
  /\ end_time(y) = end_time(bar)

Runs(c, bar, P, b, C, d, at) ==
  \E R \in Seq(Bar), y \in Bar :
    /\ Becomes(c, insert_bar_in_running_composer(c, bar), P, R, y, bar, C, d, at)
    /\ bar.time = end_time(b) =>
         R \o Rest(y) = <<Added(b, bar)>> /\ (is_zero_bar(y) <=> end_time(bar) = b.time + d)

(* insert_bar_in_running_composer keeps what is composed composed.         *)
LEMMA Running ==
  ASSUME NEW d \in Nat \ {0}, NEW at \in Int, NEW B, \A b \in B : Whole(b),
         NEW P \in Seq(Bar), NEW b \in Bar, Composing(P, b, B, d, at), Aligned(b.time, d, at),
         NEW bar, Whole(bar), Day(bar.time) = Day(b.time),
         \/ is_zero_bar(b) /\ bar.time = end_time(b)
         \/ \E f \in B : Day(f.time) = Day(b.time),
         NEW c \in Composers, c.bars = <<b>>, c.duration = d,
         insert_bar_in_running_composer(c, bar).error = "none"
  PROVE  Runs(c, bar, P, b, B \union {bar}, d, at)
<1> SUFFICES \E R \in Seq(Bar), y \in Bar :
               /\ Becomes(c, insert_bar_in_running_composer(c, bar), P, R, y, bar, B \union {bar}, d, at)
               /\ bar.time = end_time(b) =>
                    /\ R \o Rest(y) = <<Added(b, bar)>>
                    /\ is_zero_bar(y) <=> end_time(bar) = b.time + d
  BY DEF Runs
<1> DEFINE t == bar.time
           r == insert_bar_in_running_composer(c, bar)
<1>1. /\ bar \in Bar /\ t \in Nat /\ end_time(bar) \in Nat /\ t < end_time(bar)
      /\ b.time \in Nat /\ b.duration \in Nat /\ end_time(b) = b.time + b.duration /\ end_time(b) \in Nat
      /\ b.duration < d
  BY WholeTimes, BarTimes DEF Composing
<1>2. composing_bar(c) = b
  BY DEF composing_bar, Last
<1>3. ~(end_time(b) > t) /\ ~spans_two_composing_bars(c, bar)
  <2>1. "starts in composing bar" # "none" /\ "spans two bars" # "none"
    OBVIOUS
  <2>2. Raise(c, "starts in composing bar").error # "none" /\ Raise(c, "spans two bars").error # "none"
    BY <2>1, RaisesAnError
  <2> QED BY <1>2, <2>2 DEF insert_bar_in_running_composer
<1>4. \A k \in 1..(end_time(bar) - b.time) : ~(t < b.time + k * d /\ b.time + k * d < end_time(bar))
  BY <1>2, <1>3 DEF spans_two_composing_bars
<1>5. CASE end_time(b) = t
  <2>1. end_time(bar) <= b.time + d
    <3>1. 1 \in 1..(end_time(bar) - b.time) /\ 1 * d = d /\ t < b.time + d
      BY <1>1, <1>5
    <3> QED BY <1>1, <1>4, <3>1
  <2>2. r = insert_adjacent_bar(c, bar)
    BY <1>2, <1>3, <1>4, <1>5 DEF insert_bar_in_running_composer, spans_two_composing_bars
  <2>3. P \o <<>> = P /\ <<>> \in Seq(Bar) /\ <<>> \o <<b>> = <<b>> /\ <<>> \o <<Added(b, bar)>> = <<Added(b, bar)>>
    OBVIOUS
  <2>4. ~is_zero_bar(b) => \E f \in B : Day(f.time) = Day(b.time)
    OBVIOUS
  <2>5. Composing(P \o <<>>, b, B, d, at) /\ c.bars = <<>> \o <<b>> /\ bar.time = end_time(b)
    BY <1>5, <2>3
  <2>6. PICK R \in Seq(Bar), y \in Bar :
          /\ insert_adjacent_bar(c, bar) = [c EXCEPT !.bars = R \o <<y>>]
          /\ Composing(P \o R, y, B \union {bar}, d, at)
          /\ end_time(y) = end_time(bar)
          /\ R \o Rest(y) = <<>> \o <<Added(b, bar)>>
          /\ is_zero_bar(y) <=> end_time(bar) = b.time + d
    <3>1. Adds(c, bar, P, <<>>, b, B \union {bar}, d, at)
      BY <2>1, <2>3, <2>4, <2>5, Adjacent
    <3> QED BY <3>1 DEF Adds
  <2> QED BY <2>2, <2>3, <2>6 DEF Becomes
<1>6. CASE end_time(b) < t
  <2>1. PICK f \in B : Day(f.time) = Day(b.time)
    BY <1>1, <1>6
  <2>2. f.time < end_time(b)
    <3>1. end_time(f) <= end_time(b)
      BY DEF Composing
    <3> QED BY <1>1, <3>1, WholeTimes
  <2>3. PICK Q \in Seq(Bar), x \in Bar :
           /\ advance(c, t, TRUE) = [c EXCEPT !.bars = Q \o <<x>>]
           /\ Composing(P \o Q, x, B, d, at) /\ end_time(x) = t
           /\ Aligned(x.time, d, at) /\ Day(x.time) = Day(b.time) /\ x.time + d > t
           /\ \E k \in 1..(t - b.time + 1) : x.time + d = b.time + k * d
    <3>1. Advances(c, t, P, b, B, d, at)
      BY <1>1, <1>6, <2>1, <2>2, Advanced
    <3> QED BY <3>1 DEF Advances
  <2> DEFINE e == [c EXCEPT !.bars = Q \o <<x>>]
  <2>4. e.bars = Q \o <<x>> /\ e.duration = d
        /\ \A S : [e EXCEPT !.bars = S] = [c EXCEPT !.bars = S]
    BY DEF Composers
  <2>5. end_time(bar) <= x.time + d
    <3>1. PICK k \in 1..(t - b.time + 1) : x.time + d = b.time + k * d
      BY <2>3
    <3>2. k \in 1..(end_time(bar) - b.time)
      BY <1>1, <1>6
    <3>3. ~(t < x.time + d /\ x.time + d < end_time(bar))
      BY <1>4, <3>1, <3>2
    <3>4. x.time \in Nat
      BY BarTimes
    <3> QED BY <1>1, <2>3, <3>3, <3>4
  <2>6. r = insert_adjacent_bar(e, bar)
    <3>1. ~spans_two_composing_bars(c, bar)
      BY <1>2, <1>4 DEF spans_two_composing_bars
    <3>2. end_time(b) # t
      BY <1>1, <1>6
    <3> QED BY <1>2, <1>3, <2>3, <3>1, <3>2 DEF insert_bar_in_running_composer
  <2> HIDE DEF e
  <2>7. Day(bar.time) = Day(x.time) /\ \E g \in B : Day(g.time) = Day(x.time)
    BY <2>1, <2>3
  <2>8. PICK R \in Seq(Bar), y \in Bar :
          /\ insert_adjacent_bar(e, bar) = [e EXCEPT !.bars = R \o <<y>>]
          /\ Composing(P \o R, y, B \union {bar}, d, at)
          /\ end_time(y) = end_time(bar)
    <3>1. Adds(e, bar, P, Q, x, B \union {bar}, d, at)
      BY <2>3, <2>4, <2>5, <2>7, Adjacent
    <3> QED BY <3>1 DEF Adds
  <2>9. end_time(b) # t
    BY <1>1, <1>6
  <2> QED BY <2>4, <2>6, <2>8, <2>9 DEF Becomes
<1>7. end_time(b) = t \/ end_time(b) < t
  BY <1>1, <1>3
<1> QED BY <1>5, <1>6, <1>7

(* A time before midnight is of an earlier day.                            *)
LEMMA DayStart ==
  ASSUME NEW t \in Int, NEW u \in Int
  PROVE  t < Day(u) * DayLength <=> Day(t) < Day(u)
<1> DEFINE x == Day(t)
           y == Day(u)
           r == t % DayLength
           D == DayLength
<1>1. x \in Int /\ y \in Int /\ r \in 0..D - 1 /\ D \in Nat \ {0} /\ t = D * x + r
  BY Days
<1> HIDE DEF x, y, r, D
<1>2. CASE x < y
  <2>1. D * (x + 1) <= D * y /\ D * (x + 1) = D * x + D /\ D * y = y * D /\ D * x \in Int
    BY <1>1, <1>2
  <2>2. t < y * D
    BY <1>1, <2>1
  <2> QED BY <1>2, <2>2 DEF x, y, D
<1>3. CASE ~(x < y)
  <2>1. D * y <= D * x /\ D * y = y * D /\ D * x \in Int /\ D * y \in Int
    BY <1>1, <1>3
  <2>2. ~(t < y * D)
    BY <1>1, <2>1
  <2> QED BY <1>3, <2>2 DEF x, y, D
<1> QED BY <1>2, <1>3

(* A bar of an earlier day ends before the day begins.                     *)
LEMMA EndsBefore ==
  ASSUME NEW b, Whole(b), NEW u \in Int, end_time(b) <= u, Day(b.time) # Day(u)
  PROVE  end_time(b) <= Day(u) * DayLength
<1>1. b.time \in Nat /\ end_time(b) \in Nat /\ b.time < end_time(b)
  BY WholeTimes
<1>2. Day(end_time(b) - 1) = Day(b.time) /\ end_time(b) - 1 \in Int
  BY <1>1 DEF Whole
<1>3. Day(b.time) <= Day(u) /\ Day(b.time) \in Int /\ Day(u) \in Int
  <2>1. b.time \in Int /\ b.time <= u
    BY <1>1
  <2> QED BY <2>1, DayOrder, Days
<1>4. end_time(b) - 1 < Day(u) * DayLength
  BY <1>2, <1>3, DayStart
<1>5. Day(u) * DayLength \in Int
  BY <1>3, Days
<1> QED BY <1>1, <1>4, <1>5

StartBar(bar, start) == [bar EXCEPT !.time = start, !.duration = end_time(bar) - start]

Starts(c, bar, S, C, d, at) ==
  \E start \in Nat, R \in Seq(Bar), y \in Bar :
    /\ insert_bar(c, bar) = [c EXCEPT !.start = start, !.bars = R \o <<y>>]
    /\ Composing(S \o R, y, C, d, at)
    /\ end_time(y) = end_time(bar)
    /\ R \o Rest(y) = <<StartBar(bar, start)>>
    /\ is_zero_bar(y) <=> end_time(bar) = start + d

StartOf(c, start, t, d, at) ==
  /\ start \in Nat /\ start <= t /\ t < start + d
  /\ Day(start) = Day(t) /\ Aligned(start, d, at) /\ start >= Day(t) * DayLength

(* start_time_for gives the start of the duration that t is in.            *)
LEMMA StartTime ==
  ASSUME NEW d \in Nat \ {0}, NEW at \in Nat, NEW t \in Nat,
         NEW c \in Composers, c.duration = d, c.start = None,
         (c.at = None /\ at = 0 /\ DayLength % d = 0) \/ c.at = at,
         start_time_for(c, t) <= t
  PROVE  StartOf(c, start_time_for(c, t), t, d, at)
<1>1. Day(t) \in Nat /\ DayLength \in Nat
  <2>1. DayLength \in Nat \ {0}
    BY Days
  <2> QED BY <2>1, DivNat DEF Day
<1>2. CASE c.at = None
  <2>1. at = 0 /\ DayLength % d = 0 /\ start_time_for(c, t) = t - (t % d)
    BY <1>2 DEF start_time_for, has_start_time, None
  <2> DEFINE s == t - (t % d)
  <2>2. /\ s \in Int /\ s <= t /\ t < s + d
        /\ Day(s) = Day(t) /\ Aligned(s, d, 0) /\ s >= Day(t) * DayLength
    BY <2>1, WholeStart
  <2>3. Day(t) * DayLength \in Nat
    BY <1>1
  <2> HIDE DEF s
  <2>4. s \in Nat
    BY <2>2, <2>3
  <2> QED BY <2>1, <2>2, <2>4 DEF StartOf, s
<1>3. CASE c.at # None
  <2> DEFINE set == Day(t) * DayLength + at
             s == t - ((t - set) % d)
  <2>1. Day(t) * DayLength \in Nat /\ set \in Nat
    BY <1>1
  <2>2. start_time_for(c, t) = IF set > t THEN set ELSE s
    BY <1>3 DEF start_time_for, has_start_time
  <2>3. t >= set /\ start_time_for(c, t) = s
    <3> HIDE DEF set, s
    <3> QED BY <2>1, <2>2
  <2>4. /\ s \in Int /\ s <= t /\ t < s + d
        /\ Day(s) = Day(t) /\ Aligned(s, d, at) /\ s >= Day(t) * DayLength
    BY <2>3, AlignedStart
  <2> HIDE DEF s
  <2>5. s \in Nat
    BY <2>1, <2>4
  <2> QED BY <2>3, <2>4, <2>5 DEF StartOf
<1> QED BY <1>2, <1>3

(* What a composer that starts holds when the bar it was given is put in.  *)
WithStart(c, start, w) == [c EXCEPT !.start = start, !.bars = <<w>>]
UpTo(start, bar) == [zero_bar(start, bar.open) EXCEPT !.duration = bar.time - start]

(* start_composer when it raises nothing: the bar extends an empty one.    *)
LEMMA StartAllowed ==
  ASSUME NEW c \in Composers, c.bars = <<>>, c.error = "none",
         NEW bar, Whole(bar), NEW start \in Nat, start = start_time_for(c, bar.time),
         start <= bar.time, bar.time < start + c.duration,
         find_open(c, start, bar.time, bar.open) = bar.open
  PROVE  insert_bar(c, bar) = insert_bar_in_running_composer(WithStart(c, start, UpTo(start, bar)), bar)
<1> DEFINE t == bar.time
           open == find_open(c, start, t, bar.open)
           w == [zero_bar(start, bar.open) EXCEPT !.duration = t - start]
           e == [c EXCEPT !.start = start, !.bars = <<w>>]
           c0 == start_composer(c, t, bar.open)
           c1 == [c EXCEPT !.start = start]
           c2 == [c1 EXCEPT !.bars = <<zero_bar(start, open)>>]
<1>1. t \in Nat /\ c.duration \in Nat \ {0} /\ bar.open \in Nat /\ open # None
  BY WholeTimes, BarTimes DEF Composers, None
<1>2. start \in Int
  OBVIOUS
<1>3. ~running(c) /\ insert_bar(c, bar) = (IF c0.error # "none" THEN c0 ELSE insert_bar_in_running_composer(c0, bar))
  BY DEF insert_bar, running
<1>4. e.error = "none" /\ insert_bar_in_running_composer(e, bar)
        = insert_bar_in_running_composer(WithStart(c, start, UpTo(start, bar)), bar)
  BY DEF WithStart, UpTo, Composers
<1>5. start <= t /\ open # None
  BY <1>1
<1>6. open = bar.open
  OBVIOUS
<1>7. start \in Nat /\ t < start + c.duration
  OBVIOUS
<1>8. c0 = IF start > t THEN Raise(c1, "data before start")
            ELSE IF open = None THEN Raise(c1, "no open")
            ELSE IF start = t THEN c2 ELSE move_time(c2, t, FALSE)
  BY DEF start_composer
<1> HIDE DEF open, c0
<1>9. c0 = IF start = t THEN c2 ELSE move_time(c2, t, FALSE)
  <2>1. ~(start > t)
    BY <1>1, <1>2, <1>5
  <2> QED BY <1>5, <1>8, <2>1
<1>10. CASE start = t
  <2>1. c0 = c2
    BY <1>9, <1>10
  <2>2. w = zero_bar(start, bar.open)
    <3> DEFINE z == zero_bar(start, bar.open)
    <3>1. t - start = 0 /\ z.duration = 0
      BY <1>1, <1>10 DEF zero_bar
    <3>2. [z EXCEPT !.duration = 0] = z
      BY <3>1 DEF zero_bar
    <3> QED BY <3>1, <3>2
  <2>3. c0 = e
    BY <1>6, <2>1, <2>2 DEF Composers
  <2> QED BY <1>3, <1>4, <2>3
<1>11. CASE start # t
  <2>1. c0 = move_time(c2, t, FALSE)
    BY <1>9, <1>11
  <2> DEFINE z == zero_bar(start, bar.open)
  <2>2. /\ c2.bars = <<z>> /\ c2.duration = c.duration
        /\ \A S : [c2 EXCEPT !.bars = S] = [c EXCEPT !.start = start, !.bars = S]
    BY <1>6 DEF Composers
  <2> HIDE DEF c2
  <2>3. composing_bar(c2) = z /\ running(c2) /\ Front(c2.bars) = <<>> /\ end_time(z) = start
    <3>1. z.time = start /\ z.duration = 0 /\ start + 0 = start
      BY <1>7 DEF zero_bar
    <3>2. end_time(z) = start
      BY <3>1 DEF end_time
    <3> HIDE DEF z
    <3>3. <<z>> # <<>> /\ SubSeq(<<z>>, 1, Len(<<z>>) - 1) = <<>> /\ <<z>>[Len(<<z>>)] = z
      OBVIOUS
    <3> QED BY <2>2, <3>2, <3>3 DEF composing_bar, Last, Front, running
  <2>4. c0 = advance(c2, t, FALSE)
    <3>1. ~(t <= start)
      BY <1>1, <1>5, <1>7, <1>11
    <3> QED BY <2>1, <2>3, <3>1 DEF move_time
  <2>5. (t - start) \div c.duration + 1 = 1
    <3> DEFINE d == c.duration
               r == t - start
    <3>1. d \in Nat \ {0} /\ 0 \in Int /\ r \in 0..d - 1
      BY <1>1, <1>5, <1>7
    <3> HIDE DEF d, r
    <3>2. (d * 0 + r) \div d = 0 /\ d * 0 + r = r
      BY <3>1, Quotient
    <3> QED BY <3>2 DEF d, r
  <2>6. Min({start + (1 - 1) * c.duration + c.duration, t}) - (start + (1 - 1) * c.duration) = t - start
    <3>1. (1 - 1) * c.duration = 0
      BY <1>1
    <3>2. start + (1 - 1) * c.duration = start
      BY <1>7, <3>1
    <3>3. start + c.duration \in Int /\ t \in Int /\ ~(start + c.duration <= t)
      BY <1>1, <1>7
    <3>4. Min({start + c.duration, t}) = t
      BY <3>3, MinOfTwo
    <3> QED BY <3>2, <3>4
  <2>7. c0 = [c2 EXCEPT !.bars = <<>> \o [k \in 1..1 |-> w]]
    <3>1. z.time = start /\ z.gaps = FALSE
      BY DEF zero_bar
    <3> DEFINE piece(k) == LET from == start + (k - 1) * c.duration
                               length == Min({from + c.duration, t}) - from
                           IN IF k = 1
                              THEN [z EXCEPT !.duration = length, !.gaps = @ \/ FALSE]
                              ELSE [zero_bar(from, z.close) EXCEPT !.duration = length, !.gaps = FALSE /\ length > 0]
    <3>2. c0 = [c2 EXCEPT !.bars = <<>> \o [k \in 1..((t - start) \div c.duration + 1) |-> piece(k)]]
      BY <2>2, <2>3, <2>4, <3>1 DEF advance
    <3>3. \A k \in 1..1 : piece(k) = w
      <4>1. piece(1) = [z EXCEPT !.duration = t - start, !.gaps = FALSE]
        BY <2>6, <3>1
      <4>2. [z EXCEPT !.duration = t - start, !.gaps = FALSE] = w
        <5> DEFINE n == t - start
                   p == bar.open
        <5> HIDE DEF n, p, t, w, e, c1, z, piece
        <5>1. [zero_bar(start, p) EXCEPT !.duration = n, !.gaps = FALSE] = [zero_bar(start, p) EXCEPT !.duration = n]
          <6> DEFINE y == [zero_bar(start, p) EXCEPT !.duration = n]
          <6>1. y = [k \in {"time", "duration", "open", "close", "gaps", "parts"} |-> y[k]] /\ y.gaps = FALSE
            BY DEF zero_bar
          <6>2. [zero_bar(start, p) EXCEPT !.duration = n, !.gaps = FALSE] = [y EXCEPT !.gaps = FALSE]
            BY DEF zero_bar
          <6> HIDE DEF y
          <6>3. [y EXCEPT !.gaps = FALSE] = y
            BY <6>1
          <6> QED BY <6>2, <6>3 DEF y
        <5> QED BY <5>1 DEF n, p, z, w
      <4> HIDE DEF piece
      <4> QED BY <4>1, <4>2
    <3> HIDE DEF piece, w
    <3> QED BY <2>5, <3>2, <3>3
  <2>8. <<>> \o [k \in 1..1 |-> w] = <<w>>
    <3> HIDE DEF w
    <3> QED OBVIOUS
  <2>9. c0 = e
    BY <2>2, <2>7, <2>8
  <2> QED BY <1>3, <1>4, <2>9
<1> QED BY <1>10, <1>11

(* When insert_bar raised nothing, start_composer did not either.          *)
LEMMA StartComposer ==
  ASSUME NEW c \in Composers, c.bars = <<>>, c.close = None, c.error = "none", c.duration > 0,
         NEW bar, Whole(bar),
         LET start == start_time_for(c, bar.time)
         IN start <= bar.time => start \in Nat /\ bar.time < start + c.duration,
         insert_bar(c, bar).error = "none"
  PROVE  LET start == start_time_for(c, bar.time)
             w == [zero_bar(start, bar.open) EXCEPT !.duration = bar.time - start]
             e == [c EXCEPT !.start = start, !.bars = <<w>>]
         IN /\ start <= bar.time
            /\ insert_bar(c, bar) = insert_bar_in_running_composer(e, bar)
<1> DEFINE t == bar.time
           start == start_time_for(c, t)
           open == find_open(c, start, t, bar.open)
           w == [zero_bar(start, bar.open) EXCEPT !.duration = t - start]
           e == [c EXCEPT !.start = start, !.bars = <<w>>]
           c0 == start_composer(c, t, bar.open)
           c1 == [c EXCEPT !.start = start]
           c2 == [c1 EXCEPT !.bars = <<zero_bar(start, open)>>]
<1>1. t \in Nat /\ c.duration \in Nat \ {0} /\ bar.open \in Nat
  BY WholeTimes, BarTimes DEF Composers
<1>2. start \in Int
  <2> DEFINE set == IF c.start # None THEN c.start ELSE Day(t) * DayLength + c.at
  <2>1. c.start \in Int /\ c.at \in Int
    BY DEF Composers
  <2>2. DayLength \in Int /\ Day(t) \in Int
    <3>1. t \in Int
      BY <1>1
    <3> HIDE DEF t
    <3> QED BY <3>1, Days
  <2>3. set \in Int
    BY <2>1, <2>2
  <2>4. start = IF ~has_start_time(c) THEN t - (t % c.duration)
                ELSE IF set > t THEN set ELSE t - ((t - set) % c.duration)
    BY DEF start_time_for
  <2> HIDE DEF set, start
  <2>5. t % c.duration \in Int /\ (t - set) % c.duration \in Int
    BY <1>1, <2>3
  <2> QED BY <1>1, <2>3, <2>4, <2>5
<1>3. ~running(c) /\ insert_bar(c, bar) = (IF c0.error # "none" THEN c0 ELSE insert_bar_in_running_composer(c0, bar))
  BY DEF insert_bar, running
<1>4. c0.error = "none"
  BY <1>3
<1>5. start <= t /\ open # None
  <2>1. c1 \in Composers
    BY <1>2 DEF Composers
  <2>2. "data before start" # "none" /\ "no open" # "none"
    OBVIOUS
  <2>3. Raise(c1, "data before start").error # "none" /\ Raise(c1, "no open").error # "none"
    BY <2>1, <2>2, RaisesAnError
  <2>4. ~(start > t) /\ open # None
    BY <1>4, <2>3 DEF start_composer
  <2> HIDE DEF start
  <2> QED BY <1>1, <1>2, <2>4
<1>6. open = bar.open
  BY <1>5 DEF find_open
<1>7. start \in Nat /\ t < start + c.duration
  BY <1>5
<1>8. insert_bar(c, bar) = insert_bar_in_running_composer(WithStart(c, start, UpTo(start, bar)), bar)
  <2>1. start = start_time_for(c, bar.time) /\ find_open(c, start, bar.time, bar.open) = bar.open
    BY <1>6
  <2> HIDE DEF start, open
  <2> QED BY <1>5, <1>7, <2>1, StartAllowed
<1> QED BY <1>5, <1>8 DEF WithStart, UpTo

(* That empty bar, and its sum with the first one.                         *)
LEMMA StartedBar ==
  ASSUME NEW start \in Nat, NEW bar, Whole(bar), start <= bar.time
  PROVE  LET w == [zero_bar(start, bar.open) EXCEPT !.duration = bar.time - start]
         IN /\ w \in Bar /\ w.time = start /\ end_time(w) = bar.time
            /\ Added(w, bar) = StartBar(bar, start)
<1> DEFINE t == bar.time
           n == t - start
           w == [zero_bar(start, bar.open) EXCEPT !.duration = n]
           L == end_time(bar) - start
           e == StartBar(bar, start)
<1>1. /\ bar \in Bar /\ t \in Nat /\ end_time(bar) \in Nat /\ t < end_time(bar)
      /\ bar.open \in Nat /\ end_time(bar) = t + bar.duration /\ bar.duration \in Nat
  BY WholeTimes, BarTimes
<1>2. n \in Nat /\ start + n = t
  BY <1>1
<1> HIDE DEF n
<1>3. /\ w \in Bar /\ w.time = start /\ w.duration = n /\ w.open = bar.open
      /\ w.gaps = FALSE /\ w.parts = {}
  BY <1>1, <1>2 DEF zero_bar, Bar
<1> HIDE DEF w
<1>4. end_time(w) = t
  BY <1>2, <1>3 DEF end_time
<1>5. /\ e = [k \in {"time", "duration", "open", "close", "gaps", "parts"} |-> e[k]]
      /\ e.time = start /\ e.duration = L /\ e.open = bar.open /\ e.close = bar.close
      /\ e.gaps = bar.gaps /\ e.parts = bar.parts
  BY <1>1 DEF StartBar, Bar
<1> HIDE DEF e
<1>6. CASE is_zero_bar(w)
  <2>1. start = t
    BY <1>1, <1>2, <1>3, <1>6 DEF is_zero_bar
  <2>2. L = bar.duration
    BY <1>1, <2>1
  <2>3. bar = [k \in {"time", "duration", "open", "close", "gaps", "parts"} |-> bar[k]]
    BY <1>1 DEF Bar
  <2>4. e = bar
    BY <1>5, <2>1, <2>2, <2>3
  <2>5. Added(w, bar) = e
    BY <1>6, <2>4 DEF Added
  <2> QED BY <1>3, <1>4, <2>5 DEF w, n, e
<1>7. CASE ~is_zero_bar(w)
  <2> DEFINE s == Added(w, bar)
  <2>1. s = Sum(w, bar)
    BY <1>7 DEF Added
  <2> HIDE DEF s
  <2>2. bar.gaps \in BOOLEAN
    BY <1>1 DEF Bar
  <2>3. (FALSE \/ bar.gaps \/ FALSE) = bar.gaps /\ {} \union bar.parts = bar.parts /\ (t # t) = FALSE
    BY <2>2
  <2>4. /\ s = [k \in {"time", "duration", "open", "close", "gaps", "parts"} |-> s[k]]
        /\ s.time = start /\ s.duration = L /\ s.open = bar.open /\ s.close = bar.close
        /\ s.parts = bar.parts
    BY <1>3, <2>1, <2>3 DEF Sum, Bar
  <2>5. s.gaps = bar.gaps
    <3>1. s.gaps = (FALSE \/ bar.gaps \/ t # t)
      BY <1>3, <1>4, <2>1 DEF Sum, Bar
    <3> QED BY <2>2, <3>1
  <2>6. s = e
    BY <1>5, <2>4, <2>5
  <2> QED BY <1>3, <1>4, <2>6 DEF w, n, e, s
<1> QED BY <1>6, <1>7

(* The first bar of a day in a composer that was reset, or is new.         *)
LEMMA Started ==
  ASSUME NEW d \in Nat \ {0}, NEW at \in Nat, NEW B, \A b \in B : Whole(b),
         NEW S, Composed(S, B, d, at), NEW bar, Whole(bar),
         \A x \in B : end_time(x) <= bar.time /\ Day(x.time) # Day(bar.time),
         \A i \in 1..Len(S) : \E l \in B : end_time(S[i]) <= end_time(l),
         NEW c \in Composers, c.bars = <<>>, c.duration = d,
         c.start = None, c.close = None, c.error = "none",
         (c.at = None /\ at = 0 /\ DayLength % d = 0) \/ c.at = at,
         insert_bar(c, bar).error = "none"
  PROVE  Starts(c, bar, S, B \union {bar}, d, at)
<1> DEFINE t == bar.time
           start == start_time_for(c, t)
           w == [zero_bar(start, bar.open) EXCEPT !.duration = t - start]
           e == [c EXCEPT !.start = start, !.bars = <<w>>]
           s == StartBar(bar, start)
           C == B \union {bar}
           m == Day(t) * DayLength
<1>1. /\ bar \in Bar /\ t \in Nat /\ end_time(bar) \in Nat /\ t < end_time(bar)
  BY WholeTimes
<1>2. start <= t => StartOf(c, start, t, d, at)
  BY <1>1, StartTime
<1>3. start <= t /\ insert_bar(c, bar) = insert_bar_in_running_composer(e, bar)
  <2>1. start <= t => start \in Nat /\ t < start + c.duration
    BY <1>2 DEF StartOf
  <2>2. c.duration > 0
    BY DEF Composers
  <2> QED BY <2>1, <2>2, StartComposer
<1>4. /\ start \in Nat /\ start <= t /\ t < start + d
      /\ Day(start) = Day(t) /\ Aligned(start, d, at) /\ start >= m
  BY <1>2, <1>3 DEF StartOf
<1> HIDE DEF start
<1>5. w \in Bar /\ w.time = start /\ end_time(w) = t /\ Added(w, bar) = s
  BY <1>4, StartedBar
<1>6. /\ \A x \in B : end_time(x) \in Nat /\ end_time(x) <= m
      /\ m \in Int /\ t \in Int
  <2>1. t \in Int
    BY <1>1
  <2>2. Day(t) \in Int /\ DayLength \in Int
    <3> HIDE DEF t
    <3> QED BY <2>1, Days
  <2>3. \A x \in B : end_time(x) \in Nat
    BY WholeTimes
  <2>4. ASSUME NEW x \in B
        PROVE  end_time(x) <= m
    <3>1. Whole(x) /\ end_time(x) <= t /\ Day(x.time) # Day(t)
      OBVIOUS
    <3> HIDE DEF t
    <3> QED BY <2>1, <3>1, EndsBefore DEF m
  <2> QED BY <2>1, <2>2, <2>3, <2>4
<1>7. /\ S \in Seq(Bar) /\ Chain(S, B, d, at) /\ Filled(S, B)
      /\ \A i \in 1..Len(S) : S[i] \in Bar /\ Whole(S[i]) /\ end_time(S[i]) \in Nat
  <2>1. S \in Seq(Bar) /\ Chain(S, B, d, at) /\ Filled(S, B)
        /\ \A i \in 1..Len(S) : S[i] \in Bar /\ Whole(S[i])
    BY DEF Composed, Chain, Good
  <2> QED BY <2>1, BarTimes
<1>8. \A i \in 1..Len(S) : end_time(S[i]) <= m /\ end_time(S[i]) <= start /\ end_time(S[i]) <= t
  <2> SUFFICES ASSUME NEW i \in 1..Len(S)
               PROVE  end_time(S[i]) <= m /\ end_time(S[i]) <= start /\ end_time(S[i]) <= t
    OBVIOUS
  <2>1. PICK l \in B : end_time(S[i]) <= end_time(l)
    OBVIOUS
  <2>2. end_time(S[i]) \in Nat /\ end_time(l) \in Nat /\ end_time(l) <= m
    BY <1>6, <1>7
  <2> HIDE DEF m, t
  <2> QED BY <1>4, <1>6, <2>1, <2>2
<1>9. \A x \in B : end_time(x) <= start
  <2> HIDE DEF m
  <2> QED BY <1>4, <1>6
<1>10. end_time(bar) <= start + d /\ insert_bar_in_running_composer(e, bar) = insert_adjacent_bar(e, bar)
  <2>1. e.bars = <<w>> /\ e.duration = d /\ insert_bar_in_running_composer(e, bar).error = "none"
    BY <1>3 DEF Composers
  <2>2. e \in Composers
    <3>1. <<w>> \in Seq(Bar) /\ start \in Int
      BY <1>4, <1>5
    <3> HIDE DEF w
    <3> QED BY <3>1 DEF Composers
  <2> HIDE DEF e, w
  <2>3. composing_bar(e) = w
    BY <2>1 DEF composing_bar, Last
  <2>4. ~spans_two_composing_bars(e, bar) /\ ~(end_time(w) > t)
    <3>1. "starts in composing bar" # "none" /\ "spans two bars" # "none"
      OBVIOUS
    <3>2. Raise(e, "starts in composing bar").error # "none" /\ Raise(e, "spans two bars").error # "none"
      BY <2>2, <3>1, RaisesAnError
    <3> QED BY <2>1, <2>3, <3>2 DEF insert_bar_in_running_composer
  <2>5. \A k \in 1..(end_time(bar) - start) : ~(t < start + k * d /\ start + k * d < end_time(bar))
    BY <1>5, <2>1, <2>3, <2>4 DEF spans_two_composing_bars
  <2>6. end_time(bar) <= start + d
    <3>1. 1 \in 1..(end_time(bar) - start) /\ 1 * d = d
      BY <1>1, <1>4
    <3> QED BY <1>1, <1>4, <2>5, <3>1
  <2>7. insert_bar_in_running_composer(e, bar) = insert_adjacent_bar(e, bar)
    BY <1>5, <2>3, <2>4 DEF insert_bar_in_running_composer
  <2> QED BY <2>6, <2>7
<1> HIDE DEF w
<1>11. /\ s \in Bar /\ s.time = start /\ end_time(s) = end_time(bar) /\ s.close = bar.close
       /\ s.duration > 0 /\ end_time(s) = s.time + s.duration /\ s.duration \in Nat
  BY <1>5, AddedBar
<1>12. Good(s, CloseOf(S), C)
  <2>1. \A x \in B : end_time(x) <= bar.time /\ Day(x.time) # Day(bar.time)
    OBVIOUS
  <2> QED BY <1>4, <1>9, <2>1, GoodStart DEF s, StartBar
<1> HIDE DEF s
<1>13. Chain(S, C, d, at)
  BY <1>7, <1>8, ChainStays
<1>14. S # <<>> => Follows(S[Len(S)], s, d)
  <2> SUFFICES ASSUME S # <<>>
               PROVE  Day(S[Len(S)].time) # Day(s.time)
    BY DEF Follows
  <2> DEFINE l == S[Len(S)]
  <2>1. Len(S) \in 1..Len(S)
    BY <1>7, EmptySeq
  <2>2. Whole(l) /\ end_time(l) <= m /\ end_time(l) \in Nat
    BY <1>7, <1>8, <2>1
  <2> HIDE DEF l
  <2>3. end_time(l) - 1 < m /\ end_time(l) - 1 \in Int
    BY <1>6, <2>2
  <2>4. Day(end_time(l) - 1) < Day(t)
    BY <1>6, <2>3, DayStart
  <2>5. Day(l.time) < Day(t) /\ Day(t) \in Int
    BY <1>6, <2>2, <2>4, Days DEF Whole
  <2> QED BY <1>4, <1>11, <2>5 DEF l
<1>15. Filled(S \o <<s>>, C)
  <2>1. <<s>> \in Seq(Bar)
    BY <1>11
  <2>2. Holds(<<s>>, bar)
    BY <1>1, <1>4, <1>11, HoldsOne
  <2>3. \A x : Holds(S, x) \/ Holds(<<s>>, x) => Holds(S \o <<s>>, x)
    BY <1>7, <2>1, HoldsJoin
  <2> QED BY <1>7, <2>2, <2>3 DEF Filled
<1>16. \A x \in C : end_time(x) <= end_time(s)
  <2>1. \A x \in B : end_time(x) <= end_time(bar)
    <3>1. \A x \in B : end_time(x) \in Nat /\ end_time(x) <= t
      BY <1>6
    <3> QED BY <1>1, <3>1
  <2>2. end_time(bar) <= end_time(bar)
    BY <1>1
  <2> QED BY <1>11, <2>1, <2>2
<1> DEFINE Q == <<>>
<1>17. Q \in Seq(Bar) /\ Q \o <<s>> = <<s>> /\ Q \o <<w>> = <<w>> /\ S \o Q = S
  BY <1>7
<1> HIDE DEF Q
<1>18. Putting(S, Q, s, C, d, at)
  <2>1. S \o Q = S /\ Q \in Seq(Bar)
    BY <1>7, <1>17
  <2>2. s.duration <= d /\ Aligned(s.time, d, at)
    BY <1>1, <1>4, <1>10, <1>11
  <2>3. \A i \in 1..Len(S) : end_time(S[i]) <= s.time
    BY <1>8, <1>11
  <2> HIDE DEF C
  <2>4. /\ Chain(S \o Q, C, d, at) /\ Good(s, CloseOf(S \o Q), C)
        /\ \A i \in 1..Len(S \o Q) : end_time((S \o Q)[i]) <= s.time
        /\ S \o Q # <<>> => Follows((S \o Q)[Len(S \o Q)], s, d)
        /\ Filled((S \o Q) \o <<s>>, C)
    BY <1>12, <1>13, <1>14, <1>15, <2>1, <2>3
  <2>5. S \in Seq(Bar) /\ at \in Int /\ s \in Bar /\ s.duration > 0
    BY <1>7, <1>11
  <2> QED BY <1>16, <2>1, <2>2, <2>4, <2>5, Put
<1>19. insert_adjacent_bar(e, bar)
         = [c EXCEPT !.start = start, !.bars = (Q \o <<s>>) \o
              (IF end_time(s) = s.time + d THEN <<zero_bar(end_time(s), s.close)>> ELSE <<>>)]
  <2>0. Q \in Seq(Bar) /\ Q \o <<w>> = <<w>>
    BY <1>17
  <2>1. e.bars = <<w>> /\ e.duration = d
    BY DEF Composers
  <2>2. \A T : [e EXCEPT !.bars = T] = [c EXCEPT !.start = start, !.bars = T]
    BY DEF Composers
  <2>3. e.bars = Q \o <<w>>
    BY <2>0, <2>1
  <2> HIDE DEF e
  <2>4. insert_adjacent_bar(e, bar)
         = [e EXCEPT !.bars = (Q \o <<Added(w, bar)>>) \o
              (IF end_time(Added(w, bar)) = w.time + e.duration
               THEN <<zero_bar(end_time(Added(w, bar)), Added(w, bar).close)>> ELSE <<>>)]
    BY <1>5, <2>0, <2>3, InsertAdjacent
  <2> QED BY <1>5, <1>11, <2>4, <2>1, <2>2
<1>20. PICK R \in Seq(Bar), y \in Bar :
         /\ (Q \o <<s>>) \o
             (IF end_time(s) = s.time + d THEN <<zero_bar(end_time(s), s.close)>> ELSE <<>>)
              = R \o <<y>>
         /\ Composing(S \o R, y, C, d, at)
         /\ end_time(y) = end_time(s)
         /\ R \o Rest(y) = Q \o <<s>>
         /\ is_zero_bar(y) <=> end_time(s) = s.time + d
  BY <1>18 DEF Putting
<1>21. Q \o <<s>> = <<s>>
  BY <1>17
<1>22. /\ insert_bar(c, bar) = [c EXCEPT !.start = start, !.bars = R \o <<y>>]
       /\ Composing(S \o R, y, C, d, at)
       /\ end_time(y) = end_time(bar)
       /\ R \o Rest(y) = <<StartBar(bar, start)>>
       /\ is_zero_bar(y) <=> end_time(bar) = start + d
  <2>1. insert_bar(c, bar) = [c EXCEPT !.start = start, !.bars = R \o <<y>>]
    BY <1>3, <1>10, <1>19, <1>20
  <2>2. R \o Rest(y) = <<s>>
    BY <1>20, <1>21
  <2> QED BY <1>11, <1>20, <2>1, <2>2 DEF s
<1> HIDE DEF C
<1> QED BY <1>4, <1>22 DEF Starts, C

-----------------------------------------------------------------------------
(* Bars that are composed fit what they are composed of.                   *)
LEMMA FirstThere ==
  ASSUME NEW B, \A b \in B : b.time \in Nat, NEW f \in B, \A c \in B : f.time <= c.time
  PROVE  FirstOf(B) \in B /\ FirstOf(B).time = f.time
<1> DEFINE First(b) == \A c \in B : b.time <= c.time
<1>1. \E b \in B : First(b)
  OBVIOUS
<1>2. FirstOf(B) = CHOOSE b \in B : First(b)
  BY DEF FirstOf
<1> HIDE DEF First
<1>3. FirstOf(B) \in B /\ First(FirstOf(B))
  BY <1>1, <1>2
<1> USE DEF First
<1> QED BY <1>3

(* LastOf is the bar that begins last.                                     *)
LEMMA LastThere ==
  ASSUME NEW B, \A b \in B : b.time \in Nat, NEW l \in B, \A c \in B : c.time <= l.time
  PROVE  LastOf(B) \in B /\ LastOf(B).time = l.time
<1> DEFINE IsLast(b) == \A c \in B : b.time >= c.time
<1>1. \E b \in B : IsLast(b)
  OBVIOUS
<1>2. LastOf(B) = CHOOSE b \in B : IsLast(b)
  BY DEF LastOf
<1> HIDE DEF IsLast
<1>3. LastOf(B) \in B /\ IsLast(LastOf(B))
  BY <1>1, <1>2
<1> USE DEF IsLast
<1> QED BY <1>3

(* Bars of the data are told apart by their times.                         *)
LEMMA DataTimes ==
  ASSUME NEW B, Data(B)
  PROVE  /\ \A b \in B : b.time \in Nat /\ end_time(b) \in Nat /\ b.time < end_time(b)
         /\ \A a, b \in B : a.time = b.time => a = b
<1>1. \A b \in B : b.time \in Nat /\ end_time(b) \in Nat /\ b.time < end_time(b)
  BY WholeTimes DEF Data
<1> QED BY <1>1 DEF Data

(* The first bar of a day.                                                 *)
LEMMA DayFirst ==
  ASSUME NEW B, Data(B), NEW t, NEW b \in B, Day(b.time) = Day(t)
  PROVE  /\ FirstOf(OfDay(t, B)) \in B /\ Day(FirstOf(OfDay(t, B)).time) = Day(t)
         /\ \A f \in B : Day(f.time) = Day(t) => FirstOf(OfDay(t, B)).time <= f.time
<1> DEFINE O == OfDay(t, B)
<1>1. \A c \in B : c.time \in Nat
  BY DataTimes
<1>2. PICK f \in B : Day(f.time) = Day(b.time) /\ FirstOfDay(f, B)
  BY DEF Data
<1>3. f \in O /\ \A c \in O : c \in B /\ Day(c.time) = Day(t) /\ f.time <= c.time /\ c.time \in Nat
  BY <1>1, <1>2 DEF OfDay, FirstOfDay
<1>4. \A c \in B : Day(c.time) = Day(t) => c \in O
  BY DEF OfDay
<1> HIDE DEF O
<1>5. FirstOf(O) \in O /\ FirstOf(O).time = f.time
  BY <1>3, FirstThere
<1> QED BY <1>3, <1>4, <1>5 DEF O

(* hasgaps is what GapsTold says.                                          *)
LEMMA ToldFits ==
  ASSUME NEW B, Data(B), NEW s, Told(s, B)
  PROVE  s.gaps = \/ \E b \in Inputs(s, B) : b.gaps
                  \/ \E t \in s.time..end_time(s) - 1 :
                       ~Covered(t, B) /\ OfDay(t, B) # {} /\ t >= FirstOf(OfDay(t, B)).time
<1>1. ASSUME NEW t \in s.time..end_time(s) - 1
      PROVE  (\E f \in B : Day(f.time) = Day(t) /\ f.time <= t)
               <=> OfDay(t, B) # {} /\ t >= FirstOf(OfDay(t, B)).time
  <2>1. t \in Int /\ \A b \in B : b.time \in Nat
    BY DataTimes
  <2>2. ASSUME NEW f \in B, Day(f.time) = Day(t), f.time <= t
        PROVE  OfDay(t, B) # {} /\ t >= FirstOf(OfDay(t, B)).time
    <3>1. FirstOf(OfDay(t, B)) \in B /\ FirstOf(OfDay(t, B)).time <= f.time
      BY <2>2, DayFirst
    <3>2. f \in OfDay(t, B)
      BY <2>2 DEF OfDay
    <3>3. FirstOf(OfDay(t, B)).time \in Nat /\ f.time \in Nat
      BY <2>1, <3>1
    <3> QED BY <2>1, <2>2, <3>1, <3>2, <3>3
  <2>3. ASSUME OfDay(t, B) # {}, t >= FirstOf(OfDay(t, B)).time
        PROVE  \E f \in B : Day(f.time) = Day(t) /\ f.time <= t
    <3>1. PICK b \in B : Day(b.time) = Day(t)
      BY <2>3 DEF OfDay
    <3>2. FirstOf(OfDay(t, B)) \in B /\ Day(FirstOf(OfDay(t, B)).time) = Day(t)
      BY <3>1, DayFirst
    <3>3. FirstOf(OfDay(t, B)).time \in Nat
      BY <2>1, <3>2
    <3> QED BY <2>1, <2>3, <3>2, <3>3
  <2> QED BY <2>2, <2>3
<1> QED BY <1>1 DEF Told

(* Open and close are what PricesFollow says.                              *)
LEMMA PricedFits ==
  ASSUME NEW B, Data(B), NEW s, Whole(s), NEW p, Priced(s, p, B)
  PROVE  LET from  == Inputs(s, B)
             opens == from # {} /\ FirstOf(from).time \in {s.time, FirstOf(OfDay(s.time, B)).time}
         IN /\ s.open  = IF opens THEN FirstOf(from).open ELSE p
            /\ s.close = IF from # {} THEN LastOf(from).close ELSE s.open
<1> DEFINE from == Inputs(s, B)
           first == FirstOf(OfDay(s.time, B))
           opens == from # {} /\ FirstOf(from).time \in {s.time, first.time}
<1>1. CASE from = {}
  BY <1>1 DEF Priced
<1>2. CASE from # {}
  <2>1. PICK f \in from, l \in from :
          /\ \A x \in from : f.time <= x.time /\ x.time <= l.time
          /\ s.close = l.close
          /\ s.open = IF Opens(f, s, B) THEN f.open ELSE p
    BY <1>2 DEF Priced
  <2>2. \A x \in from : x \in B /\ x.time \in Nat /\ s.time <= x.time /\ x.time < end_time(s)
    BY DataTimes DEF Inputs
  <2>3. \A x \in from : Day(x.time) = Day(s.time)
    <3>1. s.time \in Nat /\ end_time(s) \in Nat /\ Day(end_time(s) - 1) = Day(s.time)
      BY WholeTimes DEF Whole
    <3> SUFFICES ASSUME NEW x \in from
                 PROVE  Day(x.time) = Day(s.time)
      OBVIOUS
    <3>2. x.time <= end_time(s) - 1 /\ s.time <= x.time /\ x.time \in Int
      BY <2>2, <3>1
    <3> HIDE DEF from
    <3> QED BY <3>1, <3>2, DayBetween
  <2> HIDE DEF from
  <2>4. FirstOf(from) = f /\ LastOf(from) = l
    <3>1. FirstOf(from) \in from /\ FirstOf(from).time = f.time
      BY <2>1, <2>2, FirstThere
    <3>2. LastOf(from) \in from /\ LastOf(from).time = l.time
      BY <2>1, <2>2, LastThere
    <3> QED BY <2>2, <3>1, <3>2, DataTimes
  <2>5. /\ first \in B /\ Day(first.time) = Day(s.time) /\ first.time \in Nat
        /\ \A g \in B : Day(g.time) = Day(s.time) => first.time <= g.time
    <3>1. f \in B /\ Day(f.time) = Day(s.time)
      BY <2>2, <2>3
    <3> QED BY <3>1, DayFirst, DataTimes
  <2> HIDE DEF first
  <2>6. FirstOfDay(f, B) <=> f.time = first.time
    <3>1. f \in B /\ Day(f.time) = Day(s.time) /\ f.time \in Nat
      BY <2>2, <2>3
    <3>2. \A g \in B : g.time \in Nat
      BY DataTimes
    <3> QED BY <2>5, <3>1, <3>2 DEF FirstOfDay
  <2>7. Opens(f, s, B) <=> opens
    BY <1>2, <2>4, <2>6 DEF Opens
  <2>8. s.open = (IF opens THEN FirstOf(from).open ELSE p) /\ s.close = LastOf(from).close
    BY <2>1, <2>4, <2>7
  <2> QED BY <1>2, <2>8 DEF from, first
<1> QED BY <1>1, <1>2

(* What is composed, fits.                                                 *)
LEMMA ComposedFits ==
  ASSUME NEW d \in Nat \ {0}, NEW at \in Int, NEW B, Data(B), NEW S, Composed(S, B, d, at)
  PROVE  Fits(S, B, d, at)
<1>1. /\ S \in Seq(Bar) /\ Filled(S, B)
      /\ \A i \in 1..Len(S) :
           S[i].duration <= d /\ Aligned(S[i].time, d, at) /\ Good(S[i], Before(S, i), B)
      /\ \A i, j \in 1..Len(S) : i < j => end_time(S[i]) <= S[j].time
      /\ \A i \in 1..Len(S) - 1 : Follows(S[i], S[i + 1], d)
  BY DEF Composed, Chain
<1>2. DOMAIN S = 1..Len(S) /\ Len(S) \in Nat /\ \A s \in Range(S) : \E i \in 1..Len(S) : s = S[i]
  BY <1>1 DEF Range
<1>3. \A i \in 1..Len(S) : S[i] \in Range(S) /\ S[i] \in Bar
  BY <1>1, <1>2 DEF Range
<1>4. InStep(S, d, at)
  <2>1. ASSUME NEW i \in 1..Len(S)
        PROVE  S[i].duration \in 1..d /\ ((S[i].time % DayLength) - at) % d = 0
    <3>1. S[i].duration \in Nat /\ S[i].duration > 0 /\ S[i].duration <= d
      BY <1>1 DEF Good, Whole, Bar
    <3> QED BY <1>1, <3>1 DEF Aligned
  <2>2. ASSUME NEW i \in 1..Len(S) - 1
        PROVE  IF Day(S[i].time) = Day(S[i + 1].time)
               THEN S[i].duration = d /\ S[i + 1].time = end_time(S[i])
               ELSE S[i + 1].time >= end_time(S[i])
    <3>1. i \in 1..Len(S) /\ i + 1 \in 1..Len(S) /\ i < i + 1
      BY <1>2
    <3>2. end_time(S[i]) <= S[i + 1].time /\ Follows(S[i], S[i + 1], d)
      BY <1>1, <3>1
    <3>3. end_time(S[i]) \in Nat /\ S[i + 1].time \in Nat
      BY <1>3, <3>1, BarTimes
    <3> QED BY <3>2, <3>3 DEF Follows
  <2> QED BY <1>2, <2>1, <2>2 DEF InStep
<1>5. AllThere(S, B)
  <2>1. \A s \in Range(S) : s.parts = UNION {b.parts : b \in Inputs(s, B)}
    BY <1>1, <1>2 DEF Good, Parted
  <2>2. ASSUME NEW b \in B
        PROVE  \E s \in Range(S) : b \in Inputs(s, B)
    <3>1. PICK i \in 1..Len(S) : S[i].time <= b.time /\ b.time < end_time(S[i])
      BY <1>1 DEF Filled, Holds
    <3>2. b \in Inputs(S[i], B)
      BY <3>1 DEF Inputs
    <3> QED BY <1>3, <3>2
  <2> QED BY <2>1, <2>2 DEF AllThere
<1>6. GapsTold(S, B)
  <2>1. \A s \in Range(S) : Told(s, B)
    BY <1>1, <1>2 DEF Good
  <2> QED BY <2>1, ToldFits DEF GapsTold
<1>7. PricesFollow(S, B)
  <2> SUFFICES ASSUME NEW i \in 1..Len(S)
               PROVE  LET s     == S[i]
                          from  == Inputs(s, B)
                          opens == from # {} /\ FirstOf(from).time \in {s.time, FirstOf(OfDay(s.time, B)).time}
                      IN /\ s.open  = IF opens THEN FirstOf(from).open ELSE S[i - 1].close
                         /\ s.close = IF from # {} THEN LastOf(from).close ELSE s.open
    BY <1>2 DEF PricesFollow
  <2> DEFINE s == S[i]
             p == Before(S, i)
             from == Inputs(s, B)
             opens == from # {} /\ FirstOf(from).time \in {s.time, FirstOf(OfDay(s.time, B)).time}
  <2>1. Whole(s) /\ Priced(s, p, B) /\ s.open \in Nat
    BY <1>1, <1>3 DEF Good, Bar
  <2>2. /\ s.open  = IF opens THEN FirstOf(from).open ELSE p
        /\ s.close = IF from # {} THEN LastOf(from).close ELSE s.open
    <3> HIDE DEF s, p
    <3> QED BY <2>1, PricedFits
  <2>3. opens \/ p = S[i - 1].close
    <3>1. CASE i = 1
      <4>1. p = None /\ None \notin Nat
        BY <3>1 DEF Before, None
      <4> HIDE DEF s, p, opens
      <4> QED BY <2>1, <2>2, <4>1
    <3>2. CASE i # 1
      BY <3>2 DEF Before
    <3> QED BY <3>1, <3>2
  <2> HIDE DEF opens, p
  <2>4. /\ s.open  = IF opens THEN FirstOf(from).open ELSE S[i - 1].close
        /\ s.close = IF from # {} THEN LastOf(from).close ELSE s.open
    BY <2>2, <2>3
  <2> QED BY <2>4 DEF opens
<1> QED BY <1>4, <1>5, <1>6, <1>7 DEF Fits

-----------------------------------------------------------------------------
(* The feeder.                                                             *)
LEMMA Divides ==
  ASSUME NEW a \in Nat, NEW b \in Nat \ {0}, NEW c \in Nat \ {0}, a % b = 0, b % c = 0
  PROVE  a % c = 0
<1> DEFINE x == a \div b
           y == b \div c
<1>1. x \in Int /\ y \in Int /\ a = b * x /\ b = c * y
  BY DivMod
<1> HIDE DEF x, y
<1>2. a = c * (y * x) /\ y * x \in Int
  BY <1>1
<1> QED BY <1>2, Product

(* What the assumption on the constants says of the durations.             *)
LEMMA Sizes ==
  /\ Duration \in Nat \ {0} /\ DayLength % Duration = 0
  /\ HistorySize \in Nat \ {0} /\ Duration % HistorySize = 0 /\ DayLength % HistorySize = 0
  /\ LiveSize \in Nat \ {0} /\ Duration % LiveSize = 0 /\ DayLength % LiveSize = 0
<1>1. /\ Duration \in Nat \ {0} /\ DayLength % Duration = 0 /\ DayLength \in Nat
      /\ HistorySize \in Nat \ {0} /\ Duration % HistorySize = 0
      /\ LiveSize \in Nat \ {0} /\ Duration % LiveSize = 0
  BY FeederAssumption DEF FeederAssumption
<1> QED BY <1>1, Divides

(* Midnight is a whole number of durations.                                *)
LEMMA Midnight ==
  ASSUME NEW d \in Nat \ {0}, DayLength % d = 0, NEW k \in Int
  PROVE  /\ (k * DayLength) % d = 0 /\ k * DayLength \in Int
         /\ Day(k * DayLength) = k
<1> DEFINE q == DayLength \div d
<1>1. q \in Int /\ DayLength = d * q /\ DayLength \in Nat \ {0}
  BY Days, DivMod
<1> HIDE DEF q
<1>2. k * DayLength = d * (q * k) /\ q * k \in Int /\ k * DayLength = DayLength * k
  BY <1>1
<1>3. (d * (q * k)) % d = 0 /\ (DayLength * k) \div DayLength = k
  BY <1>1, <1>2, Product
<1> QED BY <1>1, <1>2, <1>3 DEF Day

(* A bar of a feeder is within a day.                                      *)
LEMMA SourceWhole ==
  ASSUME NEW size \in Nat \ {0}, DayLength % size = 0, NEW t \in Nat, t % size = 0
  PROVE  /\ Whole(SourceBar(t, size)) /\ SourceBar(t, size).time = t
         /\ SourceBar(t, size).duration = size
<1> DEFINE b == SourceBar(t, size)
           k == Day(t) + 1
           m == k * DayLength
<1>1. b \in Bar /\ b.time = t /\ b.duration = size
  BY DEF SourceBar, Bar
<1>2. end_time(b) = t + size
  BY <1>1 DEF end_time
<1>3. t \in Int /\ Day(t) \in Int /\ k \in Int
  <2>1. t \in Int
    OBVIOUS
  <2> QED BY <2>1, Days
<1>4. m % size = 0 /\ m \in Int /\ Day(m) = k
  BY <1>3, Midnight
<1> HIDE DEF m, b
<1>5. t < m
  <2>1. t < Day(m) * DayLength <=> Day(t) < Day(m)
    BY <1>3, <1>4, DayStart
  <2> QED BY <1>3, <1>4, <2>1 DEF m
<1>6. t + size <= m
  BY <1>4, <1>5, NextMultiple
<1>7. Day(t + size - 1) < k
  <2> DEFINE u == t + size - 1
  <2>1. u \in Int /\ u < m /\ t <= u
    BY <1>4, <1>6
  <2> HIDE DEF u
  <2>2. u < Day(m) * DayLength
    BY <1>4, <2>1 DEF m
  <2>3. Day(u) < Day(m)
    BY <1>4, <2>1, <2>2, DayStart
  <2> QED BY <1>4, <2>3 DEF u
<1>8. Day(t + size - 1) = Day(t)
  <2> DEFINE u == t + size - 1
  <2>1. u \in Int /\ t <= u
    OBVIOUS
  <2>2. Day(u) < k
    BY <1>7
  <2> HIDE DEF u
  <2>3. Day(t) <= Day(u) /\ Day(u) \in Int
    BY <1>3, <2>1, DayOrder, Days
  <2> QED BY <1>3, <2>2, <2>3 DEF u
<1> QED BY <1>1, <1>2, <1>8 DEF Whole, b

(* The composing bar begins at a whole number of durations.                *)
LEMMA ComposingAligned ==
  ASSUME NEW d \in Nat \ {0}, DayLength % d = 0, NEW B, NEW P, NEW b, Composing(P, b, B, d, 0)
  PROVE  b.time % d = 0 /\ Aligned(b.time, d, 0)
<1>1. b \in Bar /\ P \in Seq(Bar) /\ Chain(P, B, d, 0) /\ b.time \in Int
  <2>1. b \in Bar /\ P \in Seq(Bar)
    BY DEF Composing
  <2> QED BY <2>1, BarTimes, ComposingFollows
<1>2. CASE ~is_zero_bar(b)
  <2>1. Aligned(b.time, d, 0)
    BY <1>2, ComposingFollows
  <2> QED BY <1>1, <2>1, AlignedWhole
<1>3. CASE is_zero_bar(b)
  <2> DEFINE n == Len(P)
             e == P[n]
  <2>1. P # <<>> /\ e.duration = d /\ b = zero_bar(end_time(e), e.close)
    BY <1>3 DEF Composing
  <2>2. n \in 1..n /\ e \in Bar
    BY <1>1, <2>1, EmptySeq
  <2>3. Aligned(e.time, d, 0) /\ e.time \in Nat /\ end_time(e) = e.time + d
    BY <1>1, <2>1, <2>2, BarTimes DEF Chain
  <2>4. b.time = end_time(e)
    BY <2>1 DEF zero_bar
  <2> HIDE DEF e
  <2>5. e.time % d = 0
    BY <2>3, AlignedWhole
  <2>6. (e.time + d) % d = 0
    <3>1. d % d = 0
      <4>1. (d * 1) % d = 0 /\ d * 1 = d
        BY Product
      <4> QED BY <4>1
    <3> DEFINE t == e.time
    <3>2. t \in Int /\ d \in Int /\ t % d = 0
      BY <2>3, <2>5
    <3> HIDE DEF t
    <3>3. (t + d) % d = t % d
      BY <3>1, <3>2, SumMod
    <3> QED BY <3>2, <3>3 DEF t
  <2>7. b.time % d = 0
    BY <2>3, <2>4, <2>6
  <2> QED BY <1>1, <2>7, AlignedWhole
<1> QED BY <1>2, <1>3

(* What the feeder's composer o knows: the bars P were completed, of the   *)
(* bars B, the last of which began at old.                                 *)
Idle(o)   == o \in Composers /\ o.duration = Duration /\ o.at = None /\ o.close = None /\ o.error = "none"
EndsWith(l, b, old) == old = l.time /\ end_time(b) = end_time(l)
Composes(o, P, B, old) ==
  /\ o.start \in Nat
  /\ \E b \in Bar, l \in B :
       o.bars = <<b>> /\ EndsWith(l, b, old) /\ Composing(P, b, B, Duration, 0)
Fed(o, P, B, old) ==
  /\ Idle(o) /\ P \in Seq(Bar) /\ Data(B)
  /\ \/ o.bars = <<>> /\ o.start = None /\ old = None /\ B = {} /\ P = <<>>
     \/ Composes(o, P, B, old)

(* popped and complete_bars, on a list of bars whose last is known.        *)
LEMMA Popped ==
  ASSUME NEW c \in Composers, NEW R \in Seq(Bar), NEW y \in Bar, c.bars = R \o <<y>>
  PROVE  popped(c) = [c EXCEPT !.bars = <<y>>] /\ complete_bars(c) = R
<1>1. Front(R \o <<y>>) = R /\ Last(R \o <<y>>) = y
  BY FrontAdded
<1> QED BY <1>1 DEF popped, complete_bars, composing_bar

With(o, start, S) == [o EXCEPT !.start = start, !.bars = S]

(* The feeder's composer once the complete bars are popped.                *)
LEMMA FedPop ==
  ASSUME NEW o, Idle(o), NEW start \in Nat, NEW R \in Seq(Bar), NEW y \in Bar,
         NEW S \in Seq(Bar), NEW C, Data(C), NEW bar \in C, end_time(y) = end_time(bar),
         Composing(S \o R, y, C, Duration, 0),
         NEW c, c = With(o, start, R \o <<y>>)
  PROVE  Fed(popped(c), S \o R, C, bar.time) /\ complete_bars(c) = R
<1>1. R \o <<y>> \in Seq(Bar) /\ <<y>> \in Seq(Bar) /\ start \in Int /\ start # None /\ S \o R \in Seq(Bar)
  BY FrontAdded DEF None
<1>2. c \in Composers /\ c.bars = R \o <<y>>
  BY <1>1 DEF Idle, Composers, With
<1>3. popped(c) = [c EXCEPT !.bars = <<y>>] /\ complete_bars(c) = R
  BY <1>2, Popped
<1> DEFINE p == popped(c)
<1>4. p.bars = <<y>> /\ p.start = start /\ Idle(p)
  BY <1>1, <1>3 DEF Idle, Composers, With
<1> HIDE DEF p
<1>5. Composes(p, S \o R, C, bar.time)
  BY <1>1, <1>4 DEF Composes, EndsWith
<1> QED BY <1>1, <1>3, <1>4, <1>5 DEF Fed, p

(* The last bar a composer was given.                                      *)
LEMMA LastOne ==
  ASSUME NEW B, Data(B), NEW l \in B, \A x \in B : end_time(x) <= end_time(l)
  PROVE  \A x \in B : x.time <= l.time
<1> SUFFICES ASSUME NEW x \in B
             PROVE  x.time <= l.time
  OBVIOUS
<1>1. /\ x.time \in Nat /\ end_time(x) \in Nat /\ x.time < end_time(x)
      /\ l.time \in Nat /\ end_time(l) \in Nat /\ l.time < end_time(l)
  BY DataTimes
<1>2. x = l \/ end_time(x) <= l.time \/ end_time(l) <= x.time
  BY DEF Data
<1> QED BY <1>1, <1>2

(* Bars of another day come later.                                         *)
LEMMA OtherDay ==
  ASSUME NEW B, Data(B), NEW l \in B, \A x \in B : end_time(x) <= end_time(l),
         NEW t \in Nat, l.time <= t, Day(l.time) # Day(t)
  PROVE  \A x \in B : end_time(x) <= t /\ Day(x.time) # Day(t)
<1>1. \A x \in B : Whole(x) /\ x.time \in Nat /\ end_time(x) \in Nat /\ x.time <= l.time
  BY LastOne, WholeTimes DEF Data
<1>2. Day(l.time) < Day(t) /\ Day(t) \in Int /\ Day(l.time) \in Int /\ t \in Int /\ l.time \in Int
  <2>1. t \in Int /\ l.time \in Int
    BY <1>1
  <2>2. Day(l.time) <= Day(t) /\ Day(l.time) \in Int /\ Day(t) \in Int
    BY <2>1, DayOrder, Days
  <2> QED BY <2>1, <2>2
<1>3. ASSUME NEW x \in B
      PROVE  end_time(x) <= t /\ Day(x.time) # Day(t)
  <2>1. x.time \in Int /\ Day(x.time) \in Int /\ Day(x.time) <= Day(l.time) /\ Day(end_time(x) - 1) = Day(x.time)
    <3>1. x.time \in Int /\ Day(end_time(x) - 1) = Day(x.time) /\ x.time <= l.time
      BY <1>1 DEF Whole
    <3> QED BY <1>2, <3>1, DayOrder, Days
  <2> DEFINE u == end_time(x) - 1
             m == Day(t) * DayLength
  <2>2. u \in Int /\ Day(u) < Day(t)
    BY <1>1, <1>2, <2>1
  <2>3. u < m
    <3> HIDE DEF u
    <3> QED BY <1>2, <2>2, DayStart
  <2>4. m <= t /\ m \in Int
    <3>1. t = DayLength * Day(t) + (t % DayLength) /\ t % DayLength \in 0..DayLength - 1 /\ DayLength \in Nat \ {0}
      BY <1>2, Days
    <3> DEFINE r == t % DayLength
               e == DayLength * Day(t)
    <3>2. e = m /\ e \in Int /\ r \in Nat /\ t = e + r
      BY <1>2, <3>1
    <3> HIDE DEF r, e, m
    <3> QED BY <3>2
  <2>5. end_time(x) <= t
    <3>1. end_time(x) \in Nat
      BY <1>1
    <3> HIDE DEF m
    <3> QED BY <2>3, <2>4, <3>1
  <2> QED BY <1>2, <2>1, <2>5
<1> QED BY <1>3

(* A bar that does not begin a new day comes in the day that is composed.  *)
LEMMA Meets ==
  ASSUME NEW d \in Nat \ {0}, DayLength % d = 0, NEW B, Data(B), NEW P, NEW b,
         Composing(P, b, B, d, 0), NEW l \in B, end_time(b) = end_time(l),
         NEW bar, Whole(bar), end_time(b) <= bar.time,
         NEW size \in Nat \ {0}, bar.duration = size, DayLength % size = 0,
         bar.time % size = 0, l.duration % size = 0, l.time + size <= bar.time,
         Day(bar.time) = Day(l.time) \/ bar.time - l.time <= size
  PROVE  /\ Day(bar.time) = Day(b.time)
         /\ \/ is_zero_bar(b) /\ bar.time = end_time(b)
            \/ \E f \in B : Day(f.time) = Day(b.time)
<1> DEFINE t == bar.time
           e == end_time(b)
           u == l.time
<1>1. /\ t \in Nat /\ u \in Nat /\ l.duration \in Nat /\ l.duration > 0 /\ e = u + l.duration
      /\ e \in Nat /\ Day(e - 1) = Day(u) /\ e <= t /\ u < e
  <2>1. Whole(l) /\ l \in Bar
    BY DEF Data, Whole
  <2> QED BY <2>1, WholeTimes, BarTimes DEF Whole
<1>2. b \in Bar /\ b.time \in Nat /\ b.duration \in Nat /\ e = b.time + b.duration /\ b.duration < d
  BY BarTimes DEF Composing
<1>3. CASE Day(t) = Day(u)
  <2>1. CASE is_zero_bar(b)
    <3>1. b.time = e
      BY <1>2, <2>1 DEF is_zero_bar
    <3>2. t \in Int /\ e \in Int /\ u \in Int /\ u <= e /\ e <= t
      BY <1>1
    <3>3. Day(e) = Day(u)
      <4> HIDE DEF t, e, u
      <4> QED BY <1>3, <3>2, DayBetween
    <3>4. Day(b.time) = Day(l.time) /\ Day(t) = Day(b.time)
      BY <1>3, <3>1, <3>3
    <3> QED BY <3>4
  <2>2. CASE ~is_zero_bar(b)
    <3>1. Day(e - 1) = Day(b.time)
      BY <2>2, ComposingFollows DEF Good, Whole
    <3>2. Day(b.time) = Day(l.time) /\ Day(t) = Day(b.time)
      BY <1>1, <1>3, <3>1
    <3> QED BY <3>2
  <2> QED BY <2>1, <2>2
<1>4. CASE Day(t) # Day(u)
  <2> DEFINE m == Day(t) * DayLength
  <2>1. t - u <= size /\ u + size <= t /\ t = u + size /\ u \in Int /\ t \in Int /\ u <= t
    BY <1>1, <1>4
  <2> HIDE DEF t, u, e
  <2>2. Day(u) < Day(t) /\ Day(t) \in Int
    <3>1. Day(u) <= Day(t) /\ Day(u) \in Int /\ Day(t) \in Int
      BY <2>1, DayOrder, Days
    <3> QED BY <1>4, <3>1
  <2>3. u < m /\ m \in Int /\ m % size = 0 /\ m % d = 0 /\ m <= t
    <3>1. u < m
      BY <2>1, <2>2, DayStart
    <3>2. m % size = 0 /\ m % d = 0 /\ m \in Int
      BY <2>2, Midnight
    <3>3. ~(t < m)
      <4>1. ~(Day(t) < Day(t))
        BY <2>2
      <4> QED BY <2>1, <4>1, DayStart
    <3> HIDE DEF m
    <3> QED BY <2>1, <3>1, <3>2, <3>3
  <2> HIDE DEF m
  <2>4. t = m
    <3>1. t % size = m % size
      BY <2>3 DEF t
    <3>2. m < t => m + size <= t
      BY <2>1, <2>3, <3>1, NextMultiple
    <3> QED BY <2>1, <2>3, <3>2
  <2>5. e = t
    <3> DEFINE n == l.duration
    <3>1. n \in Nat /\ n > 0 /\ e = u + n /\ e <= t /\ n % size = 0
      BY <1>1
    <3> HIDE DEF n
    <3>2. 0 % size = 0
      <4>1. (size * 0) % size = 0 /\ size * 0 = 0
        BY Product
      <4> QED BY <4>1
    <3>3. 0 + size <= n
      BY <3>1, <3>2, NextMultiple
    <3> QED BY <2>1, <3>1, <3>3
  <2>6. is_zero_bar(b)
    <3> DEFINE x == b.time
               n == b.duration
    <3>1. x \in Int /\ n \in Nat /\ e = x + n /\ n < d
      BY <1>2
    <3>2. x % d = 0
      BY ComposingAligned
    <3> HIDE DEF x, n
    <3>3. x < e => x + d <= e
      <4>1. e % d = x % d /\ e \in Int
        BY <2>3, <2>4, <2>5, <3>2
      <4> QED BY <3>1, <4>1, NextMultiple
    <3>4. n = 0
      BY <3>1, <3>3
    <3> QED BY <3>4 DEF is_zero_bar, n
  <2>7. b.time = t
    <3>1. b.duration = 0
      BY <2>6 DEF is_zero_bar
    <3> QED BY <1>2, <2>5, <3>1
  <2>8. Day(bar.time) = Day(b.time) /\ bar.time = end_time(b)
    BY <2>5, <2>7 DEF t, e
  <2> QED BY <2>6, <2>8
<1> QED BY <1>3, <1>4

Resets(o, bar, old) ==
  /\ old = None \/ (Day(bar.time) # Day(old) /\ bar.time - old > bar.duration)
  /\ has_start_time(o)
Given(o, bar, old) == insert_bar(IF Resets(o, bar, old) THEN reset_composer(o) ELSE o, bar)
Left(o, bar, old)  == IF Resets(o, bar, old) THEN reset_answer(o) ELSE <<>>

(* The first bar of a day in the feeder's composer.                        *)
LEMMA FedFirst ==
  ASSUME NEW o, Idle(o), o.bars = <<>>, o.start = None,
         NEW S, NEW B, Data(B), Composed(S, B, Duration, 0), NEW bar, Whole(bar),
         \A x \in B : end_time(x) <= bar.time /\ Day(x.time) # Day(bar.time),
         \A i \in 1..Len(S) : \E l \in B : end_time(S[i]) <= end_time(l),
         NEW c, c = insert_bar(o, bar), c.error = "none"
  PROVE  /\ Fed(popped(c), S \o complete_bars(c), B \union {bar}, bar.time)
         /\ complete_bars(c) \in Seq(Bar)
<1> DEFINE C == B \union {bar}
<1>1. Data(C) /\ bar \in C
  BY DataGrows
<1>2. /\ o \in Composers /\ o.duration = Duration /\ o.at = None /\ o.close = None /\ o.error = "none"
      /\ 0 \in Nat /\ Duration \in Nat \ {0} /\ DayLength % Duration = 0 /\ \A b \in B : Whole(b)
  BY Sizes DEF Idle, Data
<1>3. Starts(o, bar, S, C, Duration, 0)
  BY <1>2, Started
<1>4. S \in Seq(Bar)
  BY DEF Composed, Chain
<1> HIDE DEF C
<1>5. PICK start \in Nat, R \in Seq(Bar), y \in Bar :
        /\ c = With(o, start, R \o <<y>>)
        /\ Composing(S \o R, y, C, Duration, 0)
        /\ end_time(y) = end_time(bar)
  BY <1>3 DEF Starts, With
<1>6. Fed(popped(c), S \o R, C, bar.time) /\ complete_bars(c) = R
  BY <1>1, <1>4, <1>5, FedPop
<1> QED BY <1>6 DEF C

LastDivided(B, old, size) == \A l \in B : l.time = old => l.duration % size = 0

(* Any bar in the feeder's composer.                                       *)
LEMMA FedOn ==
  ASSUME NEW o, NEW P, NEW B, NEW old, Fed(o, P, B, old),
         NEW bar, Whole(bar), NEW size \in Nat \ {0}, bar.duration = size,
         DayLength % size = 0, bar.time % size = 0,
         LastDivided(B, old, size),
         old # None => bar.time - old >= size,
         NEW c, c = Given(o, bar, old), c.error = "none"
  PROVE  /\ Fed(popped(c), P \o (Left(o, bar, old) \o complete_bars(c)), B \union {bar}, bar.time)
         /\ Left(o, bar, old) \in Seq(Bar) /\ complete_bars(c) \in Seq(Bar)
<1> DEFINE C == B \union {bar}
           t == bar.time
<1>1. Idle(o) /\ P \in Seq(Bar) /\ Data(B)
  BY DEF Fed
<1>2. t \in Nat /\ \A x \in B : Whole(x) /\ x.time \in Nat /\ end_time(x) \in Nat
  BY <1>1, WholeTimes DEF Data
<1>3. CASE o.bars = <<>> /\ o.start = None /\ old = None /\ B = {} /\ P = <<>>
  <2>1. ~Resets(o, bar, old)
    BY <1>1, <1>3 DEF Resets, has_start_time, Idle
  <2>2. c = insert_bar(o, bar) /\ Left(o, bar, old) = <<>>
    BY <2>1 DEF Given, Left
  <2>3. Composed(P, B, Duration, 0) /\ Len(P) = 0
    BY <1>1, <1>3 DEF Composed, Chain, Filled
  <2>4. \A i \in 1..Len(P) : FALSE
    BY <2>3
  <2>5. /\ Fed(popped(c), P \o complete_bars(c), C, t)
        /\ complete_bars(c) \in Seq(Bar)
    BY <1>1, <1>3, <2>2, <2>3, <2>4, FedFirst
  <2>6. <<>> \in Seq(Bar) /\ <<>> \o complete_bars(c) = complete_bars(c)
    BY <2>5
  <2> QED BY <2>2, <2>5, <2>6
<1>4. CASE Composes(o, P, B, old)
  <2>1. PICK b \in Bar, l \in B :
          /\ o.bars = <<b>> /\ old = l.time /\ end_time(b) = end_time(l)
          /\ Composing(P, b, B, Duration, 0)
    BY <1>4 DEF Composes, EndsWith
  <2>2. /\ o.start # None /\ old # None /\ old \in Nat /\ old + size <= t
        /\ \A x \in B : end_time(x) <= end_time(l)
    <3>1. o.start # None /\ old \in Nat /\ \A x \in B : end_time(x) <= end_time(l)
      BY <1>2, <1>4, <2>1 DEF Composes, Composing, None
    <3>2. old # None
      BY <3>1 DEF None
    <3> QED BY <1>2, <3>1, <3>2
  <2>3. has_start_time(o)
    BY <2>2 DEF has_start_time
  <2>4. CASE Day(t) # Day(old) /\ t - old > size
    <3> DEFINE r == reset_composer(o)
               S == P \o Rest(b)
    <3>1. Resets(o, bar, old)
      BY <2>3, <2>4 DEF Resets
    <3>2. c = insert_bar(r, bar) /\ Left(o, bar, old) = Rest(b)
      <4>1. composing_bar(o) = b /\ Front(<<b>>) = <<>>
        BY <2>1 DEF composing_bar, Last, Front
      <4> QED BY <2>1, <3>1, <4>1 DEF Given, Left, reset_answer, Rest
    <3>3. Idle(r) /\ r.bars = <<>> /\ r.start = None
      <4>1. o \in Composers /\ <<>> \in Seq(Bar) /\ None \in Int
        BY <1>1 DEF Idle, None
      <4>2. r \in Composers /\ r.bars = <<>> /\ r.start = None
        BY <4>1 DEF reset_composer, Composers
      <4>3. r.duration = o.duration /\ r.at = o.at /\ r.close = o.close /\ r.error = o.error
        BY <4>1 DEF reset_composer, Composers
      <4> QED BY <1>1, <4>2, <4>3 DEF Idle
    <3>4. Composed(S, B, Duration, 0) /\ Rest(b) \in Seq(Bar)
      BY <2>1, RestSeq DEF Composing
    <3>5. \A x \in B : end_time(x) <= t /\ Day(x.time) # Day(t)
      <4>1. l.time <= t /\ Day(l.time) # Day(t) /\ t \in Nat
        BY <1>2, <2>1, <2>2, <2>4
      <4> HIDE DEF t
      <4> QED BY <1>1, <2>2, <4>1, OtherDay
    <3>6. \A i \in 1..Len(S) : \E x \in B : end_time(S[i]) <= end_time(x)
      <4> SUFFICES ASSUME NEW i \in 1..Len(S)
                   PROVE  end_time(S[i]) <= end_time(b)
        BY <2>1
      <4>1. b.time \in Nat /\ end_time(b) \in Nat /\ b.time <= end_time(b)
        <5>1. b.time \in Nat /\ b.duration \in Nat /\ end_time(b) = b.time + b.duration
          BY BarTimes
        <5> QED BY <5>1
      <4>2. CASE i \in 1..Len(P)
        <5>1. S[i] = P[i] /\ P[i] \in Bar /\ end_time(P[i]) <= b.time
          BY <1>1, <2>1, <3>4, <4>2, Parts, ComposingFollows
        <5>2. end_time(P[i]) \in Nat
          BY <5>1, BarTimes
        <5> QED BY <4>1, <5>1, <5>2
      <4>3. CASE \E k \in 1..Len(Rest(b)) : i = Len(P) + k
        <5>1. PICK k \in 1..Len(Rest(b)) : i = Len(P) + k
          BY <4>3
        <5>2. S[i] = Rest(b)[k]
          BY <1>1, <3>4, <5>1, Parts
        <5>3. CASE is_zero_bar(b)
          BY <5>1, <5>3 DEF Rest
        <5>4. CASE ~is_zero_bar(b)
          <6>1. Rest(b) = <<b>> /\ Len(<<b>>) = 1 /\ <<b>>[1] = b
            BY <5>4 DEF Rest
          <6>2. k = 1
            BY <5>1, <6>1
          <6> QED BY <4>1, <5>2, <6>1, <6>2
        <5> QED BY <5>3, <5>4
      <4> QED BY <1>1, <3>4, <4>2, <4>3, Parts
    <3> HIDE DEF r
    <3>7. /\ Fed(popped(c), S \o complete_bars(c), C, t)
          /\ complete_bars(c) \in Seq(Bar)
      <4> HIDE DEF S
      <4> QED BY <1>1, <3>2, <3>3, <3>4, <3>5, <3>6, FedFirst
    <3>8. S \o complete_bars(c) = P \o (Rest(b) \o complete_bars(c))
      BY <1>1, <3>4, <3>7, ConcatAssociative
    <3> QED BY <3>2, <3>4, <3>7, <3>8
  <2>5. CASE ~(Day(t) # Day(old) /\ t - old > size)
    <3>1. ~Resets(o, bar, old)
      BY <2>2, <2>5 DEF Resets
    <3>2. c = insert_bar_in_running_composer(o, bar) /\ Left(o, bar, old) = <<>>
      <4>1. c = insert_bar(o, bar) /\ Left(o, bar, old) = <<>>
        BY <3>1 DEF Given, Left
      <4>2. running(o) /\ o.error = "none"
        BY <1>1, <2>1 DEF running, Idle
      <4> QED BY <4>1, <4>2 DEF insert_bar
    <3>3. end_time(b) <= t
      <4>1. ~(end_time(b) > t)
        <5>1. composing_bar(o) = b
          BY <2>1 DEF composing_bar, Last
        <5>2. "starts in composing bar" # "none" /\ o \in Composers
          BY <1>1 DEF Idle
        <5>3. Raise(o, "starts in composing bar").error # "none"
          BY <5>2, RaisesAnError
        <5> QED BY <3>2, <5>1, <5>3 DEF insert_bar_in_running_composer
      <4>2. end_time(b) \in Nat
        BY BarTimes
      <4> QED BY <1>2, <4>1, <4>2
    <3>4. Day(t) = Day(l.time) \/ t - l.time <= size
      BY <1>2, <2>1, <2>2, <2>5
    <3>5. l.duration % size = 0 /\ l.time + size <= t
      BY <2>1, <2>2 DEF LastDivided
    <3>6. /\ Day(t) = Day(b.time)
          /\ \/ is_zero_bar(b) /\ t = end_time(b)
             \/ \E f \in B : Day(f.time) = Day(b.time)
      <4>1. Duration \in Nat \ {0} /\ DayLength % Duration = 0
        BY Sizes
      <4> QED BY <1>1, <2>1, <3>3, <3>4, <3>5, <4>1, Meets
    <3>7. Aligned(b.time, Duration, 0)
      BY <2>1, Sizes, ComposingAligned
    <3>8. PICK R \in Seq(Bar), y \in Bar : Becomes(o, c, P, R, y, bar, C, Duration, 0)
      <4>1. /\ o \in Composers /\ o.duration = Duration /\ Duration \in Nat \ {0} /\ 0 \in Int
            /\ \A x \in B : Whole(x)
        BY <1>1, <1>2, Sizes DEF Idle
      <4>2. \E R \in Seq(Bar), y \in Bar :
              Becomes(o, insert_bar_in_running_composer(o, bar), P, R, y, bar, B \union {bar}, Duration, 0)
        <5>1. insert_bar_in_running_composer(o, bar).error = "none"
          BY <3>2
        <5>2. \/ is_zero_bar(b) /\ bar.time = end_time(b)
              \/ \E f \in B : Day(f.time) = Day(b.time)
          BY <3>6
        <5> HIDE DEF C, t
        <5>3. P \in Seq(Bar) /\ Day(bar.time) = Day(b.time)
          BY <1>1, <3>6 DEF t
        <5>4. Runs(o, bar, P, b, B \union {bar}, Duration, 0)
          BY <2>1, <3>7, <4>1, <5>1, <5>2, <5>3, Running
        <5> QED BY <5>4 DEF Runs
      <4> QED BY <3>2, <4>2
    <3>9. o.start \in Nat
      BY <1>4 DEF Composes
    <3>10. c = With(o, o.start, R \o <<y>>)
      <4>1. c = [o EXCEPT !.bars = R \o <<y>>] /\ o \in Composers
        BY <1>1, <3>8 DEF Becomes, Idle
      <4> QED BY <4>1 DEF Composers, With
    <3>11. Fed(popped(c), P \o R, C, t) /\ complete_bars(c) = R
      <4>1. Data(C) /\ bar \in C
        <5>1. \A x \in B : end_time(x) <= end_time(b)
          BY <2>1 DEF Composing
        <5>2. \A x \in B : end_time(x) <= t
          BY <1>2, <3>3, <5>1, BarTimes
        <5> QED BY <1>1, <5>2, DataGrows
      <4>2. Composing(P \o R, y, C, Duration, 0) /\ end_time(y) = end_time(bar)
        BY <3>8 DEF Becomes
      <4> HIDE DEF C
      <4> QED BY <1>1, <3>9, <3>10, <4>1, <4>2, FedPop
    <3>12. <<>> \o R = R /\ <<>> \in Seq(Bar)
      OBVIOUS
    <3> QED BY <3>2, <3>11, <3>12
  <2> QED BY <2>4, <2>5
<1> QED BY <1>3, <1>4 DEF Fed

-----------------------------------------------------------------------------
(* The inductive invariant of the feeder.                                  *)
SourcesInv ==
  /\ history \in Nat \union {None} /\ live_bar \in Nat \union {None} /\ reading \in BOOLEAN
  /\ feeder \in Seq(Nat) /\ \A i \in 1..Len(feeder) : feeder[i] % LiveSize = 0
  /\ history # None => feeder = <<>>
  /\ live_bar = None => history # None /\ ~reading
  /\ live_bar # None => live_bar % LiveSize = 0
  /\ reading /\ history = None => feeder # <<>>
  /\ received \subseteq Nat

UsedInv ==
  /\ \A b \in used : b.time % LiveSize = 0 /\ b.duration \in {HistorySize, LiveSize}
  /\ history # None => \A b \in used : b.duration = HistorySize /\ end_time(b) <= history

Completed == delivered \o unread_data

FeederIInv ==
  /\ SourcesInv
  /\ own.error # "none" => unread_data = <<>>
  /\ own.error = "none" =>
       /\ Fed(own, Completed, used, old_start_time)
       /\ delivered \in Seq(Bar) /\ unread_data \in Seq(Bar)
       /\ UsedInv /\ NothingDropped

(* What is inserted is composed.                                           *)
LEMMA Feeds ==
  ASSUME Fed(own, delivered, used, old_start_time), delivered \in Seq(Bar), unread_data = <<>>,
         NEW t \in Nat, NEW size \in Nat \ {0}, DayLength % size = 0, t % size = 0,
         LastDivided(used, old_start_time, size),
         feed(SourceBar(t, size)), UNCHANGED delivered, own'.error = "none"
  PROVE  \/ /\ old_start_time # None /\ t - old_start_time < size
            /\ UNCHANGED feederVars
         \/ /\ old_start_time # None => t - old_start_time >= size
            /\ used' = used \union {SourceBar(t, size)} /\ old_start_time' = t
            /\ Fed(own', Completed', used', old_start_time')
            /\ unread_data' \in Seq(Bar)
<1> DEFINE bar == SourceBar(t, size)
           old == old_start_time
           c == Given(own, bar, old)
<1>1. Whole(bar) /\ bar.time = t /\ bar.duration = size
  BY SourceWhole
<1>2. old \in Int
  <2>1. CASE old = None
    BY <2>1 DEF None
  <2>2. CASE \E l \in used : old = l.time
    BY <2>2, DataTimes DEF Fed
  <2> QED BY <2>1, <2>2 DEF Fed, Composes, EndsWith
<1> HIDE DEF bar
<1>3. CASE TooSoon(bar)
  BY <1>1, <1>3 DEF feed, TooSoon, bar
<1>4. CASE ~TooSoon(bar)
  <2>1. old # None => t - old >= size
    BY <1>1, <1>2, <1>4 DEF TooSoon
  <2>2. insert(bar)
    BY <1>4 DEF feed, bar
  <2>3. IF c.error # "none"
        THEN own' = c
        ELSE /\ own' = popped(c) /\ unread_data' = Left(own, bar, old) \o complete_bars(c)
             /\ old_start_time' = bar.time /\ used' = used \union {bar}
    BY <2>2 DEF insert, NewDay, Given, Left, Resets
  <2> HIDE DEF c
  <2>4. c.error = "none" /\ own' = popped(c) /\ unread_data' = Left(own, bar, old) \o complete_bars(c)
        /\ old_start_time' = bar.time /\ used' = used \union {bar}
    BY <2>3
  <2>5. /\ Fed(popped(c), delivered \o (Left(own, bar, old) \o complete_bars(c)), used \union {bar}, bar.time)
        /\ Left(own, bar, old) \in Seq(Bar) /\ complete_bars(c) \in Seq(Bar)
    <3>1. LastDivided(used, old, size)
      OBVIOUS
    <3> HIDE DEF old
    <3>2. Fed(own, delivered, used, old) /\ c = Given(own, bar, old)
      BY DEF old, c
    <3>3. /\ Whole(bar) /\ bar.duration = size /\ bar.time % size = 0 /\ c.error = "none"
          /\ old # None => bar.time - old >= size
      BY <1>1, <2>1, <2>4
    <3> QED BY <3>1, <3>2, <3>3, FedOn
  <2>6. unread_data' \in Seq(Bar)
    BY <2>4, <2>5
  <2>7. Fed(own', delivered \o unread_data', used', old_start_time')
    BY <2>4, <2>5
  <2> QED BY <1>1, <2>1, <2>4, <2>6, <2>7 DEF Completed, bar
<1> QED BY <1>3, <1>4

(* The invariant of the feeder holds initially.                            *)
LEMMA FeederInitially ==
  Init => FeederIInv
<1> SUFFICES ASSUME Init
             PROVE  FeederIInv
  OBVIOUS
<1>0. /\ history = 0 /\ live_bar = None /\ feeder = <<>> /\ reading = FALSE
      /\ old_start_time = None /\ own = composer(Duration, None)
      /\ unread_data = <<>> /\ received = {} /\ used = {} /\ delivered = <<>>
  BY DEF Init, FeederInit
<1>1. SourcesInv
  <2>1. <<>> \in Seq(Nat) /\ Len(<<>>) = 0 /\ 0 # None /\ 0 \in Nat /\ \A i \in 1..0 : FALSE
    BY DEF None
  <2> QED BY <1>0, <2>1 DEF SourcesInv
<1>2. own = composer(Duration, None) /\ Duration \in Nat \ {0} /\ None \in Int /\ <<>> \in Seq(Bar)
  BY <1>0, Sizes DEF None
<1>3. Idle(own) /\ own.bars = <<>> /\ own.start = None
  <2>1. own = [duration |-> Duration, bars |-> <<>>, start |-> None, at |-> None, close |-> None, error |-> "none"]
    BY <1>2 DEF composer
  <2>2. "none" \in {"none"} /\ None \in {None}
    OBVIOUS
  <2>3. own \in Composers
    BY <1>2, <2>1, <2>2 DEF Composers
  <2>4. /\ own.duration = Duration /\ own.at = None /\ own.close = None /\ own.error = "none"
        /\ own.bars = <<>> /\ own.start = None
    BY <2>1
  <2> QED BY <2>3, <2>4 DEF Idle
<1>4. Data(used) /\ Completed = <<>> /\ <<>> \in Seq(Bar)
  BY <1>0, <1>2, ConcatEmptySeq DEF Data, Completed
<1>5. Fed(own, Completed, used, old_start_time)
  BY <1>0, <1>3, <1>4 DEF Fed
<1>6. UsedInv /\ NothingDropped
  BY <1>0 DEF UsedInv, NothingDropped
<1> QED BY <1>0, <1>1, <1>4, <1>5, <1>6 DEF FeederIInv

(* When the composer raises, nothing waits to be handed out.               *)
LEMMA FeedError ==
  ASSUME NEW bar, feed(bar), own.error = "none", unread_data = <<>>, own'.error # "none"
  PROVE  unread_data' = <<>>
<1>1. CASE TooSoon(bar)
  BY <1>1 DEF feed, feederVars
<1>2. CASE ~TooSoon(bar)
  <2> DEFINE c == Given(own, bar, old_start_time)
  <2>1. IF c.error # "none"
        THEN own' = c /\ UNCHANGED <<old_start_time, unread_data, used>>
        ELSE own' = popped(c)
    BY <1>2 DEF feed, insert, NewDay, Given, Resets
  <2>2. popped(c).error = c.error
    BY DEF popped
  <2> HIDE DEF c
  <2> QED BY <2>1, <2>2
<1> QED BY <1>1, <1>2

(* A bar of a feeder is put in.                                            *)
LEMMA UsedOne ==
  ASSUME FeederIInv, HistorySize % LiveSize = 0, own.error = "none", unread_data = <<>>,
         NEW t \in Nat, NEW size \in {HistorySize, LiveSize}, t % size = 0,
         LastDivided(used, old_start_time, size),
         feed(SourceBar(t, size)), UNCHANGED delivered, own'.error = "none"
  PROVE  \/ /\ old_start_time # None /\ t - old_start_time < size
            /\ UNCHANGED feederVars
         \/ /\ used' = used \union {SourceBar(t, size)} /\ old_start_time' = t
            /\ SourceBar(t, size).time = t /\ SourceBar(t, size).duration = size
            /\ end_time(SourceBar(t, size)) = t + size /\ t % LiveSize = 0
            /\ old_start_time <= t
            /\ Fed(own', Completed', used', old_start_time')
            /\ unread_data' \in Seq(Bar)
<1>1. size \in Nat \ {0} /\ DayLength % size = 0 /\ LiveSize \in Nat \ {0} /\ LiveSize % LiveSize = 0
  <2>1. (LiveSize * 1) % LiveSize = 0 /\ LiveSize * 1 = LiveSize
    BY Sizes, Product
  <2> QED BY <2>1, Sizes
<1>2. delivered \in Seq(Bar) /\ Completed = delivered /\ Fed(own, delivered, used, old_start_time)
  <2>1. delivered \in Seq(Bar) /\ Fed(own, Completed, used, old_start_time)
    BY DEF FeederIInv
  <2>2. Completed = delivered
    BY <2>1, ConcatEmptySeq DEF Completed
  <2> QED BY <2>1, <2>2
<1>3. \/ /\ old_start_time # None /\ t - old_start_time < size
         /\ UNCHANGED feederVars
      \/ /\ old_start_time # None => t - old_start_time >= size
         /\ used' = used \union {SourceBar(t, size)} /\ old_start_time' = t
         /\ Fed(own', Completed', used', old_start_time')
         /\ unread_data' \in Seq(Bar)
  BY <1>1, <1>2, Feeds
<1>4. old_start_time = None \/ \E l \in used : old_start_time = l.time /\ l.time \in Nat
  BY <1>2, DataTimes DEF Fed, Composes, EndsWith
<1>5. (old_start_time # None => t - old_start_time >= size) => old_start_time <= t
  BY <1>1, <1>4 DEF None
<1>6. /\ SourceBar(t, size).time = t /\ SourceBar(t, size).duration = size
      /\ end_time(SourceBar(t, size)) = t + size
  BY <1>1, SourceWhole DEF end_time
<1>7. t % LiveSize = 0
  BY <1>1, Divides
<1> QED BY <1>3, <1>5, <1>6, <1>7

(* The clauses on what was used, when nothing is put in.                   *)
LEMMA FeederWaits ==
  ASSUME FeederIInv, UNCHANGED <<feederVars, delivered>>, SourcesInv',
         history' # None => history' = history,
         NothingDropped => NothingDropped'
  PROVE  FeederIInv'
<1>1. /\ own' = own /\ used' = used /\ old_start_time' = old_start_time
      /\ unread_data' = unread_data /\ delivered' = delivered
  BY DEF feederVars
<1>2. Completed' = Completed
  BY <1>1 DEF Completed
<1>3. UsedInv => UsedInv'
  BY <1>1 DEF UsedInv
<1> QED BY <1>1, <1>2, <1>3 DEF FeederIInv

(* Every step keeps the invariant of the feeder.                           *)
LEMMA FeederInductive ==
  ASSUME HistorySize % LiveSize = 0, FeederIInv, [Next]_vars
  PROVE  FeederIInv'
<1> USE DEF FeederIInv
<1>1. CASE UNCHANGED vars
  <2>1. UNCHANGED <<feederVars, delivered>> /\ UNCHANGED sourceVars
    BY <1>1 DEF vars
  <2>2. SourcesInv' /\ (NothingDropped => NothingDropped')
    BY <2>1 DEF SourcesInv, sourceVars, feederVars, NothingDropped, Waiting
  <2>3. history' = history
    BY <2>1 DEF sourceVars
  <2> QED BY <2>1, <2>2, <2>3, FeederWaits
<1>2. CASE new_bar
  <2>1. /\ unread_data # <<>> /\ delivered' = Append(delivered, Head(unread_data))
        /\ unread_data' = Tail(unread_data)
        /\ UNCHANGED <<sourceVars, old_start_time, own, used>>
    BY <1>2 DEF new_bar
  <2>2. SourcesInv' /\ (NothingDropped => NothingDropped') /\ (UsedInv => UsedInv')
    BY <2>1 DEF SourcesInv, sourceVars, NothingDropped, Waiting, UsedInv
  <2>3. ASSUME own.error = "none"
        PROVE  Completed' = Completed /\ delivered' \in Seq(Bar) /\ unread_data' \in Seq(Bar)
    <3>1. delivered \in Seq(Bar) /\ unread_data \in Seq(Bar)
      BY <2>3
    <3>2. unread_data = <<Head(unread_data)>> \o Tail(unread_data)
          /\ Head(unread_data) \in Bar /\ Tail(unread_data) \in Seq(Bar)
      BY <2>1, <3>1
    <3>3. Append(delivered, Head(unread_data)) = delivered \o <<Head(unread_data)>>
          /\ <<Head(unread_data)>> \in Seq(Bar)
      BY <3>1, <3>2
    <3>4. (delivered \o <<Head(unread_data)>>) \o Tail(unread_data)
            = delivered \o (<<Head(unread_data)>> \o Tail(unread_data))
      BY <3>1, <3>2, <3>3, ConcatAssociative
    <3> QED BY <2>1, <3>1, <3>2, <3>3, <3>4 DEF Completed
  <2> QED BY <2>1, <2>2, <2>3
<1>3. CASE iterate
  <2>1. FeederNext /\ delivered' = delivered
    BY <1>3 DEF iterate
  <2>2. ASSUME NEW t \in 0..MaxTime, first_live_bar(t)
        PROVE  FeederIInv'
    <3>1. t \in Nat
      OBVIOUS
    <3>2. SourcesInv'
      BY <2>2, <3>1 DEF first_live_bar, SourcesInv, None
    <3>3. NothingDropped'
      BY <2>2 DEF first_live_bar, SourcesInv, NothingDropped, Waiting
    <3> QED BY <2>1, <2>2, <3>2, <3>3, FeederWaits DEF first_live_bar
  <2>3. ASSUME NEW t \in 0..MaxTime, next_live_bar(t)
        PROVE  FeederIInv'
    <3>1. t \in Nat /\ live_bar # None
      BY <2>3 DEF next_live_bar, SourcesInv
    <3>2. feeder' = Append(feeder, t) /\ feeder \in Seq(Nat) /\ feeder' \in Seq(Nat)
          /\ Len(feeder') = Len(feeder) + 1 /\ feeder'[Len(feeder) + 1] = t
          /\ \A i \in 1..Len(feeder) : feeder'[i] = feeder[i]
      BY <2>3, <3>1 DEF next_live_bar, SourcesInv
    <3>3. feeder' # <<>> /\ \A i \in 1..Len(feeder') : i \in 1..Len(feeder) \/ i = Len(feeder) + 1
      BY <3>2
    <3>4. SourcesInv'
      BY <2>3, <3>1, <3>2, <3>3 DEF next_live_bar, SourcesInv, None
    <3>5. Range(feeder') = Range(feeder) \union {t}
      <4>1. DOMAIN feeder = 1..Len(feeder) /\ DOMAIN feeder' = 1..Len(feeder') /\ Len(feeder) + 1 \in 1..Len(feeder')
            /\ \A i \in 1..Len(feeder) : i \in 1..Len(feeder')
        BY <3>2
      <4> QED BY <3>2, <3>3, <4>1 DEF Range
    <3>6. NothingDropped => NothingDropped'
      BY <2>3, <3>5 DEF next_live_bar, NothingDropped, Waiting, feederVars
    <3> QED BY <2>1, <2>3, <3>4, <3>6, FeederWaits DEF next_live_bar
  <2>4. CASE history_ends
    <3>1. live_bar # None /\ feeder = <<>>
      BY <2>4 DEF history_ends, SourcesInv
    <3>2. SourcesInv'
      <4>1. /\ history' = None /\ feeder' = <<live_bar>> /\ reading' = FALSE
            /\ live_bar' = live_bar /\ received' = received
        BY <2>4 DEF history_ends
      <4>2. live_bar \in Nat /\ live_bar % LiveSize = 0
        BY <3>1 DEF SourcesInv
      <4>3. <<live_bar>> \in Seq(Nat) /\ \A i \in 1..Len(<<live_bar>>) : <<live_bar>>[i] = live_bar
        BY <4>2
      <4> QED BY <3>1, <4>1, <4>2, <4>3 DEF SourcesInv
    <3>3. Range(<<live_bar>>) = {live_bar} /\ Range(<<>>) = {}
      BY DEF Range
    <3>4. NothingDropped => NothingDropped'
      BY <2>4, <3>1, <3>3 DEF history_ends, NothingDropped, Waiting, feederVars
    <3> QED BY <2>1, <2>4, <3>2, <3>4, FeederWaits DEF history_ends
  <2>5. ASSUME NEW t \in 0..MaxTime, history_bar(t)
        PROVE  FeederIInv'
    <3>1. /\ t \in Nat /\ own.error = "none" /\ unread_data = <<>> /\ reading /\ history \in Nat
          /\ t >= history /\ t % HistorySize = 0 /\ feed(SourceBar(t, HistorySize))
          /\ history' = t + HistorySize /\ received' = received \union {t}
          /\ UNCHANGED <<live_bar, feeder, reading>> /\ HistorySize \in Nat \ {0}
      BY <2>5, Sizes DEF history_bar, Resumes, SourcesInv
    <3>2. SourcesInv'
      BY <3>1 DEF SourcesInv, None
    <3>3. ASSUME own'.error = "none"
          PROVE  FeederIInv'
      <4> DEFINE bar == SourceBar(t, HistorySize)
      <4>1. /\ Fed(own, Completed, used, old_start_time) /\ delivered' \in Seq(Bar)
            /\ UsedInv /\ NothingDropped
            /\ \A l \in used : l.duration = HistorySize /\ end_time(l) <= history
        BY <2>1, <3>1 DEF UsedInv, None
      <4>2. LastDivided(used, old_start_time, HistorySize)
        <5>1. (HistorySize * 1) % HistorySize = 0 /\ HistorySize * 1 = HistorySize
          BY Sizes, Product
        <5> QED BY <4>1, <5>1 DEF LastDivided
      <4>3. ~(old_start_time # None /\ t - old_start_time < HistorySize)
        <5>1. old_start_time # None => \E l \in used : old_start_time = l.time /\ l.time \in Nat
          BY <4>1, DataTimes DEF Fed, Composes, EndsWith
        <5>2. \A l \in used : end_time(l) = l.time + HistorySize /\ end_time(l) <= history
          BY <4>1 DEF end_time
        <5> QED BY <3>1, <5>1, <5>2
      <4>4. /\ used' = used \union {bar} /\ old_start_time' = t /\ bar.time = t
            /\ bar.duration = HistorySize /\ end_time(bar) = t + HistorySize /\ t % LiveSize = 0
            /\ old_start_time <= t /\ Fed(own', Completed', used', old_start_time')
            /\ unread_data' \in Seq(Bar)
        BY <2>1, <3>1, <3>3, <4>2, <4>3, UsedOne
      <4> HIDE DEF bar
      <4>5. UsedInv'
        <5>1. \A b \in used : b.time % LiveSize = 0
          BY <4>1 DEF UsedInv
        <5>2. \A b \in used : end_time(b) <= history'
          <6>1. \A b \in used : end_time(b) \in Nat /\ end_time(b) <= history
            BY <4>1, DataTimes DEF Fed
          <6> QED BY <3>1, <6>1
        <5>3. end_time(bar) <= history'
          BY <3>1, <4>4
        <5> QED BY <4>1, <4>4, <5>1, <5>2, <5>3 DEF UsedInv
      <4>6. NothingDropped'
        <5>1. Waiting \subseteq Waiting'
          BY <3>1 DEF Waiting, None
        <5>2. old_start_time \in Int
          BY <4>1, DataTimes DEF Fed, Composes, EndsWith, None
        <5>3. received \subseteq Nat
          BY DEF SourcesInv
        <5> QED BY <3>1, <4>1, <4>4, <5>1, <5>2, <5>3 DEF NothingDropped
      <4> QED BY <3>2, <3>3, <4>1, <4>4, <4>5, <4>6
    <3>4. own'.error # "none" => unread_data' = <<>>
      BY <3>1, FeedError
    <3> QED BY <3>2, <3>3, <3>4
  <2>6. CASE list_bar
    <3> DEFINE t == Head(feeder)
    <3>1. /\ own.error = "none" /\ unread_data = <<>> /\ history = None /\ reading /\ feeder # <<>>
          /\ feed(SourceBar(t, LiveSize)) /\ feeder' = Tail(feeder) /\ reading' = (Len(feeder) > 1)
          /\ UNCHANGED <<history, live_bar, received>> /\ LiveSize \in Nat \ {0}
      BY <2>6, Sizes DEF list_bar, Resumes, SourcesInv
    <3>2. /\ feeder \in Seq(Nat) /\ t \in Nat /\ t % LiveSize = 0 /\ feeder' \in Seq(Nat)
          /\ Len(feeder') = Len(feeder) - 1
          /\ \A i \in 1..Len(feeder') : feeder'[i] = feeder[i + 1] /\ i + 1 \in 1..Len(feeder)
          /\ \A i \in 1..Len(feeder) : i = 1 \/ i - 1 \in 1..Len(feeder')
          /\ feeder[1] = t
      BY <3>1 DEF SourcesInv
    <3>3. SourcesInv'
      <4>1. (Len(feeder) > 1) \in BOOLEAN /\ (Len(feeder) > 1 => feeder' # <<>>)
        BY <3>2
      <4>2. \A i \in 1..Len(feeder') : feeder'[i] % LiveSize = 0
        BY <3>2 DEF SourcesInv
      <4> QED BY <3>1, <3>2, <4>1, <4>2 DEF SourcesInv
    <3>4. Range(feeder) = Range(feeder') \union {t}
      <4>1. DOMAIN feeder = 1..Len(feeder) /\ DOMAIN feeder' = 1..Len(feeder')
            /\ \A i \in 1..Len(feeder) : i # 1 => feeder[i] = feeder'[i - 1]
            /\ Len(feeder) \in Nat \ {0} /\ 1 \in 1..Len(feeder)
        <5>1. Len(feeder) \in Nat \ {0} /\ 1 \in 1..Len(feeder)
          BY <3>1, <3>2, EmptySeq
        <5>2. \A i \in 1..Len(feeder) : i # 1 => feeder[i] = feeder'[i - 1]
          <6>1. \A i \in 1..Len(feeder) : i # 1 => i - 1 \in 1..Len(feeder') /\ i - 1 + 1 = i
            BY <3>2
          <6> QED BY <3>2, <6>1
        <5> QED BY <3>2, <5>1, <5>2
      <4> HIDE DEF t
      <4>2. \A x \in Range(feeder) : x \in Range(feeder') \union {t}
        <5>1. \A i \in 1..Len(feeder) : feeder[i] = t \/ feeder[i] \in Range(feeder')
          <6>1. \A i \in 1..Len(feeder) : i = 1 \/ (i - 1 \in 1..Len(feeder') /\ feeder[i] = feeder'[i - 1])
            BY <3>2, <4>1
          <6> QED BY <3>2, <4>1, <6>1 DEF Range
        <5> QED BY <4>1, <5>1 DEF Range
      <4>3. \A x \in Range(feeder') \union {t} : x \in Range(feeder)
        <5>1. \A i \in 1..Len(feeder') : feeder'[i] \in Range(feeder)
          BY <3>2, <4>1 DEF Range
        <5>2. t \in Range(feeder)
          <6>1. 1 \in DOMAIN feeder /\ feeder[1] = t
            BY <3>2, <4>1
          <6> QED BY <6>1 DEF Range
        <5> QED BY <4>1, <5>1, <5>2 DEF Range
      <4> QED BY <4>2, <4>3
    <3> HIDE DEF t
    <3>5. ASSUME own'.error = "none"
          PROVE  FeederIInv'
      <4> DEFINE bar == SourceBar(t, LiveSize)
      <4>1. /\ Fed(own, Completed, used, old_start_time) /\ delivered' \in Seq(Bar)
            /\ UsedInv /\ NothingDropped
        BY <2>1, <3>1
      <4>2. LastDivided(used, old_start_time, LiveSize)
        <5>1. (LiveSize * 1) % LiveSize = 0 /\ LiveSize * 1 = LiveSize
          BY Sizes, Product
        <5>2. \A l \in used : l.duration \in {HistorySize, LiveSize}
          BY <4>1 DEF UsedInv
        <5> QED BY <5>1, <5>2 DEF LastDivided
      <4>3. \/ /\ old_start_time # None /\ t - old_start_time < LiveSize
               /\ UNCHANGED feederVars
            \/ /\ used' = used \union {bar} /\ old_start_time' = t /\ bar.time = t
               /\ bar.duration = LiveSize /\ t % LiveSize = 0
               /\ old_start_time <= t /\ Fed(own', Completed', used', old_start_time')
               /\ unread_data' \in Seq(Bar)
        BY <2>1, <3>1, <3>2, <3>5, <4>2, UsedOne
      <4>4. /\ old_start_time \in Int
            /\ old_start_time # None => \E l \in used : old_start_time = l.time /\ l.time \in Nat
        BY <4>1, DataTimes DEF Fed, Composes, EndsWith, None
      <4>5. received \subseteq Nat /\ Waiting = Waiting' \union {t}
        BY <3>1, <3>4 DEF SourcesInv, Waiting
      <4> HIDE DEF bar
      <4>6. CASE old_start_time # None /\ t - old_start_time < LiveSize /\ UNCHANGED feederVars
        <5>1. t < old_start_time \/ t = old_start_time
          <6>1. PICK l \in used : old_start_time = l.time /\ l.time \in Nat
            BY <4>4, <4>6
          <6>2. old_start_time % LiveSize = 0
            BY <4>1, <6>1 DEF UsedInv
          <6>3. old_start_time < t => old_start_time + LiveSize <= t
            BY <3>1, <3>2, <4>4, <6>2, NextMultiple
          <6> QED BY <3>1, <3>2, <4>4, <4>6, <6>3
        <5>2. t < old_start_time \/ t \in {b.time : b \in used}
          BY <4>4, <4>6, <5>1
        <5>3. used' = used /\ old_start_time' = old_start_time /\ received' = received
          BY <3>1, <4>6 DEF feederVars
        <5>4. NothingDropped'
          BY <4>1, <4>5, <5>2, <5>3 DEF NothingDropped
        <5> QED BY <2>1, <3>1, <3>3, <4>6, <5>4, FeederWaits
      <4>7. CASE /\ used' = used \union {bar} /\ old_start_time' = t /\ bar.time = t
                 /\ bar.duration = LiveSize /\ t % LiveSize = 0
                 /\ old_start_time <= t /\ Fed(own', Completed', used', old_start_time')
                 /\ unread_data' \in Seq(Bar)
        <5>1. UsedInv'
          BY <3>1, <4>1, <4>7 DEF UsedInv
        <5>2. NothingDropped'
          BY <3>1, <3>2, <4>1, <4>4, <4>5, <4>7 DEF NothingDropped
        <5> QED BY <3>3, <3>5, <4>1, <4>7, <5>1, <5>2
      <4> QED BY <4>3, <4>6, <4>7
    <3>6. own'.error # "none" => unread_data' = <<>>
      BY <3>1, FeedError
    <3> QED BY <3>3, <3>5, <3>6
  <2> QED BY <2>1, <2>2, <2>3, <2>4, <2>5, <2>6 DEF FeederNext
<1> QED BY <1>1, <1>2, <1>3 DEF Next

(* No bars fit no data.                                                    *)
LEMMA NothingFits ==
  ASSUME NEW d \in Nat \ {0}, NEW at \in Int
  PROVE  Fits(<<>>, {}, d, at)
<1>1. <<>> \in Seq(Bar) /\ Len(<<>>) = 0 /\ (\A i \in 1..0 : FALSE) /\ \A i \in 1..0 - 1 : FALSE
  OBVIOUS
<1>2. Composed(<<>>, {}, d, at) /\ Data({})
  BY <1>1 DEF Composed, Chain, Filled, Data
<1> QED BY <1>2, ComposedFits

(* The invariant of the feeder gives FeederFits.                           *)
LEMMA FeederIInvFits ==
  ASSUME FeederIInv
  PROVE  FeederFits
<1> SUFFICES ASSUME own.error = "none"
             PROVE  NothingDropped /\ Fits(AllBars, used, Duration, 0)
  BY DEF FeederFits
<1>1. /\ Fed(own, Completed, used, old_start_time) /\ NothingDropped
      /\ delivered \in Seq(Bar) /\ unread_data \in Seq(Bar)
  BY DEF FeederIInv
<1>2. CASE own.bars = <<>> /\ used = {} /\ Completed = <<>>
  <2>1. ~running(own)
    BY <1>2 DEF running
  <2>2. AllBars = <<>>
    BY <1>1, <1>2, <2>1, ConcatAssociative, ConcatEmptySeq DEF AllBars, Completed
  <2> QED BY <1>1, <1>2, <2>2, NothingFits, Sizes
<1>3. CASE Composes(own, Completed, used, old_start_time)
  <2>1. PICK b \in Bar : own.bars = <<b>> /\ Composing(Completed, b, used, Duration, 0)
    BY <1>3 DEF Composes
  <2>2. running(own) /\ reset_answer(own) = Rest(b)
    <3>1. composing_bar(own) = b /\ Front(<<b>>) = <<>>
      BY <2>1 DEF composing_bar, Last, Front
    <3> QED BY <2>1, <3>1 DEF running, reset_answer, Rest
  <2>3. AllBars = Completed \o Rest(b)
    <3>1. Rest(b) \in Seq(Bar)
      BY RestSeq
    <3> QED BY <1>1, <2>2, <3>1, ConcatAssociative DEF AllBars, Completed
  <2>4. Composed(AllBars, used, Duration, 0) /\ Data(used)
    BY <1>1, <2>1, <2>3 DEF Composing, Fed
  <2>5. Fits(AllBars, used, Duration, 0)
    BY <2>4, ComposedFits, Sizes
  <2> QED BY <1>1, <2>5
<1> QED BY <1>1, <1>2, <1>3 DEF Fed

(* Over reset days, holes and the switch from the database to the live     *)
(* feed, the feeder's bars are what it was given, told once (__iter__ of   *)
(* ComposingDatabarFeeder), when a bar of the database is a whole number   *)
(* of live bars.                                                           *)
THEOREM FeederComposes ==
  ASSUME HistorySize % LiveSize = 0
  PROVE  Spec => []FeederFits
<1>1. Init => FeederIInv
  BY FeederInitially
<1>2. FeederIInv /\ [Next]_vars => FeederIInv'
  BY FeederInductive
<1>3. FeederIInv => FeederFits
  BY FeederIInvFits
<1> QED BY <1>1, <1>2, <1>3, PTL DEF Spec

-----------------------------------------------------------------------------
(* use() of the framework.                                                 *)
(* A set of naturals that is not empty has a least one.                    *)
LEMMA LeastOne ==
  ASSUME NEW T, T \subseteq Nat, T # {}
  PROVE  \E m \in T : \A k \in T : m <= k
<1> DEFINE R == OpToRel(<, Nat)
<1>1. IsWellFoundedOn(R, Nat)
  BY NatLessThanWellFounded
<1>2. \A x, y \in Nat : <<x, y>> \in R <=> x < y
  BY DEF OpToRel
<1> HIDE DEF R
<1>3. PICK x \in T : \A y \in T : ~(<<y, x>> \in R)
  BY <1>1, WFMin
<1>4. ASSUME NEW y \in T
      PROVE  x <= y
  <2>1. x \in Nat /\ y \in Nat /\ ~(<<y, x>> \in R)
    BY <1>3
  <2>2. ~(y < x)
    BY <1>2, <2>1
  <2> QED BY <2>1, <2>2
<1> QED BY <1>4

(* g is after[0..n] of use.                                                *)
StepsOf(g, n, s) == \A k \in 0..n : g[k] = IF k = 0 THEN s ELSE use_step(g[k - 1])

(* There is one such function.                                             *)
LEMMA StepsOne ==
  ASSUME NEW s, NEW m \in Nat, NEW n \in Nat, m <= n, NEW g, StepsOf(g, m, s), NEW h, StepsOf(h, n, s)
  PROVE  \A k \in 0..m : g[k] = h[k]
<1> DEFINE T == {k \in 0..m : g[k] # h[k]}
<1> SUFFICES ASSUME T # {}
             PROVE  FALSE
  OBVIOUS
<1>1. PICK k \in T : \A j \in T : k <= j
  <2>1. T \subseteq Nat
    OBVIOUS
  <2> HIDE DEF T
  <2> QED BY <2>1, LeastOne
<1>2. k \in 0..m /\ k \in 0..n /\ g[k] # h[k]
  OBVIOUS
<1>3. CASE k = 0
  BY <1>2, <1>3 DEF StepsOf
<1>4. CASE k # 0
  <2>1. k - 1 \in 0..m /\ k - 1 < k
    BY <1>2, <1>4
  <2>2. g[k - 1] = h[k - 1]
    <3>1. k - 1 \notin T
      BY <1>1, <2>1
    <3> QED BY <2>1, <3>1
  <2>3. g[k] = use_step(g[k - 1]) /\ h[k] = use_step(h[k - 1])
    BY <1>2, <1>4 DEF StepsOf
  <2> QED BY <1>2, <2>2, <2>3
<1> QED BY <1>3, <1>4

(* There is such a function for every number of steps.                     *)
LEMMA StepsExist ==
  ASSUME NEW s, NEW n \in Nat
  PROVE  \E g : StepsOf(g, n, s)
<1> DEFINE T == {k \in Nat : ~\E g : StepsOf(g, k, s)}
<1> SUFFICES ASSUME T # {}
             PROVE  FALSE
  OBVIOUS
<1>1. PICK k \in T : \A j \in T : k <= j
  <2>1. T \subseteq Nat
    OBVIOUS
  <2> HIDE DEF T
  <2> QED BY <2>1, LeastOne
<1>2. k \in Nat /\ ~\E g : StepsOf(g, k, s)
  OBVIOUS
<1>3. CASE k = 0
  <2> DEFINE g == [j \in {0} |-> s]
  <2>1. \A j \in 0..0 : j = 0
    OBVIOUS
  <2>2. StepsOf(g, 0, s)
    BY <2>1 DEF StepsOf
  <2> QED BY <1>2, <1>3, <2>2
<1>4. CASE k # 0
  <2>1. k - 1 \in Nat /\ k - 1 < k /\ 0 <= k - 1
    BY <1>2, <1>4
  <2>2. k - 1 \notin T
    BY <1>1, <1>2, <2>1
  <2>3. PICK g : StepsOf(g, k - 1, s)
    BY <2>1, <2>2
  <2> DEFINE h == [j \in 0..k |-> IF j = k THEN use_step(g[k - 1]) ELSE g[j]]
  <2>4. ASSUME NEW j \in 0..k
        PROVE  h[j] = IF j = 0 THEN s ELSE use_step(h[j - 1])
    <3>1. CASE j = k
      <4>1. h[j] = use_step(g[k - 1])
        BY <3>1
      <4>2. k - 1 \in 0..k /\ k - 1 # k
        BY <2>1, <1>2
      <4>3. h[k - 1] = g[k - 1]
        BY <4>2
      <4> QED BY <1>4, <3>1, <4>1, <4>3
    <3>2. CASE j # k
      <4>1. j \in 0..k - 1
        BY <1>2, <3>2
      <4>2. g[j] = IF j = 0 THEN s ELSE use_step(g[j - 1])
        BY <2>3, <4>1 DEF StepsOf
      <4>3. h[j] = g[j]
        BY <3>2
      <4>4. CASE j = 0
        BY <4>2, <4>3, <4>4
      <4>5. CASE j # 0
        <5>1. j - 1 \in 0..k /\ j - 1 # k
          BY <1>2, <4>1, <4>5
        <5>2. h[j - 1] = g[j - 1]
          BY <5>1
        <5> QED BY <4>2, <4>3, <4>5, <5>2
      <4> QED BY <4>4, <4>5
    <3> QED BY <3>1, <3>2
  <2>5. StepsOf(h, k, s)
    <3> HIDE DEF h
    <3> QED BY <2>4 DEF StepsOf
  <2> QED BY <1>2, <2>5
<1> QED BY <1>3, <1>4

(* use is the recursion that its definition says.                          *)
LEMMA UseSteps ==
  ASSUME NEW s
  PROVE  \E f : /\ f[0] = s /\ \A k \in Nat : f[k + 1] = use_step(f[k])
                /\ \A n \in Nat : use(s, n) = f[n]
<1> DEFINE G(n) == CHOOSE g : StepsOf(g, n, s)
           f == [n \in Nat |-> G(n)[n]]
           Body(e) == [k \in Nat |-> IF k = 0 THEN s ELSE use_step(e[k - 1])]
           h == CHOOSE e : e = [k \in Nat |-> IF k = 0 THEN s ELSE use_step(e[k - 1])]
<1>1. \A n \in Nat : StepsOf(G(n), n, s)
  BY StepsExist
<1>2. ASSUME NEW k \in Nat
      PROVE  f[k] = IF k = 0 THEN s ELSE use_step(f[k - 1])
  <2> HIDE DEF G
  <2>1. f[k] = G(k)[k] /\ k \in 0..k
    OBVIOUS
  <2>2. G(k)[k] = IF k = 0 THEN s ELSE use_step(G(k)[k - 1])
    BY <1>1, <2>1 DEF StepsOf
  <2>3. CASE k = 0
    BY <2>1, <2>2, <2>3
  <2>4. CASE k # 0
    <3>1. k - 1 \in Nat /\ k - 1 <= k /\ k - 1 \in 0..k - 1
      BY <2>4
    <3>2. \A j \in 0..k - 1 : G(k - 1)[j] = G(k)[j]
      BY <1>1, <3>1, StepsOne
    <3>3. f[k - 1] = G(k)[k - 1]
      BY <3>1, <3>2
    <3> QED BY <2>1, <2>2, <2>4, <3>3
  <2> QED BY <2>3, <2>4
<1>3. f = [k \in Nat |-> IF k = 0 THEN s ELSE use_step(f[k - 1])]
  <2>1. f = [k \in Nat |-> f[k]]
    OBVIOUS
  <2> HIDE DEF f
  <2> QED BY <1>2, <2>1
<1>4. h = [k \in Nat |-> IF k = 0 THEN s ELSE use_step(h[k - 1])]
  <2> HIDE DEF f
  <2>1. \E e : e = [k \in Nat |-> IF k = 0 THEN s ELSE use_step(e[k - 1])]
    BY <1>3
  <2> QED BY <2>1
<1>5. \A n \in Nat : use(s, n) = h[n]
  BY DEF use
<1> HIDE DEF h
<1>6. h[0] = s /\ \A k \in Nat : h[k + 1] = use_step(h[k])
  <2>1. h[0] = s
    BY <1>4
  <2>2. ASSUME NEW k \in Nat
        PROVE  h[k + 1] = use_step(h[k])
    <3>1. k + 1 \in Nat /\ k + 1 # 0 /\ (k + 1) - 1 = k
      OBVIOUS
    <3>2. h[k + 1] = use_step(h[(k + 1) - 1])
      BY <1>4, <3>1
    <3> QED BY <3>1, <3>2
  <2> QED BY <2>1, <2>2
<1> QED BY <1>5, <1>6

(* Where every interval N, ..., 1 yields one bar that ends at t, step k    *)
(* takes the time of interval N - k: the innermost evaluates, once.        *)
Uses == [times : [DOMAIN Intervals -> Seq(Int)],
         loops : Seq([n : DOMAIN Intervals, t : Int]), evaluations : Int, raised : BOOLEAN]
Taken(x, k, N, t) ==
  /\ x \in Uses /\ ~x.raised
  /\ IF k >= N
     THEN x.evaluations = 1 /\ \A n \in 1..N : x.times[n] = <<>>
     ELSE /\ x.evaluations = 0 /\ x.loops # <<>>
          /\ \A n \in 1..N : x.times[n] = IF n <= N - k THEN <<t>> ELSE <<>>
          /\ Last(x.loops).n = N - k /\ Last(x.loops).t \in {None, t}

(* One step.                                                               *)
LEMMA UseStep ==
  ASSUME NEW N \in Nat \ {0}, DOMAIN Intervals = 1..N, NEW t \in Nat, NEW k \in Nat,
         NEW x, Taken(x, k, N, t)
  PROVE  Taken(use_step(x), k + 1, N, t)
<1> DEFINE L == x.loops
           n == Last(L).n
           u == Last(L).t
           outer == IF u = t THEN Front(L) ELSE L
<1>1. /\ x \in Uses /\ ~x.raised /\ x.times \in [1..N -> Seq(Int)] /\ L \in Seq([n : 1..N, t : Int])
  BY DEF Taken, Uses
<1>2. L # <<>> => Front(L) \in Seq([n : 1..N, t : Int]) /\ n \in 1..N /\ u \in Int
  <2>1. L # <<>> => Front(L) \in Seq([n : 1..N, t : Int]) /\ Last(L) \in [n : 1..N, t : Int]
    BY <1>1, FrontLast
  <2> QED BY <2>1
<1>3. CASE k >= N
  <2>1. x.evaluations = 1 /\ \A m \in 1..N : x.times[m] = <<>>
    BY <1>3 DEF Taken
  <2>2. CASE L = <<>>
    <3>1. use_step(x) = x
      BY <2>2 DEF use_step
    <3> QED BY <1>1, <1>3, <2>1, <3>1 DEF Taken
  <2>3. CASE L # <<>>
    <3>1. x.times[n] = <<>>
      BY <1>2, <2>1, <2>3
    <3>2. use_step(x) = [x EXCEPT !.loops = Front(L)]
      BY <1>1, <2>3, <3>1 DEF use_step
    <3>3. [x EXCEPT !.loops = Front(L)] \in Uses
      BY <1>1, <1>2, <2>3 DEF Uses
    <3>4. k + 1 >= N
      BY <1>3
    <3> QED BY <1>1, <2>1, <3>2, <3>3, <3>4 DEF Taken, Uses
  <2> QED BY <2>2, <2>3
<1>4. CASE k < N
  <2>1. /\ x.evaluations = 0 /\ L # <<>> /\ n = N - k /\ u \in {None, t}
        /\ \A m \in 1..N : x.times[m] = IF m <= N - k THEN <<t>> ELSE <<>>
    BY <1>4 DEF Taken
  <2>2. n \in 1..N /\ n <= N - k /\ n >= 1
    BY <1>2, <1>4, <2>1
  <2>3. x.times[n] = <<t>> /\ <<t>> # <<>> /\ Head(<<t>>) = t /\ Tail(<<t>>) = <<>>
    BY <2>1, <2>2
  <2>4. Head(x.times[n]) = t /\ x.times[n] # <<>> /\ ~(u # None /\ u < Head(x.times[n]))
    BY <2>1, <2>3
  <2> DEFINE T == [x.times EXCEPT ![n] = <<>>]
  <2>5. T \in [1..N -> Seq(Int)] /\ \A m \in 1..N : T[m] = IF m <= N - (k + 1) THEN <<t>> ELSE <<>>
    <3>1. <<>> \in Seq(Int)
      OBVIOUS
    <3>2. \A m \in 1..N : m # n => (m <= N - (k + 1) <=> m <= N - k)
      BY <2>1
    <3>3. ~(n <= N - (k + 1))
      BY <2>1
    <3> QED BY <1>1, <2>1, <2>2, <3>1, <3>2, <3>3
  <2>6. CASE n = 1
    <3>1. use_step(x) = [x EXCEPT !.times = T, !.evaluations = 1]
      <4>1. use_step(x) = [x EXCEPT !.times[n] = Tail(@), !.evaluations = @ + 1]
        BY <1>1, <2>1, <2>4, <2>6 DEF use_step
      <4> QED BY <1>1, <2>1, <2>3, <4>1 DEF Uses
    <3>2. [x EXCEPT !.times = T, !.evaluations = 1] \in Uses
      <4>1. T \in [DOMAIN Intervals -> Seq(Int)]
        BY <2>5
      <4>2. x \in Uses /\ 1 \in Int
        BY <1>1
      <4> HIDE DEF T
      <4> QED BY ONLY <4>1, <4>2 DEF Uses
    <3>3. k + 1 >= N /\ \A m \in 1..N : ~(m <= N - (k + 1))
      BY <1>4, <2>1, <2>6
    <3> HIDE DEF T
    <3> QED BY <1>1, <2>5, <3>1, <3>2, <3>3 DEF Taken, Uses
  <2>7. CASE n # 1
    <3> DEFINE e == [n |-> n - 1, t |-> t]
               M == Append(outer, e)
    <3>1. use_step(x) = [x EXCEPT !.times = T, !.loops = M]
      <4>1. use_step(x) = [x EXCEPT !.times[n] = Tail(@), !.loops = M]
        BY <1>1, <2>1, <2>4, <2>7 DEF use_step
      <4> QED BY <1>1, <2>1, <2>3, <4>1 DEF Uses
    <3>2. e \in [n : 1..N, t : Int] /\ outer \in Seq([n : 1..N, t : Int])
      BY <1>1, <1>2, <2>1, <2>2, <2>7
    <3> HIDE DEF outer
    <3>3. M \in Seq([n : 1..N, t : Int]) /\ M # <<>> /\ Last(M) = e
      <4> HIDE DEF e
      <4>1. M \in Seq([n : 1..N, t : Int]) /\ Len(M) = Len(outer) + 1 /\ Len(outer) \in Nat /\ M[Len(outer) + 1] = e
        BY <3>2
      <4> QED BY <4>1 DEF Last
    <3>4. [x EXCEPT !.times = T, !.loops = M] \in Uses
      BY <1>1, <2>5, <3>3 DEF Uses
    <3>5. ~(k + 1 >= N) /\ e.n = N - (k + 1) /\ e.t = t
      BY <1>4, <2>1, <2>2, <2>7
    <3> HIDE DEF T, M, e
    <3> QED BY <1>1, <2>1, <2>5, <3>1, <3>3, <3>4, <3>5 DEF Taken, Uses
  <2> QED BY <2>6, <2>7
<1> QED BY <1>3, <1>4

(* Any number of steps.                                                    *)
LEMMA UseTaken ==
  ASSUME NEW N \in Nat \ {0}, DOMAIN Intervals = 1..N, NEW t \in Nat,
         NEW s, Taken(s, 0, N, t), NEW k \in Nat
  PROVE  Taken(use(s, k), k, N, t)
<1>1. PICK f : /\ f[0] = s /\ \A j \in Nat : f[j + 1] = use_step(f[j])
               /\ \A j \in Nat : use(s, j) = f[j]
  BY UseSteps
<1> DEFINE T == {j \in Nat : ~Taken(f[j], j, N, t)}
<1>2. T = {}
  <2> SUFFICES ASSUME T # {}
               PROVE  FALSE
    OBVIOUS
  <2>1. PICK j \in T : \A m \in T : j <= m
    <3>1. T \subseteq Nat
      OBVIOUS
    <3> HIDE DEF T
    <3> QED BY <3>1, LeastOne
  <2>2. j \in Nat /\ ~Taken(f[j], j, N, t) /\ j # 0
    BY <1>1
  <2>3. j - 1 \in Nat /\ j - 1 \notin T /\ (j - 1) + 1 = j
    BY <2>1, <2>2
  <2>4. Taken(f[j - 1], j - 1, N, t)
    BY <2>3
  <2>5. Taken(use_step(f[j - 1]), (j - 1) + 1, N, t)
    <3> HIDE DEF T
    <3> QED BY <2>3, <2>4, UseStep
  <2>6. f[(j - 1) + 1] = use_step(f[j - 1])
    BY <1>1, <2>3
  <2> QED BY <2>2, <2>3, <2>5, <2>6
<1> QED BY <1>1, <1>2

(* Every interval yields one bar, all end at t: one evaluation.            *)
LEMMA UsedOnce ==
  ASSUME NEW N \in Nat \ {0}, DOMAIN Intervals = 1..N, NEW ivs, DOMAIN ivs = 1..N, Len(ivs) = N,
         NEW bar, NEW t \in Nat, \A n \in 1..N : times(ivs, bar)[n] = <<t>>
  PROVE  used_by(ivs, bar).evaluations = 1 /\ ~used_by(ivs, bar).raised
<1> DEFINE T == times(ivs, bar)
           yielded == UNION {{n} \X DOMAIN T[n] : n \in DOMAIN ivs}
           steps == 2 * Cardinality(yielded) + 1
           s == [times |-> T, loops |-> <<[n |-> Len(ivs), t |-> None]>>,
                 evaluations |-> 0, raised |-> FALSE]
<1>1. used_by(ivs, bar) = use(s, steps)
  BY DEF used_by
<1>2. DOMAIN T = 1..N /\ T \in [1..N -> Seq(Int)]
  <2>1. T = [n \in 1..N |-> T[n]]
    BY DEF times
  <2>2. <<t>> \in Seq(Int)
    OBVIOUS
  <2> HIDE DEF T
  <2>3. \A n \in 1..N : T[n] \in Seq(Int)
    BY <2>2 DEF T
  <2> QED BY <2>1, <2>3
<1>3. yielded = {<<n, 1>> : n \in 1..N}
  <2>1. \A n \in 1..N : DOMAIN T[n] = {1}
    <3>1. DOMAIN <<t>> = {1}
      OBVIOUS
    <3> HIDE DEF T
    <3> QED BY <3>1 DEF T
  <2> HIDE DEF T
  <2> QED BY <2>1
<1>4. Cardinality(yielded) = N
  <2> DEFINE Y == {<<n, 1>> : n \in 1..N}
             f == [n \in 1..N |-> <<n, 1>>]
  <2>1. f \in Bijection(1..N, Y)
    <3>1. f \in [1..N -> Y] /\ (\A a, b \in 1..N : f[a] = f[b] => a = b) /\ \A y \in Y : \E a \in 1..N : f[a] = y
      OBVIOUS
    <3> HIDE DEF f, Y
    <3> QED BY <3>1 DEF Bijection, Injection, Surjection, IsInjective
  <2>2. IsFiniteSet(1..N) /\ Cardinality(1..N) = N
    BY FS_Interval
  <2>3. Cardinality(Y) = Cardinality(1..N)
    <3> HIDE DEF f, Y
    <3>1. ExistsBijection(1..N, Y)
      BY <2>1 DEF ExistsBijection
    <3> QED BY <2>2, <3>1, FS_Bijection
  <2> QED BY <1>3, <2>2, <2>3
<1> HIDE DEF yielded
<1>5. steps \in Nat /\ steps >= N
  BY <1>4
<1>6. Taken(s, 0, N, t)
  <2> DEFINE e == [n |-> N, t |-> None]
  <2>1. e \in [n : 1..N, t : Int] /\ e.n = N /\ e.t = None
    BY DEF None
  <2> HIDE DEF e
  <2>2. <<e>> \in Seq([n : 1..N, t : Int]) /\ <<e>> # <<>> /\ Last(<<e>>) = e
    BY <2>1 DEF Last
  <2>3. s = [times |-> T, loops |-> <<e>>, evaluations |-> 0, raised |-> FALSE]
    BY DEF e
  <2>4. \A n \in 1..N : T[n] = <<t>> /\ n <= N - 0
    OBVIOUS
  <2> HIDE DEF s, T
  <2>5. s \in Uses /\ ~s.raised /\ s.evaluations = 0 /\ s.loops = <<e>> /\ s.times = T
    BY <1>2, <2>2, <2>3 DEF Uses
  <2>6. ~(0 >= N) /\ N - 0 = N
    OBVIOUS
  <2> QED BY <2>1, <2>2, <2>4, <2>5, <2>6 DEF Taken
<1> HIDE DEF s, steps
<1>7. Taken(use(s, steps), steps, N, t)
  BY <1>5, <1>6, UseTaken
<1> QED BY <1>1, <1>5, <1>7 DEF Taken

-----------------------------------------------------------------------------
(* The intervals.                                                          *)
IntervalRecords ==
  [composer : Composers, bars : Seq(Bar), at_end_of_period : BOOLEAN,
   old_start_time : Int, ii_values : Int]

(* What an interval holds after the bars D: b is being composed, P is      *)
(* complete.                                                               *)
Held(i, P, b, D, d, at) ==
  /\ i.composer.bars = <<b>> /\ i.bars = P \o Rest(b)
  /\ Composing(P, b, Range(D), d, at)
  /\ end_time(b) = end_time(D[Len(D)])
  /\ i.old_start_time = D[Len(D)].time
  /\ i.at_end_of_period = is_zero_bar(b)
Seen(i, D, d, at) ==
  /\ i \in IntervalRecords /\ i.composer.duration = d /\ i.composer.at = at
  /\ \/ /\ D = <<>> /\ i.composer.bars = <<>> /\ i.composer.start = None
        /\ i.bars = <<>> /\ i.at_end_of_period /\ i.old_start_time = None
     \/ D # <<>> /\ \E P \in Seq(Bar), b \in Bar : Held(i, P, b, D, d, at)

(* j is the interval i after one more bar, that it yielded s for.          *)
Replaces(i, j, s, d) ==
  \E P \in Seq(Bar), b \in Bar :
    /\ i.bars = P \o <<b>> /\ j.bars = P \o <<s>> /\ j.ii_values = i.ii_values - 1
    /\ b.duration < d /\ Continues(b, s)
AddsTo(i, j, s) == j.bars = i.bars \o <<s>> /\ j.ii_values = i.ii_values
Yielded(i, j, bar, D, s, d, at) ==
  /\ yields(i, bar) = <<s>> /\ s \in Bar /\ end_time(s) = end_time(bar)
  /\ Seen(j, D, d, at)
  /\ AddsTo(i, j, s) \/ Replaces(i, j, s, d)

(* A sequence with one more bar.                                           *)
LEMMA Appended ==
  ASSUME NEW D \in Seq(Bar), NEW bar \in Bar
  PROVE  /\ Append(D, bar) \in Seq(Bar) /\ Append(D, bar) # <<>>
         /\ Append(D, bar)[Len(Append(D, bar))] = bar
         /\ Range(Append(D, bar)) = Range(D) \union {bar}
<1> DEFINE E == Append(D, bar)
<1>1. /\ E \in Seq(Bar) /\ Len(E) = Len(D) + 1 /\ Len(D) \in Nat
      /\ E[Len(D) + 1] = bar /\ \A k \in 1..Len(D) : E[k] = D[k]
  OBVIOUS
<1> HIDE DEF E
<1>2. DOMAIN D = 1..Len(D) /\ DOMAIN E = 1..Len(E)
  BY <1>1
<1>3. \A k \in 1..Len(E) : k \in 1..Len(D) \/ k = Len(D) + 1
  BY <1>1
<1>4. Len(D) + 1 \in 1..Len(E) /\ \A k \in 1..Len(D) : k \in 1..Len(E)
  BY <1>1
<1>5. \A x \in Range(E) : x \in Range(D) \union {bar}
  <2>1. \A k \in 1..Len(E) : E[k] \in Range(D) \union {bar}
    BY <1>1, <1>2, <1>3 DEF Range
  <2> QED BY <1>2, <2>1 DEF Range
<1>6. \A x \in Range(D) \union {bar} : x \in Range(E)
  <2>1. bar \in Range(E)
    BY <1>1, <1>2, <1>4 DEF Range
  <2>2. \A k \in 1..Len(D) : D[k] \in Range(E)
    BY <1>1, <1>2, <1>4 DEF Range
  <2> QED BY <1>2, <2>1, <2>2 DEF Range
<1>7. E # <<>>
  BY <1>1
<1> QED BY <1>1, <1>5, <1>6, <1>7 DEF E

(* The bar was inserted into an interval prepared as p, which left the     *)
(* composer r with the bars R complete and y being composed.               *)
Takes(i, bar, p, r, R, y, s, D, d, at) ==
  /\ bar \in Bar /\ p \in IntervalRecords /\ p = prepared(i, bar)
  /\ r \in Composers /\ r = inserted(i, bar) /\ r.duration = d /\ r.at = at
  /\ R \in Seq(Bar) /\ y \in Bar /\ r.bars = R \o <<y>>
  /\ R \o Rest(y) = <<s>> /\ D \in Seq(Bar)
  /\ Composing(p.bars \o R, y, Range(Append(D, bar)), d, at) /\ end_time(y) = end_time(bar)
Shown(i, bar, p, s, D, d, at) ==
  /\ yields(i, bar) = <<s>> /\ s \in Bar
  /\ Seen(after_bar(i, bar), Append(D, bar), d, at)
  /\ after_bar(i, bar).bars = p.bars \o <<s>> /\ after_bar(i, bar).ii_values = p.ii_values

(* The interval after such a bar.                                          *)
LEMMA IntervalAfter ==
  ASSUME NEW i, NEW bar, NEW p, NEW r, NEW R, NEW y, NEW s, NEW D, NEW d, NEW at,
         Takes(i, bar, p, r, R, y, s, D, d, at)
  PROVE  Shown(i, bar, p, s, D, d, at)
<1>0. /\ bar \in Bar /\ p \in IntervalRecords /\ p = prepared(i, bar)
      /\ r \in Composers /\ r = inserted(i, bar) /\ r.duration = d /\ r.at = at
      /\ R \in Seq(Bar) /\ y \in Bar /\ r.bars = R \o <<y>>
      /\ R \o Rest(y) = <<s>> /\ D \in Seq(Bar)
      /\ Composing(p.bars \o R, y, Range(Append(D, bar)), d, at) /\ end_time(y) = end_time(bar)
  BY DEF Takes
<1> USE <1>0
<1> DEFINE j == after_bar(i, bar)
           E == Append(D, bar)
<1>1. /\ popped(r) = [r EXCEPT !.bars = <<y>>] /\ complete_bars(r) = R
      /\ composing_bar(r) = y
  BY Popped, FrontAdded DEF composing_bar
<1>2. unfinished(r) = Rest(y) /\ Rest(y) \in Seq(Bar) /\ (Rest(y) = <<>>) = is_zero_bar(y)
  <2>1. unfinished(r) = Rest(y) /\ Rest(y) \in Seq(Bar)
    BY <1>1, RestSeq DEF unfinished, Rest
  <2>2. (Rest(y) = <<>>) <=> is_zero_bar(y)
    <3>1. <<y>> # <<>>
      OBVIOUS
    <3> QED BY <3>1 DEF Rest
  <2>3. is_zero_bar(y) \in BOOLEAN
    BY DEF is_zero_bar
  <2> QED BY <2>1, <2>2, <2>3
<1>3. yields(i, bar) = <<s>>
  BY <1>1, <1>2 DEF yields
<1>4. <<s>> \in Seq(Bar) /\ s \in Bar
  <2>1. R \o Rest(y) \in Seq(Bar)
    BY <1>2, ConcatProperties
  <2>2. <<s>> \in Seq(Bar) /\ Len(<<s>>) = 1 /\ <<s>>[1] = s
    BY <2>1
  <2> QED BY <2>2
<1>5. p.bars \in Seq(Bar) /\ (p.bars \o R) \o Rest(y) = p.bars \o <<s>>
      /\ p.bars \o R \in Seq(Bar) /\ p.bars \o <<s>> \in Seq(Bar)
  <2>1. p.bars \in Seq(Bar)
    BY DEF IntervalRecords
  <2> DEFINE Q == p.bars
             T == Rest(y)
  <2>2. Q \in Seq(Bar) /\ T \in Seq(Bar)
    BY <1>2, <2>1
  <2> HIDE DEF Q, T
  <2>3. (Q \o R) \o T = Q \o (R \o T)
    <3>1. R \in Seq(Bar)
      OBVIOUS
    <3> QED BY ONLY <2>2, <3>1, ConcatAssociative
  <2>4. Q \o R \in Seq(Bar) /\ Q \o <<s>> \in Seq(Bar)
    BY <1>4, <2>2, ConcatProperties
  <2>5. R \o T = <<s>>
    BY DEF T
  <2> QED BY <2>2, <2>3, <2>4, <2>5 DEF Q, T
<1>6. popped(r) \in Composers /\ popped(r).bars = <<y>> /\ popped(r).duration = d /\ popped(r).at = at
  <2>1. <<y>> \in Seq(Bar)
    OBVIOUS
  <2> QED BY <1>1, <2>1 DEF Composers
<1>7. j = [p EXCEPT !.composer = popped(r), !.bars = @ \o yields(i, bar),
             !.at_end_of_period = (unfinished(r) = <<>>), !.old_start_time = bar.time]
  BY DEF after_bar
<1> HIDE DEF j
<1>8. /\ j \in IntervalRecords /\ j.composer = popped(r) /\ j.bars = p.bars \o <<s>>
      /\ j.at_end_of_period = is_zero_bar(y) /\ j.old_start_time = bar.time /\ j.ii_values = p.ii_values
  <2>1. bar.time \in Int /\ is_zero_bar(y) \in BOOLEAN
    BY BarTimes DEF is_zero_bar
  <2>2. j = [p EXCEPT !.composer = popped(r), !.bars = p.bars \o <<s>>,
               !.at_end_of_period = is_zero_bar(y), !.old_start_time = bar.time]
    BY <1>2, <1>3, <1>7
  <2> QED BY <1>5, <1>6, <2>1, <2>2 DEF IntervalRecords
<1>9. E # <<>> /\ E[Len(E)] = bar
  BY Appended
<1>10. Held(j, p.bars \o R, y, E, d, at)
  BY <1>5, <1>6, <1>8, <1>9 DEF Held
<1> QED BY <1>3, <1>4, <1>5, <1>6, <1>8, <1>9, <1>10 DEF Seen, j, Shown

(* The first bar of a day in an interval.                                  *)
LEMMA IntervalStarts ==
  ASSUME NEW d \in Nat \ {0}, NEW at \in Nat, NEW D \in Seq(Bar), Data(Range(D)),
         NEW i, NEW bar, Whole(bar), NEW p \in IntervalRecords, p = prepared(i, bar),
         p.composer.bars = <<>>, p.composer.start = None, p.composer.duration = d, p.composer.at = at,
         Composed(p.bars, Range(D), d, at),
         \A x \in Range(D) : end_time(x) <= bar.time /\ Day(x.time) # Day(bar.time),
         \A k \in 1..Len(p.bars) : \E l \in Range(D) : end_time(p.bars[k]) <= end_time(l),
         inserted(i, bar) = insert_bar(p.composer, bar), inserted(i, bar).error = "none"
  PROVE  \E s : Shown(i, bar, p, s, D, d, at) /\ end_time(s) = end_time(bar)
<1> DEFINE c == p.composer
           r == inserted(i, bar)
           S == p.bars
           B == Range(D)
           C == B \union {bar}
<1>1. /\ c \in Composers /\ c.close = None /\ c.error = "none" /\ S \in Seq(Bar)
      /\ c.bars = <<>> /\ c.duration = d /\ c.start = None /\ c.at = at
  BY DEF IntervalRecords, Composers
<1>2. bar \in Bar /\ \A x \in B : Whole(x)
  BY DEF Whole, Data
<1>3. Range(Append(D, bar)) = C
  BY <1>2, Appended
<1>4. Starts(c, bar, S, C, d, at)
  <2>1. /\ Composed(S, B, d, at)
        /\ \A x \in B : end_time(x) <= bar.time /\ Day(x.time) # Day(bar.time)
        /\ \A k \in 1..Len(S) : \E l \in B : end_time(S[k]) <= end_time(l)
        /\ insert_bar(c, bar).error = "none"
    OBVIOUS
  <2> HIDE DEF c, S, B
  <2> QED BY <1>1, <1>2, <2>1, Started
<1>5. PICK start \in Nat, R \in Seq(Bar), y \in Bar :
        /\ insert_bar(c, bar) = [c EXCEPT !.start = start, !.bars = R \o <<y>>]
        /\ Composing(S \o R, y, C, d, at)
        /\ end_time(y) = end_time(bar)
        /\ R \o Rest(y) = <<StartBar(bar, start)>>
        /\ is_zero_bar(y) <=> end_time(bar) = start + d
  BY <1>4 DEF Starts
<1> DEFINE s == StartBar(bar, start)
<1>6. r = [c EXCEPT !.start = start, !.bars = R \o <<y>>]
  BY <1>5
<1> HIDE DEF c, r
<1>7. r \in Composers /\ r.duration = d /\ r.at = at /\ r.bars = R \o <<y>>
  <2>1. R \o <<y>> \in Seq(Bar) /\ start \in Int
    BY FrontAdded
  <2> QED BY <1>1, <1>6, <2>1 DEF Composers
<1>8. end_time(s) = end_time(bar)
  <2>1. /\ bar \in Bar /\ end_time(bar) \in Nat
    BY WholeTimes
  <2> DEFINE n == end_time(bar) - start
  <2>2. s.time = start /\ s.duration = n /\ n \in Int
    BY <2>1 DEF StartBar, Bar
  <2> HIDE DEF s
  <2> QED BY <2>1, <2>2 DEF end_time
<1> HIDE DEF s
<1>9. Composing(p.bars \o R, y, Range(Append(D, bar)), d, at) /\ R \o Rest(y) = <<s>>
  BY <1>3, <1>5 DEF s
<1> HIDE DEF C, B, S
<1>10. Takes(i, bar, p, r, R, y, s, D, d, at)
  <2>1. r = inserted(i, bar) /\ end_time(y) = end_time(bar)
    BY <1>5 DEF r
  <2> QED BY <1>2, <1>7, <1>9, <2>1 DEF Takes
<1> QED BY <1>8, <1>10, IntervalAfter

(* A bar of the day that is composed.                                      *)
LEMMA SameDayAligned ==
  ASSUME NEW d \in Nat \ {0}, NEW at \in Nat, NEW B, NEW P, NEW b, Composing(P, b, B, d, at),
         NEW l, Whole(l), end_time(b) = end_time(l), NEW t \in Nat, t = end_time(l),
         Day(l.time) = Day(t)
  PROVE  Day(b.time) = Day(t) /\ Aligned(b.time, d, at)
<1>1. Day(end_time(b) - 1) = Day(t)
  BY DEF Whole
<1>2. b \in Bar /\ P \in Seq(Bar) /\ Chain(P, B, d, at)
  BY ComposingFollows DEF Composing
<1>3. CASE ~is_zero_bar(b)
  <2>1. Aligned(b.time, d, at) /\ Whole(b)
    BY <1>3, ComposingFollows DEF Good
  <2> QED BY <1>1, <2>1 DEF Whole
<1>4. CASE is_zero_bar(b)
  <2> DEFINE e == P[Len(P)]
             u == e.time
  <2>1. P # <<>> /\ e.duration = d /\ b = zero_bar(end_time(e), e.close)
    BY <1>4 DEF Composing
  <2>2. Len(P) \in 1..Len(P)
    BY <1>2, <2>1, EmptySeq
  <2>3. Whole(e) /\ Aligned(u, d, at)
    BY <1>2, <2>2 DEF Chain, Good
  <2>4. b.time = end_time(e) /\ b.duration = 0
    BY <2>1 DEF zero_bar
  <2> HIDE DEF e
  <2>5. e \in Bar /\ u \in Int /\ end_time(e) = u + d /\ end_time(e) \in Nat
    BY <2>1, <2>3, BarTimes DEF Whole
  <2>6. b.time = t
    <3>1. end_time(b) = b.time + 0
      BY <2>4 DEF end_time
    <3> QED BY <2>4, <2>5, <3>1
  <2>7. Day(u) = Day(t)
    BY <1>1, <2>3, <2>4, <2>6 DEF Whole
  <2>8. Aligned(u + d * 1, d, at)
    <3>1. d * 1 = d /\ u + d * 1 = t
      BY <2>4, <2>5, <2>6
    <3>2. Day(u) = Day(u + d * 1) /\ 1 \in Int /\ at \in Int
      BY <2>7, <3>1
    <3> HIDE DEF u
    <3> QED BY <2>3, <2>5, <3>2, AlignedSum
  <2>9. u + d * 1 = b.time
    BY <2>4, <2>5
  <2> QED BY <2>6, <2>8, <2>9
<1> QED BY <1>3, <1>4

(* No bar ends later than the one that is composed.                        *)
LEMMA EndsWithin ==
  ASSUME NEW d, NEW at, NEW B, NEW P, NEW b, Composing(P, b, B, d, at)
  PROVE  \A k \in 1..Len(P \o Rest(b)) : end_time((P \o Rest(b))[k]) <= end_time(b)
<1> DEFINE S == P \o Rest(b)
<1>0. P \in Seq(Bar) /\ b \in Bar /\ Rest(b) \in Seq(Bar)
  BY RestSeq DEF Composing
<1>1. b.time \in Nat /\ end_time(b) \in Nat /\ b.time <= end_time(b)
  <2>1. b.time \in Nat /\ b.duration \in Nat /\ end_time(b) = b.time + b.duration
    BY <1>0, BarTimes
  <2> QED BY <2>1
<1> SUFFICES ASSUME NEW k \in 1..Len(S)
             PROVE  end_time(S[k]) <= end_time(b)
  OBVIOUS
<1>2. CASE k \in 1..Len(P)
  <2>1. S[k] = P[k] /\ P[k] \in Bar /\ end_time(P[k]) <= b.time
    BY <1>0, <1>2, Parts, ComposingFollows
  <2>2. end_time(P[k]) \in Nat
    BY <2>1, BarTimes
  <2> QED BY <1>1, <2>1, <2>2
<1>3. CASE \E m \in 1..Len(Rest(b)) : k = Len(P) + m
  <2>1. PICK m \in 1..Len(Rest(b)) : k = Len(P) + m
    BY <1>3
  <2>2. S[k] = Rest(b)[m]
    BY <1>0, <2>1, Parts
  <2>3. CASE is_zero_bar(b)
    BY <2>1, <2>3 DEF Rest
  <2>4. CASE ~is_zero_bar(b)
    <3>1. Rest(b) = <<b>> /\ Len(<<b>>) = 1 /\ <<b>>[1] = b
      BY <2>4 DEF Rest
    <3>2. m = 1
      BY <2>1, <3>1
    <3> QED BY <1>1, <2>2, <3>1, <3>2
  <2> QED BY <2>3, <2>4
<1> QED BY <1>0, <1>2, <1>3, Parts

(* What the next bar does to an interval.                                  *)
TakesOne(i, bar, D, d, at) ==
  \E s : Yielded(i, after_bar(i, bar), bar, Append(D, bar), s, d, at)

(* prepared, on a day that goes on: the unfinished bar is taken off.       *)
LEMMA PreparedSame ==
  ASSUME NEW i \in IntervalRecords, NEW P \in Seq(Bar), NEW b \in Bar, i.bars = P \o Rest(b),
         i.at_end_of_period = is_zero_bar(b), NEW bar, SameDay(i, bar)
  PROVE  LET p == prepared(i, bar)
         IN /\ p \in IntervalRecords /\ p.composer = i.composer /\ p.bars = P
            /\ IF is_zero_bar(b) THEN p = i ELSE p.ii_values = i.ii_values - 1
<1> DEFINE p == prepared(i, bar)
<1>1. ~NewDate(i, bar)
  BY DEF NewDate, SameDay
<1>2. CASE is_zero_bar(b)
  <2>1. p = i
    BY <1>1, <1>2 DEF prepared
  <2>2. P \o <<>> = P
    OBVIOUS
  <2>3. i.bars = P
    BY <1>2, <2>2 DEF Rest
  <2> QED BY <1>2, <2>1, <2>3
<1>3. CASE ~is_zero_bar(b)
  <2>1. p = remove_temp_results(i)
    <3>1. ~i.at_end_of_period /\ SameDay(i, bar)
      BY <1>3
    <3> QED BY <1>1, <3>1 DEF prepared
  <2>2. i.bars = P \o <<b>> /\ Front(P \o <<b>>) = P
    BY <1>3, FrontAdded DEF Rest
  <2>3. p = [i EXCEPT !.bars = P, !.ii_values = i.ii_values - 1]
    BY <2>1, <2>2 DEF remove_temp_results
  <2>4. i.ii_values - 1 \in Int
    BY DEF IntervalRecords
  <2> QED BY <1>3, <2>3, <2>4 DEF IntervalRecords
<1> QED BY <1>2, <1>3

(* When new_bar did not raise, the bar was inserted.                       *)
LEMMA Inserted ==
  ASSUME NEW i, NEW bar, NEW p \in IntervalRecords, p = prepared(i, bar),
         inserted(i, bar).error = "none"
  PROVE  inserted(i, bar) = insert_bar(p.composer, bar)
<1>1. p.composer \in Composers /\ "NameError" # "none"
  BY DEF IntervalRecords
<1>2. Raise(p.composer, "NameError").error # "none"
  BY <1>1, RaisesAnError
<1> QED BY <1>2 DEF inserted

(* A bar that is added to another continues it.                            *)
LEMMA SumContinues ==
  ASSUME NEW b \in Bar, ~is_zero_bar(b), NEW bar, Whole(bar), bar.time = end_time(b)
  PROVE  Continues(b, Added(b, bar))
<1> DEFINE s == Added(b, bar)
<1>1. s = Sum(b, bar)
  BY DEF Added
<1>2. s.time = b.time /\ s.open = b.open /\ s.parts = b.parts \union bar.parts
  BY <1>1 DEF Sum, Bar
<1>3. /\ s \in Bar /\ s.time = b.time /\ end_time(s) = end_time(bar)
      /\ s.duration > 0 /\ end_time(b) < end_time(s) /\ end_time(s) = s.time + s.duration
      /\ s.duration \in Nat /\ s.time \in Nat
  BY AddedBar
<1>4. b.time \in Nat /\ b.duration \in Nat /\ end_time(b) = b.time + b.duration
  BY BarTimes
<1> HIDE DEF s
<1>5. s.duration > b.duration
  BY <1>3, <1>4
<1> QED BY <1>2, <1>5 DEF Continues, s

(* The first bar of all.                                                   *)
LEMMA IntervalFirst ==
  ASSUME NEW d \in Nat \ {0}, NEW at \in Nat, NEW i, Seen(i, <<>>, d, at),
         NEW bar, Whole(bar), inserted(i, bar).error = "none"
  PROVE  TakesOne(i, bar, <<>>, d, at)
<1> DEFINE D == <<>>
<1>1. /\ i \in IntervalRecords /\ i.composer.duration = d /\ i.composer.at = at
      /\ i.composer.bars = <<>> /\ i.composer.start = None
      /\ i.bars = <<>> /\ i.old_start_time = None
  BY DEF Seen
<1>2. prepared(i, bar) = i
  BY <1>1 DEF prepared, SameDay, NewDate
<1>3. inserted(i, bar) = insert_bar(i.composer, bar)
  BY <1>1, <1>2, Inserted
<1>4. D \in Seq(Bar) /\ Range(D) = {} /\ Len(i.bars) = 0 /\ \A k \in 1..0 : FALSE
  BY <1>1 DEF Range
<1>5. Data(Range(D)) /\ Composed(i.bars, Range(D), d, at)
  BY <1>1, <1>4 DEF Data, Composed, Chain, Filled
<1>6. \A x \in Range(D) : end_time(x) <= bar.time /\ Day(x.time) # Day(bar.time)
  BY <1>4
<1>7. \A k \in 1..Len(i.bars) : \E l \in Range(D) : end_time(i.bars[k]) <= end_time(l)
  BY <1>4
<1>8. PICK s : Shown(i, bar, i, s, D, d, at) /\ end_time(s) = end_time(bar)
  <2>1. i \in IntervalRecords /\ i = prepared(i, bar) /\ D \in Seq(Bar) /\ Data(Range(D))
    BY <1>1, <1>2, <1>4, <1>5
  <2>2. inserted(i, bar).error = "none" /\ Whole(bar)
    OBVIOUS
  <2> HIDE DEF D
  <2> QED BY <1>1, <1>3, <1>5, <1>6, <1>7, <2>1, <2>2, IntervalStarts
<1> QED BY <1>8 DEF Shown, TakesOne, Yielded, AddsTo

(* A bar of another day.                                                   *)
LEMMA IntervalOtherDay ==
  ASSUME NEW d \in Nat \ {0}, NEW at \in Nat, NEW D \in Seq(Bar), D # <<>>, Data(Range(D)),
         NEW i, Seen(i, D, d, at), NEW bar, Whole(bar), inserted(i, bar).error = "none",
         \A x \in Range(D) : end_time(x) <= bar.time, NewDate(i, bar)
  PROVE  TakesOne(i, bar, D, d, at)
<1> DEFINE B == Range(D)
           l == D[Len(D)]
           p == prepared(i, bar)
           t == bar.time
<1>1. PICK P \in Seq(Bar), b \in Bar : Held(i, P, b, D, d, at)
  BY DEF Seen
<1>2. /\ i \in IntervalRecords /\ i.composer.duration = d /\ i.composer.at = at
      /\ i.bars = P \o Rest(b) /\ Composing(P, b, B, d, at) /\ end_time(b) = end_time(l)
      /\ i.old_start_time = l.time
  BY <1>1 DEF Seen, Held
<1>3. l \in B
  <2>1. Len(D) \in DOMAIN D
    OBVIOUS
  <2> QED BY <2>1 DEF Range
<1>4. Whole(l) /\ l.time \in Nat /\ t \in Nat /\ l.time <= t /\ Day(l.time) # Day(t)
  <2>1. Whole(l) /\ end_time(l) <= t
    BY <1>3 DEF Data
  <2>2. Day(l.time) # Day(t)
    BY <1>2 DEF NewDate
  <2> HIDE DEF l, t
  <2>3. l.time \in Nat /\ end_time(l) \in Nat /\ l.time < end_time(l) /\ t \in Nat
    BY <2>1, WholeTimes DEF t
  <2> QED BY <2>1, <2>2, <2>3
<1>5. \A x \in B : end_time(x) <= t /\ Day(x.time) # Day(t)
  <2>1. \A x \in B : end_time(x) <= end_time(l)
    BY <1>2 DEF Composing
  <2>2. Data(B)
    OBVIOUS
  <2> HIDE DEF B, l, t
  <2> QED BY <1>3, <1>4, <2>1, <2>2, OtherDay
<1>6. p = [i EXCEPT !.composer = reset_composer(i.composer), !.at_end_of_period = TRUE]
  <2>1. ~SameDay(i, bar)
    BY DEF NewDate, SameDay
  <2> QED BY <2>1 DEF prepared
<1>7. /\ p \in IntervalRecords /\ p.bars = i.bars /\ p.ii_values = i.ii_values
      /\ p.composer.bars = <<>> /\ p.composer.start = None
      /\ p.composer.duration = d /\ p.composer.at = at
  <2>1. i.composer \in Composers /\ <<>> \in Seq(Bar) /\ None \in Int
    BY <1>2 DEF IntervalRecords, None
  <2> DEFINE c == reset_composer(i.composer)
  <2>2. c \in Composers /\ c.bars = <<>> /\ c.start = None /\ c.duration = d /\ c.at = at
    BY <1>2, <2>1 DEF reset_composer, Composers
  <2> HIDE DEF c
  <2>3. p = [i EXCEPT !.composer = c, !.at_end_of_period = TRUE]
    BY <1>6 DEF c
  <2> HIDE DEF p
  <2> QED BY <1>2, <2>2, <2>3 DEF IntervalRecords
<1>8. Composed(p.bars, B, d, at)
  BY <1>2, <1>7 DEF Composing
<1>9. \A k \in 1..Len(p.bars) : \E x \in B : end_time(p.bars[k]) <= end_time(x)
  <2>1. \A k \in 1..Len(P \o Rest(b)) : end_time((P \o Rest(b))[k]) <= end_time(l)
    BY <1>2, EndsWithin
  <2> QED BY <1>2, <1>3, <1>7, <2>1
<1>10. inserted(i, bar) = insert_bar(p.composer, bar)
  BY <1>7, Inserted
<1>11. PICK s : Shown(i, bar, p, s, D, d, at) /\ end_time(s) = end_time(bar)
  <2>1. p = prepared(i, bar)
    OBVIOUS
  <2> HIDE DEF p
  <2> QED BY <1>5, <1>7, <1>8, <1>9, <1>10, <2>1, IntervalStarts
<1> HIDE DEF p
<1> QED BY <1>7, <1>11 DEF Shown, TakesOne, Yielded, AddsTo

(* A bar of the same day.                                                  *)
LEMMA IntervalSameDay ==
  ASSUME NEW d \in Nat \ {0}, NEW at \in Nat, NEW D \in Seq(Bar), D # <<>>, Data(Range(D)),
         NEW i, Seen(i, D, d, at), NEW bar, Whole(bar), inserted(i, bar).error = "none",
         bar.time = end_time(D[Len(D)]), SameDay(i, bar)
  PROVE  TakesOne(i, bar, D, d, at)
<1> DEFINE B == Range(D)
           l == D[Len(D)]
           p == prepared(i, bar)
           t == bar.time
           c == i.composer
           r == inserted(i, bar)
<1>1. PICK P \in Seq(Bar), b \in Bar : Held(i, P, b, D, d, at)
  BY DEF Seen
<1>2. /\ i \in IntervalRecords /\ i.composer.duration = d /\ i.composer.at = at
      /\ i.composer.bars = <<b>>
      /\ i.bars = P \o Rest(b) /\ Composing(P, b, B, d, at) /\ end_time(b) = end_time(l)
      /\ i.old_start_time = l.time /\ i.at_end_of_period = is_zero_bar(b)
  BY <1>1 DEF Seen, Held
<1>3. l \in B
  <2>1. Len(D) \in DOMAIN D
    OBVIOUS
  <2> QED BY <2>1 DEF Range
<1>4. Whole(l) /\ t \in Nat /\ t = end_time(l) /\ Day(l.time) = Day(t) /\ \A x \in B : Whole(x)
  BY <1>2, <1>3, WholeTimes DEF Data, SameDay
<1>5. Day(b.time) = Day(t) /\ Aligned(b.time, d, at)
  <2> HIDE DEF B, l, t
  <2> QED BY <1>2, <1>4, SameDayAligned
<1>6. /\ p \in IntervalRecords /\ p.composer = c /\ p.bars = P
      /\ IF is_zero_bar(b) THEN p = i ELSE p.ii_values = i.ii_values - 1
  BY <1>2, PreparedSame
<1>7. r = insert_bar_in_running_composer(c, bar) /\ c \in Composers
  <2>1. r = insert_bar(c, bar)
    BY <1>6, Inserted
  <2>2. c \in Composers /\ running(c) /\ c.error = "none"
    BY <1>2 DEF running, IntervalRecords, Composers
  <2> QED BY <2>1, <2>2 DEF insert_bar
<1>8. PICK R \in Seq(Bar), y \in Bar :
        /\ Becomes(c, r, P, R, y, bar, B \union {bar}, d, at)
        /\ R \o Rest(y) = <<Added(b, bar)>>
  <2>1. /\ c.bars = <<b>> /\ c.duration = d /\ insert_bar_in_running_composer(c, bar).error = "none"
        /\ bar.time = end_time(b) /\ Day(bar.time) = Day(b.time) /\ at \in Int
    BY <1>2, <1>3, <1>4, <1>5, <1>7
  <2>2. \/ is_zero_bar(b) /\ bar.time = end_time(b)
        \/ \E f \in B : Day(f.time) = Day(b.time)
    BY <1>3, <1>4, <1>5
  <2>3. P \in Seq(Bar) /\ b \in Bar /\ Composing(P, b, B, d, at) /\ Aligned(b.time, d, at)
        /\ (\A x \in B : Whole(x)) /\ c \in Composers
    BY <1>2, <1>4, <1>5, <1>7
  <2> HIDE DEF B, c, r
  <2>4. Runs(c, bar, P, b, B \union {bar}, d, at)
    BY <2>1, <2>2, <2>3, Running
  <2> QED BY <1>7, <2>1, <2>4 DEF Runs
<1> DEFINE s == Added(b, bar)
<1>9. Takes(i, bar, p, r, R, y, s, D, d, at)
  <2>1. r = [c EXCEPT !.bars = R \o <<y>>] /\ Composing(P \o R, y, B \union {bar}, d, at)
        /\ end_time(y) = end_time(bar)
    BY <1>8 DEF Becomes
  <2>2. r \in Composers /\ r.duration = d /\ r.at = at /\ r.bars = R \o <<y>>
    <3>1. R \o <<y>> \in Seq(Bar)
      BY FrontAdded
    <3> QED BY <1>2, <1>7, <2>1, <3>1 DEF Composers
  <2>3. bar \in Bar /\ Range(Append(D, bar)) = B \union {bar}
    BY Appended DEF Whole
  <2>4. p = prepared(i, bar) /\ r = inserted(i, bar) /\ R \o Rest(y) = <<s>>
    BY <1>8
  <2> HIDE DEF p, r, s, B
  <2>5. Composing(p.bars \o R, y, Range(Append(D, bar)), d, at)
    BY <1>6, <2>1, <2>3
  <2> QED BY <1>6, <2>1, <2>2, <2>3, <2>4, <2>5 DEF Takes
<1>10. Shown(i, bar, p, s, D, d, at)
  BY <1>9, IntervalAfter
<1>11. end_time(s) = end_time(bar)
  BY <1>2, <1>4, AddedBar
<1>12. AddsTo(i, after_bar(i, bar), s) \/ Replaces(i, after_bar(i, bar), s, d)
  <2>1. CASE is_zero_bar(b)
    BY <1>6, <1>10, <2>1 DEF Shown, AddsTo
  <2>2. CASE ~is_zero_bar(b)
    <3>1. Continues(b, s)
      BY <1>2, <1>4, <2>2, SumContinues
    <3>2. b.duration < d /\ i.bars = P \o <<b>>
      BY <1>2, <2>2 DEF Composing, Rest
    <3> HIDE DEF s, p
    <3> QED BY <1>6, <1>10, <2>2, <3>1, <3>2 DEF Shown, Replaces
  <2> QED BY <2>1, <2>2
<1> HIDE DEF s, p
<1> QED BY <1>10, <1>11, <1>12 DEF Shown, TakesOne, Yielded

(* Whatever the next bar is, an interval that takes it yields one bar.     *)
LEMMA IntervalTakes ==
  ASSUME NEW d \in Nat \ {0}, NEW at \in Nat, NEW D \in Seq(Bar), Data(Range(D)),
         NEW i, Seen(i, D, d, at), NEW bar, Whole(bar), inserted(i, bar).error = "none",
         \A x \in Range(D) : end_time(x) <= bar.time,
         D # <<>> /\ Day(D[Len(D)].time) = Day(bar.time) => bar.time = end_time(D[Len(D)])
  PROVE  TakesOne(i, bar, D, d, at)
<1>1. CASE D = <<>>
  BY <1>1, IntervalFirst
<1>2. CASE D # <<>>
  <2>1. i.old_start_time = D[Len(D)].time
    BY <1>2 DEF Seen, Held
  <2>2. D[Len(D)] \in Bar
    BY <1>2
  <2>3. i.old_start_time # None
    BY <2>1, <2>2, BarTimes DEF None
  <2>4. NewDate(i, bar) \/ SameDay(i, bar)
    BY <2>3 DEF NewDate, SameDay
  <2>5. SameDay(i, bar) => bar.time = end_time(D[Len(D)])
    BY <1>2, <2>1 DEF SameDay
  <2> QED BY <1>2, <2>4, <2>5, IntervalOtherDay, IntervalSameDay
<1> QED BY <1>1, <1>2

(* What the assumption on the constants says of the intervals.             *)
LEMMA IntervalsOf ==
  /\ Len(Intervals) \in Nat \ {0} /\ DOMAIN Intervals = 1..Len(Intervals)
  /\ \A n \in DOMAIN Intervals :
       /\ Intervals[n].duration \in Nat \ {0} /\ Intervals[n].at \in 0..DayLength - 1
       /\ Intervals[n].at \in Nat /\ Intervals[n].duration % Duration = 0
<1>1. /\ Intervals \in Seq([duration : Nat \ {0}, at : 0..DayLength - 1]) /\ Intervals # <<>>
      /\ \A n \in DOMAIN Intervals : Intervals[n].duration % Duration = 0
  BY FeederAssumption
<1>2. Len(Intervals) \in Nat \ {0} /\ DOMAIN Intervals = 1..Len(Intervals)
  BY <1>1, EmptySeq
<1>3. \A n \in DOMAIN Intervals : Intervals[n] \in [duration : Nat \ {0}, at : 0..DayLength - 1]
  <2> DEFINE T == [duration : Nat \ {0}, at : 0..DayLength - 1]
  <2>1. Intervals \in Seq(T)
    BY <1>1
  <2> HIDE DEF T
  <2>2. \A n \in 1..Len(Intervals) : Intervals[n] \in T
    BY <2>1
  <2> QED BY <1>2, <2>2 DEF T
<1>4. 0..DayLength - 1 \subseteq Nat
  BY Days
<1> QED BY <1>1, <1>2, <1>3, <1>4

(* The inductive invariant of the intervals.                               *)
IntervalsInv ==
  ~raised =>
    /\ delivered \in Seq(Bar) /\ Data(Range(delivered))
    /\ intervals \in Seq(IntervalRecords) /\ DOMAIN intervals = DOMAIN Intervals
    /\ Len(intervals) = Len(Intervals)
    /\ \A n \in DOMAIN Intervals :
         /\ Seen(intervals[n], delivered, Intervals[n].duration, Intervals[n].at)
         /\ intervals[n].ii_values = Len(intervals[n].bars)

(* A bar that the feeder gives after the bars D.                           *)
NextOf(D, bar) ==
  /\ D \in Seq(Bar) /\ Whole(bar) /\ bar.duration <= Duration /\ Aligned(bar.time, Duration, 0)
  /\ \A x \in Range(D) : end_time(x) <= bar.time /\ Aligned(x.time, Duration, 0)
  /\ D # <<>> => Follows(D[Len(D)], bar, Duration)

(* A bar that waits follows those that were delivered.                     *)
LEMMA FeederGives ==
  ASSUME FeederIInv, unread_data # <<>>
  PROVE  own.error = "none" /\ NextOf(delivered, Head(unread_data))
<1> DEFINE bar == Head(unread_data)
           D == delivered
           S == Completed
<1>1. /\ own.error = "none" /\ Fed(own, S, used, old_start_time)
      /\ D \in Seq(Bar) /\ unread_data \in Seq(Bar)
  BY DEF FeederIInv
<1>2. /\ S \in Seq(Bar) /\ Len(S) = Len(D) + Len(unread_data) /\ Len(D) \in Nat /\ Len(unread_data) \in Nat \ {0}
      /\ (\A i \in 1..Len(D) : S[i] = D[i]) /\ S[Len(D) + 1] = bar
  <2>1. Len(unread_data) \in Nat \ {0} /\ bar = unread_data[1]
    BY <1>1
  <2>2. 1 \in 1..Len(unread_data)
    BY <2>1
  <2> QED BY <1>1, <2>1, <2>2, Parts DEF Completed
<1>3. S # <<>>
  BY <1>2
<1>4. Chain(S, used, Duration, 0)
  <2>1. PICK b \in Bar : Composing(S, b, used, Duration, 0)
    BY <1>1, <1>3 DEF Fed, Composes
  <2> QED BY <2>1, ComposingFollows
<1> HIDE DEF S, bar, D
<1>5. Len(D) + 1 \in 1..Len(S) /\ \A i \in 1..Len(D) : i \in 1..Len(S) /\ i < Len(D) + 1
  BY <1>2
<1>6. Whole(bar) /\ bar.duration <= Duration /\ Aligned(bar.time, Duration, 0)
  BY <1>2, <1>4, <1>5 DEF Chain, Good
<1>7. \A i \in 1..Len(D) : end_time(D[i]) <= bar.time /\ Aligned(D[i].time, Duration, 0)
  BY <1>2, <1>4, <1>5 DEF Chain
<1>8. \A x \in Range(D) : end_time(x) <= bar.time /\ Aligned(x.time, Duration, 0)
  BY <1>1, <1>7 DEF Range
<1>9. D # <<>> => Follows(D[Len(D)], bar, Duration)
  <2> SUFFICES ASSUME D # <<>>
               PROVE  Follows(D[Len(D)], bar, Duration)
    OBVIOUS
  <2>1. Len(D) \in 1..Len(D)
    BY <1>1, EmptySeq
  <2>2. Len(D) \in 1..Len(S) - 1
    BY <1>2, <2>1
  <2> QED BY <1>2, <1>4, <2>1, <2>2 DEF Chain
<1> QED BY <1>1, <1>6, <1>8, <1>9 DEF NextOf, bar, D

(* When no interval raises, each yields one bar, and there is one          *)
(* evaluation.                                                             *)
LEMMA AllTake ==
  ASSUME IntervalsInv, ~raised, NEW bar, NextOf(delivered, bar),
         \A n \in DOMAIN Intervals : inserted(intervals[n], bar).error = "none"
  PROVE  /\ \A n \in DOMAIN Intervals :
              TakesOne(intervals[n], bar, delivered, Intervals[n].duration, Intervals[n].at)
         /\ used_by(intervals, bar).evaluations = 1 /\ ~used_by(intervals, bar).raised
<1> DEFINE N == Len(Intervals)
           t == end_time(bar)
<1>1. /\ delivered \in Seq(Bar) /\ Data(Range(delivered)) /\ Whole(bar)
      /\ \A x \in Range(delivered) : end_time(x) <= bar.time
  BY DEF IntervalsInv, NextOf
<1>2. delivered # <<>> /\ Day(delivered[Len(delivered)].time) = Day(bar.time)
        => bar.time = end_time(delivered[Len(delivered)])
  BY DEF NextOf, Follows
<1>3. ASSUME NEW n \in DOMAIN Intervals
      PROVE  TakesOne(intervals[n], bar, delivered, Intervals[n].duration, Intervals[n].at)
  <2>1. /\ Seen(intervals[n], delivered, Intervals[n].duration, Intervals[n].at)
        /\ Intervals[n].duration \in Nat \ {0} /\ Intervals[n].at \in Nat
        /\ inserted(intervals[n], bar).error = "none"
    BY <1>3, IntervalsOf DEF IntervalsInv
  <2> QED BY <1>1, <1>2, <2>1, IntervalTakes
<1>4. ASSUME NEW n \in 1..N
      PROVE  times(intervals, bar)[n] = <<t>>
  <2>1. n \in DOMAIN intervals /\ n \in DOMAIN Intervals
    BY <1>4, IntervalsOf DEF IntervalsInv
  <2>2. PICK s : yields(intervals[n], bar) = <<s>> /\ end_time(s) = t
    BY <1>3, <2>1 DEF TakesOne, Yielded
  <2>3. times(intervals, bar)[n] = [k \in DOMAIN <<s>> |-> end_time(<<s>>[k])]
    BY <2>1, <2>2 DEF times
  <2>4. DOMAIN <<s>> = 1..1 /\ <<s>>[1] = s
    OBVIOUS
  <2>5. [k \in DOMAIN <<s>> |-> end_time(<<s>>[k])] = [k \in 1..1 |-> t]
    BY <2>2, <2>4
  <2>6. [k \in 1..1 |-> t] = <<t>>
    OBVIOUS
  <2> QED BY <2>3, <2>5, <2>6
<1>5. used_by(intervals, bar).evaluations = 1 /\ ~used_by(intervals, bar).raised
  <2>1. t \in Nat
    BY <1>1, WholeTimes
  <2>2. N \in Nat \ {0} /\ DOMAIN Intervals = 1..N /\ DOMAIN intervals = 1..N /\ Len(intervals) = N
    BY IntervalsOf DEF IntervalsInv
  <2> HIDE DEF N, t
  <2> QED BY <1>4, <2>1, <2>2, UsedOnce
<1> QED BY <1>3, <1>5

Evaluated(j) == [j EXCEPT !.ii_values = j.ii_values + 1]

(* ii_evaluation adds one result to every interval.                        *)
LEMMA EvaluatedAll ==
  ASSUME IntervalsInv, ~raised, NEW bar, NextOf(delivered, bar), ~Raises(intervals, bar)
  PROVE  /\ ii_evaluation(intervals, bar) \in Seq(IntervalRecords)
         /\ DOMAIN ii_evaluation(intervals, bar) = DOMAIN Intervals
         /\ Len(ii_evaluation(intervals, bar)) = Len(Intervals)
         /\ \A n \in DOMAIN Intervals :
              LET i == intervals[n]
                  j == after_bar(i, bar)
              IN /\ ii_evaluation(intervals, bar)[n] = Evaluated(j) /\ j \in IntervalRecords
                 /\ TakesOne(i, bar, delivered, Intervals[n].duration, Intervals[n].at)
<1> DEFINE new == ii_evaluation(intervals, bar)
           A(n) == after_bar(intervals[n], bar)
           E(n) == Evaluated(A(n))
           N == Len(Intervals)
<1>1. DOMAIN intervals = DOMAIN Intervals /\ DOMAIN Intervals = 1..N /\ N \in Nat
  BY IntervalsOf DEF IntervalsInv
<1>2. \A n \in DOMAIN Intervals : inserted(intervals[n], bar).error = "none"
  BY <1>1 DEF Raises
<1>3. /\ \A n \in DOMAIN Intervals :
           TakesOne(intervals[n], bar, delivered, Intervals[n].duration, Intervals[n].at)
      /\ used_by(intervals, bar).evaluations = 1
  BY <1>2, AllTake
<1>4. \A n \in DOMAIN Intervals : A(n) \in IntervalRecords
  BY <1>3 DEF TakesOne, Yielded, Seen
<1>5. new = [n \in 1..N |-> E(n)]
  BY <1>1, <1>3 DEF ii_evaluation, Evaluated
<1>6. \A n \in 1..N : E(n) \in IntervalRecords
  <2> SUFFICES ASSUME NEW j \in IntervalRecords
               PROVE  Evaluated(j) \in IntervalRecords
    BY <1>1, <1>4
  <2>1. j.ii_values + 1 \in Int
    BY DEF IntervalRecords
  <2> QED BY <2>1 DEF IntervalRecords, Evaluated
<1> HIDE DEF new
<1>7. DOMAIN new = 1..N /\ \A n \in 1..N : new[n] = E(n)
  BY <1>5
<1>8. new \in Seq(IntervalRecords) /\ Len(new) = N
  <2> HIDE DEF E
  <2>1. new \in [1..N -> IntervalRecords]
    BY <1>5, <1>6
  <2> QED BY <1>1, <2>1, SeqDef
<1> QED BY <1>1, <1>3, <1>4, <1>7, <1>8 DEF new

OneBarMore(old, new, d) ==
  \/ \E s \in Bar : new = old \o <<s>>
  \/ \E P \in Seq(Bar), b, s \in Bar :
       /\ old = P \o <<b>> /\ new = P \o <<s>>
       /\ b.duration < d /\ Continues(b, s)

(* What becomes of one interval.                                           *)
LEMMA OneMore ==
  ASSUME NEW i \in IntervalRecords, NEW bar, NEW D, NEW d, NEW at, TakesOne(i, bar, D, d, at),
         i.ii_values = Len(i.bars),
         NEW k, k = Evaluated(after_bar(i, bar))
  PROVE  /\ Seen(k, Append(D, bar), d, at) /\ k.ii_values = Len(k.bars)
         /\ OneBarMore(i.bars, k.bars, d)
<1> DEFINE j == after_bar(i, bar)
           E == Append(D, bar)
<1>1. PICK s \in Bar : Seen(j, E, d, at) /\ (AddsTo(i, j, s) \/ Replaces(i, j, s, d))
  BY DEF TakesOne, Yielded
<1> HIDE DEF j, E
<1>2. j \in IntervalRecords /\ k = [j EXCEPT !.ii_values = j.ii_values + 1]
  BY <1>1 DEF Seen, j, Evaluated
<1>3. /\ k \in IntervalRecords /\ k.composer = j.composer /\ k.bars = j.bars
      /\ k.at_end_of_period = j.at_end_of_period /\ k.old_start_time = j.old_start_time
      /\ k.ii_values = j.ii_values + 1
  <2>1. j.ii_values + 1 \in Int
    BY <1>2 DEF IntervalRecords
  <2> QED BY <1>2, <2>1 DEF IntervalRecords
<1>4. Seen(k, E, d, at)
  <2>1. \A P, b : Held(j, P, b, E, d, at) => Held(k, P, b, E, d, at)
    BY <1>3 DEF Held
  <2> QED BY <1>1, <1>3, <2>1 DEF Seen
<1>5. i.bars \in Seq(Bar) /\ i.ii_values \in Int
  BY DEF IntervalRecords
<1>6. CASE AddsTo(i, j, s)
  <2>1. k.bars = i.bars \o <<s>> /\ j.ii_values = i.ii_values
    BY <1>3, <1>6 DEF AddsTo
  <2>2. Len(i.bars \o <<s>>) = Len(i.bars) + 1
    BY <1>5
  <2> QED BY <1>3, <1>4, <2>1, <2>2 DEF E, OneBarMore
<1>7. CASE Replaces(i, j, s, d)
  <2>1. PICK P \in Seq(Bar), b \in Bar :
          /\ i.bars = P \o <<b>> /\ j.bars = P \o <<s>> /\ j.ii_values = i.ii_values - 1
          /\ b.duration < d /\ Continues(b, s)
    BY <1>7 DEF Replaces
  <2>2. Len(P \o <<b>>) = Len(P) + 1 /\ Len(P \o <<s>>) = Len(P) + 1 /\ Len(P) \in Nat
    OBVIOUS
  <2>3. k.ii_values = Len(k.bars)
    BY <1>3, <1>5, <2>1, <2>2
  <2> QED BY <1>3, <1>4, <2>1, <2>3 DEF E, OneBarMore
<1> QED BY <1>1, <1>6, <1>7

(* Every step keeps the invariant of the intervals.                        *)
LEMMA IntervalsStep ==
  ASSUME FeederIInv, IntervalsInv, [Next]_vars
  PROVE  IntervalsInv'
<1>1. CASE UNCHANGED <<intervals, raised, delivered>>
  BY <1>1 DEF IntervalsInv
<1>2. CASE new_bar /\ ~raised'
  <2> DEFINE bar == Head(unread_data)
  <2>1. /\ ~raised /\ unread_data # <<>> /\ delivered' = Append(delivered, bar)
        /\ ~Raises(intervals, bar) /\ intervals' = ii_evaluation(intervals, bar)
    BY <1>2 DEF new_bar
  <2>2. NextOf(delivered, bar)
    BY <2>1, FeederGives
  <2> HIDE DEF bar
  <2>3. delivered \in Seq(Bar) /\ Data(Range(delivered)) /\ bar \in Bar
    BY <2>1, <2>2 DEF IntervalsInv, NextOf, Whole
  <2>4. delivered' \in Seq(Bar) /\ Data(Range(delivered'))
    <3>1. Data(Range(delivered) \union {bar})
      BY <2>2, <2>3, DataGrows DEF NextOf
    <3> QED BY <2>1, <2>3, <3>1, Appended
  <2>5. ASSUME NEW n \in DOMAIN Intervals
        PROVE  /\ Seen(intervals'[n], delivered', Intervals[n].duration, Intervals[n].at)
               /\ intervals'[n].ii_values = Len(intervals'[n].bars)
    <3> DEFINE i == intervals[n]
               j == after_bar(i, bar)
    <3>1. /\ intervals'[n] = Evaluated(j)
          /\ TakesOne(i, bar, delivered, Intervals[n].duration, Intervals[n].at)
      BY <2>1, <2>2, EvaluatedAll
    <3>2. i \in IntervalRecords /\ i.ii_values = Len(i.bars)
      BY <2>1 DEF IntervalsInv, Seen
    <3> DEFINE k == intervals'[n]
    <3>3. k = Evaluated(after_bar(i, bar))
      BY <3>1
    <3> HIDE DEF i, j, k
    <3>4. Seen(k, Append(delivered, bar), Intervals[n].duration, Intervals[n].at) /\ k.ii_values = Len(k.bars)
      BY <3>1, <3>2, <3>3, OneMore
    <3> QED BY <2>1, <3>4 DEF k
  <2>6. intervals' \in Seq(IntervalRecords) /\ DOMAIN intervals' = DOMAIN Intervals
        /\ Len(intervals') = Len(Intervals)
    BY <2>1, <2>2, EvaluatedAll
  <2> QED BY <2>4, <2>5, <2>6 DEF IntervalsInv
<1>3. CASE raised'
  BY <1>3 DEF IntervalsInv
<1> QED BY <1>1, <1>2, <1>3 DEF Next, iterate, vars

(* The invariant of the intervals holds initially.                         *)
LEMMA IntervalsInitially ==
  Init => IntervalsInv
<1> SUFFICES ASSUME Init
             PROVE  IntervalsInv
  OBVIOUS
<1> DEFINE I(n) == new_interval(Intervals[n])
           N == Len(Intervals)
<1>1. delivered = <<>> /\ intervals = [n \in 1..N |-> I(n)] /\ N \in Nat /\ DOMAIN Intervals = 1..N
  BY IntervalsOf DEF Init
<1>2. delivered \in Seq(Bar) /\ Data(Range(delivered))
  BY <1>1 DEF Range, Data
<1>3. ASSUME NEW n \in 1..N
      PROVE  /\ Seen(I(n), delivered, Intervals[n].duration, Intervals[n].at)
             /\ I(n) \in IntervalRecords /\ I(n).ii_values = Len(I(n).bars)
  <2> DEFINE c == composer(Intervals[n].duration, Intervals[n].at)
  <2>1. Intervals[n].duration \in Nat \ {0} /\ Intervals[n].at \in Int /\ <<>> \in Seq(Bar) /\ None \in Int
    BY <1>1, IntervalsOf DEF None
  <2>2. /\ c \in Composers /\ c.bars = <<>> /\ c.start = None
        /\ c.duration = Intervals[n].duration /\ c.at = Intervals[n].at
    BY <2>1 DEF composer, Composers
  <2> HIDE DEF c
  <2>3. I(n) = [composer |-> c, bars |-> <<>>, at_end_of_period |-> TRUE,
                old_start_time |-> None, ii_values |-> 0]
    BY DEF new_interval, c
  <2> HIDE DEF I
  <2>4. I(n) \in IntervalRecords /\ I(n).ii_values = 0 /\ Len(I(n).bars) = 0
    BY <2>1, <2>2, <2>3 DEF IntervalRecords
  <2>5. Seen(I(n), delivered, Intervals[n].duration, Intervals[n].at)
    BY <1>1, <2>2, <2>3, <2>4 DEF Seen
  <2> QED BY <2>4, <2>5
<1> HIDE DEF I
<1>4. intervals \in Seq(IntervalRecords) /\ DOMAIN intervals = 1..N /\ Len(intervals) = N
  <2>1. intervals \in [1..N -> IntervalRecords] /\ DOMAIN intervals = 1..N
    BY <1>1, <1>3
  <2> QED BY <1>1, <2>1, SeqDef
<1> QED BY <1>1, <1>2, <1>3, <1>4 DEF IntervalsInv

(* What an interval holds fits what the framework was given.               *)
LEMMA SeenFits ==
  ASSUME NEW i, NEW D \in Seq(Bar), Data(Range(D)), NEW d \in Nat \ {0}, NEW at \in Nat,
         Seen(i, D, d, at)
  PROVE  Fits(i.bars, Range(D), d, at)
<1>1. CASE D = <<>>
  <2>1. i.bars = <<>> /\ Range(D) = {}
    BY <1>1 DEF Seen, Range
  <2> QED BY <2>1, NothingFits
<1>2. CASE D # <<>>
  <2>1. PICK P \in Seq(Bar), b \in Bar : Held(i, P, b, D, d, at)
    BY <1>2 DEF Seen
  <2>2. Composed(i.bars, Range(D), d, at)
    BY <2>1 DEF Held, Composing
  <2> QED BY <2>2, ComposedFits
<1> QED BY <1>1, <1>2

(* Every interval holds, after every bar, the bars composed of all the     *)
(* framework has seen, and one result for each (new_bar_for_intraday_bars  *)
(* and ii_evaluation), when a bar of the database is a whole number of     *)
(* live bars.                                                              *)
THEOREM IntervalsCompose ==
  ASSUME HistorySize % LiveSize = 0
  PROVE  Spec => []IntervalsFit
<1>1. Init => FeederIInv /\ IntervalsInv
  BY FeederInitially, IntervalsInitially
<1>2. FeederIInv /\ IntervalsInv /\ [Next]_vars => (FeederIInv /\ IntervalsInv)'
  BY FeederInductive, IntervalsStep
<1>3. FeederIInv /\ IntervalsInv => IntervalsFit
  <2> SUFFICES ASSUME IntervalsInv, ~raised, NEW n \in DOMAIN Intervals
               PROVE  /\ Fits(intervals[n].bars, Range(delivered), Intervals[n].duration, Intervals[n].at)
                      /\ intervals[n].ii_values = Len(intervals[n].bars)
    BY DEF IntervalsFit
  <2>1. /\ Seen(intervals[n], delivered, Intervals[n].duration, Intervals[n].at)
        /\ delivered \in Seq(Bar) /\ Data(Range(delivered))
        /\ intervals[n].ii_values = Len(intervals[n].bars)
    BY DEF IntervalsInv
  <2> QED BY <2>1, IntervalsOf, SeenFits
<1> QED BY <1>1, <1>2, <1>3, PTL DEF Spec

(* What HistoryKept says of one interval of duration d.                    *)
Kept(old, new, d) ==
  /\ Len(new) >= Len(old)
  /\ \A k \in DOMAIN old :
       \/ new[k] = old[k]
       \/ k = Len(old) /\ old[k].duration < d /\ Continues(old[k], new[k])

(* A bar that is added keeps the history.                                  *)
LEMMA KeptAdded ==
  ASSUME NEW old \in Seq(Bar), NEW s \in Bar, NEW d
  PROVE  Kept(old, old \o <<s>>, d)
<1>1. DOMAIN old = 1..Len(old) /\ Len(old) \in Nat /\ <<s>> \in Seq(Bar) /\ Len(<<s>>) = 1
  OBVIOUS
<1>2. Len(old \o <<s>>) = Len(old) + 1 /\ \A k \in 1..Len(old) : (old \o <<s>>)[k] = old[k]
  BY <1>1, Parts
<1> QED BY <1>1, <1>2 DEF Kept

(* So does a bar that continues the unfinished one.                        *)
LEMMA KeptReplaced ==
  ASSUME NEW P \in Seq(Bar), NEW b \in Bar, NEW s \in Bar, NEW d,
         b.duration < d, Continues(b, s)
  PROVE  Kept(P \o <<b>>, P \o <<s>>, d)
<1> DEFINE old == P \o <<b>>
           new == P \o <<s>>
<1>1. /\ old \in Seq(Bar) /\ DOMAIN old = 1..Len(old) /\ Len(old) = Len(P) + 1 /\ Len(P) \in Nat
      /\ Len(new) = Len(P) + 1
  OBVIOUS
<1>2. \A k \in 1..Len(P) : new[k] = old[k]
  OBVIOUS
<1>3. old[Len(P) + 1] = b /\ new[Len(P) + 1] = s
  OBVIOUS
<1>4. \A k \in 1..Len(P) + 1 : k \in 1..Len(P) \/ k = Len(P) + 1
  BY <1>1
<1> HIDE DEF old, new
<1>5. ASSUME NEW k \in DOMAIN old
      PROVE  \/ new[k] = old[k]
             \/ k = Len(old) /\ old[k].duration < d /\ Continues(old[k], new[k])
  <2>1. k \in 1..Len(P) \/ k = Len(P) + 1
    BY <1>1, <1>4
  <2> QED BY <1>1, <1>2, <1>3, <2>1
<1>6. Len(new) >= Len(old)
  BY <1>1
<1> QED BY <1>5, <1>6 DEF Kept, old, new

(* An interval only grows, or its last bar, while unfinished, is replaced  *)
(* by one that continues it (remove_temp_results_from_unfinished_bars).    *)
THEOREM HistoriesKept ==
  ASSUME HistorySize % LiveSize = 0
  PROVE  Spec => HistoryKept
<1>1. Init => FeederIInv /\ IntervalsInv
  BY FeederInitially, IntervalsInitially
<1>2. FeederIInv /\ IntervalsInv /\ [Next]_vars => (FeederIInv /\ IntervalsInv)'
  BY FeederInductive, IntervalsStep
<1>3. FeederIInv /\ IntervalsInv /\ [Next]_vars =>
        [\A n \in DOMAIN Intervals : Kept(intervals[n].bars, intervals'[n].bars, Intervals[n].duration)]_vars
  <2> SUFFICES ASSUME FeederIInv, IntervalsInv, Next, NEW n \in DOMAIN Intervals
               PROVE  Kept(intervals[n].bars, intervals'[n].bars, Intervals[n].duration)
    OBVIOUS
  <2>1. CASE UNCHANGED intervals /\ ~raised
    <3>1. intervals[n].bars \in Seq(Bar)
      BY <2>1 DEF IntervalsInv, Seen, IntervalRecords
    <3>2. Len(intervals[n].bars) >= Len(intervals[n].bars)
      BY <3>1
    <3> QED BY <2>1, <3>2 DEF Kept
  <2>2. CASE new_bar /\ ~raised'
    <3> DEFINE bar == Head(unread_data)
               i == intervals[n]
               k == intervals'[n]
               d == Intervals[n].duration
               at == Intervals[n].at
    <3>1. /\ ~raised /\ unread_data # <<>> /\ ~Raises(intervals, bar)
          /\ intervals' = ii_evaluation(intervals, bar)
      BY <2>2 DEF new_bar
    <3>2. NextOf(delivered, bar)
      BY <3>1, FeederGives
    <3> HIDE DEF bar
    <3>3. k = Evaluated(after_bar(i, bar)) /\ TakesOne(i, bar, delivered, d, at)
      BY <3>1, <3>2, EvaluatedAll
    <3>4. i \in IntervalRecords /\ i.ii_values = Len(i.bars) /\ i.bars \in Seq(Bar)
      BY <3>1 DEF IntervalsInv, Seen, IntervalRecords
    <3> HIDE DEF i, k, d, at
    <3>5. OneBarMore(i.bars, k.bars, d)
      BY <3>3, <3>4, OneMore
    <3>6. Kept(i.bars, k.bars, d)
      BY <3>4, <3>5, KeptAdded, KeptReplaced DEF OneBarMore
    <3> QED BY <3>6 DEF i, k, d
  <2>3. \/ UNCHANGED intervals /\ ~raised
        \/ new_bar /\ ~raised'
    BY DEF Next, new_bar, iterate
  <2> QED BY <2>1, <2>2, <2>3
<1>4. QED
  BY <1>1, <1>2, <1>3, PTL DEF Spec, HistoryKept, Kept

-----------------------------------------------------------------------------
(* What raises, when the bars of both feeders are of one size, a composer  *)
(* opens with the first data and intervals start at whole Durations: a bar *)
(* before the time of the day an interval starts at, and nothing else.     *)
Opening == OpenFromFirstDataInBar \/ OpenFromFuture

(* A composer that starts finds an open.                                   *)
LEMMA FindsOpen ==
  ASSUME Opening, NEW c \in Composers, NEW start, NEW t, NEW open
  PROVE  find_open(c, start, t, open) = open
<1>1. c.close = None
  BY DEF Composers
<1>2. CASE start = t \/ OpenFromFirstDataInBar
  BY <1>2 DEF find_open
<1>3. CASE ~(start = t \/ OpenFromFirstDataInBar)
  BY <1>1, <1>3 DEF find_open, Opening
<1> QED BY <1>2, <1>3

(* A number of multiples is a multiple.                                    *)
LEMMA Multiples ==
  ASSUME NEW q \in Nat \ {0}, NEW d \in Nat, d % q = 0, NEW k \in Int
  PROVE  (k * d) % q = 0 /\ k * d \in Int
<1> DEFINE m == d \div q
<1>1. m \in Int /\ d = q * m
  BY DivMod
<1> HIDE DEF m
<1>2. k * d = q * (k * m) /\ k * m \in Int
  BY <1>1
<1> QED BY <1>2, Product

(* A multiple after t is at least q later.                                 *)
LEMMA NextOfTwo ==
  ASSUME NEW q \in Nat \ {0}, NEW s \in Nat, s % q = 0, NEW x \in Int, x % q = 0,
         NEW t \in Nat, t % q = 0, t < s + x
  PROVE  t + q <= s + x
<1> DEFINE e == s + x
<1>1. e \in Int /\ t < e
  OBVIOUS
<1>2. e % q = s % q
  <2>1. q \in Nat \ {0} /\ s \in Int /\ x \in Int /\ x % q = 0
    OBVIOUS
  <2> QED BY ONLY <2>1, SumMod DEF e
<1> HIDE DEF e
<1>3. t + q <= e
  <2>1. q \in Nat \ {0} /\ t \in Int /\ e \in Int /\ t % q = e % q /\ t < e
    BY <1>1, <1>2
  <2> QED BY ONLY <2>1, NextMultiple
<1> QED BY <1>3 DEF e

(* A bar that is not longer than q, where all times are multiples of q.    *)
LEMMA Unspanned ==
  ASSUME NEW q \in Nat \ {0}, NEW c, NEW b \in Bar, composing_bar(c) = b, b.time % q = 0,
         c.duration \in Nat \ {0}, c.duration % q = 0,
         NEW bar \in Bar, bar.time % q = 0, bar.duration <= q
  PROVE  ~spans_two_composing_bars(c, bar)
<1>1. /\ b.time \in Nat /\ bar.time \in Nat /\ end_time(bar) \in Nat
      /\ end_time(bar) = bar.time + bar.duration /\ bar.duration \in Nat
  BY BarTimes
<1>2. ASSUME NEW k \in 1..(end_time(bar) - b.time), NEW x, x = k * c.duration,
             bar.time < b.time + x, b.time + x < end_time(bar)
      PROVE  FALSE
  <2>1. k \in Int
    BY <1>1
  <2>2. x % q = 0 /\ x \in Int
    BY <2>1, <1>2, Multiples
  <2>3. bar.time + q <= b.time + x
    BY <1>1, <1>2, <2>2, NextOfTwo
  <2> QED BY <1>1, <1>2, <2>2, <2>3
<1> QED BY <1>2 DEF spans_two_composing_bars

(* A composer that runs does not raise.                                    *)
LEMMA InsertsRunning ==
  ASSUME NEW q \in Nat \ {0}, NEW c \in Composers, NEW b \in Bar, c.bars = <<b>>, b.time % q = 0,
         c.duration % q = 0, NEW bar \in Bar, bar.time % q = 0, bar.duration <= q,
         end_time(b) <= bar.time
  PROVE  insert_bar_in_running_composer(c, bar).error = "none"
<1>1. composing_bar(c) = b /\ c.duration \in Nat \ {0}
  BY DEF composing_bar, Last, Composers
<1>2. ~spans_two_composing_bars(c, bar)
  BY <1>1, Unspanned
<1>3. ~(end_time(b) > bar.time)
  BY BarTimes
<1>4. ASSUME NEW S
      PROVE  [c EXCEPT !.bars = S].error = "none"
  BY DEF Composers
<1>5. ASSUME NEW S, NEW T
      PROVE  [[c EXCEPT !.bars = S] EXCEPT !.bars = T].error = "none"
  BY DEF Composers
<1>6. insert_adjacent_bar(c, bar).error = "none"
  BY <1>4 DEF insert_adjacent_bar
<1>7. insert_adjacent_bar(advance(c, bar.time, TRUE), bar).error = "none"
  BY <1>5 DEF insert_adjacent_bar, advance
<1> QED BY <1>1, <1>2, <1>3, <1>6, <1>7 DEF insert_bar_in_running_composer

(* Aligned to d is aligned to what divides d and at.                       *)
LEMMA AlignedDown ==
  ASSUME NEW q \in Nat \ {0}, DayLength % q = 0, NEW d \in Nat \ {0}, d % q = 0,
         NEW at \in Nat, at % q = 0, NEW t \in Nat, Aligned(t, d, at)
  PROVE  t % q = 0
<1> DEFINE x == (t % DayLength) - at
           k == x \div d
<1>1. t % DayLength \in Int /\ at \in Int /\ t % DayLength = at + x /\ x \in Int
  <2>1. t % DayLength \in 0..DayLength - 1 /\ DayLength \in Nat \ {0}
    BY Days
  <2> QED BY <2>1
<1>2. x % d = 0
  BY DEF Aligned
<1> HIDE DEF x
<1>3. x = d * k /\ k \in Int
  BY <1>1, <1>2, DivMod
<1> HIDE DEF k
<1>4. (k * d) % q = 0 /\ k * d = x
  BY <1>3, Multiples
<1>5. (at + x) % q = 0
  BY <1>1, <1>4, SumMod
<1>6. Aligned(t, q, 0)
  <2>1. (t % DayLength) - 0 = at + x
    BY <1>1
  <2> QED BY <1>5, <2>1 DEF Aligned
<1> QED BY <1>6, AlignedWhole

(* The time t is not before the time of its day that at is.                *)
NotBefore(t, at) == Day(t) * DayLength + at <= t

(* A composer that starts does not raise.                                  *)
LEMMA InsertsFirst ==
  ASSUME Opening, NEW q \in Nat \ {0}, DayLength % q = 0,
         NEW d \in Nat \ {0}, d % q = 0, NEW at \in Nat, at % q = 0,
         NEW c \in Composers, c.duration = d, c.bars = <<>>, c.start = None,
         NEW bar, Whole(bar), bar.time % q = 0, bar.duration <= q,
         (c.at = None /\ at = 0 /\ DayLength % d = 0) \/ (c.at = at /\ NotBefore(bar.time, at))
  PROVE  insert_bar(c, bar).error = "none"
<1> DEFINE t == bar.time
           start == start_time_for(c, t)
           w == UpTo(start, bar)
           e == WithStart(c, start, w)
<1>1. t \in Nat /\ bar \in Bar /\ c.close = None /\ c.error = "none"
  BY WholeTimes DEF Composers
<1>2. start <= t
  <2>1. t % d \in 0..d - 1
    <3> HIDE DEF t
    <3>1. t \in Int
      BY <1>1
    <3> QED BY <3>1, DivMod
  <2>2. CASE c.at = None
    <3>1. start = t - (t % d)
      BY <2>2 DEF start_time_for, has_start_time
    <3> HIDE DEF start, t
    <3> QED BY <1>1, <2>1, <3>1
  <2>3. CASE c.at = at /\ NotBefore(t, at)
    <3> DEFINE set == Day(t) * DayLength + at
               r == (t - set) % d
    <3>1. start = IF set > t THEN set ELSE t - r
      <4>1. c.at # None
        BY <2>3 DEF None
      <4> QED BY <2>3, <4>1 DEF start_time_for, has_start_time
    <3>2. set \in Int /\ set <= t
      <4>1. t \in Int
        BY <1>1
      <4> HIDE DEF t
      <4>2. Day(t) \in Int /\ DayLength \in Nat \ {0}
        BY <4>1, Days
      <4> QED BY <2>3, <4>1, <4>2 DEF NotBefore
    <3> HIDE DEF set
    <3>3. r \in 0..d - 1
      <4>1. t - set \in Int
        BY <1>1, <3>2
      <4> QED BY <4>1, DivMod
    <3> HIDE DEF start, t, r
    <3> QED BY <1>1, <3>1, <3>2, <3>3
  <2> QED BY <2>2, <2>3
<1>3. StartOf(c, start, t, d, at)
  <2>1. start_time_for(c, t) <= t
    BY <1>2
  <2> HIDE DEF t
  <2> QED BY <1>1, <2>1, StartTime
<1> HIDE DEF start
<1>4. start \in Nat /\ start <= t /\ t < start + d /\ Aligned(start, d, at)
  BY <1>3 DEF StartOf
<1>5. start % q = 0
  BY <1>4, AlignedDown
<1>6. insert_bar(c, bar) = insert_bar_in_running_composer(e, bar)
  <2>1. find_open(c, start, t, bar.open) = bar.open
    BY FindsOpen
  <2>2. start = start_time_for(c, bar.time)
    BY DEF start
  <2> QED BY <1>1, <1>4, <2>1, <2>2, StartAllowed
<1>7. w \in Bar /\ w.time = start /\ end_time(w) = t
  BY <1>4, StartedBar DEF UpTo
<1> HIDE DEF w
<1>8. e \in Composers /\ e.bars = <<w>> /\ e.duration = d
  <2>1. <<w>> \in Seq(Bar) /\ start \in Int
    BY <1>4, <1>7
  <2> QED BY <2>1 DEF WithStart, Composers
<1> HIDE DEF e
<1>9. insert_bar_in_running_composer(e, bar).error = "none"
  BY <1>1, <1>5, <1>7, <1>8, InsertsRunning
<1> QED BY <1>6, <1>9

(* The feeder's own composer.                                              *)
LEMMA FedTakes ==
  ASSUME Opening, NEW o, NEW P, NEW B, NEW old, Fed(o, P, B, old),
         NEW bar, Whole(bar), NEW size \in Nat \ {0}, bar.duration = size,
         DayLength % size = 0, Duration % size = 0, bar.time % size = 0,
         \A x \in B : x.duration = size,
         old # None => bar.time - old >= size
  PROVE  Given(o, bar, old).error = "none"
<1> DEFINE t == bar.time
<1>1. Idle(o) /\ P \in Seq(Bar) /\ Data(B)
  BY DEF Fed
<1>2. /\ o \in Composers /\ o.duration = Duration /\ o.at = None /\ o.error = "none"
      /\ Duration \in Nat \ {0} /\ DayLength % Duration = 0
  BY <1>1, Sizes DEF Idle
<1>3. t \in Nat /\ bar \in Bar /\ bar.duration <= size /\ 0 \in Nat /\ 0 % size = 0
  BY WholeTimes
<1>4. CASE o.bars = <<>> /\ o.start = None
  <2>1. ~Resets(o, bar, old)
    BY <1>2, <1>4 DEF Resets, has_start_time
  <2>2. insert_bar(o, bar).error = "none"
    BY <1>2, <1>3, <1>4, InsertsFirst
  <2> QED BY <2>1, <2>2 DEF Given
<1>5. CASE Composes(o, P, B, old)
  <2>1. PICK b \in Bar, l \in B :
          /\ o.bars = <<b>> /\ old = l.time /\ end_time(b) = end_time(l)
          /\ Composing(P, b, B, Duration, 0)
    BY <1>5 DEF Composes, EndsWith
  <2>2. CASE Resets(o, bar, old)
    <3> DEFINE r == reset_composer(o)
    <3>1. <<>> \in Seq(Bar) /\ None \in Int
      BY DEF None
    <3>2. r \in Composers /\ r.bars = <<>> /\ r.start = None /\ r.duration = Duration /\ r.at = None
      BY <1>2, <3>1 DEF reset_composer, Composers
    <3> HIDE DEF r
    <3>3. insert_bar(r, bar).error = "none"
      BY <1>2, <1>3, <3>2, InsertsFirst
    <3> QED BY <2>2, <3>3 DEF Given, r
  <2>3. CASE ~Resets(o, bar, old)
    <3>1. Given(o, bar, old) = insert_bar_in_running_composer(o, bar)
      <4>1. running(o) /\ Given(o, bar, old) = insert_bar(o, bar)
        BY <2>1, <2>3 DEF running, Given
      <4> QED BY <1>2, <4>1 DEF insert_bar
    <3>2. end_time(b) <= t
      <4>1. l.time \in Nat /\ l.duration = size /\ end_time(l) = l.time + l.duration
        BY <1>1, <2>1, DataTimes DEF end_time
      <4>2. old # None
        BY <2>1, <4>1 DEF None
      <4> QED BY <1>3, <2>1, <4>1, <4>2
    <3>3. b.time % size = 0
      <4>1. b.time % Duration = 0 /\ b.time \in Nat
        BY <1>2, <2>1, ComposingAligned, BarTimes
      <4> QED BY <1>2, <4>1, Divides
    <3> QED BY <1>2, <1>3, <2>1, <3>1, <3>2, <3>3, InsertsRunning
  <2> QED BY <2>2, <2>3
<1> QED BY <1>4, <1>5 DEF Fed

(* Where bars are of the feeder, an interval of whole Durations takes any  *)
(* that is not before its time of the day.                                 *)
LEMMA IntervalAllows ==
  ASSUME Opening, NEW d \in Nat \ {0}, d % Duration = 0, NEW at \in Nat, at % Duration = 0,
         NEW D, NEW i, Seen(i, D, d, at),
         Data(Range(D)), NEW bar, NextOf(D, bar), NotBefore(bar.time, at)
  PROVE  inserted(i, bar).error = "none"
<1> DEFINE p == prepared(i, bar)
           t == bar.time
<1>1. /\ i \in IntervalRecords /\ i.composer.duration = d /\ i.composer.at = at
      /\ i.composer \in Composers /\ D \in Seq(Bar)
      /\ Duration \in Nat \ {0} /\ DayLength % Duration = 0
  BY Sizes DEF Seen, IntervalRecords, NextOf
<1>2. Whole(bar) /\ bar \in Bar /\ t \in Nat /\ t % Duration = 0 /\ bar.duration <= Duration
  <2>1. Whole(bar) /\ Aligned(t, Duration, 0) /\ bar.duration <= Duration
    BY DEF NextOf
  <2>2. bar \in Bar /\ t \in Nat
    BY <2>1, WholeTimes
  <2>3. t \in Int
    BY <2>2
  <2> HIDE DEF t
  <2> QED BY <1>1, <2>1, <2>2, <2>3, AlignedWhole
<1>3. ASSUME p.composer \in Composers, p.composer.bars = <<>>, p.composer.start = None,
             p.composer.duration = d, p.composer.at = at
      PROVE  insert_bar(p.composer, bar).error = "none"
  <2> HIDE DEF p
  <2> QED BY <1>1, <1>2, <1>3, InsertsFirst
<1>4. CASE D = <<>>
  <2>1. i.composer.bars = <<>> /\ i.composer.start = None /\ i.old_start_time = None
    BY <1>4 DEF Seen
  <2>2. p = i
    BY <2>1 DEF prepared, SameDay, NewDate
  <2>3. insert_bar(p.composer, bar).error = "none"
    BY <1>1, <1>3, <2>1, <2>2
  <2> QED BY <2>1, <2>2, <2>3 DEF inserted
<1>5. CASE D # <<>>
  <2> DEFINE l == D[Len(D)]
  <2>1. PICK P \in Seq(Bar), b \in Bar : Held(i, P, b, D, d, at)
    BY <1>5 DEF Seen
  <2>2. /\ i.composer.bars = <<b>> /\ i.bars = P \o Rest(b)
        /\ Composing(P, b, Range(D), d, at) /\ end_time(b) = end_time(l)
        /\ i.old_start_time = l.time /\ i.at_end_of_period = is_zero_bar(b)
    BY <2>1 DEF Held
  <2>3. l \in Range(D)
    <3>1. Len(D) \in DOMAIN D
      BY <1>1, <1>5
    <3> QED BY <3>1 DEF Range
  <2>4. Whole(l) /\ l.time \in Nat /\ l.time < end_time(l) /\ end_time(l) \in Nat /\ end_time(l) <= t
        /\ l.time % Duration = 0 /\ l.time # None
    <3>1. Whole(l) /\ end_time(l) <= t /\ Aligned(l.time, Duration, 0)
      BY <2>3 DEF Data, NextOf
    <3> HIDE DEF l, t
    <3>2. l.time \in Nat /\ l.time < end_time(l) /\ end_time(l) \in Nat
      BY <3>1, WholeTimes
    <3>3. l.time \in Int
      BY <3>2
    <3>4. l.time % Duration = 0
      BY <1>1, <3>1, <3>3, AlignedWhole
    <3> QED BY <3>1, <3>2, <3>4 DEF None
  <2>5. ~(t - l.time < bar.duration)
    <3> DEFINE u == l.time
    <3>1. u \in Int /\ t \in Int /\ u < t /\ u % Duration = t % Duration /\ Duration \in Nat \ {0}
      BY <1>1, <1>2, <2>4
    <3>2. bar.duration \in Nat /\ bar.duration <= Duration
      BY <1>2, BarTimes
    <3> HIDE DEF u, t
    <3>3. u + Duration <= t
      BY <3>1, NextMultiple
    <3>4. ~(t - u < bar.duration)
      BY <3>1, <3>2, <3>3
    <3> QED BY <3>4 DEF u
  <2>6. CASE SameDay(i, bar)
    <3>1. p \in IntervalRecords /\ p.composer = i.composer /\ p.old_start_time = i.old_start_time
      <4>1. p \in IntervalRecords /\ p.composer = i.composer
        BY <1>1, <2>2, <2>6, PreparedSame
      <4>2. p = i \/ p = remove_temp_results(i)
        BY <2>6 DEF prepared, SameDay, NewDate
      <4>3. remove_temp_results(i).old_start_time = i.old_start_time
        BY <1>1 DEF remove_temp_results, IntervalRecords
      <4> HIDE DEF p
      <4> QED BY <4>1, <4>2, <4>3
    <3>2. t = end_time(l) /\ Day(l.time) = Day(t)
      <4>1. Day(l.time) = Day(t)
        BY <2>2, <2>6 DEF SameDay
      <4>2. Follows(l, bar, Duration)
        BY <1>5 DEF NextOf
      <4> QED BY <4>1, <4>2 DEF Follows
    <3>3. Aligned(b.time, d, at) /\ b.time \in Nat
      <4>1. Whole(l) /\ t \in Nat
        BY <1>2, <2>4
      <4> HIDE DEF l, t
      <4> QED BY <2>2, <3>2, <4>1, SameDayAligned, BarTimes
    <3>4. b.time % Duration = 0
      BY <1>1, <3>3, AlignedDown
    <3>5. insert_bar_in_running_composer(i.composer, bar).error = "none"
      <4>1. end_time(b) <= bar.time
        BY <1>2, <2>2, <3>2
      <4> QED BY <1>1, <1>2, <2>2, <3>4, <4>1, InsertsRunning
    <3>6. insert_bar(i.composer, bar).error = "none"
      <4>1. running(i.composer) /\ i.composer.error = "none"
        BY <1>1, <2>2 DEF running, Composers
      <4> QED BY <3>5, <4>1 DEF insert_bar
    <3> HIDE DEF p
    <3> QED BY <2>2, <2>5, <3>1, <3>6 DEF inserted, p
  <2>7. CASE NewDate(i, bar)
    <3> DEFINE c == reset_composer(i.composer)
    <3>1. p = [i EXCEPT !.composer = c, !.at_end_of_period = TRUE]
      BY <2>7 DEF prepared, SameDay, NewDate
    <3>2. c \in Composers /\ c.bars = <<>> /\ c.start = None /\ c.duration = d /\ c.at = at
      <4>1. <<>> \in Seq(Bar) /\ None \in Int
        BY DEF None
      <4> QED BY <1>1, <4>1 DEF reset_composer, Composers
    <3> HIDE DEF c, p
    <3>3. p.composer = c /\ p.old_start_time = l.time
      BY <1>1, <2>2, <3>1 DEF IntervalRecords
    <3>4. insert_bar(p.composer, bar).error = "none"
      BY <1>3, <3>2, <3>3
    <3> QED BY <2>5, <3>3, <3>4 DEF inserted, p
  <2>8. SameDay(i, bar) \/ NewDate(i, bar)
    BY <2>2, <2>4 DEF SameDay, NewDate
  <2> QED BY <2>6, <2>7, <2>8
<1> QED BY <1>4, <1>5

(* A composer that has not started refuses a bar before its time.          *)
LEMMA StartRefuses ==
  ASSUME NEW at \in Nat, NEW c \in Composers, c.bars = <<>>, c.start = None, c.at = at,
         NEW bar, bar.time \in Nat, ~NotBefore(bar.time, at)
  PROVE  insert_bar(c, bar).error # "none"
<1> DEFINE t == bar.time
           set == Day(t) * DayLength + at
<1>1. set > t
  <2>1. t \in Int
    OBVIOUS
  <2> HIDE DEF t
  <2>2. Day(t) \in Int /\ DayLength \in Nat \ {0}
    BY <2>1, Days
  <2>3. ~(set <= t)
    BY DEF NotBefore, t
  <2> QED BY <2>1, <2>2, <2>3
<1>2. start_time_for(c, t) = set
  <2>1. has_start_time(c)
    BY DEF has_start_time, None
  <2> QED BY <1>1, <2>1 DEF start_time_for
<1> HIDE DEF set
<1>3. start_composer(c, t, bar.open).error = "data before start"
  <2>1. [c EXCEPT !.start = set].error = c.error
    BY DEF Composers
  <2>2. Raise([c EXCEPT !.start = set], "data before start").error = "data before start"
    BY DEF Raise, Composers
  <2> QED BY <1>1, <1>2, <2>2 DEF start_composer
<1>4. ~running(c)
  BY DEF running
<1> QED BY <1>3, <1>4 DEF insert_bar

(* So does an interval: the first bar of a day that is before its time     *)
(* starts its composer.                                                    *)
LEMMA IntervalRefuses ==
  ASSUME NEW d \in Nat \ {0}, NEW at \in Nat, NEW D, NEW i, Seen(i, D, d, at),
         Data(Range(D)), NEW bar, NextOf(D, bar), ~NotBefore(bar.time, at),
         \A x \in Range(D) : NotBefore(x.time, at)
  PROVE  inserted(i, bar).error # "none"
<1> DEFINE p == prepared(i, bar)
           t == bar.time
<1>1. /\ i \in IntervalRecords /\ i.composer.at = at /\ i.composer \in Composers
      /\ D \in Seq(Bar) /\ t \in Nat
  BY WholeTimes DEF Seen, IntervalRecords, NextOf
<1>2. ASSUME p.composer \in Composers
      PROVE  Raise(p.composer, "NameError").error = "NameError"
  <2> HIDE DEF p
  <2> QED BY <1>2 DEF Raise, Composers
<1>3. ASSUME p.composer \in Composers, p.composer.bars = <<>>, p.composer.start = None,
             p.composer.at = at
      PROVE  inserted(i, bar).error # "none"
  <2>1. insert_bar(p.composer, bar).error # "none"
    <3> HIDE DEF p
    <3> QED BY <1>1, <1>3, StartRefuses
  <2> QED BY <1>2, <1>3, <2>1 DEF inserted
<1>4. CASE D = <<>>
  <2>1. i.composer.bars = <<>> /\ i.composer.start = None /\ i.old_start_time = None
    BY <1>4 DEF Seen
  <2>2. p = i
    BY <2>1 DEF prepared, SameDay, NewDate
  <2> QED BY <1>1, <1>3, <2>1, <2>2
<1>5. CASE D # <<>>
  <2> DEFINE l == D[Len(D)]
             c == reset_composer(i.composer)
  <2>1. i.old_start_time = l.time /\ l \in Range(D)
    <3>1. \E P \in Seq(Bar), b \in Bar : Held(i, P, b, D, d, at)
      BY <1>5 DEF Seen
    <3>2. Len(D) \in DOMAIN D
      BY <1>1, <1>5
    <3> QED BY <3>1, <3>2 DEF Held, Range
  <2>2. l.time \in Nat /\ l.time <= t /\ NotBefore(l.time, at) /\ l.time # None
    <3>1. Whole(l) /\ end_time(l) <= t /\ NotBefore(l.time, at)
      BY <2>1 DEF Data, NextOf
    <3> HIDE DEF l, t
    <3>2. l.time \in Nat /\ l.time < end_time(l) /\ end_time(l) \in Nat
      BY <3>1, WholeTimes
    <3> QED BY <1>1, <3>1, <3>2 DEF None
  <2>3. Day(l.time) # Day(t)
    <3> SUFFICES ASSUME Day(l.time) = Day(t)
                 PROVE  FALSE
      OBVIOUS
    <3>1. Day(t) * DayLength + at <= l.time /\ ~(Day(t) * DayLength + at <= t)
      BY <2>2 DEF NotBefore
    <3>2. Day(t) * DayLength + at \in Int
      <4>1. t \in Int
        BY <1>1
      <4> HIDE DEF t
      <4>2. Day(t) \in Int /\ DayLength \in Nat \ {0}
        BY <4>1, Days
      <4> QED BY <4>2
    <3> DEFINE set == Day(t) * DayLength + at
               u == l.time
    <3>3. set \in Int /\ u \in Nat /\ t \in Nat /\ set <= u /\ ~(set <= t) /\ u <= t
      BY <1>1, <2>2, <3>1, <3>2
    <3> HIDE DEF set, u, t
    <3> QED BY <3>3
  <2>4. p = [i EXCEPT !.composer = c, !.at_end_of_period = TRUE]
    BY <2>1, <2>2, <2>3 DEF prepared, SameDay, NewDate
  <2>5. c \in Composers /\ c.bars = <<>> /\ c.start = None /\ c.at = at
    <3>1. <<>> \in Seq(Bar) /\ None \in Int
      BY DEF None
    <3> QED BY <1>1, <3>1 DEF reset_composer, Composers
  <2>6. p.composer = c
    <3> HIDE DEF c, p
    <3> QED BY <1>1, <2>4 DEF IntervalRecords
  <2> QED BY <1>3, <2>5, <2>6
<1> QED BY <1>4, <1>5

(* The hypotheses under which an early bar is all that raises.             *)
Uniform ==
  /\ HistorySize = LiveSize /\ Opening
  /\ \A n \in DOMAIN Intervals : Intervals[n].at % Duration = 0

(* The feeder's composer does not raise.                                   *)
LEMMA FeedRaisesNot ==
  ASSUME Uniform, FeederIInv, own.error = "none", unread_data = <<>>,
         NEW t \in Nat, t % LiveSize = 0, feed(SourceBar(t, LiveSize))
  PROVE  own'.error = "none"
<1> DEFINE bar == SourceBar(t, LiveSize)
<1>1. LiveSize \in Nat \ {0} /\ DayLength % LiveSize = 0 /\ Duration % LiveSize = 0
  BY Sizes
<1>2. Whole(bar) /\ bar.time = t /\ bar.duration = LiveSize
  BY <1>1, SourceWhole
<1>3. Fed(own, Completed, used, old_start_time) /\ \A x \in used : x.duration = LiveSize
  BY DEF FeederIInv, UsedInv, Uniform
<1> HIDE DEF bar
<1>4. CASE TooSoon(bar)
  BY <1>4 DEF feed, feederVars, bar
<1>5. CASE ~TooSoon(bar)
  <2> DEFINE c == Given(own, bar, old_start_time)
  <2>1. old_start_time # None => bar.time - old_start_time >= LiveSize
    <3>1. old_start_time = None \/ \E l \in used : old_start_time = l.time /\ l.time \in Nat
      BY <1>3, DataTimes DEF Fed, Composes, EndsWith
    <3> QED BY <1>1, <1>2, <1>5, <3>1 DEF TooSoon
  <2>2. c.error = "none"
    <3>1. bar.time % LiveSize = 0 /\ Opening
      BY <1>2 DEF Uniform
    <3> QED BY <1>1, <1>2, <1>3, <2>1, <3>1, FedTakes
  <2>3. \A l \in used : l.time = old_start_time => l.duration % LiveSize = 0
    <3>1. (LiveSize * 1) % LiveSize = 0 /\ LiveSize * 1 = LiveSize
      BY <1>1, Product
    <3> QED BY <1>3, <3>1
  <2>4. Fed(popped(c), Completed \o (Left(own, bar, old_start_time) \o complete_bars(c)), used \union {bar}, bar.time)
    <3>1. LastDivided(used, old_start_time, LiveSize) /\ bar.time % LiveSize = 0
      BY <1>2, <2>3 DEF LastDivided
    <3> QED BY <1>1, <1>2, <1>3, <2>1, <2>2, <3>1, FedOn
  <2>5. popped(c).error = "none"
    BY <2>4 DEF Fed, Idle
  <2>6. own' = IF c.error # "none" THEN c ELSE popped(c)
    <3>1. Resets(own, bar, old_start_time) <=> NewDay(bar) /\ has_start_time(own)
      BY DEF Resets, NewDay
    <3>2. insert(bar)
      BY <1>5 DEF feed, bar
    <3> QED BY <3>1, <3>2 DEF insert, Given
  <2> QED BY <2>2, <2>5, <2>6
<1> QED BY <1>4, <1>5

(* new_bar raises at an early bar, and only there.                         *)
LEMMA NewBarRaises ==
  ASSUME Uniform, FeederIInv, IntervalsInv, ~raised, unread_data # <<>>,
         \A x \in Range(delivered) : ~Early(x)
  PROVE  Raises(intervals, Head(unread_data)) <=> Early(Head(unread_data))
<1> DEFINE bar == Head(unread_data)
<1>1. NextOf(delivered, bar)
  BY FeederGives
<1> HIDE DEF bar
<1>2. Data(Range(delivered)) /\ DOMAIN intervals = DOMAIN Intervals
  BY DEF IntervalsInv
<1>3. ASSUME NEW n \in DOMAIN Intervals
      PROVE  /\ Seen(intervals[n], delivered, Intervals[n].duration, Intervals[n].at)
             /\ Intervals[n].duration \in Nat \ {0} /\ Intervals[n].duration % Duration = 0
             /\ Intervals[n].at \in Nat /\ Intervals[n].at % Duration = 0
  BY <1>3, IntervalsOf DEF IntervalsInv, Uniform
<1>4. ASSUME NEW x, ~Early(x), NEW n \in DOMAIN Intervals, x.time \in Nat
      PROVE  NotBefore(x.time, Intervals[n].at)
  <2> DEFINE t == x.time
  <2>1. t \in Int
    BY <1>4
  <2>2. ~(t < Day(t) * DayLength + Intervals[n].at)
    BY <1>4 DEF Early
  <2> HIDE DEF t
  <2>3. Day(t) \in Int /\ DayLength \in Nat \ {0} /\ Intervals[n].at \in Nat
    BY <1>3, <2>1, Days
  <2>4. NotBefore(t, Intervals[n].at)
    BY <2>1, <2>2, <2>3 DEF NotBefore
  <2> QED BY <2>4 DEF t
<1>5. bar.time \in Nat /\ \A x \in Range(delivered) : x.time \in Nat
  BY <1>1, <1>2, DataTimes, WholeTimes DEF NextOf
<1>6. CASE ~Early(bar)
  <2>1. \A n \in DOMAIN Intervals : inserted(intervals[n], bar).error = "none"
    <3> SUFFICES ASSUME NEW n \in DOMAIN Intervals
                 PROVE  inserted(intervals[n], bar).error = "none"
      OBVIOUS
    <3>1. NotBefore(bar.time, Intervals[n].at)
      BY <1>4, <1>5, <1>6
    <3> QED BY <1>1, <1>2, <1>3, <3>1, IntervalAllows DEF Uniform
  <2>2. ~used_by(intervals, bar).raised
    BY <1>1, <2>1, AllTake
  <2> QED BY <1>2, <1>6, <2>1, <2>2 DEF Raises, bar
<1>7. CASE Early(bar)
  <2>1. PICK n \in DOMAIN Intervals : bar.time < Day(bar.time) * DayLength + Intervals[n].at
    BY <1>7 DEF Early
  <2>2. ~NotBefore(bar.time, Intervals[n].at)
    <3> DEFINE t == bar.time
    <3>1. t \in Int
      BY <1>5
    <3> HIDE DEF t
    <3>2. Day(t) \in Int /\ DayLength \in Nat \ {0} /\ Intervals[n].at \in Nat
      BY <1>3, <3>1, Days
    <3>3. t < Day(t) * DayLength + Intervals[n].at
      BY <2>1 DEF t
    <3>4. ~NotBefore(t, Intervals[n].at)
      BY <3>1, <3>2, <3>3 DEF NotBefore
    <3> QED BY <3>4 DEF t
  <2>3. \A x \in Range(delivered) : NotBefore(x.time, Intervals[n].at)
    BY <1>4, <1>5
  <2>4. inserted(intervals[n], bar).error # "none"
    BY <1>1, <1>2, <1>3, <2>2, <2>3, IntervalRefuses
  <2> QED BY <1>2, <1>7, <2>4 DEF Raises, bar
<1> QED BY <1>6, <1>7

(* No step raises but for an early bar.                                    *)
LEMMA RaisesStep ==
  ASSUME Uniform, FeederIInv, IntervalsInv, RaisesWhenEarly, [Next]_vars
  PROVE  RaisesWhenEarly'
<1>1. own.error = "none" /\ (raised <=> \E x \in Range(delivered) : Early(x))
  BY DEF RaisesWhenEarly
<1>2. CASE UNCHANGED vars
  <2>1. own' = own /\ raised' = raised /\ delivered' = delivered
    BY <1>2 DEF vars, feederVars
  <2> QED BY <1>1, <2>1 DEF RaisesWhenEarly, Early
<1>3. CASE new_bar
  <2> DEFINE bar == Head(unread_data)
  <2>1. /\ unread_data # <<>> /\ ~raised /\ own' = own /\ delivered' = Append(delivered, bar)
        /\ raised' <=> Raises(intervals, bar)
    BY <1>3 DEF new_bar
  <2>2. Raises(intervals, bar) <=> Early(bar)
    BY <1>1, <2>1, NewBarRaises
  <2>3. Range(delivered') = Range(delivered) \union {bar}
    <3>1. delivered \in Seq(Bar) /\ bar \in Bar
      BY <2>1, FeederGives DEF NextOf, Whole
    <3> HIDE DEF bar
    <3> QED BY <2>1, <3>1, Appended
  <2> HIDE DEF bar
  <2>4. raised' <=> \E x \in Range(delivered') : Early(x)
    BY <1>1, <2>1, <2>2, <2>3
  <2> QED BY <1>1, <2>1, <2>4 DEF RaisesWhenEarly, Early
<1>4. CASE iterate
  <2>1. raised' = raised /\ delivered' = delivered /\ FeederNext /\ SourcesInv
    BY <1>4 DEF iterate, FeederIInv
  <2>2. own'.error = "none"
    <3>1. CASE \E t \in 0..MaxTime : first_live_bar(t) \/ next_live_bar(t)
      BY <1>1, <3>1 DEF first_live_bar, next_live_bar, feederVars
    <3>2. CASE \E t \in 0..MaxTime : history_bar(t)
      <4>1. PICK t \in 0..MaxTime : history_bar(t)
        BY <3>2
      <4>2. t \in Nat /\ t % LiveSize = 0 /\ unread_data = <<>> /\ feed(SourceBar(t, LiveSize))
        BY <4>1 DEF history_bar, Resumes, Uniform
      <4> QED BY <1>1, <4>2, FeedRaisesNot
    <3>3. CASE history_ends
      BY <1>1, <3>3 DEF history_ends, feederVars
    <3>4. CASE list_bar
      <4>1. reading /\ history = None /\ unread_data = <<>> /\ feed(SourceBar(Head(feeder), LiveSize))
        BY <3>4 DEF list_bar, Resumes
      <4>2. feeder \in Seq(Nat) /\ feeder # <<>> /\ \A k \in 1..Len(feeder) : feeder[k] % LiveSize = 0
        BY <2>1, <4>1 DEF SourcesInv
      <4>3. Head(feeder) \in Nat /\ Head(feeder) = feeder[1] /\ 1 \in 1..Len(feeder)
        BY <4>2
      <4> QED BY <1>1, <4>1, <4>2, <4>3, FeedRaisesNot
    <3> QED BY <2>1, <3>1, <3>2, <3>3, <3>4 DEF FeederNext
  <2> QED BY <1>1, <2>1, <2>2 DEF RaisesWhenEarly, Early
<1> QED BY <1>2, <1>3, <1>4 DEF Next

(* Where the bars of both feeders are of one size, composers open with the *)
(* first data and intervals start at whole Durations, the feeder's         *)
(* composer never raises, and new_bar of the framework does at a bar       *)
(* before the time an interval starts at, and at no other.                 *)
THEOREM RaisesOnlyEarly ==
  ASSUME Uniform
  PROVE  Spec => []RaisesWhenEarly
<1>1. HistorySize % LiveSize = 0
  <2>1. (LiveSize * 1) % LiveSize = 0 /\ LiveSize * 1 = LiveSize
    BY Sizes, Product
  <2> QED BY <2>1 DEF Uniform
<1>2. Init => FeederIInv /\ IntervalsInv /\ RaisesWhenEarly
  <2>1. Init => RaisesWhenEarly
    BY DEF Init, FeederInit, composer, RaisesWhenEarly, Range
  <2> QED BY <2>1, FeederInitially, IntervalsInitially
<1>3. FeederIInv /\ IntervalsInv /\ RaisesWhenEarly /\ [Next]_vars => (FeederIInv /\ IntervalsInv /\ RaisesWhenEarly)'
  BY <1>1, FeederInductive, IntervalsStep, RaisesStep
<1> QED BY <1>2, <1>3, PTL DEF Spec
=============================================================================
