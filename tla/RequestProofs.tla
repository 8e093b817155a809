---------------------------- MODULE RequestProofs ----------------------------
(***************************************************************************)
(* Proofs about parts that the run of the requests checks: the streak of    *)
(* computeStreak and what is shown of it; the answers of the collections;   *)
(* the pages of the nightly job; the streaks of the faith services.         *)
(***************************************************************************)
EXTENDS PracticeStreaks, CollectionReader, RollupPaging, FiniteSetTheorems, WellFoundedInduction, TLAPS

-----------------------------------------------------------------------------
(* StreakLedger                                                             *)

\* A set of naturals has a least element: what stands in for induction here.
LEMMA LeastNat ==
    ASSUME NEW T, T \subseteq Nat, T # {}
    PROVE  \E x \in T : \A y \in T : x <= y
<1> DEFINE R == OpToRel(<, Nat)
<1>1. IsWellFoundedOn(R, Nat)
  BY NatLessThanWellFounded
<1>2. PICK x \in T : \A y \in T : ~ (<<y, x>> \in R)
  <2> HIDE DEF R
  <2> QED
    BY <1>1, WFMin
<1>3. \A y \in T : y < x => <<y, x>> \in R
  BY DEF OpToRel
<1> HIDE DEF R
<1>4. \A y \in T : y \in Int
  OBVIOUS
<1>5. \A y \in T : ~ (y < x)
  BY <1>2, <1>3
<1> QED
  BY <1>4, <1>5, SMT

\* Months follow one another, and the next begins on its first day.
LEMMA Months ==
    /\ \A d \in Nat : MonthOf(d) \in Nat /\ FirstDayOfNextMonth(d) \in Nat
    /\ \A d, e \in Nat : d <= e => MonthOf(d) <= MonthOf(e)
    /\ \A d \in Nat : d + 1 # FirstDayOfNextMonth(d) => MonthOf(d + 1) = MonthOf(d)
    /\ \A d \in Nat : d + 1 = FirstDayOfNextMonth(d) => MonthOf(d + 1) = MonthOf(d) + 1
BY CalendarAssumption DEF MonthOf, FirstDayOfNextMonth, CalendarAssumption

-----------------------------------------------------------------------------
(* The scan of computeStreak                                                *)

ScanFirst(first) == [last |-> first, run |-> 1, longest |-> 1, spent |-> <<>>]

\* The states of the scan of the days from `first' to `top'.
IsScan(f, days, first, top) ==
    f = [d \in first .. top |->
            IF d = first THEN ScanFirst(first)
            ELSE IF d \in days THEN ScanDay(f[d - 1], d) ELSE f[d - 1]]

LEMMA ScanExists ==
    ASSUME NEW days, NEW first \in Nat, NEW top \in Nat, first <= top
    PROVE  \E f : IsScan(f, days, first, top)
<1> DEFINE T == {n \in Nat : ~ \E f : IsScan(f, days, first, first + n)}
<1>1. SUFFICES ASSUME T # {} PROVE FALSE
  <2>1. top - first \in Nat /\ first + (top - first) = top
    OBVIOUS
  <2>2. T = {} => ~ (top - first \in T)
    OBVIOUS
  <2> QED
    BY <1>1, <2>1, <2>2
<1>2. PICK n \in T : \A m \in T : n <= m
  <2>1. T \subseteq Nat
    OBVIOUS
  <2> HIDE DEF T
  <2> QED
    BY <1>1, <2>1, LeastNat
<1>3. n \in Nat /\ ~ \E f : IsScan(f, days, first, first + n)
  BY <1>2
<1>4. CASE n = 0
  <2> DEFINE f == [d \in first .. first |-> ScanFirst(first)]
  <2>1. IsScan(f, days, first, first)
    BY DEF IsScan
  <2> QED
    BY <1>3, <1>4, <2>1
<1>5. CASE n # 0
  <2>1. n - 1 \in Nat /\ n - 1 \notin T
    BY <1>2, <1>3, <1>5
  <2>2. PICK g : IsScan(g, days, first, first + (n - 1))
    BY <2>1
  <2> DEFINE top1 == first + n
             f == [d \in first .. top1 |->
                    IF d # top1 THEN g[d]
                    ELSE IF top1 \in days THEN ScanDay(g[top1 - 1], top1) ELSE g[top1 - 1]]
  <2>3. \A d \in first .. top1 : d # top1 => d \in first .. first + (n - 1)
    BY <1>3, <2>1
  <2>4. top1 # first /\ top1 \in first .. top1 /\ top1 - 1 \in first .. top1 /\ top1 - 1 # top1
    BY <1>3, <1>5
  <2>5. ASSUME NEW d \in first .. top1
        PROVE  f[d] = IF d = first THEN ScanFirst(first)
                      ELSE IF d \in days THEN ScanDay(f[d - 1], d) ELSE f[d - 1]
    <3>1. CASE d = top1
      <4>1. f[d] = (IF top1 \in days THEN ScanDay(g[top1 - 1], top1) ELSE g[top1 - 1])
        BY <3>1, <2>4
      <4>2. f[top1 - 1] = g[top1 - 1]
        BY <2>4
      <4> HIDE DEF f, top1
      <4> QED
        BY <2>4, <3>1, <4>1, <4>2
    <3>2. CASE d # top1
      <4>1. d \in first .. first + (n - 1) /\ f[d] = g[d]
        BY <2>3, <3>2
      <4>2. g[d] = IF d = first THEN ScanFirst(first)
                   ELSE IF d \in days THEN ScanDay(g[d - 1], d) ELSE g[d - 1]
        BY <2>2, <4>1, Zenon DEF IsScan
      <4>3. d # first => f[d - 1] = g[d - 1]
        <5>1. d # first => d - 1 \in first .. top1 /\ d - 1 # top1
          BY <1>3
        <5> QED
          BY <5>1
      <4> HIDE DEF f, top1
      <4> QED
        BY <4>1, <4>2, <4>3
    <3> QED
      BY <3>1, <3>2
  <2>6. IsScan(f, days, first, top1)
    <3>1. f = [d \in first .. top1 |-> f[d]]
      OBVIOUS
    <3> HIDE DEF f, top1
    <3> QED
      BY <2>5, <3>1, Zenon DEF IsScan
  <2> QED
    BY <1>3, <2>6
<1> QED
  BY <1>3, <1>4, <1>5

\* Two scans agree as far as their days do.
LEMMA ScansAgree ==
    ASSUME NEW days, NEW other, NEW first \in Nat, NEW top \in Nat, NEW top2 \in Nat,
           NEW f, NEW g, IsScan(f, days, first, top), IsScan(g, other, first, top2),
           NEW upTo \in Nat, upTo <= top, upTo <= top2,
           \A d \in first + 1 .. upTo : d \in days <=> d \in other
    PROVE  \A d \in first .. upTo : f[d] = g[d]
<1> DEFINE T == {n \in Nat : n \in first .. upTo /\ f[n] # g[n]}
<1>1. SUFFICES ASSUME T # {} PROVE FALSE
  OBVIOUS
<1>2. PICK n \in T : \A m \in T : n <= m
  <2>1. T \subseteq Nat
    OBVIOUS
  <2> HIDE DEF T
  <2> QED
    BY <1>1, <2>1, LeastNat
<1>3. n \in first .. upTo /\ n \in first .. top /\ n \in first .. top2 /\ f[n] # g[n]
  BY <1>2
<1>4. f[n] = IF n = first THEN ScanFirst(first)
             ELSE IF n \in days THEN ScanDay(f[n - 1], n) ELSE f[n - 1]
  BY <1>3, Zenon DEF IsScan
<1>5. g[n] = IF n = first THEN ScanFirst(first)
             ELSE IF n \in other THEN ScanDay(g[n - 1], n) ELSE g[n - 1]
  BY <1>3, Zenon DEF IsScan
<1>6. n # first => f[n - 1] = g[n - 1] /\ (n \in days <=> n \in other)
  BY <1>2, <1>3
<1> QED
  BY <1>3, <1>4, <1>5, <1>6

\* The result of the scan is its last state.
LEMMA ScanIsLast ==
    ASSUME NEW days, Earliest(days) \in Nat, Latest(days) \in Nat, Earliest(days) <= Latest(days),
           NEW f, IsScan(f, days, Earliest(days), Latest(days))
    PROVE  Scan(days) = f[Latest(days)]
<1> DEFINE first == Earliest(days)
           final == Latest(days)
           upTo == CHOOSE g : IsScan(g, days, first, final)
<1>1. IsScan(upTo, days, first, final)
  <2> HIDE DEF first, final
  <2> QED
    BY Zenon DEF first, final
<1>2. upTo[final] = f[final]
  BY <1>1, ScansAgree
<1>3. Scan(days) = upTo[final]
  BY Zenon DEF Scan, IsScan, ScanFirst
<1> QED
  BY <1>2, <1>3

LEMMA NeededCounts ==
    ASSUME NEW a \in Int, NEW b \in Int, NEW gap \in SUBSET (a .. b), NEW month
    PROVE  /\ Needed(gap, month) \in Nat
           /\ \A part \in SUBSET gap : Needed(part, month) \in Nat /\ Needed(part, month) <= Needed(gap, month)
<1>1. IsFiniteSet(gap)
  BY FS_Interval, FS_Subset
<1>2. ASSUME NEW part \in SUBSET gap
      PROVE  Needed(part, month) \in Nat /\ Needed(part, month) <= Needed(gap, month)
  <2> DEFINE of(set) == {d \in set : MonthOf(d) = month}
  <2>1. of(part) \in SUBSET of(gap) /\ of(gap) \in SUBSET gap
    OBVIOUS
  <2>2. IsFiniteSet(of(gap)) /\ IsFiniteSet(of(part))
    <3> HIDE DEF of
    <3> QED
      BY <1>1, <2>1, FS_Subset
  <2>3. Cardinality(of(part)) \in Nat /\ Cardinality(of(part)) <= Cardinality(of(gap))
    <3> HIDE DEF of
    <3> QED
      BY <2>1, <2>2, FS_Subset, FS_CardinalityType
  <2> QED
    BY <2>3 DEF Needed
<1> QED
  BY <1>2

\* What the scan knows after the days up to some day: it stands on the last of
\* them, and has charged no later month.
ScanKnows(scan, days, day) ==
    /\ scan.last \in days /\ scan.last <= day
    /\ \A d \in days : d <= day => d <= scan.last
    /\ scan.run \in Nat \ {0} /\ scan.longest \in Nat
    /\ \A m : SpentIn(scan.spent, m) \in Nat
    /\ \A m \in DOMAIN scan.spent : m \in Nat /\ m <= MonthOf(scan.last)

LEMMA ScanDayKnows ==
    ASSUME NEW days \in SUBSET Nat, NEW scan, NEW day \in days, day > 0, ScanKnows(scan, days, day - 1)
    PROVE  ScanKnows(ScanDay(scan, day), days, day)
<1> DEFINE gap == GapBetween(scan.last, day)
           after == ScanDay(scan, day)
<1>1. /\ scan.last \in Nat /\ scan.last <= day - 1 /\ day \in Nat
      /\ scan.run \in Nat \ {0} /\ scan.longest \in Nat
  BY DEF ScanKnows
<1>2. after.last = day /\ after.run \in Nat \ {0} /\ after.longest \in Nat
  BY <1>1 DEF ScanDay
<1>3. after.spent = scan.spent \/ after.spent = Charge(gap, scan.spent)
  BY DEF ScanDay
<1>4. \A m : Needed(gap, m) \in Nat
  <2>1. gap \in SUBSET (scan.last + 1 .. day - 1) /\ scan.last + 1 \in Int /\ day - 1 \in Int
    BY <1>1 DEF GapBetween
  <2> HIDE DEF gap
  <2> QED
    BY <2>1, NeededCounts
<1>5. \A d \in gap : d \in Nat /\ d <= day
  BY <1>1 DEF GapBetween
<1>6. \A m : SpentIn(after.spent, m) \in Nat
  <2> SUFFICES ASSUME NEW m, after.spent = Charge(gap, scan.spent) PROVE SpentIn(after.spent, m) \in Nat
    BY <1>3 DEF ScanKnows
  <2>1. SpentIn(scan.spent, m) \in Nat /\ Needed(gap, m) \in Nat
    BY <1>4 DEF ScanKnows
  <2> HIDE DEF gap
  <2> QED
    BY <2>1 DEF SpentIn, Charge
<1>7. \A m \in DOMAIN after.spent : m \in Nat /\ m <= MonthOf(day)
  <2>1. \A m \in DOMAIN scan.spent : m \in Nat /\ m <= MonthOf(day)
    <3>1. MonthOf(scan.last) <= MonthOf(day) /\ MonthOf(scan.last) \in Nat /\ MonthOf(day) \in Nat
      BY <1>1, Months
    <3> QED
      BY <3>1 DEF ScanKnows
  <2>2. \A m \in {MonthOf(d) : d \in gap} : m \in Nat /\ m <= MonthOf(day)
    BY <1>1, <1>5, Months
  <2>3. after.spent = Charge(gap, scan.spent)
            => DOMAIN after.spent = DOMAIN scan.spent \union {MonthOf(d) : d \in gap}
    BY DEF Charge
  <2> HIDE DEF gap
  <2> QED
    BY <1>3, <2>1, <2>2, <2>3
<1> QED
  BY <1>1, <1>2, <1>6, <1>7 DEF ScanKnows

LEMMA ScanAlways ==
    ASSUME NEW days \in SUBSET Nat, NEW first \in days, NEW top \in Nat, NEW f, IsScan(f, days, first, top),
           \A d \in days : first <= d
    PROVE  \A day \in first .. top : ScanKnows(f[day], days, day)
<1> DEFINE T == {n \in Nat : n \in first .. top /\ ~ ScanKnows(f[n], days, n)}
<1>1. SUFFICES ASSUME T # {} PROVE FALSE
  OBVIOUS
<1>2. PICK n \in T : \A m \in T : n <= m
  <2>1. T \subseteq Nat
    OBVIOUS
  <2> HIDE DEF T
  <2> QED
    BY <1>1, <2>1, LeastNat
<1>3. n \in first .. top /\ n \in Nat /\ ~ ScanKnows(f[n], days, n)
  BY <1>2
<1>4. f[n] = IF n = first THEN ScanFirst(first)
             ELSE IF n \in days THEN ScanDay(f[n - 1], n) ELSE f[n - 1]
  BY <1>3, Zenon DEF IsScan
<1>5. CASE n = first
  <2>1. \A m : m \notin DOMAIN <<>>
    OBVIOUS
  <2> QED
    BY <1>3, <1>4, <1>5, <2>1 DEF ScanKnows, ScanFirst, SpentIn
<1>6. CASE n # first
  <2>1. n > 0 /\ ScanKnows(f[n - 1], days, n - 1)
    BY <1>2, <1>3, <1>6
  <2>2. CASE n \in days
    BY <1>3, <1>4, <1>6, <2>1, <2>2, ScanDayKnows
  <2>3. CASE n \notin days
    <3>1. \A d \in days : d <= n => d <= n - 1
      BY <1>3, <2>3
    <3>2. f[n - 1].last \in days /\ f[n - 1].last <= n - 1
      BY <2>1 DEF ScanKnows
    <3>3. f[n] = f[n - 1] /\ n \in Nat /\ f[n - 1].last \in Nat
      BY <1>3, <1>4, <1>6, <2>3, <3>2
    <3>4. f[n - 1].last <= n
      BY <3>2, <3>3
    <3> QED
      BY <2>1, <3>1, <3>3, <3>4 DEF ScanKnows
  <2> QED
    BY <2>2, <2>3
<1> QED
  BY <1>5, <1>6

\* The first and the last of some days.
LEMMA EndsOfDays ==
    ASSUME NEW days \in SUBSET Nat, days # {}, NEW top \in Nat, \A d \in days : d <= top
    PROVE  /\ Earliest(days) \in days /\ Earliest(days) \in Nat /\ \A d \in days : Earliest(days) <= d
           /\ Latest(days) \in days /\ Latest(days) \in Nat /\ \A d \in days : d <= Latest(days)
<1>0. \A d \in days : d \in Nat
  OBVIOUS
<1>1. \E d \in days : \A e \in days : d <= e
  BY LeastNat
<1>2. \E d \in days : \A e \in days : e <= d
  <2> DEFINE back == {top - d : d \in days}
  <2>1. back \subseteq Nat
    BY <1>0
  <2>2. back # {}
    OBVIOUS
  <2>3. PICK x \in back : \A y \in back : x <= y
    <3> HIDE DEF back
    <3> QED
      BY <2>1, <2>2, LeastNat
  <2>4. PICK d \in days : x = top - d
    BY <2>3
  <2>5. ASSUME NEW e \in days PROVE e <= d
    <3>1. top - e \in back
      OBVIOUS
    <3>2. x <= top - e
      BY <2>3, <3>1
    <3> QED
      BY <1>0, <2>4, <3>2
  <2> QED
    BY <2>5
<1>3. Earliest(days) \in days /\ \A d \in days : Earliest(days) <= d
  BY <1>1 DEF Earliest
<1>4. Latest(days) \in days /\ \A d \in days : d <= Latest(days)
  BY <1>2 DEF Latest
<1> QED
  BY <1>0, <1>3, <1>4

\* The scan of days of which there are any.
LEMMA ScanOfDays ==
    ASSUME NEW days \in SUBSET Nat, days # {}, NEW top \in Nat, \A d \in days : d <= top
    PROVE  ScanKnows(Scan(days), days, Latest(days)) /\ Scan(days).last = Latest(days)
<1>1. /\ Earliest(days) \in days /\ Earliest(days) \in Nat /\ \A d \in days : Earliest(days) <= d
      /\ Latest(days) \in days /\ Latest(days) \in Nat /\ \A d \in days : d <= Latest(days)
  BY EndsOfDays
<1>2. Earliest(days) <= Latest(days)
  BY <1>1
<1>3. PICK f : IsScan(f, days, Earliest(days), Latest(days))
  BY <1>1, <1>2, ScanExists
<1>4. Scan(days) = f[Latest(days)]
  BY <1>1, <1>2, <1>3, ScanIsLast
<1>5. ScanKnows(f[Latest(days)], days, Latest(days))
  <2>1. Latest(days) \in Earliest(days) .. Latest(days)
    BY <1>1, <1>2
  <2> QED
    BY <1>1, <1>3, <2>1, ScanAlways
<1>6. f[Latest(days)].last = Latest(days)
  <2>1. f[Latest(days)].last \in days /\ Latest(days) <= f[Latest(days)].last
    BY <1>1, <1>5 DEF ScanKnows
  <2>2. f[Latest(days)].last <= Latest(days) /\ f[Latest(days)].last \in Nat
    BY <1>1, <2>1
  <2> QED
    BY <1>1, <2>1, <2>2
<1> QED
  BY <1>4, <1>5, <1>6

\* A later day is one step more.
LEMMA ScanOfFirst ==
    ASSUME NEW day \in Nat
    PROVE  Scan({day}) = ScanFirst(day)
<1>1. Earliest({day}) = day /\ Latest({day}) = day
  <2>1. {day} \in SUBSET Nat /\ \A d \in {day} : d <= day
    OBVIOUS
  <2> QED
    BY <2>1, EndsOfDays
<1>2. PICK f : IsScan(f, {day}, day, day)
  <2>1. day <= day
    OBVIOUS
  <2> QED
    BY <2>1, ScanExists
<1>3. Scan({day}) = f[day]
  BY <1>1, <1>2, ScanIsLast
<1>4. day \in day .. day
  OBVIOUS
<1> QED
  BY <1>2, <1>3, <1>4 DEF IsScan

\* Between two of its days a scan stands still.
LEMMA ScanRests ==
    ASSUME NEW days \in SUBSET Nat, NEW first \in Nat, NEW top \in Nat, NEW f, IsScan(f, days, first, top),
           NEW final \in first .. top, NEW upTo \in final .. top, \A d \in days : d <= final \/ d > upTo
    PROVE  \A d \in final .. upTo : f[d] = f[final]
<1> DEFINE T == {n \in Nat : n \in final .. upTo /\ f[n] # f[final]}
<1>1. SUFFICES ASSUME T # {} PROVE FALSE
  OBVIOUS
<1>2. PICK n \in T : \A m \in T : n <= m
  <2>1. T \subseteq Nat
    OBVIOUS
  <2> HIDE DEF T
  <2> QED
    BY <1>1, <2>1, LeastNat
<1>3. n \in final .. upTo /\ n # final /\ f[n - 1] = f[final] /\ f[n] # f[final]
  BY <1>2
<1>4. n \in first .. top /\ n # first /\ n \notin days
  BY <1>3
<1>5. f[n] = f[n - 1]
  BY <1>4, Zenon DEF IsScan
<1> QED
  BY <1>3, <1>5

LEMMA ScanOfMore ==
    ASSUME NEW days \in SUBSET Nat, days # {}, NEW day \in Nat, \A d \in days : d < day
    PROVE  Scan(days \union {day}) = ScanDay(Scan(days), day)
<1> DEFINE more == days \union {day}
<1>1. /\ Earliest(days) \in days /\ Earliest(days) \in Nat /\ \A d \in days : Earliest(days) <= d
      /\ Latest(days) \in days /\ Latest(days) \in Nat /\ \A d \in days : d <= Latest(days)
  <2>1. \A d \in days : d <= day
    OBVIOUS
  <2> QED
    BY <2>1, EndsOfDays
<1>2. /\ Earliest(more) \in more /\ Earliest(more) \in Nat /\ \A d \in more : Earliest(more) <= d
      /\ Latest(more) \in more /\ Latest(more) \in Nat /\ \A d \in more : d <= Latest(more)
  <2>1. more \in SUBSET Nat /\ more # {} /\ \A d \in more : d <= day
    OBVIOUS
  <2> HIDE DEF more
  <2> QED
    BY <2>1, EndsOfDays
<1>3. /\ Latest(days) < day /\ Earliest(days) <= Latest(days)
      /\ Earliest(days) \in more /\ day \in more
  BY <1>1
<1>4. Earliest(more) = Earliest(days) /\ Latest(more) = day
  <2>1. Earliest(more) <= Earliest(days) /\ day <= Latest(more)
    BY <1>2, <1>3
  <2>2. Earliest(more) # day /\ Latest(more) <= day
    BY <1>1, <1>2, <1>3, <2>1
  <2>3. Earliest(days) <= Earliest(more)
    BY <1>1, <1>2, <2>2
  <2> QED
    BY <1>1, <1>2, <2>1, <2>2, <2>3
<1> DEFINE first == Earliest(days)
           final == Latest(days)
<1>5. PICK f : IsScan(f, more, first, day)
  BY <1>1, <1>3, ScanExists
<1>6. PICK h : IsScan(h, days, first, final)
  BY <1>1, <1>3, ScanExists
<1>7. Scan(more) = f[day] /\ Scan(days) = h[final]
  BY <1>1, <1>2, <1>3, <1>4, <1>5, <1>6, ScanIsLast
<1>8. f[day] = ScanDay(f[day - 1], day)
  <2>1. day \in first .. day /\ day # first /\ day \in more
    BY <1>1, <1>3
  <2> QED
    BY <1>5, <2>1, Zenon DEF IsScan
<1>9. f[final] = h[final]
  <2>1. \A d \in first + 1 .. final : d \in more <=> d \in days
    BY <1>1, <1>3
  <2>2. final <= day /\ final <= final /\ final \in first .. final /\ first \in Nat /\ final \in Nat
    BY <1>1, <1>3
  <2> HIDE DEF more, first, final
  <2>3. \A d \in first .. final : f[d] = h[d]
    BY <1>5, <1>6, <2>1, <2>2, ScansAgree
  <2> QED
    BY <2>2, <2>3
<1>10. f[day - 1] = f[final]
  <2>1. final \in first .. day /\ day - 1 \in final .. day /\ day - 1 \in final .. day - 1
    BY <1>1, <1>3
  <2>2. more \in SUBSET Nat /\ \A d \in more : d <= final \/ d > day - 1
    BY <1>1
  <2>3. first \in Nat
    BY <1>1
  <2> HIDE DEF more, first, final
  <2>4. \A d \in final .. day - 1 : f[d] = f[final]
    BY <1>5, <2>1, <2>2, <2>3, ScanRests
  <2> QED
    BY <2>1, <2>4
<1> QED
  BY <1>7, <1>8, <1>9, <1>10

-----------------------------------------------------------------------------
(* What the user is shown                                                   *)

DaysOK == today \in Nat /\ met \in SUBSET Nat /\ \A d \in met : d <= today

\* Shown is what the scan computes today, but for the longest run.
ShownIs(streak) ==
    /\ shown.current = streak.current /\ shown.lastGoalMetDay = streak.lastGoalMetDay
    /\ shown.freezesLeft = streak.freezesLeft /\ shown.freezeResetOn = streak.freezeResetOn

\* No scan has counted more than the longest run shown.
LongestShown == shown.longest \in Nat /\ (met # {} => Scan(met).longest <= shown.longest)

LedgerInv == DaysOK /\ ShownIs(ComputeStreak(met, today)) /\ LongestShown

LEMMA ProjectShows ==
    ASSUME NEW days \in SUBSET Nat, NEW day \in Nat, \A d \in days : d <= day, NEW longest
    PROVE  /\ Project(days, day, longest).current = ComputeStreak(days, day).current
           /\ Project(days, day, longest).lastGoalMetDay = ComputeStreak(days, day).lastGoalMetDay
           /\ Project(days, day, longest).freezesLeft = ComputeStreak(days, day).freezesLeft
           /\ Project(days, day, longest).freezeResetOn = ComputeStreak(days, day).freezeResetOn
           /\ Project(days, day, longest).longest = Larger(ComputeStreak(days, day).longest, longest)
<1>1. {d \in days : d <= day} = days
  OBVIOUS
<1>2. PICK a, b, c, e, g : ComputeStreak(days, day)
        = [current |-> a, longest |-> b, lastGoalMetDay |-> c, freezesLeft |-> e, freezeResetOn |-> g]
  <2>1. CASE days = {}
    BY <2>1 DEF ComputeStreak
  <2>2. CASE days # {}
    BY <2>2, Zenon DEF ComputeStreak
  <2> QED
    BY <2>1, <2>2
<1> QED
  BY <1>1, <1>2 DEF Project

\* What computeStreak answers when there are days.
LEMMA StreakOfDays ==
    ASSUME NEW days, days # {}, NEW day
    PROVE  LET scan == Scan(days)
               streak == ComputeStreak(days, day)
           IN  /\ streak.current = IF Payable(GapBetween(Latest(days), day), scan.spent) THEN scan.run ELSE 0
               /\ streak.lastGoalMetDay = Latest(days)
               /\ streak.freezesLeft = FreezesPerMonth - SpentIn(scan.spent, MonthOf(day))
               /\ streak.freezeResetOn = FirstDayOfNextMonth(day)
               /\ streak.longest = scan.longest
BY DEF ComputeStreak

LEMMA StreakOfNone ==
    ASSUME NEW day
    PROVE  /\ ComputeStreak({}, day).current = 0
           /\ ComputeStreak({}, day).lastGoalMetDay = NoDay
           /\ ComputeStreak({}, day).freezesLeft = FreezesPerMonth
           /\ ComputeStreak({}, day).freezeResetOn = FirstDayOfNextMonth(day)
           /\ ComputeStreak({}, day).longest = 0
BY DEF ComputeStreak

LEMMA LedgerInvInit == Init => LedgerInv
BY StreakOfNone DEF Init, LedgerInv, DaysOK, ShownIs, LongestShown

LEMMA LedgerInvNext == LedgerInv /\ [Next]_vars => LedgerInv'
<1> SUFFICES ASSUME LedgerInv, [Next]_vars PROVE LedgerInv'
  OBVIOUS
<1>1. ASSUME DaysOK', shown' = Project(met', today', shown.longest) PROVE LedgerInv'
  <2>1. met' \in SUBSET Nat /\ today' \in Nat /\ \A d \in met' : d <= today'
    BY <1>1 DEF DaysOK
  <2>2. (ShownIs(ComputeStreak(met, today)))'
    BY <1>1, <2>1, ProjectShows DEF ShownIs
  <2>3. shown.longest \in Nat /\ shown'.longest = Larger(ComputeStreak(met', today').longest, shown.longest)
    BY <1>1, <2>1, ProjectShows DEF LedgerInv, LongestShown
  <2>4. ASSUME met' = {} PROVE LongestShown'
    BY <2>3, <2>4, StreakOfNone DEF LongestShown, Larger
  <2>5. ASSUME met' # {} PROVE LongestShown'
    <3>1. Scan(met').longest \in Nat
      BY <2>1, <2>5, ScanOfDays DEF ScanKnows
    <3>2. ComputeStreak(met', today').longest = Scan(met').longest
      BY <2>5, StreakOfDays
    <3> QED
      BY <2>3, <3>1, <3>2 DEF LongestShown, Larger
  <2>6. LongestShown'
    BY <2>4, <2>5
  <2> QED
    BY <1>1, <2>2, <2>6 DEF LedgerInv
<1>2. CASE MeetToday
  BY <1>1, <1>2 DEF MeetToday, LedgerInv, DaysOK
<1>3. CASE SyncLate
  BY <1>1, <1>3 DEF SyncLate, LedgerInv, DaysOK
<1>4. CASE Midnight
  <2>1. DaysOK'
    BY <1>4 DEF Midnight, LedgerInv, DaysOK
  <2>2. shown' = Project(met', today', shown.longest)
    BY <1>4 DEF Midnight
  <2> QED
    BY <1>1, <2>1, <2>2
<1>5. CASE UNCHANGED vars
  BY <1>5 DEF vars, LedgerInv, DaysOK, ShownIs, LongestShown
<1> QED
  BY <1>2, <1>3, <1>4, <1>5 DEF Next

\* Nothing is due between a day and itself.
LEMMA NothingDue ==
    ASSUME NEW day \in Nat, NEW spent
    PROVE  Payable(GapBetween(day, day), spent) /\ Payable(GapBetween(day, day + 1), spent)
<1>1. GapBetween(day, day) = {} /\ GapBetween(day, day + 1) = {}
  BY DEF GapBetween
<1> QED
  BY <1>1 DEF Payable

LEMMA MeetingAdds == LedgerInv => MeetingAddsOne
<1> SUFFICES ASSUME LedgerInv, MeetToday PROVE shown'.current = shown.current + 1
  BY DEF MeetingAddsOne
<1> DEFINE more == met \union {today}
<1>1. /\ today \in Nat /\ met \in SUBSET Nat /\ \A d \in met : d < today
      /\ more \in SUBSET Nat /\ \A d \in more : d <= today
  BY DEF LedgerInv, DaysOK, MeetToday
<1>2. shown'.current = ComputeStreak(more, today).current
  <2>1. shown' = Project(more, today, shown.longest)
    BY DEF MeetToday
  <2> HIDE DEF more
  <2> QED
    BY <1>1, <2>1, ProjectShows
<1>3. Latest(more) = today
  <2>1. more # {} /\ today \in more
    OBVIOUS
  <2> HIDE DEF more
  <2>2. Latest(more) \in more /\ Latest(more) \in Nat /\ today <= Latest(more)
    BY <1>1, <2>1, EndsOfDays
  <2> QED
    BY <1>1, <2>2
<1>4. shown'.current = Scan(more).run
  <2>1. more # {}
    OBVIOUS
  <2> HIDE DEF more
  <2>2. ComputeStreak(more, today).current
            = IF Payable(GapBetween(Latest(more), today), Scan(more).spent) THEN Scan(more).run ELSE 0
    BY <2>1, StreakOfDays
  <2>3. Payable(GapBetween(today, today), Scan(more).spent)
    BY <1>1, NothingDue
  <2>4. Payable(GapBetween(Latest(more), today), Scan(more).spent)
    BY <1>3, <2>3
  <2> QED
    BY <1>2, <2>2, <2>4
<1>5. CASE met = {}
  <2>1. Scan(more).run = 1
    <3>1. more = {today}
      BY <1>5
    <3>2. Scan({today}) = ScanFirst(today)
      BY <1>1, ScanOfFirst, Zenon
    <3>3. ScanFirst(today).run = 1
      BY DEF ScanFirst
    <3> HIDE DEF more
    <3> QED
      BY <3>1, <3>2, <3>3, Zenon
  <2>2. shown.current = 0
    BY <1>5, StreakOfNone DEF LedgerInv, ShownIs
  <2> QED
    BY <1>4, <2>1, <2>2
<1>6. CASE met # {}
  <2>1. Scan(more) = ScanDay(Scan(met), today)
    BY <1>1, <1>6, ScanOfMore
  <2>2. Scan(met).last = Latest(met) /\ Scan(met).run \in Nat
    <3>1. \A d \in met : d <= today
      BY <1>1
    <3> QED
      BY <1>1, <1>6, <3>1, ScanOfDays DEF ScanKnows
  <2>3. Scan(more).run = IF Payable(GapBetween(Latest(met), today), Scan(met).spent)
                         THEN Scan(met).run + 1 ELSE 1
    BY <2>1, <2>2 DEF ScanDay
  <2>4. shown.current = IF Payable(GapBetween(Latest(met), today), Scan(met).spent)
                        THEN Scan(met).run ELSE 0
    BY <1>6, StreakOfDays DEF LedgerInv, ShownIs
  <2> QED
    BY <1>4, <2>2, <2>3, <2>4
<1> QED
  BY <1>5, <1>6

LEMMA MidnightIsFree == LedgerInv => MidnightChargesNothing
<1> SUFFICES ASSUME LedgerInv, Midnight
             PROVE  /\ shown'.current \in {shown.current, 0}
                    /\ today \in met => shown'.current = shown.current
                    /\ today' # shown.freezeResetOn => shown'.freezesLeft = shown.freezesLeft
                    /\ today' = shown.freezeResetOn => shown'.freezesLeft = FreezesPerMonth
  BY DEF MidnightChargesNothing
<1>1. /\ today \in Nat /\ met \in SUBSET Nat /\ \A d \in met : d <= today
      /\ today' = today + 1 /\ today + 1 \in Nat /\ \A d \in met : d <= today + 1
      /\ shown' = Project(met, today + 1, shown.longest)
      /\ shown.freezeResetOn = FirstDayOfNextMonth(today)
  <2>1. shown.freezeResetOn = FirstDayOfNextMonth(today)
    BY StreakOfDays, StreakOfNone DEF LedgerInv, ShownIs
  <2> QED
    BY <2>1 DEF LedgerInv, DaysOK, Midnight
<1>2. /\ shown'.current = ComputeStreak(met, today + 1).current
      /\ shown'.freezesLeft = ComputeStreak(met, today + 1).freezesLeft
  BY <1>1, ProjectShows
<1>3. /\ MonthOf(today) \in Nat
      /\ today + 1 # FirstDayOfNextMonth(today) => MonthOf(today + 1) = MonthOf(today)
      /\ today + 1 = FirstDayOfNextMonth(today) => MonthOf(today + 1) = MonthOf(today) + 1
  BY <1>1, Months
<1>4. CASE met = {}
  BY <1>1, <1>2, <1>4, StreakOfNone DEF LedgerInv, ShownIs
<1>5. CASE met # {}
  <2> DEFINE scan == Scan(met)
             due == GapBetween(Latest(met), today)
             dueNext == GapBetween(Latest(met), today + 1)
  <2>1. /\ ScanKnows(scan, met, Latest(met)) /\ scan.last = Latest(met)
        /\ Latest(met) \in met /\ Latest(met) \in Nat /\ \A d \in met : d <= Latest(met)
    BY <1>1, <1>5, ScanOfDays, EndsOfDays
  <2>2. /\ shown'.current = IF Payable(dueNext, scan.spent) THEN scan.run ELSE 0
        /\ shown'.freezesLeft = FreezesPerMonth - SpentIn(scan.spent, MonthOf(today + 1))
        /\ shown.current = IF Payable(due, scan.spent) THEN scan.run ELSE 0
        /\ shown.freezesLeft = FreezesPerMonth - SpentIn(scan.spent, MonthOf(today))
    BY <1>2, <1>5, StreakOfDays DEF LedgerInv, ShownIs
  <2>3. Payable(dueNext, scan.spent) => Payable(due, scan.spent)
    <3>1. due \in SUBSET dueNext /\ dueNext \in SUBSET (Latest(met) + 1 .. today)
      BY <1>1, <2>1 DEF GapBetween
    <3>2. Latest(met) + 1 \in Int /\ today \in Int
      BY <1>1, <2>1
    <3> HIDE DEF due, dueNext
    <3>3. \A m : /\ Needed(due, m) \in Nat /\ Needed(dueNext, m) \in Nat
                 /\ Needed(due, m) <= Needed(dueNext, m)
      BY <3>1, <3>2, NeededCounts
    <3>4. \A m : FreezesPerMonth - SpentIn(scan.spent, m) \in Int
      BY <2>1, FreezeAssumption DEF ScanKnows, FreezeAssumption
    <3> HIDE DEF scan
    <3> QED
      BY <3>1, <3>3, <3>4 DEF Payable
  <2>4. today \in met => Latest(met) = today
    BY <1>1, <2>1
  <2>5. today + 1 = FirstDayOfNextMonth(today) => SpentIn(scan.spent, MonthOf(today + 1)) = 0
    <3>1. MonthOf(Latest(met)) <= MonthOf(today) /\ MonthOf(Latest(met)) \in Nat
      BY <1>1, <2>1, Months
    <3>2. today + 1 = FirstDayOfNextMonth(today) => MonthOf(today + 1) \notin DOMAIN scan.spent
      BY <1>3, <2>1, <3>1 DEF ScanKnows
    <3> QED
      BY <3>2 DEF SpentIn
  <2>6. today \in met => Payable(dueNext, scan.spent) /\ Payable(due, scan.spent)
    BY <1>1, <2>4, NothingDue
  <2> HIDE DEF scan, due, dueNext
  <2> QED
    BY <1>1, <1>3, <2>2, <2>3, <2>5, <2>6, FreezeAssumption DEF FreezeAssumption
<1> QED
  BY <1>4, <1>5

\* Whatever the length of the months and their allowance, and in whatever order
\* days are met, synced late and pass: meeting the goal adds exactly one to the
\* streak shown, and midnight takes a streak only for days that no month pays for
\* (computeStreak and streakFrom of rollup.service.ts).
THEOREM StreakMovesByRule == Spec => ShownMovesByRule
<1>1. LedgerInv /\ [Next]_vars => [MeetingAddsOne /\ MidnightChargesNothing]_vars
  BY MeetingAdds, MidnightIsFree
<1> QED
  BY <1>1, LedgerInvInit, LedgerInvNext, PTL DEF Spec, ShownMovesByRule

-----------------------------------------------------------------------------
(* The scan and the bridged gaps                                            *)

GapDays(gap) == GapBetween(gap[1], gap[2])

\* The gaps the scan pays for; those that end by a day.
PaidGaps(f) == {gap \in Gaps : Payable(GapDays(gap), f[gap[2] - 1].spent)}
EndedBy(gaps, day) == {g \in gaps : g[2] <= day}

\* A set of gaps in which each is bridged exactly when its months can pay.
Consistent(gaps) ==
    \A gap \in Gaps :
        gap \in gaps <=>
            \A day \in GapDays(gap) :
                Needed(DaysOf(EndedBy(gaps, gap[1])) \union GapDays(gap), MonthOf(day)) <= FreezesPerMonth

LEMMA GapsAre ==
    ASSUME DaysOK, NEW gap \in Gaps
    PROVE  /\ gap = <<gap[1], gap[2]>> /\ gap[1] \in met /\ gap[2] \in met
           /\ gap[1] \in Nat /\ gap[2] \in Nat /\ gap[1] + 1 < gap[2]
           /\ \A e \in met : e <= gap[1] \/ gap[2] <= e
           /\ GapDays(gap) = gap[1] + 1 .. gap[2] - 1
<1>1. gap \in met \X met /\ gap[1] + 1 < gap[2] /\ GapBetween(gap[1], gap[2]) \intersect met = {}
  <2>1. gap \in met \X met
    BY DEF Gaps
  <2>2. gap[1] + 1 < gap[2]
    BY DEF Gaps
  <2>3. GapBetween(gap[1], gap[2]) \intersect met = {}
    BY DEF Gaps
  <2> QED
    BY <2>1, <2>2, <2>3
<1>2. /\ gap = <<gap[1], gap[2]>> /\ gap[1] \in met /\ gap[2] \in met /\ gap[1] \in Nat /\ gap[2] \in Nat
  <2>1. gap = <<gap[1], gap[2]>> /\ gap[1] \in met /\ gap[2] \in met
    <3>1. gap \in met \X met
      BY <1>1
    <3> QED
      BY <3>1
  <2> QED
    BY <2>1 DEF DaysOK
<1>3. GapDays(gap) = gap[1] + 1 .. gap[2] - 1
  BY DEF GapDays, GapBetween
<1>4. ASSUME NEW e \in met, ~ (e <= gap[1] \/ gap[2] <= e) PROVE FALSE
  <2>1. e \in Nat
    BY DEF DaysOK
  <2>2. e \in gap[1] + 1 .. gap[2] - 1
    BY <1>2, <1>4, <2>1
  <2> QED
    BY <1>1, <1>4, <2>2 DEF GapBetween
<1> QED
  BY <1>1, <1>2, <1>3, <1>4

LEMMA GapDaysWithin ==
    ASSUME DaysOK, NEW gaps \in SUBSET Gaps, NEW day \in Nat
    PROVE  /\ DaysOf(gaps) \in SUBSET (0 .. today)
           /\ DaysOf(EndedBy(gaps, day)) \in SUBSET (0 .. day - 1)
           /\ DaysOf(EndedBy(gaps, day)) \in SUBSET (0 .. today)
<1>1. ASSUME NEW gap \in gaps, NEW d \in GapDays(gap)
      PROVE  d \in 0 .. today /\ (gap[2] <= day => d \in 0 .. day - 1)
  <2>1. gap[1] \in Nat /\ gap[2] \in Nat /\ gap[2] <= today /\ d \in gap[1] + 1 .. gap[2] - 1
    BY <1>1, GapsAre DEF DaysOK
  <2> QED
    BY <2>1 DEF DaysOK
<1> QED
  BY <1>1 DEF DaysOf, EndedBy, GapDays

LEMMA FiniteDays ==
    ASSUME NEW a \in Int, NEW b \in Int, NEW S \in SUBSET (a .. b)
    PROVE  IsFiniteSet(S)
BY FS_Interval, FS_Subset

LEMMA NeededOfTwo ==
    ASSUME NEW S, NEW T, IsFiniteSet(S), IsFiniteSet(T), S \intersect T = {}, NEW month
    PROVE  /\ Needed(S, month) \in Nat /\ Needed(T, month) \in Nat
           /\ Needed(S \union T, month) = Needed(S, month) + Needed(T, month)
<1> DEFINE of(set) == {d \in set : MonthOf(d) = month}
<1>2. of(S) \in SUBSET S /\ of(T) \in SUBSET T /\ of(S) \intersect of(T) = {}
      /\ of(S \union T) = of(S) \union of(T)
  OBVIOUS
<1> HIDE DEF of
<1>3. IsFiniteSet(of(S)) /\ IsFiniteSet(of(T))
  BY <1>2, FS_Subset
<1>4. Cardinality(of(S) \union of(T)) = Cardinality(of(S)) + Cardinality(of(T)) - Cardinality(of(S) \intersect of(T))
  BY <1>3, FS_Union
<1>5. Cardinality(of(S) \intersect of(T)) = 0
  BY <1>2, FS_EmptySet
<1>6. Cardinality(of(S)) \in Nat /\ Cardinality(of(T)) \in Nat
  BY <1>3, FS_CardinalityType
<1>7. /\ Needed(S, month) = Cardinality(of(S)) /\ Needed(T, month) = Cardinality(of(T))
      /\ Needed(S \union T, month) = Cardinality(of(S \union T))
  BY Zenon DEF Needed, of
<1>8. Cardinality(of(S \union T)) = Cardinality(of(S) \union of(T))
  BY <1>2
<1> QED
  BY <1>4, <1>5, <1>6, <1>7, <1>8

LEMMA NeededOfNone ==
    ASSUME NEW gap, NEW month, month \notin {MonthOf(d) : d \in gap}
    PROVE  Needed(gap, month) = 0
<1>1. {d \in gap : MonthOf(d) = month} = {}
  OBVIOUS
<1> QED
  BY <1>1, FS_EmptySet DEF Needed

LEMMA ChargedIs ==
    ASSUME NEW gap, NEW spent, NEW month, SpentIn(spent, month) \in Nat
    PROVE  SpentIn(Charge(gap, spent), month)
            = SpentIn(spent, month) + (IF month \in DOMAIN spent \union {MonthOf(d) : d \in gap}
                                       THEN Needed(gap, month) ELSE 0)
<1> DEFINE months == DOMAIN spent \union {MonthOf(d) : d \in gap}
           charged == [m \in months |-> SpentIn(spent, m) + Needed(gap, m)]
<1>1. Charge(gap, spent) = charged
  BY DEF Charge
<1>2. CASE month \in months
  <2>1. SpentIn(charged, month) = SpentIn(spent, month) + Needed(gap, month)
    <3> HIDE DEF months
    <3> QED
      BY <1>2 DEF SpentIn
  <2> QED
    BY <1>1, <1>2, <2>1
<1>3. CASE month \notin months
  <2>1. SpentIn(charged, month) = 0 /\ SpentIn(spent, month) = 0
    <3>1. month \notin DOMAIN spent
      BY <1>3
    <3> HIDE DEF months
    <3> QED
      BY <1>3, <3>1 DEF SpentIn
  <2> QED
    BY <1>1, <1>3, <2>1
<1> QED
  BY <1>2, <1>3

LEMMA ChargeCounts ==
    ASSUME NEW a \in Int, NEW b \in Int, NEW gap \in SUBSET (a .. b), NEW spent, NEW month,
           SpentIn(spent, month) \in Nat
    PROVE  SpentIn(Charge(gap, spent), month) = SpentIn(spent, month) + Needed(gap, month)
<1>1. Needed(gap, month) \in Nat
  BY NeededCounts
<1> QED
  BY <1>1, ChargedIs, NeededOfNone

\* The gap that a met day ends, where the scan stands before it.
LEMMA PreviousDay ==
    ASSUME DaysOK, NEW day \in met, day > 0, NEW scan, ScanKnows(scan, met, day - 1)
    PROVE  /\ scan.last \in met /\ scan.last \in Nat /\ scan.last < day /\ day \in Nat
           /\ \A e \in met : e <= scan.last \/ day <= e
           /\ \A g \in Gaps : g[2] = day => g = <<scan.last, day>>
           /\ scan.last + 1 < day => <<scan.last, day>> \in Gaps
           /\ \A g \in Gaps : g[2] <= day - 1 <=> g[2] <= scan.last
<1>1. scan.last \in met /\ scan.last \in Nat /\ scan.last < day /\ day \in Nat
  <2>1. \A d \in met : d \in Nat
    BY DEF DaysOK
  <2>2. scan.last \in met /\ scan.last <= day - 1
    BY DEF ScanKnows
  <2> QED
    BY <2>1, <2>2
<1>2. \A e \in met : e \in Nat /\ (e <= scan.last \/ day <= e)
  BY <1>1 DEF ScanKnows, DaysOK
<1>3. ASSUME NEW g \in Gaps, g[2] = day PROVE g = <<scan.last, day>>
  <2>1. /\ g = <<g[1], g[2]>> /\ g[1] \in met /\ g[1] \in Nat /\ g[1] + 1 < g[2]
        /\ \A e \in met : e <= g[1] \/ g[2] <= e
    BY GapsAre
  <2>2. g[1] = scan.last
    BY <1>1, <1>2, <1>3, <2>1
  <2> QED
    BY <1>3, <2>1, <2>2
<1>4. ASSUME scan.last + 1 < day PROVE <<scan.last, day>> \in Gaps
  <2>1. GapBetween(scan.last, day) \intersect met = {}
    BY <1>1, <1>2 DEF GapBetween
  <2> QED
    BY <1>1, <1>4, <2>1 DEF Gaps
<1>5. ASSUME NEW g \in Gaps PROVE g[2] <= day - 1 <=> g[2] <= scan.last
  BY <1>1, <1>2, GapsAre
<1> QED
  BY <1>1, <1>2, <1>3, <1>4, <1>5

\* What the scan has spent is what the gaps it paid for need.
SpentAsPaid(f, day) ==
    \A m : SpentIn(f[day].spent, m) = Needed(DaysOf(EndedBy(PaidGaps(f), day)), m)

LEMMA SpentStep ==
    ASSUME DaysOK, NEW f, NEW day \in met, day > 0, ScanKnows(f[day - 1], met, day - 1),
           f[day] = ScanDay(f[day - 1], day), SpentAsPaid(f, day - 1)
    PROVE  SpentAsPaid(f, day)
<1> DEFINE previous == f[day - 1].last
           charged == DaysOf(EndedBy(PaidGaps(f), day - 1))
           gap == GapBetween(previous, day)
<1>1. /\ previous \in met /\ previous \in Nat /\ previous < day /\ day \in Nat
      /\ \A e \in met : e <= previous \/ day <= e
      /\ \A g \in Gaps : g[2] = day => g = <<previous, day>>
      /\ previous + 1 < day => <<previous, day>> \in Gaps
  BY PreviousDay
<1>2. \A m : SpentIn(f[day - 1].spent, m) \in Nat
  BY DEF ScanKnows
<1>3. f[day].spent = IF Payable(gap, f[day - 1].spent) THEN Charge(gap, f[day - 1].spent) ELSE f[day - 1].spent
  BY DEF ScanDay
<1>4. gap = previous + 1 .. day - 1 /\ gap \in SUBSET (previous + 1 .. day - 1) /\ previous + 1 \in Int /\ day - 1 \in Int
  BY <1>1 DEF GapBetween
<1>5. EndedBy(PaidGaps(f), day)
        = EndedBy(PaidGaps(f), day - 1) \union {g \in PaidGaps(f) : g[2] = day}
  <2>1. \A g \in PaidGaps(f) : g[2] <= day <=> g[2] <= day - 1 \/ g[2] = day
    BY <1>1, GapsAre DEF PaidGaps
  <2> QED
    BY <2>1 DEF EndedBy
<1>6. CASE previous + 1 < day /\ Payable(gap, f[day - 1].spent)
  <2>1. {g \in PaidGaps(f) : g[2] = day} = {<<previous, day>>}
    <3>1. <<previous, day>> \in PaidGaps(f)
      BY <1>1, <1>6 DEF PaidGaps, GapDays
    <3>2. \A g \in PaidGaps(f) : g[2] = day => g = <<previous, day>>
      BY <1>1 DEF PaidGaps
    <3> QED
      BY <3>1, <3>2
  <2>2. DaysOf(EndedBy(PaidGaps(f), day)) = charged \union gap
    <3>1. DaysOf({<<previous, day>>}) = gap
      BY DEF DaysOf
    <3>2. \A S, T : DaysOf(S \union T) = DaysOf(S) \union DaysOf(T)
      BY DEF DaysOf
    <3> HIDE DEF gap
    <3> QED
      BY <1>5, <2>1, <3>1, <3>2
  <2>3. charged \in SUBSET (0 .. previous - 1)
    <3>1. EndedBy(PaidGaps(f), day - 1) = EndedBy(PaidGaps(f), previous)
      <4>1. \A g \in PaidGaps(f) : g[2] <= day - 1 <=> g[2] <= previous
        BY PreviousDay DEF PaidGaps
      <4> QED
        BY <4>1 DEF EndedBy
    <3>2. PaidGaps(f) \in SUBSET Gaps
      BY DEF PaidGaps
    <3> QED
      BY <1>1, <3>1, <3>2, GapDaysWithin
  <2>4. ASSUME NEW m
        PROVE  SpentIn(f[day].spent, m) = Needed(charged \union gap, m)
    <3>1. SpentIn(f[day].spent, m) = SpentIn(f[day - 1].spent, m) + Needed(gap, m)
      <4> HIDE DEF gap
      <4> QED
        BY <1>2, <1>3, <1>4, <1>6, ChargeCounts
    <3>2. SpentIn(f[day - 1].spent, m) = Needed(charged, m)
      BY DEF SpentAsPaid
    <3>3. Needed(charged \union gap, m) = Needed(charged, m) + Needed(gap, m)
      <4>1. charged \intersect gap = {}
        BY <1>1, <1>4, <2>3
      <4>2. IsFiniteSet(gap)
        <5> HIDE DEF gap
        <5> QED
          BY <1>4, FiniteDays
      <4>3. IsFiniteSet(charged)
        <5>1. 0 \in Int /\ previous - 1 \in Int
          BY <1>1
        <5> HIDE DEF charged, previous
        <5> QED
          BY <2>3, <5>1, FiniteDays
      <4> HIDE DEF gap, charged
      <4> QED
        BY <4>1, <4>2, <4>3, NeededOfTwo
    <3> QED
      BY <3>1, <3>2, <3>3
  <2> QED
    BY <2>2, <2>4 DEF SpentAsPaid
<1>7. CASE ~ (previous + 1 < day /\ Payable(gap, f[day - 1].spent))
  <2>1. {g \in PaidGaps(f) : g[2] = day} = {}
    <3> SUFFICES ASSUME NEW g \in PaidGaps(f), g[2] = day PROVE FALSE
      OBVIOUS
    <3>1. g = <<previous, day>> /\ previous + 1 < day
      BY <1>1, GapsAre DEF PaidGaps
    <3>2. Payable(gap, f[day - 1].spent)
      BY <3>1 DEF PaidGaps, GapDays
    <3> QED
      BY <1>7, <3>1, <3>2
  <2>2. ASSUME NEW m PROVE SpentIn(f[day].spent, m) = SpentIn(f[day - 1].spent, m)
    <3>1. CASE Payable(gap, f[day - 1].spent)
      <4>1. gap = {}
        BY <1>1, <1>4, <1>7, <3>1
      <4>2. Needed(gap, m) = 0
        BY <4>1, NeededOfNone
      <4>3. SpentIn(f[day].spent, m) = SpentIn(f[day - 1].spent, m) + Needed(gap, m)
        <5> HIDE DEF gap
        <5> QED
          BY <1>2, <1>3, <1>4, <3>1, ChargeCounts
      <4> QED
        BY <1>2, <4>2, <4>3
    <3>2. CASE ~ Payable(gap, f[day - 1].spent)
      BY <1>3, <3>2
    <3> QED
      BY <3>1, <3>2
  <2>3. EndedBy(PaidGaps(f), day) = EndedBy(PaidGaps(f), day - 1)
    BY <1>5, <2>1
  <2> QED
    BY <2>2, <2>3 DEF SpentAsPaid
<1> QED
  BY <1>6, <1>7

\* The scan of all met days.
MetScan(f) ==
    /\ DaysOK /\ met # {}
    /\ IsScan(f, met, Earliest(met), Latest(met))

LEMMA MetScanKnows ==
    ASSUME NEW f, MetScan(f)
    PROVE  /\ Earliest(met) \in met /\ Earliest(met) \in Nat
           /\ Latest(met) \in met /\ Latest(met) \in Nat /\ Earliest(met) <= Latest(met)
           /\ \A d \in met : d \in Nat /\ Earliest(met) <= d /\ d <= Latest(met) /\ d \in Earliest(met) .. Latest(met)
           /\ \A day \in Earliest(met) .. Latest(met) :
                /\ ScanKnows(f[day], met, day)
                /\ f[day] = IF day = Earliest(met) THEN ScanFirst(day)
                            ELSE IF day \in met THEN ScanDay(f[day - 1], day) ELSE f[day - 1]
<1>1. /\ Earliest(met) \in met /\ Earliest(met) \in Nat /\ \A d \in met : Earliest(met) <= d
      /\ Latest(met) \in met /\ Latest(met) \in Nat /\ \A d \in met : d <= Latest(met)
  BY EndsOfDays DEF MetScan, DaysOK
<1>2. \A d \in met : d \in Nat
  BY DEF MetScan, DaysOK
<1>3. \A day \in Earliest(met) .. Latest(met) : ScanKnows(f[day], met, day)
  BY <1>1, ScanAlways DEF MetScan, DaysOK
<1>4. \A day \in Earliest(met) .. Latest(met) :
        f[day] = IF day = Earliest(met) THEN ScanFirst(day)
                 ELSE IF day \in met THEN ScanDay(f[day - 1], day) ELSE f[day - 1]
  BY Zenon DEF MetScan, IsScan
<1>5. Earliest(met) <= Latest(met)
  BY <1>1
<1>6. \A d \in met : d \in Earliest(met) .. Latest(met)
  BY <1>1, <1>2
<1> QED
  BY <1>1, <1>2, <1>3, <1>4, <1>5, <1>6

LEMMA SpentAlways ==
    ASSUME NEW f, MetScan(f)
    PROVE  \A day \in Earliest(met) .. Latest(met) : SpentAsPaid(f, day)
<1> DEFINE T == {n \in Nat : n \in Earliest(met) .. Latest(met) /\ ~ SpentAsPaid(f, n)}
<1>0. DaysOK
  BY DEF MetScan
<1>1. SUFFICES ASSUME T # {} PROVE FALSE
  <2>1. \A day \in Earliest(met) .. Latest(met) : day \in Nat
    BY MetScanKnows
  <2> QED
    BY <1>1, <2>1
<1>2. PICK n \in T : \A m \in T : n <= m
  <2>1. T \subseteq Nat
    OBVIOUS
  <2> HIDE DEF T
  <2> QED
    BY <1>1, <2>1, LeastNat
<1>3. n \in Earliest(met) .. Latest(met) /\ n \in Nat /\ ~ SpentAsPaid(f, n)
  BY <1>2
<1>4. n # Earliest(met) =>
        /\ n > 0 /\ n - 1 \in Earliest(met) .. Latest(met) /\ SpentAsPaid(f, n - 1)
        /\ ScanKnows(f[n - 1], met, n - 1)
  <2>1. n # Earliest(met) => n > 0 /\ n - 1 \in Earliest(met) .. Latest(met) /\ n - 1 \in Nat
    BY <1>3, MetScanKnows
  <2>2. n # Earliest(met) => SpentAsPaid(f, n - 1)
    <3>1. n # Earliest(met) => n - 1 \notin T
      BY <1>2, <1>3
    <3> QED
      BY <2>1, <3>1
  <2>3. n # Earliest(met) => ScanKnows(f[n - 1], met, n - 1)
    BY <2>1, MetScanKnows
  <2> QED
    BY <2>1, <2>2, <2>3
<1>5. CASE n = Earliest(met)
  <2>1. f[n].spent = <<>>
    <3>1. f[n] = ScanFirst(n)
      BY <1>3, <1>5, MetScanKnows
    <3> QED
      BY <3>1 DEF ScanFirst
  <2>2. EndedBy(PaidGaps(f), n) = {}
    <3>1. \A g \in PaidGaps(f) : ~ (g[2] <= n)
      BY <1>0, <1>3, <1>5, GapsAre, MetScanKnows DEF PaidGaps
    <3> QED
      BY <3>1 DEF EndedBy
  <2>3. DaysOf({}) = {}
    BY DEF DaysOf
  <2>4. \A m : Needed({}, m) = 0
    BY NeededOfNone
  <2>5. \A m : SpentIn(<<>>, m) = 0
    BY DEF SpentIn
  <2> QED
    BY <1>3, <2>1, <2>2, <2>3, <2>4, <2>5 DEF SpentAsPaid
<1>6. CASE n # Earliest(met) /\ n \in met
  <2>1. f[n] = ScanDay(f[n - 1], n)
    BY <1>3, <1>6, MetScanKnows
  <2> QED
    BY <1>0, <1>3, <1>4, <1>6, <2>1, SpentStep
<1>7. CASE n # Earliest(met) /\ n \notin met
  <2>1. f[n] = f[n - 1]
    BY <1>3, <1>7, MetScanKnows
  <2>2. \A g \in PaidGaps(f) : g[2] \in Nat /\ g[2] # n
    BY <1>0, <1>7, GapsAre DEF PaidGaps
  <2>3. EndedBy(PaidGaps(f), n) = EndedBy(PaidGaps(f), n - 1)
    BY <1>3, <2>2 DEF EndedBy
  <2> QED
    BY <1>3, <1>4, <1>7, <2>1, <2>3 DEF SpentAsPaid
<1> QED
  BY <1>5, <1>6, <1>7

\* What can be paid, by the scan's account and by that of the gaps.
LEMMA PayableIs ==
    ASSUME NEW S, NEW gap, IsFiniteSet(S), IsFiniteSet(gap), S \intersect gap = {}, NEW spent,
           \A m : SpentIn(spent, m) = Needed(S, m)
    PROVE  Payable(gap, spent) <=> \A d \in gap : Needed(S \union gap, MonthOf(d)) <= FreezesPerMonth
<1>1. \A m : /\ Needed(S, m) \in Nat /\ Needed(gap, m) \in Nat
             /\ Needed(S \union gap, m) = Needed(S, m) + Needed(gap, m)
  BY NeededOfTwo
<1>2. \A m : (FreezesPerMonth - SpentIn(spent, m) >= Needed(gap, m))
                <=> Needed(S \union gap, m) <= FreezesPerMonth
  BY <1>1, FreezeAssumption DEF FreezeAssumption
<1>3. Payable(gap, spent) <=> \A d \in gap : FreezesPerMonth - SpentIn(spent, MonthOf(d)) >= Needed(gap, MonthOf(d))
  BY DEF Payable
<1> QED
  BY <1>2, <1>3

LEMMA PaidConsistent ==
    ASSUME NEW f, MetScan(f)
    PROVE  Consistent(PaidGaps(f)) /\ PaidGaps(f) \in SUBSET Gaps
<1>0. DaysOK /\ PaidGaps(f) \in SUBSET Gaps
  BY DEF MetScan, PaidGaps
<1> SUFFICES ASSUME NEW gap \in Gaps
             PROVE  gap \in PaidGaps(f) <=>
                \A day \in GapDays(gap) :
                    Needed(DaysOf(EndedBy(PaidGaps(f), gap[1])) \union GapDays(gap), MonthOf(day)) <= FreezesPerMonth
  BY <1>0 DEF Consistent
<1> DEFINE paid == DaysOf(EndedBy(PaidGaps(f), gap[1]))
           days == GapDays(gap)
<1>1. /\ gap[1] \in met /\ gap[2] \in met /\ gap[1] \in Nat /\ gap[2] \in Nat /\ gap[1] + 1 < gap[2]
      /\ days = gap[1] + 1 .. gap[2] - 1
      /\ \A e \in met : e <= gap[1] \/ gap[2] <= e
  BY <1>0, GapsAre
<1>2. gap[2] - 1 \in Earliest(met) .. Latest(met) /\ gap[2] - 1 \in Nat
  BY <1>1, MetScanKnows
<1>3. EndedBy(PaidGaps(f), gap[2] - 1) = EndedBy(PaidGaps(f), gap[1])
  <2>1. \A g \in PaidGaps(f) : g[2] <= gap[2] - 1 <=> g[2] <= gap[1]
    BY <1>0, <1>1, GapsAre DEF PaidGaps
  <2> QED
    BY <2>1 DEF EndedBy
<1>4. \A m : SpentIn(f[gap[2] - 1].spent, m) = Needed(paid, m)
  BY <1>2, <1>3, SpentAlways DEF SpentAsPaid
<1>5. paid \in SUBSET (0 .. gap[1] - 1) /\ paid \intersect days = {}
  <2>1. paid \in SUBSET (0 .. gap[1] - 1)
    BY <1>0, <1>1, GapDaysWithin
  <2> QED
    BY <1>1, <2>1
<1>6. IsFiniteSet(paid) /\ IsFiniteSet(days)
  <2>1. 0 \in Int /\ gap[1] - 1 \in Int /\ gap[1] + 1 \in Int /\ gap[2] - 1 \in Int /\ days \in SUBSET (gap[1] + 1 .. gap[2] - 1)
    BY <1>1
  <2> HIDE DEF paid, days
  <2> QED
    BY <1>5, <2>1, FiniteDays
<1>7. Payable(days, f[gap[2] - 1].spent) <=> \A d \in days : Needed(paid \union days, MonthOf(d)) <= FreezesPerMonth
  <2> HIDE DEF paid, days
  <2> QED
    BY <1>4, <1>5, <1>6, PayableIs
<1> QED
  BY <1>7 DEF PaidGaps

LEMMA OneConsistent ==
    ASSUME DaysOK, NEW A \in SUBSET Gaps, NEW B \in SUBSET Gaps, Consistent(A), Consistent(B)
    PROVE  A = B
<1> DEFINE differ == {gap \in Gaps : ~ (gap \in A <=> gap \in B)}
           T == {gap[2] : gap \in differ}
<1>1. SUFFICES ASSUME differ # {} PROVE FALSE
  OBVIOUS
<1>2. PICK n \in T : \A m \in T : n <= m
  <2>1. T \subseteq Nat /\ T # {}
    BY <1>1, GapsAre
  <2> HIDE DEF T
  <2> QED
    BY <2>1, LeastNat
<1>3. PICK gap \in differ : gap[2] = n
  BY <1>2
<1>4. \A g \in Gaps : g[2] <= gap[1] => (g \in A <=> g \in B)
  <2> SUFFICES ASSUME NEW g \in Gaps, g[2] <= gap[1], g \in differ PROVE FALSE
    OBVIOUS
  <2>1. g[2] \in T /\ g[2] \in Nat /\ gap[1] \in Nat /\ gap[2] \in Nat /\ gap[1] < gap[2]
    BY GapsAre
  <2> HIDE DEF differ, T
  <2> QED
    BY <1>2, <1>3, <2>1
<1>5. EndedBy(A, gap[1]) = EndedBy(B, gap[1])
  BY <1>4 DEF EndedBy
<1>6. gap \in Gaps /\ ~ (gap \in A <=> gap \in B)
  BY <1>3
<1> QED
  BY <1>5, <1>6 DEF Consistent

\* The bridged gaps are those the scan pays for.
LEMMA BridgedArePaid ==
    ASSUME NEW f, MetScan(f)
    PROVE  Bridged = PaidGaps(f)
<1>1. Bridged = CHOOSE bridged \in SUBSET Gaps : Consistent(bridged)
  BY Zenon DEF Bridged, Consistent, EndedBy, GapDays
<1>2. Bridged \in SUBSET Gaps /\ Consistent(Bridged)
  BY <1>1, PaidConsistent
<1> QED
  BY <1>2, PaidConsistent, OneConsistent DEF MetScan

\* The runs that end on met days, and how the scan counts them.
LEMMA RunsCount ==
    ASSUME DaysOK, NEW e \in met
    PROVE  /\ IsFiniteSet(RunEndingOn(e)) /\ Cardinality(RunEndingOn(e)) \in Nat
           /\ \A d \in RunEndingOn(e) : d \in Nat /\ d <= e
<1>0. e \in Nat /\ \A d \in RunEndingOn(e) : d \in Nat /\ d <= e
  BY DEF RunEndingOn, DaysOK
<1>1. e \in Nat /\ RunEndingOn(e) \in SUBSET (0 .. e)
  BY <1>0
<1>2. 0 \in Int /\ e \in Int
  BY <1>1
<1>3. IsFiniteSet(RunEndingOn(e))
  BY <1>1, <1>2, FiniteDays
<1> QED
  BY <1>0, <1>3, FS_CardinalityType

LEMMA RunOfOne ==
    ASSUME NEW d
    PROVE  Cardinality({d}) = 1
BY FS_Singleton

RunAsCounted(f, day) ==
    /\ f[day].run = Cardinality(RunEndingOn(f[day].last))
    /\ \A e \in met : e <= day => Cardinality(RunEndingOn(e)) <= f[day].longest

LEMMA RunStep ==
    ASSUME DaysOK, NEW f, Bridged = PaidGaps(f), NEW day \in met, day > 0,
           ScanKnows(f[day - 1], met, day - 1), f[day] = ScanDay(f[day - 1], day), RunAsCounted(f, day - 1)
    PROVE  RunAsCounted(f, day)
<1> DEFINE previous == f[day - 1].last
           gap == GapBetween(previous, day)
           counted == met \union DaysOf(Bridged)
           run == IF Payable(gap, f[day - 1].spent) THEN f[day - 1].run + 1 ELSE 1
<1>1. /\ previous \in met /\ previous \in Nat /\ previous < day /\ day \in Nat
      /\ \A e \in met : e \in Nat /\ (e <= previous \/ day <= e)
      /\ previous + 1 < day => <<previous, day>> \in Gaps
      /\ gap = previous + 1 .. day - 1
  BY PreviousDay DEF DaysOK, GapBetween
<1>2. f[day].last = day /\ f[day].run = run
      /\ f[day].longest = IF run > f[day - 1].longest THEN run ELSE f[day - 1].longest
  BY DEF ScanDay
<1>3. /\ f[day - 1].run = Cardinality(RunEndingOn(previous)) /\ f[day - 1].longest \in Nat
      /\ \A e \in met : e <= day - 1 => Cardinality(RunEndingOn(e)) <= f[day - 1].longest
  BY DEF RunAsCounted, ScanKnows
<1>4. Cardinality(RunEndingOn(day)) = run
  <2>1. CASE Payable(gap, f[day - 1].spent)
    <3>1. gap \in SUBSET counted
      <4>1. CASE previous + 1 < day
        <5>1. <<previous, day>> \in Bridged
          BY <1>1, <2>1, <4>1 DEF PaidGaps, GapDays
        <5> QED
          BY <5>1 DEF DaysOf
      <4>2. CASE ~ (previous + 1 < day)
        BY <1>1, <4>2
      <4> QED
        BY <4>1, <4>2
    <3>2. previous .. day \in SUBSET counted
      BY <1>1, <3>1
    <3>3. \A d \in met : d <= previous => (d .. day \in SUBSET counted <=> d .. previous \in SUBSET counted)
      <4> SUFFICES ASSUME NEW d \in met, d <= previous
                   PROVE  d .. day \in SUBSET counted <=> d .. previous \in SUBSET counted
        OBVIOUS
      <4>1. d .. day = (d .. previous) \union (previous .. day)
        BY <1>1
      <4> HIDE DEF counted
      <4> QED
        BY <3>2, <4>1
    <3>4. day .. day = {day} /\ day \in counted
      BY <1>1
    <3>5. RunEndingOn(day) = RunEndingOn(previous) \union {day}
      <4>1. ASSUME NEW d \in met PROVE d <= day <=> d <= previous \/ d = day
        BY <1>1
      <4>2. RunEndingOn(day) = {d \in met : d <= day /\ d .. day \in SUBSET counted}
        BY DEF RunEndingOn
      <4>3. RunEndingOn(previous) = {d \in met : d <= previous /\ d .. previous \in SUBSET counted}
        BY DEF RunEndingOn
      <4> HIDE DEF counted, previous
      <4> QED
        BY <3>3, <3>4, <4>1, <4>2, <4>3
    <3>6. day \notin RunEndingOn(previous)
      BY <1>1 DEF RunEndingOn
    <3>7. Cardinality(RunEndingOn(previous) \union {day}) = Cardinality(RunEndingOn(previous)) + 1
      BY <1>1, <3>6, RunsCount, FS_AddElement
    <3> QED
      BY <1>3, <2>1, <3>5, <3>7
  <2>2. CASE ~ Payable(gap, f[day - 1].spent)
    <3>1. previous + 1 < day
      <4>1. gap # {}
        BY <2>2 DEF Payable
      <4> QED
        BY <1>1, <4>1
    <3>2. previous + 1 \notin DaysOf(Bridged)
      <4> SUFFICES ASSUME NEW g \in Bridged, previous + 1 \in GapDays(g) PROVE FALSE
        BY DEF DaysOf, GapDays
      <4>1. g \in Gaps /\ Payable(GapDays(g), f[g[2] - 1].spent)
        BY DEF PaidGaps
      <4>2. /\ g = <<g[1], g[2]>> /\ g[1] \in met /\ g[2] \in met /\ g[1] \in Nat /\ g[2] \in Nat
            /\ \A e \in met : e <= g[1] \/ g[2] <= e
            /\ GapDays(g) = g[1] + 1 .. g[2] - 1
        BY <4>1, GapsAre
      <4>3. previous + 1 \in g[1] + 1 .. g[2] - 1
        BY <4>2
      <4>4. g[1] = previous
        BY <1>1, <4>2, <4>3
      <4>5. g[2] = day
        BY <1>1, <4>2, <4>3, <4>4
      <4>6. GapDays(g) = gap
        BY <4>4, <4>5 DEF GapDays
      <4> QED
        BY <2>2, <4>1, <4>5, <4>6
    <3>3. previous + 1 \notin counted
      BY <1>1, <3>1, <3>2
    <3>4. ASSUME NEW d \in met, d <= day, d .. day \in SUBSET counted PROVE d = day
      <4>1. d \in Nat /\ (d <= previous \/ day <= d)
        BY <1>1
      <4>2. ~ (d <= previous)
        <5> SUFFICES ASSUME d <= previous PROVE FALSE
          OBVIOUS
        <5>1. previous + 1 \in d .. day
          BY <1>1, <3>1, <4>1
        <5> QED
          BY <3>3, <3>4, <5>1
      <4> QED
        BY <1>1, <3>4, <4>1, <4>2
    <3>5. day .. day \in SUBSET counted
      BY <1>1
    <3>6. RunEndingOn(day) = {day}
      <4> HIDE DEF counted
      <4>1. day <= day
        BY <1>1
      <4> QED
        BY <3>4, <3>5, <4>1 DEF RunEndingOn, counted
    <3> QED
      BY <2>2, <3>6, RunOfOne
  <2> QED
    BY <2>1, <2>2
<1>5. run \in Nat
  BY <1>4, RunsCount
<1>6. ASSUME NEW e \in met, e <= day PROVE Cardinality(RunEndingOn(e)) <= f[day].longest
  <2>1. Cardinality(RunEndingOn(e)) \in Nat /\ (e = day \/ e <= day - 1)
    BY <1>1, <1>6, RunsCount
  <2> HIDE DEF run
  <2> QED
    BY <1>2, <1>3, <1>4, <1>5, <2>1
<1> QED
  BY <1>2, <1>4, <1>6 DEF RunAsCounted

LEMMA RunsAlways ==
    ASSUME NEW f, MetScan(f)
    PROVE  \A day \in Earliest(met) .. Latest(met) : RunAsCounted(f, day)
<1> DEFINE T == {n \in Nat : n \in Earliest(met) .. Latest(met) /\ ~ RunAsCounted(f, n)}
<1>0. DaysOK /\ Bridged = PaidGaps(f)
  BY BridgedArePaid DEF MetScan
<1>1. SUFFICES ASSUME T # {} PROVE FALSE
  <2>1. \A day \in Earliest(met) .. Latest(met) : day \in Nat
    BY MetScanKnows
  <2> QED
    BY <1>1, <2>1
<1>2. PICK n \in T : \A m \in T : n <= m
  <2>1. T \subseteq Nat
    OBVIOUS
  <2> HIDE DEF T
  <2> QED
    BY <1>1, <2>1, LeastNat
<1>3. n \in Earliest(met) .. Latest(met) /\ n \in Nat /\ ~ RunAsCounted(f, n)
  BY <1>2
<1>4. n # Earliest(met) =>
        /\ n > 0 /\ n - 1 \in Earliest(met) .. Latest(met) /\ RunAsCounted(f, n - 1)
        /\ ScanKnows(f[n - 1], met, n - 1)
  <2>1. n # Earliest(met) => n > 0 /\ n - 1 \in Earliest(met) .. Latest(met) /\ n - 1 \in Nat
    BY <1>3, MetScanKnows
  <2>2. n # Earliest(met) => RunAsCounted(f, n - 1)
    <3>1. n # Earliest(met) => n - 1 \notin T
      BY <1>2, <1>3
    <3> QED
      BY <2>1, <3>1
  <2>3. n # Earliest(met) => ScanKnows(f[n - 1], met, n - 1)
    BY <2>1, MetScanKnows
  <2> QED
    BY <2>1, <2>2, <2>3
<1>5. CASE n = Earliest(met)
  <2>1. f[n] = ScanFirst(n) /\ n \in met /\ \A d \in met : d \in Nat /\ n <= d
    BY <1>3, <1>5, MetScanKnows
  <2>2. RunEndingOn(n) = {n}
    <3>1. \A d \in met : d <= n => d = n
      BY <1>3, <2>1
    <3>2. n .. n = {n} /\ n <= n
      BY <1>3
    <3> QED
      BY <2>1, <3>1, <3>2 DEF RunEndingOn
  <2>3. f[n].run = 1 /\ f[n].last = n /\ f[n].longest = 1
    BY <2>1 DEF ScanFirst
  <2>4. \A e \in met : e <= n => e = n
    BY <1>3, <2>1
  <2>5. Cardinality(RunEndingOn(n)) = 1
    BY <2>2, RunOfOne
  <2>6. \A e \in met : e <= n => Cardinality(RunEndingOn(e)) <= 1
    <3>1. 1 <= 1
      OBVIOUS
    <3> QED
      BY <2>4, <2>5, <3>1
  <2> QED
    BY <1>3, <2>3, <2>5, <2>6 DEF RunAsCounted
<1>6. CASE n # Earliest(met) /\ n \in met
  <2>1. f[n] = ScanDay(f[n - 1], n)
    BY <1>3, <1>6, MetScanKnows
  <2> QED
    BY <1>0, <1>3, <1>4, <1>6, <2>1, RunStep
<1>7. CASE n # Earliest(met) /\ n \notin met
  <2>1. f[n] = f[n - 1]
    BY <1>3, <1>7, MetScanKnows
  <2>2. \A e \in met : e <= n => e <= n - 1
    BY <1>0, <1>3, <1>7 DEF DaysOK
  <2> QED
    BY <1>3, <1>4, <1>7, <2>1, <2>2 DEF RunAsCounted
<1> QED
  BY <1>5, <1>6, <1>7

LEMMA ScanIsBridges == LedgerInv => ScanMatchesBridges
<1> SUFFICES ASSUME LedgerInv, met # {} PROVE ScanMatchesBridges
  BY DEF ScanMatchesBridges
<1> DEFINE final == Latest(met)
           paid == DaysOf(Bridged)
           due == GapBetween(final, today)
<1>1. DaysOK /\ met \in SUBSET Nat /\ today \in Nat /\ \A d \in met : d <= today
  BY DEF LedgerInv, DaysOK
<1>2. /\ Earliest(met) \in met /\ Earliest(met) \in Nat
      /\ final \in met /\ final \in Nat /\ Earliest(met) <= final /\ \A d \in met : d <= final
      /\ final <= today
  BY <1>1, EndsOfDays
<1>3. PICK f : IsScan(f, met, Earliest(met), final)
  BY <1>2, ScanExists
<1>4. MetScan(f) /\ Scan(met) = f[final] /\ final \in Earliest(met) .. final
  BY <1>1, <1>2, <1>3, ScanIsLast DEF MetScan
<1>5. Bridged = PaidGaps(f) /\ PaidGaps(f) \in SUBSET Gaps
  BY <1>4, BridgedArePaid, PaidConsistent
<1>6. EndedBy(Bridged, final) = Bridged
  <2>1. \A g \in Bridged : g[2] <= final
    BY <1>1, <1>2, <1>5, GapsAre
  <2> QED
    BY <2>1 DEF EndedBy
<1>7. \A m : SpentIn(Scan(met).spent, m) = Needed(paid, m)
  BY <1>4, <1>5, <1>6, SpentAlways DEF SpentAsPaid
<1>8. f[final].last = final
  BY <1>1, <1>4, ScanOfDays
<1>9. /\ Scan(met).run = Cardinality(RunEndingOn(final))
      /\ \A e \in met : Cardinality(RunEndingOn(e)) <= Scan(met).longest
  BY <1>2, <1>4, <1>8, RunsAlways DEF RunAsCounted
<1>10. /\ shown.lastGoalMetDay = final
       /\ shown.current = IF Payable(due, Scan(met).spent) THEN Scan(met).run ELSE 0
       /\ shown.freezesLeft = FreezesPerMonth - SpentIn(Scan(met).spent, MonthOf(today))
  BY StreakOfDays DEF LedgerInv, ShownIs
<1>11. Payable(due, Scan(met).spent) <=> \A d \in due : Needed(paid \union due, MonthOf(d)) <= FreezesPerMonth
  <2>1. paid \in SUBSET (0 .. final - 1)
    BY <1>1, <1>2, <1>5, <1>6, GapDaysWithin
  <2>2. due \in SUBSET (final + 1 .. today - 1) /\ 0 \in Int /\ final - 1 \in Int /\ final + 1 \in Int /\ today - 1 \in Int
    BY <1>1, <1>2 DEF GapBetween
  <2>3. paid \intersect due = {}
    BY <1>2, <2>1, <2>2
  <2> HIDE DEF paid, due, final
  <2>4. IsFiniteSet(paid) /\ IsFiniteSet(due)
    BY <2>1, <2>2, FiniteDays
  <2> QED
    BY <1>7, <2>3, <2>4, PayableIs
<1>12. \A e \in met : Cardinality(RunEndingOn(e)) <= shown.longest
  <2> SUFFICES ASSUME NEW e \in met PROVE Cardinality(RunEndingOn(e)) <= shown.longest
    OBVIOUS
  <2>1. Cardinality(RunEndingOn(e)) \in Nat /\ Cardinality(RunEndingOn(e)) <= Scan(met).longest
    BY <1>1, <1>9, RunsCount
  <2>2. Scan(met).longest \in Nat
    BY <1>1, ScanOfDays DEF ScanKnows
  <2>3. shown.longest \in Nat /\ Scan(met).longest <= shown.longest
    BY DEF LedgerInv, LongestShown
  <2> QED
    BY <2>1, <2>2, <2>3
<1>13. shown.current = IF \A d \in due : Needed(paid \union due, MonthOf(d)) <= FreezesPerMonth
                       THEN Cardinality(RunEndingOn(final)) ELSE 0
  <2> HIDE DEF paid, due, final
  <2> QED
    BY <1>9, <1>10, <1>11
<1> QED
  BY <1>2, <1>7, <1>10, <1>12, <1>13 DEF ScanMatchesBridges

\* The forward scan of computeStreak finds, of every set of met days, the streak
\* that the bridged gaps define: its length, the freezes left of this month, and
\* in `longest' a number that no run of met days exceeds.
THEOREM ScanIsRight == Spec => []ScanMatchesBridges
BY LedgerInvInit, LedgerInvNext, ScanIsBridges, PTL DEF Spec

-----------------------------------------------------------------------------
(* CollectionReader                                                         *)

VerseRecords == [family : {"quran", "hindu"}, of : Nat, number : Nat]
VerseRefs == [family : {"quran", "hindu"}, of : Nat \ {0}, start : Nat, end : Nat]
DuaRecords == [family : {"dua"}, slug : STRING, id : STRING]

Queries == {"surahs", "verses", "texts", "chapters", "chapter verses", "duas"}
\* The query for what an item shows below its heads.
BodyOf(ref) ==
    CASE ref.family = "quran" -> "verses" [] ref.family = "hindu" -> "chapter verses" [] OTHER -> "duas"

\* What a query found for an item is what was stored at one moment of the request.
ReadAtOnce(ref, query) ==
    \E content \in SUBSET stored :
        /\ before \subseteq content
        /\ \A c \in get.batch : Query(c) = query => c \in content
        /\ HeadsFirst(ref, query) \subseteq get.batch =>
                \A c \in content : Query(c) = query /\ Asked(ref, c) => c \in get.batch

GetRow == [phase : {"idle", "items", "load", "answered"}, status : {"none", "draft", "reviewed"},
           items : SUBSET Refs, batch : SUBSET Content, unread : SUBSET Queries]

ReaderInv ==
    /\ items \subseteq Refs /\ status \in {"draft", "reviewed"} /\ stored \subseteq Content
    /\ get \in GetRow
    /\ get.phase # "idle" => get.status = "reviewed"
    /\ before \subseteq stored /\ get.batch \subseteq stored
    /\ \A query \in Queries \ get.unread : Awaits(query) \intersect get.unread = {}
    /\ get.phase \in {"load", "answered"} =>
        /\ \A ref \in get.items : \A query \in QueriesOf(ref.family) :
                query \in get.unread \/ ReadAtOnce(ref, query)
        /\ \A c \in get.batch : Query(c) \notin get.unread
    /\ get.phase \in {"idle", "items"} => get.batch = {} /\ get.unread = {}
    /\ get.phase = "answered" => get.unread = {}

LEMMA QueriesKnown ==
    /\ \A family : QueriesOf(family) \subseteq Queries
    /\ \A query : \A family : Awaits(query) # {} /\ query \in QueriesOf(family) => Awaits(query) \subseteq QueriesOf(family)
    /\ \A query : query \notin Awaits(query)
    /\ \A query : \A other \in Awaits(query) : Awaits(other) \subseteq Awaits(query)
BY DEF QueriesOf, Queries, Awaits

LEMMA ReaderInvInit == CollectionInit => ReaderInv
BY DEF CollectionInit, ReaderInv, GetRow, NoGet, Queries

LEMMA ReaderInvNext == ReaderInv /\ [CollectionNext]_collectionVars => ReaderInv'
<1> SUFFICES ASSUME ReaderInv, [CollectionNext]_collectionVars PROVE ReaderInv'
  OBVIOUS
<1> USE DEF ReaderInv
<1>1. ASSUME stored \subseteq stored', stored' \subseteq Content, status' \in {"draft", "reviewed"},
             UNCHANGED <<items, get, before>>
      PROVE  ReaderInv'
  <2>1. ASSUME NEW ref, NEW query, ReadAtOnce(ref, query) PROVE ReadAtOnce(ref, query)'
    BY <1>1, <2>1 DEF ReadAtOnce
  <2>2. ASSUME get'.phase \in {"load", "answered"}, NEW ref \in get.items,
               NEW query \in QueriesOf(ref.family), query \notin get.unread
        PROVE  ReadAtOnce(ref, query)'
    BY <1>1, <2>1, <2>2
  <2> QED
    BY <1>1, <2>2
<1>2. CASE \E c \in Content : Seed(c)
  BY <1>1, <1>2 DEF Seed
<1>3. CASE Review
  BY <1>1, <1>3 DEF Review
<1>4. CASE FindCollection
  BY <1>4 DEF FindCollection, Servable, GetRow, NoGet
<1>5. CASE ReadItems
  <2>1. /\ get.phase = "items" /\ get'.phase = "load" /\ get'.status = get.status
        /\ get'.items = items /\ get'.batch = {} /\ before' = stored
        /\ get'.unread = UNION {QueriesOf(i.family) : i \in items}
        /\ UNCHANGED <<items, status, stored>>
    BY <1>5 DEF ReadItems, GetRow
  <2>2. get'.unread \subseteq Queries /\ get' \in GetRow
    <3>1. get'.unread \subseteq Queries
      BY <2>1, QueriesKnown
    <3> QED
      BY <1>5, <2>1, <3>1 DEF ReadItems, GetRow
  <2>3. ASSUME NEW query \in Queries, query \notin get'.unread PROVE Awaits(query) \intersect get'.unread = {}
    <3>1. ASSUME NEW i \in items, NEW other \in Awaits(query), other \in QueriesOf(i.family)
          PROVE  query \in QueriesOf(i.family)
      BY <3>1 DEF QueriesOf, Awaits
    <3> QED
      BY <2>1, <2>3, <3>1
  <2>4. \A ref \in get'.items : \A query \in QueriesOf(ref.family) : query \in get'.unread
    BY <2>1
  <2> QED
    BY <2>1, <2>2, <2>3, <2>4
<1>6. ASSUME NEW query \in Queries, LoadQuery(query) PROVE ReaderInv'
  <2> DEFINE found == {c \in stored : Query(c) = query /\
                        \E ref \in get.items : Asked(ref, c) /\ HeadsFirst(ref, query) \subseteq get.batch}
  <2>1. /\ get' \in GetRow /\ get'.phase = "load" /\ get.phase = "load"
        /\ get'.items = get.items /\ get'.status = get.status
        /\ get'.unread = get.unread \ {query} /\ query \in get.unread
        /\ Awaits(query) \intersect get.unread = {}
        /\ get'.batch = get.batch \union found
        /\ UNCHANGED <<items, status, stored, before>>
    BY <1>6 DEF LoadQuery, GetRow
  <2>2. /\ found \subseteq stored /\ (\A c \in found : Query(c) = query)
        /\ \A c \in stored : \A ref \in get.items :
            Query(c) = query /\ Asked(ref, c) /\ HeadsFirst(ref, query) \subseteq get.batch => c \in found
    OBVIOUS
  <2> HIDE DEF found
  <2>3. ASSUME NEW ref, NEW other, other \notin get'.unread, other \in Queries
        PROVE  HeadsFirst(ref, other) \subseteq get'.batch <=> HeadsFirst(ref, other) \subseteq get.batch
    <3>1. query \notin Awaits(other)
      <4>1. CASE other = query
        BY <4>1, QueriesKnown
      <4>2. CASE other # query
        BY <2>1, <2>3, <4>2
      <4> QED  BY <4>1, <4>2
    <3>2. \A h \in HeadsFirst(ref, other) : Query(h) # query
      BY <3>1 DEF HeadsFirst
    <3> QED
      BY <2>1, <2>2, <3>2
  <2>4. ASSUME NEW ref \in get.items PROVE ReadAtOnce(ref, query)'
    <3>1. \A c \in get'.batch : Query(c) = query => c \in stored
      BY <2>1, <2>2
    <3>2. HeadsFirst(ref, query) \subseteq get'.batch =>
            \A c \in stored : Query(c) = query /\ Asked(ref, c) => c \in get'.batch
      BY <2>1, <2>2, <2>3
    <3> QED
      BY <2>1, <3>1, <3>2 DEF ReadAtOnce
  <2>5. ASSUME NEW ref \in get.items, NEW other \in Queries, other # query, other \notin get.unread,
               ReadAtOnce(ref, other)
        PROVE  ReadAtOnce(ref, other)'
    <3>1. PICK content \in SUBSET stored :
            /\ before \subseteq content
            /\ \A c \in get.batch : Query(c) = other => c \in content
            /\ HeadsFirst(ref, other) \subseteq get.batch =>
                    \A c \in content : Query(c) = other /\ Asked(ref, c) => c \in get.batch
      BY <2>5 DEF ReadAtOnce
    <3>2. \A c \in get'.batch : Query(c) = other => c \in content
      BY <2>1, <2>2, <2>5, <3>1
    <3>3. HeadsFirst(ref, other) \subseteq get'.batch =>
            \A c \in content : Query(c) = other /\ Asked(ref, c) => c \in get'.batch
      BY <2>1, <2>3, <2>5, <3>1
    <3> QED
      BY <2>1, <3>1, <3>2, <3>3 DEF ReadAtOnce
  <2>6. ASSUME NEW ref \in get'.items, NEW other \in QueriesOf(ref.family), other \notin get'.unread
        PROVE  ReadAtOnce(ref, other)'
    <3>1. other \in Queries
      BY QueriesKnown
    <3> QED
      BY <2>1, <2>4, <2>5, <2>6, <3>1
  <2>7. \A other \in Queries \ get'.unread : Awaits(other) \intersect get'.unread = {}
    BY <2>1
  <2>8. \A c \in get'.batch : Query(c) \notin get'.unread
    BY <2>1, <2>2
  <2> QED
    BY <2>1, <2>2, <2>6, <2>7, <2>8
<1>7. CASE Answer \/ UNCHANGED collectionVars
  <2>1. /\ get' \in GetRow /\ get'.items = get.items /\ get'.status = get.status
        /\ get'.unread = get.unread /\ get'.batch = get.batch
        /\ \/ get.phase = "load" /\ get'.phase = "answered" /\ get.unread = {}
           \/ get'.phase = get.phase
        /\ UNCHANGED <<items, status, stored, before>>
    BY <1>7 DEF Answer, GetRow, collectionVars
  <2>2. \A ref, query : ReadAtOnce(ref, query)' <=> ReadAtOnce(ref, query)
    BY <2>1 DEF ReadAtOnce
  <2>3. ASSUME get'.phase \in {"load", "answered"}, NEW ref \in get.items,
               NEW query \in QueriesOf(ref.family), query \notin get.unread
        PROVE  ReadAtOnce(ref, query)'
    BY <2>1, <2>2, <2>3
  <2> QED
    BY <2>1, <2>3
<1>8. CASE Again
  BY <1>8 DEF Again, NoGet, GetRow, Queries
<1> QED
  BY <1>2, <1>3, <1>4, <1>5, <1>6, <1>7, <1>8, QueriesKnown DEF CollectionNext

\* An item's own is the same out of the batch as out of what it asks for.
LEMMA OwnOfBatch ==
    ASSUME NEW ref \in Refs, NEW content \in SUBSET Content, NEW batch \in SUBSET Content,
           \A c \in batch : Query(c) = BodyOf(ref) => c \in content,
           \A c \in content : Query(c) = BodyOf(ref) /\ Asked(ref, c) => c \in batch
    PROVE  OwnOf(ref, batch) = OwnOf(ref, {c \in content : Asked(ref, c)})
<1> DEFINE own == {c \in content : Asked(ref, c)}
<1>0. ref \in VerseRefs \/ ref \in DuaRecords
  BY CollectionAssumption DEF CollectionAssumption, DuaRecords, VerseRefs
<1>1. \A c \in Content : c \in VerseRecords \/ c \in DuaRecords
  BY CollectionAssumption DEF CollectionAssumption, VerseRecords, DuaRecords
<1>2. CASE ref.family = "dua"
  <2>0. \A c : c.family = "dua" => Query(c) = BodyOf(ref)
    BY <1>2 DEF Query, BodyOf
  <2>1. {c \in batch : c.family = "dua" /\ c.slug = ref.slug}
            = {c \in own : c.family = "dua" /\ c.slug = ref.slug}
    BY <1>2, <2>0 DEF Asked
  <2>2. {c \in batch : c.family = "dua" /\ c.id = ref.id}
            = {c \in own : c.family = "dua" /\ c.id = ref.id}
    BY <1>2, <2>0 DEF Asked
  <2> QED
    BY <1>2, <2>1, <2>2, Zenon DEF OwnOf
<1>3. CASE ref.family = "quran"
  <2>1. \A c \in Content : c.family = "quran" /\ c.number # 0 => Query(c) = BodyOf(ref)
    BY <1>1, <1>3 DEF Query, BodyOf
  <2> QED
    BY <1>0, <1>1, <1>3, <2>1 DEF OwnOf, Asked, Within, VerseRecords, VerseRefs, DuaRecords
<1>4. CASE ref.family = "hindu"
  <2>1. \A c \in Content : c.family = "hindu" /\ c.number # 0 => Query(c) = BodyOf(ref)
    BY <1>1, <1>4 DEF Query, BodyOf
  <2> QED
    BY <1>0, <1>1, <1>4, <2>1 DEF OwnOf, Asked, Within, VerseRecords, VerseRefs, DuaRecords
<1> QED
  BY <1>0, <1>2, <1>3, <1>4 DEF DuaRecords, VerseRefs

\* The queries of an item's heads, one of which is the first to find one missing.
LEMMA HeadsKnown ==
    ASSUME NEW ref \in Refs, NEW batch
    PROVE  /\ BodyOf(ref) \in QueriesOf(ref.family)
           /\ \A h \in Heads(ref) : Asked(ref, h) /\ Query(h) \in QueriesOf(ref.family)
           /\ ~ Heads(ref) \subseteq batch =>
                \E h \in Heads(ref) \ batch : HeadsFirst(ref, Query(h)) \subseteq batch
<1>0. ref \in VerseRefs \/ ref \in DuaRecords
  BY CollectionAssumption DEF CollectionAssumption, DuaRecords, VerseRefs
<1>1. CASE ref.family = "dua"
  BY <1>1 DEF BodyOf, QueriesOf, Heads
<1>2. CASE ref.family = "quran"
  <2> DEFINE h == Verse("quran", ref.of, 0)
  <2>1. Heads(ref) = {h} /\ h.family = "quran" /\ h.number = 0 /\ h.of = ref.of
    BY <1>2 DEF Heads, Verse
  <2> HIDE DEF h
  <2>2. Query(h) = "surahs" /\ Asked(ref, h) /\ HeadsFirst(ref, "surahs") = {}
    BY <1>2, <2>1 DEF Query, Asked, HeadsFirst, Awaits
  <2> QED
    BY <1>2, <2>1, <2>2 DEF BodyOf, QueriesOf
<1>3. CASE ref.family = "hindu"
  <2> DEFINE text == Verse("hindu", 0, 0)
             chapter == Verse("hindu", ref.of, 0)
  <2>1. /\ Heads(ref) = {text, chapter}
        /\ text.family = "hindu" /\ text.number = 0 /\ text.of = 0
        /\ chapter.family = "hindu" /\ chapter.number = 0 /\ chapter.of = ref.of
    BY <1>3 DEF Heads, Verse
  <2> HIDE DEF text, chapter
  <2>2. ref.of # 0
    BY <1>0, <1>3 DEF VerseRefs, DuaRecords
  <2>3. Query(text) = "texts" /\ Query(chapter) = "chapters" /\ Asked(ref, text) /\ Asked(ref, chapter)
    BY <1>3, <2>1, <2>2 DEF Query, Asked
  <2>4. HeadsFirst(ref, "texts") = {} /\ HeadsFirst(ref, "chapters") \subseteq {text}
    BY <2>1, <2>3 DEF HeadsFirst, Awaits
  <2> QED
    BY <1>3, <2>1, <2>3, <2>4 DEF BodyOf, QueriesOf
<1> QED
  BY <1>0, <1>1, <1>2, <1>3 DEF DuaRecords, VerseRefs

\* Whatever a collection holds and whatever is seeded while it is read, the
\* batched reads give each item what reading it alone would (resolveItems and
\* contentFor of collections.service.ts), and no draft is served.
THEOREM ItemsReadAtOnce == CollectionSpec => []ItemsResolved
<1>1. ReaderInv => ItemsResolved
  <2> SUFFICES ASSUME ReaderInv, get.phase = "answered",
                      NEW ref \in get.items
               PROVE  \E content \in SUBSET stored :
                        /\ before \subseteq content
                        /\ ContentFor(ref, get.batch) = Alone(ref, content)
    BY DEF ItemsResolved, ReaderInv
  <2>1. /\ ref \in Refs /\ stored \subseteq Content /\ get.batch \subseteq stored
        /\ get.unread = {}
        /\ \A query \in QueriesOf(ref.family) : ReadAtOnce(ref, query)
    BY DEF ReaderInv, GetRow
  <2>2. CASE Heads(ref) \subseteq get.batch
    <3>1. PICK body \in SUBSET stored :
            /\ before \subseteq body
            /\ \A c \in get.batch : Query(c) = BodyOf(ref) => c \in body
            /\ HeadsFirst(ref, BodyOf(ref)) \subseteq get.batch =>
                    \A c \in body : Query(c) = BodyOf(ref) /\ Asked(ref, c) => c \in get.batch
      BY <2>1, HeadsKnown DEF ReadAtOnce
    <3> DEFINE content == body \union Heads(ref)
    <3>2. content \in SUBSET stored /\ before \subseteq content
      BY <2>1, <2>2, <3>1
    <3>3. \A c \in content : Query(c) = BodyOf(ref) /\ Asked(ref, c) => c \in get.batch
      BY <2>2, <3>1 DEF HeadsFirst
    <3>4. Heads(ref) \subseteq {c \in content : Asked(ref, c)}
      BY <2>1, HeadsKnown
    <3>5. \A c \in get.batch : Query(c) = BodyOf(ref) => c \in content
      BY <3>1
    <3> HIDE DEF content
    <3>6. OwnOf(ref, get.batch) = OwnOf(ref, {c \in content : Asked(ref, c)})
      BY <2>1, <3>2, <3>3, <3>5, OwnOfBatch
    <3> QED
      BY <2>2, <3>2, <3>4, <3>6 DEF ContentFor, Alone
  <2>3. CASE ~ Heads(ref) \subseteq get.batch
    <3>1. PICK h \in Heads(ref) \ get.batch : HeadsFirst(ref, Query(h)) \subseteq get.batch
      BY <2>1, <2>3, HeadsKnown
    <3>2. Asked(ref, h) /\ ReadAtOnce(ref, Query(h))
      BY <2>1, <3>1, HeadsKnown
    <3>3. PICK content \in SUBSET stored :
            before \subseteq content /\ \A c \in content : Query(c) = Query(h) /\ Asked(ref, c) => c \in get.batch
      BY <3>1, <3>2 DEF ReadAtOnce
    <3>4. h \notin content
      BY <3>1, <3>2, <3>3
    <3> QED
      BY <2>3, <3>1, <3>3, <3>4 DEF ContentFor, Alone
  <2> QED
    BY <2>2, <2>3
<1> QED
  BY <1>1, ReaderInvInit, ReaderInvNext, PTL DEF CollectionSpec

-----------------------------------------------------------------------------
(* RollupPaging                                                             *)

\* The place of a pair in a list.
Place(list, p) == Cardinality({q \in list : q <= p})

LEMMA FinitePairs ==
    ASSUME NEW S \in SUBSET Pairs
    PROVE  IsFiniteSet(S) /\ Cardinality(S) \in Nat
BY PagingAssumption, FS_Subset, FS_CardinalityType DEF PagingAssumption

\* A place is one of the list's, the pairs of a longer list are further on, and
\* no two share a place.
LEMMA PlacesKnown ==
    ASSUME NEW long \in SUBSET Pairs, NEW list \in SUBSET long, NEW p \in Pairs
    PROVE  /\ Place(list, p) \in Nat
           /\ Place(list, p) <= Cardinality(list)
           /\ Place(list, p) <= Place(long, p)
<1>1. {q \in list : q <= p} \subseteq list /\ {q \in list : q <= p} \subseteq {q \in long : q <= p}
  OBVIOUS
<1>2. /\ IsFiniteSet(list) /\ IsFiniteSet({q \in long : q <= p})
      /\ Place(list, p) \in Nat
  <2>1. list \in SUBSET Pairs /\ {q \in long : q <= p} \in SUBSET Pairs /\ {q \in list : q <= p} \in SUBSET Pairs
    OBVIOUS
  <2> QED
    BY <2>1, FinitePairs DEF Place
<1> QED
  BY <1>1, <1>2, FS_Subset DEF Place

LEMMA PlacesDiffer ==
    ASSUME NEW list \in SUBSET Pairs, NEW p \in list, NEW q \in list, Place(list, p) = Place(list, q)
    PROVE  p = q
<1>1. \A a, b \in list : a < b => Place(list, a) # Place(list, b)
  <2> SUFFICES ASSUME NEW a \in list, NEW b \in list, a < b, Place(list, a) = Place(list, b)
               PROVE  FALSE
    OBVIOUS
  <2> DEFINE below(x) == {r \in list : r <= x}
  <2>1. a \in Nat /\ b \in Nat /\ \A r \in list : r \in Nat
    BY PagingAssumption DEF PagingAssumption
  <2>2. below(a) \subseteq below(b)
    <3>1. \A r \in list : r <= a => r <= b
      BY <2>1
    <3> QED
      BY <3>1
  <2>5. b \in below(b) /\ b \notin below(a)
    BY <2>1
  <2>3. IsFiniteSet(below(b))
    <3>1. below(b) \in SUBSET Pairs
      OBVIOUS
    <3> QED
      BY <3>1, FinitePairs
  <2>4. Cardinality(below(a)) = Cardinality(below(b)) => below(a) = below(b)
    <3> HIDE DEF below
    <3> QED
      BY <2>2, <2>3, FS_Subset
  <2> QED
    BY <2>4, <2>5 DEF Place
<1>2. p \in Nat /\ q \in Nat
  BY PagingAssumption DEF PagingAssumption
<1> QED
  BY <1>1, <1>2

NightRow == [phase : {"idle", "send", "work", "reply", "failed", "truncated", "green"},
             offset : Nat, page : Nat, tries : Nat, failed : BOOLEAN, list : SUBSET Pairs,
             done : Nat, failure : BOOLEAN, more : BOOLEAN]

\* The pairs of the cohort up to a place of a list are done.
DoneUpTo(list, place) == \A p \in cohort : Place(list, p) <= place => p \in rolled

PagingTypeOK ==
    /\ active \in SUBSET Pairs /\ cohort \in SUBSET Pairs
    /\ shrunk \in BOOLEAN /\ night \in NightRow

\* Each page consumes one pair at least.
PagesConsume ==
    /\ night.phase \in {"send", "work", "reply"} => night.page <= night.offset + 1 /\ night.page <= MaxPages
    /\ night.phase = "reply" /\ night.more =>
        Consumed < Cardinality(night.list) /\ night.page <= Consumed
    /\ night.phase = "reply" /\ ~ night.more => Consumed >= Cardinality(night.list)

\* What a night has stepped over is done, as long as no pair leaves the list.
SteppedOver ==
    ~ shrunk =>
        /\ cohort \subseteq active /\ night.list \subseteq active
        /\ night.phase \in {"send", "work", "reply"} /\ ~ night.failed => DoneUpTo(active, night.offset)
        /\ night.phase \in {"work", "reply"} =>
            /\ cohort \subseteq night.list
            /\ ~ night.failed /\ ~ night.failure => DoneUpTo(night.list, Consumed)
        /\ night.phase = "green" => cohort \subseteq rolled
        /\ night.phase = "truncated" => Cardinality(active) > MaxPages

PagingInv == PagingTypeOK /\ PagesConsume /\ SteppedOver

LEMMA PagingInvInit == PagingInit => PagingInv
<1> SUFFICES ASSUME PagingInit PROVE PagingInv
  OBVIOUS
<1>1. night.phase = "idle" /\ night.list = {} /\ cohort = {}
  BY DEF PagingInit, NoNight
<1>2. PagingTypeOK
  BY DEF PagingInit, PagingTypeOK, NightRow, NoNight
<1> QED
  BY <1>1, <1>2 DEF PagingInit, PagingInv, PagesConsume, SteppedOver

\* A longer list of all pairs steps over no more of them.
LEMMA DoneOfLonger ==
    ASSUME PagingTypeOK, NEW long \in SUBSET Pairs, NEW list \in SUBSET long, NEW place \in Nat,
           DoneUpTo(list, place)
    PROVE  DoneUpTo(long, place)
<1>1. \A p \in cohort : Place(list, p) \in Nat /\ Place(long, p) \in Nat /\ Place(list, p) <= Place(long, p)
  <2>1. \A p \in cohort : p \in Pairs
    BY DEF PagingTypeOK
  <2> QED
    BY <2>1, PlacesKnown
<1> QED
  BY <1>1 DEF DoneUpTo

LEMMA PagingInvNext == PagingInv /\ [PagingNext]_pagingVars => PagingInv'
<1> SUFFICES ASSUME PagingInv, [PagingNext]_pagingVars PROVE PagingInv'
  OBVIOUS
<1> USE DEF PagingInv
<1>1. ASSUME NEW p \in Pairs, Appear(p) PROVE PagingInv'
  <2>1. /\ active' = active \union {p} /\ active' \in SUBSET Pairs /\ active \in SUBSET active'
        /\ UNCHANGED <<night, cohort, rolled, shrunk>>
    BY <1>1 DEF Appear, PagingTypeOK
  <2>2. PagingTypeOK' /\ PagesConsume'
    BY <2>1 DEF PagingTypeOK, PagesConsume, Consumed
  <2>3. Cardinality(active) \in Nat /\ Cardinality(active') \in Nat /\ Cardinality(active) <= Cardinality(active')
    <3>1. IsFiniteSet(active') /\ Cardinality(active') \in Nat /\ Cardinality(active) \in Nat
      BY <2>1, FinitePairs DEF PagingTypeOK
    <3> QED
      BY <2>1, <3>1, FS_Subset
  <2>4. DoneUpTo(active, night.offset) => DoneUpTo(active', night.offset)
    BY <2>1, DoneOfLonger DEF PagingTypeOK, NightRow
  <2>5. /\ DoneUpTo(active, night.offset)' <=> DoneUpTo(active', night.offset)
        /\ DoneUpTo(night.list, Consumed)' <=> DoneUpTo(night.list, Consumed)
    BY <2>1 DEF DoneUpTo, Consumed, Place
  <2> QED
    BY <2>1, <2>2, <2>3, <2>4, <2>5, PagingAssumption DEF SteppedOver, PagingAssumption
<1>2. ASSUME UNCHANGED <<night, cohort, rolled>>, active' \in SUBSET Pairs, shrunk' = TRUE
      PROVE  PagingInv'
  BY <1>2 DEF PagingTypeOK, PagesConsume, SteppedOver, Consumed
<1>3. CASE MidnightUtc
  BY <1>2, <1>3 DEF MidnightUtc, PagingTypeOK
<1>4. CASE BeginNight
  <2>0. night' \in NightRow
    BY <1>4 DEF BeginNight, NightRow, NoNight
  <2>1. /\ night'.phase = "send" /\ night'.list = {} /\ night'.offset = 0
        /\ night'.page = 1 /\ cohort' = active /\ rolled' = {} /\ active' = active /\ shrunk' = FALSE
    BY <1>4 DEF BeginNight, NightRow, NoNight
  <2>2. \A p \in active : Place(active, p) \in Nat \ {0}
    <3> SUFFICES ASSUME NEW p \in active, Place(active, p) = 0 PROVE FALSE
      BY PlacesKnown DEF PagingTypeOK
    <3> DEFINE upTo == {q \in active : q <= p}
    <3>1. upTo \in SUBSET Pairs /\ p \in upTo
      <4>1. active \subseteq Pairs /\ p \in Nat
        BY PagingAssumption DEF PagingTypeOK, PagingAssumption
      <4>2. p <= p /\ upTo \subseteq active
        BY <4>1
      <4> QED
        BY <4>1, <4>2
    <3>2. Cardinality(upTo) = 0 => upTo = {}
      <4> HIDE DEF upTo
      <4> QED
        BY <3>1, FinitePairs, FS_EmptySet
    <3> QED
      BY <3>1, <3>2 DEF Place
  <2>3. DoneUpTo(active, night.offset)'
    BY <2>1, <2>2 DEF DoneUpTo, Place
  <2> QED
    <3>1. PagesConsume'
      BY <2>1, PagingAssumption DEF PagesConsume, PagingAssumption
    <3> QED
      BY <2>0, <2>1, <2>3, <3>1 DEF PagingTypeOK, SteppedOver
<1>5. CASE ActivePairs
  <2>0. night' \in NightRow
    BY <1>5 DEF ActivePairs, NightRow, PagingTypeOK
  <2>1. /\ night'.phase = "work" /\ night.phase = "send" /\ night'.list = active
        /\ night'.done = 0 /\ night'.offset = night.offset /\ night'.page = night.page
        /\ (night'.failed <=> night.failed)
        /\ UNCHANGED <<active, cohort, rolled, shrunk>>
    BY <1>5 DEF ActivePairs, NightRow, PagingTypeOK
  <2>2. Consumed' = night.offset
    BY <2>0, <2>1 DEF Consumed, PagingTypeOK, NightRow
  <2>3. DoneUpTo(active, night.offset) => DoneUpTo(active, night.offset)' /\ DoneUpTo(night.list, Consumed)'
    BY <2>1, <2>2 DEF DoneUpTo, Place
  <2> QED
    BY <2>0, <2>1, <2>3 DEF PagingTypeOK, PagesConsume, SteppedOver
<1>6. CASE RollUpNext
  <2> DEFINE next == Nth(night.list, Consumed + 1)
  <2>1. PICK fails \in BOOLEAN, spent \in BOOLEAN :
        /\ rolled' = IF fails THEN rolled ELSE rolled \union {next}
        /\ night' = [night EXCEPT !.done = @ + 1, !.failure = @ \/ fails,
                        !.phase = IF spent THEN "reply" ELSE "work",
                        !.more = (Consumed + 1 < Cardinality(night.list))]
    BY <1>6 DEF RollUpNext
  <2>0. night' \in NightRow
    <3> DEFINE failure == night.failure \/ fails
               more == Consumed + 1 < Cardinality(night.list)
               phase == IF spent THEN "reply" ELSE "work"
               done == night.done + 1
    <3>1. failure \in BOOLEAN /\ more \in BOOLEAN /\ phase \in {"work", "reply"} /\ done \in Nat
      BY DEF PagingTypeOK, NightRow
    <3>2. night' = [night EXCEPT !.done = done, !.failure = failure, !.phase = phase, !.more = more]
      BY <2>1
    <3> HIDE DEF failure, more, phase, done
    <3> QED
      BY <3>1, <3>2 DEF PagingTypeOK, NightRow
  <2>2. /\ night.phase = "work" /\ night'.phase \in {"work", "reply"}
        /\ night'.list = night.list /\ night'.done = night.done + 1 /\ night'.offset = night.offset
        /\ night'.page = night.page /\ (night'.failed <=> night.failed)
        /\ (night'.failure <=> night.failure \/ fails)
        /\ (night'.more <=> Consumed + 1 < Cardinality(night.list))
        /\ ~ SliceDone
        /\ UNCHANGED <<active, cohort, shrunk>>
    BY <1>6, <2>1 DEF RollUpNext, NightRow, PagingTypeOK
  <2>3. Consumed \in Nat /\ Consumed' = Consumed + 1 /\ Cardinality(night.list) \in Nat
    BY <2>2, FinitePairs DEF Consumed, PagingTypeOK, NightRow
  <2>4. ASSUME ~ night'.failed, ~ night'.failure, ~ shrunk, DoneUpTo(night.list, Consumed),
               cohort \subseteq night.list
        PROVE  DoneUpTo(night.list, Consumed)'
    <3>1. rolled' = rolled \union {next}
      BY <2>1, <2>2, <2>4
    <3>2. ASSUME NEW p \in cohort, Place(night.list, p) <= Consumed + 1 PROVE p \in rolled'
      <4>1. p \in night.list /\ Place(night.list, p) \in Nat
        BY <2>4, PlacesKnown DEF PagingTypeOK, NightRow
      <4>2. CASE Place(night.list, p) <= Consumed
        BY <2>4, <3>1, <4>2 DEF DoneUpTo
      <4>3. CASE Place(night.list, p) = Consumed + 1
        <5>1. next \in night.list /\ Place(night.list, next) = Consumed + 1
          BY <4>1, <4>3 DEF Nth, Place
        <5>2. next = p
          BY <4>1, <4>3, <5>1, PlacesDiffer DEF PagingTypeOK, NightRow
        <5> QED
          BY <3>1, <5>2
      <4> QED
        BY <2>3, <3>2, <4>1, <4>2, <4>3
    <3> QED
      BY <2>2, <2>3, <3>2 DEF DoneUpTo, Place
  <2>5. DoneUpTo(active, night.offset) => DoneUpTo(active, night.offset)'
    BY <2>1, <2>2 DEF DoneUpTo, Place
  <2>6. PagingTypeOK'
    BY <2>0, <2>2 DEF PagingTypeOK
  <2>7. PagesConsume'
    <3>1. night.page \in Nat /\ night.offset \in Nat /\ night.done \in Nat /\ Consumed = night.offset + night.done
      BY DEF PagingTypeOK, NightRow, Consumed
    <3>2. night.page <= night.offset + 1 /\ night.page <= MaxPages
      BY <2>2 DEF PagesConsume
    <3> QED
      BY <2>2, <2>3, <3>1, <3>2 DEF PagesConsume
  <2>8. night.failure \in BOOLEAN
    BY DEF PagingTypeOK, NightRow
  <2>9. SteppedOver'
    <3> SUFFICES ASSUME ~ shrunk PROVE SteppedOver'
      BY <2>2 DEF SteppedOver
    <3>1. /\ cohort \subseteq active /\ night.list \subseteq active /\ cohort \subseteq night.list
          /\ ~ night.failed => DoneUpTo(active, night.offset)
          /\ ~ night.failed /\ ~ night.failure => DoneUpTo(night.list, Consumed)
      BY <2>2 DEF SteppedOver
    <3>2. ~ night'.failed /\ ~ night'.failure => DoneUpTo(night.list, Consumed)'
      BY <2>2, <2>4, <2>8, <3>1
    <3> QED
      BY <2>2, <2>5, <3>1, <3>2 DEF SteppedOver
  <2> QED
    BY <2>6, <2>7, <2>9
<1>7. CASE EndOfSlice
  <2>0. night' \in NightRow
    <3> DEFINE more == Consumed < Cardinality(night.list)
    <3>1. more \in BOOLEAN /\ night' = [night EXCEPT !.phase = "reply", !.more = more]
      BY <1>7 DEF EndOfSlice
    <3> HIDE DEF more
    <3> QED
      BY <3>1 DEF PagingTypeOK, NightRow
  <2>1. /\ night.phase = "work" /\ night'.phase = "reply"
        /\ night'.list = night.list /\ night'.done = night.done /\ night'.offset = night.offset
        /\ night'.page = night.page /\ (night'.failed <=> night.failed) /\ (night'.failure <=> night.failure)
        /\ (night'.more <=> Consumed < Cardinality(night.list)) /\ SliceDone
        /\ UNCHANGED <<active, cohort, rolled, shrunk>>
    BY <1>7 DEF EndOfSlice, NightRow, PagingTypeOK
  <2>2. Consumed \in Nat /\ Consumed' = Consumed /\ Cardinality(night.list) \in Nat
    BY <2>0, <2>1, FinitePairs DEF Consumed, PagingTypeOK, NightRow
  <2>4. /\ DoneUpTo(active, night.offset)' <=> DoneUpTo(active, night.offset)
        /\ DoneUpTo(night.list, Consumed)' <=> DoneUpTo(night.list, Consumed)
    BY <2>1, <2>2 DEF DoneUpTo, Place
  <2>5. PagesConsume'
    <3>1. /\ night.page \in Nat /\ night.offset \in Nat /\ night.done \in Nat /\ Limit \in Nat \ {0}
          /\ Consumed = night.offset + night.done
      BY PagingAssumption DEF PagingTypeOK, NightRow, Consumed, PagingAssumption
    <3>2. night.page <= night.offset + 1 /\ night.page <= MaxPages
      BY <2>1 DEF PagesConsume
    <3>3. night.done = Limit \/ Consumed >= Cardinality(night.list)
      BY <2>1 DEF SliceDone
    <3> QED
      BY <2>1, <2>2, <3>1, <3>2, <3>3 DEF PagesConsume
  <2>6. SteppedOver'
    <3> SUFFICES ASSUME ~ shrunk PROVE SteppedOver'
      BY <2>1 DEF SteppedOver
    <3>1. /\ cohort \subseteq active /\ night.list \subseteq active /\ cohort \subseteq night.list
          /\ ~ night.failed => DoneUpTo(active, night.offset)
          /\ ~ night.failed /\ ~ night.failure => DoneUpTo(night.list, Consumed)
      BY <2>1 DEF SteppedOver
    <3> QED
      BY <2>1, <2>4, <3>1 DEF SteppedOver
  <2> QED
    BY <2>0, <2>1, <2>5, <2>6 DEF PagingTypeOK
<1>8. CASE LosePage
  <2>0. night' \in NightRow
    <3> DEFINE tries == night.tries + 1
    <3>1. tries \in Nat
      BY DEF PagingTypeOK, NightRow
    <3>2. \/ night' = [night EXCEPT !.phase = "send", !.tries = tries, !.list = {}, !.done = 0]
          \/ night' = [night EXCEPT !.phase = "failed"]
      BY <1>8 DEF LosePage
    <3> HIDE DEF tries
    <3>3. CASE night' = [night EXCEPT !.phase = "send", !.tries = tries, !.list = {}, !.done = 0]
      BY <3>1, <3>3 DEF PagingTypeOK, NightRow
    <3>4. CASE night' = [night EXCEPT !.phase = "failed"]
      BY <3>4 DEF PagingTypeOK, NightRow
    <3> QED
      BY <3>2, <3>3, <3>4
  <2>1. /\ night.phase \in {"send", "work", "reply"}
        /\ night'.phase \in {"send", "failed"}
        /\ night'.offset = night.offset /\ night'.page = night.page /\ (night'.failed <=> night.failed)
        /\ night'.list \in {night.list, {}}
        /\ UNCHANGED <<active, cohort, rolled, shrunk>>
    BY <1>8 DEF LosePage, NightRow, PagingTypeOK
  <2>2. DoneUpTo(active, night.offset)' <=> DoneUpTo(active, night.offset)
    BY <2>1 DEF DoneUpTo, Place
  <2>3. PagesConsume'
    BY <2>1 DEF PagesConsume
  <2>4. SteppedOver'
    <3> SUFFICES ASSUME ~ shrunk PROVE SteppedOver'
      BY <2>1 DEF SteppedOver
    <3>1. /\ cohort \subseteq active /\ night.list \subseteq active
          /\ ~ night.failed => DoneUpTo(active, night.offset)
      BY <2>1 DEF SteppedOver
    <3> QED
      BY <2>1, <2>2, <3>1 DEF SteppedOver
  <2> QED
    BY <2>0, <2>1, <2>3, <2>4 DEF PagingTypeOK
<1>9. CASE NextPage
  <2>0. night' \in NightRow
    <3> DEFINE page == night.page + 1
               failed == night.failed \/ night.failure
    <3>1. page \in Nat /\ failed \in BOOLEAN /\ Consumed \in Nat
      BY DEF PagingTypeOK, NightRow, Consumed
    <3>2. night' = [night EXCEPT !.phase = "send", !.page = page, !.tries = 0, !.offset = Consumed,
                        !.failed = failed, !.list = {}, !.done = 0]
      BY <1>9 DEF NextPage
    <3> HIDE DEF page, failed
    <3> QED
      BY <3>1, <3>2 DEF PagingTypeOK, NightRow
  <2>1. /\ night.phase = "reply" /\ night'.phase = "send"
        /\ night'.offset = Consumed /\ night'.page = night.page + 1 /\ night'.list = {}
        /\ (night'.failed <=> night.failed \/ night.failure) /\ night.more /\ night.page < MaxPages
        /\ UNCHANGED <<active, cohort, rolled, shrunk>>
    BY <1>9 DEF NextPage, NightRow, PagingTypeOK, Consumed
  <2>2. Consumed \in Nat
    BY DEF Consumed, PagingTypeOK, NightRow
  <2>3. ASSUME ~ shrunk, DoneUpTo(night.list, Consumed) PROVE DoneUpTo(active, night.offset)'
    <3>1. DoneUpTo(active, Consumed)
      BY <2>0, <2>1, <2>2, <2>3, DoneOfLonger DEF SteppedOver, PagingTypeOK
    <3> QED
      BY <2>1, <3>1 DEF DoneUpTo, Place
  <2>4. PagesConsume'
    <3>1. night.page \in Nat /\ MaxPages \in Nat
      BY PagingAssumption DEF PagingTypeOK, NightRow, PagingAssumption
    <3>2. night.page <= Consumed
      BY <2>1 DEF PagesConsume
    <3> QED
      BY <2>1, <2>2, <3>1, <3>2 DEF PagesConsume
  <2>5. SteppedOver'
    <3> SUFFICES ASSUME ~ shrunk PROVE SteppedOver'
      BY <2>1 DEF SteppedOver
    <3>1. /\ cohort \subseteq active
          /\ ~ night.failed /\ ~ night.failure => DoneUpTo(night.list, Consumed)
      BY <2>1 DEF SteppedOver
    <3>2. night.failed \in BOOLEAN /\ night.failure \in BOOLEAN
      BY DEF PagingTypeOK, NightRow
    <3> QED
      BY <2>1, <2>3, <3>1, <3>2 DEF SteppedOver
  <2> QED
    BY <2>0, <2>1, <2>4, <2>5 DEF PagingTypeOK
<1>10. CASE LastPage
  <2>0. night' \in NightRow
    BY <1>10 DEF LastPage, NightRow, PagingTypeOK
  <2>1. /\ night.phase = "reply" /\ night'.list = night.list
        /\ night'.phase = IF night.failed \/ night.failure THEN "failed"
                          ELSE IF night.more THEN "truncated" ELSE "green"
        /\ ~ night.more \/ night.page = MaxPages
        /\ UNCHANGED <<active, cohort, rolled, shrunk>>
    BY <1>10 DEF LastPage, NightRow, PagingTypeOK
  <2>2. Consumed \in Nat /\ Cardinality(night.list) \in Nat /\ Cardinality(active) \in Nat
    BY FinitePairs DEF Consumed, PagingTypeOK, NightRow
  <2>3. ASSUME ~ shrunk, night'.phase = "green" PROVE cohort \subseteq rolled
    <3>1. DoneUpTo(night.list, Consumed) /\ Consumed >= Cardinality(night.list)
      BY <2>1, <2>3 DEF SteppedOver, PagesConsume
    <3>2. \A p \in cohort : Place(night.list, p) \in Nat /\ Place(night.list, p) <= Cardinality(night.list)
      BY PlacesKnown DEF PagingTypeOK, NightRow
    <3> QED
      BY <2>2, <3>1, <3>2 DEF DoneUpTo
  <2>4. ASSUME ~ shrunk, night'.phase = "truncated" PROVE Cardinality(active) > MaxPages
    <3>1. MaxPages <= Consumed /\ Consumed < Cardinality(night.list)
      BY <2>1, <2>4 DEF PagesConsume
    <3>2. Cardinality(night.list) <= Cardinality(active)
      BY <2>0, <2>1, <2>4, FinitePairs, FS_Subset DEF SteppedOver, PagingTypeOK
    <3> QED
      BY <2>2, <3>1, <3>2, PagingAssumption DEF PagingAssumption
  <2> QED
    BY <2>0, <2>1, <2>3, <2>4 DEF SteppedOver, PagesConsume, PagingTypeOK
<1>11. CASE UNCHANGED pagingVars
  BY <1>11 DEF pagingVars, PagingTypeOK, PagesConsume, SteppedOver, DoneUpTo, Place, Consumed
<1> QED
  BY <1>1, <1>3, <1>4, <1>5, <1>6, <1>7, <1>8, <1>9, <1>10, <1>11 DEF PagingNext, WorkflowStep

\* A night that ends green has rolled up every pair that was there when it began,
\* for any pairs, page size, budgets and retries, unless midnight UTC took pairs
\* off the list; the page ceiling cuts off only a list longer than it
\* (runNightlyRollup of rollup-cron.service.ts, activity-rollup.yml).
THEOREM NightsAccount == PagingSpec => []NightAccounted
<1>1. PagingInv => NightAccounted
  BY DEF PagingInv, SteppedOver, NightAccounted
<1> QED
  BY <1>1, PagingInvInit, PagingInvNext, PTL DEF PagingSpec

-----------------------------------------------------------------------------
(* PracticeStreaks: days in a list                                          *)

LEMMA FirstIs ==
    ASSUME NEW ks \in SUBSET Nat, ks # {}
    PROVE  First(ks) \in ks /\ \A j \in ks : First(ks) <= j
BY LeastNat DEF First

LEMMA MaxIs ==
    ASSUME NEW S \in SUBSET Int, NEW m \in S, \A y \in S : y <= m
    PROVE  Max(S) = m
<1>1. \A y \in S : m >= y
  OBVIOUS
<1>2. /\ Max(S) \in S /\ \A y \in S : Max(S) >= y
  BY <1>1 DEF Max
<1>3. Max(S) >= m /\ Max(S) <= m /\ Max(S) \in Int /\ m \in Int
  BY <1>2
<1> QED
  BY <1>3

\* The latest and the earliest of some days.
LEMMA LatestDay ==
    ASSUME NEW a \in Int, NEW b \in Int, NEW S \in SUBSET (a .. b), S # {}
    PROVE  \E d \in S : \A e \in S : e <= d
<1> DEFINE T == {b - d : d \in S}
<1>1. T \subseteq Nat /\ T # {}
  <2>1. \A d \in S : d \in Int /\ a <= d /\ d <= b
    OBVIOUS
  <2>2. \A d \in S : b - d \in Nat
    BY <2>1
  <2> QED
    BY <2>2
<1>2. PICK m \in T : \A i \in T : m <= i
  BY <1>1, LeastNat
<1>3. PICK d \in S : m = b - d
  BY <1>2
<1>4. ASSUME NEW e \in S PROVE e <= d
  <2>1. m <= b - e
    BY <1>2
  <2> QED
    BY <1>3, <2>1
<1> QED
  BY <1>4

LEMMA EarliestDay ==
    ASSUME NEW a \in Int, NEW b \in Int, NEW S \in SUBSET (a .. b), S # {}
    PROVE  \E d \in S : \A e \in S : d <= e
<1> DEFINE T == {d - a : d \in S}
<1>1. T \subseteq Nat /\ T # {}
  <2>1. \A d \in S : d \in Int /\ a <= d /\ d <= b
    OBVIOUS
  <2>2. \A d \in S : d - a \in Nat
    BY <2>1
  <2> QED
    BY <2>2
<1>2. PICK m \in T : \A i \in T : m <= i
  BY <1>1, LeastNat
<1>3. PICK d \in S : m = d - a
  BY <1>2
<1>4. ASSUME NEW e \in S PROVE d <= e
  <2>1. m <= e - a
    BY <1>2
  <2> QED
    BY <1>3, <2>1
<1> QED
  BY <1>4

\* A day's place in the list that goes down, and in the one that goes up.
Down(S, d) == Cardinality({e \in S : e >= d})
Up(S, d) == Cardinality({e \in S : e <= d})

LEMMA PlacesIn ==
    ASSUME NEW a \in Int, NEW b \in Int, NEW S \in SUBSET (a .. b)
    PROVE  /\ IsFiniteSet(S) /\ Cardinality(S) \in Nat
           /\ \A d \in S : Down(S, d) \in 1 .. Cardinality(S) /\ Up(S, d) \in 1 .. Cardinality(S)
           /\ \A d, e \in S : d < e => Down(S, e) < Down(S, d) /\ Up(S, d) < Up(S, e)
<1>1. IsFiniteSet(S) /\ Cardinality(S) \in Nat
  BY FS_Interval, FS_Subset, FS_CardinalityType
<1>2. \A T \in SUBSET S : IsFiniteSet(T) /\ Cardinality(T) \in Nat /\ Cardinality(T) <= Cardinality(S)
  BY <1>1, FS_Subset, FS_CardinalityType
<1>3. ASSUME NEW T \in SUBSET S, NEW d \in T, NEW U \in SUBSET (T \ {d}) PROVE Cardinality(U) < Cardinality(T)
  <2>1. IsFiniteSet(T) /\ Cardinality(T) \in Nat /\ Cardinality(U) \in Nat
    BY <1>2
  <2>2. IsFiniteSet(T \ {d}) /\ Cardinality(T \ {d}) = Cardinality(T) - 1
    BY <2>1, FS_RemoveElement
  <2>3. Cardinality(U) <= Cardinality(T \ {d})
    BY <2>2, FS_Subset
  <2> QED
    BY <2>1, <2>2, <2>3
<1>4. ASSUME NEW d \in S PROVE Down(S, d) \in 1 .. Cardinality(S) /\ Up(S, d) \in 1 .. Cardinality(S)
  <2>1. {e \in S : e >= d} \in SUBSET S /\ {e \in S : e <= d} \in SUBSET S
    OBVIOUS
  <2>2. d \in {e \in S : e >= d} /\ d \in {e \in S : e <= d}
    OBVIOUS
  <2>3. Cardinality({}) = 0
    BY FS_EmptySet
  <2>4. 0 < Down(S, d) /\ 0 < Up(S, d)
    BY <1>3, <2>1, <2>2, <2>3 DEF Down, Up
  <2>5. Down(S, d) \in Nat /\ Up(S, d) \in Nat /\ Down(S, d) <= Cardinality(S) /\ Up(S, d) <= Cardinality(S)
    BY <1>2, <2>1 DEF Down, Up
  <2> QED
    BY <1>1, <2>4, <2>5
<1>5. ASSUME NEW d \in S, NEW e \in S, d < e PROVE Down(S, e) < Down(S, d) /\ Up(S, d) < Up(S, e)
  <2>0. d \in Int /\ e \in Int /\ \A c \in S : c \in Int
    OBVIOUS
  <2>1. /\ {c \in S : c >= d} \in SUBSET S /\ d \in {c \in S : c >= d}
        /\ {c \in S : c >= e} \in SUBSET ({c \in S : c >= d} \ {d})
    <3>1. \A c \in S : c >= e => c >= d /\ c # d
      BY <1>5, <2>0
    <3>2. d >= d
      BY <2>0
    <3> QED
      BY <3>1, <3>2
  <2>2. /\ {c \in S : c <= e} \in SUBSET S /\ e \in {c \in S : c <= e}
        /\ {c \in S : c <= d} \in SUBSET ({c \in S : c <= e} \ {e})
    <3>1. \A c \in S : c <= d => c <= e /\ c # e
      BY <1>5, <2>0
    <3>2. e <= e
      BY <2>0
    <3> QED
      BY <3>1, <3>2
  <2>3. Cardinality({c \in S : c >= e}) < Cardinality({c \in S : c >= d})
    BY <1>3, <2>1
  <2>4. Cardinality({c \in S : c <= d}) < Cardinality({c \in S : c <= e})
    BY <1>3, <2>2
  <2> QED
    BY <2>3, <2>4 DEF Down, Up
<1> QED
  BY <1>1, <1>4, <1>5

\* Each place is taken by one day.
LEMMA EachPlaceTaken ==
    ASSUME NEW a \in Int, NEW b \in Int, NEW S \in SUBSET (a .. b)
    PROVE  \A k \in 1 .. Cardinality(S) : (\E d \in S : Down(S, d) = k) /\ (\E d \in S : Up(S, d) = k)
<1>1. /\ IsFiniteSet(S) /\ Cardinality(S) \in Nat
      /\ \A d \in S : Down(S, d) \in 1 .. Cardinality(S) /\ Up(S, d) \in 1 .. Cardinality(S)
      /\ \A d, e \in S : d < e => Down(S, e) < Down(S, d) /\ Up(S, d) < Up(S, e)
  BY PlacesIn
<1> DEFINE N == Cardinality(S)
           down == [d \in S |-> Down(S, d)]
           up == [d \in S |-> Up(S, d)]
<1>2. IsFiniteSet(1 .. N) /\ Cardinality(1 .. N) = N
  BY <1>1, FS_Interval
<1>3. \A d, e \in S : d # e => d < e \/ e < d
  OBVIOUS
<1>4. down \in Injection(S, 1 .. N) /\ up \in Injection(S, 1 .. N)
  <2>1. down \in [S -> 1 .. N] /\ up \in [S -> 1 .. N]
    BY <1>1
  <2>2. \A d, e \in S : d # e => down[d] # down[e] /\ up[d] # up[e]
    BY <1>1, <1>3
  <2> HIDE DEF down, up
  <2> QED
    BY <2>1, <2>2, Zenon DEF Injection, IsInjective
<1>5. down \in Surjection(S, 1 .. N) /\ up \in Surjection(S, 1 .. N)
  <2> HIDE DEF down, up, N
  <2> QED
    BY <1>2, <1>4, FS_Injection DEF N
<1>6. \A k \in 1 .. N : (\E d \in S : down[d] = k) /\ (\E d \in S : up[d] = k)
  <2> HIDE DEF down, up, N
  <2> QED
    BY <1>5 DEF Surjection, Range
<1> QED
  BY <1>6

LEMMA ListOfDays ==
    ASSUME NEW a \in Int, NEW b \in Int, NEW S \in SUBSET (a .. b)
    PROVE  /\ Len(Descending(S)) = Cardinality(S) /\ Len(Ascending(S)) = Cardinality(S)
           /\ Cardinality(S) \in Nat
           /\ DOMAIN Descending(S) = 1 .. Cardinality(S) /\ DOMAIN Ascending(S) = 1 .. Cardinality(S)
           /\ Descending(S) = <<>> <=> S = {}
           /\ \A d \in S : Down(S, d) \in 1 .. Cardinality(S) /\ Up(S, d) \in 1 .. Cardinality(S)
           /\ \A d \in S : Descending(S)[Down(S, d)] = d /\ Ascending(S)[Up(S, d)] = d
           /\ \A k \in 1 .. Cardinality(S) :
                /\ Descending(S)[k] \in S /\ Down(S, Descending(S)[k]) = k
                /\ Ascending(S)[k] \in S /\ Up(S, Ascending(S)[k]) = k
<1>1. /\ IsFiniteSet(S) /\ Cardinality(S) \in Nat
      /\ \A d \in S : Down(S, d) \in 1 .. Cardinality(S) /\ Up(S, d) \in 1 .. Cardinality(S)
      /\ \A d, e \in S : d < e => Down(S, e) < Down(S, d) /\ Up(S, d) < Up(S, e)
  BY PlacesIn
<1>2. /\ Descending(S) = [i \in 1 .. Cardinality(S) |-> CHOOSE d \in S : Down(S, d) = i]
      /\ Ascending(S) = [i \in 1 .. Cardinality(S) |-> CHOOSE d \in S : Up(S, d) = i]
  <2>1. Descending(S) = [i \in 1 .. Cardinality(S) |-> CHOOSE d \in S : Down(S, d) = i]
    BY DEF Descending, Down
  <2>2. Ascending(S) = [i \in 1 .. Cardinality(S) |-> CHOOSE d \in S : Up(S, d) = i]
    BY DEF Ascending, Up
  <2> QED
    BY <2>1, <2>2
<1>3. \A d, e \in S : d # e => Down(S, d) # Down(S, e) /\ Up(S, d) # Up(S, e)
  <2>1. \A d, e \in S : d # e => d < e \/ e < d
    OBVIOUS
  <2> QED
    BY <1>1, <2>1
<1>4. \A k \in 1 .. Cardinality(S) :
        /\ Descending(S)[k] \in S /\ Down(S, Descending(S)[k]) = k
        /\ Ascending(S)[k] \in S /\ Up(S, Ascending(S)[k]) = k
  <2> TAKE k \in 1 .. Cardinality(S)
  <2>1. (\E d \in S : Down(S, d) = k) /\ (\E d \in S : Up(S, d) = k)
    BY EachPlaceTaken, Zenon
  <2>2. /\ Descending(S)[k] = CHOOSE d \in S : Down(S, d) = k
        /\ Ascending(S)[k] = CHOOSE d \in S : Up(S, d) = k
    BY <1>2
  <2> QED
    BY <2>1, <2>2, Zenon
<1>5. \A d \in S : Descending(S)[Down(S, d)] = d /\ Ascending(S)[Up(S, d)] = d
  BY <1>1, <1>3, <1>4
<1>6. /\ DOMAIN Descending(S) = 1 .. Cardinality(S) /\ DOMAIN Ascending(S) = 1 .. Cardinality(S)
  BY <1>2
<1>7. /\ Len(Descending(S)) = Cardinality(S) /\ Len(Ascending(S)) = Cardinality(S)
  BY <1>1, <1>6, <1>2
<1>8. Descending(S) = <<>> <=> S = {}
  <2>1. S = {} => Descending(S) = <<>>
    <3>1. S = {} => Cardinality(S) = 0
      BY FS_EmptySet
    <3>2. 1 .. 0 = {}
      OBVIOUS
    <3> QED
      BY <1>2, <3>1, <3>2
  <2>2. Descending(S) = <<>> => S = {}
    <3>1. ASSUME NEW d \in S PROVE Descending(S) # <<>>
      <4>1. 1 \in 1 .. Cardinality(S)
        BY <1>1
      <4>2. 1 \notin DOMAIN <<>>
        OBVIOUS
      <4> QED
        BY <1>6, <4>1, <4>2
    <3> QED
      BY <3>1
  <2> QED
    BY <2>1, <2>2
<1> QED
  BY <1>1, <1>4, <1>5, <1>6, <1>7, <1>8

-----------------------------------------------------------------------------
(* PracticeStreaks: a run that ends on a day                                *)

\* There are n days in a row back from `end', and no more.
Back(S, end, n) == (\A i \in 0 .. n - 1 : end - i \in S) /\ end - n \notin S

LEMMA BackIs ==
    ASSUME NEW a \in Int, NEW S, \A d \in S : a <= d, NEW end \in Int
    PROVE  \E n \in Nat : Back(S, end, n)
<1> DEFINE T == {n \in Nat : end - n \notin S}
<1>1. T # {}
  <2>1. CASE end < a
    <3>1. end - 0 \notin S
      BY <2>1
    <3> QED
      BY <3>1
  <2>2. CASE ~ (end < a)
    <3>1. end - a + 1 \in Nat /\ end - (end - a + 1) \notin S
      BY <2>2
    <3> QED
      BY <3>1
  <2> QED
    BY <2>1, <2>2
<1>2. PICK n \in T : \A m \in T : n <= m
  <2>1. T \subseteq Nat
    OBVIOUS
  <2> HIDE DEF T
  <2> QED
    BY <1>1, <2>1, LeastNat
<1>3. n \in Nat /\ end - n \notin S
  BY <1>2
<1>4. ASSUME NEW i \in 0 .. n - 1 PROVE end - i \in S
  <2>1. i \in Nat /\ ~ (n <= i)
    BY <1>3
  <2>2. i \notin T
    BY <1>2, <2>1, Zenon
  <2> QED
    BY <2>1, <2>2
<1> QED
  BY <1>3, <1>4 DEF Back

LEMMA OneBack ==
    ASSUME NEW S, NEW end \in Int, NEW n \in Nat, NEW m \in Nat, Back(S, end, n), Back(S, end, m)
    PROVE  n = m
<1>1. ~ (n < m)
  <2>1. n < m => n \in 0 .. m - 1
    OBVIOUS
  <2> QED
    BY <2>1 DEF Back
<1>2. ~ (m < n)
  <2>1. m < n => m \in 0 .. n - 1
    OBVIOUS
  <2> QED
    BY <2>1 DEF Back
<1> QED
  BY <1>1, <1>2

LiveEnd(S, day) == IF day \in S THEN day ELSE day - 1

LEMMA LiveEndIs ==
    ASSUME NEW S, NEW day \in Int
    PROVE  /\ LiveEnd(S, day) \in Int /\ LiveEnd(S, day) \in {day, day - 1}
           /\ LiveEnd(S, day) = day \/ day \notin S
BY DEF LiveEnd

\* It is the length of the live run.
LEMMA LiveRunIs ==
    ASSUME NEW days \in SUBSET Int, NEW day \in Int, NEW reach \in Int, NEW n \in Nat,
           Back({d \in days : day - d < reach}, LiveEnd(days, day), n)
    PROVE  LiveRun(days, day, reach) = n
<1> DEFINE S == {d \in days : day - d < reach}
           end == LiveEnd(days, day)
           runs == {r \in RunsIn(S) : r[2] = end}
           lengths == {0} \union {Length(run) : run \in runs}
<1>1. S \in SUBSET Int /\ end \in Int /\ Back(S, end, n)
  BY LiveEndIs
<1> HIDE DEF S, end
<1>2. ASSUME NEW r \in runs
      PROVE  Length(r) \in Int /\ Length(r) <= n
  <2>1. /\ r[1] \in S /\ r[2] = end /\ r[1] \in Int /\ r[1] <= end /\ r[1] .. end \subseteq S
    BY <1>1 DEF RunsIn
  <2>2. ~ (r[1] <= end - n)
    <3>1. r[1] <= end - n => end - n \in r[1] .. end
      BY <1>1, <2>1
    <3> QED
      BY <1>1, <2>1, <3>1 DEF Back
  <2> QED
    BY <1>1, <2>1, <2>2 DEF Length
<1>3. n \in lengths
  <2>1. CASE n = 0
    BY <2>1
  <2>2. CASE n # 0
    <3> DEFINE r == <<end - n + 1, end>>
    <3>1. \A d \in end - n + 1 .. end : d \in S
      <4> TAKE d \in end - n + 1 .. end
      <4>1. end - d \in 0 .. n - 1 /\ end - (end - d) = d
        BY <1>1
      <4> QED
        BY <1>1, <4>1 DEF Back
    <3>2. end - n + 1 \in end - n + 1 .. end /\ end \in end - n + 1 .. end /\ end - n + 1 <= end
      BY <1>1, <2>2
    <3>3. r \in S \X S /\ r[1] = end - n + 1 /\ r[2] = end
      BY <3>1, <3>2
    <3>4. r \in runs
      BY <3>1, <3>2, <3>3 DEF RunsIn
    <3>5. Length(r) = n
      BY <1>1, <3>3 DEF Length
    <3> HIDE DEF r, runs
    <3> QED
      BY <3>4, <3>5
  <2> QED
    BY <2>1, <2>2
<1>4. Max(lengths) = n
  <2>1. \A y \in lengths : y \in Int /\ y <= n
    BY <1>2
  <2> HIDE DEF lengths
  <2> QED
    BY <1>3, <2>1, MaxIs
<1> QED
  BY <1>4, Zenon DEF LiveRun, LiveEnd, S, end, runs, lengths

\* So are the days at the head of the list that goes down.
LEMMA HeadRunIs ==
    ASSUME NEW a \in Int, NEW b \in Int, NEW S \in SUBSET (a .. b), NEW end \in S, \A d \in S : d <= end,
           NEW n \in Nat, Back(S, end, n)
    PROVE  Descending(S) # <<>> /\ Descending(S)[1] = end /\ HeadRun(Descending(S)) = n /\ n > 0
<1> DEFINE N == Cardinality(S)
           list == Descending(S)
           stops == {i \in 1 .. Len(list) : i = Len(list) \/ list[i + 1] # list[i] - 1}
<1>1. /\ Len(list) = N /\ N \in Nat /\ list # <<>> /\ S # {}
      /\ \A d \in S : Down(S, d) \in 1 .. N /\ list[Down(S, d)] = d
      /\ \A k \in 1 .. N : list[k] \in S /\ Down(S, list[k]) = k
  BY ListOfDays
<1> HIDE DEF list, N
<1>2. end \in Int /\ n > 0 /\ \A d \in S : d \in Int
  <2>1. end - 0 = end
    OBVIOUS
  <2> QED
    BY <2>1 DEF Back
<1>3. \A k \in 1 .. n : k <= N /\ list[k] = end - k + 1
  <2> TAKE k \in 1 .. n
  <2>1. {e \in S : e >= end - k + 1} = end - k + 1 .. end
    <3>1. \A d \in end - k + 1 .. end : d \in S
      <4> TAKE d \in end - k + 1 .. end
      <4>1. end - d \in 0 .. n - 1 /\ end - (end - d) = d
        BY <1>2
      <4> QED
        BY <4>1 DEF Back
    <3>2. end - k + 1 \in Int
      BY <1>2
    <3>3. \A e \in S : e >= end - k + 1 => e \in end - k + 1 .. end
      BY <1>2, <3>2
    <3>4. \A e \in end - k + 1 .. end : e >= end - k + 1
      BY <1>2, <3>2
    <3> QED
      BY <3>1, <3>3, <3>4
  <2>2. Down(S, end - k + 1) = k
    <3>1. Cardinality(end - k + 1 .. end) = k
      BY <1>2, FS_Interval
    <3> QED
      BY <2>1, <3>1 DEF Down
  <2>3. end - k + 1 \in S
    BY <1>2, <2>1
  <2> QED
    BY <1>1, <2>2, <2>3
<1>4. \A i \in stops : n <= i
  <2> SUFFICES ASSUME NEW i \in stops, i < n PROVE FALSE
    BY <1>1
  <2>1. i \in 1 .. n /\ i + 1 \in 1 .. n /\ i \in Nat
    BY <1>1
  <2>2. list[i] = end - i + 1 /\ list[i + 1] = end - (i + 1) + 1 /\ i + 1 <= N
    BY <1>3, <2>1
  <2> QED
    BY <1>1, <1>2, <2>1, <2>2
<1>5. n \in stops
  <2>1. n \in 1 .. N /\ list[n] = end - n + 1
    BY <1>1, <1>2, <1>3
  <2>2. CASE n = N
    BY <1>1, <2>1, <2>2
  <2>3. CASE n # N
    <3>1. n + 1 \in 1 .. N /\ list[n + 1] \in S
      BY <1>1, <2>1, <2>3
    <3>2. list[n] - 1 = end - n
      BY <1>2, <2>1
    <3> QED
      BY <1>1, <2>1, <3>1, <3>2 DEF Back
  <2> QED
    BY <2>2, <2>3
<1>6. First(stops) = n
  <2>1. stops \in SUBSET Nat
    BY <1>1
  <2> HIDE DEF stops
  <2>2. First(stops) \in stops /\ \A j \in stops : First(stops) <= j
    BY <1>5, <2>1, FirstIs
  <2>3. First(stops) <= n /\ n <= First(stops) /\ First(stops) \in Nat
    BY <1>4, <1>5, <2>1, <2>2
  <2> QED
    BY <2>3
<1>7. HeadRun(list) = n
  BY <1>6, Zenon DEF HeadRun
<1>8. list[1] = end
  <2>1. 1 \in 1 .. n
    BY <1>2
  <2> QED
    BY <1>2, <1>3, <2>1
<1> QED
  BY <1>1, <1>2, <1>7, <1>8 DEF list

LEMMA CountStreakIs ==
    ASSUME NEW a \in Int, NEW b \in Int, NEW S \in SUBSET (a .. b), NEW day \in Int, NEW n \in Nat,
           Back(UpTo(S, day), LiveEnd(S, day), n)
    PROVE  /\ CountStreak(S, day) = n
           /\ n > 0 => Descending(UpTo(S, day))[1] = LiveEnd(S, day)
<1> DEFINE U == UpTo(S, day)
           end == LiveEnd(S, day)
<1>1. /\ U \in SUBSET (a .. b) /\ end \in Int /\ end \in {day, day - 1} /\ Back(U, end, n)
      /\ \A d \in U : d \in Int /\ d <= day /\ d <= end
      /\ \A d \in U : end # day => d # day
  <2>1. \A d \in U : d \in S /\ d \in Int /\ d <= day
    BY DEF UpTo
  <2>2. U \in SUBSET (a .. b) /\ end \in Int /\ end \in {day, day - 1}
    BY LiveEndIs DEF UpTo
  <2>3. \A d \in U : end # day => d # day
    BY <2>1, LiveEndIs
  <2>4. Back(U, end, n)
    OBVIOUS
  <2>5. \A d \in U : d <= end
    BY <2>1, <2>2, <2>3
  <2> QED
    BY <2>1, <2>2, <2>3, <2>4, <2>5
<1> HIDE DEF U, end
<1>2. CASE end \in U
  <2>1. Descending(U) # <<>> /\ Descending(U)[1] = end /\ HeadRun(Descending(U)) = n /\ n > 0
    BY <1>1, <1>2, HeadRunIs
  <2>2. ~ (day - end > 1)
    BY <1>1
  <2> QED
    BY <2>1, <2>2 DEF CountStreak, U, end
<1>3. CASE end \notin U
  <2>1. n = 0
    <3>1. n > 0 => 0 \in 0 .. n - 1 /\ end - 0 = end
      BY <1>1
    <3> QED
      BY <1>1, <1>3, <3>1 DEF Back
  <2>2. CASE U = {}
    <3>1. Descending(U) = <<>>
      BY <1>1, <2>2, ListOfDays
    <3> QED
      BY <2>1, <3>1 DEF CountStreak, U
  <2>3. CASE U # {}
    <3>1. PICK newestDay \in U : \A d \in U : d <= newestDay
      BY <1>1, <2>3, LatestDay
    <3>2. PICK m \in Nat : Back(U, newestDay, m)
      <4>1. newestDay \in Int /\ \A d \in U : a <= d
        <5>1. \A d \in a .. b : d \in Int /\ a <= d
          OBVIOUS
        <5> QED
          BY <1>1, <5>1
      <4> QED
        BY <4>1, BackIs
    <3>3. Descending(U) # <<>> /\ Descending(U)[1] = newestDay
      BY <1>1, <3>1, <3>2, HeadRunIs
    <3>4. day - newestDay > 1
      <4>1. newestDay # end /\ newestDay # day
        BY <1>1, <1>3, <3>1
      <4>2. newestDay \in Int /\ newestDay <= day /\ newestDay <= end
        BY <1>1, <3>1
      <4>3. CASE end = day - 1
        BY <1>1, <4>1, <4>2, <4>3
      <4>4. CASE end = day
        <5>1. day \in S
          BY <4>4 DEF LiveEnd, end
        <5>2. day \in U
          BY <5>1 DEF UpTo, U
        <5> QED
          BY <1>3, <4>4, <5>2
      <4> QED
        BY <1>1, <4>3, <4>4
    <3> QED
      BY <2>1, <3>3, <3>4 DEF CountStreak, U
  <2> QED
    BY <2>2, <2>3
<1> QED
  BY <1>2, <1>3

\* prayerStreak finds the live run, as far as its windows reach: the walk stops
\* where the run breaks, and at a window's edge it goes on.
LEMMA PrayerIsLive ==
    ASSUME NEW days \in SUBSET Int, NEW day \in Int
    PROVE  PrayerStreak(days, day) = LiveRun(days, day, MaxChunks * ChunkDays)
<1> DEFINE streak(k) == CountStreak(Fetched(days, k, day), day)
           newest(k) == Descending(Fetched(days, k, day))[1]
           done(k) == streak(k) = 0 \/ newest(k) - (streak(k) - 1) > Floor(k, day)
           stops == {k \in 1 .. MaxChunks : k = MaxChunks \/ done(k)}
           end == LiveEnd(days, day)
           reach == MaxChunks * ChunkDays
           S == {d \in days : day - d < reach}
<1>1. /\ MaxChunks \in Nat \ {0} /\ ChunkDays \in Nat /\ ChunkDays > 1
      /\ reach \in Nat /\ end \in Int /\ end \in {day, day - 1} /\ (end = day \/ day \notin days)
  BY PracticeAssumption, LiveEndIs DEF PracticeAssumption
<1>2. PICK K : K = First(stops) /\ K \in stops /\ PrayerStreak(days, day) = streak(K)
  <2>1. stops \in SUBSET Nat /\ MaxChunks \in stops
    BY <1>1
  <2>2. First(stops) \in stops
    <3> HIDE DEF stops
    <3> QED
      BY <2>1, FirstIs
  <2>3. PrayerStreak(days, day) = streak(First(stops))
    BY Zenon DEF PrayerStreak
  <2> QED
    BY <2>2, <2>3
<1>3. K \in 1 .. MaxChunks /\ (K = MaxChunks \/ done(K))
  BY <1>2
<1> DEFINE F == Fetched(days, K, day)
           floor == Floor(K, day)
<1>4. /\ floor \in Int /\ floor < day /\ floor >= day - reach + 1
      /\ K = MaxChunks => floor = day - reach + 1
  <2>1. K \in Nat /\ K * ChunkDays \in Nat /\ 1 * ChunkDays <= K * ChunkDays /\ K * ChunkDays <= MaxChunks * ChunkDays
    BY <1>1, <1>3
  <2> QED
    BY <1>1, <2>1 DEF Floor
<1> HIDE DEF floor
<1>5. /\ F \in SUBSET (floor .. day) /\ UpTo(F, day) = F
      /\ \A d \in Int : d \in F <=> d \in days /\ floor <= d /\ d <= day
  <2>1. \A d : d \in F <=> d \in days /\ floor <= d /\ d <= day
    BY DEF Fetched, floor
  <2>2. \A d \in F : d \in Int /\ d <= day /\ floor <= d
    BY <2>1
  <2>3. UpTo(F, day) = F
    BY <2>2 DEF UpTo
  <2>4. F \in SUBSET (floor .. day)
    BY <1>4, <2>2
  <2> QED
    BY <2>1, <2>3, <2>4
<1>6. LiveEnd(F, day) = end
  BY <1>1, <1>4, <1>5 DEF LiveEnd, end
<1>7. PICK n \in Nat : Back(F, end, n)
  BY <1>1, <1>4, <1>5, BackIs
<1>8. streak(K) = n /\ (n > 0 => newest(K) = end)
  <2>1. CountStreak(F, day) = n /\ (n > 0 => Descending(UpTo(F, day))[1] = end)
    BY <1>4, <1>5, <1>6, <1>7, CountStreakIs
  <2> QED
    BY <1>5, <2>1
<1>9. end - n \notin S
  <2>1. end - n \in Int /\ end - n <= day /\ end - n \notin F
    BY <1>1, <1>7 DEF Back
  <2>2. CASE floor <= end - n
    <3>1. end - n \notin days
      BY <1>5, <2>1, <2>2
    <3> QED
      BY <3>1
  <2>3. CASE K = MaxChunks /\ end - n < floor
    <3>1. ~ (day - (end - n) < reach)
      BY <1>1, <1>4, <2>1, <2>3
    <3> QED
      BY <3>1
  <2>4. CASE done(K) /\ end - n < floor
    <3>1. n = 0 \/ end - (n - 1) > floor
      BY <1>8, <2>4 DEF floor
    <3>2. n # 0
      BY <1>1, <1>4, <2>4
    <3> QED
      BY <1>1, <1>4, <2>1, <2>4, <3>1, <3>2
  <2> QED
    BY <1>1, <1>3, <1>4, <2>1, <2>2, <2>3, <2>4
<1>10. Back(S, end, n)
  <2>1. \A i \in 0 .. n - 1 : end - i \in S
    <3> TAKE i \in 0 .. n - 1
    <3>1. end - i \in F /\ end - i \in Int
      BY <1>1, <1>7 DEF Back
    <3>2. end - i \in days /\ floor <= end - i
      BY <1>5, <3>1
    <3>3. day - (end - i) < reach
      BY <1>1, <1>4, <3>1, <3>2
    <3> QED
      BY <3>2, <3>3
  <2> HIDE DEF S
  <2> QED
    BY <1>9, <2>1 DEF Back
<1>11. LiveRun(days, day, reach) = n
  <2> HIDE DEF reach
  <2> QED
    BY <1>1, <1>10, LiveRunIs
<1> QED
  BY <1>2, <1>8, <1>11

-----------------------------------------------------------------------------
(* PracticeStreaks: the scans over a list of days                           *)

\* The day before a day in the list, and the day before it in the calendar.
LEMMA Neighbours ==
    ASSUME NEW a \in Int, NEW b \in Int, NEW S \in SUBSET (a .. b), NEW i \in 1 .. Cardinality(S)
    PROVE  /\ Descending(S)[i] \in Int /\ Ascending(S)[i] \in Int
           /\ i = 1 => Descending(S)[i] + 1 \notin S /\ Ascending(S)[i] - 1 \notin S
           /\ i > 1 => /\ Descending(S)[i] + 1 \in S <=> Descending(S)[i] = Descending(S)[i - 1] - 1
                       /\ Ascending(S)[i] - 1 \in S <=> Ascending(S)[i] - Ascending(S)[i - 1] = 1
<1> DEFINE N == Cardinality(S)
           down == Descending(S)[i]
           up == Ascending(S)[i]
<1>1. /\ N \in Nat
      /\ \A d \in S : d \in Int /\ Down(S, d) \in 1 .. N /\ Up(S, d) \in 1 .. N
      /\ \A d, e \in S : d < e => Down(S, e) < Down(S, d) /\ Up(S, d) < Up(S, e)
  <2>1. \A d \in S : d \in Int
    OBVIOUS
  <2> QED
    BY <2>1, PlacesIn
<1>2. \A k \in 1 .. N :
        /\ Descending(S)[k] \in S /\ Down(S, Descending(S)[k]) = k
        /\ Ascending(S)[k] \in S /\ Up(S, Ascending(S)[k]) = k
  BY ListOfDays
<1>3. i \in Nat /\ i >= 1 /\ i \in 1 .. N /\ down \in S /\ Down(S, down) = i /\ up \in S /\ Up(S, up) = i
  BY <1>1, <1>2
<1> HIDE DEF down, up, N
<1>4. ASSUME down + 1 \in S PROVE Down(S, down + 1) < i /\ Down(S, down + 1) >= 1 /\ Down(S, down + 1) \in Int
  <2>1. down < down + 1 /\ Down(S, down + 1) \in 1 .. N
    BY <1>1, <1>3, <1>4
  <2> QED
    BY <1>1, <1>3, <1>4, <2>1
<1>5. ASSUME up - 1 \in S PROVE Up(S, up - 1) < i /\ Up(S, up - 1) >= 1 /\ Up(S, up - 1) \in Int
  <2>1. up - 1 < up /\ Up(S, up - 1) \in 1 .. N
    BY <1>1, <1>3, <1>5
  <2> QED
    BY <1>1, <1>3, <1>5, <2>1
<1>6. ASSUME i > 1
      PROVE  /\ down + 1 \in S <=> down = Descending(S)[i - 1] - 1
             /\ up - 1 \in S <=> up - Ascending(S)[i - 1] = 1
  <2> DEFINE p == Descending(S)[i - 1]
             q == Ascending(S)[i - 1]
  <2>1. /\ i - 1 \in 1 .. N /\ p \in S /\ Down(S, p) = i - 1 /\ q \in S /\ Up(S, q) = i - 1
        /\ p \in Int /\ q \in Int /\ down \in Int /\ up \in Int
    <3>1. i - 1 \in 1 .. N
      BY <1>1, <1>3, <1>6
    <3> QED
      BY <1>1, <1>2, <1>3, <3>1
  <2> HIDE DEF p, q, down, up, N
  <2>2. down < p /\ q < up
    <3>1. down # p /\ q # up
      BY <1>3, <2>1
    <3>2. ~ (p < down) /\ ~ (up < q)
      BY <1>1, <1>3, <2>1
    <3> QED
      BY <2>1, <3>1, <3>2
  <2>3. down + 1 \in S => p = down + 1
    <3>1. ASSUME down + 1 \in S PROVE ~ (down + 1 < p)
      BY <1>1, <1>4, <2>1, <3>1
    <3> QED
      BY <2>1, <2>2, <3>1
  <2>4. up - 1 \in S => q = up - 1
    <3>1. ASSUME up - 1 \in S PROVE ~ (q < up - 1)
      BY <1>1, <1>5, <2>1, <3>1
    <3> QED
      BY <2>1, <2>2, <3>1
  <2>5. /\ down + 1 \in S <=> down = p - 1
        /\ up - 1 \in S <=> up - q = 1
    <3>1. down = p - 1 => down + 1 = p
      BY <2>1
    <3>2. up - q = 1 => up - 1 = q
      BY <2>1
    <3>3. p = down + 1 => down = p - 1
      BY <2>1
    <3>4. q = up - 1 => up - q = 1
      BY <2>1
    <3> QED
      BY <2>1, <2>3, <2>4, <3>1, <3>2, <3>3, <3>4
  <2> QED
    BY <2>5 DEF p, q
<1>7. i = 1 => down + 1 \notin S /\ up - 1 \notin S
  BY <1>1, <1>4, <1>5
<1> QED
  BY <1>1, <1>3, <1>6, <1>7 DEF down, up

LEMMA BackFurther ==
    ASSUME NEW S, NEW end \in Int, end \in S, NEW n \in Nat, Back(S, end - 1, n)
    PROVE  Back(S, end, n + 1)
<1>1. \A i \in 0 .. n : end - i \in S
  <2> TAKE i \in 0 .. n
  <2>1. CASE i = 0
    BY <2>1
  <2>2. CASE i # 0
    <3>1. i - 1 \in 0 .. n - 1 /\ end - 1 - (i - 1) = end - i
      BY <2>2
    <3> QED
      BY <3>1 DEF Back
  <2> QED
    BY <2>1, <2>2
<1>2. end - (n + 1) = end - 1 - n /\ n + 1 - 1 = n
  OBVIOUS
<1> QED
  BY <1>1, <1>2 DEF Back

\* A scan of a list: a run goes on if the day before is the one before.
IsRuns(f, list, N) == f = [i \in 1 .. N |-> IF i > 1 /\ list[i] - 1 = list[i - 1] THEN f[i - 1] + 1 ELSE 1]

\* The list goes through the days of S upwards.
Upwards(list, N, S) ==
    /\ \A i \in 1 .. N : list[i] \in S
    /\ \A d \in S : \E i \in 1 .. N : list[i] = d
    /\ \A i \in 1 .. N : IF i > 1 THEN list[i] - 1 \in S <=> list[i] - 1 = list[i - 1] ELSE list[i] - 1 \notin S

\* The lengths of the runs that end on each day are such a scan, and the only one.
\* Each day of a list has the number of days in a row back from it.
CountsBack(f, list, N, S) == \A i \in 1 .. N : f[i] \in Nat /\ Back(S, list[i], f[i])

LEMMA RunsOfList ==
    ASSUME NEW a \in Int, NEW b \in Int, NEW S \in SUBSET (a .. b), NEW N \in Nat, NEW list,
           Upwards(list, N, S)
    PROVE  /\ \E f : IsRuns(f, list, N)
           /\ \A f : IsRuns(f, list, N) => CountsBack(f, list, N, S)
<1> DEFINE g == [i \in 1 .. N |-> CHOOSE n \in Nat : Back(S, list[i], n)]
<1>1. \A d \in S : d \in Int /\ a <= d
  OBVIOUS
<1>2. \A i \in 1 .. N : list[i] \in Int /\ list[i] \in S
  BY <1>1 DEF Upwards
<1>3. \A i \in 1 .. N : g[i] \in Nat /\ Back(S, list[i], g[i])
  <2> TAKE i \in 1 .. N
  <2>1. \E n \in Nat : Back(S, list[i], n)
    BY <1>1, <1>2, BackIs
  <2> QED
    BY <2>1, Zenon
<1> HIDE DEF g
<1>4. \A i \in 1 .. N : i > 1 /\ list[i] - 1 = list[i - 1] =>
        \A n \in Nat : Back(S, list[i - 1], n) => Back(S, list[i], n + 1)
  BY <1>2, BackFurther
<1>5. \A i \in 1 .. N : ~ (i > 1 /\ list[i] - 1 = list[i - 1]) => Back(S, list[i], 1)
  <2> SUFFICES ASSUME NEW i \in 1 .. N, ~ (i > 1 /\ list[i] - 1 = list[i - 1]) PROVE Back(S, list[i], 1)
    OBVIOUS
  <2>1. list[i] - 1 \notin S
    BY DEF Upwards
  <2>2. \A j \in 0 .. 0 : list[i] - j = list[i]
    BY <1>2
  <2> QED
    BY <1>2, <2>1, <2>2 DEF Back
<1>6. \A i \in 1 .. N : g[i] = IF i > 1 /\ list[i] - 1 = list[i - 1] THEN g[i - 1] + 1 ELSE 1
  <2> TAKE i \in 1 .. N
  <2>1. CASE i > 1 /\ list[i] - 1 = list[i - 1]
    <3>1. i - 1 \in 1 .. N
      BY <2>1
    <3>2. g[i - 1] \in Nat /\ Back(S, list[i], g[i - 1] + 1)
      BY <1>3, <1>4, <2>1, <3>1
    <3>3. g[i - 1] + 1 \in Nat /\ list[i] \in Int
      BY <1>2, <3>2
    <3>4. g[i] = g[i - 1] + 1
      BY <1>3, <3>2, <3>3, OneBack
    <3> QED
      BY <2>1, <3>4
  <2>2. CASE ~ (i > 1 /\ list[i] - 1 = list[i - 1])
    <3>1. Back(S, list[i], 1) /\ list[i] \in Int /\ 1 \in Nat
      BY <1>2, <1>5, <2>2
    <3>2. g[i] = 1
      BY <1>3, <3>1, OneBack
    <3> QED
      BY <2>2, <3>2
  <2> QED
    BY <2>1, <2>2
<1>7. IsRuns(g, list, N)
  <2>1. g = [i \in 1 .. N |-> g[i]]
    BY DEF g
  <2> QED
    BY <1>6, <2>1 DEF IsRuns
<1>8. ASSUME NEW f, IsRuns(f, list, N), NEW j \in 1 .. N, ~ (f[j] \in Nat /\ Back(S, list[j], f[j])) PROVE FALSE
  <2> DEFINE T == {i \in Nat : i \in 1 .. N /\ ~ (f[i] \in Nat /\ Back(S, list[i], f[i]))}
  <2>1. PICK i \in T : \A k \in T : i <= k
    <3>1. T \subseteq Nat
      OBVIOUS
    <3>2. j \in T
      BY <1>8
    <3> HIDE DEF T
    <3> QED
      BY <3>1, <3>2, LeastNat
  <2>2. i \in 1 .. N /\ ~ (f[i] \in Nat /\ Back(S, list[i], f[i]))
    BY <2>1
  <2>3. f[i] = IF i > 1 /\ list[i] - 1 = list[i - 1] THEN f[i - 1] + 1 ELSE 1
    BY <1>8, <2>2, Zenon DEF IsRuns
  <2>4. CASE i > 1 /\ list[i] - 1 = list[i - 1]
    <3>1. i - 1 \in 1 .. N /\ i - 1 \notin T
      BY <2>1, <2>2, <2>4
    <3>2. f[i - 1] \in Nat /\ Back(S, list[i - 1], f[i - 1])
      BY <3>1
    <3>3. Back(S, list[i], f[i - 1] + 1)
      BY <1>4, <2>2, <2>4, <3>2
    <3> QED
      BY <2>2, <2>3, <2>4, <3>2, <3>3
  <2>5. CASE ~ (i > 1 /\ list[i] - 1 = list[i - 1])
    BY <1>5, <2>2, <2>3, <2>5
  <2> QED
    BY <2>4, <2>5
<1>9. \A h : IsRuns(h, list, N) => CountsBack(h, list, N, S)
  BY <1>8, Zenon DEF CountsBack
<1> QED
  BY <1>7, <1>9, Zenon

\* The greatest of such lengths is that of the longest run.
GreatestOf(f, N) == Max({0} \union {f[i] : i \in 1 .. N})

LEMMA LongestIs ==
    ASSUME NEW a \in Int, NEW b \in Int, NEW S \in SUBSET (a .. b), NEW N \in Nat, NEW f,
           \A i \in 1 .. N : f[i] \in Nat /\ \E r \in RunsIn(S) : Length(r) = f[i],
           \A r \in RunsIn(S) : \E i \in 1 .. N : Length(r) <= f[i]
    PROVE  GreatestOf(f, N) = LongestRun(S)
<1> DEFINE found == {0} \union {f[i] : i \in 1 .. N}
           lengths == {0} \union {Length(r) : r \in RunsIn(S)}
           top == IF b >= a THEN b - a + 1 ELSE 0
<1>1. top \in Int /\ \A r \in RunsIn(S) : Length(r) \in Int /\ Length(r) <= top
  <2>1. \A d \in S : d \in Int /\ a <= d /\ d <= b
    OBVIOUS
  <2>2. \A r \in RunsIn(S) : r[1] \in S /\ r[2] \in S /\ r[1] <= r[2]
    BY DEF RunsIn
  <2>3. ASSUME NEW r \in RunsIn(S) PROVE Length(r) \in Int /\ Length(r) <= top
    <3>1. r[1] \in Int /\ a <= r[1] /\ r[2] \in Int /\ r[2] <= b /\ r[1] <= r[2]
      BY <2>1, <2>2
    <3>2. b >= a /\ top = b - a + 1
      BY <3>1
    <3> HIDE DEF top
    <3> QED
      BY <3>1, <3>2 DEF Length
  <2> QED
    BY <2>3
<1>2. found \in SUBSET (0 .. top)
  BY <1>1
<1>3. PICK m \in found : \A n \in found : n <= m
  <2>1. 0 \in found /\ 0 \in Int
    OBVIOUS
  <2> HIDE DEF found, top
  <2> QED
    BY <1>1, <1>2, <2>1, LatestDay
<1>4. m \in Int /\ found \in SUBSET Int /\ lengths \in SUBSET Int
  BY <1>1, <1>2
<1>5. m \in lengths
  BY <1>3
<1>6. \A n \in lengths : n <= m
  <2>1. 0 <= m
    BY <1>3
  <2>2. ASSUME NEW r \in RunsIn(S) PROVE Length(r) <= m
    <3>1. PICK i \in 1 .. N : Length(r) <= f[i]
      OBVIOUS
    <3>2. f[i] <= m /\ f[i] \in Int /\ Length(r) \in Int
      BY <1>1, <1>3
    <3> QED
      BY <1>4, <3>1, <3>2
  <2> QED
    BY <2>1, <2>2
<1>7. Max(found) = m /\ Max(lengths) = m
  <2> HIDE DEF found, lengths
  <2> QED
    BY <1>3, <1>4, <1>5, <1>6, MaxIs
<1> QED
  BY <1>7, Zenon DEF LongestRun, GreatestOf

\* So it is, if the lengths are those of the runs that end on the days.
LEMMA LongestBack ==
    ASSUME NEW a \in Int, NEW b \in Int, NEW S \in SUBSET (a .. b), NEW N \in Nat, NEW list, NEW f,
           Upwards(list, N, S), CountsBack(f, list, N, S)
    PROVE  /\ \A i \in 1 .. N : f[i] \in Nat /\ \E r \in RunsIn(S) : Length(r) = f[i]
           /\ \A r \in RunsIn(S) : \E i \in 1 .. N : Length(r) <= f[i]
<1> USE DEF CountsBack
<1>1. \A d \in S : d \in Int
  OBVIOUS
<1>2. \A i \in 1 .. N : list[i] \in Int /\ list[i] \in S /\ f[i] \in Nat
  BY <1>1 DEF Upwards
<1>3. ASSUME NEW i \in 1 .. N
      PROVE  /\ <<list[i] - f[i] + 1, list[i]>> \in RunsIn(S)
             /\ Length(<<list[i] - f[i] + 1, list[i]>>) = f[i]
  <2> DEFINE end == list[i]
             n == f[i]
  <2>0. end \in Int /\ end \in S /\ n \in Nat /\ Back(S, end, n)
    BY <1>2
  <2> HIDE DEF end, n
  <2>1. n # 0
    <3>1. end - 0 = end
      BY <2>0
    <3> QED
      BY <2>0, <3>1 DEF Back
  <2>2. \A d \in end - n + 1 .. end : d \in S
    <3> TAKE d \in end - n + 1 .. end
    <3>1. end - d \in 0 .. n - 1 /\ end - (end - d) = d
      BY <2>0
    <3> QED
      BY <2>0, <3>1 DEF Back
  <2>3. end - n + 1 \in end - n + 1 .. end /\ end - n + 1 <= end
    BY <2>0, <2>1
  <2>4. <<end - n + 1, end>> \in RunsIn(S) /\ Length(<<end - n + 1, end>>) = n
    BY <2>0, <2>2, <2>3 DEF RunsIn, Length
  <2> QED
    BY <2>4 DEF end, n
<1>4. ASSUME NEW r \in RunsIn(S) PROVE \E i \in 1 .. N : Length(r) <= f[i]
  <2>1. /\ r[1] \in S /\ r[2] \in S /\ r[1] \in Int /\ r[2] \in Int /\ r[1] <= r[2]
        /\ \A d \in r[1] .. r[2] : d \in S
    BY <1>1 DEF RunsIn
  <2>2. PICK i \in 1 .. N : list[i] = r[2]
    BY <2>1 DEF Upwards
  <2>3. f[i] \in Nat /\ r[2] - f[i] \notin S
    BY <2>2 DEF Back
  <2>4. ~ (r[1] <= r[2] - f[i])
    <3>1. r[1] <= r[2] - f[i] => r[2] - f[i] \in r[1] .. r[2]
      BY <2>1, <2>3
    <3> QED
      BY <2>1, <2>3, <3>1
  <2>5. r[2] - r[1] + 1 <= f[i]
    BY <2>1, <2>3, <2>4
  <2>6. Length(r) = r[2] - r[1] + 1
    BY DEF Length
  <2> QED
    BY <2>5, <2>6
<1> QED
  BY <1>3, <1>4

\* A scan of the days upwards finds the longest run.
LEMMA LongestOfList ==
    ASSUME NEW a \in Int, NEW b \in Int, NEW S \in SUBSET (a .. b), NEW N \in Nat, NEW list,
           Upwards(list, N, S)
    PROVE  /\ \E f : IsRuns(f, list, N)
           /\ \A f : IsRuns(f, list, N) => GreatestOf(f, N) = LongestRun(S)
<1>1. ASSUME NEW f, IsRuns(f, list, N) PROVE GreatestOf(f, N) = LongestRun(S)
  <2>1. CountsBack(f, list, N, S)
    BY <1>1, RunsOfList
  <2>2. /\ \A i \in 1 .. N : f[i] \in Nat /\ \E r \in RunsIn(S) : Length(r) = f[i]
        /\ \A r \in RunsIn(S) : \E i \in 1 .. N : Length(r) <= f[i]
    BY <2>1, LongestBack
  <2> QED
    BY <2>2, LongestIs
<1> QED
  BY <1>1, RunsOfList

LEMMA ScanIsLongest ==
    ASSUME NEW a \in Int, NEW b \in Int, NEW S \in SUBSET (a .. b)
    PROVE  ScanLongest(S) = LongestRun(S)
<1> DEFINE N == Cardinality(S)
           list == Ascending(S)
           f == CHOOSE f : IsRuns(f, list, N)
<1>1. /\ N \in Nat /\ Len(list) = N
      /\ \A k \in 1 .. N : list[k] \in S /\ list[k] \in Int
      /\ \A d \in S : Up(S, d) \in 1 .. N /\ list[Up(S, d)] = d
  <2>1. \A d \in S : d \in Int
    OBVIOUS
  <2> QED
    BY <2>1, ListOfDays
<1>2. \A i \in 1 .. N :
        /\ i = 1 => list[i] - 1 \notin S
        /\ i > 1 => (list[i] - 1 \in S <=> list[i] - list[i - 1] = 1)
  BY Neighbours
<1>3. \A i \in 1 .. N : i > 1 => list[i - 1] \in Int /\ (list[i] - list[i - 1] = 1 <=> list[i] - 1 = list[i - 1])
  <2> SUFFICES ASSUME NEW i \in 1 .. N, i > 1
               PROVE  list[i - 1] \in Int /\ (list[i] - list[i - 1] = 1 <=> list[i] - 1 = list[i - 1])
    OBVIOUS
  <2>1. i - 1 \in 1 .. N
    BY <1>1
  <2>2. list[i - 1] \in Int /\ list[i] \in Int
    BY <1>1, <2>1
  <2> QED
    BY <2>2
<1>4. Upwards(list, N, S)
  <2> HIDE DEF N, list
  <2> QED
    BY <1>1, <1>2, <1>3 DEF Upwards
<1>5. GreatestOf(f, N) = LongestRun(S)
  <2>1. /\ \E g : IsRuns(g, list, N)
        /\ \A g : IsRuns(g, list, N) => GreatestOf(g, N) = LongestRun(S)
    <3> HIDE DEF N, list
    <3> QED
      BY <1>1, <1>4, LongestOfList
  <2>2. IsRuns(f, list, N)
    BY <2>1, Zenon
  <2> QED
    BY <2>1, <2>2
<1>6. ScanLongest(S) = GreatestOf(f, N)
  <2> DEFINE h == CHOOSE h : h = [i \in 1 .. Len(list) |->
                        IF i > 1 /\ list[i] - list[i - 1] = 1 THEN h[i - 1] + 1 ELSE 1]
  <2>1. ScanLongest(S) = Max({0} \union {h[i] : i \in DOMAIN list})
    BY Zenon DEF ScanLongest
  <2>2. \A g : IsRuns(g, list, N) <=>
            g = [i \in 1 .. Len(list) |-> IF i > 1 /\ list[i] - list[i - 1] = 1 THEN g[i - 1] + 1 ELSE 1]
    <3> HIDE DEF N, list
    <3> QED
      BY <1>1, <1>3 DEF IsRuns
  <2>3. h = f
    <3> HIDE DEF N, list
    <3> QED
      BY <2>2
  <2>4. DOMAIN list = 1 .. N
    BY ListOfDays
  <2> HIDE DEF h, f, N, list
  <2> QED
    BY <2>1, <2>3, <2>4 DEF GreatestOf
<1> QED
  BY <1>5, <1>6

\* The days in reverse.
Mirror(S) == {-d : d \in S}

LEMMA MirrorRuns ==
    ASSUME NEW S \in SUBSET Int
    PROVE  \A r \in RunsIn(S) : \E q \in RunsIn(Mirror(S)) : Length(q) = Length(r)
<1> SUFFICES ASSUME NEW r \in RunsIn(S) PROVE \E q \in RunsIn(Mirror(S)) : Length(q) = Length(r)
  OBVIOUS
<1>1. /\ r[1] \in S /\ r[2] \in S /\ r[1] \in Int /\ r[2] \in Int /\ r[1] <= r[2]
      /\ \A d \in r[1] .. r[2] : d \in S
  BY DEF RunsIn
<1> DEFINE q == <<-r[2], -r[1]>>
<1>2. q \in Mirror(S) \X Mirror(S) /\ q[1] = -r[2] /\ q[2] = -r[1] /\ q[1] <= q[2]
  BY <1>1 DEF Mirror
<1>3. \A d \in -r[2] .. -r[1] : d \in Mirror(S)
  <2> TAKE d \in -r[2] .. -r[1]
  <2>1. -d \in r[1] .. r[2] /\ -(-d) = d
    BY <1>1
  <2> QED
    BY <1>1, <2>1 DEF Mirror
<1>4. q \in RunsIn(Mirror(S))
  BY <1>2, <1>3 DEF RunsIn
<1>5. Length(q) = Length(r)
  BY <1>1, <1>2 DEF Length
<1> HIDE DEF q
<1> QED
  BY <1>4, <1>5

LEMMA MirrorLongest ==
    ASSUME NEW S \in SUBSET Int
    PROVE  LongestRun(Mirror(S)) = LongestRun(S)
<1>1. Mirror(S) \in SUBSET Int /\ Mirror(Mirror(S)) = S
  <2>1. \A d \in S : -d \in Int /\ -(-d) = d
    OBVIOUS
  <2> QED
    BY <2>1 DEF Mirror
<1>2. \A r \in RunsIn(S) : \E q \in RunsIn(Mirror(S)) : Length(q) = Length(r)
  BY MirrorRuns
<1>3. \A q \in RunsIn(Mirror(S)) : \E r \in RunsIn(S) : Length(r) = Length(q)
  BY <1>1, MirrorRuns
<1>4. {Length(q) : q \in RunsIn(Mirror(S))} = {Length(r) : r \in RunsIn(S)}
  <2>1. \A n : n \in {Length(q) : q \in RunsIn(Mirror(S))} <=> \E q \in RunsIn(Mirror(S)) : n = Length(q)
    OBVIOUS
  <2>2. \A n : n \in {Length(r) : r \in RunsIn(S)} <=> \E r \in RunsIn(S) : n = Length(r)
    OBVIOUS
  <2>3. \A n : (\E q \in RunsIn(Mirror(S)) : n = Length(q)) <=> \E r \in RunsIn(S) : n = Length(r)
    BY <1>2, <1>3
  <2> QED
    BY <2>1, <2>2, <2>3
<1> QED
  BY <1>4, Zenon DEF LongestRun

LEMMA DhikrIsLongest ==
    ASSUME NEW a \in Int, NEW b \in Int, NEW S \in SUBSET (a .. b)
    PROVE  DhikrLongest(S) = LongestRun(S)
<1> DEFINE N == Cardinality(S)
           desc == Descending(S)
           list == [i \in 1 .. N |-> -desc[i]]
           f == CHOOSE f : IsRuns(f, list, N)
<1>1. /\ N \in Nat /\ Len(desc) = N
      /\ \A k \in 1 .. N : desc[k] \in S /\ desc[k] \in Int
      /\ \A d \in S : Down(S, d) \in 1 .. N /\ desc[Down(S, d)] = d
  <2>1. \A d \in S : d \in Int
    OBVIOUS
  <2> QED
    BY <2>1, ListOfDays
<1>2. \A i \in 1 .. N :
        /\ i = 1 => desc[i] + 1 \notin S
        /\ i > 1 => (desc[i] + 1 \in S <=> desc[i] = desc[i - 1] - 1)
  BY Neighbours
<1>3. \A i \in 1 .. N : i > 1 =>
        /\ i - 1 \in 1 .. N /\ desc[i - 1] \in Int
        /\ desc[i] = desc[i - 1] - 1 <=> list[i] - 1 = list[i - 1]
  <2> SUFFICES ASSUME NEW i \in 1 .. N, i > 1
               PROVE  /\ i - 1 \in 1 .. N /\ desc[i - 1] \in Int
                      /\ desc[i] = desc[i - 1] - 1 <=> list[i] - 1 = list[i - 1]
    OBVIOUS
  <2>1. i - 1 \in 1 .. N
    BY <1>1
  <2>2. desc[i - 1] \in Int /\ desc[i] \in Int /\ list[i - 1] = -desc[i - 1] /\ list[i] = -desc[i]
    BY <1>1, <2>1
  <2> HIDE DEF desc, list, N
  <2> QED
    BY <2>1, <2>2
<1>4. \A d \in Int : d \in Mirror(S) <=> -d \in S
  <2>1. \A d \in S : d \in Int
    OBVIOUS
  <2>2. \A d \in Int : -(-d) = d
    OBVIOUS
  <2> QED
    BY <2>1, <2>2 DEF Mirror
<1>5. Mirror(S) \in SUBSET (-b .. -a) /\ -a \in Int /\ -b \in Int
  BY DEF Mirror
<1>6. Upwards(list, N, Mirror(S))
  <2>1. \A i \in 1 .. N : list[i] = -desc[i] /\ desc[i] \in Int /\ desc[i] \in S
    BY <1>1
  <2> HIDE DEF desc, list, N
  <2>2. \A i \in 1 .. N : list[i] \in Mirror(S)
    BY <2>1 DEF Mirror
  <2>3. \A d \in Mirror(S) : \E i \in 1 .. N : list[i] = d
    BY <1>1, <2>1 DEF Mirror
  <2>4. \A i \in 1 .. N : list[i] - 1 \in Mirror(S) <=> desc[i] + 1 \in S
    <3> TAKE i \in 1 .. N
    <3>1. list[i] - 1 \in Int /\ -(list[i] - 1) = desc[i] + 1
      BY <2>1
    <3> QED
      BY <1>4, <3>1
  <2>5. \A i \in 1 .. N : ~ (i > 1) => i = 1
    BY <1>1
  <2> QED
    BY <1>2, <1>3, <2>2, <2>3, <2>4, <2>5 DEF Upwards
<1>7. GreatestOf(f, N) = LongestRun(Mirror(S))
  <2>1. /\ \E g : IsRuns(g, list, N)
        /\ \A g : IsRuns(g, list, N) => GreatestOf(g, N) = LongestRun(Mirror(S))
    <3> HIDE DEF N, list
    <3> QED
      BY <1>1, <1>5, <1>6, LongestOfList
  <2>2. IsRuns(f, list, N)
    BY <2>1, Zenon
  <2> QED
    BY <2>1, <2>2
<1>8. DhikrLongest(S) = GreatestOf(f, N)
  <2> DEFINE h == CHOOSE h : h = [i \in 1 .. Len(desc) |->
                        IF i > 1 /\ desc[i] = desc[i - 1] - 1 THEN h[i - 1] + 1 ELSE 1]
  <2>1. DhikrLongest(S) = Max({0} \union {h[i] : i \in DOMAIN desc})
    BY Zenon DEF DhikrLongest
  <2>2. \A g : IsRuns(g, list, N) <=>
            g = [i \in 1 .. Len(desc) |-> IF i > 1 /\ desc[i] = desc[i - 1] - 1 THEN g[i - 1] + 1 ELSE 1]
    <3> HIDE DEF N, list, desc
    <3> QED
      BY <1>1, <1>3 DEF IsRuns
  <2>3. h = f
    <3> HIDE DEF N, list, desc
    <3> QED
      BY <2>2
  <2>4. DOMAIN desc = 1 .. N
    BY ListOfDays
  <2> HIDE DEF h, f, N, list, desc
  <2> QED
    BY <2>1, <2>3, <2>4 DEF GreatestOf
<1>9. LongestRun(Mirror(S)) = LongestRun(S)
  <2>1. S \in SUBSET Int
    OBVIOUS
  <2> QED
    BY <2>1, MirrorLongest
<1> QED
  BY <1>7, <1>8, <1>9

-----------------------------------------------------------------------------
(* PracticeStreaks: the current streaks                                     *)

LEMMA DhikrIsLive ==
    ASSUME NEW day \in Nat, NEW S \in SUBSET (0 .. day)
    PROVE  DhikrCurrent(S, day) = LiveRun(S, day, day + 1)
<1> DEFINE end == LiveEnd(S, day)
<1>1. /\ UpTo(S, day) = S /\ {d \in S : day - d < day + 1} = S
      /\ \A d \in S : d \in Int /\ 0 <= d
  <2>1. \A d \in S : d \in Int /\ 0 <= d /\ d <= day /\ day - d < day + 1
    OBVIOUS
  <2> QED
    BY <2>1 DEF UpTo
<1>2. PICK n \in Nat : Back(S, end, n)
  <2>1. end \in Int /\ 0 \in Int
    BY LiveEndIs
  <2> HIDE DEF end
  <2> QED
    BY <1>1, <2>1, BackIs
<1>3. CountStreak(S, day) = n
  <2>1. 0 \in Int /\ day \in Int /\ Back(UpTo(S, day), LiveEnd(S, day), n)
    BY <1>1, <1>2
  <2> QED
    BY <2>1, CountStreakIs
<1>4. LiveRun(S, day, day + 1) = n
  <2>1. S \in SUBSET Int /\ day \in Int /\ day + 1 \in Int
        /\ Back({d \in S : day - d < day + 1}, LiveEnd(S, day), n)
    BY <1>1, <1>2
  <2> QED
    BY <2>1, LiveRunIs
<1>5. DhikrCurrent(S, day) = CountStreak(S, day)
  <2> DEFINE desc == Descending(S)
  <2>0. 0 \in Int /\ day \in Int /\ S \in SUBSET (0 .. day)
    OBVIOUS
  <2>1. desc # <<>> => desc[1] \in Int
    <3>1. desc # <<>> => S # {} /\ 1 \in 1 .. Cardinality(S)
      <4>1. Cardinality(S) \in Nat /\ (desc = <<>> <=> S = {})
            /\ \A d \in S : Down(S, d) \in 1 .. Cardinality(S)
        BY <2>0, ListOfDays
      <4> QED
        BY <4>1
    <3>2. \A k \in 1 .. Cardinality(S) : desc[k] \in S
      BY <2>0, ListOfDays
    <3> QED
      BY <1>1, <3>1, <3>2
  <2>2. desc # <<>> => (desc[1] >= day - 1 <=> ~ (day - desc[1] > 1))
    <3> HIDE DEF desc
    <3> QED
      BY <2>1
  <2> QED
    BY <1>1, <2>2 DEF DhikrCurrent, CountStreak
<1> QED
  BY <1>3, <1>4, <1>5

LEMMA JapaIsLive ==
    ASSUME NEW S \in SUBSET Int, NEW day \in Int
    PROVE  JapaCurrent(S, day) = LiveRun(S, day, YearDays)
<1> DEFINE stops == {i \in 1 .. YearDays - 1 : day - i \notin S}
           end == IF stops = {} THEN YearDays ELSE First(stops)
           near == {d \in S : day - d < YearDays}
           counted == {i \in 0 .. end - 1 : day - i \in S}
<1>1. YearDays \in Nat /\ YearDays >= 1 /\ stops \in SUBSET Nat
  BY PracticeAssumption DEF PracticeAssumption
<1>2. /\ end \in 1 .. YearDays /\ \A i \in 1 .. end - 1 : day - i \in S
      /\ end = YearDays \/ day - end \notin S
  <2>1. CASE stops = {}
    <3>1. \A i \in 1 .. YearDays - 1 : day - i \in S
      BY <2>1
    <3> QED
      BY <1>1, <2>1, <3>1
  <2>2. CASE stops # {}
    <3> DEFINE first == First(stops)
    <3>1. first \in stops /\ \A j \in stops : first <= j
      <4> HIDE DEF stops
      <4> QED
        BY <1>1, <2>2, FirstIs
    <3> HIDE DEF first
    <3>2. first \in 1 .. YearDays - 1 /\ day - first \notin S
      BY <3>1
    <3>3. \A i \in 1 .. first - 1 : day - i \in S
      <4> TAKE i \in 1 .. first - 1
      <4>1. i \in 1 .. YearDays - 1 /\ ~ (first <= i)
        BY <1>1, <3>2
      <4> QED
        BY <3>1, <4>1
    <3>4. end = first
      BY <2>2 DEF first
    <3> HIDE DEF end
    <3> QED
      BY <1>1, <3>2, <3>3, <3>4
  <2> QED
    BY <2>1, <2>2
<1> HIDE DEF end
<1>3. JapaCurrent(S, day) = Cardinality(counted)
  BY Zenon DEF JapaCurrent, end
<1>4. day - end \notin near /\ \A i \in 0 .. end - 1 : day - i \in near <=> day - i \in S
  <2>1. day - (day - end) = end /\ end \in Int
    BY <1>1, <1>2
  <2>2. \A i \in 0 .. end - 1 : day - (day - i) < YearDays
    BY <1>1, <1>2
  <2> QED
    BY <1>1, <1>2, <2>1, <2>2
<1>5. CASE day \in S
  <2>1. counted = 0 .. end - 1
    <3>1. \A i \in 0 .. end - 1 : day - i \in S
      <4> TAKE i \in 0 .. end - 1
      <4>1. i = 0 \/ i \in 1 .. end - 1
        BY <1>2
      <4> QED
        BY <1>2, <1>5, <4>1
    <3> QED
      BY <3>1
  <2>2. Cardinality(0 .. end - 1) = end
    BY <1>1, <1>2, FS_Interval
  <2>3. Back(near, day, end) /\ LiveEnd(S, day) = day
    <3>1. \A i \in 0 .. end - 1 : day - i \in near
      BY <1>4, <2>1
    <3> HIDE DEF near
    <3> QED
      BY <1>4, <1>5, <3>1 DEF Back, LiveEnd
  <2>4. LiveRun(S, day, YearDays) = end
    <3>1. end \in Nat /\ YearDays \in Int
      BY <1>1, <1>2
    <3> QED
      BY <2>3, <3>1, LiveRunIs
  <2> QED
    BY <1>3, <2>1, <2>2, <2>4
<1>6. CASE day \notin S
  <2>1. counted = 1 .. end - 1
    <3>1. \A i \in 1 .. end - 1 : i \in 0 .. end - 1 /\ day - i \in S
      BY <1>2
    <3>2. \A i \in counted : i # 0
      BY <1>6
    <3>3. \A i \in counted : i \in 1 .. end - 1
      BY <1>2, <3>2
    <3> HIDE DEF counted
    <3>4. \A i \in 1 .. end - 1 : i \in counted
      BY <3>1 DEF counted
    <3> QED
      BY <3>3, <3>4
  <2>2. Cardinality(1 .. end - 1) = end - 1
    BY <1>1, <1>2, FS_Interval
  <2>3. Back(near, day - 1, end - 1) /\ LiveEnd(S, day) = day - 1
    <3>1. \A i \in 0 .. end - 1 - 1 : day - 1 - i \in near
      <4> TAKE i \in 0 .. end - 1 - 1
      <4>1. i + 1 \in 1 .. end - 1 /\ i + 1 \in 0 .. end - 1 /\ day - 1 - i = day - (i + 1)
        BY <1>2
      <4> HIDE DEF near
      <4> QED
        BY <1>2, <1>4, <4>1
    <3>2. day - 1 - (end - 1) = day - end
      BY <1>2
    <3> HIDE DEF near
    <3> QED
      BY <1>4, <1>6, <3>1, <3>2 DEF Back, LiveEnd
  <2>4. LiveRun(S, day, YearDays) = end - 1
    <3>1. end - 1 \in Nat /\ YearDays \in Int
      BY <1>1, <1>2
    <3> QED
      BY <2>3, <3>1, LiveRunIs
  <2> QED
    BY <1>3, <2>1, <2>2, <2>4
<1> QED
  BY <1>5, <1>6

\* The loop of puja, which counts on from the days it has counted.
IsPuja(f, S, day) ==
    f = [i \in 0 .. YearDays - 1 |->
            IF day - i \in S /\ (i = 0 \/ (IF i = 0 THEN 0 ELSE f[i - 1]) = i) THEN i + 1
            ELSE IF i = 0 THEN 0 ELSE f[i - 1]]

LEMMA PujaCounts ==
    ASSUME NEW S, NEW day \in Int, NEW n \in Nat, Back(S, day, n)
    PROVE  /\ \E f : IsPuja(f, S, day)
           /\ \A f : IsPuja(f, S, day) => \A i \in 0 .. YearDays - 1 : f[i] = IF i < n THEN i + 1 ELSE n
<1> DEFINE g == [i \in 0 .. YearDays - 1 |-> IF i < n THEN i + 1 ELSE n]
           Step(i, so) == IF day - i \in S /\ (i = 0 \/ so = i) THEN i + 1 ELSE so
           Counted(i) == IF i < n THEN i + 1 ELSE n
<1>1. YearDays \in Nat
  BY PracticeAssumption DEF PracticeAssumption
<1>2. \A i \in Nat : i < n => day - i \in S
  BY DEF Back
<1>3. day - n \notin S
  BY DEF Back
<1>4. \A i \in Nat \ {0} : Step(i, Counted(i - 1)) = Counted(i)
  <2> SUFFICES ASSUME NEW i \in Nat \ {0} PROVE Step(i, Counted(i - 1)) = Counted(i)
    OBVIOUS
  <2>1. CASE i < n
    BY <1>2, <2>1
  <2>2. CASE i = n
    BY <1>3, <2>2
  <2>3. CASE i > n
    BY <2>3
  <2> QED
    BY <2>1, <2>2, <2>3
<1>5. Step(0, 0) = Counted(0)
  <2>1. CASE n = 0
    BY <1>3, <2>1
  <2>2. CASE n > 0
    BY <1>2, <2>2
  <2> QED
    BY <2>1, <2>2
<1>6. \A f : IsPuja(f, S, day) <=> f = [i \in 0 .. YearDays - 1 |-> Step(i, IF i = 0 THEN 0 ELSE f[i - 1])]
  BY DEF IsPuja
<1>7. \A i \in 0 .. YearDays - 1 : Counted(i) = Step(i, IF i = 0 THEN 0 ELSE g[i - 1])
  <2> TAKE i \in 0 .. YearDays - 1
  <2>1. CASE i = 0
    <3> HIDE DEF Step, Counted
    <3> QED
      BY <1>5, <2>1
  <2>2. CASE i # 0
    <3>1. i \in Nat \ {0} /\ g[i - 1] = Counted(i - 1)
      BY <1>1, <2>2
    <3> HIDE DEF Step, Counted, g
    <3> QED
      BY <1>4, <2>2, <3>1
  <2> QED
    BY <2>1, <2>2
<1>8. g = [i \in 0 .. YearDays - 1 |-> Counted(i)]
  OBVIOUS
<1>9. g = [i \in 0 .. YearDays - 1 |-> Step(i, IF i = 0 THEN 0 ELSE g[i - 1])]
  <2> HIDE DEF g, Step, Counted
  <2> QED
    BY <1>7, <1>8
<1>10. ASSUME NEW f, IsPuja(f, S, day), NEW j \in 0 .. YearDays - 1, f[j] # Counted(j) PROVE FALSE
  <2> DEFINE T == {i \in Nat : i \in 0 .. YearDays - 1 /\ f[i] # Counted(i)}
  <2> HIDE DEF Step, Counted
  <2>1. PICK i \in T : \A k \in T : i <= k
    <3>1. T \subseteq Nat
      OBVIOUS
    <3>2. j \in T
      BY <1>10
    <3> HIDE DEF T
    <3> QED
      BY <3>1, <3>2, LeastNat
  <2>2. i \in 0 .. YearDays - 1 /\ f[i] # Counted(i) /\ i \in Nat
    BY <2>1
  <2>3. f[i] = Step(i, IF i = 0 THEN 0 ELSE f[i - 1])
    <3>1. f = [k \in 0 .. YearDays - 1 |-> Step(k, IF k = 0 THEN 0 ELSE f[k - 1])]
      BY <1>6, <1>10, Zenon
    <3> QED
      BY <2>2, <3>1, Zenon
  <2>4. CASE i = 0
    BY <1>5, <2>2, <2>3, <2>4
  <2>5. CASE i # 0
    <3>1. i - 1 \in 0 .. YearDays - 1 /\ i - 1 \notin T
      BY <1>1, <2>1, <2>2, <2>5
    <3>2. f[i - 1] = Counted(i - 1) /\ i \in Nat \ {0}
      BY <2>2, <2>5, <3>1
    <3> QED
      BY <1>4, <2>2, <2>3, <2>5, <3>2
  <2> QED
    BY <2>4, <2>5
<1>11. \E f : IsPuja(f, S, day)
  <2> HIDE DEF g, Step
  <2> QED
    BY <1>6, <1>9
<1> QED
  BY <1>10, <1>11

\* Without a log today the loop never starts; with one it finds the live run.
LEMMA PujaIsLive ==
    ASSUME NEW S \in SUBSET Nat, NEW day \in Int
    PROVE  PujaCurrent(S, day) = IF day \in S THEN LiveRun(S, day, YearDays) ELSE 0
<1> DEFINE f == CHOOSE f : IsPuja(f, S, day)
           near == {d \in S : day - d < YearDays}
<1>1. YearDays \in Nat /\ YearDays >= 1
  BY PracticeAssumption DEF PracticeAssumption
<1>2. PICK n \in Nat : Back(S, day, n)
  <2>1. 0 \in Int /\ \A d \in S : 0 <= d
    OBVIOUS
  <2> QED
    BY <2>1, BackIs
<1>3. PujaCurrent(S, day) = IF YearDays - 1 < n THEN YearDays ELSE n
  <2>1. IsPuja(f, S, day)
    <3>1. \E g : IsPuja(g, S, day)
      BY <1>2, PujaCounts
    <3> QED
      BY <3>1, Zenon
  <2>2. f[YearDays - 1] = IF YearDays - 1 < n THEN YearDays - 1 + 1 ELSE n
    <3> HIDE DEF f
    <3>1. YearDays - 1 \in 0 .. YearDays - 1
      BY <1>1
    <3> QED
      BY <1>2, <2>1, <3>1, PujaCounts
  <2>3. PujaCurrent(S, day) = f[YearDays - 1]
    BY Zenon DEF PujaCurrent, IsPuja
  <2> HIDE DEF f
  <2> QED
    BY <1>1, <2>2, <2>3
<1>4. CASE day \notin S
  <2>1. n = 0
    <3>1. n > 0 => 0 \in 0 .. n - 1 /\ day - 0 = day
      OBVIOUS
    <3> QED
      BY <1>2, <1>4, <3>1 DEF Back
  <2> QED
    BY <1>1, <1>3, <1>4, <2>1
<1>5. CASE day \in S
  <2> DEFINE m == IF YearDays - 1 < n THEN YearDays ELSE n
  <2>1. m \in Nat /\ m <= n /\ m <= YearDays /\ (m = n \/ m = YearDays)
    BY <1>1
  <2> HIDE DEF m
  <2>2. \A i \in 0 .. m - 1 : day - i \in near
    <3> TAKE i \in 0 .. m - 1
    <3>1. i \in 0 .. n - 1 /\ day - (day - i) = i /\ i < YearDays
      BY <1>1, <2>1
    <3>2. day - i \in S
      BY <1>2, <3>1 DEF Back
    <3> QED
      BY <3>1, <3>2
  <2>3. day - m \notin near
    <3>1. day - (day - m) = m
      BY <2>1
    <3>2. CASE m = n
      <4>1. day - m \notin S
        BY <1>2, <3>2 DEF Back
      <4> QED
        BY <4>1
    <3>3. CASE m = YearDays
      BY <1>1, <3>1, <3>3
    <3> QED
      BY <2>1, <3>2, <3>3
  <2>4. Back(near, LiveEnd(S, day), m)
    <3> HIDE DEF near
    <3> QED
      BY <1>5, <2>2, <2>3 DEF Back, LiveEnd
  <2>5. LiveRun(S, day, YearDays) = m
    <3>1. S \in SUBSET Int /\ YearDays \in Int
      BY <1>1
    <3> QED
      BY <2>1, <2>4, <3>1, LiveRunIs
  <2> QED
    BY <1>3, <1>5, <2>5 DEF m
<1> QED
  BY <1>4, <1>5
=============================================================================
