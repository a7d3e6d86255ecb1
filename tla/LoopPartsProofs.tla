-------------------------- MODULE LoopPartsProofs --------------------------
(***************************************************************************)
(* Proofs about what an event loop needs besides its functions, its timers *)
(* and its thread:                                                         *)
(*   - TimingWheel, for any timers and delays, any lengths of the minute,  *)
(*     the hour and the day that divide each other, and any number of      *)
(*     days: a timer fires at the tick worked out when it was last         *)
(*     inserted, none is passed over, and that tick is near the delay that *)
(*     was asked;                                                          *)
(*   - EventLoopThread, for any number of threads that call Run(): loop_   *)
(*     is there when Run() has returned, and only as long as the local     *)
(*     variable it points to.                                              *)
(***************************************************************************)
EXTENDS TimingWheel, EventLoopThread, TLAPS

-----------------------------------------------------------------------------
(* Quotients and remainders.                                               *)

LEMMA Division ==
  ASSUME NEW a \in Nat, NEW b \in Nat \ {0}
  PROVE  /\ a \div b \in Nat /\ a % b \in 0 .. b - 1
         /\ a = (a \div b) * b + (a % b)
  OBVIOUS

LEMMA Multiples ==
  ASSUME NEW p \in Nat, NEW q \in Nat, NEW u \in Nat, p < q
  PROVE  p * u + u <= q * u
  OBVIOUS

\* The quotient is the only number of whole units before x.
LEMMA QuotientIs ==
  ASSUME NEW x \in Nat, NEW q \in Nat, NEW u \in Nat \ {0},
         q * u <= x, x < q * u + u
  PROVE  x \div u = q
  BY Division, Multiples

LEMMA QuotientMonotone ==
  ASSUME NEW a \in Nat, NEW b \in Nat, NEW u \in Nat \ {0}, a <= b
  PROVE  a \div u <= b \div u
  BY Division, Multiples

\* A new unit begins at the multiples of the unit only.
LEMMA QuotientSteps ==
  ASSUME NEW x \in Nat \ {0}, NEW u \in Nat \ {0}
  PROVE  /\ x % u # 0 => x \div u = (x - 1) \div u
         /\ x % u = 0 => /\ x \div u = ((x - 1) \div u) + 1
                         /\ (((x - 1) \div u) + 1) * u = x
<1> DEFINE q == x \div u
<1>1. q \in Nat /\ x % u \in 0 .. u - 1 /\ x = q * u + (x % u)
  BY Division
<1>2. CASE x % u # 0
  <2>1. q * u <= x - 1 /\ x - 1 < q * u + u
    BY <1>1, <1>2
  <2> QED
    BY <1>1, <1>2, <2>1, QuotientIs, x - 1 \in Nat
<1>3. CASE x % u = 0
  <2>1. q # 0
    BY <1>1, <1>3
  <2>2. (q - 1) * u = x - u
    BY <1>1, <1>3
  <2>3. q - 1 \in Nat /\ x - 1 \in Nat /\ (q - 1) * u <= x - 1 /\ x - 1 < (q - 1) * u + u
    BY <1>1, <2>1, <2>2
  <2>4. (x - 1) \div u = q - 1
    BY <2>3, QuotientIs
  <2> QED
    BY <1>1, <1>3, <2>2, <2>3, <2>4
<1> QED
  BY <1>2, <1>3

\* A multiple of a multiple.
LEMMA MultipleOfMultiple ==
  ASSUME NEW n \in Nat, NEW u \in Nat \ {0}, NEW v \in Nat \ {0}, v % u = 0
  PROVE  ((n * v) \div u) * u = n * v
<1> DEFINE m == v \div u
<1>1. m \in Nat /\ v = m * u
  BY Division
<1>2. n * m \in Nat /\ (n * m) * u = n * v
  BY <1>1
<1> QED
  BY <1>2, QuotientIs, n * v \in Nat
-----------------------------------------------------------------------------
(* The lengths of the wheels.                                              *)

LEMMA LengthsAre ==
  /\ kTimingMinute \in Nat \ {0} /\ kTimingHour \in Nat \ {0} /\ kTimingDay \in Nat \ {0}
  /\ 1 < kTimingMinute /\ kTimingMinute < kTimingHour /\ kTimingHour < kTimingDay
  BY ConstantAssumption

LEMMA UnitIs ==
  /\ Unit(0) = 1 /\ Unit(1) = kTimingMinute /\ Unit(2) = kTimingHour /\ Unit(3) = kTimingDay
  /\ \A k \in Wheels : Unit(k) \in Nat \ {0}
  BY ConstantAssumption DEF Unit, Wheels, kTmingTypeSecond, kTmingTypeMinute, kTmingTypeHour,
     kTmingTypeDay

LEMMA SlotsIs ==
  /\ Slots(0) = kTimingMinute /\ Slots(1) = kTimingHour \div kTimingMinute
  /\ Slots(2) = kTimingDay \div kTimingHour /\ Slots(3) = kDays
  /\ \A k \in Wheels : Slots(k) \in Nat \ {0}
<1>1. ASSUME NEW u \in Nat \ {0}, NEW v \in Nat, u < v PROVE v \div u \in Nat \ {0}
  <2>1. v \div u \in Nat /\ v % u \in 0 .. u - 1 /\ v = (v \div u) * u + (v % u)
    BY Division
  <2> QED
    BY <1>1, <2>1
<1>2. kTimingHour \div kTimingMinute \in Nat \ {0} /\ kTimingDay \div kTimingHour \in Nat \ {0}
  BY <1>1, ConstantAssumption
<1> QED
  BY <1>2, ConstantAssumption DEF Slots, Wheels, kTmingTypeSecond, kTmingTypeMinute,
     kTmingTypeHour, kTmingTypeDay

LEMMA AtLeastOneIs ==
  ASSUME NEW n \in Nat
  PROVE  AtLeastOne(n) \in Nat \ {0} /\ n <= AtLeastOne(n) /\ AtLeastOne(n) <= n + 1
  BY DEF AtLeastOne
\* What is left of a delay d for the faster wheel, and the slot it goes to.
LEMMA PartsAre ==
  ASSUME NEW d \in Nat, NEW u \in Nat \ {0}
  PROVE  AtLeastOne(d \div u) \in Nat \ {0} /\ AtLeastOne(d % u) \in Nat \ {0}
<1>1. d \div u \in Nat /\ d % u \in Nat
  BY Division
<1> QED
  BY <1>1, AtLeastOneIs
-----------------------------------------------------------------------------
(* The ticks of PopUps.                                                    *)

LEMMA NthPopUpIs ==
  ASSUME NEW k \in Wheels, NEW b \in Nat, NEW n \in Nat \ {0}
  PROVE  /\ NthPopUp(k, b, n) \in Nat
         /\ b < NthPopUp(k, b, n)
         /\ \A c \in Nat : b <= c => NthPopUp(k, b, n) <= NthPopUp(k, c, n)
<1> DEFINE u == Unit(k)
<1>1. u \in Nat \ {0}
  BY UnitIs
<1>2. b \div u \in Nat /\ b < (b \div u) * u + u
  <2>1. b \div u \in Nat /\ b % u \in 0 .. u - 1 /\ b = (b \div u) * u + (b % u)
    BY <1>1, Division
  <2> QED
    BY <1>1, <2>1
<1>3. (b \div u) * u + u <= ((b \div u) + n) * u
  BY <1>1, <1>2
<1>4. ASSUME NEW c \in Nat, b <= c
      PROVE  ((b \div u) + n) * u <= ((c \div u) + n) * u
  <2>1. c \div u \in Nat /\ b \div u <= c \div u
    BY <1>1, <1>4, Division, QuotientMonotone
  <2> DEFINE p == (b \div u) + n
             q == (c \div u) + n
  <2>2. p \in Nat /\ q \in Nat /\ p <= q
    BY <1>2, <2>1
  <2>3. p * u <= q * u
    BY <1>1, <2>2, Multiples
  <2> QED
    BY <2>3
<1>5. ((b \div u) + n) * u \in Nat
  BY <1>1, <1>2
<1>6. NthPopUp(k, b, n) \in Nat /\ b < NthPopUp(k, b, n)
  BY <1>1, <1>2, <1>3, <1>5 DEF NthPopUp
<1>7. ASSUME NEW c \in Nat, b <= c PROVE NthPopUp(k, b, n) <= NthPopUp(k, c, n)
  BY <1>4, <1>7 DEF NthPopUp
<1> QED
  BY <1>6, <1>7

LEMMA MinuteDueIs ==
  ASSUME NEW b \in Nat, NEW d \in Nat
  PROVE  /\ MinuteDue(b, d) \in Nat /\ b < MinuteDue(b, d)
         /\ \A c \in Nat : b <= c => MinuteDue(b, d) <= MinuteDue(c, d)
<1> DEFINE n == AtLeastOne(d \div kTimingMinute)
           r == AtLeastOne(d % kTimingMinute)
           p(c) == NthPopUp(kTmingTypeMinute, c, n)
<1>1. n \in Nat \ {0} /\ r \in Nat \ {0}
  BY LengthsAre, PartsAre
<1>2. kTmingTypeMinute \in Wheels
  BY DEF kTmingTypeMinute, Wheels
<1> HIDE DEF n, r
<1>3. p(b) \in Nat /\ b < p(b)
  BY <1>1, <1>2, NthPopUpIs
<1>4. ASSUME NEW c \in Nat, b <= c PROVE p(c) \in Nat /\ p(b) <= p(c)
  BY <1>1, <1>2, <1>4, NthPopUpIs
<1> HIDE DEF p
<1>5. p(b) + r \in Nat /\ b < p(b) + r /\ \A c \in Nat : b <= c => p(b) + r <= p(c) + r
  BY <1>1, <1>3, <1>4
<1> QED
  BY <1>5 DEF MinuteDue, n, r, p

LEMMA HourDueIs ==
  ASSUME NEW b \in Nat, NEW d \in Nat
  PROVE  /\ HourDue(b, d) \in Nat /\ b < HourDue(b, d)
         /\ \A c \in Nat : b <= c => HourDue(b, d) <= HourDue(c, d)
<1> DEFINE n == AtLeastOne(d \div kTimingHour)
           r == AtLeastOne(d % kTimingHour)
           p(c) == NthPopUp(kTmingTypeHour, c, n)
<1>1. n \in Nat \ {0} /\ r \in Nat \ {0}
  BY LengthsAre, PartsAre
<1>2. kTmingTypeHour \in Wheels
  BY DEF kTmingTypeHour, Wheels
<1>3. p(b) \in Nat /\ b < p(b)
  BY <1>1, <1>2, NthPopUpIs
<1>4. MinuteDue(p(b), r) \in Nat /\ p(b) < MinuteDue(p(b), r)
  BY <1>1, <1>3, MinuteDueIs
<1>5. ASSUME NEW c \in Nat, b <= c PROVE MinuteDue(p(b), r) <= MinuteDue(p(c), r)
  <2>1. p(c) \in Nat /\ p(b) <= p(c)
    BY <1>1, <1>2, <1>5, NthPopUpIs
  <2> HIDE DEF n, r, p
  <2> QED
    BY <1>1, <1>3, <2>1, MinuteDueIs
<1> HIDE DEF n, r
<1> QED
  BY <1>3, <1>4, <1>5 DEF HourDue, n, r

LEMMA DayDueIs ==
  ASSUME NEW b \in Nat, NEW d \in Nat
  PROVE  /\ DayDue(b, d) \in Nat /\ b < DayDue(b, d)
         /\ \A c \in Nat : b <= c => DayDue(b, d) <= DayDue(c, d)
<1> DEFINE n == AtLeastOne(d \div kTimingDay)
           r == AtLeastOne(d % kTimingDay)
           p(c) == NthPopUp(kTmingTypeDay, c, n)
<1>1. n \in Nat \ {0} /\ r \in Nat \ {0}
  BY LengthsAre, PartsAre
<1>2. kTmingTypeDay \in Wheels
  BY DEF kTmingTypeDay, Wheels
<1>3. p(b) \in Nat /\ b < p(b)
  BY <1>1, <1>2, NthPopUpIs
<1>4. HourDue(p(b), r) \in Nat /\ p(b) < HourDue(p(b), r)
  BY <1>1, <1>3, HourDueIs
<1>5. ASSUME NEW c \in Nat, b <= c PROVE HourDue(p(b), r) <= HourDue(p(c), r)
  <2>1. p(c) \in Nat /\ p(b) <= p(c)
    BY <1>1, <1>2, <1>5, NthPopUpIs
  <2> HIDE DEF n, r, p
  <2> QED
    BY <1>1, <1>3, <2>1, HourDueIs
<1> HIDE DEF n, r
<1> QED
  BY <1>3, <1>4, <1>5 DEF DayDue, n, r
-----------------------------------------------------------------------------
(* Where pointers to timers are, and when each of them will be dropped.    *)

\* The rest that an entry of wheel k keeps.
Rests(k) == IF k = kTmingTypeSecond THEN {0} ELSE 1 .. Unit(k) - 1

EntriesOf(k) == [timer : Timers, rest : Rests(k)]

WheelsOK(w) ==
  /\ DOMAIN w = Wheels
  /\ \A k \in Wheels : w[k] \in [0 .. Slots(k) - 1 -> SUBSET EntriesOf(k)]

\* What may be about to be dropped: timers, and wrappers of the wheel whose
\* PopUp is under way.
Droppable ==
  [timer : Timers, rest : {0}]
    \cup (IF level \in Wheels \ {kTmingTypeSecond} THEN EntriesOf(level) ELSE {})

\* A pair of wheels and entries about to be dropped, as InsertEntry takes it.
Sound(s) ==
  /\ s = [wheels |-> s.wheels, dying |-> s.dying]
  /\ WheelsOK(s.wheels) /\ s.dying \subseteq Droppable

\* The tick at which the pointer in an entry of wheel k that keeps rest r and
\* is dropped in tick at is gone: the wrappers on its way are told apart.
EndsAt(k, at, r) ==
  CASE k = kTmingTypeSecond -> at
    [] k = kTmingTypeMinute -> at + r
    [] k = kTmingTypeHour   -> MinuteDue(at, r)
    [] k = kTmingTypeDay    -> HourDue(at, r)

SlotEnd(k, i, r) == EndsAt(k, NthPopUp(k, Base(k), i + 1), r)

DropEnd(r) == IF r = 0 THEN tick_ ELSE EndsAt(level, tick_, r)

\* There is a pointer to t that will be gone at tick x.
InDying(d, t, x) == \E f \in d : f.timer = t /\ DropEnd(f.rest) = x

InWheels(w, t, x) ==
  \E k \in Wheels : \E i \in 0 .. Slots(k) - 1 : \E f \in w[k][i] :
    f.timer = t /\ SlotEnd(k, i, f.rest) = x

Held(s, t, x) == InDying(s.dying, t, x) \/ InWheels(s.wheels, t, x)

\* s2 is s and a pointer to t that will be gone at tick x.
Adds(s, s2, t, x) ==
  /\ Sound(s2)
  /\ \A v \in Timers, y \in Nat : Held(s2, v, y) <=> Held(s, v, y) \/ (v = t /\ y = x)

\* While a wheel turns there has been a tick.
ClockOK == tick_ \in Nat /\ level \in 0 .. Idle /\ (level # Idle => tick_ > 0)
-----------------------------------------------------------------------------
(* Insertion.                                                              *)

LEMMA EndsAtIs ==
  ASSUME NEW k \in Wheels, NEW at \in Nat, NEW r \in Rests(k)
  PROVE  /\ EndsAt(k, at, r) \in Nat /\ at <= EndsAt(k, at, r)
         /\ k # kTmingTypeSecond => at < EndsAt(k, at, r)
<1> USE DEF kTmingTypeSecond, kTmingTypeMinute, kTmingTypeHour, kTmingTypeDay, EndsAt
<1>1. CASE k = 0
  BY <1>1
<1>2. CASE k \in {1, 2, 3}
  <2>1. r \in Nat \ {0}
    BY <1>2, UnitIs DEF Rests
  <2> QED
    BY <1>2, <2>1, MinuteDueIs, HourDueIs
<1> QED
  BY <1>1, <1>2 DEF Wheels

LEMMA LastPopUpIs ==
  ASSUME NEW t \in Nat, NEW l \in 0 .. 4, l # 4 => t > 0, NEW k \in 0 .. 3
  PROVE  (IF k <= l THEN t ELSE t - 1) \in Nat
  OBVIOUS

LEMMA BaseIs ==
  ASSUME ClockOK, NEW k \in Wheels
  PROVE  Base(k) \in Nat /\ tick_ - 1 <= Base(k) /\ Base(k) <= tick_ /\ Base(0) = tick_
  BY DEF ClockOK, Base, Wheels, Idle

\* Whatever is in a slot is dropped later.
LEMMA SlotEndIsLater ==
  ASSUME ClockOK, NEW k \in Wheels, NEW i \in Nat, NEW r \in Rests(k)
  PROVE  SlotEnd(k, i, r) \in Nat /\ tick_ < SlotEnd(k, i, r)
<1> DEFINE p == NthPopUp(k, Base(k), i + 1)
<1>1. p \in Nat /\ Base(k) < p
  BY BaseIs, NthPopUpIs, i + 1 \in Nat \ {0}
<1> HIDE DEF p
<1>2. EndsAt(k, p, r) \in Nat /\ p <= EndsAt(k, p, r)
      /\ (k # kTmingTypeSecond => p < EndsAt(k, p, r))
  BY <1>1, EndsAtIs
<1>3. tick_ < EndsAt(k, p, r)
  BY <1>1, <1>2, BaseIs DEF ClockOK, kTmingTypeSecond
<1> QED
  BY <1>2, <1>3 DEF SlotEnd, p

\* What a wrapper leaves is dropped later, too.
LEMMA DropEndIs ==
  ASSUME ClockOK, NEW f \in Droppable
  PROVE  /\ f.timer \in Timers /\ f.rest \in Nat
         /\ DropEnd(f.rest) \in Nat /\ tick_ <= DropEnd(f.rest)
         /\ f.rest # 0 => /\ level \in Wheels \ {kTmingTypeSecond} /\ f \in EntriesOf(level)
                          /\ tick_ < DropEnd(f.rest)
<1>1. CASE f.rest = 0 /\ f \in [timer : Timers, rest : {0}]
  BY <1>1 DEF DropEnd, ClockOK
<1>2. CASE level \in Wheels \ {kTmingTypeSecond} /\ f \in EntriesOf(level)
  <2>1. f.timer \in Timers /\ f.rest \in Rests(level) /\ f.rest \in Nat \ {0}
    BY <1>2, UnitIs DEF EntriesOf, Rests
  <2> QED
    BY <1>2, <2>1, EndsAtIs DEF DropEnd, ClockOK
<1> QED
  BY <1>1, <1>2 DEF Droppable

\* Put adds one pointer.
LEMMA PutAdds ==
  ASSUME ClockOK, NEW s, Sound(s), NEW k \in Wheels, NEW i \in 0 .. Slots(k) - 1,
         NEW e \in EntriesOf(k)
  PROVE  Adds(s, Put(s, k, i, e), e.timer, SlotEnd(k, i, e.rest))
<1> DEFINE w  == s.wheels
           w2 == [w EXCEPT ![k][i] = @ \cup {e}]
           s2 == Put(s, k, i, e)
<1>1. s2 = [wheels |-> w2, dying |-> s.dying]
  BY DEF Sound, Put
<1>2. DOMAIN w = Wheels /\ w[k] \in [0 .. Slots(k) - 1 -> SUBSET EntriesOf(k)]
  BY DEF Sound, WheelsOK
<1>3. /\ DOMAIN w2 = Wheels
      /\ w2[k] = [w[k] EXCEPT ![i] = @ \cup {e}]
      /\ \A j \in Wheels : j # k => w2[j] = w[j]
  BY <1>2
<1>4. w2[k] \in [0 .. Slots(k) - 1 -> SUBSET EntriesOf(k)]
  BY <1>2, <1>3
<1>5. WheelsOK(w2)
  BY <1>3, <1>4 DEF Sound, WheelsOK
<1>6. /\ w2[k][i] = w[k][i] \cup {e}
      /\ \A j \in 0 .. Slots(k) - 1 : j # i => w2[k][j] = w[k][j]
  BY <1>2, <1>3
<1>7. Sound(s2)
  BY <1>1, <1>5 DEF Sound
<1> HIDE DEF w, w2, s2
<1>8. ASSUME NEW v \in Timers, NEW y \in Nat
      PROVE  InWheels(w2, v, y) <=> InWheels(w, v, y) \/ (v = e.timer /\ y = SlotEnd(k, i, e.rest))
  <2>1. ASSUME InWheels(w2, v, y), ~ InWheels(w, v, y)
        PROVE  v = e.timer /\ y = SlotEnd(k, i, e.rest)
    <3>0. PICK j \in Wheels : \E n \in 0 .. Slots(j) - 1 : \E f \in w2[j][n] :
             f.timer = v /\ SlotEnd(j, n, f.rest) = y
      BY <2>1 DEF InWheels
    <3>1. PICK n \in 0 .. Slots(j) - 1 : \E f \in w2[j][n] :
             f.timer = v /\ SlotEnd(j, n, f.rest) = y
      BY <3>0
    <3>2. PICK f \in w2[j][n] : f.timer = v /\ SlotEnd(j, n, f.rest) = y
      BY <3>1
    <3>3. f \notin w[j][n]
      BY <2>1, <3>2 DEF InWheels
    <3>4. j = k /\ n = i /\ f = e
      BY <1>3, <1>6, <3>2, <3>3
    <3> QED
      BY <3>2, <3>4
  <2>2. ASSUME InWheels(w, v, y) PROVE InWheels(w2, v, y)
    <3>1. ASSUME NEW j \in Wheels, NEW n \in 0 .. Slots(j) - 1 PROVE w[j][n] \subseteq w2[j][n]
      BY <1>3, <1>6
    <3> QED
      BY <2>2, <3>1 DEF InWheels
  <2>3. ASSUME v = e.timer, y = SlotEnd(k, i, e.rest) PROVE InWheels(w2, v, y)
    <3>1. e \in w2[k][i]
      BY <1>6
    <3> QED
      BY <2>3, <3>1 DEF InWheels
  <2> QED
    BY <2>1, <2>2, <2>3
<1>9. s2.dying = s.dying /\ s2.wheels = w2 /\ s.wheels = w
  BY <1>1 DEF w
<1>10. Adds(s, s2, e.timer, SlotEnd(k, i, e.rest))
  BY <1>7, <1>8, <1>9 DEF Adds, Held
<1> QED
  BY <1>10 DEF s2

LEMMA InsertSecondAdds ==
  ASSUME ClockOK, NEW s, Sound(s), NEW d \in 1 .. kTimingMinute, NEW t \in Timers
  PROVE  Adds(s, InsertSecondEntry(s, d, t), t, tick_ + d)
<1> USE DEF kTmingTypeSecond
<1>1. AtLeastOne(d) = d /\ d - 1 \in 0 .. Slots(0) - 1 /\ 0 \in Wheels
  BY LengthsAre, SlotsIs DEF AtLeastOne, Wheels
<1>2. Timer(t) \in EntriesOf(0) /\ Timer(t).timer = t /\ Timer(t).rest = 0
  BY DEF Timer, EntriesOf, Rests
<1>3. SlotEnd(0, d - 1, 0) = tick_ + d
  <2>1. tick_ \div 1 = tick_
    BY DEF ClockOK
  <2>2. NthPopUp(0, tick_, d) = tick_ + d
    BY <2>1, UnitIs DEF NthPopUp, ClockOK
  <2>3. (d - 1) + 1 = d /\ Base(0) = tick_
    BY BaseIs, <1>1
  <2>4. SlotEnd(0, d - 1, 0) = EndsAt(0, tick_ + d, 0)
    BY <2>2, <2>3 DEF SlotEnd
  <2> QED
    BY <2>4 DEF EndsAt, kTmingTypeMinute, kTmingTypeHour, kTmingTypeDay
<1> QED
  BY <1>1, <1>2, <1>3, PutAdds DEF InsertSecondEntry

LEMMA InsertWrappedAdds ==
  ASSUME ClockOK, NEW s, Sound(s), NEW k \in Wheels \ {kTmingTypeSecond}, NEW d \in Nat,
         d \div Unit(k) <= Slots(k), NEW t \in Timers
  PROVE  Adds(s, InsertWrapped(s, k, d, t), t,
              EndsAt(k, NthPopUp(k, Base(k), AtLeastOne(d \div Unit(k))), AtLeastOne(d % Unit(k))))
<1> DEFINE q == AtLeastOne(d \div Unit(k))
           r == AtLeastOne(d % Unit(k))
           e == [timer |-> t, rest |-> r]
<1>1. Unit(k) \in Nat /\ Unit(k) > 1
  BY LengthsAre, UnitIs DEF Wheels, kTmingTypeSecond
<1>2. q \in 1 .. Slots(k)
  <2>1. d \div Unit(k) \in Nat
    BY <1>1, Division
  <2> QED
    BY <2>1, SlotsIs DEF AtLeastOne
<1>3. r \in 1 .. Unit(k) - 1
  <2>1. d % Unit(k) \in 0 .. Unit(k) - 1
    BY <1>1, Division
  <2> QED
    BY <1>1, <2>1 DEF AtLeastOne
<1>4. e \in EntriesOf(k) /\ e.timer = t /\ e.rest = r
  BY <1>3 DEF EntriesOf, Rests
<1>5. q - 1 \in 0 .. Slots(k) - 1 /\ (q - 1) + 1 = q
  BY <1>2, SlotsIs
<1>6. InsertWrapped(s, k, d, t) = Put(s, k, q - 1, e)
  BY DEF InsertWrapped
<1> HIDE DEF q, r, e
<1>7. SlotEnd(k, q - 1, r) = EndsAt(k, NthPopUp(k, Base(k), q), r)
  BY <1>5 DEF SlotEnd
<1>8. Adds(s, InsertWrapped(s, k, d, t), t, EndsAt(k, NthPopUp(k, Base(k), q), r))
  BY <1>4, <1>5, <1>6, <1>7, PutAdds
<1> QED
  BY <1>8 DEF q, r

LEMMA InsertMinuteAdds ==
  ASSUME ClockOK, NEW s, Sound(s), NEW d \in 1 .. kTimingHour, NEW t \in Timers
  PROVE  Adds(s, InsertMinuteEntry(s, d, t), t, MinuteDue(Base(kTmingTypeMinute), d))
<1>1. d \div kTimingMinute <= kTimingHour \div kTimingMinute
  BY LengthsAre, QuotientMonotone
<1>2. kTmingTypeMinute \in Wheels \ {kTmingTypeSecond}
  BY DEF Wheels, kTmingTypeSecond, kTmingTypeMinute
<1>3. Adds(s, InsertWrapped(s, kTmingTypeMinute, d, t), t,
           EndsAt(kTmingTypeMinute,
                  NthPopUp(kTmingTypeMinute, Base(kTmingTypeMinute), AtLeastOne(d \div kTimingMinute)),
                  AtLeastOne(d % kTimingMinute)))
  BY <1>1, <1>2, InsertWrappedAdds, UnitIs, SlotsIs DEF kTmingTypeMinute
<1> QED
  BY <1>3 DEF InsertMinuteEntry, MinuteDue, EndsAt, kTmingTypeSecond, kTmingTypeMinute,
              kTmingTypeHour, kTmingTypeDay

LEMMA InsertHourAdds ==
  ASSUME ClockOK, NEW s, Sound(s), NEW d \in 1 .. kTimingDay, NEW t \in Timers
  PROVE  Adds(s, InsertHourEntry(s, d, t), t, HourDue(Base(kTmingTypeHour), d))
<1>1. d \div kTimingHour <= kTimingDay \div kTimingHour
  BY LengthsAre, QuotientMonotone
<1>2. kTmingTypeHour \in Wheels \ {kTmingTypeSecond}
  BY DEF Wheels, kTmingTypeSecond, kTmingTypeHour
<1>3. Adds(s, InsertWrapped(s, kTmingTypeHour, d, t), t,
           EndsAt(kTmingTypeHour,
                  NthPopUp(kTmingTypeHour, Base(kTmingTypeHour), AtLeastOne(d \div kTimingHour)),
                  AtLeastOne(d % kTimingHour)))
  BY <1>1, <1>2, InsertWrappedAdds, UnitIs, SlotsIs DEF kTmingTypeHour
<1> QED
  BY <1>3 DEF InsertHourEntry, HourDue, EndsAt, kTmingTypeSecond, kTmingTypeMinute,
              kTmingTypeHour, kTmingTypeDay

LEMMA InsertDayAdds ==
  ASSUME ClockOK, NEW s, Sound(s), NEW d \in Nat, d \div kTimingDay <= kDays, NEW t \in Timers
  PROVE  Adds(s, InsertDayEntry(s, d, t), t, DayDue(Base(kTmingTypeDay), d))
<1>1. kTmingTypeDay \in Wheels \ {kTmingTypeSecond}
  BY DEF Wheels, kTmingTypeSecond, kTmingTypeDay
<1>2. Adds(s, InsertWrapped(s, kTmingTypeDay, d, t), t,
           EndsAt(kTmingTypeDay,
                  NthPopUp(kTmingTypeDay, Base(kTmingTypeDay), AtLeastOne(d \div kTimingDay)),
                  AtLeastOne(d % kTimingDay)))
  BY <1>1, InsertWrappedAdds, UnitIs, SlotsIs DEF kTmingTypeDay
<1> QED
  BY <1>2 DEF InsertDayEntry, DayDue, EndsAt, kTmingTypeSecond, kTmingTypeMinute,
              kTmingTypeHour, kTmingTypeDay

\* A delay that is refused leaves the caller's pointer to be dropped.
LEMMA RefusedAdds ==
  ASSUME ClockOK, NEW s, Sound(s), NEW t \in Timers
  PROVE  Adds(s, [s EXCEPT !.dying = @ \cup {Timer(t)}], t, tick_)
<1> DEFINE d2 == s.dying \cup {Timer(t)}
           s2 == [s EXCEPT !.dying = @ \cup {Timer(t)}]
<1>1. s2 = [wheels |-> s.wheels, dying |-> d2]
  BY DEF Sound
<1>2. Timer(t).timer = t /\ Timer(t).rest = 0 /\ Timer(t) \in Droppable
  BY DEF Timer, Droppable
<1>3. Sound(s2)
  BY <1>1, <1>2 DEF Sound
<1>4. DropEnd(Timer(t).rest) = tick_
  BY <1>2 DEF DropEnd
<1> HIDE DEF d2
<1>5. \A v \in Timers, y \in Nat : InDying(d2, v, y) <=> InDying(s.dying, v, y) \/ (v = t /\ y = tick_)
  BY <1>2, <1>4 DEF d2, InDying
<1>6. s2.dying = d2 /\ s2.wheels = s.wheels
  BY <1>1
<1> HIDE DEF s2
<1>7. Adds(s, s2, t, tick_)
  BY <1>3, <1>5, <1>6 DEF Adds, Held
<1> QED
  BY <1>7 DEF s2

(***************************************************************************)
(* InsertEntry adds one pointer, and it will be gone when Due says: the    *)
(* slots and the wrappers amount to the arithmetic (TimingWheel.cpp:13-84).*)
(***************************************************************************)
LEMMA InsertEntryAdds ==
  ASSUME ClockOK, NEW s, Sound(s), NEW d \in Nat, NEW t \in Timers
  PROVE  Adds(s, InsertEntry(s, d, t), t, Due(d)) /\ Due(d) \in Nat
<1> DEFINE n == AtLeastOne(d)
<1>1. n \in Nat \ {0} /\ (d # 0 => n = d) /\ (d = 0 => n = 1)
  BY DEF AtLeastOne
<1>2. CASE n < kTimingMinute
  <2>1. InsertEntry(s, d, t) = InsertSecondEntry(s, n, t)
    BY <1>2, LengthsAre, <1>1 DEF InsertEntry, Refused
  <2>2. Due(d) = tick_ + n
    BY <1>1, <1>2, LengthsAre DEF Due, Refused
  <2>3. n \in 1 .. kTimingMinute
    BY <1>1, <1>2, LengthsAre
  <2>4. Due(d) \in Nat
    BY <1>1, <2>2 DEF ClockOK
  <2> QED
    BY <2>1, <2>2, <2>3, <2>4, InsertSecondAdds
<1>3. CASE kTimingMinute <= n /\ n < kTimingHour
  <2>1. n = d
    BY <1>1, <1>3, LengthsAre
  <2>2. InsertEntry(s, d, t) = InsertMinuteEntry(s, d, t)
    BY <1>3, <2>1, LengthsAre DEF InsertEntry, Refused
  <2>3. Due(d) = MinuteDue(Base(kTmingTypeMinute), d)
    BY <1>3, <2>1, LengthsAre DEF Due, Refused
  <2>4. Due(d) \in Nat
    BY <2>3, BaseIs, MinuteDueIs DEF Wheels, kTmingTypeMinute
  <2>5. d \in 1 .. kTimingHour
    BY <1>1, <1>3, <2>1, LengthsAre
  <2> QED
    BY <2>2, <2>3, <2>4, <2>5, InsertMinuteAdds
<1>4. CASE kTimingHour <= n /\ n < kTimingDay
  <2>1. n = d
    BY <1>1, <1>4, LengthsAre
  <2>2. InsertEntry(s, d, t) = InsertHourEntry(s, d, t)
    BY <1>4, <2>1, LengthsAre DEF InsertEntry, Refused
  <2>3. Due(d) = HourDue(Base(kTmingTypeHour), d)
    BY <1>4, <2>1, LengthsAre DEF Due, Refused
  <2>4. Due(d) \in Nat
    BY <2>3, BaseIs, HourDueIs DEF Wheels, kTmingTypeHour
  <2>5. d \in 1 .. kTimingDay
    BY <1>1, <1>4, <2>1, LengthsAre
  <2> QED
    BY <2>2, <2>3, <2>4, <2>5, InsertHourAdds
<1>5. CASE kTimingDay <= n /\ ~ Refused(n)
  <2>1. n = d
    BY <1>1, <1>5, LengthsAre
  <2>2. InsertEntry(s, d, t) = InsertDayEntry(s, d, t)
    BY <1>5, <2>1, LengthsAre DEF InsertEntry
  <2>3. Due(d) = DayDue(Base(kTmingTypeDay), d)
    BY <1>5, <2>1, LengthsAre DEF Due
  <2>4. Due(d) \in Nat
    BY <2>3, BaseIs, DayDueIs DEF Wheels, kTmingTypeDay
  <2>5. d \div kTimingDay <= kDays
    <3>1. d \div kTimingDay \in Nat
      BY LengthsAre, Division
    <3> QED
      BY <1>5, <2>1, <3>1, ConstantAssumption DEF Refused
  <2> QED
    BY <2>2, <2>3, <2>4, <2>5, InsertDayAdds
<1>6. CASE Refused(n)
  <2>1. n = d /\ kTimingDay <= d
    BY <1>1, <1>6, LengthsAre DEF Refused
  <2>2. InsertEntry(s, d, t) = [s EXCEPT !.dying = @ \cup {Timer(t)}]
    BY <1>6, <2>1, LengthsAre DEF InsertEntry
  <2>3. Due(d) = tick_
    BY <1>6, <2>1, LengthsAre DEF Due
  <2> QED
    BY <2>2, <2>3, RefusedAdds DEF ClockOK
<1> QED
  BY <1>1, <1>2, <1>3, <1>4, <1>5, <1>6, LengthsAre

\* What should happen at once never moves back (ExtendLife relies on it).
LEMMA DueMonotone ==
  ASSUME ClockOK, ClockOK', tick_ <= tick_', NEW d \in Nat,
         \A k \in Wheels : Base(k) <= Base(k)'
  PROVE  Due(d) \in Nat /\ Due(d)' \in Nat /\ Due(d) <= Due(d)'
<1>1. \A k \in Wheels : Base(k) \in Nat /\ Base(k)' \in Nat
  <2>1. \A k \in Wheels : Base(k) \in Nat
    BY BaseIs
  <2>2. ASSUME NEW k \in Wheels PROVE Base(k)' \in Nat
    <3>1. tick_' \in Nat /\ level' \in 0 .. 4 /\ (level' # 4 => tick_' > 0)
      BY DEF ClockOK, Idle
    <3> QED
      BY <3>1, LastPopUpIs DEF Base, Wheels
  <2> QED
    BY <2>1, <2>2
<1>2. CASE d < kTimingMinute
  <2>1. Due(d) = tick_ + AtLeastOne(d) /\ Due(d)' = tick_' + AtLeastOne(d)
    BY <1>2, LengthsAre DEF Due, Refused
  <2> QED
    BY <2>1, AtLeastOneIs DEF ClockOK
<1>3. CASE kTimingMinute <= d /\ d < kTimingHour
  <2>1. Due(d) = MinuteDue(Base(kTmingTypeMinute), d)
        /\ Due(d)' = MinuteDue(Base(kTmingTypeMinute)', d)
    BY <1>3, LengthsAre DEF Due, Refused
  <2> QED
    BY <1>1, <2>1, MinuteDueIs DEF Wheels, kTmingTypeMinute
<1>4. CASE kTimingHour <= d /\ d < kTimingDay
  <2>1. Due(d) = HourDue(Base(kTmingTypeHour), d)
        /\ Due(d)' = HourDue(Base(kTmingTypeHour)', d)
    BY <1>4, LengthsAre DEF Due, Refused
  <2> QED
    BY <1>1, <2>1, HourDueIs DEF Wheels, kTmingTypeHour
<1>5. CASE kTimingDay <= d /\ ~ Refused(d)
  <2>1. Due(d) = DayDue(Base(kTmingTypeDay), d)
        /\ Due(d)' = DayDue(Base(kTmingTypeDay)', d)
    BY <1>5, LengthsAre DEF Due
  <2> QED
    BY <1>1, <2>1, DayDueIs DEF Wheels, kTmingTypeDay
<1>6. CASE Refused(d)
  <2>1. kTimingDay <= d
    BY <1>6, LengthsAre DEF Refused
  <2>2. Due(d) = tick_ /\ Due(d)' = tick_'
    BY <1>6, <2>1, LengthsAre DEF Due
  <2> QED
    BY <2>2 DEF ClockOK
<1> QED
  BY <1>2, <1>3, <1>4, <1>5, <1>6, LengthsAre
-----------------------------------------------------------------------------
(* The invariant.                                                          *)

TypeInv ==
  /\ Sound(Here) /\ ClockOK
  /\ last_ts_ \in 0 .. MaxNow /\ behind \in Nat
  /\ kind \in [Timers -> AllKinds \cup {"none", "over"}]
  /\ delay \in [Timers -> Delays \cup {0}]
  /\ armed \in [Timers -> Nat] /\ due \in [Timers -> Nat] /\ fired \in [Timers -> Nat]

\* Pointers are to timers that have been started and not fired.
LiveInv == \A t \in Timers, x \in Nat : Held(Here, t, x) => Active(t)

\* The last pointer to a timer is gone when the timer is due, and not after
\* the pointer that another insertion would add now.
DueInv ==
  \A t \in Timers, x \in Nat, d \in Nat : Active(t) /\ due[t] = x /\ delay[t] = d =>
    /\ Held(Here, t, x)
    /\ \A y \in Nat : Held(Here, t, y) => y <= x
    /\ x <= Due(d)

\* Due is near the delay.
NearInv ==
  \A t \in Timers : Active(t) /\ ~ Refused(delay[t]) =>
    LET wanted == armed[t] + AtLeastOne(delay[t]) IN
    due[t] \in wanted - Early(delay[t]) .. wanted + Late(delay[t])

IInv == TypeInv /\ LiveInv /\ DueInv /\ NearInv

LEMMA DelaysAre == ASSUME TypeInv, NEW t \in Timers PROVE delay[t] \in Nat
<1>1. Delays \cup {0} \subseteq Nat
  BY ConstantAssumption
<1> QED
  BY <1>1 DEF TypeInv

LEMMA TypeInvIsTypeOK == TypeInv => TypeOK
<1> SUFFICES ASSUME TypeInv PROVE TypeOK
  OBVIOUS
<1>1. WheelsOK(wheels_) /\ dying \subseteq Droppable
  BY DEF TypeInv, Sound, Here
<1>2. ASSUME NEW k \in Wheels PROVE EntriesOf(k) \subseteq Entries
  <2>1. Rests(k) \subseteq 0 .. kTimingDay
    BY LengthsAre, UnitIs DEF Rests, Wheels
  <2> QED
    BY <2>1 DEF EntriesOf, Entries
<1>3. [timer : Timers, rest : {0}] \subseteq Entries
  BY LengthsAre DEF Entries
<1>4. dying \subseteq Entries
  BY <1>1, <1>2, <1>3 DEF Droppable
<1>5. DOMAIN wheels_ = Wheels /\ \A k \in Wheels : wheels_[k] \in [0 .. Slots(k) - 1 -> SUBSET Entries]
  <2>1. ASSUME NEW k \in Wheels PROVE wheels_[k] \in [0 .. Slots(k) - 1 -> SUBSET Entries]
    BY <1>1, <1>2 DEF WheelsOK
  <2> QED
    BY <1>1, <2>1 DEF WheelsOK
<1>6. level \in Wheels \cup {Idle}
  BY DEF TypeInv, ClockOK, Wheels, Idle
<1> QED
  BY <1>4, <1>5, <1>6 DEF TypeInv, TypeOK, ClockOK

\* Nothing is held at the beginning.
LEMMA InitIInv == Init => IInv
<1> SUFFICES ASSUME Init PROVE IInv
  OBVIOUS
<1>1. Sound(Here)
  BY SlotsIs DEF Init, Sound, Here, WheelsOK
<1>2. ClockOK
  BY DEF Init, ClockOK, Idle
<1>3. TypeInv
  BY <1>1, <1>2, ConstantAssumption DEF Init, TypeInv
<1>4. ASSUME NEW t \in Timers, NEW x \in Nat PROVE ~ Held(Here, t, x)
  BY DEF Init, Held, Here, InDying, InWheels
<1>5. \A t \in Timers : ~ Active(t)
  BY DEF Init, Active, AllKinds
<1> QED
  BY <1>3, <1>4, <1>5 DEF IInv, LiveInv, DueInv, NearInv
-----------------------------------------------------------------------------
(* The clock.                                                              *)

\* A step that leaves the timers alone and drops no pointer for good.
LEMMA KeepsIInv ==
  ASSUME IInv, UNCHANGED timerVars, Sound(Here)', ClockOK',
         last_ts_' \in 0 .. MaxNow, behind' \in Nat,
         tick_ <= tick_', \A k \in Wheels : Base(k) <= Base(k)',
         \A t \in Timers, x \in Nat : Held(Here, t, x)' <=> Held(Here, t, x)
  PROVE  IInv'
<1> USE DEF IInv
<1>1. TypeInv'
  BY DEF TypeInv, timerVars
<1>2. \A t \in Timers : Active(t)' <=> Active(t)
  BY DEF Active, timerVars
<1>3. LiveInv'
  BY <1>2 DEF LiveInv
<1>4. ASSUME NEW t \in Timers, NEW x \in Nat, NEW d \in Nat, Active(t)', due'[t] = x, delay'[t] = d
      PROVE  /\ Held(Here, t, x)' /\ (\A y \in Nat : Held(Here, t, y)' => y <= x)
             /\ x <= Due(d)'
  <2>1. Active(t) /\ due[t] = x /\ delay[t] = d
    BY <1>2, <1>4 DEF timerVars
  <2>2. Held(Here, t, x) /\ (\A y \in Nat : Held(Here, t, y) => y <= x) /\ x <= Due(d)
    BY <2>1 DEF DueInv
  <2>3. ClockOK
    BY DEF TypeInv
  <2>4. Due(d) \in Nat /\ Due(d)' \in Nat /\ Due(d) <= Due(d)'
    BY <2>3, DueMonotone
  <2>5. x <= Due(d)'
    BY <2>2, <2>4
  <2> QED
    BY <2>2, <2>5
<1>5. DueInv'
  BY <1>4 DEF DueInv
<1>6. NearInv'
  BY <1>2 DEF NearInv, timerVars, Refused, AtLeastOne, Early, Late
<1> QED
  BY <1>1, <1>3, <1>5, <1>6

\* A slot of the wheel that turns is one place nearer afterwards, those of the
\* other wheels stay, and what was in the first slot is dropped in this tick.
LEMMA PopUpKeeps ==
  ASSUME Sound(Here), ClockOK, ClockOK', dying = {}, NEW k \in Wheels, PopUp(k),
         NthPopUp(k, Base(k), 1) = tick_',
         \A n \in Nat : NthPopUp(k, Base(k)', n) = NthPopUp(k, Base(k), n + 1),
         \A j \in Wheels \ {k} : \A n \in Nat : NthPopUp(j, Base(j)', n) = NthPopUp(j, Base(j), n)
  PROVE  /\ Sound(Here)'
         /\ \A t \in Timers, x \in Nat : Held(Here, t, x)' <=> Held(Here, t, x)
<1> DEFINE N == Slots(k)
<1>1. N \in Nat \ {0} /\ Unit(k) \in Nat \ {0}
  BY SlotsIs, UnitIs
<1>2. DOMAIN wheels_ = Wheels /\ \A j \in Wheels : wheels_[j] \in [0 .. Slots(j) - 1 -> SUBSET EntriesOf(j)]
  BY DEF Sound, Here, WheelsOK
<1>3. /\ DOMAIN wheels_' = Wheels
      /\ \A j \in Wheels \ {k} : wheels_'[j] = wheels_[j]
      /\ wheels_'[k] = [i \in 0 .. N - 1 |-> IF i + 1 \in 0 .. N - 1 THEN wheels_[k][i + 1] ELSE {}]
      /\ dying' = wheels_[k][0] /\ level' = k
  BY <1>2 DEF PopUp
<1>4. WheelsOK(wheels_)'
  <2>1. wheels_'[k] \in [0 .. N - 1 -> SUBSET EntriesOf(k)]
    BY <1>1, <1>2, <1>3
  <2> QED
    BY <1>2, <1>3, <2>1 DEF WheelsOK
<1>5. dying' \subseteq EntriesOf(k)
  <2>1. 0 \in 0 .. N - 1
    BY <1>1
  <2>2. wheels_[k][0] \in SUBSET EntriesOf(k)
    BY <1>2, <2>1
  <2> QED
    BY <1>3, <2>2
<1>6. dying' \subseteq Droppable'
  BY <1>3, <1>5 DEF Droppable, EntriesOf, Rests
<1>7. Sound(Here)'
  BY <1>4, <1>6 DEF Sound, Here
<1>8. ASSUME NEW r \in Rests(k) PROVE DropEnd(r)' = SlotEnd(k, 0, r)
  <2>1. SlotEnd(k, 0, r) = EndsAt(k, tick_', r)
    BY DEF SlotEnd
  <2>2. CASE r = 0
    <3>1. k = kTmingTypeSecond
      BY <1>1, <2>2 DEF Rests
    <3> QED
      BY <2>1, <2>2, <3>1 DEF DropEnd, EndsAt, kTmingTypeSecond, kTmingTypeMinute, kTmingTypeHour,
         kTmingTypeDay
  <2>3. CASE r # 0
    BY <1>3, <2>1, <2>3 DEF DropEnd
  <2> QED
    BY <2>2, <2>3
<1>9. ASSUME NEW i \in Nat, NEW r PROVE SlotEnd(k, i, r)' = SlotEnd(k, i + 1, r)
  BY i + 1 \in Nat DEF SlotEnd
<1>10. ASSUME NEW j \in Wheels \ {k}, NEW i \in Nat, NEW r PROVE SlotEnd(j, i, r)' = SlotEnd(j, i, r)
  BY i + 1 \in Nat DEF SlotEnd
<1> DEFINE P(t, x, j, i) == \E f \in wheels_[j][i] : f.timer = t /\ SlotEnd(j, i, f.rest) = x
<1>11. ASSUME NEW t \in Timers, NEW x \in Nat PROVE Held(Here, t, x)' <=> Held(Here, t, x)
  <2>1. Held(Here, t, x) <=> \E j \in Wheels : \E i \in 0 .. Slots(j) - 1 : P(t, x, j, i)
    BY DEF Held, Here, InDying, InWheels
  <2>2. InDying(dying, t, x)' <=> P(t, x, k, 0)
    <3>1. InDying(dying, t, x)' <=> \E f \in dying' : f.timer = t /\ DropEnd(f.rest)' = x
      BY DEF InDying
    <3>2. \A f \in wheels_[k][0] : f.rest \in Rests(k)
      BY <1>3, <1>5 DEF EntriesOf
    <3> QED
      BY <1>3, <1>8, <3>1, <3>2
  <2>3. \A j \in Wheels \ {k} : \A i \in 0 .. Slots(j) - 1 : P(t, x, j, i)' <=> P(t, x, j, i)
    <3> SUFFICES ASSUME NEW j \in Wheels \ {k}, NEW i \in 0 .. Slots(j) - 1
                 PROVE  P(t, x, j, i)' <=> P(t, x, j, i)
      OBVIOUS
    <3>1. P(t, x, j, i)' <=> \E f \in wheels_'[j][i] : f.timer = t /\ SlotEnd(j, i, f.rest)' = x
      OBVIOUS
    <3>2. wheels_'[j][i] = wheels_[j][i] /\ \A r : SlotEnd(j, i, r)' = SlotEnd(j, i, r)
      BY <1>3, <1>10, SlotsIs
    <3> QED
      BY <3>1, <3>2
  <2>4. \A i \in 0 .. N - 1 : P(t, x, k, i)' <=> i + 1 \in 0 .. N - 1 /\ P(t, x, k, i + 1)
    <3> SUFFICES ASSUME NEW i \in 0 .. N - 1
                 PROVE  P(t, x, k, i)' <=> i + 1 \in 0 .. N - 1 /\ P(t, x, k, i + 1)
      OBVIOUS
    <3>1. P(t, x, k, i)' <=> \E f \in wheels_'[k][i] : f.timer = t /\ SlotEnd(k, i, f.rest)' = x
      OBVIOUS
    <3>2. \A r : SlotEnd(k, i, r)' = SlotEnd(k, i + 1, r)
      BY <1>1, <1>9
    <3>3. wheels_'[k][i] = IF i + 1 \in 0 .. N - 1 THEN wheels_[k][i + 1] ELSE {}
      BY <1>3
    <3> QED
      BY <3>1, <3>2, <3>3
  <2>5. Held(Here, t, x)' <=> \/ InDying(dying, t, x)'
                              \/ \E j \in Wheels : \E i \in 0 .. Slots(j) - 1 : P(t, x, j, i)'
    BY DEF Held, Here, InWheels
  <2> HIDE DEF P
  <2>6. (\E i \in 0 .. N - 1 : P(t, x, k, i)) <=> \/ P(t, x, k, 0)
                                                  \/ \E i \in 0 .. N - 1 : P(t, x, k, i)'
    <3>1. ASSUME NEW i \in 0 .. N - 1, P(t, x, k, i), i # 0 PROVE P(t, x, k, i - 1)'
      <4>1. i - 1 \in 0 .. N - 1 /\ (i - 1) + 1 = i
        BY <1>1, <3>1
      <4> QED
        BY <2>4, <3>1, <4>1
    <3>2. \A i \in 0 .. N - 1 : i # 0 => i - 1 \in 0 .. N - 1
      BY <1>1
    <3>3. 0 \in 0 .. N - 1
      BY <1>1
    <3> QED
      BY <2>4, <3>1, <3>2, <3>3
  <2> QED
    BY <2>1, <2>2, <2>3, <2>5, <2>6
<1> QED
  BY <1>7, <1>11

\* The next PopUp of a wheel comes a tick nearer in the tick of its turn only.
LEMMA TurnIs ==
  ASSUME tick_ \in Nat \ {0}, NEW k \in Wheels
  PROVE  /\ ~ Turn(k) => \A n \in Nat : NthPopUp(k, tick_, n) = NthPopUp(k, tick_ - 1, n)
         /\ Turn(k) => /\ NthPopUp(k, tick_ - 1, 1) = tick_
                       /\ \A n \in Nat : NthPopUp(k, tick_, n) = NthPopUp(k, tick_ - 1, n + 1)
<1> DEFINE u == Unit(k)
           p == tick_ \div u
           q == (tick_ - 1) \div u
<1>1. u \in Nat \ {0} /\ tick_ - 1 \in Nat
  BY UnitIs
<1>2. p \in Nat /\ q \in Nat
  BY <1>1, Division
<1>3. (~ Turn(k) => p = q) /\ (Turn(k) => p = q + 1 /\ (q + 1) * u = tick_)
  BY <1>1, QuotientSteps DEF Turn
<1>4. \A n \in Nat : NthPopUp(k, tick_, n) = (p + n) * u /\ NthPopUp(k, tick_ - 1, n) = (q + n) * u
  BY DEF NthPopUp
<1> HIDE DEF u, p, q
<1>5. Turn(k) => \A n \in Nat : p + n = q + (n + 1)
  BY <1>2, <1>3
<1> QED
  BY <1>2, <1>3, <1>4, <1>5

LEMMA TickIInv == ASSUME IInv, Tick PROVE IInv'
<1> USE DEF IInv
<1>1. Sound(Here) /\ ClockOK /\ level = Idle /\ dying = {} /\ tick_ \in Nat
  BY DEF TypeInv, Tick, ClockOK
<1>2. tick_' = tick_ + 1 /\ level' = 0 /\ ClockOK'
  BY <1>1 DEF Tick, PopUp, ClockOK, Idle, kTmingTypeSecond
<1>3. \A k \in Wheels : Base(k) = tick_ /\ Base(k)' = IF k = 0 THEN tick_ + 1 ELSE tick_
  <2> SUFFICES ASSUME NEW k \in Wheels
               PROVE  Base(k) = tick_ /\ Base(k)' = IF k = 0 THEN tick_ + 1 ELSE tick_
    OBVIOUS
  <2>1. Base(k) = tick_
    BY <1>1 DEF Base, Wheels, Idle
  <2>2. (k <= 0) <=> k = 0
    BY DEF Wheels
  <2>3. (tick_ + 1) - 1 = tick_
    BY <1>1
  <2> QED
    BY <1>2, <2>1, <2>2, <2>3 DEF Base
<1>4. \A n \in Nat : NthPopUp(0, tick_ + 1, n) = NthPopUp(0, tick_, n + 1)
                     /\ NthPopUp(0, tick_, 1) = tick_ + 1
  <2>1. tick_ \div 1 = tick_ /\ (tick_ + 1) \div 1 = tick_ + 1
    BY <1>1
  <2> QED
    BY <1>1, <2>1, UnitIs DEF NthPopUp
<1>5. PopUp(0) /\ 0 \in Wheels
  BY DEF Tick, kTmingTypeSecond, Wheels
<1>6. NthPopUp(0, Base(0), 1) = tick_' /\ \A n \in Nat : NthPopUp(0, Base(0)', n) = NthPopUp(0, Base(0), n + 1)
  BY <1>2, <1>3, <1>4, <1>5
<1>7. \A j \in Wheels \ {0} : \A n \in Nat : NthPopUp(j, Base(j)', n) = NthPopUp(j, Base(j), n)
  BY <1>3
<1>8. Sound(Here)' /\ \A t \in Timers, x \in Nat : Held(Here, t, x)' <=> Held(Here, t, x)
  BY <1>1, <1>2, <1>5, <1>6, <1>7, PopUpKeeps
<1>9. behind' \in Nat /\ last_ts_' \in 0 .. MaxNow /\ UNCHANGED timerVars
  BY DEF Tick, TypeInv
<1>10. tick_ <= tick_' /\ \A k \in Wheels : Base(k) <= Base(k)'
  BY <1>1, <1>2, <1>3
<1> QED
  BY <1>2, <1>8, <1>9, <1>10, KeepsIInv

LEMMA NextWheelIInv == ASSUME IInv, NEW k \in Wheels, NextWheel(k) PROVE IInv'
<1> USE DEF IInv
<1>1. Sound(Here) /\ ClockOK /\ dying = {} /\ level \in Wheels /\ level < k /\ tick_ \in Nat \ {0}
  BY DEF TypeInv, NextWheel, ClockOK, Wheels, Idle
<1>2. tick_' = tick_ /\ level' = k /\ PopUp(k) /\ Turn(k)
  BY DEF NextWheel, PopUp
<1>3. ClockOK'
  BY <1>1, <1>2 DEF ClockOK, Wheels, Idle
<1>4. ASSUME NEW j \in Wheels
      PROVE  /\ Base(j) = IF j <= level THEN tick_ ELSE tick_ - 1
             /\ Base(j)' = IF j <= k THEN tick_ ELSE tick_ - 1
  BY <1>2 DEF Base
<1>5. Base(k) = tick_ - 1 /\ Base(k)' = tick_
  BY <1>1, <1>4 DEF Wheels
<1>6. NthPopUp(k, Base(k), 1) = tick_' /\ \A n \in Nat : NthPopUp(k, Base(k)', n) = NthPopUp(k, Base(k), n + 1)
  BY <1>1, <1>2, <1>5, TurnIs
<1>7. ASSUME NEW j \in Wheels \ {k}, NEW n \in Nat
      PROVE  NthPopUp(j, Base(j)', n) = NthPopUp(j, Base(j), n)
  <2>1. CASE level < j /\ j < k
    <3>1. ~ Turn(j)
      BY <2>1 DEF NextWheel
    <3>2. Base(j) = tick_ - 1 /\ Base(j)' = tick_
      BY <1>1, <1>4, <2>1 DEF Wheels
    <3> QED
      BY <1>1, <3>1, <3>2, TurnIs
  <2>2. CASE ~ (level < j /\ j < k)
    <3>1. Base(j)' = Base(j)
      BY <1>1, <1>4, <2>2 DEF Wheels
    <3> QED
      BY <3>1
  <2> QED
    BY <2>1, <2>2
<1>8. Sound(Here)' /\ \A t \in Timers, x \in Nat : Held(Here, t, x)' <=> Held(Here, t, x)
  BY <1>1, <1>2, <1>3, <1>6, <1>7, PopUpKeeps
<1>9. behind' \in Nat /\ last_ts_' \in 0 .. MaxNow /\ UNCHANGED timerVars
  BY DEF NextWheel, TypeInv
<1>10. ASSUME NEW j \in Wheels PROVE Base(j) <= Base(j)'
  BY <1>1, <1>4 DEF Wheels
<1>11. tick_ <= tick_'
  BY <1>1, <1>2
<1> QED
  BY <1>3, <1>8, <1>9, <1>10, <1>11, KeepsIInv

\* Nothing is dropped, and no slot is moved.
LEMMA SlotsStay ==
  ASSUME Sound(Here), UNCHANGED queueVars, dying = {},
         \A j \in Wheels : \A n \in Nat : NthPopUp(j, Base(j)', n) = NthPopUp(j, Base(j), n)
  PROVE  /\ Sound(Here)'
         /\ \A t \in Timers, x \in Nat : Held(Here, t, x)' <=> Held(Here, t, x)
<1>1. wheels_' = wheels_ /\ dying' = {}
  BY DEF queueVars
<1>2. Sound(Here)'
  BY <1>1 DEF Sound, Here, WheelsOK
<1>3. ASSUME NEW j \in Wheels, NEW i \in 0 .. Slots(j) - 1, NEW r PROVE SlotEnd(j, i, r)' = SlotEnd(j, i, r)
  BY i + 1 \in Nat, SlotsIs DEF SlotEnd
<1> DEFINE P(t, x, j, i) == \E f \in wheels_[j][i] : f.timer = t /\ SlotEnd(j, i, f.rest) = x
<1>4. ASSUME NEW t \in Timers, NEW x \in Nat PROVE Held(Here, t, x)' <=> Held(Here, t, x)
  <2>1. Held(Here, t, x) <=> \E j \in Wheels : \E i \in 0 .. Slots(j) - 1 : P(t, x, j, i)
    BY DEF Held, Here, InDying, InWheels
  <2>2. Held(Here, t, x)' <=> \E j \in Wheels : \E i \in 0 .. Slots(j) - 1 : P(t, x, j, i)'
    BY <1>1 DEF Held, Here, InDying, InWheels
  <2>3. ASSUME NEW j \in Wheels, NEW i \in 0 .. Slots(j) - 1 PROVE P(t, x, j, i)' <=> P(t, x, j, i)
    <3>1. P(t, x, j, i)' <=> \E f \in wheels_'[j][i] : f.timer = t /\ SlotEnd(j, i, f.rest)' = x
      OBVIOUS
    <3>2. \A r : SlotEnd(j, i, r)' = SlotEnd(j, i, r)
      BY <1>3
    <3> QED
      BY <1>1, <3>1, <3>2
  <2> HIDE DEF P
  <2> QED
    BY <2>1, <2>2, <2>3
<1> QED
  BY <1>2, <1>4

LEMMA EndTickIInv == ASSUME IInv, EndTick PROVE IInv'
<1> USE DEF IInv
<1>1. Sound(Here) /\ ClockOK /\ dying = {} /\ level \in Wheels /\ tick_ \in Nat \ {0}
  BY DEF TypeInv, EndTick, ClockOK, Wheels, Idle
<1>2. tick_' = tick_ /\ level' = 4
  BY DEF EndTick, Idle
<1>3. ClockOK'
  BY <1>1, <1>2 DEF ClockOK, Idle
<1>4. ASSUME NEW j \in Wheels
      PROVE  Base(j) = (IF j <= level THEN tick_ ELSE tick_ - 1) /\ Base(j)' = tick_
  <2>1. j <= 4
    BY DEF Wheels
  <2> QED
    BY <1>2, <2>1 DEF Base
<1>5. ASSUME NEW j \in Wheels, NEW n \in Nat
      PROVE  NthPopUp(j, Base(j)', n) = NthPopUp(j, Base(j), n)
  <2>1. CASE level < j
    <3>1. ~ Turn(j)
      BY <2>1 DEF EndTick
    <3>2. Base(j) = tick_ - 1 /\ Base(j)' = tick_
      BY <1>1, <1>4, <2>1 DEF Wheels
    <3> QED
      BY <1>1, <3>1, <3>2, TurnIs
  <2>2. CASE ~ (level < j)
    <3>1. Base(j)' = Base(j)
      BY <1>1, <1>4, <2>2 DEF Wheels
    <3> QED
      BY <3>1
  <2> QED
    BY <2>1, <2>2
<1>6. Sound(Here)' /\ \A t \in Timers, x \in Nat : Held(Here, t, x)' <=> Held(Here, t, x)
  BY <1>1, <1>5, SlotsStay DEF EndTick
<1>7. behind' \in Nat /\ last_ts_' \in 0 .. MaxNow /\ UNCHANGED timerVars
  BY DEF EndTick, TypeInv
<1>8. ASSUME NEW j \in Wheels PROVE Base(j) <= Base(j)'
  BY <1>1, <1>4 DEF Wheels
<1>9. tick_ <= tick_'
  BY <1>1, <1>2
<1> QED
  BY <1>3, <1>6, <1>7, <1>8, <1>9, KeepsIInv

LEMMA OnTimerIInv ==
  ASSUME IInv, FirstOnTimer \/ (\E now \in last_ts_ + 1 .. last_ts_ + MaxJump : now <= MaxNow /\ OnTimer(now))
  PROVE  IInv'
<1> USE DEF IInv
<1>1. Sound(Here) /\ ClockOK /\ last_ts_ \in 0 .. MaxNow /\ behind \in Nat
  BY DEF TypeInv
<1>2. UNCHANGED <<queueVars, timerVars, tick_, level>> /\ dying = {}
  BY DEF FirstOnTimer, OnTimer, Resting
<1>3. last_ts_' \in 0 .. MaxNow /\ behind' \in Nat
  <2>1. MaxNow \in Nat \ {0} /\ MaxJump \in Nat
    BY ConstantAssumption
  <2>2. CASE FirstOnTimer
    BY <1>1, <2>1, <2>2 DEF FirstOnTimer
  <2>3. ASSUME NEW now \in last_ts_ + 1 .. last_ts_ + MaxJump, now <= MaxNow, OnTimer(now)
        PROVE  last_ts_' \in 0 .. MaxNow /\ behind' \in Nat
    BY <1>1, <2>1, <2>3 DEF OnTimer
  <2> QED
    BY <2>2, <2>3
<1>4. ClockOK'
  BY <1>1, <1>2 DEF ClockOK
<1>5. ASSUME NEW j \in Wheels PROVE Base(j)' = Base(j) /\ Base(j) \in Nat
  BY <1>1, <1>2, BaseIs DEF Base
<1>6. Sound(Here)' /\ \A t \in Timers, x \in Nat : Held(Here, t, x)' <=> Held(Here, t, x)
  BY <1>1, <1>2, <1>5, SlotsStay
<1>7. tick_ <= tick_' /\ \A j \in Wheels : Base(j) <= Base(j)'
  BY <1>1, <1>2, <1>5 DEF ClockOK
<1> QED
  BY <1>2, <1>3, <1>4, <1>6, <1>7, KeepsIInv
-----------------------------------------------------------------------------
(* Dropping entries, and starting timers.                                  *)

\* The state after a handler is the pair of places it works out.
LEMMA Settles ==
  ASSUME NEW s, Sound(s), Becomes(s), UNCHANGED <<tick_, level>>
  PROVE  /\ Sound(Here)'
         /\ \A t \in Timers, x \in Nat : Held(Here, t, x)' <=> Held(s, t, x)
<1>1. wheels_' = s.wheels /\ dying' = s.dying /\ tick_' = tick_ /\ level' = level
  BY DEF Becomes
<1>2. Sound(Here)'
  BY <1>1 DEF Sound, Here, WheelsOK, Droppable
<1>3. \A k, i, r : SlotEnd(k, i, r)' = SlotEnd(k, i, r)
  BY <1>1 DEF SlotEnd, Base
<1>4. \A r : DropEnd(r)' = DropEnd(r)
  BY <1>1 DEF DropEnd
<1>5. ASSUME NEW t \in Timers, NEW x \in Nat PROVE Held(Here, t, x)' <=> Held(s, t, x)
  <2>1. Held(Here, t, x)' <=>
          \/ \E f \in dying' : f.timer = t /\ DropEnd(f.rest)' = x
          \/ \E k \in Wheels : \E i \in 0 .. Slots(k) - 1 : \E f \in wheels_'[k][i] :
               f.timer = t /\ SlotEnd(k, i, f.rest)' = x
    BY DEF Held, Here, InDying, InWheels
  <2>2. Held(s, t, x) <=>
          \/ \E f \in s.dying : f.timer = t /\ DropEnd(f.rest) = x
          \/ \E k \in Wheels : \E i \in 0 .. Slots(k) - 1 : \E f \in s.wheels[k][i] :
               f.timer = t /\ SlotEnd(k, i, f.rest) = x
    BY DEF Held, InDying, InWheels
  <2> QED
    BY <1>1, <1>3, <1>4, <2>1, <2>2
<1> QED
  BY <1>2, <1>5

\* Without e, there is one pointer less.
Without(e) == [Here EXCEPT !.dying = @ \ {e}]

LEMMA WithoutIs ==
  ASSUME Sound(Here), NEW e \in dying
  PROVE  /\ Sound(Without(e)) /\ Without(e).wheels = wheels_ /\ Without(e).dying = dying \ {e}
         /\ \A t \in Timers, x \in Nat :
              Held(Here, t, x) <=> Held(Without(e), t, x) \/ (t = e.timer /\ x = DropEnd(e.rest))
<1>1. Without(e) = [wheels |-> wheels_, dying |-> dying \ {e}]
  BY DEF Without, Here
<1>2. Sound(Without(e))
  BY <1>1 DEF Sound, Here
<1>3. ASSUME NEW t \in Timers, NEW x \in Nat
      PROVE  InDying(dying, t, x) <=> InDying(dying \ {e}, t, x) \/ (t = e.timer /\ x = DropEnd(e.rest))
  BY DEF InDying
<1> QED
  BY <1>1, <1>2, <1>3 DEF Held, Here

LEMMA DropWrapperIInv == ASSUME IInv, NEW e \in dying, DropWrapper(e) PROVE IInv'
<1> USE DEF IInv
<1>1. Sound(Here) /\ ClockOK
  BY DEF TypeInv
<1>2. e \in Droppable /\ e.rest > 0 /\ UNCHANGED <<timerVars, clockVars>>
  BY <1>1 DEF Sound, Here, DropWrapper
<1>3. /\ level \in Wheels \ {kTmingTypeSecond} /\ e \in EntriesOf(level)
      /\ e.timer \in Timers /\ e.rest \in 1 .. Unit(level) - 1
      /\ DropEnd(e.rest) = EndsAt(level, tick_, e.rest)
  <2>1. e.rest # 0
    BY <1>2
  <2>2. level \in Wheels \ {kTmingTypeSecond} /\ e \in EntriesOf(level)
    BY <1>1, <1>2, <2>1, DropEndIs
  <2> QED
    BY <2>1, <2>2 DEF EntriesOf, Rests, DropEnd
<1> DEFINE s == Without(e)
           s2 == Unwrap(s, level, e)
<1>4. Sound(s) /\ \A t \in Timers, x \in Nat :
                    Held(Here, t, x) <=> Held(s, t, x) \/ (t = e.timer /\ x = DropEnd(e.rest))
  BY <1>1, WithoutIs
<1>5. Becomes(s2)
  BY DEF DropWrapper, Without
<1> HIDE DEF s
<1>6. Adds(s, s2, e.timer, DropEnd(e.rest))
  <2> USE DEF kTmingTypeSecond, kTmingTypeMinute, kTmingTypeHour, kTmingTypeDay
  <2>1. CASE level = 1
    <3>1. e.rest \in 1 .. kTimingMinute
      BY <1>3, <2>1, UnitIs, LengthsAre
    <3>2. s2 = InsertSecondEntry(s, e.rest, e.timer)
      BY <2>1 DEF Unwrap
    <3>3. DropEnd(e.rest) = tick_ + e.rest
      BY <1>3, <2>1 DEF EndsAt
    <3> QED
      BY <1>1, <1>3, <1>4, <3>1, <3>2, <3>3, InsertSecondAdds
  <2>2. CASE level = 2
    <3>1. e.rest \in 1 .. kTimingHour
      BY <1>3, <2>2, UnitIs, LengthsAre
    <3>2. s2 = InsertMinuteEntry(s, e.rest, e.timer)
      BY <2>2 DEF Unwrap
    <3>3. DropEnd(e.rest) = MinuteDue(Base(kTmingTypeMinute), e.rest)
      BY <1>3, <2>2 DEF EndsAt, Base
    <3> QED
      BY <1>1, <1>3, <1>4, <3>1, <3>2, <3>3, InsertMinuteAdds
  <2>3. CASE level = 3
    <3>1. e.rest \in 1 .. kTimingDay
      BY <1>3, <2>3, UnitIs, LengthsAre
    <3>2. s2 = InsertHourEntry(s, e.rest, e.timer)
      BY <2>3 DEF Unwrap
    <3>3. DropEnd(e.rest) = HourDue(Base(kTmingTypeHour), e.rest)
      BY <1>3, <2>3 DEF EndsAt, Base
    <3> QED
      BY <1>1, <1>3, <1>4, <3>1, <3>2, <3>3, InsertHourAdds
  <2> QED
    BY <1>3, <2>1, <2>2, <2>3 DEF Wheels
<1> HIDE DEF s2
<1>7. Sound(Here)' /\ \A t \in Timers, x \in Nat : Held(Here, t, x)' <=> Held(s2, t, x)
  BY <1>2, <1>5, <1>6, Settles DEF Adds, clockVars
<1>8. \A t \in Timers, x \in Nat : Held(Here, t, x)' <=> Held(Here, t, x)
  BY <1>4, <1>6, <1>7 DEF Adds
<1>9. last_ts_' \in 0 .. MaxNow /\ behind' \in Nat /\ tick_' = tick_ /\ level' = level
  BY <1>2 DEF clockVars, TypeInv
<1>10. ClockOK' /\ tick_ <= tick_'
  BY <1>1, <1>9 DEF ClockOK
<1>11. ASSUME NEW j \in Wheels PROVE Base(j) <= Base(j)'
  <2>1. Base(j)' = Base(j)
    BY <1>9 DEF Base
  <2> QED
    BY <1>1, <2>1, BaseIs
<1> QED
  BY <1>2, <1>7, <1>8, <1>9, <1>10, <1>11, KeepsIInv

\* What is held after the step is held before it, but for a pointer that is
\* dropped now although the timer has another one, which is dropped later.
LEMMA DropReferenceIInv == ASSUME IInv, NEW e \in dying, DropReference(e) PROVE IInv'
<1> USE DEF IInv
<1> DEFINE s == Without(e)
<1>1. Sound(Here) /\ ClockOK
  BY DEF TypeInv
<1>2. /\ e \in Droppable /\ e.rest = 0 /\ Referenced(e.timer, e) /\ UNCHANGED <<timerVars, clockVars>>
      /\ e.timer \in Timers /\ DropEnd(e.rest) = tick_ /\ tick_ \in Nat
  BY <1>1, DropEndIs DEF Sound, Here, DropReference, DropEnd, ClockOK
<1>3. /\ Sound(s) /\ s.wheels = wheels_ /\ s.dying = dying \ {e}
      /\ \A t \in Timers, x \in Nat :
           Held(Here, t, x) <=> Held(s, t, x) \/ (t = e.timer /\ x = DropEnd(e.rest))
  BY <1>1, WithoutIs
<1>4. Becomes(s)
  BY <1>3 DEF DropReference, Becomes
<1>5. \E y \in Nat : y > tick_ /\ Held(s, e.timer, y)
  <2>1. CASE \E f \in dying \ {e} : f.timer = e.timer
    <3>1. PICK f \in dying \ {e} : f.timer = e.timer
      BY <2>1
    <3>2. f \in Droppable
      BY <1>1 DEF Sound, Here
    <3>3. f.rest # 0
      <4>1. SUFFICES ASSUME f.rest = 0 PROVE f = e
        BY <3>1
      <4>2. f \in [timer : Timers, rest : {0}] \/ \E k \in Wheels : f \in EntriesOf(k)
        BY <3>2 DEF Droppable
      <4>3. e \in [timer : Timers, rest : {0}] \/ \E k \in Wheels : e \in EntriesOf(k)
        BY <1>2 DEF Droppable
      <4>4. f = [timer |-> f.timer, rest |-> f.rest] /\ e = [timer |-> e.timer, rest |-> e.rest]
        BY <4>2, <4>3 DEF EntriesOf
      <4> QED
        BY <1>2, <3>1, <4>1, <4>4
    <3>4. DropEnd(f.rest) \in Nat /\ tick_ < DropEnd(f.rest)
      BY <1>1, <3>2, <3>3, DropEndIs
    <3>5. Held(s, e.timer, DropEnd(f.rest))
      BY <1>3, <3>1 DEF Held, InDying
    <3> QED
      BY <3>4, <3>5
  <2>2. CASE \E k \in Wheels : \E i \in DOMAIN wheels_[k] : \E f \in wheels_[k][i] : f.timer = e.timer
    <3>1. PICK k \in Wheels : \E i \in DOMAIN wheels_[k] : \E f \in wheels_[k][i] : f.timer = e.timer
      BY <2>2
    <3>2. wheels_[k] \in [0 .. Slots(k) - 1 -> SUBSET EntriesOf(k)]
      BY <1>1 DEF Sound, Here, WheelsOK
    <3>3. PICK i \in 0 .. Slots(k) - 1 : \E f \in wheels_[k][i] : f.timer = e.timer
      BY <3>1, <3>2
    <3>4. PICK f \in wheels_[k][i] : f.timer = e.timer
      BY <3>3
    <3>5. f.rest \in Rests(k) /\ i \in Nat
      BY <3>2, <3>3, <3>4, SlotsIs DEF EntriesOf
    <3>6. SlotEnd(k, i, f.rest) \in Nat /\ tick_ < SlotEnd(k, i, f.rest)
      BY <1>1, <3>5, SlotEndIsLater
    <3>7. Held(s, e.timer, SlotEnd(k, i, f.rest))
      BY <1>3, <3>1, <3>3, <3>4 DEF Held, InWheels
    <3> QED
      BY <3>6, <3>7
  <2> QED
    BY <1>2, <2>1, <2>2 DEF Referenced
<1> HIDE DEF s
<1>6. Sound(Here)' /\ \A t \in Timers, x \in Nat : Held(Here, t, x)' <=> Held(s, t, x)
  BY <1>2, <1>3, <1>4, Settles DEF clockVars
<1>7. TypeInv'
  BY <1>2, <1>6 DEF TypeInv, ClockOK, timerVars, clockVars
<1>8. \A t \in Timers : (Active(t)' <=> Active(t)) /\ due'[t] = due[t] /\ delay'[t] = delay[t]
  BY <1>2 DEF Active, timerVars
<1>9. LiveInv'
  BY <1>3, <1>6, <1>8 DEF LiveInv
<1>10. ASSUME NEW t \in Timers, NEW x \in Nat, NEW d \in Nat, Active(t)', due'[t] = x, delay'[t] = d
       PROVE  /\ Held(Here, t, x)' /\ (\A y \in Nat : Held(Here, t, y)' => y <= x)
              /\ x <= Due(d)'
  <2>1. Active(t) /\ due[t] = x /\ delay[t] = d
    BY <1>8, <1>10
  <2>2. Held(Here, t, x) /\ (\A y \in Nat : Held(Here, t, y) => y <= x) /\ x <= Due(d)
    BY <2>1 DEF DueInv
  <2>3. Held(s, t, x)
    BY <1>2, <1>3, <1>5, <2>2
  <2>4. Due(d)' = Due(d)
    BY <1>2 DEF Due, Base, clockVars
  <2> QED
    BY <1>3, <1>6, <2>2, <2>3, <2>4
<1>11. DueInv'
  BY <1>10 DEF DueInv
<1>12. NearInv'
  BY <1>2, <1>8 DEF NearInv, timerVars, Refused, AtLeastOne, Early, Late
<1> QED
  BY <1>7, <1>9, <1>11, <1>12
-----------------------------------------------------------------------------
(* How near Due is to the delay.                                           *)

\* What an entry of a slower wheel waits for, in whole units and the rest.
LEMMA WholeUnits ==
  ASSUME NEW d \in Nat \ {0}, NEW u \in Nat \ {0}
  PROVE  /\ AtLeastOne(d \div u) \in Nat /\ AtLeastOne(d % u) \in Nat \ {0}
         /\ AtLeastOne(d \div u) * u + AtLeastOne(d % u) \in d .. d + u
         /\ u <= d => AtLeastOne(d \div u) * u + AtLeastOne(d % u) \in d .. d + 1
<1> DEFINE q == d \div u
           r == d % u
<1>1. q \in Nat /\ r \in 0 .. u - 1 /\ d = q * u + r
  BY Division
<1> HIDE DEF q, r
<1>2. CASE q = 0
  <2>1. d = r /\ d < u
    BY <1>1, <1>2
  <2> QED
    BY <1>2, <2>1 DEF AtLeastOne, q, r
<1>3. CASE q # 0
  <2>1. AtLeastOne(q) = q /\ AtLeastOne(r) \in r .. r + 1 /\ AtLeastOne(r) \in Nat \ {0}
    BY <1>1, <1>3 DEF AtLeastOne
  <2>2. q * u \in Nat
    BY <1>1
  <2>3. q * u + AtLeastOne(r) \in d .. d + 1
    BY <1>1, <2>1, <2>2
  <2>4. d + 1 <= d + u
    OBVIOUS
  <2> QED
    BY <1>1, <2>1, <2>3, <2>4 DEF q, r
<1> QED
  BY <1>2, <1>3

\* The tick of a PopUp, from the tick before it at which the wheel turned.
LEMMA PopUpTick ==
  ASSUME NEW k \in Wheels, NEW b \in Nat, NEW n \in Nat
  PROVE  /\ NthPopUp(k, b, n) = (b \div Unit(k)) * Unit(k) + n * Unit(k)
         /\ (b \div Unit(k)) * Unit(k) \in b - (Unit(k) - 1) .. b
<1> DEFINE u == Unit(k)
<1>1. u \in Nat \ {0}
  BY UnitIs
<1>2. b \div u \in Nat /\ b % u \in 0 .. u - 1 /\ b = (b \div u) * u + (b % u)
  BY <1>1, Division
<1>3. ((b \div u) + n) * u = (b \div u) * u + n * u
  BY <1>1, <1>2
<1>4. (b \div u) * u \in Nat
  BY <1>1, <1>2
<1>5. NthPopUp(k, b, n) = (b \div u) * u + n * u
  BY <1>3 DEF NthPopUp
<1> DEFINE a == (b \div u) * u
<1>6. a \in Nat /\ b % u \in 0 .. u - 1 /\ b = a + (b % u)
  BY <1>2, <1>4
<1> HIDE DEF a
<1>7. a \in b - (u - 1) .. b
  BY <1>1, <1>6
<1> QED
  BY <1>5, <1>7 DEF a

LEMMA UnitsAre ==
  /\ kTmingTypeMinute \in Wheels /\ Unit(kTmingTypeMinute) = kTimingMinute
  /\ kTmingTypeHour \in Wheels /\ Unit(kTmingTypeHour) = kTimingHour
  /\ kTmingTypeDay \in Wheels /\ Unit(kTmingTypeDay) = kTimingDay
  BY UnitIs DEF kTmingTypeMinute, kTmingTypeHour, kTmingTypeDay, Wheels

\* The base of the rest that a wrapper of the next slower wheel leaves.
LEMMA WholeDivisions ==
  ASSUME NEW n \in Nat
  PROVE  /\ n * kTimingHour \in Nat
         /\ ((n * kTimingHour) \div kTimingMinute) * kTimingMinute = n * kTimingHour
         /\ n * kTimingDay \in Nat
         /\ ((n * kTimingDay) \div kTimingHour) * kTimingHour = n * kTimingDay
<1>1. kTimingHour % kTimingMinute = 0 /\ kTimingDay % kTimingHour = 0
  BY ConstantAssumption
<1>2. ((n * kTimingHour) \div kTimingMinute) * kTimingMinute = n * kTimingHour
  BY <1>1, LengthsAre, MultipleOfMultiple
<1>3. ((n * kTimingDay) \div kTimingHour) * kTimingHour = n * kTimingDay
  BY <1>1, LengthsAre, MultipleOfMultiple
<1>4. n * kTimingHour \in Nat /\ n * kTimingDay \in Nat
  BY LengthsAre
<1> QED
  BY <1>2, <1>3, <1>4

LEMMA MinuteNear ==
  ASSUME NEW b \in Nat, NEW d \in Nat, kTimingMinute <= d
  PROVE  MinuteDue(b, d) \in (b + d) - (kTimingMinute - 1) .. b + d + 1
<1> DEFINE q == AtLeastOne(d \div kTimingMinute)
           r == AtLeastOne(d % kTimingMinute)
           a == (b \div kTimingMinute) * kTimingMinute
           c == q * kTimingMinute
<1>1. q \in Nat /\ r \in Nat \ {0} /\ c + r \in d .. d + 1
  <2>1. d \in Nat \ {0} /\ kTimingMinute \in Nat \ {0}
    BY LengthsAre
  <2> QED
    BY <2>1, WholeUnits
<1>2. NthPopUp(kTmingTypeMinute, b, q) = a + c /\ a \in b - (kTimingMinute - 1) .. b
  BY <1>1, PopUpTick, UnitsAre
<1>3. c \in Nat
  BY <1>1, LengthsAre
<1>4. MinuteDue(b, d) = (a + c) + r
  BY <1>2 DEF MinuteDue
<1> HIDE DEF q, r, a, c
<1> QED
  BY <1>1, <1>2, <1>3, <1>4, LengthsAre

\* The rest that a wrapper of the hour wheel leaves, when it is dropped.
LEMMA MinuteOnTheHour ==
  ASSUME NEW n \in Nat, NEW d \in Nat \ {0}
  PROVE  MinuteDue(n * kTimingHour, d) \in n * kTimingHour + d .. n * kTimingHour + d + kTimingMinute
<1> DEFINE b == n * kTimingHour
           q == AtLeastOne(d \div kTimingMinute)
           r == AtLeastOne(d % kTimingMinute)
           c == q * kTimingMinute
<1>1. q \in Nat /\ r \in Nat \ {0} /\ c + r \in d .. d + kTimingMinute
  <2>1. kTimingMinute \in Nat \ {0}
    BY LengthsAre
  <2> QED
    BY <2>1, WholeUnits
<1>2. b \in Nat /\ (b \div kTimingMinute) * kTimingMinute = b
  BY WholeDivisions
<1> HIDE DEF b
<1>3. NthPopUp(kTmingTypeMinute, b, q) = b + c
  BY <1>1, <1>2, PopUpTick, UnitsAre
<1>4. c \in Nat
  BY <1>1, LengthsAre
<1>5. MinuteDue(b, d) = (b + c) + r
  BY <1>3 DEF MinuteDue
<1> HIDE DEF q, r, c
<1>6. MinuteDue(b, d) \in b + d .. b + d + kTimingMinute
  BY <1>1, <1>2, <1>4, <1>5, LengthsAre
<1> QED
  BY <1>6 DEF b

LEMMA HourNear ==
  ASSUME NEW b \in Nat, NEW d \in Nat, kTimingHour <= d
  PROVE  HourDue(b, d) \in (b + d) - (kTimingHour - 1) .. b + d + 1 + kTimingMinute
<1> DEFINE q == AtLeastOne(d \div kTimingHour)
           r == AtLeastOne(d % kTimingHour)
           n == (b \div kTimingHour) + q
           a == (b \div kTimingHour) * kTimingHour
           c == q * kTimingHour
<1>1. q \in Nat /\ r \in Nat \ {0} /\ c + r \in d .. d + 1
  <2>1. d \in Nat \ {0} /\ kTimingHour \in Nat \ {0}
    BY LengthsAre
  <2> QED
    BY <2>1, WholeUnits
<1>2. NthPopUp(kTmingTypeHour, b, q) = a + c /\ a \in b - (kTimingHour - 1) .. b
  BY <1>1, PopUpTick, UnitsAre
<1>3. c \in Nat /\ n \in Nat
  <2>1. b \div kTimingHour \in Nat
    BY LengthsAre, Division
  <2> QED
    BY <1>1, <2>1, LengthsAre
<1>4. NthPopUp(kTmingTypeHour, b, q) = n * kTimingHour
  BY UnitsAre DEF NthPopUp
<1>5. HourDue(b, d) = MinuteDue(n * kTimingHour, r)
  BY <1>4 DEF HourDue
<1> HIDE DEF q, r, n, a, c
<1>6. MinuteDue(n * kTimingHour, r) \in n * kTimingHour + r .. n * kTimingHour + r + kTimingMinute
  BY <1>1, <1>3, MinuteOnTheHour
<1>7. HourDue(b, d) \in (a + c) + r .. (a + c) + r + kTimingMinute
  BY <1>2, <1>4, <1>5, <1>6
<1> QED
  BY <1>1, <1>2, <1>3, <1>7, LengthsAre

\* The rest that a wrapper of the day wheel leaves, when it is dropped.
LEMMA HourOnTheDay ==
  ASSUME NEW n \in Nat, NEW d \in Nat \ {0}
  PROVE  HourDue(n * kTimingDay, d) \in
           n * kTimingDay + d .. n * kTimingDay + d + kTimingHour + kTimingMinute
<1> DEFINE b == n * kTimingDay
           q == AtLeastOne(d \div kTimingHour)
           r == AtLeastOne(d % kTimingHour)
           m == (b \div kTimingHour) + q
           c == q * kTimingHour
<1>1. q \in Nat /\ r \in Nat \ {0} /\ c + r \in d .. d + kTimingHour
  <2>1. kTimingHour \in Nat \ {0}
    BY LengthsAre
  <2> QED
    BY <2>1, WholeUnits
<1>2. b \in Nat /\ (b \div kTimingHour) * kTimingHour = b
  BY WholeDivisions
<1> HIDE DEF b
<1>3. NthPopUp(kTmingTypeHour, b, q) = b + c
  BY <1>1, <1>2, PopUpTick, UnitsAre
<1>4. c \in Nat /\ m \in Nat
  <2>1. b \div kTimingHour \in Nat
    BY <1>2, LengthsAre, Division
  <2> QED
    BY <1>1, <2>1, LengthsAre
<1>5. NthPopUp(kTmingTypeHour, b, q) = m * kTimingHour
  BY UnitsAre DEF NthPopUp
<1>6. HourDue(b, d) = MinuteDue(m * kTimingHour, r)
  BY <1>5 DEF HourDue
<1> HIDE DEF q, r, m, c
<1>7. MinuteDue(m * kTimingHour, r) \in m * kTimingHour + r .. m * kTimingHour + r + kTimingMinute
  BY <1>1, <1>4, MinuteOnTheHour
<1>8. HourDue(b, d) \in (b + c) + r .. (b + c) + r + kTimingMinute
  BY <1>3, <1>5, <1>6, <1>7
<1>9. HourDue(b, d) \in b + d .. b + d + kTimingHour + kTimingMinute
  BY <1>1, <1>2, <1>4, <1>8, LengthsAre
<1> QED
  BY <1>9 DEF b

LEMMA DayNear ==
  ASSUME NEW b \in Nat, NEW d \in Nat, kTimingDay <= d
  PROVE  DayDue(b, d) \in (b + d) - (kTimingDay - 1) .. b + d + 1 + kTimingHour + kTimingMinute
<1> DEFINE q == AtLeastOne(d \div kTimingDay)
           r == AtLeastOne(d % kTimingDay)
           n == (b \div kTimingDay) + q
           a == (b \div kTimingDay) * kTimingDay
           c == q * kTimingDay
<1>1. q \in Nat /\ r \in Nat \ {0} /\ c + r \in d .. d + 1
  <2>1. d \in Nat \ {0} /\ kTimingDay \in Nat \ {0}
    BY LengthsAre
  <2> QED
    BY <2>1, WholeUnits
<1>2. NthPopUp(kTmingTypeDay, b, q) = a + c /\ a \in b - (kTimingDay - 1) .. b
  BY <1>1, PopUpTick, UnitsAre
<1>3. c \in Nat /\ n \in Nat
  <2>1. b \div kTimingDay \in Nat
    BY LengthsAre, Division
  <2> QED
    BY <1>1, <2>1, LengthsAre
<1>4. NthPopUp(kTmingTypeDay, b, q) = n * kTimingDay
  BY UnitsAre DEF NthPopUp
<1>5. DayDue(b, d) = HourDue(n * kTimingDay, r)
  BY <1>4 DEF DayDue
<1> HIDE DEF q, r, n, a, c
<1>6. HourDue(n * kTimingDay, r) \in
        n * kTimingDay + r .. n * kTimingDay + r + kTimingHour + kTimingMinute
  BY <1>1, <1>3, HourOnTheDay
<1>7. DayDue(b, d) \in (a + c) + r .. (a + c) + r + kTimingHour + kTimingMinute
  BY <1>2, <1>4, <1>5, <1>6
<1> QED
  BY <1>1, <1>2, <1>3, <1>7, LengthsAre

(***************************************************************************)
(* How wrong the wheels are at most, for every delay that is not refused.  *)
(***************************************************************************)
LEMMA DueIsNear ==
  ASSUME ClockOK, NEW d \in Nat, ~ Refused(d)
  PROVE  Due(d) \in (tick_ + AtLeastOne(d)) - Early(d) .. (tick_ + AtLeastOne(d)) + Late(d)
<1>1. tick_ \in Nat
  BY DEF ClockOK
<1>2. CASE d < kTimingMinute
  <2>1. AtLeastOne(d) < kTimingMinute /\ AtLeastOne(d) \in Nat
    BY <1>2, LengthsAre DEF AtLeastOne
  <2>2. Due(d) = tick_ + AtLeastOne(d)
    BY <1>2, LengthsAre DEF Due
  <2>3. Early(d) = 0 /\ Late(d) = 0
    BY <1>2, <2>1, LengthsAre DEF Early, Late
  <2> QED
    BY <1>1, <2>1, <2>2, <2>3
<1>3. CASE kTimingMinute <= d /\ d < kTimingHour
  <2>1. AtLeastOne(d) = d
    BY <1>3, LengthsAre DEF AtLeastOne
  <2>2. Due(d) = MinuteDue(Base(kTmingTypeMinute), d)
    BY <1>3, LengthsAre DEF Due
  <2>3. Early(d) = kTimingMinute /\ Late(d) = 1
    BY <1>3, <2>1, LengthsAre DEF Early, Late
  <2>4. Base(kTmingTypeMinute) \in Nat /\ Base(kTmingTypeMinute) \in tick_ - 1 .. tick_
    BY <1>1, BaseIs DEF Wheels, kTmingTypeMinute
  <2> DEFINE b == Base(kTmingTypeMinute)
  <2>5. MinuteDue(b, d) \in (b + d) - (kTimingMinute - 1) .. b + d + 1
    BY <1>3, <2>4, MinuteNear
  <2> HIDE DEF b
  <2> QED
    BY <1>1, <2>1, <2>2, <2>3, <2>4, <2>5, LengthsAre DEF b
<1>4. CASE kTimingHour <= d /\ d < kTimingDay
  <2>1. AtLeastOne(d) = d
    BY <1>4, LengthsAre DEF AtLeastOne
  <2>2. Due(d) = HourDue(Base(kTmingTypeHour), d)
    BY <1>4, LengthsAre DEF Due
  <2>3. Early(d) = kTimingHour /\ Late(d) = kTimingMinute + 1
    BY <1>4, <2>1, LengthsAre DEF Early, Late
  <2>4. Base(kTmingTypeHour) \in Nat /\ Base(kTmingTypeHour) \in tick_ - 1 .. tick_
    BY <1>1, BaseIs DEF Wheels, kTmingTypeHour
  <2> DEFINE b == Base(kTmingTypeHour)
  <2>5. HourDue(b, d) \in (b + d) - (kTimingHour - 1) .. b + d + 1 + kTimingMinute
    BY <1>4, <2>4, HourNear
  <2> HIDE DEF b
  <2> QED
    BY <1>1, <2>1, <2>2, <2>3, <2>4, <2>5, LengthsAre DEF b
<1>5. CASE kTimingDay <= d
  <2>1. AtLeastOne(d) = d
    BY <1>5, LengthsAre DEF AtLeastOne
  <2>2. Due(d) = DayDue(Base(kTmingTypeDay), d)
    BY <1>5, LengthsAre DEF Due
  <2>3. Early(d) = kTimingDay /\ Late(d) = kTimingHour + kTimingMinute + 1
    BY <1>5, <2>1, LengthsAre DEF Early, Late
  <2>4. Base(kTmingTypeDay) \in Nat /\ Base(kTmingTypeDay) \in tick_ - 1 .. tick_
    BY <1>1, BaseIs DEF Wheels, kTmingTypeDay
  <2> DEFINE b == Base(kTmingTypeDay)
  <2>5. DayDue(b, d) \in (b + d) - (kTimingDay - 1) .. b + d + 1 + kTimingHour + kTimingMinute
    BY <1>5, <2>4, DayNear
  <2> HIDE DEF b
  <2> QED
    BY <1>1, <2>1, <2>2, <2>3, <2>4, <2>5, LengthsAre DEF b
<1> QED
  BY <1>2, <1>3, <1>4, <1>5, LengthsAre
-----------------------------------------------------------------------------
(* Timers that start or start again.                                       *)

\* What a handler that starts the timers S does, when s is what it leaves of
\* the pointers there are: one new pointer for each, that outlives the others.
LEMMA ArmIInv ==
  ASSUME IInv, TypeInv', UNCHANGED <<tick_, level>>, NEW s, NEW S \in SUBSET Timers,
         \A v \in Timers, y \in Nat :
           Held(Here, v, y)' <=> Held(s, v, y) \/ (v \in S /\ y = Due(delay'[v])),
         \A v \in S : /\ Active(v)' /\ armed'[v] = tick_ /\ due'[v] = Due(delay'[v])
                      /\ \A y \in Nat : Held(s, v, y) => y <= Due(delay'[v]),
         \A v \in Timers \ S :
           /\ armed'[v] = armed[v] /\ due'[v] = due[v] /\ delay'[v] = delay[v]
           /\ Active(v)' => Active(v) /\ \A y \in Nat : Held(s, v, y) <=> Held(Here, v, y)
           /\ \A y \in Nat : Held(s, v, y) => Active(v)'
  PROVE  IInv'
<1> USE DEF IInv
<1>1. LiveInv'
  <2> SUFFICES ASSUME NEW v \in Timers, NEW y \in Nat, Held(Here, v, y)' PROVE Active(v)'
    BY DEF LiveInv
  <2> QED
    OBVIOUS
<1>2. ASSUME NEW v \in Timers, NEW x \in Nat, NEW d \in Nat, Active(v)', due'[v] = x, delay'[v] = d
      PROVE  /\ Held(Here, v, x)' /\ (\A y \in Nat : Held(Here, v, y)' => y <= x)
             /\ x <= Due(d)'
  <2>1. Due(d)' = Due(d)
    BY DEF Due, Base
  <2>2. CASE v \in S
    <3>1. x = Due(d)
      BY <1>2, <2>2
    <3> QED
      BY <1>2, <2>1, <2>2, <3>1
  <2>3. CASE v \notin S
    <3>1. Active(v) /\ due[v] = x /\ delay[v] = d
      BY <1>2, <2>3
    <3>2. Held(Here, v, x) /\ (\A y \in Nat : Held(Here, v, y) => y <= x) /\ x <= Due(d)
      BY <3>1 DEF DueInv
    <3> QED
      BY <1>2, <2>1, <2>3, <3>2
  <2> QED
    BY <2>2, <2>3
<1>3. DueInv'
  BY <1>2 DEF DueInv
<1>4. ASSUME NEW v \in Timers, Active(v)', NEW d \in Nat, delay'[v] = d, ~ Refused(d)
      PROVE  due'[v] \in (armed'[v] + AtLeastOne(d)) - Early(d) .. (armed'[v] + AtLeastOne(d)) + Late(d)
  <2>1. CASE v \in S
    <3>1. due'[v] = Due(d) /\ armed'[v] = tick_
      BY <1>4, <2>1
    <3>2. ClockOK
      BY DEF TypeInv
    <3> QED
      BY <1>4, <3>1, <3>2, DueIsNear
  <2>2. CASE v \notin S
    <3>1. Active(v) /\ delay[v] = d /\ due'[v] = due[v] /\ armed'[v] = armed[v]
      BY <1>4, <2>2
    <3> QED
      BY <1>4, <3>1 DEF NearInv
  <2> QED
    BY <2>1, <2>2
<1>5. NearInv'
  <2> SUFFICES ASSUME NEW v \in Timers, Active(v)', ~ Refused(delay'[v])
               PROVE  due'[v] \in (armed'[v] + AtLeastOne(delay'[v])) - Early(delay'[v])
                                    .. (armed'[v] + AtLeastOne(delay'[v])) + Late(delay'[v])
    BY DEF NearInv, Refused, Early, Late, AtLeastOne
  <2>1. delay'[v] \in Nat
    <3>1. Delays \cup {0} \subseteq Nat
      BY ConstantAssumption
    <3> QED
      BY <3>1 DEF TypeInv
  <2> QED
    BY <1>4, <2>1
<1> QED
  BY <1>1, <1>3, <1>5

LEMMA StartIInv ==
  ASSUME IInv, NEW t \in Timers, NEW k \in Kinds, NEW d \in Delays, Start(t, k, d)
  PROVE  IInv'
<1> USE DEF IInv
<1> DEFINE s2 == InsertEntry(Here, d, t)
<1>1. Sound(Here) /\ ClockOK /\ d \in Nat /\ k \in AllKinds
  BY ConstantAssumption DEF TypeInv
<1>2. Adds(Here, s2, t, Due(d)) /\ Due(d) \in Nat
  BY <1>1, InsertEntryAdds
<1>3. UNCHANGED clockVars /\ fired' = fired /\ kind[t] = "none" /\ Becomes(s2)
      /\ kind' = [kind EXCEPT ![t] = k] /\ delay' = [delay EXCEPT ![t] = d]
      /\ armed' = [armed EXCEPT ![t] = tick_] /\ due' = [due EXCEPT ![t] = Due(d)]
  BY DEF Start
<1> HIDE DEF s2
<1>4. Sound(Here)' /\ \A v \in Timers, y \in Nat : Held(Here, v, y)' <=> Held(s2, v, y)
  BY <1>2, <1>3, Settles DEF Adds, clockVars
<1>5. TypeInv'
  <2>1. ClockOK' /\ last_ts_' \in 0 .. MaxNow /\ behind' \in Nat /\ tick_ \in Nat
    BY <1>1, <1>3 DEF ClockOK, clockVars, TypeInv
  <2> QED
    BY <1>1, <1>2, <1>3, <1>4, <2>1 DEF TypeInv
<1>6. delay'[t] = d /\ armed'[t] = tick_ /\ due'[t] = Due(d) /\ kind'[t] = k
  BY <1>3 DEF TypeInv
<1>7. \A v \in Timers \ {t} :
        armed'[v] = armed[v] /\ due'[v] = due[v] /\ delay'[v] = delay[v] /\ kind'[v] = kind[v]
  BY <1>3 DEF TypeInv
<1>8. \A y \in Nat : ~ Held(Here, t, y)
  BY <1>3 DEF LiveInv, Active, AllKinds
<1>9. \A v \in Timers, y \in Nat :
        Held(Here, v, y)' <=> Held(Here, v, y) \/ (v \in {t} /\ y = Due(delay'[v]))
  BY <1>2, <1>4, <1>6 DEF Adds
<1>10. Active(t)'
  BY <1>1, <1>6 DEF Active
<1>11. \A v \in Timers \ {t} : (Active(v)' <=> Active(v)) /\ \A y \in Nat : Held(Here, v, y) => Active(v)
  BY <1>7 DEF Active, LiveInv
<1> QED
  <2>1. UNCHANGED <<tick_, level>>
    BY <1>3 DEF clockVars
  <2>2. \A v \in {t} : /\ Active(v)' /\ armed'[v] = tick_ /\ due'[v] = Due(delay'[v])
                       /\ \A y \in Nat : Held(Here, v, y) => y <= Due(delay'[v])
    BY <1>6, <1>8, <1>10
  <2>3. \A v \in Timers \ {t} :
           /\ armed'[v] = armed[v] /\ due'[v] = due[v] /\ delay'[v] = delay[v]
           /\ Active(v)' => Active(v) /\ \A y \in Nat : Held(Here, v, y) <=> Held(Here, v, y)
           /\ \A y \in Nat : Held(Here, v, y) => Active(v)'
    BY <1>7, <1>11
  <2>4. {t} \in SUBSET Timers
    OBVIOUS
  <2> DEFINE S == {t}
  <2> HIDE DEF IInv, S
  <2> QED
    BY <1>5, <1>9, <2>1, <2>2, <2>3, <2>4, ArmIInv DEF S

LEMMA ExtendLifeIInv == ASSUME IInv, NEW t \in Timers, ExtendLife(t) PROVE IInv'
<1> USE DEF IInv
<1> DEFINE d == delay[t]
           s2 == InsertEntry(Here, d, t)
<1>1. Sound(Here) /\ ClockOK /\ d \in Nat
  BY DelaysAre DEF TypeInv
<1>2. Adds(Here, s2, t, Due(d)) /\ Due(d) \in Nat
  BY <1>1, InsertEntryAdds
<1>3. UNCHANGED <<kind, delay, fired, clockVars>> /\ kind[t] = "entry" /\ Becomes(s2)
      /\ armed' = [armed EXCEPT ![t] = tick_] /\ due' = [due EXCEPT ![t] = Due(d)]
  BY DEF ExtendLife
<1> HIDE DEF s2, d
<1>4. Sound(Here)' /\ \A v \in Timers, y \in Nat : Held(Here, v, y)' <=> Held(s2, v, y)
  BY <1>2, <1>3, Settles DEF Adds, clockVars
<1>5. TypeInv'
  <2>1. ClockOK' /\ last_ts_' \in 0 .. MaxNow /\ behind' \in Nat /\ tick_ \in Nat
    BY <1>1, <1>3 DEF ClockOK, clockVars, TypeInv
  <2> QED
    BY <1>2, <1>3, <1>4, <2>1 DEF TypeInv
<1>6. delay'[t] = d /\ armed'[t] = tick_ /\ due'[t] = Due(d)
  BY <1>3 DEF TypeInv, d
<1>7. \A v \in Timers \ {t} : armed'[v] = armed[v] /\ due'[v] = due[v]
  BY <1>3 DEF TypeInv
<1>8. (\A v \in Timers : Active(v)' <=> Active(v)) /\ Active(t)
  BY <1>3 DEF Active, AllKinds
<1>9. \A v \in Timers, y \in Nat :
        Held(Here, v, y)' <=> Held(Here, v, y) \/ (v \in {t} /\ y = Due(delay'[v]))
  BY <1>2, <1>4, <1>6 DEF Adds
<1>10. \A y \in Nat : Held(Here, t, y) => y <= Due(d)
  <2>1. due[t] \in Nat
    BY DEF TypeInv
  <2>2. (\A y \in Nat : Held(Here, t, y) => y <= due[t]) /\ due[t] <= Due(d)
    BY <1>1, <1>8, <2>1 DEF DueInv, d
  <2> QED
    BY <1>2, <2>1, <2>2
<1>11. \A v \in Timers : \A y \in Nat : Held(Here, v, y) => Active(v)
  BY DEF LiveInv
<1> QED
  <2>1. UNCHANGED <<tick_, level>>
    BY <1>3 DEF clockVars
  <2>2. \A v \in {t} : /\ Active(v)' /\ armed'[v] = tick_ /\ due'[v] = Due(delay'[v])
                       /\ \A y \in Nat : Held(Here, v, y) => y <= Due(delay'[v])
    BY <1>6, <1>8, <1>10
  <2>3. \A v \in Timers \ {t} :
           /\ armed'[v] = armed[v] /\ due'[v] = due[v] /\ delay'[v] = delay[v]
           /\ Active(v)' => Active(v) /\ \A y \in Nat : Held(Here, v, y) <=> Held(Here, v, y)
           /\ \A y \in Nat : Held(Here, v, y) => Active(v)'
    BY <1>3, <1>7, <1>8, <1>11
  <2>4. {t} \in SUBSET Timers
    OBVIOUS
  <2> DEFINE S == {t}
  <2> HIDE DEF IInv, S
  <2> QED
    BY <1>5, <1>9, <2>1, <2>2, <2>3, <2>4, ArmIInv DEF S
-----------------------------------------------------------------------------
(* A timer fires.                                                          *)

\* The pointer that is dropped is the last one, and goes now.
LEMMA LastPointer ==
  ASSUME IInv, NEW e \in dying, e.rest = 0, ~ Referenced(e.timer, e)
  PROVE  /\ e.timer \in Timers /\ Active(e.timer) /\ due[e.timer] = tick_
         /\ \A y \in Nat : ~ Held(Without(e), e.timer, y)
         /\ \A v \in Timers \ {e.timer} : \A y \in Nat : Held(Without(e), v, y) <=> Held(Here, v, y)
<1> USE DEF IInv
<1> DEFINE s == Without(e)
           t == e.timer
<1>1. Sound(Here) /\ ClockOK
  BY DEF TypeInv
<1>2. t \in Timers /\ DropEnd(e.rest) = tick_ /\ tick_ \in Nat
  BY <1>1, DropEndIs DEF Sound, Here, DropEnd, ClockOK
<1>3. /\ s.wheels = wheels_ /\ s.dying = dying \ {e}
      /\ \A v \in Timers, x \in Nat :
           Held(Here, v, x) <=> Held(s, v, x) \/ (v = t /\ x = DropEnd(e.rest))
  BY <1>1, WithoutIs
<1> HIDE DEF s
<1>4. \A k \in Wheels : DOMAIN wheels_[k] = 0 .. Slots(k) - 1
  BY <1>1 DEF Sound, Here, WheelsOK
<1>5. ASSUME NEW y \in Nat PROVE ~ Held(s, t, y)
  <2>1. ~ InDying(s.dying, t, y)
    BY <1>3 DEF InDying, Referenced
  <2>2. ~ InWheels(s.wheels, t, y)
    BY <1>3, <1>4 DEF InWheels, Referenced
  <2> QED
    BY <2>1, <2>2 DEF Held
<1>6. Active(t)
  BY <1>2, <1>3 DEF LiveInv
<1>7. due[t] = tick_
  <2>1. due[t] \in Nat /\ delay[t] \in Nat
    BY <1>2, DelaysAre DEF TypeInv
  <2>2. Held(Here, t, due[t])
    BY <1>2, <1>6, <2>1 DEF DueInv
  <2> QED
    BY <1>2, <1>3, <1>5, <2>1, <2>2
<1> QED
  BY <1>2, <1>3, <1>5, <1>6, <1>7 DEF s

\* The timers that a callback and RunEvery start.
Started(t, u) == ({u} \cap Timers) \cup (IF kind[t] = "every" THEN {t} ELSE {})

LEMMA FireIInv ==
  ASSUME IInv, NEW e \in dying, NEW u, NEW k \in AllKinds, NEW d \in Delays \cup {0}, Fire(e, u, k, d)
  PROVE  IInv'
<1> USE DEF IInv
<1> DEFINE t  == e.timer
           s0 == Without(e)
           s1 == IF u = NoTimer THEN s0 ELSE InsertEntry(s0, d, u)
           s2 == IF kind[t] = "every" THEN InsertEntry(s1, delay[t], t) ELSE s1
           S  == Started(t, u)
<1>1. /\ t \in Timers /\ Active(t) /\ due[t] = tick_
      /\ \A y \in Nat : ~ Held(s0, t, y)
      /\ \A v \in Timers \ {t} : \A y \in Nat : Held(s0, v, y) <=> Held(Here, v, y)
  BY LastPointer DEF Fire
<1>2. Sound(Here) /\ ClockOK /\ tick_ \in Nat /\ Sound(s0)
  BY WithoutIs DEF TypeInv, ClockOK
<1>3. u = NoTimer \/ (u \in Timers /\ kind[u] = "none" /\ u # t)
  BY <1>1 DEF Fire, Active, AllKinds
<1>4. NoTimer \notin Timers
  BY ConstantAssumption
<1>5. d \in Nat /\ delay[t] \in Nat
  <2>1. Delays \cup {0} \subseteq Nat
    BY ConstantAssumption
  <2> QED
    BY <1>1, <2>1, DelaysAre
<1>6. Becomes(s2)
  BY DEF Fire, Without
<1>7. /\ fired' = [fired EXCEPT ![t] = @ + 1]
      /\ kind'  = [v \in Timers |-> CASE v = u -> k
                                      [] v = t /\ kind[t] # "every" -> "over"
                                      [] OTHER -> kind[v]]
      /\ delay' = [v \in Timers |-> IF v = u THEN d ELSE delay[v]]
      /\ armed' = [v \in Timers |-> IF v \in S THEN tick_ ELSE armed[v]]
      /\ due'   = [v \in Timers |-> IF v \in S THEN Due(delay'[v]) ELSE due[v]]
      /\ UNCHANGED clockVars
  BY DEF Fire, Started
<1> HIDE DEF s0
<1>8. /\ Sound(s1)
      /\ \A v \in Timers, y \in Nat : Held(s1, v, y) <=> Held(s0, v, y) \/ (v = u /\ y = Due(d))
  <2>1. CASE u = NoTimer
    BY <1>2, <1>4, <2>1
  <2>2. CASE u \in Timers
    <3>1. s1 = InsertEntry(s0, d, u)
      BY <1>4, <2>2
    <3> QED
      BY <1>2, <1>5, <2>2, <3>1, InsertEntryAdds DEF Adds
  <2> QED
    BY <1>3, <2>1, <2>2
<1> HIDE DEF s1
<1>9. /\ Sound(s2)
      /\ \A v \in Timers, y \in Nat :
           Held(s2, v, y) <=> Held(s1, v, y) \/ (v = t /\ kind[t] = "every" /\ y = Due(delay[t]))
  <2>1. CASE kind[t] = "every"
    <3>1. s2 = InsertEntry(s1, delay[t], t)
      BY <2>1
    <3>2. Adds(s1, s2, t, Due(delay[t]))
      BY <1>1, <1>2, <1>5, <1>8, <3>1, InsertEntryAdds
    <3> HIDE DEF s2, t
    <3> QED
      BY <2>1, <3>2 DEF Adds
  <2>2. CASE kind[t] # "every"
    BY <1>8, <2>2
  <2> QED
    BY <2>1, <2>2
<1> HIDE DEF s2
<1>10. Sound(Here)' /\ \A v \in Timers, y \in Nat : Held(Here, v, y)' <=> Held(s2, v, y)
  BY <1>6, <1>7, <1>9, Settles DEF clockVars
<1>11. S \in SUBSET Timers /\ \A v \in Timers : v \in S <=> v = u \/ (v = t /\ kind[t] = "every")
  BY <1>1 DEF Started
<1> HIDE DEF S, t
<1>12. \A v \in Timers : delay'[v] = IF v = u THEN d ELSE delay[v]
  BY <1>7
<1>13. \A v \in Timers, y \in Nat :
         Held(Here, v, y)' <=> Held(s0, v, y) \/ (v \in S /\ y = Due(delay'[v]))
  <2> SUFFICES ASSUME NEW v \in Timers, NEW y \in Nat
               PROVE  Held(Here, v, y)' <=> Held(s0, v, y) \/ (v \in S /\ y = Due(delay'[v]))
    OBVIOUS
  <2>1. Held(Here, v, y)' <=>
          \/ Held(s0, v, y)
          \/ v = u /\ y = Due(d)
          \/ v = t /\ kind[t] = "every" /\ y = Due(delay[t])
    <3>1. Held(Here, v, y)' <=> Held(s2, v, y)
      BY <1>10
    <3>2. Held(s2, v, y) <=> Held(s1, v, y) \/ (v = t /\ kind[t] = "every" /\ y = Due(delay[t]))
      BY <1>9
    <3>3. Held(s1, v, y) <=> Held(s0, v, y) \/ (v = u /\ y = Due(d))
      BY <1>8
    <3> QED
      BY <3>1, <3>2, <3>3
  <2>2. v = u => Due(delay'[v]) = Due(d)
    BY <1>12
  <2>3. v = t => Due(delay'[v]) = Due(delay[t])
    BY <1>1, <1>3, <1>4, <1>12
  <2> QED
    BY <1>11, <2>1, <2>2, <2>3
<1>14. \A v \in Timers : delay'[v] \in Nat /\ Due(delay'[v]) \in Nat
  <2> SUFFICES ASSUME NEW v \in Timers PROVE delay'[v] \in Nat /\ Due(delay'[v]) \in Nat
    OBVIOUS
  <2>1. delay'[v] \in Nat
    BY <1>5, <1>12, DelaysAre
  <2> QED
    BY <1>2, <2>1, InsertEntryAdds
<1>15. TypeInv'
  <2>1. ClockOK' /\ last_ts_' \in 0 .. MaxNow /\ behind' \in Nat
    BY <1>2, <1>7 DEF ClockOK, clockVars, TypeInv
  <2>2. kind' \in [Timers -> AllKinds \cup {"none", "over"}]
    <3>1. ASSUME NEW v \in Timers PROVE kind'[v] \in AllKinds \cup {"none", "over"}
      BY <1>7 DEF TypeInv
    <3> QED
      BY <1>7, <3>1
  <2>3. delay' \in [Timers -> Delays \cup {0}]
    BY <1>7 DEF TypeInv
  <2>4. armed' \in [Timers -> Nat]
    BY <1>2, <1>7 DEF TypeInv
  <2>5. due' \in [Timers -> Nat]
    BY <1>7, <1>14 DEF TypeInv
  <2>6. fired' \in [Timers -> Nat]
    BY <1>1, <1>7 DEF TypeInv
  <2> QED
    BY <1>10, <2>1, <2>2, <2>3, <2>4, <2>5, <2>6 DEF TypeInv
<1>16. \A v \in S : Active(v)'
  <2> SUFFICES ASSUME NEW v \in S PROVE kind'[v] \in AllKinds
    BY DEF Active
  <2>1. CASE v = u
    BY <1>1, <1>3, <1>4, <1>7, <1>11, <2>1
  <2>2. CASE v # u
    <3>1. v = t /\ kind[t] = "every"
      BY <1>11, <2>2
    <3>2. kind'[v] = kind[v]
      BY <1>1, <1>7, <2>2, <3>1
    <3> QED
      BY <3>1, <3>2 DEF AllKinds
  <2> QED
    BY <2>1, <2>2
<1>17. \A v \in S : \A y \in Nat : ~ Held(s0, v, y)
  <2> SUFFICES ASSUME NEW v \in S, NEW y \in Nat PROVE ~ Held(s0, v, y)
    OBVIOUS
  <2>1. CASE v = t
    BY <1>1, <2>1
  <2>2. CASE v # t
    <3>1. v \in Timers /\ kind[v] = "none"
      BY <1>3, <1>4, <1>11, <2>2
    <3>2. ~ Active(v)
      BY <3>1 DEF Active, AllKinds
    <3> QED
      BY <1>1, <2>2, <3>1, <3>2 DEF LiveInv
  <2> QED
    BY <2>1, <2>2
<1>18. \A v \in S : /\ Active(v)' /\ armed'[v] = tick_ /\ due'[v] = Due(delay'[v])
                    /\ \A y \in Nat : Held(s0, v, y) => y <= Due(delay'[v])
  BY <1>7, <1>11, <1>16, <1>17
<1>19. ASSUME NEW v \in Timers \ S
       PROVE  /\ armed'[v] = armed[v] /\ due'[v] = due[v] /\ delay'[v] = delay[v]
              /\ Active(v)' => Active(v) /\ \A y \in Nat : Held(s0, v, y) <=> Held(Here, v, y)
              /\ \A y \in Nat : Held(s0, v, y) => Active(v)'
  <2>1. armed'[v] = armed[v] /\ due'[v] = due[v] /\ delay'[v] = delay[v] /\ v # u
    BY <1>7, <1>11, <1>12
  <2>2. CASE v = t
    <3>1. kind'[v] = "over"
      BY <1>7, <1>11, <2>1, <2>2
    <3>2. ~ Active(v)'
      BY <3>1 DEF Active, AllKinds
    <3> QED
      BY <1>1, <2>1, <2>2, <3>2
  <2>3. CASE v # t
    <3>1. Active(v)' <=> Active(v)
      <4>1. kind'[v] = kind[v]
        BY <1>7, <2>1, <2>3
      <4> QED
        BY <4>1 DEF Active
    <3> QED
      BY <1>1, <2>1, <2>3, <3>1 DEF LiveInv
  <2> QED
    BY <2>2, <2>3
<1>20. UNCHANGED <<tick_, level>>
  BY <1>7 DEF clockVars
<1> HIDE DEF IInv
<1> QED
  BY <1>11, <1>13, <1>15, <1>18, <1>19, <1>20, ArmIInv

LEMMA NextIInv == IInv /\ [Next]_vars => IInv'
<1> SUFFICES ASSUME IInv, [Next]_vars PROVE IInv'
  OBVIOUS
<1>1. CASE FirstOnTimer
  BY <1>1, OnTimerIInv
<1>2. CASE \E now \in last_ts_ + 1 .. last_ts_ + MaxJump : now <= MaxNow /\ OnTimer(now)
  BY <1>2, OnTimerIInv
<1>3. CASE Tick
  BY <1>3, TickIInv
<1>4. CASE \E k \in Wheels : NextWheel(k)
  BY <1>4, NextWheelIInv
<1>5. CASE EndTick
  BY <1>5, EndTickIInv
<1>6. CASE Drop
  <2>1. PICK e \in dying : \/ DropWrapper(e) \/ DropReference(e)
                           \/ Fire(e, NoTimer, "after", 0)
                           \/ \E u \in Timers, k \in Kinds, d \in Delays : Fire(e, u, k, d)
    BY <1>6 DEF Drop
  <2>2. CASE DropWrapper(e)
    BY <2>2, DropWrapperIInv
  <2>3. CASE DropReference(e)
    BY <2>3, DropReferenceIInv
  <2>4. CASE Fire(e, NoTimer, "after", 0)
    BY <2>4, FireIInv DEF AllKinds
  <2>5. ASSUME NEW u \in Timers, NEW k \in Kinds, NEW d \in Delays, Fire(e, u, k, d) PROVE IInv'
    <3>1. k \in AllKinds
      BY ConstantAssumption
    <3> QED
      BY <2>5, <3>1, FireIInv
  <2> QED
    BY <2>1, <2>2, <2>3, <2>4, <2>5
<1>7. ASSUME NEW t \in Timers, NEW k \in Kinds, NEW d \in Delays, Start(t, k, d) PROVE IInv'
  BY <1>7, StartIInv
<1>8. CASE \E t \in Timers : ExtendLife(t)
  BY <1>8, ExtendLifeIInv
<1>9. CASE UNCHANGED vars
  <2>1. UNCHANGED <<queueVars, timerVars, clockVars>>
    BY <1>9 DEF vars
  <2>2. Here' = Here /\ tick_' = tick_ /\ level' = level
    BY <2>1 DEF Here, queueVars, clockVars
  <2>3. TypeInv'
    BY <2>1, <2>2 DEF IInv, TypeInv, Sound, WheelsOK, Droppable, ClockOK, timerVars, clockVars
  <2>4. Becomes(Here)
    BY <2>1 DEF Becomes, Here, queueVars
  <2>5. \A t \in Timers, x \in Nat : Held(Here, t, x)' <=> Held(Here, t, x)
    BY <2>2, <2>4, Settles DEF IInv, TypeInv
  <2>6. \A k \in Wheels : Base(k) <= Base(k)'
    <3> SUFFICES ASSUME NEW k \in Wheels PROVE Base(k) <= Base(k)'
      OBVIOUS
    <3>1. Base(k)' = Base(k) /\ Base(k) \in Nat
      BY <2>2, BaseIs DEF Base, IInv, TypeInv
    <3> QED
      BY <3>1
  <2>7. tick_ <= tick_' /\ UNCHANGED timerVars
    BY <2>1, <2>2 DEF IInv, TypeInv, ClockOK
  <2> QED
    BY <2>3, <2>5, <2>6, <2>7, KeepsIInv DEF TypeInv
<1> QED
  BY <1>1, <1>2, <1>3, <1>4, <1>5, <1>6, <1>7, <1>8, <1>9 DEF Next

LEMMA Invariance == Spec => []IInv
<1> QED
  BY InitIInv, NextIInv, PTL DEF Spec
-----------------------------------------------------------------------------
(***************************************************************************)
(* Every state of the timers is of the shape TypeOK gives: a slot index    *)
(* stays inside its wheel (InsertEntry, TimingWheel.cpp:13-84).            *)
(***************************************************************************)
THEOREM TypeOKTheorem == Spec => []TypeOK
<1>1. IInv => TypeOK
  BY TypeInvIsTypeOK DEF IInv
<1> QED
  BY <1>1, Invariance, PTL

(***************************************************************************)
(* No timer is lost: between two ticks, all that have been started and not *)
(* fired are due later.  The pointer that DueInv says there is is in a     *)
(* slot, and whatever is in a slot is dropped later.                       *)
(***************************************************************************)
THEOREM NeverOverdueTheorem == Spec => []NeverOverdue
<1>1. IInv => NeverOverdue
  <2> SUFFICES ASSUME IInv, level = Idle, dying = {}, NEW t \in Timers, Active(t)
               PROVE  tick_ < due[t]
    BY DEF NeverOverdue
  <2>1. Sound(Here) /\ ClockOK /\ due[t] \in Nat /\ delay[t] \in Nat
    BY DelaysAre DEF IInv, TypeInv
  <2>2. Held(Here, t, due[t])
    BY <2>1 DEF IInv, DueInv
  <2>3. PICK k \in Wheels : \E i \in 0 .. Slots(k) - 1 : \E f \in wheels_[k][i] :
          f.timer = t /\ SlotEnd(k, i, f.rest) = due[t]
    BY <2>2 DEF Held, Here, InDying, InWheels
  <2>4. PICK i \in 0 .. Slots(k) - 1 : \E f \in wheels_[k][i] :
          f.timer = t /\ SlotEnd(k, i, f.rest) = due[t]
    BY <2>3
  <2>5. PICK f \in wheels_[k][i] : SlotEnd(k, i, f.rest) = due[t]
    BY <2>4
  <2>6. f \in EntriesOf(k)
    <3>1. wheels_[k] \in [0 .. Slots(k) - 1 -> SUBSET EntriesOf(k)]
      BY <2>1 DEF Sound, Here, WheelsOK
    <3> QED
      BY <3>1
  <2>7. f.rest \in Rests(k) /\ i \in Nat
    BY <2>6, SlotsIs DEF EntriesOf
  <2> QED
    BY <2>1, <2>5, <2>7, SlotEndIsLater
<1> QED
  BY <1>1, Invariance, PTL

\* Only dropping the last pointer fires a timer.
LEMMA FiresIs ==
  ASSUME IInv, [Next]_vars, NEW t \in Timers, Fires(t)
  PROVE  Active(t) /\ tick_ = due[t]
<1>1. CASE Drop
  <2>1. PICK e \in dying : \/ DropWrapper(e) \/ DropReference(e)
                           \/ Fire(e, NoTimer, "after", 0)
                           \/ \E u \in Timers, k \in Kinds, d \in Delays : Fire(e, u, k, d)
    BY <1>1 DEF Drop
  <2>2. ASSUME NEW u, NEW k, NEW d, Fire(e, u, k, d) PROVE Active(t) /\ tick_ = due[t]
    <3>1. e.rest = 0 /\ ~ Referenced(e.timer, e) /\ fired' = [fired EXCEPT ![e.timer] = @ + 1]
      BY <2>2 DEF Fire
    <3>2. t = e.timer
      BY <3>1 DEF Fires, IInv, TypeInv
    <3> QED
      BY <3>1, <3>2, LastPointer
  <2>3. ~ DropWrapper(e) /\ ~ DropReference(e)
    BY DEF DropWrapper, DropReference, timerVars, Fires
  <2> QED
    BY <2>1, <2>2, <2>3
<1>2. CASE ~ Drop
  <2>1. fired' = fired
    BY <1>2 DEF Next, FirstOnTimer, OnTimer, Tick, NextWheel, EndTick, Start, ExtendLife, vars, timerVars
  <2> QED
    BY <2>1 DEF Fires
<1> QED
  BY <1>1, <1>2

(***************************************************************************)
(* A timer fires in the tick worked out when it was last inserted, however *)
(* many wheels it goes through (PopUp and the destructors of the entries), *)
(* whatever else is dropped before it and whatever callbacks start.        *)
(***************************************************************************)
THEOREM FiresWhenDueTheorem == Spec => FiresWhenDue
<1>1. IInv /\ [Next]_vars => [\A t \in Timers : Fires(t) => tick_ = due[t]]_vars
  BY FiresIs
<1> QED
  BY <1>1, Invariance, PTL DEF Spec, FiresWhenDue

(***************************************************************************)
(* That tick is as near the delay as Early and Late say, whatever lengths  *)
(* the wheels have and in whatever phase of theirs the timer was inserted. *)
(***************************************************************************)
THEOREM FiresNearDelayTheorem == Spec => FiresNearDelay
<1> DEFINE Near(t) ==
      LET wanted == armed[t] + AtLeastOne(delay[t]) IN
      tick_ \in wanted - Early(delay[t]) .. wanted + Late(delay[t])
<1>1. IInv /\ [Next]_vars =>
        [\A t \in Timers : Fires(t) /\ ~ Refused(delay[t]) => Near(t)]_vars
  <2> SUFFICES ASSUME IInv, [Next]_vars, NEW t \in Timers, Fires(t), ~ Refused(delay[t])
               PROVE  Near(t)
    OBVIOUS
  <2>1. Active(t) /\ tick_ = due[t]
    BY FiresIs
  <2> QED
    BY <2>1 DEF IInv, NearInv
<1> QED
  BY <1>1, Invariance, PTL DEF Spec, FiresNearDelay
-----------------------------------------------------------------------------
(* EventLoopThread.                                                        *)

RunnerPC == {"Construct", "Idle", "Once", "Notify", "Get", "Ran", "TestLoop", "Quit", "Join",
             "Gone"}
ThreadPC == {"Enter", "Stuck", "Wait", "GoToSleep", "Sleep", "SetLoop", "SetValue", "Crashed",
             "Loop", "While", "Done"}

\* Where each thread may be, and who may be inside call_once.
PlaceInv ==
  /\ pc \in [Runners \cup {Thread} -> RunnerPC \cup ThreadPC]
  /\ \A th \in Runners : pc[th] \in RunnerPC
  /\ pc[Thread] \in ThreadPC
  /\ once_ \in Runners \cup {"no", "done"}

\* Before the constructor is done nobody has called Run(), and the thread has
\* not kept its promise, whatever else it did.
EarlyInv ==
  /\ built <=> pc[Owner] # "Construct"
  /\ ~ built => /\ \A c \in Callers : pc[c] = "Idle"
                /\ once_ = "no" /\ ~ promise_

\* The promise is kept after loop_ is set, and call_once is done, and Run()
\* returns, after the promise is kept.
PromiseInv ==
  /\ promise_ => pc[Thread] \in {"Loop", "While", "Done"}
  /\ pc[Thread] \in {"SetValue", "Crashed", "Loop", "While"} => loop_
  /\ once_ = "done" => promise_
  /\ \A c \in Callers : pc[c] = "Ran" => promise_

ThreadInv == PlaceInv /\ EarlyInv /\ PromiseInv /\ NoDanglingLoop
-----------------------------------------------------------------------------
\* The invariant holds when the constructor has started the thread.
LEMMA InitThreadInv == ThreadInit => ThreadInv
<1> USE ThreadAssumption
<1>1. ThreadInit => PlaceInv
  BY DEF ThreadInit, PlaceInv, RunnerPC, ThreadPC, Runners
<1>2. ThreadInit => EarlyInv
  BY DEF ThreadInit, EarlyInv, Runners
<1>3. ThreadInit => PromiseInv /\ NoDanglingLoop
  BY DEF ThreadInit, PromiseInv, NoDanglingLoop, Runners
<1> QED
  BY <1>1, <1>2, <1>3 DEF ThreadInv

\* A step of Run() by any thread preserves it.
LEMMA RunThreadInv == ASSUME ThreadInv, NEW th \in Runners, Run(th) PROVE ThreadInv'
<1> USE ThreadAssumption DEF ThreadInv, Runners, Goto, AfterRun
<1>1. CASE CallOnce(th)
  <2>1. PlaceInv'
    BY <1>1 DEF CallOnce, PlaceInv, RunnerPC, ThreadPC
  <2>2. EarlyInv'
    BY <1>1 DEF CallOnce, PlaceInv, EarlyInv
  <2>3. PromiseInv' /\ NoDanglingLoop'
    BY <1>1 DEF CallOnce, PlaceInv, PromiseInv, NoDanglingLoop
  <2> QED
    BY <2>1, <2>2, <2>3
<1>2. CASE Notify(th)
  <2>1. PlaceInv'
    BY <1>2 DEF Notify, PlaceInv, RunnerPC, ThreadPC
  <2>2. EarlyInv'
    BY <1>2 DEF Notify, PlaceInv, EarlyInv
  <2>3. PromiseInv' /\ NoDanglingLoop'
    BY <1>2 DEF Notify, PlaceInv, PromiseInv, NoDanglingLoop
  <2> QED
    BY <2>1, <2>2, <2>3
<1>3. CASE Get(th)
  <2>1. PlaceInv'
    BY <1>3 DEF Get, PlaceInv, RunnerPC, ThreadPC
  <2>2. EarlyInv'
    BY <1>3 DEF Get, PlaceInv, EarlyInv
  <2>3. PromiseInv' /\ NoDanglingLoop'
    BY <1>3 DEF Get, PlaceInv, PromiseInv, NoDanglingLoop
  <2> QED
    BY <2>1, <2>2, <2>3
<1> QED
  BY <1>1, <1>2, <1>3 DEF Run

\* So does a step of the thread.
LEMMA StartThreadInv == ASSUME ThreadInv, StartEventLoop \/ SpuriousWakeup PROVE ThreadInv'
<1> USE ThreadAssumption DEF ThreadInv, Runners, Goto
<1>1. CASE Enter \/ Wait \/ GoToSleep \/ Wake \/ SpuriousWakeup
  <2>1. PlaceInv'
    BY <1>1 DEF Enter, Wait, GoToSleep, Wake, SpuriousWakeup, PlaceInv, RunnerPC, ThreadPC
  <2>2. EarlyInv'
    BY <1>1 DEF Enter, Wait, GoToSleep, Wake, SpuriousWakeup, PlaceInv, EarlyInv
  <2>3. PromiseInv' /\ NoDanglingLoop'
    BY <1>1 DEF Enter, Wait, GoToSleep, Wake, SpuriousWakeup, PlaceInv, PromiseInv, NoDanglingLoop
  <2> QED
    BY <2>1, <2>2, <2>3
<1>2. CASE SetLoop \/ SetValue
  <2>1. PlaceInv'
    BY <1>2 DEF SetLoop, SetValue, PlaceInv, RunnerPC, ThreadPC
  <2>2. EarlyInv'
    BY <1>2 DEF SetLoop, SetValue, PlaceInv, EarlyInv
  <2>3. PromiseInv' /\ NoDanglingLoop'
    BY <1>2 DEF SetLoop, SetValue, PlaceInv, PromiseInv, NoDanglingLoop
  <2> QED
    BY <2>1, <2>2, <2>3
<1>3. CASE Loop \/ Return
  <2>1. PlaceInv'
    BY <1>3 DEF Loop, Return, PlaceInv, RunnerPC, ThreadPC
  <2>2. EarlyInv'
    BY <1>3 DEF Loop, Return, PlaceInv, EarlyInv
  <2>3. PromiseInv' /\ NoDanglingLoop'
    BY <1>3 DEF Loop, Return, PlaceInv, PromiseInv, NoDanglingLoop
  <2> QED
    BY <2>1, <2>2, <2>3
<1> QED
  BY <1>1, <1>2, <1>3 DEF StartEventLoop

\* So do the constructor, the destructor, and a call of Run().
LEMMA NextThreadInv == ThreadInv /\ [ThreadNext]_threadVars => ThreadInv'
<1> SUFFICES ASSUME ThreadInv, [ThreadNext]_threadVars PROVE ThreadInv'
  OBVIOUS
<1> USE ThreadAssumption DEF ThreadInv, Runners, Goto
<1>1. CASE Construct
  <2>1. PlaceInv'
    BY <1>1 DEF Construct, PlaceInv, RunnerPC, ThreadPC
  <2>2. EarlyInv'
    BY <1>1 DEF Construct, PlaceInv, EarlyInv
  <2>3. PromiseInv' /\ NoDanglingLoop'
    BY <1>1 DEF Construct, PlaceInv, EarlyInv, PromiseInv, NoDanglingLoop
  <2> QED
    BY <2>1, <2>2, <2>3
<1>2. ASSUME NEW c \in Callers, CallRun(c) PROVE ThreadInv'
  <2>1. PlaceInv'
    BY <1>2 DEF CallRun, PlaceInv, RunnerPC, ThreadPC
  <2>2. EarlyInv'
    BY <1>2 DEF CallRun, PlaceInv, EarlyInv
  <2>3. PromiseInv' /\ NoDanglingLoop'
    BY <1>2 DEF CallRun, PlaceInv, PromiseInv, NoDanglingLoop
  <2> QED
    BY <2>1, <2>2, <2>3
<1>3. CASE Destroy \/ Destructor
  <2>1. PlaceInv'
    BY <1>3 DEF Destroy, Destructor, TestLoop, Quit, Join, PlaceInv, RunnerPC, ThreadPC
  <2>2. EarlyInv'
    BY <1>3 DEF Destroy, Destructor, TestLoop, Quit, Join, PlaceInv, EarlyInv
  <2>3. PromiseInv' /\ NoDanglingLoop'
    BY <1>3 DEF Destroy, Destructor, TestLoop, Quit, Join, PlaceInv, PromiseInv,
                NoDanglingLoop
  <2> QED
    BY <2>1, <2>2, <2>3
<1>4. CASE UNCHANGED threadVars
  BY <1>4 DEF threadVars, PlaceInv, EarlyInv, PromiseInv, NoDanglingLoop
<1> QED
  BY <1>1, <1>2, <1>3, <1>4, RunThreadInv, StartThreadInv DEF ThreadNext

(***************************************************************************)
(* loop_ is there when it should be and only then, whatever running_ held  *)
(* before it was initialised, however early the thread starts, and however *)
(* many threads call Run() (EventLoopThread.cpp:20-45).                    *)
(***************************************************************************)
THEOREM LoopIsThereTheorem == ThreadSpec => []LoopIsThere
<1>1. ThreadInv => LoopIsThere
  BY DEF ThreadInv, PromiseInv, LoopIsThere, RunYieldsLoop
<1> QED
  BY <1>1, InitThreadInv, NextThreadInv, PTL DEF ThreadSpec
=============================================================================
