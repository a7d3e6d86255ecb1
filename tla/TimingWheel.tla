---------------------------- MODULE TimingWheel ----------------------------
(***************************************************************************)
(* The timers of a loop, src/network/net/TimingWheel.cpp: four wheels of   *)
(* slots (seconds, minutes, hours, days).  A slot holds shared pointers to *)
(* entries.  A timer is an entry whose destructor runs the callback, so it *)
(* fires when the last pointer to it is dropped; an entry of the three     *)
(* slower wheels is a wrapper whose destructor inserts the wrapped entry   *)
(* into the next faster wheel with the rest of the delay.                  *)
(*                                                                         *)
(* Only the thread of the loop touches the wheels here.  PopUp drops the   *)
(* entries of a slot in no particular order (an unordered_set), and every  *)
(* callback may start another timer: dropping one entry is one step.  Time *)
(* is counted in ticks of one second.                                      *)
(***************************************************************************)
EXTENDS Integers, FiniteSets

CONSTANTS
  Timers,          \* the timers the program starts
  Kinds,           \* what it starts: a subset of AllKinds
  Delays,          \* the delays it asks for, in seconds
  kTimingMinute,   \* seconds in a minute: the slots of the second wheel (60)
  kTimingHour,     \* seconds in an hour (3600)
  kTimingDay,      \* seconds in a day (86400)
  kDays,           \* the slots of the day wheel (30)
  MaxNow,          \* bound: the last clock reading
  MaxJump,         \* bound: seconds between two readings of the clock
  NoTimer

\* RunAfter, RunEvery, and InsertEntry of an entry that InsertEntry is called
\* with again while it lives (the ExtendLife of TcpConnection and UdpSocket).
AllKinds == {"after", "every", "entry"}

ASSUME ConstantAssumption ==
  /\ NoTimer \notin Timers
  /\ Kinds \subseteq AllKinds
  /\ Delays \subseteq Nat
  /\ kTimingMinute \in Nat \ {0, 1}
  /\ kTimingHour \in Nat /\ kTimingHour > kTimingMinute /\ kTimingHour % kTimingMinute = 0
  /\ kTimingDay \in Nat /\ kTimingDay > kTimingHour /\ kTimingDay % kTimingHour = 0
  /\ {kDays, MaxNow, MaxJump} \subseteq Nat \ {0}

\* The wheels, by the names of the enumeration TimingType.
kTmingTypeSecond == 0
kTmingTypeMinute == 1
kTmingTypeHour   == 2
kTmingTypeDay    == 3
Wheels == 0 .. 3
Idle   == 4           \* the value of level between two ticks

VARIABLES
  wheels_,   \* wheels_[k][i]: the entries in slot i of wheel k
  last_ts_,  \* the clock at the last OnTimer (0: never called)
  tick_,     \* ticks so far
  behind,    \* ticks OnTimer has still to make
  level,     \* the wheel whose PopUp is under way, or Idle
  dying,     \* the entries about to be dropped
  kind,      \* kind[t]: how t was started, "none", or "over" after it fired
  delay,     \* delay[t]: the delay t was started with
  armed,     \* armed[t]: the tick of the last insertion of t (history)
  due,       \* due[t]: the tick at which t should fire, see Due (history)
  fired      \* fired[t]: how often t has fired (history)

queueVars == <<wheels_, dying>>
timerVars == <<kind, delay, armed, due, fired>>
clockVars == <<last_ts_, tick_, behind, level>>
vars      == <<queueVars, timerVars, clockVars>>

\* The length of wheel k (the constructor), and how many ticks a slot lasts.
Slots(k) == CASE k = kTmingTypeSecond -> kTimingMinute
              [] k = kTmingTypeMinute -> kTimingHour \div kTimingMinute
              [] k = kTmingTypeHour   -> kTimingDay \div kTimingHour
              [] k = kTmingTypeDay    -> kDays

Unit(k) == CASE k = kTmingTypeSecond -> 1
             [] k = kTmingTypeMinute -> kTimingMinute
             [] k = kTmingTypeHour   -> kTimingHour
             [] k = kTmingTypeDay    -> kTimingDay

\* An entry in a slot: the timer itself (rest = 0), or a wrapper that keeps
\* it and the rest of its delay.
Entries == [timer : Timers, rest : 0 .. kTimingDay]

Timer(t) == [timer |-> t, rest |-> 0]

Active(t) == kind[t] \in AllKinds

TypeOK ==
  /\ \A k \in Wheels : wheels_[k] \in [0 .. Slots(k) - 1 -> SUBSET Entries]
  /\ DOMAIN wheels_ = Wheels
  /\ dying \subseteq Entries
  /\ last_ts_ \in 0 .. MaxNow
  /\ tick_ \in Nat /\ behind \in Nat /\ level \in Wheels \cup {Idle}
  /\ kind \in [Timers -> AllKinds \cup {"none", "over"}]
  /\ delay \in [Timers -> Delays \cup {0}]
  /\ armed \in [Timers -> Nat] /\ due \in [Timers -> Nat] /\ fired \in [Timers -> Nat]

Init ==
  /\ wheels_ = [k \in Wheels |-> [i \in 0 .. Slots(k) - 1 |-> {}]]
  /\ dying = {}
  /\ last_ts_ = 0 /\ tick_ = 0 /\ behind = 0 /\ level = Idle
  /\ kind  = [t \in Timers |-> "none"]
  /\ delay = [t \in Timers |-> 0]
  /\ armed = [t \in Timers |-> 0]
  /\ due   = [t \in Timers |-> 0]
  /\ fired = [t \in Timers |-> 0]
-----------------------------------------------------------------------------
(* Insertion.  s is a pair of wheels and entries about to be dropped.      *)

AtLeastOne(n) == IF n = 0 THEN 1 ELSE n

Put(s, k, slot, e) == [s EXCEPT !.wheels[k][slot] = @ \cup {e}]

InsertSecondEntry(s, d, t) == Put(s, kTmingTypeSecond, AtLeastOne(d) - 1, Timer(t))

\* Mutant of InsertWrapped: the unit under way is counted as a whole one.
InsertWrappedEarly(s, k, d, t) ==
  Put(s, k, AtLeastOne(AtLeastOne(d \div Unit(k)) - 1) - 1,
      [timer |-> t, rest |-> AtLeastOne(d % Unit(k))])

\* InsertMinuteEntry, InsertHourEntry and InsertDayEntry: a wrapper in slot
\* d/unit - 1 keeps the timer and d%unit, both at least 1.
InsertWrapped(s, k, d, t) ==
  Put(s, k, AtLeastOne(d \div Unit(k)) - 1,
      [timer |-> t, rest |-> AtLeastOne(d % Unit(k))])

InsertMinuteEntry(s, d, t) == InsertWrapped(s, kTmingTypeMinute, d, t)
InsertHourEntry(s, d, t)   == InsertWrapped(s, kTmingTypeHour, d, t)
InsertDayEntry(s, d, t)    == InsertWrapped(s, kTmingTypeDay, d, t)

\* Mutant of Refused: one day more than there are slots is accepted.
RefusedTooLate(d) == d >= kTimingDay /\ d \div kTimingDay > kDays + 1

\* A delay of more than kDays days is refused: the caller's pointer is
\* dropped when InsertEntry returns.
Refused(d) == d >= kTimingDay /\ d \div kTimingDay > kDays

InsertEntry(s, d, t) ==
  LET n == AtLeastOne(d) IN
  CASE n < kTimingMinute -> InsertSecondEntry(s, n, t)
    [] n >= kTimingMinute /\ n < kTimingHour -> InsertMinuteEntry(s, n, t)
    [] n >= kTimingHour /\ n < kTimingDay -> InsertHourEntry(s, n, t)
    [] n >= kTimingDay /\ ~ Refused(n) -> InsertDayEntry(s, n, t)
    [] Refused(n) -> [s EXCEPT !.dying = @ \cup {Timer(t)}]

\* What the destructor of a wrapper from wheel k does.
Unwrap(s, k, e) ==
  CASE k = kTmingTypeMinute -> InsertSecondEntry(s, e.rest, e.timer)
    [] k = kTmingTypeHour   -> InsertMinuteEntry(s, e.rest, e.timer)
    [] k = kTmingTypeDay    -> InsertHourEntry(s, e.rest, e.timer)
-----------------------------------------------------------------------------
(* When a timer should fire: the tick worked out at insertion.             *)

\* The last tick whose PopUp of wheel k is done: that of the current tick is
\* still to come while a faster wheel drops its entries.
Base(k) == IF k <= level THEN tick_ ELSE tick_ - 1

\* The tick of the n-th PopUp of wheel k after tick b.
NthPopUp(k, b, n) == (b \div Unit(k) + n) * Unit(k)

MinuteDue(b, d) ==
  NthPopUp(kTmingTypeMinute, b, AtLeastOne(d \div kTimingMinute)) + AtLeastOne(d % kTimingMinute)

HourDue(b, d) ==
  MinuteDue(NthPopUp(kTmingTypeHour, b, AtLeastOne(d \div kTimingHour)), AtLeastOne(d % kTimingHour))

DayDue(b, d) ==
  HourDue(NthPopUp(kTmingTypeDay, b, AtLeastOne(d \div kTimingDay)), AtLeastOne(d % kTimingDay))

Due(d) ==
  CASE d < kTimingMinute -> tick_ + AtLeastOne(d)
    [] d >= kTimingMinute /\ d < kTimingHour -> MinuteDue(Base(kTmingTypeMinute), d)
    [] d >= kTimingHour /\ d < kTimingDay -> HourDue(Base(kTmingTypeHour), d)
    [] d >= kTimingDay /\ ~ Refused(d) -> DayDue(Base(kTmingTypeDay), d)
    [] Refused(d) -> tick_
-----------------------------------------------------------------------------
(* The clock: OnTimer and PopUp.                                           *)

\* Between two calls of OnTimer; nothing is being dropped.
Resting == level = Idle /\ behind = 0 /\ dying = {}

\* The first call of OnTimer only reads the clock: second 1 of the model.
FirstOnTimer ==
  /\ Resting /\ last_ts_ = 0
  /\ last_ts_' = 1
  /\ UNCHANGED <<queueVars, timerVars, tick_, behind, level>>

\* A later call: as many ticks as the clock has advanced by; none when it
\* stands still or was set back.
OnTimer(now) ==
  /\ Resting /\ last_ts_ > 0 /\ now > last_ts_
  /\ last_ts_' = now
  /\ behind'   = now - last_ts_
  /\ UNCHANGED <<queueVars, timerVars, tick_, level>>

\* PopUp of wheel k: the first slot goes to dying, an empty one joins the end.
PopUp(k) ==
  /\ wheels_' = [wheels_ EXCEPT ![k] =
                   [i \in DOMAIN @ |-> IF i + 1 \in DOMAIN @ THEN @[i + 1] ELSE {}]]
  /\ dying' = wheels_[k][0]
  /\ level' = k

Tick ==
  /\ level = Idle /\ dying = {} /\ behind > 0
  /\ tick_'  = tick_ + 1
  /\ behind' = behind - 1
  /\ PopUp(kTmingTypeSecond)
  /\ UNCHANGED <<timerVars, last_ts_>>

\* The other wheels whose turn it is in this tick.
Turn(k) == tick_ % Unit(k) = 0

NextWheel(k) ==
  /\ level < k /\ k < Idle /\ dying = {}
  /\ Turn(k) /\ \A j \in Wheels : level < j /\ j < k => ~ Turn(j)
  /\ PopUp(k)
  /\ UNCHANGED <<timerVars, last_ts_, tick_, behind>>

EndTick ==
  /\ level \in Wheels /\ dying = {}
  /\ \A j \in Wheels : level < j => ~ Turn(j)
  /\ level' = Idle
  /\ UNCHANGED <<queueVars, timerVars, last_ts_, tick_, behind>>
-----------------------------------------------------------------------------
(* Dropping entries, and starting timers.                                  *)

Here == [wheels |-> wheels_, dying |-> dying]

Becomes(s) == wheels_' = s.wheels /\ dying' = s.dying

\* Mutant of Referenced: pointers are not counted.
ReferencedNever(t, e) == FALSE

\* The pointers to t that are left when e has gone.
Referenced(t, e) ==
  \/ \E f \in dying \ {e} : f.timer = t
  \/ \E k \in Wheels : \E i \in DOMAIN wheels_[k] : \E f \in wheels_[k][i] : f.timer = t

\* A wrapper is dropped and puts its timer into the next faster wheel.
DropWrapper(e) ==
  /\ e \in dying /\ e.rest > 0
  /\ Becomes(Unwrap([Here EXCEPT !.dying = @ \ {e}], level, e))
  /\ UNCHANGED <<timerVars, clockVars>>

\* A timer is dropped that other slots still refer to.
DropReference(e) ==
  /\ e \in dying /\ e.rest = 0 /\ Referenced(e.timer, e)
  /\ dying' = dying \ {e}
  /\ UNCHANGED <<wheels_, timerVars, clockVars>>

\* The last pointer to a timer is dropped: its callback runs and may start
\* timer u; RunEvery then starts the timer again.
Fire(e, u, k, d) ==
  LET t  == e.timer
      s0 == [Here EXCEPT !.dying = @ \ {e}]
      s1 == IF u = NoTimer THEN s0 ELSE InsertEntry(s0, d, u)
      s2 == IF kind[t] = "every" THEN InsertEntry(s1, delay[t], t) ELSE s1
      started == ({u} \cap Timers) \cup (IF kind[t] = "every" THEN {t} ELSE {})
  IN
  /\ e \in dying /\ e.rest = 0 /\ ~ Referenced(t, e)
  /\ u \in {NoTimer} \cup {v \in Timers : kind[v] = "none"}
  /\ Becomes(s2)
  /\ fired' = [fired EXCEPT ![t] = @ + 1]
  /\ kind'  = [v \in Timers |-> CASE v = u -> k
                                  [] v = t /\ kind[t] # "every" -> "over"
                                  [] OTHER -> kind[v]]
  /\ delay' = [v \in Timers |-> IF v = u THEN d ELSE delay[v]]
  /\ armed' = [v \in Timers |-> IF v \in started THEN tick_ ELSE armed[v]]
  /\ due'   = [v \in Timers |-> IF v \in started THEN Due(delay'[v]) ELSE due[v]]
  /\ UNCHANGED clockVars

\* RunAfter, RunEvery or InsertEntry called by other code of the loop thread.
Start(t, k, d) ==
  /\ Resting /\ kind[t] = "none"
  /\ Becomes(InsertEntry(Here, d, t))
  /\ kind'  = [kind EXCEPT ![t] = k]
  /\ delay' = [delay EXCEPT ![t] = d]
  /\ armed' = [armed EXCEPT ![t] = tick_]
  /\ due'   = [due EXCEPT ![t] = Due(d)]
  /\ UNCHANGED <<fired, clockVars>>

\* ExtendLife: the entry, if it lives, is inserted once more.
ExtendLife(t) ==
  /\ Resting /\ kind[t] = "entry" /\ armed[t] < tick_
  /\ Becomes(InsertEntry(Here, delay[t], t))
  /\ armed' = [armed EXCEPT ![t] = tick_]
  /\ due'   = [due EXCEPT ![t] = Due(delay[t])]
  /\ UNCHANGED <<kind, delay, fired, clockVars>>
-----------------------------------------------------------------------------
Drop ==
  \E e \in dying :
    \/ DropWrapper(e) \/ DropReference(e)
    \/ Fire(e, NoTimer, "after", 0)
    \/ \E u \in Timers, k \in Kinds, d \in Delays : Fire(e, u, k, d)

Next ==
  \/ FirstOnTimer
  \/ \E now \in last_ts_ + 1 .. last_ts_ + MaxJump : now <= MaxNow /\ OnTimer(now)
  \/ Tick \/ (\E k \in Wheels : NextWheel(k)) \/ EndTick
  \/ Drop
  \/ \E t \in Timers, k \in Kinds, d \in Delays : Start(t, k, d)
  \/ \E t \in Timers : ExtendLife(t)

Spec == Init /\ [][Next]_vars
-----------------------------------------------------------------------------
(* Properties.                                                             *)

Fires(t) == fired'[t] # fired[t]

(***************************************************************************)
(* Cascading and cleaning up (InsertEntry, PopUp and the destructors)      *)
(* amount to the arithmetic of Due: a timer fires at the tick worked out   *)
(* when it was last inserted, however many wheels it passes through, and   *)
(* pointers left by earlier insertions neither fire it nor keep it alive.  *)
(***************************************************************************)
FiresWhenDue == [][\A t \in Timers : Fires(t) => tick_ = due[t]]_vars

(***************************************************************************)
(* No timer is lost (PopUp, OnTimer): between two ticks, every timer that  *)
(* has been started and not fired is due in a later tick.                  *)
(***************************************************************************)
NeverOverdue == level = Idle /\ dying = {} => \A t \in Timers : Active(t) => tick_ < due[t]

(***************************************************************************)
(* How wrong the wheels are (TimingWheel.cpp:13-84): a delay below one     *)
(* minute is exact; a longer one may fire up to one unit of its wheel too  *)
(* early, and late by the units that "at least 1" adds on the way down.    *)
(***************************************************************************)
Early(d) ==
  CASE AtLeastOne(d) < kTimingMinute -> 0
    [] d >= kTimingMinute /\ d < kTimingHour -> kTimingMinute
    [] d >= kTimingHour /\ d < kTimingDay -> kTimingHour
    [] d >= kTimingDay -> kTimingDay

Late(d) ==
  CASE AtLeastOne(d) < kTimingMinute -> 0
    [] d >= kTimingMinute /\ d < kTimingHour -> 1
    [] d >= kTimingHour /\ d < kTimingDay -> kTimingMinute + 1
    [] d >= kTimingDay -> kTimingHour + kTimingMinute + 1

FiresNearDelay ==
  [][\A t \in Timers :
       Fires(t) /\ ~ Refused(delay[t]) =>
         LET wanted == armed[t] + AtLeastOne(delay[t]) IN
         tick_ \in wanted - Early(delay[t]) .. wanted + Late(delay[t])]_vars
=============================================================================
