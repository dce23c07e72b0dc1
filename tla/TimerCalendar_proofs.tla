------------------------- MODULE TimerCalendar_proofs -------------------------
(***************************************************************************)
(* Proofs about TimerCalendar, for every timer and every window of time.   *)
(* The loop over the days of a window is a recursive function; what it     *)
(* computes is shown by induction from the last day to the first.          *)
(***************************************************************************)
EXTENDS TimerCalendar, SequenceTheorems, WellFoundedInduction, TLAPS

-----------------------------------------------------------------------------
(* Induction, of sets instead of predicates.                               *)

LEMMA LeastNumber ==
  ASSUME NEW T \in SUBSET Nat, T # {}
  PROVE  \E n \in T : \A m \in T : n <= m
<1> DEFINE R == {ss \in Nat \X Nat : ss[1] < ss[2]}
<1>1. IsWellFoundedOn(R, Nat)
  BY NatLessThanWellFounded DEF OpToRel
<1>2. PICK n \in T : \A m \in T : <<m, n>> \notin R
  <2> HIDE DEF R
  <2> QED BY <1>1, WFMin
<1>3. ASSUME NEW m \in T PROVE n <= m
  <2>1. <<m, n>> \in Nat \X Nat
    OBVIOUS
  <2>2. ~(m < n)
    BY <1>2, <2>1
  <2> QED BY <2>2
<1> QED BY <1>3

LEMMA Induction ==
  ASSUME NEW S, 0 \in S, \A n \in Nat : n \in S => n + 1 \in S
  PROVE  \A n \in Nat : n \in S
<1> DEFINE T == {n \in Nat : n \notin S}
<1>1. CASE T # {}
  <2>1. PICK n \in T : \A m \in T : n <= m
    BY <1>1, LeastNumber
  <2>2. n - 1 \in Nat /\ n - 1 \notin T
    BY <2>1
  <2>3. (n - 1) + 1 \in S
    BY <2>2
  <2> QED BY <2>3
<1> QED BY <1>1

-----------------------------------------------------------------------------
(* The loop.                                                               *)

\* What one turn makes of the events f of the days after it.
Turn(plan, from, to, f, day) ==
  IF day > to.day THEN <<>> ELSE DayEvents(plan, from, to, day, f[day + 1])

Days(from, to) == from.day..(to.day + 1)

IsLoop(plan, from, to, f) ==
  f = [day \in Days(from, to) |-> Turn(plan, from, to, f, day)]

\* The recursive definition has a solution.
LEMMA LoopExists ==
  ASSUME NEW plan, NEW from \in Moment, NEW to \in Moment, from.day <= to.day
  PROVE  \E f : IsLoop(plan, from, to, f)
<1> DEFINE last == to.day + 1
           Solves(f, k) == f = [day \in (last - k)..last |-> Turn(plan, from, to, f, day)]
           S == {k \in Nat : \E f : Solves(f, k)}
<1>0. to.day \in Nat /\ from.day \in Nat /\ last \in Nat
  BY DEF Moment
<1>1. 0 \in S
  <2> DEFINE f == [day \in (last - 0)..last |-> <<>>]
  <2>1. \A day \in (last - 0)..last : Turn(plan, from, to, f, day) = <<>>
    BY <1>0 DEF Turn
  <2>2. Solves(f, 0)
    BY <2>1
  <2> QED BY <2>2
<1>2. ASSUME NEW k \in Nat, k \in S PROVE k + 1 \in S
  <2>1. PICK f : Solves(f, k)
    BY <1>2
  <2> DEFINE first == last - (k + 1)
             g == [day \in first..last |->
                     IF day = first THEN Turn(plan, from, to, f, day) ELSE f[day]]
  <2>2. \A day \in (last - k)..last : g[day] = f[day] /\ day # first
    BY <1>0
  <2>3. \A day \in first..last : day <= to.day => day + 1 \in (last - k)..last
    BY <1>0
  <2>4. \A day \in first..last : Turn(plan, from, to, g, day) = Turn(plan, from, to, f, day)
    <3> SUFFICES ASSUME NEW day \in first..last, day <= to.day
                 PROVE  g[day + 1] = f[day + 1]
      BY <1>0 DEF Turn
    <3> QED BY <2>2, <2>3
  <2>5. \A day \in first..last : g[day] = Turn(plan, from, to, f, day)
    <3> SUFFICES ASSUME NEW day \in first..last, day # first
                 PROVE  f[day] = Turn(plan, from, to, f, day)
      OBVIOUS
    <3>1. day \in (last - k)..last
      BY <1>0
    <3> QED BY <2>1, <3>1
  <2>6. Solves(g, k + 1)
    BY <2>4, <2>5
  <2> HIDE DEF g, Solves
  <2>7. k + 1 \in Nat /\ \E h : Solves(h, k + 1)
    BY <2>6
  <2> QED BY <2>7
<1>3. \A k \in Nat : k \in S
  <2> HIDE DEF S
  <2> QED BY <1>1, <1>2, Induction
<1>4. last - from.day \in Nat /\ last - (last - from.day) = from.day
  BY <1>0
<1>5. PICK f : Solves(f, last - from.day)
  BY <1>3, <1>4
<1> QED BY <1>4, <1>5 DEF IsLoop, Days

LEMMA LoopBuildsEvents ==
  ASSUME NEW plan, NEW from \in Moment, NEW to \in Moment, from.day <= to.day,
         plan.activated
  PROVE  \E f : IsLoop(plan, from, to, f) /\ BuildEvents(plan, from, to) = f[from.day]
<1> DEFINE eventsFrom[day \in from.day..(to.day + 1)] ==
             IF day > to.day THEN <<>> ELSE DayEvents(plan, from, to, day, eventsFrom[day + 1])
<1>1. BuildEvents(plan, from, to) = eventsFrom[from.day]
  BY DEF BuildEvents
<1>2. eventsFrom = CHOOSE f : IsLoop(plan, from, to, f)
  BY DEF IsLoop, Days, Turn
<1> HIDE DEF eventsFrom
<1>3. IsLoop(plan, from, to, eventsFrom)
  BY <1>2, LoopExists
<1> QED BY <1>1, <1>3

-----------------------------------------------------------------------------
(* The moments named from a day on, and what a turn does to them.          *)

\* The timer names a moment on a day of the window.
Names(plan, from, to, day) ==
  LET m == [day |-> day, time |-> plan.time] IN
  /\ NotAfter(from, m) /\ NotAfter(m, to)
  /\ plan.weekdays \cap Weekdays # {} => (day % 7) + 1 \in plan.weekdays

NamedFrom(plan, from, to, first) ==
  {[day |-> day, time |-> plan.time] : day \in {d \in first..to.day : Names(plan, from, to, d)}}

\* The days of a plan, counted from 0 as Python does.
LEMMA WeekdayIsPythons ==
  ASSUME NEW plan \in TimerPlans, NEW day \in Nat
  PROVE  LET days == {w - 1 : w \in plan.weekdays \ {0}} IN
         /\ days = {} <=> plan.weekdays \cap Weekdays = {}
         /\ PythonWeekday(day) \in days <=> (day % 7) + 1 \in plan.weekdays
<1> DEFINE days == {w - 1 : w \in plan.weekdays \ {0}}
<1>1. plan.weekdays \subseteq 0..7
  BY DEF TimerPlans
<1>2. day % 7 \in 0..6
  OBVIOUS
<1>3. days = {} <=> plan.weekdays \cap Weekdays = {}
  BY <1>1 DEF Weekdays
<1>4. PythonWeekday(day) \in days <=> (day % 7) + 1 \in plan.weekdays
  BY <1>1, <1>2 DEF PythonWeekday
<1> QED BY <1>3, <1>4

\* One turn: the day does not count, or the window is over, or the timer names the moment.
LEMMA TurnOfDay ==
  ASSUME NEW plan \in TimerPlans, NEW from \in Moment, NEW to \in Moment,
         NEW day \in Nat, day <= to.day, NEW later
  PROVE  LET start == [day |-> day, time |-> plan.time]
             rest  == NamedFrom(plan, from, to, day + 1)
             here  == NamedFrom(plan, from, to, day)
             turn  == DayEvents(plan, from, to, day, later)
         IN  \/ turn = later /\ here = rest
             \/ turn = <<>> /\ here = {}
             \/ /\ here = {start} \cup rest
                /\ turn = IF plan.repeat THEN <<start>> \o later ELSE <<start>>
<1> DEFINE start   == [day |-> day, time |-> plan.time]
           rest    == NamedFrom(plan, from, to, day + 1)
           here    == NamedFrom(plan, from, to, day)
           turn    == DayEvents(plan, from, to, day, later)
           days    == {w - 1 : w \in plan.weekdays \ {0}}
           skipped == \/ days # {} /\ PythonWeekday(day) \notin days
                      \/ days = {} /\ Before(start, from)
<1>0. to.day \in Nat /\ from.day \in Nat /\ to.time \in Nat /\ from.time \in Nat /\ plan.time \in Nat
  BY RecurrenceAssumption DEF Moment, TimerPlans
<1>1. here = rest \cup (IF Names(plan, from, to, day) THEN {start} ELSE {})
  <2>1. day..to.day = {day} \cup ((day + 1)..to.day)
    BY <1>0
  <2> QED BY <2>1 DEF NamedFrom
<1>2. turn = CASE skipped -> later
               [] ~skipped /\ Before(to, start) -> <<>>
               [] ~skipped /\ ~Before(to, start) ->
                    IF ~ShownFrom(start, from) THEN later
                    ELSE IF plan.repeat THEN <<start>> \o later ELSE <<start>>
  BY DEF DayEvents
<1>3. /\ days = {} <=> plan.weekdays \cap Weekdays = {}
      /\ PythonWeekday(day) \in days <=> (day % 7) + 1 \in plan.weekdays
  BY WeekdayIsPythons
<1> HIDE DEF turn, days, here, rest
<1>4. CASE skipped
  <2>1. ~Names(plan, from, to, day)
    BY <1>3, <1>4 DEF Names, NotAfter
  <2> QED BY <1>1, <1>2, <1>4, <2>1 DEF turn, here, rest
<1>5. CASE ~skipped /\ Before(to, start)
  <2>1. ~Names(plan, from, to, day)
    BY <1>5 DEF Names, NotAfter
  <2>2. day = to.day
    BY <1>0, <1>5 DEF Before
  <2>3. rest = {}
    BY <1>0, <2>2 DEF rest, NamedFrom
  <2>4. turn = <<>>
    BY <1>2, <1>5
  <2> QED BY <1>1, <2>1, <2>3, <2>4 DEF turn, here
<1>6. CASE ~skipped /\ ~Before(to, start) /\ ShownFrom(start, from)
  <2>1. Names(plan, from, to, day)
    BY <1>3, <1>6 DEF Names, NotAfter, ShownFrom
  <2>2. turn = IF plan.repeat THEN <<start>> \o later ELSE <<start>>
    BY <1>2, <1>6
  <2> QED BY <1>1, <2>1, <2>2 DEF turn, here, rest
<1>7. CASE ~skipped /\ ~Before(to, start) /\ ~ShownFrom(start, from)
  <2>1. ~Names(plan, from, to, day)
    BY <1>7 DEF Names, NotAfter, ShownFrom
  <2>2. turn = later
    BY <1>2, <1>7
  <2> QED BY <1>1, <2>1, <2>2 DEF turn, here, rest
<1> QED BY <1>4, <1>5, <1>6, <1>7

\* What has been collected from a day on are the moments named from that day on, all of
\* them in their order, or the first one.
Collected(plan, from, to, day, events) ==
  LET named == NamedFrom(plan, from, to, day) IN
  IF plan.repeat
  THEN /\ events \in Seq([day : Nat, time : {plan.time}])
       /\ ToSet(events) = named
       /\ \A i \in 1..(Len(events) - 1) : Before(events[i], events[i + 1])
  ELSE \/ events = <<>> /\ named = {}
       \/ \E m \in named : events = <<m>> /\ \A n \in named : NotAfter(m, n)

LEMMA NamedAreLater ==
  ASSUME NEW plan, NEW from, NEW to \in Moment, plan.time \in Nat, NEW day \in Nat,
         NEW m \in NamedFrom(plan, from, to, day + 1)
  PROVE  /\ Before([day |-> day, time |-> plan.time], m)
         /\ NotAfter([day |-> day, time |-> plan.time], m)
<1>1. PICK d \in (day + 1)..to.day : m = [day |-> d, time |-> plan.time]
  BY DEF NamedFrom
<1> QED BY <1>1 DEF Before, NotAfter, Moment

LEMMA PrependOrdered ==
  ASSUME NEW T, NEW x \in T, NEW s \in Seq(T),
         \A y \in ToSet(s) : Before(x, y),
         \A i \in 1..(Len(s) - 1) : Before(s[i], s[i + 1])
  PROVE  /\ <<x>> \o s \in Seq(T)
         /\ ToSet(<<x>> \o s) = {x} \cup ToSet(s)
         /\ \A i \in 1..(Len(<<x>> \o s) - 1) : Before((<<x>> \o s)[i], (<<x>> \o s)[i + 1])
<1> DEFINE t == <<x>> \o s
<1>1. /\ t \in Seq(T) /\ Len(t) = Len(s) + 1 /\ Len(s) \in Nat
      /\ t[1] = x /\ \A i \in 1..Len(s) : t[i + 1] = s[i]
      /\ DOMAIN t = 1..(Len(s) + 1) /\ DOMAIN s = 1..Len(s)
  OBVIOUS
<1> HIDE DEF t
<1>2. \A i \in 1..(Len(s) + 1) : i = 1 \/ (i - 1 \in 1..Len(s) /\ t[i] = s[i - 1])
  <2> SUFFICES ASSUME NEW i \in 1..(Len(s) + 1), i # 1
               PROVE  i - 1 \in 1..Len(s) /\ t[i] = s[i - 1]
    OBVIOUS
  <2>1. i - 1 \in 1..Len(s) /\ (i - 1) + 1 = i
    BY <1>1
  <2> QED BY <1>1, <2>1
<1>3. ToSet(t) = {x} \cup ToSet(s)
  <2>1. ASSUME NEW y \in ToSet(t) PROVE y \in {x} \cup ToSet(s)
    BY <1>1, <1>2, <2>1 DEF ToSet
  <2>2. ASSUME NEW y \in ToSet(s) PROVE y \in ToSet(t)
    <3>1. PICK i \in 1..Len(s) : y = s[i]
      BY <1>1 DEF ToSet
    <3>2. i + 1 \in 1..(Len(s) + 1) /\ t[i + 1] = y
      BY <1>1, <3>1
    <3> QED BY <1>1, <3>2 DEF ToSet
  <2>3. x \in ToSet(t)
    BY <1>1 DEF ToSet
  <2> QED BY <2>1, <2>2, <2>3
<1>4. ASSUME NEW i \in 1..(Len(t) - 1) PROVE Before(t[i], t[i + 1])
  <2>1. i \in 1..Len(s) /\ t[i + 1] = s[i]
    BY <1>1
  <2>2. CASE i = 1
    BY <1>1, <2>1, <2>2 DEF ToSet
  <2>3. CASE i # 1
    <3>1. i - 1 \in 1..(Len(s) - 1) /\ t[i] = s[i - 1] /\ (i - 1) + 1 = i
      BY <1>1, <1>2, <2>1, <2>3
    <3> QED BY <2>1, <3>1
  <2> QED BY <2>2, <2>3
<1> QED BY <1>1, <1>3, <1>4 DEF t

LEMMA TurnCollects ==
  ASSUME NEW plan \in TimerPlans, NEW from \in Moment, NEW to \in Moment,
         NEW day \in Nat, day <= to.day, NEW later,
         Collected(plan, from, to, day + 1, later)
  PROVE  Collected(plan, from, to, day, DayEvents(plan, from, to, day, later))
<1> DEFINE start == [day |-> day, time |-> plan.time]
           rest  == NamedFrom(plan, from, to, day + 1)
           here  == NamedFrom(plan, from, to, day)
           turn  == DayEvents(plan, from, to, day, later)
           T     == [day : Nat, time : {plan.time}]
<1>0. plan.time \in Nat /\ start \in T
  BY RecurrenceAssumption DEF TimerPlans
<1>1. CASE turn = later /\ here = rest
  BY <1>1 DEF Collected
<1>2. CASE turn = <<>> /\ here = {}
  <2>1. <<>> \in Seq(T) /\ ToSet(<<>>) = {} /\ Len(<<>>) = 0
    BY DEF ToSet
  <2> HIDE DEF turn, here
  <2>2. \A i \in 1..(Len(<<>>) - 1) : Before(<<>>[i], <<>>[i + 1])
    BY <2>1
  <2> QED BY <1>2, <2>1, <2>2 DEF Collected, turn, here
<1>3. CASE here = {start} \cup rest /\ turn = IF plan.repeat THEN <<start>> \o later ELSE <<start>>
  <2>1. \A m \in rest : Before(start, m) /\ NotAfter(start, m)
    BY <1>0, NamedAreLater
  <2>2. CASE plan.repeat
    <3>1. /\ later \in Seq(T) /\ ToSet(later) = rest
          /\ \A i \in 1..(Len(later) - 1) : Before(later[i], later[i + 1])
      BY <2>2 DEF Collected
    <3>2. turn = <<start>> \o later
      BY <1>3, <2>2
    <3> HIDE DEF start, rest, here, turn, T
    <3>3. /\ turn \in Seq(T) /\ ToSet(turn) = {start} \cup rest
          /\ \A i \in 1..(Len(turn) - 1) : Before(turn[i], turn[i + 1])
      BY <1>0, <2>1, <3>1, <3>2, PrependOrdered
    <3> QED BY <1>3, <2>2, <3>3 DEF Collected, here, turn, T
  <2>3. CASE ~plan.repeat
    <3>1. turn = <<start>>
      BY <1>3, <2>3
    <3>2. NotAfter(start, start)
      BY <1>0 DEF NotAfter, Before
    <3> QED BY <1>3, <2>1, <2>3, <3>1, <3>2 DEF Collected
  <2> QED BY <2>2, <2>3
<1> QED BY <1>1, <1>2, <1>3, TurnOfDay

\* The loop, from the last day to the first.
LEMMA LoopCollects ==
  ASSUME NEW plan \in TimerPlans, NEW from \in Moment, NEW to \in Moment,
         from.day <= to.day, NEW f, IsLoop(plan, from, to, f)
  PROVE  Collected(plan, from, to, from.day, f[from.day])
<1> DEFINE last == to.day + 1
           S == {k \in Nat : k <= last - from.day =>
                               Collected(plan, from, to, last - k, f[last - k])}
<1>0. to.day \in Nat /\ from.day \in Nat /\ last \in Nat /\ last - 1 = to.day
  BY DEF Moment
<1>1. 0 \in S
  <2>1. last - 0 = last /\ f[last] = <<>>
    BY <1>0 DEF IsLoop, Days, Turn
  <2>2. NamedFrom(plan, from, to, last) = {}
    BY <1>0 DEF NamedFrom
  <2>3. <<>> \in Seq([day : Nat, time : {plan.time}]) /\ ToSet(<<>>) = {} /\ Len(<<>>) = 0
    BY DEF ToSet
  <2>4. \A i \in 1..(Len(<<>>) - 1) : Before(<<>>[i], <<>>[i + 1])
    BY <2>3
  <2>5. Collected(plan, from, to, last, <<>>)
    BY <2>2, <2>3, <2>4 DEF Collected
  <2> QED BY <2>1, <2>5
<1>2. ASSUME NEW k \in Nat, k \in S PROVE k + 1 \in S
  <2> SUFFICES ASSUME k + 1 <= last - from.day
               PROVE  Collected(plan, from, to, last - (k + 1), f[last - (k + 1)])
    OBVIOUS
  <2> DEFINE day == last - (k + 1)
  <2>1. day \in Nat /\ day <= to.day /\ day + 1 = last - k /\ day \in Days(from, to)
    BY <1>0 DEF Days
  <2>2. f[day] = DayEvents(plan, from, to, day, f[day + 1])
    BY <1>0, <2>1 DEF IsLoop, Turn
  <2>3. Collected(plan, from, to, day + 1, f[day + 1])
    BY <1>0, <1>2, <2>1
  <2> HIDE DEF day
  <2>4. Collected(plan, from, to, day, f[day])
    BY <2>1, <2>2, <2>3, TurnCollects
  <2> QED BY <2>4 DEF day
<1>3. \A k \in Nat : k \in S
  <2> HIDE DEF S
  <2> QED BY <1>1, <1>2, Induction
<1>4. last - from.day \in Nat /\ last - (last - from.day) = from.day
  BY <1>0
<1> QED BY <1>3, <1>4

-----------------------------------------------------------------------------
(* Moments and windows.                                                    *)

LEMMA NamedAreTyped ==
  ASSUME NEW plan, plan.time \in Nat, NEW from \in Moment, NEW to \in Moment,
         NEW m \in NamedFrom(plan, from, to, from.day)
  PROVE  /\ m.day \in Nat /\ m.time = plan.time
         /\ m = [day |-> m.day, time |-> plan.time]
         /\ m.day \in from.day..to.day
         /\ Names(plan, from, to, m.day)
<1>1. PICK d \in from.day..to.day : Names(plan, from, to, d) /\ m = [day |-> d, time |-> plan.time]
  BY DEF NamedFrom
<1>2. d \in Nat /\ m.day = d
  BY <1>1 DEF Moment
<1> QED BY <1>1, <1>2

\* The moments named in a window, as the properties write them.
LEMMA NamedInWindow ==
  ASSUME NEW plan, plan.time \in Nat, NEW from \in Moment, NEW to \in Moment, NEW m
  PROVE  m \in NamedFrom(plan, from, to, from.day)
           <=> /\ m \in MomentsOn(from.day..to.day, plan)
               /\ Within(m, from, to) /\ Matches(plan, m)
<1>1. ASSUME m \in NamedFrom(plan, from, to, from.day)
      PROVE  /\ m \in MomentsOn(from.day..to.day, plan)
             /\ Within(m, from, to) /\ Matches(plan, m)
  <2>1. /\ m.day \in from.day..to.day /\ m.time = plan.time
        /\ m = [day |-> m.day, time |-> plan.time] /\ Names(plan, from, to, m.day)
    BY <1>1, NamedAreTyped
  <2>2. m \in MomentsOn(from.day..to.day, plan)
    BY <2>1 DEF MomentsOn
  <2> QED BY <2>1, <2>2 DEF Names, Within, Matches
<1>2. ASSUME m \in MomentsOn(from.day..to.day, plan), Within(m, from, to), Matches(plan, m)
      PROVE  m \in NamedFrom(plan, from, to, from.day)
  <2>1. /\ m.day \in from.day..to.day /\ m.time = plan.time
        /\ m = [day |-> m.day, time |-> plan.time]
    BY <1>2 DEF MomentsOn
  <2>2. Names(plan, from, to, m.day)
    BY <1>2, <2>1 DEF Names, Within, Matches
  <2> QED BY <2>1, <2>2 DEF NamedFrom
<1> QED BY <1>1, <1>2

\* Moments at one time of day are ordered as their days.
LEMMA SameTimeOrder ==
  ASSUME NEW a, NEW b, a.day \in Nat, b.day \in Nat, a.time \in Nat, a.time = b.time
  PROVE  /\ Before(a, b) <=> a.day < b.day
         /\ NotAfter(a, b) <=> a.day <= b.day
BY DEF Before, NotAfter

\* A moment that is not before another, nor on an earlier day.
LEMMA NotAfterDays ==
  ASSUME NEW a, NEW b, a.day \in Nat, b.day \in Nat, NotAfter(a, b)
  PROVE  a.day <= b.day
BY DEF Before, NotAfter

\* With nothing between two moments, what a timer names comes after both or neither.
LEMMA AfterBoth ==
  ASSUME NEW plan \in TimerPlans, ~plan.repeat, NEW now \in Moment, NEW from \in Moment,
         NothingBetween(plan, now, from), NEW n, n.day \in Nat,
         n = [day |-> n.day, time |-> plan.time], Matches(plan, n)
  PROVE  NotAfter(now, n) <=> NotAfter(from, n)
<1>0. now.day \in Nat /\ from.day \in Nat /\ now.time \in Nat /\ from.time \in Nat /\ plan.time \in Nat
  BY RecurrenceAssumption DEF Moment, TimerPlans
<1>1. CASE n.day \in (now.day..from.day) \cup (from.day..now.day)
  <2>1. n \in MomentsOn((now.day..from.day) \cup (from.day..now.day), plan)
    BY <1>1 DEF MomentsOn
  <2>2. Before(n, now) <=> Before(n, from)
    BY <2>1 DEF NothingBetween
  <2> QED BY <2>2 DEF NotAfter
<1>2. CASE n.day \notin (now.day..from.day) \cup (from.day..now.day)
  <2>1. (n.day < now.day /\ n.day < from.day) \/ (n.day > now.day /\ n.day > from.day)
    BY <1>0, <1>2
  <2> QED BY <1>0, <2>1 DEF NotAfter, Before
<1> QED BY <1>1, <1>2

-----------------------------------------------------------------------------
(* Starts of a timer that does not repeat.                                 *)

\* There is one of them.
LEMMA OneStart ==
  ASSUME NEW plan, plan.time \in Nat, ~plan.repeat, NEW now \in Moment,
         NEW m, m.day \in Nat, m = [day |-> m.day, time |-> plan.time],
         NEW k, k.day \in Nat, k = [day |-> k.day, time |-> plan.time],
         Starts(plan, now, m), Starts(plan, now, k)
  PROVE  k = m
<1>0. now.day \in Nat /\ m.time = plan.time /\ k.time = plan.time
  BY DEF Moment
<1>1. NotAfter(now, m) /\ NotAfter(now, k) /\ Matches(plan, m) /\ Matches(plan, k)
  BY DEF Starts
<1>2. now.day <= m.day /\ now.day <= k.day
  BY <1>0, <1>1, NotAfterDays
<1>3. ASSUME m.day <= k.day PROVE k.day <= m.day
  <2>1. m \in MomentsOn(now.day..k.day, plan)
    BY <1>0, <1>2, <1>3 DEF MomentsOn
  <2>2. NotAfter(k, m)
    BY <1>1, <2>1 DEF Starts
  <2> QED BY <1>0, <2>2, NotAfterDays
<1>4. ASSUME k.day <= m.day PROVE m.day <= k.day
  <2>1. k \in MomentsOn(now.day..m.day, plan)
    BY <1>0, <1>2, <1>4 DEF MomentsOn
  <2>2. NotAfter(m, k)
    BY <1>1, <2>1 DEF Starts
  <2> QED BY <1>0, <2>2, NotAfterDays
<1>5. m.day = k.day
  BY <1>3, <1>4
<1> QED BY <1>5

\* The earliest moment a window has of a timer is a start of it.
LEMMA EarliestStarts ==
  ASSUME NEW plan \in TimerPlans, plan.activated = TRUE,
         NEW now \in Moment, NEW from \in Moment, NEW to \in Moment,
         NothingBetween(plan, now, from),
         NEW m \in NamedFrom(plan, from, to, from.day),
         plan.repeat \/ \A n \in NamedFrom(plan, from, to, from.day) : NotAfter(m, n)
  PROVE  Starts(plan, now, m)
<1>0. /\ now.day \in Nat /\ from.day \in Nat /\ to.day \in Nat /\ to.time \in Nat
      /\ plan.time \in Nat /\ plan.repeat \in BOOLEAN
  BY RecurrenceAssumption DEF Moment, TimerPlans
<1>1. /\ m.day \in Nat /\ m.time = plan.time /\ m = [day |-> m.day, time |-> plan.time]
      /\ Within(m, from, to) /\ Matches(plan, m)
  BY <1>0, NamedAreTyped, NamedInWindow
<1>2. CASE plan.repeat
  BY <1>1, <1>2 DEF Starts
<1>3. CASE ~plan.repeat
  <2>1. NotAfter(now, m)
    BY <1>1, <1>3, AfterBoth DEF Within
  <2>2. ASSUME NEW n \in MomentsOn(now.day..m.day, plan), Matches(plan, n), NotAfter(now, n)
        PROVE  NotAfter(m, n)
    <3>1. n.day \in now.day..m.day /\ n.time = plan.time /\ n = [day |-> n.day, time |-> plan.time]
      BY DEF MomentsOn
    <3>2. n.day \in Nat /\ n.day <= m.day
      BY <1>0, <1>1, <3>1
    <3>3. NotAfter(from, n)
      BY <1>3, <2>2, <3>1, <3>2, AfterBoth
    <3>4. from.day <= n.day
      BY <1>0, <3>2, <3>3, NotAfterDays
    <3>5. NotAfter(m, to) /\ m.day <= to.day
      BY <1>0, <1>1, NotAfterDays DEF Within
    <3>6. NotAfter(n, to)
      BY <1>0, <1>1, <3>1, <3>2, <3>5 DEF NotAfter, Before
    <3>7. n \in MomentsOn(from.day..to.day, plan)
      <4>1. n.day \in from.day..to.day
        BY <1>0, <1>1, <3>2, <3>4, <3>5
      <4> QED BY <3>1, <4>1 DEF MomentsOn
    <3>8. n \in NamedFrom(plan, from, to, from.day)
      BY <1>0, <2>2, <3>3, <3>6, <3>7, NamedInWindow DEF Within
    <3> QED BY <1>3, <3>8
  <2> QED BY <1>1, <1>3, <2>1, <2>2 DEF Starts
<1> QED BY <1>0, <1>2, <1>3

-----------------------------------------------------------------------------
(* What the calendar shows.                                                *)

LEMMA BuiltIsCollected ==
  ASSUME NEW plan \in TimerPlans, NEW from \in Moment, NEW to \in Moment,
         from.day <= to.day, plan.activated
  PROVE  Collected(plan, from, to, from.day, BuildEvents(plan, from, to))
<1>1. PICK f : IsLoop(plan, from, to, f) /\ BuildEvents(plan, from, to) = f[from.day]
  BY LoopBuildsEvents
<1> QED BY <1>1, LoopCollects

LEMMA OfOne ==
  ASSUME NEW m
  PROVE  ToSet(<<m>>) = {m} /\ Len(<<m>>) = 1 /\ <<m>>[1] = m
BY DEF ToSet

LEMMA OfNone == ToSet(<<>>) = {} /\ Len(<<>>) = 0
BY DEF ToSet

\* The first event is the earliest moment of the window, and there is one if the window
\* has a moment of the timer.
LEMMA FirstIsEarliest ==
  ASSUME NEW plan \in TimerPlans, NEW from \in Moment, NEW to \in Moment,
         from.day <= to.day, plan.activated
  PROVE  LET events == BuildEvents(plan, from, to)
             all    == NamedFrom(plan, from, to, from.day)
         IN  /\ all = {} => events = <<>>
             /\ all # {} => /\ events # <<>> /\ events[1] \in all
                            /\ \A n \in all : NotAfter(events[1], n)
<1> DEFINE events == BuildEvents(plan, from, to)
           all    == NamedFrom(plan, from, to, from.day)
<1>0. plan.time \in Nat /\ plan.repeat \in BOOLEAN
  BY RecurrenceAssumption DEF TimerPlans
<1>1. Collected(plan, from, to, from.day, events)
  BY BuiltIsCollected
<1>2. \A n \in all : /\ n.day \in Nat /\ n.time = plan.time
                     /\ n = [day |-> n.day, time |-> plan.time]
  BY <1>0, NamedAreTyped
<1> SUFFICES /\ all = {} => events = <<>>
             /\ all # {} => /\ events # <<>> /\ events[1] \in all
                            /\ \A n \in all : NotAfter(events[1], n)
  OBVIOUS
<1> HIDE DEF events
<1>3. CASE plan.repeat
  <2>1. /\ events \in Seq([day : Nat, time : {plan.time}])
        /\ ToSet(events) = all
        /\ \A i \in 1..(Len(events) - 1) : Before(events[i], events[i + 1])
    BY <1>1, <1>3 DEF Collected
  <2> HIDE DEF all
  <2>2. DOMAIN events = 1..Len(events) /\ Len(events) \in Nat
    BY <2>1
  <2>3. CASE all = {}
    <3>1. ~(1 \in DOMAIN events)
      BY <2>1, <2>3 DEF ToSet
    <3>2. Len(events) = 0
      BY <2>2, <3>1
    <3> QED BY <2>1, <2>3, <3>2
  <2>4. CASE all # {}
    <3> DEFINE T == {n.day : n \in all}
    <3>1. T \in SUBSET Nat /\ T # {}
      BY <1>2, <2>4
    <3>2. PICK least \in T : \A day \in T : least <= day
      <4> HIDE DEF T
      <4> QED BY <3>1, LeastNumber
    <3>3. PICK m \in all : m.day = least
      BY <3>2
    <3>4. \A n \in all : NotAfter(m, n)
      BY <1>0, <1>2, <3>2, <3>3, SameTimeOrder
    <3>5. PICK i \in DOMAIN events : events[i] = m
      BY <2>1 DEF ToSet
    <3>6. CASE i = 1
      BY <2>2, <2>4, <3>3, <3>4, <3>5, <3>6
    <3>7. CASE i # 1
      <4>1. i - 1 \in 1..(Len(events) - 1) /\ (i - 1) + 1 = i /\ i - 1 \in DOMAIN events
        BY <2>2, <3>7
      <4>2. Before(events[i - 1], m)
        BY <2>1, <3>5, <4>1
      <4>3. events[i - 1] \in all
        BY <2>1, <4>1 DEF ToSet
      <4>4. NotAfter(m, events[i - 1])
        BY <3>4, <4>3
      <4> QED BY <4>2, <4>4 DEF NotAfter
    <3> QED BY <3>6, <3>7
  <2> QED BY <2>3, <2>4
<1>4. CASE ~plan.repeat
  <2>1. \/ events = <<>> /\ all = {}
        \/ \E m \in all : events = <<m>> /\ \A n \in all : NotAfter(m, n)
    BY <1>1, <1>4 DEF Collected
  <2> HIDE DEF all
  <2>2. CASE events = <<>> /\ all = {}
    BY <2>2
  <2>3. CASE \E m \in all : events = <<m>> /\ \A n \in all : NotAfter(m, n)
    <3>1. PICK m \in all : events = <<m>> /\ \A n \in all : NotAfter(m, n)
      BY <2>3
    <3>2. events # <<>> /\ events[1] = m
      BY <3>1
    <3> QED BY <3>1, <3>2
  <2> QED BY <2>1, <2>2, <2>3
<1> QED BY <1>0, <1>3, <1>4 DEF events, all

\* The events of any window of any timer are in order and at moments the timer names, and
\* are the car's starts in the window: those of a timer that repeats always, that of one
\* that does not where none of its moments lies between now and the window's beginning
\* (_build_events).
THEOREM EventsAreTheStarts ==
  ASSUME NEW plan \in TimerPlans, NEW now \in Moment, NEW from \in Moment, NEW to \in Moment,
         from.day <= to.day
  PROVE  EventsAreStarts(BuildEvents(plan, from, to), plan, now, from, to)
<1> DEFINE events == BuildEvents(plan, from, to)
           all    == NamedFrom(plan, from, to, from.day)
           starts == StartsIn(plan, now, from, to)
<1>0. plan.time \in Nat /\ plan.repeat \in BOOLEAN /\ plan.activated \in BOOLEAN
  BY RecurrenceAssumption DEF TimerPlans
<1>1. \A m : m \in all <=> /\ m \in MomentsOn(from.day..to.day, plan)
                          /\ Within(m, from, to) /\ Matches(plan, m)
  BY <1>0, NamedInWindow
<1>2. \A m : m \in starts <=> m \in all /\ Starts(plan, now, m)
  BY <1>1 DEF StartsIn, Starts
<1>3. \A m \in all : m.day \in Nat /\ m = [day |-> m.day, time |-> plan.time]
  BY <1>0, NamedAreTyped
<1>4. CASE ~plan.activated
  <2>1. events = <<>>
    BY <1>4 DEF BuildEvents
  <2>2. starts = {}
    BY <1>4 DEF StartsIn, Starts
  <2> HIDE DEF events, starts
  <2>3. ToSet(events) = {} /\ Len(events) = 0
    BY <2>1, OfNone
  <2>4. \A i \in 1..(Len(events) - 1) : Before(events[i], events[i + 1])
    BY <2>3
  <2> QED BY <2>2, <2>3, <2>4 DEF EventsAreStarts, events, starts
<1>5. CASE plan.activated
  <2>1. Collected(plan, from, to, from.day, events)
    BY <1>5, BuiltIsCollected
  <2>2. plan.activated = TRUE
    BY <1>0, <1>5
  <2>3. CASE plan.repeat
    <3>1. /\ events \in Seq([day : Nat, time : {plan.time}])
          /\ ToSet(events) = all
          /\ \A i \in 1..(Len(events) - 1) : Before(events[i], events[i + 1])
      BY <2>1, <2>3 DEF Collected
    <3>2. NothingBetween(plan, now, from)
      BY <2>3 DEF NothingBetween
    <3>3. \A m \in all : Starts(plan, now, m)
      BY <2>2, <2>3, <3>2, EarliestStarts
    <3> HIDE DEF events, all, starts
    <3>4. starts = all
      BY <1>2, <3>3
    <3> QED BY <1>1, <2>3, <3>1, <3>4 DEF EventsAreStarts, events, starts
  <2>4. CASE ~plan.repeat /\ events = <<>> /\ all = {}
    <3> HIDE DEF events, all, starts
    <3>1. starts = {}
      BY <1>2, <2>4
    <3>2. ToSet(events) = {} /\ Len(events) = 0
      BY <2>4, OfNone
    <3>3. \A i \in 1..(Len(events) - 1) : Before(events[i], events[i + 1])
      BY <3>2
    <3> QED BY <3>1, <3>2, <3>3 DEF EventsAreStarts, events, starts
  <2>5. CASE ~plan.repeat /\ \E m \in all : events = <<m>> /\ \A n \in all : NotAfter(m, n)
    <3>1. PICK m \in all : events = <<m>> /\ \A n \in all : NotAfter(m, n)
      BY <2>5
    <3>2. ASSUME NothingBetween(plan, now, from) PROVE starts = {m}
      <4>1. Starts(plan, now, m)
        BY <2>2, <3>1, <3>2, EarliestStarts
      <4> HIDE DEF all, starts
      <4>2. \A k \in starts : k = m
        BY <1>0, <1>2, <1>3, <2>5, <4>1, OneStart
      <4> QED BY <1>2, <4>1, <4>2
    <3>3. ToSet(<<m>>) = {m} /\ Len(<<m>>) = 1
      BY OfOne
    <3> HIDE DEF events, all, starts
    <3>4. ToSet(events) = {m} /\ Len(events) = 1
      BY <3>1, <3>3
    <3>5. \A i \in 1..(Len(events) - 1) : Before(events[i], events[i + 1])
      BY <3>4
    <3> QED BY <1>1, <3>2, <3>4, <3>5 DEF EventsAreStarts, events, starts
  <2> QED BY <1>0, <2>1, <2>3, <2>4, <2>5 DEF Collected
<1> QED BY <1>0, <1>4, <1>5

\* A day of a given weekday comes within a week of any day.
LEMMA WeekdayComes ==
  ASSUME NEW day \in Nat, NEW w \in Weekdays
  PROVE  \E d \in (day + 1)..(day + 7) : (d % 7) + 1 = w
<1> DEFINE r == (day + 1) % 7
           k == IF w - 1 >= r THEN w - 1 - r ELSE w + 6 - r
<1>1. r \in 0..6 /\ w \in 1..7
  BY DEF Weekdays
<1>2. k \in 0..6 /\ (r + k = w - 1 \/ r + k = w + 6)
  BY <1>1
<1>3. day + 1 + k \in (day + 1)..(day + 7)
  <2> HIDE DEF k
  <2> QED BY <1>2
<1>4. (day + 1 + k) % 7 = w - 1
  <2>1. PICK q \in Nat : day + 1 = 7 * q + r
    OBVIOUS
  <2> HIDE DEF k, r
  <2>2. day + 1 + k = 7 * q + (w - 1) \/ day + 1 + k = 7 * (q + 1) + (w - 1)
    BY <1>1, <1>2, <2>1
  <2> QED BY <1>1, <2>2
<1> QED BY <1>1, <1>3, <1>4

\* An activated timer names a moment in the days an entity looks ahead.
LEMMA SomethingAhead ==
  ASSUME NEW plan \in TimerPlans, NEW now \in Moment, NEW to \in Moment,
         to.day = now.day + LookAhead
  PROVE  NamedFrom(plan, now, to, now.day) # {}
<1>0. now.day \in Nat /\ now.time \in Nat /\ to.time \in Nat /\ plan.time \in Nat
  BY RecurrenceAssumption DEF Moment, TimerPlans
<1>1. \E d \in (now.day + 1)..(now.day + 7) :
        plan.weekdays \cap Weekdays # {} => (d % 7) + 1 \in plan.weekdays
  <2>1. CASE plan.weekdays \cap Weekdays = {}
    <3>1. now.day + 1 \in (now.day + 1)..(now.day + 7)
      BY <1>0
    <3> QED BY <2>1, <3>1
  <2>2. CASE plan.weekdays \cap Weekdays # {}
    <3>1. PICK w \in Weekdays : w \in plan.weekdays
      BY <2>2
    <3> QED BY <1>0, <3>1, WeekdayComes
  <2> QED BY <2>1, <2>2
<1>2. PICK d \in (now.day + 1)..(now.day + 7) :
        plan.weekdays \cap Weekdays # {} => (d % 7) + 1 \in plan.weekdays
  BY <1>1
<1>3. d \in now.day..to.day /\ now.day < d /\ d < to.day /\ d \in Nat /\ to.day \in Nat
  BY <1>0 DEF LookAhead
<1>4. Names(plan, now, to, d)
  <2>1. PICK m : m = [day |-> d, time |-> plan.time]
    OBVIOUS
  <2>2. m.day = d
    BY <2>1
  <2>3. ~Before(m, now)
    BY <1>0, <1>3, <2>2 DEF Before
  <2>4. ~Before(to, m)
    BY <1>0, <1>3, <2>2 DEF Before
  <2> QED BY <1>2, <2>1, <2>3, <2>4 DEF Names, NotAfter
<1> QED BY <1>3, <1>4 DEF NamedFrom

\* The event an entity shows is the car's next start, for every timer and at any time
\* (event).
THEOREM NextEventIsTheStart ==
  ASSUME NEW plan \in TimerPlans, NEW now \in Moment, NEW to \in Moment,
         to = [now EXCEPT !.day = now.day + LookAhead],
         NEW shown, NEW events, events = BuildEvents(plan, now, to),
         shown = IF events = <<>> THEN <<>> ELSE <<events[1]>>
  PROVE  ShowsNextStart(shown, plan, now)
<1> DEFINE all == NamedFrom(plan, now, to, now.day)
<1>0. /\ now.day \in Nat /\ plan.time \in Nat /\ plan.activated \in BOOLEAN
      /\ to.day \in Nat /\ to.time \in Nat /\ plan.repeat \in BOOLEAN
  BY RecurrenceAssumption DEF Moment, TimerPlans
<1>1. to.day = now.day + LookAhead /\ now.day <= to.day
  BY <1>0 DEF Moment, LookAhead
<1>2. CASE ~plan.activated
  <2>1. events = <<>>
    BY <1>2 DEF BuildEvents
  <2> QED BY <1>2, <2>1 DEF ShowsNextStart
<1>3. CASE plan.activated
  <2>1. all # {}
    BY <1>1, SomethingAhead
  <2>13. events # <<>> /\ events[1] \in all /\ \A n \in all : NotAfter(events[1], n)
    BY <1>1, <1>3, <2>1, FirstIsEarliest
  <2>2. PICK m \in all : events # <<>> /\ m = events[1] /\ \A n \in all : NotAfter(m, n)
    BY <2>13
  <2>3. NothingBetween(plan, now, now)
    BY DEF NothingBetween
  <2>4. plan.activated = TRUE
    BY <1>0, <1>3
  <2>5. Starts(plan, now, m)
    BY <2>2, <2>3, <2>4, EarliestStarts
  <2>6. /\ m.day \in Nat /\ m.time = plan.time /\ m = [day |-> m.day, time |-> plan.time]
        /\ m.day \in now.day..to.day /\ Within(m, now, to)
    <3>1. Within(m, now, to)
      BY <1>0, NamedInWindow
    <3>2. m \in NamedFrom(plan, now, to, now.day)
      OBVIOUS
    <3>3. m.day \in Nat /\ m.time = plan.time
      BY <1>0, <3>2, NamedAreTyped
    <3>4. m = [day |-> m.day, time |-> plan.time]
      BY <1>0, <3>2, NamedAreTyped
    <3>5. m.day \in now.day..to.day
      BY <1>0, <3>2, NamedAreTyped
    <3> QED BY <3>1, <3>3, <3>4, <3>5
  <2>7. NotAfter(m, m)
    BY <1>0, <2>6 DEF NotAfter, Before
  <2>8. m \in StartsIn(plan, now, now, m)
    <3>1. m \in MomentsOn(now.day..m.day, plan)
      BY <1>0, <2>6 DEF MomentsOn
    <3> QED BY <2>5, <2>6, <2>7, <3>1 DEF StartsIn, Within
  <2>9. ASSUME NEW k \in StartsIn(plan, now, now, m) PROVE k = m
    <3>1. k \in MomentsOn(now.day..m.day, plan) /\ Within(k, now, m) /\ Matches(plan, k)
      BY DEF StartsIn, Starts
    <3>2. k.day \in now.day..m.day /\ k.time = plan.time /\ k = [day |-> k.day, time |-> plan.time]
      BY <3>1 DEF MomentsOn
    <3>3. k.day \in Nat /\ k.day <= m.day /\ k.day \in now.day..to.day
      BY <1>0, <2>6, <3>2
    <3>4. NotAfter(k, to)
      BY <1>0, <2>6, <3>2, <3>3 DEF NotAfter, Before, Within
    <3>5. k \in MomentsOn(now.day..to.day, plan)
      BY <3>2, <3>3 DEF MomentsOn
    <3>6. k \in all
      BY <1>0, <3>1, <3>4, <3>5, NamedInWindow DEF Within
    <3>7. NotAfter(m, k)
      BY <2>2, <3>6
    <3>8. m.day <= k.day
      BY <2>6, <3>3, <3>7, NotAfterDays
    <3>9. m.day = k.day
      BY <2>6, <3>3, <3>8
    <3> QED BY <2>6, <3>2, <3>9
  <2>10. StartsIn(plan, now, now, m) = {m}
    BY <2>8, <2>9
  <2>11. m \in MomentsOn(now.day..(now.day + LookAhead), plan)
    BY <1>1, <2>6 DEF MomentsOn
  <2>12. shown = <<m>>
    BY <2>2
  <2> QED BY <1>3, <2>10, <2>11, <2>12 DEF ShowsNextStart
<1> QED BY <1>0, <1>2, <1>3

-----------------------------------------------------------------------------
(* What saving an event does.                                              *)

\* A repeating timer's rule stands for its weekdays, or for every day.
LEMMA RuleOfRepeating ==
  ASSUME NEW plan, plan.repeat = TRUE, NEW day
  PROVE  ParseWeekdays(day, TimerRule(plan))
           = [weekdays |-> IF plan.weekdays \cap Weekdays = {} THEN Weekdays
                           ELSE plan.weekdays \cap Weekdays,
              repeat |-> TRUE, ok |-> TRUE]
<1> DEFINE days == plan.weekdays \cap Weekdays
           rule == TimerRule(plan)
<1>1. CASE days = {}
  <2>1. rule = [freq |-> "DAILY", interval |-> 1, until |-> FALSE, count |-> 0, byday |-> {}]
    BY <1>1 DEF TimerRule, NoRule
  <2> QED BY <1>1, <2>1 DEF ParseWeekdays
<1>2. CASE days # {}
  <2> HIDE DEF days
  <2>1. rule = [freq |-> "WEEKLY", interval |-> 1, until |-> FALSE, count |-> 0, byday |-> days]
    <3>1. rule = [NoRule EXCEPT !.freq = "WEEKLY", !.byday = days]
      BY <1>2 DEF TimerRule, days
    <3> QED BY <3>1, Zenon DEF NoRule
  <2> HIDE DEF rule
  <2>2. /\ rule.freq = "WEEKLY" /\ rule.interval = 1 /\ rule.until = FALSE
        /\ rule.count = 0 /\ rule.byday = days
    BY <2>1
  <2>3. /\ rule.freq # "none" /\ rule.freq # "DAILY" /\ rule.count # 1 /\ ~(rule.count > 1)
        /\ ~(rule.interval # 1 \/ rule.until)
    BY <2>2
  <2>4. ParseWeekdays(day, rule) = [weekdays |-> rule.byday, repeat |-> TRUE, ok |-> TRUE]
    BY <1>2, <2>2, <2>3 DEF ParseWeekdays
  <2> QED BY <1>2, <2>2, <2>4 DEF rule, days
<1> QED BY <1>1, <1>2

\* Saving the earliest moment of a window keeps the starts of its timer, at every
\* moment there is.
LEMMA SavingAStart ==
  ASSUME NEW plan \in TimerPlans, NEW now \in Moment, NEW from \in Moment, NEW to \in Moment,
         plan.activated = TRUE, NEW m \in NamedFrom(plan, from, to, from.day),
         \A n \in NamedFrom(plan, from, to, from.day) : NotAfter(m, n),
         NEW k, k.day \in Nat, k = [day |-> k.day, time |-> plan.time],
         NothingBetween(plan, now, from)
  PROVE  Starts(SavedAsOpened(plan, m), now, k) <=> Starts(plan, now, k)
<1> DEFINE parsed == ParseWeekdays(m.day, TimerRule(plan))
           saved  == SavedAsOpened(plan, m)
<1>0. plan.time \in Nat /\ plan.repeat \in BOOLEAN /\ now.day \in Nat
  BY RecurrenceAssumption DEF TimerPlans, Moment
<1>1. /\ m.day \in Nat /\ m.time = plan.time /\ m = [day |-> m.day, time |-> plan.time]
      /\ Matches(plan, m)
  BY <1>0, NamedAreTyped, NamedInWindow
<1>4. /\ saved.time = plan.time /\ saved.activated = plan.activated
      /\ saved.weekdays = parsed.weekdays /\ saved.repeat = parsed.repeat
  BY <1>1 DEF SavedAsOpened
<1>5. Starts(plan, now, m)
  BY EarliestStarts
<1> HIDE DEF saved
<1>2. CASE plan.repeat
  <2>1. parsed = [weekdays |-> IF plan.weekdays \cap Weekdays = {} THEN Weekdays
                               ELSE plan.weekdays \cap Weekdays,
                  repeat |-> TRUE, ok |-> TRUE]
    BY <1>2, RuleOfRepeating
  <2>2. Matches(saved, k) <=> Matches(plan, k)
    <3>1. (k.day % 7) + 1 \in Weekdays
      BY DEF Weekdays
    <3> QED BY <1>4, <2>1, <3>1 DEF Matches
  <2>3. saved.repeat = TRUE
    BY <1>4, <2>1
  <2>4. Starts(saved, now, k) <=> Starts(plan, now, k)
    BY <1>2, <1>4, <2>2, <2>3 DEF Starts
  <2> QED BY <2>4 DEF saved
<1>3. CASE ~plan.repeat
  <2>1. parsed = [weekdays |-> {(m.day % 7) + 1}, repeat |-> FALSE, ok |-> TRUE]
    BY <1>3 DEF ParseWeekdays, TimerRule, NoRule, WeekdayFromPython, PythonWeekday
  <2>2. (m.day % 7) + 1 \in Weekdays
    BY <1>1 DEF Weekdays
  <2>3. ASSUME NEW n, Matches(saved, n) PROVE Matches(plan, n)
    <3>1. (n.day % 7) + 1 = (m.day % 7) + 1
      BY <1>4, <2>1, <2>2, <2>3 DEF Matches
    <3> QED BY <1>1, <1>4, <2>3, <3>1 DEF Matches
  <2>4. Matches(saved, m)
    BY <1>1, <1>4, <2>1 DEF Matches
  <2>5. ~saved.repeat
    BY <1>4, <2>1
  <2>6. MomentsOn(now.day..m.day, saved) = MomentsOn(now.day..m.day, plan)
    BY <1>4 DEF MomentsOn
  <2>7. Starts(saved, now, m)
    BY <1>3, <1>4, <1>5, <2>3, <2>4, <2>6 DEF Starts
  <2>8. ASSUME Starts(saved, now, k) PROVE k = m
    BY <1>0, <1>1, <1>4, <2>5, <2>7, <2>8, OneStart
  <2>9. ASSUME Starts(plan, now, k) PROVE k = m
    BY <1>0, <1>1, <1>3, <1>5, <2>9, OneStart
  <2>10. Starts(saved, now, k) <=> Starts(plan, now, k)
    BY <1>5, <2>7, <2>8, <2>9
  <2> QED BY <2>10 DEF saved
<1> QED BY <1>0, <1>2, <1>3

\* What an event is opened with can be saved.
LEMMA OpenedIsAccepted ==
  ASSUME NEW plan, plan.repeat \in BOOLEAN, NEW day
  PROVE  ParseWeekdays(day, TimerRule(plan)).ok
<1>1. CASE plan.repeat
  <2>1. ParseWeekdays(day, TimerRule(plan))
          = [weekdays |-> IF plan.weekdays \cap Weekdays = {} THEN Weekdays
                          ELSE plan.weekdays \cap Weekdays,
             repeat |-> TRUE, ok |-> TRUE]
    BY <1>1, RuleOfRepeating
  <2> QED BY <2>1
<1>2. CASE ~plan.repeat
  BY <1>2 DEF ParseWeekdays, TimerRule, NoRule
<1> QED BY <1>1, <1>2

\* The first event of any window can be saved as it was opened, and leaves the car starting
\* as it would have, for every timer that repeats and for one that does not where none of
\* its moments lies between now and the window's beginning (_timer_rrule,
\* _parse_weekdays).
THEOREM SavingAnEventKeepsTheSchedule ==
  ASSUME NEW plan \in TimerPlans, NEW now \in Moment, NEW from \in Moment, NEW to \in Moment,
         from.day <= to.day, NEW events,
         events # <<>> => /\ BuildEvents(plan, from, to) # <<>>
                          /\ events[1] = BuildEvents(plan, from, to)[1]
  PROVE  SavingKeepsSchedule(events, plan, now, from)
<1> DEFINE all == NamedFrom(plan, from, to, from.day)
<1> SUFFICES ASSUME events # <<>>
             PROVE  /\ ParseWeekdays(events[1].day, TimerRule(plan)).ok
                    /\ NothingBetween(plan, now, from) =>
                         \A k \in MomentsOn(now.day..(now.day + LookAhead), plan) :
                           Starts(SavedAsOpened(plan, events[1]), now, k) <=> Starts(plan, now, k)
  BY DEF SavingKeepsSchedule
<1>1. plan.activated = TRUE
  BY DEF BuildEvents, TimerPlans
<1>2. events[1] \in all /\ \A n \in all : NotAfter(events[1], n)
  BY <1>1, FirstIsEarliest
<1>3. PICK m \in all : m = events[1] /\ \A n \in all : NotAfter(m, n)
  BY <1>2
<1>4. ParseWeekdays(m.day, TimerRule(plan)).ok
  BY OpenedIsAccepted DEF TimerPlans
<1>5. ASSUME NEW k \in MomentsOn(now.day..(now.day + LookAhead), plan),
             NothingBetween(plan, now, from)
      PROVE  Starts(SavedAsOpened(plan, m), now, k) <=> Starts(plan, now, k)
  <2>1. k.day \in now.day..(now.day + LookAhead) /\ k = [day |-> k.day, time |-> plan.time]
    BY DEF MomentsOn
  <2>2. k.day \in Nat
    BY <2>1 DEF LookAhead, Moment
  <2> QED BY <1>1, <1>3, <1>5, <2>1, <2>2, SavingAStart
<1> QED BY <1>3, <1>4, <1>5

-----------------------------------------------------------------------------
(* The calendar.                                                           *)

\* What is shown is what was built for a query.
Ahead(query) == [query.now EXCEPT !.day = query.now.day + LookAhead]

Shown(query) ==
  LET events == BuildEvents(query.plan, query.now, Ahead(query))
  IN  IF events = <<>> THEN <<>> ELSE <<events[1]>>

ViewOf(query) ==
  \/ view = [shown |-> "window", query |-> query, from |-> query.from,
             events |-> BuildEvents(query.plan, query.from, query.to)]
  \/ view = [shown |-> "next", query |-> query, from |-> query.now, events |-> Shown(query)]

ViewIsBuilt == view # NoView => \E query \in Queries : ViewOf(query)

LEMMA CalendarBuilds == CalendarSpec => []ViewIsBuilt
<1>1. CalendarInit => ViewIsBuilt
  BY DEF CalendarInit, ViewIsBuilt
<1>2. ViewIsBuilt /\ [CalendarNext]_view => ViewIsBuilt'
  <2>1. ASSUME NEW query \in Queries, GetEvents(query) PROVE ViewIsBuilt'
    BY <2>1 DEF GetEvents, Look, ViewIsBuilt, ViewOf
  <2>2. ASSUME NEW query \in Queries, NextEvent(query) PROVE ViewIsBuilt'
    BY <2>2 DEF NextEvent, Look, ViewIsBuilt, ViewOf, Shown, Ahead
  <2>3. ASSUME ViewIsBuilt, UNCHANGED view PROVE ViewIsBuilt'
    BY <2>3 DEF ViewIsBuilt, ViewOf
  <2> QED BY <2>1, <2>2, <2>3 DEF CalendarNext
<1> QED BY <1>1, <1>2, PTL DEF CalendarSpec

LEMMA QueriesAreWindows ==
  ASSUME NEW query \in Queries
  PROVE  /\ query.plan \in TimerPlans /\ query.now \in Moment
         /\ query.from \in Moment /\ query.to \in Moment /\ query.from.day <= query.to.day
         /\ Ahead(query) \in Moment /\ query.now.day <= Ahead(query).day
<1>1. /\ query.plan \in TimerPlans /\ query.now \in Moment
      /\ query.from \in Moment /\ query.to \in Moment /\ query.from.day <= query.to.day
  BY CalendarAssumption
<1>2. query.now.day \in Nat
  BY <1>1 DEF Moment
<1>3. Ahead(query) \in Moment /\ query.now.day <= Ahead(query).day
  BY <1>1, <1>2 DEF Ahead, LookAhead, Moment
<1> QED BY <1>1, <1>3

\* Whatever timer and window a calendar is asked for, and at any time, the events it gives
\* are the car's starts in the window, and its event is the next one (async_get_events,
\* event), but for the windows EventsAreStarts names.
THEOREM CalendarIsRight == CalendarSpec => []CalendarShowsStarts
<1>1. ViewIsBuilt => CalendarShowsStarts
  <2> SUFFICES ASSUME ViewIsBuilt, view # NoView PROVE CalendarShowsStarts
    BY DEF CalendarShowsStarts
  <2>1. PICK query \in Queries : ViewOf(query)
    BY DEF ViewIsBuilt
  <2>2. CASE view = [shown |-> "window", query |-> query, from |-> query.from,
                     events |-> BuildEvents(query.plan, query.from, query.to)]
    <3>1. EventsAreStarts(BuildEvents(query.plan, query.from, query.to),
                          query.plan, query.now, query.from, query.to)
      BY QueriesAreWindows, EventsAreTheStarts
    <3>2. /\ view.query = query /\ view.shown = "window"
          /\ view.events = BuildEvents(query.plan, query.from, query.to)
      BY <2>2
    <3> QED BY <3>1, <3>2 DEF CalendarShowsStarts
  <2>3. CASE view = [shown |-> "next", query |-> query, from |-> query.now,
                     events |-> Shown(query)]
    <3>1. ShowsNextStart(Shown(query), query.plan, query.now)
      BY QueriesAreWindows, NextEventIsTheStart DEF Shown, Ahead
    <3>2. view.query = query /\ view.shown # "window" /\ view.events = Shown(query)
      BY <2>3
    <3> QED BY <3>1, <3>2 DEF CalendarShowsStarts
  <2> QED BY <2>1, <2>2, <2>3 DEF ViewOf
<1> QED BY <1>1, CalendarBuilds, PTL

\* Whatever timer and window a calendar is asked for, and at any time, the first event it
\* gives can be saved as it was opened, and the car starts as it would have
\* (async_get_events, async_update_event), but for the windows EventsAreStarts names.
THEOREM CalendarRoundTrips == CalendarSpec => []CalendarKeepsSchedule
<1>1. ViewIsBuilt => CalendarKeepsSchedule
  <2> SUFFICES ASSUME ViewIsBuilt, view # NoView PROVE CalendarKeepsSchedule
    BY DEF CalendarKeepsSchedule
  <2>1. PICK query \in Queries : ViewOf(query)
    BY DEF ViewIsBuilt
  <2>2. CASE view = [shown |-> "window", query |-> query, from |-> query.from,
                     events |-> BuildEvents(query.plan, query.from, query.to)]
    <3>1. SavingKeepsSchedule(BuildEvents(query.plan, query.from, query.to),
                              query.plan, query.now, query.from)
      BY QueriesAreWindows, SavingAnEventKeepsTheSchedule
    <3>2. /\ view.query = query /\ view.from = query.from
          /\ view.events = BuildEvents(query.plan, query.from, query.to)
      BY <2>2
    <3> QED BY <3>1, <3>2 DEF CalendarKeepsSchedule
  <2>3. CASE view = [shown |-> "next", query |-> query, from |-> query.now,
                     events |-> Shown(query)]
    <3> DEFINE built == BuildEvents(query.plan, query.now, Ahead(query))
    <3>1. Shown(query) # <<>> => built # <<>> /\ Shown(query)[1] = built[1]
      BY DEF Shown
    <3>2. SavingKeepsSchedule(Shown(query), query.plan, query.now, query.now)
      BY <3>1, QueriesAreWindows, SavingAnEventKeepsTheSchedule
    <3>3. view.query = query /\ view.from = query.now /\ view.events = Shown(query)
      BY <2>3
    <3> QED BY <3>2, <3>3 DEF CalendarKeepsSchedule
  <2> QED BY <2>1, <2>2, <2>3 DEF ViewOf
<1> QED BY <1>1, CalendarBuilds, PTL
=============================================================================
