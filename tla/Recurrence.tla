----------------------------- MODULE Recurrence -----------------------------
(***************************************************************************)
(* Parking climate timers as calendar events and back: the recurrence rule *)
(* of a timer, the events of a window of time, and the weekdays a rule     *)
(* stands for.  A moment is [day, time]; days are numbered from a Monday,  *)
(* weekdays are Polestar's, Monday = 1, with 0 for UNSPECIFIED.            *)
(***************************************************************************)
EXTENDS Naturals, Sequences, SequencesExt

CONSTANTS
  Times      \* times of day: a set of numbers

ASSUME RecurrenceAssumption == Times \subseteq Nat

Weekdays == 1..7
TimerPlans == [time : Times, activated : BOOLEAN, repeat : BOOLEAN, weekdays : SUBSET (0..7)]

\* Mutant: Python's weekday number taken as Polestar's.
WeekdayFromPythonAsIs(value) == value

\* _weekday_from_python, where Monday is 0.
WeekdayFromPython(value) == value + 1

\* date.weekday.
PythonWeekday(day) == day % 7

Before(a, b) == a.day < b.day \/ (a.day = b.day /\ a.time < b.time)
NotAfter(a, b) == ~Before(b, a)

-----------------------------------------------------------------------------
(* Rules.  freq is "none" where an event has no rule.                      *)

NoRule == [freq |-> "none", interval |-> 1, until |-> FALSE, count |-> 0, byday |-> {}]
Rules ==
  [freq : {"DAILY", "WEEKLY", "MONTHLY"}, interval : 1..2, until : BOOLEAN, count : 0..2,
   byday : SUBSET Weekdays]

\* _timer_rrule.
TimerRule(plan) ==
  IF ~plan.repeat THEN NoRule
  ELSE IF plan.weekdays \cap Weekdays = {} THEN [NoRule EXCEPT !.freq = "DAILY"]
  ELSE [NoRule EXCEPT !.freq = "WEEKLY", !.byday = plan.weekdays \cap Weekdays]

Unsupported == [weekdays |-> {}, repeat |-> FALSE, ok |-> FALSE]

\* _parse_weekdays of an event that starts on a day.
ParseWeekdays(day, rule) ==
  LET once == [weekdays |-> {WeekdayFromPython(PythonWeekday(day))}, repeat |-> FALSE, ok |-> TRUE]
      every(ds) == [weekdays |-> ds, repeat |-> TRUE, ok |-> TRUE]
  IN CASE rule.freq = "none" -> once
       [] rule.freq # "none" /\ (rule.interval # 1 \/ rule.until) -> Unsupported
       [] rule.freq # "none" /\ rule.interval = 1 /\ ~rule.until ->
            CASE rule.count = 1 -> once
              [] rule.count > 1 -> Unsupported
              [] rule.count = 0 /\ rule.freq = "DAILY" -> every(Weekdays)
              [] rule.count = 0 /\ rule.freq = "WEEKLY" ->
                   every(IF rule.byday = {} THEN once.weekdays ELSE rule.byday)
              [] rule.count = 0 /\ rule.freq = "MONTHLY" -> Unsupported

\* _timer_from_event of an event that is saved with the rule its timer gave it.
SavedAsOpened(plan, event) ==
  LET parsed == ParseWeekdays(event.day, TimerRule(plan))
  IN [time |-> event.time, activated |-> TRUE, repeat |-> parsed.repeat,
      weekdays |-> parsed.weekdays]

-----------------------------------------------------------------------------
(* Events.                                                                 *)

\* Mutant: an event that has begun before the window still counts.
ShownFromStart(start, from) == start.day >= from.day

ShownFrom(start, from) == NotAfter(from, start)

\* _build_events, one turn of the loop: the events from a day on, given those of the
\* days after it.  A timer that does not repeat stops at its first event.
DayEvents(plan, from, to, day, later) ==
  LET days    == {w - 1 : w \in plan.weekdays \ {0}}
      start   == [day |-> day, time |-> plan.time]
      skipped == \/ days # {} /\ PythonWeekday(day) \notin days
                 \/ days = {} /\ Before(start, from)
  IN CASE skipped -> later
       [] ~skipped /\ Before(to, start) -> <<>>
       [] ~skipped /\ ~Before(to, start) ->
            IF ~ShownFrom(start, from) THEN later
            ELSE IF plan.repeat THEN <<start>> \o later ELSE <<start>>

\* How many days ahead an entity looks for its event.
LookAhead == 14

BuildEvents(plan, from, to) ==
  LET eventsFrom[day \in from.day..(to.day + 1)] ==
        IF day > to.day THEN <<>> ELSE DayEvents(plan, from, to, day, eventsFrom[day + 1])
  IN IF plan.activated THEN eventsFrom[from.day] ELSE <<>>

-----------------------------------------------------------------------------
(* Properties.  When the car starts the climate by itself: the reference   *)
(* does not know of windows, only of the moment the timer was read.        *)

MomentsOn(days, plan) == [day : days, time : {plan.time}]

\* The moments a timer names: on its weekdays, or on every day where it has none.
Matches(plan, m) ==
  /\ m.time = plan.time
  /\ plan.weekdays \cap Weekdays # {} => (m.day % 7) + 1 \in plan.weekdays

\* The car starts at a moment, the timer being what it was read to be: at every moment
\* the timer names or, where it does not repeat, only at the first of them still to come.
Starts(plan, now, m) ==
  /\ plan.activated
  /\ Matches(plan, m)
  /\ ~plan.repeat =>
       /\ NotAfter(now, m)
       /\ \A n \in MomentsOn(now.day..m.day, plan) :
            Matches(plan, n) /\ NotAfter(now, n) => NotAfter(m, n)

Within(m, from, to) == NotAfter(from, m) /\ NotAfter(m, to)

StartsIn(plan, now, from, to) ==
  {m \in MomentsOn(from.day..to.day, plan) : Within(m, from, to) /\ Starts(plan, now, m)}

\* What comes next is the same from one moment as from the other: the timer repeats or
\* names no moment between them.
NothingBetween(plan, a, b) ==
  plan.repeat \/ \A n \in MomentsOn((a.day..b.day) \cup (b.day..a.day), plan) :
                   Matches(plan, n) => (Before(n, a) <=> Before(n, b))

\* The events of a window are in order and at moments the timer names in it; they are
\* the car's starts in it, but for a window that begins on the other side of one of the
\* moments of a timer that does not repeat.
EventsAreStarts(events, plan, now, from, to) ==
  /\ \A m \in ToSet(events) : Matches(plan, m) /\ Within(m, from, to)
  /\ \A i \in 1..(Len(events) - 1) : Before(events[i], events[i + 1])
  /\ ~plan.repeat => Len(events) <= 1
  /\ NothingBetween(plan, now, from) => ToSet(events) = StartsIn(plan, now, from, to)

\* What an entity shows as its event is the car's next start.
ShowsNextStart(events, plan, now) ==
  IF plan.activated
  THEN \E m \in MomentsOn(now.day..(now.day + LookAhead), plan) :
         events = <<m>> /\ StartsIn(plan, now, now, m) = {m}
  ELSE events = <<>>

\* An event that is saved as it was opened is accepted, and the car starts when it would
\* have, but for the windows EventsAreStarts names.
SavingKeepsSchedule(events, plan, now, from) ==
  events # <<>> =>
    /\ ParseWeekdays(events[1].day, TimerRule(plan)).ok
    /\ NothingBetween(plan, now, from) =>
         \A m \in MomentsOn(now.day..(now.day + LookAhead), plan) :
           Starts(SavedAsOpened(plan, events[1]), now, m) <=> Starts(plan, now, m)
=============================================================================
