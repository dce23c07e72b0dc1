---------------------------- MODULE TimerCalendar ----------------------------
(***************************************************************************)
(* The calendar of a parking climate timer: Home Assistant asks it for the *)
(* events of a window of time, or for the next one, and the user may save  *)
(* an event as it was opened.                                              *)
(***************************************************************************)
EXTENDS Recurrence

Moment == [day : Nat, time : Nat]

CONSTANT Queries     \* the timer, the time it is, and the window asked for

ASSUME CalendarAssumption ==
  /\ Queries \subseteq [plan : TimerPlans, now : Moment, from : Moment, to : Moment]
  /\ \A query \in Queries : query.from.day <= query.to.day

VARIABLE view        \* the last query, what was asked for and the events it gave

NoView == [shown |-> "nothing"]

CalendarInit == view = NoView

Look(shown, query, from, events) ==
  /\ view = NoView
  /\ view' = [shown |-> shown, query |-> query, from |-> from, events |-> events]

\* async_get_events.
GetEvents(query) ==
  Look("window", query, query.from, BuildEvents(query.plan, query.from, query.to))

\* event: the first of the events of the next days.
NextEvent(query) ==
  LET events == BuildEvents(query.plan, query.now, [query.now EXCEPT !.day = @ + LookAhead])
  IN Look("next", query, query.now, IF events = <<>> THEN <<>> ELSE <<events[1]>>)

CalendarNext == \E query \in Queries : GetEvents(query) \/ NextEvent(query)

CalendarSpec == CalendarInit /\ [][CalendarNext]_view

-----------------------------------------------------------------------------
(* Properties.                                                             *)

\* The events of a window are the times at which the car starts the climate in it, in
\* their order (calendar.py:136-174), and the event an entity shows is its next start,
\* whatever the time (77-82).  A timer that does not repeat names one more moment in
\* every window, which is not a start when the window begins on the other side of one
\* of its moments: EventsAreStarts says what holds of such a window.
CalendarShowsStarts ==
  view # NoView =>
    LET query == view.query IN
    IF view.shown = "window"
    THEN EventsAreStarts(view.events, query.plan, query.now, query.from, query.to)
    ELSE ShowsNextStart(view.events, query.plan, query.now)

\* An event that is saved as it was opened is accepted, and leaves the car starting at
\* the times it would have started in the days to come, whatever window it was opened in
\* (calendar.py:176-249, 277-287), but for the windows named above.
CalendarKeepsSchedule ==
  view # NoView =>
    SavingKeepsSchedule(view.events, view.query.plan, view.query.now, view.from)
=============================================================================
