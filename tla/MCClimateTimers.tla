-------------------------- MODULE MCClimateTimers --------------------------
(***************************************************************************)
(* Small instances of ClimateTimers and of TimerCalendar.  The two share   *)
(* no state, so one of them works at a time.                               *)
(***************************************************************************)
EXTENDS ClimateTimers, TimerCalendar

MCPlans ==
  {[time |-> 1, activated |-> TRUE, repeat |-> TRUE, weekdays |-> {1}],
   [time |-> 1, activated |-> TRUE, repeat |-> FALSE, weekdays |-> {}]}

\* Mondays, Thursdays and Sundays, and an unspecified day, in any combination.
SomePlans == [time : Times, activated : BOOLEAN, repeat : BOOLEAN, weekdays : SUBSET {0, 1, 4, 7}]

\* It is Wednesday; the windows are of less than a day to more than a week, and begin
\* before and after now.
MCQueries ==
  [plan : SomePlans, now : [day : {2}, time : {1}],
   from : [day : {0, 2, 3}, time : 0..2], to : [day : {3, 6, 11}, time : 0..2]]

ListIdle == edits = 0 /\ timers = NoTimers /\ reading = Nothing

TimersInit == Init /\ CalendarInit

TimersNext ==
  \/ view = NoView /\ Next /\ UNCHANGED view
  \/ ListIdle /\ CalendarNext /\ UNCHANGED timerVars

TimersSpec == TimersInit /\ [][TimersNext]_<<timerVars, view>>
=============================================================================
