---------------------------- MODULE CommandTable ----------------------------
(***************************************************************************)
(* The remote commands of PolestarCoordinator and the entities that issue  *)
(* them, as tables.  A command says                                        *)
(*   rpc      the call behind it: "stream" for the invocation service, whose*)
(*            first message is the answer, "unary" for the others;         *)
(*   answer   what comes back: see Replies;                                *)
(*   how      "run" through async_run_command, "checked" awaited directly  *)
(*            with _command_succeeded after it, "client" where the service *)
(*            client itself raises on a bad status, or "trusted";          *)
(*   marks    the capability a run marks unsupported when refused as such; *)
(*   refresh  the attributes that are refreshed in the background after it.*)
(* An entity names the command it issues (several where both directions    *)
(* have one), the attribute it reads, the capability it hides behind, and  *)
(*   when     the shown value is set: "before" the command or "after" it;  *)
(*   blank    what a snapshot without the attribute looks like: "unknown"  *)
(*            goes through _resolve_optimistic, "missing" returns before it.*)
(***************************************************************************)
\* f, and g where f has nothing to say: TLC's @@, in a form that can be expanded.
f ++ g == [c \in DOMAIN f \cup DOMAIN g |-> IF c \in DOMAIN f THEN f[c] ELSE g[c]]

Command(rpc, answer, how, marks, refresh) ==
  [rpc |-> rpc, answer |-> answer, how |-> how, marks |-> marks, refresh |-> refresh]

Locations == {"charge_locations", "current_charge_location"}
Ota == {"software", "ota_schedule"}

\* Mutant: the lock is refreshed through the battery's attribute.
LockRefreshesBattery ==
  [lock   |-> Command("stream", "lock", "run", "lock", {"battery"}),
   unlock |-> Command("stream", "invocation", "run", "unlock", {"battery"})]

LockCommands ==
  [lock   |-> Command("stream", "lock", "run", "lock", {"exterior"}),
   unlock |-> Command("stream", "invocation", "run", "unlock", {"exterior"})]

ButtonCommands ==
  [flash      |-> Command("stream", "invocation", "run", "flash", {}),
   honk       |-> Command("stream", "invocation", "run", "honk", {}),
   honk_flash |-> Command("stream", "invocation", "run", "honk_flash", {})]

ClimateCommands ==
  [start_climate |-> Command("stream", "invocation", "checked", "none", {"climate"}),
   stop_climate  |-> Command("stream", "invocation", "checked", "none", {"climate"})]

ChargingCommands ==
  [set_target_soc      |-> Command("unary", "chronos", "run", "none", {"target_soc"}),
   set_target_soc_mode |-> Command("unary", "chronos", "run", "none", {"target_soc"}),
   set_amp_limit       |-> Command("unary", "opaque", "run", "none", {"amp_limit"}),
   start_charging      |-> Command("unary", "code", "run", "charging", {"battery"}),
   stop_charging       |-> Command("unary", "code", "run", "charging", {"battery"}),
   set_charge_timer    |-> Command("unary", "chronos", "checked", "none", {"charge_timer"})]

LocationCommands ==
  [create_charge_location |-> Command("unary", "opaque", "trusted", "none", Locations),
   update_charge_location |-> Command("unary", "code", "trusted", "none", Locations),
   delete_charge_location |-> Command("unary", "code", "trusted", "none", Locations)]

BodyCommands ==
  [start_precleaning |-> Command("stream", "opaque", "run", "precleaning", {"precleaning"}),
   stop_precleaning  |-> Command("stream", "opaque", "run", "precleaning", {"precleaning"}),
   open_windows      |-> Command("stream", "invocation", "run", "open_windows", {"exterior"}),
   close_windows     |-> Command("stream", "invocation", "run", "close_windows", {"exterior"}),
   unlock_trunk      |-> Command("stream", "invocation", "run", "unlock_trunk", {"exterior"})]

OtaCommands ==
  [schedule_ota    |-> Command("unary", "opaque", "trusted", "none", Ota),
   install_ota_now |-> Command("unary", "opaque", "trusted", "none", Ota),
   cancel_ota      |-> Command("unary", "opaque", "trusted", "none", Ota)]

TimerCommands ==
  [set_climate_timer    |-> Command("stream", "chronos", "client", "none", {"climate_timers"}),
   delete_climate_timer |-> Command("stream", "chronos", "client", "none", {"climate_timers"}),
   set_climate_timer_settings |->
     Command("unary", "chronos", "client", "none", {"climate_timer_settings"})]

CommandOf ==
  LockCommands ++ ButtonCommands ++ ClimateCommands ++ ChargingCommands
    ++ LocationCommands ++ BodyCommands ++ OtaCommands ++ TimerCommands

-----------------------------------------------------------------------------
(* Entities that show a value of their own until the car confirms it.      *)

\* blank: without the attribute an entity takes its value for unknown, answers
\* before it looks at the override ("missing"), or is unavailable.
Entity(issues, reads, hides, when, blank) ==
  [issues |-> issues, reads |-> reads, hides |-> hides, when |-> when, blank |-> blank]

LockEntity == [lock |-> Entity({"lock", "unlock"}, "exterior", "none", "after", "missing")]

SwitchEntities ==
  [climate      |-> Entity({"start_climate", "stop_climate"}, "climate", "climate",
                           "before", "unknown"),
   precleaning  |-> Entity({"start_precleaning", "stop_precleaning"}, "precleaning",
                           "precleaning", "before", "unknown"),
   charging     |-> Entity({"start_charging", "stop_charging"}, "battery", "charging",
                           "before", "unknown"),
   charge_timer |-> Entity({"set_charge_timer"}, "charge_timer", "charge_timer",
                           "before", "unknown")]

NumberEntities ==
  [target_soc |-> Entity({"set_target_soc"}, "target_soc", "mode", "before", "unknown"),
   amp_limit  |-> Entity({"set_amp_limit"}, "amp_limit", "none", "before", "unknown"),
   timer_target_temperature |->
     Entity({"set_climate_timer_settings"}, "climate_timer_settings", "none", "before", "unavailable")]

SelectEntities ==
  [target_soc_setting_type |->
     Entity({"set_target_soc_mode"}, "target_soc", "none", "before", "unknown"),
   timer_seat_heat |->
     Entity({"set_climate_timer_settings"}, "climate_timer_settings", "none", "before", "unavailable")]

TimeEntities ==
  [charge_timer_time |-> Entity({"set_charge_timer"}, "charge_timer", "none", "before", "unavailable")]

EntityOf == LockEntity ++ SwitchEntities ++ NumberEntities ++ SelectEntities ++ TimeEntities

\* Buttons show nothing: they hide behind the capability their command marks.
ButtonHides == {"flash", "honk", "honk_flash", "open_windows", "close_windows", "unlock_trunk"}
=============================================================================
