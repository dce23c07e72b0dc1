------------------------------- MODULE Readings -------------------------------
(***************************************************************************)
(* The resources that every message replaces as a whole (battery, health,  *)
(* availability, connectivity, dashboard, odometer, precleaning, weather,  *)
(* software: models/*.py and the services of the same names), the location *)
(* (services/location.py), and the entities that show them (sensor.py,     *)
(* binary_sensor.py, device_tracker.py).                                   *)
(*                                                                         *)
(* A reading maps the numbers of a message's fields to their values; an    *)
(* absent field reads as its default, 0.  Numbers stand for integers and   *)
(* floating-point numbers alike, and a coordinate is the bytes it travels  *)
(* as.  said is the last message of each resource this release could have  *)
(* read, located the last location message.                                *)
(***************************************************************************)
EXTENDS StatusServices

VARIABLES readings, said, place, located

readingVars == <<readings, said, place, located, unknownFields>>

(***************************************************************************)
(* Types of attributes.                                                    *)
(***************************************************************************)
Number == [type |-> "int"]
Text == [type |-> "text"]
Time == [type |-> "message", schema |-> 1 :> Number @@ 2 :> Number]
Enumeration(name, names) == name :> [type |-> "enum", members |-> 0..Len(names) - 1, names |-> names]

At(first, names) == [num \in first..first + Len(names) - 1 |-> names[num - first + 1]]

SchemaOf(attributes, types) ==
  [num \in DOMAIN attributes |->
     IF attributes[num] \in DOMAIN types THEN types[attributes[num]] ELSE Number]

BatteryAttributes ==
  At(1, <<"timestamp", "charge_level", "avg_consumption", "range_km", "time_to_full",
          "charger_connection_status", "charging_status", "range_miles", "time_to_target",
          "power_watts", "current_amps", "avg_consumption_auto", "avg_consumption_since_charge",
          "total_consumption_wh", "total_consumption_wh_auto", "total_consumption_wh_since_charge",
          "charging_type", "voltage_volts", "time_to_min_soc", "consumption_wh_manual",
          "consumption_wh_auto", "consumption_wh_since_charge", "consumption_pct_manual",
          "consumption_pct_auto", "consumption_pct_since_charge", "charger_power_status">>)

BatteryTypes ==
  "timestamp" :> Time
    @@ Enumeration("charger_connection_status", <<"UNSPECIFIED", "CONNECTED", "DISCONNECTED", "FAULT">>)
    @@ Enumeration("charging_status",
              <<"UNSPECIFIED", "CHARGING", "IDLE", "SCHEDULED", "DISCHARGING", "ERROR",
                "SMART_CHARGING", "DONE", "SMART_CHARGING_PAUSED">>)
    @@ Enumeration("charging_type", <<"UNSPECIFIED", "NONE", "AC", "DC", "WIRELESS">>)
    @@ Enumeration("charger_power_status",
              <<"UNSPECIFIED", "NO_POWER", "INITIALIZING", "AVAILABLE_BUT_INACTIVE",
                "PROVIDING_POWER", "FAULT">>)

Tyres == <<"front_left_tyre", "front_right_tyre", "rear_left_tyre", "rear_right_tyre">>

Lights ==
  At(14, <<"brake_light_left", "brake_light_center", "brake_light_right", "fog_light_front",
           "fog_light_rear", "position_light_front_left", "position_light_front_right",
           "position_light_rear_left", "position_light_rear_right", "high_beam_left",
           "high_beam_right", "low_beam_left", "low_beam_right", "daytime_running_light_left",
           "daytime_running_light_right">>)
    @@ At(30, <<"turn_indication_front_left", "turn_indication_front_right",
                "turn_indication_rear_left", "turn_indication_rear_right",
                "registration_plate_light", "side_mark_lights">>)

HealthAttributes ==
  At(1, <<"timestamp", "engine_hours_to_service", "days_to_service", "distance_to_service_km",
          "service_warning", "brake_fluid_level_warning", "engine_coolant_level_warning",
          "oil_level_warning">> \o Tyres \o <<"washer_fluid_level_warning">>)
    @@ Lights
    @@ At(38, <<"low_voltage_battery_warning", "front_left_tyre_pressure_kpa",
                "front_right_tyre_pressure_kpa", "rear_left_tyre_pressure_kpa",
                "rear_right_tyre_pressure_kpa">>)

LevelWarning == <<"UNSPECIFIED", "NO_WARNING", "TOO_LOW">>
LightWarning == <<"UNSPECIFIED", "NO_WARNING", "FAILURE">>

HealthTypes ==
  "timestamp" :> Time
    @@ Enumeration("service_warning",
              <<"UNSPECIFIED", "NO_WARNING", "UNKNOWN_WARNING", "REGULAR_MAINTENANCE_ALMOST_TIME",
                "ENGINE_HOURS_ALMOST_TIME", "DISTANCE_DRIVEN_ALMOST_TIME",
                "REGULAR_MAINTENANCE_TIME", "ENGINE_HOURS_TIME", "DISTANCE_DRIVEN_TIME">>)
    @@ Enumeration("brake_fluid_level_warning", LevelWarning)
    @@ Enumeration("engine_coolant_level_warning", LevelWarning)
    @@ Enumeration("oil_level_warning", <<"UNSPECIFIED", "NO_WARNING", "SERVICE_REQUIRED", "TOO_LOW", "TOO_HIGH">>)
    @@ Enumeration("washer_fluid_level_warning", LevelWarning)
    @@ Enumeration("low_voltage_battery_warning", LevelWarning)
    @@ [tyre \in {Tyres[i] : i \in 1..4} |->
          [type |-> "enum", members |-> 0..4,
           names |-> <<"UNSPECIFIED", "NO_WARNING", "VERY_LOW_PRESSURE", "LOW_PRESSURE", "HIGH_PRESSURE">>]]
    @@ [light \in {Lights[num] : num \in DOMAIN Lights} |->
          [type |-> "enum", members |-> 0..2, names |-> LightWarning]]

AvailabilityAttributes == 1 :> "timestamp" @@ At(3, <<"availability_status", "unavailable_reason", "usage_mode">>)

AvailabilityTypes ==
  "timestamp" :> Time
    @@ Enumeration("availability_status", <<"UNSPECIFIED", "AVAILABLE", "UNAVAILABLE">>)
    @@ Enumeration("unavailable_reason",
              <<"UNSPECIFIED", "NO_INTERNET", "POWER_SAVING_MODE", "CAR_IN_USE",
                "OTA_INSTALLATION_IN_PROGRESS", "STOLEN_VEHICLE_TRACKING_IN_PROGRESS",
                "SERVICE_MODE_ACTIVE">>)
    @@ Enumeration("usage_mode",
              <<"UNSPECIFIED", "ABANDONED", "INACTIVE", "CONVENIENCE", "ACTIVE", "DRIVING",
                "ENGINE_ON", "ENGINE_OFF">>)

ConnectivityAttributes == At(1, <<"status", "updated_timestamp", "network_type", "signal_strength">>)

ConnectivityTypes ==
  "updated_timestamp" :> Time
    @@ Enumeration("status", <<"NOT_USED", "UNAVAILABLE", "DISCONNECTED", "CONNECTED">>)
    @@ Enumeration("network_type", <<"UNSPECIFIED", "UNKNOWN", "CDMA_1X", "CDMA_EVDO", "WCDMA", "GSM", "LTE">>)
    @@ Enumeration("signal_strength", <<"UNSPECIFIED", "UNKNOWN", "POOR", "GOOD", "STRONG">>)

OdometerAttributes ==
  At(1, <<"timestamp", "odometer_meters", "trip_meter_manual_km", "trip_meter_automatic_km">>)

PrecleaningAttributes ==
  1 :> "timestamp"
    @@ At(4, <<"started_at", "ending_at", "running_status", "start_reason", "last_cycle_valid",
               "measured_air_quality_index", "measured_particulate_matter_2_5",
               "runtime_left_minutes">>)
    @@ 13 :> "error"

PrecleaningTypes ==
  [time \in {"timestamp", "started_at", "ending_at"} |-> Time]
    @@ "last_cycle_valid" :> [type |-> "bool"]
    @@ Enumeration("running_status", <<"UNSPECIFIED", "ON", "OFF", "PENDING">>)
    @@ Enumeration("start_reason", <<"UNSPECIFIED", "REMOTE", "MANUALLY_FROM_CAR">>)
    @@ Enumeration("error", <<"UNSPECIFIED", "GENERIC_ERROR", "INTERRUPTED">>)

SoftwareAttributes ==
  At(1, <<"software_id", "description", "qb_code", "state">>) @@ 6 :> "new_sw_version"
    @@ 8 :> "schedule_info" @@ 10 :> "state_timestamp"

SoftwareTypes ==
  [text \in {"software_id", "qb_code", "new_sw_version"} |-> Text]
    @@ "description" :> [type |-> "message", schema |-> [num \in 1..3 |-> Text]]
    @@ "schedule_info" :> [type |-> "message", schema |-> 2 :> Time]
    @@ "state_timestamp" :> Time
    @@ Enumeration("state",
              <<"UNKNOWN", "DOWNLOAD_READY", "DOWNLOAD_STARTED", "DOWNLOAD_COMPLETED",
                "DOWNLOAD_FAILED", "INSTALLATION_INITIATED", "INSTALLATION_STARTED",
                "INSTALLATION_ABORTED", "INSTALLATION_FAILED", "INSTALLATION_COMPLETED",
                "INSTALLATION_DEFERRED", "INSTALLATION_FAILED_CRITICAL", "INSTALLATION_SCHEDULED",
                "INSTALLATION_SCHEDULE_TRIGGERED", "INSTALLATION_UNKNOWN">>)


\* The dashboard nests a message of numbers and one of warnings.
DashboardAttributes == 1 :> "dashboard_data" @@ 2 :> "warnings_data"

DashboardNumbers == 5 :> Number @@ 9 :> Number @@ 11 :> Number @@ [num \in 14..21 |-> Number]

DashboardWarnings ==
  [num \in {1, 2} |-> [type |-> "enum", members |-> 0..2]]
    @@ [num \in 6..9 |-> [type |-> "enum", members |-> 0..3]]
    @@ 10 :> [type |-> "enum", members |-> {0, 1, 4, 5, 6, 8, 9, 10, 12, 13, 14}]

DashboardTypes ==
  "dashboard_data" :> [type |-> "message", schema |-> DashboardNumbers]
    @@ "warnings_data" :> [type |-> "message", schema |-> DashboardWarnings]

(***************************************************************************)
(* The resources: the field of the response that carries the message, and  *)
(* whether its unmapped fields are recorded.  An empty message counts as   *)
(* missing, except for the battery, which is part of a typed response.     *)
(***************************************************************************)
Resource(field, attributes, types, recorded) ==
  [field |-> field, attributes |-> attributes, schema |-> SchemaOf(attributes, types),
   recorded |-> recorded]

Resources ==
  [battery      |-> Resource(3, BatteryAttributes, BatteryTypes, TRUE),
   health       |-> Resource(3, HealthAttributes, HealthTypes, TRUE),
   availability |-> Resource(3, AvailabilityAttributes, AvailabilityTypes, FALSE),
   connectivity |-> Resource(3, ConnectivityAttributes, ConnectivityTypes, FALSE),
   dashboard    |-> Resource(2, DashboardAttributes, DashboardTypes, FALSE),
   odometer     |-> Resource(3, OdometerAttributes, "timestamp" :> Time, FALSE),
   precleaning  |-> Resource(3, PrecleaningAttributes, PrecleaningTypes, FALSE),
   weather      |-> Resource(1, At(1, <<"timestamp_epoch_millis", "temperature_celsius">>),
                             "" :> Number, FALSE),
   software     |-> Resource(1, SoftwareAttributes, SoftwareTypes, FALSE)]

\* get_latest and stream of a resource's service: the reading in a response, None when
\* the response carries none.
ParseResponse(resource, response) ==
  LET none == [error |-> "none", value |-> None]
      parsed(payload) ==
        IF payload.bytes = <<>> /\ resource # "battery"
        THEN none
        ELSE Then(FromBytes(Resources[resource].schema, payload.bytes), LAMBDA read :
               [error |-> "none", value |-> read.value.fields])
      first(payloads) == IF payloads = <<>> THEN none ELSE parsed(OnlyValue(payloads))
  IN  Then(Decode(response), LAMBDA raw :
        first(ValuesOf(raw.fields, Resources[resource].field)))

\* The field of an attribute, and its value in a reading; an absent one is 0.
NumberOfAttribute(resource, attribute) ==
  CHOOSE num \in DOMAIN Resources[resource].attributes :
    Resources[resource].attributes[num] = attribute

Default == [type |-> "int", int |-> 0]

Attribute(resource, reading, attribute) ==
  LET num == NumberOfAttribute(resource, attribute)
  IN  IF num \in DOMAIN reading THEN reading[num] ELSE Default

\* The snapshot keeps a higher odometer reading (_merge_partial_update).
MergedReading(resource, current, previous) ==
  IF resource = "odometer" /\ previous # None
  THEN IF Attribute(resource, current, "odometer_meters").int
            < Attribute(resource, previous, "odometer_meters").int
       THEN previous ELSE current
  ELSE current

\* The backend leaves out what is 0.
SentBytes(schema, fields) ==
  LET sent == {num \in DOMAIN fields : fields[num] # Default}
  IN  ToBytes(schema, [num \in sent |-> fields[num]])

ResponseArrives(resource, parsed, inner) ==
  IF parsed.error # "none"
  THEN UNCHANGED <<readings, unknownFields>>
  ELSE /\ readings' = IF parsed.value = None THEN readings
                      ELSE [readings EXCEPT ![resource] = MergedReading(resource, parsed.value, @)]
       /\ IF Resources[resource].recorded
          THEN \E entries \in {Walk(Resources[resource].schema, inner, <<resource>>)} :
                 RecordAll(entries)
          ELSE UNCHANGED unknownFields

ReadingArrives(resource, fields, extra) ==
  \E inner \in {SentBytes(Resources[resource].schema, fields) \o extra} :
    /\ ResponseArrives(resource,
                       ParseResponse(resource, EncodeBytes(Resources[resource].field, inner)), inner)
    /\ said' = IF FromBytes(Resources[resource].schema, inner).error = "none"
               THEN [said EXCEPT ![resource] = fields] ELSE said
    /\ UNCHANGED <<place, located>>

(***************************************************************************)
(* Sensors.                                                                *)
(***************************************************************************)
Excluded == {"UNSPECIFIED", "UNDEFINED", "UNKNOWN"}

\* enum_options; the options are lower-cased, which is left out.
EnumOptions(names, excludeUnspecified) ==
  {names[i] : i \in DOMAIN names} \ (IF excludeUnspecified THEN Excluded ELSE {})

EnumName(name, allowUnspecified) ==
  IF ~allowUnspecified /\ name \in Excluded THEN None ELSE name

ValueSensors ==
  [battery |-> {"charge_level", "range_km", "power_watts", "current_amps", "voltage_volts",
                "time_to_full", "time_to_target", "time_to_min_soc", "avg_consumption",
                "avg_consumption_auto", "avg_consumption_since_charge"},
   health |-> {"distance_to_service_km", "days_to_service", "engine_hours_to_service",
               "front_left_tyre_pressure_kpa", "front_right_tyre_pressure_kpa",
               "rear_left_tyre_pressure_kpa", "rear_right_tyre_pressure_kpa"},
   precleaning |-> {"measured_air_quality_index", "measured_particulate_matter_2_5",
                    "runtime_left_minutes"},
   odometer |-> {"odometer_meters"},
   weather |-> {"temperature_celsius"},
   software |-> {"new_sw_version"}]

EnumSensors ==
  [battery |-> {"charging_status", "charger_connection_status", "charging_type", "charger_power_status"},
   health |-> {"service_warning", "brake_fluid_level_warning", "low_voltage_battery_warning"},
   availability |-> {"unavailable_reason", "usage_mode"},
   precleaning |-> {"start_reason", "error"}]

\* The sensors that show a placeholder, too.
OpenEnumSensors == [health |-> {"washer_fluid_level_warning"}, software |-> {"state"}]

NamesOf(resource, attribute) ==
  Resources[resource].schema[NumberOfAttribute(resource, attribute)].names

NameIn(resource, reading, attribute) ==
  NamesOf(resource, attribute)[Attribute(resource, reading, attribute).int + 1]

EnumState(resource, attribute, allowUnspecified) ==
  IF readings[resource] = None THEN None
  ELSE EnumName(NameIn(resource, readings[resource], attribute), allowUnspecified)

ValueState(resource, attribute) ==
  IF readings[resource] = None THEN None ELSE Attribute(resource, readings[resource], attribute)

\* The trip meters: the dashboard's, or else the odometer's.  A zero of the dashboard
\* counts as none, and so does a zero of the odometer for the manual meter.
DashboardNumber(dashboard, num) ==
  IF dashboard = None THEN Default
  ELSE LET data == Attribute("dashboard", dashboard, "dashboard_data")
       IN  IF data = Default THEN Default ELSE IF num \in DOMAIN data.fields THEN data.fields[num] ELSE Default

TripMeter(num, attribute) ==
  LET dashboard == DashboardNumber(readings.dashboard, num)
      odometer  == ValueState("odometer", attribute)
  IN  IF dashboard # Default THEN dashboard
      ELSE IF attribute = "trip_meter_manual_km" /\ odometer = Default THEN None
      ELSE odometer

(***************************************************************************)
(* Binary sensors: the numbers for which an attribute counts as on.        *)
(***************************************************************************)
BinarySensors ==
  [battery |-> "charging_status" :> {1} @@ "charger_connection_status" :> {1},
   connectivity |-> "status" :> {3},
   availability |-> "availability_status" :> {1},
   health |-> "service_warning" :> 2..8 @@ "low_voltage_battery_warning" :> {2},
   precleaning |-> "running_status" :> {1}]

IsOn(resource, attribute) ==
  readings[resource] # None /\
    Attribute(resource, readings[resource], attribute).int \in BinarySensors[resource][attribute]

\* The words of a warning's name that any_light_failure looks for.
WordsIn(num) ==
  CASE num \in 14..22 \cup 34..35 -> {"light"} [] num \in 23..26 -> {"beam"}
    [] num \in 27..28 -> {"running", "light"} [] num \in 30..33 -> {"turn"} [] OTHER -> {}

\* The mutated form: the turn indicators are not looked for.
LightWordsWithoutTurn == {"light", "beam", "running"}

LightWords == {"light", "beam", "running", "turn"}

AnyLightFailure ==
  readings.health # None /\
    \E num \in DOMAIN HealthAttributes :
      WordsIn(num) \cap LightWords # {}
        /\ Attribute("health", readings.health, HealthAttributes[num]).int = 2

AnyTyreWarning ==
  readings.health # None /\
    \E i \in 1..4 : Attribute("health", readings.health, Tyres[i]).int \notin {0, 1}

(***************************************************************************)
(* The location.  Three formats: nested in field 5, nested in field 2,     *)
(* and flat.  What is recorded of it is recorded coarsely.                 *)
(***************************************************************************)
NoPlace == [longitude |-> None, latitude |-> None]

Zero == <<0, 0, 0, 0, 0, 0, 0, 0>>

Coordinate(fields, num) ==
  IF ValuesOf(fields, num) = <<>> THEN Zero ELSE OnlyValue(ValuesOf(fields, num)).bytes

PlaceIn(fields, longitude, latitude) ==
  [longitude |-> Coordinate(fields, longitude), latitude |-> Coordinate(fields, latitude)]

CompactPlace(data) == PlaceIn(Decode(data).fields, 1, 2)

IsOfType(fields, num, type) ==
  ValuesOf(fields, num) # <<>> /\ OnlyValue(ValuesOf(fields, num)).type = type

\* The field that holds a nested location, 0 if it is flat.
Nest(fields) ==
  CASE IsOfType(fields, 5, "bytes") -> 5
    [] ~IsOfType(fields, 5, "bytes") /\ IsOfType(fields, 2, "bytes") -> 2
    [] OTHER -> 0

PlaceOf(fields, nest) ==
  IF nest # 0 THEN CompactPlace(ValuesOf(fields, nest)[1].bytes)
  ELSE IF IsOfType(fields, 2, "float") /\ IsOfType(fields, 3, "float")
       THEN PlaceIn(fields, 2, 3)
       ELSE NoPlace

UnknownOf(data, fields, nest) ==
  UnknownEntries(<<"location">>, data, 1..(IF nest = 0 THEN 4 ELSE nest), TRUE)
    \o IF nest = 0 THEN <<>>
       ELSE UnknownEntries(<<"location", nest>>, ValuesOf(fields, nest)[1].bytes, 1..3, TRUE)

\* The backend's side.  Beside the place a newer one sends fields this release does not
\* map: an altitude, or the place once more, as a nested message or as floats.
Compact(where) == EncodeFixed64(1, where.longitude) \o EncodeFixed64(2, where.latitude)

Beside(kind, where) ==
  CASE kind = "altitude" -> EncodeFixed64(6, <<9, 0, 0, 0, 0, 0, 0, 0>>)
    [] kind = "message"  -> EncodeBytes(7, Compact(where))
    [] kind = "floats"   -> EncodeFixed64(8, where.longitude) \o EncodeFixed64(9, where.latitude)
    [] OTHER -> <<>>

LocationBytes(format, where, kind) ==
  LET beside == Beside(kind, where)
  IN  CASE format = "nested5" -> EncodeBytes(5, Compact(where) \o beside)
        [] format = "nested2" ->
             EncodeBytes(1, EncodeInt(1, 1)) \o EncodeBytes(2, Compact(where) \o beside)
        [] OTHER -> EncodeFixed64(2, where.longitude) \o EncodeFixed64(3, where.latitude) \o beside

LocationArrives(format, where, kind) ==
  \E data \in {LocationBytes(format, where, kind)} :
    \E fields \in {Decode(data).fields} :
      /\ place' = PlaceOf(fields, Nest(fields))
      /\ located' = [format |-> format, where |-> where, kind |-> kind]
      /\ \E entries \in {UnknownOf(data, fields, Nest(fields))} : RecordAll(entries)
      /\ UNCHANGED <<readings, said>>

(***************************************************************************)
(* The seats and the steering wheel of the climate's digital twin.         *)
(***************************************************************************)
MapSeatHeating(number) == IF number \in 0..4 THEN number ELSE None

HeatingIntensityName(intensity) ==
  CASE intensity = None -> None [] intensity # None /\ intensity \in 0..1 -> "off"
    [] OTHER -> <<"level1", "level2", "level3">>[intensity - 1]

ReadingsInit ==
  /\ UnknownInit
  /\ readings = [resource \in DOMAIN Resources |-> None]
  /\ said = readings
  /\ place = NoPlace /\ located = [format |-> None, where |-> NoPlace, kind |-> None]

(***************************************************************************)
(* Properties.                                                             *)
(***************************************************************************)
\* An enum sensor's state is one of its options or unknown, whatever number the car
\* sends: Home Assistant refuses any other state (enum_name, enum_options, sensor.py).
StatesAreOptions ==
  /\ \A resource \in DOMAIN EnumSensors : \A attribute \in EnumSensors[resource] :
       EnumState(resource, attribute, FALSE)
         \in EnumOptions(NamesOf(resource, attribute), TRUE) \cup {None}
  /\ \A resource \in DOMAIN OpenEnumSensors : \A attribute \in OpenEnumSensors[resource] :
       EnumState(resource, attribute, TRUE)
         \in EnumOptions(NamesOf(resource, attribute), FALSE) \cup {None}
  /\ \A number \in 0..Newer :
       HeatingIntensityName(MapSeatHeating(number)) \in {"off", "level1", "level2", "level3", None}

\* What the last readable message said is what the sensors show, a zero as a zero: a
\* reading is lost neither to a message with numbers of a newer release nor to a
\* placeholder.  Of the odometer the highest reading stays, its trip meters with it.  A
\* trip meter shows a distance somebody reports; where nobody reports one, the odometer's
\* zero is shown, but for the manual meter, which is unknown then (sensor.py:303, 311).
LastReadingsAreShown ==
  /\ \A resource \in DOMAIN ValueSensors : \A attribute \in ValueSensors[resource] :
       said[resource] # None =>
         LET shown == ValueState(resource, attribute)
             last  == Attribute(resource, said[resource], attribute)
         IN  IF attribute = "odometer_meters" THEN shown.int >= last.int ELSE shown = last
  /\ \A resource \in DOMAIN EnumSensors : \A attribute \in EnumSensors[resource] :
       said[resource] # None =>
         LET name == NameIn(resource, said[resource], attribute)
         IN  EnumState(resource, attribute, FALSE) = IF name = "UNSPECIFIED" THEN None ELSE name
  /\ \A meter \in {<<18, "trip_meter_manual_km">>, <<19, "trip_meter_automatic_km">>} :
       LET last      == Attribute("odometer", said.odometer, meter[2])
           distances == {DashboardNumber(said.dashboard, meter[1])}
                          \cup (IF said.odometer = None THEN {} ELSE {last})
           shown     == TripMeter(meter[1], meter[2])
       IN  (said.odometer = readings.odometer) =>
             IF distances \subseteq {Default}
             THEN shown = IF said.odometer = None \/ meter[2] = "trip_meter_manual_km"
                          THEN None ELSE Default
             ELSE shown \in distances \ {Default}

\* A warning the car gave is seen: a failed light of any kind, a tyre, a service that is
\* due, a weak low-voltage battery turn their sensor on, and nothing else does.
WarningsAreSeen ==
  said.health # None =>
    LET given(attribute) ==
          NameIn("health", said.health, attribute) \notin {"UNSPECIFIED", "NO_WARNING"}
    IN  /\ AnyLightFailure <=> \E num \in DOMAIN Lights : given(Lights[num])
        /\ AnyTyreWarning <=> \E i \in 1..4 : given(Tyres[i])
        /\ IsOn("health", "service_warning") <=> given("service_warning")
        /\ IsOn("health", "low_voltage_battery_warning") <=> given("low_voltage_battery_warning")

\* The trackers show the place the car was last said to be at, in whatever format it
\* was said.
PlaceIsShown == place = located.where

\* What the car said reaches the owner: readings, states, warnings and its place
\* (sensor.py, binary_sensor.py, device_tracker.py).
ReadingsAreShown ==
  LastReadingsAreShown /\ StatesAreOptions /\ WarningsAreSeen /\ PlaceIsShown

\* Where the car is leaves no trace in the record of unknown fields: a location message
\* is recorded the same wherever the car is, even when a newer backend nests the place
\* once more in a message this release does not know.  Where it sends the place once more
\* as floats of its own, the record tells it no closer than one decimal.
LocationLeavesNoTrace ==
  LET trace(where) ==
        LET data   == LocationBytes(located.format, where, located.kind)
            fields == Decode(data).fields
        IN  UnknownOf(data, fields, Nest(fields))
      moved(byte) == [longitude |-> [located.where.longitude EXCEPT ![byte] = 255 - @],
                      latitude  |-> [located.where.latitude EXCEPT ![byte] = 255 - @]]
      unheard == IF located.kind = "floats" THEN 1..4 ELSE 1..8
  IN  located.format # None =>
        Cardinality({trace(where) : where \in {located.where} \cup {moved(byte) : byte \in unheard}}) = 1
===============================================================================
