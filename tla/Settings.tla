------------------------------ MODULE Settings ------------------------------
(***************************************************************************)
(* Settings of the car that are edited one field at a time and written     *)
(* back whole: the global charge timer, the target charge level with its   *)
(* mode, and the defaults of the parking climate timers.  An edit starts   *)
(* from the snapshot, and a read that gets no answer in time leaves a      *)
(* snapshot with the defaults of the message.                              *)
(***************************************************************************)
EXTENDS Naturals

CONSTANTS
  Kinds,        \* the settings that may be chosen: a subset of DOMAIN Fields
  Value,        \* what a field may be set to, but for "custom" and "blank"
  MaxAlone,     \* bound: changes made in the car or its app
  MaxEdits,     \* bound: edits
  MaxTimeouts   \* bound: reads without an answer

Fields ==
  [charge_timer   |-> {"start", "stop", "activated"},
   target_soc     |-> {"level", "mode"},
   timer_settings |-> {"seat_heating", "steering_wheel", "temperature", "preconditioning"}]

VARIABLES
  kind,       \* the setting
  car,        \* the setting in the car
  snapshot,   \* the setting in the coordinator's data
  reading,    \* what the read under way will bring, or none
  writing,    \* the write under way: the field meant and the whole record
  alone, edits, timeouts   \* bounded counters

settingVars == <<kind, car, snapshot, reading, writing, alone, edits, timeouts>>

None == [field |-> "none"]
Blank(k) == [f \in Fields[k] |-> "blank"]

\* A mode may be one of the presets, which are values, or "custom".
FieldValues(f) == IF f = "mode" THEN Value \cup {"custom"} ELSE Value

Init ==
  /\ kind \in Kinds
  /\ car \in {r \in [Fields[kind] -> Value \cup {"custom"}] :
                \A f \in Fields[kind] : r[f] \in FieldValues(f)}
  /\ snapshot = car
  /\ reading = None /\ writing = None
  /\ alone = 0 /\ edits = 0 /\ timeouts = 0

-----------------------------------------------------------------------------
(* Reads: a poll, a refresh after a command, or a stream.                  *)

StartRead ==
  /\ reading = None
  /\ reading' = car
  /\ UNCHANGED <<kind, car, snapshot, writing, alone, edits, timeouts>>

ReadAnswered ==
  /\ reading # None
  /\ snapshot' = reading /\ reading' = None
  /\ UNCHANGED <<kind, car, writing, alone, edits, timeouts>>

\* "except TimeoutError: pass", and the message's defaults as the answer.
ReadTimesOut ==
  /\ reading # None /\ timeouts < MaxTimeouts
  /\ snapshot' = Blank(kind) /\ reading' = None /\ timeouts' = timeouts + 1
  /\ UNCHANGED <<kind, car, writing, alone, edits>>

-----------------------------------------------------------------------------
(* Edits.                                                                  *)

\* async_set_charge_timer: the fields that are not given are the snapshot's.
ChargeTimerEdit(f, v) == [snapshot EXCEPT ![f] = v]

\* async_set_target_soc keeps the mode, or takes "custom" where none is known,
\* and refuses a level in any other; async_set_target_soc_mode keeps the level.
TargetSocEdit(f, v) ==
  [snapshot EXCEPT ![f] = v, !["mode"] = IF f = "mode" THEN v ELSE "custom"]
TargetSocEditable(f) == f = "mode" \/ snapshot["mode"] \in {"custom", "blank"}

\* dataclasses.replace on the settings, in a select or a number entity.
TimerSettingsEdit(f, v) == [snapshot EXCEPT ![f] = v]

EditSetting(f, v) ==
  /\ writing = None /\ edits < MaxEdits
  /\ kind = "target_soc" => TargetSocEditable(f)
  /\ writing' = [field |-> f,
                 record |-> CASE kind = "charge_timer" -> ChargeTimerEdit(f, v)
                              [] kind = "target_soc" -> TargetSocEdit(f, v)
                              [] kind = "timer_settings" -> TimerSettingsEdit(f, v)]
  /\ edits' = edits + 1
  /\ UNCHANGED <<kind, car, snapshot, reading, alone, timeouts>>

WriteLands ==
  /\ writing # None
  /\ car' = writing.record /\ writing' = None
  /\ UNCHANGED <<kind, snapshot, reading, alone, edits, timeouts>>

CarChangesAlone(f, v) ==
  /\ alone < MaxAlone
  /\ car' = [car EXCEPT ![f] = v] /\ alone' = alone + 1
  /\ UNCHANGED <<kind, snapshot, reading, writing, edits, timeouts>>

Next ==
  \/ StartRead \/ ReadAnswered \/ ReadTimesOut \/ WriteLands
  \/ \E f \in Fields[kind] : \E v \in FieldValues(f) : EditSetting(f, v) \/ CarChangesAlone(f, v)

Spec == Init /\ [][Next]_settingVars

-----------------------------------------------------------------------------
(* Properties.                                                             *)

\* An edit of one field leaves the others as they are in the car: "Set the
\* global charge timer while preserving unspecified fields."
\* (coordinator.py:983).
PreservesUnspecified ==
  [][writing # None /\ writing' = None
       => \A f \in Fields[kind] \ {writing.field} : car'[f] = car[f]]_settingVars
=============================================================================
