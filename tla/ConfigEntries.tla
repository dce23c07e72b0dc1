---------------------------- MODULE ConfigEntries ----------------------------
(***************************************************************************)
(* The config entries of the integration: flows that add a car, change its *)
(* options or its password, the set-up and unload of an entry, and the     *)
(* Home Assistant services that look for a car among the entries.          *)
(*                                                                         *)
(* An entry is named by its unique id, the VIN as the flow stored it.  The *)
(* config entry manager of Home Assistant is external: it sets an entry up *)
(* when it is added, reloads it one set-up at a time, retries one that was *)
(* not ready, and replaces an entry of the same unique id.                 *)
(***************************************************************************)
EXTENDS Naturals, FiniteSets, Discovery

CONSTANTS
  Flows,          \* dialogues the user may have open
  DemoCar,        \* the one VIN that every demo entry drives
  MaxPasswords,   \* bound: passwords the account has in turn
  MaxUnloads      \* bound: unloads and restarts

NoTarget == "no target"    \* a service call without a VIN or an entity

ASSUME EntriesAssumption ==
  DemoCar \notin Cars /\ NoTarget \notin Cars /\ MaxPasswords \in Nat \ {0} /\ MaxUnloads \in Nat

VARIABLES
  password,   \* the account's password
  entry,      \* per unique id: what the entry says, or Nothing
  state,      \* per unique id: ConfigEntry.state, with the steps of the set-up
  running,    \* entry.runtime_data and what its coordinator was built from
  open,       \* the entries whose connection has a channel
  stray,      \* entries that left a channel nobody will close
  forgotten,  \* entries with a stream that their shutdown has forgotten
  stored,     \* the entries with tokens in the store
  due,        \* entries with a reload scheduled
  unheard,    \* entries whose options changed while nobody listened
  calling,    \* per unique id: a call between its token and its channel
  entities,   \* the VINs in the entity registry
  flow,       \* per dialogue: where it is and what it was told
  unloads

entryVars == <<entry, state, running, due, unheard, entities>>
channelVars == <<open, stray, forgotten, stored>>
vars == <<password, entryVars, channelVars, calling, flow, unloads>>

Vin == [car : Cars, neat : BOOLEAN]
Password == 1..MaxPasswords
Intervals == {1, 2}
Nothing == [demo |-> FALSE, password |-> 0, interval |-> 0]
Entry == [demo : BOOLEAN, password : Password, interval : Intervals]
NotRunning == [car |-> Failed, password |-> 0, interval |-> 0]
SettingUp == {"authenticating", "listing", "refreshing"}
States == SettingUp \cup {"not_loaded", "loaded", "setup_error", "setup_retry", "failed_unload"}

Closed == [step |-> "closed", demo |-> FALSE, password |-> 0, cars |-> {}, of |-> {}]

Exists(v) == entry[v] # Nothing
Settled(v) == state[v] \notin SettingUp

TypeOK ==
  /\ password \in Password
  /\ entry \in [Vin -> Entry \cup {Nothing}]
  /\ state \in [Vin -> States]
  /\ \A v \in Vin : /\ running[v].car \in Cars \cup {DemoCar, Failed}
                    /\ running[v].password \in Password \cup {0}
                    /\ running[v].interval \in Intervals \cup {0}
  /\ \A s \in {open, stray, forgotten, stored, due, unheard} : s \subseteq Vin
  /\ calling \in [Vin -> {"none", "live", "outlived"}]
  /\ entities \subseteq Cars \cup {DemoCar}
  /\ \A f \in Flows :
       /\ flow[f].step \in {"closed", "user", "checking", "vehicle", "guest_vin", "demo_vin",
                            "reauth_confirm", "reauth_checking"}
       /\ flow[f].password \in Password \cup {0}
       /\ flow[f].cars \subseteq Cars /\ flow[f].of \subseteq Vin
  /\ unloads \in 0..MaxUnloads

Init ==
  /\ password = 1
  /\ entry = [v \in Vin |-> Nothing] /\ state = [v \in Vin |-> "not_loaded"]
  /\ running = [v \in Vin |-> NotRunning]
  /\ open = {} /\ stray = {} /\ forgotten = {} /\ stored = {} /\ due = {} /\ unheard = {}
  /\ calling = [v \in Vin |-> "none"] /\ entities = {}
  /\ flow = [f \in Flows |-> Closed] /\ unloads = 0

-----------------------------------------------------------------------------
(* The flow that adds a car.                                               *)

At(f, step) == flow[f].step = step
Goes(f, step) == flow' = [flow EXCEPT ![f].step = step]
Closes(f) == flow' = [flow EXCEPT ![f] = Closed]

OpenForm(f) ==
  /\ At(f, "closed") /\ Goes(f, "user")
  /\ UNCHANGED <<password, entryVars, channelVars, calling, unloads>>

\* A demo is not asked for anything but a VIN; the password it was given is kept.
SubmitCredentials(f) ==
  /\ At(f, "user")
  /\ \E p \in 1..password, demo \in BOOLEAN :
       flow' = [flow EXCEPT
         ![f] = [step |-> IF demo THEN "demo_vin" ELSE "checking",
                 demo |-> demo, password |-> p, cars |-> {}, of |-> {}]]
  /\ UNCHANGED <<password, entryVars, channelVars, calling, unloads>>

\* A client with a token store of its own: only the password can let it in.
CredentialsChecked(f) ==
  /\ At(f, "checking")
  /\ \/ Goes(f, "user")                    \* invalid_auth or cannot_connect
     \/ /\ flow[f].password = password
        /\ \E endpoint \in Endpoints : DiscoverEndpoint(endpoint) # Failed
        /\ \E response \in VehicleLists :
             LET cars == GetVehicles(response)
             IN /\ Failed \notin cars
                /\ flow' = [flow EXCEPT ![f].step = IF cars = {} THEN "guest_vin" ELSE "vehicle",
                                        ![f].cars = cars]
  /\ UNCHANGED <<password, entryVars, channelVars, calling, unloads>>

NotListed(f) ==
  /\ At(f, "vehicle") /\ Goes(f, "guest_vin")
  /\ UNCHANGED <<password, entryVars, channelVars, calling, unloads>>

\* upper().strip() of what the user typed; a VIN picked from the list is taken as it is.
TypedVinAsIs(v) == v
TypedVin(v) == [v EXCEPT !.neat = TRUE]

\* _abort_if_unique_id_configured.
ConfiguredNever(v) == FALSE
Configured(v) == Exists(v)

\* Set-up starts over: the entry's options are read later, when its coordinator is built.
SetsUp(v, e, replaced) ==
  /\ state' = [state EXCEPT ![v] = IF e.demo THEN "refreshing" ELSE "authenticating"]
  /\ running' = [running EXCEPT
       ![v] = IF e.demo THEN [car |-> DemoCar, password |-> e.password, interval |-> e.interval]
              ELSE [car |-> Failed, password |-> e.password, interval |-> 0]]
  /\ due' = due \ {v} /\ unheard' = unheard \ {v}
  /\ open' = open \ {v}
  /\ calling' = [calling EXCEPT ![v] = IF @ = "live" THEN "outlived" ELSE @]
  /\ stored' = IF replaced THEN stored \ {v} ELSE stored

\* async_create_entry: the manager adds the entry and sets it up.
CreateEntry(f, v, interval) ==
  /\ Closes(f)
  /\ LET e == [demo |-> flow[f].demo, password |-> flow[f].password, interval |-> interval]
     IN /\ entry' = [entry EXCEPT ![v] = e]
        /\ SetsUp(v, e, TRUE)
  /\ UNCHANGED <<password, stray, forgotten, entities, unloads>>

FinishWith(f, v, interval) ==
  \/ /\ Configured(v) /\ Closes(f)
     /\ UNCHANGED <<password, entryVars, channelVars, calling, unloads>>
  \/ /\ ~Configured(v) /\ (Exists(v) => Settled(v))
     /\ CreateEntry(f, v, interval)

ChooseVehicle(f) ==
  /\ At(f, "vehicle")
  /\ \E c \in flow[f].cars, i \in Intervals : FinishWith(f, [car |-> c, neat |-> TRUE], i)

\* guest_vin asks for an interval as well, demo_vin leaves the default one.
EnterVin(f) ==
  /\ \E typed \in Vin, i \in Intervals :
       \/ At(f, "guest_vin") /\ FinishWith(f, TypedVin(typed), i)
       \/ At(f, "demo_vin") /\ i = 1 /\ FinishWith(f, TypedVin(typed), i)

-----------------------------------------------------------------------------
(* Options and password of an entry.                                       *)

\* The update listener is there from the end of the set-up; a demo has none.
Listening(v) == state[v] = "loaded" /\ ~entry[v].demo

\* _async_options_updated: the entry is reloaded.
Updated(v) ==
  /\ due' = IF Listening(v) THEN due \cup {v} ELSE due
  /\ unheard' = IF ~Listening(v) /\ state[v] \in {"refreshing", "loaded"}
                THEN unheard \cup {v} ELSE unheard

SubmitOptions(v) ==
  /\ Exists(v)
  /\ \E i \in Intervals \ {entry[v].interval} : entry' = [entry EXCEPT ![v].interval = i]
  /\ Updated(v)
  /\ UNCHANGED <<password, state, running, entities, channelVars, calling, flow, unloads>>

\* Home Assistant asks for the password again when AuthError came up.
StartReauth(f, v) ==
  /\ At(f, "closed") /\ Exists(v) /\ ~entry[v].demo
  /\ state[v] \in {"setup_error", "loaded"}
  /\ \A g \in Flows : v \notin flow[g].of
  /\ flow' = [flow EXCEPT ![f] = [Closed EXCEPT !.step = "reauth_confirm", !.of = {v}]]
  /\ UNCHANGED <<password, entryVars, channelVars, calling, unloads>>

SubmitPassword(f) ==
  /\ At(f, "reauth_confirm")
  /\ \E p \in 1..password :
       flow' = [flow EXCEPT ![f].step = "reauth_checking", ![f].password = p]
  /\ UNCHANGED <<password, entryVars, channelVars, calling, unloads>>

\* The password replaces the old one, the rest of the data stays; the reload that
\* follows does not depend on anyone listening.
KeepWhatElse(e, p) == [e EXCEPT !.password = p]
ReauthSaves(v, p) ==
  /\ entry' = [entry EXCEPT ![v] = KeepWhatElse(entry[v], p)]
  /\ UNCHANGED due
ReauthSavesAndReloads(v, p) ==
  /\ entry' = [entry EXCEPT ![v] = KeepWhatElse(entry[v], p)]
  /\ due' = due \cup {v}

PasswordChecked(f) ==
  /\ At(f, "reauth_checking")
  /\ \/ /\ Goes(f, "reauth_confirm") /\ UNCHANGED <<entry, due>>
     \/ /\ flow[f].password = password /\ Closes(f)
        /\ \E v \in flow[f].of : ReauthSavesAndReloads(v, flow[f].password)
  /\ UNCHANGED <<password, state, running, unheard, entities, channelVars, calling, unloads>>

-----------------------------------------------------------------------------
(* Set-up.                                                                 *)

SetUpEnds(v, s) ==
  /\ state' = [state EXCEPT ![v] = s]
  /\ UNCHANGED <<password, entry, running, due, unheard, entities, calling, flow, unloads>>

\* api.async_init: the stored tokens may still do, whatever the password is.
Authenticated(v) ==
  /\ state[v] = "authenticating"
  /\ running[v].password = password \/ v \in stored
  /\ \E endpoint \in Endpoints : DiscoverEndpoint(endpoint) # Failed
  /\ state' = [state EXCEPT ![v] = "listing"]
  /\ stored' = stored \cup {v}
  /\ UNCHANGED <<password, entry, running, due, unheard, entities, open, stray, forgotten,
                 calling, flow, unloads>>

\* ConfigEntryAuthFailed; the connection has no channel yet.
AuthFails(v) ==
  /\ state[v] \in {"authenticating", "listing"}
  /\ running[v].password # password
  /\ SetUpEnds(v, "setup_error") /\ UNCHANGED channelVars

NotReady(v) ==
  /\ state[v] \in {"authenticating", "listing"}
  /\ SetUpEnds(v, "setup_retry") /\ UNCHANGED channelVars

\* A car that is not in the list is driven all the same: its owner shares it.
Listed(v) ==
  /\ state[v] = "listing"
  /\ \E response \in VehicleLists : Failed \notin GetVehicles(response)
  /\ state' = [state EXCEPT ![v] = "refreshing"]
  /\ running' = [running EXCEPT ![v].car = v.car, ![v].interval = entry[v].interval]
  /\ open' = open \cup {v}
  /\ UNCHANGED <<password, entry, due, unheard, entities, stray, forgotten, stored,
                 calling, flow, unloads>>

\* async_config_entry_first_refresh raises and nobody closes the client.
FirstRefreshFails(v) ==
  /\ state[v] = "refreshing" /\ ~entry[v].demo
  /\ \E s \in {"setup_retry", "setup_error"} : SetUpEnds(v, s)
  /\ open' = open \ {v} /\ stray' = stray \cup {v}
  /\ UNCHANGED <<forgotten, stored>>

Loaded(v) ==
  /\ state[v] = "refreshing"
  /\ state' = [state EXCEPT ![v] = "loaded"]
  /\ entities' = entities \cup {running[v].car}
  /\ UNCHANGED <<password, entry, running, due, unheard, channelVars, calling, flow, unloads>>

-----------------------------------------------------------------------------
(* Unload, reload, removal, restart.                                       *)

\* async_unload_entry: the platforms, the coordinator, the client.  The entry keeps
\* its runtime_data.
ClosesNothing(v) == open
CloseClient(v) == open \ {v}

\* A poll that ends while async_shutdown waits for the streams it cancelled may
\* start one that is then forgotten (Coordinator, run shutdown_race).
ShutdownForgets(v) ==
  forgotten' \in IF Listening(v) THEN {forgotten, forgotten \cup {v}} ELSE {forgotten}

Unload(v) ==
  /\ open' = CloseClient(v) /\ ShutdownForgets(v)
  /\ calling' = [calling EXCEPT ![v] = IF @ = "live" THEN "outlived" ELSE @]

UserUnloads(v) ==
  /\ state[v] = "loaded" /\ unloads < MaxUnloads
  /\ state' = [state EXCEPT ![v] = "not_loaded"] /\ Unload(v)
  /\ unloads' = unloads + 1
  /\ UNCHANGED <<password, entry, running, due, unheard, entities, stray, stored, flow>>

\* A platform that does not unload leaves everything running.
UnloadFails(v) ==
  /\ state[v] = "loaded" /\ unloads < MaxUnloads
  /\ state' = [state EXCEPT ![v] = "failed_unload"] /\ due' = due \ {v}
  /\ unloads' = unloads + 1
  /\ UNCHANGED <<password, entry, running, unheard, entities, channelVars, calling, flow>>

\* A reload, a retry, or the user enabling the entry again.
SetUpAgain(v) ==
  /\ Exists(v)
  /\ \/ v \in due /\ Settled(v) /\ state[v] # "failed_unload"
     \/ state[v] \in {"setup_retry", "not_loaded"}
  /\ SetsUp(v, entry[v], FALSE) /\ ShutdownForgets(v)
  /\ UNCHANGED <<password, entry, stray, entities, flow, unloads>>

\* An entry that did not unload is not asked again.
LeftRunning(v) ==
  /\ open' = open \ {v} /\ stray' = stray \cup (open \cap {v})
  /\ UNCHANGED <<forgotten, calling>>

\* async_remove_entry, after an unload: the tokens go, and so do the entities and
\* the entry's reauth dialogue.
RemoveEntry(v) ==
  /\ Exists(v) /\ Settled(v) /\ unloads < MaxUnloads
  /\ IF state[v] = "failed_unload" THEN LeftRunning(v) ELSE Unload(v) /\ UNCHANGED stray
  /\ entry' = [entry EXCEPT ![v] = Nothing] /\ state' = [state EXCEPT ![v] = "not_loaded"]
  /\ running' = [running EXCEPT ![v] = NotRunning]
  /\ due' = due \ {v} /\ unheard' = unheard \ {v} /\ stored' = stored \ {v}
  /\ entities' = entities \ {running[v].car}
  /\ flow' = [f \in Flows |-> IF v \in flow[f].of THEN Closed ELSE flow[f]]
  /\ unloads' = unloads + 1
  /\ UNCHANGED password

\* Home Assistant restarts: the entries and the tokens are what is left.
Restart ==
  /\ unloads < MaxUnloads /\ unloads' = unloads + 1
  /\ state' = [v \in Vin |-> "not_loaded"] /\ running' = [v \in Vin |-> NotRunning]
  /\ open' = {} /\ stray' = {} /\ forgotten' = {} /\ due' = {} /\ unheard' = {}
  /\ calling' = [v \in Vin |-> "none"] /\ flow' = [f \in Flows |-> Closed]
  /\ UNCHANGED <<password, entry, entities, stored>>

ChangePassword ==
  /\ password < MaxPasswords /\ password' = password + 1
  /\ UNCHANGED <<entryVars, channelVars, calling, flow, unloads>>

-----------------------------------------------------------------------------
(* Services.                                                               *)

EntriesWithData == {v \in Vin : running[v].car # Failed}
LoadedEntries == {v \in Vin : Exists(v) /\ state[v] = "loaded"}

\* _resolve_coordinator: a VIN goes before an entity, and the entity must be registered.
Target == [vin : Cars \cup {DemoCar, NoTarget}, entity : Cars \cup {DemoCar, NoTarget}]

Resolve(data) ==
  LET wanted == IF data.vin # NoTarget THEN data.vin
                ELSE IF data.entity \in entities THEN data.entity ELSE NoTarget
  IN {v \in LoadedEntries : running[v].car = wanted}

\* A handler, an entity's command, a poll or a refresh asks for a token first.  A
\* demo does not.
CallService(v) ==
  /\ calling[v] = "none" /\ running[v].car # DemoCar
  /\ \E data \in Target : v \in Resolve(data)
  /\ calling' = [calling EXCEPT ![v] = "live"]
  /\ UNCHANGED <<password, entryVars, channelVars, flow, unloads>>

\* It has its token and takes the connection's channel, which a closed connection
\* opens again.
CallGoesOut(v) ==
  /\ calling[v] # "none"
  /\ calling' = [calling EXCEPT ![v] = "none"]
  /\ \/ calling[v] = "live" /\ UNCHANGED stray
     \/ calling[v] = "outlived" /\ stray' = stray \cup {v}
  /\ UNCHANGED <<password, entryVars, open, forgotten, stored, flow, unloads>>

\* _async_run_stream of a stream nobody cancelled: it subscribes again.
StreamReopens(v) ==
  /\ v \in forgotten
  /\ forgotten' = forgotten \ {v} /\ stray' = stray \cup {v}
  /\ UNCHANGED <<password, entryVars, open, stored, calling, flow, unloads>>

-----------------------------------------------------------------------------
FlowStep(f) ==
  \/ OpenForm(f) \/ SubmitCredentials(f) \/ CredentialsChecked(f) \/ NotListed(f)
  \/ ChooseVehicle(f) \/ EnterVin(f) \/ SubmitPassword(f) \/ PasswordChecked(f)
  \/ \E v \in Vin : StartReauth(f, v)

EntryStep(v) ==
  \/ SubmitOptions(v) \/ Authenticated(v) \/ AuthFails(v) \/ NotReady(v) \/ Listed(v)
  \/ FirstRefreshFails(v) \/ Loaded(v) \/ UserUnloads(v) \/ UnloadFails(v)
  \/ SetUpAgain(v) \/ RemoveEntry(v) \/ CallService(v) \/ CallGoesOut(v)
  \/ StreamReopens(v)

Next ==
  \/ \E f \in Flows : FlowStep(f)
  \/ \E v \in Vin : EntryStep(v)
  \/ Restart \/ ChangePassword

Spec == Init /\ [][Next]_vars

-----------------------------------------------------------------------------
(* Properties.                                                             *)

\* However its VIN was typed, listed or padded, and however many dialogues are open at
\* once, a car has one entry (config_flow.py:177, 201, 228).
OneEntryPerCar ==
  \A v, w \in Vin : Exists(v) /\ Exists(w) /\ v.car = w.car => v = w

\* A dialogue that ends in a car that is there already leaves its entry alone: an entry
\* never turns into a demo's or back, and a new password costs nobody his options.
EntriesAreKept ==
  [][\A v \in Vin : Exists(v) /\ entry'[v] # Nothing =>
       /\ entry'[v].demo = entry[v].demo
       /\ \/ entry'[v].password = entry[v].password
          \/ entry'[v].interval = entry[v].interval]_vars

\* What runs, or gave up on its password, runs on what the entry says now, unless a
\* reload is due or the options changed while nobody listened: during the first refresh,
\* or in a demo (__init__.py:81, 97; config_flow.py:276).
RunsOnWhatTheEntrySays ==
  \A v \in Vin : Exists(v) /\ state[v] \in {"loaded", "setup_error"} /\ v \notin due =>
    /\ running[v].password = entry[v].password
    /\ state[v] = "loaded" /\ v \notin unheard => running[v].interval = entry[v].interval

\* A channel is open only for an entry that runs or is about to: unload, reload and
\* removal close it.  Apart from it are the strays: of a first refresh that failed, of a
\* call that an unload overtook, of a stream that a shutdown forgot, and of an entry that
\* was removed though it did not unload.
ChannelsHaveAnEntry ==
  \A v \in open : Exists(v) /\ state[v] \in {"refreshing", "loaded", "failed_unload"}

\* A service that names a car gets its coordinator if the car's entry is loaded, and no
\* coordinator that was shut down otherwise.
ServicesFindTheirCar ==
  \A v \in Vin : Exists(v) /\ ~entry[v].demo =>
    Resolve([vin |-> v.car, entity |-> NoTarget]) = IF state[v] = "loaded" THEN {v} ELSE {}
=============================================================================
