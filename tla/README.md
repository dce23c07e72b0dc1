# Polestar integration: TLA+ models and proofs

The repository is a Python client of the Polestar cloud (`src/src/polestar_api`)
and a Home Assistant integration on top of it (`src/custom_components/polestar`).
Everything runs on one event loop: code is atomic between two awaits, and the
hard part is what happens in between. Polls, refreshes after commands, live
streams and the shutdown write one snapshot of the car; concurrent calls share
one token that the server rotates; a command's value is shown before the car has
it; and every message comes from a backend of which only a part is known.

## The system

| Component | State | Operations | Talks to | What makes it correct |
|---|---|---|---|---|
| Snapshot (`coordinator.py`) | the value of 21 attributes, the generation that wrote each, endpoints found unserved, INVALID_ARGUMENT counts | claim a generation, read the answers of a fetch, apply values, merge partial updates | entities (notifications), activity | writes follow the order of the questions; merged attributes never rewind; every visible change is notified |
| Poll | the base class's timer, last success, daily probe | poll, re-arm, fail, ask for sign-in | snapshot, streams | polls go on; a busy car is polled on the short interval |
| Refresh after a command | a command window, one background task per accepted command | note, send, accept, refresh after growing delays until something changed | snapshot, streams, activity | stops on the first change since the command; never more tries than the schedule has |
| Streams | a task per subscription, its failures, unserved subscriptions | subscribe, deliver, retry, give up, restart with a poll, stop when idle, shut down | snapshot | active-only streams run only then; nothing is left running after the shutdown |
| Activity | active or idle | re-evaluated after every write and command | poll timer, streams | never behind the snapshot |
| Token (`auth.py`, `token_store.py`) | tokens in memory and in the store, a lock, the time of the last login | authenticate, ensure_valid_token, refresh, login, save | every call; the identity server | one renewal at a time; logins are spaced; callers are served; recovers from interruptions |
| gRPC (`grpc.py`, `connection.py`, `discovery.py`) | the channel, the endpoints | unary call with retries, stream with a retry until its first message, discovery with fallbacks | server | a call ends once; a stream is not started over once it has yielded |
| Commands (`coordinator.py`, `services/`) | the call under way | 28 commands: send, wait, look into the answer, schedule the refresh | gRPC, snapshot, entities | a refusal is an error; a command ends |
| Edits | what a command read before it wrote | charge timer, target SoC, climate timer settings | snapshot, server | no edit is lost |
| Climate timers and calendar (`parking_climate_timer.py`, `calendar.py`) | the backend's list with its pending changes, the list in the snapshot, the event a user has open | list, create, update, delete, expand weekly timers into events and back | server, snapshot | an edit hits its timer and keeps its schedule |
| Entities with a value of their own (`entity.py`, `switch.py`, `lock.py`, `number.py`, `select.py`, `time.py`) | an override, its deadline and its timer | set, confirm, expire, withdraw | commands, snapshot | never shows what was neither asked nor reported |
| Read-only entities (`sensor.py`, `binary_sensor.py`, `device_tracker.py`) | none | render | snapshot | show what was last said; states are among the options |
| Codec and messages (`codec.py`, `wire.py`, `services/`, `models/`) | none | decode, encode, tell formats apart, merge | backend | what was sent is read back; what is not known is stepped over; a merge erases nothing |
| Unknown fields (`unknown_fields.py`) | a record as long-lived as the process | record | diagnostics | bounded; holds no text, and a place no closer than one decimal |
| Entries (`__init__.py`, `config_flow.py`, `services.py`) | entries, their clients, channels and stored tokens | add, set up, retry, reload, change options, sign in again, unload, remove, find a car | all | one entry per car, running on what it says; no channel without an owner |

Components meet through the snapshot (shared state), through `async_update_listeners`
and the base class's comparison (callbacks), through the base class's timer, and
through the token and the channel that each call asks for. `PROJECT.json` lists
every component with its sources and what is modelled of it, and every hazard
with the property that watches it.

## Modules

| Module | Models |
|---|---|
| `Snapshot` | the snapshot and the helpers that read answers, merge and write values; no steps of its own |
| `Streams` | activity, poll timer and subscription tasks; the steps a subscription takes by itself |
| `Coordinator` | all steps of `PolestarCoordinator`: the poll, commands and their refreshes, stream deliveries, set-up and unload |
| `TokenService` | the promise of `AuthManager` to its callers, without lock, store or server |
| `TokenRenewal` | `AuthManager` with its callers, the store and the identity server; implements `TokenService` |
| `RemoteCall` | the promise of `unary_unary` and `unary_stream` |
| `GrpcCall` | the retries, deadlines and cancellations behind it, and a network that loses answers; implements `RemoteCall` |
| `CommandTable` | every command and every entity that issues one, as tables |
| `OptimisticState` | `OptimisticStateMixin`: the value ahead of the car |
| `Commands` | an entity, its command, the call (`GrpcCall`) and the car together |
| `Settings` | commands that read a setting from the snapshot, change a field and write it back |
| `Recurrence` | timers as calendar events and back, and when the car starts: pure functions |
| `TimerCalendar` | the calendar that is asked for a window of time or for the next event |
| `ClimateTimers` | the list of timers, its reads and its edits through the calendar |
| `Discovery` | discovery of the endpoints with its fallbacks, and the list of the account's cars: pure functions |
| `ConfigEntries` | dialogues, entries, set-up, unload, channels, stored tokens, services |
| `WireFormat` | the reader and the writer of `codec.py`, byte by byte |
| `TypedMessages` | the typed messages of `wire.py` on top of them, nested ones included |
| `WirePieces` | the messages another program may send by the rules of the format, and what a reader makes of the fields it does not know |
| `UnknownRecord` | the record of unknown fields and its limits |
| `RecordedFields` | what one message adds to that record, and what may not be in it |
| `UnknownFields` | what the messages nested by a schema add |
| `ExteriorStatus` | locks, doors, windows, lids: the merge of partial updates |
| `ClimateStatus` | the climate status and its countdown: pure functions |
| `StatusUpdates` | exterior and climate of the snapshot, as parsed statuses are merged and time passes, and what the entities show |
| `StatusServices` | the bytes in front of `StatusUpdates`: both formats of exterior and climate, written, told apart and parsed |
| `Readings` | nine other resources and the location, from bytes to sensors |
| `MC...` | small instances: contents, schedules, messages; `MCMessages` composes `MCWire`, `StatusServices` and `Readings` |
| `..._proofs` | theorems about the module of that name and their lemmas; `Commands_proofs` also holds those of `GrpcCall` and `CommandTable`, `Wire_proofs` those of `WireFormat`, `WirePieces`, `RecordedFields` and `UnknownRecord` |

### Snapshot, Streams, Coordinator

What the backend holds for an attribute is a revision number, and `Content` says
what a revision looks like: two revisions can look alike, so a value may come
back. `0` is the attribute's default. `data`, `generation`, `applied`,
`unsupported` and `invalid` are the coordinator's fields of those names. A fetch
is issued in one step (`StartPoll`, `StartRefresh`: the generation is claimed and
the calls go out), answered call by call (`AnswerArrives`, in any order and with
any outcome), and completed in one step (`PollSucceeds`, `PollFails`,
`EndRefresh`), because the code from the end of `gather` to the next await is one
block. That block is modelled whole: reading the answers in order up to the first
AuthError, marking and clearing unserved endpoints, dropping values that a later
generation has overtaken, re-evaluating the activity, pulling in the timer,
starting or stopping streams, notifying.

An answer carries the backend's revision at the moment it is prepared, which may
be any time between question and completion. For the two attributes whose merge
exists because answers are known to lag (`odometer`, `climate`) it may carry any
earlier revision as well. `Dated` are the revisions that say when they were made: two
climate snapshots are only compared if both do, so one without a timestamp replaces
whatever was there. `MergedNeverRewinds` speaks of the dated ones.

A stream task is the state of its coroutine: `open` in `async for`, `waiting` in a
sleep, `cancelling`, `done`. A revision the server sends is `inTransit` until it
is delivered, so that it can arrive after a fetch that was issued later.

`PollSeesChanges` relates the snapshot to what the poll in flight remembers of it;
`NoRefreshInMidPoll` is the step that can break it, and
`PollsAreUndisturbed` the behaviours without such a step (see Proofs).

The history variables `seen`, `streak`, `issued`, `issuedOn` and `orphans` are read
by no guard; they only let properties speak of the past.

External, and modelled from how the code uses it: the base class
`DataUpdateCoordinator` (serialises polls, re-arms the timer when a poll ends and
anyone listens, notifies on a difference or a change of success, stops after
ConfigEntryAuthFailed) and the backend.

### TokenRenewal, TokenService

`pc` says where a caller is (`waiting` for the lock, `refreshing`, in a `login`,
`saving`); `Setup` stands for `authenticate`, which runs alone at a restart and
takes no lock. A request is answered in two steps, one of the server
(`ServerRefreshes`, `ServerLogsIn`, `ServerRefuses`) and one of the client
(`AnswerGranted`, ...), and between them the client may be cancelled or the
process may stop: the server has then rotated a token that nobody holds. The lock
is asyncio's: first come, first served, and the fast path only if nobody waits.

`TokenService` promises that a good token is never replaced and that a call ends
with the token current at that moment or with an error. `TokenRenewal` implements
it, with `token <- tokens.access` and `pending` the callers that are not idle; TLC
checks it as `ServiceSpec` and `RenewalImplementsService` proves it.

### GrpcCall, CommandTable, OptimisticState, Commands

A call is a sequence of attempts; a request is the number of the attempt that sent
it and stays `travelling` until the backend carries it out or the network loses
it, also after the caller has given up. `carried` is what the backend did.
`RemoteCall` keeps of this how often the request was carried out, how many
messages were handed to the caller and how the call ended: an answered call was
carried out at least once, no call more often than it was tried, and no message is
handed out twice. That a retried command is carried out only once is not promised,
and the code does not promise it.

`CommandTable` says of each command which call it makes, what its answer is, who
looks into it, which capability a refusal hides and what is refreshed afterwards;
and of each entity which commands it issues, what it reads, what it hides behind, and
whether the value is shown before or after the command. `Commands` runs any of them: the
click, the call, the answer or the exception, the override with its clock, the expiry
timer and the notifications of the coordinator. The car may do what was asked, something
else, or nothing.

The lock is the entity that shows its value after the command. While the command runs it
is `moving` (`_attr_is_locking`, `_attr_is_unlocking`, `lock.py:51-83`): Home Assistant then
shows "locking" or "unlocking" (here `"changing"`) and does not ask for `is_locked`, so
that an override of the command before stays as it is, expiry and confirmation
included, until the next state is written. `ShownIsAccounted` says so, and that the
lock is moving exactly while a command of it runs.

`Available` is what an entity asks before it says anything: that the polls succeed, that
the capability it hides behind is supported (switches, buttons), that the target's mode
is CUSTOM or not known (`settable`, `number.py:118-125`), and that the attribute it edits
is there (`number.py:168-170`, `select.py:238-240`, `time.py:67-74`; `blank` is then
`"unavailable"`). Home Assistant does not call an entity that is unavailable, which makes
the early returns at `number.py:181` and `select.py:267` unreachable.

### Settings, Recurrence, ClimateTimers

`Settings` has the snapshot, what the car holds and the edits under way; an edit
is made from the snapshot as it was when the command began.

`Recurrence` translates `_build_events`, `_timer_rrule`, `_parse_weekdays` and
`_timer_from_event`. A day has three times and a window is some days long. `Starts` is
the reference: the moments at which the car starts the climate, seen from the moment
`now` at which the timer is what it is. A timer that repeats starts the car at every
moment it names; one that does not starts it once, at the first moment after `now`. It
knows nothing of windows. What is assumed of the car is this definition: a timer with no
weekdays names every day, and a single start is the next moment that is named.

The code asks only for the window. For a timer without repetition it therefore shows the
first moment in every window, also in one that begins after the car has started (next
week's view) or on an earlier day (the view of the month, from its first day on).
`NothingBetween` names those windows, in which one of the timer's moments lies between now
and the beginning: in them `CalendarShowsStarts` only asks for moments the timer names,
and `CalendarKeepsSchedule` for nothing but that the event is accepted (Divergences).
Everywhere else the events are the starts, and an event saved as it was opened
(`SavedAsOpened`) leaves the car starting at the same times in the two weeks to come,
although a single start is then pinned to the weekday of its event. The next event of an
entity (`NextEvent`, `calendar.py:77-82`) looks from now on and is right without exception.

`ClimateTimers` adds the
list: the backend's timers, what is pending, the merge of the two, the event a
user has open while the list changes, and the stream of statuses after a write.
`TimerCalendar` is the other question a user asks, for the events of a window or for the
next one: `Queries` are the timers, the times it is and the windows asked for. It shares
no state with the list, and `MCClimateTimers` runs the two side by side.

### ConfigEntries, Discovery

A set-up is four steps (`authenticating`, `listing`, `refreshing`, loaded) with a
failure of each kind at each. A dialogue holds what it was told before its login
and writes an entry after it. `open` are the entries whose connection has a
channel, `stray` those that left one nobody will close. The code has four ways of leaving
one, each an action of its own: a first refresh that fails (`FirstRefreshFails`), a call
that waited for its token while the entry was unloaded (`CallGoesOut`), a stream that the
shutdown forgot (`ShutdownForgets`, `StreamReopens`: the run `shutdown_race` shows how, and
`Coordinator` has the streams themselves), and an entry that is removed after a failed
unload (`LeftRunning`). `ChannelsHaveAnEntry` is about all other channels: it says that
what the entries do leaves none behind. Home Assistant's config entry manager is
external.

### WireFormat, TypedMessages, WirePieces, UnknownRecord, RecordedFields, UnknownFields, ExteriorStatus, ClimateStatus, StatusUpdates, StatusServices, Readings

Messages are sequences of bytes, and a reader is a function of them: whatever is
not known is stepped over by its length, an exception is a record with an `error`
(`Then` goes on without one). Floating-point numbers and text stay the bytes they
travel as. `Modulus` stands for 2^64, because what can go wrong sits at the edges of
the width, wherever they are. The loops of `codec.py` are recursive functions of a
number or of a position, so that theorems can be proved about them; the nested
messages of `wire.py` are operators that call themselves, in modules of their own
(`TypedMessages`, `UnknownFields`). `EntriesOf` looks into the messages that bytes may
hold level by level, at most `MaxDepth` of them, so it is a function of the level.
`WirePieces` says what may be sent without looking at the reader: a varint may be
longer than it needs to be, and the content of a group is the least set of bytes
that holds nothing and can be put together from fields and groups. `told`, `said` and `located`
are what the backend last said, `exterior`, `climate`, `readings` and `place` what the
snapshot then holds; the properties relate the two through the questions the entities ask.

The record keeps numbers as they are, timestamps as one value, and bytes as their length or,
where they read as a message, field by field. Of a location message it keeps floats to one
decimal (`Rounded`) and of what is nested nothing but the length. Floats are opaque here,
so `Rounded` stands for `round(value, 1)` by giving up the less significant half of the
bytes: which digits are lost is arithmetic the models leave out, that some are kept and
the rest is not is what `RecordIsPrivate` depends on. It compares the record of a location
with those of the same message from other places: from anywhere else where the place is
nested once more, and from places that differ in the lost part where it is sent once more
as floats. A message that does not decode ends the walk with those around it (`Decodes`,
`WalkItems`), and what was recorded before stays.

Two modules are free of bytes, so that theorems can be proved about them:
`UnknownRecord` stores entries whatever a message made them of, and `StatusUpdates`
merges statuses whatever format they came in. Their actions (`RecordAll`,
`TakesStatus`, `ClimateReported`) are the ones the readers of bytes take, and their
properties are those the run checks behind the bytes. `UpdatesSpec` lets any status
of the right shape arrive (`Status`, `TwinReports`, `LegacyReports`); a count of
minutes of the older format is taken to be no negative number.

## Runs

| Run | Asks |
|---|---|
| `polls` (`MCCoordinator`) | A poll and a post-command refresh overlap on a merged and a plain attribute, with answers in any order, failures and unserved endpoints: values are written in the order they were asked for, and the polls never stop. Properties: `NeverOlderThanAsked`, `PollingContinues`. |
| `streams` (`MCCoordinator`) | An always-on and an active-only stream deliver, close and start again while polls run: the entities show the snapshot, the activity follows it, and the paid-for stream runs only while the car is active. Properties: `EntitiesShowSnapshot`, `BusyCarIsWatched`, `ActiveOnlyStreamsStop`. |
| `lifecycle` (`MCCoordinator`) | One streamed climate attribute through set-up, sign-in failures, every way a subscription can end, give-up, restart and unload, with late answers and snapshots without a timestamp: it keeps its types and its refresh schedule, and no dated snapshot gives way to an older one. Properties: `TypeOK`, `MergedNeverRewinds`. |
| `renewal` (`MCTokenRenewal`) | Two callers, one of them cancellable, and the login of a restart share a token the server rotates: one renewal at a time, logins apart, every call ends, there is a good token again and again, and the promise of TokenService is kept. Properties: `OneRenewal`, `RefreshTokenIsCurrent`, `LoginsAreSpaced`, `ServiceSpec`, `EveryCallEnds`, `Recovers`. |
| `commands` (`MCCommands`) | A command from the click to the confirmation, for five entities whose commands go different ways, a lock that shows itself changing and a target that can be locked out among them: requests are lost, refused, retried and cancelled, the car changes by itself, the override is confirmed, expires or is withdrawn; the call implements RemoteCall and what is shown settles. Properties: `TypeOK`, `ShownIsAccounted`, `RefusalFails`, `FailedIsNotShown`, `RefreshReachesEntity`, `OverrideHolds`, `CallIsRemoteCall`, `Settles`, `CommandEnds`. |
| `timers` (`MCClimateTimers`) | The calendar shows and edits timers while the car changes them: a window and the next event show when the car starts, saving an event leaves the car starting as before (both but for the windows that are named), an edit reaches the timer it was made for, and a refusal that was heard is reported. Properties: `HeardRefusalFails`, `CalendarShowsStarts`, `CalendarKeepsSchedule`, `MergedIsFuture`, `EditHitsItsTimer`. |
| `messages` (`MCMessages`) | Messages of the backend, byte by byte, through the codec, the parsers, the merge and the entities: whatever a newer backend adds, every fact is shown as it was last said, and the record of unknown fields stays small, keeps no text and tells a place no closer than one decimal. Properties: `UnknownFieldsAreSkipped`, `SentIsReadBack`, `RecordIsBounded`, `LastWordStands`, `ReadingsAreShown`, `RecordIsPrivate`, `CountdownRunsDown`. |
| `entries` (`MCConfigEntries`) | Two dialogues at a time add, re-authenticate, configure and remove the entries of a car while set-ups fail, retry and reload, commands outlive an unload and a shutdown forgets a stream: one entry per car, running on what it says, found by the services, and no channel without an owner but the four kinds that are named. Properties: `TypeOK`, `OneEntryPerCar`, `RunsOnWhatTheEntrySays`, `ChannelsHaveAnEntry`, `ServicesFindTheirCar`, `EntriesAreKept`. |

Four runs show a place where the code does not do what one of its comments says;
`PROJECT.json` quotes the comments under "findings":

| Run | Shows |
|---|---|
| `missed_notification` (`MCCoordinator`) | A refresh applies while a poll is in flight and the poll brings the old look back: nobody tells the entities. Property: `EntitiesShowSnapshot`. |
| `shutdown_race` (`MCCoordinator`) | A poll completes while the shutdown waits for the cancelled streams, and starts them again. Property: `StreamsAreCancelled`. |
| `charge_timer_edit` (`Settings`) | Two edits of the charge timer, the second made before the first is read back: it writes back the field the first one changed. Property: `PreservesUnspecified`. |
| `negative_numbers` (`MCWire`) | A negative int attribute is written as an int64 and read as a number above its range. Property: `IntegersAreSigned`. |

Run one with `tlc -config polls.cfg MCCoordinator.tla`; each takes seconds to
three minutes.

### Bounds

| Bound | Meaning, and why it is enough |
|---|---|
| `MaxGen` | fetches and stream deliveries of a behaviour. With three the worst order exists: an early and a late question in flight, and one before both |
| `MaxRev`, `LastRev`, `Dated` | revisions of an attribute, of which two look alike, so that a value can come back, and one carries no timestamp; `lifecycle` has a revision more, so that an undated one can come between two that are dated |
| `InvalidLimit`, `MaxRetries`, `Delays`, `StreamedDelays` | the code's 3, its retry limit and the lengths of its schedules (6 and 2), shortened: nothing depends on them but reaching them |
| `MaxGrants`, `MaxLost` | tokens the server grants (5: two renewals in a row after a lost one), renewals that are interrupted (2) |
| `Entities` | lock, climate, charging, target SoC and timer seat heat: one for each way the tables know of showing a value, looking into an answer and being unavailable. The theorems cover all of them |
| `TTL`, `Retries`, `MaxMessages`, `MaxChanges`, `MaxTrouble` | ticks of an override (2), retries, messages of a stream, changes the car makes alone, polls that fail (1 each): the override can outlive the command, a retry and a change |
| `Queries` | plans and windows the calendar is asked for, see the next row |
| `Times`, `Ids`, `Slots`, `Statuses`, `Plans`, `MaxEdits` | three times of a day, two timers in two slots, a status of each kind (refusal, delivered, offline), two edits. The calendar is asked for every plan over three weekdays and the unspecified one, on a Wednesday at the middle one, in windows from hours to more than a week that begin two days before, today or tomorrow |
| `Modulus` | 2^14 instead of 2^64, two whole septets; the edges (0, 127, 128, the sign) are the same. The theorems hold for any above 127 |
| `MaxKeys`, `MaxValues` | size of the record of unknown fields (the code's 200 and 10), reached with two keys |
| `MaxPieces`, `MaxFacts` | pieces of a message, facts told in a row: what is known and what is not may come in any order |
| `MaxClock`, `ReportTimes` | half minutes of a countdown's life; it rounds up, so that halves matter |
| `Cars`, `Flows`, `MaxPasswords`, `MaxUnloads` | one car, whose VIN may be typed neatly or not, two dialogues (interchangeable), a password and its successor, two unloads |

In `messages` the readers work one at a time: they share nothing but the record of
unknown fields. Deadlock is checked in `renewal`, `messages` and `entries`. The
others do stop: Coordinator at `MaxGen`, after a failed set-up (Home Assistant
retries with a new coordinator) and after the unload; Commands once its entity is
removed; timers and settings once their edits are used up.

### Fairness

The safety runs assume none.

`TokenRenewal!LiveSpec` assumes weak fairness of the client's own steps and of
waking a waiter (the event loop runs what is ready), of every request being
answered or broken (httpx has timeouts), and, as `Persistence`, that somebody keeps
calling, that set-up is retried and that the cooldown's time passes. Refusals,
cancellations and restarts are never assumed; `MaxLost` bounds the interruptions,
without which recovery cannot be promised.

`Commands!LiveSpec` assumes weak fairness of the 30 seconds of `async_run_command`,
of the handler that resumes when its call has ended, of the reports of the car
(polls go on: `PollingContinues`), of the clock and of the expiry timer. Nothing is
assumed of the backend, the network or the car. `CommandEnds` is therefore about
commands with a limit only.

## Proofs

For every value of the constants:

- `TypeCorrect` (Coordinator): `TypeOK` with `TriesWhileAsleep`. The second makes the
  first inductive: a refresh that goes to sleep has a try left, so the count of
  tries stays a natural number.
- `GenerationsOrder` and from it `SlowAnswersLose` (`NeverOlderThanAsked`). That no
  write brings back an old value is not inductive. `GenerationInv` adds that
  generations in flight are ordered like the backend states they asked about
  (`ClaimsAreOrdered`), that an answer is no older than its question
  (`AnswersAreCurrent`), and that a generation which may still write was issued
  after all that have written (`WritersAreOrdered`). Claiming a generation keeps
  these because it is larger than all before; writing keeps them because of
  `Fresh`.
- `ReadingsGoForward` (`MergedNeverRewinds`), an action property that follows from the
  steps alone: whatever writes, writes what `MergePartialUpdate` lets through. Of climate
  snapshots it speaks as far as they are dated.
- `PollingGoesOn` (`PollingContinues`), `BusyCarsAreWatched` (`BusyCarIsWatched`) and
  `IdleCarsAreNotStreamed` (`ActiveOnlyStreamsStop`), each inductive with `TypeOK`. Every
  step that writes the snapshot re-evaluates the activity in the same step, which
  pulls in the timer and starts or stops streams before anybody can look. An
  attribute's default must not look busy, or a car would be busy before its first
  poll (`StreamsAssumption`).
- `WritesAreShown`: `EntitiesShowSnapshot` in every behaviour in which no refresh ends
  in the middle of a poll (`PollsAreUndisturbed`), and its corollary
  `PollsAndStreamsAreShown` for cars without commands. Of all behaviours the
  property is false, as the run `missed_notification` shows. What makes it
  inductive is `PollSeesChanges`: the base class compares the snapshot at the end of
  a poll with the one before it, so a value the poll may still replace must look as
  it did when the poll started. Of the steps of Coordinator only a refresh that ends
  in mid-poll breaks that (a stream does not: its generation is newer than the
  poll's, which then leaves its value alone), and the hypothesis excludes that step
  and no other.
- `UndisturbedShutdownsCancel`: `StreamsAreCancelled` in every behaviour in which no poll
  or refresh completes and no command is accepted while the entry shuts down
  (`ShutdownsAreUndisturbed`). The run `shutdown_race` shows it false of all behaviours;
  the theorem says that there is no other way: the three excluded steps are the ones
  that start streams, and every other step leaves what was cancelled.
- `RenewalIsOwned`, `CallersShareOneRenewal`, `LoginsKeepTheirDistance`
  (TokenRenewal). Mutual exclusion needs `LockProtects` for the callers and
  `SetupIsAlone` for `authenticate`, which takes no lock. The cooldown is checked
  before a refresh and the login follows it; that it is still over then rests on
  `RenewalIsDue`: a caller that refreshes does so outside the cooldown, and nobody
  else can start a login meanwhile.
- `RenewalImplementsService`: every step of TokenRenewal is a step of TokenService
  or leaves its variables alone. It needs that renewals are made for expired
  tokens only (`RenewalIsDue`) and that what the server grants is new
  (`GrantsAreNew`).
- `NewestTokenIsAccepted` (`TokenInv`) and from it `PresentedTokenIsCurrent`
  (`RefreshTokenIsCurrent`). That a refresh presents the newest token is not
  inductive: the newest token may be in an answer on its way, in the client's
  memory or only in the store. `TokenInv` says of every one of these places that the
  server accepts what is there, unless a renewal was interrupted; that a cooldown or
  a restart does not mix the places up rests on `LockProtects` and `SetupIsAlone`.
- `TypesAreKept` (TokenRenewal) and `WaitersAreServed` (`NobodyWaitsInVain`): a caller
  waits exactly if it has a place in the lock's queue, it has one, and the lock is only
  held by a caller at work. This is the safety part of `EveryCallEnds`. A caller that is
  cancelled while it waits takes its place out of the middle; `LeavingKeepsQueue` says
  that the others keep theirs, in their order.
- `CallImplementsRemoteCall`: every step of GrpcCall is a step of RemoteCall or
  leaves its variables alone. `CallInv` says what makes an answer count: a request
  that travels was not carried out yet, a stream that has yielded was, no stream
  that has yielded waits for another try, and there are no more requests than
  tries (`CarriedIsCounted`, a fact about cardinalities).
- `CommandIsRemoteCall`: the same of Commands, because each of its steps is a step
  of GrpcCall or leaves the call alone (`StepCalls`). Which call that is, is a
  lemma about the tables: every entity's commands are in the table of commands,
  and every entry of it names a call and an answer.
- `TypesAreKept`, `EveryStateIsAccounted` (`ShownIsAccounted`, inductive with the
  types: whatever writes a state leaves it accounted for, and a lock's state is written
  on the way into its command and on every way out of it), `OverridesHold`,
  `FailuresAreWithdrawn`, and `RefusalsAreReported`, which rests on
  `RefusalsAreRecognized`, a lemma about all answers, and on no entity's command
  being trusted unseen. `EveryEntityIsRefreshed` carries `RefreshReachesEntity` from
  the five entities of the run to all in the table.
- `EditsHitTheirTimer`, `HeardRefusalsAreReported` and `ReadsShowTheFuture`
  (`MergedIsFuture`) of ClimateTimers. A set that goes on listening has heard no
  refusal so far (`HeardInv`).
- `EventsAreTheStarts`, `NextEventIsTheStart` and `SavingAnEventKeepsTheSchedule`: for every
  timer, time and window. The loop of `_build_events` finds the moments that the timer
  names in the window, in their order, or the first of them if it does not repeat
  (`NamedFrom`). The loop is a recursive function of the day; that its definition has a
  solution and what it computes is shown by induction from the last day to the first. For
  a timer that does not repeat it then takes an argument about windows: the first moment
  from the beginning on is the first one after now exactly if none lies between the two.
  That the next event always exists rests on a week having each weekday and `LookAhead`
  being longer than a week. `CalendarIsRight` and `CalendarRoundTrips` carry all three to
  the properties of the run.
- `RecordStaysBounded` (`RecordIsBounded`): the record of unknown fields, however many
  entries a message has. Inductive is `Sound`, which adds that the sets are finite
  and that no slot is empty; that a message keeps it is shown by induction on its
  entries.
- `UnknownSkipped` (`UnknownFieldsAreSkipped`): a message with any fields of a newer
  backend among its own is read as if they were not there. The reader and the
  format are described apart: `VarintIsRead` says that a varint anywhere in a
  message is read as the number it stands for and left right behind it,
  `ContentsSteppedOver` that `SkipGroup` stands behind the end tag of a group,
  whatever is nested in it, and `PartsAreRead` that what is read of fields written one
  after the other is what is read of each. The content of a group is a least set,
  so that what holds of it is shown by naming a set which is closed in the same
  way (`Contents`): the contents that any reader, wherever it stands in any message,
  leaves right behind.
- `TextIsNotRecorded`: of two messages that differ in nothing but text of the same
  length, the same entries are recorded, at whatever depth the text stands, in however
  many fields, and for every set of known fields (the part of `RecordIsPrivate` that
  is about `record_fields`). `Twins` says which bytes differ in nothing else, as a least
  set: texts of the same length, and messages of fields that are the same or carry
  twins. Two things make it hold and are shown to survive every nesting
  (`Indistinct`): the twins read as messages alike, since where a message is well
  formed depends on tags and lengths only (`PartsAreWell`) and since twins are
  printable in the same places; and each level of `EntriesOf` tells of bytes what the
  level below tells of the bytes in their fields (`LevelsAre`, `SortedAlike`). Text is
  printable ASCII.
- `MessageIsReadBack`: what `encode` writes, in whatever order, `decode` reads back;
  of a negative number its two's complement. It rests on `EncodedIsDecoded`, that
  the shortest varint of a number stands for it. `SentAgainIsTheSame`: what was read
  is sent back as the same bytes. Both are about one level of a message; a nested
  message is a value of bytes there.
- `TheLastWordStands` (`LastWordStands`): that a merge erases nothing is a lemma of each
  level of the tree (`MembersMerge`, `PartsMerge`, `StatusesMerge`), for any parts of a
  car. `ExteriorInv` adds the shape of the snapshot. `TheCountdownRunsDown`
  (`CountdownRunsDown`) rests on rounding being monotone and off by half a minute at
  most (`RoundingIsMonotone`, `RoundedIs`).
- `CarsHaveOneEntry`, `ChannelsAreOwned`, `ServicesFindCoordinators`,
  `EntriesRunOnWhatTheySay`, `EntriesStayTheirs`, `EntriesAreTyped` (ConfigEntries).
  `EntriesInv` says
  that entries are stored under neat VINs, that what is set up has an entry, that a
  channel's entry runs, and that what runs has the car of its VIN. A dialogue that
  asks for a password needs `FlowsOK`, that its entry is still there, and what an
  entry runs on needs `AllRun`, which adds the set-ups that are under way. The types
  need `DialoguesTyped`, that a dialogue past its password form has a password.

The assumptions are those named `...Assumption` in the modules: sorts of the
constants, and that names which stand for "nothing" or "demo" are not names of
cars, actors or values.

The prover cannot use the library's induction theorems, which take an operator as a
parameter. Three modules therefore prove induction of sets instead (`Induction`:
a set that holds 0 and the successor of each of its numbers holds them all) from
the library's facts on well-founded relations, and apply it to the set of numbers
for which a statement holds. That reaches recursive functions: of a day, of the
length of a message, of the distance from a position to its end. The definition
of such a function is a choice, so that each is first shown to have a solution and
only one, by the same induction. It does not reach `RECURSIVE` operators.

Only model-checked:

- liveness (`EveryCallEnds`, `Recovers`, `Settles`, `CommandEnds`), which the prover
  cannot express;
- what typed messages nested in one another say (`SentIsReadBack`, `ReadingsAreShown`,
  `RecordIsPrivate`, and the way from bytes to the statuses that `TheLastWordStands` and
  `TheCountdownRunsDown` start from): `FromBytes`, `ToBytes` and `Walk` are `RECURSIVE`
  operators over schemas. What they call is proved (`MessageIsReadBack`,
  `UnknownSkipped`, `TextIsNotRecorded`). That a location is recorded coarsely is the
  other half of `RecordIsPrivate`.

## Divergences

Places where the models follow the code and a reader might expect something else.
Four contradict a comment and have a run of their own (above). The others:

Snapshot and refresh
- a value that a stream delivers claims a newer generation than a fetch issued
  meanwhile, though it may be older: messages carry nothing that would tell;
- a refresh whose only attribute is refused leaves an endpoint marked unserved;
  the daily probe unmarks it;
- INVALID_ARGUMENT failures are counted without being reset by failures of another
  kind;
- an AuthError in a refresh after a command is swallowed; the next poll meets it;
- the refreshes after a command go on when a stream brought the change before the
  command had returned.

Entries
- options changed during set-up, and of a demo ever, are not applied
  (`__init__.py:98`): `unheard` in ConfigEntries;
- a first refresh that fails leaves its client open; a command that was waiting for its
  token when the entry was unloaded opens the channel again (`connection.py:49`), and so
  does a stream that the shutdown forgot (`coordinator.py:661-669`, 598-648); an entry
  removed after a failed unload leaves everything running: `stray`.

Commands
- the answers of pre-cleaning and of the amp limit are not looked into: a refusal
  counts as done (`invocation.py:124-132`, `vehicle.py:448-454` against
  `coordinator.py:735`); a reply without a status counts as done too, and so does a
  write of a timer that is not acknowledged in ten seconds;
- a retried command may be carried out twice;
- commands that are awaited directly have no limit of 30 seconds;
- the switches for climate and charge timer hide behind capabilities that no
  command marks; a command found unsupported is never tried again;
- a second command's failure clears the first one's override; the lock may set an
  override after its entity was removed, and while it is locking or unlocking an earlier
  override outlives its confirmation;
- the statuses of the several calls that update a charge location are ignored
  (`coordinator.py:1040-1049`);
- two edits of a setting made before the first was read back lose a field (run
  `charge_timer_edit`; target SoC and timer settings have the same shape);
- deleting an event accepts any status but 0, though the docstring
  (`parking_climate_timer.py:149`) speaks of failures; of two timers in one slot
  the calendar shows the first.

Messages and entities
- a read that times out returns its default and overwrites the snapshot;
- a partial exterior update of the newer format without an integer among its fields
  is read as the older format; a single unknown enum loses a whole message of the old
  format; an empty nested message counts as absent except in the battery's;
- a message with a lower odometer loses its trip meters (`coordinator.py:456`); a trip
  meter of 0.0 on the dashboard falls back to the odometer's, and where that is 0.0, too,
  the manual meter is unknown (`sensor.py:303`) and the automatic one shows 0.0 (311);
- `is_locked` of the binary sensor is true while the lock is unknown
  (`binary_sensor.py:63`); `is_charging` leaves out smart charging
  (`battery.py:108`); no entity shows the warnings of coolant and oil;
- heading, speed and altitude (`README.md:372`) are never read from a message.

Demo
- starting and stopping a charge returns 0 and is reported as failed; timers and
  locations that are created after a deletion may share an id; every demo drives
  the same car, whatever VIN was typed.

## Not modelled

- Time has no length: a sleep, the cooldown and the command window end at any
  moment, so nothing is said of how long things take, in particular not that a
  login fits into the 15 seconds of a fetch.
- The pages of the identity server (redirects, terms, PKCE) between the start and
  the end of a login; TLS, keep-alive and headers of the channel.
- The debouncer behind the refresh button.
- A charge timer without a start or a stop time, for which its entity answers nothing before
  it looks at the override (`time.py:77-84`).
- The tables of fields of the messages that share a shape with those of Readings
  (OTA schedule, target SoC, amp limit, charge location), the estimates of charging
  times, the update entity, the layout of diagnostics, and the schemas of services.
- Demo mode beyond the car it drives: a canned vehicle without a protocol.

Further proofs within reach: the typed messages, with the recursion over schemas
turned into a function of the depth, and with it the whole of `SentIsReadBack` and
`RecordIsPrivate`. The latter needs a notion of twins that knows the schema: `_walk`
reads a field that the schema calls a message as one, be it text.
