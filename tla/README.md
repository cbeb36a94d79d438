# Verification of smart-api

smart-api is the HTTP API of a home-energy system: agents on microcontrollers
switch devices and report what they did, workers poll energy providers, and
owners read reports. The modules here model the parts of it that carry logic of
their own, TLC checks them on small instances, and TLAPS proves the main safety
properties for every instance.

The repository uses a package `smart_common` (models, repositories, services)
whose directory is empty at this commit. What the code in `app/` needs from it is
modelled from how it is used, and marked external in `PROJECT.json`.

## Inventory

| Component | State | Operations | Hard behaviour | Correct when |
|---|---|---|---|---|
| Device events, `routes/device_events.py` | device rows (`manual_state`, `last_state_change_at`, number), `devices_config` of each microcontroller, event log | post an event as owner, as agent by id, number or both, by UUID; list | handlers run in a thread pool, each with its own transaction; rows are read before and written at commit; the configuration is read, rebuilt and written as a whole | row, configuration and log tell one story |
| Devices, `routes/devices.py` | the same rows | create, update, delete, manual state, list | run between the steps of the event routes | commands and renumbering leave the configuration coherent |
| On-time, `provider_measurements.py` 964-1094 | none (reads) | seconds a device was on in a window | events out of order, late, repeated, without a state; the state before the first event is guessed | bounded by the window, exact for what the rows say |
| Power windows, same file 850-943 | none | samples of a window, carry in and out, hold time | gaps, equal times, boundaries | each reading stands where it should |
| Day telemetry, same file 148-245, 415-485, 723-821 | none (reads) | energy by hour, revenue matched with market prices | two queries in one report, readings saved meanwhile, prices with gaps and overlaps | energy and revenue exact by hour, loop ends |
| Current-hour pool, same file 284-397 | none (reads) | production minus consumption of the hour | three sources read one after the other | never more than was produced |
| Email tasks, `tasks/email_tasks.py` | message queue | send a confirmation or a reset mail | retries, lost answers, death of the worker | bounded attempts, no needless mail, every task ends |
| Metrics and prices, same file 488-720 | none (reads) | series of one metric or all, the price shown | a list and then one query for each entry, while pollers save and define | every metric once, complete, the price in force |
| Schedulers, `routes/schedulers.py` | scheduler rows, devices | create, update, delete, threshold units, list | deletion turns devices off one by one over the message bus, with two awaited calls for each | a deleted scheduler leaves no device on |
| Microcontrollers, `routes/microcontrollers.py`, `routes/admin/microcontrollers.py` | rows, files of the agent | create, update, delete, provider, configuration files, reboot | read, modify, write of the agent's files over the bus after the commit; timeouts, commands executed late | the files hold whole versions, and a repeated update repairs them |
| Providers and wizard | provider rows, wizard sessions | create, update, enable; wizard steps | sessions expire, one service object per process | a step or an answer that says why not |
| Authentication, users, enums, application, migrations | users, tokens | single calls of `smart_common` | - | - |

How they interact: the event routes write the rows and the log that the on-time
computation reads; it feeds the current-hour pool together with the power window,
which the day telemetry uses too (`HourPool` is that composition). The auth service
queues the email tasks in Redis. The device and microcontroller routes talk to the
agents over NATS, through `smart_common` (`Schedulers`, `AgentConfig`). The
configuration column of a microcontroller is written by its own routes and by the
event routes (`AgentConfig`, `DeviceEvents`).

The hazards found in this code are listed, at their lines and with the
properties that cover them, under `hazards` in `PROJECT.json`.

## Modules

### DeviceEvents

State: `rows` is the devices table, `conf` the `devices_config` of each
microcontroller, `log` the committed events and manual commands in commit order,
`req` what each thread of the request pool holds in its session, `now` the clock.

| Action | Code |
|---|---|
| `LoadFromAgent`, `RejectFromAgent` | `create_device_event_from_agent` and its UUID variant up to `_create_agent_event`: find the device, or answer 404 or 422 |
| `LoadFromUser` | `create_device_event` up to the insert |
| `Prepare` | `_create_agent_event` up to the insert: resolve the state, set the snapshot, rebuild the configuration from what is committed now |
| `Commit` | the insert and the commit of the session |
| `Abort` | rollback after an error, or the death of the process |
| `SetManualState`, `UpdateDevice`, `DeleteDevice` | the three routes of `devices.py`, each one transaction |
| `Tick` | time passes |

Assumptions about code outside the repository: a session writes only the columns that
differ from what it loaded (`Flushed`); event, row and configuration commit together, and
only while the device exists (the event's foreign key); `get_db` rolls back on an error;
renumbering and deleting a device leave the configuration to the next event. A device's
UUID stands for its id. `devices_config` is a list, as in the code: the rewrite changes
every object that matches by id or by pin (`OfDevice`) where it stands and appends one
only when none did, so after a renumbering the list may hold a device twice. A missing or
malformed list is the empty one. Texts are abstracted to on, off, anything else and none.
The log records, as history, how much of the log a transaction had seen when it read the
row (`seen`) and the configuration (`mcseen`): "overlap" in the properties is defined with
them.

Properties: `ConfigCoherent` (objects for one device or pin are equal, however many there
are and whatever overlaps), `OldPinsGone` (without overlap, no object of a device is older
than its last report, so a renumbered device is not left on its old pin; an event that read
the row before a renumbering puts it there, and the next one takes it off),
`SerialConfigComplete` (without overlap no device's state is lost; with overlap it may
be, which is what a read-modify-write without a lock gives), `RowIntact` (after a
serial transaction, the row has both its values; overlapping ones may tear it),
`SnapshotExplained` (no change of row or configuration without its event, and no other
device's object changed by a transaction that did not overlap), and `ResolversAgree`
(what was written to the snapshot is what the report reads back, except when the agent
sends `is_on` and `pin_state` with opposite values). That nothing of a failed insert stays
rests on the rollback of the session, which is assumed.

### DeviceOnTime

The computation of `_calculate_device_on_seconds`: `EmptyWindow`, `Fallback`,
`Begin`, `SkipEvent`, `CountEvent` and `Finish` are its returns and its loop. Its
inputs (the state of the last event before the window, the device's snapshot and
the events of the window) are chosen freely in `Init`, because three queries read
them while events are committed. `ExactCount` compares the loop with a definition
second by second, and `OnBounded` says that a device is charged for the window at most.
`FallbackAgrees` says what a device without events is charged, by either branch: its state
since the last change and the opposite one before, as one event of that time and state
would count, when the change is before the end of the window. At the end and after it the
fallback counts nothing, while the loop would take one event that turns the device off
exactly at the end for a whole window on: the two differ there.

### PowerWindow and DayTelemetry

`PowerWindow` holds the operators both reports use: readings of a window, with the
later of two at one time kept, carry in and carry out, the hold time and the
intervals of effective power. `DayTelemetry` is the telemetry handler: `BuildEnergy`
and `BuildRevenue` are its two queries of the day's samples, between which `Save`
may add readings; `NextInterval`, `MatchSegment`, `LeaveInterval` and
`LastInterval` are the loops of `_build_matched_revenue_summary`. Times are whole
units and energy is power times units; rounding for output is left out.
`DayExact` and `RevenueExact` compare the hours with sums unit by unit;
`SegmentsAdvance` shows that the loop's exit on an empty segment is never taken;
`HalvesAgree` relates revenue and energy of one report when no reading came
between its queries; `Answered` says the report ends.

### HourPool

The handler of the current-hour pool. `Reject`, `Open`, `BuildProduction`,
`ListDevices`, `ReadPrevious`, `ReadEvents`, `CountOnTime`, `Charge`, `LastDevice`
and `Answer` are its steps: it reads the clock, the readings, the device rows and
then two queries of events for each device. `CountOnTime` is a step of
`DeviceOnTime`, taken as an INSTANCE over the pool's variables, and the samples are
those of `PowerWindow`. Around it the world goes on: `Switch` is a relay that
changes, `Post` an agent that reports it, late, perhaps twice and after later ones (one
committed transaction of the event routes), `Tick` the clock. `facts` keeps what the relays
really did. The agents' clocks are assumed to agree with the server's, and a relay
switches at most once in a unit of time, so that the order of the events is that
of their times.

`ConsumptionTrue` relates the two: if the events from before the clock was read had
been posted when the device was queried, the device is charged for the time its relay
was really on, although rows and events are read at different moments. It leaves out,
by `Informed`, one race (without `Informed`, TLC returns it): the clock is read first,
so the first event a device ever posts may overwrite its row before the row is read;
then nothing tells its earlier state and it counts as off. `ProductionExact` compares
the production with a sum unit by unit; there a reading from before the hour, moved to
its start, stands for the hold time from there, so for up to twice the hold time in
all. `PoolBounded` bounds the answer by production and rated energy. Rounding and the
repeated last sample (`current_power`) are left out. So are manual commands, which change
the row without an event: the charge is compared with what relays did that report what
they do. The log is a set, as an event posted twice adds no second one to count.

### DayReports

The reports of a day other than the revenue: `ListPower` is the power route,
`IntegrateEnergy` and `ListMeasurements` the two queries of the energy series,
`GetDefinition` and `BuildSeries` the route of one metric, and `ListDefinitions`,
`BuildSeries`, `AllSeries`, `GetActive`, `GetLatest`, `ListHistory` the questions of the
telemetry report about metrics and prices. `Reject` and `Open` begin all of them. Between
any two, `SaveReading`, `SaveMetric`, `DefineMetric` (a new definition or another one) and
`Publish` are the workers. The two calls of `_build_market_price_context` (settlement and
forecast) differ in the market only and are one here. The calendar is days of a few hours
and hours of a few units; a day ends one unit before the next begins, as the code ends it
a microsecond before.

`OneDay` is what `energy_series.days[day_key]` in the telemetry route relies on.
`HoursExplained` relates hours and entries, which come from two queries: the samples
are read first, so an entry may lack its hour and never the other way round.
A series of a metric says which values it was made of. The values of an hourly one go to
`integrate_hourly` of `smart_common` as the repository returns them, so their order and
the integral are not modelled. `SeriesComplete` and `PriceShown` speak of lists that are
read entry by entry: every metric that was stored or that the equipment gives when they
are listed has one series, and no other has, by the definition it had then and with every
value it had. An entry
may begin exactly where the report ends, and a price published between the questions
may make the price shown an older version of the one in its history.

### Schedulers

Rows of schedulers and devices, and for each deletion under way what its handler
holds. `ListDevices`, `SwitchToManual`, `SwitchOff` and `DeleteScheduler` are the calls
of `delete_scheduler` in their order, `Fail` an exception, a 404 or the end of the
process in any of them; the other routes of schedulers and devices are one transaction
each and run between. Per device there are two awaited calls, as
`tests/test_scheduler_delete_device_shutdown.py` describes them: the row goes to manual
mode without a scheduler, then off is commanded. The answer of the agent is ignored, so
`manual_state` is what was commanded, not what the relay does. `Verdict`, `Offered` and
`OfferedUnits` are the check of slots and the offer of providers to choose from.

`DeletedOff` holds over repeated and overlapping deletions: when the row goes, every
device that any deletion of it listed, and any still on it, is off, in manual mode and
without a scheduler. It names what it leaves out, and TLC returns each when the
exception is dropped: a device that another request changed meanwhile (one attached
during the deletion stays in schedule mode without a scheduler); a device another
deletion is just switching; and a device whose deletion failed between its two calls,
which is off the scheduler but still on, so that a repeated deletion does not find it.
`OffersAccepted` relates the two routes about thresholds.

### AgentConfig and ConfigMirror

The settings of a microcontroller exist three times: in the row, in the config column
of the row, and in the files of its agent. `LoadRow`, `CommitRow` and `SyncFiles` are the
PATCH routes of owner and administrator (the latter may change `max_devices`), `GetFiles`
and `PutFiles` the administrator's two requests to the files, which need not follow each other,
`LoadColumn` and `CommitColumn` what an event writes of the column, `DeleteRow`,
`RestartAgent` the other routes. `bus` holds commands in order; the agent executes the
first (`ExecuteRead`, `ExecuteWrite`), or it is lost (`Lose`). `Timeout` ends a handler
that waits, but the command it sent stays on its way. All handlers run in one event loop
and do not await before the commit, so two PATCHes never overlap there, while the event
routes run in threads.

What an administrator sends (`Edits`) replaces the files as a whole: settings that no row
ever had, none at all, another identity (`uuid`), and a `rest` that nothing else concerns.

Assumed of the code outside: the synchronisation reads the files and writes them back
with the two settings of the row as the request has it and with the row's identity, and
keeps the rest; commands to one agent keep their order and are executed once at most; a
request for files is answered or times out. `tests/test_microcontroller_service.py` is the
evidence for what the service writes, `microcontroller_uuid` among it.

`ConfigMirror` is the promise in three actions: the row takes new settings, an
administrator sends some, and the files take some version that the row has had or that was
sent. `MirrorsRow` is the refinement, under any loss, delay and overlap: files may be old
but their settings are never a mixture of two versions, although a synchronisation
rewrites files that an administrator may have replaced since. `FilesFollowRow`,
`EditsKept` and `ColumnAgrees` say when they are not old: as long as the request concerned
did not overlap another that writes the files (`crossed`), or no transactions of the row
overlapped (`torn`), though earlier ones may have timed out and overlapped each other. An
administrator's files that were sent after the last PATCH stand, with his settings, until
the next. With overlap each of the three is lost, which a read-modify-write without a lock
gives.

### EmailTasks

The two tasks differ in their texts only and are one here. `Start` is the solo
worker taking a message, `Skip`, `Send`, `Reject`, `FailBeforeAccept` and `FailAfterAccept`
the outcomes of a run, `Retry` Celery's `autoretry_for` with `max_retries`,
`Crash` the death of the worker in a task: the message was acknowledged when it
was taken, so the task is lost. The delay between attempts is left out, since only
the order of steps matters.

## Runs

| Run | What it asks | Instance |
|---|---|---|
| `overlap` | the configuration and the snapshot under overlapping transactions | two threads, two devices on one microcontroller, two numbers, two commits |
| `repeat` | the row under repeated and late reports | two threads, one device, three commits, two clock readings |
| `bodies` | the two resolvers, over every body and every way to address a device | one thread, two microcontrollers whose devices share a number at the start, all combinations of the fields |
| `transitions` | the comment that STATE events are transitions (violated) | one thread, one device, two commits |
| `on_time` | the loop over all inputs | window of three seconds and an empty one, up to three events at five times |
| `day` | energy and revenue of a day | two hours of three units, up to three readings, with the hold time and without, five market histories |
| `pool` | consumption and the pool's bounds | two devices, two switchings, posts late, repeated and in any order, two hours of three units |
| `production` | the production of the hour | all lists of up to three readings at four times, every kind of provider, four hold settings |
| `email` | attempts, duplicates and termination | three tasks, one with an invalid address, five retries, one crash |
| `schedulers` | deletions that overlap, fail and are repeated | two deletions at a time, two schedulers, two devices, two requests between, nine tables of two providers |
| `config` | row, column and files under updates that cross, time out and are lost | three requests of any kind, two values of each setting, a patch of each field, of both, of neither, and a refused one; files with settings of no row and with none |
| `reports` | the day's reports between the questions of which anything may be saved | days of four units, three saves, four providers, readings around both midnights, four prices |

Bounds. Two threads give every overlap of a pair of transactions, and the properties
speak of pairs of records; the third commit of `repeat` is the one that reads after
both. Two commits suffice in `overlap` to lose an update and to take over a pin. Three
events in any order cover skipping one between two that count; times outside the
window on both sides are included. Three readings, one of them the night before, give
a gap, an equal time and an interval over an hour boundary. Two switchings are a
device that goes on and off or two devices that change in one hour; longer histories
of one device are in `on_time`. Two other requests in `schedulers` suffice to detach
and attach a device, or to add a scheduler and move a device to it. Three requests in
`config` are a request that times out, one whose commands meet its late ones, and an
edit or an event between them. Three saves in `reports` give a gap, an equal time or a
value out of order, and a save before and after each question. `MaxLog`, `MaxTime`,
`MaxEvents`, `MaxFacts`, `MaxReadings`, `MaxOthers`, `MaxRequests`, `MaxSaves` and
`MaxCrashes` are the bounds of the models and have no counterpart in the code;
`MaxRetries` is the code's own. Workers are symmetric in `overlap`, `repeat` and
`schedulers`, in the last with schedulers and devices, none of which checks liveness.
Deadlock is not checked: all these systems may stop, at the bounds or because the work
is done.

The violated run shows that the route stores a STATE event whatever the device's
state was, so a repeated report is not a transition; the on-time report, which
assumes the opposite state before the first event, then counts that time wrongly.

## Fairness

`DayTelemetry` assumes that a report that can take a step takes one (a thread of
the pool is scheduled), and nothing of the workers that save readings.
`EmailTasks` assumes that the worker keeps working while a message waits or a task
runs: `docker-compose.yml` restarts it always, and it runs one task at a time. No
outcome of a task is assumed to be fair. `AgentConfig` assumes that a handler which can
go on does (the event loop, the threads of the pool), a request on the bus having a time
limit; it assumes nothing of the agent, the bus or the administrator, so `RequestsEnd`
holds with an agent that never answers.

## Proofs

Every theorem holds for all values of the constants that the ASSUMEs of its module
allow. Each is proved from an inductive invariant: a formula that the initial states
satisfy, that every action preserves, and that implies the property. The properties
themselves are seldom inductive; what follows says what each needed.

| Module | Theorem | Property |
|---|---|---|
| `DeviceEventsProofs` | `TypeCorrect`, `ConfigCoherence`, `RowIntegrity`, `ResolversAgreement`, `SerialConfiguration`, `OldPinsAreGone`, `SnapshotsExplained` | `TypeOK`, `ConfigCoherent`, `RowIntact`, `ResolversAgree`, `SerialConfigComplete`, `OldPinsGone`, `SnapshotExplained` |
| `DeviceOnTimeProofs` | `OnTimeTypeCorrect`, `OnTimeBounded`, `OnTimeExact`, `FallbackExact` | `TypeOK`, `OnBounded`, `ExactCount`, `FallbackAgrees` |
| `DayTelemetryProofs` | `DayTypeCorrect`, `LoopAdvances`, `DayIsExact`, `RevenueIsExact`, `HalvesDoAgree` | `TypeOK`, `SegmentsAdvance`, `DayExact`, `RevenueExact`, `HalvesAgree` |
| `DayReportsProofs` | `ReportsTypeCorrect`, `ReportsHaveOneDay`, `HoursHaveReadings`, `SeriesAreComplete`, `PriceIsInForce` | `TypeOK`, `OneDay`, `HoursExplained`, `SeriesComplete`, `PriceShown` |
| `AgentConfigProofs` | `TypeCorrect`, `ColumnAgreement`, `EditsPreserved`, `RepeatedPatchRepairs`, `Refinement` | `TypeOK`, `ColumnAgrees`, `EditsKept`, `FilesFollowRow`, `MirrorsRow` |
| `HourPoolProofs` | `PoolTypeCorrect`, `ProductionIsExact`, `PoolIsBounded`, `ConsumptionIsTrue` | `TypeOK`, `ProductionExact`, `PoolBounded`, `ConsumptionTrue` |
| `SchedulersProofs`, of `Schedulers` | `SchedulersTypeCorrect`, `DevicesAreOff`, `OffersAreAccepted` | `TypeOK`, `DeletedOff`, `OffersAccepted` |
| `SchedulersProofs`, of `EmailTasks` | `TasksTypeCorrect`, `RunsAreBounded`, `MailIsNeeded` | `TasksTypeOK`, `RunsBounded`, `NoNeedlessMail` |
| `PowerWindowProofs` | none: the lemmas that `DayTelemetryProofs`, `DayReportsProofs` and `HourPoolProofs` share | |

### How the arguments go

`DeviceEvents`. `TypeInv` adds to `TypeOK` what a busy request holds (a device, its loaded
row and a body); without it `Commit` could not be typed. Coherence is inductive once it
also speaks of the configurations under construction in the sessions, since `Commit` may
write a stale one. `RowIntact` says nothing of the rows the requests hold: `Fresh` adds
that a request whose copy no writer has outdated since it was read still has the row's two
columns, so what its flush leaves out is right already. `PreparedInv` is the same for the
configuration: what a request is about to write is the rebuild of the one it read, which
is still the committed one if no rebuild came after it. From it follow
`SnapshotsExplained`, and with `CompleteInv` (if the rebuilds were serial, the last state
that each device reported is in the configuration, and no object of the device says
anything else) `SerialConfiguration` and `OldPinsAreGone`. `LogInv` relates the columns of
a stored event to its body, and `ResolversAgreement` is then a fact about the two
resolvers.

`DeviceOnTime`. `Counted` bounds what is counted by the part of the window behind the
cursor, which gives `OnTimeBounded`. For exactness `LoopInv` says that the loop's state
is that of the last event read that tells one, that the cursor is the latest time read, and
that the count is the number of seconds before the cursor in which the definition has
the device on; an event that does not count moves nothing, which needs that the events
come in the order of their times. `DoneInv` is what the two exits leave;
`FallbackExact` compares each of them with what the snapshot says (`FallbackIs`,
`SnapshotStands`).

`PowerWindow`. Reports are sums over readings, intervals and units of time. Induction
over a set or a number is stated in `PowerWindowProofs` about sets of sets and sets of
numbers (`SubsetInduction`, `NaturalInduction`), derived from the well-foundedness of
the naturals, so that no theorem with an operator as its parameter is needed. The
recursive function under `SumFunctionOnSet` is shown to exist and to be unique, and
from that follow the laws of sums: taking an element out, monotony, addition, grouping, and
exchanging two summations (`SumSwap`), which turns a sum by interval into one by unit.
The rest are facts about the operators: the readings of a window, the intervals
between them with carry and hold time, and what an interval puts into an hour.

`DayTelemetry`. `EnergyInv` says that the hours are the sums unit by unit of the
readings that the first query saw: the unit at `t` has the power of the last of the
readings up to `t`, if it is still held, which is the interval that covers `t`.
`WalkInv` places the cursor of the loop in its interval, with a market entry at every unit
behind it, from which `LoopAdvances`. `RevenueInv` keeps books over the units counted so far:
exports and revenue of every hour, and the totals, are sums over exactly those; a step adds the
units of one segment, in which power, hour and price are constant.

`HourPool`. `DeviceOnTime` is an instance within it, and so are its proofs: `P` is
`DeviceOnTimeProofs` over the pool's variables, its assumptions are shown for the hour's
windows, and its lemmas about the loop are cited instead of proved again. `BaseInv` holds
what every argument needs: `WorldInv`, a relay switches once at a time and only in the
past; `ReportInv`, what the report knows in each phase, and that its window ended when it
began, which is what makes later events harmless; `CountingInv`, the invariants of
`DeviceOnTime` while a device is counted. `ProductionIsExact` is about one action, and is
the argument of `DayIsExact` with a reading carried in: the intervals cover each unit at
most once, with the reading that stands there (`StretchSum`). `PoolIsBounded` takes the
devices one by one: the consumption so far is at most the rated energy of those that are
settled (`PoolInv`). `ConsumptionIsTrue` needs three steps. `RowsInv`: a row, as it is or
as the report loaded it, either tells the state before the device's first switching or is
that of a posted event. `QueriesInv`: of a device whose events had been posted, the first
query gave the last event before the hour, and the second all events of the hour before
the clock was read, in order, whatever was posted between them. From the two, the loop's
count is the true time, since `CountInv` of the instance says that it is exact for what
was read, and what was read tells the state in which the hour began; and `ChargedInv`
keeps it, since relays that switch later do not change the past.

`DayReports`. `BaseInv` says that the window is one day and which route may be where.
`EnergyInv`: each hour has a reading that explains it, held into it. `DaysInv`: the
days are those of the entries and of the hours, both read before, while more readings may
have come. `SeriesInv` and `ListInv`: a series is computed from the first `seen` values of
its metric, no matter how many were saved afterwards, and each metric is in exactly one
of the series built and those left to build. `PriceInv`: what the price was when it was
read, weakened by what was published since.

`AgentConfig`. `ColumnInv` adds that a transaction that is alone holds the row as it is.
The refinement needs `VersionsInv`: not only the files but whatever may yet be written
to them (bodies on the bus, what a handler holds) has settings the row once had or an
administrator sent. `EditsInv` needs `OrderInv`: while an administrator's files that crossed
no writer are on the bus, no synchronisation has read and not yet written, none reads before
them and none writes after them. `LatestInv` follows the last PATCH through its steps: it
is alone with the agent (`Solo`), its write is the last of the bus (`WritesLast`), and after
its answer only files of administrators come, sent later (`EditsLater`). That is why a
repeated PATCH repairs even when the first one's commands are executed late.

`Schedulers`. `ListedKnown` is what is known of a device that any deletion of a
scheduler listed: it is still on the scheduler, or it is in manual mode and off, or a
handler is between its two calls, or one failed there (`stranded`). `OnTodo`: a device
on the scheduler of a deletion is left to do, unless another request put it there. When
the handler has nothing left to do, the two leave only what `DeletedOff` says.
`OffersAreAccepted` holds of every provider table and needs no invariant: `ListOfSet` gives
the members of the list, and `FoldUnits` follows the fold position by position, on the
function over sets of positions that the fold chooses, shown to exist by `FoldExists`.

`EmailTasks`. `RunsInv` bounds the runs by the retries, less one while the task waits.

### Assumptions

Only the ASSUMEs of the modules, which TLC evaluates on every run: types of the
constants; distinctness of `Null`; a coherent initial configuration; windows of whole
days with a whole number of hours in them; market entries in the order of their start,
as the query returns them, and of positive length in `DayReports`; patches whose
sensors, when they are named and free of duplicates, are known; in `HourPool`, finitely many
devices, readings with whole times and powers, and providers with an expected interval or
none. Four definitions are written for the prover's sake: sums are sums of a function over
its finite domain rather than of an operator; the entries of a report are the positions of
the rows rather than the rows; the ordered events of a device (`InOrder`) are the list with
increasing times that contains them, rather than a sorted sequence; and the power
providers are filtered before they are listed, in an order that is left open.

### Checked by TLC only

Every safety invariant and action property of a passing run is proved. What is left:

* `Answered`, `TasksEnd` and `RequestsEnd` are liveness, which the prover does not reach.
* That a STATE event is a transition (`StateEventsAreTransitions` in the run
  `transitions`) is false, as the run shows.

## Not modelled

* Provider wizard: the routes turn outcomes of a service in `smart_common` into answers.
  What matters there, where a session is kept and when it expires, is not in the
  repository, and a model would be of code nobody can read here. The hazard stays listed.
* Users, authentication and providers: each route is one call of a repository or service
  in `smart_common`. The race of two registrations with one address depends on a
  constraint there; the hazard stays listed.
* Of the microcontrollers, registration, `set_provider` and the PATCH of the config
  column: single calls, of which nothing in the repository says what they write.
* Listings, enums, the wiring of the application, error formatting and the migration:
  they keep no state.
* Rounding for output, texts, logs and languages.
