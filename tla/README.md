# Station diagnostics dashboard: specifications and proofs

This directory verifies the Go service in this repository: it ingests the log
lines of test stations, stores them, evaluates diagnostic rules over a sliding
window, groups failures into incidents and fans everything out to browsers. The
TLA+ modules model the code of `src/`, TLC checks them on small instances, and
TLAPS proves every safety property that a passing run checks, for all instances.

    tlc -workers 2 -config MCHub.cfg MCHub      # one run; PROJECT.json lists all
    tlapm HubProofs.tla                         # one module of proofs, of eight

## 1. The system

```
 station --file--> FileTail --\                      /--> Store (SQLite) <--- REST handlers
 station --tcp---> TCP handler --> pipeline.Publish --+                          |
                                   |  window, seen    \--> Hub --> WSConn --> browser
                                   \-> rules -> correlator  ^--- PublishNote ----/
```

| component | state it keeps | operations | what is hard | what makes it correct |
|---|---|---|---|---|
| ingest (`internal/ingest`) | the position in a file or connection | `FileTail.drain`, TCP `handle`, `ParseLine` | a reader looks at a line that is half written; bad and overlong lines; cancellation | events in order, once, and lost only for a stated reason |
| pipeline (`cmd/dashboard/pipeline.go`) | `window`, `seen`, the correlator, under `p.mu` | `Publish` | several goroutines; store and hub calls before and after the lock; a failing store | a failure is flagged once, after its event, stored before it is pushed |
| rule engine (`internal/rules`) | none | `Load`, `Evaluate` | detectors are state machines per (run, actuator), over a window that forgets | they report exactly what their definition says |
| correlator (`internal/correlate`) | one open incident per run, a counter | `Observe` | failures out of timestamp order; returned incidents share an array; the counter starts again with the process | every failure in exactly one incident, an incident is one cascade, snapshots stay |
| hub (`internal/hub`) | `seq`, `backlog`, `subs`, `closed`, a channel per subscriber | `Publish*`, `Subscribe`, `Unsubscribe`, `Shutdown` | sends happen outside the lock; drops, leaves and shutdown race with them | at most once, no silent loss, channels closed once, nobody blocks |
| WebSocket bridge and browser cursor (`internal/api/ws.go`, `app.js`) | the browser's `lastSeq` | connect, receive, reconnect | connections break with messages in flight; an old subscription outlives its client; a new server counts from one | resume without gap or repetition |
| store and REST API (`internal/store`, `internal/api`) | tables | record, note, resolve, detail, export, compare, lists | requests of several statements between the pipeline's writes; lists sorted by text; an upsert that keeps a column | replies agree with themselves, notes belong to their run, rows follow the correlator |
| run comparison (`internal/runcompare`) | none | `Compare` | repeated failures, missing names, the round trip through the store | symmetric, complete |
| lifecycle (`cmd/dashboard/main.go`) | context, wait group | start, shutdown, crash | the order of closing; TCP handlers nobody waits for; restart over old files and tables | nothing of the file meets a closed store, nothing is shown that is not stored, shutdown ends |
| dashboard page (`internal/web/static/app.js`) | `selectedRun`, the run panel, `incidents` | select, note, resolve, refresh, messages | replies to earlier requests come after later messages and clicks | the panel is the selected run's, the timeline converges |
| configuration, export formatting, static files, emitter, benchmarks | | | sequential, formatting or tooling | not modelled |

Interaction: ingest goroutines call `pipeline.Publish` directly; the pipeline
calls the store, the hub and, under its lock, rules and correlator; an HTTP
handler per WebSocket subscribes to the hub and drains its channel; REST handlers
share the store with the pipeline and call `PublishNote`; shutdown cancels the
context, closes the hub, waits for the tail and closes the store. PROJECT.json
lists the hazards of each at their line, with the property that watches it.

## 2. The modules

An action is the code between two points where another goroutine can interfere: a
section under a lock, one channel operation, one SQL statement or transaction, a
handler of the page up to its `await`. Timestamps are small integers, messages are
their sequence number, texts are the set of patterns they contain. Definitions
whose comment starts with *Mutation:* are deliberately wrong variants of the
definition that follows them; no specification uses them; they show that each
property notices a bug.

**FanOut** is the abstract promise of a hub: a message published is due to every
member of that moment and handed to it at most once. A released subscriber is due
nothing more, but may still be handed what it was due, until its stream is
*sealed* (its channel closed); nothing is added to a sealed stream. A
message is written off for the recipients left only when it is due to one whose stream is
sealed, which is where the hub panics.

**Hub** is `hub.go` with everything that calls it. `Broadcast` is the section under
`mu` (number, retain, copy the subscribers); the loop over the copy is `Visit` of
a subscriber, one of `Deliver`, `FindFull` (the select's default) or
`SendOnClosed` (the panic, which ends the process unless net/http recovers it in
the handler of a note), and `DropSlow`, the `Unsubscribe` that follows.
`Subscribe` backfills by the same non-blocking sends as the code. `Shutdown` takes
the subscribers over; its goroutine tests the flag (`ShutdownTest`) and closes
(`ShutdownClose`) without the lock, so these are two steps. `Receive` and `Leave`
are the WebSocket handler. *Bounds:* `MaxSeq` messages, each `Sub` subscribes once.

**Reconnect** EXTENDS Hub with browsers: `Connect` opens `/ws?last_seq=cursor`,
`OnMessage` reads the next message the handler wrote and raises the cursor, `Break` is
the network (at most `MaxBreaks` times), `OnClose` the browser's notice,
`ServeReturns` the handler's end, which may be much later than the break.
`Restart` is a new server process (at most `MaxRestarts` times): the hub is empty
and counts from one, the page keeps its cursor. History variables name the
losses: `agedOut`, what the backlog no longer held on connecting; `cutOff`, what of it
found no room in the new channel (`TooMany`); `overtaken`, what a dropped or broken
connection still owed although something later had come; `buried`, what the cursor of
an earlier server hid; and the hub's `aborted`, what a recovered panic gave up.

**Correlator** is `Observe` with Go's slices: an incident is a struct with an
array number and a length; `Extend` appends in place while the capacity lasts and
to a new array after that, and sorts what it appended to. Capacities double, as
append's do for elements of this size up to the lengths reached. **Names** has what
Rules, Correlator and RunCompare share: `Failure.SubsystemOrActuator`, and
milliseconds of `Milli` ticks, to which the detail of a late resolve is rounded
(`Rounded`).

**Incidents** EXTENDS Correlator with the `incidents` table and several goroutines in
`Publish`: one at a time observes its failures (`ObserveOne`, `Unlock`), and each then
saves the snapshots it got. `ReadMembers` begins to marshal the array a snapshot points
into; if `Observe` has sorted it by the time the statement is executed, each element may
be an old or a new one (`Found`, a data race of the code). `SaveIncident` upserts the row
(`Upsert` leaves `started_at` alone); `SaveFails` is the failing statement, which is
logged and not tried again. `Restart` loses the correlator and keeps the table.

**Rules** is the rule engine: a detector is a loop over the events, written as a
recursive function of the number of events behind it (`TimeoutStep` and
`ConsecutiveStep` are the bodies of the loops); where Go ranges over a map, the result
is the set of lists any order can give. `Loadable` is what `rules.Load` accepts, and
the rule set is assumed to be that, since the process does not start with another
one. **Detection** defines the failures of a window a second time, by which event
answers which and without any state, and states that the loops report just those.
**RunCompare** is the comparison, over what the store returns: `Stored` models that the
failures table has no subsystem column. **Lists** is the order and the limit of the
two lists, over texts of time as `RFC3339Nano` writes them. **Reports** states what
comparison and lists promise.

**Pipeline** composes Rules (EXTENDS) and Correlator (INSTANCE) with the ingest
goroutines: `RecordEvent`, `PublishEvent`, then under `p.mu` `EvaluateWindow`, which
leaves the failures of the evaluation to a loop that takes them one by one (`Take`:
`Skip` one already seen or `Flag` and `Observe` it), `Unlock`, then per failure
`RecordFailure` and `PublishFailure`, per incident `SaveIncident` and
`PublishIncident`, as written in `Publish`. The hub is the sequence of messages
published (`log`): in what order they get their number is all the pipeline can
influence. A statement may fail (at most `MaxStoreErrors` times); the code logs that
and goes on.

**Api** has the tables and the handlers that take several statements (`Begin`,
`Read`, `Reply`; `PostNote`, `AddNote`, `PublishNote`) or write (`Resolve`),
between the pipeline's writes. The store opens one connection, so a statement is
atomic and so is the transaction of `RecordEvent`. Every statement may fail: the first
of a request, or its write, ends it (`Refuse`, `AddNoteFails`); a later list ends a
comparison, while the detail of a run and a report ignore the error and go on with the
rows they got (`ReadFails`). A write of the pipeline that fails changes nothing.

**Ingest** cuts lines into head, rest and newline; readers may look at any
point. `ReadLine`, `ReachEOF` and `ReadFails` are the outcomes of `ReadBytes` (the last
one also of `os.Open`), `Scan` and `ScanEnds` of the scanner, `TooLong` its 1 MiB limit,
`Cancel` the signal. A file may be `flooded`, written faster than its tail reads it:
then the drain, which does not look at the context, finds no end of the file. A goroutine
that returned says why in its `state`: cancelled, failed, overlong, finished or lost.

**Service** EXTENDS Ingest with `run()` of `main.go`. A reader's step (`Read`) puts
an event into its hands; `Record` and `Push` are the two calls of `Publish` it waits
for. `Record` stores the event, or the open store fails (`failed`), or the store is
closed (`refused`); in each case the code logs at most and pushes. `Signal` cancels the context, `CloseHub` is `Server.Shutdown` and
`Hub.Shutdown`, `CloseStore` is `wg.Wait` and the deferred `Close`, `Exit` the return
of main with handlers still running. `Crash` may come anywhere while the process
is up, `Start` opens file and tables again. *Bound:* `MaxLives` processes.

**Dashboard** is the page of `app.js`. A handler is one action up to its `await`, and
one for the rest of it: `Select`, `SubmitNote`, `ToggleResolve`, `OnNote`,
`OnIncident`, `Tick`; `ReplyRun`, `ReplyWrite`, `ReplyIncidents`; `Fail` for a fetch
that throws, `Refuse` for a write the server refuses. `requests` and `backfills` hold
those in flight in the order of the fetch calls (the timer fires whether or not the last
refresh was answered; *bound:* `MaxRefreshes`), the server answers them in any order (`Serve*`,
`Store*`), other dashboards write too (`Other*`). What it takes from the other
modules is stated in its header.

**MC*** modules hold the values of the constants. `MCDiagnosis` EXTENDS Incidents and
`MCFunctions`, which enumerates the inputs of the pure functions, and a behaviour
exercises one or the other;
`MCDashboard` lets a behaviour be about the panel or about the timeline, which
share only the socket. **HubProofs**, **ReconnectProofs** (on top of HubProofs),
**RulesProofs**, **PipelineProofs** (on top of RulesProofs), **CorrelatorProofs**,
**ApiProofs** (of Api and of Reports), **ServiceProofs** and **DashboardProofs** hold the
theorems of section 4.

## 3. What the runs show

| run | instance | result |
|---|---|---|
| `hub` | an ingest goroutine and a note handler, 2 subscribers, 2 messages, channel 1, a configured backlog of 0, which New makes 1 | All safety and liveness properties and the refinement of FanOut hold. Channel and backlog overflow, drops, recovered panics, leaves and shutdown all occur. |
| `hub_panic` | 1 publisher, 1 subscriber | **violated**: `NoSendOnClosed`. A client leaves between the copy of the subscribers and the send. |
| `reconnect` | 2 publishers, 3 connections of 1 browser, 3 messages, backlog 2, channel 2, 1 break, 1 restart of the server | No repetition, every gap has its reason, and the browser catches up. |
| `reconnect_long` | backlog 3, channel 2 | **violated**: `GapFree`. The backfill does not fit the channel (500 and 256 in the code). |
| `diagnosis` | 2 runs, 2 rules, 3 instants, window 1, 4 failures, 2 goroutines, 1 failing write, 1 restart; up to 4 events of an alphabet of 14, pairs of runs with 4 rows, histories of 3 writes | Partition, one cascade per incident, one incident per cascade, harmless sharing while failures come in order, a table that follows the correlator but for failed and overtaken writes; detectors, comparison and lists agree with their reference definitions. |
| `correlator_snapshot` | 1 run, 4 failures | **violated**: `SnapshotsAreStable`. The third and fourth member share an array of four. |
| `pipeline` | 2 sources, window 2, 3 events, 3 failures, 1 store error | Flagged once, stored before pushed, cause before effect, everything flagged gets pushed. |
| `pipeline_race` | 2 sources, 2 events | **violated**: `LatestGrouping`. The older snapshot of an incident is saved and pushed last. |
| `api` | 2 handlers, 1 run, 2 stations, 2 events, 1 failure and 1 incident, 2 notes, 2 failing lists in a request | Replies list what they count, but for a list that failed; notes belong to their run and are announced once. |
| `service` | 1 file, 1 connection, 2 lines in all, 2 lives of the process, 1 failing read or write | In order, once, lost for a stated reason, stored again only by another life; the order of the shutdown; what a station completed is stored in the end, or named; a shutdown ends unless the tail finds data for ever. |
| `dashboard` | 2 runs, 1 note, an incident with 2 snapshots, 2 requests before a click, 2 refreshes in flight, 1 failure, 1 flag set elsewhere | The panel is the selected run's and current when nothing is under way, unless a reply came late; the timeline converges. |
| `ingest_split` | 1 file, 1 line | **violated**: `EveryLineEmitted`. A drain between two halves of a line. |

*Why these bounds.* Two publishers and two subscribers give every pairwise race of
the hub; a channel and a backlog of one are full with one message, so the second
meets both limits. Resuming needs a first connection, one that is dropped or
breaks and one more; three messages overrun a backlog and a channel of two, one of them
by a second publisher is enough to be overtaken, and two servers suffice for a
cursor that is ahead of its server (`MCOneByTcp`: the second publisher publishes once,
before the restart). The
correlator reaches an append in place, one that moves the array, insertion in
the middle and a new incident, with two goroutines that save at once, and again with
one after a restart (`MCWithin`). A detector's state
depends on the last trigger and a count of two. The pipeline's window of two evicts
at the third event. Two lines are a whole one before or behind a split,
overlong or malformed one, on one stream or both, and in the second life the tail
reads both again; what a second fault could add to one is only a second event with the
same reason (`MCFewFaults`: one fault, of the file only in the first process; floods only
during its shutdown, where they matter; overlong events only over TCP, where they differ). Two handlers that only read
have nothing in common, so one of them reads at a time (`MCOneReader`). In the page, two requests and what a reply or a message adds to them
are every pairwise race of replies. Deadlock is not checked: every run ends where
its bound is reached, where the process has crashed or where the service has shut
down.

*Fairness.* Go runs a runnable goroutine, hence weak fairness of a publisher
inside `broadcast`, of Shutdown's goroutine, of ingest readers, of `run()` and of pumps.
Nothing is assumed of stations (they may stop in the middle of a line), and in `hub`
nothing of the readers. In `reconnect` the handlers write, browsers read and
reconnect (`setTimeout(connect)`), since otherwise nobody could catch up. In
`pipeline` the goroutines take `p.mu` under strong fairness: a `sync.Mutex` hands
itself to a goroutine that waited for more than a millisecond. In `service` the
tail's `select` chooses at random between ticker and context, so it does not
take the ticker for ever (strong fairness of `StopTail`); that a file cannot be read is
not its goroutine's doing and never forced (`Progress`); nobody has to start the
process again, and `EventsAreKept` speaks only of behaviours in which some
process stays up. In `dashboard` the interval timer fires, requests for the
incidents are answered and messages arrive; nothing is assumed of operators and
of the other requests.

### Where code and documentation disagree

The five violating runs are the findings of PROJECT.json: the send on a closed
channel (`hub.go:133`), the truncated backfill (`hub.go:157`), the racing
snapshots (`pipeline.go:89`), the shared array (`correlate.go:115`) and the split
line (`filetail.go:59`). Each has a passing sibling that says what does hold:
`NoSilentGap` with recovered panics, `GapsAreExplained`,
`LatestGroupingOfOne`, `InOrderIsStable`, `LossIsExplained`.

The others show in what a passing property excepts, or does not say:

* `GapsAreExplained`: "resume without gaps, as long as the gap is smaller than the
  backlog" (`docs/websocket-protocol.md:22-25`) is false, besides the truncated backfill,
  when two publishers deliver in the other order and the connection ends in between
  (`hub.go:131`), and after a restart, when a browser that resumes with its last `seq`,
  as `docs/websocket-protocol.md:77-79` advises, misses what the new server published
  up to that number while it was away. `GapFree`, the claim with the second exception
  only, is what `reconnect_long` refutes.
* `RowsAreExplained`: an incident whose write failed stays behind the dashboards
  (`pipeline.go:86-88`), and a slower goroutine may write an older snapshot over a newer
  one; a restarted process gives its incidents numbers that old rows have, and overwrites
  them; the upsert keeps the old start (`correlate.go:129`, `store.go:357`;
  `store.go:343-345` and `docs/correlation.md:63-64` speak of growing incidents only).
* `CorrelatorInv`: two failures of one rule at one time keep the order of their arrival,
  since `sortMembers` breaks ties by rule id alone. That members are in the same order
  for any arrival (`correlate.go:166-168`, `docs/correlation.md:28-30`) is not so.
* `DeltasAccountForFailures`: `docs/run-comparison.md:41-44` promises failure counts "for
  every subsystem seen in either run". The failures table has no subsystem column
  (`store.go:148-158`, `store.go:293-317`), so a failure of a named subsystem is counted
  under its actuator (`Misnamed`), and its subsystem may have no row at all.
* `RecentFirst`: texts of time without trailing zeros do not sort by time within one
  second, so "most recent" (`store.go:197`, `store.go:370`) holds but for those.
* `CountedIsListed`: the detail of a run and a report are answered 200 with nil or partial
  lists beside counters that are not zero when the read of a list fails
  (`api.go:132-135`, `api.go:247-249`).
* `LossIsExplained`: "One bad line never stops the stream"
  (`docs/log-format.md:30-31`), but a line above 1 MiB ends its connection and with it
  all behind the line (`tcp.go:65`).
* `ClosingOrder`, `EventsAreKept`: an event the open store does not take is logged, shown
  and evaluated, and never stored (`pipeline.go:49-52`).
* `ShutdownEnds`: "Run tails the file until ctx is cancelled" (`filetail.go:31`), but
  `drain` reads to the end of the file without a look at the context: a file that grows
  faster holds up `wg.Wait` and so the end of the process, for which there is no
  deadline.
* `RowsInv`: a restarted tail reads its file again and every event of it is stored
  twice.
* `FlagInv`: the dedupe key has no time in it (`pipeline.go:63`): a failure that recurs
  in its run, with the same detail, is never flagged again.
* `PanelIsSelected`: a slow reply of an earlier selection shows another run than the one
  that notes, the flag and the export button act on, until the next load.

## 4. What is proved

Each theorem holds for every value of the constants that the named ASSUMEs allow:
any number of publishers, subscribers, browsers, goroutines, handlers, runs, files
and connections, any sizes of backlog, channel and window, and any value of the
bounds that TLC needs (`MaxSeq`, `MaxEvents`, `MaxLives`, ...). The ASSUMEs say that
sizes are numbers, that handlers are publishers, that the null values are no
elements, that a rule has an entry in the table of subsystems, that the streams of
Service are finitely many, that the rule set is one Load accepts. Every invariant
below was checked by TLC on the instance of the run before it was proved.

| module | theorem | states |
|---|---|---|
| HubProofs | `CoreCorrect`, `TypeCorrect`, `OwnershipCorrect` | `CoreInv`, `TypeOK`, `OwnershipInv` |
| HubProofs | `SentAtMostOnce`, `SentInPublisherOrder`, `MissesNothing` | `AtMostOnce`, `PublisherOrder`, `NoSilentGap` |
| HubProofs | `HubImplementsFanOut` | `ImplementsFanOut`, the refinement of FanOut |
| ReconnectProofs | `ResumeCorrect`, `RestartKeepsPromises` | `ResumeInv`; the hub's three promises over restarts |
| ReconnectProofs | `EveryGapIsExplained` | `GapsAreExplained` |
| RulesProofs | `TimeoutsArePairs`, `ConsecutivesAreCounts`, `EvictionIsQuiet` | `TimeoutIsPairing`, `ConsecutiveIsCounting`, `EvictionInventsNothing`, for any sequence of events |
| RulesProofs | `FailuresAreDated` | what `Evaluate` returns are failures dated to events it was given |
| PipelineProofs | `FlaggedJustOnce`, `PushedAfterStored`, `EventsComeFirst`, `LatestOfOne` | `FlagInv`, `StoredBeforePushed`, `CauseBeforeEffect`, `LatestGroupingOfOne` |
| CorrelatorProofs | `IncidentsAreCascades`, `NothingLostOrMadeUp`, `OneIncidentPerCascade`, `SnapshotsStableInOrder` | `CorrelatorInv`, `Partition`, `CascadeIsOneIncident`, `InOrderIsStable` |
| CorrelatorProofs | `TableExplained` | `RowsAreExplained` |
| ApiProofs | `StoreCorrect`, `RepliesListWhatTheyCount`, `NotesFollowRuns`, `EveryNoteAnnounced` | `StoreInv`, `CountedIsListed`, `NotesBelongToRuns`, `NotesAnnouncedOnce` |
| ApiProofs | `ComparisonIsAMirror`, `DeltasAccount`, `ListsAreRecent` | `ComparisonMirrors`, `DeltasAccountForFailures`, `RecentFirst`, for any runs, histories and limits |
| ServiceProofs | `ClosingCorrect`, `EmittedInOrder`, `LossExplained`, `RowsCorrect` | `ClosingOrder`, `InOrderOnce`, `LossIsExplained`, `RowsInv` |
| DashboardProofs | `PanelFollowsSelection`, `PanelShowsAll` | `PanelIsSelected`, `PanelIsCurrent` |

Why the stated properties are not inductive, and what was added:

**Hub.** `TypeOK` needs that the backlog is the newest messages without a hole (a
backfill must consist of assigned numbers) and that a busy publisher holds its
message: `CoreInv == TypeOK /\ BacklogIsNewestSuffix /\ HoldsItsMessage`.
`OwnershipInv == NoDoubleClose /\ CloseOwnership` is inductive relative to it:
registered, taken over by Shutdown, being closed and closed are disjoint states of a
subscriber, so the closer that tests the flag without the lock is the only one left.
`DeliveryInv` joins the three promises with what they rest on: a subscriber that has not
joined has no part in anything, and a publisher has published nothing newer than what
it holds (`SendsItsLast`), which is why sends outside the lock keep the order. The
refinement maps each action to a FanOut step or a stutter.

**Reconnect.** The hub's invariants must hold when a server is started over pages that
keep their cursors, so they are proved again for the actions Reconnect adds. `BrowserInv`
adds that what a browser has seen is not above its cursor and never comes again.
`GapInv` describes a browser apart from the hub (`ApartInv`: below its cursor
everything is settled) and connected to it (`ConnectedInv`: the past is settled or in
the backfill, below what came live is what came, is owed or is settled). It assumes
nothing of publishers and sizes. That only another publisher overtakes (`OvertakenInv`)
is `PublisherOrder` at work.

**Correlator.** The step behind all five theorems: every incident owns its array and uses
all of it (`Separate`), so appending in place harms no other incident. Members are
kept ordered pairwise and dense (`Cascade`); inserting a failure by its time into
such a list keeps it so (the lemmas on `Inserted`), and the list that `Sorted` chooses is
that one. `Partition` is carried by counting places (`Counted`). For the table,
`Saved` says that of every incident the latest version was written, or failed, or waits
(`Settled`); that a written one is what the row shows, unless the row has become that of an
older one, shorter (`Shown`); and that what a goroutine read of the latest snapshot's
array still stands when it writes (`ReadStands`), since a torn read is of an older one.

**Pipeline.** `Control` (a goroutine is in the loop exactly if it has the lock), what each
goroutine holds, that pending failures differ in key (`PendingOnce`, so `seen` covers
pushed and pending ones), that a saved flag means the statement of the head was tried
(`StoredHeads`), that window and lists are backed by published events (`Caused`),
and for one feeding goroutine that its snapshots leave in order (`InOrder`,
`RowsAreLatest`). Of the rule engine only `FailuresAreDated` is used.

**Rules.** A detector's loop is a recursive function, and what it has computed is an
invariant of the position, proved by induction on it (`Induct`, from the
well-foundedness of `<`): for each loop a lemma `...LoopState` takes the recursion
equation from the definition, and lemmas on what one event does to the state give the
step. For `TimeoutIsPairing` the state behind `n` events is described by the first `n`
of them: the open triggers are the keys whose latest relevant event is a trigger, the
list has an entry for every resolve that came late (`OpenStep`, `OutStep`). For
`ConsecutiveIsCounting` the count of a key is the length of its unbroken row of triggers
modulo the bound, which needs that a row grows by one with each trigger and that
remainders advance by one (`RowNext`, `StreakCounts`). `EvictionInventsNothing` is a
simulation of the loop over the shorter window by that over the longer one. For timeouts
the longer one has every open trigger and every late answer of the shorter (`Covers`).
A streak of the longer one is ahead or has fired before (`Leads`): the first event may
make it fire earlier, so the failures agree in rule, run, actuator and detail but not
in time, and the property names these four.

**Reports.** The runs compared are any with finitely many rows and integer times
(`Recorded`), a millisecond is any positive number of ticks. `ComparisonMirrors` needs that an
index holds a failure of its key (`IndexFinds`) and that times of a subsystem have a
greatest and a least (`Extremes`). `DeltasAccountForFailures` is a count by one
failure after the other (`Pairs`, `PairsCount`), and for each name the failures counted
under it are those that had it before the store and those that got it (`CountsBut`). For `RecentFirst` the tables are loops as
above (`RunsHold`, `IncidentsHold`), and a text that does not sort before that of
a later time shares its second and ends in the middle of its digits (`Textual`, a
case for each pair of the three shapes of a fraction).

**Api.** What a request carries agrees with the tables (`Agrees`: counts no table has
fallen below, the station of its run, a stored note), since tables only grow;
announcing handlers hold different notes.

**Service.** `ClosingOrder` needs that all tails have returned, with empty hands, when
the store closes (`ClosedInOrder`), and that a line about to be pushed was stored under
the present life, or the store failed (`StoredInHand`). The other three
theorems rest on where the pieces of a line lie (`Layout`: piece `i` of a stream is the
head, rest or newline of line `n` just if `i` is `3n-2`, `3n-1` or `3n`), which tells
what a token is wherever a read falls (`TokenTold`). Then: what was emitted has been passed
(`Passed`), a passed head is explained (`Explained`), the rows of a life are
of emitted lines without the one in hand (`RowsFromOut`), and a reader that returned has
read everything or stands before the overlong line (`EndsInv`).

**Dashboard.** `PanelInv` follows the queue of requests: those that come too late are first
(`LateFirst`), the last one is for the selected run and carries what is current, or
a reload is still to come (`NoteComing`, `FlagComing`).

Only model-checked: liveness (`BroadcastEnds`, `ShutdownReleasesAll`, `CatchesUp`,
`FlaggedIsPushed`, `EventsAreKept`, `ShutdownEnds`, `IncidentsConverge`), which rests on
fairness and is outside what the prover does.

## 5. Not modelled

* Configuration, YAML decoding, Markdown export, static assets, routing and JSON
  encoding, the emitter and the benchmarks: sequential, formatting or tooling, no state
  of the service. The reads behind an export are in Api.
* Of the page: the feed, the list of runs, the comparison form, text fields and
  rendering. That `submitNote` clears the text of a note the server refused
  (`app.js:234`) is therefore not a property, although the refusal is modelled.
* Events without a `run_id` (`docs/log-format.md:13`): every event of the models has a
  run.
* WebSocket deadlines, pings and close frames are folded into the end of a connection.
* `Correlator.Flush` and `Hub.Backlog` are not called by the service.
* SQLite is atomic statements that may fail; that a committed statement survives a
  crash is taken for granted.

## 6. Plan

Done: every component with state of its own, the composition of ingest, store, hub and
`run()`, restarts of the server, the pure functions, and proofs of all their safety
properties. What a next step would add:

1. **The page's list of runs and feed**, which the dashboard model leaves out.
2. **Events without a run**, which every component treats as a case of its own.
3. **The order of an incident's members**, stated as a function of its failures, in a
   run that refutes it.
