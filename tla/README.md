# Enqueue and LiveMix in TLA+

A verification project for the repository `enqueue`: a cue player (Enqueue), a
live mixer (LiveMix) with an OBS plugin and a Stream Deck plugin, and a
recorder.  The modules are written from the source; paths below are relative to
the repository (`src/app/Scheduler.cpp` is the cue player's scheduler).

* [Inventory](#inventory)
* [Modules](#modules)
* [Runs](#runs)
* [Disagreements](#disagreements)
* [Observations](#observations)
* [Fairness](#fairness)
* [Proofs](#proofs)
* [What is not modelled](#what-is-not-modelled)
* [Plan](#plan)

Run `tlc -config <cfg> <module>` for a row of the run table, `tlapm <module>`
for a proof module.

## Inventory

### Cue player (`src/`)

| component | state | operations | talks to |
|---|---|---|---|
| `Scheduler` (`src/app/Scheduler.*`) | vector of entries, ids in flight, flags of the running tick | `schedule`, `watch`, `cancel`, `cancelAll`, `isPending`, `tick` (1 ms timer) | calls the actions, which call back |
| `CueController` (`src/app/CueController.*`) | book of pending entries, running waits, playlists, ducks, panic latch, dispatch stack | `go`, hotkeys, `fire`, `preview`, `stopCue`, cancel a start, `panicAll`, `hardStopAll`, `resetAll`, the sequence walk | scheduler (entries), engine (play / stop / is it playing), document (list, playhead, armed) |
| groups and playlists (same file) | current child, order, start id, failures per playlist | `startGroup`, `playlistStep`, `playlistSkip`, `stopGroup`, `cancelWait` | scheduler, engine |
| `FadeRunner` | running fades | start, stop, tick | engine levels |
| `AudioEngine`, `CuePlayer`, `ReadAheadSource` | players, their request flags, read-ahead buffers | play, fade out, stop, audio callback | called by the controller, ends cues on the audio thread |
| `ProjectDocument`, `CueList`, history | lists, playhead, undo | edits, load, save | controller, UI |
| saving and backups (`SafeFileWrite`, `BackupManager`) | files | replace by rename, rotate | file system |
| MIDI and shortcuts, web remote | pressed inputs, clients | route an input to a command | controller |

Hard: everything above runs on one message thread, but through callbacks: a tick
runs actions that schedule and cancel entries of the same tick, a walk starts
cues whose fade-outs cancel other walks' entries, and the audio thread ends cues
at any moment in between.  Correct means: a tick runs what is due, once, in
order, and nothing that was withdrawn; a panic leaves nothing to come; whatever
is cancelled takes with it what hangs off it and nothing else; no cue starts
twice for one request; a sequence goes on when its cue is over; a list has
one watch, on the child it is at, and one child at full level.

### LiveMix and OBS (`livemix/`, `obs-plugin/`)

| component | state | operations | talks to |
|---|---|---|---|
| audio ring (`lm_obs_protocol.h`, `ObsSender.*`, `receiver.c`) | shared header (epoch, positions, heartbeat, send flag), PCM, the writer's gate, the reader's position | `writeBlock`, `setEnabled`, `deviceStarted`, `lm_receiver_pull`, `lm_obs_read`, `lm_receiver_resync` | two processes over a mapping, no lock |
| presence slots, metadata (`receiver.c`, `ObsMetadata.*`) | 16 reader slots; a seqlocked record | claim and refresh a slot; store, read | the same |
| control server, dispatcher, state (`Control*`) | queue of work per client, what each was told, the document under a revision | receive (worker), drain, publish, restart (message thread) | Stream Deck plugin over a socket |
| mixer, monitor, recording queue | DSP state, block queues | audio callback, writer thread | devices, files |
| collaboration (`Collab*`) | room, roster, sessions, playout buffer | join, leave, send, play out | peers, web guests, server |

Hard: one process may die at any store; stores of positions and of the epoch are
separate; the writer laps the reader; a stall and a restart look alike; nothing
may block the audio threads.  Correct means: an accepted chunk is what was
written, of one epoch, not played before; the owner resets alone and gets its
turn.

### Stream Deck plugin (`streamdeck/`), recorder (`recorder/`), server (`server/`)

| component | state | operations | hard |
|---|---|---|---|
| Stream Deck client (`command-queue.ts`, `connection.ts`, `state-store.ts`) | a queue of inputs per target, requests that are out, the snapshot | press, turn, cancel, dispatch, retry, expire, receive, reconnect | acks before states, conflicts, sessions that change, promises that run late |
| project file, journals and recovery (`recorder/src/model`, `storage`) | the project file and its backup, the take journal, manifests, recovered copies | write a checkpoint, append, flush, scan, rebuild | crash of process or machine between any two writes, recovery of a recovery |
| takes, dubbing, encoders (`recorder/src/record`) | the state machine of a take over its writer threads | arm, start, stop, fail | partial failure |
| playback queue, transport (`recorder/src/playback`, `support`) | bounded queues, generations | push, pop, seek | stale blocks after a seek |
| collaboration server (`server/ytdown/livemix_collab.py`) | rooms, tokens | HTTP calls | expiry |

## Modules

| module | models |
|---|---|
| `Timeline` | what a scheduler promises: an abstract specification with no tick in it |
| `Scheduler` | `src/app/Scheduler.cpp`, every operation; implements `Timeline` |
| `SchedulerProofs` | its theorems |
| `CueController` | `src/app/CueController.cpp` over the timeline, for flat lists of sound, wait and memo cues |
| `MCCueController` | the lists of cues the runs use |
| `Playlist` | a playlist group on top of `CueController`, which it extends |
| `MCPlaylist` | the children and the lists the run uses |
| `CuePlayerProofs` | the theorems of `CueController` and of `Playlist` |
| `ObsRing` | the LiveMix / OBS audio ring: three threads of two processes |
| `ObsRingProofs` | its theorems |
| `ControlWire` | the messages and the connections between LiveMix and the Stream Deck plugin |
| `ControlServer` | `ControlServer.cpp`, `ControlDispatcher.cpp`, `ControlState.cpp` |
| `StreamDeck` | `command-queue.ts`, `connection.ts`, `state-store.ts` |
| `ControlLink` | both over the wire: specification, fairness, properties |
| `StreamDeckProofs` | lemmas about the plugin's handlers, which the theorems of the link rest on |
| `ControlLinkProofs` | the theorems of `ControlLink` |
| `MCControlLink` | the inputs and the scenarios the runs use |
| `Checkpoints` | the recorder's project file and its backup: `writeCheckpoint`, crashes, the choice between the two |
| `CheckpointsProofs` | its theorems |
| `RecorderStore` | a recorder project from session to session: edits, saves, takes, crashes, recovery; an implementation of `Checkpoints` |
| `RecorderStoreProofs` | its theorems, the refinement among them |
| `Inductions` | induction over numbers and finite sets, for the proof modules |

Definitions named `...None`, `...Zero`, `Any...`, `...Nothing` and the like,
introduced by a comment as "the slip", are plausible mistakes in the code.  No
specification uses them: each is paired (in `PROJECT.json`) with a property that
TLC finds violated when the slip replaces the real definition.  Variables marked
"history" are read by properties and by no guard.

**Scheduler.**  An entry keeps its id, time and condition, and `pos`, its place
in the vector; the vector is the set of elements, ordered by `pos`.  One step is
a stretch of code between two points where other code can run: one call
(`Schedule`, `Watch`, `Cancel`, `CancelAll`), the extraction of the due entries
(`BeginTick`), one iteration of each loop (`NextTimed`, `NextWatch`),
`CollectWatches`, `EndTick`, and the return of an action (`ActionReturns`).
While `running # 0` an action executes and calls may be made from it, a nested
`tick()` included, which finds `inTick` set and returns.  `asked`, `ran`
and `cancelled` (the ids that `cancel()` and `cancelAll()` found pending) are
history variables for the refinement: `Timeline!status` is computed from the
first two and `isPending()`, and `Timeline` lets an entry go away without running
only in a step that adds it to `cancelled`.

**CueController.**  `pending` is the controller's book, `sched` the entries of
the timeline that are pending; they differ, because entries that ran stay in the
book until `track()` sweeps it.  Operators named as the methods
(`cancelPendingFor`, `cancelChainBehind`, `cancelRunOf`, `cancelChainsOf`,
`cancelPreviousRun`) return the set of entries each method takes from both.  A
walk (`fireSequence`) is one step per cue, because the clock may move between
two cues and a start may fail; walks are synchronous, so no command and no turn
of a tick comes in between, but the audio thread may end a cue.  The scheduler's
tick appears as its callers see it (`BeginTick`, `RunStart`, `CollectFollows`,
`RunFollow`, `EndTick`).  Watches come in any order: a superset of the vector's
order.

The settings are named at the head of the module.  The kinds of cue are sound,
wait and memo; the second-trigger rules are `nothing`, `stop` (the fading and
the hard stop differ in what is heard only) and `restart`.  An engine instance
is `on`, `stopping` (its fade or its gate is closing; still `isPlaying`) or
`off`; it may end at any step.

**Playlist.**  The children are the cues of `CueController`, and everything the
operator or a tick does to them is its actions; the module adds the row of the
group (`GoOnGroup`, `StopGroup`, the two cards of `cancelWait`) and the list's
own entries in the tick (`TickFades`, `TickCollects`, `TickSteps`).  The list's
methods call each other and change the book, the timeline, the sound and the run
in turn, so they are functions on one record of these (`Here`, `Becomes`), named
as the methods; where a start may fail or a round may be shuffled in several
ways they return the set of results.  `playlistStep` is a
loop, of as many passes as there are children and one; `Pass` is its body, which
leaves the loop (`Leave`) or goes on (`GoOnWith`), and the loop is a function of the
number of passes.  `own` and
`refused` are history: the children the list started last and has not begun to
fade, and whether a child refused in this step.  A step that would need more
entries than `MaxEntries` is not served, and `ListGoesOn` says so.

**ObsRing.**  One step is one load or store of a shared word, or one cell of
PCM.  `lm_obs_load_acquire` and `lm_obs_store_release` are full barriers and x64
publishes stores in order, so interleaving of such steps is what can happen.  A
frame's content is the epoch it was written in and its position, which is enough
to tell a torn chunk, a mixed one and a repeated one from a good one.  The audio
thread's program counter is `audio`, the owner's `owner` (message and device
thread, one at a time under `ownerLock`), the plugin's `reader`.  `Die` is the end of the
LiveMix process at any step (also the destructor, which first disables); the
mapping survives if the plugin has a view of it.  `live_header` loads the send
flag and the heartbeat one after the other; it is one step, because when both
loads succeed there was a moment at which both held (the owner switches sending
off only after it has stopped the blocks that make the heartbeat fresh).  What
`lm_obs_read` copied is played, invalidated or dropped as in
`lm_receiver_pull`; resampling, fades, fill statistics and the adaptive target are
left out, and where the code's choice depends on them (does this pull want
more? is the format ready?) the model takes either.

**ControlServer.**  Three parties: the user of the window (`UserEdits`), the
worker of each connection (`Receive`, `RefuseAtOnce`, `RemoveClient`) and the
message thread (`Capture`, the `Drain...` actions, `Publish`).  A document is a
session, the set of targets there are and a value for each; `Captured` gives
every observed change a revision.  One piece of a drain is one step, in any
order over the clients (the code goes round them).  `Restart` is the server
switched off and on: everything that waits is refused, every client told and
closed, and the next instance counts its revisions from one.  A rate or a full
queue may refuse any request, and any command may have waited too long.

**StreamDeck.**  JavaScript runs one callback at a time.  The whole state is one
record `sd`; a handler is a function on it, written in the order of the code,
and `Becomes` commits the result and what was sent.  Two things matter beyond
that.  A promise's continuation runs after the callback that settled it, and
several messages of one chunk are one callback: `answers` holds what promises
will do (`TakeAnswer`), messages may be handled before them, timers and presses
may not.  And events are synchronous: setting the status or the snapshot
advances every queue (`AdvanceAll`) in the middle of a handler.  A timer may fire
as soon as it is set; so the 500 ms of an input, the 50 ms of a dial, the two
seconds of a request and of a state are any order of events.  `TimesOut` is the
deadline of something that is out, `Lose` every other end of a connection.  A
turn is a step up; the value of a target is a number.  Messages of an unknown type
are left out, and so is what no LiveMix sends: a message that names another
instance on an open connection.

**Checkpoints.**  A file is absent, damaged, or valid with a generation and a
project.  A replacement renames a verified copy into place, so a process that
dies leaves the old file or the new; `flushed` is what a dead machine leaves for
certain, and a file that was not flushed may be what it was, what it was to be,
or damaged.  `Begin` to `FlushPrimary` are the steps of `writeCheckpoint` in its
order (the early return for an unchanged project included), `ChooseOfTwo` the
choice of `RecoveryScanner::run` between the two.

**RecorderStore.**  `Disk` is `Checkpoints` with the recorder's projects: a
project is its saved edits, its sample rate and, for each take, its state, its
media and its clips.  The journal keeps of each take which records it has and
`order`, the order of its takes; `torn` is a last record cut short.  One step is
one flush, one record, or one handler of the message thread; a save runs step by
step while the user edits on and a take goes through prepare, start, stop,
finalize and release.  `Open` is `openProject` with the whole scan, since nothing
else runs and a copy that was not committed is passed over: the choice over all
files in any order of listing, the takes the journal names in its order, and the
new copy if anything changed.  `AdoptRate` is a device of another rate, which changes
the rate in memory alone, `ImportAudio` the edit that registers imported media;
from then on the project has media and its rate is fixed.  `Crash` ends a session at any step; there is no
other end, since a session closed by the user leaves the same files.

## Runs

| run | module, cfg | checks | states |
|---|---|---|---|
| `timeline` | `Scheduler`, `Scheduler.cfg` | types, `InFlightIsWhatTheTickWillVisit`, `TickRunsInTimeOrder`, `KeepsThePromise` (refinement); liveness: `EveryEntryIsServed` | 180 018 |
| `chain` | `MCCueController`, `CueChain.cfg` | types, `StoppedMeansStopped`, `StopTakesEverythingOfACue`, `RestartReplacesTheOtherRuns`, `FadeOutEndsTheOtherSequences`, `HeadIsNotDoubled` | 623 865 |
| `slow_tick` | `CueSlowTick.cfg` | violates `FollowWaitsForItsCue` | |
| `two_follows` | `CueTwoFollows.cfg` | violates `OneFollowPerCue` | |
| `lists` | `MCPlaylist`, `Playlist.cfg` | `OneWatchPerList`, `OneChildAtATime`, `NotTwiceInARow`, `NothingHangsOffACancelledStart`, `FollowWaitsForItsCue`; liveness: `ListGoesOn` | 282 732 |
| `ring_restart` | `ObsRing`, `ObsRestart.cfg` | types, `OwnerIsAlone`, `PlayedWithinAStream`, `EpochsAreNotMixed`, `NothingIsReplayed`; liveness: `OwnerIsServed` | 685 252 |
| `ring_reset` | `ObsReset.cfg` | violates `PlayedIsWhatWasWritten` | |
| `link_queue` | `MCControlLink`, `LinkQueue.cfg` | types, `NoneIsForgotten`, `AppliedInOrder`, `TellsTheTruth`, `AppliedWhereItWasMade`, `CacheIsCoherent`, `DeckAndMixerAgree` | 498 512 |
| `link_restart` | `LinkRestart.cfg` | liveness: `EveryInputSettles`, `CatchesUp` | 142 075 |
| `link_session` | `LinkSession.cfg` | violates `SessionChangeKeepsTheConnection` | |
| `store` | `RecorderStore`, `Store.cfg` | types, `SavedEditsSurvive`, `TakesSurviveOnce`, `AlwaysOpens`, `ConfirmedSurvives`, `RecoveryIsIdempotent`, `NothingGoodIsLost` | 623 664 |
| `store_lost` | `StoreLost.cfg` | violates `SavedEditsSurvive` | |

Bounds, and why they are enough:

* Scheduler: `MaxEntries = 3` requests, `MaxTime = 1`, one condition that
  changes twice.  Three entries give two due ones and one that an action adds
  or removes, at equal and different times; a watch can be true when collected,
  false in its turn and true again.  The safety properties are proved for every
  bound.
* CueController: three cues (a sound that continues, one that is followed, one
  that fades the others out), three commands, which suffice for start, start
  again and stop, clock up to 3, waits of one unit.
* Playlist: four children, which fired by themselves are a chain of three starts
  (for `cancelChainBehind`) with a wait and a follow behind it; three settings of
  the list (played once; repeated with crossfades; a shuffled jukebox), one for
  each second-trigger rule; two commands, clock up to 3, eight entries.  The
  clock stands while a call or tick runs (`TickTakesTime = FALSE`): that is the
  assumption under which `FollowWaitsForItsCue` holds, and `slow_tick` is the same
  property without it.
* ObsRing: a ring of two or three cells, blocks of one and two frames, more
  frames than cells (the writer laps the reader), two epochs.
  All its safety properties are proved for every bound, target and block size;
  that matters because the reader's target grows, up to 200 ms and at the highest
  rates up to the ring less one frame, a ratio that this instance does not have.
* Control link: up to three inputs on one target, one change in LiveMix (a
  value, a target that goes or comes, a new session), one or two connections
  and instances.  A conflict needs one change and one computed input; a boundary
  one change of session or one restart; order and displacement three inputs,
  with `MaxUnsent` at 2, so that the two turns are merged while they wait (the code
  merges up to 50), and `MaxKeys` at 1, so that two keys behind a turn are too many
  (the code takes two).  All of it at once is too large, so `MCControlLink` starts in scenarios:
  states in which a part of the bounds is used up already.  Each is a state the
  system reaches by itself (an input that came before a connection was there is
  answered `DISCONNECTED`; a connection may be lost before anything was sent; the
  user may open another session or switch the server off and on before the
  plugin has connected), so the scenarios leave behaviours out and add none, but
  that the counters of inputs and edits start where the scenario says.
* RecorderStore: two takes, one edit (or removal of clips, or import), two rates, two
  recovered copies, saves of the user up to generation 3.  One take that breaks
  and one that is whole, or two that break in different sessions, are what the
  scan distinguishes; the second copy is the recovery of a recovery.
  `SavesFirst = TRUE` restricts the user to saving a recovered project before the
  next take and before a device of another rate is opened; without it
  `store_lost` violates `SavedEditsSurvive`, with a third copy.  (A copy recovered
  without media, given another rate and saved, has the generation of that save, and
  the scan finds two checkpoints of one generation that differ.)
* `CHECK_DEADLOCK FALSE` stands in the ring's, the link's and the store's
  configurations: with sending off, LiveMix gone, all inputs answered, or a
  project that is refused, nothing needs to happen again.  `MaxFrames` makes the device
  stop (`ReserveNoMore`).

## Disagreements

* `slow_tick`.  `Scheduler::tick` reads the clock once for the timed entries
  (`src/app/Scheduler.cpp:79`); the follow put on by a walk reads it again
  (`src/app/CueController.cpp:1748`).  A start that falls due between the two
  readings waits for the next tick, but its follow is collected in this one: its
  cue is not active, so it looks finished.  The next cue of the sequence starts
  before the one it was to follow.  The comment at `Scheduler.cpp:123` says this
  does not happen.
* `two_follows`.  A cue whose run is over, but whose follow has not been served
  by a tick yet, is started again by a hotkey.  It does not run, so nothing calls
  `cancelPreviousRun()`; the old follow stays and a second one is put on.  The
  comment at `CueController.cpp:60` names the consequence: two follows, two
  starts.
* `ring_reset`.  The last validation of `lm_obs_read` loads the written
  position, then the reservation, then the epoch.  If between the first two the
  block in flight ends and the owner resets the reservation to 0
  (`livemix/src/ObsSender.cpp:155`), the reader sees the written position from
  before the block and a reservation of 0, and the epoch is published only
  afterwards (line 161).  The chunk it copied while the block was being written
  passes.  The pull's checks behind it (`receiver.c:1010`) load the epoch before
  it changes and find the stream live once the restarted device has written a
  block.  Within one epoch and stream the property holds (`PlayedWithinAStream`, in
  `ring_restart`, proved), and in every case the frames are of one epoch
  (`OneEpoch`, proved).

* `link_session`, first way.  A command that LiveMix refuses with
  `SESSION_CHANGED` makes the plugin drop its snapshot and ask for the state
  (`streamdeck/src/livemix/connection.ts:228`).  The server answers with an ack
  and then the state (`ControlServer.cpp:596`, as the design document says at
  line 220), but with no snapshot any message but a state is `STATE_REQUIRED`
  (line 195): the connection is dropped and the deck shows "disconnected" until
  it has connected again.
* `link_session`, second way.  When the full state of a new session comes first,
  the plugin cancels what is out by forgetting its ids (line 197); the answer,
  which is on its way, is then `UNEXPECTED_RESPONSE` (line 222), with the same
  end.  The test of the boundary (`streamdeck/tests/connection.test.ts:319`)
  never lets the server answer.

In both cases the plugin recovers by connecting again; no input is lost or
applied to the wrong session (`AppliedWhereItWasMade`, `TellsTheTruth`).

* `store_lost`.  `writeCheckpoint` numbers a save one above `project.recorder` and
  its `.bak` (`recorder/src/model/RecorderSerializer.cpp:342`), while the scan
  chooses over the recovered copies too, by the same number
  (`recorder/src/storage/RecoveryScanner.cpp:290`), and numbers a copy above
  everything it has read (line 629).  After two recoveries with no save between
  them the second copy is two generations ahead of the project file; the next
  save is one ahead of it and loses to the copy at the next opening that follows.
  What was reported as saved is not in the project that opens.  The design
  document (`docs/superpowers/specs/2026-09-09-recorder-design.md:372`) says that
  confirmed edits survive.  The files themselves are there: among the project
  file and its backup the last save wins (`ConfirmedSurvives`, proved).

## Observations

What the models showed besides.  The properties are stated around these, and no
run is spent on them; where a comment of the code says otherwise it is quoted.

* A playlist's crossfade counts with the pre-wait of the next row as it is when
  the present child starts (`src/app/CueController.cpp:504`).  If that row is
  disarmed, fails or comes out of another shuffle by then, the old child fades
  out at another moment than the new one starts ("fade out when the next one
  actually starts", line 538).  A skip during a pre-wait of a crossfade withdraws
  the fade-out that was put off (line 563) and the old child plays on at full
  level beside the new one until it ends; this is why `own` leaves a child out
  once it has begun to cross.
* The playhead and disarmed rows.  `go()` moves the playhead past the sequence it
  fires (`src/app/CueController.h:41`).  The walk passes over a disarmed row (line
  1653 of the source), but `sequenceEnd`, which says where an auto-follow sequence
  ends, does not look at `armed` (line 1605): a disarmed row of mode "none" in front
  of the sequence ends the reckoning, and the playhead is put on the cue that has
  just started, in front of those that will start on their own.  The model does
  the same (`sequenceEnd`), and no property speaks of where the playhead is left.
* There are two ways in which a project is refused at every opening, because the
  record of a take in the journal must have the project's rate
  (`RecoveryScanner.cpp:451`).  `AlwaysOpens` says that there is no third.
  The first is a take that left no media, followed by one on a device of
  another rate: the first has not fixed the rate for good.  The second is a take
  that did leave media.  `TakeController::prepare` saves the project before a take
  only while it has no media (line 1032), so that "a crash during this take still
  recovers" (line 1034), but it looks at the registry in memory: opening a
  device of another rate changes the project's rate in memory only
  (`RecorderDocument.cpp:155`), an audio import then registers media with no save
  (`recorder/src/media/AudioImport.cpp:451`), and the take starts with no save
  either, at a rate the checkpoint on the disk does not have.  The history variable
  `adrift` holds such takes; `store` reaches both ways.
* A torn journal is never repaired.  Opening succeeds, but each later take is
  refused when it opens the journal (`RecordingJournal.cpp:131`, "must be
  recovered to a new copy"), and no code makes that copy (`CannotStart`).
* A damaged project file is never replaced (`RecorderSerializer.cpp:339`), which
  `NothingGoodIsLost` states as what it is for; it also means that a project
  opened from the backup or a recovered copy cannot be saved in its place.

## Fairness

* Scheduler, CueController and Playlist: weak fairness of the tick (a 1 ms
  `juce::Timer` on the message thread, `src/ui/MainComponent.cpp:307`), of the
  return of an action and the steps of a walk (straight-line code), of the clock
  (strong fairness, because `lists` lets it stand during a tick and a real clock
  moves all the same), and, for follows, of the end of a cue (the audio thread plays it out).
  Commands are never fair: the operator may do nothing.
* ObsRing: weak fairness of the audio thread and of the owner inside its call,
  each a thread the operating system runs.  Not of the reader: OBS may stop
  pulling.
* RecorderStore: none; every promise is about what is there when the project is
  opened again, and the operator may never do that.

* Control link: `EveryInputSettles` assumes only the plugin's own event loop
  (its timers and promises), nothing of LiveMix or of the link.  `CatchesUp`
  adds that both sides read what has arrived, that the message thread drains
  and publishes (its 20 ms timer) and that the plugin connects again (its 1 s
  poll).  It lets the plugin stay disconnected once the connections of the instance
  are used up; that cuts off what lies past the bound, and nothing before it.  Presses, changes and losses are never fair.

## Proofs

All theorems hold for every value of the constants under the named assumptions
of the modules (types of the constants; `NoCond` is not a condition).

* `SchedulerProofs`.  The inductive invariant `IInv` adds to the types: the
  flags agree with the phase (`PhaseInv`); an element is in one place and an id
  names one element that was asked for and has not run (`ElementsInv`); what was
  cancelled in this tick is not in the vector (`CancelledInv`); timed elements lie in
  the vector in the order of their ids (`OrderInv`, which makes the sort stable
  in terms of requests).  None of the properties is inductive by itself: that
  `inFlight` is exact needs the uniqueness of ids, the time order needs both
  `OrderInv` and the exactness of `inFlight`.  From `IInv`: `TypeCorrect`,
  `InFlightIsExact`, `TimeOrderHolds` (an action property), and `Implementation`, the
  refinement of `Timeline`, action by action.
* `CuePlayerProofs`, of `CueController`.  `Stopped`: while `calm` nothing is to come.  The
  strengthening is that the timeline holds nothing the book does not
  (`sched \subseteq pending`), which is why the sweep of `track()` matters, with
  the two functions being maps over the cues.  The other theorems rest on
  `StepInv`, which adds what entries are (`BookOk`: the kinds, ids used once,
  each entry hanging on older ones) and where a walk stands (`WalkOk`).
  - `TypeCorrect`: `TypeOK`.
  - `CancelledWhole` and `StoppedWhole`: what cancelling a start and stopping a
    cue take along.  The lemmas say that the sets the methods return are
    `Closed`: with a start they hold all that hangs off it, however long the
    chain of starts behind it.  For `cancelChainBehind` this is an induction
    along the chain, ended by the number of entries (`GrowthEnds`).
  - `HeadOnce`, `RestartIsClean`, `FadedWhole`: a sequence's head is scheduled
    once; a restart takes everything of the cue's other runs and spares the follow
    that belongs to it; a cue that fades the others out leaves nothing of them on
    the timeline.
  - `FollowsWait`: no follow goes on before the start it belongs to has had its
    turn, under the assumption `TickTakesTime = FALSE`.  The assumption is the
    point: without it `slow_tick` is a counterexample.  The invariant besides
    (`TickOk`) says that among the watches no start is due.
* `CuePlayerProofs`, of `Playlist`.  All safety properties of `lists`, for any
  children, settings of the group and bounds.  The methods of a list are functions on one record, so
  the invariant `ListInv` is a predicate on that record (`Settled`) and `StepInv`,
  and each method has a lemma: what it keeps, and which starts it takes off
  (`Sheds`: none without what hangs off it, and what it puts on lies ahead).
  - `PassesKeep` is the rule for the loop of `playlistStep`: what holds before its
    first pass, and after a pass whenever it did before, holds at its end.
    Between two passes the list is `Moving` (no watch, none of its children at full
    level); a pass that leaves the loop leaves it `Settled`.
  - `WatchedOnce`, `OneAtATime`.  Neither is inductive alone.  That a running list
    has a watch needs that nothing which happens to a child takes the watch off:
    it hangs off no start and is of no cue (`Spares`, through every method of
    `CueController`).  That only its present child is at full level needs that the
    start the list has put on is a start of that child (`TheStart`), since a
    turn of the tick is what makes it the list's.
  - `ListCancelsWhole` and `ListFollowsWait` (under `TickTakesTime = FALSE`): in the
    steps of the children by the lemmas about `CueController`, in those of the
    list by `Sheds`.
  - `NeverTwiceInARow`, an action property: before each pass the next child that
    can play, from where the list stands, is not the one that played last
    (`Ahead`), because no child is in an order twice (`OrdersInv`), and because a new
    round is shuffled until its first playable child is another one.
* `ObsRingProofs`.  `Alone`: the gate's invariant ties `audio`, `copying`,
  `closed` and the owner's place.  `TypeCorrect`: the types with what the
  reader may rely on (a count that fits between its position and the written
  one).  `OneEpoch`: the cells a position in the current epoch names were
  stamped in that epoch, up to the written position; the reader's copy is of
  the epoch it loaded or its re-check of the epoch will fail.
  `WithinAStream`: what the reader accepts while the stream
  goes on is what was written.  The invariant follows the argument of the
  protocol: the writer's positions (`PositionsInv`), what each cell below the
  written position holds unless it lies in the block that is reserved
  (`ContentInv`), the range the reader loaded (`BoundsInv`, `ReadableInv`), the
  cells it has copied, right as long as the reservation has not passed them
  (`CopiedInv`), and that its last loads say so (`AcceptedInv`).  The arithmetic
  it rests on is that two positions less than a capacity apart are in different
  cells.
  `NotReplayed`: the reader plays no frame of an epoch twice.  `floor`, a history
  variable, is where it may play on, and the reader does fall behind it: an
  overrun or a failed read begins again at the target behind the newest frame,
  however much of that was played.  The invariant (`Follows`) says when: only
  while the reservation is a ring ahead of `floor`, so that every read from behind
  `floor` fails its first check, or once the stream the reader has seen is gone,
  its epoch raised or its positions taken back with sending off (`Silent`).
  `SeenInv` says that otherwise the stream covers what the reader holds;
  `AheadInv` follows a read that began before the positions were taken back up
  to the check that refuses it.  The steps of LiveMix need one fact only (`Goes`):
  the positions grow, or the stream is silent, or its epoch is a later one.  The
  theorem needs no relation of target, block and ring.
* `CheckpointsProofs`.  `Confirmed`: the invariant says, for every step of the
  writer, which of the two files vouches for the confirmed revision: the
  project file, or the flushed backup while a new project file is not flushed yet
  or once it is damaged (`PrimaryVouches`, `BackupVouches`, `OnlyTheBackup`).  The
  flush of the backup before the replacement is the step it needs.
  `NothingLost`: the action property, from the same invariant.
* `RecorderStoreProofs`.  `Implements`: a session's step is a step of a save, a
  crash of the files, or leaves them alone; of the application it needs that the
  document stays a project and that somebody waits for a save exactly while one
  runs (`InvOfApp`).  `SavesSurvive` and `OriginalsSurvive` carry the two theorems
  over.
  - `TypeCorrect`: `TypeOK`, with `StoreTyped`; that the number of a new copy is
    above all others needs the greatest generation there is (`NewGenIs`).
  - A scan is two folds, for any number of copies and of takes in the journal.
    `ScanIs`: what a scan adds to the checkpoint it chose and what it keeps of it
    (`Recovers`, transitive along the journal).  `ChooseIs`: whatever order the
    folder is listed in, the file chosen is what vouches for the project
    (`Voucher`, of the three cases of `CheckpointsProofs`) or the one copy that is
    `Ahead` of it, and there is no conflict.
  - `EditsSurvive`, `TakesSurvive`, `OpensAgain` and the action property
    `RecoversOnce`, under the assumption `SavesFirst = TRUE`, which is about the
    user and not about the code: without it `store_lost` is a counterexample.
    All four rest on `LastsInv`: the project that is open, the one a save is
    writing, the voucher and a copy ahead all have the edits that were shown as
    saved, just the takes of which there is media, each on the timeline once or
    taken off, and the rate of the records of these takes in the journal
    (`Agrees`), but for those that are `adrift`.  None of these holds alone:
    a crash may turn any of the four into the next session's project.  At most one copy is
    ahead, by one generation (`LeadsOn`); a save that overtakes it must be of a
    project that is no older, which is so because the session began with that
    copy; and no take is recorded while one is ahead (here `SavesFirst` enters).
    `RecoversOnce` adds `Settled`: after a scan that made no copy the project
    file itself has all of the journal.
* `StreamDeckProofs` and `ControlLinkProofs`.  The theorems are about `Spec`, of which the scenarios of
  `link_queue` are part, with any inputs, targets, limits and bounds.
  - `EachInputIsHeldOnce`: `NoneIsForgotten`.  Events are synchronous, so in
    the middle of a handler of the plugin an input may be in no queue and the
    others are advanced meanwhile; `Tidy` says where the inputs of one queue are
    but for those that are `loose`, each method is shown to keep or to settle
    these, and a handler to end with none (`AllGood`).  The loops over the
    targets are folds, and their lemmas inductions over the set of targets
    (`SubsetRecursion`).  From the rest of the state it needs that requests that
    are out and answers not yet taken name inputs that were made (`PendSound`,
    `AnswersSound`), and that without a connection nothing is ready or out
    (`Resting`).
  - `TypeCorrect`: `TypeOK`, from `LinkInv`, which types the server and every
    message of the wire as well.
  - `CacheNeverLies`: `CacheIsCoherent`.  It speaks of the current revision
    only; the invariant `CacheInv` has a witness, the document of every revision
    the running LiveMix has counted, with which each full state and delta on the
    wire agrees, each delta with its base, and so what the plugin makes of them
    (`Coherent`); or the connection is to a LiveMix that has ended and its
    snapshot names another instance (`Foreign`).  Two things of the code carry
    it: a changed structure goes out as a full state although several captures
    lie between two publications, and a delta is taken only on its base.
  - `EveryReportIsTrue`, `NoInputGoesAstray`, `NoInputOvertakes`: `TellsTheTruth`,
    `AppliedWhereItWasMade`, `AppliedInOrder`, from one invariant (`JourneyInv`, on
    top of `CacheInv`).  That a report is true depends on every place its input
    has been since it was made, so the invariant follows the inputs all the way.
    `World` is what the plugin cannot change in a callback: the commands that
    LiveMix has not worked off (the pending queue of each connection and behind
    it what is on the wire, `Line`), the answers on their way back, and what was
    applied.  `Journey` says of it and the plugin's state:
    + `Loads`: no two commands carry the same input and no command one that was
      applied (`Alone`); a command goes where its inputs were made (`Stamped`: its
      connection, its session, and while LiveMix reads it the running instance);
      on a connection the inputs of a target travel in the order they were made
      (`Ranked`);
    + `Honest`: what was told of an input is true; and every code that says "not
      applied" is given only to inputs that are neither on their way nor applied;
    + `Opened`: an open input was made on the session, the instance and the
      connection the plugin has now, because a boundary settles all the others;
    + `Trip`, for each target: what waits or is to be sent again was not sent; a
      queue has one request out or one answer to take, not both, and whatever
      may come back under that number is true of all inputs of the active
      intent, late answers and those of a lost connection included.

    A callback of the plugin keeps `Journey` in any world (one lemma per method,
    in `StreamDeckProofs`) and puts what it sends behind what is on its way
    (`CommittedJourney`).  LiveMix changes the world only by working off what
    comes first on a connection, applied whole or not at all, and by saying so
    (`WorksOff`; `ServeJourney`): that is where the order of the connections'
    queues, the check of the session in the same step as the change, and the
    ending of all connections with the instance are needed.  A restart forgets
    what is on its way, and `Opened` forbids that it comes back under the new
    instance.
  - `DeckAgreesWithMixer`: `DeckAndMixerAgree`.  What a turn makes of a value is
    computed in the plugin, from what the plugin knew, long before LiveMix applies
    it.  `JourneyInv` therefore also says what the messages mean:
    + `Uniform`: a queue joins inputs of one kind, on its own target;
    + `Voiced`, `Fitting`: a command that sets a value sets the one its inputs make
      of the document under the revision it names.  It fits the document LiveMix
      has whenever that is of this very revision (`Fits`); all others are refused
      when the command is worked off, after LiveMix has counted what changed.  That
      equal revisions of one instance are equal documents is `CacheInv`;
    + `Backed`: an ack, on its way, told or kept with the queue, names the revision
      its inputs were applied under;
    + `Shown`: what a callback reports as done was applied on the instance of the
      snapshot it ends with, under no later revision.
* `Inductions` states induction over numbers and finite sets with sets in the
  place of predicates and functions in the place of operators, the form in which
  the provers can use it.  It goes back to the well-founded order of the numbers.

TLC only:

* the liveness properties (fairness and `ENABLED` are out of the prover's reach).

## What is not modelled

In CueController: fades, devamp, ducks, the control cues other than wait, memo
and arm, the double-GO window and key-up rule, pause and resume, load, audition,
the wall clock and the recording of a show.  Of groups: the modes other than the
playlist, groups in groups, children that are control cues and re-enter the list
they are in or fade the other cues out, and the step backwards.
In the ring: the mapping's header checks, presence slots, the metadata seqlock,
formats and resampling.
In the control link: the discovery file with its lease and the back-off, tokens
and versions, limits of the socket, the server's cache of replies for repeated
ids (the plugin never repeats one), commands that set a given value, and what
keys draw.  `AppliedInOrder` is stated within one connection: across two, a
worker that lags may leave a command of the old connection to be drained after
one of the new.
In the store: the work of an audio import before its edit (copying, decoding,
conversion, its cache) and what becomes of the imported file, the bytes of WAV and MP4 files and how their ends are found, the
edit journal (only a test harness attaches one), the rotation of journals,
dubbing within a take, the devices, and a flush of the new project file that
fails with the machine dying before the next save.

Everything listed `not_modelled` in `PROJECT.json`, with its reason there:
DSP, device, codec and UI code is numeric or pure I/O; the rest is planned.

## Plan

1. Done: `Scheduler` with its refinement and proofs, `CueController` (flat
   lists), `Playlist`, `ObsRing` with proofs for whole streams, the control link,
   the recorder's storage with its refinement and proofs.
2. The control link: the discovery lease and the back-off as a module of their
   own.
3. OBS presence slots and the metadata seqlock (a theorem like `WithinAStream`,
   smaller); the bounded queues (`BoundedSpscQueue`, `PlaybackBlockQueue`,
   `RecordingQueue`).
4. `FadeRunner` and the other group modes, on `Playlist`; LiveMix `Recorder`;
   `SafeFileWrite` and backups of the cue player, on `Checkpoints`; collaboration
   sessions.
5. Proofs to come: of the store, what a user may do before saving a recovered
   project without losing anything.
