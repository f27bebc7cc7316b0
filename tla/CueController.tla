---------------------------- MODULE CueController ---------------------------
(***************************************************************************)
(* gocue::CueController (src/app/CueController.h, .cpp) over its timeline: *)
(* what a GO, a hotkey, a stop or a panic starts, schedules and takes away *)
(* in a flat list of sound, wait and memo cues.                            *)
(*                                                                         *)
(* The timeline is the scheduler as its callers see it (Scheduler.tla): an *)
(* entry is pending until it is cancelled or its turn in a tick comes; a   *)
(* tick runs the timed entries that were due when it began in the order of *)
(* their times, then the watches whose condition holds.  One step is one   *)
(* call, one turn in a tick, or one cue of a sequence walk: the audio      *)
(* engine ends cues and time passes in between.                            *)
(*                                                                         *)
(* Settings modelled: no double-GO window, no key-up rule, space is GO,    *)
(* fade-stop-others over the whole list, nothing paused, loaded or         *)
(* auditioning.                                                            *)
(***************************************************************************)
EXTENDS Naturals, FiniteSets, Sequences, FiniteSetsExt

CONSTANTS
  Cue,            \* the list: a sequence of [kind, pre, post, mode, rule, fso, secs]
  SoftLatch,      \* how long a fading panic refuses starts
  HardLatch,      \* how long a hard panic does
  TickTakesTime,  \* TRUE: the clock may move while a call or a tick runs
  MayFail,        \* TRUE: the engine may refuse a sound cue (device, file)
  MaxTime,        \* bound: the clock
  MaxCommands     \* bound: what the operator does

VARIABLES
  now,
  panicLatchUntil,
  playing,        \* engine: cue -> "off", "on" or "stopping" (isPlaying until it is off)
  waits,          \* wait cue -> when its wait ends, 0 when there is none
  armed,          \* the cues that are armed
  playhead,
  pending,        \* the controller's book of its scheduler entries
  sched,          \* the timeline: the entries it still has to run
  nextId,
  walk,           \* fireSequence() between two cues, or NoWalk
  phase, turn,    \* the tick: "idle", "timed" or "watches", and the ids it will visit
  commands,
  calm            \* history: no start was asked for since everything was stopped

book  == <<pending, sched, nextId>>
sound == <<playing, waits>>
tickv == <<phase, turn>>
vars  == <<now, panicLatchUntil, sound, armed, playhead, book, walk, tickv, commands, calm>>

Cues == DOMAIN Cue
Kinds == {"audio", "wait", "memo"}
Modes == {"none", "continue", "follow"}
Rules == {"nothing", "stop", "restart"}

ASSUME CueAssumption ==
  Cue \in Seq([kind : Kinds, pre : Nat, post : Nat, mode : Modes, rule : Rules,
               fso : BOOLEAN, secs : Nat]) \ {<< >>}
ASSUME SettingsAssumption ==
  /\ {SoftLatch, HardLatch, MaxTime, MaxCommands} \subseteq Nat
  /\ {TickTakesTime, MayFail} \subseteq BOOLEAN

Last == Cardinality(Cues)
NoWalk == [i |-> 0]
Walking == walk # NoWalk
isPanicLatched == now < panicLatchUntil

IdsOf(S) == {e.id : e \in S}

(* A start: run c at time 'at'.  An observer: when owner is over (and     *)
(* 'at' has passed) walk on from cue 'next'.                              *)
Start(id, c, at, behindOwner, behindStart) ==
  [id |-> id, owner |-> c, kind |-> "start", runId |-> id, at |-> at, next |-> 0,
   postWaitOwner |-> behindOwner, afterStartId |-> behindStart]
Follow(id, c, at, next, run) ==
  [id |-> id, owner |-> c, kind |-> "observer", runId |-> run, at |-> at, next |-> next,
   postWaitOwner |-> 0, afterStartId |-> 0]

isPlaying(c)   == playing[c] # "off"
isCueActive(c) == isPlaying(c) \/ now < waits[c]

(* A start still to come; the slip looks at what plays only. *)
NothingPendingFor(c) == FALSE
hasPendingFor(c) == \E p \in pending : p.owner = c /\ p.kind # "observer" /\ p.id \in IdsOf(sched)

-----------------------------------------------------------------------------
(* What a cancellation takes.  P is the book, L the ids still pending in   *)
(* the timeline; each operator is the set of entries it removes from both. *)

(* The follow of a start; the slip leaves it there.                        *)
RunOfNothing(P, o, s) == {}
cancelRunOf(P, o, s) ==
  IF s = 0 THEN {} ELSE {p \in P : p.owner = o /\ p.runId = s /\ p.kind # "start"}

Behind(P, L, o, s) ==
  {p \in P : p.kind = "start" /\ p.postWaitOwner = o /\ p.afterStartId = s /\ p.id \in L}

(* The work list: what is behind o's start s, what is behind that, ... each *)
(* with the follow put on for it.  The slip stops after the first start.   *)
ChainOneDeep(P, L, o, s) ==
  UNION {{p} \cup cancelRunOf(P, p.owner, p.id) : p \in Behind(P, L, o, s)}
cancelChainBehind(P, L, o, s) ==
  LET chain[n \in 0 .. Cardinality(P)] ==
        IF n = 0 THEN Behind(P, L, o, s)
        ELSE chain[n - 1] \cup UNION {Behind(P, L, p.owner, p.id) : p \in chain[n - 1]}
  IN  UNION {{p} \cup cancelRunOf(P, p.owner, p.id) : p \in chain[Cardinality(P)]}

WithItsChain(P, L, S) ==
  S \cup UNION {cancelRunOf(P, p.owner, p.id) \cup cancelChainBehind(P, L, p.owner, p.id) : p \in S}

(* keep = 0 keeps no chain (-1 in the code: 0 is an immediate start there). *)
(* The slip overlooks the chains behind a cue that was started at once.    *)
ScheduledChainsOf(P, L, o, keep) ==
  WithItsChain(P, L, {p \in P : /\ p.kind = "start" /\ p.postWaitOwner = o
                                /\ p.afterStartId # keep /\ p.id \in L})
cancelChainsOf(P, L, o, keep) ==
  WithItsChain(P, L, {p \in P : /\ p.kind = "start" /\ p.postWaitOwner = o
                                /\ (keep = 0 \/ p.afterStartId # keep) /\ p.id \in L})

(* keep = 0: nothing of the cue is kept, else the run that starts now.    *)
cancelPendingFor(P, L, c, startsOnly, keep) ==
  LET matches == {p \in P : /\ p.owner = c
                            /\ keep = 0 \/ p.runId # keep
                            /\ startsOnly => p.kind = "start"}
      starts  == {p \in matches : p.kind = "start" /\ p.id \in L}
  IN  matches \cup WithItsChain(P, L, starts)
        \cup (IF startsOnly THEN {} ELSE cancelChainsOf(P, L, c, keep))

(* A restart keeps the follow of the run whose scheduled start is firing;  *)
(* the slips: it keeps nothing, it drops nothing.                          *)
KeepNothing(firing) == 0
KeepFiring(firing)  == firing
DropsNothing(P, L, c, firing) == {}
cancelPreviousRun(P, L, c, firing) == cancelPendingFor(P, L, c, FALSE, KeepFiring(firing))

(* What the fade-stop-others of cue c takes: the chains behind whatever is *)
(* playing, everything the others have pending, the chains behind waits.   *)
(* The slip forgets the chains: a start of c behind a cue that plays.      *)
FadeTakesOwners(P, L, c) ==
  UNION {cancelPendingFor(P, L, o, FALSE, 0) : o \in {p.owner : p \in P} \ {c}}
fadeStopOthersTakes(P, L, c) ==
  LET others == Cues \ {c}
      R1 == UNION {cancelChainsOf(P, L, o, 0) : o \in {o \in others : isPlaying(o)}}
      P1 == P \ R1
      R2 == UNION {cancelPendingFor(P1, L, o, FALSE, 0) : o \in {p.owner : p \in P1} \ {c}}
      P2 == P1 \ R2
      R3 == UNION {cancelChainsOf(P2, L, o, 0) : o \in {o \in others : waits[o] # 0}}
  IN  R1 \cup R2 \cup R3

(* track(): sweeps what the timeline no longer has, then enters the new    *)
(* one.  The slip keeps one entry per cue.                                 *)
TrackOnePerCue(P, L, e) == {p \in P : p.id \in L /\ p.owner # e.owner} \cup {e}
Track(P, L, e) == {p \in P : p.id \in L} \cup {e}

-----------------------------------------------------------------------------
(* Starting one cue now.  An outcome: the result, the entries it takes from *)
(* the book and the timeline, what plays and what waits after it.  L is     *)
(* what is pending in the timeline, firing the start whose turn it is (0).  *)

Outcome(res, takes, p, w) == [res |-> res, takes |-> takes, playing |-> p, waits |-> w]

Running(c) == IF Cue[c].kind = "audio" THEN isPlaying(c) ELSE now < waits[c]
StopSound(c) == [playing EXCEPT ![c] = IF @ = "on" THEN "stopping" ELSE @]

(* triggerImpl() for a sound cue, triggerControl() for a wait and a memo.   *)
StartNow(c, replaced) ==
  {Outcome("started", replaced,
           IF Cue[c].kind = "audio" THEN [playing EXCEPT ![c] = "on"] ELSE playing,
           IF Cue[c].kind = "wait" THEN [waits EXCEPT ![c] = now + Cue[c].secs] ELSE waits)}
    \cup (IF MayFail /\ Cue[c].kind = "audio"
          THEN {Outcome("failed", replaced, playing, waits)} ELSE {})

(* The second-trigger rule of a cue that runs.                             *)
Answer(c, L) ==
  IF Cue[c].rule = "nothing" THEN Outcome("ignored", {}, playing, waits)
  ELSE Outcome("ignored", cancelPendingFor(pending, L, c, FALSE, 0),
               StopSound(c), [waits EXCEPT ![c] = 0])

(* trigger(): what a cue does when it is to start now.                     *)
Trigger(c, L, firing) ==
  IF isPanicLatched \/ c \notin armed THEN {Outcome("failed", {}, playing, waits)}
  ELSE IF ~ Running(c) THEN StartNow(c, {})
  ELSE IF Cue[c].rule # "restart" THEN {Answer(c, L)}
  ELSE StartNow(c, cancelPreviousRun(pending, L, c, firing))

(* startById(): a cue that started fades the others out if it says so.     *)
StartById(c, L, firing) ==
  {IF o.res = "started" /\ Cue[c].fso
   THEN [o EXCEPT !.takes   = @ \cup fadeStopOthersTakes(pending \ o.takes, L, c),
                  !.playing = [d \in Cues |-> IF d # c /\ @[d] = "on" THEN "stopping" ELSE @[d]],
                  !.waits   = [d \in Cues |-> IF d = c THEN @[d] ELSE 0]]
   ELSE o : o \in Trigger(c, L, firing)}

-----------------------------------------------------------------------------
(* fireSequence(): a walk down the list, one cue per step.                 *)

WalkFrom(c, isGo) ==
  [i |-> c, head |-> c, t |-> now, owner |-> 0, startId |-> 0, cleared |-> FALSE, go |-> isGo]

(* A panic in progress: nothing starts. *)
fireSequence(c) == walk' = IF isPanicLatched THEN walk ELSE WalkFrom(c, FALSE)

(* What the walk returns is where go() puts the playhead.  The slip may go *)
(* past the end of the list.                                               *)
ReturnUnclamped(after) ==
  /\ walk' = NoWalk
  /\ playhead' = IF walk.go THEN after ELSE playhead
Return(after) ==
  /\ walk' = NoWalk
  /\ playhead' = IF walk.go THEN Min({after, Last}) ELSE playhead

(* The row behind the chain that starts with cue c, armed or not.          *)
sequenceEnd(c) == 1 + Min({k \in c .. Last : Cue[k].mode = "none" \/ k = Last})

(* Take S out of the book and the timeline. *)
Take(S) == /\ pending' = pending \ S
           /\ sched' = sched \ S

Book(P, S, n) == pending' = P /\ sched' = S /\ nextId' = n

(* What follows a start in the walk.  P and S are the book and the         *)
(* timeline after it, n the next id, run its scheduled start (0: it was    *)
(* started at once).                                                       *)
GoOn(P, S, n, res, startAt, run) ==
  LET c == walk.i
      k == Cue[c]
      f == Follow(n, c, startAt, c + 1, run)
      onward == res # "ignored"
  IN  \/ /\ ~ onward \/ k.mode = "none"
         /\ Book(P, S, n)
         /\ Return(c + 1)
      \/ /\ onward /\ k.mode = "continue"
         /\ Book(P, S, n)
         /\ walk' = [walk EXCEPT !.i = c + 1, !.t = startAt + k.post,
                                 !.owner = c, !.startId = run]
         /\ UNCHANGED playhead
      \/ /\ onward /\ k.mode = "follow" /\ c + 1 \in Cues
         /\ Book(Track(P, IdsOf(S), f), S \cup {f}, n + 1)
         /\ Return(sequenceEnd(walk.head))
      \/ /\ onward /\ k.mode = "follow" /\ c + 1 \notin Cues
         /\ Book(P, S, n)
         /\ Return(sequenceEnd(walk.head))

AtACue == Walking /\ walk.i \in Cues
StartAt == walk.t + Cue[walk.i].pre

(* The head of the sequence is fired again while its pre-wait runs, or     *)
(* while it plays and has one.                                             *)
FiredAgain == LET c == walk.i IN
  /\ c = walk.head /\ ~ walk.cleared
  /\ Cue[c].pre > 0
  /\ hasPendingFor(c) \/ isCueActive(c)

WalkPassesDisarmed ==
  /\ AtACue /\ walk.i \notin armed
  /\ walk' = [walk EXCEPT !.i = @ + 1]
  /\ UNCHANGED <<now, panicLatchUntil, sound, armed, playhead, book, tickv, commands, calm>>

WalkAnswers ==
  /\ AtACue /\ walk.i \in armed /\ FiredAgain
  /\ \/ /\ Cue[walk.i].rule = "nothing"
        /\ UNCHANGED <<pending, sched, sound>>
     \/ /\ Cue[walk.i].rule = "stop"
        /\ LET L == IdsOf(sched)
               dropped == Outcome("ignored", cancelPendingFor(pending, L, walk.i, FALSE, 0), playing, waits)
           IN  \E o \in IF isCueActive(walk.i) THEN Trigger(walk.i, L, 0) ELSE {dropped} :
                 Take(o.takes) /\ playing' = o.playing /\ waits' = o.waits
  /\ Return(walk.i + 1)
  /\ UNCHANGED <<now, panicLatchUntil, armed, nextId, tickv, commands, calm>>

(* Restart: the cues the earlier walk reached from here lose the starts it *)
(* put on for them; one that runs keeps its run, the head keeps nothing.   *)
(* The walk then goes on with the same cue.                                *)
AlongTheChain(h) ==
  {k \in h .. Last : /\ k \in armed
                     /\ \A j \in h .. k - 1 : j \in armed => Cue[j].mode = "continue"}
WalkStartsOver ==
  /\ AtACue /\ walk.i \in armed /\ FiredAgain
  /\ Cue[walk.i].rule = "restart"
  /\ Take(UNION {cancelPendingFor(pending, IdsOf(sched), k, k # walk.head /\ isCueActive(k), 0) :
                 k \in AlongTheChain(walk.head)})
  /\ walk' = [walk EXCEPT !.cleared = TRUE]
  /\ UNCHANGED <<now, panicLatchUntil, sound, armed, playhead, nextId, tickv, commands, calm>>

(* scheduleStart(): on the timeline, if its time is still to come ...      *)
WalkSchedules ==
  /\ AtACue /\ walk.i \in armed /\ ~ FiredAgain
  /\ StartAt > now
  /\ LET e == Start(nextId, walk.i, StartAt, walk.owner, walk.startId)
         S == sched \cup {e}
     IN  GoOn(Track(pending, IdsOf(sched), e), S, nextId + 1, "started", StartAt, nextId)
  /\ UNCHANGED <<now, panicLatchUntil, sound, armed, tickv, commands, calm>>

(* ... and at once otherwise.                                              *)
WalkStarts ==
  /\ AtACue /\ walk.i \in armed /\ ~ FiredAgain
  /\ StartAt <= now
  /\ \E o \in StartById(walk.i, IdsOf(sched), 0) :
       /\ GoOn(pending \ o.takes, sched \ o.takes, nextId, o.res, StartAt, 0)
       /\ playing' = o.playing
       /\ waits' = o.waits
  /\ UNCHANGED <<now, panicLatchUntil, armed, tickv, commands, calm>>

WalkEnds ==
  /\ Walking /\ walk.i \notin Cues
  /\ Return(walk.i)
  /\ UNCHANGED <<now, panicLatchUntil, sound, armed, book, tickv, commands, calm>>

Walk == \/ WalkPassesDisarmed \/ WalkAnswers \/ WalkStartsOver
        \/ WalkSchedules \/ WalkStarts \/ WalkEnds

-----------------------------------------------------------------------------
(* What the operator does, between two ticks.                              *)

Command ==
  /\ ~ Walking /\ phase = "idle"
  /\ commands < MaxCommands
  /\ commands' = commands + 1

(* go(): a cue that plays answers by its rule, any other starts a sequence. *)
Go ==
  /\ Command /\ ~ isPanicLatched
  /\ IF isPlaying(playhead) /\ Cue[playhead].rule # "restart"
     THEN /\ \E o \in Trigger(playhead, IdsOf(sched), 0) :
               Take(o.takes) /\ playing' = o.playing /\ waits' = o.waits
          /\ playhead' = Min({playhead + 1, Last})
          /\ UNCHANGED walk
     ELSE /\ walk' = WalkFrom(playhead, TRUE)
          /\ UNCHANGED <<pending, sched, sound, playhead>>
  /\ calm' = FALSE
  /\ UNCHANGED <<now, panicLatchUntil, armed, nextId, tickv>>

(* A hotkey, a wall clock, a MIDI trigger: handleHotkey(), fireSequenceById(). *)
Hotkey == \E c \in armed :
  /\ Command /\ ~ isPanicLatched
  /\ fireSequence(c)
  /\ calm' = FALSE
  /\ UNCHANGED <<now, panicLatchUntil, sound, armed, playhead, book, tickv>>

(* A cart button, fire(), and the preview of a cue, which fades nothing out. *)
Fire == \E c \in armed : \E o \in StartById(c, IdsOf(sched), 0) \cup Trigger(c, IdsOf(sched), 0) :
  /\ Command /\ ~ isPanicLatched
  /\ Take(o.takes) /\ playing' = o.playing /\ waits' = o.waits
  /\ calm' = FALSE
  /\ UNCHANGED <<now, panicLatchUntil, armed, playhead, nextId, walk, tickv>>

stopCue(c) ==
  /\ Command
  /\ Take(cancelPendingFor(pending, IdsOf(sched), c, FALSE, 0))
  /\ waits' = [waits EXCEPT ![c] = 0]
  /\ playing' = StopSound(c)
  /\ UNCHANGED <<now, panicLatchUntil, armed, playhead, nextId, walk, tickv, calm>>

cancelScheduledStart == \E c \in Cues :
  /\ Command /\ hasPendingFor(c)
  /\ Take(cancelPendingFor(pending, IdsOf(sched), c, TRUE, 0))
  /\ UNCHANGED <<now, panicLatchUntil, sound, armed, playhead, nextId, walk, tickv, calm>>

cancelStart == \E p \in pending :
  /\ Command /\ p.kind = "start" /\ p.id \in IdsOf(sched)
  /\ Take(WithItsChain(pending, IdsOf(sched), {p}))
  /\ UNCHANGED <<now, panicLatchUntil, sound, armed, playhead, nextId, walk, tickv, calm>>

(* cancelPending(): what is in the book goes.                              *)
StopEverything ==
  /\ Command
  /\ pending' = {}
  /\ sched' = {e \in sched : e.id \notin IdsOf(pending)}
  /\ waits' = [c \in Cues |-> 0]
  /\ playing' = [c \in Cues |-> IF playing[c] = "on" THEN "stopping" ELSE playing[c]]
  /\ calm' = TRUE
  /\ UNCHANGED <<now, armed, nextId, walk, tickv>>

panicAll == /\ StopEverything
            /\ panicLatchUntil' \in {now + SoftLatch, now + HardLatch}
            /\ UNCHANGED playhead
hardStopAll == StopEverything /\ panicLatchUntil' = 0 /\ UNCHANGED playhead
resetAll    == StopEverything /\ playhead' = 1 /\ UNCHANGED panicLatchUntil

Arm == \E c \in Cues :
  /\ Command
  /\ armed' = IF c \in armed THEN armed \ {c} ELSE armed \cup {c}
  /\ UNCHANGED <<now, panicLatchUntil, sound, playhead, book, walk, tickv, calm>>

Operator == \/ Go \/ Hotkey \/ Fire \/ (\E c \in Cues : stopCue(c)) \/ cancelScheduledStart \/ cancelStart
            \/ panicAll \/ hardStopAll \/ resetAll \/ Arm

-----------------------------------------------------------------------------
(* One tick of the scheduler, as far as its caller sees it.                *)

BeginTick ==
  /\ phase = "idle" /\ ~ Walking
  /\ phase' = "timed"
  /\ turn' = IdsOf({e \in sched : e.kind = "start" /\ e.at <= now})
  /\ UNCHANGED <<now, panicLatchUntil, sound, armed, playhead, book, walk, commands, calm>>

Due == {e \in sched : e.id \in turn}
Before(e, f) == e.at < f.at \/ (e.at = f.at /\ e.id < f.id)

(* The action of a scheduled start; in its turn it is no longer pending.   *)
RunStart ==
  /\ phase = "timed" /\ ~ Walking
  /\ \E e \in Due :
       /\ e.kind = "start"
       /\ \A f \in Due \ {e} : Before(e, f)
       /\ \E o \in StartById(e.owner, IdsOf(sched) \ {e.id}, e.id) :
            /\ pending' = pending \ o.takes
            /\ sched' = (sched \ {e}) \ o.takes
            /\ playing' = o.playing
            /\ waits' = o.waits
       /\ turn' = turn \ {e.id}
  /\ UNCHANGED <<now, panicLatchUntil, armed, playhead, nextId, walk, phase, commands, calm>>

(* The condition of a follow.  The slips: the time of the start is left    *)
(* out; a follow counts as its cue still running, and waits for itself.    *)
WaitsForItself(f) == now >= f.at /\ ~ isCueActive(f.owner) /\ ~ \E p \in pending : p.owner = f.owner
OverNow(f) == ~ isCueActive(f.owner)
MayGoOn(f) == now >= f.at /\ ~ isCueActive(f.owner)

CollectFollows ==
  /\ phase = "timed" /\ ~ Walking /\ Due = {}
  /\ phase' = "watches"
  /\ turn' = IdsOf({e \in sched : e.kind = "observer" /\ MayGoOn(e)})
  /\ UNCHANGED <<now, panicLatchUntil, sound, armed, playhead, book, walk, commands, calm>>

(* A follow whose cue was started meanwhile stays on the timeline, behind  *)
(* the others: they come in the order of the vector, which is any order.   *)
RunFollow ==
  /\ phase = "watches" /\ ~ Walking
  /\ \E f \in Due :
       /\ f.kind = "observer"
       /\ turn' = turn \ {f.id}
       /\ \/ ~ MayGoOn(f) /\ UNCHANGED <<sched, walk>>
          \/ MayGoOn(f) /\ sched' = sched \ {f} /\ fireSequence(f.next)
  /\ UNCHANGED <<now, panicLatchUntil, sound, armed, playhead, pending, nextId, phase, commands, calm>>

EndTick ==
  /\ phase = "watches" /\ ~ Walking /\ Due = {}
  /\ phase' = "idle"
  /\ turn' = {}
  /\ UNCHANGED <<now, panicLatchUntil, sound, armed, playhead, book, walk, commands, calm>>

Tick == BeginTick \/ RunStart \/ CollectFollows \/ RunFollow \/ EndTick

-----------------------------------------------------------------------------
(* The audio thread ends cues, and time passes.                            *)

EngineEnds == \E c \in Cues :
  /\ isPlaying(c)
  /\ playing' = [playing EXCEPT ![c] = "off"]
  /\ UNCHANGED <<now, panicLatchUntil, waits, armed, playhead, book, walk, tickv, commands, calm>>

Advance ==
  /\ now < MaxTime
  /\ TickTakesTime \/ (phase = "idle" /\ ~ Walking)
  /\ now' = now + 1
  /\ UNCHANGED <<panicLatchUntil, sound, armed, playhead, book, walk, tickv, commands, calm>>

InitWith(rows, row) ==
  /\ now = 0
  /\ panicLatchUntil = 0
  /\ playing = [c \in Cues |-> "off"]
  /\ waits = [c \in Cues |-> 0]
  /\ armed = rows
  /\ playhead = row
  /\ pending = {} /\ sched = {} /\ nextId = 1
  /\ walk = NoWalk
  /\ phase = "idle" /\ turn = {}
  /\ commands = 0
  /\ calm = TRUE

Init == \E rows \in {Cues, Cues \ {Last}} : InitWith(rows, 1)

Next == Operator \/ Walk \/ Tick \/ EngineEnds \/ Advance

Spec == Init /\ [][Next]_vars

(* The 1 ms timer keeps ticking, calls return, cues end, time passes (also *)
(* where a tick is taken for instantaneous: hence strong fairness).        *)
FairSpec == /\ Spec
            /\ WF_vars(Tick) /\ WF_vars(Walk) /\ WF_vars(EngineEnds) /\ SF_vars(Advance)

-----------------------------------------------------------------------------
(* Properties *)

Entry == [id : Nat \ {0}, owner : Cues, kind : {"start", "observer"}, runId : Nat, at : Nat,
          next : {0} \cup Cues, postWaitOwner : {0} \cup Cues, afterStartId : Nat]
WalkState == [i : 1 .. Last + 1, head : Cues, t : Nat, owner : {0} \cup Cues, startId : Nat,
              cleared : BOOLEAN, go : BOOLEAN]

TypeOK ==
  /\ now \in 0 .. MaxTime
  /\ panicLatchUntil \in Nat
  /\ playing \in [Cues -> {"off", "on", "stopping"}]
  /\ waits \in [Cues -> Nat]
  /\ armed \in SUBSET Cues
  /\ playhead \in Cues
  /\ \A p \in pending \cup sched : p \in Entry
  /\ nextId \in Nat \ {0}
  /\ walk = NoWalk \/ walk \in WalkState
  /\ phase \in {"idle", "timed", "watches"}
  /\ turn \subseteq 1 .. nextId
  /\ commands \in 0 .. MaxCommands
  /\ calm \in BOOLEAN

(* A panic, a stop of everything and a reset cancel what is in the book of *)
(* pending entries.  Nothing slips past it: until somebody asks for a      *)
(* start again nothing is on the timeline, no sequence walks on, no wait   *)
(* runs, and every cue that still sounds is on its way out.                *)
StoppedMeansStopped ==
  calm => /\ sched = {} /\ ~ Walking
          /\ \A c \in Cues : playing[c] # "on" /\ waits[c] = 0

(* The steps in which the turn of a scheduled start comes.                 *)
Runs(id) == phase' = "timed" /\ id \in turn /\ id \notin turn'

(* When a scheduled start is cancelled, by whatever means, what hangs off  *)
(* it goes with it: the follow the walk put on for it and the start that   *)
(* waits out its post-wait.                                                *)
NothingHangsOffACancelledStart ==
  [][\A s \in sched \ sched' : s.kind = "start" /\ ~ Runs(s.id) =>
       \A e \in sched' \cap sched : /\ e.kind = "observer" => e.runId # s.id
                                    /\ e.kind = "start" => e.afterStartId # s.id]_vars

(* After the stop of a cue nothing of it is to come: no start, no follow,  *)
(* and no start that waits out its post-wait, whichever run put it on.     *)
StopTakesEverythingOfACue ==
  [][\A c \in Cues : stopCue(c) =>
       \A e \in sched' : e.owner # c /\ e.postWaitOwner # c]_vars

(* A sequence fired again while its first cue is pending has one start of  *)
(* that cue on the timeline, not two: "a pending start is never doubled".  *)
HeadIsNotDoubled ==
  [][\A e \in sched' \ sched : (e.kind = "start" /\ walk.i = walk.head) =>
       \A d \in sched' : d.kind = "start" /\ d.owner = e.owner => d = e]_vars

(* A scheduled start that restarts its cue replaces the other runs of it:  *)
(* their follows, their starts and what hangs off these are gone; and it   *)
(* keeps its own follow, which its walk put on before it fired.            *)
Restarts(s) == /\ s.kind = "start" /\ Runs(s.id) /\ Cue[s.owner].rule = "restart"
               /\ s.owner \in armed /\ ~ isPanicLatched /\ Running(s.owner)
RestartReplacesTheOtherRuns ==
  [][\A s \in sched \ sched' : Restarts(s) =>
       /\ \A f \in sched : f.kind = "observer" /\ f.runId = s.id => f \in sched'
       /\ \A e \in sched' : /\ e.owner = s.owner => e.runId = s.id
                            /\ e.postWaitOwner = s.owner => e.afterStartId = s.id]_vars

(* A cue that fades the others out ends their sequences too: of the other  *)
(* cues nothing is left on the timeline, and no start of its own hangs off *)
(* a cue that was sounding.                                                *)
FadeOutEndsTheOtherSequences ==
  [][\A c \in Cues : (/\ Cue[c].fso
                      /\ \E d \in Cues \ {c} : playing[d] = "on" /\ playing'[d] = "stopping"
                      /\ playing[c] # "on" /\ playing'[c] = "on") =>
       \A e \in sched' \cap sched : /\ e.owner = c
                                    /\ e.postWaitOwner # 0 => playing[e.postWaitOwner] = "off"]_vars

(* "Watches are evaluated after the timed starts, so 'cue A has ended' is  *)
(* not mistaken for 'A never started'": the follow put on for a scheduled  *)
(* start does not run while that start is still to come.                   *)
FollowWaitsForItsCue ==
  [][\A f \in sched \ sched' : (f.kind = "observer" /\ phase = "watches" /\ ~ Walking /\ Walking') =>
       f.runId \notin IdsOf(sched)]_vars

(* "Two follows = two starts": at most one follow of a cue belongs to runs *)
(* of it that have begun, so that its end starts the next cue once.        *)
OneFollowPerCue ==
  \A f, g \in sched : (/\ f.kind = "observer" /\ g.kind = "observer"
                       /\ f.owner = g.owner
                       /\ {f.runId, g.runId} \cap IdsOf(sched) = {}) => f = g

(* When the cue in front of an auto-follow is over the sequence goes on:   *)
(* no follow is left on the timeline for good, unless it or the wait it    *)
(* waits for reaches past the end of the clock.                            *)
EndedCuesAreFollowed ==
  []<>(\A f \in sched : f.kind = "observer" => f.at > MaxTime \/ waits[f.owner] > MaxTime)
=============================================================================
