------------------------------ MODULE Playlist ------------------------------
(***************************************************************************)
(* A playlist group of the cue player (PlaylistRun and its methods in      *)
(* src/app/CueController.cpp): the group starts its children one after     *)
(* another, while the operator fires, stops and disarms the same children. *)
(*                                                                         *)
(* The rows of the group are the cues of CueController, which is extended: *)
(* the walks, ticks and stops of the children are its actions.  The group  *)
(* has a row of its own, G, with no pre-wait and no follow.  Children      *)
(* neither fade the others out nor control the group they are in.          *)
(***************************************************************************)
EXTENDS CueController

CONSTANTS
  Groups,      \* the settings checked: [loop, shuffle, crossfade, rule]
  MaxEntries   \* bound: a step whose entries would not fit is not served

VARIABLES
  group,       \* the group's settings
  run,         \* the group's PlaylistRun, or NoRun
  own,         \* history: children the list started last, not the operator,
               \*          and has not begun to fade for the next one
  refused      \* history: a child did not start when the list last moved

list == <<group, run, own, refused>>
everything == <<vars, list>>

ASSUME GroupsAssumption ==
  Groups \subseteq [loop : BOOLEAN, shuffle : BOOLEAN, crossfade : BOOLEAN, rule : Rules]
ASSUME ChildrenAssumption == \A c \in Cues : ~ Cue[c].fso

G == Last + 1
NoRun == [pos |-> 0]
NewRun(order) == [order |-> order, pos |-> 1, current |-> 0, startId |-> 0, failures |-> 0]

Orders == IF group.shuffle THEN {o \in [Cues -> Cues] : \A i, j \in Cues : o[i] = o[j] => i = j}
                           ELSE {[i \in Cues |-> i]}

(* The entries of the list: the watch on its child, which says with what   *)
(* pre-wait the next one comes, and the fade-out of a child that a         *)
(* crossfade has put off by that pre-wait.                                 *)
Step(id, c, at, pre) == [id |-> id, owner |-> G, kind |-> "step", runId |-> 0, at |-> at, next |-> c,
                         postWaitOwner |-> 0, afterStartId |-> 0, pre |-> pre]
FadeOut(id, c, at)   == [id |-> id, owner |-> G, kind |-> "fade", runId |-> 0, at |-> at, next |-> c,
                         postWaitOwner |-> 0, afterStartId |-> 0]

-----------------------------------------------------------------------------
(* What the methods of the list do to the book, the timeline, the sound    *)
(* and the run: functions on one record.                                   *)

Here == [P |-> pending, S |-> sched, n |-> nextId, playing |-> playing, waits |-> waits,
         run |-> run, own |-> own, refused |-> FALSE]
Becomes(s) ==
  /\ pending' = s.P /\ sched' = s.S /\ nextId' = s.n
  /\ playing' = s.playing /\ waits' = s.waits
  /\ run' = s.run /\ own' = s.own /\ refused' = s.refused

Without(s, X) == [s EXCEPT !.P = @ \ X, !.S = @ \ X]
With(s, e) == [s EXCEPT !.P = Track(@, IdsOf(s.S), e), !.S = @ \cup {e}, !.n = @ + 1]
Forget(s, c) == Without(s, cancelPendingFor(s.P, IdsOf(s.S), c, FALSE, 0))
Silence(s, c) == [s EXCEPT !.playing[c] = IF @ = "on" THEN "stopping" ELSE @]
Active(s, c) == s.playing[c] # "off" \/ now < s.waits[c]

(* startById() of a child, in a state s.                                   *)
Starts(s, c) ==
  [s EXCEPT !.playing[c] = IF Cue[c].kind = "audio" THEN "on" ELSE @,
            !.waits[c] = IF Cue[c].kind = "wait" THEN now + Cue[c].secs ELSE @,
            !.own = @ \cup {c}]
TryChild(s, c) ==
  LET restart == Active(s, c) /\ Cue[c].rule = "restart"
      cleared == IF restart THEN Forget(s, c) ELSE s
      stopped == Silence([Forget(s, c) EXCEPT !.waits[c] = 0], c)
      fails   == MayFail /\ Cue[c].kind = "audio"
  IN  IF isPanicLatched \/ c \notin armed THEN {[ok |-> FALSE, s |-> s]}
      ELSE IF Active(s, c) /\ ~ restart
           THEN {[ok |-> TRUE, s |-> IF Cue[c].rule = "nothing" THEN s ELSE stopped]}
      ELSE {[ok |-> TRUE, s |-> Starts(cleared, c)]}
             \cup (IF fails THEN {[ok |-> FALSE, s |-> cleared]} ELSE {})

(* scheduleStart() of the list's child, and the watch on it.               *)
NextPreWait(r) ==
  IF r.pos < Last THEN Cue[r.order[r.pos + 1]].pre
  ELSE IF group.loop THEN Cue[r.order[1]].pre ELSE 0
Watched(s, c, startAt, id) ==
  With([s EXCEPT !.run.failures = 0, !.run.startId = id], Step(s.n, c, startAt, NextPreWait(s.run)))
StartChild(s, c) ==
  LET startAt == now + Cue[c].pre
  IN  IF startAt > now
      THEN {[ok |-> TRUE, s |-> Watched(With(s, Start(s.n, c, startAt, 0, 0)), c, startAt, s.n)]}
      ELSE {IF try.ok THEN [try EXCEPT !.s = Watched(@, c, startAt, 0)] ELSE try : try \in TryChild(s, c)}

(* The order of a new round.  Of a shuffled one the child that played last *)
(* is not the first that can play, if there is another.  The slip shuffles *)
(* and no more.                                                            *)
Playable(o) == o[Min({i \in Cues : o[i] \in armed})]
RoundAsItComes(r) == Orders
Round(r) == {o \in Orders : Cardinality(armed) > 1 /\ group.shuffle => Playable(o) # r.current}

(* playlistStep(): on to the first child that starts; the list ends when   *)
(* there is none, or none can start.  A pass of its loop leaves it, or goes *)
(* on to the next child.  The slip lets the list count as running.         *)
KeepsTheRun(s) == s
End(s) == [s EXCEPT !.run = NoRun]
Leave(s) == [left |-> TRUE, s |-> s]
GoOnWith(s) == [left |-> FALSE, s |-> [s EXCEPT !.run.pos = @ + 1]]

Refused(s) ==
  IF s.run.failures + 1 >= Last THEN Leave(End([s EXCEPT !.refused = TRUE]))
  ELSE GoOnWith([s EXCEPT !.run.failures = @ + 1, !.refused = TRUE])
TryHere(s) ==
  LET c == s.run.order[s.run.pos]
  IN  IF c \notin armed THEN {GoOnWith(s)}
      ELSE {IF try.ok THEN Leave(try.s) ELSE Refused(try.s) : try \in StartChild([s EXCEPT !.run.current = c], c)}
Pass(s) ==
  IF s.run.pos <= Last THEN TryHere(s)
  ELSE IF group.loop THEN UNION {TryHere([s EXCEPT !.run.order = o, !.run.pos = 1]) : o \in Round(s.run)}
  ELSE {Leave(End(s))}
playlistStep(s) ==
  LET after[n \in 0 .. Last + 1] ==
        IF n = 0 THEN {[left |-> FALSE, s |-> s]}
        ELSE UNION {IF p.left THEN {p} ELSE Pass(p.s) : p \in after[n - 1]}
  IN  {IF p.left THEN p.s ELSE End(p.s) : p \in after[Last + 1]}

(* startGroup() of a playlist. *)
startGroup(s) == UNION {playlistStep([s EXCEPT !.run = NewRun(o)]) : o \in Orders}

(* What the group itself has pending: the watch, the fade-out.  The slip   *)
(* leaves the watch.                                                       *)
KeepsTheStep(s) == {p \in s.P : p.kind = "fade"}
OfTheGroup(s) == {p \in s.P : p.owner = G}

stopGroup(s) ==
  [Without(s, OfTheGroup(s) \cup UNION {cancelPendingFor(s.P, IdsOf(s.S), c, FALSE, 0) : c \in Cues})
     EXCEPT !.run = NoRun,
            !.waits = [c \in Cues |-> 0],
            !.playing = [c \in Cues |-> IF s.playing[c] = "on" THEN "stopping" ELSE s.playing[c]]]

(* playlistSkip() to the next child. *)
Quiet(s, c) == Silence([Forget(s, c) EXCEPT !.waits[c] = IF s.playing[c] # "off" THEN @ ELSE 0], c)
playlistSkip(s) ==
  playlistStep([Quiet(Without(s, OfTheGroup(s)), s.run.current) EXCEPT !.run.pos = @ + 1])

isGroupActive ==
  \/ run # NoRun
  \/ \E p \in pending : p.id \in IdsOf(sched)
  \/ \E c \in Cues : isCueActive(c)

-----------------------------------------------------------------------------
(* What the operator does to the group.                                    *)

Same == UNCHANGED <<now, panicLatchUntil, armed, playhead, walk, tickv, group>>

(* A GO or a hotkey on the group.                                          *)
GoOnGroup ==
  /\ Command /\ ~ isPanicLatched /\ nextId < MaxEntries
  /\ \/ run # NoRun /\ \E s \in playlistSkip(Here) : Becomes(s)
     \/ run = NoRun /\ ~ isGroupActive /\ \E s \in startGroup(Here) : Becomes(s)
     \/ /\ run = NoRun /\ isGroupActive
        /\ \/ group.rule = "nothing" /\ Becomes(Here)
           \/ group.rule = "stop" /\ Becomes(stopGroup(Here))
           \/ group.rule = "restart" /\ \E s \in startGroup(stopGroup(Here)) : Becomes(s)
  /\ calm' = FALSE
  /\ Same

StopGroup == Command /\ Becomes(stopGroup(Here)) /\ calm' = TRUE /\ Same

(* cancelWait(): the card of a start, of a post-wait or of a wait is       *)
(* clicked away.  The start the list itself has put on stops the list.     *)
CancelStartCard == \E p \in pending :
  /\ Command /\ p.kind = "start" /\ p.id \in IdsOf(sched)
  /\ IF run # NoRun /\ run.current = p.owner /\ run.startId = p.id THEN Becomes(stopGroup(Here))
     ELSE Becomes(Without(Here, WithItsChain(pending, IdsOf(sched), {p})))
  /\ UNCHANGED calm /\ Same

CancelWaitCard == \E c \in Cues :
  /\ Command /\ now < waits[c]
  /\ IF run # NoRun /\ run.current = c THEN Becomes(stopGroup(Here)) ELSE Becomes(Quiet(Here, c))
  /\ UNCHANGED calm /\ Same

(* What the operator does to a child goes past the list.                   *)
FireChild == Hotkey /\ UNCHANGED list
StopChild == ((\E c \in Cues : stopCue(c)) \/ cancelScheduledStart \/ Arm) /\ UNCHANGED list
StopAll == (panicAll \/ hardStopAll \/ resetAll) /\ run' = NoRun /\ UNCHANGED <<group, own, refused>>

(* A child the operator starts is not the list's any more.                 *)
WalkOn ==
  /\ Walk
  /\ IF AtACue /\ (playing' # playing \/ Cue[walk.i].rule = "restart")
     THEN own' = own \ {walk.i} ELSE UNCHANGED own
  /\ UNCHANGED <<group, run, refused>>

-----------------------------------------------------------------------------
(* The tick, with the list's entries in it.                                *)

TickBegins ==
  /\ phase = "idle" /\ ~ Walking
  /\ phase' = "timed"
  /\ turn' = IdsOf({e \in sched : e.kind \in {"start", "fade"} /\ e.at <= now})
  /\ UNCHANGED <<now, panicLatchUntil, sound, armed, playhead, book, walk, commands, calm, list>>

TickStarts == \E e \in Due :
  /\ RunStart /\ turn' = turn \ {e.id}
  /\ own' = IF run # NoRun /\ run.startId = e.id THEN own \cup {e.owner} ELSE own \ {e.owner}
  /\ UNCHANGED <<group, run, refused>>

TickFades == \E e \in Due :
  /\ phase = "timed" /\ ~ Walking /\ e.kind = "fade"
  /\ \A f \in Due \ {e} : Before(e, f)
  /\ turn' = turn \ {e.id}
  /\ sched' = sched \ {e}
  /\ playing' = StopSound(e.next)
  /\ UNCHANGED <<now, panicLatchUntil, waits, armed, playhead, pending, nextId, walk, phase, commands, calm, list>>

Steps == {e \in sched : e.kind = "step"}

(* The condition of the list's watch: its child is over, or so near to its *)
(* end that the crossfade begins (how near is the engine's affair).  The   *)
(* slip knows only of the crossfade.                                       *)
NearItsEnd(f) == {FALSE} \cup (IF group.crossfade /\ isPlaying(f.next) THEN {TRUE} ELSE {})
MayStep(f) ==
  IF now < f.at THEN {FALSE}
  ELSE {~ isCueActive(f.next)} \cup (IF group.crossfade /\ isPlaying(f.next) THEN {TRUE} ELSE {})
Fits == nextId + 3 <= MaxEntries

TickCollects ==
  /\ phase = "timed" /\ ~ Walking /\ Due = {}
  /\ phase' = "watches"
  /\ \E ready \in SUBSET Steps :
       /\ \A f \in Steps : f \in ready \/ ~ Fits \/ FALSE \in MayStep(f)
       /\ \A f \in ready : Fits /\ TRUE \in MayStep(f)
       /\ turn' = IdsOf(ready \cup {e \in sched : e.kind = "observer" /\ MayGoOn(e)})
  /\ UNCHANGED <<now, panicLatchUntil, sound, armed, playhead, book, walk, commands, calm, list>>

TickFollows == RunFollow /\ UNCHANGED list

(* The action of the list's watch.  The slip lets the child play on.       *)
CrossesLater(s, f) == s
CrossFade(s, f) ==
  IF ~ (group.crossfade /\ isPlaying(f.next)) THEN s
  ELSE IF f.pre = 0 THEN Silence(s, f.next)
  ELSE With([s EXCEPT !.own = @ \ {f.next}], FadeOut(s.n, f.next, now + f.pre))

TickSteps == \E f \in Due :
  /\ phase = "watches" /\ ~ Walking /\ f.kind = "step"
  /\ turn' = turn \ {f.id}
  /\ \/ FALSE \in MayStep(f) /\ Becomes(Here)
     \/ /\ TRUE \in MayStep(f)
        /\ LET s == CrossFade([Here EXCEPT !.S = @ \ {f}], f)
           IN  IF run = NoRun THEN Becomes(s)
               ELSE \E t \in playlistStep([s EXCEPT !.run.pos = @ + 1]) : Becomes(t)
  /\ UNCHANGED <<now, panicLatchUntil, armed, playhead, walk, phase, commands, calm, group>>

TickEnds == EndTick /\ UNCHANGED list

ListTick == TickBegins \/ TickStarts \/ TickFades \/ TickCollects \/ TickFollows \/ TickSteps \/ TickEnds

-----------------------------------------------------------------------------

ListInit ==
  /\ Init
  /\ group \in Groups
  /\ run = NoRun /\ own = {} /\ refused = FALSE

ListNext ==
  \/ GoOnGroup \/ StopGroup \/ CancelStartCard \/ CancelWaitCard \/ FireChild \/ StopChild \/ StopAll
  \/ WalkOn \/ ListTick
  \/ (EngineEnds \/ Advance) /\ UNCHANGED list

ListSpec == ListInit /\ [][ListNext]_everything
FairListSpec ==
  /\ ListSpec
  /\ WF_everything(ListTick) /\ WF_everything(WalkOn)
  /\ WF_everything(EngineEnds /\ UNCHANGED list) /\ SF_everything(Advance /\ UNCHANGED list)

-----------------------------------------------------------------------------
(* Properties *)

(* "Do not install a second watch (it would start the next child while the *)
(* current one plays)", and never none, or the list counts as running for  *)
(* ever: a running list stands at a child of its order and has one watch,  *)
(* on that child; a list that is over has none.                            *)
OneWatchPerList ==
  /\ run = NoRun => Steps = {}
  /\ run # NoRun => /\ run.pos \in Cues /\ run.order[run.pos] = run.current
                    /\ Cardinality(Steps) = 1 /\ \A e \in Steps : e.next = run.current

(* The children of a playlist come one after another: whatever the operator *)
(* skips, stops or starts himself, of the children the list has started at *)
(* most one is at full level (the others fade, or are in a crossfade that  *)
(* waits for the next one's pre-wait).                                     *)
OneChildAtATime == Cardinality({c \in own : playing[c] = "on"}) <= 1

(* "The new round must not open with the song that just ended": a shuffled *)
(* list that goes on by itself plays no child twice in a row, if another   *)
(* one is armed and starts.                                                *)
NotTwiceInARow ==
  [][(TickSteps /\ run # NoRun /\ run' # NoRun /\ Steps' # Steps /\ group.shuffle) =>
       run'.current # run.current \/ refused' \/ Cardinality(armed) = 1]_everything

(* Neither the list nor a sequence of its children stands still: no watch  *)
(* and no follow is left on the timeline for good, unless its child, or    *)
(* the wait it is, reaches past the end of the clock, or the next step     *)
(* would not fit.                                                          *)
ListGoesOn ==
  /\ []<>(\A e \in Steps : ~ Fits \/ e.at > MaxTime \/ waits[e.next] > MaxTime)
  /\ EndedCuesAreFollowed
=============================================================================
