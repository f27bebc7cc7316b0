----------------------------- MODULE Scheduler ------------------------------
(***************************************************************************)
(* gocue::Scheduler (src/app/Scheduler.h, src/app/Scheduler.cpp): the      *)
(* message-thread timeline of the cue player.  Timed entries run when      *)
(* their time has come, watches run on the first tick that finds their     *)
(* condition true.  Actions that a tick runs call back into the scheduler: *)
(* they schedule, watch, cancel, cancel everything, or tick again.         *)
(*                                                                         *)
(* One step of the model is a stretch of code between two points where     *)
(* other code can run: a call made by the message thread (outside a tick   *)
(* or from an action a tick is running), one iteration of a loop of        *)
(* tick(), the return of an action, a step of the clock, or a condition    *)
(* changed by the audio engine.                                            *)
(***************************************************************************)
EXTENDS Naturals

CONSTANTS
  Conds,       \* conditions a watch can be given
  NoCond,      \* the empty std::function: marks a timed entry
  MaxEntries,  \* bound: schedule() and watch() calls
  MaxTime,     \* bound: the clock and the times asked for
  MaxFlips     \* bound: changes of a condition by the audio engine

ASSUME NoCondAssumption == NoCond \notin Conds
ASSUME BoundsAssumption == MaxEntries \in Nat /\ MaxTime \in Nat /\ MaxFlips \in Nat

VARIABLES
  now,                   \* what clock() returns
  holds,                 \* the conditions that return true
  flips,                 \* changes of conditions so far (MaxFlips)
  entries,               \* the vector: pos is the place of an element in it
  pushes,                \* push_backs so far, the pos of the latest element
  nextId,
  inFlight,
  cancelledDuringTick,
  inTick,
  cancelAllDuringTick,
  phase,                 \* where tick() is: "idle", "timed" or "watches"
  due,                   \* tick()'s local vector: the elements not visited yet
  running,               \* the id of the action being executed, 0 when none
  asked,                 \* history: what was asked for, by id
  ran,                   \* history: the ids whose action was called
  cancelled              \* history: the ids that cancel and cancelAll found pending

env   == <<now, holds, flips>>
lists == <<entries, pushes, inFlight>>
tickv == <<cancelledDuringTick, inTick, cancelAllDuringTick, phase, due>>
hist  == <<asked, ran, cancelled>>
vars  == <<env, lists, nextId, tickv, running, hist>>

Ids   == 1 .. MaxEntries
Entry == [id : Ids, at : 0 .. MaxTime, cond : Conds \cup {NoCond}, pos : Nat]
IdsOf(S)   == {e.id : e \in S}
IsWatch(e) == e.cond # NoCond

(* The first id given out; 0 is "no entry" to the callers. *)
FirstIdZero == 0
FirstId == 1

isPending(i) == i \in inFlight \/ i \in IdsOf(entries)

Init ==
  /\ now = 0
  /\ holds \in SUBSET Conds
  /\ flips = 0
  /\ entries = {}
  /\ pushes = 0
  /\ nextId = FirstId
  /\ inFlight = {}
  /\ cancelledDuringTick = {}
  /\ inTick = FALSE
  /\ cancelAllDuringTick = FALSE
  /\ phase = "idle"
  /\ due = {}
  /\ running = 0
  /\ asked = << >>
  /\ ran = {}
  /\ cancelled = {}

-----------------------------------------------------------------------------
(* Calls of the message thread: from outside a tick, or from an action. *)

CallerFree == phase = "idle" \/ running # 0

(* push_back of a new element with the next id. *)
AddEntry(at, cond) ==
  /\ nextId <= MaxEntries
  /\ entries' = entries \cup {[id |-> nextId, at |-> at, cond |-> cond, pos |-> pushes + 1]}
  /\ pushes' = pushes + 1
  /\ nextId' = nextId + 1
  /\ asked' = [i \in 1 .. nextId |-> IF i = nextId THEN [at |-> at, cond |-> cond]
                                                  ELSE asked[i]]
  /\ UNCHANGED <<env, inFlight, tickv, running, ran, cancelled>>

Schedule == CallerFree /\ \E t \in 0 .. MaxTime : AddEntry(t, NoCond)

Watch == CallerFree /\ \E c \in Conds : AddEntry(0, c)

(* Ids cancelled while a tick runs: its loops skip them.  The slip leaves  *)
(* the due list of the running tick alone.                                *)
MarkNothing(S) == cancelledDuringTick
MarkCancelled(S) == IF inTick THEN cancelledDuringTick \cup S ELSE cancelledDuringTick

Cancel == \E i \in 1 .. nextId - 1 :
  /\ CallerFree
  /\ entries' = {e \in entries : e.id # i}
  /\ inFlight' = inFlight \ {i}
  /\ cancelledDuringTick' = MarkCancelled({i})
  /\ cancelled' = cancelled \cup {j \in {i} : isPending(j)}
  /\ UNCHANGED <<env, pushes, nextId, inTick, cancelAllDuringTick, phase, due, running, asked, ran>>

CancelAll ==
  /\ CallerFree
  /\ cancelledDuringTick' = MarkCancelled(IdsOf(entries))
  /\ cancelAllDuringTick' = (inTick \/ cancelAllDuringTick)
  /\ entries' = {}
  /\ inFlight' = {}
  /\ cancelled' = cancelled \cup {j \in 1 .. nextId - 1 : isPending(j)}
  /\ UNCHANGED <<env, pushes, nextId, inTick, phase, due, running, asked, ran>>

-----------------------------------------------------------------------------
(* tick() *)

(* Timed entries whose time has come; the slip misses the ones due now. *)
DueBeforeNow == {e \in entries : ~ IsWatch(e) /\ e.at < now}
DueTimed     == {e \in entries : ~ IsWatch(e) /\ e.at <= now}

(* The extraction of the due timed entries.  A tick from inside an action *)
(* finds inTick set and returns: it has no step.                          *)
BeginTick ==
  /\ CallerFree
  /\ ~ inTick
  /\ due' = DueTimed
  /\ entries' = entries \ DueTimed
  /\ inFlight' = inFlight \cup IdsOf(DueTimed)
  /\ inTick' = TRUE
  /\ cancelledDuringTick' = {}
  /\ cancelAllDuringTick' = FALSE
  /\ phase' = "timed"
  /\ UNCHANGED <<env, pushes, nextId, running, hist>>

(* stable_sort by time; extraction keeps the order of the vector for ties. *)
(* The slip is no sort at all: the order of the requests.                  *)
VectorOrder(e, f) == e.pos < f.pos
TimedBefore(e, f) == e.at < f.at \/ (e.at = f.at /\ e.pos < f.pos)
WatchBefore(e, f) == e.pos < f.pos

Call(e) == /\ running' = e.id
           /\ ran' = ran \cup {e.id}

(* One iteration of the loop over the due timed entries. *)
NextTimed ==
  /\ phase = "timed" /\ running = 0
  /\ \E e \in due :
       /\ \A f \in due \ {e} : TimedBefore(e, f)
       /\ inFlight' = inFlight \ {e.id}
       /\ \/ /\ cancelAllDuringTick
             /\ due' = {}
             /\ UNCHANGED <<running, ran>>
          \/ /\ ~ cancelAllDuringTick
             /\ e.id \in cancelledDuringTick
             /\ due' = due \ {e}
             /\ UNCHANGED <<running, ran>>
          \/ /\ ~ cancelAllDuringTick
             /\ e.id \notin cancelledDuringTick
             /\ due' = due \ {e}
             /\ Call(e)
  /\ UNCHANGED <<env, entries, pushes, nextId, cancelledDuringTick, inTick,
                 cancelAllDuringTick, phase, asked, cancelled>>

(* The watches whose condition holds after the timed actions ran; the slip *)
(* negates the test.                                                       *)
FalseWatches == {e \in entries : IsWatch(e) /\ e.cond \notin holds}
TrueWatches  == {e \in entries : IsWatch(e) /\ e.cond \in holds}
CollectWatches ==
  /\ phase = "timed" /\ running = 0 /\ due = {}
  /\ ~ cancelAllDuringTick
  /\ due' = TrueWatches
  /\ entries' = entries \ TrueWatches
  /\ inFlight' = IdsOf(TrueWatches)
  /\ phase' = "watches"
  /\ UNCHANGED <<env, pushes, nextId, cancelledDuringTick, inTick,
                 cancelAllDuringTick, running, hist>>

(* A watch whose condition no longer holds goes back to the end of the    *)
(* vector; the slip forgets it.                                           *)
Forgotten(e) == UNCHANGED <<entries, pushes>>
GoesBack(e) == /\ pushes' = pushes + 1
               /\ entries' = entries \cup {[e EXCEPT !.pos = pushes + 1]}

(* One iteration of the loop over the watches: the rest is dropped, this  *)
(* one is dropped, goes back, or runs.                                    *)
NextWatch ==
  /\ phase = "watches" /\ running = 0
  /\ \E e \in due :
       /\ \A f \in due \ {e} : WatchBefore(e, f)
       /\ \/ /\ cancelAllDuringTick
             /\ due' = {}
             /\ UNCHANGED <<lists, running, ran>>
          \/ /\ ~ cancelAllDuringTick
             /\ due' = due \ {e}
             /\ inFlight' = inFlight \ {e.id}
             /\ \/ /\ e.id \in cancelledDuringTick
                   /\ UNCHANGED <<entries, pushes, running, ran>>
                \/ /\ e.id \notin cancelledDuringTick
                   /\ e.cond \notin holds
                   /\ GoesBack(e)
                   /\ UNCHANGED <<running, ran>>
                \/ /\ e.id \notin cancelledDuringTick
                   /\ e.cond \in holds
                   /\ Call(e)
                   /\ UNCHANGED <<entries, pushes>>
  /\ UNCHANGED <<env, nextId, cancelledDuringTick, inTick, cancelAllDuringTick,
                 phase, asked, cancelled>>

EndTick ==
  /\ \/ phase = "timed" /\ cancelAllDuringTick
     \/ phase = "watches"
  /\ running = 0 /\ due = {}
  /\ inFlight' = {}
  /\ inTick' = FALSE
  /\ cancelledDuringTick' = {}
  /\ cancelAllDuringTick' = FALSE
  /\ phase' = "idle"
  /\ UNCHANGED <<env, entries, pushes, nextId, due, running, hist>>

(* The action of an entry returns to the loop that called it. *)
ActionReturns ==
  /\ running # 0
  /\ running' = 0
  /\ UNCHANGED <<env, lists, nextId, tickv, hist>>

-----------------------------------------------------------------------------
(* The clock and the audio engine move on their own. *)

Advance ==
  /\ now < MaxTime
  /\ now' = now + 1
  /\ UNCHANGED <<holds, flips, lists, nextId, tickv, running, hist>>

Flip == \E c \in Conds :
  /\ flips < MaxFlips
  /\ flips' = flips + 1
  /\ holds' = IF c \in holds THEN holds \ {c} ELSE holds \cup {c}
  /\ UNCHANGED <<now, lists, nextId, tickv, running, hist>>

Calls == Schedule \/ Watch \/ Cancel \/ CancelAll
Tick  == BeginTick \/ NextTimed \/ CollectWatches \/ NextWatch \/ EndTick
Next  == Calls \/ Tick \/ ActionReturns \/ Advance \/ Flip

Spec == Init /\ [][Next]_vars

(* The 1 ms timer keeps ticking, loops go on, actions return, time passes. *)
Fairness == /\ WF_vars(Tick)
            /\ WF_vars(ActionReturns)
            /\ WF_vars(Advance)

FairSpec == Spec /\ Fairness

-----------------------------------------------------------------------------
(* Properties *)

TypeOK ==
  /\ now \in 0 .. MaxTime
  /\ holds \in SUBSET Conds
  /\ flips \in 0 .. MaxFlips
  /\ entries \in SUBSET Entry
  /\ pushes \in Nat
  /\ nextId \in 1 .. MaxEntries + 1
  /\ inFlight \in SUBSET Ids
  /\ cancelledDuringTick \in SUBSET Ids
  /\ inTick \in BOOLEAN
  /\ cancelAllDuringTick \in BOOLEAN
  /\ phase \in {"idle", "timed", "watches"}
  /\ due \in SUBSET Entry
  /\ running \in 0 .. MaxEntries
  /\ asked \in [1 .. nextId - 1 -> [at : 0 .. MaxTime, cond : Conds \cup {NoCond}]]
  /\ ran \in SUBSET Ids
  /\ cancelled \in SUBSET Ids

(* isPending() tells the truth in the middle of a tick: an entry the      *)
(* running tick has taken out of the list is pending exactly as long as   *)
(* this tick can still call it or put it back.                            *)
InFlightIsWhatTheTickWillVisit ==
  inFlight = IF cancelAllDuringTick THEN {} ELSE IdsOf(due) \ cancelledDuringTick

(* What the steps of a tick keep true, and the properties rest on.  An    *)
(* element is in one place; an id names one element, which is what was    *)
(* asked for; the ids that ran are gone from both lists, and what was     *)
(* cancelled in this tick is gone from the vector; the timed elements lie *)
(* in the vector in the order they were asked for.                       *)
Elements == entries \cup due
PhaseInv ==
  /\ inTick = (phase # "idle")
  /\ phase = "idle" => due = {} /\ ~ cancelAllDuringTick /\ running = 0
  /\ \A e \in due : IF IsWatch(e) THEN phase = "watches"
                                  ELSE phase = "timed" /\ e.at <= now
ElementsInv ==
  /\ IdsOf(entries) \cap IdsOf(due) = {}
  /\ \A e, f \in Elements : e.id = f.id => e = f
  /\ \A e \in Elements : /\ e.id < nextId
                          /\ e.id \notin ran
                          /\ asked[e.id] = [at |-> e.at, cond |-> e.cond]
  /\ ran \subseteq 1 .. nextId - 1
CancelledInv ==
  /\ cancelledDuringTick \subseteq 1 .. nextId - 1
  /\ cancelledDuringTick \cap IdsOf(entries) = {}
OrderInv ==
  /\ \A e \in Elements : e.pos <= pushes
  /\ \A e, f \in Elements :
        ~ IsWatch(e) /\ ~ IsWatch(f) /\ e.id < f.id => e.pos < f.pos
IInv == /\ TypeOK /\ PhaseInv /\ ElementsInv /\ CancelledInv /\ OrderInv
        /\ InFlightIsWhatTheTickWillVisit

(* Each tick serves the entries that were due when it began in the order  *)
(* of their times, requests for the same time in the order they were made,*)
(* and no watch before the last of them: whatever runs, nothing that is   *)
(* pending in this tick should have run before it.                        *)
TimeOrder ==
  \A i \in Ids : (running' = i /\ running # i) =>
    \A j \in inFlight \ {i} :
      IF asked[i].cond = NoCond
      THEN /\ asked[j].cond = NoCond
           /\ \/ asked[i].at < asked[j].at
              \/ asked[i].at = asked[j].at /\ i < j
      ELSE asked[j].cond # NoCond
TickRunsInTimeOrder == [][TimeOrder]_vars

(* What a caller sees of the tick's machinery. *)
statusBar == [i \in 1 .. nextId - 1 |->
                IF isPending(i) THEN "pending"
                ELSE IF i \in ran THEN "ran" ELSE "withdrawn"]

(* The scheduler keeps the promise of Timeline: an entry stays pending    *)
(* until it is run or a call cancels it; it is never lost, run twice, run *)
(* after it was cancelled, early, or inside another's action.             *)
TL == INSTANCE Timeline WITH Times <- 0 .. MaxTime, status <- statusBar
KeepsThePromise == TL!Spec

(* No request is forgotten: a timed entry is run or cancelled in the end. *)
TimedIsServed == \A i \in Ids :
  (i \in DOMAIN asked /\ asked[i].cond = NoCond) ~> i \in ran \cup cancelled

(* A watch whose condition stays true is run or cancelled in the end.     *)
WatchIsServed == \A i \in Ids :
  (i \in DOMAIN asked /\ asked[i].cond # NoCond) ~>
     (i \in ran \cup cancelled \/ (i \in DOMAIN asked /\ asked[i].cond \notin holds))

(* Nothing asked of the scheduler is forgotten.                            *)
EveryEntryIsServed == TimedIsServed /\ WatchIsServed
=============================================================================
