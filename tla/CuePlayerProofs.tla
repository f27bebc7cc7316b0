-------------------------- MODULE CuePlayerProofs --------------------------
(***************************************************************************)
(* What holds of the cue player for every list of cues, all settings and   *)
(* every length of time: first of what cancelling leaves behind (the       *)
(* theorems about Spec of CueController), then of a playlist that runs in  *)
(* it (those about ListSpec of Playlist), which lean on the same lemmas.   *)
(*                                                                         *)
(* Two invariants carry the theorems.  Inv is the one the code relies on   *)
(* when it cancels what is in its book: whatever is on the timeline is in  *)
(* the book.  StepInv adds what an entry is (a start, an observer or the   *)
(* end of a post-wait, with the ids it hangs on), that ids are not used    *)
(* twice, and where a walk stands.  The sets the cancelling methods take   *)
(* are shown to be Closed: with a start they hold all that hangs off it,   *)
(* however long the chain of starts behind it, which is an induction over  *)
(* the function cancelChainBehind is (Inductions).                         *)
(***************************************************************************)
EXTENDS Playlist, Inductions, SequenceTheorems, TLAPS

IsMap(f) == f = [c \in Cues |-> f[c]]

Inv == /\ IsMap(playing) /\ IsMap(waits)
       /\ sched \subseteq pending
       /\ StoppedMeansStopped

(* Starting a cue touches what plays and what waits cue by cue.            *)
LEMMA TriggerMaps ==
  ASSUME IsMap(playing), IsMap(waits), NEW c, NEW L, NEW firing,
         NEW o \in Trigger(c, L, firing)
  PROVE  IsMap(o.playing) /\ IsMap(o.waits)
<1> DEFINE p1 == [playing EXCEPT ![c] = "on"]
           p2 == StopSound(c)
           w1 == [waits EXCEPT ![c] = now + Cue[c].secs]
           w2 == [waits EXCEPT ![c] = 0]
<1>1. IsMap(p1) /\ IsMap(p2) /\ IsMap(w1) /\ IsMap(w2)
  BY DEF IsMap, StopSound
<1>2. o.playing \in {playing, p1, p2} /\ o.waits \in {waits, w1, w2}
  <2>1. \A r, t, p, w : Outcome(r, t, p, w).playing = p /\ Outcome(r, t, p, w).waits = w
    BY DEF Outcome
  <2>2. \E r, t : \E p \in {playing, p1, p2}, w \in {waits, w1, w2} : o = Outcome(r, t, p, w)
    <3>1. CASE isPanicLatched \/ c \notin armed
      BY <3>1, Zenon DEF Trigger
    <3>2. CASE o = Answer(c, L)
      BY <3>2 DEF Answer
    <3>3. CASE \E S : o \in StartNow(c, S)
      BY <3>3 DEF StartNow
    <3> QED
      BY <3>1, <3>2, <3>3 DEF Trigger
  <2> QED
    BY <2>1, <2>2
<1> QED
  BY <1>1, <1>2 DEF IsMap

LEMMA StartMaps ==
  ASSUME IsMap(playing), IsMap(waits), NEW c, NEW L, NEW firing,
         NEW o \in StartById(c, L, firing)
  PROVE  IsMap(o.playing) /\ IsMap(o.waits)
<1>1. PICK q \in Trigger(c, L, firing) :
        o = IF q.res = "started" /\ Cue[c].fso
            THEN [q EXCEPT !.takes   = @ \cup fadeStopOthersTakes(pending \ q.takes, L, c),
                  !.playing = [d \in Cues |-> IF d # c /\ @[d] = "on" THEN "stopping" ELSE @[d]],
                  !.waits   = [d \in Cues |-> IF d = c THEN @[d] ELSE 0]]
            ELSE q
  BY DEF StartById
<1>2. IsMap(q.playing) /\ IsMap(q.waits)
  BY TriggerMaps
<1>3. \E r, t, p, w : q = Outcome(r, t, p, w)
  BY DEF Trigger, Answer, StartNow
<1>4. QED
  BY <1>1, <1>2, <1>3 DEF IsMap, Outcome

(* A sweep of the book loses nothing the timeline has.                     *)
LEMMA TrackKeeps ==
  ASSUME NEW P, NEW S \in SUBSET P, NEW f
  PROVE  S \cup {f} \subseteq Track(P, IdsOf(S), f)
BY DEF Track, IdsOf

LEMMA GoOnKeeps ==
  ASSUME NEW P, NEW S \in SUBSET P, NEW n, NEW res, NEW startAt, NEW u,
         GoOn(P, S, n, res, startAt, u)
  PROVE  sched' \subseteq pending'
<1>1. CASE Book(P, S, n)
  BY <1>1 DEF Book
<1>2. CASE \E f : Book(Track(P, IdsOf(S), f), S \cup {f}, n + 1)
  <2>1. PICK f : Book(Track(P, IdsOf(S), f), S \cup {f}, n + 1)
    BY <1>2
  <2> QED
    BY <2>1, TrackKeeps DEF Book
<1> QED
  BY <1>1, <1>2, Zenon DEF GoOn

-----------------------------------------------------------------------------
(* The steps that leave a stop of everything behind: somebody asks for a   *)
(* start, or a sequence is on its way.                                     *)

LEMMA WalkKeeps ==
  ASSUME Inv, Walk
  PROVE  Inv'
<1>1. Walking /\ calm' = calm
  BY DEF Walk, WalkPassesDisarmed, WalkAnswers, WalkStartsOver, WalkSchedules, WalkStarts,
         WalkEnds, AtACue
<1>2. StoppedMeansStopped'
  BY <1>1 DEF Inv, StoppedMeansStopped
<1>3. CASE WalkPassesDisarmed \/ WalkEnds \/ WalkStartsOver
  BY <1>2, <1>3 DEF Inv, WalkPassesDisarmed, WalkEnds, WalkStartsOver, Take, book, sound, IsMap
<1>4. CASE WalkAnswers
  <2>1. CASE UNCHANGED <<pending, sched, sound>>
    BY <1>2, <2>1 DEF Inv, sound, IsMap
  <2> DEFINE answers == {Outcome("ignored", cancelPendingFor(pending, IdsOf(sched), walk.i, FALSE, 0), playing, waits)}
                          \cup Trigger(walk.i, IdsOf(sched), 0)
  <2>2. CASE \E o \in answers : Take(o.takes) /\ playing' = o.playing /\ waits' = o.waits
    <3>1. PICK o \in answers : Take(o.takes) /\ playing' = o.playing /\ waits' = o.waits
      BY <2>2
    <3>2. IsMap(o.playing) /\ IsMap(o.waits)
      <4>1. CASE o \in Trigger(walk.i, IdsOf(sched), 0)
        BY <4>1, TriggerMaps DEF Inv
      <4>2. CASE o \notin Trigger(walk.i, IdsOf(sched), 0)
        <5>1. o = Outcome("ignored", cancelPendingFor(pending, IdsOf(sched), walk.i, FALSE, 0), playing, waits)
          BY <3>1, <4>2, Zenon
        <5>2. o.playing = playing /\ o.waits = waits
          BY <5>1 DEF Outcome
        <5> QED
          BY <5>2 DEF Inv
      <4> QED
        BY <4>1, <4>2
    <3> QED
      BY <1>2, <3>1, <3>2 DEF Inv, IsMap, Take
  <2> QED
    BY <1>4, <2>1, <2>2 DEF WalkAnswers
<1>5. CASE WalkSchedules
  <2> DEFINE e == Start(nextId, walk.i, StartAt, walk.owner, walk.startId)
  <2>1. sched \cup {e} \subseteq Track(pending, IdsOf(sched), e)
    BY TrackKeeps DEF Inv
  <2>2. sched' \subseteq pending'
    BY <1>5, <2>1, GoOnKeeps DEF WalkSchedules
  <2>3. UNCHANGED sound
    BY <1>5 DEF WalkSchedules
  <2> QED
    BY <1>2, <2>2, <2>3 DEF Inv, sound, IsMap
<1>6. CASE WalkStarts
  <2>1. PICK o \in StartById(walk.i, IdsOf(sched), 0) :
          /\ GoOn(pending \ o.takes, sched \ o.takes, nextId, o.res, StartAt, 0)
          /\ playing' = o.playing
          /\ waits' = o.waits
    BY <1>6 DEF WalkStarts
  <2>2. IsMap(o.playing) /\ IsMap(o.waits)
    BY StartMaps DEF Inv
  <2>3. sched' \subseteq pending'
    BY <2>1, GoOnKeeps DEF Inv
  <2> QED
    BY <1>2, <2>1, <2>2, <2>3 DEF Inv, IsMap
<1> QED
  BY <1>3, <1>4, <1>5, <1>6 DEF Walk

LEMMA GoKeeps ==
  ASSUME Inv, Go
  PROVE  Inv'
<1>1. StoppedMeansStopped'
  BY DEF Go, StoppedMeansStopped
<1>2. CASE \E o \in Trigger(playhead, IdsOf(sched), 0) :
             Take(o.takes) /\ playing' = o.playing /\ waits' = o.waits
  <2>1. PICK o \in Trigger(playhead, IdsOf(sched), 0) :
             Take(o.takes) /\ playing' = o.playing /\ waits' = o.waits
    BY <1>2
  <2>2. IsMap(o.playing) /\ IsMap(o.waits)
    BY TriggerMaps DEF Inv
  <2> QED
    BY <1>1, <2>1, <2>2 DEF Inv, IsMap, Take
<1>3. CASE UNCHANGED <<pending, sched, sound>>
  BY <1>1, <1>3 DEF Inv, IsMap, sound
<1> QED
  BY <1>2, <1>3, Zenon DEF Go

LEMMA FireKeeps ==
  ASSUME Inv, Fire
  PROVE  Inv'
<1>1. StoppedMeansStopped'
  BY DEF Fire, StoppedMeansStopped
<1>2. PICK c \in armed : \E o \in StartById(c, IdsOf(sched), 0) \cup Trigger(c, IdsOf(sched), 0) :
        Take(o.takes) /\ playing' = o.playing /\ waits' = o.waits
  BY DEF Fire
<1>3. PICK o \in StartById(c, IdsOf(sched), 0) \cup Trigger(c, IdsOf(sched), 0) :
        Take(o.takes) /\ playing' = o.playing /\ waits' = o.waits
  BY <1>2
<1>4. IsMap(o.playing) /\ IsMap(o.waits)
  BY TriggerMaps, StartMaps DEF Inv
<1> QED
  BY <1>1, <1>3, <1>4 DEF Inv, IsMap, Take

(* The turn of a scheduled start: there is none once everything stopped.   *)
LEMMA RunStartKeeps ==
  ASSUME Inv, RunStart
  PROVE  Inv'
<1>1. PICK e \in Due : \E o \in StartById(e.owner, IdsOf(sched) \ {e.id}, e.id) :
            /\ pending' = pending \ o.takes
            /\ sched' = (sched \ {e}) \ o.takes
            /\ playing' = o.playing
            /\ waits' = o.waits
  BY DEF RunStart
<1>2. PICK o \in StartById(e.owner, IdsOf(sched) \ {e.id}, e.id) :
            /\ pending' = pending \ o.takes
            /\ sched' = (sched \ {e}) \ o.takes
            /\ playing' = o.playing
            /\ waits' = o.waits
  BY <1>1
<1>3. IsMap(o.playing) /\ IsMap(o.waits)
  BY StartMaps DEF Inv
<1>4. ~ calm /\ calm' = calm
  BY <1>1 DEF Inv, StoppedMeansStopped, Due, RunStart
<1> QED
  BY <1>2, <1>3, <1>4 DEF Inv, StoppedMeansStopped, IsMap

-----------------------------------------------------------------------------
(* The steps that only take away, or that only look.                       *)

LEMMA StopKeeps ==
  ASSUME Inv, NEW c \in Cues, stopCue(c)
  PROVE  Inv'
<1>1. /\ sched' \subseteq sched /\ sched' \subseteq pending' /\ calm' = calm /\ walk' = walk
      /\ waits' = [waits EXCEPT ![c] = 0]
      /\ playing' = [playing EXCEPT ![c] = IF @ = "on" THEN "stopping" ELSE @]
  BY DEF Inv, stopCue, Take, StopSound
<1>2. IsMap(playing)' /\ IsMap(waits)'
  BY <1>1 DEF IsMap, Inv
<1> QED
  BY <1>1, <1>2 DEF Inv, StoppedMeansStopped, Walking, IsMap

LEMMA StopEverythingKeeps ==
  ASSUME Inv, StopEverything
  PROVE  Inv'
<1>1. sched' = {}
  BY DEF Inv, StopEverything, IdsOf
<1>2. walk' = NoWalk
  BY DEF StopEverything, Command, Walking
<1>3. /\ waits' = [c \in Cues |-> 0]
      /\ playing' = [c \in Cues |-> IF playing[c] = "on" THEN "stopping" ELSE playing[c]]
  BY DEF StopEverything
<1> QED
  BY <1>1, <1>2, <1>3 DEF Inv, StoppedMeansStopped, Walking, IsMap

LEMMA FollowKeeps ==
  ASSUME Inv, RunFollow
  PROVE  Inv'
<1>1. Due # {} /\ calm' = calm /\ sched' \subseteq sched /\ pending' = pending /\ UNCHANGED sound
  BY DEF RunFollow
<1>2. ~ calm
  BY <1>1 DEF Inv, StoppedMeansStopped, Due
<1> QED
  BY <1>1, <1>2 DEF Inv, StoppedMeansStopped, IsMap, sound

LEMMA QuietKeeps ==
  ASSUME Inv,
         \/ Hotkey \/ cancelScheduledStart \/ cancelStart \/ Arm
         \/ BeginTick \/ CollectFollows \/ EndTick \/ EngineEnds \/ Advance
         \/ UNCHANGED vars
  PROVE  Inv'
<1>1. CASE Hotkey
  BY <1>1 DEF Inv, Hotkey, StoppedMeansStopped, IsMap, sound, book
<1>2. CASE cancelScheduledStart \/ cancelStart
  <2>1. \E S : sched' = sched \ S /\ pending' = pending \ S
    BY <1>2 DEF cancelScheduledStart, cancelStart, Take
  <2>2. UNCHANGED <<sound, walk, calm>>
    BY <1>2, Zenon DEF cancelScheduledStart, cancelStart
  <2> QED
    BY <2>1, <2>2 DEF Inv, StoppedMeansStopped, Walking, IsMap, sound
<1>3. CASE Arm \/ BeginTick \/ CollectFollows \/ EndTick \/ Advance \/ UNCHANGED vars
  <2>1. UNCHANGED <<sound, pending, sched, walk, calm>>
    BY <1>3, Zenon DEF Arm, BeginTick, CollectFollows, EndTick, Advance, vars, book
  <2> QED
    BY <2>1 DEF Inv, StoppedMeansStopped, Walking, IsMap, sound
<1>4. CASE EngineEnds
  <2>1. PICK c \in Cues : playing' = [playing EXCEPT ![c] = "off"]
    BY <1>4 DEF EngineEnds
  <2>2. UNCHANGED <<waits, pending, sched, walk, calm>>
    BY <1>4, Zenon DEF EngineEnds, book
  <2> QED
    BY <2>1, <2>2 DEF Inv, StoppedMeansStopped, Walking, IsMap
<1> QED
  BY <1>1, <1>2, <1>3, <1>4

-----------------------------------------------------------------------------

THEOREM Stopped == Spec => []StoppedMeansStopped
<1>1. Init => Inv
  BY DEF Init, InitWith, Inv, IsMap, StoppedMeansStopped, Walking, Cues
<1>2. Inv /\ [Next]_vars => Inv'
  <2> SUFFICES ASSUME Inv, [Next]_vars
               PROVE  Inv'
    OBVIOUS
  <2>1. CASE Operator
    <3>1. CASE panicAll \/ hardStopAll \/ resetAll
      BY <3>1, StopEverythingKeeps DEF panicAll, hardStopAll, resetAll
    <3>2. CASE Go \/ Fire \/ \E c \in Cues : stopCue(c)
      BY <3>2, GoKeeps, FireKeeps, StopKeeps
    <3>3. CASE Hotkey \/ cancelScheduledStart \/ cancelStart \/ Arm
      BY <3>3, QuietKeeps
    <3> QED
      BY <2>1, <3>1, <3>2, <3>3 DEF Operator
  <2>2. CASE Walk
    BY <2>2, WalkKeeps
  <2>3. CASE Tick
    BY <2>3, RunStartKeeps, FollowKeeps, QuietKeeps DEF Tick
  <2>4. CASE EngineEnds \/ Advance \/ UNCHANGED vars
    BY <2>4, QuietKeeps
  <2> QED
    BY <2>1, <2>2, <2>3, <2>4 DEF Next
<1>3. Inv => StoppedMeansStopped
  BY DEF Inv
<1> QED
  BY <1>1, <1>2, <1>3, PTL DEF Spec
-----------------------------------------------------------------------------
(* What a cancellation takes is closed: with a start that is still pending *)
(* go the follow put on for it and the starts that wait behind it.         *)

Closed(P, L, R) ==
  \A s \in R : s.kind = "start" /\ s.id \in L =>
    cancelRunOf(P, s.owner, s.id) \cup Behind(P, L, s.owner, s.id) \subseteq R

Live(P, L) == {p \in P : p.kind = "start" /\ p.id \in L}

(* The work list of cancelChainBehind comes to an end: what is behind one  *)
(* of its starts is on it too.                                             *)
LEMMA ChainIsClosed ==
  ASSUME NEW P, IsFiniteSet(P), NEW L, NEW o, NEW s
  PROVE  \E C \in SUBSET Live(P, L) :
           /\ Behind(P, L, o, s) \subseteq C
           /\ \A p \in C : Behind(P, L, p.owner, p.id) \subseteq C
           /\ cancelChainBehind(P, L, o, s) = UNION {{p} \cup cancelRunOf(P, p.owner, p.id) : p \in C}
<1> DEFINE N == Cardinality(P)
           base == Behind(P, L, o, s)
           Next1(X) == X \cup UNION {Behind(P, L, p.owner, p.id) : p \in X}
           Grows(f) == f = [n \in 0 .. N |-> IF n = 0 THEN base ELSE Next1(f[n - 1])]
           D == SUBSET Live(P, L)
           chain == CHOOSE f : Grows(f)
<1>1. N \in Nat /\ IsFiniteSet(Live(P, L)) /\ base \in D
  BY FS_CardinalityType, FS_Subset DEF Live, Behind
<1>2. \A X \in D : Next1(X) \in D
  BY DEF Live, Behind
<1>3. Grows(chain)
  <2> DEFINE h == [X \in D |-> Next1(X)]
  <2>1. h \in [D -> D]
    BY <1>2
  <2>2. \E f \in [0 .. N -> D] : \A n \in 0 .. N : f[n] = IF n = 0 THEN base ELSE h[f[n - 1]]
    <3> HIDE DEF D, h, base, N
    <3>1. \E f : Iterates(f, N, D, base, h)
      BY <1>1, <2>1, NumberRecursion
    <3> QED
      BY <3>1 DEF Iterates
  <2>3. PICK f \in [0 .. N -> D] : \A n \in 0 .. N : f[n] = IF n = 0 THEN base ELSE h[f[n - 1]]
    BY <2>2
  <2>4. \A n \in 1 .. N : h[f[n - 1]] = Next1(f[n - 1])
    <3> TAKE n \in 1 .. N
    <3>1. f[n - 1] \in D
      BY <1>1, <2>3
    <3> QED
      BY <3>1
  <2>5. f = [n \in 0 .. N |-> IF n = 0 THEN base ELSE Next1(f[n - 1])]
    <3> HIDE DEF D, h, base, Next1
    <3> QED
      BY <1>1, <2>3, <2>4
  <2> QED
    BY <2>5
<1>4. cancelChainBehind(P, L, o, s) = UNION {{p} \cup cancelRunOf(P, p.owner, p.id) : p \in chain[N]}
  BY DEF cancelChainBehind
<1> HIDE DEF chain
<1>5. \A n \in 0 .. N : chain[n] = IF n = 0 THEN base ELSE Next1(chain[n - 1])
  <2> HIDE DEF base, Next1, N
  <2> QED
    BY <1>3
<1>6. chain[0] = base /\ \A n \in Nat : n + 1 <= N => chain[n + 1] = Next1(chain[n])
  <2> HIDE DEF base, Next1, N
  <2> QED
    BY <1>1, <1>5
<1>7. \A n \in 0 .. N : chain[n] \in D /\ base \subseteq chain[n]
  <2> DEFINE T == {n \in Nat : n <= N => chain[n] \in D /\ base \subseteq chain[n]}
  <2>1. 0 \in T
    BY <1>1, <1>6
  <2>2. ASSUME NEW n \in Nat, n \in T PROVE n + 1 \in T
    <3> SUFFICES ASSUME n + 1 <= N
                 PROVE  chain[n + 1] \in D /\ base \subseteq chain[n + 1]
      OBVIOUS
    <3>1. chain[n] \in D /\ base \subseteq chain[n]
      <4> HIDE DEF base, D
      <4> QED
        BY <1>1, <2>2
    <3>2. chain[n + 1] = Next1(chain[n])
      <4> HIDE DEF base, Next1, N, D
      <4> QED
        BY <1>6
    <3>3. Next1(chain[n]) \in D
      <4> HIDE DEF D, Next1
      <4> QED
        BY <1>2, <3>1
    <3> QED
      BY <3>1, <3>2, <3>3
  <2>3. Nat \subseteq T
    <3> HIDE DEF T
    <3> QED
      BY <2>1, <2>2, NumberInduction
  <2> HIDE DEF base, D, N
  <2> QED
    BY <1>1, <2>3
<1>8. Next1(chain[N]) = chain[N]
  <2> DEFINE grow == [X \in SUBSET P |-> X \cup UNION {Behind(P, L, p.owner, p.id) : p \in X}]
  <2>1. grow \in [SUBSET P -> SUBSET P] /\ \A X \in SUBSET P : X \subseteq grow[X]
    BY DEF Behind
  <2>2. \A n \in 0 .. N : chain[n] \in SUBSET P
    BY <1>7 DEF Live
  <2>3. chain \in [0 .. N -> SUBSET P]
    <3>1. chain = [n \in 0 .. N |-> chain[n]]
      BY <1>3
    <3> QED
      BY <2>2, <3>1
  <2>4. \A n \in 1 .. N : chain[n] = grow[chain[n - 1]]
    <3> TAKE n \in 1 .. N
    <3>1. chain[n - 1] \in SUBSET P
      BY <1>1, <2>2
    <3>2. chain[n] = Next1(chain[n - 1])
      <4> HIDE DEF base, Next1, N
      <4> QED
        BY <1>1, <1>5
    <3> QED
      BY <3>1, <3>2
  <2>5. grow[chain[N]] = chain[N]
    <3> HIDE DEF grow, Next1, base
    <3> QED
      BY <2>1, <2>3, <2>4, GrowthEnds
  <2> QED
    BY <1>1, <2>2, <2>5
<1>9. chain[N] \in D /\ base \subseteq chain[N]
  <2> HIDE DEF base, D, N
  <2> QED
    BY <1>1, <1>7
<1>10. \A p \in chain[N] : Behind(P, L, p.owner, p.id) \subseteq chain[N]
  BY <1>8
<1> QED
  BY <1>4, <1>9, <1>10

LEMMA WithItsChainIsClosed ==
  ASSUME NEW P, IsFiniteSet(P), NEW L, NEW S \in SUBSET Live(P, L)
  PROVE  /\ WithItsChain(P, L, S) \in SUBSET P
         /\ Closed(P, L, WithItsChain(P, L, S))
         /\ S \subseteq WithItsChain(P, L, S)
         /\ \A f \in WithItsChain(P, L, S) : f.kind # "start" => f.runId \in L
<1> DEFINE R == WithItsChain(P, L, S)
<1>1. ASSUME NEW x \in R
      PROVE  /\ x \in P
             /\ x.kind # "start" => x.runId \in L
             /\ x.kind = "start" => cancelRunOf(P, x.owner, x.id) \cup Behind(P, L, x.owner, x.id) \subseteq R
  <2>1. CASE x \in S
    <3>1. cancelRunOf(P, x.owner, x.id) \cup cancelChainBehind(P, L, x.owner, x.id) \subseteq R
      BY <2>1 DEF WithItsChain
    <3>2. PICK C \in SUBSET Live(P, L) :
            /\ Behind(P, L, x.owner, x.id) \subseteq C
            /\ cancelChainBehind(P, L, x.owner, x.id) = UNION {{p} \cup cancelRunOf(P, p.owner, p.id) : p \in C}
      BY ChainIsClosed
    <3>3. Behind(P, L, x.owner, x.id) \subseteq cancelChainBehind(P, L, x.owner, x.id)
      BY <3>2
    <3> QED
      BY <2>1, <3>1, <3>3 DEF Live
  <2>2. ASSUME NEW s \in S, x \in cancelRunOf(P, s.owner, s.id)
        PROVE  x \in P /\ x.kind # "start" /\ x.runId \in L
    BY <2>2 DEF cancelRunOf, Live
  <2>3. ASSUME NEW s \in S, x \in cancelChainBehind(P, L, s.owner, s.id)
        PROVE  /\ x \in P
               /\ x.kind # "start" => x.runId \in L
               /\ x.kind = "start" => cancelRunOf(P, x.owner, x.id) \cup Behind(P, L, x.owner, x.id) \subseteq R
    <3> DEFINE B == cancelChainBehind(P, L, s.owner, s.id)
    <3>1. PICK C \in SUBSET Live(P, L) :
            /\ \A p \in C : Behind(P, L, p.owner, p.id) \subseteq C
            /\ B = UNION {{p} \cup cancelRunOf(P, p.owner, p.id) : p \in C}
      BY ChainIsClosed
    <3>2. B \subseteq R
      BY DEF WithItsChain
    <3>3. PICK p \in C : x = p \/ x \in cancelRunOf(P, p.owner, p.id)
      BY <2>3, <3>1
    <3>4. CASE x = p
      <4>1. cancelRunOf(P, p.owner, p.id) \subseteq B /\ C \subseteq B
        BY <3>1
      <4> QED
        BY <3>1, <3>2, <3>3, <3>4, <4>1 DEF Live
    <3>5. CASE x \in cancelRunOf(P, p.owner, p.id)
      BY <3>5 DEF cancelRunOf, Live
    <3> QED
      BY <3>3, <3>4, <3>5
  <2>4. x \in S \/ \E s \in S : x \in cancelRunOf(P, s.owner, s.id) \/ x \in cancelChainBehind(P, L, s.owner, s.id)
    BY DEF WithItsChain
  <2> QED
    BY <2>1, <2>2, <2>3, <2>4
<1>2. S \subseteq R
  BY DEF WithItsChain
<1>3. \A x \in R : /\ x \in P
                   /\ x.kind # "start" => x.runId \in L
                   /\ x.kind = "start" => cancelRunOf(P, x.owner, x.id) \cup Behind(P, L, x.owner, x.id) \subseteq R
  BY <1>1
<1> HIDE DEF R
<1>4. R \in SUBSET P /\ Closed(P, L, R) /\ S \subseteq R /\ \A f \in R : f.kind # "start" => f.runId \in L
  BY <1>2, <1>3 DEF Closed
<1> QED
  BY <1>4 DEF R

LEMMA ClosedUnions ==
  ASSUME NEW P, NEW L
  PROVE  /\ \A X : (\A R \in X : Closed(P, L, R)) => Closed(P, L, UNION X)
         /\ \A A, B : Closed(P, L, A) /\ Closed(P, L, B) => Closed(P, L, A \cup B)
         /\ \A A, B : Closed(P, L, A) /\ Closed(P \ A, L, B) => Closed(P, L, A \cup B)
<1>1. ASSUME NEW X, \A R \in X : Closed(P, L, R)
      PROVE  Closed(P, L, UNION X)
  BY <1>1 DEF Closed
<1>2. ASSUME NEW A, NEW B, Closed(P, L, A), Closed(P, L, B)
      PROVE  Closed(P, L, A \cup B)
  BY <1>2 DEF Closed
<1>3. ASSUME NEW A, NEW B, Closed(P, L, A), Closed(P \ A, L, B)
      PROVE  Closed(P, L, A \cup B)
  <2>1. ASSUME NEW o, NEW s
        PROVE  /\ cancelRunOf(P, o, s) \subseteq cancelRunOf(P \ A, o, s) \cup A
               /\ Behind(P, L, o, s) \subseteq Behind(P \ A, L, o, s) \cup A
    BY DEF cancelRunOf, Behind
  <2> QED
    BY <1>3, <2>1 DEF Closed
<1> QED
  BY <1>1, <1>2, <1>3

LEMMA ChainsAreClosed ==
  ASSUME NEW P, IsFiniteSet(P), NEW L, NEW o, NEW keep
  PROVE  LET R == cancelChainsOf(P, L, o, keep)
         IN  /\ R \in SUBSET P
             /\ Closed(P, L, R)
             /\ \A p \in Live(P, L) : p.postWaitOwner = o /\ (keep = 0 \/ p.afterStartId # keep) => p \in R
             /\ \A f \in R : f.kind # "start" => f.runId \in L
<1> DEFINE S == {p \in P : /\ p.kind = "start" /\ p.postWaitOwner = o
                           /\ (keep = 0 \/ p.afterStartId # keep) /\ p.id \in L}
<1>1. S \in SUBSET Live(P, L) /\ cancelChainsOf(P, L, o, keep) = WithItsChain(P, L, S)
  BY DEF Live, cancelChainsOf
<1>2. \A p \in Live(P, L) : p.postWaitOwner = o /\ (keep = 0 \/ p.afterStartId # keep) => p \in S
  BY DEF Live
<1> HIDE DEF S
<1> QED
  BY <1>1, <1>2, WithItsChainIsClosed

(* Everything of a cue, and its starts alone.                              *)
AllOf(P, L, c, keep)    == cancelPendingFor(P, L, c, FALSE, keep)
StartsOf(P, L, c, keep) == cancelPendingFor(P, L, c, TRUE, keep)

LEMMA StartsAreClosed ==
  ASSUME NEW P, IsFiniteSet(P), NEW L, NEW c, NEW keep
  PROVE  StartsOf(P, L, c, keep) \in SUBSET P /\ Closed(P, L, StartsOf(P, L, c, keep))
<1> DEFINE matches == {p \in P : p.owner = c /\ (keep = 0 \/ p.runId # keep) /\ p.kind = "start"}
           starts  == {p \in matches : p.kind = "start" /\ p.id \in L}
           W == WithItsChain(P, L, starts)
<1>1. StartsOf(P, L, c, keep) = matches \cup W
  BY DEF StartsOf, cancelPendingFor
<1>2. W \in SUBSET P /\ Closed(P, L, W) /\ starts \subseteq W
  <2>1. starts \in SUBSET Live(P, L)
    BY DEF Live
  <2> HIDE DEF starts
  <2> QED
    BY <2>1, WithItsChainIsClosed
<1>3. matches \in SUBSET P /\ \A s \in matches : s.kind = "start" /\ s.id \in L => s \in starts
  OBVIOUS
<1> HIDE DEF matches, starts, W
<1> QED
  BY <1>1, <1>2, <1>3 DEF Closed

LEMMA PendingIsClosed ==
  ASSUME NEW P, IsFiniteSet(P), NEW L, NEW c, NEW keep
  PROVE  LET R == AllOf(P, L, c, keep)
         IN  /\ R \in SUBSET P
             /\ Closed(P, L, R)
             /\ \A p \in P : p.owner = c /\ (keep = 0 \/ p.runId # keep) => p \in R
             /\ \A p \in Live(P, L) : p.postWaitOwner = c /\ (keep = 0 \/ p.afterStartId # keep) => p \in R
             /\ \A f \in R : f.kind # "start" =>
                  f.runId \in L \/ (f.owner = c /\ (keep = 0 \/ f.runId # keep))
<1> DEFINE matches == {p \in P : p.owner = c /\ (keep = 0 \/ p.runId # keep)}
           starts  == {p \in matches : p.kind = "start" /\ p.id \in L}
           W == WithItsChain(P, L, starts)
           C == cancelChainsOf(P, L, c, keep)
           R == AllOf(P, L, c, keep)
<1>1. R = matches \cup W \cup C
  BY DEF AllOf, cancelPendingFor
<1>2. /\ W \in SUBSET P /\ Closed(P, L, W) /\ starts \subseteq W
      /\ \A f \in W : f.kind # "start" => f.runId \in L
  <2>1. starts \in SUBSET Live(P, L)
    BY DEF Live
  <2> HIDE DEF starts
  <2> QED
    BY <2>1, WithItsChainIsClosed
<1>3. /\ C \in SUBSET P /\ Closed(P, L, C)
      /\ \A p \in Live(P, L) : p.postWaitOwner = c /\ (keep = 0 \/ p.afterStartId # keep) => p \in C
      /\ \A f \in C : f.kind # "start" => f.runId \in L
  BY ChainsAreClosed
<1>4. Closed(P, L, matches \cup W)
  <2>1. \A s \in matches : s.kind = "start" /\ s.id \in L => s \in starts
    OBVIOUS
  <2> HIDE DEF matches, starts, W
  <2> QED
    BY <1>2, <2>1 DEF Closed
<1>5. Closed(P, L, matches \cup W \cup C)
  <2> HIDE DEF matches, W, C
  <2> QED
    BY <1>3, <1>4, ClosedUnions
<1>6. /\ \A p \in P : p.owner = c /\ (keep = 0 \/ p.runId # keep) => p \in matches
      /\ \A p \in matches : p \in P /\ p.owner = c /\ (keep = 0 \/ p.runId # keep)
  OBVIOUS
<1> HIDE DEF matches, W, C, R
<1>7. R \in SUBSET P /\ Closed(P, L, R)
  BY <1>1, <1>2, <1>3, <1>5, <1>6
<1>8. /\ \A p \in P : p.owner = c /\ (keep = 0 \/ p.runId # keep) => p \in R
      /\ \A p \in Live(P, L) : p.postWaitOwner = c /\ (keep = 0 \/ p.afterStartId # keep) => p \in R
  BY <1>1, <1>3, <1>6
<1>9. ASSUME NEW f \in R, f.kind # "start"
      PROVE  f.runId \in L \/ (f.owner = c /\ (keep = 0 \/ f.runId # keep))
  <2>1. f \in matches \/ f \in W \/ f \in C
    BY <1>1
  <2>2. f \in matches => f.owner = c /\ (keep = 0 \/ f.runId # keep)
    BY <1>6
  <2>3. f \in W \/ f \in C => f.runId \in L
    BY <1>2, <1>3, <1>9
  <2> QED
    BY <2>1, <2>2, <2>3
<1> QED
  BY <1>7, <1>8, <1>9 DEF R

(* What a fade-out of the others leaves belongs to the cue that fades, and *)
(* waits for no cue that plays.                                            *)
LEMMA FadeIsClosed ==
  ASSUME NEW P, IsFiniteSet(P), NEW L, NEW c
  PROVE  LET R == fadeStopOthersTakes(P, L, c)
         IN  /\ R \in SUBSET P
             /\ Closed(P, L, R)
             /\ \A p \in P \ R : p.owner = c
             /\ \A p \in Live(P, L) \ R : p.postWaitOwner \in Cues \ {c} => ~ isPlaying(p.postWaitOwner)
             /\ \A f \in R : f.kind # "start" => f.runId \in L \/ f.owner # c
<1> DEFINE others == Cues \ {c}
           R1 == UNION {cancelChainsOf(P, L, o, 0) : o \in {o \in others : isPlaying(o)}}
           P1 == P \ R1
           R2 == UNION {AllOf(P1, L, o, 0) : o \in {p.owner : p \in P1} \ {c}}
           P2 == P1 \ R2
           R3 == UNION {cancelChainsOf(P2, L, o, 0) : o \in {o \in others : waits[o] # 0}}
<1>1. fadeStopOthersTakes(P, L, c) = R1 \cup R2 \cup R3
  BY DEF AllOf, fadeStopOthersTakes
<1>2. /\ R1 \in SUBSET P /\ Closed(P, L, R1)
      /\ \A p \in Live(P, L) : p.postWaitOwner \in Cues \ {c} /\ isPlaying(p.postWaitOwner) => p \in R1
      /\ \A f \in R1 : f.kind # "start" => f.runId \in L
  <2>1. \A o : /\ cancelChainsOf(P, L, o, 0) \in SUBSET P /\ Closed(P, L, cancelChainsOf(P, L, o, 0))
               /\ \A p \in Live(P, L) : p.postWaitOwner = o => p \in cancelChainsOf(P, L, o, 0)
               /\ \A f \in cancelChainsOf(P, L, o, 0) : f.kind # "start" => f.runId \in L
    BY ChainsAreClosed
  <2>2. Closed(P, L, R1)
    BY <2>1, ClosedUnions
  <2> QED
    BY <2>1, <2>2
<1>3. IsFiniteSet(P1) /\ IsFiniteSet(P2) /\ P1 \subseteq P
  BY FS_Subset
<1>4. /\ R2 \in SUBSET P1 /\ Closed(P1, L, R2)
      /\ \A p \in P1 : p.owner # c => p \in R2
      /\ \A f \in R2 : f.kind # "start" => f.runId \in L \/ f.owner # c
  <2> HIDE DEF P1
  <2>1. \A o : /\ AllOf(P1, L, o, 0) \in SUBSET P1
               /\ Closed(P1, L, AllOf(P1, L, o, 0))
               /\ \A p \in P1 : p.owner = o => p \in AllOf(P1, L, o, 0)
               /\ \A f \in AllOf(P1, L, o, 0) : f.kind # "start" => f.runId \in L \/ f.owner = o
    BY <1>3, PendingIsClosed
  <2>2. Closed(P1, L, R2)
    <3> DEFINE X == {AllOf(P1, L, o, 0) : o \in {p.owner : p \in P1} \ {c}}
    <3>1. \A R \in X : Closed(P1, L, R)
      BY <2>1
    <3> HIDE DEF X
    <3>2. Closed(P1, L, UNION X)
      BY <3>1, ClosedUnions
    <3> QED
      BY <3>2 DEF X
  <2> QED
    BY <2>1, <2>2
<1>5. /\ R3 \in SUBSET P2 /\ Closed(P2, L, R3)
      /\ \A f \in R3 : f.kind # "start" => f.runId \in L
  <2> HIDE DEF P2
  <2>1. \A o : /\ cancelChainsOf(P2, L, o, 0) \in SUBSET P2
               /\ Closed(P2, L, cancelChainsOf(P2, L, o, 0))
               /\ \A f \in cancelChainsOf(P2, L, o, 0) : f.kind # "start" => f.runId \in L
    BY <1>3, ChainsAreClosed
  <2>2. Closed(P2, L, R3)
    BY <2>1, ClosedUnions
  <2> QED
    BY <2>1, <2>2
<1> HIDE DEF R1, R2, R3
<1>6. Closed(P, L, R1 \cup R2 \cup R3)
  <2>1. Closed(P, L, R1 \cup R2)
    BY <1>2, <1>4, ClosedUnions
  <2>2. P2 = P \ (R1 \cup R2)
    OBVIOUS
  <2> HIDE DEF P2
  <2> QED
    BY <1>5, <2>1, <2>2, ClosedUnions
<1>7. R1 \cup R2 \cup R3 \in SUBSET P
  BY <1>2, <1>4, <1>5
<1>8. /\ \A p \in P \ (R1 \cup R2 \cup R3) : p.owner = c
      /\ \A p \in Live(P, L) \ (R1 \cup R2 \cup R3) : p.postWaitOwner \in Cues \ {c} => ~ isPlaying(p.postWaitOwner)
      /\ \A f \in R1 \cup R2 \cup R3 : f.kind # "start" => f.runId \in L \/ f.owner # c
  BY <1>2, <1>4, <1>5
<1> QED
  BY <1>1, <1>6, <1>7, <1>8

-----------------------------------------------------------------------------
(* Types.  TypeOK is PlainOk and the types of the entries, which are in    *)
(* BookOk below.                                                           *)

SoundOk(p, w) == p \in [Cues -> {"off", "on", "stopping"}] /\ w \in [Cues -> Nat]

PlainOk ==
  /\ now \in 0 .. MaxTime
  /\ panicLatchUntil \in Nat
  /\ SoundOk(playing, waits)
  /\ armed \in SUBSET Cues
  /\ playhead \in Cues
  /\ walk = NoWalk \/ walk \in WalkState
  /\ phase \in {"idle", "timed", "watches"}
  /\ turn \subseteq 1 .. nextId
  /\ commands \in 0 .. MaxCommands
  /\ calm \in BOOLEAN

LEMMA CuesAreRows ==
  /\ Last \in Nat \ {0} /\ Cues = 1 .. Last
  /\ \A c \in Cues : /\ Cue[c].kind \in Kinds /\ Cue[c].mode \in Modes /\ Cue[c].rule \in Rules
                     /\ Cue[c].pre \in Nat /\ Cue[c].post \in Nat /\ Cue[c].secs \in Nat
                     /\ Cue[c].fso \in BOOLEAN
<1> DEFINE Row == [kind : Kinds, pre : Nat, post : Nat, mode : Modes, rule : Rules,
                   fso : BOOLEAN, secs : Nat]
<1>1. Cue \in Seq(Row) /\ Cue # << >>
  BY CueAssumption
<1>2. Cues = 1 .. Len(Cue) /\ Len(Cue) \in Nat /\ \A c \in Cues : Cue[c] \in Row
  <2> HIDE DEF Row
  <2> QED
    BY <1>1 DEF Cues
<1>3. Len(Cue) # 0
  <2> HIDE DEF Row
  <2> QED
    BY <1>1, EmptySeq
<1>4. Last = Len(Cue)
  <2>1. Cardinality(1 .. Len(Cue)) = Len(Cue)
    BY <1>2, FS_Interval
  <2> QED
    BY <1>2, <2>1 DEF Last
<1>5. \A c \in Cues : Cue[c] \in Row
  BY <1>2
<1> QED
  BY <1>2, <1>3, <1>4, <1>5

LEMMA MinIsIn ==
  ASSUME NEW T, T \subseteq Nat, T # {}
  PROVE  Min(T) \in T
<1>1. \E x \in T : \A y \in T : x <= y
  BY LeastElement
<1> QED
  BY <1>1 DEF Min

LEMMA ReturnIsOk ==
  ASSUME playhead \in Cues, NEW after \in Nat \ {0}, Return(after)
  PROVE  walk' = NoWalk /\ playhead' \in Cues
<1>1. Min({after, Last}) \in {after, Last}
  BY MinIsIn, CuesAreRows
<1>2. Min({after, Last}) <= Last
  <2>1. \E x \in {after, Last} : \A y \in {after, Last} : x <= y
    BY LeastElement, CuesAreRows
  <2> QED
    BY <2>1 DEF Min
<1>3. Min({after, Last}) \in Cues
  BY <1>1, <1>2, CuesAreRows
<1> QED
  BY <1>3 DEF Return

LEMMA SequenceEnds ==
  ASSUME NEW c \in Cues
  PROVE  sequenceEnd(c) \in Nat \ {0}
<1> DEFINE T == {k \in c .. Last : Cue[k].mode = "none" \/ k = Last}
<1>1. T \subseteq Nat /\ T # {}
  BY CuesAreRows
<1>2. Min(T) \in Nat
  BY <1>1, MinIsIn
<1> QED
  BY <1>2 DEF sequenceEnd

-----------------------------------------------------------------------------
(* What the start of a cue does to the sound and takes from the book.      *)

LEMMA TriggerOutcome ==
  ASSUME PlainOk, IsFiniteSet(pending), NEW c \in Cues, NEW L, NEW firing \in Nat,
         NEW o \in Trigger(c, L, firing)
  PROVE  /\ o = Outcome(o.res, o.takes, o.playing, o.waits)
         /\ SoundOk(o.playing, o.waits)
         /\ o.takes \in SUBSET pending /\ Closed(pending, L, o.takes)
         /\ \A d \in Cues \ {c} : o.playing[d] = playing[d]
         /\ o.res # "started" /\ o.playing[c] = "on" => playing[c] = "on"
         /\ Cue[c].rule = "restart" /\ firing # 0 =>
              \A f \in o.takes : f.kind # "start" => f.runId \in L \/ f.runId # firing
<1> DEFINE on == [playing EXCEPT ![c] = "on"]
           waiting == [waits EXCEPT ![c] = now + Cue[c].secs]
           Fine(T) == /\ T \in SUBSET pending /\ Closed(pending, L, T)
                      /\ Cue[c].rule = "restart" /\ firing # 0 =>
                           \A f \in T : f.kind # "start" => f.runId \in L \/ f.runId # firing
<1>1. /\ SoundOk(playing, waits) /\ SoundOk(on, waits) /\ SoundOk(playing, waiting) /\ SoundOk(on, waiting)
      /\ SoundOk(StopSound(c), [waits EXCEPT ![c] = 0])
      /\ \A d \in Cues \ {c} : on[d] = playing[d] /\ StopSound(c)[d] = playing[d]
      /\ StopSound(c)[c] = "on" => playing[c] = "on"
  BY CuesAreRows, SMTT(30) DEF PlainOk, SoundOk, StopSound
<1>2. Fine({}) /\ Fine(AllOf(pending, L, c, firing))
  BY PendingIsClosed DEF Closed
<1>3. Cue[c].rule # "restart" => Fine(AllOf(pending, L, c, 0))
  BY PendingIsClosed
<1>4. \A r, T, p, w : /\ Outcome(r, T, p, w).res = r /\ Outcome(r, T, p, w).takes = T
                      /\ Outcome(r, T, p, w).playing = p /\ Outcome(r, T, p, w).waits = w
  BY DEF Outcome
<1> HIDE DEF on, waiting
<1>5. ASSUME NEW T, Fine(T), o \in StartNow(c, T)
      PROVE  \/ \E p \in {playing, on} : \E w \in {waits, waiting} : o = Outcome("started", T, p, w)
             \/ o = Outcome("failed", T, playing, waits)
  BY <1>5 DEF StartNow, on, waiting
<1>6. \E T : /\ Fine(T)
             /\ \/ \E p \in {playing, on} : \E w \in {waits, waiting} : o = Outcome("started", T, p, w)
                \/ o = Outcome("failed", T, playing, waits)
                \/ o = Outcome("ignored", T, playing, waits)
                \/ o = Outcome("ignored", T, StopSound(c), [waits EXCEPT ![c] = 0])
  <2>1. CASE isPanicLatched \/ c \notin armed
    <3>1. o = Outcome("failed", {}, playing, waits)
      BY <2>1 DEF Trigger
    <3> QED
      BY <1>2, <3>1
  <2>2. CASE o \in StartNow(c, {})
    BY <1>2, <1>5, <2>2
  <2>3. CASE Cue[c].rule # "restart" /\ o = Answer(c, L)
    <3>1. \/ o = Outcome("ignored", {}, playing, waits)
          \/ o = Outcome("ignored", AllOf(pending, L, c, 0), StopSound(c), [waits EXCEPT ![c] = 0])
      BY <2>3 DEF Answer, AllOf
    <3> HIDE DEF Fine
    <3> QED
      BY <1>2, <1>3, <2>3, <3>1
  <2>4. CASE o \in StartNow(c, AllOf(pending, L, c, firing))
    <3> HIDE DEF Fine
    <3> QED
      BY <1>2, <1>5, <2>4
  <2> QED
    BY <2>1, <2>2, <2>3, <2>4 DEF Trigger, cancelPreviousRun, KeepFiring, AllOf
<1>7. PICK T : /\ Fine(T)
               /\ \/ \E p \in {playing, on} : \E w \in {waits, waiting} : o = Outcome("started", T, p, w)
                  \/ o = Outcome("failed", T, playing, waits)
                  \/ o = Outcome("ignored", T, playing, waits)
                  \/ o = Outcome("ignored", T, StopSound(c), [waits EXCEPT ![c] = 0])
  BY <1>6
<1>8. o = Outcome(o.res, o.takes, o.playing, o.waits) /\ o.takes = T
  BY <1>4, <1>7
<1>9. SoundOk(o.playing, o.waits) /\ \A d \in Cues \ {c} : o.playing[d] = playing[d]
  BY <1>1, <1>4, <1>7
<1>10. o.res # "started" /\ o.playing[c] = "on" => playing[c] = "on"
  BY <1>1, <1>4, <1>7
<1> QED
  BY <1>7, <1>8, <1>9, <1>10

LEMMA StartOutcome ==
  ASSUME PlainOk, IsFiniteSet(pending), NEW c \in Cues, NEW L, NEW firing \in Nat,
         NEW o \in StartById(c, L, firing)
  PROVE  /\ SoundOk(o.playing, o.waits)
         /\ o.takes \in SUBSET pending /\ Closed(pending, L, o.takes)
         /\ \A d \in Cues : o.playing[d] = "on" /\ playing[d] # "on" => d = c
         /\ Cue[c].rule = "restart" /\ firing # 0 =>
              \A f \in o.takes : f.kind # "start" => f.runId \in L \/ f.owner # c \/ f.runId # firing
         /\ (\E d \in Cues \ {c} : o.playing[d] # playing[d]) =>
              \A e \in pending \ o.takes :
                /\ e.owner = c
                /\ e \in Live(pending, L) /\ e.postWaitOwner \in Cues \ {c} => ~ isPlaying(e.postWaitOwner)
<1>1. PICK q \in Trigger(c, L, firing) :
        o = IF q.res = "started" /\ Cue[c].fso
            THEN [q EXCEPT !.takes   = @ \cup fadeStopOthersTakes(pending \ q.takes, L, c),
                  !.playing = [d \in Cues |-> IF d # c /\ @[d] = "on" THEN "stopping" ELSE @[d]],
                  !.waits   = [d \in Cues |-> IF d = c THEN @[d] ELSE 0]]
            ELSE q
  BY DEF StartById
<1>2. /\ q = Outcome(q.res, q.takes, q.playing, q.waits)
      /\ SoundOk(q.playing, q.waits)
      /\ q.takes \in SUBSET pending /\ Closed(pending, L, q.takes)
      /\ \A d \in Cues \ {c} : q.playing[d] = playing[d]
      /\ Cue[c].rule = "restart" /\ firing # 0 =>
           \A f \in q.takes : f.kind # "start" => f.runId \in L \/ f.runId # firing
  BY TriggerOutcome
<1>3. CASE ~ (q.res = "started" /\ Cue[c].fso)
  <2>1. o = q
    BY <1>1, <1>3
  <2> QED
    BY <1>2, <2>1
<1>4. CASE q.res = "started" /\ Cue[c].fso
  <2> DEFINE F == fadeStopOthersTakes(pending \ q.takes, L, c)
             faded == [d \in Cues |-> IF d # c /\ q.playing[d] = "on" THEN "stopping" ELSE q.playing[d]]
             ended == [d \in Cues |-> IF d = c THEN q.waits[d] ELSE 0]
  <2>1. o = Outcome(q.res, q.takes \cup F, faded, ended)
    <3>1. o = [q EXCEPT !.takes = @ \cup F, !.playing = faded, !.waits = ended]
      BY <1>1, <1>4
    <3> HIDE DEF F, faded, ended
    <3> QED
      BY <1>2, <3>1 DEF Outcome
  <2>2. /\ o.takes = q.takes \cup F /\ o.playing = faded /\ o.waits = ended
    <3> HIDE DEF F, faded, ended
    <3> QED
      BY <2>1 DEF Outcome
  <2>3. /\ F \in SUBSET (pending \ q.takes)
        /\ Closed(pending \ q.takes, L, F)
        /\ \A p \in (pending \ q.takes) \ F : p.owner = c
        /\ \A p \in Live(pending \ q.takes, L) \ F : p.postWaitOwner \in Cues \ {c} => ~ isPlaying(p.postWaitOwner)
        /\ \A f \in F : f.kind # "start" => f.runId \in L \/ f.owner # c
    <3>1. IsFiniteSet(pending \ q.takes)
      BY FS_Subset
    <3> QED
      BY <3>1, FadeIsClosed
  <2> HIDE DEF F
  <2>4. SoundOk(faded, ended)
    BY <1>2 DEF SoundOk
  <2>5. \A d \in Cues : faded[d] = "on" /\ playing[d] # "on" => d = c
    BY <1>2
  <2>6. o.takes \in SUBSET pending /\ Closed(pending, L, o.takes)
    <3> DEFINE T == q.takes
    <3>1. Closed(pending, L, T) /\ Closed(pending \ T, L, F)
      BY <1>2, <2>3
    <3> HIDE DEF T
    <3>2. Closed(pending, L, T \cup F)
      BY <3>1, ClosedUnions
    <3> USE DEF T
    <3> QED
      BY <1>2, <2>2, <2>3, <3>2
  <2>7. \A e \in pending \ o.takes :
          /\ e.owner = c
          /\ e \in Live(pending, L) /\ e.postWaitOwner \in Cues \ {c} => ~ isPlaying(e.postWaitOwner)
    BY <2>2, <2>3 DEF Live
  <2>8. Cue[c].rule = "restart" /\ firing # 0 =>
              \A f \in o.takes : f.kind # "start" => f.runId \in L \/ f.owner # c \/ f.runId # firing
    <3> HIDE DEF faded, ended
    <3> QED
      BY <1>2, <2>2, <2>3
  <2> QED
    BY <2>2, <2>4, <2>5, <2>6, <2>7, <2>8
<1> QED
  BY <1>3, <1>4

-----------------------------------------------------------------------------
(* Beside the entries of its cues a controller may have those of a         *)
(* playlist on its timeline (Playlist): they belong to no cue of the list  *)
(* and hang on nothing.                                                    *)
Foreign(p) == /\ p.id \in Nat \ {0} /\ p.owner \in Nat \ Cues /\ p.kind \notin {"start", "observer"}
              /\ p.at \in Nat /\ p.runId = 0 /\ p.postWaitOwner = 0 /\ p.afterStartId = 0
IsEntry(p) == p \in Entry \/ Foreign(p)

(* The inductive invariant of the controller's book.  P and S are the book *)
(* and the timeline, n the next id: every entry has an id of its own, and  *)
(* what names a start (the follow put on for it, the start behind it)      *)
(* names its cue and its time too.                                         *)

BookOk(P, S, n) ==
  /\ S \subseteq P /\ IsFiniteSet(P) /\ n \in Nat \ {0}
  /\ \A p \in P : /\ IsEntry(p) /\ p.id < n /\ p.runId < n /\ p.afterStartId < n
                  /\ p.kind = "start" => p.runId = p.id /\ p.postWaitOwner < p.owner
                  /\ p.kind = "observer" => p.next \in Cues /\ p.postWaitOwner = 0 /\ p.afterStartId = 0
  /\ \A p, q \in P : p.id = q.id => p = q
  /\ \A s, e \in P :
       /\ e.kind = "observer" /\ e.runId = s.id => s.kind = "start" /\ e.owner = s.owner /\ e.at = s.at
       /\ e.kind = "start" /\ s.kind = "start" /\ e.afterStartId = s.id => e.postWaitOwner = s.owner

(* A walk has come down from its head, behind the cue it came from.  While *)
(* it stands at the head its time is not to come, and once it has cleared  *)
(* the earlier run of the head no start of the head is pending.            *)
WalkOk ==
  Walking =>
    /\ walk.head <= walk.i /\ walk.owner < walk.i /\ walk.startId < nextId
    /\ \A s \in pending : s.kind = "start" /\ s.id = walk.startId => s.owner = walk.owner
    /\ walk.i = walk.head =>
         /\ walk.t <= now
         /\ walk.cleared => \A s \in sched : s.kind = "start" => s.owner # walk.head

StepInv == PlainOk /\ BookOk(pending, sched, nextId) /\ WalkOk

(* Without a playlist there are the entries of the cues only.              *)
OnlyCues == pending \subseteq Entry

LEMMA StepInvTypes ==
  ASSUME StepInv, OnlyCues
  PROVE  TypeOK
BY DEF StepInv, PlainOk, BookOk, TypeOK, SoundOk, OnlyCues

LEMMA BookShrinks ==
  ASSUME NEW P, NEW S, NEW n, BookOk(P, S, n), NEW P2 \in SUBSET P, NEW S2 \in SUBSET P2
  PROVE  BookOk(P2, S2, n)
<1>1. IsFiniteSet(P2)
  BY FS_Subset DEF BookOk
<1> QED
  BY <1>1 DEF BookOk

(* A new entry takes the next id, and the cue and the time of the start it *)
(* names.                                                                  *)
LEMMA BookGrows ==
  ASSUME NEW P, NEW S, NEW n, BookOk(P, S, n),
         NEW e, IsEntry(e), e.id = n, e.runId <= n, e.afterStartId < n,
         e.kind = "start" => e.runId = n /\ e.postWaitOwner < e.owner,
         e.kind = "observer" => e.next \in Cues /\ e.postWaitOwner = 0 /\ e.afterStartId = 0 /\ e.runId < n,
         \A s \in P :
           /\ e.kind = "observer" /\ e.runId = s.id => s.kind = "start" /\ e.owner = s.owner /\ e.at = s.at
           /\ e.kind = "start" /\ s.kind = "start" /\ e.afterStartId = s.id => e.postWaitOwner = s.owner
  PROVE  BookOk(Track(P, IdsOf(S), e), S \cup {e}, n + 1)
<1> DEFINE Q == Track(P, IdsOf(S), e)
<1>1. Q \subseteq P \cup {e} /\ S \cup {e} \subseteq Q
  BY DEF Track, IdsOf, BookOk
<1>2. IsFiniteSet(Q)
  <2>1. IsFiniteSet(P \cup {e})
    BY FS_AddElement DEF BookOk
  <2> QED
    BY <1>1, <2>1, FS_Subset
<1>3. n \in Nat /\ \A p \in P : IsEntry(p) /\ p.id < n /\ p.runId < n /\ p.afterStartId < n
  BY DEF BookOk
<1>4. \A p \in P : p.id # n /\ p.runId # n /\ p.afterStartId # n
  BY <1>3 DEF Entry, IsEntry, Foreign
<1> HIDE DEF Q
<1>5. \A p \in Q : /\ IsEntry(p) /\ p.id < n + 1 /\ p.runId < n + 1 /\ p.afterStartId < n + 1
                   /\ p.kind = "start" => p.runId = p.id /\ p.postWaitOwner < p.owner
                   /\ p.kind = "observer" => p.next \in Cues /\ p.postWaitOwner = 0 /\ p.afterStartId = 0
  <2>1. ASSUME NEW p \in P
        PROVE  /\ IsEntry(p) /\ p.id < n + 1 /\ p.runId < n + 1 /\ p.afterStartId < n + 1
               /\ p.kind = "start" => p.runId = p.id /\ p.postWaitOwner < p.owner
               /\ p.kind = "observer" => p.next \in Cues /\ p.postWaitOwner = 0 /\ p.afterStartId = 0
    BY DEF BookOk, Entry, IsEntry, Foreign
  <2>2. /\ IsEntry(e) /\ e.id < n + 1 /\ e.runId < n + 1 /\ e.afterStartId < n + 1
    BY <1>3 DEF Entry, IsEntry, Foreign
  <2> QED
    BY <1>1, <2>1, <2>2
<1>6. \A p, q \in Q : p.id = q.id => p = q
  BY <1>1, <1>4 DEF BookOk
<1>7. ASSUME NEW s \in Q, NEW f \in Q
      PROVE  /\ f.kind = "observer" /\ f.runId = s.id => s.kind = "start" /\ f.owner = s.owner /\ f.at = s.at
             /\ f.kind = "start" /\ s.kind = "start" /\ f.afterStartId = s.id => f.postWaitOwner = s.owner
  <2>1. CASE s \in P /\ f \in P
    BY <1>7, <2>1 DEF BookOk
  <2>2. CASE s \in P /\ f = e
    BY <1>7, <2>2
  <2>3. CASE s = e /\ f \in P
    BY <1>4, <2>3
  <2>4. CASE s = e /\ f = e
    BY <1>7, <2>4 DEF Entry, IsEntry, Foreign
  <2> QED
    BY <1>1, <2>1, <2>2, <2>3, <2>4
<1>8. S \cup {e} \subseteq Q /\ n + 1 \in Nat \ {0}
  BY <1>1, <1>3
<1> QED
  BY <1>2, <1>5, <1>6, <1>7, <1>8 DEF BookOk, Q

LEMMA WalkStays ==
  ASSUME StepInv, walk' = walk, pending' \subseteq pending, sched' \subseteq sched,
         nextId' = nextId, now' \in Nat, now <= now'
  PROVE  WalkOk'
<1>1. CASE Walking
  <2>1. walk \in WalkState /\ now \in Nat
    BY <1>1, CuesAreRows DEF StepInv, PlainOk, Walking, SettingsAssumption
  <2> QED
    BY <1>1, <2>1 DEF StepInv, WalkOk, Walking, WalkState
<1>2. CASE ~ Walking
  BY <1>2 DEF Walking, WalkOk
<1> QED
  BY <1>1, <1>2

LEMMA WalkIsOver ==
  ASSUME walk' = NoWalk
  PROVE  WalkOk' /\ (walk = NoWalk \/ walk \in WalkState)'
BY DEF WalkOk, Walking

LEMMA WalkBegins ==
  ASSUME StepInv, NEW c \in Cues, NEW g \in BOOLEAN, walk' = WalkFrom(c, g), nextId' = nextId,
         pending' \subseteq pending, now' = now
  PROVE  WalkOk' /\ (walk = NoWalk \/ walk \in WalkState)'
<1>1. now \in Nat /\ nextId \in Nat \ {0}
  BY SettingsAssumption DEF StepInv, PlainOk, BookOk
<1>2. WalkFrom(c, g) \in WalkState
  BY <1>1, CuesAreRows DEF WalkFrom, WalkState
<1>3. \A s \in pending' : s.id # 0
  BY DEF StepInv, BookOk, Entry, IsEntry, Foreign
<1> QED
  BY <1>1, <1>2, <1>3, CuesAreRows DEF WalkFrom, WalkOk

(* A call that takes entries away and walks no sequence.                   *)
LEMMA BookTaken ==
  ASSUME StepInv, NEW X, Take(X), nextId' = nextId
  PROVE  BookOk(pending, sched, nextId)' /\ pending' \subseteq pending /\ sched' \subseteq sched
<1>1. pending' \in SUBSET pending /\ sched' \in SUBSET pending' /\ sched' \subseteq sched
  BY DEF StepInv, BookOk, Take
<1> QED
  BY <1>1, BookShrinks DEF StepInv

(* What follows a start in a walk keeps the book.                          *)
LEMMA GoOnIsOk ==
  ASSUME PlainOk, WalkOk, AtACue,
         NEW P, NEW S, NEW n, BookOk(P, S, n), NEW res, NEW startAt \in Nat, NEW r \in Nat, r < n,
         \A s \in P : s.id = r => s.kind = "start" /\ s.owner = walk.i /\ s.at = startAt,
         GoOn(P, S, n, res, startAt, r)
  PROVE  /\ BookOk(pending, sched, nextId)' /\ n <= nextId'
         /\ \A f \in sched' : f \in S \/ (f.id = n /\ f.kind = "observer")
         /\ S \subseteq sched'
         /\ WalkOk' /\ (walk = NoWalk \/ walk \in WalkState)' /\ playhead' \in Cues
<1> DEFINE c == walk.i
           f == Follow(n, c, startAt, c + 1, r)
<1>1. /\ walk \in WalkState /\ c \in Cues /\ c \in Nat \ {0} /\ c + 1 \in 1 .. Last + 1
      /\ n \in Nat \ {0} /\ walk.head \in Cues /\ walk.head <= c
  BY CuesAreRows DEF AtACue, Walking, PlainOk, WalkState, BookOk, WalkOk
<1>2. CASE (res = "ignored" \/ Cue[c].mode = "none") /\ Book(P, S, n) /\ Return(c + 1)
  <2>1. walk' = NoWalk /\ playhead' \in Cues
    BY <1>1, <1>2, ReturnIsOk DEF PlainOk
  <2> QED
    BY <1>1, <1>2, <2>1, WalkIsOver DEF Book
<1>3. CASE /\ Book(P, S, n)
           /\ walk' = [walk EXCEPT !.i = c + 1, !.t = startAt + Cue[c].post,
                                   !.owner = c, !.startId = r]
           /\ UNCHANGED playhead
  <2>1. walk' \in WalkState
    <3>1. startAt + Cue[c].post \in Nat
      BY <1>1, CuesAreRows
    <3> DEFINE t == startAt + Cue[c].post
               i == c + 1
    <3>2. t \in Nat /\ i \in 1 .. Last + 1 /\ c \in Cues
      BY <1>1, <3>1
    <3>3. walk' = [walk EXCEPT !.i = i, !.t = t, !.owner = c, !.startId = r]
      BY <1>3
    <3> HIDE DEF t, i, c
    <3> QED
      BY <1>1, <3>2, <3>3 DEF WalkState
  <2>2. /\ walk'.head = walk.head /\ walk'.i = c + 1 /\ walk'.owner = c /\ walk'.startId = r
    BY <1>1, <1>3 DEF WalkState
  <2>3. walk'.head <= walk'.i /\ walk'.owner < walk'.i /\ walk'.i # walk'.head
    BY <1>1, <2>2, CuesAreRows
  <2>4. WalkOk'
    BY <1>3, <2>2, <2>3 DEF WalkOk, Book
  <2> QED
    BY <1>1, <1>3, <2>1, <2>4 DEF Book, PlainOk
<1>4. CASE Book(P, S, n) /\ Return(sequenceEnd(walk.head))
  <2>1. walk' = NoWalk /\ playhead' \in Cues
    BY <1>1, <1>4, ReturnIsOk, SequenceEnds DEF PlainOk
  <2> QED
    BY <1>1, <1>4, <2>1, WalkIsOver DEF Book
<1>5. CASE /\ c + 1 \in Cues
           /\ Book(Track(P, IdsOf(S), f), S \cup {f}, n + 1)
           /\ Return(sequenceEnd(walk.head))
  <2>1. walk' = NoWalk /\ playhead' \in Cues
    BY <1>1, <1>5, ReturnIsOk, SequenceEnds DEF PlainOk
  <2>2. /\ IsEntry(f) /\ f.id = n /\ f.runId = r /\ f.afterStartId = 0 /\ f.postWaitOwner = 0
        /\ f.kind = "observer" /\ f.owner = c /\ f.at = startAt /\ f.next \in Cues
    BY <1>1, <1>5 DEF Follow, Entry, IsEntry
  <2>3. BookOk(Track(P, IdsOf(S), f), S \cup {f}, n + 1)
    <3> HIDE DEF f, c
    <3>1. \A s \in P :
            /\ f.kind = "observer" /\ f.runId = s.id => s.kind = "start" /\ f.owner = s.owner /\ f.at = s.at
            /\ f.kind = "start" /\ s.kind = "start" /\ f.afterStartId = s.id => f.postWaitOwner = s.owner
      BY <2>2 DEF c
    <3> QED
      BY <1>1, <2>2, <3>1, BookGrows
  <2> HIDE DEF f
  <2>4. BookOk(pending, sched, nextId)' /\ sched' = S \cup {f} /\ nextId' = n + 1
    BY <1>5, <2>3 DEF Book
  <2> QED
    BY <1>1, <2>1, <2>2, <2>4, WalkIsOver
<1> QED
  BY <1>2, <1>3, <1>4, <1>5, Zenon DEF GoOn

-----------------------------------------------------------------------------
(* Every step keeps the invariant, and what a call takes from the timeline *)
(* is closed.                                                              *)

Whole == \E R : /\ Closed(pending, IdsOf(sched), R)
                /\ sched \cap sched' = sched \ R

LEMMA NothingTaken ==
  ASSUME sched \subseteq sched'
  PROVE  Whole
<1>1. Closed(pending, IdsOf(sched), {}) /\ sched \cap sched' = sched \ {}
  BY DEF Closed
<1> QED
  BY <1>1 DEF Whole

LEMMA TakenWhole ==
  ASSUME NEW X, Take(X), Closed(pending, IdsOf(sched), X)
  PROVE  Whole
BY DEF Take, Whole

LEMMA PassesDisarmedOk ==
  ASSUME StepInv, WalkPassesDisarmed
  PROVE  StepInv' /\ Whole
<1>1. walk \in WalkState /\ walk.i \in Cues /\ walk' = [walk EXCEPT !.i = @ + 1]
  BY DEF WalkPassesDisarmed, AtACue, Walking, StepInv, PlainOk
<1>2. /\ walk' \in WalkState /\ walk'.i = walk.i + 1
      /\ walk'.head = walk.head /\ walk'.owner = walk.owner /\ walk'.startId = walk.startId
  BY <1>1, CuesAreRows, SMTT(30) DEF WalkState
<1>3. /\ UNCHANGED <<now, panicLatchUntil, playing, waits, armed, playhead, pending, sched, nextId>>
      /\ UNCHANGED <<phase, turn, commands, calm>>
  BY DEF WalkPassesDisarmed, sound, book, tickv
<1>4. walk.i \in Nat /\ walk.head \in Nat /\ walk.owner \in Nat
  BY <1>1, CuesAreRows DEF WalkState
<1>5. WalkOk'
  BY <1>1, <1>2, <1>3, <1>4 DEF StepInv, WalkOk, WalkPassesDisarmed, AtACue
<1>6. PlainOk'
  BY <1>2, <1>3 DEF StepInv, PlainOk, SoundOk
<1> QED
  BY <1>3, <1>5, <1>6, NothingTaken DEF StepInv

LEMMA AnswersOk ==
  ASSUME StepInv, WalkAnswers
  PROVE  StepInv' /\ Whole
<1> DEFINE L == IdsOf(sched)
<1>1. walk.i \in Cues /\ walk.i + 1 \in Nat \ {0} /\ walk' = NoWalk /\ playhead' \in Cues
  BY ReturnIsOk, CuesAreRows DEF WalkAnswers, AtACue, StepInv, PlainOk
<1>2. UNCHANGED <<now, panicLatchUntil, armed, nextId, phase, turn, commands, calm>>
  BY DEF WalkAnswers, tickv
<1>3. CASE UNCHANGED <<pending, sched, sound>>
  BY <1>1, <1>2, <1>3, WalkIsOver, NothingTaken DEF StepInv, PlainOk, SoundOk, sound
<1>4. ASSUME NEW o \in {Outcome("ignored", AllOf(pending, L, walk.i, 0), playing, waits)} \cup Trigger(walk.i, L, 0),
             Take(o.takes), playing' = o.playing, waits' = o.waits
      PROVE  StepInv' /\ Whole
  <2>1. SoundOk(o.playing, o.waits) /\ Closed(pending, L, o.takes)
    <3>1. IsFiniteSet(pending) /\ PlainOk
      BY DEF StepInv, BookOk
    <3>2. CASE o \in Trigger(walk.i, L, 0)
      BY <1>1, <3>1, <3>2, TriggerOutcome
    <3>3. CASE o = Outcome("ignored", AllOf(pending, L, walk.i, 0), playing, waits)
      <4>1. o.takes = AllOf(pending, L, walk.i, 0) /\ o.playing = playing /\ o.waits = waits
        BY <3>3 DEF Outcome
      <4> QED
        BY <3>1, <4>1, PendingIsClosed DEF PlainOk
    <3> QED
      BY <1>4, <3>2, <3>3
  <2>2. BookOk(pending, sched, nextId)'
    BY <1>2, <1>4, BookTaken
  <2> QED
    BY <1>1, <1>2, <1>4, <2>1, <2>2, WalkIsOver, TakenWhole DEF StepInv, PlainOk
<1>5. CASE ~ UNCHANGED <<pending, sched, sound>>
  <2>1. PICK o \in IF isCueActive(walk.i) THEN Trigger(walk.i, L, 0)
                   ELSE {Outcome("ignored", AllOf(pending, L, walk.i, 0), playing, waits)} :
             Take(o.takes) /\ playing' = o.playing /\ waits' = o.waits
    BY <1>5, Zenon DEF WalkAnswers, AllOf
  <2> QED
    BY <1>4, <2>1
<1> QED
  BY <1>3, <1>5

LEMMA StartsOverOk ==
  ASSUME StepInv, WalkStartsOver
  PROVE  StepInv' /\ Whole
<1> DEFINE L == IdsOf(sched)
           h == walk.head
           X == {cancelPendingFor(pending, L, k, k # h /\ isCueActive(k), 0) : k \in AlongTheChain(h)}
<1>1. /\ Take(UNION X) /\ walk' = [walk EXCEPT !.cleared = TRUE]
      /\ walk.i \in Cues /\ walk.i \in armed /\ walk.i = h /\ walk \in WalkState
      /\ UNCHANGED <<now, panicLatchUntil, playing, waits, armed, playhead, nextId, phase, turn, commands, calm>>
  BY DEF WalkStartsOver, FiredAgain, AtACue, Walking, StepInv, PlainOk, sound, tickv
<1>2. \A k : cancelPendingFor(pending, L, k, k # h /\ isCueActive(k), 0)
               \in {AllOf(pending, L, k, 0), StartsOf(pending, L, k, 0)}
  <2> TAKE k
  <2>1. CASE k # h /\ isCueActive(k)
    BY <2>1, Zenon DEF StartsOf
  <2>2. CASE ~ (k # h /\ isCueActive(k))
    BY <2>2, Zenon DEF AllOf
  <2> QED
    BY <2>1, <2>2
<1>3. IsFiniteSet(pending)
  BY DEF StepInv, BookOk
<1>4. \A R \in X : Closed(pending, L, R)
  <2>1. \A k : Closed(pending, L, AllOf(pending, L, k, 0)) /\ Closed(pending, L, StartsOf(pending, L, k, 0))
    BY <1>3, PendingIsClosed, StartsAreClosed
  <2>2. ASSUME NEW k \in AlongTheChain(h)
        PROVE  Closed(pending, L, cancelPendingFor(pending, L, k, k # h /\ isCueActive(k), 0))
    BY <1>2, <2>1
  <2> QED
    BY <2>2
<1>5. Closed(pending, L, UNION X)
  <2> HIDE DEF X
  <2> QED
    BY <1>4, ClosedUnions
<1>6. AllOf(pending, L, h, 0) \in X
  <2>1. h \in AlongTheChain(h)
    BY <1>1, CuesAreRows DEF AlongTheChain
  <2>2. cancelPendingFor(pending, L, h, h # h /\ isCueActive(h), 0) = AllOf(pending, L, h, 0)
    BY Zenon DEF AllOf
  <2> QED
    BY <2>1, <2>2
<1> HIDE DEF X
<1>7. /\ BookOk(pending, sched, nextId)' /\ pending' \subseteq pending /\ sched' \subseteq sched
  BY <1>1, BookTaken
<1>8. \A s \in sched' : s.owner # h
  <2>1. \A p \in pending : p.owner = h => p \in AllOf(pending, L, h, 0)
    BY <1>3, PendingIsClosed
  <2> QED
    BY <1>1, <1>6, <2>1 DEF Take, StepInv, BookOk
<1>9. /\ walk' \in WalkState /\ walk'.i = walk.i /\ walk'.head = h /\ walk'.t = walk.t
      /\ walk'.owner = walk.owner /\ walk'.startId = walk.startId
  BY <1>1 DEF WalkState
<1>10. WalkOk'
  <2>1. Walking
    BY DEF WalkStartsOver, AtACue
  <2> QED
    BY <1>1, <1>7, <1>8, <1>9, <2>1 DEF StepInv, WalkOk
<1>11. PlainOk'
  BY <1>1, <1>9 DEF StepInv, PlainOk, SoundOk
<1> QED
  BY <1>1, <1>5, <1>7, <1>10, <1>11, TakenWhole DEF StepInv

LEMMA SchedulesOk ==
  ASSUME StepInv, WalkSchedules
  PROVE  StepInv' /\ Whole
<1> DEFINE e == Start(nextId, walk.i, StartAt, walk.owner, walk.startId)
           P == Track(pending, IdsOf(sched), e)
           S == sched \cup {e}
<1>1. /\ AtACue /\ walk \in WalkState /\ walk.i \in Cues /\ StartAt \in Nat
      /\ GoOn(P, S, nextId + 1, "started", StartAt, nextId)
      /\ UNCHANGED <<now, panicLatchUntil, playing, waits, armed, phase, turn, commands, calm>>
  BY CuesAreRows DEF WalkSchedules, AtACue, Walking, StepInv, PlainOk, StartAt, WalkState, sound, tickv
<1>2. nextId \in Nat \ {0} /\ BookOk(pending, sched, nextId) /\ PlainOk /\ WalkOk /\ Walking
  BY <1>1 DEF StepInv, BookOk, AtACue
<1>3. /\ e \in Entry /\ IsEntry(e) /\ e.id = nextId /\ e.runId = nextId /\ e.kind = "start"
      /\ e.owner = walk.i /\ e.at = StartAt /\ e.postWaitOwner = walk.owner /\ e.afterStartId = walk.startId
  BY <1>1, <1>2 DEF Start, Entry, IsEntry, Foreign, WalkState
<1>4. BookOk(P, S, nextId + 1)
  <2>1. /\ e.postWaitOwner < e.owner /\ e.afterStartId < nextId
        /\ \A s \in pending : s.kind = "start" /\ e.afterStartId = s.id => e.postWaitOwner = s.owner
    BY <1>2, <1>3 DEF WalkOk
  <2> HIDE DEF e
  <2> QED
    BY <1>2, <1>3, <2>1, BookGrows
<1>5. \A s \in P : s.id = nextId => s.kind = "start" /\ s.owner = walk.i /\ s.at = StartAt
  <2>1. P \subseteq pending \cup {e} /\ \A s \in pending : s.id # nextId
    BY <1>2 DEF Track, BookOk, Entry, IsEntry, Foreign
  <2> QED
    BY <1>3, <2>1
<1> HIDE DEF P, S, e
<1>6. /\ BookOk(pending, sched, nextId)' /\ nextId + 1 <= nextId'
      /\ S \subseteq sched'
      /\ WalkOk' /\ (walk = NoWalk \/ walk \in WalkState)' /\ playhead' \in Cues
  <2>1. nextId + 1 \in Nat /\ nextId \in Nat /\ nextId < nextId + 1
    BY <1>2
  <2> QED
    BY <1>1, <1>2, <1>4, <1>5, <2>1, GoOnIsOk
<1>7. PlainOk'
  <2>1. 1 .. nextId \subseteq (1 .. nextId)'
    BY <1>2, <1>6 DEF BookOk
  <2> QED
    BY <1>1, <1>2, <1>6, <2>1 DEF PlainOk, SoundOk
<1> QED
  BY <1>6, <1>7, NothingTaken DEF StepInv, S

LEMMA StartsOk ==
  ASSUME StepInv, WalkStarts
  PROVE  StepInv' /\ Whole
<1> DEFINE L == IdsOf(sched)
<1>1. /\ AtACue /\ walk \in WalkState /\ walk.i \in Cues /\ StartAt \in Nat
      /\ UNCHANGED <<now, panicLatchUntil, armed, phase, turn, commands, calm>>
  BY CuesAreRows DEF WalkStarts, AtACue, Walking, StepInv, PlainOk, StartAt, WalkState, tickv
<1>2. PICK o \in StartById(walk.i, L, 0) :
        /\ GoOn(pending \ o.takes, sched \ o.takes, nextId, o.res, StartAt, 0)
        /\ playing' = o.playing /\ waits' = o.waits
  BY DEF WalkStarts
<1>3. nextId \in Nat \ {0} /\ BookOk(pending, sched, nextId) /\ PlainOk /\ WalkOk /\ IsFiniteSet(pending)
  BY DEF StepInv, BookOk
<1>4. SoundOk(o.playing, o.waits) /\ Closed(pending, L, o.takes)
  BY <1>1, <1>3, StartOutcome
<1>5. BookOk(pending \ o.takes, sched \ o.takes, nextId)
  <2>1. sched \ o.takes \subseteq pending \ o.takes
    BY <1>3 DEF BookOk
  <2> QED
    BY <1>3, <2>1, BookShrinks
<1>6. \A s \in pending : s.id # 0
  BY <1>3 DEF BookOk, Entry, IsEntry, Foreign
<1>7. /\ BookOk(pending, sched, nextId)' /\ nextId <= nextId'
      /\ \A f \in sched' : f \in sched \ o.takes \/ (f.id = nextId /\ f.kind = "observer")
      /\ sched \ o.takes \subseteq sched'
      /\ WalkOk' /\ (walk = NoWalk \/ walk \in WalkState)' /\ playhead' \in Cues
  BY <1>1, <1>2, <1>3, <1>5, <1>6, GoOnIsOk
<1>8. PlainOk'
  <2>1. 1 .. nextId \subseteq (1 .. nextId)'
    BY <1>3, <1>7 DEF BookOk
  <2> QED
    BY <1>1, <1>2, <1>3, <1>4, <1>7, <2>1 DEF PlainOk
<1>9. sched \cap sched' = sched \ o.takes
  <2>1. \A f \in sched : f.id # nextId
    BY <1>3 DEF BookOk, Entry, IsEntry, Foreign
  <2> QED
    BY <1>7, <2>1
<1> QED
  BY <1>4, <1>7, <1>8, <1>9 DEF StepInv, Whole

LEMMA WalkEndsOk ==
  ASSUME StepInv, WalkEnds
  PROVE  StepInv' /\ Whole
<1>1. walk.i \in Nat \ {0}
  BY DEF WalkEnds, Walking, StepInv, PlainOk, WalkState
<1>2. walk' = NoWalk /\ playhead' \in Cues
  BY <1>1, ReturnIsOk DEF WalkEnds, StepInv, PlainOk
<1> QED
  BY <1>2, WalkIsOver, NothingTaken
     DEF WalkEnds, StepInv, PlainOk, SoundOk, sound, book, tickv

(* A call of the operator that takes X and leaves the walks alone.         *)
LEMMA CallOk ==
  ASSUME StepInv, Command, NEW X, Take(X), Closed(pending, IdsOf(sched), X),
         SoundOk(playing', waits'), armed' \in SUBSET Cues, playhead' \in Cues, calm' \in BOOLEAN,
         UNCHANGED <<now, panicLatchUntil, nextId, walk, phase, turn>>
  PROVE  StepInv' /\ Whole
<1>1. BookOk(pending, sched, nextId)' /\ pending' \subseteq pending /\ sched' \subseteq sched
  BY BookTaken
<1>2. now \in Nat /\ commands' \in 0 .. MaxCommands
  BY SettingsAssumption DEF Command, StepInv, PlainOk
<1>3. WalkOk'
  BY <1>1, <1>2, WalkStays
<1>4. PlainOk'
  BY <1>2 DEF StepInv, PlainOk
<1> QED
  BY <1>1, <1>3, <1>4, TakenWhole DEF StepInv

LEMMA GoOk ==
  ASSUME StepInv, Go
  PROVE  StepInv' /\ Whole
<1>1. /\ Command /\ calm' = FALSE /\ playhead \in Cues /\ IsFiniteSet(pending) /\ PlainOk
      /\ UNCHANGED <<now, panicLatchUntil, armed, nextId, phase, turn>>
  BY DEF Go, StepInv, PlainOk, BookOk, tickv
<1>2. CASE /\ \E o \in Trigger(playhead, IdsOf(sched), 0) :
                Take(o.takes) /\ playing' = o.playing /\ waits' = o.waits
           /\ playhead' = Min({playhead + 1, Last})
           /\ UNCHANGED walk
  <2>1. PICK o \in Trigger(playhead, IdsOf(sched), 0) :
                Take(o.takes) /\ playing' = o.playing /\ waits' = o.waits
    BY <1>2
  <2>2. SoundOk(o.playing, o.waits) /\ Closed(pending, IdsOf(sched), o.takes)
    BY <1>1, TriggerOutcome
  <2>3. playhead' \in Cues
    <3>1. playhead + 1 \in Nat \ {0} /\ {playhead + 1, Last} \subseteq Nat
      BY <1>1, CuesAreRows
    <3>2. \E x \in {playhead + 1, Last} : \A y \in {playhead + 1, Last} : x <= y
      BY <3>1, LeastElement
    <3>3. /\ Min({playhead + 1, Last}) \in {playhead + 1, Last}
          /\ Min({playhead + 1, Last}) <= Last
      BY <3>2 DEF Min
    <3> QED
      BY <1>2, <3>1, <3>3, CuesAreRows
  <2> QED
    BY <1>1, <1>2, <2>1, <2>2, <2>3, CallOk DEF PlainOk
<1>3. CASE walk' = WalkFrom(playhead, TRUE) /\ UNCHANGED <<pending, sched, sound, playhead>>
  <2>1. WalkOk' /\ (walk = NoWalk \/ walk \in WalkState)'
    BY <1>1, <1>3, WalkBegins
  <2>2. commands' \in 0 .. MaxCommands
    BY <1>1, SettingsAssumption DEF Command, PlainOk
  <2>3. PlainOk'
    BY <1>1, <1>3, <2>1, <2>2 DEF PlainOk, SoundOk, sound
  <2> QED
    BY <1>1, <1>3, <2>1, <2>3, NothingTaken DEF StepInv
<1> QED
  BY <1>2, <1>3, Zenon DEF Go

LEMMA HotkeyOk ==
  ASSUME StepInv, Hotkey
  PROVE  StepInv' /\ Whole
<1>1. PICK c \in armed : Hotkey /\ Command /\ ~ isPanicLatched /\ fireSequence(c)
  BY DEF Hotkey
<1>2. /\ calm' = FALSE
      /\ UNCHANGED <<now, panicLatchUntil, playing, waits, armed, playhead, pending, sched, nextId, phase, turn>>
  BY DEF Hotkey, sound, book, tickv
<1>3. c \in Cues /\ walk' = WalkFrom(c, FALSE)
  BY <1>1 DEF StepInv, PlainOk, fireSequence
<1>4. WalkOk' /\ (walk = NoWalk \/ walk \in WalkState)'
  BY <1>2, <1>3, WalkBegins
<1>5. commands' \in 0 .. MaxCommands
  BY <1>1, SettingsAssumption DEF Command, StepInv, PlainOk
<1>6. PlainOk'
  BY <1>2, <1>4, <1>5 DEF StepInv, PlainOk, SoundOk
<1> QED
  BY <1>2, <1>4, <1>6, NothingTaken DEF StepInv

LEMMA FireOk ==
  ASSUME StepInv, Fire
  PROVE  StepInv' /\ Whole
<1>1. PICK c \in armed : \E o \in StartById(c, IdsOf(sched), 0) \cup Trigger(c, IdsOf(sched), 0) :
        Take(o.takes) /\ playing' = o.playing /\ waits' = o.waits
  BY DEF Fire
<1>2. PICK o \in StartById(c, IdsOf(sched), 0) \cup Trigger(c, IdsOf(sched), 0) :
        Take(o.takes) /\ playing' = o.playing /\ waits' = o.waits
  BY <1>1
<1>3. PlainOk /\ IsFiniteSet(pending) /\ c \in Cues
  BY DEF StepInv, PlainOk, BookOk
<1>4. SoundOk(o.playing, o.waits) /\ Closed(pending, IdsOf(sched), o.takes)
  BY <1>3, TriggerOutcome, StartOutcome
<1>5. Command /\ calm' = FALSE /\ UNCHANGED <<now, panicLatchUntil, armed, playhead, nextId, walk, phase, turn>>
  BY DEF Fire, tickv
<1> QED
  BY <1>2, <1>3, <1>4, <1>5, CallOk DEF PlainOk

LEMMA CancelsOk ==
  ASSUME StepInv, (\E c \in Cues : stopCue(c)) \/ cancelScheduledStart \/ cancelStart
  PROVE  StepInv' /\ Whole
<1>1. PlainOk /\ IsFiniteSet(pending)
  BY DEF StepInv, BookOk
<1>2. ASSUME NEW c \in Cues, stopCue(c)
      PROVE  StepInv' /\ Whole
  <2>1. /\ Command /\ Take(AllOf(pending, IdsOf(sched), c, 0))
        /\ playing' = StopSound(c) /\ waits' = [waits EXCEPT ![c] = 0]
        /\ UNCHANGED <<now, panicLatchUntil, armed, playhead, nextId, walk, phase, turn, calm>>
    BY <1>2 DEF stopCue, AllOf, tickv
  <2>2. Closed(pending, IdsOf(sched), AllOf(pending, IdsOf(sched), c, 0))
    BY <1>1, PendingIsClosed
  <2>3. SoundOk(playing', waits')
    BY <1>1, <2>1 DEF PlainOk, SoundOk, StopSound
  <2> QED
    BY <1>1, <2>1, <2>2, <2>3, CallOk DEF PlainOk
<1>3. CASE cancelScheduledStart
  <2>1. PICK c \in Cues : Take(StartsOf(pending, IdsOf(sched), c, 0))
    BY <1>3 DEF cancelScheduledStart, StartsOf
  <2>2. /\ Command
        /\ UNCHANGED <<now, panicLatchUntil, playing, waits, armed, playhead, nextId, walk, phase, turn, calm>>
    BY <1>3 DEF cancelScheduledStart, sound, tickv
  <2>3. Closed(pending, IdsOf(sched), StartsOf(pending, IdsOf(sched), c, 0))
    BY <1>1, StartsAreClosed
  <2> QED
    BY <1>1, <2>1, <2>2, <2>3, CallOk DEF PlainOk
<1>4. CASE cancelStart
  <2>1. PICK p \in pending : p.kind = "start" /\ p.id \in IdsOf(sched) /\ Take(WithItsChain(pending, IdsOf(sched), {p}))
    BY <1>4 DEF cancelStart
  <2>2. /\ Command
        /\ UNCHANGED <<now, panicLatchUntil, playing, waits, armed, playhead, nextId, walk, phase, turn, calm>>
    BY <1>4 DEF cancelStart, sound, tickv
  <2>3. {p} \in SUBSET Live(pending, IdsOf(sched))
    BY <2>1 DEF Live
  <2>4. Closed(pending, IdsOf(sched), WithItsChain(pending, IdsOf(sched), {p}))
    BY <1>1, <2>3, WithItsChainIsClosed
  <2> QED
    BY <1>1, <2>1, <2>2, <2>4, CallOk DEF PlainOk
<1> QED
  BY <1>2, <1>3, <1>4

LEMMA StopEverythingOk ==
  ASSUME StepInv, panicAll \/ hardStopAll \/ resetAll
  PROVE  StepInv' /\ Whole
<1>1. /\ pending' = {} /\ sched' = {} /\ calm' = TRUE /\ Command
      /\ waits' = [c \in Cues |-> 0]
      /\ playing' = [c \in Cues |-> IF playing[c] = "on" THEN "stopping" ELSE playing[c]]
      /\ UNCHANGED <<now, armed, nextId, walk, phase, turn>>
  BY DEF panicAll, hardStopAll, resetAll, StopEverything, IdsOf, StepInv, BookOk, tickv
<1>2. panicLatchUntil' \in Nat /\ playhead' \in Cues
  BY SettingsAssumption, CuesAreRows DEF panicAll, hardStopAll, resetAll, StepInv, PlainOk
<1>3. SoundOk(playing', waits')
  BY <1>1 DEF StepInv, PlainOk, SoundOk
<1>4. BookOk(pending, sched, nextId)'
  BY <1>1, FS_EmptySet DEF StepInv, BookOk
<1>5. WalkOk'
  BY <1>1, SettingsAssumption, WalkStays DEF StepInv, PlainOk
<1>6. PlainOk'
  BY <1>1, <1>2, <1>3, SettingsAssumption DEF StepInv, PlainOk, Command
<1>7. Whole
  <2>1. Closed(pending, IdsOf(sched), pending) /\ sched \cap sched' = sched \ pending
    BY <1>1 DEF Closed, cancelRunOf, Behind, StepInv, BookOk
  <2> QED
    BY <2>1 DEF Whole
<1> QED
  BY <1>4, <1>5, <1>6, <1>7 DEF StepInv

LEMMA ArmOk ==
  ASSUME StepInv, Arm
  PROVE  StepInv' /\ Whole
<1>1. /\ armed' \in SUBSET Cues /\ Command
      /\ UNCHANGED <<now, panicLatchUntil, playing, waits, playhead, pending, sched, nextId, walk, phase, turn, calm>>
  BY DEF Arm, StepInv, PlainOk, sound, book, tickv
<1>2. Take({}) /\ Closed(pending, IdsOf(sched), {})
  BY <1>1 DEF Take, Closed
<1> QED
  BY <1>1, <1>2, CallOk DEF StepInv, PlainOk, SoundOk

(* The steps of the tick, of the audio thread and of the clock.            *)
LEMMA QuietOk ==
  ASSUME StepInv, BeginTick \/ CollectFollows \/ EndTick \/ EngineEnds \/ Advance \/ UNCHANGED vars
  PROVE  StepInv' /\ Whole
<1>1. UNCHANGED <<panicLatchUntil, waits, armed, playhead, pending, sched, nextId, walk, commands, calm>>
  BY Zenon DEF BeginTick, CollectFollows, EndTick, EngineEnds, Advance, vars, sound, book
<1>2. now \in Nat /\ now' \in 0 .. MaxTime /\ now <= now'
  <2>1. now \in 0 .. MaxTime /\ MaxTime \in Nat
    BY SettingsAssumption DEF StepInv, PlainOk
  <2>2. now' = now \/ (now < MaxTime /\ now' = now + 1)
    BY Zenon DEF BeginTick, CollectFollows, EndTick, EngineEnds, Advance, vars
  <2> QED
    BY <2>1, <2>2
<1>3. SoundOk(playing', waits')
  <2>1. CASE EngineEnds
    BY <1>1, <2>1 DEF EngineEnds, StepInv, PlainOk, SoundOk
  <2>2. CASE playing' = playing
    BY <1>1, <2>2 DEF StepInv, PlainOk
  <2> QED
    BY <2>1, <2>2, Zenon DEF BeginTick, CollectFollows, EndTick, Advance, vars, sound
<1>4. phase' \in {"idle", "timed", "watches"} /\ turn' \subseteq 1 .. nextId
  <2>1. \A e \in sched : e.id \in 1 .. nextId
    BY DEF StepInv, BookOk, Entry, IsEntry, Foreign
  <2>2. CASE BeginTick \/ CollectFollows \/ EndTick
    BY <2>1, <2>2 DEF BeginTick, CollectFollows, EndTick, IdsOf
  <2>3. CASE UNCHANGED <<phase, turn>>
    BY <2>3 DEF StepInv, PlainOk
  <2> QED
    BY <2>2, <2>3, Zenon DEF EngineEnds, Advance, vars, tickv
<1>5. WalkOk'
  BY <1>1, <1>2, WalkStays
<1>6. PlainOk'
  BY <1>1, <1>2, <1>3, <1>4 DEF StepInv, PlainOk
<1> QED
  BY <1>1, <1>5, <1>6, NothingTaken DEF StepInv

LEMMA FollowOk ==
  ASSUME StepInv, RunFollow
  PROVE  StepInv'
<1>1. PICK f \in Due : /\ f.kind = "observer" /\ turn' = turn \ {f.id}
                       /\ \/ UNCHANGED <<sched, walk>>
                          \/ sched' = sched \ {f} /\ fireSequence(f.next)
  BY DEF RunFollow
<1>2. UNCHANGED <<now, panicLatchUntil, playing, waits, armed, playhead, pending, nextId, phase, commands, calm>>
  BY DEF RunFollow, sound
<1>3. now \in Nat /\ f \in sched /\ sched' \in SUBSET pending' /\ sched' \subseteq sched
  BY <1>1, <1>2, SettingsAssumption DEF Due, StepInv, PlainOk, BookOk
<1>4. BookOk(pending, sched, nextId)'
  BY <1>2, <1>3, BookShrinks DEF StepInv
<1>5. WalkOk' /\ (walk = NoWalk \/ walk \in WalkState)'
  <2>1. CASE walk' = walk
    BY <1>2, <1>3, <2>1, WalkStays DEF StepInv, PlainOk
  <2>2. CASE walk' = WalkFrom(f.next, FALSE)
    <3>1. f.next \in Cues
      BY <1>1, <1>3 DEF StepInv, BookOk
    <3> QED
      BY <1>2, <2>2, <3>1, WalkBegins
  <2> QED
    BY <1>1, <2>1, <2>2 DEF fireSequence
<1>6. PlainOk'
  BY <1>1, <1>2, <1>5 DEF StepInv, PlainOk, SoundOk
<1> QED
  BY <1>4, <1>5, <1>6 DEF StepInv

(* The turn of a start: it is off the timeline when its cue is started.    *)
LEMMA RunStartOk ==
  ASSUME StepInv, RunStart
  PROVE  /\ StepInv'
         /\ \E e \in Due : \E o \in StartById(e.owner, IdsOf(sched) \ {e.id}, e.id) :
              /\ e.kind = "start" /\ turn' = turn \ {e.id}
              /\ pending' = pending \ o.takes /\ sched' = (sched \ {e}) \ o.takes
              /\ playing' = o.playing /\ waits' = o.waits
<1>1. PICK e \in Due : \E o \in StartById(e.owner, IdsOf(sched) \ {e.id}, e.id) :
              /\ e.kind = "start" /\ turn' = turn \ {e.id}
              /\ pending' = pending \ o.takes /\ sched' = (sched \ {e}) \ o.takes
              /\ playing' = o.playing /\ waits' = o.waits
  BY DEF RunStart
<1>2. PICK o \in StartById(e.owner, IdsOf(sched) \ {e.id}, e.id) :
              /\ e.kind = "start" /\ turn' = turn \ {e.id}
              /\ pending' = pending \ o.takes /\ sched' = (sched \ {e}) \ o.takes
              /\ playing' = o.playing /\ waits' = o.waits
  BY <1>1
<1>3. /\ e \in sched /\ e.owner \in Cues /\ e.id \in Nat /\ PlainOk /\ IsFiniteSet(pending)
      /\ UNCHANGED <<now, panicLatchUntil, armed, playhead, nextId, walk, phase, commands, calm>>
  BY <1>2 DEF Due, StepInv, BookOk, Entry, IsEntry, Foreign, RunStart
<1>4. SoundOk(o.playing, o.waits)
  BY <1>3, StartOutcome
<1>5. pending' \in SUBSET pending /\ sched' \in SUBSET pending' /\ sched' \subseteq sched
  BY <1>2 DEF StepInv, BookOk
<1>6. BookOk(pending, sched, nextId)'
  BY <1>3, <1>5, BookShrinks DEF StepInv
<1>7. WalkOk'
  BY <1>3, <1>5, SettingsAssumption, WalkStays DEF PlainOk
<1>8. PlainOk'
  BY <1>2, <1>3, <1>4 DEF PlainOk
<1> QED
  BY <1>1, <1>6, <1>7, <1>8 DEF StepInv

LEMMA StepInvStep ==
  ASSUME StepInv, [Next]_vars
  PROVE  StepInv' /\ (Whole \/ RunFollow \/ RunStart)
<1>1. CASE Operator
  BY <1>1, GoOk, HotkeyOk, FireOk, CancelsOk, StopEverythingOk, ArmOk DEF Operator
<1>2. CASE Walk
  BY <1>2, PassesDisarmedOk, AnswersOk, StartsOverOk, SchedulesOk, StartsOk, WalkEndsOk DEF Walk
<1>3. CASE Tick \/ EngineEnds \/ Advance \/ UNCHANGED vars
  BY <1>3, QuietOk, FollowOk, RunStartOk DEF Tick
<1> QED
  BY <1>1, <1>2, <1>3 DEF Next

LEMMA StepInvInit ==
  ASSUME Init
  PROVE  StepInv
<1>1. PICK rows \in {Cues, Cues \ {Last}} : InitWith(rows, 1)
  BY DEF Init
<1>2. /\ now = 0 /\ panicLatchUntil = 0 /\ playing = [c \in Cues |-> "off"] /\ waits = [c \in Cues |-> 0]
      /\ armed \in SUBSET Cues /\ playhead = 1 /\ pending = {} /\ sched = {} /\ nextId = 1 /\ walk = NoWalk
      /\ phase = "idle" /\ turn = {} /\ commands = 0 /\ calm = TRUE
  BY <1>1 DEF InitWith
<1>3. PlainOk
  BY <1>2, CuesAreRows, SettingsAssumption DEF PlainOk, SoundOk
<1>4. BookOk(pending, sched, nextId)
  BY <1>2, FS_EmptySet DEF BookOk
<1> QED
  BY <1>2, <1>3, <1>4 DEF StepInv, WalkOk, Walking

LEMMA Invariance == Spec => []StepInv
<1>1. StepInv /\ [Next]_vars => StepInv'
  BY StepInvStep
<1> QED
  BY <1>1, StepInvInit, PTL DEF Spec

(* What is new in the book or on the timeline is a start or an observer,   *)
(* with a new id.                                                          *)
LEMMA BookGrowsByCues ==
  ASSUME nextId \in Nat, [Next]_vars
  PROVE  /\ \A p \in pending' : p \in pending \/ (p.kind \in {"start", "observer"} /\ nextId <= p.id)
         /\ \A p \in sched' : p \in sched \/ (p.kind \in {"start", "observer"} /\ nextId <= p.id)
         /\ nextId <= nextId'
<1> DEFINE New(P, S, n) == /\ \A p \in pending' : p \in P \/ (p.kind = "observer" /\ p.id = n)
                           /\ \A p \in sched' : p \in S \/ (p.kind = "observer" /\ p.id = n)
                           /\ nextId' = n \/ nextId' = n + 1
<1>1. ASSUME NEW P, NEW S, NEW n, NEW res, NEW startAt, NEW r, GoOn(P, S, n, res, startAt, r)
      PROVE  New(P, S, n)
  <2>1. CASE Book(P, S, n)
    BY <2>1 DEF Book
  <2>2. CASE \E f : f.kind = "observer" /\ f.id = n /\ Book(Track(P, IdsOf(S), f), S \cup {f}, n + 1)
    BY <2>2 DEF Book, Track
  <2>3. /\ Follow(n, walk.i, startAt, walk.i + 1, r).kind = "observer"
        /\ Follow(n, walk.i, startAt, walk.i + 1, r).id = n
    BY DEF Follow
  <2> QED
    BY <1>1, <2>1, <2>2, <2>3, Zenon DEF GoOn
<1>2. CASE WalkStarts
  <2>1. PICK o : New(pending \ o.takes, sched \ o.takes, nextId)
    BY <1>1, <1>2 DEF WalkStarts
  <2> QED
    BY <2>1
<1>3. CASE WalkSchedules
  <2> DEFINE e == Start(nextId, walk.i, StartAt, walk.owner, walk.startId)
  <2>1. New(Track(pending, IdsOf(sched), e), sched \cup {e}, nextId + 1)
    BY <1>1, <1>3 DEF WalkSchedules
  <2>2. e.kind = "start" /\ e.id = nextId
    BY DEF Start
  <2> QED
    BY <2>1, <2>2 DEF Track
<1>4. CASE ~ (WalkStarts \/ WalkSchedules)
  <2> SUFFICES pending' \subseteq pending /\ sched' \subseteq sched /\ nextId' = nextId
    OBVIOUS
  <2>1. CASE Operator
    BY <2>1 DEF Operator, Go, Hotkey, Fire, stopCue, cancelScheduledStart, cancelStart, panicAll,
                hardStopAll, resetAll, StopEverything, Arm, Take, book
  <2>2. CASE WalkPassesDisarmed \/ WalkAnswers \/ WalkStartsOver \/ WalkEnds
    BY <2>2 DEF WalkPassesDisarmed, WalkAnswers, WalkStartsOver, WalkEnds, Take, book
  <2>3. CASE Tick \/ EngineEnds \/ Advance \/ UNCHANGED vars
    BY <2>3 DEF Tick, BeginTick, RunStart, CollectFollows, RunFollow, EndTick, EngineEnds, Advance, vars, book
  <2> QED
    BY <1>4, <2>1, <2>2, <2>3 DEF Next, Walk
<1> QED
  BY <1>2, <1>3, <1>4

(* The controller's state keeps its types: every entry names a row of the  *)
(* list, a walk stands on a row or behind the last one, and the playhead   *)
(* never leaves the list.                                                  *)
THEOREM TypeCorrect == Spec => []TypeOK
<1>1. StepInv /\ OnlyCues => TypeOK
  BY StepInvTypes
<1>2. StepInv /\ OnlyCues /\ [Next]_vars => OnlyCues'
  <2> SUFFICES ASSUME StepInv, OnlyCues, [Next]_vars, NEW p \in pending'
               PROVE  p \in Entry
    BY DEF OnlyCues
  <2>1. StepInv'
    BY StepInvStep
  <2>2. IsEntry(p)
    BY <2>1 DEF StepInv, BookOk
  <2>3. p \in pending \/ p.kind \in {"start", "observer"}
    BY BookGrowsByCues DEF StepInv, BookOk
  <2> QED
    BY <2>2, <2>3 DEF OnlyCues, IsEntry, Foreign
<1>3. Init => OnlyCues
  BY DEF Init, InitWith, OnlyCues
<1> QED
  BY <1>1, <1>2, <1>3, Invariance, PTL DEF Spec

-----------------------------------------------------------------------------
(* A start that leaves the timeline otherwise than by its turn takes along *)
(* what hangs off it: cancelRunOf, cancelChainBehind and all that call     *)
(* them, in every list, however long the chain behind the start.           *)
TakesWhatHangsOff ==
  \A s \in sched \ sched' : s.kind = "start" /\ ~ Runs(s.id) =>
    \A e \in sched' \cap sched : /\ e.kind = "observer" => e.runId # s.id
                                 /\ e.kind = "start" => e.afterStartId # s.id

LEMMA CancelsWhole ==
  ASSUME StepInv, [Next]_vars
  PROVE  TakesWhatHangsOff
<1> SUFFICES ASSUME StepInv, [Next]_vars,
                    NEW s \in sched \ sched', s.kind = "start", ~ Runs(s.id),
                    NEW e \in sched' \cap sched,
                    (e.kind = "observer" /\ e.runId = s.id) \/ (e.kind = "start" /\ e.afterStartId = s.id)
             PROVE  FALSE
  BY DEF TakesWhatHangsOff
<1>1. /\ s \in pending /\ e \in pending /\ s.id \in IdsOf(sched) /\ e.id \in IdsOf(sched) /\ s.id # 0
      /\ e.kind = "observer" => e.owner = s.owner
      /\ e.kind = "start" => e.postWaitOwner = s.owner
  BY DEF StepInv, BookOk, Entry, IsEntry, Foreign, IdsOf
<1>2. \A L : /\ e.kind = "observer" => e \in cancelRunOf(pending, s.owner, s.id)
             /\ e.kind = "start" /\ e.id \in L => e \in Behind(pending, L, s.owner, s.id)
  BY <1>1 DEF cancelRunOf, Behind
<1>3. CASE Whole
  <2>1. PICK R : Closed(pending, IdsOf(sched), R) /\ sched \cap sched' = sched \ R
    BY <1>3 DEF Whole
  <2>2. s \in R
    BY <2>1
  <2>3. e \in R
    BY <1>1, <1>2, <2>1, <2>2 DEF Closed
  <2> QED
    BY <2>1, <2>3
<1>4. CASE RunFollow
  BY <1>4 DEF RunFollow, Due
<1>5. CASE RunStart
  <2>1. PICK d \in Due : \E o \in StartById(d.owner, IdsOf(sched) \ {d.id}, d.id) :
          /\ d.kind = "start" /\ turn' = turn \ {d.id}
          /\ sched' = (sched \ {d}) \ o.takes
    BY <1>5, RunStartOk
  <2>2. PICK o \in StartById(d.owner, IdsOf(sched) \ {d.id}, d.id) :
          /\ d.kind = "start" /\ turn' = turn \ {d.id}
          /\ sched' = (sched \ {d}) \ o.takes
    BY <2>1
  <2>3. d \in sched /\ d.id \in turn /\ d.owner \in Cues /\ d.id \in Nat /\ PlainOk /\ IsFiniteSet(pending)
    BY <2>2 DEF Due, StepInv, BookOk, Entry, IsEntry, Foreign
  <2>4. s # d
    BY <1>5, <2>2, <2>3 DEF Runs, RunStart
  <2>5. s.id # d.id /\ e.id # d.id
    BY <1>1, <2>2, <2>3, <2>4 DEF StepInv, BookOk
  <2>6. Closed(pending, IdsOf(sched) \ {d.id}, o.takes)
    BY <2>3, StartOutcome
  <2>7. s \in o.takes
    BY <2>2, <2>4
  <2>8. e \in o.takes
    BY <1>1, <1>2, <2>5, <2>6, <2>7 DEF Closed
  <2> QED
    BY <2>2, <2>8
<1> QED
  BY <1>3, <1>4, <1>5, StepInvStep

THEOREM CancelledWhole == Spec => NothingHangsOffACancelledStart
<1>1. StepInv /\ [Next]_vars => [TakesWhatHangsOff]_vars
  BY CancelsWhole
<1> QED
  BY <1>1, Invariance, PTL DEF Spec, NothingHangsOffACancelledStart, TakesWhatHangsOff

(* A stop of a cue finds all of it in the book: its starts and follows of  *)
(* every run, and the starts that wait out its post-wait.                  *)
THEOREM StoppedWhole == Spec => StopTakesEverythingOfACue
<1> DEFINE A == \A c \in Cues : stopCue(c) => \A e \in sched' : e.owner # c /\ e.postWaitOwner # c
<1>1. StepInv /\ [Next]_vars => [A]_vars
  <2> SUFFICES ASSUME StepInv, NEW c \in Cues, stopCue(c), NEW e \in sched'
               PROVE  e.owner # c /\ e.postWaitOwner # c
    OBVIOUS
  <2>1. e \in sched /\ e \in pending /\ e \notin AllOf(pending, IdsOf(sched), c, 0)
    BY DEF stopCue, Take, AllOf, StepInv, BookOk
  <2>2. IsFiniteSet(pending) /\ e.id \in IdsOf(sched) /\ c # 0 /\ IsEntry(e)
    BY <2>1, CuesAreRows DEF IdsOf, StepInv, BookOk
  <2>3. e.owner # c
    BY <2>1, <2>2, PendingIsClosed
  <2>4. CASE e.kind = "start"
    BY <2>1, <2>2, <2>3, <2>4, PendingIsClosed DEF Live
  <2>5. CASE e.kind = "observer"
    BY <2>1, <2>2, <2>3, <2>5 DEF StepInv, BookOk
  <2>6. CASE e.kind \notin {"start", "observer"}
    BY <2>2, <2>3, <2>6 DEF IsEntry, Foreign, Entry
  <2> QED
    BY <2>4, <2>5, <2>6
<1> QED
  BY <1>1, Invariance, PTL DEF Spec, StopTakesEverythingOfACue

-----------------------------------------------------------------------------
(* What the remaining properties of a step need to know of it: who adds    *)
(* starts, who has turns.                                                  *)

LEMMA GoOnAddsFollows ==
  ASSUME NEW P, NEW S, NEW n, NEW res, NEW startAt, NEW r, GoOn(P, S, n, res, startAt, r)
  PROVE  \A f \in sched' : f \in S \/ f.kind = "observer"
<1>1. CASE Book(P, S, n)
  BY <1>1 DEF Book
<1>2. CASE \E f : f.kind = "observer" /\ Book(Track(P, IdsOf(S), f), S \cup {f}, n + 1)
  BY <1>2 DEF Book
<1>3. Follow(n, walk.i, startAt, walk.i + 1, r).kind = "observer"
  BY DEF Follow
<1> QED
  BY <1>1, <1>2, <1>3, Zenon DEF GoOn

LEMMA OnlyWalksSchedule ==
  ASSUME [Next]_vars, NEW e \in sched' \ sched, e.kind = "start"
  PROVE  /\ WalkSchedules
         /\ e = Start(nextId, walk.i, StartAt, walk.owner, walk.startId)
         /\ \A d \in sched' : d.kind = "start" => d = e \/ d \in sched
<1>1. CASE Operator
  <2>1. sched' \subseteq sched
    BY <1>1 DEF Operator, Go, Hotkey, Fire, stopCue, cancelScheduledStart, cancelStart, panicAll,
                hardStopAll, resetAll, StopEverything, Arm, Take, book
  <2> QED
    BY <2>1
<1>2. CASE WalkPassesDisarmed \/ WalkAnswers \/ WalkStartsOver \/ WalkEnds
  <2>1. sched' \subseteq sched
    BY <1>2 DEF WalkPassesDisarmed, WalkAnswers, WalkStartsOver, WalkEnds, Take, book
  <2> QED
    BY <2>1
<1>3. CASE WalkStarts
  <2>1. \A f \in sched' : f \in sched \/ f.kind = "observer"
    BY <1>3, GoOnAddsFollows DEF WalkStarts
  <2> QED
    BY <2>1
<1>4. CASE WalkSchedules
  <2> DEFINE n == Start(nextId, walk.i, StartAt, walk.owner, walk.startId)
  <2>1. \A f \in sched' : f \in sched \cup {n} \/ f.kind = "observer"
    BY <1>4, GoOnAddsFollows DEF WalkSchedules
  <2> HIDE DEF n
  <2>2. e = n /\ \A d \in sched' : d.kind = "start" => d = e \/ d \in sched
    BY <2>1
  <2> QED
    BY <1>4, <2>2 DEF n
<1>5. CASE Tick \/ EngineEnds \/ Advance \/ UNCHANGED vars
  <2>1. sched' \subseteq sched
    BY <1>5 DEF Tick, BeginTick, RunStart, CollectFollows, RunFollow, EndTick, EngineEnds, Advance, vars, book
  <2> QED
    BY <2>1
<1> QED
  BY <1>1, <1>2, <1>3, <1>4, <1>5 DEF Next, Walk

LEMMA OnlyTicksTakeTurns ==
  ASSUME Operator \/ Walk \/ EngineEnds \/ Advance \/ UNCHANGED vars
  PROVE  UNCHANGED <<phase, turn>>
<1>1. CASE Operator
  BY <1>1 DEF Operator, Go, Hotkey, Fire, stopCue, cancelScheduledStart, cancelStart, panicAll,
              hardStopAll, resetAll, StopEverything, Arm, tickv
<1>2. CASE Walk
  BY <1>2 DEF Walk, WalkPassesDisarmed, WalkAnswers, WalkStartsOver, WalkEnds, WalkStarts, WalkSchedules, tickv
<1>3. CASE EngineEnds \/ Advance \/ UNCHANGED vars
  BY <1>3 DEF EngineEnds, Advance, vars, tickv
<1> QED
  BY <1>1, <1>2, <1>3

-----------------------------------------------------------------------------
(* The head of a sequence has one scheduled start: the walk either found   *)
(* none pending or cleared it away before it put on its own.               *)
THEOREM HeadOnce == Spec => HeadIsNotDoubled
<1> DEFINE A == \A e \in sched' \ sched : (e.kind = "start" /\ walk.i = walk.head) =>
                  \A d \in sched' : d.kind = "start" /\ d.owner = e.owner => d = e
<1>1. StepInv /\ [Next]_vars => [A]_vars
  <2> SUFFICES ASSUME StepInv, [Next]_vars, NEW e \in sched' \ sched, e.kind = "start", walk.i = walk.head,
                      NEW d \in sched', d.kind = "start", d.owner = e.owner
               PROVE  d = e
    OBVIOUS
  <2>1. /\ WalkSchedules /\ e = Start(nextId, walk.i, StartAt, walk.owner, walk.startId)
        /\ d = e \/ d \in sched
    BY OnlyWalksSchedule
  <2>2. /\ d = e \/ d \in sched
        /\ e.owner = walk.i /\ now < StartAt /\ ~ FiredAgain /\ AtACue /\ Walking
    BY <2>1 DEF Start, WalkSchedules, AtACue
  <2>3. walk.t <= now /\ (walk.cleared => \A s \in sched : s.kind = "start" => s.owner # walk.head)
    BY <2>2 DEF StepInv, WalkOk
  <2>4. walk.t \in Nat /\ now \in Nat /\ Cue[walk.i].pre \in Nat
    BY <2>2, CuesAreRows, SettingsAssumption DEF StepInv, PlainOk, Walking, WalkState, AtACue
  <2>5. Cue[walk.i].pre > 0
    BY <2>2, <2>3, <2>4 DEF StartAt
  <2>6. ASSUME d \in sched PROVE FALSE
    <3>1. ~ walk.cleared
      BY <2>2, <2>3, <2>6
    <3>2. ~ hasPendingFor(walk.i)
      BY <2>2, <2>5, <3>1 DEF FiredAgain
    <3>3. d \in pending /\ d.id \in IdsOf(sched)
      BY <2>6 DEF StepInv, BookOk, IdsOf
    <3> QED
      BY <2>2, <3>2, <3>3 DEF hasPendingFor
  <2> QED
    BY <2>2, <2>6
<1> QED
  BY <1>1, Invariance, PTL DEF Spec, HeadIsNotDoubled

(* A restart takes what the book has of the cue's other runs, their chains *)
(* included.                                                               *)
LEMMA RestartTakes ==
  ASSUME NEW c \in Cues, NEW L, NEW firing \in Nat, NEW o \in StartById(c, L, firing),
         c \in armed, ~ isPanicLatched, Running(c), Cue[c].rule = "restart", firing # 0
  PROVE  /\ \A p \in pending : p.owner = c /\ p.runId # firing => p \in o.takes
         /\ \A p \in pending : /\ p.kind = "start" /\ p.id \in L
                              /\ p.postWaitOwner = c /\ p.afterStartId # firing => p \in o.takes
<1> DEFINE R == cancelPreviousRun(pending, L, c, firing)
<1>1. \A p \in pending : p.owner = c /\ p.runId # firing => p \in R
  BY DEF cancelPreviousRun, KeepFiring, cancelPendingFor
<1>2. \A p \in pending : /\ p.kind = "start" /\ p.id \in L
                        /\ p.postWaitOwner = c /\ p.afterStartId # firing => p \in R
  BY DEF cancelPreviousRun, KeepFiring, cancelPendingFor, cancelChainsOf, WithItsChain
<1> HIDE DEF R
<1>3. \A q \in Trigger(c, L, firing) : \E r, p, w : q = Outcome(r, R, p, w)
  BY DEF Trigger, StartNow, R
<1>4. PICK q \in Trigger(c, L, firing) :
        \/ o = q
        \/ o = [q EXCEPT !.takes   = @ \cup fadeStopOthersTakes(pending \ q.takes, L, c),
                  !.playing = [d \in Cues |-> IF d # c /\ @[d] = "on" THEN "stopping" ELSE @[d]],
                  !.waits   = [d \in Cues |-> IF d = c THEN @[d] ELSE 0]]
  BY DEF StartById
<1>5. R \subseteq o.takes
  <2> PICK r, p, w : q = Outcome(r, R, p, w)
    BY <1>3
  <2>1. q.takes = R /\ q = [res |-> r, takes |-> R, playing |-> p, waits |-> w]
    BY DEF Outcome
  <2>2. CASE o = q
    BY <2>1, <2>2
  <2>3. CASE o # q
    <3>1. o.takes = R \cup fadeStopOthersTakes(pending \ R, L, c)
      BY <1>4, <2>1, <2>3
    <3> QED
      BY <3>1
  <2> QED
    BY <2>2, <2>3
<1> QED
  BY <1>1, <1>2, <1>5

(* A start that restarts its cue in its turn takes the follows and starts  *)
(* of the cue's other runs, and leaves the follow that was put on for it.  *)
THEOREM RestartIsClean == Spec => RestartReplacesTheOtherRuns
<1> DEFINE A == \A s \in sched \ sched' : Restarts(s) =>
                  /\ \A f \in sched : f.kind = "observer" /\ f.runId = s.id => f \in sched'
                  /\ \A e \in sched' : /\ e.owner = s.owner => e.runId = s.id
                                       /\ e.postWaitOwner = s.owner => e.afterStartId = s.id
<1>1. StepInv /\ [Next]_vars => [A]_vars
  <2> SUFFICES ASSUME StepInv, [Next]_vars, NEW s \in sched \ sched', Restarts(s)
               PROVE  /\ \A f \in sched : f.kind = "observer" /\ f.runId = s.id => f \in sched'
                      /\ \A e \in sched' : /\ e.owner = s.owner => e.runId = s.id
                                           /\ e.postWaitOwner = s.owner => e.afterStartId = s.id
    OBVIOUS
  <2>0. s.kind = "start" /\ Runs(s.id) /\ Cue[s.owner].rule = "restart"
    BY DEF Restarts
  <2>1. RunStart
    <3>1. CASE Operator \/ Walk \/ EngineEnds \/ Advance \/ UNCHANGED vars
      BY <2>0, <3>1, OnlyTicksTakeTurns DEF Runs
    <3>2. CASE BeginTick \/ CollectFollows \/ EndTick
      BY <3>2 DEF BeginTick, CollectFollows, EndTick, book
    <3>3. CASE RunFollow
      BY <2>0, <3>3 DEF RunFollow, Runs
    <3> QED
      BY <3>1, <3>2, <3>3 DEF Next, Tick
  <2>2. PICK d \in Due : \E o \in StartById(d.owner, IdsOf(sched) \ {d.id}, d.id) :
          /\ d.kind = "start" /\ turn' = turn \ {d.id} /\ sched' = (sched \ {d}) \ o.takes
    BY <2>1, RunStartOk
  <2>3. PICK o \in StartById(d.owner, IdsOf(sched) \ {d.id}, d.id) :
          /\ d.kind = "start" /\ turn' = turn \ {d.id} /\ sched' = (sched \ {d}) \ o.takes
    BY <2>2
  <2>4. /\ d \in sched /\ d.owner \in Cues /\ d.id \in Nat /\ d.id # 0 /\ PlainOk /\ IsFiniteSet(pending)
        /\ s \in pending /\ d \in pending
    BY <2>3 DEF Due, StepInv, BookOk, Entry, IsEntry, Foreign
  <2>5. s = d
    BY <2>0, <2>3, <2>4 DEF Runs, StepInv, BookOk
  <2>6. ASSUME NEW f \in sched, f.kind = "observer", f.runId = s.id, f \notin sched' PROVE FALSE
    <3>1. f \in pending
      BY <2>6 DEF StepInv, BookOk
    <3>2. f.owner = d.owner
      BY <2>4, <2>5, <2>6, <3>1 DEF StepInv, BookOk
    <3>3. f \in o.takes
      BY <2>0, <2>3, <2>4, <2>5, <2>6
    <3>4. f.runId \in IdsOf(sched) \ {d.id} \/ f.owner # d.owner \/ f.runId # d.id
      BY <2>0, <2>4, <2>5, <2>6, <3>3, StartOutcome
    <3> QED
      BY <2>5, <2>6, <3>2, <3>4
  <2>7. ASSUME NEW e \in sched'
        PROVE  /\ e.owner = s.owner => e.runId = s.id
               /\ e.postWaitOwner = s.owner => e.afterStartId = s.id
    <3>1. e \in sched /\ e # d /\ e \notin o.takes
      BY <2>3, <2>7
    <3>2. e \in pending /\ e.id \in IdsOf(sched) \ {d.id}
      BY <2>4, <3>1 DEF StepInv, BookOk, IdsOf
    <3>3. e.postWaitOwner = s.owner => e.kind = "start"
      <4>1. IsEntry(e) /\ (e.kind = "observer" => e.postWaitOwner = 0)
        BY <3>2 DEF StepInv, BookOk
      <4>2. e.kind \in {"start", "observer"} \/ e.postWaitOwner = 0
        BY <4>1 DEF IsEntry, Entry, Foreign
      <4>3. s.owner # 0
        BY <2>4, <2>5, CuesAreRows
      <4> QED
        BY <4>1, <4>2, <4>3
    <3>4. /\ \A p \in pending : p.owner = d.owner /\ p.runId # d.id => p \in o.takes
          /\ \A p \in pending : /\ p.kind = "start" /\ p.id \in IdsOf(sched) \ {d.id}
                               /\ p.postWaitOwner = d.owner /\ p.afterStartId # d.id => p \in o.takes
      BY <2>4, <2>5, RestartTakes DEF Restarts
    <3> QED
      BY <2>5, <3>1, <3>2, <3>3, <3>4
  <2> QED
    BY <2>6, <2>7
<1> QED
  BY <1>1, Invariance, PTL DEF Spec, RestartReplacesTheOtherRuns

(* One cue comes on and another begins to fade: that is the start of a cue *)
(* that fades the others out.                                              *)
LEMMA OnlyStartsFadeOthers ==
  ASSUME StepInv, [Next]_vars, NEW c \in Cues, NEW d \in Cues \ {c},
         playing'[d] # playing[d], playing[c] # "on", playing'[c] = "on"
  PROVE  \E L : \E firing \in Nat : \E o \in StartById(c, L, firing) :
           /\ playing' = o.playing
           /\ \A e \in sched \cap sched' : e \notin o.takes /\ e.id \in L
<1> DEFINE Leads(b, L, firing, o) ==
             /\ playing' = o.playing
             /\ \A e \in sched \cap sched' : e \notin o.takes /\ e.id \in L
<1>1. PlainOk /\ IsFiniteSet(pending) /\ SoundOk(playing, waits) /\ c # d
  BY DEF StepInv, PlainOk, BookOk
<1>2. ASSUME NEW b \in Cues, NEW L, NEW firing \in Nat, NEW o \in Trigger(b, L, firing), playing' = o.playing
      PROVE  FALSE
  <2>1. \A x \in Cues \ {b} : playing'[x] = playing[x]
    BY <1>1, <1>2, TriggerOutcome
  <2> QED
    BY <2>1
<1>3. ASSUME NEW b \in Cues, NEW L, NEW firing \in Nat, NEW o \in StartById(b, L, firing), Leads(b, L, firing, o)
      PROVE  \E x \in StartById(c, L, firing) : Leads(c, L, firing, x)
  <2>1. b = c
    BY <1>1, <1>3, StartOutcome
  <2> QED
    BY <1>3, <2>1
<1>4. playing' # playing /\ ~ (playing'[c] = playing[c])
  OBVIOUS
<1>5. CASE Go
  <2>1. PICK o \in Trigger(playhead, IdsOf(sched), 0) : playing' = o.playing
    BY <1>4, <1>5 DEF Go, sound
  <2> QED
    BY <1>1, <1>2, <2>1 DEF PlainOk
<1>6. CASE Fire
  <2>1. PICK b \in armed : \E o \in StartById(b, IdsOf(sched), 0) \cup Trigger(b, IdsOf(sched), 0) :
          Take(o.takes) /\ playing' = o.playing
    BY <1>6 DEF Fire
  <2>2. PICK o \in StartById(b, IdsOf(sched), 0) \cup Trigger(b, IdsOf(sched), 0) :
          Take(o.takes) /\ playing' = o.playing
    BY <2>1
  <2>3. b \in Cues
    BY <1>1 DEF PlainOk
  <2>4. Leads(b, IdsOf(sched), 0, o)
    BY <2>2 DEF Take, IdsOf
  <2> QED
    BY <1>2, <1>3, <2>2, <2>3, <2>4
<1>7. CASE (\E b \in Cues : stopCue(b)) \/ panicAll \/ hardStopAll \/ resetAll \/ EngineEnds
  <2>1. CASE \E b \in Cues : stopCue(b)
    <3>1. PICK b \in Cues : playing' = [playing EXCEPT ![b] = IF @ = "on" THEN "stopping" ELSE @]
      BY <2>1 DEF stopCue, StopSound
    <3> QED
      BY <1>1, <3>1 DEF SoundOk
  <2>2. CASE panicAll \/ hardStopAll \/ resetAll
    BY <2>2 DEF panicAll, hardStopAll, resetAll, StopEverything
  <2>3. CASE EngineEnds
    <3>1. PICK b \in Cues : playing' = [playing EXCEPT ![b] = "off"]
      BY <2>3 DEF EngineEnds
    <3> QED
      BY <1>1, <3>1 DEF SoundOk
  <2> QED
    BY <1>7, <2>1, <2>2, <2>3
<1>8. CASE WalkAnswers
  <2>1. PICK o \in IF isCueActive(walk.i) THEN Trigger(walk.i, IdsOf(sched), 0)
                   ELSE {Outcome("ignored", cancelPendingFor(pending, IdsOf(sched), walk.i, FALSE, 0), playing, waits)} :
             playing' = o.playing
    BY <1>4, <1>8, Zenon DEF WalkAnswers, sound
  <2>2. o \in Trigger(walk.i, IdsOf(sched), 0)
    <3> DEFINE none == Outcome("ignored", cancelPendingFor(pending, IdsOf(sched), walk.i, FALSE, 0), playing, waits)
    <3>1. none.playing = playing
      BY DEF Outcome
    <3> HIDE DEF none
    <3>2. o = none \/ o \in Trigger(walk.i, IdsOf(sched), 0)
      BY <2>1, Zenon DEF none
    <3> QED
      BY <1>4, <2>1, <3>1, <3>2
  <2> QED
    BY <1>2, <1>8, <2>1, <2>2 DEF WalkAnswers, AtACue
<1>9. CASE WalkStarts
  <2>1. PICK o \in StartById(walk.i, IdsOf(sched), 0) :
          /\ GoOn(pending \ o.takes, sched \ o.takes, nextId, o.res, StartAt, 0)
          /\ playing' = o.playing
    BY <1>9 DEF WalkStarts
  <2>2. sched' \cap sched \subseteq sched \ o.takes
    <3>1. \A n : Follow(nextId, walk.i, StartAt, n, 0) \notin sched
      BY DEF Follow, StepInv, BookOk, Entry, IsEntry, Foreign
    <3>2. \/ sched' = sched \ o.takes
          \/ \E n : sched' = (sched \ o.takes) \cup {Follow(nextId, walk.i, StartAt, n, 0)}
      BY <2>1, Zenon DEF GoOn, Book
    <3> QED
      BY <3>1, <3>2
  <2>3. Leads(walk.i, IdsOf(sched), 0, o) /\ walk.i \in Cues
    BY <1>9, <2>1, <2>2 DEF IdsOf, WalkStarts, AtACue
  <2> QED
    BY <1>3, <2>1, <2>3
<1>10. CASE RunStart
  <2>1. PICK e \in Due : \E o \in StartById(e.owner, IdsOf(sched) \ {e.id}, e.id) :
          /\ e.kind = "start" /\ sched' = (sched \ {e}) \ o.takes /\ playing' = o.playing
    BY <1>10, RunStartOk
  <2>2. PICK o \in StartById(e.owner, IdsOf(sched) \ {e.id}, e.id) :
          /\ e.kind = "start" /\ sched' = (sched \ {e}) \ o.takes /\ playing' = o.playing
    BY <2>1
  <2>3. e.owner \in Cues /\ e.id \in Nat /\ \A f \in sched : f.id = e.id => f = e
    BY <2>2 DEF Due, StepInv, BookOk, Entry, IsEntry, Foreign
  <2>4. Leads(e.owner, IdsOf(sched) \ {e.id}, e.id, o)
    BY <2>2, <2>3 DEF IdsOf
  <2> QED
    BY <1>3, <2>2, <2>3, <2>4
<1>11. CASE \/ Hotkey \/ cancelScheduledStart \/ cancelStart \/ Arm
            \/ WalkPassesDisarmed \/ WalkStartsOver \/ WalkSchedules \/ WalkEnds
            \/ BeginTick \/ CollectFollows \/ RunFollow \/ EndTick \/ Advance \/ UNCHANGED vars
  BY <1>4, <1>11, Zenon
     DEF Hotkey, cancelScheduledStart, cancelStart, Arm, WalkPassesDisarmed, WalkStartsOver, WalkSchedules,
         WalkEnds, BeginTick, CollectFollows, RunFollow, EndTick, Advance, vars, sound
<1> QED
  BY <1>5, <1>6, <1>7, <1>8, <1>9, <1>10, <1>11 DEF Next, Operator, Walk, Tick

(* The start of a cue that fades the others out leaves nothing of them on  *)
(* the timeline, and no start of its own behind one that was sounding.     *)
THEOREM FadedWhole == Spec => FadeOutEndsTheOtherSequences
<1> DEFINE A == \A c \in Cues : (/\ Cue[c].fso
                                 /\ \E d \in Cues \ {c} : playing[d] = "on" /\ playing'[d] = "stopping"
                                 /\ playing[c] # "on" /\ playing'[c] = "on") =>
                  \A e \in sched' \cap sched : /\ e.owner = c
                                               /\ e.postWaitOwner # 0 => playing[e.postWaitOwner] = "off"
<1>1. StepInv /\ [Next]_vars => [A]_vars
  <2> SUFFICES ASSUME StepInv, [Next]_vars, NEW c \in Cues, NEW d \in Cues \ {c},
                      playing[d] = "on", playing'[d] = "stopping", playing[c] # "on", playing'[c] = "on",
                      NEW e \in sched' \cap sched
               PROVE  e.owner = c /\ (e.postWaitOwner # 0 => playing[e.postWaitOwner] = "off")
    OBVIOUS
  <2>0. PICK L : \E firing \in Nat : \E o \in StartById(c, L, firing) :
           /\ playing' = o.playing
           /\ \A f \in sched \cap sched' : f \notin o.takes /\ f.id \in L
    BY OnlyStartsFadeOthers
  <2>1. PICK firing \in Nat : \E o \in StartById(c, L, firing) :
           /\ playing' = o.playing
           /\ \A f \in sched \cap sched' : f \notin o.takes /\ f.id \in L
    BY <2>0
  <2>2. PICK o \in StartById(c, L, firing) :
           /\ playing' = o.playing
           /\ \A f \in sched \cap sched' : f \notin o.takes /\ f.id \in L
    BY <2>1
  <2>3. /\ PlainOk /\ IsFiniteSet(pending) /\ e \in pending /\ IsEntry(e)
        /\ e.kind = "start" => e.postWaitOwner < e.owner
        /\ e.kind = "observer" => e.postWaitOwner = 0
    BY DEF StepInv, BookOk
  <2>4. /\ e.owner = c
        /\ e \in Live(pending, L) /\ e.postWaitOwner \in Cues \ {c} => ~ isPlaying(e.postWaitOwner)
    BY <2>2, <2>3, StartOutcome
  <2>5. ASSUME e.postWaitOwner # 0 PROVE playing[e.postWaitOwner] = "off"
    <3>1. e.kind = "start" /\ e.postWaitOwner \in Cues /\ e.postWaitOwner # c
      BY <2>3, <2>4, <2>5, CuesAreRows DEF Entry, IsEntry, Foreign
    <3> QED
      BY <2>2, <2>3, <2>4, <3>1 DEF Live, isPlaying
  <2> QED
    BY <2>4, <2>5
<1> QED
  BY <1>1, Invariance, PTL DEF Spec, FadeOutEndsTheOtherSequences

-----------------------------------------------------------------------------
(* The order of a tick.  When a tick is an instant the timed starts that   *)
(* are due have their turn before the watches, and none comes due while    *)
(* the watches run.                                                        *)
TickOk ==
  /\ phase = "timed" => /\ ~ Walking
                        /\ \A s \in sched : s.kind = "start" /\ s.at <= now => s.id \in turn
  /\ phase = "watches" => \A s \in sched : s.kind = "start" => now < s.at

LEMMA TickOkStep ==
  ASSUME TickTakesTime = FALSE, StepInv, TickOk, [Next]_vars
  PROVE  TickOk'
<1>1. now \in Nat
  BY SettingsAssumption DEF StepInv, PlainOk
<1>2. \A s \in sched' : s.kind = "start" => s \in sched \/ (WalkSchedules /\ now < s.at)
  <2>1. ASSUME NEW s \in sched' \ sched, s.kind = "start"
        PROVE  WalkSchedules /\ now < s.at
    <3>1. WalkSchedules /\ s = Start(nextId, walk.i, StartAt, walk.owner, walk.startId)
      BY <2>1, OnlyWalksSchedule
    <3> QED
      BY <3>1 DEF Start, WalkSchedules
  <2> QED
    BY <2>1
<1>3. CASE Operator \/ UNCHANGED vars
  <2>1. phase' = phase /\ turn' = turn
    BY <1>3, OnlyTicksTakeTurns
  <2>2. CASE Operator
    <3>1. phase = "idle"
      BY <2>2 DEF Operator, Go, Hotkey, Fire, stopCue, cancelScheduledStart, cancelStart, panicAll,
              hardStopAll, resetAll, StopEverything, Arm, Command
    <3> QED
      BY <2>1, <3>1 DEF TickOk
  <2>3. CASE UNCHANGED vars
    BY <2>3 DEF TickOk, vars, book, tickv, Walking
  <2> QED
    BY <1>3, <2>2, <2>3
<1>4. CASE Walk
  <2>1. phase' = phase /\ turn' = turn
    BY <1>4, OnlyTicksTakeTurns
  <2>2. now' = now /\ Walking
    BY <1>4 DEF Walk, WalkPassesDisarmed, WalkAnswers, WalkStartsOver, WalkEnds, WalkStarts, WalkSchedules, AtACue
  <2> QED
    BY <1>2, <2>1, <2>2 DEF TickOk
<1>5. CASE EngineEnds
  BY <1>5 DEF EngineEnds, TickOk, book, tickv, Walking
<1>6. CASE Advance
  <2>1. phase = "idle" /\ phase' = phase
    BY <1>6 DEF Advance, tickv
  <2> QED
    BY <2>1 DEF TickOk
<1>7. CASE BeginTick
  BY <1>7 DEF BeginTick, TickOk, IdsOf, book, Walking
<1>8. CASE CollectFollows
  <2>1. \A s \in sched : s.kind = "start" => now < s.at
    <3>1. \A s \in sched : s.id \notin turn
      BY <1>8 DEF CollectFollows, Due
    <3>2. \A s \in sched : s.kind = "start" => s.at \in Nat
      BY DEF StepInv, BookOk, Entry, IsEntry, Foreign
    <3> QED
      BY <1>1, <1>8, <3>1, <3>2 DEF TickOk, CollectFollows
  <2> QED
    BY <1>8, <2>1 DEF CollectFollows, TickOk, book
<1>9. CASE RunFollow
  <2>1. phase = "watches" /\ phase' = phase /\ now' = now /\ sched' \subseteq sched
    BY <1>9 DEF RunFollow
  <2> QED
    BY <2>1 DEF TickOk
<1>10. CASE EndTick
  BY <1>10 DEF EndTick, TickOk
<1>11. CASE RunStart
  <2>1. PICK e \in Due : turn' = turn \ {e.id} /\ e \notin sched' /\ sched' \subseteq sched
    BY <1>11, RunStartOk
  <2>2. phase = "timed" /\ phase' = phase /\ now' = now /\ walk' = walk
    BY <1>11 DEF RunStart
  <2>3. \A s \in sched' : s.id # e.id
    BY <2>1 DEF StepInv, BookOk, Due
  <2> QED
    BY <2>1, <2>2, <2>3 DEF TickOk, Walking
<1> QED
  BY <1>3, <1>4, <1>5, <1>6, <1>7, <1>8, <1>9, <1>10, <1>11 DEF Next, Tick

(* The follow put on for a scheduled start goes on with the sequence only  *)
(* when that start has had its turn, or was cancelled: as long as no time  *)
(* passes between the two halves of a tick.  That it does pass is what the *)
(* slow tick shows.                                                        *)
GoesOnInTurn ==
  \A f \in sched \ sched' : (f.kind = "observer" /\ phase = "watches" /\ ~ Walking /\ Walking') =>
    f.runId \notin IdsOf(sched)

LEMMA FollowsInTurn ==
  ASSUME StepInv, TickOk, [Next]_vars
  PROVE  GoesOnInTurn
<1> SUFFICES ASSUME StepInv, TickOk, [Next]_vars, NEW f \in sched \ sched',
                    f.kind = "observer", phase = "watches", ~ Walking, Walking',
                    NEW s \in sched, s.id = f.runId
             PROVE  FALSE
  BY DEF IdsOf, GoesOnInTurn
<1>1. CASE RunFollow
  <2>1. f.at <= now /\ now \in Nat /\ f.at \in Nat /\ s \in pending /\ f \in pending
    BY <1>1, SettingsAssumption DEF RunFollow, MayGoOn, StepInv, PlainOk, BookOk, Entry, IsEntry, Foreign
  <2>2. s.kind = "start" /\ f.at = s.at
    BY <2>1 DEF StepInv, BookOk
  <2> QED
    BY <2>1, <2>2 DEF TickOk
<1>2. CASE Operator \/ Walk \/ EngineEnds \/ Advance \/ UNCHANGED vars
  <2>1. phase = "idle" \/ Walking \/ sched' = sched
    BY <1>2 DEF Operator, Go, Hotkey, Fire, stopCue, cancelScheduledStart, cancelStart, panicAll,
            hardStopAll, resetAll, StopEverything, Arm, Command, Walk, WalkPassesDisarmed, WalkAnswers,
            WalkStartsOver, WalkSchedules, WalkStarts, WalkEnds, AtACue, EngineEnds, Advance, vars, book
  <2> QED
    BY <2>1
<1>3. CASE BeginTick \/ RunStart \/ CollectFollows \/ EndTick
  BY <1>3 DEF BeginTick, RunStart, CollectFollows, EndTick, book
<1> QED
  BY <1>1, <1>2, <1>3 DEF Next, Tick

THEOREM FollowsWait ==
  ASSUME TickTakesTime = FALSE
  PROVE  Spec => FollowWaitsForItsCue
<1>1. StepInv /\ TickOk /\ [Next]_vars => [GoesOnInTurn]_vars
  BY FollowsInTurn
<1>2. Init => TickOk
  BY DEF Init, InitWith, TickOk
<1>3. StepInv /\ TickOk /\ [Next]_vars => TickOk'
  BY TickOkStep
<1> QED
  BY <1>1, <1>2, <1>3, Invariance, PTL DEF Spec, FollowWaitsForItsCue, GoesOnInTurn
-----------------------------------------------------------------------------
(* Playlists, for every list of children and every setting of the group.   *)

(* What holds before the first pass of the loop of playlistStep(), and     *)
(* after a pass whenever it did before, holds when the loop is over.       *)
LEMMA PassesKeep ==
  ASSUME NEW s, NEW T, [left |-> FALSE, s |-> s] \in T,
         \A p \in T : ~ p.left => Pass(p.s) \in SUBSET T
  PROVE  \A t \in playlistStep(s) : \E p \in T : t = IF p.left THEN p.s ELSE End(p.s)
<1> DEFINE N == Last + 1
           base == {[left |-> FALSE, s |-> s]}
           On(X) == UNION {IF p.left THEN {p} ELSE Pass(p.s) : p \in X}
           Goes(f) == f = [n \in 0 .. N |-> IF n = 0 THEN base ELSE On(f[n - 1])]
           D == SUBSET T
           after == CHOOSE f : Goes(f)
<1>1. N \in Nat /\ base \in D
  BY CuesAreRows
<1>2. \A X \in D : On(X) \in D
  <2> SUFFICES ASSUME NEW X \in D, NEW q \in On(X)
               PROVE  q \in T
    OBVIOUS
  <2>1. PICK p \in X : q \in IF p.left THEN {p} ELSE Pass(p.s)
    OBVIOUS
  <2> QED
    BY <2>1
<1>3. Goes(after)
  <2> DEFINE h == [X \in D |-> On(X)]
  <2>1. h \in [D -> D]
    BY <1>2
  <2>2. \E f \in [0 .. N -> D] : \A n \in 0 .. N : f[n] = IF n = 0 THEN base ELSE h[f[n - 1]]
    <3> HIDE DEF D, h, base, N
    <3>1. \E f : Iterates(f, N, D, base, h)
      BY <1>1, <2>1, NumberRecursion
    <3> QED
      BY <3>1 DEF Iterates
  <2>3. PICK f \in [0 .. N -> D] : \A n \in 0 .. N : f[n] = IF n = 0 THEN base ELSE h[f[n - 1]]
    BY <2>2
  <2>4. \A n \in 1 .. N : h[f[n - 1]] = On(f[n - 1])
    <3> TAKE n \in 1 .. N
    <3>1. f[n - 1] \in D
      BY <1>1, <2>3
    <3> QED
      BY <3>1
  <2>5. f = [n \in 0 .. N |-> IF n = 0 THEN base ELSE On(f[n - 1])]
    <3> HIDE DEF D, h, base, On
    <3> QED
      BY <1>1, <2>3, <2>4
  <2> QED
    BY <2>5
<1>4. playlistStep(s) = {IF p.left THEN p.s ELSE End(p.s) : p \in after[N]}
  BY DEF playlistStep
<1> HIDE DEF after
<1>5. \A n \in 0 .. N : after[n] = IF n = 0 THEN base ELSE On(after[n - 1])
  <2> HIDE DEF base, On, N
  <2> QED
    BY <1>3
<1>6. after[0] = base /\ \A n \in Nat : n + 1 <= N => after[n + 1] = On(after[n])
  <2> HIDE DEF base, On, N
  <2> QED
    BY <1>1, <1>5
<1>7. after[N] \in D
  <2> DEFINE U == {n \in Nat : n <= N => after[n] \in D}
  <2>1. 0 \in U
    BY <1>1, <1>6
  <2>2. ASSUME NEW n \in Nat, n \in U PROVE n + 1 \in U
    <3> SUFFICES ASSUME n + 1 <= N
                 PROVE  after[n + 1] \in D
      OBVIOUS
    <3>1. after[n] \in D
      <4> HIDE DEF base, D
      <4> QED
        BY <1>1, <2>2
    <3>2. after[n + 1] = On(after[n])
      <4> HIDE DEF base, On, N, D
      <4> QED
        BY <1>6
    <3> HIDE DEF D, On
    <3> QED
      BY <1>2, <3>1, <3>2
  <2>3. Nat \subseteq U
    <3> HIDE DEF U
    <3> QED
      BY <2>1, <2>2, NumberInduction
  <2> HIDE DEF base, D, N
  <2> QED
    BY <1>1, <2>3
<1> QED
  BY <1>4, <1>7

-----------------------------------------------------------------------------
(* The state of the list's methods, and the invariant of it.               *)

StepEntry == [id : Nat \ {0}, owner : {G}, kind : {"step"}, runId : {0}, at : Nat, next : Cues,
              postWaitOwner : {0}, afterStartId : {0}, pre : Nat]
FadeEntry == [id : Nat \ {0}, owner : {G}, kind : {"fade"}, runId : {0}, at : Nat, next : Cues,
              postWaitOwner : {0}, afterStartId : {0}]
ListEntry == Entry \cup StepEntry \cup FadeEntry
RunState == [order : [Cues -> Cues], pos : 1 .. Last + 1, current : {0} \cup Cues,
             startId : Nat, failures : Nat]
States == [P : SUBSET ListEntry, S : SUBSET ListEntry, n : Nat,
           playing : [Cues -> {"off", "on", "stopping"}], waits : [Cues -> Nat],
           run : {NoRun} \cup RunState, own : SUBSET Cues, refused : BOOLEAN]

StepsOf(S) == {e \in S : e.kind = "step"}

(* A running list stands at a child and watches it; the start it has put   *)
(* on for it is a start of it; of the children it has started only that    *)
(* one may be at full level.                                               *)
Watches(s) ==
  /\ s.run = NoRun => StepsOf(s.S) = {}
  /\ s.run # NoRun => /\ s.run.pos \in Cues /\ s.run.order[s.run.pos] = s.run.current
                      /\ \E e \in s.S : StepsOf(s.S) = {e} /\ e.next = s.run.current
TheStart(s) ==
  s.run # NoRun => /\ s.run.startId < s.n
                   /\ \A e \in s.P : e.id = s.run.startId => e.kind = "start" /\ e.owner = s.run.current
OneOn(s) == \A c \in s.own : s.playing[c] = "on" => s.run # NoRun /\ c = s.run.current
Booked(s) == s \in States /\ BookOk(s.P, s.S, s.n)
Settled(s) == Booked(s) /\ Watches(s) /\ TheStart(s) /\ OneOn(s)

(* Between two passes of the loop it stands anywhere, and nothing watches. *)
Moving(s) == /\ Booked(s) /\ s.run \in RunState
             /\ StepsOf(s.S) = {} /\ \A c \in s.own : s.playing[c] # "on"

(* From s to t starts may go, but none without what hangs off it; those    *)
(* that come are not due.                                                  *)
HangsOff(e, x) == \/ e.kind = "observer" /\ e.runId = x.id
                  \/ e.kind = "start" /\ e.afterStartId = x.id
Sheds(s, t) ==
  /\ s.n <= t.n
  /\ \A e \in t.S : e \in s.S \/ (s.n <= e.id /\ (e.kind = "start" => now < e.at))
  /\ \A x \in s.S \ t.S : \A e \in s.S \cap t.S : x.kind = "start" => ~ HangsOff(e, x)

LEMMA EntriesAreEntries ==
  ASSUME NEW e \in ListEntry
  PROVE  /\ IsEntry(e)
         /\ e.kind \in {"start", "observer"} <=> e \in Entry
         /\ e.kind = "step" <=> e \in StepEntry
         /\ e.kind = "fade" <=> e \in FadeEntry
         /\ e.kind \in {"step", "fade"} => Foreign(e) /\ e.owner = G /\ e.next \in Cues
<1>1. G \in Nat \ Cues
  BY CuesAreRows DEF G
<1> QED
  BY <1>1 DEF ListEntry, Entry, StepEntry, FadeEntry, IsEntry, Foreign

LEMMA RunsAreRuns ==
  ASSUME NEW r \in RunState
  PROVE  r # NoRun
<1>1. r.pos # 0 /\ NoRun.pos = 0
  BY CuesAreRows DEF RunState, NoRun
<1> QED
  BY <1>1

LEMMA ShedsAll ==
  ASSUME NEW s, NEW t, NEW u, Booked(s), Booked(t), Booked(u), Sheds(s, t), Sheds(t, u)
  PROVE  Sheds(s, u)
<1>1. s.n \in Nat /\ t.n \in Nat /\ u.n \in Nat
  BY DEF Booked, States
<1>2. \A e \in s.S : e.id < s.n /\ e.id \in Nat
  BY DEF Booked, BookOk, IsEntry, Entry, Foreign
<1>3. \A e \in u.S : e.id \in Nat
  BY DEF Booked, BookOk, IsEntry, Entry, Foreign
<1>4. \A e \in u.S : e \in s.S \/ (s.n <= e.id /\ (e.kind = "start" => now < e.at))
  BY <1>1, <1>3 DEF Sheds
<1>5. \A e \in s.S \cap u.S : e \in t.S
  <2> SUFFICES ASSUME NEW e \in s.S \cap u.S, e \notin t.S
               PROVE  FALSE
    OBVIOUS
  <2>1. t.n <= e.id /\ e.id < s.n /\ s.n <= t.n
    BY <1>2 DEF Sheds
  <2> QED
    BY <1>1, <1>2, <2>1
<1>6. ASSUME NEW x \in s.S \ u.S, NEW e \in s.S \cap u.S, x.kind = "start"
      PROVE  ~ HangsOff(e, x)
  <2>1. CASE x \in t.S
    BY <1>5, <1>6, <2>1 DEF Sheds
  <2>2. CASE x \notin t.S
    BY <1>5, <1>6, <2>2 DEF Sheds
  <2> QED
    BY <2>1, <2>2
<1> QED
  BY <1>1, <1>4, <1>6 DEF Sheds

LEMMA ShedsNothing ==
  ASSUME NEW s, NEW t, Booked(s), t.S = s.S, t.n = s.n
  PROVE  Sheds(s, t)
<1>1. s.n <= t.n
  BY DEF Booked, States
<1> QED
  BY <1>1 DEF Sheds

-----------------------------------------------------------------------------
(* What the methods are made of keeps the book, and sheds starts only with *)
(* what hangs off them.                                                    *)

LEMMA WithoutKeeps ==
  ASSUME NEW s, Booked(s), NEW X
  PROVE  LET t == Without(s, X)
         IN  /\ Booked(t) /\ t.P = s.P \ X /\ t.S = s.S \ X /\ t.n = s.n
             /\ t.run = s.run /\ t.own = s.own /\ t.playing = s.playing /\ t.waits = s.waits
             /\ t.refused = s.refused
<1> DEFINE t == Without(s, X)
<1>1. s \in States /\ BookOk(s.P, s.S, s.n)
  BY DEF Booked
<1>2. t \in States /\ t.P = s.P \ X /\ t.S = s.S \ X /\ t.n = s.n
      /\ t.run = s.run /\ t.own = s.own /\ t.playing = s.playing /\ t.waits = s.waits
      /\ t.refused = s.refused
  BY <1>1 DEF Without, States
<1> HIDE DEF t
<1>3. t.P \in SUBSET s.P /\ t.S \in SUBSET t.P
  BY <1>1, <1>2 DEF BookOk
<1>4. BookOk(t.P, t.S, t.n)
  BY <1>1, <1>2, <1>3, BookShrinks
<1> QED
  BY <1>2, <1>4 DEF Booked, t

LEMMA ClosedSheds ==
  ASSUME NEW s, Booked(s), NEW X, Closed(s.P, IdsOf(s.S), X)
  PROVE  Sheds(s, Without(s, X))
<1> DEFINE t == Without(s, X)
<1>1. t.S = s.S \ X /\ t.n = s.n /\ s.n \in Nat
  BY WithoutKeeps DEF Booked, States
<1>2. ASSUME NEW x \in s.S \ t.S, NEW e \in s.S \cap t.S, x.kind = "start", HangsOff(e, x)
      PROVE  FALSE
  <2>1. x \in X /\ x.id \in IdsOf(s.S) /\ e \in s.P /\ x \in s.P /\ e \notin X /\ e.id \in IdsOf(s.S)
    BY <1>1, <1>2 DEF IdsOf, Booked, BookOk
  <2>2. x.id # 0
    BY <2>1 DEF Booked, BookOk, IsEntry, Entry, Foreign
  <2>3. cancelRunOf(s.P, x.owner, x.id) \cup Behind(s.P, IdsOf(s.S), x.owner, x.id) \subseteq X
    BY <1>2, <2>1 DEF Closed
  <2>4. CASE e.kind = "observer" /\ e.runId = x.id
    <3>1. e.owner = x.owner
      BY <2>1, <2>4 DEF Booked, BookOk
    <3>2. e \in cancelRunOf(s.P, x.owner, x.id)
      BY <2>1, <2>2, <2>4, <3>1 DEF cancelRunOf
    <3> QED
      BY <2>1, <2>3, <3>2
  <2>5. CASE e.kind = "start" /\ e.afterStartId = x.id
    <3>1. e.postWaitOwner = x.owner
      BY <1>2, <2>1, <2>5 DEF Booked, BookOk
    <3>2. e \in Behind(s.P, IdsOf(s.S), x.owner, x.id)
      BY <2>1, <2>5, <3>1 DEF Behind
    <3> QED
      BY <2>1, <2>3, <3>2
  <2> QED
    BY <1>2, <2>4, <2>5 DEF HangsOff
<1> HIDE DEF t
<1> QED
  BY <1>1, <1>2 DEF Sheds, t

(* What is forgotten of a cue is no entry of the list's.                   *)
LEMMA ForgetKeeps ==
  ASSUME NEW s, Booked(s), NEW c \in Cues
  PROVE  LET t == Forget(s, c)
         IN  /\ Booked(t) /\ t.P \subseteq s.P /\ t.S \subseteq s.S /\ t.n = s.n
             /\ t.run = s.run /\ t.own = s.own /\ t.playing = s.playing /\ t.waits = s.waits
             /\ t.refused = s.refused /\ StepsOf(t.S) = StepsOf(s.S) /\ Sheds(s, t)
<1> DEFINE L == IdsOf(s.S)
           R == AllOf(s.P, L, c, 0)
           t == Without(s, R)
<1>1. Forget(s, c) = t
  BY DEF Forget, AllOf
<1>2. Closed(s.P, L, R) /\ \A f \in R : f.kind # "start" => f.runId \in L \/ f.owner = c
  BY PendingIsClosed DEF Booked, BookOk
<1> HIDE DEF R
<1>3. /\ Booked(t) /\ t.P = s.P \ R /\ t.S = s.S \ R /\ t.n = s.n
      /\ t.run = s.run /\ t.own = s.own /\ t.playing = s.playing /\ t.waits = s.waits
      /\ t.refused = s.refused
  BY WithoutKeeps
<1>4. Sheds(s, t)
  BY <1>2, ClosedSheds
<1>5. ASSUME NEW f \in s.S, f.kind = "step"
      PROVE  f \notin R
  <2>1. f \in ListEntry
    BY <1>5 DEF Booked, States
  <2>2. f.runId = 0 /\ f.owner \notin Cues
    BY <1>5, <2>1, EntriesAreEntries DEF Foreign
  <2>3. 0 \notin L
    BY DEF IdsOf, Booked, BookOk, IsEntry, Entry, Foreign
  <2> QED
    BY <1>2, <1>5, <2>2, <2>3
<1> HIDE DEF t, L
<1>6. StepsOf(t.S) = StepsOf(s.S)
  BY <1>3, <1>5 DEF StepsOf
<1> QED
  BY <1>1, <1>3, <1>4, <1>6

(* A new entry takes the next id.                                          *)
LEMMA WithKeeps ==
  ASSUME NEW s, Booked(s), NEW e \in ListEntry, e.id = s.n, e.kind # "observer",
         e.postWaitOwner = 0, e.afterStartId = 0,
         e.kind = "start" => e.runId = e.id /\ now < e.at
  PROVE  LET t == With(s, e)
         IN  /\ Booked(t) /\ t.P \subseteq s.P \cup {e} /\ t.S = s.S \cup {e} /\ t.n = s.n + 1
             /\ t.run = s.run /\ t.own = s.own /\ t.playing = s.playing /\ t.waits = s.waits
             /\ t.refused = s.refused /\ Sheds(s, t)
<1> DEFINE t == With(s, e)
           Q == Track(s.P, IdsOf(s.S), e)
<1>1. s \in States /\ BookOk(s.P, s.S, s.n) /\ s.n \in Nat
  BY DEF Booked, States
<1>2. Q \subseteq s.P \cup {e}
  BY DEF Track
<1>3. /\ e.runId <= s.n /\ e.afterStartId < s.n
      /\ e.kind = "start" => e.runId = s.n /\ e.postWaitOwner < e.owner
  <2>1. IsEntry(e)
    BY EntriesAreEntries
  <2>2. s.n # 0
    BY <1>1 DEF BookOk
  <2>3. CASE e.kind = "start"
    <3>1. e.owner \in Cues
      BY <2>1, <2>3 DEF IsEntry, Entry, Foreign
    <3> QED
      BY <1>1, <2>2, <2>3, <3>1, CuesAreRows
  <2>4. CASE e.kind # "start"
    <3>1. Foreign(e)
      BY <2>1, <2>4 DEF IsEntry, Entry
    <3> QED
      BY <1>1, <2>2, <2>4, <3>1 DEF Foreign
  <2> QED
    BY <2>3, <2>4
<1>4. \A x \in s.P : x.id # 0
  BY <1>1 DEF BookOk, IsEntry, Entry, Foreign
<1>5. BookOk(Q, s.S \cup {e}, s.n + 1)
  <2>1. IsEntry(e)
    BY EntriesAreEntries
  <2>2. \A x \in s.P :
           /\ e.kind = "observer" /\ e.runId = x.id => x.kind = "start" /\ e.owner = x.owner /\ e.at = x.at
           /\ e.kind = "start" /\ x.kind = "start" /\ e.afterStartId = x.id => e.postWaitOwner = x.owner
    BY <1>4
  <2> QED
    BY <1>1, <1>3, <2>1, <2>2, BookGrows
<1>6. Q \subseteq ListEntry /\ s.S \cup {e} \subseteq ListEntry
  BY <1>1, <1>2 DEF States
<1> DEFINE X == s.S \cup {e}
           m == s.n + 1
<1>7. t = [s EXCEPT !.P = Q, !.S = X, !.n = m] /\ m \in Nat /\ X \subseteq ListEntry
  BY <1>1, <1>6 DEF With, States
<1> HIDE DEF Q, X, m, t
<1>8. /\ t \in States /\ t.P = Q /\ t.S = X /\ t.n = m
      /\ t.run = s.run /\ t.own = s.own /\ t.playing = s.playing /\ t.waits = s.waits
      /\ t.refused = s.refused
  BY <1>1, <1>6, <1>7 DEF States
<1> USE DEF X, m
<1>9. Booked(t)
  BY <1>5, <1>8 DEF Booked
<1>10. Sheds(s, t)
  <2>1. s.n <= t.n /\ e.id = s.n
    BY <1>1, <1>8
  <2> QED
    BY <1>1, <1>8, <2>1 DEF Sheds
<1> QED
  BY <1>2, <1>8, <1>9, <1>10 DEF t

LEMMA SilenceKeeps ==
  ASSUME NEW s, Booked(s), NEW c \in Cues
  PROVE  LET t == Silence(s, c)
         IN  /\ Booked(t) /\ t.P = s.P /\ t.S = s.S /\ t.n = s.n
             /\ t.run = s.run /\ t.own = s.own /\ t.waits = s.waits /\ t.refused = s.refused
             /\ t.playing[c] # "on" /\ \A d \in Cues \ {c} : t.playing[d] = s.playing[d]
<1> DEFINE f == [s.playing EXCEPT ![c] = IF @ = "on" THEN "stopping" ELSE @]
           t == [s EXCEPT !.playing = f]
<1>1. s \in States /\ BookOk(s.P, s.S, s.n)
  BY DEF Booked
<1>2. f \in [Cues -> {"off", "on", "stopping"}] /\ f[c] # "on" /\ \A d \in Cues \ {c} : f[d] = s.playing[d]
  BY <1>1 DEF States
<1>3. Silence(s, c) = t
  BY <1>1 DEF Silence, States
<1> HIDE DEF f
<1>4. /\ t \in States /\ t.P = s.P /\ t.S = s.S /\ t.n = s.n
      /\ t.run = s.run /\ t.own = s.own /\ t.waits = s.waits /\ t.refused = s.refused /\ t.playing = f
  BY <1>1, <1>2 DEF States
<1> HIDE DEF t
<1> QED
  BY <1>1, <1>2, <1>3, <1>4 DEF Booked

-----------------------------------------------------------------------------
(* The loop of playlistStep().  Where it tries a child nothing watches and *)
(* no child of the list's is at full level; when it leaves, the list has   *)
(* settled.                                                                *)

Free(s) == Booked(s) /\ StepsOf(s.S) = {} /\ \A c \in s.own : s.playing[c] # "on"

LEMMA TryKeeps ==
  ASSUME now \in Nat, NEW s, Free(s), NEW c \in Cues, NEW try \in TryChild(s, c)
  PROVE  LET t == try.s
         IN  /\ try = [ok |-> try.ok, s |-> t] /\ try.ok \in BOOLEAN
             /\ Booked(t) /\ StepsOf(t.S) = {} /\ t.run = s.run /\ t.refused = s.refused /\ Sheds(s, t)
             /\ \A d \in t.own : t.playing[d] = "on" => try.ok /\ d = c
<1> DEFINE Fine(t, ok) == /\ Booked(t) /\ StepsOf(t.S) = {} /\ t.run = s.run /\ t.refused = s.refused
                          /\ Sheds(s, t)
                          /\ \A d \in t.own : t.playing[d] = "on" => ok /\ d = c
           restart == Active(s, c) /\ Cue[c].rule = "restart"
           cleared == IF restart THEN Forget(s, c) ELSE s
           dropped == [Forget(s, c) EXCEPT !.waits[c] = 0]
           stopped == Silence(dropped, c)
<1>2. Fine(s, FALSE) /\ Fine(s, TRUE)
  BY ShedsNothing DEF Free
<1>3. /\ Booked(cleared) /\ StepsOf(cleared.S) = {} /\ cleared.run = s.run /\ Sheds(s, cleared)
      /\ cleared.own = s.own /\ cleared.playing = s.playing /\ cleared.n = s.n
      /\ cleared.refused = s.refused
  BY ForgetKeeps, ShedsNothing DEF Free
<1>4. Fine(cleared, FALSE)
  <2> HIDE DEF cleared
  <2> QED
    BY <1>3 DEF Free
<1>5. Fine(stopped, TRUE)
  <2> DEFINE g == Forget(s, c)
  <2>1. /\ Booked(g) /\ StepsOf(g.S) = {} /\ g.run = s.run /\ Sheds(s, g)
        /\ g.own = s.own /\ g.playing = s.playing /\ g.n = s.n /\ g.refused = s.refused
    BY ForgetKeeps DEF Free
  <2> HIDE DEF g
  <2>2. /\ dropped \in States /\ dropped.P = g.P /\ dropped.S = g.S /\ dropped.n = g.n
        /\ dropped.run = g.run /\ dropped.own = g.own /\ dropped.playing = g.playing
        /\ dropped.refused = g.refused
    <3> DEFINE w == [g.waits EXCEPT ![c] = 0]
    <3>1. dropped = [g EXCEPT !.waits = w] /\ w \in [Cues -> Nat] /\ g \in States
      BY <2>1 DEF Booked, States, g
    <3> HIDE DEF w, dropped
    <3> QED
      BY <3>1 DEF States
  <2> HIDE DEF dropped
  <2>3. Booked(dropped)
    BY <2>1, <2>2 DEF Booked
  <2>4. /\ Booked(stopped) /\ stopped.P = dropped.P /\ stopped.S = dropped.S /\ stopped.n = dropped.n
        /\ stopped.run = dropped.run /\ stopped.own = dropped.own /\ stopped.refused = dropped.refused
        /\ stopped.playing[c] # "on" /\ \A d \in Cues \ {c} : stopped.playing[d] = dropped.playing[d]
    BY <2>3, SilenceKeeps
  <2> HIDE DEF stopped
  <2>5. Sheds(g, stopped)
    BY <2>1, <2>2, <2>4, ShedsNothing
  <2>6. Sheds(s, stopped)
    BY <2>1, <2>4, <2>5, ShedsAll DEF Free
  <2>7. \A d \in stopped.own : d \in Cues
    BY <2>4 DEF Booked, States
  <2> QED
    BY <2>1, <2>2, <2>4, <2>6, <2>7 DEF Free
<1>6. Fine(Starts(cleared, c), TRUE)
  <2> HIDE DEF cleared
  <2> DEFINE f == [cleared.playing EXCEPT ![c] = IF Cue[c].kind = "audio" THEN "on" ELSE @]
             w == [cleared.waits EXCEPT ![c] = IF Cue[c].kind = "wait" THEN now + Cue[c].secs ELSE @]
             o == cleared.own \cup {c}
             t == Starts(cleared, c)
  <2>1. t = [cleared EXCEPT !.playing = f, !.waits = w, !.own = o] /\ cleared \in States
    BY <1>3 DEF Starts, Booked, States
  <2>2. f \in [Cues -> {"off", "on", "stopping"}] /\ \A d \in Cues \ {c} : f[d] = cleared.playing[d]
    BY <2>1 DEF States
  <2>3. w \in [Cues -> Nat] /\ o \in SUBSET Cues
    BY <2>1, CuesAreRows DEF States
  <2>4. \A d \in o : d = c \/ d \in cleared.own
    OBVIOUS
  <2> HIDE DEF f, w, o, t
  <2>5. /\ t \in States /\ t.P = cleared.P /\ t.S = cleared.S /\ t.n = cleared.n /\ t.run = cleared.run
        /\ t.playing = f /\ t.own = o /\ t.refused = cleared.refused
    BY <2>1, <2>2, <2>3 DEF States
  <2>6. Booked(t) /\ Sheds(cleared, t)
    <3>1. Booked(t)
      BY <1>3, <2>5 DEF Booked
    <3> QED
      BY <1>3, <2>5, <3>1, ShedsNothing
  <2>7. Sheds(s, t)
    BY <1>3, <2>6, ShedsAll DEF Free
  <2>8. ASSUME NEW d \in o, f[d] = "on"
        PROVE  d = c
    <3>1. CASE d \in cleared.own /\ d # c
      <4>1. d \in Cues \ {c} /\ d \in s.own
        BY <1>3, <2>3, <3>1
      <4>2. s.playing[d] # "on" /\ f[d] = s.playing[d]
        BY <1>3, <2>2, <4>1 DEF Free
      <4> QED
        BY <2>8, <4>2
    <3> QED
      BY <2>4, <3>1
  <2>9. Booked(t) /\ StepsOf(t.S) = {} /\ t.run = s.run /\ t.refused = s.refused
    BY <1>3, <2>5, <2>6
  <2> QED
    BY <2>5, <2>7, <2>8, <2>9 DEF t
<1>7. \E t, ok : try = [ok |-> ok, s |-> t] /\ ok \in BOOLEAN /\ Fine(t, ok)
  <2> HIDE DEF Fine
  <2>1. CASE try = [ok |-> FALSE, s |-> s]
    BY <1>2, <2>1
  <2>2. CASE try = [ok |-> TRUE, s |-> IF Cue[c].rule = "nothing" THEN s ELSE stopped]
    <3> HIDE DEF stopped
    <3> QED
      BY <1>2, <1>5, <2>2
  <2>3. CASE try = [ok |-> TRUE, s |-> Starts(cleared, c)]
    <3> HIDE DEF cleared
    <3> QED
      BY <1>6, <2>3
  <2>4. CASE try = [ok |-> FALSE, s |-> cleared]
    <3> HIDE DEF cleared
    <3> QED
      BY <1>4, <2>4
  <2> QED
    BY <2>1, <2>2, <2>3, <2>4, Zenon DEF TryChild
<1> HIDE DEF Fine
<1>8. PICK t, ok : try = [ok |-> ok, s |-> t] /\ ok \in BOOLEAN /\ Fine(t, ok)
  BY <1>7
<1>9. try.ok = ok /\ try.s = t
  BY <1>8
<1> QED
  BY <1>8, <1>9 DEF Fine

(* A run changes, and nothing else does.                                   *)
LEMMA RunChanges ==
  ASSUME NEW s, Booked(s), NEW r \in {NoRun} \cup RunState
  PROVE  LET t == [s EXCEPT !.run = r]
         IN  /\ Booked(t) /\ t.P = s.P /\ t.S = s.S /\ t.n = s.n /\ t.run = r
             /\ t.own = s.own /\ t.playing = s.playing /\ t.waits = s.waits /\ t.refused = s.refused
             /\ Sheds(s, t)
<1> DEFINE t == [s EXCEPT !.run = r]
<1>1. s \in States /\ BookOk(s.P, s.S, s.n)
  BY DEF Booked
<1>2. /\ t \in States /\ t.P = s.P /\ t.S = s.S /\ t.n = s.n /\ t.run = r
      /\ t.own = s.own /\ t.playing = s.playing /\ t.waits = s.waits /\ t.refused = s.refused
  BY <1>1 DEF States
<1> HIDE DEF t
<1>3. Booked(t) /\ Sheds(s, t)
  BY <1>1, <1>2, ShedsNothing DEF Booked
<1> QED
  BY <1>2, <1>3 DEF t

LEMMA EndSettles ==
  ASSUME NEW s, Free(s)
  PROVE  Settled(End(s)) /\ Sheds(s, End(s))
<1>1. End(s) = [s EXCEPT !.run = NoRun]
  BY DEF End
<1> DEFINE t == [s EXCEPT !.run = NoRun]
<1>2. /\ Booked(t) /\ t.S = s.S /\ t.run = NoRun /\ t.own = s.own /\ t.playing = s.playing /\ Sheds(s, t)
  BY RunChanges DEF Free
<1> HIDE DEF t
<1>3. Settled(t)
  BY <1>2 DEF Settled, Watches, TheStart, OneOn, Free
<1> QED
  BY <1>1, <1>2, <1>3 DEF t

(* With a watch on the child it stands at the list has settled.            *)
Standing(s) == Free(s) /\ s.run \in RunState /\ s.run.pos \in Cues /\ s.run.order[s.run.pos] = s.run.current

LEMMA WatchedSettles ==
  ASSUME NEW s, Booked(s), StepsOf(s.S) = {},
         s.run \in RunState, s.run.pos \in Cues, s.run.order[s.run.pos] = s.run.current,
         NEW startAt \in Nat, NEW id \in Nat, id < s.n,
         \A e \in s.P : e.id = id => e.kind = "start" /\ e.owner = s.run.current,
         \A c \in s.own : s.playing[c] = "on" => c = s.run.current
  PROVE  LET t == Watched(s, s.run.current, startAt, id)
         IN  /\ Settled(t) /\ Sheds(s, t)
             /\ t.run.order = s.run.order /\ t.run.current = s.run.current /\ t.refused = s.refused
<1> DEFINE c == s.run.current
           r == [s.run EXCEPT !.failures = 0, !.startId = id]
           q == [s EXCEPT !.run = r]
           e == Step(s.n, c, startAt, NextPreWait(s.run))
           t == With(q, e)
<1>1. r \in RunState /\ r.pos = s.run.pos /\ r.order = s.run.order /\ r.current = c /\ r.startId = id
  BY DEF RunState
<1>2. Watched(s, c, startAt, id) = t
  BY DEF Watched, Booked, States
<1> HIDE DEF r
<1>3. /\ Booked(q) /\ q.P = s.P /\ q.S = s.S /\ q.n = s.n /\ q.run = r
      /\ q.own = s.own /\ q.playing = s.playing /\ q.refused = s.refused /\ Sheds(s, q)
  BY <1>1, RunChanges
<1> HIDE DEF q
<1>4. NextPreWait(s.run) \in Nat
  <2> DEFINE o == s.run.order
             pos == s.run.pos
  <2>1. o \in [Cues -> Cues] /\ pos \in 1 .. Last + 1 /\ Last \in Nat \ {0} /\ Cues = 1 .. Last
    BY CuesAreRows DEF RunState
  <2>2. pos \in Nat \ {0} /\ \A d \in Cues : o[d] \in Cues /\ Cue[d].pre \in Nat
    <3> HIDE DEF o, pos
    <3>1. \A d \in Cues : Cue[d].pre \in Nat
      BY CuesAreRows
    <3> QED
      BY <2>1, <3>1
  <2>3. NextPreWait(s.run) = IF pos < Last THEN Cue[o[pos + 1]].pre
                             ELSE IF group.loop THEN Cue[o[1]].pre ELSE 0
    BY DEF NextPreWait
  <2>4. (pos < Last => pos + 1 \in Cues) /\ 1 \in Cues
    <3> HIDE DEF o, pos
    <3> QED
      BY <2>1, <2>2
  <2> HIDE DEF o, pos
  <2> QED
    BY <2>2, <2>3, <2>4
<1>5. /\ e.id = s.n /\ e.kind = "step" /\ e.next = c /\ e.postWaitOwner = 0 /\ e.afterStartId = 0
      /\ e \in ListEntry
  <2>1. c \in Cues /\ s.n \in Nat \ {0}
    BY DEF RunState, Booked, BookOk
  <2>2. e \in StepEntry
    BY <1>4, <2>1 DEF Step, StepEntry
  <2> QED
    BY <2>2 DEF ListEntry, Step
<1> HIDE DEF e
<1>6. /\ Booked(t) /\ t.P \subseteq q.P \cup {e} /\ t.S = q.S \cup {e} /\ t.n = q.n + 1
      /\ t.run = q.run /\ t.own = q.own /\ t.playing = q.playing /\ t.refused = q.refused
      /\ Sheds(q, t)
  BY <1>3, <1>5, WithKeeps
<1> HIDE DEF t
<1>7. t.run # NoRun
  BY <1>1, <1>3, <1>6, RunsAreRuns
<1>8. Watches(t)
  <2>1. StepsOf(t.S) = {e}
    BY <1>3, <1>5, <1>6 DEF StepsOf
  <2> QED
    BY <1>1, <1>3, <1>5, <1>6, <1>7, <2>1 DEF Watches
<1>9. TheStart(t)
  <2>1. s.n \in Nat
    BY DEF Booked, States
  <2>2. t.run.startId < t.n /\ t.run.startId # s.n
    BY <1>1, <1>3, <1>6, <2>1
  <2>3. \A x \in t.P : x.id = t.run.startId => x \in s.P
    BY <1>3, <1>5, <1>6, <2>2
  <2> QED
    BY <1>1, <1>3, <1>6, <2>2, <2>3 DEF TheStart
<1>10. OneOn(t)
  BY <1>1, <1>3, <1>6, <1>7 DEF OneOn
<1>11. Sheds(s, t)
  BY <1>3, <1>6, ShedsAll
<1> QED
  BY <1>1, <1>2, <1>3, <1>6, <1>8, <1>9, <1>10, <1>11 DEF Settled

LEMMA StartKeeps ==
  ASSUME now \in Nat, NEW s, Standing(s), NEW q \in StartChild(s, s.run.current)
  PROVE  /\ q = [ok |-> q.ok, s |-> q.s] /\ q.ok \in BOOLEAN /\ Sheds(s, q.s)
         /\ q.ok => /\ Settled(q.s) /\ q.s.refused = s.refused
                    /\ q.s.run.order = s.run.order /\ q.s.run.current = s.run.current
         /\ ~ q.ok => Standing(q.s) /\ q.s.run = s.run
<1> DEFINE c == s.run.current
           startAt == now + Cue[c].pre
<1>1. c \in Cues /\ startAt \in Nat /\ s.n \in Nat \ {0} /\ Booked(s) /\ StepsOf(s.S) = {} /\ Free(s)
  <2>1. s.run.order[s.run.pos] \in Cues
    BY DEF Standing, RunState
  <2> QED
    BY <2>1, CuesAreRows DEF Standing, Free, Booked, BookOk
<1>2. CASE startAt > now
  <2> DEFINE e == Start(s.n, c, startAt, 0, 0)
             t == With(s, e)
             u == Watched(t, c, startAt, s.n)
  <2>1. q = [ok |-> TRUE, s |-> u]
    BY <1>2 DEF StartChild
  <2>2. /\ e \in ListEntry /\ e.id = s.n /\ e.kind = "start" /\ e.postWaitOwner = 0 /\ e.afterStartId = 0
        /\ e.runId = e.id /\ e.owner = c /\ now < e.at
    BY <1>1, <1>2 DEF Start, ListEntry, Entry
  <2> HIDE DEF e
  <2>3. /\ Booked(t) /\ t.P \subseteq s.P \cup {e} /\ t.S = s.S \cup {e} /\ t.n = s.n + 1
        /\ t.run = s.run /\ t.own = s.own /\ t.playing = s.playing /\ t.refused = s.refused
        /\ Sheds(s, t)
    BY <1>1, <2>2, WithKeeps
  <2> HIDE DEF t
  <2>4. StepsOf(t.S) = {} /\ s.n < t.n
    BY <1>1, <2>2, <2>3 DEF StepsOf
  <2>5. \A x \in t.P : x.id = s.n => x.kind = "start" /\ x.owner = c
    <3>1. \A x \in s.P : x.id < s.n /\ x.id \in Nat
      BY <1>1 DEF Booked, BookOk, IsEntry, Entry, Foreign
    <3> QED
      BY <1>1, <2>2, <2>3, <3>1
  <2>6. LET w == Watched(t, t.run.current, startAt, s.n)
        IN  /\ Settled(w) /\ Sheds(t, w) /\ w.refused = t.refused
            /\ w.run.order = t.run.order /\ w.run.current = t.run.current
    <3>1. /\ t.run \in RunState /\ t.run.pos \in Cues /\ t.run.order[t.run.pos] = t.run.current
          /\ \A d \in t.own : t.playing[d] = "on" => d = t.run.current
      BY <2>3 DEF Standing, Free
    <3> QED
      <4>1. Booked(t) /\ StepsOf(t.S) = {} /\ startAt \in Nat /\ s.n \in Nat /\ s.n < t.n
        BY <1>1, <2>3, <2>4
      <4>2. \A x \in t.P : x.id = s.n => x.kind = "start" /\ x.owner = t.run.current
        BY <2>3, <2>5
      <4> HIDE DEF startAt
      <4> QED
        BY <3>1, <4>1, <4>2, WatchedSettles
  <2>7. u = Watched(t, t.run.current, startAt, s.n)
    BY <2>3
  <2> HIDE DEF u
  <2>8. Sheds(s, u)
    BY <1>1, <2>3, <2>6, <2>7, ShedsAll DEF Settled
  <2> QED
    BY <2>1, <2>3, <2>6, <2>7, <2>8
<1>3. CASE ~ startAt > now
  <2>1. PICK try \in TryChild(s, c) :
           q = IF try.ok THEN [try EXCEPT !.s = Watched(@, c, startAt, 0)] ELSE try
    BY <1>3 DEF StartChild
  <2> DEFINE t == try.s
  <2>2. /\ try = [ok |-> try.ok, s |-> t] /\ try.ok \in BOOLEAN
        /\ Booked(t) /\ StepsOf(t.S) = {} /\ t.run = s.run /\ t.refused = s.refused /\ Sheds(s, t)
        /\ \A d \in t.own : t.playing[d] = "on" => try.ok /\ d = c
    BY <1>1, TryKeeps
  <2>3. CASE ~ try.ok
    <3>1. Standing(t)
      BY <2>2, <2>3 DEF Standing, Free
    <3> QED
      BY <2>1, <2>2, <2>3, <3>1
  <2>4. CASE try.ok
    <3> DEFINE u == Watched(t, c, startAt, 0)
    <3>1. q = [ok |-> TRUE, s |-> u]
      <4>1. q = [try EXCEPT !.s = u]
        BY <2>1, <2>4
      <4> HIDE DEF u, t
      <4> QED
        BY <2>2, <2>4, <4>1
    <3> HIDE DEF t
    <3>2. \A x \in t.P : x.id # 0
      BY <2>2 DEF Booked, BookOk, IsEntry, Entry, Foreign
    <3>3. /\ t.run \in RunState /\ t.run.pos \in Cues /\ t.run.order[t.run.pos] = t.run.current
          /\ t.run.current = c /\ 0 < t.n
      BY <2>2 DEF Standing, Booked, BookOk
    <3>4. /\ Settled(u) /\ Sheds(t, u) /\ u.refused = t.refused
          /\ u.run.order = t.run.order /\ u.run.current = t.run.current
      <4>1. LET w == Watched(t, t.run.current, startAt, 0)
            IN  /\ Settled(w) /\ Sheds(t, w) /\ w.refused = t.refused
                /\ w.run.order = t.run.order /\ w.run.current = t.run.current
        BY <1>1, <2>2, <3>2, <3>3, WatchedSettles
      <4> QED
        BY <3>3, <4>1
    <3> HIDE DEF u
    <3>5. Sheds(s, u)
      BY <1>1, <2>2, <3>4, ShedsAll DEF Settled
    <3> QED
      BY <2>2, <3>1, <3>4, <3>5
  <2> QED
    BY <2>2, <2>3, <2>4
<1> QED
  BY <1>2, <1>3

(* What a pass of the loop may come to, from the state s on.               *)
Came(s, p) == /\ p = [left |-> p.left, s |-> p.s] /\ p.left \in BOOLEAN
              /\ p.left => Settled(p.s)
              /\ ~ p.left => Moving(p.s)
              /\ Sheds(s, p.s)

LEMMA MovesOn ==
  ASSUME NEW s, Moving(s), s.run.pos \in Cues
  PROVE  Came(s, GoOnWith(s))
<1> DEFINE r == [s.run EXCEPT !.pos = @ + 1]
           t == [s EXCEPT !.run = r]
<1>1. r \in RunState
  <2>1. s.run.pos + 1 \in 1 .. Last + 1
    BY CuesAreRows
  <2> QED
    BY <2>1 DEF Moving, RunState
<1>2. GoOnWith(s) = [left |-> FALSE, s |-> t]
  BY DEF GoOnWith, Moving, Booked, States
<1> HIDE DEF r
<1>3. /\ Booked(t) /\ t.S = s.S /\ t.run = r /\ t.own = s.own /\ t.playing = s.playing /\ Sheds(s, t)
  BY <1>1, RunChanges DEF Moving
<1> HIDE DEF t
<1>4. Moving(t)
  BY <1>1, <1>3 DEF Moving
<1> QED
  BY <1>2, <1>3, <1>4 DEF Came

LEMMA RefusedCame ==
  ASSUME NEW s, Standing(s)
  PROVE  Came(s, Refused(s))
<1> DEFINE t == [s EXCEPT !.refused = TRUE]
           r == [s.run EXCEPT !.failures = @ + 1]
           u == [t EXCEPT !.run = r]
<1>1. /\ t \in States /\ t.P = s.P /\ t.S = s.S /\ t.n = s.n /\ t.run = s.run
      /\ t.own = s.own /\ t.playing = s.playing
  BY DEF Standing, Free, Booked, States
<1>2. CASE s.run.failures + 1 >= Last
  <2>1. Refused(s) = [left |-> TRUE, s |-> End(t)]
    BY <1>2 DEF Refused, Leave
  <2> HIDE DEF t
  <2>2. Booked(t) /\ Free(t)
    BY <1>1 DEF Standing, Free, Booked
  <2>3. Sheds(s, t)
    BY <1>1, <2>2, ShedsNothing DEF Standing, Free
  <2>4. Settled(End(t)) /\ Sheds(t, End(t))
    BY <2>2, EndSettles
  <2>5. Sheds(s, End(t))
    BY <2>2, <2>3, <2>4, ShedsAll DEF Settled, Standing, Free
  <2> QED
    BY <2>1, <2>4, <2>5 DEF Came
<1>3. CASE ~ (s.run.failures + 1 >= Last)
  <2>1. Refused(s) = GoOnWith(u)
    <3>1. Refused(s) = GoOnWith([s EXCEPT !.run.failures = @ + 1, !.refused = TRUE])
      BY <1>3 DEF Refused
    <3>2. u = [s EXCEPT !.run.failures = @ + 1, !.refused = TRUE]
      BY DEF Standing, Free, Booked, States
    <3> QED
      BY <3>1, <3>2
  <2> HIDE DEF t
  <2>2. r \in RunState /\ r.pos = s.run.pos
    BY DEF Standing, RunState
  <2> HIDE DEF r
  <2>3. Booked(t) /\ Sheds(s, t)
    BY <1>1, ShedsNothing DEF Standing, Free, Booked
  <2>4. /\ Booked(u) /\ u.S = t.S /\ u.run = r /\ u.own = t.own /\ u.playing = t.playing /\ Sheds(t, u)
    BY <2>2, <2>3, RunChanges
  <2> HIDE DEF u
  <2>5. Moving(u) /\ u.run.pos \in Cues
    BY <1>1, <2>2, <2>4 DEF Moving, Standing, Free
  <2>6. Came(u, GoOnWith(u))
    BY <2>5, MovesOn
  <2>7. Sheds(s, GoOnWith(u).s)
    <3>1. Booked(GoOnWith(u).s)
      BY <2>6 DEF Came, Settled, Moving
    <3>2. Sheds(s, u)
      BY <2>3, <2>4, ShedsAll DEF Standing, Free
    <3> QED
      BY <2>4, <2>6, <3>1, <3>2, ShedsAll DEF Came, Standing, Free
  <2> QED
    BY <2>1, <2>6, <2>7 DEF Came
<1> QED
  BY <1>2, <1>3

LEMMA CameBooked ==
  ASSUME NEW s, NEW p, Came(s, p)
  PROVE  Booked(p.s)
BY DEF Came, Settled, Moving

LEMMA CameAgain ==
  ASSUME NEW s, NEW t, NEW p, Booked(s), Booked(t), Sheds(s, t), Came(t, p)
  PROVE  Came(s, p)
<1>1. Sheds(s, p.s)
  BY CameBooked, ShedsAll DEF Came
<1> QED
  BY <1>1 DEF Came

LEMMA TryHereCame ==
  ASSUME now \in Nat, NEW s, Moving(s), s.run.pos \in Cues, NEW p \in TryHere(s)
  PROVE  Came(s, p)
<1> DEFINE c == s.run.order[s.run.pos]
           r == [s.run EXCEPT !.current = c]
           t == [s EXCEPT !.run = r]
<1>1. CASE c \notin armed
  BY <1>1, MovesOn DEF TryHere
<1>2. CASE c \in armed
  <2>1. r \in RunState /\ r.pos = s.run.pos /\ r.order = s.run.order /\ r.current = c
    BY DEF Moving, RunState
  <2>2. t = [s EXCEPT !.run.current = c]
    BY DEF Moving, Booked, States
  <2>3. PICK q \in StartChild(t, c) : p = IF q.ok THEN Leave(q.s) ELSE Refused(q.s)
    <3> HIDE DEF t
    <3> QED
      BY <1>2, <2>2 DEF TryHere
  <2> HIDE DEF r
  <2>4. /\ Booked(t) /\ t.S = s.S /\ t.run = r /\ t.own = s.own /\ t.playing = s.playing /\ Sheds(s, t)
    BY <2>1, RunChanges DEF Moving
  <2> HIDE DEF t
  <2>5. Standing(t) /\ q \in StartChild(t, t.run.current)
    BY <2>1, <2>3, <2>4 DEF Standing, Free, Moving
  <2>6. /\ q.ok \in BOOLEAN /\ Sheds(t, q.s)
        /\ q.ok => Settled(q.s)
        /\ ~ q.ok => Standing(q.s)
    BY <2>5, StartKeeps
  <2>7. Sheds(s, q.s) /\ Booked(q.s)
    <3>1. Booked(q.s)
      BY <2>6 DEF Settled, Standing, Free
    <3> QED
      BY <2>4, <2>6, <3>1, ShedsAll DEF Moving
  <2>8. CASE q.ok
    BY <2>3, <2>6, <2>7, <2>8 DEF Leave, Came
  <2>9. CASE ~ q.ok
    <3>1. Came(q.s, p)
      BY <2>3, <2>6, <2>9, RefusedCame
    <3> QED
      BY <2>7, <3>1, CameAgain DEF Moving
  <2> QED
    BY <2>8, <2>9
<1> QED
  BY <1>1, <1>2

(* The order of a round is one of the children.                            *)
LEMMA RoundsAreOrders ==
  ASSUME NEW r, NEW o \in Round(r)
  PROVE  o \in [Cues -> Cues]
BY DEF Round, Orders

LEMMA PassCame ==
  ASSUME now \in Nat, NEW s, Moving(s), NEW p \in Pass(s)
  PROVE  Came(s, p)
<1>1. CASE s.run.pos <= Last
  <2>1. s.run.pos \in Cues
    BY <1>1, CuesAreRows DEF Moving, RunState
  <2> QED
    BY <1>1, <2>1, TryHereCame DEF Pass
<1>2. CASE ~ (s.run.pos <= Last) /\ group.loop
  <2>1. PICK o \in Round(s.run) : p \in TryHere([s EXCEPT !.run.order = o, !.run.pos = 1])
    BY <1>2 DEF Pass
  <2> DEFINE r == [s.run EXCEPT !.order = o, !.pos = 1]
             t == [s EXCEPT !.run = r]
  <2>2. r \in RunState /\ r.pos \in Cues
    <3>1. o \in [Cues -> Cues] /\ 1 \in 1 .. Last + 1 /\ 1 \in Cues
      BY RoundsAreOrders, CuesAreRows
    <3> QED
      BY <3>1 DEF Moving, RunState
  <2>3. t = [s EXCEPT !.run.order = o, !.run.pos = 1]
    BY DEF Moving, Booked, States
  <2>4. p \in TryHere(t)
    BY <2>1, <2>3
  <2> HIDE DEF r
  <2>5. /\ Booked(t) /\ t.S = s.S /\ t.run = r /\ t.own = s.own /\ t.playing = s.playing /\ Sheds(s, t)
    BY <2>2, RunChanges DEF Moving
  <2> HIDE DEF t
  <2>6. Moving(t) /\ t.run.pos \in Cues
    BY <2>2, <2>5 DEF Moving
  <2> QED
    BY <2>4, <2>5, <2>6, TryHereCame, CameAgain DEF Moving
<1>3. CASE ~ (s.run.pos <= Last) /\ ~ group.loop
  <2>1. p = [left |-> TRUE, s |-> End(s)]
    BY <1>3 DEF Pass, Leave
  <2>2. Settled(End(s)) /\ Sheds(s, End(s))
    BY EndSettles DEF Moving, Free
  <2> QED
    BY <2>1, <2>2 DEF Came
<1> QED
  BY <1>1, <1>2, <1>3

(* playlistStep() leaves a list that has settled.                          *)
LEMMA StepSettles ==
  ASSUME now \in Nat, NEW s, Moving(s), NEW t \in playlistStep(s)
  PROVE  Settled(t) /\ Sheds(s, t)
<1> DEFINE T == {p \in [left : BOOLEAN, s : States] : Came(s, p)}
<1>1. \A p : Came(s, p) => p \in T
  <2> SUFFICES ASSUME NEW p, Came(s, p)
               PROVE  p \in [left : BOOLEAN, s : States]
    OBVIOUS
  <2>1. p.s \in States /\ p = [left |-> p.left, s |-> p.s] /\ p.left \in BOOLEAN
    BY CameBooked DEF Came, Booked
  <2> QED
    BY <2>1
<1>2. [left |-> FALSE, s |-> s] \in T
  <2>1. Sheds(s, s)
    BY ShedsNothing DEF Moving
  <2>2. Came(s, [left |-> FALSE, s |-> s])
    BY <2>1 DEF Came
  <2> QED
    BY <1>1, <2>2
<1>3. \A p \in T : ~ p.left => Pass(p.s) \in SUBSET T
  <2> SUFFICES ASSUME NEW p \in T, ~ p.left, NEW q \in Pass(p.s)
               PROVE  q \in T
    OBVIOUS
  <2>1. Came(s, p) /\ Moving(p.s)
    BY DEF Came
  <2>2. Came(p.s, q)
    BY <2>1, PassCame
  <2>3. Came(s, q)
    BY <2>1, <2>2, CameAgain DEF Moving, Came
  <2> QED
    BY <1>1, <2>3
<1>4. \A p \in T : Came(s, p)
  OBVIOUS
<1> HIDE DEF T
<1>5. PICK p \in T : t = IF p.left THEN p.s ELSE End(p.s)
  BY <1>2, <1>3, PassesKeep
<1>6. Came(s, p)
  BY <1>4
<1>7. CASE p.left
  BY <1>5, <1>6, <1>7 DEF Came
<1>8. CASE ~ p.left
  <2>1. Settled(End(p.s)) /\ Sheds(p.s, End(p.s))
    BY <1>6, <1>8, EndSettles DEF Came, Moving, Free
  <2>2. Sheds(s, End(p.s))
    BY <1>6, <2>1, CameBooked, ShedsAll DEF Came, Settled, Moving
  <2> QED
    BY <1>5, <1>8, <2>1, <2>2
<1> QED
  BY <1>7, <1>8

-----------------------------------------------------------------------------
(* What a call or the list's watch does, from a list that has settled.     *)

LEMMA StartGroupSettles ==
  ASSUME now \in Nat, NEW s, Free(s), NEW t \in startGroup(s)
  PROVE  Settled(t) /\ Sheds(s, t)
<1>1. PICK o \in Orders : t \in playlistStep([s EXCEPT !.run = NewRun(o)])
  BY DEF startGroup
<1> DEFINE r == NewRun(o)
           u == [s EXCEPT !.run = r]
<1>2. r \in RunState
  <2>1. o \in [Cues -> Cues] /\ 1 \in 1 .. Last + 1
    BY CuesAreRows DEF Orders
  <2> QED
    BY <2>1 DEF NewRun, RunState
<1> HIDE DEF r
<1>3. /\ Booked(u) /\ u.S = s.S /\ u.run = r /\ u.own = s.own /\ u.playing = s.playing /\ Sheds(s, u)
  BY <1>2, RunChanges DEF Free
<1>4. t \in playlistStep(u)
  BY <1>1 DEF r
<1> HIDE DEF u
<1>5. Moving(u)
  BY <1>2, <1>3 DEF Moving, Free
<1>6. Settled(t) /\ Sheds(u, t)
  BY <1>4, <1>5, StepSettles
<1> QED
  BY <1>3, <1>6, ShedsAll DEF Settled, Free

(* The entries of the group are the watch and the fades.                   *)
LEMMA TheGroupsEntries ==
  ASSUME NEW s, Booked(s)
  PROVE  /\ Closed(s.P, IdsOf(s.S), OfTheGroup(s))
         /\ \A f \in s.S : f.kind = "step" => f \in OfTheGroup(s)
<1>1. \A e \in s.P : e \in ListEntry
  BY DEF Booked, States
<1>2. \A e \in s.P : e.kind = "step" => e.owner = G
  BY <1>1, EntriesAreEntries
<1>3. \A e \in s.P : e.owner = G => e.kind # "start"
  <2>1. G \notin Cues
    BY CuesAreRows DEF G
  <2> QED
    BY <1>1, <2>1 DEF ListEntry, Entry, StepEntry, FadeEntry
<1>4. s.S \subseteq s.P
  BY DEF Booked, BookOk
<1> QED
  BY <1>2, <1>3, <1>4 DEF OfTheGroup, Closed

LEMMA StopGroupSettles ==
  ASSUME NEW s, Booked(s)
  PROVE  LET t == stopGroup(s)
         IN  /\ Settled(t) /\ Sheds(s, t) /\ t.P \subseteq s.P /\ t.S \subseteq s.S /\ t.n = s.n
             /\ t.run = NoRun /\ Free(t) /\ t.refused = s.refused
<1> DEFINE L == IdsOf(s.S)
           Of(c) == AllOf(s.P, L, c, 0)
           X == OfTheGroup(s) \cup UNION {Of(c) : c \in Cues}
           u == Without(s, X)
           w == [c \in Cues |-> 0]
           f == [c \in Cues |-> IF s.playing[c] = "on" THEN "stopping" ELSE s.playing[c]]
           t == [u EXCEPT !.run = NoRun, !.waits = w, !.playing = f]
<1>1. stopGroup(s) = t
  BY DEF stopGroup, AllOf
<1>2. Closed(s.P, L, X) /\ \A g \in s.S : g.kind = "step" => g \in X
  <2>1. IsFiniteSet(s.P)
    BY DEF Booked, BookOk
  <2>2. \A c \in Cues : Closed(s.P, L, Of(c))
    BY <2>1, PendingIsClosed
  <2>3. Closed(s.P, L, OfTheGroup(s)) /\ \A g \in s.S : g.kind = "step" => g \in OfTheGroup(s)
    BY TheGroupsEntries
  <2> HIDE DEF Of
  <2>4. Closed(s.P, L, UNION {Of(c) : c \in Cues})
    BY <2>2, ClosedUnions
  <2> QED
    BY <2>3, <2>4, ClosedUnions
<1> HIDE DEF X
<1>3. /\ Booked(u) /\ u.P = s.P \ X /\ u.S = s.S \ X /\ u.n = s.n
      /\ u.own = s.own /\ u.playing = s.playing /\ u.waits = s.waits /\ u.refused = s.refused
  BY WithoutKeeps
<1>4. Sheds(s, u)
  BY <1>2, ClosedSheds
<1> HIDE DEF u
<1>5. f \in [Cues -> {"off", "on", "stopping"}] /\ \A c \in Cues : f[c] # "on"
  <2>1. s.playing \in [Cues -> {"off", "on", "stopping"}]
    BY DEF Booked, States
  <2> QED
    BY <2>1
<1>6. w \in [Cues -> Nat]
  OBVIOUS
<1> HIDE DEF f, w
<1>7. /\ t \in States /\ t.P = u.P /\ t.S = u.S /\ t.n = u.n /\ t.run = NoRun
      /\ t.own = u.own /\ t.playing = f /\ t.refused = u.refused
  BY <1>3, <1>5, <1>6 DEF Booked, States
<1> HIDE DEF t
<1>8. Booked(t)
  BY <1>3, <1>7 DEF Booked
<1>9. StepsOf(t.S) = {}
  BY <1>2, <1>3, <1>7 DEF StepsOf
<1>10. Free(t)
  <2>1. t.own \subseteq Cues
    BY <1>7 DEF States
  <2> QED
    BY <1>5, <1>7, <1>8, <1>9, <2>1 DEF Free
<1>11. Settled(t)
  BY <1>7, <1>9, <1>10 DEF Settled, Watches, TheStart, OneOn, Free
<1>12. Sheds(s, t)
  <2>1. Sheds(u, t)
    BY <1>3, <1>7, ShedsNothing
  <2> QED
    BY <1>3, <1>4, <1>8, <2>1, ShedsAll
<1> QED
  BY <1>1, <1>3, <1>7, <1>10, <1>11, <1>12

LEMMA QuietSheds ==
  ASSUME NEW s, Booked(s), NEW c \in Cues
  PROVE  LET t == Quiet(s, c)
         IN  /\ Booked(t) /\ t.P \subseteq s.P /\ t.S \subseteq s.S /\ t.n = s.n
             /\ t.run = s.run /\ t.own = s.own /\ t.refused = s.refused
             /\ t.playing[c] # "on" /\ \A d \in Cues \ {c} : t.playing[d] = s.playing[d]
             /\ StepsOf(t.S) = StepsOf(s.S) /\ Sheds(s, t)
<1> DEFINE g == Forget(s, c)
           w == [g.waits EXCEPT ![c] = IF s.playing[c] # "off" THEN @ ELSE 0]
           u == [g EXCEPT !.waits = w]
           t == Silence(u, c)
<1>1. /\ Booked(g) /\ g.P \subseteq s.P /\ g.S \subseteq s.S /\ g.n = s.n
      /\ g.run = s.run /\ g.own = s.own /\ g.playing = s.playing /\ g.waits = s.waits
      /\ g.refused = s.refused /\ StepsOf(g.S) = StepsOf(s.S) /\ Sheds(s, g)
  BY ForgetKeeps
<1> HIDE DEF g
<1>2. w \in [Cues -> Nat] /\ g \in States
  BY <1>1 DEF Booked, States
<1>3. Quiet(s, c) = t
  BY <1>2 DEF Quiet, States, g
<1> HIDE DEF w
<1>4. /\ u \in States /\ u.P = g.P /\ u.S = g.S /\ u.n = g.n
      /\ u.run = g.run /\ u.own = g.own /\ u.playing = g.playing /\ u.refused = g.refused
  BY <1>2 DEF States
<1> HIDE DEF u
<1>5. Booked(u)
  BY <1>1, <1>4 DEF Booked
<1>6. /\ Booked(t) /\ t.P = u.P /\ t.S = u.S /\ t.n = u.n
      /\ t.run = u.run /\ t.own = u.own /\ t.refused = u.refused
      /\ t.playing[c] # "on" /\ \A d \in Cues \ {c} : t.playing[d] = u.playing[d]
  BY <1>5, SilenceKeeps
<1> HIDE DEF t
<1>7. Sheds(s, t)
  <2>1. Sheds(g, t)
    BY <1>1, <1>4, <1>6, ShedsNothing
  <2> QED
    BY <1>1, <1>6, <2>1, ShedsAll
<1> QED
  BY <1>1, <1>3, <1>4, <1>6, <1>7

LEMMA SkipSettles ==
  ASSUME now \in Nat, NEW s, Settled(s), s.run # NoRun, NEW t \in playlistSkip(s)
  PROVE  Settled(t) /\ Sheds(s, t)
<1> DEFINE u == Without(s, OfTheGroup(s))
           c == s.run.current
           v == Quiet(u, c)
           m == [v EXCEPT !.run.pos = @ + 1]
<1>1. t \in playlistStep(m)
  BY DEF playlistSkip
<1>2. s \in States /\ s.run \in RunState /\ c \in Cues /\ s.run.pos \in Cues
  <2>1. s \in States
    BY DEF Settled, Booked
  <2>2. s.run \in RunState
    BY <2>1 DEF States
  <2> QED
    BY <2>1, <2>2 DEF Settled, Watches, RunState
<1>3. /\ Closed(s.P, IdsOf(s.S), OfTheGroup(s))
      /\ \A f \in s.S : f.kind = "step" => f \in OfTheGroup(s)
  BY TheGroupsEntries DEF Settled
<1>4. /\ Booked(u) /\ u.S = s.S \ OfTheGroup(s) /\ u.run = s.run /\ u.own = s.own /\ u.playing = s.playing
  BY WithoutKeeps DEF Settled
<1>5. Sheds(s, u)
  BY <1>3, ClosedSheds DEF Settled
<1> HIDE DEF u
<1>6. StepsOf(u.S) = {}
  BY <1>3, <1>4 DEF StepsOf
<1>7. /\ Booked(v) /\ v.run = u.run /\ v.own = u.own
      /\ v.playing[c] # "on" /\ \A d \in Cues \ {c} : v.playing[d] = u.playing[d]
      /\ StepsOf(v.S) = StepsOf(u.S) /\ Sheds(u, v)
  BY <1>2, <1>4, QuietSheds
<1> HIDE DEF v
<1>8. Moving(v) /\ v.run.pos \in Cues
  <2>1. ASSUME NEW d \in v.own
        PROVE  v.playing[d] # "on"
    <3>1. d \in Cues /\ d \in s.own
      BY <1>2, <1>4, <1>7 DEF States
    <3>2. s.playing[d] = "on" => d = c
      BY <3>1 DEF Settled, OneOn
    <3> QED
      BY <1>4, <1>7, <3>1, <3>2
  <2> QED
    BY <1>2, <1>4, <1>6, <1>7, <2>1 DEF Moving
<1>9. Came(v, GoOnWith(v))
  BY <1>8, MovesOn
<1>10. GoOnWith(v).left = FALSE /\ GoOnWith(v).s = m
  BY DEF GoOnWith
<1>11. Moving(m) /\ Sheds(v, m)
  BY <1>9, <1>10 DEF Came
<1> HIDE DEF m
<1>12. Settled(t) /\ Sheds(m, t)
  BY <1>1, <1>11, StepSettles
<1>13. Sheds(s, v)
  BY <1>4, <1>5, <1>7, ShedsAll DEF Settled
<1>14. Sheds(s, m)
  BY <1>7, <1>11, <1>13, ShedsAll DEF Settled, Moving
<1> QED
  BY <1>11, <1>12, <1>14, ShedsAll DEF Settled, Moving

-----------------------------------------------------------------------------
(* What happens to a child on the timeline goes past the list: it takes no *)
(* watch away, and the child it starts is the list's no more, or is the one *)
(* the list stands at.                                                     *)

ListInv == StepInv /\ Settled(Here)

CueStep ==
  \/ FireChild \/ StopChild \/ WalkOn \/ TickStarts \/ TickFollows \/ TickEnds
  \/ (EngineEnds \/ Advance) /\ UNCHANGED list
  \/ UNCHANGED everything

LEMMA HereIs ==
  /\ Here.P = pending /\ Here.S = sched /\ Here.n = nextId /\ Here.playing = playing
  /\ Here.waits = waits /\ Here.run = run /\ Here.own = own /\ Here.refused = FALSE
BY DEF Here

LEMMA CueStepsAreNext ==
  ASSUME CueStep \/ StopAll
  PROVE  [Next]_vars
BY Zenon DEF CueStep, FireChild, StopChild, StopAll, WalkOn, TickStarts, TickFollows, TickEnds, Next, Operator,
             Tick, everything

(* No child fades the others out: what its start takes is its own.         *)
LEMMA TakesOfACue ==
  ASSUME NEW c \in Cues, NEW L, NEW firing, NEW o \in StartById(c, L, firing)
  PROVE  o \in Trigger(c, L, firing)
BY ChildrenAssumption DEF StartById

LEMMA TriggerTakes ==
  ASSUME NEW c \in Cues, NEW L, NEW firing, NEW o \in Trigger(c, L, firing)
  PROVE  o.takes \in {{}, AllOf(pending, L, c, 0), AllOf(pending, L, c, firing)}
<1>1. \A r, T, p, w : Outcome(r, T, p, w).takes = T
  BY DEF Outcome
<1>2. CASE isPanicLatched \/ c \notin armed
  BY <1>1, <1>2 DEF Trigger
<1>3. CASE o = Answer(c, L)
  <2> DEFINE R == AllOf(pending, L, c, 0)
             w == [waits EXCEPT ![c] = 0]
  <2>1. \/ o = Outcome("ignored", {}, playing, waits)
        \/ o = Outcome("ignored", R, StopSound(c), w)
    BY <1>3 DEF Answer, AllOf
  <2> HIDE DEF R, w
  <2>2. o.takes \in {{}, R}
    BY <1>1, <2>1
  <2> QED
    BY <2>2 DEF R
<1>4. ASSUME NEW T, o \in StartNow(c, T)
      PROVE  o.takes = T
  BY <1>1, <1>4 DEF StartNow
<1> QED
  BY <1>2, <1>3, <1>4 DEF Trigger, cancelPreviousRun, KeepFiring, AllOf

(* What is taken of cues holds no watch of the list's.                     *)
Spares(X) == \A e \in sched \cap X : e.kind # "step"

LEMMA StepsAreSpared ==
  ASSUME ListInv, NEW L, L \subseteq IdsOf(sched)
  PROVE  /\ \A c \in Cues : \A keep : Spares(AllOf(pending, L, c, keep)) /\ Spares(StartsOf(pending, L, c, keep))
         /\ \A S \in SUBSET Live(pending, L) : Spares(WithItsChain(pending, L, S))
<1>1. IsFiniteSet(pending) /\ sched \subseteq pending
  BY DEF ListInv, StepInv, BookOk
<1>2. \A e \in sched : e.kind = "step" => e.runId = 0 /\ e.owner \notin Cues
  <2>1. \A e \in sched : e \in ListEntry
    BY HereIs DEF ListInv, Settled, Booked, States
  <2> QED
    BY <2>1, EntriesAreEntries DEF Foreign
<1>3. 0 \notin L
  BY DEF IdsOf, ListInv, StepInv, BookOk, IsEntry, Entry, Foreign
<1>4. ASSUME NEW c \in Cues, NEW keep
      PROVE  Spares(AllOf(pending, L, c, keep))
  <2>1. \A f \in AllOf(pending, L, c, keep) : f.kind # "start" => f.runId \in L \/ f.owner = c
    BY <1>1, PendingIsClosed
  <2> QED
    BY <1>2, <1>3, <2>1 DEF Spares
<1>5. ASSUME NEW S \in SUBSET Live(pending, L)
      PROVE  Spares(WithItsChain(pending, L, S))
  <2>1. \A f \in WithItsChain(pending, L, S) : f.kind # "start" => f.runId \in L
    BY <1>1, WithItsChainIsClosed
  <2> QED
    BY <1>2, <1>3, <2>1 DEF Spares
<1>6. ASSUME NEW c \in Cues, NEW keep
      PROVE  Spares(StartsOf(pending, L, c, keep))
  <2> DEFINE matches == {p \in pending : p.owner = c /\ (keep = 0 \/ p.runId # keep) /\ p.kind = "start"}
             starts  == {p \in matches : p.kind = "start" /\ p.id \in L}
  <2>1. StartsOf(pending, L, c, keep) = matches \cup WithItsChain(pending, L, starts)
    BY DEF StartsOf, cancelPendingFor
  <2>2. starts \in SUBSET Live(pending, L)
    BY DEF Live
  <2>3. Spares(WithItsChain(pending, L, starts)) /\ Spares(matches)
    <3>1. Spares(matches)
      BY DEF Spares
    <3> HIDE DEF starts
    <3> QED
      BY <1>5, <2>2, <3>1
  <2> HIDE DEF matches, starts
  <2> QED
    BY <2>1, <2>3 DEF Spares
<1> QED
  BY <1>4, <1>5, <1>6

LEMMA TakenSpares ==
  ASSUME NEW X, Spares(X), sched \ X \subseteq sched'
  PROVE  \A e \in sched : e.kind = "step" => e \in sched'
BY DEF Spares

LEMMA TriggerSpares ==
  ASSUME ListInv, NEW c \in Cues, NEW L, L \subseteq IdsOf(sched), NEW firing \in Nat,
         NEW o \in Trigger(c, L, firing)
  PROVE  /\ Spares(o.takes)
         /\ \A d \in Cues \ {c} : o.playing[d] = playing[d]
         /\ SoundOk(o.playing, o.waits)
<1>1. PlainOk /\ IsFiniteSet(pending)
  BY DEF ListInv, StepInv, BookOk
<1>2. o.takes \in {{}, AllOf(pending, L, c, 0), AllOf(pending, L, c, firing)}
  BY TriggerTakes
<1>3. Spares(AllOf(pending, L, c, 0)) /\ Spares(AllOf(pending, L, c, firing)) /\ Spares({})
  BY StepsAreSpared DEF Spares
<1>4. Spares(o.takes)
  <2> HIDE DEF AllOf, Spares
  <2> QED
    BY <1>2, <1>3
<1>5. (\A d \in Cues \ {c} : o.playing[d] = playing[d]) /\ SoundOk(o.playing, o.waits)
  BY <1>1, TriggerOutcome
<1> QED
  BY <1>4, <1>5

(* A walk starts the child it stands at, and no other.                     *)
LEMMA WalkSpares ==
  ASSUME ListInv, Walk
  PROVE  /\ \A e \in sched : e.kind = "step" => e \in sched'
         /\ playing' = playing \/ (AtACue /\ \A d \in Cues \ {walk.i} : playing'[d] = playing[d])
<1> DEFINE L == IdsOf(sched)
<1>1. CASE WalkPassesDisarmed \/ WalkEnds
  BY <1>1 DEF WalkPassesDisarmed, WalkEnds, book, sound
<1>2. CASE WalkAnswers
  <2>1. AtACue /\ walk.i \in Cues
    BY <1>2 DEF WalkAnswers, AtACue
  <2>2. CASE UNCHANGED <<pending, sched, sound>>
    BY <2>2 DEF sound
  <2>3. CASE \E o \in {Outcome("ignored", AllOf(pending, L, walk.i, 0), playing, waits)} \cup Trigger(walk.i, L, 0) :
               Take(o.takes) /\ playing' = o.playing /\ waits' = o.waits
    <3>1. PICK o \in {Outcome("ignored", AllOf(pending, L, walk.i, 0), playing, waits)} \cup Trigger(walk.i, L, 0) :
               Take(o.takes) /\ playing' = o.playing /\ waits' = o.waits
      BY <2>3
    <3>2. Spares(o.takes) /\ \A d \in Cues \ {walk.i} : o.playing[d] = playing[d]
      <4>1. CASE o = Outcome("ignored", AllOf(pending, L, walk.i, 0), playing, waits)
        <5>1. o.takes = AllOf(pending, L, walk.i, 0) /\ o.playing = playing
          BY <4>1 DEF Outcome
        <5> QED
          BY <2>1, <5>1, StepsAreSpared
      <4>2. CASE o \in Trigger(walk.i, L, 0)
        BY <2>1, <4>2, TriggerSpares
      <4> QED
        BY <3>1, <4>1, <4>2
    <3> QED
      BY <2>1, <3>1, <3>2, TakenSpares DEF Take
  <2> QED
    BY <1>2, <2>2, <2>3, Zenon DEF WalkAnswers, AllOf
<1>3. CASE WalkStartsOver
  <2> DEFINE some(k) == k # walk.head /\ isCueActive(k)
             X == UNION {cancelPendingFor(pending, L, k, some(k), 0) : k \in AlongTheChain(walk.head)}
  <2>1. Take(X) /\ playing' = playing
    BY <1>3 DEF WalkStartsOver, sound
  <2>2. AlongTheChain(walk.head) \subseteq Cues
    BY DEF AlongTheChain, ListInv, StepInv, PlainOk
  <2>3. \A k \in Cues : Spares(cancelPendingFor(pending, L, k, some(k), 0))
    <3> TAKE k \in Cues
    <3> HIDE DEF some
    <3>1. some(k) \in BOOLEAN
      BY DEF some
    <3>2. cancelPendingFor(pending, L, k, some(k), 0) \in {AllOf(pending, L, k, 0), StartsOf(pending, L, k, 0)}
      BY <3>1 DEF AllOf, StartsOf
    <3> QED
      BY <3>2, StepsAreSpared
  <2> HIDE DEF some
  <2>4. Spares(X)
    BY <2>2, <2>3 DEF Spares
  <2> HIDE DEF X
  <2> QED
    BY <2>1, <2>4, TakenSpares DEF Take
<1>4. ASSUME NEW P, NEW S, NEW n, NEW res, NEW startAt, NEW r, GoOn(P, S, n, res, startAt, r)
      PROVE  S \subseteq sched'
  BY <1>4 DEF GoOn, Book
<1>5. CASE WalkSchedules
  <2>1. \E x : sched \cup {x} \subseteq sched'
    BY <1>4, <1>5 DEF WalkSchedules
  <2> QED
    BY <1>5, <2>1 DEF WalkSchedules, sound
<1>6. CASE WalkStarts
  <2>1. PICK o \in StartById(walk.i, L, 0) : sched \ o.takes \subseteq sched' /\ playing' = o.playing
    BY <1>4, <1>6 DEF WalkStarts
  <2>2. AtACue /\ walk.i \in Cues
    BY <1>6 DEF WalkStarts, AtACue
  <2>3. o \in Trigger(walk.i, L, 0)
    BY <2>2, TakesOfACue
  <2>4. Spares(o.takes) /\ \A d \in Cues \ {walk.i} : o.playing[d] = playing[d]
    BY <2>2, <2>3, TriggerSpares
  <2> QED
    BY <2>1, <2>2, <2>4, TakenSpares
<1> QED
  BY <1>1, <1>2, <1>3, <1>5, <1>6 DEF Walk

LEMMA CueStepSpares ==
  ASSUME ListInv, CueStep
  PROVE  \A e \in sched : e.kind = "step" => e \in sched'
<1>1. CASE UNCHANGED sched
  BY <1>1
<1>2. CASE StopChild
  <2>1. CASE \E c \in Cues : stopCue(c)
    <3>1. PICK c \in Cues : Take(AllOf(pending, IdsOf(sched), c, 0))
      BY <2>1 DEF stopCue, AllOf
    <3> QED
      BY <3>1, StepsAreSpared, TakenSpares DEF Take
  <2>2. CASE cancelScheduledStart
    <3>1. PICK c \in Cues : Take(StartsOf(pending, IdsOf(sched), c, 0))
      BY <2>2 DEF cancelScheduledStart, StartsOf
    <3> QED
      BY <3>1, StepsAreSpared, TakenSpares DEF Take
  <2>3. CASE Arm
    BY <2>3 DEF Arm, book
  <2> QED
    BY <1>2, <2>1, <2>2, <2>3 DEF StopChild
<1>3. CASE WalkOn
  BY <1>3, WalkSpares DEF WalkOn
<1>4. CASE TickStarts
  <2>1. RunStart /\ StepInv
    BY <1>4 DEF TickStarts, ListInv
  <2>2. PICK e \in Due : \E o \in StartById(e.owner, IdsOf(sched) \ {e.id}, e.id) :
              e.kind = "start" /\ sched' = (sched \ {e}) \ o.takes
    BY <2>1, RunStartOk
  <2>3. PICK o \in StartById(e.owner, IdsOf(sched) \ {e.id}, e.id) :
              e.kind = "start" /\ sched' = (sched \ {e}) \ o.takes
    BY <2>2
  <2>4. e.owner \in Cues /\ e.id \in Nat
    BY <2>1, <2>3 DEF Due, StepInv, BookOk, IsEntry, Entry, Foreign
  <2>5. o \in Trigger(e.owner, IdsOf(sched) \ {e.id}, e.id)
    BY <2>4, TakesOfACue
  <2>6. Spares(o.takes)
    BY <2>4, <2>5, TriggerSpares
  <2> QED
    BY <2>3, <2>6 DEF Spares
<1>5. CASE TickFollows
  BY <1>5 DEF TickFollows, RunFollow
<1>6. CASE FireChild \/ TickEnds \/ ((EngineEnds \/ Advance) /\ UNCHANGED list) \/ UNCHANGED everything
  <2>1. UNCHANGED sched
    BY <1>6, Zenon DEF FireChild, TickEnds, Hotkey, EndTick, EngineEnds, Advance, everything, vars, book
  <2> QED
    BY <2>1
<1> QED
  BY <1>2, <1>3, <1>4, <1>5, <1>6 DEF CueStep

(* What the list has at full level: nothing new but the child it stands at. *)
LEMMA CueStepOneOn ==
  ASSUME ListInv, CueStep
  PROVE  /\ own' \in SUBSET Cues
         /\ run' = run
         /\ \A c \in own' : playing'[c] = "on" => run # NoRun /\ c = run.current
<1>1. /\ own \in SUBSET Cues /\ playing \in [Cues -> {"off", "on", "stopping"}]
      /\ \A c \in own : playing[c] = "on" => run # NoRun /\ c = run.current
  BY HereIs DEF ListInv, Settled, Booked, States, OneOn
<1>2. run' = run
  BY Zenon DEF CueStep, FireChild, StopChild, WalkOn, TickStarts, TickFollows, TickEnds, list, everything
<1>3. CASE own' = own /\ \A c \in Cues : playing'[c] = playing[c] \/ playing'[c] # "on"
  BY <1>1, <1>2, <1>3
<1>4. CASE StopChild
  <2>1. own' = own
    BY <1>4 DEF StopChild, list
  <2>2. \A c \in Cues : playing'[c] = playing[c] \/ playing'[c] # "on"
    <3>1. CASE \E c \in Cues : stopCue(c)
      <4>1. PICK c \in Cues : playing' = StopSound(c)
        BY <3>1 DEF stopCue
      <4> QED
        BY <1>1, <4>1 DEF StopSound
    <3>2. CASE cancelScheduledStart \/ Arm
      BY <3>2, Zenon DEF cancelScheduledStart, Arm, sound
    <3> QED
      BY <1>4, <3>1, <3>2 DEF StopChild
  <2> QED
    BY <1>3, <2>1, <2>2
<1>5. CASE WalkOn
  <2> DEFINE cond == AtACue /\ (playing' # playing \/ Cue[walk.i].rule = "restart")
  <2>1. /\ playing' = playing \/ (AtACue /\ \A d \in Cues \ {walk.i} : playing'[d] = playing[d])
    BY <1>5, WalkSpares DEF WalkOn
  <2>2. own' = IF cond THEN own \ {walk.i} ELSE own
    BY <1>5 DEF WalkOn
  <2>3. CASE cond
    <3>1. \A d \in Cues \ {walk.i} : playing'[d] = playing[d]
      BY <2>1
    <3>2. own' = own \ {walk.i}
      BY <2>2, <2>3
    <3> QED
      BY <1>1, <1>2, <3>1, <3>2
  <2>4. CASE ~ cond
    <3>1. playing' = playing /\ own' = own
      BY <2>1, <2>2, <2>4
    <3> QED
      BY <1>3, <3>1
  <2> QED
    BY <2>3, <2>4
<1>6. CASE TickStarts
  <2>1. RunStart /\ StepInv
    BY <1>6 DEF TickStarts, ListInv
  <2>2. PICK x \in Due : /\ turn' = turn \ {x.id}
                         /\ own' = IF run # NoRun /\ run.startId = x.id THEN own \cup {x.owner} ELSE own \ {x.owner}
    BY <1>6 DEF TickStarts
  <2>3. PICK e \in Due : \E o \in StartById(e.owner, IdsOf(sched) \ {e.id}, e.id) :
              e.kind = "start" /\ turn' = turn \ {e.id} /\ playing' = o.playing
    BY <2>1, RunStartOk
  <2>4. PICK o \in StartById(e.owner, IdsOf(sched) \ {e.id}, e.id) :
              e.kind = "start" /\ turn' = turn \ {e.id} /\ playing' = o.playing
    BY <2>3
  <2>5. e.owner \in Cues /\ e.id \in Nat /\ e \in pending
    BY <2>1, <2>4 DEF Due, StepInv, BookOk, IsEntry, Entry, Foreign
  <2>6. x = e
    <3>1. x.id = e.id
      BY <2>2, <2>4 DEF Due
    <3> QED
      BY <2>1, <3>1 DEF Due, StepInv, BookOk
  <2>7. \A d \in Cues \ {e.owner} : playing'[d] = playing[d]
    <3>1. o \in Trigger(e.owner, IdsOf(sched) \ {e.id}, e.id)
      BY <2>5, TakesOfACue
    <3> QED
      BY <2>4, <2>5, <3>1, TriggerSpares
  <2>8. run # NoRun /\ run.startId = e.id => e.owner = run.current
    BY <2>5, HereIs DEF ListInv, Settled, TheStart
  <2>9. CASE run # NoRun /\ run.startId = x.id
    <3>1. own' = own \cup {e.owner} /\ e.owner = run.current
      BY <2>2, <2>6, <2>8, <2>9
    <3> QED
      BY <1>1, <1>2, <2>5, <2>7, <2>9, <3>1
  <2>10. CASE ~ (run # NoRun /\ run.startId = x.id)
    <3>1. own' = own \ {e.owner}
      BY <2>2, <2>6, <2>10
    <3> QED
      BY <1>1, <1>2, <2>7, <3>1
  <2> QED
    BY <2>9, <2>10
<1>7. CASE EngineEnds /\ UNCHANGED list
  <2>1. PICK c \in Cues : playing' = [playing EXCEPT ![c] = "off"]
    BY <1>7 DEF EngineEnds
  <2>2. own' = own
    BY <1>7 DEF list
  <2> QED
    BY <1>1, <1>3, <2>1, <2>2
<1>8. CASE FireChild \/ TickEnds \/ TickFollows \/ (Advance /\ UNCHANGED list) \/ UNCHANGED everything
  <2>1. playing' = playing /\ own' = own
    BY <1>8, Zenon DEF FireChild, TickEnds, TickFollows, Hotkey, EndTick, RunFollow, Advance, everything, vars,
                       sound, list
  <2> QED
    BY <1>3, <2>1
<1> QED
  BY <1>4, <1>5, <1>6, <1>7, <1>8 DEF CueStep

LEMMA EntriesOfCuesToo ==
  ASSUME ListInv, [Next]_vars, StepInv'
  PROVE  /\ pending' \in SUBSET ListEntry
         /\ \A p \in pending' : p \in pending \/ nextId <= p.id
         /\ \A p \in sched' : p \in sched \/ p.kind # "step"
         /\ nextId <= nextId' /\ nextId \in Nat /\ nextId' \in Nat
<1>1. nextId \in Nat /\ nextId' \in Nat /\ pending \in SUBSET ListEntry
  BY HereIs DEF ListInv, StepInv, BookOk, Settled, Booked, States
<1>2. /\ \A p \in pending' : p \in pending \/ (p.kind \in {"start", "observer"} /\ nextId <= p.id)
      /\ \A p \in sched' : p \in sched \/ p.kind \in {"start", "observer"}
      /\ nextId <= nextId'
  BY <1>1, BookGrowsByCues
<1>3. \A p \in pending' : IsEntry(p)
  BY DEF StepInv, BookOk
<1>4. pending' \in SUBSET ListEntry
  BY <1>1, <1>2, <1>3 DEF IsEntry, Foreign, ListEntry
<1> QED
  BY <1>1, <1>2, <1>4

LEMMA CueStepOk ==
  ASSUME ListInv, CueStep
  PROVE  ListInv'
<1>1. [Next]_vars
  BY CueStepsAreNext
<1>2. StepInv'
  BY <1>1, StepInvStep DEF ListInv
<1>3. /\ pending' \in SUBSET ListEntry /\ sched' \subseteq pending'
      /\ \A p \in pending' : p \in pending \/ nextId <= p.id
      /\ \A p \in sched' : p \in sched \/ p.kind # "step"
      /\ nextId <= nextId' /\ nextId \in Nat /\ nextId' \in Nat
  BY <1>1, <1>2, EntriesOfCuesToo DEF StepInv, BookOk
<1>4. /\ own' \in SUBSET Cues /\ run' = run
      /\ \A c \in own' : playing'[c] = "on" => run # NoRun /\ c = run.current
  BY CueStepOneOn
<1>5. Settled(Here)
  BY DEF ListInv
<1>6. Booked(Here)'
  <2>1. /\ playing' \in [Cues -> {"off", "on", "stopping"}] /\ waits' \in [Cues -> Nat]
        /\ BookOk(pending, sched, nextId)'
    BY <1>2 DEF StepInv, PlainOk, SoundOk
  <2>2. run' \in {NoRun} \cup RunState
    BY <1>4, <1>5, HereIs DEF Settled, Booked, States
  <2>3. Here' \in States
    BY <1>3, <1>4, <2>1, <2>2 DEF Here, States
  <2> QED
    BY <2>1, <2>3 DEF Booked, Here
<1>7. StepsOf(sched') = StepsOf(sched)
  <2>1. \A e \in sched : e.kind = "step" => e \in sched'
    BY CueStepSpares
  <2> QED
    BY <1>3, <2>1 DEF StepsOf
<1>8. Watches(Here)'
  <2>1. /\ run = NoRun => StepsOf(sched) = {}
        /\ run # NoRun => /\ run.pos \in Cues /\ run.order[run.pos] = run.current
                          /\ \E e \in sched : StepsOf(sched) = {e} /\ e.next = run.current
    BY <1>5, HereIs DEF Settled, Watches
  <2>2. \A e : StepsOf(sched') = {e} => e \in sched'
    BY DEF StepsOf
  <2> QED
    BY <1>4, <1>7, <2>1, <2>2 DEF Watches, Here
<1>9. TheStart(Here)'
  <2>1. run # NoRun => /\ run.startId < nextId
                       /\ \A e \in pending : e.id = run.startId => e.kind = "start" /\ e.owner = run.current
    BY <1>5, HereIs DEF Settled, TheStart
  <2>2. run # NoRun => run.startId \in Nat
    BY <1>5, HereIs DEF Settled, Booked, States, RunState
  <2>3. \A e \in pending' : e.id \in Nat
    BY <1>2 DEF StepInv, BookOk, IsEntry, Entry, Foreign
  <2> QED
    BY <1>3, <1>4, <2>1, <2>2, <2>3 DEF TheStart, Here
<1>10. OneOn(Here)'
  BY <1>4 DEF OneOn, Here
<1> QED
  BY <1>2, <1>6, <1>8, <1>9, <1>10 DEF ListInv, Settled

-----------------------------------------------------------------------------
(* The steps of the list itself.                                           *)

LEMMA StopAllOk ==
  ASSUME ListInv, StopAll
  PROVE  ListInv'
<1>1. StepInv'
  BY StopEverythingOk DEF StopAll, ListInv
<1>2. /\ pending' = {} /\ sched' = {} /\ nextId' = nextId /\ run' = NoRun /\ own' = own
      /\ playing' = [c \in Cues |-> IF playing[c] = "on" THEN "stopping" ELSE playing[c]]
  BY DEF StopAll, panicAll, hardStopAll, resetAll, StopEverything, IdsOf, ListInv, StepInv, BookOk
<1>3. own \in SUBSET Cues /\ playing \in [Cues -> {"off", "on", "stopping"}] /\ waits' \in [Cues -> Nat]
  BY <1>1, HereIs DEF ListInv, Settled, Booked, States, StepInv, PlainOk, SoundOk
<1>4. \A c \in Cues : playing'[c] \in {"off", "stopping"}
  BY <1>2, <1>3
<1>5. Booked(Here)'
  <2>1. playing' \in [Cues -> {"off", "on", "stopping"}] /\ BookOk(pending, sched, nextId)'
    BY <1>1 DEF StepInv, PlainOk, SoundOk
  <2>2. nextId' \in Nat
    BY <2>1 DEF BookOk
  <2>3. Here' \in States
    BY <1>2, <1>3, <2>1, <2>2 DEF Here, States
  <2> QED
    BY <2>1, <2>3 DEF Booked, Here
<1>6. Watches(Here)' /\ TheStart(Here)'
  BY <1>2 DEF Watches, TheStart, Here, StepsOf
<1>7. OneOn(Here)'
  <2>1. \A c \in own' : playing'[c] # "on"
    BY <1>2, <1>3, <1>4
  <2> QED
    BY <2>1 DEF OneOn, Here
<1> QED
  BY <1>1, <1>5, <1>6, <1>7 DEF ListInv, Settled

Arrives(s) ==
  /\ pending' = s.P /\ sched' = s.S /\ nextId' = s.n
  /\ playing' = s.playing /\ waits' = s.waits /\ run' = s.run /\ own' = s.own

LEMMA ArrivesOk ==
  ASSUME ListInv, NEW s, Settled(s), Sheds(Here, s), Arrives(s),
         UNCHANGED <<now, panicLatchUntil, armed, playhead, walk>>, walk = NoWalk,
         phase' \in {"idle", "timed", "watches"}, turn' \subseteq 1 .. nextId,
         commands' \in 0 .. MaxCommands, calm' \in BOOLEAN
  PROVE  ListInv'
<1>1. s \in States /\ BookOk(s.P, s.S, s.n)
  BY DEF Settled, Booked
<1>2. nextId \in Nat /\ nextId' \in Nat /\ nextId <= nextId'
  BY <1>1, HereIs DEF ListInv, StepInv, BookOk, Sheds, Arrives
<1>3. turn' \subseteq 1 .. nextId'
  BY <1>2
<1>4. SoundOk(playing', waits')
  BY <1>1 DEF Arrives, States, SoundOk
<1>5. BookOk(pending, sched, nextId)'
  BY <1>1 DEF Arrives
<1>6. PlainOk'
  BY <1>3, <1>4 DEF ListInv, StepInv, PlainOk
<1>7. WalkOk'
  BY WalkIsOver
<1>8. /\ Here' \in States /\ Here'.P = s.P /\ Here'.S = s.S /\ Here'.n = s.n
      /\ Here'.playing = s.playing /\ Here'.run = s.run /\ Here'.own = s.own
  <2>1. /\ s.P \in SUBSET ListEntry /\ s.S \in SUBSET ListEntry /\ s.n \in Nat
        /\ s.playing \in [Cues -> {"off", "on", "stopping"}] /\ s.waits \in [Cues -> Nat]
        /\ s.run \in {NoRun} \cup RunState /\ s.own \in SUBSET Cues
    BY <1>1 DEF States
  <2> QED
    BY <2>1 DEF Arrives, Here, States
<1>9. Settled(Here')
  <2> DEFINE h == Here'
  <2>1. /\ h \in States /\ h.P = s.P /\ h.S = s.S /\ h.n = s.n
        /\ h.playing = s.playing /\ h.run = s.run /\ h.own = s.own
    BY <1>8
  <2> HIDE DEF h
  <2>2. Settled(h)
    BY <2>1 DEF Settled, Booked, Watches, TheStart, OneOn
  <2> QED
    BY <2>2 DEF h
<1> QED
  BY <1>5, <1>6, <1>7, <1>9 DEF ListInv, StepInv

LEMMA BecomesArrives ==
  ASSUME NEW s, Becomes(s)
  PROVE  Arrives(s)
BY DEF Becomes, Arrives

LEMMA HereSheds ==
  ASSUME ListInv
  PROVE  Settled(Here) /\ Booked(Here) /\ Sheds(Here, Here) /\ now \in Nat
<1>1. Settled(Here) /\ Booked(Here)
  BY DEF ListInv, Settled
<1>2. Sheds(Here, Here)
  BY <1>1, ShedsNothing
<1>3. now \in Nat
  BY SettingsAssumption DEF ListInv, StepInv, PlainOk
<1> QED
  BY <1>1, <1>2, <1>3

(* The calls of the operator for the group and its cards.                  *)
ListCall == GoOnGroup \/ StopGroup \/ CancelStartCard \/ CancelWaitCard

LEMMA ListCallArrives ==
  ASSUME ListInv, ListCall
  PROVE  \E s : Settled(s) /\ Sheds(Here, s) /\ Arrives(s)
<1>1. Settled(Here) /\ Booked(Here) /\ Sheds(Here, Here) /\ now \in Nat
  BY HereSheds
<1>2. CASE Becomes(stopGroup(Here))
  BY <1>1, <1>2, StopGroupSettles, BecomesArrives
<1>3. CASE Becomes(Here)
  BY <1>1, <1>3, BecomesArrives
<1>4. CASE GoOnGroup
  <2>1. CASE run # NoRun /\ \E s \in playlistSkip(Here) : Becomes(s)
    <3>1. PICK s \in playlistSkip(Here) : Becomes(s)
      BY <2>1
    <3>2. Settled(s) /\ Sheds(Here, s)
      BY <1>1, <2>1, HereIs, SkipSettles
    <3> QED
      BY <3>1, <3>2, BecomesArrives
  <2>2. CASE run = NoRun /\ \E s \in startGroup(Here) : Becomes(s)
    <3>1. PICK s \in startGroup(Here) : Becomes(s)
      BY <2>2
    <3>2. Free(Here)
      BY <1>1, <2>2, HereIs DEF Free, Settled, Watches, OneOn
    <3>3. Settled(s) /\ Sheds(Here, s)
      BY <1>1, <3>2, StartGroupSettles
    <3> QED
      BY <3>1, <3>3, BecomesArrives
  <2>3. CASE \E s \in startGroup(stopGroup(Here)) : Becomes(s)
    <3>1. PICK s \in startGroup(stopGroup(Here)) : Becomes(s)
      BY <2>3
    <3>2. Free(stopGroup(Here)) /\ Sheds(Here, stopGroup(Here))
      BY <1>1, StopGroupSettles
    <3>3. Settled(s) /\ Sheds(stopGroup(Here), s)
      BY <1>1, <3>1, <3>2, StartGroupSettles
    <3>4. Sheds(Here, s)
      BY <1>1, <3>2, <3>3, ShedsAll DEF Settled, Free
    <3> QED
      BY <3>1, <3>3, <3>4, BecomesArrives
  <2> QED
    BY <1>2, <1>3, <1>4, <2>1, <2>2, <2>3 DEF GoOnGroup
<1>5. CASE StopGroup
  BY <1>2, <1>5 DEF StopGroup
<1>6. CASE CancelStartCard
  <2>1. PICK p \in pending : /\ p.kind = "start" /\ p.id \in IdsOf(sched)
                             /\ \/ Becomes(stopGroup(Here))
                                \/ Becomes(Without(Here, WithItsChain(pending, IdsOf(sched), {p})))
    BY <1>6 DEF CancelStartCard
  <2> DEFINE X == WithItsChain(pending, IdsOf(sched), {p})
             t == Without(Here, X)
  <2>2. Closed(pending, IdsOf(sched), X) /\ Spares(X)
    <3>1. {p} \in SUBSET Live(pending, IdsOf(sched)) /\ IsFiniteSet(pending)
      BY <2>1 DEF Live, ListInv, StepInv, BookOk
    <3> QED
      BY <3>1, WithItsChainIsClosed, StepsAreSpared
  <2> HIDE DEF X
  <2>3. /\ Booked(t) /\ t.P = pending \ X /\ t.S = sched \ X /\ t.n = nextId
        /\ t.run = run /\ t.own = own /\ t.playing = playing
    BY <1>1, HereIs, WithoutKeeps
  <2>4. Sheds(Here, t)
    BY <1>1, <2>2, HereIs, ClosedSheds
  <2> HIDE DEF t
  <2>5. StepsOf(t.S) = StepsOf(sched)
    BY <2>2, <2>3 DEF StepsOf, Spares
  <2>6. Settled(t)
    <3>1. Watches(t)
      <4>1. \A e : StepsOf(t.S) = {e} => e \in t.S
        BY DEF StepsOf
      <4> QED
        BY <1>1, <2>3, <2>5, <4>1, HereIs DEF Settled, Watches
    <3>2. TheStart(t) /\ OneOn(t)
      BY <1>1, <2>3, HereIs DEF Settled, TheStart, OneOn
    <3> QED
      BY <2>3, <3>1, <3>2 DEF Settled
  <2>7. CASE Becomes(t)
    BY <2>4, <2>6, <2>7, BecomesArrives
  <2> QED
    BY <1>2, <2>1, <2>7 DEF t, X
<1>7. CASE CancelWaitCard
  <2>1. PICK c \in Cues : Becomes(stopGroup(Here)) \/ Becomes(Quiet(Here, c))
    BY <1>7 DEF CancelWaitCard
  <2> DEFINE t == Quiet(Here, c)
  <2>2. /\ Booked(t) /\ t.P \subseteq pending /\ t.n = nextId /\ t.run = run /\ t.own = own
        /\ t.playing[c] # "on" /\ \A d \in Cues \ {c} : t.playing[d] = playing[d]
        /\ StepsOf(t.S) = StepsOf(sched) /\ Sheds(Here, t)
    BY <1>1, HereIs, QuietSheds
  <2> HIDE DEF t
  <2>3. Watches(t)
    <3>1. \A e : StepsOf(t.S) = {e} => e \in t.S
      BY DEF StepsOf
    <3> QED
      BY <1>1, <2>2, <3>1, HereIs DEF Settled, Watches
  <2>4. TheStart(t)
    BY <1>1, <2>2, HereIs DEF Settled, TheStart
  <2>5. OneOn(t)
    <3>1. own \subseteq Cues /\ \A d \in own : playing[d] = "on" => run # NoRun /\ d = run.current
      BY <1>1, HereIs DEF Settled, OneOn, Booked, States
    <3> QED
      BY <2>2, <3>1 DEF OneOn
  <2>6. CASE Becomes(t)
    BY <2>2, <2>3, <2>4, <2>5, <2>6, BecomesArrives DEF Settled
  <2> QED
    BY <1>2, <2>1, <2>6 DEF t
<1> QED
  BY <1>4, <1>5, <1>6, <1>7 DEF ListCall

LEMMA ListCallOk ==
  ASSUME ListInv, ListCall
  PROVE  ListInv'
<1>1. PICK s : Settled(s) /\ Sheds(Here, s) /\ Arrives(s)
  BY ListCallArrives
<1>2. Command /\ Same /\ calm' \in BOOLEAN
  <2>1. calm \in BOOLEAN
    BY DEF ListInv, StepInv, PlainOk
  <2> QED
    BY <2>1, Zenon DEF ListCall, GoOnGroup, StopGroup, CancelStartCard, CancelWaitCard
<1>3. /\ UNCHANGED <<now, panicLatchUntil, armed, playhead, walk>> /\ walk = NoWalk
      /\ phase' = phase /\ turn' = turn
  BY <1>2 DEF Same, Command, Walking, tickv
<1>4. phase \in {"idle", "timed", "watches"} /\ turn \subseteq 1 .. nextId
  BY DEF ListInv, StepInv, PlainOk
<1>5. commands' \in 0 .. MaxCommands
  BY <1>2, SettingsAssumption DEF Command, ListInv, StepInv, PlainOk
<1> QED
  BY <1>1, <1>2, <1>3, <1>4, <1>5, ArrivesOk

(* The tick, with the list's entries in it.                                *)
ListTurn == TickBegins \/ TickFades \/ TickCollects \/ TickSteps

(* The watch of a list on its child is the only one; it is taken off, and  *)
(* the child that still plays fades, or is in a crossfade to come.         *)
Watching(f) == [Here EXCEPT !.S = @ \ {f}]

LEMMA WatchTaken ==
  ASSUME ListInv, NEW f \in sched, f.kind = "step"
  PROVE  LET s == Watching(f)
         IN  /\ Booked(s) /\ s.S = sched \ {f} /\ s.n = nextId /\ s.run = run /\ s.own = own
             /\ s.playing = playing /\ StepsOf(s.S) = {} /\ Sheds(Here, s)
             /\ run \in RunState /\ run # NoRun /\ run.pos \in Cues /\ f.next = run.current
             /\ f.next \in Cues /\ f.pre \in Nat
<1> DEFINE s == Watching(f)
<1>1. Settled(Here) /\ Booked(Here) /\ Here \in States /\ BookOk(pending, sched, nextId)
  BY HereSheds, HereIs DEF Booked, ListInv, StepInv
<1>2. run # NoRun
  <2>1. StepsOf(sched) # {}
    BY DEF StepsOf
  <2> QED
    BY <1>1, <2>1, HereIs DEF Settled, Watches
<1>3. run.pos \in Cues /\ StepsOf(sched) = {f} /\ f.next = run.current /\ run \in RunState
  <2>1. f \in StepsOf(sched)
    BY DEF StepsOf
  <2>2. run.pos \in Cues /\ \E e \in sched : StepsOf(sched) = {e} /\ e.next = run.current
    BY <1>1, <1>2, HereIs DEF Settled, Watches
  <2>3. run \in RunState
    BY <1>1, <1>2, HereIs DEF States
  <2> QED
    BY <2>1, <2>2, <2>3
<1>4. f \in StepEntry
  <2>1. f \in ListEntry
    BY <1>1, HereIs DEF States
  <2> QED
    BY <2>1, EntriesAreEntries
<1>5. f.next \in Cues /\ f.pre \in Nat
  BY <1>4 DEF StepEntry
<1> DEFINE X == sched \ {f}
<1>6. /\ s \in States /\ s.P = pending /\ s.S = X /\ s.n = nextId /\ s.run = run /\ s.own = own
      /\ s.playing = playing
  <2>1. s = [Here EXCEPT !.S = X]
    BY HereIs DEF Watching
  <2>2. X \in SUBSET ListEntry
    BY <1>1, HereIs DEF States
  <2> HIDE DEF X, s
  <2> QED
    BY <1>1, <2>1, <2>2, HereIs DEF States
<1> HIDE DEF s
<1>7. Booked(s)
  <2>1. X \in SUBSET pending
    BY <1>1 DEF BookOk
  <2>2. BookOk(pending, X, nextId)
    BY <1>1, <2>1, BookShrinks
  <2> QED
    BY <1>6, <2>2 DEF Booked
<1>8. StepsOf(s.S) = {}
  BY <1>3, <1>6 DEF StepsOf
<1>9. Sheds(Here, s)
  <2>1. nextId <= nextId
    BY <1>1 DEF BookOk
  <2> QED
    BY <1>6, <2>1, HereIs DEF Sheds
<1> QED
  BY <1>2, <1>3, <1>5, <1>6, <1>7, <1>8, <1>9 DEF s

LEMMA CrossedIsFree ==
  ASSUME ListInv, NEW f \in sched, f.kind = "step", TRUE \in MayStep(f)
  PROVE  LET t == CrossFade(Watching(f), f)
         IN  Free(t) /\ t.run = run /\ Sheds(Here, t)
<1> DEFINE s == Watching(f)
           t == CrossFade(s, f)
           crosses == group.crossfade /\ isPlaying(f.next)
<1>1. /\ Booked(s) /\ s.S = sched \ {f} /\ s.n = nextId /\ s.run = run /\ s.own = own
      /\ s.playing = playing /\ StepsOf(s.S) = {} /\ Sheds(Here, s)
      /\ run # NoRun /\ f.next = run.current /\ f.next \in Cues /\ f.pre \in Nat
  BY WatchTaken
<1>2. Booked(Here) /\ now \in Nat
  BY HereSheds
<1>3. own \subseteq Cues /\ \A d \in own : playing[d] = "on" => d = f.next
  BY <1>1, HereIs DEF ListInv, Settled, OneOn, Booked, States
<1> HIDE DEF s
<1>4. CASE ~ crosses
  <2>1. t = s
    BY <1>4 DEF CrossFade
  <2>2. ~ isCueActive(f.next)
    BY <1>4 DEF MayStep
  <2>3. playing[f.next] = "off"
    BY <2>2 DEF isCueActive, isPlaying
  <2> QED
    BY <1>1, <1>3, <2>1, <2>3 DEF Free, s
<1>5. CASE crosses /\ f.pre = 0
  <2>1. t = Silence(s, f.next)
    BY <1>5 DEF CrossFade
  <2>2. /\ Booked(t) /\ t.P = s.P /\ t.S = s.S /\ t.n = s.n /\ t.run = s.run /\ t.own = s.own
        /\ t.playing[f.next] # "on" /\ \A d \in Cues \ {f.next} : t.playing[d] = s.playing[d]
    BY <1>1, <2>1, SilenceKeeps
  <2> HIDE DEF t
  <2>3. Sheds(Here, t)
    <3>1. Sheds(s, t)
      BY <1>1, <2>2, ShedsNothing
    <3> QED
      BY <1>1, <1>2, <2>2, <3>1, ShedsAll
  <2>4. \A d \in t.own : t.playing[d] # "on"
    BY <1>1, <1>3, <2>2
  <2> QED
    BY <1>1, <2>2, <2>3, <2>4 DEF Free, t, s
<1>6. CASE crosses /\ f.pre # 0
  <2> DEFINE o == own \ {f.next}
             u == [s EXCEPT !.own = o]
             e == FadeOut(nextId, f.next, now + f.pre)
  <2>1. t = With(u, e)
    <3>1. t = With([s EXCEPT !.own = @ \ {f.next}], FadeOut(s.n, f.next, now + f.pre))
      BY <1>6 DEF CrossFade
    <3>2. u = [s EXCEPT !.own = @ \ {f.next}]
      BY <1>1 DEF Booked, States
    <3> QED
      BY <1>1, <3>1, <3>2
  <2>2. /\ u \in States /\ u.P = s.P /\ u.S = s.S /\ u.n = s.n /\ u.run = s.run /\ u.own = o
        /\ u.playing = s.playing
    <3>1. o \in SUBSET Cues
      BY <1>3
    <3> HIDE DEF o
    <3> QED
      BY <1>1, <3>1 DEF Booked, States
  <2> HIDE DEF u, t
  <2>3. Booked(u)
    BY <1>1, <2>2 DEF Booked
  <2>4. e \in ListEntry /\ e.id = u.n /\ e.kind = "fade" /\ e.postWaitOwner = 0 /\ e.afterStartId = 0
    <3>1. nextId \in Nat \ {0} /\ now + f.pre \in Nat
      BY <1>1, <1>2 DEF ListInv, StepInv, BookOk
    <3>2. e \in FadeEntry
      BY <1>1, <3>1 DEF FadeOut, FadeEntry
    <3> QED
      BY <1>1, <2>2, <3>2 DEF FadeOut, ListEntry
  <2> HIDE DEF e
  <2>5. /\ Booked(t) /\ t.S = u.S \cup {e} /\ t.n = u.n + 1
        /\ t.run = u.run /\ t.own = u.own /\ t.playing = u.playing /\ Sheds(u, t)
    BY <2>1, <2>3, <2>4, WithKeeps
  <2>6. StepsOf(t.S) = {}
    BY <1>1, <2>2, <2>4, <2>5 DEF StepsOf
  <2>7. Sheds(Here, t)
    <3>1. Sheds(s, u)
      BY <1>1, <2>2, ShedsNothing
    <3>2. Sheds(Here, u)
      BY <1>1, <1>2, <2>3, <3>1, ShedsAll
    <3> QED
      BY <1>2, <2>3, <2>5, <3>2, ShedsAll
  <2>8. \A d \in t.own : t.playing[d] # "on"
    BY <1>1, <1>3, <2>2, <2>5
  <2> QED
    BY <1>1, <2>2, <2>5, <2>6, <2>7, <2>8 DEF Free, t, s
<1> QED
  BY <1>4, <1>5, <1>6

LEMMA TickStepArrives ==
  ASSUME ListInv, TickSteps
  PROVE  \E s : Settled(s) /\ Sheds(Here, s) /\ Arrives(s)
<1>1. Settled(Here) /\ Booked(Here) /\ Sheds(Here, Here) /\ now \in Nat
  BY HereSheds
<1>2. CASE Becomes(Here)
  BY <1>1, <1>2, BecomesArrives
<1>3. CASE ~ Becomes(Here)
  <2>1. PICK f \in Due :
          /\ f.kind = "step" /\ TRUE \in MayStep(f)
          /\ LET s == CrossFade([Here EXCEPT !.S = @ \ {f}], f)
             IN  IF run = NoRun THEN Becomes(s)
                 ELSE \E t \in playlistStep([s EXCEPT !.run.pos = @ + 1]) : Becomes(t)
    BY <1>3 DEF TickSteps
  <2> DEFINE s == CrossFade(Watching(f), f)
             m == [s EXCEPT !.run.pos = @ + 1]
  <2>2. f \in sched
    BY DEF Due
  <2>3. run # NoRun /\ run \in RunState /\ run.pos \in Cues
    BY <2>1, <2>2, WatchTaken
  <2>4. PICK t \in playlistStep(m) : Becomes(t)
    BY <2>1, <2>3 DEF Watching
  <2>5. Free(s) /\ s.run = run /\ Sheds(Here, s)
    BY <2>1, <2>2, CrossedIsFree
  <2> HIDE DEF s
  <2>6. Moving(s) /\ s.run.pos \in Cues
    BY <2>3, <2>5 DEF Moving, Free
  <2>7. Came(s, GoOnWith(s))
    BY <2>6, MovesOn
  <2>8. GoOnWith(s).left = FALSE /\ GoOnWith(s).s = m
    BY DEF GoOnWith
  <2>9. Moving(m) /\ Sheds(s, m)
    BY <2>7, <2>8 DEF Came
  <2> HIDE DEF m
  <2>10. Settled(t) /\ Sheds(m, t)
    BY <1>1, <2>9, StepSettles
  <2>11. Sheds(Here, m)
    BY <1>1, <2>5, <2>9, ShedsAll DEF Free, Moving
  <2>12. Sheds(Here, t)
    BY <1>1, <2>9, <2>10, <2>11, ShedsAll DEF Settled, Moving
  <2> QED
    BY <2>4, <2>10, <2>12, BecomesArrives
<1> QED
  BY <1>2, <1>3

LEMMA TickFadeArrives ==
  ASSUME ListInv, TickFades
  PROVE  \E s : Settled(s) /\ Sheds(Here, s) /\ Arrives(s)
<1>1. Settled(Here) /\ Booked(Here) /\ Here \in States /\ BookOk(pending, sched, nextId)
  BY HereSheds, HereIs DEF Booked, ListInv, StepInv
<1>2. PICK e \in Due : e.kind = "fade" /\ sched' = sched \ {e} /\ playing' = StopSound(e.next)
  BY DEF TickFades
<1> DEFINE X == sched \ {e}
           f == StopSound(e.next)
           s == [Here EXCEPT !.S = X, !.playing = f]
<1>3. f \in [Cues -> {"off", "on", "stopping"}] /\ \A d \in Cues : f[d] = "on" => playing[d] = "on"
  <2>1. playing \in [Cues -> {"off", "on", "stopping"}]
    BY <1>1, HereIs DEF States
  <2> QED
    BY <2>1 DEF StopSound
<1>4. X \in SUBSET ListEntry /\ X \in SUBSET pending
  BY <1>1, HereIs DEF States, BookOk
<1>5. pending' = pending /\ sched' = X /\ nextId' = nextId /\ waits' = waits /\ run' = run /\ own' = own
  BY <1>2 DEF TickFades, list
<1> HIDE DEF X, f
<1>6. /\ s \in States /\ s.P = pending /\ s.S = X /\ s.n = nextId /\ s.run = run /\ s.own = own
      /\ s.playing = f /\ s.waits = waits
  BY <1>1, <1>3, <1>4, HereIs DEF States
<1> HIDE DEF s
<1>7. Booked(s)
  <2>1. BookOk(pending, X, nextId)
    BY <1>1, <1>4, BookShrinks
  <2> QED
    BY <1>6, <2>1 DEF Booked
<1>8. StepsOf(s.S) = StepsOf(sched)
  BY <1>2, <1>6 DEF StepsOf, X
<1>9. Watches(s) /\ TheStart(s)
  <2>1. \A d : StepsOf(s.S) = {d} => d \in s.S
    BY DEF StepsOf
  <2> QED
    BY <1>1, <1>6, <1>8, <2>1, HereIs DEF Settled, Watches, TheStart
<1>10. OneOn(s)
  <2>1. own \subseteq Cues
    BY <1>1, HereIs DEF States
  <2> QED
    BY <1>1, <1>3, <1>6, <2>1, HereIs DEF Settled, OneOn
<1>11. Sheds(Here, s)
  <2>1. nextId <= nextId
    BY <1>1 DEF BookOk
  <2> QED
    BY <1>2, <1>6, <2>1, HereIs DEF Sheds, X
<1>12. Arrives(s)
  BY <1>2, <1>5, <1>6 DEF Arrives, f
<1> QED
  BY <1>7, <1>9, <1>10, <1>11, <1>12 DEF Settled

LEMMA TurnArrives ==
  ASSUME ListInv, ListTurn
  PROVE  \E s : Settled(s) /\ Sheds(Here, s) /\ Arrives(s)
<1>1. CASE TickBegins \/ TickCollects
  <2>1. Arrives(Here)
    BY <1>1, HereIs, Zenon DEF TickBegins, TickCollects, Arrives, book, sound, list
  <2> QED
    BY <2>1, HereSheds
<1> QED
  BY <1>1, TickStepArrives, TickFadeArrives DEF ListTurn

LEMMA TurnOk ==
  ASSUME ListInv, ListTurn
  PROVE  ListInv'
<1>1. PICK s : Settled(s) /\ Sheds(Here, s) /\ Arrives(s)
  BY TurnArrives
<1>2. UNCHANGED <<now, panicLatchUntil, armed, playhead, walk, commands, calm>> /\ walk = NoWalk
  BY Zenon DEF ListTurn, TickBegins, TickFades, TickCollects, TickSteps, Walking
<1>3. phase \in {"idle", "timed", "watches"} /\ turn \subseteq 1 .. nextId
  BY DEF ListInv, StepInv, PlainOk
<1>4. phase' \in {"idle", "timed", "watches"}
  BY <1>3, Zenon DEF ListTurn, TickBegins, TickFades, TickCollects, TickSteps
<1>5. turn' \subseteq 1 .. nextId
  <2>1. \A e \in sched : e.id \in 1 .. nextId
    BY DEF ListInv, StepInv, BookOk, Entry, IsEntry, Foreign
  <2>2. CASE TickBegins
    BY <2>1, <2>2 DEF TickBegins, IdsOf
  <2>3. CASE TickCollects
    <3>1. \E ready \in SUBSET sched : turn' = IdsOf(ready \cup {e \in sched : e.kind = "observer" /\ MayGoOn(e)})
      BY <2>3 DEF TickCollects, Steps
    <3> QED
      BY <2>1, <3>1 DEF IdsOf
  <2>4. CASE TickFades \/ TickSteps
    <3>1. turn' \subseteq turn
      BY <2>4 DEF TickFades, TickSteps
    <3> QED
      BY <1>3, <3>1
  <2> QED
    BY <2>2, <2>3, <2>4 DEF ListTurn
<1>6. commands' \in 0 .. MaxCommands /\ calm' \in BOOLEAN
  BY <1>2 DEF ListInv, StepInv, PlainOk
<1> QED
  BY <1>1, <1>2, <1>4, <1>5, <1>6, ArrivesOk

-----------------------------------------------------------------------------

LEMMA ListInvInit ==
  ASSUME ListInit
  PROVE  ListInv
<1>1. StepInv
  BY StepInvInit DEF ListInit
<1>2. /\ pending = {} /\ sched = {} /\ run = NoRun /\ own = {} /\ nextId = 1
  BY DEF ListInit, Init, InitWith
<1>3. playing \in [Cues -> {"off", "on", "stopping"}] /\ waits \in [Cues -> Nat]
  BY <1>1 DEF StepInv, PlainOk, SoundOk
<1>4. Here \in States
  BY <1>2, <1>3 DEF Here, States
<1>5. Booked(Here)
  BY <1>1, <1>4, HereIs DEF Booked, StepInv
<1>6. Watches(Here) /\ TheStart(Here) /\ OneOn(Here)
  BY <1>2, HereIs DEF Watches, TheStart, OneOn, StepsOf
<1> QED
  BY <1>1, <1>5, <1>6 DEF ListInv, Settled

LEMMA ListStepIs ==
  ASSUME [ListNext]_everything
  PROVE  CueStep \/ StopAll \/ ListCall \/ ListTurn
BY Zenon DEF ListNext, ListTick, CueStep, ListCall, ListTurn

LEMMA ListInvariance == ListSpec => []ListInv
<1>1. ListInv /\ [ListNext]_everything => ListInv'
  BY ListStepIs, CueStepOk, StopAllOk, ListCallOk, TurnOk
<1> QED
  BY <1>1, ListInvInit, PTL DEF ListSpec

(* A running list stands at a child of its order and has one watch, on     *)
(* that child; a list that is over has none.                               *)
THEOREM WatchedOnce == ListSpec => []OneWatchPerList
<1>1. ListInv => OneWatchPerList
  <2> SUFFICES ASSUME ListInv
               PROVE  OneWatchPerList
    OBVIOUS
  <2>1. Watches(Here) /\ Steps = StepsOf(sched)
    BY DEF ListInv, Settled, Steps, StepsOf
  <2>2. run = NoRun => Steps = {}
    BY <2>1, HereIs DEF Watches
  <2>3. ASSUME run # NoRun
        PROVE  /\ run.pos \in Cues /\ run.order[run.pos] = run.current
               /\ Cardinality(Steps) = 1 /\ \A e \in Steps : e.next = run.current
    <3>1. run.pos \in Cues /\ run.order[run.pos] = run.current
      BY <2>1, <2>3, HereIs DEF Watches
    <3>2. PICK e \in sched : Steps = {e} /\ e.next = run.current
      BY <2>1, <2>3, HereIs DEF Watches
    <3>3. Cardinality(Steps) = 1
      BY <3>2, FS_Singleton
    <3> QED
      BY <3>1, <3>2, <3>3
  <2> QED
    BY <2>2, <2>3 DEF OneWatchPerList
<1> QED
  BY <1>1, ListInvariance, PTL

(* Of the children the list has started at most one is at full level.      *)
THEOREM OneAtATime == ListSpec => []OneChildAtATime
<1>1. ListInv => OneChildAtATime
  <2> SUFFICES ASSUME ListInv
               PROVE  OneChildAtATime
    OBVIOUS
  <2> DEFINE X == {c \in own : playing[c] = "on"}
  <2>1. \A c \in X : c = run.current
    BY HereIs DEF ListInv, Settled, OneOn
  <2>2. X \subseteq {run.current}
    BY <2>1
  <2> HIDE DEF X
  <2>3. IsFiniteSet({run.current}) /\ Cardinality({run.current}) = 1
    BY FS_Singleton
  <2>4. IsFiniteSet(X) /\ Cardinality(X) <= 1
    BY <2>2, <2>3, FS_Subset
  <2> QED
    BY <2>4 DEF OneChildAtATime, X
<1> QED
  BY <1>1, ListInvariance, PTL

(* A start that goes otherwise than by its turn takes along what hangs off *)
(* it, in the steps of the list as in those of the children.               *)
LEMMA ShedsWhole ==
  ASSUME NEW s, Sheds(Here, s), Arrives(s)
  PROVE  TakesWhatHangsOff
<1>1. sched' = s.S
  BY DEF Arrives
<1>2. \A x \in sched \ s.S : \A e \in sched \cap s.S : x.kind = "start" => ~ HangsOff(e, x)
  BY HereIs DEF Sheds
<1> QED
  BY <1>1, <1>2 DEF TakesWhatHangsOff, HangsOff

(* A skip, a stop, a card and a crossfade leave nothing behind that hangs  *)
(* off a start they cancel.                                                *)
THEOREM ListCancelsWhole == ListSpec => NothingHangsOffACancelledStart
<1>1. ListInv /\ [ListNext]_everything => [TakesWhatHangsOff]_vars
  <2> SUFFICES ASSUME ListInv, [ListNext]_everything
               PROVE  TakesWhatHangsOff
    OBVIOUS
  <2>1. CASE CueStep \/ StopAll
    <3>1. [Next]_vars /\ StepInv
      BY <2>1, CueStepsAreNext DEF ListInv
    <3> QED
      BY <3>1, CancelsWhole
  <2>2. CASE ListCall \/ ListTurn
    <3>1. PICK s : Sheds(Here, s) /\ Arrives(s)
      BY <2>2, ListCallArrives, TurnArrives
    <3> QED
      BY <3>1, ShedsWhole
  <2> QED
    BY <2>1, <2>2, ListStepIs
<1> QED
  BY <1>1, ListInvariance, PTL DEF ListSpec, NothingHangsOffACancelledStart, TakesWhatHangsOff

(* The list's own starts do not come due in the middle of a tick either.   *)
LEMMA TickOkTurn ==
  ASSUME ListInv, TickOk, ListTurn
  PROVE  TickOk'
<1>1. PICK s : Sheds(Here, s) /\ Arrives(s)
  BY TurnArrives
<1>2. now' = now /\ walk' = walk /\ now \in Nat /\ StepInv
  <2>1. now' = now /\ walk' = walk
    BY Zenon DEF ListTurn, TickBegins, TickFades, TickCollects, TickSteps
  <2> QED
    BY <2>1, HereSheds DEF ListInv
<1>3. CASE TickBegins
  <2>1. phase' = "timed" /\ ~ Walking' /\ sched' = sched
    BY <1>2, <1>3 DEF TickBegins, book, Walking
  <2>2. \A e \in sched : e.kind = "start" /\ e.at <= now => e.id \in turn'
    BY <1>3 DEF TickBegins, IdsOf
  <2> QED
    BY <1>2, <2>1, <2>2 DEF TickOk
<1>4. CASE TickFades
  <2>1. PICK e \in Due : e.kind = "fade" /\ turn' = turn \ {e.id} /\ sched' = sched \ {e}
    BY <1>4 DEF TickFades
  <2>2. phase = "timed" /\ phase' = "timed"
    BY <1>4 DEF TickFades
  <2>3. \A d \in sched : d.kind = "start" => d.id # e.id
    BY <1>2, <2>1 DEF StepInv, BookOk, Due
  <2>4. ~ Walking' /\ \A d \in sched : d.kind = "start" /\ d.at <= now => d.id \in turn
    BY <1>2, <2>2 DEF TickOk, Walking
  <2> QED
    BY <1>2, <2>1, <2>2, <2>3, <2>4 DEF TickOk
<1>5. CASE TickCollects
  <2>1. phase = "timed" /\ phase' = "watches" /\ sched' = sched /\ Due = {}
    BY <1>5 DEF TickCollects, book
  <2>2. \A d \in sched : d.kind = "start" => ~ (d.at <= now)
    BY <2>1 DEF TickOk, Due
  <2>3. \A d \in sched : d.kind = "start" => d.at \in Nat
    BY <1>2 DEF StepInv, BookOk, Entry, IsEntry, Foreign
  <2> QED
    BY <1>2, <2>1, <2>2, <2>3 DEF TickOk
<1>6. CASE TickSteps
  <2>1. phase = "watches" /\ phase' = "watches"
    BY <1>6 DEF TickSteps
  <2>2. \A d \in sched' : d.kind = "start" => d \in sched \/ now < d.at
    <3>1. sched' = s.S /\ Here.S = sched
      BY <1>1, HereIs DEF Arrives
    <3> QED
      BY <1>1, <3>1 DEF Sheds
  <2> QED
    BY <1>2, <2>1, <2>2 DEF TickOk
<1> QED
  BY <1>3, <1>4, <1>5, <1>6 DEF ListTurn

LEMMA ListTickOk ==
  ASSUME TickTakesTime = FALSE, ListInv, TickOk, [ListNext]_everything
  PROVE  TickOk'
<1>1. CASE CueStep \/ StopAll
  <2>1. [Next]_vars /\ StepInv
    BY <1>1, CueStepsAreNext DEF ListInv
  <2> QED
    BY <2>1, TickOkStep
<1>2. CASE ListCall
  <2>1. Command /\ Same
    BY <1>2, Zenon DEF ListCall, GoOnGroup, StopGroup, CancelStartCard, CancelWaitCard
  <2>2. phase' = "idle"
    BY <2>1 DEF Command, Same, tickv
  <2> QED
    BY <2>2 DEF TickOk
<1> QED
  BY <1>1, <1>2, ListStepIs, TickOkTurn

(* While no time passes between the two halves of a tick, the follow put on *)
(* for a start waits for it, in a list as in a sequence of its own.        *)
THEOREM ListFollowsWait ==
  ASSUME TickTakesTime = FALSE
  PROVE  ListSpec => FollowWaitsForItsCue
<1>1. ListInv /\ TickOk /\ [ListNext]_everything => [GoesOnInTurn]_vars
  <2> SUFFICES ASSUME ListInv, TickOk, [ListNext]_everything
               PROVE  GoesOnInTurn
    OBVIOUS
  <2>1. CASE CueStep \/ StopAll
    <3>1. [Next]_vars /\ StepInv
      BY <2>1, CueStepsAreNext DEF ListInv
    <3> QED
      BY <3>1, FollowsInTurn
  <2>2. CASE ListCall \/ ListTurn
    <3>1. walk' = walk
      BY <2>2, Zenon DEF ListCall, GoOnGroup, StopGroup, CancelStartCard, CancelWaitCard, Same,
                         ListTurn, TickBegins, TickFades, TickCollects, TickSteps
    <3> QED
      BY <3>1 DEF GoesOnInTurn, Walking
  <2> QED
    BY <2>1, <2>2, ListStepIs
<1>2. ListInit => TickOk
  BY DEF ListInit, Init, InitWith, TickOk
<1>3. ListInv /\ TickOk /\ [ListNext]_everything => TickOk'
  BY ListTickOk
<1> QED
  BY <1>1, <1>2, <1>3, ListInvariance, PTL DEF ListSpec, FollowWaitsForItsCue, GoesOnInTurn

-----------------------------------------------------------------------------
(* The turn of the children.  The next child that can play, from where a   *)
(* round stands, is not the one that played last: in the order the list    *)
(* goes through because no child is in it twice, in a new one because it is *)
(* shuffled until the first that can play is another.                      *)
ComesTo(r, k) ==
  /\ k \in Cues /\ r.pos <= k /\ r.order[k] \in armed
  /\ \A j \in Cues : r.pos <= j /\ j < k => r.order[j] \notin armed

InTurn(s) == group.shuffle /\ ~ s.refused /\ Cardinality(armed) # 1
Ahead(last, s) == InTurn(s) => s.run.current = last /\ \A k : ComesTo(s.run, k) => s.run.order[k] # last
Another(last, s) == InTurn(s) /\ s.run # NoRun => s.run.current # last
Ordered(s) == s.run # NoRun => s.run.order \in Orders

Turns(last, p) == /\ Ordered(p.s)
                  /\ p.left => Another(last, p.s)
                  /\ ~ p.left => Ahead(last, p.s)

LEMMA ADisarmedIsPassed ==
  ASSUME NEW r, r.pos \in Cues, r.order[r.pos] \notin armed, NEW q, q.pos = r.pos + 1, q.order = r.order,
         NEW k, ComesTo(q, k)
  PROVE  ComesTo(r, k)
<1>1. r.pos \in Nat /\ \A j \in Cues : j \in Nat
  BY CuesAreRows
<1>2. k \in Cues /\ r.pos <= k /\ r.order[k] \in armed
  BY <1>1 DEF ComesTo
<1>3. ASSUME NEW j \in Cues, r.pos <= j, j < k
      PROVE  r.order[j] \notin armed
  BY <1>1, <1>3 DEF ComesTo
<1> QED
  BY <1>2, <1>3 DEF ComesTo

(* A round that begins comes first to what Playable() says of its order.   *)
LEMMA ARoundComesToThePlayable ==
  ASSUME NEW r, r.pos = 1, NEW k, ComesTo(r, k)
  PROVE  Playable(r.order) = r.order[k]
<1> DEFINE X == {i \in Cues : r.order[i] \in armed}
<1>1. \A j \in Cues : j \in Nat /\ 1 <= j
  BY CuesAreRows
<1>2. k \in X /\ \A j \in X : k <= j
  BY <1>1 DEF ComesTo
<1>3. Min(X) = k
  <2>1. \A x \in X : (\A j \in X : x <= j) => x = k
    BY <1>1, <1>2
  <2> HIDE DEF X
  <2> QED
    BY <1>2, <2>1 DEF Min
<1> QED
  BY <1>3 DEF Playable

LEMMA ANewRoundIsAhead ==
  ASSUME armed \subseteq Cues, NEW s, NEW t, NEW last, Ahead(last, s), NEW o \in Round(s.run),
         t.run.pos = 1, t.run.order = o, t.run.current = s.run.current, t.refused = s.refused
  PROVE  Ahead(last, t)
<1> SUFFICES ASSUME InTurn(t)
             PROVE  t.run.current = last /\ \A k : ComesTo(t.run, k) => t.run.order[k] # last
  BY DEF Ahead
<1>1. InTurn(s) /\ s.run.current = last
  BY DEF Ahead, InTurn
<1>2. ASSUME NEW k, ComesTo(t.run, k)
      PROVE  t.run.order[k] # last
  <2>1. Playable(o) = o[k] /\ o[k] \in armed
    BY <1>2, ARoundComesToThePlayable DEF ComesTo
  <2>2. Cardinality(armed) > 1
    <3>1. IsFiniteSet(armed)
      <4>1. IsFiniteSet(Cues)
        BY CuesAreRows, FS_Interval
      <4> QED
        BY <4>1, FS_Subset
    <3>2. Cardinality(armed) \in Nat /\ Cardinality(armed) # 0
      BY <2>1, <3>1, FS_CardinalityType, FS_EmptySet
    <3> QED
      BY <1>1, <3>2 DEF InTurn
  <2>3. Playable(o) # last
    BY <1>1, <2>2 DEF Round, InTurn
  <2> QED
    BY <2>1, <2>3
<1> QED
  BY <1>1, <1>2

LEMMA MovesOnInTurn ==
  ASSUME NEW s, Moving(s), s.run.pos \in Cues, s.run.order[s.run.pos] \notin armed \/ s.refused,
         NEW last, Ordered(s), Ahead(last, s)
  PROVE  Turns(last, GoOnWith(s))
<1> DEFINE r == [s.run EXCEPT !.pos = @ + 1]
           t == [s EXCEPT !.run = r]
<1>1. r.pos = s.run.pos + 1 /\ r.order = s.run.order /\ r.current = s.run.current
  BY DEF Moving, RunState
<1>2. GoOnWith(s) = [left |-> FALSE, s |-> t]
  BY DEF GoOnWith, Moving, Booked, States
<1> HIDE DEF r
<1>3. t.run = r /\ t.refused = s.refused
  BY DEF Moving, Booked, States
<1> HIDE DEF t
<1>4. Ordered(t)
  BY <1>1, <1>3, RunsAreRuns DEF Ordered, Moving
<1>5. Ahead(last, t)
  <2> SUFFICES ASSUME InTurn(t)
               PROVE  t.run.current = last /\ \A k : ComesTo(t.run, k) => t.run.order[k] # last
    BY DEF Ahead
  <2>1. InTurn(s) /\ s.run.order[s.run.pos] \notin armed
    BY <1>3 DEF InTurn
  <2>2. \A k : ComesTo(t.run, k) => ComesTo(s.run, k)
    BY <1>1, <1>3, <2>1, ADisarmedIsPassed
  <2> QED
    BY <1>1, <1>3, <2>1, <2>2 DEF Ahead
<1> QED
  BY <1>2, <1>4, <1>5 DEF Turns

LEMMA RefusedInTurn ==
  ASSUME NEW s, Standing(s), NEW last, Ordered(s)
  PROVE  Turns(last, Refused(s))
<1> DEFINE t == [s EXCEPT !.refused = TRUE]
           r == [s.run EXCEPT !.failures = @ + 1]
           u == [t EXCEPT !.run = r]
<1>1. s \in States
  BY DEF Standing, Free, Booked
<1>2. CASE s.run.failures + 1 >= Last
  <2>1. Refused(s) = [left |-> TRUE, s |-> End(t)]
    BY <1>2 DEF Refused, Leave
  <2>2. End(t).run = NoRun
    BY <1>1 DEF End, States
  <2> HIDE DEF t
  <2> QED
    BY <2>1, <2>2 DEF Turns, Ordered, Another
<1>3. CASE ~ (s.run.failures + 1 >= Last)
  <2>1. Refused(s) = GoOnWith(u)
    <3>1. Refused(s) = GoOnWith([s EXCEPT !.run.failures = @ + 1, !.refused = TRUE])
      BY <1>3 DEF Refused
    <3>2. u = [s EXCEPT !.run.failures = @ + 1, !.refused = TRUE]
      BY <1>1 DEF States
    <3> QED
      BY <3>1, <3>2
  <2>2. r \in RunState /\ r.order = s.run.order
    BY DEF Standing, RunState
  <2>3. u \in States /\ u.run = r /\ u.refused = TRUE
    <3> HIDE DEF r
    <3> QED
      BY <1>1, <2>2 DEF States
  <2> HIDE DEF r, u
  <2> DEFINE q == [u.run EXCEPT !.pos = @ + 1]
             v == [u EXCEPT !.run = q]
  <2>4. GoOnWith(u) = [left |-> FALSE, s |-> v]
    BY <2>3 DEF GoOnWith, States
  <2>5. q.order = s.run.order
    BY <2>2, <2>3 DEF RunState
  <2> HIDE DEF q
  <2>6. v.run = q /\ v.refused = TRUE
    BY <2>3 DEF States
  <2> HIDE DEF v
  <2>7. Ordered(v) /\ Ahead(last, v)
    BY <2>5, <2>6, RunsAreRuns DEF Ordered, Ahead, InTurn, Standing
  <2> QED
    BY <2>1, <2>4, <2>7 DEF Turns
<1> QED
  BY <1>2, <1>3

LEMMA TryHereInTurn ==
  ASSUME now \in Nat, NEW s, Moving(s), s.run.pos \in Cues, NEW last, Ordered(s), Ahead(last, s),
         NEW p \in TryHere(s)
  PROVE  Turns(last, p)
<1> DEFINE c == s.run.order[s.run.pos]
           r == [s.run EXCEPT !.current = c]
           t == [s EXCEPT !.run = r]
<1>1. CASE c \notin armed
  BY <1>1, MovesOnInTurn DEF TryHere
<1>2. CASE c \in armed
  <2>1. r \in RunState /\ r.pos = s.run.pos /\ r.order = s.run.order /\ r.current = c
    BY DEF Moving, RunState
  <2>2. t = [s EXCEPT !.run.current = c]
    BY DEF Moving, Booked, States
  <2>3. PICK q \in StartChild(t, c) : p = IF q.ok THEN Leave(q.s) ELSE Refused(q.s)
    <3> HIDE DEF t
    <3> QED
      BY <1>2, <2>2 DEF TryHere
  <2>4. ComesTo(s.run, s.run.pos)
    <3>1. \A j \in Cues : j \in Nat
      BY CuesAreRows
    <3> QED
      BY <1>2, <3>1 DEF ComesTo
  <2>5. InTurn(s) => c # last
    BY <2>4 DEF Ahead
  <2> HIDE DEF r
  <2>6. /\ Booked(t) /\ t.S = s.S /\ t.run = r /\ t.own = s.own /\ t.playing = s.playing
        /\ t.refused = s.refused
    BY <2>1, RunChanges DEF Moving
  <2> HIDE DEF t
  <2>7. Standing(t) /\ q \in StartChild(t, t.run.current)
    BY <2>1, <2>3, <2>6 DEF Standing, Free, Moving
  <2>8. /\ q.ok \in BOOLEAN
        /\ q.ok => /\ q.s.refused = t.refused
                   /\ q.s.run.order = t.run.order /\ q.s.run.current = t.run.current
        /\ ~ q.ok => Standing(q.s) /\ q.s.run = t.run
    BY <2>7, StartKeeps
  <2>9. s.run.order \in Orders
    BY RunsAreRuns DEF Ordered, Moving
  <2>10. CASE q.ok
    <3>1. p = [left |-> TRUE, s |-> q.s]
      BY <2>3, <2>10 DEF Leave
    <3>2. Ordered(q.s) /\ Another(last, q.s)
      BY <2>1, <2>5, <2>6, <2>8, <2>9, <2>10 DEF Ordered, Another, InTurn
    <3> QED
      BY <3>1, <3>2 DEF Turns
  <2>11. CASE ~ q.ok
    <3>1. Ordered(q.s)
      BY <2>1, <2>6, <2>8, <2>9, <2>11 DEF Ordered
    <3> QED
      BY <2>3, <2>8, <2>11, <3>1, RefusedInTurn
  <2> QED
    BY <2>10, <2>11
<1> QED
  BY <1>1, <1>2

LEMMA PassInTurn ==
  ASSUME now \in Nat, armed \subseteq Cues, NEW s, Moving(s), NEW last, Ordered(s), Ahead(last, s),
         NEW p \in Pass(s)
  PROVE  Turns(last, p)
<1>1. CASE s.run.pos <= Last
  <2>1. s.run.pos \in Cues
    BY <1>1, CuesAreRows DEF Moving, RunState
  <2> QED
    BY <1>1, <2>1, TryHereInTurn DEF Pass
<1>2. CASE ~ (s.run.pos <= Last) /\ group.loop
  <2>1. PICK o \in Round(s.run) : p \in TryHere([s EXCEPT !.run.order = o, !.run.pos = 1])
    BY <1>2 DEF Pass
  <2> DEFINE r == [s.run EXCEPT !.order = o, !.pos = 1]
             t == [s EXCEPT !.run = r]
  <2>2. r \in RunState /\ r.pos \in Cues /\ r.pos = 1 /\ r.order = o /\ r.current = s.run.current
    <3>1. o \in [Cues -> Cues] /\ 1 \in 1 .. Last + 1 /\ 1 \in Cues
      BY RoundsAreOrders, CuesAreRows
    <3> QED
      BY <3>1 DEF Moving, RunState
  <2>3. t = [s EXCEPT !.run.order = o, !.run.pos = 1]
    BY DEF Moving, Booked, States
  <2>4. p \in TryHere(t)
    BY <2>1, <2>3
  <2> HIDE DEF r
  <2>5. /\ Booked(t) /\ t.S = s.S /\ t.run = r /\ t.own = s.own /\ t.playing = s.playing
        /\ t.refused = s.refused
    BY <2>2, RunChanges DEF Moving
  <2> HIDE DEF t
  <2>6. Moving(t) /\ t.run.pos \in Cues
    BY <2>2, <2>5 DEF Moving
  <2>7. Ordered(t)
    BY <2>2, <2>5 DEF Ordered, Round
  <2>8. Ahead(last, t)
    BY <2>2, <2>5, ANewRoundIsAhead
  <2> QED
    BY <2>4, <2>6, <2>7, <2>8, TryHereInTurn
<1>3. CASE ~ (s.run.pos <= Last) /\ ~ group.loop
  <2>1. p = [left |-> TRUE, s |-> End(s)]
    BY <1>3 DEF Pass, Leave
  <2>2. End(s).run = NoRun
    BY DEF End, Moving, Booked, States
  <2> QED
    BY <2>1, <2>2 DEF Turns, Ordered, Another
<1> QED
  BY <1>1, <1>2, <1>3

LEMMA StepInTurn ==
  ASSUME now \in Nat, armed \subseteq Cues, NEW s, Moving(s), NEW last, Ordered(s), Ahead(last, s),
         NEW t \in playlistStep(s)
  PROVE  Ordered(t) /\ Another(last, t)
<1> DEFINE T == {p \in [left : BOOLEAN, s : States] : Came(s, p) /\ Turns(last, p)}
<1>1. \A p : Came(s, p) /\ Turns(last, p) => p \in T
  <2> SUFFICES ASSUME NEW p, Came(s, p)
               PROVE  p \in [left : BOOLEAN, s : States]
    OBVIOUS
  <2>1. p.s \in States /\ p = [left |-> p.left, s |-> p.s] /\ p.left \in BOOLEAN
    BY CameBooked DEF Came, Booked
  <2> QED
    BY <2>1
<1>2. [left |-> FALSE, s |-> s] \in T
  <2>1. Sheds(s, s)
    BY ShedsNothing DEF Moving
  <2>2. Came(s, [left |-> FALSE, s |-> s]) /\ Turns(last, [left |-> FALSE, s |-> s])
    BY <2>1 DEF Came, Turns
  <2> QED
    BY <1>1, <2>2
<1>3. \A p \in T : ~ p.left => Pass(p.s) \in SUBSET T
  <2> SUFFICES ASSUME NEW p \in T, ~ p.left, NEW q \in Pass(p.s)
               PROVE  q \in T
    OBVIOUS
  <2>1. Came(s, p) /\ Moving(p.s) /\ Ordered(p.s) /\ Ahead(last, p.s)
    BY DEF Came, Turns
  <2>2. Came(p.s, q) /\ Turns(last, q)
    BY <2>1, PassCame, PassInTurn
  <2>3. Came(s, q)
    BY <2>1, <2>2, CameAgain DEF Moving, Came
  <2> QED
    BY <1>1, <2>2, <2>3
<1>4. \A p \in T : Came(s, p) /\ Turns(last, p)
  OBVIOUS
<1> HIDE DEF T
<1>5. PICK p \in T : t = IF p.left THEN p.s ELSE End(p.s)
  BY <1>2, <1>3, PassesKeep
<1>6. Came(s, p) /\ Turns(last, p)
  BY <1>4
<1>7. CASE p.left
  BY <1>5, <1>6, <1>7 DEF Turns
<1>8. CASE ~ p.left
  <2>1. t.run = NoRun
    BY <1>5, <1>6, <1>8 DEF Came, Moving, Booked, States, End
  <2> QED
    BY <2>1 DEF Ordered, Another
<1> QED
  BY <1>7, <1>8

(* Where a call and the watch go on from: behind a child of an order.      *)
LEMMA BehindAChild ==
  ASSUME NEW r, r \in RunState, r.order \in Orders, r.pos \in Cues, r.order[r.pos] = r.current,
         NEW s, s.run.pos = r.pos + 1, s.run.order = r.order, s.run.current = r.current
  PROVE  Ahead(r.current, s)
<1> SUFFICES ASSUME group.shuffle, NEW k, ComesTo(s.run, k)
             PROVE  s.run.order[k] # r.current
  BY DEF Ahead, InTurn
<1>1. k \in Cues /\ k # r.pos
  <2>1. r.pos \in Nat /\ r.pos + 1 <= k
    BY CuesAreRows DEF ComesTo
  <2> QED
    BY <2>1 DEF ComesTo
<1>2. \A i, j \in Cues : r.order[i] = r.order[j] => i = j
  BY DEF Orders
<1> QED
  BY <1>1, <1>2

LEMMA StartGroupInTurn ==
  ASSUME now \in Nat, armed \subseteq Cues, NEW s, Free(s), NEW t \in startGroup(s)
  PROVE  Ordered(t)
<1>1. PICK o \in Orders : t \in playlistStep([s EXCEPT !.run = NewRun(o)])
  BY DEF startGroup
<1> DEFINE r == NewRun(o)
           u == [s EXCEPT !.run = r]
<1>2. r \in RunState /\ r.order = o /\ r.current = 0
  <2>1. o \in [Cues -> Cues] /\ 1 \in 1 .. Last + 1
    BY CuesAreRows DEF Orders
  <2> QED
    BY <2>1 DEF NewRun, RunState
<1>3. t \in playlistStep(u)
  BY <1>1
<1> HIDE DEF r
<1>4. /\ Booked(u) /\ u.S = s.S /\ u.run = r /\ u.own = s.own /\ u.playing = s.playing
  BY <1>2, RunChanges DEF Free
<1> HIDE DEF u
<1>5. Moving(u) /\ Ordered(u)
  BY <1>2, <1>4 DEF Moving, Free, Ordered
<1>6. Ahead(0, u)
  <2>1. \A k : ComesTo(u.run, k) => u.run.order[k] # 0
    BY <1>2, <1>4, CuesAreRows DEF ComesTo, RunState
  <2> QED
    BY <1>2, <1>4, <2>1 DEF Ahead
<1> QED
  BY <1>3, <1>5, <1>6, StepInTurn

LEMMA SkipInTurn ==
  ASSUME now \in Nat, armed \subseteq Cues, NEW s, Settled(s), Ordered(s), s.run # NoRun, NEW t \in playlistSkip(s)
  PROVE  Ordered(t)
<1> DEFINE u == Without(s, OfTheGroup(s))
           c == s.run.current
           v == Quiet(u, c)
           r == [v.run EXCEPT !.pos = @ + 1]
           m == [v EXCEPT !.run = r]
<1>1. /\ s \in States /\ s.run \in RunState /\ c \in Cues /\ s.run.pos \in Cues
      /\ s.run.order[s.run.pos] = c
  <2>1. s \in States
    BY DEF Settled, Booked
  <2>2. s.run \in RunState
    BY <2>1 DEF States
  <2> QED
    BY <2>1, <2>2 DEF Settled, Watches, RunState
<1>2. \A f \in s.S : f.kind = "step" => f \in OfTheGroup(s)
  BY TheGroupsEntries DEF Settled
<1>3. /\ Booked(u) /\ u.S = s.S \ OfTheGroup(s) /\ u.run = s.run /\ u.own = s.own /\ u.playing = s.playing
  BY WithoutKeeps DEF Settled
<1> HIDE DEF u
<1>4. StepsOf(u.S) = {}
  BY <1>2, <1>3 DEF StepsOf
<1>5. /\ Booked(v) /\ v.run = u.run /\ v.own = u.own
      /\ v.playing[c] # "on" /\ \A d \in Cues \ {c} : v.playing[d] = u.playing[d]
      /\ StepsOf(v.S) = StepsOf(u.S)
  BY <1>1, <1>3, QuietSheds
<1>6. t \in playlistStep(m)
  <2>1. t \in playlistStep([v EXCEPT !.run.pos = @ + 1])
    BY DEF playlistSkip, u
  <2> HIDE DEF v
  <2>2. m = [v EXCEPT !.run.pos = @ + 1]
    BY <1>5 DEF Booked, States
  <2> HIDE DEF m
  <2> QED
    BY <2>1, <2>2
<1> HIDE DEF v
<1>7. \A d \in v.own : v.playing[d] # "on"
  <2> TAKE d \in v.own
  <2>1. d \in Cues /\ d \in s.own
    BY <1>1, <1>3, <1>5 DEF States
  <2>2. s.playing[d] = "on" => d = c
    BY <2>1 DEF Settled, OneOn
  <2> QED
    BY <1>3, <1>5, <2>1, <2>2
<1>8. r \in RunState /\ r.pos = s.run.pos + 1 /\ r.order = s.run.order /\ r.current = c
  <2>1. s.run.pos + 1 \in 1 .. Last + 1
    BY <1>1, CuesAreRows
  <2> QED
    BY <1>1, <1>3, <1>5, <2>1 DEF RunState
<1> HIDE DEF r
<1>9. /\ Booked(m) /\ m.S = v.S /\ m.run = r /\ m.own = v.own /\ m.playing = v.playing
  BY <1>5, <1>8, RunChanges
<1> HIDE DEF m
<1>10. Moving(m) /\ Ordered(m)
  BY <1>3, <1>4, <1>5, <1>7, <1>8, <1>9 DEF Moving, Ordered
<1>11. Ahead(c, m)
  BY <1>1, <1>8, <1>9, BehindAChild DEF Ordered
<1> QED
  BY <1>6, <1>10, <1>11, StepInTurn

(* The list goes through an order of its children.                         *)
OrdersInv == run # NoRun => run.order \in Orders

LEMMA HereIsOrdered ==
  ASSUME ListInv, OrdersInv
  PROVE  Ordered(Here) /\ armed \subseteq Cues
BY HereIs DEF Ordered, OrdersInv, ListInv, StepInv, PlainOk

LEMMA ListCallOrdered ==
  ASSUME ListInv, OrdersInv, ListCall
  PROVE  run' # NoRun => run'.order \in Orders
<1>1. Settled(Here) /\ Booked(Here) /\ Ordered(Here) /\ armed \subseteq Cues /\ now \in Nat
  BY HereSheds, HereIsOrdered
<1>2. \A s : Becomes(s) /\ Ordered(s) => (run' # NoRun => run'.order \in Orders)
  BY DEF Becomes, Ordered
<1>3. Ordered(stopGroup(Here))
  BY <1>1, StopGroupSettles DEF Ordered
<1>4. CASE GoOnGroup
  <2>1. CASE run # NoRun /\ \E s \in playlistSkip(Here) : Becomes(s)
    BY <1>1, <1>2, <2>1, HereIs, SkipInTurn
  <2>2. CASE run = NoRun /\ \E s \in startGroup(Here) : Becomes(s)
    <3>1. Free(Here)
      BY <1>1, <2>2, HereIs DEF Free, Settled, Watches, OneOn
    <3> QED
      BY <1>1, <1>2, <2>2, <3>1, StartGroupInTurn
  <2>3. CASE \E s \in startGroup(stopGroup(Here)) : Becomes(s)
    <3>1. Free(stopGroup(Here))
      BY <1>1, StopGroupSettles
    <3> QED
      BY <1>1, <1>2, <2>3, <3>1, StartGroupInTurn
  <2> QED
    BY <1>1, <1>2, <1>3, <1>4, <2>1, <2>2, <2>3 DEF GoOnGroup
<1>5. CASE StopGroup
  BY <1>2, <1>3, <1>5 DEF StopGroup
<1>6. CASE CancelStartCard
  <2>1. \A X : Ordered(Without(Here, X))
    <3> TAKE X
    <3>1. Without(Here, X).run = run
      BY <1>1, HereIs, WithoutKeeps
    <3> QED
      BY <1>1, <3>1, HereIs DEF Ordered
  <2> QED
    BY <1>2, <1>3, <1>6, <2>1 DEF CancelStartCard
<1>7. CASE CancelWaitCard
  <2>1. \A c \in Cues : Ordered(Quiet(Here, c))
    <3> TAKE c \in Cues
    <3>1. Quiet(Here, c).run = run
      BY <1>1, HereIs, QuietSheds
    <3> QED
      BY <1>1, <3>1, HereIs DEF Ordered
  <2> QED
    BY <1>2, <1>3, <1>7, <2>1 DEF CancelWaitCard
<1> QED
  BY <1>4, <1>5, <1>6, <1>7 DEF ListCall

(* A turn of the list's watch: it stays on, or the list goes on to another *)
(* child, in an order.                                                     *)
LEMMA TickStepInTurn ==
  ASSUME ListInv, OrdersInv, TickSteps
  PROVE  /\ run' # NoRun => run'.order \in Orders
         /\ \/ Steps' = Steps /\ run' = run
            \/ group.shuffle /\ run' # NoRun /\ ~ refused' /\ Cardinality(armed) # 1 => run'.current # run.current
<1>1. Settled(Here) /\ Booked(Here) /\ Ordered(Here) /\ armed \subseteq Cues /\ now \in Nat
  BY HereSheds, HereIsOrdered
<1>2. CASE Becomes(Here)
  BY <1>2, HereIs DEF Becomes, OrdersInv, Steps
<1>3. CASE ~ Becomes(Here)
  <2>1. PICK f \in Due :
          /\ f.kind = "step" /\ TRUE \in MayStep(f)
          /\ LET s == CrossFade([Here EXCEPT !.S = @ \ {f}], f)
             IN  IF run = NoRun THEN Becomes(s)
                 ELSE \E t \in playlistStep([s EXCEPT !.run.pos = @ + 1]) : Becomes(t)
    BY <1>3 DEF TickSteps
  <2> DEFINE s == CrossFade(Watching(f), f)
             r == [s.run EXCEPT !.pos = @ + 1]
             m == [s EXCEPT !.run = r]
  <2>2. f \in sched
    BY DEF Due
  <2>3. run # NoRun /\ run \in RunState /\ run.pos \in Cues /\ run.order[run.pos] = run.current
    <3>1. run # NoRun /\ run \in RunState /\ run.pos \in Cues
      BY <2>1, <2>2, WatchTaken
    <3> QED
      BY <1>1, <3>1, HereIs DEF Settled, Watches
  <2>4. Free(s) /\ s.run = run
    BY <2>1, <2>2, CrossedIsFree
  <2>5. PICK t \in playlistStep(m) : Becomes(t)
    <3>1. PICK t \in playlistStep([s EXCEPT !.run.pos = @ + 1]) : Becomes(t)
      BY <2>1, <2>3 DEF Watching
    <3> HIDE DEF s
    <3>2. m = [s EXCEPT !.run.pos = @ + 1]
      BY <2>4 DEF Free, Booked, States
    <3> HIDE DEF m
    <3> QED
      BY <3>1, <3>2
  <2> HIDE DEF s
  <2>6. r \in RunState /\ r.pos = run.pos + 1 /\ r.order = run.order /\ r.current = run.current
    <3>1. run.pos + 1 \in 1 .. Last + 1
      BY <2>3, CuesAreRows
    <3> QED
      BY <2>3, <2>4, <3>1 DEF RunState
  <2> HIDE DEF r
  <2>7. /\ Booked(m) /\ m.S = s.S /\ m.run = r /\ m.own = s.own /\ m.playing = s.playing
    BY <2>4, <2>6, RunChanges DEF Free
  <2> HIDE DEF m
  <2>8. Moving(m) /\ Ordered(m)
    BY <2>3, <2>4, <2>6, <2>7 DEF Moving, Free, Ordered, OrdersInv
  <2>9. Ahead(run.current, m)
    BY <2>3, <2>6, <2>7, BehindAChild DEF OrdersInv
  <2>10. Ordered(t) /\ Another(run.current, t)
    BY <1>1, <2>5, <2>8, <2>9, StepInTurn
  <2> QED
    BY <2>5, <2>10 DEF Becomes, Ordered, Another, InTurn
<1> QED
  BY <1>2, <1>3

LEMMA OrdersInvariance == ListSpec => []OrdersInv
<1>1. ListInit => OrdersInv
  BY DEF ListInit, OrdersInv
<1>2. ListInv /\ OrdersInv /\ [ListNext]_everything => OrdersInv'
  <2> SUFFICES ASSUME ListInv, OrdersInv, [ListNext]_everything
               PROVE  OrdersInv'
    OBVIOUS
  <2>1. group' = group
    BY Zenon DEF ListNext, ListTick, GoOnGroup, StopGroup, CancelStartCard, CancelWaitCard, Same, FireChild,
                 StopChild, StopAll, WalkOn, TickBegins, TickStarts, TickFades, TickCollects, TickFollows,
                 TickSteps, TickEnds, list, everything
  <2>2. run' # NoRun => run'.order \in Orders
    <3>1. CASE CueStep \/ StopAll
      <4>1. run' = run \/ run' = NoRun
        BY <3>1, Zenon DEF CueStep, StopAll, FireChild, StopChild, WalkOn, TickStarts, TickFollows, TickEnds,
                           list, everything
      <4> QED
        BY <4>1 DEF OrdersInv
    <3>2. CASE ListCall
      BY <3>2, ListCallOrdered
    <3>3. CASE TickSteps
      BY <3>3, TickStepInTurn
    <3>4. CASE TickBegins \/ TickFades \/ TickCollects
      BY <3>4, Zenon DEF TickBegins, TickFades, TickCollects, list, OrdersInv
    <3> QED
      BY <3>1, <3>2, <3>3, <3>4, ListStepIs DEF ListTurn
  <2> QED
    BY <2>1, <2>2 DEF OrdersInv, Orders
<1> QED
  BY <1>1, <1>2, ListInvariance, PTL DEF ListSpec

(* A shuffled list that goes on by itself plays no child twice in a row.   *)
THEOREM NeverTwiceInARow == ListSpec => NotTwiceInARow
<1>1. ListInv /\ OrdersInv =>
        [(TickSteps /\ run # NoRun /\ run' # NoRun /\ Steps' # Steps /\ group.shuffle) =>
           run'.current # run.current \/ refused' \/ Cardinality(armed) = 1]_everything
  BY TickStepInTurn
<1> QED
  BY <1>1, ListInvariance, OrdersInvariance, PTL DEF NotTwiceInARow
=============================================================================
