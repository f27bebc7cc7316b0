--------------------------- MODULE SchedulerProofs --------------------------
(***************************************************************************)
(* What holds of the scheduler for every number of entries, every clock    *)
(* bound and every set of conditions: its state is well-formed, isPending  *)
(* tells the truth in mid-tick, a tick runs in time order, and Scheduler   *)
(* implements Timeline.                                                    *)
(***************************************************************************)
EXTENDS Scheduler, TLAPS

USE DEF env, lists, tickv, hist, FirstId, MarkCancelled, DueTimed, TrueWatches, GoesBack

(* One iteration over the due timed entries, with what it leaves alone. *)
LEMMA NextTimedStep ==
  ASSUME NextTimed
  PROVE  /\ phase = "timed" /\ running = 0
         /\ UNCHANGED <<env, entries, pushes, nextId, cancelledDuringTick, inTick,
                        cancelAllDuringTick, phase, asked, cancelled>>
         /\ \E e \in due :
              /\ \A f \in due \ {e} : TimedBefore(e, f)
              /\ inFlight' = inFlight \ {e.id}
              /\ \/ /\ cancelAllDuringTick
                    /\ due' = {} /\ running' = running /\ ran' = ran
                 \/ /\ ~ cancelAllDuringTick /\ e.id \in cancelledDuringTick
                    /\ due' = due \ {e} /\ running' = running /\ ran' = ran
                 \/ /\ ~ cancelAllDuringTick /\ e.id \notin cancelledDuringTick
                    /\ due' = due \ {e} /\ running' = e.id /\ ran' = ran \cup {e.id}
  BY DEF NextTimed, Call

(* One iteration over the watches, likewise. *)
LEMMA NextWatchStep ==
  ASSUME NextWatch
  PROVE  /\ phase = "watches" /\ running = 0
         /\ UNCHANGED <<env, nextId, cancelledDuringTick, inTick, cancelAllDuringTick,
                        phase, asked, cancelled>>
         /\ \E e \in due :
              /\ \A f \in due \ {e} : WatchBefore(e, f)
              /\ \/ /\ cancelAllDuringTick /\ due' = {} /\ entries' = entries
                    /\ pushes' = pushes /\ inFlight' = inFlight
                    /\ running' = running /\ ran' = ran
                 \/ /\ ~ cancelAllDuringTick
                    /\ due' = due \ {e}
                    /\ inFlight' = inFlight \ {e.id}
                    /\ \/ /\ e.id \in cancelledDuringTick /\ entries' = entries
                          /\ pushes' = pushes /\ running' = running /\ ran' = ran
                       \/ /\ e.id \notin cancelledDuringTick /\ e.cond \notin holds
                          /\ pushes' = pushes + 1
                          /\ entries' = entries \cup {[e EXCEPT !.pos = pushes + 1]}
                          /\ running' = running /\ ran' = ran
                       \/ /\ e.id \notin cancelledDuringTick /\ e.cond \in holds
                          /\ entries' = entries /\ pushes' = pushes
                          /\ running' = e.id /\ ran' = ran \cup {e.id}
  BY DEF NextWatch, Call

LEMMA EntryFields ==
  ASSUME NEW e \in Entry
  PROVE  /\ e.id \in Ids /\ e.at \in 0 .. MaxTime
         /\ e.cond \in Conds \cup {NoCond} /\ e.pos \in Nat
         /\ \A p \in Nat : [e EXCEPT !.pos = p] \in Entry
  BY DEF Entry

LEMMA ElementFields ==
  ASSUME TypeOK, NEW e \in Elements
  PROVE  /\ e \in Entry /\ e.id \in Nat /\ e.id >= 1 /\ e.id \in Ids
         /\ e.pos \in Nat /\ e.at \in Nat
  <1>1. e \in Entry
    BY DEF TypeOK, Elements
  <1> QED
    BY <1>1, EntryFields DEF Ids

LEMMA TypeInit == Init => TypeOK
  <2> SUFFICES ASSUME Init PROVE TypeOK
    OBVIOUS
  <2>1. << >> \in [1 .. 0 -> [at : 0 .. MaxTime, cond : Conds \cup {NoCond}]]
    OBVIOUS
  <2>2. nextId = 1 /\ nextId - 1 = 0 /\ nextId \in 1 .. MaxEntries + 1
    BY BoundsAssumption DEF Init
  <2>3. asked \in [1 .. nextId - 1 -> [at : 0 .. MaxTime, cond : Conds \cup {NoCond}]]
    BY <2>1, <2>2 DEF Init
  <2>4. /\ now \in 0 .. MaxTime /\ holds \in SUBSET Conds /\ flips \in 0 .. MaxFlips
        /\ running \in 0 .. MaxEntries /\ pushes \in Nat
    BY BoundsAssumption DEF Init
  <2>5. /\ entries \in SUBSET Entry /\ due \in SUBSET Entry /\ inFlight \in SUBSET Ids
        /\ cancelledDuringTick \in SUBSET Ids /\ ran \in SUBSET Ids
        /\ cancelled \in SUBSET Ids
    BY DEF Init
  <2>6. /\ inTick \in BOOLEAN /\ cancelAllDuringTick \in BOOLEAN
        /\ phase \in {"idle", "timed", "watches"}
    BY DEF Init
  <2> QED
    BY <2>2, <2>3, <2>4, <2>5, <2>6 DEF TypeOK

LEMMA TypeStep == TypeOK /\ [Next]_vars => TypeOK'
  <2> SUFFICES ASSUME TypeOK, [Next]_vars PROVE TypeOK'
    OBVIOUS
  <2> USE BoundsAssumption
  <2>1. CASE Schedule
    BY <2>1 DEF Schedule, AddEntry, Entry, TypeOK, Ids
  <2>2. CASE Watch
    BY <2>2 DEF Watch, AddEntry, Entry, TypeOK, Ids
  <2>3. CASE Cancel
    <3> PICK i \in 1 .. nextId - 1 :
          /\ entries' = {e \in entries : e.id # i} /\ inFlight' = inFlight \ {i}
          /\ cancelledDuringTick' = MarkCancelled({i})
          /\ cancelled' = cancelled \cup {j \in {i} : isPending(j)}
      BY <2>3 DEF Cancel
    <3>1. UNCHANGED <<env, pushes, nextId, inTick, cancelAllDuringTick, phase, due, running,
                      asked, ran>>
      BY <2>3 DEF Cancel
    <3>2. i \in Ids /\ cancelled' \subseteq cancelled \cup {i}
      BY DEF TypeOK, Ids
    <3> QED
      BY <3>1, <3>2 DEF TypeOK
  <2>4. CASE CancelAll
    <3> DEFINE S == {j \in 1 .. nextId - 1 : isPending(j)}
    <3>1. /\ cancelled' = cancelled \cup S
          /\ UNCHANGED <<env, pushes, nextId, inTick, phase, due, running, asked, ran>>
          /\ entries' = {} /\ inFlight' = {}
          /\ cancelledDuringTick' = MarkCancelled(IdsOf(entries))
          /\ cancelAllDuringTick' = (inTick \/ cancelAllDuringTick)
      BY <2>4 DEF CancelAll
    <3>2. S \subseteq Ids
      BY DEF TypeOK, Ids
    <3> HIDE DEF S
    <3> QED
      BY <3>1, <3>2, EntryFields DEF IdsOf, TypeOK
  <2>5. CASE BeginTick
    BY <2>5, EntryFields DEF BeginTick, IdsOf, TypeOK
  <2>6. CASE NextTimed
    BY <2>6, NextTimedStep, EntryFields DEF TypeOK, Ids
  <2>7. CASE CollectWatches
    BY <2>7, EntryFields DEF CollectWatches, IdsOf, TypeOK
  <2>8. CASE NextWatch
    <3>1. /\ \E e \in due : /\ due' \subseteq due
                            /\ inFlight' \subseteq inFlight
                            /\ pushes' \in {pushes, pushes + 1}
                            /\ entries' \in {entries, entries \cup {[e EXCEPT !.pos = pushes + 1]}}
                            /\ running' \in {running, e.id}
                            /\ ran' \in {ran, ran \cup {e.id}}
          /\ UNCHANGED <<now, holds, flips, nextId, cancelledDuringTick, inTick,
                         cancelAllDuringTick, phase, asked, cancelled>>
      BY <2>8, NextWatchStep DEF env
    <3>2. PICK e \in due : /\ due' \subseteq due
                           /\ inFlight' \subseteq inFlight
                           /\ pushes' \in {pushes, pushes + 1}
                           /\ entries' \in {entries, entries \cup {[e EXCEPT !.pos = pushes + 1]}}
                           /\ running' \in {running, e.id}
                           /\ ran' \in {ran, ran \cup {e.id}}
      BY <3>1
    <3>3. e \in Entry /\ pushes + 1 \in Nat
      BY DEF TypeOK
    <3>4. e.id \in Ids /\ [e EXCEPT !.pos = pushes + 1] \in Entry
      BY <3>3, EntryFields
    <3>5. e.id \in 0 .. MaxEntries
      BY <3>4 DEF Ids
    <3>6. /\ entries' \in SUBSET Entry /\ due' \in SUBSET Entry
          /\ pushes' \in Nat /\ running' \in 0 .. MaxEntries
      BY <3>2, <3>3, <3>4, <3>5 DEF TypeOK
    <3>7. inFlight' \in SUBSET Ids /\ ran' \in SUBSET Ids
      BY <3>2, <3>4 DEF TypeOK
    <3> QED
      BY <3>1, <3>6, <3>7 DEF TypeOK
  <2>9. CASE EndTick
    BY <2>9 DEF EndTick, TypeOK
  <2>10. CASE ActionReturns
    BY <2>10 DEF ActionReturns, TypeOK
  <2>11. CASE Advance
    BY <2>11 DEF Advance, TypeOK
  <2>12. CASE Flip
    BY <2>12 DEF Flip, TypeOK
  <2>13. CASE UNCHANGED vars
    BY <2>13 DEF vars, TypeOK
  <2> QED
    BY <2>1, <2>2, <2>3, <2>4, <2>5, <2>6, <2>7, <2>8, <2>9, <2>10, <2>11, <2>12, <2>13
    DEF Next, Calls, Tick

(* The state variables keep their types: ids stay within what was issued, *)
(* and every list holds well-formed elements.                             *)
THEOREM TypeCorrect == Spec => []TypeOK
  BY TypeInit, TypeStep, PTL DEF Spec

(* Where a tick is, and what it has in its hands there. *)
LEMMA PhaseStep == TypeOK /\ PhaseInv /\ [Next]_vars => PhaseInv'
  <1> SUFFICES ASSUME TypeOK, PhaseInv, [Next]_vars PROVE PhaseInv'
    OBVIOUS
  <1> USE DEF PhaseInv
  <1>1. CASE Schedule
    BY <1>1 DEF Schedule, AddEntry, IsWatch
  <1>2. CASE Watch
    BY <1>2 DEF Watch, AddEntry, IsWatch
  <1>3. CASE Cancel
    BY <1>3 DEF Cancel, IsWatch
  <1>4. CASE CancelAll
    BY <1>4 DEF CancelAll, CallerFree, IsWatch
  <1>5. CASE BeginTick
    BY <1>5 DEF BeginTick, IsWatch
  <1>6. CASE NextTimed
    BY <1>6, NextTimedStep DEF IsWatch
  <1>7. CASE CollectWatches
    BY <1>7 DEF CollectWatches, IsWatch
  <1>8. CASE NextWatch
    BY <1>8, NextWatchStep DEF IsWatch
  <1>9. CASE EndTick
    BY <1>9 DEF EndTick, IsWatch
  <1>10. CASE ActionReturns
    BY <1>10 DEF ActionReturns, IsWatch
  <1>11. CASE Advance
    BY <1>11 DEF Advance, IsWatch, TypeOK, Entry
  <1>12. CASE Flip
    BY <1>12 DEF Flip, IsWatch
  <1>13. CASE UNCHANGED vars
    BY <1>13 DEF vars, IsWatch
  <1> QED
    BY <1>1, <1>2, <1>3, <1>4, <1>5, <1>6, <1>7, <1>8, <1>9, <1>10, <1>11, <1>12, <1>13
    DEF Next, Calls, Tick

(* One place per element, one element per id. *)
LEMMA ElementsStep == TypeOK /\ ElementsInv /\ [Next]_vars => ElementsInv'
  <1> SUFFICES ASSUME TypeOK, ElementsInv, [Next]_vars PROVE ElementsInv'
    OBVIOUS
  <1> USE DEF ElementsInv, Elements, IdsOf
  <1>a. ASSUME NEW at \in 0 .. MaxTime, NEW cond \in Conds \cup {NoCond}, AddEntry(at, cond)
        PROVE  ElementsInv'
    <2> DEFINE new == [id |-> nextId, at |-> at, cond |-> cond, pos |-> pushes + 1]
    <2>1. /\ entries' = entries \cup {new} /\ due' = due /\ nextId' = nextId + 1 /\ ran' = ran
          /\ nextId \in Nat
      BY <1>a DEF AddEntry, TypeOK
    <2>2. \A e \in Elements : e.id \in Nat /\ e.id < nextId
      BY ElementFields
    <2>3. \A e \in Elements : asked'[e.id] = asked[e.id]
      BY <1>a, <2>2, EntryFields DEF AddEntry, TypeOK, Ids
    <2>4. asked'[nextId] = [at |-> at, cond |-> cond]
      BY <1>a DEF AddEntry, TypeOK
    <2>5. nextId \notin ran
      BY <2>1
    <2>6. (IdsOf(entries) \cap IdsOf(due))' = {}
      BY <2>1, <2>2
    <2>7. \A e, f \in Elements' : e.id = f.id => e = f
      BY <2>1, <2>2
    <2>8. ASSUME NEW e \in Elements'
          PROVE  /\ e.id < nextId'
                 /\ e.id \notin ran'
                 /\ asked'[e.id] = [at |-> e.at, cond |-> e.cond]
      <3>1. CASE e = new
        BY <2>1, <2>4, <2>5, <3>1
      <3>2. CASE e \in Elements
        BY <2>1, <2>2, <2>3, <3>2
      <3> QED
        BY <2>1, <3>1, <3>2
    <2>9. ran' \subseteq 1 .. nextId' - 1
      BY <2>1
    <2> QED
      BY <2>6, <2>7, <2>8, <2>9
  <1>1. CASE Schedule
    BY <1>1, <1>a DEF Schedule
  <1>2. CASE Watch
    <2>1. 0 \in 0 .. MaxTime
      BY BoundsAssumption
    <2> PICK c \in Conds : AddEntry(0, c)
      BY <1>2 DEF Watch
    <2> QED
      BY <2>1, <1>a
  <1>3. CASE Cancel
    BY <1>3 DEF Cancel
  <1>4. CASE CancelAll
    BY <1>4 DEF CancelAll
  <1>5. CASE BeginTick
    BY <1>5 DEF BeginTick
  <1>6. CASE NextTimed
    <2>1. /\ entries' = entries /\ nextId' = nextId /\ asked' = asked
          /\ due' \subseteq due
          /\ \/ ran' = ran
             \/ \E e \in due : due' = due \ {e} /\ ran' = ran \cup {e.id}
      BY <1>6, NextTimedStep
    <2>2. CASE ran' = ran
      BY <2>1, <2>2
    <2>3. CASE \E e \in due : due' = due \ {e} /\ ran' = ran \cup {e.id}
      <3> PICK e \in due : due' = due \ {e} /\ ran' = ran \cup {e.id}
        BY <2>3
      <3>1. e.id \in 1 .. nextId - 1
        <4>1. e.id \in Nat /\ e.id >= 1 /\ nextId \in Nat
          BY ElementFields DEF TypeOK
        <4>2. e.id < nextId
          OBVIOUS
        <4> QED
          BY <4>1, <4>2
      <3>2. \A f \in Elements' : f \in Elements /\ f.id # e.id
        BY <2>1
      <3>3. ran' \subseteq 1 .. nextId' - 1
        BY <2>1, <3>1
      <3>4. (IdsOf(entries) \cap IdsOf(due))' = {}
        BY <2>1
      <3> QED
        BY <2>1, <3>2, <3>3, <3>4
    <2> QED
      BY <2>1, <2>2, <2>3
  <1>7. CASE CollectWatches
    BY <1>7 DEF CollectWatches
  <1>8. CASE NextWatch
    <2> PICK e \in due :
          \/ due' \subseteq due /\ entries' = entries /\ ran' = ran
          \/ /\ due' = due \ {e} /\ ran' = ran
             /\ entries' = entries \cup {[e EXCEPT !.pos = pushes + 1]}
          \/ due' = due \ {e} /\ entries' = entries /\ ran' = ran \cup {e.id}
      BY <1>8, NextWatchStep
    <2>1. nextId' = nextId /\ asked' = asked
      BY <1>8, NextWatchStep
    <2>2. e.id \in 1 .. nextId - 1 /\ e \in Entry
      <3>1. e \in Entry /\ e.id \in Nat /\ e.id >= 1 /\ nextId \in Nat
        BY ElementFields DEF TypeOK
      <3>2. e.id < nextId
        OBVIOUS
      <3> QED
        BY <3>1, <3>2
    <2>3. CASE due' \subseteq due /\ entries' = entries /\ ran' = ran
      BY <2>1, <2>3
    <2>4. CASE /\ due' = due \ {e} /\ ran' = ran
               /\ entries' = entries \cup {[e EXCEPT !.pos = pushes + 1]}
      <3> DEFINE g == [e EXCEPT !.pos = pushes + 1]
      <3>1. g.id = e.id /\ g.at = e.at /\ g.cond = e.cond
        BY <2>2 DEF Entry
      <3>2. \A f \in Elements' : f = g \/ (f \in Elements /\ f.id # e.id)
        BY <2>4
      <3>3. \A f, h \in Elements' : f.id = h.id => f = h
        BY <3>1, <3>2
      <3>4. (IdsOf(entries) \cap IdsOf(due))' = {}
        <4> SUFFICES ASSUME NEW a \in entries', NEW b \in due', a.id = b.id PROVE FALSE
          OBVIOUS
        <4>1. b \in due /\ b.id # e.id
          BY <2>4
        <4>2. a \in entries
          BY <2>4, <3>1, <4>1
        <4> QED
          BY <4>1, <4>2
      <3>5. ASSUME NEW f \in Elements'
            PROVE  /\ f.id < nextId'
                   /\ f.id \notin ran'
                   /\ asked'[f.id] = [at |-> f.at, cond |-> f.cond]
        <4>1. CASE f = g
          BY <2>1, <2>4, <3>1, <4>1
        <4>2. CASE f \in Elements
          BY <2>1, <2>4, <4>2
        <4> QED
          BY <3>2, <4>1, <4>2
      <3> QED
        BY <2>1, <2>4, <3>3, <3>4, <3>5
    <2>5. CASE due' = due \ {e} /\ entries' = entries /\ ran' = ran \cup {e.id}
      <3>2. \A f \in Elements' : f \in Elements /\ f.id # e.id
        BY <2>5
      <3> QED
        BY <2>1, <2>2, <2>5, <3>2
    <2> QED
      BY <2>3, <2>4, <2>5
  <1>9. CASE EndTick
    BY <1>9 DEF EndTick
  <1>10. CASE ActionReturns
    BY <1>10 DEF ActionReturns
  <1>11. CASE Advance
    BY <1>11 DEF Advance
  <1>12. CASE Flip
    BY <1>12 DEF Flip
  <1>13. CASE UNCHANGED vars
    BY <1>13 DEF vars
  <1> QED
    BY <1>1, <1>2, <1>3, <1>4, <1>5, <1>6, <1>7, <1>8, <1>9, <1>10, <1>11, <1>12, <1>13
    DEF Next, Calls, Tick

(* In-flight ids are the elements this tick still has to decide about. *)
LEMMA InFlightStep ==
  IInv /\ [Next]_vars => InFlightIsWhatTheTickWillVisit'
  <1> SUFFICES ASSUME TypeOK, PhaseInv, ElementsInv, CancelledInv,
                      InFlightIsWhatTheTickWillVisit, [Next]_vars
               PROVE  InFlightIsWhatTheTickWillVisit'
    BY DEF IInv
  <1> USE DEF InFlightIsWhatTheTickWillVisit, IdsOf
  <1>a. \A e, f \in due : e.id = f.id => e = f
    BY DEF ElementsInv, Elements
  <1>1. CASE Schedule
    BY <1>1 DEF Schedule, AddEntry
  <1>2. CASE Watch
    BY <1>2 DEF Watch, AddEntry
  <1>3. CASE Cancel
    <2> PICK i \in 1 .. nextId - 1 :
          /\ inFlight' = inFlight \ {i} /\ due' = due
          /\ cancelAllDuringTick' = cancelAllDuringTick
          /\ cancelledDuringTick' = IF inTick THEN cancelledDuringTick \cup {i}
                                              ELSE cancelledDuringTick
      BY <1>3 DEF Cancel
    <2>1. CASE inTick
      BY <2>1
    <2>2. CASE ~ inTick
      <3>1. due = {}
        BY <2>2 DEF PhaseInv
      <3> QED
        BY <2>2, <3>1
    <2> QED
      BY <2>1, <2>2
  <1>4. CASE CancelAll
    BY <1>4 DEF CancelAll, PhaseInv, CallerFree
  <1>5. CASE BeginTick
    BY <1>5 DEF BeginTick, PhaseInv
  <1>6. CASE NextTimed
    BY <1>6, <1>a, NextTimedStep
  <1>7. CASE CollectWatches
    BY <1>7 DEF CollectWatches, CancelledInv
  <1>8. CASE NextWatch
    BY <1>8, <1>a, NextWatchStep
  <1>9. CASE EndTick
    BY <1>9 DEF EndTick
  <1>10. CASE ActionReturns
    BY <1>10 DEF ActionReturns
  <1>11. CASE Advance
    BY <1>11 DEF Advance
  <1>12. CASE Flip
    BY <1>12 DEF Flip
  <1>13. CASE UNCHANGED vars
    BY <1>13 DEF vars
  <1> QED
    BY <1>1, <1>2, <1>3, <1>4, <1>5, <1>6, <1>7, <1>8, <1>9, <1>10, <1>11, <1>12, <1>13
    DEF Next, Calls, Tick

(* What was cancelled in this tick is gone from the vector for good. *)
LEMMA CancelledStep ==
  TypeOK /\ ElementsInv /\ CancelledInv /\ [Next]_vars => CancelledInv'
  <1> SUFFICES ASSUME TypeOK, ElementsInv, CancelledInv, [Next]_vars PROVE CancelledInv'
    OBVIOUS
  <1> USE DEF CancelledInv, IdsOf
  <1>a. nextId \in Nat
    BY DEF TypeOK
  <1>b. \A e \in entries : e.id \in 1 .. nextId - 1
    <2> SUFFICES ASSUME NEW e \in entries PROVE e.id \in 1 .. nextId - 1
      OBVIOUS
    <2>1. e.id \in Nat /\ e.id >= 1
      BY ElementFields DEF Elements
    <2>2. e.id < nextId
      BY DEF ElementsInv, Elements
    <2> QED
      BY <2>1, <2>2, <1>a
  <1>1. CASE Schedule
    BY <1>1, <1>a DEF Schedule, AddEntry
  <1>2. CASE Watch
    BY <1>2, <1>a DEF Watch, AddEntry
  <1>3. CASE Cancel
    BY <1>3 DEF Cancel
  <1>4. CASE CancelAll
    BY <1>4, <1>b DEF CancelAll
  <1>5. CASE BeginTick
    BY <1>5 DEF BeginTick
  <1>6. CASE NextTimed
    BY <1>6, NextTimedStep
  <1>7. CASE CollectWatches
    BY <1>7 DEF CollectWatches
  <1>8. CASE NextWatch
    <2> PICK e \in due :
          \/ entries' = entries
          \/ e.id \notin cancelledDuringTick /\ entries' = entries \cup {[e EXCEPT !.pos = pushes + 1]}
      BY <1>8, NextWatchStep
    <2>1. e \in Entry
      BY DEF TypeOK
    <2>2. [e EXCEPT !.pos = pushes + 1].id = e.id
      BY <2>1 DEF Entry
    <2>3. cancelledDuringTick' = cancelledDuringTick /\ nextId' = nextId
      BY <1>8, NextWatchStep
    <2>4. cancelledDuringTick \cap IdsOf(entries') = {}
      BY <2>2
    <2> QED
      BY <2>3, <2>4
  <1>9. CASE EndTick
    BY <1>9 DEF EndTick
  <1>10. CASE ActionReturns
    BY <1>10 DEF ActionReturns
  <1>11. CASE Advance
    BY <1>11 DEF Advance
  <1>12. CASE Flip
    BY <1>12 DEF Flip
  <1>13. CASE UNCHANGED vars
    BY <1>13 DEF vars
  <1> QED
    BY <1>1, <1>2, <1>3, <1>4, <1>5, <1>6, <1>7, <1>8, <1>9, <1>10, <1>11, <1>12, <1>13
    DEF Next, Calls, Tick

(* Timed elements keep the order they were asked for in. *)
LEMMA OrderStep ==
  TypeOK /\ PhaseInv /\ ElementsInv /\ OrderInv /\ [Next]_vars => OrderInv'
  <1> SUFFICES ASSUME TypeOK, PhaseInv, ElementsInv, OrderInv, [Next]_vars PROVE OrderInv'
    OBVIOUS
  <1> USE DEF OrderInv, IsWatch
  <1>a. pushes \in Nat /\ \A e \in Elements : e.pos \in Nat /\ e.id \in Nat /\ e.id < nextId
    BY ElementFields DEF TypeOK, ElementsInv
  <1> HIDE DEF TypeOK, ElementsInv
  <1>b. ASSUME NEW at, NEW cond, AddEntry(at, cond) PROVE OrderInv'
    <2> DEFINE new == [id |-> nextId, at |-> at, cond |-> cond, pos |-> pushes + 1]
    <2>1. Elements' = Elements \cup {new} /\ pushes' = pushes + 1 /\ nextId \in Nat
      BY <1>b DEF AddEntry, Elements, TypeOK
    <2> QED
      BY <2>1, <1>a
  <1>c. ASSUME Elements' \subseteq Elements, pushes' = pushes PROVE OrderInv'
    BY <1>c
  <1>1. CASE Schedule
    BY <1>1, <1>b DEF Schedule
  <1>2. CASE Watch
    BY <1>2, <1>b DEF Watch
  <1>3. CASE Cancel
    BY <1>3, <1>c DEF Cancel, Elements
  <1>4. CASE CancelAll
    BY <1>4, <1>c DEF CancelAll, Elements
  <1>5. CASE BeginTick
    BY <1>5, <1>c DEF BeginTick, Elements
  <1>6. CASE NextTimed
    BY <1>6, <1>c, NextTimedStep DEF Elements
  <1>7. CASE CollectWatches
    BY <1>7, <1>c DEF CollectWatches, Elements
  <1>8. CASE NextWatch
    <2> PICK e \in due :
          \/ due' \subseteq due /\ entries' = entries /\ pushes' = pushes
          \/ /\ due' = due \ {e} /\ pushes' = pushes + 1
             /\ entries' = entries \cup {[e EXCEPT !.pos = pushes + 1]}
      BY <1>8, NextWatchStep
    <2>1. CASE due' \subseteq due /\ entries' = entries /\ pushes' = pushes
      BY <2>1, <1>c DEF Elements
    <2>2. CASE /\ due' = due \ {e} /\ pushes' = pushes + 1
               /\ entries' = entries \cup {[e EXCEPT !.pos = pushes + 1]}
      <3> DEFINE g == [e EXCEPT !.pos = pushes + 1]
      <3>1. e \in Entry /\ e.cond # NoCond
        BY <1>8, NextWatchStep DEF TypeOK, PhaseInv
      <3>2. g.cond # NoCond /\ g.pos = pushes + 1
        BY <3>1 DEF Entry
      <3>3. \A f \in Elements' : f = g \/ f \in Elements
        BY <2>2 DEF Elements
      <3>4. ASSUME NEW f \in Elements' PROVE f.pos <= pushes'
        <4>1. pushes' = pushes + 1 /\ pushes \in Nat
          BY <2>2, <1>a
        <4>2. CASE f = g
          BY <3>2, <4>1, <4>2
        <4>3. CASE f \in Elements
          <5>1. f.pos <= pushes /\ f.pos \in Nat
            BY <1>a, <4>3
          <5> QED
            BY <4>1, <5>1
        <4> QED
          BY <3>3, <4>2, <4>3
      <3>5. \A f, h \in Elements' :
              ~ IsWatch(f) /\ ~ IsWatch(h) /\ f.id < h.id => f.pos < h.pos
        BY <3>2, <3>3
      <3> QED
        BY <3>4, <3>5
    <2> QED
      BY <2>1, <2>2
  <1>9. CASE EndTick
    BY <1>9, <1>c DEF EndTick, Elements
  <1>10. CASE ActionReturns
    BY <1>10, <1>c DEF ActionReturns, Elements
  <1>11. CASE Advance
    BY <1>11, <1>c DEF Advance, Elements
  <1>12. CASE Flip
    BY <1>12, <1>c DEF Flip, Elements
  <1>13. CASE UNCHANGED vars
    BY <1>13, <1>c DEF vars, Elements
  <1> QED
    BY <1>1, <1>2, <1>3, <1>4, <1>5, <1>6, <1>7, <1>8, <1>9, <1>10, <1>11, <1>12, <1>13
    DEF Next, Calls, Tick

(* The invariant the properties rest on. *)
LEMMA Invariance == Spec => []IInv
<1>1. Init => IInv
  <2> SUFFICES ASSUME Init, TypeOK PROVE IInv
    BY TypeInit
  <2> QED
    BY DEF Init, IInv, PhaseInv, ElementsInv, CancelledInv, OrderInv, Elements, IdsOf,
           InFlightIsWhatTheTickWillVisit
<1>2. IInv /\ [Next]_vars => IInv'
  BY TypeStep, PhaseStep, ElementsStep, CancelledStep, OrderStep, InFlightStep DEF IInv
<1> QED
  BY <1>1, <1>2, PTL DEF Spec

(* isPending() is exact: in flight is what the tick has yet to decide. *)
THEOREM InFlightIsExact == Spec => []InFlightIsWhatTheTickWillVisit
<1>1. IInv => InFlightIsWhatTheTickWillVisit
  BY DEF IInv
<1> QED
  BY <1>1, Invariance, PTL

(* A tick runs what was due when it began in time order, watches last. *)
THEOREM TimeOrderHolds == Spec => TickRunsInTimeOrder
<1>1. IInv /\ [Next]_vars => [TimeOrder]_vars
  <2> SUFFICES ASSUME IInv, Next, NEW i \in Ids, running' = i, running # i,
                      NEW j \in inFlight \ {i}
               PROVE  IF asked[i].cond = NoCond
                      THEN /\ asked[j].cond = NoCond
                           /\ \/ asked[i].at < asked[j].at
                              \/ asked[i].at = asked[j].at /\ i < j
                      ELSE asked[j].cond # NoCond
    BY DEF TimeOrder
  <2> USE DEF IInv
  <2>1. i \in Nat /\ i # 0
    BY BoundsAssumption DEF Ids
  <2>2. NextTimed \/ NextWatch
    BY <2>1 DEF Next, Calls, Tick, Schedule, Watch, AddEntry, Cancel, CancelAll, BeginTick,
             CollectWatches, EndTick, ActionReturns, Advance, Flip
  <2>3. PICK f \in due : f.id = j
    BY DEF InFlightIsWhatTheTickWillVisit, IdsOf
  <2>4. asked[j] = [at |-> f.at, cond |-> f.cond]
    BY <2>3 DEF ElementsInv, Elements
  <2>5. CASE NextTimed
    <3> PICK e \in due : e.id = i /\ \A g \in due \ {e} : TimedBefore(e, g)
      BY <2>5, NextTimedStep
    <3>1. e # f /\ TimedBefore(e, f)
      BY <2>3
    <3>2. asked[i] = [at |-> e.at, cond |-> e.cond]
      BY DEF ElementsInv, Elements
    <3>3. e.cond = NoCond /\ f.cond = NoCond
      BY <2>5, NextTimedStep DEF PhaseInv, IsWatch
    <3>4. e.id \in Nat /\ f.id \in Nat /\ e.pos \in Nat /\ f.pos \in Nat
      BY ElementFields DEF Elements
    <3>5. e.pos < f.pos => e.id < f.id
      <4>1. f.id < e.id => f.pos < e.pos
        BY <3>3 DEF OrderInv, Elements, IsWatch
      <4> QED
        BY <2>3, <3>4, <4>1
    <3> QED
      BY <2>3, <2>4, <3>1, <3>2, <3>3, <3>5 DEF TimedBefore
  <2>6. CASE NextWatch
    <3> PICK e \in due : e.id = i
      BY <2>6, NextWatchStep
    <3>1. asked[i] = [at |-> e.at, cond |-> e.cond]
      BY DEF ElementsInv, Elements
    <3>2. e.cond # NoCond /\ f.cond # NoCond
      BY <2>6, NextWatchStep DEF PhaseInv, IsWatch
    <3> QED
      BY <2>4, <3>1, <3>2
  <2> QED
    BY <2>2, <2>5, <2>6
<1> QED
  BY <1>1, Invariance, PTL DEF Spec, TickRunsInTimeOrder

(* A step that leaves what was asked, what ran and what is pending alone  *)
(* leaves the state of Timeline's requests alone.                         *)
LEMMA SameStatus ==
  ASSUME UNCHANGED <<nextId, ran>>,
         \A i \in 1 .. nextId - 1 : isPending(i)' <=> isPending(i)
  PROVE  statusBar' = statusBar
  BY DEF statusBar

(* A step of the scheduler is a step of Timeline, or none at all. *)
LEMMA StepRefines == IInv /\ IInv' /\ [Next]_vars => [TL!Next]_(TL!vars)
  <1> SUFFICES ASSUME IInv, IInv', [Next]_vars PROVE [TL!Next]_(TL!vars)
    OBVIOUS
  <1> USE DEF TL!vars, IdsOf
  <1>0. /\ nextId \in Nat /\ nextId >= 1 /\ DOMAIN asked = 1 .. nextId - 1
        /\ DOMAIN statusBar = 1 .. nextId - 1
    BY DEF IInv, TypeOK, statusBar
  <1>x. ASSUME UNCHANGED <<nextId, ran, cancelled, asked, now, holds, running>>,
               \A i \in 1 .. nextId - 1 : isPending(i)' <=> isPending(i)
        PROVE  UNCHANGED TL!vars
    BY <1>x, SameStatus
  <1>a. ASSUME NEW at \in 0 .. MaxTime, NEW cond \in Conds \cup {NoCond}, AddEntry(at, cond)
        PROVE  TL!Ask
    <2> DEFINE r == [at |-> at, cond |-> cond]
    <2>1. /\ nextId \in Ids \ DOMAIN asked /\ r \in TL!Request
          /\ DOMAIN asked \cup {nextId} = 1 .. nextId
      BY <1>a, <1>0 DEF AddEntry, Ids, TL!Request
    <2>2. asked' = [j \in DOMAIN asked \cup {nextId} |-> IF j = nextId THEN r ELSE asked[j]]
      BY <1>a, <2>1 DEF AddEntry
    <2>3. \A k : k = nextId => isPending(k)'
      <3> DEFINE new == [id |-> nextId, at |-> at, cond |-> cond, pos |-> pushes + 1]
      <3>1. new \in entries' /\ new.id = nextId
        BY <1>a DEF AddEntry
      <3>2. nextId \in IdsOf(entries')
        BY <3>1
      <3> QED
        BY <3>2 DEF isPending
    <2>4. \A j \in 1 .. nextId - 1 : isPending(j)' <=> isPending(j)
      BY <1>a, <1>0 DEF AddEntry, isPending
    <2>5. statusBar' = [j \in 1 .. nextId |->
                          IF j = nextId THEN "pending" ELSE statusBar[j]]
      <3>1. nextId' - 1 = nextId /\ ran' = ran
        BY <1>a, <1>0 DEF AddEntry
      <3>2. \A j \in 1 .. nextId : j # nextId => j \in 1 .. nextId - 1
        BY <1>0
      <3>3. statusBar' = [j \in 1 .. nextId |-> IF isPending(j)' THEN "pending"
                                       ELSE IF j \in ran THEN "ran" ELSE "withdrawn"]
        BY <3>1 DEF statusBar
      <3>4. ASSUME NEW j \in 1 .. nextId
            PROVE  statusBar'[j] = IF j = nextId THEN "pending" ELSE statusBar[j]
        <4>1. CASE j = nextId
          BY <2>3, <3>3, <4>1 DEF statusBar
        <4>2. CASE j # nextId
          <5>1. j \in 1 .. nextId - 1 /\ (isPending(j)' <=> isPending(j))
            BY <2>4, <3>2, <4>2
          <5>2. statusBar[j] = IF isPending(j) THEN "pending"
                               ELSE IF j \in ran THEN "ran" ELSE "withdrawn"
            BY <5>1 DEF statusBar
          <5> QED
            BY <3>3, <4>2, <5>1, <5>2
        <4> QED
          BY <4>1, <4>2
      <3> QED
        BY <3>3, <3>4
    <2>6. UNCHANGED <<now, holds, cancelled, running>>
      BY <1>a DEF AddEntry
    <2> QED
      BY <2>1, <2>2, <2>5, <2>6, Zenon DEF TL!Ask
  <1>b. ASSUME NEW S \in SUBSET (1 .. nextId - 1),
               UNCHANGED <<nextId, ran, asked, now, holds, running>>,
               cancelled' = cancelled \cup S,
               \A i \in S : isPending(i) /\ i \notin ran,
               \A i \in 1 .. nextId - 1 : isPending(i)' <=> (isPending(i) /\ i \notin S)
        PROVE  TL!Withdraw
    <2>1. \A i \in S : statusBar[i] = "pending"
      BY <1>b DEF statusBar
    <2>2. statusBar' = [j \in DOMAIN asked |-> IF j \in S THEN "withdrawn" ELSE statusBar[j]]
      BY <1>b, <1>0 DEF statusBar
    <2> QED
      BY <1>0, <1>b, <2>1, <2>2 DEF TL!Withdraw
  <1>c. ASSUME NEW i \in 1 .. nextId - 1, running = 0, isPending(i), TL!Ready(i),
               UNCHANGED <<nextId, asked, cancelled, now, holds>>,
               running' = i, ran' = ran \cup {i}, ~ isPending(i)',
               \A j \in 1 .. nextId - 1 : j # i => isPending(j)' <=> isPending(j)
        PROVE  TL!Run
    <2>1. statusBar[i] = "pending"
      BY <1>c DEF statusBar
    <2>2. statusBar' = [j \in DOMAIN asked |-> IF j = i THEN "ran" ELSE statusBar[j]]
      BY <1>c, <1>0 DEF statusBar
    <2> QED
      BY <1>0, <1>c, <2>1, <2>2 DEF TL!Run
  <1>d. \A e \in Elements : e.id \in 1 .. nextId - 1 /\ e.id \notin ran
    <2> SUFFICES ASSUME NEW e \in Elements PROVE e.id \in 1 .. nextId - 1 /\ e.id \notin ran
      OBVIOUS
    <2>1. e.id \in Nat /\ e.id >= 1
      BY ElementFields DEF IInv
    <2>2. e.id < nextId /\ e.id \notin ran
      BY DEF IInv, ElementsInv
    <2> QED
      BY <2>1, <2>2, <1>0
  <1>e. \A i \in inFlight : \E e \in due : e.id = i
    BY DEF IInv, InFlightIsWhatTheTickWillVisit
  <1>f. \A i : isPending(i) => i \notin ran
    BY <1>d, <1>e DEF isPending, Elements
  <1>1. CASE Schedule
    BY <1>1, <1>a DEF Schedule, TL!Next
  <1>2. CASE Watch
    <2> PICK c \in Conds : AddEntry(0, c)
      BY <1>2 DEF Watch
    <2>1. 0 \in 0 .. MaxTime
      BY BoundsAssumption
    <2> QED
      BY <2>1, <1>a DEF TL!Next
  <1>3. CASE Cancel
    <2> PICK i \in 1 .. nextId - 1 :
          /\ entries' = {e \in entries : e.id # i} /\ inFlight' = inFlight \ {i}
          /\ cancelled' = cancelled \cup {j \in {i} : isPending(j)}
      BY <1>3 DEF Cancel
    <2>1. UNCHANGED <<nextId, ran, asked, now, holds, running>>
      BY <1>3 DEF Cancel
    <2>2. \A j : isPending(j)' <=> (isPending(j) /\ j # i)
      BY DEF isPending
    <2>3. CASE isPending(i)
      <3>1. {i} \in SUBSET (1 .. nextId - 1) /\ i \notin ran /\ cancelled' = cancelled \cup {i}
        BY <1>f, <2>3
      <3>2. TL!Withdraw
        BY <1>b, <2>1, <2>2, <2>3, <3>1
      <3> QED
        BY <3>2 DEF TL!Next
    <2>4. CASE ~ isPending(i)
      <3>1. cancelled' = cancelled
        BY <2>4
      <3> QED
        BY <1>x, <2>1, <2>2, <2>4, <3>1
    <2> QED
      BY <2>3, <2>4
  <1>4. CASE CancelAll
    <2> DEFINE S == {i \in 1 .. nextId - 1 : isPending(i)}
    <2>1. /\ UNCHANGED <<nextId, ran, asked, now, holds, running>>
          /\ cancelled' = cancelled \cup S
      BY <1>4 DEF CancelAll
    <2>2. \A j : ~ isPending(j)'
      BY <1>4 DEF CancelAll, isPending
    <2>3. \A i \in 1 .. nextId - 1 : isPending(i)' <=> (isPending(i) /\ i \notin S)
      BY <2>2
    <2>4. S \in SUBSET (1 .. nextId - 1) /\ \A i \in S : isPending(i) /\ i \notin ran
      BY <1>f
    <2>5. TL!Withdraw
      BY <1>b, <2>1, <2>3, <2>4
    <2> QED
      BY <2>5 DEF TL!Next
  <1>5. CASE BeginTick
    BY <1>5, <1>x DEF BeginTick, isPending
  <1>6. CASE NextTimed
    <2> PICK e \in due :
          /\ inFlight' = inFlight \ {e.id}
          /\ \/ running' = running /\ ran' = ran
                /\ (cancelAllDuringTick \/ e.id \in cancelledDuringTick)
             \/ /\ ~ cancelAllDuringTick /\ e.id \notin cancelledDuringTick
                /\ due' = due \ {e} /\ running' = e.id /\ ran' = ran \cup {e.id}
      BY <1>6, NextTimedStep
    <2>1. /\ UNCHANGED <<nextId, asked, cancelled, now, holds, entries>> /\ running = 0
          /\ phase = "timed"
      BY <1>6, NextTimedStep
    <2>2. CASE ran' = ran /\ running' = running
      <3>1. inFlight' = inFlight
        BY <2>2, <1>d DEF IInv, InFlightIsWhatTheTickWillVisit, Elements
      <3> QED
        BY <1>x, <2>1, <2>2, <3>1 DEF isPending
    <2>3. CASE /\ ~ cancelAllDuringTick /\ e.id \notin cancelledDuringTick
               /\ due' = due \ {e} /\ running' = e.id /\ ran' = ran \cup {e.id}
      <3>1. isPending(e.id) /\ ~ isPending(e.id)'
        BY <2>1, <2>3 DEF isPending, IInv, InFlightIsWhatTheTickWillVisit, ElementsInv, Elements
      <3>2. TL!Ready(e.id)
        <4>1. asked[e.id] = [at |-> e.at, cond |-> e.cond]
          BY DEF IInv, ElementsInv, Elements
        <4>2. e.cond = NoCond /\ e.at <= now
          BY <2>1 DEF IInv, PhaseInv, IsWatch
        <4> QED
          BY <4>1, <4>2 DEF TL!Ready
      <3>3. e.id \in 1 .. nextId - 1
        BY <1>d DEF Elements
      <3>4. \A j \in 1 .. nextId - 1 : j # e.id => isPending(j)' <=> isPending(j)
        BY <2>1 DEF isPending
      <3>5. TL!Run
        BY <1>c, <2>1, <2>3, <3>1, <3>2, <3>3, <3>4
      <3> QED
        BY <3>5 DEF TL!Next
    <2> QED
      BY <2>2, <2>3
  <1>7. CASE CollectWatches
    <2>1. inFlight = {}
      BY <1>7 DEF CollectWatches, IInv, InFlightIsWhatTheTickWillVisit
    <2>2. \A j : isPending(j)' <=> isPending(j)
      BY <1>7, <2>1 DEF CollectWatches, isPending
    <2> QED
      BY <1>7, <2>2, <1>x DEF CollectWatches
  <1>8. CASE NextWatch
    <2>1. UNCHANGED <<nextId, asked, cancelled, now, holds>> /\ running = 0 /\ phase = "watches"
      BY <1>8, NextWatchStep
    <2> PICK e \in due :
          \/ running' = running /\ ran' = ran /\ entries' = entries /\ inFlight' = inFlight
          \/ /\ ~ cancelAllDuringTick /\ inFlight' = inFlight \ {e.id}
             /\ \/ e.id \in cancelledDuringTick /\ entries' = entries
                   /\ running' = running /\ ran' = ran
                \/ e.id \notin cancelledDuringTick /\ running' = running /\ ran' = ran
                   /\ entries' = entries \cup {[e EXCEPT !.pos = pushes + 1]}
                \/ e.id \notin cancelledDuringTick /\ e.cond \in holds /\ entries' = entries
                   /\ running' = e.id /\ ran' = ran \cup {e.id}
      BY <1>8, NextWatchStep
    <2>2. CASE running' = running /\ ran' = ran /\ entries' = entries /\ inFlight' = inFlight
      BY <1>x, <2>1, <2>2 DEF isPending
    <2>3. CASE e.id \in cancelledDuringTick /\ entries' = entries
               /\ running' = running /\ ran' = ran /\ inFlight' = inFlight \ {e.id}
      <3>1. inFlight' = inFlight
        BY <2>3 DEF IInv, InFlightIsWhatTheTickWillVisit
      <3> QED
        BY <1>x, <2>1, <2>3, <3>1 DEF isPending
    <2>4. CASE /\ ~ cancelAllDuringTick /\ inFlight' = inFlight \ {e.id}
               /\ e.id \notin cancelledDuringTick /\ running' = running /\ ran' = ran
               /\ entries' = entries \cup {[e EXCEPT !.pos = pushes + 1]}
      <3>1. e \in Entry /\ [e EXCEPT !.pos = pushes + 1].id = e.id
        BY DEF IInv, TypeOK, Entry
      <3>2. e.id \in inFlight
        BY <2>4 DEF IInv, InFlightIsWhatTheTickWillVisit
      <3>3. \A j : isPending(j)' <=> isPending(j)
        BY <2>4, <3>1, <3>2 DEF isPending
      <3> QED
        BY <1>x, <2>1, <2>4, <3>3
    <2>5. CASE /\ ~ cancelAllDuringTick /\ inFlight' = inFlight \ {e.id}
               /\ e.id \notin cancelledDuringTick /\ e.cond \in holds /\ entries' = entries
               /\ running' = e.id /\ ran' = ran \cup {e.id}
      <3>1. isPending(e.id) /\ ~ isPending(e.id)'
        <4>1. e.id \in inFlight
          BY <2>5 DEF IInv, InFlightIsWhatTheTickWillVisit
        <4>2. e.id \notin IdsOf(entries)
          BY DEF IInv, ElementsInv
        <4> QED
          BY <2>5, <4>1, <4>2 DEF isPending
      <3>2. TL!Ready(e.id)
        <4>1. asked[e.id] = [at |-> e.at, cond |-> e.cond]
          BY DEF IInv, ElementsInv, Elements
        <4>2. e.cond # NoCond
          BY <2>1 DEF IInv, PhaseInv, IsWatch
        <4> QED
          BY <2>5, <4>1, <4>2 DEF TL!Ready
      <3>3. e.id \in 1 .. nextId - 1
        BY <1>d DEF Elements
      <3>4. \A j \in 1 .. nextId - 1 : j # e.id => isPending(j)' <=> isPending(j)
        BY <2>5 DEF isPending
      <3>5. TL!Run
        BY <1>c, <2>1, <2>5, <3>1, <3>2, <3>3, <3>4
      <3> QED
        BY <3>5 DEF TL!Next
    <2> QED
      BY <2>2, <2>3, <2>4, <2>5
  <1>9. CASE EndTick
    <2>1. inFlight = {}
      BY <1>9 DEF EndTick, IInv, InFlightIsWhatTheTickWillVisit
    <2> QED
      BY <1>9, <2>1, <1>x DEF EndTick, isPending
  <1>10. CASE ActionReturns
    <2>1. statusBar' = statusBar
      BY <1>10, SameStatus DEF ActionReturns, isPending
    <2> QED
      BY <1>10, <2>1 DEF ActionReturns, TL!Next, TL!Return
  <1>11. CASE Advance
    <2>1. statusBar' = statusBar
      BY <1>11, SameStatus DEF Advance, isPending
    <2> QED
      BY <1>11, <2>1 DEF Advance, TL!Next, TL!Time
  <1>12. CASE Flip
    <2>1. statusBar' = statusBar
      BY <1>12, SameStatus DEF Flip, isPending
    <2>2. holds' \in SUBSET Conds
      BY DEF IInv, TypeOK
    <2> QED
      BY <1>12, <2>1, <2>2 DEF Flip, TL!Next, TL!Environment
  <1>13. CASE UNCHANGED vars
    BY <1>13, <1>x DEF vars, isPending
  <1> QED
    BY <1>1, <1>2, <1>3, <1>4, <1>5, <1>6, <1>7, <1>8, <1>9, <1>10, <1>11, <1>12, <1>13
    DEF Next, Calls, Tick

(* The scheduler implements its promise: whatever actions schedule,       *)
(* cancel or flip in the middle of a tick, every request is pending until *)
(* it is cancelled or run, once, when it is ready, one at a time.         *)
THEOREM Implementation == Spec => KeepsThePromise
<1>1. Init => TL!Init
  <2> SUFFICES ASSUME Init PROVE TL!Init
    OBVIOUS
  <2>1. 1 .. nextId - 1 = {}
    BY DEF Init
  <2>2. statusBar = << >>
    BY <2>1 DEF statusBar
  <2> QED
    BY <2>2 DEF Init, TL!Init
<1>2. IInv /\ IInv' /\ [Next]_vars => [TL!Next]_(TL!vars)
  BY StepRefines
<1> QED
  BY <1>1, <1>2, Invariance, PTL DEF Spec, KeepsThePromise, TL!Spec
=============================================================================
