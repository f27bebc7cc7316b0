------------------------------ MODULE Timeline ------------------------------
(***************************************************************************)
(* What the scheduler of the cue player promises to its callers, with none *)
(* of the machinery of a tick: an entry that was asked for stays pending   *)
(* until its callers cancel it or it is run; it is run at most once, when  *)
(* it is ready, never after it was cancelled, and one at a time.           *)
(*                                                                         *)
(* Scheduler.tla implements this module.  Callers of the scheduler         *)
(* (CueController.tla) are written against it.                             *)
(***************************************************************************)
EXTENDS Naturals

CONSTANTS
  Ids,        \* the ids requests are known by
  Times,      \* the times a caller can ask for
  Conds,      \* the conditions a caller can watch
  NoCond      \* "no condition": the entry is a timed one

VARIABLES
  now,        \* the clock, in scheduler time
  holds,      \* the conditions that are true
  asked,      \* id -> what was asked for (grows by one per request)
  status,     \* id -> "pending", "ran" or "withdrawn"
  cancelled,  \* the ids that calls of cancel and cancelAll found pending
  running     \* the id whose action is executing, 0 when none is

vars == <<now, holds, asked, status, cancelled, running>>

Request == [at : Times, cond : Conds \cup {NoCond}]

(* A timed entry is ready from its time on; a watch while its condition holds. *)
Ready(i) == IF asked[i].cond = NoCond THEN asked[i].at <= now
                                      ELSE asked[i].cond \in holds

Init ==
  /\ now = 0
  /\ holds \subseteq Conds
  /\ asked = << >>
  /\ status = << >>
  /\ cancelled = {}
  /\ running = 0

Time == /\ now' = now + 1
        /\ UNCHANGED <<holds, asked, status, cancelled, running>>

Environment == /\ holds' \in SUBSET Conds
               /\ UNCHANGED <<now, asked, status, cancelled, running>>

(* A new request gets an id that was never used. *)
Ask == \E i \in Ids \ DOMAIN asked : \E r \in Request :
  /\ asked' = [j \in DOMAIN asked \cup {i} |-> IF j = i THEN r ELSE asked[j]]
  /\ status' = [j \in DOMAIN asked \cup {i} |-> IF j = i THEN "pending" ELSE status[j]]
  /\ UNCHANGED <<now, holds, cancelled, running>>

(* A call cancels pending entries, all at once: there is no other way to   *)
(* lose one.                                                               *)
Withdraw == \E S \in SUBSET {i \in DOMAIN asked : status[i] = "pending"} :
  /\ status' = [j \in DOMAIN asked |-> IF j \in S THEN "withdrawn" ELSE status[j]]
  /\ cancelled' = cancelled \cup S
  /\ UNCHANGED <<now, holds, asked, running>>

Run == \E i \in DOMAIN asked :
  /\ running = 0
  /\ status[i] = "pending"
  /\ Ready(i)
  /\ status' = [j \in DOMAIN asked |-> IF j = i THEN "ran" ELSE status[j]]
  /\ running' = i
  /\ UNCHANGED <<now, holds, asked, cancelled>>

Return == /\ running # 0
          /\ running' = 0
          /\ UNCHANGED <<now, holds, asked, status, cancelled>>

Next == Time \/ Environment \/ Ask \/ Withdraw \/ Run \/ Return

Spec == Init /\ [][Next]_vars
=============================================================================
