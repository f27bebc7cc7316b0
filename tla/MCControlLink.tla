---------------------------- MODULE MCControlLink ----------------------------
(* Instances of ControlLink for TLC. *)
EXTENDS ControlLink

In(owner, kind, retries) ==
  [target |-> "mic", owner |-> owner, kind |-> kind, retries |-> retries]

(* A dial that is turned twice, a key LiveMix inverts, one the plugin      *)
(* inverts: more than a queue takes at once.                               *)
Deck4 == <<In("dial", "turn", 1), In("dial", "turn", 1), In("key", "toggle", 0), In("key", "flip", 0)>>
OneKey == <<In("key", "flip", 0)>>

-----------------------------------------------------------------------------
(* The instance as a whole is too large: a scenario starts where a part of *)
(* its bounds is used up.  Inputs were made before there was a connection, *)
(* a connection was lost at once, LiveMix was restarted, the user opened   *)
(* another session, pings were sent.                                       *)
From(inputs, conns0, inst0, edits0, pings0) ==
  [inputs |-> inputs, conns |-> conns0, inst |-> inst0, edits |-> edits0, pings |-> pings0]
Queueing == {From({1}, 0, 1, 0, 1), From({1, 2}, 1, 2, 0, 1),
             From({1, 3, 4}, 1, 2, 1, 1), From({4}, 1, 2, 0, 0)}
Settling == {From({1}, 0, 1, 0, 1), From({3, 4}, 1, 2, 1, 1)}

StartsIn(s) ==
  /\ conns = s.conns /\ inst = s.inst /\ edits = s.edits /\ pings = s.pings
  /\ doc = [session |-> 1 + s.edits, has |-> Targets, val |-> [t \in Targets |-> 0]]
  /\ cur = Fresh(doc) /\ scheduled = FALSE
  /\ applied = [i \in Inputs |-> << >>]
  /\ pressed = [i \in Inputs |-> [inst |-> 0, session |-> 0, conn |-> 0,
                                 n |-> IF i \in s.inputs THEN 0 ELSE 1]]
  /\ sd = [Idle EXCEPT !.promise = [i \in Inputs |-> IF i \in s.inputs THEN "new" ELSE "DISCONNECTED"],
                       !.fault = IF s.conns = 0 THEN "none" ELSE "EOF"]
  /\ up = [c \in Conns |-> << >>] /\ down = up
  /\ link = [c \in Conns |-> IF c <= s.conns THEN "gone" ELSE "none"]
  /\ client = [c \in Conns |-> IF c <= s.conns THEN [NewClient EXCEPT !.state = "closed"] ELSE NewClient]

QueueSpec  == (\E s \in Queueing : StartsIn(s)) /\ [][Next]_vars
SettleSpec == (\E s \in Settling : StartsIn(s)) /\ [][Next]_vars /\ DeckTimers
=============================================================================
