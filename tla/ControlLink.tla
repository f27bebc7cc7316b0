------------------------------ MODULE ControlLink -----------------------------
(***************************************************************************)
(* LiveMix and the Stream Deck plugin, and what the user of both may rely  *)
(* on.                                                                     *)
(***************************************************************************)
EXTENDS ControlServer, StreamDeck

vars == <<wire, server, plugin>>

Init == WireInit /\ ServerInit /\ DeckInit
Server == ServerNext /\ UNCHANGED plugin
Deck   == DeckNext /\ UNCHANGED server
Next   == Server \/ Deck
Spec   == Init /\ [][Next]_vars

(* The timers and the microtasks of the plugin. *)
DeckTimers ==
  /\ WF_vars(TakeAnswer /\ UNCHANGED server)
  /\ WF_vars(TimesOut /\ UNCHANGED server)
  /\ \A t \in Targets : WF_vars(Expires(t) /\ UNCHANGED server)
DeckSpec == Spec /\ DeckTimers

(* What arrives is read, what is due is sent, on both sides.               *)
LinkWorks ==
  /\ WF_vars(ReceiveMessage /\ UNCHANGED server)
  /\ WF_vars(Connect /\ UNCHANGED server)
  /\ \A c \in Conns : /\ WF_vars(Receive(c) /\ UNCHANGED plugin)
                      /\ WF_vars(Drain(c) /\ UNCHANGED plugin)
                      /\ WF_vars(Publish(c) /\ UNCHANGED plugin)

-----------------------------------------------------------------------------
(* The values of the state: messages are as their constructors make them.  *)
Codes == {"INPUT_BUSY", "INPUT_EXPIRED", "STALE_INPUT", "DISCONNECTED", "NOT_FOUND", "STATE_TIMEOUT",
          "RATE_LIMITED", "COMMAND_EXPIRED", "SESSION_CHANGED", "REVISION_CONFLICT", "CONTROL_DISABLED"}
Values == [Targets -> 0 .. Top]
Intents == [parts : SUBSET Inputs, kind : Kinds \cup {"none"}, retries : Nat,
            retrying : BOOLEAN, ripe : BOOLEAN]

TypeOK ==
  /\ doc.session \in Nat /\ doc.has \subseteq Targets /\ doc.val \in Values
  /\ inst \in 1 .. MaxInst /\ edits \in 0 .. MaxEdits /\ scheduled \in BOOLEAN
  /\ cur.structRev \in 1 .. cur.rev /\ cur.val \in Values
  /\ \A c \in Conns : client[c].state \in {"open", "closed"} /\ link[c] \in {"none", "up", "gone"}
  /\ conns \in 0 .. MaxConns /\ pings \in 0 .. MaxPings /\ sd.conn \in {0, conns}
  /\ sd.status \in {"disconnected", "connecting", "checking", "ready"}
  /\ sd.snap.val \in Values /\ sd.snap.has \subseteq Targets
  /\ \A p \in sd.pend : p.id \in 1 .. sd.seq
  /\ sd.resync \in 0 .. sd.seq /\ sd.ping \in 0 .. sd.seq /\ sd.out = << >>
  /\ sd.promise \in [Inputs -> {"new", "open", "done"} \cup Codes]
  /\ \A t \in Targets : LET q == sd.queue[t]
                        IN /\ q.active \in Intents
                           /\ \A n \in DOMAIN q.waiting : q.waiting[n] \in Intents

(* What the plugin holds under a revision of the running server is what    *)
(* the server holds under it.                                              *)
CacheIsCoherent ==
  sd.snap.inst = inst /\ sd.snap.rev = cur.rev =>
     sd.snap.session = cur.session /\ sd.snap.has = cur.has /\ sd.snap.val = cur.val

(* An input is applied once at most; one reported done was applied, and    *)
(* one refused for a reason that says it was not, was not.                 *)
NotApplied == {"new", "INPUT_BUSY", "INPUT_EXPIRED", "DISCONNECTED", "NOT_FOUND",
               "RATE_LIMITED", "COMMAND_EXPIRED", "REVISION_CONFLICT"}
TellsTheTruth ==
  \A i \in Inputs : /\ Len(applied[i]) <= 1
                    /\ sd.promise[i] \in {"done", "STATE_TIMEOUT"} => Len(applied[i]) = 1
                    /\ sd.promise[i] \in NotApplied => Len(applied[i]) = 0

(* An input made on one session or one running LiveMix is not applied to   *)
(* the next.                                                               *)
AppliedWhereItWasMade ==
  \A i \in Inputs : \A n \in DOMAIN applied[i] :
     applied[i][n].inst = pressed[i].inst /\ applied[i][n].session = pressed[i].session

(* Inputs on one target are applied in the order they were made, as long   *)
(* as the connection is the same.                                          *)
Before(a, b) == a.inst < b.inst \/ (a.inst = b.inst /\ a.rev <= b.rev)
AppliedInOrder ==
  \A i, j \in Inputs :
     Input[i].target = Input[j].target /\ pressed[i].conn = pressed[j].conn
     /\ pressed[i].n < pressed[j].n =>
        \A n \in DOMAIN applied[i], m \in DOMAIN applied[j] : Before(applied[i][n], applied[j][m])

(* An input that is neither done nor refused is in exactly one place of    *)
(* one queue: none is forgotten, none is there twice.                      *)
Held(i) == LET q == sd.queue[Input[i].target]
           IN (IF i \in q.active.parts THEN 1 ELSE 0)
              + Cardinality({n \in DOMAIN q.waiting : i \in q.waiting[n].parts})
NoneIsForgotten == \A i \in Inputs : Held(i) = IF sd.promise[i] = "open" THEN 1 ELSE 0

(* A computed input changes the value LiveMix has, not one the plugin only *)
(* remembers: a turn adds to it, a flip inverts it.                        *)
EditsTheCurrentValue ==
  [][LET now == {i \in Inputs : applied'[i] # applied[i]}
     IN \A i \in now : doc'.val[Input[i].target] =
                         Effect(Input[i].kind, doc.val[Input[i].target], Cardinality(now))]_vars

(* An input is reported done when its effect is in what the deck shows.    *)
DoneIsShown ==
  [][\A i \in Inputs : sd'.promise[i] = "done" /\ sd.promise[i] # "done" =>
        Ready(sd') /\ \A n \in DOMAIN applied[i] : sd'.snap.inst = applied[i][n].inst
                                                   /\ sd'.snap.rev >= applied[i][n].rev]_vars

(* The deck computes from what LiveMix has, and reports what LiveMix shows. *)
DeckAndMixerAgree == EditsTheCurrentValue /\ DoneIsShown

(* Every input is answered, whatever LiveMix and the link do: again and    *)
(* again none is open, and an input opens once.                            *)
EveryInputSettles == []<>(\A i \in Inputs : sd.promise[i] # "open")

(* While the link works the deck ends up ready and showing what LiveMix    *)
(* has.                                                                    *)
UpToDate == /\ Ready(sd) /\ sd.snap.inst = inst /\ sd.snap.session = doc.session
            /\ sd.snap.has = doc.has /\ sd.snap.val = doc.val
CatchesUp == LinkWorks => <>[](UpToDate \/ (sd.conn = 0 /\ conns = MaxConns))

-----------------------------------------------------------------------------
(* A change of session cancels what waits and is out, and is answered by   *)
(* asking for the state anew, on the connection there is: it is no error   *)
(* of the protocol.                                                        *)
SessionChangeKeepsTheConnection == sd.fault \notin {"STATE_REQUIRED", "UNEXPECTED_RESPONSE"}
=============================================================================
