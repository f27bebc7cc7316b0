------------------------------- MODULE StreamDeck -----------------------------
(***************************************************************************)
(* The plugin's end of the link: the connection (LiveMixConnection), what  *)
(* it knows of LiveMix (StateStore) and one queue of inputs per target     *)
(* (CommandQueue).  JavaScript runs one callback at a time and what its    *)
(* promises set off after it: a handler is a function on the record sd,    *)
(* and Becomes commits what it returns.                                    *)
(***************************************************************************)
EXTENDS ControlWire, SequencesExt

CONSTANTS
  MaxUnsent,   \* turns of one target that may wait (50 in the code)
  MaxKeys      \* keys of one target that may wait (2 in the code)
ASSUME QueueAssumption == MaxUnsent \in Nat /\ MaxKeys \in Nat \ {0}

VARIABLES
  sd,       \* conn      the connection in use, or 0; hello: the server answered it
            \* status    "disconnected", "connecting", "checking", "ready"
            \* snap      the snapshot; synced: it is trusted
            \* resync    the request for a full state that is out, or 0
            \* ping      the ping that is out, or 0; pinging: the timer of pings runs
            \* seq       the last id of this connection
            \* pend      requests that are out
            \* queue     [Targets -> [born, waiting, active, ack]]
            \* promise   [Inputs -> "new", "open", "done" or a code]
            \* answers   what the promises of requests will tell the queues
            \* out       what the running handler sent
            \* fault     the code the last connection was given up with, or "none"
  pressed,  \* history: [Inputs -> [inst, session, conn, n]], where it was made, and as
            \* the how-manieth
  conns,    \* connections opened
  pings     \* pings sent

plugin == <<sd, pressed, conns, pings>>

NoSnap   == [inst |-> 0, session |-> 0, rev |-> 0, has |-> {}, val |-> [t \in Targets |-> 0]]
NoAck    == [inst |-> 0, session |-> 0, rev |-> 0]
NoIntent == [parts |-> {}, kind |-> "none", retries |-> 0, retrying |-> FALSE, ripe |-> FALSE]
(* born: the first input of the queue, which tells one queue of a target   *)
(* from the next.                                                          *)
NoQueue  == [born |-> 0, waiting |-> << >>, active |-> NoIntent, ack |-> NoAck]
Idle     == [conn |-> 0, hello |-> FALSE, status |-> "disconnected", snap |-> NoSnap,
             synced |-> FALSE, resync |-> 0, ping |-> 0, pinging |-> FALSE, seq |-> 0,
             pend |-> {}, queue |-> [t \in Targets |-> NoQueue],
             promise |-> [i \in Inputs |-> "new"], answers |-> {}, out |-> << >>,
             fault |-> "none"]

DeckInit == /\ sd = Idle
            /\ pressed = [i \in Inputs |-> [inst |-> 0, session |-> 0, conn |-> 0, n |-> 0]]
            /\ conns = 0
            /\ pings = 0

HasSnap(s) == s.snap # NoSnap
Ready(s)   == s.status = "ready" /\ s.synced
Turn(x)    == x.kind = "turn"

-----------------------------------------------------------------------------
(* CommandQueue *)

Settle(s, parts, code) ==
  [s EXCEPT !.promise = [i \in Inputs |-> IF i \in parts /\ @[i] = "open" THEN code ELSE @[i]]]
PartsOf(intents) == UNION {intents[n].parts : n \in DOMAIN intents}

Turns(intents) == {n \in DOMAIN intents : Turn(intents[n])}

(* What a filter leaves of a queue.                                        *)
Those(intents, places) ==
  LET upTo[n \in 0 .. Len(intents)] ==
        IF n = 0 THEN << >>
        ELSE IF n \in places THEN Append(upTo[n - 1], intents[n]) ELSE upTo[n - 1]
  IN upTo[Len(intents)]

FailTarget(s, t, code) ==
  LET q == s.queue[t]
  IN [Settle(Settle(s, q.active.parts, code), PartsOf(q.waiting), "STALE_INPUT")
        EXCEPT !.queue[t] = NoQueue]

Clear(s, code) == FoldSet(LAMBDA t, r : FailTarget(r, t, code), s, Targets)

(* connection.issue *)
Issue(s, request, message) == [s EXCEPT !.seq = s.seq + 1,
                                        !.pend = @ \cup {request},
                                        !.out = Append(@, message)]

(* dispatch(): the value is computed now, from what is known now, and goes *)
(* with its revision.  The slips send it without, or forget that this was  *)
(* the retry.                                                              *)
AnyRevision(s, x) == 0
Revision(s, x) == IF Computed(x.kind) THEN s.snap.rev ELSE 0
StillRetrying(x) == x
Sent(x) == [x EXCEPT !.retrying = FALSE]

Dispatch(s, t) ==
  LET q == s.queue[t]
      x == q.active
      id == s.seq + 1
      value == IF Computed(x.kind) THEN Effect(x.kind, s.snap.val[t], Cardinality(x.parts)) ELSE 0
  IN IF t \notin s.snap.has THEN FailTarget(s, t, "NOT_FOUND")
     ELSE Issue([s EXCEPT !.queue[t].active = Sent(@)],
                [id |-> id, op |-> "edit", target |-> t, born |-> q.born, session |-> s.snap.session],
                EditCommand(id, s.snap.session, Revision(s, x),
                            IF Computed(x.kind) THEN "set" ELSE "toggle", t, value, x.parts))

(* advance(): an input is done once the snapshot has reached its ack; then *)
(* the next one goes.  The slips take the ack for the state, and the       *)
(* newest input for the next.                                              *)
AckIsEnough(s, q) == q.ack # NoAck
Reached(s, q) == /\ q.ack # NoAck
                 /\ s.snap.inst = q.ack.inst /\ s.snap.session = q.ack.session
                 /\ s.snap.rev >= q.ack.rev
Newest(waiting) == Len(waiting)
NextOf(waiting) == 1

StartNext(s, t) ==
  LET waiting == s.queue[t].waiting
      n == NextOf(waiting)
  IN IF waiting = << >> THEN [s EXCEPT !.queue[t] = NoQueue]
     ELSE IF ~ waiting[n].ripe THEN s
     ELSE Dispatch([s EXCEPT !.queue[t].active = waiting[n],
                             !.queue[t].waiting = RemoveAt(@, n)], t)

SendAgain(s, t) ==
  LET x == s.queue[t].active
  IN IF ~ x.retrying THEN s
     ELSE IF x.parts = {} THEN FailTarget(s, t, "INPUT_EXPIRED")
     ELSE Dispatch(s, t)

Advance(s, t) ==
  LET q == s.queue[t]
      finished == Settle([s EXCEPT !.queue[t].active = NoIntent, !.queue[t].ack = NoAck],
                         q.active.parts, "done")
  IN IF q = NoQueue \/ ~ HasSnap(s) \/ ~ Ready(s) THEN s
     ELSE IF q.active = NoIntent THEN StartNext(s, t)
     ELSE IF Reached(s, q) THEN StartNext(finished, t)
     ELSE SendAgain(s, t)

(* The queues hear of every change of the snapshot and of the status. *)
AdvanceAll(s) == FoldSet(LAMBDA t, r : Advance(r, t), s, Targets)

-----------------------------------------------------------------------------
(* StateStore and LiveMixConnection *)

SetStatus(s, status) ==
  IF s.status = status THEN s ELSE AdvanceAll([s EXCEPT !.status = status])

(* The boundary of a session: no input of the one before crosses it.  The  *)
(* slip lets them.                                                         *)
NoBoundary(s) == s
Boundary(s) == Clear(s, "STALE_INPUT")
ResetStore(s) == Boundary([s EXCEPT !.snap = NoSnap, !.synced = FALSE])

RequestState(s) ==
  LET id == s.seq + 1
      checking == SetStatus([s EXCEPT !.synced = FALSE, !.resync = id], "checking")
  IN IF s.conn = 0 \/ ~ s.hello \/ s.resync # 0 THEN s
     ELSE Issue(checking, [id |-> id, op |-> "requestState"], StateRequest(id))

Answer(p, code, ack) == [target |-> p.target, born |-> p.born, code |-> code, ack |-> ack]
Edits(requests) == {p \in requests : p.op = "edit"}

CancelPending(s, code) ==
  [s EXCEPT !.answers = @ \cup {Answer(p, code, NoAck) : p \in Edits(s.pend)}, !.pend = {}]

Close(s, code) ==
  [ResetStore(CancelPending(s, code))
     EXCEPT !.conn = 0, !.hello = FALSE, !.status = "disconnected",
            !.resync = 0, !.ping = 0, !.pinging = FALSE, !.fault = code]

(* accept() of a full state, and what the connection makes of it: while a  *)
(* request for the state is out only its answer makes the plugin ready.    *)
AcceptState(s, m) ==
  LET known == HasSnap(s)
      s1 == IF known /\ s.snap.session # m.session THEN CancelPending(s, "SESSION_CHANGED") ELSE s
      s2 == IF known /\ (s.snap.inst # m.inst \/ s.snap.session # m.session) THEN Boundary(s1) ELSE s1
      s3 == AdvanceAll([s2 EXCEPT !.synced = TRUE,
                          !.snap = [inst |-> m.inst, session |-> m.session, rev |-> m.rev,
                                    has |-> m.has, val |-> m.val]])
  IN IF known /\ s.snap.inst = m.inst /\ m.rev < s.snap.rev
     THEN RequestState([s1 EXCEPT !.synced = FALSE])
     ELSE IF s.resync # 0 /\ m.requestId # s.resync THEN s3
     ELSE SetStatus([s3 EXCEPT !.resync = 0, !.pinging = TRUE], "ready")

(* accept() of what changed since the revision that is known.              *)
Continues(s, m) == /\ s.synced /\ s.snap.session = m.session
                   /\ s.snap.rev = m.base /\ m.rev > m.base
                   /\ DOMAIN m.changes \subseteq s.snap.has

AcceptDelta(s, m) ==
  IF ~ Continues(s, m) THEN RequestState([s EXCEPT !.synced = FALSE])
  ELSE AdvanceAll([s EXCEPT !.snap.rev = m.rev,
                            !.snap.val = [t \in Targets |-> IF t \in DOMAIN m.changes
                                                            THEN m.changes[t] ELSE @[t]]])

AcceptPong(s, m) ==
  LET s1 == [s EXCEPT !.ping = 0]
  IN IF m.id # s.ping THEN Close(s, "UNEXPECTED_PONG")
     ELSE IF m.session # s.snap.session \/ m.rev > s.snap.rev THEN RequestState(s1)
     ELSE s1

(* An answer to request p; the promise of the request runs later. *)
AcceptAck(s, p, m) ==
  IF p.op = "requestState" THEN s
  ELSE IF m.session # p.session THEN Close(s, "INVALID_ACK")
  ELSE [s EXCEPT !.answers = @ \cup {Answer(p, "ack",
                   [inst |-> s.snap.inst, session |-> m.session, rev |-> m.rev])}]

AcceptError(s, p, m) ==
  LET told == [s EXCEPT !.answers = @ \cup {Answer(e, m.code, NoAck) : e \in Edits({p})}]
  IN IF m.code = "CONTROL_DISABLED" THEN Close(told, m.code)
     ELSE IF m.code = "SESSION_CHANGED"
       THEN RequestState(ResetStore(CancelPending(told, m.code)))
     ELSE IF m.code \in {"REVISION_CONFLICT", "NOT_FOUND"} THEN RequestState(told)
     ELSE IF p.op = "requestState" THEN Close(told, m.code)
     ELSE told

AcceptAnswer(s, m) ==
  LET asked == {p \in s.pend : p.id = m.id}
      p  == CHOOSE p \in asked : TRUE
      s1 == [s EXCEPT !.pend = @ \ asked]
  IN IF asked = {} THEN Close(s, "UNEXPECTED_RESPONSE")
     ELSE IF m.type = "ack" THEN AcceptAck(s1, p, m)
     ELSE AcceptError(s1, p, m)

(* receive() *)
Handle(s, m) ==
  IF m.type = "eof" THEN Close(s, "EOF")
  ELSE IF ~ s.hello THEN IF m.type = "helloAck" THEN SetStatus([s EXCEPT !.hello = TRUE], "checking")
                                                ELSE Close(s, "HANDSHAKE_FAILED")
  ELSE IF m.type = "helloAck" THEN Close(s, "INSTANCE_CHANGED")
  ELSE IF ~ HasSnap(s) /\ m.type \notin {"serverStatus", "state", "error"} THEN Close(s, "STATE_REQUIRED")
  ELSE CASE m.type = "serverStatus"     -> Close(s, "SERVER_STOPPING")
         [] m.type = "state"            -> AcceptState(s, m)
         [] m.type = "stateDelta"       -> AcceptDelta(s, m)
         [] m.type = "pong"             -> AcceptPong(s, m)
         [] m.type \in {"ack", "error"} -> AcceptAnswer(s, m)

-----------------------------------------------------------------------------
(* What a callback returns becomes the state; what it sent is on the wire. *)
Becomes(s) ==
  /\ sd' = [s EXCEPT !.out = << >>]
  /\ up' = IF sd.conn = 0 THEN up ELSE [up EXCEPT ![sd.conn] = @ \o s.out]
  /\ link' = IF sd.conn # 0 /\ s.conn = 0 THEN [link EXCEPT ![sd.conn] = "gone"] ELSE link

Unread(s, rest) == down' = IF s.conn = 0 THEN [down EXCEPT ![sd.conn] = << >>]
                                         ELSE [down EXCEPT ![sd.conn] = rest]

(* Several lines may come in one chunk: they are all handled before the    *)
(* promises run that the first of them settled.                            *)
ReceiveMessage ==
  /\ sd.conn # 0 /\ down[sd.conn] # << >>
  /\ LET s == Handle(sd, Head(down[sd.conn]))
     IN Becomes(s) /\ Unread(s, Tail(down[sd.conn]))
  /\ UNCHANGED <<pressed, conns, pings>>

(* The promise of a request tells the queue that made it, if it is there   *)
(* still: then() and catch() of dispatch().                                *)
SameQueue(q, a) == q # NoQueue /\ q.born = a.born

Answered(s, a) ==
  LET t == a.target
      q == s.queue[t]
  IN IF ~ SameQueue(q, a) THEN s
     ELSE IF a.code = "ack" THEN Advance([s EXCEPT !.queue[t].ack = a.ack], t)
     ELSE IF a.code = "REVISION_CONFLICT" /\ q.active.retries > 0 /\ q.active.parts # {}
       THEN Advance([s EXCEPT !.queue[t].active.retries = @ - 1,
                              !.queue[t].active.retrying = TRUE], t)
     ELSE FailTarget(s, t, a.code)

TakeAnswer ==
  /\ \E a \in sd.answers : Becomes(Answered([sd EXCEPT !.answers = @ \ {a}], a))
  /\ UNCHANGED <<pressed, conns, pings, down>>

-----------------------------------------------------------------------------
(* The user: enqueue() and rotate(). *)

Intent(i) == [parts |-> {i}, kind |-> Input[i].kind, retries |-> Input[i].retries,
              retrying |-> FALSE, ripe |-> Input[i].kind # "turn"]

(* A full queue keeps the newest computed keys.  The slip tells nobody.    *)
DropSilently(s, t, n) == [s EXCEPT !.queue[t].waiting = RemoveAt(@, n)]
Displace(s, t, n) == Settle([s EXCEPT !.queue[t].waiting = RemoveAt(@, n)],
                            s.queue[t].waiting[n].parts, "INPUT_BUSY")

(* target() makes the queue, push() puts the input in it. *)
Push(s, t, i) ==
  Advance([s EXCEPT !.queue[t].born = IF s.queue[t] = NoQueue THEN i ELSE @,
                    !.queue[t].waiting = Append(@, Intent(i))], t)

PressKey(s, i) ==
  LET t == Input[i].target
      waiting == s.queue[t].waiting
      keys == DOMAIN waiting \ Turns(waiting)
      first == CHOOSE n \in keys : \A k \in keys : n <= k
  IN IF Cardinality(keys) < MaxKeys THEN Push(s, t, i)
     ELSE IF ~ Computed(Input[i].kind) THEN Settle(s, {i}, "INPUT_BUSY")
     ELSE Push(Displace(s, t, first), t, i)

(* A dial: too much of it is refused with what waits (tooMuch), and a turn *)
(* soon after the last one goes with it.                                   *)
Waiting(s, i) == LET waiting == s.queue[Input[i].target].waiting
                 IN UNION {waiting[n].parts : n \in Turns(waiting)}

RefuseTurns(s, i) ==
  LET t == Input[i].target
      waiting == s.queue[t].waiting
      keys == Those(waiting, DOMAIN waiting \ Turns(waiting))
  IN Settle(Advance(Settle([s EXCEPT !.queue[t].waiting = keys], Waiting(s, i), "INPUT_BUSY"), t),
            {i}, "INPUT_BUSY")

TurnDial(s, i) ==
  LET t == Input[i].target
      waiting == s.queue[t].waiting
      last == Len(waiting)
  IN IF last > 0 /\ Turn(waiting[last]) /\ ~ waiting[last].ripe
     THEN Advance([s EXCEPT !.queue[t].waiting[last].parts = @ \cup {i}], t)
     ELSE Push(s, t, i)

(* Inputs that are alike are made in the order they are listed: any other  *)
(* order would be the same behaviour under other names.                    *)
FirstOfItsKind(i) == \A j \in 1 .. i - 1 : Input[j] = Input[i] => sd.promise[j] # "new"

Press(i) ==
  LET s == [sd EXCEPT !.promise[i] = "open"]
      turn == Input[i].kind = "turn"
      late == Waiting(sd, i) # {}
      tooMuch == Cardinality(Waiting(sd, i)) + 1 > MaxUnsent
  IN /\ sd.answers = {} /\ sd.promise[i] = "new" /\ FirstOfItsKind(i)
     /\ pressed' = [pressed EXCEPT ![i] =
           [inst |-> sd.snap.inst, session |-> sd.snap.session, conn |-> sd.conn,
            n |-> 1 + Cardinality({j \in Inputs : sd.promise[j] # "new"})]]
     /\ \/ ~ Ready(sd) /\ Becomes(Settle(s, {i}, "DISCONNECTED"))
        \/ Ready(sd) /\ ~ turn /\ Becomes(PressKey(s, i))
        \/ Ready(sd) /\ turn /\ (tooMuch \/ late) /\ Becomes(RefuseTurns(s, i))
        \/ Ready(sd) /\ turn /\ ~ tooMuch /\ Becomes(TurnDial(s, i))
     /\ UNCHANGED <<conns, pings, down>>

(* A key leaves the deck: its inputs are given up, sent or not.  The slip  *)
(* keeps those that wait.                                                  *)
Kept(intents, gone) == intents
Without(intents, gone) ==
  LET left == [n \in DOMAIN intents |-> [intents[n] EXCEPT !.parts = @ \ gone]]
  IN Those(left, {n \in DOMAIN left : left[n].parts # {}})

CancelOwner(o) ==
  LET gone == {i \in Inputs : Input[i].owner = o /\ sd.promise[i] = "open"}
      cancel(t, s) == Advance([s EXCEPT !.queue[t].waiting = Without(@, gone),
                                        !.queue[t].active.parts = @ \ gone], t)
  IN /\ sd.answers = {} /\ gone # {}
     /\ Becomes(FoldSet(cancel, Settle(sd, gone, "STALE_INPUT"), Targets))
     /\ UNCHANGED <<pressed, conns, pings, down>>

-----------------------------------------------------------------------------
(* The timers; they run when no promise is left to run. *)

Timer(s) == sd.answers = {} /\ Becomes(s) /\ UNCHANGED <<pressed, conns, pings, down>>

WaitingExpires(t) ==
  \E n \in DOMAIN sd.queue[t].waiting :
     Timer(Advance(Settle([sd EXCEPT !.queue[t].waiting = RemoveAt(@, n)],
                          sd.queue[t].waiting[n].parts, "INPUT_EXPIRED"), t))

(* The time from which a dial's turns may be sent. *)
Wake(t) ==
  \E n \in DOMAIN sd.queue[t].waiting :
     /\ ~ sd.queue[t].waiting[n].ripe
     /\ Timer(Advance([sd EXCEPT !.queue[t].waiting[n].ripe = TRUE], t))

RetryExpires(t) ==
  sd.queue[t].active.retrying /\ Timer(FailTarget(sd, t, "INPUT_EXPIRED"))

StateTimeout(t) ==
  /\ sd.queue[t].ack # NoAck
  /\ Timer(RequestState(FailTarget(sd, t, "STATE_TIMEOUT")))

SendPing ==
  /\ sd.answers = {} /\ sd.pinging /\ sd.ping = 0 /\ pings < MaxPings
  /\ pings' = pings + 1
  /\ Becomes([sd EXCEPT !.seq = @ + 1, !.ping = sd.seq + 1, !.out = <<Ping(sd.seq + 1)>>])
  /\ UNCHANGED <<pressed, conns, down>>

GiveUp(code) ==
  /\ sd.answers = {} /\ sd.conn # 0
  /\ Becomes(Close(sd, code)) /\ Unread(Idle, << >>)
  /\ UNCHANGED <<pressed, conns, pings>>

(* The connection is lost, or the lease of its discovery file runs out.    *)
Lose == GiveUp("EOF")
(* Nothing comes: no hello, no answer, no state, no pong.                  *)
TimesOut == /\ ~ sd.hello \/ ~ HasSnap(sd) \/ sd.pend # {} \/ sd.resync # 0 \/ sd.ping # 0
            /\ GiveUp("REQUEST_TIMEOUT")

(* connect(); the promises that are left from the last connection stay.    *)
Connect ==
  /\ sd.conn = 0 /\ sd.answers = {} /\ conns < MaxConns
  /\ conns' = conns + 1
  /\ sd' = [SetStatus(sd, "connecting") EXCEPT !.conn = conns + 1, !.seq = 1, !.fault = "none"]
  /\ up' = [up EXCEPT ![conns + 1] = <<Hello>>]
  /\ link' = [link EXCEPT ![conns + 1] = "up"]
  /\ UNCHANGED <<pressed, pings, down>>

(* The slip has no timer for the state that follows an ack. *)
NoStateTimer(t) == WaitingExpires(t) \/ RetryExpires(t)
Expires(t) == WaitingExpires(t) \/ RetryExpires(t) \/ StateTimeout(t)

UserActs == (\E i \in Inputs : Press(i)) \/ \E o \in {Input[i].owner : i \in Inputs} : CancelOwner(o)
DeckNext == \/ UserActs \/ ReceiveMessage \/ TakeAnswer \/ SendPing \/ Lose \/ TimesOut \/ Connect
            \/ \E t \in Targets : Expires(t) \/ Wake(t)
=============================================================================
