----------------------------- MODULE ControlServer ----------------------------
(***************************************************************************)
(* LiveMix' control server.  One worker thread per connection reads lines  *)
(* and queues work (Receive); the message thread drains the queues, edits  *)
(* the document and publishes what changed, and the user edits the same    *)
(* document from the window.                                               *)
(***************************************************************************)
EXTENDS ControlWire

VARIABLES
  doc,        \* the document: [session, has, val]; has: the targets there are
  inst,       \* the instance id of the running server
  cur,        \* ControlState.current: doc as last captured, under a revision
  client,     \* [Conns -> [state, authenticated, pending, published]]
  scheduled,  \* a drain is posted to the message thread
  edits,      \* changes the user made
  applied     \* history: [Inputs -> where and in which order they were applied:
              \* a sequence of [inst, session, rev]]

server == <<doc, inst, cur, client, scheduled, edits, applied>>

Nothing  == [rev |-> 0, structRev |-> 0, session |-> 0, has |-> {}, val |-> [t \in Targets |-> 0]]
Fresh(d) == [rev |-> 1, structRev |-> 1, session |-> d.session, has |-> d.has, val |-> d.val]
NewClient == [state |-> "open", authenticated |-> FALSE, pending |-> << >>, published |-> Nothing]

ServerInit ==
  /\ doc = [session |-> 1, has |-> Targets, val |-> [t \in Targets |-> 0]]
  /\ inst = 1
  /\ cur = Fresh(doc)
  /\ client = [c \in Conns |-> NewClient]
  /\ scheduled = FALSE
  /\ edits = 0
  /\ applied = [i \in Inputs |-> << >>]

(* ControlState::update(capture()): a revision for every observed change.  *)
(* The slip does not look at the document again.                           *)
NotCaptured(k, d) == k
Captured(k, d) ==
  IF k.session = d.session /\ k.has = d.has /\ k.val = d.val THEN k
  ELSE [rev |-> k.rev + 1,
        structRev |-> IF k.session # d.session \/ k.has # d.has THEN k.rev + 1 ELSE k.structRev,
        session |-> d.session, has |-> d.has, val |-> d.val]

-----------------------------------------------------------------------------
(* The user works in the window of LiveMix. *)
UserEdits ==
  /\ edits < MaxEdits
  /\ edits' = edits + 1
  /\ \/ \E t \in doc.has, v \in 0 .. Top : v # doc.val[t] /\ doc' = [doc EXCEPT !.val[t] = v]
     \/ \E t \in Targets : doc' = [doc EXCEPT !.has = IF t \in @ THEN @ \ {t} ELSE @ \cup {t},
                                              !.val[t] = 0]
     \/ doc' = [session |-> doc.session + 1, has |-> Targets, val |-> [t \in Targets |-> 0]]
  /\ UNCHANGED <<inst, cur, client, scheduled, applied, wire>>

(* changed(): the notification of the document, once its callbacks are over. *)
Capture ==
  /\ cur' = Captured(cur, doc) /\ cur' # cur
  /\ UNCHANGED <<doc, inst, client, scheduled, edits, applied, wire>>

-----------------------------------------------------------------------------
(* The worker of a connection. *)

Told(c, messages) == IF link[c] = "up" THEN [down EXCEPT ![c] = @ \o messages] ELSE down

(* Ingress::receive: within its rates a request waits for the message      *)
(* thread; beyond them, or beyond the queue, it is refused at once, and a  *)
(* refused hello is the end of the connection.                             *)
Reads(c) ==
  /\ client[c].state = "open" /\ up[c] # << >>
  /\ up' = [up EXCEPT ![c] = Tail(@)]
  /\ UNCHANGED <<doc, inst, cur, edits, applied, link>>

Receive(c) ==
  /\ Reads(c)
  /\ client' = [client EXCEPT ![c].pending = Append(@, Head(up[c]))]
  /\ scheduled' = TRUE
  /\ UNCHANGED down

RefuseAtOnce(c) ==
  /\ Reads(c)
  /\ IF Head(up[c]).type = "hello"
     THEN /\ down' = Told(c, <<Error(0, "RATE_LIMITED"), EndOfStream>>)
          /\ client' = [client EXCEPT ![c].state = "closed"]
     ELSE /\ down' = Told(c, <<Error(Head(up[c]).id, "RATE_LIMITED")>>)
          /\ UNCHANGED client
  /\ UNCHANGED scheduled

(* Ingress::remove: the plugin has closed; what it sent may go unread.     *)
RemoveClient(c) ==
  /\ link[c] = "gone" /\ client[c].state = "open"
  /\ client' = [client EXCEPT ![c] = [NewClient EXCEPT !.state = "closed"]]
  /\ up' = [up EXCEPT ![c] = << >>]
  /\ UNCHANGED <<doc, inst, cur, scheduled, edits, applied, down, link>>

-----------------------------------------------------------------------------
(* drain(), one piece of work: the document is captured, the work done and *)
(* its answer queued with what the client then knows.                      *)

Work(c) == Head(client[c].pending)
Drains(c, type) ==
  /\ scheduled /\ client[c].state = "open"
  /\ client[c].pending # << >> /\ Work(c).type = type

(* finish(): the answer, and the state the client has been told.           *)
Finish(c, k, messages, published) ==
  /\ cur' = k
  /\ down' = Told(c, messages)
  /\ client' = [client EXCEPT ![c].pending = Tail(@), ![c].published = published,
                              ![c].authenticated = TRUE]
  /\ UNCHANGED <<inst, scheduled, edits, up, link>>

DrainHello(c) ==
  /\ Drains(c, "hello")
  /\ LET k == Captured(cur, doc) IN Finish(c, k, <<HelloAck, State(inst, k, 0)>>, k)
  /\ UNCHANGED <<doc, applied>>

DrainPing(c) ==
  /\ Drains(c, "ping")
  /\ LET k == Captured(cur, doc) IN Finish(c, k, <<Pong(Work(c).id, k)>>, client[c].published)
  /\ UNCHANGED <<doc, applied>>

Refuses(c, code) ==
  /\ Finish(c, Captured(cur, doc), <<Error(Work(c).id, code)>>, client[c].published)
  /\ UNCHANGED <<doc, applied>>

(* A command that waited for more than a second. *)
DrainExpired(c) == Drains(c, "command") /\ Refuses(c, "COMMAND_EXPIRED")

DrainRequestState(c) ==
  /\ Drains(c, "command") /\ Work(c).op = "requestState"
  /\ LET k == Captured(cur, doc)
     IN Finish(c, k, <<Ack(Work(c).id, k), State(inst, k, Work(c).id)>>, k)
  /\ UNCHANGED <<doc, applied>>

(* ControlDispatcher::dispatch: what a command is refused for, in order.   *)
(* The slip compares no revision.                                          *)
NeverStale(m, k) == FALSE
Stale(m, k) == m.ifRevision # 0 /\ m.ifRevision # k.rev

DrainEdit(c) ==
  /\ Drains(c, "command") /\ Work(c).op # "requestState"
  /\ LET m == Work(c)
         k == Captured(cur, doc)
         v == IF m.op = "set" THEN m.value ELSE Effect("toggle", doc.val[m.target], 1)
         d == [doc EXCEPT !.val[m.target] = v]
     IN \/ m.session # k.session /\ Refuses(c, "SESSION_CHANGED")
        \/ m.session = k.session /\ Stale(m, k) /\ Refuses(c, "REVISION_CONFLICT")
        \/ m.session = k.session /\ ~ Stale(m, k) /\ m.target \notin k.has /\ Refuses(c, "NOT_FOUND")
        \/ /\ m.session = k.session /\ ~ Stale(m, k) /\ m.target \in k.has
           /\ doc' = d
           /\ LET after == Captured(k, d)
                  here  == [inst |-> inst, session |-> after.session, rev |-> after.rev]
              IN /\ applied' = [i \in Inputs |-> IF i \in m.parts THEN Append(applied[i], here)
                                                  ELSE applied[i]]
                 /\ Finish(c, after, <<Ack(m.id, after)>>, client[c].published)

(* The end of a drain: under the lock, it is posted again for what came.   *)
DrainEnds ==
  /\ scheduled /\ \A c \in Conns : client[c].pending = << >>
  /\ scheduled' = FALSE
  /\ UNCHANGED <<doc, inst, cur, client, edits, applied, wire>>

Drain(c) == DrainHello(c) \/ DrainPing(c) \/ DrainExpired(c) \/ DrainRequestState(c) \/ DrainEdit(c)

-----------------------------------------------------------------------------
(* timerCallback(): what changed since this client was last told, in full  *)
(* if the session or the structure changed on the way.  The slip looks at  *)
(* the session only.                                                       *)
SessionOnly(p, k) == p.session # k.session
NeedsFullState(p, k) == p.session # k.session \/ k.structRev > p.rev \/ p.has # k.has

Changed(p, k) == {t \in k.has : p.val[t] # k.val[t]}

Publish(c) ==
  /\ client[c].state = "open" /\ client[c].authenticated
  /\ LET p == client[c].published
         k == Captured(cur, doc)
     IN /\ p.rev # k.rev
        /\ cur' = k
        /\ down' = Told(c, << IF NeedsFullState(p, k) THEN State(inst, k, 0)
                              ELSE Delta(k, p.rev, [t \in Changed(p, k) |-> k.val[t]]) >>)
        /\ client' = [client EXCEPT ![c].published = k]
  /\ UNCHANGED <<doc, inst, scheduled, edits, applied, up, link>>

-----------------------------------------------------------------------------
(* setEnabled(): off and on again.  Waiting work is refused, every client  *)
(* is told and closed, and the new instance counts its revisions from one. *)
Restart ==
  /\ inst < MaxInst
  /\ inst' = inst + 1
  /\ cur' = Fresh(doc)
  /\ down' = [c \in Conns |->
       IF link[c] = "up" /\ client[c].state = "open"
       THEN down[c] \o [n \in 1 .. Len(client[c].pending) |->
                           IF client[c].pending[n].type = "hello" THEN Error(0, "CONTROL_DISABLED")
                           ELSE Error(client[c].pending[n].id, "CONTROL_DISABLED")]
                    \o (IF client[c].authenticated THEN <<ServerStatus>> ELSE << >>)
                    \o <<EndOfStream>>
       ELSE down[c]]
  /\ client' = [c \in Conns |-> IF link[c] = "none" THEN client[c]
                                ELSE [NewClient EXCEPT !.state = "closed"]]
  /\ scheduled' = FALSE
  /\ UNCHANGED <<doc, edits, applied, up, link>>

User   == UserEdits \/ Restart
Worker == \E c \in Conns : Receive(c) \/ RefuseAtOnce(c) \/ RemoveClient(c)
MessageThread == Capture \/ DrainEnds \/ \E c \in Conns : Drain(c) \/ Publish(c)
ServerNext == User \/ Worker \/ MessageThread
=============================================================================
