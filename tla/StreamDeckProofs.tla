--------------------------- MODULE StreamDeckProofs --------------------------
(***************************************************************************)
(* What the handlers of the Stream Deck plugin do, proved for any inputs   *)
(* and any limits of its queues: the lemmas the theorems about the link    *)
(* rest on (ControlLinkProofs).                                            *)
(*                                                                         *)
(* The handlers of the plugin are functions on its whole state, so most of *)
(* the lemmas are about one of them: what it needs of the state, and what  *)
(* it leaves.  In the middle of a handler an input may be in no queue; the *)
(* set of those is `loose' in Tidy, which says that every other open input *)
(* is in exactly one place of the queue of its target and a settled one in *)
(* none.  A handler has to end with none loose (AllGood).                  *)
(*                                                                         *)
(* The second half follows the inputs beyond the plugin.  w stands for the *)
(* world a callback runs in: the messages on their way to LiveMix, those   *)
(* that come back, and what was applied.  Journey says that what is on its *)
(* way carries each input once, from where it was made and in the order it *)
(* was made (Loads), that what was told of an input is true (Honest), that *)
(* an open input was made of what the plugin knows now (Opened), and of    *)
(* each queue that what waits was not sent, and that what is told of the   *)
(* message that is out will be true of the inputs it carries (Trip).  Each *)
(* handler keeps this, with the messages it sends put on their way.        *)
(*                                                                         *)
(* The last part begins what ControlLinkProofs goes on with: what the      *)
(* messages mean (Means).  A queue joins inputs of one kind, a command has *)
(* the value they make of what the deck knows, under its revision, and an  *)
(* ack, wherever it is, says where the inputs it is for were applied.      *)
(***************************************************************************)
EXTENDS ControlLink, Inductions, SequenceTheorems, TLAPS

(* The values of the state and of the messages.                            *)
Statuses == {"disconnected", "connecting", "checking", "ready"}
Promises == {"new", "open", "done"} \cup Codes
Acks == [inst : Nat, session : Nat, rev : Nat]
Snaps == [inst : Nat, session : Nat, rev : Nat, has : SUBSET Targets, val : Values]
Queues == [born : Inputs \cup {0}, waiting : Seq(Intents), active : Intents, ack : Acks]
StateRequests == [id : Nat, op : {"requestState"}]
EditRequests == [id : Nat, op : {"edit"}, target : Targets, born : Inputs, session : Nat]
(* What is told of a request, and why a connection was given up.           *)
Reasons == Codes \cup
  {"none", "ack", "EOF", "REQUEST_TIMEOUT", "UNEXPECTED_PONG", "UNEXPECTED_RESPONSE", "INVALID_ACK",
   "HANDSHAKE_FAILED", "INSTANCE_CHANGED", "STATE_REQUIRED", "SERVER_STOPPING"}
Replies == [target : Targets, born : Inputs, code : Reasons, ack : Acks]
EditCommands ==
  [type : {"command"}, id : Nat, op : {"set", "toggle"}, session : Nat, ifRevision : Nat,
   target : Targets, value : 0 .. Top, parts : SUBSET Inputs]
UpMessages ==
  {Hello} \cup [type : {"ping"}, id : Nat]
  \cup [type : {"command"}, id : Nat, op : {"requestState"}] \cup EditCommands
Decks ==
  [conn : Nat, hello : BOOLEAN, status : Statuses, snap : Snaps, synced : BOOLEAN,
   resync : Nat, ping : Nat, pinging : BOOLEAN, seq : Nat,
   pend : SUBSET (StateRequests \cup EditRequests), queue : [Targets -> Queues],
   promise : [Inputs -> Promises], answers : SUBSET Replies, out : Seq(UpMessages),
   fault : Reasons]

(* A queue holds inputs in its places: the active intent and those waiting.*)
(* It is tidy if every open input of its target is in one place, and       *)
(* nothing else is in any; but for the loose, which are on their way in,   *)
(* and the gone, which are on their way out.                               *)
Place(q, n) == IF n = 0 THEN q.active.parts ELSE q.waiting[n].parts
Places(q) == 0 .. Len(q.waiting)
Mine(s, t, i) == Input[i].target = t /\ s.promise[i] = "open"
Tidy(s, t, loose, gone) ==
  LET q == s.queue[t]
  IN /\ q # NoQueue => q.born \in Inputs /\ s.promise[q.born] # "new"
     /\ \A n \in Places(q) : \A i \in Place(q, n) \ gone : Mine(s, t, i) /\ i \notin loose
     /\ \A n, m \in Places(q) : n # m => Place(q, n) \cap Place(q, m) \subseteq gone
     /\ \A i \in Inputs : Mine(s, t, i) /\ i \notin loose => \E n \in Places(q) : i \in Place(q, n)

(* What the deck has out and what comes back name inputs that were made; a *)
(* code no input may be given is for a queue that is gone.                 *)
PendSound(s) ==
  \A p \in s.pend : p.id \in 1 .. s.seq /\ (p.op = "edit" => s.promise[p.born] # "new")
AnswersSound(s) ==
  \A a \in s.answers : /\ s.promise[a.born] # "new"
                       /\ a.code \in Codes \cup {"ack"} \/ s.queue[a.target].born # a.born
Sound(s) == s \in Decks /\ PendSound(s) /\ AnswersSound(s)

(* What work on one queue leaves alone.                                    *)
Untouched(s, r) ==
  /\ r.conn = s.conn /\ r.hello = s.hello /\ r.status = s.status /\ r.snap = s.snap
  /\ r.synced = s.synced /\ r.resync = s.resync /\ r.ping = s.ping
  /\ r.pinging = s.pinging /\ r.answers = s.answers /\ r.fault = s.fault
Works(s, r, t, loose) ==
  /\ Untouched(s, r) /\ s.seq <= r.seq
  /\ r.queue[t].born \in {s.queue[t].born, 0}
  /\ \A u \in Targets : u # t => r.queue[u] = s.queue[u]
  /\ \A i \in Inputs : r.promise[i] # s.promise[i] =>
        /\ s.promise[i] = "open" /\ r.promise[i] \in Codes \cup {"done"}
        /\ Input[i].target = t /\ i \notin loose

(* What work on any of the queues leaves alone.                            *)
Moves(s, r) ==
  /\ Untouched(s, r) /\ s.seq <= r.seq
  /\ \A t \in Targets : r.queue[t].born \in {s.queue[t].born, 0}
  /\ \A i \in Inputs : r.promise[i] # s.promise[i] =>
        s.promise[i] = "open" /\ r.promise[i] \in Codes \cup {"done"}

-----------------------------------------------------------------------------
(* Sequences. *)

(* RemoveAt takes out one element and moves up those behind it.            *)
LEMMA RemoveAtIs ==
  ASSUME NEW S, NEW w \in Seq(S), NEW n \in 1 .. Len(w)
  PROVE  /\ RemoveAt(w, n) \in Seq(S) /\ Len(RemoveAt(w, n)) = Len(w) - 1
         /\ \A m \in 1 .. Len(w) - 1 : RemoveAt(w, n)[m] = IF m < n THEN w[m] ELSE w[m + 1]
<1> DEFINE a == SubSeq(w, 1, n - 1)  b == SubSeq(w, n + 1, Len(w))
<1>1. a \in Seq(S) /\ Len(a) = n - 1 /\ \A m \in 1 .. n - 1 : a[m] = w[m]
  OBVIOUS
<1>2. b \in Seq(S) /\ Len(b) = Len(w) - n /\ \A m \in 1 .. Len(w) - n : b[m] = w[n + m]
  OBVIOUS
<1>3. RemoveAt(w, n) = a \o b
  BY DEF RemoveAt
<1> HIDE DEF a, b
<1>4. /\ a \o b \in Seq(S) /\ Len(a \o b) = Len(w) - 1
      /\ \A m \in 1 .. Len(w) - 1 : (a \o b)[m] = IF m <= n - 1 THEN a[m] ELSE b[m - (n - 1)]
  BY <1>1, <1>2, ConcatProperties
<1>5. ASSUME NEW m \in 1 .. Len(w) - 1
      PROVE  (a \o b)[m] = IF m < n THEN w[m] ELSE w[m + 1]
  <2>1. CASE m < n
    BY <1>1, <1>4, <2>1
  <2>2. CASE ~ (m < n)
    <3>1. (a \o b)[m] = b[m - (n - 1)] /\ m - (n - 1) \in 1 .. Len(w) - n
      BY <1>4, <2>2
    <3> QED
      BY <1>2, <2>2, <3>1
  <2> QED
    BY <2>1, <2>2
<1> QED
  BY <1>3, <1>4, <1>5

(* r is a selection of the first n elements of w: its elements come from   *)
(* places of their own, all of those that are hit.                         *)
Selects(r, w, n, Hit) ==
  \E from \in [1 .. Len(r) -> (1 .. n) \cap Hit] :
     /\ \A k \in 1 .. Len(r) : r[k] = w[from[k]]
     /\ \A k, l \in 1 .. Len(r) : k < l => from[k] < from[l]
     /\ \A m \in (1 .. n) \cap Hit : \E k \in 1 .. Len(r) : from[k] = m

LEMMA SelectionGrows ==
  ASSUME NEW S, NEW w \in Seq(S), NEW Hit, NEW n \in Nat, n + 1 <= Len(w), n + 1 \in Hit,
         NEW r \in Seq(S), Selects(r, w, n, Hit)
  PROVE  Append(r, w[n + 1]) \in Seq(S) /\ Selects(Append(r, w[n + 1]), w, n + 1, Hit)
<1>1. PICK from \in [1 .. Len(r) -> (1 .. n) \cap Hit] :
         /\ \A k \in 1 .. Len(r) : r[k] = w[from[k]]
         /\ \A k, l \in 1 .. Len(r) : k < l => from[k] < from[l]
         /\ \A m \in (1 .. n) \cap Hit : \E k \in 1 .. Len(r) : from[k] = m
  BY DEF Selects
<1> DEFINE R == Append(r, w[n + 1])
           more == [k \in 1 .. Len(r) + 1 |-> IF k = Len(r) + 1 THEN n + 1 ELSE from[k]]
<1>2. /\ R \in Seq(S) /\ Len(R) = Len(r) + 1 /\ Len(r) \in Nat
      /\ R[Len(r) + 1] = w[n + 1] /\ \A k \in 1 .. Len(r) : R[k] = r[k]
  BY AppendProperties, LenProperties
<1> HIDE DEF R
<1>3. more \in [1 .. Len(R) -> (1 .. n + 1) \cap Hit]
  BY <1>1, <1>2
<1>4. \A k \in 1 .. Len(R) : R[k] = w[more[k]]
  BY <1>1, <1>2
<1>5. ASSUME NEW k \in 1 .. Len(R), NEW l \in 1 .. Len(R), k < l
      PROVE  more[k] < more[l]
  <2>1. \A j \in 1 .. Len(r) : from[j] \in 1 .. n /\ from[j] < n + 1
    BY <1>1, <1>2, SMTT(30)
  <2>2. k \in 1 .. Len(r) /\ more[k] = from[k]
    BY <1>2, <1>5
  <2>3. CASE l = Len(r) + 1
    BY <1>2, <2>1, <2>2, <2>3
  <2>4. CASE l # Len(r) + 1
    <3>1. l \in 1 .. Len(r) /\ more[l] = from[l]
      BY <1>2, <2>4
    <3> QED
      BY <1>1, <1>5, <2>2, <3>1
  <2> QED
    BY <2>3, <2>4
<1>6. ASSUME NEW m \in (1 .. n + 1) \cap Hit
      PROVE  \E k \in 1 .. Len(R) : more[k] = m
  <2>1. CASE m = n + 1
    BY <1>2, <2>1
  <2>2. CASE m # n + 1
    <3>1. PICK k \in 1 .. Len(r) : from[k] = m
      BY <1>1, <2>2
    <3> QED
      BY <1>2, <3>1
  <2> QED
    BY <2>1, <2>2
<1> HIDE DEF more
<1> QED
  BY <1>2, <1>3, <1>4, <1>5, <1>6 DEF Selects, R

(* What a selection made element by element comes to.                      *)
LEMMA SelectionIs ==
  ASSUME NEW S, NEW w \in Seq(S), NEW Hit,
         NEW f, f[0] = << >>,
         \A n \in 1 .. Len(w) : f[n] = IF n \in Hit THEN Append(f[n - 1], w[n]) ELSE f[n - 1]
  PROVE  f[Len(w)] \in Seq(S) /\ Selects(f[Len(w)], w, Len(w), Hit)
<1> DEFINE T == {n \in Nat : n <= Len(w) => f[n] \in Seq(S) /\ Selects(f[n], w, n, Hit)}
<1>1. 0 \in T
  <2> DEFINE from == [k \in 1 .. 0 |-> 0]
  <2>1. f[0] \in Seq(S) /\ Len(f[0]) = 0 /\ 1 .. Len(f[0]) = {} /\ (1 .. 0) \cap Hit = {}
    OBVIOUS
  <2>2. from \in [1 .. Len(f[0]) -> (1 .. 0) \cap Hit]
    BY <2>1
  <2> HIDE DEF from
  <2>3. Selects(f[0], w, 0, Hit)
    BY <2>1, <2>2 DEF Selects
  <2> QED
    BY <2>1, <2>3
<1>2. ASSUME NEW n \in Nat, n \in T
      PROVE  n + 1 \in T
  <2> SUFFICES ASSUME n + 1 <= Len(w)
               PROVE  f[n + 1] \in Seq(S) /\ Selects(f[n + 1], w, n + 1, Hit)
    OBVIOUS
  <2>1. f[n] \in Seq(S) /\ Selects(f[n], w, n, Hit)
    BY <1>2
  <2>2. n + 1 \in 1 .. Len(w) /\ (n + 1) - 1 = n
    BY LenProperties
  <2>3. f[n + 1] = IF n + 1 \in Hit THEN Append(f[n], w[n + 1]) ELSE f[n]
    BY <2>2, Zenon
  <2>4. CASE n + 1 \notin Hit
    <3>1. f[n + 1] = f[n] /\ (1 .. n + 1) \cap Hit = (1 .. n) \cap Hit
      BY <2>3, <2>4
    <3> QED
      BY <2>1, <3>1, SMTT(30) DEF Selects
  <2>5. CASE n + 1 \in Hit
    <3>1. f[n + 1] = Append(f[n], w[n + 1])
      BY <2>3, <2>5
    <3> QED
      BY <2>1, <2>5, <3>1, SelectionGrows
  <2> QED
    BY <2>4, <2>5
<1>3. Len(w) \in T
  <2>1. Len(w) \in Nat
    BY LenProperties
  <2> HIDE DEF T
  <2> QED
    BY <1>1, <1>2, <2>1, NumberInduction
<1> QED
  BY <1>3, LenProperties

(* There is such a selection.                                              *)
LEMMA SelectionExists ==
  ASSUME NEW S, NEW w \in Seq(S), NEW Hit
  PROVE  \E f : f = [n \in 0 .. Len(w) |->
                       IF n = 0 THEN << >>
                       ELSE IF n \in Hit THEN Append(f[n - 1], w[n]) ELSE f[n - 1]]
<1> DEFINE N == Len(w)
           G == [n : 0 .. N, q : Seq(S)]
           base == [n |-> 0, q |-> << >>]
           h == [p \in G |-> IF p.n = N THEN p
                             ELSE [n |-> p.n + 1, q |-> IF p.n + 1 \in Hit THEN Append(p.q, w[p.n + 1]) ELSE p.q]]
<1>1. N \in Nat /\ \A n \in 1 .. N : w[n] \in S
  BY LenProperties, ElementOfSeq
<1>2. base \in G
  BY <1>1, EmptySeq
<1>3. h \in [G -> G]
  <2> SUFFICES ASSUME NEW p \in G, p.n # N
               PROVE  [n |-> p.n + 1, q |-> IF p.n + 1 \in Hit THEN Append(p.q, w[p.n + 1]) ELSE p.q] \in G
    OBVIOUS
  <2>1. p.n + 1 \in 1 .. N /\ p.q \in Seq(S) /\ w[p.n + 1] \in S
    BY <1>1
  <2> DEFINE q == IF p.n + 1 \in Hit THEN Append(p.q, w[p.n + 1]) ELSE p.q
  <2>2. q \in Seq(S)
    BY <2>1, AppendProperties
  <2>3. p.n + 1 \in 0 .. N
    BY <2>1
  <2> HIDE DEF q
  <2> QED
    BY <2>2, <2>3
<1>4. \A p \in G : p.n # N =>
        /\ h[p].n = p.n + 1
        /\ h[p].q = IF p.n + 1 \in Hit THEN Append(p.q, w[p.n + 1]) ELSE p.q
  OBVIOUS
<1>5. PICK g : Iterates(g, N, G, base, h)
  <2> HIDE DEF N, G, h, base
  <2> QED
    BY <1>1, <1>2, <1>3, NumberRecursion
<1>5a. g \in [0 .. N -> G] /\ \A n \in 0 .. N : g[n] = IF n = 0 THEN base ELSE h[g[n - 1]]
  BY <1>5 DEF Iterates
<1> HIDE DEF N, G, h
<1> DEFINE T == {n \in Nat : n <= N => g[n].n = n}
<1>6. 0 \in T
  BY <1>1, <1>5a
<1>7. ASSUME NEW n \in Nat, n \in T
      PROVE  n + 1 \in T
  <2> SUFFICES ASSUME n + 1 <= N
               PROVE  g[n + 1].n = n + 1
    OBVIOUS
  <2>1. g[n] \in G /\ g[n].n = n /\ n # N
    BY <1>1, <1>5a, <1>7
  <2>2. n + 1 \in 0 .. N /\ n + 1 # 0 /\ (n + 1) - 1 = n
    BY <1>1
  <2>3. g[n + 1] = h[g[n]]
    BY <1>5a, <2>2
  <2> QED
    BY <1>4, <2>1, <2>3
<1> HIDE DEF T
<1>8. Nat \subseteq T
  BY <1>6, <1>7, NumberInduction
<1>9. \A n \in 0 .. N : g[n].n = n
  BY <1>1, <1>8 DEF T
<1> DEFINE f == [n \in 0 .. N |-> g[n].q]
<1>10. ASSUME NEW n \in 0 .. N
       PROVE  f[n] = IF n = 0 THEN << >>
                     ELSE IF n \in Hit THEN Append(f[n - 1], w[n]) ELSE f[n - 1]
  <2>1. CASE n = 0
    BY <1>1, <1>5a, <2>1
  <2>2. CASE n # 0
    <3>1. n - 1 \in 0 .. N /\ n - 1 # N /\ (n - 1) + 1 = n
      BY <1>1, <2>2
    <3>2. g[n] = h[g[n - 1]] /\ g[n - 1] \in G /\ g[n - 1].n = n - 1
      BY <1>5a, <1>9, <2>2, <3>1
    <3>3. f[n] = g[n].q /\ f[n - 1] = g[n - 1].q
      BY <3>1
    <3> QED
      BY <1>4, <2>2, <3>1, <3>2, <3>3
  <2> QED
    BY <2>1, <2>2
<1> USE DEF N
<1>11. f = [n \in 0 .. N |-> IF n = 0 THEN << >>
                             ELSE IF n \in Hit THEN Append(f[n - 1], w[n]) ELSE f[n - 1]]
  <2>1. f = [n \in 0 .. N |-> f[n]]
    OBVIOUS
  <2> HIDE DEF f
  <2> QED
    BY <1>10, <2>1
<1> HIDE DEF f
<1> QED
  BY <1>11

(* What Those selects.                                                     *)
LEMMA ThoseAre ==
  ASSUME NEW S, NEW w \in Seq(S), NEW Hit
  PROVE  Those(w, Hit) \in Seq(S) /\ Selects(Those(w, Hit), w, Len(w), Hit)
<1> DEFINE rec(g) == [n \in 0 .. Len(w) |->
                        IF n = 0 THEN << >>
                        ELSE IF n \in Hit THEN Append(g[n - 1], w[n]) ELSE g[n - 1]]
           upTo == CHOOSE g : g = rec(g)
<1>1. Those(w, Hit) = upTo[Len(w)]
  BY DEF Those
<1>2. \E f : f = rec(f)
  BY SelectionExists, Zenon
<1>3. upTo = rec(upTo)
  BY <1>2, Zenon
<1> HIDE DEF upTo
<1>4. upTo[0] = << >> /\ \A n \in 1 .. Len(w) :
         upTo[n] = IF n \in Hit THEN Append(upTo[n - 1], w[n]) ELSE upTo[n - 1]
  <2>1. 0 \in 0 .. Len(w) /\ \A n \in 1 .. Len(w) : n \in 0 .. Len(w) /\ n # 0
    BY LenProperties
  <2>2. rec(upTo)[0] = << >> /\ \A n \in 1 .. Len(w) :
         rec(upTo)[n] = IF n \in Hit THEN Append(upTo[n - 1], w[n]) ELSE upTo[n - 1]
    BY <2>1
  <2> HIDE DEF rec
  <2> QED
    BY <1>3, <2>2
<1> QED
  BY <1>1, <1>4, SelectionIs

-----------------------------------------------------------------------------
(* The operations of one queue. *)

(* Values an operation starts from are values.                             *)
LEMMA Empties ==
  /\ NoIntent \in Intents /\ NoAck \in Acks /\ NoQueue \in Queues
  /\ Codes \cap {"new", "open", "done"} = {}
<1>1. NoIntent \in Intents
  BY DEF NoIntent, Intents
<1>2. NoAck \in Acks
  BY DEF NoAck, Acks
<1>3. << >> \in Seq(Intents)
  BY EmptySeq
<1>4. NoQueue \in Queues
  BY <1>1, <1>2, <1>3 DEF NoQueue, Queues
<1> QED
  BY <1>1, <1>2, <1>4 DEF Codes

LEMMA EmptyQueue ==
  NoQueue.born = 0 /\ NoQueue.waiting = << >> /\ NoQueue.active = NoIntent /\ NoQueue.ack = NoAck
  /\ NoIntent.parts = {}
BY DEF NoQueue, NoIntent

(* The fields of a deck.                                                   *)
LEMMA DeckFields ==
  ASSUME NEW s \in Decks
  PROVE  /\ s.conn \in Nat /\ s.hello \in BOOLEAN /\ s.status \in Statuses /\ s.snap \in Snaps
         /\ s.synced \in BOOLEAN /\ s.resync \in Nat /\ s.ping \in Nat /\ s.pinging \in BOOLEAN
         /\ s.seq \in Nat /\ s.pend \in SUBSET (StateRequests \cup EditRequests)
         /\ s.queue \in [Targets -> Queues] /\ s.promise \in [Inputs -> Promises]
         /\ s.answers \in SUBSET Replies /\ s.out \in Seq(UpMessages) /\ s.fault \in Reasons
BY DEF Decks

LEMMA QueueFields ==
  ASSUME NEW q \in Queues
  PROVE  /\ q.born \in Inputs \cup {0} /\ q.waiting \in Seq(Intents) /\ q.active \in Intents
         /\ q.ack \in Acks
         /\ q.active.parts \in SUBSET Inputs /\ Len(q.waiting) \in Nat
         /\ \A n \in 1 .. Len(q.waiting) : q.waiting[n] \in Intents /\ q.waiting[n].parts \in SUBSET Inputs
         /\ \A n \in Places(q) : Place(q, n) \in SUBSET Inputs
<1>1. /\ q.born \in Inputs \cup {0} /\ q.waiting \in Seq(Intents) /\ q.active \in Intents
      /\ q.ack \in Acks
  BY DEF Queues
<1>2. \A x \in Intents : x.parts \in SUBSET Inputs
  BY DEF Intents
<1>3. Len(q.waiting) \in Nat /\ \A n \in 1 .. Len(q.waiting) : q.waiting[n] \in Intents
  BY <1>1, LenProperties, ElementOfSeq
<1> QED
  BY <1>1, <1>2, <1>3 DEF Places, Place

(* A change of the queues and the promises only.                           *)
Quiet(s, r) == Untouched(s, r) /\ r.seq = s.seq /\ r.pend = s.pend /\ r.out = s.out

LEMMA SettleIs ==
  ASSUME NEW s \in Decks, NEW parts, NEW code \in Codes \cup {"done"}
  PROVE  LET r == Settle(s, parts, code)
         IN  /\ r \in Decks /\ Quiet(s, r) /\ r.queue = s.queue
             /\ \A i \in Inputs : r.promise[i] = IF i \in parts /\ s.promise[i] = "open" THEN code
                                                 ELSE s.promise[i]
<1> DEFINE p == [i \in Inputs |-> IF i \in parts /\ s.promise[i] = "open" THEN code ELSE s.promise[i]]
<1>1. Settle(s, parts, code) = [s EXCEPT !.promise = p]
  BY DEF Settle, Decks
<1>2. p \in [Inputs -> Promises]
  BY DeckFields DEF Promises
<1>3. \A i \in Inputs : p[i] = IF i \in parts /\ s.promise[i] = "open" THEN code ELSE s.promise[i]
  OBVIOUS
<1> HIDE DEF p
<1>4. [s EXCEPT !.promise = p] \in Decks
  BY <1>2 DEF Decks
<1>5. Quiet(s, [s EXCEPT !.promise = p]) /\ [s EXCEPT !.promise = p].queue = s.queue
      /\ [s EXCEPT !.promise = p].promise = p
  BY DEF Decks, Quiet, Untouched
<1> QED
  BY <1>1, <1>3, <1>4, <1>5

(* Another queue in the place of one.                                      *)
LEMMA SetQueueIs ==
  ASSUME NEW s \in Decks, NEW t \in Targets, NEW q \in Queues
  PROVE  LET r == [s EXCEPT !.queue[t] = q]
         IN  /\ r \in Decks /\ Quiet(s, r) /\ r.promise = s.promise
             /\ r.queue[t] = q /\ \A u \in Targets : u # t => r.queue[u] = s.queue[u]
<1> DEFINE qs == [s.queue EXCEPT ![t] = q]
<1>1. [s EXCEPT !.queue[t] = q] = [s EXCEPT !.queue = qs]
  BY DEF Decks
<1>2. qs \in [Targets -> Queues] /\ qs[t] = q /\ \A u \in Targets : u # t => qs[u] = s.queue[u]
  BY DeckFields
<1> HIDE DEF qs
<1>3. [s EXCEPT !.queue = qs] \in Decks
  BY <1>2 DEF Decks
<1>4. Quiet(s, [s EXCEPT !.queue = qs]) /\ [s EXCEPT !.queue = qs].promise = s.promise
      /\ [s EXCEPT !.queue = qs].queue = qs
  BY DEF Decks, Quiet, Untouched
<1> QED
  BY <1>1, <1>2, <1>3, <1>4

LEMMA WireFacts ==
  /\ Top \in Nat \ {0} /\ Inputs = 1 .. Len(Input) /\ Len(Input) \in Nat /\ 0 \notin Inputs
  /\ IsFiniteSet(Targets) /\ IsFiniteSet(Inputs)
  /\ \A i \in Inputs : Input[i].target \in Targets /\ Input[i].kind \in Kinds /\ Input[i].retries \in Nat
<1>1. /\ Top \in Nat \ {0} /\ Inputs = 1 .. Len(Input) /\ Len(Input) \in Nat
      /\ IsFiniteSet(Targets)
      /\ \A i \in Inputs : Input[i].target \in Targets /\ Input[i].kind \in Kinds /\ Input[i].retries \in Nat
  BY WireAssumption
<1> QED
  BY <1>1, FS_Interval

(* Work on one queue goes on after work on it, and leaves other queues as  *)
(* tidy as they were, and what is out as sound.                            *)
LEMMA WorkGoesOn ==
  ASSUME NEW s, NEW m, NEW r, NEW t \in Targets, NEW L, NEW M,
         s \in Decks, m \in Decks, r \in Decks, Works(s, m, t, L), Works(m, r, t, M), L \subseteq M
  PROVE  Works(s, r, t, L)
<1>1. Untouched(s, r)
  BY DEF Works, Untouched
<1>2. s.seq <= r.seq
  BY DeckFields DEF Works
<1>3. r.queue[t].born \in {s.queue[t].born, 0} /\ \A u \in Targets : u # t => r.queue[u] = s.queue[u]
  BY DEF Works
<1>4. ASSUME NEW i \in Inputs, r.promise[i] # s.promise[i]
      PROVE  /\ s.promise[i] = "open" /\ r.promise[i] \in Codes \cup {"done"}
             /\ Input[i].target = t /\ i \notin L
  BY <1>4, Empties DEF Works
<1> QED
  BY <1>1, <1>2, <1>3, <1>4 DEF Works

LEMMA QuietWorks ==
  ASSUME NEW s \in Decks, NEW r, Quiet(s, r), NEW t \in Targets, NEW L,
         r.queue[t].born \in {s.queue[t].born, 0},
         \A u \in Targets : u # t => r.queue[u] = s.queue[u],
         \A i \in Inputs : r.promise[i] # s.promise[i] =>
            /\ s.promise[i] = "open" /\ r.promise[i] \in Codes \cup {"done"}
            /\ Input[i].target = t /\ i \notin L
  PROVE  Works(s, r, t, L)
BY DeckFields DEF Quiet, Works

LEMMA WorkElsewhere ==
  ASSUME NEW s, NEW r, NEW t \in Targets, NEW L, Works(s, r, t, L), s \in Decks, r \in Decks,
         NEW u \in Targets, u # t, NEW M, NEW gone, Tidy(s, u, M, gone)
  PROVE  Tidy(r, u, M, gone)
<1>1. r.queue[u] = s.queue[u]
  BY DEF Works
<1>2. \A i \in Inputs : Mine(r, u, i) <=> Mine(s, u, i)
  BY DEF Works, Mine
<1>3. \A i \in Inputs : s.promise[i] # "new" => r.promise[i] # "new"
  BY Empties DEF Works
<1>4. s.queue[u] \in Queues /\ \A n \in Places(s.queue[u]) : Place(s.queue[u], n) \in SUBSET Inputs
  BY DeckFields, QueueFields
<1> QED
  BY <1>1, <1>2, <1>3, <1>4 DEF Tidy

LEMMA WorkMoves ==
  ASSUME NEW s, NEW r, NEW t \in Targets, NEW L, Works(s, r, t, L)
  PROVE  Moves(s, r)
BY DEF Works, Moves

LEMMA MovesIsSound ==
  ASSUME NEW s, NEW r, Sound(s), r \in Decks, Moves(s, r),
         \A p \in r.pend : p \in s.pend \/ (p.id \in 1 .. r.seq /\ (p.op = "edit" => r.promise[p.born] # "new"))
  PROVE  Sound(r)
<1>1. s \in Decks
  BY DEF Sound
<1>2. \A i \in Inputs : s.promise[i] # "new" => r.promise[i] # "new"
  BY Empties DEF Moves
<1>3. s.seq \in Nat /\ r.seq \in Nat /\ s.seq <= r.seq
  BY <1>1, DeckFields DEF Moves
<1>4. PendSound(r)
  <2> SUFFICES ASSUME NEW p \in r.pend, p \in s.pend
               PROVE  p.id \in 1 .. r.seq /\ (p.op = "edit" => r.promise[p.born] # "new")
    BY DEF PendSound
  <2>1. p.id \in 1 .. s.seq /\ (p.op = "edit" => s.promise[p.born] # "new")
    BY DEF Sound, PendSound
  <2>2. p \in StateRequests \cup EditRequests
    BY <1>1, DeckFields
  <2>3. p.op = "edit" => p.born \in Inputs
    BY <2>2 DEF StateRequests, EditRequests
  <2> QED
    BY <1>2, <1>3, <2>1, <2>3
<1>5. AnswersSound(r)
  <2> SUFFICES ASSUME NEW a \in s.answers
               PROVE  /\ r.promise[a.born] # "new"
                      /\ a.code \in Codes \cup {"ack"} \/ r.queue[a.target].born # a.born
    BY DEF AnswersSound, Moves, Untouched
  <2>1. a.born \in Inputs /\ a.target \in Targets
    BY <1>1, DeckFields DEF Replies
  <2>2. r.queue[a.target].born \in {s.queue[a.target].born, 0}
    BY <2>1 DEF Moves
  <2> QED
    BY <1>2, <2>1, <2>2, WireFacts DEF Sound, AnswersSound
<1> QED
  BY <1>4, <1>5 DEF Sound

LEMMA WorkIsSound ==
  ASSUME NEW s, NEW r, NEW t \in Targets, NEW L, Sound(s), r \in Decks, Works(s, r, t, L),
         \A p \in r.pend : p \in s.pend \/ (p.id \in 1 .. r.seq /\ (p.op = "edit" => r.promise[p.born] # "new"))
  PROVE  Sound(r)
BY WorkMoves, MovesIsSound

(* An empty queue is tidy if nothing of it is open.                        *)
LEMMA NothingIsTidy ==
  ASSUME NEW s, NEW t, NEW L, NEW gone, s.queue[t] = NoQueue,
         \A i \in Inputs : Mine(s, t, i) => i \in L
  PROVE  Tidy(s, t, L, gone)
<1>1. Places(NoQueue) = {0} /\ Place(NoQueue, 0) = {}
  BY EmptyQueue, EmptySeq DEF Places, Place
<1> QED
  BY <1>1 DEF Tidy

(* A step that works on one queue leaves it tidy, and the rest sound.      *)
Good(s, t, L) == Sound(s) /\ Tidy(s, t, L, {})
Leaves(s, r, t, L) == Good(r, t, L) /\ Works(s, r, t, L)

LEMMA FailTargetTidies ==
  ASSUME NEW s \in Decks, NEW t \in Targets, NEW L, NEW code \in Codes, Tidy(s, t, L, {})
  PROVE  LET r == FailTarget(s, t, code)
         IN  /\ r \in Decks /\ Works(s, r, t, L) /\ Tidy(r, t, L, {}) /\ Quiet(s, r)
             /\ r.queue[t] = NoQueue
<1> DEFINE q == s.queue[t]
           m == Settle(s, q.active.parts, code)
           n == Settle(m, PartsOf(q.waiting), "STALE_INPUT")
           r == [n EXCEPT !.queue[t] = NoQueue]
<1>1. FailTarget(s, t, code) = r
  BY DEF FailTarget
<1>2. s \in Decks /\ q \in Queues
  BY DeckFields
<1>3. /\ m \in Decks /\ Quiet(s, m) /\ m.queue = s.queue
      /\ \A i \in Inputs : m.promise[i] = IF i \in q.active.parts /\ s.promise[i] = "open" THEN code
                                          ELSE s.promise[i]
  BY <1>2, SettleIs
<1>4. /\ n \in Decks /\ Quiet(m, n) /\ n.queue = m.queue
      /\ \A i \in Inputs : n.promise[i] = IF i \in PartsOf(q.waiting) /\ m.promise[i] = "open"
                                          THEN "STALE_INPUT" ELSE m.promise[i]
  <2>1. "STALE_INPUT" \in Codes \cup {"done"}
    BY DEF Codes
  <2> HIDE DEF m
  <2> QED
    BY <1>3, <2>1, SettleIs
<1>5. /\ r \in Decks /\ Quiet(n, r) /\ r.promise = n.promise
      /\ r.queue[t] = NoQueue /\ \A u \in Targets : u # t => r.queue[u] = n.queue[u]
  <2> HIDE DEF n
  <2> QED
    BY <1>4, Empties, SetQueueIs, SMTT(30)
<1> HIDE DEF r, n, m
<1>6. Quiet(s, r)
  BY <1>3, <1>4, <1>5 DEF Quiet, Untouched
<1>7. \A i \in q.active.parts : Mine(s, t, i) /\ i \notin L
  <2>1. 0 \in Places(q) /\ Place(q, 0) = q.active.parts
    BY <1>2, QueueFields DEF Places, Place
  <2> QED
    BY <2>1 DEF Tidy
<1>8. \A i \in PartsOf(q.waiting) : Mine(s, t, i) /\ i \notin L
  <2>1. q.waiting \in Seq(Intents) /\ DOMAIN q.waiting = 1 .. Len(q.waiting) /\ Len(q.waiting) \in Nat
    BY <1>2, QueueFields, LenProperties
  <2>2. \A k \in 1 .. Len(q.waiting) : k \in Places(q) /\ Place(q, k) = q.waiting[k].parts
    BY <2>1 DEF Places, Place
  <2> QED
    BY <2>1, <2>2 DEF Tidy, PartsOf
<1>9. ASSUME NEW i \in Inputs, r.promise[i] # s.promise[i]
      PROVE  /\ s.promise[i] = "open" /\ r.promise[i] \in Codes \cup {"done"}
             /\ Input[i].target = t /\ i \notin L
  <2>1. "STALE_INPUT" \in Codes
    BY DEF Codes
  <2> QED
    BY <1>3, <1>4, <1>5, <1>7, <1>8, <1>9, <2>1 DEF Mine
<1>10. Works(s, r, t, L)
  BY <1>2, <1>3, <1>4, <1>5, <1>6, <1>9, EmptyQueue, QuietWorks
<1>11. ASSUME NEW i \in Inputs, Mine(r, t, i), i \notin L
       PROVE  FALSE
  <2>1. r.promise[i] = "open" /\ Input[i].target = t
    BY <1>11 DEF Mine
  <2>2. s.promise[i] = "open"
    BY <1>9, <2>1, Empties
  <2>3. PICK k \in Places(q) : i \in Place(q, k)
    BY <1>11, <2>1, <2>2 DEF Tidy, Mine
  <2>4. i \in q.active.parts \/ i \in PartsOf(q.waiting)
    <3>1. q.waiting \in Seq(Intents) /\ DOMAIN q.waiting = 1 .. Len(q.waiting) /\ Len(q.waiting) \in Nat
      BY <1>2, QueueFields, LenProperties
    <3> QED
      BY <2>3, <3>1 DEF Place, Places, PartsOf
  <2>5. r.promise[i] \in Codes
    <3>1. "STALE_INPUT" \in Codes
      BY DEF Codes
    <3> QED
      BY <1>3, <1>4, <1>5, <2>2, <2>4, <3>1
  <2> QED
    BY <2>1, <2>5, Empties
<1>12. Tidy(r, t, L, {})
  BY <1>5, <1>11, NothingIsTidy
<1> QED
  BY <1>1, <1>5, <1>6, <1>10, <1>12

LEMMA FailTargetIs ==
  ASSUME NEW s, NEW t \in Targets, NEW L, NEW code \in Codes, Good(s, t, L)
  PROVE  LET r == FailTarget(s, t, code)
         IN  Leaves(s, r, t, L) /\ r.queue[t] = NoQueue /\ Quiet(s, r)
<1> DEFINE r == FailTarget(s, t, code)
<1>1. s \in Decks /\ Tidy(s, t, L, {}) /\ Sound(s)
  BY DEF Good, Sound
<1>2. /\ r \in Decks /\ Works(s, r, t, L) /\ Tidy(r, t, L, {}) /\ Quiet(s, r)
      /\ r.queue[t] = NoQueue
  BY <1>1, FailTargetTidies
<1> HIDE DEF r
<1>3. r.pend = s.pend
  BY <1>2 DEF Quiet
<1>4. Sound(r)
  BY <1>1, <1>2, <1>3, WorkIsSound
<1> QED
  BY <1>2, <1>4 DEF Leaves, Good, r

(* The intents of a queue in other places: none is lost, none is doubled.  *)
Rearranges(old, new) ==
  \E from \in [Places(new) -> Places(old)] :
     /\ \A n \in Places(new) : Place(new, n) \subseteq Place(old, from[n])
     /\ \A n, m \in Places(new) : n < m => from[n] < from[m]
     /\ \A k \in Places(old) : \A i \in Place(old, k) : \E n \in Places(new) : i \in Place(new, n)

LEMMA PlacesDiffer ==
  ASSUME NEW q, NEW w, NEW from \in [Places(w) -> Places(q)],
         \A n, m \in Places(w) : n < m => from[n] < from[m]
  PROVE  \A n, m \in Places(w) : n # m => from[n] # from[m]
<1> TAKE n, m \in Places(w)
<1> HAVE n # m
<1>1. n \in Int /\ m \in Int /\ from[n] \in Int /\ from[m] \in Int
  <2>1. from[n] \in Places(q) /\ from[m] \in Places(q)
    OBVIOUS
  <2>2. \A x : \A k \in Places(x) : k \in Int
    BY DEF Places
  <2> QED
    BY <2>1, <2>2
<1>2. from[n] < from[m] \/ from[m] < from[n]
  BY <1>1
<1> HIDE DEF Places
<1> QED
  BY <1>1, <1>2

LEMMA RearrangedIsTidy ==
  ASSUME NEW s, NEW r, NEW t \in Targets, NEW L, s \in Decks, r \in Decks, Tidy(s, t, L, {}),
         r.promise = s.promise, r.queue[t].born = s.queue[t].born, s.queue[t] # NoQueue,
         Rearranges(s.queue[t], r.queue[t])
  PROVE  Tidy(r, t, L, {})
<1> DEFINE q == s.queue[t]  w == r.queue[t]
<1>1. PICK from \in [Places(w) -> Places(q)] :
         /\ \A n \in Places(w) : Place(w, n) \subseteq Place(q, from[n])
         /\ \A n, m \in Places(w) : n < m => from[n] < from[m]
         /\ \A k \in Places(q) : \A i \in Place(q, k) : \E n \in Places(w) : i \in Place(w, n)
  BY DEF Rearranges
<1>2. \A i : Mine(r, t, i) <=> Mine(s, t, i)
  BY DEF Mine
<1>3. /\ q.born \in Inputs /\ s.promise[q.born] # "new"
      /\ \A n \in Places(q) : \A i \in Place(q, n) : Mine(s, t, i) /\ i \notin L
      /\ \A n, m \in Places(q) : n # m => Place(q, n) \cap Place(q, m) = {}
      /\ \A i \in Inputs : Mine(s, t, i) /\ i \notin L => \E n \in Places(q) : i \in Place(q, n)
  BY DEF Tidy
<1> HIDE DEF q, w
<1>4. \A n \in Places(w) : \A i \in Place(w, n) : Mine(r, t, i) /\ i \notin L
  BY <1>1, <1>2, <1>3
<1>5. \A n, m \in Places(w) : n # m => Place(w, n) \cap Place(w, m) = {}
  <2> TAKE n, m \in Places(w)
  <2> HAVE n # m
  <2>1. /\ from[n] \in Places(q) /\ from[m] \in Places(q) /\ from[n] # from[m]
        /\ Place(w, n) \subseteq Place(q, from[n]) /\ Place(w, m) \subseteq Place(q, from[m])
    BY <1>1, PlacesDiffer
  <2>2. Place(q, from[n]) \cap Place(q, from[m]) = {}
    BY <1>3, <2>1
  <2> QED
    BY <2>1, <2>2
<1>6. \A i \in Inputs : Mine(r, t, i) /\ i \notin L => \E n \in Places(w) : i \in Place(w, n)
  BY <1>1, <1>2, <1>3
<1>7. w.born \in Inputs /\ r.promise[w.born] # "new"
  BY <1>3 DEF q, w
<1> QED
  BY <1>4, <1>5, <1>6, <1>7 DEF Tidy, w

(* connection.issue: nothing but the number, the request and the message.  *)
LEMMA IssueIs ==
  ASSUME NEW s \in Decks, NEW p \in StateRequests \cup EditRequests, NEW m \in UpMessages
  PROVE  LET r == Issue(s, p, m)
         IN  /\ r \in Decks /\ Untouched(s, r) /\ r.queue = s.queue /\ r.promise = s.promise
             /\ r.seq = s.seq + 1 /\ r.pend = s.pend \cup {p} /\ r.out = Append(s.out, m)
<1>1. s.seq + 1 \in Nat /\ s.pend \cup {p} \in SUBSET (StateRequests \cup EditRequests)
      /\ Append(s.out, m) \in Seq(UpMessages)
  BY DeckFields, AppendProperties
<1>2. Issue(s, p, m) = [s EXCEPT !.seq = s.seq + 1, !.pend = s.pend \cup {p}, !.out = Append(s.out, m)]
  BY DEF Issue, Decks
<1>3. Issue(s, p, m) \in Decks
  <2> HIDE DEF UpMessages, StateRequests, EditRequests
  <2> DEFINE o == Append(s.out, m)
  <2>1. o \in Seq(UpMessages) /\ Issue(s, p, m) = [s EXCEPT !.seq = s.seq + 1, !.pend = s.pend \cup {p}, !.out = o]
    BY <1>1, <1>2
  <2> HIDE DEF o
  <2> QED
    BY <1>1, <2>1 DEF Decks
<1>4. /\ Untouched(s, Issue(s, p, m)) /\ Issue(s, p, m).queue = s.queue /\ Issue(s, p, m).promise = s.promise
      /\ Issue(s, p, m).seq = s.seq + 1 /\ Issue(s, p, m).pend = s.pend \cup {p}
      /\ Issue(s, p, m).out = Append(s.out, m)
  BY <1>2 DEF Decks, Untouched
<1> QED
  BY <1>3, <1>4

LEMMA EffectIs ==
  ASSUME NEW kind, NEW v \in 0 .. Top, NEW n \in Nat
  PROVE  Effect(kind, v, n) \in 0 .. Top
BY WireFacts DEF Effect

LEMMA DispatchIs ==
  ASSUME NEW s, NEW t \in Targets, NEW L, Good(s, t, L), s.queue[t] # NoQueue
  PROVE  Leaves(s, Dispatch(s, t), t, L)
<1>1. CASE t \notin s.snap.has
  <2>1. "NOT_FOUND" \in Codes
    BY DEF Codes
  <2>2. Dispatch(s, t) = FailTarget(s, t, "NOT_FOUND")
    BY <1>1 DEF Dispatch
  <2> QED
    BY <2>1, <2>2, FailTargetIs
<1>2. CASE t \in s.snap.has
  <2> DEFINE q == s.queue[t]  x == q.active  id == s.seq + 1
             w == [q EXCEPT !.active = Sent(x)]
             m == [s EXCEPT !.queue[t] = w]
             value == IF Computed(x.kind) THEN Effect(x.kind, s.snap.val[t], Cardinality(x.parts)) ELSE 0
             p == [id |-> id, op |-> "edit", target |-> t, born |-> q.born, session |-> s.snap.session]
             msg == EditCommand(id, s.snap.session, Revision(s, x),
                                IF Computed(x.kind) THEN "set" ELSE "toggle", t, value, x.parts)
  <2>1. s \in Decks /\ q \in Queues /\ x \in Intents /\ s.snap \in Snaps /\ s.seq \in Nat
    BY DeckFields, QueueFields DEF Good, Sound
  <2>2. m = [s EXCEPT !.queue[t].active = Sent(@)]
    BY <2>1 DEF Decks
  <2>3. Dispatch(s, t) = Issue(m, p, msg)
    BY <1>2, <2>2 DEF Dispatch
  <2>4. w \in Queues /\ w.active.parts = q.active.parts /\ w.waiting = q.waiting /\ w.born = q.born
    <3>1. Sent(x) \in Intents /\ Sent(x).parts = x.parts
      BY <2>1 DEF Sent, Intents
    <3> QED
      BY <2>1, <3>1 DEF Queues
  <2>5. q.born \in Inputs /\ s.promise[q.born] # "new"
    BY DEF Good, Tidy
  <2>6. p \in EditRequests
    BY <2>1, <2>5 DEF EditRequests, Snaps
  <2>7. msg \in UpMessages
    <3>1. value \in 0 .. Top
      <4>1. s.snap.val[t] \in 0 .. Top /\ IsFiniteSet(x.parts)
        BY <2>1, WireFacts, FS_Subset, QueueFields DEF Snaps, Values
      <4>2. Cardinality(x.parts) \in Nat
        BY <4>1, FS_CardinalityType
      <4> HIDE DEF x
      <4> QED
        BY <4>1, <4>2, EffectIs, WireFacts
    <3>2. Revision(s, x) \in Nat /\ s.snap.session \in Nat /\ x.parts \in SUBSET Inputs
      BY <2>1 DEF Revision, Snaps, Intents
    <3> HIDE DEF value, x
    <3>3. msg \in EditCommands
      BY <2>1, <3>1, <3>2 DEF EditCommands, EditCommand
    <3> QED
      BY <3>3 DEF UpMessages
  <2>8. /\ m \in Decks /\ Quiet(s, m) /\ m.promise = s.promise
        /\ m.queue[t] = w /\ \A u \in Targets : u # t => m.queue[u] = s.queue[u]
    <3> HIDE DEF w
    <3> QED
      BY <2>1, <2>4, SetQueueIs
  <2> DEFINE r == Issue(m, p, msg)
  <2> HIDE DEF m, p, msg
  <2>9. /\ r \in Decks /\ Untouched(m, r) /\ r.queue = m.queue /\ r.promise = m.promise
        /\ r.seq = m.seq + 1 /\ r.pend = m.pend \cup {p}
    BY <2>6, <2>7, <2>8, IssueIs
  <2> HIDE DEF r
  <2>10. r.seq = s.seq + 1 /\ r.pend = s.pend \cup {p} /\ r.promise = s.promise /\ Untouched(s, r)
    BY <2>8, <2>9 DEF Quiet, Untouched
  <2>11. Works(s, r, t, L)
    <3>1. r.queue[t].born = s.queue[t].born /\ \A u \in Targets : u # t => r.queue[u] = s.queue[u]
      BY <2>4, <2>8, <2>9
    <3>2. s.seq <= r.seq
      BY <2>1, <2>10
    <3> HIDE DEF q, x, id, w
    <3> QED
      BY <2>10, <3>1, <3>2 DEF Works
  <2>12. Sound(r)
    <3>1. p.id \in 1 .. r.seq /\ r.promise[p.born] # "new"
      BY <2>1, <2>5, <2>10 DEF p
    <3> QED
      BY <2>9, <2>10, <2>11, <3>1, WorkIsSound DEF Good
  <2>13. Rearranges(q, w)
    <3> DEFINE from == [n \in Places(w) |-> n]
    <3>1. Places(w) = Places(q) /\ \A n \in Places(w) : Place(w, n) = Place(q, n)
      BY <2>4 DEF Places, Place
    <3>2. from \in [Places(w) -> Places(q)]
      BY <3>1
    <3> QED
      BY <3>1, <3>2 DEF Rearranges
  <2>14. Tidy(r, t, L, {})
    <3>1. r.queue[t] = w
      BY <2>8, <2>9
    <3> QED
      BY <2>1, <2>4, <2>9, <2>10, <2>13, <3>1, RearrangedIsTidy DEF Good
  <2> QED
    BY <2>3, <2>11, <2>12, <2>14 DEF Leaves, Good, r
<1> QED
  BY <1>1, <1>2

LEMMA NoWork ==
  ASSUME NEW s, NEW t \in Targets, NEW L, Good(s, t, L)
  PROVE  Leaves(s, s, t, L)
<1>1. s.seq \in Nat
  BY DeckFields DEF Good, Sound
<1> QED
  BY <1>1 DEF Leaves, Works, Untouched

(* One piece of work behind another.                                       *)
LEMMA MoreWork ==
  ASSUME NEW s, NEW m, NEW r, NEW t \in Targets, NEW L,
         Good(s, t, L), Leaves(s, m, t, L), Leaves(m, r, t, L)
  PROVE  Leaves(s, r, t, L)
BY WorkGoesOn DEF Leaves, Good, Sound

(* A queue some places of which were emptied, as inputs in them are gone.  *)
Drops(old, new, gone) ==
  /\ \E from \in [Places(new) -> Places(old)] :
       /\ \A n \in Places(new) : Place(new, n) \subseteq Place(old, from[n])
       /\ \A n, m \in Places(new) : n < m => from[n] < from[m]
       /\ \A k \in Places(old) : \A i \in Place(old, k) :
             i \in gone \/ \E n \in Places(new) : i \in Place(new, n)
  /\ \A n \in Places(new) : Place(new, n) \cap gone = {}
  /\ \A i \in gone : \E k \in Places(old) : i \in Place(old, k)

LEMMA DropIs ==
  ASSUME NEW s, NEW t \in Targets, NEW L, Good(s, t, L), s.queue[t] # NoQueue,
         NEW w \in Queues, w.born = s.queue[t].born,
         NEW gone, Drops(s.queue[t], w, gone), NEW code \in Codes \cup {"done"}
  PROVE  LET r == Settle([s EXCEPT !.queue[t] = w], gone, code)
         IN  Leaves(s, r, t, L) /\ r.queue[t] = w
<1> DEFINE q == s.queue[t]  m == [s EXCEPT !.queue[t] = w]  r == Settle(m, gone, code)
<1>1. s \in Decks /\ q \in Queues
  BY DeckFields DEF Good, Sound
<1>2. /\ m \in Decks /\ Quiet(s, m) /\ m.promise = s.promise
      /\ m.queue[t] = w /\ \A u \in Targets : u # t => m.queue[u] = s.queue[u]
  BY <1>1, SetQueueIs
<1> HIDE DEF m
<1>3. /\ r \in Decks /\ Quiet(m, r) /\ r.queue = m.queue
      /\ \A i \in Inputs : r.promise[i] = IF i \in gone /\ m.promise[i] = "open" THEN code
                                          ELSE m.promise[i]
  BY <1>2, SettleIs
<1> HIDE DEF r
<1>4. Quiet(s, r) /\ r.queue[t] = w /\ \A u \in Targets : u # t => r.queue[u] = s.queue[u]
  BY <1>2, <1>3 DEF Quiet, Untouched
<1>5. /\ q.born \in Inputs /\ s.promise[q.born] # "new"
      /\ \A n \in Places(q) : \A i \in Place(q, n) : Mine(s, t, i) /\ i \notin L
      /\ \A n, k \in Places(q) : n # k => Place(q, n) \cap Place(q, k) = {}
      /\ \A i \in Inputs : Mine(s, t, i) /\ i \notin L => \E n \in Places(q) : i \in Place(q, n)
  BY DEF Good, Tidy
<1>6. PICK from \in [Places(w) -> Places(q)] :
         /\ \A n \in Places(w) : Place(w, n) \subseteq Place(q, from[n])
         /\ \A n, k \in Places(w) : n < k => from[n] < from[k]
         /\ \A k \in Places(q) : \A i \in Place(q, k) :
               i \in gone \/ \E n \in Places(w) : i \in Place(w, n)
  BY DEF Drops
<1>7. /\ \A n \in Places(w) : Place(w, n) \cap gone = {}
      /\ \A i \in gone : \E k \in Places(q) : i \in Place(q, k)
  BY DEF Drops
<1>8. w.born = q.born
  OBVIOUS
<1>9. \A n \in Places(w) : Place(w, n) \in SUBSET Inputs
  BY QueueFields
<1> HIDE DEF q
<1>10. \A i \in gone : Mine(s, t, i) /\ i \notin L
  BY <1>5, <1>7
<1>11. ASSUME NEW i \in Inputs
       PROVE  r.promise[i] = IF i \in gone THEN code ELSE s.promise[i]
  BY <1>2, <1>3, <1>10 DEF Mine
<1>12. Works(s, r, t, L)
  <2>1. \A i \in Inputs : r.promise[i] # s.promise[i] =>
            /\ s.promise[i] = "open" /\ r.promise[i] \in Codes \cup {"done"}
            /\ Input[i].target = t /\ i \notin L
    BY <1>10, <1>11 DEF Mine
  <2>2. r.queue[t].born \in {s.queue[t].born, 0}
    BY <1>4
  <2> QED
    BY <1>1, <1>4, <2>1, <2>2, QuietWorks
<1>13. Sound(r)
  <2>1. r.pend = s.pend
    BY <1>4 DEF Quiet
  <2> QED
    BY <1>3, <1>12, <2>1, WorkIsSound DEF Good
<1>14. code # "new" /\ code # "open"
  BY Empties
<1>15. Tidy(r, t, L, {})
  <2>1. w.born \in Inputs /\ r.promise[w.born] # "new"
    BY <1>5, <1>8, <1>11, <1>14
  <2>2. \A n \in Places(w) : \A i \in Place(w, n) : Mine(r, t, i) /\ i \notin L
    <3> TAKE n \in Places(w)
    <3> TAKE i \in Place(w, n)
    <3>1. i \in Inputs /\ i \notin gone /\ from[n] \in Places(q) /\ i \in Place(q, from[n])
      BY <1>6, <1>7, <1>9
    <3> QED
      BY <1>5, <1>11, <3>1 DEF Mine
  <2>3. \A n, k \in Places(w) : n # k => Place(w, n) \cap Place(w, k) = {}
    <3> TAKE n, k \in Places(w)
    <3> HAVE n # k
    <3>1. /\ from[n] \in Places(q) /\ from[k] \in Places(q) /\ from[n] # from[k]
          /\ Place(w, n) \subseteq Place(q, from[n]) /\ Place(w, k) \subseteq Place(q, from[k])
      BY <1>6, PlacesDiffer
    <3>2. Place(q, from[n]) \cap Place(q, from[k]) = {}
      BY <1>5, <3>1
    <3> QED
      BY <3>1, <3>2
  <2>4. \A i \in Inputs : Mine(r, t, i) /\ i \notin L => \E n \in Places(w) : i \in Place(w, n)
    <3> TAKE i \in Inputs
    <3> HAVE Mine(r, t, i) /\ i \notin L
    <3>1. i \notin gone /\ Mine(s, t, i)
      BY <1>11, <1>14 DEF Mine
    <3>2. PICK k \in Places(q) : i \in Place(q, k)
      BY <1>5, <3>1
    <3> QED
      BY <1>6, <3>1, <3>2
  <2> QED
    BY <1>4, <2>1, <2>2, <2>3, <2>4 DEF Tidy
<1> QED
  BY <1>4, <1>12, <1>13, <1>15 DEF Leaves, Good, r, m

(* One waiting intent less.                                                *)
LEMMA RemovalDrops ==
  ASSUME NEW s, NEW t \in Targets, NEW L, Good(s, t, L), NEW n \in 1 .. Len(s.queue[t].waiting)
  PROVE  LET q == s.queue[t]
             w == [q EXCEPT !.waiting = RemoveAt(@, n)]
         IN  /\ w \in Queues /\ w.born = q.born /\ q # NoQueue
             /\ Drops(q, w, q.waiting[n].parts)
<1> DEFINE q == s.queue[t]  v == RemoveAt(q.waiting, n)  w == [q EXCEPT !.waiting = v]
<1>1. s \in Decks /\ q \in Queues
  BY DeckFields DEF Good, Sound
<1>2. q.waiting \in Seq(Intents) /\ Len(q.waiting) \in Nat
  BY <1>1, QueueFields
<1>3. /\ v \in Seq(Intents) /\ Len(v) = Len(q.waiting) - 1
      /\ \A m \in 1 .. Len(q.waiting) - 1 : v[m] = IF m < n THEN q.waiting[m] ELSE q.waiting[m + 1]
  BY <1>2, RemoveAtIs
<1> HIDE DEF v
<1>4. w \in Queues /\ w.born = q.born /\ w.waiting = v /\ w.active = q.active
  BY <1>1, <1>3 DEF Queues
<1>5. q # NoQueue
  BY <1>2, EmptyQueue, EmptySeq
<1>6. \A k, m \in Places(q) : k # m => Place(q, k) \cap Place(q, m) = {}
  BY DEF Good, Tidy
<1> HIDE DEF q, w
<1> DEFINE gone == q.waiting[n].parts
           from == [m \in Places(w) |-> IF m < n THEN m ELSE m + 1]
<1>7. n \in 1 .. Len(q.waiting) /\ n \in Places(q) /\ Place(q, n) = gone
  BY <1>2 DEF Places, Place, q
<1>8. Places(w) = 0 .. Len(q.waiting) - 1 /\ Places(q) = 0 .. Len(q.waiting)
  BY <1>3, <1>4 DEF Places
<1>9. from \in [Places(w) -> Places(q)]
  BY <1>2, <1>7, <1>8
<1>10. ASSUME NEW m \in Places(w)
       PROVE  Place(w, m) = Place(q, from[m]) /\ from[m] # n
  <2>1. CASE m = 0
    BY <1>4, <1>7, <2>1 DEF Place
  <2>2. CASE m # 0
    <3>1. m \in 1 .. Len(q.waiting) - 1 /\ from[m] # 0 /\ from[m] = IF m < n THEN m ELSE m + 1
      BY <1>2, <1>7, <1>8, <2>2
    <3>2. w.waiting[m] = q.waiting[from[m]]
      BY <1>3, <1>4, <3>1
    <3> QED
      BY <1>7, <2>2, <3>1, <3>2 DEF Place
  <2> QED
    BY <2>1, <2>2
<1>11. \A m, k \in Places(w) : m < k => from[m] < from[k]
  BY <1>2, <1>7, <1>8
<1>12. ASSUME NEW k \in Places(q), NEW i \in Place(q, k)
       PROVE  i \in gone \/ \E m \in Places(w) : i \in Place(w, m)
  <2>1. CASE k = n
    BY <1>7, <2>1
  <2>2. CASE k < n
    <3>1. k \in Places(w) /\ from[k] = k
      BY <1>2, <1>7, <1>8, <2>2
    <3> QED
      BY <1>10, <3>1
  <2>3. CASE k > n
    <3>1. k - 1 \in Places(w) /\ from[k - 1] = k
      BY <1>2, <1>7, <1>8, <2>3
    <3> QED
      BY <1>10, <3>1
  <2> QED
    BY <1>7, <1>8, <2>1, <2>2, <2>3
<1>13. \A m \in Places(w) : Place(w, m) \cap gone = {}
  <2> TAKE m \in Places(w)
  <2>1. from[m] \in Places(q)
    BY <1>9
  <2> QED
    BY <1>6, <1>7, <1>10, <2>1
<1>14. \A i \in gone : \E k \in Places(q) : i \in Place(q, k)
  BY <1>7
<1> HIDE DEF from, gone
<1>15. Drops(q, w, gone)
  BY <1>9, <1>10, <1>11, <1>12, <1>13, <1>14 DEF Drops
<1> QED
  BY <1>4, <1>5, <1>15 DEF q, w, v, gone

LEMMA StartNextIs ==
  ASSUME NEW s, NEW t \in Targets, NEW L, Good(s, t, L), s.queue[t] # NoQueue,
         s.queue[t].active.parts = {}
  PROVE  Leaves(s, StartNext(s, t), t, L)
<1> DEFINE q == s.queue[t]
<1>1. s \in Decks /\ q \in Queues
  BY DeckFields DEF Good, Sound
<1>2. q.waiting \in Seq(Intents) /\ Len(q.waiting) \in Nat
  BY <1>1, QueueFields
<1>3. CASE q.waiting = << >>
  <2> DEFINE r == [s EXCEPT !.queue[t] = NoQueue]
  <2>1. StartNext(s, t) = r
    BY <1>3 DEF StartNext
  <2>2. /\ r \in Decks /\ Quiet(s, r) /\ r.promise = s.promise
        /\ r.queue[t] = NoQueue /\ \A u \in Targets : u # t => r.queue[u] = s.queue[u]
    BY <1>1, Empties, SetQueueIs
  <2> HIDE DEF r
  <2>3. Works(s, r, t, L)
    BY <1>1, <2>2, EmptyQueue, QuietWorks
  <2>4. Sound(r)
    <3>1. r.pend = s.pend
      BY <2>2 DEF Quiet
    <3> QED
      BY <2>2, <2>3, <3>1, WorkIsSound DEF Good
  <2>5. Places(q) = {0} /\ Place(q, 0) = {}
    BY <1>3, EmptySeq DEF Places, Place
  <2>6. \A i \in Inputs : Mine(r, t, i) => i \in L
    BY <2>2, <2>5 DEF Good, Tidy, Mine
  <2>7. Tidy(r, t, L, {})
    BY <2>2, <2>6, NothingIsTidy
  <2> QED
    BY <2>1, <2>3, <2>4, <2>7 DEF Leaves, Good
<1>4. CASE q.waiting # << >> /\ ~ q.waiting[1].ripe
  BY <1>4, NoWork DEF StartNext, NextOf
<1>5. CASE q.waiting # << >> /\ q.waiting[1].ripe
  <2> DEFINE v == RemoveAt(q.waiting, 1)
             w == [q EXCEPT !.active = q.waiting[1], !.waiting = v]
             m == [s EXCEPT !.queue[t] = w]
  <2>1. StartNext(s, t) = Dispatch(m, t)
    <3>1. m = [s EXCEPT !.queue[t].active = q.waiting[1], !.queue[t].waiting = RemoveAt(@, 1)]
      BY <1>1 DEF Decks, Queues
    <3> QED
      BY <1>5, <3>1 DEF StartNext, NextOf
  <2>2. 1 \in 1 .. Len(q.waiting) /\ q.waiting[1] \in Intents
    BY <1>1, <1>2, <1>5, EmptySeq, QueueFields
  <2>3. /\ v \in Seq(Intents) /\ Len(v) = Len(q.waiting) - 1
        /\ \A n \in 1 .. Len(q.waiting) - 1 : v[n] = IF n < 1 THEN q.waiting[n] ELSE q.waiting[n + 1]
    BY <1>2, <2>2, RemoveAtIs
  <2> HIDE DEF v
  <2>4. w \in Queues /\ w.born = q.born /\ w.active = q.waiting[1] /\ w.waiting = v
    BY <1>1, <2>2, <2>3 DEF Queues
  <2> HIDE DEF w
  <2>5. /\ m \in Decks /\ Quiet(s, m) /\ m.promise = s.promise
        /\ m.queue[t] = w /\ \A u \in Targets : u # t => m.queue[u] = s.queue[u]
    BY <1>1, <2>4, SetQueueIs
  <2> HIDE DEF m
  <2>6. Works(s, m, t, L)
    BY <1>1, <2>4, <2>5, QuietWorks
  <2>7. Sound(m)
    <3>1. m.pend = s.pend
      BY <2>5 DEF Quiet
    <3> QED
      BY <2>5, <2>6, <3>1, WorkIsSound DEF Good
  <2>8. Rearranges(q, w)
    <3> DEFINE from == [n \in Places(w) |-> n + 1]
    <3>1. Places(q) = 0 .. Len(q.waiting) /\ Places(w) = 0 .. Len(q.waiting) - 1
      BY <2>3, <2>4 DEF Places
    <3>2. from \in [Places(w) -> Places(q)]
      BY <1>2, <3>1
    <3>3. ASSUME NEW n \in Places(w)
          PROVE  Place(w, n) = Place(q, n + 1)
      <4>1. CASE n = 0
        BY <2>4, <4>1 DEF Place
      <4>2. CASE n # 0
        <5>1. w.waiting[n] = q.waiting[n + 1] /\ n + 1 # 0
          BY <1>2, <2>3, <2>4, <3>1, <4>2, SMTT(30)
        <5> QED
          BY <4>2, <5>1 DEF Place
      <4> QED
        BY <4>1, <4>2
    <3>4. \A n, k \in Places(w) : n < k => from[n] < from[k]
      BY <1>2, <3>1
    <3>5. ASSUME NEW k \in Places(q), NEW i \in Place(q, k)
          PROVE  \E n \in Places(w) : i \in Place(w, n)
      <4>1. k # 0
        <5>1. Place(q, 0) = {}
          BY DEF Place
        <5> QED
          BY <5>1
      <4>2. k - 1 \in Places(w) /\ (k - 1) + 1 = k
        BY <1>2, <3>1, <4>1
      <4> QED
        BY <3>3, <4>2
    <3> QED
      BY <3>2, <3>3, <3>4, <3>5 DEF Rearranges
  <2>9. Tidy(m, t, L, {})
    BY <1>1, <2>4, <2>5, <2>8, RearrangedIsTidy DEF Good
  <2>10. Leaves(s, m, t, L)
    BY <2>6, <2>7, <2>9 DEF Leaves, Good
  <2>11. m.queue[t] # NoQueue
    <3>1. q.born \in Inputs
      BY DEF Good, Tidy
    <3> QED
      BY <2>4, <2>5, <3>1, EmptyQueue, WireFacts
  <2>12. Leaves(m, Dispatch(m, t), t, L)
    BY <2>10, <2>11, DispatchIs DEF Leaves
  <2> QED
    BY <2>1, <2>10, <2>12, MoreWork
<1> QED
  BY <1>3, <1>4, <1>5

LEMMA SendAgainIs ==
  ASSUME NEW s, NEW t \in Targets, NEW L, Good(s, t, L), s.queue[t] # NoQueue
  PROVE  Leaves(s, SendAgain(s, t), t, L)
<1>1. "INPUT_EXPIRED" \in Codes
  BY DEF Codes
<1>2. Leaves(s, s, t, L) /\ Leaves(s, FailTarget(s, t, "INPUT_EXPIRED"), t, L)
      /\ Leaves(s, Dispatch(s, t), t, L)
  BY <1>1, NoWork, FailTargetIs, DispatchIs
<1> QED
  BY <1>2 DEF SendAgain

LEMMA AdvanceIs ==
  ASSUME NEW s, NEW t \in Targets, NEW L, Good(s, t, L)
  PROVE  Leaves(s, Advance(s, t), t, L)
<1> DEFINE q == s.queue[t]
<1>1. s \in Decks /\ q \in Queues
  BY DeckFields DEF Good, Sound
<1>2. CASE q = NoQueue \/ ~ HasSnap(s) \/ ~ Ready(s)
  BY <1>2, NoWork DEF Advance
<1>3. CASE q # NoQueue /\ HasSnap(s) /\ Ready(s) /\ q.active = NoIntent
  <2>1. Advance(s, t) = StartNext(s, t)
    BY <1>3 DEF Advance
  <2> QED
    BY <1>3, <2>1, EmptyQueue, StartNextIs
<1>4. CASE q # NoQueue /\ HasSnap(s) /\ Ready(s) /\ q.active # NoIntent /\ Reached(s, q)
  <2> DEFINE w == [q EXCEPT !.active = NoIntent, !.ack = NoAck]
             gone == q.active.parts
             m == Settle([s EXCEPT !.queue[t] = w], gone, "done")
  <2>1. [s EXCEPT !.queue[t].active = NoIntent, !.queue[t].ack = NoAck] = [s EXCEPT !.queue[t] = w]
    BY <1>1 DEF Decks, Queues
  <2>2. Advance(s, t) = StartNext(m, t)
    BY <1>4, <2>1 DEF Advance
  <2>3. w \in Queues /\ w.born = q.born /\ w.active = NoIntent /\ w.waiting = q.waiting
    BY <1>1, Empties DEF Queues
  <2> HIDE DEF w
  <2>4. Drops(q, w, gone)
    <3> DEFINE from == [n \in Places(w) |-> n]
    <3>1. Places(w) = Places(q) /\ 0 \in Places(q)
      BY <1>1, <2>3, QueueFields DEF Places
    <3>2. Place(w, 0) = {} /\ Place(q, 0) = gone /\ \A n \in Places(w) : n # 0 => Place(w, n) = Place(q, n)
      BY <2>3, EmptyQueue DEF Place
    <3>3. \A n \in Places(q) : n # 0 => Place(q, n) \cap Place(q, 0) = {}
      BY <3>1 DEF Good, Tidy
    <3>4. from \in [Places(w) -> Places(q)]
      BY <3>1
    <3> HIDE DEF gone
    <3>5. \A n \in Places(w) : Place(w, n) \subseteq Place(q, n) /\ Place(w, n) \cap gone = {}
      BY <3>1, <3>2, <3>3
    <3>6. \A k \in Places(q) : \A i \in Place(q, k) : i \in gone \/ \E n \in Places(w) : i \in Place(w, n)
      BY <3>1, <3>2
    <3>7. \A i \in gone : \E k \in Places(q) : i \in Place(q, k)
      BY <3>1, <3>2
    <3> QED
      BY <3>4, <3>5, <3>6, <3>7 DEF Drops
  <2>5. Leaves(s, m, t, L) /\ m.queue[t] = w
    <3> HIDE DEF gone
    <3> QED
      BY <1>4, <2>3, <2>4, DropIs
  <2> HIDE DEF m
  <2>6. m.queue[t] # NoQueue
    <3>1. q.born \in Inputs
      BY <1>4 DEF Good, Tidy
    <3> QED
      BY <2>3, <2>5, <3>1, EmptyQueue, WireFacts
  <2>7. Leaves(m, StartNext(m, t), t, L)
    BY <2>3, <2>5, <2>6, EmptyQueue, StartNextIs DEF Leaves
  <2> QED
    BY <2>2, <2>5, <2>7, MoreWork
<1>5. CASE q # NoQueue /\ HasSnap(s) /\ Ready(s) /\ q.active # NoIntent /\ ~ Reached(s, q)
  <2>1. Advance(s, t) = SendAgain(s, t)
    BY <1>5 DEF Advance
  <2> QED
    BY <1>5, <2>1, SendAgainIs
<1> QED
  BY <1>2, <1>3, <1>4, <1>5

-----------------------------------------------------------------------------
(* All the queues. *)

AllGood(s) == Sound(s) /\ \A t \in Targets : Tidy(s, t, {}, {})

LEMMA MovesGoOn ==
  ASSUME NEW s \in Decks, NEW m \in Decks, NEW r \in Decks, Moves(s, m), Moves(m, r)
  PROVE  Moves(s, r)
<1>1. Untouched(s, r)
  BY DEF Moves, Untouched
<1>2. s.seq <= r.seq
  BY DeckFields DEF Moves
<1>3. \A t \in Targets : r.queue[t].born \in {s.queue[t].born, 0}
  BY DEF Moves
<1>4. ASSUME NEW i \in Inputs, r.promise[i] # s.promise[i]
      PROVE  s.promise[i] = "open" /\ r.promise[i] \in Codes \cup {"done"}
  BY <1>4, Empties DEF Moves
<1> QED
  BY <1>1, <1>2, <1>3, <1>4 DEF Moves

LEMMA MovesNot ==
  ASSUME NEW s \in Decks
  PROVE  Moves(s, s)
BY DeckFields DEF Moves, Untouched

(* Work on one queue, seen from all of them.                               *)
LEMMA OneMoves ==
  ASSUME NEW s, AllGood(s), NEW t \in Targets, NEW r, Leaves(s, r, t, {})
  PROVE  AllGood(r) /\ Moves(s, r)
<1>1. s \in Decks /\ r \in Decks
  BY DEF AllGood, Leaves, Good, Sound
<1>2. \A u \in Targets : Tidy(r, u, {}, {})
  BY <1>1, WorkElsewhere DEF AllGood, Leaves, Good
<1> QED
  BY <1>1, <1>2, WorkMoves DEF AllGood, Leaves, Good

(* What every advance keeps, advancing them all keeps.                     *)
LEMMA AdvancesIn ==
  ASSUME NEW R, NEW s \in R, \A t \in Targets, r \in R : Advance(r, t) \in R
  PROVE  AdvanceAll(s) \in R
<1> DEFINE choose == [S \in SUBSET Targets |-> CHOOSE t \in S : TRUE]
           h == [p \in Targets \X R |-> Advance(p[2], p[1])]
           rec(g) == [S \in SUBSET Targets |->
                        IF S = {} THEN s
                        ELSE LET t == CHOOSE t \in S : TRUE IN Advance(g[S \ {t}], t)]
           iter == CHOOSE g : g = rec(g)
<1>1. AdvanceAll(s) = iter[Targets]
  BY DEF AdvanceAll, FoldSet, MapThenFoldSet
<1>4. h \in [Targets \X R -> R]
  OBVIOUS
<1>5. \A S \in SUBSET Targets : S # {} => choose[S] \in S /\ choose[S] = CHOOSE t \in S : TRUE
  OBVIOUS
<1>6. \A t \in Targets, r \in R : h[t, r] = Advance(r, t)
  OBVIOUS
<1> HIDE DEF choose, h
<1>7. PICK f : FoldsOver(f, Targets, R, s, h, choose)
  BY <1>4, <1>5, WireFacts, SubsetRecursion
<1>8. f \in [SUBSET Targets -> R]
      /\ \A S \in SUBSET Targets : f[S] = IF S = {} THEN s ELSE h[choose[S], f[S \ {choose[S]}]]
  BY <1>7 DEF FoldsOver
<1>9. f = rec(f)
  <2>1. ASSUME NEW S \in SUBSET Targets, S # {}
        PROVE  f[S] = LET t == CHOOSE t \in S : TRUE IN Advance(f[S \ {t}], t)
    <3>1. choose[S] \in Targets /\ S \ {choose[S]} \in SUBSET Targets
      BY <1>5, <2>1
    <3>2. f[S \ {choose[S]}] \in R
      BY <1>8, <3>1
    <3> QED
      BY <1>5, <1>6, <1>8, <2>1, <3>1, <3>2
  <2> QED
    BY <1>8, <2>1
<1>10. iter = rec(iter)
  BY <1>9
<1> HIDE DEF iter
<1> DEFINE T == {S \in SUBSET Targets : iter[S] \in R}
<1>11. {} \in T
  BY <1>10
<1>12. ASSUME NEW S \in SUBSET Targets, S # {}, S \ {choose[S]} \in T
       PROVE  S \in T
  <2>1. iter[S] = Advance(iter[S \ {choose[S]}], choose[S])
    BY <1>5, <1>10, <1>12
  <2> QED
    BY <1>5, <1>12, <2>1
<1> HIDE DEF T
<1>13. SUBSET Targets \subseteq T
  <2>1. IsFiniteSet(Targets)
    BY WireFacts
  <2>2. \A S \in SUBSET Targets : S # {} => choose[S] \in S
    BY <1>5
  <2>3. \A S \in SUBSET Targets : S # {} /\ S \ {choose[S]} \in T => S \in T
    BY <1>12
  <2> HIDE DEF iter, choose
  <2> QED
    BY <1>11, <2>1, <2>2, <2>3, SubsetInduction
<1> QED
  BY <1>1, <1>13 DEF T

LEMMA AdvanceAllIs ==
  ASSUME NEW s, AllGood(s)
  PROVE  AllGood(AdvanceAll(s)) /\ Moves(s, AdvanceAll(s))
<1> DEFINE R == {r \in Decks : AllGood(r) /\ Moves(s, r)}
<1>1. s \in Decks /\ s \in R
  BY MovesNot DEF AllGood, Sound
<1>2. ASSUME NEW t \in Targets, NEW r \in R
      PROVE  Advance(r, t) \in R
  <2>1. Leaves(r, Advance(r, t), t, {})
    BY AdvanceIs DEF AllGood, Good
  <2>2. AllGood(Advance(r, t)) /\ Moves(r, Advance(r, t)) /\ Advance(r, t) \in Decks
    BY <2>1, OneMoves DEF Leaves, Good, Sound
  <2> QED
    BY <1>1, <2>2, MovesGoOn
<1> HIDE DEF R
<1>3. AdvanceAll(s) \in R
  BY <1>1, <1>2, AdvancesIn
<1> QED
  BY <1>3 DEF R

(* The boundary of a session: every queue is given up, so that no input is *)
(* open any more.                                                          *)
Cleared(s) == \A t \in Targets : s.queue[t] = NoQueue
AllTidy(s) == s \in Decks /\ \A t \in Targets : Tidy(s, t, {}, {})

LEMMA QuietGoesOn ==
  ASSUME NEW s, NEW m, NEW r, Quiet(s, m), Quiet(m, r)
  PROVE  Quiet(s, r)
BY DEF Quiet, Untouched

(* What giving up a queue keeps, giving up all of them keeps; D says of    *)
(* which queue what is so once it was given up.                            *)
LEMMA ClearsIn ==
  ASSUME NEW R, NEW s \in R, NEW code, NEW D,
         \A t \in Targets, r \in R :
            /\ FailTarget(r, t, code) \in R /\ <<t, FailTarget(r, t, code)>> \in D
            /\ \A u \in Targets : u # t /\ <<u, r>> \in D => <<u, FailTarget(r, t, code)>> \in D
  PROVE  Clear(s, code) \in R /\ \A u \in Targets : <<u, Clear(s, code)>> \in D
<1> DEFINE choose == [S \in SUBSET Targets |-> CHOOSE t \in S : TRUE]
           h == [p \in Targets \X R |-> FailTarget(p[2], p[1], code)]
           rec(g) == [S \in SUBSET Targets |->
                        IF S = {} THEN s
                        ELSE LET t == CHOOSE t \in S : TRUE IN FailTarget(g[S \ {t}], t, code)]
           iter == CHOOSE g : g = rec(g)
<1>1. Clear(s, code) = iter[Targets]
  BY DEF Clear, FoldSet, MapThenFoldSet
<1>4. h \in [Targets \X R -> R]
  OBVIOUS
<1>5. \A S \in SUBSET Targets : S # {} => choose[S] \in S /\ choose[S] = CHOOSE t \in S : TRUE
  OBVIOUS
<1>6. \A t \in Targets, r \in R : h[t, r] = FailTarget(r, t, code)
  OBVIOUS
<1> HIDE DEF choose, h
<1>7. PICK f : FoldsOver(f, Targets, R, s, h, choose)
  BY <1>4, <1>5, WireFacts, SubsetRecursion
<1>8. f \in [SUBSET Targets -> R]
      /\ \A S \in SUBSET Targets : f[S] = IF S = {} THEN s ELSE h[choose[S], f[S \ {choose[S]}]]
  BY <1>7 DEF FoldsOver
<1>9. f = rec(f)
  <2>1. ASSUME NEW S \in SUBSET Targets, S # {}
        PROVE  f[S] = LET t == CHOOSE t \in S : TRUE IN FailTarget(f[S \ {t}], t, code)
    <3>1. choose[S] \in Targets /\ S \ {choose[S]} \in SUBSET Targets
      BY <1>5, <2>1
    <3>2. f[S \ {choose[S]}] \in R
      BY <1>8, <3>1
    <3> QED
      BY <1>5, <1>6, <1>8, <2>1, <3>1, <3>2, ZenonT(60)
  <2> QED
    BY <1>8, <2>1
<1>10. iter = rec(iter)
  BY <1>9
<1> HIDE DEF iter
<1> DEFINE T == {S \in SUBSET Targets : iter[S] \in R /\ \A u \in S : <<u, iter[S]>> \in D}
<1>11. {} \in T
  BY <1>10
<1>12. ASSUME NEW S \in SUBSET Targets, S # {}, S \ {choose[S]} \in T
       PROVE  S \in T
  <2> DEFINE t == choose[S]  r == iter[S \ {choose[S]}]
  <2>1. iter[S] = FailTarget(r, t, code)
    BY <1>5, <1>10, <1>12
  <2>2. t \in Targets /\ r \in R /\ \A u \in S : u # t => u \in Targets /\ <<u, r>> \in D
    BY <1>5, <1>12
  <2>3. /\ FailTarget(r, t, code) \in R /\ <<t, FailTarget(r, t, code)>> \in D
        /\ \A u \in Targets : u # t /\ <<u, r>> \in D => <<u, FailTarget(r, t, code)>> \in D
    <3> HIDE DEF t, r
    <3> QED
      BY <2>2
  <2> QED
    BY <2>1, <2>2, <2>3
<1> HIDE DEF T
<1>13. SUBSET Targets \subseteq T
  <2>1. IsFiniteSet(Targets)
    BY WireFacts
  <2>2. \A S \in SUBSET Targets : S # {} => choose[S] \in S
    BY <1>5
  <2>3. \A S \in SUBSET Targets : S # {} /\ S \ {choose[S]} \in T => S \in T
    BY <1>12
  <2> QED
    BY <1>11, <2>1, <2>2, <2>3, SubsetInduction
<1> QED
  BY <1>1, <1>13 DEF T

LEMMA BoundaryIs ==
  ASSUME NEW s, AllTidy(s)
  PROVE  LET r == Boundary(s)
         IN  AllTidy(r) /\ Moves(s, r) /\ Quiet(s, r) /\ Cleared(r)
<1> DEFINE code == "STALE_INPUT"
           R == {r \in Decks : AllTidy(r) /\ Moves(s, r) /\ Quiet(s, r)}
           D == {p \in Targets \X Decks : p[2].queue[p[1]] = NoQueue}
<1>1. Boundary(s) = Clear(s, code)
  BY DEF Boundary
<1>2. s \in Decks /\ s \in R
  BY MovesNot DEF AllTidy, Quiet, Untouched
<1>3. ASSUME NEW t \in Targets, NEW r \in R
      PROVE  /\ FailTarget(r, t, code) \in R /\ <<t, FailTarget(r, t, code)>> \in D
             /\ \A u \in Targets : u # t /\ <<u, r>> \in D => <<u, FailTarget(r, t, code)>> \in D
  <2> DEFINE e == FailTarget(r, t, code)
  <2>1. /\ e \in Decks /\ Works(r, e, t, {}) /\ Tidy(e, t, {}, {}) /\ Quiet(r, e)
        /\ e.queue[t] = NoQueue
    <3>1. code \in Codes
      BY DEF Codes
    <3> QED
      BY <3>1, FailTargetTidies DEF AllTidy
  <2> HIDE DEF e, code
  <2>2. \A u \in Targets : Tidy(e, u, {}, {})
    BY <2>1, WorkElsewhere DEF AllTidy
  <2>3. Moves(s, e)
    BY <1>2, <2>1, WorkMoves, MovesGoOn
  <2>4. Quiet(s, e)
    BY <2>1, QuietGoesOn
  <2>5. \A u \in Targets : u # t => e.queue[u] = r.queue[u]
    BY <2>1 DEF Works
  <2>6. e \in R
    BY <2>1, <2>2, <2>3, <2>4 DEF AllTidy
  <2>7. <<t, e>> \in D /\ \A u \in Targets : u # t /\ <<u, r>> \in D => <<u, e>> \in D
    BY <2>1, <2>5
  <2> QED
    BY <2>6, <2>7 DEF e
<1> HIDE DEF R, D, code
<1>4. Clear(s, code) \in R /\ \A u \in Targets : <<u, Clear(s, code)>> \in D
  BY <1>2, <1>3, ClearsIn
<1> QED
  BY <1>1, <1>4 DEF R, D, Cleared

(* What is sound is so with whatever else it says, if its queues and its   *)
(* promises are the same.                                                  *)
LEMMA ReframedIsGood ==
  ASSUME NEW s, NEW r \in Decks, AllTidy(s), r.queue = s.queue, r.promise = s.promise,
         PendSound(r), AnswersSound(r)
  PROVE  AllGood(r)
<1>1. \A t \in Targets : Tidy(r, t, {}, {})
  BY DEF AllTidy, Tidy, Mine
<1> QED
  BY <1>1 DEF AllGood, Sound

LEMMA GoodIsTidy ==
  ASSUME NEW s, AllGood(s)
  PROVE  AllTidy(s) /\ s \in Decks /\ PendSound(s) /\ AnswersSound(s)
BY DEF AllGood, Sound, AllTidy

(* What was asked and answered stays sound across a boundary, under any    *)
(* code: the queues it is for are gone.                                    *)
LEMMA BoundaryIsSound ==
  ASSUME NEW s, AllTidy(s), PendSound(s), \A a \in s.answers : s.promise[a.born] # "new"
  PROVE  AllGood(Boundary(s))
<1> DEFINE r == Boundary(s)
<1>1. AllTidy(r) /\ Moves(s, r) /\ Quiet(s, r) /\ Cleared(r)
  BY BoundaryIs
<1> HIDE DEF r
<1>2. s \in Decks /\ r \in Decks
  BY <1>1 DEF AllTidy
<1>3. \A i \in Inputs : s.promise[i] # "new" => r.promise[i] # "new"
  BY <1>1, Empties DEF Moves
<1>4. r.pend = s.pend /\ r.seq = s.seq /\ r.answers = s.answers
  BY <1>1 DEF Quiet, Untouched
<1>5. PendSound(r)
  <2>1. \A p \in s.pend : p.op = "edit" => p.born \in Inputs
    BY <1>2, DeckFields DEF StateRequests, EditRequests
  <2> QED
    BY <1>3, <1>4, <2>1 DEF PendSound
<1>6. AnswersSound(r)
  <2>1. \A a \in s.answers : a.born \in Inputs /\ a.target \in Targets
    BY <1>2, DeckFields DEF Replies
  <2>2. \A t \in Targets : r.queue[t].born = 0
    BY <1>1, EmptyQueue DEF Cleared
  <2> QED
    BY <1>3, <1>4, <2>1, <2>2, WireFacts DEF AnswersSound
<1> QED
  BY <1>1, <1>2, <1>5, <1>6 DEF AllGood, Sound, AllTidy, r

-----------------------------------------------------------------------------
(* A key leaves the deck. *)

(* What Without leaves: the intents without what is gone, but for those    *)
(* that are left empty.                                                    *)
Culls(r, w, gone) ==
  \E from \in [1 .. Len(r) -> 1 .. Len(w)] :
     /\ \A k \in 1 .. Len(r) : /\ r[k].parts = w[from[k]].parts \ gone
                               /\ r[k].kind = w[from[k]].kind
     /\ \A k, l \in 1 .. Len(r) : k < l => from[k] < from[l]
     /\ \A m \in 1 .. Len(w) : w[m].parts \ gone # {} => \E k \in 1 .. Len(r) : from[k] = m

LEMMA WithoutIs ==
  ASSUME NEW w \in Seq(Intents), NEW gone
  PROVE  Without(w, gone) \in Seq(Intents) /\ Culls(Without(w, gone), w, gone)
<1> DEFINE left == [n \in DOMAIN w |-> [w[n] EXCEPT !.parts = @ \ gone]]
           hit == {n \in DOMAIN left : left[n].parts # {}}
           r == Those(left, hit)
<1>1. Without(w, gone) = r
  BY DEF Without
<1>2. Len(w) \in Nat /\ DOMAIN w = 1 .. Len(w) /\ \A n \in 1 .. Len(w) : w[n] \in Intents
  BY LenProperties, ElementOfSeq
<1>3. \A n \in 1 .. Len(w) : [w[n] EXCEPT !.parts = @ \ gone] \in Intents
                             /\ [w[n] EXCEPT !.parts = @ \ gone].parts = w[n].parts \ gone
                             /\ [w[n] EXCEPT !.parts = @ \ gone].kind = w[n].kind
  BY <1>2 DEF Intents
<1>4. /\ left \in [1 .. Len(w) -> Intents]
      /\ \A n \in 1 .. Len(w) : left[n].parts = w[n].parts \ gone /\ left[n].kind = w[n].kind
  BY <1>2, <1>3
<1> HIDE DEF left
<1>5. left \in Seq(Intents) /\ Len(left) = Len(w)
  BY <1>2, <1>4, IsASeq, LenProperties
<1>6. hit = {n \in 1 .. Len(w) : w[n].parts \ gone # {}}
  BY <1>4
<1>7. r \in Seq(Intents) /\ Selects(r, left, Len(left), hit)
  BY <1>5, ThoseAre
<1> HIDE DEF r, hit
<1>8. PICK from \in [1 .. Len(r) -> (1 .. Len(left)) \cap hit] :
        /\ \A k \in 1 .. Len(r) : r[k] = left[from[k]]
        /\ \A k, l \in 1 .. Len(r) : k < l => from[k] < from[l]
        /\ \A m \in (1 .. Len(left)) \cap hit : \E k \in 1 .. Len(r) : from[k] = m
  BY <1>7 DEF Selects
<1>9. from \in [1 .. Len(r) -> 1 .. Len(w)]
  BY <1>5, <1>8
<1>10. \A k \in 1 .. Len(r) : r[k].parts = w[from[k]].parts \ gone /\ r[k].kind = w[from[k]].kind
  BY <1>4, <1>8, <1>9
<1>11. \A m \in 1 .. Len(w) : w[m].parts \ gone # {} => \E k \in 1 .. Len(r) : from[k] = m
  BY <1>5, <1>6, <1>8
<1>12. Culls(r, w, gone)
  BY <1>8, <1>9, <1>10, <1>11 DEF Culls
<1> QED
  BY <1>1, <1>7, <1>12

(* The queue of a target without what is gone, and the deck with it.       *)
Rest(q, gone) == [q EXCEPT !.waiting = Without(@, gone), !.active.parts = @ \ gone]

Remains(q, w, gone) ==
  \E back \in [Places(w) -> Places(q)] :
     /\ \A n \in Places(w) : Place(w, n) = Place(q, back[n]) \ gone
     /\ \A n, m \in Places(w) : n < m => back[n] < back[m]
     /\ \A m \in Places(q) : \A i \in Place(q, m) \ gone : \E n \in Places(w) : i \in Place(w, n)

LEMMA RestOf ==
  ASSUME NEW q \in Queues, NEW gone
  PROVE  LET w == Rest(q, gone)
         IN  /\ w \in Queues /\ w.born = q.born /\ w.active.parts = q.active.parts \ gone
             /\ w.active.kind = q.active.kind /\ w.active.retrying = q.active.retrying
             /\ w.ack = q.ack /\ (q = NoQueue => w = NoQueue)
             /\ Remains(q, w, gone)
             /\ \A n \in 1 .. Len(w.waiting) : \E m \in 1 .. Len(q.waiting) :
                   w.waiting[n].kind = q.waiting[m].kind
<1> DEFINE v == Without(q.waiting, gone)
           w == Rest(q, gone)
<1>1. q.waiting \in Seq(Intents) /\ Len(q.waiting) \in Nat
  BY QueueFields
<1>2. v \in Seq(Intents)
  BY <1>1, WithoutIs
<1>3. PICK from \in [1 .. Len(v) -> 1 .. Len(q.waiting)] :
        /\ \A k \in 1 .. Len(v) : /\ v[k].parts = q.waiting[from[k]].parts \ gone
                                  /\ v[k].kind = q.waiting[from[k]].kind
        /\ \A k, l \in 1 .. Len(v) : k < l => from[k] < from[l]
        /\ \A m \in 1 .. Len(q.waiting) :
              q.waiting[m].parts \ gone # {} => \E k \in 1 .. Len(v) : from[k] = m
  BY <1>1, WithoutIs DEF Culls
<1>4. Len(v) \in Nat
  BY <1>2, LenProperties
<1>5. w = [q EXCEPT !.waiting = v, !.active = [q.active EXCEPT !.parts = @ \ gone]]
  BY DEF Queues, Rest
<1>6. [q.active EXCEPT !.parts = @ \ gone] \in Intents
      /\ [q.active EXCEPT !.parts = @ \ gone].parts = q.active.parts \ gone
      /\ [q.active EXCEPT !.parts = @ \ gone].kind = q.active.kind
      /\ [q.active EXCEPT !.parts = @ \ gone].retrying = q.active.retrying
  <2>1. \A x \in Intents : [x EXCEPT !.parts = @ \ gone] \in Intents
                          /\ [x EXCEPT !.parts = @ \ gone].parts = x.parts \ gone
                          /\ [x EXCEPT !.parts = @ \ gone].kind = x.kind
                          /\ [x EXCEPT !.parts = @ \ gone].retrying = x.retrying
    BY DEF Intents
  <2>2. q.active \in Intents
    BY QueueFields
  <2> QED
    BY <2>1, <2>2
<1> HIDE DEF v
<1>7. /\ w \in Queues /\ w.born = q.born /\ w.waiting = v /\ w.active.parts = q.active.parts \ gone
      /\ w.active.kind = q.active.kind /\ w.active.retrying = q.active.retrying /\ w.ack = q.ack
  BY <1>1, <1>2, <1>5, <1>6 DEF Queues
<1>8. q = NoQueue => w = NoQueue
  <2> SUFFICES ASSUME q = NoQueue PROVE w = NoQueue
    OBVIOUS
  <2>1. q.waiting = << >> /\ q.active = NoIntent
    BY EmptyQueue
  <2>2. Len(v) = 0
    BY <1>3, <1>4, <2>1, EmptySeq
  <2>3. v = << >>
    BY <1>2, <2>2, EmptySeq
  <2>4. \A x \in Intents : x.parts = {} => [x EXCEPT !.parts = @ \ gone] = x
    BY DEF Intents
  <2>5. [NoIntent EXCEPT !.parts = @ \ gone] = NoIntent
    BY <2>4, Empties, EmptyQueue
  <2>6. w = [NoQueue EXCEPT !.waiting = << >>, !.active = NoIntent]
    BY <1>5, <2>1, <2>3, <2>5
  <2> QED
    BY <2>6 DEF NoQueue
<1> HIDE DEF w
<1> DEFINE back == [n \in Places(w) |-> IF n = 0 THEN 0 ELSE from[n]]
<1>14. Places(w) = 0 .. Len(v) /\ Places(q) = 0 .. Len(q.waiting)
  BY <1>7 DEF Places
<1>15. back \in [Places(w) -> Places(q)]
  BY <1>1, <1>3, <1>4, <1>14
<1>16. ASSUME NEW n \in Places(w)
       PROVE  Place(w, n) = Place(q, back[n]) \ gone
  <2>1. CASE n = 0
    BY <1>7, <2>1 DEF Place
  <2>2. CASE n # 0
    <3>1. n \in 1 .. Len(v) /\ from[n] \in 1 .. Len(q.waiting) /\ from[n] # 0
      BY <1>1, <1>3, <1>4, <1>14, <2>2
    <3> QED
      BY <1>3, <1>7, <2>2, <3>1 DEF Place
  <2> QED
    BY <2>1, <2>2
<1>17. \A n, m \in Places(w) : n < m => back[n] < back[m]
  <2>1. \A n \in 1 .. Len(v) : from[n] # 0
    BY <1>1, <1>3, <1>4
  <2> QED
    BY <1>3, <1>4, <1>14, <2>1
<1>18. ASSUME NEW m \in Places(q), NEW i \in Place(q, m) \ gone
       PROVE  \E n \in Places(w) : i \in Place(w, n)
  <2>1. CASE m = 0
    <3>1. 0 \in Places(w) /\ back[0] = 0
      BY <1>4, <1>14
    <3> QED
      BY <1>16, <1>18, <2>1, <3>1
  <2>2. CASE m # 0
    <3>1. m \in 1 .. Len(q.waiting) /\ i \in q.waiting[m].parts \ gone
      BY <1>1, <1>14, <1>18, <2>2 DEF Place
    <3>2. PICK k \in 1 .. Len(v) : from[k] = m
      BY <1>3, <3>1
    <3>3. k \in Places(w) /\ back[k] = m
      BY <1>4, <1>14, <3>2
    <3> QED
      BY <1>16, <1>18, <3>3
  <2> QED
    BY <2>1, <2>2
<1> HIDE DEF back
<1>19. Remains(q, w, gone)
  BY <1>15, <1>16, <1>17, <1>18 DEF Remains
<1>20. \A n \in 1 .. Len(w.waiting) : \E m \in 1 .. Len(q.waiting) : w.waiting[n].kind = q.waiting[m].kind
  BY <1>3, <1>7
<1> QED
  BY <1>7, <1>8, <1>19, <1>20 DEF w

LEMMA LeftIs ==
  ASSUME NEW s, NEW t \in Targets, NEW gone, Sound(s), Tidy(s, t, {}, gone),
         \A i \in gone : s.promise[i] # "open"
  PROVE  LET r == [s EXCEPT !.queue[t] = Rest(s.queue[t], gone)]
         IN  Leaves(s, r, t, {})
<1> DEFINE q == s.queue[t]
           w == Rest(q, gone)
           r == [s EXCEPT !.queue[t] = w]
<1>1. s \in Decks /\ q \in Queues
  BY DeckFields DEF Sound
<1>2. /\ w \in Queues /\ w.born = q.born /\ (q = NoQueue => w = NoQueue)
      /\ Remains(q, w, gone)
  BY <1>1, RestOf
<1>3. /\ r \in Decks /\ Quiet(s, r) /\ r.promise = s.promise
      /\ r.queue[t] = w /\ \A u \in Targets : u # t => r.queue[u] = s.queue[u]
  <2> HIDE DEF w
  <2> QED
    BY <1>1, <1>2, SetQueueIs
<1> HIDE DEF r, w
<1>4. Works(s, r, t, {})
  BY <1>1, <1>2, <1>3, QuietWorks
<1>5. Sound(r)
  <2>1. r.pend = s.pend
    BY <1>3 DEF Quiet
  <2> QED
    BY <1>3, <1>4, <2>1, WorkIsSound
<1>6. /\ q # NoQueue => q.born \in Inputs /\ s.promise[q.born] # "new"
      /\ \A n \in Places(q) : \A i \in Place(q, n) \ gone : Mine(s, t, i)
      /\ \A n, m \in Places(q) : n # m => Place(q, n) \cap Place(q, m) \subseteq gone
      /\ \A i \in Inputs : Mine(s, t, i) => \E n \in Places(q) : i \in Place(q, n)
  BY DEF Tidy
<1>7. \A i : Mine(r, t, i) <=> Mine(s, t, i)
  BY <1>3 DEF Mine
<1> HIDE DEF q
<1>8. PICK back \in [Places(w) -> Places(q)] :
        /\ \A n \in Places(w) : Place(w, n) = Place(q, back[n]) \ gone
        /\ \A n, m \in Places(w) : n < m => back[n] < back[m]
        /\ \A m \in Places(q) : \A i \in Place(q, m) \ gone : \E n \in Places(w) : i \in Place(w, n)
  BY <1>2 DEF Remains
<1>9. Tidy(r, t, {}, {})
  <2>1. w # NoQueue => w.born \in Inputs /\ r.promise[w.born] # "new"
    BY <1>2, <1>3, <1>6
  <2>2. \A n \in Places(w) : \A i \in Place(w, n) : Mine(r, t, i)
    BY <1>6, <1>7, <1>8
  <2>3. \A n, m \in Places(w) : n # m => Place(w, n) \cap Place(w, m) = {}
    <3> TAKE n, m \in Places(w)
    <3> HAVE n # m
    <3>1. back[n] \in Places(q) /\ back[m] \in Places(q) /\ back[n] # back[m]
      BY <1>8, PlacesDiffer
    <3>2. Place(q, back[n]) \cap Place(q, back[m]) \subseteq gone
      BY <1>6, <3>1
    <3> QED
      BY <1>8, <3>2
  <2>4. \A i \in Inputs : Mine(r, t, i) => \E n \in Places(w) : i \in Place(w, n)
    <3> TAKE i \in Inputs
    <3> HAVE Mine(r, t, i)
    <3>1. Mine(s, t, i) /\ i \notin gone
      BY <1>7 DEF Mine
    <3> QED
      BY <1>6, <1>8, <3>1
  <2> QED
    BY <1>3, <2>1, <2>2, <2>3, <2>4 DEF Tidy
<1> QED
  BY <1>4, <1>5, <1>9 DEF Leaves, Good, r, w, q

LEMMA TidyBut ==
  ASSUME NEW s, NEW t, NEW L, NEW gone, Tidy(s, t, L, {})
  PROVE  Tidy(s, t, L, gone)
BY DEF Tidy

(* One queue without what is gone, and what comes of it.                   *)
Cancelled(t, s, gone) == Advance([s EXCEPT !.queue[t].waiting = Without(@, gone),
                                           !.queue[t].active.parts = @ \ gone], t)

AllCancelled(b, gone) == FoldSet(LAMBDA t, s : Cancelled(t, s, gone), b, Targets)

LEMMA CancelledIs ==
  ASSUME NEW s \in Decks, NEW t \in Targets, NEW gone
  PROVE  Cancelled(t, s, gone) = Advance([s EXCEPT !.queue[t] = Rest(s.queue[t], gone)], t)
<1>1. [s EXCEPT !.queue[t].waiting = Without(@, gone), !.queue[t].active.parts = @ \ gone]
        = [s EXCEPT !.queue[t] = Rest(s.queue[t], gone)]
  BY ZenonT(60) DEF Decks, Queues, Rest
<1> QED
  BY <1>1 DEF Cancelled

(* What taking the gone from one queue keeps, taking them from all keeps.  *)
LEMMA CancelsIn ==
  ASSUME NEW gone, NEW R, NEW b \in R, NEW D,
         \A t \in Targets, s \in R :
            /\ Cancelled(t, s, gone) \in R /\ <<t, Cancelled(t, s, gone)>> \in D
            /\ \A u \in Targets : u # t /\ <<u, s>> \in D => <<u, Cancelled(t, s, gone)>> \in D
  PROVE  AllCancelled(b, gone) \in R /\ \A u \in Targets : <<u, AllCancelled(b, gone)>> \in D
<1> DEFINE cancel(t, s) == Cancelled(t, s, gone)
           choose == [S \in SUBSET Targets |-> CHOOSE t \in S : TRUE]
           h == [p \in Targets \X R |-> cancel(p[1], p[2])]
           rec(g) == [S \in SUBSET Targets |->
                        IF S = {} THEN b
                        ELSE LET t == CHOOSE t \in S : TRUE IN cancel(t, g[S \ {t}])]
           iter == CHOOSE g : g = rec(g)
           last == AllCancelled(b, gone)
<1>1. last = iter[Targets]
  BY DEF AllCancelled, FoldSet, MapThenFoldSet
<1>5. \A t \in Targets, r \in R :
         /\ cancel(t, r) \in R /\ <<t, cancel(t, r)>> \in D
         /\ \A u \in Targets : u # t /\ <<u, r>> \in D => <<u, cancel(t, r)>> \in D
  OBVIOUS
<1>6. h \in [Targets \X R -> R]
  BY <1>5
<1>7. \A S \in SUBSET Targets : S # {} => choose[S] \in S /\ choose[S] = CHOOSE t \in S : TRUE
  OBVIOUS
<1>8. \A t \in Targets, r \in R : h[t, r] = cancel(t, r)
  BY ZenonT(60)
<1>9. Targets \in SUBSET Targets /\ IsFiniteSet(Targets)
  BY WireFacts
<1> HIDE DEF cancel, h, choose
<1>10. PICK f : FoldsOver(f, Targets, R, b, h, choose)
  BY <1>6, <1>7, <1>9, SubsetRecursion
<1>11. f \in [SUBSET Targets -> R]
       /\ \A S \in SUBSET Targets : f[S] = IF S = {} THEN b ELSE h[choose[S], f[S \ {choose[S]}]]
  BY <1>10 DEF FoldsOver
<1>12. f = rec(f)
  <2>1. ASSUME NEW S \in SUBSET Targets, S # {}
        PROVE  f[S] = LET t == CHOOSE t \in S : TRUE IN cancel(t, f[S \ {t}])
    <3>1. choose[S] \in Targets /\ S \ {choose[S]} \in SUBSET Targets
      BY <1>7, <2>1
    <3>2. f[S \ {choose[S]}] \in R
      BY <1>11, <3>1
    <3> QED
      BY <1>7, <1>8, <1>11, <2>1, <3>1, <3>2, ZenonT(60)
  <2> QED
    BY <1>11, <2>1
<1>13. iter = rec(iter)
  BY <1>12
<1> HIDE DEF iter
<1> DEFINE T == {S \in SUBSET Targets : iter[S] \in R /\ \A u \in S : <<u, iter[S]>> \in D}
<1>14. {} \in T
  BY <1>13
<1>15. ASSUME NEW S \in SUBSET Targets, S # {}, S \ {choose[S]} \in T
       PROVE  S \in T
  <2> DEFINE t == choose[S]  r == iter[S \ {choose[S]}]
  <2>1. iter[S] = cancel(t, r)
    BY <1>7, <1>13, <1>15
  <2>2. t \in Targets /\ r \in R /\ \A u \in S : u # t => u \in Targets /\ <<u, r>> \in D
    BY <1>7, <1>15
  <2>3. /\ cancel(t, r) \in R /\ <<t, cancel(t, r)>> \in D
        /\ \A u \in Targets : u # t /\ <<u, r>> \in D => <<u, cancel(t, r)>> \in D
    <3> HIDE DEF t, r
    <3> QED
      BY <1>5, <2>2
  <2> QED
    BY <2>1, <2>2, <2>3
<1> HIDE DEF T
<1>16. SUBSET Targets \subseteq T
  <2>1. \A S \in SUBSET Targets : S # {} => choose[S] \in S
    BY <1>7
  <2>2. \A S \in SUBSET Targets : S # {} /\ S \ {choose[S]} \in T => S \in T
    BY <1>15
  <2>3. IsFiniteSet(Targets)
    BY WireFacts
  <2> HIDE DEF iter, choose
  <2> QED
    BY <1>14, <2>1, <2>2, <2>3, SubsetInduction
<1>17. iter[Targets] \in R /\ \A u \in Targets : <<u, iter[Targets]>> \in D
  BY <1>16 DEF T
<1>18. last \in R /\ \A u \in Targets : <<u, last>> \in D
  <2> HIDE DEF last
  <2> QED
    BY <1>1, <1>17
<1> QED
  BY <1>18

(* CancelOwner: what is gone is settled, then taken from queue after queue.*)
LEMMA SettledIs ==
  ASSUME NEW deck, AllGood(deck), NEW gone \in SUBSET Inputs
  PROVE  LET b == Settle(deck, gone, "STALE_INPUT")
         IN  /\ b \in Decks /\ Quiet(deck, b) /\ b.queue = deck.queue /\ Moves(deck, b)
             /\ \A i \in Inputs : b.promise[i] = IF i \in gone /\ deck.promise[i] = "open"
                                                 THEN "STALE_INPUT" ELSE deck.promise[i]
             /\ Sound(b) /\ \A t \in Targets : Tidy(b, t, {}, gone)
             /\ \A i \in gone : b.promise[i] # "open"
<1> DEFINE b == Settle(deck, gone, "STALE_INPUT")
<1>2. /\ b \in Decks /\ Quiet(deck, b) /\ b.queue = deck.queue
      /\ \A i \in Inputs : b.promise[i] = IF i \in gone /\ deck.promise[i] = "open"
                                          THEN "STALE_INPUT" ELSE deck.promise[i]
  <2>1. "STALE_INPUT" \in Codes \cup {"done"}
    BY DEF Codes
  <2> QED
    BY <2>1, SettleIs, GoodIsTidy
<1> HIDE DEF b
<1>3. Moves(deck, b)
  <2>1. \A i \in Inputs : b.promise[i] # deck.promise[i] =>
            deck.promise[i] = "open" /\ b.promise[i] = "STALE_INPUT"
    BY <1>2
  <2>2. "STALE_INPUT" \in Codes
    BY DEF Codes
  <2>3. deck.seq \in Nat
    BY GoodIsTidy, DeckFields
  <2> QED
    BY <1>2, <2>1, <2>2, <2>3 DEF Moves, Quiet
<1>4. Sound(b)
  BY <1>2, <1>3, MovesIsSound DEF AllGood, Quiet
<1>5. ASSUME NEW t \in Targets
      PROVE  Tidy(b, t, {}, gone)
  <2>1. Tidy(deck, t, {}, {})
    BY DEF AllGood
  <2>2. deck.queue[t] \in Queues /\ \A n \in Places(deck.queue[t]) : Place(deck.queue[t], n) \in SUBSET Inputs
    BY GoodIsTidy, DeckFields, QueueFields
  <2>3. \A i \in Inputs : deck.promise[i] # "new" => b.promise[i] # "new"
    BY <1>3, Empties DEF Moves
  <2>4. \A i \in Inputs : Mine(b, t, i) <=> (Mine(deck, t, i) /\ i \notin gone)
    BY <1>2 DEF Mine
  <2> QED
    BY <1>2, <2>1, <2>2, <2>3, <2>4 DEF Tidy
<1>6. \A i \in gone : b.promise[i] # "open"
  BY <1>2
<1> QED
  BY <1>2, <1>3, <1>4, <1>5, <1>6 DEF b

LEMMA CancelOneIs ==
  ASSUME NEW r, Sound(r), NEW t \in Targets, NEW gone \in SUBSET Inputs,
         \A u \in Targets : Tidy(r, u, {}, gone), \A i \in gone : r.promise[i] # "open"
  PROVE  LET e == Advance([r EXCEPT !.queue[t] = Rest(r.queue[t], gone)], t)
         IN  /\ Sound(e) /\ Moves(r, e) /\ \A u \in Targets : Tidy(e, u, {}, gone)
             /\ \A i \in gone : e.promise[i] # "open"
             /\ Tidy(e, t, {}, {})
             /\ \A u \in Targets : u # t /\ Tidy(r, u, {}, {}) => Tidy(e, u, {}, {})
<1> DEFINE m == [r EXCEPT !.queue[t] = Rest(r.queue[t], gone)]
           e == Advance(m, t)
<1>1. r \in Decks /\ Sound(r) /\ Tidy(r, t, {}, gone) /\ \A i \in gone : r.promise[i] # "open"
  BY DEF Sound
<1>2. Leaves(r, m, t, {})
  BY <1>1, LeftIs
<1>4. Leaves(m, e, t, {})
  <2> HIDE DEF m
  <2> QED
    BY <1>2, AdvanceIs DEF Leaves
<1> HIDE DEF e, m
<1>5. m \in Decks /\ e \in Decks /\ Sound(e) /\ Works(r, m, t, {}) /\ Works(m, e, t, {}) /\ Tidy(e, t, {}, {})
  BY <1>2, <1>4 DEF Leaves, Good, Sound
<1>6. Works(r, e, t, {})
  BY <1>1, <1>5, WorkGoesOn
<1>7. \A u \in Targets : u # t /\ Tidy(r, u, {}, {}) => Tidy(e, u, {}, {})
  BY <1>1, <1>5, <1>6, WorkElsewhere
<1>8. \A u \in Targets : Tidy(e, u, {}, gone)
  <2>1. \A u \in Targets : u # t => Tidy(e, u, {}, gone)
    BY <1>1, <1>5, <1>6, WorkElsewhere
  <2> QED
    BY <1>5, <2>1, TidyBut
<1>9. Moves(r, e)
  BY <1>6, WorkMoves
<1>10. \A i \in gone : e.promise[i] # "open"
  BY <1>1, <1>6, Empties DEF Works
<1> QED
  BY <1>5, <1>7, <1>8, <1>9, <1>10 DEF e, m

LEMMA CancelIs ==
  ASSUME NEW deck, AllGood(deck), NEW gone \in SUBSET Inputs
  PROVE  LET r == AllCancelled(Settle(deck, gone, "STALE_INPUT"), gone)
         IN  AllGood(r) /\ Moves(deck, r)
<1> DEFINE b == Settle(deck, gone, "STALE_INPUT")
           R == {r \in Decks : /\ Sound(r) /\ Moves(deck, r) /\ \A t \in Targets : Tidy(r, t, {}, gone)
                               /\ \A i \in gone : r.promise[i] # "open"}
           D == {p \in Targets \X Decks : Tidy(p[2], p[1], {}, {})}
           last == AllCancelled(b, gone)
<1>1. b \in R
  <2>1. /\ b \in Decks /\ Sound(b) /\ Moves(deck, b) /\ \A t \in Targets : Tidy(b, t, {}, gone)
        /\ \A i \in gone : b.promise[i] # "open"
    BY SettledIs
  <2> QED
    BY <2>1
<1>2. ASSUME NEW t \in Targets, NEW s \in R
      PROVE  LET e == Cancelled(t, s, gone)
             IN  /\ e \in R /\ <<t, e>> \in D
                 /\ \A u \in Targets : u # t /\ <<u, s>> \in D => <<u, e>> \in D
  <2> DEFINE e == Advance([s EXCEPT !.queue[t] = Rest(s.queue[t], gone)], t)
  <2>1. s \in Decks /\ Sound(s) /\ Moves(deck, s) /\ \A u \in Targets : Tidy(s, u, {}, gone)
        /\ \A i \in gone : s.promise[i] # "open"
    OBVIOUS
  <2>2. Cancelled(t, s, gone) = e
    BY <2>1, CancelledIs
  <2>3. /\ Sound(e) /\ Moves(s, e) /\ \A u \in Targets : Tidy(e, u, {}, gone)
        /\ \A i \in gone : e.promise[i] # "open"
        /\ Tidy(e, t, {}, {})
        /\ \A u \in Targets : u # t /\ Tidy(s, u, {}, {}) => Tidy(e, u, {}, {})
    BY <2>1, CancelOneIs
  <2> HIDE DEF e
  <2>4. Moves(deck, e) /\ e \in Decks
    BY <2>1, <2>3, GoodIsTidy, MovesGoOn DEF Sound
  <2>5. e \in R
    BY <2>3, <2>4
  <2>6. <<t, e>> \in D /\ \A u \in Targets : u # t /\ <<u, s>> \in D => <<u, e>> \in D
    BY <2>3, <2>4
  <2> QED
    BY <2>2, <2>5, <2>6
<1> HIDE DEF R, D, b
<1>3. last \in R /\ \A u \in Targets : <<u, last>> \in D
  BY <1>1, <1>2, CancelsIn
<1> HIDE DEF last
<1>4. AllGood(last) /\ Moves(deck, last)
  BY <1>3 DEF R, D, AllGood
<1> QED
  BY <1>4 DEF last, b

-----------------------------------------------------------------------------
(* The connection. *)

(* A deck that is good and has numbered what it has out.                   *)
Fine(s) == AllGood(s) /\ s.resync <= s.seq /\ s.ping <= s.seq
(* What the cache depends on: the connection and the snapshot.             *)
Same(s, r) == r.conn = s.conn /\ r.snap = s.snap
(* What is left when the connection is given up: nothing is out.           *)
Resting(s) ==
  /\ s.conn = 0 /\ s.snap = NoSnap /\ s.status = "disconnected" /\ ~ s.pinging
  /\ s.pend = {} /\ s.resync = 0 /\ s.ping = 0 /\ Cleared(s)

LEMMA FineIs ==
  ASSUME NEW s, Fine(s)
  PROVE  /\ AllGood(s) /\ AllTidy(s) /\ s \in Decks /\ PendSound(s) /\ AnswersSound(s)
         /\ s.resync \in 0 .. s.seq /\ s.ping \in 0 .. s.seq
<1>1. AllGood(s) /\ AllTidy(s) /\ s \in Decks /\ PendSound(s) /\ AnswersSound(s)
  BY GoodIsTidy DEF Fine
<1> QED
  BY <1>1, DeckFields DEF Fine

(* Other fields, fewer requests and answers, a later number.               *)
LEMMA OtherFields ==
  ASSUME NEW s, AllGood(s), NEW r \in Decks, r.queue = s.queue, r.promise = s.promise,
         r.pend \subseteq s.pend, r.answers \subseteq s.answers, s.seq <= r.seq
  PROVE  AllGood(r)
<1>1. AllTidy(s) /\ PendSound(s) /\ AnswersSound(s) /\ s.seq \in Nat /\ r.seq \in Nat
  BY GoodIsTidy, DeckFields
<1>2. PendSound(r)
  BY <1>1 DEF PendSound
<1>3. AnswersSound(r)
  BY <1>1 DEF AnswersSound
<1> QED
  BY <1>1, <1>2, <1>3, ReframedIsGood

LEMMA AdvanceAllIsFine ==
  ASSUME NEW s, Fine(s)
  PROVE  LET r == AdvanceAll(s)
         IN  /\ Fine(r) /\ Same(s, r) /\ s.seq <= r.seq
             /\ r.resync = s.resync /\ r.ping = s.ping /\ r.synced = s.synced
<1> DEFINE r == AdvanceAll(s)
<1>1. AllGood(r) /\ Moves(s, r)
  BY AdvanceAllIs DEF Fine
<1> HIDE DEF r
<1>2. /\ r.seq \in Nat /\ s.seq \in Nat /\ s.seq <= r.seq /\ s.resync \in 0 .. s.seq /\ s.ping \in 0 .. s.seq
      /\ r.resync = s.resync /\ r.ping = s.ping /\ r.synced = s.synced /\ Same(s, r)
  BY <1>1, FineIs, GoodIsTidy, DeckFields DEF Moves, Untouched, Same
<1>3. Fine(r)
  BY <1>1, <1>2 DEF Fine
<1> QED
  BY <1>2, <1>3 DEF r

LEMMA SetStatusIs ==
  ASSUME NEW s, Fine(s), NEW status \in Statuses
  PROVE  LET r == SetStatus(s, status)
         IN  /\ Fine(r) /\ Same(s, r) /\ s.seq <= r.seq
             /\ r.resync = s.resync /\ r.ping = s.ping
<1> DEFINE m == [s EXCEPT !.status = status]
<1>1. s \in Decks /\ s.seq \in Nat /\ AllGood(s)
  BY FineIs, DeckFields
<1>2. CASE s.status = status
  BY <1>1, <1>2 DEF SetStatus, Same
<1>3. CASE s.status # status
  <2>1. /\ m \in Decks /\ Same(s, m) /\ m.resync = s.resync /\ m.ping = s.ping /\ m.seq = s.seq
        /\ m.queue = s.queue /\ m.promise = s.promise /\ m.pend = s.pend /\ m.answers = s.answers
    BY <1>1 DEF Decks, Same
  <2> HIDE DEF m
  <2>2. AllGood(m)
    BY <1>1, <2>1, OtherFields
  <2>3. Fine(m)
    BY <2>1, <2>2 DEF Fine
  <2>4. SetStatus(s, status) = AdvanceAll(m)
    BY <1>3 DEF SetStatus, m
  <2> QED
    BY <2>1, <2>3, <2>4, AdvanceAllIsFine DEF Same
<1> QED
  BY <1>2, <1>3

LEMMA RequestStateIs ==
  ASSUME NEW s, Fine(s)
  PROVE  Fine(RequestState(s)) /\ Same(s, RequestState(s))
<1> DEFINE id == s.seq + 1
           m == [s EXCEPT !.synced = FALSE, !.resync = id]
           checking == SetStatus(m, "checking")
           p == [id |-> id, op |-> "requestState"]
           r == Issue(checking, p, StateRequest(id))
<1>1. s \in Decks /\ s.seq \in Nat /\ AllGood(s) /\ s.resync \in 0 .. s.seq /\ s.ping \in 0 .. s.seq
  BY FineIs, DeckFields
<1>2. CASE s.conn = 0 \/ ~ s.hello \/ s.resync # 0
  BY <1>2 DEF RequestState, Same
<1>3. CASE ~ (s.conn = 0 \/ ~ s.hello \/ s.resync # 0)
  <2>1. RequestState(s) = r
    BY <1>3 DEF RequestState
  <2>2. /\ m \in Decks /\ Same(s, m) /\ m.resync = id /\ m.ping = s.ping /\ m.seq = s.seq
        /\ m.queue = s.queue /\ m.promise = s.promise /\ m.pend = s.pend /\ m.answers = s.answers
    <3>1. id \in Nat
      BY <1>1
    <3> HIDE DEF id
    <3> QED
      BY <1>1, <3>1 DEF Decks, Same
  <2> HIDE DEF m
  <2>3. AllGood(m)
    BY <1>1, <2>2, OtherFields
  <2>4. /\ checking \in Decks /\ AllGood(checking) /\ Same(m, checking) /\ m.seq <= checking.seq
        /\ checking.resync = id /\ checking.ping = s.ping
    <3>1. CASE m.status = "checking"
      BY <1>1, <2>2, <2>3, <3>1 DEF SetStatus, Same
    <3>2. CASE m.status # "checking"
      <4> DEFINE n == [m EXCEPT !.status = "checking"]
      <4>1. /\ n \in Decks /\ Same(m, n) /\ n.resync = id /\ n.ping = s.ping /\ n.seq = m.seq
            /\ n.queue = m.queue /\ n.promise = m.promise /\ n.pend = m.pend /\ n.answers = m.answers
        BY <2>2 DEF Decks, Same, Statuses
      <4> HIDE DEF n
      <4>2. AllGood(n)
        BY <1>1, <2>2, <2>3, <4>1, OtherFields
      <4>3. AllGood(AdvanceAll(n)) /\ Moves(n, AdvanceAll(n))
        BY <4>2, AdvanceAllIs
      <4>4. checking = AdvanceAll(n)
        BY <3>2 DEF SetStatus, n
      <4> HIDE DEF checking
      <4> QED
        BY <4>1, <4>3, <4>4, GoodIsTidy DEF Moves, Untouched, Same
    <3> QED
      BY <3>1, <3>2
  <2> HIDE DEF checking
  <2>5. p \in StateRequests /\ StateRequest(id) \in UpMessages
    BY <1>1 DEF StateRequests, StateRequest, UpMessages
  <2>6. /\ r \in Decks /\ Untouched(checking, r) /\ r.queue = checking.queue
        /\ r.promise = checking.promise /\ r.seq = checking.seq + 1 /\ r.pend = checking.pend \cup {p}
    BY <2>4, <2>5, IssueIs
  <2> HIDE DEF r
  <2>7. r.seq \in Nat /\ checking.seq \in Nat /\ id \in 1 .. r.seq /\ s.ping <= r.seq
    BY <1>1, <2>2, <2>4, <2>6, DeckFields
  <2>8. PendSound(r)
    <3>1. \A q \in checking.pend : q.id \in 1 .. r.seq /\ (q.op = "edit" => r.promise[q.born] # "new")
      BY <2>4, <2>6, <2>7, GoodIsTidy DEF PendSound
    <3>2. p.id \in 1 .. r.seq /\ p.op # "edit"
      BY <2>7
    <3> HIDE DEF p
    <3> QED
      BY <2>6, <3>1, <3>2 DEF PendSound
  <2>9. AnswersSound(r)
    BY <2>4, <2>6, GoodIsTidy DEF AnswersSound, Untouched
  <2>10. AllGood(r)
    BY <2>4, <2>6, <2>8, <2>9, GoodIsTidy, ReframedIsGood
  <2>11. Fine(r) /\ Same(s, r)
    BY <2>2, <2>4, <2>6, <2>7, <2>10 DEF Fine, Same, Untouched
  <2> QED
    BY <2>1, <2>11
<1> QED
  BY <1>2, <1>3

(* The requests that are out are answered with a code.                     *)
LEMMA CancelPendingIs ==
  ASSUME NEW s \in Decks, AllTidy(s), PendSound(s),
         \A a \in s.answers : s.promise[a.born] # "new",
         NEW code \in Reasons
  PROVE  LET r == CancelPending(s, code)
         IN  /\ r \in Decks /\ AllTidy(r) /\ PendSound(r)
             /\ \A a \in r.answers : r.promise[a.born] # "new"
             /\ \A a \in r.answers : a \in s.answers \/ a.code = code
             /\ r.queue = s.queue /\ r.promise = s.promise /\ r.seq = s.seq
             /\ Same(s, r) /\ r.resync = s.resync /\ r.ping = s.ping /\ r.pend = {}
<1> DEFINE told == {Answer(p, code, NoAck) : p \in Edits(s.pend)}
           r == [s EXCEPT !.answers = s.answers \cup told, !.pend = {}]
<1>1. CancelPending(s, code) = r
  BY DEF CancelPending, Decks
<1>2. \A p \in Edits(s.pend) : /\ p \in EditRequests /\ s.promise[p.born] # "new"
                               /\ Answer(p, code, NoAck) \in Replies
                               /\ Answer(p, code, NoAck).born = p.born
                               /\ Answer(p, code, NoAck).code = code
  <2> TAKE p \in Edits(s.pend)
  <2>1. p \in EditRequests /\ s.promise[p.born] # "new"
    BY DeckFields DEF Edits, PendSound, StateRequests
  <2>2. p.target \in Targets /\ p.born \in Inputs
    BY <2>1 DEF EditRequests
  <2> QED
    BY <2>1, <2>2, Empties DEF Answer, Replies
<1>3. told \subseteq Replies /\ \A a \in told : a.code = code /\ s.promise[a.born] # "new"
  BY <1>2
<1> HIDE DEF told
<1>4. /\ r \in Decks /\ r.answers = s.answers \cup told /\ r.pend = {}
      /\ r.queue = s.queue /\ r.promise = s.promise /\ r.seq = s.seq
      /\ Same(s, r) /\ r.resync = s.resync /\ r.ping = s.ping
  <2>1. s.answers \cup told \in SUBSET Replies
    BY <1>3, DeckFields
  <2> DEFINE a == s.answers \cup told
  <2> HIDE DEF a
  <2>2. [s EXCEPT !.answers = a, !.pend = {}] \in Decks
    BY <2>1 DEF Decks, a
  <2> QED
    BY <2>2 DEF Decks, Same, a
<1> HIDE DEF r
<1>5. AllTidy(r)
  BY <1>4 DEF AllTidy, Tidy, Mine
<1>6. PendSound(r)
  BY <1>4 DEF PendSound
<1> QED
  BY <1>1, <1>3, <1>4, <1>5, <1>6

(* A boundary whatever there was: the deck knows nothing of the next       *)
(* connection or session.                                                  *)
LEMMA ResetStoreIs ==
  ASSUME NEW s \in Decks, AllTidy(s), PendSound(s),
         \A a \in s.answers : s.promise[a.born] # "new"
  PROVE  LET r == ResetStore(s)
         IN  /\ AllGood(r) /\ r.conn = s.conn /\ r.snap = NoSnap /\ r.seq = s.seq
             /\ r.resync = s.resync /\ r.ping = s.ping /\ r.pend = s.pend /\ Cleared(r)
<1> DEFINE m == [s EXCEPT !.snap = NoSnap, !.synced = FALSE]
           r == Boundary(m)
<1>1. NoSnap \in Snaps
  BY WireFacts DEF NoSnap, Snaps, Values
<1>2. /\ m \in Decks /\ m.snap = NoSnap /\ m.conn = s.conn /\ m.seq = s.seq
      /\ m.queue = s.queue /\ m.promise = s.promise /\ m.pend = s.pend /\ m.answers = s.answers
      /\ m.resync = s.resync /\ m.ping = s.ping
  BY <1>1 DEF Decks
<1> HIDE DEF m
<1>3. AllTidy(m) /\ PendSound(m) /\ \A a \in m.answers : m.promise[a.born] # "new"
  BY <1>2 DEF AllTidy, Tidy, Mine, PendSound
<1>4. AllGood(r) /\ Quiet(m, r) /\ Cleared(r)
  BY <1>3, BoundaryIsSound, BoundaryIs
<1>5. ResetStore(s) = r
  BY DEF ResetStore, m
<1> QED
  BY <1>2, <1>4, <1>5 DEF Quiet, Untouched

LEMMA CloseIs ==
  ASSUME NEW s \in Decks, AllTidy(s), PendSound(s),
         \A a \in s.answers : s.promise[a.born] # "new",
         NEW code \in Reasons
  PROVE  LET r == Close(s, code) IN Fine(r) /\ Resting(r)
<1> DEFINE c == CancelPending(s, code)
           m == ResetStore(c)
           r == [m EXCEPT !.conn = 0, !.hello = FALSE, !.status = "disconnected",
                          !.resync = 0, !.ping = 0, !.pinging = FALSE, !.fault = code]
<1>1. /\ c \in Decks /\ AllTidy(c) /\ PendSound(c) /\ c.pend = {}
      /\ \A a \in c.answers : c.promise[a.born] # "new"
  BY CancelPendingIs
<1> HIDE DEF c
<1>2. AllGood(m) /\ m.snap = NoSnap /\ m.pend = {} /\ Cleared(m)
  BY <1>1, ResetStoreIs
<1>3. m \in Decks /\ m.seq \in Nat
  BY <1>2, GoodIsTidy, DeckFields
<1> HIDE DEF m
<1>4. /\ r \in Decks /\ r.queue = m.queue /\ r.promise = m.promise /\ r.pend = m.pend
      /\ r.answers = m.answers /\ r.seq = m.seq /\ r.resync = 0 /\ r.ping = 0
      /\ r.conn = 0 /\ r.snap = m.snap /\ r.status = "disconnected" /\ r.pinging = FALSE
  BY <1>3 DEF Decks, Statuses
<1> HIDE DEF r
<1>5. AllGood(r)
  BY <1>2, <1>3, <1>4, OtherFields
<1>6. Close(s, code) = r
  BY DEF Close, r, m, c
<1> QED
  BY <1>2, <1>3, <1>4, <1>5, <1>6 DEF Fine, Resting, Cleared

-----------------------------------------------------------------------------
(* What arrives. *)

States == [type : {"state"}, inst : Nat, requestId : Nat, session : Nat, rev : Nat,
           has : SUBSET Targets, val : Values]
Deltas == [type : {"stateDelta"}, session : Nat, rev : Nat, base : Nat,
           changes : UNION {[T -> 0 .. Top] : T \in SUBSET Targets}]
Pongs  == [type : {"pong"}, id : Nat, session : Nat, rev : Nat]
AckMessages == [type : {"ack"}, id : Nat, session : Nat, rev : Nat]
Errors == [type : {"error"}, id : Nat, code : Codes]
DownMessages == {HelloAck, ServerStatus, EndOfStream} \cup States \cup Deltas \cup Pongs
                \cup AckMessages \cup Errors

(* The snapshot a message makes.                                           *)
SnapOf(m) == [inst |-> m.inst, session |-> m.session, rev |-> m.rev, has |-> m.has, val |-> m.val]
Overlaid(snap, m) ==
  [snap EXCEPT !.rev = m.rev,
               !.val = [t \in Targets |-> IF t \in DOMAIN m.changes THEN m.changes[t] ELSE @[t]]]

(* What a message may do to the connection and to the snapshot.            *)
Hears(s, r, m) ==
  \/ Resting(r)
  \/ r.conn = s.conn /\ \/ r.snap \in {s.snap, NoSnap}
                        \/ m.type = "state" /\ r.snap = SnapOf(m)
                        \/ /\ m.type = "stateDelta" /\ HasSnap(s)
                           /\ s.snap.session = m.session /\ s.snap.rev = m.base
                           /\ r.snap = Overlaid(s.snap, m)

LEMMA FieldsAreFine ==
  ASSUME NEW s, Fine(s), NEW r \in Decks, r.queue = s.queue, r.promise = s.promise,
         r.pend \subseteq s.pend, r.answers \subseteq s.answers, s.seq <= r.seq,
         r.resync \in {s.resync, 0}, r.ping \in {s.ping, 0}
  PROVE  Fine(r)
<1>1. AllGood(r)
  BY OtherFields DEF Fine
<1>2. s.seq \in Nat /\ r.seq \in Nat /\ s.resync \in 0 .. s.seq /\ s.ping \in 0 .. s.seq
  BY FineIs, DeckFields
<1> QED
  BY <1>1, <1>2 DEF Fine

LEMMA FineToClose ==
  ASSUME NEW s, Fine(s), NEW code \in Reasons
  PROVE  LET r == Close(s, code) IN Fine(r) /\ Resting(r)
BY FineIs, CloseIs DEF AnswersSound

LEMMA CancelledIsFine ==
  ASSUME NEW s, Fine(s), NEW code \in Codes
  PROVE  Fine(CancelPending(s, code)) /\ Same(s, CancelPending(s, code))
<1> DEFINE r == CancelPending(s, code)
<1>1. s \in Decks /\ AllTidy(s) /\ PendSound(s) /\ AnswersSound(s) /\ code \in Reasons
  <2>1. code \in Reasons
    BY DEF Reasons
  <2> QED
    BY <2>1, FineIs
<1>2. /\ r \in Decks /\ AllTidy(r) /\ PendSound(r)
      /\ \A a \in r.answers : r.promise[a.born] # "new"
      /\ \A a \in r.answers : a \in s.answers \/ a.code = code
      /\ r.queue = s.queue /\ r.promise = s.promise /\ r.seq = s.seq
      /\ Same(s, r) /\ r.resync = s.resync /\ r.ping = s.ping
  BY <1>1, CancelPendingIs DEF AnswersSound
<1> HIDE DEF r
<1>3. AnswersSound(r)
  BY <1>1, <1>2 DEF AnswersSound
<1>4. AllGood(r)
  BY <1>1, <1>2, <1>3, ReframedIsGood
<1> QED
  BY <1>2, <1>4 DEF Fine, r

LEMMA BoundaryIsFine ==
  ASSUME NEW s, Fine(s)
  PROVE  Fine(Boundary(s)) /\ Same(s, Boundary(s))
<1> DEFINE r == Boundary(s)
<1>1. AllGood(r)
  BY FineIs, BoundaryIsSound DEF AnswersSound
<1>2. Quiet(s, r)
  BY FineIs, BoundaryIs
<1> HIDE DEF r
<1> QED
  BY <1>1, <1>2 DEF Fine, Quiet, Untouched, Same, r

LEMMA SnapOfIs ==
  ASSUME NEW m \in States
  PROVE  SnapOf(m) \in Snaps
BY DEF States, Snaps, SnapOf

LEMMA AcceptStateIs ==
  ASSUME NEW s, Fine(s), NEW m \in States
  PROVE  Fine(AcceptState(s, m)) /\ Hears(s, AcceptState(s, m), m)
<1> DEFINE known == HasSnap(s)
           s1 == IF known /\ s.snap.session # m.session THEN CancelPending(s, "SESSION_CHANGED") ELSE s
           s2 == IF known /\ (s.snap.inst # m.inst \/ s.snap.session # m.session) THEN Boundary(s1) ELSE s1
           n == [s2 EXCEPT !.synced = TRUE, !.snap = SnapOf(m)]
           s3 == AdvanceAll(n)
           old == [s1 EXCEPT !.synced = FALSE]
           last == [s3 EXCEPT !.resync = 0, !.pinging = TRUE]
<1>1. Fine(s1) /\ Same(s, s1)
  <2>1. "SESSION_CHANGED" \in Codes
    BY DEF Codes
  <2> QED
    BY <2>1, CancelledIsFine DEF Same
<1> HIDE DEF s1
<1>2. Fine(s2) /\ Same(s, s2)
  BY <1>1, BoundaryIsFine DEF Same
<1> HIDE DEF s2
<1>3. Fine(n) /\ n.conn = s.conn /\ n.snap = SnapOf(m)
  <2>1. s2 \in Decks /\ s2.seq \in Nat /\ SnapOf(m) \in Snaps
    BY <1>2, FineIs, DeckFields, SnapOfIs
  <2> DEFINE snap == SnapOf(m)
  <2> HIDE DEF snap
  <2>2. [s2 EXCEPT !.synced = TRUE, !.snap = snap] \in Decks
    BY <2>1 DEF Decks, snap
  <2>3. /\ n \in Decks /\ n.queue = s2.queue /\ n.promise = s2.promise /\ n.pend = s2.pend
        /\ n.answers = s2.answers /\ n.seq = s2.seq /\ n.resync = s2.resync /\ n.ping = s2.ping
        /\ n.conn = s2.conn /\ n.snap = snap
    BY <2>1, <2>2 DEF Decks, snap
  <2> HIDE DEF n
  <2>4. Fine(n)
    BY <1>2, <2>1, <2>3, FieldsAreFine
  <2> QED
    BY <1>2, <2>3, <2>4 DEF Same, snap
<1> HIDE DEF n
<1>4. Fine(s3) /\ s3.conn = s.conn /\ s3.snap = SnapOf(m)
  BY <1>3, AdvanceAllIsFine DEF Same
<1> HIDE DEF s3
<1>5. Fine(RequestState(old)) /\ Same(s, RequestState(old))
  <2>1. s1 \in Decks /\ s1.seq \in Nat
    BY <1>1, FineIs, DeckFields
  <2>2. /\ old \in Decks /\ old.queue = s1.queue /\ old.promise = s1.promise /\ old.pend = s1.pend
        /\ old.answers = s1.answers /\ old.seq = s1.seq /\ old.resync = s1.resync
        /\ old.ping = s1.ping /\ Same(s1, old)
    BY <2>1 DEF Decks, Same
  <2> HIDE DEF old
  <2>3. Fine(old)
    BY <1>1, <2>1, <2>2, FieldsAreFine
  <2> QED
    BY <1>1, <2>2, <2>3, RequestStateIs DEF Same
<1>6. Fine(SetStatus(last, "ready")) /\ SetStatus(last, "ready").conn = s.conn
      /\ SetStatus(last, "ready").snap = SnapOf(m)
  <2>1. s3 \in Decks /\ s3.seq \in Nat
    BY <1>4, FineIs, DeckFields
  <2>2. /\ last \in Decks /\ last.queue = s3.queue /\ last.promise = s3.promise /\ last.pend = s3.pend
        /\ last.answers = s3.answers /\ last.seq = s3.seq /\ last.resync = 0
        /\ last.ping = s3.ping /\ Same(s3, last)
    BY <2>1 DEF Decks, Same
  <2> HIDE DEF last
  <2>3. Fine(last) /\ "ready" \in Statuses
    BY <1>4, <2>1, <2>2, FieldsAreFine DEF Statuses
  <2> QED
    BY <1>4, <2>2, <2>3, SetStatusIs DEF Same
<1> HIDE DEF old, last
<1>7. AcceptState(s, m) \in {RequestState(old), s3, SetStatus(last, "ready")}
  BY DEF AcceptState, SnapOf, old, last, s3, n, s2, s1
<1>8. m.type = "state"
  BY DEF States
<1> QED
  BY <1>4, <1>5, <1>6, <1>7, <1>8 DEF Hears, Same

LEMMA OverlaidIs ==
  ASSUME NEW snap \in Snaps, NEW m \in Deltas
  PROVE  /\ Overlaid(snap, m) \in Snaps /\ m.rev \in Nat
         /\ Overlaid(snap, m) = [snap EXCEPT !.rev = m.rev, !.val = Overlaid(snap, m).val]
<1> DEFINE v == [t \in Targets |-> IF t \in DOMAIN m.changes THEN m.changes[t] ELSE snap.val[t]]
<1>1. m.rev \in Nat /\ \A t \in DOMAIN m.changes : m.changes[t] \in 0 .. Top
  BY DEF Deltas
<1>2. snap.val \in [Targets -> 0 .. Top]
  BY DEF Snaps, Values
<1>3. v \in Values
  BY <1>1, <1>2 DEF Values
<1>4. Overlaid(snap, m) = [snap EXCEPT !.rev = m.rev, !.val = v]
  BY DEF Overlaid, Snaps
<1> HIDE DEF v
<1> QED
  BY <1>1, <1>3, <1>4 DEF Snaps

LEMMA AcceptDeltaIs ==
  ASSUME NEW s, Fine(s), NEW m \in Deltas, HasSnap(s)
  PROVE  Fine(AcceptDelta(s, m)) /\ Hears(s, AcceptDelta(s, m), m)
<1> DEFINE old == [s EXCEPT !.synced = FALSE]
           snap == Overlaid(s.snap, m)
           n == [s EXCEPT !.snap = snap]
<1>1. s \in Decks /\ s.seq \in Nat /\ s.snap \in Snaps
  BY FineIs, DeckFields
<1>2. CASE ~ Continues(s, m)
  <2>1. /\ old \in Decks /\ old.queue = s.queue /\ old.promise = s.promise /\ old.pend = s.pend
        /\ old.answers = s.answers /\ old.seq = s.seq /\ old.resync = s.resync
        /\ old.ping = s.ping /\ Same(s, old)
    BY <1>1 DEF Decks, Same
  <2>2. AcceptDelta(s, m) = RequestState(old)
    BY <1>2 DEF AcceptDelta
  <2> HIDE DEF old
  <2>3. Fine(old)
    BY <1>1, <2>1, FieldsAreFine
  <2> QED
    BY <2>1, <2>2, <2>3, RequestStateIs DEF Same, Hears
<1>3. CASE Continues(s, m)
  <2>1. snap \in Snaps /\ m.type = "stateDelta"
    BY <1>1, OverlaidIs DEF Deltas
  <2>2. n = [s EXCEPT !.snap.rev = m.rev,
                      !.snap.val = [t \in Targets |-> IF t \in DOMAIN m.changes
                                                      THEN m.changes[t] ELSE @[t]]]
    BY <1>1 DEF Decks, Snaps, Overlaid
  <2>3. AcceptDelta(s, m) = AdvanceAll(n)
    BY <1>3, <2>2 DEF AcceptDelta
  <2> HIDE DEF snap
  <2>4. /\ n \in Decks /\ n.queue = s.queue /\ n.promise = s.promise /\ n.pend = s.pend
        /\ n.answers = s.answers /\ n.seq = s.seq /\ n.resync = s.resync
        /\ n.ping = s.ping /\ n.conn = s.conn /\ n.snap = snap
    BY <1>1, <2>1 DEF Decks
  <2> HIDE DEF n
  <2>5. Fine(n)
    BY <1>1, <2>4, FieldsAreFine
  <2>6. Fine(AdvanceAll(n)) /\ Same(n, AdvanceAll(n))
    BY <2>5, AdvanceAllIsFine
  <2>7. s.snap.session = m.session /\ s.snap.rev = m.base
    BY <1>3 DEF Continues
  <2> QED
    BY <2>1, <2>3, <2>4, <2>6, <2>7 DEF Same, Hears, snap
<1> QED
  BY <1>2, <1>3

LEMMA AcceptPongIs ==
  ASSUME NEW s, Fine(s), NEW m \in Pongs
  PROVE  Fine(AcceptPong(s, m)) /\ Hears(s, AcceptPong(s, m), m)
<1> DEFINE s1 == [s EXCEPT !.ping = 0]
<1>1. s \in Decks /\ s.seq \in Nat
  BY FineIs, DeckFields
<1>2. /\ s1 \in Decks /\ s1.queue = s.queue /\ s1.promise = s.promise /\ s1.pend = s.pend
      /\ s1.answers = s.answers /\ s1.seq = s.seq /\ s1.resync = s.resync
      /\ s1.ping = 0 /\ Same(s, s1)
  BY <1>1 DEF Decks, Same
<1>3. AcceptPong(s, m) \in {Close(s, "UNEXPECTED_PONG"), RequestState(s1), s1}
  BY DEF AcceptPong
<1> HIDE DEF s1
<1>4. Fine(s1)
  BY <1>1, <1>2, FieldsAreFine
<1>5. Fine(RequestState(s1)) /\ Same(s1, RequestState(s1))
  BY <1>4, RequestStateIs
<1>6. Fine(Close(s, "UNEXPECTED_PONG")) /\ Resting(Close(s, "UNEXPECTED_PONG"))
  BY FineToClose DEF Reasons
<1> QED
  BY <1>2, <1>3, <1>4, <1>5, <1>6 DEF Hears, Same

(* An answer for the promises of a request that was out.                   *)
LEMMA ToldIsFine ==
  ASSUME NEW s, Fine(s), NEW told \in SUBSET Replies,
         \A a \in told : s.promise[a.born] # "new" /\ a.code \in Codes \cup {"ack"}
  PROVE  LET r == [s EXCEPT !.answers = @ \cup told] IN Fine(r) /\ Same(s, r)
<1> DEFINE r == [s EXCEPT !.answers = s.answers \cup told]
<1>1. s \in Decks /\ AllTidy(s) /\ PendSound(s) /\ AnswersSound(s)
  BY FineIs
<1>2. [s EXCEPT !.answers = @ \cup told] = r
  BY <1>1 DEF Decks
<1>3. /\ r \in Decks /\ r.queue = s.queue /\ r.promise = s.promise /\ r.pend = s.pend
      /\ r.answers = s.answers \cup told /\ r.seq = s.seq /\ r.resync = s.resync
      /\ r.ping = s.ping /\ Same(s, r)
  <2> DEFINE a == s.answers \cup told
  <2>1. a \in SUBSET Replies
    BY <1>1, DeckFields
  <2> HIDE DEF a
  <2>2. [s EXCEPT !.answers = a] \in Decks
    BY <1>1, <2>1 DEF Decks
  <2> QED
    BY <1>1, <2>2 DEF Decks, Same, a
<1> HIDE DEF r
<1>4. PendSound(r) /\ AnswersSound(r)
  BY <1>1, <1>3 DEF PendSound, AnswersSound
<1>5. AllGood(r)
  BY <1>1, <1>3, <1>4, ReframedIsGood
<1> QED
  BY <1>2, <1>3, <1>5 DEF Fine

(* The answer that a request gets.                                         *)
LEMMA AnswerIs ==
  ASSUME NEW s, NEW p \in EditRequests, NEW code \in Reasons, NEW ack \in Acks
  PROVE  LET a == Answer(p, code, ack)
         IN  a \in Replies /\ a.born = p.born /\ a.code = code
<1>1. p.target \in Targets /\ p.born \in Inputs
  BY DEF EditRequests
<1> QED
  BY <1>1 DEF Answer, Replies

LEMMA AcceptAckIs ==
  ASSUME NEW s, Fine(s), NEW m \in AckMessages,
         NEW p \in StateRequests \cup EditRequests, p.op = "edit" => s.promise[p.born] # "new"
  PROVE  Fine(AcceptAck(s, p, m)) /\ Hears(s, AcceptAck(s, p, m), m)
<1> DEFINE ack == [inst |-> s.snap.inst, session |-> m.session, rev |-> m.rev]
           told == {Answer(p, "ack", ack)}
           r == [s EXCEPT !.answers = @ \cup told]
<1>1. s \in Decks /\ s.snap \in Snaps
  BY FineIs, DeckFields
<1>2. CASE p.op = "requestState"
  BY <1>2 DEF AcceptAck, Hears
<1>3. CASE p.op # "requestState"
  <2>1. p \in EditRequests /\ s.promise[p.born] # "new"
    BY <1>3 DEF StateRequests, EditRequests
  <2>2. ack \in Acks
    BY <1>1 DEF Snaps, AckMessages, Acks
  <2> HIDE DEF ack
  <2>3. told \in SUBSET Replies /\ \A a \in told : s.promise[a.born] # "new" /\ a.code = "ack"
    BY <2>1, <2>2, AnswerIs DEF Reasons
  <2>4. AcceptAck(s, p, m) \in {Close(s, "INVALID_ACK"), r}
    BY <1>3 DEF AcceptAck, ack
  <2> HIDE DEF told
  <2>5. Fine(r) /\ Same(s, r)
    BY <2>3, ToldIsFine
  <2>6. Fine(Close(s, "INVALID_ACK")) /\ Resting(Close(s, "INVALID_ACK"))
    BY FineToClose DEF Reasons
  <2> HIDE DEF r
  <2> QED
    BY <2>4, <2>5, <2>6 DEF Hears, Same
<1> QED
  BY <1>2, <1>3

LEMMA AcceptErrorIs ==
  ASSUME NEW s, Fine(s), NEW m \in Errors,
         NEW p \in StateRequests \cup EditRequests, p.op = "edit" => s.promise[p.born] # "new"
  PROVE  Fine(AcceptError(s, p, m)) /\ Hears(s, AcceptError(s, p, m), m)
<1> DEFINE new == {Answer(e, m.code, NoAck) : e \in Edits({p})}
           told == [s EXCEPT !.answers = @ \cup new]
           all == CancelPending(told, m.code)
           reset == ResetStore(all)
<1>1. m.code \in Codes /\ m.code \in Reasons
  BY DEF Errors, Reasons
<1>2. new \in SUBSET Replies /\ \A a \in new : s.promise[a.born] # "new" /\ a.code \in Codes
  <2> SUFFICES ASSUME NEW e \in Edits({p})
               PROVE  LET a == Answer(e, m.code, NoAck)
                      IN  a \in Replies /\ s.promise[a.born] # "new" /\ a.code \in Codes
    OBVIOUS
  <2>1. e \in EditRequests /\ s.promise[e.born] # "new"
    BY DEF Edits, StateRequests
  <2> QED
    BY <1>1, <2>1, AnswerIs, Empties
<1> HIDE DEF new
<1>3. Fine(told) /\ Same(s, told)
  BY <1>2, ToldIsFine
<1> HIDE DEF told
<1>4. Fine(all) /\ Same(told, all)
  BY <1>1, <1>3, CancelledIsFine
<1> HIDE DEF all
<1>5. Fine(reset) /\ reset.conn = all.conn /\ reset.snap = NoSnap
  <2>1. /\ AllGood(reset) /\ reset.conn = all.conn /\ reset.snap = NoSnap /\ reset.seq = all.seq
        /\ reset.resync = all.resync /\ reset.ping = all.ping
    BY <1>4, FineIs, ResetStoreIs DEF AnswersSound
  <2> QED
    BY <1>4, <2>1 DEF Fine
<1> HIDE DEF reset
<1>6. /\ Fine(RequestState(reset)) /\ Same(reset, RequestState(reset))
      /\ Fine(RequestState(told)) /\ Same(told, RequestState(told))
  BY <1>3, <1>5, RequestStateIs
<1>7. Fine(Close(told, m.code)) /\ Resting(Close(told, m.code))
  BY <1>1, <1>3, FineToClose
<1>8. AcceptError(s, p, m) \in {Close(told, m.code), RequestState(reset), RequestState(told), told}
  BY DEF AcceptError, told, new, all, reset
<1> QED
  BY <1>3, <1>4, <1>5, <1>6, <1>7, <1>8 DEF Hears, Same

LEMMA AcceptAnswerIs ==
  ASSUME NEW s, Fine(s), NEW m \in AckMessages \cup Errors
  PROVE  Fine(AcceptAnswer(s, m)) /\ Hears(s, AcceptAnswer(s, m), m)
<1> DEFINE asked == {p \in s.pend : p.id = m.id}
           p  == CHOOSE p \in asked : TRUE
           s1 == [s EXCEPT !.pend = @ \ asked]
<1>1. s \in Decks /\ s.seq \in Nat /\ PendSound(s) /\ s.pend \in SUBSET (StateRequests \cup EditRequests)
  BY FineIs, DeckFields
<1>2. CASE asked = {}
  <2>1. AcceptAnswer(s, m) = Close(s, "UNEXPECTED_RESPONSE")
    BY <1>2 DEF AcceptAnswer
  <2> QED
    BY <2>1, FineToClose DEF Hears, Reasons
<1>3. CASE asked # {}
  <2>1. p \in s.pend /\ p \in StateRequests \cup EditRequests /\ (p.op = "edit" => s.promise[p.born] # "new")
    BY <1>1, <1>3 DEF PendSound
  <2>2. /\ s1 \in Decks /\ s1.queue = s.queue /\ s1.promise = s.promise /\ s1.pend \subseteq s.pend
        /\ s1.answers = s.answers /\ s1.seq = s.seq /\ s1.resync = s.resync
        /\ s1.ping = s.ping /\ Same(s, s1)
    <3> DEFINE rest == s.pend \ asked
    <3>1. rest \in SUBSET (StateRequests \cup EditRequests) /\ rest \subseteq s.pend
      BY <1>1
    <3>2. s1 = [s EXCEPT !.pend = rest]
      BY <1>1 DEF Decks
    <3> HIDE DEF rest, s1
    <3>3. [s EXCEPT !.pend = rest] \in Decks
      BY <1>1, <3>1 DEF Decks
    <3> QED
      BY <1>1, <3>1, <3>2, <3>3 DEF Decks, Same
  <2>3. AcceptAnswer(s, m) = IF m.type = "ack" THEN AcceptAck(s1, p, m) ELSE AcceptError(s1, p, m)
    BY <1>3 DEF AcceptAnswer
  <2> HIDE DEF asked, p, s1
  <2>4. Fine(s1)
    BY <1>1, <2>2, FieldsAreFine
  <2>5. p.op = "edit" => s1.promise[p.born] # "new"
    BY <2>1, <2>2
  <2>6. CASE m.type = "ack"
    <3>1. m \in AckMessages
      BY <2>6 DEF AckMessages, Errors
    <3>2. Fine(AcceptAck(s1, p, m)) /\ Hears(s1, AcceptAck(s1, p, m), m)
      BY <2>1, <2>4, <2>5, <3>1, AcceptAckIs
    <3> QED
      BY <2>2, <2>3, <2>6, <3>2 DEF Hears, Same, HasSnap
  <2>7. CASE m.type # "ack"
    <3>1. m \in Errors
      BY <2>7 DEF AckMessages, Errors
    <3>2. Fine(AcceptError(s1, p, m)) /\ Hears(s1, AcceptError(s1, p, m), m)
      BY <2>1, <2>4, <2>5, <3>1, AcceptErrorIs
    <3> QED
      BY <2>2, <2>3, <2>7, <3>2 DEF Hears, Same, HasSnap
  <2> QED
    BY <2>6, <2>7
<1> QED
  BY <1>2, <1>3

(* receive()                                                               *)
LEMMA HandleIs ==
  ASSUME NEW s, Fine(s), NEW m \in DownMessages
  PROVE  Fine(Handle(s, m)) /\ Hears(s, Handle(s, m), m)
<1> DEFINE closed == {Close(s, "EOF"), Close(s, "HANDSHAKE_FAILED"), Close(s, "INSTANCE_CHANGED"),
                      Close(s, "STATE_REQUIRED"), Close(s, "SERVER_STOPPING")}
           greeted == SetStatus([s EXCEPT !.hello = TRUE], "checking")
<1>1. \A r \in closed : Fine(r) /\ Resting(r)
  BY FineToClose DEF Reasons
<1>2. Fine(greeted) /\ Same(s, greeted)
  <2> DEFINE n == [s EXCEPT !.hello = TRUE]
  <2>1. s \in Decks /\ s.seq \in Nat
    BY FineIs, DeckFields
  <2>2. /\ n \in Decks /\ n.queue = s.queue /\ n.promise = s.promise /\ n.pend = s.pend
        /\ n.answers = s.answers /\ n.seq = s.seq /\ n.resync = s.resync
        /\ n.ping = s.ping /\ Same(s, n)
    BY <2>1 DEF Decks, Same
  <2> HIDE DEF n
  <2>3. Fine(n) /\ "checking" \in Statuses
    BY <2>1, <2>2, FieldsAreFine DEF Statuses
  <2>4. Fine(SetStatus(n, "checking")) /\ Same(n, SetStatus(n, "checking"))
    BY <2>3, SetStatusIs
  <2> QED
    BY <2>2, <2>4 DEF Same, n
<1>3. CASE Handle(s, m) \in closed
  <2> HIDE DEF closed
  <2> QED
    BY <1>1, <1>3 DEF Hears
<1>4. CASE Handle(s, m) = greeted
  <2> HIDE DEF greeted
  <2> QED
    BY <1>2, <1>4 DEF Hears, Same
<1>5. ASSUME Handle(s, m) \notin closed, Handle(s, m) # greeted
      PROVE  /\ m.type \in {"state", "stateDelta", "pong", "ack", "error"}
             /\ HasSnap(s) \/ m.type \in {"state", "error"}
             /\ m.type = "state" => Handle(s, m) = AcceptState(s, m)
             /\ m.type = "stateDelta" => Handle(s, m) = AcceptDelta(s, m)
             /\ m.type = "pong" => Handle(s, m) = AcceptPong(s, m)
             /\ m.type \in {"ack", "error"} => Handle(s, m) = AcceptAnswer(s, m)
  <2>1. m.type \in {"helloAck", "serverStatus", "eof", "state", "stateDelta", "pong", "ack", "error"}
    BY DEF DownMessages, HelloAck, ServerStatus, EndOfStream, States, Deltas, Pongs, AckMessages, Errors
  <2>2. m.type # "eof" /\ s.hello /\ m.type # "helloAck"
        /\ (HasSnap(s) \/ m.type \in {"serverStatus", "state", "error"})
    BY <1>5 DEF Handle
  <2>3. Handle(s, m) = CASE m.type = "serverStatus"     -> Close(s, "SERVER_STOPPING")
         [] m.type = "state"            -> AcceptState(s, m)
         [] m.type = "stateDelta"       -> AcceptDelta(s, m)
         [] m.type = "pong"             -> AcceptPong(s, m)
         [] m.type \in {"ack", "error"} -> AcceptAnswer(s, m)
    BY <2>2 DEF Handle
  <2>4. m.type # "serverStatus"
    BY <1>5, <2>3
  <2> HIDE DEF closed, greeted
  <2> QED
    BY <2>1, <2>2, <2>3, <2>4
<1>6. /\ m.type = "state" => m \in States
      /\ m.type = "stateDelta" => m \in Deltas
      /\ m.type = "pong" => m \in Pongs
      /\ m.type \in {"ack", "error"} => m \in AckMessages \cup Errors
  BY DEF DownMessages, HelloAck, ServerStatus, EndOfStream, States, Deltas, Pongs, AckMessages, Errors
<1> HIDE DEF closed, greeted
<1> QED
  BY <1>3, <1>4, <1>5, <1>6, AcceptStateIs, AcceptDeltaIs, AcceptPongIs, AcceptAnswerIs

-----------------------------------------------------------------------------
(* The promises of requests and the timers of the queues. *)

LEMMA LeavesFine ==
  ASSUME NEW s, Fine(s), NEW t \in Targets, NEW r, Leaves(s, r, t, {})
  PROVE  Fine(r) /\ Same(s, r)
<1>1. AllGood(r) /\ Moves(s, r)
  BY FineIs, OneMoves
<1>2. s.seq \in Nat /\ r.seq \in Nat /\ s.resync \in 0 .. s.seq /\ s.ping \in 0 .. s.seq
  BY <1>1, FineIs, GoodIsTidy, DeckFields
<1> QED
  BY <1>1, <1>2 DEF Fine, Moves, Untouched, Same

LEMMA GoodOne ==
  ASSUME NEW s, Fine(s), NEW t \in Targets
  PROVE  Good(s, t, {}) /\ s \in Decks /\ s.queue[t] \in Queues
BY FineIs, DeckFields DEF AllGood, Good

(* Other intents in the places of a queue, for the same inputs.            *)
LEMMA ReplaceIs ==
  ASSUME NEW s, NEW t \in Targets, NEW L, Good(s, t, L), s.queue[t] # NoQueue,
         NEW w \in Queues, w.born = s.queue[t].born, Rearranges(s.queue[t], w)
  PROVE  Leaves(s, [s EXCEPT !.queue[t] = w], t, L)
<1> DEFINE r == [s EXCEPT !.queue[t] = w]
<1>1. s \in Decks
  BY DEF Good, Sound
<1>2. /\ r \in Decks /\ Quiet(s, r) /\ r.promise = s.promise
      /\ r.queue[t] = w /\ \A u \in Targets : u # t => r.queue[u] = s.queue[u]
  BY <1>1, SetQueueIs
<1> HIDE DEF r
<1>3. Works(s, r, t, L)
  BY <1>1, <1>2, QuietWorks
<1>4. Sound(r)
  <2>1. r.pend = s.pend
    BY <1>2 DEF Quiet
  <2> QED
    BY <1>2, <1>3, <2>1, WorkIsSound DEF Good
<1>5. Tidy(r, t, L, {})
  BY <1>1, <1>2, RearrangedIsTidy DEF Good
<1> QED
  BY <1>3, <1>4, <1>5 DEF Leaves, Good, r

LEMMA SamePlaces ==
  ASSUME NEW q, NEW w, Places(w) = Places(q), \A n \in Places(q) : Place(w, n) = Place(q, n)
  PROVE  Rearranges(q, w)
<1> DEFINE from == [n \in Places(w) |-> n]
<1>1. from \in [Places(w) -> Places(q)]
  OBVIOUS
<1> QED
  BY <1>1 DEF Rearranges

LEMMA AnsweredIsFine ==
  ASSUME NEW s, Fine(s), NEW a \in Replies,
         a.code \in Codes \cup {"ack"} \/ s.queue[a.target].born # a.born
  PROVE  Fine(Answered(s, a)) /\ Same(s, Answered(s, a))
<1> DEFINE t == a.target
           q == s.queue[t]
           w1 == [q EXCEPT !.ack = a.ack]
           w2 == [q EXCEPT !.active.retries = @ - 1, !.active.retrying = TRUE]
           r1 == [s EXCEPT !.queue[t] = w1]
           r2 == [s EXCEPT !.queue[t] = w2]
<1>1. t \in Targets /\ a.ack \in Acks
  BY DEF Replies
<1>2. Good(s, t, {}) /\ s \in Decks /\ q \in Queues /\ q.active \in Intents
  BY <1>1, GoodOne, QueueFields
<1>3. CASE ~ SameQueue(q, a)
  BY <1>3 DEF Answered, Same
<1>4. CASE SameQueue(q, a) /\ a.code = "ack"
  <2>1. Answered(s, a) = Advance(r1, t)
    <3>1. [s EXCEPT !.queue[t].ack = a.ack] = r1
      BY <1>2 DEF Decks
    <3> QED
      BY <1>4, <3>1 DEF Answered
  <2>2. w1 \in Queues /\ w1.born = q.born /\ w1.waiting = q.waiting /\ w1.active = q.active
    BY <1>1, <1>2 DEF Queues
  <2>3. Rearranges(q, w1)
    <3>1. Places(w1) = Places(q) /\ \A n \in Places(q) : Place(w1, n) = Place(q, n)
      BY <2>2 DEF Places, Place
    <3> QED
      BY <3>1, SamePlaces
  <2>4. q # NoQueue
    BY <1>4 DEF SameQueue
  <2> HIDE DEF w1
  <2>5. Leaves(s, r1, t, {})
    BY <1>1, <1>2, <2>2, <2>3, <2>4, ReplaceIs
  <2> HIDE DEF r1, t
  <2>6. Leaves(r1, Advance(r1, t), t, {})
    BY <1>1, <2>5, AdvanceIs DEF Leaves
  <2>7. Leaves(s, Advance(r1, t), t, {})
    BY <1>1, <1>2, <2>5, <2>6, MoreWork
  <2> QED
    BY <1>1, <2>1, <2>7, LeavesFine
<1>5. CASE SameQueue(q, a) /\ a.code = "REVISION_CONFLICT" /\ q.active.retries > 0 /\ q.active.parts # {}
  <2>1. Answered(s, a) = Advance(r2, t)
    <3>1. [s EXCEPT !.queue[t].active.retries = @ - 1, !.queue[t].active.retrying = TRUE] = r2
      <4> DEFINE A == [q EXCEPT !.active.retries = @ - 1]
                 m == [s EXCEPT !.queue[t] = A]
      <4>1. [s EXCEPT !.queue[t].active.retries = @ - 1] = m
        BY <1>2 DEF Decks
      <4>2. m.queue[t] = A /\ [m EXCEPT !.queue[t].active.retrying = TRUE]
                              = [m EXCEPT !.queue[t] = [A EXCEPT !.active.retrying = TRUE]]
        <5> HIDE DEF A
        <5> QED
          BY <1>1, <1>2 DEF Decks
      <4>3. w2 = [A EXCEPT !.active.retrying = TRUE]
        OBVIOUS
      <4> HIDE DEF A, w2
      <4>4. [m EXCEPT !.queue[t] = w2] = r2
        BY <1>1, <1>2 DEF Decks
      <4> HIDE DEF m
      <4> QED
        BY <4>1, <4>2, <4>3, <4>4
    <3> QED
      BY <1>5, <3>1 DEF Answered
  <2>2. w2 \in Queues /\ w2.born = q.born /\ w2.waiting = q.waiting /\ w2.active.parts = q.active.parts
    <3> DEFINE x == [q.active EXCEPT !.retries = @ - 1, !.retrying = TRUE]
    <3>1. x \in Intents /\ x.parts = q.active.parts
      <4> DEFINE less == q.active.retries - 1
      <4>1. less \in Nat
        BY <1>2, <1>5 DEF Intents
      <4>2. x = [q.active EXCEPT !.retries = less, !.retrying = TRUE]
        BY <1>2 DEF Intents
      <4> HIDE DEF less, x
      <4> QED
        BY <1>2, <4>1, <4>2 DEF Intents
    <3>2. w2 = [q EXCEPT !.active = x]
      BY <1>2 DEF Queues, Intents
    <3> HIDE DEF x
    <3> QED
      BY <1>2, <3>1, <3>2 DEF Queues
  <2>3. Rearranges(q, w2)
    <3>1. Places(w2) = Places(q) /\ \A n \in Places(q) : Place(w2, n) = Place(q, n)
      <4> HIDE DEF w2
      <4> QED
        BY <2>2 DEF Places, Place
    <3> QED
      BY <3>1, SamePlaces
  <2>4. q # NoQueue
    BY <1>5 DEF SameQueue
  <2> HIDE DEF w2
  <2>5. Leaves(s, r2, t, {})
    BY <1>1, <1>2, <2>2, <2>3, <2>4, ReplaceIs
  <2> HIDE DEF r2, t
  <2>6. Leaves(r2, Advance(r2, t), t, {})
    BY <1>1, <2>5, AdvanceIs DEF Leaves
  <2>7. Leaves(s, Advance(r2, t), t, {})
    BY <1>1, <1>2, <2>5, <2>6, MoreWork
  <2> QED
    BY <1>1, <2>1, <2>7, LeavesFine
<1>6. CASE /\ SameQueue(q, a) /\ a.code # "ack"
           /\ ~ (a.code = "REVISION_CONFLICT" /\ q.active.retries > 0 /\ q.active.parts # {})
  <2>1. Answered(s, a) = FailTarget(s, t, a.code)
    BY <1>6 DEF Answered
  <2>2. a.code \in Codes
    BY <1>6 DEF SameQueue
  <2> QED
    BY <1>1, <1>2, <2>1, <2>2, FailTargetIs, LeavesFine
<1> QED
  BY <1>3, <1>4, <1>5, <1>6

LEMMA TakeAnswerIs ==
  ASSUME NEW s, Fine(s), NEW a \in s.answers
  PROVE  LET r == Answered([s EXCEPT !.answers = @ \ {a}], a) IN Fine(r) /\ Same(s, r)
<1> DEFINE left == s.answers \ {a}
           m == [s EXCEPT !.answers = left]
<1>1. s \in Decks /\ s.seq \in Nat /\ AnswersSound(s) /\ s.answers \in SUBSET Replies
  BY FineIs, DeckFields
<1>2. a \in Replies /\ (a.code \in Codes \cup {"ack"} \/ s.queue[a.target].born # a.born)
  BY <1>1 DEF AnswersSound
<1>3. [s EXCEPT !.answers = @ \ {a}] = m
  BY <1>1 DEF Decks
<1>4. left \in SUBSET Replies /\ left \subseteq s.answers
  BY <1>1
<1> HIDE DEF left
<1>5. /\ m \in Decks /\ m.queue = s.queue /\ m.promise = s.promise /\ m.pend = s.pend
      /\ m.answers = left /\ m.seq = s.seq /\ m.resync = s.resync
      /\ m.ping = s.ping /\ Same(s, m)
  BY <1>1, <1>4 DEF Decks, Same
<1> HIDE DEF m
<1>6. Fine(m)
  BY <1>1, <1>4, <1>5, FieldsAreFine
<1>7. Fine(Answered(m, a)) /\ Same(m, Answered(m, a))
  BY <1>2, <1>5, <1>6, AnsweredIsFine
<1> QED
  BY <1>3, <1>5, <1>7 DEF Same

LEMMA WaitingExpiresIs ==
  ASSUME NEW s, Fine(s), NEW t \in Targets, NEW n \in DOMAIN s.queue[t].waiting
  PROVE  LET r == Advance(Settle([s EXCEPT !.queue[t].waiting = RemoveAt(@, n)],
                                 s.queue[t].waiting[n].parts, "INPUT_EXPIRED"), t)
         IN  Fine(r) /\ Same(s, r)
<1> DEFINE q == s.queue[t]
           w == [q EXCEPT !.waiting = RemoveAt(@, n)]
           m == Settle([s EXCEPT !.queue[t] = w], q.waiting[n].parts, "INPUT_EXPIRED")
<1>1. Good(s, t, {}) /\ s \in Decks /\ q \in Queues /\ n \in 1 .. Len(q.waiting)
  BY GoodOne, QueueFields, LenProperties
<1>2. w \in Queues /\ w.born = q.born /\ q # NoQueue /\ Drops(q, w, q.waiting[n].parts)
  BY <1>1, RemovalDrops
<1>3. [s EXCEPT !.queue[t].waiting = RemoveAt(@, n)] = [s EXCEPT !.queue[t] = w]
  BY <1>1 DEF Decks
<1> HIDE DEF w
<1>4. Leaves(s, m, t, {})
  <2>1. "INPUT_EXPIRED" \in Codes \cup {"done"}
    BY DEF Codes
  <2> QED
    BY <1>1, <1>2, <2>1, DropIs
<1> HIDE DEF m
<1>5. Leaves(m, Advance(m, t), t, {})
  BY <1>4, AdvanceIs DEF Leaves
<1>6. Leaves(s, Advance(m, t), t, {})
  BY <1>1, <1>4, <1>5, MoreWork
<1> QED
  BY <1>3, <1>6, LeavesFine DEF m

LEMMA WakeIs ==
  ASSUME NEW s, Fine(s), NEW t \in Targets, NEW n \in DOMAIN s.queue[t].waiting
  PROVE  LET r == Advance([s EXCEPT !.queue[t].waiting[n].ripe = TRUE], t)
         IN  Fine(r) /\ Same(s, r)
<1> DEFINE q == s.queue[t]
           v == [q.waiting EXCEPT ![n].ripe = TRUE]
           w == [q EXCEPT !.waiting = v]
           m == [s EXCEPT !.queue[t] = w]
<1>1. /\ Good(s, t, {}) /\ s \in Decks /\ q \in Queues /\ q.waiting \in Seq(Intents)
      /\ n \in 1 .. Len(q.waiting) /\ Len(q.waiting) \in Nat
  BY GoodOne, QueueFields, LenProperties
<1>2. [s EXCEPT !.queue[t].waiting[n].ripe = TRUE] = m
  BY <1>1 DEF Decks, Queues
<1>3. [q.waiting[n] EXCEPT !.ripe = TRUE] \in Intents
      /\ [q.waiting[n] EXCEPT !.ripe = TRUE].parts = q.waiting[n].parts
  <2>1. q.waiting[n] \in Intents
    BY <1>1, ElementOfSeq
  <2> QED
    BY <2>1 DEF Intents
<1>4. /\ v \in Seq(Intents) /\ Len(v) = Len(q.waiting)
      /\ \A k \in 1 .. Len(q.waiting) : v[k].parts = q.waiting[k].parts
  <2> DEFINE x == [q.waiting[n] EXCEPT !.ripe = TRUE]
  <2>1. v = [q.waiting EXCEPT ![n] = x]
    BY <1>1
  <2> HIDE DEF x, v
  <2>2. x \in Intents /\ x.parts = q.waiting[n].parts
    BY <1>3 DEF x
  <2> QED
    BY <1>1, <2>1, <2>2, ExceptSeq
<1> HIDE DEF v
<1>5. w \in Queues /\ w.born = q.born /\ w.waiting = v /\ w.active = q.active
  BY <1>1, <1>4 DEF Queues
<1> HIDE DEF w
<1>6. Places(w) = Places(q) /\ \A k \in Places(q) : Place(w, k) = Place(q, k)
  <2>1. Places(w) = Places(q)
    BY <1>4, <1>5 DEF Places
  <2>2. ASSUME NEW k \in Places(q)
        PROVE  Place(w, k) = Place(q, k)
    <3>1. k = 0 \/ k \in 1 .. Len(q.waiting)
      BY <1>1 DEF Places
    <3> QED
      BY <1>4, <1>5, <3>1 DEF Place
  <2> QED
    BY <2>1, <2>2
<1>7. q # NoQueue
  BY <1>1, EmptyQueue, EmptySeq
<1>8. Leaves(s, m, t, {})
  BY <1>1, <1>5, <1>6, <1>7, SamePlaces, ReplaceIs
<1> HIDE DEF m, q
<1>9. Leaves(m, Advance(m, t), t, {})
  BY <1>8, AdvanceIs DEF Leaves
<1>10. Leaves(s, Advance(m, t), t, {})
  BY <1>1, <1>8, <1>9, MoreWork
<1> QED
  BY <1>2, <1>10, LeavesFine

LEMMA FailureIsFine ==
  ASSUME NEW s, Fine(s), NEW t \in Targets, NEW code \in Codes
  PROVE  LET r == FailTarget(s, t, code) IN Fine(r) /\ Same(s, r)
BY GoodOne, FailTargetIs, LeavesFine

LEMMA StateTimeoutIs ==
  ASSUME NEW s, Fine(s), NEW t \in Targets
  PROVE  LET r == RequestState(FailTarget(s, t, "STATE_TIMEOUT")) IN Fine(r) /\ Same(s, r)
<1> DEFINE m == FailTarget(s, t, "STATE_TIMEOUT")
<1>1. Fine(m) /\ Same(s, m)
  <2>1. "STATE_TIMEOUT" \in Codes
    BY DEF Codes
  <2> QED
    BY <2>1, FailureIsFine
<1> HIDE DEF m
<1>2. Fine(RequestState(m)) /\ Same(m, RequestState(m))
  BY <1>1, RequestStateIs
<1> QED
  BY <1>1, <1>2 DEF Same, m

LEMMA SendPingIs ==
  ASSUME NEW s, Fine(s)
  PROVE  LET r == [s EXCEPT !.seq = @ + 1, !.ping = s.seq + 1, !.out = <<Ping(s.seq + 1)>>]
         IN  Fine(r) /\ Same(s, r)
<1> DEFINE id == s.seq + 1
           out == <<Ping(id)>>
           r == [s EXCEPT !.seq = id, !.ping = id, !.out = out]
<1>1. s \in Decks /\ s.seq \in Nat /\ s.resync \in 0 .. s.seq /\ AllGood(s)
  BY FineIs, DeckFields
<1>2. id \in Nat /\ s.seq <= id /\ s.resync <= id
  BY <1>1
<1>3. out \in Seq(UpMessages)
  <2>1. Ping(id) \in UpMessages
    BY <1>2 DEF Ping, UpMessages
  <2> QED
    BY <2>1
<1>4. [s EXCEPT !.seq = @ + 1, !.ping = s.seq + 1, !.out = <<Ping(s.seq + 1)>>] = r
  BY <1>1 DEF Decks
<1> HIDE DEF out, id
<1>5. /\ r \in Decks /\ r.queue = s.queue /\ r.promise = s.promise /\ r.pend = s.pend
      /\ r.answers = s.answers /\ r.seq = id /\ r.resync = s.resync
      /\ r.ping = id /\ Same(s, r)
  BY <1>1, <1>2, <1>3 DEF Decks, Same
<1> HIDE DEF r
<1>6. AllGood(r)
  BY <1>1, <1>2, <1>5, OtherFields
<1>7. Fine(r) /\ Same(s, r)
  BY <1>2, <1>5, <1>6 DEF Fine
<1> QED
  BY <1>4, <1>7

-----------------------------------------------------------------------------
(* The user. *)

(* An input was made that is in no queue yet.                              *)
Loose(s, i) ==
  /\ Sound(s) /\ s.answers = {} /\ s.promise[i] = "open"
  /\ \A t \in Targets : Tidy(s, t, {i}, {})
(* What comes of it in the end.                                            *)
Lands(s, r) == AllGood(r) /\ Untouched(s, r) /\ s.seq <= r.seq

LEMMA LooseLeaves ==
  ASSUME NEW s, NEW i \in Inputs, Loose(s, i), NEW t \in Targets, NEW r, Leaves(s, r, t, {i})
  PROVE  Loose(r, i) /\ Untouched(s, r) /\ s.seq <= r.seq
<1>1. s \in Decks /\ r \in Decks /\ Works(s, r, t, {i}) /\ Sound(r) /\ Tidy(r, t, {i}, {})
  BY DEF Loose, Leaves, Good, Sound
<1>2. \A u \in Targets : Tidy(r, u, {i}, {})
  BY <1>1, WorkElsewhere DEF Loose
<1>3. r.promise[i] = "open" /\ r.answers = {} /\ Untouched(s, r) /\ s.seq <= r.seq
  BY <1>1 DEF Works, Loose, Untouched
<1> QED
  BY <1>1, <1>2, <1>3 DEF Loose

(* It is loose when it is made.                                            *)
LEMMA MadeIsLoose ==
  ASSUME NEW s, Fine(s), s.answers = {}, NEW i \in Inputs, s.promise[i] = "new"
  PROVE  LET r == [s EXCEPT !.promise[i] = "open"]
         IN  Loose(r, i) /\ Untouched(s, r) /\ r.seq = s.seq /\ r.queue = s.queue
<1> DEFINE p == [s.promise EXCEPT ![i] = "open"]
           r == [s EXCEPT !.promise = p]
<1>1. s \in Decks /\ AllTidy(s) /\ PendSound(s) /\ s.promise \in [Inputs -> Promises]
  BY FineIs, DeckFields
<1>2. [s EXCEPT !.promise[i] = "open"] = r
  BY <1>1 DEF Decks
<1>3. p \in [Inputs -> Promises] /\ p[i] = "open" /\ \A j \in Inputs : j # i => p[j] = s.promise[j]
  BY <1>1 DEF Promises
<1> HIDE DEF p
<1>4. /\ r \in Decks /\ r.queue = s.queue /\ r.promise = p /\ r.pend = s.pend
      /\ r.answers = s.answers /\ r.seq = s.seq /\ Untouched(s, r)
  BY <1>1, <1>3 DEF Decks, Untouched
<1> HIDE DEF r
<1>5. \A j \in Inputs : s.promise[j] # "new" => r.promise[j] # "new"
  BY <1>3, <1>4
<1>6. Sound(r)
  <2>1. \A q \in s.pend : q.op = "edit" => q.born \in Inputs
    BY <1>1, DeckFields DEF StateRequests, EditRequests
  <2>2. PendSound(r)
    BY <1>1, <1>4, <1>5, <2>1 DEF PendSound
  <2>3. AnswersSound(r)
    BY <1>4 DEF AnswersSound
  <2> QED
    BY <1>4, <2>2, <2>3 DEF Sound
<1>7. ASSUME NEW t \in Targets
      PROVE  Tidy(r, t, {i}, {})
  <2>1. Tidy(s, t, {}, {})
    BY <1>1 DEF AllTidy
  <2>2. s.queue[t] \in Queues /\ \A n \in Places(s.queue[t]) : Place(s.queue[t], n) \in SUBSET Inputs
    BY <1>1, DeckFields, QueueFields
  <2>3. \A j \in Inputs : Mine(s, t, j) <=> (Mine(r, t, j) /\ j \notin {i})
    BY <1>3, <1>4 DEF Mine
  <2> QED
    BY <1>4, <1>5, <2>1, <2>2, <2>3 DEF Tidy
<1> QED
  BY <1>2, <1>3, <1>4, <1>6, <1>7 DEF Loose

(* It is refused.                                                          *)
LEMMA LooseIsSettled ==
  ASSUME NEW s, NEW i \in Inputs, Loose(s, i), NEW code \in Codes
  PROVE  Lands(s, Settle(s, {i}, code))
<1> DEFINE r == Settle(s, {i}, code)
<1>1. s \in Decks /\ Sound(s) /\ s.seq \in Nat
  BY DeckFields DEF Loose, Sound
<1>2. /\ r \in Decks /\ Quiet(s, r) /\ r.queue = s.queue
      /\ \A j \in Inputs : r.promise[j] = IF j \in {i} /\ s.promise[j] = "open" THEN code
                                          ELSE s.promise[j]
  BY <1>1, SettleIs
<1> HIDE DEF r
<1>3. Moves(s, r)
  BY <1>1, <1>2 DEF Moves, Quiet
<1>4. Sound(r)
  BY <1>1, <1>2, <1>3, MovesIsSound DEF Quiet
<1>5. ASSUME NEW t \in Targets
      PROVE  Tidy(r, t, {}, {})
  <2>1. Tidy(s, t, {i}, {})
    BY DEF Loose
  <2>2. s.queue[t] \in Queues /\ \A n \in Places(s.queue[t]) : Place(s.queue[t], n) \in SUBSET Inputs
    BY <1>1, DeckFields, QueueFields
  <2>3. \A j \in Inputs : Mine(r, t, j) <=> (Mine(s, t, j) /\ j \notin {i})
    BY <1>2, Empties DEF Mine, Loose
  <2>4. \A j \in Inputs : s.promise[j] # "new" => r.promise[j] # "new"
    BY <1>3, Empties DEF Moves
  <2> QED
    BY <1>2, <2>1, <2>2, <2>3, <2>4 DEF Tidy
<1> QED
  BY <1>1, <1>2, <1>4, <1>5 DEF Lands, AllGood, Quiet, r

(* A queue with one input more, in its last place.                         *)
Joins(old, new, i) ==
  LET last == Len(new.waiting)
  IN /\ last \in Places(new) /\ last # 0
     /\ Place(new, last) = (IF last \in Places(old) THEN Place(old, last) ELSE {}) \cup {i}
     /\ Places(old) \subseteq Places(new)
     /\ \A n \in Places(new) : n # last => n \in Places(old) /\ Place(new, n) = Place(old, n)

LEMMA JoinIs ==
  ASSUME NEW s, NEW i \in Inputs, Loose(s, i), NEW t \in Targets, t = Input[i].target,
         NEW w \in Queues, w.born \in Inputs, s.promise[w.born] # "new", Joins(s.queue[t], w, i)
  PROVE  LET r == [s EXCEPT !.queue[t] = w] IN AllGood(r) /\ Quiet(s, r)
<1> DEFINE r == [s EXCEPT !.queue[t] = w]  q == s.queue[t]
<1>1. s \in Decks /\ Sound(s) /\ q \in Queues
  BY DeckFields DEF Loose, Sound
<1>2. /\ r \in Decks /\ Quiet(s, r) /\ r.promise = s.promise
      /\ r.queue[t] = w /\ \A u \in Targets : u # t => r.queue[u] = s.queue[u]
  BY <1>1, SetQueueIs
<1> HIDE DEF r
<1>3. Sound(r)
  <2>1. PendSound(r)
    BY <1>1, <1>2 DEF Sound, PendSound, Quiet
  <2>2. AnswersSound(r)
    BY <1>2 DEF Loose, AnswersSound, Quiet, Untouched
  <2> QED
    BY <1>2, <2>1, <2>2 DEF Sound
<1>4. \A u, j : Mine(r, u, j) <=> Mine(s, u, j)
  BY <1>2 DEF Mine
<1>5. ASSUME NEW u \in Targets, u # t
      PROVE  Tidy(r, u, {}, {})
  <2>1. \A j : Mine(s, u, j) => j # i
    BY <1>5 DEF Mine
  <2>2. Tidy(s, u, {i}, {})
    BY DEF Loose
  <2> QED
    BY <1>2, <1>4, <1>5, <2>1, <2>2 DEF Tidy
<1>6. Tidy(r, t, {}, {})
  <2>1. /\ \A n \in Places(q) : \A j \in Place(q, n) : Mine(s, t, j) /\ j # i
        /\ \A n, m \in Places(q) : n # m => Place(q, n) \cap Place(q, m) = {}
        /\ \A j \in Inputs : Mine(s, t, j) /\ j # i => \E n \in Places(q) : j \in Place(q, n)
    BY DEF Loose, Tidy
  <2> DEFINE k == Len(w.waiting)
  <2>2. /\ k \in Places(w)
        /\ Place(w, k) = (IF k \in Places(q) THEN Place(q, k) ELSE {}) \cup {i}
        /\ Places(q) \subseteq Places(w)
        /\ \A n \in Places(w) : n # k => n \in Places(q) /\ Place(w, n) = Place(q, n)
    BY DEF Joins
  <2> HIDE DEF k
  <2>3. Mine(s, t, i)
    BY DEF Loose, Mine
  <2> HIDE DEF q
  <2>4. \A n \in Places(w) : \A j \in Place(w, n) : Mine(r, t, j)
    BY <1>4, <2>1, <2>2, <2>3
  <2>5. \A n, m \in Places(w) : n # m => Place(w, n) \cap Place(w, m) = {}
    <3> TAKE n, m \in Places(w)
    <3> HAVE n # m
    <3>1. CASE n # k /\ m # k
      BY <2>1, <2>2, <3>1
    <3>2. CASE n = k
      BY <2>1, <2>2, <3>2
    <3>3. CASE m = k
      BY <2>1, <2>2, <3>3
    <3> QED
      BY <3>1, <3>2, <3>3
  <2>6. \A j \in Inputs : Mine(r, t, j) => \E n \in Places(w) : j \in Place(w, n)
    <3> TAKE j \in Inputs
    <3> HAVE Mine(r, t, j)
    <3>1. CASE j = i
      BY <2>2, <3>1
    <3>2. CASE j # i
      <4>1. PICK n \in Places(q) : j \in Place(q, n)
        BY <1>4, <2>1, <3>2
      <4>2. n \in Places(w) /\ j \in Place(w, n)
        BY <2>2, <4>1
      <4> QED
        BY <4>2
    <3> QED
      BY <3>1, <3>2
  <2>7. w.born \in Inputs /\ r.promise[w.born] # "new"
    BY <1>2
  <2> QED
    BY <1>2, <2>4, <2>5, <2>6, <2>7 DEF Tidy
<1> QED
  BY <1>2, <1>3, <1>5, <1>6 DEF AllGood, r

LEMMA IntentIs ==
  ASSUME NEW i \in Inputs
  PROVE  Intent(i) \in Intents /\ Intent(i).parts = {i}
<1>1. Input[i].kind \in Kinds /\ Input[i].retries \in Nat
  BY WireFacts
<1> QED
  BY <1>1 DEF Intent, Intents

(* A queue that was joined is advanced.                                    *)
LEMMA JoinAdvances ==
  ASSUME NEW s \in Decks, NEW m, AllGood(m), Quiet(s, m), NEW t \in Targets
  PROVE  Lands(s, Advance(m, t))
<1> DEFINE r == Advance(m, t)
<1>1. Leaves(m, r, t, {})
  BY AdvanceIs DEF AllGood, Good
<1> HIDE DEF r
<1>2. AllGood(r) /\ Moves(m, r)
  BY <1>1, OneMoves
<1>3. Untouched(s, r) /\ s.seq <= r.seq
  BY <1>2 DEF Moves, Quiet, Untouched
<1> QED
  BY <1>2, <1>3 DEF Lands, r

Pushed(s, t, i) == [s.queue[t] EXCEPT !.born = IF s.queue[t] = NoQueue THEN i ELSE @,
                                      !.waiting = Append(@, Intent(i))]

LEMMA PushJoins ==
  ASSUME NEW s, NEW i \in Inputs, Loose(s, i), NEW t \in Targets, t = Input[i].target
  PROVE  LET q == s.queue[t]
             w == Pushed(s, t, i)
         IN  /\ Push(s, t, i) = Advance([s EXCEPT !.queue[t] = w], t)
             /\ w \in Queues /\ w.born \in Inputs /\ s.promise[w.born] # "new" /\ Joins(q, w, i)
             /\ w.born = (IF q = NoQueue THEN i ELSE q.born) /\ w.active = q.active /\ w.ack = q.ack
             /\ Len(q.waiting) \in Nat /\ Len(w.waiting) = Len(q.waiting) + 1
             /\ w.waiting[Len(q.waiting) + 1] = Intent(i)
             /\ \A n \in 1 .. Len(q.waiting) : w.waiting[n] = q.waiting[n]
<1> DEFINE q == s.queue[t]
           b == IF q = NoQueue THEN i ELSE q.born
           v == Append(q.waiting, Intent(i))
           w == [q EXCEPT !.born = b, !.waiting = v]
           m == [s EXCEPT !.queue[t] = w]
<1>1. s \in Decks /\ q \in Queues /\ q.waiting \in Seq(Intents) /\ Len(q.waiting) \in Nat
  BY DeckFields, QueueFields DEF Loose, Sound
<1>2. Push(s, t, i) = Advance(m, t)
  <2>1. [s EXCEPT !.queue[t].born = IF s.queue[t] = NoQueue THEN i ELSE @,
                  !.queue[t].waiting = Append(@, Intent(i))] = m
    BY <1>1, ZenonT(60) DEF Decks, Queues
  <2> QED
    BY <2>1 DEF Push
<1>3. b \in Inputs /\ s.promise[b] # "new"
  BY DEF Loose, Tidy
<1>4. /\ v \in Seq(Intents) /\ Len(v) = Len(q.waiting) + 1
      /\ v[Len(q.waiting) + 1] = Intent(i) /\ \A n \in 1 .. Len(q.waiting) : v[n] = q.waiting[n]
  <2>1. Intent(i) \in Intents
    BY IntentIs
  <2> HIDE DEF q
  <2> QED
    BY <1>1, <2>1, AppendProperties
<1>5. w = Pushed(s, t, i)
  BY <1>1 DEF Pushed, Queues
<1> HIDE DEF v, b
<1>6. w \in Queues /\ w.born = b /\ w.waiting = v /\ w.active = q.active /\ w.ack = q.ack
  BY <1>1, <1>3, <1>4 DEF Queues
<1> HIDE DEF w
<1>7. Joins(q, w, i)
  <2> DEFINE k == Len(q.waiting) + 1
  <2>1. /\ Places(q) = 0 .. Len(q.waiting) /\ Places(w) = 0 .. k /\ k \in Places(w) /\ k \notin Places(q)
        /\ Len(w.waiting) = k /\ k # 0
    <3>1. Len(w.waiting) = k
      BY <1>4, <1>6
    <3> HIDE DEF q
    <3> QED
      BY <1>1, <3>1 DEF Places
  <2>2. Place(w, k) = {i}
    <3>1. w.waiting[k] = Intent(i) /\ k # 0
      <4> HIDE DEF q
      <4> QED
        BY <1>1, <1>4, <1>6
    <3> HIDE DEF k
    <3> QED
      BY <3>1, IntentIs DEF Place
  <2>3. ASSUME NEW n \in Places(w), n # k
        PROVE  n \in Places(q) /\ Place(w, n) = Place(q, n)
    <3>1. n = 0 \/ n \in 1 .. Len(q.waiting)
      BY <1>1, <2>1, <2>3
    <3> QED
      BY <1>1, <1>4, <1>6, <2>1, <3>1, SMTT(30) DEF Place
  <2>4. Places(q) \subseteq Places(w)
    BY <1>1, <2>1
  <2> HIDE DEF k
  <2> QED
    BY <2>1, <2>2, <2>3, <2>4 DEF Joins
<1> HIDE DEF m, q
<1> QED
  BY <1>1, <1>2, <1>3, <1>4, <1>5, <1>6, <1>7 DEF m, q, b

LEMMA PushIs ==
  ASSUME NEW s, NEW i \in Inputs, Loose(s, i), NEW t \in Targets, t = Input[i].target
  PROVE  Lands(s, Push(s, t, i))
<1> DEFINE w == Pushed(s, t, i)  m == [s EXCEPT !.queue[t] = w]
<1>1. /\ Push(s, t, i) = Advance(m, t) /\ w \in Queues /\ w.born \in Inputs
      /\ s.promise[w.born] # "new" /\ Joins(s.queue[t], w, i)
  BY PushJoins
<1> HIDE DEF w
<1>2. AllGood(m) /\ Quiet(s, m) /\ s \in Decks
  BY <1>1, JoinIs DEF Loose, Sound
<1> HIDE DEF m
<1> QED
  BY <1>1, <1>2, JoinAdvances

(* One work behind another, seen from where the first began.               *)
LEMMA LandsLater ==
  ASSUME NEW s, NEW m, NEW r, s \in Decks, m \in Decks, r \in Decks,
         Untouched(s, m), s.seq <= m.seq, Lands(m, r)
  PROVE  Lands(s, r)
BY DeckFields DEF Lands, Untouched

LEMMA LandedIs ==
  ASSUME NEW s, NEW r, Lands(s, r)
  PROVE  r \in Decks
BY GoodIsTidy DEF Lands

(* The queue without its n-th waiting intent, whose inputs are refused.     *)
Removed(q, n) == [q EXCEPT !.waiting = RemoveAt(@, n)]
Refused(s, t, v, gone) == Settle([s EXCEPT !.queue[t] = v], gone, "INPUT_BUSY")

(* What a key becomes: it is pushed or refused, or one that waits is.      *)
LEMMA PressedKey ==
  ASSUME NEW s, NEW i \in Inputs, Loose(s, i)
  PROVE  LET t == Input[i].target
             q == s.queue[t]
         IN  \/ PressKey(s, i) \in {Push(s, t, i), Settle(s, {i}, "INPUT_BUSY")}
             \/ \E n \in 1 .. Len(q.waiting) :
                   PressKey(s, i) = Push(Refused(s, t, Removed(q, n), q.waiting[n].parts), t, i)
<1> DEFINE t == Input[i].target
           q == s.queue[t]
           keys == DOMAIN q.waiting \ Turns(q.waiting)
           first == CHOOSE n \in keys : \A k \in keys : n <= k
           d == Displace(s, t, first)
<1>1. t \in Targets /\ "INPUT_BUSY" \in Codes
  BY WireFacts DEF Codes
<1>2. s \in Decks /\ q \in Queues /\ q.waiting \in Seq(Intents) /\ Len(q.waiting) \in Nat
      /\ DOMAIN q.waiting = 1 .. Len(q.waiting)
  BY <1>1, DeckFields, QueueFields, LenProperties DEF Loose, Sound
<1>3. CASE Cardinality(keys) < MaxKeys \/ ~ Computed(Input[i].kind)
  BY <1>3 DEF PressKey
<1>4. CASE ~ (Cardinality(keys) < MaxKeys) /\ Computed(Input[i].kind)
  <2>1. PressKey(s, i) = Push(d, t, i)
    BY <1>4 DEF PressKey
  <2>2. keys # {}
    <3>1. Cardinality({}) = 0 /\ MaxKeys \in Nat \ {0}
      BY FS_EmptySet, QueueAssumption
    <3> QED
      BY <1>4, <3>1
  <2>3. keys \subseteq Nat
    BY <1>2
  <2> HIDE DEF keys
  <2>4. \E n \in keys : \A k \in keys : n <= k
    BY <2>2, <2>3, LeastElement
  <2>5. first \in keys
    BY <2>4
  <2> HIDE DEF first
  <2>6. first \in 1 .. Len(q.waiting)
    BY <1>2, <2>5 DEF keys
  <2>7. d = Refused(s, t, Removed(q, first), q.waiting[first].parts)
    <3>1. [s EXCEPT !.queue[t].waiting = RemoveAt(@, first)] = [s EXCEPT !.queue[t] = Removed(q, first)]
      BY <1>1, <1>2, SMTT(30) DEF Decks, Removed
    <3> QED
      BY <3>1 DEF Displace, Refused
  <2> HIDE DEF d
  <2> QED
    BY <2>1, <2>6, <2>7
<1> QED
  BY <1>3, <1>4

LEMMA PressKeyIs ==
  ASSUME NEW s, NEW i \in Inputs, Loose(s, i)
  PROVE  Lands(s, PressKey(s, i))
<1> DEFINE t == Input[i].target  q == s.queue[t]
<1>1. t \in Targets /\ "INPUT_BUSY" \in Codes
  BY WireFacts DEF Codes
<1>2. CASE PressKey(s, i) = Push(s, t, i)
  BY <1>1, <1>2, PushIs
<1>3. CASE PressKey(s, i) = Settle(s, {i}, "INPUT_BUSY")
  BY <1>1, <1>3, LooseIsSettled
<1>4. ASSUME NEW n \in 1 .. Len(q.waiting),
             PressKey(s, i) = Push(Refused(s, t, Removed(q, n), q.waiting[n].parts), t, i)
      PROVE  Lands(s, PressKey(s, i))
  <2> DEFINE w == Removed(q, n)  d == Refused(s, t, w, q.waiting[n].parts)
  <2>1. Good(s, t, {i}) /\ s \in Decks
    BY <1>1 DEF Loose, Good, Sound
  <2>2. w \in Queues /\ w.born = q.born /\ q # NoQueue /\ Drops(q, w, q.waiting[n].parts)
    BY <1>1, <2>1, RemovalDrops DEF Removed
  <2> HIDE DEF w
  <2>3. Leaves(s, d, t, {i})
    BY <1>1, <2>1, <2>2, DropIs, Zenon DEF Refused
  <2> HIDE DEF d
  <2>4. Loose(d, i) /\ Untouched(s, d) /\ s.seq <= d.seq
    BY <1>1, <2>3, LooseLeaves
  <2>5. Lands(d, Push(d, t, i))
    BY <1>1, <2>4, PushIs
  <2>6. d \in Decks /\ Push(d, t, i) \in Decks
    BY <2>4, <2>5, LandedIs DEF Loose, Sound
  <2> QED
    BY <1>4, <2>1, <2>4, <2>5, <2>6, LandsLater DEF d, w
<1> QED
  BY <1>2, <1>3, <1>4, PressedKey

(* Nothing changed.                                                        *)
LEMMA SameIsLeft ==
  ASSUME NEW s, NEW t \in Targets, NEW L, Good(s, t, L), NEW r \in Decks, Quiet(s, r),
         r.queue = s.queue, \A i \in Inputs : r.promise[i] = s.promise[i]
  PROVE  Leaves(s, r, t, L)
<1>1. s \in Decks /\ s.seq \in Nat
  BY DeckFields DEF Good, Sound
<1>2. Works(s, r, t, L)
  BY <1>1 DEF Works, Quiet
<1>3. Sound(r)
  BY <1>2, WorkIsSound DEF Good, Quiet
<1>4. Tidy(r, t, L, {})
  <2>1. s.queue[t] \in Queues /\ \A n \in Places(s.queue[t]) : Place(s.queue[t], n) \in SUBSET Inputs
    BY <1>1, DeckFields, QueueFields
  <2>2. \A j \in Inputs : Mine(r, t, j) <=> Mine(s, t, j)
    BY DEF Mine
  <2> QED
    BY <2>1, <2>2 DEF Tidy, Good
<1> QED
  BY <1>2, <1>3, <1>4 DEF Leaves, Good

(* The turns are refused, the keys stay.                                   *)
KeysOf(q) == [q EXCEPT !.waiting = Those(q.waiting, DOMAIN q.waiting \ Turns(q.waiting))]
Turned(q) == UNION {q.waiting[n].parts : n \in Turns(q.waiting)}

LEMMA KeysDrop ==
  ASSUME NEW s, NEW t \in Targets, NEW L, Good(s, t, L), s.queue[t] # NoQueue
  PROVE  LET q == s.queue[t]
         IN  /\ KeysOf(q) \in Queues /\ KeysOf(q).born = q.born
             /\ Drops(q, KeysOf(q), Turned(q))
<1> DEFINE q == s.queue[t]
           turns == Turns(q.waiting)
           hit == DOMAIN q.waiting \ turns
           v == Those(q.waiting, hit)
           w == [q EXCEPT !.waiting = v]
           gone == UNION {q.waiting[n].parts : n \in turns}
<1>1. s \in Decks /\ q \in Queues /\ q.waiting \in Seq(Intents) /\ Len(q.waiting) \in Nat
      /\ DOMAIN q.waiting = 1 .. Len(q.waiting)
  BY DeckFields, QueueFields, LenProperties DEF Good, Sound
<1>2. turns \subseteq 1 .. Len(q.waiting) /\ hit = (1 .. Len(q.waiting)) \ turns
  BY <1>1 DEF Turns
<1> HIDE DEF turns, hit
<1>3. v \in Seq(Intents) /\ Selects(v, q.waiting, Len(q.waiting), hit)
  BY <1>1, ThoseAre
<1> HIDE DEF v
<1>4. PICK from \in [1 .. Len(v) -> (1 .. Len(q.waiting)) \cap hit] :
        /\ \A k \in 1 .. Len(v) : v[k] = q.waiting[from[k]]
        /\ \A k, l \in 1 .. Len(v) : k < l => from[k] < from[l]
        /\ \A m \in (1 .. Len(q.waiting)) \cap hit : \E k \in 1 .. Len(v) : from[k] = m
  BY <1>3 DEF Selects
<1>5. w \in Queues /\ w.born = q.born /\ w.waiting = v /\ w.active = q.active
  BY <1>1, <1>3 DEF Queues
<1>6. \A k, m \in Places(q) : k # m => Place(q, k) \cap Place(q, m) = {}
  BY DEF Good, Tidy
<1>7. Len(v) \in Nat /\ Places(w) = 0 .. Len(v) /\ Places(q) = 0 .. Len(q.waiting)
  BY <1>3, <1>5, LenProperties DEF Places
<1>8. \A n \in 1 .. Len(q.waiting) : n \in Places(q) /\ n # 0 /\ Place(q, n) = q.waiting[n].parts
  BY <1>1, <1>7 DEF Place
<1> HIDE DEF q, w
<1> DEFINE back == [n \in Places(w) |-> IF n = 0 THEN 0 ELSE from[n]]
<1>9. back \in [Places(w) -> Places(q)]
  BY <1>1, <1>4, <1>7
<1>10. ASSUME NEW n \in Places(w)
       PROVE  Place(w, n) = Place(q, back[n]) /\ back[n] \notin turns
  <2>1. CASE n = 0
    <3>1. 0 \notin turns
      BY <1>2
    <3> QED
      BY <1>5, <2>1, <3>1 DEF Place
  <2>2. CASE n # 0
    <3>1. n \in 1 .. Len(v) /\ from[n] \in 1 .. Len(q.waiting) /\ from[n] # 0 /\ from[n] \in hit
      BY <1>1, <1>4, <1>7, <2>2
    <3> QED
      BY <1>2, <1>4, <1>5, <2>2, <3>1 DEF Place
  <2> QED
    BY <2>1, <2>2
<1>11. \A n, m \in Places(w) : n < m => back[n] < back[m]
  <2>1. \A n \in 1 .. Len(v) : from[n] # 0
    BY <1>1, <1>4
  <2> QED
    BY <1>4, <1>7, <2>1
<1>12. ASSUME NEW m \in Places(q), NEW i \in Place(q, m)
       PROVE  i \in gone \/ \E n \in Places(w) : i \in Place(w, n)
  <2>1. CASE m = 0
    <3>1. 0 \in Places(w) /\ back[0] = 0
      BY <1>7
    <3> QED
      BY <1>10, <1>12, <2>1, <3>1
  <2>2. CASE m \in turns
    <3>1. i \in q.waiting[m].parts
      BY <1>2, <1>8, <1>12, <2>2
    <3> QED
      BY <2>2, <3>1
  <2>3. CASE m # 0 /\ m \notin turns
    <3>1. m \in (1 .. Len(q.waiting)) \cap hit
      BY <1>1, <1>2, <1>7, <2>3
    <3>2. PICK k \in 1 .. Len(v) : from[k] = m
      BY <1>4, <3>1
    <3>3. k \in Places(w) /\ back[k] = m
      BY <1>7, <3>2
    <3> QED
      BY <1>10, <1>12, <3>3
  <2> QED
    BY <2>1, <2>2, <2>3
<1>13. \A n \in Places(w) : Place(w, n) \cap gone = {}
  <2> SUFFICES ASSUME NEW n \in Places(w), NEW k \in turns
               PROVE  Place(w, n) \cap q.waiting[k].parts = {}
    OBVIOUS
  <2>1. back[n] \in Places(q) /\ back[n] # k /\ Place(w, n) = Place(q, back[n])
    BY <1>9, <1>10
  <2>2. k \in Places(q) /\ Place(q, k) = q.waiting[k].parts
    BY <1>2, <1>8
  <2> QED
    BY <1>6, <2>1, <2>2
<1>14. \A i \in gone : \E k \in Places(q) : i \in Place(q, k)
  <2> SUFFICES ASSUME NEW k \in turns, NEW i \in q.waiting[k].parts
               PROVE  \E n \in Places(q) : i \in Place(q, n)
    OBVIOUS
  <2> QED
    BY <1>2, <1>8
<1> HIDE DEF back, gone
<1>15. Drops(q, w, gone)
  BY <1>9, <1>10, <1>11, <1>12, <1>13, <1>14 DEF Drops
<1> QED
  BY <1>5, <1>15 DEF q, w, v, hit, turns, gone, KeysOf, Turned

LEMMA NoKeys ==
  KeysOf(NoQueue) = NoQueue /\ Turned(NoQueue) = {}
<1> DEFINE waiting == NoQueue.waiting
           hit == DOMAIN waiting \ Turns(waiting)
           keys == Those(waiting, hit)
<1>1. waiting = << >> /\ DOMAIN << >> = {}
  BY EmptyQueue
<1>2. Turns(waiting) = {}
  BY <1>1 DEF Turns
<1>3. keys = << >>
  <2>1. waiting \in Seq(Intents) /\ Len(waiting) = 0
    BY <1>1, EmptySeq
  <2>2. keys \in Seq(Intents) /\ Selects(keys, waiting, 0, hit)
    BY <2>1, ThoseAre, SMTT(30)
  <2>3. PICK from \in [1 .. Len(keys) -> (1 .. 0) \cap hit] : TRUE
    BY <2>2, Zenon DEF Selects
  <2>4. Len(keys) = 0
    <3>1. Len(keys) \in Nat
      BY <2>2, LenProperties
    <3> HIDE DEF keys, hit
    <3>2. ~ (1 \in 1 .. Len(keys))
      BY <2>3
    <3> QED
      BY <3>1, <3>2
  <2> QED
    BY <2>2, <2>4, EmptySeq
<1>4. KeysOf(NoQueue) = [NoQueue EXCEPT !.waiting = keys]
  BY DEF KeysOf
<1>5. Turned(NoQueue) = UNION {waiting[n].parts : n \in Turns(waiting)}
  BY DEF Turned
<1>6. Turned(NoQueue) = {}
  BY <1>2, <1>5, SMTT(30)
<1> HIDE DEF keys
<1> QED
  BY <1>1, <1>3, <1>4, <1>6 DEF NoQueue

LEMMA RefusedTurns ==
  ASSUME NEW s, NEW i \in Inputs, Loose(s, i)
  PROVE  LET t == Input[i].target
             q == s.queue[t]
         IN  RefuseTurns(s, i) =
               Settle(Advance(Refused(s, t, KeysOf(q), Turned(q)), t), {i}, "INPUT_BUSY")
<1> DEFINE t == Input[i].target
           q == s.queue[t]
           keys == Those(q.waiting, DOMAIN q.waiting \ Turns(q.waiting))
<1>1. t \in Targets /\ s \in Decks /\ q \in Queues
  BY WireFacts, DeckFields DEF Loose, Sound
<1>2. [s EXCEPT !.queue[t].waiting = keys] = [s EXCEPT !.queue[t] = KeysOf(q)]
  BY <1>1 DEF Decks, KeysOf
<1>3. Waiting(s, i) = Turned(q)
  BY DEF Waiting, Turned
<1> QED
  BY <1>2, <1>3 DEF RefuseTurns, Refused

LEMMA NoneRefused ==
  ASSUME NEW s \in Decks, NEW t \in Targets, s.queue[t] = NoQueue
  PROVE  Refused(s, t, KeysOf(s.queue[t]), Turned(s.queue[t])) = Settle(s, {}, "INPUT_BUSY")
<1>1. [s EXCEPT !.queue[t] = NoQueue] = s
  <2>1. s.queue = [s.queue EXCEPT ![t] = NoQueue]
    BY DeckFields
  <2> QED
    BY <2>1 DEF Decks
<1> QED
  BY <1>1, NoKeys DEF Refused

LEMMA RefuseTurnsIs ==
  ASSUME NEW s, NEW i \in Inputs, Loose(s, i)
  PROVE  Lands(s, RefuseTurns(s, i))
<1> DEFINE t == Input[i].target
           q == s.queue[t]
           m == Refused(s, t, KeysOf(q), Turned(q))
           a == Advance(m, t)
           r == Settle(a, {i}, "INPUT_BUSY")
<1>1. t \in Targets /\ "INPUT_BUSY" \in Codes
  BY WireFacts DEF Codes
<1>2. s \in Decks /\ q \in Queues /\ Good(s, t, {i})
  BY <1>1, DeckFields DEF Loose, Sound, Good
<1>3. RefuseTurns(s, i) = r
  BY RefusedTurns
<1>4. Leaves(s, m, t, {i})
  <2>1. CASE q # NoQueue
    <3>1. /\ KeysOf(q) \in Queues /\ KeysOf(q).born = q.born
          /\ Drops(q, KeysOf(q), Turned(q))
      BY <1>1, <1>2, <2>1, KeysDrop
    <3> QED
      BY <1>1, <1>2, <2>1, <3>1, DropIs, Zenon DEF Refused
  <2>2. CASE q = NoQueue
    <3>1. m = Settle(s, {}, "INPUT_BUSY")
      BY <1>1, <1>2, <2>2, NoneRefused
    <3> HIDE DEF m
    <3>2. /\ m \in Decks /\ Quiet(s, m) /\ m.queue = s.queue
          /\ \A j \in Inputs : m.promise[j] = s.promise[j]
      BY <1>1, <1>2, <3>1, SettleIs
    <3> QED
      BY <1>1, <1>2, <3>2, SameIsLeft
  <2> QED
    BY <2>1, <2>2
<1> HIDE DEF m
<1>5. Leaves(m, a, t, {i})
  BY <1>1, <1>4, AdvanceIs DEF Leaves
<1> HIDE DEF a
<1>6. Leaves(s, a, t, {i})
  BY <1>1, <1>2, <1>4, <1>5, MoreWork
<1>7. Loose(a, i) /\ Untouched(s, a) /\ s.seq <= a.seq /\ a \in Decks
  <2>1. Loose(a, i) /\ Untouched(s, a) /\ s.seq <= a.seq
    BY <1>1, <1>6, LooseLeaves
  <2> QED
    BY <2>1 DEF Loose, Sound
<1>8. Lands(a, r) /\ r \in Decks
  BY <1>1, <1>7, LooseIsSettled, LandedIs
<1> HIDE DEF r
<1> QED
  BY <1>2, <1>3, <1>7, <1>8, LandsLater

(* A turn soon after the last one goes with it.                            *)
Turning(q) == LET last == Len(q.waiting)
              IN last > 0 /\ Turn(q.waiting[last]) /\ ~ q.waiting[last].ripe
With(q, i) == [q EXCEPT !.waiting[Len(q.waiting)].parts = @ \cup {i}]

LEMMA TurnJoins ==
  ASSUME NEW s, NEW i \in Inputs, Loose(s, i), NEW t \in Targets, t = Input[i].target,
         Turning(s.queue[t])
  PROVE  LET q == s.queue[t]
             w == With(q, i)
         IN  /\ TurnDial(s, i) = Advance([s EXCEPT !.queue[t] = w], t)
             /\ q # NoQueue /\ w \in Queues /\ w.born \in Inputs /\ s.promise[w.born] # "new"
             /\ Joins(q, w, i)
             /\ w.born = q.born /\ w.active = q.active /\ w.ack = q.ack
             /\ Len(w.waiting) = Len(q.waiting)
             /\ \A n \in 1 .. Len(q.waiting) : w.waiting[n].kind = q.waiting[n].kind
<1> DEFINE q == s.queue[t]
           last == Len(q.waiting)
           x == [q.waiting[last] EXCEPT !.parts = @ \cup {i}]
           v == [q.waiting EXCEPT ![last] = x]
           w == [q EXCEPT !.waiting = v]
           m == [s EXCEPT !.queue[t] = w]
<1>1. s \in Decks /\ q \in Queues /\ q.waiting \in Seq(Intents) /\ last \in Nat
  BY DeckFields, QueueFields DEF Loose, Sound
<1>2. TurnDial(s, i) = Advance(m, t)
  <2>1. [s EXCEPT !.queue[t].waiting[last].parts = @ \cup {i}] = m
    BY <1>1 DEF Decks, Queues
  <2> QED
    BY <2>1, Zenon DEF TurnDial, Turning
<1>3. last \in 1 .. Len(q.waiting) /\ last # 0
  BY <1>1, SMTT(30) DEF Turning
<1>4. x \in Intents /\ x.parts = q.waiting[last].parts \cup {i} /\ x.kind = q.waiting[last].kind
  <2>1. q.waiting[last] \in Intents
    BY <1>1, <1>3, ElementOfSeq
  <2> DEFINE y == q.waiting[last]  P == y.parts \cup {i}
  <2>2. y \in Intents /\ P \in SUBSET Inputs /\ x = [y EXCEPT !.parts = P]
    BY <2>1 DEF Intents
  <2> HIDE DEF y, x
  <2> QED
    BY <2>2, Zenon DEF Intents, y
<1>5. w = With(q, i)
  BY <1>1, <1>3 DEF With, Queues
<1> HIDE DEF x
<1>6. /\ v \in Seq(Intents) /\ Len(v) = Len(q.waiting)
      /\ \A k \in 1 .. Len(q.waiting) : v[k] = IF k = last THEN x ELSE q.waiting[k]
  <2> HIDE DEF last, q
  <2> QED
    BY <1>1, <1>3, <1>4, ExceptSeq
<1> HIDE DEF v
<1>7. w \in Queues /\ w.born = q.born /\ w.waiting = v /\ w.active = q.active /\ w.ack = q.ack
  BY <1>1, <1>6 DEF Queues
<1> HIDE DEF w
<1>8. q # NoQueue
  BY <1>3, EmptyQueue, EmptySeq, SMTT(30)
<1>9. w.born \in Inputs /\ s.promise[w.born] # "new"
  BY <1>7, <1>8 DEF Loose, Tidy
<1>10. Joins(q, w, i)
  <2>1. Places(w) = 0 .. last /\ Places(q) = 0 .. last /\ last \in Places(w) /\ Len(w.waiting) = last
    BY <1>1, <1>6, <1>7 DEF Places
  <2>2. Place(w, last) = Place(q, last) \cup {i}
    BY <1>3, <1>4, <1>6, <1>7 DEF Place
  <2>3. ASSUME NEW n \in Places(w), n # last
        PROVE  Place(w, n) = Place(q, n)
    <3>1. n = 0 \/ n \in 1 .. Len(q.waiting)
      BY <1>1, <2>1
    <3> QED
      BY <1>6, <1>7, <2>3, <3>1 DEF Place
  <2> HIDE DEF last, q
  <2> QED
    BY <1>3, <2>1, <2>2, <2>3 DEF Joins
<1>11. Len(w.waiting) = Len(q.waiting) /\ \A n \in 1 .. Len(q.waiting) : w.waiting[n].kind = q.waiting[n].kind
  BY <1>4, <1>6, <1>7
<1> HIDE DEF m, q
<1> QED
  BY <1>2, <1>5, <1>7, <1>8, <1>9, <1>10, <1>11 DEF m, q

LEMMA TurnPushes ==
  ASSUME NEW s, NEW i, ~ Turning(s.queue[Input[i].target])
  PROVE  TurnDial(s, i) = Push(s, Input[i].target, i)
BY Zenon DEF TurnDial, Turning

LEMMA TurnDialIs ==
  ASSUME NEW s, NEW i \in Inputs, Loose(s, i)
  PROVE  Lands(s, TurnDial(s, i))
<1> DEFINE t == Input[i].target
           q == s.queue[t]
           m == [s EXCEPT !.queue[t] = With(q, i)]
<1>1. t \in Targets /\ s \in Decks
  BY WireFacts DEF Loose, Sound
<1>2. CASE ~ Turning(q)
  <2>1. TurnDial(s, i) = Push(s, t, i)
    BY <1>2, TurnPushes
  <2> QED
    BY <1>1, <2>1, PushIs
<1>3. CASE Turning(q)
  <2>1. /\ TurnDial(s, i) = Advance(m, t) /\ With(q, i) \in Queues /\ With(q, i).born \in Inputs
        /\ s.promise[With(q, i).born] # "new" /\ Joins(q, With(q, i), i)
    BY <1>1, <1>3, TurnJoins
  <2>2. AllGood(m) /\ Quiet(s, m)
    BY <1>1, <2>1, JoinIs
  <2> HIDE DEF m
  <2> QED
    BY <1>1, <2>1, <2>2, JoinAdvances
<1> QED
  BY <1>2, <1>3

(* A press is answered at once, or put in its queue.                       *)
LEMMA PressIs ==
  ASSUME NEW s, Fine(s), s.answers = {}, NEW i \in Inputs, s.promise[i] = "new",
         NEW r,
         LET m == [s EXCEPT !.promise[i] = "open"]
         IN  r \in {Settle(m, {i}, "DISCONNECTED"), PressKey(m, i), RefuseTurns(m, i), TurnDial(m, i)}
  PROVE  Fine(r) /\ Same(s, r)
<1> DEFINE m == [s EXCEPT !.promise[i] = "open"]
<1>1. Loose(m, i) /\ Untouched(s, m) /\ m.seq = s.seq
  BY MadeIsLoose
<1>2. r \in {Settle(m, {i}, "DISCONNECTED"), PressKey(m, i), RefuseTurns(m, i), TurnDial(m, i)}
  OBVIOUS
<1> HIDE DEF m
<1>3. "DISCONNECTED" \in Codes
  BY DEF Codes
<1>4. Lands(m, r)
  BY <1>1, <1>2, <1>3, LooseIsSettled, PressKeyIs, RefuseTurnsIs, TurnDialIs
<1>5. r \in Decks /\ r.seq \in Nat /\ s.seq \in Nat /\ s.resync \in 0 .. s.seq /\ s.ping \in 0 .. s.seq
  BY <1>4, LandedIs, FineIs, DeckFields
<1> QED
  BY <1>1, <1>4, <1>5 DEF Lands, Fine, Same, Untouched

-----------------------------------------------------------------------------
(* The journey of an input. *)

(* A message to the server; all but the hello carry a number.              *)
LEMMA UpMessageIs ==
  ASSUME NEW m \in UpMessages
  PROVE  /\ m.type \in {"hello", "ping", "command"}
         /\ m.type # "hello" => m.id \in Nat
         /\ m.type = "command" => m.op = "requestState" \/ m \in EditCommands
BY DEF UpMessages, Hello, EditCommands

(* w is what a callback of the plugin cannot change: sent, the numbered    *)
(* messages LiveMix has not worked off, with their connections; heard, what*)
(* comes back of them on this connection; conn and seq, the connection and *)
(* the number the callback began with; applied, pressed and made, the      *)
(* inputs that were; inst and alive, the running LiveMix and the           *)
(* connections it reads; loose, the input that is being made.  An input is *)
(* aboard the message that carries it.                                     *)
Worldly(w) ==
  /\ w.sent \subseteq Conns \X {m \in UpMessages : m.type # "hello"}
  /\ w.heard \subseteq AckMessages \cup Errors
  /\ w.conn \in Nat /\ w.seq \in Nat
  /\ \A i \in Inputs : w.applied[i] \in Seq(Acks) /\ w.pressed[i].n \in Nat
Parts(m) == IF m.type = "command" /\ m.op # "requestState" THEN m.parts ELSE {}
Flying(s, w) == w.sent \cup {<<w.conn, s.out[n]>> : n \in 1 .. Len(s.out)}
Aboard(F, i) == \E x \in F : i \in Parts(x[2])
Unsent(F, w, i) == w.applied[i] = << >> /\ ~ Aboard(F, i)
Arrived(w, i) == Len(w.applied[i]) = 1

(* A promise, or what is about to settle it, tells the truth.              *)
Truly(F, w, i, code) == /\ code \in NotApplied => Unsent(F, w, i)
                        /\ code \in {"done", "STATE_TIMEOUT", "ack"} => Arrived(w, i)

(* No input made after i has left before it, but with it.                  *)
Precedes(w, i, j) == /\ Input[i].target = Input[j].target
                     /\ w.pressed[i].conn = w.pressed[j].conn
                     /\ w.pressed[i].n < w.pressed[j].n
Level(F, w, i) ==
  \A j \in Inputs : Precedes(w, i, j) =>
     Unsent(F, w, j) \/ w.applied[i] # << >> \/ \E x \in F : {i, j} \subseteq Parts(x[2])

(* What is on its way: every input once, under numbers of their own, from  *)
(* where it was made, in the order it was made.                            *)
Alone(F, w) == /\ \A i \in Inputs : Len(w.applied[i]) <= 1 /\ (Aboard(F, i) => w.applied[i] = << >>)
               /\ \A x, y \in F : x # y => Parts(x[2]) \cap Parts(y[2]) = {}
               /\ \A x, y \in F : x[1] = y[1] /\ x[2].id = y[2].id => x = y
Stamped(F, w) == \A x \in F : \A i \in Parts(x[2]) :
  /\ i \in Inputs /\ w.pressed[i].conn = x[1] /\ w.pressed[i].session = x[2].session
  /\ x[1] \in w.alive => w.pressed[i].inst = w.inst
Ranked(F, w) == \A i, j \in Inputs : Precedes(w, i, j) =>
  /\ Aboard(F, i) => w.applied[j] = << >>
  /\ \A x, y \in F : i \in Parts(x[2]) /\ j \in Parts(y[2]) => x[2].id <= y[2].id
Counted(s, w) ==
  /\ w.seq <= s.seq
  /\ \A x \in w.sent : x[1] = w.conn => x[2].id <= w.seq
  /\ \A d \in w.heard : d.id <= w.seq
  /\ \A n \in 1 .. Len(s.out) : /\ s.out[n].type # "hello" /\ s.out[n].id \in w.seq + 1 .. s.seq
                                /\ \A k \in 1 .. n - 1 : s.out[k].id < s.out[n].id
  /\ \A p, r \in s.pend : p.id = r.id => p = r
Loads(s, w) == LET F == Flying(s, w)
               IN  /\ Alone(F, w) /\ Stamped(F, w) /\ Ranked(F, w) /\ Counted(s, w)
                   /\ \A i \in w.loose : Unsent(F, w, i)

Honest(s, w) == \A i \in Inputs : /\ Truly(Flying(s, w), w, i, s.promise[i])
                                  /\ s.promise[i] # "new" <=> i \in w.made
(* What may become of a promise while no input is made.                    *)
Given(old, new) == old = "open" /\ new \notin {"open", "new"}

(* An open input was made of what the deck knows now.                      *)
Opened(s, w) ==
  /\ \A i \in Inputs : s.promise[i] = "open" =>
        /\ HasSnap(s) /\ w.pressed[i].inst = s.snap.inst /\ w.pressed[i].session = s.snap.session
        /\ w.pressed[i].conn = w.conn
  /\ s.synced => HasSnap(s)
  /\ w.conn \in w.alive /\ HasSnap(s) => s.snap.inst = w.inst

(* The requests and the answers a queue waits for: one at most, and as long*)
(* as there is one the active intent is out.                               *)
Asked(s, t) == {p \in Edits(s.pend) : p.target = t /\ p.born = s.queue[t].born}
Replied(s, t) == {a \in s.answers : a.target = t /\ a.born = s.queue[t].born}
CodeOf(d) == IF d.type = "ack" THEN "ack" ELSE d.code
Traced(s, w, t) ==
  LET q == s.queue[t]
      F == Flying(s, w)
  IN /\ \A p, r \in Asked(s, t) : p = r
     /\ \A a, b \in Replied(s, t) : a = b
     /\ Asked(s, t) = {} \/ Replied(s, t) = {}
     /\ Asked(s, t) # {} \/ Replied(s, t) # {} =>
           q.active.kind # "none" /\ ~ q.active.retrying /\ q.ack = NoAck
     /\ \A a \in Replied(s, t) : \A i \in q.active.parts : Truly(F, w, i, a.code)
     /\ \A p \in Asked(s, t) :
           /\ \A x \in F : x[1] = w.conn /\ x[2].id = p.id => q.active.parts \subseteq Parts(x[2])
           /\ \A d \in w.heard : d.id = p.id => \A i \in q.active.parts : Truly(F, w, i, CodeOf(d))

(* What waits was not sent, in the order it was made, nor is what is sent  *)
(* again; what is acknowledged was applied.                                *)
Lined(q, w) == \A a, b \in Places(q) : a < b =>
  \A i \in Place(q, a), j \in Place(q, b) : w.pressed[i].n < w.pressed[j].n
Waits(q, F, w, t) ==
  /\ \A n \in 1 .. Len(q.waiting) : /\ q.waiting[n].kind # "none"
                                    /\ \A i \in q.waiting[n].parts : Unsent(F, w, i)
  /\ \A n \in Places(q) : \A i \in Place(q, n) : Input[i].target = t /\ Level(F, w, i)
  /\ Lined(q, w)
Known(q, F, w) ==
  /\ q.active.retrying => q.active.kind # "none" /\ \A i \in q.active.parts : Unsent(F, w, i)
  /\ q.ack # NoAck => q.active.kind # "none" /\ \A i \in q.active.parts : Arrived(w, i)
Trip(s, w, t) ==
  LET q == s.queue[t]
      F == Flying(s, w)
  IN Waits(q, F, w, t) /\ Known(q, F, w) /\ (q # NoQueue => Traced(s, w, t))

Journey(s, w) == /\ Loads(s, w) /\ Honest(s, w) /\ Opened(s, w)
                 /\ \A t \in Targets : Trip(s, w, t)
-----------------------------------------------------------------------------
(* What the callbacks leave of it. *)

(* A queue with some of its places, in their order.                        *)
Thins(old, new) ==
  \E from \in [Places(new) -> Places(old)] :
     /\ \A n \in Places(new) : Place(new, n) \subseteq Place(old, from[n])
     /\ \A n, m \in Places(new) : n < m => from[n] < from[m]
Named(q) == \A n \in 1 .. Len(q.waiting) : q.waiting[n].kind # "none"

LEMMA ThinWaits ==
  ASSUME NEW q \in Queues, NEW v \in Queues, NEW F, NEW w, NEW t,
         Waits(q, F, w, t), Thins(q, v), Named(v)
  PROVE  Waits(v, F, w, t)
<1>1. PICK from \in [Places(v) -> Places(q)] :
         /\ \A n \in Places(v) : Place(v, n) \subseteq Place(q, from[n])
         /\ \A n, m \in Places(v) : n < m => from[n] < from[m]
  BY DEF Thins
<1>2. Len(q.waiting) \in Nat /\ Len(v.waiting) \in Nat
  BY QueueFields
<1>3. ASSUME NEW n \in 1 .. Len(v.waiting), NEW i \in v.waiting[n].parts
      PROVE  Unsent(F, w, i)
  <2>1. n \in Places(v) /\ 0 \in Places(v) /\ 0 < n /\ n # 0
    BY <1>2 DEF Places
  <2>2. from[n] \in Places(q) /\ from[0] \in Places(q) /\ from[0] < from[n]
    BY <1>1, <2>1
  <2>3. from[n] \in 1 .. Len(q.waiting) /\ from[n] # 0
    BY <1>2, <2>2 DEF Places
  <2>4. i \in Place(v, n)
    BY <2>1 DEF Place
  <2>5. i \in Place(q, from[n])
    BY <1>1, <2>1, <2>4
  <2>6. i \in q.waiting[from[n]].parts
    BY <2>3, <2>5 DEF Place
  <2> QED
    BY <2>3, <2>6 DEF Waits
<1>4. ASSUME NEW n \in Places(v), NEW i \in Place(v, n)
      PROVE  Input[i].target = t /\ Level(F, w, i)
  <2>1. from[n] \in Places(q) /\ i \in Place(q, from[n])
    BY <1>1
  <2> QED
    BY <2>1 DEF Waits
<1>5. Lined(v, w)
  <2> SUFFICES ASSUME NEW a \in Places(v), NEW b \in Places(v), a < b,
                      NEW i \in Place(v, a), NEW j \in Place(v, b)
               PROVE  w.pressed[i].n < w.pressed[j].n
    BY DEF Lined
  <2>1. from[a] \in Places(q) /\ from[b] \in Places(q) /\ from[a] < from[b]
        /\ i \in Place(q, from[a]) /\ j \in Place(q, from[b])
    BY <1>1
  <2> QED
    BY <2>1 DEF Waits, Lined
<1> QED
  BY <1>3, <1>4, <1>5 DEF Waits, Named

LEMMA EmptyTrip ==
  ASSUME NEW s, NEW w, NEW t, s.queue[t] = NoQueue
  PROVE  Trip(s, w, t)
<1>1. NoQueue.waiting = << >> /\ NoQueue.active = NoIntent /\ NoQueue.ack = NoAck
      /\ NoIntent.parts = {} /\ ~ NoIntent.retrying
  BY EmptyQueue DEF NoIntent
<1>2. 1 .. Len(NoQueue.waiting) = {} /\ Places(NoQueue) = {0} /\ Place(NoQueue, 0) = {}
  BY <1>1, EmptySeq DEF Places, Place
<1>3. Waits(NoQueue, Flying(s, w), w, t)
  BY <1>2 DEF Waits, Lined
<1>4. Known(NoQueue, Flying(s, w), w)
  BY <1>1 DEF Known
<1> QED
  BY <1>3, <1>4 DEF Trip

LEMMA SameFlight ==
  ASSUME NEW s, NEW r, NEW w, r.out = s.out
  PROVE  Flying(r, w) = Flying(s, w)
BY DEF Flying

(* Nothing is sent or asked: what settles tells the truth, and one queue   *)
(* stays in order.                                                         *)
LEMMA JourneyGoesOn ==
  ASSUME NEW s, NEW r, NEW w, Journey(s, w), Quiet(s, r), NEW t \in Targets,
         \A u \in Targets : u # t => r.queue[u] = s.queue[u],
         \A i \in Inputs : r.promise[i] # s.promise[i] =>
            Given(s.promise[i], r.promise[i]) /\ Truly(Flying(s, w), w, i, r.promise[i]),
         Trip(r, w, t)
  PROVE  Journey(r, w)
<1>1. Flying(r, w) = Flying(s, w)
  BY SameFlight DEF Quiet
<1>2. r.pend = s.pend /\ r.out = s.out /\ r.seq = s.seq /\ r.answers = s.answers /\ r.snap = s.snap
      /\ r.synced = s.synced
  BY DEF Quiet, Untouched
<1>3. Loads(r, w)
  BY <1>1, <1>2 DEF Loads, Counted, Journey
<1>4. Honest(r, w)
  BY <1>1 DEF Honest, Journey, Given
<1>5. Opened(r, w)
  <2>1. \A i \in Inputs : r.promise[i] = "open" => s.promise[i] = "open"
    BY DEF Given
  <2> QED
    BY <1>2, <2>1 DEF Opened, Journey, HasSnap
<1>6. ASSUME NEW u \in Targets, u # t
      PROVE  Trip(r, w, u)
  <2>1. r.queue[u] = s.queue[u] /\ Asked(r, u) = Asked(s, u) /\ Replied(r, u) = Replied(s, u)
    BY <1>2, <1>6 DEF Asked, Replied, Edits
  <2> QED
    BY <1>1, <2>1 DEF Journey, Trip, Traced
<1> QED
  BY <1>3, <1>4, <1>5, <1>6 DEF Journey

(* The queue of a request in other places: what it waits for is the same.  *)
LEMMA TraceStays ==
  ASSUME NEW s, NEW r, NEW w, NEW t, Quiet(s, r), Traced(s, w, t),
         r.queue[t].born = s.queue[t].born, r.queue[t].active.parts \subseteq s.queue[t].active.parts,
         r.queue[t].active.retrying = s.queue[t].active.retrying,
         r.queue[t].active.kind = s.queue[t].active.kind, r.queue[t].ack = s.queue[t].ack
  PROVE  Traced(r, w, t)
<1>1. Flying(r, w) = Flying(s, w)
  BY SameFlight DEF Quiet
<1>2. Asked(r, t) = Asked(s, t) /\ Replied(r, t) = Replied(s, t)
  BY DEF Quiet, Untouched, Asked, Replied, Edits
<1> QED
  BY <1>1, <1>2 DEF Traced

LEMMA TripStays ==
  ASSUME NEW s, NEW r, NEW w, NEW t, Quiet(s, r), Trip(s, w, t), s.queue[t] # NoQueue,
         s.queue[t] \in Queues, r.queue[t] \in Queues, Thins(s.queue[t], r.queue[t]), Named(r.queue[t]),
         r.queue[t].born = s.queue[t].born, r.queue[t].active.parts \subseteq s.queue[t].active.parts,
         r.queue[t].active.retrying = s.queue[t].active.retrying,
         r.queue[t].active.kind = s.queue[t].active.kind, r.queue[t].ack = s.queue[t].ack
  PROVE  Trip(r, w, t)
<1>1. Flying(r, w) = Flying(s, w)
  BY SameFlight DEF Quiet
<1>2. Waits(r.queue[t], Flying(s, w), w, t)
  BY ThinWaits DEF Trip
<1>3. Known(r.queue[t], Flying(s, w), w)
  BY DEF Trip, Known
<1>4. Traced(r, w, t)
  BY TraceStays DEF Trip
<1> QED
  BY <1>1, <1>2, <1>3, <1>4 DEF Trip

LEMMA NamedIs ==
  ASSUME NEW s, NEW w, NEW t, Trip(s, w, t)
  PROVE  Named(s.queue[t])
BY DEF Trip, Waits, Named

LEMMA TruthIs ==
  /\ \A F, w, i, code : code \notin NotApplied \cup {"done", "STATE_TIMEOUT", "ack"} => Truly(F, w, i, code)
  /\ \A code \in {"STALE_INPUT", "SESSION_CHANGED", "CONTROL_DISABLED", "open"} :
        code \notin NotApplied \cup {"done", "STATE_TIMEOUT", "ack"}
  /\ \A code \in NotApplied : code \notin {"done", "STATE_TIMEOUT", "ack", "open"}
BY DEF Truly, NotApplied

(* Who is told when a queue is given up.                                   *)
LEMMA FailPromises ==
  ASSUME NEW s \in Decks, NEW t \in Targets, NEW code \in Codes
  PROVE  \A i \in Inputs : LET r == FailTarget(s, t, code)
                           IN  r.promise[i] # s.promise[i] =>
                                 /\ Given(s.promise[i], r.promise[i])
                                 /\ \/ i \in s.queue[t].active.parts /\ r.promise[i] = code
                                    \/ r.promise[i] = "STALE_INPUT"
<1> DEFINE q == s.queue[t]
           m == Settle(s, q.active.parts, code)
           n == Settle(m, PartsOf(q.waiting), "STALE_INPUT")
           r == [n EXCEPT !.queue[t] = NoQueue]
<1>1. FailTarget(s, t, code) = r
  BY DEF FailTarget
<1>4. /\ m \in Decks
      /\ \A i \in Inputs : m.promise[i] = IF i \in q.active.parts /\ s.promise[i] = "open" THEN code
                                          ELSE s.promise[i]
  BY SettleIs
<1>5. "STALE_INPUT" \in Codes \cup {"done"}
  BY DEF Codes
<1>6. n \in Decks /\ \A i \in Inputs : n.promise[i] = IF i \in PartsOf(q.waiting) /\ m.promise[i] = "open"
                                                      THEN "STALE_INPUT" ELSE m.promise[i]
  <2> HIDE DEF m
  <2> QED
    BY <1>4, <1>5, SettleIs
<1>7. r.promise = n.promise
  <2> HIDE DEF n
  <2> QED
    BY <1>6 DEF Decks
<1> HIDE DEF r, n, m
<1>8. ASSUME NEW i \in Inputs, r.promise[i] # s.promise[i]
      PROVE  /\ Given(s.promise[i], r.promise[i])
             /\ \/ i \in s.queue[t].active.parts /\ r.promise[i] = code
                \/ r.promise[i] = "STALE_INPUT"
  <2>1. CASE i \in q.active.parts /\ s.promise[i] = "open"
    <3>1. m.promise[i] = code /\ code \notin {"open", "new"}
      BY <1>4, <2>1, Empties
    <3>2. r.promise[i] = code
      BY <1>6, <1>7, <3>1
    <3> QED
      BY <2>1, <3>1, <3>2 DEF Given
  <2>2. CASE ~ (i \in q.active.parts /\ s.promise[i] = "open")
    BY <1>4, <1>6, <1>7, <1>8, <2>2 DEF Given
  <2> QED
    BY <2>1, <2>2
<1> QED
  BY <1>1, <1>8

(* A queue is given up for a reason that is true of its active inputs.     *)
LEMMA FailJourney ==
  ASSUME NEW s \in Decks, NEW w, Journey(s, w), NEW t \in Targets, NEW code \in Codes,
         NEW L, Tidy(s, t, L, {}),
         \A i \in s.queue[t].active.parts : Truly(Flying(s, w), w, i, code)
  PROVE  Journey(FailTarget(s, t, code), w)
<1> DEFINE r == FailTarget(s, t, code)
<1>1. r \in Decks /\ Works(s, r, t, L) /\ Quiet(s, r) /\ r.queue[t] = NoQueue
  BY FailTargetTidies
<1>2. \A i \in Inputs : r.promise[i] # s.promise[i] =>
         /\ Given(s.promise[i], r.promise[i])
         /\ \/ i \in s.queue[t].active.parts /\ r.promise[i] = code
            \/ r.promise[i] = "STALE_INPUT"
  BY FailPromises
<1> HIDE DEF r
<1>3. \A i \in Inputs : r.promise[i] # s.promise[i] =>
         Given(s.promise[i], r.promise[i]) /\ Truly(Flying(s, w), w, i, r.promise[i])
  BY <1>2, TruthIs
<1>4. Trip(r, w, t)
  BY <1>1, EmptyTrip
<1>5. \A u \in Targets : u # t => r.queue[u] = s.queue[u]
  BY <1>1 DEF Works
<1> QED
  BY <1>1, <1>3, <1>4, <1>5, JourneyGoesOn DEF r


-----------------------------------------------------------------------------
(* What the callbacks send. *)

LEMMA CountIs ==
  ASSUME NEW s \in Decks, NEW w, Worldly(w), Counted(s, w)
  PROVE  /\ s.seq \in Nat /\ w.seq \in Nat /\ Len(s.out) \in Nat
         /\ \A x \in Flying(s, w) : x[2].id \in Nat /\ (x[1] = w.conn => x[2].id <= s.seq)
<1>1. s.seq \in Nat /\ s.out \in Seq(UpMessages)
  BY DeckFields
<1>2. Len(s.out) \in Nat /\ \A n \in 1 .. Len(s.out) : s.out[n] \in UpMessages
  BY <1>1, LenProperties, ElementOfSeq
<1>3. w.seq \in Nat
  BY DEF Worldly
<1>4. ASSUME NEW x \in w.sent
      PROVE  x[2].id \in Nat /\ (x[1] = w.conn => x[2].id <= s.seq)
  <2>1. x[2] \in UpMessages /\ x[2].type # "hello"
    BY DEF Worldly
  <2>2. x[2].id \in Nat
    BY <2>1, UpMessageIs
  <2> QED
    BY <1>1, <1>3, <2>2 DEF Counted
<1>5. ASSUME NEW n \in 1 .. Len(s.out)
      PROVE  s.out[n].id \in Nat /\ s.out[n].id <= s.seq
  <2>1. s.out[n].id \in w.seq + 1 .. s.seq
    BY DEF Counted
  <2> QED
    BY <1>1, <1>3, <2>1
<1>6. \A n \in 1 .. Len(s.out) : <<w.conn, s.out[n]>>[2] = s.out[n]
  OBVIOUS
<1> QED
  BY <1>1, <1>2, <1>3, <1>4, <1>5, <1>6 DEF Flying

(* One message more.                                                       *)
Sends(s, r, m) == r.out = Append(s.out, m) /\ m \in UpMessages /\ m.type # "hello"
                  /\ m.id = s.seq + 1 /\ r.seq = s.seq + 1

LEMMA SendIs ==
  ASSUME NEW s \in Decks, NEW r, NEW w, Worldly(w), NEW m, Sends(s, r, m)
  PROVE  /\ Flying(r, w) = Flying(s, w) \cup {<<w.conn, m>>}
         /\ \A i : Unsent(Flying(r, w), w, i) <=> Unsent(Flying(s, w), w, i) /\ i \notin Parts(m)
         /\ Len(r.out) = Len(s.out) + 1 /\ r.out[Len(s.out) + 1] = m /\ Len(s.out) \in Nat
         /\ \A n \in 1 .. Len(s.out) : r.out[n] = s.out[n]
<1>1. s.out \in Seq(UpMessages)
  BY DeckFields
<1>2. /\ Len(r.out) = Len(s.out) + 1 /\ r.out[Len(s.out) + 1] = m /\ Len(s.out) \in Nat
      /\ \A n \in 1 .. Len(s.out) : r.out[n] = s.out[n]
  BY <1>1, AppendProperties, LenProperties DEF Sends
<1>3. {<<w.conn, r.out[n]>> : n \in 1 .. Len(r.out)}
        = {<<w.conn, s.out[n]>> : n \in 1 .. Len(s.out)} \cup {<<w.conn, m>>}
  <2>1. 1 .. Len(r.out) = (1 .. Len(s.out)) \cup {Len(s.out) + 1}
    BY <1>2
  <2> QED
    BY <1>2, <2>1
<1>4. Flying(r, w) = Flying(s, w) \cup {<<w.conn, m>>}
  BY <1>3 DEF Flying
<1>5. \A i : Aboard(Flying(r, w), i) <=> Aboard(Flying(s, w), i) \/ i \in Parts(m)
  <2>1. <<w.conn, m>>[2] = m
    OBVIOUS
  <2> HIDE DEF Flying
  <2> QED
    BY <1>4, <2>1 DEF Aboard
<1> QED
  BY <1>2, <1>4, <1>5 DEF Unsent

(* It carries inputs that were not sent before.                            *)
Carries(s, w, m) ==
  \A i \in Parts(m) : /\ i \in Inputs \ w.loose /\ Unsent(Flying(s, w), w, i) /\ Level(Flying(s, w), w, i)
                      /\ w.pressed[i].conn = w.conn /\ w.pressed[i].session = m.session
                      /\ w.conn \in w.alive => w.pressed[i].inst = w.inst

LEMMA SendLoads ==
  ASSUME NEW s \in Decks, NEW r, NEW w, Worldly(w), Loads(s, w), PendSound(s),
         NEW m, Sends(s, r, m), Carries(s, w, m),
         NEW Q, r.pend = s.pend \cup Q, \A p, p2 \in Q : p = p2 /\ p.id = s.seq + 1
  PROVE  Loads(r, w)
<1> DEFINE F == Flying(s, w)  F2 == Flying(r, w)  new == <<w.conn, m>>
<1>1. /\ F2 = F \cup {new}
      /\ \A i : Unsent(F2, w, i) <=> Unsent(F, w, i) /\ i \notin Parts(m)
      /\ Len(r.out) = Len(s.out) + 1 /\ r.out[Len(s.out) + 1] = m /\ Len(s.out) \in Nat
      /\ \A n \in 1 .. Len(s.out) : r.out[n] = s.out[n]
  BY SendIs
<1>2. /\ s.seq \in Nat /\ w.seq \in Nat
      /\ \A x \in F : x[2].id \in Nat /\ (x[1] = w.conn => x[2].id <= s.seq)
  BY CountIs DEF Loads
<1>3. new[1] = w.conn /\ new[2] = m /\ m.id = s.seq + 1 /\ r.seq = s.seq + 1 /\ m.type # "hello"
  BY DEF Sends
<1>4. Alone(F, w) /\ Stamped(F, w) /\ Ranked(F, w) /\ Counted(s, w)
  BY DEF Loads
<1>5. \A i \in Parts(m) : i \in Inputs /\ w.applied[i] = << >> /\ ~ Aboard(F, i) /\ Level(F, w, i)
  BY DEF Carries, Unsent
<1> HIDE DEF F, F2, new
<1>6. Alone(F2, w)
  <2>1. \A i \in Inputs : Len(w.applied[i]) <= 1 /\ (Aboard(F2, i) => w.applied[i] = << >>)
    BY <1>1, <1>3, <1>4, <1>5 DEF Alone, Aboard
  <2>2. ASSUME NEW x \in F2, NEW y \in F2, x # y
        PROVE  Parts(x[2]) \cap Parts(y[2]) = {}
    BY <1>1, <1>3, <1>4, <1>5, <2>2 DEF Alone, Aboard
  <2>3. ASSUME NEW x \in F2, NEW y \in F2, x[1] = y[1], x[2].id = y[2].id
        PROVE  x = y
    <3>1. CASE x = new /\ y = new
      BY <3>1
    <3>2. CASE x = new /\ y # new
      <4>1. y[1] = w.conn /\ y[2].id = s.seq + 1 /\ y \in F
        BY <1>1, <1>3, <2>3, <3>2
      <4> QED
        BY <1>2, <4>1
    <3>3. CASE x # new /\ y = new
      <4>1. x[1] = w.conn /\ x[2].id = s.seq + 1 /\ x \in F
        BY <1>1, <1>3, <2>3, <3>3
      <4> QED
        BY <1>2, <4>1
    <3>4. CASE x # new /\ y # new
      BY <1>1, <1>4, <2>3, <3>4 DEF Alone
    <3> QED
      BY <3>1, <3>2, <3>3, <3>4
  <2> QED
    BY <2>1, <2>2, <2>3 DEF Alone
<1>7. Stamped(F2, w)
  BY <1>1, <1>3, <1>4 DEF Stamped, Carries
<1>8. Ranked(F2, w)
  <2> SUFFICES ASSUME NEW i \in Inputs, NEW j \in Inputs, Precedes(w, i, j)
               PROVE  /\ Aboard(F2, i) => w.applied[j] = << >>
                      /\ \A x, y \in F2 : i \in Parts(x[2]) /\ j \in Parts(y[2]) => x[2].id <= y[2].id
    BY DEF Ranked
  <2>1. i \in Parts(m) => w.applied[j] = << >> /\ ~ Aboard(F, j)
    BY <1>5 DEF Level, Unsent, Aboard
  <2>2. Aboard(F2, i) => w.applied[j] = << >>
    BY <1>1, <1>3, <1>4, <2>1 DEF Ranked, Aboard
  <2>3. ASSUME NEW x \in F2, NEW y \in F2, i \in Parts(x[2]), j \in Parts(y[2])
        PROVE  x[2].id <= y[2].id
    <3>1. CASE x \in F /\ y \in F
      BY <1>4, <2>3, <3>1 DEF Ranked
    <3>2. CASE x = new /\ y \in F
      BY <1>3, <2>1, <2>3, <3>2 DEF Aboard
    <3>3. CASE x \in F /\ y = new
      <4>1. w.pressed[i].conn = x[1] /\ w.pressed[j].conn = w.conn
        BY <1>3, <1>4, <2>3, <3>3 DEF Stamped, Carries
      <4>2. x[1] = w.conn
        BY <4>1 DEF Precedes
      <4> QED
        BY <1>2, <1>3, <3>3, <4>2
    <3>4. CASE x = new /\ y = new
      BY <1>2, <1>3, <3>4
    <3> QED
      BY <1>1, <3>1, <3>2, <3>3, <3>4
  <2> QED
    BY <2>2, <2>3
<1>9. Counted(r, w)
  <2>1. w.seq <= s.seq /\ w.seq <= r.seq /\ s.seq <= r.seq
    BY <1>2, <1>3, <1>4 DEF Counted
  <2>2. ASSUME NEW n \in 1 .. Len(r.out)
        PROVE  /\ r.out[n].type # "hello" /\ r.out[n].id \in w.seq + 1 .. r.seq
               /\ \A k \in 1 .. n - 1 : r.out[k].id < r.out[n].id
    <3>1. CASE n \in 1 .. Len(s.out)
      <4>1. r.out[n] = s.out[n] /\ \A k \in 1 .. n - 1 : r.out[k] = s.out[k]
        BY <1>1, <3>1
      <4>2. /\ s.out[n].type # "hello" /\ s.out[n].id \in w.seq + 1 .. s.seq
            /\ \A k \in 1 .. n - 1 : s.out[k].id < s.out[n].id
        BY <1>4, <3>1 DEF Counted
      <4>3. s.out[n].id \in w.seq + 1 .. r.seq
        BY <1>2, <1>3, <4>2
      <4> QED
        BY <4>1, <4>2, <4>3
    <3>2. CASE n = Len(s.out) + 1
      <4>1. r.out[n] = m /\ \A k \in 1 .. n - 1 : r.out[k] = s.out[k] /\ k \in 1 .. Len(s.out)
        BY <1>1, <3>2
      <4>2. \A k \in 1 .. Len(s.out) : s.out[k].id \in w.seq + 1 .. s.seq
        BY <1>4 DEF Counted
      <4>3. m.id \in w.seq + 1 .. r.seq
        BY <1>2, <1>3, <2>1
      <4>4. ASSUME NEW k \in 1 .. n - 1
            PROVE  r.out[k].id < m.id
        <5>1. r.out[k] = s.out[k] /\ s.out[k].id \in w.seq + 1 .. s.seq
          BY <4>1, <4>2
        <5> QED
          BY <1>2, <1>3, <5>1
      <4> QED
        BY <1>3, <4>1, <4>3, <4>4
    <3> QED
      BY <1>1, <3>1, <3>2
  <2>3. ASSUME NEW p \in r.pend, NEW p2 \in r.pend, p.id = p2.id
        PROVE  p = p2
    <3>1. \A e \in s.pend : e.id \in 1 .. s.seq
      BY DEF PendSound
    <3>2. \A e \in s.pend : e.id # s.seq + 1
      BY <1>2, <3>1
    <3>3. \A e, f \in s.pend : e.id = f.id => e = f
      BY <1>4 DEF Counted
    <3> QED
      BY <2>3, <3>2, <3>3
  <2> QED
    BY <1>4, <2>1, <2>2, <2>3 DEF Counted
<1>10. \A i \in w.loose : Unsent(F2, w, i)
  BY <1>1 DEF Loads, Carries, F
<1> QED
  BY <1>6, <1>7, <1>8, <1>9, <1>10 DEF Loads, F2

(* The queues of other targets, and their requests, are as they were.      *)
LEMMA SendTrip ==
  ASSUME NEW s \in Decks, NEW r, NEW w, Worldly(w), Loads(s, w), PendSound(s),
         NEW m, Sends(s, r, m), NEW u, Trip(s, w, u), r.queue[u] = s.queue[u],
         \A i \in Parts(m) : i \in Inputs /\ Input[i].target # u,
         NEW Q, r.pend = s.pend \cup Q, \A p \in Q : p.op = "requestState" \/ p.target # u,
         r.answers = s.answers
  PROVE  Trip(r, w, u)
<1> DEFINE F == Flying(s, w)  F2 == Flying(r, w)  new == <<w.conn, m>>  q == s.queue[u]
<1>1. /\ F2 = F \cup {new}
      /\ \A i : Unsent(F2, w, i) <=> Unsent(F, w, i) /\ i \notin Parts(m)
  BY SendIs
<1>2. s.seq \in Nat /\ new[1] = w.conn /\ new[2] = m /\ m.id = s.seq + 1
  BY DeckFields DEF Sends
<1>3. Waits(q, F, w, u) /\ Known(q, F, w) /\ (q # NoQueue => Traced(s, w, u))
  BY DEF Trip
<1>4. \A n \in Places(q) : \A i \in Place(q, n) : i \notin Parts(m) /\ Input[i].target = u
  BY <1>3 DEF Waits
<1>5. \A n \in 1 .. Len(q.waiting) : \A i \in q.waiting[n].parts : i \notin Parts(m)
  <2>1. q \in Queues \/ q \notin Queues
    OBVIOUS
  <2>2. \A n \in 1 .. Len(q.waiting) : n \in Places(q) /\ Place(q, n) = q.waiting[n].parts
    BY DEF Places, Place
  <2> QED
    BY <1>4, <2>2
<1>6. \A i \in q.active.parts : i \notin Parts(m)
  <2>1. 0 \in Places(q) /\ Place(q, 0) = q.active.parts
    BY DEF Places, Place
  <2> QED
    BY <1>4, <2>1
<1>7. ASSUME NEW i, Level(F, w, i), Input[i].target = u
      PROVE  Level(F2, w, i)
  <2> SUFFICES ASSUME NEW j \in Inputs, Precedes(w, i, j)
               PROVE  Unsent(F2, w, j) \/ w.applied[i] # << >> \/ \E x \in F2 : {i, j} \subseteq Parts(x[2])
    BY DEF Level
  <2>1. j \notin Parts(m)
    BY <1>7 DEF Precedes
  <2> QED
    BY <1>1, <1>7, <2>1 DEF Level
<1> HIDE DEF F, F2, new, q
<1>8. Waits(q, F2, w, u)
  BY <1>1, <1>3, <1>5, <1>7 DEF Waits
<1>9. Known(q, F2, w)
  BY <1>1, <1>3, <1>6 DEF Known
<1>10. ASSUME q # NoQueue
       PROVE  Traced(r, w, u)
  <2>1. Traced(s, w, u)
    BY <1>3, <1>10
  <2>2. Asked(r, u) = Asked(s, u) /\ Replied(r, u) = Replied(s, u) /\ r.queue[u] = q /\ s.queue[u] = q
    BY DEF Asked, Replied, Edits, q
  <2>3. \A i \in q.active.parts : \A code : Truly(F, w, i, code) => Truly(F2, w, i, code)
    BY <1>1, <1>6 DEF Truly
  <2>4. \A p \in Asked(s, u) : p.id # m.id
    <3>1. \A p \in s.pend : p.id \in 1 .. s.seq
      BY DEF PendSound
    <3> QED
      BY <1>2, <3>1 DEF Asked, Edits
  <2>5. ASSUME NEW p \in Asked(s, u), NEW x \in F2, x[1] = w.conn, x[2].id = p.id
        PROVE  q.active.parts \subseteq Parts(x[2])
    <3>1. x \in F
      BY <1>1, <1>2, <2>4, <2>5
    <3> QED
      BY <2>1, <2>2, <2>5, <3>1 DEF Traced, F
  <2>6. /\ \A p, e \in Asked(s, u) : p = e
        /\ \A a, b \in Replied(s, u) : a = b
        /\ Asked(s, u) = {} \/ Replied(s, u) = {}
        /\ Asked(s, u) # {} \/ Replied(s, u) # {} =>
              q.active.kind # "none" /\ ~ q.active.retrying /\ q.ack = NoAck
        /\ \A a \in Replied(s, u) : \A i \in q.active.parts : Truly(F, w, i, a.code)
        /\ \A p \in Asked(s, u) :
              \A d \in w.heard : d.id = p.id => \A i \in q.active.parts : Truly(F, w, i, CodeOf(d))
    BY <2>1, <2>2 DEF Traced, F
  <2>7. /\ \A a \in Replied(s, u) : \A i \in q.active.parts : Truly(F2, w, i, a.code)
        /\ \A p \in Asked(s, u) :
              \A d \in w.heard : d.id = p.id => \A i \in q.active.parts : Truly(F2, w, i, CodeOf(d))
    BY <2>3, <2>6
  <2> QED
    BY <2>2, <2>5, <2>6, <2>7 DEF Traced, F2
<1> QED
  BY <1>8, <1>9, <1>10 DEF Trip, F2, q
-----------------------------------------------------------------------------
(* The next input goes. *)

(* What a queue has out: at the most the request for its active intent.    *)
Still(s, t) == Asked(s, t) = {} /\ Replied(s, t) = {}

LEMMA StillIs ==
  ASSUME NEW s, NEW w, NEW t, Trip(s, w, t), s.queue[t] # NoQueue,
         \/ s.queue[t].active.kind = "none" \/ s.queue[t].active.retrying
         \/ s.queue[t].ack # NoAck
  PROVE  Still(s, t)
BY DEF Trip, Traced, Still

(* dispatch() of inputs that were not sent.                                *)
LEMMA DispatchJourney ==
  ASSUME NEW s, NEW w, Worldly(w), NEW t \in Targets, NEW L, w.loose \subseteq L, Good(s, t, L), Journey(s, w),
         s.queue[t] # NoQueue, s.queue[t].active.kind # "none", s.queue[t].ack = NoAck,
         Still(s, t), \A i \in s.queue[t].active.parts : Unsent(Flying(s, w), w, i)
  PROVE  Journey(Dispatch(s, t), w)
<1> DEFINE F == Flying(s, w)
<1>0. s \in Decks /\ Tidy(s, t, L, {}) /\ PendSound(s)
  BY DEF Good, Sound
<1>1. CASE t \notin s.snap.has
  <2>1. "NOT_FOUND" \in Codes /\ "NOT_FOUND" \in NotApplied
    BY DEF Codes, NotApplied
  <2>2. Dispatch(s, t) = FailTarget(s, t, "NOT_FOUND")
    BY <1>1 DEF Dispatch
  <2>3. \A i \in s.queue[t].active.parts : Truly(F, w, i, "NOT_FOUND")
    BY <2>1, TruthIs DEF Truly
  <2> QED
    BY <1>0, <2>1, <2>2, <2>3, FailJourney
<1>2. CASE t \in s.snap.has
  <2> DEFINE q == s.queue[t]  x == q.active  id == s.seq + 1
             v == [q EXCEPT !.active = Sent(x)]
             m == [s EXCEPT !.queue[t] = v]
             value == IF Computed(x.kind) THEN Effect(x.kind, s.snap.val[t], Cardinality(x.parts)) ELSE 0
             p == [id |-> id, op |-> "edit", target |-> t, born |-> q.born, session |-> s.snap.session]
             msg == EditCommand(id, s.snap.session, Revision(s, x),
                                IF Computed(x.kind) THEN "set" ELSE "toggle", t, value, x.parts)
             r == Issue(m, p, msg)
  <2>1. s \in Decks /\ q \in Queues /\ x \in Intents /\ s.snap \in Snaps /\ s.seq \in Nat
    BY <1>0, DeckFields, QueueFields
  <2>2. m = [s EXCEPT !.queue[t].active = Sent(@)]
    BY <2>1 DEF Decks
  <2>3. Dispatch(s, t) = r
    BY <1>2, <2>2 DEF Dispatch
  <2>4. /\ v \in Queues /\ v.active.parts = q.active.parts /\ v.waiting = q.waiting /\ v.born = q.born
        /\ v.ack = q.ack /\ v.active.kind = q.active.kind /\ ~ v.active.retrying
    <3>1. Sent(x) \in Intents /\ Sent(x).parts = x.parts /\ Sent(x).kind = x.kind
      BY <2>1 DEF Sent, Intents
    <3>2. Sent(x).retrying = FALSE
      BY <2>1 DEF Sent, Intents
    <3> QED
      BY <2>1, <3>1, <3>2 DEF Queues
  <2>5. q.born \in Inputs
    BY <1>0 DEF Tidy
  <2>6. p \in EditRequests
    BY <2>1, <2>5 DEF EditRequests, Snaps
  <2>7. msg \in UpMessages /\ msg.type = "command" /\ msg.op # "requestState" /\ msg.parts = x.parts
        /\ msg.id = id /\ msg.session = s.snap.session
    <3>1. value \in 0 .. Top
      <4>1. s.snap.val[t] \in 0 .. Top /\ IsFiniteSet(x.parts)
        BY <2>1, WireFacts, FS_Subset, QueueFields DEF Snaps, Values
      <4>2. Cardinality(x.parts) \in Nat
        BY <4>1, FS_CardinalityType
      <4> HIDE DEF x
      <4> QED
        BY <4>1, <4>2, EffectIs, WireFacts
    <3>2. Revision(s, x) \in Nat /\ s.snap.session \in Nat /\ x.parts \in SUBSET Inputs
      BY <2>1 DEF Revision, Snaps, Intents
    <3> HIDE DEF value, x
    <3>3. msg \in EditCommands
      BY <2>1, <3>1, <3>2 DEF EditCommands, EditCommand
    <3> QED
      BY <3>3 DEF UpMessages, EditCommand
  <2>8. /\ m \in Decks /\ Quiet(s, m) /\ m.promise = s.promise
        /\ m.queue[t] = v /\ \A u \in Targets : u # t => m.queue[u] = s.queue[u]
    <3> HIDE DEF v
    <3> QED
      BY <2>1, <2>4, SetQueueIs
  <2>9. p.id = id /\ p.op = "edit" /\ p.target = t /\ p.born = q.born
    OBVIOUS
  <2> HIDE DEF m, p, msg
  <2>10. /\ r \in Decks /\ Untouched(m, r) /\ r.queue = m.queue /\ r.promise = m.promise
         /\ r.seq = m.seq + 1 /\ r.pend = m.pend \cup {p} /\ r.out = Append(m.out, msg)
    BY <2>6, <2>7, <2>8, IssueIs
  <2> HIDE DEF r
  <2>11. /\ r.seq = s.seq + 1 /\ r.pend = s.pend \cup {p} /\ r.promise = s.promise /\ Untouched(s, r)
         /\ r.out = Append(s.out, msg) /\ r.answers = s.answers
    BY <2>8, <2>10 DEF Quiet, Untouched
  <2>12. r.queue[t] = v /\ \A u \in Targets : u # t => r.queue[u] = s.queue[u]
    BY <2>8, <2>10
  <2>13. Sends(s, r, msg)
    BY <2>7, <2>11 DEF Sends
  <2>14. Parts(msg) = x.parts
    BY <2>7 DEF Parts
  <2>15. \A i \in x.parts : i \in Inputs /\ Mine(s, t, i) /\ Unsent(F, w, i) /\ Level(F, w, i)
    <3>1. 0 \in Places(q) /\ Place(q, 0) = x.parts /\ x.parts \subseteq Inputs
      BY <2>1, QueueFields DEF Places, Place
    <3>2. \A i \in x.parts : Mine(s, t, i)
      BY <1>0, <3>1 DEF Tidy
    <3>3. Waits(q, F, w, t)
      BY DEF Journey, Trip
    <3>4. \A i \in x.parts : Level(F, w, i)
      <4> HIDE DEF F, q
      <4> QED
        BY <3>1, <3>3 DEF Waits
    <3> QED
      BY <3>1, <3>2, <3>4
  <2>16. Carries(s, w, msg)
    <3>1. \A i \in x.parts : i \notin L
      <4>1. 0 \in Places(q) /\ Place(q, 0) = x.parts
        BY <2>1, QueueFields DEF Places, Place
      <4> QED
        BY <1>0, <4>1 DEF Tidy
    <3>2. Opened(s, w) /\ msg.session = s.snap.session
      BY <2>7 DEF Journey
    <3> QED
      BY <2>14, <2>15, <3>1, <3>2 DEF Carries, Mine, Opened
  <2>17. Loads(r, w)
    <3>1. \A e, f \in {p} : e = f /\ e.id = s.seq + 1
      BY <2>9
    <3> QED
      BY <1>0, <2>11, <2>13, <2>16, <3>1, SendLoads DEF Journey
  <2>18. \A i \in Inputs : Input[i].target # t => i \notin Parts(msg)
    BY <2>14, <2>15 DEF Mine
  <2>19. ASSUME NEW u \in Targets, u # t
         PROVE  Trip(r, w, u)
    <3>1. \A i \in Parts(msg) : i \in Inputs /\ Input[i].target # u
      BY <2>14, <2>15, <2>19 DEF Mine
    <3>2. \A e \in {p} : e.op = "requestState" \/ e.target # u
      BY <2>9, <2>19
    <3>3. Trip(s, w, u) /\ Loads(s, w) /\ r.queue[u] = s.queue[u]
      BY <2>12, <2>19 DEF Journey
    <3> QED
      BY <1>0, <2>11, <2>13, <3>1, <3>2, <3>3, SendTrip
  <2> DEFINE F2 == Flying(r, w)  new == <<w.conn, msg>>
  <2>20. /\ F2 = F \cup {new}
         /\ \A i : Unsent(F2, w, i) <=> Unsent(F, w, i) /\ i \notin Parts(msg)
    BY <1>0, <2>13, SendIs
  <2>21. Honest(r, w)
    <3> SUFFICES ASSUME NEW i \in Inputs
                 PROVE  Truly(F2, w, i, s.promise[i])
      BY <2>11 DEF Honest, Journey
    <3>1. CASE i \in Parts(msg)
      BY <2>14, <2>15, <3>1, TruthIs DEF Mine
    <3>2. CASE i \notin Parts(msg)
      BY <2>20, <3>2 DEF Honest, Journey, Truly
    <3> QED
      BY <3>1, <3>2
  <2>22. Opened(r, w)
    BY <2>11 DEF Opened, Journey, Untouched, HasSnap
  <2>23. Waits(v, F2, w, t)
    <3>1. Waits(q, F, w, t)
      BY DEF Journey, Trip
    <3>2. Places(v) = Places(q) /\ \A n \in Places(q) : Place(v, n) = Place(q, n)
      BY <2>4 DEF Places, Place
    <3>3. \A n \in 1 .. Len(q.waiting) : \A i \in q.waiting[n].parts : i \notin Parts(msg)
      <4>1. \A n \in 1 .. Len(q.waiting) : n \in Places(q) /\ Place(q, n) = q.waiting[n].parts /\ n # 0
        BY <2>1, QueueFields DEF Places, Place
      <4>2. 0 \in Places(q) /\ Place(q, 0) = x.parts
        BY <2>1, QueueFields DEF Places, Place
      <4>3. \A n \in Places(q) : n # 0 => Place(q, n) \cap Place(q, 0) = {}
        BY <1>0, <4>2 DEF Tidy
      <4> QED
        BY <2>14, <4>1, <4>2, <4>3
    <3>4. ASSUME NEW n \in Places(q), NEW i \in Place(q, n)
          PROVE  Level(F2, w, i)
      <4> SUFFICES ASSUME NEW j \in Inputs, Precedes(w, i, j)
                   PROVE  Unsent(F2, w, j) \/ w.applied[i] # << >> \/ \E y \in F2 : {i, j} \subseteq Parts(y[2])
        BY DEF Level
      <4>1. Unsent(F, w, j) \/ w.applied[i] # << >> \/ \E y \in F : {i, j} \subseteq Parts(y[2])
        BY <3>1 DEF Waits, Level
      <4>2. CASE j \notin Parts(msg)
        BY <2>20, <4>1, <4>2
      <4>3. CASE j \in Parts(msg)
        <5>1. 0 \in Places(q) /\ Place(q, 0) = x.parts /\ n \in Nat
          BY <2>1, QueueFields DEF Places, Place
        <5>2. CASE n = 0
          <6>1. i \in Parts(msg) /\ new \in F2 /\ new[2] = msg
            BY <2>14, <2>20, <5>1, <5>2
          <6> QED
            BY <4>3, <6>1
        <5>3. CASE n # 0
          <6>1. 0 < n
            BY <5>1, <5>3
          <6>2. w.pressed[j].n < w.pressed[i].n
            BY <2>14, <3>1, <4>3, <5>1, <6>1 DEF Waits, Lined
          <6>3. w.pressed[i].n < w.pressed[j].n /\ w.pressed[j].n \in Nat /\ w.pressed[i].n \in Nat
            <7>1. i \in Inputs
              BY <2>1, QueueFields
            <7> QED
              BY <7>1 DEF Worldly, Precedes
          <6> QED
            BY <6>2, <6>3
        <5> QED
          BY <5>2, <5>3
      <4> QED
        BY <4>2, <4>3
    <3>5. Lined(v, w)
      BY <3>1, <3>2 DEF Waits, Lined
    <3>6. \A n \in 1 .. Len(v.waiting) : /\ v.waiting[n].kind # "none"
                                         /\ \A i \in v.waiting[n].parts : Unsent(F2, w, i)
      BY <2>4, <2>20, <3>1, <3>3 DEF Waits
    <3>7. \A n \in Places(v) : \A i \in Place(v, n) : Input[i].target = t /\ Level(F2, w, i)
      BY <3>1, <3>2, <3>4 DEF Waits
    <3> HIDE DEF v, F2
    <3> QED
      BY <3>5, <3>6, <3>7 DEF Waits
  <2>24. Known(v, F2, w)
    BY <2>4 DEF Known
  <2>25. Traced(r, w, t)
    <3>1. Asked(r, t) = {p}
      <4>1. Asked(s, t) = {}
        BY DEF Still
      <4>2. r.queue[t].born = s.queue[t].born
        BY <2>4, <2>12
      <4> QED
        BY <2>9, <2>11, <4>1, <4>2 DEF Asked, Edits
    <3>2. Replied(r, t) = {}
      BY <2>4, <2>11, <2>12 DEF Still, Replied
    <3>3. ASSUME NEW y \in F2, y[1] = w.conn, y[2].id = p.id
          PROVE  v.active.parts \subseteq Parts(y[2])
      <4>1. CASE y \in F
        <5>1. y[2].id <= s.seq /\ y[2].id \in Nat
          BY <1>0, <3>3, <4>1, CountIs DEF Journey, Loads
        <5> QED
          BY <2>1, <2>9, <3>3, <5>1
      <4>2. CASE y = new
        BY <2>4, <2>14, <4>2
      <4> QED
        BY <2>20, <4>1, <4>2
    <3>4. ASSUME NEW d \in w.heard
          PROVE  d.id # p.id
      <4>1. d.id <= w.seq /\ w.seq <= s.seq /\ w.seq \in Nat
        BY DEF Journey, Loads, Counted, Worldly
      <4>2. d.id \in Nat
        BY DEF Worldly, AckMessages, Errors
      <4> QED
        BY <2>1, <2>9, <4>1, <4>2
    <3> HIDE DEF v, F2, q
    <3>5. /\ \A e, f \in Asked(r, t) : e = f
          /\ \A a, b \in Replied(r, t) : a = b
          /\ Asked(r, t) = {} \/ Replied(r, t) = {}
          /\ \A a \in Replied(r, t) : \A i \in r.queue[t].active.parts : Truly(F2, w, i, a.code)
      BY <3>1, <3>2
    <3>6. r.queue[t].active.kind # "none" /\ ~ r.queue[t].active.retrying /\ r.queue[t].ack = NoAck
      BY <2>4, <2>12 DEF q
    <3>7. \A e \in Asked(r, t) :
             /\ \A y \in F2 : y[1] = w.conn /\ y[2].id = e.id => r.queue[t].active.parts \subseteq Parts(y[2])
             /\ \A d \in w.heard : d.id = e.id => \A i \in r.queue[t].active.parts : Truly(F2, w, i, CodeOf(d))
      BY <2>12, <3>1, <3>3, <3>4
    <3> QED
      BY <3>5, <3>6, <3>7 DEF Traced, F2
  <2>26. Trip(r, w, t)
    <3> HIDE DEF v
    <3> QED
      BY <2>12, <2>23, <2>24, <2>25 DEF Trip
  <2>27. Journey(r, w)
    BY <2>17, <2>19, <2>21, <2>22, <2>26 DEF Journey
  <2> QED
    BY <2>3, <2>27
<1> QED
  BY <1>1, <1>2

(* The next of those that wait, in a queue with nothing out.               *)
LEMMA StartNextJourney ==
  ASSUME NEW s, NEW w, Worldly(w), NEW t \in Targets, NEW L, w.loose \subseteq L, Good(s, t, L), Journey(s, w),
         s.queue[t] # NoQueue, s.queue[t].active = NoIntent
  PROVE  Journey(StartNext(s, t), w)
<1> DEFINE q == s.queue[t]  F == Flying(s, w)
<1>0. s \in Decks /\ q \in Queues /\ Tidy(s, t, L, {})
  BY DeckFields DEF Good, Sound
<1>1. q.waiting \in Seq(Intents) /\ Len(q.waiting) \in Nat
  BY <1>0, QueueFields
<1>2. q.active.kind = "none" /\ q.active.parts = {}
  BY DEF NoIntent
<1>3. Trip(s, w, t) /\ Waits(q, F, w, t) /\ Known(q, F, w) /\ q.ack = NoAck
  BY <1>2 DEF Journey, Trip, Known
<1>4. Still(s, t)
  BY <1>2, <1>3, StillIs
<1>5. CASE q.waiting = << >>
  <2> DEFINE r == [s EXCEPT !.queue[t] = NoQueue]
  <2>1. StartNext(s, t) = r
    BY <1>5 DEF StartNext
  <2>2. /\ r \in Decks /\ Quiet(s, r) /\ r.promise = s.promise
        /\ r.queue[t] = NoQueue /\ \A u \in Targets : u # t => r.queue[u] = s.queue[u]
    BY <1>0, Empties, SetQueueIs
  <2> HIDE DEF r
  <2>3. Trip(r, w, t)
    BY <2>2, EmptyTrip
  <2>4. Journey(r, w)
    BY <2>2, <2>3, JourneyGoesOn
  <2> QED
    BY <2>1, <2>4
<1>6. CASE q.waiting # << >> /\ ~ q.waiting[1].ripe
  BY <1>6 DEF StartNext, NextOf
<1>7. CASE q.waiting # << >> /\ q.waiting[1].ripe
  <2> DEFINE v == RemoveAt(q.waiting, 1)
             z == [q EXCEPT !.active = q.waiting[1], !.waiting = v]
             m == [s EXCEPT !.queue[t] = z]
  <2>1. StartNext(s, t) = Dispatch(m, t)
    <3>1. m = [s EXCEPT !.queue[t].active = q.waiting[1], !.queue[t].waiting = RemoveAt(@, 1)]
      BY <1>0 DEF Decks, Queues
    <3> QED
      BY <1>7, <3>1 DEF StartNext, NextOf
  <2>2. 1 \in 1 .. Len(q.waiting) /\ q.waiting[1] \in Intents
    BY <1>0, <1>1, <1>7, EmptySeq, QueueFields
  <2>3. /\ v \in Seq(Intents) /\ Len(v) = Len(q.waiting) - 1
        /\ \A n \in 1 .. Len(q.waiting) - 1 : v[n] = IF n < 1 THEN q.waiting[n] ELSE q.waiting[n + 1]
    BY <1>1, <2>2, RemoveAtIs
  <2> HIDE DEF v
  <2>4. z \in Queues /\ z.born = q.born /\ z.active = q.waiting[1] /\ z.waiting = v /\ z.ack = q.ack
    BY <1>0, <2>2, <2>3 DEF Queues
  <2> HIDE DEF z
  <2>5. /\ m \in Decks /\ Quiet(s, m) /\ m.promise = s.promise
        /\ m.queue[t] = z /\ \A u \in Targets : u # t => m.queue[u] = s.queue[u]
    BY <1>0, <2>4, SetQueueIs
  <2> HIDE DEF m
  <2>6. Works(s, m, t, L)
    BY <1>0, <2>4, <2>5, QuietWorks
  <2>7. Sound(m)
    <3>1. m.pend = s.pend
      BY <2>5 DEF Quiet
    <3> QED
      BY <2>5, <2>6, <3>1, WorkIsSound DEF Good
  <2>8. Rearranges(q, z)
    <3> DEFINE from == [n \in Places(z) |-> n + 1]
    <3>1. Places(q) = 0 .. Len(q.waiting) /\ Places(z) = 0 .. Len(q.waiting) - 1
      BY <2>3, <2>4 DEF Places
    <3>2. from \in [Places(z) -> Places(q)]
      BY <1>1, <3>1
    <3>3. ASSUME NEW n \in Places(z)
          PROVE  Place(z, n) = Place(q, n + 1)
      <4>1. CASE n = 0
        BY <2>4, <4>1 DEF Place
      <4>2. CASE n # 0
        <5>1. z.waiting[n] = q.waiting[n + 1] /\ n + 1 # 0
          BY <1>1, <2>3, <2>4, <3>1, <4>2, SMTT(30)
        <5> QED
          BY <4>2, <5>1 DEF Place
      <4> QED
        BY <4>1, <4>2
    <3>4. \A n, k \in Places(z) : n < k => from[n] < from[k]
      BY <1>1, <3>1
    <3>5. ASSUME NEW k \in Places(q), NEW i \in Place(q, k)
          PROVE  \E n \in Places(z) : i \in Place(z, n)
      <4>1. k # 0
        <5>1. Place(q, 0) = {}
          BY <1>2 DEF Place
        <5> QED
          BY <5>1
      <4>2. k - 1 \in Places(z) /\ (k - 1) + 1 = k
        BY <1>1, <3>1, <4>1
      <4> QED
        BY <3>3, <4>2
    <3> QED
      BY <3>2, <3>3, <3>4, <3>5 DEF Rearranges
  <2>9. Tidy(m, t, L, {})
    BY <1>0, <2>4, <2>5, <2>8, RearrangedIsTidy DEF Good
  <2>10. Good(m, t, L)
    BY <2>7, <2>9 DEF Good
  <2>11. m.queue[t] # NoQueue
    <3>1. q.born \in Inputs
      BY <1>0 DEF Tidy
    <3> QED
      BY <2>4, <2>5, <3>1, EmptyQueue, WireFacts
  <2>12. z.active.kind # "none" /\ \A i \in z.active.parts : Unsent(F, w, i)
    BY <1>3, <2>2, <2>4 DEF Waits
  <2>13. Flying(m, w) = F
    BY <2>5, SameFlight DEF Quiet
  <2>14. Waits(z, F, w, t)
    <3>1. Thins(q, z)
      BY <2>8 DEF Rearranges, Thins
    <3>2. Named(z)
      <4>1. \A n \in 1 .. Len(q.waiting) : q.waiting[n].kind # "none"
        BY <1>3 DEF Waits
      <4>2. \A n \in 1 .. Len(v) : v[n] = q.waiting[n + 1] /\ n + 1 \in 1 .. Len(q.waiting)
        BY <1>1, <2>3
      <4> QED
        BY <2>4, <4>1, <4>2 DEF Named
    <3> HIDE DEF q, F
    <3> QED
      BY <1>0, <1>3, <2>4, <3>1, <3>2, ThinWaits
  <2>15. Still(m, t)
    BY <1>4, <2>4, <2>5 DEF Still, Asked, Replied, Edits, Quiet, Untouched
  <2>16. Trip(m, w, t)
    <3>1. Known(z, F, w)
      BY <1>3, <2>4, <2>12 DEF Known
    <3>2. Traced(m, w, t)
      BY <2>15 DEF Traced, Still
    <3> QED
      BY <2>5, <2>13, <2>14, <3>1, <3>2 DEF Trip
  <2>17. Journey(m, w)
    BY <2>5, <2>16, JourneyGoesOn
  <2>18. m.queue[t].active.kind # "none" /\ m.queue[t].ack = NoAck
         /\ \A i \in m.queue[t].active.parts : Unsent(Flying(m, w), w, i)
    BY <1>3, <2>4, <2>5, <2>12, <2>13
  <2>19. Journey(Dispatch(m, t), w)
    BY <2>10, <2>11, <2>15, <2>17, <2>18, DispatchJourney
  <2> QED
    BY <2>1, <2>19
<1> QED
  BY <1>5, <1>6, <1>7

LEMMA SendAgainJourney ==
  ASSUME NEW s, NEW w, Worldly(w), NEW t \in Targets, NEW L, w.loose \subseteq L, Good(s, t, L), Journey(s, w),
         s.queue[t] # NoQueue
  PROVE  Journey(SendAgain(s, t), w)
<1> DEFINE q == s.queue[t]
<1>0. s \in Decks /\ Tidy(s, t, L, {})
  BY DEF Good, Sound
<1>1. CASE ~ q.active.retrying
  BY <1>1 DEF SendAgain
<1>2. CASE q.active.retrying /\ q.active.parts = {}
  <2>1. "INPUT_EXPIRED" \in Codes
    BY DEF Codes
  <2>2. SendAgain(s, t) = FailTarget(s, t, "INPUT_EXPIRED")
    BY <1>2 DEF SendAgain
  <2> QED
    BY <1>0, <1>2, <2>1, <2>2, FailJourney
<1>3. CASE q.active.retrying /\ q.active.parts # {}
  <2>1. SendAgain(s, t) = Dispatch(s, t)
    BY <1>3 DEF SendAgain
  <2>2. Trip(s, w, t) /\ Known(q, Flying(s, w), w)
    BY DEF Journey, Trip
  <2>3. Still(s, t)
    BY <1>3, <2>2, StillIs
  <2>4. q.active.kind # "none" /\ \A i \in q.active.parts : Unsent(Flying(s, w), w, i)
    BY <1>3, <2>2 DEF Known
  <2>5. q.ack = NoAck
    <3>1. PICK i \in q.active.parts : TRUE
      BY <1>3
    <3>2. w.applied[i] = << >>
      BY <2>4, <3>1 DEF Unsent
    <3>3. ~ Arrived(w, i)
      BY <3>2, EmptySeq DEF Arrived
    <3> QED
      BY <2>2, <3>1, <3>3 DEF Known
  <2> QED
    BY <2>1, <2>3, <2>4, <2>5, DispatchJourney
<1> QED
  BY <1>1, <1>2, <1>3

LEMMA AdvanceJourney ==
  ASSUME NEW s, NEW w, Worldly(w), NEW t \in Targets, NEW L, w.loose \subseteq L, Good(s, t, L), Journey(s, w)
  PROVE  Journey(Advance(s, t), w)
<1> DEFINE q == s.queue[t]  F == Flying(s, w)
<1>1. s \in Decks /\ q \in Queues
  BY DeckFields DEF Good, Sound
<1>2. CASE q = NoQueue \/ ~ HasSnap(s) \/ ~ Ready(s)
  BY <1>2 DEF Advance
<1>3. CASE q # NoQueue /\ HasSnap(s) /\ Ready(s) /\ q.active = NoIntent
  <2>1. Advance(s, t) = StartNext(s, t)
    BY <1>3 DEF Advance
  <2> QED
    BY <1>3, <2>1, StartNextJourney
<1>4. CASE q # NoQueue /\ HasSnap(s) /\ Ready(s) /\ q.active # NoIntent /\ Reached(s, q)
  <2> DEFINE z == [q EXCEPT !.active = NoIntent, !.ack = NoAck]
             gone == q.active.parts
             m == Settle([s EXCEPT !.queue[t] = z], gone, "done")
  <2>1. [s EXCEPT !.queue[t].active = NoIntent, !.queue[t].ack = NoAck] = [s EXCEPT !.queue[t] = z]
    BY <1>1 DEF Decks, Queues
  <2>2. Advance(s, t) = StartNext(m, t)
    BY <1>4, <2>1 DEF Advance
  <2>3. z \in Queues /\ z.born = q.born /\ z.active = NoIntent /\ z.waiting = q.waiting /\ z.ack = NoAck
    BY <1>1, Empties DEF Queues
  <2> HIDE DEF z
  <2>4. Drops(q, z, gone)
    <3> DEFINE from == [n \in Places(z) |-> n]
    <3>1. Places(z) = Places(q) /\ 0 \in Places(q)
      BY <1>1, <2>3, QueueFields DEF Places
    <3>2. Place(z, 0) = {} /\ Place(q, 0) = gone /\ \A n \in Places(z) : n # 0 => Place(z, n) = Place(q, n)
      BY <2>3, EmptyQueue DEF Place
    <3>3. \A n \in Places(q) : n # 0 => Place(q, n) \cap Place(q, 0) = {}
      BY <3>1 DEF Good, Tidy
    <3>4. from \in [Places(z) -> Places(q)]
      BY <3>1
    <3> HIDE DEF gone
    <3>5. \A n \in Places(z) : Place(z, n) \subseteq Place(q, n) /\ Place(z, n) \cap gone = {}
      BY <3>1, <3>2, <3>3
    <3>6. \A k \in Places(q) : \A i \in Place(q, k) : i \in gone \/ \E n \in Places(z) : i \in Place(z, n)
      BY <3>1, <3>2
    <3>7. \A i \in gone : \E k \in Places(q) : i \in Place(q, k)
      BY <3>1, <3>2
    <3> QED
      BY <3>4, <3>5, <3>6, <3>7 DEF Drops
  <2>5. Leaves(s, m, t, L) /\ m.queue[t] = z
    <3>1. z \in Queues /\ z.born = s.queue[t].born /\ s.queue[t] # NoQueue
      BY <1>4, <2>3
    <3>2. Drops(s.queue[t], z, gone)
      BY <2>4
    <3>3. "done" \in Codes \cup {"done"}
      OBVIOUS
    <3> HIDE DEF gone
    <3>4. LET e == Settle([s EXCEPT !.queue[t] = z], gone, "done")
          IN  Leaves(s, e, t, L) /\ e.queue[t] = z
      BY <3>1, <3>2, <3>3, DropIs
    <3> QED
      BY <3>4
  <2>6. /\ Quiet(s, m) /\ \A u \in Targets : u # t => m.queue[u] = s.queue[u]
        /\ \A i \in Inputs : m.promise[i] = IF i \in gone /\ s.promise[i] = "open" THEN "done"
                                            ELSE s.promise[i]
    <3> DEFINE e == [s EXCEPT !.queue[t] = z]
    <3>1. /\ e \in Decks /\ Quiet(s, e) /\ e.promise = s.promise
          /\ e.queue[t] = z /\ \A u \in Targets : u # t => e.queue[u] = s.queue[u]
      BY <1>1, <2>3, SetQueueIs
    <3> HIDE DEF e
    <3> DEFINE f == Settle(e, gone, "done")
    <3>2. /\ Quiet(e, f) /\ f.queue = e.queue
          /\ \A i \in Inputs : f.promise[i] = IF i \in gone /\ e.promise[i] = "open" THEN "done"
                                              ELSE e.promise[i]
      <4>1. "done" \in Codes \cup {"done"}
        OBVIOUS
      <4> HIDE DEF gone
      <4> QED
        BY <3>1, <4>1, SettleIs
    <3>3. m = f
      BY DEF e
    <3> HIDE DEF m, f
    <3> QED
      BY <3>1, <3>2, <3>3, QuietGoesOn
  <2> HIDE DEF m
  <2>7. m.queue[t] # NoQueue
    <3>1. q.born \in Inputs
      BY <1>4 DEF Good, Tidy
    <3> QED
      BY <2>3, <2>5, <3>1, EmptyQueue, WireFacts
  <2>8. Trip(s, w, t) /\ Waits(q, F, w, t) /\ Known(q, F, w) /\ q.ack # NoAck
    BY <1>4 DEF Journey, Trip, Reached
  <2>9. Still(s, t)
    BY <1>4, <2>8, StillIs
  <2>10. \A i \in gone : Truly(F, w, i, "done")
    <3>1. "done" \notin NotApplied
      BY DEF NotApplied
    <3> QED
      BY <2>8, <3>1 DEF Known, Truly
  <2>11. \A i \in Inputs : m.promise[i] # s.promise[i] =>
           Given(s.promise[i], m.promise[i]) /\ Truly(F, w, i, m.promise[i])
    BY <2>6, <2>10 DEF Given
  <2>12. Flying(m, w) = F
    BY <2>6, SameFlight DEF Quiet
  <2>13. Waits(z, F, w, t)
    <3>1. Thins(q, z)
      BY <2>4 DEF Drops, Thins
    <3>2. Named(z)
      BY <2>3, <2>8 DEF Waits, Named
    <3> HIDE DEF q, F
    <3> QED
      BY <1>1, <2>3, <2>8, <3>1, <3>2, ThinWaits
  <2>14. Still(m, t)
    BY <2>3, <2>5, <2>6, <2>9 DEF Still, Asked, Replied, Edits, Quiet, Untouched
  <2>15. Trip(m, w, t)
    <3>1. Known(z, F, w)
      BY <2>3 DEF Known, NoIntent
    <3>2. Traced(m, w, t)
      BY <2>14 DEF Traced, Still
    <3> QED
      BY <2>5, <2>12, <2>13, <3>1, <3>2 DEF Trip
  <2>16. Journey(m, w)
    BY <2>6, <2>11, <2>15, JourneyGoesOn
  <2>17. Journey(StartNext(m, t), w)
    BY <2>3, <2>5, <2>7, <2>16, StartNextJourney DEF Leaves
  <2> QED
    BY <2>2, <2>17
<1>5. CASE q # NoQueue /\ HasSnap(s) /\ Ready(s) /\ q.active # NoIntent /\ ~ Reached(s, q)
  <2>1. Advance(s, t) = SendAgain(s, t)
    BY <1>5 DEF Advance
  <2> QED
    BY <1>5, <2>1, SendAgainJourney
<1> QED
  BY <1>2, <1>3, <1>4, <1>5
-----------------------------------------------------------------------------
(* All the queues, and the connection. *)

LEMMA AdvanceAllJourney ==
  ASSUME NEW s, NEW w, Worldly(w), w.loose = {}, AllGood(s), Journey(s, w)
  PROVE  Journey(AdvanceAll(s), w)
<1> DEFINE R == {r \in Decks : AllGood(r) /\ Journey(r, w)}
<1>1. s \in R
  BY DEF AllGood, Sound
<1>2. ASSUME NEW t \in Targets, NEW r \in R
      PROVE  Advance(r, t) \in R
  <2>1. Good(r, t, {}) /\ AllGood(r) /\ Journey(r, w)
    BY DEF AllGood, Good
  <2>2. Leaves(r, Advance(r, t), t, {})
    BY <2>1, AdvanceIs
  <2>3. AllGood(Advance(r, t)) /\ Advance(r, t) \in Decks
    BY <2>1, <2>2, OneMoves DEF Leaves, Good, Sound
  <2>4. Journey(Advance(r, t), w)
    BY <2>1, AdvanceJourney
  <2> QED
    BY <2>3, <2>4
<1> HIDE DEF R
<1>3. AdvanceAll(s) \in R
  BY <1>1, <1>2, AdvancesIn
<1> QED
  BY <1>3 DEF R

(* Fields the journey does not depend on.                                  *)
LEMMA SameJourney ==
  ASSUME NEW s, NEW r, NEW w, Journey(s, w), r.queue = s.queue, r.promise = s.promise, r.pend = s.pend,
         r.seq = s.seq, r.out = s.out, r.answers = s.answers, Opened(r, w)
  PROVE  Journey(r, w)
<1>1. Flying(r, w) = Flying(s, w)
  BY SameFlight
<1>2. Loads(r, w) /\ Honest(r, w)
  BY <1>1 DEF Journey, Loads, Counted, Honest
<1>3. ASSUME NEW t \in Targets
      PROVE  Trip(r, w, t)
  <2>1. Asked(r, t) = Asked(s, t) /\ Replied(r, t) = Replied(s, t)
    BY DEF Asked, Replied
  <2> QED
    BY <1>1, <2>1 DEF Journey, Trip, Traced
<1> QED
  BY <1>2, <1>3 DEF Journey

(* A message without inputs goes: a ping, or a request for the state.      *)
LEMMA PlainJourney ==
  ASSUME NEW s \in Decks, NEW r, NEW w, Worldly(w), Journey(s, w), PendSound(s),
         NEW m, Sends(s, r, m), Parts(m) = {},
         r.queue = s.queue, r.promise = s.promise, r.answers = s.answers,
         r.snap = s.snap, r.synced = s.synced,
         NEW Q, r.pend = s.pend \cup Q,
         \A p, e \in Q : p = e /\ p.id = s.seq + 1 /\ p.op = "requestState"
  PROVE  Journey(r, w)
<1>1. Carries(s, w, m)
  BY DEF Carries
<1>2. Loads(r, w)
  BY <1>1, SendLoads DEF Journey
<1>3. Honest(r, w)
  <2>1. \A i : Unsent(Flying(r, w), w, i) <=> Unsent(Flying(s, w), w, i)
    BY SendIs
  <2> QED
    BY <2>1 DEF Journey, Honest, Truly
<1>4. Opened(r, w)
  BY DEF Journey, Opened, HasSnap
<1>5. ASSUME NEW u \in Targets
      PROVE  Trip(r, w, u)
  <2>1. Trip(s, w, u) /\ Loads(s, w) /\ r.queue[u] = s.queue[u]
    BY DEF Journey
  <2>2. \A p \in Q : p.op = "requestState" \/ p.target # u
    OBVIOUS
  <2> QED
    BY <2>1, <2>2, SendTrip
<1> QED
  BY <1>2, <1>3, <1>4, <1>5 DEF Journey

LEMMA SetStatusJourney ==
  ASSUME NEW s, NEW w, Worldly(w), w.loose = {}, AllGood(s), Journey(s, w), NEW status \in Statuses
  PROVE  Journey(SetStatus(s, status), w)
<1> DEFINE m == [s EXCEPT !.status = status]
<1>1. CASE s.status = status
  BY <1>1 DEF SetStatus
<1>2. CASE s.status # status
  <2>1. s \in Decks
    BY GoodIsTidy
  <2>2. /\ m \in Decks /\ m.seq = s.seq /\ m.snap = s.snap /\ m.synced = s.synced /\ m.out = s.out
        /\ m.queue = s.queue /\ m.promise = s.promise /\ m.pend = s.pend /\ m.answers = s.answers
    BY <2>1 DEF Decks
  <2> HIDE DEF m
  <2>3. AllGood(m)
    BY <2>1, <2>2, DeckFields, OtherFields
  <2>4. Opened(m, w)
    BY <2>2 DEF Journey, Opened, HasSnap
  <2>5. Journey(m, w)
    BY <2>2, <2>4, SameJourney
  <2>6. SetStatus(s, status) = AdvanceAll(m)
    BY <1>2 DEF SetStatus, m
  <2> QED
    BY <2>3, <2>5, <2>6, AdvanceAllJourney
<1> QED
  BY <1>1, <1>2

(* Nothing is open where no queue is.                                      *)
LEMMA NoneOpen ==
  ASSUME NEW s, AllTidy(s), Cleared(s)
  PROVE  \A i \in Inputs : s.promise[i] # "open"
<1> SUFFICES ASSUME NEW i \in Inputs, s.promise[i] = "open" PROVE FALSE
  OBVIOUS
<1>1. Input[i].target \in Targets
  BY WireFacts
<1>2. Tidy(s, Input[i].target, {}, {}) /\ s.queue[Input[i].target] = NoQueue
  BY <1>1 DEF AllTidy, Cleared
<1>3. Places(NoQueue) = {0} /\ Place(NoQueue, 0) = {}
  BY EmptyQueue, EmptySeq DEF Places, Place
<1> QED
  BY <1>2, <1>3 DEF Tidy, Mine

(* A boundary leaves what is on its way and what was told.                 *)
LEMMA BoundaryJourney ==
  ASSUME NEW s, NEW w, AllTidy(s), Loads(s, w), Honest(s, w), s.synced => HasSnap(s),
         w.conn \in w.alive /\ HasSnap(s) => s.snap.inst = w.inst
  PROVE  Journey(Boundary(s), w)
<1> DEFINE code == "STALE_INPUT"
           R == {r \in Decks : AllTidy(r) /\ Quiet(s, r) /\ Honest(r, w)}
           b == Boundary(s)
<1>1. b = Clear(s, code)
  BY DEF Boundary
<1>2. s \in Decks /\ s \in R
  BY DEF AllTidy, Quiet, Untouched
<1>3. ASSUME NEW t \in Targets, NEW r \in R
      PROVE  FailTarget(r, t, code) \in R
  <2> DEFINE e == FailTarget(r, t, code)
  <2>1. code \in Codes
    BY DEF Codes
  <2>2. e \in Decks /\ Works(r, e, t, {}) /\ Tidy(e, t, {}, {}) /\ Quiet(r, e)
    BY <2>1, FailTargetTidies DEF AllTidy
  <2>3. \A i \in Inputs : e.promise[i] # r.promise[i] =>
           e.promise[i] = "STALE_INPUT" /\ Given(r.promise[i], e.promise[i])
    BY <2>1, FailPromises
  <2> HIDE DEF e, code
  <2>4. \A u \in Targets : Tidy(e, u, {}, {})
    BY <2>2, WorkElsewhere DEF AllTidy
  <2>5. Quiet(s, e)
    BY <2>2, QuietGoesOn
  <2>6. Honest(e, w)
    <3>1. Flying(e, w) = Flying(r, w) /\ Honest(r, w)
      BY <2>2, SameFlight DEF Quiet
    <3> QED
      BY <2>3, <3>1, TruthIs DEF Honest, Given
  <2> QED
    BY <2>2, <2>4, <2>5, <2>6 DEF AllTidy, e
<1> HIDE DEF R, code
<1>4. b \in R
  <2> DEFINE D == Targets \X R
  <2>1. \A t \in Targets, r \in R :
           /\ FailTarget(r, t, code) \in R /\ <<t, FailTarget(r, t, code)>> \in D
           /\ \A u \in Targets : u # t /\ <<u, r>> \in D => <<u, FailTarget(r, t, code)>> \in D
    BY <1>3
  <2> HIDE DEF D
  <2>2. Clear(s, code) \in R
    BY <1>2, <2>1, ClearsIn
  <2> QED
    BY <1>1, <2>2
<1>5. AllTidy(b) /\ Quiet(s, b) /\ Cleared(b) /\ Honest(b, w)
  BY <1>4, BoundaryIs DEF R
<1> HIDE DEF b
<1>6. Flying(b, w) = Flying(s, w)
  BY <1>5, SameFlight DEF Quiet
<1>7. Loads(b, w)
  BY <1>5, <1>6 DEF Loads, Counted, Quiet, Untouched
<1>8. Opened(b, w)
  BY <1>5, NoneOpen DEF Opened, Quiet, Untouched, HasSnap
<1>9. \A t \in Targets : Trip(b, w, t)
  BY <1>5, EmptyTrip DEF Cleared
<1> QED
  BY <1>5, <1>7, <1>8, <1>9 DEF Journey, b
-----------------------------------------------------------------------------
(* The state asked for anew, and the boundaries. *)

(* Without a trusted snapshot nothing goes.                                *)
LEMMA NoneGoes ==
  ASSUME NEW s, ~ s.synced
  PROVE  AdvanceAll(s) = s
<1>1. \A t \in Targets, r \in {s} : Advance(r, t) \in {s}
  BY DEF Advance, Ready
<1>2. AdvanceAll(s) \in {s}
  BY <1>1, AdvancesIn
<1> QED
  BY <1>2

LEMMA RequestStateJourney ==
  ASSUME NEW s, NEW w, Worldly(w), AllGood(s), Journey(s, w)
  PROVE  Journey(RequestState(s), w)
<1> DEFINE id == s.seq + 1
           m == [s EXCEPT !.synced = FALSE, !.resync = id]
           checking == SetStatus(m, "checking")
           p == [id |-> id, op |-> "requestState"]
           r == Issue(checking, p, StateRequest(id))
<1>1. s \in Decks /\ s.seq \in Nat /\ PendSound(s)
  BY GoodIsTidy, DeckFields
<1>2. CASE s.conn = 0 \/ ~ s.hello \/ s.resync # 0
  BY <1>2 DEF RequestState
<1>3. CASE ~ (s.conn = 0 \/ ~ s.hello \/ s.resync # 0)
  <2>1. RequestState(s) = r
    BY <1>3 DEF RequestState
  <2>2. /\ m \in Decks /\ m.seq = s.seq /\ m.out = s.out /\ m.snap = s.snap
        /\ m.queue = s.queue /\ m.promise = s.promise /\ m.pend = s.pend /\ m.answers = s.answers
    <3>1. id \in Nat
      BY <1>1
    <3> HIDE DEF id
    <3> QED
      BY <1>1, <3>1 DEF Decks
  <2>3. ~ m.synced
    <3>1. m.synced = FALSE
      BY <1>1 DEF Decks
    <3> QED
      BY <3>1
  <2> HIDE DEF m
  <2>4. /\ checking \in Decks /\ checking.seq = s.seq /\ checking.out = s.out /\ checking.snap = s.snap
        /\ checking.queue = s.queue /\ checking.promise = s.promise /\ checking.pend = s.pend
        /\ checking.answers = s.answers /\ checking.synced = m.synced
    <3>1. CASE m.status = "checking"
      BY <2>2, <3>1 DEF SetStatus
    <3>2. CASE m.status # "checking"
      <4> DEFINE n == [m EXCEPT !.status = "checking"]
      <4>1. /\ n \in Decks /\ n.seq = m.seq /\ n.out = m.out /\ n.snap = m.snap
            /\ n.queue = m.queue /\ n.promise = m.promise /\ n.pend = m.pend
            /\ n.answers = m.answers /\ n.synced = m.synced
        BY <2>2 DEF Decks, Statuses
      <4> HIDE DEF n
      <4>2. AdvanceAll(n) = n
        BY <2>3, <4>1, NoneGoes
      <4>3. checking = AdvanceAll(n)
        BY <3>2 DEF SetStatus, n
      <4> QED
        BY <2>2, <4>1, <4>2, <4>3
    <3> QED
      BY <3>1, <3>2
  <2> HIDE DEF checking
  <2>5. Opened(checking, w)
    BY <2>3, <2>4 DEF Journey, Opened, HasSnap
  <2>6. Journey(checking, w)
    BY <2>4, <2>5, SameJourney
  <2>7. PendSound(checking)
    BY <1>1, <2>4 DEF PendSound
  <2>8. p \in StateRequests /\ StateRequest(id) \in UpMessages
    BY <1>1 DEF StateRequests, StateRequest, UpMessages
  <2>9. /\ Untouched(checking, r) /\ r.queue = checking.queue /\ r.promise = checking.promise
        /\ r.seq = checking.seq + 1 /\ r.pend = checking.pend \cup {p}
        /\ r.out = Append(checking.out, StateRequest(id))
    BY <2>4, <2>8, IssueIs
  <2>10. /\ StateRequest(id).type = "command" /\ StateRequest(id).op = "requestState"
         /\ StateRequest(id).id = id
    BY DEF StateRequest
  <2>11. Sends(checking, r, StateRequest(id))
    BY <2>4, <2>8, <2>9, <2>10 DEF Sends
  <2>12. Parts(StateRequest(id)) = {}
    BY <2>10 DEF Parts
  <2>13. \A e, f \in {p} : e = f /\ e.id = checking.seq + 1 /\ e.op = "requestState"
    BY <2>4
  <2>14. /\ r.answers = checking.answers /\ r.snap = checking.snap /\ r.synced = checking.synced
    BY <2>9 DEF Untouched
  <2> HIDE DEF r, p
  <2>15. Journey(r, w)
    BY <2>4, <2>6, <2>7, <2>9, <2>11, <2>12, <2>13, <2>14, PlainJourney
  <2> QED
    BY <2>1, <2>15
<1> QED
  BY <1>2, <1>3

(* What was out is answered with a code: what is on its way is as it was.  *)
LEMMA CancelledJourney ==
  ASSUME NEW s, NEW w, AllTidy(s), PendSound(s), \A a \in s.answers : s.promise[a.born] # "new",
         NEW code \in Reasons
  PROVE  LET r == CancelPending(s, code)
         IN  /\ Flying(r, w) = Flying(s, w) /\ r.synced = s.synced
             /\ Loads(s, w) => Loads(r, w)
             /\ Honest(s, w) => Honest(r, w)
             /\ Opened(s, w) => Opened(r, w)
             /\ \A t \in Targets : Asked(r, t) = {}
             /\ \A t \in Targets : Replied(r, t) =
                   Replied(s, t) \cup {Answer(p, code, NoAck) : p \in Asked(s, t)}
<1> DEFINE told == {Answer(p, code, NoAck) : p \in Edits(s.pend)}
           r == CancelPending(s, code)
<1>1. s \in Decks
  BY DEF AllTidy
<1>2. r = [s EXCEPT !.answers = s.answers \cup told, !.pend = {}]
  BY <1>1 DEF CancelPending, Decks
<1> HIDE DEF told
<1>3. /\ r.answers = s.answers \cup told /\ r.pend = {} /\ r.queue = s.queue
      /\ r.promise = s.promise /\ r.seq = s.seq /\ r.out = s.out /\ r.snap = s.snap /\ r.synced = s.synced
  <2>1. s.answers \cup told \subseteq Replies \/ TRUE
    OBVIOUS
  <2> QED
    BY <1>1, <1>2 DEF Decks
<1> HIDE DEF r
<1>4. Flying(r, w) = Flying(s, w)
  BY <1>3, SameFlight
<1>5. Loads(s, w) => Loads(r, w)
  BY <1>3, <1>4 DEF Loads, Counted
<1>6. Honest(s, w) => Honest(r, w)
  BY <1>3, <1>4 DEF Honest
<1>7. Opened(s, w) => Opened(r, w)
  BY <1>3 DEF Opened, HasSnap
<1>8. ASSUME NEW t \in Targets
      PROVE  /\ Asked(r, t) = {}
             /\ Replied(r, t) = Replied(s, t) \cup {Answer(p, code, NoAck) : p \in Asked(s, t)}
  <2>1. Asked(r, t) = {}
    BY <1>3 DEF Asked, Edits
  <2>2. \A p \in Edits(s.pend) : /\ Answer(p, code, NoAck).target = p.target
                                 /\ Answer(p, code, NoAck).born = p.born
    BY DEF Answer
  <2>3. {a \in told : a.target = t /\ a.born = s.queue[t].born}
          = {Answer(p, code, NoAck) : p \in Asked(s, t)}
    BY <2>2 DEF Asked, told
  <2> QED
    BY <1>3, <2>1, <2>3 DEF Replied
<1> QED
  BY <1>3, <1>4, <1>5, <1>6, <1>7, <1>8 DEF r

(* With a code that promises nothing the queues may go on.                 *)
LEMMA SafelyCancelledJourney ==
  ASSUME NEW s, NEW w, Fine(s), Journey(s, w),
         NEW code \in Reasons, code \notin NotApplied \cup {"done", "STATE_TIMEOUT", "ack"}
  PROVE  Journey(CancelPending(s, code), w)
<1> DEFINE r == CancelPending(s, code)
<1>1. AllTidy(s) /\ PendSound(s) /\ \A a \in s.answers : s.promise[a.born] # "new"
  BY FineIs DEF AnswersSound
<1>2. /\ Flying(r, w) = Flying(s, w)
      /\ Loads(r, w) /\ Honest(r, w) /\ Opened(r, w)
      /\ \A t \in Targets : Asked(r, t) = {}
      /\ \A t \in Targets : Replied(r, t) =
            Replied(s, t) \cup {Answer(p, code, NoAck) : p \in Asked(s, t)}
  BY <1>1, CancelledJourney DEF Journey
<1>3. r.queue = s.queue
  BY <1>1, CancelPendingIs DEF AllTidy
<1> HIDE DEF r
<1>4. ASSUME NEW t \in Targets
      PROVE  Trip(r, w, t)
  <2> DEFINE F == Flying(s, w)  q == s.queue[t]
  <2>1. Waits(q, F, w, t) /\ Known(q, F, w) /\ (q # NoQueue => Traced(s, w, t))
    BY DEF Journey, Trip
  <2>2. ASSUME q # NoQueue
        PROVE  Traced(r, w, t)
    <3>1. Traced(s, w, t)
      BY <2>1, <2>2
    <3>2. \A p \in Asked(s, t) : Answer(p, code, NoAck).code = code
      BY DEF Answer
    <3>3. \A i : Truly(F, w, i, code)
      BY TruthIs
    <3>4. \A a \in Replied(r, t) : \A i \in q.active.parts : Truly(F, w, i, a.code)
      BY <1>2, <3>1, <3>2, <3>3 DEF Traced
    <3>5. \A a, b \in Replied(r, t) : a = b
      BY <1>2, <3>1 DEF Traced
    <3>6. Replied(r, t) # {} =>
            q.active.kind # "none" /\ ~ q.active.retrying /\ q.ack = NoAck
      BY <1>2, <3>1 DEF Traced
    <3> HIDE DEF F, q
    <3> QED
      BY <1>2, <1>3, <3>4, <3>5, <3>6 DEF Traced, F, q
  <2> QED
    BY <1>2, <1>3, <2>1, <2>2 DEF Trip
<1> QED
  BY <1>2, <1>4 DEF Journey, r

(* The store is emptied, the connection is given up.                       *)
LEMMA ResetStoreJourney ==
  ASSUME NEW s, NEW w, AllTidy(s), PendSound(s), \A a \in s.answers : s.promise[a.born] # "new",
         Loads(s, w), Honest(s, w)
  PROVE  Journey(ResetStore(s), w) /\ ~ ResetStore(s).synced
<1> DEFINE m == [s EXCEPT !.snap = NoSnap, !.synced = FALSE]
           r == Boundary(m)
<1>1. NoSnap \in Snaps /\ s \in Decks
  BY WireFacts DEF NoSnap, Snaps, Values, AllTidy
<1>2. /\ m \in Decks /\ m.snap = NoSnap /\ m.seq = s.seq /\ m.out = s.out
      /\ m.queue = s.queue /\ m.promise = s.promise /\ m.pend = s.pend /\ m.answers = s.answers
  BY <1>1 DEF Decks
<1>3. ~ m.synced
  <2>1. m.synced = FALSE
    BY <1>1 DEF Decks
  <2> QED
    BY <2>1
<1> HIDE DEF m
<1>4. AllTidy(m)
  BY <1>2 DEF AllTidy, Tidy, Mine
<1>5. Flying(m, w) = Flying(s, w)
  BY <1>2, SameFlight
<1>6. Loads(m, w) /\ Honest(m, w)
  BY <1>2, <1>5 DEF Loads, Counted, Honest
<1>7. ~ HasSnap(m)
  BY <1>2 DEF HasSnap
<1>8. Journey(r, w)
  BY <1>3, <1>4, <1>6, <1>7, BoundaryJourney
<1>9. Quiet(m, r)
  BY <1>4, BoundaryIs
<1>10. ResetStore(s) = r
  BY DEF ResetStore, m
<1> QED
  BY <1>3, <1>8, <1>9, <1>10 DEF Quiet, Untouched

LEMMA CloseJourney ==
  ASSUME NEW s, NEW w, AllTidy(s), PendSound(s), \A a \in s.answers : s.promise[a.born] # "new",
         Loads(s, w), Honest(s, w), NEW code \in Reasons
  PROVE  Journey(Close(s, code), w)
<1> DEFINE c == CancelPending(s, code)
           m == ResetStore(c)
           r == [m EXCEPT !.conn = 0, !.hello = FALSE, !.status = "disconnected",
                          !.resync = 0, !.ping = 0, !.pinging = FALSE, !.fault = code]
<1>1. /\ c \in Decks /\ AllTidy(c) /\ PendSound(c)
      /\ \A a \in c.answers : c.promise[a.born] # "new"
  BY CancelPendingIs DEF AllTidy
<1>2. Loads(c, w) /\ Honest(c, w)
  BY CancelledJourney
<1> HIDE DEF c
<1>3. Journey(m, w) /\ ~ m.synced
  BY <1>1, <1>2, ResetStoreJourney
<1>4. AllGood(m) /\ m.snap = NoSnap
  BY <1>1, ResetStoreIs
<1>5. m \in Decks
  BY <1>4, GoodIsTidy
<1> HIDE DEF m
<1>6. /\ r.queue = m.queue /\ r.promise = m.promise /\ r.pend = m.pend /\ r.synced = m.synced
      /\ r.answers = m.answers /\ r.seq = m.seq /\ r.snap = m.snap /\ r.out = m.out
  BY <1>5 DEF Decks
<1> HIDE DEF r
<1>7. Opened(r, w)
  BY <1>3, <1>4, <1>6 DEF Journey, Opened, HasSnap
<1>8. Journey(r, w)
  BY <1>3, <1>6, <1>7, SameJourney
<1>9. Close(s, code) = r
  BY DEF Close, r, m, c
<1> QED
  BY <1>8, <1>9

LEMMA FineCloseJourney ==
  ASSUME NEW s, NEW w, Fine(s), Journey(s, w), NEW code \in Reasons
  PROVE  Journey(Close(s, code), w)
BY FineIs, CloseJourney DEF AnswersSound, Journey

-----------------------------------------------------------------------------
(* What arrives. *)

Fares(s, w) == Fine(s) /\ Journey(s, w)

LEMMA FieldsFare ==
  ASSUME NEW s, NEW w, Fares(s, w), NEW r \in Decks, r.queue = s.queue, r.promise = s.promise,
         r.pend = s.pend, r.answers = s.answers, r.seq = s.seq, r.out = s.out,
         r.resync \in {s.resync, 0}, r.ping \in {s.ping, 0}, Opened(r, w)
  PROVE  Fares(r, w)
<1>1. s.seq \in Nat
  BY FineIs, DeckFields DEF Fares
<1>2. Fine(r)
  BY <1>1, FieldsAreFine DEF Fares
<1> QED
  BY <1>2, SameJourney DEF Fares

LEMMA RequestFares ==
  ASSUME NEW s, NEW w, Worldly(w), Fares(s, w)
  PROVE  Fares(RequestState(s), w)
BY FineIs, RequestStateIs, RequestStateJourney DEF Fares

LEMMA CloseFares ==
  ASSUME NEW s, NEW w, Fares(s, w), NEW code \in Reasons
  PROVE  Fares(Close(s, code), w)
BY FineToClose, FineCloseJourney DEF Fares

(* A snapshot that is no longer trusted.                                   *)
LEMMA DoubtFares ==
  ASSUME NEW s, NEW w, Worldly(w), Fares(s, w)
  PROVE  Fares(RequestState([s EXCEPT !.synced = FALSE]), w)
<1> DEFINE r == [s EXCEPT !.synced = FALSE]
<1>1. s \in Decks
  BY FineIs DEF Fares
<1>2. /\ r \in Decks /\ r.queue = s.queue /\ r.promise = s.promise /\ r.pend = s.pend
      /\ r.answers = s.answers /\ r.seq = s.seq /\ r.out = s.out
      /\ r.resync = s.resync /\ r.ping = s.ping /\ r.snap = s.snap
  BY <1>1 DEF Decks
<1>3. ~ r.synced
  <2>1. r.synced = FALSE
    BY <1>1 DEF Decks
  <2> QED
    BY <2>1
<1> HIDE DEF r
<1>4. Opened(r, w)
  BY <1>2, <1>3 DEF Fares, Journey, Opened, HasSnap
<1>5. Fares(r, w)
  BY <1>2, <1>4, FieldsFare
<1> QED
  BY <1>5, RequestFares DEF r

(* A message as it may arrive.                                             *)
Arrives(w, m) ==
  /\ m \in DownMessages /\ (m.type \in {"ack", "error"} => m \in w.heard)
  /\ m.type = "state" => m.inst # 0 /\ (w.conn \in w.alive => m.inst = w.inst)

LEMMA AcceptStateJourney ==
  ASSUME NEW s, NEW w, Worldly(w), w.loose = {}, Fares(s, w), NEW m \in States, Arrives(w, m)
  PROVE  Journey(AcceptState(s, m), w)
<1> DEFINE known == HasSnap(s)
           s1 == IF known /\ s.snap.session # m.session THEN CancelPending(s, "SESSION_CHANGED") ELSE s
           cross == known /\ (s.snap.inst # m.inst \/ s.snap.session # m.session)
           s2 == IF cross THEN Boundary(s1) ELSE s1
           n == [s2 EXCEPT !.synced = TRUE, !.snap = SnapOf(m)]
           s3 == AdvanceAll(n)
           old == [s1 EXCEPT !.synced = FALSE]
           last == [s3 EXCEPT !.resync = 0, !.pinging = TRUE]
<1>1. Fares(s1, w) /\ s1.snap = s.snap /\ s1.promise = s.promise
  <2>1. CASE known /\ s.snap.session # m.session
    <3>1. "SESSION_CHANGED" \in Codes /\ "SESSION_CHANGED" \in Reasons
      BY DEF Codes, Reasons
    <3>2. Fine(s1) /\ Same(s, s1)
      BY <2>1, <3>1, CancelledIsFine DEF Fares
    <3>3. Journey(s1, w)
      BY <2>1, <3>1, SafelyCancelledJourney, TruthIs DEF Fares
    <3>4. s1.promise = s.promise
      BY <2>1, FineIs, DeckFields DEF Fares, CancelPending, Decks
    <3> QED
      BY <3>2, <3>3, <3>4 DEF Fares, Same
  <2>2. CASE ~ (known /\ s.snap.session # m.session)
    BY <2>2
  <2> QED
    BY <2>1, <2>2
<1> HIDE DEF s1
<1>2. Fares(s2, w) /\ s2.snap = s.snap
      /\ \A i \in Inputs : s2.promise[i] = "open" =>
            w.pressed[i].inst = m.inst /\ w.pressed[i].session = m.session /\ w.pressed[i].conn = w.conn
  <2>1. Opened(s1, w)
    BY <1>1 DEF Fares, Journey
  <2>2. CASE cross
    <3>1. Fine(s2) /\ Same(s1, s2)
      BY <1>1, <2>2, BoundaryIsFine DEF Fares
    <3>2. AllTidy(s1) /\ Loads(s1, w) /\ Honest(s1, w)
      BY <1>1, FineIs DEF Fares, Journey
    <3>3. Journey(s2, w)
      BY <2>1, <2>2, <3>2, BoundaryJourney DEF Opened
    <3>4. AllTidy(s2) /\ Cleared(s2)
      BY <2>2, <3>2, BoundaryIs
    <3>5. \A i \in Inputs : s2.promise[i] # "open"
      BY <3>4, NoneOpen
    <3> QED
      BY <1>1, <3>1, <3>3, <3>5 DEF Fares, Same
  <2>3. CASE ~ cross
    <3>1. s2 = s1
      BY <2>3
    <3>2. \A i \in Inputs : s1.promise[i] = "open" => known
      BY <1>1, <2>1 DEF Opened, HasSnap
    <3> QED
      BY <1>1, <2>1, <2>3, <3>1, <3>2 DEF Opened
  <2> QED
    BY <2>2, <2>3
<1> HIDE DEF s2, cross
<1>3. Fares(n, w) /\ n.synced = TRUE
  <2>1. s2 \in Decks /\ s2.seq \in Nat /\ SnapOf(m) \in Snaps
    BY <1>2, FineIs, DeckFields, SnapOfIs DEF Fares
  <2> DEFINE snap == SnapOf(m)
  <2> HIDE DEF snap
  <2>2. [s2 EXCEPT !.synced = TRUE, !.snap = snap] \in Decks
    BY <2>1 DEF Decks, snap
  <2>3. /\ n \in Decks /\ n.queue = s2.queue /\ n.promise = s2.promise /\ n.pend = s2.pend
        /\ n.answers = s2.answers /\ n.seq = s2.seq /\ n.resync = s2.resync /\ n.ping = s2.ping
        /\ n.out = s2.out /\ n.snap = snap
    BY <2>1, <2>2 DEF Decks, snap
  <2>4. n.synced = TRUE
    BY <2>1 DEF Decks
  <2> HIDE DEF n
  <2>5. snap.inst = m.inst /\ snap.session = m.session /\ snap # NoSnap
    <3>1. snap.inst = m.inst /\ snap.session = m.session
      BY DEF snap, SnapOf
    <3>2. NoSnap.inst = 0 /\ m.inst # 0
      BY DEF NoSnap, Arrives, States
    <3> QED
      BY <3>1, <3>2
  <2>6. w.conn \in w.alive => m.inst = w.inst
    BY DEF Arrives, States
  <2>7. Opened(n, w)
    BY <1>2, <2>3, <2>5, <2>6 DEF Opened, HasSnap
  <2> QED
    BY <1>2, <2>3, <2>4, <2>7, FieldsFare
<1> HIDE DEF n
<1>4. Fares(s3, w)
  <2>1. AllGood(n) /\ Fine(n)
    BY <1>3, FineIs DEF Fares
  <2> QED
    BY <1>3, <2>1, AdvanceAllIsFine, AdvanceAllJourney DEF Fares
<1> HIDE DEF s3
<1>5. Fares(RequestState(old), w)
  BY <1>1, DoubtFares
<1>6. Journey(SetStatus(last, "ready"), w)
  <2>1. s3 \in Decks /\ s3.seq \in Nat
    BY <1>4, FineIs, DeckFields DEF Fares
  <2>2. /\ last \in Decks /\ last.queue = s3.queue /\ last.promise = s3.promise /\ last.pend = s3.pend
        /\ last.answers = s3.answers /\ last.seq = s3.seq /\ last.resync = 0
        /\ last.ping = s3.ping /\ last.out = s3.out /\ last.snap = s3.snap /\ last.synced = s3.synced
    BY <2>1 DEF Decks
  <2> HIDE DEF last
  <2>3. Opened(last, w)
    BY <1>4, <2>2 DEF Fares, Journey, Opened, HasSnap
  <2>4. Fares(last, w)
    BY <1>4, <2>2, <2>3, FieldsFare
  <2>5. AllGood(last) /\ "ready" \in Statuses
    BY <2>4, FineIs DEF Fares, Statuses
  <2> QED
    BY <2>4, <2>5, SetStatusJourney DEF Fares
<1> HIDE DEF old, last
<1>7. AcceptState(s, m) \in {RequestState(old), s3, SetStatus(last, "ready")}
  BY DEF AcceptState, SnapOf, old, last, s3, n, s2, s1, cross
<1> QED
  BY <1>4, <1>5, <1>6, <1>7 DEF Fares

LEMMA AcceptDeltaJourney ==
  ASSUME NEW s, NEW w, Worldly(w), w.loose = {}, Fares(s, w), NEW m \in Deltas, HasSnap(s)
  PROVE  Journey(AcceptDelta(s, m), w)
<1> DEFINE old == [s EXCEPT !.synced = FALSE]
           snap == Overlaid(s.snap, m)
           n == [s EXCEPT !.snap = snap]
<1>1. s \in Decks /\ s.seq \in Nat /\ s.snap \in Snaps
  BY FineIs, DeckFields DEF Fares
<1>2. CASE ~ Continues(s, m)
  <2>1. AcceptDelta(s, m) = RequestState(old)
    BY <1>2 DEF AcceptDelta
  <2> QED
    BY <2>1, DoubtFares DEF Fares
<1>3. CASE Continues(s, m)
  <2>1. snap \in Snaps /\ snap.inst = s.snap.inst /\ snap.session = s.snap.session /\ snap.rev = m.rev
    BY <1>1, OverlaidIs DEF Overlaid, Snaps
  <2>2. n = [s EXCEPT !.snap.rev = m.rev,
                      !.snap.val = [t \in Targets |-> IF t \in DOMAIN m.changes
                                                      THEN m.changes[t] ELSE @[t]]]
    BY <1>1 DEF Decks, Snaps, Overlaid
  <2>3. AcceptDelta(s, m) = AdvanceAll(n)
    BY <1>3, <2>2 DEF AcceptDelta
  <2> HIDE DEF snap
  <2>4. /\ n \in Decks /\ n.queue = s.queue /\ n.promise = s.promise /\ n.pend = s.pend
        /\ n.answers = s.answers /\ n.seq = s.seq /\ n.resync = s.resync
        /\ n.ping = s.ping /\ n.out = s.out /\ n.snap = snap /\ n.synced = s.synced
    BY <1>1, <2>1 DEF Decks
  <2> HIDE DEF n
  <2>5. snap # NoSnap
    <3>1. m.base \in Nat /\ m.rev \in Nat /\ m.rev > m.base
      BY <1>3 DEF Deltas, Continues
    <3>2. NoSnap.rev = 0 /\ snap.rev # 0
      BY <2>1, <3>1 DEF NoSnap
    <3> QED
      BY <3>2
  <2>6. Opened(n, w)
    BY <2>1, <2>4, <2>5 DEF Fares, Journey, Opened, HasSnap
  <2>7. Fares(n, w)
    BY <2>4, <2>6, FieldsFare
  <2>8. AllGood(n)
    BY <2>7, FineIs DEF Fares
  <2> QED
    BY <2>3, <2>7, <2>8, AdvanceAllJourney DEF Fares
<1> QED
  BY <1>2, <1>3

LEMMA AcceptPongJourney ==
  ASSUME NEW s, NEW w, Worldly(w), Fares(s, w), NEW m
  PROVE  Journey(AcceptPong(s, m), w)
<1> DEFINE s1 == [s EXCEPT !.ping = 0]
<1>1. s \in Decks
  BY FineIs DEF Fares
<1>2. /\ s1 \in Decks /\ s1.queue = s.queue /\ s1.promise = s.promise /\ s1.pend = s.pend
      /\ s1.answers = s.answers /\ s1.seq = s.seq /\ s1.resync = s.resync
      /\ s1.ping = 0 /\ s1.out = s.out /\ s1.snap = s.snap /\ s1.synced = s.synced
  BY <1>1 DEF Decks
<1>3. AcceptPong(s, m) \in {Close(s, "UNEXPECTED_PONG"), RequestState(s1), s1}
  BY DEF AcceptPong
<1> HIDE DEF s1
<1>4. Opened(s1, w)
  BY <1>2 DEF Fares, Journey, Opened, HasSnap
<1>5. Fares(s1, w)
  BY <1>2, <1>4, FieldsFare
<1>6. Fares(RequestState(s1), w)
  BY <1>5, RequestFares
<1>7. Fares(Close(s, "UNEXPECTED_PONG"), w)
  BY CloseFares DEF Reasons
<1> QED
  BY <1>3, <1>5, <1>6, <1>7 DEF Fares

(* A request that is answered, and told if it was for an input.            *)
LEMMA AnswersJourney ==
  ASSUME NEW s, NEW w, Journey(s, w), NEW r, r.queue = s.queue, r.promise = s.promise,
         r.seq = s.seq, r.out = s.out, r.snap = s.snap, r.synced = s.synced,
         NEW p \in s.pend, r.pend = s.pend \ {p},
         NEW code, NEW ack,
         \/ r.answers = s.answers
         \/ p.op = "edit" /\ r.answers = s.answers \cup {Answer(p, code, ack)},
         \A t \in Targets : p \in Asked(s, t) =>
            \A i \in s.queue[t].active.parts : Truly(Flying(s, w), w, i, code)
  PROVE  Journey(r, w)
<1>1. Flying(r, w) = Flying(s, w)
  BY SameFlight
<1>2. Loads(r, w)
  BY <1>1 DEF Journey, Loads, Counted
<1>3. Honest(r, w) /\ Opened(r, w)
  BY <1>1 DEF Journey, Honest, Opened, HasSnap
<1>4. ASSUME NEW t \in Targets
      PROVE  Trip(r, w, t)
  <2> DEFINE F == Flying(s, w)  q == s.queue[t]  a == Answer(p, code, ack)
  <2>1. Waits(q, F, w, t) /\ Known(q, F, w) /\ (q # NoQueue => Traced(s, w, t))
    BY DEF Journey, Trip
  <2>2. ASSUME q # NoQueue
        PROVE  Traced(r, w, t)
    <3>1. Traced(s, w, t)
      BY <2>1, <2>2
    <3>2. Asked(r, t) = Asked(s, t) \ {p}
      BY DEF Asked, Edits
    <3>3. CASE Replied(r, t) = Replied(s, t)
      BY <1>1, <3>1, <3>2, <3>3 DEF Traced
    <3>4. CASE Replied(r, t) # Replied(s, t)
      <4>1. a.target = p.target /\ a.born = p.born /\ a.code = code
        BY DEF Answer
      <4> HIDE DEF a
      <4>2. r.answers = s.answers \cup {a} /\ p.op = "edit"
        BY <3>4 DEF Replied, a
      <4>3. a.target = t /\ a.born = s.queue[t].born
        BY <3>4, <4>2 DEF Replied
      <4>4. p \in Asked(s, t)
        BY <4>1, <4>2, <4>3 DEF Asked, Edits
      <4>5. Replied(s, t) = {} /\ Asked(r, t) = {} /\ Replied(r, t) = {a}
        <5>1. Replied(s, t) = {} /\ \A e \in Asked(s, t) : e = p
          BY <3>1, <4>4 DEF Traced
        <5> QED
          BY <3>2, <4>2, <4>3, <5>1 DEF Replied
      <4>6. q.active.kind # "none" /\ ~ q.active.retrying /\ q.ack = NoAck
        BY <3>1, <4>4 DEF Traced
      <4>7. \A i \in q.active.parts : Truly(F, w, i, a.code)
        BY <4>1, <4>4
      <4> QED
        BY <1>1, <4>5, <4>6, <4>7 DEF Traced
    <3> QED
      BY <3>3, <3>4
  <2> QED
    BY <1>1, <2>1, <2>2 DEF Trip
<1> QED
  BY <1>2, <1>3, <1>4 DEF Journey

LEMMA AcceptAckJourney ==
  ASSUME NEW s, NEW w, Fares(s, w), NEW s1, Fares(s1, w), s1.queue = s.queue, s1.promise = s.promise,
         s1.seq = s.seq, s1.out = s.out, s1.snap = s.snap, s1.synced = s.synced, s1.answers = s.answers,
         NEW p \in s.pend, s1.pend = s.pend \ {p}, NEW m,
         \A t \in Targets : p \in Asked(s, t) =>
            \A i \in s.queue[t].active.parts : Truly(Flying(s, w), w, i, "ack")
  PROVE  Journey(AcceptAck(s1, p, m), w)
<1> DEFINE ack == [inst |-> s1.snap.inst, session |-> m.session, rev |-> m.rev]
           told == s1.answers \cup {Answer(p, "ack", ack)}
           r == [s1 EXCEPT !.answers = told]
<1>1. s1 \in Decks /\ s \in Decks /\ p \in StateRequests \cup EditRequests
  BY FineIs, DeckFields DEF Fares
<1>2. CASE p.op = "requestState"
  BY <1>2 DEF AcceptAck, Fares
<1>3. CASE p.op # "requestState"
  <2>1. p.op = "edit"
    BY <1>1, <1>3 DEF StateRequests, EditRequests
  <2>2. [s1 EXCEPT !.answers = @ \cup {Answer(p, "ack", ack)}] = r
    BY <1>1 DEF Decks
  <2>3. AcceptAck(s1, p, m) \in {Close(s1, "INVALID_ACK"), r}
    BY <1>3, <2>2 DEF AcceptAck
  <2> HIDE DEF ack
  <2>4. Journey(Close(s1, "INVALID_ACK"), w)
    BY CloseFares DEF Reasons, Fares
  <2>5. /\ r.queue = s1.queue /\ r.promise = s1.promise /\ r.pend = s1.pend /\ r.seq = s1.seq
        /\ r.out = s1.out /\ r.snap = s1.snap /\ r.synced = s1.synced /\ r.answers = told
    <3> HIDE DEF told
    <3> QED
      BY <1>1 DEF Decks
  <2> HIDE DEF r
  <2>6. Journey(r, w)
    BY <2>1, <2>5, AnswersJourney DEF Fares
  <2> QED
    BY <2>3, <2>4, <2>6
<1> QED
  BY <1>2, <1>3

LEMMA AcceptErrorJourney ==
  ASSUME NEW s, NEW w, Worldly(w), Fares(s, w), NEW s1, Fares(s1, w),
         s1.queue = s.queue, s1.promise = s.promise,
         s1.seq = s.seq, s1.out = s.out, s1.snap = s.snap, s1.synced = s.synced, s1.answers = s.answers,
         NEW p \in s.pend, s1.pend = s.pend \ {p}, NEW m \in Errors,
         \A t \in Targets : p \in Asked(s, t) =>
            \A i \in s.queue[t].active.parts : Truly(Flying(s, w), w, i, m.code)
  PROVE  Journey(AcceptError(s1, p, m), w)
<1> DEFINE new == {Answer(e, m.code, NoAck) : e \in Edits({p})}
           told == [s1 EXCEPT !.answers = @ \cup new]
           all == CancelPending(told, m.code)
           reset == ResetStore(all)
<1>1. m.code \in Codes /\ m.code \in Reasons
  BY DEF Errors, Reasons
<1>2. /\ s1 \in Decks /\ s \in Decks /\ p \in StateRequests \cup EditRequests
      /\ p.op = "edit" => s1.promise[p.born] # "new"
  BY FineIs, DeckFields DEF Fares, PendSound
<1>3. new \in SUBSET Replies /\ \A a \in new : s1.promise[a.born] # "new" /\ a.code \in Codes
  <2> SUFFICES ASSUME NEW e \in Edits({p})
               PROVE  LET a == Answer(e, m.code, NoAck)
                      IN  a \in Replies /\ s1.promise[a.born] # "new" /\ a.code \in Codes
    OBVIOUS
  <2>1. e \in EditRequests /\ s1.promise[e.born] # "new"
    BY <1>2 DEF Edits, StateRequests
  <2> QED
    BY <1>1, <2>1, AnswerIs, Empties
<1>4. new = IF p.op = "edit" THEN {Answer(p, m.code, NoAck)} ELSE {}
  BY DEF Edits
<1>5. /\ told.queue = s1.queue /\ told.promise = s1.promise /\ told.pend = s1.pend
      /\ told.seq = s1.seq /\ told.out = s1.out /\ told.snap = s1.snap
      /\ told.synced = s1.synced /\ told.answers = s1.answers \cup new
  <2> HIDE DEF new
  <2> QED
    BY <1>2 DEF Decks
<1>6. Fine(told)
  <2> HIDE DEF new
  <2> QED
    BY <1>3, ToldIsFine DEF Fares
<1> HIDE DEF new, told
<1>7. Fares(told, w)
  <2>1. \/ told.answers = s.answers
        \/ p.op = "edit" /\ told.answers = s.answers \cup {Answer(p, m.code, NoAck)}
    BY <1>4, <1>5
  <2>2. Journey(told, w)
    BY <1>5, <2>1, AnswersJourney DEF Fares
  <2> QED
    BY <1>6, <2>2 DEF Fares
<1>8. Fine(all) /\ Same(told, all)
  BY <1>1, <1>7, CancelledIsFine DEF Fares
<1>9. Loads(all, w) /\ Honest(all, w)
  BY <1>1, <1>7, FineIs, CancelledJourney DEF Fares, Journey, AnswersSound
<1> HIDE DEF all
<1>10. Fares(reset, w)
  <2>1. AllTidy(all) /\ PendSound(all) /\ all \in Decks /\ \A a \in all.answers : all.promise[a.born] # "new"
    BY <1>8, FineIs DEF AnswersSound
  <2>2. /\ AllGood(reset) /\ reset.seq = all.seq /\ reset.resync = all.resync /\ reset.ping = all.ping
    BY <2>1, ResetStoreIs
  <2>3. Fine(reset)
    BY <1>8, <2>2 DEF Fine
  <2>4. Journey(reset, w)
    BY <1>9, <2>1, ResetStoreJourney
  <2> QED
    BY <2>3, <2>4 DEF Fares
<1> HIDE DEF reset
<1>11. Journey(RequestState(reset), w) /\ Journey(RequestState(told), w) /\ Journey(Close(told, m.code), w)
  BY <1>1, <1>7, <1>10, RequestFares, CloseFares DEF Fares
<1>12. AcceptError(s1, p, m) \in {Close(told, m.code), RequestState(reset), RequestState(told), told}
  BY DEF AcceptError, told, new, all, reset
<1> QED
  BY <1>7, <1>11, <1>12 DEF Fares

LEMMA AcceptAnswerJourney ==
  ASSUME NEW s, NEW w, Worldly(w), Fares(s, w), NEW m \in AckMessages \cup Errors, m \in w.heard
  PROVE  Journey(AcceptAnswer(s, m), w)
<1> DEFINE asked == {p \in s.pend : p.id = m.id}
           p  == CHOOSE p \in asked : TRUE
           s1 == [s EXCEPT !.pend = @ \ asked]
<1>1. s \in Decks /\ s.seq \in Nat /\ PendSound(s) /\ s.pend \in SUBSET (StateRequests \cup EditRequests)
  BY FineIs, DeckFields DEF Fares
<1>2. CASE asked = {}
  <2>1. AcceptAnswer(s, m) = Close(s, "UNEXPECTED_RESPONSE")
    BY <1>2 DEF AcceptAnswer
  <2> QED
    BY <2>1, CloseFares DEF Fares, Reasons
<1>3. CASE asked # {}
  <2>1. p \in s.pend /\ p.id = m.id
    BY <1>3
  <2>2. asked = {p}
    <3>1. \A e, f \in s.pend : e.id = f.id => e = f
      BY DEF Fares, Journey, Loads, Counted
    <3> QED
      BY <2>1, <3>1
  <2>3. AcceptAnswer(s, m) = IF m.type = "ack" THEN AcceptAck(s1, p, m) ELSE AcceptError(s1, p, m)
    BY <1>3 DEF AcceptAnswer
  <2> DEFINE rest == s.pend \ {p}
  <2>4. s1 = [s EXCEPT !.pend = rest]
    BY <1>1, <2>2 DEF Decks
  <2> HIDE DEF p, asked
  <2>5. /\ s1 \in Decks /\ s1.queue = s.queue /\ s1.promise = s.promise /\ s1.pend = s.pend \ {p}
        /\ s1.answers = s.answers /\ s1.seq = s.seq /\ s1.resync = s.resync
        /\ s1.ping = s.ping /\ s1.out = s.out /\ s1.snap = s.snap /\ s1.synced = s.synced
    <3>1. rest \in SUBSET (StateRequests \cup EditRequests)
      BY <1>1
    <3> HIDE DEF s1
    <3>2. [s EXCEPT !.pend = rest] \in Decks
      <4> HIDE DEF rest
      <4> QED
        BY <1>1, <3>1 DEF Decks
    <3> QED
      BY <1>1, <2>4, <3>2 DEF Decks
  <2> HIDE DEF s1, rest
  <2>6. \A t \in Targets : p \in Asked(s, t) =>
           \A i \in s.queue[t].active.parts : Truly(Flying(s, w), w, i, CodeOf(m))
    <3> SUFFICES ASSUME NEW t \in Targets, p \in Asked(s, t)
                 PROVE  \A i \in s.queue[t].active.parts : Truly(Flying(s, w), w, i, CodeOf(m))
      OBVIOUS
    <3>1. s.queue[t] # NoQueue
      <4>1. p.born \in Inputs /\ p.born = s.queue[t].born
        BY <1>1, <2>1 DEF Asked, Edits, StateRequests, EditRequests
      <4> QED
        BY <4>1, EmptyQueue, WireFacts
    <3>2. Traced(s, w, t)
      BY <3>1 DEF Fares, Journey, Trip
    <3> QED
      BY <2>1, <3>2 DEF Traced
  <2>7. Fares(s1, w)
    <3>1. Fine(s1)
      BY <1>1, <2>5, FieldsAreFine DEF Fares
    <3>2. Journey(s1, w)
      BY <2>1, <2>5, <2>6, AnswersJourney DEF Fares
    <3> QED
      BY <3>1, <3>2 DEF Fares
  <2>8. CASE m.type = "ack"
    <3>1. CodeOf(m) = "ack"
      BY <2>8 DEF CodeOf
    <3>2. Journey(AcceptAck(s1, p, m), w)
      BY <2>1, <2>5, <2>6, <2>7, <3>1, AcceptAckJourney
    <3> QED
      BY <2>3, <2>8, <3>2
  <2>9. CASE m.type # "ack"
    <3>1. CodeOf(m) = m.code /\ m \in Errors
      BY <2>9 DEF CodeOf, AckMessages, Errors
    <3>2. Journey(AcceptError(s1, p, m), w)
      BY <2>1, <2>5, <2>6, <2>7, <3>1, AcceptErrorJourney
    <3> QED
      BY <2>3, <2>9, <3>2
  <2> QED
    BY <2>8, <2>9
<1> QED
  BY <1>2, <1>3

(* receive()                                                               *)
LEMMA HandleJourney ==
  ASSUME NEW s, NEW w, Worldly(w), w.loose = {}, Fares(s, w), NEW m, Arrives(w, m)
  PROVE  Journey(Handle(s, m), w)
<1> DEFINE closed == {Close(s, "EOF"), Close(s, "HANDSHAKE_FAILED"), Close(s, "INSTANCE_CHANGED"),
                      Close(s, "STATE_REQUIRED"), Close(s, "SERVER_STOPPING")}
           n == [s EXCEPT !.hello = TRUE]
           greeted == SetStatus(n, "checking")
<1>1. \A r \in closed : Journey(r, w)
  BY CloseFares DEF Reasons, Fares
<1>2. Journey(greeted, w)
  <2>1. s \in Decks
    BY FineIs DEF Fares
  <2>2. /\ n \in Decks /\ n.queue = s.queue /\ n.promise = s.promise /\ n.pend = s.pend
        /\ n.answers = s.answers /\ n.seq = s.seq /\ n.resync = s.resync
        /\ n.ping = s.ping /\ n.out = s.out /\ n.snap = s.snap /\ n.synced = s.synced
    BY <2>1 DEF Decks
  <2> HIDE DEF n
  <2>3. Opened(n, w)
    BY <2>2 DEF Fares, Journey, Opened, HasSnap
  <2>4. Fares(n, w)
    BY <2>2, <2>3, FieldsFare
  <2>5. AllGood(n) /\ "checking" \in Statuses
    BY <2>4, FineIs DEF Fares, Statuses
  <2> QED
    BY <2>4, <2>5, SetStatusJourney DEF Fares
<1>3. CASE Handle(s, m) \in closed
  <2> HIDE DEF closed
  <2> QED
    BY <1>1, <1>3
<1>4. CASE Handle(s, m) = greeted
  <2> HIDE DEF greeted
  <2> QED
    BY <1>2, <1>4
<1>5. m \in DownMessages /\ (m.type \in {"ack", "error"} => m \in w.heard)
  BY DEF Arrives
<1>6. ASSUME Handle(s, m) \notin closed, Handle(s, m) # greeted
      PROVE  /\ m.type \in {"state", "stateDelta", "pong", "ack", "error"}
             /\ HasSnap(s) \/ m.type \in {"state", "error"}
             /\ m.type = "state" => Handle(s, m) = AcceptState(s, m)
             /\ m.type = "stateDelta" => Handle(s, m) = AcceptDelta(s, m)
             /\ m.type = "pong" => Handle(s, m) = AcceptPong(s, m)
             /\ m.type \in {"ack", "error"} => Handle(s, m) = AcceptAnswer(s, m)
  <2>1. m.type \in {"helloAck", "serverStatus", "eof", "state", "stateDelta", "pong", "ack", "error"}
    BY <1>5 DEF DownMessages, HelloAck, ServerStatus, EndOfStream, States, Deltas, Pongs, AckMessages, Errors
  <2>2. m.type # "eof" /\ s.hello /\ m.type # "helloAck"
        /\ (HasSnap(s) \/ m.type \in {"serverStatus", "state", "error"})
    BY <1>6 DEF Handle
  <2>3. Handle(s, m) = CASE m.type = "serverStatus"     -> Close(s, "SERVER_STOPPING")
         [] m.type = "state"            -> AcceptState(s, m)
         [] m.type = "stateDelta"       -> AcceptDelta(s, m)
         [] m.type = "pong"             -> AcceptPong(s, m)
         [] m.type \in {"ack", "error"} -> AcceptAnswer(s, m)
    BY <2>2 DEF Handle
  <2>4. m.type # "serverStatus"
    BY <1>6, <2>3
  <2> HIDE DEF closed, greeted
  <2> QED
    BY <2>1, <2>2, <2>3, <2>4
<1>7. /\ m.type = "state" => m \in States
      /\ m.type = "stateDelta" => m \in Deltas
      /\ m.type = "pong" => m \in Pongs
      /\ m.type \in {"ack", "error"} => m \in AckMessages \cup Errors
  BY <1>5 DEF DownMessages, HelloAck, ServerStatus, EndOfStream, States, Deltas, Pongs, AckMessages, Errors
<1> HIDE DEF closed, greeted
<1>8. CASE Handle(s, m) \notin closed /\ Handle(s, m) # greeted
  <2>1. m.type = "state" => Journey(Handle(s, m), w)
    BY <1>6, <1>7, <1>8, AcceptStateJourney
  <2>2. m.type = "stateDelta" => Journey(Handle(s, m), w)
    BY <1>6, <1>7, <1>8, AcceptDeltaJourney
  <2>3. m.type = "pong" => Journey(Handle(s, m), w)
    BY <1>6, <1>7, <1>8, AcceptPongJourney
  <2>4. m.type \in {"ack", "error"} => Journey(Handle(s, m), w)
    BY <1>5, <1>6, <1>7, <1>8, AcceptAnswerJourney
  <2> QED
    BY <1>6, <1>8, <2>1, <2>2, <2>3, <2>4
<1> QED
  BY <1>3, <1>4, <1>8

-----------------------------------------------------------------------------
(* The promises of requests and the timers of the queues. *)

LEMMA SettleJourney ==
  ASSUME NEW s \in Decks, NEW w, Journey(s, w), NEW parts, NEW code \in Codes \cup {"done"},
         \A i \in parts \cap Inputs : Truly(Flying(s, w), w, i, code)
  PROVE  Journey(Settle(s, parts, code), w)
<1> DEFINE r == Settle(s, parts, code)
<1>1. /\ Quiet(s, r) /\ r.queue = s.queue
      /\ \A i \in Inputs : r.promise[i] = IF i \in parts /\ s.promise[i] = "open" THEN code
                                          ELSE s.promise[i]
  BY SettleIs
<1>2. code \notin {"open", "new"}
  BY Empties
<1> HIDE DEF r
<1>3. Flying(r, w) = Flying(s, w)
  BY <1>1, SameFlight DEF Quiet
<1>4. r.pend = s.pend /\ r.out = s.out /\ r.seq = s.seq /\ r.answers = s.answers /\ r.snap = s.snap
      /\ r.synced = s.synced
  BY <1>1 DEF Quiet, Untouched
<1>5. Loads(r, w)
  BY <1>3, <1>4 DEF Loads, Counted, Journey
<1>6. Honest(r, w)
  <2>1. ASSUME NEW i \in Inputs
        PROVE  Truly(Flying(s, w), w, i, r.promise[i]) /\ (r.promise[i] # "new" <=> i \in w.made)
    <3>1. CASE i \in parts /\ s.promise[i] = "open"
      BY <1>1, <1>2, <3>1 DEF Journey, Honest
    <3>2. CASE ~ (i \in parts /\ s.promise[i] = "open")
      BY <1>1, <3>2 DEF Journey, Honest
    <3> QED
      BY <3>1, <3>2
  <2> QED
    BY <1>3, <2>1 DEF Honest
<1>7. Opened(r, w)
  <2>1. \A i \in Inputs : r.promise[i] = "open" => s.promise[i] = "open"
    BY <1>1, <1>2
  <2> QED
    BY <1>4, <2>1 DEF Opened, Journey, HasSnap
<1>8. ASSUME NEW t \in Targets
      PROVE  Trip(r, w, t)
  <2>1. Asked(r, t) = Asked(s, t) /\ Replied(r, t) = Replied(s, t)
    BY <1>1, <1>4 DEF Asked, Replied
  <2> QED
    BY <1>1, <1>3, <2>1 DEF Journey, Trip, Traced
<1> QED
  BY <1>5, <1>6, <1>7, <1>8 DEF Journey, r

(* A queue in other places, or one that has nothing out.                   *)
LEMMA PutJourney ==
  ASSUME NEW s \in Decks, NEW w, Journey(s, w), NEW t \in Targets, s.queue[t] # NoQueue,
         NEW v \in Queues, v.born = s.queue[t].born, Thins(s.queue[t], v), Named(v),
         \/ /\ v.active.parts \subseteq s.queue[t].active.parts
            /\ v.active.retrying = s.queue[t].active.retrying
            /\ v.active.kind = s.queue[t].active.kind /\ v.ack = s.queue[t].ack
         \/ Still(s, t) /\ Known(v, Flying(s, w), w)
  PROVE  Journey([s EXCEPT !.queue[t] = v], w)
<1> DEFINE r == [s EXCEPT !.queue[t] = v]
<1>1. /\ Quiet(s, r) /\ r.promise = s.promise
      /\ r.queue[t] = v /\ \A u \in Targets : u # t => r.queue[u] = s.queue[u]
  BY SetQueueIs
<1> HIDE DEF r
<1>2. s.queue[t] \in Queues /\ Trip(s, w, t)
  BY DeckFields DEF Journey
<1>3. Flying(r, w) = Flying(s, w)
  BY <1>1, SameFlight DEF Quiet
<1>4. Trip(r, w, t)
  <2>1. CASE /\ v.active.parts \subseteq s.queue[t].active.parts
             /\ v.active.retrying = s.queue[t].active.retrying
             /\ v.active.kind = s.queue[t].active.kind /\ v.ack = s.queue[t].ack
    BY <1>1, <1>2, <2>1, TripStays
  <2>2. CASE Still(s, t) /\ Known(v, Flying(s, w), w)
    <3>1. Waits(v, Flying(s, w), w, t)
      BY <1>2, ThinWaits DEF Trip
    <3>2. Asked(r, t) = {} /\ Replied(r, t) = {}
      BY <1>1, <2>2 DEF Still, Asked, Replied, Edits, Quiet, Untouched
    <3>3. Traced(r, w, t)
      BY <3>2 DEF Traced
    <3> QED
      BY <1>1, <1>3, <2>2, <3>1, <3>3 DEF Trip
  <2> QED
    BY <2>1, <2>2
<1> QED
  BY <1>1, <1>4, JourneyGoesOn DEF r

LEMMA ThinIs ==
  ASSUME NEW q, NEW v
  PROVE  /\ Rearranges(q, v) => Thins(q, v)
         /\ \A gone : Drops(q, v, gone) => Thins(q, v)
BY DEF Rearranges, Drops, Thins

(* An answer is taken: it was the one the queue waited for.                *)
LEMMA TakenJourney ==
  ASSUME NEW s, NEW w, Fares(s, w), NEW a \in s.answers
  PROVE  LET m == [s EXCEPT !.answers = @ \ {a}]
         IN  /\ Fares(m, w) /\ m.queue = s.queue /\ m.promise = s.promise
             /\ SameQueue(s.queue[a.target], a) =>
                  /\ Still(m, a.target) /\ s.queue[a.target].active.kind # "none"
                  /\ ~ s.queue[a.target].active.retrying /\ s.queue[a.target].ack = NoAck
                  /\ \A i \in s.queue[a.target].active.parts : Truly(Flying(m, w), w, i, a.code)
<1> DEFINE left == s.answers \ {a}
           m == [s EXCEPT !.answers = left]
           t == a.target
<1>1. s \in Decks /\ s.seq \in Nat /\ s.answers \in SUBSET Replies
  BY FineIs, DeckFields DEF Fares
<1>2. [s EXCEPT !.answers = @ \ {a}] = m
  BY <1>1 DEF Decks
<1>3. left \in SUBSET Replies /\ left \subseteq s.answers /\ t \in Targets
  BY <1>1 DEF Replies
<1>4. /\ m \in Decks /\ m.queue = s.queue /\ m.promise = s.promise /\ m.pend = s.pend
      /\ m.answers = left /\ m.seq = s.seq /\ m.resync = s.resync
      /\ m.ping = s.ping /\ m.out = s.out /\ m.snap = s.snap /\ m.synced = s.synced
  <2> HIDE DEF left
  <2> QED
    BY <1>1, <1>3 DEF Decks
<1> HIDE DEF m
<1>5. Flying(m, w) = Flying(s, w)
  BY <1>4, SameFlight
<1>6. \A u \in Targets : Asked(m, u) = Asked(s, u) /\ Replied(m, u) = Replied(s, u) \ {a}
  BY <1>4 DEF Asked, Replied
<1>7. Fares(m, w)
  <2>1. Fine(m)
    BY <1>1, <1>3, <1>4, FieldsAreFine DEF Fares
  <2>2. Loads(m, w) /\ Honest(m, w) /\ Opened(m, w)
    BY <1>4, <1>5 DEF Fares, Journey, Loads, Counted, Honest, Opened, HasSnap
  <2>3. ASSUME NEW u \in Targets
        PROVE  Trip(m, w, u)
    <3>1. Waits(s.queue[u], Flying(s, w), w, u) /\ Known(s.queue[u], Flying(s, w), w)
          /\ (s.queue[u] # NoQueue => Traced(s, w, u))
      BY DEF Fares, Journey, Trip
    <3>2. Traced(s, w, u) => Traced(m, w, u)
      BY <1>4, <1>5, <1>6 DEF Traced
    <3> QED
      BY <1>4, <1>5, <3>1, <3>2 DEF Trip
  <2> QED
    BY <2>1, <2>2, <2>3 DEF Fares, Journey
<1>8. ASSUME SameQueue(s.queue[t], a)
      PROVE  /\ Still(m, t) /\ s.queue[t].active.kind # "none"
             /\ ~ s.queue[t].active.retrying /\ s.queue[t].ack = NoAck
             /\ \A i \in s.queue[t].active.parts : Truly(Flying(m, w), w, i, a.code)
  <2>1. Traced(s, w, t) /\ a \in Replied(s, t)
    BY <1>3, <1>8 DEF SameQueue, Fares, Journey, Trip, Replied
  <2>2. Asked(s, t) = {} /\ \A b \in Replied(s, t) : b = a
    BY <2>1 DEF Traced
  <2>3. Still(m, t)
    BY <1>3, <1>6, <2>2 DEF Still
  <2> QED
    BY <1>5, <2>1, <2>3 DEF Traced
<1> QED
  BY <1>2, <1>4, <1>7, <1>8

LEMMA AnsweredJourney ==
  ASSUME NEW s, NEW w, Worldly(w), w.loose = {}, Fares(s, w), NEW a \in s.answers
  PROVE  Journey(Answered([s EXCEPT !.answers = @ \ {a}], a), w)
<1> DEFINE m == [s EXCEPT !.answers = @ \ {a}]
           t == a.target
           q == m.queue[t]
           F == Flying(m, w)
           v1 == [q EXCEPT !.ack = a.ack]
           v2 == [q EXCEPT !.active.retries = @ - 1, !.active.retrying = TRUE]
           r1 == [m EXCEPT !.queue[t] = v1]
           r2 == [m EXCEPT !.queue[t] = v2]
<1>1. /\ Fares(m, w) /\ m.queue = s.queue
      /\ SameQueue(q, a) =>
            /\ Still(m, t) /\ q.active.kind # "none" /\ ~ q.active.retrying /\ q.ack = NoAck
            /\ \A i \in q.active.parts : Truly(F, w, i, a.code)
  BY TakenJourney
<1>2. /\ a \in Replies /\ t \in Targets /\ a.ack \in Acks
      /\ a.code \in Codes \cup {"ack"} \/ s.queue[t].born # a.born
  <2>1. a \in Replies /\ (a.code \in Codes \cup {"ack"} \/ s.queue[t].born # a.born)
    BY FineIs, DeckFields DEF Fares, AnswersSound
  <2> QED
    BY <2>1 DEF Replies
<1> HIDE DEF m, F
<1>3. Good(m, t, {}) /\ m \in Decks /\ q \in Queues /\ q.active \in Intents /\ Journey(m, w)
  BY <1>1, <1>2, GoodOne, QueueFields DEF Fares
<1>4. CASE ~ SameQueue(q, a)
  <2>1. Answered(m, a) = m
    BY <1>4 DEF Answered
  <2> QED
    BY <1>3, <2>1 DEF m
<1>5. CASE SameQueue(q, a) /\ a.code = "ack"
  <2>1. Answered(m, a) = Advance(r1, t)
    <3>1. [m EXCEPT !.queue[t].ack = a.ack] = r1
      BY <1>3 DEF Decks
    <3> QED
      BY <1>5, <3>1 DEF Answered
  <2>2. v1 \in Queues /\ v1.born = q.born /\ v1.waiting = q.waiting /\ v1.active = q.active
    BY <1>2, <1>3 DEF Queues
  <2>3. Rearranges(q, v1)
    <3>1. Places(v1) = Places(q) /\ \A n \in Places(q) : Place(v1, n) = Place(q, n)
      BY <2>2 DEF Places, Place
    <3> QED
      BY <3>1, SamePlaces
  <2>4. q # NoQueue
    BY <1>5 DEF SameQueue
  <2> HIDE DEF v1
  <2>5. Good(r1, t, {})
    BY <1>2, <1>3, <2>2, <2>3, <2>4, ReplaceIs DEF Leaves
  <2>6. Named(v1)
    BY <1>2, <1>3, <2>2, NamedIs DEF Journey, Named
  <2>7. Known(v1, F, w)
    BY <1>1, <1>5, <2>2 DEF Known, Truly
  <2>8. Thins(q, v1) /\ Still(m, t)
    BY <1>1, <1>5, <2>3, ThinIs
  <2>9. Journey(r1, w)
    BY <1>2, <1>3, <2>2, <2>4, <2>6, <2>7, <2>8, PutJourney DEF F
  <2> HIDE DEF r1, t
  <2>10. Journey(Advance(r1, t), w)
    BY <1>2, <2>5, <2>9, AdvanceJourney
  <2> QED
    BY <2>1, <2>10 DEF m
<1>6. CASE SameQueue(q, a) /\ a.code = "REVISION_CONFLICT" /\ q.active.retries > 0 /\ q.active.parts # {}
  <2>1. Answered(m, a) = Advance(r2, t)
    <3>1. [m EXCEPT !.queue[t].active.retries = @ - 1, !.queue[t].active.retrying = TRUE] = r2
      <4> DEFINE A == [q EXCEPT !.active.retries = @ - 1]
                 e == [m EXCEPT !.queue[t] = A]
      <4>1. [m EXCEPT !.queue[t].active.retries = @ - 1] = e
        BY <1>3 DEF Decks
      <4>2. e.queue[t] = A /\ [e EXCEPT !.queue[t].active.retrying = TRUE]
                              = [e EXCEPT !.queue[t] = [A EXCEPT !.active.retrying = TRUE]]
        <5> HIDE DEF A
        <5> QED
          BY <1>2, <1>3 DEF Decks
      <4>3. v2 = [A EXCEPT !.active.retrying = TRUE]
        OBVIOUS
      <4> HIDE DEF A, v2
      <4>4. [e EXCEPT !.queue[t] = v2] = r2
        BY <1>2, <1>3 DEF Decks
      <4> HIDE DEF e
      <4> QED
        BY <4>1, <4>2, <4>3, <4>4
    <3> QED
      BY <1>6, <3>1 DEF Answered
  <2>2. /\ v2 \in Queues /\ v2.born = q.born /\ v2.waiting = q.waiting /\ v2.active.parts = q.active.parts
        /\ v2.active.kind = q.active.kind /\ v2.ack = q.ack
    <3> DEFINE x == [q.active EXCEPT !.retries = @ - 1, !.retrying = TRUE]
    <3>1. x \in Intents /\ x.parts = q.active.parts /\ x.kind = q.active.kind
      <4> DEFINE less == q.active.retries - 1
      <4>1. less \in Nat
        BY <1>3, <1>6 DEF Intents
      <4>2. x = [q.active EXCEPT !.retries = less, !.retrying = TRUE]
        BY <1>3 DEF Intents
      <4> HIDE DEF less, x
      <4> QED
        BY <1>3, <4>1, <4>2 DEF Intents
    <3>2. v2 = [q EXCEPT !.active = x]
      BY <1>3 DEF Queues, Intents
    <3> HIDE DEF x
    <3> QED
      BY <1>3, <3>1, <3>2 DEF Queues
  <2>3. Rearranges(q, v2)
    <3>1. Places(v2) = Places(q) /\ \A n \in Places(q) : Place(v2, n) = Place(q, n)
      <4> HIDE DEF v2
      <4> QED
        BY <2>2 DEF Places, Place
    <3> QED
      BY <3>1, SamePlaces
  <2>4. q # NoQueue
    BY <1>6 DEF SameQueue
  <2> HIDE DEF v2
  <2>5. Good(r2, t, {})
    BY <1>2, <1>3, <2>2, <2>3, <2>4, ReplaceIs DEF Leaves
  <2>6. Named(v2)
    BY <1>2, <1>3, <2>2, NamedIs DEF Journey, Named
  <2>7. Known(v2, F, w)
    <3>1. "REVISION_CONFLICT" \in NotApplied
      BY DEF NotApplied
    <3> QED
      BY <1>1, <1>6, <2>2, <3>1 DEF Known, Truly
  <2>8. Thins(q, v2) /\ Still(m, t)
    BY <1>1, <1>6, <2>3, ThinIs
  <2>9. Journey(r2, w)
    BY <1>2, <1>3, <2>2, <2>4, <2>6, <2>7, <2>8, PutJourney DEF F
  <2> HIDE DEF r2, t
  <2>10. Journey(Advance(r2, t), w)
    BY <1>2, <2>5, <2>9, AdvanceJourney
  <2> QED
    BY <2>1, <2>10 DEF m
<1>7. CASE /\ SameQueue(q, a) /\ a.code # "ack"
           /\ ~ (a.code = "REVISION_CONFLICT" /\ q.active.retries > 0 /\ q.active.parts # {})
  <2>1. Answered(m, a) = FailTarget(m, t, a.code)
    BY <1>7 DEF Answered
  <2>2. a.code \in Codes
    BY <1>1, <1>2, <1>7 DEF SameQueue
  <2>3. Tidy(m, t, {}, {})
    BY <1>3 DEF Good
  <2>4. Journey(FailTarget(m, t, a.code), w)
    BY <1>1, <1>2, <1>3, <1>7, <2>2, <2>3, FailJourney DEF F
  <2> QED
    BY <2>1, <2>4 DEF m
<1> QED
  BY <1>4, <1>5, <1>6, <1>7

-----------------------------------------------------------------------------
(* The timers. *)

LEMMA WaitingExpiresJourney ==
  ASSUME NEW s, NEW w, Worldly(w), w.loose = {}, Fares(s, w), NEW t \in Targets,
         NEW n \in DOMAIN s.queue[t].waiting
  PROVE  Journey(Advance(Settle([s EXCEPT !.queue[t].waiting = RemoveAt(@, n)],
                                s.queue[t].waiting[n].parts, "INPUT_EXPIRED"), t), w)
<1> DEFINE q == s.queue[t]
           v == [q EXCEPT !.waiting = RemoveAt(@, n)]
           e == [s EXCEPT !.queue[t] = v]
           m == Settle(e, q.waiting[n].parts, "INPUT_EXPIRED")
<1>1. /\ Good(s, t, {}) /\ s \in Decks /\ q \in Queues /\ n \in 1 .. Len(q.waiting) /\ Journey(s, w)
      /\ q.waiting \in Seq(Intents) /\ Trip(s, w, t)
  BY GoodOne, QueueFields, LenProperties DEF Fares, Journey
<1>2. v \in Queues /\ v.born = q.born /\ q # NoQueue /\ Drops(q, v, q.waiting[n].parts)
  BY <1>1, RemovalDrops
<1>3. [s EXCEPT !.queue[t].waiting = RemoveAt(@, n)] = e
  BY <1>1 DEF Decks
<1>4. v.active = q.active /\ v.ack = q.ack /\ v.waiting = RemoveAt(q.waiting, n)
  BY <1>1 DEF Queues
<1>5. Named(v)
  <2>1. /\ Len(v.waiting) = Len(q.waiting) - 1 /\ Len(q.waiting) \in Nat
        /\ \A k \in 1 .. Len(q.waiting) - 1 : v.waiting[k] = IF k < n THEN q.waiting[k]
                                                            ELSE q.waiting[k + 1]
    <3> DEFINE rest == RemoveAt(q.waiting, n)
    <3>1. /\ Len(rest) = Len(q.waiting) - 1 /\ Len(q.waiting) \in Nat
          /\ \A k \in 1 .. Len(q.waiting) - 1 : rest[k] = IF k < n THEN q.waiting[k]
                                                          ELSE q.waiting[k + 1]
      BY <1>1, RemoveAtIs, LenProperties
    <3>2. v.waiting = rest
      BY <1>4
    <3> HIDE DEF rest, v, q
    <3> QED
      BY <3>1, <3>2
  <2>2. Named(q)
    BY <1>1, NamedIs
  <2> HIDE DEF v, q
  <2> SUFFICES ASSUME NEW k \in 1 .. Len(v.waiting)
               PROVE  v.waiting[k].kind # "none"
    BY DEF Named
  <2>3. k \in 1 .. Len(q.waiting) /\ k + 1 \in 1 .. Len(q.waiting) /\ k \in 1 .. Len(q.waiting) - 1
    BY <2>1
  <2>4. v.waiting[k] \in {q.waiting[k], q.waiting[k + 1]}
    BY <2>1, <2>3
  <2> QED
    BY <2>2, <2>3, <2>4 DEF Named
<1> HIDE DEF v
<1>6. Journey(e, w)
  BY <1>1, <1>2, <1>4, <1>5, ThinIs, PutJourney
<1>7. "INPUT_EXPIRED" \in Codes \cup {"done"} /\ "INPUT_EXPIRED" \in NotApplied
      /\ "INPUT_EXPIRED" \notin {"done", "STATE_TIMEOUT", "ack"}
  BY DEF Codes, NotApplied
<1>8. Leaves(s, m, t, {})
  BY <1>1, <1>2, <1>7, DropIs
<1>9. e \in Decks /\ Quiet(s, e)
  BY <1>1, <1>2, SetQueueIs
<1>10. Journey(m, w)
  <2>1. \A i \in q.waiting[n].parts : Unsent(Flying(s, w), w, i)
    BY <1>1 DEF Trip, Waits
  <2>2. Flying(e, w) = Flying(s, w)
    BY <1>9, SameFlight DEF Quiet
  <2>3. \A i \in q.waiting[n].parts : Truly(Flying(e, w), w, i, "INPUT_EXPIRED")
    BY <1>7, <2>1, <2>2 DEF Truly
  <2> HIDE DEF e, q
  <2> QED
    BY <1>6, <1>7, <1>9, <2>3, SettleJourney
<1> HIDE DEF m, e
<1>11. Journey(Advance(m, t), w)
  BY <1>8, <1>10, AdvanceJourney DEF Leaves
<1> QED
  BY <1>3, <1>11 DEF m

LEMMA WakeJourney ==
  ASSUME NEW s, NEW w, Worldly(w), w.loose = {}, Fares(s, w), NEW t \in Targets,
         NEW n \in DOMAIN s.queue[t].waiting
  PROVE  Journey(Advance([s EXCEPT !.queue[t].waiting[n].ripe = TRUE], t), w)
<1> DEFINE q == s.queue[t]
           v == [q.waiting EXCEPT ![n].ripe = TRUE]
           x == [q EXCEPT !.waiting = v]
           m == [s EXCEPT !.queue[t] = x]
<1>1. /\ Good(s, t, {}) /\ s \in Decks /\ q \in Queues /\ q.waiting \in Seq(Intents)
      /\ n \in 1 .. Len(q.waiting) /\ Len(q.waiting) \in Nat /\ Journey(s, w) /\ Trip(s, w, t)
  BY GoodOne, QueueFields, LenProperties DEF Fares, Journey
<1>2. [s EXCEPT !.queue[t].waiting[n].ripe = TRUE] = m
  BY <1>1 DEF Decks, Queues
<1>3. /\ v \in Seq(Intents) /\ Len(v) = Len(q.waiting)
      /\ \A k \in 1 .. Len(q.waiting) : v[k].parts = q.waiting[k].parts /\ v[k].kind = q.waiting[k].kind
  <2> DEFINE y == [q.waiting[n] EXCEPT !.ripe = TRUE]
  <2>1. v = [q.waiting EXCEPT ![n] = y]
    BY <1>1
  <2>2. y \in Intents /\ y.parts = q.waiting[n].parts /\ y.kind = q.waiting[n].kind
    <3>1. q.waiting[n] \in Intents
      BY <1>1, ElementOfSeq
    <3> QED
      BY <3>1 DEF Intents
  <2> HIDE DEF y, v
  <2> QED
    BY <1>1, <2>1, <2>2, ExceptSeq
<1> HIDE DEF v
<1>4. x \in Queues /\ x.born = q.born /\ x.waiting = v /\ x.active = q.active /\ x.ack = q.ack
  BY <1>1, <1>3 DEF Queues
<1> HIDE DEF x
<1>5. Places(x) = Places(q) /\ \A k \in Places(q) : Place(x, k) = Place(q, k)
  <2>1. Places(x) = Places(q)
    BY <1>3, <1>4 DEF Places
  <2>2. ASSUME NEW k \in Places(q)
        PROVE  Place(x, k) = Place(q, k)
    <3>1. k = 0 \/ k \in 1 .. Len(q.waiting)
      BY <1>1 DEF Places
    <3> QED
      BY <1>3, <1>4, <3>1 DEF Place
  <2> QED
    BY <2>1, <2>2
<1>6. q # NoQueue
  BY <1>1, EmptyQueue, EmptySeq
<1>7. Rearranges(q, x) /\ Thins(q, x)
  BY <1>5, SamePlaces, ThinIs
<1>8. Leaves(s, m, t, {})
  BY <1>1, <1>4, <1>6, <1>7, ReplaceIs
<1>9. Named(x)
  <2>1. Named(q)
    BY <1>1, NamedIs
  <2> QED
    BY <1>3, <1>4, <2>1 DEF Named
<1>10. Journey(m, w)
  BY <1>1, <1>4, <1>6, <1>7, <1>9, PutJourney
<1> HIDE DEF m, q
<1>11. Journey(Advance(m, t), w)
  BY <1>8, <1>10, AdvanceJourney DEF Leaves
<1> QED
  BY <1>2, <1>11

LEMMA RetryExpiresJourney ==
  ASSUME NEW s, NEW w, Fares(s, w), NEW t \in Targets, s.queue[t].active.retrying
  PROVE  Journey(FailTarget(s, t, "INPUT_EXPIRED"), w)
<1>1. Good(s, t, {}) /\ s \in Decks /\ Journey(s, w) /\ Trip(s, w, t) /\ Tidy(s, t, {}, {})
  BY GoodOne DEF Fares, Journey, Good
<1>2. "INPUT_EXPIRED" \in Codes /\ "INPUT_EXPIRED" \notin {"done", "STATE_TIMEOUT", "ack"}
  BY DEF Codes
<1>3. \A i \in s.queue[t].active.parts : Truly(Flying(s, w), w, i, "INPUT_EXPIRED")
  BY <1>1, <1>2 DEF Trip, Known, Truly
<1> QED
  BY <1>1, <1>2, <1>3, FailJourney

LEMMA StateTimeoutJourney ==
  ASSUME NEW s, NEW w, Worldly(w), Fares(s, w), NEW t \in Targets, s.queue[t].ack # NoAck
  PROVE  Journey(RequestState(FailTarget(s, t, "STATE_TIMEOUT")), w)
<1> DEFINE m == FailTarget(s, t, "STATE_TIMEOUT")
<1>1. Good(s, t, {}) /\ s \in Decks /\ Journey(s, w) /\ Trip(s, w, t) /\ Tidy(s, t, {}, {}) /\ Fine(s)
  BY GoodOne DEF Fares, Journey, Good
<1>2. "STATE_TIMEOUT" \in Codes /\ "STATE_TIMEOUT" \notin NotApplied
  BY DEF Codes, NotApplied
<1>3. \A i \in s.queue[t].active.parts : Truly(Flying(s, w), w, i, "STATE_TIMEOUT")
  BY <1>1, <1>2 DEF Trip, Known, Truly
<1>4. Journey(m, w)
  BY <1>1, <1>2, <1>3, FailJourney
<1>5. Fine(m)
  BY <1>1, <1>2, FailureIsFine
<1> HIDE DEF m
<1>6. Journey(RequestState(m), w)
  BY <1>4, <1>5, RequestFares DEF Fares
<1> QED
  BY <1>6 DEF m

LEMMA SendPingJourney ==
  ASSUME NEW s, NEW w, Worldly(w), Fares(s, w), s.out = << >>
  PROVE  Journey([s EXCEPT !.seq = @ + 1, !.ping = s.seq + 1, !.out = <<Ping(s.seq + 1)>>], w)
<1> DEFINE id == s.seq + 1
           out == <<Ping(id)>>
           r == [s EXCEPT !.seq = id, !.ping = id, !.out = out]
<1>1. s \in Decks /\ s.seq \in Nat /\ PendSound(s) /\ Journey(s, w)
  BY FineIs, DeckFields DEF Fares
<1>2. id \in Nat /\ Ping(id) \in UpMessages /\ Ping(id).type # "hello" /\ Ping(id).id = id
      /\ Parts(Ping(id)) = {}
  BY <1>1 DEF Ping, UpMessages, Parts
<1>3. out = Append(s.out, Ping(id))
  BY <1>1
<1>4. [s EXCEPT !.seq = @ + 1, !.ping = s.seq + 1, !.out = <<Ping(s.seq + 1)>>] = r
  BY <1>1 DEF Decks
<1> HIDE DEF out
<1>5. /\ r.queue = s.queue /\ r.promise = s.promise /\ r.pend = s.pend /\ r.answers = s.answers
      /\ r.seq = id /\ r.out = out /\ r.snap = s.snap /\ r.synced = s.synced
  BY <1>1 DEF Decks
<1> HIDE DEF r
<1>6. Sends(s, r, Ping(id))
  BY <1>2, <1>3, <1>5 DEF Sends
<1>7. r.pend = s.pend \cup {}
  BY <1>5
<1> HIDE DEF id
<1>8. Journey(r, w)
  BY <1>1, <1>2, <1>5, <1>6, <1>7, PlainJourney
<1> QED
  BY <1>4, <1>8 DEF id


-----------------------------------------------------------------------------
(* The user makes an input. *)

LEMMA RemovedNamed ==
  ASSUME NEW q \in Queues, Named(q), NEW n \in 1 .. Len(q.waiting)
  PROVE  Named(Removed(q, n)) /\ Removed(q, n).active = q.active /\ Removed(q, n).ack = q.ack
<1> DEFINE rest == RemoveAt(q.waiting, n)  v == Removed(q, n)
<1>1. q.waiting \in Seq(Intents)
  BY QueueFields
<1>2. /\ Len(rest) = Len(q.waiting) - 1 /\ Len(q.waiting) \in Nat
      /\ \A k \in 1 .. Len(q.waiting) - 1 : rest[k] = IF k < n THEN q.waiting[k]
                                                      ELSE q.waiting[k + 1]
  BY <1>1, RemoveAtIs, LenProperties
<1>3. v.waiting = rest /\ v.active = q.active /\ v.ack = q.ack
  BY DEF Queues, Removed
<1> HIDE DEF rest, v
<1> SUFFICES ASSUME NEW k \in 1 .. Len(v.waiting)
             PROVE  v.waiting[k].kind # "none"
  BY <1>3 DEF Named, v
<1>4. k \in 1 .. Len(q.waiting) /\ k + 1 \in 1 .. Len(q.waiting) /\ k \in 1 .. Len(q.waiting) - 1
  BY <1>2, <1>3
<1>5. v.waiting[k] \in {q.waiting[k], q.waiting[k + 1]}
  BY <1>2, <1>3, <1>4
<1> QED
  BY <1>4, <1>5 DEF Named

LEMMA KeysNamed ==
  ASSUME NEW q \in Queues, Named(q)
  PROVE  Named(KeysOf(q)) /\ KeysOf(q).active = q.active /\ KeysOf(q).ack = q.ack
<1> DEFINE hit == DOMAIN q.waiting \ Turns(q.waiting)
           keys == Those(q.waiting, hit)
           v == KeysOf(q)
<1>1. q.waiting \in Seq(Intents) /\ Len(q.waiting) \in Nat
  BY QueueFields
<1>2. v.waiting = keys /\ v.active = q.active /\ v.ack = q.ack
  BY DEF Queues, KeysOf
<1> HIDE DEF hit
<1>3. Selects(keys, q.waiting, Len(q.waiting), hit)
  BY <1>1, ThoseAre
<1> HIDE DEF keys, v
<1>4. PICK from \in [1 .. Len(keys) -> (1 .. Len(q.waiting)) \cap hit] :
        \A k \in 1 .. Len(keys) : keys[k] = q.waiting[from[k]]
  BY <1>3 DEF Selects
<1>5. \A k \in 1 .. Len(keys) : from[k] \in 1 .. Len(q.waiting)
  BY <1>4
<1> QED
  BY <1>2, <1>4, <1>5 DEF Named, v

(* Waiting inputs are refused for a reason that says they were not sent.   *)
LEMMA DropJourney ==
  ASSUME NEW s \in Decks, NEW w, Journey(s, w), NEW t \in Targets, s.queue[t] # NoQueue,
         NEW v \in Queues, v.born = s.queue[t].born, v.active = s.queue[t].active,
         v.ack = s.queue[t].ack, Thins(s.queue[t], v), Named(v), NEW gone,
         \A i \in gone : \E n \in 1 .. Len(s.queue[t].waiting) : i \in s.queue[t].waiting[n].parts,
         NEW code \in NotApplied \cap Codes
  PROVE  Journey(Settle([s EXCEPT !.queue[t] = v], gone, code), w)
<1> DEFINE e == [s EXCEPT !.queue[t] = v]  q == s.queue[t]
<1>1. e \in Decks /\ Quiet(s, e)
  BY SetQueueIs
<1>2. Journey(e, w)
  BY PutJourney
<1>3. Flying(e, w) = Flying(s, w)
  BY <1>1, SameFlight DEF Quiet
<1>4. ASSUME NEW i \in gone
      PROVE  Unsent(Flying(s, w), w, i)
  <2>1. Waits(q, Flying(s, w), w, t)
    BY DEF Journey, Trip
  <2> HIDE DEF q
  <2>2. PICK n \in 1 .. Len(q.waiting) : i \in q.waiting[n].parts
    BY <1>4 DEF q
  <2> QED
    BY <2>1, <2>2 DEF Waits
<1>5. code \notin {"done", "STATE_TIMEOUT", "ack"}
  BY TruthIs
<1>6. \A i \in gone \cap Inputs : Truly(Flying(e, w), w, i, code)
  BY <1>3, <1>4, <1>5 DEF Truly
<1>7. code \in Codes \cup {"done"}
  OBVIOUS
<1>8. Journey(Settle(e, gone, code), w)
  <2> HIDE DEF e
  <2> QED
    BY <1>1, <1>2, <1>6, <1>7, SettleJourney
<1> QED
  BY <1>8

(* The world in which i is made: nobody has sent it, and no place holds it. *)
Makes(w, u, i) ==
  /\ u.sent = w.sent /\ u.heard = w.heard /\ u.conn = w.conn /\ u.seq = w.seq
  /\ u.applied = w.applied /\ u.inst = w.inst /\ u.alive = w.alive
  /\ u.made = w.made \cup {i} /\ u.loose = {i}
  /\ \A j \in Inputs : j # i => u.pressed[j] = w.pressed[j]
LEMMA MadeJourney ==
  ASSUME NEW s, NEW w, Fares(s, w), NEW i \in Inputs, s.promise[i] = "new",
         NEW u, Worldly(u), Makes(w, u, i), NEW code \in {"open", "DISCONNECTED"},
         NEW r, r.queue = s.queue, r.pend = s.pend, r.answers = s.answers, r.seq = s.seq,
         r.out = s.out, r.snap = s.snap, r.synced = s.synced, r.promise[i] = code,
         \A j \in Inputs : j # i => r.promise[j] = s.promise[j],
         code = "open" => /\ HasSnap(s) /\ u.pressed[i].inst = s.snap.inst
                          /\ u.pressed[i].session = s.snap.session /\ u.pressed[i].conn = u.conn
  PROVE  Journey(r, u)
<1> DEFINE F == Flying(s, w)
<1>1. Flying(r, u) = F
  BY DEF Flying, Makes
<1>2. /\ Loads(s, w) /\ Honest(s, w) /\ Opened(s, w) /\ AllTidy(s) /\ s \in Decks
      /\ \A t \in Targets : Trip(s, w, t)
  BY FineIs DEF Fares, Journey
<1>3. Unsent(F, w, i) /\ Unsent(F, u, i) /\ ~ Aboard(F, i) /\ w.applied[i] = << >> /\ u.applied = w.applied
  BY <1>2 DEF Honest, Truly, NotApplied, Unsent, Makes
<1>4. \A x \in F : i \notin Parts(x[2])
  BY <1>3 DEF Aboard
<1>5. \A j, k \in Inputs : j # i /\ k # i => (Precedes(u, j, k) <=> Precedes(w, j, k))
  BY DEF Precedes, Makes
<1>6. \A j \in Inputs : Unsent(F, u, j) <=> Unsent(F, w, j)
  BY DEF Unsent, Makes
<1> HIDE DEF F
<1>7. Loads(r, u)
  <2>1. Alone(F, u)
    BY <1>2 DEF Loads, Alone, Makes, F
  <2>2. Stamped(F, u)
    <3>1. Stamped(F, w)
      BY <1>2 DEF Loads, F
    <3> QED
      BY <1>4, <3>1 DEF Stamped, Makes
  <2>3. Ranked(F, u)
    <3>1. Ranked(F, w)
      BY <1>2 DEF Loads, F
    <3> SUFFICES ASSUME NEW j \in Inputs, NEW k \in Inputs, Precedes(u, j, k)
                 PROVE  /\ Aboard(F, j) => u.applied[k] = << >>
                        /\ \A x, y \in F : j \in Parts(x[2]) /\ k \in Parts(y[2]) => x[2].id <= y[2].id
      BY DEF Ranked
    <3>2. CASE j = i \/ k = i
      BY <1>3, <1>4, <3>2
    <3>3. CASE j # i /\ k # i
      BY <1>3, <1>5, <3>1, <3>3 DEF Ranked
    <3> QED
      BY <3>2, <3>3
  <2>4. Counted(r, u)
    BY <1>2 DEF Loads, Counted, Makes
  <2>5. \A j \in u.loose : Unsent(F, u, j)
    BY <1>3 DEF Makes
  <2> QED
    BY <1>1, <2>1, <2>2, <2>3, <2>4, <2>5 DEF Loads
<1>8. Honest(r, u)
  <2>1. ASSUME NEW j \in Inputs
        PROVE  Truly(F, u, j, r.promise[j]) /\ (r.promise[j] # "new" <=> j \in u.made)
    <3>1. CASE j = i
      BY <1>3, <3>1 DEF Truly, Makes
    <3>2. CASE j # i
      <4>1. Truly(F, w, j, s.promise[j]) /\ (s.promise[j] # "new" <=> j \in w.made)
        BY <1>2 DEF Honest, F
      <4>2. Truly(F, u, j, s.promise[j])
        BY <1>3, <1>6, <4>1 DEF Truly, Arrived
      <4> QED
        BY <3>2, <4>1, <4>2 DEF Makes
    <3> QED
      BY <3>1, <3>2
  <2> QED
    BY <1>1, <2>1 DEF Honest
<1>9. Opened(r, u)
  <2>1. HasSnap(r) <=> HasSnap(s)
    BY DEF HasSnap
  <2>2. \A j \in Inputs : r.promise[j] = "open" /\ j # i => s.promise[j] = "open" /\ u.pressed[j] = w.pressed[j]
    BY DEF Makes
  <2>3. r.promise[i] = "open" => code = "open"
    OBVIOUS
  <2> QED
    BY <1>2, <2>1, <2>2, <2>3 DEF Opened, Makes
<1>10. ASSUME NEW t \in Targets
       PROVE  Trip(r, u, t)
  <2> DEFINE q == s.queue[t]
  <2>1. Trip(s, w, t) /\ Tidy(s, t, {}, {}) /\ q \in Queues
    BY <1>2, DeckFields DEF AllTidy
  <2>2. \A n \in Places(q) : \A j \in Place(q, n) : j # i /\ j \in Inputs
    <3>1. \A n \in Places(q) : Place(q, n) \in SUBSET Inputs
      BY <2>1, QueueFields
    <3>2. \A n \in Places(q) : \A j \in Place(q, n) : Mine(s, t, j)
      BY <2>1 DEF Tidy
    <3> QED
      BY <3>1, <3>2 DEF Mine
  <2>3. Waits(q, F, w, t) /\ Known(q, F, w)
    BY <2>1 DEF Trip, F
  <2>4. q.active.parts \subseteq Inputs /\ \A n \in 1 .. Len(q.waiting) : q.waiting[n].parts \subseteq Inputs
    BY <2>1, QueueFields
  <2> HIDE DEF q
  <2>5. Waits(q, F, u, t)
    <3>1. \A n \in 1 .. Len(q.waiting) : /\ q.waiting[n].kind # "none"
                                         /\ \A j \in q.waiting[n].parts : Unsent(F, u, j)
      BY <1>6, <2>3, <2>4 DEF Waits
    <3>2. ASSUME NEW n \in Places(q), NEW j \in Place(q, n)
          PROVE  Input[j].target = t /\ Level(F, u, j)
      <4>1. Input[j].target = t /\ Level(F, w, j) /\ j # i /\ j \in Inputs
        BY <2>2, <2>3, <3>2 DEF Waits
      <4>2. ASSUME NEW k \in Inputs, Precedes(u, j, k)
            PROVE  Unsent(F, u, k) \/ u.applied[j] # << >> \/ \E x \in F : {j, k} \subseteq Parts(x[2])
        <5>1. CASE k = i
          BY <1>3, <5>1
        <5>2. CASE k # i
          BY <1>3, <1>5, <1>6, <4>1, <4>2, <5>2 DEF Level
        <5> QED
          BY <5>1, <5>2
      <4> QED
        BY <4>1, <4>2 DEF Level
    <3>3. Lined(q, u)
      BY <2>2, <2>3 DEF Waits, Lined, Makes
    <3> QED
      BY <3>1, <3>2, <3>3 DEF Waits
  <2>6. Known(q, F, u)
    BY <1>3, <1>6, <2>3, <2>4 DEF Known, Arrived
  <2>7. q # NoQueue => Traced(r, u, t)
    <3> HAVE q # NoQueue
    <3>1. Traced(s, w, t)
      BY <2>1 DEF Trip, q
    <3>2. Asked(r, t) = Asked(s, t) /\ Replied(r, t) = Replied(s, t)
      BY DEF Asked, Replied
    <3>3. \A j \in q.active.parts : \A c : Truly(F, u, j, c) <=> Truly(F, w, j, c)
      BY <1>3, <1>6, <2>4 DEF Truly, Arrived
    <3> QED
      BY <1>1, <3>1, <3>2, <3>3 DEF Traced, Makes, F, q
  <2> QED
    BY <1>1, <2>5, <2>6, <2>7 DEF Trip, q
<1> QED
  BY <1>7, <1>8, <1>9, <1>10 DEF Journey

(* In a world with nothing loose a deck is as it was.                      *)
Tight(w, u) == /\ u.sent = w.sent /\ u.heard = w.heard /\ u.conn = w.conn /\ u.seq = w.seq
               /\ u.applied = w.applied /\ u.pressed = w.pressed /\ u.made = w.made
               /\ u.inst = w.inst /\ u.alive = w.alive /\ u.loose = {}
LEMMA TightIs ==
  ASSUME NEW s, NEW w, NEW u, Tight(w, u)
  PROVE  (Worldly(w) => Worldly(u)) /\ (Journey(s, w) => Journey(s, u))
<1>1. Worldly(w) => Worldly(u)
  BY DEF Worldly, Tight
<1>2. ASSUME Journey(s, w)
      PROVE  Journey(s, u)
  <2> DEFINE F == Flying(s, w)
  <2>1. Flying(s, u) = F
    BY DEF Flying, Tight
  <2>2. \A i : /\ Unsent(F, u, i) <=> Unsent(F, w, i)
               /\ Arrived(u, i) <=> Arrived(w, i)
    BY DEF Unsent, Arrived, Tight
  <2>3. \A i, c : Truly(F, u, i, c) <=> Truly(F, w, i, c)
    BY <2>2 DEF Truly
  <2>4. \A i, j : Precedes(u, i, j) <=> Precedes(w, i, j)
    BY DEF Precedes, Tight
  <2>5. Loads(s, w) /\ Honest(s, w) /\ Opened(s, w) /\ \A t \in Targets : Trip(s, w, t)
    BY <1>2 DEF Journey
  <2> HIDE DEF F
  <2>6. Loads(s, u)
    <3>1. Alone(F, w) /\ Stamped(F, w) /\ Ranked(F, w) /\ Counted(s, w)
      BY <2>5 DEF Loads, F
    <3>2. Alone(F, u)
      BY <3>1 DEF Alone, Tight
    <3>3. Stamped(F, u)
      BY <3>1 DEF Stamped, Tight
    <3>4. Ranked(F, u)
      BY <2>4, <3>1 DEF Ranked, Tight
    <3>5. Counted(s, u)
      BY <3>1 DEF Counted, Tight
    <3> QED
      BY <2>1, <3>2, <3>3, <3>4, <3>5 DEF Loads, Tight
  <2>7. Honest(s, u)
    BY <2>1, <2>3, <2>5 DEF Honest, Tight, F
  <2>8. Opened(s, u)
    BY <2>5 DEF Opened, Tight
  <2>9. ASSUME NEW t \in Targets
        PROVE  Trip(s, u, t)
    <3> DEFINE q == s.queue[t]
    <3>1. Waits(q, F, w, t) /\ Known(q, F, w) /\ (q # NoQueue => Traced(s, w, t))
      BY <2>5 DEF Trip, F
    <3> HIDE DEF q
    <3>2. \A i : Level(F, u, i) <=> Level(F, w, i)
      BY <2>2, <2>4 DEF Level, Tight
    <3>3. Waits(q, F, u, t)
      BY <2>2, <3>1, <3>2 DEF Waits, Lined, Tight
    <3>4. Known(q, F, u)
      BY <2>2, <3>1 DEF Known
    <3>5. q # NoQueue => Traced(s, u, t)
      BY <2>1, <2>3, <3>1 DEF Traced, Tight, F
    <3> QED
      BY <2>1, <3>3, <3>4, <3>5 DEF Trip, q
  <2> QED
    BY <2>6, <2>7, <2>8, <2>9 DEF Journey
<1> QED
  BY <1>1, <1>2

(* i was made last, is in no queue, and nothing was asked for a queue of   *)
(* its own.                                                                *)
Making(s, w, i) ==
  /\ Loose(s, i) /\ Worldly(w) /\ Journey(s, w) /\ w.loose = {i}
  /\ \A j \in w.made \ {i} : w.pressed[j].n < w.pressed[i].n
  /\ \A p \in Edits(s.pend) : p.born # i

LEMMA JoinJourney ==
  ASSUME NEW s, NEW w, NEW i \in Inputs, Making(s, w, i), NEW u, Tight(w, u),
         NEW t \in Targets, t = Input[i].target,
         NEW v \in Queues, v.active = s.queue[t].active, v.ack = s.queue[t].ack,
         v.born = (IF s.queue[t] = NoQueue THEN i ELSE s.queue[t].born),
         v.born \in Inputs, s.promise[v.born] # "new",
         Joins(s.queue[t], v, i), Named(v)
  PROVE  Journey(Advance([s EXCEPT !.queue[t] = v], t), u)
<1> DEFINE q == s.queue[t]  m == [s EXCEPT !.queue[t] = v]  F == Flying(s, w)
<1>1. /\ s \in Decks /\ Loose(s, i) /\ Journey(s, w) /\ q \in Queues /\ Trip(s, w, t)
      /\ Worldly(w) /\ w.loose = {i}
  BY DeckFields DEF Making, Loose, Sound, Journey
<1>2. /\ m \in Decks /\ Quiet(s, m) /\ m.promise = s.promise
      /\ m.queue[t] = v /\ \A x \in Targets : x # t => m.queue[x] = s.queue[x]
  BY <1>1, SetQueueIs
<1>3. AllGood(m)
  BY <1>1, JoinIs
<1> HIDE DEF m
<1>4. Flying(m, w) = F
  BY <1>2, SameFlight DEF Quiet
<1>5. Waits(q, F, w, t) /\ Known(q, F, w)
  BY <1>1 DEF Trip
<1>6. Unsent(F, w, i)
  BY <1>1 DEF Journey, Loads
<1>7. \A j \in Inputs : s.promise[j] = "new" => Unsent(F, w, j)
  BY <1>1 DEF Journey, Honest, Truly, NotApplied
<1>8. \A j \in Inputs : s.promise[j] # "new" => j \in w.made
  BY <1>1 DEF Journey, Honest
<1>9. \A n \in Places(q) : \A j \in Place(q, n) : j \in Inputs /\ s.promise[j] = "open" /\ j # i
  <2>1. \A n \in Places(q) : Place(q, n) \in SUBSET Inputs
    BY <1>1, QueueFields
  <2>2. Tidy(s, t, {i}, {})
    BY <1>1 DEF Loose
  <2> QED
    BY <2>1, <2>2 DEF Tidy, Mine
<1>10. \A n \in Places(q) : \A j \in Place(q, n) : w.pressed[j].n < w.pressed[i].n
  BY <1>8, <1>9 DEF Making
<1> DEFINE last == Len(v.waiting)
<1>11. /\ last \in Places(v) /\ last # 0
       /\ Place(v, last) = (IF last \in Places(q) THEN Place(q, last) ELSE {}) \cup {i}
       /\ Places(q) \subseteq Places(v)
       /\ \A n \in Places(v) : n # last => n \in Places(q) /\ Place(v, n) = Place(q, n)
  BY DEF Joins
<1>12. Places(v) = 0 .. last /\ last \in Nat /\ Places(q) = 0 .. Len(q.waiting) /\ Len(q.waiting) \in Nat
  BY <1>1, QueueFields DEF Places
<1>13. v # NoQueue
  BY <1>11, EmptyQueue, EmptySeq
<1> HIDE DEF last, q, F
<1>14. \A n \in Places(v) : \A j \in Place(v, n) : j = i \/ (n \in Places(q) /\ j \in Place(q, n))
  BY <1>11
<1>15. Waits(v, F, w, t)
  <2>1. ASSUME NEW n \in 1 .. Len(v.waiting)
        PROVE  v.waiting[n].kind # "none" /\ \A j \in v.waiting[n].parts : Unsent(F, w, j)
    <3>1. n \in Places(v) /\ n # 0 /\ Place(v, n) = v.waiting[n].parts
      BY <1>12, <2>1 DEF Place, last
    <3>2. ASSUME NEW j \in Place(v, n)
          PROVE  Unsent(F, w, j)
      <4>1. CASE j = i
        BY <1>6, <4>1
      <4>2. CASE n \in Places(q) /\ j \in Place(q, n)
        <5>1. n \in 1 .. Len(q.waiting) /\ j \in q.waiting[n].parts
          BY <1>12, <3>1, <4>2 DEF Place
        <5> QED
          BY <1>5, <5>1 DEF Waits
      <4> QED
        BY <1>14, <3>1, <3>2, <4>1, <4>2
    <3> QED
      BY <3>1, <3>2 DEF Named
  <2>2. ASSUME NEW n \in Places(v), NEW j \in Place(v, n)
        PROVE  Input[j].target = t /\ Level(F, w, j)
    <3>1. CASE j = i
      <4>1. ASSUME NEW k \in Inputs, Precedes(w, i, k)
            PROVE  Unsent(F, w, k)
        <5>1. w.pressed[i].n < w.pressed[k].n /\ w.pressed[i].n \in Nat /\ w.pressed[k].n \in Nat
          BY <1>1, <4>1 DEF Precedes, Worldly
        <5>2. k \notin w.made
          BY <5>1 DEF Making
        <5> QED
          BY <1>7, <1>8, <5>2
      <4> QED
        BY <3>1, <4>1 DEF Level
    <3>2. CASE n \in Places(q) /\ j \in Place(q, n)
      BY <1>5, <3>2 DEF Waits
    <3> QED
      BY <1>14, <2>2, <3>1, <3>2
  <2>3. Lined(v, w)
    <3> SUFFICES ASSUME NEW a \in Places(v), NEW b \in Places(v), a < b,
                        NEW j \in Place(v, a), NEW k \in Place(v, b)
                 PROVE  w.pressed[j].n < w.pressed[k].n
      BY DEF Lined
    <3>1. a # last /\ a \in Places(q) /\ j \in Place(q, a)
      BY <1>11, <1>12
    <3>2. CASE k = i
      BY <1>10, <3>1, <3>2
    <3>3. CASE b \in Places(q) /\ k \in Place(q, b)
      BY <1>5, <3>1, <3>3 DEF Waits, Lined
    <3> QED
      BY <1>14, <3>2, <3>3
  <2> QED
    BY <2>1, <2>2, <2>3 DEF Waits
<1>16. Known(v, F, w)
  BY <1>5 DEF Known, q
<1>17. Traced(m, w, t)
  <2>1. CASE q = NoQueue
    <3>1. v.born = i
      BY <2>1 DEF q
    <3>2. \A p \in Edits(m.pend) : p.born # i
      BY <1>2 DEF Making, Quiet
    <3>3. m.answers = {}
      BY <1>1, <1>2 DEF Loose, Quiet, Untouched
    <3>4. Asked(m, t) = {} /\ Replied(m, t) = {}
      BY <1>2, <3>1, <3>2, <3>3 DEF Asked, Replied
    <3> QED
      BY <3>4 DEF Traced
  <2>2. CASE q # NoQueue
    <3>1. Traced(s, w, t)
      BY <1>1, <2>2 DEF Trip, q
    <3> QED
      BY <1>2, <2>2, <3>1, TraceStays DEF q
  <2> QED
    BY <2>1, <2>2
<1>18. Trip(m, w, t)
  BY <1>2, <1>4, <1>15, <1>16, <1>17 DEF Trip
<1>19. Journey(m, w)
  BY <1>1, <1>2, <1>18, JourneyGoesOn
<1>20. Journey(m, u) /\ Worldly(u) /\ u.loose \subseteq {}
  BY <1>1, <1>19, TightIs DEF Tight
<1>21. Good(m, t, {})
  BY <1>3 DEF AllGood, Good
<1>22. Journey(Advance(m, t), u)
  BY <1>20, <1>21, AdvanceJourney
<1> QED
  BY <1>22 DEF m

LEMMA PushedNamed ==
  ASSUME NEW s, NEW t, s.queue[t] \in Queues, Named(s.queue[t]), NEW i \in Inputs
  PROVE  Named(Pushed(s, t, i))
<1> DEFINE q == s.queue[t]  v == Append(q.waiting, Intent(i))
<1>1. Intent(i) \in Intents /\ Intent(i).kind # "none"
  BY WireFacts, IntentIs DEF Intent, Kinds
<1>2. q.waiting \in Seq(Intents)
  BY QueueFields
<1>3. /\ Len(v) = Len(q.waiting) + 1 /\ Len(q.waiting) \in Nat
      /\ v[Len(q.waiting) + 1] = Intent(i) /\ \A n \in 1 .. Len(q.waiting) : v[n] = q.waiting[n]
  <2> HIDE DEF q
  <2> QED
    BY <1>1, <1>2, AppendProperties, LenProperties
<1>4. Pushed(s, t, i).waiting = v
  BY DEF Pushed, Queues
<1>5. Named(q)
  OBVIOUS
<1> HIDE DEF v, q
<1> QED
  BY <1>1, <1>3, <1>4, <1>5 DEF Named

LEMMA PushJourney ==
  ASSUME NEW s, NEW w, NEW i \in Inputs, Making(s, w, i), NEW u, Tight(w, u),
         NEW t \in Targets, t = Input[i].target
  PROVE  Journey(Push(s, t, i), u)
<1> DEFINE q == s.queue[t]  v == Pushed(s, t, i)
<1>1. Loose(s, i) /\ Trip(s, w, t)
  BY DEF Making, Journey
<1>2. /\ Push(s, t, i) = Advance([s EXCEPT !.queue[t] = v], t) /\ v \in Queues
      /\ v.born \in Inputs /\ s.promise[v.born] # "new" /\ Joins(q, v, i)
  BY <1>1, PushJoins
<1>3. v.active = q.active /\ v.ack = q.ack
  BY <1>1, PushJoins
<1>4. v.born = (IF q = NoQueue THEN i ELSE q.born)
  BY <1>1, PushJoins
<1>5. q \in Queues /\ Named(q)
  BY <1>1, NamedIs, DeckFields DEF Loose, Sound
<1>6. Named(v)
  BY <1>5, PushedNamed
<1> HIDE DEF v, q
<1> QED
  BY <1>2, <1>3, <1>4, <1>6, JoinJourney DEF q

(* Making goes on while nothing is sent.                                   *)
LEMMA MakingGoesOn ==
  ASSUME NEW s, NEW w, NEW i, Making(s, w, i), NEW r, Loose(r, i), Journey(r, w), r.pend = s.pend
  PROVE  Making(r, w, i)
BY DEF Making

LEMMA LooseSettles ==
  ASSUME NEW s, NEW w, NEW i \in Inputs, s \in Decks, Journey(s, w), w.loose = {i},
         NEW u, Tight(w, u), NEW code \in NotApplied \cap Codes
  PROVE  Journey(Settle(s, {i}, code), u)
<1>1. Truly(Flying(s, w), w, i, code)
  BY TruthIs DEF Truly, Journey, Loads
<1>2. code \in Codes \cup {"done"} /\ \A j \in {i} \cap Inputs : Truly(Flying(s, w), w, j, code)
  BY <1>1
<1> QED
  BY <1>2, SettleJourney, TightIs

LEMMA RefusedJourney ==
  ASSUME NEW s, NEW w, NEW i \in Inputs, Making(s, w, i), NEW t \in Targets, s.queue[t] # NoQueue,
         NEW v \in Queues, v.born = s.queue[t].born, v.active = s.queue[t].active,
         v.ack = s.queue[t].ack, Named(v), NEW gone, Drops(s.queue[t], v, gone),
         \A j \in gone : \E n \in 1 .. Len(s.queue[t].waiting) : j \in s.queue[t].waiting[n].parts
  PROVE  Making(Refused(s, t, v, gone), w, i)
<1> DEFINE r == Refused(s, t, v, gone)
<1>1. "INPUT_BUSY" \in NotApplied \cap Codes /\ "INPUT_BUSY" \in Codes \cup {"done"}
  BY DEF NotApplied, Codes
<1>2. s \in Decks /\ Good(s, t, {i}) /\ Journey(s, w) /\ Loose(s, i)
  BY DEF Making, Loose, Good, Sound
<1>3. Journey(r, w)
  BY <1>1, <1>2, ThinIs, DropJourney DEF Refused
<1>4. Leaves(s, r, t, {i})
  BY <1>1, <1>2, DropIs, Zenon DEF Refused
<1>5. r.pend = s.pend
  <2> DEFINE e == [s EXCEPT !.queue[t] = v]
  <2>1. e \in Decks /\ Quiet(s, e)
    BY <1>2, SetQueueIs
  <2> HIDE DEF e
  <2>2. Quiet(e, Settle(e, gone, "INPUT_BUSY"))
    BY <1>1, <2>1, SettleIs
  <2> QED
    BY <2>1, <2>2 DEF Quiet, Refused, e
<1> HIDE DEF r
<1>6. Loose(r, i)
  BY <1>2, <1>4, LooseLeaves
<1> QED
  BY <1>3, <1>5, <1>6, MakingGoesOn DEF r

LEMMA PressKeyJourney ==
  ASSUME NEW s, NEW w, NEW i \in Inputs, Making(s, w, i), NEW u, Tight(w, u)
  PROVE  Journey(PressKey(s, i), u)
<1> DEFINE t == Input[i].target  q == s.queue[t]
<1>1. t \in Targets /\ "INPUT_BUSY" \in NotApplied \cap Codes
  BY WireFacts DEF Codes, NotApplied
<1>2. s \in Decks /\ Good(s, t, {i}) /\ Journey(s, w) /\ Loose(s, i) /\ w.loose = {i}
      /\ q \in Queues /\ Trip(s, w, t)
  BY <1>1, DeckFields DEF Making, Loose, Good, Sound, Journey
<1>3. CASE PressKey(s, i) = Push(s, t, i)
  BY <1>1, <1>3, PushJourney
<1>4. CASE PressKey(s, i) = Settle(s, {i}, "INPUT_BUSY")
  BY <1>1, <1>2, <1>4, LooseSettles
<1>5. ASSUME NEW n \in 1 .. Len(q.waiting),
             PressKey(s, i) = Push(Refused(s, t, Removed(q, n), q.waiting[n].parts), t, i)
      PROVE  Journey(PressKey(s, i), u)
  <2> DEFINE v == Removed(q, n)  d == Refused(s, t, v, q.waiting[n].parts)
  <2>1. v \in Queues /\ v.born = q.born /\ q # NoQueue /\ Drops(q, v, q.waiting[n].parts)
    BY <1>1, <1>2, RemovalDrops DEF Removed
  <2>2. Named(v) /\ v.active = q.active /\ v.ack = q.ack
    BY <1>2, NamedIs, RemovedNamed
  <2> HIDE DEF v
  <2>3. Making(d, w, i)
    BY <1>1, <2>1, <2>2, RefusedJourney
  <2> HIDE DEF d
  <2> QED
    BY <1>1, <1>5, <2>3, PushJourney DEF d, v
<1> QED
  BY <1>2, <1>3, <1>4, <1>5, PressedKey

LEMMA RefuseTurnsJourney ==
  ASSUME NEW s, NEW w, NEW i \in Inputs, Making(s, w, i), NEW u, Tight(w, u)
  PROVE  Journey(RefuseTurns(s, i), u)
<1> DEFINE t == Input[i].target
           q == s.queue[t]
           m == Refused(s, t, KeysOf(q), Turned(q))
           a == Advance(m, t)
<1>1. t \in Targets /\ "INPUT_BUSY" \in NotApplied \cap Codes /\ "INPUT_BUSY" \in Codes \cup {"done"}
  BY WireFacts DEF Codes, NotApplied
<1>2. s \in Decks /\ Good(s, t, {i}) /\ Journey(s, w) /\ Loose(s, i) /\ w.loose = {i}
      /\ q \in Queues /\ Trip(s, w, t) /\ Worldly(w)
  BY <1>1, DeckFields DEF Making, Loose, Good, Sound, Journey
<1>3. RefuseTurns(s, i) = Settle(a, {i}, "INPUT_BUSY")
  BY <1>2, RefusedTurns
<1>4. Good(m, t, {i}) /\ Journey(m, w)
  <2>1. CASE q # NoQueue
    <3>1. /\ KeysOf(q) \in Queues /\ KeysOf(q).born = q.born
          /\ Drops(q, KeysOf(q), Turned(q))
      BY <1>1, <1>2, <2>1, KeysDrop
    <3>2. Named(KeysOf(q)) /\ KeysOf(q).active = q.active /\ KeysOf(q).ack = q.ack
      BY <1>2, NamedIs, KeysNamed
    <3>3. \A j \in Turned(q) : \E n \in 1 .. Len(q.waiting) : j \in q.waiting[n].parts
      <4>1. DOMAIN q.waiting = 1 .. Len(q.waiting)
        BY <1>2, QueueFields, LenProperties
      <4> QED
        BY <4>1 DEF Turned, Turns
    <3>4. Making(m, w, i)
      BY <1>1, <2>1, <3>1, <3>2, <3>3, RefusedJourney
    <3> HIDE DEF m
    <3> QED
      BY <1>1, <3>4 DEF Making, Loose, Good
  <2>2. CASE q = NoQueue
    <3>1. m = Settle(s, {}, "INPUT_BUSY")
      BY <1>1, <1>2, <2>2, NoneRefused
    <3> HIDE DEF m
    <3>2. /\ m \in Decks /\ Quiet(s, m) /\ m.queue = s.queue
          /\ \A j \in Inputs : m.promise[j] = s.promise[j]
      BY <1>1, <1>2, <3>1, SettleIs
    <3>3. Leaves(s, m, t, {i})
      BY <1>1, <1>2, <3>2, SameIsLeft
    <3>4. Journey(m, w)
      BY <1>1, <1>2, <3>1, SettleJourney
    <3> QED
      BY <3>3, <3>4 DEF Leaves
  <2> QED
    BY <2>1, <2>2
<1> HIDE DEF m
<1>5. a \in Decks /\ Journey(a, w)
  <2>1. Journey(a, w)
    BY <1>1, <1>2, <1>4, AdvanceJourney
  <2>2. Leaves(m, a, t, {i})
    BY <1>1, <1>4, AdvanceIs
  <2> HIDE DEF a
  <2> QED
    BY <2>1, <2>2 DEF Leaves, Good, Sound
<1> HIDE DEF a
<1> QED
  BY <1>1, <1>2, <1>3, <1>5, LooseSettles

LEMMA TurnDialJourney ==
  ASSUME NEW s, NEW w, NEW i \in Inputs, Making(s, w, i), NEW u, Tight(w, u)
  PROVE  Journey(TurnDial(s, i), u)
<1> DEFINE t == Input[i].target  q == s.queue[t]  v == With(q, i)
<1>1. t \in Targets /\ Loose(s, i) /\ Trip(s, w, t)
  BY WireFacts DEF Making, Journey
<1>2. CASE ~ Turning(q)
  BY <1>1, <1>2, TurnPushes, PushJourney
<1>3. CASE Turning(q)
  <2>1. /\ TurnDial(s, i) = Advance([s EXCEPT !.queue[t] = v], t)
        /\ q # NoQueue /\ v \in Queues /\ v.born \in Inputs /\ s.promise[v.born] # "new"
        /\ Joins(q, v, i)
        /\ v.born = q.born /\ v.active = q.active /\ v.ack = q.ack
        /\ Len(v.waiting) = Len(q.waiting)
        /\ \A n \in 1 .. Len(q.waiting) : v.waiting[n].kind = q.waiting[n].kind
    BY <1>1, <1>3, TurnJoins, ZenonT(120)
  <2>2. Named(q)
    BY <1>1, NamedIs
  <2> HIDE DEF v, q
  <2>3. Named(v)
    BY <2>1, <2>2 DEF Named
  <2>4. v.born = (IF q = NoQueue THEN i ELSE q.born)
    BY <2>1
  <2> QED
    BY <1>1, <2>1, <2>3, <2>4, JoinJourney DEF q
<1> QED
  BY <1>2, <1>3

LEMMA PressJourney ==
  ASSUME NEW s, NEW w, Fares(s, w), s.answers = {}, NEW i \in Inputs, s.promise[i] = "new",
         NEW v, Worldly(v), Makes(w, v, i), NEW u, Tight(v, u),
         \A j \in w.made : j # i => v.pressed[j].n < v.pressed[i].n,
         HasSnap(s) => /\ v.pressed[i].inst = s.snap.inst /\ v.pressed[i].session = s.snap.session
                       /\ v.pressed[i].conn = v.conn,
         NEW r,
         LET m == [s EXCEPT !.promise[i] = "open"]
         IN  \/ r = Settle(m, {i}, "DISCONNECTED")
             \/ HasSnap(s) /\ r \in {PressKey(m, i), RefuseTurns(m, i), TurnDial(m, i)}
  PROVE  Journey(r, u)
<1> DEFINE p == [s.promise EXCEPT ![i] = "open"]
           m == [s EXCEPT !.promise[i] = "open"]
<1>1. s \in Decks /\ AllTidy(s) /\ PendSound(s) /\ s.promise \in [Inputs -> Promises]
  BY FineIs, DeckFields DEF Fares
<1>2. Loose(m, i)
  BY MadeIsLoose DEF Fares
<1>3. m = [s EXCEPT !.promise = p]
  BY <1>1 DEF Decks
<1>4. p[i] = "open" /\ \A j \in Inputs : j # i => p[j] = s.promise[j]
  BY <1>1
<1> HIDE DEF p
<1>5. /\ m.queue = s.queue /\ m.pend = s.pend /\ m.answers = s.answers /\ m.seq = s.seq
      /\ m.out = s.out /\ m.snap = s.snap /\ m.synced = s.synced /\ m.promise = p
  BY <1>1, <1>3 DEF Decks
<1>6. m \in Decks
  BY <1>2 DEF Loose, Sound
<1>7. \/ r = Settle(m, {i}, "DISCONNECTED")
      \/ HasSnap(s) /\ r \in {PressKey(m, i), RefuseTurns(m, i), TurnDial(m, i)}
  OBVIOUS
<1> HIDE DEF m
<1>8. CASE r = Settle(m, {i}, "DISCONNECTED")
  <2>1. "DISCONNECTED" \in Codes
    BY DEF Codes
  <2>2. /\ Quiet(m, r) /\ r.queue = m.queue
        /\ \A j \in Inputs : r.promise[j] = IF j \in {i} /\ m.promise[j] = "open" THEN "DISCONNECTED"
                                            ELSE m.promise[j]
    BY <1>6, <1>8, <2>1, SettleIs
  <2>3. r.promise[i] = "DISCONNECTED" /\ \A j \in Inputs : j # i => r.promise[j] = s.promise[j]
    BY <1>4, <1>5, <2>2
  <2>4. /\ r.queue = s.queue /\ r.pend = s.pend /\ r.answers = s.answers /\ r.seq = s.seq
        /\ r.out = s.out /\ r.snap = s.snap /\ r.synced = s.synced
    BY <1>5, <2>2 DEF Quiet, Untouched
  <2>5. Journey(r, v)
    BY <2>3, <2>4, MadeJourney
  <2> QED
    BY <2>5, TightIs
<1>9. CASE HasSnap(s) /\ r \in {PressKey(m, i), RefuseTurns(m, i), TurnDial(m, i)}
  <2>1. m.promise[i] = "open" /\ \A j \in Inputs : j # i => m.promise[j] = s.promise[j]
    BY <1>4, <1>5
  <2>2. Journey(m, v)
    BY <1>5, <1>9, <2>1, MadeJourney
  <2>3. \A e \in Edits(m.pend) : e.born # i
    BY <1>1, <1>5 DEF Edits, PendSound
  <2>4. v.loose = {i} /\ \A j \in v.made \ {i} : v.pressed[j].n < v.pressed[i].n
    BY DEF Makes
  <2>5. Making(m, v, i)
    BY <1>2, <2>2, <2>3, <2>4 DEF Making
  <2> QED
    BY <1>9, <2>5, PressKeyJourney, RefuseTurnsJourney, TurnDialJourney
<1> QED
  BY <1>7, <1>8, <1>9

(* A key leaves the deck.                                                  *)
LEMMA CancelOneJourney ==
  ASSUME NEW s, NEW w, Worldly(w), w.loose = {}, Sound(s), Journey(s, w), NEW t \in Targets,
         NEW gone \in SUBSET Inputs, Tidy(s, t, {}, gone), \A i \in gone : s.promise[i] # "open"
  PROVE  Journey(Advance([s EXCEPT !.queue[t] = Rest(s.queue[t], gone)], t), w)
<1> DEFINE q == s.queue[t]  v == Rest(q, gone)  m == [s EXCEPT !.queue[t] = v]
<1>1. s \in Decks /\ q \in Queues /\ Trip(s, w, t)
  BY DeckFields DEF Sound, Journey
<1>2. Good(m, t, {})
  BY LeftIs DEF Leaves
<1>3. /\ v \in Queues /\ v.born = q.born /\ v.active.parts = q.active.parts \ gone
      /\ v.active.kind = q.active.kind /\ v.active.retrying = q.active.retrying
      /\ v.ack = q.ack /\ (q = NoQueue => v = NoQueue)
      /\ Remains(q, v, gone)
      /\ \A n \in 1 .. Len(v.waiting) : \E k \in 1 .. Len(q.waiting) :
            v.waiting[n].kind = q.waiting[k].kind
  BY <1>1, RestOf
<1> HIDE DEF v
<1>4. Journey(m, w)
  <2>1. CASE q = NoQueue
    <3>1. s.queue = [s.queue EXCEPT ![t] = NoQueue]
      BY <1>1, <2>1, DeckFields
    <3>2. m = s
      BY <1>1, <1>3, <2>1, <3>1 DEF Decks
    <3> QED
      BY <3>2
  <2>2. CASE q # NoQueue
    <3>1. Named(v)
      <4>1. Named(q)
        BY <1>1, NamedIs
      <4> HIDE DEF q
      <4> QED
        BY <1>3, <4>1 DEF Named
    <3>2. Thins(q, v)
      <4>1. PICK back \in [Places(v) -> Places(q)] :
              /\ \A n \in Places(v) : Place(v, n) = Place(q, back[n]) \ gone
              /\ \A n, k \in Places(v) : n < k => back[n] < back[k]
        BY <1>3 DEF Remains
      <4>2. \A n \in Places(v) : Place(v, n) \subseteq Place(q, back[n])
        BY <4>1
      <4> HIDE DEF q
      <4> QED
        BY <4>1, <4>2 DEF Thins
    <3>3. v.active.parts \subseteq q.active.parts
      BY <1>3
    <3> QED
      BY <1>1, <1>3, <2>2, <3>1, <3>2, <3>3, PutJourney
  <2> QED
    BY <2>1, <2>2
<1> HIDE DEF m
<1>5. w.loose \subseteq {}
  OBVIOUS
<1> QED
  BY <1>2, <1>4, <1>5, AdvanceJourney DEF m, v

LEMMA CancelJourney ==
  ASSUME NEW deck, NEW w, Worldly(w), w.loose = {}, Fares(deck, w), NEW gone \in SUBSET Inputs
  PROVE  Journey(AllCancelled(Settle(deck, gone, "STALE_INPUT"), gone), w)
<1> DEFINE b == Settle(deck, gone, "STALE_INPUT")
           R == {r \in Decks : /\ Sound(r) /\ Journey(r, w) /\ \A t \in Targets : Tidy(r, t, {}, gone)
                               /\ \A i \in gone : r.promise[i] # "open"}
           D == Targets \X Decks
           last == AllCancelled(b, gone)
<1>1. b \in R
  <2>1. AllGood(deck) /\ deck \in Decks /\ Journey(deck, w)
    BY FineIs DEF Fares
  <2>2. /\ b \in Decks /\ Sound(b) /\ \A t \in Targets : Tidy(b, t, {}, gone)
        /\ \A i \in gone : b.promise[i] # "open"
    BY <2>1, SettledIs
  <2>3. "STALE_INPUT" \in Codes \cup {"done"} /\ \A i : Truly(Flying(deck, w), w, i, "STALE_INPUT")
    BY TruthIs DEF Codes
  <2>4. Journey(b, w)
    BY <2>1, <2>3, SettleJourney
  <2> QED
    BY <2>2, <2>4
<1>2. ASSUME NEW t \in Targets, NEW s \in R
      PROVE  LET e == Cancelled(t, s, gone)
             IN  /\ e \in R /\ <<t, e>> \in D
                 /\ \A u \in Targets : u # t /\ <<u, s>> \in D => <<u, e>> \in D
  <2> DEFINE e == Advance([s EXCEPT !.queue[t] = Rest(s.queue[t], gone)], t)
  <2>1. s \in Decks /\ Sound(s) /\ Journey(s, w) /\ \A u \in Targets : Tidy(s, u, {}, gone)
        /\ \A i \in gone : s.promise[i] # "open"
    OBVIOUS
  <2>2. Cancelled(t, s, gone) = e
    BY <2>1, CancelledIs
  <2>3. /\ Sound(e) /\ \A u \in Targets : Tidy(e, u, {}, gone)
        /\ \A i \in gone : e.promise[i] # "open"
    BY <2>1, CancelOneIs
  <2>4. Journey(e, w)
    BY <2>1, CancelOneJourney
  <2> HIDE DEF e
  <2>5. e \in Decks
    BY <2>3 DEF Sound
  <2>6. e \in R
    BY <2>3, <2>4, <2>5
  <2> QED
    BY <2>2, <2>5, <2>6
<1> HIDE DEF R, D, b
<1>3. last \in R
  BY <1>1, <1>2, CancelsIn
<1> QED
  BY <1>3 DEF last, b, R

-----------------------------------------------------------------------------
(* What the messages mean. *)

(* The inputs of an intent are alike, and what an edit sets is what they   *)
(* do to the value the deck knows, under its revision.                     *)
OneKind(x, t) == \A i \in x.parts : Input[i].target = t /\ Input[i].kind = x.kind
Uniform(q, t) == OneKind(q.active, t) /\ \A n \in 1 .. Len(q.waiting) : OneKind(q.waiting[n], t)
Meant(s, m) ==
  \A i \in Parts(m) :
     /\ HasSnap(s) /\ Input[i].target = m.target
     /\ IF Computed(Input[i].kind)
        THEN /\ m.op = "set" /\ m.ifRevision = s.snap.rev
             /\ m.value = Effect(Input[i].kind, s.snap.val[m.target], Cardinality(m.parts))
        ELSE m.op = "toggle"
Voiced(s) == \A n \in 1 .. Len(s.out) : Meant(s, s.out[n])

(* An ack says where the inputs it is for were applied, wherever it is:    *)
(* with the queue, about to be told to it, or on its way.                  *)
Gives(w, i, a) == \A n \in DOMAIN w.applied[i] : w.applied[i][n] = a
Dates(w, i, d) ==
  \A n \in DOMAIN w.applied[i] : w.applied[i][n].session = d.session /\ w.applied[i][n].rev = d.rev
Backed(s, w, t) ==
  \A i \in s.queue[t].active.parts :
     /\ s.queue[t].ack # NoAck => Gives(w, i, s.queue[t].ack)
     /\ \A a \in Replied(s, t) : a.code = "ack" => Gives(w, i, a.ack)
     /\ \A p \in Asked(s, t), d \in w.heard : d.id = p.id /\ d.type = "ack" => Dates(w, i, d)
Heeds(s, w) == \A d \in w.heard : d.id \in Nat /\ d.id <= s.seq

(* P are the inputs that were done before the callback: what it reports    *)
(* done is in what the deck shows.                                         *)
Shown(s, w, P) ==
  \A i \in Inputs \ P : s.promise[i] = "done" =>
     Ready(s) /\ \A n \in DOMAIN w.applied[i] : s.snap.inst = w.applied[i][n].inst
                                                /\ s.snap.rev >= w.applied[i][n].rev
Undone(s, P) == \A i \in Inputs : s.promise[i] = "done" => i \in P
Means(s, w, P) == /\ Voiced(s) /\ Heeds(s, w) /\ Shown(s, w, P)
                  /\ \A t \in Targets : Uniform(s.queue[t], t) /\ Backed(s, w, t)

(* A queue that gives up some of what it has out learns nothing wrong.     *)
Lessens(q, v) == \/ v.active.parts = {}
                 \/ /\ v.born = q.born /\ v.active.parts \subseteq q.active.parts
                    /\ v.ack \in {q.ack, NoAck}
LEMMA BackingStays ==
  ASSUME NEW s, NEW r, NEW w, NEW t, Backed(s, w, t), Lessens(s.queue[t], r.queue[t]),
         Edits(r.pend) \subseteq Edits(s.pend), \A a \in r.answers : a \in s.answers \/ a.code # "ack"
  PROVE  Backed(r, w, t)
<1>1. CASE r.queue[t].active.parts = {}
  BY <1>1 DEF Backed
<1>2. CASE r.queue[t].active.parts # {}
  <2>1. /\ r.queue[t].born = s.queue[t].born /\ r.queue[t].active.parts \subseteq s.queue[t].active.parts
        /\ r.queue[t].ack \in {s.queue[t].ack, NoAck}
    BY <1>2 DEF Lessens
  <2>2. Asked(r, t) \subseteq Asked(s, t)
    BY <2>1 DEF Asked
  <2>3. \A a \in Replied(r, t) : a.code = "ack" => a \in Replied(s, t)
    BY <2>1 DEF Replied
  <2> QED
    BY <2>1, <2>2, <2>3 DEF Backed
<1> QED
  BY <1>1, <1>2

LEMMA MeansGoesOn ==
  ASSUME NEW s \in Decks, NEW r \in Decks, NEW w, NEW P, Means(s, w, P), s.seq <= r.seq,
         Edits(r.pend) \subseteq Edits(s.pend), \A a \in r.answers : a \in s.answers \/ a.code # "ack",
         \A t \in Targets : \/ r.queue[t] = s.queue[t]
                            \/ Lessens(s.queue[t], r.queue[t]) /\ Uniform(r.queue[t], t),
         Voiced(r), Shown(r, w, P)
  PROVE  Means(r, w, P)
<1>1. \A t \in Targets : Lessens(s.queue[t], r.queue[t]) /\ Uniform(r.queue[t], t)
  BY DEF Means, Lessens
<1>2. \A t \in Targets : Backed(r, w, t)
  BY <1>1, BackingStays DEF Means
<1>3. Heeds(r, w)
  <2>1. s.seq \in Nat /\ r.seq \in Nat
    BY DeckFields
  <2> QED
    BY <2>1 DEF Means, Heeds
<1> QED
  BY <1>1, <1>2, <1>3 DEF Means

LEMMA SpeechStays ==
  ASSUME NEW s, NEW r, Voiced(s), r.out = s.out, r.snap = s.snap
  PROVE  Voiced(r)
BY DEF Voiced, Meant, HasSnap

LEMMA ShownStays ==
  ASSUME NEW s, NEW r, NEW w, NEW P, Shown(s, w, P), r.snap = s.snap, Ready(s) => Ready(r),
         \A i \in Inputs : r.promise[i] = "done" => s.promise[i] = "done"
  PROVE  Shown(r, w, P)
BY DEF Shown

LEMMA NothingIsShown ==
  ASSUME NEW r, NEW w, NEW P, Undone(r, P)
  PROVE  Shown(r, w, P)
BY DEF Shown, Undone

(* Work on the queues that sends nothing and finishes nothing.             *)
LEMMA QuietMeans ==
  ASSUME NEW s \in Decks, NEW r \in Decks, NEW w, NEW P, Means(s, w, P), Quiet(s, r),
         \A i \in Inputs : r.promise[i] = "done" => s.promise[i] = "done",
         \A t \in Targets : \/ r.queue[t] = s.queue[t]
                            \/ Lessens(s.queue[t], r.queue[t]) /\ Uniform(r.queue[t], t)
  PROVE  Means(r, w, P)
<1>1. /\ r.snap = s.snap /\ r.status = s.status /\ r.synced = s.synced /\ r.answers = s.answers
      /\ r.seq = s.seq /\ r.pend = s.pend /\ r.out = s.out
  BY DEF Quiet, Untouched
<1>2. Voiced(r)
  BY <1>1, SpeechStays DEF Means
<1>3. Shown(r, w, P)
  BY <1>1, ShownStays DEF Means, Ready
<1>4. s.seq <= r.seq
  BY <1>1, DeckFields
<1> QED
  BY <1>1, <1>2, <1>3, <1>4, MeansGoesOn

(* Without queues and with nothing said there is nothing to be true of.    *)
LEMMA ClearedMeans ==
  ASSUME NEW r \in Decks, NEW w, NEW P, Cleared(r), r.out = << >>, Heeds(r, w), Undone(r, P)
  PROVE  Means(r, w, P)
<1>1. Voiced(r)
  BY DEF Voiced
<1>2. \A t \in Targets : Uniform(r.queue[t], t) /\ Backed(r, w, t)
  BY EmptyQueue DEF Cleared, Uniform, Backed, OneKind
<1> QED
  BY <1>1, <1>2, NothingIsShown DEF Means

LEMMA FailMeans ==
  ASSUME NEW s \in Decks, NEW t \in Targets, NEW code \in Codes, NEW w, NEW P, Means(s, w, P)
  PROVE  LET r == FailTarget(s, t, code)
         IN  /\ r \in Decks /\ Means(r, w, P) /\ Quiet(s, r) /\ r.queue[t] = NoQueue
             /\ \A u \in Targets : u # t => r.queue[u] = s.queue[u]
             /\ \A i \in Inputs : r.promise[i] = "done" => s.promise[i] = "done"
<1> DEFINE q == s.queue[t]
           m == Settle(s, q.active.parts, code)
           n == Settle(m, PartsOf(q.waiting), "STALE_INPUT")
           r == [n EXCEPT !.queue[t] = NoQueue]
<1>1. FailTarget(s, t, code) = r
  BY DEF FailTarget
<1>2. /\ m \in Decks /\ Quiet(s, m) /\ m.queue = s.queue
      /\ \A i \in Inputs : m.promise[i] = IF i \in q.active.parts /\ s.promise[i] = "open" THEN code
                                          ELSE s.promise[i]
  BY SettleIs
<1>3. "STALE_INPUT" \in Codes \cup {"done"} /\ "STALE_INPUT" # "done" /\ code # "done"
  BY Empties DEF Codes
<1> HIDE DEF m
<1>4. /\ n \in Decks /\ Quiet(m, n) /\ n.queue = m.queue
      /\ \A i \in Inputs : n.promise[i] = IF i \in PartsOf(q.waiting) /\ m.promise[i] = "open"
                                          THEN "STALE_INPUT" ELSE m.promise[i]
  BY <1>2, <1>3, SettleIs
<1> HIDE DEF n
<1>5. /\ r \in Decks /\ Quiet(n, r) /\ r.promise = n.promise
      /\ r.queue[t] = NoQueue /\ \A u \in Targets : u # t => r.queue[u] = n.queue[u]
  BY <1>4, Empties, SetQueueIs
<1> HIDE DEF r
<1>6. Quiet(s, r) /\ \A u \in Targets : u # t => r.queue[u] = s.queue[u]
  BY <1>2, <1>4, <1>5, QuietGoesOn
<1>7. \A i \in Inputs : r.promise[i] = "done" => s.promise[i] = "done"
  BY <1>2, <1>3, <1>4, <1>5
<1>8. Lessens(s.queue[t], r.queue[t]) /\ Uniform(r.queue[t], t)
  BY <1>5, EmptyQueue DEF Lessens, Uniform, OneKind
<1>9. Means(r, w, P)
  BY <1>5, <1>6, <1>7, <1>8, QuietMeans
<1> QED
  BY <1>1, <1>5, <1>6, <1>7, <1>9

(* What goes is computed from the snapshot and expected under a new number.*)
LEMMA DispatchMeans ==
  ASSUME NEW s \in Decks, NEW w, NEW P, Means(s, w, P), NEW t \in Targets, HasSnap(s), Still(s, t)
  PROVE  Means(Dispatch(s, t), w, P)
<1>1. CASE t \notin s.snap.has
  <2>1. "NOT_FOUND" \in Codes
    BY DEF Codes
  <2>2. Dispatch(s, t) = FailTarget(s, t, "NOT_FOUND")
    BY <1>1 DEF Dispatch
  <2> QED
    BY <2>1, <2>2, FailMeans
<1>2. CASE t \in s.snap.has
  <2> DEFINE q == s.queue[t]  x == q.active  id == s.seq + 1
             v == [q EXCEPT !.active = Sent(x)]
             m == [s EXCEPT !.queue[t] = v]
             op == IF Computed(x.kind) THEN "set" ELSE "toggle"
             value == IF Computed(x.kind) THEN Effect(x.kind, s.snap.val[t], Cardinality(x.parts)) ELSE 0
             p == [id |-> id, op |-> "edit", target |-> t, born |-> q.born, session |-> s.snap.session]
             msg == EditCommand(id, s.snap.session, Revision(s, x), op, t, value, x.parts)
             r == Issue(m, p, msg)
  <2>1. s \in Decks /\ q \in Queues /\ x \in Intents /\ s.seq \in Nat /\ s.out \in Seq(UpMessages)
        /\ s.pend \in SUBSET (StateRequests \cup EditRequests)
    BY DeckFields, QueueFields
  <2>2. m = [s EXCEPT !.queue[t].active = Sent(@)]
    BY <2>1 DEF Decks
  <2>3. Dispatch(s, t) = r
    BY <1>2, <2>2 DEF Dispatch
  <2>4. /\ v \in Queues /\ v.active.parts = x.parts /\ v.active.kind = x.kind
        /\ v.waiting = q.waiting /\ v.born = q.born /\ v.ack = q.ack
    <3>1. Sent(x) \in Intents /\ Sent(x).parts = x.parts /\ Sent(x).kind = x.kind
      BY <2>1 DEF Sent, Intents
    <3> QED
      BY <2>1, <3>1 DEF Queues
  <2>5. /\ msg.type = "command" /\ msg.op = op /\ msg.ifRevision = Revision(s, x) /\ msg.target = t
        /\ msg.value = value /\ msg.parts = x.parts
    BY DEF EditCommand
  <2>6. /\ p.id = id /\ p.op = "edit" /\ p.target = t /\ p.born = q.born
    OBVIOUS
  <2>7. /\ m \in Decks /\ Quiet(s, m) /\ m.promise = s.promise
        /\ m.queue[t] = v /\ \A u \in Targets : u # t => m.queue[u] = s.queue[u]
    <3> HIDE DEF v
    <3> QED
      BY <2>1, <2>4, SetQueueIs
  <2> HIDE DEF m, p, msg
  <2>8. /\ Untouched(m, r) /\ r.queue = m.queue /\ r.promise = m.promise
        /\ r.seq = m.seq + 1 /\ r.pend = m.pend \cup {p} /\ r.out = Append(m.out, msg)
    BY <2>7 DEF Issue, Decks, Untouched
  <2> HIDE DEF r
  <2>9. /\ r.seq = s.seq + 1 /\ r.pend = s.pend \cup {p} /\ r.promise = s.promise
        /\ r.out = Append(s.out, msg) /\ r.answers = s.answers /\ r.snap = s.snap
        /\ r.status = s.status /\ r.synced = s.synced
    BY <2>7, <2>8 DEF Quiet, Untouched
  <2>10. r.queue[t] = v /\ \A u \in Targets : u # t => r.queue[u] = s.queue[u]
    BY <2>7, <2>8
  <2>11. Uniform(q, t) /\ Uniform(v, t)
    <3>1. Uniform(q, t)
      BY DEF Means
    <3> QED
      BY <2>4, <3>1 DEF Uniform, OneKind
  <2>12. Meant(s, msg)
    <3>1. Parts(msg) \subseteq x.parts
      BY <2>5 DEF Parts
    <3>2. \A i \in x.parts : Input[i].target = t /\ Input[i].kind = x.kind
      BY <2>11 DEF Uniform, OneKind
    <3>3. CASE Computed(x.kind)
      <4>1. msg.op = "set" /\ msg.ifRevision = s.snap.rev
            /\ msg.value = Effect(x.kind, s.snap.val[t], Cardinality(x.parts))
        BY <2>5, <3>3 DEF Revision
      <4> HIDE DEF x
      <4> QED
        BY <2>5, <3>1, <3>2, <3>3, <4>1 DEF Meant
    <3>4. CASE ~ Computed(x.kind)
      <4>1. msg.op = "toggle"
        BY <2>5, <3>4
      <4> HIDE DEF x
      <4> QED
        BY <2>5, <3>1, <3>2, <3>4, <4>1 DEF Meant
    <3> QED
      BY <3>3, <3>4
  <2>13. Voiced(r)
    <3> SUFFICES ASSUME NEW n \in 1 .. Len(r.out)
                 PROVE  Meant(s, r.out[n])
      BY <2>9 DEF Voiced, Meant, HasSnap
    <3>1. CASE n \in 1 .. Len(s.out)
      <4>1. r.out[n] = s.out[n]
        BY <2>1, <2>9, <3>1
      <4> QED
        BY <3>1, <4>1 DEF Means, Voiced
    <3>2. CASE n \notin 1 .. Len(s.out)
      <4>1. r.out[n] = msg
        BY <2>1, <2>9, <3>2
      <4> QED
        BY <2>12, <4>1
    <3> QED
      BY <3>1, <3>2
  <2>14. Heeds(r, w)
    BY <2>1, <2>9 DEF Means, Heeds
  <2>15. Shown(r, w, P)
    BY <2>9, ShownStays DEF Means, Ready
  <2>16. ASSUME NEW u \in Targets, u # t
         PROVE  Backed(r, w, u)
    <3>1. Asked(r, u) = Asked(s, u) /\ Replied(r, u) = Replied(s, u) /\ r.queue[u] = s.queue[u]
      BY <2>6, <2>9, <2>10, <2>16 DEF Asked, Replied, Edits
    <3>2. Backed(s, w, u)
      BY DEF Means
    <3> QED
      BY <3>1, <3>2 DEF Backed
  <2>17. Backed(r, w, t)
    <3>1. Asked(r, t) = {p} /\ Replied(r, t) = {}
      <4>1. Asked(s, t) = {} /\ Replied(s, t) = {} /\ r.queue[t].born = s.queue[t].born
        BY <2>4, <2>10 DEF Still
      <4> QED
        BY <2>6, <2>9, <4>1 DEF Asked, Replied, Edits
    <3>2. \A d \in w.heard : d.id # p.id
      BY <2>1, <2>6 DEF Means, Heeds
    <3>3. Backed(s, w, t) /\ r.queue[t].active.parts = s.queue[t].active.parts
          /\ r.queue[t].ack = s.queue[t].ack
      BY <2>4, <2>10 DEF Means
    <3> HIDE DEF v, q, x
    <3> QED
      BY <3>1, <3>2, <3>3 DEF Backed
  <2>18. \A u \in Targets : Uniform(r.queue[u], u) /\ Backed(r, w, u)
    <3>1. \A u \in Targets : u # t => Uniform(r.queue[u], u)
      BY <2>10 DEF Means
    <3> QED
      BY <2>10, <2>11, <2>16, <2>17, <3>1
  <2> QED
    BY <2>3, <2>13, <2>14, <2>15, <2>18 DEF Means
<1> QED
  BY <1>1, <1>2

(* A queue that has nothing out waits for no answer.                       *)
Calm(s, t) ==
  s.queue[t] # NoQueue =>
     /\ s.queue[t].active.kind = "none" => s.queue[t].ack = NoAck
     /\ \/ s.queue[t].active.kind = "none" \/ s.queue[t].active.retrying \/ s.queue[t].ack # NoAck
        => Still(s, t)
LEMMA CalmIs ==
  ASSUME NEW s, NEW w, NEW t \in Targets, Journey(s, w)
  PROVE  Calm(s, t)
<1>1. Trip(s, w, t)
  BY DEF Journey
<1>2. s.queue[t].active.kind = "none" => s.queue[t].ack = NoAck
  BY <1>1 DEF Trip, Known
<1> QED
  BY <1>1, <1>2, StillIs DEF Calm

LEMMA StillStays ==
  ASSUME NEW s, NEW r, NEW t, Still(s, t), Quiet(s, r), r.queue[t].born = s.queue[t].born
  PROVE  Still(r, t)
BY DEF Still, Asked, Replied, Edits, Quiet, Untouched

LEMMA CalmStays ==
  ASSUME NEW s, NEW r, NEW t, Calm(s, t), Quiet(s, r), s.queue[t] # NoQueue,
         r.queue[t].born = s.queue[t].born,
         r.queue[t].active.kind = s.queue[t].active.kind,
         r.queue[t].active.retrying = s.queue[t].active.retrying, r.queue[t].ack = s.queue[t].ack
  PROVE  Calm(r, t)
BY StillStays DEF Calm

LEMMA StartNextMeans ==
  ASSUME NEW s \in Decks, NEW w, NEW P, Means(s, w, P), NEW t \in Targets, HasSnap(s), Still(s, t),
         s.queue[t].ack = NoAck
  PROVE  Means(StartNext(s, t), w, P)
<1> DEFINE q == s.queue[t]
<1>0. q \in Queues /\ q.waiting \in Seq(Intents) /\ Len(q.waiting) \in Nat
  BY DeckFields, QueueFields
<1>1. CASE q.waiting = << >>
  <2> DEFINE r == [s EXCEPT !.queue[t] = NoQueue]
  <2>1. StartNext(s, t) = r
    BY <1>1 DEF StartNext
  <2>2. /\ r \in Decks /\ Quiet(s, r) /\ r.promise = s.promise
        /\ r.queue[t] = NoQueue /\ \A u \in Targets : u # t => r.queue[u] = s.queue[u]
    BY Empties, SetQueueIs
  <2> HIDE DEF r
  <2>3. Lessens(s.queue[t], r.queue[t]) /\ Uniform(r.queue[t], t)
    BY <2>2, EmptyQueue DEF Lessens, Uniform, OneKind
  <2>4. Means(r, w, P)
    BY <2>2, <2>3, QuietMeans
  <2> QED
    BY <2>1, <2>4
<1>2. CASE q.waiting # << >> /\ ~ q.waiting[1].ripe
  BY <1>2 DEF StartNext, NextOf
<1>3. CASE q.waiting # << >> /\ q.waiting[1].ripe
  <2> DEFINE v == RemoveAt(q.waiting, 1)
             z == [q EXCEPT !.active = q.waiting[1], !.waiting = v]
             y == [q EXCEPT !.active = NoIntent]
             m == [s EXCEPT !.queue[t] = z]
  <2>1. StartNext(s, t) = Dispatch(m, t)
    <3>1. m = [s EXCEPT !.queue[t].active = q.waiting[1], !.queue[t].waiting = RemoveAt(@, 1)]
      BY <1>0 DEF Decks, Queues
    <3> QED
      BY <1>3, <3>1 DEF StartNext, NextOf
  <2>2. 1 \in 1 .. Len(q.waiting) /\ q.waiting[1] \in Intents
    BY <1>0, <1>3, EmptySeq, QueueFields
  <2>3. /\ v \in Seq(Intents) /\ Len(v) = Len(q.waiting) - 1
        /\ \A n \in 1 .. Len(q.waiting) - 1 : v[n] = IF n < 1 THEN q.waiting[n] ELSE q.waiting[n + 1]
    BY <1>0, <2>2, RemoveAtIs
  <2> HIDE DEF v
  <2>4. z \in Queues /\ z.born = q.born /\ z.active = q.waiting[1] /\ z.waiting = v /\ z.ack = q.ack
    BY <1>0, <2>2, <2>3 DEF Queues
  <2> HIDE DEF z
  <2>5. /\ m \in Decks /\ Quiet(s, m) /\ m.promise = s.promise
        /\ m.queue[t] = z /\ \A u \in Targets : u # t => m.queue[u] = s.queue[u]
    BY <2>4, SetQueueIs
  <2> HIDE DEF m
  <2>6. Still(m, t)
    BY <2>4, <2>5, StillStays
  <2>7. Uniform(z, t)
    <3>1. \A n \in 1 .. Len(q.waiting) : OneKind(q.waiting[n], t)
      BY DEF Means, Uniform
    <3>2. \A n \in 1 .. Len(v) : v[n] = q.waiting[n + 1] /\ n + 1 \in 1 .. Len(q.waiting)
      BY <1>0, <2>3
    <3> HIDE DEF q
    <3> QED
      BY <2>2, <2>4, <3>1, <3>2 DEF Uniform
  <2>8. Means(m, w, P)
    <3>1. Voiced(m) /\ Heeds(m, w) /\ Shown(m, w, P)
      <4>1. m.snap = s.snap /\ m.status = s.status /\ m.synced = s.synced /\ m.out = s.out /\ m.seq = s.seq
        BY <2>5 DEF Quiet, Untouched
      <4> QED
        BY <2>5, <4>1, SpeechStays, ShownStays DEF Means, Ready, Heeds
    <3>2. Backed(m, w, t)
      BY <2>4, <2>5, <2>6 DEF Still, Backed
    <3>3. ASSUME NEW u \in Targets, u # t
          PROVE  Uniform(m.queue[u], u) /\ Backed(m, w, u)
      <4>1. m.queue[u] = s.queue[u] /\ Edits(m.pend) \subseteq Edits(s.pend) /\ m.answers = s.answers
        BY <2>5, <3>3 DEF Quiet, Untouched
      <4> QED
        BY <4>1, BackingStays DEF Means, Lessens
    <3> QED
      BY <2>5, <2>7, <3>1, <3>2, <3>3 DEF Means
  <2>9. HasSnap(m)
    BY <2>5 DEF Quiet, Untouched, HasSnap
  <2> QED
    BY <2>1, <2>5, <2>6, <2>8, <2>9, DispatchMeans
<1> QED
  BY <1>1, <1>2, <1>3

LEMMA SendAgainMeans ==
  ASSUME NEW s \in Decks, NEW w, NEW P, Means(s, w, P), NEW t \in Targets, HasSnap(s), Calm(s, t),
         s.queue[t] # NoQueue
  PROVE  Means(SendAgain(s, t), w, P)
<1> DEFINE x == s.queue[t].active
<1>1. CASE ~ x.retrying
  BY <1>1 DEF SendAgain
<1>2. CASE x.retrying /\ x.parts = {}
  <2>1. SendAgain(s, t) = FailTarget(s, t, "INPUT_EXPIRED") /\ "INPUT_EXPIRED" \in Codes
    BY <1>2 DEF SendAgain, Codes
  <2> QED
    BY <2>1, FailMeans
<1>3. CASE x.retrying /\ x.parts # {}
  <2>1. SendAgain(s, t) = Dispatch(s, t) /\ Still(s, t)
    BY <1>3 DEF SendAgain, Calm
  <2> QED
    BY <2>1, DispatchMeans
<1> QED
  BY <1>1, <1>2, <1>3

(* What is reported done has reached the snapshot.                         *)
LEMMA AdvanceMeans ==
  ASSUME NEW s \in Decks, NEW w, NEW P, Means(s, w, P), NEW t \in Targets, Calm(s, t)
  PROVE  Means(Advance(s, t), w, P)
<1> DEFINE q == s.queue[t]
<1>1. q \in Queues
  BY DeckFields
<1>2. CASE q = NoQueue \/ ~ HasSnap(s) \/ ~ Ready(s)
  BY <1>2 DEF Advance
<1>3. CASE q # NoQueue /\ HasSnap(s) /\ Ready(s) /\ q.active = NoIntent
  <2>1. Advance(s, t) = StartNext(s, t)
    BY <1>3 DEF Advance
  <2>2. Still(s, t) /\ q.ack = NoAck
    BY <1>3 DEF Calm, NoIntent
  <2> QED
    BY <1>3, <2>1, <2>2, StartNextMeans
<1>4. CASE q # NoQueue /\ HasSnap(s) /\ Ready(s) /\ q.active # NoIntent /\ Reached(s, q)
  <2> DEFINE z == [q EXCEPT !.active = NoIntent, !.ack = NoAck]
             gone == q.active.parts
             e == [s EXCEPT !.queue[t] = z]
             m == Settle(e, gone, "done")
  <2>1. [s EXCEPT !.queue[t].active = NoIntent, !.queue[t].ack = NoAck] = [s EXCEPT !.queue[t] = z]
    BY <1>1 DEF Decks, Queues
  <2>2. Advance(s, t) = StartNext(m, t)
    BY <1>4, <2>1 DEF Advance
  <2>3. z \in Queues /\ z.born = q.born /\ z.active = NoIntent /\ z.waiting = q.waiting /\ z.ack = NoAck
    BY <1>1, Empties DEF Queues
  <2> HIDE DEF z
  <2>4. /\ e \in Decks /\ Quiet(s, e) /\ e.promise = s.promise
        /\ e.queue[t] = z /\ \A u \in Targets : u # t => e.queue[u] = s.queue[u]
    BY <2>3, SetQueueIs
  <2> HIDE DEF e
  <2>5. /\ m \in Decks /\ Quiet(e, m) /\ m.queue = e.queue
        /\ \A i \in Inputs : m.promise[i] = IF i \in gone /\ e.promise[i] = "open" THEN "done"
                                            ELSE e.promise[i]
    <3>1. "done" \in Codes \cup {"done"}
      OBVIOUS
    <3> HIDE DEF gone
    <3> QED
      BY <2>4, <3>1, SettleIs
  <2> HIDE DEF m
  <2>6. /\ Quiet(s, m) /\ m.queue[t] = z /\ \A u \in Targets : u # t => m.queue[u] = s.queue[u]
    BY <2>4, <2>5, QuietGoesOn
  <2>7. /\ m.snap = s.snap /\ m.status = s.status /\ m.synced = s.synced /\ m.answers = s.answers
        /\ m.seq = s.seq /\ m.pend = s.pend /\ m.out = s.out
    BY <2>6 DEF Quiet, Untouched
  <2>8. Still(s, t) /\ s.queue[t].ack # NoAck
    BY <1>4 DEF Calm, Reached
  <2>9. Shown(m, w, P)
    <3> SUFFICES ASSUME NEW i \in Inputs \ P, m.promise[i] = "done"
                 PROVE  Ready(m) /\ \A n \in DOMAIN w.applied[i] :
                           m.snap.inst = w.applied[i][n].inst /\ m.snap.rev >= w.applied[i][n].rev
      BY DEF Shown
    <3>1. CASE s.promise[i] = "done"
      BY <2>7, <3>1 DEF Means, Shown, Ready
    <3>2. CASE s.promise[i] # "done"
      <4>1. i \in gone
        BY <2>4, <2>5, <3>2
      <4>2. Gives(w, i, q.ack)
        BY <2>8, <4>1 DEF Means, Backed
      <4>3. s.snap.inst = q.ack.inst /\ s.snap.rev >= q.ack.rev
        BY <1>4 DEF Reached
      <4> HIDE DEF q
      <4> QED
        BY <1>4, <2>7, <4>2, <4>3 DEF Gives, Ready
    <3> QED
      BY <3>1, <3>2
  <2>10. Voiced(m)
    BY <2>7, SpeechStays DEF Means
  <2>11. Lessens(s.queue[t], m.queue[t]) /\ Uniform(m.queue[t], t)
    <3>1. Uniform(q, t)
      BY DEF Means
    <3> QED
      BY <2>3, <2>6, <3>1, EmptyQueue DEF Lessens, Uniform, OneKind
  <2>12. Means(m, w, P)
    <3>1. s.seq <= m.seq
      BY <2>7, DeckFields
    <3> QED
      BY <2>5, <2>6, <2>7, <2>9, <2>10, <2>11, <3>1, MeansGoesOn
  <2>13. Still(m, t) /\ m.queue[t].ack = NoAck /\ HasSnap(m)
    BY <1>4, <2>3, <2>6, <2>7, <2>8, StillStays DEF HasSnap
  <2> QED
    BY <2>2, <2>5, <2>12, <2>13, StartNextMeans
<1>5. CASE q # NoQueue /\ HasSnap(s) /\ Ready(s) /\ q.active # NoIntent /\ ~ Reached(s, q)
  <2>1. Advance(s, t) = SendAgain(s, t)
    BY <1>5 DEF Advance
  <2> QED
    BY <1>5, <2>1, SendAgainMeans
<1> QED
  BY <1>2, <1>3, <1>4, <1>5

LEMMA AdvanceAllMeans ==
  ASSUME NEW s, NEW w, NEW P, Worldly(w), w.loose = {}, AllGood(s), Journey(s, w), Means(s, w, P)
  PROVE  Means(AdvanceAll(s), w, P)
<1> DEFINE R == {r \in Decks : AllGood(r) /\ Journey(r, w) /\ Means(r, w, P)}
<1>1. s \in R
  BY DEF AllGood, Sound
<1>2. ASSUME NEW t \in Targets, NEW r \in R
      PROVE  Advance(r, t) \in R
  <2>1. Good(r, t, {}) /\ AllGood(r) /\ Journey(r, w) /\ Means(r, w, P) /\ r \in Decks
    BY DEF AllGood, Good
  <2>2. Leaves(r, Advance(r, t), t, {})
    BY <2>1, AdvanceIs
  <2>3. AllGood(Advance(r, t)) /\ Advance(r, t) \in Decks
    BY <2>1, <2>2, OneMoves DEF Leaves, Good, Sound
  <2>4. Journey(Advance(r, t), w)
    BY <2>1, AdvanceJourney
  <2>5. Means(Advance(r, t), w, P)
    BY <2>1, CalmIs, AdvanceMeans
  <2> QED
    BY <2>3, <2>4, <2>5
<1> HIDE DEF R
<1>3. AdvanceAll(s) \in R
  BY <1>1, <1>2, AdvancesIn
<1> QED
  BY <1>3 DEF R

-----------------------------------------------------------------------------
(* What the messages mean: the connection. *)

(* A callback begins with nothing said and nothing reported.               *)
Begins(s, w, P) == s \in Decks /\ Means(s, w, P) /\ Undone(s, P) /\ s.out = << >>

LEMMA FieldsBegin ==
  ASSUME NEW s, NEW w, NEW P, Begins(s, w, P), NEW r \in Decks,
         r.queue = s.queue, r.promise = s.promise, r.out = s.out, s.seq <= r.seq,
         Edits(r.pend) \subseteq Edits(s.pend), \A a \in r.answers : a \in s.answers \/ a.code # "ack"
  PROVE  Begins(r, w, P)
<1>1. Undone(r, P) /\ Voiced(r)
  BY DEF Begins, Undone, Voiced
<1>2. Shown(r, w, P)
  BY <1>1, NothingIsShown
<1>3. Means(r, w, P)
  BY <1>1, <1>2, MeansGoesOn DEF Begins
<1> QED
  BY <1>1, <1>3 DEF Begins

(* The queues do nothing while the deck is not ready.                      *)
LEMMA NoneGoesYet ==
  ASSUME NEW s, ~ Ready(s)
  PROVE  AdvanceAll(s) = s
<1>1. \A t \in Targets, r \in {s} : Advance(r, t) \in {s}
  BY DEF Advance
<1>2. AdvanceAll(s) \in {s}
  BY <1>1, AdvancesIn
<1> QED
  BY <1>2

LEMMA StatusIs ==
  ASSUME NEW s \in Decks, NEW status \in Statuses, status # "ready"
  PROVE  SetStatus(s, status) = [s EXCEPT !.status = status]
<1> DEFINE m == [s EXCEPT !.status = status]
<1>1. CASE s.status = status
  <2>1. m = s
    BY <1>1 DEF Decks
  <2> QED
    BY <1>1, <2>1 DEF SetStatus
<1>2. CASE s.status # status
  <2>1. m.status = status
    BY DEF Decks
  <2>2. AdvanceAll(m) = m
    BY <2>1, NoneGoesYet DEF Ready
  <2> QED
    BY <1>2, <2>2 DEF SetStatus
<1> QED
  BY <1>1, <1>2

LEMMA StatusBegins ==
  ASSUME NEW s, NEW w, NEW P, Begins(s, w, P), NEW status \in Statuses, status # "ready"
  PROVE  Begins(SetStatus(s, status), w, P)
<1> DEFINE m == [s EXCEPT !.status = status]
<1>1. s \in Decks
  BY DEF Begins
<1>2. SetStatus(s, status) = m
  BY <1>1, StatusIs
<1>3. /\ m \in Decks /\ m.queue = s.queue /\ m.promise = s.promise /\ m.out = s.out
      /\ m.seq = s.seq /\ m.pend = s.pend /\ m.answers = s.answers
  BY <1>1 DEF Decks
<1> HIDE DEF m
<1>4. Begins(m, w, P)
  BY <1>1, <1>3, DeckFields, FieldsBegin
<1> QED
  BY <1>2, <1>4

LEMMA RequestMeans ==
  ASSUME NEW s, NEW w, NEW P, Begins(s, w, P)
  PROVE  Means(RequestState(s), w, P)
<1> DEFINE id == s.seq + 1
           m == [s EXCEPT !.synced = FALSE, !.resync = id]
           checking == SetStatus(m, "checking")
           p == [id |-> id, op |-> "requestState"]
           r == Issue(checking, p, StateRequest(id))
<1>1. s \in Decks /\ id \in Nat
  BY DeckFields DEF Begins
<1>2. CASE s.conn = 0 \/ ~ s.hello \/ s.resync # 0
  BY <1>2 DEF RequestState, Begins
<1>3. CASE ~ (s.conn = 0 \/ ~ s.hello \/ s.resync # 0)
  <2>1. RequestState(s) = r
    BY <1>3 DEF RequestState
  <2>2. p \in StateRequests /\ StateRequest(id) \in UpMessages
        /\ Parts(StateRequest(id)) = {} /\ p.op = "requestState"
    BY <1>1 DEF StateRequests, StateRequest, UpMessages, Parts
  <2> HIDE DEF p, id
  <2>3. /\ m \in Decks /\ m.queue = s.queue /\ m.promise = s.promise /\ m.out = s.out
        /\ m.seq = s.seq /\ m.pend = s.pend /\ m.answers = s.answers
    BY <1>1 DEF Decks
  <2> HIDE DEF m
  <2>4. Begins(m, w, P)
    BY <1>1, <2>3, DeckFields, FieldsBegin
  <2>5. Begins(checking, w, P)
    BY <2>4, StatusBegins DEF Statuses
  <2> HIDE DEF checking
  <2>6. checking \in Decks
    BY <2>5 DEF Begins
  <2>7. /\ r \in Decks /\ Untouched(checking, r) /\ r.queue = checking.queue
        /\ r.promise = checking.promise /\ r.seq = checking.seq + 1
        /\ r.pend = checking.pend \cup {p} /\ r.out = Append(checking.out, StateRequest(id))
    BY <2>2, <2>6, IssueIs
  <2> HIDE DEF r
  <2>8. Voiced(r)
    <3>1. r.out = <<StateRequest(id)>>
      BY <2>5, <2>7 DEF Begins
    <3>2. Len(r.out) = 1 /\ r.out[1] = StateRequest(id)
      BY <3>1
    <3>3. Meant(r, StateRequest(id))
      BY <2>2 DEF Meant
    <3> QED
      BY <3>2, <3>3 DEF Voiced
  <2>9. Shown(r, w, P)
    BY <2>5, <2>7, NothingIsShown DEF Begins, Undone
  <2>10. Edits(r.pend) \subseteq Edits(checking.pend) /\ r.answers = checking.answers
         /\ checking.seq <= r.seq
    BY <2>2, <2>6, <2>7, DeckFields DEF Edits, Untouched
  <2>11. Means(r, w, P)
    BY <2>5, <2>6, <2>7, <2>8, <2>9, <2>10, MeansGoesOn DEF Begins
  <2> QED
    BY <2>1, <2>11
<1> QED
  BY <1>2, <1>3

LEMMA BoundaryBegins ==
  ASSUME NEW s, NEW w, NEW P, Begins(s, w, P)
  PROVE  Begins(Boundary(s), w, P)
<1> DEFINE code == "STALE_INPUT"
           R == {r \in Decks : Begins(r, w, P)}
           D == Targets \X R
<1>1. s \in R /\ Boundary(s) = Clear(s, code)
  BY DEF Boundary, Begins
<1>2. ASSUME NEW t \in Targets, NEW r \in R
      PROVE  FailTarget(r, t, code) \in R
  <2> DEFINE e == FailTarget(r, t, code)
  <2>1. code \in Codes
    BY DEF Codes
  <2>2. /\ e \in Decks /\ Means(e, w, P) /\ Quiet(r, e)
        /\ \A i \in Inputs : e.promise[i] = "done" => r.promise[i] = "done"
    BY <2>1, FailMeans DEF Begins
  <2> HIDE DEF e
  <2> QED
    BY <2>2 DEF Begins, Undone, Quiet, e
<1> HIDE DEF R, code
<1>3. \A t \in Targets, r \in R :
         /\ FailTarget(r, t, code) \in R /\ <<t, FailTarget(r, t, code)>> \in D
         /\ \A u \in Targets : u # t /\ <<u, r>> \in D => <<u, FailTarget(r, t, code)>> \in D
  BY <1>2
<1> HIDE DEF D
<1>4. Clear(s, code) \in R
  BY <1>1, <1>3, ClearsIn
<1> QED
  BY <1>1, <1>4 DEF R

LEMMA ResetBegins ==
  ASSUME NEW s, NEW w, NEW P, Begins(s, w, P)
  PROVE  Begins(ResetStore(s), w, P)
<1> DEFINE m == [s EXCEPT !.snap = NoSnap, !.synced = FALSE]
<1>1. NoSnap \in Snaps /\ s \in Decks
  BY WireFacts DEF NoSnap, Snaps, Values, Begins
<1>2. /\ m \in Decks /\ m.queue = s.queue /\ m.promise = s.promise /\ m.out = s.out
      /\ m.seq = s.seq /\ m.pend = s.pend /\ m.answers = s.answers
  BY <1>1 DEF Decks
<1>3. ResetStore(s) = Boundary(m)
  BY DEF ResetStore
<1> HIDE DEF m
<1>4. Begins(m, w, P)
  BY <1>1, <1>2, DeckFields, FieldsBegin
<1> QED
  BY <1>3, <1>4, BoundaryBegins

LEMMA CancelPendingBegins ==
  ASSUME NEW s, NEW w, NEW P, Begins(s, w, P), NEW code \in Reasons, code # "ack"
  PROVE  Begins(CancelPending(s, code), w, P)
<1> DEFINE new == {Answer(p, code, NoAck) : p \in Edits(s.pend)}
           told == s.answers \cup new
           r == [s EXCEPT !.answers = told, !.pend = {}]
<1>1. s \in Decks /\ s.answers \in SUBSET Replies /\ s.pend \in SUBSET (StateRequests \cup EditRequests)
  BY DeckFields DEF Begins
<1>2. new \in SUBSET Replies /\ \A a \in new : a.code = code
  <2> SUFFICES ASSUME NEW p \in Edits(s.pend)
               PROVE  LET a == Answer(p, code, NoAck) IN a \in Replies /\ a.code = code
    OBVIOUS
  <2>1. p \in EditRequests
    BY <1>1 DEF Edits, StateRequests
  <2> QED
    BY <2>1, AnswerIs, Empties
<1>3. CancelPending(s, code) = r
  BY <1>1 DEF CancelPending, Decks
<1> HIDE DEF new
<1>4. told \in SUBSET Replies
  BY <1>1, <1>2
<1>5. \A a \in told : a \in s.answers \/ a.code # "ack"
  BY <1>2
<1> HIDE DEF told
<1>6. /\ r \in Decks /\ r.queue = s.queue /\ r.promise = s.promise /\ r.out = s.out
      /\ r.seq = s.seq /\ r.pend = {} /\ r.answers = told
  BY <1>1, <1>4 DEF Decks
<1> HIDE DEF r
<1>7. Edits(r.pend) \subseteq Edits(s.pend) /\ s.seq <= r.seq
  BY <1>1, <1>6, DeckFields DEF Edits
<1>8. Begins(r, w, P)
  BY <1>5, <1>6, <1>7, FieldsBegin
<1> QED
  BY <1>3, <1>8

LEMMA CloseBegins ==
  ASSUME NEW s, NEW w, NEW P, Begins(s, w, P), NEW code \in Reasons, code # "ack"
  PROVE  Begins(Close(s, code), w, P)
<1> DEFINE m == ResetStore(CancelPending(s, code))
           r == [m EXCEPT !.conn = 0, !.hello = FALSE, !.status = "disconnected",
                          !.resync = 0, !.ping = 0, !.pinging = FALSE, !.fault = code]
<1>1. Begins(m, w, P)
  BY CancelPendingBegins, ResetBegins
<1>2. m \in Decks /\ Close(s, code) = r
  BY <1>1 DEF Begins, Close
<1> HIDE DEF m
<1>3. /\ r \in Decks /\ r.queue = m.queue /\ r.promise = m.promise /\ r.out = m.out
      /\ r.seq = m.seq /\ r.pend = m.pend /\ r.answers = m.answers
  BY <1>2 DEF Decks, Statuses
<1> HIDE DEF r
<1>4. Begins(r, w, P)
  BY <1>1, <1>2, <1>3, DeckFields, FieldsBegin
<1> QED
  BY <1>2, <1>4

LEMMA SameMeans ==
  ASSUME NEW s \in Decks, NEW r \in Decks, NEW w, NEW P, Means(s, w, P),
         r.queue = s.queue, r.promise = s.promise, r.pend = s.pend, r.answers = s.answers,
         r.seq = s.seq, r.out = s.out, r.snap = s.snap, r.synced = s.synced, r.status = s.status
  PROVE  Means(r, w, P)
<1>1. Voiced(r)
  BY SpeechStays DEF Means
<1>2. Shown(r, w, P)
  BY ShownStays DEF Means, Ready
<1>3. s.seq <= r.seq
  BY DeckFields
<1> QED
  BY <1>1, <1>2, <1>3, MeansGoesOn

LEMMA DoubtMeans ==
  ASSUME NEW s, NEW w, NEW P, Begins(s, w, P)
  PROVE  Means(RequestState([s EXCEPT !.synced = FALSE]), w, P)
<1> DEFINE m == [s EXCEPT !.synced = FALSE]
<1>1. s \in Decks
  BY DEF Begins
<1>2. /\ m \in Decks /\ m.queue = s.queue /\ m.promise = s.promise /\ m.out = s.out
      /\ m.seq = s.seq /\ m.pend = s.pend /\ m.answers = s.answers
  BY <1>1 DEF Decks
<1> HIDE DEF m
<1>3. Begins(m, w, P)
  BY <1>1, <1>2, DeckFields, FieldsBegin
<1> QED
  BY <1>3, RequestMeans DEF m

(* A full state, up to the moment when the queues hear of it.              *)
Quit(s, m) == IF HasSnap(s) /\ s.snap.session # m.session
              THEN CancelPending(s, "SESSION_CHANGED") ELSE s
Crosses(s, m) == HasSnap(s) /\ (s.snap.inst # m.inst \/ s.snap.session # m.session)
Crossed(s, m) == IF Crosses(s, m) THEN Boundary(Quit(s, m)) ELSE Quit(s, m)
Taken(s, m) == [Crossed(s, m) EXCEPT !.synced = TRUE, !.snap = SnapOf(m)]

LEMMA StateIsTaken ==
  ASSUME NEW s, NEW w, Worldly(w), w.loose = {}, Fares(s, w), NEW m \in States, Arrives(w, m)
  PROVE  /\ Fares(Quit(s, m), w) /\ Fares(Taken(s, m), w) /\ Taken(s, m).synced = TRUE
         /\ AcceptState(s, m) \in
              {RequestState([Quit(s, m) EXCEPT !.synced = FALSE]), AdvanceAll(Taken(s, m)),
               SetStatus([AdvanceAll(Taken(s, m)) EXCEPT !.resync = 0, !.pinging = TRUE], "ready")}
<1> DEFINE known == HasSnap(s)
           s1 == Quit(s, m)
           cross == Crosses(s, m)
           s2 == Crossed(s, m)
           n == [s2 EXCEPT !.synced = TRUE, !.snap = SnapOf(m)]
<1>1. Fares(s1, w) /\ s1.snap = s.snap /\ s1.promise = s.promise
  <2>1. CASE known /\ s.snap.session # m.session
    <3>1. "SESSION_CHANGED" \in Codes /\ "SESSION_CHANGED" \in Reasons
      BY DEF Codes, Reasons
    <3>2. Fine(s1) /\ Same(s, s1)
      BY <2>1, <3>1, CancelledIsFine DEF Fares, Quit
    <3>3. Journey(s1, w)
      BY <2>1, <3>1, SafelyCancelledJourney, TruthIs DEF Fares, Quit
    <3>4. s1.promise = s.promise
      BY <2>1, FineIs, DeckFields DEF Fares, CancelPending, Decks, Quit
    <3> QED
      BY <3>2, <3>3, <3>4 DEF Fares, Same
  <2>2. CASE ~ (known /\ s.snap.session # m.session)
    BY <2>2 DEF Quit
  <2> QED
    BY <2>1, <2>2
<1>2. s2 = IF cross THEN Boundary(s1) ELSE s1
  BY DEF Crossed
<1> HIDE DEF s1, s2
<1>3. Fares(s2, w) /\ s2.snap = s.snap
      /\ \A i \in Inputs : s2.promise[i] = "open" =>
            w.pressed[i].inst = m.inst /\ w.pressed[i].session = m.session /\ w.pressed[i].conn = w.conn
  <2>1. Opened(s1, w)
    BY <1>1 DEF Fares, Journey
  <2>2. CASE cross
    <3>1. Fine(s2) /\ Same(s1, s2)
      BY <1>1, <1>2, <2>2, BoundaryIsFine DEF Fares
    <3>2. AllTidy(s1) /\ Loads(s1, w) /\ Honest(s1, w)
      BY <1>1, FineIs DEF Fares, Journey
    <3>3. Journey(s2, w)
      BY <1>2, <2>1, <2>2, <3>2, BoundaryJourney DEF Opened
    <3>4. AllTidy(s2) /\ Cleared(s2)
      BY <1>2, <2>2, <3>2, BoundaryIs
    <3>5. \A i \in Inputs : s2.promise[i] # "open"
      BY <3>4, NoneOpen
    <3> QED
      BY <1>1, <3>1, <3>3, <3>5 DEF Fares, Same
  <2>3. CASE ~ cross
    <3>1. s2 = s1
      BY <1>2, <2>3
    <3>2. \A i \in Inputs : s1.promise[i] = "open" => known
      BY <1>1, <2>1 DEF Opened, HasSnap
    <3> QED
      BY <1>1, <2>1, <2>3, <3>1, <3>2 DEF Opened, Crosses
  <2> QED
    BY <2>2, <2>3
<1>4. Fares(n, w) /\ n.synced = TRUE
  <2>1. s2 \in Decks /\ s2.seq \in Nat /\ SnapOf(m) \in Snaps
    BY <1>3, FineIs, DeckFields, SnapOfIs DEF Fares
  <2> DEFINE snap == SnapOf(m)
  <2> HIDE DEF snap
  <2>2. [s2 EXCEPT !.synced = TRUE, !.snap = snap] \in Decks
    BY <2>1 DEF Decks, snap
  <2>3. /\ n \in Decks /\ n.queue = s2.queue /\ n.promise = s2.promise /\ n.pend = s2.pend
        /\ n.answers = s2.answers /\ n.seq = s2.seq /\ n.resync = s2.resync /\ n.ping = s2.ping
        /\ n.out = s2.out /\ n.snap = snap
    BY <2>1, <2>2 DEF Decks, snap
  <2>4. n.synced = TRUE
    BY <2>1 DEF Decks
  <2> HIDE DEF n
  <2>5. snap.inst = m.inst /\ snap.session = m.session /\ snap # NoSnap
    <3>1. snap.inst = m.inst /\ snap.session = m.session
      BY DEF snap, SnapOf
    <3>2. NoSnap.inst = 0 /\ m.inst # 0
      BY DEF NoSnap, Arrives, States
    <3> QED
      BY <3>1, <3>2
  <2>6. w.conn \in w.alive => m.inst = w.inst
    BY DEF Arrives, States
  <2>7. Opened(n, w)
    BY <1>3, <2>3, <2>5, <2>6 DEF Opened, HasSnap
  <2> QED
    BY <1>3, <2>3, <2>4, <2>7, FieldsFare
<1> HIDE DEF n
<1>5. n = Taken(s, m)
  BY DEF n, s2, Taken
<1>6. AcceptState(s, m) \in
        {RequestState([s1 EXCEPT !.synced = FALSE]), AdvanceAll(n),
         SetStatus([AdvanceAll(n) EXCEPT !.resync = 0, !.pinging = TRUE], "ready")}
  BY DEF AcceptState, SnapOf, n, s2, s1, Quit, Crosses, Crossed
<1> QED
  BY <1>1, <1>4, <1>5, <1>6 DEF s1

LEMMA TakenBegins ==
  ASSUME NEW s, NEW w, NEW P, Begins(s, w, P), NEW m \in States, Taken(s, m) \in Decks
  PROVE  Begins(Quit(s, m), w, P) /\ Begins(Taken(s, m), w, P)
<1> DEFINE n == Taken(s, m)  c == Crossed(s, m)  snap == SnapOf(m)
<1>1. Begins(Quit(s, m), w, P)
  BY CancelPendingBegins DEF Quit, Reasons, Codes
<1>2. Begins(c, w, P)
  BY <1>1, BoundaryBegins DEF Crossed
<1>3. c \in Decks /\ n = [c EXCEPT !.synced = TRUE, !.snap = snap]
  BY <1>2 DEF Begins, Taken
<1> HIDE DEF snap, c
<1>4. /\ n.queue = c.queue /\ n.promise = c.promise /\ n.pend = c.pend
      /\ n.answers = c.answers /\ n.seq = c.seq /\ n.out = c.out
  BY <1>3 DEF Decks
<1>5. n \in Decks /\ c.seq <= n.seq
  BY <1>3, <1>4, DeckFields
<1> HIDE DEF n
<1>6. Begins(n, w, P)
  BY <1>2, <1>4, <1>5, FieldsBegin
<1> QED
  BY <1>1, <1>6 DEF n

LEMMA AcceptStateMeans ==
  ASSUME NEW s, NEW w, NEW P, Worldly(w), w.loose = {}, Fares(s, w), Begins(s, w, P),
         NEW m \in States, Arrives(w, m)
  PROVE  Means(AcceptState(s, m), w, P)
<1> DEFINE n == Taken(s, m)
           s3 == AdvanceAll(n)
           old == [Quit(s, m) EXCEPT !.synced = FALSE]
           last == [s3 EXCEPT !.resync = 0, !.pinging = TRUE]
<1>1. Fares(n, w) /\ n.synced = TRUE
      /\ AcceptState(s, m) \in {RequestState(old), s3, SetStatus(last, "ready")}
  BY StateIsTaken
<1>2. Begins(n, w, P) /\ Means(RequestState(old), w, P)
  <2>1. n \in Decks
    BY <1>1, FineIs DEF Fares
  <2> QED
    BY <2>1, TakenBegins, DoubtMeans
<1> HIDE DEF n, old
<1>3. AllGood(n) /\ Journey(n, w) /\ n \in Decks
  BY <1>1, FineIs DEF Fares
<1>4. Means(s3, w, P)
  BY <1>2, <1>3, AdvanceAllMeans DEF Begins
<1>5. s3 \in Decks /\ AllGood(s3) /\ Journey(s3, w) /\ s3.status = n.status /\ s3.synced = TRUE
  BY <1>1, <1>3, AdvanceAllIs, AdvanceAllJourney, GoodIsTidy DEF Moves, Untouched
<1>6. Means(SetStatus(last, "ready"), w, P)
  <2> HIDE DEF s3
  <2>1. /\ last \in Decks /\ last.queue = s3.queue /\ last.promise = s3.promise /\ last.pend = s3.pend
        /\ last.answers = s3.answers /\ last.seq = s3.seq /\ last.status = s3.status
        /\ last.out = s3.out /\ last.snap = s3.snap /\ last.synced = s3.synced
    BY <1>5, DeckFields DEF Decks
  <2> HIDE DEF last
  <2>2. CASE last.status = "ready"
    <3>1. Means(last, w, P)
      BY <1>4, <1>5, <2>1, SameMeans
    <3> QED
      BY <2>2, <3>1 DEF SetStatus
  <2>3. CASE last.status # "ready"
    <3> DEFINE go == [last EXCEPT !.status = "ready"]
    <3>1. s3 = n
      BY <1>5, <2>1, <2>3, NoneGoesYet DEF Ready, s3
    <3>2. /\ go \in Decks /\ go.queue = s3.queue /\ go.promise = s3.promise /\ go.pend = s3.pend
          /\ go.answers = s3.answers /\ go.seq = s3.seq /\ go.out = s3.out
          /\ go.snap = s3.snap /\ go.synced = s3.synced
      BY <2>1 DEF Decks, Statuses
    <3>3. SetStatus(last, "ready") = AdvanceAll(go)
      BY <2>3 DEF SetStatus
    <3> HIDE DEF go
    <3>4. Begins(go, w, P) /\ s3.seq <= go.seq
      BY <1>2, <1>5, <3>1, <3>2, DeckFields, FieldsBegin
    <3>5. AllGood(go)
      BY <1>5, <3>2, <3>4, OtherFields
    <3>6. Opened(go, w)
      BY <1>5, <3>2 DEF Journey, Opened, HasSnap
    <3>7. Journey(go, w)
      BY <1>5, <3>2, <3>6, SameJourney
    <3> QED
      BY <3>3, <3>4, <3>5, <3>7, AdvanceAllMeans DEF Begins
  <2> QED
    BY <2>2, <2>3
<1> QED
  BY <1>1, <1>2, <1>4, <1>6

LEMMA AcceptDeltaMeans ==
  ASSUME NEW s, NEW w, NEW P, Worldly(w), w.loose = {}, Fares(s, w), Begins(s, w, P),
         NEW m \in Deltas, HasSnap(s)
  PROVE  Means(AcceptDelta(s, m), w, P)
<1> DEFINE old == [s EXCEPT !.synced = FALSE]
           snap == Overlaid(s.snap, m)
           n == [s EXCEPT !.snap = snap]
<1>1. s \in Decks /\ s.seq \in Nat /\ s.snap \in Snaps
  BY FineIs, DeckFields DEF Fares
<1>2. CASE ~ Continues(s, m)
  <2>1. AcceptDelta(s, m) = RequestState(old)
    BY <1>2 DEF AcceptDelta
  <2> QED
    BY <2>1, DoubtMeans
<1>3. CASE Continues(s, m)
  <2>1. snap \in Snaps /\ snap.inst = s.snap.inst /\ snap.session = s.snap.session /\ snap.rev = m.rev
    BY <1>1, OverlaidIs DEF Overlaid, Snaps
  <2>2. n = [s EXCEPT !.snap.rev = m.rev,
                      !.snap.val = [t \in Targets |-> IF t \in DOMAIN m.changes
                                                      THEN m.changes[t] ELSE @[t]]]
    BY <1>1 DEF Decks, Snaps, Overlaid
  <2>3. AcceptDelta(s, m) = AdvanceAll(n)
    BY <1>3, <2>2 DEF AcceptDelta
  <2> HIDE DEF snap
  <2>4. /\ n \in Decks /\ n.queue = s.queue /\ n.promise = s.promise /\ n.pend = s.pend
        /\ n.answers = s.answers /\ n.seq = s.seq /\ n.resync = s.resync
        /\ n.ping = s.ping /\ n.out = s.out /\ n.snap = snap /\ n.synced = s.synced
    BY <1>1, <2>1 DEF Decks
  <2> HIDE DEF n
  <2>5. snap # NoSnap
    <3>1. m.base \in Nat /\ m.rev \in Nat /\ m.rev > m.base
      BY <1>3 DEF Deltas, Continues
    <3>2. NoSnap.rev = 0 /\ snap.rev # 0
      BY <2>1, <3>1 DEF NoSnap
    <3> QED
      BY <3>2
  <2>6. Opened(n, w)
    BY <2>1, <2>4, <2>5 DEF Fares, Journey, Opened, HasSnap
  <2>7. Fares(n, w)
    BY <2>4, <2>6, FieldsFare
  <2>8. AllGood(n) /\ Journey(n, w)
    BY <2>7, FineIs DEF Fares
  <2>9. Begins(n, w, P)
    BY <1>1, <2>4, FieldsBegin
  <2> QED
    BY <2>3, <2>8, <2>9, AdvanceAllMeans DEF Begins
<1> QED
  BY <1>2, <1>3

LEMMA AcceptPongMeans ==
  ASSUME NEW s, NEW w, NEW P, Begins(s, w, P), NEW m
  PROVE  Means(AcceptPong(s, m), w, P)
<1> DEFINE s1 == [s EXCEPT !.ping = 0]
<1>1. s \in Decks
  BY DEF Begins
<1>2. /\ s1 \in Decks /\ s1.queue = s.queue /\ s1.promise = s.promise /\ s1.pend = s.pend
      /\ s1.answers = s.answers /\ s1.seq = s.seq /\ s1.out = s.out
  BY <1>1 DEF Decks
<1>3. AcceptPong(s, m) \in {Close(s, "UNEXPECTED_PONG"), RequestState(s1), s1}
  BY DEF AcceptPong
<1> HIDE DEF s1
<1>4. Begins(s1, w, P)
  BY <1>1, <1>2, DeckFields, FieldsBegin
<1>5. Begins(Close(s, "UNEXPECTED_PONG"), w, P)
  BY CloseBegins DEF Reasons
<1> QED
  BY <1>3, <1>4, <1>5, RequestMeans DEF Begins

(* An answer is passed on as it came.                                      *)
Placed(w) == \A i \in Inputs : \A n \in DOMAIN w.applied[i] : w.applied[i][n].inst = w.pressed[i].inst

LEMMA AnswersBegin ==
  ASSUME NEW s, NEW w, NEW P, Begins(s, w, P), NEW r \in Decks, r.queue = s.queue, r.promise = s.promise,
         r.seq = s.seq, r.out = s.out, NEW p \in s.pend, r.pend \subseteq s.pend, NEW code, NEW ack,
         \/ r.answers = s.answers
         \/ p.op = "edit" /\ r.answers = s.answers \cup {Answer(p, code, ack)},
         code = "ack" => \A t \in Targets : p \in Asked(s, t) =>
                           \A i \in s.queue[t].active.parts : Gives(w, i, ack)
  PROVE  Begins(r, w, P)
<1> DEFINE a == Answer(p, code, ack)
<1>1. s \in Decks /\ Means(s, w, P) /\ Undone(s, P) /\ s.out = << >>
  BY DEF Begins
<1>2. a.target = p.target /\ a.born = p.born /\ a.code = code /\ a.ack = ack
  BY DEF Answer
<1>3. \A b \in r.answers : b \in s.answers \/ (b = a /\ p.op = "edit")
  OBVIOUS
<1> HIDE DEF a
<1>4. Voiced(r) /\ Undone(r, P) /\ Heeds(r, w)
  BY <1>1 DEF Voiced, Undone, Means, Heeds
<1>5. ASSUME NEW t \in Targets
      PROVE  Uniform(r.queue[t], t) /\ Backed(r, w, t)
  <2>1. Uniform(s.queue[t], t) /\ Backed(s, w, t)
    BY <1>1 DEF Means
  <2>2. Asked(r, t) \subseteq Asked(s, t)
    BY DEF Asked, Edits
  <2>3. \A b \in Replied(r, t) : b \in Replied(s, t) \/ (b = a /\ p \in Asked(s, t))
    BY <1>2, <1>3 DEF Replied, Asked, Edits
  <2>4. ASSUME NEW i \in s.queue[t].active.parts, NEW b \in Replied(r, t), b.code = "ack"
        PROVE  Gives(w, i, b.ack)
    <3>1. CASE b \in Replied(s, t)
      BY <2>1, <2>4, <3>1 DEF Backed
    <3>2. CASE b = a /\ p \in Asked(s, t)
      BY <1>2, <2>4, <3>2
    <3> QED
      BY <2>3, <3>1, <3>2
  <2> QED
    BY <2>1, <2>2, <2>4 DEF Backed
<1>6. Means(r, w, P)
  BY <1>4, <1>5, NothingIsShown DEF Means
<1> QED
  BY <1>1, <1>4, <1>6 DEF Begins

LEMMA AcceptAckMeans ==
  ASSUME NEW s, NEW w, NEW P, Worldly(w), Placed(w), Fares(s, w), Begins(s, w, P),
         NEW s1, Begins(s1, w, P), s1.queue = s.queue, s1.promise = s.promise, s1.seq = s.seq,
         s1.out = s.out, s1.snap = s.snap, s1.answers = s.answers,
         NEW p \in s.pend, s1.pend \subseteq s.pend, NEW m \in AckMessages, m \in w.heard, m.id = p.id
  PROVE  Means(AcceptAck(s1, p, m), w, P)
<1> DEFINE ack == [inst |-> s1.snap.inst, session |-> m.session, rev |-> m.rev]
           told == s1.answers \cup {Answer(p, "ack", ack)}
           r == [s1 EXCEPT !.answers = told]
<1>1. s1 \in Decks /\ s \in Decks /\ p \in StateRequests \cup EditRequests /\ s.snap \in Snaps
      /\ s1.answers \in SUBSET Replies
  BY DeckFields DEF Begins
<1>2. CASE p.op = "requestState"
  BY <1>2 DEF AcceptAck, Begins
<1>3. CASE p.op # "requestState"
  <2>1. p.op = "edit" /\ p \in EditRequests
    BY <1>1, <1>3 DEF StateRequests, EditRequests
  <2>2. [s1 EXCEPT !.answers = @ \cup {Answer(p, "ack", ack)}] = r
    BY <1>1 DEF Decks
  <2>3. AcceptAck(s1, p, m) \in {Close(s1, "INVALID_ACK"), r}
    BY <1>3, <2>2 DEF AcceptAck
  <2>4. Means(Close(s1, "INVALID_ACK"), w, P)
    BY CloseBegins DEF Reasons, Begins
  <2>5. ack \in Acks /\ ack.inst = s.snap.inst /\ ack.session = m.session /\ ack.rev = m.rev
    BY <1>1 DEF Acks, Snaps, AckMessages
  <2>6. ASSUME NEW t \in Targets, p \in Asked(s, t), NEW i \in s.queue[t].active.parts
        PROVE  Gives(w, i, ack)
    <3>1. Dates(w, i, m)
      BY <2>6 DEF Begins, Means, Backed, AckMessages
    <3>2. s.queue[t] \in Queues /\ AllGood(s)
      BY <1>1, DeckFields, FineIs DEF Fares
    <3>3. i \in Inputs /\ s.promise[i] = "open"
      <4>1. i \in Place(s.queue[t], 0) /\ 0 \in Places(s.queue[t]) /\ i \in Inputs
        BY <2>6, <3>2, QueueFields DEF Place, Places
      <4>2. Tidy(s, t, {}, {})
        BY <3>2 DEF AllGood
      <4>3. i \in Place(s.queue[t], 0) \ {}
        BY <4>1
      <4>4. Mine(s, t, i)
        BY <4>1, <4>2, <4>3 DEF Tidy
      <4> QED
        BY <4>1, <4>4 DEF Mine
    <3>4. w.pressed[i].inst = s.snap.inst
      BY <3>3 DEF Fares, Journey, Opened
    <3>5. \A n \in DOMAIN w.applied[i] : w.applied[i][n].inst = ack.inst
      BY <2>5, <3>3, <3>4 DEF Placed
    <3>6. \A n \in DOMAIN w.applied[i] : w.applied[i][n] \in Acks
      BY <3>3 DEF Worldly
    <3>7. \A a \in Acks : a.inst = ack.inst /\ a.session = m.session /\ a.rev = m.rev => a = ack
      BY <2>5 DEF Acks
    <3> HIDE DEF ack
    <3> QED
      BY <3>1, <3>5, <3>6, <3>7 DEF Gives, Dates
  <2> HIDE DEF ack
  <2>7. told \in SUBSET Replies
    BY <1>1, <2>1, <2>5, AnswerIs DEF Reasons
  <2> HIDE DEF told
  <2>8. /\ r \in Decks /\ r.queue = s1.queue /\ r.promise = s1.promise /\ r.pend = s1.pend
        /\ r.seq = s1.seq /\ r.out = s1.out /\ r.answers = told
    BY <1>1, <2>7 DEF Decks
  <2> HIDE DEF r
  <2>9. r.answers = s.answers \cup {Answer(p, "ack", ack)} /\ r.pend \subseteq s.pend
    BY <2>8 DEF told
  <2>10. Begins(r, w, P)
    BY <2>1, <2>6, <2>8, <2>9, AnswersBegin
  <2> QED
    BY <2>3, <2>4, <2>10 DEF Begins
<1> QED
  BY <1>2, <1>3

LEMMA AcceptErrorMeans ==
  ASSUME NEW s, NEW w, NEW P, Begins(s, w, P), NEW p \in StateRequests \cup EditRequests, NEW m \in Errors
  PROVE  Means(AcceptError(s, p, m), w, P)
<1> DEFINE new == {Answer(e, m.code, NoAck) : e \in Edits({p})}
           told == [s EXCEPT !.answers = @ \cup new]
           all == CancelPending(told, m.code)
           reset == ResetStore(all)
<1>1. m.code \in Codes /\ m.code \in Reasons /\ m.code # "ack"
  BY DEF Errors, Reasons, Codes
<1>2. s \in Decks /\ s.answers \in SUBSET Replies
  BY DeckFields DEF Begins
<1>3. new \in SUBSET Replies /\ \A a \in new : a.code = m.code
  <2> SUFFICES ASSUME NEW e \in Edits({p})
               PROVE  LET a == Answer(e, m.code, NoAck) IN a \in Replies /\ a.code = m.code
    OBVIOUS
  <2>1. e \in EditRequests
    BY DEF Edits, StateRequests
  <2> QED
    BY <1>1, <2>1, AnswerIs, Empties
<1> HIDE DEF new
<1>4. /\ told \in Decks /\ told.queue = s.queue /\ told.promise = s.promise /\ told.pend = s.pend
      /\ told.seq = s.seq /\ told.out = s.out /\ told.answers = s.answers \cup new
  BY <1>2, <1>3 DEF Decks
<1> HIDE DEF told
<1>5. Begins(told, w, P)
  BY <1>1, <1>2, <1>3, <1>4, DeckFields, FieldsBegin
<1>6. Begins(all, w, P)
  BY <1>1, <1>5, CancelPendingBegins
<1> HIDE DEF all
<1>7. Begins(reset, w, P)
  BY <1>6, ResetBegins
<1> HIDE DEF reset
<1>8. Begins(Close(told, m.code), w, P)
  BY <1>1, <1>5, CloseBegins
<1>9. AcceptError(s, p, m) \in {Close(told, m.code), RequestState(reset), RequestState(told), told}
  BY DEF AcceptError, told, new, all, reset
<1> QED
  BY <1>5, <1>7, <1>8, <1>9, RequestMeans DEF Begins

LEMMA AcceptAnswerMeans ==
  ASSUME NEW s, NEW w, NEW P, Worldly(w), Placed(w), Fares(s, w), Begins(s, w, P),
         NEW m \in AckMessages \cup Errors, m \in w.heard
  PROVE  Means(AcceptAnswer(s, m), w, P)
<1> DEFINE asked == {p \in s.pend : p.id = m.id}
           p  == CHOOSE p \in asked : TRUE
           rest == s.pend \ asked
           s1 == [s EXCEPT !.pend = rest]
<1>1. s \in Decks /\ s.pend \in SUBSET (StateRequests \cup EditRequests)
  BY DeckFields DEF Begins
<1>2. CASE asked = {}
  <2>1. AcceptAnswer(s, m) = Close(s, "UNEXPECTED_RESPONSE")
    BY <1>2 DEF AcceptAnswer
  <2> QED
    BY <2>1, CloseBegins DEF Begins, Reasons
<1>3. CASE asked # {}
  <2>1. p \in s.pend /\ p.id = m.id
    BY <1>3
  <2>2. AcceptAnswer(s, m) = IF m.type = "ack" THEN AcceptAck(s1, p, m) ELSE AcceptError(s1, p, m)
    BY <1>1, <1>3 DEF AcceptAnswer, Decks
  <2>3. rest \in SUBSET (StateRequests \cup EditRequests) /\ rest \subseteq s.pend
    BY <1>1
  <2> HIDE DEF p, asked, rest
  <2>4. /\ s1 \in Decks /\ s1.queue = s.queue /\ s1.promise = s.promise /\ s1.pend = rest
        /\ s1.answers = s.answers /\ s1.seq = s.seq /\ s1.out = s.out /\ s1.snap = s.snap
    BY <1>1, <2>3 DEF Decks
  <2> HIDE DEF s1
  <2>5. Begins(s1, w, P)
    BY <1>1, <2>3, <2>4, DeckFields, FieldsBegin DEF Edits
  <2>6. CASE m.type = "ack"
    <3>1. m \in AckMessages
      BY <2>6 DEF Errors
    <3>2. Means(AcceptAck(s1, p, m), w, P)
      BY <2>1, <2>3, <2>4, <2>5, <3>1, AcceptAckMeans
    <3> QED
      BY <2>2, <2>6, <3>2
  <2>7. CASE m.type # "ack"
    <3>1. m \in Errors /\ p \in StateRequests \cup EditRequests
      BY <1>1, <2>1, <2>7 DEF AckMessages
    <3>2. Means(AcceptError(s1, p, m), w, P)
      BY <2>5, <3>1, AcceptErrorMeans
    <3> QED
      BY <2>2, <2>7, <3>2
  <2> QED
    BY <2>6, <2>7
<1> QED
  BY <1>2, <1>3

LEMMA HandleMeans ==
  ASSUME NEW s, NEW w, NEW P, Worldly(w), w.loose = {}, Placed(w), Fares(s, w), Begins(s, w, P),
         NEW m, Arrives(w, m)
  PROVE  Means(Handle(s, m), w, P)
<1> DEFINE closed == {Close(s, "EOF"), Close(s, "HANDSHAKE_FAILED"), Close(s, "INSTANCE_CHANGED"),
                      Close(s, "STATE_REQUIRED"), Close(s, "SERVER_STOPPING")}
           n == [s EXCEPT !.hello = TRUE]
           greeted == SetStatus(n, "checking")
<1>1. \A r \in closed : Means(r, w, P)
  BY CloseBegins DEF Reasons, Begins
<1>2. Means(greeted, w, P)
  <2>1. s \in Decks
    BY DEF Begins
  <2>2. /\ n \in Decks /\ n.queue = s.queue /\ n.promise = s.promise /\ n.pend = s.pend
        /\ n.answers = s.answers /\ n.seq = s.seq /\ n.out = s.out
    BY <2>1 DEF Decks
  <2> HIDE DEF n
  <2>3. Begins(n, w, P)
    BY <2>1, <2>2, DeckFields, FieldsBegin
  <2> QED
    BY <2>3, StatusBegins DEF Begins, Statuses
<1>3. CASE Handle(s, m) \in closed
  <2> HIDE DEF closed
  <2> QED
    BY <1>1, <1>3
<1>4. CASE Handle(s, m) = greeted
  <2> HIDE DEF greeted
  <2> QED
    BY <1>2, <1>4
<1>5. m \in DownMessages /\ (m.type \in {"ack", "error"} => m \in w.heard)
  BY DEF Arrives
<1>6. ASSUME Handle(s, m) \notin closed, Handle(s, m) # greeted
      PROVE  /\ m.type \in {"state", "stateDelta", "pong", "ack", "error"}
             /\ HasSnap(s) \/ m.type \in {"state", "error"}
             /\ m.type = "state" => Handle(s, m) = AcceptState(s, m)
             /\ m.type = "stateDelta" => Handle(s, m) = AcceptDelta(s, m)
             /\ m.type = "pong" => Handle(s, m) = AcceptPong(s, m)
             /\ m.type \in {"ack", "error"} => Handle(s, m) = AcceptAnswer(s, m)
  <2>1. m.type \in {"helloAck", "serverStatus", "eof", "state", "stateDelta", "pong", "ack", "error"}
    BY <1>5 DEF DownMessages, HelloAck, ServerStatus, EndOfStream, States, Deltas, Pongs, AckMessages, Errors
  <2>2. m.type # "eof" /\ s.hello /\ m.type # "helloAck"
        /\ (HasSnap(s) \/ m.type \in {"serverStatus", "state", "error"})
    BY <1>6 DEF Handle
  <2>3. Handle(s, m) = CASE m.type = "serverStatus"     -> Close(s, "SERVER_STOPPING")
         [] m.type = "state"            -> AcceptState(s, m)
         [] m.type = "stateDelta"       -> AcceptDelta(s, m)
         [] m.type = "pong"             -> AcceptPong(s, m)
         [] m.type \in {"ack", "error"} -> AcceptAnswer(s, m)
    BY <2>2 DEF Handle
  <2>4. m.type # "serverStatus"
    BY <1>6, <2>3
  <2> HIDE DEF closed, greeted
  <2> QED
    BY <2>1, <2>2, <2>3, <2>4
<1>7. /\ m.type = "state" => m \in States
      /\ m.type = "stateDelta" => m \in Deltas
      /\ m.type \in {"ack", "error"} => m \in AckMessages \cup Errors
  BY <1>5 DEF DownMessages, HelloAck, ServerStatus, EndOfStream, States, Deltas, Pongs, AckMessages, Errors
<1> HIDE DEF closed, greeted
<1>8. CASE Handle(s, m) \notin closed /\ Handle(s, m) # greeted
  <2>1. m.type = "state" => Means(Handle(s, m), w, P)
    BY <1>6, <1>7, <1>8, AcceptStateMeans
  <2>2. m.type = "stateDelta" => Means(Handle(s, m), w, P)
    BY <1>6, <1>7, <1>8, AcceptDeltaMeans
  <2>3. m.type = "pong" => Means(Handle(s, m), w, P)
    BY <1>6, <1>8, AcceptPongMeans
  <2>4. m.type \in {"ack", "error"} => Means(Handle(s, m), w, P)
    BY <1>5, <1>6, <1>7, <1>8, AcceptAnswerMeans
  <2> QED
    BY <1>6, <1>8, <2>1, <2>2, <2>3, <2>4
<1> QED
  BY <1>3, <1>4, <1>8
=============================================================================
