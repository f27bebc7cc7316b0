-------------------------- MODULE ControlLinkProofs -------------------------
(***************************************************************************)
(* What the Stream Deck plugin keeps of its inputs and of LiveMix, and what*)
(* becomes of the inputs, proved for any inputs, any limits of the queue   *)
(* and any number of connections and changes.                              *)
(*                                                                         *)
(* Seen from the link a step of the plugin is one of four (Stays, Learns,  *)
(* HangsUp, Opens) and a step of LiveMix one of two (Serves, Restart).     *)
(* LinkInv gives the types with what the plugin's part needs of the other. *)
(* CacheInv adds a witness: H, the document of every revision the running  *)
(* LiveMix has had.  Full states, deltas and the plugin's snapshot agree   *)
(* with H, or the connection belongs to a LiveMix that is gone.            *)
(*                                                                         *)
(* JourneyInv adds the journey of the inputs, in the world the plugin is   *)
(* in (World): what LiveMix has read of a connection and not worked off,   *)
(* and behind it what is still on the wire.  LiveMix changes that world by *)
(* working something off (WorksOff), an edit after all those before it on  *)
(* its connection, and telling the truth of what it worked off.  It says   *)
(* also what the messages mean (Means): which inputs a value was computed  *)
(* from and under which revision, and where those of an ack were applied.  *)
(***************************************************************************)
EXTENDS StreamDeckProofs

-----------------------------------------------------------------------------
(* What the messages mean: the promises and the timers. *)

(* A queue made of what another one has.                                   *)
Picks(q, v) ==
  /\ v.active.parts \subseteq q.active.parts /\ v.active.kind = q.active.kind
  /\ \A k \in 1 .. Len(v.waiting) : \E n \in 1 .. Len(q.waiting) :
        v.waiting[k].parts \subseteq q.waiting[n].parts /\ v.waiting[k].kind = q.waiting[n].kind

LEMMA PicksUniform ==
  ASSUME NEW q, NEW v, NEW t, Uniform(q, t), Picks(q, v)
  PROVE  Uniform(v, t)
<1>1. OneKind(v.active, t)
  BY DEF Uniform, OneKind, Picks
<1>2. ASSUME NEW k \in 1 .. Len(v.waiting)
      PROVE  OneKind(v.waiting[k], t)
  <2>1. PICK n \in 1 .. Len(q.waiting) :
           v.waiting[k].parts \subseteq q.waiting[n].parts /\ v.waiting[k].kind = q.waiting[n].kind
    BY DEF Picks
  <2>2. OneKind(q.waiting[n], t)
    BY DEF Uniform
  <2> QED
    BY <2>1, <2>2 DEF OneKind
<1> QED
  BY <1>1, <1>2 DEF Uniform

LEMMA PutMeans ==
  ASSUME NEW s \in Decks, NEW w, NEW P, Means(s, w, P), NEW t \in Targets, NEW v \in Queues, Uniform(v, t),
         \/ Lessens(s.queue[t], v)
         \/ /\ Still(s, t) /\ v.born = s.queue[t].born
            /\ v.ack # NoAck => \A i \in v.active.parts : Gives(w, i, v.ack)
  PROVE  LET r == [s EXCEPT !.queue[t] = v]
         IN  /\ r \in Decks /\ Means(r, w, P) /\ Quiet(s, r) /\ r.promise = s.promise /\ r.queue[t] = v
             /\ \A u \in Targets : u # t => r.queue[u] = s.queue[u]
<1> DEFINE r == [s EXCEPT !.queue[t] = v]
<1>1. /\ r \in Decks /\ Quiet(s, r) /\ r.promise = s.promise
      /\ r.queue[t] = v /\ \A u \in Targets : u # t => r.queue[u] = s.queue[u]
  BY SetQueueIs
<1> HIDE DEF r
<1>2. CASE Lessens(s.queue[t], v)
  <2>1. Means(r, w, P)
    BY <1>1, <1>2, QuietMeans
  <2> QED
    BY <1>1, <2>1 DEF r
<1>3. CASE /\ Still(s, t) /\ v.born = s.queue[t].born
           /\ v.ack # NoAck => \A i \in v.active.parts : Gives(w, i, v.ack)
  <2>1. Voiced(r) /\ Heeds(r, w) /\ Shown(r, w, P)
    BY <1>1, SpeechStays, ShownStays DEF Quiet, Untouched, Means, Heeds, Ready
  <2>2. Still(r, t)
    BY <1>1, <1>3, StillStays
  <2>3. Backed(r, w, t)
    BY <1>1, <1>3, <2>2 DEF Backed, Still
  <2>4. ASSUME NEW u \in Targets, u # t
        PROVE  Uniform(r.queue[u], u) /\ Backed(r, w, u)
    <3>1. r.queue[u] = s.queue[u] /\ Uniform(s.queue[u], u) /\ Backed(s, w, u)
      BY <1>1, <2>4 DEF Means
    <3>2. Lessens(s.queue[u], r.queue[u])
      BY <3>1 DEF Lessens
    <3>3. Edits(r.pend) \subseteq Edits(s.pend) /\ r.answers = s.answers
      BY <1>1 DEF Quiet, Untouched
    <3> QED
      BY <3>1, <3>2, <3>3, BackingStays
  <2>5. Means(r, w, P)
    BY <1>1, <2>1, <2>3, <2>4 DEF Means
  <2> QED
    BY <1>1, <2>5 DEF r
<1> QED
  BY <1>2, <1>3

LEMMA SettleMeans ==
  ASSUME NEW s \in Decks, NEW w, NEW P, Means(s, w, P), NEW parts, NEW code \in Codes
  PROVE  LET r == Settle(s, parts, code)
         IN  /\ r \in Decks /\ Means(r, w, P) /\ Quiet(s, r) /\ r.queue = s.queue
             /\ \A i \in Inputs : r.promise[i] = "done" => s.promise[i] = "done"
<1> DEFINE r == Settle(s, parts, code)
<1>1. /\ r \in Decks /\ Quiet(s, r) /\ r.queue = s.queue
      /\ \A i \in Inputs : r.promise[i] = IF i \in parts /\ s.promise[i] = "open" THEN code
                                          ELSE s.promise[i]
  BY SettleIs
<1> HIDE DEF r
<1>2. code # "done"
  BY DEF Codes
<1>3. \A i \in Inputs : r.promise[i] = "done" => s.promise[i] = "done"
  BY <1>1, <1>2
<1>4. Means(r, w, P)
  BY <1>1, <1>3, QuietMeans
<1> QED
  BY <1>1, <1>3, <1>4 DEF r

LEMMA AnsweredMeans ==
  ASSUME NEW s, NEW w, NEW P, Worldly(w), w.loose = {}, Fares(s, w), Begins(s, w, P), NEW a \in s.answers
  PROVE  Means(Answered([s EXCEPT !.answers = @ \ {a}], a), w, P)
<1> DEFINE m == [s EXCEPT !.answers = @ \ {a}]
           t == a.target
           q == m.queue[t]
           v1 == [q EXCEPT !.ack = a.ack]
           v2 == [q EXCEPT !.active.retries = @ - 1, !.active.retrying = TRUE]
           r1 == [m EXCEPT !.queue[t] = v1]
           r2 == [m EXCEPT !.queue[t] = v2]
<1>1. /\ Fares(m, w) /\ m.queue = s.queue /\ m.promise = s.promise
      /\ SameQueue(q, a) => Still(m, t) /\ q.active.kind # "none" /\ q.ack = NoAck
  BY TakenJourney
<1>2. s \in Decks /\ a \in Replies /\ t \in Targets /\ a.ack \in Acks
      /\ (a.code \in Codes \cup {"ack"} \/ s.queue[t].born # a.born)
  <2>1. s \in Decks /\ a \in Replies /\ (a.code \in Codes \cup {"ack"} \/ s.queue[t].born # a.born)
    BY FineIs, DeckFields DEF Fares, AnswersSound
  <2> QED
    BY <2>1 DEF Replies
<1>3. m.pend = s.pend /\ m.out = s.out /\ m.seq = s.seq /\ m.answers \subseteq s.answers /\ m \in Decks
  BY <1>1, <1>2, FineIs DEF Decks, Fares
<1> HIDE DEF m
<1>4. Begins(m, w, P)
  BY <1>1, <1>2, <1>3, DeckFields, FieldsBegin
<1>5. Means(m, w, P) /\ q \in Queues /\ q.active \in Intents /\ Uniform(q, t) /\ Calm(m, t)
  BY <1>1, <1>2, <1>3, <1>4, DeckFields, QueueFields, CalmIs DEF Begins, Means, Fares
<1>6. CASE ~ SameQueue(q, a)
  <2>1. Answered(m, a) = m
    BY <1>6 DEF Answered
  <2> QED
    BY <1>5, <2>1 DEF m
<1>7. CASE SameQueue(q, a) /\ a.code = "ack"
  <2>1. Answered(m, a) = Advance(r1, t)
    <3>1. [m EXCEPT !.queue[t].ack = a.ack] = r1
      BY <1>3 DEF Decks
    <3> QED
      BY <1>7, <3>1 DEF Answered
  <2>2. /\ v1 \in Queues /\ v1.born = q.born /\ v1.waiting = q.waiting /\ v1.active = q.active
        /\ v1.ack = a.ack
    BY <1>2, <1>5 DEF Queues
  <2> HIDE DEF v1
  <2>3. Uniform(v1, t)
    BY <1>5, <2>2 DEF Uniform
  <2>4. \A i \in v1.active.parts : Gives(w, i, v1.ack)
    <3>1. a \in Replied(s, t) /\ s.queue[t] = q
      BY <1>1, <1>7 DEF Replied, SameQueue
    <3>2. Backed(s, w, t)
      BY <1>2 DEF Begins, Means
    <3> QED
      BY <1>7, <2>2, <3>1, <3>2 DEF Backed
  <2>5. r1 \in Decks /\ Means(r1, w, P) /\ Quiet(m, r1) /\ r1.queue[t] = v1
    BY <1>1, <1>2, <1>3, <1>5, <1>7, <2>2, <2>3, <2>4, PutMeans
  <2> HIDE DEF r1
  <2>6. Still(r1, t)
    BY <1>1, <1>7, <2>2, <2>5, StillStays
  <2>7. Calm(r1, t)
    BY <1>1, <1>7, <2>2, <2>5, <2>6 DEF Calm
  <2>8. Means(Advance(r1, t), w, P)
    BY <1>2, <2>5, <2>7, AdvanceMeans
  <2> QED
    BY <2>1, <2>8 DEF m
<1>8. CASE SameQueue(q, a) /\ a.code = "REVISION_CONFLICT" /\ q.active.retries > 0 /\ q.active.parts # {}
  <2>1. Answered(m, a) = Advance(r2, t)
    <3>1. [m EXCEPT !.queue[t].active.retries = @ - 1, !.queue[t].active.retrying = TRUE] = r2
      <4> DEFINE A == [q EXCEPT !.active.retries = @ - 1]
                 e == [m EXCEPT !.queue[t] = A]
      <4>1. [m EXCEPT !.queue[t].active.retries = @ - 1] = e
        BY <1>3 DEF Decks
      <4>2. e.queue[t] = A /\ [e EXCEPT !.queue[t].active.retrying = TRUE]
                              = [e EXCEPT !.queue[t] = [A EXCEPT !.active.retrying = TRUE]]
        <5> HIDE DEF A
        <5> QED
          BY <1>2, <1>3 DEF Decks
      <4>3. v2 = [A EXCEPT !.active.retrying = TRUE]
        OBVIOUS
      <4> HIDE DEF A, v2
      <4>4. [e EXCEPT !.queue[t] = v2] = r2
        BY <1>2, <1>3 DEF Decks
      <4> HIDE DEF e
      <4> QED
        BY <4>1, <4>2, <4>3, <4>4
    <3> QED
      BY <1>8, <3>1 DEF Answered
  <2>2. /\ v2 \in Queues /\ v2.born = q.born /\ v2.waiting = q.waiting /\ v2.active.parts = q.active.parts
        /\ v2.active.kind = q.active.kind /\ v2.ack = q.ack
    <3> DEFINE x == [q.active EXCEPT !.retries = @ - 1, !.retrying = TRUE]
    <3>1. x \in Intents /\ x.parts = q.active.parts /\ x.kind = q.active.kind
      <4> DEFINE less == q.active.retries - 1
      <4>1. less \in Nat
        BY <1>5, <1>8 DEF Intents
      <4>2. x = [q.active EXCEPT !.retries = less, !.retrying = TRUE]
        BY <1>5 DEF Intents
      <4> HIDE DEF less, x
      <4> QED
        BY <1>5, <4>1, <4>2 DEF Intents
    <3>2. v2 = [q EXCEPT !.active = x]
      BY <1>5 DEF Queues, Intents
    <3> HIDE DEF x
    <3> QED
      BY <1>5, <3>1, <3>2 DEF Queues
  <2> HIDE DEF v2
  <2>3. Uniform(v2, t)
    BY <1>5, <2>2 DEF Uniform, OneKind
  <2>4. Lessens(q, v2)
    BY <2>2 DEF Lessens
  <2>5. r2 \in Decks /\ Means(r2, w, P) /\ Quiet(m, r2) /\ r2.queue[t] = v2
    BY <1>2, <1>3, <1>5, <2>2, <2>3, <2>4, PutMeans
  <2> HIDE DEF r2
  <2>6. Still(r2, t)
    BY <1>1, <1>8, <2>2, <2>5, StillStays
  <2>7. Calm(r2, t)
    BY <1>1, <1>8, <2>2, <2>5, <2>6 DEF Calm
  <2>8. Means(Advance(r2, t), w, P)
    BY <1>2, <2>5, <2>7, AdvanceMeans
  <2> QED
    BY <2>1, <2>8 DEF m
<1>9. CASE /\ SameQueue(q, a) /\ a.code # "ack"
           /\ ~ (a.code = "REVISION_CONFLICT" /\ q.active.retries > 0 /\ q.active.parts # {})
  <2>1. Answered(m, a) = FailTarget(m, t, a.code)
    BY <1>9 DEF Answered
  <2>2. a.code \in Codes
    BY <1>1, <1>2, <1>9 DEF SameQueue
  <2>3. Means(FailTarget(m, t, a.code), w, P)
    BY <1>2, <1>3, <1>5, <2>2, FailMeans
  <2> QED
    BY <2>1, <2>3 DEF m
<1> QED
  BY <1>6, <1>7, <1>8, <1>9

(* What waits is thinned out, and some of it refused; then the next goes.  *)
LEMMA ThinnedMeans ==
  ASSUME NEW s \in Decks, NEW w, NEW P, Means(s, w, P), NEW t \in Targets, Calm(s, t),
         s.queue[t] # NoQueue, NEW v \in Queues, Picks(s.queue[t], v), v.born = s.queue[t].born,
         v.active = s.queue[t].active, v.ack = s.queue[t].ack, NEW gone, NEW code \in Codes
  PROVE  LET r == Settle([s EXCEPT !.queue[t] = v], gone, code)
         IN  /\ r \in Decks /\ Means(r, w, P) /\ Quiet(s, r) /\ Calm(r, t) /\ r.queue[t] = v
             /\ \A i \in Inputs : r.promise[i] = "done" => s.promise[i] = "done"
<1> DEFINE m == [s EXCEPT !.queue[t] = v]
           r == Settle(m, gone, code)
<1>1. Uniform(v, t)
  BY PicksUniform DEF Means
<1>2. Lessens(s.queue[t], v)
  BY DEF Lessens
<1>3. m \in Decks /\ Means(m, w, P) /\ Quiet(s, m) /\ m.promise = s.promise /\ m.queue[t] = v
  BY <1>1, <1>2, PutMeans
<1> HIDE DEF m
<1>4. /\ r \in Decks /\ Means(r, w, P) /\ Quiet(m, r) /\ r.queue = m.queue
      /\ \A i \in Inputs : r.promise[i] = "done" => m.promise[i] = "done"
  BY <1>3, SettleMeans
<1> HIDE DEF r
<1>5. Quiet(s, r) /\ r.queue[t] = v
  BY <1>3, <1>4, QuietGoesOn
<1>6. Calm(r, t)
  BY <1>5, CalmStays
<1> QED
  BY <1>3, <1>4, <1>5, <1>6 DEF r, m

LEMMA RemovedPicks ==
  ASSUME NEW q \in Queues, NEW n \in 1 .. Len(q.waiting)
  PROVE  /\ Picks(q, Removed(q, n)) /\ Removed(q, n).active = q.active /\ Removed(q, n).ack = q.ack
<1> DEFINE rest == RemoveAt(q.waiting, n)
           v == Removed(q, n)
<1>1. q.waiting \in Seq(Intents) /\ Len(q.waiting) \in Nat
  BY QueueFields
<1>2. /\ rest \in Seq(Intents) /\ Len(rest) = Len(q.waiting) - 1
      /\ \A k \in 1 .. Len(q.waiting) - 1 : rest[k] = IF k < n THEN q.waiting[k] ELSE q.waiting[k + 1]
  BY <1>1, RemoveAtIs
<1>3. v.waiting = rest /\ v.active = q.active /\ v.ack = q.ack
  BY DEF Removed, Queues
<1> HIDE DEF rest, v
<1>4. ASSUME NEW k \in 1 .. Len(v.waiting)
      PROVE  \E j \in 1 .. Len(q.waiting) :
               v.waiting[k].parts \subseteq q.waiting[j].parts /\ v.waiting[k].kind = q.waiting[j].kind
  <2>1. k \in 1 .. Len(q.waiting) /\ k + 1 \in 1 .. Len(q.waiting) /\ k \in 1 .. Len(q.waiting) - 1
    BY <1>1, <1>2, <1>3
  <2>2. v.waiting[k] \in {q.waiting[k], q.waiting[k + 1]}
    BY <1>2, <1>3, <2>1
  <2> QED
    BY <2>1, <2>2
<1> QED
  BY <1>3, <1>4 DEF Picks, v

LEMMA WaitingExpiresMeans ==
  ASSUME NEW s, NEW w, NEW P, Fares(s, w), Begins(s, w, P), NEW t \in Targets,
         NEW n \in DOMAIN s.queue[t].waiting
  PROVE  Means(Advance(Settle([s EXCEPT !.queue[t].waiting = RemoveAt(@, n)],
                              s.queue[t].waiting[n].parts, "INPUT_EXPIRED"), t), w, P)
<1> DEFINE q == s.queue[t]
           v == Removed(q, n)
           m == Settle([s EXCEPT !.queue[t] = v], q.waiting[n].parts, "INPUT_EXPIRED")
<1>1. /\ Good(s, t, {}) /\ s \in Decks /\ q \in Queues /\ n \in 1 .. Len(q.waiting) /\ Journey(s, w)
  BY GoodOne, QueueFields, LenProperties DEF Fares
<1>2. v \in Queues /\ v.born = q.born /\ q # NoQueue
  BY <1>1, RemovalDrops DEF Removed
<1>3. [s EXCEPT !.queue[t].waiting = RemoveAt(@, n)] = [s EXCEPT !.queue[t] = v]
  BY <1>1 DEF Decks, Removed
<1>4. Picks(q, v) /\ v.active = q.active /\ v.ack = q.ack
  BY <1>1, RemovedPicks
<1>5. Calm(s, t) /\ Means(s, w, P) /\ "INPUT_EXPIRED" \in Codes
  BY <1>1, CalmIs DEF Begins, Codes
<1> HIDE DEF v
<1>6. m \in Decks /\ Means(m, w, P) /\ Calm(m, t)
  BY <1>1, <1>2, <1>4, <1>5, ThinnedMeans
<1> HIDE DEF m
<1>7. Means(Advance(m, t), w, P)
  BY <1>6, AdvanceMeans
<1> QED
  BY <1>3, <1>7 DEF m

LEMMA WakeMeans ==
  ASSUME NEW s, NEW w, NEW P, Fares(s, w), Begins(s, w, P), NEW t \in Targets,
         NEW n \in DOMAIN s.queue[t].waiting
  PROVE  Means(Advance([s EXCEPT !.queue[t].waiting[n].ripe = TRUE], t), w, P)
<1> DEFINE q == s.queue[t]
           v == [q.waiting EXCEPT ![n].ripe = TRUE]
           x == [q EXCEPT !.waiting = v]
           m == [s EXCEPT !.queue[t] = x]
<1>1. /\ s \in Decks /\ q \in Queues /\ q.waiting \in Seq(Intents)
      /\ n \in 1 .. Len(q.waiting) /\ Len(q.waiting) \in Nat /\ Journey(s, w) /\ Means(s, w, P)
  BY GoodOne, QueueFields, LenProperties DEF Fares, Begins
<1>2. [s EXCEPT !.queue[t].waiting[n].ripe = TRUE] = m
  BY <1>1 DEF Decks, Queues
<1>3. /\ v \in Seq(Intents) /\ Len(v) = Len(q.waiting)
      /\ \A k \in 1 .. Len(q.waiting) : v[k].parts = q.waiting[k].parts /\ v[k].kind = q.waiting[k].kind
  <2> DEFINE y == [q.waiting[n] EXCEPT !.ripe = TRUE]
  <2>1. v = [q.waiting EXCEPT ![n] = y]
    BY <1>1
  <2>2. y \in Intents /\ y.parts = q.waiting[n].parts /\ y.kind = q.waiting[n].kind
    <3>1. q.waiting[n] \in Intents
      BY <1>1, ElementOfSeq
    <3> QED
      BY <3>1 DEF Intents
  <2> HIDE DEF y, v
  <2> QED
    BY <1>1, <2>1, <2>2, ExceptSeq
<1> HIDE DEF v
<1>4. x \in Queues /\ x.born = q.born /\ x.waiting = v /\ x.active = q.active /\ x.ack = q.ack
  BY <1>1, <1>3 DEF Queues
<1> HIDE DEF x
<1>5. Uniform(x, t)
  <2>1. Picks(q, x)
    BY <1>3, <1>4 DEF Picks
  <2> QED
    BY <1>1, <2>1, PicksUniform DEF Means
<1>6. q # NoQueue
  BY <1>1, EmptyQueue, EmptySeq
<1>7. Lessens(q, x)
  BY <1>4 DEF Lessens
<1>8. m \in Decks /\ Means(m, w, P) /\ Quiet(s, m) /\ m.queue[t] = x
  BY <1>1, <1>4, <1>5, <1>7, PutMeans
<1> HIDE DEF m
<1>9. Calm(m, t)
  BY <1>1, <1>4, <1>6, <1>8, CalmIs, CalmStays
<1>10. Means(Advance(m, t), w, P)
  BY <1>8, <1>9, AdvanceMeans
<1> QED
  BY <1>2, <1>10

LEMMA RetryExpiresMeans ==
  ASSUME NEW s, NEW w, NEW P, Begins(s, w, P), NEW t \in Targets
  PROVE  Means(FailTarget(s, t, "INPUT_EXPIRED"), w, P)
BY FailMeans DEF Begins, Codes

LEMMA StateTimeoutMeans ==
  ASSUME NEW s, NEW w, NEW P, Begins(s, w, P), NEW t \in Targets
  PROVE  Means(RequestState(FailTarget(s, t, "STATE_TIMEOUT")), w, P)
<1> DEFINE m == FailTarget(s, t, "STATE_TIMEOUT")
<1>1. s \in Decks /\ Means(s, w, P) /\ Undone(s, P) /\ s.out = << >> /\ "STATE_TIMEOUT" \in Codes
  BY DEF Begins, Codes
<1>2. /\ m \in Decks /\ Means(m, w, P) /\ Quiet(s, m)
      /\ \A i \in Inputs : m.promise[i] = "done" => s.promise[i] = "done"
  BY <1>1, FailMeans
<1> HIDE DEF m
<1>3. Begins(m, w, P)
  BY <1>1, <1>2 DEF Begins, Quiet, Undone
<1> QED
  BY <1>3, RequestMeans DEF m

LEMMA SendPingMeans ==
  ASSUME NEW s, NEW w, NEW P, Begins(s, w, P)
  PROVE  Means([s EXCEPT !.seq = @ + 1, !.ping = s.seq + 1, !.out = <<Ping(s.seq + 1)>>], w, P)
<1> DEFINE id == s.seq + 1
           out == <<Ping(id)>>
           r == [s EXCEPT !.seq = id, !.ping = id, !.out = out]
<1>1. s \in Decks /\ s.seq \in Nat /\ id \in Nat
  BY DeckFields DEF Begins
<1>2. out \in Seq(UpMessages) /\ Len(out) = 1 /\ out[1] = Ping(id) /\ Parts(Ping(id)) = {}
  BY <1>1 DEF Ping, UpMessages, Parts
<1>3. [s EXCEPT !.seq = @ + 1, !.ping = s.seq + 1, !.out = <<Ping(s.seq + 1)>>] = r
  BY <1>1 DEF Decks
<1> HIDE DEF out
<1>4. /\ r \in Decks /\ r.queue = s.queue /\ r.promise = s.promise /\ r.pend = s.pend
      /\ r.answers = s.answers /\ r.seq = id /\ r.out = out
  BY <1>1, <1>2 DEF Decks
<1> HIDE DEF r
<1>5. Voiced(r)
  <2>1. Meant(r, Ping(id))
    BY <1>2 DEF Meant
  <2>2. Len(r.out) = 1 /\ r.out[1] = Ping(id)
    BY <1>2, <1>4
  <2> QED
    BY <2>1, <2>2 DEF Voiced
<1>6. Shown(r, w, P)
  BY <1>4, NothingIsShown DEF Begins, Undone
<1>7. s.seq <= r.seq
  BY <1>1, <1>4
<1>8. Means(r, w, P)
  BY <1>1, <1>4, <1>5, <1>6, <1>7, MeansGoesOn DEF Begins
<1> QED
  BY <1>3, <1>8

-----------------------------------------------------------------------------
(* What the messages mean: the user. *)

LEMMA JoinMeans ==
  ASSUME NEW s, NEW w, NEW P, NEW i \in Inputs, Making(s, w, i), Means(s, w, P),
         NEW t \in Targets, t = Input[i].target, Calm(s, t),
         NEW v \in Queues, v.active = s.queue[t].active, v.ack = s.queue[t].ack,
         v.born = (IF s.queue[t] = NoQueue THEN i ELSE s.queue[t].born), Uniform(v, t)
  PROVE  Means(Advance([s EXCEPT !.queue[t] = v], t), w, P)
<1> DEFINE q == s.queue[t]  m == [s EXCEPT !.queue[t] = v]
<1>1. s \in Decks /\ s.answers = {} /\ \A p \in Edits(s.pend) : p.born # i
  BY DEF Making, Loose, Sound
<1>2. Lessens(q, v)
  BY EmptyQueue DEF Lessens
<1>3. m \in Decks /\ Means(m, w, P) /\ Quiet(s, m) /\ m.queue[t] = v
  BY <1>1, <1>2, PutMeans
<1> HIDE DEF m
<1>4. Calm(m, t)
  <2>1. CASE q = NoQueue
    <3>1. v.born = i /\ v.ack = NoAck
      BY <2>1, EmptyQueue
    <3>2. Still(m, t)
      BY <1>1, <1>3, <3>1 DEF Still, Asked, Replied, Quiet, Untouched
    <3> QED
      BY <1>3, <3>1, <3>2 DEF Calm
  <2>2. CASE q # NoQueue
    BY <1>3, <2>2, CalmStays
  <2> QED
    BY <2>1, <2>2
<1>5. Means(Advance(m, t), w, P)
  BY <1>3, <1>4, AdvanceMeans
<1> QED
  BY <1>5 DEF m

LEMMA PushMeans ==
  ASSUME NEW s, NEW w, NEW P, NEW i \in Inputs, Making(s, w, i), Means(s, w, P),
         NEW t \in Targets, t = Input[i].target, Calm(s, t)
  PROVE  Means(Push(s, t, i), w, P)
<1> DEFINE q == s.queue[t]  v == Pushed(s, t, i)
<1>1. Loose(s, i)
  BY DEF Making
<1>2. /\ Push(s, t, i) = Advance([s EXCEPT !.queue[t] = v], t) /\ v \in Queues
      /\ v.born = (IF q = NoQueue THEN i ELSE q.born) /\ v.active = q.active /\ v.ack = q.ack
      /\ Len(q.waiting) \in Nat /\ Len(v.waiting) = Len(q.waiting) + 1
      /\ v.waiting[Len(q.waiting) + 1] = Intent(i)
      /\ \A n \in 1 .. Len(q.waiting) : v.waiting[n] = q.waiting[n]
  <2>1. Push(s, t, i) = Advance([s EXCEPT !.queue[t] = v], t) /\ v \in Queues
    BY <1>1, PushJoins
  <2>2. v.born = (IF q = NoQueue THEN i ELSE q.born)
    BY <1>1, PushJoins
  <2>3. v.active = q.active /\ v.ack = q.ack
    BY <1>1, PushJoins
  <2>4. q \in Queues /\ q.waiting \in Seq(Intents) /\ Intent(i) \in Intents
    BY <1>1, DeckFields, QueueFields, IntentIs DEF Loose, Sound
  <2>5. v.waiting = Append(q.waiting, Intent(i))
    BY <2>4 DEF Pushed, Queues
  <2> HIDE DEF q, v
  <2>6. /\ Len(q.waiting) \in Nat /\ Len(v.waiting) = Len(q.waiting) + 1
        /\ v.waiting[Len(q.waiting) + 1] = Intent(i)
        /\ \A n \in 1 .. Len(q.waiting) : v.waiting[n] = q.waiting[n]
    BY <2>4, <2>5, AppendProperties, LenProperties
  <2> QED
    BY <2>1, <2>2, <2>3, <2>6 DEF q
<1>3. Uniform(q, t)
  BY DEF Means
<1>4. OneKind(Intent(i), t)
  BY DEF OneKind, Intent
<1> HIDE DEF v, q
<1>5. ASSUME NEW n \in 1 .. Len(v.waiting)
      PROVE  OneKind(v.waiting[n], t)
  <2>1. n \in 1 .. Len(q.waiting) \/ n = Len(q.waiting) + 1
    BY <1>2
  <2> QED
    BY <1>2, <1>3, <1>4, <2>1 DEF Uniform
<1>6. Uniform(v, t)
  BY <1>2, <1>3, <1>5 DEF Uniform
<1> QED
  BY <1>2, <1>6, JoinMeans DEF q

LEMMA RefusedMeans ==
  ASSUME NEW s, NEW w, NEW P, NEW i \in Inputs, Making(s, w, i), Means(s, w, P), NEW t \in Targets,
         Calm(s, t), s.queue[t] # NoQueue, NEW v \in Queues, v.born = s.queue[t].born,
         v.active = s.queue[t].active, v.ack = s.queue[t].ack, Picks(s.queue[t], v), NEW gone
  PROVE  Means(Refused(s, t, v, gone), w, P) /\ Calm(Refused(s, t, v, gone), t)
         /\ Refused(s, t, v, gone) \in Decks
<1>1. s \in Decks /\ "INPUT_BUSY" \in Codes
  BY DEF Making, Loose, Sound, Codes
<1> QED
  BY <1>1, ThinnedMeans DEF Refused

LEMMA PressKeyMeans ==
  ASSUME NEW s, NEW w, NEW P, NEW i \in Inputs, Making(s, w, i), Means(s, w, P)
  PROVE  Means(PressKey(s, i), w, P)
<1> DEFINE t == Input[i].target  q == s.queue[t]
<1>1. t \in Targets /\ "INPUT_BUSY" \in Codes
  BY WireFacts DEF Codes
<1>2. s \in Decks /\ Good(s, t, {i}) /\ Loose(s, i) /\ q \in Queues /\ Trip(s, w, t) /\ Calm(s, t)
  BY <1>1, DeckFields, CalmIs DEF Making, Loose, Good, Sound, Journey
<1>3. CASE PressKey(s, i) = Push(s, t, i)
  BY <1>1, <1>2, <1>3, PushMeans
<1>4. CASE PressKey(s, i) = Settle(s, {i}, "INPUT_BUSY")
  BY <1>1, <1>2, <1>4, SettleMeans
<1>5. ASSUME NEW n \in 1 .. Len(q.waiting),
             PressKey(s, i) = Push(Refused(s, t, Removed(q, n), q.waiting[n].parts), t, i)
      PROVE  Means(PressKey(s, i), w, P)
  <2> DEFINE v == Removed(q, n)  d == Refused(s, t, v, q.waiting[n].parts)
  <2>1. v \in Queues /\ v.born = q.born /\ q # NoQueue /\ Drops(q, v, q.waiting[n].parts)
    BY <1>1, <1>2, RemovalDrops DEF Removed
  <2>2. Named(v) /\ v.active = q.active /\ v.ack = q.ack /\ Picks(q, v)
    BY <1>2, NamedIs, RemovedNamed, RemovedPicks
  <2> HIDE DEF v
  <2>3. Making(d, w, i)
    BY <1>1, <2>1, <2>2, RefusedJourney
  <2>4. Means(d, w, P) /\ Calm(d, t)
    BY <1>1, <1>2, <2>1, <2>2, RefusedMeans
  <2> HIDE DEF d
  <2> QED
    BY <1>1, <1>5, <2>3, <2>4, PushMeans DEF d, v
<1> QED
  BY <1>2, <1>3, <1>4, <1>5, PressedKey

LEMMA KeysPick ==
  ASSUME NEW q \in Queues
  PROVE  Picks(q, KeysOf(q)) /\ KeysOf(q).active = q.active /\ KeysOf(q).ack = q.ack
<1> DEFINE hit == DOMAIN q.waiting \ Turns(q.waiting)
           keys == Those(q.waiting, hit)
           v == KeysOf(q)
<1>1. q.waiting \in Seq(Intents)
  BY QueueFields
<1>2. v.waiting = keys /\ v.active = q.active /\ v.ack = q.ack
  BY DEF KeysOf, Queues
<1>3. Selects(keys, q.waiting, Len(q.waiting), hit)
  BY <1>1, ThoseAre
<1> HIDE DEF keys, v
<1>4. PICK from \in [1 .. Len(keys) -> (1 .. Len(q.waiting)) \cap hit] :
         \A k \in 1 .. Len(keys) : keys[k] = q.waiting[from[k]]
  BY <1>3 DEF Selects
<1>5. ASSUME NEW k \in 1 .. Len(v.waiting)
      PROVE  \E n \in 1 .. Len(q.waiting) :
               v.waiting[k].parts \subseteq q.waiting[n].parts /\ v.waiting[k].kind = q.waiting[n].kind
  <2>1. from[k] \in 1 .. Len(q.waiting) /\ v.waiting[k] = q.waiting[from[k]]
    BY <1>2, <1>4
  <2> QED
    BY <2>1
<1> QED
  BY <1>2, <1>5 DEF Picks, v

LEMMA RefuseTurnsMeans ==
  ASSUME NEW s, NEW w, NEW P, NEW i \in Inputs, Making(s, w, i), Means(s, w, P)
  PROVE  Means(RefuseTurns(s, i), w, P)
<1> DEFINE t == Input[i].target
           q == s.queue[t]
           m == Refused(s, t, KeysOf(q), Turned(q))
           a == Advance(m, t)
<1>1. t \in Targets /\ "INPUT_BUSY" \in Codes
  BY WireFacts DEF Codes
<1>2. s \in Decks /\ Good(s, t, {i}) /\ Loose(s, i) /\ q \in Queues /\ Calm(s, t)
  BY <1>1, DeckFields, CalmIs DEF Making, Loose, Good, Sound
<1>3. RefuseTurns(s, i) = Settle(a, {i}, "INPUT_BUSY")
  BY <1>2, RefusedTurns
<1>4. m \in Decks /\ Means(m, w, P) /\ Calm(m, t) /\ Good(m, t, {i})
  <2>1. CASE q # NoQueue
    <3>1. KeysOf(q) \in Queues /\ KeysOf(q).born = q.born /\ Drops(q, KeysOf(q), Turned(q))
      BY <1>1, <1>2, <2>1, KeysDrop
    <3>2. Picks(q, KeysOf(q)) /\ KeysOf(q).active = q.active /\ KeysOf(q).ack = q.ack
      BY <1>2, KeysPick
    <3>3. Good(m, t, {i})
      BY <1>1, <1>2, <2>1, <3>1, DropIs DEF Refused, Leaves
    <3> QED
      BY <1>1, <1>2, <2>1, <3>1, <3>2, <3>3, RefusedMeans
  <2>2. CASE q = NoQueue
    <3>1. m = Settle(s, {}, "INPUT_BUSY")
      BY <1>1, <1>2, <2>2, NoneRefused
    <3> HIDE DEF m
    <3>2. m \in Decks /\ Means(m, w, P) /\ Quiet(s, m) /\ m.queue = s.queue
      BY <1>1, <1>2, <3>1, SettleMeans
    <3>3. "INPUT_BUSY" \in Codes \cup {"done"} /\ \A j \in Inputs : m.promise[j] = s.promise[j]
      BY <1>1, <1>2, <3>1, SettleIs
    <3>4. Leaves(s, m, t, {i})
      BY <1>1, <1>2, <3>2, <3>3, SameIsLeft
    <3>5. Calm(m, t)
      BY <2>2, <3>2 DEF Calm
    <3> QED
      BY <3>2, <3>4, <3>5 DEF Leaves
  <2> QED
    BY <2>1, <2>2
<1> HIDE DEF m
<1>5. a \in Decks /\ Means(a, w, P)
  <2>1. Means(a, w, P)
    BY <1>1, <1>4, AdvanceMeans
  <2>2. Leaves(m, a, t, {i})
    BY <1>1, <1>4, AdvanceIs
  <2> HIDE DEF a
  <2> QED
    BY <2>1, <2>2 DEF Leaves, Good, Sound
<1> HIDE DEF a
<1> QED
  BY <1>1, <1>3, <1>5, SettleMeans

LEMMA TurnDialMeans ==
  ASSUME NEW s, NEW w, NEW P, NEW i \in Inputs, Making(s, w, i), Means(s, w, P), Input[i].kind = "turn"
  PROVE  Means(TurnDial(s, i), w, P)
<1> DEFINE t == Input[i].target  q == s.queue[t]  v == With(q, i)
<1>1. t \in Targets /\ Loose(s, i) /\ Calm(s, t) /\ q \in Queues
  BY WireFacts, CalmIs, DeckFields DEF Making, Loose, Sound
<1>2. CASE ~ Turning(q)
  BY <1>1, <1>2, TurnPushes, PushMeans
<1>3. CASE Turning(q)
  <2>1. /\ TurnDial(s, i) = Advance([s EXCEPT !.queue[t] = v], t)
        /\ q # NoQueue /\ v \in Queues /\ v.born \in Inputs /\ s.promise[v.born] # "new"
        /\ Joins(q, v, i)
        /\ v.born = q.born /\ v.active = q.active /\ v.ack = q.ack
        /\ Len(v.waiting) = Len(q.waiting)
        /\ \A n \in 1 .. Len(q.waiting) : v.waiting[n].kind = q.waiting[n].kind
    BY <1>1, <1>3, TurnJoins, ZenonT(120)
  <2> DEFINE last == Len(q.waiting)
  <2>2. q.waiting[last].kind = "turn" /\ last \in Nat /\ last > 0
    BY <1>1, <1>3, QueueFields DEF Turning, Turn
  <2>3. Uniform(q, t)
    BY <1>1 DEF Means
  <2> HIDE DEF v, q
  <2>4. ASSUME NEW n \in 1 .. Len(v.waiting)
        PROVE  OneKind(v.waiting[n], t)
    <3>1. n \in 1 .. Len(q.waiting) /\ OneKind(q.waiting[n], t) /\ v.waiting[n].kind = q.waiting[n].kind
      BY <2>1, <2>3 DEF Uniform
    <3>2. n # 0 /\ n \in Places(v) /\ n \in Places(q)
      BY <2>1, <2>2 DEF Places
    <3>3. Place(v, n) = v.waiting[n].parts /\ Place(q, n) = q.waiting[n].parts
      BY <3>2 DEF Place
    <3>4. CASE n # last
      BY <2>1, <3>1, <3>2, <3>3, <3>4 DEF Joins, OneKind
    <3>5. CASE n = last
      <4>1. Place(v, n) = Place(q, n) \cup {i}
        BY <2>1, <3>2, <3>5 DEF Joins
      <4> QED
        BY <2>2, <3>1, <3>3, <3>5, <4>1 DEF OneKind
    <3> QED
      BY <3>4, <3>5
  <2>5. Uniform(v, t)
    BY <2>1, <2>3, <2>4 DEF Uniform
  <2>6. v.born = (IF q = NoQueue THEN i ELSE q.born)
    BY <2>1
  <2> QED
    BY <1>1, <2>1, <2>5, <2>6, JoinMeans DEF q
<1> QED
  BY <1>2, <1>3

LEMMA ElsewhereMeans ==
  ASSUME NEW s, NEW w, NEW u, NEW P, Means(s, w, P), u.applied = w.applied, u.heard = w.heard
  PROVE  Means(s, u, P)
BY DEF Means, Heeds, Shown, Backed, Gives, Dates

LEMMA PressMeans ==
  ASSUME NEW s, NEW w, NEW P, Fares(s, w), Begins(s, w, P), s.answers = {}, NEW i \in Inputs,
         s.promise[i] = "new",
         NEW v, Worldly(v), Makes(w, v, i),
         \A j \in w.made : j # i => v.pressed[j].n < v.pressed[i].n,
         HasSnap(s) => /\ v.pressed[i].inst = s.snap.inst /\ v.pressed[i].session = s.snap.session
                       /\ v.pressed[i].conn = v.conn,
         NEW r,
         LET m == [s EXCEPT !.promise[i] = "open"]
         IN  \/ r = Settle(m, {i}, "DISCONNECTED")
             \/ HasSnap(s) /\ r \in {PressKey(m, i), RefuseTurns(m, i)}
             \/ HasSnap(s) /\ Input[i].kind = "turn" /\ r = TurnDial(m, i)
  PROVE  Means(r, w, P)
<1> DEFINE p == [s.promise EXCEPT ![i] = "open"]
           m == [s EXCEPT !.promise[i] = "open"]
<1>1. s \in Decks /\ AllTidy(s) /\ PendSound(s) /\ s.promise \in [Inputs -> Promises] /\ Means(s, w, P)
  BY FineIs, DeckFields DEF Fares, Begins
<1>2. Loose(m, i)
  BY MadeIsLoose DEF Fares
<1>3. m = [s EXCEPT !.promise = p]
  BY <1>1 DEF Decks
<1>4. p[i] = "open" /\ \A j \in Inputs : j # i => p[j] = s.promise[j]
  BY <1>1
<1> HIDE DEF p
<1>5. /\ m.queue = s.queue /\ m.pend = s.pend /\ m.answers = s.answers /\ m.seq = s.seq
      /\ m.out = s.out /\ m.snap = s.snap /\ m.synced = s.synced /\ m.promise = p
  BY <1>1, <1>3 DEF Decks
<1>6. m \in Decks
  BY <1>2 DEF Loose, Sound
<1>7. \/ r = Settle(m, {i}, "DISCONNECTED")
      \/ HasSnap(s) /\ r \in {PressKey(m, i), RefuseTurns(m, i)}
      \/ HasSnap(s) /\ Input[i].kind = "turn" /\ r = TurnDial(m, i)
  OBVIOUS
<1> HIDE DEF m
<1>8. Means(m, w, P)
  <2>1. Undone(m, P)
    BY <1>4, <1>5 DEF Begins, Undone
  <2>2. Voiced(m) /\ Shown(m, w, P) /\ s.seq <= m.seq
    BY <1>1, <1>5, <2>1, SpeechStays, NothingIsShown, DeckFields DEF Means
  <2> QED
    BY <1>1, <1>5, <1>6, <2>2, MeansGoesOn
<1>9. CASE r = Settle(m, {i}, "DISCONNECTED")
  BY <1>6, <1>8, <1>9, SettleMeans DEF Codes
<1>10. CASE HasSnap(s) /\ r # Settle(m, {i}, "DISCONNECTED")
  <2>1. m.promise[i] = "open" /\ \A j \in Inputs : j # i => m.promise[j] = s.promise[j]
    BY <1>4, <1>5
  <2>2. Journey(m, v)
    BY <1>5, <1>10, <2>1, MadeJourney
  <2>3. \A e \in Edits(m.pend) : e.born # i
    BY <1>1, <1>5 DEF Edits, PendSound
  <2>4. v.loose = {i} /\ \A j \in v.made \ {i} : v.pressed[j].n < v.pressed[i].n
    BY DEF Makes
  <2>5. Making(m, v, i)
    BY <1>2, <2>2, <2>3, <2>4 DEF Making
  <2>6. v.applied = w.applied /\ v.heard = w.heard
    BY DEF Makes
  <2>7. Means(m, v, P)
    BY <1>8, <2>6, ElsewhereMeans
  <2>8. Means(r, v, P)
    BY <1>7, <1>10, <2>5, <2>7, PressKeyMeans, RefuseTurnsMeans, TurnDialMeans
  <2> QED
    BY <2>6, <2>8, ElsewhereMeans
<1> QED
  BY <1>7, <1>9, <1>10

LEMMA RestPicks ==
  ASSUME NEW q \in Queues, NEW gone
  PROVE  Picks(q, Rest(q, gone))
<1> DEFINE v == Rest(q, gone)  rest == Without(q.waiting, gone)
<1>1. q.waiting \in Seq(Intents)
  BY QueueFields
<1>2. v.active.parts = q.active.parts \ gone /\ v.active.kind = q.active.kind
  BY RestOf
<1>3. v.waiting = rest
  BY DEF Rest, Queues
<1>4. Culls(rest, q.waiting, gone)
  BY <1>1, WithoutIs
<1> HIDE DEF v, rest
<1>5. PICK from \in [1 .. Len(rest) -> 1 .. Len(q.waiting)] :
         \A k \in 1 .. Len(rest) : /\ rest[k].parts = q.waiting[from[k]].parts \ gone
                                   /\ rest[k].kind = q.waiting[from[k]].kind
  BY <1>4 DEF Culls
<1>6. ASSUME NEW k \in 1 .. Len(v.waiting)
      PROVE  \E n \in 1 .. Len(q.waiting) :
               v.waiting[k].parts \subseteq q.waiting[n].parts /\ v.waiting[k].kind = q.waiting[n].kind
  <2>1. from[k] \in 1 .. Len(q.waiting)
    BY <1>3, <1>5
  <2>2. v.waiting[k].parts \subseteq q.waiting[from[k]].parts
        /\ v.waiting[k].kind = q.waiting[from[k]].kind
    BY <1>3, <1>5
  <2> QED
    BY <2>1, <2>2
<1> QED
  BY <1>2, <1>6 DEF Picks, v

LEMMA CancelOneMeans ==
  ASSUME NEW s \in Decks, NEW w, NEW P, Means(s, w, P), Journey(s, w), NEW t \in Targets, NEW gone
  PROVE  Means(Advance([s EXCEPT !.queue[t] = Rest(s.queue[t], gone)], t), w, P)
<1> DEFINE q == s.queue[t]  v == Rest(q, gone)  m == [s EXCEPT !.queue[t] = v]
<1>1. q \in Queues /\ Calm(s, t) /\ Uniform(q, t)
  BY DeckFields, CalmIs DEF Means
<1>2. /\ v \in Queues /\ v.born = q.born /\ v.active.parts = q.active.parts \ gone
      /\ v.active.kind = q.active.kind /\ v.active.retrying = q.active.retrying
      /\ v.ack = q.ack /\ (q = NoQueue => v = NoQueue)
  BY <1>1, RestOf
<1>3. Uniform(v, t)
  BY <1>1, RestPicks, PicksUniform
<1> HIDE DEF v
<1>4. Lessens(q, v)
  BY <1>2 DEF Lessens
<1>5. m \in Decks /\ Means(m, w, P) /\ Quiet(s, m) /\ m.queue[t] = v
  BY <1>2, <1>3, <1>4, PutMeans
<1> HIDE DEF m
<1>6. Calm(m, t)
  <2>1. CASE q = NoQueue
    BY <1>2, <1>5, <2>1 DEF Calm
  <2>2. CASE q # NoQueue
    BY <1>1, <1>2, <1>5, <2>2, CalmStays
  <2> QED
    BY <2>1, <2>2
<1>7. Means(Advance(m, t), w, P)
  BY <1>5, <1>6, AdvanceMeans
<1> QED
  BY <1>7 DEF m, v

LEMMA CancelMeans ==
  ASSUME NEW deck, NEW w, NEW P, Worldly(w), w.loose = {}, Fares(deck, w), Begins(deck, w, P),
         NEW gone \in SUBSET Inputs
  PROVE  Means(AllCancelled(Settle(deck, gone, "STALE_INPUT"), gone), w, P)
<1> DEFINE b == Settle(deck, gone, "STALE_INPUT")
           R == {r \in Decks : /\ Sound(r) /\ Journey(r, w) /\ \A t \in Targets : Tidy(r, t, {}, gone)
                               /\ Means(r, w, P) /\ \A i \in gone : r.promise[i] # "open"}
           D == Targets \X Decks
           last == AllCancelled(b, gone)
<1>1. b \in R
  <2>1. AllGood(deck) /\ deck \in Decks /\ Journey(deck, w) /\ Means(deck, w, P)
    BY FineIs DEF Fares, Begins
  <2>2. /\ b \in Decks /\ Sound(b) /\ \A t \in Targets : Tidy(b, t, {}, gone)
        /\ \A i \in gone : b.promise[i] # "open"
    BY <2>1, SettledIs
  <2>3. /\ "STALE_INPUT" \in Codes \cup {"done"} /\ "STALE_INPUT" \in Codes
        /\ \A i : Truly(Flying(deck, w), w, i, "STALE_INPUT")
    BY TruthIs DEF Codes
  <2>4. Journey(b, w)
    BY <2>1, <2>3, SettleJourney
  <2>5. Means(b, w, P)
    BY <2>1, <2>3, SettleMeans
  <2> QED
    BY <2>2, <2>4, <2>5
<1>2. ASSUME NEW t \in Targets, NEW s \in R
      PROVE  LET e == Cancelled(t, s, gone)
             IN  /\ e \in R /\ <<t, e>> \in D
                 /\ \A u \in Targets : u # t /\ <<u, s>> \in D => <<u, e>> \in D
  <2> DEFINE e == Advance([s EXCEPT !.queue[t] = Rest(s.queue[t], gone)], t)
  <2>1. s \in Decks /\ Sound(s) /\ Journey(s, w) /\ \A u \in Targets : Tidy(s, u, {}, gone)
        /\ Means(s, w, P) /\ \A i \in gone : s.promise[i] # "open"
    OBVIOUS
  <2>2. Cancelled(t, s, gone) = e
    BY <2>1, CancelledIs
  <2>3. /\ Sound(e) /\ \A u \in Targets : Tidy(e, u, {}, gone)
        /\ \A i \in gone : e.promise[i] # "open"
    BY <2>1, CancelOneIs
  <2>4. Journey(e, w) /\ Means(e, w, P)
    BY <2>1, CancelOneJourney, CancelOneMeans
  <2> HIDE DEF e
  <2>5. e \in Decks
    BY <2>3 DEF Sound
  <2>6. e \in R
    BY <2>3, <2>4, <2>5
  <2> QED
    BY <2>2, <2>5, <2>6
<1> HIDE DEF R, D, b
<1>3. last \in R
  BY <1>1, <1>2, CancelsIn
<1> QED
  BY <1>3 DEF last, b, R

(* What a callback returned, once it is the state and what it sent is gone.*)
LEMMA CommitMeans ==
  ASSUME NEW r \in Decks, NEW w, NEW P, Means(r, w, P),
         NEW z, z.out = << >>, z.queue = r.queue, z.pend = r.pend, z.answers = r.answers, z.seq = r.seq,
         NEW v, v.applied = w.applied, v.heard \subseteq w.heard, NEW Q, Undone(z, Q)
  PROVE  Means(z, v, Q)
<1>1. Voiced(z)
  BY DEF Voiced
<1>2. Heeds(z, v)
  BY DEF Means, Heeds
<1>3. ASSUME NEW t \in Targets
      PROVE  Uniform(z.queue[t], t) /\ Backed(z, v, t)
  <2>1. Uniform(r.queue[t], t) /\ Backed(r, w, t)
    BY DEF Means
  <2>2. Asked(z, t) = Asked(r, t) /\ Replied(z, t) = Replied(r, t)
    BY DEF Asked, Replied
  <2> QED
    BY <2>1, <2>2 DEF Backed, Gives, Dates
<1> QED
  BY <1>1, <1>2, <1>3, NothingIsShown DEF Means

(* The world goes on around a deck that waits: where an input was applied  *)
(* does not change, and a new ack is for what was on its way.              *)
Announces(w, v, d) ==
  d \in w.heard \/ d.id = 0
  \/ \E x \in w.sent : x[1] = w.conn /\ x[2].id = d.id /\ \A i \in Parts(x[2]) : Dates(v, i, d)
LEMMA ServeMeans ==
  ASSUME NEW s \in Decks, s.out = << >>, PendSound(s), NEW w, NEW P, Means(s, w, P), Undone(s, P),
         Journey(s, w), NEW v, Worldly(v), Counted(s, v),
         \A i \in Inputs : Arrived(w, i) => v.applied[i] = w.applied[i],
         \A d \in v.heard : d.type = "ack" => Announces(w, v, d)
  PROVE  Means(s, v, P)
<1>1. Voiced(s)
  BY DEF Voiced
<1>2. Heeds(s, v)
  <2>1. \A d \in AckMessages \cup Errors : d.id \in Nat
    BY DEF AckMessages, Errors
  <2>2. s.seq \in Nat /\ v.seq \in Nat
    BY DeckFields DEF Worldly
  <2> QED
    BY <2>1, <2>2 DEF Worldly, Counted, Heeds
<1>3. ASSUME NEW t \in Targets
      PROVE  Backed(s, v, t)
  <2> DEFINE q == s.queue[t]
  <2>1. Backed(s, w, t) /\ Known(q, Flying(s, w), w) /\ (q # NoQueue => Traced(s, w, t))
    BY DEF Means, Journey, Trip
  <2>2. q \in Queues /\ q.active.parts \subseteq Inputs
    BY DeckFields, QueueFields DEF Intents
  <2>3. q = NoQueue => q.active.parts = {}
    BY EmptyQueue
  <2> SUFFICES ASSUME NEW i \in q.active.parts
               PROVE  /\ q.ack # NoAck => Gives(v, i, q.ack)
                      /\ \A a \in Replied(s, t) : a.code = "ack" => Gives(v, i, a.ack)
                      /\ \A p \in Asked(s, t), d \in v.heard : d.id = p.id /\ d.type = "ack" => Dates(v, i, d)
    BY DEF Backed
  <2>4. Traced(s, w, t) /\ i \in Inputs
    BY <2>1, <2>2, <2>3
  <2>5. q.ack # NoAck => Gives(v, i, q.ack)
    BY <2>1, <2>4 DEF Known, Backed, Gives
  <2>6. ASSUME NEW a \in Replied(s, t), a.code = "ack"
        PROVE  Gives(v, i, a.ack)
    <3>1. Arrived(w, i)
      BY <2>4, <2>6 DEF Traced, Truly
    <3>2. Gives(w, i, a.ack)
      BY <2>1, <2>6 DEF Backed
    <3> QED
      BY <2>4, <3>1, <3>2 DEF Gives
  <2>7. ASSUME NEW p \in Asked(s, t), NEW d \in v.heard, d.id = p.id, d.type = "ack"
        PROVE  Dates(v, i, d)
    <3>1. CASE d \in w.heard
      <4>1. Arrived(w, i)
        BY <2>4, <2>7, <3>1 DEF Traced, Truly, CodeOf
      <4>2. Dates(w, i, d)
        BY <2>1, <2>7, <3>1 DEF Backed
      <4> QED
        BY <2>4, <4>1, <4>2 DEF Dates
    <3>2. CASE d.id = 0
      <4>1. p \in s.pend /\ p.id \in 1 .. s.seq
        BY DEF PendSound, Asked, Edits
      <4> QED
        BY <2>7, <3>2, <4>1
    <3>3. ASSUME NEW x \in w.sent, x[1] = w.conn, x[2].id = d.id, \A j \in Parts(x[2]) : Dates(v, j, d)
          PROVE  Dates(v, i, d)
      <4>1. x \in Flying(s, w)
        BY DEF Flying
      <4>2. q.active.parts \subseteq Parts(x[2])
        BY <2>4, <2>7, <3>3, <4>1 DEF Traced
      <4> QED
        BY <3>3, <4>2
    <3> QED
      BY <2>7, <3>1, <3>2, <3>3 DEF Announces
  <2> QED
    BY <2>5, <2>6, <2>7
<1> QED
  BY <1>1, <1>2, <1>3, NothingIsShown DEF Means

-----------------------------------------------------------------------------
(* The steps of the deck. *)

DeckTyped == /\ Fine(sd) /\ sd.out = << >> /\ (sd.conn = 0 => Resting(sd))
             /\ conns \in 0 .. MaxConns /\ pings \in 0 .. MaxPings /\ sd.conn \in {0, conns}

(* A callback that leaves the connection and the snapshot alone, a message *)
(* read, the connection given up, the next one opened.                     *)
Stays == /\ \E r : Fine(r) /\ Same(sd, r) /\ Becomes(r)
         /\ UNCHANGED <<conns, down>> /\ pings' \in 0 .. MaxPings
Learns == /\ sd.conn # 0 /\ down[sd.conn] # << >>
          /\ \E r : /\ Fine(r) /\ Hears(sd, r, Head(down[sd.conn])) /\ Becomes(r)
                    /\ Unread(r, Tail(down[sd.conn]))
          /\ UNCHANGED <<conns, pings>>
HangsUp == /\ sd.conn # 0
           /\ \E r : Fine(r) /\ Resting(r) /\ Becomes(r) /\ Unread(Idle, << >>)
           /\ UNCHANGED <<conns, pings>>
Opens == /\ Connect
         /\ Fine(sd') /\ sd'.out = << >> /\ sd'.conn = conns + 1 /\ sd'.snap = NoSnap

(* Nothing is done for queues that are empty.                              *)
LEMMA NoneAdvances ==
  ASSUME NEW s, Cleared(s)
  PROVE  AdvanceAll(s) = s
<1> DEFINE choose == [S \in SUBSET Targets |-> CHOOSE t \in S : TRUE]
           rec(g) == [S \in SUBSET Targets |->
                        IF S = {} THEN s
                        ELSE LET t == CHOOSE t \in S : TRUE IN Advance(g[S \ {t}], t)]
           iter == CHOOSE g : g = rec(g)
           f == [S \in SUBSET Targets |-> s]
           T == {S \in SUBSET Targets : iter[S] = s}
<1>1. AdvanceAll(s) = iter[Targets]
  BY DEF AdvanceAll, FoldSet, MapThenFoldSet
<1>2. \A t \in Targets : Advance(s, t) = s
  BY DEF Advance, Cleared
<1>3. \A S \in SUBSET Targets : S # {} => choose[S] \in S /\ choose[S] = CHOOSE t \in S : TRUE
  OBVIOUS
<1>4. f = rec(f)
  <2>1. ASSUME NEW S \in SUBSET Targets, S # {}
        PROVE  LET t == CHOOSE t \in S : TRUE IN Advance(f[S \ {t}], t) = s
    <3>1. choose[S] \in Targets /\ S \ {choose[S]} \in SUBSET Targets
      BY <1>3, <2>1
    <3>2. f[S \ {choose[S]}] = s
      BY <3>1
    <3> QED
      BY <1>2, <1>3, <2>1, <3>1, <3>2
  <2> QED
    BY <2>1
<1>5. iter = rec(iter)
  BY <1>4
<1> HIDE DEF iter
<1>6. {} \in T
  BY <1>5
<1>7. ASSUME NEW S \in SUBSET Targets, S # {}, S \ {choose[S]} \in T
      PROVE  S \in T
  <2>1. iter[S] = Advance(iter[S \ {choose[S]}], choose[S])
    BY <1>3, <1>5, <1>7
  <2> QED
    BY <1>2, <1>3, <1>7, <2>1
<1> HIDE DEF T
<1>8. SUBSET Targets \subseteq T
  <2>1. IsFiniteSet(Targets)
    BY WireFacts
  <2>2. \A S \in SUBSET Targets : S # {} => choose[S] \in S
    BY <1>3
  <2>3. \A S \in SUBSET Targets : S # {} /\ S \ {choose[S]} \in T => S \in T
    BY <1>7
  <2> HIDE DEF iter, choose
  <2> QED
    BY <1>6, <2>1, <2>2, <2>3, SubsetInduction
<1> QED
  BY <1>1, <1>8 DEF T

LEMMA ConnectIs ==
  ASSUME DeckTyped, Connect
  PROVE  Opens
<1> DEFINE m == [sd EXCEPT !.status = "connecting"]
           r == [m EXCEPT !.conn = conns + 1, !.seq = 1, !.fault = "none"]
<1>1. Fine(sd) /\ sd.out = << >> /\ Resting(sd) /\ conns \in Nat
  BY WireAssumption DEF DeckTyped, Connect
<1>2. sd \in Decks
  BY <1>1, FineIs
<1>3. m \in Decks /\ m.queue = sd.queue /\ m.promise = sd.promise /\ m.pend = sd.pend
      /\ m.answers = sd.answers /\ m.resync = sd.resync /\ m.ping = sd.ping /\ m.snap = sd.snap
      /\ m.out = sd.out
  BY <1>2 DEF Decks, Statuses
<1>4. SetStatus(sd, "connecting") = m
  <2>1. Cleared(m) /\ sd.status # "connecting"
    BY <1>1, <1>3 DEF Resting, Cleared
  <2> HIDE DEF m
  <2>2. AdvanceAll(m) = m
    BY <2>1, NoneAdvances
  <2> QED
    BY <2>1, <2>2 DEF SetStatus, m
<1> HIDE DEF m
<1>5. /\ r \in Decks /\ r.queue = m.queue /\ r.promise = m.promise /\ r.pend = m.pend
      /\ r.answers = m.answers /\ r.resync = m.resync /\ r.ping = m.ping /\ r.snap = m.snap
      /\ r.out = m.out /\ r.conn = conns + 1 /\ r.seq = 1
  <2> DEFINE n == conns + 1
             none == "none"
  <2>1. n \in Nat /\ 1 \in Nat /\ none \in Reasons
    BY <1>1 DEF Reasons
  <2> HIDE DEF n, none
  <2>2. LET x == [m EXCEPT !.conn = n, !.seq = 1, !.fault = none]
        IN  /\ x \in Decks /\ x.queue = m.queue /\ x.promise = m.promise /\ x.pend = m.pend
            /\ x.answers = m.answers /\ x.resync = m.resync /\ x.ping = m.ping /\ x.snap = m.snap
            /\ x.out = m.out /\ x.conn = n /\ x.seq = 1
    BY <1>3, <2>1 DEF Decks
  <2> QED
    BY <2>2 DEF n, none
<1>6. sd' = r
  BY <1>4 DEF Connect
<1> HIDE DEF r
<1>7. AllTidy(sd) /\ AnswersSound(sd) /\ sd.pend = {} /\ sd.resync = 0 /\ sd.ping = 0 /\ sd.snap = NoSnap
  BY <1>1, FineIs DEF Resting
<1>8. PendSound(r) /\ AnswersSound(r)
  BY <1>3, <1>5, <1>7 DEF PendSound, AnswersSound
<1>9. AllGood(r)
  BY <1>3, <1>5, <1>7, <1>8, ReframedIsGood
<1>10. Fine(r)
  BY <1>3, <1>5, <1>7, <1>9 DEF Fine
<1> QED
  BY <1>1, <1>3, <1>5, <1>6, <1>7, <1>10 DEF Opens

(* Without a connection nothing happens but a press, which is refused.     *)
LEMMA RestIs ==
  ASSUME DeckTyped, sd.conn = 0, DeckNext
  PROVE  Connect \/ Resting(sd')
<1>1. Fine(sd) /\ Resting(sd) /\ sd.out = << >> /\ sd \in Decks
  BY FineIs DEF DeckTyped
<1>2. \A t \in Targets : sd.queue[t] = NoQueue
  BY <1>1 DEF Resting, Cleared
<1>3. ASSUME NEW r \in Decks, Resting(r), Becomes(r)
      PROVE  Resting(sd')
  <2>1. sd' = [r EXCEPT !.out = << >>]
    BY <1>3 DEF Becomes
  <2>2. /\ sd'.conn = r.conn /\ sd'.snap = r.snap /\ sd'.status = r.status /\ sd'.pinging = r.pinging
        /\ sd'.pend = r.pend /\ sd'.resync = r.resync /\ sd'.ping = r.ping /\ sd'.queue = r.queue
    BY <2>1 DEF Decks
  <2> QED
    BY <1>3, <2>2 DEF Resting, Cleared
<1>4. ASSUME NEW i \in Inputs, Press(i)
      PROVE  Resting(sd')
  <2> DEFINE m == [sd EXCEPT !.promise[i] = "open"]
             r == Settle(m, {i}, "DISCONNECTED")
  <2>1. Becomes(r) /\ sd.answers = {} /\ sd.promise[i] = "new"
    <3>1. ~ Ready(sd)
      BY <1>1 DEF Ready, Resting
    <3> QED
      BY <1>4, <3>1 DEF Press
  <2>2. Loose(m, i) /\ Untouched(sd, m) /\ m.queue = sd.queue
    BY <1>1, <2>1, MadeIsLoose
  <2>3. m \in Decks /\ m.pend = sd.pend
    BY <1>1 DEF Decks, Promises
  <2> HIDE DEF m
  <2>4. r \in Decks /\ Quiet(m, r) /\ r.queue = m.queue
    <3>1. "DISCONNECTED" \in Codes \cup {"done"}
      BY DEF Codes
    <3> QED
      BY <2>3, <3>1, SettleIs
  <2> HIDE DEF r
  <2>5. Resting(r)
    BY <1>1, <2>2, <2>3, <2>4 DEF Resting, Quiet, Untouched, Cleared
  <2> QED
    BY <1>3, <2>1, <2>4, <2>5
<1>5. ASSUME NEW o, CancelOwner(o)
      PROVE  FALSE
  <2>1. PICK i \in Inputs : sd.promise[i] = "open"
    BY <1>5 DEF CancelOwner
  <2> DEFINE t == Input[i].target
  <2>2. t \in Targets /\ Tidy(sd, t, {}, {})
    BY <1>1, WireFacts, FineIs DEF AllTidy
  <2>3. sd.queue[t].active.parts = {} /\ sd.queue[t].waiting = << >>
    BY <1>2, <2>2, EmptyQueue
  <2>4. \A n \in Places(sd.queue[t]) : Place(sd.queue[t], n) = {}
    BY <2>3 DEF Places, Place
  <2> QED
    BY <2>1, <2>2, <2>4 DEF Tidy, Mine
<1>6. ASSUME TakeAnswer
      PROVE  Resting(sd')
  <2>1. PICK a \in sd.answers : Becomes(Answered([sd EXCEPT !.answers = @ \ {a}], a))
    BY <1>6 DEF TakeAnswer
  <2> DEFINE m == [sd EXCEPT !.answers = @ \ {a}]
  <2>2. /\ m \in Decks /\ m.conn = sd.conn /\ m.snap = sd.snap /\ m.status = sd.status
        /\ m.pinging = sd.pinging /\ m.pend = sd.pend /\ m.resync = sd.resync
        /\ m.ping = sd.ping /\ m.queue = sd.queue
    BY <1>1 DEF Decks
  <2> HIDE DEF m
  <2>3. Answered(m, a) = m
    <3>1. a.target \in Targets
      BY <1>1, <2>1, DeckFields DEF Replies
    <3> QED
      BY <1>2, <2>2, <3>1 DEF Answered, SameQueue
  <2>4. Resting(m)
    BY <1>1, <2>2 DEF Resting, Cleared
  <2>5. Becomes(m)
    BY <2>1, <2>3 DEF m
  <2> QED
    BY <1>3, <2>2, <2>4, <2>5
<1>7. ASSUME NEW t \in Targets, Expires(t) \/ Wake(t)
      PROVE  FALSE
  <2>1. /\ sd.queue[t].waiting = << >> /\ sd.queue[t].ack = NoAck
        /\ sd.queue[t].active = NoIntent
    BY <1>2, EmptyQueue
  <2>2. ~ NoIntent.retrying /\ DOMAIN << >> = {}
    BY DEF NoIntent
  <2> QED
    BY <1>7, <2>1, <2>2 DEF Expires, Wake, WaitingExpires, RetryExpires, StateTimeout
<1>8. ~ SendPing /\ ~ ReceiveMessage /\ ~ Lose /\ ~ TimesOut
  BY <1>1 DEF Resting, SendPing, ReceiveMessage, Lose, TimesOut, GiveUp
<1> QED
  BY <1>4, <1>5, <1>6, <1>7, <1>8 DEF DeckNext, UserActs

LEMMA DeckSteps ==
  ASSUME DeckTyped, DeckNext,
         sd.conn # 0 /\ down[sd.conn] # << >> => Head(down[sd.conn]) \in DownMessages
  PROVE  Stays \/ Learns \/ HangsUp \/ Opens
<1>1. Fine(sd) /\ conns \in Nat /\ pings \in 0 .. MaxPings /\ MaxPings \in Nat
  BY WireAssumption DEF DeckTyped
<1>2. ASSUME NEW i \in Inputs, Press(i)
      PROVE  Stays
  <2> DEFINE m == [sd EXCEPT !.promise[i] = "open"]
  <2>1. sd.answers = {} /\ sd.promise[i] = "new" /\ UNCHANGED <<conns, pings, down>>
    BY <1>2 DEF Press
  <2>2. PICK r : /\ r \in {Settle(m, {i}, "DISCONNECTED"), PressKey(m, i), RefuseTurns(m, i), TurnDial(m, i)}
                 /\ Becomes(r)
    BY <1>2 DEF Press
  <2>3. Fine(r) /\ Same(sd, r)
    BY <1>1, <2>1, <2>2, PressIs
  <2> QED
    BY <1>1, <2>1, <2>2, <2>3 DEF Stays
<1>3. ASSUME NEW o, CancelOwner(o)
      PROVE  Stays
  <2> DEFINE gone == {i \in Inputs : Input[i].owner = o /\ sd.promise[i] = "open"}
             r == AllCancelled(Settle(sd, gone, "STALE_INPUT"), gone)
  <2>1. Becomes(r) /\ UNCHANGED <<conns, pings, down>>
    BY <1>3 DEF CancelOwner, AllCancelled, Cancelled
  <2>2. AllGood(r) /\ Moves(sd, r)
    <3>1. gone \in SUBSET Inputs
      OBVIOUS
    <3>2. AllGood(sd)
      BY <1>1 DEF Fine
    <3> HIDE DEF gone
    <3> QED
      BY <3>1, <3>2, CancelIs
  <2> HIDE DEF r
  <2>3. Fine(r) /\ Same(sd, r)
    <3>1. sd.seq \in Nat /\ r.seq \in Nat /\ sd.resync \in 0 .. sd.seq /\ sd.ping \in 0 .. sd.seq
      BY <1>1, <2>2, FineIs, GoodIsTidy, DeckFields
    <3> QED
      BY <2>2, <3>1 DEF Fine, Moves, Untouched, Same
  <2> QED
    BY <1>1, <2>1, <2>3 DEF Stays
<1>4. ASSUME ReceiveMessage
      PROVE  Learns
  <2>1. sd.conn # 0 /\ down[sd.conn] # << >> /\ UNCHANGED <<pressed, conns, pings>>
    BY <1>4 DEF ReceiveMessage
  <2> DEFINE r == Handle(sd, Head(down[sd.conn]))
  <2>2. Becomes(r) /\ Unread(r, Tail(down[sd.conn]))
    BY <1>4 DEF ReceiveMessage
  <2>3. Fine(r) /\ Hears(sd, r, Head(down[sd.conn]))
    BY <1>1, <2>1, HandleIs
  <2> HIDE DEF r
  <2> QED
    BY <2>1, <2>2, <2>3 DEF Learns
<1>5. ASSUME TakeAnswer
      PROVE  Stays
  <2>1. PICK a \in sd.answers : Becomes(Answered([sd EXCEPT !.answers = @ \ {a}], a))
    BY <1>5 DEF TakeAnswer
  <2> DEFINE r == Answered([sd EXCEPT !.answers = @ \ {a}], a)
  <2>2. Fine(r) /\ Same(sd, r)
    BY <1>1, TakeAnswerIs
  <2>3. Becomes(r) /\ UNCHANGED <<conns, pings, down>>
    BY <1>5, <2>1 DEF TakeAnswer
  <2> HIDE DEF r
  <2> QED
    BY <1>1, <2>2, <2>3 DEF Stays
<1>6. ASSUME SendPing
      PROVE  Stays
  <2> DEFINE r == [sd EXCEPT !.seq = @ + 1, !.ping = sd.seq + 1, !.out = <<Ping(sd.seq + 1)>>]
  <2>1. Becomes(r) /\ UNCHANGED <<conns, down>> /\ pings < MaxPings /\ pings' = pings + 1
    BY <1>6 DEF SendPing
  <2>2. Fine(r) /\ Same(sd, r)
    BY <1>1, SendPingIs
  <2> HIDE DEF r
  <2> QED
    BY <1>1, <2>1, <2>2 DEF Stays
<1>7. ASSUME NEW code \in Reasons, GiveUp(code)
      PROVE  HangsUp
  <2> DEFINE r == Close(sd, code)
  <2>1. Becomes(r) /\ UNCHANGED <<conns, pings>> /\ sd.conn # 0 /\ Unread(Idle, << >>)
    BY <1>7 DEF GiveUp
  <2>2. Fine(r) /\ Resting(r)
    BY <1>1, FineToClose
  <2> HIDE DEF r
  <2> QED
    BY <2>1, <2>2 DEF HangsUp
<1>8. Lose \/ TimesOut => HangsUp
  <2>1. "EOF" \in Reasons /\ "REQUEST_TIMEOUT" \in Reasons
    BY DEF Reasons
  <2> QED
    BY <1>7, <2>1 DEF Lose, TimesOut
<1>9. ASSUME NEW s, Fine(s), Same(sd, s), Timer(s)
      PROVE  Stays
  BY <1>1, <1>9 DEF Timer, Stays
<1>10. ASSUME NEW t \in Targets, Expires(t) \/ Wake(t)
       PROVE  Stays
  <2>1. CASE WaitingExpires(t)
    <3>1. PICK n \in DOMAIN sd.queue[t].waiting :
            Timer(Advance(Settle([sd EXCEPT !.queue[t].waiting = RemoveAt(@, n)],
                                 sd.queue[t].waiting[n].parts, "INPUT_EXPIRED"), t))
      BY <2>1 DEF WaitingExpires
    <3> DEFINE r == Advance(Settle([sd EXCEPT !.queue[t].waiting = RemoveAt(@, n)],
                                   sd.queue[t].waiting[n].parts, "INPUT_EXPIRED"), t)
    <3>2. Fine(r) /\ Same(sd, r)
      BY <1>1, WaitingExpiresIs
    <3>3. Timer(r)
      BY <3>1
    <3> HIDE DEF r
    <3> QED
      BY <1>9, <3>2, <3>3
  <2>2. CASE RetryExpires(t)
    <3> DEFINE r == FailTarget(sd, t, "INPUT_EXPIRED")
    <3>1. Timer(r)
      BY <2>2 DEF RetryExpires
    <3>2. Fine(r) /\ Same(sd, r)
      <4>1. "INPUT_EXPIRED" \in Codes
        BY DEF Codes
      <4> QED
        BY <1>1, <4>1, FailureIsFine
    <3> HIDE DEF r
    <3> QED
      BY <1>9, <3>1, <3>2
  <2>3. CASE StateTimeout(t)
    <3> DEFINE r == RequestState(FailTarget(sd, t, "STATE_TIMEOUT"))
    <3>1. Timer(r)
      BY <2>3 DEF StateTimeout
    <3>2. Fine(r) /\ Same(sd, r)
      BY <1>1, StateTimeoutIs
    <3> HIDE DEF r
    <3> QED
      BY <1>9, <3>1, <3>2
  <2>4. CASE Wake(t)
    <3>1. PICK n \in DOMAIN sd.queue[t].waiting :
            Timer(Advance([sd EXCEPT !.queue[t].waiting[n].ripe = TRUE], t))
      BY <2>4 DEF Wake
    <3> DEFINE r == Advance([sd EXCEPT !.queue[t].waiting[n].ripe = TRUE], t)
    <3>2. Fine(r) /\ Same(sd, r)
      BY <1>1, WakeIs
    <3>3. Timer(r)
      BY <3>1
    <3> HIDE DEF r
    <3> QED
      BY <1>9, <3>2, <3>3
  <2> QED
    BY <1>10, <2>1, <2>2, <2>3, <2>4 DEF Expires
<1>11. Connect => Opens
  BY ConnectIs
<1> QED
  BY <1>2, <1>3, <1>4, <1>5, <1>6, <1>8, <1>10, <1>11 DEF DeckNext, UserActs
-----------------------------------------------------------------------------
(* The server. *)

(* A target there is not has no value.                                     *)
Blank(d) == \A t \in Targets \ d.has : d.val[t] = 0
Docs == {d \in [session : Nat, has : SUBSET Targets, val : Values] : Blank(d)}
Revisions == {k \in [rev : Nat \ {0}, structRev : Nat \ {0}, session : Nat,
                     has : SUBSET Targets, val : Values] : k.structRev <= k.rev /\ Blank(k)}
Clients == [state : {"open", "closed"}, authenticated : BOOLEAN, pending : Seq(UpMessages),
            published : Revisions \cup {Nothing}]

ServerTyped ==
  /\ doc \in Docs /\ cur \in Revisions /\ inst \in 1 .. MaxInst /\ edits \in 0 .. MaxEdits
  /\ scheduled \in BOOLEAN /\ client \in [Conns -> Clients]
WireTyped ==
  /\ up \in [Conns -> Seq(UpMessages)] /\ down \in [Conns -> Seq(DownMessages)]
  /\ link \in [Conns -> {"none", "up", "gone"}]
(* Of a connection that was not opened there is nothing yet.               *)
Unopened ==
  \A c \in Conns : c > conns => /\ link[c] = "none" /\ up[c] = << >> /\ down[c] = << >>
                                /\ client[c] = NewClient
LinkTyped == ServerTyped /\ WireTyped /\ DeckTyped /\ Unopened

(* What a revision says of the document.                                   *)
Content(k) == [session |-> k.session, has |-> k.has, val |-> k.val]
(* What a client that was told p last may be told of revision k.           *)
Tells(p, k, m) ==
  /\ m.type = "state" => m.inst = inst /\ m.rev = k.rev /\ Content(m) = Content(k)
  /\ m.type = "stateDelta" =>
        /\ p # Nothing /\ m.base = p.rev /\ m.rev = k.rev
        /\ m.session = p.session /\ m.session = k.session /\ p.has = k.has
        /\ k.val = [t \in Targets |-> IF t \in DOMAIN m.changes THEN m.changes[t] ELSE p.val[t]]

(* A step of the server that is no restart: at most one revision more, and *)
(* open clients are told of it.                                            *)
Serves ==
  /\ ServerTyped' /\ WireTyped' /\ Unopened' /\ inst' = inst
  /\ cur.rev <= cur'.rev /\ (cur.rev = cur'.rev => cur' = cur)
  /\ \A c \in Conns :
       /\ client[c].state = "closed" => client'[c].state = "closed"
       /\ client'[c].published \in {client[c].published, Nothing, cur'}
       /\ \/ down'[c] = down[c]
          \/ /\ client[c].state = "open"
             /\ \E ms \in Seq(DownMessages) :
                  /\ down'[c] = down[c] \o ms
                  /\ \A n \in 1 .. Len(ms) : Tells(client[c].published, cur', ms[n])

LEMMA DocIs ==
  ASSUME NEW d \in Docs
  PROVE  /\ d.session \in Nat /\ d.has \in SUBSET Targets /\ d.val \in Values /\ Blank(d)
         /\ d = [session |-> d.session, has |-> d.has, val |-> d.val]
BY DEF Docs

LEMMA RevisionIs ==
  ASSUME NEW k \in Revisions
  PROVE  /\ k.rev \in Nat \ {0} /\ k.structRev \in Nat \ {0} /\ k.structRev <= k.rev
         /\ k.session \in Nat /\ k.has \in SUBSET Targets /\ k.val \in Values
         /\ Blank(k) /\ Content(k) \in Docs
BY DEF Revisions, Docs, Content, Blank

LEMMA RevisionMade ==
  ASSUME NEW rev \in Nat \ {0}, NEW structRev \in Nat \ {0}, structRev <= rev, NEW d \in Docs
  PROVE  LET k == [rev |-> rev, structRev |-> structRev, session |-> d.session, has |-> d.has,
                   val |-> d.val]
         IN  k \in Revisions /\ Content(k) = d /\ k.rev = rev
BY DocIs DEF Revisions, Docs, Content, Blank

LEMMA FreshIs ==
  ASSUME NEW d \in Docs
  PROVE  Fresh(d) \in Revisions /\ Content(Fresh(d)) = d /\ Fresh(d).rev = 1
BY RevisionMade DEF Fresh

LEMMA CapturedIs ==
  ASSUME NEW k \in Revisions, NEW d \in Docs
  PROVE  LET r == Captured(k, d)
         IN  /\ r \in Revisions /\ Content(r) = d /\ r.session = d.session /\ r.has = d.has
             /\ r = k \/ r.rev = k.rev + 1
<1>1. CASE k.session = d.session /\ k.has = d.has /\ k.val = d.val
  BY <1>1, DocIs DEF Captured, Content
<1>2. CASE ~ (k.session = d.session /\ k.has = d.has /\ k.val = d.val)
  <2> DEFINE rev == k.rev + 1
             structRev == IF k.session # d.session \/ k.has # d.has THEN k.rev + 1 ELSE k.structRev
  <2>1. rev \in Nat \ {0} /\ structRev \in Nat \ {0} /\ structRev <= rev
    BY RevisionIs
  <2>2. Captured(k, d) = [rev |-> rev, structRev |-> structRev, session |-> d.session,
                          has |-> d.has, val |-> d.val]
    BY <1>2 DEF Captured
  <2>3. Captured(k, d) \in Revisions /\ Content(Captured(k, d)) = d /\ Captured(k, d).rev = rev
    <3> HIDE DEF rev, structRev
    <3> QED
      BY <2>1, <2>2, RevisionMade
  <2> QED
    BY <2>2, <2>3
<1> QED
  BY <1>1, <1>2

LEMMA ClientIs ==
  ASSUME NEW x \in Clients
  PROVE  /\ x.state \in {"open", "closed"} /\ x.authenticated \in BOOLEAN
         /\ x.pending \in Seq(UpMessages) /\ x.published \in Revisions \cup {Nothing}
BY DEF Clients

LEMMA NewClientIs ==
  /\ NewClient \in Clients /\ [NewClient EXCEPT !.state = "closed"] \in Clients
  /\ NewClient.published = Nothing /\ [NewClient EXCEPT !.state = "closed"].published = Nothing
  /\ [NewClient EXCEPT !.state = "closed"].state = "closed"
  /\ NewClient.pending = << >> /\ ~ NewClient.authenticated /\ NewClient.state = "open"
<1> DEFINE closed == [NewClient EXCEPT !.state = "closed"]
<1>1. << >> \in Seq(UpMessages)
  OBVIOUS
<1>2. /\ NewClient \in [state : {"open", "closed"}, authenticated : BOOLEAN, pending : Seq(UpMessages),
                         published : {Nothing}]
      /\ NewClient.published = Nothing /\ NewClient.pending = << >> /\ ~ NewClient.authenticated
      /\ NewClient.state = "open"
  BY <1>1 DEF NewClient
<1>3. NewClient \in Clients
  BY <1>2 DEF Clients
<1>4. closed \in Clients /\ closed.published = NewClient.published /\ closed.state = "closed"
  BY <1>3 DEF Clients
<1> QED
  BY <1>2, <1>3, <1>4

(* The head and the rest of a queue of messages.                           *)
LEMMA HeadAndTail ==
  ASSUME NEW S, NEW q \in Seq(S), q # << >>
  PROVE  Head(q) \in S /\ Tail(q) \in Seq(S) /\ Len(Tail(q)) = Len(q) - 1
         /\ \A n \in 1 .. Len(q) - 1 : Tail(q)[n] = q[n + 1]
BY HeadTailProperties

(* What LiveMix sends.                                                     *)
LEMMA SentIs ==
  ASSUME NEW k \in Revisions, NEW id \in Nat, NEW code \in Codes, inst \in Nat
  PROVE  /\ State(inst, k, id) \in DownMessages /\ Pong(id, k) \in DownMessages
         /\ Ack(id, k) \in DownMessages /\ Error(id, code) \in DownMessages
         /\ HelloAck \in DownMessages /\ ServerStatus \in DownMessages /\ EndOfStream \in DownMessages
<1>1. k.session \in Nat /\ k.rev \in Nat /\ k.has \in SUBSET Targets /\ k.val \in Values
  BY RevisionIs
<1>2. State(inst, k, id) \in States
  BY <1>1 DEF State, States
<1>3. Pong(id, k) \in Pongs /\ Ack(id, k) \in AckMessages /\ Error(id, code) \in Errors
  BY <1>1 DEF Pong, Pongs, Ack, AckMessages, Error, Errors
<1> QED
  BY <1>2, <1>3 DEF DownMessages

(* What is not about the state tells nothing of it.                        *)
LEMMA TellsIs ==
  ASSUME NEW k \in Revisions, NEW p, NEW id, NEW code
  PROVE  /\ Tells(p, k, State(inst, k, id)) /\ Tells(p, k, Pong(id, k)) /\ Tells(p, k, Ack(id, k))
         /\ Tells(p, k, Error(id, code)) /\ Tells(p, k, HelloAck) /\ Tells(p, k, ServerStatus)
         /\ Tells(p, k, EndOfStream)
BY DEF Tells, Content, State, Pong, Ack, Error, HelloAck, ServerStatus, EndOfStream

(* A step of the server on one connection that tells its client of cur'.   *)
LEMMA ServedIs ==
  ASSUME ServerTyped, WireTyped, Unopened, conns \in Nat,
         NEW c \in Conns, c <= conns, client[c].state = "open",
         NEW x \in Clients, client' = [client EXCEPT ![c] = x],
         x.published \in {client[c].published, Nothing, cur'},
         NEW ms \in Seq(DownMessages), down' \in {down, Told(c, ms)},
         \A n \in 1 .. Len(ms) : Tells(client[c].published, cur', ms[n]),
         cur' \in Revisions, cur.rev <= cur'.rev, cur.rev = cur'.rev => cur' = cur,
         doc' \in Docs, scheduled' \in BOOLEAN, UNCHANGED <<inst, edits, link, conns>>,
         NEW u \in Seq(UpMessages), up' \in {up, [up EXCEPT ![c] = u]}
  PROVE  Serves
<1>1. /\ client \in [Conns -> Clients] /\ up \in [Conns -> Seq(UpMessages)]
      /\ down \in [Conns -> Seq(DownMessages)]
  BY DEF ServerTyped, WireTyped
<1>2. ServerTyped'
  BY <1>1 DEF ServerTyped
<1>3. down[c] \in Seq(DownMessages) /\ down[c] \o ms \in Seq(DownMessages)
  BY <1>1, ConcatProperties
<1>4. down' = down \/ down' = [down EXCEPT ![c] = down[c] \o ms]
  BY DEF Told
<1>5. WireTyped'
  <2>1. down' \in [Conns -> Seq(DownMessages)]
    BY <1>1, <1>3, <1>4
  <2>2. up' \in [Conns -> Seq(UpMessages)]
    BY <1>1
  <2> QED
    BY <2>1, <2>2 DEF WireTyped
<1>6. ASSUME NEW d \in Conns, d # c
      PROVE  client'[d] = client[d] /\ down'[d] = down[d] /\ up'[d] = up[d]
  BY <1>1, <1>4, <1>6
<1>7. Unopened'
  <2> SUFFICES ASSUME NEW d \in Conns, d > conns
               PROVE  link[d] = "none" /\ up'[d] = << >> /\ down'[d] = << >> /\ client'[d] = NewClient
    BY DEF Unopened
  <2>1. d # c
    BY WireAssumption DEF Conns
  <2> QED
    BY <1>6, <2>1 DEF Unopened
<1>8. /\ client'[c] = x /\ (down'[c] = down[c] \/ down'[c] = down[c] \o ms)
  BY <1>1, <1>4
<1>9. ASSUME NEW d \in Conns
      PROVE  /\ client[d].state = "closed" => client'[d].state = "closed"
             /\ client'[d].published \in {client[d].published, Nothing, cur'}
             /\ \/ down'[d] = down[d]
                \/ /\ client[d].state = "open"
                   /\ \E mm \in Seq(DownMessages) :
                        /\ down'[d] = down[d] \o mm
                        /\ \A n \in 1 .. Len(mm) : Tells(client[d].published, cur', mm[n])
  <2>1. CASE d # c
    BY <1>6, <2>1
  <2>2. CASE d = c
    BY <1>8, <2>2
  <2> QED
    BY <2>1, <2>2
<1> QED
  BY <1>2, <1>5, <1>7, <1>9 DEF Serves

(* A client that sends or is served was connected.                         *)
LEMMA WasOpened ==
  ASSUME Unopened, NEW c \in Conns, conns \in Nat,
         up[c] # << >> \/ client[c].pending # << >> \/ client[c].authenticated \/ link[c] # "none"
  PROVE  c <= conns
BY NewClientIs, WireAssumption DEF Unopened, Conns

(* One or two messages.                                                    *)
LEMMA Messages ==
  ASSUME NEW S, NEW a \in S, NEW b \in S
  PROVE  /\ <<a>> \in Seq(S) /\ Len(<<a>>) = 1 /\ <<a>>[1] = a
         /\ <<a, b>> \in Seq(S) /\ Len(<<a, b>>) = 2 /\ <<a, b>>[1] = a /\ <<a, b>>[2] = b
         /\ << >> \in Seq(S) /\ Len(<< >>) = 0
OBVIOUS

(* What stays if the server only notes something of one client.            *)
LEMMA NotesIs ==
  ASSUME ServerTyped, WireTyped, Unopened, conns \in Nat
  PROVE  /\ \A c \in Conns : client[c] \in Clients /\ up[c] \in Seq(UpMessages)
                             /\ down[c] \in Seq(DownMessages)
         /\ cur \in Revisions /\ doc \in Docs /\ inst \in Nat /\ cur.rev \in Nat /\ scheduled \in BOOLEAN
BY WireAssumption, RevisionIs DEF ServerTyped, WireTyped

LEMMA UserEditsServe ==
  ASSUME ServerTyped, WireTyped, Unopened, conns \in Nat, UNCHANGED conns, UserEdits
  PROVE  Serves
<1>1. doc' \in Docs
  <2>1. doc.session \in Nat /\ doc.has \in SUBSET Targets /\ doc.val \in Values /\ Blank(doc)
        /\ doc = [session |-> doc.session, has |-> doc.has, val |-> doc.val]
    BY NotesIs, DocIs
  <2>2. Top \in Nat
    BY WireAssumption
  <2>3. ASSUME NEW t \in doc.has, NEW v \in 0 .. Top, doc' = [doc EXCEPT !.val[t] = v]
        PROVE  doc' \in Docs
    <3>1. doc' = [session |-> doc.session, has |-> doc.has, val |-> [doc.val EXCEPT ![t] = v]]
      BY <2>1, <2>3
    <3>2. [doc.val EXCEPT ![t] = v] \in Values
      BY <2>1 DEF Values
    <3>3. \A u \in Targets \ doc.has : [doc.val EXCEPT ![t] = v][u] = 0
      BY <2>1 DEF Blank, Values
    <3> QED
      BY <2>1, <3>1, <3>2, <3>3 DEF Docs, Blank
  <2>4. ASSUME NEW t \in Targets,
               doc' = [doc EXCEPT !.has = IF t \in @ THEN @ \ {t} ELSE @ \cup {t}, !.val[t] = 0]
        PROVE  doc' \in Docs
    <3> DEFINE has == IF t \in doc.has THEN doc.has \ {t} ELSE doc.has \cup {t}
    <3>1. doc' = [session |-> doc.session, has |-> has, val |-> [doc.val EXCEPT ![t] = 0]]
      BY <2>1, <2>4
    <3>2. [doc.val EXCEPT ![t] = 0] \in Values
      BY <2>1, <2>2 DEF Values
    <3>3. has \in SUBSET Targets
      BY <2>1
    <3>4. \A u \in Targets \ has : [doc.val EXCEPT ![t] = 0][u] = 0
      BY <2>1 DEF Blank, Values
    <3> HIDE DEF has
    <3> QED
      BY <2>1, <3>1, <3>2, <3>3, <3>4 DEF Docs, Blank
  <2>5. ASSUME doc' = [session |-> doc.session + 1, has |-> Targets, val |-> [t \in Targets |-> 0]]
        PROVE  doc' \in Docs
    BY <2>1, <2>2, <2>5 DEF Docs, Blank, Values
  <2> QED
    BY <2>3, <2>4, <2>5 DEF UserEdits
<1>2. /\ edits' \in 0 .. MaxEdits
      /\ UNCHANGED <<inst, cur, client, scheduled, up, down, link>>
  <2>1. edits < MaxEdits /\ edits' = edits + 1
        /\ UNCHANGED <<inst, cur, client, scheduled, applied, wire>>
    BY DEF UserEdits
  <2>2. edits' \in 0 .. MaxEdits
    BY <2>1, WireAssumption DEF ServerTyped
  <2> QED
    BY <2>1, <2>2 DEF wire
<1>3. ServerTyped' /\ WireTyped' /\ Unopened'
  BY <1>1, <1>2 DEF ServerTyped, WireTyped, Unopened
<1> QED
  BY <1>2, <1>3, NotesIs DEF Serves

LEMMA CaptureServes ==
  ASSUME ServerTyped, WireTyped, Unopened, conns \in Nat, UNCHANGED conns, Capture
  PROVE  Serves
<1>1. /\ cur' = Captured(cur, doc)
      /\ UNCHANGED <<doc, inst, client, scheduled, edits, up, down, link>>
  BY DEF Capture, wire
<1>2. cur' \in Revisions /\ cur.rev <= cur'.rev /\ (cur.rev = cur'.rev => cur' = cur)
  BY <1>1, NotesIs, CapturedIs
<1>3. ServerTyped' /\ WireTyped' /\ Unopened'
  BY <1>1, <1>2 DEF ServerTyped, WireTyped, Unopened
<1> QED
  BY <1>1, <1>2, <1>3 DEF Serves

LEMMA DrainEndsServes ==
  ASSUME ServerTyped, WireTyped, Unopened, conns \in Nat, UNCHANGED conns, DrainEnds
  PROVE  Serves
<1>1. scheduled' = FALSE /\ UNCHANGED <<doc, inst, cur, client, edits, up, down, link>>
  BY DEF DrainEnds, wire
<1>2. ServerTyped' /\ WireTyped' /\ Unopened'
  BY <1>1 DEF ServerTyped, WireTyped, Unopened
<1> QED
  BY <1>1, <1>2, NotesIs DEF Serves
(* The worker of a connection.                                             *)
LEMMA ReadsIs ==
  ASSUME ServerTyped, WireTyped, Unopened, conns \in Nat, NEW c \in Conns, Reads(c)
  PROVE  /\ c <= conns /\ client[c].state = "open" /\ Head(up[c]) \in UpMessages
         /\ Tail(up[c]) \in Seq(UpMessages) /\ up' = [up EXCEPT ![c] = Tail(up[c])]
         /\ UNCHANGED <<doc, inst, cur, edits, link>>
<1>1. up[c] # << >> /\ up[c] \in Seq(UpMessages) /\ client[c].state = "open"
      /\ up \in [Conns -> Seq(UpMessages)]
  BY NotesIs DEF Reads, WireTyped
<1>2. Head(up[c]) \in UpMessages /\ Tail(up[c]) \in Seq(UpMessages)
  BY <1>1, HeadAndTail
<1> QED
  BY <1>1, <1>2, WasOpened DEF Reads

LEMMA ReceiveServes ==
  ASSUME ServerTyped, WireTyped, Unopened, conns \in Nat, UNCHANGED conns,
         NEW c \in Conns, Receive(c)
  PROVE  Serves
<1> DEFINE x == [client[c] EXCEPT !.pending = Append(@, Head(up[c]))]
<1>1. /\ c <= conns /\ client[c].state = "open" /\ Head(up[c]) \in UpMessages
      /\ Tail(up[c]) \in Seq(UpMessages) /\ up' = [up EXCEPT ![c] = Tail(up[c])]
      /\ UNCHANGED <<doc, inst, cur, edits, link>>
  BY ReadsIs DEF Receive
<1>2. client[c] \in Clients /\ client \in [Conns -> Clients]
  BY NotesIs DEF ServerTyped
<1>3. x \in Clients /\ x.published = client[c].published
  <2>1. Append(client[c].pending, Head(up[c])) \in Seq(UpMessages)
    BY <1>1, <1>2, ClientIs, AppendProperties
  <2> QED
    BY <1>2, <2>1 DEF Clients
<1>4. client' = [client EXCEPT ![c] = x] /\ scheduled' = TRUE /\ down' = down
  BY <1>2 DEF Receive
<1> DEFINE ms == << >>
           u == Tail(up[c])
<1>5. ms \in Seq(DownMessages) /\ Len(ms) = 0
  OBVIOUS
<1>6. cur' \in Revisions /\ cur.rev <= cur'.rev /\ cur' = cur /\ doc' \in Docs
  BY <1>1, NotesIs
<1>7. up' \in {up, [up EXCEPT ![c] = u]} /\ u \in Seq(UpMessages)
  BY <1>1
<1>8. \A n \in 1 .. Len(ms) : Tells(client[c].published, cur', ms[n])
  BY <1>5
<1>9. /\ x.published \in {client[c].published, Nothing, cur'}
      /\ down' \in {down, Told(c, ms)} /\ scheduled' \in BOOLEAN
      /\ UNCHANGED <<inst, edits, link, conns>>
  BY <1>1, <1>3, <1>4
<1> HIDE DEF x, ms, u
<1> QED
  BY <1>1, <1>3, <1>4, <1>5, <1>6, <1>7, <1>8, <1>9, ServedIs

LEMMA RefuseAtOnceServes ==
  ASSUME ServerTyped, WireTyped, Unopened, conns \in Nat, UNCHANGED conns,
         NEW c \in Conns, RefuseAtOnce(c)
  PROVE  Serves
<1>1. /\ c <= conns /\ client[c].state = "open" /\ Head(up[c]) \in UpMessages
      /\ Tail(up[c]) \in Seq(UpMessages) /\ up' = [up EXCEPT ![c] = Tail(up[c])]
      /\ UNCHANGED <<doc, inst, cur, edits, link>>
  BY ReadsIs DEF RefuseAtOnce
<1>2. client[c] \in Clients /\ client \in [Conns -> Clients]
  BY NotesIs DEF ServerTyped
<1>3. /\ cur' \in Revisions /\ cur.rev <= cur'.rev /\ cur' = cur /\ doc' \in Docs /\ inst \in Nat
      /\ scheduled' \in BOOLEAN /\ UNCHANGED <<inst, edits, link, conns>>
  BY <1>1, NotesIs DEF RefuseAtOnce
<1> DEFINE u == Tail(up[c])
<1>7. u \in Seq(UpMessages) /\ up' \in {up, [up EXCEPT ![c] = u]}
  BY <1>1
<1> HIDE DEF u
<1>4. "RATE_LIMITED" \in Codes /\ 0 \in Nat
  BY DEF Codes
<1>5. CASE Head(up[c]).type = "hello"
  <2> DEFINE x == [client[c] EXCEPT !.state = "closed"]
             e == Error(0, "RATE_LIMITED")
             ms == <<e, EndOfStream>>
  <2>1. down' = Told(c, ms) /\ client' = [client EXCEPT ![c] = x]
    BY <1>2, <1>5 DEF RefuseAtOnce
  <2>2. x \in Clients /\ x.published = client[c].published
    BY <1>2 DEF Clients
  <2>3. e \in DownMessages /\ EndOfStream \in DownMessages
    BY <1>3, <1>4, SentIs
  <2>4. Tells(client[c].published, cur', e) /\ Tells(client[c].published, cur', EndOfStream)
    BY <1>3, TellsIs
  <2> HIDE DEF x, e
  <2>5. ms \in Seq(DownMessages) /\ Len(ms) = 2 /\ ms[1] = e /\ ms[2] = EndOfStream
    BY <2>3, Messages
  <2>6. \A n \in 1 .. Len(ms) : Tells(client[c].published, cur', ms[n])
    BY <2>4, <2>5
  <2> HIDE DEF ms
  <2>7. x.published \in {client[c].published, Nothing, cur'} /\ down' \in {down, Told(c, ms)}
    BY <2>1, <2>2
  <2> QED
    BY <1>1, <1>3, <1>7, <2>1, <2>2, <2>5, <2>6, <2>7, ServedIs
<1>6. CASE Head(up[c]).type # "hello"
  <2> DEFINE e == Error(Head(up[c]).id, "RATE_LIMITED")
             ms == <<e>>
             x == client[c]
  <2>1. down' = Told(c, ms) /\ client' = [client EXCEPT ![c] = x]
    BY <1>2, <1>6 DEF RefuseAtOnce
  <2>2. x \in Clients /\ x.published = client[c].published
    BY <1>2
  <2>3. e \in DownMessages
    BY <1>1, <1>3, <1>4, <1>6, UpMessageIs, SentIs
  <2>4. Tells(client[c].published, cur', e)
    BY <1>3, TellsIs
  <2> HIDE DEF x, e
  <2>5. ms \in Seq(DownMessages) /\ Len(ms) = 1 /\ ms[1] = e
    BY <2>3, Messages
  <2>6. \A n \in 1 .. Len(ms) : Tells(client[c].published, cur', ms[n])
    BY <2>4, <2>5
  <2> HIDE DEF ms
  <2>7. x.published \in {client[c].published, Nothing, cur'} /\ down' \in {down, Told(c, ms)}
    BY <2>1, <2>2
  <2> QED
    BY <1>1, <1>3, <1>7, <2>1, <2>2, <2>5, <2>6, <2>7, ServedIs
<1> QED
  BY <1>5, <1>6

LEMMA RemoveClientServes ==
  ASSUME ServerTyped, WireTyped, Unopened, conns \in Nat, UNCHANGED conns,
         NEW c \in Conns, RemoveClient(c)
  PROVE  Serves
<1> DEFINE x == [NewClient EXCEPT !.state = "closed"]
           u == << >>
<1>1. c <= conns
  BY WasOpened DEF RemoveClient
<1>2. x \in Clients /\ x.published = Nothing
  BY NewClientIs
<1>3. /\ client[c].state = "open" /\ client' = [client EXCEPT ![c] = x]
      /\ up' = [up EXCEPT ![c] = u]
      /\ UNCHANGED <<doc, inst, cur, scheduled, edits, down, link>>
  BY DEF RemoveClient
<1> DEFINE ms == << >>
<1>4. u \in Seq(UpMessages) /\ ms \in Seq(DownMessages) /\ Len(ms) = 0
  OBVIOUS
<1>5. /\ cur' \in Revisions /\ cur.rev <= cur'.rev /\ cur' = cur /\ doc' \in Docs
      /\ scheduled' \in BOOLEAN /\ UNCHANGED <<inst, edits, link, conns>>
  BY <1>3, NotesIs
<1>6. \A n \in 1 .. Len(ms) : Tells(client[c].published, cur', ms[n])
  BY <1>4
<1>7. /\ x.published \in {client[c].published, Nothing, cur'}
      /\ down' \in {down, Told(c, ms)} /\ up' \in {up, [up EXCEPT ![c] = u]}
  BY <1>2, <1>3
<1> HIDE DEF x, u, ms
<1> QED
  BY <1>1, <1>2, <1>3, <1>4, <1>5, <1>6, <1>7, ServedIs

(* One piece of work of a drain.                                           *)
LEMMA WorkIs ==
  ASSUME ServerTyped, WireTyped, Unopened, conns \in Nat, NEW c \in Conns, NEW type, Drains(c, type)
  PROVE  /\ c <= conns /\ client[c].state = "open" /\ Work(c) \in UpMessages /\ Work(c).type = type
         /\ Tail(client[c].pending) \in Seq(UpMessages)
<1>1. /\ client[c].state = "open" /\ client[c].pending # << >> /\ Work(c).type = type
      /\ client[c].pending \in Seq(UpMessages)
  BY NotesIs, ClientIs DEF Drains
<1> QED
  BY <1>1, HeadAndTail, WasOpened DEF Work

LEMMA FinishServes ==
  ASSUME ServerTyped, WireTyped, Unopened, conns \in Nat, UNCHANGED conns,
         NEW c \in Conns, NEW type, Drains(c, type),
         NEW k \in Revisions, cur.rev <= k.rev, cur.rev = k.rev => k = cur, doc' \in Docs,
         NEW ms \in Seq(DownMessages), \A n \in 1 .. Len(ms) : Tells(client[c].published, k, ms[n]),
         NEW published \in {client[c].published, k}, Finish(c, k, ms, published)
  PROVE  Serves
<1> DEFINE x == [client[c] EXCEPT !.pending = Tail(@), !.published = published, !.authenticated = TRUE]
<1>1. c <= conns /\ client[c].state = "open" /\ Tail(client[c].pending) \in Seq(UpMessages)
  BY WorkIs
<1>2. client[c] \in Clients /\ client \in [Conns -> Clients]
  BY NotesIs DEF ServerTyped
<1>3. published \in Revisions \cup {Nothing}
  BY <1>2, ClientIs
<1>4. x \in Clients /\ x.published = published
  BY <1>1, <1>2, <1>3 DEF Clients
<1>5. /\ cur' = k /\ down' = Told(c, ms) /\ client' = [client EXCEPT ![c] = x]
      /\ UNCHANGED <<inst, scheduled, edits, up, link>>
  BY <1>2 DEF Finish
<1> HIDE DEF x
<1>6. scheduled' \in BOOLEAN
  BY <1>5, NotesIs
<1>7. << >> \in Seq(UpMessages)
  OBVIOUS
<1> QED
  BY <1>1, <1>4, <1>5, <1>6, <1>7, ServedIs
(* The document as it is captured by a drain or by the timer.              *)
LEMMA NowIs ==
  ASSUME ServerTyped, WireTyped, Unopened, conns \in Nat
  PROVE  LET k == Captured(cur, doc)
         IN  /\ k \in Revisions /\ cur.rev <= k.rev /\ (cur.rev = k.rev => k = cur)
             /\ k.session = doc.session /\ k.has = doc.has
             /\ cur.rev \in Nat /\ k.rev \in Nat
BY NotesIs, CapturedIs, RevisionIs

LEMMA RefusesServes ==
  ASSUME ServerTyped, WireTyped, Unopened, conns \in Nat, UNCHANGED conns,
         NEW c \in Conns, Drains(c, "command"), NEW code \in Codes, Refuses(c, code)
  PROVE  Serves
<1> DEFINE k == Captured(cur, doc)
           e == Error(Work(c).id, code)
           ms == <<e>>
           published == client[c].published
<1>1. k \in Revisions /\ cur.rev <= k.rev /\ (cur.rev = k.rev => k = cur)
  BY NowIs
<1>2. Work(c).id \in Nat /\ inst \in Nat
  BY WorkIs, UpMessageIs, NotesIs
<1>3. Finish(c, k, ms, published) /\ doc' = doc
  BY DEF Refuses
<1> HIDE DEF k
<1>4. e \in DownMessages /\ Tells(published, k, e)
  BY <1>1, <1>2, SentIs, TellsIs
<1>5. doc' \in Docs
  BY <1>3, NotesIs
<1> HIDE DEF e
<1>6. ms \in Seq(DownMessages) /\ \A n \in 1 .. Len(ms) : Tells(published, k, ms[n])
  BY <1>4, Messages
<1> HIDE DEF ms
<1> QED
  BY <1>1, <1>3, <1>5, <1>6, FinishServes

LEMMA DrainEditServes ==
  ASSUME ServerTyped, WireTyped, Unopened, conns \in Nat, UNCHANGED conns,
         NEW c \in Conns, DrainEdit(c)
  PROVE  Serves
<1> DEFINE m == Work(c)
           k == Captured(cur, doc)
           v == IF m.op = "set" THEN m.value ELSE Effect("toggle", doc.val[m.target], 1)
           d == [doc EXCEPT !.val[m.target] = v]
           after == Captured(k, d)
           a == Ack(m.id, after)
           ms == <<a>>
           published == client[c].published
<1>1. Drains(c, "command") /\ m.op # "requestState"
  BY DEF DrainEdit
<1>2. m \in EditCommands /\ m.id \in Nat
  BY <1>1, WorkIs, UpMessageIs
<1>3. CASE \E code \in Codes : Refuses(c, code)
  BY <1>1, <1>3, RefusesServes
<1>4. ASSUME ~ \E code \in Codes : Refuses(c, code)
      PROVE  m.target \in k.has /\ doc' = d /\ Finish(c, after, ms, published)
  <2>1. "SESSION_CHANGED" \in Codes /\ "REVISION_CONFLICT" \in Codes /\ "NOT_FOUND" \in Codes
    BY DEF Codes
  <2>2. ~ Refuses(c, "SESSION_CHANGED") /\ ~ Refuses(c, "REVISION_CONFLICT")
        /\ ~ Refuses(c, "NOT_FOUND")
    BY <1>4, <2>1
  <2> QED
    BY <2>2 DEF DrainEdit
<1>5. ASSUME m.target \in k.has, doc' = d, Finish(c, after, ms, published)
      PROVE  Serves
  <2>1. k \in Revisions /\ cur.rev <= k.rev /\ (cur.rev = k.rev => k = cur)
        /\ k.has = doc.has /\ cur.rev \in Nat /\ k.rev \in Nat
    BY NowIs
  <2>2. d \in Docs
    <3>1. /\ doc.session \in Nat /\ doc.has \in SUBSET Targets /\ doc.val \in Values /\ Blank(doc)
          /\ doc = [session |-> doc.session, has |-> doc.has, val |-> doc.val]
      BY NotesIs, DocIs
    <3>2. m.target \in doc.has /\ m.target \in Targets /\ m.value \in 0 .. Top
      BY <1>2, <1>5, <2>1 DEF EditCommands
    <3>3. v \in 0 .. Top
      BY <3>1, <3>2, EffectIs DEF Values
    <3> HIDE DEF v, m
    <3>4. d = [session |-> doc.session, has |-> doc.has, val |-> [doc.val EXCEPT ![m.target] = v]]
      BY <3>1
    <3>5. [doc.val EXCEPT ![m.target] = v] \in Values
      BY <3>1, <3>3 DEF Values
    <3>6. \A u \in Targets \ doc.has : [doc.val EXCEPT ![m.target] = v][u] = 0
      BY <3>1, <3>2 DEF Blank, Values
    <3> HIDE DEF d
    <3> QED
      BY <3>1, <3>4, <3>5, <3>6 DEF Docs, Blank
  <2> HIDE DEF k, d
  <2>3. after \in Revisions /\ (after = k \/ after.rev = k.rev + 1)
    BY <2>1, <2>2, CapturedIs
  <2> HIDE DEF after
  <2>4. cur.rev <= after.rev /\ (cur.rev = after.rev => after = cur)
    BY <2>1, <2>3
  <2>5. a \in DownMessages /\ Tells(published, after, a)
    BY <1>2, <2>3, NotesIs, SentIs, TellsIs DEF Codes
  <2> HIDE DEF a, m
  <2>6. ms \in Seq(DownMessages) /\ \A n \in 1 .. Len(ms) : Tells(published, after, ms[n])
    BY <2>5, Messages
  <2> HIDE DEF ms
  <2> QED
    BY <1>1, <1>5, <2>2, <2>3, <2>4, <2>6, FinishServes
<1> QED
  BY <1>3, <1>4, <1>5

LEMMA DrainServes ==
  ASSUME ServerTyped, WireTyped, Unopened, conns \in Nat, UNCHANGED conns,
         NEW c \in Conns, Drain(c)
  PROVE  Serves
<1> DEFINE k == Captured(cur, doc)
           p == client[c].published
<1>1. k \in Revisions /\ cur.rev <= k.rev /\ (cur.rev = k.rev => k = cur) /\ inst \in Nat
      /\ doc \in Docs
  BY NowIs, NotesIs
<1>2. "COMMAND_EXPIRED" \in Codes /\ 0 \in Nat
  BY DEF Codes
<1>3. CASE DrainHello(c)
  <2> DEFINE s == State(inst, k, 0)
             ms == <<HelloAck, s>>
  <2>1. Drains(c, "hello") /\ Finish(c, k, ms, k) /\ doc' = doc
    BY <1>3 DEF DrainHello
  <2> HIDE DEF k
  <2>2. HelloAck \in DownMessages /\ s \in DownMessages /\ Tells(p, k, HelloAck) /\ Tells(p, k, s)
    BY <1>1, <1>2, SentIs, TellsIs
  <2> HIDE DEF s
  <2>3. ms \in Seq(DownMessages) /\ Len(ms) = 2 /\ ms[1] = HelloAck /\ ms[2] = s
    BY <2>2, Messages
  <2>4. \A n \in 1 .. Len(ms) : Tells(p, k, ms[n])
    BY <2>2, <2>3
  <2> HIDE DEF ms
  <2> QED
    BY <1>1, <2>1, <2>3, <2>4, FinishServes
<1>4. CASE DrainPing(c)
  <2> DEFINE a == Pong(Work(c).id, k)
             ms == <<a>>
  <2>1. Drains(c, "ping") /\ Finish(c, k, ms, p) /\ doc' = doc
    BY <1>4 DEF DrainPing
  <2>2. Work(c).id \in Nat
    BY <2>1, WorkIs, UpMessageIs
  <2> HIDE DEF k
  <2>3. a \in DownMessages /\ Tells(p, k, a)
    BY <1>1, <1>2, <2>2, SentIs, TellsIs
  <2> HIDE DEF a
  <2>4. ms \in Seq(DownMessages) /\ \A n \in 1 .. Len(ms) : Tells(p, k, ms[n])
    BY <2>3, Messages
  <2> HIDE DEF ms
  <2> QED
    BY <1>1, <2>1, <2>4, FinishServes
<1>5. CASE DrainExpired(c)
  BY <1>2, <1>5, RefusesServes DEF DrainExpired
<1>6. CASE DrainRequestState(c)
  <2> DEFINE a == Ack(Work(c).id, k)
             s == State(inst, k, Work(c).id)
             ms == <<a, s>>
  <2>1. Drains(c, "command") /\ Finish(c, k, ms, k) /\ doc' = doc
    BY <1>6 DEF DrainRequestState
  <2>2. Work(c).id \in Nat
    BY <2>1, WorkIs, UpMessageIs
  <2> HIDE DEF k
  <2>3. a \in DownMessages /\ s \in DownMessages /\ Tells(p, k, a) /\ Tells(p, k, s)
    BY <1>1, <1>2, <2>2, SentIs, TellsIs
  <2> HIDE DEF a, s
  <2>4. ms \in Seq(DownMessages) /\ Len(ms) = 2 /\ ms[1] = a /\ ms[2] = s
    BY <2>3, Messages
  <2>5. \A n \in 1 .. Len(ms) : Tells(p, k, ms[n])
    BY <2>3, <2>4
  <2> HIDE DEF ms
  <2> QED
    BY <1>1, <2>1, <2>4, <2>5, FinishServes
<1>7. CASE DrainEdit(c)
  BY <1>7, DrainEditServes
<1> QED
  BY <1>3, <1>4, <1>5, <1>6, <1>7 DEF Drain

(* A delta says what changed since the client was last told.               *)
LEMMA DeltaIs ==
  ASSUME NEW k \in Revisions, NEW p \in Revisions \cup {Nothing}, ~ NeedsFullState(p, k)
  PROVE  LET m == Delta(k, p.rev, [t \in Changed(p, k) |-> k.val[t]])
         IN  m \in DownMessages /\ Tells(p, k, m)
<1> DEFINE changes == [t \in Changed(p, k) |-> k.val[t]]
           m == Delta(k, p.rev, changes)
<1>1. /\ k.rev \in Nat \ {0} /\ k.structRev \in Nat \ {0} /\ k.session \in Nat
      /\ k.has \in SUBSET Targets /\ k.val \in Values /\ Blank(k)
  BY RevisionIs
<1>2. p # Nothing
  BY <1>1 DEF NeedsFullState, Nothing
<1>3. p.rev \in Nat /\ p.has \in SUBSET Targets /\ p.val \in Values /\ Blank(p)
  BY <1>2, RevisionIs
<1>4. p.session = k.session /\ p.has = k.has
  BY DEF NeedsFullState
<1>5. Changed(p, k) \in SUBSET Targets /\ changes \in [Changed(p, k) -> 0 .. Top]
  BY <1>1 DEF Changed, Values
<1>6. k.val = [t \in Targets |-> IF t \in DOMAIN changes THEN changes[t] ELSE p.val[t]]
  <2>1. k.val \in [Targets -> 0 .. Top]
    BY <1>1 DEF Values
  <2>2. ASSUME NEW t \in Targets
        PROVE  k.val[t] = IF t \in DOMAIN changes THEN changes[t] ELSE p.val[t]
    <3>1. CASE t \in Changed(p, k)
      BY <3>1
    <3>2. CASE t \in k.has /\ t \notin Changed(p, k)
      BY <3>2 DEF Changed
    <3>3. CASE t \notin k.has
      <4>1. k.val[t] = 0 /\ p.val[t] = 0
        BY <1>1, <1>3, <1>4, <3>3 DEF Blank
      <4>2. t \notin Changed(p, k)
        BY <3>3 DEF Changed
      <4> QED
        BY <4>1, <4>2
    <3> QED
      BY <3>1, <3>2, <3>3
  <2> QED
    BY <2>1, <2>2
<1> HIDE DEF changes
<1>7. changes \in UNION {[T -> 0 .. Top] : T \in SUBSET Targets}
  BY <1>5
<1>8. m \in Deltas
  BY <1>1, <1>3, <1>7 DEF Delta, Deltas
<1>9. Tells(p, k, m)
  <2>1. /\ m.type = "stateDelta" /\ m.base = p.rev /\ m.rev = k.rev /\ m.session = k.session
        /\ m.changes = changes
    BY DEF Delta
  <2> HIDE DEF m
  <2> QED
    BY <1>2, <1>4, <1>6, <2>1 DEF Tells
<1> QED
  BY <1>8, <1>9 DEF DownMessages, changes

LEMMA PublishServes ==
  ASSUME ServerTyped, WireTyped, Unopened, conns \in Nat, UNCHANGED conns,
         NEW c \in Conns, Publish(c)
  PROVE  Serves
<1> DEFINE k == Captured(cur, doc)
           p == client[c].published
           m == IF NeedsFullState(p, k) THEN State(inst, k, 0)
                ELSE Delta(k, p.rev, [t \in Changed(p, k) |-> k.val[t]])
           ms == <<m>>
           x == [client[c] EXCEPT !.published = k]
<1>1. k \in Revisions /\ cur.rev <= k.rev /\ (cur.rev = k.rev => k = cur) /\ inst \in Nat
      /\ doc \in Docs /\ scheduled \in BOOLEAN
  BY NowIs, NotesIs
<1>2. client[c] \in Clients /\ client \in [Conns -> Clients] /\ p \in Revisions \cup {Nothing}
  BY NotesIs, ClientIs DEF ServerTyped
<1>3. /\ c <= conns /\ client[c].state = "open"
      /\ cur' = k /\ down' = Told(c, ms) /\ client' = [client EXCEPT ![c] = x]
      /\ UNCHANGED <<doc, inst, scheduled, edits, up, link>>
  BY <1>2, WasOpened DEF Publish
<1> HIDE DEF k
<1>4. m \in DownMessages /\ Tells(p, k, m)
  <2>1. CASE NeedsFullState(p, k)
    BY <1>1, <2>1, SentIs, TellsIs DEF Codes
  <2>2. CASE ~ NeedsFullState(p, k)
    BY <1>1, <1>2, <2>2, DeltaIs
  <2> QED
    BY <2>1, <2>2
<1>5. x \in Clients /\ x.published = k
  BY <1>1, <1>2 DEF Clients
<1> HIDE DEF m, x
<1>6. ms \in Seq(DownMessages) /\ \A n \in 1 .. Len(ms) : Tells(p, k, ms[n])
  BY <1>4, Messages
<1> HIDE DEF ms
<1>7. << >> \in Seq(UpMessages)
  OBVIOUS
<1> QED
  BY <1>1, <1>3, <1>5, <1>6, <1>7, ServedIs

LEMMA ServerStepServes ==
  ASSUME ServerTyped, WireTyped, Unopened, conns \in Nat, UNCHANGED conns, ServerNext
  PROVE  Serves \/ Restart
BY UserEditsServe, CaptureServes, DrainEndsServes, ReceiveServes, RefuseAtOnceServes,
   RemoveClientServes, DrainServes, PublishServes
   DEF ServerNext, User, Worker, MessageThread
(* The server is turned off and on: every client is told so, not of the    *)
(* state, and is closed.                                                   *)
PlainMessages == {m \in DownMessages : m.type # "state"}
Ends(old, new) ==
  /\ new \in Seq(DownMessages)
  /\ \A n \in 1 .. Len(new) : (n \in 1 .. Len(old) /\ new[n] = old[n]) \/ new[n].type # "state"

LEMMA EndsLater ==
  ASSUME NEW old, NEW q, Ends(old, q), NEW ms \in Seq(PlainMessages)
  PROVE  Ends(old, q \o ms)
<1>1. q \in Seq(DownMessages) /\ ms \in Seq(DownMessages)
  <2>1. PlainMessages \subseteq DownMessages
    BY DEF PlainMessages
  <2> QED
    BY <2>1 DEF Ends
<1>2. /\ q \o ms \in Seq(DownMessages) /\ Len(q \o ms) = Len(q) + Len(ms)
      /\ \A n \in 1 .. Len(q) + Len(ms) :
           (q \o ms)[n] = IF n <= Len(q) THEN q[n] ELSE ms[n - Len(q)]
  BY <1>1, ConcatProperties
<1>3. Len(q) \in Nat /\ Len(ms) \in Nat
  BY <1>1, LenProperties
<1>4. \A n \in 1 .. Len(ms) : ms[n].type # "state"
  BY ElementOfSeq DEF PlainMessages
<1>5. ASSUME NEW n \in 1 .. Len(q \o ms)
      PROVE  (n \in 1 .. Len(old) /\ (q \o ms)[n] = old[n]) \/ (q \o ms)[n].type # "state"
  <2>1. CASE n <= Len(q)
    <3>1. n \in 1 .. Len(q) /\ (q \o ms)[n] = q[n]
      BY <1>2, <1>3, <2>1
    <3> QED
      BY <3>1 DEF Ends
  <2>2. CASE n > Len(q)
    <3>1. n - Len(q) \in 1 .. Len(ms) /\ (q \o ms)[n] = ms[n - Len(q)]
      BY <1>2, <1>3, <2>2
    <3> QED
      BY <1>4, <3>1
  <2> QED
    BY <1>2, <1>3, <2>1, <2>2
<1> QED
  BY <1>2, <1>5 DEF Ends

LEMMA RestartIs ==
  ASSUME ServerTyped, WireTyped, Unopened, conns \in Nat, UNCHANGED conns, Restart
  PROVE  /\ ServerTyped' /\ WireTyped' /\ Unopened' /\ inst' = inst + 1 /\ cur' = Fresh(doc)
         /\ UNCHANGED <<doc, link>>
         /\ \A c \in Conns : link[c] # "none" => client'[c].state = "closed"
         /\ \A c \in Conns : Ends(down[c], down'[c])
<1>1. /\ inst < MaxInst /\ inst' = inst + 1 /\ cur' = Fresh(doc) /\ scheduled' = FALSE
      /\ client' = [c \in Conns |-> IF link[c] = "none" THEN client[c]
                                    ELSE [NewClient EXCEPT !.state = "closed"]]
      /\ UNCHANGED <<doc, edits, up, link>>
  BY DEF Restart
<1>2. ServerTyped'
  <2>1. cur' \in Revisions /\ inst' \in 1 .. MaxInst
    BY <1>1, NotesIs, FreshIs, WireAssumption DEF ServerTyped
  <2>2. client' \in [Conns -> Clients]
    BY <1>1, NotesIs, NewClientIs
  <2> QED
    BY <1>1, <2>1, <2>2 DEF ServerTyped
<1>3. \A c \in Conns : link[c] # "none" => client'[c].state = "closed"
  BY <1>1, NewClientIs
<1>4. /\ \A q \in Seq(DownMessages) : Ends(q, q)
      /\ \A c \in Conns : down[c] \in Seq(DownMessages)
  BY NotesIs DEF Ends
<1> DEFINE refusals(c) == [n \in 1 .. Len(client[c].pending) |->
                 IF client[c].pending[n].type = "hello" THEN Error(0, "CONTROL_DISABLED")
                 ELSE Error(client[c].pending[n].id, "CONTROL_DISABLED")]
           status(c) == IF client[c].authenticated THEN <<ServerStatus>> ELSE << >>
           farewell(c) == down[c] \o refusals(c) \o status(c) \o <<EndOfStream>>
<1>5. down' = [c \in Conns |-> IF link[c] = "up" /\ client[c].state = "open" THEN farewell(c)
                               ELSE down[c]]
  BY DEF Restart
<1>6. \A id \in Nat : Error(id, "CONTROL_DISABLED") \in PlainMessages
  BY DEF Error, Errors, Codes, DownMessages, PlainMessages
<1>7. ServerStatus \in PlainMessages /\ EndOfStream \in PlainMessages
  BY DEF ServerStatus, EndOfStream, DownMessages, PlainMessages
<1>8. ASSUME NEW c \in Conns
      PROVE  Ends(down[c], farewell(c))
  <2>1. refusals(c) \in Seq(PlainMessages)
    <3>1. client[c].pending \in Seq(UpMessages)
      BY NotesIs, ClientIs
    <3>2. Len(client[c].pending) \in Nat
          /\ \A n \in 1 .. Len(client[c].pending) : client[c].pending[n] \in UpMessages
      BY <3>1, LenProperties, ElementOfSeq
    <3>3. \A n \in 1 .. Len(client[c].pending) : refusals(c)[n] \in PlainMessages
      <4> TAKE n \in 1 .. Len(client[c].pending)
      <4>1. client[c].pending[n].type # "hello" => client[c].pending[n].id \in Nat
        BY <3>2, UpMessageIs
      <4> QED
        BY <1>6, <4>1
    <3>4. refusals(c) \in [1 .. Len(client[c].pending) -> PlainMessages]
      BY <3>3
    <3> QED
      BY <3>2, <3>4 DEF Seq
  <2>2. status(c) \in Seq(PlainMessages) /\ <<EndOfStream>> \in Seq(PlainMessages)
    BY <1>7
  <2> HIDE DEF refusals, status
  <2>3. Ends(down[c], down[c] \o refusals(c))
    BY <1>4, <2>1, EndsLater
  <2>4. Ends(down[c], down[c] \o refusals(c) \o status(c))
    BY <2>2, <2>3, EndsLater
  <2> QED
    BY <2>2, <2>4, EndsLater
<1> HIDE DEF farewell
<1>9. \A c \in Conns : Ends(down[c], down'[c])
  BY <1>4, <1>5, <1>8
<1>10. WireTyped'
  <2>1. down' \in [Conns -> Seq(DownMessages)]
    <3>1. \A c \in Conns : farewell(c) \in Seq(DownMessages)
      BY <1>8 DEF Ends
    <3> QED
      BY <1>4, <1>5, <3>1
  <2> QED
    BY <1>1, <2>1 DEF WireTyped
<1>11. Unopened'
  BY <1>1, <1>5 DEF Unopened
<1> QED
  BY <1>1, <1>2, <1>3, <1>9, <1>10, <1>11

-----------------------------------------------------------------------------
(* The link as a whole. *)

(* The connection in use is open.                                          *)
Linked == sd.conn # 0 => link[sd.conn] # "none"
LinkInv == LinkTyped /\ Linked

LEMMA BecomesIs ==
  ASSUME NEW r, Fine(r), r.conn \in {0, sd.conn}, Becomes(r)
  PROVE  /\ Fine(sd') /\ sd'.out = << >> /\ sd'.conn = r.conn /\ sd'.snap = r.snap
         /\ Resting(r) => Resting(sd')
<1>1. r \in Decks /\ sd' = [r EXCEPT !.out = << >>]
  BY FineIs DEF Becomes
<1>2. << >> \in Seq(UpMessages)
  OBVIOUS
<1>3. /\ sd' \in Decks /\ sd'.out = << >> /\ sd'.queue = r.queue /\ sd'.promise = r.promise
      /\ sd'.pend = r.pend /\ sd'.answers = r.answers /\ sd'.seq = r.seq
      /\ sd'.resync = r.resync /\ sd'.ping = r.ping /\ sd'.conn = r.conn /\ sd'.snap = r.snap
      /\ sd'.status = r.status /\ sd'.pinging = r.pinging
  BY <1>1, <1>2 DEF Decks
<1>4. Fine(sd')
  <2>1. r.seq \in Nat
    BY <1>1, DeckFields
  <2> DEFINE x == sd'
  <2>2. /\ x \in Decks /\ x.queue = r.queue /\ x.promise = r.promise
        /\ x.pend \subseteq r.pend /\ x.answers \subseteq r.answers /\ r.seq <= x.seq
        /\ x.resync \in {r.resync, 0} /\ x.ping \in {r.ping, 0}
    BY <1>3, <2>1
  <2> HIDE DEF x
  <2>3. Fine(x)
    BY <2>2, FieldsAreFine
  <2> QED
    BY <2>3 DEF x
<1> QED
  BY <1>3, <1>4 DEF Resting, Cleared

(* What the deck sends are messages.                                       *)
LEMMA BecomesOnWire ==
  ASSUME WireTyped, Unopened, conns \in Nat, sd.conn \in {0, conns}, conns <= MaxConns,
         NEW r, Fine(r), Becomes(r)
  PROVE  /\ up' \in [Conns -> Seq(UpMessages)] /\ link' \in [Conns -> {"none", "up", "gone"}]
         /\ \A c \in Conns : c > conns => up'[c] = up[c] /\ link'[c] = link[c]
         /\ r.conn # 0 => link' = link
<1>1. r.out \in Seq(UpMessages)
  BY FineIs, DeckFields
<1>2. sd.conn # 0 => sd.conn \in Conns
  BY WireAssumption DEF Conns
<1>3. ASSUME sd.conn # 0
      PROVE  up[sd.conn] \o r.out \in Seq(UpMessages)
  BY <1>1, <1>2, <1>3, ConcatProperties DEF WireTyped
<1>4. up' = up \/ (sd.conn # 0 /\ up' = [up EXCEPT ![sd.conn] = up[sd.conn] \o r.out])
  BY DEF Becomes
<1>5. link' = link \/ (sd.conn # 0 /\ r.conn = 0 /\ link' = [link EXCEPT ![sd.conn] = "gone"])
  BY DEF Becomes
<1>6. up \in [Conns -> Seq(UpMessages)] /\ link \in [Conns -> {"none", "up", "gone"}]
  BY DEF WireTyped
<1>7. up' \in [Conns -> Seq(UpMessages)]
  BY <1>3, <1>4, <1>6
<1>8. \A c \in Conns : c > conns => c # sd.conn
  BY WireAssumption DEF Conns
<1> QED
  BY <1>2, <1>4, <1>5, <1>6, <1>7, <1>8
(* A step of the deck, with the wire.                                      *)
LEMMA LinkFacts ==
  ASSUME LinkInv
  PROVE  /\ Fine(sd) /\ conns \in Nat /\ conns <= MaxConns /\ MaxConns \in Nat
         /\ sd.conn \in {0, conns} /\ sd.conn \in Nat
         /\ pings \in 0 .. MaxPings /\ (sd.conn = 0 => Resting(sd))
         /\ sd.conn # 0 => sd.conn \in Conns
         /\ ServerTyped /\ WireTyped /\ DeckTyped /\ Unopened /\ inst \in Nat \ {0}
BY WireAssumption DEF LinkInv, LinkTyped, DeckTyped, Conns, ServerTyped

LEMMA NextMessage ==
  ASSUME LinkInv, sd.conn # 0, down[sd.conn] # << >>
  PROVE  /\ Head(down[sd.conn]) \in DownMessages /\ Tail(down[sd.conn]) \in Seq(DownMessages)
         /\ down[sd.conn] \in Seq(DownMessages)
<1>1. down[sd.conn] \in Seq(DownMessages)
  BY LinkFacts DEF WireTyped
<1> QED
  BY <1>1, HeadAndTail

LEMMA StepsOfTheDeck ==
  ASSUME LinkInv, DeckNext
  PROVE  Stays \/ Learns \/ HangsUp \/ Opens
BY LinkFacts, NextMessage, DeckSteps

(* A callback that leaves the connection or gives it up.                   *)
LEMMA BecomesKeeps ==
  ASSUME LinkInv, DeckNext, UNCHANGED server, NEW r, Fine(r), Becomes(r),
         Resting(r) \/ (r.conn = sd.conn /\ sd.conn # 0) \/ (r.conn = sd.conn /\ ~ Connect),
         UNCHANGED conns, pings' \in 0 .. MaxPings,
         NEW q \in Seq(DownMessages),
         down' = down \/ (sd.conn # 0 /\ down' = [down EXCEPT ![sd.conn] = q])
  PROVE  LinkInv'
<1>1. /\ Fine(sd) /\ conns \in Nat /\ conns <= MaxConns /\ sd.conn \in {0, conns}
      /\ (sd.conn # 0 => sd.conn \in Conns)
      /\ ServerTyped /\ WireTyped /\ DeckTyped /\ Unopened
  BY LinkFacts
<1>2. r.conn \in {0, sd.conn}
  BY DEF Resting
<1>3. /\ Fine(sd') /\ sd'.out = << >> /\ sd'.conn = r.conn
      /\ Resting(r) => Resting(sd')
  BY <1>2, BecomesIs
<1>4. sd'.conn = 0 => Resting(sd')
  <2>1. CASE sd.conn = 0 /\ ~ Connect
    BY <1>1, <2>1, RestIs
  <2>2. CASE Resting(r)
    BY <1>3, <2>2
  <2>3. CASE r.conn = sd.conn /\ sd.conn # 0
    BY <1>3, <2>3
  <2> QED
    BY <1>2, <2>1, <2>2, <2>3
<1>5. DeckTyped'
  BY <1>1, <1>2, <1>3, <1>4 DEF DeckTyped
<1>6. /\ up' \in [Conns -> Seq(UpMessages)] /\ link' \in [Conns -> {"none", "up", "gone"}]
      /\ \A c \in Conns : c > conns => up'[c] = up[c] /\ link'[c] = link[c]
      /\ r.conn # 0 => link' = link
  BY <1>1, BecomesOnWire
<1>7. down' \in [Conns -> Seq(DownMessages)] /\ \A c \in Conns : c > conns => down'[c] = down[c]
  <2>1. \A c \in Conns : c > conns => c # sd.conn
    BY <1>1, WireAssumption DEF Conns
  <2> QED
    BY <1>1, <2>1 DEF WireTyped
<1>8. ServerTyped' /\ WireTyped' /\ Unopened'
  BY <1>1, <1>6, <1>7 DEF ServerTyped, WireTyped, Unopened, server
<1>9. Linked'
  BY <1>2, <1>3, <1>6 DEF Linked, LinkInv
<1> QED
  BY <1>5, <1>8, <1>9 DEF LinkInv, LinkTyped

LEMMA OpensKeeps ==
  ASSUME LinkInv, Opens, UNCHANGED server
  PROVE  LinkInv'
<1>1. /\ Fine(sd) /\ conns \in Nat /\ conns <= MaxConns /\ MaxConns \in Nat
      /\ ServerTyped /\ WireTyped /\ DeckTyped /\ Unopened
  BY LinkFacts
<1>2. /\ conns < MaxConns /\ conns' = conns + 1
      /\ up' = [up EXCEPT ![conns + 1] = <<Hello>>]
      /\ link' = [link EXCEPT ![conns + 1] = "up"]
      /\ UNCHANGED <<pings, down>>
  BY DEF Opens, Connect
<1>3. Fine(sd') /\ sd'.out = << >> /\ sd'.conn = conns + 1
  BY DEF Opens
<1>4. DeckTyped'
  BY <1>1, <1>2, <1>3 DEF DeckTyped
<1>5. <<Hello>> \in Seq(UpMessages)
  BY DEF UpMessages
<1>6. conns + 1 \in Conns
  BY <1>1, <1>2 DEF Conns
<1>7. WireTyped'
  BY <1>1, <1>2, <1>5 DEF WireTyped
<1>8. Unopened'
  <2>1. \A c \in Conns : c > conns + 1 => c > conns /\ c # conns + 1
    BY <1>1, WireAssumption DEF Conns
  <2> QED
    BY <1>1, <1>2, <2>1 DEF Unopened, WireTyped, server
<1>9. Linked'
  BY <1>1, <1>2, <1>3, <1>6 DEF Linked, WireTyped
<1>10. ServerTyped'
  BY <1>1 DEF ServerTyped, server
<1> QED
  BY <1>4, <1>7, <1>8, <1>9, <1>10 DEF LinkInv, LinkTyped

LEMMA DeckKeeps ==
  ASSUME LinkInv, DeckNext, UNCHANGED server
  PROVE  LinkInv'
<1>1. CASE Connect
  <2>1. Opens
    BY <1>1, LinkFacts, ConnectIs
  <2> QED
    BY <2>1, OpensKeeps
<1>2. CASE ~ Connect
  <2>1. pings \in 0 .. MaxPings
    BY LinkFacts
  <2>2. CASE Stays
    <3>1. PICK r : Fine(r) /\ Same(sd, r) /\ Becomes(r)
      BY <2>2 DEF Stays
    <3>2. r.conn = sd.conn /\ down' = down /\ UNCHANGED conns /\ pings' \in 0 .. MaxPings
      BY <2>2, <3>1 DEF Same, Stays
    <3>3. << >> \in Seq(DownMessages)
      OBVIOUS
    <3> QED
      BY <1>2, <3>1, <3>2, <3>3, BecomesKeeps
  <2>3. CASE Learns
    <3>1. PICK r : Fine(r) /\ Hears(sd, r, Head(down[sd.conn])) /\ Becomes(r)
                   /\ Unread(r, Tail(down[sd.conn]))
      BY <2>3 DEF Learns
    <3>2. Resting(r) \/ r.conn = sd.conn
      BY <3>1 DEF Hears
    <3>3. sd.conn # 0 /\ down[sd.conn] # << >> /\ UNCHANGED <<conns, pings>>
      BY <2>3 DEF Learns
    <3>4. << >> \in Seq(DownMessages) /\ Tail(down[sd.conn]) \in Seq(DownMessages)
      BY <3>3, NextMessage
    <3> DEFINE q == IF r.conn = 0 THEN << >> ELSE Tail(down[sd.conn])
    <3>5. q \in Seq(DownMessages) /\ down' = [down EXCEPT ![sd.conn] = q]
      BY <3>1, <3>4 DEF Unread
    <3> HIDE DEF q
    <3> QED
      BY <1>2, <2>1, <3>1, <3>2, <3>3, <3>5, BecomesKeeps
  <2>4. CASE HangsUp
    <3>1. PICK r : Fine(r) /\ Resting(r) /\ Becomes(r)
      BY <2>4 DEF HangsUp
    <3> DEFINE q == << >>
    <3>2. /\ sd.conn # 0 /\ UNCHANGED <<conns, pings>> /\ q \in Seq(DownMessages)
          /\ down' = [down EXCEPT ![sd.conn] = q]
      BY <2>4 DEF HangsUp, Unread, Idle
    <3> HIDE DEF q
    <3> QED
      BY <1>2, <2>1, <3>1, <3>2, BecomesKeeps
  <2> QED
    BY <1>2, <2>2, <2>3, <2>4, StepsOfTheDeck DEF Opens
<1> QED
  BY <1>1, <1>2

LEMMA ServerKeeps ==
  ASSUME LinkInv, ServerNext, UNCHANGED plugin
  PROVE  LinkInv'
<1>1. ServerTyped /\ WireTyped /\ DeckTyped /\ Unopened /\ conns \in Nat
  BY LinkFacts
<1>2. UNCHANGED <<sd, conns, pings>>
  BY DEF plugin
<1>3. ServerTyped' /\ WireTyped' /\ Unopened'
  <2>1. CASE Serves
    BY <2>1 DEF Serves
  <2>2. CASE Restart
    BY <1>1, <1>2, <2>2, RestartIs
  <2> QED
    BY <1>1, <1>2, <2>1, <2>2, ServerStepServes
<1>4. link' = link
  BY ZenonT(60) DEF ServerNext, User, Worker, MessageThread, UserEdits, Restart, Receive, RefuseAtOnce,
         Reads, RemoveClient, Capture, DrainEnds, Drain, DrainHello, DrainPing, DrainExpired,
         DrainRequestState, DrainEdit, Refuses, Finish, Publish, wire
<1>5. DeckTyped' /\ Linked'
  BY <1>1, <1>2, <1>4 DEF DeckTyped, Linked, LinkInv
<1> QED
  BY <1>3, <1>5 DEF LinkInv, LinkTyped
LEMMA LinkStarts ==
  ASSUME Init
  PROVE  LinkInv
<1>1. /\ Top \in Nat /\ MaxConns \in Nat /\ MaxEdits \in Nat /\ MaxPings \in Nat
      /\ MaxInst \in Nat \ {0} /\ Inputs = 1 .. Len(Input) /\ Len(Input) \in Nat
  BY WireAssumption
<1> DEFINE zero == [t \in Targets |-> 0]
<1>2. zero \in Values
  BY <1>1 DEF Values
<1>3. ServerTyped
  <2>1. doc \in Docs
    BY <1>2 DEF Init, ServerInit, Docs, Blank
  <2>2. cur \in Revisions /\ client \in [Conns -> Clients]
    BY <2>1, FreshIs, NewClientIs DEF Init, ServerInit
  <2>3. inst = 1 /\ edits = 0 /\ scheduled = FALSE
    BY DEF Init, ServerInit
  <2>4. inst \in 1 .. MaxInst /\ edits \in 0 .. MaxEdits
    BY <1>1, <2>3
  <2> QED
    BY <2>1, <2>2, <2>3, <2>4 DEF ServerTyped
<1>4. WireTyped /\ Unopened
  BY DEF Init, WireInit, ServerInit, WireTyped, Unopened
<1>5. sd = Idle
  BY DEF Init, DeckInit
<1>6. NoSnap \in Snaps /\ NoQueue \in Queues
  BY <1>2, Empties DEF NoSnap, Snaps
<1>7. Idle \in Decks
  <2>1. [t \in Targets |-> NoQueue] \in [Targets -> Queues]
    BY <1>6
  <2>2. [i \in Inputs |-> "new"] \in [Inputs -> Promises]
    BY DEF Promises
  <2>3. << >> \in Seq(UpMessages) /\ "none" \in Reasons /\ "disconnected" \in Statuses
    BY DEF Reasons, Statuses
  <2> QED
    BY <1>6, <2>1, <2>2, <2>3 DEF Idle, Decks
<1>8. /\ sd.queue = [t \in Targets |-> NoQueue] /\ sd.promise = [i \in Inputs |-> "new"]
      /\ sd.pend = {} /\ sd.answers = {} /\ sd.resync = 0 /\ sd.ping = 0 /\ sd.seq = 0
      /\ sd.out = << >> /\ sd.conn = 0 /\ sd.snap = NoSnap /\ sd.status = "disconnected"
      /\ sd.pinging = FALSE
  BY <1>5 DEF Idle
<1>9. \A t \in Targets : Tidy(sd, t, {}, {})
  BY <1>8, NothingIsTidy DEF Mine
<1>10. Fine(sd)
  BY <1>5, <1>7, <1>8, <1>9 DEF Fine, AllGood, Sound, PendSound, AnswersSound
<1>11. DeckTyped
  BY <1>1, <1>8, <1>10 DEF DeckTyped, Resting, Cleared, Init, DeckInit
<1> QED
  BY <1>3, <1>4, <1>8, <1>11 DEF LinkInv, LinkTyped, Linked

LEMMA LinkStays ==
  ASSUME LinkInv, UNCHANGED vars
  PROVE  LinkInv'
BY DEF LinkInv, LinkTyped, Linked, ServerTyped, WireTyped, DeckTyped, Unopened, vars, wire, server, plugin

(* What is true of the link at all times.                                  *)
LEMMA LinkHolds == Spec => []LinkInv
<1>1. Init => LinkInv
  BY LinkStarts
<1>2. LinkInv /\ [Next]_vars => LinkInv'
  BY DeckKeeps, ServerKeeps, LinkStays DEF Next, Server, Deck
<1> QED
  BY <1>1, <1>2, PTL DEF Spec

LEMMA LinkIsTyped ==
  ASSUME LinkInv
  PROVE  TypeOK
<1>1. /\ Fine(sd) /\ sd \in Decks /\ conns \in 0 .. MaxConns /\ pings \in 0 .. MaxPings
      /\ sd.conn \in {0, conns} /\ sd.out = << >>
      /\ ServerTyped /\ WireTyped /\ PendSound(sd)
      /\ sd.resync \in 0 .. sd.seq /\ sd.ping \in 0 .. sd.seq
  BY FineIs DEF LinkInv, LinkTyped, DeckTyped
<1>2. /\ doc.session \in Nat /\ doc.has \subseteq Targets /\ doc.val \in Values
  BY <1>1, DocIs DEF ServerTyped
<1>3. inst \in 1 .. MaxInst /\ edits \in 0 .. MaxEdits /\ scheduled \in BOOLEAN
  BY <1>1 DEF ServerTyped
<1>4. cur.structRev \in 1 .. cur.rev /\ cur.val \in Values
  BY <1>1, RevisionIs DEF ServerTyped
<1>5. \A c \in Conns : client[c].state \in {"open", "closed"} /\ link[c] \in {"none", "up", "gone"}
  BY <1>1, ClientIs DEF ServerTyped, WireTyped
<1>6. sd.status \in Statuses /\ sd.snap.val \in Values /\ sd.snap.has \subseteq Targets
      /\ sd.promise \in [Inputs -> Promises]
  BY <1>1, DeckFields DEF Snaps
<1>7. \A p \in sd.pend : p.id \in 1 .. sd.seq
  BY <1>1 DEF PendSound
<1>8. \A t \in Targets : LET q == sd.queue[t]
                         IN /\ q.active \in Intents
                            /\ \A n \in DOMAIN q.waiting : q.waiting[n] \in Intents
  <2> TAKE t \in Targets
  <2> DEFINE q == sd.queue[t]
  <2>1. q \in Queues
    BY <1>1, DeckFields
  <2> HIDE DEF q
  <2>2. q.active \in Intents /\ q.waiting \in Seq(Intents)
        /\ \A n \in 1 .. Len(q.waiting) : q.waiting[n] \in Intents
    BY <2>1, QueueFields
  <2>3. DOMAIN q.waiting = 1 .. Len(q.waiting)
    BY <2>2, LenProperties
  <2> QED
    BY <2>2, <2>3 DEF q
<1> QED
  BY <1>1, <1>2, <1>3, <1>4, <1>5, <1>6, <1>7, <1>8 DEF TypeOK, Statuses, Promises

(* An input that is open is held in one place of its queue, and one that   *)
(* is not is held in none.                                                 *)
LEMMA TidyHolds ==
  ASSUME NEW i \in Inputs, sd \in Decks, Input[i].target \in Targets,
         Tidy(sd, Input[i].target, {}, {})
  PROVE  Held(i) = IF sd.promise[i] = "open" THEN 1 ELSE 0
<1> DEFINE t == Input[i].target
           q == sd.queue[t]
           S == {n \in DOMAIN q.waiting : i \in q.waiting[n].parts}
<1>1. q \in Queues
  BY DeckFields
<1>2. /\ \A n \in Places(q) : \A j \in Place(q, n) : Mine(sd, t, j)
      /\ \A n, m \in Places(q) : n # m => Place(q, n) \cap Place(q, m) = {}
      /\ Mine(sd, t, i) => \E n \in Places(q) : i \in Place(q, n)
  BY DEF Tidy
<1>3. Mine(sd, t, i) <=> sd.promise[i] = "open"
  BY DEF Mine
<1>4. Held(i) = (IF i \in q.active.parts THEN 1 ELSE 0) + Cardinality(S)
  BY DEF Held
<1> HIDE DEF q, t
<1>5. Len(q.waiting) \in Nat /\ DOMAIN q.waiting = 1 .. Len(q.waiting)
  BY <1>1, QueueFields, LenProperties
<1>6. Places(q) = {0} \cup DOMAIN q.waiting /\ Place(q, 0) = q.active.parts
      /\ \A n \in DOMAIN q.waiting : n # 0 /\ Place(q, n) = q.waiting[n].parts
  BY <1>5 DEF Places, Place
<1>7. CASE sd.promise[i] # "open"
  <2>1. \A n \in Places(q) : i \notin Place(q, n)
    BY <1>2, <1>3, <1>7
  <2>2. S = {} /\ i \notin q.active.parts
    BY <1>6, <2>1
  <2>3. Cardinality(S) = 0
    BY <2>2, FS_EmptySet
  <2> QED
    BY <1>4, <1>7, <2>2, <2>3
<1>8. CASE sd.promise[i] = "open"
  <2>1. PICK n \in Places(q) : i \in Place(q, n)
    BY <1>2, <1>3, <1>8
  <2>2. \A m \in Places(q) : i \in Place(q, m) => m = n
    BY <1>2, <2>1
  <2>3. CASE n = 0
    <3>1. S = {} /\ i \in q.active.parts
      BY <1>6, <2>1, <2>2, <2>3
    <3>2. Cardinality(S) = 0
      BY <3>1, FS_EmptySet
    <3> QED
      BY <1>4, <1>8, <3>1, <3>2
  <2>4. CASE n # 0
    <3>1. S = {n} /\ i \notin q.active.parts
      BY <1>6, <2>1, <2>2, <2>4
    <3>2. Cardinality(S) = 1
      BY <3>1, FS_Singleton
    <3> QED
      BY <1>4, <1>8, <3>1, <3>2
  <2> QED
    BY <2>3, <2>4
<1> QED
  BY <1>7, <1>8

(* The values the link keeps, over any number of connections, restarts of  *)
(* LiveMix and inputs, are the ones its messages are made of.              *)
THEOREM TypeCorrect == Spec => []TypeOK
<1>1. LinkInv => TypeOK
  BY LinkIsTyped
<1> QED
  BY <1>1, LinkHolds, PTL

(* enqueue(), rotate(), cancelOwner() and every timer and answer that takes*)
(* an input from a queue: as long as its promise is open an input is in one*)
(* place of the queue of its target, and an input that is settled is in    *)
(* none.                                                                   *)
THEOREM EachInputIsHeldOnce == Spec => []NoneIsForgotten
<1>1. LinkInv => NoneIsForgotten
  <2> SUFFICES ASSUME LinkInv, NEW i \in Inputs
               PROVE  Held(i) = IF sd.promise[i] = "open" THEN 1 ELSE 0
    BY DEF NoneIsForgotten
  <2>1. sd \in Decks /\ \A t \in Targets : Tidy(sd, t, {}, {})
    BY FineIs DEF LinkInv, LinkTyped, DeckTyped, AllTidy
  <2> QED
    BY <2>1, WireFacts, TidyHolds
<1> QED
  BY <1>1, LinkHolds, PTL
-----------------------------------------------------------------------------
(* The cache of the plugin. *)

(* H: what the revisions of the running LiveMix were.  What the plugin     *)
(* knows and is about to read agrees with it; or it is of a LiveMix that   *)
(* is gone, and nothing of the running one will come on this connection.   *)
History(H) == H \in [1 .. cur.rev -> Docs] /\ H[cur.rev] = Content(cur)
Agrees(H, k) == k.rev \in DOMAIN H /\ H[k.rev] = Content(k)
Truthful(H, m) ==
  /\ m.type = "state" => m.inst = inst /\ Agrees(H, m)
  /\ m.type = "stateDelta" =>
       /\ m.base \in DOMAIN H /\ m.rev \in DOMAIN H
       /\ H[m.base].session = m.session /\ H[m.rev].session = m.session
       /\ H[m.base].has = H[m.rev].has
       /\ H[m.rev].val = [t \in Targets |-> IF t \in DOMAIN m.changes THEN m.changes[t]
                                            ELSE H[m.base].val[t]]
Coherent(H, c) ==
  /\ sd.snap = NoSnap \/ (sd.snap.inst = inst /\ Agrees(H, sd.snap))
  /\ client[c].published = Nothing \/ Agrees(H, client[c].published)
  /\ \A n \in 1 .. Len(down[c]) : Truthful(H, down[c][n])
Foreign(c) ==
  /\ client[c].state = "closed" /\ sd.snap.inst < inst
  /\ \A n \in 1 .. Len(down[c]) : down[c][n].type = "state" => down[c][n].inst < inst
Cached(H) == History(H) /\ (sd.conn # 0 => Coherent(H, sd.conn) \/ Foreign(sd.conn))
CacheInv == LinkInv /\ \E H : Cached(H)

LEMMA TruthStays ==
  ASSUME NEW H, NEW c, NEW msgs, inst' = inst, down'[c] = msgs,
         \A n \in 1 .. Len(msgs) : Truthful(H, msgs[n])
  PROVE  (\A n \in 1 .. Len(down[c]) : Truthful(H, down[c][n]))'
<1> SUFFICES ASSUME NEW n \in 1 .. Len(msgs)
             PROVE  Truthful(H, down[c][n])'
  OBVIOUS
<1>1. Truthful(H, msgs[n])
  OBVIOUS
<1>2. Truthful(H, down[c][n])'
  BY <1>1 DEF Truthful
<1> QED
  BY <1>2

LEMMA ContentIs ==
  ASSUME NEW k, NEW l, Content(k) = Content(l)
  PROVE  k.session = l.session /\ k.has = l.has /\ k.val = l.val
<1>1. /\ Content(k).session = k.session /\ Content(k).has = k.has /\ Content(k).val = k.val
      /\ Content(l).session = l.session /\ Content(l).has = l.has /\ Content(l).val = l.val
  BY DEF Content
<1> QED
  BY <1>1

LEMMA CacheIs ==
  ASSUME CacheInv
  PROVE  CacheIsCoherent
<1>1. PICK H : Cached(H)
  BY DEF CacheInv
<1>2. CASE sd.conn = 0
  <2>1. sd.snap.inst = 0 /\ inst # 0
    BY <1>2, LinkFacts DEF CacheInv, Resting, NoSnap
  <2> QED
    BY <2>1 DEF CacheIsCoherent
<1>3. CASE sd.conn # 0 /\ Coherent(H, sd.conn)
  <2>1. NoSnap.inst # inst
    BY LinkFacts DEF CacheInv, NoSnap
  <2>2. ASSUME sd.snap.inst = inst, sd.snap.rev = cur.rev
        PROVE  Content(sd.snap) = Content(cur)
    BY <1>1, <1>3, <2>1, <2>2 DEF Coherent, Agrees, Cached, History
  <2> QED
    BY <2>2, ContentIs DEF CacheIsCoherent
<1>4. CASE Foreign(sd.conn)
  <2>1. sd.snap.inst \in Nat /\ inst \in Nat
    BY LinkFacts, FineIs, DeckFields DEF CacheInv, Snaps
  <2> QED
    BY <1>4, <2>1 DEF Foreign, CacheIsCoherent
<1> QED
  BY <1>1, <1>2, <1>3, <1>4 DEF Cached

LEMMA CacheStarts ==
  ASSUME Init
  PROVE  CacheInv
<1> DEFINE H == [n \in 1 .. 1 |-> doc]
<1>1. doc \in Docs /\ cur = Fresh(doc) /\ sd.conn = 0 /\ LinkInv
  BY LinkStarts DEF Init, ServerInit, DeckInit, Idle, LinkInv, LinkTyped, ServerTyped
<1>2. cur.rev = 1 /\ Content(cur) = doc
  BY <1>1, FreshIs
<1>3. Cached(H)
  BY <1>1, <1>2 DEF Cached, History
<1> QED
  BY <1>1, <1>3 DEF CacheInv

(* What the plugin makes of a truthful message agrees as well.             *)
LEMMA LearnsTruly ==
  ASSUME NEW H, NEW s, NEW r, NEW m, Hears(s, r, m), ~ Resting(r), Truthful(H, m),
         s.snap = NoSnap \/ (s.snap.inst = inst /\ Agrees(H, s.snap)),
         s.snap \in Snaps, History(H),
         m.type = "state" => m \in States, m.type = "stateDelta" => m \in Deltas
  PROVE  r.snap = NoSnap \/ (r.snap.inst = inst /\ Agrees(H, r.snap))
<1>1. CASE r.snap \in {s.snap, NoSnap}
  BY <1>1
<1>2. CASE m.type = "state" /\ r.snap = SnapOf(m)
  <2>1. /\ r.snap.inst = m.inst /\ r.snap.rev = m.rev
        /\ Content(r.snap) = Content(m)
    BY <1>2 DEF SnapOf, Content
  <2> QED
    BY <1>2, <2>1 DEF Truthful, Agrees
<1>3. CASE /\ m.type = "stateDelta" /\ HasSnap(s) /\ s.snap.session = m.session
           /\ s.snap.rev = m.base /\ r.snap = Overlaid(s.snap, m)
  <2> DEFINE val == [t \in Targets |-> IF t \in DOMAIN m.changes THEN m.changes[t] ELSE s.snap.val[t]]
  <2>1. /\ r.snap.inst = s.snap.inst /\ r.snap.session = s.snap.session /\ r.snap.has = s.snap.has
        /\ r.snap.rev = m.rev /\ r.snap.val = val
    BY <1>3 DEF Overlaid, Snaps
  <2>2. s.snap.inst = inst /\ Agrees(H, s.snap)
    BY <1>3 DEF HasSnap
  <2>3. H[m.base] = Content(s.snap) /\ m.rev \in DOMAIN H
        /\ H[m.rev].session = m.session /\ H[m.base].has = H[m.rev].has
        /\ H[m.rev].val = [t \in Targets |-> IF t \in DOMAIN m.changes THEN m.changes[t]
                                             ELSE H[m.base].val[t]]
    BY <1>3, <2>2 DEF Truthful, Agrees
  <2>4. H[m.base].has = s.snap.has /\ H[m.base].val = s.snap.val
    BY <2>3 DEF Content
  <2>5. H[m.rev].session = r.snap.session /\ H[m.rev].has = r.snap.has /\ H[m.rev].val = r.snap.val
    BY <1>3, <2>1, <2>3, <2>4
  <2>6. H[m.rev] \in Docs
    BY <2>3 DEF History
  <2>7. H[m.rev] = Content(r.snap)
    BY <2>5, <2>6, DocIs DEF Content
  <2> QED
    BY <2>1, <2>2, <2>3, <2>7 DEF Agrees
<1> QED
  BY <1>1, <1>2, <1>3 DEF Hears
LEMMA DeckKeepsCache ==
  ASSUME CacheInv, DeckNext, UNCHANGED server
  PROVE  CacheInv'
<1>1. LinkInv /\ LinkInv'
  BY DeckKeeps DEF CacheInv
<1>2. PICK H : Cached(H)
  BY DEF CacheInv
<1>3. UNCHANGED <<cur, inst, client>> /\ History(H)
  BY <1>2 DEF server, Cached
<1>4. History(H)'
  BY <1>3 DEF History
<1>5. /\ Fine(sd) /\ sd.snap \in Snaps /\ inst \in Nat \ {0} /\ conns \in Nat
      /\ sd.conn \in {0, conns}
      /\ (sd.conn # 0 => sd.conn \in Conns) /\ WireTyped /\ Unopened
  BY <1>1, LinkFacts, FineIs, DeckFields
<1>6. ASSUME sd'.conn # 0
      PROVE  (Coherent(H, sd.conn) \/ Foreign(sd.conn))'
  <2> PICK c : c = sd.conn
    OBVIOUS
  <2>1. CASE Stays
    <3>1. PICK r : Fine(r) /\ Same(sd, r) /\ Becomes(r)
      BY <2>1 DEF Stays
    <3>2. r.conn = sd.conn /\ r.snap = sd.snap /\ down' = down
      BY <2>1, <3>1 DEF Same, Stays
    <3>3. sd'.conn = sd.conn /\ sd'.snap = sd.snap
      BY <3>1, <3>2, BecomesIs
    <3>4. Coherent(H, c) \/ Foreign(c)
      BY <1>2, <1>6, <3>3 DEF Cached
    <3>5. CASE Coherent(H, c)
      <4>1. /\ sd'.snap = NoSnap \/ (sd'.snap.inst = inst' /\ Agrees(H, sd'.snap))
            /\ client'[c].published = Nothing \/ Agrees(H, client'[c].published)
        BY <1>3, <3>3, <3>5 DEF Coherent
      <4>2. (\A n \in 1 .. Len(down[c]) : Truthful(H, down[c][n]))'
        <5>1. \A n \in 1 .. Len(down[c]) : Truthful(H, down[c][n])
          BY <3>5 DEF Coherent
        <5>2. inst' = inst /\ down'[c] = down[c]
          BY <1>3, <3>2
        <5> QED
          BY <5>1, <5>2, TruthStays
      <4> QED
        BY <3>3, <4>1, <4>2 DEF Coherent
    <3>6. CASE Foreign(c)
      BY <1>3, <3>2, <3>3, <3>6 DEF Foreign
    <3> QED
      BY <3>4, <3>5, <3>6
  <2>2. CASE Learns
    <3> DEFINE m == Head(down[c])
               rest == Tail(down[c])
    <3>1. PICK r : Fine(r) /\ Hears(sd, r, m) /\ Becomes(r) /\ Unread(r, rest)
      BY <2>2 DEF Learns
    <3>2. c # 0 /\ down[c] # << >> /\ c \in Conns
      BY <1>5, <2>2 DEF Learns
    <3>3. down[c] \in Seq(DownMessages) /\ m \in DownMessages
      BY <1>1, <3>2, NextMessage
    <3>4. /\ Len(down[c]) \in Nat /\ Len(down[c]) > 0 /\ m = down[c][1]
          /\ Len(rest) = Len(down[c]) - 1 /\ \A n \in 1 .. Len(rest) : rest[n] = down[c][n + 1]
      BY <3>2, <3>3, HeadTailProperties, EmptySeq, LenProperties
    <3>5. r.conn = c \/ (r.conn = 0 /\ Resting(r))
      BY <3>1 DEF Hears, Resting
    <3>6. sd'.conn = r.conn /\ sd'.snap = r.snap
      BY <3>1, <3>5, BecomesIs
    <3>7. r.conn = c /\ r.conn # 0 /\ ~ Resting(r)
      BY <1>6, <3>5, <3>6 DEF Resting
    <3>8. down'[c] = rest
      BY <1>5, <3>1, <3>2, <3>7 DEF Unread, WireTyped
    <3>9. /\ 1 \in 1 .. Len(down[c])
          /\ \A n \in 1 .. Len(rest) : n + 1 \in 1 .. Len(down[c])
      BY <3>4
    <3>10. /\ m.type = "state" => m \in States
           /\ m.type = "stateDelta" => m \in Deltas
      BY <3>3 DEF DownMessages, HelloAck, ServerStatus, EndOfStream, States, Deltas, Pongs,
                  AckMessages, Errors
    <3> HIDE DEF m, rest
    <3>11. CASE Coherent(H, c)
      <4>1. Truthful(H, m) /\ \A n \in 1 .. Len(rest) : Truthful(H, rest[n])
        BY <3>4, <3>9, <3>11 DEF Coherent
      <4>2. r.snap = NoSnap \/ (r.snap.inst = inst /\ Agrees(H, r.snap))
        BY <1>3, <1>5, <3>1, <3>7, <3>10, <3>11, <4>1, LearnsTruly DEF Coherent
      <4>3. (\A n \in 1 .. Len(down[c]) : Truthful(H, down[c][n]))'
        BY <1>3, <3>8, <4>1, TruthStays
      <4>4. client'[c].published = Nothing \/ Agrees(H, client'[c].published)
        BY <1>3, <3>11 DEF Coherent
      <4> QED
        BY <1>3, <3>6, <3>7, <4>2, <4>3, <4>4 DEF Coherent
    <3>12. CASE Foreign(c)
      <4>1. m.type = "state" => m.inst < inst
        BY <3>4, <3>9, <3>12 DEF Foreign
      <4>2. \A n \in 1 .. Len(rest) : rest[n].type = "state" => rest[n].inst < inst
        BY <3>4, <3>9, <3>12 DEF Foreign
      <4>3. r.snap.inst < inst
        <5>1. NoSnap.inst < inst
          BY <1>5 DEF NoSnap
        <5>2. SnapOf(m).inst = m.inst
          BY DEF SnapOf
        <5>3. Overlaid(sd.snap, m).inst = sd.snap.inst
          BY <1>5 DEF Overlaid, Snaps
        <5> QED
          BY <3>1, <3>7, <3>12, <4>1, <5>1, <5>2, <5>3 DEF Hears, Foreign
      <4> QED
        BY <1>3, <3>6, <3>7, <3>8, <3>12, <4>2, <4>3 DEF Foreign
    <3> QED
      BY <1>2, <3>2, <3>11, <3>12 DEF Cached
  <2>3. CASE HangsUp
    <3>1. PICK r : Fine(r) /\ Resting(r) /\ Becomes(r)
      BY <2>3 DEF HangsUp
    <3>2. sd'.conn = 0
      BY <3>1, BecomesIs DEF Resting
    <3> QED
      BY <1>6, <3>2
  <2>4. CASE Opens
    <3> DEFINE d == conns + 1
    <3>1. sd'.conn = d /\ sd'.snap = NoSnap
      BY <2>4 DEF Opens
    <3>2. d \in Conns /\ d > conns /\ down' = down
      BY <1>5, <2>4, WireAssumption DEF Opens, Connect, Conns
    <3>3. down[d] = << >> /\ client[d] = NewClient
      BY <1>5, <3>2 DEF Unopened
    <3> HIDE DEF d
    <3>4. client'[d].published = Nothing
      BY <1>3, <3>3, NewClientIs
    <3>5. \A n \in 1 .. Len(down'[d]) : FALSE
      BY <3>2, <3>3
    <3> QED
      BY <3>1, <3>4, <3>5 DEF Coherent
  <2> QED
    BY <1>1, <2>1, <2>2, <2>3, <2>4, StepsOfTheDeck
<1>7. Cached(H)'
  BY <1>4, <1>6 DEF Cached
<1> QED
  BY <1>1, <1>7 DEF CacheInv
(* The revisions go on.                                                    *)
Longer(H, k) == [n \in 1 .. k.rev |-> IF n \in DOMAIN H THEN H[n] ELSE Content(k)]

LEMMA LongerIs ==
  ASSUME NEW H, History(H), cur \in Revisions, NEW k \in Revisions,
         cur.rev <= k.rev, cur.rev = k.rev => k = cur
  PROVE  /\ Longer(H, k) \in [1 .. k.rev -> Docs] /\ Longer(H, k)[k.rev] = Content(k)
         /\ \A n \in DOMAIN H : n \in 1 .. k.rev /\ Longer(H, k)[n] = H[n]
<1>1. /\ cur.rev \in Nat \ {0} /\ k.rev \in Nat \ {0} /\ Content(k) \in Docs
      /\ H \in [1 .. cur.rev -> Docs] /\ H[cur.rev] = Content(cur)
  BY RevisionIs DEF History
<1>2. \A n \in DOMAIN H : n \in 1 .. k.rev
  BY <1>1
<1>3. CASE k.rev \in DOMAIN H
  <2>1. k = cur
    BY <1>1, <1>3
  <2> QED
    BY <1>1, <1>2, <2>1 DEF Longer
<1>4. CASE k.rev \notin DOMAIN H
  BY <1>1, <1>2, <1>4 DEF Longer
<1> QED
  BY <1>3, <1>4

(* What is told of the new revision is true of it.                         *)
LEMMA TellsTruly ==
  ASSUME NEW H, History(H), cur \in Revisions, NEW k \in Revisions,
         cur.rev <= k.rev, cur.rev = k.rev => k = cur,
         NEW p, p = Nothing \/ Agrees(H, p), NEW m, Tells(p, k, m)
  PROVE  Truthful(Longer(H, k), m)
<1> DEFINE L == Longer(H, k)
<1>1. /\ L \in [1 .. k.rev -> Docs] /\ L[k.rev] = Content(k)
      /\ \A n \in DOMAIN H : n \in 1 .. k.rev /\ L[n] = H[n]
  BY LongerIs
<1>2. k.rev \in DOMAIN L
  BY <1>1, RevisionIs
<1> HIDE DEF L
<1>3. m.type = "state" => m.inst = inst /\ Agrees(L, m)
  BY <1>1, <1>2 DEF Tells, Agrees
<1>4. ASSUME m.type = "stateDelta"
      PROVE  /\ m.base \in DOMAIN L /\ m.rev \in DOMAIN L
             /\ L[m.base].session = m.session /\ L[m.rev].session = m.session
             /\ L[m.base].has = L[m.rev].has
             /\ L[m.rev].val = [t \in Targets |-> IF t \in DOMAIN m.changes THEN m.changes[t]
                                                  ELSE L[m.base].val[t]]
  <2>1. /\ Agrees(H, p) /\ m.base = p.rev /\ m.rev = k.rev
        /\ m.session = p.session /\ m.session = k.session /\ p.has = k.has
        /\ k.val = [t \in Targets |-> IF t \in DOMAIN m.changes THEN m.changes[t] ELSE p.val[t]]
    BY <1>4 DEF Tells
  <2>2. m.base \in DOMAIN L /\ L[m.base] = Content(p)
    BY <1>1, <2>1 DEF Agrees
  <2>3. L[m.rev] = Content(k) /\ m.rev \in DOMAIN L
    BY <1>1, <1>2, <2>1
  <2>4. /\ L[m.base].session = p.session /\ L[m.base].has = p.has /\ L[m.base].val = p.val
        /\ L[m.rev].session = k.session /\ L[m.rev].has = k.has /\ L[m.rev].val = k.val
    BY <2>2, <2>3 DEF Content
  <2> QED
    BY <2>1, <2>2, <2>3, <2>4
<1> QED
  BY <1>3, <1>4 DEF Truthful, L

(* What was true stays true of more revisions.                             *)
LEMMA TrueOfMore ==
  ASSUME NEW H, NEW L, \A n \in DOMAIN H : n \in DOMAIN L /\ L[n] = H[n]
  PROVE  /\ \A k : Agrees(H, k) => Agrees(L, k)
         /\ \A m : Truthful(H, m) => Truthful(L, m)
<1>1. \A k : Agrees(H, k) => Agrees(L, k)
  BY DEF Agrees
<1> QED
  BY <1>1 DEF Truthful

LEMMA ServingKeepsCache ==
  ASSUME CacheInv, Serves, UNCHANGED sd
  PROVE  \E H : Cached(H)'
<1>1. /\ LinkInv /\ ServerTyped /\ WireTyped /\ ServerTyped' /\ WireTyped'
      /\ (sd.conn # 0 => sd.conn \in Conns)
  BY LinkFacts DEF CacheInv, Serves
<1>2. PICK H : Cached(H)
  BY DEF CacheInv
<1>3. /\ History(H) /\ cur \in Revisions /\ cur' \in Revisions
      /\ cur.rev <= cur'.rev /\ (cur.rev = cur'.rev => cur' = cur) /\ inst' = inst
  BY <1>1, <1>2 DEF Cached, ServerTyped, Serves
<1> PICK L : L = Longer(H, cur')
  OBVIOUS
<1> PICK c : c = sd.conn
  OBVIOUS
<1>4. /\ L \in [1 .. cur'.rev -> Docs] /\ L[cur'.rev] = Content(cur')
      /\ \A n \in DOMAIN H : n \in DOMAIN L /\ L[n] = H[n]
  BY <1>3, LongerIs, ZenonT(60)
<1>5. History(L)'
  BY <1>4 DEF History
<1>6. /\ \A k : Agrees(H, k) => Agrees(L, k)
      /\ \A m : Truthful(H, m) => Truthful(L, m)
  BY <1>4, TrueOfMore
<1>7. \A p, m : (p = Nothing \/ Agrees(H, p)) /\ Tells(p, cur', m) => Truthful(L, m)
  <2> TAKE p, m
  <2> QED
    BY <1>3, TellsTruly
<1>8. Agrees(L, cur')
  BY <1>3, <1>4, RevisionIs DEF Agrees
<1>9. ASSUME c # 0
      PROVE  Coherent(L, c)' \/ Foreign(c)'
  <2>1. /\ client[c].state = "closed" => client'[c].state = "closed"
        /\ client'[c].published \in {client[c].published, Nothing, cur'}
        /\ \/ down'[c] = down[c]
           \/ /\ client[c].state = "open"
              /\ \E ms \in Seq(DownMessages) :
                   /\ down'[c] = down[c] \o ms
                   /\ \A n \in 1 .. Len(ms) : Tells(client[c].published, cur', ms[n])
    BY <1>1, <1>9 DEF Serves
  <2>2. CASE Coherent(H, c)
    <3>1. client'[c].published = Nothing \/ Agrees(L, client'[c].published)
      BY <1>6, <1>8, <2>1, <2>2 DEF Coherent
    <3>2. sd.snap = NoSnap \/ (sd.snap.inst = inst /\ Agrees(L, sd.snap))
      BY <1>6, <2>2 DEF Coherent
    <3>3. client[c].published = Nothing \/ Agrees(H, client[c].published)
      BY <2>2 DEF Coherent
    <3>4. \A n \in 1 .. Len(down[c]) : Truthful(L, down[c][n])
      BY <1>6, <2>2 DEF Coherent
    <3>5. ASSUME NEW ms \in Seq(DownMessages), down'[c] = down[c] \o ms,
                 \A n \in 1 .. Len(ms) : Tells(client[c].published, cur', ms[n]),
                 NEW n \in 1 .. Len(down'[c])
          PROVE  Truthful(L, down'[c][n])
      <4>1. down[c] \in Seq(DownMessages)
        BY <1>1, <1>9 DEF WireTyped
      <4>2. /\ Len(down'[c]) = Len(down[c]) + Len(ms) /\ Len(down[c]) \in Nat /\ Len(ms) \in Nat
            /\ down'[c][n] = IF n <= Len(down[c]) THEN down[c][n] ELSE ms[n - Len(down[c])]
        BY <3>5, <4>1, ConcatProperties, LenProperties
      <4>3. CASE n <= Len(down[c])
        <5>1. n \in 1 .. Len(down[c])
          BY <4>2, <4>3
        <5> QED
          BY <3>4, <4>2, <4>3, <5>1
      <4>4. CASE ~ (n <= Len(down[c]))
        <5>1. n - Len(down[c]) \in 1 .. Len(ms)
          BY <4>2, <4>4
        <5>2. Truthful(L, ms[n - Len(down[c])])
          BY <1>7, <3>3, <3>5, <5>1
        <5> QED
          BY <4>2, <4>4, <5>2
      <4> QED
        BY <4>3, <4>4
    <3>6. \A n \in 1 .. Len(down'[c]) : Truthful(L, down'[c][n])
      BY <2>1, <3>4, <3>5
    <3> QED
      BY <1>3, <3>1, <3>2, <3>6 DEF Coherent, Truthful
  <2>3. CASE Foreign(c)
    <3>1. down'[c] = down[c] /\ client'[c].state = "closed"
      BY <2>1, <2>3 DEF Foreign
    <3> QED
      BY <1>3, <2>3, <3>1 DEF Foreign
  <2> QED
    BY <1>2, <1>9, <2>2, <2>3 DEF Cached
<1> QED
  BY <1>5, <1>9 DEF Cached

LEMMA RestartKeepsCache ==
  ASSUME CacheInv, Restart, UNCHANGED plugin
  PROVE  \E H : Cached(H)'
<1>1. /\ LinkInv /\ ServerTyped /\ WireTyped /\ Unopened /\ conns \in Nat
      /\ (sd.conn # 0 => sd.conn \in Conns) /\ inst \in Nat \ {0}
  BY LinkFacts DEF CacheInv
<1>2. UNCHANGED <<sd, conns>>
  BY DEF plugin
<1>3. /\ inst' = inst + 1 /\ cur' = Fresh(doc)
      /\ \A c \in Conns : link[c] # "none" => client'[c].state = "closed"
      /\ \A c \in Conns : Ends(down[c], down'[c])
  BY <1>1, <1>2, RestartIs
<1>4. PICK H : Cached(H)
  BY DEF CacheInv
<1> PICK L : L = [n \in 1 .. 1 |-> doc]
  OBVIOUS
<1> PICK c : c = sd.conn
  OBVIOUS
<1>5. doc \in Docs /\ cur'.rev = 1 /\ Content(cur') = doc
  BY <1>1, <1>3, NotesIs, FreshIs
<1>6. History(L)'
  BY <1>5 DEF History
<1>7. ASSUME c # 0
      PROVE  Foreign(c)'
  <2>1. client'[c].state = "closed" /\ Ends(down[c], down'[c])
    BY <1>1, <1>3, <1>7 DEF LinkInv, Linked
  <2>2. sd.snap.inst \in Nat
    BY <1>1, LinkFacts, FineIs, DeckFields DEF Snaps
  <2>3. CASE Coherent(H, c)
    <3>1. sd.snap.inst < inst'
      BY <1>1, <1>3, <2>3 DEF Coherent, NoSnap
    <3>2. \A n \in 1 .. Len(down[c]) : down[c][n].type = "state" => down[c][n].inst = inst
      BY <2>3 DEF Coherent, Truthful
    <3>3. \A n \in 1 .. Len(down'[c]) : down'[c][n].type = "state" => down'[c][n].inst < inst'
      BY <1>1, <1>3, <2>1, <3>2, SMTT(30) DEF Ends
    <3> QED
      BY <1>2, <2>1, <3>1, <3>3 DEF Foreign
  <2>4. CASE Foreign(c)
    <3>1. sd.snap.inst < inst'
      BY <1>1, <1>3, <2>2, <2>4 DEF Foreign
    <3>2. \A n \in 1 .. Len(down[c]) :
            down[c][n].type = "state" => down[c][n].inst < inst /\ down[c][n].inst \in Nat
      <4>1. down[c] \in Seq(DownMessages)
        BY <1>1, <1>7 DEF WireTyped
      <4>2. \A n \in 1 .. Len(down[c]) : down[c][n] \in DownMessages
        BY <4>1, ElementOfSeq
      <4>3. \A m \in DownMessages : m.type = "state" => m.inst \in Nat
        BY DEF DownMessages, HelloAck, ServerStatus, EndOfStream, States, Deltas, Pongs,
               AckMessages, Errors
      <4> QED
        BY <2>4, <4>2, <4>3 DEF Foreign
    <3>3. \A n \in 1 .. Len(down'[c]) : down'[c][n].type = "state" => down'[c][n].inst < inst'
      BY <1>1, <1>3, <2>1, <3>2, SMTT(30) DEF Ends
    <3> QED
      BY <1>2, <2>1, <3>1, <3>3 DEF Foreign
  <2> QED
    BY <1>4, <1>7, <2>3, <2>4 DEF Cached
<1>8. Cached(L)'
  BY <1>2, <1>6, <1>7 DEF Cached
<1> QED
  BY <1>8

LEMMA ServerKeepsCache ==
  ASSUME CacheInv, ServerNext, UNCHANGED plugin
  PROVE  CacheInv'
<1>1. ServerTyped /\ WireTyped /\ Unopened /\ conns \in Nat /\ LinkInv /\ LinkInv'
  BY LinkFacts, ServerKeeps DEF CacheInv
<1>2. UNCHANGED <<sd, conns>>
  BY DEF plugin
<1>3. Serves \/ Restart
  BY <1>1, <1>2, ServerStepServes
<1>4. \E H : Cached(H)'
  BY <1>2, <1>3, ServingKeepsCache, RestartKeepsCache
<1> QED
  BY <1>1, <1>4 DEF CacheInv

LEMMA CacheStays ==
  ASSUME CacheInv, UNCHANGED vars
  PROVE  CacheInv'
<1>1. LinkInv'
  BY LinkStays DEF CacheInv
<1>2. UNCHANGED <<cur, inst, client, down, sd>>
  BY DEF vars, wire, server, plugin
<1>3. PICK H : Cached(H)
  BY DEF CacheInv
<1>4. History(H)'
  BY <1>2, <1>3 DEF Cached, History
<1>5. ASSUME sd.conn # 0
      PROVE  (Coherent(H, sd.conn) \/ Foreign(sd.conn))'
  <2> PICK c : c = sd.conn
    OBVIOUS
  <2>1. CASE Coherent(H, c)
    <3>1. (\A n \in 1 .. Len(down[c]) : Truthful(H, down[c][n]))'
      <4>1. inst' = inst /\ down'[c] = down[c]
        BY <1>2
      <4> QED
        BY <2>1, <4>1, TruthStays DEF Coherent
    <3>2. Coherent(H, c)'
      BY <1>2, <2>1, <3>1 DEF Coherent
    <3> QED
      BY <1>2, <3>2
  <2>2. CASE Foreign(c)
    BY <1>2, <2>2 DEF Foreign
  <2> QED
    BY <1>3, <1>5, <2>1, <2>2 DEF Cached
<1>6. Cached(H)'
  BY <1>2, <1>4, <1>5 DEF Cached
<1> QED
  BY <1>1, <1>6 DEF CacheInv

(* StateStore.accept() of full states and of deltas, over sessions, lost   *)
(* connections and restarts of LiveMix: what the plugin holds under a      *)
(* revision of the running server is what the server holds under it.       *)
THEOREM CacheNeverLies == Spec => []CacheIsCoherent
<1>1. Init => CacheInv
  BY CacheStarts
<1>2. CacheInv /\ [Next]_vars => CacheInv'
  BY DeckKeepsCache, ServerKeepsCache, CacheStays DEF Next, Server, Deck
<1>3. CacheInv => CacheIsCoherent
  BY CacheIs
<1> QED
  BY <1>1, <1>2, <1>3, PTL DEF Spec
-----------------------------------------------------------------------------
(* From the callback to the wire. *)

(* Less is on its way, the rest is the same.                               *)
Alike(w, v) == /\ v.applied = w.applied /\ v.pressed = w.pressed /\ v.made = w.made
               /\ v.inst = w.inst /\ v.alive = w.alive /\ v.loose = w.loose
LEMMA LessIs ==
  ASSUME NEW F, NEW G \in SUBSET F, NEW w, NEW v, Alike(w, v)
  PROVE  /\ Alone(F, w) => Alone(G, v)
         /\ Stamped(F, w) => Stamped(G, v)
         /\ Ranked(F, w) => Ranked(G, v)
         /\ \A i : Unsent(F, w, i) => Unsent(G, v, i)
         /\ \A i, c : Truly(F, w, i, c) => Truly(G, v, i, c)
<1>1. \A i : Aboard(G, i) => Aboard(F, i)
  BY DEF Aboard
<1>2. \A i : Unsent(F, w, i) => Unsent(G, v, i)
  BY <1>1 DEF Unsent, Alike
<1>3. Alone(F, w) => Alone(G, v)
  BY <1>1 DEF Alone, Alike
<1>4. Stamped(F, w) => Stamped(G, v)
  BY DEF Stamped, Alike
<1>5. \A i, j : Precedes(v, i, j) <=> Precedes(w, i, j)
  BY DEF Precedes, Alike
<1>6. Ranked(F, w) => Ranked(G, v)
  BY <1>1, <1>5 DEF Ranked, Alike
<1>7. \A i, c : Truly(F, w, i, c) => Truly(G, v, i, c)
  BY <1>2 DEF Truly, Arrived, Alike
<1> QED
  BY <1>2, <1>3, <1>4, <1>6, <1>7

(* The callback is over: what it sent is under way.                        *)
LEMMA CommitJourney ==
  ASSUME NEW r \in Decks, NEW w, Worldly(w), Journey(r, w),
         NEW z, z.out = << >>, z.queue = r.queue, z.promise = r.promise, z.pend = r.pend,
         z.answers = r.answers, z.seq = r.seq, z.snap = r.snap, z.synced = r.synced,
         NEW v, Alike(w, v), v.sent = Flying(r, w), v.heard \subseteq w.heard, v.conn = w.conn,
         v.seq = r.seq
  PROVE  Journey(z, v)
<1> DEFINE F == Flying(r, w)
<1>1. Flying(z, v) = F
  BY DEF Flying
<1>2. /\ Alone(F, w) /\ Stamped(F, w) /\ Ranked(F, w) /\ Counted(r, w)
      /\ \A i \in w.loose : Unsent(F, w, i)
  BY DEF Journey, Loads
<1>3. \A x \in F : x[2].id \in Nat /\ (x[1] = w.conn => x[2].id <= r.seq)
  BY <1>2, CountIs
<1> HIDE DEF F
<1>4. /\ Alone(F, v) /\ Stamped(F, v) /\ Ranked(F, v)
      /\ \A i : Unsent(F, w, i) => Unsent(F, v, i)
      /\ \A i, c : Truly(F, w, i, c) => Truly(F, v, i, c)
  BY <1>2, LessIs
<1>5. Counted(z, v)
  <2>1. r.seq \in Nat /\ w.seq \in Nat /\ w.seq <= r.seq
    BY <1>2, DeckFields DEF Counted, Worldly
  <2>2. \A x \in v.sent : x[1] = v.conn => x[2].id <= v.seq
    BY <1>3 DEF F
  <2>3. \A d \in v.heard : d.id <= v.seq
    <3>1. \A d \in v.heard : d.id \in Nat /\ d.id <= w.seq
      BY <1>2 DEF Counted, Worldly, AckMessages, Errors
    <3> QED
      BY <2>1, <3>1
  <2>4. Len(z.out) = 0
    BY EmptySeq
  <2>5. \A p, q \in z.pend : p.id = q.id => p = q
    BY <1>2 DEF Counted
  <2> QED
    BY <2>1, <2>2, <2>3, <2>4, <2>5 DEF Counted
<1>6. Loads(z, v)
  BY <1>1, <1>2, <1>4, <1>5 DEF Loads, Alike
<1>7. Honest(z, v)
  BY <1>1, <1>4 DEF Journey, Honest, Alike, F
<1>8. Opened(z, v)
  <2>1. HasSnap(z) <=> HasSnap(r)
    BY DEF HasSnap
  <2> QED
    BY <2>1 DEF Journey, Opened, Alike
<1>9. ASSUME NEW t \in Targets
      PROVE  Trip(z, v, t)
  <2> DEFINE q == r.queue[t]
  <2>1. Waits(q, F, w, t) /\ Known(q, F, w) /\ (q # NoQueue => Traced(r, w, t))
    BY DEF Journey, Trip, F
  <2> HIDE DEF q
  <2>2. \A i, j : Precedes(v, i, j) <=> Precedes(w, i, j)
    BY DEF Precedes, Alike
  <2>3. \A i : Level(F, w, i) => Level(F, v, i)
    BY <1>4, <2>2 DEF Level, Alike
  <2>4. Waits(q, F, v, t)
    BY <1>4, <2>1, <2>3 DEF Waits, Lined, Alike
  <2>5. Known(q, F, v)
    BY <1>4, <2>1 DEF Known, Arrived, Alike
  <2>6. q # NoQueue => Traced(z, v, t)
    <3> HAVE q # NoQueue
    <3>1. Asked(z, t) = Asked(r, t) /\ Replied(z, t) = Replied(r, t)
      BY DEF Asked, Replied
    <3> QED
      BY <1>1, <1>4, <2>1, <3>1 DEF Traced, q, F
  <2> QED
    BY <1>1, <2>4, <2>5, <2>6 DEF Trip, q
<1> QED
  BY <1>6, <1>7, <1>8, <1>9 DEF Journey

(* The connection is given up, or there is a new one: nothing is out.      *)
LEMMA RestJourney ==
  ASSUME NEW r, NEW w, Journey(r, w),
         NEW z, AllTidy(z), Cleared(z), z.out = << >>, z.promise = r.promise, z.pend = {},
         ~ z.synced, ~ HasSnap(z),
         NEW v, Alike(w, v), v.sent \subseteq Flying(r, w), v.heard = {}, v.seq = z.seq,
         z.seq \in Nat, \A x \in v.sent : x[1] # v.conn
  PROVE  Journey(z, v)
<1> DEFINE F == Flying(r, w)  G == v.sent
<1>1. Flying(z, v) = G
  BY EmptySeq DEF Flying
<1>2. /\ Alone(F, w) /\ Stamped(F, w) /\ Ranked(F, w) /\ \A i \in w.loose : Unsent(F, w, i)
  BY DEF Journey, Loads
<1>3. /\ Alone(G, v) /\ Stamped(G, v) /\ Ranked(G, v)
      /\ \A i : Unsent(F, w, i) => Unsent(G, v, i)
      /\ \A i, c : Truly(F, w, i, c) => Truly(G, v, i, c)
  <2>1. G \in SUBSET F
    OBVIOUS
  <2> HIDE DEF F, G
  <2> QED
    BY <1>2, <2>1, LessIs
<1>4. Counted(z, v)
  <2>1. Len(z.out) = 0
    BY EmptySeq
  <2> QED
    BY <2>1 DEF Counted
<1>5. Loads(z, v)
  BY <1>1, <1>2, <1>3, <1>4 DEF Loads, Alike
<1>6. Honest(z, v)
  <2>1. \A i \in Inputs : Truly(F, w, i, r.promise[i]) /\ (r.promise[i] # "new" <=> i \in w.made)
    BY DEF Journey, Honest
  <2> HIDE DEF F, G
  <2> QED
    BY <1>1, <1>3, <2>1 DEF Honest, Alike
<1>7. Opened(z, v)
  BY NoneOpen DEF Opened
<1>8. \A t \in Targets : Trip(z, v, t)
  BY EmptyTrip DEF Cleared
<1> QED
  BY <1>5, <1>6, <1>7, <1>8 DEF Journey

(* LiveMix works off what is on its way: A are the inputs it applies, all  *)
(* those of the message that is first on its connection, or none.  What it *)
(* tells of a message is true of the inputs the message carried.           *)
Safe(code) == code \notin NotApplied \cup {"done", "STATE_TIMEOUT", "ack"}
Reports(w, v, A, d) ==
  \/ d.id = 0 \/ Safe(CodeOf(d))
  \/ \E x \in w.sent \ v.sent :
        /\ x[1] = w.conn /\ x[2].id = d.id
        /\ \/ Parts(x[2]) = {}
           \/ CodeOf(d) \in NotApplied /\ A = {}
           \/ CodeOf(d) = "ack" /\ A = Parts(x[2])
WorksOff(w, v, A) ==
  /\ v.sent \subseteq w.sent /\ v.conn = w.conn /\ v.seq = w.seq /\ v.pressed = w.pressed
  /\ v.made = w.made /\ v.loose = w.loose
  /\ \/ v.inst = w.inst /\ v.alive \subseteq w.alive
     \/ v.conn \notin v.alive /\ \A x \in v.sent : x[1] \notin v.alive
  /\ \A i \in Inputs : IF i \in A THEN Len(v.applied[i]) = 1 ELSE v.applied[i] = w.applied[i]
  /\ \/ A = {}
     \/ \E x \in w.sent \ v.sent : /\ A = Parts(x[2])
                                   /\ \A y \in v.sent : y[1] = x[1] => x[2].id < y[2].id
  /\ \A d \in v.heard : d.id <= w.seq /\ (d \in w.heard \/ Reports(w, v, A, d))

LEMMA ServeJourney ==
  ASSUME NEW s \in Decks, s.out = << >>, PendSound(s), NEW w, Worldly(w), Journey(s, w),
         w.loose = {}, NEW v, Worldly(v), NEW A \in SUBSET Inputs, WorksOff(w, v, A)
  PROVE  Journey(s, v)
<1> DEFINE F == w.sent  G == v.sent
<1>1. Flying(s, w) = F /\ Flying(s, v) = G
  BY EmptySeq DEF Flying
<1>2. /\ Alone(F, w) /\ Stamped(F, w) /\ Ranked(F, w) /\ Counted(s, w)
      /\ \A i \in w.loose : Unsent(F, w, i)
  BY <1>1 DEF Journey, Loads
<1>3. G \subseteq F /\ \A i : Aboard(G, i) => Aboard(F, i)
  BY DEF WorksOff, Aboard
<1>4. \A i \in Inputs : i \notin A => v.applied[i] = w.applied[i]
  BY DEF WorksOff
<1>5. \A i \in A : /\ Aboard(F, i) /\ ~ Aboard(G, i) /\ w.applied[i] = << >>
                   /\ v.applied[i] # << >> /\ Len(v.applied[i]) = 1
  <2> TAKE i \in A
  <2>1. PICK x \in F \ G : A = Parts(x[2])
    BY DEF WorksOff
  <2>2. Aboard(F, i) /\ w.applied[i] = << >>
    BY <1>2, <2>1 DEF Aboard, Alone
  <2>3. \A y \in G : i \notin Parts(y[2])
    BY <1>2, <1>3, <2>1 DEF Alone
  <2>4. Len(v.applied[i]) = 1
    BY DEF WorksOff
  <2> QED
    BY <2>2, <2>3, <2>4, EmptySeq DEF Aboard
<1>6. \A i \in Inputs : Unsent(F, w, i) => Unsent(G, v, i)
  BY <1>3, <1>4, <1>5 DEF Unsent
<1>7. \A i \in Inputs : Arrived(w, i) => Arrived(v, i)
  BY <1>4, <1>5 DEF Arrived
<1>8. \A i \in Inputs : \A c : Truly(F, w, i, c) => Truly(G, v, i, c)
  BY <1>6, <1>7 DEF Truly
<1>9. \A i, j : Precedes(v, i, j) <=> Precedes(w, i, j)
  BY DEF Precedes, WorksOff
<1> HIDE DEF F, G
<1>10. Alone(G, v)
  <2>1. ASSUME NEW i \in Inputs
        PROVE  Len(v.applied[i]) <= 1 /\ (Aboard(G, i) => v.applied[i] = << >>)
    <3>1. CASE i \in A
      <4>1. Len(v.applied[i]) = 1 /\ ~ Aboard(G, i)
        BY <1>5, <3>1
      <4>2. Len(v.applied[i]) <= 1
        BY <4>1
      <4> QED
        BY <4>1, <4>2
    <3>2. CASE i \notin A
      BY <1>2, <1>3, <1>4, <3>2 DEF Alone
    <3> QED
      BY <3>1, <3>2
  <2> QED
    BY <1>2, <1>3, <2>1 DEF Alone
<1>11. Stamped(G, v)
  <2> SUFFICES ASSUME NEW x \in G, NEW i \in Parts(x[2])
               PROVE  /\ i \in Inputs /\ v.pressed[i].conn = x[1] /\ v.pressed[i].session = x[2].session
                      /\ x[1] \in v.alive => v.pressed[i].inst = v.inst
    BY DEF Stamped
  <2>1. /\ i \in Inputs /\ w.pressed[i].conn = x[1] /\ w.pressed[i].session = x[2].session
        /\ x[1] \in w.alive => w.pressed[i].inst = w.inst
    BY <1>2, <1>3 DEF Stamped
  <2> QED
    BY <2>1 DEF WorksOff, G
<1>12. Ranked(G, v)
  <2> SUFFICES ASSUME NEW i \in Inputs, NEW j \in Inputs, Precedes(w, i, j)
               PROVE  /\ Aboard(G, i) => v.applied[j] = << >>
                      /\ \A x, y \in G : i \in Parts(x[2]) /\ j \in Parts(y[2]) => x[2].id <= y[2].id
    BY <1>9 DEF Ranked
  <2>1. /\ Aboard(F, i) => w.applied[j] = << >>
        /\ \A x, y \in F : i \in Parts(x[2]) /\ j \in Parts(y[2]) => x[2].id <= y[2].id
    BY <1>2 DEF Ranked
  <2>2. ASSUME Aboard(G, i)
        PROVE  v.applied[j] = << >>
    <3>1. CASE j \notin A
      BY <1>3, <1>4, <2>1, <2>2, <3>1
    <3>2. CASE j \in A
      <4>1. PICK x \in F \ G : A = Parts(x[2]) /\ \A y \in G : y[1] = x[1] => x[2].id < y[2].id
        BY <3>2 DEF WorksOff, F, G
      <4>2. PICK y \in G : i \in Parts(y[2])
        BY <2>2 DEF Aboard
      <4>3. y[1] = x[1]
        <5>1. w.pressed[i].conn = y[1] /\ w.pressed[j].conn = x[1]
          BY <1>2, <1>3, <3>2, <4>1, <4>2 DEF Stamped
        <5> QED
          BY <5>1 DEF Precedes
      <4>4. y[2].id <= x[2].id /\ x[2].id < y[2].id
        BY <1>3, <2>1, <3>2, <4>1, <4>2, <4>3
      <4>5. x[2].id \in Nat /\ y[2].id \in Nat
        BY <1>1, <1>2, <1>3, CountIs
      <4> QED
        BY <4>4, <4>5
    <3> QED
      BY <3>1, <3>2
  <2> QED
    BY <1>3, <2>1, <2>2
<1>13. Loads(s, v)
  <2>1. Counted(s, v)
    <3>1. v.conn = w.conn /\ v.seq = w.seq /\ \A d \in v.heard : d.id <= w.seq
      BY DEF WorksOff
    <3>2. Len(s.out) = 0
      BY EmptySeq
    <3> QED
      BY <1>2, <1>3, <3>1, <3>2 DEF Counted, F, G
  <2>2. \A i \in v.loose : Unsent(G, v, i)
    BY DEF WorksOff
  <2> QED
    BY <1>1, <1>10, <1>11, <1>12, <2>1, <2>2 DEF Loads
<1>14. Honest(s, v)
  <2>1. \A i \in Inputs : Truly(F, w, i, s.promise[i]) /\ (s.promise[i] # "new" <=> i \in w.made)
    BY <1>1 DEF Journey, Honest
  <2> QED
    BY <1>1, <1>8, <2>1 DEF Honest, WorksOff
<1>15. Opened(s, v)
  <2>1. Opened(s, w)
    BY DEF Journey
  <2> QED
    BY <2>1 DEF Opened, WorksOff
<1>16. ASSUME NEW t \in Targets
       PROVE  Trip(s, v, t)
  <2> DEFINE q == s.queue[t]
  <2>1. Waits(q, F, w, t) /\ Known(q, F, w) /\ (q # NoQueue => Traced(s, w, t))
    BY <1>1 DEF Journey, Trip
  <2>2. q.active.parts \subseteq Inputs /\ (\A n \in 1 .. Len(q.waiting) : q.waiting[n].parts \subseteq Inputs)
        /\ \A n \in Places(q) : Place(q, n) \subseteq Inputs
    BY DeckFields, QueueFields
  <2> HIDE DEF q
  <2>3. ASSUME NEW i \in Inputs, Level(F, w, i)
        PROVE  Level(G, v, i)
    <3> SUFFICES ASSUME NEW j \in Inputs, Precedes(w, i, j)
                 PROVE  Unsent(G, v, j) \/ v.applied[i] # << >> \/ \E x \in G : {i, j} \subseteq Parts(x[2])
      BY <1>9 DEF Level
    <3>1. CASE i \in A
      BY <1>5, <3>1
    <3>2. CASE i \notin A
      <4>1. CASE Unsent(F, w, j)
        BY <1>6, <4>1
      <4>2. CASE w.applied[i] # << >>
        BY <1>4, <3>2, <4>2
      <4>3. ASSUME NEW x \in F, {i, j} \subseteq Parts(x[2])
            PROVE  Unsent(G, v, j) \/ \E y \in G : {i, j} \subseteq Parts(y[2])
        <5>1. CASE x \in G
          BY <4>3, <5>1
        <5>2. CASE x \notin G
          <6>1. i \in Parts(x[2]) /\ j \in Parts(x[2])
            BY <4>3
          <6>2. j \notin A
            <7> SUFFICES ASSUME j \in A PROVE FALSE
              OBVIOUS
            <7>1. PICK y \in F \ G : A = Parts(y[2])
              BY DEF WorksOff, F, G
            <7>2. j \in Parts(y[2]) /\ i \notin Parts(y[2])
              BY <3>2, <7>1
            <7> QED
              BY <1>2, <6>1, <7>1, <7>2 DEF Alone
          <6>3. v.applied[j] = << >>
            <7>1. Aboard(F, j)
              BY <6>1 DEF Aboard
            <7> QED
              BY <1>2, <1>4, <6>2, <7>1 DEF Alone
          <6>4. ~ Aboard(G, j)
            BY <1>2, <1>3, <5>2, <6>1 DEF Alone, Aboard
          <6> QED
            BY <6>3, <6>4 DEF Unsent
        <5> QED
          BY <5>1, <5>2
      <4> QED
        BY <2>3, <4>1, <4>2, <4>3 DEF Level
    <3> QED
      BY <3>1, <3>2
  <2>4. Waits(q, G, v, t)
    <3>1. v.pressed = w.pressed
      BY DEF WorksOff
    <3> QED
      BY <1>6, <2>1, <2>2, <2>3, <3>1 DEF Waits, Lined
  <2>5. Known(q, G, v)
    BY <1>6, <1>7, <2>1, <2>2 DEF Known
  <2>6. q # NoQueue => Traced(s, v, t)
    <3> HAVE q # NoQueue
    <3>1. Traced(s, w, t)
      BY <2>1
    <3>2. \A a \in Replied(s, t) : \A i \in q.active.parts : Truly(G, v, i, a.code)
      BY <1>1, <1>8, <2>2, <3>1 DEF Traced, q
    <3>3. ASSUME NEW p \in Asked(s, t)
          PROVE  /\ \A x \in G : x[1] = v.conn /\ x[2].id = p.id => q.active.parts \subseteq Parts(x[2])
                 /\ \A d \in v.heard : d.id = p.id => \A i \in q.active.parts : Truly(G, v, i, CodeOf(d))
      <4>1. /\ \A x \in F : x[1] = w.conn /\ x[2].id = p.id => q.active.parts \subseteq Parts(x[2])
            /\ \A d \in w.heard : d.id = p.id => \A i \in q.active.parts : Truly(F, w, i, CodeOf(d))
        BY <1>1, <3>1, <3>3 DEF Traced, q
      <4>2. p.id # 0
        BY <3>3 DEF PendSound, Asked, Edits
      <4>3. ASSUME NEW d \in v.heard, d.id = p.id, NEW i \in q.active.parts
            PROVE  Truly(G, v, i, CodeOf(d))
        <5>1. CASE d \in w.heard
          BY <1>8, <2>2, <4>1, <4>3, <5>1
        <5>2. CASE Safe(CodeOf(d))
          BY <5>2, TruthIs DEF Safe
        <5>3. ASSUME NEW x \in F \ G, x[1] = w.conn, x[2].id = d.id,
                     \/ Parts(x[2]) = {}
                     \/ CodeOf(d) \in NotApplied /\ A = {}
                     \/ CodeOf(d) = "ack" /\ A = Parts(x[2])
              PROVE  Truly(G, v, i, CodeOf(d))
          <6>1. i \in Parts(x[2]) /\ i \in Inputs
            BY <2>2, <4>1, <4>3, <5>3
          <6>2. CASE CodeOf(d) \in NotApplied /\ A = {}
            <7>1. v.applied[i] = << >>
              BY <1>2, <1>4, <5>3, <6>1, <6>2 DEF Alone, Aboard
            <7>2. ~ Aboard(G, i)
              BY <1>2, <1>3, <5>3, <6>1 DEF Alone, Aboard
            <7>3. CodeOf(d) \notin {"done", "STATE_TIMEOUT", "ack"}
              BY <6>2, TruthIs
            <7> QED
              BY <7>1, <7>2, <7>3 DEF Truly, Unsent
          <6>3. CASE CodeOf(d) = "ack" /\ A = Parts(x[2])
            <7>1. Arrived(v, i)
              BY <1>5, <6>1, <6>3 DEF Arrived
            <7>2. "ack" \notin NotApplied
              BY DEF NotApplied
            <7> QED
              BY <6>3, <7>1, <7>2 DEF Truly
          <6> QED
            BY <5>3, <6>1, <6>2, <6>3
        <5>4. d \in w.heard \/ Reports(w, v, A, d)
          BY DEF WorksOff
        <5> QED
          BY <4>2, <4>3, <5>1, <5>2, <5>3, <5>4 DEF Reports, F, G
      <4>4. v.conn = w.conn
        BY DEF WorksOff
      <4> QED
        BY <1>3, <4>1, <4>3, <4>4
    <3> QED
      BY <1>1, <3>1, <3>2, <3>3 DEF Traced, q
  <2> QED
    BY <1>1, <2>4, <2>5, <2>6 DEF Trip, q
<1> QED
  BY <1>13, <1>14, <1>15, <1>16 DEF Journey

-----------------------------------------------------------------------------
(* The world of the deck. *)

(* What is on its way on a connection, the oldest first: LiveMix works off *)
(* what it has read before it reads on.                                    *)
Line(c) == client[c].pending \o up[c]
Carried(c) == {Line(c)[n] : n \in 1 .. Len(Line(c))}
Brought(c) == {down[c][n] : n \in 1 .. Len(down[c])}
World ==
  [sent    |-> {x \in UNION {{c} \X Carried(c) : c \in Conns} : x[2].type # "hello"},
   heard   |-> IF sd.conn = 0 THEN {} ELSE {m \in Brought(sd.conn) : m.type \in {"ack", "error"}},
   conn    |-> sd.conn, seq |-> sd.seq, applied |-> applied, pressed |-> pressed,
   made    |-> {i \in Inputs : sd.promise[i] # "new"}, inst |-> inst,
   alive   |-> {c \in Conns : client[c].state = "open"}, loose |-> {}]

(* The numbers rise along a connection, the places along the inputs, the   *)
(* revisions along what is applied.                                        *)
InTurn(q) == \A n, k \in 1 .. Len(q) :
               n < k /\ q[n].type # "hello" /\ q[k].type # "hello" => q[n].id < q[k].id
Numbered ==
  /\ pressed \in [Inputs -> [inst : Nat, session : Nat, conn : Nat, n : Nat]]
  /\ \A i \in Inputs : sd.promise[i] # "new" =>
        pressed[i].n <= Cardinality({j \in Inputs : sd.promise[j] # "new"})
Latest == \A i \in Inputs : \A n \in DOMAIN applied[i] :
            LET a == applied[i][n]
            IN a \in Acks /\ (a.inst < inst \/ (a.inst = inst /\ a.rev <= cur.rev))
Wired == \A c \in Conns : /\ InTurn(Line(c)) /\ (c <= conns => link[c] # "none")
                          /\ \A m \in Brought(c) : m.type = "state" => m.inst # 0
AppliedTyped == applied \in [Inputs -> Seq(Acks)]
Travelled == Journey(sd, World) /\ Wired /\ Numbered /\ Latest /\ AppliedTyped

(* A command on its way is what its inputs do, by a revision LiveMix has   *)
(* had: if that is the present one, to the values LiveMix has.             *)
Fits(k, m) ==
  \A i \in Parts(m) :
     /\ Input[i].target = m.target
     /\ IF Computed(Input[i].kind)
        THEN /\ m.op = "set" /\ m.ifRevision \in 1 .. k.rev
             /\ m.ifRevision = k.rev =>
                  m.value = Effect(Input[i].kind, k.val[m.target], Cardinality(m.parts))
        ELSE m.op = "toggle"
Fitting == \A c \in Conns : client[c].state = "open" => \A n \in 1 .. Len(Line(c)) : Fits(cur, Line(c)[n])
Done == {i \in Inputs : sd.promise[i] = "done"}
Meaningful == Means(sd, World, Done) /\ Fitting
JourneyInv == CacheInv /\ Travelled /\ Meaningful /\ AppliedWhereItWasMade /\ AppliedInOrder

OnItsWay(x, c, n) == x = <<c, Line(c)[n]>> /\ x[2].type # "hello"
LEMMA WorldIs ==
  /\ \A x : x \in World.sent <=> \E c \in Conns : \E n \in 1 .. Len(Line(c)) : OnItsWay(x, c, n)
  /\ \A m : m \in World.heard <=> sd.conn # 0 /\ m.type \in {"ack", "error"}
                                  /\ \E n \in 1 .. Len(down[sd.conn]) : m = down[sd.conn][n]
  /\ World.conn = sd.conn /\ World.seq = sd.seq /\ World.applied = applied
  /\ World.pressed = pressed /\ World.inst = inst /\ World.loose = {}
  /\ World.made = {i \in Inputs : sd.promise[i] # "new"}
  /\ World.alive = {c \in Conns : client[c].state = "open"}
<1>1. \A x : x \in World.sent <=>
         x[2].type # "hello" /\ \E c \in Conns : x \in {c} \X Carried(c)
  BY DEF World
<1>2. \A x, c : x \in {c} \X Carried(c) <=> \E n \in 1 .. Len(Line(c)) : x = <<c, Line(c)[n]>>
  BY DEF Carried
<1> QED
  <2>1. \A x : x \in World.sent <=> \E c \in Conns : \E n \in 1 .. Len(Line(c)) : OnItsWay(x, c, n)
    BY <1>1, <1>2 DEF OnItsWay
  <2> QED
    BY <2>1 DEF World, Brought

LEMMA NextWorldIs ==
  /\ \A x : x \in World'.sent <=> \E c \in Conns : \E n \in 1 .. Len(Line(c)') : OnItsWay(x, c, n)'
  /\ \A m : m \in World'.heard <=> sd'.conn # 0 /\ m.type \in {"ack", "error"}
                                   /\ \E n \in 1 .. Len(down'[sd'.conn]) : m = down'[sd'.conn][n]
  /\ World'.conn = sd'.conn /\ World'.seq = sd'.seq /\ World'.applied = applied'
  /\ World'.pressed = pressed' /\ World'.inst = inst' /\ World'.loose = {}
  /\ World'.made = {i \in Inputs : sd'.promise[i] # "new"}
  /\ World'.alive = {c \in Conns : client'[c].state = "open"}
<1>1. \A x : x \in World'.sent <=>
         x[2].type # "hello" /\ \E c \in Conns : x \in {c} \X Carried(c)'
  BY DEF World
<1>2. \A x, c : x \in {c} \X Carried(c)' <=> \E n \in 1 .. Len(Line(c)') : x = <<c, (Line(c)')[n]>>
  BY DEF Carried
<1> QED
  <2>1. \A x : x \in World'.sent <=> \E c \in Conns : \E n \in 1 .. Len(Line(c)') : OnItsWay(x, c, n)'
    BY <1>1, <1>2 DEF OnItsWay
  <2> QED
    BY <2>1 DEF World, Brought

-----------------------------------------------------------------------------
(* The steps of the deck, with the world. *)

(* One sequence put behind another.                                        *)
LEMMA ConcatIs ==
  ASSUME NEW S, NEW p \in Seq(S), NEW q \in Seq(S)
  PROVE  /\ p \o q \in Seq(S) /\ Len(p \o q) = Len(p) + Len(q) /\ Len(p) \in Nat /\ Len(q) \in Nat
         /\ \A n \in 1 .. Len(p) : (p \o q)[n] = p[n]
         /\ \A n \in 1 .. Len(q) : (p \o q)[Len(p) + n] = q[n]
<1>1. p \o q \in Seq(S) /\ Len(p \o q) = Len(p) + Len(q) /\ Len(p) \in Nat /\ Len(q) \in Nat
      /\ \A n \in 1 .. Len(p) + Len(q) : (p \o q)[n] = IF n <= Len(p) THEN p[n] ELSE q[n - Len(p)]
  BY ConcatProperties, LenProperties
<1> QED
  BY <1>1

LEMMA LineIs ==
  ASSUME LinkInv, NEW c \in Conns
  PROVE  /\ client[c].pending \in Seq(UpMessages) /\ up[c] \in Seq(UpMessages)
         /\ Line(c) \in Seq(UpMessages) /\ Len(Line(c)) \in Nat
         /\ \A n \in 1 .. Len(Line(c)) : Line(c)[n] \in UpMessages
<1>1. client[c].pending \in Seq(UpMessages) /\ up[c] \in Seq(UpMessages)
  BY LinkFacts, ClientIs DEF ServerTyped, WireTyped
<1>2. Line(c) \in Seq(UpMessages)
  BY <1>1, ConcatProperties DEF Line
<1> QED
  BY <1>1, <1>2, LenProperties, ElementOfSeq

LEMMA BecomeFields ==
  ASSUME NEW r \in Decks, Becomes(r)
  PROVE  /\ sd'.out = << >> /\ sd'.queue = r.queue /\ sd'.promise = r.promise /\ sd'.pend = r.pend
         /\ sd'.answers = r.answers /\ sd'.seq = r.seq /\ sd'.snap = r.snap /\ sd'.synced = r.synced
         /\ sd'.conn = r.conn
<1>1. sd' = [r EXCEPT !.out = << >>]
  BY DEF Becomes
<1>2. << >> \in Seq(UpMessages)
  OBVIOUS
<1>3. /\ sd'.out = << >> /\ sd'.queue = r.queue /\ sd'.promise = r.promise /\ sd'.pend = r.pend
      /\ sd'.answers = r.answers /\ sd'.seq = r.seq /\ sd'.snap = r.snap /\ sd'.conn = r.conn
  BY <1>1, <1>2 DEF Decks
<1>4. sd'.synced = r.synced
  BY <1>1, Zenon DEF Decks
<1> QED
  BY <1>3, <1>4

(* What a callback sends comes behind what is on its way.                  *)
LEMMA LineGrows ==
  ASSUME LinkInv, UNCHANGED client, NEW r, Fine(r), Becomes(r), NEW c \in Conns
  PROVE  Line(c)' = IF c = sd.conn THEN Line(c) \o r.out ELSE Line(c)
<1>1. /\ client[c].pending \in Seq(UpMessages) /\ up[c] \in Seq(UpMessages)
      /\ up \in [Conns -> Seq(UpMessages)] /\ c # 0
  BY LineIs, LinkFacts DEF WireTyped, Conns
<1>2. r.out \in Seq(UpMessages)
  BY FineIs, DeckFields
<1>3. up'[c] = IF c = sd.conn THEN up[c] \o r.out ELSE up[c]
  BY <1>1 DEF Becomes
<1>4. client[c].pending \o (up[c] \o r.out) = (client[c].pending \o up[c]) \o r.out
  <2> DEFINE x == client[c].pending
             y == up[c]
             z == r.out
             S == Seq(UpMessages)
  <2>1. x \in S /\ y \in S /\ z \in S
    BY <1>1, <1>2
  <2> HIDE DEF x, y, z
  <2>2. x \o (y \o z) = (x \o y) \o z
    BY <2>1, ConcatAssociative
  <2> QED
    BY <2>2 DEF x, y, z
<1> QED
  BY <1>3, <1>4 DEF Line

LEMMA TurnsGoOn ==
  ASSUME NEW r \in Decks, NEW w, Worldly(w), Counted(r, w), NEW q \in Seq(UpMessages), InTurn(q),
         \A n \in 1 .. Len(q) : q[n].type # "hello" => <<w.conn, q[n]>> \in w.sent
  PROVE  InTurn(q \o r.out)
<1> DEFINE o == r.out
           l == q \o o
<1>1. o \in Seq(UpMessages)
  BY DeckFields
<1>2. /\ l \in Seq(UpMessages) /\ Len(l) = Len(q) + Len(o) /\ Len(q) \in Nat /\ Len(o) \in Nat
      /\ \A n \in 1 .. Len(q) : l[n] = q[n]
      /\ \A n \in 1 .. Len(o) : l[Len(q) + n] = o[n]
  BY <1>1, ConcatIs
<1>3. /\ \A n \in 1 .. Len(o) : o[n].id \in w.seq + 1 .. r.seq
                                /\ \A k \in 1 .. n - 1 : o[k].id < o[n].id
      /\ w.seq \in Nat /\ r.seq \in Nat
  BY CountIs DEF Counted
<1>4. \A n \in 1 .. Len(q) : q[n].type # "hello" => q[n].id <= w.seq /\ q[n].id \in Nat
  <2> TAKE n \in 1 .. Len(q)
  <2> HAVE q[n].type # "hello"
  <2> DEFINE x == <<w.conn, q[n]>>
  <2>1. x \in w.sent /\ x[1] = w.conn /\ x[2] = q[n]
    OBVIOUS
  <2>2. q[n] \in UpMessages
    BY ElementOfSeq
  <2>3. x[2].id <= w.seq
    BY <2>1 DEF Counted
  <2> QED
    BY <2>1, <2>2, <2>3, UpMessageIs
<1> HIDE DEF l, o
<1>5. ASSUME NEW n \in 1 .. Len(l), NEW k \in 1 .. Len(l), n < k,
             l[n].type # "hello", l[k].type # "hello"
      PROVE  l[n].id < l[k].id
  <2>1. CASE k <= Len(q)
    <3>1. n \in 1 .. Len(q) /\ k \in 1 .. Len(q)
      BY <1>2, <1>5, <2>1
    <3> QED
      BY <1>2, <1>5, <3>1 DEF InTurn
  <2>2. CASE Len(q) < k
    <3> DEFINE b == k - Len(q)
    <3>1. b \in 1 .. Len(o) /\ k = Len(q) + b
      BY <1>2, <2>2
    <3>2. l[k] = o[b]
      BY <1>2, <3>1
    <3>3. CASE n <= Len(q)
      <4>1. n \in 1 .. Len(q)
        BY <1>2, <3>3
      <4> HIDE DEF b
      <4> QED
        <5>1. l[n] = q[n] /\ q[n].type # "hello"
          BY <1>2, <1>5, <4>1
        <5>2. q[n].id <= w.seq /\ q[n].id \in Nat
          BY <1>4, <4>1, <5>1
        <5>3. o[b].id \in w.seq + 1 .. r.seq
          BY <1>3, <3>1
        <5> QED
          BY <1>3, <3>2, <5>1, <5>2, <5>3
    <3>4. CASE Len(q) < n
      <4> DEFINE a == n - Len(q)
      <4>1. a \in 1 .. Len(o) /\ n = Len(q) + a /\ a \in 1 .. b - 1
        BY <1>2, <1>5, <3>1, <3>4
      <4>2. l[n] = o[a]
        BY <1>2, <4>1
      <4> HIDE DEF a, b
      <4> QED
        BY <1>3, <3>1, <3>2, <4>1, <4>2
    <3> QED
      BY <1>2, <3>3, <3>4
  <2> QED
    BY <1>2, <2>1, <2>2
<1> QED
  BY <1>5 DEF InTurn, l, o

(* What a callback returned is committed.                                  *)
LEMMA CommittedJourney ==
  ASSUME LinkInv, Wired, UNCHANGED <<client, inst, applied>>,
         NEW r, Fine(r), Becomes(r), r.conn \in {0, sd.conn}, r.conn = 0 => Resting(r),
         NEW u, Worldly(u), Journey(r, u), u.made \subseteq Inputs,
         u.sent = World.sent, u.heard = World.heard, u.conn = sd.conn, u.seq = sd.seq,
         u.applied = applied, u.pressed = pressed', u.inst = inst, u.alive = World.alive, u.loose = {},
         r.conn # 0 => World'.heard \subseteq World.heard
  PROVE  Journey(sd', World') /\ \A c \in Conns : InTurn(Line(c)')
<1>1. r \in Decks /\ AllGood(r) /\ AllTidy(r)
  BY FineIs
<1>2. /\ sd'.out = << >> /\ sd'.queue = r.queue /\ sd'.promise = r.promise /\ sd'.pend = r.pend
      /\ sd'.answers = r.answers /\ sd'.seq = r.seq /\ sd'.snap = r.snap /\ sd'.synced = r.synced
      /\ sd'.conn = r.conn
  BY <1>1, BecomeFields
<1>3. Counted(r, u) /\ Honest(r, u) /\ Opened(r, u)
  BY DEF Journey, Loads
<1>4. sd.conn \in Nat /\ (sd.conn # 0 => sd.conn \in Conns)
  BY LinkFacts
<1>5. \A c \in Conns : Line(c)' = IF c = sd.conn THEN Line(c) \o r.out ELSE Line(c)
  BY LineGrows
<1>6. \A c \in Conns : Line(c) \in Seq(UpMessages) /\ Len(Line(c)) \in Nat
  BY LineIs
<1>7. r.out \in Seq(UpMessages) /\ Len(r.out) \in Nat
  BY <1>1, DeckFields, LenProperties
<1>8. ASSUME NEW c \in Conns
      PROVE  InTurn(Line(c)')
  <2>1. InTurn(Line(c)) /\ Line(c) \in Seq(UpMessages)
    BY <1>6 DEF Wired
  <2>2. CASE c = sd.conn
    <3> DEFINE q == Line(c)
    <3>1. \A n \in 1 .. Len(q) : q[n].type # "hello" => <<u.conn, q[n]>> \in u.sent
      <4> TAKE n \in 1 .. Len(q)
      <4> HAVE q[n].type # "hello"
      <4>1. OnItsWay(<<c, q[n]>>, c, n)
        BY DEF OnItsWay
      <4> QED
        BY <2>2, <4>1, WorldIs
    <3> HIDE DEF q
    <3>2. InTurn(q \o r.out)
      BY <1>1, <1>3, <2>1, <3>1, TurnsGoOn DEF q
    <3> QED
      BY <1>5, <2>2, <3>2 DEF q
  <2>3. CASE c # sd.conn
    BY <1>5, <2>1, <2>3
  <2> QED
    BY <2>2, <2>3
<1>9. ASSUME NEW x, x \in World'.sent
      PROVE  x \in Flying(r, u)
  <2>1. PICK c \in Conns : \E n \in 1 .. Len(Line(c)') : OnItsWay(x, c, n)'
    BY <1>9, NextWorldIs
  <2>2. PICK n \in 1 .. Len(Line(c)') : x = <<c, (Line(c)')[n]>> /\ x[2].type # "hello"
    BY <2>1 DEF OnItsWay
  <2> DEFINE l == Line(c)'
             q == Line(c)
             o == r.out
  <2>3. x \in World.sent \/ (c = sd.conn /\ \E k \in 1 .. Len(o) : x = <<c, o[k]>>)
    <3>1. ASSUME NEW k \in 1 .. Len(q), x = <<c, q[k]>>
          PROVE  x \in World.sent
      BY <2>2, <3>1, WorldIs DEF OnItsWay
    <3>2. CASE c # sd.conn
      <4>1. l = q
        BY <1>5, <3>2
      <4> QED
        BY <2>2, <3>1, <4>1
    <3>3. CASE c = sd.conn
      <4>1. l = q \o o /\ n \in 1 .. Len(l) /\ x = <<c, l[n]>>
        BY <1>5, <2>2, <3>3
      <4>2. q \in Seq(UpMessages) /\ o \in Seq(UpMessages)
        BY <1>6, <1>7
      <4> HIDE DEF l, q, o
      <4>3. /\ Len(l) = Len(q) + Len(o) /\ Len(q) \in Nat /\ Len(o) \in Nat
            /\ \A k \in 1 .. Len(q) : l[k] = q[k]
            /\ \A k \in 1 .. Len(o) : l[Len(q) + k] = o[k]
        BY <4>1, <4>2, ConcatIs
      <4>4. CASE n <= Len(q)
        <5>1. n \in 1 .. Len(q) /\ l[n] = q[n]
          BY <4>1, <4>3, <4>4
        <5> QED
          BY <3>1, <4>1, <5>1
      <4>5. CASE Len(q) < n
        <5> DEFINE k == n - Len(q)
        <5>1. k \in 1 .. Len(o) /\ n = Len(q) + k
          BY <4>1, <4>3, <4>5
        <5>2. l[n] = o[k]
          BY <4>3, <5>1
        <5> HIDE DEF k
        <5> QED
          BY <3>3, <4>1, <5>1, <5>2
      <4> QED
        BY <4>1, <4>3, <4>4, <4>5
    <3> QED
      BY <3>2, <3>3
  <2> QED
    BY <2>3 DEF Flying
<1>10. u.made = World'.made
  <2>1. \A i \in Inputs : r.promise[i] # "new" <=> i \in u.made
    BY <1>3 DEF Honest
  <2> QED
    BY <1>2, <2>1, NextWorldIs
<1>11. Alike(u, World')
  <2>1. World'.alive = World.alive
    BY NextWorldIs, WorldIs
  <2> QED
    BY <1>10, <2>1, NextWorldIs DEF Alike
<1>12. CASE r.conn # 0
  <2>1. sd.conn = r.conn /\ sd.conn \in Conns
    BY <1>4, <1>12
  <2>2. ASSUME NEW x \in Flying(r, u)
        PROVE  x \in World'.sent
    <3>1. CASE x \in World.sent
      <4>1. PICK c \in Conns : \E n \in 1 .. Len(Line(c)) : OnItsWay(x, c, n)
        BY <3>1, WorldIs
      <4> PICK n \in 1 .. Len(Line(c)) : x = <<c, Line(c)[n]>> /\ x[2].type # "hello"
        BY <4>1 DEF OnItsWay
      <4>2. Line(c) \in Seq(UpMessages) /\ x = <<c, Line(c)[n]>> /\ x[2].type # "hello"
        BY <1>6
      <4>3. n \in 1 .. Len(Line(c)') /\ (Line(c)')[n] = Line(c)[n]
        <5> DEFINE q == Line(c)
                   o == r.out
        <5>1. q \in Seq(UpMessages) /\ o \in Seq(UpMessages) /\ n \in 1 .. Len(q)
          BY <1>7, <4>2
        <5> HIDE DEF q, o
        <5>2. n \in 1 .. Len(q \o o) /\ (q \o o)[n] = q[n]
          BY <5>1, ConcatIs
        <5> QED
          BY <1>5, <5>1, <5>2 DEF q, o
      <4>4. OnItsWay(x, c, n)'
        BY <4>2, <4>3 DEF OnItsWay
      <4> QED
        BY <4>3, <4>4, NextWorldIs
    <3>2. ASSUME NEW k \in 1 .. Len(r.out), x = <<sd.conn, r.out[k]>>
          PROVE  x \in World'.sent
      <4> PICK c : c = sd.conn
        OBVIOUS
      <4> DEFINE q == Line(c)
                 o == r.out
                 n == Len(q) + k
      <4>1. q \in Seq(UpMessages) /\ o \in Seq(UpMessages) /\ k \in 1 .. Len(o)
        BY <1>6, <1>7, <2>1, <3>2
      <4>2. Line(c)' = q \o o
        BY <1>5, <2>1
      <4>3. x = <<c, o[k]>> /\ o[k].type # "hello" /\ c \in Conns
        BY <1>3, <2>1, <3>2 DEF Counted
      <4> HIDE DEF q, o
      <4>4. n \in 1 .. Len(q \o o) /\ (q \o o)[n] = o[k]
        BY <4>1, ConcatIs
      <4> HIDE DEF n
      <4>5. x = <<c, (Line(c)')[n]>> /\ x[2].type # "hello" /\ n \in 1 .. Len(Line(c)')
        BY <4>2, <4>3, <4>4
      <4> PICK h : h = n
        OBVIOUS
      <4>6. OnItsWay(x, c, h)' /\ h \in 1 .. Len(Line(c)')
        BY <4>5 DEF OnItsWay
      <4> QED
        BY <4>3, <4>6, NextWorldIs
    <3> QED
      BY <3>1, <3>2 DEF Flying
  <2>3. World'.sent = Flying(r, u)
    BY <1>9, <2>2
  <2> DEFINE z == sd'
             v == World'
  <2>4. /\ z.out = << >> /\ z.queue = r.queue /\ z.promise = r.promise /\ z.pend = r.pend
        /\ z.answers = r.answers /\ z.seq = r.seq /\ z.snap = r.snap /\ z.synced = r.synced
    BY <1>2
  <2>5. /\ Alike(u, v) /\ v.sent = Flying(r, u) /\ v.heard \subseteq u.heard /\ v.conn = u.conn
        /\ v.seq = r.seq
    BY <1>2, <1>11, <1>12, <2>1, <2>3, NextWorldIs
  <2> HIDE DEF z, v
  <2>6. Journey(z, v)
    BY <1>1, <2>4, <2>5, CommitJourney
  <2> QED
    BY <1>8, <2>6 DEF z, v
<1>13. CASE r.conn = 0
  <2>1. Resting(r)
    BY <1>13
  <2> DEFINE z == sd'
             v == World'
  <2>2. AllTidy(z) /\ Cleared(z)
    <3>1. Fine(sd') /\ Resting(sd')
      BY <2>1, BecomesIs
    <3> QED
      BY <3>1, FineIs DEF Resting
  <2>3. z.out = << >> /\ z.promise = r.promise /\ z.pend = {} /\ z.seq \in Nat
    BY <1>1, <1>2, <2>1, DeckFields DEF Resting
  <2>4. ~ z.synced /\ ~ HasSnap(z)
    <3>1. sd'.snap = NoSnap /\ r.snap = NoSnap
      BY <1>2, <2>1 DEF Resting
    <3>2. ~ r.synced
      BY <1>3, <3>1 DEF Opened, HasSnap
    <3> QED
      BY <1>2, <3>1, <3>2 DEF HasSnap
  <2>5. v.sent \subseteq Flying(r, u)
    BY <1>9
  <2>6. v.heard = {} /\ v.seq = z.seq /\ v.conn = 0
    <3>1. \A m : m \notin v.heard
      BY <1>2, <1>13, NextWorldIs
    <3>2. v.seq = z.seq /\ v.conn = 0
      BY <1>2, <1>13, NextWorldIs
    <3> HIDE DEF v
    <3> QED
      BY <3>1, <3>2
  <2>7. \A x \in v.sent : x[1] # 0
    <3> TAKE x \in v.sent
    <3>1. PICK c \in Conns : \E n \in 1 .. Len(Line(c)') : OnItsWay(x, c, n)'
      BY NextWorldIs
    <3> QED
      BY <3>1 DEF OnItsWay, Conns
  <2>8. Alike(u, v)
    BY <1>11
  <2> HIDE DEF z, v
  <2>9. Journey(z, v)
    BY <2>2, <2>3, <2>4, <2>5, <2>6, <2>7, <2>8, RestJourney
  <2> QED
    BY <1>8, <2>9 DEF z, v
<1> QED
  BY <1>12, <1>13

(* The world is as it should be, now and after a step.                     *)
LEMMA WorldIsWorldly == LinkInv /\ AppliedTyped /\ Numbered => Worldly(World)
<1> SUFFICES ASSUME LinkInv, AppliedTyped, Numbered
             PROVE  Worldly(World)
  OBVIOUS
<1>1. ASSUME NEW x \in World.sent
      PROVE  x \in Conns \X {m \in UpMessages : m.type # "hello"}
  <2>1. PICK c \in Conns : \E n \in 1 .. Len(Line(c)) : OnItsWay(x, c, n)
    BY WorldIs
  <2>2. PICK n \in 1 .. Len(Line(c)) : x = <<c, Line(c)[n]>> /\ x[2].type # "hello"
    BY <2>1 DEF OnItsWay
  <2>3. Line(c)[n] \in UpMessages
    BY <2>2, LineIs
  <2> DEFINE m == Line(c)[n]
  <2> HIDE DEF m
  <2> QED
    BY <2>2, <2>3 DEF m
<1>2. ASSUME NEW m \in World.heard
      PROVE  m \in AckMessages \cup Errors
  <2>1. PICK n \in 1 .. Len(down[sd.conn]) : m = down[sd.conn][n]
    BY WorldIs
  <2>2. sd.conn # 0 /\ m.type \in {"ack", "error"}
    BY WorldIs
  <2>3. sd.conn \in Conns /\ down[sd.conn] \in Seq(DownMessages)
    BY <2>2, LinkFacts DEF WireTyped
  <2>4. m \in DownMessages
    BY <2>1, <2>3, ElementOfSeq
  <2> QED
    BY <2>2, <2>4 DEF DownMessages, HelloAck, ServerStatus, EndOfStream, States, Deltas, Pongs
<1>3. World.conn \in Nat /\ World.seq \in Nat
  BY WorldIs, LinkFacts, FineIs, DeckFields
<1>4. \A i \in Inputs : World.applied[i] \in Seq(Acks) /\ World.pressed[i].n \in Nat
  BY WorldIs DEF AppliedTyped, Numbered
<1> QED
  BY <1>1, <1>2, <1>3, <1>4 DEF Worldly

LEMMA NextIsWorldly == LinkInv' /\ AppliedTyped' /\ Numbered' => Worldly(World)'
BY WorldIsWorldly, PTL

LEMMA TravelFacts ==
  ASSUME JourneyInv
  PROVE  /\ LinkInv /\ CacheInv /\ Wired /\ Numbered /\ Latest /\ AppliedTyped
         /\ Worldly(World) /\ Fares(sd, World) /\ World.loose = {} /\ World.made \subseteq Inputs
         /\ sd \in Decks /\ sd.out = << >> /\ AllGood(sd) /\ PendSound(sd)
         /\ Begins(sd, World, Done) /\ Placed(World) /\ Fitting
<1>1. /\ LinkInv /\ CacheInv /\ Wired /\ Numbered /\ Latest /\ AppliedTyped /\ Journey(sd, World)
      /\ Means(sd, World, Done) /\ Fitting
  BY DEF JourneyInv, Travelled, Meaningful, CacheInv
<1>2. Fine(sd) /\ sd.out = << >>
  BY <1>1, LinkFacts DEF DeckTyped
<1>3. Worldly(World)
  BY <1>1, WorldIsWorldly
<1>4. Placed(World)
  BY WorldIs DEF JourneyInv, AppliedWhereItWasMade, Placed
<1>5. Undone(sd, Done)
  BY DEF Undone, Done
<1> QED
  BY <1>1, <1>2, <1>3, <1>4, <1>5, WorldIs, FineIs DEF Fares, Begins

(* A callback that returns r, in the world u: the world before, but for    *)
(* the input that was made.                                                *)
Goes(r, u) ==
  /\ Fine(r) /\ Becomes(r) /\ r.conn \in {0, sd.conn} /\ (r.conn = 0 => Resting(r))
  /\ Worldly(u) /\ Journey(r, u) /\ u.made \subseteq Inputs
  /\ u.sent = World.sent /\ u.heard = World.heard /\ u.conn = sd.conn /\ u.seq = sd.seq
  /\ u.applied = applied /\ u.pressed = pressed' /\ u.inst = inst /\ u.alive = World.alive /\ u.loose = {}
  /\ \A c \in Conns : Brought(c)' \subseteq Brought(c)
  /\ Means(r, World, Done) /\ UNCHANGED conns

LEMMA StayGoes ==
  ASSUME JourneyInv, DeckNext, ~ Connect, NEW r, Fine(r), Same(sd, r), Becomes(r),
         UNCHANGED <<conns, down>>, NEW u, Worldly(u), Journey(r, u), u.made \subseteq Inputs,
         u.sent = World.sent, u.heard = World.heard, u.conn = sd.conn, u.seq = sd.seq,
         u.applied = applied, u.pressed = pressed', u.inst = inst, u.alive = World.alive, u.loose = {},
         Means(r, World, Done)
  PROVE  Goes(r, u)
<1>1. r \in Decks /\ r.conn = sd.conn
  BY FineIs DEF Same
<1>2. ASSUME r.conn = 0
      PROVE  Resting(r)
  <2>1. Resting(sd')
    BY <1>1, <1>2, TravelFacts, LinkFacts, RestIs
  <2>2. sd' = [r EXCEPT !.out = << >>]
    BY DEF Becomes
  <2>3. /\ sd'.conn = r.conn /\ sd'.snap = r.snap /\ sd'.status = r.status /\ sd'.pinging = r.pinging
        /\ sd'.pend = r.pend /\ sd'.resync = r.resync /\ sd'.ping = r.ping /\ sd'.queue = r.queue
    BY <1>1, <2>2 DEF Decks
  <2> QED
    BY <2>1, <2>3 DEF Resting, Cleared
<1>3. \A c \in Conns : Brought(c)' \subseteq Brought(c)
  BY DEF Brought
<1> QED
  BY <1>1, <1>2, <1>3 DEF Goes

LEMMA SameWorldGoes ==
  ASSUME JourneyInv, DeckNext, ~ Connect, NEW r, Fine(r), Same(sd, r), Becomes(r),
         UNCHANGED <<conns, down, pressed>>, Journey(r, World), Means(r, World, Done)
  PROVE  Goes(r, World)
<1>1. /\ World.conn = sd.conn /\ World.seq = sd.seq /\ World.applied = applied
      /\ World.pressed = pressed' /\ World.inst = inst /\ World.loose = {}
  BY WorldIs
<1>2. Worldly(World) /\ World.made \subseteq Inputs
  BY TravelFacts
<1> DEFINE u == World
<1>3. /\ Worldly(u) /\ Journey(r, u) /\ u.made \subseteq Inputs
      /\ u.sent = World.sent /\ u.heard = World.heard /\ u.conn = sd.conn /\ u.seq = sd.seq
      /\ u.applied = applied /\ u.pressed = pressed' /\ u.inst = inst /\ u.alive = World.alive
      /\ u.loose = {} /\ Means(r, World, Done)
  BY <1>1, <1>2
<1> HIDE DEF u
<1>4. Goes(r, u)
  BY <1>3, StayGoes
<1> QED
  BY <1>4 DEF u

(* What comes is as the world says.                                        *)
LEMMA ItArrives ==
  ASSUME JourneyInv, sd.conn # 0, down[sd.conn] # << >>
  PROVE  Arrives(World, Head(down[sd.conn]))
<1> DEFINE m == Head(down[sd.conn])
<1> PICK c : c = sd.conn
  OBVIOUS
<1>1. LinkInv /\ Wired /\ CacheInv
  BY TravelFacts
<1>2. c \in Conns /\ m \in DownMessages /\ down[c] \in Seq(DownMessages)
  BY <1>1, LinkFacts, NextMessage
<1>3. 1 \in 1 .. Len(down[c]) /\ m = down[c][1]
  BY <1>2, LenProperties, EmptySeq
<1> HIDE DEF m
<1>4. m.type \in {"ack", "error"} => m \in World.heard
  BY <1>3, WorldIs
<1>5. m.type = "state" => m.inst # 0
  <2>1. m \in Brought(c)
    BY <1>3 DEF Brought
  <2> QED
    BY <1>1, <1>2, <2>1 DEF Wired
<1>6. ASSUME m.type = "state", World.conn \in World.alive
      PROVE  m.inst = World.inst
  <2>1. client[c].state = "open" /\ World.inst = inst
    BY <1>6, WorldIs
  <2>2. PICK H : Coherent(H, c)
    BY <1>1, <2>1 DEF CacheInv, Cached, Foreign
  <2> QED
    BY <1>3, <1>6, <2>1, <2>2 DEF Coherent, Truthful
<1> QED
  BY <1>2, <1>4, <1>5, <1>6 DEF Arrives, m

LEMMA ReceiveGoes ==
  ASSUME JourneyInv, DeckNext, ReceiveMessage, UNCHANGED server
  PROVE  Goes(Handle(sd, Head(down[sd.conn])), World)
<1> DEFINE m == Head(down[sd.conn])
           rest == Tail(down[sd.conn])
           r == Handle(sd, m)
           u == World
           D == Done
<1>1. sd.conn # 0 /\ down[sd.conn] # << >> /\ UNCHANGED <<pressed, conns, pings>>
      /\ Becomes(r) /\ Unread(r, rest)
  BY DEF ReceiveMessage
<1>2. /\ LinkInv /\ Worldly(u) /\ Fares(sd, u) /\ u.loose = {} /\ u.made \subseteq Inputs /\ Fine(sd)
      /\ Begins(sd, u, D) /\ Placed(u)
  BY TravelFacts DEF Fares
<1>3. Arrives(u, m)
  BY <1>1, ItArrives
<1>4. m \in DownMessages /\ down[sd.conn] \in Seq(DownMessages)
  BY <1>1, <1>2, NextMessage
<1>5. /\ Len(down[sd.conn]) \in Nat /\ Len(rest) = Len(down[sd.conn]) - 1
      /\ \A n \in 1 .. Len(rest) : rest[n] = down[sd.conn][n + 1]
  BY <1>1, <1>4, HeadTailProperties, LenProperties
<1>6. \A c \in Conns : Brought(c)' \subseteq Brought(c)
  <2> TAKE c \in Conns
  <2>1. CASE down'[c] = down[c]
    BY <2>1 DEF Brought
  <2>2. CASE down'[c] = << >>
    BY <2>2, EmptySeq DEF Brought
  <2>3. CASE c = sd.conn /\ down'[c] = rest
    <3>1. \A n \in 1 .. Len(rest) : n + 1 \in 1 .. Len(down[c]) /\ rest[n] = down[c][n + 1]
      BY <1>5, <2>3
    <3> HIDE DEF rest
    <3> QED
      BY <2>3, <3>1 DEF Brought
  <2>4. down \in [Conns -> Seq(DownMessages)]
    BY <1>2, LinkFacts DEF WireTyped
  <2> QED
    BY <1>1, <2>1, <2>2, <2>3, <2>4 DEF Unread
<1> HIDE DEF u, m, D
<1>7. Journey(r, u) /\ Means(r, u, D)
  BY <1>2, <1>3, HandleJourney, HandleMeans
<1>8. Fine(r) /\ Hears(sd, r, m)
  BY <1>2, <1>4, HandleIs
<1>9. r.conn \in {0, sd.conn} /\ (r.conn = 0 => Resting(r))
  BY <1>1, <1>8 DEF Hears, Resting
<1>10. /\ u.sent = World.sent /\ u.heard = World.heard /\ u.conn = sd.conn /\ u.seq = sd.seq
       /\ u.applied = applied /\ u.pressed = pressed' /\ u.inst = inst /\ u.alive = World.alive
       /\ u.loose = {}
  BY <1>1, WorldIs DEF u
<1> HIDE DEF r
<1>11. Goes(r, u)
  BY <1>1, <1>2, <1>6, <1>7, <1>8, <1>9, <1>10 DEF Goes, u, D
<1> QED
  BY <1>11 DEF r, u, m

LEMMA GiveUpGoes ==
  ASSUME JourneyInv, DeckNext, NEW code \in Reasons, code # "ack", GiveUp(code), UNCHANGED server
  PROVE  Goes(Close(sd, code), World)
<1> DEFINE r == Close(sd, code)
           u == World
<1>1. sd.conn # 0 /\ UNCHANGED <<pressed, conns, pings>> /\ Becomes(r)
      /\ down' = [down EXCEPT ![sd.conn] = << >>]
  BY DEF GiveUp, Unread, Idle
<1>2. /\ LinkInv /\ Worldly(u) /\ Fares(sd, u) /\ u.made \subseteq Inputs /\ Fine(sd)
      /\ Journey(sd, u) /\ Begins(sd, u, Done)
  BY TravelFacts DEF Fares
<1>3. \A c \in Conns : Brought(c)' \subseteq Brought(c)
  <2> TAKE c \in Conns
  <2>1. down \in [Conns -> Seq(DownMessages)]
    BY <1>2, LinkFacts DEF WireTyped
  <2>2. down'[c] = << >> \/ down'[c] = down[c]
    BY <1>1, <2>1
  <2> QED
    BY <2>2, EmptySeq DEF Brought
<1>4. /\ u.sent = World.sent /\ u.heard = World.heard /\ u.conn = sd.conn /\ u.seq = sd.seq
      /\ u.applied = applied /\ u.pressed = pressed' /\ u.inst = inst /\ u.alive = World.alive
      /\ u.loose = {}
  BY <1>1, WorldIs DEF u
<1> HIDE DEF u
<1>5. Fine(r) /\ Resting(r)
  BY <1>2, FineToClose
<1>6. Journey(r, u) /\ Means(r, u, Done)
  BY <1>2, FineCloseJourney, CloseBegins DEF Begins
<1> HIDE DEF r
<1>7. Goes(r, u)
  BY <1>1, <1>2, <1>3, <1>4, <1>5, <1>6 DEF Goes, Resting, u
<1> QED
  BY <1>7 DEF r, u

(* Everything but a press and the next connection.                         *)
LEMMA RestGoes ==
  ASSUME JourneyInv, DeckNext, ~ Connect, UNCHANGED server, \A i \in Inputs : ~ Press(i)
  PROVE  UNCHANGED pressed /\ \E r : Goes(r, World)
<1> DEFINE w == World
           D == Done
<1>1. /\ LinkInv /\ Worldly(w) /\ Fares(sd, w) /\ w.loose = {} /\ Fine(sd) /\ AllGood(sd)
      /\ sd.out = << >> /\ sd \in Decks /\ Begins(sd, w, D)
  BY TravelFacts DEF Fares
<1>2. ASSUME NEW r, Fine(r), Same(sd, r), Becomes(r), UNCHANGED <<conns, down, pressed>>,
             Journey(r, w), Means(r, w, D)
      PROVE  UNCHANGED pressed /\ \E s : Goes(s, World)
  BY <1>2, SameWorldGoes
<1> HIDE DEF w, D
<1>3. ASSUME NEW o, CancelOwner(o)
      PROVE  UNCHANGED pressed /\ \E s : Goes(s, World)
  <2> DEFINE gone == {i \in Inputs : Input[i].owner = o /\ sd.promise[i] = "open"}
             r == AllCancelled(Settle(sd, gone, "STALE_INPUT"), gone)
  <2>1. Becomes(r) /\ UNCHANGED <<conns, pressed, down>>
    BY <1>3 DEF CancelOwner, AllCancelled, Cancelled
  <2>2. gone \in SUBSET Inputs
    OBVIOUS
  <2> HIDE DEF gone
  <2>3. AllGood(r) /\ Moves(sd, r)
    BY <1>1, <2>2, CancelIs
  <2>4. Journey(r, w) /\ Means(r, w, D)
    BY <1>1, <2>2, CancelJourney, CancelMeans
  <2> HIDE DEF r
  <2>5. Fine(r) /\ Same(sd, r)
    <3>1. sd.seq \in Nat /\ r.seq \in Nat /\ sd.resync \in 0 .. sd.seq /\ sd.ping \in 0 .. sd.seq
      BY <1>1, <2>3, FineIs, GoodIsTidy, DeckFields
    <3> QED
      BY <2>3, <3>1 DEF Fine, Moves, Untouched, Same
  <2> QED
    BY <1>2, <2>1, <2>4, <2>5
<1>4. ASSUME TakeAnswer
      PROVE  UNCHANGED pressed /\ \E s : Goes(s, World)
  <2>1. PICK a \in sd.answers : Becomes(Answered([sd EXCEPT !.answers = @ \ {a}], a))
    BY <1>4 DEF TakeAnswer
  <2> DEFINE r == Answered([sd EXCEPT !.answers = @ \ {a}], a)
  <2>2. Fine(r) /\ Same(sd, r)
    BY <1>1, TakeAnswerIs
  <2>3. Becomes(r) /\ UNCHANGED <<conns, pressed, down>>
    BY <1>4, <2>1 DEF TakeAnswer
  <2>4. Journey(r, w) /\ Means(r, w, D)
    BY <1>1, AnsweredJourney, AnsweredMeans
  <2> HIDE DEF r
  <2> QED
    BY <1>2, <2>2, <2>3, <2>4
<1>5. ASSUME SendPing
      PROVE  UNCHANGED pressed /\ \E s : Goes(s, World)
  <2> DEFINE r == [sd EXCEPT !.seq = @ + 1, !.ping = sd.seq + 1, !.out = <<Ping(sd.seq + 1)>>]
  <2>1. Becomes(r) /\ UNCHANGED <<conns, down, pressed>>
    BY <1>5 DEF SendPing
  <2>2. Fine(r) /\ Same(sd, r)
    BY <1>1, SendPingIs
  <2>3. Journey(r, w) /\ Means(r, w, D)
    BY <1>1, SendPingJourney, SendPingMeans
  <2> HIDE DEF r
  <2> QED
    BY <1>2, <2>1, <2>2, <2>3
<1>6. ASSUME ReceiveMessage
      PROVE  UNCHANGED pressed /\ \E s : Goes(s, World)
  BY <1>6, ReceiveGoes DEF ReceiveMessage
<1>7. ASSUME NEW code \in Reasons, code # "ack", GiveUp(code)
      PROVE  UNCHANGED pressed /\ \E s : Goes(s, World)
  BY <1>7, GiveUpGoes DEF GiveUp
<1>8. ASSUME Lose \/ TimesOut
      PROVE  UNCHANGED pressed /\ \E s : Goes(s, World)
  <2>1. "EOF" \in Reasons /\ "REQUEST_TIMEOUT" \in Reasons
    BY DEF Reasons
  <2> QED
    BY <1>7, <1>8, <2>1 DEF Lose, TimesOut
<1>9. ASSUME NEW t \in Targets, Expires(t) \/ Wake(t)
      PROVE  UNCHANGED pressed /\ \E s : Goes(s, World)
  <2>1. CASE WaitingExpires(t)
    <3>1. PICK n \in DOMAIN sd.queue[t].waiting :
            Timer(Advance(Settle([sd EXCEPT !.queue[t].waiting = RemoveAt(@, n)],
                                 sd.queue[t].waiting[n].parts, "INPUT_EXPIRED"), t))
      BY <2>1 DEF WaitingExpires
    <3> DEFINE r == Advance(Settle([sd EXCEPT !.queue[t].waiting = RemoveAt(@, n)],
                                   sd.queue[t].waiting[n].parts, "INPUT_EXPIRED"), t)
    <3>2. Fine(r) /\ Same(sd, r)
      BY <1>1, WaitingExpiresIs
    <3>3. Journey(r, w) /\ Means(r, w, D)
      BY <1>1, WaitingExpiresJourney, WaitingExpiresMeans
    <3>4. Timer(r)
      BY <3>1
    <3> HIDE DEF r
    <3> QED
      BY <1>2, <3>2, <3>3, <3>4 DEF Timer
  <2>2. CASE RetryExpires(t)
    <3> DEFINE r == FailTarget(sd, t, "INPUT_EXPIRED")
    <3>1. Timer(r) /\ sd.queue[t].active.retrying
      BY <2>2 DEF RetryExpires
    <3>2. Fine(r) /\ Same(sd, r)
      <4>1. "INPUT_EXPIRED" \in Codes
        BY DEF Codes
      <4> QED
        BY <1>1, <4>1, FailureIsFine
    <3>3. Journey(r, w) /\ Means(r, w, D)
      BY <1>1, <3>1, RetryExpiresJourney, RetryExpiresMeans
    <3> HIDE DEF r
    <3> QED
      BY <1>2, <3>1, <3>2, <3>3 DEF Timer
  <2>3. CASE StateTimeout(t)
    <3> DEFINE r == RequestState(FailTarget(sd, t, "STATE_TIMEOUT"))
    <3>1. Timer(r) /\ sd.queue[t].ack # NoAck
      BY <2>3 DEF StateTimeout
    <3>2. Fine(r) /\ Same(sd, r)
      BY <1>1, StateTimeoutIs
    <3>3. Journey(r, w) /\ Means(r, w, D)
      BY <1>1, <3>1, StateTimeoutJourney, StateTimeoutMeans
    <3> HIDE DEF r
    <3> QED
      BY <1>2, <3>1, <3>2, <3>3 DEF Timer
  <2>4. CASE Wake(t)
    <3>1. PICK n \in DOMAIN sd.queue[t].waiting :
            Timer(Advance([sd EXCEPT !.queue[t].waiting[n].ripe = TRUE], t))
      BY <2>4 DEF Wake
    <3> DEFINE r == Advance([sd EXCEPT !.queue[t].waiting[n].ripe = TRUE], t)
    <3>2. Fine(r) /\ Same(sd, r)
      BY <1>1, WakeIs
    <3>3. Journey(r, w) /\ Means(r, w, D)
      BY <1>1, WakeJourney, WakeMeans
    <3>4. Timer(r)
      BY <3>1
    <3> HIDE DEF r
    <3> QED
      BY <1>2, <3>2, <3>3, <3>4 DEF Timer
  <2> QED
    BY <1>9, <2>1, <2>2, <2>3, <2>4 DEF Expires
<1> QED
  BY <1>3, <1>4, <1>5, <1>6, <1>8, <1>9 DEF DeckNext, UserActs

LEMMA PressGoes ==
  ASSUME JourneyInv, DeckNext, UNCHANGED server, NEW i \in Inputs, Press(i)
  PROVE  /\ \E r, u : Goes(r, u) /\ u.made = World.made \cup {i}
         /\ sd.promise[i] = "new"
         /\ \E a \in [inst : Nat, session : Nat, conn : Nat, n : Nat] :
               /\ pressed' = [pressed EXCEPT ![i] = a] /\ a.n = 1 + Cardinality(World.made)
<1> DEFINE w == World
           m == [sd EXCEPT !.promise[i] = "open"]
           v == [sent |-> w.sent, heard |-> w.heard, conn |-> sd.conn, seq |-> sd.seq,
                 applied |-> applied, pressed |-> pressed', made |-> w.made \cup {i}, inst |-> inst,
                 alive |-> w.alive, loose |-> {i}]
           u == [sent |-> w.sent, heard |-> w.heard, conn |-> sd.conn, seq |-> sd.seq,
                 applied |-> applied, pressed |-> pressed', made |-> w.made \cup {i}, inst |-> inst,
                 alive |-> w.alive, loose |-> {}]
           a == [inst |-> sd.snap.inst, session |-> sd.snap.session, conn |-> sd.conn,
                 n |-> 1 + Cardinality(w.made)]
           D == Done
<1>1. /\ LinkInv /\ Worldly(w) /\ Fares(sd, w) /\ w.loose = {} /\ Fine(sd) /\ AllGood(sd)
      /\ sd.out = << >> /\ sd \in Decks /\ Numbered /\ w.made \subseteq Inputs
      /\ Begins(sd, w, D)
  BY TravelFacts DEF Fares
<1>2. sd.answers = {} /\ sd.promise[i] = "new" /\ UNCHANGED <<conns, pings, down>>
  BY DEF Press
<1>3. pressed' = [pressed EXCEPT ![i] = a]
  BY WorldIs DEF Press
<1>4. Cardinality(w.made) \in Nat
  <2>1. IsFiniteSet(w.made)
    BY <1>1, WireFacts, FS_Subset
  <2> QED
    BY <2>1, FS_CardinalityType
<1>5. a \in [inst : Nat, session : Nat, conn : Nat, n : Nat] /\ a.n = 1 + Cardinality(w.made)
  <2>1. sd.snap.inst \in Nat /\ sd.snap.session \in Nat /\ sd.conn \in Nat
    BY <1>1, DeckFields DEF Snaps
  <2> QED
    BY <1>4, <2>1
<1>6. /\ pressed'[i] = a /\ \A j \in Inputs : j # i => pressed'[j] = pressed[j]
      /\ \A j \in Inputs : pressed'[j].n \in Nat
  BY <1>1, <1>3, <1>5 DEF Numbered
<1>7. /\ w.conn = sd.conn /\ w.seq = sd.seq /\ w.applied = applied /\ w.pressed = pressed
      /\ w.inst = inst /\ w.made = {j \in Inputs : sd.promise[j] # "new"}
  BY WorldIs
<1>8. \A j \in w.made : j # i => pressed'[j].n < pressed'[i].n
  <2>1. \A j \in w.made : pressed[j].n <= Cardinality(w.made) /\ pressed[j].n \in Nat
    BY <1>1, <1>7 DEF Numbered
  <2> QED
    BY <1>1, <1>4, <1>5, <1>6, <2>1
<1>9. PICK r : /\ Becomes(r)
               /\ \/ r = Settle(m, {i}, "DISCONNECTED")
                  \/ Ready(sd) /\ r \in {PressKey(m, i), RefuseTurns(m, i)}
                  \/ Ready(sd) /\ Input[i].kind = "turn" /\ r = TurnDial(m, i)
  BY DEF Press
<1>10. Ready(sd) => HasSnap(sd)
  BY <1>1 DEF Fares, Journey, Opened, Ready
<1>11. Fine(r) /\ Same(sd, r)
  BY <1>1, <1>2, <1>9, PressIs
<1> HIDE DEF w, a, D
<1>12. Worldly(v) /\ Makes(w, v, i) /\ Tight(v, u) /\ Worldly(u)
  <2>1. Worldly(v)
    BY <1>1, <1>6, <1>7 DEF Worldly
  <2>2. Makes(w, v, i)
    BY <1>6, <1>7 DEF Makes
  <2>3. Tight(v, u)
    BY DEF Tight
  <2> HIDE DEF u, v
  <2> QED
    BY <2>1, <2>2, <2>3, TightIs
<1>13. /\ \A j \in w.made : j # i => v.pressed[j].n < v.pressed[i].n
       /\ v.pressed[i].inst = sd.snap.inst /\ v.pressed[i].session = sd.snap.session
       /\ v.pressed[i].conn = v.conn
  BY <1>6, <1>8 DEF a
<1>14. /\ u.made = w.made \cup {i} /\ u.made \subseteq Inputs
       /\ u.sent = w.sent /\ u.heard = w.heard /\ u.conn = sd.conn /\ u.seq = sd.seq
       /\ u.applied = applied /\ u.pressed = pressed' /\ u.inst = inst /\ u.alive = w.alive
       /\ u.loose = {}
  BY <1>1
<1>15. ~ Connect
  <2>1. conns \in Nat
    BY <1>1, LinkFacts
  <2> QED
    BY <1>2, <2>1 DEF Connect
<1> HIDE DEF u, v
<1>16. Journey(r, u)
  BY <1>1, <1>2, <1>9, <1>10, <1>12, <1>13, PressJourney
<1>17. Means(r, w, D)
  BY <1>1, <1>2, <1>9, <1>10, <1>12, <1>13, PressMeans
<1>18. Goes(r, u)
  BY <1>2, <1>9, <1>11, <1>12, <1>14, <1>15, <1>16, <1>17, StayGoes DEF w, D
<1> QED
  BY <1>2, <1>3, <1>5, <1>14, <1>18 DEF w

(* The next connection: nothing was sent on it, and nothing is open.       *)
LEMMA ConnectJourney ==
  ASSUME JourneyInv, Connect, UNCHANGED server
  PROVE  /\ Journey(sd', World') /\ \A c \in Conns : InTurn(Line(c)')
         /\ sd'.promise = sd.promise
<1>1. /\ LinkInv /\ Wired /\ Fares(sd, World) /\ sd \in Decks /\ AllTidy(sd) /\ Unopened /\ WireTyped
      /\ sd.conn = 0 /\ conns \in Nat /\ conns < MaxConns /\ DeckTyped
  BY TravelFacts, LinkFacts, FineIs DEF Fares, Connect
<1>2. Resting(sd)
  BY <1>1, LinkFacts
<1>3. Opens
  BY <1>1, ConnectIs
<1>4. sd' = [SetStatus(sd, "connecting") EXCEPT !.conn = conns + 1, !.seq = 1, !.fault = "none"]
  BY DEF Connect
<1>5. SetStatus(sd, "connecting") = [sd EXCEPT !.status = "connecting"]
  <2> DEFINE m == [sd EXCEPT !.status = "connecting"]
  <2>1. Cleared(m) /\ sd.status # "connecting"
    BY <1>1, <1>2 DEF Resting, Cleared, Decks
  <2> HIDE DEF m
  <2>2. AdvanceAll(m) = m
    BY <2>1, NoneAdvances
  <2> QED
    BY <2>1, <2>2 DEF SetStatus, m
<1>6. sd'.promise = sd.promise /\ sd'.queue = sd.queue /\ sd'.pend = {} /\ sd'.seq = 1
  <2> DEFINE n == conns + 1
             none == "none"
  <2> HIDE DEF n, none
  <2>1. LET x == [[sd EXCEPT !.status = "connecting"] EXCEPT !.conn = n, !.seq = 1, !.fault = none]
        IN  x.promise = sd.promise /\ x.queue = sd.queue /\ x.pend = sd.pend /\ x.seq = 1
    BY <1>1 DEF Decks
  <2> QED
    BY <1>2, <1>4, <1>5, <2>1 DEF n, none, Resting
<1>7. ~ sd'.synced
  <2> DEFINE n == conns + 1
             none == "none"
  <2> HIDE DEF n, none
  <2>1. LET x == [[sd EXCEPT !.status = "connecting"] EXCEPT !.conn = n, !.seq = 1, !.fault = none]
        IN  x.synced = sd.synced
    BY <1>1, Zenon DEF Decks
  <2>2. ~ sd.synced
    BY <1>1, <1>2 DEF Fares, Journey, Opened, HasSnap, Resting
  <2> QED
    BY <1>4, <1>5, <2>1, <2>2 DEF n, none
<1>8. Fine(sd') /\ sd'.out = << >> /\ sd'.conn = conns + 1 /\ sd'.snap = NoSnap
  BY <1>3 DEF Opens
<1>9. ASSUME NEW c \in Conns
      PROVE  Line(c)' = IF c = conns + 1 THEN <<Hello>> ELSE Line(c)
  <2>1. up'[c] = IF c = conns + 1 THEN <<Hello>> ELSE up[c]
    BY <1>1 DEF Connect, WireTyped
  <2>2. client' = client
    BY DEF server
  <2>3. c = conns + 1 => client[c].pending = << >>
    <3>1. conns + 1 > conns
      BY <1>1
    <3> QED
      BY <1>1, <3>1, NewClientIs DEF Unopened
  <2>4. << >> \o <<Hello>> = <<Hello>>
    OBVIOUS
  <2> QED
    BY <2>1, <2>2, <2>3, <2>4 DEF Line
<1>10. \A c \in Conns : InTurn(Line(c)')
  <2>1. InTurn(<<Hello>>)
    BY DEF InTurn, Hello
  <2> QED
    BY <1>1, <1>9, <2>1 DEF Wired
<1>11. ASSUME NEW x, x \in World'.sent
       PROVE  x \in World.sent /\ x[1] # conns + 1
  <2>1. PICK c \in Conns : \E n \in 1 .. Len(Line(c)') : OnItsWay(x, c, n)'
    BY <1>11, NextWorldIs
  <2>2. PICK n \in 1 .. Len(Line(c)') : x = <<c, (Line(c)')[n]>> /\ x[2].type # "hello"
    BY <2>1 DEF OnItsWay
  <2>3. c # conns + 1
    <3> SUFFICES ASSUME c = conns + 1 PROVE FALSE
      OBVIOUS
    <3>1. Line(c)' = <<Hello>>
      BY <1>9
    <3>2. (Line(c)')[n] = Hello
      BY <2>2, <3>1
    <3> QED
      BY <2>2, <3>2 DEF Hello
  <2>4. OnItsWay(x, c, n) /\ n \in 1 .. Len(Line(c))
    BY <1>9, <2>2, <2>3 DEF OnItsWay
  <2> QED
    BY <2>2, <2>3, <2>4, WorldIs
<1>12. down'[conns + 1] = << >>
  <2>1. conns + 1 \in Conns /\ conns + 1 > conns
    BY <1>1, WireAssumption DEF Conns
  <2> QED
    BY <1>1, <2>1 DEF Unopened, Connect
<1>13. World'.heard = {}
  <2>1. \A m : m \notin World'.heard
    BY <1>8, <1>12, NextWorldIs, EmptySeq
  <2> DEFINE h == World'.heard
  <2>2. \A m : m \notin h
    BY <2>1
  <2> HIDE DEF h
  <2>3. h = {}
    BY <2>2
  <2> QED
    BY <2>3 DEF h
<1> DEFINE z == sd'
           v == World'
           w == World
<1>14. AllTidy(z) /\ Cleared(z)
  BY <1>2, <1>6, <1>8, FineIs DEF Resting, Cleared
<1>15. z.out = << >> /\ z.promise = sd.promise /\ z.pend = {} /\ ~ z.synced /\ ~ HasSnap(z)
       /\ z.seq = 1 /\ z.seq \in Nat
  BY <1>6, <1>7, <1>8 DEF HasSnap
<1>16. Alike(w, v)
  <2>1. /\ applied' = applied /\ pressed' = pressed /\ inst' = inst /\ client' = client
    BY DEF server, Connect
  <2> QED
    BY <1>6, <2>1, WorldIs, NextWorldIs DEF Alike
<1>17. v.sent \subseteq Flying(sd, w) /\ v.heard = {} /\ v.seq = z.seq /\ \A x \in v.sent : x[1] # v.conn
  BY <1>8, <1>11, <1>13, NextWorldIs DEF Flying
<1>18. Journey(sd, w)
  BY <1>1 DEF Fares
<1> HIDE DEF z, v, w
<1>19. Journey(z, v)
  BY <1>14, <1>15, <1>16, <1>17, <1>18, RestJourney
<1> QED
  BY <1>6, <1>10, <1>19 DEF z, v

(* What the user is told of an input that was made anew is as before.      *)
LEMMA HistoryStays ==
  ASSUME JourneyInv, UNCHANGED <<applied, inst, cur>>,
         \A i \in Inputs : pressed'[i] = pressed[i] \/ applied[i] = << >>
  PROVE  AppliedWhereItWasMade' /\ AppliedInOrder' /\ Latest' /\ AppliedTyped'
<1>1. /\ AppliedWhereItWasMade /\ AppliedInOrder /\ Latest /\ AppliedTyped
  BY DEF JourneyInv, Travelled
<1>2. DOMAIN << >> = {}
  OBVIOUS
<1>3. AppliedWhereItWasMade'
  BY <1>1, <1>2 DEF AppliedWhereItWasMade
<1>4. AppliedInOrder'
  <2> SUFFICES ASSUME NEW i \in Inputs, NEW j \in Inputs, Input[i].target = Input[j].target,
                      pressed'[i].conn = pressed'[j].conn, pressed'[i].n < pressed'[j].n,
                      NEW n \in DOMAIN applied[i], NEW k \in DOMAIN applied[j]
               PROVE  Before(applied[i][n], applied[j][k])
    BY DEF AppliedInOrder
  <2>1. pressed'[i] = pressed[i] /\ pressed'[j] = pressed[j]
    BY <1>2
  <2> QED
    BY <1>1, <2>1 DEF AppliedInOrder
<1> QED
  BY <1>1, <1>3, <1>4 DEF Latest, AppliedTyped

LEMMA ConnectMeans ==
  ASSUME JourneyInv, Connect, UNCHANGED server
  PROVE  Meaningful'
<1>1. /\ LinkInv /\ Fares(sd, World) /\ sd \in Decks /\ AllTidy(sd) /\ Unopened /\ WireTyped
      /\ sd.conn = 0 /\ conns \in Nat /\ conns < MaxConns /\ DeckTyped /\ Fitting
  BY TravelFacts, LinkFacts, FineIs DEF Fares, Connect
<1>2. Opens
  BY <1>1, ConnectIs
<1>3. UNCHANGED <<client, cur, down>> /\ conns' = conns + 1 /\ conns + 1 > conns
      /\ up' = [up EXCEPT ![conns + 1] = <<Hello>>]
  BY <1>1 DEF Connect, server
<1>4. /\ Fine(sd') /\ sd'.out = << >> /\ sd'.conn = conns + 1 /\ conns + 1 \in Conns
  BY <1>1, <1>2, WireAssumption DEF Opens, Conns
<1>5. Cleared(sd')
  <2>1. Cleared(sd)
    BY <1>1, LinkFacts DEF Resting
  <2>2. sd' = [SetStatus(sd, "connecting") EXCEPT !.conn = conns + 1, !.seq = 1, !.fault = "none"]
    BY DEF Connect
  <2>3. "connecting" \in Statuses /\ "connecting" # "ready"
    BY DEF Statuses
  <2>4. SetStatus(sd, "connecting") = [sd EXCEPT !.status = "connecting"]
    BY <1>1, <2>3, StatusIs
  <2> DEFINE n == conns + 1
             none == "none"
  <2> HIDE DEF n, none
  <2>5. LET x == [[sd EXCEPT !.status = "connecting"] EXCEPT !.conn = n, !.seq = 1, !.fault = none]
        IN  x.queue = sd.queue
    BY <1>1 DEF Decks
  <2>6. sd'.queue = sd.queue
    BY <2>2, <2>4, <2>5 DEF n, none
  <2> QED
    BY <2>1, <2>6 DEF Cleared
<1>6. World'.heard = {}
  <2>1. \A m : m \notin World'.heard
    <3>1. down'[conns + 1] = << >>
      BY <1>1, <1>3, <1>4 DEF Unopened
    <3> QED
      BY <1>4, <3>1, NextWorldIs, EmptySeq
  <2> QED
    BY <2>1
<1>7. Undone(sd', Done')
  BY DEF Undone, Done
<1> DEFINE z == sd'
           v == World'
           P == Done'
<1>8. z \in Decks /\ Cleared(z) /\ z.out = << >> /\ Heeds(z, v) /\ Undone(z, P)
  BY <1>4, <1>5, <1>6, <1>7, FineIs DEF Heeds
<1> HIDE DEF z, v, P
<1>9. Means(z, v, P)
  BY <1>8, ClearedMeans
<1>10. Fitting'
  <2> SUFFICES ASSUME NEW c \in Conns, client[c].state = "open", NEW n \in 1 .. Len(Line(c)')
               PROVE  Fits(cur, (Line(c)')[n])
    BY <1>3 DEF Fitting
  <2>1. CASE c # conns + 1
    <3>1. Line(c)' = Line(c)
      BY <1>1, <1>3, <2>1 DEF Line, WireTyped
    <3> QED
      BY <1>1, <3>1 DEF Fitting
  <2>2. CASE c = conns + 1
    <3>1. client[c].pending = << >>
      BY <1>1, <1>3, <2>2, NewClientIs DEF Unopened
    <3>2. up'[c] = <<Hello>> /\ << >> \o <<Hello>> = <<Hello>> /\ Len(<<Hello>>) = 1 /\ <<Hello>>[1] = Hello
      BY <1>1, <1>3, <2>2 DEF WireTyped
    <3>3. Line(c)' = <<Hello>>
      BY <1>3, <3>1, <3>2 DEF Line
    <3>4. (Line(c)')[n] = Hello
      BY <3>2, <3>3
    <3>5. Parts(Hello) = {}
      BY DEF Parts, Hello
    <3> QED
      BY <3>4, <3>5 DEF Fits
  <2> QED
    BY <2>1, <2>2
<1> QED
  BY <1>9, <1>10 DEF Meaningful, z, v, P

LEMMA ConnectTravels ==
  ASSUME JourneyInv, DeckNext, Connect, UNCHANGED server
  PROVE  JourneyInv'
<1>1. CacheInv' /\ LinkInv /\ Wired /\ Numbered
  BY DeckKeepsCache, TravelFacts
<1>2. Journey(sd', World') /\ (\A c \in Conns : InTurn(Line(c)')) /\ sd'.promise = sd.promise
  BY ConnectJourney
<1>3. UNCHANGED <<pressed, applied, inst, cur, down>> /\ conns' = conns + 1
      /\ link' = [link EXCEPT ![conns + 1] = "up"]
  BY DEF Connect, server
<1>4. AppliedWhereItWasMade' /\ AppliedInOrder' /\ Latest' /\ AppliedTyped'
  BY <1>3, HistoryStays
<1>5. Numbered'
  BY <1>1, <1>2, <1>3 DEF Numbered
<1>6. Wired'
  <2>1. \A c \in Conns : c <= conns' => link'[c] # "none"
    <3>1. link \in [Conns -> {"none", "up", "gone"}] /\ conns \in Nat
      BY <1>1, LinkFacts DEF WireTyped
    <3>2. \A c \in Conns : c <= conns + 1 => c <= conns \/ c = conns + 1
      BY <3>1 DEF Conns
    <3> QED
      BY <1>1, <1>3, <3>1, <3>2 DEF Wired
  <2>2. \A c \in Conns : \A m \in Brought(c)' : m.type = "state" => m.inst # 0
    BY <1>1, <1>3 DEF Wired, Brought
  <2> QED
    BY <1>2, <2>1, <2>2 DEF Wired
<1> QED
  BY <1>1, <1>2, <1>4, <1>5, <1>6, ConnectMeans DEF JourneyInv, Travelled

LEMMA GoneTravels ==
  ASSUME JourneyInv, UNCHANGED server, NEW r, NEW u, Goes(r, u)
  PROVE  /\ Journey(sd', World') /\ Wired' /\ World'.made = u.made
<1>1. /\ LinkInv /\ Wired /\ UNCHANGED <<client, inst, applied>>
  BY TravelFacts DEF server
<1>2. /\ Fine(r) /\ Becomes(r) /\ r.conn \in {0, sd.conn} /\ (r.conn = 0 => Resting(r))
      /\ Worldly(u) /\ Journey(r, u) /\ u.made \subseteq Inputs
      /\ u.sent = World.sent /\ u.heard = World.heard /\ u.conn = sd.conn /\ u.seq = sd.seq
      /\ u.applied = applied /\ u.pressed = pressed' /\ u.inst = inst /\ u.alive = World.alive
      /\ u.loose = {} /\ \A c \in Conns : Brought(c)' \subseteq Brought(c)
      /\ conns' = conns
  BY DEF Goes
<1>3. sd'.promise = r.promise /\ sd'.conn = r.conn
  BY <1>2, BecomeFields, FineIs
<1>4. ASSUME r.conn # 0
      PROVE  World'.heard \subseteq World.heard
  <2> PICK c : c = r.conn
    OBVIOUS
  <2>1. c = sd.conn /\ c = sd'.conn /\ c \in Conns
    BY <1>1, <1>2, <1>3, <1>4, LinkFacts
  <2> SUFFICES ASSUME NEW m, m \in World'.heard
               PROVE  m \in World.heard
    OBVIOUS
  <2>2. m.type \in {"ack", "error"} /\ m \in Brought(c)'
    BY <2>1, NextWorldIs DEF Brought
  <2>3. m \in Brought(c)
    BY <1>2, <2>1, <2>2
  <2> QED
    BY <1>2, <1>4, <2>1, <2>2, <2>3, WorldIs DEF Brought
<1>5. Journey(sd', World') /\ \A c \in Conns : InTurn(Line(c)')
  BY <1>1, <1>2, <1>4, CommittedJourney
<1>6. \A c \in Conns : c <= conns' => link'[c] # "none"
  <2>1. link \in [Conns -> {"none", "up", "gone"}]
    BY <1>1, LinkFacts DEF WireTyped
  <2> QED
    BY <1>1, <1>2, <2>1 DEF Becomes, Wired
<1>7. \A c \in Conns : \A m \in Brought(c)' : m.type = "state" => m.inst # 0
  BY <1>1, <1>2 DEF Wired
<1>8. Wired'
  BY <1>5, <1>6, <1>7 DEF Wired
<1>9. World'.made = u.made
  <2>1. \A i \in Inputs : r.promise[i] # "new" <=> i \in u.made
    BY <1>2 DEF Journey, Honest
  <2> QED
    BY <1>2, <1>3, <2>1, NextWorldIs
<1> QED
  BY <1>5, <1>8, <1>9

(* What was sent was made of a snapshot that agrees with LiveMix.          *)
LEMMA GoneMeans ==
  ASSUME JourneyInv, CacheInv', UNCHANGED server, NEW r, NEW u, Goes(r, u)
  PROVE  Meaningful'
<1>1. /\ LinkInv /\ UNCHANGED <<client, inst, applied, cur>> /\ Fitting /\ sd.conn \in Nat
      /\ cur \in Revisions
  BY TravelFacts, LinkFacts DEF server, ServerTyped
<1>2. /\ Fine(r) /\ Becomes(r) /\ r.conn \in {0, sd.conn} /\ (r.conn = 0 => Resting(r))
      /\ Means(r, World, Done) /\ \A c \in Conns : Brought(c)' \subseteq Brought(c)
  BY DEF Goes
<1>3. /\ sd'.out = << >> /\ sd'.queue = r.queue /\ sd'.pend = r.pend /\ sd'.answers = r.answers
      /\ sd'.seq = r.seq /\ sd'.snap = r.snap /\ sd'.conn = r.conn /\ r \in Decks
  BY <1>2, BecomeFields, FineIs
<1>4. World'.heard \subseteq World.heard
  <2> SUFFICES ASSUME NEW m, m \in World'.heard
               PROVE  m \in World.heard
    OBVIOUS
  <2> PICK c : c = r.conn
    OBVIOUS
  <2>1. c # 0 /\ m.type \in {"ack", "error"} /\ \E n \in 1 .. Len(down'[c]) : m = down'[c][n]
    BY <1>3, NextWorldIs
  <2>2. c = sd.conn /\ c \in Conns
    BY <1>1, <1>2, <2>1, LinkFacts
  <2>3. m \in Brought(c)
    BY <1>2, <2>1, <2>2 DEF Brought
  <2> QED
    BY <2>1, <2>2, <2>3, WorldIs DEF Brought
<1>5. Means(sd', World', Done')
  <2> DEFINE z == sd'
             v == World'
             Q == Done'
             w == World
             P == Done
  <2>1. /\ z.out = << >> /\ z.queue = r.queue /\ z.pend = r.pend /\ z.answers = r.answers
        /\ z.seq = r.seq /\ Undone(z, Q) /\ v.heard \subseteq w.heard /\ v.applied = w.applied
        /\ r \in Decks /\ Means(r, w, P)
    BY <1>1, <1>2, <1>3, <1>4, WorldIs, NextWorldIs DEF Undone, Done
  <2> HIDE DEF z, v, Q, w, P
  <2>2. Means(z, v, Q)
    BY <2>1, CommitMeans
  <2> QED
    BY <2>2 DEF z, v, Q
<1>6. ASSUME NEW c \in Conns, client[c].state = "open", c = sd.conn, NEW m, Meant(r, m)
      PROVE  Fits(cur, m)
  <2>1. CASE ~ HasSnap(r)
    BY <1>6, <2>1 DEF Meant, Fits
  <2>2. CASE HasSnap(r)
    <3>1. r.conn = c /\ c # 0 /\ sd'.conn = c /\ r.snap # NoSnap
      BY <1>2, <1>3, <1>6, <2>2 DEF HasSnap, Resting, Conns
    <3>2. PICK H : Cached(H)'
      BY DEF CacheInv
    <3>3. H \in [1 .. cur.rev -> Docs] /\ H[cur.rev] = Content(cur) /\ r.snap.rev \in DOMAIN H
          /\ H[r.snap.rev] = Content(r.snap)
      <4>1. History(H)' /\ (Coherent(H, sd.conn) \/ Foreign(sd.conn))'
        BY <3>1, <3>2 DEF Cached
      <4>2. ~ Foreign(sd.conn)'
        BY <1>1, <1>6, <3>1 DEF Foreign
      <4> QED
        BY <1>1, <1>3, <3>1, <4>1, <4>2 DEF History, Coherent, Agrees
    <3>4. r.snap.rev \in 1 .. cur.rev /\ (r.snap.rev = cur.rev => r.snap.val = cur.val)
      BY <3>3, ContentIs
    <3> QED
      BY <1>6, <3>4 DEF Meant, Fits
  <2> QED
    BY <2>1, <2>2
<1>7. Fitting'
  <2> SUFFICES ASSUME NEW c \in Conns, client[c].state = "open", NEW n \in 1 .. Len(Line(c)')
               PROVE  Fits(cur, (Line(c)')[n])
    BY <1>1 DEF Fitting
  <2>1. Line(c)' = IF c = sd.conn THEN Line(c) \o r.out ELSE Line(c)
    BY <1>1, <1>2, LineGrows
  <2>2. CASE c # sd.conn
    BY <1>1, <2>1, <2>2 DEF Fitting
  <2>3. CASE c = sd.conn
    <3> DEFINE l == Line(c)'
               q == Line(c)
               o == r.out
    <3>1. l = q \o o /\ n \in 1 .. Len(l) /\ q \in Seq(UpMessages) /\ o \in Seq(UpMessages)
      BY <1>1, <1>3, <2>1, <2>3, LineIs, DeckFields
    <3>2. \A k \in 1 .. Len(q) : Fits(cur, q[k])
      BY <1>1 DEF Fitting
    <3>3. \A k \in 1 .. Len(o) : Fits(cur, o[k])
      BY <1>2, <1>6, <2>3 DEF Means, Voiced
    <3> HIDE DEF l, q, o
    <3>4. /\ Len(l) = Len(q) + Len(o) /\ Len(q) \in Nat /\ Len(o) \in Nat
          /\ \A k \in 1 .. Len(q) : l[k] = q[k]
          /\ \A k \in 1 .. Len(o) : l[Len(q) + k] = o[k]
      BY <3>1, ConcatIs
    <3>5. CASE n <= Len(q)
      BY <3>1, <3>2, <3>4, <3>5 DEF l
    <3>6. CASE Len(q) < n
      <4> DEFINE k == n - Len(q)
      <4>1. k \in 1 .. Len(o) /\ n = Len(q) + k
        BY <3>1, <3>4, <3>6
      <4> HIDE DEF k
      <4>2. l[n] = o[k]
        BY <3>4, <4>1
      <4> QED
        BY <3>3, <4>1, <4>2 DEF l
    <3> QED
      BY <3>1, <3>4, <3>5, <3>6
  <2> QED
    BY <2>2, <2>3
<1> QED
  BY <1>5, <1>7 DEF Meaningful

LEMMA DeckTravels ==
  ASSUME JourneyInv, DeckNext, UNCHANGED server
  PROVE  JourneyInv'
<1>1. CacheInv' /\ LinkInv /\ Numbered /\ UNCHANGED <<applied, inst, cur>>
  BY DeckKeepsCache, TravelFacts DEF server
<1>2. ASSUME NEW r, NEW u, Goes(r, u), Numbered',
             \A i \in Inputs : pressed'[i] = pressed[i] \/ applied[i] = << >>
      PROVE  JourneyInv'
  <2>1. AppliedWhereItWasMade' /\ AppliedInOrder' /\ Latest' /\ AppliedTyped'
    BY <1>1, <1>2, HistoryStays
  <2>2. Journey(sd', World') /\ Wired' /\ Meaningful'
    BY <1>1, <1>2, GoneTravels, GoneMeans
  <2> QED
    BY <1>1, <1>2, <2>1, <2>2 DEF JourneyInv, Travelled
<1>3. /\ World.made = {i \in Inputs : sd.promise[i] # "new"}
      /\ World'.made = {i \in Inputs : sd'.promise[i] # "new"}
  BY WorldIs, NextWorldIs
<1>4. ASSUME NEW i \in Inputs, Press(i)
      PROVE  JourneyInv'
  <2>1. /\ \E r, u : Goes(r, u) /\ u.made = World.made \cup {i}
        /\ sd.promise[i] = "new"
        /\ \E a \in [inst : Nat, session : Nat, conn : Nat, n : Nat] :
              /\ pressed' = [pressed EXCEPT ![i] = a] /\ a.n = 1 + Cardinality(World.made)
    BY <1>4, PressGoes
  <2>2. PICK r, u : Goes(r, u) /\ u.made = World.made \cup {i}
    BY <2>1
  <2>3. PICK a \in [inst : Nat, session : Nat, conn : Nat, n : Nat] :
          pressed' = [pressed EXCEPT ![i] = a] /\ a.n = 1 + Cardinality(World.made)
    BY <2>1
  <2>4. applied[i] = << >>
    <3>1. Honest(sd, World) /\ World.applied = applied
      BY TravelFacts, WorldIs DEF Fares, Journey
    <3>2. "new" \in NotApplied
      BY DEF NotApplied
    <3> QED
      BY <2>1, <3>1, <3>2 DEF Honest, Truly, Unsent
  <2>5. World'.made = World.made \cup {i}
    BY <2>2, GoneTravels
  <2> DEFINE M == World.made
             N == World'.made
  <2>6. IsFiniteSet(M) /\ i \notin M /\ N = M \cup {i}
    <3>1. M \subseteq Inputs
      BY <1>3
    <3>2. IsFiniteSet(M)
      BY <3>1, WireFacts, FS_Subset
    <3>3. i \notin M
      BY <1>3, <2>1
    <3> QED
      BY <2>5, <3>2, <3>3
  <2>7. pressed \in [Inputs -> [inst : Nat, session : Nat, conn : Nat, n : Nat]]
        /\ \A j \in M : pressed[j].n <= Cardinality(M)
    BY <1>1, <1>3 DEF Numbered
  <2> HIDE DEF M, N
  <2>8. Cardinality(N) = Cardinality(M) + 1 /\ Cardinality(M) \in Nat
    BY <2>6, FS_AddElement, FS_CardinalityType
  <2>9. /\ pressed' \in [Inputs -> [inst : Nat, session : Nat, conn : Nat, n : Nat]]
        /\ pressed'[i] = a /\ \A j \in Inputs : j # i => pressed'[j] = pressed[j]
    BY <2>3, <2>7
  <2>10. ASSUME NEW j \in Inputs, j \in N
         PROVE  pressed'[j].n <= Cardinality(N)
    <3>1. CASE j = i
      BY <2>3, <2>8, <2>9, <3>1 DEF M
    <3>2. CASE j # i
      <4>1. j \in M /\ pressed'[j] = pressed[j] /\ pressed[j].n \in Nat
        BY <2>6, <2>7, <2>9, <2>10, <3>2
      <4> QED
        BY <2>7, <2>8, <4>1
    <3> QED
      BY <3>1, <3>2
  <2>11. Numbered'
    BY <1>3, <2>9, <2>10 DEF Numbered, N
  <2> QED
    BY <1>2, <2>2, <2>4, <2>9, <2>11
<1>5. CASE ~ Connect /\ \A i \in Inputs : ~ Press(i)
  <2>1. UNCHANGED pressed /\ \E r : Goes(r, World)
    BY <1>5, RestGoes
  <2>2. PICK r : Goes(r, World)
    BY <2>1
  <2>3. World'.made = World.made
    BY <2>2, GoneTravels
  <2>4. Numbered'
    BY <1>1, <1>3, <2>1, <2>3 DEF Numbered
  <2> QED
    BY <1>2, <2>1, <2>2, <2>4
<1> QED
  BY <1>4, <1>5, ConnectTravels

-----------------------------------------------------------------------------
(* The steps of LiveMix, with the world. *)

(* A message is taken off a line.                                          *)
Cut(q, k, r) == /\ Len(r) = Len(q) - 1
                /\ \A n \in 1 .. Len(r) : r[n] = IF n < k THEN q[n] ELSE q[n + 1]

LEMMA CutIs ==
  ASSUME NEW q \in Seq(UpMessages), NEW r \in Seq(UpMessages), NEW k \in 1 .. Len(q), Cut(q, k, r),
         InTurn(q)
  PROVE  /\ InTurn(r) /\ \A n \in 1 .. Len(r) : \E j \in 1 .. Len(q) : j # k /\ r[n] = q[j]
         /\ q[k].type # "hello" =>
              \A n \in 1 .. Len(r) : r[n].type # "hello" =>
                 r[n] # q[k] /\ (k = 1 => q[k].id < r[n].id)
<1> DEFINE f == [n \in 1 .. Len(r) |-> IF n < k THEN n ELSE n + 1]
<1>1. Len(q) \in Nat /\ Len(r) = Len(q) - 1 /\ k \in 1 .. Len(q)
      /\ \A n \in 1 .. Len(q) : q[n] \in UpMessages
  BY LenProperties, ElementOfSeq DEF Cut
<1>2. \A n \in 1 .. Len(r) : f[n] \in 1 .. Len(q) /\ f[n] # k /\ r[n] = q[f[n]] /\ (k = 1 => k < f[n])
  BY <1>1 DEF Cut
<1>3. \A n, j \in 1 .. Len(r) : n < j => f[n] < f[j]
  BY <1>1
<1>4. \A n \in 1 .. Len(q) : q[n].type # "hello" => q[n].id \in Nat
  BY <1>1, UpMessageIs
<1>5. \A n, j \in 1 .. Len(q) : n # j => n < j \/ j < n
  BY <1>1
<1> HIDE DEF f
<1>6. InTurn(r)
  <2> SUFFICES ASSUME NEW n \in 1 .. Len(r), NEW j \in 1 .. Len(r), n < j,
                      r[n].type # "hello", r[j].type # "hello"
               PROVE  r[n].id < r[j].id
    BY DEF InTurn
  <2>1. f[n] < f[j] /\ f[n] \in 1 .. Len(q) /\ f[j] \in 1 .. Len(q) /\ r[n] = q[f[n]] /\ r[j] = q[f[j]]
    BY <1>2, <1>3
  <2> QED
    BY <2>1 DEF InTurn
<1>7. ASSUME q[k].type # "hello", NEW n \in 1 .. Len(r), r[n].type # "hello"
      PROVE  r[n] # q[k] /\ (k = 1 => q[k].id < r[n].id)
  <2>1. f[n] \in 1 .. Len(q) /\ f[n] # k /\ r[n] = q[f[n]] /\ (k = 1 => k < f[n])
    BY <1>2
  <2>2. q[k].id \in Nat /\ r[n].id \in Nat
    BY <1>4, <1>7, <2>1
  <2>3. f[n] < k => r[n].id < q[k].id
    BY <1>7, <2>1 DEF InTurn
  <2>4. k < f[n] => q[k].id < r[n].id
    BY <1>7, <2>1 DEF InTurn
  <2>5. r[n] # q[k]
    BY <1>5, <2>1, <2>2, <2>3, <2>4
  <2> QED
    BY <2>1, <2>4, <2>5
<1>8. \A n \in 1 .. Len(r) : \E j \in 1 .. Len(q) : j # k /\ r[n] = q[j]
  BY <1>2
<1> QED
  BY <1>6, <1>7, <1>8

(* The message at the head of the work, and one behind it.                 *)
LEMMA TailCuts ==
  ASSUME NEW S, NEW p \in Seq(S), NEW q \in Seq(S)
  PROVE  /\ p # << >> => /\ 1 \in 1 .. Len(p \o q) /\ (p \o q)[1] = Head(p)
                         /\ Cut(p \o q, 1, Tail(p) \o q)
         /\ q # << >> => /\ Len(p) + 1 \in 1 .. Len(p \o q) /\ (p \o q)[Len(p) + 1] = Head(q)
                         /\ Cut(p \o q, Len(p) + 1, p \o Tail(q))
                         /\ Append(p, Head(q)) \o Tail(q) = p \o q
<1>1. /\ Len(p \o q) = Len(p) + Len(q) /\ Len(p) \in Nat /\ Len(q) \in Nat /\ p \o q \in Seq(S)
      /\ \A n \in 1 .. Len(p) + Len(q) : (p \o q)[n] = IF n <= Len(p) THEN p[n] ELSE q[n - Len(p)]
  BY ConcatProperties, LenProperties
<1>2. ASSUME p # << >>
      PROVE  /\ 1 \in 1 .. Len(p \o q) /\ (p \o q)[1] = Head(p)
             /\ Cut(p \o q, 1, Tail(p) \o q)
  <2>1. Tail(p) \in Seq(S) /\ Len(Tail(p)) = Len(p) - 1 /\ Head(p) = p[1] /\ Len(p) # 0
        /\ \A n \in 1 .. Len(p) - 1 : Tail(p)[n] = p[n + 1]
    BY <1>2, HeadTailProperties, EmptySeq
  <2>2. /\ Len(Tail(p) \o q) = Len(p) - 1 + Len(q)
        /\ \A n \in 1 .. Len(p) - 1 + Len(q) :
             (Tail(p) \o q)[n] = IF n <= Len(p) - 1 THEN Tail(p)[n] ELSE q[n - (Len(p) - 1)]
    BY <2>1, ConcatProperties
  <2>3. \A n \in 1 .. Len(p) - 1 + Len(q) : (Tail(p) \o q)[n] = (p \o q)[n + 1]
    <3> TAKE n \in 1 .. Len(p) - 1 + Len(q)
    <3>1. n + 1 \in 1 .. Len(p) + Len(q) /\ n - (Len(p) - 1) = (n + 1) - Len(p)
      BY <1>1, <2>1
    <3>2. n <= Len(p) - 1 <=> n + 1 <= Len(p)
      BY <1>1, <2>1
    <3> QED
      BY <1>1, <2>1, <2>2, <3>1, <3>2
  <2>4. Cut(p \o q, 1, Tail(p) \o q)
    BY <1>1, <2>1, <2>2, <2>3 DEF Cut
  <2> QED
    BY <1>1, <2>1, <2>4
<1>3. ASSUME q # << >>
      PROVE  /\ Len(p) + 1 \in 1 .. Len(p \o q) /\ (p \o q)[Len(p) + 1] = Head(q)
             /\ Cut(p \o q, Len(p) + 1, p \o Tail(q))
             /\ Append(p, Head(q)) \o Tail(q) = p \o q
  <2>1. Tail(q) \in Seq(S) /\ Len(Tail(q)) = Len(q) - 1 /\ Head(q) = q[1] /\ Len(q) # 0
        /\ Head(q) \in S /\ \A n \in 1 .. Len(q) - 1 : Tail(q)[n] = q[n + 1]
    BY <1>3, HeadTailProperties, EmptySeq
  <2>2. /\ Len(p \o Tail(q)) = Len(p) + Len(q) - 1
        /\ \A n \in 1 .. Len(p) + Len(q) - 1 :
             (p \o Tail(q))[n] = IF n <= Len(p) THEN p[n] ELSE Tail(q)[n - Len(p)]
    BY <1>1, <2>1, ConcatProperties
  <2>3. Cut(p \o q, Len(p) + 1, p \o Tail(q))
    <3>1. ASSUME NEW n \in 1 .. Len(p) + Len(q) - 1
          PROVE  (p \o Tail(q))[n] = IF n < Len(p) + 1 THEN (p \o q)[n] ELSE (p \o q)[n + 1]
      <4>1. CASE n <= Len(p)
        BY <1>1, <2>1, <2>2, <4>1
      <4>2. CASE Len(p) < n
        <5>1. n - Len(p) \in 1 .. Len(q) - 1 /\ n + 1 \in 1 .. Len(p) + Len(q)
              /\ (n + 1) - Len(p) = (n - Len(p)) + 1
          BY <1>1, <2>1, <4>2
        <5>2. Tail(q)[n - Len(p)] = q[(n + 1) - Len(p)]
          BY <2>1, <5>1
        <5> QED
          BY <1>1, <2>2, <4>2, <5>1, <5>2
      <4> QED
        BY <1>1, <4>1, <4>2
    <3> QED
      BY <1>1, <2>2, <3>1 DEF Cut
  <2>4. Append(p, Head(q)) \o Tail(q) = p \o q
    <3>1. /\ Append(p, Head(q)) = p \o <<Head(q)>> /\ <<Head(q)>> \in Seq(S)
          /\ <<Head(q)>> \o Tail(q) = q
      BY <1>3, <2>1, AppendIsConcat
    <3> DEFINE h == <<Head(q)>>
               z == Tail(q)
    <3>2. h \in Seq(S) /\ z \in Seq(S)
      BY <2>1, <3>1
    <3> HIDE DEF h, z
    <3>3. (p \o h) \o z = p \o (h \o z)
      BY <3>2, ConcatAssociative
    <3> QED
      BY <3>1, <3>3 DEF h, z
  <2> QED
    BY <1>1, <2>1, <2>3, <2>4
<1> QED
  BY <1>2, <1>3

(* A step of LiveMix takes at most message k of one line, or gives the     *)
(* whole line up with the connection.                                      *)
TakesOff(c, k) ==
  /\ \A d \in Conns : d # c => Line(d)' = Line(d)
  /\ IF k = 0 THEN Line(c)' \in {Line(c), << >>}
     ELSE k \in 1 .. Len(Line(c)) /\ Cut(Line(c), k, Line(c)')

LEMMA NextLineIs ==
  ASSUME LinkInv', NEW c \in Conns
  PROVE  Line(c)' \in Seq(UpMessages)
<1>1. client'[c] \in Clients /\ up'[c] \in Seq(UpMessages)
  BY DEF LinkInv, LinkTyped, ServerTyped, WireTyped
<1>2. client'[c].pending \in Seq(UpMessages)
  BY <1>1, ClientIs
<1> DEFINE p == client'[c].pending
           q == up'[c]
<1> HIDE DEF p, q
<1>3. p \o q \in Seq(UpMessages)
  BY <1>1, <1>2, ConcatProperties DEF p, q
<1> QED
  BY <1>3 DEF Line, p, q

LEMMA TakenOff ==
  ASSUME LinkInv, LinkInv', Wired, NEW c \in Conns, NEW k \in Nat, TakesOff(c, k)
  PROVE  /\ World'.sent \subseteq World.sent /\ \A d \in Conns : InTurn(Line(d)')
         /\ k # 0 /\ Line(c)[k].type # "hello" =>
               LET x == <<c, Line(c)[k]>>
               IN  /\ x \in World.sent \ World'.sent
                   /\ k = 1 => \A y \in World'.sent : y[1] = x[1] => x[2].id < y[2].id
<1> DEFINE q == Line(c)
           r == Line(c)'
<1>1. q \in Seq(UpMessages) /\ r \in Seq(UpMessages) /\ InTurn(q) /\ \A d \in Conns : InTurn(Line(d))
  BY LineIs, NextLineIs DEF Wired
<1>2. /\ InTurn(r) /\ \A n \in 1 .. Len(r) : \E j \in 1 .. Len(q) : r[n] = q[j]
      /\ k # 0 /\ q[k].type # "hello" =>
           k \in 1 .. Len(q) /\ \A n \in 1 .. Len(r) : r[n].type # "hello" =>
              r[n] # q[k] /\ (k = 1 => q[k].id < r[n].id)
  <2>1. CASE k = 0 /\ r = q
    BY <1>1, <2>1
  <2>2. CASE k = 0 /\ r = << >>
    <3>1. Len(r) = 0
      BY <2>2, EmptySeq
    <3> HIDE DEF q, r
    <3> QED
      BY <2>2, <3>1 DEF InTurn
  <2>3. CASE k # 0
    <3>1. k \in 1 .. Len(q) /\ Cut(q, k, r)
      BY <2>3 DEF TakesOff
    <3> HIDE DEF q, r
    <3>2. /\ InTurn(r) /\ \A n \in 1 .. Len(r) : \E j \in 1 .. Len(q) : j # k /\ r[n] = q[j]
          /\ q[k].type # "hello" =>
               \A n \in 1 .. Len(r) : r[n].type # "hello" => r[n] # q[k] /\ (k = 1 => q[k].id < r[n].id)
      BY <1>1, <3>1, CutIs
    <3> QED
      BY <3>1, <3>2
  <2> QED
    BY <2>1, <2>2, <2>3 DEF TakesOff
<1>3. ASSUME NEW x, x \in World'.sent
      PROVE  x \in World.sent /\ (x[1] = c => \E n \in 1 .. Len(r) : x[2] = r[n] /\ r[n].type # "hello")
  <2>1. PICK d \in Conns : \E n \in 1 .. Len(Line(d)') : OnItsWay(x, d, n)'
    BY <1>3, NextWorldIs
  <2>2. PICK n \in 1 .. Len(Line(d)') : x = <<d, (Line(d)')[n]>> /\ x[2].type # "hello"
    BY <2>1 DEF OnItsWay
  <2>3. CASE d = c
    <3>1. n \in 1 .. Len(r) /\ x = <<c, r[n]>>
      BY <2>2, <2>3
    <3>2. PICK j \in 1 .. Len(q) : r[n] = q[j]
      BY <1>2, <3>1
    <3>3. x = <<c, Line(c)[j]>>
      BY <3>1, <3>2
    <3>4. OnItsWay(x, c, j)
      BY <2>2, <3>3 DEF OnItsWay
    <3>5. x \in World.sent
      BY <3>4, WorldIs
    <3> HIDE DEF q, r
    <3> QED
      BY <2>2, <3>1, <3>5
  <2>4. CASE d # c
    <3>1. x = <<d, Line(d)[n]>> /\ n \in 1 .. Len(Line(d))
      BY <2>2, <2>4 DEF TakesOff
    <3>2. OnItsWay(x, d, n)
      BY <2>2, <3>1 DEF OnItsWay
    <3> QED
      BY <2>4, <3>1, <3>2, WorldIs
  <2> QED
    BY <2>3, <2>4
<1>4. ASSUME k # 0, q[k].type # "hello"
      PROVE  LET x == <<c, q[k]>>
             IN  /\ x \in World.sent \ World'.sent
                 /\ k = 1 => \A y \in World'.sent : y[1] = x[1] => x[2].id < y[2].id
  <2> DEFINE x == <<c, q[k]>>
  <2>1. OnItsWay(x, c, k)
    BY <1>4 DEF OnItsWay
  <2>2. x \in World.sent
    BY <1>2, <1>4, <2>1, WorldIs
  <2>3. \A y \in World'.sent : y[1] = c => y[2] # q[k] /\ (k = 1 => q[k].id < y[2].id)
    <3> HIDE DEF q, r
    <3> QED
      BY <1>2, <1>3, <1>4
  <2> HIDE DEF q, r
  <2>4. x[1] = c /\ x[2] = q[k]
    OBVIOUS
  <2> QED
    BY <2>2, <2>3, <2>4
<1>5. \A d \in Conns : InTurn(Line(d)')
  BY <1>1, <1>2 DEF TakesOff
<1> QED
  BY <1>3, <1>4, <1>5

LEMMA HeardMore ==
  ASSUME LinkInv, UNCHANGED sd, NEW c \in Conns, NEW ms \in Seq(DownMessages),
         down' \in {down, Told(c, ms)}, NEW m, m \in World'.heard
  PROVE  \/ m \in World.heard
         \/ c = sd.conn /\ m.type \in {"ack", "error"} /\ \E n \in 1 .. Len(ms) : m = ms[n]
<1> PICK d : d = sd.conn
  OBVIOUS
<1>1. PICK n \in 1 .. Len(down'[d]) : m = down'[d][n]
  BY NextWorldIs
<1>2. d # 0 /\ m.type \in {"ack", "error"} /\ d \in Conns
  BY NextWorldIs, LinkFacts
<1>3. down \in [Conns -> Seq(DownMessages)] /\ down[d] \in Seq(DownMessages)
  BY <1>2, LinkFacts DEF WireTyped
<1>4. CASE down'[d] = down[d]
  BY <1>1, <1>2, <1>4, WorldIs
<1>5. CASE d = c /\ down'[d] = down[d] \o ms
  <2>1. /\ Len(down'[d]) = Len(down[d]) + Len(ms) /\ Len(down[d]) \in Nat /\ Len(ms) \in Nat
        /\ m = IF n <= Len(down[d]) THEN down[d][n] ELSE ms[n - Len(down[d])]
    BY <1>1, <1>3, <1>5, ConcatProperties, LenProperties
  <2>2. CASE n <= Len(down[d])
    <3>1. n \in 1 .. Len(down[d]) /\ m = down[d][n]
      BY <2>1, <2>2
    <3> QED
      BY <1>2, <3>1, WorldIs
  <2>3. CASE Len(down[d]) < n
    <3>1. n - Len(down[d]) \in 1 .. Len(ms) /\ m = ms[n - Len(down[d])]
      BY <2>1, <2>3
    <3> QED
      BY <1>2, <1>5, <3>1
  <2> QED
    BY <2>1, <2>2, <2>3
<1>6. down' = down \/ down' = [down EXCEPT ![c] = @ \o ms]
  BY DEF Told
<1>7. down'[d] = down[d] \/ (d = c /\ down'[d] = down[d] \o ms)
  BY <1>2, <1>3, <1>6
<1> QED
  BY <1>4, <1>5, <1>7

(* What LiveMix tells of message k, when it applies the inputs A.          *)
Tidings(c, k, A, d) ==
  \/ d.id = 0
  \/ /\ k # 0 /\ Line(c)[k].type # "hello" /\ d.id = Line(c)[k].id
     /\ \/ Safe(CodeOf(d)) \/ Parts(Line(c)[k]) = {}
        \/ CodeOf(d) \in NotApplied /\ A = {}
        \/ CodeOf(d) = "ack" /\ A = Parts(Line(c)[k])

LEMMA ServerLeavesLink ==
  ASSUME ServerNext
  PROVE  link' = link
BY ZenonT(60) DEF ServerNext, User, Worker, MessageThread, UserEdits, Restart, Receive, RefuseAtOnce,
       Reads, RemoveClient, Capture, DrainEnds, Drain, DrainHello, DrainPing, DrainExpired,
       DrainRequestState, DrainEdit, Refuses, Finish, Publish, wire

(* What LiveMix tells of the state carries its instance.                   *)
LEMMA StatesAreSigned ==
  ASSUME LinkInv, Wired, Serves, NEW c \in Conns, NEW m \in Brought(c)', m.type = "state"
  PROVE  m.inst # 0
<1>1. PICK n \in 1 .. Len(down'[c]) : m = down'[c][n]
  BY DEF Brought
<1>2. \A x \in Brought(c) : x.type = "state" => x.inst # 0
  BY DEF Wired
<1>3. CASE down'[c] = down[c]
  BY <1>1, <1>2, <1>3 DEF Brought
<1>4. ASSUME NEW ms \in Seq(DownMessages), down'[c] = down[c] \o ms,
             \A j \in 1 .. Len(ms) : Tells(client[c].published, cur', ms[j])
      PROVE  m.inst # 0
  <2>1. down[c] \in Seq(DownMessages)
    BY LinkFacts DEF WireTyped
  <2>2. /\ Len(down'[c]) = Len(down[c]) + Len(ms) /\ Len(down[c]) \in Nat /\ Len(ms) \in Nat
        /\ m = IF n <= Len(down[c]) THEN down[c][n] ELSE ms[n - Len(down[c])]
    BY <1>1, <1>4, <2>1, ConcatProperties, LenProperties
  <2>3. CASE n <= Len(down[c])
    <3>1. m \in Brought(c)
      BY <2>2, <2>3 DEF Brought
    <3> QED
      BY <1>2, <3>1
  <2>4. CASE Len(down[c]) < n
    <3> DEFINE j == n - Len(down[c])
    <3>1. j \in 1 .. Len(ms) /\ m = ms[j]
      BY <2>2, <2>4
    <3> HIDE DEF j
    <3>2. m.inst = inst
      BY <1>4, <3>1 DEF Tells
    <3> QED
      BY <3>2, LinkFacts
  <2> QED
    BY <2>2, <2>3, <2>4
<1> QED
  BY <1>3, <1>4 DEF Serves

(* As LiveMix goes on, what is on its way stays as true as it was.         *)
LEMMA FitsOn ==
  ASSUME NEW k \in Revisions, NEW l \in Revisions, k.rev <= l.rev, k.rev = l.rev => l = k,
         NEW m, Fits(k, m)
  PROVE  Fits(l, m)
<1>1. k.rev \in Nat /\ l.rev \in Nat
  BY RevisionIs
<1>2. \A n \in 1 .. k.rev : n \in 1 .. l.rev /\ (n = l.rev => l = k)
  BY <1>1
<1> HIDE DEF Revisions
<1> QED
  BY <1>2 DEF Fits

LEMMA StillFitting ==
  ASSUME LinkInv, Fitting, Serves, NEW c \in Conns, NEW k \in Nat, TakesOff(c, k), LinkInv', Wired
  PROVE  Fitting'
<1>1. cur \in Revisions /\ cur' \in Revisions /\ cur.rev <= cur'.rev /\ (cur.rev = cur'.rev => cur' = cur)
  BY LinkFacts DEF Serves, ServerTyped
<1>2. \A d \in Conns : client'[d].state = "open" => client[d].state = "open"
  <2>1. \A d \in Conns : client[d].state \in {"open", "closed"}
    BY LinkFacts, ClientIs DEF ServerTyped
  <2> QED
    BY <2>1 DEF Serves
<1>3. ASSUME NEW d \in Conns, NEW n \in 1 .. Len(Line(d)')
      PROVE  \E j \in 1 .. Len(Line(d)) : (Line(d)')[n] = Line(d)[j]
  <2>1. CASE Line(d)' = Line(d)
    BY <1>3, <2>1
  <2>2. CASE Line(d)' = << >>
    BY <1>3, <2>2, EmptySeq
  <2>3. CASE d = c /\ k \in 1 .. Len(Line(c)) /\ Cut(Line(c), k, Line(c)')
    <3> DEFINE q == Line(c)
               r == Line(c)'
    <3>1. q \in Seq(UpMessages) /\ r \in Seq(UpMessages) /\ InTurn(q) /\ k \in 1 .. Len(q) /\ Cut(q, k, r)
      BY <2>3, LineIs, NextLineIs DEF Wired
    <3> HIDE DEF q, r
    <3>2. \A h \in 1 .. Len(r) : \E j \in 1 .. Len(q) : r[h] = q[j]
      BY <3>1, CutIs
    <3> QED
      BY <1>3, <2>3, <3>2 DEF q, r
  <2> QED
    BY <2>1, <2>2, <2>3 DEF TakesOff
<1> SUFFICES ASSUME NEW d \in Conns, client'[d].state = "open", NEW n \in 1 .. Len(Line(d)')
             PROVE  Fits(cur', (Line(d)')[n])
  BY DEF Fitting
<1>4. PICK j \in 1 .. Len(Line(d)) : (Line(d)')[n] = Line(d)[j]
  BY <1>3
<1>5. Fits(cur, Line(d)[j])
  BY <1>2 DEF Fitting
<1> QED
  BY <1>1, <1>4, <1>5, FitsOn

(* What the deck means is as true in the next world.                       *)
LEMMA MeansOn ==
  ASSUME JourneyInv, UNCHANGED plugin, Journey(sd', World'), Worldly(World'),
         \A i \in Inputs : Arrived(World, i) => applied'[i] = applied[i],
         \A d \in World'.heard : d.type = "ack" => Announces(World, World', d)
  PROVE  Means(sd', World', Done')
<1> DEFINE s == sd
           w == World
           v == World'
           P == Done
<1>1. s \in Decks /\ s.out = << >> /\ PendSound(s) /\ Means(s, w, P) /\ Undone(s, P) /\ Journey(s, w)
  BY TravelFacts DEF Begins, Fares
<1>2. Worldly(v) /\ \A i \in Inputs : Arrived(w, i) => v.applied[i] = w.applied[i]
  BY WorldIs, NextWorldIs
<1>3. \A d \in v.heard : d.type = "ack" => Announces(w, v, d)
  OBVIOUS
<1>4. sd' = s /\ Done' = P
  BY DEF plugin, Done
<1> HIDE DEF v
<1>5. Counted(s, v)
  BY <1>4 DEF Journey, Loads, v
<1> HIDE DEF s, w, P
<1>6. Means(s, v, P)
  BY <1>1, <1>2, <1>3, <1>5, ServeMeans
<1> QED
  BY <1>4, <1>6 DEF v

LEMMA WorkTravels ==
  ASSUME JourneyInv, CacheInv', ServerNext, UNCHANGED plugin, Serves, AppliedTyped',
         NEW c \in Conns, NEW k \in Nat, TakesOff(c, k),
         NEW ms \in Seq(DownMessages), down' \in {down, Told(c, ms)},
         NEW A \in SUBSET Inputs, A = {} \/ (k = 1 /\ A = Parts(Line(c)[k])),
         \A i \in Inputs : IF i \in A THEN Len(applied'[i]) = 1 ELSE applied'[i] = applied[i],
         \A n \in 1 .. Len(ms) : ms[n].type \in {"ack", "error"} => Tidings(c, k, A, ms[n]),
         \A i \in A, n \in 1 .. Len(ms) : ms[n].type = "ack" => Dates(World', i, ms[n])
  PROVE  Journey(sd', World') /\ Wired' /\ Numbered' /\ Meaningful'
<1>1. /\ LinkInv /\ Wired /\ Numbered /\ Worldly(World) /\ World.loose = {}
      /\ sd \in Decks /\ sd.out = << >> /\ PendSound(sd)
      /\ Journey(sd, World) /\ LinkInv' /\ UNCHANGED <<sd, conns, pressed>>
  BY TravelFacts DEF plugin, JourneyInv, Travelled, CacheInv
<1>2. /\ World'.sent \subseteq World.sent /\ \A d \in Conns : InTurn(Line(d)')
      /\ k # 0 /\ Line(c)[k].type # "hello" =>
            LET x == <<c, Line(c)[k]>>
            IN  /\ x \in World.sent \ World'.sent
                /\ k = 1 => \A y \in World'.sent : y[1] = x[1] => x[2].id < y[2].id
  BY <1>1, TakenOff
<1>3. Numbered'
  BY <1>1 DEF Numbered
<1>4. Wired'
  <2>1. \A d \in Conns : d <= conns' => link'[d] # "none"
    BY <1>1, ServerLeavesLink DEF Wired
  <2>2. \A d \in Conns : \A m \in Brought(d)' : m.type = "state" => m.inst # 0
    BY <1>1, StatesAreSigned
  <2> QED
    BY <1>2, <2>1, <2>2 DEF Wired
<1>5. Worldly(World')
  BY <1>1, <1>3, NextIsWorldly
<1>6. A = {} \/ Line(c)[k].type # "hello"
  BY DEF Parts
<1>7. ASSUME NEW d \in World'.heard
      PROVE  d.id <= World.seq /\ (d \in World.heard \/ Reports(World, World', A, d))
  <2>1. CASE d \in World.heard
    BY <1>1, <2>1 DEF Journey, Loads, Counted
  <2>2. CASE d \notin World.heard
    <3>1. PICK n \in 1 .. Len(ms) : d = ms[n]
      BY <1>1, <2>2, HeardMore
    <3>2. c = sd.conn /\ d.type \in {"ack", "error"}
      BY <1>1, <2>2, HeardMore
    <3>3. Tidings(c, k, A, d)
      BY <3>1, <3>2
    <3>4. World.seq \in Nat /\ World.conn = c
      BY <1>1, <3>2, WorldIs DEF Worldly
    <3>5. CASE d.id = 0
      BY <3>4, <3>5 DEF Reports
    <3>6. CASE d.id # 0
      <4> DEFINE x == <<c, Line(c)[k]>>
      <4>1. k # 0 /\ Line(c)[k].type # "hello" /\ d.id = Line(c)[k].id
        BY <3>3, <3>6 DEF Tidings
      <4>2. x \in World.sent \ World'.sent /\ x[1] = World.conn /\ x[2] = Line(c)[k]
        BY <1>2, <3>4, <4>1
      <4>3. x[2].id <= World.seq
        BY <1>1, <4>2 DEF Journey, Loads, Counted
      <4>4. \/ Safe(CodeOf(d)) \/ Parts(x[2]) = {}
            \/ CodeOf(d) \in NotApplied /\ A = {}
            \/ CodeOf(d) = "ack" /\ A = Parts(x[2])
        BY <3>3, <3>6, <4>2 DEF Tidings
      <4> HIDE DEF x
      <4> QED
        BY <4>1, <4>2, <4>3, <4>4 DEF Reports
    <3> QED
      BY <3>5, <3>6
  <2> QED
    BY <2>1, <2>2
<1>8. /\ World'.conn = World.conn /\ World'.seq = World.seq /\ World'.pressed = World.pressed
      /\ World'.made = World.made /\ World'.loose = World.loose /\ World'.inst = World.inst
      /\ World'.alive \subseteq World.alive
  <2>1. inst' = inst /\ \A d \in Conns : client'[d].state = "open" => client[d].state = "open"
    <3>1. \A d \in Conns : client[d].state \in {"open", "closed"}
      BY <1>1, LinkFacts, ClientIs DEF ServerTyped
    <3>2. inst' = inst /\ \A d \in Conns : client[d].state = "closed" => client'[d].state = "closed"
      BY DEF Serves
    <3> QED
      BY <3>1, <3>2
  <2> QED
    BY <1>1, <2>1, WorldIs, NextWorldIs
<1>9. \A i \in Inputs : IF i \in A THEN Len(World'.applied[i]) = 1
                                  ELSE World'.applied[i] = World.applied[i]
  BY WorldIs, NextWorldIs
<1>10. \/ A = {}
       \/ \E x \in World.sent \ World'.sent :
             /\ A = Parts(x[2])
             /\ \A y \in World'.sent : y[1] = x[1] => x[2].id < y[2].id
  <2> SUFFICES ASSUME A # {}
               PROVE  \E x \in World.sent \ World'.sent :
                         /\ A = Parts(x[2])
                         /\ \A y \in World'.sent : y[1] = x[1] => x[2].id < y[2].id
    OBVIOUS
  <2> DEFINE x == <<c, Line(c)[k]>>
  <2>1. k = 1 /\ A = Parts(x[2]) /\ Line(c)[k].type # "hello"
    BY <1>6
  <2>2. x \in World.sent \ World'.sent /\ \A y \in World'.sent : y[1] = x[1] => x[2].id < y[2].id
    BY <1>2, <2>1
  <2> HIDE DEF x
  <2> QED
    BY <2>1, <2>2
<1> DEFINE w == World
           v == World'
           s == sd
<1>11. WorksOff(w, v, A)
  BY <1>2, <1>7, <1>8, <1>9, <1>10 DEF WorksOff
<1>12. /\ s \in Decks /\ s.out = << >> /\ PendSound(s) /\ Worldly(w) /\ Journey(s, w) /\ w.loose = {}
       /\ Worldly(v) /\ sd' = s
  BY <1>1, <1>5
<1> HIDE DEF w, v, s
<1>13. Journey(s, v)
  BY <1>11, <1>12, ServeJourney
<1>14. Journey(sd', World')
  BY <1>12, <1>13 DEF v
<1>15. Fitting'
  BY <1>1, StillFitting, TravelFacts
<1>16. ASSUME NEW d \in World'.heard, d.type = "ack"
       PROVE  Announces(World, World', d)
  <2> SUFFICES ASSUME d \notin World.heard, d.id # 0
               PROVE  Announces(World, World', d)
    BY DEF Announces
  <2>1. c = sd.conn /\ \E n \in 1 .. Len(ms) : d = ms[n]
    BY <1>1, HeardMore
  <2>2. PICK n \in 1 .. Len(ms) : d = ms[n]
    BY <2>1
  <2>3. Tidings(c, k, A, d) /\ \A i \in A : Dates(World', i, d)
    BY <1>16, <2>2
  <2> DEFINE x == <<c, Line(c)[k]>>
  <2>4. /\ k # 0 /\ Line(c)[k].type # "hello" /\ d.id = Line(c)[k].id
        /\ Parts(Line(c)[k]) = {} \/ A = Parts(Line(c)[k])
    <3>1. CodeOf(d) = "ack" /\ ~ Safe(CodeOf(d)) /\ CodeOf(d) \notin NotApplied
      BY <1>16 DEF CodeOf, Safe, NotApplied
    <3> QED
      BY <2>3, <3>1 DEF Tidings
  <2>5. x \in World.sent /\ x[1] = World.conn /\ x[2] = Line(c)[k]
    BY <1>2, <2>1, <2>4, WorldIs
  <2> HIDE DEF x
  <2> QED
    BY <2>3, <2>4, <2>5 DEF Announces
<1>17. \A i \in Inputs : Arrived(World, i) => applied'[i] = applied[i]
  <2> TAKE i \in Inputs
  <2> HAVE Arrived(World, i)
  <2>1. CASE i \in A
    <3> DEFINE x == <<c, Line(c)[k]>>
    <3>1. x \in World.sent /\ A = Parts(x[2]) /\ Alone(Flying(sd, World), World)
      BY <1>1, <1>2, <1>6, <2>1 DEF Journey, Loads
    <3> HIDE DEF x
    <3>2. Aboard(Flying(sd, World), i)
      BY <2>1, <3>1 DEF Flying, Aboard
    <3>3. World.applied[i] = << >> /\ Len(<< >>) = 0
      BY <3>1, <3>2 DEF Alone
    <3> QED
      BY <3>3 DEF Arrived
  <2>2. CASE i \notin A
    BY <2>2
  <2> QED
    BY <2>1, <2>2
<1>18. Means(sd', World', Done')
  BY <1>5, <1>14, <1>16, <1>17, MeansOn
<1> QED
  BY <1>3, <1>4, <1>14, <1>15, <1>18 DEF Meaningful

(* A step that applies nothing.                                            *)
LEMMA QuietHistory ==
  ASSUME JourneyInv, LinkInv', UNCHANGED <<applied, pressed>>,
         (inst' = inst /\ cur.rev <= cur'.rev) \/ inst' = inst + 1
  PROVE  AppliedWhereItWasMade' /\ AppliedInOrder' /\ Latest' /\ AppliedTyped'
<1>1. AppliedWhereItWasMade /\ AppliedInOrder /\ Latest /\ AppliedTyped /\ LinkInv
  BY TravelFacts DEF JourneyInv
<1>2. inst \in Nat /\ cur.rev \in Nat /\ cur'.rev \in Nat
  BY <1>1, LinkFacts, RevisionIs DEF LinkInv, LinkTyped, ServerTyped
<1>3. Latest'
  <2> SUFFICES ASSUME NEW i \in Inputs, NEW n \in DOMAIN applied[i]
               PROVE  LET a == applied[i][n]
                      IN a \in Acks /\ (a.inst < inst' \/ (a.inst = inst' /\ a.rev <= cur'.rev))
    BY DEF Latest
  <2> DEFINE a == applied[i][n]
  <2>1. a \in Acks /\ (a.inst < inst \/ (a.inst = inst /\ a.rev <= cur.rev))
    BY <1>1 DEF Latest
  <2>2. a.inst \in Nat /\ a.rev \in Nat
    BY <2>1 DEF Acks
  <2> HIDE DEF a
  <2> QED
    BY <1>2, <2>1, <2>2 DEF a
<1>4. AppliedWhereItWasMade' /\ AppliedTyped'
  BY <1>1 DEF AppliedWhereItWasMade, AppliedTyped
<1>5. AppliedInOrder'
  BY <1>1 DEF AppliedInOrder, Before
<1> QED
  BY <1>3, <1>4, <1>5

LEMMA QuietTravels ==
  ASSUME JourneyInv, ServerNext, UNCHANGED plugin, Serves, UNCHANGED applied,
         NEW c \in Conns, NEW k \in Nat, TakesOff(c, k),
         NEW ms \in Seq(DownMessages), down' \in {down, Told(c, ms)},
         \A n \in 1 .. Len(ms) : ms[n].type \in {"ack", "error"} => Tidings(c, k, {}, ms[n])
  PROVE  JourneyInv'
<1>1. CacheInv' /\ LinkInv' /\ UNCHANGED pressed
  BY ServerKeepsCache, TravelFacts DEF CacheInv, plugin
<1>2. AppliedWhereItWasMade' /\ AppliedInOrder' /\ Latest' /\ AppliedTyped'
  BY <1>1, QuietHistory DEF Serves
<1>3. \A i \in Inputs : IF i \in {} THEN Len(applied'[i]) = 1 ELSE applied'[i] = applied[i]
  OBVIOUS
<1> DEFINE A == {}
<1>4. A \in SUBSET Inputs /\ (A = {} \/ (k = 1 /\ A = Parts(Line(c)[k])))
      /\ \A i \in Inputs : IF i \in A THEN Len(applied'[i]) = 1 ELSE applied'[i] = applied[i]
  BY <1>3
<1>5. \A n \in 1 .. Len(ms) : ms[n].type \in {"ack", "error"} => Tidings(c, k, A, ms[n])
  OBVIOUS
<1>6. \A i \in A, n \in 1 .. Len(ms) : ms[n].type = "ack" => Dates(World', i, ms[n])
  OBVIOUS
<1> HIDE DEF A
<1>7. Journey(sd', World') /\ Wired' /\ Numbered' /\ Meaningful'
  BY <1>1, <1>2, <1>4, <1>5, <1>6, WorkTravels
<1> QED
  BY <1>1, <1>2, <1>7 DEF JourneyInv, Travelled

LEMMA NothingIsTaken ==
  ASSUME NEW c \in Conns,
         \A d \in Conns : client'[d].pending = client[d].pending /\ up'[d] = up[d]
  PROVE  TakesOff(c, 0)
BY DEF TakesOff, Line

LEMMA EditTravels ==
  ASSUME JourneyInv, ServerNext, UNCHANGED plugin, Serves, UNCHANGED <<applied, client, up, down>>
  PROVE  JourneyInv'
<1>1. 1 \in Conns
  BY WireAssumption DEF Conns
<1> DEFINE ms == << >>
           c == 1
           k == 0
<1>2. ms \in Seq(DownMessages) /\ Len(ms) = 0 /\ k \in Nat /\ c \in Conns
  BY <1>1
<1> HIDE DEF c
<1>3. TakesOff(c, k)
  BY <1>2, NothingIsTaken
<1>4. \A n \in 1 .. Len(ms) : ms[n].type \in {"ack", "error"} => Tidings(c, k, {}, ms[n])
  BY <1>2
<1>5. down' \in {down, Told(c, ms)} /\ UNCHANGED applied
  OBVIOUS
<1> HIDE DEF ms, k
<1> QED
  BY <1>2, <1>3, <1>4, <1>5, QuietTravels

LEMMA ReceiveTravels ==
  ASSUME JourneyInv, ServerNext, UNCHANGED plugin, NEW c \in Conns, Receive(c), Serves
  PROVE  JourneyInv'
<1>1. ServerTyped /\ WireTyped /\ Unopened /\ conns \in Nat
  BY TravelFacts, LinkFacts
<1>2. /\ client[c] \in Clients /\ client \in [Conns -> Clients] /\ up[c] # << >>
      /\ up \in [Conns -> Seq(UpMessages)] /\ client[c].pending \in Seq(UpMessages)
  BY <1>1, NotesIs, ClientIs DEF ServerTyped, WireTyped, Receive, Reads
<1>3. up' = [up EXCEPT ![c] = Tail(up[c])] /\ down' = down /\ applied' = applied
      /\ client' = [client EXCEPT ![c].pending = Append(client[c].pending, Head(up[c]))]
  BY DEF Receive, Reads
<1> DEFINE p == client[c].pending
           q == up[c]
<1>4. client'[c].pending = Append(p, Head(q)) /\ up'[c] = Tail(q)
      /\ \A d \in Conns : d # c => client'[d] = client[d] /\ up'[d] = up[d]
  BY <1>2, <1>3 DEF Clients
<1>5. p \in Seq(UpMessages) /\ q \in Seq(UpMessages) /\ q # << >>
  BY <1>2
<1> HIDE DEF p, q
<1>6. Append(p, Head(q)) \o Tail(q) = p \o q
  BY <1>5, TailCuts
<1> DEFINE k == 0
<1>7. TakesOff(c, k) /\ k \in Nat
  BY <1>4, <1>6 DEF TakesOff, Line, p, q
<1> HIDE DEF k
<1> DEFINE ms == << >>
<1>8. ms \in Seq(DownMessages) /\ Len(ms) = 0
  OBVIOUS
<1>9. \A n \in 1 .. Len(ms) : ms[n].type \in {"ack", "error"} => Tidings(c, k, {}, ms[n])
  BY <1>8
<1>10. down' \in {down, Told(c, ms)}
  BY <1>3
<1> HIDE DEF ms
<1> QED
  BY <1>3, <1>7, <1>8, <1>9, <1>10, QuietTravels

LEMMA RefuseAtOnceTravels ==
  ASSUME JourneyInv, ServerNext, UNCHANGED plugin, NEW c \in Conns, RefuseAtOnce(c), Serves
  PROVE  JourneyInv'
<1>1. ServerTyped /\ WireTyped /\ Unopened /\ conns \in Nat /\ inst \in Nat /\ cur \in Revisions
  BY TravelFacts, LinkFacts, NotesIs
<1>2. /\ client[c] \in Clients /\ client \in [Conns -> Clients] /\ up[c] # << >>
      /\ up \in [Conns -> Seq(UpMessages)] /\ client[c].pending \in Seq(UpMessages)
      /\ Head(up[c]) \in UpMessages
  BY <1>1, NotesIs, ClientIs, ReadsIs DEF ServerTyped, WireTyped, RefuseAtOnce, Reads
<1>3. up' = [up EXCEPT ![c] = Tail(up[c])] /\ applied' = applied
      /\ (client' = client \/ client' = [client EXCEPT ![c].state = "closed"])
  BY DEF RefuseAtOnce, Reads
<1> DEFINE p == client[c].pending
           q == up[c]
           k == Len(p) + 1
<1>4. /\ \A d \in Conns : client'[d].pending = client[d].pending
      /\ up'[c] = Tail(q) /\ \A d \in Conns : d # c => up'[d] = up[d]
  <2>1. up'[c] = Tail(q) /\ \A d \in Conns : d # c => up'[d] = up[d]
    BY <1>2, <1>3
  <2> DEFINE x == [client[c] EXCEPT !.state = "closed"]
  <2>2. x.pending = client[c].pending
    BY <1>2 DEF Clients
  <2>3. client' = client \/ client' = [client EXCEPT ![c] = x]
    BY <1>2, <1>3
  <2> HIDE DEF x
  <2>4. \A d \in Conns : client'[d].pending = client[d].pending
    BY <1>2, <2>2, <2>3
  <2> QED
    BY <2>1, <2>4
<1>5. p \in Seq(UpMessages) /\ q \in Seq(UpMessages) /\ q # << >> /\ Len(p) \in Nat
  BY <1>2, LenProperties
<1>6. /\ \A d \in Conns : d # c => Line(d)' = Line(d)
      /\ Line(c)' = p \o Tail(q) /\ Line(c) = p \o q
  BY <1>4 DEF Line
<1>7. k \in 1 .. Len(p \o q) /\ (p \o q)[k] = Head(q) /\ Cut(p \o q, k, p \o Tail(q))
  <2> HIDE DEF p, q
  <2> QED
    BY <1>5, TailCuts
<1>8. k \in Nat /\ k # 0
  BY <1>5
<1> HIDE DEF p, q, k
<1>9. TakesOff(c, k) /\ Line(c)[k] = Head(up[c])
  BY <1>6, <1>7, <1>8 DEF TakesOff, q
<1>10. "RATE_LIMITED" \in Codes /\ 0 \in Nat /\ "RATE_LIMITED" \in NotApplied
  BY DEF Codes, NotApplied
<1>11. CASE Head(up[c]).type = "hello"
  <2> DEFINE e == Error(0, "RATE_LIMITED")
             ms == <<e, EndOfStream>>
  <2>1. down' = Told(c, ms)
    BY <1>11 DEF RefuseAtOnce
  <2>2. e \in DownMessages /\ EndOfStream \in DownMessages
    BY <1>1, <1>10, SentIs
  <2>3. e.id = 0 /\ EndOfStream.type \notin {"ack", "error"}
    BY DEF Error, EndOfStream
  <2> HIDE DEF e
  <2>4. ms \in Seq(DownMessages) /\ Len(ms) = 2 /\ ms[1] = e /\ ms[2] = EndOfStream
    BY <2>2, Messages
  <2>5. \A n \in 1 .. Len(ms) : ms[n].type \in {"ack", "error"} => Tidings(c, k, {}, ms[n])
    <3>1. \A n \in 1 .. Len(ms) : n = 1 \/ n = 2
      BY <2>4
    <3> QED
      BY <2>3, <2>4, <3>1 DEF Tidings
  <2> HIDE DEF ms
  <2> QED
    BY <1>3, <1>8, <1>9, <2>1, <2>4, <2>5, QuietTravels
<1>12. CASE Head(up[c]).type # "hello"
  <2> DEFINE e == Error(Head(up[c]).id, "RATE_LIMITED")
             ms == <<e>>
  <2>1. down' = Told(c, ms)
    BY <1>12 DEF RefuseAtOnce
  <2>2. e \in DownMessages
    BY <1>1, <1>2, <1>10, <1>12, UpMessageIs, SentIs
  <2>3. e.id = Line(c)[k].id /\ CodeOf(e) \in NotApplied
    BY <1>9, <1>10 DEF Error, CodeOf
  <2> HIDE DEF e
  <2>4. ms \in Seq(DownMessages) /\ Len(ms) = 1 /\ ms[1] = e
    BY <2>2, Messages
  <2>5. Tidings(c, k, {}, e)
    BY <1>8, <1>9, <1>12, <2>3 DEF Tidings
  <2>6. \A n \in 1 .. Len(ms) : ms[n].type \in {"ack", "error"} => Tidings(c, k, {}, ms[n])
    <3>1. \A n \in 1 .. Len(ms) : n = 1
      BY <2>4
    <3> QED
      BY <2>4, <2>5, <3>1
  <2> HIDE DEF ms
  <2> QED
    BY <1>3, <1>8, <1>9, <2>1, <2>4, <2>6, QuietTravels
<1> QED
  BY <1>11, <1>12

LEMMA RemoveClientTravels ==
  ASSUME JourneyInv, ServerNext, UNCHANGED plugin, NEW c \in Conns, RemoveClient(c), Serves
  PROVE  JourneyInv'
<1>1. ServerTyped /\ WireTyped
  BY TravelFacts, LinkFacts
<1>2. client \in [Conns -> Clients] /\ up \in [Conns -> Seq(UpMessages)]
  BY <1>1 DEF ServerTyped, WireTyped
<1>3. /\ client' = [client EXCEPT ![c] = [NewClient EXCEPT !.state = "closed"]]
      /\ up' = [up EXCEPT ![c] = << >>] /\ down' = down /\ applied' = applied
  BY DEF RemoveClient
<1>4. client'[c].pending = << >> /\ up'[c] = << >>
      /\ \A d \in Conns : d # c => client'[d] = client[d] /\ up'[d] = up[d]
  <2>1. [NewClient EXCEPT !.state = "closed"].pending = << >>
    BY DEF NewClient
  <2> QED
    BY <1>2, <1>3, <2>1
<1>5. << >> \o << >> = << >>
  BY ConcatEmptySeq, EmptySeq
<1> DEFINE k == 0
<1>6. TakesOff(c, k) /\ k \in Nat
  BY <1>4, <1>5 DEF TakesOff, Line
<1> DEFINE ms == << >>
<1>7. ms \in Seq(DownMessages) /\ Len(ms) = 0
  OBVIOUS
<1>8. \A n \in 1 .. Len(ms) : ms[n].type \in {"ack", "error"} => Tidings(c, k, {}, ms[n])
  BY <1>7
<1>9. down' \in {down, Told(c, ms)}
  BY <1>3
<1> HIDE DEF ms, k
<1> QED
  BY <1>3, <1>6, <1>7, <1>8, <1>9, QuietTravels

LEMMA PublishTravels ==
  ASSUME JourneyInv, ServerNext, UNCHANGED plugin, NEW c \in Conns, Publish(c), Serves
  PROVE  JourneyInv'
<1> DEFINE k == Captured(cur, doc)
           p == client[c].published
           m == IF NeedsFullState(p, k) THEN State(inst, k, 0)
                ELSE Delta(k, p.rev, [t \in Changed(p, k) |-> k.val[t]])
           ms == <<m>>
           x == [client[c] EXCEPT !.published = k]
           z == 0
<1>1. ServerTyped /\ WireTyped /\ Unopened /\ conns \in Nat
  BY TravelFacts, LinkFacts
<1>2. k \in Revisions /\ inst \in Nat /\ client[c] \in Clients /\ client \in [Conns -> Clients]
      /\ p \in Revisions \cup {Nothing}
  BY <1>1, NowIs, NotesIs, ClientIs DEF ServerTyped
<1>3. down' = Told(c, ms) /\ client' = [client EXCEPT ![c] = x] /\ UNCHANGED <<applied, up>>
  BY <1>2 DEF Publish
<1>4. x.pending = client[c].pending
  BY <1>2 DEF Clients
<1> HIDE DEF k, x
<1>5. \A d \in Conns : client'[d].pending = client[d].pending /\ up'[d] = up[d]
  BY <1>2, <1>3, <1>4
<1>6. TakesOff(c, z) /\ z \in Nat
  BY <1>5, NothingIsTaken
<1>7. m \in DownMessages /\ m.type \notin {"ack", "error"}
  <2>1. CASE NeedsFullState(p, k)
    <3>1. m = State(inst, k, 0)
      BY <2>1
    <3>2. State(inst, k, 0) \in DownMessages
      BY <1>2, SentIs DEF Codes
    <3> QED
      BY <3>1, <3>2 DEF State
  <2>2. CASE ~ NeedsFullState(p, k)
    <3>1. m = Delta(k, p.rev, [t \in Changed(p, k) |-> k.val[t]])
      BY <2>2
    <3>2. m \in DownMessages
      BY <1>2, <2>2, <3>1, DeltaIs
    <3> QED
      BY <3>1, <3>2 DEF Delta
  <2> QED
    BY <2>1, <2>2
<1> HIDE DEF m
<1>8. ms \in Seq(DownMessages) /\ Len(ms) = 1 /\ ms[1] = m
  BY <1>7, Messages
<1>9. \A n \in 1 .. Len(ms) : ms[n].type \in {"ack", "error"} => Tidings(c, z, {}, ms[n])
  <2>1. \A n \in 1 .. Len(ms) : n = 1
    BY <1>8
  <2> QED
    BY <1>7, <1>8, <2>1
<1> HIDE DEF ms, z
<1> QED
  BY <1>3, <1>6, <1>8, <1>9, QuietTravels

(* One piece of work is done: it is taken off its line.                    *)
LEMMA WorkIsTaken ==
  ASSUME LinkInv, NEW c \in Conns, NEW type, Drains(c, type), NEW k, NEW ms, NEW published,
         Finish(c, k, ms, published)
  PROVE  /\ TakesOff(c, 1) /\ Line(c)[1] = Work(c) /\ down' = Told(c, ms)
         /\ Work(c) \in UpMessages /\ Work(c).type = type /\ (type # "hello" => Work(c).id \in Nat)
<1>1. ServerTyped /\ WireTyped /\ Unopened /\ conns \in Nat
  BY LinkFacts
<1>2. /\ client[c] \in Clients /\ client \in [Conns -> Clients]
      /\ client[c].pending \in Seq(UpMessages) /\ client[c].pending # << >> /\ up[c] \in Seq(UpMessages)
  BY <1>1, NotesIs, ClientIs DEF ServerTyped, Drains
<1> DEFINE x == [client[c] EXCEPT !.pending = Tail(@), !.published = published, !.authenticated = TRUE]
           p == client[c].pending
           q == up[c]
<1>3. client' = [client EXCEPT ![c] = x] /\ up' = up /\ down' = Told(c, ms)
  BY <1>2 DEF Finish
<1>4. x.pending = Tail(p)
  BY <1>2 DEF Clients
<1> HIDE DEF x
<1>5. client'[c].pending = Tail(p) /\ \A d \in Conns : d # c => client'[d] = client[d]
  BY <1>2, <1>3, <1>4
<1>6. Line(c) = p \o q /\ Line(c)' = Tail(p) \o q /\ \A d \in Conns : d # c => Line(d)' = Line(d)
  BY <1>3, <1>5 DEF Line
<1>7. p \in Seq(UpMessages) /\ q \in Seq(UpMessages) /\ p # << >>
  BY <1>2
<1>8. Head(p) = Work(c)
  BY DEF Work
<1> HIDE DEF p, q
<1>9. 1 \in 1 .. Len(p \o q) /\ (p \o q)[1] = Head(p) /\ Cut(p \o q, 1, Tail(p) \o q)
  BY <1>7, TailCuts
<1>10. TakesOff(c, 1) /\ Line(c)[1] = Work(c)
  BY <1>6, <1>8, <1>9 DEF TakesOff
<1>11. Work(c) \in UpMessages /\ Work(c).type = type
  BY <1>1, WorkIs
<1> QED
  BY <1>3, <1>10, <1>11, UpMessageIs

(* Work that applies nothing.                                              *)
LEMMA QuietWork ==
  ASSUME JourneyInv, ServerNext, UNCHANGED plugin, Serves, UNCHANGED applied,
         NEW c \in Conns, NEW type, Drains(c, type),
         NEW k, NEW ms \in Seq(DownMessages), NEW published, Finish(c, k, ms, published),
         \A n \in 1 .. Len(ms) :
           \/ ms[n].type \notin {"ack", "error"}
           \/ type # "hello" /\ ms[n].id = Work(c).id
                /\ (Safe(CodeOf(ms[n])) \/ Parts(Work(c)) = {} \/ CodeOf(ms[n]) \in NotApplied)
  PROVE  JourneyInv'
<1> DEFINE one == 1
<1>1. TakesOff(c, one) /\ Line(c)[one] = Work(c) /\ down' = Told(c, ms) /\ Work(c).type = type
  BY TravelFacts, WorkIsTaken
<1>2. one \in Nat /\ one # 0
  OBVIOUS
<1> HIDE DEF one
<1>3. \A n \in 1 .. Len(ms) : ms[n].type \in {"ack", "error"} => Tidings(c, one, {}, ms[n])
  BY <1>1, <1>2 DEF Tidings
<1> QED
  BY <1>1, <1>2, <1>3, QuietTravels

(* An edit is applied: its inputs came from where they were made, in their *)
(* turn.                                                                   *)
LEMMA AppliedTravels ==
  ASSUME JourneyInv, LinkInv', UNCHANGED <<inst, pressed>>, cur.rev <= cur'.rev,
         NEW c \in Conns, client[c].state = "open", NEW m \in EditCommands, <<c, m>> \in World.sent,
         m.session = cur'.session,
         LET here == [inst |-> inst, session |-> cur'.session, rev |-> cur'.rev]
         IN applied' = [i \in Inputs |-> IF i \in m.parts THEN Append(applied[i], here) ELSE applied[i]]
  PROVE  /\ AppliedWhereItWasMade' /\ AppliedInOrder' /\ Latest' /\ AppliedTyped'
         /\ m.parts \subseteq Inputs
         /\ \A i \in Inputs : IF i \in m.parts THEN Len(applied'[i]) = 1 ELSE applied'[i] = applied[i]
<1> DEFINE here == [inst |-> inst, session |-> cur'.session, rev |-> cur'.rev]
           A == m.parts
           x == <<c, m>>
           F == Flying(sd, World)
<1>1. /\ AppliedWhereItWasMade /\ AppliedInOrder /\ Latest /\ AppliedTyped /\ LinkInv
      /\ sd.out = << >> /\ Journey(sd, World)
  BY TravelFacts DEF JourneyInv, Travelled
<1>2. Alone(F, World) /\ Stamped(F, World) /\ Ranked(F, World)
  BY <1>1 DEF Journey, Loads
<1>3. x \in F /\ x[1] = c /\ Parts(x[2]) = A
  <2>1. m.type = "command" /\ m.op # "requestState"
    BY DEF EditCommands
  <2> QED
    BY <2>1 DEF Flying, Parts
<1>4. /\ World.applied = applied /\ World.pressed = pressed /\ World.inst = inst /\ c \in World.alive
  BY WorldIs
<1>5. /\ inst \in Nat /\ cur \in Revisions /\ cur' \in Revisions
      /\ cur.rev \in Nat /\ cur'.rev \in Nat /\ cur'.session \in Nat
  BY <1>1, LinkFacts, RevisionIs DEF LinkInv, LinkTyped, ServerTyped
<1>6. here \in Acks /\ here.inst = inst /\ here.session = cur'.session /\ here.rev = cur'.rev
  BY <1>5 DEF Acks
<1>7. \A i \in A : /\ i \in Inputs /\ pressed[i].conn = c /\ pressed[i].session = m.session
                   /\ pressed[i].inst = inst /\ Aboard(F, i) /\ applied[i] = << >>
  <2> TAKE i \in A
  <2> HIDE DEF x, F
  <2>1. /\ i \in Inputs /\ World.pressed[i].conn = x[1] /\ World.pressed[i].session = x[2].session
        /\ x[1] \in World.alive => World.pressed[i].inst = World.inst
    BY <1>2, <1>3 DEF Stamped
  <2>2. Aboard(F, i)
    BY <1>3 DEF Aboard
  <2>3. applied[i] = << >>
    BY <1>2, <1>4, <2>1, <2>2 DEF Alone
  <2>4. x[2] = m
    BY DEF x
  <2> QED
    BY <1>3, <1>4, <2>1, <2>2, <2>3, <2>4
<1> HIDE DEF x, F
<1>8. applied' = [i \in Inputs |-> IF i \in A THEN Append(applied[i], here) ELSE applied[i]]
  OBVIOUS
<1> HIDE DEF here
<1>9. \A i \in A : applied'[i] = <<here>> /\ DOMAIN applied'[i] = {1} /\ applied'[i][1] = here
  <2>1. Append(<< >>, here) = <<here>> /\ DOMAIN <<here>> = {1} /\ <<here>>[1] = here
    OBVIOUS
  <2> QED
    BY <1>7, <1>8, <2>1
<1>10. \A i \in Inputs : i \notin A => applied'[i] = applied[i]
  BY <1>8
<1> HIDE DEF A
<1>11. \A a : a \in Acks /\ (a.inst < inst \/ (a.inst = inst /\ a.rev <= cur.rev)) => Before(a, here)
  BY <1>5, <1>6 DEF Before, Acks
<1>12. AppliedTyped'
  <2>1. \A i \in Inputs : applied'[i] \in Seq(Acks)
    <3>1. <<here>> \in Seq(Acks)
      BY <1>6
    <3> QED
      BY <1>1, <1>9, <1>10, <3>1 DEF AppliedTyped
  <2> QED
    BY <1>8, <2>1 DEF AppliedTyped
<1>13. AppliedWhereItWasMade'
  <2> SUFFICES ASSUME NEW i \in Inputs, NEW n \in DOMAIN applied'[i]
               PROVE  applied'[i][n].inst = pressed[i].inst /\ applied'[i][n].session = pressed[i].session
    BY DEF AppliedWhereItWasMade
  <2>1. CASE i \in A
    BY <1>6, <1>7, <1>9, <2>1
  <2>2. CASE i \notin A
    BY <1>1, <1>10, <2>2 DEF AppliedWhereItWasMade
  <2> QED
    BY <2>1, <2>2
<1>14. Latest'
  <2> SUFFICES ASSUME NEW i \in Inputs, NEW n \in DOMAIN applied'[i]
               PROVE  LET a == applied'[i][n]
                      IN a \in Acks /\ (a.inst < inst \/ (a.inst = inst /\ a.rev <= cur'.rev))
    BY DEF Latest
  <2>1. CASE i \in A
    <3>1. applied'[i][n] = here
      BY <1>9, <2>1
    <3>2. here \in Acks /\ here.inst = inst /\ here.rev <= cur'.rev
      BY <1>5, <1>6
    <3> QED
      BY <3>1, <3>2
  <2>2. CASE i \notin A
    <3> DEFINE a == applied'[i][n]
    <3>1. a \in Acks /\ (a.inst < inst \/ (a.inst = inst /\ a.rev <= cur.rev))
      BY <1>1, <1>10, <2>2 DEF Latest
    <3>2. a.rev \in Nat
      BY <3>1 DEF Acks
    <3> HIDE DEF a
    <3> QED
      BY <1>5, <3>1, <3>2 DEF a
  <2> QED
    BY <2>1, <2>2
<1>15. AppliedInOrder'
  <2> SUFFICES ASSUME NEW i \in Inputs, NEW j \in Inputs, Input[i].target = Input[j].target,
                      pressed[i].conn = pressed[j].conn, pressed[i].n < pressed[j].n,
                      NEW n \in DOMAIN applied'[i], NEW h \in DOMAIN applied'[j]
               PROVE  Before(applied'[i][n], applied'[j][h])
    BY DEF AppliedInOrder
  <2>1. CASE i \notin A /\ j \notin A
    BY <1>1, <1>10, <2>1 DEF AppliedInOrder
  <2>2. CASE i \notin A /\ j \in A
    <3>1. applied'[j][h] = here
      BY <1>9, <2>2
    <3>2. applied'[i][n] = applied[i][n] /\ n \in DOMAIN applied[i]
      BY <1>10, <2>2
    <3> QED
      BY <1>1, <1>11, <3>1, <3>2 DEF Latest
  <2>3. CASE i \in A /\ j \notin A
    <3>1. Precedes(World, i, j)
      BY <1>4 DEF Precedes
    <3>2. applied[j] = << >>
      BY <1>2, <1>4, <1>7, <2>3, <3>1 DEF Ranked
    <3>3. DOMAIN << >> = {}
      OBVIOUS
    <3> QED
      BY <1>10, <2>3, <3>2, <3>3
  <2>4. CASE i \in A /\ j \in A
    <3>1. applied'[i][n] = here /\ applied'[j][h] = here
      BY <1>9, <2>4
    <3>2. Before(here, here)
      BY <1>5, <1>6 DEF Before
    <3> QED
      BY <3>1, <3>2
  <2> QED
    BY <2>1, <2>2, <2>3, <2>4
<1>16. A \subseteq Inputs /\ \A i \in Inputs : IF i \in A THEN Len(applied'[i]) = 1 ELSE applied'[i] = applied[i]
  <2>1. Len(<<here>>) = 1
    OBVIOUS
  <2> QED
    BY <1>7, <1>9, <1>10, <2>1
<1> QED
  BY <1>12, <1>13, <1>14, <1>15, <1>16 DEF A

LEMMA RefusesTravels ==
  ASSUME JourneyInv, ServerNext, UNCHANGED plugin, Serves, NEW c \in Conns, Drains(c, "command"),
         NEW code \in {"COMMAND_EXPIRED", "SESSION_CHANGED", "REVISION_CONFLICT", "NOT_FOUND"},
         Refuses(c, code)
  PROVE  JourneyInv'
<1> DEFINE k == Captured(cur, doc)
           e == Error(Work(c).id, code)
           ms == <<e>>
           published == client[c].published
<1>1. Finish(c, k, ms, published) /\ applied' = applied
  BY DEF Refuses
<1>2. Work(c).id \in Nat /\ inst \in Nat /\ k \in Revisions /\ LinkInv
  <2>1. ServerTyped /\ WireTyped /\ Unopened /\ conns \in Nat /\ LinkInv
    BY TravelFacts, LinkFacts
  <2> QED
    BY <2>1, NotesIs, NowIs, WorkIs, UpMessageIs
<1>3. code \in Codes /\ (Safe(code) \/ code \in NotApplied)
  BY DEF Codes, Safe, NotApplied
<1> HIDE DEF k, published
<1>4. e \in DownMessages
  BY <1>2, <1>3, SentIs
<1>5. e.id = Work(c).id /\ CodeOf(e) = code
  BY DEF Error, CodeOf
<1> HIDE DEF e
<1>6. ms \in Seq(DownMessages) /\ Len(ms) = 1 /\ ms[1] = e
  BY <1>4, Messages
<1>7. \A n \in 1 .. Len(ms) :
           \/ ms[n].type \notin {"ack", "error"}
           \/ "command" # "hello" /\ ms[n].id = Work(c).id
                /\ (Safe(CodeOf(ms[n])) \/ Parts(Work(c)) = {} \/ CodeOf(ms[n]) \in NotApplied)
  <2>1. \A n \in 1 .. Len(ms) : n = 1
    BY <1>6
  <2> QED
    BY <1>3, <1>5, <1>6, <2>1
<1> HIDE DEF ms
<1> QED
  BY <1>1, <1>6, <1>7, QuietWork

LEMMA DrainEditTravels ==
  ASSUME JourneyInv, ServerNext, UNCHANGED plugin, Serves, NEW c \in Conns, DrainEdit(c)
  PROVE  JourneyInv'
<1> DEFINE m == Work(c)
           k == Captured(cur, doc)
           v == IF m.op = "set" THEN m.value ELSE Effect("toggle", doc.val[m.target], 1)
           d == [doc EXCEPT !.val[m.target] = v]
           after == Captured(k, d)
           here == [inst |-> inst, session |-> after.session, rev |-> after.rev]
           a == Ack(m.id, after)
           ms == <<a>>
           published == client[c].published
<1>1. Drains(c, "command") /\ m.op # "requestState" /\ client[c].state = "open"
  BY DEF DrainEdit, Drains
<1>2. LinkInv /\ ServerTyped /\ WireTyped /\ Unopened /\ conns \in Nat
  BY TravelFacts, LinkFacts
<1>3. m \in EditCommands /\ m.id \in Nat
  BY <1>1, <1>2, WorkIs, UpMessageIs
<1>4. CASE \E code \in {"SESSION_CHANGED", "REVISION_CONFLICT", "NOT_FOUND"} : Refuses(c, code)
  BY <1>1, <1>4, RefusesTravels
<1>5. CASE ~ \E code \in {"SESSION_CHANGED", "REVISION_CONFLICT", "NOT_FOUND"} : Refuses(c, code)
  <2>1. /\ m.session = k.session /\ m.target \in k.has /\ doc' = d /\ Finish(c, after, ms, published)
        /\ applied' = [i \in Inputs |-> IF i \in m.parts THEN Append(applied[i], here) ELSE applied[i]]
    <3>1. ~ Refuses(c, "SESSION_CHANGED") /\ ~ Refuses(c, "REVISION_CONFLICT")
          /\ ~ Refuses(c, "NOT_FOUND")
      BY <1>5
    <3> QED
      BY <3>1 DEF DrainEdit
  <2>2. cur' = after /\ UNCHANGED <<inst, pressed>> /\ CacheInv' /\ LinkInv'
    <3>1. CacheInv' /\ LinkInv'
      BY TravelFacts, ServerKeepsCache DEF CacheInv
    <3> HIDE DEF after
    <3> QED
      BY <2>1, <3>1 DEF Finish, plugin
  <2>3. k \in Revisions /\ k.session = doc.session
    BY <1>2, NowIs
  <2>4. after.session = m.session
    <3>1. after.session = d.session /\ d.session = doc.session
      <4>1. doc \in Docs
        BY <1>2, NotesIs
      <4>2. d.session = doc.session
        BY <4>1 DEF Docs
      <4>3. after.session = d.session
        <5> HIDE DEF k, d
        <5> QED
          BY DEF Captured
      <4> QED
        BY <4>2, <4>3
    <3> QED
      BY <2>1, <2>3, <3>1
  <2> HIDE DEF k, d, after
  <2> DEFINE one == 1
  <2>5. /\ TakesOff(c, one) /\ Line(c)[one] = m /\ down' = Told(c, ms) /\ one \in Nat /\ one # 0
    BY <1>1, <1>2, <2>1, WorkIsTaken
  <2>6. <<c, m>> \in World.sent
    <3> PICK h : h = one
      OBVIOUS
    <3>1. h \in 1 .. Len(Line(c)) /\ <<c, m>> = <<c, Line(c)[h]>> /\ m.type # "hello"
      BY <1>3, <2>5 DEF TakesOff, EditCommands
    <3> DEFINE y == <<c, m>>
    <3>2. y = <<c, Line(c)[h]>> /\ y[2].type # "hello"
      BY <3>1
    <3>3. OnItsWay(y, c, h)
      BY <3>2 DEF OnItsWay
    <3> HIDE DEF y
    <3>4. y \in World.sent
      BY <3>1, <3>3, WorldIs
    <3> QED
      BY <3>4 DEF y
  <2>7. Parts(m) = m.parts
    BY <1>3 DEF Parts, EditCommands
  <2>8. cur.rev <= cur'.rev /\ cur'.session = m.session
    BY <2>2, <2>4 DEF Serves
  <2>9. cur' \in Revisions /\ inst \in Nat
    BY <1>2, NotesIs DEF Serves, ServerTyped
  <2> DEFINE x == m
             A == x.parts
  <2>10. x \in EditCommands /\ <<c, x>> \in World.sent /\ x.session = cur'.session
         /\ LET entry == [inst |-> inst, session |-> cur'.session, rev |-> cur'.rev]
            IN applied' = [i \in Inputs |-> IF i \in x.parts THEN Append(applied[i], entry) ELSE applied[i]]
    BY <1>3, <2>1, <2>2, <2>6, <2>8
  <2> HIDE DEF x
  <2>11. /\ AppliedWhereItWasMade' /\ AppliedInOrder' /\ Latest' /\ AppliedTyped'
         /\ A \subseteq Inputs
         /\ \A i \in Inputs : IF i \in A THEN Len(applied'[i]) = 1 ELSE applied'[i] = applied[i]
    BY <1>1, <2>2, <2>8, <2>10, AppliedTravels
  <2>12. /\ a \in DownMessages /\ a.id = m.id /\ CodeOf(a) = "ack"
         /\ a.session = cur'.session /\ a.rev = cur'.rev
    <3>1. a = Ack(m.id, cur')
      BY <2>2
    <3>2. a \in DownMessages
      BY <1>3, <2>9, <3>1, SentIs DEF Codes
    <3> QED
      BY <3>1, <3>2 DEF Ack, CodeOf
  <2> HIDE DEF a
  <2>13. ms \in Seq(DownMessages) /\ Len(ms) = 1 /\ ms[1] = a
    BY <2>12, Messages
  <2>14. A = Parts(Line(c)[one])
    BY <2>5, <2>7 DEF x
  <2>15. \A n \in 1 .. Len(ms) : ms[n].type \in {"ack", "error"} => Tidings(c, one, A, ms[n])
    <3>1. \A n \in 1 .. Len(ms) : n = 1
      BY <2>13
    <3>2. Tidings(c, one, A, a)
      <4>1. Line(c)[one].type # "hello"
        BY <1>3, <2>5 DEF EditCommands
      <4> HIDE DEF A, one
      <4> QED
        BY <2>5, <2>12, <2>14, <4>1 DEF Tidings
    <3> QED
      BY <2>13, <3>1, <3>2
  <2>18. \A i \in A, n \in 1 .. Len(ms) : ms[n].type = "ack" => Dates(World', i, ms[n])
    <3> SUFFICES ASSUME NEW i \in A
                 PROVE  Dates(World', i, a)
      <4>1. \A n \in 1 .. Len(ms) : n = 1
        BY <2>13
      <4> QED
        BY <2>13, <4>1
    <3>1. Len(applied'[i]) = 1 /\ i \in Inputs /\ applied \in [Inputs -> Seq(Acks)]
      BY <2>11, TravelFacts DEF AppliedTyped
    <3> DEFINE p == applied[i]
               entry == [inst |-> inst, session |-> cur'.session, rev |-> cur'.rev]
    <3>2. applied'[i] = Append(p, entry) /\ p \in Seq(Acks)
      BY <2>10, <3>1
    <3>3. entry.session = a.session /\ entry.rev = a.rev
      BY <2>12
    <3> HIDE DEF p, entry
    <3>4. \A n \in DOMAIN applied'[i] : applied'[i][n] = entry
      <4>1. Len(Append(p, entry)) = Len(p) + 1 /\ Append(p, entry)[Len(p) + 1] = entry
            /\ DOMAIN Append(p, entry) = 1 .. Len(p) + 1 /\ Len(p) \in Nat
        BY <3>2
      <4>2. Len(p) = 0
        BY <3>1, <3>2, <4>1
      <4>3. \A n \in DOMAIN applied'[i] : n = Len(p) + 1
        BY <3>2, <4>1, <4>2
      <4> QED
        BY <3>2, <4>1, <4>3
    <3> QED
      BY <3>3, <3>4, NextWorldIs DEF Dates
  <2> HIDE DEF ms
  <2>16. A \in SUBSET Inputs /\ (A = {} \/ (one = 1 /\ A = Parts(Line(c)[one]))) /\ down' \in {down, Told(c, ms)}
    BY <2>5, <2>11, <2>14
  <2> HIDE DEF A, one
  <2>17. Journey(sd', World') /\ Wired' /\ Numbered' /\ Meaningful'
    BY <2>2, <2>5, <2>11, <2>13, <2>15, <2>16, <2>18, WorkTravels
  <2> QED
    BY <2>2, <2>11, <2>17 DEF JourneyInv, Travelled
<1> QED
  BY <1>4, <1>5

LEMMA DrainTravels ==
  ASSUME JourneyInv, ServerNext, UNCHANGED plugin, Serves, NEW c \in Conns, Drain(c)
  PROVE  JourneyInv'
<1> DEFINE k == Captured(cur, doc)
           p == client[c].published
<1>1. k \in Revisions /\ inst \in Nat /\ LinkInv /\ 0 \in Nat
  BY TravelFacts, LinkFacts, NowIs, NotesIs
<1>2. CASE DrainHello(c)
  <2> DEFINE s == State(inst, k, 0)
             ms == <<HelloAck, s>>
             hello == "hello"
  <2>1. Drains(c, hello) /\ Finish(c, k, ms, k) /\ applied' = applied
    BY <1>2 DEF DrainHello
  <2> HIDE DEF k, hello
  <2>2. HelloAck \in DownMessages /\ s \in DownMessages
    BY <1>1, SentIs DEF Codes
  <2>3. s.type \notin {"ack", "error"} /\ HelloAck.type \notin {"ack", "error"}
    BY DEF State, HelloAck
  <2> HIDE DEF s
  <2>4. ms \in Seq(DownMessages) /\ Len(ms) = 2 /\ ms[1] = HelloAck /\ ms[2] = s
    BY <2>2, Messages
  <2>5. \A n \in 1 .. Len(ms) : ms[n].type \notin {"ack", "error"}
    <3>1. \A n \in 1 .. Len(ms) : n = 1 \/ n = 2
      BY <2>4
    <3> QED
      BY <2>3, <2>4, <3>1
  <2> HIDE DEF ms
  <2> QED
    BY <2>1, <2>4, <2>5, QuietWork
<1>3. CASE DrainPing(c)
  <2> DEFINE a == Pong(Work(c).id, k)
             ms == <<a>>
             ping == "ping"
  <2>1. Drains(c, ping) /\ Finish(c, k, ms, p) /\ applied' = applied
    BY <1>3 DEF DrainPing
  <2>2. Work(c).id \in Nat
    BY <1>1, <2>1, WorkIsTaken
  <2> HIDE DEF k, ping
  <2>3. a \in DownMessages
    BY <1>1, <2>2, SentIs DEF Codes
  <2>4. a.type \notin {"ack", "error"}
    BY DEF Pong
  <2> HIDE DEF a
  <2>5. ms \in Seq(DownMessages) /\ Len(ms) = 1 /\ ms[1] = a
    BY <2>3, Messages
  <2>6. \A n \in 1 .. Len(ms) : ms[n].type \notin {"ack", "error"}
    <3>1. \A n \in 1 .. Len(ms) : n = 1
      BY <2>5
    <3> QED
      BY <2>4, <2>5, <3>1
  <2> HIDE DEF ms
  <2> QED
    BY <2>1, <2>5, <2>6, QuietWork
<1>4. CASE DrainExpired(c)
  BY <1>4, RefusesTravels DEF DrainExpired
<1>5. CASE DrainRequestState(c)
  <2> DEFINE a == Ack(Work(c).id, k)
             s == State(inst, k, Work(c).id)
             ms == <<a, s>>
             command == "command"
  <2>1. Drains(c, command) /\ Work(c).op = "requestState" /\ Finish(c, k, ms, k) /\ applied' = applied
    BY <1>5 DEF DrainRequestState
  <2>2. Work(c).id \in Nat
    BY <1>1, <2>1, WorkIsTaken
  <2>3. command # "hello"
    OBVIOUS
  <2> HIDE DEF k, command
  <2>4. a \in DownMessages /\ s \in DownMessages
    BY <1>1, <2>2, SentIs DEF Codes
  <2>5. s.type \notin {"ack", "error"} /\ a.id = Work(c).id
    BY DEF State, Ack
  <2>6. Parts(Work(c)) = {}
    BY <2>1 DEF Parts
  <2> HIDE DEF a, s
  <2>7. ms \in Seq(DownMessages) /\ Len(ms) = 2 /\ ms[1] = a /\ ms[2] = s
    BY <2>4, Messages
  <2>8. \A n \in 1 .. Len(ms) :
           \/ ms[n].type \notin {"ack", "error"}
           \/ command # "hello" /\ ms[n].id = Work(c).id
                /\ (Safe(CodeOf(ms[n])) \/ Parts(Work(c)) = {} \/ CodeOf(ms[n]) \in NotApplied)
    <3>1. \A n \in 1 .. Len(ms) : n = 1 \/ n = 2
      BY <2>7
    <3> QED
      BY <2>3, <2>5, <2>6, <2>7, <3>1
  <2> HIDE DEF ms
  <2> QED
    BY <2>1, <2>7, <2>8, QuietWork
<1>6. CASE DrainEdit(c)
  BY <1>6, DrainEditTravels
<1> QED
  BY <1>2, <1>3, <1>4, <1>5, <1>6 DEF Drain

LEMMA ServingTravels ==
  ASSUME JourneyInv, ServerNext, UNCHANGED plugin, ~ Restart
  PROVE  JourneyInv'
<1>1. ServerTyped /\ WireTyped /\ Unopened /\ conns \in Nat /\ UNCHANGED conns
  BY TravelFacts, LinkFacts DEF plugin
<1>2. Serves
  BY <1>1, ServerStepServes
<1>3. CASE UserEdits \/ Capture \/ DrainEnds
  <2>1. UNCHANGED <<applied, client, up, down>>
    BY <1>3 DEF UserEdits, Capture, DrainEnds, wire
  <2> QED
    BY <1>2, <2>1, EditTravels
<1> QED
  BY <1>2, <1>3, ReceiveTravels, RefuseAtOnceTravels, RemoveClientTravels, DrainTravels, PublishTravels
     DEF ServerNext, User, Worker, MessageThread

(* LiveMix is turned off: what waits is refused, for a reason that says    *)
(* nothing of the inputs.                                                  *)
Refusal(c, m) ==
  /\ m.type = "error" /\ CodeOf(m) = "CONTROL_DISABLED"
  /\ m.id = 0 \/ \E j \in 1 .. Len(client[c].pending) : client[c].pending[j].type # "hello"
                                                      /\ m.id = client[c].pending[j].id
Farewells(c) == {m \in DownMessages : m \in Brought(c) \/ m.type \notin {"ack", "error", "state"}
                                      \/ Refusal(c, m)}

LEMMA FarewellIs ==
  ASSUME LinkInv, Restart, NEW c \in Conns, NEW m \in Brought(c)'
  PROVE  m \in Brought(c) \/ m.type \notin {"ack", "error", "state"} \/ Refusal(c, m)
<1> DEFINE P == client[c].pending
           G == Farewells(c)
           refusals == [n \in 1 .. Len(P) |->
                           IF P[n].type = "hello" THEN Error(0, "CONTROL_DISABLED")
                           ELSE Error(P[n].id, "CONTROL_DISABLED")]
           status == IF client[c].authenticated THEN <<ServerStatus>> ELSE << >>
           q == down[c]
           z == <<EndOfStream>>
<1>1. P \in Seq(UpMessages) /\ q \in Seq(DownMessages)
  BY LinkFacts, NotesIs, ClientIs, SMTT(30)
<1>2. down'[c] = q \/ down'[c] = q \o refusals \o status \o z
  BY DEF Restart
<1>3. q \in Seq(G)
  <2>1. Len(q) \in Nat /\ q \in [1 .. Len(q) -> DownMessages]
    BY <1>1, LenProperties
  <2>2. \A n \in 1 .. Len(q) : q[n] \in G
    BY <2>1 DEF Farewells, Brought
  <2> HIDE DEF q, G
  <2>3. q \in [1 .. Len(q) -> G]
    BY <2>1, <2>2
  <2> QED
    BY <2>1, <2>3 DEF Seq
<1>4. refusals \in Seq(G)
  <2>1. Len(P) \in Nat /\ \A n \in 1 .. Len(P) : P[n] \in UpMessages
    BY <1>1, LenProperties, ElementOfSeq
  <2>2. ASSUME NEW n \in 1 .. Len(P)
        PROVE  refusals[n] \in G
    <3> DEFINE e == refusals[n]
               id == IF P[n].type = "hello" THEN 0 ELSE P[n].id
    <3>1. e = Error(id, "CONTROL_DISABLED")
      OBVIOUS
    <3>2. id \in Nat
      BY <2>1, UpMessageIs
    <3>3. id = 0 \/ \E j \in 1 .. Len(P) : P[j].type # "hello" /\ id = P[j].id
      OBVIOUS
    <3> HIDE DEF id, P
    <3>4. e \in DownMessages
      BY <3>1, <3>2 DEF Error, Errors, Codes, DownMessages
    <3>5. e.type = "error" /\ CodeOf(e) = "CONTROL_DISABLED" /\ e.id = id
      BY <3>1 DEF Error, CodeOf
    <3> HIDE DEF e
    <3>6. Refusal(c, e)
      BY <3>3, <3>5 DEF Refusal, P
    <3> QED
      BY <3>4, <3>6 DEF Farewells, e
  <2>3. refusals \in [1 .. Len(P) -> G]
    BY <2>2
  <2> QED
    BY <2>1, <2>3 DEF Seq
<1>5. status \in Seq(G) /\ z \in Seq(G)
  <2>1. ServerStatus \in G /\ EndOfStream \in G
    BY DEF ServerStatus, EndOfStream, DownMessages, Farewells
  <2> HIDE DEF G
  <2> QED
    BY <2>1
<1> HIDE DEF q, refusals, status, z, G
<1>6. q \o refusals \o status \o z \in Seq(G)
  <2>1. q \o refusals \in Seq(G)
    BY <1>3, <1>4, ConcatProperties
  <2>2. q \o refusals \o status \in Seq(G)
    BY <1>5, <2>1, ConcatProperties
  <2> QED
    BY <1>5, <2>2, ConcatProperties
<1>7. PICK n \in 1 .. Len(down'[c]) : m = down'[c][n]
  BY DEF Brought
<1>8. down'[c] \in Seq(G)
  BY <1>2, <1>3, <1>6
<1>9. m \in G
  BY <1>7, <1>8, ElementOfSeq
<1> QED
  BY <1>9 DEF G, Farewells

(* What is left on its way is on connections that are closed.              *)
LEMMA LeftBehind ==
  ASSUME JourneyInv, Restart, UNCHANGED plugin
  PROVE  /\ World'.sent \subseteq World.sent /\ \A c \in Conns : InTurn(Line(c)')
         /\ \A c \in Conns : Len(Line(c)') # 0 => client'[c].state = "closed"
         /\ World'.conn \notin World'.alive
<1>1. LinkInv /\ Wired /\ UNCHANGED <<sd, conns>>
  BY TravelFacts DEF plugin
<1>2. client' = [c \in Conns |-> IF link[c] = "none" THEN client[c]
                                 ELSE [NewClient EXCEPT !.state = "closed"]] /\ up' = up
  BY DEF Restart
<1>3. ASSUME NEW c \in Conns
      PROVE  /\ InTurn(Line(c)') /\ (Len(Line(c)') # 0 => client'[c].state = "closed")
             /\ \A n \in 1 .. Len(Line(c)') : \E j \in 1 .. Len(Line(c)) : (Line(c)')[n] = Line(c)[j]
  <2> DEFINE p == client[c].pending
             q == up[c]
             l == Line(c)
             r == Line(c)'
  <2>1. p \in Seq(UpMessages) /\ q \in Seq(UpMessages) /\ l = p \o q /\ InTurn(l)
    BY <1>1, LineIs DEF Line, Wired
  <2>2. CASE link[c] = "none"
    <3>1. c > conns
      BY <1>1, <2>2, LinkFacts DEF Wired, Conns
    <3>2. q = << >> /\ client[c] = NewClient
      BY <1>1, <3>1, LinkFacts DEF Unopened
    <3>3. p = << >>
      BY <3>2, NewClientIs
    <3>4. r = p \o q
      BY <1>2, <2>2 DEF Line
    <3> HIDE DEF p, q, r, l
    <3>5. r = << >> /\ Len(r) = 0
      BY <2>1, <3>2, <3>3, <3>4, ConcatEmptySeq, EmptySeq
    <3> QED
      BY <3>5 DEF InTurn, r, l
  <2>3. CASE link[c] # "none"
    <3>1. client'[c] = [NewClient EXCEPT !.state = "closed"]
      BY <1>2, <2>3
    <3>2. client'[c].pending = << >> /\ client'[c].state = "closed"
      BY <3>1 DEF NewClient
    <3>3. r = << >> \o q
      BY <1>2, <3>2 DEF Line
    <3> HIDE DEF p, q, r, l
    <3>4. r = q
      BY <2>1, <3>3, ConcatEmptySeq
    <3>5. /\ Len(l) = Len(p) + Len(q) /\ Len(p) \in Nat /\ Len(q) \in Nat
          /\ \A n \in 1 .. Len(q) : l[Len(p) + n] = q[n]
      BY <2>1, ConcatIs
    <3>6. \A n \in 1 .. Len(q) : Len(p) + n \in 1 .. Len(l)
      BY <3>5
    <3>7. InTurn(q)
      <4> SUFFICES ASSUME NEW n \in 1 .. Len(q), NEW k \in 1 .. Len(q), n < k,
                          q[n].type # "hello", q[k].type # "hello"
                   PROVE  q[n].id < q[k].id
        BY DEF InTurn
      <4>1. Len(p) + n < Len(p) + k
        BY <3>5
      <4> QED
        BY <2>1, <3>5, <3>6, <4>1 DEF InTurn
    <3>8. \A n \in 1 .. Len(q) : \E j \in 1 .. Len(l) : q[n] = l[j]
      BY <3>5, <3>6
    <3> QED
      BY <3>2, <3>4, <3>7, <3>8 DEF r, l
  <2> QED
    BY <2>2, <2>3
<1>4. ASSUME NEW x, x \in World'.sent
      PROVE  x \in World.sent
  <2>1. PICK c \in Conns : \E n \in 1 .. Len(Line(c)') : OnItsWay(x, c, n)'
    BY <1>4, NextWorldIs
  <2>2. PICK n \in 1 .. Len(Line(c)') : x = <<c, (Line(c)')[n]>> /\ x[2].type # "hello"
    BY <2>1 DEF OnItsWay
  <2>3. PICK j \in 1 .. Len(Line(c)) : (Line(c)')[n] = Line(c)[j]
    BY <1>3
  <2>4. x = <<c, Line(c)[j]>> /\ x[2].type # "hello"
    BY <2>2, <2>3
  <2>5. OnItsWay(x, c, j)
    BY <2>4 DEF OnItsWay
  <2> QED
    BY <2>5, WorldIs
<1>5. World'.conn \notin World'.alive
  <2> SUFFICES ASSUME sd.conn \in Conns, client'[sd.conn].state = "open"
               PROVE  FALSE
    BY <1>1, NextWorldIs
  <2>1. link[sd.conn] # "none"
    BY <1>1 DEF LinkInv, Linked, Conns
  <2>2. client'[sd.conn].state = "closed"
    BY <1>2, <2>1, NewClientIs
  <2> QED
    BY <2>2
<1> QED
  BY <1>3, <1>4, <1>5

LEMMA RestartTravels ==
  ASSUME JourneyInv, ServerNext, Restart, UNCHANGED plugin
  PROVE  JourneyInv'
<1>1. /\ LinkInv /\ Wired /\ Numbered /\ Worldly(World) /\ World.loose = {}
      /\ sd \in Decks /\ sd.out = << >> /\ PendSound(sd) /\ CacheInv' /\ LinkInv'
      /\ Journey(sd, World) /\ UNCHANGED <<sd, conns, pressed>>
  BY TravelFacts, ServerKeepsCache DEF plugin, JourneyInv, Travelled, CacheInv
<1>2. inst' = inst + 1 /\ UNCHANGED <<applied, up>>
  BY DEF Restart
<1>3. AppliedWhereItWasMade' /\ AppliedInOrder' /\ Latest' /\ AppliedTyped'
  BY <1>1, <1>2, QuietHistory
<1>4. /\ World'.sent \subseteq World.sent /\ \A c \in Conns : InTurn(Line(c)')
      /\ \A c \in Conns : Len(Line(c)') # 0 => client'[c].state = "closed"
      /\ World'.conn \notin World'.alive
  BY LeftBehind
<1>5. Numbered'
  BY <1>1 DEF Numbered
<1>6. Wired'
  <2>1. \A c \in Conns : c <= conns' => link'[c] # "none"
    BY <1>1, ServerLeavesLink DEF Wired
  <2>2. ASSUME NEW c \in Conns, NEW m \in Brought(c)', m.type = "state"
        PROVE  m.inst # 0
    <3>1. m \in Brought(c)
      BY <1>1, <2>2, FarewellIs DEF Refusal
    <3> QED
      BY <1>1, <2>2, <3>1 DEF Wired
  <2> QED
    BY <1>4, <2>1, <2>2 DEF Wired
<1>7. Worldly(World')
  BY <1>1, <1>3, <1>5, NextIsWorldly
<1> DEFINE A == {}
<1>8. ASSUME NEW d \in World'.heard
      PROVE  d.id <= World.seq /\ (d \in World.heard \/ Reports(World, World', A, d))
  <2>1. CASE d \in World.heard
    BY <1>1, <2>1 DEF Journey, Loads, Counted
  <2>2. CASE d \notin World.heard
    <3> PICK c : c = sd.conn
      OBVIOUS
    <3>1. c # 0 /\ d.type \in {"ack", "error"} /\ d \in Brought(c)' /\ c \in Conns
      BY <1>1, NextWorldIs, LinkFacts DEF Brought
    <3>2. d \notin Brought(c)
      BY <2>2, <3>1, WorldIs DEF Brought
    <3>3. Refusal(c, d)
      BY <1>1, <3>1, <3>2, FarewellIs
    <3>4. Safe(CodeOf(d))
      BY <3>3 DEF Refusal, Safe, NotApplied
    <3>5. d.id <= World.seq
      <4>1. World.seq \in Nat /\ World.conn = c
        BY <1>1, WorldIs DEF Worldly
      <4>2. CASE d.id = 0
        BY <4>1, <4>2
      <4>3. ASSUME NEW j \in 1 .. Len(client[c].pending), client[c].pending[j].type # "hello",
                   d.id = client[c].pending[j].id
            PROVE  d.id <= World.seq
        <5> DEFINE p == client[c].pending
                   q == up[c]
                   l == Line(c)
                   x == <<c, p[j]>>
        <5>1. p \in Seq(UpMessages) /\ q \in Seq(UpMessages) /\ l = p \o q
          BY <1>1, <3>1, LineIs DEF Line
        <5>2. j \in 1 .. Len(l) /\ l[j] = p[j]
          <6> HIDE DEF p, q, l
          <6>1. Len(l) = Len(p) + Len(q) /\ Len(p) \in Nat /\ Len(q) \in Nat /\ l[j] = p[j]
            BY <5>1, ConcatIs, <4>3 DEF p
          <6> QED
            BY <6>1, <4>3 DEF p
        <5>3. x = <<c, Line(c)[j]>> /\ x[2].type # "hello" /\ x[1] = c /\ x[2].id = d.id
          BY <4>3, <5>2
        <5> HIDE DEF x
        <5>4. OnItsWay(x, c, j) /\ j \in 1 .. Len(Line(c))
          BY <5>2, <5>3 DEF OnItsWay
        <5>5. x \in World.sent
          BY <3>1, <5>4, WorldIs
        <5>6. x[2].id <= World.seq
          BY <1>1, <4>1, <5>3, <5>5 DEF Journey, Loads, Counted
        <5> QED
          BY <5>3, <5>6
      <4> QED
        BY <3>3, <4>2, <4>3 DEF Refusal
    <3> QED
      BY <3>4, <3>5 DEF Reports
  <2> QED
    BY <2>1, <2>2
<1>9. \A x \in World'.sent : x[1] \notin World'.alive
  <2> TAKE x \in World'.sent
  <2>1. PICK c \in Conns : \E n \in 1 .. Len(Line(c)') : OnItsWay(x, c, n)'
    BY NextWorldIs
  <2>2. PICK n \in 1 .. Len(Line(c)') : x = <<c, (Line(c)')[n]>>
    BY <2>1 DEF OnItsWay
  <2>3. Len(Line(c)') # 0
    BY <1>1, <2>2, NextLineIs, LenProperties
  <2>4. x[1] = c /\ client'[c].state = "closed"
    BY <1>4, <2>2, <2>3
  <2> QED
    BY <2>4, NextWorldIs
<1>10. /\ World'.conn = World.conn /\ World'.seq = World.seq /\ World'.pressed = World.pressed
       /\ World'.made = World.made /\ World'.loose = World.loose
       /\ \A i \in Inputs : IF i \in A THEN Len(World'.applied[i]) = 1
                                       ELSE World'.applied[i] = World.applied[i]
  BY <1>1, <1>2, WorldIs, NextWorldIs
<1> DEFINE w == World
           v == World'
           s == sd
<1>11. WorksOff(w, v, A)
  BY <1>4, <1>8, <1>9, <1>10 DEF WorksOff
<1>12. /\ s \in Decks /\ s.out = << >> /\ PendSound(s) /\ Worldly(w) /\ Journey(s, w) /\ w.loose = {}
       /\ Worldly(v) /\ sd' = s /\ A \in SUBSET Inputs
  BY <1>1, <1>7
<1> HIDE DEF w, v, s, A
<1>13. Journey(s, v)
  BY <1>11, <1>12, ServeJourney
<1>14. Journey(sd', World')
  BY <1>12, <1>13 DEF v
<1>15. Fitting'
  <2> SUFFICES ASSUME NEW c \in Conns, client'[c].state = "open", NEW n \in 1 .. Len(Line(c)')
               PROVE  FALSE
    BY DEF Fitting
  <2>1. Line(c)' \in Seq(UpMessages)
    BY <1>1, NextLineIs
  <2>2. Len(Line(c)') # 0
    BY <2>1
  <2> QED
    BY <1>4, <2>2
<1>16. \A d \in World'.heard : d.type = "ack" => Announces(World, World', d)
  <2> TAKE d \in World'.heard
  <2> HAVE d.type = "ack"
  <2> PICK c : c = sd.conn
    OBVIOUS
  <2>1. c # 0 /\ d \in Brought(c)' /\ c \in Conns
    BY <1>1, NextWorldIs, LinkFacts DEF Brought
  <2>2. d \in Brought(c)
    BY <1>1, <2>1, FarewellIs DEF Refusal
  <2>3. d \in World.heard
    BY <2>1, <2>2, WorldIs DEF Brought
  <2> QED
    BY <2>3 DEF Announces
<1>17. Means(sd', World', Done')
  BY <1>2, <1>7, <1>14, <1>16, MeansOn
<1> QED
  BY <1>1, <1>3, <1>5, <1>6, <1>14, <1>15, <1>17 DEF JourneyInv, Travelled, Meaningful

LEMMA ServerTravels ==
  ASSUME JourneyInv, ServerNext, UNCHANGED plugin
  PROVE  JourneyInv'
BY ServingTravels, RestartTravels

LEMMA NothingTravels ==
  ASSUME JourneyInv, UNCHANGED vars
  PROVE  JourneyInv'
<1>1. UNCHANGED <<sd, conns, pings, pressed, doc, inst, cur, client, scheduled, edits, applied, up, down, link>>
  BY DEF vars, wire, server, plugin
<1>2. CacheInv'
  BY CacheStays DEF JourneyInv
<1>3. World' = World /\ \A c \in Conns : Line(c)' = Line(c) /\ Brought(c)' = Brought(c)
  BY <1>1 DEF World, Line, Carried, Brought
<1>4. Wired' /\ Numbered' /\ Latest' /\ AppliedTyped'
  BY <1>1, <1>3 DEF JourneyInv, Travelled, Wired, Numbered, Latest, AppliedTyped
<1>5. AppliedWhereItWasMade' /\ AppliedInOrder'
  BY <1>1 DEF JourneyInv, AppliedWhereItWasMade, AppliedInOrder
<1>6. Journey(sd', World')
  BY <1>1, <1>3 DEF JourneyInv, Travelled
<1>7. Means(sd', World', Done')
  BY <1>1, <1>3 DEF JourneyInv, Meaningful, Done
<1>8. Fitting'
  BY <1>1, <1>3 DEF JourneyInv, Meaningful, Fitting
<1> QED
  BY <1>2, <1>4, <1>5, <1>6, <1>7, <1>8 DEF JourneyInv, Travelled, Meaningful

LEMMA JourneyStarts ==
  ASSUME Init
  PROVE  JourneyInv
<1>1. CacheInv /\ LinkInv /\ sd = Idle
  BY CacheStarts, LinkStarts DEF Init, DeckInit
<1>2. /\ up = [c \in Conns |-> << >>] /\ down = [c \in Conns |-> << >>]
      /\ client = [c \in Conns |-> NewClient] /\ applied = [i \in Inputs |-> << >>]
      /\ pressed = [i \in Inputs |-> [inst |-> 0, session |-> 0, conn |-> 0, n |-> 0]] /\ conns = 0
  BY DEF Init, WireInit, ServerInit, DeckInit
<1>3. /\ sd.conn = 0 /\ sd.out = << >> /\ sd.promise = [i \in Inputs |-> "new"] /\ sd.pend = {}
      /\ sd.queue = [t \in Targets |-> NoQueue] /\ sd.snap = NoSnap /\ sd.synced = FALSE
      /\ sd.seq = 0 /\ AllTidy(sd)
  <2>1. Fine(sd)
    BY <1>1, LinkFacts
  <2> QED
    BY <1>1, <2>1, FineIs DEF Idle
<1>4. ASSUME NEW c \in Conns
      PROVE  Line(c) = << >> /\ Len(Line(c)) = 0 /\ Brought(c) = {}
  <2>1. << >> \o << >> = << >> /\ Len(<< >>) = 0
    BY ConcatEmptySeq, EmptySeq
  <2> QED
    BY <1>2, <2>1, NewClientIs DEF Line, Brought
<1>5. World.sent = {} /\ World.heard = {} /\ World.made = {}
  <2>1. \A x : x \notin World.sent
    BY <1>4, WorldIs
  <2>2. \A m : m \notin World.heard
    BY <1>3, WorldIs
  <2>3. World.made = {}
    BY <1>3, WorldIs
  <2> QED
    BY <2>1, <2>2, <2>3
<1>6. World.seq = 0 /\ World.conn = 0 /\ World.loose = {} /\ World.applied = applied
  BY <1>3, WorldIs
<1>7. DOMAIN << >> = {} /\ Len(<< >>) = 0
  OBVIOUS
<1>8. AppliedWhereItWasMade /\ AppliedInOrder /\ Latest /\ AppliedTyped
  <2>1. \A i \in Inputs : applied[i] = << >> /\ DOMAIN applied[i] = {}
    BY <1>2, <1>7
  <2>2. << >> \in Seq(Acks)
    OBVIOUS
  <2>3. applied \in [Inputs -> Seq(Acks)]
    BY <1>2, <2>2
  <2> QED
    BY <2>1, <2>3 DEF AppliedWhereItWasMade, AppliedInOrder, Latest, AppliedTyped
<1>9. Numbered
  BY <1>2, <1>3 DEF Numbered
<1>10. Wired
  <2>1. \A c \in Conns : ~ (c <= conns)
    BY <1>2, WireAssumption DEF Conns
  <2> QED
    BY <1>4, <2>1 DEF Wired, InTurn
<1> DEFINE s == sd
           w == World
<1>11. /\ s.out = << >> /\ s.promise = [i \in Inputs |-> "new"] /\ s.pend = {} /\ s.seq = 0
       /\ s.queue = [t \in Targets |-> NoQueue] /\ s.snap = NoSnap /\ s.synced = FALSE /\ AllTidy(s)
  BY <1>3
<1>12. /\ w.sent = {} /\ w.heard = {} /\ w.made = {} /\ w.seq = 0 /\ w.conn = 0 /\ w.loose = {}
       /\ \A i \in Inputs : w.applied[i] = << >>
  BY <1>2, <1>5, <1>6
<1> HIDE DEF s, w
<1>13. Flying(s, w) = {}
  BY <1>7, <1>11, <1>12 DEF Flying
<1>14. Loads(s, w)
  <2>1. Alone({}, w) /\ Stamped({}, w) /\ Ranked({}, w)
    BY <1>7, <1>12 DEF Alone, Stamped, Ranked, Aboard
  <2>2. Counted(s, w)
    BY <1>7, <1>11, <1>12 DEF Counted
  <2> QED
    BY <1>12, <1>13, <2>1, <2>2 DEF Loads
<1>15. Honest(s, w)
  <2>1. \A i \in Inputs : Unsent({}, w, i) /\ s.promise[i] = "new"
    BY <1>11, <1>12 DEF Unsent, Aboard
  <2> QED
    BY <1>12, <1>13, <2>1 DEF Honest, Truly
<1>16. Opened(s, w)
  BY <1>11 DEF Opened, HasSnap, NoSnap
<1>17. \A t \in Targets : Trip(s, w, t)
  BY <1>11, EmptyTrip
<1>18. Journey(sd, World)
  BY <1>14, <1>15, <1>16, <1>17 DEF Journey, s, w
<1>19. Fitting
  BY <1>4 DEF Fitting
<1>20. Means(sd, World, Done)
  <2> DEFINE P == Done
  <2>1. Undone(s, P)
    BY DEF Undone, Done, s
  <2>2. s \in Decks /\ Cleared(s) /\ Heeds(s, w)
    <3>1. s \in Decks
      BY <1>1, LinkFacts, FineIs DEF s
    <3>2. Cleared(s) /\ Heeds(s, w)
      BY <1>11, <1>12 DEF Cleared, Heeds
    <3> QED
      BY <3>1, <3>2
  <2> HIDE DEF P
  <2>3. Means(s, w, P)
    BY <1>11, <2>1, <2>2, ClearedMeans
  <2> QED
    BY <2>3 DEF s, w, P
<1> QED
  BY <1>1, <1>8, <1>9, <1>10, <1>18, <1>19, <1>20 DEF JourneyInv, Travelled, Meaningful

LEMMA JourneyHolds == Spec => []JourneyInv
<1>1. Init => JourneyInv
  BY JourneyStarts
<1>2. JourneyInv /\ [Next]_vars => JourneyInv'
  BY DeckTravels, ServerTravels, NothingTravels DEF Next, Server, Deck
<1> QED
  BY <1>1, <1>2, PTL DEF Spec

(* The commands of the plugin, their answers and what their user is told,  *)
(* over lost connections, requests refused or left unanswered and restarts *)
(* of LiveMix: an input is applied once at most; one reported done was     *)
(* applied, and one refused for a reason that says it was not, was not.    *)
THEOREM EveryReportIsTrue == Spec => []TellsTheTruth
<1>1. ASSUME JourneyInv
      PROVE  TellsTheTruth
  <2> DEFINE F == Flying(sd, World)
  <2>1. Loads(sd, World) /\ Honest(sd, World) /\ World.applied = applied
    BY <1>1, WorldIs DEF JourneyInv, Travelled, Journey
  <2>2. ASSUME NEW i \in Inputs
        PROVE  /\ Len(applied[i]) <= 1
               /\ sd.promise[i] \in {"done", "STATE_TIMEOUT"} => Len(applied[i]) = 1
               /\ sd.promise[i] \in NotApplied => Len(applied[i]) = 0
    <3>1. Len(applied[i]) <= 1
      BY <2>1 DEF Loads, Alone
    <3>2. Truly(F, World, i, sd.promise[i])
      BY <2>1 DEF Honest
    <3>3. Len(<< >>) = 0
      OBVIOUS
    <3> QED
      BY <2>1, <3>1, <3>2, <3>3 DEF Truly, Unsent, Arrived
  <2> QED
    BY <2>2 DEF TellsTheTruth
<1>2. JourneyInv => TellsTheTruth
  BY <1>1
<1> QED
  BY <1>2, JourneyHolds, PTL

(* The session a command carries, the connection it is sent on and the     *)
(* cancelling at a boundary: an input made on one session or one running   *)
(* LiveMix is not applied to the next.                                     *)
THEOREM NoInputGoesAstray == Spec => []AppliedWhereItWasMade
<1>1. JourneyInv => AppliedWhereItWasMade
  BY DEF JourneyInv
<1> QED
  BY <1>1, JourneyHolds, PTL

(* The queue of a target, the connection and the queue of LiveMix: inputs  *)
(* on one target are applied in the order they were made, as long as the   *)
(* connection is the same.                                                 *)
THEOREM NoInputOvertakes == Spec => []AppliedInOrder
<1>1. JourneyInv => AppliedInOrder
  BY DEF JourneyInv
<1> QED
  BY <1>1, JourneyHolds, PTL

(* What a callback reports done it has seen, in what it shows.             *)
LEMMA ReportsWhatIsShown ==
  ASSUME JourneyInv, Next, NEW i \in Inputs, sd'.promise[i] = "done", sd.promise[i] # "done"
  PROVE  Ready(sd') /\ \A n \in DOMAIN applied[i] : sd'.snap.inst = applied[i][n].inst
                                                    /\ sd'.snap.rev >= applied[i][n].rev
<1>1. DeckNext /\ UNCHANGED server
  BY DEF Next, Server, Deck, plugin
<1>2. ~ Connect
  BY <1>1, ConnectJourney
<1>3. PICK r, u : Goes(r, u)
  <2>1. ASSUME NEW j \in Inputs, Press(j)
        PROVE  \E r, u : Goes(r, u)
    BY <1>1, <2>1, PressGoes
  <2>2. CASE \A j \in Inputs : ~ Press(j)
    BY <1>1, <1>2, <2>2, RestGoes
  <2> QED
    BY <2>1, <2>2
<1>4. r \in Decks /\ Becomes(r) /\ Shown(r, World, Done)
  BY <1>3, FineIs DEF Goes, Means
<1>5. /\ sd'.promise = r.promise /\ sd'.snap = r.snap /\ sd'.status = r.status /\ sd'.synced = r.synced
  BY <1>4 DEF Becomes, Decks
<1>6. World.applied = applied /\ i \notin Done
  BY WorldIs DEF Done
<1> HIDE DEF World, Done
<1> QED
  BY <1>4, <1>5, <1>6 DEF Shown, Ready

(* LiveMix applies a computed value only while it has what the deck        *)
(* computed it from: a revision is looked up before the edit.              *)
LEMMA EditIsCurrent ==
  ASSUME JourneyInv, NEW c \in Conns, DrainEdit(c), applied' # applied
  PROVE  \E parts \in SUBSET Inputs :
           /\ parts = {i \in Inputs : applied'[i] # applied[i]}
           /\ \A i \in parts : doc'.val[Input[i].target] =
                                 Effect(Input[i].kind, doc.val[Input[i].target], Cardinality(parts))
<1> DEFINE m == Work(c)
           k == Captured(cur, doc)
           t == m.target
           v == IF m.op = "set" THEN m.value ELSE Effect("toggle", doc.val[t], 1)
           d == [doc EXCEPT !.val[t] = v]
           after == Captured(k, d)
           here == [inst |-> inst, session |-> after.session, rev |-> after.rev]
           ms == <<Ack(m.id, after)>>
<1>1. Drains(c, "command") /\ m.op # "requestState" /\ client[c].state = "open"
  BY DEF DrainEdit, Drains
<1>2. /\ LinkInv /\ ServerTyped /\ WireTyped /\ Unopened /\ conns \in Nat /\ Fitting /\ AppliedTyped
      /\ doc \in Docs /\ cur \in Revisions
  BY TravelFacts, LinkFacts DEF ServerTyped
<1>3. m \in EditCommands
  BY <1>1, <1>2, WorkIs, UpMessageIs
<1>4. /\ ~ Stale(m, k) /\ doc' = d /\ Finish(c, after, ms, client[c].published)
      /\ applied' = [i \in Inputs |-> IF i \in m.parts THEN Append(applied[i], here) ELSE applied[i]]
  BY DEF DrainEdit, Refuses
<1>5. Fits(cur, m)
  <2>1. TakesOff(c, 1) /\ Line(c)[1] = m
    BY <1>1, <1>2, <1>4, WorkIsTaken
  <2>2. 1 \in 1 .. Len(Line(c))
    BY <2>1 DEF TakesOff
  <2> QED
    BY <1>1, <1>2, <2>1, <2>2 DEF Fitting
<1>6. /\ cur.rev <= k.rev /\ (cur.rev = k.rev => k = cur) /\ cur.rev \in Nat /\ k.rev \in Nat
      /\ Content(k) = doc
  BY <1>2, NowIs, CapturedIs
<1>7. doc'.val[t] = v /\ t \in Targets /\ m.parts \subseteq Inputs
  BY <1>2, <1>3, <1>4 DEF EditCommands, Docs, Values
<1>8. \A i \in Inputs : applied'[i] # applied[i] <=> i \in m.parts
  <2> HIDE DEF here
  <2>1. \A p \in Seq(Acks) : Append(p, here) # p
    <3> TAKE p \in Seq(Acks)
    <3>1. Len(Append(p, here)) = Len(p) + 1 /\ Len(p) \in Nat
      OBVIOUS
    <3> QED
      BY <3>1
  <2> QED
    BY <1>2, <1>4, <2>1 DEF AppliedTyped
<1> DEFINE x == m
           z == v
<1>9. ASSUME NEW i \in m.parts
      PROVE  doc'.val[Input[i].target] = Effect(Input[i].kind, doc.val[Input[i].target], Cardinality(m.parts))
  <2>1. Input[i].target = t /\ i \in Parts(m)
    BY <1>1, <1>3, <1>5 DEF Fits, Parts, EditCommands
  <2>2. CASE Computed(Input[i].kind)
    <3>1. /\ m.op = "set" /\ m.ifRevision \in 1 .. cur.rev
          /\ m.ifRevision = cur.rev => m.value = Effect(Input[i].kind, cur.val[t], Cardinality(m.parts))
      BY <1>5, <2>1, <2>2 DEF Fits
    <3>2. m.ifRevision = k.rev
      BY <1>4, <3>1 DEF Stale
    <3>3. m.ifRevision = cur.rev /\ k = cur
      <4> HIDE DEF k, m
      <4> QED
        BY <1>6, <3>1, <3>2
    <3>4. cur.val = doc.val
      <4> HIDE DEF k
      <4>1. Content(cur) = doc
        BY <1>6, <3>3
      <4> QED
        BY <4>1 DEF Content
    <3>5. v = m.value
      BY <3>1
    <3> HIDE DEF m, v, t
    <3> QED
      BY <1>7, <2>1, <3>1, <3>3, <3>4, <3>5
  <2>3. CASE ~ Computed(Input[i].kind)
    <3>1. m.op = "toggle"
      BY <1>5, <2>1, <2>3 DEF Fits
    <3>2. v = Effect("toggle", doc.val[t], 1)
      BY <3>1
    <3>3. Input[i].kind = "toggle"
      BY <2>3 DEF Computed
    <3> HIDE DEF m, v, t
    <3> QED
      BY <1>7, <2>1, <3>2, <3>3 DEF Effect
  <2> QED
    BY <2>2, <2>3
<1> WITNESS m.parts \in SUBSET Inputs
<1> QED
  BY <1>7, <1>8, <1>9

LEMMA EditsAreCurrent ==
  ASSUME JourneyInv, Next
  PROVE  LET now == {i \in Inputs : applied'[i] # applied[i]}
         IN \A i \in now : doc'.val[Input[i].target] =
                             Effect(Input[i].kind, doc.val[Input[i].target], Cardinality(now))
<1>1. CASE applied' = applied
  BY <1>1
<1>2. CASE applied' # applied
  <2>1. ServerNext
    BY <1>2 DEF Next, Server, Deck, server
  <2>2. PICK c \in Conns : Drain(c)
    BY <1>2, <2>1 DEF ServerNext, User, UserEdits, Restart, Worker, Receive, RefuseAtOnce, Reads, RemoveClient,
                      MessageThread, Capture, DrainEnds, Publish
  <2>3. DrainEdit(c)
    BY <1>2, <2>2 DEF Drain, DrainHello, DrainPing, DrainExpired, Refuses, DrainRequestState
  <2> QED
    BY <1>2, <2>3, EditIsCurrent
<1> QED
  BY <1>1, <1>2

(* The revision a computed command carries, the revisions LiveMix counts   *)
(* and the snapshot that agrees with them: a turn adds to and a flip       *)
(* inverts what LiveMix has, never what the plugin remembers; and an input *)
(* is reported done when the deck shows the state its ack was given under. *)
THEOREM DeckAgreesWithMixer == Spec => DeckAndMixerAgree
<1>1. JourneyInv /\ [Next]_vars =>
        [LET now == {i \in Inputs : applied'[i] # applied[i]}
         IN \A i \in now : doc'.val[Input[i].target] =
                             Effect(Input[i].kind, doc.val[Input[i].target], Cardinality(now))]_vars
  BY EditsAreCurrent
<1>2. JourneyInv /\ [Next]_vars =>
        [\A i \in Inputs : sd'.promise[i] = "done" /\ sd.promise[i] # "done" =>
            Ready(sd') /\ \A n \in DOMAIN applied[i] : sd'.snap.inst = applied[i][n].inst
                                                       /\ sd'.snap.rev >= applied[i][n].rev]_vars
  BY ReportsWhatIsShown
<1>3. Spec => EditsTheCurrentValue
  BY <1>1, JourneyHolds, PTL DEF Spec, EditsTheCurrentValue
<1>4. Spec => DoneIsShown
  BY <1>2, JourneyHolds, PTL DEF Spec, DoneIsShown
<1> QED
  BY <1>3, <1>4 DEF DeckAndMixerAgree
=============================================================================
