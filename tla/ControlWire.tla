------------------------------ MODULE ControlWire -----------------------------
(***************************************************************************)
(* The line-by-line protocol between LiveMix (ControlServer) and the       *)
(* Stream Deck plugin (StreamDeck): one TCP connection after another, each *)
(* a queue of messages up and a queue of messages down.  A value that a    *)
(* key or a dial works on - a microphone, a mute group, a send - is a      *)
(* target with a number 0 .. Top.                                          *)
(***************************************************************************)
EXTENDS Naturals, Sequences, FiniteSets

CONSTANTS
  Targets,    \* what keys and dials work on
  Top,        \* the largest value of a target
  Input,      \* the presses and turns of the user, in no order: a sequence of
              \* [target, owner, kind, retries]
  MaxConns,   \* bound: connections the plugin opens
  MaxEdits,   \* bound: changes made in LiveMix itself
  MaxInst,    \* bound: times the server is started
  MaxPings    \* bound: pings the plugin sends

Inputs == DOMAIN Input
Conns  == 1 .. MaxConns

(* "toggle" is inverted by the server; "flip" and "turn" are computed by   *)
(* the plugin from what it knows, and go with the revision of that.        *)
Kinds == {"toggle", "flip", "turn"}
Computed(kind) == kind # "toggle"

ASSUME WireAssumption ==
  /\ Top \in Nat \ {0} /\ MaxConns \in Nat \ {0} /\ MaxEdits \in Nat
  /\ MaxInst \in Nat \ {0} /\ MaxPings \in Nat
  /\ IsFiniteSet(Targets)
  /\ Len(Input) \in Nat /\ Inputs = 1 .. Len(Input)
  /\ \A i \in Inputs : /\ Input[i].target \in Targets
                       /\ Input[i].kind \in Kinds
                       /\ Input[i].retries \in Nat

(* What n inputs of one kind do to a value.  The slip turns without end.   *)
Unlimited(kind, v, n) == IF kind = "turn" THEN v + n ELSE (IF v = 0 THEN Top ELSE 0)
Effect(kind, v, n) == IF kind = "turn" THEN (IF v + n > Top THEN Top ELSE v + n)
                                       ELSE (IF v = 0 THEN Top ELSE 0)

VARIABLES
  up,      \* [Conns -> messages to LiveMix]
  down,    \* [Conns -> messages to the plugin]
  link     \* [Conns -> "none" before, "up" while, "gone" after the plugin uses it]

wire == <<up, down, link>>

WireInit == /\ up   = [c \in Conns |-> << >>]
            /\ down = [c \in Conns |-> << >>]
            /\ link = [c \in Conns |-> "none"]

Hello               == [type |-> "hello"]
Ping(id)            == [type |-> "ping", id |-> id]
StateRequest(id)    == [type |-> "command", id |-> id, op |-> "requestState"]
(* parts: the inputs the command stands for; the server never sees them.   *)
EditCommand(id, session, ifRevision, op, target, value, parts) ==
  [type |-> "command", id |-> id, op |-> op, session |-> session,
   ifRevision |-> ifRevision, target |-> target, value |-> value, parts |-> parts]

HelloAck            == [type |-> "helloAck"]
(* A state of the document under its revision: the whole projection, or    *)
(* what changed since the revision it is based on.                         *)
State(inst, k, id)  == [type |-> "state", inst |-> inst, requestId |-> id, session |-> k.session,
                        rev |-> k.rev, has |-> k.has, val |-> k.val]
Delta(k, base, chg) == [type |-> "stateDelta", session |-> k.session, rev |-> k.rev,
                        base |-> base, changes |-> chg]
Pong(id, k)         == [type |-> "pong", id |-> id, session |-> k.session, rev |-> k.rev]
Ack(id, k)          == [type |-> "ack", id |-> id, session |-> k.session, rev |-> k.rev]
Error(id, code)     == [type |-> "error", id |-> id, code |-> code]
ServerStatus        == [type |-> "serverStatus"]
EndOfStream         == [type |-> "eof"]
=============================================================================
