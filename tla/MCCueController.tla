--------------------------- MODULE MCCueController --------------------------
(* Lists of cues for CueController.                                        *)
EXTENDS CueController

Sound(pre, post, mode, rule, fso) ==
  [kind |-> "audio", pre |-> pre, post |-> post, mode |-> mode, rule |-> rule, fso |-> fso, secs |-> 0]
Wait(secs, mode, rule) ==
  [kind |-> "wait", pre |-> 0, post |-> 0, mode |-> mode, rule |-> rule, fso |-> FALSE, secs |-> secs]
Memo(post, mode) ==
  [kind |-> "memo", pre |-> 0, post |-> post, mode |-> mode, rule |-> "nothing", fso |-> FALSE, secs |-> 0]

(* A sound that continues into one with a pre-wait, followed by a third    *)
(* that fades the others out.                                              *)
ChainList == << Sound(0, 1, "continue", "restart", FALSE),
                Sound(1, 0, "follow", "restart", FALSE),
                Sound(1, 0, "none", "nothing", TRUE) >>

(* A chain of starts, each behind the one before it, that ends in a wait   *)
(* and a follow; pre-waits and waits fired again under each rule.          *)
RulesList == << Sound(1, 1, "continue", "stop", FALSE), Memo(1, "continue"),
                Wait(1, "follow", "restart"), Sound(1, 0, "follow", "nothing", FALSE) >>
=============================================================================
