----------------------------- MODULE MCPlaylist -----------------------------
(* Playlist groups for TLC.                                                *)
EXTENDS Playlist

Child(kind, pre, post, mode, rule, secs) ==
  [kind |-> kind, pre |-> pre, post |-> post, mode |-> mode, rule |-> rule, fso |-> FALSE, secs |-> secs]

(* Fired by itself, the first child heads a chain of starts, each behind   *)
(* the one before it, that ends in a wait and a follow.                    *)
Children == << Child("audio", 1, 0, "continue", "stop", 0), Child("audio", 1, 0, "continue", "nothing", 0),
               Child("wait", 0, 0, "follow", "restart", 1), Child("audio", 0, 0, "follow", "restart", 0) >>

(* A list played once, one that is repeated with crossfades, a jukebox.    *)
Lists == { [loop |-> FALSE, shuffle |-> FALSE, crossfade |-> FALSE, rule |-> "stop"],
           [loop |-> TRUE, shuffle |-> FALSE, crossfade |-> TRUE, rule |-> "restart"],
           [loop |-> TRUE, shuffle |-> TRUE, crossfade |-> FALSE, rule |-> "nothing"] }
=============================================================================
