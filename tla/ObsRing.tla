------------------------------ MODULE ObsRing -------------------------------
(***************************************************************************)
(* The audio ring that LiveMix shares with its OBS plugin                  *)
(* (livemix/shared/lm_obs_protocol.h, livemix/src/ObsSender.cpp,           *)
(* obs-plugin/src/receiver.c): three threads of two processes around one   *)
(* mapping, with no lock between the processes.                            *)
(*                                                                         *)
(*   audio    LiveMix's device callback: one block at a time through a     *)
(*            try-gate, cell by cell, between two stores of positions      *)
(*   owner    LiveMix's message or device thread: enables, disables and    *)
(*            restarts the stream behind the gate; one at a time (a lock)  *)
(*   reader   OBS's audio thread: pulls, copies, validates, plays          *)
(*                                                                         *)
(* LiveMix may die at any step; the plugin's handle keeps the mapping.     *)
(*                                                                         *)
(* One step is one load or store of a shared word, or one cell of the PCM. *)
(* Loads and stores of words are full barriers in the code, and x64 stores *)
(* become visible in their order.  A frame is known by the epoch it was    *)
(* written in and its position in it; resampling and fades are left out.   *)
(***************************************************************************)
EXTENDS Integers, FiniteSets

CONSTANTS
  Capacity,    \* frames in the ring
  Target,      \* frames the reader wants queued before it plays
  Blocks,      \* sizes of the device's blocks
  MayFail,     \* TRUE: the system may refuse the mapping
  MayDie,      \* TRUE: LiveMix may die
  MaxFrames,   \* bound: frames written in an epoch
  MaxEpoch     \* bound: epochs

ASSUME SizesAssumption ==
  /\ {Capacity, Target, MaxFrames, MaxEpoch} \subseteq Nat \ {0}
  /\ Blocks \subseteq Nat \ {0}
ASSUME SettingsAssumption == {MayFail, MayDie} \subseteq BOOLEAN

VARIABLES
  (* the mapping *)
  mapped, epoch, write_frames, reserved, send_enabled, heartbeat, ring,
  (* LiveMix *)
  published,     \* ObsSender has the mapping
  enabled,
  copying,       \* bit 0 of writerState: a block is being written
  closed,        \* bit 1 of writerState: the owner resets, or sending is off
  audio,         \* where the audio thread is in writeBlock()
  block,         \* the block it writes: its first frame, the next one, its end
  owner,         \* where the owner is in setEnabled() or deviceStarted()
  on,            \* what its call asks for
  (* OBS *)
  view,          \* the plugin has mapped the ring
  reader,        \* where lm_receiver_pull() is
  online, playing, resync_requested,
  seen,          \* r->epoch
  read_pos,
  local,         \* epoch and written as the pull loaded them last
  chunk,         \* the frames lm_obs_read() has copied, by position
  count,         \* and how many it will
  floor          \* history: where the plugin may play on without a repetition

mapping == <<mapped, epoch, write_frames, reserved, send_enabled, heartbeat, ring>>
gate    == <<published, enabled, copying, closed>>
livemix == <<gate, audio, block, owner, on>>
plugin  == <<view, reader, online, playing, resync_requested, seen, read_pos, local, chunk, count, floor>>
vars    == <<mapping, livemix, plugin>>

Frame(e, p) == [epoch |-> e, pos |-> p]
Blank == Frame(0, 0)
Cells == 0 .. Capacity - 1
Cell(p) == p % Capacity
NoBlock == [start |-> 0, next |-> 0, end |-> 0]

NoAudio == [c \in Cells |-> Blank]

Init ==
  /\ mapped = FALSE /\ send_enabled = FALSE /\ heartbeat = "none"
  /\ epoch = 0 /\ write_frames = 0 /\ reserved = 0 /\ ring = NoAudio
  /\ published = FALSE /\ enabled = FALSE /\ copying = FALSE /\ closed = TRUE
  /\ audio = "idle" /\ block = NoBlock
  /\ owner = "idle" /\ on = FALSE
  /\ view = FALSE /\ reader = "idle" /\ online = FALSE /\ playing = FALSE
  /\ resync_requested = FALSE
  /\ seen = 0 /\ read_pos = 0 /\ floor = 0
  /\ local = [epoch |-> 0, written |-> 0]
  /\ chunk = << >> /\ count = 0

-----------------------------------------------------------------------------
(* The audio thread: ObsSender::writeBlock(), lm_obs_write(),              *)
(* lm_obs_write_silence().                                                 *)

(* One compare-and-swap, never a wait.  The slip looks at bit 0 only.      *)
GateIgnoringOwner == ~ copying
GateOpen == ~ copying /\ ~ closed

EnterGate ==
  /\ audio = "idle" /\ GateOpen
  /\ copying' = TRUE
  /\ audio' = IF published THEN "reserve" ELSE "leave"
  /\ UNCHANGED <<mapping, published, enabled, closed, block, owner, on, plugin>>

(* The end of the block is published before its first frame is touched.    *)
Reserve == \E n \in Blocks :
  /\ audio = "reserve" /\ write_frames + n <= MaxFrames
  /\ block' = [start |-> write_frames,
               next  |-> IF n > Capacity THEN write_frames + n - Capacity ELSE write_frames,
               end   |-> write_frames + n]
  /\ reserved' = write_frames + n
  /\ audio' = "copy"
  /\ UNCHANGED <<mapped, epoch, write_frames, send_enabled, heartbeat, ring, gate, owner, on, plugin>>

(* The bound of the model: the device stops when MaxFrames are written.    *)
ReserveNoMore ==
  /\ audio = "reserve" /\ \A n \in Blocks : write_frames + n > MaxFrames
  /\ audio' = "leave"
  /\ UNCHANGED <<mapping, gate, block, owner, on, plugin>>

CopyFrame ==
  /\ audio = "copy" /\ block.next < block.end
  /\ ring' = [ring EXCEPT ![Cell(block.next)] = Frame(epoch, block.next)]
  /\ block' = [block EXCEPT !.next = @ + 1]
  /\ UNCHANGED <<mapped, epoch, write_frames, reserved, send_enabled, heartbeat, gate, audio, owner, on, plugin>>

Commit ==
  /\ audio = "copy" /\ block.next = block.end
  /\ write_frames' = block.end
  /\ block' = NoBlock
  /\ audio' = "beat"
  /\ UNCHANGED <<mapped, epoch, reserved, send_enabled, heartbeat, ring, gate, owner, on, plugin>>

Beat ==
  /\ audio = "beat"
  /\ heartbeat' = "fresh"
  /\ audio' = "leave"
  /\ UNCHANGED <<mapped, epoch, write_frames, reserved, send_enabled, ring, gate, block, owner, on, plugin>>

LeaveGate ==
  /\ audio = "leave"
  /\ copying' = FALSE
  /\ audio' = "idle"
  /\ UNCHANGED <<mapping, published, enabled, closed, block, owner, on, plugin>>

Audio == EnterGate \/ Reserve \/ ReserveNoMore \/ CopyFrame \/ Commit \/ Beat \/ LeaveGate

-----------------------------------------------------------------------------
(* The owner: setEnabled() and deviceStarted(), under ownerLock.           *)

OwnerCalls(ask, next) ==
  /\ owner = "idle" /\ epoch < MaxEpoch
  /\ closed' = TRUE
  /\ on' = ask
  /\ owner' = next
  /\ UNCHANGED <<mapping, published, enabled, copying, audio, block, plugin>>

Enable  == ~ enabled /\ OwnerCalls(TRUE, "waitToEnable")
Disable == enabled /\ OwnerCalls(FALSE, "waitToDisable")
deviceStarted == OwnerCalls(enabled, "waitToRestart")

OwnerGoes(next) == owner' = next /\ UNCHANGED <<gate, audio, block, on, plugin>>

(* stopWrites(): the copy in flight has to end first.  The slip: no wait.  *)
WritesNeverWaited == TRUE
WritesStopped == ~ copying

stopWrites ==
  /\ WritesStopped
  /\ \/ owner = "waitToEnable"  /\ OwnerGoes(IF published THEN "sendOff" ELSE "map")
     \/ owner = "waitToDisable" /\ OwnerGoes(IF published THEN "send" ELSE "open")
     \/ owner = "waitToRestart" /\ OwnerGoes(IF published THEN "sendOff" ELSE "open")
  /\ UNCHANGED mapping

(* openMappings(): a mapping the plugin kept alive is not zeroed.          *)
openMappings ==
  /\ owner = "map"
  /\ mapped' = TRUE
  /\ send_enabled' = FALSE
  /\ published' = TRUE
  /\ owner' = "sendOff"
  /\ UNCHANGED <<epoch, write_frames, reserved, heartbeat, ring, enabled, copying, closed, audio, block, on, plugin>>

(* The gate stays closed; a later enable can retry.                        *)
openMappingsFails ==
  /\ owner = "map" /\ MayFail
  /\ OwnerGoes("idle")
  /\ UNCHANGED mapping

(* resetEpoch(): one store after the other.                                *)
ResetSend ==
  /\ owner = "sendOff" /\ send_enabled' = FALSE /\ OwnerGoes("position")
  /\ UNCHANGED <<mapped, epoch, write_frames, reserved, heartbeat, ring>>
ResetPosition ==
  /\ owner = "position" /\ write_frames' = 0 /\ OwnerGoes("reservation")
  /\ UNCHANGED <<mapped, epoch, reserved, send_enabled, heartbeat, ring>>
ResetReservation ==
  /\ owner = "reservation" /\ reserved' = 0 /\ OwnerGoes("heartbeat")
  /\ UNCHANGED <<mapped, epoch, write_frames, send_enabled, heartbeat, ring>>
ResetHeartbeat ==
  /\ owner = "heartbeat" /\ heartbeat' = "none" /\ OwnerGoes("epoch")
  /\ UNCHANGED <<mapped, epoch, write_frames, reserved, send_enabled, ring>>
PublishEpoch ==
  /\ owner = "epoch" /\ epoch' = epoch + 1 /\ OwnerGoes("send")
  /\ UNCHANGED <<mapped, write_frames, reserved, send_enabled, heartbeat, ring>>

Send ==
  /\ owner = "send" /\ send_enabled' = on /\ OwnerGoes("open")
  /\ UNCHANGED <<mapped, epoch, write_frames, reserved, heartbeat, ring>>

(* writerState is stored, not swapped: 0 when sending, 2 when not.         *)
OpenGate ==
  /\ owner = "open"
  /\ enabled' = on
  /\ closed' = ~ on
  /\ copying' = FALSE
  /\ owner' = "idle"
  /\ UNCHANGED <<mapping, published, audio, block, on, plugin>>

ResetEpoch == ResetSend \/ ResetPosition \/ ResetReservation \/ ResetHeartbeat \/ PublishEpoch
OwnerGoesOn == stopWrites \/ openMappings \/ openMappingsFails \/ ResetEpoch \/ Send \/ OpenGate
Owner == Enable \/ Disable \/ deviceStarted \/ OwnerGoesOn

(* LiveMix dies, or quits.  The mapping lives while the plugin holds it.   *)
Die ==
  /\ MayDie /\ (published \/ owner # "idle")
  /\ published' = FALSE /\ enabled' = FALSE /\ copying' = FALSE /\ closed' = TRUE
  /\ audio' = "idle" /\ block' = NoBlock
  /\ owner' = "idle" /\ on' = FALSE
  /\ \/ view /\ UNCHANGED mapping
     \/ /\ ~ view
        /\ mapped' = FALSE /\ send_enabled' = FALSE /\ heartbeat' = "none"
        /\ epoch' = 0 /\ write_frames' = 0 /\ reserved' = 0 /\ ring' = NoAudio
  /\ UNCHANGED plugin

-----------------------------------------------------------------------------
(* The reader: lm_receiver_pull() on OBS's audio thread.                   *)

OpenRing ==
  /\ mapped /\ ~ view
  /\ view' = TRUE
  /\ UNCHANGED <<mapping, livemix, reader, online, playing, resync_requested, seen, read_pos, local, chunk, count, floor>>

(* Half a second without a block: the heartbeat is old.                    *)
HeartbeatAges ==
  /\ heartbeat = "fresh"
  /\ heartbeat' = "stale"
  /\ UNCHANGED <<mapped, epoch, write_frames, reserved, send_enabled, ring, livemix, plugin>>

resync ==
  /\ ~ resync_requested
  /\ resync_requested' = TRUE
  /\ UNCHANGED <<mapping, livemix, view, reader, online, playing, seen, read_pos, local, chunk, count, floor>>

(* The code loads send_enabled, then the heartbeat.  A heartbeat is fresh   *)
(* only while sending is on, or until it ages, so both held at one moment. *)
live_header == send_enabled /\ heartbeat = "fresh"

(* begin_prefill(): where reading starts again.                            *)
PrefillFrom(written, freshOnly) ==
  IF freshOnly THEN written ELSE IF written >= Target THEN written - Target ELSE 0

PullGoes(next) == reader' = next
PullEnds == reader' = "idle" /\ chunk' = << >> /\ count' = 0
               /\ local' = [epoch |-> 0, written |-> 0]

(* The stream is gone: what was queued is forgotten.                       *)
GoOffline(written) ==
  /\ online' = FALSE
  /\ playing' = FALSE
  /\ read_pos' = IF online THEN PrefillFrom(written, TRUE) ELSE read_pos
  /\ floor' = IF online THEN PrefillFrom(written, TRUE) ELSE floor
  /\ PullEnds
  /\ UNCHANGED <<mapping, livemix, view, resync_requested, seen>>

PullFindsNothing ==
  /\ reader = "idle" /\ view /\ online /\ ~ live_header
  /\ GoOffline(write_frames)

PullBegins ==
  /\ reader = "idle" /\ view /\ live_header
  /\ PullGoes("epoch")
  /\ UNCHANGED <<mapping, livemix, view, online, playing, resync_requested, seen, read_pos, local, chunk, count, floor>>

Load(from, to, word, value) ==
  /\ reader = from
  /\ local' = [local EXCEPT ![word] = value]
  /\ PullGoes(to)
  /\ UNCHANGED <<mapping, livemix, view, online, playing, resync_requested, seen, read_pos, chunk, count, floor>>

PullLoadsEpoch   == Load("epoch", "written", "epoch", epoch)
PullLoadsWritten == Load("written", "sameEpoch", "written", write_frames)

PullChecksEpoch ==
  /\ reader = "sameEpoch"
  /\ IF epoch = local.epoch
     THEN /\ PullGoes("stillLive")
          /\ UNCHANGED <<mapping, livemix, view, online, playing, resync_requested, seen, read_pos, local, chunk, count, floor>>
     ELSE GoOffline(local.written)

PullIsOffline ==
  /\ reader = "stillLive" /\ ~ live_header
  /\ GoOffline(local.written)

(* A new epoch, a reconnection, a resync: the queue is filled again.  A    *)
(* reconnection to the same epoch reads on from where it noticed the stall *)
(* (the slip: from the last frames written).                               *)
ResumeWithQueue(written) == PrefillFrom(written, FALSE)
ResumeAt(written) == read_pos
PullIsOnline ==
  /\ reader = "stillLive" /\ live_header
  /\ LET changed == local.epoch # seen
         fills   == changed \/ ~ online
     IN  /\ seen' = local.epoch
         /\ online' = TRUE
         /\ resync_requested' = (resync_requested /\ ~ fills)
         /\ playing' = (playing /\ ~ fills)
         /\ read_pos' = IF changed THEN PrefillFrom(local.written, FALSE)
                        ELSE IF fills THEN ResumeAt(local.written)
                        ELSE read_pos
         /\ floor' = IF changed THEN 0 ELSE floor
  /\ PullGoes("reserved")
  /\ UNCHANGED <<mapping, livemix, view, local, chunk, count>>

(* The resampler for this format may not be ready yet; otherwise the queue *)
(* is checked against the ring, filled to the target, and then read.       *)
PullWaitsForFormat ==
  /\ reader = "reserved" /\ ~ playing
  /\ PullEnds
  /\ UNCHANGED <<mapping, livemix, view, online, playing, resync_requested, seen, read_pos, floor>>

PullFillsQueue ==
  /\ reader = "reserved"
  /\ LET w       == local.written
         asked   == IF resync_requested THEN PrefillFrom(w, FALSE) ELSE read_pos
         overrun == w < asked \/ w - asked >= Capacity \/ reserved - asked >= Capacity
         from    == IF overrun THEN PrefillFrom(w, FALSE) ELSE asked
         plays   == playing /\ ~ resync_requested /\ ~ overrun
         filled  == w - from >= Target
     IN  /\ playing' = (plays \/ filled)
         /\ read_pos' = IF ~ plays /\ filled THEN w - Target ELSE from
         /\ floor' = IF resync_requested THEN 0 ELSE floor
         /\ IF playing' THEN PullGoes("read") /\ UNCHANGED <<local, chunk, count>> ELSE PullEnds
  /\ resync_requested' = FALSE
  /\ UNCHANGED <<mapping, livemix, view, online, seen>>

(* lm_obs_read(): -1 is a prefill from the newest frames.                   *)
ReadFails ==
  /\ playing' = FALSE
  /\ read_pos' = PrefillFrom(write_frames, FALSE)
  /\ PullEnds
  /\ UNCHANGED <<mapping, livemix, view, online, resync_requested, seen, floor>>

ReadChecksEpoch ==
  /\ reader = "read"
  /\ IF epoch = local.epoch
     THEN /\ PullGoes("readWritten")
          /\ UNCHANGED <<mapping, livemix, view, online, playing, resync_requested, seen, read_pos, local, chunk, count, floor>>
     ELSE ReadFails

ReadLoadsWritten == Load("readWritten", "readReserved", "written", write_frames)

(* Both checks include the reservation of a copy in flight, and a reader   *)
(* exactly Capacity behind is too late.  The slips: what is committed only, *)
(* and one frame too many.                                                 *)
BehindByMore(written, reservation) ==
  written - read_pos > Capacity \/ reservation - read_pos > Capacity
BehindCommitted(written, reservation) == written - read_pos >= Capacity
BehindTheRing(written, reservation) ==
  written - read_pos >= Capacity \/ reservation - read_pos >= Capacity

ReadLoadsReserved ==
  /\ reader = "readReserved"
  /\ IF read_pos > local.written \/ BehindTheRing(local.written, reserved)
     THEN ReadFails
     ELSE /\ count' = local.written - read_pos
          /\ chunk' = << >>
          /\ PullGoes(IF count' = 0 THEN "nothing" ELSE "copy")
          /\ UNCHANGED <<mapping, livemix, view, online, playing, resync_requested, seen, read_pos, local, floor>>

(* memcpy: the frames are copied in no particular order.                   *)
CopyOut == \E p \in read_pos .. read_pos + count - 1 :
  /\ reader = "copy" /\ p \notin DOMAIN chunk
  /\ chunk' = [q \in DOMAIN chunk \cup {p} |-> IF q = p THEN ring[Cell(p)] ELSE chunk[q]]
  /\ UNCHANGED <<mapping, livemix, view, reader, online, playing, resync_requested, seen, read_pos, local, count, floor>>

ReadLoadsWrittenAgain ==
  /\ Cardinality(DOMAIN chunk) = count
  /\ Load("copy", "reservedAgain", "written", write_frames)

ReadLoadsReservedAgain ==
  /\ reader = "reservedAgain"
  /\ IF local.written < read_pos + count \/ BehindTheRing(local.written, reserved)
     THEN ReadFails
     ELSE /\ PullGoes("epochAgain")
          /\ UNCHANGED <<mapping, livemix, view, online, playing, resync_requested, seen, read_pos, local, chunk, count, floor>>

(* The slip takes the chunk for good without looking at the epoch again.   *)
AnyEpoch(e) == TRUE
StillIn(e) == epoch = e
ReadChecksEpochAgain ==
  /\ reader = "epochAgain"
  /\ IF StillIn(local.epoch)
     THEN /\ PullGoes("validate")
          /\ UNCHANGED <<mapping, livemix, view, online, playing, resync_requested, seen, read_pos, local, chunk, count, floor>>
     ELSE ReadFails

(* Back in the pull: an epoch or send change during the copy invalidates   *)
(* the chunk.                                                              *)
Invalidated ==
  /\ playing' = FALSE
  /\ read_pos' = PrefillFrom(write_frames, TRUE)
  /\ PullEnds
  /\ UNCHANGED <<mapping, livemix, view, online, resync_requested, seen, floor>>

PullValidatesEpoch ==
  /\ reader = "validate"
  /\ IF StillIn(local.epoch)
     THEN /\ PullGoes("validateLive")
          /\ UNCHANGED <<mapping, livemix, view, online, playing, resync_requested, seen, read_pos, local, chunk, count, floor>>
     ELSE Invalidated

PullValidatesLive ==
  /\ reader = "validateLive"
  /\ IF live_header
     THEN /\ PullGoes("play")
          /\ UNCHANGED <<mapping, livemix, view, online, playing, resync_requested, seen, read_pos, local, chunk, count, floor>>
     ELSE Invalidated

(* The chunk is played; the pull wants more, has enough, or ran dry.       *)
Play ==
  /\ reader = "play"
  /\ floor' = read_pos + count
  /\ \/ /\ read_pos' = read_pos + count
        /\ chunk' = << >> /\ count' = 0
        /\ PullGoes("read")
        /\ UNCHANGED <<playing, local>>
     \/ read_pos' = read_pos + count /\ PullEnds /\ UNCHANGED playing
     \/ read_pos' = PrefillFrom(write_frames, TRUE) /\ playing' = FALSE /\ PullEnds
  /\ UNCHANGED <<mapping, livemix, view, online, resync_requested, seen>>

(* Nothing to copy: the queue plays on, or ran dry.                        *)
PullRunsDry ==
  /\ reader = "nothing"
  /\ \/ PullEnds /\ UNCHANGED <<read_pos, playing>>
     \/ read_pos' = PrefillFrom(write_frames, TRUE) /\ playing' = FALSE /\ PullEnds
  /\ UNCHANGED <<mapping, livemix, view, online, resync_requested, seen, floor>>

Pull == \/ PullFindsNothing \/ PullBegins \/ PullLoadsEpoch \/ PullLoadsWritten \/ PullChecksEpoch
        \/ PullIsOffline \/ PullIsOnline \/ PullWaitsForFormat \/ PullFillsQueue \/ PullRunsDry
        \/ PullValidatesEpoch \/ PullValidatesLive \/ Play
Read == \/ ReadChecksEpoch \/ ReadLoadsWritten \/ ReadLoadsReserved \/ CopyOut
        \/ ReadLoadsWrittenAgain \/ ReadLoadsReservedAgain \/ ReadChecksEpochAgain

Environment == Die \/ OpenRing \/ HeartbeatAges \/ resync
Next == Audio \/ Owner \/ Pull \/ Read \/ Environment

Spec == Init /\ [][Next]_vars

(* Both threads of LiveMix get the processor.  Neither waits for the other *)
(* by right: the audio thread never, the owner in a loop.                  *)
FairSpec == Spec /\ WF_vars(Audio) /\ WF_vars(OwnerGoesOn)

-----------------------------------------------------------------------------
(* Properties *)

Positions == 0 .. MaxFrames
Frames == [epoch : 0 .. MaxEpoch, pos : Positions]

MappingOK ==
  /\ mapped \in BOOLEAN /\ send_enabled \in BOOLEAN
  /\ epoch \in 0 .. MaxEpoch
  /\ write_frames \in Positions /\ reserved \in Positions
  /\ heartbeat \in {"none", "fresh", "stale"}
  /\ ring \in [Cells -> Frames]
LivemixOK ==
  /\ published \in BOOLEAN /\ enabled \in BOOLEAN /\ copying \in BOOLEAN /\ closed \in BOOLEAN
  /\ audio \in {"idle", "reserve", "copy", "beat", "leave"}
  /\ block \in [start : Positions, next : Positions, end : Positions]
  /\ owner \in {"idle", "waitToEnable", "waitToDisable", "waitToRestart", "map", "sendOff",
                "position", "reservation", "heartbeat", "epoch", "send", "open"}
  /\ on \in BOOLEAN
PluginOK ==
  /\ view \in BOOLEAN /\ online \in BOOLEAN /\ playing \in BOOLEAN /\ resync_requested \in BOOLEAN
  /\ reader \in {"idle", "epoch", "written", "sameEpoch", "stillLive", "reserved", "read",
                 "readWritten", "readReserved", "nothing", "copy", "reservedAgain",
                 "epochAgain", "validate", "validateLive", "play"}
  /\ seen \in 0 .. MaxEpoch
  /\ read_pos \in Positions /\ floor \in Positions
  /\ local \in [epoch : 0 .. MaxEpoch, written : Positions]
  /\ DOMAIN chunk \subseteq Positions /\ \A p \in DOMAIN chunk : chunk[p] \in Frames
  /\ count \in 0 .. Capacity - 1
TypeOK == MappingOK /\ LivemixOK /\ PluginOK

(* The owner resets the stream while no block is being written: between    *)
(* its wait and its opening of the gate the audio thread is outside.       *)
Resetting == owner \in {"map", "sendOff", "position", "reservation", "heartbeat", "epoch", "send", "open"}
OwnerIsAlone == Resetting => audio = "idle" /\ ~ copying /\ closed

(* What the plugin plays is what LiveMix wrote: every frame of a chunk it  *)
(* accepts is the frame of that position, in the epoch it reads.           *)
PlayedIsWhatWasWritten ==
  reader = "play" => \A p \in DOMAIN chunk : chunk[p] = Frame(local.epoch, p)

(* As long as the owner has not taken the positions back, or raised the    *)
(* epoch, since the reader loaded them.                                    *)
PlayedWithinAStream ==
  epoch = local.epoch /\ reserved >= local.written => PlayedIsWhatWasWritten

(* Whatever happens to LiveMix, an accepted chunk is of one epoch.         *)
EpochsAreNotMixed ==
  reader = "play" => \A p \in DOMAIN chunk : chunk[p].epoch = local.epoch

(* "Reconnect cannot replay pre-stall/disabled audio": within an epoch, no *)
(* frame is played twice, and none that was written before a stall the     *)
(* plugin noticed, unless the OBS side asked for a resync.                 *)
NothingIsReplayed == reader = "play" => read_pos >= floor

(* The owner never waits for long: a change of the stream comes to its end *)
(* however busy the audio thread is (or LiveMix dies).                     *)
OwnerIsServed == (owner # "idle") ~> (owner = "idle")
=============================================================================
