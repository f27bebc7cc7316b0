---------------------------- MODULE ObsRingProofs ---------------------------
(***************************************************************************)
(* What holds of the audio ring for every capacity, every target, every    *)
(* set of block sizes and however often LiveMix restarts or dies: the state*)
(* is well-formed, the owner resets the stream alone, and an accepted      *)
(* chunk is of one epoch.                                                  *)
(***************************************************************************)
EXTENDS ObsRing, TLAPS

USE DEF mapping, gate, livemix, plugin

-----------------------------------------------------------------------------
(* The gate: bit 0 says that the audio thread is inside, and a caller of   *)
(* the owner's methods has closed it.                                      *)
GateInv ==
  /\ copying \in BOOLEAN /\ closed \in BOOLEAN /\ enabled \in BOOLEAN /\ on \in BOOLEAN
  /\ copying <=> audio # "idle"
  /\ owner # "idle" => closed
  /\ OwnerIsAlone

Waiting == {"waitToEnable", "waitToDisable", "waitToRestart"}

LEMMA GateHolds == Init => GateInv
  BY DEF Init, GateInv, OwnerIsAlone, Resetting

LEMMA GateStep == GateInv /\ [Next]_vars => GateInv'
<1> SUFFICES ASSUME GateInv, [Next]_vars PROVE GateInv'
  OBVIOUS
<1> USE DEF GateInv, OwnerIsAlone, Resetting
<1>1. CASE Audio
  <2>1. CASE EnterGate
    BY <2>1 DEF EnterGate, GateOpen
  <2>2. CASE LeaveGate
    BY <2>2 DEF LeaveGate
  <2>3. CASE Reserve \/ ReserveNoMore \/ CopyFrame \/ Commit \/ Beat
    BY <2>3 DEF Reserve, ReserveNoMore, CopyFrame, Commit, Beat
  <2> QED
    BY <1>1, <2>1, <2>2, <2>3 DEF Audio
<1>2. CASE Owner
  <2>1. CASE Enable \/ Disable \/ deviceStarted
    <3>1. PICK ask \in BOOLEAN, next \in Waiting : OwnerCalls(ask, next)
      BY <2>1 DEF Enable, Disable, deviceStarted, Waiting
    <3> QED
      BY <3>1 DEF OwnerCalls, Waiting
  <2>2. CASE stopWrites
    BY <2>2 DEF stopWrites, OwnerGoes, WritesStopped
  <2>3. CASE openMappings \/ openMappingsFails
    BY <2>3 DEF openMappings, openMappingsFails, OwnerGoes
  <2>4. CASE ResetEpoch \/ Send
    BY <2>4 DEF ResetEpoch, ResetSend, ResetPosition, ResetReservation, ResetHeartbeat,
                PublishEpoch, Send, OwnerGoes
  <2>5. CASE OpenGate
    BY <2>5 DEF OpenGate
  <2> QED
    BY <1>2, <2>1, <2>2, <2>3, <2>4, <2>5 DEF Owner, OwnerGoesOn
<1>3. CASE Die
  BY <1>3 DEF Die
<1>4. CASE UNCHANGED livemix
  BY <1>4
<1>5. Pull \/ Read \/ OpenRing \/ HeartbeatAges \/ resync => UNCHANGED livemix
  BY DEF Pull, Read, OpenRing, HeartbeatAges, resync, PullFindsNothing, PullBegins,
         PullLoadsEpoch, PullLoadsWritten, PullChecksEpoch, PullIsOffline, PullIsOnline,
         PullWaitsForFormat, PullFillsQueue, PullRunsDry, PullValidatesEpoch,
         PullValidatesLive, Play, ReadChecksEpoch, ReadLoadsWritten, ReadLoadsReserved,
         CopyOut, ReadLoadsWrittenAgain, ReadLoadsReservedAgain, ReadChecksEpochAgain,
         GoOffline, ReadFails, Invalidated, Load
<1> QED
  BY <1>1, <1>2, <1>3, <1>4, <1>5 DEF Next, Environment, vars

(* The owner resets the stream while the audio thread is outside.          *)
THEOREM Alone == Spec => []OwnerIsAlone
<1>1. GateInv => OwnerIsAlone
  BY DEF GateInv
<1> QED
  BY <1>1, GateHolds, GateStep, PTL DEF Spec

-----------------------------------------------------------------------------
(* Types.  A chunk that is being copied ends inside the stream.            *)
Copying == {"copy", "reservedAgain", "epochAgain", "validate", "validateLive", "play"}
ChunkInv == reader \in Copying => read_pos + count <= MaxFrames

(* An owner that will publish an epoch has room for one.                   *)
Published == {"idle", "send", "open"}
RoomInv == owner \notin Published => epoch < MaxEpoch

TypeInv == TypeOK /\ ChunkInv /\ RoomInv

LEMMA CellType == \A p \in Nat : Cell(p) \in Cells
  BY SizesAssumption, Z3 DEF Cell, Cells

LEMMA Numbers ==
  /\ Capacity \in Nat \ {0} /\ Target \in Nat \ {0}
  /\ MaxFrames \in Nat \ {0} /\ MaxEpoch \in Nat \ {0}
  BY SizesAssumption

LEMMA Zero ==
  /\ 0 \in Positions /\ 0 \in 0 .. MaxEpoch /\ 0 \in 0 .. Capacity - 1
  /\ NoAudio \in [Cells -> Frames]
  /\ NoBlock \in [start : Positions, next : Positions, end : Positions]
<1>1. 0 \in Positions /\ 0 \in 0 .. MaxEpoch /\ 0 \in 0 .. Capacity - 1
  BY Numbers DEF Positions
<1>2. Blank \in Frames
  BY <1>1 DEF Blank, Frame, Frames
<1> QED
  BY <1>1, <1>2 DEF NoAudio, NoBlock

LEMMA TypeHolds == Init => TypeInv
<1> SUFFICES ASSUME Init PROVE TypeInv
  OBVIOUS
<1>1. MappingOK /\ LivemixOK
  BY Zero DEF Init, MappingOK, LivemixOK
<1>2. DOMAIN chunk = {}
  BY DEF Init
<1>3. PluginOK
  BY Zero, <1>2 DEF Init, PluginOK
<1> QED
  BY <1>1, <1>3 DEF Init, TypeInv, TypeOK, ChunkInv, Copying, RoomInv, Published

LEMMA PrefillType ==
  ASSUME NEW w \in Positions, NEW fresh \in BOOLEAN
  PROVE  PrefillFrom(w, fresh) \in Positions
  BY Numbers DEF PrefillFrom, Positions

(* The audio thread and the owner. *)
LEMMA AudioKeepsTypes ==
  ASSUME TypeInv, Audio
  PROVE  TypeInv'
<1>1. UNCHANGED <<mapped, epoch, send_enabled, published, enabled, closed, owner, on, plugin>>
  BY DEF Audio, EnterGate, Reserve, ReserveNoMore, CopyFrame, Commit, Beat, LeaveGate
<1>2. PluginOK' /\ ChunkInv' /\ RoomInv'
  BY <1>1 DEF TypeInv, TypeOK, PluginOK, ChunkInv, Copying, RoomInv
<1> USE DEF TypeInv, TypeOK, MappingOK, LivemixOK
<1>3. CASE EnterGate
  BY <1>1, <1>2, <1>3 DEF EnterGate
<1>4. CASE ReserveNoMore
  BY <1>1, <1>2, <1>4 DEF ReserveNoMore
<1>5. CASE Beat
  BY <1>1, <1>2, <1>5 DEF Beat
<1>6. CASE LeaveGate
  <2>1. MappingOK'
    BY <1>6 DEF LeaveGate
  <2>2. LivemixOK'
    BY <1>1, <1>6 DEF LeaveGate
  <2> QED
    BY <1>2, <2>1, <2>2
<1>7. CASE Reserve
  BY <1>1, <1>2, <1>7, Numbers, SizesAssumption DEF Reserve, Positions
<1>8. CASE CopyFrame
  <2>1. block.next \in Nat /\ block.next + 1 \in Positions
    BY <1>8, Numbers DEF CopyFrame, Positions
  <2>4. block' \in [start : Positions, next : Positions, end : Positions]
    BY <1>8, <2>1 DEF CopyFrame
  <2>2. Frame(epoch, block.next) \in Frames
    BY <1>8 DEF Frame, Frames, Positions
  <2>3. ring' \in [Cells -> Frames]
    BY <1>8, <2>1, <2>2, CellType DEF CopyFrame
  <2> QED
    BY <1>1, <1>2, <1>8, <2>3, <2>4 DEF CopyFrame
<1>9. CASE Commit
  BY <1>1, <1>2, <1>9, Zero DEF Commit
<1> QED
  BY <1>3, <1>4, <1>5, <1>6, <1>7, <1>8, <1>9 DEF Audio

LEMMA OwnerKeepsTypes ==
  ASSUME TypeInv, Owner \/ Die
  PROVE  TypeInv'
<1>1. UNCHANGED plugin
  BY DEF Owner, Enable, Disable, deviceStarted, OwnerCalls, OwnerGoesOn, stopWrites, OwnerGoes,
         openMappings, openMappingsFails, ResetEpoch, ResetSend, ResetPosition, ResetReservation,
         ResetHeartbeat, PublishEpoch, Send, OpenGate, Die
<1>2. PluginOK' /\ ChunkInv'
  BY <1>1 DEF TypeInv, TypeOK, PluginOK, ChunkInv, Copying
<1> USE DEF TypeInv, TypeOK, MappingOK, LivemixOK, RoomInv, Published
<1>3. CASE Enable \/ Disable \/ deviceStarted
  <2>1. PICK ask \in BOOLEAN, next \in Waiting : OwnerCalls(ask, next)
    BY <1>3 DEF Enable, Disable, deviceStarted, Waiting
  <2> QED
    BY <1>2, <2>1 DEF OwnerCalls, Waiting
<1>4. CASE stopWrites
  BY <1>2, <1>4 DEF stopWrites, OwnerGoes
<1>5. CASE openMappings
  BY <1>2, <1>5 DEF openMappings
<1>6. CASE openMappingsFails
  BY <1>2, <1>6 DEF openMappingsFails, OwnerGoes
<1>7. CASE ResetEpoch
  <2>1. CASE ResetSend
    <3>1. MappingOK'
      BY <2>1 DEF ResetSend
    <3>2. LivemixOK' /\ RoomInv'
      BY <2>1 DEF ResetSend, OwnerGoes
    <3> QED
      BY <1>2, <3>1, <3>2
  <2>2. CASE ResetPosition
    BY <1>2, <2>2, Zero DEF ResetPosition, OwnerGoes
  <2>3. CASE ResetReservation
    BY <1>2, <2>3, Zero DEF ResetReservation, OwnerGoes
  <2>4. CASE ResetHeartbeat
    BY <1>2, <2>4 DEF ResetHeartbeat, OwnerGoes
  <2>5. CASE PublishEpoch
    <3>1. epoch' \in 0 .. MaxEpoch
      BY <2>5, Numbers DEF PublishEpoch
    <3> QED
      BY <1>2, <2>5, <3>1 DEF PublishEpoch, OwnerGoes
  <2> QED
    BY <1>7, <2>1, <2>2, <2>3, <2>4, <2>5 DEF ResetEpoch
<1>8. CASE Send
  BY <1>2, <1>8 DEF Send, OwnerGoes
<1>9. CASE OpenGate
  <2>1. enabled' \in BOOLEAN /\ closed' \in BOOLEAN
    BY <1>9, Zenon DEF OpenGate
  <2> QED
    BY <1>2, <1>9, <2>1 DEF OpenGate
<1>10. CASE Die
  BY <1>2, <1>10, Zero DEF Die
<1> QED
  BY <1>3, <1>4, <1>5, <1>6, <1>7, <1>8, <1>9, <1>10 DEF Owner, OwnerGoesOn

(* The reader: what a pull leaves behind when it ends, and what it touches.*)
LEMMA PullEndsTypes ==
  ASSUME PullEnds
  PROVE  /\ reader' = "idle" /\ count' = 0 /\ DOMAIN chunk' = {}
         /\ local' \in [epoch : 0 .. MaxEpoch, written : Positions]
  BY Zero DEF PullEnds

LEMMA ReaderTouchesItsOwn ==
  ASSUME Pull \/ Read \/ OpenRing \/ resync
  PROVE  UNCHANGED <<mapping, livemix>>
  BY DEF Pull, Read, OpenRing, resync, PullFindsNothing, PullBegins,
         PullLoadsEpoch, PullLoadsWritten, PullChecksEpoch, PullIsOffline, PullIsOnline,
         PullWaitsForFormat, PullFillsQueue, PullRunsDry, PullValidatesEpoch,
         PullValidatesLive, Play, ReadChecksEpoch, ReadLoadsWritten, ReadLoadsReserved,
         CopyOut, ReadLoadsWrittenAgain, ReadLoadsReservedAgain, ReadChecksEpochAgain,
         GoOffline, ReadFails, Invalidated, Load

LEMMA GoOfflineTypes ==
  ASSUME TypeInv, NEW w \in Positions, GoOffline(w)
  PROVE  PluginOK' /\ ChunkInv'
  BY PrefillType, PullEndsTypes, Zero
     DEF TypeInv, TypeOK, PluginOK, ChunkInv, Copying, GoOffline

LEMMA ReadFailsTypes ==
  ASSUME TypeInv, ReadFails \/ Invalidated
  PROVE  PluginOK' /\ ChunkInv'
  BY PrefillType, PullEndsTypes, Zero
     DEF TypeInv, TypeOK, MappingOK, PluginOK, ChunkInv, Copying, ReadFails, Invalidated

(* The pull goes to its next place and nothing else changes.               *)
LEMMA GoesTypes ==
  ASSUME TypeInv,
         NEW next \in {"epoch", "stillLive", "readWritten", "epochAgain", "validate",
                       "validateLive", "play"},
         next \in Copying => reader \in Copying,
         PullGoes(next),
         UNCHANGED <<view, online, playing, resync_requested, seen, read_pos, local, chunk, count, floor>>
  PROVE  PluginOK' /\ ChunkInv'
  BY DEF TypeInv, TypeOK, PluginOK, ChunkInv, Copying, PullGoes

LEMMA PullKeepsTypes ==
  ASSUME TypeInv, Pull
  PROVE  PluginOK' /\ ChunkInv'
<1>0. write_frames \in Positions /\ local.written \in Positions
      /\ epoch \in 0 .. MaxEpoch /\ local.epoch \in 0 .. MaxEpoch
  BY DEF TypeInv, TypeOK, MappingOK, PluginOK
<1>1. CASE PullFindsNothing
  BY <1>0, <1>1, GoOfflineTypes DEF PullFindsNothing
<1>2. CASE PullBegins
  BY <1>2, GoesTypes DEF PullBegins, Copying
<1>3. CASE PullLoadsEpoch \/ PullLoadsWritten
  BY <1>0, <1>3 DEF PullLoadsEpoch, PullLoadsWritten, Load, PullGoes, TypeInv, TypeOK, PluginOK,
                    ChunkInv, Copying
<1>4. CASE PullChecksEpoch
  <2>1. CASE epoch = local.epoch
    BY <1>4, <2>1, GoesTypes DEF PullChecksEpoch, Copying
  <2>2. CASE epoch # local.epoch
    BY <1>0, <1>4, <2>2, GoOfflineTypes DEF PullChecksEpoch
  <2> QED
    BY <2>1, <2>2
<1>5. CASE PullIsOffline
  BY <1>0, <1>5, GoOfflineTypes DEF PullIsOffline
<1>6. CASE PullIsOnline
  <2>1. PrefillFrom(local.written, FALSE) \in Positions
    BY <1>0, PrefillType
  <2>2. read_pos' \in Positions /\ floor' \in Positions /\ seen' \in 0 .. MaxEpoch
    BY <1>0, <1>6, <2>1, Zero DEF PullIsOnline, ResumeAt, TypeInv, TypeOK, PluginOK
  <2>3. playing' \in BOOLEAN /\ resync_requested' \in BOOLEAN /\ online' = TRUE
    BY <1>6, Zenon DEF PullIsOnline
  <2>4. /\ reader' = "reserved"
        /\ UNCHANGED <<view, local, chunk, count>>
    BY <1>6 DEF PullIsOnline, PullGoes
  <2> QED
    BY <2>2, <2>3, <2>4 DEF TypeInv, TypeOK, PluginOK, ChunkInv, Copying
<1>7. CASE PullWaitsForFormat
  BY <1>7, PullEndsTypes, Zero DEF PullWaitsForFormat, TypeInv, TypeOK, PluginOK, ChunkInv, Copying
<1>8. CASE PullFillsQueue
  <2>1. PrefillFrom(local.written, FALSE) \in Positions
    BY <1>0, PrefillType
  <2>2. read_pos \in Positions
    BY DEF TypeInv, TypeOK, PluginOK
  <2>3. \A f \in Positions : local.written - f >= Target => local.written - Target \in Positions
    BY <1>0, Numbers DEF Positions
  <2>4. read_pos' \in Positions
    BY <1>8, <2>1, <2>2, <2>3 DEF PullFillsQueue
  <2>5. playing' \in BOOLEAN
    BY <1>8, Zenon DEF PullFillsQueue
  <2>6. UNCHANGED <<view, online, seen>> /\ resync_requested' = FALSE /\ floor' \in {0, floor}
    BY <1>8 DEF PullFillsQueue
  <2>7. \/ reader' = "read" /\ UNCHANGED <<local, chunk, count>>
        \/ PullEnds
    BY <1>8 DEF PullFillsQueue, PullGoes
  <2> QED
    BY <2>4, <2>5, <2>6, <2>7, PullEndsTypes, Zero DEF TypeInv, TypeOK, PluginOK, ChunkInv, Copying
<1>9. CASE PullRunsDry
  BY <1>0, <1>9, PrefillType, PullEndsTypes, Zero
     DEF PullRunsDry, TypeInv, TypeOK, PluginOK, ChunkInv, Copying
<1>10. CASE PullValidatesEpoch
  <2>1. CASE StillIn(local.epoch)
    BY <1>10, <2>1, GoesTypes DEF PullValidatesEpoch, Copying
  <2>2. CASE ~ StillIn(local.epoch)
    BY <1>10, <2>2, ReadFailsTypes DEF PullValidatesEpoch
  <2> QED
    BY <2>1, <2>2
<1>11. CASE PullValidatesLive
  <2>1. CASE live_header
    BY <1>11, <2>1, GoesTypes DEF PullValidatesLive, Copying
  <2>2. CASE ~ live_header
    BY <1>11, <2>2, ReadFailsTypes DEF PullValidatesLive
  <2> QED
    BY <2>1, <2>2
<1>12. CASE Play
  <2>1. read_pos + count \in Positions
    BY <1>12, Numbers DEF Play, TypeInv, TypeOK, PluginOK, ChunkInv, Copying, Positions
  <2>2. floor' = read_pos + count /\ UNCHANGED <<view, online, resync_requested, seen>>
    BY <1>12 DEF Play
  <2>3. \/ /\ read_pos' = read_pos + count /\ chunk' = << >> /\ count' = 0
           /\ reader' = "read" /\ UNCHANGED <<playing, local>>
        \/ read_pos' = read_pos + count /\ PullEnds /\ UNCHANGED playing
        \/ read_pos' = PrefillFrom(write_frames, TRUE) /\ playing' = FALSE /\ PullEnds
    BY <1>12 DEF Play, PullGoes
  <2>4. DOMAIN << >> = {}
    OBVIOUS
  <2> QED
    BY <1>0, <2>1, <2>2, <2>3, <2>4, PrefillType, PullEndsTypes, Zero
       DEF TypeInv, TypeOK, PluginOK, ChunkInv, Copying
<1> QED
  BY <1>1, <1>2, <1>3, <1>4, <1>5, <1>6, <1>7, <1>8, <1>9, <1>10, <1>11, <1>12 DEF Pull

LEMMA ReadKeepsTypes ==
  ASSUME TypeInv, Read
  PROVE  PluginOK' /\ ChunkInv'
<1>0. write_frames \in Positions /\ local.written \in Positions /\ read_pos \in Positions
  BY DEF TypeInv, TypeOK, MappingOK, PluginOK
<1>1. CASE ReadChecksEpoch
  <2>1. CASE epoch = local.epoch
    BY <1>1, <2>1, GoesTypes DEF ReadChecksEpoch, Copying
  <2>2. CASE epoch # local.epoch
    BY <1>1, <2>2, ReadFailsTypes DEF ReadChecksEpoch
  <2> QED
    BY <2>1, <2>2
<1>2. CASE ReadLoadsWritten
  BY <1>0, <1>2 DEF ReadLoadsWritten, Load, PullGoes, TypeInv, TypeOK, PluginOK, ChunkInv, Copying
<1>3. CASE ReadLoadsReserved
  <2>1. CASE read_pos > local.written \/ BehindTheRing(local.written, reserved)
    BY <1>3, <2>1, ReadFailsTypes DEF ReadLoadsReserved
  <2>2. CASE ~ (read_pos > local.written \/ BehindTheRing(local.written, reserved))
    <3>1. /\ count' = local.written - read_pos /\ chunk' = << >>
          /\ reader' \in {"nothing", "copy"}
          /\ UNCHANGED <<view, online, playing, resync_requested, seen, read_pos, local, floor>>
      BY <1>3, <2>2 DEF ReadLoadsReserved, PullGoes
    <3>2. count' \in 0 .. Capacity - 1 /\ read_pos' + count' <= MaxFrames
      BY <1>0, <2>2, <3>1, Numbers DEF BehindTheRing, Positions
    <3>3. DOMAIN chunk' = {}
      BY <3>1
    <3> QED
      BY <3>1, <3>2, <3>3 DEF TypeInv, TypeOK, PluginOK, ChunkInv, Copying
  <2> QED
    BY <2>1, <2>2
<1>4. CASE CopyOut
  <2>1. PICK p \in read_pos .. read_pos + count - 1 :
          /\ reader = "copy"
          /\ chunk' = [q \in DOMAIN chunk \cup {p} |-> IF q = p THEN ring[Cell(p)] ELSE chunk[q]]
          /\ UNCHANGED <<view, reader, online, playing, resync_requested, seen, read_pos, local, count, floor>>
    BY <1>4 DEF CopyOut
  <2>2. p \in Positions
    BY <1>0, <2>1, Numbers DEF TypeInv, TypeOK, PluginOK, ChunkInv, Copying, Positions
  <2>3. ring[Cell(p)] \in Frames
    BY <2>2, CellType, Numbers DEF TypeInv, TypeOK, MappingOK, Positions
  <2> QED
    BY <2>1, <2>2, <2>3 DEF TypeInv, TypeOK, PluginOK, ChunkInv, Copying
<1>5. CASE ReadLoadsWrittenAgain
  BY <1>0, <1>5 DEF ReadLoadsWrittenAgain, Load, PullGoes, TypeInv, TypeOK, PluginOK, ChunkInv, Copying
<1>6. CASE ReadLoadsReservedAgain
  <2>1. CASE local.written < read_pos + count \/ BehindTheRing(local.written, reserved)
    BY <1>6, <2>1, ReadFailsTypes DEF ReadLoadsReservedAgain
  <2>2. CASE ~ (local.written < read_pos + count \/ BehindTheRing(local.written, reserved))
    BY <1>6, <2>2, GoesTypes DEF ReadLoadsReservedAgain, Copying
  <2> QED
    BY <2>1, <2>2
<1>7. CASE ReadChecksEpochAgain
  <2>1. CASE StillIn(local.epoch)
    BY <1>7, <2>1, GoesTypes DEF ReadChecksEpochAgain, Copying
  <2>2. CASE ~ StillIn(local.epoch)
    BY <1>7, <2>2, ReadFailsTypes DEF ReadChecksEpochAgain
  <2> QED
    BY <2>1, <2>2
<1> QED
  BY <1>1, <1>2, <1>3, <1>4, <1>5, <1>6, <1>7 DEF Read

LEMMA TypeStep == TypeInv /\ [Next]_vars => TypeInv'
<1> SUFFICES ASSUME TypeInv, [Next]_vars PROVE TypeInv'
  OBVIOUS
<1>1. CASE Audio
  BY <1>1, AudioKeepsTypes
<1>2. CASE Owner \/ Die
  BY <1>2, OwnerKeepsTypes
<1>3. CASE Pull \/ Read
  BY <1>3, PullKeepsTypes, ReadKeepsTypes, ReaderTouchesItsOwn
     DEF TypeInv, TypeOK, MappingOK, LivemixOK, RoomInv
<1>4. CASE OpenRing \/ resync
  <2>1. MappingOK' /\ LivemixOK' /\ ChunkInv' /\ RoomInv'
    BY <1>4 DEF OpenRing, resync, TypeInv, TypeOK, MappingOK, LivemixOK, ChunkInv, RoomInv
  <2>2. view' \in BOOLEAN /\ resync_requested' \in BOOLEAN
    BY <1>4, Zenon DEF OpenRing, resync, TypeInv, TypeOK, PluginOK
  <2>3. UNCHANGED <<reader, online, playing, seen, read_pos, local, chunk, count, floor>>
    BY <1>4 DEF OpenRing, resync
  <2> QED
    BY <2>1, <2>2, <2>3 DEF TypeInv, TypeOK, PluginOK
<1>5. CASE HeartbeatAges
  BY <1>5 DEF HeartbeatAges, TypeInv, TypeOK, MappingOK, LivemixOK, PluginOK, ChunkInv, RoomInv
<1>6. CASE UNCHANGED vars
  BY <1>6 DEF vars, TypeInv, TypeOK, MappingOK, LivemixOK, PluginOK, ChunkInv, RoomInv
<1> QED
  BY <1>1, <1>2, <1>3, <1>4, <1>5, <1>6 DEF Next, Environment

(* The state of the two processes and of the mapping is well-formed.       *)
THEOREM TypeCorrect == Spec => []TypeOK
<1>1. TypeInv => TypeOK
  BY DEF TypeInv
<1> QED
  BY <1>1, TypeHolds, TypeStep, PTL DEF Spec

-----------------------------------------------------------------------------
(* Epochs.  A cell is stamped with the epoch its frame was written in.  In *)
(* an epoch cells are only ever stamped with it, so the frames below       *)
(* write_frames that are still in the ring are of this epoch, and a cell   *)
(* the reader found stamped stays so until the epoch changes.              *)
Stamped(p) == ring[Cell(p)].epoch = epoch

WrittenInv ==
  /\ owner \in {"reservation", "heartbeat", "epoch"} => write_frames = 0
  /\ \A p \in 0 .. write_frames - 1 : p >= write_frames - Capacity => Stamped(p)
BlockInv ==
  audio = "copy" =>
    /\ block.start = write_frames /\ block.start <= block.next /\ block.next <= block.end
    /\ \A p \in block.start .. block.next - 1 : p >= block.end - Capacity => Stamped(p)

Taken == {"copy", "reservedAgain", "epochAgain"}
Valid == {"validate", "validateLive", "play"}

LocalInv ==
  /\ reader # "idle" => view
  /\ reader = "idle" => local.epoch = 0
  /\ local.epoch <= epoch
ReaderInv ==
  local.epoch = epoch =>
    /\ reader = "readReserved" =>
         \A p \in 0 .. local.written - 1 : p >= local.written - Capacity => Stamped(p)
    /\ reader \in Taken => \A p \in read_pos .. read_pos + count - 1 : Stamped(p)
    /\ reader \in Taken => \A p \in DOMAIN chunk : chunk[p].epoch = local.epoch
ValidInv == reader \in Valid => \A p \in DOMAIN chunk : chunk[p].epoch = local.epoch

EpochInv == WrittenInv /\ BlockInv /\ LocalInv /\ ReaderInv /\ ValidInv

LEMMA EpochHolds == Init => EpochInv
  BY DEF Init, EpochInv, WrittenInv, BlockInv, LocalInv, ReaderInv, ValidInv, Taken, Valid

LEMMA Ranges ==
  ASSUME TypeInv
  PROVE  /\ write_frames \in Nat /\ epoch \in Nat /\ read_pos \in Nat /\ count \in Nat
         /\ block.start \in Nat /\ block.next \in Nat /\ block.end \in Nat
         /\ local.epoch \in Nat /\ local.written \in Nat
  BY Numbers DEF TypeInv, TypeOK, MappingOK, LivemixOK, PluginOK, Positions

(* A frame that is copied in stamps its cell and unstamps none.            *)
LEMMA CopyStamps ==
  ASSUME TypeInv, CopyFrame
  PROVE  /\ ring'[Cell(block.next)].epoch = epoch'
         /\ \A p \in Nat : Stamped(p) => ring'[Cell(p)].epoch = epoch'
<1>1. block.next \in Nat /\ Cell(block.next) \in Cells
  BY Ranges, CellType
<1>2. ring \in [Cells -> Frames]
  BY DEF TypeInv, TypeOK, MappingOK
<1>3. ring' = [ring EXCEPT ![Cell(block.next)] = Frame(epoch, block.next)] /\ epoch' = epoch
  BY DEF CopyFrame
<1>4. Frame(epoch, block.next).epoch = epoch
  BY DEF Frame
<1>5. ring'[Cell(block.next)].epoch = epoch'
  BY <1>1, <1>2, <1>3, <1>4
<1>6. \A p \in Nat : Stamped(p) => ring'[Cell(p)].epoch = epoch'
  BY <1>1, <1>2, <1>3, <1>4, CellType DEF Stamped
<1> QED
  BY <1>5, <1>6

(* What the reader relies on survives any step that keeps its variables    *)
(* and the stamps of this epoch.                                           *)
LEMMA ReaderUndisturbed ==
  ASSUME TypeInv, EpochInv, UNCHANGED plugin, epoch' = epoch,
         \A p \in Nat : Stamped(p) => ring'[Cell(p)].epoch = epoch'
  PROVE  LocalInv' /\ ReaderInv' /\ ValidInv'
<1>1. LocalInv' /\ ValidInv'
  BY DEF EpochInv, LocalInv, ValidInv
<1>2. \A p \in Nat : Stamped(p) => Stamped(p)'
  BY DEF Stamped, Cell
<1>3. \A p \in 0 .. local.written - 1 : p \in Nat
  BY Ranges
<1>4. \A p \in read_pos .. read_pos + count - 1 : p \in Nat
  BY Ranges
<1>5. ReaderInv'
  BY <1>2, <1>3, <1>4 DEF EpochInv, ReaderInv
<1> QED
  BY <1>1, <1>5

LEMMA AudioKeepsEpochs ==
  ASSUME TypeInv, GateInv, EpochInv, Audio
  PROVE  EpochInv'
<1>1. /\ UNCHANGED <<epoch, owner>> /\ UNCHANGED plugin
      /\ \A p \in Nat : Stamped(p) => ring'[Cell(p)].epoch = epoch'
  <2>1. CASE CopyFrame
    BY <2>1, CopyStamps DEF CopyFrame
  <2>2. CASE ~ CopyFrame
    BY <2>2 DEF Audio, EnterGate, Reserve, ReserveNoMore, Commit, Beat, LeaveGate, Stamped
  <2> QED
    BY <2>1, <2>2
<1>2. LocalInv' /\ ReaderInv' /\ ValidInv'
  BY <1>1, ReaderUndisturbed
<1>3. \A p \in Nat : Stamped(p) => Stamped(p)'
  BY <1>1 DEF Stamped, Cell
<1>4. ~ (owner \in {"reservation", "heartbeat", "epoch"})
  BY DEF Audio, EnterGate, Reserve, ReserveNoMore, CopyFrame, Commit, Beat, LeaveGate, GateOpen,
         GateInv, OwnerIsAlone, Resetting
<1>5. CASE EnterGate \/ ReserveNoMore \/ Beat \/ LeaveGate
  <2>1. write_frames' = write_frames /\ ring' = ring /\ audio' # "copy"
    BY <1>5 DEF EnterGate, ReserveNoMore, Beat, LeaveGate
  <2>2. WrittenInv'
    BY <1>1, <1>4, <2>1 DEF EpochInv, WrittenInv, Stamped, Cell
  <2> QED
    BY <1>2, <2>1, <2>2 DEF EpochInv, BlockInv
<1>6. CASE Reserve
  <2>1. /\ write_frames' = write_frames /\ ring' = ring
        /\ block'.start = write_frames /\ block'.start <= block'.next /\ block'.next <= block'.end
        /\ \A p \in block'.start .. block'.next - 1 : p < block'.end - Capacity
    <3>1. PICK n \in Blocks :
            block' = [start |-> write_frames,
                      next  |-> IF n > Capacity THEN write_frames + n - Capacity ELSE write_frames,
                      end   |-> write_frames + n]
      BY <1>6 DEF Reserve
    <3>2. n \in Nat \ {0} /\ write_frames \in Nat /\ Capacity \in Nat
      BY SizesAssumption, Ranges, Numbers
    <3>3. write_frames' = write_frames /\ ring' = ring
      BY <1>6 DEF Reserve
    <3> QED
      BY <3>1, <3>2, <3>3
  <2>2. WrittenInv'
    BY <1>1, <1>4, <2>1 DEF EpochInv, WrittenInv, Stamped, Cell
  <2>3. BlockInv'
    <3>1. \A p \in block'.start .. block'.next - 1 : ~ (p >= block'.end - Capacity)
      BY <2>1, Numbers, Ranges, AudioKeepsTypes DEF TypeInv, TypeOK, LivemixOK, Positions
    <3> QED
      BY <2>1, <3>1 DEF BlockInv
  <2> QED
    BY <1>2, <2>2, <2>3 DEF EpochInv
<1>7. CASE CopyFrame
  <2>1. /\ write_frames' = write_frames /\ audio' = audio /\ audio = "copy"
        /\ block'.start = block.start /\ block'.next = block.next + 1 /\ block'.end = block.end
        /\ block.next < block.end
    BY <1>7 DEF CopyFrame, TypeInv, TypeOK, LivemixOK
  <2>2. WrittenInv'
    BY <1>1, <1>3, <1>4, <2>1, Ranges DEF EpochInv, WrittenInv
  <2>3. ring'[Cell(block.next)].epoch = epoch'
    BY <1>7, CopyStamps
  <2>4. \A p \in block.start .. block.next : p >= block.end - Capacity => Stamped(p)'
    <3>1. \A p \in block.start .. block.next : p = block.next \/ p \in block.start .. block.next - 1
      BY Ranges
    <3>2. \A p \in block.start .. block.next - 1 : p \in Nat
      BY Ranges
    <3> QED
      BY <1>3, <2>1, <2>3, <3>1, <3>2 DEF EpochInv, BlockInv, Stamped, Cell
  <2>5. BlockInv'
    BY <2>1, <2>4, Ranges DEF EpochInv, BlockInv
  <2> QED
    BY <1>2, <2>2, <2>5 DEF EpochInv
<1>8. CASE Commit
  <2>1. write_frames' = block.end /\ ring' = ring /\ audio' # "copy" /\ audio = "copy" /\ block.next = block.end
    BY <1>8 DEF Commit
  <2>2. \A p \in 0 .. block.end - 1 : p >= block.end - Capacity => Stamped(p)
    <3>1. /\ block.start = write_frames /\ block.start <= block.end
          /\ \A p \in block.start .. block.end - 1 : p >= block.end - Capacity => Stamped(p)
          /\ \A p \in 0 .. write_frames - 1 : p >= write_frames - Capacity => Stamped(p)
      BY <2>1 DEF EpochInv, BlockInv, WrittenInv
    <3>2. \A p \in 0 .. block.end - 1 : \/ p \in block.start .. block.end - 1
                                        \/ p \in 0 .. write_frames - 1
      BY <3>1, Ranges
    <3>3. \A p \in 0 .. write_frames - 1 : p >= block.end - Capacity => p >= write_frames - Capacity
      BY <3>1, Ranges, Numbers
    <3> QED
      BY <3>1, <3>2, <3>3
  <2>3. WrittenInv'
    BY <1>1, <1>4, <2>1, <2>2 DEF WrittenInv, Stamped, Cell
  <2> QED
    BY <1>2, <2>1, <2>3 DEF EpochInv, BlockInv
<1> QED
  BY <1>5, <1>6, <1>7, <1>8 DEF Audio

(* The owner, while the audio thread is outside: a new epoch begins with   *)
(* no frame, and the reader's epoch is then an earlier one.                *)
LEMMA OwnerKeepsEpochs ==
  ASSUME TypeInv, GateInv, EpochInv, Owner
  PROVE  EpochInv'
<1>1. UNCHANGED plugin /\ ring' = ring /\ block' = block /\ audio' = audio
  BY DEF Owner, Enable, Disable, deviceStarted, OwnerCalls, OwnerGoesOn, stopWrites, OwnerGoes,
         openMappings, openMappingsFails, ResetEpoch, ResetSend, ResetPosition, ResetReservation,
         ResetHeartbeat, PublishEpoch, Send, OpenGate
<1>2. CASE PublishEpoch
  <2>1. epoch' = epoch + 1 /\ write_frames' = 0 /\ audio' = "idle" /\ owner' = "send"
    BY <1>1, <1>2 DEF PublishEpoch, OwnerGoes, EpochInv, WrittenInv, GateInv, OwnerIsAlone, Resetting
  <2>2. local'.epoch < epoch'
    BY <1>1, <2>1, Ranges DEF EpochInv, LocalInv
  <2>3. LocalInv' /\ ReaderInv' /\ ValidInv'
    BY <1>1, <2>1, <2>2, Ranges DEF EpochInv, LocalInv, ReaderInv, ValidInv
  <2>4. WrittenInv' /\ BlockInv'
    BY <2>1 DEF WrittenInv, BlockInv
  <2> QED
    BY <2>3, <2>4 DEF EpochInv
<1>3. CASE ResetPosition
  <2>1. epoch' = epoch /\ write_frames' = 0 /\ audio' = "idle"
    BY <1>1, <1>3 DEF ResetPosition, OwnerGoes, GateInv, OwnerIsAlone, Resetting
  <2>2. WrittenInv' /\ BlockInv'
    BY <2>1 DEF WrittenInv, BlockInv
  <2>3. LocalInv' /\ ReaderInv' /\ ValidInv'
    BY <1>1, <2>1, ReaderUndisturbed DEF Stamped
  <2> QED
    BY <2>2, <2>3 DEF EpochInv
<1>4. CASE ~ PublishEpoch /\ ~ ResetPosition
  <2>1. epoch' = epoch /\ write_frames' = write_frames
    BY <1>4 DEF Owner, Enable, Disable, deviceStarted, OwnerCalls, OwnerGoesOn, stopWrites, OwnerGoes,
         openMappings, openMappingsFails, ResetEpoch, ResetSend, ResetReservation,
         ResetHeartbeat, Send, OpenGate
  <2>2. owner' \in {"reservation", "heartbeat", "epoch"} => owner \in {"reservation", "heartbeat", "epoch"}
    BY <1>4 DEF Owner, Enable, Disable, deviceStarted, OwnerCalls, OwnerGoesOn, stopWrites, OwnerGoes,
         openMappings, openMappingsFails, ResetEpoch, ResetSend, ResetReservation,
         ResetHeartbeat, Send, OpenGate
  <2>3. WrittenInv' /\ BlockInv'
    BY <1>1, <2>1, <2>2 DEF EpochInv, WrittenInv, BlockInv, Stamped, Cell
  <2>4. LocalInv' /\ ReaderInv' /\ ValidInv'
    BY <1>1, <2>1, ReaderUndisturbed DEF Stamped
  <2> QED
    BY <2>3, <2>4 DEF EpochInv
<1> QED
  BY <1>2, <1>3, <1>4

LEMMA DieKeepsEpochs ==
  ASSUME TypeInv, EpochInv, Die
  PROVE  EpochInv'
<1>1. UNCHANGED plugin /\ audio' = "idle" /\ owner' = "idle"
  BY DEF Die
<1>2. CASE view
  <2>1. UNCHANGED mapping
    BY <1>2 DEF Die
  <2>2. WrittenInv' /\ BlockInv'
    BY <1>1, <2>1 DEF EpochInv, WrittenInv, BlockInv, Stamped, Cell
  <2> QED
    BY <1>1, <2>1, <2>2, ReaderUndisturbed DEF EpochInv, Stamped
<1>3. CASE ~ view
  <2>1. epoch' = 0 /\ write_frames' = 0
    BY <1>3 DEF Die
  <2>2. reader = "idle" /\ local.epoch = 0
    BY <1>3 DEF EpochInv, LocalInv
  <2> QED
    BY <1>1, <2>1, <2>2 DEF EpochInv, WrittenInv, BlockInv, LocalInv, ReaderInv, ValidInv, Taken, Valid
<1> QED
  BY <1>2, <1>3

(* The reader.  When a pull ends nothing is left to be of an epoch.        *)
LEMMA PullEndsEpochs ==
  ASSUME TypeInv, PullEnds, epoch' = epoch, view' = view
  PROVE  LocalInv' /\ ReaderInv' /\ ValidInv'
<1>1. reader' = "idle" /\ local'.epoch = 0
  BY DEF PullEnds
<1> QED
  BY <1>1, Ranges DEF LocalInv, ReaderInv, ValidInv, Taken, Valid

LEMMA ReaderKeepsEpochs ==
  ASSUME TypeInv, EpochInv, Pull \/ Read
  PROVE  EpochInv'
<1>1. UNCHANGED <<mapping, livemix>>
  BY ReaderTouchesItsOwn
<1>2. WrittenInv' /\ BlockInv'
  BY <1>1 DEF EpochInv, WrittenInv, BlockInv, Stamped, Cell
<1>3. \A p \in Nat : Stamped(p)' <=> Stamped(p)
  BY <1>1 DEF Stamped, Cell
<1>4. view' = view
  BY DEF Pull, Read, PullFindsNothing, PullBegins,
         PullLoadsEpoch, PullLoadsWritten, PullChecksEpoch, PullIsOffline, PullIsOnline,
         PullWaitsForFormat, PullFillsQueue, PullRunsDry, PullValidatesEpoch,
         PullValidatesLive, Play, ReadChecksEpoch, ReadLoadsWritten, ReadLoadsReserved,
         CopyOut, ReadLoadsWrittenAgain, ReadLoadsReservedAgain, ReadChecksEpochAgain,
         GoOffline, ReadFails, Invalidated, Load
<1>5. CASE PullEnds
  BY <1>1, <1>2, <1>4, <1>5, PullEndsEpochs DEF EpochInv
<1> SUFFICES ASSUME ~ PullEnds PROVE LocalInv' /\ ReaderInv' /\ ValidInv'
  BY <1>2, <1>5 DEF EpochInv
<1> USE DEF PullGoes, GoOffline, ReadFails, Invalidated, Load
<1>6. CASE PullBegins \/ PullLoadsEpoch \/ PullLoadsWritten \/ PullChecksEpoch \/ PullIsOnline
           \/ PullFillsQueue \/ ReadChecksEpoch \/ Play
  <2>1. reader' \in {"epoch", "written", "sameEpoch", "stillLive", "reserved", "read", "readWritten"}
    BY <1>6 DEF PullBegins, PullLoadsEpoch, PullLoadsWritten, PullChecksEpoch, PullIsOnline,
                PullFillsQueue, ReadChecksEpoch, Play
  <2>2. local'.epoch \in {local.epoch, epoch} /\ epoch' = epoch
    BY <1>1, <1>6 DEF PullBegins, PullLoadsEpoch, PullLoadsWritten, PullChecksEpoch, PullIsOnline,
                PullFillsQueue, ReadChecksEpoch, Play, TypeInv, TypeOK, PluginOK
  <2>3. view
    BY <1>6 DEF PullBegins, PullLoadsEpoch, PullLoadsWritten, PullChecksEpoch, PullIsOnline,
                PullFillsQueue, ReadChecksEpoch, Play, EpochInv, LocalInv
  <2> QED
    BY <1>4, <2>1, <2>2, <2>3, Ranges DEF EpochInv, LocalInv, ReaderInv, ValidInv, Taken, Valid
<1>7. CASE ReadLoadsWritten
  <2>1. /\ reader = "readWritten" /\ reader' = "readReserved"
        /\ local'.epoch = local.epoch /\ local'.written = write_frames /\ epoch' = epoch
    BY <1>1, <1>7 DEF ReadLoadsWritten, TypeInv, TypeOK, PluginOK
  <2>2. \A p \in 0 .. write_frames - 1 : p >= write_frames - Capacity => Stamped(p)'
    BY <1>3, Ranges DEF EpochInv, WrittenInv
  <2>3. LocalInv' /\ ValidInv'
    BY <1>4, <2>1 DEF EpochInv, LocalInv, ValidInv, Valid
  <2> QED
    BY <2>1, <2>2, <2>3 DEF ReaderInv, Taken
<1>8. CASE ReadLoadsReserved
  <2>1. /\ reader = "readReserved" /\ reader' \in {"nothing", "copy"} /\ chunk' = << >>
        /\ read_pos <= local.written /\ local.written - read_pos < Capacity
        /\ count' = local.written - read_pos /\ read_pos' = read_pos
        /\ local' = local /\ epoch' = epoch
    <3>1. ~ (read_pos > local.written) /\ ~ BehindTheRing(local.written, reserved)
      BY <1>8 DEF ReadLoadsReserved
    <3>2. read_pos <= local.written /\ local.written - read_pos < Capacity
      BY <3>1, Ranges, Numbers DEF BehindTheRing
    <3> QED
      BY <1>1, <1>8, <3>1, <3>2 DEF ReadLoadsReserved
  <2>2. local.epoch = epoch => \A p \in read_pos .. local.written - 1 : Stamped(p)'
    <3>1. \A p \in read_pos .. local.written - 1 : p \in 0 .. local.written - 1 /\ p >= local.written - Capacity
      BY <2>1, Ranges, Numbers
    <3> QED
      BY <1>3, <2>1, <3>1, Ranges DEF EpochInv, ReaderInv
  <2>3. read_pos' + count' - 1 = local.written - 1
    BY <2>1, Ranges
  <2>4. DOMAIN chunk' = {}
    BY <2>1
  <2>5. LocalInv' /\ ValidInv'
    BY <1>4, <2>1 DEF EpochInv, LocalInv, ValidInv, Valid
  <2> QED
    BY <2>1, <2>2, <2>3, <2>4, <2>5 DEF ReaderInv, Taken
<1>9. CASE CopyOut
  <2>1. PICK p \in read_pos .. read_pos + count - 1 :
          /\ reader = "copy"
          /\ chunk' = [q \in DOMAIN chunk \cup {p} |-> IF q = p THEN ring[Cell(p)] ELSE chunk[q]]
          /\ UNCHANGED <<reader, read_pos, local, count>>
    BY <1>9 DEF CopyOut
  <2>2. local.epoch = epoch => ring[Cell(p)].epoch = local.epoch
    BY <2>1 DEF EpochInv, ReaderInv, Taken, Stamped
  <2>3. local.epoch = epoch => \A q \in DOMAIN chunk' : chunk'[q].epoch = local.epoch
    BY <2>1, <2>2 DEF EpochInv, ReaderInv, Taken
  <2>4. local.epoch = epoch => \A q \in read_pos .. read_pos + count - 1 : Stamped(q)'
    BY <1>3, <2>1, Ranges DEF EpochInv, ReaderInv, Taken
  <2>5. LocalInv' /\ ValidInv'
    BY <1>1, <1>4, <2>1 DEF EpochInv, LocalInv, ValidInv, Valid
  <2> QED
    BY <1>1, <2>1, <2>3, <2>4, <2>5 DEF ReaderInv, Taken
<1>10. CASE ReadLoadsWrittenAgain \/ ReadLoadsReservedAgain
  <2>1. /\ reader \in Taken /\ reader' \in Taken
        /\ UNCHANGED <<read_pos, chunk, count>> /\ local'.epoch = local.epoch /\ epoch' = epoch
    BY <1>1, <1>10 DEF ReadLoadsWrittenAgain, ReadLoadsReservedAgain, Taken, TypeInv, TypeOK, PluginOK
  <2>2. LocalInv' /\ ValidInv'
    BY <1>4, <2>1 DEF EpochInv, LocalInv, ValidInv, Valid, Taken
  <2>3. local.epoch = epoch => \A q \in read_pos .. read_pos + count - 1 : Stamped(q)'
    BY <1>3, <2>1, Ranges DEF EpochInv, ReaderInv
  <2> QED
    BY <2>1, <2>2, <2>3 DEF EpochInv, ReaderInv, Taken
<1>11. CASE ReadChecksEpochAgain \/ PullValidatesEpoch \/ PullValidatesLive
  <2>1. /\ reader \in Valid \/ (reader = "epochAgain" /\ epoch = local.epoch)
        /\ reader' \in Valid
        /\ chunk' = chunk /\ local' = local /\ epoch' = epoch
    BY <1>1, <1>11 DEF ReadChecksEpochAgain, PullValidatesEpoch, PullValidatesLive, StillIn, Valid
  <2>2. LocalInv' /\ ValidInv'
    BY <1>4, <2>1 DEF EpochInv, LocalInv, ReaderInv, ValidInv, Valid, Taken
  <2> QED
    BY <2>1, <2>2 DEF ReaderInv, Valid, Taken
<1>12. ~ (PullFindsNothing \/ PullIsOffline \/ PullWaitsForFormat)
  BY DEF PullFindsNothing, PullIsOffline, PullWaitsForFormat
<1>13. PullRunsDry => PullEnds
  BY DEF PullRunsDry
<1> QED
  BY <1>6, <1>7, <1>8, <1>9, <1>10, <1>11, <1>12, <1>13 DEF Pull, Read

LEMMA EpochStep == TypeInv /\ GateInv /\ EpochInv /\ [Next]_vars => EpochInv'
<1> SUFFICES ASSUME TypeInv, GateInv, EpochInv, [Next]_vars PROVE EpochInv'
  OBVIOUS
<1>1. CASE Audio
  BY <1>1, AudioKeepsEpochs
<1>2. CASE Owner
  BY <1>2, OwnerKeepsEpochs
<1>3. CASE Die
  BY <1>3, DieKeepsEpochs
<1>4. CASE Pull \/ Read
  BY <1>4, ReaderKeepsEpochs
<1>5. CASE OpenRing \/ HeartbeatAges \/ resync \/ UNCHANGED vars
  <2>1. /\ UNCHANGED <<epoch, write_frames, ring, audio, block, owner, reader, read_pos, local, chunk, count>>
        /\ view => view'
    BY <1>5 DEF OpenRing, HeartbeatAges, resync, vars
  <2> QED
    BY <2>1 DEF EpochInv, WrittenInv, BlockInv, LocalInv, ReaderInv, ValidInv, Stamped, Cell
<1> QED
  BY <1>1, <1>2, <1>3, <1>4, <1>5 DEF Next, Environment

(* Whatever happens to LiveMix, a chunk the plugin plays is of one epoch.  *)
THEOREM OneEpoch == Spec => []EpochsAreNotMixed
<1>1. EpochInv => EpochsAreNotMixed
  BY DEF EpochInv, ValidInv, Valid, EpochsAreNotMixed
<1> QED
  BY <1>1, TypeHolds, TypeStep, GateHolds, GateStep, EpochHolds, EpochStep, PTL DEF Spec

-----------------------------------------------------------------------------
(* What the plugin plays within a stream is what LiveMix wrote, frame by   *)
(* frame, and it plays no frame twice, for every capacity, every target,   *)
(* every set of block sizes and every interleaving of the three threads.   *)
(*                                                                         *)
(* A frame is overwritten only after a reservation that reaches Capacity   *)
(* frames past it.  So the frames that lie less than Capacity behind the   *)
(* reservation are in the ring, and those that the reader has copied are   *)
(* good as long as they lie there; the second look at the reservation says *)
(* that all of them did.  This holds while the positions only grow: once   *)
(* the owner takes them back nothing is written until the epoch is raised. *)

Back == {"sendOff", "position", "reservation", "heartbeat", "epoch"}
Dead == ~ published \/ owner \in Back

Holds(p) == ring[Cell(p)] = Frame(epoch, p)
Kept(p)  == p >= reserved - Capacity

PositionsInv ==
  /\ write_frames <= reserved
  /\ audio \in {"reserve", "copy", "beat"} => published
  /\ audio = "copy" => reserved = block.end
  /\ published /\ owner \notin {"sendOff", "position", "reservation"} /\ audio # "copy" =>
       reserved = write_frames

ContentInv ==
  /\ \A p \in 0 .. write_frames - 1 : Kept(p) => Holds(p)
  /\ audio = "copy" => \A p \in block.start .. block.next - 1 : Kept(p) => Holds(p)

(* The stream the reader is in goes on.                                    *)
SameStream == epoch = local.epoch /\ reserved >= local.written

BoundsInv ==
  /\ reader \in {"idle", "epoch", "written"} => local.written = 0
  /\ local.epoch = epoch /\ write_frames < local.written => Dead
  /\ reader = "copy" => read_pos + count = local.written
  /\ reader \in Taken \cup Valid => DOMAIN chunk \subseteq read_pos .. read_pos + count - 1
  /\ reader \in {"epochAgain"} \cup Valid => local.written >= read_pos + count

ReadableInv ==
  SameStream /\ reader \in {"readReserved", "copy"} =>
    \A p \in 0 .. local.written - 1 : Kept(p) => Holds(p)

CopiedInv ==
  SameStream /\ reader \in {"copy", "reservedAgain"} /\ local.written >= read_pos + count =>
    \A p \in DOMAIN chunk : Kept(p) => chunk[p] = Frame(epoch, p)

AcceptedInv ==
  SameStream /\ reader \in {"epochAgain"} \cup Valid =>
    \A p \in DOMAIN chunk : chunk[p] = Frame(epoch, p)

StreamInv == PositionsInv /\ ContentInv /\ BoundsInv /\ ReadableInv /\ CopiedInv /\ AcceptedInv
AllInv == TypeInv /\ GateInv /\ EpochInv /\ StreamInv

-----------------------------------------------------------------------------
(* Two positions less than Capacity apart have cells of their own.         *)
LEMMA CellsDiffer ==
  ASSUME NEW p \in Nat, NEW q \in Nat, p < q, q - p < Capacity
  PROVE  Cell(p) # Cell(q)
<1>1. \A n \in Nat : n = Capacity * (n \div Capacity) + (n % Capacity) /\ n \div Capacity \in Nat
  BY Numbers, Z3
<1>2. ASSUME NEW a \in Nat, NEW b \in Nat, NEW d \in Int, d > 0, d < Capacity,
             Capacity * b = Capacity * a + d
      PROVE  FALSE
  BY <1>2, Numbers, Z3
<1>3. ASSUME p % Capacity = q % Capacity PROVE FALSE
  <2>1. Capacity * (q \div Capacity) = Capacity * (p \div Capacity) + (q - p)
    BY <1>1, <1>3, Numbers, Z3
  <2> QED BY <1>1, <1>2, <2>1
<1> QED BY <1>3 DEF Cell

LEMMA StreamRanges ==
  ASSUME TypeInv
  PROVE  /\ write_frames \in Nat /\ reserved \in Nat /\ epoch \in Nat /\ Capacity \in Nat \ {0}
         /\ read_pos \in Nat /\ count \in Nat
         /\ block.start \in Nat /\ block.next \in Nat /\ block.end \in Nat
         /\ local.epoch \in Nat /\ local.written \in Nat
         /\ \A p \in DOMAIN chunk : p \in Nat
  BY Numbers DEF TypeInv, TypeOK, MappingOK, LivemixOK, PluginOK, Positions

LEMMA StreamHolds == Init => StreamInv
  BY DEF Init, StreamInv, PositionsInv, ContentInv, BoundsInv, ReadableInv, CopiedInv, AcceptedInv,
         Taken, Valid, Dead

-----------------------------------------------------------------------------
(* A step of LiveMix leaves the reader what it had, if it overwrites none  *)
(* of the frames that stay kept, and does not let a stream begin anew.     *)
Leaves ==
  /\ SameStream' => /\ SameStream /\ epoch' = epoch
                    /\ \A p \in 0 .. local.written - 1 :
                         Kept(p)' => Kept(p) /\ (Holds(p) => Holds(p)')
  /\ local.epoch = epoch' /\ write_frames' < local.written => Dead'

LEMMA ReaderKeepsItsFrames ==
  ASSUME AllInv, UNCHANGED plugin, Leaves
  PROVE  BoundsInv' /\ ReadableInv' /\ CopiedInv' /\ AcceptedInv'
<1>t. TypeInv /\ BoundsInv /\ ReadableInv /\ CopiedInv /\ AcceptedInv
  BY DEF AllInv, StreamInv
<1>1. BoundsInv'
  BY <1>t DEF BoundsInv, Leaves, Dead
<1>2. ReadableInv'
  BY <1>t DEF ReadableInv, Leaves, SameStream, Kept, Holds
<1>3. ASSUME SameStream', reader \in Taken \cup Valid, local.written >= read_pos + count,
             NEW p \in DOMAIN chunk
      PROVE  SameStream /\ p \in 0 .. local.written - 1 /\ epoch' = epoch
  BY <1>3, <1>t, StreamRanges DEF BoundsInv, Leaves
<1>4. CopiedInv'
  <2> SUFFICES ASSUME SameStream', reader \in {"copy", "reservedAgain"}, local.written >= read_pos + count,
                      NEW p \in DOMAIN chunk, Kept(p)'
               PROVE  chunk[p] = Frame(epoch', p)
    BY DEF CopiedInv, Kept, Frame
  <2>1. SameStream /\ p \in 0 .. local.written - 1 /\ epoch' = epoch
    BY <1>3 DEF Taken
  <2>2. Kept(p)
    BY <2>1 DEF Leaves
  <2> QED BY <1>t, <2>1, <2>2 DEF CopiedInv
<1>5. AcceptedInv'
  <2> SUFFICES ASSUME SameStream', reader \in {"epochAgain"} \cup Valid, NEW p \in DOMAIN chunk
               PROVE  chunk[p] = Frame(epoch', p)
    BY DEF AcceptedInv, Frame
  <2>1. SameStream /\ epoch' = epoch
    BY DEF Leaves
  <2> QED BY <1>t, <2>1 DEF AcceptedInv
<1> QED BY <1>1, <1>2, <1>4, <1>5

-----------------------------------------------------------------------------
(* The audio thread, which is never inside while the stream is dead.       *)
LEMMA AliveInside ==
  ASSUME AllInv, audio \in {"reserve", "copy", "beat"}
  PROVE  /\ published /\ owner \notin Back /\ ~ Dead
         /\ epoch = local.epoch => local.written <= write_frames
<1>1. published /\ owner \notin Back
  BY DEF AllInv, StreamInv, PositionsInv, GateInv, OwnerIsAlone, Resetting, Back
<1>2. ~ Dead
  BY <1>1 DEF Dead
<1>3. epoch = local.epoch => local.written <= write_frames
  BY <1>2, StreamRanges DEF AllInv, StreamInv, BoundsInv
<1> QED BY <1>1, <1>2, <1>3

(* A frame that is copied in overwrites none that is kept.                 *)
LEMMA CopyOverwritesNone ==
  ASSUME AllInv, CopyFrame
  PROVE  /\ epoch' = epoch /\ reserved' = reserved
         /\ ring'[Cell(block.next)] = Frame(epoch, block.next)
         /\ \A p \in Nat : p < block.next /\ Kept(p) => ring'[Cell(p)] = ring[Cell(p)]
<1>1. /\ audio = "copy" /\ block.next < block.end /\ block.end = reserved
      /\ ring' = [ring EXCEPT ![Cell(block.next)] = Frame(epoch, block.next)]
      /\ epoch' = epoch /\ reserved' = reserved
  BY DEF CopyFrame, AllInv, StreamInv, PositionsInv
<1>2. ring \in [Cells -> Frames] /\ TypeInv
  BY DEF AllInv, TypeInv, TypeOK, MappingOK
<1>3. \A p \in Nat : p < block.next /\ Kept(p) => Cell(p) # Cell(block.next)
  <2> SUFFICES ASSUME NEW p \in Nat, p < block.next, Kept(p) PROVE Cell(p) # Cell(block.next)
    OBVIOUS
  <2>1. block.next - p < Capacity /\ block.next \in Nat
    BY <1>1, <1>2, StreamRanges DEF Kept
  <2> QED BY <2>1, CellsDiffer
<1>4. \A p \in Nat : Cell(p) \in Cells
  BY CellType
<1>5. block.next \in Nat
  BY <1>2, StreamRanges
<1> QED BY <1>1, <1>2, <1>3, <1>4, <1>5

LEMMA AudioKeepsStream ==
  ASSUME AllInv, Audio
  PROVE  StreamInv'
<1>t. TypeInv /\ GateInv /\ PositionsInv /\ ContentInv /\ BoundsInv
  BY DEF AllInv, StreamInv
<1>u. UNCHANGED plugin /\ UNCHANGED <<epoch, published, owner>>
  BY DEF Audio, EnterGate, Reserve, ReserveNoMore, CopyFrame, Commit, Beat, LeaveGate
<1> SUFFICES PositionsInv' /\ ContentInv' /\ Leaves
  BY <1>u, ReaderKeepsItsFrames DEF StreamInv
<1>1. CASE EnterGate \/ ReserveNoMore \/ Beat \/ LeaveGate
  <2>1. /\ UNCHANGED <<write_frames, reserved, ring, block>> /\ audio' # "copy" /\ audio # "copy"
        /\ audio' \in {"reserve", "copy", "beat"} => published
    BY <1>1 DEF EnterGate, ReserveNoMore, Beat, LeaveGate
  <2>2. PositionsInv'
    BY <1>t, <1>u, <2>1 DEF PositionsInv
  <2>3. ContentInv'
    BY <1>t, <1>u, <2>1 DEF ContentInv, Kept, Holds, Cell
  <2>4. Leaves
    BY <1>t, <1>u, <2>1 DEF Leaves, SameStream, Kept, Holds, Cell, BoundsInv, Dead
  <2> QED BY <2>2, <2>3, <2>4
<1>2. CASE Reserve
  <2>1. PICK n \in Blocks :
          /\ block' = [start |-> write_frames,
                       next  |-> IF n > Capacity THEN write_frames + n - Capacity ELSE write_frames,
                       end   |-> write_frames + n]
          /\ reserved' = write_frames + n
    BY <1>2 DEF Reserve
  <2>2. n \in Nat \ {0} /\ write_frames \in Nat /\ reserved \in Nat /\ Capacity \in Nat
        /\ local.written \in Nat
    BY SizesAssumption, <1>t, StreamRanges
  <2>3. UNCHANGED <<write_frames, ring>> /\ audio' = "copy" /\ audio = "reserve"
    BY <1>2 DEF Reserve
  <2>4. /\ published /\ reserved = write_frames
        /\ epoch = local.epoch => local.written <= write_frames
    BY <2>3, <1>t, AliveInside DEF PositionsInv, Back
  <2>5. PositionsInv'
    BY <1>u, <2>1, <2>2, <2>3, <2>4 DEF PositionsInv
  <2>6. \A p \in Nat : Kept(p)' => Kept(p)
    BY <2>1, <2>2, <2>4 DEF Kept
  <2>7. \A p \in block'.start .. block'.next - 1 : ~ (p >= reserved' - Capacity)
    BY <2>1, <2>2
  <2>8. ContentInv'
    <3>1. \A p \in 0 .. write_frames - 1 : Kept(p) => Holds(p)
      BY <1>t DEF ContentInv
    <3> QED BY <1>u, <2>2, <2>3, <2>6, <2>7, <3>1 DEF ContentInv, Holds, Kept, Cell
  <2>9. Leaves
    <3>1. SameStream' => SameStream
      BY <1>u, <2>2, <2>4 DEF SameStream
    <3>2. local.epoch = epoch' /\ write_frames' < local.written => Dead'
      BY <1>u, <2>2, <2>3, <2>4
    <3> QED BY <1>u, <2>2, <2>3, <2>6, <3>1, <3>2 DEF Leaves, Holds, Cell
  <2> QED BY <2>5, <2>8, <2>9
<1>3. CASE CopyFrame
  <2>1. /\ UNCHANGED <<write_frames, reserved>> /\ audio' = audio /\ audio = "copy"
        /\ block'.start = block.start /\ block'.next = block.next + 1 /\ block'.end = block.end
        /\ block.next < block.end
    BY <1>3, <1>t DEF CopyFrame, TypeInv, TypeOK, LivemixOK
  <2>2. /\ write_frames \in Nat /\ block.next \in Nat /\ block.start \in Nat /\ local.written \in Nat
        /\ block.start = write_frames /\ write_frames <= block.next
    BY <1>t, <2>1, StreamRanges DEF AllInv, EpochInv, BlockInv
  <2>3. epoch = local.epoch => local.written <= write_frames
    BY <2>1, AliveInside
  <2>4. PositionsInv'
    BY <1>t, <1>u, <2>1 DEF PositionsInv
  <2>5. \A p \in Nat : Kept(p)' <=> Kept(p)
    BY <2>1 DEF Kept
  <2>6. \A p \in Nat : p < block.next /\ Kept(p) /\ Holds(p) => Holds(p)'
    BY <1>3, <1>u, CopyOverwritesNone DEF Holds, Cell, Frame
  <2>7. ring'[Cell(block.next)] = Frame(epoch', block.next)
    BY <1>3, <1>u, CopyOverwritesNone
  <2>8. ContentInv'
    <3>1. \A p \in 0 .. write_frames - 1 : Kept(p) => Holds(p)'
      BY <1>t, <2>2, <2>6 DEF ContentInv
    <3>2. \A p \in block.start .. block.next - 1 : Kept(p) => Holds(p)'
      BY <1>t, <2>1, <2>2, <2>6 DEF ContentInv
    <3>3. \A p \in block.start .. block.next : Kept(p) => Holds(p)'
      <4>1. \A p \in block.start .. block.next : p \in block.start .. block.next - 1 \/ p = block.next
        BY <2>2
      <4> QED BY <2>7, <3>2, <4>1 DEF Holds, Cell, Frame
    <3>4. block'.next - 1 = block.next
      BY <2>1, <2>2
    <3> QED BY <2>1, <2>2, <2>5, <3>1, <3>3, <3>4 DEF ContentInv, Kept
  <2>9. Leaves
    <3>1. SameStream' => SameStream
      BY <1>u, <2>1 DEF SameStream
    <3>2. SameStream' => \A p \in 0 .. local.written - 1 : p \in Nat /\ p < block.next
      BY <1>u, <2>2, <2>3 DEF SameStream
    <3>3. local.epoch = epoch' /\ write_frames' < local.written => Dead'
      BY <1>u, <2>1, <2>2, <2>3
    <3> QED BY <1>u, <2>5, <2>6, <3>1, <3>2, <3>3 DEF Leaves
  <2> QED BY <2>4, <2>8, <2>9
<1>4. CASE Commit
  <2>1. /\ write_frames' = block.end /\ audio = "copy" /\ audio' = "beat" /\ block.next = block.end
        /\ UNCHANGED <<reserved, ring>> /\ reserved = block.end /\ published
    BY <1>4, <1>t DEF Commit, PositionsInv
  <2>2. /\ write_frames \in Nat /\ block.end \in Nat /\ local.written \in Nat
        /\ block.start = write_frames /\ write_frames <= block.end
    BY <1>t, <2>1, StreamRanges DEF AllInv, EpochInv, BlockInv
  <2>3. epoch = local.epoch => local.written <= write_frames
    BY <2>1, AliveInside
  <2>4. PositionsInv'
    BY <1>u, <2>1, <2>2 DEF PositionsInv
  <2>5. \A p \in 0 .. block.end - 1 : Kept(p) => Holds(p)
    <3>1. /\ \A p \in 0 .. write_frames - 1 : Kept(p) => Holds(p)
          /\ \A p \in write_frames .. block.end - 1 : Kept(p) => Holds(p)
      BY <1>t, <2>1, <2>2 DEF ContentInv
    <3>2. \A p \in 0 .. block.end - 1 : p \in 0 .. write_frames - 1 \/ p \in write_frames .. block.end - 1
      BY <2>2
    <3> QED BY <3>1, <3>2
  <2>6. ContentInv'
    BY <1>u, <2>1, <2>5 DEF ContentInv, Kept, Holds, Cell
  <2>7. Leaves
    BY <1>u, <2>1, <2>2, <2>3 DEF Leaves, SameStream, Kept, Holds, Cell
  <2> QED BY <2>4, <2>6, <2>7
<1> QED BY <1>1, <1>2, <1>3, <1>4 DEF Audio

(* The owner, while the audio thread is outside.  It takes the positions   *)
(* back, and the stream is dead until the next epoch.                      *)
LEMMA OwnerKeepsStream ==
  ASSUME AllInv, Owner
  PROVE  StreamInv'
<1>t. TypeInv /\ GateInv /\ PositionsInv /\ ContentInv /\ BoundsInv /\ WrittenInv /\ LocalInv
  BY DEF AllInv, StreamInv, EpochInv
<1>u. UNCHANGED plugin /\ UNCHANGED <<audio, block, ring>>
  BY DEF Owner, Enable, Disable, deviceStarted, OwnerCalls, OwnerGoesOn, stopWrites, OwnerGoes,
         openMappings, openMappingsFails, ResetEpoch, ResetSend, ResetPosition, ResetReservation,
         ResetHeartbeat, PublishEpoch, Send, OpenGate
<1>r. write_frames \in Nat /\ reserved \in Nat /\ local.written \in Nat /\ local.epoch \in Nat
      /\ epoch \in Nat
  BY <1>t, StreamRanges
<1> SUFFICES PositionsInv' /\ ContentInv' /\ Leaves
  BY <1>u, ReaderKeepsItsFrames DEF StreamInv
<1>1. CASE PublishEpoch
  <2>1. /\ epoch' = epoch + 1 /\ UNCHANGED <<write_frames, reserved, published>> /\ write_frames = 0
        /\ audio = "idle" /\ owner = "epoch" /\ owner' = "send"
    BY <1>t, <1>1 DEF PublishEpoch, OwnerGoes, WrittenInv, GateInv, OwnerIsAlone, Resetting
  <2>2. PositionsInv'
    BY <1>t, <1>u, <2>1 DEF PositionsInv
  <2>3. ContentInv'
    BY <1>u, <2>1 DEF ContentInv
  <2>4. epoch' # local.epoch
    BY <1>t, <1>r, <2>1 DEF LocalInv
  <2>5. Leaves
    BY <1>u, <2>4 DEF Leaves, SameStream
  <2> QED BY <2>2, <2>3, <2>5
<1>2. CASE ResetPosition
  <2>1. /\ UNCHANGED <<epoch, reserved, published>> /\ write_frames' = 0
        /\ audio = "idle" /\ owner' = "reservation"
    BY <1>t, <1>2 DEF ResetPosition, OwnerGoes, GateInv, OwnerIsAlone, Resetting
  <2>2. PositionsInv' /\ ContentInv'
    BY <1>r, <1>u, <2>1 DEF PositionsInv, ContentInv
  <2>3. Leaves
    BY <1>u, <2>1 DEF Leaves, SameStream, Kept, Holds, Cell, Dead, Back
  <2> QED BY <2>2, <2>3
<1>3. CASE ResetReservation
  <2>1. /\ UNCHANGED <<epoch, write_frames, published>> /\ write_frames = 0 /\ reserved' = 0
        /\ audio = "idle" /\ owner' = "heartbeat"
    BY <1>t, <1>3 DEF ResetReservation, OwnerGoes, WrittenInv, GateInv, OwnerIsAlone, Resetting
  <2>2. PositionsInv' /\ ContentInv'
    BY <1>u, <2>1 DEF PositionsInv, ContentInv
  <2>3. SameStream' => local.written = 0 /\ SameStream
    BY <1>r, <1>u, <2>1 DEF SameStream
  <2>4. Leaves
    BY <1>u, <2>1, <2>3 DEF Leaves, Dead, Back
  <2> QED BY <2>2, <2>4
<1>4. CASE ~ PublishEpoch /\ ~ ResetPosition /\ ~ ResetReservation
  <2>1. UNCHANGED <<epoch, write_frames, reserved>>
    BY <1>4 DEF Owner, Enable, Disable, deviceStarted, OwnerCalls, OwnerGoesOn, stopWrites, OwnerGoes,
         openMappings, openMappingsFails, ResetEpoch, ResetSend, ResetHeartbeat, Send, OpenGate
  <2>2. /\ Dead => Dead'
        /\ published => published'
        /\ published' /\ owner' \notin {"sendOff", "position", "reservation"} =>
             published /\ owner \notin {"sendOff", "position", "reservation"}
    BY <1>4 DEF Owner, Enable, Disable, deviceStarted, OwnerCalls, OwnerGoesOn, stopWrites, OwnerGoes,
         openMappings, openMappingsFails, ResetEpoch, ResetSend, ResetHeartbeat, Send, OpenGate, Dead, Back
  <2>3. PositionsInv'
    BY <1>t, <1>u, <2>1, <2>2 DEF PositionsInv
  <2>4. ContentInv'
    BY <1>t, <1>u, <2>1 DEF ContentInv, Kept, Holds, Cell
  <2>5. Leaves
    BY <1>t, <1>u, <2>1, <2>2 DEF Leaves, SameStream, Kept, Holds, Cell, BoundsInv
  <2> QED BY <2>3, <2>4, <2>5
<1> QED BY <1>1, <1>2, <1>3, <1>4

LEMMA DieKeepsStream ==
  ASSUME AllInv, Die
  PROVE  StreamInv'
<1>t. PositionsInv /\ ContentInv /\ BoundsInv /\ LocalInv
  BY DEF AllInv, StreamInv, EpochInv
<1>u. UNCHANGED plugin /\ audio' = "idle" /\ owner' = "idle" /\ published' = FALSE
  BY DEF Die
<1>1. CASE view
  <2>1. UNCHANGED mapping
    BY <1>1 DEF Die
  <2>2. PositionsInv' /\ ContentInv'
    BY <1>t, <1>u, <2>1 DEF PositionsInv, ContentInv, Kept, Holds, Cell
  <2>3. Leaves
    BY <1>u, <2>1 DEF Leaves, SameStream, Kept, Holds, Cell, Dead
  <2> QED BY <1>u, <2>2, <2>3, ReaderKeepsItsFrames DEF StreamInv
<1>2. CASE ~ view
  <2>1. epoch' = 0 /\ write_frames' = 0 /\ reserved' = 0
    BY <1>2 DEF Die
  <2>2. reader = "idle" /\ local.written = 0
    BY <1>t, <1>2 DEF LocalInv, BoundsInv
  <2> QED
    BY <1>u, <2>1, <2>2 DEF StreamInv, PositionsInv, ContentInv, BoundsInv, ReadableInv, CopiedInv,
       AcceptedInv, Taken, Valid, Dead
<1> QED BY <1>1, <1>2

-----------------------------------------------------------------------------
(* The reader.  It changes nothing that the others rely on.                *)
ReaderInvs == BoundsInv /\ ReadableInv /\ CopiedInv /\ AcceptedInv

LEMMA ReaderKeepsStream ==
  ASSUME AllInv, Pull \/ Read
  PROVE  StreamInv'
<1>t. TypeInv /\ PositionsInv /\ ContentInv /\ ReaderInvs
  BY DEF AllInv, StreamInv, ReaderInvs
<1>u. UNCHANGED mapping /\ UNCHANGED livemix
  BY ReaderTouchesItsOwn
<1>r. /\ write_frames \in Nat /\ reserved \in Nat /\ local.written \in Nat /\ read_pos \in Nat
      /\ count \in Nat /\ Capacity \in Nat \ {0}
  BY <1>t, StreamRanges
<1>l. local = [epoch |-> local.epoch, written |-> local.written]
  BY <1>t DEF TypeInv, TypeOK, PluginOK
<1>1. PositionsInv' /\ ContentInv' /\ (\A p : Kept(p)' <=> Kept(p)) /\ (\A p : Holds(p)' <=> Holds(p))
      /\ (Dead' <=> Dead)
  BY <1>t, <1>u DEF PositionsInv, ContentInv, Kept, Holds, Cell, Frame, Dead
<1> SUFFICES ReaderInvs'
  BY <1>1 DEF StreamInv, ReaderInvs
<1>2. CASE PullEnds
  <2>1. reader' = "idle" /\ local'.written = 0
    BY <1>2 DEF PullEnds
  <2> QED
    BY <1>r, <1>u, <2>1 DEF ReaderInvs, BoundsInv, ReadableInv, CopiedInv, AcceptedInv, Taken, Valid
<1> SUFFICES ASSUME ~ PullEnds PROVE ReaderInvs'
  BY <1>2
<1> USE DEF PullGoes, GoOffline, ReadFails, Invalidated, Load
<1>3. CASE PullBegins \/ PullLoadsEpoch \/ PullLoadsWritten \/ PullChecksEpoch \/ PullIsOnline
           \/ PullFillsQueue \/ ReadChecksEpoch \/ Play
  <2>1. /\ reader' \in {"epoch", "written", "sameEpoch", "stillLive", "reserved", "read", "readWritten"}
        /\ reader' \in {"epoch", "written"} => local'.written = 0
        /\ \/ local' = local
           \/ local'.written \in {0, write_frames}
    BY <1>3, <1>t, <1>l DEF PullBegins, PullLoadsEpoch, PullLoadsWritten, PullChecksEpoch, PullIsOnline,
                PullFillsQueue, ReadChecksEpoch, Play, ReaderInvs, BoundsInv
  <2> QED
    BY <1>r, <1>t, <1>u, <1>1, <2>1
       DEF ReaderInvs, BoundsInv, ReadableInv, CopiedInv, AcceptedInv, Taken, Valid
<1>4. CASE ReadLoadsWritten
  <2>1. reader' = "readReserved" /\ local'.written = write_frames
    BY <1>4, <1>l DEF ReadLoadsWritten
  <2>2. BoundsInv' /\ CopiedInv' /\ AcceptedInv'
    BY <1>r, <1>u, <2>1 DEF BoundsInv, CopiedInv, AcceptedInv, Taken, Valid
  <2>3. ReadableInv'
    BY <1>t, <1>1, <2>1 DEF ReadableInv, ContentInv
  <2> QED BY <2>2, <2>3 DEF ReaderInvs
<1>5. CASE ReadLoadsReserved
  <2>1. /\ reader = "readReserved" /\ reader' \in {"nothing", "copy"} /\ chunk' = << >>
        /\ count' = local.written - read_pos /\ read_pos <= local.written
        /\ UNCHANGED <<read_pos, local>>
    <3>1. ~ (read_pos > local.written)
      BY <1>5 DEF ReadLoadsReserved
    <3>2. read_pos <= local.written
      BY <1>r, <3>1
    <3> QED BY <1>5, <3>2 DEF ReadLoadsReserved
  <2>2. DOMAIN chunk' = {}
    BY <2>1
  <2>3. BoundsInv'
    BY <1>r, <1>t, <1>u, <1>1, <2>1, <2>2 DEF ReaderInvs, BoundsInv, Taken, Valid
  <2>4. CopiedInv' /\ AcceptedInv'
    BY <2>1, <2>2 DEF CopiedInv, AcceptedInv, Valid
  <2>5. ReadableInv'
    BY <1>t, <1>u, <1>1, <2>1 DEF ReaderInvs, ReadableInv, SameStream
  <2> QED BY <2>3, <2>4, <2>5 DEF ReaderInvs
<1>6. CASE CopyOut
  <2>1. PICK p \in read_pos .. read_pos + count - 1 :
          /\ reader = "copy"
          /\ chunk' = [q \in DOMAIN chunk \cup {p} |-> IF q = p THEN ring[Cell(p)] ELSE chunk[q]]
          /\ UNCHANGED <<reader, read_pos, local, count>>
    BY <1>6 DEF CopyOut
  <2>2. DOMAIN chunk' = DOMAIN chunk \cup {p}
    BY <2>1
  <2>3. BoundsInv'
    BY <1>t, <1>u, <1>1, <2>1, <2>2 DEF ReaderInvs, BoundsInv, Taken
  <2>4. ReadableInv' /\ AcceptedInv'
    BY <1>t, <1>u, <1>1, <2>1 DEF ReaderInvs, ReadableInv, AcceptedInv, SameStream, Valid
  <2>5. SameStream /\ Kept(p) => ring[Cell(p)] = Frame(epoch, p)
    <3>1. p \in 0 .. local.written - 1
      BY <1>r, <1>t, <2>1 DEF ReaderInvs, BoundsInv
    <3> QED BY <1>t, <2>1, <3>1 DEF ReaderInvs, ReadableInv, Holds
  <2>6. CopiedInv'
    BY <1>t, <1>u, <1>1, <2>1, <2>2, <2>5 DEF ReaderInvs, CopiedInv, SameStream, Frame
  <2> QED BY <2>3, <2>4, <2>6 DEF ReaderInvs
<1>7. CASE ReadLoadsWrittenAgain
  <2>1. /\ reader = "copy" /\ reader' = "reservedAgain" /\ local'.written = write_frames
        /\ local'.epoch = local.epoch /\ UNCHANGED <<read_pos, count, chunk>>
    BY <1>7, <1>l DEF ReadLoadsWrittenAgain
  <2>2. read_pos + count = local.written
    BY <1>t, <2>1 DEF ReaderInvs, BoundsInv
  <2>3. BoundsInv'
    BY <1>r, <1>t, <1>u, <2>1 DEF ReaderInvs, BoundsInv, Taken, Valid
  <2>4. ReadableInv' /\ AcceptedInv'
    BY <2>1 DEF ReadableInv, AcceptedInv, Valid
  <2>5. SameStream' /\ local'.written >= read_pos + count => SameStream
    BY <1>r, <1>t, <1>u, <2>1, <2>2 DEF SameStream, PositionsInv
  <2>6. CopiedInv'
    BY <1>r, <1>t, <1>u, <1>1, <2>1, <2>2, <2>5 DEF ReaderInvs, CopiedInv, Frame
  <2> QED BY <2>3, <2>4, <2>6 DEF ReaderInvs
<1>8. CASE ReadLoadsReservedAgain
  <2>1. /\ reader = "reservedAgain" /\ reader' = "epochAgain" /\ local.written >= read_pos + count
        /\ reserved - read_pos < Capacity /\ UNCHANGED <<read_pos, count, chunk, local>>
    <3>1. ~ (local.written < read_pos + count) /\ ~ BehindTheRing(local.written, reserved)
      BY <1>8 DEF ReadLoadsReservedAgain
    <3>2. local.written >= read_pos + count /\ reserved - read_pos < Capacity
      BY <1>r, <3>1 DEF BehindTheRing
    <3> QED BY <1>8, <3>2 DEF ReadLoadsReservedAgain
  <2>2. BoundsInv'
    BY <1>t, <1>u, <1>1, <2>1 DEF ReaderInvs, BoundsInv, Taken, Valid
  <2>3. ReadableInv' /\ CopiedInv'
    BY <2>1 DEF ReadableInv, CopiedInv
  <2>4. \A p \in DOMAIN chunk : Kept(p)
    <3>1. \A p \in DOMAIN chunk : p >= read_pos
      BY <1>r, <1>t, <2>1 DEF ReaderInvs, BoundsInv, Taken
    <3>2. \A p \in DOMAIN chunk : p \in Nat
      BY <1>t, StreamRanges
    <3> QED BY <1>r, <2>1, <3>1, <3>2 DEF Kept
  <2>5. AcceptedInv'
    BY <1>t, <1>u, <2>1, <2>4 DEF ReaderInvs, AcceptedInv, CopiedInv, SameStream, Frame
  <2> QED BY <2>2, <2>3, <2>5 DEF ReaderInvs
<1>9. CASE ReadChecksEpochAgain \/ PullValidatesEpoch \/ PullValidatesLive
  <2>1. /\ reader \in {"epochAgain"} \cup Valid /\ reader' \in Valid
        /\ UNCHANGED <<read_pos, count, chunk, local>>
    BY <1>9 DEF ReadChecksEpochAgain, PullValidatesEpoch, PullValidatesLive, Valid
  <2> QED
    BY <1>t, <1>u, <1>1, <2>1 DEF ReaderInvs, BoundsInv, ReadableInv, CopiedInv, AcceptedInv,
       SameStream, Taken, Valid, Frame
<1>10. ~ (PullFindsNothing \/ PullIsOffline \/ PullWaitsForFormat)
  BY DEF PullFindsNothing, PullIsOffline, PullWaitsForFormat
<1>11. PullRunsDry => PullEnds
  BY DEF PullRunsDry
<1> QED
  BY <1>3, <1>4, <1>5, <1>6, <1>7, <1>8, <1>9, <1>10, <1>11 DEF Pull, Read

LEMMA StreamStep == AllInv /\ [Next]_vars => StreamInv'
<1> SUFFICES ASSUME AllInv, [Next]_vars PROVE StreamInv'
  OBVIOUS
<1>1. CASE Audio
  BY <1>1, AudioKeepsStream
<1>2. CASE Owner
  BY <1>2, OwnerKeepsStream
<1>3. CASE Die
  BY <1>3, DieKeepsStream
<1>4. CASE Pull \/ Read
  BY <1>4, ReaderKeepsStream
<1>5. CASE OpenRing \/ HeartbeatAges \/ resync \/ UNCHANGED vars
  <2>1. UNCHANGED <<epoch, write_frames, reserved, ring, published, audio, block, owner, reader,
                    read_pos, local, chunk, count>>
    BY <1>5 DEF OpenRing, HeartbeatAges, resync, vars
  <2> QED
    BY <2>1 DEF AllInv, StreamInv, PositionsInv, ContentInv, BoundsInv, ReadableInv, CopiedInv,
       AcceptedInv, SameStream, Kept, Holds, Cell, Dead, Frame
<1> QED
  BY <1>1, <1>2, <1>3, <1>4, <1>5 DEF Next, Environment

(* As long as the owner does not take the positions back under the reader, *)
(* a chunk that the plugin plays is, frame by frame, what LiveMix has      *)
(* written at those positions in that epoch.                               *)
THEOREM WithinAStream == Spec => []PlayedWithinAStream
<1>1. Init => AllInv
  BY TypeHolds, GateHolds, EpochHolds, StreamHolds DEF AllInv
<1>2. AllInv /\ [Next]_vars => AllInv'
  BY TypeStep, GateStep, EpochStep, StreamStep DEF AllInv
<1>3. AllInv => PlayedWithinAStream
  BY DEF AllInv, StreamInv, AcceptedInv, SameStream, PlayedWithinAStream, PlayedIsWhatWasWritten, Valid
<1> QED BY <1>1, <1>2, <1>3, PTL DEF Spec
-----------------------------------------------------------------------------
(* Nothing is played twice in an epoch.  The history variable floor is     *)
(* where the plugin may play on.  A reader falls behind it only when the   *)
(* reservation is a ring ahead of it, and then every read fails; or when   *)
(* the positions were taken back, and nothing of its epoch is accepted any *)
(* more.                                                                   *)
Silent == Dead /\ write_frames = 0 /\ ~ send_enabled
Gone(e) == epoch > e \/ Silent
Covers(e, v) == v <= write_frames \/ Gone(e)
Lagging == reserved - floor >= Capacity

QuietInv ==
  /\ owner \in {"position", "reservation", "heartbeat", "epoch"} => ~ send_enabled
  /\ owner \in Back \cup {"send"} => published

Settled == {"reserved", "read", "readWritten", "readReserved", "nothing"} \cup Taken \cup Valid
SeenInv ==
  /\ seen <= epoch
  /\ ~ view => seen = 0 /\ read_pos = 0 /\ floor = 0
  /\ reader \in {"written", "sameEpoch", "stillLive"} => seen <= local.epoch
  /\ reader \in Settled => seen = local.epoch
  /\ Covers(seen, floor) /\ Covers(seen, read_pos) /\ Covers(local.epoch, local.written)

(* What is to be read next was not played yet, or cannot be read.          *)
Follows == read_pos >= floor \/ Gone(seen) \/ Lagging
FollowInv ==
  /\ Follows
  /\ reader \in {"sameEpoch", "stillLive", "reserved", "readReserved"} =>
       read_pos <= local.written \/ Gone(seen)

(* What is being read was not played yet, or the read will fail.           *)
AheadInv ==
  /\ reader \in {"copy", "reservedAgain"} => count > 0
  /\ reader = "copy" => read_pos >= floor \/ Gone(seen)
  /\ reader = "reservedAgain" =>
       /\ read_pos >= floor \/ epoch > seen \/ local.written < read_pos + count
       /\ local.written < read_pos + count => Gone(seen)
  /\ reader = "epochAgain" => read_pos >= floor \/ epoch > seen
  /\ reader \in Valid => read_pos >= floor

ReplayInv == QuietInv /\ SeenInv /\ FollowInv /\ AheadInv

LEMMA ReplayRanges ==
  ASSUME TypeInv
  PROVE  /\ write_frames \in Nat /\ reserved \in Nat /\ epoch \in Nat
         /\ Capacity \in Nat \ {0} /\ Target \in Nat \ {0}
         /\ read_pos \in Nat /\ floor \in Nat /\ count \in Nat /\ seen \in Nat
         /\ local.epoch \in Nat /\ local.written \in Nat
  BY Numbers DEF TypeInv, TypeOK, MappingOK, LivemixOK, PluginOK, Positions

LEMMA ReplayHolds == Init => ReplayInv
<1> SUFFICES ASSUME Init PROVE ReplayInv
  OBVIOUS
<1>1. QuietInv /\ SeenInv /\ FollowInv /\ AheadInv
  BY DEF Init, QuietInv, SeenInv, Covers, Gone, FollowInv, Follows, AheadInv, Settled, Taken, Valid,
         Back
<1> QED
  BY <1>1 DEF ReplayInv

(* A step of LiveMix goes on with the stream, or ends it for the reader.   *)
Goes ==
  /\ UNCHANGED <<reader, seen, read_pos, local, count, floor>>
  /\ view => view'
  /\ epoch' >= epoch
  /\ Silent => Silent' \/ epoch' > epoch
  /\ write_frames' >= write_frames \/ Silent' \/ epoch' > epoch
  /\ reserved' >= reserved \/ Silent' \/ epoch' > epoch

LEMMA GoingKeepsReader ==
  ASSUME TypeInv, TypeInv', LocalInv, SeenInv, FollowInv, AheadInv, Goes
  PROVE  SeenInv' /\ FollowInv' /\ AheadInv'
<1>1. /\ write_frames \in Nat /\ reserved \in Nat /\ epoch \in Nat /\ epoch' \in Nat
      /\ write_frames' \in Nat /\ reserved' \in Nat /\ floor \in Nat /\ Capacity \in Nat
      /\ seen \in Nat /\ local.epoch \in Nat /\ local.epoch <= epoch /\ seen <= epoch
  <2>1. write_frames' \in Nat /\ reserved' \in Nat /\ epoch' \in Nat
    BY Numbers DEF TypeInv, TypeOK, MappingOK, Positions
  <2> QED
    BY <2>1, ReplayRanges DEF LocalInv, SeenInv
<1>2. /\ reader' = reader /\ seen' = seen /\ read_pos' = read_pos /\ local' = local
      /\ count' = count /\ floor' = floor /\ epoch' >= epoch
      /\ view => view'
  BY DEF Goes
<1>3. ASSUME NEW e \in Nat, e <= epoch, Gone(e)
      PROVE  epoch' > e \/ Silent'
  BY <1>1, <1>3 DEF Goes, Gone
<1>4. ASSUME NEW e \in Nat, e <= epoch, NEW v \in Nat, Covers(e, v)
      PROVE  v <= write_frames' \/ epoch' > e \/ Silent'
  BY <1>1, <1>3, <1>4 DEF Goes, Covers
<1>5. Gone(seen) => Gone(seen)'
  BY <1>1, <1>2, <1>3 DEF Gone
<1>6. Lagging => Lagging' \/ Gone(seen)'
  <2>1. reserved' >= reserved \/ Silent' \/ epoch' > epoch
    BY DEF Goes
  <2>2. reserved' >= reserved /\ Lagging => Lagging'
    <3>1. \A a, b, f, c \in Nat : b >= a /\ a - f >= c => b - f >= c
      OBVIOUS
    <3>2. reserved' >= reserved /\ reserved - floor >= Capacity => reserved' - floor >= Capacity
      BY <1>1, <3>1
    <3> QED
      BY <1>2, <3>2 DEF Lagging
  <2>3. epoch' > epoch => epoch' > seen
    BY <1>1
  <2> QED
    BY <1>2, <2>1, <2>2, <2>3 DEF Gone
<1>7. epoch > seen => epoch' > seen
  BY <1>1, <1>2
<1>8. SeenInv'
  <2>1. /\ floor \in Nat /\ read_pos \in Nat /\ local.written \in Nat
    BY ReplayRanges
  <2>2. /\ floor <= write_frames' \/ epoch' > seen \/ Silent'
        /\ read_pos <= write_frames' \/ epoch' > seen \/ Silent'
        /\ local.written <= write_frames' \/ epoch' > local.epoch \/ Silent'
    BY <1>1, <1>4, <2>1 DEF SeenInv
  <2> QED
    BY <1>1, <1>2, <2>2 DEF SeenInv, Covers, Gone
<1>9. FollowInv'
  BY <1>2, <1>5, <1>6 DEF FollowInv, Follows
<1>10. AheadInv'
  BY <1>2, <1>5, <1>7 DEF AheadInv
<1> QED
  BY <1>8, <1>9, <1>10

LEMMA AudioGoes ==
  ASSUME AllInv, QuietInv, Audio
  PROVE  Goes /\ QuietInv'
<1>u. UNCHANGED <<epoch, send_enabled, published, owner>> /\ UNCHANGED plugin
  BY DEF Audio, EnterGate, Reserve, ReserveNoMore, CopyFrame, Commit, Beat, LeaveGate
<1>r. write_frames \in Nat /\ reserved \in Nat /\ epoch \in Nat
  BY StreamRanges DEF AllInv
<1>1. QuietInv'
  BY <1>u DEF QuietInv
<1>2. write_frames' >= write_frames /\ reserved' >= reserved /\ (Silent => Silent')
  <2>1. CASE Reserve
    <3>1. PICK n \in Blocks : reserved' = write_frames + n
      BY <2>1 DEF Reserve
    <3>2. n \in Nat /\ write_frames' = write_frames /\ audio = "reserve"
      BY <2>1, SizesAssumption DEF Reserve
    <3>3. reserved = write_frames
      BY <3>2, AliveInside DEF AllInv, StreamInv, PositionsInv, Back
    <3> QED
      BY <1>r, <1>u, <3>1, <3>2, <3>3 DEF Silent, Dead
  <2>2. CASE Commit
    <3>1. write_frames' = block.end /\ reserved' = reserved /\ audio = "copy"
      BY <2>2 DEF Commit
    <3>2. write_frames <= block.end /\ block.end = reserved
      BY <1>r, <3>1, StreamRanges DEF AllInv, EpochInv, BlockInv, StreamInv, PositionsInv
    <3>3. ~ Silent
      <4>1. audio = "copy" => ~ Dead
        BY AliveInside
      <4> QED
        BY <3>1, <4>1 DEF Silent
    <3> QED
      BY <1>r, <3>1, <3>2, <3>3
  <2>3. CASE EnterGate \/ ReserveNoMore \/ CopyFrame \/ Beat \/ LeaveGate
    <3>1. write_frames' = write_frames /\ reserved' = reserved
      BY <2>3 DEF EnterGate, ReserveNoMore, CopyFrame, Beat, LeaveGate
    <3> QED
      BY <1>r, <1>u, <3>1 DEF Silent, Dead
  <2> QED
    BY <2>1, <2>2, <2>3 DEF Audio
<1>3. Goes
  BY <1>r, <1>u, <1>2 DEF Goes
<1> QED
  BY <1>1, <1>3

LEMMA OwnerGoesWithStream ==
  ASSUME AllInv, QuietInv, Owner
  PROVE  Goes /\ QuietInv'
<1>t. GateInv /\ WrittenInv /\ PositionsInv
  BY DEF AllInv, StreamInv, EpochInv
<1>r. write_frames \in Nat /\ reserved \in Nat /\ epoch \in Nat
  BY StreamRanges DEF AllInv
<1>1. CASE ResetEpoch
  <2>u. UNCHANGED plugin /\ published' = published
    BY <1>1 DEF ResetEpoch, OwnerGoes, ResetSend, ResetPosition, ResetReservation, ResetHeartbeat,
                PublishEpoch
  <2>1. CASE ResetSend
    <3>1. /\ send_enabled' = FALSE /\ owner = "sendOff" /\ owner' = "position"
          /\ UNCHANGED <<epoch, write_frames, reserved>>
      BY <2>1 DEF ResetSend, OwnerGoes
    <3> QED
      BY <1>r, <2>u, <3>1 DEF Goes, QuietInv, Silent, Dead, Back
  <2>2. CASE ResetPosition
    <3>1. /\ write_frames' = 0 /\ owner = "position" /\ owner' = "reservation"
          /\ UNCHANGED <<epoch, send_enabled, reserved>>
      BY <2>2 DEF ResetPosition, OwnerGoes
    <3> QED
      BY <1>r, <2>u, <3>1 DEF Goes, QuietInv, Silent, Dead, Back
  <2>3. CASE ResetReservation
    <3>1. /\ reserved' = 0 /\ owner = "reservation" /\ owner' = "heartbeat" /\ write_frames = 0
          /\ UNCHANGED <<epoch, send_enabled, write_frames>>
      BY <1>t, <2>3 DEF ResetReservation, OwnerGoes, WrittenInv
    <3> QED
      BY <1>r, <2>u, <3>1 DEF Goes, QuietInv, Silent, Dead, Back
  <2>4. CASE ResetHeartbeat
    <3>1. /\ owner = "heartbeat" /\ owner' = "epoch"
          /\ UNCHANGED <<epoch, send_enabled, write_frames, reserved>>
      BY <2>4 DEF ResetHeartbeat, OwnerGoes
    <3> QED
      BY <1>r, <2>u, <3>1 DEF Goes, QuietInv, Silent, Dead, Back
  <2>5. CASE PublishEpoch
    <3>1. /\ epoch' = epoch + 1 /\ owner = "epoch" /\ owner' = "send"
          /\ UNCHANGED <<send_enabled, write_frames, reserved>>
      BY <2>5 DEF PublishEpoch, OwnerGoes
    <3> QED
      BY <1>r, <2>u, <3>1 DEF Goes, QuietInv, Back
  <2> QED
    BY <1>1, <2>1, <2>2, <2>3, <2>4, <2>5 DEF ResetEpoch
<1>2. CASE Send
  <2>1. /\ owner = "send" /\ owner' = "open" /\ published' = published /\ UNCHANGED plugin
        /\ UNCHANGED <<epoch, write_frames, reserved>>
    BY <1>2 DEF Send, OwnerGoes
  <2>2. ~ Silent
    BY <2>1 DEF QuietInv, Silent, Dead, Back
  <2> QED
    BY <1>r, <2>1, <2>2 DEF Goes, QuietInv, Back
<1>3. CASE openMappings
  <2>1. /\ owner = "map" /\ owner' = "sendOff" /\ published' = TRUE /\ send_enabled' = FALSE
        /\ UNCHANGED plugin /\ UNCHANGED <<epoch, write_frames, reserved>>
    BY <1>3 DEF openMappings
  <2> QED
    BY <1>r, <2>1 DEF Goes, QuietInv, Silent, Dead, Back
<1>4. CASE Enable \/ Disable \/ deviceStarted \/ stopWrites \/ openMappingsFails \/ OpenGate
  <2>1. /\ UNCHANGED plugin /\ UNCHANGED <<epoch, write_frames, reserved, send_enabled, published>>
        /\ owner \notin Back
        /\ owner' \in {"waitToEnable", "waitToDisable", "waitToRestart", "sendOff", "map", "send",
                       "open", "idle"}
        /\ owner' \in Back \cup {"send"} => published
    BY <1>4 DEF Enable, Disable, deviceStarted, OwnerCalls, stopWrites, OwnerGoes, openMappingsFails,
                OpenGate, Back
  <2>2. Dead => Dead'
    BY <2>1 DEF Dead
  <2>3. QuietInv'
    BY <2>1 DEF QuietInv, Back
  <2> QED
    BY <1>r, <2>1, <2>2, <2>3 DEF Goes, Silent
<1> QED
  BY <1>1, <1>2, <1>3, <1>4 DEF Owner, OwnerGoesOn

(* The other steps of LiveMix and of the two processes' surroundings.      *)
LEMMA EnvironmentKeepsReplay ==
  ASSUME AllInv, ReplayInv, TypeInv', Environment
  PROVE  ReplayInv'
<1>t. TypeInv /\ LocalInv /\ BoundsInv /\ QuietInv /\ SeenInv /\ FollowInv /\ AheadInv
  BY DEF AllInv, EpochInv, StreamInv, ReplayInv
<1>r. write_frames \in Nat /\ reserved \in Nat /\ epoch \in Nat
  BY <1>t, StreamRanges
<1>1. CASE Die /\ ~ view
  <2>1. /\ UNCHANGED plugin /\ epoch' = 0 /\ write_frames' = 0 /\ reserved' = 0 /\ owner' = "idle"
    BY <1>1 DEF Die
  <2>2. /\ reader = "idle" /\ local.epoch = 0 /\ local.written = 0
        /\ seen = 0 /\ read_pos = 0 /\ floor = 0
    BY <1>1, <1>t DEF LocalInv, BoundsInv, SeenInv
  <2>3. QuietInv' /\ SeenInv' /\ FollowInv' /\ AheadInv'
    BY <2>1, <2>2 DEF QuietInv, SeenInv, FollowInv, Follows, AheadInv, Covers, Gone, Settled, Taken,
                      Valid, Back
  <2> QED
    BY <2>3 DEF ReplayInv
<1>2. CASE (Die /\ view) \/ OpenRing \/ HeartbeatAges \/ resync
  <2>1. /\ UNCHANGED <<epoch, write_frames, reserved, send_enabled>>
        /\ UNCHANGED <<reader, seen, read_pos, local, count, floor>>
        /\ view => view'
    BY <1>2 DEF Die, OpenRing, HeartbeatAges, resync
  <2>2. /\ Dead => Dead'
        /\ (owner' = owner /\ published' = published) \/ owner' = "idle"
    BY <1>2 DEF Die, OpenRing, HeartbeatAges, resync, Dead
  <2>3. QuietInv'
    BY <1>t, <2>1, <2>2 DEF QuietInv, Back
  <2>4. Goes
    BY <1>r, <2>1, <2>2 DEF Goes, Silent
  <2> QED
    BY <1>t, <2>3, <2>4, GoingKeepsReader DEF ReplayInv
<1> QED
  BY <1>1, <1>2 DEF Environment

-----------------------------------------------------------------------------
(* The reader's steps.  The stream stays as it is, and a pull may end where*)
(* the stream covers its position and it is behind only if reads fail.     *)
LEMMA StreamStays ==
  ASSUME UNCHANGED <<mapping, livemix>>
  PROVE  /\ epoch' = epoch /\ write_frames' = write_frames /\ reserved' = reserved
         /\ Silent' <=> Silent
         /\ QuietInv => QuietInv'
  BY DEF Silent, Dead, QuietInv

LEMMA PullEndsWell ==
  ASSUME TypeInv, QuietInv, SeenInv, UNCHANGED <<mapping, livemix>>, view', PullEnds, seen' = seen,
         Covers(seen, floor'), Covers(seen, read_pos'),
         read_pos' >= floor' \/ Gone(seen) \/ reserved - floor' >= Capacity
  PROVE  ReplayInv'
<1>1. /\ epoch' = epoch /\ write_frames' = write_frames /\ reserved' = reserved
      /\ Silent' <=> Silent
      /\ QuietInv'
  BY StreamStays
<1>2. reader' = "idle" /\ local'.epoch = 0 /\ local'.written = 0
  BY DEF PullEnds
<1>3. write_frames \in Nat
  BY ReplayRanges
<1>4. SeenInv'
  BY <1>1, <1>2, <1>3 DEF SeenInv, Covers, Gone, Settled, Taken, Valid
<1>5. FollowInv' /\ AheadInv'
  BY <1>1, <1>2 DEF FollowInv, Follows, AheadInv, Gone, Lagging, Valid
<1> QED
  BY <1>1, <1>4, <1>5 DEF ReplayInv

LEMMA PrefillStays ==
  ASSUME NEW w \in Nat
  PROVE  /\ PrefillFrom(w, TRUE) = w
         /\ PrefillFrom(w, FALSE) \in Nat /\ PrefillFrom(w, FALSE) <= w
  BY Numbers DEF PrefillFrom

(* The history of what a reader that is too late has left behind.          *)
LEMMA OverrunLags ==
  ASSUME AllInv, SeenInv, Follows, seen = local.epoch, BehindTheRing(local.written, reserved)
  PROVE  Gone(seen) \/ Lagging
<1>1. /\ read_pos \in Nat /\ floor \in Nat /\ local.written \in Nat /\ write_frames \in Nat
      /\ reserved \in Nat /\ Capacity \in Nat
  BY ReplayRanges DEF AllInv
<1>2. write_frames <= reserved
  BY DEF AllInv, StreamInv, PositionsInv
<1>3. local.written <= write_frames \/ Gone(seen)
  BY DEF SeenInv, Covers
<1>4. CASE read_pos >= floor /\ local.written <= write_frames
  BY <1>1, <1>2, <1>4 DEF BehindTheRing, Lagging
<1> QED
  BY <1>3, <1>4 DEF Follows

LEMMA ReadFailsWell ==
  ASSUME AllInv, ReplayInv, UNCHANGED <<mapping, livemix>>, view, ReadFails, Gone(seen) \/ Lagging
  PROVE  ReplayInv'
<1>1. TypeInv /\ QuietInv /\ SeenInv /\ write_frames \in Nat
  BY ReplayRanges DEF AllInv, ReplayInv
<1>2. /\ PullEnds /\ view' = view /\ seen' = seen /\ floor' = floor
      /\ read_pos' = PrefillFrom(write_frames, FALSE)
  BY DEF ReadFails
<1>3. Covers(seen, floor') /\ Covers(seen, read_pos')
  BY <1>1, <1>2, PrefillStays DEF SeenInv, Covers
<1>4. Gone(seen) \/ reserved - floor' >= Capacity
  BY <1>2 DEF Lagging
<1> QED
  BY <1>1, <1>2, <1>3, <1>4, PullEndsWell

(* What was queued is forgotten, all that was written with it.             *)
LEMMA ForgettingWell ==
  ASSUME AllInv, ReplayInv, UNCHANGED <<mapping, livemix>>, view, view' = view, PullEnds,
         UNCHANGED <<seen, floor>>, read_pos' = PrefillFrom(write_frames, TRUE)
  PROVE  ReplayInv'
<1>1. TypeInv /\ QuietInv /\ SeenInv /\ write_frames \in Nat /\ floor \in Nat
  BY ReplayRanges DEF AllInv, ReplayInv
<1>2. read_pos' = write_frames /\ floor' = floor
  BY <1>1, PrefillStays
<1>3. Covers(seen, floor') /\ Covers(seen, read_pos')
  <2>1. Covers(seen, floor) /\ write_frames <= write_frames
    BY <1>1 DEF SeenInv
  <2> QED
    BY <1>2, <2>1 DEF Covers
<1>4. read_pos' >= floor' \/ Gone(seen)
  BY <1>1, <1>2, <1>3 DEF Covers
<1> QED
  BY <1>1, <1>3, <1>4, PullEndsWell

LEMMA GoOfflineWell ==
  ASSUME AllInv, ReplayInv, UNCHANGED <<mapping, livemix>>, view,
         NEW w \in Nat, Covers(seen, w), GoOffline(w)
  PROVE  ReplayInv'
<1>1. TypeInv /\ QuietInv /\ SeenInv /\ FollowInv /\ floor \in Nat
  BY ReplayRanges DEF AllInv, ReplayInv
<1>2. PullEnds /\ view' = view /\ seen' = seen
  BY DEF GoOffline
<1>3. CASE online
  <2>1. read_pos' = w /\ floor' = w
    BY <1>3, PrefillStays DEF GoOffline
  <2> QED
    BY <1>1, <1>2, <2>1, PullEndsWell
<1>4. CASE ~ online
  <2>1. read_pos' = read_pos /\ floor' = floor
    BY <1>4 DEF GoOffline
  <2>2. read_pos' >= floor' \/ Gone(seen) \/ reserved - floor' >= Capacity
    BY <1>1, <2>1 DEF FollowInv, Follows, Lagging
  <2> QED
    BY <1>1, <1>2, <2>1, <2>2, PullEndsWell DEF SeenInv
<1> QED
  BY <1>3, <1>4

(* The pull goes to its next place, and loads what it loads.               *)
LEMMA PullMovesWell ==
  ASSUME AllInv, ReplayInv, UNCHANGED <<mapping, livemix>>, view,
         PullBegins \/ PullLoadsEpoch \/ PullLoadsWritten
  PROVE  ReplayInv'
<1>t. TypeInv /\ BoundsInv /\ QuietInv /\ SeenInv /\ FollowInv
  BY DEF AllInv, StreamInv, ReplayInv
<1>r. /\ write_frames \in Nat /\ epoch \in Nat /\ seen \in Nat /\ read_pos \in Nat
      /\ local.epoch \in Nat /\ local.written \in Nat
  BY <1>t, ReplayRanges
<1>l. local = [epoch |-> local.epoch, written |-> local.written]
  BY <1>t DEF TypeInv, TypeOK, PluginOK
<1>s. /\ epoch' = epoch /\ write_frames' = write_frames /\ reserved' = reserved
      /\ (Silent' <=> Silent)
      /\ QuietInv'
  BY <1>t, StreamStays
<1>1. /\ UNCHANGED <<view, seen, read_pos, floor, count>>
      /\ \/ reader' = "epoch" /\ local' = local
         \/ reader = "epoch" /\ reader' = "written" /\ local'.epoch = epoch
            /\ local'.written = local.written
         \/ reader = "written" /\ reader' = "sameEpoch" /\ local'.epoch = local.epoch
            /\ local'.written = write_frames
  BY <1>l DEF PullBegins, PullLoadsEpoch, PullLoadsWritten, Load, PullGoes
<1>2. reader = "epoch" => local.written = 0
  BY <1>t DEF BoundsInv
<1>3. Covers(local'.epoch, local'.written)
  BY <1>t, <1>r, <1>1, <1>2 DEF SeenInv, Covers
<1>4. SeenInv'
  BY <1>t, <1>r, <1>s, <1>1, <1>3 DEF SeenInv, Covers, Gone, Settled, Taken, Valid
<1>5. reader' = "sameEpoch" => read_pos <= local'.written \/ Gone(seen)
  BY <1>t, <1>1 DEF SeenInv, Covers
<1>6. FollowInv'
  BY <1>t, <1>s, <1>1, <1>5 DEF FollowInv, Follows, Gone, Lagging
<1>7. AheadInv'
  BY <1>1 DEF AheadInv, Valid
<1> QED
  BY <1>s, <1>4, <1>6, <1>7 DEF ReplayInv

(* The stream that the reader has seen covers what the pull has loaded.    *)
LEMMA LoadedIsCovered ==
  ASSUME TypeInv, SeenInv, seen <= local.epoch
  PROVE  Covers(seen, local.written)
<1>1. seen \in Nat /\ local.epoch \in Nat /\ epoch \in Nat
  BY ReplayRanges
<1> QED
  BY <1>1 DEF SeenInv, Covers, Gone

LEMMA PullChecksWell ==
  ASSUME AllInv, ReplayInv, UNCHANGED <<mapping, livemix>>, view,
         PullChecksEpoch \/ PullIsOffline \/ PullWaitsForFormat
  PROVE  ReplayInv'
<1>t. TypeInv /\ QuietInv /\ SeenInv /\ FollowInv /\ local.written \in Nat
  BY ReplayRanges DEF AllInv, ReplayInv
<1>1. CASE PullChecksEpoch /\ epoch = local.epoch
  <2>1. /\ UNCHANGED <<view, seen, read_pos, floor, count, local>>
        /\ reader = "sameEpoch" /\ reader' = "stillLive"
    BY <1>1 DEF PullChecksEpoch, PullGoes
  <2>s. /\ epoch' = epoch /\ write_frames' = write_frames /\ reserved' = reserved
        /\ (Silent' <=> Silent)
        /\ QuietInv'
    BY <1>t, StreamStays
  <2>2. SeenInv'
    BY <1>t, <2>s, <2>1 DEF SeenInv, Covers, Gone, Settled, Taken, Valid
  <2>3. FollowInv' /\ AheadInv'
    BY <1>t, <2>s, <2>1 DEF FollowInv, Follows, Gone, Lagging, AheadInv, Valid
  <2> QED
    BY <2>s, <2>2, <2>3 DEF ReplayInv
<1>2. CASE PullIsOffline \/ (PullChecksEpoch /\ epoch # local.epoch)
  <2>1. GoOffline(local.written) /\ reader \in {"sameEpoch", "stillLive"}
    BY <1>2 DEF PullIsOffline, PullChecksEpoch
  <2>2. Covers(seen, local.written)
    BY <1>t, <2>1, LoadedIsCovered DEF SeenInv
  <2> QED
    BY <1>t, <2>1, <2>2, GoOfflineWell
<1>3. CASE PullWaitsForFormat
  <2>1. PullEnds /\ UNCHANGED <<view, seen, read_pos, floor>>
    BY <1>3 DEF PullWaitsForFormat
  <2>2. read_pos' >= floor' \/ Gone(seen) \/ reserved - floor' >= Capacity
    BY <1>t, <2>1 DEF FollowInv, Follows, Lagging
  <2>3. Covers(seen, floor') /\ Covers(seen, read_pos')
    BY <1>t, <2>1 DEF SeenInv
  <2> QED
    BY <1>t, <2>1, <2>2, <2>3, PullEndsWell
<1> QED
  BY <1>1, <1>2, <1>3

(* Back online.  A new epoch is read from its beginning, and an old one    *)
(* from where it was left.                                                 *)
LEMMA PullOnlineWell ==
  ASSUME AllInv, ReplayInv, UNCHANGED <<mapping, livemix>>, view, PullIsOnline
  PROVE  ReplayInv'
<1>t. TypeInv /\ LocalInv /\ QuietInv /\ SeenInv /\ FollowInv
  BY DEF AllInv, EpochInv, ReplayInv
<1>r. /\ write_frames \in Nat /\ epoch \in Nat /\ seen \in Nat /\ read_pos \in Nat
      /\ local.epoch \in Nat /\ local.written \in Nat
  BY <1>t, ReplayRanges
<1>s. /\ epoch' = epoch /\ write_frames' = write_frames /\ reserved' = reserved
      /\ (Silent' <=> Silent)
      /\ QuietInv'
  BY <1>t, StreamStays
<1>1. /\ reader = "stillLive" /\ reader' = "reserved" /\ view' = view /\ local' = local
      /\ seen' = local.epoch
  BY DEF PullIsOnline, PullGoes
<1>2. CASE local.epoch # seen
  <2>1. floor' = 0 /\ read_pos' = PrefillFrom(local.written, FALSE)
    BY <1>2 DEF PullIsOnline
  <2>2. read_pos' \in Nat /\ read_pos' <= local.written
    BY <1>r, <2>1, PrefillStays
  <2>3. Covers(local.epoch, 0) /\ Covers(local.epoch, read_pos')
    BY <1>t, <1>r, <2>2 DEF SeenInv, Covers
  <2>4. SeenInv'
    BY <1>t, <1>s, <1>1, <2>1, <2>3 DEF SeenInv, LocalInv, Covers, Gone
  <2>5. read_pos' >= floor' /\ read_pos' <= local'.written
    <3>1. read_pos' >= floor'
      <4>1. \A n \in Nat : n >= 0
        OBVIOUS
      <4> QED
        BY <2>1, <2>2, <4>1
    <3>2. local'.written = local.written
      BY <1>1
    <3> QED
      BY <2>2, <3>1, <3>2
  <2>6. FollowInv' /\ AheadInv'
    BY <1>1, <2>5 DEF FollowInv, Follows, AheadInv, Valid
  <2> QED
    BY <1>s, <2>4, <2>6 DEF ReplayInv
<1>3. CASE local.epoch = seen
  <2>1. floor' = floor /\ read_pos' = read_pos
    BY <1>3 DEF PullIsOnline, ResumeAt
  <2>2. SeenInv'
    BY <1>t, <1>s, <1>1, <1>3, <2>1 DEF SeenInv, Covers, Gone
  <2>3. FollowInv' /\ AheadInv'
    BY <1>t, <1>s, <1>1, <1>3, <2>1 DEF FollowInv, Follows, Gone, Lagging, AheadInv, Valid
  <2> QED
    BY <1>s, <2>2, <2>3 DEF ReplayInv
<1> QED
  BY <1>2, <1>3

(* The queue is filled again when it is too old, or on request, and then   *)
(* up to the target.                                                       *)
LEMMA PullFillsWell ==
  ASSUME AllInv, ReplayInv, UNCHANGED <<mapping, livemix>>, view, PullFillsQueue
  PROVE  ReplayInv'
<1>t. TypeInv /\ QuietInv /\ SeenInv /\ FollowInv
  BY DEF AllInv, ReplayInv
<1>r. /\ write_frames \in Nat /\ reserved \in Nat /\ epoch \in Nat /\ seen \in Nat
      /\ read_pos \in Nat /\ floor \in Nat /\ local.epoch \in Nat /\ local.written \in Nat
      /\ Target \in Nat /\ Capacity \in Nat
  BY <1>t, ReplayRanges
<1>s. /\ epoch' = epoch /\ write_frames' = write_frames /\ reserved' = reserved
      /\ (Silent' <=> Silent)
      /\ QuietInv'
  BY <1>t, StreamStays
<1>1. /\ reader = "reserved" /\ view' = view /\ seen' = seen
      /\ floor' = (IF resync_requested THEN 0 ELSE floor)
      /\ (reader' = "read" /\ local' = local) \/ PullEnds
  BY DEF PullFillsQueue, PullGoes
<1> DEFINE w       == local.written
           asked   == IF resync_requested THEN PrefillFrom(w, FALSE) ELSE read_pos
           overrun == w < asked \/ w - asked >= Capacity \/ reserved - asked >= Capacity
           from    == IF overrun THEN PrefillFrom(w, FALSE) ELSE asked
<1>2. read_pos' = from \/ (w - from >= Target /\ read_pos' = w - Target)
  BY DEF PullFillsQueue
<1>3. PrefillFrom(w, FALSE) \in Nat /\ PrefillFrom(w, FALSE) <= w
  BY <1>r, PrefillStays
<1>4. read_pos' \in Nat /\ (read_pos' <= w \/ read_pos' = read_pos)
  <2>1. from \in Nat /\ (from <= w \/ from = read_pos)
    BY <1>r, <1>3
  <2>2. w \in Nat
    BY <1>r
  <2> HIDE DEF w, from
  <2> QED
    BY <1>2, <1>r, <2>1, <2>2
<1>5. seen = local.epoch /\ Covers(seen, floor) /\ Covers(seen, read_pos) /\ Covers(seen, w)
  BY <1>t, <1>1 DEF SeenInv, Settled
<1>6. Covers(seen, floor') /\ Covers(seen, read_pos')
  <2>1. Covers(seen, floor')
    BY <1>r, <1>1, <1>5 DEF Covers
  <2>2. w \in Nat
    BY <1>r
  <2> HIDE DEF w
  <2>3. Covers(seen, read_pos')
    BY <1>r, <1>4, <1>5, <2>2 DEF Covers
  <2> QED
    BY <2>1, <2>3
<1>7. read_pos' >= floor' \/ Gone(seen) \/ reserved - floor' >= Capacity
  <2>1. CASE resync_requested
    BY <1>1, <1>4, <2>1
  <2>2. CASE ~ resync_requested /\ overrun
    <3>1. floor' = floor /\ asked = read_pos
      BY <1>1, <2>2
    <3>2. w < read_pos \/ BehindTheRing(local.written, reserved)
      BY <2>2, <3>1 DEF BehindTheRing
    <3>3. w < read_pos => Gone(seen)
      BY <1>r, <1>t, <1>1 DEF FollowInv
    <3>4. BehindTheRing(local.written, reserved) => Gone(seen) \/ Lagging
      BY <1>t, <1>5, OverrunLags DEF FollowInv
    <3> QED
      BY <3>1, <3>2, <3>3, <3>4 DEF Lagging
  <2>3. CASE ~ resync_requested /\ ~ overrun
    <3>1. floor' = floor /\ from = read_pos
      BY <1>1, <2>3
    <3>2. read_pos' >= read_pos
      <4>1. w \in Nat
        BY <1>r
      <4> HIDE DEF w, from
      <4> QED
        BY <1>r, <1>2, <3>1, <4>1
    <3>3. read_pos >= floor \/ Gone(seen) \/ Lagging
      BY <1>t DEF FollowInv, Follows
    <3> QED
      BY <1>r, <1>4, <3>1, <3>2, <3>3 DEF Lagging
  <2> QED
    BY <2>1, <2>2, <2>3
<1> HIDE DEF w, asked, overrun, from
<1>8. CASE PullEnds
  BY <1>t, <1>1, <1>6, <1>7, <1>8, PullEndsWell
<1>9. CASE reader' = "read" /\ local' = local
  <2>1. SeenInv'
    BY <1>t, <1>s, <1>1, <1>5, <1>6, <1>9 DEF SeenInv, Covers, Gone
  <2>2. FollowInv' /\ AheadInv'
    BY <1>s, <1>1, <1>7, <1>9 DEF FollowInv, Follows, Gone, Lagging, AheadInv, Valid
  <2> QED
    BY <1>s, <2>1, <2>2 DEF ReplayInv
<1> QED
  BY <1>1, <1>8, <1>9

(* A validation that fails forgets the queue; one that holds goes on.      *)
LEMMA PullValidatesWell ==
  ASSUME AllInv, ReplayInv, UNCHANGED <<mapping, livemix>>, view,
         PullValidatesEpoch \/ PullValidatesLive
  PROVE  ReplayInv'
<1>t. TypeInv /\ QuietInv /\ SeenInv /\ FollowInv /\ AheadInv
  BY DEF AllInv, ReplayInv
<1>s. /\ epoch' = epoch /\ write_frames' = write_frames /\ reserved' = reserved
      /\ (Silent' <=> Silent)
      /\ QuietInv'
  BY <1>t, StreamStays
<1>1. CASE Invalidated
  BY <1>1, ForgettingWell DEF Invalidated
<1>2. CASE ~ Invalidated
  <2>1. /\ reader \in Valid /\ reader' \in Valid
        /\ UNCHANGED <<view, seen, read_pos, floor, count, local>>
    BY <1>2 DEF PullValidatesEpoch, PullValidatesLive, PullGoes, Valid
  <2>2. SeenInv'
    BY <1>t, <1>s, <2>1 DEF SeenInv, Covers, Gone, Settled, Taken, Valid
  <2>3. FollowInv'
    BY <1>t, <1>s, <2>1 DEF FollowInv, Follows, Gone, Lagging, Valid
  <2>4. AheadInv'
    BY <1>t, <2>1 DEF AheadInv, Valid
  <2> QED
    BY <1>s, <2>2, <2>3, <2>4 DEF ReplayInv
<1> QED
  BY <1>1, <1>2

(* What is played is written, and the reader goes on behind it.            *)
LEMMA PlayWell ==
  ASSUME AllInv, ReplayInv, UNCHANGED <<mapping, livemix>>, view, Play
  PROVE  ReplayInv'
<1>t. TypeInv /\ BoundsInv /\ QuietInv /\ SeenInv
  BY DEF AllInv, StreamInv, ReplayInv
<1>r. /\ write_frames \in Nat /\ read_pos \in Nat /\ count \in Nat /\ local.written \in Nat
  BY <1>t, ReplayRanges
<1>s. /\ epoch' = epoch /\ write_frames' = write_frames /\ reserved' = reserved
      /\ (Silent' <=> Silent)
      /\ QuietInv'
  BY <1>t, StreamStays
<1>1. /\ reader = "play" /\ view' = view /\ seen' = seen /\ floor' = read_pos + count
      /\ \/ read_pos' = read_pos + count /\ reader' = "read" /\ local' = local
         \/ read_pos' = read_pos + count /\ PullEnds
         \/ read_pos' = PrefillFrom(write_frames, TRUE) /\ PullEnds
  BY DEF Play, PullGoes
<1>2. seen = local.epoch /\ read_pos + count <= local.written
  <2>1. local.written >= read_pos + count
    BY <1>t, <1>1 DEF BoundsInv, Valid
  <2> QED
    BY <1>t, <1>r, <1>1, <2>1 DEF SeenInv, Settled, Valid
<1>3. Covers(seen, read_pos + count)
  BY <1>t, <1>r, <1>2 DEF SeenInv, Covers
<1>4. CASE read_pos' = read_pos + count /\ PullEnds
  <2>1. read_pos' >= floor'
    BY <1>r, <1>1, <1>4
  <2> QED
    BY <1>t, <1>1, <1>3, <1>4, <2>1, PullEndsWell
<1>5. CASE read_pos' = PrefillFrom(write_frames, TRUE) /\ PullEnds
  <2>1. read_pos' = write_frames
    BY <1>r, <1>5, PrefillStays
  <2>2. Covers(seen, floor') /\ Covers(seen, read_pos')
    <3>1. write_frames <= write_frames
      BY <1>r
    <3> QED
      BY <1>1, <1>3, <2>1, <3>1 DEF Covers
  <2>3. read_pos' >= floor' \/ Gone(seen)
    BY <1>r, <1>1, <1>3, <2>1 DEF Covers
  <2> QED
    BY <1>t, <1>1, <1>5, <2>2, <2>3, PullEndsWell
<1>6. CASE read_pos' = read_pos + count /\ reader' = "read" /\ local' = local
  <2>1. SeenInv'
    BY <1>t, <1>s, <1>1, <1>2, <1>3, <1>6 DEF SeenInv, Covers, Gone
  <2>2. read_pos' >= floor'
    BY <1>r, <1>1, <1>6
  <2>3. FollowInv' /\ AheadInv'
    BY <1>6, <2>2 DEF FollowInv, Follows, AheadInv, Valid
  <2> QED
    BY <1>s, <2>1, <2>3 DEF ReplayInv
<1> QED
  BY <1>1, <1>4, <1>5, <1>6

LEMMA PullKeepsReplay ==
  ASSUME AllInv, ReplayInv, Pull
  PROVE  ReplayInv'
<1>t. TypeInv /\ LocalInv /\ QuietInv /\ SeenInv /\ FollowInv /\ write_frames \in Nat
  BY ReplayRanges DEF AllInv, EpochInv, ReplayInv
<1>u. UNCHANGED <<mapping, livemix>>
  BY ReaderTouchesItsOwn
<1>v. view
  <2>1. reader = "idle" => view
    BY DEF Pull, PullFindsNothing, PullBegins, PullLoadsEpoch, PullLoadsWritten, Load, PullChecksEpoch,
           PullIsOffline, PullIsOnline, PullWaitsForFormat, PullFillsQueue, PullRunsDry,
           PullValidatesEpoch, PullValidatesLive, Play
  <2> QED
    BY <1>t, <2>1 DEF LocalInv
<1>1. CASE PullFindsNothing
  <2>1. GoOffline(write_frames)
    BY <1>1 DEF PullFindsNothing
  <2>2. Covers(seen, write_frames)
    BY <1>t DEF Covers
  <2> QED
    BY <1>t, <1>u, <1>v, <2>1, <2>2, GoOfflineWell
<1>2. CASE PullRunsDry
  <2>1. /\ PullEnds
        /\ UNCHANGED <<view, seen, floor>>
        /\ \/ read_pos' = read_pos
           \/ read_pos' = PrefillFrom(write_frames, TRUE)
    BY <1>2, Zenon DEF PullRunsDry
  <2>2. CASE read_pos' = read_pos
    <3>1. read_pos' >= floor' \/ Gone(seen) \/ reserved - floor' >= Capacity
      BY <1>t, <2>1, <2>2 DEF FollowInv, Follows, Lagging
    <3>2. Covers(seen, floor') /\ Covers(seen, read_pos')
      BY <1>t, <2>1, <2>2 DEF SeenInv
    <3> QED
      BY <1>t, <1>u, <1>v, <2>1, <3>1, <3>2, PullEndsWell
  <2>3. CASE read_pos' = PrefillFrom(write_frames, TRUE)
    BY <1>u, <1>v, <2>1, <2>3, ForgettingWell
  <2> QED
    BY <2>1, <2>2, <2>3, Zenon
<1> QED
  BY <1>u, <1>v, <1>1, <1>2, PullMovesWell, PullChecksWell, PullOnlineWell, PullFillsWell,
     PullValidatesWell, PlayWell DEF Pull

(* A read looks at the reservation twice: before it copies, and after.     *)
LEMMA ReadBeginsWell ==
  ASSUME AllInv, ReplayInv, UNCHANGED <<mapping, livemix>>, view,
         ReadChecksEpoch \/ ReadLoadsWritten \/ ReadLoadsReserved
  PROVE  ReplayInv'
<1>t. TypeInv /\ LocalInv /\ PositionsInv /\ QuietInv /\ SeenInv /\ FollowInv
  BY DEF AllInv, EpochInv, StreamInv, ReplayInv
<1>r. /\ write_frames \in Nat /\ reserved \in Nat /\ epoch \in Nat /\ seen \in Nat
      /\ read_pos \in Nat /\ floor \in Nat /\ local.epoch \in Nat /\ local.written \in Nat
      /\ Capacity \in Nat
  BY <1>t, ReplayRanges
<1>s. /\ epoch' = epoch /\ write_frames' = write_frames /\ reserved' = reserved
      /\ (Silent' <=> Silent)
      /\ QuietInv'
  BY <1>t, StreamStays
<1>l. local = [epoch |-> local.epoch, written |-> local.written]
  BY <1>t DEF TypeInv, TypeOK, PluginOK
<1>1. reader \in {"read", "readWritten", "readReserved"} /\ seen = local.epoch
  BY <1>t DEF ReadChecksEpoch, ReadLoadsWritten, ReadLoadsReserved, Load, SeenInv, Settled
<1>2. CASE ReadFails
  <2>1. CASE ReadChecksEpoch
    <3>1. epoch # local.epoch \/ ~ ReadFails \/ reader' = "readWritten"
      BY <2>1 DEF ReadChecksEpoch, PullGoes
    <3>2. reader' = "idle"
      BY <1>2 DEF ReadFails, PullEnds
    <3>3. Gone(seen)
      BY <1>t, <1>r, <1>1, <1>2, <3>1, <3>2 DEF LocalInv, Gone
    <3> QED
      BY <1>2, <3>3, ReadFailsWell
  <2>2. CASE ReadLoadsReserved
    <3>1. read_pos > local.written \/ BehindTheRing(local.written, reserved)
      <4>1. read_pos > local.written \/ BehindTheRing(local.written, reserved)
            \/ reader' \in {"nothing", "copy"}
        BY <2>2 DEF ReadLoadsReserved, PullGoes
      <4>2. reader' = "idle"
        BY <1>2 DEF ReadFails, PullEnds
      <4> QED
        BY <4>1, <4>2
    <3>2. read_pos > local.written => Gone(seen)
      <4>1. reader = "readReserved"
        BY <2>2 DEF ReadLoadsReserved
      <4> QED
        BY <1>t, <1>r, <4>1 DEF FollowInv
    <3>3. BehindTheRing(local.written, reserved) => Gone(seen) \/ Lagging
      BY <1>t, <1>1, OverrunLags DEF FollowInv
    <3> QED
      BY <1>2, <3>1, <3>2, <3>3, ReadFailsWell
  <2>3. ~ ReadLoadsWritten
    BY <1>2 DEF ReadLoadsWritten, Load, PullGoes, ReadFails, PullEnds
  <2> QED
    BY <2>1, <2>2, <2>3
<1>3. CASE ~ ReadFails /\ ~ ReadLoadsReserved
  <2>1. /\ UNCHANGED <<view, seen, read_pos, floor, count>>
        /\ \/ reader' = "readWritten" /\ local' = local
           \/ reader' = "readReserved" /\ local'.epoch = local.epoch /\ local'.written = write_frames
    BY <1>3, <1>l DEF ReadChecksEpoch, ReadLoadsWritten, Load, PullGoes
  <2>2. Covers(local'.epoch, local'.written)
    <3>1. write_frames <= write_frames
      BY <1>r
    <3> QED
      BY <1>t, <2>1, <3>1 DEF SeenInv, Covers
  <2>3. SeenInv'
    BY <1>t, <1>s, <1>1, <2>1, <2>2 DEF SeenInv, Covers, Gone
  <2>4. reader' = "readReserved" => read_pos <= local'.written \/ Gone(seen)
    BY <1>t, <2>1 DEF SeenInv, Covers
  <2>5. FollowInv' /\ AheadInv'
    BY <1>t, <1>s, <2>1, <2>4 DEF FollowInv, Follows, Gone, Lagging, AheadInv, Valid
  <2> QED
    BY <1>s, <2>3, <2>5 DEF ReplayInv
<1>4. CASE ~ ReadFails /\ ReadLoadsReserved
  <2>1. /\ ~ (read_pos > local.written) /\ ~ BehindTheRing(local.written, reserved)
        /\ UNCHANGED <<view, seen, read_pos, floor, local>>
        /\ count' = local.written - read_pos
        /\ reader' = (IF count' = 0 THEN "nothing" ELSE "copy")
    BY <1>4 DEF ReadLoadsReserved, PullGoes
  <2>2. read_pos <= local.written /\ reserved - read_pos < Capacity
    BY <1>r, <2>1 DEF BehindTheRing
  <2>3. count' \in Nat
    BY <1>r, <2>1, <2>2
  <2>4. read_pos >= floor \/ Gone(seen)
    BY <1>t, <1>r, <2>2 DEF FollowInv, Follows, Lagging
  <2>5. SeenInv'
    BY <1>t, <1>s, <1>1, <2>1 DEF SeenInv, Covers, Gone
  <2>6. FollowInv' /\ AheadInv'
    BY <1>s, <2>1, <2>3, <2>4 DEF FollowInv, Follows, Gone, AheadInv, Valid
  <2> QED
    BY <1>s, <2>5, <2>6 DEF ReplayInv
<1> QED
  BY <1>2, <1>3, <1>4

LEMMA ReadCopiesWell ==
  ASSUME AllInv, ReplayInv, UNCHANGED <<mapping, livemix>>, view, CopyOut \/ ReadLoadsWrittenAgain
  PROVE  ReplayInv'
<1>t. TypeInv /\ BoundsInv /\ QuietInv /\ SeenInv /\ FollowInv /\ AheadInv
  BY DEF AllInv, StreamInv, ReplayInv
<1>r. /\ write_frames \in Nat /\ read_pos \in Nat /\ count \in Nat /\ local.written \in Nat
  BY <1>t, ReplayRanges
<1>s. /\ epoch' = epoch /\ write_frames' = write_frames /\ reserved' = reserved
      /\ (Silent' <=> Silent)
      /\ QuietInv'
  BY <1>t, StreamStays
<1>l. local = [epoch |-> local.epoch, written |-> local.written]
  BY <1>t DEF TypeInv, TypeOK, PluginOK
<1>1. CASE CopyOut
  <2>1. reader' = reader /\ UNCHANGED <<view, seen, read_pos, floor, local, count>>
    BY <1>1 DEF CopyOut
  <2>2. SeenInv'
    BY <1>t, <1>s, <2>1 DEF SeenInv, Covers, Gone
  <2>3. FollowInv' /\ AheadInv'
    BY <1>t, <1>s, <2>1 DEF FollowInv, Follows, Gone, Lagging, AheadInv
  <2> QED
    BY <1>s, <2>2, <2>3 DEF ReplayInv
<1>2. CASE ReadLoadsWrittenAgain
  <2>1. /\ reader = "copy" /\ reader' = "reservedAgain"
        /\ UNCHANGED <<view, seen, read_pos, floor, count>>
        /\ local'.epoch = local.epoch /\ local'.written = write_frames
    BY <1>2, <1>l DEF ReadLoadsWrittenAgain, Load, PullGoes
  <2>2. seen = local.epoch /\ read_pos + count = local.written /\ count > 0
    BY <1>t, <2>1 DEF SeenInv, Settled, Taken, BoundsInv, AheadInv
  <2>3. write_frames < read_pos + count => Gone(seen)
    BY <1>t, <1>r, <2>2 DEF SeenInv, Covers
  <2>4. read_pos >= floor \/ epoch > seen \/ write_frames < read_pos + count
    <3>1. Silent => write_frames < read_pos + count
      BY <1>r, <2>2 DEF Silent
    <3> QED
      BY <1>t, <2>1, <3>1 DEF AheadInv, Gone
  <2>5. SeenInv'
    <3>1. Covers(local'.epoch, local'.written)
      <4>1. write_frames <= write_frames
        BY <1>r
      <4> QED
        BY <2>1, <4>1 DEF Covers
    <3> QED
      BY <1>t, <1>s, <2>1, <2>2, <3>1 DEF SeenInv, Covers, Gone
  <2>6. FollowInv'
    BY <1>t, <1>s, <2>1 DEF FollowInv, Follows, Gone, Lagging
  <2>7. AheadInv'
    BY <1>s, <2>1, <2>2, <2>3, <2>4 DEF AheadInv, Gone, Valid
  <2> QED
    BY <1>s, <2>5, <2>6, <2>7 DEF ReplayInv
<1> QED
  BY <1>1, <1>2

LEMMA ReadChecksWell ==
  ASSUME AllInv, ReplayInv, UNCHANGED <<mapping, livemix>>, view,
         ReadLoadsReservedAgain \/ ReadChecksEpochAgain
  PROVE  ReplayInv'
<1>t. TypeInv /\ LocalInv /\ QuietInv /\ SeenInv /\ FollowInv /\ AheadInv
  BY DEF AllInv, EpochInv, ReplayInv
<1>r. /\ epoch \in Nat /\ seen \in Nat /\ local.epoch \in Nat /\ read_pos \in Nat /\ count \in Nat
      /\ local.written \in Nat
  BY <1>t, ReplayRanges
<1>s. /\ epoch' = epoch /\ write_frames' = write_frames /\ reserved' = reserved
      /\ (Silent' <=> Silent)
      /\ QuietInv'
  BY <1>t, StreamStays
<1>1. seen = local.epoch
  BY <1>t DEF ReadLoadsReservedAgain, ReadChecksEpochAgain, SeenInv, Settled, Taken
<1>2. CASE ReadLoadsReservedAgain
  <2>1. reader = "reservedAgain"
    BY <1>2 DEF ReadLoadsReservedAgain
  <2>2. CASE local.written < read_pos + count \/ BehindTheRing(local.written, reserved)
    <3>1. ReadFails
      BY <1>2, <2>2 DEF ReadLoadsReservedAgain
    <3>2. local.written < read_pos + count => Gone(seen)
      BY <1>t, <2>1 DEF AheadInv
    <3>3. BehindTheRing(local.written, reserved) => Gone(seen) \/ Lagging
      BY <1>t, <1>1, OverrunLags DEF FollowInv
    <3> QED
      BY <2>2, <3>1, <3>2, <3>3, ReadFailsWell
  <2>3. CASE ~ (local.written < read_pos + count) /\ ~ BehindTheRing(local.written, reserved)
    <3>1. reader' = "epochAgain" /\ UNCHANGED <<view, seen, read_pos, floor, count, local>>
      BY <1>2, <2>3 DEF ReadLoadsReservedAgain, PullGoes
    <3>2. read_pos >= floor \/ epoch > seen
      BY <1>t, <2>1, <2>3 DEF AheadInv
    <3>3. SeenInv'
      BY <1>t, <1>s, <1>1, <3>1 DEF SeenInv, Covers, Gone
    <3>4. FollowInv' /\ AheadInv'
      BY <1>t, <1>s, <3>1, <3>2 DEF FollowInv, Follows, Gone, Lagging, AheadInv, Valid
    <3> QED
      BY <1>s, <3>3, <3>4 DEF ReplayInv
  <2> QED
    BY <2>2, <2>3
<1>3. CASE ReadChecksEpochAgain
  <2>1. reader = "epochAgain"
    BY <1>3 DEF ReadChecksEpochAgain
  <2>2. CASE epoch # local.epoch
    <3>1. ReadFails
      BY <1>3, <2>2 DEF ReadChecksEpochAgain, StillIn
    <3>2. Gone(seen)
      BY <1>t, <1>r, <1>1, <2>2 DEF LocalInv, Gone
    <3> QED
      BY <3>1, <3>2, ReadFailsWell
  <2>3. CASE epoch = local.epoch
    <3>1. reader' = "validate" /\ UNCHANGED <<view, seen, read_pos, floor, count, local>>
      BY <1>3, <2>3 DEF ReadChecksEpochAgain, StillIn, PullGoes
    <3>2. read_pos >= floor
      BY <1>t, <1>r, <1>1, <2>1, <2>3 DEF AheadInv
    <3>3. SeenInv'
      BY <1>t, <1>s, <1>1, <3>1 DEF SeenInv, Covers, Gone
    <3>4. FollowInv' /\ AheadInv'
      BY <3>1, <3>2 DEF FollowInv, Follows, AheadInv, Valid
    <3> QED
      BY <1>s, <3>3, <3>4 DEF ReplayInv
  <2> QED
    BY <2>2, <2>3
<1> QED
  BY <1>2, <1>3

LEMMA ReadKeepsReplay ==
  ASSUME AllInv, ReplayInv, Read
  PROVE  ReplayInv'
<1>u. UNCHANGED <<mapping, livemix>>
  BY ReaderTouchesItsOwn
<1>v. view
  <2>1. reader # "idle"
    BY DEF Read, ReadChecksEpoch, ReadLoadsWritten, ReadLoadsReserved, CopyOut, ReadLoadsWrittenAgain,
           ReadLoadsReservedAgain, ReadChecksEpochAgain, Load
  <2> QED
    BY <2>1 DEF AllInv, EpochInv, LocalInv
<1> QED
  BY <1>u, <1>v, ReadBeginsWell, ReadCopiesWell, ReadChecksWell DEF Read

LEMMA ReplayStep == AllInv /\ ReplayInv /\ TypeInv' /\ [Next]_vars => ReplayInv'
<1> SUFFICES ASSUME AllInv, ReplayInv, TypeInv', [Next]_vars PROVE ReplayInv'
  OBVIOUS
<1>t. TypeInv /\ LocalInv /\ QuietInv /\ SeenInv /\ FollowInv /\ AheadInv
  BY DEF AllInv, EpochInv, ReplayInv
<1>1. CASE Audio
  BY <1>t, <1>1, AudioGoes, GoingKeepsReader DEF ReplayInv
<1>2. CASE Owner
  BY <1>t, <1>2, OwnerGoesWithStream, GoingKeepsReader DEF ReplayInv
<1>3. CASE Environment
  BY <1>3, EnvironmentKeepsReplay
<1>4. CASE Pull
  BY <1>4, PullKeepsReplay
<1>5. CASE Read
  BY <1>5, ReadKeepsReplay
<1>6. CASE UNCHANGED vars
  <2>1. /\ UNCHANGED <<epoch, write_frames, reserved, send_enabled, published, owner>>
        /\ UNCHANGED <<view, reader, seen, read_pos, local, count, floor>>
    BY <1>6 DEF vars
  <2>2. Goes
    <3>1. epoch \in Nat /\ write_frames \in Nat /\ reserved \in Nat
      BY <1>t, ReplayRanges
    <3> QED
      BY <2>1, <3>1 DEF Goes, Silent, Dead
  <2>3. QuietInv'
    BY <1>t, <2>1 DEF QuietInv
  <2> QED
    BY <1>t, <2>2, <2>3, GoingKeepsReader DEF ReplayInv
<1> QED
  BY <1>1, <1>2, <1>3, <1>4, <1>5, <1>6 DEF Next

(* "Reconnect cannot replay pre-stall/disabled audio": within an epoch the *)
(* plugin plays no frame twice, and none that was written before a stall   *)
(* it has noticed, whatever LiveMix does meanwhile, unless OBS asks for a  *)
(* resync (which takes floor back).                                        *)
THEOREM NotReplayed == Spec => []NothingIsReplayed
<1>1. Init => AllInv /\ ReplayInv
  BY TypeHolds, GateHolds, EpochHolds, StreamHolds, ReplayHolds DEF AllInv
<1>2. AllInv /\ ReplayInv /\ [Next]_vars => (AllInv /\ ReplayInv)'
  <2>1. AllInv /\ [Next]_vars => AllInv'
    BY TypeStep, GateStep, EpochStep, StreamStep DEF AllInv
  <2>2. AllInv' => TypeInv'
    BY DEF AllInv
  <2> QED
    BY <2>1, <2>2, ReplayStep
<1>3. AllInv /\ ReplayInv => NothingIsReplayed
  BY DEF ReplayInv, AheadInv, NothingIsReplayed, Valid
<1> QED
  BY <1>1, <1>2, <1>3, PTL DEF Spec
=============================================================================
