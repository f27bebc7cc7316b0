------------------------- MODULE RecorderStoreProofs -------------------------
(***************************************************************************)
(* The recorder, whatever it records, edits and recovers, uses its project *)
(* file as Checkpoints says: every step of RecorderStore is a step of a    *)
(* save, a crash or none of the files' business.  What CheckpointsProofs   *)
(* shows of the files on their own therefore holds of the recorder.  That  *)
(* takes the invariant (Inv) that what is handed to a save is a project,   *)
(* and that somebody waits for every save that runs.                       *)
(*                                                                         *)
(* The second half is about the sessions.  A scan is two folds, one over   *)
(* the checkpoints (ChooseIs) and one over the journal (ScanIs); what they *)
(* keep and add is shown once, for any number of copies and takes.  With   *)
(* that, the invariant LastsInv says what every project that is open, that *)
(* a save writes or that a scan may choose has in common: the edits that   *)
(* were shown as saved, the takes of which there is media, and the rate of *)
(* those that are not adrift.  It holds if the user saves a recovered      *)
(* project before recording into it and before opening a device of another *)
(* rate (SavesFirst); StoreLost.cfg shows what is lost otherwise.          *)
(***************************************************************************)
EXTENDS RecorderStore, Inductions, SequenceTheorems, TLAPS

P == INSTANCE CheckpointsProofs WITH Bodies <- Contents

TakeSteps == {"prepare", "starting", "recording", "stopped", "empty", "draining", "finished",
              "saving", "saved"}
TakesInHand ==
  [step : TakeSteps, id : Takes] \cup [step : TakeSteps, id : Takes, whole : BOOLEAN]

InvOfApp ==
  /\ made \in Nat
  /\ IsOpen => project \in P!Projects
  /\ take # NoTake => IsOpen /\ take \in TakesInHand
  /\ saving \in {"nobody", "user", "take"}
  /\ saving = "nobody" <=> writer = P!Idle
  /\ saving = "take" => take # NoTake /\ take.step \in {"prepare", "saving"}
  /\ saving # "nobody" => IsOpen
  /\ saving = "user" => take = NoTake
Inv == P!IInv /\ InvOfApp

-----------------------------------------------------------------------------
(* The two names of an operation of Checkpoints are one thing.             *)
LEMMA SameBegin ==
  ASSUME NEW p
  PROVE  (Disk!Begin(p) => P!Begin(p)) /\ (Disk!MayReplace(p) <=> P!MayReplace(p))
  BY DEF Disk!Begin, P!Begin, Disk!MayReplace, P!MayReplace, Disk!Valid, P!Valid, Disk!Idle, P!Idle,
         Disk!MaxOf, P!MaxOf, Disk!Gens, P!Gens, Disk!Damaged, P!Damaged

LEMMA SameWrite == Disk!WriteGoesOn => P!WriteGoesOn
  BY DEF Disk!WriteGoesOn, P!WriteGoesOn, Disk!KeepBackup, P!KeepBackup, Disk!FlushBackup, P!FlushBackup,
         Disk!BackupFlushed, P!BackupFlushed, Disk!Replace, P!Replace, Disk!Checkpoint, P!Checkpoint,
         Disk!FlushPrimary, P!FlushPrimary, Disk!At, P!At, Disk!Goes, P!Goes, Disk!Idle, P!Idle

LEMMA SameFailure == Disk!WriteFails => P!WriteFails
  BY DEF Disk!WriteFails, P!WriteFails, Disk!Idle, P!Idle

LEMMA SameCrash == Disk!FilesCrash => P!FilesCrash
  BY DEF Disk!FilesCrash, P!FilesCrash, Disk!CrashLeaves, P!CrashLeaves, Disk!After, P!After,
         Disk!Idle, P!Idle, Disk!Damaged, P!Damaged

LEMMA SameProjects == Disk!Projects = P!Projects
  BY DEF Disk!Projects, P!Projects

(* A save that begins is a step of the files.                              *)
LEMMA Begins ==
  ASSUME Inv, NEW p \in P!Projects, Disk!Begin(p)
  PROVE  P!Next /\ writer' # P!Idle
<1>1. P!Begin(p)
  BY SameBegin
<1>2. primary \in P!Files /\ bak \in P!Files
  BY DEF Inv, P!IInv, P!Typed
<1>3. writer'.gen \in Nat
  <2>1. CASE P!Valid(primary)
    <3>1. writer'.gen = P!MaxOf({0} \cup P!Gens({primary, bak}))
      BY <1>1, <2>1 DEF P!Begin
    <3> QED BY <1>2, <3>1, P!MaxOfGens
  <2>2. CASE ~P!Valid(primary)
    <3>1. P!NoFile \in P!Files /\ ~P!Valid(P!NoFile)
      BY DEF P!NoFile, P!Files, P!Valid
    <3>2. writer'.gen = P!MaxOf({0} \cup P!Gens({P!NoFile, P!NoFile}))
      <4>1. P!Gens({P!NoFile, P!NoFile}) = {}
        BY <3>1 DEF P!Gens
      <4> QED BY <1>1, <2>2, <4>1 DEF P!Begin
    <3> QED BY <3>1, <3>2, P!MaxOfGens
  <2> QED BY <2>1, <2>2
<1>4. writer' \in P!Writers \ {P!Idle} /\ writer'.project = p
  BY <1>1, <1>3 DEF P!Begin, P!Writers, P!Steps, P!Idle
<1> QED
  BY <1>1, <1>4 DEF P!Next, P!Starts

-----------------------------------------------------------------------------
(* What a project may contain.                                             *)
Registrations == [state : TakeStates, media : Nat, clips : Nat]

LEMMA Parts ==
  ASSUME NEW p \in P!Projects
  PROVE  /\ p = [rev |-> p.rev, body |-> p.body] /\ p.rev \in Nat /\ p.body \in Contents
         /\ p.body.takes \in [Takes -> Registrations]
         /\ p # Closed
<1>1. p = [rev |-> p.rev, body |-> p.body] /\ p.rev \in Nat /\ p.body \in Contents
  BY DEF P!Projects
<1>2. p.body.takes \in [Takes -> Registrations]
  BY <1>1 DEF Contents, Registrations
<1>3. DOMAIN p = {"rev", "body"} /\ DOMAIN Closed = {"rev"}
  BY <1>1 DEF Closed
<1> QED BY <1>1, <1>2, <1>3

LEMMA OfContents ==
  ASSUME NEW n \in Nat, NEW b \in Contents
  PROVE  [rev |-> n, body |-> b] \in P!Projects
  BY DEF P!Projects

LEMMA WithTakes ==
  ASSUME NEW b \in Contents, NEW f \in [Takes -> Registrations]
  PROVE  [b EXCEPT !.takes = f] \in Contents
  BY DEF Contents, Registrations

LEMMA OneTake ==
  ASSUME NEW p \in P!Projects, NEW t \in Takes, NEW r \in Registrations
  PROVE  /\ [p.body EXCEPT !.takes[t] = r] \in Contents
         /\ [p EXCEPT !.body.takes[t] = r] \in P!Projects
<1> DEFINE f == [p.body.takes EXCEPT ![t] = r]
<1>1. f \in [Takes -> Registrations]
  BY Parts
<1>2. p.body \in Contents /\ p.rev \in Nat /\ p = [rev |-> p.rev, body |-> p.body]
  BY Parts
<1>3. [p.body EXCEPT !.takes = f] \in Contents
  <2> HIDE DEF f
  <2> QED BY <1>1, <1>2, WithTakes
<1>4. [p.body EXCEPT !.takes[t] = r] = [p.body EXCEPT !.takes = f]
  OBVIOUS
<1>5. [p EXCEPT !.body.takes[t] = r] = [rev |-> p.rev, body |-> [p.body EXCEPT !.takes[t] = r]]
  BY <1>2
<1> QED
  BY <1>2, <1>3, <1>4, <1>5, OfContents

LEMMA InitHolds == Init => Inv /\ P!FilesInit(P!Projects)
<1> SUFFICES ASSUME Init PROVE Inv /\ P!FilesInit(P!Projects)
  OBVIOUS
<1>1. \A rate \in Rates : NewProject(rate) \in P!Projects
  BY DEF NewProject, P!Projects, Contents, Absent, TakeStates, NoMedia
<1>2. P!FilesInit(P!Projects)
  <2>1. Disk!FilesInit({NewProject(rate) : rate \in Rates})
    BY DEF Init
  <2> QED BY <1>1, <2>1 DEF Disk!FilesInit, P!FilesInit, Disk!NoFile, P!NoFile, Disk!Idle, P!Idle
<1>3. P!IInv
  BY <1>2, P!InitVouched
<1>4. InvOfApp
  BY <1>2 DEF Init, InvOfApp, IsOpen, P!FilesInit
<1> QED BY <1>2, <1>3, <1>4 DEF Inv

-----------------------------------------------------------------------------
(* A step that is none of the files' business.                             *)
Apart == UNCHANGED files /\ InvOfApp'

LEMMA OpenIsApart ==
  ASSUME Inv, NEW l, Open(l)
  PROVE  Apart
<1>1. CASE Openable(Choose(l))
  <2>1. /\ project' = Scan(Choose(l).file).project
        /\ UNCHANGED <<files, take, saving, made>> /\ ~IsOpen
    BY <1>1 DEF Open, Adopt
  <2>2. project' \in P!Projects
    BY <1>1, <2>1, SameProjects DEF Openable
  <2> QED BY <2>1, <2>2 DEF Apart, Inv, InvOfApp, files
<1>2. CASE ~Openable(Choose(l))
  BY <1>2 DEF Open, Apart, Inv, InvOfApp, disk, app, files, IsOpen
<1> QED BY <1>1, <1>2

LEMMA EditIsApart ==
  ASSUME Inv, NEW b \in Contents, Edits(b)
  PROVE  Apart
<1>1. /\ project \in P!Projects /\ made \in Nat /\ made + 1 \in 1 .. MaxEdits
      /\ made' = made + 1
  BY StoreAssumption DEF Inv, InvOfApp, Edits
<1>2. /\ project' = [rev |-> project.rev + 1, body |-> [b EXCEPT !.edits = @ \cup {made + 1}]]
      /\ UNCHANGED <<files, take, saving>>
  BY DEF Edits, Revised, disk
<1>3. [b EXCEPT !.edits = @ \cup {made + 1}] \in Contents
  BY <1>1 DEF Contents
<1>4. project' \in P!Projects /\ project' # Closed
  <2>1. project.rev + 1 \in Nat
    BY <1>1, Parts
  <2>2. project' \in P!Projects
    BY <1>2, <1>3, <2>1, OfContents
  <2> QED BY <2>2, Parts
<1> QED BY <1>1, <1>2, <1>4 DEF Apart, Inv, InvOfApp, IsOpen, files

LEMMA RemoveClipsIsApart ==
  ASSUME Inv, NEW t \in Takes, RemoveClips(t)
  PROVE  Apart
<1> DEFINE b == [project.body EXCEPT !.takes[t].clips = 0, !.removed = @ \cup {t}]
           f == [project.body.takes EXCEPT ![t].clips = 0]
<1>1. project \in P!Projects /\ project.body \in Contents
      /\ project.body.takes \in [Takes -> Registrations]
  BY Parts DEF Inv, InvOfApp, RemoveClips
<1>2. f \in [Takes -> Registrations]
  BY <1>1 DEF Registrations
<1>3. b = [project.body EXCEPT !.takes = f, !.removed = @ \cup {t}]
  OBVIOUS
<1>4. b \in Contents
  <2> HIDE DEF f
  <2> QED BY <1>1, <1>2, <1>3 DEF Contents, Registrations
<1>5. Edits(b)
  BY DEF RemoveClips
<1> QED
  <2> HIDE DEF b
  <2> QED BY <1>4, <1>5, EditIsApart

LEMMA ImportIsApart ==
  ASSUME Inv, ImportAudio
  PROVE  Apart
<1>1. project.body \in Contents
  BY Parts DEF Inv, InvOfApp, ImportAudio
<1>2. [project.body EXCEPT !.imported = TRUE] \in Contents
  BY <1>1 DEF Contents
<1> QED
  BY <1>2, EditIsApart DEF ImportAudio

(* The project gets the rate of a device.                                  *)
LEMMA WithRate ==
  ASSUME NEW p \in P!Projects, NEW rate \in Rates
  PROVE  LET q == [p EXCEPT !.body.rate = rate]
         IN  /\ q \in P!Projects /\ q # Closed
             /\ q.rev = p.rev /\ q.body.rate = rate /\ q.body.edits = p.body.edits
             /\ q.body.removed = p.body.removed /\ q.body.takes = p.body.takes
<1> DEFINE q == [p EXCEPT !.body.rate = rate]
<1>1. /\ p = [rev |-> p.rev, body |-> p.body] /\ p.rev \in Nat
      /\ p.body \in Contents
  BY Parts
<1>2. [p.body EXCEPT !.rate = rate] \in Contents
  BY <1>1 DEF Contents
<1>3. q = [rev |-> p.rev, body |-> [p.body EXCEPT !.rate = rate]]
  BY <1>1
<1>4. q.rev = p.rev /\ q.body = [p.body EXCEPT !.rate = rate]
  BY <1>3
<1>5. q \in P!Projects
  BY <1>1, <1>2, <1>3, OfContents
<1> HIDE DEF q
<1>6. q # Closed
  BY <1>5, Parts
<1> QED
  BY <1>1, <1>4, <1>5, <1>6 DEF q, Contents

LEMMA AdoptIsApart ==
  ASSUME Inv, NEW rate \in Rates, AdoptRate(rate)
  PROVE  Apart
<1>1. /\ project \in P!Projects /\ IsOpen
      /\ project' = [project EXCEPT !.body.rate = rate]
      /\ UNCHANGED <<files, take, saving, made>>
  BY DEF AdoptRate, Inv, InvOfApp, disk, ghost
<1>2. project' \in P!Projects /\ project' # Closed
  BY <1>1, WithRate
<1> QED
  BY <1>1, <1>2 DEF Apart, Inv, InvOfApp, IsOpen, files

-----------------------------------------------------------------------------
(* The steps of a save.                                                    *)
LEMMA SaveIsTheFiles ==
  ASSUME Inv, Save
  PROVE  P!Next /\ InvOfApp'
<1>1. project \in P!Projects /\ Disk!Begin(project) /\ take = NoTake
  BY DEF Save, Inv, InvOfApp
<1>2. P!Next /\ writer' # P!Idle
  BY <1>1, Begins
<1>3. saving' = "user" /\ UNCHANGED <<project, take, made>>
  BY DEF Save
<1> QED BY <1>1, <1>2, <1>3 DEF Save, Inv, InvOfApp, IsOpen

LEMMA InHandIsSome == NoTake \notin TakesInHand
<1>1. \A x \in TakesInHand : "id" \in DOMAIN x
  BY DEF TakesInHand
<1>2. "id" \notin DOMAIN NoTake
  BY DEF NoTake
<1> QED BY <1>1, <1>2

LEMMA InHandGoesOn ==
  ASSUME NEW h \in TakesInHand, NEW step \in TakeSteps
  PROVE  [h EXCEPT !.step = step] \in TakesInHand \ {NoTake}
<1>1. [h EXCEPT !.step = step] \in TakesInHand
  BY DEF TakesInHand
<1> QED BY <1>1, InHandIsSome

LEMMA WriteIsTheFiles ==
  ASSUME Inv, Write
  PROVE  P!Next /\ InvOfApp'
<1>1. P!WriteGoesOn /\ P!Next
  BY SameWrite DEF Write, P!Next
<1>2. writer # P!Idle /\ saving \in {"user", "take"} /\ IsOpen
  BY <1>1 DEF P!WriteGoesOn, P!KeepBackup, P!FlushBackup, P!Replace, P!FlushPrimary, P!At, P!Idle,
     Inv, InvOfApp
<1>3. writer'.step = "idle" <=> writer' = P!Idle
  <2>1. CASE P!FlushPrimary
    BY <2>1 DEF P!FlushPrimary, P!Idle
  <2>2. ASSUME NEW step \in P!Steps, P!Goes(step) PROVE writer'.step # "idle"
    <3>1. writer \in P!Writers /\ writer # P!Idle
      BY <1>2 DEF Inv, P!IInv, P!Typed
    <3>2. writer'.step = step
      BY <3>1, <2>2 DEF P!Goes, P!Writers
    <3> QED BY <3>2 DEF P!Steps
  <2>3. CASE P!KeepBackup
    BY <2>3, <2>2 DEF P!KeepBackup, P!Steps, P!Idle
  <2>4. CASE P!FlushBackup
    BY <2>4, <2>2 DEF P!FlushBackup, P!Steps, P!Idle
  <2>5. CASE P!Replace
    BY <2>5, <2>2 DEF P!Replace, P!Steps, P!Idle
  <2> QED BY <1>1, <2>1, <2>3, <2>4, <2>5 DEF P!WriteGoesOn
<1>4. /\ saving' = IF writer' = P!Idle THEN "nobody" ELSE saving
      /\ UNCHANGED <<project, made>>
  BY <1>3 DEF Write
<1>5. take' # NoTake => take' \in TakesInHand
  <2>1. CASE writer'.step # "idle" \/ saving = "user"
    BY <2>1 DEF Write, Inv, InvOfApp
  <2>2. CASE ~(writer'.step # "idle" \/ saving = "user")
    <3>1. take \in TakesInHand
      BY <1>2, <2>2 DEF Inv, InvOfApp
    <3>2. \/ take' = [take EXCEPT !.step = "starting"]
          \/ take' = [take EXCEPT !.step = "saved"]
      BY <2>2 DEF Write
    <3>3. "starting" \in TakeSteps /\ "saved" \in TakeSteps
      BY DEF TakeSteps
    <3> QED BY <3>1, <3>2, <3>3, InHandGoesOn
  <2> QED BY <2>1, <2>2
<1>6. saving' = "take" => take' # NoTake /\ take'.step \in {"prepare", "saving"}
  BY <1>2, <1>3, <1>4 DEF Write, Inv, InvOfApp
<1>7. saving' = "user" => take' = NoTake
  <2>1. ASSUME saving' = "user" PROVE saving = "user"
    BY <1>4, <2>1
  <2>2. saving = "user" => take = NoTake /\ take' = take
    BY DEF Write, Inv, InvOfApp
  <2> QED BY <2>1, <2>2
<1> QED BY <1>1, <1>2, <1>4, <1>5, <1>6, <1>7 DEF Inv, InvOfApp, IsOpen

LEMMA UnsavedIsAProject ==
  ASSUME Inv, IsOpen
  PROVE  Unsaved(project) \in P!Projects
<1>1. project \in P!Projects
  BY DEF Inv, InvOfApp
<1>2. CASE take # NoTake /\ take.step = "saving" /\ Known(project, take.id)
  <2>1. take.id \in Takes
    BY <1>2 DEF Inv, InvOfApp, TakesInHand
  <2> DEFINE r == [project.body.takes[take.id] EXCEPT !.state = "partial"]
  <2>2. r \in Registrations
    BY <1>1, <2>1, Parts DEF Registrations, TakeStates
  <2>3. [project EXCEPT !.body.takes[take.id] = r] \in P!Projects
    <3> HIDE DEF r
    <3> QED BY <1>1, <2>1, <2>2, OneTake
  <2> QED BY <1>2, <2>3 DEF Unsaved
<1>3. CASE ~(take # NoTake /\ take.step = "saving" /\ Known(project, take.id))
  BY <1>1, <1>3 DEF Unsaved
<1> QED BY <1>2, <1>3

LEMMA SaveFailsIsTheFiles ==
  ASSUME Inv, SaveFails
  PROVE  P!Next /\ InvOfApp'
<1>1. P!WriteFails /\ P!Next
  BY SameFailure DEF SaveFails, P!Next
<1>2. writer # P!Idle /\ writer' = P!Idle /\ saving' = "nobody" /\ IsOpen
  BY <1>1 DEF P!WriteFails, P!Idle, Inv, InvOfApp, SaveFails, NobodySaves
<1>3. project' \in P!Projects
  BY <1>2, UnsavedIsAProject DEF SaveFails, Inv, InvOfApp
<1>4. project' # Closed
  BY <1>3, Parts
<1>5. (take' = NoTake \/ take' = take) /\ made' = made
  BY DEF SaveFails, ghost
<1> QED BY <1>1, <1>2, <1>3, <1>4, <1>5 DEF Inv, InvOfApp, IsOpen

LEMMA PrepareIsTheFiles ==
  ASSUME Inv, NEW t \in Takes, NEW rate \in Rates, Prepare(t, rate)
  PROVE  [P!Next]_files /\ InvOfApp'
<1>1. /\ project \in P!Projects /\ take = NoTake /\ saving = "nobody"
      /\ project' = [project EXCEPT !.body.rate = rate] /\ made' = made
  BY DEF Prepare, Inv, InvOfApp
<1>2. project' \in P!Projects /\ project' # Closed
  BY <1>1, WithRate
<1>3. ASSUME NEW step \in {"starting", "prepare"}
      PROVE  [step |-> step, id |-> t] \in TakesInHand \ {NoTake}
  <2>1. [step |-> step, id |-> t] \in [step : TakeSteps, id : Takes]
    BY <1>3 DEF TakeSteps
  <2> QED BY <2>1, InHandIsSome DEF TakesInHand
<1>4. CASE take' = [step |-> "starting", id |-> t] /\ UNCHANGED <<files, saving>>
  BY <1>1, <1>2, <1>3, <1>4 DEF Inv, InvOfApp, IsOpen, files
<1>5. CASE Disk!Begin(project') /\ take' = [step |-> "prepare", id |-> t] /\ saving' = "take"
  <2>1. P!Next /\ writer' # P!Idle
    BY <1>2, <1>5, Begins
  <2> QED BY <1>1, <1>2, <1>3, <1>5, <2>1 DEF Inv, InvOfApp, IsOpen
<1>6. CASE UNCHANGED <<files, take, saving>>
  BY <1>1, <1>2, <1>6 DEF Inv, InvOfApp, IsOpen, files
<1> QED BY <1>4, <1>5, <1>6 DEF Prepare

LEMMA CrashIsTheFiles ==
  ASSUME Inv, Crash
  PROVE  P!Next /\ InvOfApp'
<1>1. P!FilesCrash /\ P!Next
  BY SameCrash DEF Crash, P!Next
<1>2. writer' = P!Idle
  BY <1>1 DEF P!FilesCrash, P!CrashLeaves
<1>3. project' = Closed /\ take' = NoTake /\ saving' = "nobody" /\ made' = made
  BY DEF Crash, ghost
<1> QED BY <1>1, <1>2, <1>3 DEF Inv, InvOfApp, IsOpen

-----------------------------------------------------------------------------
(* The steps of a take.  Most of them only move it on; the stop and the end*)
(* register it in the project, and the end begins a save.                  *)
LEMMA MovesOn ==
  ASSUME Inv, UNCHANGED <<files, saving, made>>, take # NoTake, saving # "take",
         project' \in P!Projects,
         NEW step \in TakeSteps, take' = NoTake \/ take' = [take EXCEPT !.step = step]
  PROVE  Apart
<1>1. take' # NoTake => take' \in TakesInHand
  BY InHandGoesOn DEF Inv, InvOfApp
<1>2. project' # Closed
  BY Parts
<1> QED BY <1>1, <1>2 DEF Apart, Inv, InvOfApp, IsOpen, files

LEMMA TakeIsApart ==
  ASSUME Inv,
         \/ StartTake \/ CannotStart \/ MediaDurable \/ StopTake \/ StopEmpty \/ LogStopped \/ Drain
         \/ SaveRefused \/ EndTake
  PROVE  Apart
<1> DEFINE Under == {"starting", "recording", "stopped", "draining", "saved"}
<1>1. ASSUME NEW from \in Under \cup {"saving"}, take.step = from PROVE take # NoTake /\ IsOpen
  BY <1>1 DEF NoTake, Inv, InvOfApp
<1>2. ASSUME NEW from \in Under, take.step = from PROVE saving # "take"
  BY <1>2 DEF Inv, InvOfApp
<1>3. project \in P!Projects
  <2>1. take.step \in Under \cup {"saving"}
    BY DEF StartTake, CannotStart, MediaDurable, StopTake, StopEmpty, LogStopped, Drain, SaveRefused,
       EndTake, TakeGoes
  <2> QED BY <1>1, <2>1 DEF Inv, InvOfApp
<1>4. ASSUME NEW from \in Under, NEW to \in TakeSteps, TakeGoes(from, to),
             project' \in P!Projects, UNCHANGED <<files, saving, made>>
      PROVE  Apart
  <2>1. take # NoTake /\ saving # "take" /\ take' = [take EXCEPT !.step = to]
    BY <1>1, <1>2, <1>4 DEF TakeGoes
  <2> QED BY <1>4, <2>1, MovesOn
<1>5. ASSUME take.step \in Under \/ (take.step = "saving" /\ saving = "nobody"),
             take' = NoTake, project' \in P!Projects, OnlyTake
      PROVE  Apart
  <2>1. take # NoTake /\ saving # "take"
    BY <1>1, <1>2, <1>5
  <2>2. "saved" \in TakeSteps
    BY DEF TakeSteps
  <2> QED BY <1>5, <2>1, <2>2, MovesOn DEF OnlyTake
<1>6. CASE StartTake
  <2>1. TakeGoes("starting", "recording") /\ UNCHANGED <<project, files, saving, made>>
    BY <1>6 DEF StartTake
  <2>2. "recording" \in TakeSteps
    BY DEF TakeSteps
  <2> QED BY <1>3, <1>4, <2>1, <2>2
<1>7. CASE CannotStart
  BY <1>3, <1>5, <1>7 DEF CannotStart
<1>8. CASE MediaDurable
  BY <1>3, <1>8 DEF MediaDurable, OnlyTake, Apart, Inv, InvOfApp, IsOpen, files
<1>9. CASE StopTake
  <2>1. /\ take.id \in Takes /\ TakeGoes("recording", "stopped")
        /\ UNCHANGED <<files, saving, made>>
    BY <1>1, <1>9 DEF StopTake, OnlyTake, TakeGoes, Inv, InvOfApp, TakesInHand
  <2> DEFINE r == [state |-> "finalising", media |-> Placed, clips |-> 1]
  <2>2. r \in Registrations
    BY DEF Registrations, TakeStates, Placed
  <2>3. [project.body EXCEPT !.takes[take.id] = r] \in Contents
    <3> HIDE DEF r
    <3> QED BY <1>3, <2>1, <2>2, OneTake
  <2>4. project.rev + 1 \in Nat
    BY <1>3, Parts
  <2>5. project' \in P!Projects
    BY <1>9, <2>3, <2>4, OfContents DEF StopTake, Revised
  <2>6. "stopped" \in TakeSteps
    BY DEF TakeSteps
  <2> QED BY <1>4, <2>1, <2>5, <2>6
<1>10. CASE StopEmpty
  <2>1. TakeGoes("recording", "empty") /\ UNCHANGED <<project, files, saving, made>>
    BY <1>10 DEF StopEmpty, OnlyTake
  <2>2. "empty" \in TakeSteps
    BY DEF TakeSteps
  <2> QED BY <1>3, <1>4, <2>1, <2>2
<1>11. CASE LogStopped
  <2>1. TakeGoes("stopped", "draining") /\ UNCHANGED <<project, files, saving, made>>
    BY <1>11 DEF LogStopped, OnlyTake
  <2>2. "draining" \in TakeSteps
    BY DEF TakeSteps
  <2> QED BY <1>3, <1>4, <2>1, <2>2
<1>12. CASE Drain
  <2>1. TakeGoes("draining", "finished") /\ UNCHANGED <<project, files, saving, made>>
    BY <1>12 DEF Drain, OnlyTake
  <2>2. "finished" \in TakeSteps
    BY DEF TakeSteps
  <2> QED BY <1>3, <1>4, <2>1, <2>2
<1>13. CASE SaveRefused
  <2>1. project' \in P!Projects
    BY <1>1, <1>13, UnsavedIsAProject DEF SaveRefused
  <2> QED BY <1>5, <1>13, <2>1 DEF SaveRefused
<1>14. CASE EndTake
  BY <1>3, <1>5, <1>14 DEF EndTake
<1> QED BY <1>6, <1>7, <1>8, <1>9, <1>10, <1>11, <1>12, <1>13, <1>14

LEMMA FinalizeIsTheFiles ==
  ASSUME Inv, NEW state \in {"complete", "partial"}, Finalize(state)
  PROVE  [P!Next]_files /\ InvOfApp'
<1>1. /\ take # NoTake /\ take \in TakesInHand /\ take.id \in Takes /\ saving # "take"
      /\ project \in P!Projects /\ made' = made
  BY DEF Finalize, NoTake, Inv, InvOfApp, TakesInHand
<1>2. project' \in P!Projects /\ project' # Closed
  <2> DEFINE r == [project.body.takes[take.id] EXCEPT !.state = state, !.media = Final]
  <2>1. r \in Registrations
    <3>1. project.body.takes[take.id] \in Registrations
      BY <1>1, Parts
    <3> QED BY <3>1 DEF Registrations, TakeStates, Final
  <2>2. [project EXCEPT !.body.takes[take.id] = r] \in P!Projects
    <3> HIDE DEF r
    <3> QED BY <1>1, <2>1, OneTake
  <2>3. project' = project \/ project' = [project EXCEPT !.body.takes[take.id] = r]
    BY DEF Finalize
  <2> QED BY <1>1, <2>2, <2>3, Parts
<1>3. take' \in TakesInHand /\ take' # NoTake /\ take'.step = "saving"
  <2>1. take' = [step |-> "saving", id |-> take.id, whole |-> state = "complete"]
    BY DEF Finalize
  <2>2. take' \in [step : TakeSteps, id : Takes, whole : BOOLEAN]
    BY <1>1, <2>1 DEF TakeSteps
  <2> QED BY <2>1, <2>2, InHandIsSome DEF TakesInHand
<1>4. CASE Disk!Begin(project') /\ saving' = "take"
  <2>1. P!Next /\ writer' # P!Idle
    BY <1>2, <1>4, Begins
  <2> QED BY <1>1, <1>2, <1>3, <1>4, <2>1 DEF Inv, InvOfApp, IsOpen
<1>5. CASE UNCHANGED <<files, saving>>
  BY <1>1, <1>2, <1>3, <1>5 DEF Inv, InvOfApp, IsOpen, files
<1> QED BY <1>4, <1>5 DEF Finalize

-----------------------------------------------------------------------------
(* Every step of the recorder is a step of the files, or apart from them.  *)
LEMMA StepImplements == Inv /\ [Next]_vars => [P!Next]_files /\ InvOfApp'
<1> SUFFICES ASSUME Inv, [Next]_vars PROVE [P!Next]_files /\ InvOfApp'
  OBVIOUS
<1>1. Apart => [P!Next]_files /\ InvOfApp'
  BY DEF Apart
<1>2. ASSUME NEW l \in Listings, Open(l) PROVE Apart
  BY <1>2, OpenIsApart
<1>3. CASE Edit
  <2>1. project.body \in Contents /\ Edits(project.body)
    BY <1>3, Parts DEF Edit, Inv, InvOfApp
  <2> QED BY <1>1, <2>1, EditIsApart
<1>4. ASSUME NEW t \in Takes, RemoveClips(t) PROVE Apart
  BY <1>4, RemoveClipsIsApart
<1>5a. CASE ImportAudio \/ \E rate \in Rates : AdoptRate(rate)
  BY <1>1, <1>5a, ImportIsApart, AdoptIsApart
<1>5. CASE Save
  BY <1>5, SaveIsTheFiles
<1>6. CASE Write
  BY <1>6, WriteIsTheFiles
<1>7. CASE SaveFails
  BY <1>7, SaveFailsIsTheFiles
<1>8. ASSUME NEW t \in Takes, NEW rate \in Rates, Prepare(t, rate)
      PROVE  [P!Next]_files /\ InvOfApp'
  BY <1>8, PrepareIsTheFiles
<1>9. CASE TakeStep
  BY <1>1, <1>9, TakeIsApart, FinalizeIsTheFiles DEF TakeStep
<1>10. CASE Crash
  BY <1>10, CrashIsTheFiles
<1>11. CASE UNCHANGED vars
  BY <1>11 DEF vars, disk, app, ghost, files, Inv, InvOfApp, IsOpen
<1> QED
  BY <1>1, <1>2, <1>3, <1>4, <1>5a, <1>5, <1>6, <1>7, <1>8, <1>9, <1>10, <1>11 DEF Next

LEMMA InvHolds == Spec => []Inv
<1>1. Init => Inv
  BY InitHolds
<1>2. Inv /\ [Next]_vars => Inv'
  BY StepImplements, P!StepVouched DEF Inv, P!files, files
<1> QED BY <1>1, <1>2, PTL DEF Spec

(* The recorder is one way to use Checkpoints: its project file goes       *)
(* through the states that writeCheckpoint and a crash take it through, and*)
(* through no other, whatever TakeController and the user do.              *)
THEOREM Implements == Spec => P!Spec
<1>1. Init => P!FilesInit(P!Projects)
  BY InitHolds
<1>2. Inv /\ [Next]_vars => [P!Next]_(P!files)
  BY StepImplements DEF P!files, files
<1> QED BY <1>1, <1>2, InvHolds, PTL DEF Spec, P!Spec

(* The project that is opened after a crash, at whatever step of a take or *)
(* of a save it came, is no older than the last save the recorder reported.*)
THEOREM SavesSurvive == Spec => []ConfirmedSurvives
<1>1. Inv => ConfirmedSurvives
  BY P!VouchedSurvives DEF Inv, ConfirmedSurvives, Disk!ConfirmedSurvives, P!ConfirmedSurvives,
     Disk!After, P!After, Disk!ChooseOfTwo, P!ChooseOfTwo, Disk!Consider, P!Consider,
     Disk!Undecided, P!Undecided, Disk!Wins, P!Wins, Disk!Valid, P!Valid,
     Disk!Damaged, P!Damaged, Disk!NoFile, P!NoFile
<1> QED BY <1>1, InvHolds, PTL

(* Nor does any step of the recorder overwrite a damaged original or take  *)
(* the last readable project file away.                                    *)
THEOREM OriginalsSurvive == Spec => NothingGoodIsLost
<1> DEFINE Kept == /\ primary = Disk!Damaged => primary' = Disk!Damaged
                   /\ (\E f \in {primary, bak} : Disk!Valid(f)) =>
                         \E f \in {primary', bak'} : Disk!Valid(f)
<1>1. Inv /\ [Next]_vars => [Kept]_(Disk!files)
  BY StepImplements, P!StepKeeps
     DEF Inv, P!Kept, P!files, files, Disk!files, Disk!Damaged, P!Damaged, Disk!Valid, P!Valid
<1> QED BY <1>1, InvHolds, PTL DEF Spec, NothingGoodIsLost, Disk!NothingGoodIsLost

-----------------------------------------------------------------------------
(* The types of what the recorder keeps besides its project file.          *)
Copies == [state : {"valid"}, gen : Nat, project : P!Projects, done : SUBSET Takes]
Entries == [rate : Rates, durable : BOOLEAN, stopped : BOOLEAN, finalized : BOOLEAN]
StoreTyped ==
  /\ attempts \in Seq(Copies) /\ order \in Seq(Takes)
  /\ manifest \subseteq Takes /\ journal \in [Takes -> Entries]

(* A take the journal says something of besides its name.                  *)
Logged(t) == journal[t].durable \/ journal[t].stopped

(* A scan, from the checkpoint it chose on.                                *)
Scans == [project : P!Projects, wrongRate : BOOLEAN, completed : SUBSET Takes, done : SUBSET Takes]
FirstScan(chosen) ==
  [project |-> chosen.project, wrongRate |-> FALSE,
   completed |-> Completed(chosen.project),
   done |-> BroughtBack(chosen) \cup StillConnected(chosen.project)]

LEMMA Members ==
  ASSUME NEW X, NEW q \in Seq(X)
  PROVE  /\ DOMAIN q = 1 .. Len(q) /\ Len(q) \in Nat
         /\ Range(q) \subseteq X
         /\ \A i \in DOMAIN q : q[i] \in Range(q) /\ q[i] \in X
<1>1. q \in [1 .. Len(q) -> X] /\ DOMAIN q = 1 .. Len(q) /\ Len(q) \in Nat
  BY LenProperties
<1>2. \A i \in DOMAIN q : q[i] \in X
  BY <1>1
<1>3. Range(q) = {q[i] : i \in DOMAIN q}
  BY DEF Range
<1>4. Range(q) \subseteq X /\ \A i \in DOMAIN q : q[i] \in Range(q)
  BY <1>2, <1>3
<1> QED
  BY <1>1, <1>2, <1>4

LEMMA AppendMembers ==
  ASSUME NEW X, NEW q \in Seq(X), NEW x \in X
  PROVE  Range(Append(q, x)) = Range(q) \cup {x}
<1> DEFINE r == Append(q, x)
           D == DOMAIN q
           n == Len(q) + 1
<1>1. /\ r \in Seq(X) /\ Len(r) = n /\ D = 1 .. Len(q) /\ Len(q) \in Nat
      /\ \A i \in 1 .. Len(q) : r[i] = q[i]
  BY AppendProperties, Members
<1>2. r[n] = x
  BY AppendProperties
<1>3. DOMAIN r = D \cup {n}
  <2>1. DOMAIN r = 1 .. n
    BY <1>1, Members, Zenon
  <2> QED
    BY <1>1, <2>1
<1>4. \A y : /\ y \in Range(q) <=> \E i \in D : y = q[i]
             /\ y \in Range(r) <=> \E i \in DOMAIN r : y = r[i]
  BY DEF Range
<1> HIDE DEF r, n
<1>5. \A i \in D : r[i] = q[i]
  BY <1>1
<1> HIDE DEF D
<1>6. \A y : y \in Range(r) <=> y \in Range(q) \cup {x}
  BY <1>2, <1>3, <1>4, <1>5
<1> QED
  BY <1>6 DEF r

LEMMA GreatestOfPart ==
  ASSUME NEW n \in Nat, NEW s, s \subseteq 0 .. n, s # {}
  PROVE  Max(s) \in s /\ \A i \in s : i <= Max(s)
<1> DEFINE T == {n - i : i \in s}
<1>1. T \subseteq Nat /\ T # {}
  <2>1. \A i \in s : n - i \in Nat
    OBVIOUS
  <2> QED
    BY <2>1, Zenon
<1>2. PICK m \in T : \A k \in T : m <= k
  <2> HIDE DEF T
  <2> QED
    BY <1>1, LeastElement
<1>3. n - m \in s /\ \A i \in s : n - m >= i
  <2>1. PICK j \in s : m = n - j
    BY <1>2
  <2>2. \A i \in s : m <= n - i
    BY <1>2
  <2> QED
    BY <2>1, <2>2
<1> QED
  BY <1>3 DEF Max

(* What a scan keeps, and what it adds, from one take of the journal to the*)
(* last.                                                                   *)
Recovers(s, r) ==
  /\ r.project.body.edits = s.project.body.edits
  /\ r.project.body.removed = s.project.body.removed
  /\ r.project.body.rate = s.project.body.rate
  /\ r.completed = s.completed /\ s.done \subseteq r.done
  /\ s.project.rev <= r.project.rev /\ (s.project.rev = r.project.rev => r = s)
  /\ r.wrongRate => s.wrongRate \/ \E t \in Range(order) : journal[t].rate # s.project.body.rate
  /\ \A t \in Takes :
       /\ Known(s.project, t) => Known(r.project, t)
       /\ Known(r.project, t) => Known(s.project, t) \/ (t \in Range(order) /\ (Logged(t)))
       /\ t \in r.done => t \in s.done \/ Known(r.project, t) \/ ~ Logged(t)
       /\ r.project.body.takes[t].clips =
            IF Known(s.project, t) \/ ~ Known(r.project, t) THEN s.project.body.takes[t].clips ELSE 1
       /\ t \in s.completed => r.project.body.takes[t] = s.project.body.takes[t]

LEMMA RecoversNot ==
  ASSUME NEW s \in Scans
  PROVE  Recovers(s, s)
<1>1. s.project \in P!Projects
  BY DEF Scans
<1>2. s.project.rev \in Nat
  BY <1>1, Parts
<1> QED
  BY <1>2 DEF Recovers

LEMMA RecoversOn ==
  ASSUME NEW s \in Scans, NEW m \in Scans, NEW r \in Scans, Recovers(s, m), Recovers(m, r)
  PROVE  Recovers(s, r)
<1>1. /\ s.project \in P!Projects /\ m.project \in P!Projects /\ r.project \in P!Projects
  BY DEF Scans
<1>2. s.project.rev \in Nat /\ m.project.rev \in Nat /\ r.project.rev \in Nat
  BY <1>1, Parts
<1>3. s.project.rev <= r.project.rev /\ (s.project.rev = r.project.rev => r = s)
  BY <1>2 DEF Recovers
<1> QED
  BY <1>3 DEF Recovers

LEMMA RecoverTakeIs ==
  ASSUME StoreTyped, NEW s \in Scans, NEW t \in Range(order)
  PROVE  /\ RecoverTake(s, t) \in Scans
         /\ Recovers(s, RecoverTake(s, t))
         /\ t \in RecoverTake(s, t).completed \cup RecoverTake(s, t).done
         /\ t \in s.completed \cup s.done => RecoverTake(s, t) = s
<1> DEFINE p == s.project
           known == Known(p, t)
           log == journal[t]
           whole == log.finalized /\ t \in manifest
           left == known \/ log.durable \/ log.stopped
           brought == [state |-> IF whole THEN "complete" ELSE "partial",
                       media |-> IF whole THEN Final ELSE Recovered(Len(attempts) + 1),
                       clips |-> ClipsOf(p, t)]
           body == IF left THEN [p.body EXCEPT !.takes[t] = brought] ELSE p.body
           wrong == log.rate # p.body.rate
           r == [s EXCEPT !.project = [rev |-> p.rev + 1, body |-> body],
                          !.done = @ \cup {t},
                          !.wrongRate = @ \/ wrong]
<1>1. RecoverTake(s, t) = IF t \in s.completed \cup s.done THEN s ELSE r
  BY DEF RecoverTake
<1>2. t \in Takes /\ Len(attempts) \in Nat
  BY Members DEF StoreTyped
<1>3. /\ p \in P!Projects /\ p.rev \in Nat /\ p.body \in Contents
      /\ p.body.takes \in [Takes -> Registrations]
      /\ s = [project |-> p, wrongRate |-> s.wrongRate, completed |-> s.completed, done |-> s.done]
      /\ s.wrongRate \in BOOLEAN /\ s.completed \subseteq Takes /\ s.done \subseteq Takes
  BY Parts DEF Scans
<1>4. brought \in Registrations /\ brought.state # "absent"
      /\ brought.clips = IF known THEN p.body.takes[t].clips ELSE 1
  BY <1>2, <1>3 DEF Registrations, TakeStates, Final, Recovered, ClipsOf
<1> HIDE DEF brought
<1>5. body \in Contents
  BY <1>2, <1>3, <1>4, OneTake
<1>6. /\ body.edits = p.body.edits /\ body.removed = p.body.removed /\ body.rate = p.body.rate
      /\ body.takes = IF left THEN [p.body.takes EXCEPT ![t] = brought] ELSE p.body.takes
  BY <1>3 DEF Contents
<1> HIDE DEF body
<1>7. /\ r.project = [rev |-> p.rev + 1, body |-> body] /\ r.wrongRate = (s.wrongRate \/ wrong)
      /\ r.done = s.done \cup {t} /\ r.completed = s.completed
      /\ r = [project |-> r.project, wrongRate |-> r.wrongRate, completed |-> r.completed, done |-> r.done]
  <2> DEFINE q == [rev |-> p.rev + 1, body |-> body]
             d == {t}
  <2>1. /\ DOMAIN s = {"project", "wrongRate", "completed", "done"} /\ s.wrongRate \in BOOLEAN
        /\ wrong \in BOOLEAN
    BY DEF Scans, wrong
  <2> HIDE DEF wrong, q, d
  <2>2. /\ DOMAIN r = DOMAIN s /\ r = [field \in DOMAIN s |-> r[field]]
        /\ r.project = q /\ r.completed = s.completed /\ r.done = s.done \cup d
    BY <2>1 DEF q, d
  <2>3. r.wrongRate = (s.wrongRate \/ wrong)
    BY <2>1
  <2> HIDE DEF r
  <2>4. r = [project |-> r.project, wrongRate |-> r.wrongRate, completed |-> r.completed, done |-> r.done]
    BY <2>1, <2>2
  <2> QED
    BY <2>2, <2>3, <2>4 DEF q, d
<1>8. r \in Scans
  <2>1. r.project \in P!Projects
    BY <1>3, <1>5, <1>7, OfContents
  <2>2. r.wrongRate \in BOOLEAN
    BY <1>3, <1>7
  <2> QED
    BY <1>2, <1>3, <1>7, <2>1, <2>2 DEF Scans
<1> HIDE DEF r
<1>9. ASSUME t \notin s.completed PROVE Recovers(s, r)
  <2>1. s.project.rev <= r.project.rev /\ (s.project.rev = r.project.rev => r = s)
    BY <1>3, <1>7
  <2>2. ASSUME NEW u \in Takes
        PROVE  /\ Known(s.project, u) => Known(r.project, u)
               /\ Known(r.project, u) => Known(s.project, u) \/ (u \in Range(order) /\ (Logged(u)))
               /\ u \in r.done => u \in s.done \/ Known(r.project, u) \/ ~ Logged(u)
               /\ r.project.body.takes[u].clips =
                    IF Known(s.project, u) \/ ~ Known(r.project, u)
                    THEN s.project.body.takes[u].clips ELSE 1
               /\ u \in s.completed => r.project.body.takes[u] = s.project.body.takes[u]
    <3>1. r.project.body.takes[u] = IF u = t /\ left THEN brought ELSE p.body.takes[u]
      BY <1>2, <1>3, <1>6, <1>7
    <3>2. CASE u = t /\ left
      BY <1>4, <1>9, <3>1, <3>2 DEF Known, Logged
    <3>3. CASE ~(u = t /\ left)
      BY <1>7, <3>1, <3>3 DEF Known, Logged
    <3> QED
      BY <3>2, <3>3
  <2>3. r.wrongRate => s.wrongRate \/ \E u \in Range(order) : journal[u].rate # s.project.body.rate
    BY <1>7
  <2> HIDE DEF p
  <2> QED
    BY <1>6, <1>7, <2>1, <2>2, <2>3 DEF Recovers, p
<1> QED
  BY <1>1, <1>7, <1>8, <1>9, RecoversNot

(* The scan brings every take of the journal back that the checkpoint does *)
(* not have yet, and changes nothing if there is none.                     *)
LEMMA ScanIs ==
  ASSUME StoreTyped, NEW c, c.project \in P!Projects, BroughtBack(c) \subseteq Takes
  PROVE  LET s == FirstScan(c)  r == Scan(c)
         IN  /\ s \in Scans /\ r \in Scans /\ Recovers(s, r)
             /\ \A t \in Range(order) : t \in r.completed \cup r.done
             /\ (\A t \in Range(order) : t \in s.completed \cup s.done) => r = s
<1> DEFINE b == FirstScan(c)
           D == DOMAIN order
           choose == [s \in SUBSET D |-> Max(s)]
           h == [x \in D \X Scans |-> RecoverTake(x[2], order[x[1]])]
           rec(g) == [s \in SUBSET D |->
                        IF s = {} THEN b
                        ELSE LET x == Max(s) IN RecoverTake(g[s \ {x}], order[x])]
           iter == CHOOSE g : g = rec(g)
<1>1. Scan(c) = iter[D]
  BY DEF Scan, FirstScan, FoldLeft, MapThenFoldSet
<1>2. /\ D = 1 .. Len(order) /\ Len(order) \in Nat /\ IsFiniteSet(D)
      /\ \A i \in D : order[i] \in Range(order) /\ order[i] \in Takes
      /\ Range(order) \subseteq Takes
  <2>1. /\ D = 1 .. Len(order) /\ Len(order) \in Nat /\ Range(order) \subseteq Takes
        /\ \A i \in D : order[i] \in Range(order) /\ order[i] \in Takes
    BY Members DEF StoreTyped
  <2> HIDE DEF D
  <2> QED
    BY <2>1, FS_Interval
<1>3. b \in Scans
  <2>1. Completed(c.project) \subseteq Takes /\ StillConnected(c.project) \subseteq Takes
    BY DEF Completed, StillConnected, StoreTyped
  <2> QED
    BY <2>1 DEF FirstScan, Scans
<1>4. ASSUME NEW i \in D, NEW r \in Scans
      PROVE  RecoverTake(r, order[i]) \in Scans
  BY <1>2, RecoverTakeIs
<1>5. h \in [D \X Scans -> Scans]
  BY <1>4
<1>6. \A s \in SUBSET D : s # {} => choose[s] \in s /\ choose[s] = Max(s)
  <2>1. \A s \in SUBSET D : s \subseteq 0 .. Len(order)
    BY <1>2
  <2> HIDE DEF D
  <2> QED
    BY <1>2, <2>1, GreatestOfPart
<1>7. \A i \in D, r \in Scans : h[i, r] = RecoverTake(r, order[i])
  OBVIOUS
<1> HIDE DEF b, D, choose, h
<1>8. PICK f : FoldsOver(f, D, Scans, b, h, choose)
  BY <1>2, <1>3, <1>5, <1>6, SubsetRecursion
<1>9. /\ f \in [SUBSET D -> Scans]
      /\ \A s \in SUBSET D : f[s] = IF s = {} THEN b ELSE h[choose[s], f[s \ {choose[s]}]]
  BY <1>8 DEF FoldsOver
<1>10. f = rec(f)
  <2>1. ASSUME NEW s \in SUBSET D, s # {}
        PROVE  f[s] = LET x == Max(s) IN RecoverTake(f[s \ {x}], order[x])
    <3>1. choose[s] \in D /\ s \ {choose[s]} \in SUBSET D
      BY <1>6, <2>1
    <3>2. f[s \ {choose[s]}] \in Scans
      BY <1>9, <3>1
    <3> QED
      BY <1>6, <1>7, <1>9, <2>1, <3>1, <3>2
  <2> QED
    BY <1>9, <2>1
<1>11. iter = rec(iter)
  BY <1>10
<1> HIDE DEF iter
<1> DEFINE There(s, t) == t \in s.completed \cup s.done
           T == {s \in SUBSET D :
                   /\ iter[s] \in Scans /\ Recovers(b, iter[s])
                   /\ \A i \in s : There(iter[s], order[i])
                   /\ (\A i \in D : There(b, order[i])) => iter[s] = b}
<1>12. {} \in T
  BY <1>3, <1>11, RecoversNot
<1>13. ASSUME NEW s \in SUBSET D, s # {}, s \ {choose[s]} \in T
       PROVE  s \in T
  <2> DEFINE m == iter[s \ {choose[s]}]
             t == order[choose[s]]
  <2>1. iter[s] = RecoverTake(m, t) /\ choose[s] \in s /\ choose[s] \in D /\ t \in Range(order)
    BY <1>2, <1>6, <1>11, <1>13
  <2>2. /\ m \in Scans /\ Recovers(b, m) /\ \A i \in s \ {choose[s]} : There(m, order[i])
        /\ (\A i \in D : There(b, order[i])) => m = b
    BY <1>13
  <2> HIDE DEF m, t
  <2>3. /\ iter[s] \in Scans /\ Recovers(m, iter[s]) /\ There(iter[s], t)
        /\ There(m, t) => iter[s] = m
    BY <2>1, <2>2, RecoverTakeIs
  <2>4. Recovers(b, iter[s])
    BY <1>3, <2>2, <2>3, RecoversOn
  <2>5. \A i \in s : There(iter[s], order[i])
    BY <2>2, <2>3 DEF Recovers, t
  <2>6. (\A i \in D : There(b, order[i])) => iter[s] = b
    BY <2>1, <2>2, <2>3 DEF t
  <2> QED
    BY <2>3, <2>4, <2>5, <2>6
<1> HIDE DEF T, There
<1>14. SUBSET D \subseteq T
  <2>1. \A s \in SUBSET D : s # {} => choose[s] \in s
    BY <1>6
  <2>2. \A s \in SUBSET D : s # {} /\ s \ {choose[s]} \in T => s \in T
    BY <1>13
  <2>3. IsFiniteSet(D)
    BY <1>2
  <2> USE DEF D
  <2> QED
    BY <1>12, <2>1, <2>2, <2>3, SubsetInduction
<1>15. D \in T
  BY <1>14
<1>16. \A t \in Range(order) : \E i \in D : t = order[i]
  BY DEF Range, D
<1> QED
  BY <1>1, <1>2, <1>3, <1>15, <1>16 DEF T, There, b

-----------------------------------------------------------------------------
(* The file that vouches for what was saved: the primary, or the backup    *)
(* while a new primary is not flushed and after the primary was damaged.   *)
(* A recovered copy is ahead if it is newer; the project that was made from*)
(* it was not saved since.                                                 *)
Voucher == IF writer.step = "flushPrimary" \/ primary = P!Damaged THEN bak ELSE primary
Ahead == {a \in Range(attempts) : a.gen > Voucher.gen}

LEMMA VoucherIs ==
  ASSUME Inv
  PROVE  /\ Voucher \in P!Files /\ P!Valid(Voucher)
         /\ Voucher = [state |-> "valid", gen |-> Voucher.gen, project |-> Voucher.project]
         /\ Voucher.gen \in Nat /\ Voucher.project \in P!Projects /\ Voucher.project.rev \in Nat
         /\ writer.step = "flushPrimary" => P!BackupVouches /\ Voucher = bak
         /\ writer.step # "flushPrimary" => \/ P!PrimaryVouches /\ Voucher = primary
                                            \/ P!OnlyTheBackup /\ Voucher = bak
         /\ writer # P!Idle => /\ writer.gen \in Nat /\ writer.project \in P!Projects
                               /\ writer.project.rev \in Nat
<1>1. P!Typed /\ P!Vouched
  BY DEF Inv, P!IInv
<1>2. ~ P!Valid(P!Damaged)
  BY DEF P!Valid, P!Damaged
<1>3. P!Valid(Voucher) /\ Voucher \in {primary, bak}
  BY <1>1, <1>2 DEF P!Vouched, P!BackupVouches, P!PrimaryVouches, P!OnlyTheBackup, Voucher
<1>4. Voucher \in P!Files
  BY <1>1, <1>3 DEF P!Typed
<1>5. /\ writer.step = "flushPrimary" => P!BackupVouches /\ Voucher = bak
      /\ writer.step # "flushPrimary" => \/ P!PrimaryVouches /\ Voucher = primary
                                         \/ P!OnlyTheBackup /\ Voucher = bak
  BY <1>1, <1>2 DEF P!Vouched, P!BackupVouches, P!PrimaryVouches, P!OnlyTheBackup, Voucher
<1>6. /\ Voucher.gen \in Nat /\ Voucher.project \in P!Projects
      /\ Voucher = [state |-> "valid", gen |-> Voucher.gen, project |-> Voucher.project]
  BY <1>3, <1>4 DEF P!Files, P!Valid, P!NoFile, P!Damaged
<1>7. Voucher.project.rev \in Nat
  BY <1>6, Parts
<1> QED
  BY <1>1, <1>3, <1>4, <1>5, <1>6, <1>7, P!Types

(* The copies have their types.                                            *)
LEMMA CopiesAre ==
  ASSUME StoreTyped
  PROVE  /\ Range(attempts) \subseteq Copies
         /\ \A a \in Range(attempts) :
              /\ a \in Copies /\ Disk!Valid(a) /\ a.gen \in Nat /\ a.done \subseteq Takes
              /\ a.project \in P!Projects /\ a.project.rev \in Nat
         /\ Range(order) \subseteq Takes
<1>1. Range(attempts) \subseteq Copies /\ Range(order) \subseteq Takes
  BY Members DEF StoreTyped
<1>2. \A a \in Range(attempts) : /\ a \in Copies /\ Disk!Valid(a) /\ a.gen \in Nat /\ a.done \subseteq Takes
                                 /\ a.project \in P!Projects
  BY <1>1 DEF Copies, Disk!Valid
<1> QED
  BY <1>1, <1>2, Parts

(* The copies are considered one by one.                                   *)
LEMMA ChoosesOneByOne ==
  ASSUME StoreTyped, NEW l \in Listings
  PROVE  LET D == DOMAIN l
             G == [file : {Disk!NoFile, primary, bak} \cup Range(attempts), conflict : BOOLEAN]
         IN  /\ D = 1 .. Len(attempts) /\ Len(attempts) \in Nat
             /\ Range(attempts) = {l[i] : i \in D}
             /\ Choose(l) \in G
             /\ \E f \in [SUBSET D -> G] :
                  /\ Choose(l) = f[D] /\ f[{}] = Disk!ChooseOfTwo(primary, bak)
                  /\ \A s \in SUBSET D : s # {} =>
                       /\ Max(s) \in s
                       /\ f[s] = ConsiderAttempt(f[s \ {Max(s)}], l[Max(s)])
<1> DEFINE b == Disk!ChooseOfTwo(primary, bak)
           D == DOMAIN l
           choose == [s \in SUBSET D |-> Max(s)]
           G == [file : {Disk!NoFile, primary, bak} \cup Range(attempts), conflict : BOOLEAN]
           h == [x \in D \X G |-> ConsiderAttempt(x[2], l[x[1]])]
           rec(g) == [s \in SUBSET D |->
                        IF s = {} THEN b
                        ELSE LET x == Max(s) IN ConsiderAttempt(g[s \ {x}], l[x])]
           iter == CHOOSE g : g = rec(g)
<1>1. Choose(l) = iter[D]
  BY DEF Choose, FoldLeft, MapThenFoldSet
<1>2. /\ D = 1 .. Len(attempts) /\ Len(attempts) \in Nat /\ IsFiniteSet(D)
      /\ \A i \in D : l[i] \in Range(attempts)
      /\ Range(attempts) = {l[i] : i \in D}
  <2>1. Len(attempts) \in Nat
    BY Members DEF StoreTyped
  <2>2. D = 1 .. Len(attempts) /\ Range(l) = Range(attempts)
    BY DEF Listings
  <2>3. Range(l) = {l[i] : i \in D}
    BY DEF Range
  <2>4. \A i \in D : l[i] \in Range(attempts)
    BY <2>2, <2>3
  <2> HIDE DEF D
  <2>5. IsFiniteSet(D)
    BY <2>1, <2>2, FS_Interval
  <2> QED
    BY <2>1, <2>2, <2>3, <2>4, <2>5
<1>3. b \in G
  BY DEF Disk!ChooseOfTwo, Disk!Consider, Disk!Undecided
<1>4. ASSUME NEW i \in D, NEW r \in G
      PROVE  ConsiderAttempt(r, l[i]) \in G
  BY <1>2 DEF ConsiderAttempt, Disk!Consider
<1>5. h \in [D \X G -> G]
  BY <1>4
<1>6. \A s \in SUBSET D : s # {} => choose[s] \in s /\ choose[s] = Max(s)
  <2>1. \A s \in SUBSET D : s \subseteq 0 .. Len(attempts)
    BY <1>2
  <2> HIDE DEF D
  <2> QED
    BY <1>2, <2>1, GreatestOfPart
<1>7. \A i \in D, r \in G : h[i, r] = ConsiderAttempt(r, l[i])
  OBVIOUS
<1> HIDE DEF b, D, G, choose, h
<1>8. PICK f : FoldsOver(f, D, G, b, h, choose)
  BY <1>2, <1>3, <1>5, <1>6, SubsetRecursion
<1>9. /\ f \in [SUBSET D -> G]
      /\ \A s \in SUBSET D : f[s] = IF s = {} THEN b ELSE h[choose[s], f[s \ {choose[s]}]]
  BY <1>8 DEF FoldsOver
<1>10. f = rec(f)
  <2>1. ASSUME NEW s \in SUBSET D, s # {}
        PROVE  f[s] = LET x == Max(s) IN ConsiderAttempt(f[s \ {x}], l[x])
    <3>1. choose[s] \in D /\ s \ {choose[s]} \in SUBSET D
      BY <1>6, <2>1
    <3>2. f[s \ {choose[s]}] \in G
      BY <1>9, <3>1
    <3> QED
      BY <1>6, <1>7, <1>9, <2>1, <3>1, <3>2
  <2> QED
    BY <1>9, <2>1
<1>11. iter = rec(iter)
  BY <1>10
<1> HIDE DEF iter
<1> DEFINE T == {s \in SUBSET D : iter[s] \in G}
<1>12. {} \in T
  BY <1>3, <1>11
<1>13. ASSUME NEW s \in SUBSET D, s # {}, s \ {choose[s]} \in T
       PROVE  s \in T
  <2>1. /\ iter[s] = ConsiderAttempt(iter[s \ {choose[s]}], l[choose[s]])
        /\ choose[s] \in D /\ iter[s \ {choose[s]}] \in G
    BY <1>6, <1>11, <1>13
  <2> QED
    BY <1>4, <2>1
<1> HIDE DEF T
<1>14. SUBSET D \subseteq T
  <2>1. \A s \in SUBSET D : s # {} => choose[s] \in s
    BY <1>6
  <2>2. \A s \in SUBSET D : s # {} /\ s \ {choose[s]} \in T => s \in T
    BY <1>13
  <2>3. IsFiniteSet(D)
    BY <1>2
  <2> USE DEF D
  <2> QED
    BY <1>12, <2>1, <2>2, <2>3, SubsetInduction
<1>15. iter \in [SUBSET D -> G] /\ iter[D] \in G /\ iter[{}] = b
  BY <1>11, <1>14 DEF T
<1>16. \A s \in SUBSET D : s # {} => Max(s) \in s /\ iter[s] = ConsiderAttempt(iter[s \ {Max(s)}], l[Max(s)])
  BY <1>6, <1>11
<1> QED
  BY <1>1, <1>2, <1>15, <1>16 DEF D, G, b

(* A recovered copy that is not ahead gives way to the project file, and   *)
(* says the same if nothing tells the two apart.                           *)
Leads(p, a) == a.project.rev <= p.rev /\ (a.project.rev = p.rev => a.project = p)
Behind == \A a \in Range(attempts) : a.gen = Voucher.gen => Leads(Voucher.project, a)
OneAhead == \A a, b \in Ahead : a = b
Newest == IF Ahead = {} THEN Voucher ELSE CHOOSE a \in Ahead : TRUE

LEMMA ChooseIs ==
  ASSUME Inv, StoreTyped, writer = P!Idle, Behind, OneAhead, NEW l \in Listings
  PROVE  /\ Choose(l).conflict = FALSE
         /\ Ahead = {} => Choose(l).file = Voucher
         /\ Ahead # {} => Choose(l).file \in Ahead
<1> DEFINE b == Disk!ChooseOfTwo(primary, bak)
           V == Voucher
           A == Ahead
           D == DOMAIN l
           choose == [s \in SUBSET D |-> Max(s)]
<1>1. PICK f : /\ Choose(l) = f[D] /\ f[{}] = b
               /\ \A s \in SUBSET D : s # {} =>
                    Max(s) \in s /\ f[s] = ConsiderAttempt(f[s \ {Max(s)}], l[Max(s)])
  BY ChoosesOneByOne
<1>2. /\ D = 1 .. Len(attempts) /\ Len(attempts) \in Nat /\ IsFiniteSet(D)
      /\ Range(attempts) = {l[i] : i \in D}
  <2>1. D = 1 .. Len(attempts) /\ Len(attempts) \in Nat /\ Range(attempts) = {l[i] : i \in D}
    BY ChoosesOneByOne
  <2> HIDE DEF D
  <2> QED
    BY <2>1, FS_Interval
<1>3. /\ \A a \in Range(attempts) : /\ Disk!Valid(a) /\ a.gen \in Nat /\ a.project \in P!Projects
                                    /\ a.project.rev \in Nat
      /\ Disk!Valid(V) /\ V.gen \in Nat /\ V.project.rev \in Nat
  BY CopiesAre, VoucherIs DEF P!Valid, Disk!Valid
<1>4. b = [file |-> V, conflict |-> FALSE]
  <2>1. /\ ~ Disk!Valid(Disk!NoFile) /\ writer.step # "flushPrimary"
        /\ Disk!Undecided = [file |-> Disk!NoFile, conflict |-> FALSE]
    BY DEF Disk!Valid, Disk!NoFile, Disk!Undecided, P!Idle
  <2>2. CASE P!PrimaryVouches /\ V = primary
    <3>1. Disk!Consider(Disk!Undecided, primary, FALSE) = [file |-> primary, conflict |-> FALSE]
      BY <1>3, <2>1, <2>2 DEF Disk!Consider, Disk!Wins, Disk!Conflicts
    <3>2. Disk!Valid(bak) => bak.gen <= primary.gen /\ bak.project.rev <= primary.project.rev
                             /\ bak.gen \in Nat /\ bak.project.rev \in Nat
      BY <2>2, P!Types DEF P!PrimaryVouches, P!NotAhead, P!Valid, Disk!Valid, Inv, P!IInv
    <3>3. ~ (Disk!Valid(bak) /\ Disk!Wins(bak, primary))
      BY <1>3, <2>2, <3>2 DEF Disk!Wins
    <3> QED
      BY <2>2, <3>1, <3>3 DEF Disk!ChooseOfTwo, Disk!Consider
  <2>3. CASE P!OnlyTheBackup /\ V = bak
    <3>1. ~ Disk!Valid(primary)
      BY <2>3 DEF P!OnlyTheBackup, P!Damaged, Disk!Valid
    <3>2. Disk!Consider(Disk!Undecided, primary, FALSE) = [file |-> Disk!NoFile, conflict |-> FALSE]
      BY <2>1, <3>1 DEF Disk!Consider
    <3> QED
      BY <1>3, <2>1, <2>3, <3>2 DEF Disk!ChooseOfTwo, Disk!Consider, Disk!Wins
  <2> QED
    BY <2>1, <2>2, <2>3, VoucherIs
<1>5. /\ \A a \in A : a \in Range(attempts) /\ a.gen > V.gen
      /\ \A a \in Range(attempts) : a \notin A => a.gen <= V.gen
      /\ \A a \in Range(attempts) : a.gen = V.gen => Leads(V.project, a)
      /\ \A a, c \in A : a = c
  BY <1>3 DEF Behind, Ahead, OneAhead
<1>6. \A s \in SUBSET D : s # {} => choose[s] \in s /\ choose[s] = Max(s)
  BY <1>1
<1> HIDE DEF b, V, A, D, choose
<1> DEFINE Chosen(s, c) == /\ c.conflict = FALSE
                           /\ c.file \in A \/ (c.file = V /\ \A i \in s : l[i] \notin A)
           T == {s \in SUBSET D : Chosen(s, f[s])}
<1>7. {} \in T
  BY <1>1, <1>4
<1>8. ASSUME NEW s \in SUBSET D, s # {}, s \ {choose[s]} \in T
       PROVE  s \in T
  <2> DEFINE m == f[s \ {choose[s]}]
             a == l[choose[s]]
  <2>1. f[s] = ConsiderAttempt(m, a) /\ choose[s] \in s /\ a \in Range(attempts)
    BY <1>1, <1>2, <1>6, <1>8
  <2>2. Chosen(s \ {choose[s]}, m)
    BY <1>8
  <2> HIDE DEF m, a
  <2>3. /\ f[s].file = IF Disk!Wins(a, m.file) THEN a ELSE m.file
        /\ ~ Disk!Conflicts(a, m.file) => f[s].conflict = FALSE
    <3>1. /\ f[s].file = IF Disk!Valid(a) /\ Disk!Wins(a, m.file) THEN a ELSE m.file
          /\ f[s].conflict = (m.conflict \/ (Disk!Valid(a) /\ ~FALSE /\ Disk!Conflicts(a, m.file)))
      BY <2>1 DEF ConsiderAttempt, Disk!Consider
    <3> QED
      BY <1>3, <2>1, <2>2, <3>1
  <2>4. CASE m.file \in A
    <3>1. CASE a \in A
      <4>1. a = m.file
        BY <1>5, <2>4, <3>1
      <4> QED
        BY <2>3, <2>4, <4>1 DEF Disk!Conflicts
    <3>2. CASE a \notin A
      <4>1. a.gen < m.file.gen /\ a.gen \in Nat /\ m.file.gen \in Nat
        BY <1>3, <1>5, <2>1, <2>4, <3>2
      <4>2. ~ Disk!Wins(a, m.file) /\ ~ Disk!Conflicts(a, m.file)
        BY <1>3, <1>5, <2>4, <4>1 DEF Disk!Wins, Disk!Conflicts
      <4> QED
        BY <2>3, <2>4, <4>2
    <3> QED
      BY <3>1, <3>2
  <2>5. CASE m.file = V /\ \A i \in s \ {choose[s]} : l[i] \notin A
    <3>1. CASE a \in A
      <4>1. Disk!Wins(a, V) /\ ~ Disk!Conflicts(a, V)
        BY <1>3, <1>5, <2>1, <3>1 DEF Disk!Wins, Disk!Conflicts
      <4> QED
        BY <2>3, <2>5, <3>1, <4>1
    <3>2. CASE a \notin A
      <4>1. ~ Disk!Wins(a, V) /\ ~ Disk!Conflicts(a, V)
        BY <1>3, <1>5, <2>1, <3>2 DEF Disk!Wins, Disk!Conflicts, Leads
      <4>2. \A i \in s : l[i] \notin A
        BY <2>5, <3>2 DEF a
      <4> QED
        BY <2>3, <2>5, <4>1, <4>2
    <3> QED
      BY <3>1, <3>2
  <2> QED
    BY <2>2, <2>4, <2>5
<1> HIDE DEF T, Chosen
<1>9. SUBSET D \subseteq T
  <2>1. \A s \in SUBSET D : s # {} => choose[s] \in s
    BY <1>6
  <2>2. \A s \in SUBSET D : s # {} /\ s \ {choose[s]} \in T => s \in T
    BY <1>8
  <2>3. IsFiniteSet(D)
    BY <1>2
  <2> USE DEF D
  <2> QED
    BY <1>7, <2>1, <2>2, <2>3, SubsetInduction
<1>10. D \in T
  BY <1>9
<1>11. Chosen(D, Choose(l))
  BY <1>1, <1>10 DEF T
<1>12. A # {} => \E i \in D : l[i] \in A
  BY <1>2, <1>5
<1> QED
  BY <1>11, <1>12 DEF A, V, Chosen

-----------------------------------------------------------------------------
(* What the recorder keeps besides its project file has its type.          *)
LEMMA GensEnd ==
  ASSUME StoreTyped
  PROVE  \E m \in Nat : \A a \in Range(attempts) : a.gen <= m
<1> DEFINE T == {n \in Nat : n <= Len(attempts) =>
                   \E m \in Nat : \A i \in 1 .. n : attempts[i].gen <= m}
<1>1. /\ DOMAIN attempts = 1 .. Len(attempts) /\ Len(attempts) \in Nat
      /\ \A i \in 1 .. Len(attempts) : attempts[i].gen \in Nat
  <2>1. /\ DOMAIN attempts = 1 .. Len(attempts) /\ Len(attempts) \in Nat
        /\ \A i \in DOMAIN attempts : attempts[i] \in Copies
    BY Members DEF StoreTyped
  <2> QED
    BY <2>1 DEF Copies
<1>2. 0 \in T
  OBVIOUS
<1>3. ASSUME NEW n \in Nat, n \in T
      PROVE  n + 1 \in T
  <2> SUFFICES ASSUME n + 1 <= Len(attempts)
               PROVE  \E m \in Nat : \A i \in 1 .. n + 1 : attempts[i].gen <= m
    OBVIOUS
  <2>1. PICK m \in Nat : \A i \in 1 .. n : attempts[i].gen <= m
    BY <1>1, <1>3
  <2>2. attempts[n + 1].gen \in Nat
    BY <1>1
  <2>3. PICK k \in Nat : m <= k /\ attempts[n + 1].gen <= k
    BY <2>2
  <2>4. \A i \in 1 .. n + 1 : attempts[i].gen <= k
    <3> SUFFICES ASSUME NEW i \in 1 .. n + 1
                 PROVE  attempts[i].gen <= k
      OBVIOUS
    <3>1. CASE i = n + 1
      BY <2>3, <3>1
    <3>2. CASE i \in 1 .. n
      <4>1. attempts[i].gen \in Nat /\ attempts[i].gen <= m
        BY <1>1, <2>1, <3>2
      <4> QED
        BY <2>3, <4>1
    <3> QED
      BY <3>1, <3>2
  <2> QED
    BY <2>4
<1>4. Len(attempts) \in T
  <2>1. Nat \subseteq T
    <3> HIDE DEF T
    <3> QED
      BY <1>2, <1>3, NumberInduction
  <2> QED
    BY <1>1, <2>1
<1>5. PICK m \in Nat : \A i \in 1 .. Len(attempts) : attempts[i].gen <= m
  BY <1>1, <1>4
<1>6. \A a \in Range(attempts) : \E i \in 1 .. Len(attempts) : a = attempts[i]
  BY <1>1 DEF Range
<1> QED
  BY <1>5, <1>6

(* The generation of a new copy is one more than the newest there is.      *)
NewGen == Max(Disk!Gens({primary, bak} \cup Range(attempts))) + 1

LEMMA NewGenIs ==
  ASSUME Inv, StoreTyped
  PROVE  /\ NewGen \in Nat
         /\ \A a \in Range(attempts) : a.gen < NewGen
         /\ \A f \in {primary, bak} : Disk!Valid(f) => f.gen < NewGen
         /\ \E f \in {primary, bak} \cup Range(attempts) : Disk!Valid(f) /\ NewGen = f.gen + 1
<1> DEFINE F == {f \in {primary, bak} \cup Range(attempts) : Disk!Valid(f)}
           S == Disk!Gens({primary, bak} \cup Range(attempts))
<1>1. S = {f.gen : f \in F}
  BY DEF Disk!Gens
<1>2. \A f \in {primary, bak} : Disk!Valid(f) => f.gen \in Nat
  BY P!Types DEF Inv, P!IInv, P!Valid, Disk!Valid
<1>3. PICK m \in Nat : \A a \in Range(attempts) : a.gen <= m
  BY GensEnd
<1>4. PICK k \in Nat : m <= k /\ \A f \in {primary, bak} : Disk!Valid(f) => f.gen <= k
  <2>1. PICK x \in Nat : Disk!Valid(primary) => x = primary.gen
    BY <1>2
  <2>2. PICK y \in Nat : Disk!Valid(bak) => y = bak.gen
    BY <1>2
  <2>3. PICK k \in Nat : m <= k /\ x <= k /\ y <= k
    <3>1. m + x + y \in Nat /\ m <= m + x + y /\ x <= m + x + y /\ y <= m + x + y
      OBVIOUS
    <3> QED
      BY <3>1
  <2> QED
    BY <2>1, <2>2, <2>3
<1>5. \A f \in F : f.gen \in 0 .. k
  <2>1. \A a \in Range(attempts) : a.gen \in 0 .. k
    BY <1>3, <1>4, CopiesAre
  <2> QED
    BY <1>2, <1>4, <2>1
<1>6. Voucher \in F
  BY VoucherIs DEF P!Valid, Disk!Valid, Voucher
<1>7. S \subseteq 0 .. k /\ S # {}
  <2> HIDE DEF S, F
  <2> QED
    BY <1>1, <1>5, <1>6
<1>8. Max(S) \in S /\ \A i \in S : i <= Max(S)
  <2> HIDE DEF S
  <2> QED
    BY <1>7, GreatestOfPart
<1>9. Max(S) \in Nat /\ \A i \in S : i \in Nat
  BY <1>7, <1>8
<1>10. \A a \in Range(attempts) : a \in F
  BY CopiesAre
<1>11. NewGen = Max(S) + 1
  BY DEF NewGen
<1>12. \A f \in F : f.gen < NewGen
  <2> SUFFICES ASSUME NEW f \in F
               PROVE  f.gen < NewGen
    OBVIOUS
  <2> HIDE DEF F, S
  <2>1. f.gen \in S /\ f.gen \in Nat
    BY <1>1, <1>9
  <2> QED
    BY <1>8, <1>9, <1>11, <2>1
<1>13. \E f \in F : NewGen = f.gen + 1
  <2> HIDE DEF F, S
  <2> QED
    BY <1>1, <1>8, <1>11
<1>14. NewGen \in Nat
  BY <1>9, <1>11
<1> HIDE DEF S
<1> QED
  BY <1>10, <1>12, <1>13, <1>14

LEMMA NewAttemptIs ==
  ASSUME Inv, StoreTyped, NEW scan \in Scans
  PROVE  NewAttempt(scan) \in Copies
BY NewGenIs DEF NewAttempt, NewGen, Copies, Scans

(* The file that is chosen has a project.                                  *)
LEMMA ChosenIs ==
  ASSUME Inv, StoreTyped, NEW l \in Listings, Disk!Valid(Choose(l).file)
  PROVE  Choose(l).file.project \in P!Projects /\ BroughtBack(Choose(l).file) \subseteq Takes
<1> DEFINE c == Choose(l).file
<1>1. c \in {Disk!NoFile, primary, bak} \cup Range(attempts)
  BY ChoosesOneByOne
<1>2. CASE c \in Range(attempts)
  <2>1. c.project \in P!Projects /\ c.done \subseteq Takes
    BY <1>2, CopiesAre
  <2> QED
    BY <2>1 DEF BroughtBack
<1>3. CASE c \notin Range(attempts)
  <2>1. c \in P!Files /\ P!Valid(c)
    BY <1>1, <1>3 DEF Inv, P!IInv, P!Typed, Disk!Valid, P!Valid, Disk!NoFile
  <2>2. c.project \in P!Projects /\ DOMAIN c = {"state", "gen", "project"}
    BY <2>1 DEF P!Files, P!Valid, P!NoFile, P!Damaged
  <2> QED
    BY <2>2 DEF BroughtBack, IsRecovered
<1> QED
  BY <1>2, <1>3

(* The file that every scan of a closed project chooses.                   *)
LEMMA ChoosesNewest ==
  ASSUME Inv, StoreTyped, writer = P!Idle, Behind, OneAhead, NEW l \in Listings
  PROVE  /\ Choose(l) = [file |-> Newest, conflict |-> FALSE] /\ Disk!Valid(Newest)
         /\ Newest.project \in P!Projects /\ BroughtBack(Newest) \subseteq Takes
         /\ Ahead = {} => Newest = Voucher
         /\ Ahead # {} => Newest \in Ahead
<1>1. /\ Choose(l).conflict = FALSE
      /\ Ahead = {} => Choose(l).file = Voucher
      /\ Ahead # {} => Choose(l).file \in Ahead
      /\ Choose(l) \in [file : {Disk!NoFile, primary, bak} \cup Range(attempts), conflict : BOOLEAN]
  BY ChooseIs, ChoosesOneByOne
<1>2. /\ Ahead = {} => Newest = Voucher
      /\ Ahead # {} => Newest \in Ahead
  BY DEF Newest
<1>3. Choose(l).file = Newest
  BY <1>1, <1>2 DEF OneAhead
<1>4. Disk!Valid(Newest)
  <2>1. Disk!Valid(Voucher) /\ \A a \in Ahead : Disk!Valid(a)
    BY VoucherIs, CopiesAre DEF P!Valid, Disk!Valid, Ahead
  <2> QED
    BY <1>2, <2>1
<1>5. Choose(l) = [file |-> Newest, conflict |-> FALSE]
  BY <1>1, <1>3
<1>6. Newest.project \in P!Projects /\ BroughtBack(Newest) \subseteq Takes
  <2>1. Disk!Valid(Choose(l).file)
    BY <1>3, <1>4
  <2>2. Choose(l).file.project \in P!Projects /\ BroughtBack(Choose(l).file) \subseteq Takes
    BY <2>1, ChosenIs
  <2> QED
    BY <1>3, <2>2
<1> QED
  BY <1>2, <1>4, <1>5, <1>6

(* The folder may give the copies in the order they were made.             *)
LEMMA OneListing ==
  ASSUME StoreTyped
  PROVE  attempts \in Listings
<1>1. /\ DOMAIN attempts = 1 .. Len(attempts) /\ attempts \in [1 .. Len(attempts) -> Copies]
      /\ \A i \in DOMAIN attempts : attempts[i] \in Range(attempts)
  BY Members, LenProperties DEF StoreTyped
<1>2. attempts \in [1 .. Len(attempts) -> Range(attempts)]
  BY <1>1
<1> QED
  BY <1>2 DEF Listings

LEMMA StoreTypedAtFirst == Init => StoreTyped
<1> SUFFICES ASSUME Init PROVE StoreTyped
  OBVIOUS
<1>1. Unstarted \in Entries
  BY StoreAssumption DEF Unstarted, Entries
<1>2. journal \in [Takes -> Entries]
  BY <1>1 DEF Init
<1> QED
  BY <1>2 DEF Init, StoreTyped

(* The journal and the take it is written for.                             *)
LEMMA HandIs ==
  ASSUME Inv, NEW step \in TakeSteps, take.step = step
  PROVE  take # NoTake /\ take \in TakesInHand /\ take.id \in Takes /\ IsOpen /\ project \in P!Projects
<1>1. take # NoTake
  BY DEF NoTake, TakeSteps
<1> QED
  BY <1>1 DEF Inv, InvOfApp, TakesInHand

LEMMA LogsIs ==
  ASSUME StoreTyped, NEW t \in Takes, NEW field \in {"durable", "stopped", "finalized"}, Logs(t, field)
  PROVE  journal' \in [Takes -> Entries]
<1>1. journal' = [journal EXCEPT ![t] = [journal[t] EXCEPT ![field] = TRUE]]
  BY DEF Logs
<1>2. journal \in [Takes -> Entries] /\ journal[t] \in Entries
  BY DEF StoreTyped
<1>3. [journal[t] EXCEPT ![field] = TRUE] \in Entries
  BY <1>2 DEF Entries
<1> QED
  BY <1>1, <1>2, <1>3

LEMMA StoreTypedOn ==
  ASSUME Inv, StoreTyped, [Next]_vars
  PROVE  StoreTyped'
<1>0. ASSUME UNCHANGED <<attempts, journal, order, manifest>> PROVE StoreTyped'
  BY <1>0 DEF StoreTyped
<1>1. ASSUME NEW l \in Listings, Open(l) PROVE StoreTyped'
  <2>1. CASE Openable(Choose(l))
    <3>1. Disk!Valid(Choose(l).file)
      BY <2>1 DEF Openable
    <3>2. Scan(Choose(l).file) \in Scans
      BY <3>1, ChosenIs, ScanIs
    <3>3. NewAttempt(Scan(Choose(l).file)) \in Copies
      BY <3>2, NewAttemptIs
    <3>4. \/ attempts' = attempts \/ attempts' = Append(attempts, NewAttempt(Scan(Choose(l).file)))
      BY <1>1, <2>1 DEF Open, Adopt
    <3>5. attempts' \in Seq(Copies)
      BY <3>3, <3>4, AppendProperties DEF StoreTyped
    <3> QED
      BY <1>1, <2>1, <3>5 DEF Open, Adopt, StoreTyped
  <2>2. CASE ~ Openable(Choose(l))
    BY <1>1, <2>2 DEF Open, disk, StoreTyped
  <2> QED
    BY <2>1, <2>2
<1>2. CASE \/ Edit \/ ImportAudio \/ (\E t \in Takes : RemoveClips(t))
           \/ \E rate \in Rates : AdoptRate(rate)
  BY <1>0, <1>2 DEF Edit, ImportAudio, RemoveClips, Edits, AdoptRate, disk
<1>3. CASE Save \/ Write \/ SaveFails \/ (\E t \in Takes, rate \in Rates : Prepare(t, rate)) \/ Crash
  BY <1>0, <1>3 DEF Save, Write, SaveFails, Prepare, Crash
<1>4. CASE StartTake
  <2>1. take.id \in Takes /\ project \in P!Projects
    BY <1>4, HandIs DEF StartTake, TakeGoes, TakeSteps
  <2>2. order' \in Seq(Takes)
    BY <1>4, <2>1, AppendProperties DEF StartTake, StoreTyped
  <2>3. project.body.rate \in Rates
    BY <2>1, Parts DEF Contents
  <2>4. journal' = [journal EXCEPT ![take.id] = [journal[take.id] EXCEPT !.rate = project.body.rate]]
    BY <1>4 DEF StartTake
  <2>5. [journal[take.id] EXCEPT !.rate = project.body.rate] \in Entries
    BY <2>1, <2>3 DEF StoreTyped, Entries
  <2>6. journal' \in [Takes -> Entries]
    BY <2>1, <2>4, <2>5 DEF StoreTyped
  <2> QED
    BY <1>4, <2>2, <2>6 DEF StartTake, OnlyTake, StoreTyped
<1>5. CASE CannotStart \/ StopTake \/ StopEmpty \/ SaveRefused
  BY <1>0, <1>5 DEF CannotStart, StopTake, StopEmpty, SaveRefused, OnlyTake
<1>6. CASE MediaDurable \/ LogStopped \/ Drain \/ EndTake
  <2>1. take.id \in Takes
    BY <1>6, HandIs DEF MediaDurable, LogStopped, Drain, EndTake, TakeGoes, TakeSteps
  <2>2. \/ journal' = journal
        \/ Logs(take.id, "durable") \/ Logs(take.id, "stopped") \/ Logs(take.id, "finalized")
    BY <1>6 DEF MediaDurable, LogStopped, Drain, EndTake
  <2>3. journal' \in [Takes -> Entries]
    BY <2>1, <2>2, LogsIs DEF StoreTyped
  <2> QED
    BY <1>6, <2>3 DEF MediaDurable, LogStopped, Drain, EndTake, OnlyTake, StoreTyped
<1>7. ASSUME NEW state \in {"complete", "partial"}, Finalize(state) PROVE StoreTyped'
  <2>1. take.id \in Takes
    BY <1>7, HandIs DEF Finalize, TakeSteps
  <2>2. manifest' \subseteq Takes
    BY <1>7, <2>1 DEF Finalize, StoreTyped
  <2> QED
    BY <1>7, <2>2 DEF Finalize, StoreTyped
<1>8. CASE UNCHANGED vars
  BY <1>0, <1>8 DEF vars, disk
<1> QED
  BY <1>1, <1>2, <1>3, <1>4, <1>5, <1>6, <1>7, <1>8 DEF Next, TakeStep

LEMMA StoreTypedHolds == Spec => []StoreTyped
<1>1. Init => StoreTyped
  BY StoreTypedAtFirst
<1>2. Inv /\ StoreTyped /\ [Next]_vars => StoreTyped'
  BY StoreTypedOn
<1> QED
  BY <1>1, <1>2, InvHolds, PTL DEF Spec

(* Whatever the disk holds after however many sessions, every file on it   *)
(* reads back as a project, and a copy names takes and nothing else.       *)
THEOREM TypeCorrect == Spec => []TypeOK
<1>1. Inv /\ StoreTyped => TypeOK
  <2> SUFFICES ASSUME Inv, StoreTyped PROVE TypeOK
    OBVIOUS
  <2>1. P!Projects = Disk!Projects /\ P!Files = Disk!Files /\ P!Writers = Disk!Writers /\ P!Idle = Disk!Idle
    BY DEF P!Projects, Disk!Projects, P!Files, Disk!Files, P!Writers, Disk!Writers, P!Idle, Disk!Idle,
       P!NoFile, Disk!NoFile, P!Damaged, Disk!Damaged, P!Steps, Disk!Steps
  <2>2. {primary, bak} \subseteq Disk!Files /\ writer \in Disk!Writers
    BY <2>1 DEF Inv, P!IInv, P!Typed
  <2>3. /\ project = Closed \/ project \in Disk!Projects
        /\ saving \in {"nobody", "user", "take"} /\ (saving = "nobody" <=> writer = Disk!Idle)
    BY <2>1 DEF Inv, InvOfApp, IsOpen
  <2>4. /\ \A a \in Range(attempts) : Disk!Valid(a) /\ a.project \in Disk!Projects /\ a.done \subseteq Takes
        /\ manifest \subseteq Takes /\ Range(order) \subseteq Takes
    BY <2>1, CopiesAre DEF StoreTyped
  <2> QED
    BY <2>2, <2>3, <2>4 DEF TypeOK
<1> QED
  BY <1>1, InvHolds, StoreTypedHolds, PTL

-----------------------------------------------------------------------------
(* What outlives a session, if the user saves a recovered project before   *)
(* anything is recorded into it.                                           *)
(*                                                                         *)
(* Every project that a save writes or a scan may choose is sound: it has  *)
(* each of its takes on the timeline once or not at all, it has none that  *)
(* the journal does not name, and it has what was shown as saved.  At most *)
(* one recovered copy is ahead of the project file, it has all of the      *)
(* journal, and the project that is open is no older, so that the next save*)
(* gets ahead of it; nothing is recorded before that.                      *)
OnceEach(p) ==
  \A t \in Takes :
    /\ p.body.takes[t].clips = IF Known(p, t) /\ t \notin p.body.removed THEN 1 ELSE 0
    /\ t \in p.body.removed => Known(p, t)
    /\ Known(p, t) => t \in Range(order)

(* The takes of which there is media have the rate of every project, but   *)
(* for those that began when the disk had another rate than the project.   *)
TheRate == Voucher.project.body.rate
Firm(t) == Logged(t) /\ t \notin adrift
Agrees(p) == \A t \in Takes : Firm(t) => journal[t].rate = p.body.rate

Lasts(p) ==
  /\ kept \subseteq p.body.edits /\ OnceEach(p)
  /\ \A t \in Takes : Known(p, t) => Logged(t)
  /\ Agrees(p)

WrittenInv ==
  /\ Lasts(Voucher.project)
  /\ \A a \in Ahead : Lasts(a.project)
  /\ writer # P!Idle => Lasts(writer.project)

OpenInv ==
  IsOpen =>
    /\ kept \subseteq project.body.edits /\ OnceEach(project)
    /\ \A t \in Takes :
         /\ Known(project, t) => Logged(t) \/ (InHand(t) /\ take.step = "stopped")
         /\ Logged(t) => Known(project, t) \/ (InHand(t) /\ take.step = "recording")
    /\ Agrees(project)
    /\ writer # P!Idle => writer.project.body.edits \subseteq project.body.edits

(* What the one copy that is ahead says.                                   *)
LeadsOn(a) ==
  /\ a.gen = Voucher.gen + 1 /\ Voucher.project.rev < a.project.rev
  /\ a.project.body.edits = Voucher.project.body.edits
  /\ \A t \in Range(order) : t \in a.done \/ (t \in manifest /\ a.project.body.takes[t].state = "complete")
  /\ \A t \in a.done : Known(a.project, t) \/ ~ Logged(t)
  /\ IsOpen => Leads(project, a)
  /\ writer # P!Idle => Leads(writer.project, a)

AttemptsInv ==
  /\ Behind /\ OneAhead
  /\ \A a \in Ahead : LeadsOn(a)
  /\ take # NoTake => Ahead = {}
  /\ writer.step = "flushPrimary" =>
       \A a \in Range(attempts) :
         a.gen <= primary.gen /\ (a.gen = primary.gen => Leads(primary.project, a))

TakeInv ==
  /\ \A t \in Takes : Logged(t) => t \in Range(order)
  /\ take # NoTake =>
       /\ take.step \in {"prepare", "starting"} <=> take.id \notin Range(order)
       /\ take.step \in {"recording", "stopped", "draining", "finished"} =>
            /\ journal[take.id].rate = project.body.rate
            /\ take.id \notin adrift => TheRate = project.body.rate
       /\ take.step \in {"recording", "empty"} =>
            ~ Known(project, take.id) /\ ~ journal[take.id].stopped
       /\ take.step = "empty" => ~ Logged(take.id)
       /\ take.step \in {"stopped", "draining", "finished"} => Known(project, take.id)
       /\ take.step \in {"draining", "finished"} => Logged(take.id)
       /\ take.step = "prepare" => saving = "take" /\ project = writer.project

RefusedInv ==
  refused => /\ ~ IsOpen
             /\ \E t \in Range(order) : /\ LeftNothing(t) \/ t \in adrift
                                     /\ journal[t].rate # Newest.project.body.rate

LastsInv == WrittenInv /\ OpenInv /\ AttemptsInv /\ TakeInv /\ RefusedInv
FullInv == Inv /\ StoreTyped /\ LastsInv

LEMMA LastsAtFirst == Init => LastsInv
<1> SUFFICES ASSUME Init PROVE LastsInv
  OBVIOUS
<1>1. /\ ~ IsOpen /\ take = NoTake /\ writer = P!Idle /\ attempts = <<>> /\ order = <<>>
      /\ kept = {} /\ refused = FALSE
  BY InitHolds DEF Init, IsOpen, P!FilesInit
<1>2. \A t \in Takes : ~ Logged(t)
  BY DEF Init, Unstarted, Logged
<1>3. \A p : Agrees(p)
  BY <1>2 DEF Agrees, Firm
<1>4. Range(attempts) = {} /\ Range(order) = {} /\ Ahead = {}
  BY <1>1 DEF Range, Ahead
<1>5. \E rate \in Rates : Voucher.project = NewProject(rate)
  <2>1. primary \in [state : {"valid"}, gen : {1}, project : {NewProject(rate) : rate \in Rates}]
    BY DEF Init, Disk!FilesInit
  <2>2. Voucher = primary
    BY <1>1, <2>1 DEF Voucher, P!Idle, P!Damaged
  <2> QED
    BY <2>1, <2>2
<1>6. \A t \in Takes : /\ ~ Known(Voucher.project, t) /\ Voucher.project.body.takes[t].clips = 0
                       /\ t \notin Voucher.project.body.removed
  BY <1>5 DEF NewProject, Known, Absent
<1>7. WrittenInv
  BY <1>1, <1>3, <1>4, <1>6 DEF WrittenInv, Lasts, OnceEach
<1>8. AttemptsInv
  BY <1>1, <1>4 DEF AttemptsInv, Behind, OneAhead, P!Idle
<1> QED
  BY <1>1, <1>2, <1>7, <1>8 DEF LastsInv, OpenInv, TakeInv, RefusedInv

-----------------------------------------------------------------------------
(* Steps that leave the files and the copies alone.                        *)
LEMMA DiskStays ==
  ASSUME UNCHANGED <<files, attempts>>
  PROVE  /\ Voucher' = Voucher /\ Ahead' = Ahead /\ TheRate' = TheRate
         /\ Behind' <=> Behind
         /\ OneAhead' <=> OneAhead
         /\ writer' = writer /\ primary' = primary
<1>1. Voucher' = Voucher /\ Ahead' = Ahead
  BY DEF files, Voucher, Ahead
<1> QED
  BY <1>1 DEF files, TheRate, Behind, OneAhead

(* In the session the project, the take in hand or the running save moves  *)
(* on, and what a crash would leave for certain is what it was.            *)
LEMMA WriterMoves ==
  ASSUME FullInv, IsOpen, UNCHANGED <<attempts, order, journal, kept, refused, adrift>>,
         Voucher' = Voucher, writer' = P!Idle \/ (writer # P!Idle /\ writer'.project = writer.project),
         writer'.step = "flushPrimary" =>
           \A a \in Range(attempts) :
             a.gen <= primary'.gen /\ (a.gen = primary'.gen => Leads(primary'.project, a)),
         manifest \subseteq manifest', project.body.edits \subseteq project'.body.edits, OnceEach(project'),
         \A t \in Takes :
           /\ Known(project', t) => Logged(t) \/ (InHand(t)' /\ take'.step = "stopped")
           /\ Logged(t) => Known(project', t) \/ (InHand(t)' /\ take'.step = "recording"),
         Agrees(project'),
         \A a \in Ahead : Leads(project', a),
         take' # NoTake => Ahead = {},
         TakeInv'
  PROVE  LastsInv'
<1>1. Ahead' = Ahead /\ TheRate' = TheRate
  BY DEF Ahead, TheRate
<1>2. Behind' /\ OneAhead'
  BY <1>1 DEF FullInv, LastsInv, AttemptsInv, Behind, OneAhead
<1>3. \A t \in Takes : Logged(t)' <=> Logged(t)
  BY DEF Logged
<1>4. \A p : (OnceEach(p)' <=> OnceEach(p)) /\ (Agrees(p)' <=> Agrees(p))
  BY <1>3 DEF OnceEach, Agrees, Firm
<1>5. \A p : Lasts(p) => Lasts(p)'
  BY <1>1, <1>3, <1>4 DEF Lasts
<1>6. WrittenInv'
  <2>1. Lasts(Voucher.project) /\ \A a \in Ahead : Lasts(a.project)
    BY DEF FullInv, LastsInv, WrittenInv
  <2>2. Lasts(Voucher.project)'
    BY <1>5, <2>1
  <2>3. \A a \in Ahead' : Lasts(a.project)'
    BY <1>1, <1>5, <2>1
  <2>4. ASSUME writer' # P!Idle PROVE Lasts(writer.project)'
    <3>1. Lasts(writer.project) /\ writer'.project = writer.project
      BY <2>4 DEF FullInv, LastsInv, WrittenInv
    <3>2. PICK p : p = writer.project
      OBVIOUS
    <3>3. Lasts(p)' /\ p = writer'.project
      BY <1>5, <3>1, <3>2
    <3> QED
      BY <3>3
  <2> QED
    BY <2>2, <2>3, <2>4 DEF WrittenInv
<1>7. OpenInv'
  <2>1. OnceEach(project)' /\ Agrees(project)'
    <3>1. PICK p : p = project'
      OBVIOUS
    <3>2. OnceEach(p)' /\ Agrees(p)' /\ p = project'
      BY <1>4, <3>1
    <3> QED
      BY <3>2
  <2>2. kept \subseteq project'.body.edits
    BY DEF FullInv, LastsInv, OpenInv
  <2>3. writer' # P!Idle => writer'.project.body.edits \subseteq project'.body.edits
    BY DEF FullInv, LastsInv, OpenInv
  <2> QED
    BY <1>1, <1>3, <2>1, <2>2, <2>3 DEF OpenInv
<1>8. \A a \in Ahead : LeadsOn(a)'
  <2> SUFFICES ASSUME NEW a \in Ahead
               PROVE  LeadsOn(a)'
    OBVIOUS
  <2>1. LeadsOn(a) /\ Leads(project', a) /\ a \in Ahead'
    BY <1>1 DEF FullInv, LastsInv, AttemptsInv
  <2>2. IsOpen' => Leads(project, a)'
    BY <2>1 DEF Leads
  <2>3. writer' # P!Idle => Leads(writer.project, a)'
    BY <2>1 DEF LeadsOn, Leads
  <2>4. \A t \in a.done : Known(a.project, t) \/ ~ Logged(t)'
    BY <2>1 DEF LeadsOn, Logged
  <2> QED
    BY <2>1, <2>2, <2>3, <2>4 DEF LeadsOn, Known
<1>9. AttemptsInv'
  BY <1>1, <1>2, <1>8 DEF AttemptsInv, Leads
<1>10. RefusedInv'
  BY DEF FullInv, LastsInv, RefusedInv
<1> QED
  BY <1>6, <1>7, <1>9, <1>10 DEF LastsInv

LEMMA SessionMoves ==
  ASSUME FullInv, IsOpen, UNCHANGED <<files, attempts, order, journal, kept, refused, adrift>>,
         manifest \subseteq manifest', project.body.edits \subseteq project'.body.edits, OnceEach(project'),
         \A t \in Takes :
           /\ Known(project', t) => Logged(t) \/ (InHand(t)' /\ take'.step = "stopped")
           /\ Logged(t) => Known(project', t) \/ (InHand(t)' /\ take'.step = "recording"),
         Agrees(project'),
         \A a \in Ahead : Leads(project', a),
         take' # NoTake => Ahead = {},
         TakeInv'
  PROVE  LastsInv'
<1>1. Voucher' = Voucher /\ writer' = writer /\ primary' = primary
  BY DiskStays
<1>2. writer.step = "flushPrimary" =>
        \A a \in Range(attempts) :
          a.gen <= primary.gen /\ (a.gen = primary.gen => Leads(primary.project, a))
  BY DEF FullInv, LastsInv, AttemptsInv
<1> QED
  BY <1>1, <1>2, WriterMoves

(* The journal or the manifest says more of the take in hand.              *)
LEMMA JournalMoves ==
  ASSUME FullInv, UNCHANGED <<files, attempts, project, manifest, kept, refused>>,
         take # NoTake, take.step \notin {"prepare", "saving"}, Range(order) \subseteq Range(order'),
         \A t \in Takes :
           /\ Logged(t) => Logged(t)'
           /\ Logged(t)' => Logged(t) \/ InHand(t)
           /\ InHand(t)' => InHand(t)
           /\ Known(project, t) => Logged(t)' \/ (InHand(t)' /\ take'.step = "stopped")
           /\ Logged(t)' => Known(project, t) \/ (InHand(t)' /\ take'.step = "recording"),
         \A p : Agrees(p) /\ p.body.rate \in {TheRate, project.body.rate} => Agrees(p)',
         TakeInv'
  PROVE  LastsInv'
<1>1. /\ Voucher' = Voucher /\ Ahead' = Ahead /\ TheRate' = TheRate
      /\ Behind' /\ OneAhead' /\ writer' = writer /\ primary' = primary
  BY DiskStays DEF FullInv, LastsInv, AttemptsInv
<1>2. Ahead = {} /\ IsOpen /\ writer = P!Idle
  BY DEF FullInv, LastsInv, AttemptsInv, Inv, InvOfApp
<1>3. \A p : OnceEach(p) => OnceEach(p)'
  BY DEF OnceEach
<1>4. \A p : Lasts(p) /\ p.body.rate = TheRate => Lasts(p)'
  BY <1>1, <1>2, <1>3 DEF Lasts
<1>5. WrittenInv'
  BY <1>1, <1>2, <1>4 DEF FullInv, LastsInv, WrittenInv, TheRate
<1>6. OpenInv'
  <2>1. Agrees(project)'
    <3>1. PICK p : p = project
      OBVIOUS
    <3>2. Agrees(p)'
      BY <1>2, <3>1 DEF FullInv, LastsInv, OpenInv
    <3> QED
      BY <3>1, <3>2 DEF Agrees
  <2> QED
    BY <1>1, <1>2, <1>3, <2>1 DEF FullInv, LastsInv, OpenInv
<1>7. AttemptsInv'
  BY <1>1, <1>2 DEF FullInv, LastsInv, AttemptsInv
<1>8. RefusedInv'
  BY <1>2 DEF FullInv, LastsInv, RefusedInv
<1> QED
  BY <1>5, <1>6, <1>7, <1>8 DEF LastsInv

(* What an edit leaves as it is.                                           *)
LEMMA EditIs ==
  ASSUME Inv, NEW b \in Contents, Edits(b)
  PROVE  /\ project'.rev = project.rev + 1 /\ project.rev \in Nat /\ project' \in P!Projects
         /\ b.edits \subseteq project'.body.edits
         /\ project'.body.removed = b.removed /\ project'.body.rate = b.rate
         /\ project'.body.takes = b.takes
<1>1. project \in P!Projects /\ made \in Nat /\ made + 1 \in 1 .. MaxEdits
  BY StoreAssumption DEF Inv, InvOfApp, Edits
<1>2. project' = [rev |-> project.rev + 1, body |-> [b EXCEPT !.edits = @ \cup {made + 1}]]
  BY DEF Edits, Revised
<1>3. DOMAIN b = {"edits", "removed", "imported", "rate", "takes"}
  BY DEF Contents
<1>4. project'.body = [b EXCEPT !.edits = @ \cup {made + 1}] /\ project'.rev = project.rev + 1
  BY <1>2
<1>5. project.rev \in Nat /\ project.rev + 1 \in Nat
  BY <1>1, Parts
<1>6. [b EXCEPT !.edits = @ \cup {made + 1}] \in Contents
  BY <1>1 DEF Contents
<1>7. project' \in P!Projects
  BY <1>2, <1>5, <1>6, OfContents
<1> QED
  BY <1>3, <1>4, <1>5, <1>7

LEMMA EditsLast ==
  ASSUME FullInv, NEW b \in Contents, Edits(b), project.body.edits \subseteq b.edits,
         b.rate = project.body.rate, OnceEach([rev |-> 0, body |-> b]),
         \A t \in Takes : b.takes[t].state = project.body.takes[t].state
  PROVE  LastsInv'
<1>1. /\ project'.rev = project.rev + 1 /\ project.rev \in Nat
      /\ b.edits \subseteq project'.body.edits
      /\ project'.body.removed = b.removed /\ project'.body.rate = b.rate
      /\ project'.body.takes = b.takes
  BY EditIs DEF FullInv
<1>2. /\ IsOpen /\ take.step # "prepare" /\ UNCHANGED <<take, saving>>
      /\ UNCHANGED <<files, attempts, order, journal, manifest, kept, refused, adrift>>
  BY DEF Edits, disk
<1>3. \A t \in Takes : Known(project', t) <=> Known(project, t)
  BY <1>1 DEF Known
<1>4. OnceEach(project')
  BY <1>1 DEF OnceEach, Known
<1>5. \A a \in Ahead : Leads(project', a)
  <2> SUFFICES ASSUME NEW a \in Ahead
               PROVE  Leads(project', a)
    OBVIOUS
  <2>1. a.project.rev \in Nat /\ Leads(project, a)
    BY <1>2, CopiesAre DEF FullInv, LastsInv, AttemptsInv, LeadsOn, Ahead
  <2> QED
    BY <1>1, <2>1 DEF Leads
<1>6. \A t : InHand(t)' <=> InHand(t)
  BY <1>2 DEF InHand
<1>7. TakeInv'
  <2>1. TheRate' = TheRate /\ writer' = writer
    BY <1>2, DiskStays
  <2>2. \A t \in Takes : Logged(t)' <=> Logged(t)
    BY <1>2 DEF Logged
  <2>3. take # NoTake => take.id \in Takes
    BY DEF FullInv, Inv, InvOfApp, TakesInHand
  <2> QED
    BY <1>1, <1>2, <1>3, <2>1, <2>2, <2>3 DEF FullInv, LastsInv, TakeInv
<1>8. project.body.edits \subseteq project'.body.edits
  BY <1>1
<1>9. \A t \in Takes :
        /\ Known(project', t) => Logged(t) \/ (InHand(t)' /\ take'.step = "stopped")
        /\ Logged(t) => Known(project', t) \/ (InHand(t)' /\ take'.step = "recording")
  BY <1>2, <1>3, <1>6 DEF FullInv, LastsInv, OpenInv
<1>10. Agrees(project')
  BY <1>1, <1>2 DEF FullInv, LastsInv, OpenInv, Agrees
<1>11. take' # NoTake => Ahead = {}
  BY <1>2 DEF FullInv, LastsInv, AttemptsInv
<1> QED
  BY <1>2, <1>4, <1>5, <1>7, <1>8, <1>9, <1>10, <1>11, SessionMoves

LEMMA EditLasts ==
  ASSUME FullInv, Edit
  PROVE  LastsInv'
<1>1. project.body \in Contents /\ Edits(project.body) /\ IsOpen
  BY Parts DEF FullInv, Inv, InvOfApp, Edit
<1>2. OnceEach([rev |-> 0, body |-> project.body])
  BY <1>1 DEF FullInv, LastsInv, OpenInv, OnceEach, Known
<1> QED
  BY <1>1, <1>2, EditsLast

LEMMA ImportLasts ==
  ASSUME FullInv, ImportAudio
  PROVE  LastsInv'
<1> DEFINE b == [project.body EXCEPT !.imported = TRUE]
<1>1. project.body \in Contents /\ Edits(b) /\ IsOpen
  BY Parts DEF FullInv, Inv, InvOfApp, ImportAudio
<1>2. /\ b \in Contents /\ b.edits = project.body.edits /\ b.rate = project.body.rate
      /\ b.removed = project.body.removed /\ b.takes = project.body.takes
  BY <1>1 DEF Contents
<1> HIDE DEF b
<1>3. OnceEach([rev |-> 0, body |-> b])
  BY <1>1, <1>2 DEF FullInv, LastsInv, OpenInv, OnceEach, Known
<1> QED
  BY <1>1, <1>2, <1>3, EditsLast

LEMMA RemoveClipsLasts ==
  ASSUME FullInv, NEW t \in Takes, RemoveClips(t)
  PROVE  LastsInv'
<1> DEFINE b == [project.body EXCEPT !.takes[t].clips = 0, !.removed = @ \cup {t}]
<1>1. /\ IsOpen /\ project \in P!Projects /\ project.body \in Contents
      /\ project.body.takes \in [Takes -> Registrations] /\ project.body.takes[t].clips > 0
      /\ Edits(b)
  BY Parts DEF FullInv, Inv, InvOfApp, RemoveClips
<1>2. /\ b.edits = project.body.edits /\ b.rate = project.body.rate
      /\ b.removed = project.body.removed \cup {t}
      /\ b.takes = [project.body.takes EXCEPT ![t] = [project.body.takes[t] EXCEPT !.clips = 0]]
  BY <1>1 DEF Contents
<1>3. b \in Contents
  <2> DEFINE f == [project.body.takes EXCEPT ![t].clips = 0]
  <2>1. f \in [Takes -> Registrations]
    BY <1>1 DEF Registrations
  <2>2. b = [project.body EXCEPT !.takes = f, !.removed = @ \cup {t}]
    OBVIOUS
  <2> HIDE DEF f
  <2> QED
    BY <1>1, <2>1, <2>2 DEF Contents, Registrations
<1>4. \A u \in Takes : /\ b.takes[u].state = project.body.takes[u].state
                       /\ b.takes[u].clips = IF u = t THEN 0 ELSE project.body.takes[u].clips
  BY <1>1, <1>2 DEF Registrations
<1> HIDE DEF b
<1>5. OnceEach(project)
  BY <1>1 DEF FullInv, LastsInv, OpenInv
<1>6. Known(project, t)
  BY <1>1, <1>5 DEF OnceEach
<1>7. OnceEach([rev |-> 0, body |-> b])
  BY <1>2, <1>4, <1>5, <1>6 DEF OnceEach, Known
<1> QED
  BY <1>1, <1>2, <1>3, <1>4, <1>7, EditsLast

-----------------------------------------------------------------------------
(* The steps of a take that only its session and the journal know of.      *)
LEMMA HandMoves ==
  ASSUME Inv, NEW from \in TakeSteps, NEW to \in TakeSteps, TakeGoes(from, to)
  PROVE  /\ take # NoTake /\ take' # NoTake /\ take'.step = to /\ take'.id = take.id /\ take.id \in Takes
         /\ \A t : InHand(t)' <=> InHand(t)
         /\ IsOpen /\ project \in P!Projects
<1>1. take # NoTake /\ take \in TakesInHand /\ take.id \in Takes /\ IsOpen /\ project \in P!Projects
  BY HandIs DEF TakeGoes
<1>2. take' = [take EXCEPT !.step = to] /\ take'.step = to /\ take'.id = take.id
  BY <1>1 DEF TakeGoes, TakesInHand
<1>3. take' # NoTake
  BY <1>1, <1>2, InHandGoesOn
<1> QED
  BY <1>1, <1>2, <1>3 DEF InHand

LEMMA CannotStartLasts ==
  ASSUME FullInv, CannotStart
  PROVE  LastsInv'
<1>1. /\ take.step = "starting" /\ take' = NoTake /\ take # NoTake /\ take.id \in Takes /\ IsOpen
      /\ UNCHANGED <<files, attempts, order, journal, manifest, kept, refused, adrift, project>>
  BY HandIs DEF CannotStart, OnlyTake, FullInv, TakeSteps
<1>2. /\ kept \subseteq project.body.edits /\ OnceEach(project)
      /\ \A t \in Takes : (Known(project, t) => Logged(t)) /\ (Logged(t) => Known(project, t))
      /\ Agrees(project)
      /\ Ahead = {}
  BY <1>1 DEF FullInv, LastsInv, OpenInv, AttemptsInv
<1>4. TakeInv'
  BY <1>1, DiskStays DEF FullInv, LastsInv, TakeInv, Logged
<1> QED
  BY <1>1, <1>2, <1>4, SessionMoves

LEMMA StopTakeLasts ==
  ASSUME FullInv, StopTake
  PROVE  LastsInv'
<1> DEFINE r == [state |-> "finalising", media |-> Placed, clips |-> 1]
<1>1. /\ take.step = "recording" /\ take' # NoTake /\ take # NoTake /\ take.id \in Takes /\ IsOpen
      /\ take'.step = "stopped" /\ take'.id = take.id /\ project \in P!Projects
      /\ \A t : InHand(t)' <=> InHand(t)
      /\ UNCHANGED <<files, attempts, order, journal, manifest, kept, refused, adrift>>
  BY HandMoves DEF StopTake, TakeGoes, OnlyTake, FullInv, TakeSteps
<1>2. /\ project'.rev = project.rev + 1 /\ project'.body.edits = project.body.edits
      /\ project'.body.removed = project.body.removed /\ project'.body.rate = project.body.rate
      /\ \A t \in Takes : project'.body.takes[t] = IF t = take.id THEN r ELSE project.body.takes[t]
  <2>1. project.body \in Contents /\ project.body.takes \in [Takes -> Registrations]
    BY <1>1, Parts
  <2>2. project' = [rev |-> project.rev + 1, body |-> [project.body EXCEPT !.takes[take.id] = r]]
    BY DEF StopTake, Revised
  <2> HIDE DEF r
  <2>3. project'.body = [project.body EXCEPT !.takes[take.id] = r] /\ project'.rev = project.rev + 1
    BY <2>2
  <2> QED
    BY <2>1, <2>3 DEF Contents
<1>3. /\ kept \subseteq project.body.edits /\ OnceEach(project)
      /\ \A t \in Takes : (Known(project, t) => Logged(t))
      /\ \A t \in Takes : (Logged(t) => Known(project, t) \/ t = take.id)
      /\ Agrees(project)
      /\ Ahead = {}
      /\ ~ Known(project, take.id) /\ take.id \in Range(order)
      /\ journal[take.id].rate = project.body.rate
      /\ take.id \notin adrift => TheRate = project.body.rate
  BY <1>1 DEF FullInv, LastsInv, OpenInv, AttemptsInv, TakeInv, InHand
<1>4. /\ \A t \in Takes : Known(project', t) <=> Known(project, t) \/ t = take.id
      /\ project'.body.takes[take.id].clips = 1
      /\ \A t \in Takes : t # take.id => project'.body.takes[t].clips = project.body.takes[t].clips
  BY <1>1, <1>2 DEF Known
<1>5. OnceEach(project') /\ Agrees(project')
  BY <1>1, <1>2, <1>3, <1>4 DEF OnceEach, Agrees
<1>6. TakeInv'
  <2>1. TheRate' = TheRate /\ \A t : Logged(t)' <=> Logged(t)
    BY <1>1, DiskStays DEF Logged
  <2> QED
    BY <1>1, <1>2, <1>3, <1>4, <2>1 DEF FullInv, LastsInv, TakeInv
<1>7. \A t \in Takes :
        /\ Known(project', t) => Logged(t) \/ (InHand(t)' /\ take'.step = "stopped")
        /\ Logged(t) => Known(project', t) \/ (InHand(t)' /\ take'.step = "recording")
  BY <1>1, <1>3, <1>4 DEF InHand
<1> QED
  BY <1>1, <1>2, <1>3, <1>5, <1>6, <1>7, SessionMoves

LEMMA StopEmptyLasts ==
  ASSUME FullInv, StopEmpty
  PROVE  LastsInv'
<1>1. /\ take.step = "recording" /\ take' # NoTake /\ take # NoTake /\ take.id \in Takes /\ IsOpen
      /\ take'.step = "empty" /\ take'.id = take.id /\ project \in P!Projects
      /\ \A t : InHand(t)' <=> InHand(t)
      /\ UNCHANGED <<files, attempts, order, journal, manifest, kept, refused, adrift, project>>
      /\ ~ journal[take.id].durable
  BY HandMoves DEF StopEmpty, TakeGoes, OnlyTake, FullInv, TakeSteps
<1>2. /\ kept \subseteq project.body.edits /\ OnceEach(project)
      /\ \A t \in Takes : (Known(project, t) => Logged(t))
      /\ \A t \in Takes : (Logged(t) => Known(project, t) \/ t = take.id)
      /\ Agrees(project)
      /\ Ahead = {}
      /\ ~ Logged(take.id)
  BY <1>1 DEF FullInv, LastsInv, OpenInv, AttemptsInv, TakeInv, InHand, Logged
<1>3. TakeInv'
  <2>1. TheRate' = TheRate /\ \A t : Logged(t)' <=> Logged(t)
    BY <1>1, DiskStays DEF Logged
  <2> QED
    BY <1>1, <1>2, <2>1 DEF FullInv, LastsInv, TakeInv
<1> QED
  BY <1>1, <1>2, <1>3, SessionMoves

(* A take of which there is media is known by the time it is saved.        *)
LEMMA UnsavedIs ==
  ASSUME Inv, IsOpen
  PROVE  /\ Unsaved(project).rev = project.rev
         /\ Unsaved(project).body.edits = project.body.edits
         /\ Unsaved(project).body.removed = project.body.removed
         /\ Unsaved(project).body.rate = project.body.rate
         /\ \A t \in Takes :
              /\ Known(Unsaved(project), t) <=> Known(project, t)
              /\ Unsaved(project).body.takes[t].clips = project.body.takes[t].clips
<1>1. /\ project \in P!Projects /\ project.body \in Contents
      /\ project = [rev |-> project.rev, body |-> project.body]
      /\ project.body.takes \in [Takes -> Registrations]
  BY Parts DEF Inv, InvOfApp
<1>2. CASE take # NoTake /\ take.step = "saving" /\ Known(project, take.id)
  <2>1. take.id \in Takes
    BY <1>2 DEF Inv, InvOfApp, TakesInHand
  <2> DEFINE r == [project.body.takes[take.id] EXCEPT !.state = "partial"]
             q == [project EXCEPT !.body.takes[take.id] = r]
  <2>2. Unsaved(project) = q
    BY <1>2 DEF Unsaved
  <2>3. r.state = "partial" /\ r.clips = project.body.takes[take.id].clips
    BY <1>1, <2>1 DEF Registrations
  <2> HIDE DEF r
  <2>4. q.rev = project.rev /\ q.body = [project.body EXCEPT !.takes[take.id] = r]
    BY <1>1
  <2> HIDE DEF q
  <2>5. /\ q.body.edits = project.body.edits /\ q.body.removed = project.body.removed
        /\ q.body.rate = project.body.rate
        /\ \A t \in Takes : q.body.takes[t] = IF t = take.id THEN r ELSE project.body.takes[t]
    BY <1>1, <2>1, <2>4 DEF Contents
  <2>6. \A t \in Takes : /\ Known(q, t) <=> Known(project, t)
                         /\ q.body.takes[t].clips = project.body.takes[t].clips
    BY <1>2, <2>3, <2>5 DEF Known
  <2> QED
    BY <2>2, <2>4, <2>5, <2>6
<1>3. CASE ~(take # NoTake /\ take.step = "saving" /\ Known(project, take.id))
  BY <1>3 DEF Unsaved
<1> QED
  BY <1>2, <1>3

LEMMA SaveRefusedLasts ==
  ASSUME FullInv, SaveRefused
  PROVE  LastsInv'
<1>1. /\ take.step = "saving" /\ take' = NoTake /\ take # NoTake /\ take.id \in Takes /\ IsOpen
      /\ UNCHANGED <<files, attempts, order, journal, manifest, kept, refused, adrift>>
      /\ project' = Unsaved(project)
  BY HandIs DEF SaveRefused, OnlyTake, FullInv, TakeSteps
<1>2. /\ kept \subseteq project.body.edits /\ OnceEach(project)
      /\ \A t \in Takes : (Known(project, t) => Logged(t)) /\ (Logged(t) => Known(project, t))
      /\ Agrees(project)
      /\ Ahead = {}
  BY <1>1 DEF FullInv, LastsInv, OpenInv, AttemptsInv
<1>4. TakeInv'
  BY <1>1, DiskStays DEF FullInv, LastsInv, TakeInv, Logged
<1>5. /\ project'.body.edits = project.body.edits
      /\ project'.body.removed = project.body.removed
      /\ project'.body.rate = project.body.rate
      /\ \A t \in Takes : /\ Known(project', t) <=> Known(project, t)
                          /\ project'.body.takes[t].clips = project.body.takes[t].clips
  BY <1>1, UnsavedIs DEF FullInv
<1>6. OnceEach(project') /\ Agrees(project')
  BY <1>2, <1>5 DEF OnceEach, Agrees
<1> QED
  BY <1>1, <1>2, <1>4, <1>5, <1>6, SessionMoves

(* The journal names the take, says that media is there, that it stopped,  *)
(* that it is done.                                                        *)
LEMMA StartTakeLasts ==
  ASSUME FullInv, StartTake
  PROVE  LastsInv'
<1>1. /\ take.step = "starting" /\ take' # NoTake /\ take # NoTake /\ take.id \in Takes /\ IsOpen
      /\ take'.step = "recording" /\ take'.id = take.id
      /\ \A t : InHand(t)' <=> InHand(t)
      /\ order' = Append(order, take.id)
      /\ journal' = [journal EXCEPT ![take.id] = [journal[take.id] EXCEPT !.rate = project.body.rate]]
      /\ UNCHANGED <<files, attempts, manifest, kept, refused, project>>
  BY HandMoves DEF StartTake, TakeGoes, OnlyTake, FullInv, TakeSteps
<1>2. Range(order') = Range(order) \cup {take.id}
  BY <1>1, AppendMembers DEF FullInv, StoreTyped
<1>3. \A t \in Takes :
        /\ journal'[t].durable = journal[t].durable /\ journal'[t].stopped = journal[t].stopped
        /\ journal'[t].rate = IF t = take.id THEN project.body.rate ELSE journal[t].rate
  BY <1>1 DEF FullInv, StoreTyped, Entries
<1>4. \A t \in Takes : Logged(t)' <=> Logged(t)
  BY <1>3 DEF Logged
<1>5. /\ OnceEach(project) /\ ~ Logged(take.id) /\ take.id \notin Range(order)
      /\ \A t \in Takes : (Known(project, t) => Logged(t)) /\ (Logged(t) => Known(project, t))
      /\ ~ journal[take.id].stopped
  BY <1>1 DEF FullInv, LastsInv, OpenInv, TakeInv, Logged
<1>6. ~ Known(project, take.id)
  BY <1>1, <1>5
<1>7. adrift \subseteq adrift' /\ (take.id \notin adrift' => TheRate = project.body.rate)
  <2>1. attempts \in Listings /\ writer = P!Idle /\ Ahead = {}
    BY <1>1, OneListing DEF FullInv, LastsInv, AttemptsInv, Inv, InvOfApp
  <2>2. Choose(attempts).file = Voucher
    BY <2>1, ChoosesNewest DEF FullInv, LastsInv, AttemptsInv
  <2>3. TheRate \in RatesOnDisk
    BY <2>1, <2>2 DEF RatesOnDisk, TheRate
  <2>4. adrift' = IF RatesOnDisk = {project.body.rate} THEN adrift ELSE adrift \cup {take.id}
    BY DEF StartTake
  <2> QED
    BY <2>3, <2>4
<1>8. \A p : Agrees(p) => Agrees(p)'
  <2> SUFFICES ASSUME NEW p, Agrees(p), NEW t \in Takes, Firm(t)'
               PROVE  journal'[t].rate = p.body.rate
    BY DEF Agrees
  <2>1. Logged(t) /\ t \notin adrift /\ t # take.id
    BY <1>4, <1>5, <1>7 DEF Firm
  <2> QED
    BY <1>3, <2>1 DEF Agrees, Firm
<1>9. TakeInv'
  <2>1. TheRate' = TheRate
    BY <1>1, DiskStays
  <2> QED
    BY <1>1, <1>2, <1>3, <1>4, <1>5, <1>6, <1>7, <2>1 DEF FullInv, LastsInv, TakeInv
<1> QED
  BY <1>1, <1>2, <1>4, <1>5, <1>8, <1>9, JournalMoves

LEMMA LogsMore ==
  ASSUME StoreTyped, NEW u \in Takes, NEW field \in {"durable", "stopped", "finalized"}, Logs(u, field)
  PROVE  \A t \in Takes :
           /\ journal'[t].rate = journal[t].rate
           /\ journal'[t].durable <=> journal[t].durable \/ (t = u /\ field = "durable")
           /\ journal'[t].stopped <=> journal[t].stopped \/ (t = u /\ field = "stopped")
<1>1. journal' = [journal EXCEPT ![u] = [journal[u] EXCEPT ![field] = TRUE]]
  BY DEF Logs
<1>2. journal \in [Takes -> Entries] /\ journal[u] \in Entries
  BY DEF StoreTyped
<1> DEFINE e == [journal[u] EXCEPT ![field] = TRUE]
<1>3. /\ e.rate = journal[u].rate
      /\ e.durable = IF field = "durable" THEN TRUE ELSE journal[u].durable
      /\ e.stopped = IF field = "stopped" THEN TRUE ELSE journal[u].stopped
  BY <1>2 DEF Entries
<1> HIDE DEF e
<1>4. \A t \in Takes : journal'[t] = IF t = u THEN e ELSE journal[t]
  BY <1>1, <1>2 DEF e
<1> QED
  BY <1>3, <1>4

LEMMA LogLasts ==
  ASSUME FullInv, MediaDurable \/ LogStopped \/ Drain
  PROVE  LastsInv'
<1>1. \/ /\ take.step = "recording" /\ take' = take /\ Logs(take.id, "durable")
      \/ /\ TakeGoes("stopped", "draining") /\ Logs(take.id, "stopped")
      \/ /\ TakeGoes("draining", "finished") /\ Logs(take.id, "durable")
  BY DEF MediaDurable, LogStopped, Drain
<1>2. UNCHANGED <<files, attempts, order, manifest, kept, refused, adrift, project>>
  BY DEF MediaDurable, LogStopped, Drain, OnlyTake
<1>3. /\ take # NoTake /\ take.id \in Takes /\ IsOpen
      /\ take.step \in {"recording", "stopped", "draining"}
  BY <1>1, HandIs DEF TakeGoes, FullInv, TakeSteps
<1>4. /\ take' # NoTake /\ take'.id = take.id
      /\ \A t : InHand(t)' <=> InHand(t)
      /\ \/ take.step = "recording" /\ take'.step = "recording" /\ Logs(take.id, "durable")
         \/ take.step = "stopped" /\ take'.step = "draining" /\ Logs(take.id, "stopped")
         \/ take.step = "draining" /\ take'.step = "finished" /\ Logs(take.id, "durable")
  <2>1. CASE take.step = "recording" /\ take' = take /\ Logs(take.id, "durable")
    BY <1>3, <2>1 DEF InHand
  <2>2. CASE TakeGoes("stopped", "draining") /\ Logs(take.id, "stopped")
    BY <2>2, HandMoves DEF FullInv, TakeSteps, TakeGoes
  <2>3. CASE TakeGoes("draining", "finished") /\ Logs(take.id, "durable")
    BY <2>3, HandMoves DEF FullInv, TakeSteps, TakeGoes
  <2> QED
    BY <1>1, <2>1, <2>2, <2>3
<1>5. \A t \in Takes :
        /\ journal'[t].rate = journal[t].rate
        /\ journal[t].durable => journal'[t].durable
        /\ journal[t].stopped => journal'[t].stopped
        /\ t # take.id => /\ journal'[t].durable <=> journal[t].durable
                          /\ journal'[t].stopped <=> journal[t].stopped
  BY <1>3, <1>4, LogsMore DEF FullInv
<1>6. /\ take.step = "recording" => (journal'[take.id].stopped <=> journal[take.id].stopped)
      /\ journal'[take.id].durable \/ journal'[take.id].stopped
  BY <1>3, <1>4, LogsMore DEF FullInv
<1>7. /\ \A t \in Takes : /\ Logged(t) => Logged(t)'
                          /\ t # take.id => (Logged(t)' <=> Logged(t))
      /\ Logged(take.id)'
  BY <1>3, <1>4, <1>5, <1>6, Zenon DEF Logged
<1>8. /\ \A t \in Takes :
           /\ Known(project, t) => Logged(t)'
           /\ Logged(t) => Known(project, t) \/ t = take.id
      /\ take.step # "recording" => Known(project, take.id)
  <2>1. /\ \A t \in Takes :
             /\ Known(project, t) => Logged(t) \/ t = take.id
             /\ Logged(t) => Known(project, t) \/ t = take.id
        /\ take.step # "recording" => Known(project, take.id)
    BY <1>3 DEF FullInv, LastsInv, OpenInv, TakeInv, InHand
  <2>2. ASSUME NEW t \in Takes, Known(project, t) PROVE Logged(t)'
    <3>1. CASE t = take.id
      BY <1>4, <1>7, <3>1 DEF Logged
    <3>2. CASE t # take.id
      BY <1>7, <2>1, <2>2, <3>2
    <3> QED
      BY <3>1, <3>2
  <2> QED
    BY <2>1, <2>2
<1>9. \A t \in Takes :
        /\ Logged(t)' => Logged(t) \/ InHand(t)
        /\ Logged(t)' => Known(project, t) \/ (InHand(t)' /\ take'.step = "recording")
  <2> SUFFICES ASSUME NEW t \in Takes
               PROVE  /\ Logged(t)' => Logged(t) \/ InHand(t)
                      /\ Logged(t)' => Known(project, t) \/ (InHand(t)' /\ take'.step = "recording")
    OBVIOUS
  <2>1. CASE t = take.id
    BY <1>3, <1>4, <1>8, <2>1 DEF InHand
  <2>2. CASE t # take.id
    BY <1>7, <1>8, <2>2
  <2> QED
    BY <2>1, <2>2
<1>10. TakeInv'
  <2>1. TheRate' = TheRate
    BY <1>2, DiskStays
  <2>2. /\ take.id \in Range(order) /\ journal[take.id].rate = project.body.rate
        /\ take.id \notin adrift => TheRate = project.body.rate
    BY <1>3 DEF FullInv, LastsInv, TakeInv
  <2>3. \A t \in Takes : Logged(t)' => t \in Range(order')
    BY <1>2, <1>5, <1>7, <1>8, <2>1, <2>2 DEF FullInv, LastsInv, TakeInv
  <2>4. take.step = "recording" => ~ Known(project, take.id) /\ ~ journal[take.id].stopped
    BY <1>3 DEF FullInv, LastsInv, TakeInv
  <2> QED
    BY <1>2, <1>3, <1>4, <1>5, <1>6, <1>7, <1>8, <2>1, <2>2, <2>3, <2>4 DEF TakeInv
<1>11. \A p : Agrees(p) /\ p.body.rate \in {TheRate, project.body.rate} => Agrees(p)'
  <2> SUFFICES ASSUME NEW p, Agrees(p), p.body.rate \in {TheRate, project.body.rate},
                      NEW t \in Takes, Firm(t)'
               PROVE  journal'[t].rate = p.body.rate
    BY DEF Agrees
  <2>1. CASE t = take.id
    <3>1. t \notin adrift
      BY <1>2 DEF Firm
    <3>2. journal[t].rate = project.body.rate /\ TheRate = project.body.rate
      BY <1>3, <2>1, <3>1 DEF FullInv, LastsInv, TakeInv
    <3> QED
      BY <1>5, <3>2
  <2>2. CASE t # take.id
    BY <1>2, <1>5, <1>7, <2>2 DEF Agrees, Firm
  <2> QED
    BY <2>1, <2>2
<1> QED
  BY <1>2, <1>3, <1>4, <1>7, <1>8, <1>9, <1>10, <1>11, JournalMoves

LEMMA EndTakeLasts ==
  ASSUME FullInv, EndTake
  PROVE  LastsInv'
<1>1. /\ take.step = "saved" /\ take' = NoTake /\ take # NoTake /\ take.id \in Takes /\ IsOpen
      /\ UNCHANGED <<files, attempts, order, manifest, kept, refused, adrift, project>>
      /\ journal' = journal \/ Logs(take.id, "finalized")
  BY HandIs DEF EndTake, OnlyTake, FullInv, TakeSteps
<1>2. \A t \in Takes : /\ journal'[t].rate = journal[t].rate
                       /\ journal'[t].durable <=> journal[t].durable
                       /\ journal'[t].stopped <=> journal[t].stopped
  BY <1>1, LogsMore DEF FullInv
<1>3. \A t \in Takes : Logged(t)' <=> Logged(t)
  BY <1>2 DEF Logged
<1>4. \A t \in Takes : (Known(project, t) => Logged(t)) /\ (Logged(t) => Known(project, t))
  BY <1>1 DEF FullInv, LastsInv, OpenInv
<1>5. TakeInv'
  BY <1>1, <1>2, <1>3, DiskStays DEF FullInv, LastsInv, TakeInv
<1>6. \A p : Agrees(p) => Agrees(p)'
  BY <1>1, <1>2, <1>3 DEF Agrees, Firm
<1> QED
  BY <1>1, <1>3, <1>4, <1>5, <1>6, JournalMoves DEF InHand

-----------------------------------------------------------------------------
(* A save that begins, of the project that is then open.                   *)
LEMMA BeginIs ==
  ASSUME Inv, NEW p \in P!Projects, Disk!Begin(p)
  PROVE  /\ writer = P!Idle /\ writer' # P!Idle /\ writer'.step # "flushPrimary"
         /\ writer'.project = p /\ primary' = primary
         /\ Voucher = primary /\ Voucher' = Voucher
<1>1. P!Begin(p)
  BY SameBegin
<1>2. /\ writer = P!Idle /\ UNCHANGED <<primary, bak>> /\ P!MayReplace(p)
      /\ writer'.project = p
      /\ writer'.step \in {"backup", "replace"}
  BY <1>1 DEF P!Begin
<1>3. primary # P!Damaged /\ writer.step # "flushPrimary" /\ writer' # P!Idle
  BY <1>2 DEF P!MayReplace, P!Idle
<1> QED
  BY <1>2, <1>3 DEF Voucher

LEMMA BeginMoves ==
  ASSUME FullInv, IsOpen, Disk!Begin(project'), project' \in P!Projects,
         UNCHANGED <<attempts, order, journal, kept, refused, adrift>>, manifest \subseteq manifest',
         kept \subseteq project'.body.edits, OnceEach(project'),
         \A t \in Takes : Known(project', t) <=> Logged(t),
         Agrees(project'),
         \A a \in Ahead : Leads(project', a),
         take' # NoTake => Ahead = {},
         TakeInv'
  PROVE  LastsInv'
<1>1. /\ writer = P!Idle /\ writer' # P!Idle /\ writer'.step # "flushPrimary"
      /\ writer'.project = project' /\ primary' = primary /\ Voucher' = Voucher
  BY BeginIs DEF FullInv
<1>2. Ahead' = Ahead /\ TheRate' = TheRate
  BY <1>1 DEF Ahead, TheRate
<1>3. Behind' /\ OneAhead'
  BY <1>1, <1>2 DEF FullInv, LastsInv, AttemptsInv, Behind, OneAhead
<1>4. \A t \in Takes : Logged(t)' <=> Logged(t)
  BY DEF Logged
<1>5. \A p : (OnceEach(p)' <=> OnceEach(p)) /\ (Agrees(p)' <=> Agrees(p))
  BY <1>4 DEF OnceEach, Agrees, Firm
<1>6. \A p : Lasts(p) => Lasts(p)'
  BY <1>2, <1>4, <1>5 DEF Lasts
<1>7. Lasts(project')
  BY DEF Lasts
<1>8. WrittenInv'
  <2>1. Lasts(Voucher.project) /\ \A a \in Ahead : Lasts(a.project)
    BY DEF FullInv, LastsInv, WrittenInv
  <2>2. Lasts(Voucher.project)'
    BY <1>1, <1>6, <2>1
  <2>3. \A a \in Ahead' : Lasts(a.project)'
    BY <1>2, <1>6, <2>1
  <2>4. Lasts(writer.project)'
    <3>1. PICK p : p = project'
      OBVIOUS
    <3>2. Lasts(p)' /\ p = writer'.project
      BY <1>1, <1>6, <1>7, <3>1
    <3> QED
      BY <3>2
  <2> QED
    BY <2>2, <2>3, <2>4 DEF WrittenInv
<1>9. OpenInv'
  <2>1. OnceEach(project)' /\ Agrees(project)'
    <3>1. PICK p : p = project'
      OBVIOUS
    <3>2. OnceEach(p)' /\ Agrees(p)' /\ p = project'
      BY <1>5, <3>1
    <3> QED
      BY <3>2
  <2> QED
    BY <1>1, <1>2, <1>4, <2>1 DEF OpenInv
<1>10. \A a \in Ahead : LeadsOn(a)'
  <2> SUFFICES ASSUME NEW a \in Ahead
               PROVE  LeadsOn(a)'
    OBVIOUS
  <2>1. LeadsOn(a) /\ Leads(project', a) /\ a \in Ahead'
    BY <1>2 DEF FullInv, LastsInv, AttemptsInv
  <2>2. /\ IsOpen' => Leads(project, a)'
        /\ Leads(writer.project, a)'
    BY <1>1, <2>1 DEF Leads
  <2>3. \A t \in a.done : Known(a.project, t) \/ ~ Logged(t)'
    BY <2>1 DEF LeadsOn, Logged
  <2> QED
    BY <1>1, <2>1, <2>2, <2>3 DEF LeadsOn, Known
<1>11. AttemptsInv'
  BY <1>1, <1>2, <1>3, <1>10 DEF AttemptsInv
<1>12. RefusedInv'
  BY DEF FullInv, LastsInv, RefusedInv
<1> QED
  BY <1>8, <1>9, <1>11, <1>12 DEF LastsInv

LEMMA SaveLasts ==
  ASSUME FullInv, Save
  PROVE  LastsInv'
<1>1. /\ IsOpen /\ take = NoTake /\ take' = NoTake /\ Disk!Begin(project') /\ project' = project
      /\ UNCHANGED <<attempts, order, journal, manifest, kept, refused, adrift>>
  BY DEF Save
<1>2. project' \in P!Projects /\ writer = P!Idle
  BY <1>1, BeginIs DEF FullInv, Inv, InvOfApp
<1>3. /\ kept \subseteq project'.body.edits /\ OnceEach(project')
      /\ \A t \in Takes : Known(project', t) <=> Logged(t)
      /\ Agrees(project')
  BY <1>1 DEF FullInv, LastsInv, OpenInv, InHand, Agrees
<1>5. \A a \in Ahead : Leads(project', a)
  BY <1>1 DEF FullInv, LastsInv, AttemptsInv, LeadsOn
<1>6. TakeInv'
  <2>1. TheRate' = TheRate
    BY <1>1, <1>2, BeginIs DEF TheRate, FullInv
  <2> QED
    BY <1>1, <2>1 DEF FullInv, LastsInv, TakeInv, Logged
<1> QED
  BY <1>1, <1>2, <1>3, <1>5, <1>6, BeginMoves

-----------------------------------------------------------------------------
(* A take is prepared once no recovered copy is ahead: the user has saved  *)
(* the project it holds.                                                   *)
LEMMA SavedFirst ==
  ASSUME FullInv, writer = P!Idle, NoCopyIsChosen
  PROVE  Ahead = {}
<1>1. attempts \in Listings
  BY OneListing DEF FullInv
<1>2. Ahead # {} => Choose(attempts).file \in Ahead
  BY <1>1, ChooseIs DEF FullInv, LastsInv, AttemptsInv
<1>3. \A a \in Ahead : IsRecovered(a)
  BY CopiesAre DEF Ahead, Copies, IsRecovered, FullInv
<1> QED
  BY <1>1, <1>2, <1>3 DEF NoCopyIsChosen

LEMMA PrepareLasts ==
  ASSUME FullInv, SavesFirst = TRUE, NEW t \in Takes, NEW rate \in Rates, Prepare(t, rate)
  PROVE  LastsInv'
<1>1. /\ IsOpen /\ take = NoTake /\ saving = "nobody" /\ t \notin Range(order)
      /\ project' = [project EXCEPT !.body.rate = rate]
      /\ UNCHANGED <<attempts, journal, order, manifest, kept, refused, adrift>>
  BY DEF Prepare
<1>2. writer = P!Idle /\ project \in P!Projects
  BY <1>1 DEF FullInv, Inv, InvOfApp
<1>3. Ahead = {}
  BY <1>2, SavedFirst DEF Prepare
<1>4. /\ project' \in P!Projects /\ project'.rev = project.rev /\ project'.body.rate = rate
      /\ project'.body.edits = project.body.edits /\ project'.body.removed = project.body.removed
      /\ project'.body.takes = project.body.takes
  BY <1>1, <1>2, WithRate
<1>5. \A u \in Takes : Known(project', u) <=> Known(project, u)
  BY <1>4 DEF Known
<1>6. /\ kept \subseteq project'.body.edits /\ OnceEach(project')
      /\ \A u \in Takes : Known(project', u) <=> Logged(u)
  BY <1>1, <1>4, <1>5 DEF FullInv, LastsInv, OpenInv, InHand, OnceEach
<1>7. \A u \in Takes : Logged(u)' <=> Logged(u)
  BY <1>1 DEF Logged
<1>8. Agrees(project')
  <2>1. CASE HasMedia(project)
    <3>1. project'.body.rate = project.body.rate
      BY <1>4, <2>1 DEF Prepare
    <3> QED
      BY <1>1, <3>1 DEF FullInv, LastsInv, OpenInv, Agrees
  <2>2. CASE ~ HasMedia(project)
    <3>1. \A u \in Takes : ~ Logged(u)
      BY <1>5, <1>6, <2>2 DEF HasMedia
    <3> QED
      BY <3>1 DEF Agrees, Firm
  <2> QED
    BY <2>1, <2>2
<1>9. ASSUME take' = [step |-> "starting", id |-> t], UNCHANGED <<files, saving>>
      PROVE  LastsInv'
  <2>1. TakeInv'
    <3>1. TheRate' = TheRate /\ take'.step = "starting" /\ take'.id = t
      BY <1>1, <1>9, DiskStays
    <3> QED
      BY <1>1, <1>7, <3>1 DEF FullInv, LastsInv, TakeInv
  <2> QED
    BY <1>1, <1>3, <1>4, <1>6, <1>8, <1>9, <2>1, SessionMoves
<1>10. ASSUME Disk!Begin(project'), take' = [step |-> "prepare", id |-> t], saving' = "take"
       PROVE  LastsInv'
  <2>1. TakeInv'
    <3>1. project' = writer'.project /\ take'.step = "prepare" /\ take'.id = t
      BY <1>4, <1>10, BeginIs DEF FullInv
    <3> QED
      BY <1>1, <1>7, <1>10, <3>1 DEF FullInv, LastsInv, TakeInv
  <2> QED
    BY <1>1, <1>3, <1>4, <1>6, <1>8, <1>10, <2>1, BeginMoves
<1>11. ASSUME UNCHANGED <<files, take, saving>>
       PROVE  LastsInv'
  <2>1. TakeInv'
    BY <1>1, <1>7, <1>11 DEF FullInv, LastsInv, TakeInv
  <2> QED
    BY <1>1, <1>3, <1>4, <1>6, <1>8, <1>11, <2>1, SessionMoves
<1> QED
  BY <1>9, <1>10, <1>11 DEF Prepare

(* A device of another rate: there is no media yet, and no recovered copy. *)
LEMMA AdoptRateLasts ==
  ASSUME FullInv, SavesFirst = TRUE, NEW rate \in Rates, AdoptRate(rate)
  PROVE  LastsInv'
<1>1. /\ IsOpen /\ take = NoTake /\ saving = "nobody" /\ NoCopyIsChosen /\ ~ HasMedia(project)
      /\ project' = [project EXCEPT !.body.rate = rate]
      /\ UNCHANGED <<files, attempts, order, journal, manifest, take, saving, kept, refused, adrift>>
  BY DEF AdoptRate, disk, ghost
<1>2. writer = P!Idle /\ project \in P!Projects
  BY <1>1 DEF FullInv, Inv, InvOfApp
<1>3. Ahead = {}
  BY <1>1, <1>2, SavedFirst
<1>4. /\ project'.body.edits = project.body.edits /\ project'.body.removed = project.body.removed
      /\ project'.body.takes = project.body.takes
  BY <1>1, <1>2, WithRate
<1>5. \A u \in Takes : Known(project', u) <=> Known(project, u)
  BY <1>4 DEF Known
<1>6. /\ OnceEach(project')
      /\ \A u \in Takes : ~ Known(project', u) /\ ~ Logged(u)
  BY <1>1, <1>4, <1>5 DEF FullInv, LastsInv, OpenInv, InHand, OnceEach, HasMedia
<1>7. Agrees(project')
  BY <1>6 DEF Agrees, Firm
<1>8. TakeInv'
  BY <1>1 DEF FullInv, LastsInv, TakeInv, Logged
<1> QED
  BY <1>1, <1>3, <1>4, <1>6, <1>7, <1>8, SessionMoves

(* A take that ends is given its state, and the project is saved, or not.  *)
LEMMA FinalizeLasts ==
  ASSUME FullInv, NEW state \in {"complete", "partial"}, Finalize(state)
  PROVE  LastsInv'
<1> DEFINE final == [project.body.takes[take.id] EXCEPT !.state = state, !.media = Final]
<1>1. /\ take.step \in {"finished", "empty"} /\ take # NoTake /\ take.id \in Takes /\ IsOpen
      /\ project \in P!Projects
      /\ UNCHANGED <<attempts, journal, order, kept, refused, adrift>>
      /\ manifest \subseteq manifest'
      /\ take' = [step |-> "saving", id |-> take.id, whole |-> state = "complete"]
  BY HandIs DEF Finalize, FullInv, TakeSteps
<1>2. take' # NoTake /\ take'.step = "saving" /\ take'.id = take.id
  BY <1>1 DEF NoTake
<1>3. /\ project' \in P!Projects
      /\ project'.rev = project.rev /\ project'.body.edits = project.body.edits
      /\ project'.body.removed = project.body.removed /\ project'.body.rate = project.body.rate
      /\ \A u \in Takes : /\ project'.body.takes[u].clips = project.body.takes[u].clips
                          /\ Known(project', u) <=> Known(project, u)
  <2>1. CASE take.step = "empty"
    BY <1>1, <2>1 DEF Finalize
  <2>2. CASE take.step = "finished"
    <3>1. project' = [project EXCEPT !.body.takes[take.id] = final]
      BY <2>2 DEF Finalize
    <3>2. /\ project = [rev |-> project.rev, body |-> project.body] /\ project.rev \in Nat
          /\ project.body \in Contents /\ project.body.takes \in [Takes -> Registrations]
      BY <1>1, Parts
    <3>3. final \in Registrations /\ final.state = state
          /\ final.clips = project.body.takes[take.id].clips
      BY <1>1, <3>2 DEF Registrations, TakeStates, Final
    <3> HIDE DEF final
    <3>4. project' \in P!Projects
      BY <1>1, <3>1, <3>3, OneTake
    <3>5. project'.rev = project.rev /\ project'.body = [project.body EXCEPT !.takes[take.id] = final]
      BY <3>1, <3>2
    <3>6. /\ project'.body.edits = project.body.edits
          /\ project'.body.removed = project.body.removed /\ project'.body.rate = project.body.rate
          /\ \A u \in Takes : project'.body.takes[u] = IF u = take.id THEN final ELSE project.body.takes[u]
      BY <1>1, <3>2, <3>5 DEF Contents
    <3>7. Known(project, take.id)
      BY <1>1, <2>2 DEF FullInv, LastsInv, TakeInv
    <3> QED
      BY <3>3, <3>4, <3>5, <3>6, <3>7 DEF Known
  <2> QED
    BY <1>1, <2>1, <2>2
<1>4. /\ kept \subseteq project'.body.edits /\ OnceEach(project') /\ Ahead = {}
      /\ \A u \in Takes : Known(project', u) <=> Logged(u)
      /\ Agrees(project')
      /\ take.id \in Range(order)
  <2>1. /\ OnceEach(project) /\ kept \subseteq project.body.edits /\ Ahead = {}
        /\ \A u \in Takes : Known(project, u) <=> Logged(u)
        /\ Agrees(project) /\ take.id \in Range(order)
    BY <1>1 DEF FullInv, LastsInv, OpenInv, AttemptsInv, TakeInv
  <2> QED
    BY <1>3, <2>1 DEF OnceEach, Agrees
<1>5. TheRate' = TheRate => TakeInv'
  BY <1>1, <1>2, <1>4 DEF FullInv, LastsInv, TakeInv, Logged
<1>6. CASE Disk!Begin(project')
  <2>1. TheRate' = TheRate
    BY <1>3, <1>6, BeginIs DEF TheRate, FullInv
  <2> QED
    BY <1>1, <1>3, <1>4, <1>5, <1>6, <2>1, BeginMoves
<1>7. CASE UNCHANGED <<files, saving>>
  <2>1. TheRate' = TheRate
    BY <1>1, <1>7, DiskStays
  <2> QED
    BY <1>1, <1>3, <1>4, <1>5, <1>7, <2>1, SessionMoves
<1> QED
  BY <1>6, <1>7 DEF Finalize

-----------------------------------------------------------------------------
(* The steps of a save.  The new project file will be ahead of every       *)
(* recovered copy, or says the same.                                       *)
LEMMA WriterIs ==
  ASSUME Inv, writer.step \in {"backup", "flushBackup", "replace"}
  PROVE  /\ P!PrimaryVouches /\ Voucher = primary /\ primary # P!Damaged /\ writer # P!Idle
         /\ writer.step # "backup" => bak = primary
         /\ primary.gen <= writer.gen /\ primary.gen \in Nat /\ writer.gen \in Nat
         /\ writer = [step |-> writer.step, gen |-> writer.gen, project |-> writer.project,
                      unchanged |-> writer.unchanged]
         /\ writer.unchanged => primary.project = writer.project
<1>1. writer # P!Idle /\ writer.step # "flushPrimary"
  BY DEF P!Idle
<1>2. P!PrimaryVouches /\ Voucher = primary
  BY <1>1, VoucherIs DEF P!OnlyTheBackup
<1>3. writer = [step |-> writer.step, gen |-> writer.gen, project |-> writer.project,
                unchanged |-> writer.unchanged]
  BY <1>1 DEF Inv, P!IInv, P!Typed, P!Writers
<1> QED
  BY <1>1, <1>2, <1>3, VoucherIs DEF P!PrimaryVouches, P!Valid, P!Damaged

LEMMA WriterLasts ==
  ASSUME FullInv, IsOpen, UNCHANGED <<attempts, order, journal, manifest, project, take, kept, refused, adrift, saving>>,
         P!KeepBackup \/ P!FlushBackup \/ P!Replace
  PROVE  LastsInv'
<1>1. writer.step \in {"backup", "flushBackup", "replace"}
  BY DEF P!KeepBackup, P!FlushBackup, P!Replace, P!At
<1>2. /\ Voucher = primary /\ primary # P!Damaged /\ writer # P!Idle
      /\ writer.step # "backup" => bak = primary
      /\ primary.gen <= writer.gen /\ primary.gen \in Nat /\ writer.gen \in Nat
      /\ writer.unchanged => primary.project = writer.project
      /\ \A step : P!Goes(step) => writer'.step = step /\ writer'.project = writer.project
  BY <1>1, WriterIs DEF FullInv, P!Goes
<1>3. /\ Voucher' = Voucher /\ writer'.project = writer.project
      /\ writer'.step = "flushPrimary" =>
           \A a \in Range(attempts) :
             a.gen <= primary'.gen /\ (a.gen = primary'.gen => Leads(primary'.project, a))
  <2>1. CASE P!KeepBackup
    <3>1. writer'.step = "flushBackup" /\ writer'.project = writer.project /\ primary' = primary
      BY <1>2, <2>1 DEF P!KeepBackup
    <3> QED
      BY <1>2, <3>1 DEF Voucher
  <2>2. CASE P!FlushBackup
    <3>1. /\ writer'.project = writer.project /\ primary' = primary /\ bak' = bak /\ bak = primary
          /\ writer'.step = IF writer.unchanged THEN "flushPrimary" ELSE "replace"
      BY <1>2, <2>2 DEF P!FlushBackup, P!At
    <3>2. Voucher' = Voucher
      BY <1>2, <3>1 DEF Voucher
    <3>3. ASSUME writer.unchanged, NEW a \in Range(attempts)
          PROVE  a.gen <= primary.gen /\ (a.gen = primary.gen => Leads(primary.project, a))
      <4>1. /\ a.gen \in Nat /\ a.project.rev \in Nat /\ primary.project.rev \in Nat
            /\ primary.project = writer.project
        BY <1>2, <3>3, CopiesAre, VoucherIs DEF FullInv
      <4>2. a \notin Ahead
        BY <1>2, <4>1 DEF FullInv, LastsInv, AttemptsInv, LeadsOn, Leads
      <4> QED
        BY <1>2, <4>1, <4>2 DEF Ahead, FullInv, LastsInv, AttemptsInv, Behind
    <3> QED
      BY <3>1, <3>2, <3>3
  <2>3. CASE P!Replace
    <3>1. /\ writer'.project = writer.project /\ writer'.step = "flushPrimary"
          /\ bak' = bak /\ bak = primary
          /\ primary'.gen = writer.gen + 1 /\ primary'.project = writer.project
      BY <1>2, <2>3 DEF P!Replace, P!At, P!Checkpoint
    <3>2. Voucher' = Voucher
      BY <1>2, <3>1 DEF Voucher
    <3>3. ASSUME NEW a \in Range(attempts)
          PROVE  a.gen <= primary'.gen /\ (a.gen = primary'.gen => Leads(primary'.project, a))
      <4>1. a.gen \in Nat
        BY CopiesAre DEF FullInv
      <4>2. a \in Ahead => a.gen = primary.gen + 1 /\ Leads(writer.project, a)
        BY <1>2 DEF FullInv, LastsInv, AttemptsInv, LeadsOn
      <4>3. a \notin Ahead => a.gen <= primary.gen
        BY <1>2, <4>1 DEF Ahead
      <4> QED
        BY <1>2, <3>1, <4>1, <4>2, <4>3
    <3> QED
      BY <3>1, <3>2, <3>3
  <2> QED
    BY <2>1, <2>2, <2>3
<1>4. /\ OnceEach(project)
      /\ \A t \in Takes :
           /\ Known(project, t) => Logged(t) \/ (InHand(t) /\ take.step = "stopped")
           /\ Logged(t) => Known(project, t) \/ (InHand(t) /\ take.step = "recording")
      /\ Agrees(project)
      /\ \A a \in Ahead : Leads(project, a)
      /\ take # NoTake => Ahead = {}
  BY DEF FullInv, LastsInv, OpenInv, AttemptsInv, LeadsOn
<1>5. \A t : InHand(t)' <=> InHand(t)
  BY DEF InHand
<1>6. TakeInv'
  <2>1. TheRate' = TheRate
    BY <1>3 DEF TheRate
  <2> QED
    BY <1>3, <2>1 DEF FullInv, LastsInv, TakeInv, Logged
<1> QED
  BY <1>2, <1>3, <1>4, <1>5, <1>6, WriterMoves

(* The save is done: the project file is what vouches for it, and no copy  *)
(* is ahead of it any more.                                                *)
LEMMA FlushedIs ==
  ASSUME FullInv, writer.step = "flushPrimary"
  PROVE  /\ primary # P!Damaged /\ primary.project = writer.project /\ writer # P!Idle
         /\ Lasts(writer.project)
         /\ \A a \in Range(attempts) : ~ (a.gen > primary.gen)
         /\ \A a \in Range(attempts) : a.gen = primary.gen => Leads(primary.project, a)
<1>1. P!BackupVouches /\ writer # P!Idle
  BY VoucherIs DEF FullInv, P!Idle
<1>2. P!Valid(primary) /\ primary # P!Damaged /\ primary.project = writer.project
  BY <1>1 DEF P!BackupVouches, P!Valid, P!Damaged
<1>3. primary.gen \in Nat
  BY <1>2, P!Types DEF FullInv, Inv, P!IInv
<1>4. \A a \in Range(attempts) : a.gen \in Nat /\ a.gen <= primary.gen
                                 /\ (a.gen = primary.gen => Leads(primary.project, a))
  BY CopiesAre DEF FullInv, LastsInv, AttemptsInv
<1>5. Lasts(writer.project)
  BY <1>1 DEF FullInv, LastsInv, WrittenInv
<1> QED
  BY <1>1, <1>2, <1>3, <1>4, <1>5

LEMMA FlushLasts ==
  ASSUME FullInv, Write, P!FlushPrimary
  PROVE  LastsInv'
<1>1. /\ writer.step = "flushPrimary" /\ writer' = P!Idle /\ writer'.step = "idle" /\ primary' = primary
      /\ UNCHANGED <<attempts, journal, order, manifest, project, refused, adrift>>
      /\ kept' = kept \cup writer.project.body.edits /\ saving' = "nobody"
      /\ take' = IF saving = "user" THEN take
                 ELSE [take EXCEPT !.step = IF @ = "prepare" THEN "starting" ELSE "saved"]
  BY DEF Write, P!FlushPrimary, P!At, P!Idle
<1>2. /\ primary # P!Damaged /\ primary.project = writer.project /\ writer # P!Idle
      /\ Lasts(writer.project)
      /\ \A a \in Range(attempts) : ~ (a.gen > primary.gen)
      /\ \A a \in Range(attempts) : a.gen = primary.gen => Leads(primary.project, a)
  BY <1>1, FlushedIs
<1>3. /\ IsOpen /\ (saving = "user" \/ saving = "take")
      /\ saving = "take" => take # NoTake /\ take.step \in {"prepare", "saving"}
      /\ take # NoTake => take \in TakesInHand
  BY <1>2 DEF FullInv, Inv, InvOfApp
<1>4. Voucher' = primary /\ Ahead' = {} /\ TheRate' = writer.project.body.rate
  <2>1. Voucher' = primary
    BY <1>1, <1>2 DEF Voucher
  <2> QED
    BY <1>1, <1>2, <2>1 DEF Ahead, TheRate
<1>5. /\ \A t \in Takes : Logged(t)' <=> Logged(t)
      /\ \A p : (OnceEach(p)' <=> OnceEach(p)) /\ (Agrees(p)' <=> Agrees(p))
  BY <1>1 DEF Logged, OnceEach, Agrees, Firm
<1>6. saving = "take" =>
        /\ take' # NoTake /\ take'.id = take.id
        /\ take'.step = IF take.step = "prepare" THEN "starting" ELSE "saved"
  <2> SUFFICES ASSUME saving = "take"
               PROVE  /\ take' # NoTake /\ take'.id = take.id
                      /\ take'.step = IF take.step = "prepare" THEN "starting" ELSE "saved"
    OBVIOUS
  <2> DEFINE step == IF take.step = "prepare" THEN "starting" ELSE "saved"
  <2>1. take \in TakesInHand /\ step \in TakeSteps /\ take' = [take EXCEPT !.step = step]
    BY <1>1, <1>3 DEF TakeSteps
  <2> HIDE DEF step
  <2>2. take' # NoTake
    BY <2>1, InHandGoesOn
  <2>3. take'.step = step /\ take'.id = take.id
    BY <2>1 DEF TakesInHand
  <2> QED
    BY <2>2, <2>3 DEF step
<1>7. saving = "user" => take' = NoTake /\ take = NoTake
  BY <1>1 DEF FullInv, Inv, InvOfApp
<1>8. WrittenInv'
  <2>1. OnceEach(writer.project) /\ Agrees(writer.project) /\ kept \subseteq writer.project.body.edits
        /\ \A t \in Takes : Known(writer.project, t) => Logged(t)
    BY <1>2 DEF Lasts
  <2>2. PICK p : p = writer.project
    OBVIOUS
  <2>3. Lasts(p)'
    <3>1. OnceEach(p)' /\ Agrees(p)'
      BY <1>5, <2>1, <2>2
    <3>2. kept' \subseteq p.body.edits
          /\ \A t \in Takes : Known(p, t) => Logged(t)'
      BY <1>1, <1>4, <1>5, <2>1, <2>2
    <3> QED
      BY <3>1, <3>2 DEF Lasts, Known
  <2>4. Lasts(Voucher.project)'
    <3>1. p = Voucher'.project
      BY <1>2, <1>4, <2>2
    <3> QED
      BY <2>3, <3>1
  <2> QED
    BY <1>1, <1>4, <2>4 DEF WrittenInv
<1>9. OpenInv'
  <2>1. /\ kept \cup writer.project.body.edits \subseteq project.body.edits /\ OnceEach(project)
        /\ \A t \in Takes :
             /\ Known(project, t) => Logged(t) \/ (InHand(t) /\ take.step = "stopped")
             /\ Logged(t) => Known(project, t) \/ (InHand(t) /\ take.step = "recording")
        /\ Agrees(project)
    BY <1>2, <1>3 DEF FullInv, LastsInv, OpenInv
  <2>2. OnceEach(project)'
    BY <1>1, <1>5, <2>1
  <2>3. \A t \in Takes :
          /\ Known(project, t) => Logged(t) \/ (InHand(t)' /\ take'.step = "stopped")
          /\ Logged(t) => Known(project, t) \/ (InHand(t)' /\ take'.step = "recording")
    BY <1>3, <1>6, <1>7, <2>1 DEF InHand
  <2>4. Agrees(project)'
    <3>1. PICK p : p = project
      OBVIOUS
    <3>2. Agrees(p)'
      BY <1>5, <2>1, <3>1
    <3> QED
      BY <1>1, <3>1, <3>2 DEF Agrees
  <2> QED
    BY <1>1, <1>5, <2>1, <2>2, <2>3, <2>4 DEF OpenInv, Known
<1>10. AttemptsInv'
  BY <1>1, <1>2, <1>4 DEF AttemptsInv, Behind, OneAhead, Leads
<1>11. TakeInv'
  <2>1. \A t \in Takes : Logged(t)' => t \in Range(order')
    BY <1>1, <1>5 DEF FullInv, LastsInv, TakeInv
  <2>2. CASE saving = "user"
    BY <1>7, <2>1, <2>2 DEF TakeInv
  <2>3. CASE saving = "take"
    <3>1. take.step = "prepare" <=> take.id \notin Range(order)
      BY <1>3, <2>3 DEF FullInv, LastsInv, TakeInv
    <3> QED
      BY <1>1, <1>3, <1>6, <2>1, <2>3, <3>1 DEF TakeInv
  <2> QED
    BY <1>3, <2>2, <2>3
<1>12. RefusedInv'
  BY <1>1, <1>3 DEF FullInv, LastsInv, RefusedInv
<1> QED
  BY <1>8, <1>9, <1>10, <1>11, <1>12 DEF LastsInv

LEMMA WriteLasts ==
  ASSUME FullInv, Write
  PROVE  LastsInv'
<1>1. P!WriteGoesOn
  BY SameWrite DEF Write
<1>2. CASE P!FlushPrimary
  BY <1>2, FlushLasts
<1>3. CASE P!KeepBackup \/ P!FlushBackup \/ P!Replace
  <2>1. writer.step \in {"backup", "flushBackup", "replace"}
    BY <1>3 DEF P!KeepBackup, P!FlushBackup, P!Replace, P!At
  <2>2. IsOpen
    BY <2>1 DEF FullInv, Inv, InvOfApp, P!Idle
  <2>3. \A step : P!Goes(step) => writer'.step = step
    BY <2>1, WriterIs DEF FullInv, P!Goes
  <2>4. writer'.step # "idle"
    BY <1>3, <2>3 DEF P!KeepBackup, P!FlushBackup, P!Replace
  <2> QED
    BY <1>3, <2>2, <2>4, WriterLasts DEF Write
<1> QED
  BY <1>1, <1>2, <1>3 DEF P!WriteGoesOn

LEMMA SaveFailsLasts ==
  ASSUME FullInv, SaveFails
  PROVE  LastsInv'
<1>1. /\ writer.step \in {"backup", "flushBackup", "replace"} /\ writer' = P!Idle
      /\ UNCHANGED <<primary, bak, attempts, journal, order, manifest, kept, refused, adrift>>
      /\ saving' = "nobody"
      /\ project' = IF saving = "take" THEN Unsaved(project) ELSE project
      /\ take' = IF saving = "take" THEN NoTake ELSE take
  BY SameFailure DEF SaveFails, P!WriteFails, NobodySaves, ghost
<1>2. /\ Voucher = primary /\ primary # P!Damaged /\ writer # P!Idle
      /\ writer'.step # "flushPrimary"
  BY <1>1, WriterIs DEF FullInv, P!Idle
<1>3. Voucher' = Voucher /\ TheRate' = TheRate
  BY <1>1, <1>2 DEF Voucher, TheRate
<1>4. /\ IsOpen /\ (saving = "user" \/ saving = "take")
      /\ saving = "take" => take # NoTake /\ take.step \in {"prepare", "saving"}
      /\ take # NoTake => take.id \in Takes
  BY <1>2 DEF FullInv, Inv, InvOfApp, TakesInHand
<1>5. /\ project'.rev = project.rev /\ project'.body.edits = project.body.edits
      /\ project'.body.removed = project.body.removed
      /\ project'.body.rate = project.body.rate
      /\ \A t \in Takes : /\ Known(project', t) <=> Known(project, t)
                          /\ project'.body.takes[t].clips = project.body.takes[t].clips
  BY <1>1, <1>4, UnsavedIs DEF FullInv
<1>6. /\ OnceEach(project)
      /\ \A t \in Takes :
           /\ Known(project, t) => Logged(t) \/ (InHand(t) /\ take.step = "stopped")
           /\ Logged(t) => Known(project, t) \/ (InHand(t) /\ take.step = "recording")
      /\ Agrees(project)
      /\ take # NoTake => Ahead = {}
      /\ \A a \in Ahead : Leads(project, a)
  BY <1>4 DEF FullInv, LastsInv, OpenInv, AttemptsInv, LeadsOn
<1>8. OnceEach(project') /\ Agrees(project')
  BY <1>5, <1>6 DEF OnceEach, Agrees
<1>9. \A t \in Takes :
        /\ Known(project', t) => Logged(t) \/ (InHand(t)' /\ take'.step = "stopped")
        /\ Logged(t) => Known(project', t) \/ (InHand(t)' /\ take'.step = "recording")
  BY <1>1, <1>4, <1>5, <1>6 DEF InHand
<1>10. \A a \in Ahead : Leads(project', a)
  <2>1. CASE saving = "take"
    BY <1>4, <1>6, <2>1
  <2>2. CASE saving = "user"
    BY <1>1, <1>6, <2>2
  <2> QED
    BY <1>4, <2>1, <2>2
<1>11. TakeInv'
  <2>1. \A t \in Takes : Logged(t)' => t \in Range(order')
    BY <1>1, <1>3 DEF FullInv, LastsInv, TakeInv, Logged
  <2>2. CASE saving = "take"
    BY <1>1, <2>1, <2>2 DEF TakeInv
  <2>3. CASE saving = "user"
    <3>1. take' = NoTake
      BY <1>1, <2>3 DEF FullInv, Inv, InvOfApp
    <3> QED
      BY <2>1, <3>1 DEF TakeInv
  <2> QED
    BY <1>4, <2>2, <2>3
<1>12. take' # NoTake => Ahead = {}
  BY <1>1, <1>4, <1>6
<1> QED
  BY <1>1, <1>2, <1>3, <1>4, <1>5, <1>6, <1>8, <1>9, <1>10, <1>11, <1>12, WriterMoves

-----------------------------------------------------------------------------
(* After a crash the project file is what vouched for it, or the new one   *)
(* that had not been flushed yet.                                          *)
LEMMA CrashIs ==
  ASSUME Inv, P!FilesCrash
  PROVE  /\ writer' = P!Idle
         /\ Voucher' = Voucher \/ (writer.step = "flushPrimary" /\ Voucher' = primary)
<1>1. PICK first \in P!After("primary", primary), second \in P!After("bak", bak) :
        P!CrashLeaves(first, second)
  BY DEF P!FilesCrash
<1>2. writer' = P!Idle /\ primary' = first /\ bak' = second /\ writer'.step # "flushPrimary"
  BY <1>1 DEF P!CrashLeaves, P!Idle
<1>3. CASE writer.step = "flushPrimary"
  <2>1. P!BackupVouches /\ Voucher = bak
    BY <1>3, VoucherIs
  <2>2. second = bak /\ first \in {bak, primary, P!Damaged}
    BY <2>1 DEF P!BackupVouches, P!After
  <2> QED
    BY <1>2, <1>3, <2>1, <2>2 DEF Voucher
<1>4. CASE writer.step # "flushPrimary"
  <2>1. CASE P!PrimaryVouches /\ Voucher = primary
    <3>1. first = primary /\ primary # P!Damaged
      BY <2>1 DEF P!PrimaryVouches, P!After, P!Valid, P!Damaged
    <3> QED
      BY <1>2, <2>1, <3>1 DEF Voucher
  <2>2. CASE P!OnlyTheBackup /\ Voucher = bak
    <3>1. first = P!Damaged /\ second = bak
      BY <2>2 DEF P!OnlyTheBackup, P!After
    <3> QED
      BY <1>2, <2>2, <3>1 DEF Voucher
  <2> QED
    BY <1>4, <2>1, <2>2, VoucherIs
<1> QED
  BY <1>2, <1>3, <1>4

LEMMA CrashLasts ==
  ASSUME FullInv, Crash
  PROVE  LastsInv'
<1>1. /\ IsOpen /\ ~ IsOpen' /\ take' = NoTake
      /\ UNCHANGED <<attempts, journal, order, manifest, kept, refused, adrift>>
      /\ P!FilesCrash
  BY SameCrash DEF Crash, IsOpen, ghost
<1>2. /\ writer' = P!Idle
      /\ Voucher' = Voucher \/ (writer.step = "flushPrimary" /\ Voucher' = primary)
  BY <1>1, CrashIs DEF FullInv
<1>3. /\ \A t \in Takes : Logged(t)' <=> Logged(t)
      /\ \A p : (OnceEach(p)' <=> OnceEach(p)) /\ (Agrees(p)' <=> Agrees(p))
  BY <1>1 DEF Logged, OnceEach, Agrees, Firm
<1>4. OpenInv' /\ RefusedInv' /\ writer'.step # "flushPrimary"
  BY <1>1, <1>2 DEF FullInv, LastsInv, OpenInv, RefusedInv, P!Idle
<1>5. CASE Voucher' = Voucher
  <2>1. Ahead' = Ahead /\ TheRate' = TheRate
    BY <1>1, <1>5 DEF Ahead, TheRate
  <2>2. \A p : Lasts(p) => Lasts(p)'
    BY <1>1, <1>3, <2>1 DEF Lasts
  <2>3. WrittenInv'
    BY <1>2, <1>5, <2>1, <2>2 DEF FullInv, LastsInv, WrittenInv
  <2>4. \A a \in Ahead : LeadsOn(a)'
    BY <1>1, <1>2, <1>3, <1>5 DEF FullInv, LastsInv, AttemptsInv, LeadsOn, Logged
  <2>5. AttemptsInv'
    BY <1>1, <1>4, <1>5, <2>1, <2>4 DEF FullInv, LastsInv, AttemptsInv, Behind, OneAhead
  <2>6. TakeInv'
    BY <1>1, <1>3, <2>1 DEF FullInv, LastsInv, TakeInv
  <2> QED
    BY <1>4, <2>3, <2>5, <2>6 DEF LastsInv
<1>6. CASE writer.step = "flushPrimary" /\ Voucher' = primary
  <2>1. /\ primary.project = writer.project
        /\ Lasts(writer.project)
        /\ \A a \in Range(attempts) : ~ (a.gen > primary.gen)
        /\ \A a \in Range(attempts) : a.gen = primary.gen => Leads(primary.project, a)
    BY <1>6, FlushedIs
  <2>2. Ahead' = {} /\ TheRate' = writer.project.body.rate
    BY <1>1, <1>6, <2>1 DEF Ahead, TheRate
  <2>3. WrittenInv'
    <3>1. OnceEach(writer.project) /\ Agrees(writer.project) /\ kept \subseteq writer.project.body.edits
          /\ \A t \in Takes : Known(writer.project, t) => Logged(t)
      BY <2>1 DEF Lasts
    <3>2. PICK p : p = writer.project
      OBVIOUS
    <3>3. Lasts(p)'
      BY <1>1, <1>3, <2>2, <3>1, <3>2 DEF Lasts
    <3>4. Lasts(Voucher.project)'
      <4>1. p = Voucher'.project
        BY <1>6, <2>1, <3>2
      <4> QED
        BY <3>3, <4>1
    <3> QED
      BY <1>2, <2>2, <3>4 DEF WrittenInv
  <2>4. AttemptsInv'
    BY <1>1, <1>4, <1>6, <2>1, <2>2 DEF AttemptsInv, Behind, OneAhead, Leads
  <2>5. TakeInv'
    BY <1>1, <1>3, <2>1, <2>2 DEF FullInv, LastsInv, TakeInv
  <2> QED
    BY <1>4, <2>3, <2>4, <2>5 DEF LastsInv
<1> QED
  BY <1>2, <1>5, <1>6

-----------------------------------------------------------------------------
(* A project that is opened again.                                         *)
LEMMA ScanLasts ==
  ASSUME FullInv, ~ IsOpen
  PROVE  LET s == FirstScan(Newest)  r == Scan(Newest)
         IN  /\ s \in Scans /\ r \in Scans /\ Recovers(s, r)
             /\ s.project = Newest.project /\ s.wrongRate = FALSE
             /\ \A t \in Range(order) : t \in r.completed \cup r.done
             /\ Ahead # {} => r = s
             /\ \A t \in Takes :
                  /\ Known(r.project, t) <=> Logged(t)
                  /\ t \in r.done => Known(r.project, t) \/ ~ Logged(t)
                  /\ t \in r.completed => r.project.body.takes[t].state = "complete" /\ t \in manifest
             /\ OnceEach(r.project)
             /\ r.project.body.edits = Voucher.project.body.edits
             /\ kept \subseteq r.project.body.edits
             /\ Agrees(r.project)
<1> DEFINE c == Newest
           s == FirstScan(c)
           r == Scan(c)
<1>1. /\ c.project \in P!Projects /\ BroughtBack(c) \subseteq Takes
      /\ Ahead = {} => c = Voucher
      /\ Ahead # {} => c \in Ahead
  <2>1. writer = P!Idle
    BY DEF FullInv, Inv, InvOfApp
  <2>2. attempts \in Listings
    BY OneListing DEF FullInv
  <2> QED
    BY <2>1, <2>2, ChoosesNewest DEF FullInv, LastsInv, AttemptsInv
<1>2. /\ s \in Scans /\ r \in Scans /\ Recovers(s, r)
      /\ \A t \in Range(order) : t \in r.completed \cup r.done
      /\ (\A t \in Range(order) : t \in s.completed \cup s.done) => r = s
  BY <1>1, ScanIs DEF FullInv
<1>3. /\ s.project = c.project /\ s.wrongRate = FALSE /\ s.completed = Completed(c.project)
      /\ s.done = BroughtBack(c) \cup StillConnected(c.project)
  BY DEF FirstScan
<1>4. /\ Lasts(c.project) /\ c.project.body.edits = Voucher.project.body.edits
      /\ Ahead # {} => LeadsOn(c) /\ IsRecovered(c)
      /\ Ahead = {} => ~ IsRecovered(c)
  <2>1. CASE Ahead = {}
    <3>1. c = Voucher /\ Voucher = [state |-> "valid", gen |-> Voucher.gen, project |-> Voucher.project]
      BY <1>1, <2>1, VoucherIs DEF FullInv
    <3>2. DOMAIN Voucher = {"state", "gen", "project"}
      BY <3>1, Zenon
    <3> HIDE DEF c
    <3> QED
      BY <2>1, <3>1, <3>2 DEF FullInv, LastsInv, WrittenInv, IsRecovered
  <2>2. CASE Ahead # {}
    <3>1. c \in Ahead /\ c \in Copies
      BY <1>1, <2>2, CopiesAre DEF Ahead, FullInv
    <3> HIDE DEF c
    <3> QED
      BY <2>2, <3>1 DEF FullInv, LastsInv, WrittenInv, AttemptsInv, LeadsOn, IsRecovered, Copies
  <2> QED
    BY <2>1, <2>2
<1> HIDE DEF c, s, r
<1>5. \A t \in StillConnected(c.project) : Known(c.project, t)
  BY DEF StillConnected
<1>6. \A t \in Completed(c.project) :
        t \in manifest /\ c.project.body.takes[t].state = "complete" /\ Known(c.project, t)
  BY DEF Completed, Known
<1>7. \A t \in s.done : Known(s.project, t) \/ ~ Logged(t)
  BY <1>3, <1>4, <1>5 DEF BroughtBack, LeadsOn
<1>8. ASSUME Ahead # {} PROVE r = s
  <2>1. \A t \in Range(order) : t \in c.done \/ (t \in manifest /\ c.project.body.takes[t].state = "complete")
    BY <1>4, <1>8 DEF LeadsOn
  <2>2. \A t \in Range(order) : t \in s.completed \cup s.done
    BY <1>3, <1>4, <1>8, <2>1 DEF BroughtBack, Completed
  <2> QED
    BY <1>2, <2>2
<1>9. /\ r.project.body.edits = c.project.body.edits /\ r.project.body.removed = c.project.body.removed
      /\ r.project.body.rate = c.project.body.rate /\ r.completed = Completed(c.project)
      /\ \A t \in Takes :
           /\ Known(c.project, t) => Known(r.project, t)
           /\ Known(r.project, t) => Known(c.project, t) \/ (t \in Range(order) /\ Logged(t))
           /\ t \in r.done => Known(r.project, t) \/ ~ Logged(t)
           /\ r.project.body.takes[t].clips =
                IF Known(c.project, t) \/ ~ Known(r.project, t) THEN c.project.body.takes[t].clips ELSE 1
           /\ t \in r.completed => r.project.body.takes[t] = c.project.body.takes[t]
  BY <1>2, <1>3, <1>7 DEF Recovers
<1>10. /\ kept \subseteq c.project.body.edits /\ OnceEach(c.project)
       /\ \A t \in Takes : Known(c.project, t) => Logged(t)
       /\ Agrees(c.project)
       /\ \A t \in Takes : Logged(t) => t \in Range(order)
  BY <1>4 DEF Lasts, FullInv, LastsInv, TakeInv
<1>11. \A t \in Takes : Known(r.project, t) <=> Logged(t)
  BY <1>2, <1>6, <1>9, <1>10
<1>12. OnceEach(r.project)
  BY <1>9, <1>10, <1>11 DEF OnceEach
<1>13. \A t \in Takes : t \in r.completed => r.project.body.takes[t].state = "complete" /\ t \in manifest
  BY <1>6, <1>9
<1>14. Agrees(r.project)
  BY <1>9, <1>10 DEF Agrees
<1> QED
  BY <1>2, <1>3, <1>4, <1>8, <1>9, <1>10, <1>11, <1>12, <1>13, <1>14 DEF c, s, r

(* A copy that is made leaves every other behind.                          *)
LEMMA NewGenLeads ==
  ASSUME FullInv, ~ IsOpen, Ahead = {}
  PROVE  NewGen = Voucher.gen + 1
<1>1. writer = P!Idle
  BY DEF FullInv, Inv, InvOfApp
<1>2. Voucher.gen \in Nat /\ P!Valid(Voucher)
  BY VoucherIs DEF FullInv
<1>3. \A f \in {primary, bak} : Disk!Valid(f) => f.gen \in Nat /\ f.gen <= Voucher.gen
  <2>1. \A f \in {primary, bak} : Disk!Valid(f) => P!Valid(f) /\ f.gen \in Nat
    BY P!Types DEF FullInv, Inv, P!IInv, P!Valid, Disk!Valid
  <2>2. writer.step # "flushPrimary"
    BY <1>1 DEF P!Idle
  <2>3. CASE P!PrimaryVouches /\ Voucher = primary
    BY <1>2, <2>1, <2>3 DEF P!PrimaryVouches, P!NotAhead
  <2>4. CASE P!OnlyTheBackup /\ Voucher = bak
    <3>1. ~ Disk!Valid(primary)
      BY <2>4 DEF P!OnlyTheBackup, P!Damaged, Disk!Valid
    <3> QED
      BY <1>2, <2>1, <2>4, <3>1
  <2> QED
    BY <2>2, <2>3, <2>4, VoucherIs DEF FullInv
<1>4. \A a \in Range(attempts) : a.gen \in Nat /\ a.gen <= Voucher.gen
  BY <1>2, CopiesAre DEF Ahead, FullInv
<1>5. Voucher \in {primary, bak} /\ Disk!Valid(Voucher)
  BY <1>2 DEF Voucher, P!Valid, Disk!Valid
<1>6. /\ NewGen \in Nat /\ Voucher.gen < NewGen
      /\ \E f \in {primary, bak} \cup Range(attempts) : Disk!Valid(f) /\ NewGen = f.gen + 1
  <2>1. /\ NewGen \in Nat
        /\ \A f \in {primary, bak} : Disk!Valid(f) => f.gen < NewGen
        /\ \E f \in {primary, bak} \cup Range(attempts) : Disk!Valid(f) /\ NewGen = f.gen + 1
    BY NewGenIs DEF FullInv
  <2> QED
    BY <1>5, <2>1
<1>7. PICK n \in Nat : n <= Voucher.gen /\ NewGen = n + 1
  BY <1>3, <1>4, <1>6
<1> QED
  BY <1>2, <1>6, <1>7

LEMMA AdoptIs ==
  ASSUME FullInv, ~ IsOpen, Adopt(Newest)
  PROVE  LET r == Scan(Newest)  n == NewAttempt(r)
         IN  /\ writer = P!Idle /\ writer' = P!Idle /\ take = NoTake /\ take' = NoTake
             /\ Voucher' = Voucher /\ TheRate' = TheRate
             /\ Ahead' = IF r.project # Newest.project THEN {n} ELSE Ahead
             /\ Range(attempts') =
                  IF r.project # Newest.project THEN Range(attempts) \cup {n} ELSE Range(attempts)
             /\ r.project # Newest.project =>
                  Ahead = {} /\ n.gen = Voucher.gen + 1 /\ Voucher.gen \in Nat
<1> DEFINE s == FirstScan(Newest)
           r == Scan(Newest)
           n == NewAttempt(r)
<1>1. r \in Scans /\ s.project = Newest.project /\ (Ahead # {} => r = s)
  BY ScanLasts
<1>2. /\ attempts' = IF r.project # Newest.project THEN Append(attempts, n) ELSE attempts
      /\ UNCHANGED <<files, take, saving>>
  BY DEF Adopt
<1> HIDE DEF s, r
<1>3. writer = P!Idle /\ writer' = P!Idle /\ take = NoTake /\ take' = NoTake
  BY <1>2 DEF FullInv, Inv, InvOfApp, files
<1>4. Voucher' = Voucher /\ TheRate' = TheRate
  BY <1>2 DEF Voucher, TheRate, files
<1>5. Voucher.gen \in Nat
  BY VoucherIs DEF FullInv
<1>6. CASE r.project = Newest.project
  <2>1. attempts' = attempts /\ Ahead' = Ahead
    BY <1>2, <1>4, <1>6 DEF Ahead
  <2> QED
    BY <1>3, <1>4, <1>6, <2>1 DEF r
<1>7. CASE r.project # Newest.project
  <2>1. Ahead = {}
    BY <1>1, <1>7
  <2>2. n \in Copies /\ n.gen = Voucher.gen + 1
    <3>1. n.gen = NewGen
      BY DEF NewAttempt, NewGen
    <3> QED
      BY <1>1, <2>1, <3>1, NewAttemptIs, NewGenLeads DEF FullInv
  <2> HIDE DEF n
  <2>3. Range(attempts') = Range(attempts) \cup {n}
    BY <1>2, <1>7, <2>2, AppendMembers DEF FullInv, StoreTyped
  <2>4. Ahead' = {n}
    BY <1>4, <1>5, <2>1, <2>2, <2>3 DEF Ahead
  <2> QED
    BY <1>3, <1>4, <1>5, <1>7, <2>1, <2>2, <2>3, <2>4 DEF r, n
<1> QED
  BY <1>6, <1>7

LEMMA AdoptLasts ==
  ASSUME FullInv, ~ IsOpen, ~ refused, Adopt(Newest)
  PROVE  LastsInv'
<1> DEFINE s == FirstScan(Newest)
           r == Scan(Newest)
           n == NewAttempt(r)
<1>1. /\ s \in Scans /\ r \in Scans /\ Recovers(s, r) /\ s.project = Newest.project
      /\ \A t \in Range(order) : t \in r.completed \cup r.done
      /\ Ahead # {} => r = s
      /\ \A t \in Takes :
           /\ Known(r.project, t) <=> Logged(t)
           /\ t \in r.done => Known(r.project, t) \/ ~ Logged(t)
           /\ t \in r.completed => r.project.body.takes[t].state = "complete" /\ t \in manifest
      /\ OnceEach(r.project)
      /\ r.project.body.edits = Voucher.project.body.edits
      /\ kept \subseteq r.project.body.edits
      /\ Agrees(r.project)
  BY ScanLasts
<1>2. /\ project' = r.project /\ kept' = kept \cup r.project.body.edits
      /\ attempts' = IF r.project # Newest.project THEN Append(attempts, n) ELSE attempts
      /\ UNCHANGED <<files, journal, order, torn, manifest, take, saving, made, refused, adrift>>
  BY DEF Adopt
<1> HIDE DEF s, r
<1>3. writer = P!Idle /\ writer' = P!Idle /\ take = NoTake /\ take' = NoTake /\ writer'.step # "flushPrimary"
  BY AdoptIs DEF P!Idle
<1>4. Voucher' = Voucher /\ TheRate' = TheRate /\ kept' = Voucher.project.body.edits
  BY <1>1, <1>2, AdoptIs
<1>5. /\ \A t \in Takes : Logged(t)' <=> Logged(t)
      /\ \A p : (OnceEach(p)' <=> OnceEach(p)) /\ (Agrees(p)' <=> Agrees(p))
  BY <1>2 DEF Logged, OnceEach, Agrees, Firm
<1>6. \A p : Lasts(p) /\ p.body.edits = Voucher.project.body.edits => Lasts(p)'
  BY <1>4, <1>5 DEF Lasts
<1>7. \A p : p = r.project => Lasts(p) /\ Lasts(p)'
  <2>1. Lasts(r.project)
    BY <1>1 DEF Lasts
  <2> QED
    BY <1>1, <1>6, <2>1
<1>8. OpenInv'
  <2>1. OnceEach(project)' /\ Agrees(project)'
    BY <1>1, <1>2, <1>5
  <2> QED
    BY <1>1, <1>2, <1>3, <1>4, <1>5, <2>1 DEF OpenInv, Known
<1>9. TakeInv' /\ RefusedInv'
  BY <1>2, <1>3, <1>4, <1>5 DEF FullInv, LastsInv, TakeInv, RefusedInv
<1>10. /\ Ahead' = IF r.project # Newest.project THEN {n} ELSE Ahead
       /\ Range(attempts') = IF r.project # Newest.project THEN Range(attempts) \cup {n} ELSE Range(attempts)
       /\ r.project # Newest.project => Ahead = {} /\ n.gen = Voucher.gen + 1 /\ Voucher.gen \in Nat
  BY AdoptIs DEF r
<1>11. \A a : a = n /\ r.project # Newest.project => LeadsOn(a)'
  <2> SUFFICES ASSUME NEW a, a = n, r.project # Newest.project
               PROVE  LeadsOn(a)'
    OBVIOUS
  <2>1. a.project = r.project /\ a.done = r.done /\ a.gen = Voucher.gen + 1
    BY <1>10 DEF NewAttempt
  <2> HIDE DEF n
  <2>2. Newest = Voucher /\ r.project.rev \in Nat /\ Voucher.project.rev \in Nat
    <3>1. r.project \in P!Projects
      BY <1>1 DEF Scans
    <3> QED
      BY <1>10, <3>1, Parts, VoucherIs DEF Newest, FullInv
  <2>3. Voucher.project.rev < a.project.rev
    BY <1>1, <2>1, <2>2 DEF Recovers
  <2>4. \A t \in Range(order) : t \in a.done \/ (t \in manifest /\ a.project.body.takes[t].state = "complete")
    BY <1>1, <2>1, CopiesAre DEF FullInv
  <2>5. \A t \in a.done : Known(a.project, t) \/ ~ Logged(t)
    <3>1. r.done \subseteq Takes
      BY <1>1 DEF Scans
    <3> QED
      BY <1>1, <2>1, <3>1
  <2>6. \A t \in a.done : Known(a.project, t) \/ ~ Logged(t)'
    <3>1. a.done \subseteq Takes
      BY <1>1, <2>1 DEF Scans
    <3> QED
      BY <1>5, <2>5, <3>1
  <2>7. Leads(project, a)'
    BY <1>2, <2>1, <2>2 DEF Leads
  <2> QED
    BY <1>1, <1>2, <1>3, <1>4, <2>1, <2>3, <2>4, <2>6, <2>7 DEF LeadsOn, Known
<1>12. \A a \in Ahead : Ahead' = Ahead => LeadsOn(a)' /\ Lasts(a.project)'
  <2> SUFFICES ASSUME NEW a \in Ahead, Ahead' = Ahead
               PROVE  LeadsOn(a)' /\ Lasts(a.project)'
    OBVIOUS
  <2>1. LeadsOn(a) /\ Lasts(a.project) /\ a = Newest /\ a \in Range(attempts)
    BY DEF FullInv, LastsInv, AttemptsInv, WrittenInv, OneAhead, Newest, Ahead
  <2>2. project' = a.project
    BY <1>1, <1>2, <2>1
  <2>3. Leads(project, a)'
    BY <2>1, <2>2, CopiesAre DEF Leads, FullInv
  <2>4. Lasts(a.project)'
    BY <1>6, <2>1 DEF LeadsOn
  <2>5. a.done \subseteq Takes
    BY <2>1, CopiesAre DEF FullInv
  <2> QED
    BY <1>2, <1>3, <1>4, <1>5, <2>1, <2>3, <2>4, <2>5 DEF LeadsOn, Known
<1>13. WrittenInv'
  <2>1. Lasts(Voucher.project)'
    BY <1>4, <1>6 DEF FullInv, LastsInv, WrittenInv
  <2>2. ASSUME NEW a \in Ahead' PROVE Lasts(a.project)'
    <3>1. CASE r.project = Newest.project
      BY <1>10, <1>12, <2>2, <3>1
    <3>2. CASE r.project # Newest.project
      <4>1. a.project = r.project
        BY <1>10, <2>2, <3>2 DEF NewAttempt
      <4> QED
        BY <1>7, <4>1
    <3> QED
      BY <3>1, <3>2
  <2> QED
    BY <1>3, <2>1, <2>2 DEF WrittenInv
<1>14. AttemptsInv'
  <2> HIDE DEF n
  <2>1. \A a \in Ahead' : LeadsOn(a)'
    BY <1>10, <1>11, <1>12
  <2>2. Behind'
    <3>1. Behind
      BY DEF FullInv, LastsInv, AttemptsInv
    <3>2. \A a \in Range(attempts') : a.gen = Voucher.gen => a \in Range(attempts)
      BY <1>10
    <3> QED
      BY <1>4, <3>1, <3>2 DEF Behind, Leads
  <2>3. OneAhead'
    BY <1>10 DEF FullInv, LastsInv, AttemptsInv, OneAhead
  <2> QED
    BY <1>3, <2>1, <2>2, <2>3 DEF AttemptsInv
<1> QED
  BY <1>8, <1>9, <1>13, <1>14 DEF LastsInv

LEMMA OpenLasts ==
  ASSUME FullInv, NEW l \in Listings, Open(l)
  PROVE  LastsInv'
<1>1. ~ IsOpen /\ ~ refused /\ writer = P!Idle
  BY DEF Open, FullInv, Inv, InvOfApp
<1>2. /\ Choose(l) = [file |-> Newest, conflict |-> FALSE] /\ Disk!Valid(Newest)
      /\ Newest.project \in P!Projects
      /\ Ahead = {} => Newest = Voucher
      /\ Ahead # {} => Newest \in Ahead
  BY <1>1, ChoosesNewest DEF FullInv, LastsInv, AttemptsInv
<1>3. CASE Openable(Choose(l))
  <2>1. Adopt(Newest)
    BY <1>2, <1>3 DEF Open
  <2> QED
    BY <1>1, <2>1, AdoptLasts
<1>4. CASE ~ Openable(Choose(l))
  <2>1. /\ refused' = TRUE
        /\ UNCHANGED <<files, attempts, journal, order, torn, manifest, project, take, saving, kept, adrift>>
    BY <1>4 DEF Open, disk, app
  <2>2. PICK t \in Range(order) : journal[t].rate # Newest.project.body.rate
    <3>1. ~ Scan(Newest).wrongRate \/ \E t \in Range(order) : journal[t].rate # Newest.project.body.rate
      BY <1>1, ScanLasts DEF Recovers
    <3>2. Scan(Newest).project \in Disk!Projects
      BY <1>1, ScanLasts, SameProjects DEF Scans
    <3>3. Scan(Newest).wrongRate
      BY <1>2, <1>4, <3>2 DEF Openable
    <3> QED
      BY <3>1, <3>3
  <2>3. LeftNothing(t) \/ t \in adrift
    <3>1. t \in Takes /\ Agrees(Newest.project)
      BY <1>2, CopiesAre DEF FullInv, LastsInv, WrittenInv, Lasts
    <3> QED
      BY <2>2, <3>1 DEF LeftNothing, Logged, Firm, Agrees
  <2>4. /\ Voucher' = Voucher /\ Ahead' = Ahead /\ Newest' = Newest /\ TheRate' = TheRate
        /\ Behind' /\ OneAhead' /\ writer' = writer /\ primary' = primary
    BY <2>1, DiskStays DEF FullInv, LastsInv, AttemptsInv, Newest
  <2>5. ~ IsOpen' /\ RefusedInv'
    BY <1>1, <2>1, <2>2, <2>3, <2>4 DEF RefusedInv, IsOpen, LeftNothing
  <2>6. /\ \A u \in Takes : Logged(u)' <=> Logged(u)
        /\ \A p : Agrees(p)' <=> Agrees(p)
        /\ \A p : Lasts(p) => Lasts(p)'
    BY <2>1, <2>4 DEF Logged, Agrees, Firm, Lasts, OnceEach
  <2>7. WrittenInv' /\ OpenInv' /\ TakeInv'
    <3>1. WrittenInv'
      BY <2>4, <2>6 DEF FullInv, LastsInv, WrittenInv
    <3>2. OpenInv'
      BY <2>5 DEF OpenInv
    <3>3. TakeInv'
      <4>1. take = NoTake /\ take' = NoTake
        BY <1>1, <2>1 DEF FullInv, Inv, InvOfApp
      <4> QED
        BY <2>1, <2>4, <2>6, <4>1 DEF FullInv, LastsInv, TakeInv
    <3> QED
      BY <3>1, <3>2, <3>3
  <2>8. AttemptsInv'
    <3>1. \A a \in Ahead : LeadsOn(a)'
      BY <2>1, <2>4, <2>5, <2>6 DEF FullInv, LastsInv, AttemptsInv, LeadsOn, Logged
    <3> QED
      BY <1>1, <2>1, <2>4, <3>1 DEF FullInv, LastsInv, AttemptsInv, P!Idle
  <2> QED
    BY <2>5, <2>7, <2>8 DEF LastsInv
<1> QED
  BY <1>3, <1>4

LEMMA StutterLasts ==
  ASSUME FullInv, UNCHANGED vars
  PROVE  LastsInv'
<1>1. UNCHANGED <<files, attempts, journal, order, torn, manifest, project, take, saving, kept, refused, adrift>>
  BY DEF vars, disk, app, ghost
<1>2. /\ Voucher' = Voucher /\ Ahead' = Ahead /\ Newest' = Newest /\ TheRate' = TheRate
      /\ Behind' /\ OneAhead' /\ writer' = writer /\ primary' = primary
  BY <1>1, DiskStays DEF FullInv, LastsInv, AttemptsInv, Newest
<1>3. /\ \A u \in Takes : Logged(u)' <=> Logged(u)
      /\ \A p : (OnceEach(p)' <=> OnceEach(p)) /\ (Agrees(p)' <=> Agrees(p))
  BY <1>1 DEF Logged, Agrees, Firm, OnceEach
<1>4. \A p : Lasts(p) => Lasts(p)'
  BY <1>1, <1>2, <1>3 DEF Lasts
<1>5. WrittenInv'
  BY <1>2, <1>4 DEF FullInv, LastsInv, WrittenInv
<1>6. OpenInv' /\ RefusedInv' /\ TakeInv'
  BY <1>1, <1>2, <1>3
     DEF FullInv, LastsInv, OpenInv, RefusedInv, TakeInv, InHand, OnceEach, Agrees, Firm, Logged, LeftNothing, IsOpen
<1>7. \A a \in Ahead : LeadsOn(a)'
  BY <1>1, <1>2, <1>3 DEF FullInv, LastsInv, AttemptsInv, LeadsOn, Logged, IsOpen
<1>8. AttemptsInv'
  BY <1>1, <1>2, <1>7 DEF FullInv, LastsInv, AttemptsInv
<1> QED
  BY <1>5, <1>6, <1>8 DEF LastsInv

LEMMA LastsOn ==
  ASSUME FullInv, SavesFirst = TRUE, [Next]_vars
  PROVE  LastsInv'
<1>1. CASE \E l \in Listings : Open(l)
  BY <1>1, OpenLasts
<1>2. CASE Edit \/ ImportAudio \/ \E t \in Takes : RemoveClips(t)
  BY <1>2, EditLasts, ImportLasts, RemoveClipsLasts
<1>3. CASE Save \/ Write \/ SaveFails
  BY <1>3, SaveLasts, WriteLasts, SaveFailsLasts
<1>4. CASE (\E t \in Takes, rate \in Rates : Prepare(t, rate)) \/ \E rate \in Rates : AdoptRate(rate)
  BY <1>4, PrepareLasts, AdoptRateLasts
<1>5. CASE TakeStep
  <2>1. CASE StartTake \/ CannotStart \/ StopTake \/ StopEmpty
    BY <2>1, StartTakeLasts, CannotStartLasts, StopTakeLasts, StopEmptyLasts
  <2>2. CASE MediaDurable \/ LogStopped \/ Drain
    BY <2>2, LogLasts
  <2>3. CASE (\E state \in {"complete", "partial"} : Finalize(state)) \/ SaveRefused \/ EndTake
    BY <2>3, FinalizeLasts, SaveRefusedLasts, EndTakeLasts
  <2> QED
    BY <1>5, <2>1, <2>2, <2>3 DEF TakeStep
<1>6. CASE Crash
  BY <1>6, CrashLasts
<1>7. CASE UNCHANGED vars
  BY <1>7, StutterLasts
<1> QED
  BY <1>1, <1>2, <1>3, <1>4, <1>5, <1>6, <1>7 DEF Next

LEMMA LastsHolds == SavesFirst = TRUE => (Spec => []LastsInv)
<1>1. Init => LastsInv
  BY LastsAtFirst
<1>2. SavesFirst = TRUE => (Inv /\ StoreTyped /\ LastsInv /\ [Next]_vars => LastsInv')
  BY LastsOn DEF FullInv
<1> SUFFICES ASSUME SavesFirst = TRUE PROVE Spec => []LastsInv
  OBVIOUS
<1>3. Inv /\ StoreTyped /\ LastsInv /\ [Next]_vars => LastsInv'
  BY <1>2
<1> QED
  BY <1>1, <1>3, InvHolds, StoreTypedHolds, PTL DEF Spec

(* Whenever the project is open again, after however many crashes, saves   *)
(* that failed and scans, it has every edit that was shown as saved - if   *)
(* the user saves a recovered project before recording into it.            *)
THEOREM EditsSurvive ==
  ASSUME SavesFirst = TRUE
  PROVE  Spec => []SavedEditsSurvive
<1>1. LastsInv => SavedEditsSurvive
  BY DEF LastsInv, OpenInv, SavedEditsSurvive
<1>2. Spec => []LastsInv
  BY LastsHolds
<1> QED
  BY <1>1, <1>2, PTL

(* And every take of which there is media on the disk, once on the         *)
(* timeline, unless the user has taken it off.                             *)
THEOREM TakesSurvive ==
  ASSUME SavesFirst = TRUE
  PROVE  Spec => []TakesSurviveOnce
<1>1. LastsInv => TakesSurviveOnce
  <2> SUFFICES ASSUME LastsInv, IsOpen, NEW t \in Takes
               PROVE  /\ journal[t].durable /\ ~ InHand(t) => Known(project, t)
                      /\ project.body.takes[t].clips =
                           IF Known(project, t) /\ t \notin project.body.removed THEN 1 ELSE 0
    BY DEF TakesSurviveOnce
  <2>1. journal[t].durable => Logged(t)
    BY DEF Logged
  <2> QED
    BY <2>1 DEF LastsInv, OpenInv, OnceEach
<1>2. Spec => []LastsInv
  BY LastsHolds
<1> QED
  BY <1>1, <1>2, PTL

(* Nothing keeps the project shut but a take that left no media, of another*)
(* rate than the one the project was given since, or one that began when   *)
(* the project had its rate in memory only.                                *)
THEOREM OpensAgain ==
  ASSUME SavesFirst = TRUE
  PROVE  Spec => []AlwaysOpens
<1>1. Inv /\ StoreTyped /\ LastsInv => AlwaysOpens
  <2> SUFFICES ASSUME Inv, StoreTyped, LastsInv, refused, NEW l \in Listings
               PROVE  /\ Disk!Valid(Choose(l).file)
                      /\ \E t \in Range(order) :
                           /\ LeftNothing(t) \/ t \in adrift
                           /\ journal[t].rate # Choose(l).file.project.body.rate
    BY DEF AlwaysOpens
  <2>1. ~ IsOpen
    BY DEF LastsInv, RefusedInv
  <2>2. writer = P!Idle
    BY <2>1 DEF Inv, InvOfApp
  <2>3. Choose(l).file = Newest /\ Disk!Valid(Newest)
    BY <2>2, ChoosesNewest DEF LastsInv, AttemptsInv
  <2> QED
    BY <2>3 DEF LastsInv, RefusedInv
<1>2. Spec => []LastsInv
  BY LastsHolds
<1> QED
  BY <1>1, <1>2, InvHolds, StoreTypedHolds, PTL

-----------------------------------------------------------------------------
(* A scan leaves nothing for the next one: the copy it made has all of the *)
(* journal, or the project file had it.                                    *)
Settled ==
  \A t \in Range(order) : t \in Completed(Voucher.project) \cup StillConnected(Voucher.project)
QuietInv == quiet => take = NoTake /\ writer = P!Idle /\ (Ahead = {} => Settled)

LEMMA NothingAnew ==
  ASSUME FullInv, QuietInv, ~ IsOpen, quiet
  PROVE  Scan(Newest).project = Newest.project
<1>1. Newest.project \in P!Projects /\ BroughtBack(Newest) \subseteq Takes
      /\ (Ahead = {} => Newest = Voucher)
  <2>1. writer = P!Idle /\ attempts \in Listings
    BY OneListing DEF QuietInv, FullInv
  <2> QED
    BY <2>1, ChoosesNewest DEF FullInv, LastsInv, AttemptsInv
<1>2. FirstScan(Newest).project = Newest.project
  BY DEF FirstScan
<1>3. CASE Ahead = {}
  <2>1. \A t \in Range(order) : t \in FirstScan(Newest).completed \cup FirstScan(Newest).done
    BY <1>1, <1>3 DEF QuietInv, Settled, FirstScan
  <2> QED
    BY <1>1, <1>2, <2>1, ScanIs DEF FullInv
<1>4. CASE Ahead # {}
  BY <1>2, <1>4, ScanLasts
<1> QED
  BY <1>3, <1>4

LEMMA SettledStays ==
  ASSUME QuietInv, Voucher' = Voucher, UNCHANGED <<attempts, order, manifest, quiet>>,
         take' = NoTake, writer' = P!Idle
  PROVE  QuietInv'
<1>1. Ahead' = Ahead
  BY DEF Ahead
<1>2. Settled => Settled'
  BY DEF Settled, Completed, StillConnected, Known
<1> QED
  BY <1>1, <1>2 DEF QuietInv

LEMMA AdoptSettles ==
  ASSUME FullInv, ~ IsOpen, Adopt(Newest)
  PROVE  QuietInv'
<1> DEFINE s == FirstScan(Newest)
           r == Scan(Newest)
<1>1. /\ take' = NoTake /\ writer' = P!Idle /\ Voucher' = Voucher
      /\ Ahead' = {} => r.project = Newest.project /\ Ahead = {}
  BY AdoptIs
<1>2. /\ s \in Scans /\ r \in Scans /\ Recovers(s, r) /\ s.project = Newest.project
      /\ \A t \in Range(order) : t \in r.completed \cup r.done
  BY ScanLasts
<1>3. /\ attempts' = IF r.project # Newest.project THEN Append(attempts, NewAttempt(r)) ELSE attempts
      /\ UNCHANGED <<order, manifest>>
  BY DEF Adopt
<1>4. ASSUME Ahead' = {} PROVE Settled'
  <2>1. r = s /\ Newest = Voucher /\ attempts' = attempts
    <3>1. r.project = s.project /\ Ahead = {}
      BY <1>1, <1>2, <1>4
    <3> QED
      BY <1>2, <1>3, <3>1 DEF Recovers, Newest
  <2>2. s.completed \cup s.done = Completed(Voucher.project) \cup StillConnected(Voucher.project)
    <3>1. Voucher = [state |-> "valid", gen |-> Voucher.gen, project |-> Voucher.project]
      BY VoucherIs DEF FullInv
    <3>2. DOMAIN Voucher = {"state", "gen", "project"}
      BY <3>1, Zenon
    <3>3. BroughtBack(Voucher) = {}
      BY <3>2 DEF BroughtBack, IsRecovered
    <3> QED
      BY <2>1, <3>3 DEF FirstScan
  <2>3. Settled
    BY <1>2, <2>1, <2>2 DEF Settled
  <2> QED
    BY <1>1, <1>3, <2>1, <2>3 DEF Settled, Completed, StillConnected, Known
<1> QED
  BY <1>1, <1>4 DEF QuietInv

LEMMA QuietOn ==
  ASSUME FullInv, QuietInv, [Next]_vars
  PROVE  QuietInv'
<1>1. ASSUME NEW l \in Listings, Open(l) PROVE QuietInv'
  <2>1. ~ IsOpen /\ writer = P!Idle /\ take = NoTake
    BY <1>1 DEF Open, FullInv, Inv, InvOfApp
  <2>2. Choose(l).file = Newest
    BY <2>1, ChoosesNewest DEF FullInv, LastsInv, AttemptsInv
  <2>3. CASE Openable(Choose(l))
    BY <1>1, <2>1, <2>2, <2>3, AdoptSettles DEF Open
  <2>4. CASE ~ Openable(Choose(l))
    <3>1. UNCHANGED <<files, attempts, order, manifest, take, quiet>>
      BY <1>1, <2>4 DEF Open, disk, app
    <3>2. Voucher' = Voucher /\ writer' = writer
      BY <3>1, DiskStays
    <3> QED
      BY <2>1, <3>1, <3>2, SettledStays
  <2> QED
    BY <2>3, <2>4
<1>2. CASE \/ Edit \/ ImportAudio \/ (\E t \in Takes : RemoveClips(t)) \/ Save
           \/ \E t \in Takes, rate \in Rates : Prepare(t, rate)
  BY <1>2 DEF Edit, ImportAudio, RemoveClips, Edits, Save, Prepare, QuietInv
<1>2a. ASSUME NEW rate \in Rates, AdoptRate(rate) PROVE QuietInv'
  <2>1. UNCHANGED <<files, attempts, order, manifest, take, quiet>> /\ take = NoTake
    BY <1>2a DEF AdoptRate, disk, ghost
  <2>2. Voucher' = Voucher /\ writer' = writer
    BY <2>1, DiskStays
  <2> QED
    BY <2>1, <2>2, SettledStays DEF QuietInv
<1>3. CASE Write \/ SaveFails
  <2>1. writer # P!Idle /\ UNCHANGED quiet
    BY <1>3, SameWrite, SameFailure
       DEF Write, SaveFails, ghost, P!WriteGoesOn, P!KeepBackup, P!FlushBackup, P!Replace, P!FlushPrimary,
           P!At, P!WriteFails, P!Idle
  <2> QED
    BY <2>1 DEF QuietInv
<1>4. CASE TakeStep
  <2>1. take # NoTake
    BY <1>4 DEF TakeStep, StartTake, CannotStart, MediaDurable, StopTake, StopEmpty, LogStopped, Drain,
                Finalize, SaveRefused, EndTake, TakeGoes, NoTake
  <2>2. UNCHANGED quiet
    BY <1>4 DEF TakeStep, StartTake, CannotStart, MediaDurable, StopTake, StopEmpty, LogStopped, Drain,
                Finalize, SaveRefused, EndTake, OnlyTake
  <2> QED
    BY <2>1, <2>2 DEF QuietInv
<1>5. CASE Crash
  <2>1. UNCHANGED <<attempts, order, manifest, quiet>> /\ take' = NoTake /\ P!FilesCrash
    BY <1>5, SameCrash DEF Crash, ghost
  <2>2. writer' = P!Idle /\ (Voucher' = Voucher \/ writer # P!Idle)
    BY <2>1, CrashIs DEF FullInv, P!Idle
  <2>3. CASE Voucher' = Voucher
    BY <2>1, <2>2, <2>3, SettledStays
  <2>4. CASE writer # P!Idle
    BY <2>1, <2>4 DEF QuietInv
  <2> QED
    BY <2>2, <2>3, <2>4
<1>6. CASE UNCHANGED vars
  <2>1. UNCHANGED <<files, attempts, order, manifest, take, quiet>>
    BY <1>6 DEF vars, disk, app, ghost
  <2>2. Voucher' = Voucher /\ writer' = writer
    BY <2>1, DiskStays
  <2> QED
    BY <2>1, <2>2, SettledStays DEF QuietInv
<1> QED
  BY <1>1, <1>2, <1>2a, <1>3, <1>4, <1>5, <1>6 DEF Next

LEMMA ScansOnce ==
  ASSUME FullInv, QuietInv, [Next]_vars, ~ IsOpen, quiet
  PROVE  attempts' = attempts
<1>1. ASSUME NEW l \in Listings, Open(l) PROVE attempts' = attempts
  <2>1. Choose(l).file = Newest
    BY ChoosesNewest DEF QuietInv, FullInv, LastsInv, AttemptsInv
  <2>2. CASE Openable(Choose(l))
    BY <1>1, <2>1, <2>2, NothingAnew DEF Open, Adopt
  <2>3. CASE ~ Openable(Choose(l))
    BY <1>1, <2>3 DEF Open, disk
  <2> QED
    BY <2>2, <2>3
<1>2. CASE Edit \/ ImportAudio \/ (\E t \in Takes : RemoveClips(t)) \/ \E rate \in Rates : AdoptRate(rate)
  BY <1>2 DEF Edit, ImportAudio, RemoveClips, Edits, AdoptRate, disk
<1>3. CASE Save \/ Write \/ SaveFails \/ Crash \/ \E t \in Takes, rate \in Rates : Prepare(t, rate)
  BY <1>3 DEF Save, Write, SaveFails, Crash, Prepare
<1>4. CASE TakeStep
  BY <1>4 DEF TakeStep, StartTake, CannotStart, MediaDurable, StopTake, StopEmpty, LogStopped, Drain,
              Finalize, SaveRefused, EndTake, OnlyTake
<1>5. CASE UNCHANGED vars
  BY <1>5 DEF vars, disk
<1> QED
  BY <1>1, <1>2, <1>3, <1>4, <1>5 DEF Next

(* Opening the project a second time, with nothing done in between, makes  *)
(* no further copy: what the first scan has recovered, or found in place,  *)
(* the second one finds.                                                   *)
THEOREM RecoversOnce ==
  ASSUME SavesFirst = TRUE
  PROVE  Spec => RecoveryIsIdempotent
<1>1. Init => QuietInv
  BY DEF Init, QuietInv
<1>2. Inv /\ StoreTyped /\ LastsInv /\ QuietInv /\ [Next]_vars => QuietInv'
  BY QuietOn DEF FullInv
<1>3. Inv /\ StoreTyped /\ LastsInv /\ QuietInv /\ [Next]_vars
        => [~ IsOpen /\ quiet => attempts' = attempts]_vars
  BY ScansOnce DEF FullInv
<1>4. Spec => []LastsInv
  BY LastsHolds
<1> QED
  BY <1>1, <1>2, <1>3, <1>4, InvHolds, StoreTypedHolds, PTL DEF Spec, RecoveryIsIdempotent
=============================================================================
