---------------------------- MODULE RecorderStore ---------------------------
(***************************************************************************)
(* What the recorder keeps of a project on the disk, from session to       *)
(* session: the project file and its backup (Checkpoints), the take        *)
(* journal, the manifests of finished takes, and the recovered copies that *)
(* RecoveryScanner leaves under recovery/ whenever a project is opened     *)
(* whose last session did not end well.                                    *)
(*                                                                         *)
(*   MainComponent     opens (and always scans), edits, imports, saves     *)
(*   TakeController    records a take: prepare, start, stop, finalize, save*)
(*   audio session     appends to the take journal while it records        *)
(*   RecoveryScanner   chooses a checkpoint, brings broken takes back      *)
(*                                                                         *)
(* The process or the machine may die at any step.  An edit is known by its*)
(* number; a take by the state it is in, the version of its media files and*)
(* the clips it has on the timeline.                                       *)
(***************************************************************************)
EXTENDS Integers, SequencesExt, FiniteSetsExt

CONSTANTS
  Takes,         \* takes that may be recorded
  Rates,         \* sample rates of the audio devices
  SavesFirst,    \* TRUE: the user saves a recovered project before recording
                 \*   into it and before opening a device of another rate
  MaxEdits,      \* bound: edits of the user
  MaxGen,        \* bound: generations of the project file, but for a take's end
  MaxAttempts    \* bound: recovered copies

ASSUME StoreAssumption ==
  /\ {MaxEdits, MaxGen, MaxAttempts} \subseteq Nat
  /\ SavesFirst \in BOOLEAN /\ Rates # {}

VARIABLES
  primary, bak, flushed, writer, confirmed,     \* see Checkpoints
  attempts,      \* recovery/<n>: the copies that were committed
  journal,       \* journal/takes: what it says of each take
  order,         \*   and the takes in the order it names them
  torn,          \*   it ends in a record that was cut short
  manifest,      \* the takes whose take.json says that they are done
  project,       \* the document, or Closed
  take,          \* the take in hand, and where TakeController is with it
  saving,        \* who waits for the running writeCheckpoint()
  made,          \* history: edits made so far
  kept,          \* history: edits that were shown as saved
  refused,       \* history: the scan refused to open the project
  adrift,        \* history: takes that began when the disk had another rate
  quiet          \* history: nothing was done since the project was opened

(* A project.  A take keeps its registration when its clips are removed.   *)
TakeStates == {"absent", "finalising", "complete", "partial"}
NoMedia == 0
Placed == 1                        \* the files as the stop has placed them,
Final == 2                         \*   as they were finalized,
Recovered(n) == n + 2              \*   or the copies in recovery/<n>
Absent == [state |-> "absent", media |-> NoMedia, clips |-> 0]
Contents == [edits    : SUBSET (1 .. MaxEdits),
             removed  : SUBSET Takes,
             imported : BOOLEAN,
             rate     : Rates,
             takes    : [Takes -> [state : TakeStates, media : Nat, clips : Nat]]]

Disk == INSTANCE Checkpoints WITH Bodies <- Contents

files == <<primary, bak, flushed, writer, confirmed>>
disk  == <<files, attempts, journal, order, torn, manifest>>
app   == <<project, take, saving>>
ghost == <<made, kept, refused, adrift, quiet>>
vars  == <<disk, app, ghost>>

Closed == [rev |-> 0]
IsOpen == project # Closed
NoTake == [step |-> "none"]
InHand(t) == take # NoTake /\ take.id = t
Unstarted == [rate |-> CHOOSE r \in Rates : TRUE, durable |-> FALSE,
              stopped |-> FALSE, finalized |-> FALSE]
Known(p, t) == p.body.takes[t].state # "absent"
HasMedia(p) == p.body.imported \/ \E t \in Takes : Known(p, t)

(* createProject(): a new project is written before it is opened.          *)
NewProject(rate) ==
  [rev |-> 0, body |-> [edits |-> {}, removed |-> {}, imported |-> FALSE, rate |-> rate,
                        takes |-> [t \in Takes |-> Absent]]]
Init ==
  /\ Disk!FilesInit({NewProject(rate) : rate \in Rates})
  /\ attempts = <<>> /\ journal = [t \in Takes |-> Unstarted]
  /\ order = <<>> /\ torn = FALSE /\ manifest = {}
  /\ project = Closed /\ take = NoTake /\ saving = "nobody"
  /\ made = 0 /\ kept = {} /\ refused = FALSE /\ adrift = {} /\ quiet = FALSE

-----------------------------------------------------------------------------
(* RecoveryScanner::run.  A recovered copy is a checkpoint that names the  *)
(* takes it brought back; one that was not committed is passed over.       *)
ConsiderAttempt(choice, a) == Disk!Consider(choice, a, FALSE)
Choose(listing) == FoldLeft(ConsiderAttempt, Disk!ChooseOfTwo(primary, bak), listing)
Listings == {l \in [1 .. Len(attempts) -> Range(attempts)] : Range(l) = Range(attempts)}

(* The slip remembers nothing.                                             *)
IsRecovered(f) == "done" \in DOMAIN f
NothingBroughtBack(f) == {}
BroughtBack(f) == IF IsRecovered(f) THEN f.done ELSE {}

(* A chosen project file that was saved later still points to the media    *)
(* some copy recovered: those takes need nothing any more.                 *)
StillConnected(p) ==
  {t \in Takes : \E a \in Range(attempts) :
     t \in a.done /\ Known(p, t) /\ Known(a.project, t)
       /\ p.body.takes[t].media = a.project.body.takes[t].media}

(* Nor does a take the project knows to be complete.  The slip trusts the  *)
(* manifest.                                                               *)
HasManifest(p) == manifest
Completed(p) == {t \in manifest : p.body.takes[t].state = "complete"}

(* One take of the journal.  It must have the project's sample rate; one   *)
(* that left no media only raises the revision; a take the project knows   *)
(* keeps the clips it has, or has not, and another is placed.  The slip    *)
(* places them all.                                                        *)
PlacedAnew(p, t) == 1
ClipsOf(p, t) == IF Known(p, t) THEN p.body.takes[t].clips ELSE 1
RecoverTake(scan, t) ==
  LET p == scan.project  known == Known(p, t)  log == journal[t]
      whole == log.finalized /\ t \in manifest
      left == known \/ log.durable \/ log.stopped
      brought == [state |-> IF whole THEN "complete" ELSE "partial",
                  media |-> IF whole THEN Final ELSE Recovered(Len(attempts) + 1),
                  clips |-> ClipsOf(p, t)]
      body == IF left THEN [p.body EXCEPT !.takes[t] = brought] ELSE p.body
  IN  IF t \in scan.completed \cup scan.done THEN scan
      ELSE [scan EXCEPT !.project = [rev |-> p.rev + 1, body |-> body],
                        !.done = @ \cup {t},
                        !.wrongRate = @ \/ log.rate # p.body.rate]

Scan(chosen) ==
  FoldLeft(RecoverTake,
    [project |-> chosen.project, wrongRate |-> FALSE,
     completed |-> Completed(chosen.project),
     done |-> BroughtBack(chosen) \cup StillConnected(chosen.project)],
    order)

(* A new copy is newer than whatever was read.                             *)
NewAttempt(scan) ==
  [state |-> "valid", gen |-> Max(Disk!Gens({primary, bak} \cup Range(attempts))) + 1,
   project |-> scan.project, done |-> scan.done]

Adopt(chosen) ==
  LET scan == Scan(chosen)  changed == scan.project # chosen.project
  IN  /\ changed => Len(attempts) < MaxAttempts
      /\ project' = scan.project
      /\ attempts' = IF changed THEN Append(attempts, NewAttempt(scan)) ELSE attempts
      /\ kept' = kept \cup scan.project.body.edits
      /\ quiet' = TRUE
      /\ UNCHANGED <<files, journal, order, torn, manifest, take, saving, made, refused, adrift>>

(* openProject(): the document shows what was recovered as saved.  A scan  *)
(* that finds no checkpoint, two that contradict each other or a take of   *)
(* another rate, or that makes what is no project (validate()), refuses to *)
(* open it, and leaves it as it is.                                        *)
Openable(choice) ==
  /\ Disk!Valid(choice.file) /\ ~choice.conflict
  /\ LET scan == Scan(choice.file) IN ~scan.wrongRate /\ scan.project \in Disk!Projects

Open(listing) ==
  /\ ~IsOpen /\ ~refused
  /\ IF Openable(Choose(listing)) THEN Adopt(Choose(listing).file)
     ELSE refused' = TRUE /\ UNCHANGED <<disk, app, made, kept, adrift, quiet>>

-----------------------------------------------------------------------------
(* The user edits; a new edit, an undo too, is a new revision.             *)
Revised(body) == [rev |-> project.rev + 1, body |-> body]
Edits(body) ==
  /\ IsOpen /\ made < MaxEdits /\ take.step # "prepare"
  /\ made' = made + 1 /\ quiet' = FALSE
  /\ project' = Revised([body EXCEPT !.edits = @ \cup {made + 1}])
  /\ UNCHANGED <<disk, take, saving, kept, refused, adrift>>

Edit == IsOpen /\ Edits(project.body)
RemoveClips(t) ==
  /\ IsOpen /\ project.body.takes[t].clips > 0
  /\ take.step \notin {"prepare", "starting", "recording"}
  /\ Edits([project.body EXCEPT !.takes[t].clips = 0, !.removed = @ \cup {t}])

(* commitImportedAudio(): an edit that registers media, outside of a take  *)
(* and of a save; undoing it leaves the media registered.                  *)
ImportAudio ==
  /\ IsOpen /\ take = NoTake /\ saving = "nobody"
  /\ Edits([project.body EXCEPT !.imported = TRUE])

(* adoptDeviceSampleRate(): until there is media the project has the rate  *)
(* of the device, in memory only.                                          *)
NoCopyIsChosen == \A l \in Listings : ~IsRecovered(Choose(l).file)
AdoptRate(rate) ==
  /\ IsOpen /\ take = NoTake /\ ~HasMedia(project) /\ rate # project.body.rate
  /\ SavesFirst => saving = "nobody" /\ NoCopyIsChosen
  /\ project' = [project EXCEPT !.body.rate = rate]
  /\ UNCHANGED <<disk, take, saving, ghost>>

(* saveTo(): the file thread writes a snapshot while the user edits on.    *)
Save ==
  /\ IsOpen /\ take = NoTake /\ saving = "nobody"
  /\ Disk!Valid(primary) => primary.gen < MaxGen
  /\ Disk!Begin(project) /\ saving' = "user" /\ quiet' = FALSE
  /\ UNCHANGED <<attempts, journal, order, torn, manifest, project, take, made, kept, refused,
                 adrift>>

Write ==
  /\ Disk!WriteGoesOn
  /\ kept' = IF writer'.step = "idle" THEN kept \cup writer.project.body.edits ELSE kept
  /\ saving' = IF writer'.step = "idle" THEN "nobody" ELSE saving
  /\ take' = IF writer'.step # "idle" \/ saving = "user" THEN take
             ELSE [take EXCEPT !.step = IF @ = "prepare" THEN "starting" ELSE "saved"]
  /\ UNCHANGED <<attempts, journal, order, torn, manifest, project, made, refused, adrift, quiet>>

(* tick(): a take whose save failed is partial; nothing was recorded if the*)
(* save before the first take failed.  The slip leaves the save open.      *)
StillSaving == saving
NobodySaves == "nobody"
Unsaved(p) ==
  IF take # NoTake /\ take.step = "saving" /\ Known(p, take.id)
  THEN [p EXCEPT !.body.takes[take.id].state = "partial"] ELSE p
SaveFails ==
  /\ Disk!WriteFails
  /\ saving' = NobodySaves
  /\ project' = IF saving = "take" THEN Unsaved(project) ELSE project
  /\ take' = IF saving = "take" THEN NoTake ELSE take
  /\ UNCHANGED <<attempts, journal, order, torn, manifest, ghost>>

-----------------------------------------------------------------------------
(* TakeController::prepare(): a project without media gets the rate of the *)
(* device and is saved before the take starts; one with media must have the*)
(* rate, and is not.                                                       *)
Prepare(t, rate) ==
  /\ IsOpen /\ take = NoTake /\ saving = "nobody"
  /\ t \notin Range(order)
  /\ SavesFirst => NoCopyIsChosen
  /\ HasMedia(project) => rate = project.body.rate
  /\ project' = [project EXCEPT !.body.rate = rate]
  /\ \/ /\ HasMedia(project)
        /\ take' = [step |-> "starting", id |-> t] /\ UNCHANGED <<files, saving>>
     \/ /\ ~HasMedia(project) /\ Disk!Begin(project')
        /\ Disk!Valid(primary) => primary.gen < MaxGen
        /\ take' = [step |-> "prepare", id |-> t] /\ saving' = "take"
     \/ /\ ~HasMedia(project) /\ ~Disk!MayReplace(project')
        /\ UNCHANGED <<files, take, saving>>
  /\ quiet' = FALSE
  /\ UNCHANGED <<attempts, journal, order, torn, manifest, made, kept, refused, adrift>>

Logs(t, field) == journal' = [journal EXCEPT ![t][field] = TRUE]
TakeGoes(from, to) == take.step = from /\ take' = [take EXCEPT !.step = to]
OnlyTake == UNCHANGED <<files, attempts, saving, made, kept, refused, adrift, quiet>>

(* The audio session opens the journal, which refuses to append behind a   *)
(* record that was cut short, and names the take in it.                    *)
RatesOnDisk == {Choose(l).file.project.body.rate : l \in Listings}
StartTake ==
  /\ ~torn /\ TakeGoes("starting", "recording")
  /\ order' = Append(order, take.id)
  /\ journal' = [journal EXCEPT ![take.id].rate = project.body.rate]
  /\ adrift' = IF RatesOnDisk = {project.body.rate} THEN adrift ELSE adrift \cup {take.id}
  /\ UNCHANGED <<torn, manifest, project>>
  /\ UNCHANGED <<files, attempts, saving, made, kept, refused, quiet>>
CannotStart ==
  /\ torn /\ take.step = "starting" /\ take' = NoTake
  /\ UNCHANGED <<journal, order, torn, manifest, project>> /\ OnlyTake

(* WavTrackWriter: a second of audio is flushed, then the journal says so. *)
MediaDurable ==
  /\ take.step = "recording" /\ Logs(take.id, "durable")
  /\ UNCHANGED <<order, torn, manifest, project, take>> /\ OnlyTake

(* placeStopped(): a take of some length is placed before it is finished.  *)
StopTake ==
  /\ TakeGoes("recording", "stopped")
  /\ project' = Revised([project.body EXCEPT !.takes[take.id] =
                           [state |-> "finalising", media |-> Placed, clips |-> 1]])
  /\ UNCHANGED <<journal, order, torn, manifest>> /\ OnlyTake
StopEmpty ==
  /\ TakeGoes("recording", "empty") /\ ~journal[take.id].durable
  /\ UNCHANGED <<journal, order, torn, manifest, project>> /\ OnlyTake

(* finishCapture(): TakeStopped, with the length, then what is left of the *)
(* media is flushed.                                                       *)
LogStopped ==
  /\ TakeGoes("stopped", "draining") /\ Logs(take.id, "stopped")
  /\ UNCHANGED <<order, torn, manifest, project>> /\ OnlyTake
Drain ==
  /\ TakeGoes("draining", "finished") /\ Logs(take.id, "durable")
  /\ UNCHANGED <<order, torn, manifest, project>> /\ OnlyTake

(* tick(), finalizeAssets(): the registry gets the final media and state,  *)
(* whole or partial; the snapshot is saved behind the manifest.            *)
Finalize(state) ==
  /\ take.step \in {"finished", "empty"}
  /\ LET t == take.id
         final == [project.body.takes[t] EXCEPT !.state = state, !.media = Final]
     IN  /\ take.step = "empty" => state = "partial"
         /\ project' = IF take.step = "empty" THEN project
                       ELSE [project EXCEPT !.body.takes[t] = final]
         /\ manifest' = IF state = "complete" THEN manifest \cup {t} ELSE manifest
  /\ take' = [step |-> "saving", id |-> take.id, whole |-> state = "complete"]
  /\ IF Disk!MayReplace(project') THEN Disk!Begin(project') /\ saving' = "take"
     ELSE UNCHANGED <<files, saving>>
  /\ UNCHANGED <<attempts, journal, order, torn, made, kept, refused, adrift, quiet>>
SaveRefused ==
  /\ take.step = "saving" /\ saving = "nobody"
  /\ project' = Unsaved(project) /\ take' = NoTake
  /\ UNCHANGED <<journal, order, torn, manifest>> /\ OnlyTake

(* finishJournal(): TakeFinalized, for a whole take, behind the save.      *)
EndTake ==
  /\ take.step = "saved" /\ take' = NoTake
  /\ IF take.whole THEN Logs(take.id, "finalized") ELSE UNCHANGED journal
  /\ UNCHANGED <<order, torn, manifest, project>> /\ OnlyTake

(* The process or the machine dies; a record of the journal that was being *)
(* written is cut short.                                                   *)
Journalling == {"starting", "recording", "stopped", "empty", "draining", "saved"}
Crash ==
  /\ IsOpen /\ Disk!FilesCrash
  /\ project' = Closed /\ take' = NoTake /\ saving' = "nobody"
  /\ torn' \in {torn, torn \/ take.step \in Journalling}
  /\ UNCHANGED <<attempts, journal, order, manifest, ghost>>

TakeStep ==
  \/ StartTake \/ CannotStart \/ MediaDurable \/ StopTake \/ StopEmpty \/ LogStopped \/ Drain
  \/ (\E state \in {"complete", "partial"} : Finalize(state)) \/ SaveRefused \/ EndTake

Next ==
  \/ \E l \in Listings : Open(l)
  \/ Edit \/ (\E t \in Takes : RemoveClips(t))
  \/ ImportAudio \/ (\E rate \in Rates : AdoptRate(rate))
  \/ Save \/ Write \/ SaveFails
  \/ \E t \in Takes, rate \in Rates : Prepare(t, rate)
  \/ TakeStep \/ Crash

Spec == Init /\ [][Next]_vars

-----------------------------------------------------------------------------
TypeOK ==
  /\ {primary, bak} \subseteq Disk!Files /\ writer \in Disk!Writers
  /\ project = Closed \/ project \in Disk!Projects
  /\ \A a \in Range(attempts) : Disk!Valid(a) /\ a.project \in Disk!Projects /\ a.done \subseteq Takes
  /\ manifest \subseteq Takes /\ Range(order) \subseteq Takes
  /\ saving \in {"nobody", "user", "take"}
  /\ saving = "nobody" <=> writer = Disk!Idle

(* An edit that was shown as saved is in the project whenever it is open   *)
(* again.                                                                  *)
SavedEditsSurvive == IsOpen => kept \subseteq project.body.edits

(* A take that left media on the disk is known to every later project, and *)
(* no recovery puts it on the timeline twice or puts back what the user has*)
(* taken off.                                                              *)
TakesSurviveOnce ==
  IsOpen => \A t \in Takes :
    LET r == project.body.takes[t]
    IN  /\ journal[t].durable /\ ~ InHand(t) => Known(project, t)
        /\ r.clips = IF Known(project, t) /\ t \notin project.body.removed THEN 1 ELSE 0

(* The scan always finds a checkpoint it can open.  Two things keep the    *)
(* project shut: a take that left no media, of another sample rate than the*)
(* one the project was given since, and a take that began when the project *)
(* had its rate in memory only.                                            *)
LeftNothing(t) == ~journal[t].durable /\ ~journal[t].stopped
AlwaysOpens ==
  refused => \A l \in Listings :
    LET f == Choose(l).file
    IN  /\ Disk!Valid(f)
        /\ \E t \in Range(order) :
             /\ LeftNothing(t) \/ t \in adrift
             /\ journal[t].rate # f.project.body.rate

(* Opening a second time recovers nothing anew.                            *)
RecoveryIsIdempotent == [][~IsOpen /\ quiet => attempts' = attempts]_vars

(* See Checkpoints.                                                        *)
ConfirmedSurvives == Disk!ConfirmedSurvives
NothingGoodIsLost == Disk!NothingGoodIsLost
=============================================================================
