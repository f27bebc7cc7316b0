----------------------------- MODULE Checkpoints ----------------------------
(***************************************************************************)
(* The recorder's project file and its backup, and the one procedure that  *)
(* replaces them (recorder/src/model/RecorderSerializer.cpp,               *)
(* writeCheckpoint): the old file is copied to .bak and flushed before the *)
(* new one takes its place, and nothing newer is ever written over.        *)
(*                                                                         *)
(* One step is one replacement or one flush of a file.  A file is replaced *)
(* by renaming a verified copy, so a process that dies leaves the old or   *)
(* the new one; if the machine dies too, a file that was not flushed may   *)
(* be what it was, what it was to be, or neither.                          *)
(***************************************************************************)
EXTENDS Naturals, Sequences

CONSTANT Bodies      \* what a project may contain, apart from its revision

VARIABLES
  primary, bak,      \* project.recorder and project.recorder.bak
  flushed,           \* what of the two is on the disk for certain
  writer,            \* the writeCheckpoint() that is running
  confirmed          \* history: the revision its last success reported

files == <<primary, bak, flushed, writer, confirmed>>

Projects == [rev : Nat, body : Bodies]

(* A checkpoint that reads back: the generation counts the replacements.   *)
Checkpoint(g, p) == [state |-> "valid", gen |-> g, project |-> p]
NoFile  == [state |-> "none"]
Damaged == [state |-> "damaged"]
Valid(f) == f.state = "valid"
Files == {NoFile, Damaged} \cup [state : {"valid"}, gen : Nat, project : Projects]

FileNames == {"primary", "bak"}
Idle == [step |-> "idle"]
Steps == {"backup", "flushBackup", "replace", "flushPrimary"}
Writers == {Idle} \cup [step : Steps, gen : Nat, project : Projects, unchanged : BOOLEAN]

MaxOf(S) == CHOOSE m \in S : \A n \in S : n <= m
Gens(fs) == {f.gen : f \in {x \in fs : Valid(x)}}

FilesInit(first) ==
  /\ primary \in [state : {"valid"}, gen : {1}, project : first] /\ bak = NoFile
  /\ flushed = [primary |-> primary, bak |-> bak]
  /\ writer = Idle /\ confirmed = primary.project.rev

-----------------------------------------------------------------------------
(* writeCheckpoint: what it refuses.  A damaged original is never replaced,*)
(* nor is a newer revision, in either file.  The slip replaces the damaged.*)
ReplacesDamaged(p) ==
  \A f \in {primary, bak} : Valid(primary) /\ Valid(f) => f.project.rev <= p.rev
MayReplace(p) ==
  /\ primary # Damaged
  /\ \A f \in {primary, bak} : Valid(primary) /\ Valid(f) => f.project.rev <= p.rev

(* It starts: the generation is the newest it knows of.  A project that is *)
(* the one in the file already keeps the file, and only flushes it.        *)
Begin(p) ==
  /\ writer = Idle /\ MayReplace(p)
  /\ writer' = [step |-> IF Valid(primary) THEN "backup" ELSE "replace",
                gen |-> MaxOf({0} \cup IF Valid(primary) THEN Gens({primary, bak}) ELSE {}),
                project |-> p,
                unchanged |-> Valid(primary) /\ primary.project = p]
  /\ UNCHANGED <<primary, bak, flushed, confirmed>>

At(step) == writer.step = step
Goes(step) == writer' = [writer EXCEPT !.step = step]

(* The old file becomes the backup, and is flushed.  The slip is one flush *)
(* for both files at the end.                                              *)
NotFlushed == flushed
BackupFlushed == [flushed EXCEPT !.bak = bak]
KeepBackup ==
  /\ At("backup") /\ Goes("flushBackup")
  /\ bak' = primary
  /\ UNCHANGED <<primary, flushed, confirmed>>

FlushBackup ==
  /\ At("flushBackup") /\ Goes(IF writer.unchanged THEN "flushPrimary" ELSE "replace")
  /\ flushed' = BackupFlushed
  /\ UNCHANGED <<primary, bak, confirmed>>

Replace ==
  /\ At("replace") /\ Goes("flushPrimary")
  /\ primary' = Checkpoint(writer.gen + 1, writer.project)
  /\ UNCHANGED <<bak, flushed, confirmed>>

FlushPrimary ==
  /\ At("flushPrimary") /\ writer' = Idle
  /\ flushed' = [flushed EXCEPT !.primary = primary]
  /\ confirmed' = writer.project.rev
  /\ UNCHANGED <<primary, bak>>

(* A write fails before it touches its file.  (A flush of the new primary  *)
(* that fails, with the machine dying before the next one, is left out.)   *)
WriteFails ==
  /\ writer.step \in {"backup", "flushBackup", "replace"}
  /\ writer' = Idle
  /\ UNCHANGED <<primary, bak, flushed, confirmed>>

WriteGoesOn == KeepBackup \/ FlushBackup \/ Replace \/ FlushPrimary

(* The process dies, and the machine with it or not.                       *)
After(name, now) ==
  IF flushed[name] = now THEN {now} ELSE {flushed[name], now, Damaged}
CrashLeaves(first, second) ==
  /\ first \in After("primary", primary) /\ second \in After("bak", bak)
  /\ primary' = first /\ bak' = second
  /\ flushed' = [primary |-> first, bak |-> second]
  /\ writer' = Idle /\ UNCHANGED confirmed
FilesCrash ==
  \E first \in After("primary", primary), second \in After("bak", bak) :
    CrashLeaves(first, second)

-----------------------------------------------------------------------------
(* RecoveryScanner::run, choose: the higher generation wins, then the      *)
(* higher revision; the backup gives way in a tie, and two originals that  *)
(* tie must be the same.  The files come in the order the folder gives; the*)
(* slip lets the last of a generation win.                                 *)
LastOfGeneration(f, chosen) == ~Valid(chosen) \/ f.gen >= chosen.gen
Wins(f, chosen) ==
  \/ ~Valid(chosen)
  \/ f.gen > chosen.gen
  \/ f.gen = chosen.gen /\ f.project.rev > chosen.project.rev

Conflicts(f, chosen) ==
  /\ Valid(chosen) /\ f.gen = chosen.gen
  /\ f.project.rev = chosen.project.rev /\ f.project # chosen.project

Undecided == [file |-> NoFile, conflict |-> FALSE]
Consider(choice, f, isBackup) ==
  [file     |-> IF Valid(f) /\ Wins(f, choice.file) THEN f ELSE choice.file,
   conflict |-> choice.conflict \/ (Valid(f) /\ ~isBackup /\ Conflicts(f, choice.file))]

ChooseOfTwo(first, second) ==
  Consider(Consider(Undecided, first, FALSE), second, TRUE)

-----------------------------------------------------------------------------
(* The files on their own: any project may be asked to be written, a crash *)
(* comes at any step.                                                      *)
Starts == writer' \in Writers \ {Idle} /\ Begin(writer'.project)
Next == Starts \/ WriteGoesOn \/ WriteFails \/ FilesCrash
Spec == FilesInit(Projects) /\ [][Next]_files

-----------------------------------------------------------------------------
(* However a crash leaves the two files, what is chosen of them is no older*)
(* than the last save that was reported to have succeeded.                 *)
ConfirmedSurvives ==
  \A first \in After("primary", primary), second \in After("bak", bak) :
    LET chosen == ChooseOfTwo(first, second).file
    IN  Valid(chosen) /\ chosen.project.rev >= confirmed

(* A damaged original is kept as it is, for whoever may still read it, and *)
(* no step of a save takes the last readable file away.                    *)
NothingGoodIsLost ==
  [][/\ primary = Damaged => primary' = Damaged
     /\ (\E f \in {primary, bak} : Valid(f)) => \E f \in {primary', bak'} : Valid(f)]_files
=============================================================================
