-------------------------- MODULE CheckpointsProofs --------------------------
(***************************************************************************)
(* writeCheckpoint never loses what it has confirmed, whatever a project   *)
(* contains, however many there are and wherever the machine dies.         *)
(*                                                                         *)
(* The inductive invariant says which file vouches for the confirmed       *)
(* revision.  Until the new primary is in place it is the primary, which   *)
(* is on the disk for certain and leads whatever the backup may turn out   *)
(* to be; while the new primary is not flushed it is the backup; and after *)
(* a crash has damaged the primary it is the backup for good, as nothing is*)
(* written any more.                                                       *)
(***************************************************************************)
EXTENDS Checkpoints, TLAPS

Typed ==
  /\ {primary, bak, flushed.primary, flushed.bak} \subseteq Files
  /\ flushed = [primary |-> flushed.primary, bak |-> flushed.bak]
  /\ writer \in Writers
  /\ confirmed \in Nat

NotAhead(f, g) == Valid(f) => f.gen <= g.gen /\ f.project.rev <= g.project.rev

(* The new primary is in place and not yet flushed.                        *)
BackupVouches ==
  /\ Valid(bak) /\ flushed.bak = bak /\ flushed.primary = bak
  /\ Valid(primary) /\ primary.project = writer.project /\ NotAhead(bak, primary)
  /\ confirmed <= bak.project.rev

PrimaryVouches ==
  /\ Valid(primary) /\ flushed.primary = primary
  /\ confirmed <= primary.project.rev
  /\ NotAhead(bak, primary) /\ NotAhead(flushed.bak, primary)
  /\ writer # Idle => /\ primary.gen <= writer.gen
                      /\ primary.project.rev <= writer.project.rev
                      /\ writer.unchanged => primary.project = writer.project
  /\ writer.step \in {"flushBackup", "replace"} => bak = primary
  /\ writer.step = "replace" => flushed.bak = bak

OnlyTheBackup ==
  /\ primary = Damaged /\ flushed.primary = primary /\ writer = Idle
  /\ Valid(bak) /\ flushed.bak = bak /\ confirmed <= bak.project.rev

Vouched ==
  IF writer.step = "flushPrimary" THEN BackupVouches ELSE PrimaryVouches \/ OnlyTheBackup
IInv == Typed /\ Vouched

-----------------------------------------------------------------------------
(* The generation that a save starts from is at least those it knows.      *)
LEMMA MaxOfGens ==
  ASSUME NEW f \in Files, NEW g \in Files
  PROVE  LET m == MaxOf({0} \cup Gens({f, g}))
         IN  /\ m \in Nat
             /\ Valid(f) => f.gen <= m
             /\ Valid(g) => g.gen <= m
<1> DEFINE S == {0} \cup Gens({f, g})
           fg == IF Valid(f) THEN f.gen ELSE 0
           gg == IF Valid(g) THEN g.gen ELSE 0
<1>1. (Valid(f) => f.gen \in Nat) /\ (Valid(g) => g.gen \in Nat)
  BY DEF Files, Valid, NoFile, Damaged
<1>2. S = {0, fg, gg}
  BY DEF Gens
<1>3. fg \in Nat /\ gg \in Nat
  BY <1>1
<1>4. \E m \in S : \A n \in S : n <= m
  <2> HIDE DEF S, fg, gg
  <2>1. CASE fg <= gg
    BY <1>2, <1>3, <2>1
  <2>2. CASE ~(fg <= gg)
    BY <1>2, <1>3, <2>2
  <2> QED BY <2>1, <2>2
<1>5. MaxOf(S) \in S /\ \A n \in S : n <= MaxOf(S)
  BY <1>4 DEF MaxOf
<1> QED
  BY <1>2, <1>3, <1>5

(* What a file may be after a crash is a file.                             *)
LEMMA AfterIsAFile ==
  ASSUME Typed
  PROVE  /\ \A f \in After("primary", primary) :
              f \in Files /\ f \in {primary, flushed.primary, Damaged}
         /\ \A f \in After("bak", bak) : f \in Files /\ f \in {bak, flushed.bak, Damaged}
  BY DEF Typed, After, Files

(* While the invariant holds, what would be chosen is confirmed.           *)
LEMMA VouchedSurvives == IInv => ConfirmedSurvives
<1> SUFFICES ASSUME IInv,
                    NEW first \in After("primary", primary),
                    NEW second \in After("bak", bak)
             PROVE  LET chosen == ChooseOfTwo(first, second).file
                    IN  Valid(chosen) /\ chosen.project.rev >= confirmed
  BY DEF ConfirmedSurvives
<1> USE DEF IInv
<1>1. /\ first \in {primary, flushed.primary, Damaged}
      /\ second \in {bak, flushed.bak, Damaged}
      /\ first \in Files /\ second \in Files
  BY AfterIsAFile
<1>2. /\ ~Valid(Damaged) /\ ~Valid(NoFile)
      /\ \A f \in Files : Valid(f) => f.gen \in Nat /\ f.project.rev \in Nat
      /\ confirmed \in Nat
  BY DEF Valid, Damaged, NoFile, Files, Projects, Typed
<1> DEFINE one == IF Valid(first) THEN first ELSE NoFile
<1>3. ChooseOfTwo(first, second).file =
        IF Valid(second) /\ Wins(second, one) THEN second ELSE one
  BY <1>2 DEF ChooseOfTwo, Consider, Undecided, Wins
<1>4. CASE writer.step = "flushPrimary"
  <2>1. /\ Valid(bak) /\ second = bak /\ confirmed <= bak.project.rev
        /\ Valid(first) => confirmed <= first.project.rev
    BY <1>1, <1>2, <1>4 DEF Vouched, BackupVouches, NotAhead, After, Typed
  <2> QED BY <1>2, <1>3, <2>1, <1>1 DEF Wins
<1>5. CASE PrimaryVouches
  <2>1. /\ first = primary /\ Valid(first) /\ confirmed <= first.project.rev
        /\ NotAhead(second, first)
    BY <1>1, <1>2, <1>5 DEF PrimaryVouches, After, NotAhead
  <2> QED BY <1>2, <1>3, <2>1, <1>1 DEF Wins, NotAhead
<1>6. CASE OnlyTheBackup
  <2>1. ~Valid(first) /\ second = bak /\ Valid(bak) /\ confirmed <= bak.project.rev
    BY <1>1, <1>2, <1>6 DEF OnlyTheBackup, After
  <2> QED BY <1>2, <1>3, <2>1, <1>1 DEF Wins
<1> QED
  BY <1>4, <1>5, <1>6 DEF Vouched

-----------------------------------------------------------------------------
LEMMA InitVouched == FilesInit(Projects) => IInv
<1> SUFFICES ASSUME FilesInit(Projects) PROVE IInv
  OBVIOUS
<1>1. primary.project \in Projects /\ primary.project.rev \in Nat /\ Valid(primary)
  BY DEF FilesInit, Projects, Valid
<1>2. Typed
  BY <1>1 DEF FilesInit, Typed, Files, Projects, Writers, Idle
<1>3. PrimaryVouches /\ writer.step # "flushPrimary"
  BY <1>1 DEF FilesInit, PrimaryVouches, NotAhead, Idle, Valid, NoFile
<1> QED
  BY <1>2, <1>3 DEF IInv, Vouched

(* The parts of the state that the steps below need the types of.          *)
LEMMA Types ==
  ASSUME Typed
  PROVE  /\ \A f \in {primary, bak, flushed.primary, flushed.bak} :
              f \in Files /\ (Valid(f) => f.gen \in Nat /\ f.project \in Projects
                                        /\ f.project.rev \in Nat)
         /\ flushed.primary \in Files /\ flushed.bak \in Files
         /\ writer # Idle => /\ writer.step \in Steps /\ writer.gen \in Nat
                             /\ writer.project \in Projects /\ writer.project.rev \in Nat
                             /\ writer.unchanged \in BOOLEAN
                             /\ writer = [step |-> writer.step, gen |-> writer.gen,
                                         project |-> writer.project,
                                         unchanged |-> writer.unchanged]
         /\ confirmed \in Nat
  BY DEF Typed, Files, Valid, NoFile, Damaged, Projects, Writers, Idle

LEMMA StepVouched == IInv /\ [Next]_files => IInv'
<1> SUFFICES ASSUME IInv, [Next]_files PROVE IInv'
  OBVIOUS
<1> USE DEF IInv
<1>t. Typed /\ Vouched
  OBVIOUS
<1>0. ~Valid(Damaged) /\ ~Valid(NoFile) /\ Idle.step = "idle"
  BY DEF Valid, Damaged, NoFile, Idle
<1>1. ASSUME Starts PROVE IInv'
  <2>1. /\ writer = Idle /\ MayReplace(writer'.project) /\ writer' \in Writers
        /\ writer'.project \in Projects
        /\ UNCHANGED <<primary, bak, flushed, confirmed>>
    BY <1>1 DEF Starts, Begin, Writers
  <2>2. PrimaryVouches
    BY <2>1, <1>t, <1>0 DEF Vouched, OnlyTheBackup, MayReplace
  <2>3. /\ writer'.step = "backup"
        /\ writer'.gen = MaxOf({0} \cup Gens({primary, bak}))
        /\ writer'.unchanged = (primary.project = writer'.project)
    BY <1>1, <2>2, <1>t DEF Starts, Begin, PrimaryVouches
  <2>4. primary.gen <= writer'.gen
    BY <2>2, <2>3, <1>t, MaxOfGens DEF Typed, PrimaryVouches
  <2>5. primary.project.rev <= writer'.project.rev
    BY <2>1, <2>2 DEF MayReplace, PrimaryVouches
  <2>6. PrimaryVouches'
    BY <2>1, <2>2, <2>3, <2>4, <2>5 DEF PrimaryVouches, NotAhead, Valid
  <2> QED
    BY <2>1, <2>3, <2>6, <1>t DEF Typed, Vouched
<1>2. ASSUME KeepBackup PROVE IInv'
  <2>1. PrimaryVouches /\ writer # Idle
    BY <1>2, <1>t, <1>0 DEF Vouched, KeepBackup, At, OnlyTheBackup
  <2>2. /\ writer'.step = "flushBackup" /\ writer'.gen = writer.gen
        /\ writer'.project = writer.project /\ writer'.unchanged = writer.unchanged
        /\ writer' \in Writers /\ writer' # Idle
    BY <1>2, <2>1, <1>t, Types DEF KeepBackup, Goes, Writers, Steps, Idle
  <2>3. bak' = primary /\ UNCHANGED <<primary, flushed, confirmed>>
    BY <1>2 DEF KeepBackup
  <2>4. PrimaryVouches'
    BY <2>1, <2>2, <2>3, <1>t, Types DEF PrimaryVouches, NotAhead, Valid
  <2> QED
    BY <2>2, <2>3, <2>4, <1>t DEF Typed, Vouched
<1>3. ASSUME FlushBackup PROVE IInv'
  <2>1. PrimaryVouches /\ writer # Idle /\ bak = primary
    BY <1>3, <1>t, <1>0 DEF Vouched, FlushBackup, At, OnlyTheBackup, PrimaryVouches
  <2>2. /\ writer'.step = (IF writer.unchanged THEN "flushPrimary" ELSE "replace")
        /\ writer'.gen = writer.gen
        /\ writer'.project = writer.project /\ writer'.unchanged = writer.unchanged
        /\ writer' \in Writers /\ writer' # Idle
    BY <1>3, <2>1, <1>t, Types DEF FlushBackup, Goes, Writers, Steps, Idle
  <2>3. UNCHANGED <<primary, bak, confirmed>>
    BY <1>3 DEF FlushBackup
  <2>4. flushed' = [primary |-> flushed.primary, bak |-> bak]
    BY <1>3, <1>t DEF FlushBackup, BackupFlushed, Typed
  <2>5. Typed'
    BY <2>2, <2>3, <2>4, <1>t DEF Typed
  <2>6. CASE writer.unchanged
    <3>1. BackupVouches'
      BY <2>1, <2>2, <2>3, <2>4, <2>6, <1>t, Types
         DEF BackupVouches, PrimaryVouches, NotAhead, Valid
    <3> QED BY <2>2, <2>5, <2>6, <3>1 DEF Vouched
  <2>7. CASE ~writer.unchanged
    <3>1. PrimaryVouches'
      BY <2>1, <2>2, <2>3, <2>4, <2>7, <1>t, Types DEF PrimaryVouches, NotAhead, Valid
    <3> QED BY <2>2, <2>5, <2>7, <3>1 DEF Vouched
  <2> QED BY <2>6, <2>7
<1>4. ASSUME Replace PROVE IInv'
  <2>1. PrimaryVouches /\ writer # Idle /\ bak = primary /\ flushed.bak = bak
    BY <1>4, <1>t, <1>0 DEF Vouched, Replace, At, OnlyTheBackup, PrimaryVouches
  <2>2. /\ writer'.step = "flushPrimary" /\ writer'.project = writer.project
        /\ writer' \in Writers /\ writer' # Idle
    BY <1>4, <2>1, <1>t, Types DEF Replace, Goes, Writers, Steps, Idle
  <2>3. /\ primary' = [state |-> "valid", gen |-> writer.gen + 1, project |-> writer.project]
        /\ UNCHANGED <<bak, flushed, confirmed>>
    BY <1>4 DEF Replace, Checkpoint
  <2>4. primary' \in Files
    BY <2>1, <2>3, <1>t, Types DEF Files
  <2>5. BackupVouches'
    BY <2>1, <2>2, <2>3, <1>t, Types DEF BackupVouches, PrimaryVouches, NotAhead, Valid
  <2> QED
    BY <2>2, <2>3, <2>4, <2>5, <1>t DEF Typed, Vouched
<1>5. ASSUME FlushPrimary PROVE IInv'
  <2>1. BackupVouches /\ writer # Idle
    BY <1>5, <1>t, <1>0 DEF Vouched, FlushPrimary, At
  <2>2. /\ writer' = Idle /\ confirmed' = writer.project.rev
        /\ flushed' = [primary |-> primary, bak |-> flushed.bak]
        /\ UNCHANGED <<primary, bak>>
    BY <1>5, <1>t DEF FlushPrimary, Typed
  <2>3. Typed'
    BY <2>1, <2>2, <1>t, Types DEF Typed, Writers
  <2>4. PrimaryVouches'
    BY <2>1, <2>2, <1>0, <1>t, Types DEF PrimaryVouches, BackupVouches, NotAhead, Valid
  <2> QED BY <2>2, <2>3, <2>4, <1>0 DEF Vouched
<1>6. ASSUME WriteFails PROVE IInv'
  <2>1. PrimaryVouches
    BY <1>6, <1>t, <1>0 DEF Vouched, WriteFails, OnlyTheBackup
  <2>2. writer' = Idle /\ UNCHANGED <<primary, bak, flushed, confirmed>>
    BY <1>6 DEF WriteFails
  <2>3. PrimaryVouches' /\ Typed'
    BY <2>1, <2>2, <1>0, <1>t DEF PrimaryVouches, NotAhead, Valid, Typed, Writers
  <2> QED BY <2>2, <2>3, <1>0 DEF Vouched
<1>7. ASSUME FilesCrash PROVE IInv'
  <2> PICK first \in After("primary", primary), second \in After("bak", bak) :
        CrashLeaves(first, second)
    BY <1>7 DEF FilesCrash
  <2>1. /\ primary' = first /\ bak' = second
        /\ flushed' = [primary |-> first, bak |-> second]
        /\ writer' = Idle /\ confirmed' = confirmed
    BY DEF CrashLeaves
  <2>2. /\ first \in {primary, flushed.primary, Damaged}
        /\ second \in {bak, flushed.bak, Damaged}
        /\ first \in Files /\ second \in Files
    BY <1>t, AfterIsAFile
  <2>3. Typed'
    BY <2>1, <2>2, <1>t DEF Typed, Writers
  <2>4. PrimaryVouches' \/ OnlyTheBackup'
    <3>1. CASE writer.step = "flushPrimary"
      <4>1. BackupVouches /\ second = bak
        BY <3>1, <1>t DEF Vouched, BackupVouches, After
      <4>2. CASE first = Damaged
        BY <4>1, <4>2, <2>1 DEF OnlyTheBackup, BackupVouches, Valid
      <4>3. CASE first \in {primary, bak}
        BY <4>1, <4>3, <2>1, <1>0, <1>t, Types
           DEF PrimaryVouches, BackupVouches, NotAhead, Valid
      <4> QED BY <4>1, <4>2, <4>3, <2>2 DEF BackupVouches
    <3>2. CASE PrimaryVouches
      <4>1. first = primary
        BY <3>2 DEF PrimaryVouches, After
      <4> QED BY <4>1, <3>2, <2>1, <2>2, <1>0 DEF PrimaryVouches, NotAhead, Valid
    <3>3. CASE OnlyTheBackup
      <4>1. first = primary /\ second = bak
        BY <3>3 DEF OnlyTheBackup, After
      <4> QED BY <4>1, <3>3, <2>1 DEF OnlyTheBackup, Valid
    <3> QED BY <3>1, <3>2, <3>3, <1>t DEF Vouched
  <2> QED BY <2>1, <2>3, <2>4, <1>0 DEF Vouched
<1>8. ASSUME UNCHANGED files PROVE IInv'
  BY <1>8, <1>t DEF files, Typed, Vouched, BackupVouches, PrimaryVouches, OnlyTheBackup,
     NotAhead, Valid
<1> QED
  BY <1>1, <1>2, <1>3, <1>4, <1>5, <1>6, <1>7, <1>8 DEF Next, WriteGoesOn

(* Of the two files as a crash may leave them at any moment, the one that  *)
(* the recorder opens is no older than the last save that writeCheckpoint  *)
(* reported as done.                                                       *)
THEOREM Confirmed == Spec => []ConfirmedSurvives
<1>1. FilesInit(Projects) => IInv
  BY InitVouched
<1>2. IInv /\ [Next]_files => IInv'
  BY StepVouched
<1>3. IInv => ConfirmedSurvives
  BY VouchedSurvives
<1> QED
  BY <1>1, <1>2, <1>3, PTL DEF Spec

(* A damaged original is never overwritten, and a readable file is always  *)
(* left, whichever step of a save or a crash comes next.                   *)
Kept ==
  /\ primary = Damaged => primary' = Damaged
  /\ (\E f \in {primary, bak} : Valid(f)) => \E f \in {primary', bak'} : Valid(f)

LEMMA StepKeeps == IInv /\ [Next]_files => [Kept]_files
<1> SUFFICES ASSUME IInv, Next PROVE Kept
  BY DEF files
<1>t. Typed /\ Vouched /\ IInv'
  BY StepVouched DEF IInv
<1>1. Valid(primary') \/ Valid(bak')
  BY <1>t DEF IInv, Vouched, BackupVouches, PrimaryVouches, OnlyTheBackup
<1>2. ASSUME primary = Damaged PROVE primary' = Damaged
  <2>1. OnlyTheBackup /\ ~Valid(primary)
    BY <1>t, <1>2 DEF Vouched, BackupVouches, PrimaryVouches, Valid, Damaged
  <2>2. writer = Idle /\ Idle.step = "idle" /\ flushed.primary = primary
    BY <2>1 DEF OnlyTheBackup, Idle
  <2>3. ~Starts
    BY <1>2 DEF Starts, Begin, MayReplace
  <2>4. ~WriteGoesOn /\ ~WriteFails
    BY <2>2 DEF WriteGoesOn, KeepBackup, FlushBackup, Replace, FlushPrimary, WriteFails, At
  <2>5. FilesCrash => primary' = Damaged
    BY <1>2, <2>2 DEF FilesCrash, CrashLeaves, After
  <2> QED BY <2>3, <2>4, <2>5 DEF Next
<1> QED BY <1>1, <1>2 DEF Kept

THEOREM NothingLost == Spec => NothingGoodIsLost
<1>1. FilesInit(Projects) => IInv
  BY InitVouched
<1>2. IInv /\ [Next]_files => IInv'
  BY StepVouched
<1>3. IInv /\ [Next]_files => [Kept]_files
  BY StepKeeps
<1> QED
  BY <1>1, <1>2, <1>3, PTL DEF Spec, NothingGoodIsLost, Kept
=============================================================================
