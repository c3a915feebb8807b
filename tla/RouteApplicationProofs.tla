------------------------ MODULE RouteApplicationProofs ------------------------
(***************************************************************************)
(* Theorems about RouteApplication for any set of versions: a refresh is   *)
(* atomic under every sequence of failing calls, kills and edits, and the  *)
(* leftovers of one never make the next recovery ambiguous.                *)
(***************************************************************************)
EXTENDS RouteApplication, TLAPS

(* Where recoverTransactionState runs, and what it has settled so far.       *)
Sweeping ==
  /\ step # "none" => at \in Recovering
  /\ at \in {"giveup", "undo"} => step # "none"
  /\ step = "pending" => garbage = 0
  /\ step = "drop" => garbage = 1 /\ pending = Absent
  /\ step = "restore" => /\ pending = Absent
                         /\ garbage = 0 \/ (output = Absent /\ (HasBackup \/ empty))
  /\ step = "sweep" => Undone
  /\ step = "done" => Undone /\ garbage = 0

(* What is on the disk at each stage of a transaction.                       *)
Staging ==
  /\ at \in Transacting => plan \in Version
  /\ at = "stage" => Undone /\ garbage = 0
  /\ at \in {"writing", "staged", "abandon"} => previous = Absent /\ ~empty /\ garbage = 0
  /\ at = "staged" => pending = plan
  /\ at = "abandonDrop" => Undone /\ garbage = 1
  /\ at \in {"backedUp", "replaced", "compiling"} => garbage = 0 /\ (HasBackup \/ empty)
  /\ at = "backedUp" => IF pending = Absent THEN output = plan
                        ELSE pending = plan /\ output = Absent
  /\ at \in {"replaced", "compiling"} => pending = Absent /\ output = plan
  /\ at = "sweeping" => Undone /\ garbage = 1

IInv == TypeOK /\ Unambiguous /\ Sweeping /\ Staging

Marks == [recovery : BOOLEAN, rollback : BOOLEAN, cleanup : BOOLEAN]

LEMMA Marking ==
  ASSUME TypeOK
  PROVE  /\ retained \in Marks /\ Nothing \in Marks /\ Unfinished \in Marks
         /\ [retained EXCEPT !.recovery = FALSE] \in Marks
         /\ [retained EXCEPT !.recovery = TRUE] \in Marks
         /\ [retained EXCEPT !.rollback = FALSE] \in Marks
         /\ [retained EXCEPT !.cleanup = FALSE] \in Marks
         /\ [retained EXCEPT !.cleanup = TRUE] \in Marks
BY Zenon DEF Marks, Nothing, Unfinished, TypeOK

LEMMA InitIInv == Init => IInv
<1> SUFFICES ASSUME Init PROVE IInv
  OBVIOUS
<1>1. empty \in BOOLEAN /\ calm \in BOOLEAN /\ retained \in Marks
  BY Zenon DEF Init, Nothing, Marks
<1> QED BY VersionAssumption, <1>1 DEF Init, IInv, TypeOK, Unambiguous, Sweeping, Staging,
   Transacting, Recovering, Undone, HasBackup, Marks

USE DEF Goes, Recovers, disk, memory, Transacting, Recovering, Undone, HasBackup

LEMMA RecoveryKeeps ==
  ASSUME IInv, Recovery
  PROVE  IInv'
<1> USE VersionAssumption
<1>1. CASE RecoveryStep
  <2>1. CASE Scan
    BY <1>1, <2>1 DEF RecoveryStep, Scan, IInv, TypeOK, Unambiguous, Sweeping, Staging
  <2>2. CASE DisplacePending
    BY <1>1, <2>2 DEF RecoveryStep, DisplacePending, IInv, TypeOK, Unambiguous, Sweeping, Staging
  <2>3. CASE Drop
    BY <1>1, <2>3 DEF RecoveryStep, Drop, IInv, TypeOK, Unambiguous, Sweeping, Staging
  <2>4. CASE DisplaceOutput
    BY <1>1, <2>4 DEF RecoveryStep, DisplaceOutput, IInv, TypeOK, Unambiguous, Sweeping, Staging
  <2>5. CASE Restore
    <3>1. empty' \in BOOLEAN
      BY <2>5, Zenon DEF Restore, IInv, TypeOK
    <3> QED BY <1>1, <2>5, <3>1
            DEF RecoveryStep, Restore, IInv, TypeOK, Unambiguous, Sweeping, Staging
  <2>6. CASE Sweep
    BY <1>1, <2>6 DEF RecoveryStep, Sweep, IInv, TypeOK, Unambiguous, Sweeping, Staging
  <2> QED BY <1>1, <2>1, <2>2, <2>3, <2>4, <2>5, <2>6 DEF RecoveryStep
<1>2. CASE RecoveryReturns
  <2>1. TypeOK'
    BY <1>2, ZenonT(60) DEF RecoveryReturns, Fresh, IInv, TypeOK
  <2> QED BY <1>2, <2>1 DEF RecoveryReturns, Fresh, IInv, Unambiguous, Sweeping, Staging
<1>3. CASE RecoveryThrows
  <2>1. retained' \in Marks
    BY <1>3, Marking, Zenon DEF RecoveryThrows, IInv
  <2>2. tries' \in 0..3
    BY <1>3 DEF RecoveryThrows, IInv, TypeOK
  <2>3. at' \in Recovering \cup {"idle"} /\ step' \in {"none", "scan"}
    BY <1>3 DEF RecoveryThrows
  <2>4. TypeOK'
    BY <1>3, <2>1, <2>2, <2>3 DEF RecoveryThrows, IInv, TypeOK, Marks
  <2> QED BY <1>3, <2>4 DEF RecoveryThrows, IInv, Unambiguous, Sweeping, Staging
<1> QED BY <1>1, <1>2, <1>3 DEF Recovery

LEMMA SettleKeeps ==
  ASSUME IInv, Start \/ Close \/ Settle
  PROVE  IInv'
<1> USE VersionAssumption
<1>1. CASE Start \/ Close
  BY <1>1 DEF Start, Close, IInv, TypeOK, Unambiguous, Sweeping, Staging
<1>2. CASE Settle
  <2>1. retained' \in Marks
    BY <1>2, Marking, Zenon DEF Settle, Cleanup, Analyzed, Leaves, IInv
  <2>2. TypeOK'
    BY <1>2, <2>1 DEF Settle, Cleanup, Analyzed, Leaves, IInv, TypeOK, Marks
  <2> QED BY <1>2, <2>2 DEF Settle, Cleanup, Analyzed, Leaves, IInv, TypeOK, Unambiguous, Sweeping, Staging
<1> QED BY <1>1, <1>2

LEMMA ApplicationKeeps ==
  ASSUME IInv, Application
  PROVE  IInv'
<1> USE VersionAssumption DEF IInv
<1>1. CASE Begin
  BY <1>1 DEF Begin, TypeOK, Unambiguous, Sweeping, Staging
<1>2. CASE Stage
  BY <1>2 DEF Stage, TypeOK, Unambiguous, Sweeping, Staging
<1>3. CASE Write
  BY <1>3 DEF Write, AfterFailedWrite, TypeOK, Unambiguous, Sweeping, Staging
<1>4. CASE Backup
  <2>a. retained' \in Marks
    BY <1>4, Marking, Zenon DEF Backup
  <2>b. empty' \in BOOLEAN
    BY <1>4, Zenon DEF Backup, TypeOK
  <2>1. TypeOK'
    BY <1>4, <2>a, <2>b DEF Backup, TypeOK, Staging, Marks
  <2>2. Unambiguous' /\ Sweeping'
    BY <1>4 DEF Backup, TypeOK, Unambiguous, Sweeping, Staging
  <2>3. Staging'
    BY <1>4 DEF Backup, TypeOK, Staging
  <2> QED BY <2>1, <2>2, <2>3
<1>5. CASE Stale \/ Abandon \/ AbandonDrop
  BY <1>5 DEF Stale, Abandon, AbandonDrop, TypeOK, Unambiguous, Sweeping, Staging
<1>6. CASE Replace
  BY <1>6 DEF Replace, RollsBack, TypeOK, Unambiguous, Sweeping, Staging
<1>7. CASE Replaced \/ Reject
  BY <1>7 DEF Replaced, Reject, RollsBack, TypeOK, Unambiguous, Sweeping, Staging
<1>8. CASE Commit
  <2>1. empty' \in BOOLEAN
    BY <1>8, Zenon DEF Commit
  <2> QED BY <1>8, <2>1 DEF Commit, TypeOK, Unambiguous, Sweeping, Staging
<1>9. CASE CommitSweeps
  <2>1. retained' \in Marks
    BY <1>9, Marking, Zenon DEF CommitSweeps
  <2> QED BY <1>9, <2>1 DEF CommitSweeps, TypeOK, Unambiguous, Sweeping, Staging, Marks
<1>10. CASE Compile
  BY <1>10 DEF Compile, TypeOK, Unambiguous, Sweeping, Staging
<1> QED BY <1>1, <1>2, <1>3, <1>4, <1>5, <1>6, <1>7, <1>8, <1>9, <1>10 DEF Application, Moves

LEMMA NextIInv == IInv /\ [Next]_vars => IInv'
<1> SUFFICES ASSUME IInv, [Next]_vars PROVE IInv'
  OBVIOUS
<1>1. CASE Crash
  BY <1>1 DEF Crash, Leaves, Nothing, IInv, TypeOK, Unambiguous, Sweeping, Staging
<1>2. CASE Edit \/ CalmsDown
  <2>1. calm' \in BOOLEAN
    BY <1>2, Zenon DEF Edit, CalmsDown, IInv, TypeOK
  <2> QED BY <1>2, <2>1 DEF Edit, CalmsDown, IInv, TypeOK, Unambiguous, Sweeping, Staging
<1>3. CASE UNCHANGED vars
  BY <1>3 DEF vars, IInv, TypeOK, Unambiguous, Sweeping, Staging
<1> QED BY <1>1, <1>2, <1>3, RecoveryKeeps, SettleKeeps, ApplicationKeeps DEF Next, Refresh

(* Every variable stays in its type: in particular output and its backup are *)
(* whole versions, never a directory partly written.                         *)
THEOREM TypeCorrect == Spec => []TypeOK
<1>1. IInv => TypeOK
  BY DEF IInv
<1> QED BY <1>1, InitIInv, NextIInv, PTL DEF Spec

(* recoverTransactionState never meets two garbage directories, or a backup  *)
(* and an empty marker: it can always decide what to bring back.             *)
THEOREM NeverAmbiguous == Spec => []Unambiguous
<1>1. IInv => Unambiguous
  BY DEF IInv
<1> QED BY <1>1, InitIInv, NextIInv, PTL DEF Spec

(* Until a transaction takes over, the recovery is retained.                 *)
Retaining ==
  /\ at \in {"stage", "writing", "staged", "abandon", "abandonDrop", "giveup"} => retained.recovery
  /\ at = "begin" => step = "none" \/ retained.recovery

LEMMA NextRetaining == IInv /\ Retaining /\ [Next]_vars => Retaining'
<1> SUFFICES ASSUME IInv, Retaining, [Next]_vars PROVE Retaining'
  OBVIOUS
<1>1. retained \in Marks
  BY Marking DEF IInv
<1>2. CASE Begin
  BY <1>1, <1>2, Zenon DEF Begin, Retaining, Marks
<1>3. CASE Recovery
  <2>1. (at \in {"begin", "giveup"} /\ at' # "idle") => retained' = retained
    BY <1>3 DEF Recovery, RecoveryStep, RecoveryReturns, RecoveryThrows
  <2>2. at' \in {"begin", "stage", "giveup"} => at \in {"begin", "giveup"}
    BY <1>3 DEF Recovery, RecoveryStep, RecoveryReturns, RecoveryThrows
  <2>3. at' \notin {"writing", "staged", "abandon", "abandonDrop"}
    BY <1>3 DEF Recovery, RecoveryStep, RecoveryReturns, RecoveryThrows
  <2>4. step # "none"
    BY <1>3 DEF Recovery, RecoveryStep, Scan, DisplacePending, Drop, DisplaceOutput, Restore,
       Sweep, RecoveryReturns, RecoveryThrows
  <2> QED BY <2>1, <2>2, <2>3, <2>4 DEF Retaining
<1>4. CASE Settle
  <2>1. at' = "begin" => step' = "none"
    BY <1>4 DEF Settle, Cleanup, Analyzed, Leaves
  <2>2. at' \notin {"stage", "writing", "staged", "abandon", "abandonDrop", "giveup"}
    BY <1>4 DEF Settle, Cleanup, Analyzed, Leaves
  <2> QED BY <2>1, <2>2 DEF Retaining
<1>5. CASE Start \/ Close \/ Crash \/ Edit \/ CalmsDown \/ UNCHANGED vars
  BY <1>5 DEF Start, Close, Crash, Leaves, Edit, CalmsDown, vars, Retaining
<1>6. CASE \/ Stage \/ Write \/ Backup \/ Stale \/ Abandon \/ AbandonDrop
           \/ Replace \/ Replaced \/ Compile \/ Reject \/ Commit \/ CommitSweeps
  BY <1>6 DEF Stage, Write, AfterFailedWrite, Backup, Stale, Abandon, AbandonDrop, Replace,
     Replaced, Compile, Reject, Commit, CommitSweeps, RollsBack, Retaining
<1> QED BY <1>2, <1>3, <1>4, <1>5, <1>6 DEF Next, Refresh, Application, Moves

(* When a refresh ends, what it could not undo or clean up is retained.      *)
LEMMA EndsRetained ==
  ASSUME IInv, Retaining, [Next]_vars,
         at' = "idle", at \in {"giveup", "undo", "sweeping"}
  PROVE  /\ Undone' \/ retained'.recovery \/ retained'.rollback
         /\ garbage' = 0 \/ retained' # Nothing
<1>1. \/ RecoveryReturns \/ RecoveryThrows \/ CommitSweeps
  BY DEF Next, Refresh, Application, Moves, Recovery, RecoveryStep, Start, Settle, Begin, Stage, Write,
     Backup, Stale, Abandon, AbandonDrop, Replace, Replaced, Compile, Reject, Commit, Close, Crash, Leaves,
     Edit, CalmsDown, vars
<1>2. retained \in Marks
  BY Marking DEF IInv
<1>3. CASE RecoveryReturns
  BY <1>3 DEF RecoveryReturns, IInv, Sweeping
<1>4. CASE RecoveryThrows
  <2>1. retained'.recovery \/ retained'.rollback
    <3>1. retained' = Unfinished \/ (at = "giveup" /\ retained' = retained)
      BY <1>4 DEF RecoveryThrows
    <3>2. Unfinished.rollback
      BY <1>2, Zenon DEF Unfinished, Marks
    <3>3. at = "giveup" => retained.recovery
      BY DEF Retaining
    <3> QED BY <3>1, <3>2, <3>3, Zenon
  <2>2. ~Nothing.recovery /\ ~Nothing.rollback
    BY Zenon DEF Nothing
  <2>3. retained' # Nothing
    BY <2>1, <2>2, Zenon
  <2> QED BY <2>1, <2>3
<1>5. CASE CommitSweeps
  <2>1. Undone'
    BY <1>5 DEF CommitSweeps, IInv, Staging
  <2>2. garbage' = 0 \/ retained' = [retained EXCEPT !.cleanup = TRUE]
    BY <1>5 DEF CommitSweeps, IInv, Staging
  <2>3. [retained EXCEPT !.cleanup = TRUE] # Nothing
    BY <1>2, Zenon DEF Nothing, Marks
  <2> QED BY <2>1, <2>2, <2>3
<1> QED BY <1>1, <1>3, <1>4, <1>5

(* No sequence of failures makes a recovery refuse the disk, and a refresh   *)
(* never ends with leftovers that the analyzer has forgotten.                *)
THEOREM LeftoversRetained == Spec => NothingForgotten
<1>1. Init => Retaining
  BY DEF Init, Retaining
<1>2. IInv => TypeOK /\ Unambiguous
  BY DEF IInv
<1> QED BY <1>1, <1>2, InitIInv, NextIInv, NextRetaining, EndsRetained, PTL DEF Spec, NothingForgotten

(* What survives changes only when commit() renames the backup away.         *)
LEMMA RecoverySurvives ==
  ASSUME IInv, Recovery \/ Start \/ Close \/ Crash \/ Edit \/ CalmsDown
  PROVE  Survivor' = Survivor
BY VersionAssumption
   DEF Recovery, RecoveryStep, Scan, DisplacePending, Drop, DisplaceOutput, Restore, Sweep,
       RecoveryReturns, RecoveryThrows, Start, Close, Crash, Edit, CalmsDown,
       Survivor, IInv, Unambiguous, Sweeping, TypeOK

LEMMA ApplicationSurvives ==
  ASSUME IInv, Settle \/ (Application /\ ~Commit)
  PROVE  Survivor' = Survivor
<1> USE VersionAssumption
<1>1. CASE Settle
  BY <1>1 DEF Settle, Cleanup, Analyzed, Leaves, Survivor
<1>2. CASE Backup
  BY <1>2 DEF Backup, Survivor, IInv, Staging, TypeOK
<1>3. CASE Replace
  BY <1>3 DEF Replace, Survivor, IInv, Staging
<1>4. CASE \/ Begin \/ Stage \/ Write \/ Stale \/ Abandon \/ AbandonDrop
           \/ Replaced \/ Compile \/ Reject \/ CommitSweeps
  BY <1>4 DEF Begin, Stage, Write, Stale, Abandon, AbandonDrop, Replaced, Compile, Reject,
              CommitSweeps, Survivor
<1> QED BY <1>1, <1>2, <1>3, <1>4 DEF Application, Moves

LEMMA StepRefines == IInv /\ [Next]_vars => [Durable!Next]_<<Survivor, Asked>>
<1> SUFFICES ASSUME IInv, Next PROVE [Durable!Next]_<<Survivor, Asked>>
  BY DEF vars, Survivor, Asked
<1> USE VersionAssumption
<1>1. CASE Commit
  <2>1. Survivor' = plan /\ Asked = plan /\ Asked' = Absent /\ plan # Absent
    BY <1>1 DEF Commit, Survivor, Asked, IInv, Staging
  <2> QED BY <2>1 DEF Durable!Next, Durable!Succeed
<1>2. CASE ~Commit
  <2>1. Survivor' = Survivor
    BY <1>2, RecoverySurvives, ApplicationSurvives DEF Next, Refresh
  <2>2. Asked' = Asked \/ Asked' = Absent \/ (Asked = Absent /\ Asked' \in Version)
    <3>1. CASE Settle
      BY <3>1 DEF Settle, Cleanup, Analyzed, Leaves, Asked, IInv, TypeOK
    <3>2. CASE Recovery
      BY <3>2 DEF Recovery, RecoveryStep, RecoveryReturns, RecoveryThrows, Asked
    <3>3. CASE Start \/ Close \/ Crash \/ Edit \/ CalmsDown
      BY <3>3 DEF Start, Close, Crash, Leaves, Edit, CalmsDown, Asked
    <3>4. CASE Application
      BY <3>4, <1>2 DEF Application, Moves, Begin, Stage, Write, AfterFailedWrite, Backup, Stale, Abandon,
         AbandonDrop, Replace, Replaced, Compile, Reject, CommitSweeps, RollsBack, Asked
    <3> QED BY <3>1, <3>2, <3>3, <3>4 DEF Next, Refresh
  <2> QED BY <2>1, <2>2 DEF Durable!Next, Durable!Ask, Durable!Fail
<1> QED BY <1>1, <1>2

(* refresh() makes its plan durable or leaves the durable routes as they     *)
(* were, whatever fails, whenever the process is killed.                     *)
THEOREM RefreshImplementsDurable == Spec => RefreshIsAtomic
<1>1. Init => Durable!Init
  BY DEF Init, Durable!Init, Survivor, Asked
<1> QED BY <1>1, InitIInv, NextIInv, StepRefines, PTL DEF Spec, RefreshIsAtomic, Durable!Spec

-----------------------------------------------------------------------------
(* What a validation has recorded, in the order it did: the identities of a  *)
(* file only grow, so a later record that equals an earlier one pins down    *)
(* everything in between.                                                    *)
Phases == Running \cup {"none", "validated", "current", "failed"}
Identities == [File -> Nat]
Spawning == {"judging", "inputs", "again", "validated", "recheck", "recheckInputs", "current"}
Accepted == {"validated", "recheck", "recheckInputs", "current"}
Asserting == {"recheck", "recheckInputs", "current"}

Recorded ==
  /\ phase \in Phases /\ done \in SUBSET File
  /\ tree \in Identities /\ got \in Identities /\ inventory \in Identities /\ inputs \in Identities
  /\ judged \in Identities /\ moment \in Identities /\ last \in Identities
Before ==
  /\ \A f \in done : got[f] <= tree[f]
  /\ phase \in {"discovery", "baseline"} => \A f \in Project : inventory[f] <= tree[f]
  /\ phase \in Spawning =>
       /\ \A f \in File : moment[f] <= tree[f]
       /\ \A f \in Project : inventory[f] <= moment[f]
       /\ \A f \in Input : inputs[f] <= moment[f]
After ==
  /\ phase = "judging" => \A f \in done : moment[f] <= got[f]
  /\ phase \in {"inputs", "again"} =>
       /\ \A f \in File : moment[f] <= judged[f] /\ judged[f] <= tree[f]
       /\ \A f \in done : judged[f] <= got[f]
  /\ phase = "again" => \A f \in Input : judged[f] = moment[f]
  /\ phase \in Accepted => \A f \in File : judged[f] = moment[f]
Since ==
  /\ phase \in Asserting => \A f \in File : moment[f] <= last[f] /\ last[f] <= tree[f]
  /\ phase \in {"recheck", "recheckInputs"} => \A f \in done : last[f] <= got[f]
  /\ phase \in {"recheckInputs", "current"} => \A f \in Project : last[f] = moment[f]
  /\ phase = "current" => \A f \in Input : last[f] = moment[f]
Judgement == Recorded /\ Before /\ After /\ Since

LEMMA TouchKeeps ==
  ASSUME Judgement, NEW f \in File, Touch(f)
  PROVE  Judgement'
<1> USE DEF Touch, Judgement, Identities, records
<1>1. /\ tree' \in Identities
      /\ \A g \in File : tree[g] <= tree'[g]
  BY DEF Recorded
<1>2. Recorded'
  BY <1>1 DEF Recorded
<1>3. Before'
  BY <1>1 DEF Recorded, Before, Spawning, File
<1>4. After' /\ Since'
  BY <1>1 DEF Recorded, After, Since, Asserting, Accepted
<1> QED BY <1>2, <1>3, <1>4

LEMMA ReadKeeps ==
  ASSUME Judgement, Read
  PROVE  Judgement'
<1> USE DEF Judgement, Identities, records
<1>1. PICK f \in Wanted \ done : done' = done \cup {f} /\ got' = [got EXCEPT ![f] = tree[f]]
  BY DEF Read
<1>2. UNCHANGED <<tree, phase, inventory, inputs, judged, moment, last>>
  BY DEF Read
<1>3. f \in File
  BY <1>1 DEF Wanted, File
<1>4. /\ got' \in Identities /\ done' \in SUBSET File
      /\ got'[f] = tree[f] /\ \A g \in done : got'[g] = got[g]
  BY <1>1, <1>3 DEF Recorded
<1>5. Recorded'
  BY <1>2, <1>4 DEF Recorded
<1>6. Before'
  BY <1>1, <1>2, <1>3, <1>4 DEF Recorded, Before
<1>7. After'
  BY <1>1, <1>2, <1>3, <1>4 DEF Recorded, Before, After, Spawning
<1>8. Since'
  BY <1>1, <1>2, <1>3, <1>4 DEF Recorded, Before, Since, Asserting
<1> QED BY <1>5, <1>6, <1>7, <1>8

LEMMA StepKeeps ==
  ASSUME Judgement, Validate \/ AssertCurrent \/ Fails \/ (Validating /\ ~Read)
  PROVE  Judgement'
<1> USE DEF Judgement, records, To, Complete
<1>0. Recorded'
  BY DEF Validate, AssertCurrent, Fails, Validating, Inventoried, Discovered, Spawned, Judged,
     SameInputsAgain, Validated, Rechecked, StillCurrent, Recorded, Phases, Running, Reading,
     OfProject, OfInput
<1>1. CASE Validate \/ Discovered \/ Fails
  BY <1>0, <1>1 DEF Validate, Discovered, Fails, Recorded, Before, After, Since, Spawning, Accepted, Asserting
<1>2. CASE Inventoried
  BY <1>0, <1>2 DEF Inventoried, Wanted, OfProject, Recorded, Before, After, Since, Spawning, Accepted, Asserting
<1>3. CASE Spawned
  <2>1. done = Input
    BY <1>3 DEF Spawned, Wanted, OfProject, OfInput
  <2> QED BY <1>0, <1>3, <2>1 DEF Spawned, Recorded, Identities, Before, After, Since, Spawning, Accepted, Asserting, File
<1>4. CASE Judged
  <2>1. done = File
    BY <1>4 DEF Judged, Wanted, OfProject, OfInput
  <2> QED BY <1>0, <1>4, <2>1 DEF Judged, Recorded, Before, After, Since, Spawning, Accepted, Asserting
<1>5. CASE SameInputsAgain
  <2>1. done = Input
    BY <1>5 DEF SameInputsAgain, Wanted, OfProject, OfInput
  <2>2. SameInputs => \A f \in Input : judged[f] = moment[f]
    BY <1>5, <2>1 DEF SameInputsAgain, SameInputs, Recorded, Identities, Before, After, Spawning, File
  <2> QED BY <1>0, <1>5, <2>2 DEF SameInputsAgain, Recorded, Before, After, Since, Spawning, Accepted, Asserting
<1>6. CASE Validated
  <2>1. done = Project
    BY <1>6 DEF Validated, Wanted, OfProject, OfInput
  <2>2. SameInventory => \A f \in Project : judged[f] = moment[f]
    BY <1>6, <2>1 DEF Validated, SameInventory, Recorded, Identities, Before, After, Spawning, File
  <2> QED BY <1>0, <1>6, <2>2 DEF Validated, Recorded, Before, After, Since, Spawning, Accepted, Asserting, File
<1>7. CASE AssertCurrent
  BY <1>0, <1>7 DEF AssertCurrent, Recorded, Identities, Before, After, Since, Spawning, Accepted, Asserting
<1>8. CASE Rechecked
  <2>1. done = Project
    BY <1>8 DEF Rechecked, Wanted, OfProject, OfInput
  <2>2. SameInventory => \A f \in Project : last[f] = moment[f]
    BY <1>8, <2>1 DEF Rechecked, SameInventory, Recorded, Identities, Before, Since, Spawning, Asserting, File
  <2> QED BY <1>0, <1>8, <2>2 DEF Rechecked, Recorded, Before, After, Since, Spawning, Accepted, Asserting
<1>9. CASE StillCurrent
  <2>1. done = Input
    BY <1>9 DEF StillCurrent, Wanted, OfProject, OfInput
  <2>2. SameInputs => \A f \in Input : last[f] = moment[f]
    BY <1>9, <2>1 DEF StillCurrent, SameInputs, Recorded, Identities, Before, Since, Spawning, Asserting, File
  <2> QED BY <1>0, <1>9, <2>2 DEF StillCurrent, Recorded, Before, After, Since, Spawning, Accepted, Asserting
<1> QED BY <1>1, <1>2, <1>3, <1>4, <1>5, <1>6, <1>7, <1>8, <1>9 DEF Validating

LEMMA RestJudges ==
  /\ AtRest => Judgement
  /\ Forget => Judgement'
BY DEF AtRest, Forget, Untouched, Judgement, Recorded, Identities, Phases, Before, After, Since,
   Spawning, Accepted, Asserting

LEMMA NextJudgement == Judgement /\ [Next]_vars => Judgement'
<1> SUFFICES ASSUME Judgement, [Next]_vars PROVE Judgement'
  OBVIOUS
<1>1. CASE UNCHANGED validator
  BY <1>1 DEF validator, records, Judgement, Recorded, Before, After, Since
<1>2. CASE Forget
  BY <1>2, RestJudges
<1>3. CASE \E f \in File : Touch(f)
  BY <1>3, TouchKeeps
<1>4. CASE Validate \/ AssertCurrent \/ Fails \/ Validating
  BY <1>4, StepKeeps, ReadKeeps
<1> QED BY <1>1, <1>2, <1>3, <1>4
        DEF Next, vars, Refresh, Application, Replaced, Compile, Reject, Commit, Crash, Edit

(* commit() acts on a judgement of the project as it was at one moment, and  *)
(* of which nothing had moved on when assertCurrent() was called.            *)
THEOREM JudgementIsCurrent == Spec => CommitsWhatWasJudged
<1>1. Init => Judgement
  BY RestJudges DEF Init
<1>2. ASSUME Judgement, [Next]_vars, at = "compiling", at' = "sweeping"
      PROVE  \A f \in File : judged[f] = moment[f] /\ last[f] = moment[f]
  <2>1. Commit
    BY <1>2 DEF Next, vars, Refresh, Application, Moves, Recovery, RecoveryStep, RecoveryReturns,
       RecoveryThrows, Start, Settle, Begin, Stage, Write, Backup, Stale, Abandon, AbandonDrop,
       Replace, CommitSweeps, Replaced, Compile, Reject, RollsBack, Close, Crash, Leaves, Edit, CalmsDown
  <2>2. phase = "current"
    BY <2>1 DEF Commit
  <2> QED BY <1>2, <2>2 DEF Judgement, After, Since, Accepted, File
<1> QED BY <1>1, <1>2, NextJudgement, PTL DEF Spec, CommitsWhatWasJudged
===============================================================================
