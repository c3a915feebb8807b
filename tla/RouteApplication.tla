--------------------------- MODULE RouteApplication ---------------------------
(***************************************************************************)
(* How PrivateProjectAnalyzer.refresh (analyzer-project.ts) replaces the   *)
(* generated routes of a project: beginRouteArtifactApplication stages and *)
(* publishes a plan, the compiler judges the project (CompilerValidation), *)
(* commit() or rollback() ends the transaction, recoverTransactionState (routing/generator.ts) brings  *)
(* back what an interrupted one left, and the analyzer retains what it     *)
(* could not undo for its next operation.                                  *)
(*                                                                         *)
(* A step is one call that changes the disk.  Any of them may throw, the   *)
(* process may be killed between any two, and sources change at any time   *)
(* (BuildOwnership models the lock that makes the owner the only writer).  *)
(***************************************************************************)
EXTENDS CompilerValidation

CONSTANTS
  Version,         \* sources, and the artifacts generated from them
  Source,          \* the files of the project that the artifacts are generated from
  Absent, Broken   \* no directory; a directory partly written

ASSUME VersionAssumption == Absent \notin Version /\ Broken \notin Version /\ Absent # Broken
ASSUME SourceAssumption == Source \subseteq Project

VARIABLES
  source,                              \* what the sources say now
  output, pending, previous, empty,    \* routes, routes.pending-*, .previous-*, .empty-*
  garbage,                             \* number of routes.garbage-*
  at,        \* where the analyzer is
  step,      \* where recoverTransactionState is
  plan,      \* the artifacts to apply
  before,    \* what the transaction found in output
  tries,     \* handlers that have yet to call rollback()
  retained,  \* #pendingApplicationRecovery, #pendingRollback, #pendingCleanup
  calm       \* history: no more faults, kills, edits and rejections

disk == <<output, pending, previous, empty, garbage>>
memory == <<plan, before, tries, retained>>
vars == <<source, disk, at, step, memory, calm, validator>>

Nothing == [recovery |-> FALSE, rollback |-> FALSE, cleanup |-> FALSE]
Transacting == {"begin", "stage", "writing", "staged", "backedUp", "replaced", "compiling"}
Recovering == {"retained", "closing", "begin", "giveup", "undo"}

Init ==
  /\ source \in Version /\ output \in Version \cup {Absent}
  /\ pending = Absent /\ previous = Absent /\ empty = FALSE /\ garbage = 0
  /\ at = "down" /\ step = "none"
  /\ plan = Absent /\ before = Absent /\ tries = 0 /\ retained = Nothing /\ calm = FALSE
  /\ AtRest

Goes(place) == at' = place /\ step' = "none"
Recovers(place) == at' = place /\ step' = "scan"

-----------------------------------------------------------------------------
(* recoverTransactionState, whoever calls it *)
Ambiguous_strict == garbage > 0          \* mutant: one leftover is too many
Ambiguous == garbage > 1 \/ (previous # Absent /\ empty)
HasBackup == previous # Absent

Scan ==
  /\ step = "scan" /\ ~Ambiguous
  /\ garbage' = 0 /\ step' = "pending"
  /\ UNCHANGED <<output, pending, previous, empty>>

DisplacePending ==
  /\ step = "pending"
  /\ IF pending = Absent
     THEN step' = "restore" /\ UNCHANGED <<pending, garbage>>
     ELSE step' = "drop" /\ pending' = Absent /\ garbage' = garbage + 1
  /\ UNCHANGED <<output, previous, empty>>

Drop ==
  /\ step = "drop" /\ step' = "restore" /\ garbage' = garbage - 1
  /\ UNCHANGED <<output, pending, previous, empty>>

DisplaceOutput_backup ==                 \* mutant: the backup is set aside instead
  /\ step = "restore" /\ HasBackup /\ output # Absent
  /\ previous' = Absent /\ garbage' = garbage + 1
  /\ UNCHANGED <<output, pending, empty, step>>
DisplaceOutput ==
  /\ step = "restore" /\ (HasBackup \/ empty) /\ output # Absent
  /\ output' = Absent /\ garbage' = garbage + 1
  /\ UNCHANGED <<pending, previous, empty, step>>

Restore ==
  /\ step = "restore"
  /\ \/ /\ HasBackup /\ output = Absent
        /\ output' = previous /\ previous' = Absent /\ step' = "sweep" /\ UNCHANGED empty
     \/ /\ ~HasBackup /\ empty /\ output = Absent
        /\ empty' = FALSE /\ step' = "sweep" /\ UNCHANGED <<output, previous>>
     \/ /\ ~HasBackup /\ ~empty
        /\ step' = "done" /\ UNCHANGED <<output, previous, empty>>
  /\ UNCHANGED <<pending, garbage>>

Sweep ==
  /\ step = "sweep" /\ step' = "done"
  /\ garbage' = (IF garbage = 0 THEN 0 ELSE garbage - 1)
  /\ UNCHANGED <<output, pending, previous, empty>>

RecoveryStep ==
  /\ at \in Recovering
  /\ Scan \/ DisplacePending \/ Drop \/ DisplaceOutput \/ Restore \/ Sweep
  /\ UNCHANGED <<source, at, memory, calm>>

(* What the caller does when it returns ...                                  *)
Fresh == source = plan
Undoing == at = "undo" \/ (at \in {"retained", "closing"} /\ ~retained.recovery)
RecoveryReturns ==
  /\ step = "done"
  /\ \/ /\ at \in {"retained", "closing"} /\ Goes(at)
        /\ retained' = (IF retained.recovery THEN [retained EXCEPT !.recovery = FALSE]
                        ELSE [retained EXCEPT !.rollback = FALSE])
     \/ /\ at = "begin" /\ UNCHANGED retained
        /\ IF Fresh THEN Goes("stage") ELSE Recovers("giveup")
     \/ at = "giveup" /\ Goes("idle") /\ retained' = [retained EXCEPT !.recovery = FALSE]
     \/ at = "undo" /\ Goes("idle") /\ UNCHANGED retained
  /\ Undoing => output = before
  /\ UNCHANGED <<source, disk, plan, before, tries, calm>>

(* ... and when it throws: rollback() is called again by the catch clauses   *)
(* of begin and refresh, and retained in the end.                            *)
Forgotten == retained                    \* mutant: a failed rollback is dropped
Unfinished == [retained EXCEPT !.rollback = TRUE]
Refused == (step = "scan" /\ Ambiguous) \/ (step = "done" /\ Undoing /\ output # before)
RecoveryThrows ==
  /\ step # "none" /\ (calm => Refused)
  /\ \/ at = "retained" /\ Goes("idle") /\ UNCHANGED <<retained, tries>>
     \/ /\ at = "closing" /\ Goes("closing") /\ UNCHANGED tries
        /\ retained' = (IF retained.recovery THEN [retained EXCEPT !.recovery = FALSE]
                        ELSE [retained EXCEPT !.rollback = FALSE])
     \/ at = "begin" /\ Recovers("giveup") /\ UNCHANGED <<retained, tries>>
     \/ at = "giveup" /\ Goes("idle") /\ UNCHANGED <<retained, tries>>
     \/ /\ at = "undo" /\ tries > 0 /\ tries' = tries - 1
        /\ Recovers("undo") /\ UNCHANGED retained
     \/ at = "undo" /\ tries = 0 /\ Goes("idle") /\ retained' = Unfinished /\ UNCHANGED tries
  /\ UNCHANGED <<source, disk, plan, before, calm>>

-----------------------------------------------------------------------------
(* analyze(), refresh() and close() first settle what was retained.          *)
Start == at \in {"idle", "down"} /\ Goes("retained") /\ UNCHANGED <<source, disk, memory, calm>>
Close == at = "idle" /\ Goes("closing") /\ UNCHANGED <<source, disk, memory, calm>>

Cleanup ==
  /\ retained.cleanup
  /\ \/ Goes(at) /\ garbage' = 0 /\ retained' = [retained EXCEPT !.cleanup = FALSE]
     \/ /\ ~calm /\ UNCHANGED garbage
        /\ IF at = "closing" THEN Goes(at) /\ retained' = [retained EXCEPT !.cleanup = FALSE]
                             ELSE Goes("idle") /\ UNCHANGED retained
  /\ UNCHANGED <<output, pending, previous, empty, plan, before, tries>>

(* #analyze captures the sources; diagnostics, or analyze(), end there.      *)
Analyzed ==
  /\ at = "retained" /\ retained = Nothing
  /\ \/ Goes("begin") /\ plan' = source
     \/ ~calm /\ Goes("idle") /\ UNCHANGED plan
  /\ UNCHANGED <<disk, before, tries, retained>>

Leaves == step' = "none" /\ at' = "down" /\ plan' = Absent /\ before' = Absent
          /\ tries' = 0 /\ retained' = Nothing

Settle ==
  /\ at \in {"retained", "closing"} /\ step = "none"
  /\ \/ (retained.recovery \/ retained.rollback) /\ Recovers(at) /\ UNCHANGED <<disk, memory>>
     \/ ~retained.recovery /\ ~retained.rollback /\ Cleanup
     \/ Analyzed
     \/ at = "closing" /\ retained = Nothing /\ Leaves /\ UNCHANGED disk
  /\ UNCHANGED <<source, calm>>

-----------------------------------------------------------------------------
(* beginRouteArtifactApplication *)
Begin ==
  /\ at = "begin" /\ step = "none"
  /\ retained' = [retained EXCEPT !.recovery = TRUE]
  /\ Recovers(IF Fresh THEN "begin" ELSE "giveup")
  /\ UNCHANGED <<source, disk, plan, before, tries, calm>>

Stage ==
  /\ at = "stage"
  /\ \/ pending' = Broken /\ Goes("writing")
     \/ ~calm /\ UNCHANGED pending /\ Recovers("giveup")
  /\ UNCHANGED <<source, output, previous, empty, garbage, memory, calm>>

AfterFailedWrite == "abandon"
Write ==
  /\ at = "writing"
  /\ \/ pending' = plan /\ Goes("staged")
     \/ ~calm /\ UNCHANGED pending /\ Goes(AfterFailedWrite)
  /\ UNCHANGED <<source, output, previous, empty, garbage, memory, calm>>

(* From here on the transaction is retained in place of the recovery.        *)
Backup ==
  /\ at = "staged" /\ Fresh
  /\ before' = output /\ retained' = [retained EXCEPT !.recovery = FALSE]
  /\ \/ /\ \/ /\ output = plan /\ previous' = pending /\ pending' = Absent
              /\ UNCHANGED <<output, empty>>
           \/ /\ output \notin {plan, Absent} /\ previous' = output /\ output' = Absent
              /\ UNCHANGED <<pending, empty>>
           \/ /\ output = Absent /\ empty' = TRUE
              /\ UNCHANGED <<output, pending, previous>>
        /\ Goes("backedUp") /\ UNCHANGED tries
     \/ ~calm /\ Recovers("undo") /\ tries' = 2 /\ UNCHANGED <<output, pending, previous, empty>>
  /\ UNCHANGED <<source, garbage, plan, calm>>

Stale ==
  /\ at = "staged" /\ ~Fresh /\ Goes("abandon")
  /\ UNCHANGED <<source, disk, memory, calm>>

(* The catch clause without a transaction moves and removes the stage, then  *)
(* refresh() recovers.                                                       *)
Abandon ==
  /\ at = "abandon"
  /\ \/ pending' = Absent /\ garbage' = garbage + 1 /\ Goes("abandonDrop")
     \/ ~calm /\ UNCHANGED <<pending, garbage>> /\ Recovers("giveup")
  /\ UNCHANGED <<source, output, previous, empty, memory, calm>>
AbandonDrop ==
  /\ at = "abandonDrop" /\ Recovers("giveup")
  /\ garbage' = garbage - 1 \/ (~calm /\ UNCHANGED garbage)
  /\ UNCHANGED <<source, output, pending, previous, empty, memory, calm>>

RollsBack(remaining) == Recovers("undo") /\ tries' = remaining

Replace ==
  /\ at = "backedUp"
  /\ \/ /\ Goes("replaced") /\ UNCHANGED tries
        /\ IF pending = Absent THEN UNCHANGED <<output, pending>>
                               ELSE output' = pending /\ pending' = Absent
     \/ ~calm /\ RollsBack(3) /\ UNCHANGED <<output, pending>>
  /\ UNCHANGED <<source, previous, empty, garbage, plan, before, retained, calm>>

Replaced ==
  /\ at = "replaced"
  /\ \/ Fresh /\ Goes("compiling") /\ Validate /\ UNCHANGED tries
     \/ ~Fresh /\ RollsBack(3) /\ UNCHANGED validator
  /\ UNCHANGED <<source, disk, plan, before, retained, calm>>

(* The compiler judges.  What is between validate() and assertCurrent(), and *)
(* between that and commit(), runs at once: both look for newer sources.     *)
Compile ==
  /\ at = "compiling"
  /\ Validating \/ (Fresh /\ AssertCurrent) \/ (~calm /\ Fails)
  /\ UNCHANGED <<source, disk, at, step, memory, calm>>

(* It rejects, the refresh is aborted, or the sources moved on.              *)
Reject ==
  /\ at = "compiling"
  /\ phase = "failed" \/ (phase \in {"validated", "current"} /\ (~calm \/ ~Fresh))
  /\ RollsBack(1) /\ Forget
  /\ UNCHANGED <<source, disk, plan, before, retained, calm>>

(* commit() *)
Commit ==
  /\ at = "compiling" /\ phase = "current" /\ Fresh /\ Forget
  /\ previous' = Absent /\ empty' = FALSE /\ garbage' = garbage + 1 /\ Goes("sweeping")
  /\ UNCHANGED <<source, output, pending, memory, calm>>

CommitSweeps ==
  /\ at = "sweeping" /\ Goes("idle")
  /\ \/ garbage' = garbage - 1 /\ UNCHANGED retained
     \/ ~calm /\ UNCHANGED garbage /\ retained' = [retained EXCEPT !.cleanup = TRUE]
  /\ UNCHANGED <<source, output, pending, previous, empty, plan, before, tries, calm>>

-----------------------------------------------------------------------------
Crash ==
  /\ ~calm /\ at # "down" /\ Leaves /\ Forget
  /\ UNCHANGED <<source, disk, calm>>

(* An editor; what it touches matters only to a validation that is running.  *)
Edit ==
  /\ ~calm
  /\ \/ at # "compiling" /\ source' \in Version /\ UNCHANGED validator
     \/ /\ at = "compiling"
        /\ \E f \in File : Touch(f) /\ source' \in (IF f \in Source THEN Version ELSE {source})
  /\ UNCHANGED <<disk, at, step, memory, calm>>
CalmsDown ==
  /\ ~calm /\ calm' = TRUE
  /\ UNCHANGED <<source, disk, at, step, memory>>

Recovery == RecoveryStep \/ RecoveryReturns \/ RecoveryThrows
Moves ==
  \/ Begin \/ Stage \/ Write \/ Backup \/ Stale \/ Abandon \/ AbandonDrop
  \/ Replace \/ CommitSweeps
Application == (Moves /\ UNCHANGED validator) \/ Replaced \/ Compile \/ Reject \/ Commit
Refresh == ((Start \/ Settle \/ Recovery) /\ UNCHANGED validator) \/ Application

Next ==
  \/ Refresh \/ Crash \/ Edit
  \/ (Close \/ CalmsDown) /\ UNCHANGED validator
Spec == Init /\ [][Next]_vars

(* A refresh goes on while its process lives, and a new one is asked for.    *)
FairSpec == Spec /\ WF_vars(Refresh)

-----------------------------------------------------------------------------
TypeOK ==
  /\ source \in Version /\ calm \in BOOLEAN
  /\ output \in Version \cup {Absent} /\ previous \in Version \cup {Absent}
  /\ pending \in Version \cup {Absent, Broken} /\ empty \in BOOLEAN /\ garbage \in Nat
  /\ at \in Transacting \cup {"retained", "closing", "giveup", "undo", "abandon",
                              "abandonDrop", "sweeping", "idle", "down"}
  /\ step \in {"none", "scan", "pending", "drop", "restore", "sweep", "done"}
  /\ plan \in Version \cup {Absent} /\ before \in Version \cup {Absent}
  /\ tries \in 0..3 /\ retained \in [recovery : BOOLEAN, rollback : BOOLEAN, cleanup : BOOLEAN]

(* No sequence of failures makes the next recovery refuse the disk as        *)
(* ambiguous, and a transaction that could not be undone or cleaned up when  *)
(* its refresh ends is retained.                                             *)
Unambiguous == garbage <= 1 /\ ~(previous # Absent /\ empty)
Undone == pending = Absent /\ previous = Absent /\ ~empty
NothingForgotten ==
  /\ [](TypeOK /\ Unambiguous)
  /\ [][at' = "idle" /\ at \in {"giveup", "undo", "sweeping"} =>
         /\ Undone' \/ retained'.recovery \/ retained'.rollback
         /\ garbage' = 0 \/ retained' # Nothing]_vars

(* What the next recovery leaves in output.                                  *)
Survivor == IF previous # Absent THEN previous ELSE IF empty THEN Absent ELSE output
Asked == IF at \in Transacting THEN plan ELSE Absent

Durable == INSTANCE DurableRoutes WITH routes <- Survivor, asked <- Asked
RefreshIsAtomic == Durable!Spec

(* The compiler judged the project as it was at one moment, although it read *)
(* the files one by one while they were being edited, and no file had moved  *)
(* on when assertCurrent() was called: only edits after that can be newer    *)
(* than the judgement on which commit() acts (validate, assertCurrent).      *)
CommitsWhatWasJudged ==
  [][at = "compiling" /\ at' = "sweeping" =>
       \A f \in File : judged[f] = moment[f] /\ last[f] = moment[f]]_vars

(* Once faults, kills and edits stop, a refresh publishes the sources: no    *)
(* leftover blocks every later one.                                          *)
RefreshRecovers == calm ~> (output = source /\ at = "idle")
===============================================================================
