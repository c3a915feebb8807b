--------------------------- MODULE BuildTransaction ---------------------------
(***************************************************************************)
(* The production output transaction of internal/project-build.ts: how the *)
(* directories under .fadeno/build-stage and dist change hands while one   *)
(* owner of the project's lock recovers, emits, verifies, accepts, commits *)
(* and rolls back, when it may crash between any two file system calls and *)
(* a call may fail.  BuildOwnership models the lock itself.                *)
(*                                                                         *)
(* A directory holds nothing, one complete generation (its manifest and    *)
(* files validate), the files of two emissions, or a broken tree: partly   *)
(* written, partly removed, or touched after its manifest was written.  A  *)
(* child process that emits survives the crash of its parent and goes on   *)
(* writing: an orphan.  What it writes into the next emission's stage      *)
(* before prepareManifest hashes the files there belongs to the manifest,  *)
(* so that such a mixed tree validates like a generation.                  *)
(***************************************************************************)
CONSTANTS
  Generation,    \* complete outputs
  Absent, Broken, Mixed,
  Fallible,      \* the places whose file system call may fail
  Orphans        \* whether emission outlives a crashed owner

ASSUME TreeAssumption ==
  /\ {Absent, Broken, Mixed} \cap Generation = {}
  /\ Absent # Broken /\ Absent # Mixed /\ Broken # Mixed
  /\ Orphans \in BOOLEAN

Whole == Generation \cup {Mixed}        \* trees that validate by their manifest
Tree == Whole \cup {Absent, Broken}
RecoveryPlaces == {"clearRejected", "clearVerification", "clearStage",
                   "setAside", "restore", "dropRejected", "dropStage"}
UndoPlaces == {"undo", "undoRestore", "undoClear"}
OwnerPlaces == {"idle", "emitting", "staged", "verifying", "verified",
                "publish", "checking", "open", "committing", "discarding"}
Places == {"down", "refused"} \cup RecoveryPlaces \cup UndoPlaces \cup OwnerPlaces

VARIABLES
  dist, rollback, rejected,   \* the accepted output, its backup, its garbage
  stage, verification,        \* generation-1 and generation-2
  orphan,                     \* an emission without an owner is still writing
  at,                         \* the owner's next file system call
  command,                    \* "build" or "dev"
  expected,                   \* identity of the staged tree
  previous,                   \* beginAcceptStage found a dist
  opened,                     \* beginAcceptStage returned a transaction
  first,                      \* history: the output was never accepted
  overlapped                  \* history: an orphan was writing when the emission began

disk == <<dist, rollback, rejected, stage, verification>>
memory == <<command, expected, previous, opened, overlapped>>
vars == <<disk, orphan, at, memory, first>>

Init ==
  /\ dist \in Whole \cup {Absent}
  /\ rollback = Absent /\ rejected = Absent /\ stage = Absent /\ verification = Absent
  /\ orphan = FALSE /\ at = "down" /\ first = FALSE
  /\ command = "build" /\ expected = Absent /\ previous = FALSE /\ opened = FALSE
  /\ overlapped = FALSE

-----------------------------------------------------------------------------
(* recoverBuildTransaction, entered with the lock held. *)
Start ==
  /\ at = "down"
  /\ command' \in {"build", "dev"}
  /\ at' = "clearRejected"
  /\ expected' = Absent /\ previous' = FALSE /\ opened' = FALSE
  /\ UNCHANGED <<disk, orphan, first, overlapped>>

Garbage_kept(tree) == tree           \* mutant: recovery keeps the garbage
Garbage(tree) == Absent

ClearRejected ==
  /\ at = "clearRejected"
  /\ rejected' = Garbage(rejected) /\ at' = "clearVerification"
  /\ UNCHANGED <<dist, rollback, stage, verification, orphan, memory, first>>

HasBackup_untrusted == FALSE          \* mutant: recovery ignores a backup
HasBackup == rollback # Absent

ClearVerification ==
  /\ at = "clearVerification"
  /\ verification' = Absent
  /\ at' = IF ~HasBackup THEN "clearStage"
           ELSE IF rollback = Broken THEN "refused" ELSE "setAside"
  /\ UNCHANGED <<dist, rollback, rejected, stage, orphan, memory, first>>

(* Without a backup dist must be an accepted output, or be missing. *)
ClearStage ==
  /\ at = "clearStage"
  /\ stage' = Absent
  /\ at' = IF dist = Broken THEN "refused" ELSE "idle"
  /\ first' = (first /\ dist = Broken)
  /\ UNCHANGED <<dist, rollback, rejected, verification, orphan, memory>>

SetAside ==
  /\ at = "setAside"
  /\ rejected' = (IF dist = Absent THEN rejected ELSE dist)
  /\ dist' = Absent /\ at' = "restore"
  /\ UNCHANGED <<rollback, stage, verification, orphan, memory, first>>

Restore ==
  /\ at = "restore"
  /\ dist' = rollback /\ rollback' = Absent /\ at' = "dropRejected"
  /\ UNCHANGED <<rejected, stage, verification, orphan, memory, first>>

DropRejected ==
  /\ at = "dropRejected"
  /\ rejected' = Absent /\ at' = "dropStage"
  /\ UNCHANGED <<dist, rollback, stage, verification, orphan, memory, first>>

DropStage ==
  /\ at = "dropStage"
  /\ stage' = Absent /\ at' = "idle"
  /\ UNCHANGED <<dist, rollback, rejected, verification, orphan, memory, first>>

(* The recovery threw: the lock is released; the build command also removes  *)
(* its candidate.                                                            *)
Refuse ==
  /\ at = "refused"
  /\ stage' = (IF command = "build" THEN Absent ELSE stage)
  /\ at' = "down"
  /\ UNCHANGED <<dist, rollback, rejected, verification, orphan, memory, first>>

-----------------------------------------------------------------------------
(* The build command ends after one generation, the owner of "dev" goes on.  *)
Home == IF command = "build" THEN "down" ELSE "idle"

Leave ==
  /\ at = "idle" /\ at' = "down"
  /\ UNCHANGED <<disk, orphan, memory, first>>

(* prepareStage empties the stage, the compiler writes it, prepareManifest   *)
(* hashes what is there, writes the manifest, and hashes the tree again.     *)
Emit ==
  /\ at = "idle"
  /\ stage' = Broken /\ at' = "emitting"
  /\ overlapped' = orphan
  /\ expected' = Absent /\ previous' = FALSE /\ opened' = FALSE
  /\ UNCHANGED <<dist, rollback, rejected, verification, orphan, command, first>>

EmitFails ==
  /\ at = "emitting"
  /\ stage' \in {Broken, Absent} /\ at' = "discarding"
  /\ UNCHANGED <<dist, rollback, rejected, verification, orphan, memory, first>>

Hashed == Generation \cup (IF orphan \/ stage = Mixed THEN {Mixed} ELSE {})
                     \cup (IF orphan THEN {Broken} ELSE {})
Emitted ==
  /\ at = "emitting"
  /\ \E tree \in Hashed : stage' = tree /\ expected' = tree
  /\ at' = "staged"
  /\ UNCHANGED <<dist, rollback, rejected, verification, orphan, command,
                 previous, opened, overlapped, first>>

(* verifyEquivalentGeneration: the build command repeats the emission. *)
Verify ==
  /\ at = "staged" /\ command = "build"
  /\ verification' = Broken /\ at' = "verifying"
  /\ UNCHANGED <<dist, rollback, rejected, stage, orphan, memory, first>>

Verified ==
  /\ at = "verifying"
  /\ verification' = Absent /\ at' \in {"verified", "discarding"}
  /\ UNCHANGED <<dist, rollback, rejected, stage, orphan, memory, first>>

Discard ==
  /\ at = "discarding"
  /\ stage' = Absent /\ at' = Home
  /\ UNCHANGED <<dist, rollback, rejected, verification, orphan, memory, first>>

-----------------------------------------------------------------------------
(* beginAcceptStage *)
Acceptable == at = (IF command = "build" THEN "verified" ELSE "staged")
Unsettled == rollback # Absent \/ rejected # Absent
Interrupted == command = "dev"       \* the accept signal, or a stale input

AcceptRefused ==
  /\ Acceptable
  /\ Interrupted \/ Unsettled \/ stage = Absent \/ dist = Broken
  /\ at' = "discarding"
  /\ UNCHANGED <<disk, orphan, memory, first>>

BeginAccept ==
  /\ Acceptable /\ ~Unsettled /\ stage # Absent /\ dist # Broken
  /\ rollback' = dist /\ dist' = Absent
  /\ previous' = (dist # Absent)
  /\ first' = FALSE
  /\ at' = "publish"
  /\ UNCHANGED <<rejected, stage, verification, orphan, command, expected, opened, overlapped>>

Publish ==
  /\ at = "publish"
  /\ dist' = stage /\ stage' = Absent /\ at' = "checking"
  /\ first' = ~previous
  /\ UNCHANGED <<rollback, rejected, verification, orphan, memory>>

SameIdentity_assumed == TRUE          \* mutant: the moved tree is not rechecked
SameIdentity == dist = expected /\ dist \in Whole
Check ==
  /\ at = "checking"
  /\ opened' = SameIdentity
  /\ at' = IF SameIdentity THEN "open" ELSE "undo"
  /\ UNCHANGED <<disk, orphan, command, expected, previous, overlapped, first>>

(* The catch of beginAcceptStage and the transaction's rollback() move the   *)
(* new output away, bring the previous one back and remove the garbage.      *)
RollBack ==
  /\ at = "open" /\ command = "dev" /\ at' = "undo"
  /\ UNCHANGED <<disk, orphan, memory, first>>

Undo ==
  /\ at = "undo"
  /\ rejected' = (IF dist = Absent THEN rejected ELSE dist)
  /\ dist' = Absent /\ at' = "undoRestore"
  /\ first' = FALSE
  /\ UNCHANGED <<rollback, stage, verification, orphan, memory>>

RestoresPrevious == previous /\ rollback # Absent
UndoRestore ==
  /\ at = "undoRestore"
  /\ IF RestoresPrevious THEN dist' = rollback /\ rollback' = Absent
                         ELSE UNCHANGED <<dist, rollback>>
  /\ at' = "undoClear"
  /\ UNCHANGED <<rejected, stage, verification, orphan, memory, first>>

UndoClear ==
  /\ at = "undoClear"
  /\ rejected' = Absent
  /\ at' = IF opened THEN Home ELSE "discarding"
  /\ UNCHANGED <<dist, rollback, stage, verification, orphan, memory, first>>

(* commit() *)
Commit ==
  /\ at = "open"
  /\ IF previous THEN rejected' = rollback /\ rollback' = Absent /\ at' = "committing"
     ELSE UNCHANGED <<rejected, rollback>> /\ at' = Home
  /\ first' = FALSE
  /\ UNCHANGED <<dist, stage, verification, orphan, memory>>

CommitClear ==
  /\ at = "committing"
  /\ rejected' = Absent /\ at' = Home
  /\ UNCHANGED <<dist, rollback, stage, verification, orphan, memory, first>>

-----------------------------------------------------------------------------
(* A recursive removal that is cut short leaves a broken tree. *)
Removes(tree) ==
  CASE tree = "rejected" -> {"clearRejected", "dropRejected", "undoClear", "committing"}
    [] tree = "verification" -> {"clearVerification", "verifying"}
    [] tree = "stage" -> {"clearStage", "dropStage", "discarding"}
Torn(tree) == {tree} \cup (IF tree = Absent THEN {} ELSE {Broken})

CutShort ==
  /\ rejected' \in (IF at \in Removes("rejected") THEN Torn(rejected) ELSE {rejected})
  /\ verification' \in (IF at \in Removes("verification") THEN Torn(verification)
                        ELSE {verification})
  /\ stage' \in (IF at \in Removes("stage") THEN Torn(stage) ELSE {stage})
  /\ UNCHANGED <<dist, rollback>>

(* Where a thrown file system error takes the owner. *)
Handler ==
  CASE at \in RecoveryPlaces -> "refused"
    [] at = "publish" -> "undo"
    [] at \in {"staged", "verified", "verifying"} -> "discarding"
    [] at \in UndoPlaces -> IF opened THEN Home ELSE "discarding"
    [] at \in {"open", "committing"} -> IF command = "build" THEN "discarding" ELSE "idle"
    [] OTHER -> Home

CallFails ==
  /\ at \in Fallible /\ at \in Places \ {"down", "refused", "idle", "emitting", "checking"}
  /\ at = "open" => previous
  /\ CutShort /\ at' = Handler
  /\ UNCHANGED <<orphan, memory, first>>

Crash ==
  /\ at # "down"
  /\ CutShort /\ at' = "down"
  /\ orphan' = (orphan \/ (Orphans /\ at \in {"emitting", "verifying"}))
  /\ UNCHANGED <<memory, first>>

OrphanWrites ==
  /\ orphan
  /\ \/ stage' = (IF at = "emitting" THEN Mixed ELSE Broken) /\ UNCHANGED verification
     \/ verification' = Broken /\ UNCHANGED stage
  /\ UNCHANGED <<dist, rollback, rejected, orphan, at, memory, first>>

OrphanEnds ==
  /\ orphan /\ orphan' = FALSE
  /\ UNCHANGED <<disk, at, memory, first>>

Recovery == \/ Start \/ ClearRejected \/ ClearVerification \/ ClearStage \/ SetAside
            \/ Restore \/ DropRejected \/ DropStage \/ Refuse
Production == \/ Leave \/ Emit \/ EmitFails \/ Emitted \/ Verify \/ Verified \/ Discard
Acceptance == \/ AcceptRefused \/ BeginAccept \/ Publish \/ Check \/ RollBack \/ Undo
              \/ UndoRestore \/ UndoClear \/ Commit \/ CommitClear
Environment == \/ CallFails \/ Crash \/ OrphanWrites \/ OrphanEnds

Next == Recovery \/ Production \/ Acceptance \/ Environment
Spec == Init /\ [][Next]_vars

-----------------------------------------------------------------------------
TypeOK ==
  /\ {dist, rollback, rejected, stage, verification} \subseteq Tree
  /\ orphan \in BOOLEAN /\ at \in Places /\ first \in BOOLEAN
  /\ command \in {"build", "dev"} /\ expected \in Tree
  /\ previous \in BOOLEAN /\ opened \in BOOLEAN /\ overlapped \in BOOLEAN

(* rename(2) refuses a target that is not empty: wherever the code renames a *)
(* tree, the destination is free, whatever was interrupted before.           *)
RenameTargetsFree ==
  /\ at \in {"publish", "restore", "undoRestore"} => dist = Absent
  /\ at \in {"setAside", "undo", "open"} => rejected = Absent
  /\ at = "restore" => rollback # Absent

(* The previous generation remains the rollback owner until the candidate is *)
(* fully accepted: a dist that does not validate has a backup that does, or  *)
(* nothing was ever accepted.                                                *)
BackedUp ==
  /\ rollback \in Whole \cup {Absent}
  /\ dist = Broken => rollback # Absent \/ first

(* Whatever was interrupted, the next call of the owner can succeed and the  *)
(* accepted generation can be brought back.                                  *)
Recoverable == TypeOK /\ RenameTargetsFree /\ BackedUp

(* What the next recovery leaves in dist. *)
Survivor == IF rollback # Absent THEN rollback ELSE dist

(* Through crashes, failing calls and orphans the accepted output is         *)
(* replaced as a whole, only by commit(), and never lost.  What replaces it  *)
(* is what one emission wrote, unless an orphan of an earlier owner was      *)
(* alive when that emission began: its files are accepted with the others.   *)
Output == INSTANCE AtomicOutput WITH output <- Survivor, provisional <- first
OutputIsAtomic == Output!Spec

(* An owner that becomes idle after its recovery, rollback or commit has     *)
(* nothing left of a transaction: the next acceptance is not refused, and    *)
(* dist is what will survive.                                                *)
ReturnsClean ==
  [][at' = "idle" /\ at \in RecoveryPlaces \cup {"undoClear", "committing"} /\ ~CallFails
       => rollback' = Absent /\ rejected' = Absent /\ dist' # Broken /\ ~first']_vars
===============================================================================
