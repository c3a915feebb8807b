-------------------------- MODULE ProjectBuildProofs --------------------------
(***************************************************************************)
(* Theorems about internal/project-build.ts.                               *)
(*                                                                         *)
(* The output transaction keeps one accepted output through every crash,   *)
(* failed call and orphaned emission, for any set of generations and any   *)
(* choice of fallible calls: it implements AtomicOutput.  The inductive     *)
(* invariant adds to the invariants of BuildTransaction what the places of  *)
(* a transaction know about the directories (Transaction) and what a       *)
(* provisional output looks like (Provisional).                            *)
(*                                                                         *)
(* The project lock excludes among any number of commands until one renames *)
(* away a lock that it did not read, and even then until four have been     *)
(* started.  The inductive invariants follow who was robbed of the lock, and *)
(* by whom.                                                                 *)
(***************************************************************************)
EXTENDS BuildTransaction, BuildOwnership, FiniteSetTheorems, TLAPS

Transaction ==
  /\ at \in {"publish", "checking", "open", "undo", "undoRestore"}
       => (previous <=> rollback # Absent)
  /\ at \in {"dropRejected", "dropStage", "undoClear", "committing"}
       => rollback = Absent /\ dist # Broken
  /\ at \in {"dropRejected", "dropStage", "undoRestore", "undoClear", "committing"} => ~first
  /\ at = "publish" => stage # Absent /\ ~first
  /\ at = "checking" => dist # Absent
  /\ at = "open" => dist \in Whole
  /\ at \in {"checking", "open", "undo"} /\ rollback = Absent => first \/ dist = Absent
  /\ at \in {"publish", "checking", "open", "undo",
             "clearVerification", "clearStage", "setAside", "dropStage"} => rejected = Absent
  /\ at = "setAside" => rollback # Absent
  /\ at = "clearStage" => rollback = Absent

Provisional == first => rollback = Absent /\ dist # Absent

(* Files of two emissions are in a tree only when the emission overlapped. *)
Overlaps ==
  /\ at = "emitting" /\ orphan => overlapped
  /\ at \in {"emitting", "staged", "verifying", "verified", "publish"} /\ stage = Mixed => overlapped
  /\ at \in {"checking", "open"} /\ dist = Mixed => overlapped

IInv == TypeOK /\ RenameTargetsFree /\ BackedUp /\ Transaction /\ Provisional /\ Overlaps

-----------------------------------------------------------------------------
(* A removal cut short leaves trees where there were trees. *)
LEMMA CutShortFact ==
  ASSUME TypeOK, CutShort
  PROVE  /\ {rejected', verification', stage'} \subseteq Tree
         /\ rejected = Absent => rejected' = Absent
         /\ stage = Absent <=> stage' = Absent
         /\ dist' = dist /\ rollback' = rollback
BY TreeAssumption DEF TypeOK, CutShort, Torn, Tree, Whole

-----------------------------------------------------------------------------
LEMMA RecoveryPreserves == ASSUME IInv, Recovery PROVE IInv'
<1> USE TreeAssumption DEF IInv, TypeOK, RenameTargetsFree, BackedUp, Transaction, Provisional, Overlaps, Tree, Whole, Places, RecoveryPlaces, UndoPlaces, OwnerPlaces, disk, memory
<1>1. CASE Start
  BY <1>1 DEF Start
<1>2. CASE ClearRejected
  BY <1>2 DEF ClearRejected, Garbage
<1>3. CASE ClearVerification
  BY <1>3 DEF ClearVerification, HasBackup
<1>4. CASE ClearStage
  BY <1>4 DEF ClearStage
<1>5. CASE SetAside
  BY <1>5 DEF SetAside
<1>6. CASE Restore
  BY <1>6 DEF Restore
<1>7. CASE DropRejected
  BY <1>7 DEF DropRejected
<1>8. CASE DropStage
  BY <1>8 DEF DropStage
<1>9. CASE Refuse
  BY <1>9 DEF Refuse
<1> QED BY <1>1, <1>2, <1>3, <1>4, <1>5, <1>6, <1>7, <1>8, <1>9 DEF Recovery

-----------------------------------------------------------------------------
LEMMA ProductionPreserves == ASSUME IInv, Production PROVE IInv'
<1> USE TreeAssumption DEF IInv, TypeOK, RenameTargetsFree, BackedUp, Transaction, Provisional, Overlaps, Tree, Whole, Places, RecoveryPlaces, UndoPlaces, OwnerPlaces, disk, memory
<1>1. CASE Leave
  BY <1>1 DEF Leave
<1>2. CASE Emit
  BY <1>2 DEF Emit
<1>3. CASE EmitFails
  BY <1>3 DEF EmitFails
<1>4. CASE Emitted
  BY <1>4 DEF Emitted, Hashed
<1>5. CASE Verify
  BY <1>5 DEF Verify
<1>6. CASE Verified
  BY <1>6 DEF Verified
<1>7. CASE Discard
  BY <1>7 DEF Discard, Home
<1> QED BY <1>1, <1>2, <1>3, <1>4, <1>5, <1>6, <1>7 DEF Production

-----------------------------------------------------------------------------
LEMMA AcceptancePreserves == ASSUME IInv, Acceptance PROVE IInv'
<1> USE TreeAssumption DEF IInv, TypeOK, RenameTargetsFree, BackedUp, Transaction, Provisional, Overlaps, Tree, Whole, Places, RecoveryPlaces, UndoPlaces, OwnerPlaces, disk, memory
<1>1. CASE AcceptRefused
  BY <1>1 DEF AcceptRefused, Acceptable
<1>2. CASE BeginAccept
  BY <1>2 DEF BeginAccept, Acceptable, Unsettled
<1>3. CASE Publish
  BY <1>3 DEF Publish
<1>4. CASE Check
  BY <1>4 DEF Check, SameIdentity
<1>5. CASE RollBack
  BY <1>5 DEF RollBack
<1>6. CASE Undo
  BY <1>6 DEF Undo
<1>7. CASE UndoRestore
  BY <1>7 DEF UndoRestore, RestoresPrevious
<1>8. CASE UndoClear
  BY <1>8 DEF UndoClear, Home
<1>9. CASE Commit
  BY <1>9 DEF Commit, Home
<1>10. CASE CommitClear
  BY <1>10 DEF CommitClear, Home
<1> QED BY <1>1, <1>2, <1>3, <1>4, <1>5, <1>6, <1>7, <1>8, <1>9, <1>10 DEF Acceptance

-----------------------------------------------------------------------------
LEMMA EnvironmentPreserves == ASSUME IInv, Environment PROVE IInv'
<1> USE TreeAssumption DEF IInv, TypeOK, RenameTargetsFree, BackedUp, Transaction, Provisional, Overlaps, Tree, Whole, Places, RecoveryPlaces, UndoPlaces, OwnerPlaces, disk, memory
<1>1. CASE CallFails
  BY <1>1, CutShortFact DEF CallFails, Handler, Home
<1>2. CASE Crash
  BY <1>2, CutShortFact DEF Crash
<1>3. CASE OrphanWrites
  BY <1>3 DEF OrphanWrites
<1>4. CASE OrphanEnds
  <2>1. orphan' \in BOOLEAN /\ ~orphan'
    BY <1>4 DEF OrphanEnds
  <2>2. UNCHANGED <<disk, at, memory, first>>
    BY <1>4 DEF OrphanEnds
  <2> QED BY <2>1, <2>2
<1> QED BY <1>1, <1>2, <1>3, <1>4 DEF Environment

-----------------------------------------------------------------------------
LEMMA InitInvariant == Init => IInv
BY TreeAssumption DEF Init, IInv, TypeOK, RenameTargetsFree, BackedUp, Transaction,
   Provisional, Overlaps, Tree, Whole, Places

LEMMA NextInvariant == IInv /\ [Next]_vars => IInv'
<1> SUFFICES ASSUME IInv, [Next]_vars PROVE IInv'
  OBVIOUS
<1>1. CASE UNCHANGED vars
  BY <1>1 DEF vars, disk, memory, IInv, TypeOK, RenameTargetsFree, BackedUp,
              Transaction, Provisional, Overlaps
<1> QED
  BY <1>1, RecoveryPreserves, ProductionPreserves, AcceptancePreserves,
     EnvironmentPreserves DEF Next

THEOREM Invariance == Spec => []IInv
BY InitInvariant, NextInvariant, PTL DEF Spec

(* Every directory holds nothing, a generation or a broken tree; no rename   *)
(* of the transaction or of its recovery meets an occupied target; and a     *)
(* dist that does not validate has a backup that does, or the project never  *)
(* had an accepted output.                                                   *)
THEOREM AlwaysRecoverable == Spec => []Recoverable
<1>1. IInv => Recoverable
  BY DEF IInv, Recoverable
<1> QED BY <1>1, Invariance, PTL

-----------------------------------------------------------------------------
(* Only publishing, undoing, committing and recovery change what the next    *)
(* recovery leaves in dist; every other step of the owner is a stutter.      *)
AcceptedOutput == <<Survivor, first>>

LEMMA DiskStutters ==
  ASSUME UNCHANGED <<dist, rollback, first>> PROVE UNCHANGED AcceptedOutput
BY DEF AcceptedOutput, Survivor

LEMMA RecoverySimulates ==
  ASSUME IInv, Recovery PROVE Output!Next \/ UNCHANGED AcceptedOutput
<1> USE TreeAssumption DEF IInv, TypeOK, Tree, Whole, Output!Whole, Output!New
<1>1. CASE \/ Start \/ ClearRejected \/ ClearVerification \/ DropRejected \/ DropStage \/ Refuse
  BY <1>1, DiskStutters DEF Start, ClearRejected, ClearVerification, DropRejected,
     DropStage, Refuse, disk
<1>2. CASE ClearStage
  <2>1. CASE first /\ dist # Broken
    BY <1>2, <2>1 DEF ClearStage, Transaction, Provisional, Survivor, Output!Next, Output!Accept
  <2>2. CASE ~(first /\ dist # Broken)
    BY <1>2, <2>2, DiskStutters DEF ClearStage
  <2> QED BY <2>1, <2>2
<1>3. CASE SetAside
  BY <1>3 DEF SetAside, Transaction, Survivor, AcceptedOutput
<1>4. CASE Restore
  BY <1>4 DEF Restore, RenameTargetsFree, Survivor, AcceptedOutput
<1> QED BY <1>1, <1>2, <1>3, <1>4 DEF Recovery

LEMMA ProductionSimulates ==
  ASSUME IInv, Production PROVE UNCHANGED AcceptedOutput
BY DiskStutters DEF Production, Leave, Emit, EmitFails, Emitted, Verify, Verified,
   Discard, disk

LEMMA AcceptanceSimulates ==
  ASSUME IInv, Acceptance PROVE Output!Next \/ UNCHANGED AcceptedOutput
<1> USE TreeAssumption DEF IInv, TypeOK, Tree, Whole, Transaction, Provisional, Overlaps,
       Output!Whole, Output!New
<1>1. CASE AcceptRefused \/ Check \/ RollBack \/ UndoClear \/ CommitClear
  BY <1>1, DiskStutters DEF AcceptRefused, Check, RollBack, UndoClear, CommitClear, disk
<1>2. CASE BeginAccept
  <2>1. CASE first
    BY <1>2, <2>1 DEF BeginAccept, Unsettled, Survivor, Output!Next, Output!Accept
  <2>2. CASE ~first
    BY <1>2, <2>2 DEF BeginAccept, Unsettled, Survivor, AcceptedOutput
  <2> QED BY <2>1, <2>2
<1>3. CASE Publish
  <2>1. CASE previous
    BY <1>3, <2>1 DEF Publish, Survivor, AcceptedOutput
  <2>2. CASE ~previous
    BY <1>3, <2>2 DEF Publish, RenameTargetsFree, Survivor, Output!Next, Output!Appear
  <2> QED BY <2>1, <2>2
<1>4. CASE Undo
  <2>1. CASE first
    BY <1>4, <2>1 DEF Undo, Survivor, Output!Next, Output!Withdraw
  <2>2. CASE ~first
    BY <1>4, <2>2 DEF Undo, Survivor, AcceptedOutput
  <2> QED BY <2>1, <2>2
<1>5. CASE UndoRestore
  BY <1>5 DEF UndoRestore, RestoresPrevious, RenameTargetsFree, Survivor, AcceptedOutput
<1>6. CASE Commit
  <2>1. CASE previous
    BY <1>6, <2>1 DEF Commit, BackedUp, Survivor, Output!Next, Output!Replace
  <2>2. CASE ~previous /\ first
    BY <1>6, <2>2 DEF Commit, Survivor, Output!Next, Output!Accept
  <2>3. CASE ~previous /\ ~first
    BY <1>6, <2>3 DEF Commit, Survivor, AcceptedOutput
  <2> QED BY <2>1, <2>2, <2>3
<1> QED BY <1>1, <1>2, <1>3, <1>4, <1>5, <1>6 DEF Acceptance

LEMMA EnvironmentSimulates ==
  ASSUME IInv, Environment PROVE UNCHANGED AcceptedOutput
BY DiskStutters DEF Environment, CallFails, Crash, OrphanWrites, OrphanEnds, CutShort, disk

(* Through every crash, failed call and orphaned emission the accepted       *)
(* output is replaced as a whole, only by commit(), and never lost; what     *)
(* replaces it was written by one emission, unless an orphan was alive when  *)
(* that began.                                                               *)
THEOREM AtomicReplacement == Spec => OutputIsAtomic
<1>1. Init => Output!Init
  BY TreeAssumption DEF Init, Output!Init, Survivor, Whole, Output!Whole
<1>2. ASSUME IInv, [Next]_vars PROVE [Output!Next]_AcceptedOutput
  <2>1. CASE UNCHANGED vars
    BY <2>1, DiskStutters DEF vars, disk
  <2> QED
    BY <1>2, <2>1, RecoverySimulates, ProductionSimulates, AcceptanceSimulates,
       EnvironmentSimulates DEF Next
<1> QED BY <1>1, <1>2, Invariance, PTL DEF Spec, OutputIsAtomic, Output!Spec, AcceptedOutput

(* What recovery, rollback and commit leave behind is an accepted dist and   *)
(* nothing else, unless a call failed.                                       *)
THEOREM CleanReturns == Spec => ReturnsClean
<1> DEFINE Clean == rollback' = Absent /\ rejected' = Absent /\ dist' # Broken /\ ~first'
           From == at \in RecoveryPlaces \cup {"undoClear", "committing"}
<1>1. ASSUME IInv, Next, at' = "idle", From, ~CallFails PROVE Clean
  <2> USE <1>1, TreeAssumption DEF IInv, TypeOK, Transaction, RecoveryPlaces
  <2>1. CASE Recovery
    <3>1. CASE ClearStage
      <4>1. rollback' = Absent /\ rejected' = Absent /\ dist' = dist /\ dist # Broken
        BY <3>1 DEF ClearStage
      <4>2. first' = FALSE
        BY <3>1, <4>1 DEF ClearStage
      <4> QED BY <4>1, <4>2
    <3>2. CASE DropStage
      BY <3>2 DEF DropStage
    <3>3. CASE ~ClearStage /\ ~DropStage
      BY <2>1, <3>3 DEF Recovery, Start, ClearRejected, ClearVerification, SetAside,
         Restore, DropRejected, Refuse
    <3> QED BY <3>1, <3>2, <3>3
  <2>2. CASE Production
    BY <2>2 DEF Production, Leave, Emit, EmitFails, Emitted, Verify, Verified, Discard
  <2>3. CASE Acceptance
    <3>1. CASE UndoClear \/ CommitClear
      BY <3>1 DEF UndoClear, CommitClear
    <3>2. CASE ~(UndoClear \/ CommitClear)
      BY <2>3, <3>2 DEF Acceptance, AcceptRefused, Acceptable, BeginAccept, Publish, Check,
         RollBack, Undo, UndoRestore, Commit
    <3> QED BY <3>1, <3>2
  <2>4. CASE Environment
    BY <2>4 DEF Environment, Crash, OrphanWrites, OrphanEnds
  <2> QED BY <2>1, <2>2, <2>3, <2>4 DEF Next
<1>2. ASSUME IInv, [Next]_vars
      PROVE [at' = "idle" /\ From /\ ~CallFails => Clean]_vars
  BY <1>1, <1>2
<1> QED BY <1>2, Invariance, PTL DEF Spec, ReturnsClean

-----------------------------------------------------------------------------
(* The project lock.  Refusing are the places of a command that gives up.     *)
Finished == {"exited", "crashed"}
Refusing == {"compare", "cleanup"} \cup Finished

(* LockTypeOK with the functions' domains, and what a process that read the lock *)
(* knows: whom it found there, and that a process it takes for dead is.      *)
Typed ==
  /\ lock \in Process \cup {None} /\ writer \in Process \cup {None}
  /\ stale \in [Process -> Process \cup {None}] /\ seen \in [Process -> Process \cup {None}]
  /\ attempts \in [Process -> 0..MaxAttempts] /\ place \in [Process -> LockPlaces]
  /\ \A p \in Process :
       /\ place[p] \in Trying => attempts[p] < MaxAttempts
       /\ place[p] \in {"probe", "steal", "compare"} => seen[p] \in Process
       /\ place[p] \in {"steal", "compare"} => place[seen[p]] \in Finished
       /\ stale[p] # None => place[p] \in Refusing /\ seen[p] \in Process
                             /\ place[seen[p]] \in Finished /\ seen[p] # p

(* An owner whose file is no longer the lock was robbed: some command that   *)
(* meant to take a dead owner's lock renamed this one away.                  *)
Robbed(h) == \E t \in Process : stale[t] = h /\ stale[t] # seen[t]
Explained == \A h \in Holders : lock = h \/ Robbed(h)

LEMMA RetryFact ==
  ASSUME Typed, NEW p \in Process, place[p] \in Trying, Retry(p)
  PROVE  /\ attempts' \in [Process -> 0..MaxAttempts]
         /\ \A q \in Process : q # p => attempts'[q] = attempts[q]
         /\ \E next \in {"link", "cleanup", "exited"} :
              place' = [place EXCEPT ![p] = next] /\ (next = "link" => attempts'[p] < MaxAttempts)
<1>1. PICK n : n = attempts[p]
  OBVIOUS
<1>2. n \in 0..MaxAttempts /\ MaxAttempts \in Nat \ {0}
  BY <1>1, OwnershipAssumption DEF Typed
<1>3. attempts' = [attempts EXCEPT ![p] = n + 1]
  BY <1>1 DEF Retry, Typed
<1>4. n + 1 \in 0..MaxAttempts
  BY <1>1, <1>2 DEF Typed
<1>5. attempts' \in [Process -> 0..MaxAttempts] /\ attempts'[p] = n + 1
      /\ \A q \in Process : q # p => attempts'[q] = attempts[q]
  BY <1>3, <1>4 DEF Typed
<1> QED
  BY <1>1, <1>5 DEF Retry, Refused, Go

LEMMA LockTyped ==
  ASSUME Typed, [LockNext]_lockVars
  PROVE  Typed'
<1> USE DEF Typed, LockPlaces, Trying, Holding, Refusing, Finished, Go
<1>1. MaxAttempts \in Nat /\ None \notin Process
  BY OwnershipAssumption
<1>2. ASSUME NEW p \in Process, Link(p) PROVE Typed'
  BY <1>1, <1>2 DEF Link
<1>3. ASSUME NEW p \in Process, Exists(p) PROVE Typed'
  BY <1>1, <1>3, RetryFact DEF Exists
<1>4. ASSUME NEW p \in Process, Read(p) PROVE Typed'
  BY <1>1, <1>4 DEF Read, Refused
<1>5. ASSUME NEW p \in Process, Probe(p) PROVE Typed'
  BY <1>1, <1>5 DEF Probe, Refused, Gone, Alive
<1>6. ASSUME NEW p \in Process, Steal(p) PROVE Typed'
  BY <1>1, <1>6, RetryFact DEF Steal
<1>7. ASSUME NEW p \in Process, Compare(p) PROVE Typed'
  BY <1>1, <1>7, RetryFact DEF Compare, Refused
<1>8. ASSUME NEW p \in Process, Own(p) PROVE Typed'
  BY <1>1, <1>8 DEF Own, Recover, Stage, Accept, Quit, Cleanup,
     Release, Unlink
<1>9. ASSUME NEW p \in Process, Killed(p) PROVE Typed'
  BY <1>1, <1>9 DEF Killed, Alive
<1>10. CASE UNCHANGED lockVars
  BY <1>10 DEF lockVars
<1> QED
  BY <1>2, <1>3, <1>4, <1>5, <1>6, <1>7, <1>8, <1>9, <1>10 DEF LockNext, Acquire, AllGone

(* A robbed owner stays robbed until it is gone. *)
LEMMA RobbedStays ==
  ASSUME Typed, [LockNext]_lockVars, NEW t \in Process, stale[t] \notin {None, seen[t]}
  PROVE  stale'[t] = stale[t] /\ seen'[t] = seen[t]
<1> USE DEF Typed, Refusing, Finished
<1>1. place[t] \in Refusing
  OBVIOUS
<1>2. ASSUME NEW p \in Process, Acquire(p) PROVE stale'[t] = stale[t] /\ seen'[t] = seen[t]
  BY <1>1, <1>2 DEF Acquire, Link, Exists, Read, Probe, Steal, Compare
<1>3. ASSUME NEW p \in Process, Own(p) \/ Killed(p) PROVE stale'[t] = stale[t] /\ seen'[t] = seen[t]
  BY <1>3 DEF Own, Recover, Stage, Accept, Quit, Cleanup,
     Release, Unlink, Killed
<1>4. CASE UNCHANGED lockVars
  BY <1>4 DEF lockVars
<1> QED
  BY <1>2, <1>3, <1>4 DEF LockNext, AllGone

(* What a step does to the lock and to those who hold it. *)
LEMMA HoldersStep ==
  ASSUME Typed, [LockNext]_lockVars
  PROVE  \/ lock' = lock /\ Holders' \subseteq Holders
         \/ \E p \in Process : lock = None /\ lock' = p /\ Holders' = Holders \cup {p}
         \/ \E p \in Process : /\ lock # None /\ lock' = None /\ Holders' = Holders
                               /\ stale'[p] = lock /\ seen'[p] = seen[p] /\ place[seen[p]] \in Finished
         \/ \E p \in Holders : lock' = None /\ Holders' = Holders \ {p}
<1> USE DEF Typed, LockPlaces, Trying, Holding, Refusing, Finished, Go, Holders
<1>1. ASSUME NEW p \in Process, Link(p)
      PROVE \/ lock' = lock /\ Holders' \subseteq Holders
            \/ lock = None /\ lock' = p /\ Holders' = Holders \cup {p}
  BY <1>1 DEF Link
<1>2. ASSUME NEW p \in Process, Exists(p) \/ Read(p) \/ Probe(p) \/ Compare(p)
      PROVE lock' = lock /\ Holders' \subseteq Holders
  BY <1>2 DEF Exists, Read, Probe, Compare, Retry, Refused
<1>3. ASSUME NEW p \in Process, Steal(p)
      PROVE \/ lock' = lock /\ Holders' \subseteq Holders
            \/ /\ lock # None /\ lock' = None /\ Holders' = Holders
               /\ stale'[p] = lock /\ seen'[p] = seen[p] /\ place[seen[p]] \in Finished
  BY <1>3 DEF Steal, Retry, Refused
<1>4. ASSUME NEW p \in Process, Unlink(p)
      PROVE p \in Holders /\ lock' = None /\ Holders' = Holders \ {p}
  BY <1>4 DEF Unlink
<1>5. ASSUME NEW p \in Process, Own(p), ~Unlink(p)
      PROVE lock' = lock /\ Holders' \subseteq Holders
  BY <1>5 DEF Own, Recover, Stage, Accept, Quit, Cleanup, Release
<1>6. ASSUME NEW p \in Process, Killed(p)
      PROVE lock' = lock /\ Holders' \subseteq Holders
  BY <1>6 DEF Killed
<1>7. CASE UNCHANGED lockVars
  BY <1>7 DEF lockVars
<1> QED
  BY <1>1, <1>2, <1>3, <1>4, <1>5, <1>6, <1>7 DEF LockNext, Acquire, AllGone

(* One more element. *)
LEMMA OneMore ==
  ASSUME NEW S, IsFiniteSet(S), NEW x, x \notin S, NEW T, T = S \cup {x}
  PROVE  IsFiniteSet(T) /\ Cardinality(T) = Cardinality(S) + 1
BY FS_AddElement

(* Four different commands are more than three. *)
LEMMA FourAreMore ==
  ASSUME NEW S, IsFiniteSet(S), NEW a \in S, NEW b \in S, NEW c \in S, NEW d \in S,
         a # b, a # c, a # d, b # c, b # d, c # d
  PROVE  Cardinality(S) > 3
<1>1. IsFiniteSet({a}) /\ Cardinality({a}) = 1 /\ b \notin {a}
  BY FS_Singleton
<1>2. PICK two : two = {a} \cup {b}
  OBVIOUS
<1>3. IsFiniteSet(two) /\ Cardinality(two) = 2
  BY <1>1, <1>2, OneMore
<1>4. PICK three : three = two \cup {c}
  OBVIOUS
<1>5. c \notin two
  BY <1>2
<1>6. IsFiniteSet(three) /\ Cardinality(three) = 3
  BY <1>3, <1>4, <1>5, OneMore
<1>7. PICK four : four = three \cup {d}
  OBVIOUS
<1>8. d \notin three
  BY <1>2, <1>4
<1>9. Cardinality(four) = 4
  BY <1>6, <1>7, <1>8, OneMore
<1>10. four \in SUBSET S
  BY <1>2, <1>4, <1>7
<1> QED
  BY <1>9, <1>10, FS_Subset, FS_CardinalityType

(* The commands that were started are finitely many, and stay started. *)
LEMMA StartedGrows ==
  ASSUME Typed, [LockNext]_lockVars
  PROVE  /\ IsFiniteSet(Started) /\ IsFiniteSet(Started')
         /\ Cardinality(Started) <= Cardinality(Started')
         /\ Cardinality(Started) \in Nat /\ Cardinality(Started') \in Nat
<1> USE DEF Typed, Go
<1>1. MaxAttempts \in Nat
  BY OwnershipAssumption
<1>2. ASSUME NEW p \in Process, Exists(p) \/ Steal(p) \/ Compare(p) PROVE Started \subseteq Started'
  <2>1. Trying = {"link", "exists", "read", "probe", "steal", "compare"}
    BY DEF Trying
  <2>2. CASE Retry(p)
    <3>1. place[p] \in Trying
      BY <1>2, <2>1 DEF Exists, Steal, Compare
    <3>2. PICK n : n = attempts[p]
      OBVIOUS
    <3>3. n + 1 > 0 /\ attempts' = [attempts EXCEPT ![p] = n + 1]
      BY <1>1, <2>2, <3>2 DEF Retry
    <3>4. \A q \in Process : q # p => place'[q] = place[q]
      BY <2>2 DEF Retry, Refused
    <3> QED
      BY <3>3, <3>4 DEF Started
  <2>3. CASE ~Retry(p)
    BY <1>2, <2>3 DEF Exists, Steal, Compare, Refused, Started
  <2> QED
    BY <2>2, <2>3
<1>3. ASSUME NEW p \in Process, Link(p) \/ Read(p) \/ Probe(p) PROVE Started \subseteq Started'
  BY <1>3 DEF Link, Read, Probe, Refused, Started
<1>4. ASSUME NEW p \in Process, Own(p) \/ Killed(p) PROVE Started \subseteq Started'
  BY <1>4 DEF Own, Recover, Stage, Accept, Quit, Cleanup, Release, Unlink, Killed, Started
<1>5. ASSUME UNCHANGED lockVars PROVE Started \subseteq Started'
  BY <1>5 DEF lockVars, Started
<1>6. Started \subseteq Started'
  <2>1. ASSUME NEW p \in Process, Acquire(p) PROVE Started \subseteq Started'
    BY <1>2, <1>3, <2>1 DEF Acquire
  <2> QED
    BY <1>4, <1>5, <2>1 DEF LockNext, AllGone
<1>7. Started \subseteq Process /\ Started' \subseteq Process
  BY DEF Started
<1>8. IsFiniteSet(Started) /\ IsFiniteSet(Started')
  BY <1>7, OwnershipAssumption, FS_Subset
<1> QED
  BY <1>6, <1>8, FS_Subset, FS_CardinalityType

(* A second owner takes four commands: the two, the one that robbed the first *)
(* and the dead one it meant to rob.                                         *)
LEMMA ThreeExclude ==
  ASSUME Typed, Explained, IsFiniteSet(Started), ~(Cardinality(Started) > 3)
  PROVE  MutualExclusion
<1> SUFFICES ASSUME NEW h \in Holders, NEW g \in Holders, h # g PROVE FALSE
  BY DEF MutualExclusion
<1>1. PICK x \in {h, g} : Robbed(x)
  BY DEF Explained
<1>2. PICK y \in {h, g} : y # x
  OBVIOUS
<1>3. PICK t \in Process : stale[t] = x /\ stale[t] # seen[t]
  BY <1>1 DEF Robbed
<1>4. x \in Process /\ y \in Process /\ place[x] \in Holding /\ place[y] \in Holding
  BY DEF Holders
<1>5. place[t] \in Refusing /\ seen[t] \in Process /\ place[seen[t]] \in Finished /\ seen[t] # t
  BY <1>3, <1>4, OwnershipAssumption DEF Typed
<1>6. /\ t # x /\ t # y /\ seen[t] # x /\ seen[t] # y
  BY <1>3, <1>4, <1>5 DEF Refusing, Finished, Holding
<1>7. {x, y, t, seen[t]} \subseteq Started
  BY <1>4, <1>5 DEF Started, Holding, Refusing, Finished
<1>8. /\ x \in Started /\ y \in Started /\ t \in Started /\ seen[t] \in Started
      /\ x # y /\ seen[t] # t
  BY <1>2, <1>5, <1>7
<1>9. Cardinality(Started) > 3
  BY <1>6, <1>8, FourAreMore
<1> QED
  BY <1>9

(* While no two commands own the project, whoever is not the owner on file   *)
(* was robbed.                                                               *)
LEMMA ExplainedKeeps ==
  ASSUME Typed, Explained, MutualExclusion, [LockNext]_lockVars
  PROVE  Explained'
<1> SUFFICES ASSUME NEW h \in Holders', lock' # h PROVE Robbed(h)'
  BY DEF Explained
<1>1. ASSUME h \in Holders, Robbed(h) PROVE Robbed(h)'
  <2>1. PICK t \in Process : stale[t] = h /\ stale[t] # seen[t]
    BY <1>1 DEF Robbed
  <2>2. stale[t] \notin {None, seen[t]}
    BY <1>1, <2>1, OwnershipAssumption DEF Holders
  <2>3. stale'[t] = stale[t] /\ seen'[t] = seen[t]
    BY <2>2, RobbedStays
  <2> QED
    BY <2>1, <2>3 DEF Robbed
<1>2. CASE lock' = lock /\ Holders' \subseteq Holders
  BY <1>1, <1>2 DEF Explained
<1>3. CASE \E p \in Process : lock = None /\ lock' = p /\ Holders' = Holders \cup {p}
  <2>1. h \in Holders /\ lock = None
    BY <1>3
  <2>2. lock # h
    BY <2>1, OwnershipAssumption DEF Holders
  <2> QED
    BY <1>1, <2>1, <2>2 DEF Explained
<1>4. ASSUME NEW p \in Process, lock # None, lock' = None, Holders' = Holders,
             stale'[p] = lock, seen'[p] = seen[p], place[seen[p]] \in Finished
      PROVE  Robbed(h)'
  <2>1. h \in Holders /\ place[h] \in Holding
    BY <1>4 DEF Holders
  <2>2. CASE lock = h
    <3>1. stale'[p] = h /\ stale'[p] # seen'[p]
      BY <1>4, <2>1, <2>2 DEF Finished, Holding
    <3> QED
      BY <3>1 DEF Robbed
  <2> QED
    BY <1>1, <2>1, <2>2 DEF Explained
<1>5. CASE \E p \in Holders : lock' = None /\ Holders' = Holders \ {p}
  BY <1>5 DEF MutualExclusion
<1> QED
  BY <1>2, <1>3, <1>4, <1>5, HoldersStep

OnFile == Displaced \/ \A h \in Holders : lock = h

LEMMA OnFileKeeps ==
  ASSUME Typed, OnFile, [LockNext]_lockVars
  PROVE  OnFile'
<1>1. CASE Displaced
  <2>1. PICK t \in Process : stale[t] \notin {None, seen[t]}
    BY <1>1 DEF Displaced
  <2>2. stale'[t] = stale[t] /\ seen'[t] = seen[t]
    BY <2>1, RobbedStays
  <2> QED
    BY <2>1, <2>2 DEF OnFile, Displaced
<1>2. CASE \A h \in Holders : lock = h
  <2>1. CASE lock' = lock /\ Holders' \subseteq Holders
    BY <1>2, <2>1 DEF OnFile
  <2>2. CASE \E p \in Process : lock = None /\ lock' = p /\ Holders' = Holders \cup {p}
    <3>1. Holders = {}
      BY <1>2, <2>2, OwnershipAssumption DEF Holders
    <3> QED
      BY <2>2, <3>1 DEF OnFile
  <2>3. ASSUME NEW p \in Process, lock # None, lock' = None, Holders' = Holders,
               stale'[p] = lock, seen'[p] = seen[p], place[seen[p]] \in Finished
        PROVE  OnFile'
    <3>1. CASE lock = seen[p]
      <4>1. Holders = {}
        BY <1>2, <2>3, <3>1 DEF Holders, Holding, Finished
      <4> QED
        BY <2>3, <4>1 DEF OnFile
    <3>2. CASE lock # seen[p]
      BY <2>3, <3>2 DEF OnFile, Displaced
    <3> QED
      BY <3>1, <3>2
  <2>4. CASE \E p \in Holders : lock' = None /\ Holders' = Holders \ {p}
    BY <1>2, <2>4 DEF OnFile
  <2> QED
    BY <2>1, <2>2, <2>3, <2>4, HoldersStep
<1> QED
  BY <1>1, <1>2 DEF OnFile

LEMMA LockBegins ==
  ASSUME LockInit
  PROVE  Typed /\ Explained /\ OnFile
<1>1. Holders = {}
  BY DEF LockInit, Holders, Holding
<1>2. Typed
  BY OwnershipAssumption DEF LockInit, Typed, LockPlaces, Trying
<1> QED
  BY <1>1, <1>2 DEF Explained, OnFile

(* While at most three commands have been started, every owner off file was  *)
(* robbed.                                                                   *)
FewExplained == Cardinality(Started) > 3 \/ Explained

(* Of any number of commands, however often they are killed and try again,   *)
(* the one on file is the owner until one of them renames away a lock other  *)
(* than the one it had read (acquireBuildLock renames before it compares),   *)
(* and two own the project only when four have been started.                 *)
THEOREM OwnershipIsExclusive == LockSpec => []OneOwner
<1>1. LockInit => Typed /\ OnFile /\ FewExplained
  BY LockBegins DEF FewExplained
<1>2. ASSUME Typed, OnFile, FewExplained, [LockNext]_lockVars
      PROVE  Typed' /\ OnFile' /\ FewExplained'
  <2>1. Typed' /\ OnFile'
    BY <1>2, LockTyped, OnFileKeeps
  <2>2. ASSUME Cardinality(Started) > 3 PROVE FewExplained'
    <3>1. PICK n, m : n = Cardinality(Started) /\ m = Cardinality(Started')
      OBVIOUS
    <3>2. n \in Nat /\ m \in Nat /\ n <= m
      BY <1>2, <3>1, StartedGrows
    <3>3. m > 3
      BY <2>2, <3>1, <3>2
    <3> QED
      BY <3>1, <3>3 DEF FewExplained
  <2>3. ASSUME ~(Cardinality(Started) > 3) PROVE FewExplained'
    <3>1. Explained /\ IsFiniteSet(Started)
      BY <1>2, <2>3, StartedGrows DEF FewExplained
    <3>2. MutualExclusion
      BY <1>2, <2>3, <3>1, ThreeExclude
    <3> QED
      BY <1>2, <3>1, <3>2, ExplainedKeeps DEF FewExplained
  <2> QED
    BY <2>1, <2>2, <2>3
<1>3. ASSUME Typed, OnFile, FewExplained PROVE OneOwner
  <2>1. LockTypeOK
    BY <1>3 DEF LockTypeOK, Typed
  <2>2. IsFiniteSet(Started)
    BY OwnershipAssumption, FS_Subset DEF Started
  <2>3. MutualExclusion \/ Cardinality(Started) > 3
    BY <1>3, <2>2, ThreeExclude DEF FewExplained
  <2> QED
    BY <1>3, <2>1, <2>3 DEF OneOwner, OnFile
<1> QED
  BY <1>1, <1>2, <1>3, PTL DEF LockSpec

===============================================================================
