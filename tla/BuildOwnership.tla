---------------------------- MODULE BuildOwnership ----------------------------
(***************************************************************************)
(* The project lock of "fadeno build" and "fadeno dev"                     *)
(* (internal/project-build.ts: acquireBuildLock, the constructor of        *)
(* PrivateProjectGenerationOwner and runProjectBuildCommand), as the       *)
(* interleaving of the file system calls of several processes.  The lock   *)
(* file holds the identity of the process that linked it; a file whose     *)
(* process is gone is renamed away, compared and removed.  BuildTransaction *)
(* models what the owner does; here it stages one tree and accepts it.     *)
(***************************************************************************)
EXTENDS Naturals, FiniteSets

CONSTANTS
  Process,       \* commands started on one project, each its own process
  Builder,       \* those that are "fadeno build"; the others are "dev"
  Mortal,        \* those that may be killed
  MaxAttempts,   \* 8 in the code
  None

ASSUME OwnershipAssumption ==
  /\ IsFiniteSet(Process) /\ Builder \subseteq Process /\ Mortal \subseteq Process
  /\ None \notin Process /\ MaxAttempts \in Nat \ {0}

VARIABLES
  lock,       \* content of .fadeno/build-lock
  stale,      \* what each process renamed away
  seen,       \* the content each process read
  attempts,
  place,      \* each process's next file system call
  writer      \* who wrote .fadeno/build-stage/generation-1

lockVars == <<lock, stale, seen, attempts, place, writer>>

Trying == {"link", "exists", "read", "probe", "steal", "compare"}
Holding == {"recover", "owner", "staged", "abandon", "release", "unlink"}
LockPlaces == Trying \cup Holding \cup {"cleanup", "exited", "crashed"}

Alive(p) == place[p] \notin {"exited", "crashed"}
Holders == {p \in Process : place[p] \in Holding}

LockInit ==
  /\ lock = None /\ writer = None
  /\ stale = [p \in Process |-> None] /\ seen = [p \in Process |-> None]
  /\ attempts = [p \in Process |-> 0]
  /\ place = [p \in Process |-> "link"]

Go(p, next) == place' = [place EXCEPT ![p] = next]

-----------------------------------------------------------------------------
(* acquireBuildLock *)
Link(p) ==
  /\ place[p] = "link"
  /\ IF lock = None THEN lock' = p /\ Go(p, "recover")
                    ELSE Go(p, "exists") /\ UNCHANGED lock
  /\ UNCHANGED <<stale, seen, attempts, writer>>

(* The command's catch runs after a failed acquisition too. *)
Refused_waits(p) == Go(p, "link")        \* mutant: waits for a living owner
Refused(p) == Go(p, IF p \in Builder THEN "cleanup" ELSE "exited")

Retry(p) ==
  /\ attempts' = [attempts EXCEPT ![p] = @ + 1]
  /\ IF attempts[p] + 1 < MaxAttempts THEN Go(p, "link") ELSE Refused(p)

Exists(p) ==
  /\ place[p] = "exists"
  /\ IF lock = None THEN Retry(p) ELSE Go(p, "read") /\ UNCHANGED attempts
  /\ UNCHANGED <<lock, stale, seen, writer>>

Read(p) ==
  /\ place[p] = "read"
  /\ IF lock = None THEN Refused(p) /\ UNCHANGED seen
                    ELSE Go(p, "probe") /\ seen' = [seen EXCEPT ![p] = lock]
  /\ UNCHANGED <<lock, stale, attempts, writer>>

Gone_never(q) == FALSE          \* mutant: every owner is taken to be alive
Gone_always(q) == TRUE          \* mutant: every owner is taken to be dead
Gone(q) == ~Alive(q)            \* kill(pid, 0) reports ESRCH

Probe(p) ==
  /\ place[p] = "probe"
  /\ IF Gone(seen[p]) THEN Go(p, "steal") ELSE Refused(p)
  /\ UNCHANGED <<lock, stale, seen, attempts, writer>>

Steal(p) ==
  /\ place[p] = "steal"
  /\ IF lock = None THEN Retry(p) /\ UNCHANGED <<lock, stale>>
     ELSE /\ stale' = [stale EXCEPT ![p] = lock] /\ lock' = None
          /\ Go(p, "compare") /\ UNCHANGED attempts
  /\ UNCHANGED <<seen, writer>>

Compare(p) ==
  /\ place[p] = "compare"
  /\ IF stale[p] = seen[p] THEN Retry(p) /\ stale' = [stale EXCEPT ![p] = None]
     ELSE Refused(p) /\ UNCHANGED <<attempts, stale>>
  /\ UNCHANGED <<lock, seen, writer>>

-----------------------------------------------------------------------------
(* The owner: recovery clears the stage, an emission fills it, an acceptance *)
(* renames it to dist, failing when it is not what was staged.  Only "dev"   *)
(* goes on to a next generation.                                             *)
Recover(p) ==
  /\ place[p] = "recover"
  /\ writer' = None /\ Go(p, "owner")
  /\ UNCHANGED <<lock, stale, seen, attempts>>

Stage(p) ==
  /\ place[p] = "owner"
  /\ writer' = p /\ Go(p, "staged")
  /\ UNCHANGED <<lock, stale, seen, attempts>>

Accept(p) ==
  /\ place[p] = "staged"
  /\ IF writer = p
     THEN /\ writer' = None
          /\ \E next \in {"release"} \cup (IF p \in Builder THEN {} ELSE {"owner"}) : Go(p, next)
     ELSE UNCHANGED writer /\ Go(p, "abandon")
  /\ UNCHANGED <<lock, stale, seen, attempts>>

Quit(p) ==
  /\ place[p] = "owner" /\ Go(p, "release")
  /\ UNCHANGED <<lock, stale, seen, attempts, writer>>

(* cleanupBuildCandidate, by an owner that failed or a command that was      *)
(* refused.                                                                  *)
Cleanup(p) ==
  /\ place[p] \in {"abandon", "cleanup"}
  /\ writer' = None
  /\ Go(p, IF place[p] = "abandon" THEN "release" ELSE "exited")
  /\ UNCHANGED <<lock, stale, seen, attempts>>

(* The release function compares the file, then removes it. *)
Release(p) ==
  /\ place[p] = "release"
  /\ Go(p, IF lock = p THEN "unlink" ELSE "exited")
  /\ UNCHANGED <<lock, stale, seen, attempts, writer>>

Unlink(p) ==
  /\ place[p] = "unlink"
  /\ lock' = None /\ Go(p, "exited")
  /\ UNCHANGED <<stale, seen, attempts, writer>>

Killed(p) ==
  /\ p \in Mortal /\ Alive(p) /\ Go(p, "crashed")
  /\ UNCHANGED <<lock, stale, seen, attempts, writer>>

AllGone == (\A p \in Process : ~Alive(p)) /\ UNCHANGED lockVars

Acquire(p) == Link(p) \/ Exists(p) \/ Read(p) \/ Probe(p) \/ Steal(p) \/ Compare(p)
Own(p) == \/ Recover(p) \/ Stage(p) \/ Accept(p) \/ Quit(p) \/ Cleanup(p)
          \/ Release(p) \/ Unlink(p)

LockNext == (\E p \in Process : Acquire(p) \/ Own(p) \/ Killed(p)) \/ AllGone
LockSpec == LockInit /\ [][LockNext]_lockVars
FairLockSpec == LockSpec /\ \A p \in Process : WF_lockVars(Acquire(p))

-----------------------------------------------------------------------------
LockTypeOK ==
  /\ lock \in Process \cup {None} /\ writer \in Process \cup {None}
  /\ {stale[p] : p \in Process} \cup {seen[p] : p \in Process} \subseteq Process \cup {None}
  /\ \A p \in Process : attempts[p] \in 0..MaxAttempts
  /\ \A p \in Process : place[p] \in LockPlaces

(* "Build ownership is exclusive per project": two processes never own it.   *)
MutualExclusion == \A p, q \in Holders : p = q

(* The commands that have done anything yet, those that are gone included. *)
Started == {p \in Process : place[p] # "link" \/ attempts[p] > 0}

(* A command renamed away a lock other than the one it had read and probed:  *)
(* the file stays beside the lock.                                           *)
Displaced == \E p \in Process : stale[p] \notin {None, seen[p]}

(* However many commands compete, are killed and try again, the lock names   *)
(* every owner, so that there is one, until a command displaces a lock it    *)
(* did not read; and two own the project together only when at least four    *)
(* commands have been started on it in all, finished and killed ones         *)
(* included.                                                                 *)
OneOwner ==
  /\ LockTypeOK
  /\ Displaced \/ \A p \in Holders : lock = p
  /\ MutualExclusion \/ Cardinality(Started) > 3

(* Taking or refusing the lock ends, and the lock of a killed owner does not *)
(* refuse the next command when no other is left.                            *)
AcquisitionEnds == \A p \in Process : place[p] = "link" ~> place[p] \notin Trying
Alone(p) == \A q \in Process \ {p} : ~Alive(q)
StaleLockRecovered ==
  \A p \in Process \ Mortal :
    (place[p] = "link" /\ attempts[p] = 0 /\ Alone(p)) ~> place[p] \in Holding
===============================================================================
