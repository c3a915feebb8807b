----------------------------- MODULE DevSupervisor -----------------------------
(***************************************************************************)
(* "fadeno dev": the supervisor that rebuilds a project when its files     *)
(* change and swaps the server child.                                      *)
(*   internal/project-dev.ts          child, target (refresh and switch),  *)
(*                                    command (signals, shutdown, exit)    *)
(*   internal/build-dev-decision.ts   PrivateDevelopmentDecisionModel      *)
(* The invalidation adapter is reduced to "a notice is pending", "a cycle  *)
(* runs" and its close() (InvalidationAdapter models it in full), and analysis, *)
(* emission and the dist transaction to their outcomes.                    *)
(*                                                                         *)
(* A refresh stands at the await it is suspended in:                       *)
(*   idle       no active refresh                                          *)
(*   analyzing  analyzer refresh and generationOwner.prepare               *)
(*   draining   previous.child.stop()                                      *)
(*   accepting  staged.accept                                              *)
(*   starting   PrivateDevelopmentChild.start of the candidate             *)
(*   restoring  PrivateDevelopmentChild.start of the previous generation   *)
(* A generation is named by the refresh that produced it, a child by the   *)
(* order of its spawn, and 0 stands for null.                              *)
(***************************************************************************)
EXTENDS Naturals

CONSTANTS
  MaxEdits,       \* bound on edits of the workspace
  MaxChildren,    \* bound on spawned children
  MaxSignals,     \* bound on termination signals
  Faults          \* unlikely failures: each behaviour admits some of them

ASSUME DevAssumption ==
  /\ MaxEdits \in Nat \ {0} /\ MaxSignals \in Nat /\ MaxChildren \in Nat \ {0}
  /\ Faults \subseteq {"drain-deadline", "restart-fails", "crash", "file-system"}

Child == 1..MaxChildren
Places == {"idle", "analyzing", "draining", "accepting", "starting", "restoring"}

VARIABLES
  work,       \* version of the workspace files
  noticed,    \* version of the last delivered watcher notification
  pending,    \* the adapter holds an accepted notification
  refresh,    \* #active: place, signal, captured previous child, its version
  current,    \* #current.child
  children,   \* #children
  child,      \* the processes: status, flags, generation and environment they run
  dist,       \* the output, its rollback copy, and whether one was left behind
  sequence,   \* #sequence
  decision,   \* PrivateDevelopmentDecisionModel
  closing,    \* shutdown: place of adapter.close(), timer, forced flags
  command,    \* the command's await and exit code
  signals,
  faults      \* the unlikely failures this behaviour admits

vars == <<work, noticed, pending, refresh, current, children, child, dist,
          sequence, decision, closing, command, signals>>

Idle == [place |-> "idle", aborted |-> FALSE, previous |-> 0, candidate |-> 0,
         version |-> 0, expired |-> FALSE, error |-> "none"]
(* dist is missing, an earlier command's, or not what a refresh staged. *)
NoOutput == [generation |-> 0, version |-> 0]

Init ==
  /\ work = 1 /\ noticed = 1
  /\ pending = TRUE                 \* adapter.flush() admits the first rescan
  /\ refresh = Idle
  /\ current = 0 /\ children = {}
  /\ child = [c \in Child |-> [status |-> "none", intentional |-> FALSE,
                               killed |-> FALSE, generation |-> 0, environment |-> 0]]
  /\ dist = [now |-> NoOutput, rollback |-> NoOutput, open |-> FALSE, left |-> FALSE]
  /\ sequence = 0
  /\ decision = [state |-> "starting", accepted |-> 0, candidate |-> 0]
  /\ closing = [place |-> "none", closed |-> FALSE, timer |-> FALSE,
                forced |-> FALSE, byFailure |-> FALSE, expired |-> FALSE]
  /\ command = [place |-> "startup", exit |-> 0, last |-> "none"]
  /\ signals = 0
  /\ faults \in SUBSET Faults

Alive(c) == child[c].status \in {"starting", "listening"}
Accepting == closing.place = "none"
Spawnable == {c \in Child : child[c].status = "none"}
NextChild == CHOOSE c \in Spawnable : \A d \in Spawnable : c <= d

-----------------------------------------------------------------------------
(* The children as processes.  kill(SIGKILL) is a flag that ends in an exit. *)
Killed(ch, S) == [c \in Child |->
  IF c \in S /\ ch[c].status \in {"starting", "listening"}
  THEN [ch[c] EXCEPT !.killed = TRUE, !.intentional = TRUE] ELSE ch[c]]

(* A child runs the files in dist, with the environment it is given. *)
Spawned(ch, c, generation, environment) ==
  [ch EXCEPT ![c] = [status |-> "starting", intentional |-> FALSE, killed |-> FALSE,
                     generation |-> generation, environment |-> environment]]

(* Aborting the refresh's signal forces the candidate that is starting; the  *)
(* child being restored listens to a signal of its own.                      *)
AbortKills ==
  IF refresh.place = "starting" THEN {refresh.candidate} ELSE {}
AbortedRefresh ==
  IF refresh.place = "idle" THEN refresh ELSE [refresh EXCEPT !.aborted = TRUE]

(* PrivateDevelopmentTarget.force(): the registered children. *)
OwnedByForce == children

-----------------------------------------------------------------------------
(* PrivateDevelopmentDecisionModel *)
Refused(d) ==
  IF d.state \in {"preparing", "switching"}
  THEN [d EXCEPT !.state = "ready", !.candidate = 0] ELSE d
Signalled(d) ==
  CASE d.state = "stopping" -> [d EXCEPT !.state = "forced"]
    [] d.state \in {"stopped", "forced"} -> d
    [] OTHER -> [d EXCEPT !.state = "stopping", !.candidate = 0]

-----------------------------------------------------------------------------
(* beginShutdown(): the first call closes the adapter, whose close() aborts  *)
(* the active refresh and waits for it; a later call forces.                 *)
Shutdown(ch, failure) ==
  IF closing.place # "none"
  THEN /\ closing' = [closing EXCEPT !.forced = TRUE]
       /\ decision' = Signalled(decision)
       /\ refresh' = AbortedRefresh
       /\ child' = Killed(ch, OwnedByForce \cup AbortKills)
       /\ command' = IF command.place = "exited" THEN command
                     ELSE [command EXCEPT !.place = "exited", !.exit = 3]
       /\ UNCHANGED pending
  ELSE /\ closing' = [closing EXCEPT !.place = "awaiting", !.timer = TRUE,
                                     !.byFailure = failure]
       /\ decision' = Signalled(decision)
       /\ pending' = FALSE
       /\ refresh' = AbortedRefresh
       /\ child' = Killed(ch, AbortKills)
       /\ command' = IF command.place = "startup"
                     THEN [command EXCEPT !.place = "serving"] ELSE command

TerminationSignal ==
  /\ command.place # "exited"            \* handlers are removed on return
  /\ signals < MaxSignals
  /\ signals' = signals + 1
  /\ Shutdown(child, FALSE)
  /\ UNCHANGED <<work, noticed, current, children, dist, sequence>>

ShutdownDeadline ==
  /\ closing.timer /\ command.place # "exited"
  /\ closing' = [closing EXCEPT !.timer = FALSE, !.forced = TRUE]
  /\ decision' = IF decision.state = "stopping"
                 THEN [decision EXCEPT !.state = "forced"] ELSE decision
  /\ refresh' = AbortedRefresh
  /\ child' = Killed(child, OwnedByForce \cup AbortKills)
  /\ command' = [command EXCEPT !.place = "exited", !.exit = 3]
  /\ UNCHANGED <<work, noticed, pending, current, children, dist, sequence, signals>>

-----------------------------------------------------------------------------
(* A child process ends: killed, asked to (SIGTERM), refusing to start, or   *)
(* crashing, in which case the monitor of the current child shuts down.      *)
RestartMayFail ==      \* a generation that was ready before, unless dist or the port is gone
  \/ "restart-fails" \in faults
  \/ dist.now = NoOutput
  \/ \E c \in Child \ {refresh.candidate} : Alive(c)

MayExit(c) ==
  \/ child[c].intentional
  \/ child[c].status = "starting" /\ (refresh.place = "restoring" => RestartMayFail)
  \/ child[c].status = "listening" /\ "crash" \in faults

ChildExits(c) ==
  /\ Alive(c) /\ MayExit(c)
  /\ LET ch == [child EXCEPT ![c].status = "exited"]
     IN  IF /\ child[c].status = "listening" /\ ~child[c].intentional
            /\ c = current /\ ~closing.closed
         THEN Shutdown(ch, TRUE)
         ELSE child' = ch /\ UNCHANGED <<closing, decision, refresh, command, pending>>
  /\ UNCHANGED <<work, noticed, current, children, dist, sequence, signals>>

-----------------------------------------------------------------------------
(* Files change; the operating system notifies later; the notification is    *)
(* admitted and supersedes the active refresh.                               *)
Edit ==
  /\ work < MaxEdits
  /\ work' = work + 1
  /\ UNCHANGED <<noticed, pending, refresh, current, children, child, dist,
                 sequence, decision, closing, command, signals>>

(* notify() keeps the notification pending also while a cycle runs. *)
AfterNotice_lost == refresh.place = "idle"   \* mutant: lost during a cycle
AfterNotice == TRUE

Notification ==
  /\ noticed < work /\ Accepting /\ command.place # "exited"
  /\ noticed' = work
  /\ pending' = AfterNotice
  /\ refresh' = AbortedRefresh
  /\ child' = Killed(child, AbortKills)
  /\ UNCHANGED <<work, current, children, dist, sequence, decision, closing,
                 command, signals>>

(* The adapter starts a cycle: target.refresh(). *)
RefreshBegins ==
  /\ pending /\ Accepting /\ refresh.place = "idle" /\ command.place # "exited"
  /\ pending' = FALSE
  /\ sequence' = sequence + 1
  /\ refresh' = [Idle EXCEPT !.place = "analyzing", !.version = work]
  /\ decision' = IF current = 0 THEN decision
                 ELSE [decision EXCEPT !.state = "preparing", !.candidate = sequence + 1]
  /\ UNCHANGED <<work, noticed, current, children, child, dist, closing,
                 command, signals>>

-----------------------------------------------------------------------------
(* The refresh's promise settles: #active is cleared and, unless the adapter *)
(* is closing, a failure is observed and the startup flush settles.          *)
Settle(result, d) ==
  /\ refresh' = Idle
  /\ decision' = IF result # "ok" /\ Accepting /\ d.state # "starting"
                 THEN Refused(d) ELSE d
  /\ \E code \in {1, 3} :            \* 3 when the failure has no report
       command' = IF command.place = "startup" /\ Accepting
                  THEN IF result = "ok" THEN [command EXCEPT !.place = "serving", !.last = "ok"]
                       ELSE [command EXCEPT !.place = "exited", !.last = result, !.exit = code]
                  ELSE [command EXCEPT !.last = result]

(* After a startup failure the command's finally closes the adapter. *)
AfterSettle(result) ==
  closing' = IF command.place = "startup" /\ Accepting /\ result # "ok"
             THEN [closing EXCEPT !.place = "awaiting"] ELSE closing

(* How a step of the refresh may fail. *)
Verdicts == {"failed"} \cup (IF refresh.aborted THEN {"interrupted"} ELSE {})

(* Analysis and emission: the stage is ready, or they fail, or the signal    *)
(* stops them; the stage is discarded on failure.                            *)
AnalysisFails ==
  /\ refresh.place = "analyzing"
  /\ \E result \in Verdicts : Settle(result, decision) /\ AfterSettle(result)
  /\ UNCHANGED <<work, noticed, pending, current, children, child, dist,
                 sequence, signals>>

StageReady ==
  /\ refresh.place = "analyzing" /\ ~refresh.aborted
  /\ refresh' = [refresh EXCEPT !.previous = current,
                                !.place = IF current = 0 THEN "accepting" ELSE "draining"]
  /\ child' = IF current = 0 THEN child
              ELSE [child EXCEPT ![current].intentional = TRUE]
  /\ UNCHANGED <<work, noticed, pending, current, children, dist, sequence,
                 decision, closing, command, signals>>

(* stop() has waited its five seconds: the child is forced. *)
DrainDeadline ==
  /\ "drain-deadline" \in faults
  /\ refresh.place = "draining" /\ Alive(refresh.previous) /\ ~refresh.expired
  /\ refresh' = [refresh EXCEPT !.expired = TRUE]
  /\ child' = Killed(child, {refresh.previous})
  /\ UNCHANGED <<work, noticed, pending, current, children, dist, sequence,
                 decision, closing, command, signals>>

PreviousGone_assumed == TRUE          \* mutant: stop() is not awaited
PreviousGone_unforced ==             \* mutant: the drain deadline never rejects
  ~Alive(refresh.previous) /\ ~refresh.expired
PreviousGone == ~Alive(refresh.previous)

(* The previous child has exited.  After the deadline stop() throws, outside *)
(* the try of #switch.  Otherwise the child is forgotten and candidateReady  *)
(* throws when a signal has moved the decision to stopping.                  *)
PreviousDrained ==
  /\ refresh.place = "draining" /\ PreviousGone
  /\ IF refresh.expired
     THEN /\ Settle("failed", decision) /\ AfterSettle("failed")
          /\ UNCHANGED <<current, children>>
     ELSE /\ children' = children \ {refresh.previous}
          /\ current' = 0
          /\ IF decision.state = "preparing"
             THEN /\ decision' = [decision EXCEPT !.state = "switching"]
                  /\ refresh' = [refresh EXCEPT !.place = "accepting"]
                  /\ UNCHANGED <<closing, command>>
             ELSE Settle("failed", decision) /\ AfterSettle("failed")
  /\ UNCHANGED <<work, noticed, pending, child, dist, sequence, signals>>

(* The catch of #switch.  rollback() may throw at any of its file-system     *)
(* calls, with a directory left in build-stage: the error ends the switch.   *)
(* Otherwise, unless the target is closed, the previous generation restarts  *)
(* on what is in dist, in the environment it ran in before.                  *)
RolledBack_removed(o) ==             \* mutant: rollback only removes dist
  IF o.open THEN [o EXCEPT !.now = NoOutput, !.rollback = NoOutput, !.open = FALSE] ELSE o
RolledBack(o) ==
  IF o.open THEN [o EXCEPT !.now = o.rollback, !.rollback = NoOutput, !.open = FALSE] ELSE o
Abandoned(o, now) ==                 \* an output call threw
  [now |-> now, rollback |-> NoOutput, open |-> FALSE, left |-> TRUE]
RestartsPrevious_never == FALSE      \* mutant: no restart after a failure
RestartsPrevious == refresh.previous # 0 /\ ~closing.closed

Restart(result, ch, o) ==
  /\ dist' = o
  /\ IF RestartsPrevious
     THEN /\ Spawnable # {}
          /\ child' = Spawned(ch, NextChild, o.now.generation, child[refresh.previous].environment)
          /\ refresh' = [refresh EXCEPT !.place = "restoring", !.candidate = NextChild,
                                        !.error = result, !.expired = FALSE]
          /\ UNCHANGED <<decision, command, closing>>
     ELSE /\ child' = ch
          /\ Settle(result, decision)
          /\ AfterSettle(result)

RollbackFails(ch, o) ==
  /\ "file-system" \in faults /\ o.open
  /\ \E now \in {o.now, NoOutput, o.rollback} : dist' = Abandoned(o, now)
  /\ child' = ch
  /\ Settle("failed", decision) /\ AfterSettle("failed")

Recover(result, ch, o) == Restart(result, ch, RolledBack(o)) \/ RollbackFails(ch, o)

(* staged.accept(): refused when the workspace, the environment, the runtime *)
(* or dist is not what it should be, and always once a directory was left;   *)
(* its own undoing may throw.  Otherwise dist is replaced and the candidate  *)
(* spawned.                                                                  *)
Fresh == refresh.version = work
AcceptRefused ==
  /\ refresh.place = "accepting"
  /\ \E result \in Verdicts :
       \/ Restart(result, child, dist)
       \/ /\ "file-system" \in faults /\ ~dist.left
          /\ \E now \in {dist.now, NoOutput} : Restart(result, child, Abandoned(dist, now))
  /\ UNCHANGED <<work, noticed, pending, current, children, sequence, signals>>

Accepted ==
  /\ refresh.place = "accepting" /\ ~refresh.aborted /\ Fresh /\ ~dist.left
  /\ Spawnable # {}
  /\ dist' = [now |-> [generation |-> sequence, version |-> refresh.version],
              rollback |-> dist.now, open |-> TRUE, left |-> FALSE]
  /\ child' = Spawned(child, NextChild, sequence, sequence)
  /\ refresh' = [refresh EXCEPT !.place = "starting", !.candidate = NextChild,
                                !.expired = FALSE]
  /\ UNCHANGED <<work, noticed, pending, current, children, sequence, decision,
                 closing, command, signals>>

(* The startup deadline forces the child that is starting. *)
StartupDeadline ==
  /\ refresh.place \in {"starting"} \cup (IF RestartMayFail THEN {"restoring"} ELSE {})
  /\ child[refresh.candidate].status = "starting"
  /\ ~child[refresh.candidate].killed
  /\ child' = Killed(child, {refresh.candidate})
  /\ UNCHANGED <<work, noticed, pending, refresh, current, children, dist,
                 sequence, decision, closing, command, signals>>

(* The candidate prints its readiness: it becomes current, the output is     *)
(* committed and the decision accepts it, or refuses to and it is forced.    *)
(* When commit() throws, its settle() has made rollback() a no-op: the       *)
(* candidate is forced, not awaited, and its files stay in dist.             *)
DecisionAccepts ==
  IF refresh.previous # 0 THEN decision.state = "switching"
  ELSE decision.state = "starting" /\ sequence = 1

CandidateReady ==
  /\ refresh.place = "starting"
  /\ LET c == refresh.candidate
         ch == [child EXCEPT ![c].status = "listening"]
         committed == [dist EXCEPT !.open = FALSE, !.rollback = NoOutput]
     IN  /\ child[c].status = "starting" /\ ~child[c].killed
         /\ IF DecisionAccepts
            THEN /\ dist' = committed
                 /\ child' = ch
                 /\ children' = children \cup {c}
                 /\ Settle("ok", [state |-> "ready", candidate |-> 0,
                                  accepted |-> sequence])
                 /\ AfterSettle("ok")
            ELSE /\ Restart("failed", Killed(ch, {c}), committed)
                 /\ UNCHANGED children
         /\ current' = c
  /\ UNCHANGED <<work, noticed, pending, sequence, signals>>

CommitFails ==
  /\ "file-system" \in faults /\ refresh.place = "starting"
  /\ LET c == refresh.candidate
         ch == [child EXCEPT ![c].status = "listening"]
     IN  /\ child[c].status = "starting" /\ ~child[c].killed
         /\ Restart("failed", Killed(ch, {c}), Abandoned(dist, dist.now))
         /\ current' = c
  /\ UNCHANGED <<work, noticed, pending, children, sequence, signals>>

CandidateLost ==
  /\ refresh.place = "starting"
  /\ child[refresh.candidate].status = "exited"
  /\ \E result \in Verdicts : Recover(result, child, dist)
  /\ UNCHANGED <<work, noticed, pending, current, children, sequence, signals>>

Restored ==
  /\ refresh.place = "restoring"
  /\ LET c == refresh.candidate
     IN  /\ child[c].status = "starting" /\ ~child[c].killed
         /\ dist.now # NoOutput
         /\ child' = [child EXCEPT ![c].status = "listening"]
         /\ children' = children \cup {c}
         /\ current' = c
  /\ Settle(refresh.error, decision) /\ AfterSettle(refresh.error)
  /\ UNCHANGED <<work, noticed, pending, dist, sequence, signals>>

RestoreFails ==
  /\ refresh.place = "restoring"
  /\ child[refresh.candidate].status = "exited"
  /\ Settle("failed", decision) /\ AfterSettle("failed")
  /\ UNCHANGED <<work, noticed, pending, current, children, child, dist,
                 sequence, signals>>

-----------------------------------------------------------------------------
(* target.close(), reached when adapter.close() has awaited the refresh.     *)
RefreshAwaited == refresh.place = "idle"

TargetCloses ==
  /\ closing.place = "awaiting" /\ RefreshAwaited
  /\ closing' = [closing EXCEPT !.place = "stopping", !.closed = TRUE]
  /\ child' = IF current = 0 THEN child
              ELSE [child EXCEPT ![current].intentional = TRUE]
  /\ UNCHANGED <<work, noticed, pending, refresh, current, children, dist,
                 sequence, decision, command, signals>>

CloseDeadline ==
  /\ closing.place = "stopping" /\ ~closing.expired
  /\ current # 0 /\ Alive(current)
  /\ closing' = [closing EXCEPT !.expired = TRUE]
  /\ child' = Killed(child, {current})
  /\ UNCHANGED <<work, noticed, pending, refresh, current, children, dist,
                 sequence, decision, command, signals>>

(* adapter.close() settles: exit 0 only for a shutdown that was neither      *)
(* forced nor caused by a failure, and whose drain did not expire.           *)
CurrentStopped == current # 0 => ~Alive(current)
Clean == ~closing.forced /\ ~closing.byFailure /\ ~closing.expired
ShutdownCompletes ==
  /\ closing.place = "stopping"
  /\ CurrentStopped
  /\ closing' = [closing EXCEPT !.place = "done", !.timer = FALSE,
                                !.forced = @ \/ closing.expired]
  /\ current' = 0
  /\ decision' = IF Clean /\ command.place # "exited"
                 THEN [decision EXCEPT !.state = "stopped"] ELSE decision
  /\ command' = IF command.place = "exited" THEN command
                ELSE [command EXCEPT !.place = "exited", !.exit = IF Clean THEN 0 ELSE 3]
  /\ UNCHANGED <<work, noticed, pending, refresh, children, child, dist,
                 sequence, signals>>

Ended == closing.place = "done" /\ UNCHANGED vars

Step ==
  \/ TerminationSignal \/ ShutdownDeadline
  \/ \E c \in Child : ChildExits(c)
  \/ Edit \/ Notification \/ RefreshBegins
  \/ AnalysisFails \/ StageReady
  \/ DrainDeadline \/ PreviousDrained
  \/ AcceptRefused \/ Accepted
  \/ StartupDeadline \/ CandidateReady \/ CommitFails \/ CandidateLost
  \/ Restored \/ RestoreFails
  \/ TargetCloses \/ CloseDeadline \/ ShutdownCompletes
  \/ Ended

Next == Step /\ UNCHANGED faults
Spec == Init /\ [][Next]_<<vars, faults>>

(* Killed children exit, and so do those asked to unless they may outlast    *)
(* the drain deadline; a starting child becomes ready or its deadline fires; *)
(* continuations of settled promises run and timers fire.                    *)
MustExit(c) ==
  child[c].killed \/ (child[c].intentional /\ "drain-deadline" \notin faults)

FairSpec ==
  /\ Spec
  /\ \A c \in Child : WF_vars(MustExit(c) /\ ChildExits(c))
  /\ WF_vars(Notification) /\ WF_vars(RefreshBegins)
  /\ WF_vars(AnalysisFails \/ StageReady)
  /\ WF_vars(DrainDeadline) /\ WF_vars(PreviousDrained)
  /\ WF_vars(AcceptRefused \/ Accepted)
  /\ WF_vars(StartupDeadline \/ CandidateReady \/ CommitFails \/ Restored)
  /\ WF_vars(CandidateLost) /\ WF_vars(RestoreFails)
  /\ WF_vars(TargetCloses) /\ WF_vars(CloseDeadline) /\ WF_vars(ShutdownCompletes)

-----------------------------------------------------------------------------
TypeOK ==
  /\ work \in 1..MaxEdits /\ noticed \in 1..MaxEdits /\ pending \in BOOLEAN
  /\ refresh \in [place : Places, aborted : BOOLEAN, previous : 0..MaxChildren,
                  candidate : 0..MaxChildren, version : 0..MaxEdits,
                  expired : BOOLEAN, error : {"none", "failed", "interrupted"}]
  /\ current \in 0..MaxChildren /\ children \subseteq Child
  /\ child \in [Child -> [status : {"none", "starting", "listening", "exited"},
                          intentional : BOOLEAN, killed : BOOLEAN, generation : Nat,
                          environment : Nat]]
  /\ decision.state \in {"starting", "ready", "preparing", "switching",
                         "stopping", "stopped", "forced"}
  /\ closing.place \in {"none", "awaiting", "stopping", "done"}
  /\ command.place \in {"startup", "serving", "exited"}

(* The port has one owner: a child is spawned only when every earlier one    *)
(* has exited, or, after an output call threw, has been sent SIGKILL.        *)
OneChild ==
  \A c, d \in Child : Alive(c) /\ Alive(d) /\ c # d
    => dist.left /\ (child[c].killed \/ child[d].killed)

(* A child that serves runs the files in dist, whatever the switch was       *)
(* interrupted by, and in the environment these were accepted with unless an *)
(* output call threw.                                                        *)
ServerMatchesDist ==
  \A c \in Child : child[c].status = "listening" /\ ~child[c].killed
    => /\ child[c].generation = dist.now.generation
       /\ dist.left \/ child[c].environment = dist.now.generation

(* A rollback copy exists only while a candidate is starting, so a settled   *)
(* refresh, and the end of the command's work, leave dist in one state: the  *)
(* generation the decision model has accepted, unless an output call threw,  *)
(* or a restart failed, after which the model refuses a first candidate.     *)
OutputSettled ==
  /\ dist.open <=> refresh.place = "starting"
  /\ (~dist.open /\ ~dist.left /\ "restart-fails" \notin faults)
       => dist.now.generation = decision.accepted

(* A command that exits 0 has drained: nothing runs, nothing is half done;   *)
(* at most a candidate forced by a failed commit() has still to die.         *)
GracefulExitIsClean ==
  command.place = "exited" /\ command.exit = 0 =>
    /\ \A c \in Child : Alive(c) => dist.left /\ child[c].killed
    /\ refresh.place = "idle" /\ ~dist.open
    /\ decision.state = "stopped"

(* Never two servers, never one on foreign files, never one left behind.     *)
OneServer == TypeOK /\ OneChild /\ ServerMatchesDist /\ GracefulExitIsClean

(* When no edit is undelivered or waiting, the running server was built from *)
(* the current files unless the last refresh was refused: an edit made while *)
(* a refresh runs is neither missed nor lost.                                *)
NoStaleServer ==
  (command.place = "serving" /\ Accepting /\ refresh.place = "idle" /\ ~pending
     /\ noticed = work /\ command.last # "failed" /\ decision.state = "ready")
    => dist.now.version = work

(* "the last accepted child and output remain active": while the supervisor  *)
(* waits for changes, the current child serves the accepted generation.      *)
LastGoodServes ==
  (command.place = "serving" /\ Accepting /\ refresh.place = "idle")
    => /\ current # 0 /\ child[current].status = "listening" /\ ~child[current].killed
       /\ dist.now.generation = decision.accepted

(* ... unless the previous child outlasted its drain deadline, its restart   *)
(* failed, or accept(), commit() or rollback() threw with dist half moved.   *)
LastGoodServesUnlessLost ==
  faults \cap {"drain-deadline", "restart-fails"} = {} /\ ~dist.left => LastGoodServes

(* Every step leaves the output settled.  It is replaced only by a candidate *)
(* and goes back only to the generation that was accepted before it; a call  *)
(* that throws half-way is marked by the directory it leaves, and is the     *)
(* last to touch dist.                                                       *)
OutputIsTransactional ==
  [][/\ OutputSettled'
     /\ dist'.now # dist.now =>
          /\ ~dist.left
          /\ \/ dist'.open /\ ~dist.open /\ dist'.rollback = dist.now
             \/ dist.open /\ ~dist'.open /\ dist'.now = dist.rollback
             \/ dist'.left]_vars

(* Every refresh comes to an end, and a shutdown stops every child.          *)
RefreshSettles == refresh.place # "idle" ~> refresh.place = "idle"
ShutdownStopsChildren ==
  closing.place = "awaiting" ~> (closing.place = "done" /\ \A c \in Child : ~Alive(c))
WorkEnds == RefreshSettles /\ ShutdownStopsChildren
=============================================================================
