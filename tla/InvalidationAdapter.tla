-------------------------- MODULE InvalidationAdapter --------------------------
(***************************************************************************)
(* internal/analyzer-watcher.ts: PrivateFilesystemInvalidationAdapter turns *)
(* file notifications into refresh cycles.  Notifications gather in one    *)
(* pending batch until a debounce timer starts a cycle; one cycle runs at  *)
(* a time, and flush() callers wait for a cycle that covers them.          *)
(*                                                                         *)
(* A path is a model value with a size in bytes; a raw spelling of it is a *)
(* member of Alias.  Notifications the adapter refuses or excludes change  *)
(* nothing here.  The target's refresh() throws or returns an operation    *)
(* that succeeds or fails.                                                 *)
(***************************************************************************)
EXTENDS Integers, Sequences, FiniteSets, FiniteSetsExt

CONSTANTS
  Path, Alias, Size,              \* Size[p]: bytes of the path and its spelling
  MaximumPendingHints, MaximumPendingBytes,
  DebounceMs, MaximumDelayMs,
  MaxAdmissions,                  \* bound on accepted notifications
  MaxFlushes,                     \* bound on flush() calls
  MaxNow                          \* the clock stands still here

ASSUME AdapterAssumption ==
  /\ Size \in [Path -> Nat \ {0}]
  /\ MaximumPendingHints \in Nat \ {0} /\ MaximumPendingBytes \in Nat
  /\ DebounceMs \in Nat /\ MaximumDelayMs \in Nat /\ DebounceMs <= MaximumDelayMs
  /\ MaxAdmissions \in Nat /\ MaxFlushes \in Nat /\ MaxNow \in Nat

Flush == 1..MaxFlushes
NoTimer == -1
NoBatch == [first |-> 0, latest |-> 0, full |-> FALSE, hints |-> {}]
NothingPending == [first |-> 0, size |-> 0, full |-> FALSE, hints |-> {}, bytes |-> 0,
                   firstAt |-> 0, latestAt |-> 0]

VARIABLES
  state,      \* #state
  admissions, \* #admissionSequence
  pending,    \* #firstPendingSequence ... #fullWorkspace, #hints with #rawAliases
  timer,      \* when #timer fires
  active,     \* the batch of #active
  last,       \* latest admission of #lastCycle
  waiters,    \* #waiters: flush calls in order
  target,     \* targetSequence of each flush
  outcome,    \* how each flush was settled: 0 not yet, -1 rejected, or the
              \* latest admission of the cycle it was resolved with
  now,
  touched     \* history: paths changed since the last batch, unless a rescan is due

queue == <<pending, timer, active>>
calls == <<waiters, target, outcome>>
vars == <<state, admissions, queue, last, calls, now, touched>>

Init ==
  /\ state = "accepting" /\ admissions = 0 /\ now = 0
  /\ pending = NothingPending /\ timer = NoTimer /\ active = NoBatch
  /\ last = 0 /\ touched = {}
  /\ waiters = <<>>
  /\ target = [f \in Flush |-> 0] /\ outcome = [f \in Flush |-> 0]

HasPending(p) == p.size > 0
Idle == active = NoBatch
Named(p) == {hint[1] : hint \in p.hints}

-----------------------------------------------------------------------------
(* #accept adds a notification to the pending batch. *)
Admitted(p, full, hint, bytes) ==
  [p EXCEPT !.first = IF HasPending(p) THEN @ ELSE admissions + 1,
            !.firstAt = IF HasPending(p) THEN @ ELSE now,
            !.latestAt = now, !.size = @ + 1,
            !.full = @ \/ full,
            !.hints = IF full THEN {} ELSE IF p.full THEN @ ELSE @ \cup hint,
            !.bytes = IF full THEN 0 ELSE IF p.full THEN @ ELSE @ + bytes]

(* #schedule: debounced, but never past the maximum delay. *)
Due_debounced(p) == Max({now, p.latestAt + DebounceMs})   \* mutant: no maximum
Due(p) == LET at == {p.latestAt + DebounceMs, p.firstAt + MaximumDelayMs}
          IN  Max({now, Min(at)})

Rescan == Admitted(pending, TRUE, {}, 0)

(* What notify() admits for a change of a path, under the spelling alias. *)
Overflows(path) ==
  /\ ~pending.full
  /\ \/ 2 * Size[path] > MaximumPendingBytes - pending.bytes
     \/ Cardinality(pending.hints) >= MaximumPendingHints
OtherSpelling(path, alias) == \E hint \in pending.hints : hint[1] = path /\ hint[2] # alias
Known(path) == path \in Named(pending)

Changed_aliased(path, alias) ==     \* mutant: duplicates before aliases
  IF OtherSpelling(path, alias) THEN Admitted(pending, FALSE, {<<path, alias>>}, 0)
  ELSE IF Known(path) THEN Admitted(pending, FALSE, {}, 0)
  ELSE IF Overflows(path) THEN Admitted(pending, FALSE, {}, 0)
  ELSE Admitted(pending, FALSE, {<<path, alias>>}, 2 * Size[path])
Changed(path, alias) ==
  IF OtherSpelling(path, alias) THEN Rescan
  ELSE IF Known(path) THEN Admitted(pending, FALSE, {}, 0)
  ELSE IF Overflows(path) THEN Rescan
  ELSE Admitted(pending, FALSE, {<<path, alias>>}, 2 * Size[path])

Notify ==
  /\ state = "accepting" /\ admissions < MaxAdmissions
  /\ \E path \in Path :
       /\ \/ \E alias \in Alias : pending' = Changed(path, alias)
          \/ pending' = Rescan                  \* a rename, or no name given
       /\ touched' = IF pending'.full THEN {} ELSE touched \cup {path}
  /\ admissions' = admissions + 1
  /\ timer' = IF Idle THEN Due(pending') ELSE timer
  /\ UNCHANGED <<state, active, last, calls, now>>

-----------------------------------------------------------------------------
(* #settleWaiters takes the waiters from the front whose target is covered.  *)
Front_all(w, t, latest) == Len(w)        \* mutant: settles every waiter
Front(w, t, latest) ==
  CHOOSE n \in 0..Len(w) : /\ \A i \in 1..n : t[w[i]] <= latest
                           /\ n < Len(w) => t[w[n + 1]] > latest

Settle(w, t, o, latest, verdict) ==
  LET n == Front(w, t, latest)
  IN  /\ waiters' = SubSeq(w, n + 1, Len(w))
      /\ outcome' = [f \in Flush |-> IF \E i \in 1..n : w[i] = f THEN verdict ELSE o[f]]

(* #startCycle turns what is pending into a batch; a refresh() that throws   *)
(* rejects the waiters the batch covers.                                     *)
BatchOf(p, upto) ==
  [first |-> p.first, latest |-> upto, full |-> p.full, hints |-> p.hints]

StartCycle(p, upto, w, t, o) ==
  /\ pending' = NothingPending /\ timer' = NoTimer /\ touched' = {}
  /\ \/ active' = BatchOf(p, upto) /\ waiters' = w /\ outcome' = o
     \/ active' = NoBatch /\ Settle(w, t, o, upto, -1)

TimerFires ==
  /\ timer # NoTimer /\ (timer <= now \/ now = MaxNow)
  /\ StartCycle(pending, admissions, waiters, target, outcome)
  /\ UNCHANGED <<state, admissions, last, target, now>>

(* The cycle's operation settles: #finishCycle, then the waiters. *)
Successor_none(p) == NoTimer             \* mutant: work admitted meanwhile waits
Successor(p) == IF HasPending(p) THEN Due(p) ELSE NoTimer

CycleEnds ==
  /\ ~Idle /\ state = "accepting"
  /\ \E ok \in BOOLEAN :
       /\ last' = IF ok THEN active.latest ELSE last
       /\ Settle(waiters, target, outcome, active.latest, IF ok THEN active.latest ELSE -1)
  /\ active' = NoBatch
  /\ timer' = Successor(pending)
  /\ UNCHANGED <<state, admissions, pending, target, now, touched>>

(* flush() admits a rescan when nothing is pending or running, waits for     *)
(* what has been admitted so far, and starts a cycle if none runs.           *)
Rescans == ~HasPending(pending) /\ Idle
Target(upto) == upto
Crowded == Len(waiters) >= MaximumPendingHints

FlushCalls(f) ==
  /\ state = "accepting" /\ target[f] = 0 /\ (f > 1 => target[f - 1] # 0)
  /\ Rescans => admissions < MaxAdmissions
  /\ admissions' = IF Rescans THEN admissions + 1 ELSE admissions
  /\ target' = [target EXCEPT ![f] = Target(admissions')]
  /\ LET p == IF Rescans THEN Rescan ELSE pending
         w == IF Crowded THEN waiters ELSE Append(waiters, f)
         o == IF Crowded THEN [outcome EXCEPT ![f] = -1] ELSE outcome
     IN  IF last >= Target(admissions')                 \* covered already
         THEN /\ outcome' = [outcome EXCEPT ![f] = last] /\ pending' = p
              /\ timer' = IF Rescans THEN Due(p) ELSE timer
              /\ UNCHANGED <<active, waiters, touched>>
         ELSE IF Idle
         THEN StartCycle(p, admissions', w, target', o)
         ELSE waiters' = w /\ outcome' = o /\ UNCHANGED <<queue, touched>>
  /\ UNCHANGED <<state, last, now>>

-----------------------------------------------------------------------------
(* close() drops what is pending, rejects every waiter, cancels the cycle    *)
(* and waits for it before it closes the target.                             *)
Closes ==
  /\ state = "accepting" /\ state' = "closing"
  /\ pending' = NothingPending /\ timer' = NoTimer /\ last' = 0 /\ touched' = {}
  /\ waiters' = <<>>
  /\ outcome' = [f \in Flush |->
       IF \E i \in 1..Len(waiters) : waiters[i] = f THEN -1 ELSE outcome[f]]
  /\ UNCHANGED <<admissions, active, target, now>>

CancelledCycleEnds ==
  /\ ~Idle /\ state = "closing"
  /\ active' = NoBatch
  /\ UNCHANGED <<state, admissions, pending, timer, last, calls, now, touched>>

Awaited == Idle
TargetCloses ==
  /\ state = "closing" /\ Awaited
  /\ state' = "closed"
  /\ UNCHANGED <<admissions, queue, last, calls, now, touched>>

Tick ==
  /\ now < MaxNow /\ now' = now + 1
  /\ UNCHANGED <<state, admissions, queue, last, calls, touched>>

Ended == state = "closed" /\ UNCHANGED vars

Next ==
  \/ Notify \/ TimerFires \/ CycleEnds \/ (\E f \in Flush : FlushCalls(f))
  \/ Closes \/ CancelledCycleEnds \/ TargetCloses \/ Tick \/ Ended

Spec == Init /\ [][Next]_vars

(* Operations settle, timers fire and time passes; nobody need call.         *)
FairSpec ==
  /\ Spec /\ WF_vars(TimerFires) /\ WF_vars(CycleEnds) /\ WF_vars(CancelledCycleEnds)
  /\ WF_vars(TargetCloses) /\ WF_vars(Tick)

-----------------------------------------------------------------------------
Batches == [first : 0..MaxAdmissions, latest : 0..MaxAdmissions, full : BOOLEAN,
            hints : SUBSET (Path \X Alias)]
TypeOK ==
  /\ state \in {"accepting", "closing", "closed"} /\ admissions \in 0..MaxAdmissions
  /\ pending \in [first : 0..MaxAdmissions, size : 0..MaxAdmissions, full : BOOLEAN,
                  hints : SUBSET (Path \X Alias), bytes : 0..MaximumPendingBytes,
                  firstAt : 0..MaxNow, latestAt : 0..MaxNow]
  /\ active \in Batches /\ last \in 0..MaxAdmissions /\ now \in 0..MaxNow
  /\ timer \in NoTimer..(MaxNow + MaximumDelayMs)
  /\ waiters \in Seq(Flush) /\ target \in [Flush -> 0..MaxAdmissions]
  /\ outcome \in [Flush -> -1..MaxAdmissions]

(* No admitted notification is dropped or stranded: what is not in a batch   *)
(* is pending, in order, and pending work has a timer or a running cycle; a  *)
(* closed adapter has no cycle, no waiter and no timer.                      *)
PendingIsScheduled ==
  state = "accepting" =>
    /\ HasPending(pending) => pending.first + pending.size = admissions + 1
    /\ HasPending(pending) => timer # NoTimer \/ ~Idle
    /\ HasPending(pending) /\ ~Idle => pending.first = active.latest + 1
    /\ timer # NoTimer => HasPending(pending) /\ Idle
ClosedIsQuiet == state = "closed" => Idle /\ waiters = <<>> /\ timer = NoTimer

(* However many notifications follow, a pending one is refreshed after the   *)
(* maximum delay, or as soon as the running cycle allows.                    *)
NeverPostponed ==
  timer # NoTimer => timer <= now \/ timer <= pending.firstAt + MaximumDelayMs

NothingStranded == TypeOK /\ PendingIsScheduled /\ ClosedIsQuiet /\ NeverPostponed

(* A batch names every path that changed, or says that any may have.         *)
BatchesNameEveryChange ==
  /\ pending.full \/ touched = Named(pending)
  /\ pending.full => pending.hints = {}

(* The limits on hints, bytes and waiters hold, and the byte count is that   *)
(* of the hints.                                                             *)
WithinLimits ==
  /\ Cardinality(pending.hints) <= MaximumPendingHints /\ Len(waiters) <= MaximumPendingHints
  /\ pending.bytes = MapThenSumSet(LAMBDA hint : 2 * Size[hint[1]], pending.hints)
  /\ pending.bytes <= MaximumPendingBytes

BatchIsFaithful == BatchesNameEveryChange /\ WithinLimits

(* flush() resolves with a cycle that began after everything admitted before *)
(* the call; who waits will be covered by the running cycle or a later one.  *)
ResolvedIsCurrent == \A f \in Flush : outcome[f] > 0 => outcome[f] >= target[f]
WaitersAreServed ==
  \A i \in 1..Len(waiters) :
    /\ outcome[waiters[i]] = 0
    /\ target[waiters[i]] <= (IF HasPending(pending) THEN admissions ELSE active.latest)
    /\ \A j \in i..Len(waiters) : target[waiters[i]] <= target[waiters[j]]

FlushIsCurrent == ResolvedIsCurrent /\ WaitersAreServed

(* Every flush is settled, and what is admitted is taken into a cycle.       *)
FlushSettles == \A f \in Flush : target[f] # 0 ~> outcome[f] # 0
PendingIsTaken == HasPending(pending) ~> ~HasPending(pending)
WorkIsTaken == FlushSettles /\ PendingIsTaken
===============================================================================
