------------------------- MODULE AnalyzerCoordinator -------------------------
(***************************************************************************)
(* The single-worker operation queue of the project analyzer,              *)
(* packages/framework/src/internal/analyzer-coordinator.ts.                *)
(*                                                                         *)
(* Callers start "analysis" and "explanation" operations at any time.  One *)
(* drain worker runs them in request order, one at a time.  A new analysis *)
(* supersedes the analysis that is still queued (inheriting its batch) and *)
(* the analysis that is running.  A handle can cancel its own operation.   *)
(* close() refuses new operations and waits for the worker.                *)
(*                                                                         *)
(* An item is named by its request sequence number, 0 standing for null.   *)
(* The code between two awaits is one action; the drain worker's place is  *)
(*   none        no worker (#drainPromise is null)                         *)
(*   scheduled   Promise.resolve().then(drain) has been created            *)
(*   running     suspended in "await item.operation(...)"                  *)
(*   checkpoint  suspended in the trailing "await Promise.resolve()"       *)
(*   returned    drain() has returned, its .then has yet to run            *)
(* and the place of #waitForIdle, called by close(), is                    *)
(*   none, awaiting (a drain promise), checking (about to loop), idle.     *)
(***************************************************************************)
EXTENDS Naturals, Sequences, FiniteSets

CONSTANT MaxStarts      \* bound on the number of operations ever started

ASSUME MaxStartsAssumption == MaxStarts \in Nat

Id == 1..MaxStarts
Kind == {"analysis", "explanation"}
Interrupted == {"cancelled", "superseded"}
ItemState == {"absent", "pending", "active", "completed"} \cup Interrupted
Outcome == {"value", "error"} \cup Interrupted

VARIABLES
  state,            \* #state
  sequence,         \* #sequence
  analysisGeneration,
  queue,            \* the linked list #queueHead..#queueTail
  active,           \* #active
  pendingAnalysis,  \* #pendingAnalysis
  drain,            \* place of the drain worker
  closer,           \* place of #waitForIdle
  request,          \* what start() fixes of an item: kind, generation, batch
  itemState,        \* item.state
  outcome,          \* how item.result was settled
  ran               \* items whose operation callback was invoked

vars == <<state, sequence, analysisGeneration, queue, active, pendingAnalysis,
          drain, closer, request, itemState, outcome, ran>>

NoRequest == [kind |-> "none", generation |-> 0, first |-> 0, size |-> 0]

Init ==
  /\ state = "accepting"
  /\ sequence = 0
  /\ analysisGeneration = 0
  /\ queue = <<>>
  /\ active = 0
  /\ pendingAnalysis = 0
  /\ drain = "none"
  /\ closer = "none"
  /\ request = [i \in Id |-> NoRequest]
  /\ itemState = [i \in Id |-> "absent"]
  /\ outcome = [i \in Id |-> "none"]
  /\ ran = {}

-----------------------------------------------------------------------------
(* #unlink of an item from the queue *)
Without(q, i) ==
  IF \E p \in DOMAIN q : q[p] = i
  THEN LET at == CHOOSE p \in DOMAIN q : q[p] = i
       IN  [p \in 1..(Len(q) - 1) |-> IF p < at THEN q[p] ELSE q[p + 1]]
  ELSE q

(* #ensureDrain *)
Drained_skipped(d) == d              \* mutant: no worker is scheduled
Drained(d) == IF d = "none" THEN "scheduled" ELSE d

(* start(): a new analysis interrupts the running and the queued analysis. *)
SupersededBy_queuedOnly(k) ==        \* mutant: the running analysis goes on
  IF k # "analysis" THEN {} ELSE {i \in {pendingAnalysis} : i # 0}
SupersededBy(k) ==
  IF k # "analysis" THEN {}
  ELSE {i \in {pendingAnalysis} : i # 0}
       \cup {i \in {active} : /\ i # 0
                              /\ request[i].kind = "analysis"
                              /\ itemState[i] = "active"}

(* The batch of a new item: an analysis takes over the queued one's batch. *)
Batch_restarted(id, coalesced) ==    \* mutant: firstRequestId is not inherited
  [first |-> id, size |-> IF coalesced = 0 THEN 1 ELSE request[coalesced].size + 1]
Batch(id, coalesced) ==
  IF coalesced = 0 THEN [first |-> id, size |-> 1]
  ELSE [first |-> request[coalesced].first, size |-> request[coalesced].size + 1]

Start(k) ==
  /\ state = "accepting"
  /\ sequence < MaxStarts
  /\ LET id == sequence + 1
         coalesced == IF k = "analysis" THEN pendingAnalysis ELSE 0
         gen == IF k = "analysis" THEN analysisGeneration + 1
                ELSE analysisGeneration
     IN  /\ sequence' = id
         /\ analysisGeneration' = gen
         /\ request' = [request EXCEPT ![id] =
              [kind |-> k, generation |-> gen,
               first |-> Batch(id, coalesced).first,
               size |-> Batch(id, coalesced).size]]
         /\ itemState' = [i \in Id |->
              IF i = id THEN "pending"
              ELSE IF i \in SupersededBy(k) THEN "superseded" ELSE itemState[i]]
         /\ outcome' = [i \in Id |->
              IF i = coalesced THEN "superseded" ELSE outcome[i]]
         /\ queue' = Append(Without(queue, coalesced), id)
         /\ pendingAnalysis' = IF k = "analysis" THEN id ELSE pendingAnalysis
  /\ drain' = Drained(drain)
  /\ UNCHANGED <<state, active, closer, ran>>

(* The handle's cancel(): no effect on a terminal item; a queued item is     *)
(* unlinked and rejected at once, a running one only when it returns.        *)
Interruptible(i) == itemState[i] \in {"pending", "active"}

Cancel(i) ==
  /\ Interruptible(i)
  /\ itemState' = [itemState EXCEPT ![i] = "cancelled"]
  /\ IF itemState[i] = "pending"
     THEN /\ pendingAnalysis' = IF pendingAnalysis = i THEN 0
                                ELSE pendingAnalysis
          /\ queue' = Without(queue, i)
          /\ outcome' = [outcome EXCEPT ![i] = "cancelled"]
     ELSE UNCHANGED <<pendingAnalysis, queue, outcome>>
  /\ UNCHANGED <<state, sequence, analysisGeneration, active, drain, closer,
                 request, ran>>

-----------------------------------------------------------------------------
(* The inner loop of #drain from an item's end (settledState is itemState    *)
(* after it) to the next await: interrupted items are dropped, the first     *)
(* live one is dequeued and its operation invoked; with none left the worker *)
(* takes its final checkpoint.                                               *)
Live(settledState) == {p \in DOMAIN queue : settledState[queue[p]] \notin Interrupted}

NextAt(settledState) ==
  CHOOSE p \in Live(settledState) : \A r \in Live(settledState) : p <= r

RunNext(settledState) ==
  IF Live(settledState) = {}
  THEN /\ drain' = "checkpoint"
       /\ active' = 0
       /\ queue' = <<>>
       /\ itemState' = settledState
       /\ UNCHANGED <<pendingAnalysis, ran>>
  ELSE LET at == NextAt(settledState)
           item == queue[at]
       IN  /\ drain' = "running"
           /\ active' = item
           /\ queue' = SubSeq(queue, at + 1, Len(queue))
           /\ itemState' = [settledState EXCEPT ![item] = "active"]
           /\ pendingAnalysis' = IF pendingAnalysis = item THEN 0
                                 ELSE pendingAnalysis
           /\ ran' = ran \cup {item}

DrainBegins ==
  /\ drain = "scheduled"
  /\ RunNext(itemState)
  /\ UNCHANGED <<state, sequence, analysisGeneration, closer, request, outcome>>

(* The running operation's promise fulfils or rejects (result), the worker   *)
(* settles the item and goes on: an interrupted item is rejected with its    *)
(* interruption whatever the operation did.                                  *)
Settlement_always(i, result) == result          \* mutant: interruption ignored
Settlement(i, result) ==
  IF outcome[i] # "none" THEN outcome[i]
  ELSE IF itemState[i] = "active" THEN result ELSE itemState[i]

OperationReturns(result) ==
  /\ drain = "running"
  /\ outcome' = [outcome EXCEPT ![active] = Settlement(active, result)]
  /\ RunNext([itemState EXCEPT ![active] =
       IF @ = "active" THEN "completed" ELSE @])
  /\ UNCHANGED <<state, sequence, analysisGeneration, closer, request>>

Checkpoint ==
  /\ drain = "checkpoint"
  /\ IF queue = <<>>
     THEN /\ drain' = "returned"
          /\ UNCHANGED <<active, queue, itemState, pendingAnalysis, ran>>
     ELSE RunNext(itemState)
  /\ UNCHANGED <<state, sequence, analysisGeneration, closer, request, outcome>>

(* The .then of #ensureDrain: the worker is forgotten, or replaced when work *)
(* arrived after the checkpoint; close() waiting on this promise resumes.    *)
Successor == IF queue = <<>> THEN "none" ELSE "scheduled"

DrainEnds ==
  /\ drain = "returned"
  /\ drain' = Successor
  /\ closer' = IF closer = "awaiting" THEN "checking" ELSE closer
  /\ UNCHANGED <<state, sequence, analysisGeneration, queue, active,
                 pendingAnalysis, request, itemState, outcome, ran>>

-----------------------------------------------------------------------------
(* One turn of #waitForIdle. *)
WaitTurn_queueOnly ==                \* mutant: the running operation is ignored
  /\ drain' = drain
  /\ closer' = IF queue = <<>> THEN "idle" ELSE "awaiting"
WaitTurn ==
  LET d == IF queue # <<>> THEN Drained(drain) ELSE drain
  IN  /\ drain' = d
      /\ closer' = IF d = "none" THEN "idle" ELSE "awaiting"

Close ==
  /\ closer = "none"
  /\ state' = "closing"
  /\ WaitTurn
  /\ UNCHANGED <<sequence, analysisGeneration, queue, active, pendingAnalysis,
                 request, itemState, outcome, ran>>

CloseRechecks ==
  /\ closer = "checking"
  /\ WaitTurn
  /\ UNCHANGED <<state, sequence, analysisGeneration, queue, active,
                 pendingAnalysis, request, itemState, outcome, ran>>

Closed ==
  /\ closer = "idle"
  /\ state = "closing"
  /\ state' = "closed"
  /\ UNCHANGED <<sequence, analysisGeneration, queue, active, pendingAnalysis,
                 drain, closer, request, itemState, outcome, ran>>

Stopped == state = "closed" /\ UNCHANGED vars

Next ==
  \/ \E k \in Kind : Start(k)
  \/ \E i \in Id : Cancel(i)
  \/ DrainBegins
  \/ \E r \in {"value", "error"} : OperationReturns(r)
  \/ Checkpoint
  \/ DrainEnds
  \/ Close
  \/ CloseRechecks
  \/ Closed
  \/ Stopped

Spec == Init /\ [][Next]_vars

(* Promise jobs run, and operations return (they observe their signal or     *)
(* finish): the fairness under which the queue makes progress.               *)
FairSpec ==
  /\ Spec
  /\ WF_vars(DrainBegins)
  /\ WF_vars(\E r \in {"value", "error"} : OperationReturns(r))
  /\ WF_vars(Checkpoint)
  /\ WF_vars(DrainEnds)
  /\ WF_vars(CloseRechecks)
  /\ WF_vars(Closed)

-----------------------------------------------------------------------------
TypeOK ==
  /\ state \in {"accepting", "closing", "closed"}
  /\ sequence \in 0..MaxStarts
  /\ analysisGeneration \in Nat
  /\ queue \in Seq(Id)
  /\ active \in 0..MaxStarts
  /\ pendingAnalysis \in 0..MaxStarts
  /\ drain \in {"none", "scheduled", "running", "checkpoint", "returned"}
  /\ closer \in {"none", "awaiting", "checking", "idle"}
  /\ request \in [Id -> [kind : Kind \cup {"none"}, generation : Nat,
                         first : 0..MaxStarts, size : Nat]]
  /\ itemState \in [Id -> ItemState]
  /\ outcome \in [Id -> {"none"} \cup Outcome]
  /\ ran \subseteq Id

Sorted(q) == \A p, r \in DOMAIN q : p < r => q[p] < q[r]
Queued(i) == \E p \in DOMAIN queue : queue[p] = i

(* The queue holds exactly the pending items, in request order, and          *)
(* #pendingAnalysis is the one pending analysis among them (enqueue, dequeue,*)
(* #unlink and the three places that clear #pendingAnalysis agree).          *)
QueueIsPending ==
  /\ Sorted(queue)
  /\ \A i \in Id : itemState[i] = "pending" <=> Queued(i)
  /\ \A i \in Id :
       (itemState[i] = "pending" /\ request[i].kind = "analysis")
         <=> (i = pendingAnalysis)

(* An item that left the queue without being the running one has a settled   *)
(* result, and only such items have: nothing is forgotten when operations    *)
(* are interrupted in either place.                                          *)
SettledWhenDone ==
  \A i \in Id :
    (outcome[i] # "none") <=> (i <= sequence /\ itemState[i] # "pending" /\ i # active)

(* No lost wakeup: queued work always has a worker that will look at the     *)
(* queue again, and only a running worker has an active item.                *)
QueuedWorkHasWorker ==
  /\ queue # <<>> => drain # "none"
  /\ active # 0 <=> drain = "running"

(* The queue, the items, their results and the worker never disagree.        *)
Bookkeeping == QueueIsPending /\ SettledWhenDone /\ QueuedWorkHasWorker

(* A request's result tells the truth about its operation: a value or error  *)
(* comes from an operation that ran, and one interrupted while queued never  *)
(* runs; cancelled and superseded agree with the item's first interruption.  *)
OutcomeIsTrue ==
  \A i \in Id :
    /\ outcome[i] \in {"value", "error"} => i \in ran /\ itemState[i] = "completed"
    /\ outcome[i] \in Interrupted => outcome[i] = itemState[i]

(* The variables stay in their types, the queue, the items, their results    *)
(* and the worker agree, and every result tells the truth.                   *)
Consistent == TypeOK /\ Bookkeeping /\ OutcomeIsTrue

(* An analysis batch covers, without gaps, the analysis requests coalesced   *)
(* into it, all of which were superseded before they ran.                    *)
BatchIsExact ==
  \A i \in 1..sequence :
    LET covered == {j \in request[i].first..i : request[j].kind = "analysis"}
    IN  request[i].kind = "analysis" =>
          /\ request[i].size = Cardinality(covered)
          /\ \A j \in covered \ {i} : itemState[j] = "superseded" /\ j \notin ran

(* close() resolves only when every operation ever started is settled.       *)
ClosedIsQuiet ==
  state = "closed" =>
    /\ queue = <<>> /\ active = 0 /\ drain = "none"
    /\ \A i \in 1..sequence : outcome[i] # "none"

(* An analysis reports success only if no newer analysis was requested       *)
(* before it finished: a stale analysis is never delivered.                  *)
LatestAnalysisWins ==
  [][\A i \in Id :
       (outcome[i] = "none" /\ outcome'[i] \in {"value", "error"}
          /\ request[i].kind = "analysis")
         => request[i].generation = analysisGeneration]_vars

(* Operations are invoked once, in request order: none starts while an older *)
(* one is still queued, nor while another is running.                        *)
RunsInOrder ==
  [][\A i \in ran' \ ran :
       /\ \A j \in 1..(i - 1) : itemState[j] # "pending"
       /\ \A j \in Id \ {i} : itemState'[j] # "active"]_vars

(* A settled result and the verdict on an interrupted item never change.     *)
VerdictIsFinal ==
  [][\A i \in Id :
       /\ outcome[i] # "none" => outcome'[i] = outcome[i]
       /\ itemState[i] \in Interrupted \cup {"completed"} => itemState'[i] = itemState[i]]_vars

(* Every operation that is started is settled, and close() completes.        *)
EveryRequestSettles ==
  \A i \in Id : itemState[i] # "absent" ~> outcome[i] # "none"

CloseCompletes == state = "closing" ~> state = "closed"
EverythingSettles == EveryRequestSettles /\ CloseCompletes

(* The coordinator implements the service its callers rely on. *)
Service == INSTANCE AnalysisService WITH
  open <- state = "accepting",
  asked <- sequence,
  analyses <- {i \in Id : request[i].kind = "analysis"},
  answer <- outcome,
  doom <- IF active # 0 /\ itemState[active] \in Interrupted
          THEN itemState[active] ELSE "none",
  serving <- active

ServiceRefined == Service!Spec
=============================================================================
