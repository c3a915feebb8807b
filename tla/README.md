# Verification of fadeno

TLA+ models of the framework in `packages/framework/src`, their TLC runs, and
TLAPS proofs. Paths below are relative to `packages/framework/src/internal/`
unless they begin with `docs/`.

`PROJECT.json` is the index: components, runs, the mutants that show each
property can fail, the source lines each definition stands for, findings,
hazards and theorems.

    tlc -config X.cfg MC_Module.tla       # model-check one run
    tlapm XProofs.tla                     # check the proofs of a module

## 1. The system

fadeno is a TypeScript framework with a compiler-like front half and a server
half, both in one package.

* **Project work.** `fadeno check`, `dev` and `build` analyze a project, write
  generated route artifacts, type-check, emit a production tree and, in
  development, keep a server child running on it.
* **Serving.** A Node adapter hands requests to matched routes and actions,
  whose documents are streamed; a browser runtime enhances links and forms.

Everything runs on one event loop per process. Concurrency comes from `await`,
timers, streams, child processes, other commands on the same project, signals,
editors and network peers. What is persisted is on the file system only.

| Component | State it keeps | Operations | Talks to | Hard because | Correct when |
|---|---|---|---|---|---|
| operation coordinator, `analyzer-coordinator.ts` | queue, active item, pending analysis, drain promise, sequence | start, cancel, close | analyzer, callers' handles | every await lets a start, cancel or close in | each operation is settled once, truthfully, in order; the latest analysis wins; close drains |
| project analyzer, `analyzer-project.ts` | retained recovery, rollback and cleanup; tokens; managed documents | analyze, refresh, document, close | coordinator, session, compiler, route artifacts | partial failure across calls; stale inputs | a refresh is atomic and later operations finish what it could not |
| route artifacts, `routing/generator.ts` | directories `.fadeno/routes*`; a transaction | begin, commit, rollback, cleanup, recover | file system | kills between renames, failing calls | routes are one whole version; recovery always decides |
| analyzer session, `analyzer-session.ts` | documents with lifetimes and versions, epochs, snapshot | open, change, save, close, reconcile, reloadConfiguration | graph, publication, explain | stale lifetimes and versions | a snapshot is of one epoch; no stale edit is admitted |
| publication and explanation, `analyzer-publication.ts`, `analyzer-explain.ts` | active ticket, generation, published snapshot | start, cancel, invalidate | session, graph | supersession and staleness at each checkpoint | only a current ticket publishes; generation and graph agree |
| dependency graph, `analyzer-graph.ts` | committed snapshot | analyze, prepare, commitPrepared | session | prepared work that became stale | commit only on the authority it was prepared on |
| compiler validation, `analyzer-compiler.ts` | active child, recorded identities of the files | validate, assertCurrent, close | TypeScript child, file system | files change while they are read one by one | what it certifies is one state of the project, and still the current one |
| invalidation adapter, `analyzer-watcher.ts` | pending batch, timer, active cycle, waiters | notify, flush, close | watcher, development target | notifications during cycles; limits | nothing admitted is lost or postponed for ever; a flush sees what preceded it |
| development supervisor, `project-dev.ts`, `build-dev-decision.ts` | current and registered children, active refresh, decision, shutdown | refresh, switch, restart, signals, close | adapter, analyzer, generation owner, children | signals, deadlines and edits in the middle of a switch | never two servers; the last good generation serves; exit 0 means drained |
| build ownership, `project-build.ts` | `.fadeno/build-lock` | acquire, release | other commands | races between file system calls of processes | one owner; dead owners do not block |
| build transaction, `project-build.ts` | `dist`, rollback, rejected, stage, verification | recover, prepare, accept, commit, rollback, discard | generation child | kills, failing calls, orphaned writers | dist is replaced whole or not at all |
| HTTP adapter, `node-http.ts` | abort controller, reader, target | handle, copy, drain, disconnect | routes, peers | disconnect and backpressure at any point | only a whole body ends a response |
| route rendering, `render-route.ts` | a resource scope per request | page, error page, redirect | renderer, resources | failures while failing | resources live exactly as long as the response |
| renderer and lifecycle, `renderer.ts`, `streaming-lifecycle.ts` | phase, buffer, cleanups, iterator | publish, pull, cancel | adapter | late chunks, late errors | nothing after the end; every cut is explained |
| request resources, `resource.ts` | cache, calls, observations | read, close, revalidate | loaders | shared loads that are rejected or abandoned | equivalent reads share one load and outcome |
| actions, `action-server.ts`, `action-decision.ts`, `session-decision.ts` | server session, replay ledger, keyring | serve, invoke, renew, consume | routes, forms | overlapping requests on one cookie; replay at the limits; restarts | a proof is used once; an action and its session change travel together; forms fit the session they are sent with |
| browser navigation, `browser-navigation.ts`, `browser-update.ts`, `browser-form.ts` | active operation, history ownership, recoveries, consumed results | navigate, submit, popstate, close | server updates, browser history | superseded responses, traversal, failed commits | only the current operation commits; history and document agree |
| routing, `routing/discovery.ts`, `routing/matcher.ts` | none | discover, match | generator, adapter | precedence of patterns | one best match |
| update protocol, rendering security, analyzer facets, diagnostics, commands, entry points | none between calls | pure functions, straight-line commands | | | |

Interactions the models rely on:

* `fadeno dev` gives its adapter a target whose `refresh()` calls the analyzer
  (through the coordinator), then the generation owner, then switches children;
  `build` calls the same owner once.
* The analyzer's `refresh()` begins a route transaction, has the compiler judge
  the project with the staged routes, and commits or rolls back.
* The Node adapter's request signal is the only thing that tells rendering and
  resources that a client has gone.
* A rendered document carries forms whose proofs bind the session it is sent
  with; the browser runtime submits them and displays the document that answers.

## 2. Modules

| Module | Models | State and actions |
|---|---|---|
| `AnalyzerCoordinator` | `analyzer-coordinator.ts` | the code between two awaits is one action; `drain` and `closer` say where the worker and `#waitForIdle` are suspended; `Start`, `Cancel`, `RunNext`, `OperationReturns`, `Checkpoint`, `DrainEnds`, `Close` … are the methods and continuations |
| `AnalysisService` | what the coordinator promises | answers per request, the one being served and the verdict hanging over it; no queue, no worker |
| `AnalyzerSession` | `analyzer-session.ts` with `analyzer-graph.ts`, `analyzer-publication.ts`, `analyzer-explain.ts` | known documents with saved text, overlay, lifetime and version; epochs; the committed graph; publication and explanation tickets, each at the await it is suspended in |
| `CompilerValidation` | `validate` and `assertCurrent` of `analyzer-compiler.ts` | `phase` is the suspended call, `done`/`got` the files read so far; `inventory`, `inputs`, `judged` are what it recorded; `Touch` is an editor |
| `RouteApplication` | `beginRouteArtifactApplication`, `recoverTransactionState`, `refresh`/`close` of the analyzer | extends `CompilerValidation`, whose steps happen while a refresh awaits the compiler. `output`, `pending`, `previous`, `empty`, `garbage` are the directories by name prefix; `at`/`step` the next call of transaction and recovery; `retained` the analyzer's three duties; `tries` the catch clauses that have yet to call `rollback()` |
| `DurableRoutes` | what a refresh promises | asked version becomes durable, or nothing changes |
| `InvalidationAdapter` | `analyzer-watcher.ts` | pending batch (`first`, `size`, `full`, `hints`, `bytes`, times), timer, active cycle, waiters with targets; `Notify`, `FlushCalls`, `TimerFires`, `CycleEnds`, `Closes`, `Tick` |
| `DevSupervisor` | `project-dev.ts` with the decision model | a refresh stands at the await it is suspended in; children are processes with status and kill flags; analysis, emission, dist and the adapter are reduced to outcomes, the throwing ones of `accept()`, `commit()` and `rollback()` included (`AcceptRefused`, `CommitFails`, `RollbackFails`) |
| `BuildOwnership` | `acquireBuildLock`, release, cleanup | several processes, one action per file system call; content of the lock is its owner |
| `BuildTransaction` | recover, prepare, accept, commit, rollback, discard of `project-build.ts` | five directories holding nothing, a generation, the files of two emissions or a broken tree; `at` is the next call; crashes, failing calls, orphaned emission |
| `AtomicOutput` | what a build promises about `dist` | appear, accept, withdraw, replace; `overlapped` is the environment's |
| `DocumentResponse` | `node-http.ts`, `render-route.ts`, `renderer.ts`, `streaming-lifecycle.ts`, `resource.ts` for one request | route place and cause, lifecycle phase, stream, iterator, adapter, target, resource scope and its reads |
| `ActionServer` | `action-server.ts`, `action-decision.ts`, `session-decision.ts` | each `slot` is a request with its open session, buffer and publication; `ledger`, `keyring`, `proofs` the server's; `jar` and `held` the browser's cookie and forms. A response comes in steps: `SetsCookie` with its head, then one `RenderForm` per form a pull reaches, until `End`; `replaced` remembers whose session another response replaced meanwhile. `Restart` forgets the ledger and the action identities and may rotate the key |
| `BrowserNavigation` | `browser-navigation.ts`, admission of `browser-update.ts` and `browser-form.ts` | `page` is the tab while one document lives: history entries, displayed document, operations, timers, pending jumps, observers and the recoveries of `startPrivateLinkNavigation`; the browser's history, prompt and native load are external |

`MC_*` modules give the constants of the runs, and `*Proofs` modules hold the
theorems. `ServerProofs` holds those of `ActionServer` and `DocumentResponse`,
`ProjectBuildProofs` those of `BuildTransaction` and `BuildOwnership`, and
`AnalyzerProofs` those of `AnalyzerCoordinator` and `AnalyzerSession`; each
extends both of its models, which is why the names of one carry a prefix
(`ResponseNext`, `LockNext`, `SessionNext`). `BrowserRecoveryProofs` continues
`BrowserNavigationProofs`, whose second half holds what both of its invariants
need of the runtime's functions. A definition whose name ends in `_something` next to
a definition without the suffix is a plausible mistake in that code; the
corresponding run refutes its property when the mistake is put in.

### What is abstracted

Identities, hashes, manifests, signatures and file contents are model values
(two trees are equal or not, valid or not). Paths are model values with a size.
Diagnostics and messages are left out. Module by module:

* *RouteApplication.* Artifact writes are one step that may stop in the middle,
  because the recovery treats any partly written directory alike.
  `applyRouteArtifactPlan`, which only repository scripts call and which leaves
  a transaction pending when `commit()` throws, is not modelled.
* *CompilerValidation.* A file's identity is the number of touches since
  `validate()` was called, and a read interrupted by a touch fails. Aborts,
  limits, diagnostics, path ownership and the termination of an aborted child
  are one failure. The files a child lists are a constant; a child that lists
  others fails the validation. `#active` and `close()` of the validator never
  refuse, since the analyzer awaits each validation.
* *DocumentResponse.* Markup is a number of chunks; loader results are value,
  expected error or unexpected error.
* *ActionServer.* A session's content is the proof of the last action that wrote
  it; a proof is the fields it binds. Parsing is a refusal that may always
  happen. A form arrives when it is signed; those of a page that is run only for
  its revalidation, whose document nobody receives, leave no trace. Two
  overlapping actions on one cookie are allowed, and the last response wins, as
  in the code.
* *AnalyzerSession.* The verdicts stale, superseded and cancelled are one,
  "aborted". A graph value is what it was computed from. A file may have any
  content whenever it is read. Refused operations are no step. Artifacts,
  facets, removed-node evidence, limits and codecs are left out.
* *BrowserNavigation.* What depends on scroll, focus or dirty controls may
  always go either way. The assumptions on the browser are listed in section 3.
  Left out: fragments of the same resource, GET forms, the back/forward cache,
  history written by the application, traversals within the document after its
  runtime was closed, and the timer that supersedes pending work after a click
  the browser keeps and whose propagation the page stopped
  (browser-navigation.ts:2595-2612): in the model every activation the browser
  keeps supersedes pending work in the step that starts it.

## 3. Runs

Every run exhausts its instance, except the two that end at a counterexample.

| Run | Instance | Distinct states | Checks |
|---|---|---|---|
| `coordinator` | 4 operations | 112,099 | `Consistent`, `BatchIsExact`, `ClosedIsQuiet`, `LatestAnalysisWins`, `ServiceRefined` (refines `AnalysisService`), `EverythingSettles` |
| `analyzer` | 2 documents, 2 texts, 2 graph nodes, version 1, 2 epochs, 2 publications, 1 explanation, 1 direct graph analysis | 1,369,228 | `GraphIsExact`, `LifetimesNeverReturn`, `ResultsAreCurrent` |
| `routes` | 3 versions, every call may fail, kills and edits; 3 files, each touched at most once per validation | 842,952 | `NothingForgotten`, `RefreshIsAtomic` (refines `DurableRoutes`), `CommitsWhatWasJudged`, `RefreshRecovers` |
| `adapter` | 4 admissions, 3 flushes, clock to 2, 4 paths in 2 spellings, 2 hints, 7 bytes | 276,512 | `NothingStranded`, `BatchIsFaithful`, `FlushIsCurrent`, `WorkIsTaken` |
| `dev` | 3 versions of the files, 5 children, 2 signals, any subset of four unlikely faults | 242,088 | `OneServer`, `NoStaleServer`, `LastGoodServesUnlessLost`, `OutputIsTransactional`, `WorkEnds` |
| `ownership` | 4 commands, 2 of them builds, 2 killable, 3 attempts | 671,002 | `OneOwner`, `AcquisitionEnds`, `StaleLockRecovered` |
| `transaction` | 2 generations, every call may fail, kills, orphans | 34,238 | `Recoverable`, `OutputIsAtomic` (refines `AtomicOutput`), `ReturnsClean` |
| `response` | 3 keys, 4 readers, 3 calls, 2 reads, 2 chunks | 1,547,932 | `NoSilentTruncation`, `ScopeFollowsResponse`, `SharedLoads`, `LateWorkIsMute`, `ResourcesReleased` |
| `action` | 2 overlapping requests used again and again, 3 proofs, 2 sessions, ledger limits 2 and 2, lifetimes 1, clock to 1, 1 restart | 1,657,748 | `LedgerExact`, `OncePerProof`, `SessionIsAtomic`, `FormsFollowSession` |
| `browser` | 2 resources, 2 history entries, 3 acts of the user, 2 refused prompts, 1 POST | 1,158,940 | `Coherent`, `KnownTruth`, `LatestIntentWins` |
| `dev_drain` | 2 versions, 3 children, 1 signal, one fault | | violates `LastGoodServes` (section 6) |
| `ownership_exclusive` | 4 commands, no kills | | violates `MutualExclusion` (section 6) |

What each run shows:

* **coordinator.** In every interleaving of starts, cancels, close and the
  worker's continuations the queue is sorted and exact, each result is settled
  once and says what happened, an analysis that succeeds is the newest one
  requested, and close resolves on an idle coordinator.
* **analyzer.** The committed graph is what a computation from nothing would
  give, although results are reused and commits are prepared before an await; a
  reader never meets a lifetime that ended while its document stayed known; a
  publication or explanation that succeeds describes the state its session is
  in, whatever was opened, edited, closed or asked for while it was suspended.
* **routes.** A refresh publishes its plan or leaves the routes as they were;
  no sequence of failures leaves two leftovers of one kind, which
  `recoverTransactionState` would refuse for ever; what a refresh could not
  undo is retained for the next one; the routes that are committed are those
  the compiler judged, in one state of the project that was still there when it
  was asked again; once faults stop, a refresh publishes what the sources say.
* **adapter.** A notification that arrives during a cycle is taken up by a later
  one; a refused hint becomes a rescan; a flush is settled by a cycle that began
  after everything admitted before it; no stream of notifications postpones a
  pending one beyond the maximum delay.
* **dev.** Two children are never alive at once, a serving child runs the
  generation in dist, an edit is neither missed nor lost, dist is replaced and
  undone as a whole, exit 0 means drained. `accept()` may refuse for any reason,
  and `accept()`, `commit()` or `rollback()` may throw half-way, with a directory
  left in `build-stage` (`dist.left`, the fault `file-system`). The properties
  say what holds then: of two children one has been sent SIGKILL, the serving
  one still runs the files in dist, no later call touches dist, and a shutdown
  still ends. What does not hold any more is in section 6.
* **ownership.** The command on file is the only owner until another one renames
  away a lock that it did not read, and even then two own the project together
  only when four commands have been started in all, finished ones included: how
  many live at once does not matter. Acquisition ends, a dead owner's lock does
  not refuse the next command. With the fourth command exclusion fails (section 6).
* **transaction.** Kills between any two calls, failing calls and a child that
  goes on writing for a dead parent never lose the accepted dist or replace it in
  part. What such an orphan writes after the manifest is noticed; what it writes
  into the stage before is hashed and accepted (section 6), which `AtomicOutput`
  allows for an emission that overlapped with it and for no other.
* **response.** Only a whole document or a bodyless response ends normally; a
  connected client is cut off only for an expected error or one the observer was
  told of; equivalent reads share one load; nothing late is sent. The resource
  scope is released once the client is gone; while it stays, it is released
  unless the response waits for ever for its next read, because the client does
  not drain or the document yielded an empty chunk (section 6).
* **action.** The ledger's counts and its next expiry are those of its entries
  and within its limits; a proof runs its action once, whatever overlaps, is
  resubmitted or restarts. The exception is the code's own: `consume()` compares
  with the clock of the request's start, so that a request which started before
  the proof was due may run it again after a later one pruned it. No session
  carries what a failed action wrote, and the response to a committed one carries
  what it wrote. The cookie goes out with the head of a response and its forms in
  later pulls; in between other responses arrive, time passes, sessions end. A form
  that arrives is bound to the session then in the browser, unless another
  response replaced the one its document's head had left there (or, for a head
  without a cookie, the one the request was sent with); then it is bound to
  that one, and will be refused.
* **browser.** Once nothing is under way, the address bar names the displayed
  document and no operation or traversal is left open; the document is then at
  least as new as every mutation the runtime knows to be committed; the answer to
  an operation the user has superseded never replaces the document.

Deadlock is checked in every run but two: `action` and `analyzer` stop when
their bounds on proofs or epochs are used up, which is no state of the program.
Elsewhere, where a system really ends (`Ended` in `DevSupervisor`, `AllGone` in
`BuildOwnership`, `Rest` in `BrowserNavigation`, and the like), the model says
so with a stuttering step.

### Bounds, and why they are enough

* *Operations (4).* Supersession involves a running, a queued and a new
  analysis, and one explanation between them; batches need three analyses.
* *Session.* Two epochs and two publications give a publication that is
  superseded, one made stale by an edit and a successor that reuses results; a
  graph of two nodes has a dependency across documents. The theorems hold for
  any number.
* *Admissions and flushes.* Two hints and seven bytes make both limits reachable
  with four admissions; three flushes give one before, one during and one after a
  cycle. The clock runs to two with a delay limit of two, so that debounce and
  limit both decide.
* *Children (5).* Two switches with a failed candidate and a restored child each;
  three file versions let an edit arrive in two consecutive refreshes.
* *Commands.* Four commands are two owners, the process that displaced the
  first one's lock and the finished one whose lock it had read; the code's eight
  attempts become three, and the attempt that is refused is the last one either way.
* *Generations, versions (2, 3).* The transaction compares old with new; routes
  need a third version for edits made while the second is being applied. The
  three files are one that is of the project and read by the compiler, one that
  is only of the project (its configuration) and one that is only read (an
  installed package). One touch each is enough to separate any two of the reads
  of a file; the theorem holds for any number.
* *Readers (4), keys (3).* Two readers share a key, a third has its own, the
  fourth meets the limits.
* *Requests (2).* Two overlapping requests reuse their slots, so that a third
  and fourth come after; three proofs meet ledger limits of two; a clock that
  goes on once separates live from expired proofs and sessions. The theorems
  hold for any number.
* *Acts (3).* A submission, a navigation or traversal that supersedes it, and
  one that meets its recovery; two refused prompts leave a recovery to its last
  resort. Two entries are the newest one and the one before it.

Slots, resources, documents and texts are symmetry sets in `action`, `browser`
and `analyzer`, which check no liveness. The other runs use none.

### Fairness

Fairness is stated where the code's scheduling gives it: a promise that has
settled runs its continuation, a timer that was set fires, a killed process
exits, a call to the file system returns or throws. The environment (starts,
cancels, edits, signals, notifications, kills, disconnects) has none.

* `AnalyzerCoordinator!FairSpec`: the worker's and close's continuations, and
  operations return. The last is an assumption on callers: the coordinator has no
  timeout of its own.
* `InvalidationAdapter`: timers, cycle ends, close's continuation, and the clock.
  That a cycle ends is an assumption on its target, which `DevSupervisor` (`WorkEnds`)
  justifies for development.
* `DevSupervisor`: a child that was killed exits; one that was asked to exits
  unless it belongs to the fault `drain-deadline`; the start-up deadline bounds a
  child that is neither ready nor gone.
* `BuildOwnership`: each living command goes on.
* `RouteApplication`: a refresh, its compiler included, goes on and another is
  asked for. `RefreshRecovers` begins at `calm`, after which no call fails,
  nothing is killed and no source moves.
* `DocumentResponse`: a page and its error page return or throw, and a document's
  pull settles. These are assumptions on the application, since rendering has no
  timeout of its own; loaders need not settle, and a client need neither drain nor
  go away.

`ActionServer` and `AnalyzerSession` state none: a request or a ticket may be
abandoned at any await. Nor does `BrowserNavigation`, since a server need not
answer; that work is not stuck is the deadlock check together with `Coherent`,
which says what must be settled once nothing is pending.

### Assumptions about the browser

The unload prompt is modal, and a load that was agreed to goes through; a
document whose user agreed to leave refuses no later prompt. Timers without
delay and pending jumps come before the next answer to a request the runtime
still owns, and the user acts at most once while such a timer is due
(`Punctual`); the 50 ms traversal timer may come at any time. History writes do
not fail. A native load shows the server's current state.

## 4. Proofs

For every value of the constants, from the assumptions named in the modules
(which TLC also evaluates):

| Module | Inductive invariant | Theorems |
|---|---|---|
| `AnalyzerProofs` | coordinator: `TypeOK`, `QueueIsPending`, `SettledWhenDone`, `QueuedWorkHasWorker`, `OutcomeIsTrue`, `Places`, `Newest`; then `Batches`; session: `Lifetimes`, `Current`; then `Graphs`, `Tidy` | `TypeCorrectness`, `QueueCorrectness`, `NothingForgotten`, `NoLostWakeup`, `TruthfulOutcomes`, `CloseDrains`, `LatestWins`, `FirstVerdictWins`, `InOrder`, `Consistency`, `Refinement`, `BatchesAreExact`; `EndedLifetimesStayEnded`, `NothingStaleIsPublished`, `IncrementalIsExact` |
| `RouteApplicationProofs` | `TypeOK`, `Unambiguous`, `Sweeping`, `Staging`; then `Retaining`; then `Judgement` | `TypeCorrect`, `NeverAmbiguous`, `LeftoversRetained`, `RefreshImplementsDurable`, `JudgementIsCurrent` |
| `InvalidationAdapterProofs` | `Queued`, `Served`; then `Limited` | `NothingIsStranded`, `FlushesAreCurrent`, `BatchesAreFaithful` |
| `DevSupervisorProofs` | `Typed`, `Placed`, `Equipped`, `Decided`, `Closed`, `Informed`, `Candidate`, `LastGood` and smaller parts | `NeverTwoServers`, `SwitchesAreTransactional`, `EditsReachTheServer`, `LastGoodKeepsServing` |
| `ProjectBuildProofs` | transaction: `TypeOK`, `RenameTargetsFree`, `BackedUp`, `Transaction`, `Provisional`, `Overlaps`; lock: `Typed`, `OnFile`, `FewExplained` | `AlwaysRecoverable`, `AtomicReplacement`, `CleanReturns`, `OwnershipIsExclusive` |
| `ServerProofs` | response: `Shape`, `Agree`, `ScopeInv`; reads: `ReadShape`, `Empty`, `Once`, `Faithful`, `SameOutcome`, `Interrupted`; actions: `Clocks`, `Issued`, `Jar`, `Requests`; then `Counted` and `Bounded`; then `Admitted`; `Follows` | `NoTruncation` (from `WholeResponses` and `ExplainedCuts`), `ScopeLifetime`, `ReadsShareLoads`, `LateWork`, `LedgerAlwaysExact`, `ProofRunsOnce`, `SessionsAreAtomic`, `FormsAlwaysFollow` |
| `BrowserNavigationProofs` | `Typed`, `Unique`, `Exclusive`, `Placeholder`, `Travs`, `Carried`, `Closing`, `Rolling`, `Owed`, `Fair` | `Consistency`, `LatestIntent` |
| `BrowserRecoveryProofs`, on top of it | `Kept`: `Form`, `Steady`, `Newest`, `Heavy`, `Holder`; `Whole`: `Faithful`, `Turned`, `Mended` | `RecoveryKept`, `PageTypes`, `TruthKnown`; `TruthRestored`, `AddressCoherent` |

* *Coordinator.* Nothing about outcomes is inductive without knowing that the
  queue is exactly the pending items and that queued work has a worker; and the
  newest analysis can only be told from the pointer to the pending one because
  that pointer is in the queue. The refinement maps the queue to "waiting" and
  the active item's state to the verdict hanging over it; `RunNext` is a stutter
  when the worker has already turned to the next item in the abstract step.
  `Batches` says that a queued analysis covers every analysis requested since the
  first of its batch, all superseded and none run.
* *Session.* `Lifetimes` puts every ended lifetime below the next one to be
  given; `Current` says that no ticket is newer than the active one, and that
  what a ticket has prepared is of the session's documents and configuration as
  long as the epoch in its authority is the session's. `Graphs` says that the
  committed results and the prepared ones are those of a computation from nothing.
  A node that is kept has the inputs it had, and so have all it depends on; the
  argument is by the least node at which the two computations would differ, since
  definitions only depend on smaller nodes (`Acyclic`).
* *Routes.* `Sweeping` says what the recovery has settled at each of its steps,
  `Staging` what each step of the transaction has put on the disk. With these,
  only `commit()`'s rename changes the survivor. `Retaining` (a recovery is
  retained until a transaction takes over) gives the claim that nothing is
  forgotten. `Judgement` is the argument of the double reading: a file that was
  read with the same identity before and after an instant had that identity at
  the instant, since identities only grow. The instant is the spawn of the
  compiler for the first pair of readings, and the call of `assertCurrent()`
  for the second.
* *Adapter.* `Queued` says that a pending batch has a timer or a cycle before it
  and names every change since the last one; `Served`, which builds on it, what
  each waiter of a flush is waiting for. The bytes of a batch, a recursive sum
  over its hints, are shown to be the number of cells those hints occupy
  (`SumIsCells`), which set theory bounds.
* *Supervisor.* `Placed` and `Candidate` say which children can be alive at each
  place of a refresh, up to the killed one a failed `commit()` leaves; `Equipped`
  which files and environment each runs; `Informed` that a change that was notified is pending or in
  the running refresh, unless that refresh was aborted or the last one failed.
* *Transaction.* `RenameTargetsFree` needs to know, for each place of the owner,
  which directories the earlier calls have emptied (`Transaction`); atomicity
  needs `BackedUp`, and a separate clause for a project's first output, which
  has no backup (`Provisional`). `Overlaps` says that files of two emissions are
  in a tree only when the emission overlapped. The abstract output is what the next recovery
  would leave (`Survivor`), not what the directory holds.
* *Lock.* `OnFile`: every owner's file is the lock, or some command displaced one.
  `Explained`: an owner whose file is no longer the lock was robbed, by a
  command that renamed away a lock other than the one it read. That takes the
  robber, the finished owner it read, and the owner it robbed, so that among three
  started commands nobody is left to own the project as well. `Explained` itself
  is inductive only while there is one owner, hence `FewExplained`: it holds until
  a fourth command is started. `ownership_exclusive` shows what happens then.
* *Response.* `Agree` relates the phase, the stream, the adapter and the
  reports; the scope's lifetime follows from where the route stands. `Faithful`
  relates each read to its cache entry, from which `SameOutcome` follows.
* *Actions.* `Counted` is exact because an entry is added and pruned together
  with its count. That a proof runs once needs `Admitted`: a proof of
  this process that ran is still in the ledger, or was pruned with a clock
  reading at which it was due, and a proof of an earlier process does not verify.
  That forms fit needs `Follows`: a request that no other response has overtaken
  was sent with the session of the jar or draws one, so that its head leaves the
  session its snapshot names, and what replaces that later marks the document.
* *Browser.* Superseding acts abort the operation under way, but some paths take
  it up again: a rollback that arrives, a recovery that begins. `Fair` says that
  an operation the user has superseded and that could still commit does not own
  the page, unless the page commits no more (`Off`). It needs `Rolling`: a
  rollback without an operation of its own is awaited only while nothing of the
  user's is under way (`Idle`), or when the page is off; and `Owed`: the forward
  step after an interrupted POST is still to come, so that its popstate does not
  meet something else. `Placeholder`, `Travs` and `Carried` say whose rollback and
  traversal it is. The proof follows the runtime's functions, one lemma each.
  `TruthKnown` builds on it. Nothing in the runtime owns the recovery of a commit:
  it moves from a request to a rollback, a prompt to come, a refused prompt, a
  timer or a jump, and back. `Holder` names the places it may be in while the
  document is older than it owes, and `Heavy` says that whatever else may take
  over carries it too; a request in flight was sent after the commit (`Newest`),
  so that showing its answer pays the debt. Each step of `Holder` needs to know
  that its bearer is not overtaken, which is `Steady`: a single operation may use
  its answer, a rollback is the only jump under way and its entry exists, the
  step to a superseded push stays possible, a traversal's delayed timer agrees
  with the active operation, and an observer that carries nothing goes with a
  prompt still to come. `Form` is what holds even after the page was given up:
  everything that is loaded, shown or repaired later has a URL, and an operation
  left to a native timer has that timer. What `page.lapsed` exempts is where
  `Heavy` or `Steady` would break, each at the line section 6 names.
  `AddressCoherent` rests on both. Between two events the address bar may well
  name another document than the one displayed, so the invariant says who will
  correct it. `Faithful`: the runtime's truth is the displayed URL, and whatever
  would restore an URL later (a staged observer, a rollback, its timer) would
  restore that one; no two operations serve the same traversal. `Mended`: while
  the selected entry has another URL, there is an operation that replaces the
  document or recovers, an observer whose guard still holds, the traversal's
  delayed timer, or an arrival to come. `Turned`: an open traversal is requested,
  is repeated natively, or waits for an arrival. Every function of the runtime
  keeps the first and the last (`Tells`); `Mended` is shown for each action,
  since most of them break it in the middle. Once nothing is under way none of
  its bearers is left (`Quiet`, with `WaitingIs` from the invariants below), so
  the URL is right. The proof corrected the property: what was first
  model-checked, that no operation at all is left active, holds for three acts
  and fails for six (section 6), so `Settled` excepts the one that keeps a
  recovery.

Model-checked only: liveness (`EverythingSettles`, `WorkIsTaken`, `WorkEnds`,
`AcquisitionEnds`, `StaleLockRecovered`, `RefreshRecovers`, `ResourcesReleased`),
which needs fairness and ENABLED. Every invariant and every action property a
passing run checks is stated by a theorem.

## 5. Hazards

`PROJECT.json` lists what is hard to test here, each at its line with the
properties that watch it. Hazards that were met and that no property watches:

* `project-dev.ts:571`: an edit during start-up aborts the first refresh and its
  `flush()`, so the command ends although the next refresh would succeed.
* `project-build.ts:951`: a project's first output has no backup; damaged by an
  orphan before it is accepted, it can only be built again.
* `project-build.ts:961`: `commit()` throws after its switch is final, and
  `build` treats the output as not published (for `dev`, see section 6).
* `analyzer-watcher.ts:392`: the notifications of a batch whose `refresh()`
  throws are reported through `onFailure` and not repeated; whether an edit is
  lost is for the target (`NoStaleServer`).
* `renderer.ts:299`: a boundary that times out after it emitted the framework
  module drops the markup but stays marked as having emitted it.
* `render-route.ts:203`: a disconnect while the page runs is taken for a failure
  of the page (section 6).
* `project-build.ts:1143`: the clean-up of a refused build (section 6).

## 6. Findings and divergences

Shown by a run:

* `dev_drain` — when the previous child outlasts its drain deadline, `stop()`
  throws outside the `try` of `#switch`: the child is killed, nothing replaces
  it, and the supervisor waits for the next edit.
* `ownership_exclusive` — with four commands, one that read a finished owner's
  lock renames a living owner's lock away.

Met while modelling, in the models but without a run of their own:

* `project-dev.ts:447`: when `commit()` throws, `settle()`
  (`project-build.ts:1095-1102`) has already made `rollback()` a no-op. The
  candidate is killed but not awaited while the previous child is started, on the
  candidate's files and in the previous environment; dist keeps a generation the
  decision model never accepted. When `rollback()` throws (line 454), the
  previous child is not restarted at all. Either way the directory left in
  `build-stage` makes every later `accept()` fail
  (`FADENO_BUILD_TRANSACTION_STATE`), although the watch goes on. The properties
  of `dev` except these cases by `dist.left`.
* `project-dev.ts:450`: after a restart failed there is no previous child, so the
  next refresh publishes its output and only then `ready()` refuses a generation
  other than the first: the candidate is killed and its files stay in dist.
* `project-dev.ts`: a forced shutdown while the previous generation is being
  restarted leaves the restarted child running: it is not yet registered.
* `project-build.ts`: a build that is refused deletes the owner's stage.
* `project-build.ts:678`: `prepareManifest` hashes what is in the stage and does
  not compare it with what the emission child reported. Files that the child of a
  killed command writes there meanwhile enter the manifest, and a mixed dist is
  accepted. `verifyEquivalentGeneration` (`build` only) compares the two children's
  digests, not the tree.
* `render-route.ts`: a disconnect while the page runs is reported as an
  unexpected failure and answered with the error page
  (`docs/adr/0029`, lines 54-56).
* `renderer.ts:193`, `streaming-lifecycle.ts:155`: an empty text or unsafe-HTML
  child is yielded as an empty chunk, for which `write()` enqueues nothing. The
  stream has no buffer (`highWaterMark: 0`), so `pull()` is not called again for
  the pending read, and the response stands still until the client goes away
  (`YieldsNothing`).
* `action-server.ts:733`: the session cookie goes out before the forms of its
  document are signed, and two requests without a cookie each draw a session. When
  both answer with documents, the later head replaces the session of the earlier,
  whose forms, those yet to be rendered included, are refused (`replaced`).
* `action-server.ts`: sending or renewing the cookie throws when the session ended
  while the handler ran (`CookieThrows`);
  `docs/spec/forms-actions-sessions.md:124` says that renewal never throws past
  the response boundary. The same document (line 69) and `docs/adr/0035` (line
  129) say that a form rendered before a rotation verifies under the prior key,
  but action identities are drawn at random by each process
  (`action-decision.ts:197`), so it does not after a restart.
* `analyzer-session.ts`: after `remove()` or a forgotten document, lifetimes
  begin again at 1, which `docs/spec/compiler-analyzer.md:62-66` excludes;
  `LifetimesNeverReturn` speaks of documents that stayed known.
* `browser-navigation.ts`, exempted by `page.lapsed` in `Coherent`,
  `KnownTruth` and `LatestIntentWins`:
  1. A traversal to the newest entry while a mutation is pending calls
     `history.forward()`, which does nothing there, and the fallback is skipped:
     the old document stays under the other entry's URL
     (`docs/adr/0050-history-focus-and-scroll-qualification.md:21-22`).
  2. A scroll during the rollback of a selected push aborts it and drops the
     recovery of the committed mutation
     (`docs/spec/navigation-patching-preservation.md:397-399`).
  3. A POST submitted during a rollback takes the rollback's popstate, and the
     recovery of the push goes stale.
  4. `close()` after the fallback of a failed traversal finishes at once; when
     the reload is then refused, the selected URL keeps the old document.
  5. `close()` during a rollback can stay "closing" for ever.
  6. A policy-protected activation while a fallback without repair has another
     entry selected, followed by a refused prompt: URL and document disagree.
  7. The user reaches the entry that a superseded push waits for while a newer
     operation is under way: that operation is not aborted (lines 3006-3021) and
     may commit after the traversal.
  8. A scroll during a traversal that carries a recovery leaves the recovery only
     in the 50 ms timer; an activation, form or traversal before the timer fires
     drops it (lines 1359-1373).

  Not exempted, but why `Settled` allows one operation: a form submitted during a
  traversal that carries a recovery leaves that traversal's observer behind
  (lines 1746, 2886). A prompt refused much later makes it start the recovery
  while a rollback is under way; the rollback aborts the wait, and the placeholder
  operation stays active with nothing left to do. It takes six acts from two
  entries (a form, a traversal, a form, a link, a traversal, a native
  activation). URL and document agree, no commit is owed, and the next act
  takes the recovery over.

## 7. Plan

Done, in the order of what would cost most if wrong: who may work when, what may
be lost on disk, what a client sees, what an action may do twice, what a tab
shows, and what an editor is told.

What remains, in this order:

1. Which documents editors may open (`document()` and its ownership of edited
   files in `analyzer-project.ts`), over `AnalyzerSession`.
2. The route matcher as operators, against a reference definition over bounded
   patterns and paths.
3. Composition of the adapter with the supervisor, and of ownership with the
   transaction, whose interfaces are now reduced to outcomes.

## 8. Not modelled

* Cryptography, codecs, serialisation, the update protocol, diagnostics, facets,
  rendering security and formatting are pure functions of their input.
* Route discovery and matching keep no state; the matcher is in the plan.
* Project creation, checking and deployment are straight-line commands; entry
  points and action declarations only register or re-export.
* Directory scans, type checking and emission are inputs to the models.
* `revalidateResourceDependencies` and the comparison it uses (`resource.ts`
  477-524) are called by nothing in the framework.
* Graceful shutdown of the HTTP listener and the decoding of targets and
  headers are left out of `DocumentResponse`.
* Scripts, examples, fixtures, prototypes and experiments are not part of the
  product; they are most of the repository's lines, so the mapped share of the
  whole repository stays small although nearly all of the framework's stateful
  code is mapped.
