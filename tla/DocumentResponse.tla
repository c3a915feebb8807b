---------------------------- MODULE DocumentResponse ----------------------------
(***************************************************************************)
(* One request from the socket to the last byte: node-http.ts runs the     *)
(* handler and copies its Response to the client; render-route.ts runs the *)
(* page, or the error page when it throws; renderer.ts streams the document *)
(* one chunk per read; streaming-lifecycle.ts owns the response's phase and *)
(* resource.ts the reads of the request.                                   *)
(*                                                                         *)
(* Pages, documents and loaders are the application's: they may return,    *)
(* throw, ignore cancellation, and read resources for as long as they like. *)
(* A step is what one event-loop task does.                                *)
(***************************************************************************)
EXTENDS Naturals, FiniteSets

CONSTANTS
  Key,                   \* a declaration and its canonical input
  Reader,                \* calls of context.read, one resource each
  maximumRequestCalls, maximumRequestReads,
  MaxChunks              \* bound on chunks of a document

ASSUME ResponseAssumption ==
  maximumRequestCalls \in Nat /\ maximumRequestReads \in Nat /\ MaxChunks \in Nat

VARIABLES
  client,    \* whether the client is connected
  aborted,   \* the request's signal
  target,    \* what the ServerResponse did: chunks sent, ended, destroyed
  route,     \* renderMatchedRoute: where it is and what it failed with
  phase,     \* #phase of the StreamingLifecycle
  stream,    \* state of the ReadableStream
  work,      \* iterator.next(): running, idle between pulls, or ended
  produced,  \* chunks the document yielded
  adapter,   \* writeWebResponse: awaiting the handler, reading, draining, done
  reports,   \* calls of the failure observer before and after publication
  closed,    \* #closed of the ResourceRequestScope
  calls,     \* #calls
  entry,     \* #cache with the observation of each entry
  loads,     \* history: loader calls per key
  reader     \* what each read waits for, and what it got

wire == <<client, aborted, target, adapter>>
body == <<phase, stream, work, produced>>
scope == <<closed, calls, entry, loads, reader>>
responseVars == <<wire, route, body, reports, scope>>

Published == phase \in {"head-published", "body-started"}
Settled == {"value", "expected", "unexpected", "cancelled", "refused"}
NoRead == [key |-> "none", got |-> "none"]

ResponseInit ==
  /\ client = "connected" /\ aborted = FALSE
  /\ target = [sent |-> 0, ended |-> FALSE, destroyed |-> FALSE]
  /\ route = [at |-> "page", cause |-> "none"]
  /\ phase = "uncommitted" /\ stream = "none" /\ work = "none" /\ produced = 0
  /\ adapter = "handler" /\ reports = [pre |-> 0, post |-> 0]
  /\ closed = FALSE /\ calls = 0
  /\ entry = [k \in Key |-> "none"] /\ loads = [k \in Key |-> 0]
  /\ reader = [r \in Reader |-> NoRead]

-----------------------------------------------------------------------------
(* Resources.  A settled load answers every read that awaits it.             *)
Answered(k, outcome) ==
  [r \in Reader |-> IF reader[r] = [key |-> k, got |-> "none"]
                    THEN [key |-> k, got |-> outcome] ELSE reader[r]]

(* waitForResourceLoader: the signal settles what is still loading.          *)
Abandoned ==
  [r \in Reader |-> IF reader[r].key \in Key /\ reader[r].got = "none"
                    THEN [reader[r] EXCEPT !.got = "cancelled"] ELSE reader[r]]
AbandonLoads_not == UNCHANGED scope      \* mutant: loads ignore the signal
AbandonLoads ==
  /\ entry' = [k \in Key |-> IF entry[k] = "loading" THEN "cancelled" ELSE entry[k]]
  /\ reader' = Abandoned
  /\ UNCHANGED <<closed, calls, loads>>

CloseScope ==
  /\ closed' = TRUE /\ reader' = Abandoned
  /\ entry' = [k \in Key |-> "none"]
  /\ UNCHANGED <<calls, loads>>

Entries == Cardinality({k \in Key : entry[k] # "none"})
Give(r, k, outcome) == reader' = [reader EXCEPT ![r] = [key |-> k, got |-> outcome]]

Read(r, k) ==
  /\ reader[r] = NoRead
  /\ calls' = IF closed THEN calls ELSE calls + 1
  /\ \/ /\ closed \/ calls >= maximumRequestCalls
        /\ Give(r, k, "refused") /\ UNCHANGED <<entry, loads>>
     \/ /\ ~closed /\ calls < maximumRequestCalls /\ aborted
        /\ Give(r, k, "cancelled") /\ UNCHANGED <<entry, loads>>
     \/ /\ ~closed /\ calls < maximumRequestCalls /\ ~aborted /\ entry[k] # "none"
        /\ Give(r, k, IF entry[k] = "loading" THEN "none" ELSE entry[k])
        /\ UNCHANGED <<entry, loads>>
     \/ /\ ~closed /\ calls < maximumRequestCalls /\ ~aborted /\ entry[k] = "none"
        /\ IF Entries = maximumRequestReads
           THEN Give(r, k, "refused") /\ UNCHANGED <<entry, loads>>
           ELSE /\ entry' = [entry EXCEPT ![k] = "loading"]
                /\ loads' = [loads EXCEPT ![k] = @ + 1]
                /\ Give(r, k, "none")
  /\ UNCHANGED <<wire, route, body, reports, closed>>

Memo_evicted(outcome) == IF outcome = "value" THEN "value" ELSE "none"  \* mutant
Memo(outcome) == outcome                 \* rejections stay in the cache too
LoaderSettles(k) ==
  /\ entry[k] = "loading"
  /\ \E outcome \in {"value", "expected", "unexpected"} :
       /\ entry' = [entry EXCEPT ![k] = Memo(outcome)]
       /\ reader' = Answered(k, outcome)
  /\ UNCHANGED <<wire, route, body, reports, closed, calls, loads>>

-----------------------------------------------------------------------------
(* The end of a stream reaches the client: done ends the response, an error  *)
(* destroys it, and the socket's close then aborts the request's signal.     *)
Delivers(state) ==
  /\ stream' = state /\ adapter' = "done"
  /\ target' = IF state = "closed" THEN [target EXCEPT !.ended = TRUE]
               ELSE [target EXCEPT !.destroyed = TRUE]
  /\ aborted' = (state = "errored")

(* renderDocument: the lifecycle of an aborted request cancels itself, which *)
(* closes the scope, and publishing its head throws.                         *)
Publish ==
  /\ phase' = "head-published" /\ stream' = "readable" /\ work' = "running"
  /\ route' = [route EXCEPT !.at = "returned"] /\ adapter' = "reading"
  /\ UNCHANGED <<client, aborted, target, produced, reports, scope>>

Reported(kind) == IF kind = "unexpected" THEN 1 ELSE 0
Catch(kind) ==
  /\ route' = [at |-> "failure", cause |-> kind]
  /\ reports' = [reports EXCEPT !.pre = @ + Reported(kind)]
  /\ UNCHANGED <<wire, body>>

ThrownBy(kind) == kind = "unexpected" \/ \E r \in Reader : reader[r].got = "expected"

PageRenders ==
  /\ route.at = "page"
  /\ IF aborted THEN Catch("unexpected") /\ CloseScope ELSE Publish

Closes_early == CloseScope               \* mutant: a failed page closes the scope
Closes_late == UNCHANGED scope
PageThrows ==
  /\ route.at = "page"
  /\ \E kind \in {"expected", "unexpected"} : ThrownBy(kind) /\ Catch(kind)
  /\ Closes_late

PageRedirects ==
  /\ route.at = "page"
  /\ route' = [route EXCEPT !.at = "returned"] /\ CloseScope
  /\ adapter' = "done"
  /\ target' = IF aborted THEN target ELSE [target EXCEPT !.ended = TRUE]
  /\ UNCHANGED <<client, aborted, body, reports>>

(* The error page renders, or throws and the safe document takes its place;  *)
(* after an abort both fail and the handler rejects.                         *)
Forsaken_kept == UNCHANGED scope         \* mutant: no cleanup on a refused head
Forsaken == CloseScope
FailureRenders ==
  /\ route.at = "failure"
  /\ \/ ~aborted /\ Publish
     \/ /\ aborted /\ Forsaken
        /\ route' = [route EXCEPT !.at = "rejected"] /\ adapter' = "done"
        /\ target' = [target EXCEPT !.destroyed = TRUE]
        /\ UNCHANGED <<client, aborted, body, reports>>

-----------------------------------------------------------------------------
(* pull(): the document yields a chunk, finishes or throws.  What comes after *)
(* the lifecycle has ended is dropped and ends the iterator.                 *)
Late ==
  /\ ~Published /\ work' = "ended"
  /\ UNCHANGED <<wire, route, phase, stream, reports, scope>>

Yields ==
  /\ work = "running" /\ produced < MaxChunks /\ produced' = produced + 1
  /\ \/ Late
     \/ /\ Published /\ phase' = "body-started"
        /\ target' = [target EXCEPT !.sent = @ + 1]
        /\ \/ adapter' = "reading" /\ work' = "running"
           \/ adapter' = "draining" /\ work' = "idle"
        /\ UNCHANGED <<client, aborted, route, stream, reports, scope>>

(* write() returns at once for an empty chunk: nothing is enqueued, and a    *)
(* stream without a buffer does not repeat a pull that enqueued nothing, so  *)
(* that the pending read waits until the client goes away.                   *)
YieldsNothing ==
  /\ work = "running"
  /\ work' = IF Published THEN "idle" ELSE "ended"
  /\ UNCHANGED <<wire, route, phase, stream, produced, reports, scope>>

Finishes ==
  /\ work = "running"
  /\ \/ Late /\ UNCHANGED produced
     \/ /\ Published /\ phase' = "completed" /\ work' = "ended" /\ CloseScope
        /\ Delivers("closed") /\ UNCHANGED <<client, route, produced, reports>>

Cut == "errored"
Incident_late(kind) == 0                 \* mutant: reported before its incident
Incident(kind) == Reported(kind)
Throws(kind) ==
  /\ work = "running" /\ UNCHANGED produced
  /\ \/ Late
     \/ /\ Published /\ phase' = "terminated" /\ work' = "ended" /\ CloseScope
        /\ route' = [route EXCEPT !.cause = kind]
        /\ reports' = [reports EXCEPT !.post = @ + Incident(kind)]
        /\ Delivers(Cut) /\ UNCHANGED client

Drains ==
  /\ adapter = "draining" /\ adapter' = "reading" /\ work' = "running"
  /\ UNCHANGED <<client, aborted, target, route, phase, stream, produced, reports, scope>>

(* The socket closes: the signal aborts, a live lifecycle cancels, which     *)
(* errors the stream, and the adapter stops reading.                         *)
Cancelled == phase' = "cancelled" /\ CloseScope
Disconnects ==
  /\ client = "connected" /\ ~target.ended /\ ~target.destroyed
  /\ client' = "gone" /\ aborted' = TRUE
  /\ target' = [target EXCEPT !.destroyed = TRUE]
  /\ \/ /\ Published /\ Cancelled /\ stream' = "errored" /\ adapter' = "done"
        /\ work' = IF work = "idle" THEN "ended" ELSE work
     \/ ~Published /\ AbandonLoads /\ UNCHANGED <<phase, stream, adapter, work>>
  /\ UNCHANGED <<route, produced, reports>>

Over == adapter = "done" /\ work # "running" /\ UNCHANGED responseVars

WorkSteps == Yields \/ YieldsNothing \/ Finishes \/ \E kind \in {"expected", "unexpected"} :
                                                     ThrownBy(kind) /\ Throws(kind)
ResponseNext ==
  \/ \E r \in Reader, k \in Key : Read(r, k)
  \/ \E k \in Key : LoaderSettles(k)
  \/ PageRenders \/ PageThrows \/ PageRedirects \/ FailureRenders
  \/ WorkSteps \/ Drains \/ Disconnects \/ Over

ResponseSpec == ResponseInit /\ [][ResponseNext]_responseVars

(* Pages, and the awaits of a document, come to an end.  A client need not   *)
(* read, nor go away.                                                        *)
FairSpec ==
  /\ ResponseSpec /\ WF_responseVars(PageRenders \/ PageThrows \/ PageRedirects)
  /\ WF_responseVars(FailureRenders) /\ WF_responseVars(WorkSteps)

-----------------------------------------------------------------------------
ResponseTypeOK ==
  /\ client \in {"connected", "gone"} /\ aborted \in BOOLEAN /\ closed \in BOOLEAN
  /\ target \in [sent : 0..MaxChunks, ended : BOOLEAN, destroyed : BOOLEAN]
  /\ route \in [at : {"page", "failure", "returned", "rejected"},
                cause : {"none", "expected", "unexpected"}]
  /\ phase \in {"uncommitted", "head-published", "body-started", "completed",
                "terminated", "cancelled"}
  /\ stream \in {"none", "readable", "closed", "errored"}
  /\ work \in {"none", "running", "idle", "ended"} /\ produced \in 0..MaxChunks
  /\ adapter \in {"handler", "reading", "draining", "done"}
  /\ reports \in [pre : 0..1, post : 0..1] /\ calls \in Nat /\ loads \in [Key -> Nat]
  /\ entry \in [Key -> {"none", "loading", "value", "expected", "unexpected", "cancelled"}]
  /\ reader \in [Reader -> [key : Key \cup {"none"}, got : Settled \cup {"none"}]]

(* A response ends normally only with the whole document: a failed or        *)
(* cancelled one is cut, never passed off as complete.                       *)
WholeBody ==
  target.ended =>
    /\ phase \in {"completed", "uncommitted"} /\ ~target.destroyed
    /\ target.sent = produced /\ (phase = "completed" => stream = "closed")

(* The scope is open exactly as long as someone may need it: while the page, *)
(* its error page or a live document runs, and no longer.                    *)
ScopeFollowsResponse ==
  /\ Published => ~closed
  /\ route.at \in {"returned", "rejected"} /\ ~Published => closed
  /\ route.at = "failure" /\ ~aborted => ~closed

(* A connected client is cut off only by an expected resource error or by a  *)
(* failure the observer was told of, once.                                   *)
CutsAreExplained ==
  /\ target.destroyed /\ client = "connected" =>
       route.cause = "expected" \/ reports.post = 1
  /\ reports.post = 1 => client = "connected" /\ phase = "terminated"

(* Every response is a whole document, or a cut that somebody was told of.   *)
NoSilentTruncation == WholeBody /\ CutsAreExplained

(* Equivalent reads share one loader call and, unless abandoned, one outcome. *)
SharedLoads ==
  /\ \A k \in Key : loads[k] <= 1
  /\ \A r, s \in Reader :
       reader[r].key = reader[s].key
         /\ {reader[r].got, reader[s].got} \cap {"none", "cancelled", "refused"} = {}
       => reader[r].got = reader[s].got

(* Once the request is aborted or the lifecycle has ended, nothing more      *)
(* reaches the client and no read yields a value.                            *)
LateWorkIsMute ==
  [][aborted \/ phase \in {"completed", "terminated", "cancelled"} =>
       /\ target'.sent = target.sent
       /\ \A r \in Reader : reader'[r].got = "value" => reader[r].got = "value"]_responseVars

(* Nothing has asked for the next chunk: the client does not read on, or the *)
(* document yielded an empty one.                                            *)
Waiting == client = "connected" /\ work = "idle"

(* Whatever fails or is abandoned, the request's resources are released once *)
(* the client is gone, and while it stays they are unless the response waits *)
(* for it for ever; and every variable stays in its type: above all, no      *)
(* failure is reported twice.                                                *)
ResourcesReleased ==
  /\ []ResponseTypeOK
  /\ client = "gone" ~> closed
  /\ <>closed \/ <>[]Waiting
===============================================================================
