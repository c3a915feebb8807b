---------------------------- MODULE AnalyzerSession ----------------------------
(***************************************************************************)
(* The analyzer session of analyzer-session.ts with the three services it   *)
(* owns: the incremental dependency graph of analyzer-graph.ts, the         *)
(* publication coordinator of analyzer-publication.ts and the explain       *)
(* coordinator of analyzer-explain.ts.                                      *)
(*                                                                         *)
(* A document has a saved text and, while it is open, an overlay with a     *)
(* lifetime and a version.  An accepted operation advances the epoch and    *)
(* makes running tickets stale; a refused one changes nothing and is no     *)
(* step here.  A publication previews the graph, waits for its facets, and  *)
(* commits graph and publication in one callback.  An explanation waits for *)
(* its collector and describes the publication that is current.             *)
(*                                                                         *)
(* A file may have any content whenever it is read.  A node's value is what *)
(* it was computed from; nodes are numbered in a topological order of their *)
(* definitions, as any acyclic set can be; cyclic, malformed and throwing   *)
(* definitions are a refusal, which is always possible.                     *)
(***************************************************************************)
EXTENDS Naturals, FiniteSets, Functions

CONSTANTS
  Doc, Text, NoText,
  Nodes, Definitions, MaxVersion,     \* 1..Nodes are the graph's nodes, Definitions what may be asked
  MaxEpoch, MaxPublications, MaxExplains, MaxGraphs      \* bounds of the instance

ASSUME SessionAssumption ==
  /\ NoText \notin Text
  /\ Nodes \in Nat /\ MaxVersion \in Nat
  /\ Definitions \subseteq UNION {[S -> [owner : Doc, deps : SUBSET S]] : S \in SUBSET (1..Nodes)}
  /\ \A d \in Definitions : \A n \in DOMAIN d : \A m \in d[n].deps : m < n
  /\ MaxEpoch \in Nat /\ MaxPublications \in Nat /\ MaxExplains \in Nat /\ MaxGraphs \in Nat

VARIABLES
  docs,        \* #documents: the known documents
  epoch,       \* #epoch
  config,      \* #configurationEpoch
  graph,       \* #dependencyGraph: the committed definitions, results and fingerprints
  published,   \* #publicationGeneration
  tickets,     \* the publications under way; the newest has the greatest n
  publishing,  \* the n of publication's #active, or 0
  explains,    \* the explanations under way
  explaining,  \* the n of explain's #active, or 0
  starts,      \* publications started so far
  asked,       \* explanations started so far
  retired      \* history: the lifetimes each known document has ended

sessionVars == <<docs, epoch, config, graph, published, tickets, publishing, explains, explaining, starts, asked, retired>>
services == <<graph, published, starts, asked>>

-----------------------------------------------------------------------------
(* Documents. *)

Unknown == [saved |-> NoText, rev |-> 0, open |-> {}, next |-> 0]
State(d) == IF d \in DOMAIN docs THEN docs[d] ELSE Unknown
IsOpen(d) == State(d).open # {}
Put(d, s) == [x \in DOMAIN docs \cup {d} |-> IF x = d THEN s ELSE docs[x]]

\* the documents of a snapshot, and what the graph fingerprints of each
Shown == {d \in DOMAIN docs : IsOpen(d) \/ docs[d].saved # NoText}
View == [d \in Shown |->
          [rev |-> docs[d].rev, open |-> {[version |-> o.version, lifetime |-> o.lifetime] : o \in docs[d].open},
           text |-> IF IsOpen(d) THEN (CHOOSE o \in docs[d].open : TRUE).text ELSE docs[d].saved]]

\* a stale, superseded or cancelled ticket only has its verdict left to give
Aborted(t) == [n |-> t.n, state |-> "aborted"]
\* the active ticket is invalidated, or superseded by the next
Abort(ts, current) == {IF t.n = current /\ t.state = "active" THEN Aborted(t) ELSE t : t \in ts}

\* the common end of every accepted operation
Accept ==
  /\ epoch < MaxEpoch /\ epoch' = epoch + 1
  /\ tickets' = Abort(tickets, publishing)
  /\ explains' = Abort(explains, explaining)
  /\ UNCHANGED <<publishing, explaining>> /\ UNCHANGED services

\* the documents are now next; those it no longer knows are forgotten with their lifetimes
Become(next) ==
  /\ docs' = next
  /\ retired' = [d \in Doc |-> IF d \in DOMAIN next THEN retired[d] ELSE {}]
  /\ UNCHANGED config /\ Accept

Save(d, text) ==
  Become(Put(d, [State(d) EXCEPT !.saved = text, !.rev = @ + 1]))

\* the file, if there is one, is read when the document is first seen
Open(d, version, text) ==
  /\ ~IsOpen(d)
  /\ \E saved \in IF d \in DOMAIN docs THEN {docs[d].saved} ELSE Text \cup {NoText} :
       LET lifetime == State(d).next + 1
       IN Become(Put(d, [State(d) EXCEPT
            !.saved = saved, !.next = lifetime,
            !.open = {[lifetime |-> lifetime, version |-> version, text |-> text]}]))

\* change and replace; the edits of a change apply together or not at all
Edit(d, lifetime, version, text) ==
  /\ \E o \in State(d).open : o.lifetime = lifetime /\ o.version < version
  /\ Become(Put(d, [docs[d] EXCEPT !.open = {[lifetime |-> lifetime, version |-> version, text |-> text]}]))

\* mutant: a closed document starts counting its lifetimes again
ClosedDocument_anew(s) == [s EXCEPT !.open = {}, !.next = 0]
ClosedDocument(s) == [s EXCEPT !.open = {}]

CloseDocument(d, lifetime, version) ==
  /\ \E o \in State(d).open : o.lifetime = lifetime /\ o.version = version
  /\ docs' = Put(d, ClosedDocument(docs[d]))
  /\ retired' = [retired EXCEPT ![d] = @ \cup {lifetime}]
  /\ UNCHANGED config /\ Accept

Remove(d) ==
  /\ d \in DOMAIN docs /\ ~IsOpen(d)
  /\ Become(Restrict(docs, DOMAIN docs \ {d}))

\* the request names the saved revisions it was made for; any other is refused
Reconcile(texts, forget) ==
  /\ forget \subseteq DOMAIN docs /\ \A d \in forget : ~IsOpen(d)
  /\ Become([d \in (DOMAIN docs \cup DOMAIN texts) \ forget |->
       IF d \in DOMAIN texts /\ State(d).saved # texts[d]
       THEN [State(d) EXCEPT !.saved = texts[d], !.rev = @ + 1] ELSE State(d)])

ReloadConfiguration ==
  /\ config' = config + 1 /\ UNCHANGED <<docs, retired>>
  /\ Accept

-----------------------------------------------------------------------------
(* The dependency graph. *)

Admitted == {defs \in Definitions : \A n \in DOMAIN defs : defs[n].owner \in Shown}

Changed(defs, n) ==
  LET owner == defs[n].owner
  IN \/ graph.generation = 0 \/ config # graph.config
     \/ n \notin DOMAIN graph.defs \/ graph.defs[n] # defs[n]
     \/ owner \notin DOMAIN graph.prints \/ graph.prints[owner] # View[owner]

\* mutant: dependents of an affected node are not recomputed
Affected_directly(defs) == {n \in DOMAIN defs : Changed(defs, n)}
Affected(defs) ==
  LET hit[n \in DOMAIN defs] == Changed(defs, n) \/ \E m \in defs[n].deps : hit[m]
  IN {n \in DOMAIN defs : hit[n]}

\* what the nodes in `again` compute; the others keep the result they have
Computed(defs, view, epochOfConfig, again, kept) ==
  LET value[n \in DOMAIN defs] ==
        IF n \in again
        THEN [text |-> view[defs[n].owner].text, config |-> epochOfConfig, of |-> {value[m] : m \in defs[n].deps}]
        ELSE kept[n]
  IN value

Prepared(defs) ==
  [generation |-> graph.generation + 1, defs |-> defs, prints |-> View, config |-> config,
   results |-> Computed(defs, View, config, Affected(defs), graph.results)]

AnalyzeGraph(defs) ==
  /\ graph.generation < MaxGraphs
  /\ graph' = Prepared(defs)
  /\ UNCHANGED <<docs, epoch, config, published, tickets, publishing, explains, explaining, starts, asked, retired>>

-----------------------------------------------------------------------------
(* Publication. *)

Cancelled(ts, t) == (ts \ {t}) \cup {Aborted(t)}
Versions == [d \in {x \in Shown : IsOpen(x)} |-> View[d].open]
Authority == [epoch |-> epoch, config |-> config, versions |-> Versions]

StartPublication(defs) ==
  /\ starts < MaxPublications /\ starts' = starts + 1
  /\ tickets' = Abort(tickets, publishing) \cup
       {[n |-> starts + 1, state |-> "active", authority |-> Authority, defs |-> defs, prepared |-> {}]}
  /\ publishing' = starts + 1
  /\ explains' = Abort(explains, explaining)
  /\ UNCHANGED <<docs, epoch, config, graph, published, explaining, asked, retired>>

CancelPublication(t) ==
  /\ t.state = "active" /\ tickets' = Cancelled(tickets, t)
  /\ UNCHANGED <<docs, epoch, config, graph, published, publishing, explains, explaining, starts, asked, retired>>

\* terminal(): the ticket may not go on
Terminal(t) == t.state # "active" \/ t.n # publishing \/ t.authority # Authority

Leave(t) == /\ tickets' = tickets \ {t}
            /\ publishing' = IF publishing = t.n THEN 0 ELSE publishing
            /\ UNCHANGED <<docs, epoch, config, explains, explaining, starts, asked, retired>>

\* stopped at a checkpoint, refused by the preview or the facets, or failed to materialize
Discard(t) == Leave(t) /\ UNCHANGED <<graph, published>>

\* from here the ticket waits for its facets
Preview(t) ==
  /\ ~Terminal(t) /\ t.prepared = {}
  /\ tickets' = (tickets \ {t}) \cup
       {[t EXCEPT !.prepared = {[baseline |-> graph.generation, candidate |-> Prepared(t.defs)]}]}
  /\ UNCHANGED <<docs, epoch, config, graph, published, publishing, explains, explaining, starts, asked, retired>>

\* the facets are there: commitPrepared and the publication in one callback
Publish(t) ==
  /\ ~Terminal(t)
  /\ \E p \in t.prepared : p.baseline = graph.generation /\ graph' = p.candidate
  /\ published' = published + 1
  /\ Leave(t)

-----------------------------------------------------------------------------
(* Explanation. *)

ExplainAuthority == [publication |-> published, epoch |-> epoch, config |-> config]

\* mutant: a publication that ends during the collection is not noticed
ExplainTerminal_unchecked(t) == t.state # "active" \/ t.n # explaining
ExplainTerminal(t) == t.state # "active" \/ t.n # explaining \/ t.authority # ExplainAuthority

\* a disabled explanation supersedes the active one and asks nothing itself
StartExplain(enabled) ==
  /\ asked < MaxExplains /\ asked' = asked + 1
  /\ explains' = Abort(explains, explaining) \cup
       (IF enabled THEN {[n |-> asked + 1, state |-> "active", authority |-> ExplainAuthority, view |-> View]} ELSE {})
  /\ explaining' = IF enabled THEN asked + 1 ELSE explaining
  /\ UNCHANGED <<docs, epoch, config, graph, published, tickets, publishing, starts, retired>>

CancelExplain(t) ==
  /\ t.state = "active" /\ explains' = Cancelled(explains, t)
  /\ UNCHANGED <<docs, epoch, config, graph, published, tickets, publishing, explaining, starts, asked, retired>>

Finish(t) ==
  /\ explains' = explains \ {t}
  /\ explaining' = IF explaining = t.n THEN 0 ELSE explaining
  /\ UNCHANGED <<docs, epoch, config, graph, published, tickets, publishing, starts, asked, retired>>

\* stopped, refused, failed or out of time: nothing is explained
Interrupt(t) == Finish(t)

Explain(t) ==
  /\ ~ExplainTerminal(t) /\ t.authority.publication > 0
  /\ Finish(t)

-----------------------------------------------------------------------------
\* a session that has read no file yet, or every file of its project, some of which an editor has open
SessionInit ==
  /\ \/ docs = <<>>
     \/ \E texts \in [Doc -> Text] : \E opened \in SUBSET Doc :
          docs = [d \in Doc |-> [saved |-> texts[d], rev |-> 1, next |-> IF d \in opened THEN 1 ELSE 0,
                   open |-> IF d \in opened THEN {[lifetime |-> 1, version |-> 0, text |-> texts[d]]} ELSE {}]]
  /\ retired = [d \in Doc |-> {}]
  /\ epoch = 0 /\ config = 0 /\ published = 0 /\ starts = 0 /\ asked = 0
  /\ graph = [generation |-> 0, defs |-> <<>>, prints |-> <<>>, config |-> 0, results |-> <<>>]
  /\ tickets = {} /\ publishing = 0 /\ explains = {} /\ explaining = 0

Session ==
  \/ \E d \in Doc, text \in Text :
       \/ Save(d, text)
       \/ \E version \in 0..MaxVersion :
            \/ Open(d, version, text)
            \/ \E lifetime \in 1..State(d).next : Edit(d, lifetime, version, text)
  \/ \E d \in Doc : \/ Remove(d)
                    \/ \E lifetime \in 1..State(d).next, version \in 0..MaxVersion : CloseDocument(d, lifetime, version)
  \/ \E D, forget \in SUBSET Doc : D \cap forget = {} /\ \E texts \in [D -> Text] : Reconcile(texts, forget)
  \/ ReloadConfiguration

Publication ==
  \/ \E defs \in Admitted : AnalyzeGraph(defs) \/ StartPublication(defs)
  \/ \E t \in tickets : CancelPublication(t) \/ Preview(t) \/ Publish(t) \/ Discard(t)

Explanation ==
  \/ \E enabled \in BOOLEAN : StartExplain(enabled)
  \/ \E t \in explains : CancelExplain(t) \/ Explain(t) \/ Interrupt(t)

SessionNext == Session \/ Publication \/ Explanation
SessionSpec == SessionInit /\ [][SessionNext]_sessionVars

-----------------------------------------------------------------------------
SessionTypeOK ==
  /\ DOMAIN docs \subseteq Doc /\ Cardinality(tickets) <= starts
  /\ publishing \in {0} \cup {t.n : t \in tickets} /\ explaining \in {0} \cup {t.n : t \in explains}

\* The incremental graph is never wrong: the committed results, and those a publication is about to
\* commit, are what recomputing every node from the same documents and configuration would give
\* (analyze reuses the results it believes unaffected).  Includes the type invariant.
Exact(g) == g.results = Computed(g.defs, g.prints, g.config, DOMAIN g.defs, <<>>)
GraphIsExact ==
  SessionTypeOK /\ Exact(graph) /\ \A t \in tickets : t.state = "active" => \A p \in t.prepared : Exact(p.candidate)

\* What is published is the newest request, computed from the documents and the configuration of the
\* moment of its publication; what is explained is the current publication, under the documents of the
\* moment (terminal, commitPrepared and the invalidations of the session).
ResultsAreCurrent ==
  [][/\ published' # published =>
          \A t \in tickets \ tickets' :
            /\ t.state = "active" /\ \A u \in tickets : u.n <= t.n
            /\ graph'.defs = t.defs /\ graph'.prints = View /\ graph'.config = config
     /\ \A t \in explains \ explains' :
          Explain(t) => t.view = View /\ t.authority.publication = published]_sessionVars

\* An edit or close that was queued for an ended lifetime never meets a later one, as long as the
\* document is not removed or forgotten in between.
LifetimesNeverReturn == \A d \in DOMAIN docs : \A o \in docs[d].open : o.lifetime \notin retired[d]
================================================================================
