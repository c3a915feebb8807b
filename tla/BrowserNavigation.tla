--------------------------- MODULE BrowserNavigation ---------------------------
(***************************************************************************)
(* The browser runtime of browser-navigation.ts.  It turns link clicks,     *)
(* form submissions and history traversals of one tab into requests whose   *)
(* answers replace the document in place, and hands everything it cannot    *)
(* finish to the browser as a native load, which the user may refuse at an  *)
(* unload prompt.  A committed POST whose page was not reached leaves a     *)
(* recovery that follows every later operation until a fresh document shows *)
(* the current truth.                                                       *)
(*                                                                         *)
(* `page` is the tab while one document lives: its part of the session      *)
(* history, the displayed document, and the variables of                    *)
(* startPrivateLinkNavigation.  Entries of other documents are reached by   *)
(* native loads only, so a load starts the history afresh.  An optional     *)
(* value is a set of at most one element.                                   *)
(*                                                                         *)
(* Left out: fragments of the same resource, GET forms (handled as links),  *)
(* history written by the application, refused history writes and the       *)
(* back/forward cache.  What depends on scroll, focus or dirty controls may *)
(* always go either way.                                                    *)
(***************************************************************************)
EXTENDS Naturals, Integers, Sequences, FiniteSets

CONSTANTS
  Url, NoUrl,
  MaxActs, MaxCancels, MaxPosts, MaxEntries   \* bounds of the instance

ASSUME NavigationAssumption ==
  /\ NoUrl \notin Url
  /\ MaxActs \in Nat /\ MaxCancels \in Nat /\ MaxPosts \in Nat /\ MaxEntries \in Nat \ {0}

VARIABLES
  page,      \* the document, its history entries and its runtime
  server,    \* number of mutations the server committed
  wild,      \* POSTs the runtime no longer waits for and the server has not seen
  due,       \* history: the commits the runtime knows its document owes
  acts, cancels

vars == <<page, server, wild, due, acts, cancels>>

-----------------------------------------------------------------------------
(* History, operations and identities. *)

Current(b) == b.entries[b.cur]
Href(b) == Current(b).url
Fresh(used) == CHOOSE n \in 1..(Cardinality(used) + 1) : n \notin used
FreshEntry(b) == Fresh({b.entries[i].id : i \in DOMAIN b.entries} \cup {b.displayed, b.selected}
                       \cup {o.source.id : o \in b.ops} \cup {r.entry : r \in b.pushRecovery})
FreshSeq(b) == Fresh({o.seq : o \in b.ops} \cup {b.carrier}
                     \cup {r.op : r \in b.mutationRecovery \cup b.pushRecovery \cup b.supersession \cup b.timers})
FreshTraversal(b) == Fresh({b.traversal} \cup {o.trav : o \in b.ops}
                           \cup {r.trav : r \in b.pushRecovery \cup b.timers \cup {b.observers[i] : i \in DOMAIN b.observers}})

Active(b) == {o \in b.ops : o.seq = b.active}
Kind(b) == IF Active(b) = {} THEN "none" ELSE (CHOOSE o \in Active(b) : TRUE).kind
Rec(b) == IF Active(b) = {} THEN NoUrl ELSE (CHOOSE o \in Active(b) : TRUE).rec
Op(b, kind, url, replace, trav, rec) ==
  [seq |-> FreshSeq(b), kind |-> kind, url |-> url, truth |-> Href(b), replace |-> replace,
   source |-> Current(b), trav |-> trav, rec |-> rec, began |-> server,
   aborted |-> FALSE, served |-> FALSE, outdated |-> FALSE]
Timer(kind, op, trav, url, rec) ==
  [kind |-> kind, op |-> op, trav |-> trav, url |-> url, truth |-> NoUrl, rec |-> rec,
   current |-> TRUE, late |-> FALSE]
Observer(b, kind, repair, trav, rec) ==
  [kind |-> kind, repair |-> repair, trav |-> trav, rec |-> rec, truth |-> b.truthUrl, sel |-> Href(b)]

Abort(b) == [b EXCEPT !.ops = {IF o.seq = b.active THEN [o EXCEPT !.aborted = TRUE] ELSE o : o \in @}]
\* the active operation is forgotten; one without a request of its own ends with it
Relinquish(b) == [b EXCEPT !.active = 0,
                           !.ops = {o \in @ : o.seq # b.active \/ o.kind # "idle"}]
Begin(b, o) ==
  [Relinquish(Abort(b)) EXCEPT !.ops = @ \cup {o}, !.active = o.seq,
     !.timers = {[t EXCEPT !.current = @ /\ t.kind # "native"] : t \in @}]
Observe(b, obs) == [b EXCEPT !.observers = IF \E i \in DOMAIN @ : @[i] = obs THEN @ ELSE Append(@, obs)]
Depart(b, url) == [b EXCEPT !.departure = {[url |-> url, asked |-> FALSE]}]

\* a traversal is over, or superseded
CloseTraversal(b) == [b EXCEPT !.traversal = FreshTraversal(b), !.traversing = FALSE, !.recovering = FALSE]

\* the selected entry is given the displayed document's URL again
RepairDisplayedTruth(b, url) ==
  LET id == FreshEntry(b)
  IN [b EXCEPT !.entries[b.cur] = [url |-> url, id |-> id],
               !.displayed = id, !.selected = id, !.truthUrl = url]

\* a native load of url; if the user refuses it, the document is repaired
Fallback(b, url, repair, rec) == Depart(Observe(b, Observer(b, "fallback", repair, 0, rec)), url)

-----------------------------------------------------------------------------
(* Operations. *)

\* the placeholder operation of recoverCommittedMutationCurrentTruth; its timer is RecoveryTimer
RecoverCommitted(b, url) == Begin(b, [Op(b, "wait", url, TRUE, 0, url) EXCEPT !.truth = url])

\* mutant: a navigation that supersedes a recovery does not take it over
Navigate_forgetful(b, url, replace, trav, rec, safe) ==
  IF Kind(b) = "post" THEN b
  ELSE IF b.life # "closed" /\ safe THEN Begin(b, Op(b, "nav", url, replace, trav, rec))
  ELSE Fallback(Abort(b), url, TRUE, rec)

Navigate(b, url, replace, trav, rec, safe) ==
  LET inherited == IF rec # NoUrl THEN rec ELSE Rec(b)
  IN IF Kind(b) = "post" THEN b
     ELSE IF b.life # "closed" /\ safe THEN Begin(b, Op(b, "nav", url, replace, trav, inherited))
     ELSE LET f == Fallback(Abort(b), url, TRUE, inherited)
          IN [f EXCEPT !.traversing = @ /\ (trav = 0 \/ trav # b.traversal \/ b.recovering)]

\* the finally clauses of an operation and, for a traversal, of popstate
EndOp(b, o) ==
  LET held == b.carrier = o.seq
      rest == {x \in b.ops : x.seq # o.seq}
  IN [b EXCEPT !.ops = IF held THEN rest \cup {[x EXCEPT !.kind = "held"] : x \in b.ops \ rest} ELSE rest,
               !.active = IF @ = o.seq /\ ~held THEN 0 ELSE @,
               !.traversing = @ /\ (o.trav = 0 \/ o.trav # b.traversal \/ b.recovering)]

\* selects url: in the current entry, or in a new one behind it
Selected(b, url, replace) ==
  IF replace
  THEN [b EXCEPT !.entries[b.cur].url = url]
  ELSE [b EXCEPT !.entries = Append(SubSeq(@, 1, b.cur), [url |-> url, id |-> FreshEntry(b)]),
                 !.cur = @ + 1]

Commit(b, url, replace, version) ==
  LET s == Selected(b, url, replace)
  IN [s EXCEPT !.shown = [url |-> url, version |-> version],
               !.displayed = Current(s).id, !.selected = Current(s).id, !.truthUrl = url]

\* a pushed entry whose document was rolled back is left before it is loaded natively
RecoverSelectedPush(b, url, rec) ==
  LET op == Op(b, "idle", url, FALSE, 0, rec)
      a == IF rec # NoUrl THEN Begin(b, op) ELSE b
      trav == FreshTraversal(a)
  IN [a EXCEPT !.traversal = trav, !.traversing = TRUE, !.recovering = FALSE,
        !.pushRecovery = {[url |-> url, truth |-> b.truthUrl, rec |-> rec, trav |-> trav,
                           op |-> IF rec # NoUrl THEN op.seq ELSE 0, entry |-> b.displayed]},
        !.jumps = Append(@, -1)]

CommitFails(b, o) ==
  LET s == IF o.kind = "post" THEN Selected(b, o.truth, FALSE) ELSE Selected(b, o.url, o.replace)
  IN CASE o.kind = "post" -> Fallback(s, o.truth, TRUE, o.truth)
       [] o.kind = "nav" /\ o.replace -> Fallback(s, o.url, TRUE, o.rec)
       [] OTHER -> RecoverSelectedPush(s, o.url, o.rec)

-----------------------------------------------------------------------------
(* Native activations and traversals. *)

\* mutant: the superseded traversal's entry keeps its URL
Superseded_unrepaired(b) == IF b.traversing THEN CloseTraversal(Abort(b)) ELSE Abort(b)

\* where the code loses a recovery that only the timer of a scrolled traversal still holds, until
\* the next load: the traversal is over before the timer fires
Drops(b) == \E t \in b.timers : /\ t.kind = "traversal" /\ t.trav = b.traversal /\ b.recovering
                                /\ t.rec # NoUrl /\ Rec(b) = NoUrl

\* supersedePendingWorkForNativeActivation before it decides about the activation
Superseded(b) ==
  LET a == [Abort(b) EXCEPT !.lapsed = @ \/ Drops(b)]
  IN IF b.traversing THEN RepairDisplayedTruth(CloseTraversal(a), b.truthUrl) ELSE a

BeginTraversalRecovery(b, rec) ==
  Depart(Observe(b, Observer(b, "traversal", TRUE, b.traversal, rec)), Href(b))

\* the rollback of a pushed entry arrived, at the displayed entry or elsewhere
RolledBack(b, r) ==
  LET matches == Href(b) = r.truth /\ Current(b).id = r.entry
      current == /\ r.trav = b.traversal /\ matches
                 /\ r.op = 0 \/ \E o \in Active(b) : o.seq = r.op /\ ~o.aborted
      newer == {o \in Active(b) : o.kind # "post" /\ o.seq # r.op}
      a == [b EXCEPT !.pushRecovery = {}]
      mine == IF a.active = r.op THEN Relinquish(a) ELSE a
      free == [mine EXCEPT !.traversing = FALSE, !.recovering = FALSE]
  IN IF current
     THEN [CloseTraversal(a) EXCEPT !.timers = @ \cup
             {[Timer("stage", r.op, 0, r.url, r.rec) EXCEPT !.truth = r.truth]}]
     ELSE IF newer # {}
     THEN [Abort(a) EXCEPT !.supersession = {[op |-> o.seq, url |-> o.url, rec |-> o.rec] : o \in newer},
                           !.traversing = TRUE, !.jumps = Append(@, 1)]
     ELSE IF matches THEN free ELSE Fallback(free, Href(b), FALSE, r.rec)

\* an ordinary traversal: requested in place, or reloaded when it may not be
SelectEntry(b, enhance, safe) ==
  LET trav == FreshTraversal(b)
      a == [b EXCEPT !.traversal = trav, !.traversing = TRUE, !.recovering = FALSE,
                     !.selected = Current(b).id]
  IN IF enhance /\ Current(b).id # b.selected
     THEN Navigate(a, Href(a), TRUE, trav, NoUrl, safe)
     ELSE BeginTraversalRecovery([Abort(a) EXCEPT !.recovering = TRUE], Rec(b))

\* a traversal away from a pending POST gives the POST up and steps forward again
InterruptPost(b, o) ==
  [Abort(b) EXCEPT !.mutationRecovery = {[op |-> o.seq, url |-> o.truth]},
                   !.timers = @ \cup {Timer("forward", o.seq, 0, NoUrl, NoUrl)}]

SupersessionArrived(b, r) ==
  LET a == CloseTraversal([b EXCEPT !.supersession = {}])
  IN Fallback(IF a.active = r.op THEN Relinquish(a) ELSE a, r.url, FALSE, r.rec)

\* Where the code loses track when the user or a jump selects an entry, each until the next load:
\* the entry a superseded push waits for is reached while a newer operation is under way; a POST
\* takes the popstate a rollback waits for; a rollback carrying a recovery was aborted by a scroll.
Lapses(b) ==
  \/ \E r \in b.supersession, o \in Active(b) : o.seq # r.op /\ ~o.aborted
  \/ /\ b.supersession = {} /\ b.mutationRecovery = {}
     /\ \/ Kind(b) = "post" /\ b.pushRecovery # {}
        \/ \E r \in b.pushRecovery, o \in Active(b) : r.op = o.seq /\ o.aborted

Popstate(b, enhance, safe) ==
  IF b.supersession # {} THEN SupersessionArrived(b, CHOOSE r \in b.supersession : TRUE)
  ELSE IF b.mutationRecovery # {}
  THEN RecoverCommitted([b EXCEPT !.mutationRecovery = {}], (CHOOSE r \in b.mutationRecovery : TRUE).url)
  ELSE IF Kind(b) = "post" THEN InterruptPost(b, CHOOSE o \in Active(b) : TRUE)
  ELSE IF b.pushRecovery # {} THEN RolledBack(b, CHOOSE r \in b.pushRecovery : TRUE)
  ELSE SelectEntry(b, enhance, safe)

Arrived(b, enhance, safe) == [Popstate(b, enhance, safe) EXCEPT !.lapsed = @ \/ Lapses(b) \/ Drops(b)]

-----------------------------------------------------------------------------
(* The document and the world around it. *)

Loaded(es, cur, version) ==
  [entries |-> es, cur |-> cur, shown |-> [url |-> es[cur].url, version |-> version],
   truthUrl |-> es[cur].url, displayed |-> es[cur].id, selected |-> es[cur].id,
   ops |-> {}, active |-> 0, carrier |-> 0, traversing |-> FALSE, traversal |-> 1,
   recovering |-> FALSE, mutationRecovery |-> {}, pushRecovery |-> {}, supersession |-> {},
   life |-> "active", departure |-> {}, observers |-> <<>>, prompted |-> <<>>,
   timers |-> {}, jumps |-> <<>>, leaving |-> FALSE, lapsed |-> FALSE]

\* a tab whose document already replaced itself a few times, at any of its entries
Init ==
  /\ \E n \in 1..MaxEntries : \E urls \in [1..n -> Url], cur \in 1..n :
       page = Loaded([i \in 1..n |-> [url |-> urls[i], id |-> i]], cur, 0)
  /\ server = 0 /\ wild = 0 /\ due = 0 /\ acts = 0 /\ cancels = 0

\* what the user does next makes every pending operation outdated, and every pending timer late
Outdate(b) == [b EXCEPT !.ops = {[o EXCEPT !.outdated = TRUE] : o \in @},
                        !.timers = {[t EXCEPT !.late = t.kind # "traversal"] : t \in @}]
\* a timer without a delay waits for one event of the user at most
Punctual == (\A t \in page.timers : ~t.late) /\ (\A o \in page.ops : o.kind = "wait" => ~o.outdated)
\* an unload prompt is modal, and what its refusal starts runs before user or network go on
Unprompted == page.prompted = <<>> /\ \A d \in page.departure : d.asked
Free == acts < MaxActs /\ Unprompted /\ Punctual
Act == /\ Free /\ acts' = acts + 1
       /\ due' = IF Kind(page) = "post" THEN server ELSE due
       /\ UNCHANGED <<server, wild, cancels>>
Quietly == UNCHANGED <<server, wild, due, acts, cancels>>

Listening == page.life = "active" /\ Kind(page) # "post"

\* a link the runtime takes over
Click(url) ==
  /\ Listening /\ ~page.traversing
  /\ LET b == Navigate(Outdate(page), url, FALSE, 0, NoUrl, TRUE)
     IN page' = [b EXCEPT !.ops = {IF o.seq = b.active THEN [o EXCEPT !.source.id = 0] ELSE o : o \in @}]
  /\ Act

\* a link or form it leaves to the browser, or refuses when a recovery would be lost
NativeActivation(url) ==
  /\ Listening \/ page.life = "closed"
  /\ LET b == IF page.life = "closed" THEN page ELSE Superseded(Outdate(page))
     IN page' = IF page.life # "closed" /\ Rec(page) # NoUrl
                THEN RecoverCommitted(b, Rec(page)) ELSE Depart(b, url)
  /\ Act

\* the same under a referrer policy: the recovery is given up with the activation
PolicyActivation(url) ==
  /\ Listening /\ Rec(page) # NoUrl
  /\ LET a == Relinquish(Abort(Outdate(page)))
         b == IF page.traversing THEN RepairDisplayedTruth(CloseTraversal(a), page.truthUrl) ELSE a
     IN page' = [Depart(b, url) EXCEPT !.lapsed = @ \/ Href(b) # b.truthUrl]
  /\ Free /\ acts' = acts + 1 /\ due' = 0
  /\ UNCHANGED <<server, wild, cancels>>

\* an activation of another browsing context cannot carry the recovery: it is started natively
AuxiliaryClick ==
  /\ Listening /\ Rec(page) # NoUrl
  /\ \E o \in Active(page) :
       LET b == Superseded(Outdate(page))
       IN page' = IF page.carrier = o.seq THEN b
                  ELSE [b EXCEPT !.carrier = o.seq,
                                 !.timers = @ \cup {Timer("native", o.seq, 0, o.truth, o.rec)}]
  /\ Act

\* a form with a protected POST the runtime takes over
Submit ==
  /\ Listening
  /\ server + wild < MaxPosts
  /\ LET o == Outdate(page)
         s == Superseded(o)
         b == IF ~page.traversing THEN o
              ELSE IF Rec(page) = NoUrl THEN s
              ELSE Observe(s, Observer(s, "fallback", FALSE, 0, Rec(page)))
     IN page' = Begin(b, Op(b, "post", NoUrl, FALSE, 0, NoUrl))
  /\ Act

Traverse(i) ==
  /\ page.life # "closed" /\ i # page.cur
  /\ \E enhance, safe \in BOOLEAN : page' = Arrived([Outdate(page) EXCEPT !.cur = i], enhance, safe)
  /\ Act

\* scrolling while a traversal is pending: it is reloaded after a short delay
Scroll ==
  /\ page.life = "active" /\ page.traversing /\ page.active # 0
  /\ page' = [Abort(page) EXCEPT !.recovering = TRUE,
                                 !.lapsed = @ \/ (page.pushRecovery # {} /\ Rec(page) # NoUrl),
                                 !.timers = @ \cup {Timer("traversal", 0, page.traversal, NoUrl, Rec(page))}]
  /\ Act

Close ==
  /\ page.life = "active"
  /\ LET b == Abort(Outdate(page))
     IN page' = IF ~page.traversing /\ Kind(page) # "post" /\ Rec(page) = NoUrl
                THEN [b EXCEPT !.life = "closed"]
                ELSE Depart(Observe([b EXCEPT !.life = "closing"],
                                    Observer(b, "close", TRUE, 0, Rec(page))), Href(b))
  /\ Act

-----------------------------------------------------------------------------
(* Answers. *)

Serve ==
  /\ \/ \E o \in page.ops :
          /\ o.kind = "post" /\ ~o.served
          /\ page' = [page EXCEPT !.ops = (@ \ {o}) \cup {[o EXCEPT !.served = TRUE]}]
          /\ UNCHANGED wild
     \/ wild > 0 /\ wild' = wild - 1 /\ UNCHANGED page
  /\ server' = server + 1 /\ UNCHANGED <<due, acts, cancels>>

\* mutant: an answer is used while its request is the last one
Owns_uncancelled(b, o) == b.active = o.seq

\* only the answer of the operation that still owns the runtime is used
Owns(b, o) == b.active = o.seq /\ ~o.aborted
\* what was not started by a link (source 0) must still find the entry it started from
InPlace(b, o) == o.source.id # 0 => Href(b) = o.truth /\ Current(b) = o.source
Commits(b, o) == b.life = "active" /\ (o.source.id = 0 => ~b.traversing)

AnswerNavigation(b, o) ==
  {EndOp(Fallback(b, o.url, FALSE, o.rec), o)}
  \cup (IF ~InPlace(b, o) THEN {}
        ELSE {EndOp(Fallback(b, u, FALSE, o.rec), o) : u \in Url \cup {o.truth}}
             \cup {EndOp(CommitFails(b, o), o)}
             \cup (IF Commits(b, o)
                   THEN {EndOp(Commit(b, o.url, o.replace, v), o) : v \in {o.began, server}} ELSE {}))

AnswerPost(b, o) ==
  {EndOp(Fallback(b, o.truth, FALSE, o.truth), o)}
  \cup (IF ~InPlace(b, o) \/ ~o.served THEN {}
        ELSE {EndOp(CommitFails(b, o), o), RecoverCommitted(EndOp(b, o), o.truth)}
             \cup {Navigate(EndOp(b, o), n[1], FALSE, 0, o.truth, n[2]) : n \in Url \X BOOLEAN}
             \cup (IF Commits(b, o) THEN {EndOp(Commit(b, o.truth, FALSE, server), o)} ELSE {}))

\* an operation that lost the runtime ends; a POST that was aborted in place reloads the truth
Obsolete(b, o) ==
  IF /\ o.kind = "post" /\ b.active = o.seq /\ b.life # "closing"
     /\ \A r \in b.mutationRecovery : r.op # o.seq
  THEN EndOp(Fallback(b, o.truth, FALSE, o.truth), o)
  ELSE EndOp(b, o)

Arrive(o) ==
  /\ o.kind \in {"nav", "post"}
  /\ Owns(page, o) => Unprompted /\ page.jumps = <<>> /\ \A t \in page.timers : t.kind = "traversal"
  /\ page' \in IF ~Owns(page, o) THEN {Obsolete(page, o)}
               ELSE IF o.kind = "nav" THEN AnswerNavigation(page, o) ELSE AnswerPost(page, o)
  /\ due' = IF o.kind = "post" /\ ~o.aborted THEN server ELSE due
  /\ wild' = IF o.kind = "post" /\ ~o.served THEN wild + 1 ELSE wild
  /\ UNCHANGED <<server, acts, cancels>>

-----------------------------------------------------------------------------
(* Timers, programmatic traversals and native loads. *)

RecoveryTimer(o) ==
  /\ o.kind = "wait"
  /\ LET rest == [page EXCEPT !.ops = @ \ {o}]
         free == [rest EXCEPT !.active = 0]
     IN page' \in
          IF page.active # o.seq THEN {rest}
          ELSE IF o.aborted THEN {[page EXCEPT !.ops = (@ \ {o}) \cup {[o EXCEPT !.kind = "idle"]}]}
          ELSE IF page.life = "closed" THEN {free}
          ELSE {Fallback(free, o.url, FALSE, o.rec)}
               \cup (IF o.source.url = Href(page) /\ Href(page) = o.url
                     THEN {Navigate(free, o.url, TRUE, 0, o.rec, safe) : safe \in BOOLEAN}
                     ELSE {})
  /\ Quietly

\* the timer of scheduleNativeMutationRecovery
NativeTimer(t) ==
  /\ t.kind = "native"
  /\ LET b == [page EXCEPT !.timers = @ \ {t},
                           !.carrier = IF @ = t.op THEN 0 ELSE @,
                           !.ops = {o \in @ : o.seq # t.op \/ o.kind # "held"}]
     IN page' = IF page.carrier = t.op /\ t.current
                THEN Fallback(IF b.active = t.op THEN [b EXCEPT !.active = 0] ELSE b, t.url, FALSE, t.rec)
                ELSE b
  /\ Quietly

TraversalTimer(t) ==
  /\ t.kind = "traversal"
  /\ LET b == [page EXCEPT !.timers = @ \ {t}]
     IN page' = IF b.life # "closed" /\ t.trav = b.traversal /\ b.recovering
                THEN BeginTraversalRecovery(b, t.rec) ELSE b
  /\ Quietly

\* the pushed entry is selected again, and loaded natively
StageTimer(t) ==
  /\ t.kind = "stage"
  /\ LET b == [page EXCEPT !.timers = @ \ {t}]
         s == Selected(b, t.url, FALSE)
     IN page' = IF b.life = "closed" \/ Href(b) # t.truth \/ (t.op # 0 /\ b.active # t.op) THEN b
                ELSE Depart(Observe(s, [Observer(s, "staged", TRUE, 0, t.rec) EXCEPT !.truth = t.truth]), t.url)
  /\ Quietly

ForwardTimer(t) ==
  /\ t.kind = "forward"
  /\ page' = [page EXCEPT !.timers = @ \ {t},
                          !.jumps = IF \E r \in page.mutationRecovery : r.op = t.op THEN Append(@, 1) ELSE @]
  /\ Quietly

\* history.forward() or history.go(); without such an entry nothing happens, and a POST that was
\* interrupted there is not recovered
Jump ==
  /\ page.jumps # <<>> /\ Unprompted
  /\ LET i == page.cur + Head(page.jumps)
         b == [page EXCEPT !.jumps = Tail(@)]
     IN \E enhance, safe \in BOOLEAN :
          page' = IF i \notin DOMAIN b.entries
                  THEN [b EXCEPT !.lapsed = @ \/ (Head(page.jumps) = 1 /\ b.mutationRecovery # {})]
                  ELSE IF b.life = "closed" THEN [b EXCEPT !.cur = i]
                  ELSE Arrived([b EXCEPT !.cur = i], enhance, safe)
  /\ Quietly

\* the unload prompt of a native load; every observer listens to one prompt only
Accept ==
  /\ \E d \in page.departure :
       ~d.asked /\ page' = [page EXCEPT !.departure = {[d EXCEPT !.asked = TRUE]}, !.observers = <<>>,
                                    !.leaving = TRUE]
  /\ Quietly

Refuse ==
  /\ ~page.leaving /\ cancels < MaxCancels /\ cancels' = cancels + 1
  /\ \E d \in page.departure :
       ~d.asked /\ page' = [page EXCEPT !.departure = {}, !.observers = <<>>,
                                        !.prompted = @ \o page.observers]
  /\ UNCHANGED <<server, wild, due, acts>>

Load ==
  /\ \E d \in page.departure :
       d.asked /\ page' = Loaded(<<[url |-> d.url, id |-> 1]>>, 1, server)
  /\ wild' = wild + Cardinality({o \in page.ops : o.kind = "post" /\ ~o.served})
  /\ UNCHANGED <<server, due, acts, cancels>>

Guard(b, obs) ==
  CASE obs.kind = "fallback" -> b.truthUrl = obs.truth /\ Href(b) = obs.sel
    [] obs.kind = "traversal" -> obs.trav = b.traversal /\ b.recovering /\ b.truthUrl = obs.truth
    [] obs.kind = "staged" -> Href(b) = obs.sel
    [] obs.kind = "close" -> b.life = "closing" /\ b.truthUrl = obs.truth /\ Href(b) = obs.sel

Repaired(b, obs) ==
  LET t == IF obs.kind # "staged" /\ obs.repair THEN CloseTraversal(b) ELSE b
      r == RepairDisplayedTruth(t, obs.truth)
  IN CASE obs.kind = "close" ->
            IF obs.rec # NoUrl THEN RecoverCommitted([b EXCEPT !.life = "active"], obs.rec)
            ELSE [r EXCEPT !.life = "closed"]
       [] obs.kind = "fallback" /\ obs.rec # NoUrl ->
            RecoverCommitted(IF obs.repair THEN r ELSE b, obs.rec)
       [] OTHER -> IF obs.rec # NoUrl THEN RecoverCommitted(r, obs.rec) ELSE r

Check ==
  /\ page.prompted # <<>>
  /\ LET obs == Head(page.prompted)
         b == [page EXCEPT !.prompted = Tail(@)]
     IN page' = IF b.life # "closed" /\ Guard(b, obs)
                THEN Repaired(b, obs) ELSE b
  /\ Quietly

User == \/ \E url \in Url : Click(url) \/ NativeActivation(url) \/ PolicyActivation(url)
        \/ AuxiliaryClick \/ Submit \/ Scroll \/ Close
        \/ \E i \in DOMAIN page.entries : Traverse(i)
Timers == \E t \in page.timers : NativeTimer(t) \/ TraversalTimer(t) \/ StageTimer(t) \/ ForwardTimer(t)
Answers == \E o \in page.ops : Arrive(o) \/ RecoveryTimer(o)

\* nothing is under way any more: only the user acts again
Quiet ==
  /\ \A o \in page.ops : o.kind = "idle"
  /\ page.departure = {} /\ page.prompted = <<>> /\ page.timers = {} /\ page.jumps = <<>>

Rest == Quiet /\ UNCHANGED vars

Next == User \/ Serve \/ Answers \/ Timers \/ Jump \/ Accept \/ Refuse \/ Load \/ Check \/ Rest

Spec == Init /\ [][Next]_vars

-----------------------------------------------------------------------------
(* Properties.  page.lapsed exempts what Drops, Lapses, PolicyActivation, Scroll and Jump name. *)

TypeOK ==
  /\ page.cur \in DOMAIN page.entries
  /\ page.active \in {0} \cup {o.seq : o \in page.ops}
  /\ \A o, q \in page.ops : o.seq = q.seq => o = q
  /\ Cardinality(page.departure) <= 1 /\ page.shown.version \in 0..server

\* the selected entry carries the URL of the document that is displayed
InTruth == Href(page) = page.shown.url /\ page.truthUrl = page.shown.url

\* no traversal is left open, and no operation but the placeholder of a recovery
Settled == ~page.traversing /\ (page.active = 0 \/ Rec(page) # NoUrl)

\* Whatever was clicked, submitted, traversed, refused at a prompt or answered late: once nothing is
\* under way, the address bar names the displayed document, no traversal is left open, and no operation
\* but one that keeps a recovery (repairDisplayedTruth and its callers).  Includes the type invariant.
Coherent == TypeOK /\ (Quiet /\ page.life = "active" /\ ~page.lapsed => InTruth /\ Settled)

\* A mutation the runtime waited for is never forgotten: once nothing is under way, the document is at
\* least as new as it (recoverCommittedMutationCurrentTruth and the recovery every operation inherits).
KnownTruth == Quiet /\ page.life = "active" /\ ~page.lapsed => page.shown.version >= due

\* The answer to an operation the user has since superseded never replaces the document, whatever came
\* in between: further acts, refused prompts, rollbacks, timers and traversals of the runtime's own.
LatestIntentWins ==
  [][\A o \in page.ops : Arrive(o) /\ o.outdated /\ ~page.lapsed => page'.shown = page.shown]_vars
================================================================================
