----------------------- MODULE BrowserNavigationProofs -----------------------
(***************************************************************************)
(* The theorems about navigation in the browser: whatever acts of the      *)
(* user, refused prompts, rollbacks, timers and traversals of the runtime  *)
(* come in between, the answer to a superseded operation never replaces    *)
(* the document.  They hold for any number of acts, prompts, mutations,    *)
(* entries and URLs; the bounds of the model are never used.               *)
(*                                                                         *)
(* Every function of the runtime that the model composes has a lemma       *)
(* saying that it keeps the invariant (Base, Owed, Fair) and what else its *)
(* callers need (Spare, Off, the displayed document); the actions follow.  *)
(* The second half, after the theorems, says of the same functions what    *)
(* the invariants of BrowserRecoveryProofs ask of them.                    *)
(***************************************************************************)
EXTENDS BrowserNavigation, FiniteSetTheorems, TLAPS

-----------------------------------------------------------------------------
(* Types.  Operations, timers and recoveries are finite sets, so that the  *)
(* numbers the runtime draws next are fresh.                               *)

Link == Url \cup {NoUrl}
Entry == [url : Link, id : Nat]
Operation ==
  [seq : Nat \ {0}, kind : {"nav", "post", "wait", "idle", "held"}, url : Link, truth : Link,
   replace : BOOLEAN, source : Entry, trav : Nat, rec : Link, began : Nat,
   aborted : BOOLEAN, served : BOOLEAN, outdated : BOOLEAN]
TimerRecord ==
  [kind : {"native", "traversal", "stage", "forward"}, op : Nat, trav : Nat, url : Link, truth : Link,
   rec : Link, current : BOOLEAN, late : BOOLEAN]
ObserverRecord ==
  [kind : {"fallback", "traversal", "staged", "close"}, repair : BOOLEAN, trav : Nat, rec : Link,
   truth : Link, sel : Link]
PushRecovery == [url : Link, truth : Link, rec : Link, trav : Nat \ {0}, op : Nat, entry : Nat]
Page ==
  [entries : Seq(Entry), cur : Nat, shown : [url : Link, version : Nat],
   truthUrl : Link, displayed : Nat, selected : Nat,
   ops : SUBSET Operation, active : Nat, carrier : Nat, traversing : BOOLEAN, traversal : Nat,
   recovering : BOOLEAN, mutationRecovery : SUBSET [op : Nat, url : Link],
   pushRecovery : SUBSET PushRecovery, supersession : SUBSET [op : Nat, url : Link, rec : Link],
   life : {"active", "closing", "closed"}, departure : SUBSET [url : Link, asked : BOOLEAN],
   observers : Seq(ObserverRecord), prompted : Seq(ObserverRecord),
   timers : SUBSET TimerRecord, jumps : Seq({1, -1}), leaving : BOOLEAN, lapsed : BOOLEAN]

\* what a page of the runtime looks like
Typed(b) ==
  /\ b \in Page
  /\ b.cur \in DOMAIN b.entries
  /\ IsFiniteSet(b.ops) /\ IsFiniteSet(b.timers)
  /\ IsFiniteSet(b.mutationRecovery) /\ IsFiniteSet(b.pushRecovery) /\ IsFiniteSet(b.supersession)

LEMMA FreshIs ==
  ASSUME NEW used, IsFiniteSet(used)
  PROVE  Fresh(used) \in Nat \ {0} /\ Fresh(used) \notin used
<1> DEFINE c == Cardinality(used)
<1>1. c \in Nat BY FS_CardinalityType
<1>2. IsFiniteSet(1..(c + 1)) /\ Cardinality(1..(c + 1)) = c + 1
  BY <1>1, FS_Interval
<1>3. ~(1..(c + 1) \subseteq used)
  <2> SUFFICES ASSUME 1..(c + 1) \subseteq used PROVE FALSE OBVIOUS
  <2>1. Cardinality(1..(c + 1)) <= c BY FS_Subset
  <2> QED BY <1>1, <1>2, <2>1
<1>4. \E n \in 1..(c + 1) : n \notin used BY <1>3
<1> QED BY <1>1, <1>4 DEF Fresh

LEMMA CurrentIs ==
  ASSUME NEW b, Typed(b)
  PROVE  Current(b) \in Entry /\ Href(b) \in Link
<1>1. b.entries \in Seq(Entry) /\ b.cur \in DOMAIN b.entries BY DEF Typed, Page
<1>2. Current(b) \in Entry BY <1>1 DEF Current
<1> QED BY <1>2 DEF Href, Entry

-----------------------------------------------------------------------------
(* The invariant.  Operations a page keeps are told apart by number; a     *)
(* rollback without an operation of its own happens only while nothing of  *)
(* the user's is under way, or when the document can commit no more.       *)

Elements(s) == {s[i] : i \in DOMAIN s}

\* closing the runtime has no refused prompt to come back from
NoReturn(b) ==
  \A x \in Elements(b.observers) \cup Elements(b.prompted) : x.kind = "close" => x.rec = NoUrl
\* no document is committed any more: the runtime was left, closed or is closing for good
Off(b) == b.lapsed \/ b.life = "closed" \/ (b.life = "closing" /\ NoReturn(b))
\* the rollback r is awaited, and no operation waits with it
Live(b, r) == r \in b.pushRecovery /\ r.op = 0 /\ r.trav = b.traversal
\* nothing the user asked for is under way
Idle(b) ==
  /\ b.life = "active" /\ b.active = 0 /\ b.traversing /\ ~b.recovering
  /\ \A t \in b.timers : t.kind = "traversal"
  /\ b.prompted = <<>> /\ \A d \in b.departure : d.asked
  /\ b.mutationRecovery = {}
\* what the callers of most functions know: no rollback is awaited alone, unless the page is off
Spare(b) == Off(b) \/ \A r \in b.pushRecovery : ~Live(b, r)

Unique(b) == \A o, q \in b.ops : o.seq = q.seq => o = q
\* of the two recoveries after an interrupted POST only one is pending
Exclusive(b) == b.supersession = {} \/ b.mutationRecovery = {}
\* the operation a rollback belongs to is a placeholder, never a request
Placeholder(b) == \A r \in b.pushRecovery, o \in b.ops : o.seq = r.op => o.kind \in {"idle", "held"}
\* a rollback has a number of its own, which no operation bears
Travs(b) == \A r \in b.pushRecovery, o \in b.ops : o.trav # r.trav
\* the operation whose traversal is being repaired is aborted
Carried(b) == \A o \in b.ops : o.seq = b.carrier => o.aborted
\* the observer of the close goes with a departure whose prompt is still to come
Closing(b) == (\E x \in Elements(b.observers) : x.kind = "close") => \E d \in b.departure : ~d.asked
\* a rollback without an operation happens while nothing is under way
Rolling(b) == \A r \in b.pushRecovery : Live(b, r) => Off(b) \/ Idle(b)
\* the forward step after an interrupted POST is still coming
Owed(b) ==
  \/ b.lapsed \/ b.life = "closed"
  \/ \A r \in b.mutationRecovery : \/ \E t \in b.timers : t.kind = "forward" /\ t.op = r.op
                                   \/ 1 \in Elements(b.jumps)
\* an operation the user has superseded is aborted or no longer owns the page
Fair(b) ==
  \A o \in b.ops : o.seq = b.active /\ ~o.aborted /\ o.outdated /\ o.kind \in {"nav", "post"} => Off(b)

Base(b) ==
  Typed(b) /\ Unique(b) /\ Exclusive(b) /\ Placeholder(b) /\ Travs(b) /\ Carried(b) /\ Closing(b)
  /\ Rolling(b)
Sound(b) == Base(b) /\ Owed(b) /\ Fair(b)

\* the operations S are among T, at most aborted or demoted to placeholders since
From(S, T) ==
  \A o \in S : \E q \in T :
    /\ o.seq = q.seq /\ o.trav = q.trav /\ (q.aborted => o.aborted)
    /\ o.kind = q.kind \/ o.kind \in {"idle", "held"}
\* none of S was superseded since T
NotOlder(S, T) == \A o \in S, q \in T : o.seq = q.seq /\ o.outdated => q.outdated

-----------------------------------------------------------------------------
(* Changes of the operations alone, and what every change of the page that *)
(* leaves the rollbacks alone keeps.                                       *)

LEMMA FiniteMap ==
  ASSUME NEW S, IsFiniteSet(S), NEW f
  PROVE  IsFiniteSet({f[x] : x \in S})
<1> DEFINE T == {f[x] : x \in S}
           g == [x \in S |-> f[x]]
<1>1. g \in Surjection(S, T) BY DEF Surjection
<1> QED BY <1>1, FS_Surjection

LEMMA OpsChange ==
  ASSUME NEW b, Base(b), NEW X \in SUBSET Operation, IsFiniteSet(X), From(X, b.ops),
         \A o, q \in X : o.seq = q.seq => o = q,
         NEW c, c = [b EXCEPT !.ops = X]
  PROVE  /\ Base(c) /\ (Spare(b) => Spare(c)) /\ (Off(b) => Off(c)) /\ (Owed(b) => Owed(c))
         /\ Fair(b) /\ NotOlder(X, b.ops) => Fair(c)
<1>1. b \in Page BY DEF Base, Typed
<1>2. c \in Page BY <1>1 DEF Page
<1>3. /\ c.ops = X
      /\ c.entries = b.entries /\ c.cur = b.cur /\ c.active = b.active /\ c.carrier = b.carrier
      /\ c.traversing = b.traversing /\ c.traversal = b.traversal /\ c.recovering = b.recovering
      /\ c.mutationRecovery = b.mutationRecovery /\ c.pushRecovery = b.pushRecovery
      /\ c.supersession = b.supersession /\ c.life = b.life /\ c.departure = b.departure
      /\ c.observers = b.observers /\ c.prompted = b.prompted /\ c.timers = b.timers
      /\ c.jumps = b.jumps /\ c.lapsed = b.lapsed
  BY <1>1 DEF Page
<1>4. Typed(c) /\ Unique(c) BY <1>2, <1>3 DEF Base, Typed, Unique
<1>5. Exclusive(c) /\ Closing(c) BY <1>3 DEF Base, Exclusive, Closing
<1>6. Placeholder(c) /\ Travs(c) /\ Carried(c)
  BY <1>3 DEF Base, Placeholder, Travs, Carried, From
<1>7. /\ (Off(b) <=> Off(c)) /\ (Idle(b) <=> Idle(c)) /\ (Owed(b) <=> Owed(c))
      /\ \A r : Live(b, r) <=> Live(c, r)
  BY <1>3 DEF Off, NoReturn, Idle, Owed, Live
<1>8. Rolling(c) /\ (Spare(b) => Spare(c)) BY <1>3, <1>7 DEF Base, Rolling, Spare
<1>9. ASSUME Fair(b), NotOlder(X, b.ops) PROVE Fair(c)
  BY <1>3, <1>7, <1>9 DEF Fair, NotOlder, From
<1> QED BY <1>4, <1>5, <1>6, <1>7, <1>8, <1>9 DEF Base

LEMMA SpareKeeps ==
  ASSUME NEW b, Base(b), Spare(b), NEW c, Typed(c), Unique(c), From(c.ops, b.ops),
         c.pushRecovery = b.pushRecovery, c.carrier \in {0, b.carrier}, Exclusive(c), Closing(c),
         Off(b) => Off(c),
         c.traversal = b.traversal \/ \A r \in b.pushRecovery : r.trav # c.traversal
  PROVE  Base(c) /\ Spare(c)
<1>1. Placeholder(c) /\ Travs(c)
  BY DEF Base, Placeholder, Travs, From
<1>2. Carried(c)
  <2> SUFFICES ASSUME NEW o \in c.ops, o.seq = c.carrier PROVE o.aborted BY DEF Carried
  <2>1. o.seq # 0 BY DEF Typed, Page, Operation
  <2> QED BY <2>1 DEF Base, Carried, From
<1>3. Spare(c) BY DEF Spare, Live
<1>4. Rolling(c) BY <1>3 DEF Spare, Rolling
<1> QED BY <1>1, <1>2, <1>3, <1>4 DEF Base

LEMMA FairKeeps ==
  ASSUME NEW b, Base(b), Fair(b), NEW c, Typed(c), From(c.ops, b.ops), NotOlder(c.ops, b.ops),
         c.active \in {0, b.active}, Off(b) => Off(c)
  PROVE  Fair(c)
<1> SUFFICES ASSUME NEW o \in c.ops, o.seq = c.active, ~o.aborted, o.outdated, o.kind \in {"nav", "post"}
             PROVE  Off(c)
  BY DEF Fair
<1>1. o.seq # 0 BY DEF Typed, Page, Operation
<1>2. c.active = b.active BY <1>1
<1> QED BY <1>2 DEF Fair, From, NotOlder

LEMMA SameOps ==
  ASSUME NEW b
  PROVE  From(b.ops, b.ops)
BY DEF From

LEMMA SameAge ==
  ASSUME NEW b, Unique(b)
  PROVE  NotOlder(b.ops, b.ops)
BY DEF NotOlder, Unique

-----------------------------------------------------------------------------
(* Marks on operations and timers: aborting, outdating.                    *)

Cancelled(o) == [o EXCEPT !.aborted = TRUE]
Outdated(o) == [o EXCEPT !.outdated = TRUE]

LEMMA MarkedIs ==
  ASSUME NEW o \in Operation
  PROVE  /\ Cancelled(o) \in Operation /\ Cancelled(o).aborted
         /\ \A f \in DOMAIN o : f # "aborted" => Cancelled(o)[f] = o[f]
         /\ Outdated(o) \in Operation /\ Outdated(o).outdated
         /\ \A f \in DOMAIN o : f # "outdated" => Outdated(o)[f] = o[f]
         /\ DOMAIN o = {"seq", "kind", "url", "truth", "replace", "source", "trav", "rec", "began",
                        "aborted", "served", "outdated"}
<1> DEFINE q == Cancelled(o)
           r == Outdated(o)
<1>1. q \in Operation BY DEF Cancelled, Operation
<1>2. q.aborted BY DEF Cancelled, Operation
<1>3. \A f \in DOMAIN o : f # "aborted" => q[f] = o[f] BY DEF Cancelled, Operation
<1>4. r \in Operation BY DEF Outdated, Operation
<1>5. r.outdated BY DEF Outdated, Operation
<1>6. \A f \in DOMAIN o : f # "outdated" => r[f] = o[f] BY DEF Outdated, Operation
<1>7. DOMAIN o = {"seq", "kind", "url", "truth", "replace", "source", "trav", "rec", "began",
                        "aborted", "served", "outdated"} BY DEF Operation
<1> QED BY <1>1, <1>2, <1>3, <1>4, <1>5, <1>6, <1>7

Aborting(b) == {IF o.seq = b.active THEN Cancelled(o) ELSE o : o \in b.ops}

LEMMA AbortKeeps ==
  ASSUME NEW b, Base(b)
  PROVE  /\ Abort(b) = [b EXCEPT !.ops = Aborting(b)]
         /\ Base(Abort(b)) /\ Fair(Abort(b))
         /\ (Spare(b) => Spare(Abort(b))) /\ (Off(b) => Off(Abort(b))) /\ (Owed(b) => Owed(Abort(b)))
         /\ \A o \in Abort(b).ops : o.seq = b.active => o.aborted
<1> DEFINE f == [o \in b.ops |-> IF o.seq = b.active THEN Cancelled(o) ELSE o]
           X == Aborting(b)
<1>0. b.ops \subseteq Operation /\ IsFiniteSet(b.ops) /\ Unique(b) /\ b \in Page BY DEF Base, Typed, Page
<1>1. X = {f[o] : o \in b.ops} BY DEF Aborting
<1>10. \A o \in b.ops : f[o] = IF o.seq = b.active THEN Cancelled(o) ELSE o OBVIOUS
<1> HIDE DEF f, X
<1>2. IsFiniteSet(X) BY <1>0, <1>1, FiniteMap
<1>3. ASSUME NEW o \in b.ops
      PROVE  /\ f[o] \in Operation
             /\ f[o].seq = o.seq /\ f[o].trav = o.trav /\ f[o].kind = o.kind
             /\ o.aborted => f[o].aborted
             /\ o.seq = b.active => f[o].aborted
  <2>1. o \in Operation BY <1>0
  <2>2. CASE o.seq = b.active BY <1>10, <2>1, <2>2, MarkedIs
  <2>3. CASE o.seq # b.active BY <1>10, <2>1, <2>3
  <2> QED BY <2>2, <2>3
<1>4. X \in SUBSET Operation /\ From(X, b.ops) BY <1>1, <1>3 DEF From
<1>5. \A o, q \in X : o.seq = q.seq => o = q BY <1>0, <1>1, <1>3 DEF Unique
<1>6. Abort(b) = [b EXCEPT !.ops = X] BY DEF Abort, Aborting, Cancelled, X
<1>7. /\ Base(Abort(b)) /\ (Spare(b) => Spare(Abort(b))) /\ (Off(b) => Off(Abort(b)))
      /\ (Owed(b) => Owed(Abort(b)))
  BY <1>2, <1>4, <1>5, <1>6, OpsChange
<1>8. Abort(b).ops = X /\ Abort(b).active = b.active BY <1>0, <1>6 DEF Page
<1>9. \A o \in Abort(b).ops : o.seq = b.active => o.aborted BY <1>1, <1>3, <1>8
<1>11. Fair(Abort(b)) BY <1>8, <1>9 DEF Fair
<1> QED BY <1>6, <1>7, <1>8, <1>9, <1>11 DEF X

Late(t) == [t EXCEPT !.late = t.kind # "traversal"]
Outdating(b) == {Outdated(o) : o \in b.ops}
LatenTimers(b) == {Late(t) : t \in b.timers}

LEMMA OutdateKeeps ==
  ASSUME NEW b, Base(b)
  PROVE  /\ Outdate(b) = [b EXCEPT !.ops = Outdating(b), !.timers = LatenTimers(b)]
         /\ Base(Outdate(b))
         /\ (Spare(b) => Spare(Outdate(b))) /\ (Off(b) => Off(Outdate(b))) /\ (Owed(b) => Owed(Outdate(b)))
         /\ \A o \in Outdate(b).ops : \E q \in b.ops : q.seq = o.seq /\ q.rec = o.rec /\ q.kind = o.kind
<1> DEFINE f == [o \in b.ops |-> Outdated(o)]
           g == [t \in b.timers |-> Late(t)]
           X == Outdating(b)
           Z == LatenTimers(b)
           c == [b EXCEPT !.ops = X]
           d == Outdate(b)
<1>0. /\ b.ops \subseteq Operation /\ IsFiniteSet(b.ops) /\ Unique(b) /\ b \in Page
      /\ b.timers \subseteq TimerRecord /\ IsFiniteSet(b.timers)
  BY DEF Base, Typed, Page
<1>1. X = {f[o] : o \in b.ops} /\ Z = {g[t] : t \in b.timers} BY DEF Outdating, LatenTimers
<1>20. (\A o \in b.ops : f[o] = Outdated(o)) /\ \A t \in b.timers : g[t] = Late(t) OBVIOUS
<1> HIDE DEF f, g, X, Z
<1>2. IsFiniteSet(X) /\ IsFiniteSet(Z) BY <1>0, <1>1, FiniteMap
<1>3. ASSUME NEW o \in b.ops
      PROVE  /\ f[o] \in Operation
             /\ f[o].seq = o.seq /\ f[o].trav = o.trav /\ f[o].kind = o.kind /\ f[o].rec = o.rec
             /\ o.aborted => f[o].aborted
  <2>1. o \in Operation BY <1>0
  <2> QED BY <2>1, <1>20, MarkedIs
<1>4. ASSUME NEW t \in b.timers
      PROVE  g[t] \in TimerRecord /\ g[t].kind = t.kind /\ g[t].op = t.op
  <2>1. t \in TimerRecord BY <1>0
  <2>2. PICK l \in BOOLEAN : l = (t.kind # "traversal") OBVIOUS
  <2>3. g[t] = [t EXCEPT !.late = l] BY <1>20, <2>2 DEF Late
  <2> QED BY <2>1, <2>3 DEF TimerRecord
<1>5. X \in SUBSET Operation /\ From(X, b.ops) /\ Z \in SUBSET TimerRecord BY <1>1, <1>3, <1>4 DEF From
<1>6. \A o, q \in X : o.seq = q.seq => o = q BY <1>0, <1>1, <1>3 DEF Unique
<1>7. d = [b EXCEPT !.ops = X, !.timers = Z] BY DEF Outdate, Outdating, LatenTimers, Outdated, Late, X, Z
<1>8. Base(c) /\ (Spare(b) => Spare(c)) /\ (Off(b) => Off(c)) /\ (Owed(b) => Owed(c))
  BY <1>2, <1>5, <1>6, OpsChange
<1>9. d = [c EXCEPT !.timers = Z] /\ c \in Page /\ c.timers = b.timers
  BY <1>0, <1>7, <1>8 DEF Page, Base, Typed
<1>12. c.ops = X BY <1>0 DEF Page
<1> HIDE DEF c
<1>10. /\ d \in Page /\ d.timers = Z
       /\ d.ops = c.ops
       /\ d.entries = c.entries /\ d.cur = c.cur /\ d.active = c.active /\ d.carrier = c.carrier
       /\ d.traversing = c.traversing /\ d.traversal = c.traversal /\ d.recovering = c.recovering
       /\ d.mutationRecovery = c.mutationRecovery /\ d.pushRecovery = c.pushRecovery
       /\ d.supersession = c.supersession /\ d.life = c.life /\ d.departure = c.departure
       /\ d.observers = c.observers /\ d.prompted = c.prompted
       /\ d.jumps = c.jumps /\ d.lapsed = c.lapsed
  <2> HIDE DEF d
  <2> QED BY <1>5, <1>9 DEF Page
<1> HIDE DEF d
<1>11. /\ \A t \in d.timers : \E q \in c.timers : t.kind = q.kind /\ t.op = q.op
       /\ \A q \in c.timers : \E t \in d.timers : t.kind = q.kind /\ t.op = q.op
  BY <1>1, <1>4, <1>9, <1>10
<1>13. Typed(d) BY <1>2, <1>8, <1>10 DEF Base, Typed
<1>14. Unique(d) /\ Exclusive(d) /\ Placeholder(d) /\ Travs(d) /\ Carried(d) /\ Closing(d)
  BY <1>8, <1>10 DEF Base, Unique, Exclusive, Placeholder, Travs, Carried, Closing
<1>15. (Off(c) <=> Off(d)) /\ (\A r : Live(c, r) <=> Live(d, r)) /\ (Idle(c) => Idle(d)) /\ (Owed(c) => Owed(d))
  BY <1>10, <1>11 DEF Off, NoReturn, Live, Idle, Owed
<1>16. Rolling(d) /\ (Spare(c) => Spare(d)) BY <1>8, <1>10, <1>15 DEF Base, Rolling, Spare
<1>17. \A o \in d.ops : \E q \in b.ops : q.seq = o.seq /\ q.rec = o.rec /\ q.kind = o.kind
  BY <1>1, <1>3, <1>10, <1>12
<1>18. Base(d) /\ (Spare(b) => Spare(d)) /\ (Off(b) => Off(d)) /\ (Owed(b) => Owed(d))
  BY <1>8, <1>13, <1>14, <1>15, <1>16 DEF Base
<1>19. d = [b EXCEPT !.ops = Outdating(b), !.timers = LatenTimers(b)] BY <1>7 DEF X, Z
<1> QED BY <1>17, <1>18, <1>19 DEF d

-----------------------------------------------------------------------------
(* Fresh numbers.                                                          *)

LEMMA FreshSeqIs ==
  ASSUME NEW b, Typed(b)
  PROVE  /\ FreshSeq(b) \in Nat \ {0} /\ FreshSeq(b) # b.carrier
         /\ \A o \in b.ops : o.seq # FreshSeq(b)
         /\ \A r \in b.mutationRecovery \cup b.pushRecovery \cup b.supersession \cup b.timers : r.op # FreshSeq(b)
<1> DEFINE R == b.mutationRecovery \cup b.pushRecovery \cup b.supersession \cup b.timers
           f == [o \in b.ops |-> o.seq]
           g == [r \in R |-> r.op]
           P == {o.seq : o \in b.ops}
           Q == {r.op : r \in R}
           C == {b.carrier}
<1>1. IsFiniteSet(R)
  <2>1. IsFiniteSet(b.mutationRecovery \cup b.pushRecovery) BY FS_Union DEF Typed
  <2>2. IsFiniteSet(b.mutationRecovery \cup b.pushRecovery \cup b.supersession) BY <2>1, FS_Union DEF Typed
  <2> QED BY <2>2, FS_Union DEF Typed
<1>2. P = {f[o] : o \in b.ops} /\ Q = {g[r] : r \in R}
  <2> HIDE DEF R
  <2> QED OBVIOUS
<1>3. FreshSeq(b) = Fresh(P \cup C \cup Q) BY DEF FreshSeq
<1>4. /\ \A r \in R : r.op \in Q
      /\ \A o \in b.ops : o.seq \in P
  <2> HIDE DEF R
  <2> QED OBVIOUS
<1>5. b.carrier \in C /\ IsFiniteSet(C) BY FS_Singleton
<1> HIDE DEF f, g, R, P, Q, C
<1>6. IsFiniteSet(P) /\ IsFiniteSet(Q)
  <2>1. IsFiniteSet(b.ops) BY DEF Typed
  <2> QED BY <1>1, <1>2, <2>1, FiniteMap
<1>7. IsFiniteSet(P \cup C) BY <1>5, <1>6, FS_Union
<1>8. IsFiniteSet(P \cup C \cup Q) BY <1>6, <1>7, FS_Union
<1>9. FreshSeq(b) \in Nat \ {0} /\ FreshSeq(b) \notin P \cup C \cup Q BY <1>3, <1>8, FreshIs
<1>10. \A r \in R : r.op # FreshSeq(b) BY <1>4, <1>9
<1> QED BY <1>4, <1>5, <1>9, <1>10 DEF R

LEMMA FreshTraversalIs ==
  ASSUME NEW b, Typed(b)
  PROVE  /\ FreshTraversal(b) \in Nat \ {0} /\ FreshTraversal(b) # b.traversal
         /\ \A o \in b.ops : o.trav # FreshTraversal(b)
         /\ \A r \in b.pushRecovery \cup b.timers : r.trav # FreshTraversal(b)
<1> DEFINE I == DOMAIN b.observers
           O == {b.observers[i] : i \in I}
           R == b.pushRecovery \cup b.timers \cup O
           f == [o \in b.ops |-> o.trav]
           g == [r \in R |-> r.trav]
           T == {o.trav : o \in b.ops}
           P == {b.traversal} \cup T
           Q == {r.trav : r \in R}
           used == P \cup Q
<1>0. IsFiniteSet(I)
  <2>1. b.observers \in Seq(ObserverRecord) BY DEF Typed, Page
  <2>2. I = 1..Len(b.observers) /\ Len(b.observers) \in Nat BY <2>1
  <2> QED BY <2>2, FS_Interval
<1>1. IsFiniteSet(R)
  <2>1. IsFiniteSet(O)
    <3> HIDE DEF I
    <3> QED BY <1>0, FiniteMap
  <2>2. IsFiniteSet(b.pushRecovery \cup b.timers) BY FS_Union DEF Typed
  <2> HIDE DEF O
  <2> QED BY <2>1, <2>2, FS_Union
<1>2. T = {f[o] : o \in b.ops} /\ Q = {g[r] : r \in R}
  <2> HIDE DEF R
  <2> QED OBVIOUS
<1> HIDE DEF f, g, R
<1>3. IsFiniteSet(T) /\ IsFiniteSet(Q)
  <2>1. IsFiniteSet(b.ops) BY DEF Typed
  <2> HIDE DEF Q, T
  <2> QED BY <1>1, <1>2, <2>1, FiniteMap
<1>4. IsFiniteSet(P)
  <2>1. IsFiniteSet({b.traversal}) BY FS_Singleton
  <2> HIDE DEF T
  <2> QED BY <1>3, <2>1, FS_Union
<1>5. IsFiniteSet(used)
  <2> HIDE DEF P, Q
  <2> QED BY <1>3, <1>4, FS_Union
<1>6. FreshTraversal(b) = Fresh(used) BY DEF FreshTraversal, R
<1>7. Fresh(used) \in Nat \ {0} /\ Fresh(used) \notin used
  <2> HIDE DEF used
  <2> QED BY <1>5, FreshIs
<1>8. \A r \in b.pushRecovery \cup b.timers : r \in R BY DEF R
<1>9. \A r \in b.pushRecovery \cup b.timers : r.trav # FreshTraversal(b) BY <1>6, <1>7, <1>8
<1> QED BY <1>6, <1>7, <1>9

LEMMA FreshEntryIs ==
  ASSUME NEW b, Typed(b)
  PROVE  FreshEntry(b) \in Nat \ {0}
<1> DEFINE I == DOMAIN b.entries
           e == [i \in I |-> b.entries[i].id]
           f == [o \in b.ops |-> o.source.id]
           g == [r \in b.pushRecovery |-> r.entry]
           E == {b.entries[i].id : i \in I}
           F == {o.source.id : o \in b.ops}
           G == {r.entry : r \in b.pushRecovery}
           D == {b.displayed, b.selected}
<1>1. IsFiniteSet(I)
  <2>1. b.entries \in Seq(Entry) BY DEF Typed, Page
  <2>2. PICK n \in Nat : n = Len(b.entries) BY <2>1
  <2>3. I = 1..n BY <2>1, <2>2
  <2>4. IsFiniteSet(1..n) BY <2>2, FS_Interval
  <2> QED BY <2>3, <2>4
<1>2. E = {e[i] : i \in I} /\ F = {f[o] : o \in b.ops} /\ G = {g[r] : r \in b.pushRecovery}
  <2> HIDE DEF I
  <2> QED OBVIOUS
<1> HIDE DEF e, f, g, I
<1>3. IsFiniteSet(E) /\ IsFiniteSet(F) /\ IsFiniteSet(G)
  <2>1. IsFiniteSet(b.ops) /\ IsFiniteSet(b.pushRecovery) BY DEF Typed
  <2> HIDE DEF E, F, G
  <2> QED BY <1>1, <1>2, <2>1, FiniteMap
<1>4. IsFiniteSet(D)
  <2>1. D = {b.displayed} \cup {b.selected} OBVIOUS
  <2>2. IsFiniteSet({b.displayed}) /\ IsFiniteSet({b.selected}) BY FS_Singleton
  <2> HIDE DEF D
  <2> QED BY <2>1, <2>2, FS_Union
<1>5. FreshEntry(b) = Fresh(E \cup D \cup F \cup G) BY DEF FreshEntry, I
<1> HIDE DEF D, E, F, G
<1>6. IsFiniteSet(E \cup D) BY <1>3, <1>4, FS_Union
<1>7. IsFiniteSet(E \cup D \cup F) BY <1>3, <1>6, FS_Union
<1>8. IsFiniteSet(E \cup D \cup F \cup G) BY <1>3, <1>7, FS_Union
<1> QED BY <1>5, <1>8, FreshIs

-----------------------------------------------------------------------------
(* The functions of the runtime, from the innermost to their callers.      *)

Remaining(b) == {o \in b.ops : o.seq # b.active \/ o.kind # "idle"}

LEMMA RelinquishKeeps ==
  ASSUME NEW b, Base(b)
  PROVE  /\ Relinquish(b) = [b EXCEPT !.active = 0, !.ops = Remaining(b)]
         /\ Base(Relinquish(b)) /\ Fair(Relinquish(b))
         /\ (Spare(b) => Spare(Relinquish(b))) /\ (Off(b) => Off(Relinquish(b)))
         /\ (Owed(b) => Owed(Relinquish(b)))
<1> DEFINE X == Remaining(b)
<1>0. b \in Page /\ b.ops \subseteq Operation /\ IsFiniteSet(b.ops) /\ Unique(b) BY DEF Base, Typed, Page
<1>1. PICK c : c = [b EXCEPT !.ops = X] OBVIOUS
<1>2. PICK d : d = Relinquish(b) OBVIOUS
<1>3. d = [b EXCEPT !.active = 0, !.ops = X] BY <1>2 DEF Relinquish, Remaining
<1>4. X \subseteq b.ops /\ X \in SUBSET Operation /\ IsFiniteSet(X) BY <1>0, FS_Subset DEF Remaining
<1> HIDE DEF X
<1>5. From(X, b.ops) /\ \A o, q \in X : o.seq = q.seq => o = q BY <1>0, <1>4 DEF From, Unique
<1>6. Base(c) /\ (Spare(b) => Spare(c)) /\ (Off(b) => Off(c)) /\ (Owed(b) => Owed(c))
  BY <1>1, <1>4, <1>5, OpsChange
<1>7. /\ d \in Page /\ d.active = 0
      /\ d.ops = c.ops /\ d.timers = c.timers
      /\ d.entries = c.entries /\ d.cur = c.cur /\ d.carrier = c.carrier
      /\ d.traversing = c.traversing /\ d.traversal = c.traversal /\ d.recovering = c.recovering
      /\ d.mutationRecovery = c.mutationRecovery /\ d.pushRecovery = c.pushRecovery
      /\ d.supersession = c.supersession /\ d.life = c.life /\ d.departure = c.departure
      /\ d.observers = c.observers /\ d.prompted = c.prompted
      /\ d.jumps = c.jumps /\ d.lapsed = c.lapsed
  BY <1>0, <1>1, <1>3, <1>4 DEF Page
<1>8. Typed(d) BY <1>6, <1>7 DEF Base, Typed
<1>9. Unique(d) /\ Exclusive(d) /\ Placeholder(d) /\ Travs(d) /\ Carried(d) /\ Closing(d)
  BY <1>6, <1>7 DEF Base, Unique, Exclusive, Placeholder, Travs, Carried, Closing
<1>10. (Off(c) <=> Off(d)) /\ (\A r : Live(c, r) <=> Live(d, r)) /\ (Idle(c) => Idle(d)) /\ (Owed(c) => Owed(d))
  BY <1>7 DEF Off, NoReturn, Live, Idle, Owed
<1>11. Rolling(d) /\ (Spare(c) => Spare(d)) BY <1>6, <1>7, <1>10 DEF Base, Rolling, Spare
<1>12. Fair(d)
  <2>1. \A o \in d.ops : o.seq # 0 BY <1>8 DEF Typed, Page, Operation
  <2> QED BY <1>7, <2>1 DEF Fair
<1> QED BY <1>2, <1>3, <1>6, <1>8, <1>9, <1>10, <1>11, <1>12 DEF Base, X

Overtake(t) == [t EXCEPT !.current = @ /\ t.kind # "native"]
Overtaken(b) == {[t EXCEPT !.current = @ /\ t.kind # "native"] : t \in b.timers}

\* all but the operations and the timers is as it was
Carries(b, c) ==
  /\ c.entries = b.entries /\ c.cur = b.cur /\ c.shown = b.shown /\ c.truthUrl = b.truthUrl
  /\ c.displayed = b.displayed /\ c.selected = b.selected /\ c.carrier = b.carrier
  /\ c.traversing = b.traversing /\ c.traversal = b.traversal /\ c.recovering = b.recovering
  /\ c.mutationRecovery = b.mutationRecovery /\ c.pushRecovery = b.pushRecovery
  /\ c.supersession = b.supersession /\ c.life = b.life /\ c.departure = b.departure
  /\ c.observers = b.observers /\ c.prompted = b.prompted
  /\ c.jumps = b.jumps /\ c.lapsed = b.lapsed /\ c.leaving = b.leaving

LEMMA OvertakenIs ==
  ASSUME NEW b, b \in Page, IsFiniteSet(b.timers)
  PROVE  /\ Overtaken(b) \in SUBSET TimerRecord /\ IsFiniteSet(Overtaken(b))
         /\ \A t \in b.timers : \E u \in Overtaken(b) : u.kind = t.kind /\ u.op = t.op
         /\ \A u \in Overtaken(b) : \E t \in b.timers : u.kind = t.kind /\ u.op = t.op
<1> DEFINE f == [t \in b.timers |-> Overtake(t)]
           T == Overtaken(b)
<1>1. T = {Overtake(t) : t \in b.timers} BY DEF Overtaken, Overtake
<1>2. T = {f[t] : t \in b.timers} BY <1>1
<1>3. \A t \in b.timers : f[t] = Overtake(t) OBVIOUS
<1> HIDE DEF f, T
<1>4. IsFiniteSet(T) BY <1>2, FiniteMap
<1>5. ASSUME NEW t \in b.timers
      PROVE  f[t] \in TimerRecord /\ f[t].kind = t.kind /\ f[t].op = t.op
  <2>1. t \in TimerRecord BY DEF Page
  <2>2. PICK l \in BOOLEAN : l = (t.current /\ t.kind # "native") OBVIOUS
  <2>3. f[t] = [t EXCEPT !.current = l] BY <1>3, <2>2 DEF Overtake
  <2> QED BY <2>1, <2>3 DEF TimerRecord
<1> QED BY <1>2, <1>4, <1>5 DEF T

LEMMA BeginKeeps ==
  ASSUME NEW b, Base(b), Spare(b), NEW o \in Operation, ~o.outdated, o.seq # b.carrier,
         \A q \in b.ops : q.seq # o.seq,
         \A r \in b.pushRecovery : o.trav # r.trav /\ (r.op = o.seq => o.kind \in {"idle", "held"})
  PROVE  /\ Carries(b, Begin(b, o)) /\ Begin(b, o).active = o.seq /\ o \in Begin(b, o).ops
         /\ Base(Begin(b, o)) /\ Spare(Begin(b, o)) /\ Fair(Begin(b, o))
         /\ (Off(b) => Off(Begin(b, o))) /\ (Owed(b) => Owed(Begin(b, o)))
<1>1. PICK a : a = Abort(b) OBVIOUS
<1>2. PICK r : r = Relinquish(a) OBVIOUS
<1>3. PICK c : c = Begin(b, o) OBVIOUS
<1>4. b \in Page /\ b.ops \subseteq Operation /\ Unique(b) BY DEF Base, Typed, Page
<1>5. a = [b EXCEPT !.ops = Aborting(b)] /\ Base(a) /\ Spare(a) /\ (Off(b) => Off(a)) /\ (Owed(b) => Owed(a))
  BY <1>1, AbortKeeps
<1>6. /\ r = [a EXCEPT !.active = 0, !.ops = Remaining(a)]
      /\ Base(r) /\ Spare(r) /\ (Off(a) => Off(r)) /\ (Owed(a) => Owed(r))
  BY <1>2, <1>5, RelinquishKeeps
<1>7. a \in Page /\ r \in Page BY <1>5, <1>6 DEF Base, Typed
<1>8. a.timers = b.timers /\ a.pushRecovery = b.pushRecovery /\ a.carrier = b.carrier BY <1>4, <1>5 DEF Page
<1>9. r.timers = b.timers /\ r.pushRecovery = b.pushRecovery /\ r.carrier = b.carrier /\ r.ops \subseteq a.ops
  BY <1>6, <1>7, <1>8 DEF Page, Remaining
<1>10. c = [r EXCEPT !.ops = @ \cup {o}, !.active = o.seq, !.timers = Overtaken(r)]
  BY <1>1, <1>2, <1>3 DEF Begin, Overtaken
<1>11. Carries(b, a) /\ Carries(a, r) BY <1>4, <1>5, <1>6, <1>7 DEF Page, Carries
<1>12. \A q \in r.ops : q.seq # o.seq
  <2>1. a.ops = Aborting(b) BY <1>4, <1>5 DEF Page
  <2>2. \A q \in Aborting(b) : \E p \in b.ops : q.seq = p.seq
    <3>1. \A p \in b.ops : Cancelled(p).seq = p.seq BY <1>4, MarkedIs
    <3> QED BY <3>1 DEF Aborting
  <2> QED BY <1>9, <2>1, <2>2
<1>13. /\ Overtaken(r) \in SUBSET TimerRecord /\ IsFiniteSet(Overtaken(r))
       /\ \A t \in r.timers : \E u \in Overtaken(r) : u.kind = t.kind /\ u.op = t.op
  <2>1. IsFiniteSet(r.timers) BY <1>6 DEF Base, Typed
  <2> QED BY <1>7, <2>1, OvertakenIs
<1>14. /\ c \in Page /\ c.active = o.seq
       /\ c.ops = r.ops \cup {o} /\ c.timers = Overtaken(r)
       /\ c.entries = r.entries /\ c.cur = r.cur /\ c.carrier = r.carrier
       /\ c.traversing = r.traversing /\ c.traversal = r.traversal /\ c.recovering = r.recovering
       /\ c.mutationRecovery = r.mutationRecovery /\ c.pushRecovery = r.pushRecovery
       /\ c.supersession = r.supersession /\ c.life = r.life /\ c.departure = r.departure
       /\ c.observers = r.observers /\ c.prompted = r.prompted
       /\ c.jumps = r.jumps /\ c.lapsed = r.lapsed
       /\ Carries(r, c)
  <2>1. PICK T \in SUBSET TimerRecord : T = Overtaken(r) BY <1>13
  <2>2. PICK s \in Nat : s = o.seq BY DEF Operation
  <2>3. c = [r EXCEPT !.ops = @ \cup {o}, !.active = s, !.timers = T] BY <1>10, <2>1, <2>2
  <2> QED BY <1>7, <2>1, <2>2, <2>3, ZenonT(60) DEF Page, Carries
<1>15. Typed(c)
  <2>1. IsFiniteSet(r.ops) BY <1>6 DEF Base, Typed
  <2>2. IsFiniteSet(c.ops) BY <1>14, <2>1, FS_AddElement
  <2> QED BY <1>6, <1>13, <1>14, <2>2 DEF Base, Typed
<1>16. Unique(c) BY <1>6, <1>12, <1>14 DEF Base, Unique
<1>17. Exclusive(c) /\ Closing(c) BY <1>6, <1>14 DEF Base, Exclusive, Closing
<1>18. Placeholder(c) /\ Travs(c) /\ Carried(c)
  BY <1>6, <1>9, <1>14 DEF Base, Placeholder, Travs, Carried
<1>19. (Off(r) <=> Off(c)) /\ (\A x : Live(r, x) <=> Live(c, x)) BY <1>14 DEF Off, NoReturn, Live
<1>20. Owed(r) => Owed(c) BY <1>13, <1>14 DEF Owed
<1>21. Rolling(c) /\ Spare(c) BY <1>6, <1>14, <1>19 DEF Spare, Rolling
<1>22. Fair(c) BY <1>12, <1>14 DEF Fair
<1>23. Carries(b, c) BY <1>11, <1>14 DEF Carries
<1> QED
  BY <1>3, <1>5, <1>6, <1>14, <1>23, <1>15, <1>16, <1>17, <1>18, <1>19, <1>20, <1>21, <1>22 DEF Base

\* all but the history, the document and its truth is as it was
Alike(b, c) ==
  /\ c.ops = b.ops /\ c.active = b.active /\ c.carrier = b.carrier
  /\ c.traversing = b.traversing /\ c.traversal = b.traversal /\ c.recovering = b.recovering
  /\ c.mutationRecovery = b.mutationRecovery /\ c.pushRecovery = b.pushRecovery
  /\ c.supersession = b.supersession /\ c.life = b.life /\ c.departure = b.departure
  /\ c.observers = b.observers /\ c.prompted = b.prompted /\ c.timers = b.timers
  /\ c.jumps = b.jumps /\ c.lapsed = b.lapsed

LEMMA AlikeKeeps ==
  ASSUME NEW b, Base(b), NEW c, c \in Page, c.cur \in DOMAIN c.entries, Alike(b, c)
  PROVE  /\ Base(c) /\ (Spare(b) => Spare(c)) /\ (Fair(b) => Fair(c)) /\ (Off(b) => Off(c))
         /\ (Owed(b) => Owed(c))
<1>1. Typed(c) BY DEF Base, Typed, Alike
<1>2. Unique(c) /\ Exclusive(c) /\ Placeholder(c) /\ Travs(c) /\ Carried(c) /\ Closing(c)
  BY DEF Base, Unique, Exclusive, Placeholder, Travs, Carried, Closing, Alike
<1>3. (Off(b) <=> Off(c)) /\ (\A r : Live(b, r) <=> Live(c, r)) /\ (Idle(b) => Idle(c)) /\ (Owed(b) => Owed(c))
  BY DEF Off, NoReturn, Live, Idle, Owed, Alike
<1>4. Rolling(c) /\ (Spare(b) => Spare(c)) BY <1>3 DEF Base, Rolling, Spare, Alike
<1>5. Fair(b) => Fair(c) BY <1>3 DEF Fair, Alike
<1> QED BY <1>1, <1>2, <1>3, <1>4, <1>5 DEF Base

LEMMA RepairKeeps ==
  ASSUME NEW b, Base(b), NEW url \in Link
  PROVE  /\ Alike(b, RepairDisplayedTruth(b, url)) /\ RepairDisplayedTruth(b, url).shown = b.shown
         /\ Base(RepairDisplayedTruth(b, url))
         /\ (Spare(b) => Spare(RepairDisplayedTruth(b, url)))
         /\ (Fair(b) => Fair(RepairDisplayedTruth(b, url)))
         /\ (Off(b) => Off(RepairDisplayedTruth(b, url)))
         /\ (Owed(b) => Owed(RepairDisplayedTruth(b, url)))
<1>1. PICK id \in Nat : id = FreshEntry(b)
  <2>1. Typed(b) BY DEF Base
  <2> QED BY <2>1, FreshEntryIs
<1>2. PICK e \in Entry : e = [url |-> url, id |-> id] BY DEF Entry
<1>3. PICK c : c = RepairDisplayedTruth(b, url) OBVIOUS
<1>4. PICK s : s = [b.entries EXCEPT ![b.cur] = e] OBVIOUS
<1>5. b \in Page /\ b.cur \in DOMAIN b.entries /\ b.entries \in Seq(Entry) BY DEF Base, Typed, Page
<1>6. s \in Seq(Entry) /\ DOMAIN s = DOMAIN b.entries BY <1>4, <1>5
<1>7. c = [b EXCEPT !.entries = s, !.displayed = id, !.selected = id, !.truthUrl = url]
  BY <1>1, <1>2, <1>3, <1>4 DEF RepairDisplayedTruth
<1>8. c \in Page /\ c.cur \in DOMAIN c.entries BY <1>5, <1>6, <1>7 DEF Page
<1>9. Alike(b, c) /\ c.shown = b.shown BY <1>5, <1>7 DEF Alike, Page
<1> QED BY <1>3, <1>8, <1>9, AlikeKeeps

LEMMA SelectedKeeps ==
  ASSUME NEW b, Base(b), NEW url \in Link, NEW replace \in BOOLEAN
  PROVE  /\ Alike(b, Selected(b, url, replace)) /\ Selected(b, url, replace).shown = b.shown
         /\ Base(Selected(b, url, replace))
         /\ (Spare(b) => Spare(Selected(b, url, replace)))
         /\ (Fair(b) => Fair(Selected(b, url, replace)))
         /\ (Off(b) => Off(Selected(b, url, replace)))
         /\ (Owed(b) => Owed(Selected(b, url, replace)))
<1>1. PICK id \in Nat : id = FreshEntry(b)
  <2>1. Typed(b) BY DEF Base
  <2> QED BY <2>1, FreshEntryIs
<1>2. PICK c : c = Selected(b, url, replace) OBVIOUS
<1>3. b \in Page /\ b.cur \in DOMAIN b.entries /\ b.entries \in Seq(Entry) BY DEF Base, Typed, Page
<1>4. c \in Page /\ c.cur \in DOMAIN c.entries /\ Alike(b, c) /\ c.shown = b.shown
  <2>1. CASE replace
    <3>0. PICK x \in Entry : x = b.entries[b.cur] BY <1>3
    <3>1. PICK e \in Entry : e = [x EXCEPT !.url = url] BY DEF Entry
    <3>2. PICK s : s = [b.entries EXCEPT ![b.cur] = e] OBVIOUS
    <3>3. s \in Seq(Entry) /\ DOMAIN s = DOMAIN b.entries BY <1>3, <3>2
    <3>4. c = [b EXCEPT !.entries = s] BY <1>2, <2>1, <3>0, <3>1, <3>2, <1>3 DEF Selected
    <3> QED BY <1>3, <3>3, <3>4 DEF Page, Alike
  <2>2. CASE ~replace
    <3>1. PICK e \in Entry : e = [url |-> url, id |-> id] BY DEF Entry
    <3>2. PICK s : s = Append(SubSeq(b.entries, 1, b.cur), e) OBVIOUS
    <3>3. b.cur \in 1..Len(b.entries) BY <1>3
    <3>4. SubSeq(b.entries, 1, b.cur) \in Seq(Entry) /\ Len(SubSeq(b.entries, 1, b.cur)) = b.cur
      BY <1>3, <3>3
    <3>5. s \in Seq(Entry) /\ b.cur + 1 \in DOMAIN s BY <3>2, <3>3, <3>4
    <3>6. PICK k \in Nat : k = b.cur + 1 BY <3>3
    <3>7. c = [b EXCEPT !.entries = s, !.cur = k]
      <4>1. c = [b EXCEPT !.entries = s, !.cur = @ + 1] BY <1>1, <1>2, <2>2, <3>1, <3>2 DEF Selected
      <4> QED BY <1>3, <3>6, <4>1 DEF Page
    <3>8. c \in Page /\ c.cur = k /\ c.entries = s BY <1>3, <3>5, <3>7 DEF Page
    <3>9. Alike(b, c) /\ c.shown = b.shown BY <1>3, <3>7 DEF Page, Alike
    <3> QED BY <3>5, <3>6, <3>8, <3>9
  <2> QED BY <2>1, <2>2
<1> QED BY <1>2, <1>4, AlikeKeeps

LEMMA CommitKeeps ==
  ASSUME NEW b, Base(b), NEW url \in Link, NEW replace \in BOOLEAN, NEW version \in Nat
  PROVE  /\ Alike(b, Commit(b, url, replace, version))
         /\ Base(Commit(b, url, replace, version))
         /\ (Spare(b) => Spare(Commit(b, url, replace, version)))
         /\ (Fair(b) => Fair(Commit(b, url, replace, version)))
         /\ (Owed(b) => Owed(Commit(b, url, replace, version)))
<1>1. PICK s : s = Selected(b, url, replace) OBVIOUS
<1>2. PICK c : c = Commit(b, url, replace, version) OBVIOUS
<1>3. Base(s) /\ Alike(b, s) BY <1>1, SelectedKeeps
<1>4. s \in Page /\ s.cur \in DOMAIN s.entries BY <1>3 DEF Base, Typed
<1>5. PICK id \in Nat : id = Current(s).id
  <2>1. Typed(s) BY <1>3 DEF Base
  <2>2. Current(s) \in Entry BY <2>1, CurrentIs
  <2> QED BY <2>2 DEF Entry
<1>6. PICK h \in [url : Link, version : Nat] : h = [url |-> url, version |-> version] OBVIOUS
<1>7. c = [s EXCEPT !.shown = h, !.displayed = id, !.selected = id, !.truthUrl = url]
  BY <1>1, <1>2, <1>5, <1>6 DEF Commit
<1>8. c \in Page /\ c.cur \in DOMAIN c.entries BY <1>4, <1>7 DEF Page
<1>9. Alike(s, c) BY <1>4, <1>7 DEF Alike, Page
<1>10. Alike(b, c) BY <1>3, <1>9 DEF Alike
<1> QED BY <1>2, <1>8, <1>10, AlikeKeeps

LEMMA CloseTraversalKeeps ==
  ASSUME NEW b, Base(b)
  PROVE  /\ CloseTraversal(b) = [b EXCEPT !.traversal = FreshTraversal(b), !.traversing = FALSE, !.recovering = FALSE]
         /\ Base(CloseTraversal(b)) /\ Spare(CloseTraversal(b)) /\ (Fair(b) => Fair(CloseTraversal(b)))
         /\ (Off(b) => Off(CloseTraversal(b))) /\ (Owed(b) => Owed(CloseTraversal(b)))
<1>1. PICK t \in Nat : t = FreshTraversal(b) /\ \A r \in b.pushRecovery : r.trav # t
  <2>1. Typed(b) BY DEF Base
  <2> QED BY <2>1, FreshTraversalIs
<1>2. PICK c : c = CloseTraversal(b) OBVIOUS
<1>3. c = [b EXCEPT !.traversal = t, !.traversing = FALSE, !.recovering = FALSE] BY <1>1, <1>2 DEF CloseTraversal
<1>4. b \in Page BY DEF Base, Typed
<1>5. /\ c \in Page /\ c.traversal = t
      /\ c.ops = b.ops /\ c.timers = b.timers /\ c.active = b.active
      /\ c.entries = b.entries /\ c.cur = b.cur /\ c.carrier = b.carrier
      /\ c.mutationRecovery = b.mutationRecovery /\ c.pushRecovery = b.pushRecovery
      /\ c.supersession = b.supersession /\ c.life = b.life /\ c.departure = b.departure
      /\ c.observers = b.observers /\ c.prompted = b.prompted
      /\ c.jumps = b.jumps /\ c.lapsed = b.lapsed
  BY <1>3, <1>4 DEF Page
<1>6. Typed(c) BY <1>5 DEF Base, Typed
<1>7. Unique(c) /\ Exclusive(c) /\ Placeholder(c) /\ Travs(c) /\ Carried(c) /\ Closing(c)
  BY <1>5 DEF Base, Unique, Exclusive, Placeholder, Travs, Carried, Closing
<1>8. (Off(b) <=> Off(c)) /\ (Owed(b) => Owed(c)) BY <1>5 DEF Off, NoReturn, Owed
<1>9. Rolling(c) /\ Spare(c) BY <1>1, <1>5 DEF Rolling, Spare, Live
<1>10. Fair(b) => Fair(c) BY <1>5, <1>8 DEF Fair
<1>11. c = [b EXCEPT !.traversal = FreshTraversal(b), !.traversing = FALSE, !.recovering = FALSE] BY <1>1, <1>3
<1> QED BY <1>2, <1>6, <1>7, <1>8, <1>9, <1>10, <1>11 DEF Base

Observed(s, obs) == IF \E i \in DOMAIN s : s[i] = obs THEN s ELSE Append(s, obs)

LEMMA ObservedIs ==
  ASSUME NEW S, NEW s \in Seq(S), NEW obs \in S
  PROVE  Observed(s, obs) \in Seq(S) /\ Elements(Observed(s, obs)) = Elements(s) \cup {obs}
<1>1. CASE \E i \in DOMAIN s : s[i] = obs
  <2>1. Observed(s, obs) = s BY <1>1 DEF Observed
  <2>2. obs \in Elements(s) BY <1>1 DEF Elements
  <2> QED BY <2>1, <2>2
<1>2. CASE ~\E i \in DOMAIN s : s[i] = obs
  <2>1. PICK t : t = Append(s, obs) OBVIOUS
  <2>2. Observed(s, obs) = t BY <1>2, <2>1 DEF Observed
  <2>3. PICK n \in Nat : n = Len(s) OBVIOUS
  <2>4. /\ t \in Seq(S) /\ DOMAIN t = 1..(n + 1) /\ DOMAIN s = 1..n /\ t[n + 1] = obs
        /\ \A i \in 1..n : t[i] = s[i]
    BY <2>1, <2>3
  <2>5. Elements(t) = Elements(s) \cup {obs} BY <2>3, <2>4 DEF Elements
  <2> QED BY <2>2, <2>4, <2>5
<1> QED BY <1>1, <1>2

\* all but the observers and the departure is as it was
Undisturbed(b, c) ==
  /\ c.entries = b.entries /\ c.cur = b.cur /\ c.shown = b.shown /\ c.truthUrl = b.truthUrl
  /\ c.displayed = b.displayed /\ c.selected = b.selected
  /\ c.ops = b.ops /\ c.active = b.active /\ c.carrier = b.carrier
  /\ c.traversing = b.traversing /\ c.traversal = b.traversal /\ c.recovering = b.recovering
  /\ c.mutationRecovery = b.mutationRecovery /\ c.pushRecovery = b.pushRecovery
  /\ c.supersession = b.supersession /\ c.life = b.life /\ c.prompted = b.prompted
  /\ c.timers = b.timers /\ c.jumps = b.jumps /\ c.lapsed = b.lapsed /\ c.leaving = b.leaving

LEMMA ObserveKeeps ==
  ASSUME NEW b, Base(b), NEW obs \in ObserverRecord, obs.kind # "close"
  PROVE  /\ Undisturbed(b, Observe(b, obs)) /\ Observe(b, obs).departure = b.departure
         /\ Base(Observe(b, obs)) /\ (Spare(b) => Spare(Observe(b, obs))) /\ (Fair(b) => Fair(Observe(b, obs)))
         /\ (Off(b) => Off(Observe(b, obs))) /\ (Owed(b) => Owed(Observe(b, obs)))
<1>1. PICK s : s = Observed(b.observers, obs) OBVIOUS
<1>2. PICK c : c = Observe(b, obs) OBVIOUS
<1>3. b \in Page /\ b.observers \in Seq(ObserverRecord) BY DEF Base, Typed, Page
<1>4. c = [b EXCEPT !.observers = s] BY <1>1, <1>2 DEF Observe, Observed
<1>5. s \in Seq(ObserverRecord) /\ Elements(s) = Elements(b.observers) \cup {obs} BY <1>1, <1>3, ObservedIs
<1>6. c \in Page /\ Undisturbed(b, c) /\ c.departure = b.departure /\ c.observers = s
  BY <1>3, <1>4, <1>5 DEF Page, Undisturbed
<1>7. Typed(c) BY <1>6 DEF Base, Typed, Undisturbed
<1>8. Unique(c) /\ Exclusive(c) /\ Placeholder(c) /\ Travs(c) /\ Carried(c)
  BY <1>6 DEF Base, Unique, Exclusive, Placeholder, Travs, Carried, Undisturbed
<1>9. Closing(c) BY <1>5, <1>6 DEF Base, Closing
<1>10. (Off(b) => Off(c)) /\ (\A r : Live(b, r) <=> Live(c, r)) /\ (Idle(b) => Idle(c)) /\ (Owed(b) => Owed(c))
  BY <1>5, <1>6 DEF Off, NoReturn, Live, Idle, Owed, Undisturbed
<1>11. Rolling(c) /\ (Spare(b) => Spare(c)) BY <1>6, <1>10 DEF Base, Rolling, Spare, Undisturbed
<1>12. Fair(b) => Fair(c) BY <1>6, <1>10 DEF Fair, Undisturbed
<1> QED BY <1>2, <1>6, <1>7, <1>8, <1>9, <1>10, <1>11, <1>12 DEF Base

LEMMA DepartKeeps ==
  ASSUME NEW b, Base(b), Spare(b), NEW url \in Link
  PROVE  /\ Undisturbed(b, Depart(b, url)) /\ Depart(b, url).observers = b.observers
         /\ Base(Depart(b, url)) /\ Spare(Depart(b, url)) /\ (Fair(b) => Fair(Depart(b, url)))
         /\ (Off(b) => Off(Depart(b, url))) /\ (Owed(b) => Owed(Depart(b, url)))
<1>1. PICK c : c = Depart(b, url) OBVIOUS
<1>2. PICK d \in [url : Link, asked : BOOLEAN] : d = [url |-> url, asked |-> FALSE] OBVIOUS
<1>12. ~d.asked BY <1>2
<1>3. b \in Page BY DEF Base, Typed
<1>4. c = [b EXCEPT !.departure = {d}] BY <1>1, <1>2 DEF Depart
<1>5. c \in Page /\ Undisturbed(b, c) /\ c.departure = {d} /\ c.observers = b.observers
  BY <1>3, <1>4, ZenonT(60) DEF Page, Undisturbed
<1>6. Typed(c) BY <1>5 DEF Base, Typed, Undisturbed
<1>7. Unique(c) /\ Exclusive(c) /\ Placeholder(c) /\ Travs(c) /\ Carried(c)
  BY <1>5 DEF Base, Unique, Exclusive, Placeholder, Travs, Carried, Undisturbed
<1>8. Closing(c) BY <1>12, <1>5 DEF Closing
<1>9. (Off(b) <=> Off(c)) /\ (\A r : Live(b, r) <=> Live(c, r)) /\ (Owed(b) => Owed(c))
  BY <1>5 DEF Off, NoReturn, Live, Owed, Undisturbed
<1>10. Rolling(c) /\ Spare(c) BY <1>5, <1>9 DEF Rolling, Spare, Undisturbed
<1>11. Fair(b) => Fair(c) BY <1>5, <1>9 DEF Fair, Undisturbed
<1> QED BY <1>1, <1>5, <1>6, <1>7, <1>8, <1>9, <1>10, <1>11 DEF Base

LEMMA ObserverIs ==
  ASSUME NEW b, Typed(b), NEW kind \in {"fallback", "traversal", "staged", "close"}, NEW repair \in BOOLEAN,
         NEW trav \in Nat, NEW rec \in Link
  PROVE  Observer(b, kind, repair, trav, rec) \in ObserverRecord
         /\ Observer(b, kind, repair, trav, rec).kind = kind
         /\ Observer(b, kind, repair, trav, rec).rec = rec
<1>1. Href(b) \in Link BY CurrentIs
<1>2. b.truthUrl \in Link BY DEF Typed, Page
<1> QED BY <1>1, <1>2 DEF Observer, ObserverRecord

LEMMA FallbackKeeps ==
  ASSUME NEW b, Base(b), Spare(b), NEW url \in Link, NEW repair \in BOOLEAN, NEW rec \in Link
  PROVE  /\ Undisturbed(b, Fallback(b, url, repair, rec))
         /\ Base(Fallback(b, url, repair, rec)) /\ Spare(Fallback(b, url, repair, rec))
         /\ (Fair(b) => Fair(Fallback(b, url, repair, rec)))
         /\ (Off(b) => Off(Fallback(b, url, repair, rec))) /\ (Owed(b) => Owed(Fallback(b, url, repair, rec)))
<1>1. PICK obs \in ObserverRecord : obs = Observer(b, "fallback", repair, 0, rec) /\ obs.kind # "close"
  <2>1. Typed(b) BY DEF Base
  <2> QED BY <2>1, ObserverIs
<1>2. PICK a : a = Observe(b, obs) OBVIOUS
<1>3. /\ Undisturbed(b, a) /\ Base(a) /\ Spare(a)
      /\ (Fair(b) => Fair(a)) /\ (Off(b) => Off(a)) /\ (Owed(b) => Owed(a))
  BY <1>1, <1>2, ObserveKeeps
<1>4. Fallback(b, url, repair, rec) = Depart(a, url) BY <1>1, <1>2 DEF Fallback
<1>5. PICK c : c = Depart(a, url) OBVIOUS
<1>6. /\ Undisturbed(a, c) /\ Base(c) /\ Spare(c)
      /\ (Fair(a) => Fair(c)) /\ (Off(a) => Off(c)) /\ (Owed(a) => Owed(c))
  BY <1>3, <1>5, DepartKeeps
<1>7. Undisturbed(b, c) BY <1>3, <1>6 DEF Undisturbed
<1> QED BY <1>3, <1>4, <1>5, <1>6, <1>7

LEMMA BeginTraversalRecoveryKeeps ==
  ASSUME NEW b, Base(b), Spare(b), NEW rec \in Link
  PROVE  /\ Undisturbed(b, BeginTraversalRecovery(b, rec))
         /\ Base(BeginTraversalRecovery(b, rec)) /\ Spare(BeginTraversalRecovery(b, rec))
         /\ (Fair(b) => Fair(BeginTraversalRecovery(b, rec))) /\ (Off(b) => Off(BeginTraversalRecovery(b, rec)))
         /\ (Owed(b) => Owed(BeginTraversalRecovery(b, rec)))
<1>1. PICK obs \in ObserverRecord : obs = Observer(b, "traversal", TRUE, b.traversal, rec) /\ obs.kind # "close"
  <2>1. Typed(b) /\ b.traversal \in Nat BY DEF Base, Typed, Page
  <2> QED BY <2>1, ObserverIs, ZenonT(60)
<1>2. PICK a : a = Observe(b, obs) OBVIOUS
<1>3. /\ Undisturbed(b, a) /\ Base(a) /\ Spare(a)
      /\ (Fair(b) => Fair(a)) /\ (Off(b) => Off(a)) /\ (Owed(b) => Owed(a))
  BY <1>1, <1>2, ObserveKeeps
<1>4. PICK url \in Link : url = Href(b)
  <2>1. Typed(b) BY DEF Base
  <2> QED BY <2>1, CurrentIs
<1>5. BeginTraversalRecovery(b, rec) = Depart(a, url) BY <1>1, <1>2, <1>4 DEF BeginTraversalRecovery
<1>6. PICK c : c = Depart(a, url) OBVIOUS
<1>7. /\ Undisturbed(a, c) /\ Base(c) /\ Spare(c)
      /\ (Fair(a) => Fair(c)) /\ (Off(a) => Off(c)) /\ (Owed(a) => Owed(c))
  BY <1>3, <1>6, DepartKeeps
<1>8. Undisturbed(b, c) BY <1>3, <1>7 DEF Undisturbed
<1> QED BY <1>3, <1>5, <1>6, <1>7, <1>8

LEMMA ActiveIs ==
  ASSUME NEW b, Typed(b)
  PROVE  /\ Rec(b) \in Link
         /\ b.active = 0 => Active(b) = {} /\ Rec(b) = NoUrl /\ Kind(b) = "none"
         /\ \A o \in b.ops : Unique(b) /\ o.seq = b.active => Rec(b) = o.rec /\ Kind(b) = o.kind
<1>1. \A o \in b.ops : o.seq # 0 /\ o.rec \in Link BY DEF Typed, Page, Operation
<1>2. Rec(b) \in Link BY <1>1 DEF Rec, Active, Link
<1>3. b.active = 0 => Active(b) = {} BY <1>1 DEF Active
<1>4. ASSUME NEW o \in b.ops, Unique(b), o.seq = b.active PROVE Rec(b) = o.rec /\ Kind(b) = o.kind
  <2>1. Active(b) = {o} BY <1>4 DEF Active, Unique
  <2>2. (CHOOSE x \in Active(b) : TRUE) = o BY <2>1
  <2> QED BY <2>1, <2>2 DEF Rec, Kind
<1> QED BY <1>2, <1>3, <1>4 DEF Rec, Kind

LEMMA OpIs ==
  ASSUME server \in Nat, NEW b, Typed(b), NEW kind \in {"nav", "post", "wait", "idle", "held"}, NEW url \in Link,
         NEW replace \in BOOLEAN, NEW trav \in Nat, NEW rec \in Link
  PROVE  /\ Op(b, kind, url, replace, trav, rec) \in Operation
         /\ Op(b, kind, url, replace, trav, rec).seq = FreshSeq(b)
         /\ Op(b, kind, url, replace, trav, rec).kind = kind
         /\ Op(b, kind, url, replace, trav, rec).trav = trav
         /\ Op(b, kind, url, replace, trav, rec).rec = rec
         /\ ~Op(b, kind, url, replace, trav, rec).outdated
<1>1. Current(b) \in Entry /\ Href(b) \in Link BY CurrentIs
<1>2. FreshSeq(b) \in Nat \ {0} BY FreshSeqIs
<1> QED BY <1>1, <1>2 DEF Op, Operation

LEMMA StartKeeps ==
  ASSUME NEW b, Base(b), Spare(b), NEW o \in Operation, ~o.outdated, o.seq = FreshSeq(b),
         o.trav = 0 \/ b.pushRecovery = {}
  PROVE  /\ Carries(b, Begin(b, o)) /\ Begin(b, o).active = o.seq /\ o \in Begin(b, o).ops
         /\ Base(Begin(b, o)) /\ Spare(Begin(b, o)) /\ Fair(Begin(b, o))
         /\ (Off(b) => Off(Begin(b, o))) /\ (Owed(b) => Owed(Begin(b, o)))
<1>1. Typed(b) BY DEF Base
<1>2. o.seq # b.carrier /\ (\A q \in b.ops : q.seq # o.seq) /\ \A r \in b.pushRecovery : r.op # o.seq
  BY <1>1, FreshSeqIs
<1>3. \A r \in b.pushRecovery : o.trav # r.trav BY <1>1 DEF Typed, Page, PushRecovery
<1> QED BY <1>2, <1>3, BeginKeeps

LEMMA RecoverCommittedKeeps ==
  ASSUME server \in Nat, NEW b, Base(b), Spare(b), NEW url \in Link
  PROVE  /\ Carries(b, RecoverCommitted(b, url))
         /\ Base(RecoverCommitted(b, url)) /\ Spare(RecoverCommitted(b, url)) /\ Fair(RecoverCommitted(b, url))
         /\ (Off(b) => Off(RecoverCommitted(b, url))) /\ (Owed(b) => Owed(RecoverCommitted(b, url)))
<1>0. PICK yes \in BOOLEAN : yes = TRUE OBVIOUS
<1>1. PICK q : q = Op(b, "wait", url, yes, 0, url) OBVIOUS
<1>2. q \in Operation /\ q.seq = FreshSeq(b) /\ q.trav = 0 /\ ~q.outdated
  <2>1. Typed(b) BY DEF Base
  <2>2. yes \in BOOLEAN OBVIOUS
  <2> QED BY <1>1, <2>1, <2>2, OpIs
<1>3. PICK o : o = [q EXCEPT !.truth = url] OBVIOUS
<1>4. o \in Operation /\ o.seq = q.seq /\ o.trav = q.trav /\ o.outdated = q.outdated BY <1>2, <1>3 DEF Operation
<1>5. RecoverCommitted(b, url) = Begin(b, o) BY <1>0, <1>1, <1>3 DEF RecoverCommitted
<1> QED BY <1>2, <1>4, <1>5, StartKeeps

LEMMA ReleaseKeeps ==
  ASSUME NEW b, Base(b), Spare(b), NEW t \in BOOLEAN, NEW c, c = [b EXCEPT !.traversing = t]
  PROVE  /\ Base(c) /\ Spare(c) /\ (Fair(b) => Fair(c)) /\ (Off(b) => Off(c)) /\ (Owed(b) => Owed(c))
         /\ c.shown = b.shown
<1>1. b \in Page BY DEF Base, Typed
<1>2. /\ c \in Page /\ c.shown = b.shown
      /\ c.ops = b.ops /\ c.timers = b.timers /\ c.active = b.active /\ c.traversal = b.traversal
      /\ c.entries = b.entries /\ c.cur = b.cur /\ c.carrier = b.carrier
      /\ c.mutationRecovery = b.mutationRecovery /\ c.pushRecovery = b.pushRecovery
      /\ c.supersession = b.supersession /\ c.life = b.life /\ c.departure = b.departure
      /\ c.observers = b.observers /\ c.prompted = b.prompted
      /\ c.jumps = b.jumps /\ c.lapsed = b.lapsed
  BY <1>1 DEF Page
<1>3. Typed(c) BY <1>2 DEF Base, Typed
<1>4. Unique(c) /\ Exclusive(c) /\ Closing(c) BY <1>2 DEF Base, Unique, Exclusive, Closing
<1>5. (Off(b) <=> Off(c)) /\ (Owed(b) => Owed(c)) BY <1>2 DEF Off, NoReturn, Owed
<1>6. From(c.ops, b.ops) /\ NotOlder(c.ops, b.ops) BY <1>2 DEF Base, Unique, From, NotOlder
<1>7. Base(c) /\ Spare(c) BY <1>2, <1>3, <1>4, <1>5, <1>6, SpareKeeps
<1>8. Fair(b) => Fair(c) BY <1>2, <1>5 DEF Fair
<1> QED BY <1>2, <1>5, <1>7, <1>8

LEMMA NavigateKeeps ==
  ASSUME server \in Nat, NEW b, Base(b), Spare(b), NEW url \in Link, NEW replace \in BOOLEAN, NEW trav \in Nat,
         trav = 0 \/ b.pushRecovery = {}, NEW rec \in Link, NEW safe \in BOOLEAN
  PROVE  /\ Base(Navigate(b, url, replace, trav, rec, safe)) /\ Spare(Navigate(b, url, replace, trav, rec, safe))
         /\ Fair(b) \/ Kind(b) # "post" => Fair(Navigate(b, url, replace, trav, rec, safe))
         /\ (Off(b) => Off(Navigate(b, url, replace, trav, rec, safe)))
         /\ (Owed(b) => Owed(Navigate(b, url, replace, trav, rec, safe)))
         /\ Navigate(b, url, replace, trav, rec, safe).shown = b.shown
<1> DEFINE n == Navigate(b, url, replace, trav, rec, safe)
<1>0. Typed(b) BY DEF Base
<1>1. PICK h \in Link : h = IF rec # NoUrl THEN rec ELSE Rec(b) BY <1>0, ActiveIs
<1>2. CASE Kind(b) = "post"
  <2>1. n = b BY <1>2 DEF Navigate
  <2> QED BY <1>2, <2>1
<1>3. CASE Kind(b) # "post" /\ b.life # "closed" /\ safe
  <2>1. PICK o : o = Op(b, "nav", url, replace, trav, h) OBVIOUS
  <2>2. o \in Operation /\ o.seq = FreshSeq(b) /\ o.trav = trav /\ ~o.outdated BY <1>0, <2>1, OpIs
  <2>3. n = Begin(b, o) BY <1>1, <1>3, <2>1 DEF Navigate
  <2>4. PICK c : c = Begin(b, o) OBVIOUS
  <2>5. /\ Carries(b, c) /\ Base(c) /\ Spare(c) /\ Fair(c) /\ (Off(b) => Off(c)) /\ (Owed(b) => Owed(c))
    BY <2>2, <2>4, StartKeeps
  <2>6. c.shown = b.shown BY <2>5 DEF Carries
  <2> QED BY <2>3, <2>4, <2>5, <2>6
<1>4. CASE Kind(b) # "post" /\ ~(b.life # "closed" /\ safe)
  <2>1. PICK a : a = Abort(b) OBVIOUS
  <2>2. Base(a) /\ Spare(a) /\ Fair(a) /\ (Off(b) => Off(a)) /\ (Owed(b) => Owed(a)) /\ a = [b EXCEPT !.ops = Aborting(b)]
    BY <2>1, AbortKeeps
  <2>3. PICK yes \in BOOLEAN : yes = TRUE OBVIOUS
  <2>4. PICK f : f = Fallback(a, url, yes, h) OBVIOUS
  <2>5. /\ Undisturbed(a, f) /\ Base(f) /\ Spare(f) /\ (Fair(a) => Fair(f)) /\ (Off(a) => Off(f))
        /\ (Owed(a) => Owed(f))
    <3>1. yes \in BOOLEAN OBVIOUS
    <3> QED BY <2>2, <2>4, <3>1, FallbackKeeps
  <2>6. PICK t \in BOOLEAN : t = (f.traversing /\ (trav = 0 \/ trav # b.traversal \/ b.recovering)) OBVIOUS
  <2>7. PICK m : m = [f EXCEPT !.traversing = t] OBVIOUS
  <2>8. n = m BY <1>1, <1>4, <2>1, <2>3, <2>4, <2>6, <2>7 DEF Navigate
  <2>9. a.shown = b.shown /\ f.shown = a.shown BY <1>0, <2>2, <2>5 DEF Typed, Page, Undisturbed
  <2>10. /\ Base(m) /\ Spare(m) /\ (Fair(f) => Fair(m)) /\ (Off(f) => Off(m)) /\ (Owed(f) => Owed(m))
         /\ m.shown = f.shown
    <3>1. t \in BOOLEAN OBVIOUS
    <3> QED BY <2>5, <2>7, <3>1, ReleaseKeeps
  <2> HIDE DEF n
  <2>11. /\ Base(n) /\ Spare(n) /\ Fair(n) /\ (Off(b) => Off(n)) /\ (Owed(b) => Owed(n)) /\ n.shown = b.shown
    BY <2>2, <2>5, <2>8, <2>9, <2>10
  <2> QED BY <2>11 DEF n
<1> QED BY <1>2, <1>3, <1>4

\* all but the operations, who owns the page and whether it traverses is as it was
Others(b, c) ==
  /\ c.entries = b.entries /\ c.cur = b.cur /\ c.shown = b.shown /\ c.truthUrl = b.truthUrl
  /\ c.displayed = b.displayed /\ c.selected = b.selected /\ c.carrier = b.carrier
  /\ c.traversal = b.traversal /\ c.recovering = b.recovering
  /\ c.mutationRecovery = b.mutationRecovery /\ c.pushRecovery = b.pushRecovery
  /\ c.supersession = b.supersession /\ c.life = b.life /\ c.departure = b.departure
  /\ c.observers = b.observers /\ c.prompted = b.prompted /\ c.timers = b.timers
  /\ c.jumps = b.jumps /\ c.lapsed = b.lapsed /\ c.leaving = b.leaving

OthersOf(b, o) == {x \in b.ops : x.seq # o.seq}
Held(x) == [x EXCEPT !.kind = "held"]

LEMMA EndOpIs ==
  ASSUME NEW b, Typed(b), Unique(b), NEW o \in Operation
  PROVE  LET c == EndOp(b, o)
         IN  /\ Typed(c) /\ Unique(c) /\ Others(b, c) /\ From(c.ops, b.ops) /\ NotOlder(c.ops, b.ops)
             /\ c.active = (IF b.active = o.seq /\ b.carrier # o.seq THEN 0 ELSE b.active)
             /\ c.traversing = (b.traversing /\ (o.trav = 0 \/ o.trav # b.traversal \/ b.recovering))
<1> DEFINE R == OthersOf(b, o)
           D == b.ops \ R
           f == [x \in D |-> Held(x)]
           H == {f[x] : x \in D}
           X == IF b.carrier = o.seq THEN R \cup H ELSE R
<1>0. b \in Page /\ b.ops \subseteq Operation /\ IsFiniteSet(b.ops) BY DEF Typed, Page
<1>1. R \subseteq b.ops /\ IsFiniteSet(R) BY <1>0, FS_Subset DEF OthersOf
<1>2. IsFiniteSet(D) BY <1>0, FS_Subset
<1>3. \A x \in D : f[x] = Held(x) OBVIOUS
<1>4. H = {Held(x) : x \in D} OBVIOUS
<1>5. IsFiniteSet(H)
  <2> HIDE DEF f, D
  <2> QED BY <1>2, FiniteMap
<1>6. ASSUME NEW x \in D
      PROVE  /\ x \in b.ops /\ x.seq = o.seq /\ f[x] \in Operation /\ f[x].seq = x.seq /\ f[x].trav = x.trav
             /\ f[x].aborted = x.aborted /\ f[x].outdated = x.outdated /\ f[x].kind = "held"
  <2>1. x \in b.ops /\ x.seq = o.seq /\ x \in Operation BY <1>0 DEF OthersOf
  <2>2. f[x] = Held(x) BY <1>3
  <2> HIDE DEF f, D
  <2> QED BY <2>1, <2>2 DEF Held, Operation
<1>7. PICK Y : Y = X OBVIOUS
<1>8. IsFiniteSet(Y) /\ Y \subseteq R \cup H
  <2> HIDE DEF R, H
  <2>1. IsFiniteSet(R \cup H) BY <1>1, <1>5, FS_Union
  <2>2. Y \subseteq R \cup H BY <1>7
  <2> QED BY <2>1, <2>2, FS_Subset
<1>9. Y \in SUBSET Operation /\ From(Y, b.ops) /\ NotOlder(Y, b.ops)
  <2>1. \A y \in H : \E x \in D : y = f[x] OBVIOUS
  <2>2. \A y \in Y : y \in Operation /\ \E x \in b.ops : /\ y.seq = x.seq /\ y.trav = x.trav /\ y.aborted = x.aborted
                                     /\ y.outdated = x.outdated /\ (y.kind = x.kind \/ y.kind = "held")
    <3> SUFFICES ASSUME NEW y \in Y
                 PROVE  y \in Operation /\ \E x \in b.ops : /\ y.seq = x.seq /\ y.trav = x.trav /\ y.aborted = x.aborted
                                     /\ y.outdated = x.outdated /\ (y.kind = x.kind \/ y.kind = "held")
      OBVIOUS
    <3> HIDE DEF f, D, R, H, X
    <3>1. CASE y \in R BY <1>0, <1>1, <3>1
    <3>2. CASE y \in H
      <4>1. PICK x \in D : y = f[x] BY <2>1, <3>2
      <4> QED BY <1>6, <4>1
    <3> QED BY <1>8, <3>1, <3>2
  <2> QED BY <2>2 DEF From, NotOlder, Unique
<1>10. \A p, q \in Y : p.seq = q.seq => p = q
  <2>1. \A y \in H : \E x \in D : y = f[x] OBVIOUS
  <2>2. \A y \in R : y.seq # o.seq /\ y \in b.ops BY DEF OthersOf
  <2> HIDE DEF f, D, R, H, X
  <2>3. \A y \in H : y.seq = o.seq BY <1>6, <2>1
  <2>4. \A p, q \in H : p = q BY <1>6, <2>1 DEF Unique
  <2> QED BY <1>8, <2>2, <2>3, <2>4 DEF Unique
<1>11. PICK v \in Nat : v = IF b.active = o.seq /\ b.carrier # o.seq THEN 0 ELSE b.active BY <1>0 DEF Page
<1>12. PICK w \in BOOLEAN : w = (b.traversing /\ (o.trav = 0 \/ o.trav # b.traversal \/ b.recovering)) OBVIOUS
<1>13. PICK c : c = EndOp(b, o) OBVIOUS
<1>14. c = [b EXCEPT !.ops = Y, !.active = v, !.traversing = w]
  <2>1. (IF b.active = o.seq /\ ~(b.carrier = o.seq) THEN 0 ELSE b.active) = v BY <1>11
  <2>2. Y = IF b.carrier = o.seq
            THEN {x \in b.ops : x.seq # o.seq} \cup {[x EXCEPT !.kind = "held"] : x \in b.ops \ {x \in b.ops : x.seq # o.seq}}
            ELSE {x \in b.ops : x.seq # o.seq}
    BY <1>4, <1>7 DEF OthersOf, Held
  <2> HIDE DEF R, D, H, X, f
  <2> QED BY <1>12, <1>13, <2>1, <2>2 DEF EndOp
<1> HIDE DEF R, D, H, X, f
<1>15. c \in Page /\ Others(b, c) /\ c.ops = Y /\ c.active = v /\ c.traversing = w
  <2>1. v \in Nat /\ w \in BOOLEAN OBVIOUS
  <2> QED BY <1>0, <1>9, <1>14, <2>1 DEF Page, Others
<1>16. Typed(c) /\ Unique(c) BY <1>8, <1>10, <1>15 DEF Typed, Unique, Others
<1> QED BY <1>9, <1>11, <1>12, <1>13, <1>15, <1>16

LEMMA EndOpKeeps ==
  ASSUME NEW b, Base(b), NEW o \in Operation, \A r \in b.pushRecovery : Live(b, r) => o.trav # b.traversal
  PROVE  /\ Base(EndOp(b, o)) /\ (Spare(b) => Spare(EndOp(b, o))) /\ (Fair(b) => Fair(EndOp(b, o)))
         /\ (Off(b) => Off(EndOp(b, o))) /\ (Owed(b) => Owed(EndOp(b, o))) /\ EndOp(b, o).shown = b.shown
<1>1. PICK c : c = EndOp(b, o) OBVIOUS
<1>2. /\ Typed(c) /\ Unique(c) /\ Others(b, c) /\ From(c.ops, b.ops) /\ NotOlder(c.ops, b.ops)
      /\ c.active = (IF b.active = o.seq /\ b.carrier # o.seq THEN 0 ELSE b.active)
      /\ c.traversing = (b.traversing /\ (o.trav = 0 \/ o.trav # b.traversal \/ b.recovering))
  <2>1. Typed(b) /\ Unique(b) BY DEF Base
  <2> QED BY <1>1, <2>1, EndOpIs
<1>3. (Off(b) <=> Off(c)) /\ (Owed(b) => Owed(c)) /\ (\A r : Live(b, r) <=> Live(c, r))
  BY <1>2 DEF Off, NoReturn, Owed, Live, Others
<1>4. Exclusive(c) /\ Closing(c) BY <1>2 DEF Base, Exclusive, Closing, Others
<1>5. Placeholder(c) /\ Travs(c) /\ Carried(c)
  BY <1>2 DEF Base, Placeholder, Travs, Carried, From, Others
<1>6. Rolling(c)
  <2> SUFFICES ASSUME NEW r \in c.pushRecovery, Live(c, r) PROVE Off(c) \/ Idle(c) BY DEF Rolling
  <2>1. r \in b.pushRecovery /\ Live(b, r) BY <1>2, <1>3 DEF Others
  <2>2. CASE Off(b) BY <1>3, <2>2
  <2>3. CASE Idle(b)
    <3>1. o.trav # b.traversal BY <2>1
    <3>2. c.active = 0 /\ c.traversing BY <1>2, <2>3, <3>1 DEF Idle
    <3> QED BY <1>2, <2>3, <3>2 DEF Idle, Others
  <2> QED BY <2>1, <2>2, <2>3 DEF Base, Rolling
<1>7. Spare(b) => Spare(c) BY <1>2, <1>3 DEF Spare, Others
<1>8. Fair(b) => Fair(c)
  <2> SUFFICES ASSUME Fair(b) PROVE Fair(c) OBVIOUS
  <2>1. c.active \in {0, b.active} BY <1>2
  <2> QED BY <1>2, <1>3, <2>1, FairKeeps
<1>9. c.shown = b.shown BY <1>2 DEF Others
<1> QED BY <1>1, <1>2, <1>3, <1>4, <1>5, <1>6, <1>7, <1>8, <1>9 DEF Base

\* nothing but delayed traversals is to come
Waiting(b) ==
  /\ b.prompted = <<>> /\ (\A d \in b.departure : d.asked)
  /\ b.jumps = <<>> /\ (\A t \in b.timers : t.kind = "traversal")

\* the page that has asked for a rollback
Pushed(b, url, truth, rec, trav, op, entry) ==
  [b EXCEPT !.traversal = trav, !.traversing = TRUE, !.recovering = FALSE,
     !.pushRecovery = {[url |-> url, truth |-> truth, rec |-> rec, trav |-> trav, op |-> op, entry |-> entry]},
     !.jumps = Append(@, -1)]

\* what asking for a rollback leaves alone
Departs(b, c, trav, op) ==
  /\ c.ops = b.ops /\ c.active = b.active /\ c.carrier = b.carrier /\ c.traversing /\ ~c.recovering
  /\ c.traversal = trav /\ (\A r \in c.pushRecovery : r.trav = trav /\ r.op = op)
  /\ c.mutationRecovery = b.mutationRecovery /\ c.supersession = b.supersession /\ c.life = b.life
  /\ c.departure = b.departure /\ c.observers = b.observers /\ c.prompted = b.prompted
  /\ c.timers = b.timers /\ c.lapsed = b.lapsed /\ c.shown = b.shown
  /\ (1 \in Elements(b.jumps) => 1 \in Elements(c.jumps))

\* the same with its parts named, and what it looks like
Rewritten(b, trav, yes, no, r, j) ==
  [b EXCEPT !.traversal = trav, !.traversing = yes, !.recovering = no, !.pushRecovery = {r}, !.jumps = j]
RewrittenTo(b, c, trav, yes, no, r, j) ==
  /\ c \in Page
  /\ c.ops = b.ops /\ c.active = b.active /\ c.carrier = b.carrier /\ c.traversing = yes /\ c.recovering = no
  /\ c.traversal = trav /\ c.pushRecovery = {r} /\ c.entries = b.entries /\ c.cur = b.cur
  /\ c.mutationRecovery = b.mutationRecovery /\ c.supersession = b.supersession /\ c.life = b.life
  /\ c.departure = b.departure /\ c.observers = b.observers /\ c.prompted = b.prompted
  /\ c.timers = b.timers /\ c.lapsed = b.lapsed /\ c.shown = b.shown /\ c.jumps = j

LEMMA RewrittenIs ==
  ASSUME NEW b \in Page, NEW trav \in Nat, NEW r \in PushRecovery, NEW j \in Seq({1, -1}),
         NEW yes \in BOOLEAN, NEW no \in BOOLEAN
  PROVE  RewrittenTo(b, Rewritten(b, trav, yes, no, r, j), trav, yes, no, r, j)
<1>1. PICK c : c = Rewritten(b, trav, yes, no, r, j) OBVIOUS
<1>2. RewrittenTo(b, c, trav, yes, no, r, j) BY <1>1, ZenonT(60) DEF Page, Rewritten, RewrittenTo
<1> QED BY <1>1, <1>2

LEMMA PushIs ==
  ASSUME NEW b, Typed(b), NEW url \in Link, NEW truth \in Link, NEW rec \in Link, NEW trav \in Nat \ {0},
         NEW op \in Nat, NEW entry \in Nat, NEW c, c = Pushed(b, url, truth, rec, trav, op, entry)
  PROVE  Typed(c) /\ Departs(b, c, trav, op)
<1>1. b \in Page /\ b.jumps \in Seq({1, -1}) BY DEF Typed, Page
<1>2. PICK r \in PushRecovery : r = [url |-> url, truth |-> truth, rec |-> rec, trav |-> trav,
                                     op |-> op, entry |-> entry]
  BY DEF PushRecovery
<1>3. PICK j : j = Append(b.jumps, -1) OBVIOUS
<1>4. j \in Seq({1, -1}) /\ \A i \in DOMAIN b.jumps : i \in DOMAIN j /\ j[i] = b.jumps[i] BY <1>1, <1>3
<1>5. PICK yes \in BOOLEAN, no \in BOOLEAN : yes = TRUE /\ no = FALSE OBVIOUS
<1>6. c = Rewritten(b, trav, yes, no, r, j) BY <1>1, <1>2, <1>3, <1>5 DEF Page, Pushed, Rewritten
<1>7. r.trav = trav /\ r.op = op BY <1>2
<1>8. RewrittenTo(b, c, trav, yes, no, r, j)
  <2>1. yes \in BOOLEAN /\ no \in BOOLEAN /\ j \in Seq({1, -1}) /\ trav \in Nat BY <1>4
  <2> QED BY <1>1, <1>6, <2>1, RewrittenIs
<1>9. Typed(c)
  <2>1. IsFiniteSet({r}) BY FS_Singleton
  <2> QED BY <1>8, <2>1 DEF Typed, RewrittenTo
<1>10. 1 \in Elements(b.jumps) => 1 \in Elements(c.jumps) BY <1>4, <1>8 DEF Elements, RewrittenTo
<1>11. Departs(b, c, trav, op) BY <1>5, <1>7, <1>8, <1>10 DEF Departs, RewrittenTo
<1> QED BY <1>9, <1>11

LEMMA PushKeeps ==
  ASSUME server \in Nat, NEW b, Base(b), Spare(b), Owed(b), Waiting(b),
         NEW o \in b.ops, o.seq = b.active, ~o.aborted, NEW url \in Link, NEW rec \in Link
  PROVE  /\ Base(EndOp(RecoverSelectedPush(b, url, rec), o))
         /\ Fair(EndOp(RecoverSelectedPush(b, url, rec), o))
         /\ Owed(EndOp(RecoverSelectedPush(b, url, rec), o))
         /\ EndOp(RecoverSelectedPush(b, url, rec), o).shown = b.shown
<1>1. PICK x : x = RecoverSelectedPush(b, url, rec) OBVIOUS
<1>2. PICK c : c = EndOp(x, o) OBVIOUS
<1>3. Typed(b) /\ Unique(b) /\ b \in Page /\ o \in Operation /\ b.displayed \in Nat /\ b.truthUrl \in Link
  BY DEF Base, Typed, Page
<1>4. o.seq # b.carrier /\ o.seq # 0 BY <1>3 DEF Base, Carried, Operation
<1>7. PICK u \in Link, d \in Nat : u = b.truthUrl /\ d = b.displayed BY <1>3
<1>5. CASE rec = NoUrl
  <2>0. PICK z \in Nat : z = 0 OBVIOUS
  <2>1. PICK t \in Nat \ {0} : t = FreshTraversal(b) /\ \A q \in b.ops : q.trav # t BY <1>3, FreshTraversalIs
  <2>2. x = Pushed(b, url, u, rec, t, z, d)
    BY <1>1, <1>5, <1>7, <2>0, <2>1 DEF RecoverSelectedPush, Pushed
  <2>3. /\ Typed(x)
        /\ x.ops = b.ops /\ x.active = b.active /\ x.carrier = b.carrier /\ x.traversing /\ ~x.recovering
        /\ x.traversal = t /\ (\A r \in x.pushRecovery : r.trav = t /\ r.op = 0)
        /\ x.mutationRecovery = b.mutationRecovery /\ x.supersession = b.supersession /\ x.life = b.life
        /\ x.departure = b.departure /\ x.observers = b.observers /\ x.prompted = b.prompted
        /\ x.timers = b.timers /\ x.lapsed = b.lapsed /\ x.shown = b.shown
    <3>1. z \in Nat /\ u \in Link /\ d \in Nat /\ t \in Nat \ {0} OBVIOUS
    <3>2. Typed(x) /\ Departs(b, x, t, z) BY <1>3, <2>2, <3>1, PushIs
    <3> QED BY <2>0, <3>2 DEF Departs
  <2>4. Unique(x) BY <1>3, <2>3 DEF Unique
  <2>5. /\ Typed(c) /\ Unique(c) /\ Others(x, c) /\ From(c.ops, x.ops)
        /\ c.active = (IF x.active = o.seq /\ x.carrier # o.seq THEN 0 ELSE x.active)
        /\ c.traversing = (x.traversing /\ (o.trav = 0 \/ o.trav # x.traversal \/ x.recovering))
    BY <1>2, <1>3, <2>3, <2>4, EndOpIs
  <2>6. c.active = 0 /\ c.traversing BY <1>4, <2>1, <2>3, <2>5
  <2>7. \A q \in c.ops : q.seq # 0 BY <2>5 DEF Typed, Page, Operation
  <2>8. Exclusive(c) /\ Closing(c) BY <2>3, <2>5 DEF Base, Exclusive, Closing, Others
  <2>9. Placeholder(c) /\ Travs(c) /\ Carried(c)
    BY <2>1, <2>3, <2>5, <2>7 DEF Base, Carried, Placeholder, Travs, From, Others
  <2>10. Fair(c) BY <2>6, <2>7 DEF Fair
  <2>11. (Off(b) <=> Off(c)) BY <2>3, <2>5 DEF Off, NoReturn, Others
  <2>12. Off(b) \/ (b.life = "active" /\ b.mutationRecovery = {})
    <3>1. b.life \in {"active", "closing", "closed"} BY <1>3 DEF Page
    <3>2. b.life = "closing" => NoReturn(b)
      <4>1. Elements(b.prompted) = {} BY DEF Waiting, Elements
      <4>2. \A y \in Elements(b.observers) : y.kind # "close" BY DEF Base, Closing, Waiting
      <4> QED BY <4>1, <4>2 DEF NoReturn
    <3>3. Elements(b.jumps) = {} BY DEF Waiting, Elements
    <3>4. Off(b) \/ b.mutationRecovery = {} BY <3>3 DEF Owed, Off, Waiting
    <3> QED BY <3>1, <3>2, <3>4 DEF Off
  <2>13. Off(c) \/ Idle(c)
    <3>1. CASE Off(b) BY <2>11, <3>1
    <3>2. CASE b.life = "active" /\ b.mutationRecovery = {}
      <4>1. /\ c.life = b.life /\ c.mutationRecovery = b.mutationRecovery /\ c.timers = b.timers
            /\ c.prompted = b.prompted /\ c.departure = b.departure /\ ~c.recovering
        BY <2>3, <2>5 DEF Others
      <4> QED BY <2>6, <3>2, <4>1 DEF Idle, Waiting
    <3> QED BY <2>12, <3>1, <3>2
  <2>14. Owed(c)
    <3>1. b.lapsed \/ b.life = "closed" \/ b.mutationRecovery = {}
      <4>1. Elements(b.jumps) = {} BY DEF Waiting, Elements
      <4> QED BY <4>1 DEF Owed, Waiting
    <3>2. c.lapsed = b.lapsed /\ c.life = b.life /\ c.mutationRecovery = b.mutationRecovery
      BY <2>3, <2>5 DEF Others
    <3> QED BY <3>1, <3>2 DEF Owed
  <2>15. Rolling(c) BY <2>13 DEF Rolling
  <2>16. c.shown = b.shown BY <2>3, <2>5 DEF Others
  <2> QED BY <1>1, <1>2, <2>5, <2>8, <2>9, <2>10, <2>14, <2>15, <2>16 DEF Base
<1>6. CASE rec # NoUrl
  <2>0. PICK no \in BOOLEAN : no = FALSE OBVIOUS
  <2>1. PICK p : p = Op(b, "idle", url, no, 0, rec) OBVIOUS
  <2>2. p \in Operation /\ p.seq = FreshSeq(b) /\ p.trav = 0 /\ p.kind = "idle" /\ ~p.outdated
    <3>1. no \in BOOLEAN OBVIOUS
    <3> QED BY <1>3, <2>1, <3>1, OpIs
  <2>3. PICK a : a = Begin(b, p) OBVIOUS
  <2>4. /\ Carries(b, a) /\ a.active = p.seq /\ p \in a.ops
        /\ Base(a) /\ Spare(a) /\ Fair(a) /\ (Off(b) => Off(a)) /\ (Owed(b) => Owed(a))
    BY <2>2, <2>3, StartKeeps
  <2>5. Typed(a) /\ Unique(a) BY <2>4 DEF Base
  <2>6. PICK t \in Nat \ {0} : t = FreshTraversal(a) /\ \A q \in a.ops : q.trav # t BY <2>5, FreshTraversalIs
  <2>7. PICK i \in Nat \ {0} : i = p.seq BY <2>2 DEF Operation
  <2>8. x = Pushed(a, url, u, rec, t, i, d)
    BY <1>1, <1>6, <1>7, <2>0, <2>1, <2>3, <2>6, <2>7 DEF RecoverSelectedPush, Pushed
  <2>9. /\ Typed(x)
        /\ x.ops = a.ops /\ x.active = a.active /\ x.carrier = a.carrier /\ x.traversing /\ ~x.recovering
        /\ x.traversal = t /\ (\A r \in x.pushRecovery : r.trav = t /\ r.op = i)
        /\ x.mutationRecovery = a.mutationRecovery /\ x.supersession = a.supersession /\ x.life = a.life
        /\ x.departure = a.departure /\ x.observers = a.observers /\ x.prompted = a.prompted
        /\ x.timers = a.timers /\ x.lapsed = a.lapsed /\ x.shown = a.shown
        /\ (1 \in Elements(a.jumps) => 1 \in Elements(x.jumps))
    <3>1. i \in Nat /\ u \in Link /\ d \in Nat /\ t \in Nat \ {0} OBVIOUS
    <3>2. Typed(x) /\ Departs(a, x, t, i) BY <2>5, <2>8, <3>1, PushIs
    <3> QED BY <3>2 DEF Departs
  <2>10. Unique(x) BY <2>5, <2>9 DEF Unique
  <2>11. Exclusive(x) /\ Closing(x) /\ Carried(x) BY <2>4, <2>9 DEF Base, Exclusive, Closing, Carried
  <2>12. Placeholder(x) /\ Travs(x)
    BY <2>2, <2>4, <2>5, <2>6, <2>7, <2>9 DEF Placeholder, Travs, Unique
  <2>13. \A r \in x.pushRecovery : ~Live(x, r) BY <2>9 DEF Live
  <2>14. Base(x) BY <2>9, <2>10, <2>11, <2>12, <2>13 DEF Base, Rolling
  <2>15. Fair(x) BY <2>4, <2>9 DEF Fair, Off, NoReturn
  <2>16. Owed(x) BY <2>4, <2>9 DEF Owed
  <2>17. Base(c) /\ Fair(c) /\ Owed(c) /\ c.shown = x.shown
    BY <1>2, <1>3, <2>13, <2>14, <2>15, <2>16, EndOpKeeps
  <2>18. c.shown = b.shown BY <2>4, <2>9, <2>17 DEF Carries
  <2> QED BY <1>1, <1>2, <2>17, <2>18
<1> QED BY <1>5, <1>6

LEMMA OwnEndKeeps ==
  ASSUME NEW b, Base(b), NEW o \in b.ops
  PROVE  /\ Base(EndOp(b, o)) /\ (Spare(b) => Spare(EndOp(b, o))) /\ (Fair(b) => Fair(EndOp(b, o)))
         /\ (Off(b) => Off(EndOp(b, o))) /\ (Owed(b) => Owed(EndOp(b, o))) /\ EndOp(b, o).shown = b.shown
<1>1. o \in Operation BY DEF Base, Typed, Page
<1>2. \A r \in b.pushRecovery : Live(b, r) => o.trav # b.traversal BY DEF Base, Travs, Live
<1> QED BY <1>1, <1>2, EndOpKeeps

\* a native load that ends the operation
LEMMA FallbackEndKeeps ==
  ASSUME NEW b, Sound(b), Spare(b), NEW o \in b.ops, NEW url \in Link, NEW repair \in BOOLEAN, NEW rec \in Link
  PROVE  Sound(EndOp(Fallback(b, url, repair, rec), o)) /\ EndOp(Fallback(b, url, repair, rec), o).shown = b.shown
<1>1. PICK f : f = Fallback(b, url, repair, rec) OBVIOUS
<1>2. /\ Undisturbed(b, f) /\ Base(f) /\ Spare(f)
      /\ (Fair(b) => Fair(f)) /\ (Off(b) => Off(f)) /\ (Owed(b) => Owed(f))
  BY <1>1, FallbackKeeps DEF Sound
<1>3. o \in f.ops /\ f.shown = b.shown BY <1>2 DEF Undisturbed
<1>4. Base(EndOp(f, o)) /\ Fair(EndOp(f, o)) /\ Owed(EndOp(f, o)) /\ EndOp(f, o).shown = f.shown
  BY <1>2, <1>3, OwnEndKeeps DEF Sound
<1> QED BY <1>1, <1>3, <1>4 DEF Sound

LEMMA CommitFailsKeeps ==
  ASSUME server \in Nat, NEW b, Sound(b), Spare(b), Waiting(b),
         NEW o \in b.ops, o.seq = b.active, ~o.aborted, o.kind \in {"nav", "post"}
  PROVE  Sound(EndOp(CommitFails(b, o), o)) /\ EndOp(CommitFails(b, o), o).shown = b.shown
<1>0. Base(b) /\ b \in Page /\ o \in Operation BY DEF Sound, Base, Typed, Page
<1>1. o.url \in Link /\ o.truth \in Link /\ o.rec \in Link /\ o.replace \in BOOLEAN BY <1>0 DEF Operation
<1>2. PICK yes \in BOOLEAN, no \in BOOLEAN : yes = TRUE /\ no = FALSE OBVIOUS
<1>3. yes \in BOOLEAN /\ no \in BOOLEAN OBVIOUS
<1>4. ASSUME NEW s, Alike(b, s), s.shown = b.shown, Base(s), Spare(s), Fair(s), Owed(s)
      PROVE  Sound(s) /\ Waiting(s) /\ o \in s.ops /\ o.seq = s.active
  BY <1>4 DEF Alike, Waiting, Sound
<1>5. CASE o.kind = "post"
  <2>1. PICK s : s = Selected(b, o.truth, no) OBVIOUS
  <2>2. Alike(b, s) /\ s.shown = b.shown /\ Base(s) /\ Spare(s) /\ Fair(s) /\ Owed(s)
    BY <1>0, <1>1, <1>3, <2>1, SelectedKeeps DEF Sound
  <2>3. Sound(s) /\ o \in s.ops BY <1>4, <2>2
  <2>4. CommitFails(b, o) = Fallback(s, o.truth, yes, o.truth) BY <1>2, <1>5, <2>1 DEF CommitFails
  <2>5. Sound(EndOp(Fallback(s, o.truth, yes, o.truth), o)) /\ EndOp(Fallback(s, o.truth, yes, o.truth), o).shown = s.shown
    BY <1>1, <1>3, <2>2, <2>3, FallbackEndKeeps
  <2> QED BY <2>2, <2>4, <2>5
<1>6. CASE o.kind = "nav" /\ o.replace
  <2>1. PICK s : s = Selected(b, o.url, o.replace) OBVIOUS
  <2>2. Alike(b, s) /\ s.shown = b.shown /\ Base(s) /\ Spare(s) /\ Fair(s) /\ Owed(s)
    BY <1>0, <1>1, <2>1, SelectedKeeps DEF Sound
  <2>3. Sound(s) /\ o \in s.ops BY <1>4, <2>2
  <2>4. CommitFails(b, o) = Fallback(s, o.url, yes, o.rec) BY <1>2, <1>6, <2>1 DEF CommitFails
  <2>5. Sound(EndOp(Fallback(s, o.url, yes, o.rec), o)) /\ EndOp(Fallback(s, o.url, yes, o.rec), o).shown = s.shown
    BY <1>1, <1>3, <2>2, <2>3, FallbackEndKeeps
  <2> QED BY <2>2, <2>4, <2>5
<1>7. CASE o.kind = "nav" /\ ~o.replace
  <2>1. PICK s : s = Selected(b, o.url, o.replace) OBVIOUS
  <2>2. Alike(b, s) /\ s.shown = b.shown /\ Base(s) /\ Spare(s) /\ Fair(s) /\ Owed(s)
    BY <1>0, <1>1, <2>1, SelectedKeeps DEF Sound
  <2>3. Waiting(s) /\ o \in s.ops /\ o.seq = s.active BY <1>4, <2>2
  <2>4. CommitFails(b, o) = RecoverSelectedPush(s, o.url, o.rec) BY <1>7, <2>1 DEF CommitFails
  <2>5. PICK c : c = EndOp(RecoverSelectedPush(s, o.url, o.rec), o) OBVIOUS
  <2>6. Base(c) /\ Fair(c) /\ Owed(c) /\ c.shown = s.shown
    BY <1>1, <2>2, <2>3, <2>5, PushKeeps
  <2> QED BY <2>2, <2>4, <2>5, <2>6 DEF Sound
<1> QED BY <1>5, <1>6, <1>7

\* exempting more states disturbs nothing
LEMMA LapseKeeps ==
  ASSUME NEW b, Base(b), NEW l \in BOOLEAN, NEW c, c = [b EXCEPT !.lapsed = l], b.lapsed => l
  PROVE  /\ Base(c) /\ (Spare(b) => Spare(c)) /\ (Fair(b) => Fair(c)) /\ (Off(b) => Off(c))
         /\ (Owed(b) => Owed(c)) /\ (l => Sound(c) /\ Off(c)) /\ c.shown = b.shown
<1>1. b \in Page BY DEF Base, Typed
<1>2. /\ c \in Page /\ c.shown = b.shown /\ c.lapsed = l
      /\ c.ops = b.ops /\ c.timers = b.timers /\ c.active = b.active /\ c.traversal = b.traversal
      /\ c.entries = b.entries /\ c.cur = b.cur /\ c.carrier = b.carrier
      /\ c.traversing = b.traversing /\ c.recovering = b.recovering
      /\ c.mutationRecovery = b.mutationRecovery /\ c.pushRecovery = b.pushRecovery
      /\ c.supersession = b.supersession /\ c.life = b.life /\ c.departure = b.departure
      /\ c.observers = b.observers /\ c.prompted = b.prompted /\ c.jumps = b.jumps
  BY <1>1 DEF Page
<1>3. Typed(c) BY <1>2 DEF Base, Typed
<1>4. Unique(c) /\ Exclusive(c) /\ Placeholder(c) /\ Travs(c) /\ Carried(c) /\ Closing(c)
  BY <1>2 DEF Base, Unique, Exclusive, Placeholder, Travs, Carried, Closing
<1>5. (Off(b) => Off(c)) /\ (\A r : Live(b, r) <=> Live(c, r)) /\ (Idle(b) => Idle(c)) /\ (Owed(b) => Owed(c))
  BY <1>2 DEF Off, NoReturn, Live, Idle, Owed
<1>6. Rolling(c) /\ (Spare(b) => Spare(c)) BY <1>2, <1>5 DEF Base, Rolling, Spare
<1>7. Fair(b) => Fair(c) BY <1>2, <1>5 DEF Fair
<1>8. l => Off(c) /\ Fair(c) /\ Owed(c) BY <1>2 DEF Off, Fair, Owed
<1> QED BY <1>2, <1>3, <1>4, <1>5, <1>6, <1>7, <1>8 DEF Base, Sound

\* the common part of the native activations: nothing of the runtime is under way any more
LEMMA SpareUnlessIdle ==
  ASSUME NEW b, Base(b), ~Idle(b)
  PROVE  Spare(b)
BY DEF Base, Rolling, Spare

LEMMA SupersededKeeps ==
  ASSUME NEW b, Base(b)
  PROVE  /\ Base(Superseded(b)) /\ Spare(Superseded(b)) /\ Fair(Superseded(b))
         /\ (Off(b) => Off(Superseded(b))) /\ (Owed(b) => Owed(Superseded(b)))
         /\ Superseded(b).shown = b.shown /\ Superseded(b).prompted = b.prompted
         /\ Superseded(b).departure = b.departure /\ Superseded(b).life = b.life /\ Superseded(b).active = b.active
         /\ \A o \in Superseded(b).ops : o.seq = Superseded(b).active => o.aborted
<1>1. PICK u : u = Abort(b) OBVIOUS
<1>2. /\ u = [b EXCEPT !.ops = Aborting(b)] /\ Base(u) /\ Fair(u) /\ (Spare(b) => Spare(u))
      /\ (Off(b) => Off(u)) /\ (Owed(b) => Owed(u)) /\ \A o \in u.ops : o.seq = b.active => o.aborted
  BY <1>1, AbortKeeps
<1>3. b \in Page /\ u \in Page BY <1>2 DEF Base, Typed
<1>4. PICK l \in BOOLEAN : l = (u.lapsed \/ Drops(b)) OBVIOUS
<1>5. PICK a : a = [u EXCEPT !.lapsed = l] OBVIOUS
<1>6. /\ Base(a) /\ (Spare(u) => Spare(a)) /\ Fair(a) /\ (Off(u) => Off(a)) /\ (Owed(u) => Owed(a)) /\ a.shown = u.shown
  <2>1. l \in BOOLEAN OBVIOUS
  <2> QED BY <1>2, <1>4, <1>5, <2>1, LapseKeeps
<1>7. /\ u.active = b.active /\ u.prompted = b.prompted /\ u.departure = b.departure /\ u.life = b.life
      /\ u.shown = b.shown /\ u.traversing = b.traversing /\ u.truthUrl = b.truthUrl
  BY <1>2, <1>3 DEF Page
<1>8. /\ a.ops = u.ops /\ a.active = b.active /\ a.prompted = b.prompted /\ a.departure = b.departure /\ a.life = b.life
      /\ a.shown = b.shown /\ a.traversing = b.traversing /\ a.truthUrl = b.truthUrl
  BY <1>3, <1>5, <1>7 DEF Page
<1>9. PICK c : c = Superseded(b) OBVIOUS
<1>10. c = IF b.traversing THEN RepairDisplayedTruth(CloseTraversal(a), b.truthUrl) ELSE a
  <2>1. [Abort(b) EXCEPT !.lapsed = @ \/ Drops(b)] = a BY <1>1, <1>3, <1>4, <1>5 DEF Page
  <2> QED BY <1>9, <2>1 DEF Superseded
<1>11. CASE ~b.traversing
  <2>1. Spare(b) BY <1>11, SpareUnlessIdle DEF Idle
  <2> QED BY <1>2, <1>6, <1>8, <1>9, <1>10, <1>11, <2>1
<1>12. CASE b.traversing
  <2>1. PICK d : d = CloseTraversal(a) OBVIOUS
  <2>2. /\ d = [a EXCEPT !.traversal = FreshTraversal(a), !.traversing = FALSE, !.recovering = FALSE]
        /\ Base(d) /\ Spare(d) /\ Fair(d) /\ (Off(a) => Off(d)) /\ (Owed(a) => Owed(d))
    BY <1>6, <2>1, CloseTraversalKeeps
  <2>3. a \in Page BY <1>6 DEF Base, Typed
  <2>4. /\ d.ops = a.ops /\ d.active = a.active /\ d.prompted = a.prompted /\ d.departure = a.departure
        /\ d.life = a.life /\ d.shown = a.shown
    BY <2>2, <2>3 DEF Page
  <2>5. PICK t \in Link : t = b.truthUrl BY <1>3 DEF Page
  <2>6. PICK e : e = RepairDisplayedTruth(d, t) OBVIOUS
  <2>7. /\ Alike(d, e) /\ e.shown = d.shown
        /\ Base(e) /\ Spare(e) /\ Fair(e) /\ (Off(d) => Off(e)) /\ (Owed(d) => Owed(e))
    BY <2>2, <2>6, RepairKeeps
  <2>8. c = e BY <1>10, <1>12, <2>1, <2>5, <2>6
  <2>9. /\ e.ops = d.ops /\ e.active = d.active /\ e.prompted = d.prompted /\ e.departure = d.departure
        /\ e.life = d.life
    BY <2>7 DEF Alike
  <2> QED BY <1>2, <1>6, <1>8, <1>9, <2>2, <2>4, <2>7, <2>8, <2>9
<1> QED BY <1>11, <1>12

\* the operations, the life and the prompts are as they were
Same(b, c) ==
  /\ c.ops = b.ops /\ c.active = b.active /\ c.carrier = b.carrier /\ c.life = b.life
  /\ c.departure = b.departure /\ c.observers = b.observers /\ c.prompted = b.prompted /\ c.lapsed = b.lapsed

\* a change of timers, recoveries, jumps or of the traversal, while no rollback is awaited or none was
LEMMA RewriteKeeps ==
  ASSUME NEW b, Base(b), NEW c, Typed(c), Exclusive(c), Same(b, c),
         \/ c.pushRecovery = {}
         \/ Spare(b) /\ c.pushRecovery = b.pushRecovery /\ c.traversal = b.traversal
  PROVE  Base(c) /\ Spare(c) /\ (Fair(b) => Fair(c)) /\ (Off(b) => Off(c))
<1>1. Unique(c) /\ Carried(c) /\ Closing(c) BY DEF Base, Unique, Carried, Closing, Same
<1>2. Placeholder(c) /\ Travs(c) BY DEF Base, Placeholder, Travs, Same
<1>3. Off(b) <=> Off(c) BY DEF Off, NoReturn, Same
<1>4. Spare(c) BY <1>3 DEF Spare, Live
<1>5. Rolling(c) BY <1>4 DEF Spare, Rolling
<1>6. Fair(b) => Fair(c) BY <1>3 DEF Fair, Same
<1> QED BY <1>1, <1>2, <1>3, <1>4, <1>5, <1>6 DEF Base

LEMMA SupersessionArrivedKeeps ==
  ASSUME NEW b, Base(b), NEW r \in b.supersession
  PROVE  /\ Base(SupersessionArrived(b, r)) /\ Owed(SupersessionArrived(b, r))
         /\ SupersessionArrived(b, r).shown = b.shown
         /\ Lapses(b) \/ Fair(SupersessionArrived(b, r))
<1>0. Typed(b) /\ b \in Page /\ r.url \in Link /\ r.rec \in Link /\ r.op \in Nat BY DEF Base, Typed, Page
<1>1. PICK e : e = [b EXCEPT !.supersession = {}] OBVIOUS
<1>2. /\ e \in Page /\ e.shown = b.shown /\ e.supersession = {} /\ e.timers = b.timers
      /\ e.entries = b.entries /\ e.cur = b.cur
      /\ e.mutationRecovery = b.mutationRecovery /\ e.pushRecovery = b.pushRecovery
      /\ e.ops = b.ops /\ e.active = b.active /\ e.carrier = b.carrier /\ e.life = b.life
      /\ e.traversing = b.traversing /\ e.traversal = b.traversal /\ e.recovering = b.recovering
      /\ e.departure = b.departure /\ e.observers = b.observers /\ e.prompted = b.prompted /\ e.lapsed = b.lapsed
  BY <1>0, <1>1 DEF Page
<1>3. Base(e)
  <2>1. Typed(e)
    <3>1. IsFiniteSet({}) BY FS_EmptySet
    <3> QED BY <1>0, <1>2, <3>1 DEF Typed
  <2>2. Unique(e) /\ Exclusive(e) /\ Placeholder(e) /\ Travs(e) /\ Carried(e) /\ Closing(e)
    BY <1>2 DEF Base, Unique, Exclusive, Placeholder, Travs, Carried, Closing
  <2>3. (Off(b) <=> Off(e)) /\ (\A q : Live(b, q) <=> Live(e, q)) /\ (Idle(b) <=> Idle(e))
    BY <1>2 DEF Off, NoReturn, Live, Idle
  <2>4. Rolling(e) BY <1>2, <2>3 DEF Base, Rolling
  <2> QED BY <2>1, <2>2, <2>4 DEF Base
<1>4. PICK a : a = CloseTraversal(e) OBVIOUS
<1>5. /\ a = [e EXCEPT !.traversal = FreshTraversal(e), !.traversing = FALSE, !.recovering = FALSE]
      /\ Base(a) /\ Spare(a) /\ (Owed(e) => Owed(a))
  BY <1>3, <1>4, CloseTraversalKeeps
<1>6. a.ops = b.ops /\ a.active = b.active /\ a.shown = b.shown /\ a.mutationRecovery = b.mutationRecovery
  BY <1>2, <1>5 DEF Page
<1>7. b.mutationRecovery = {} BY DEF Base, Exclusive
<1>8. Owed(a) BY <1>6, <1>7 DEF Owed
<1>9. PICK m : m = IF a.active = r.op THEN Relinquish(a) ELSE a OBVIOUS
<1>10. Base(m) /\ Spare(m) /\ Owed(m) /\ m.shown = b.shown /\ (Lapses(b) \/ Fair(m))
  <2>1. CASE a.active = r.op
    <3>1. PICK q : q = Relinquish(a) OBVIOUS
    <3>2. q = [a EXCEPT !.active = 0, !.ops = Remaining(a)] /\ Base(q) /\ Spare(q) /\ Fair(q) /\ Owed(q)
      BY <1>5, <1>8, <3>1, RelinquishKeeps
    <3>3. a \in Page BY <1>5 DEF Base, Typed
    <3>4. q.shown = a.shown BY <3>2, <3>3 DEF Page
    <3> QED BY <1>6, <1>9, <2>1, <3>1, <3>2, <3>4
  <2>2. CASE a.active # r.op
    <3>1. m = a BY <1>9, <2>2
    <3>2. ASSUME ~Lapses(b) PROVE Fair(a)
      <4>1. \A o \in b.ops : o.seq = b.active => o.aborted BY <1>6, <2>2, <3>2 DEF Lapses, Active
      <4> QED BY <1>6, <4>1 DEF Fair
    <3> QED BY <1>5, <1>6, <1>8, <3>1, <3>2
  <2> QED BY <2>1, <2>2
<1>11. PICK no \in BOOLEAN : no = FALSE OBVIOUS
<1>12. PICK f : f = Fallback(m, r.url, no, r.rec) OBVIOUS
<1>13. Undisturbed(m, f) /\ Base(f) /\ (Fair(m) => Fair(f)) /\ (Owed(m) => Owed(f))
  <2>1. no \in BOOLEAN OBVIOUS
  <2> QED BY <1>0, <1>10, <1>12, <2>1, FallbackKeeps
<1>14. f = SupersessionArrived(b, r) BY <1>1, <1>4, <1>9, <1>11, <1>12 DEF SupersessionArrived
<1>15. f.shown = b.shown BY <1>10, <1>13 DEF Undisturbed
<1> QED BY <1>10, <1>13, <1>14, <1>15

LEMMA InterruptPostKeeps ==
  ASSUME NEW b, Base(b), b.supersession = {}, NEW o \in b.ops, o.seq = b.active
  PROVE  Sound(InterruptPost(b, o)) /\ InterruptPost(b, o).shown = b.shown
<1>0. o.seq \in Nat \ {0} /\ o.truth \in Link BY DEF Base, Typed, Page, Operation
<1>1. PICK a : a = Abort(b) OBVIOUS
<1>2. a = [b EXCEPT !.ops = Aborting(b)] /\ Base(a) /\ Fair(a) /\ (Spare(b) => Spare(a))
  BY <1>1, AbortKeeps
<1>3. b \in Page /\ a \in Page BY <1>2 DEF Base, Typed
<1>4. ~Idle(b) BY <1>0 DEF Idle
<1>5. Spare(a) BY <1>2, <1>4, SpareUnlessIdle
<1>6. PICK t \in TimerRecord : t = Timer("forward", o.seq, 0, NoUrl, NoUrl) BY <1>0 DEF TimerRecord, Timer, Link
<1>7. t.kind = "forward" /\ t.op = o.seq BY <1>6 DEF Timer
<1>8. PICK r \in [op : Nat, url : Link] : r = [op |-> o.seq, url |-> o.truth] BY <1>0
<1>9. r.op = o.seq BY <1>8
<1>10. PICK c : c = InterruptPost(b, o) OBVIOUS
<1>11. c = [a EXCEPT !.mutationRecovery = {r}, !.timers = @ \cup {t}] BY <1>1, <1>6, <1>8, <1>10 DEF InterruptPost
<1>12. /\ c \in Page /\ c.mutationRecovery = {r} /\ c.timers = a.timers \cup {t} /\ Same(a, c)
       /\ c.shown = a.shown /\ c.pushRecovery = a.pushRecovery /\ c.supersession = a.supersession
       /\ c.traversal = a.traversal /\ c.entries = a.entries /\ c.cur = a.cur
  BY <1>3, <1>11, ZenonT(60) DEF Page, Same
<1>13. a.supersession = {} /\ a.shown = b.shown BY <1>2, <1>3 DEF Page
<1>14. Typed(c)
  <2>1. IsFiniteSet({r}) BY FS_Singleton
  <2>2. PICK T : T = a.timers OBVIOUS
  <2>3. IsFiniteSet(T) BY <1>2, <2>2 DEF Base, Typed
  <2>4. IsFiniteSet(T \cup {t}) BY <2>3, FS_AddElement
  <2> QED BY <1>2, <1>12, <2>1, <2>2, <2>4 DEF Base, Typed, Same
<1>15. Exclusive(c) BY <1>12, <1>13 DEF Exclusive
<1>16. Base(c) /\ Fair(c) BY <1>2, <1>5, <1>12, <1>14, <1>15, RewriteKeeps
<1>17. Owed(c) BY <1>7, <1>9, <1>12 DEF Owed
<1> QED BY <1>10, <1>12, <1>13, <1>16, <1>17 DEF Sound

LEMMA JumpIs ==
  ASSUME NEW s \in Seq({1, -1}), NEW d \in {1, -1}
  PROVE  /\ Append(s, d) \in Seq({1, -1})
         /\ \A i \in DOMAIN s : i \in DOMAIN Append(s, d) /\ Append(s, d)[i] = s[i]
         /\ d \in Elements(Append(s, d)) /\ \A e \in Elements(s) : e \in Elements(Append(s, d))
<1>1. PICK j : j = Append(s, d) OBVIOUS
<1>2. PICK n \in Nat : n = Len(s) OBVIOUS
<1>3. j \in Seq({1, -1}) /\ DOMAIN j = 1..(n + 1) /\ DOMAIN s = 1..n /\ j[n + 1] = d /\ \A i \in 1..n : j[i] = s[i]
  BY <1>1, <1>2
<1>4. d \in Elements(j) /\ \A e \in Elements(s) : e \in Elements(j) BY <1>2, <1>3 DEF Elements
<1> QED BY <1>1, <1>2, <1>3, <1>4

\* the parts of RolledBack
RolledTo(b, r) == Href(b) = r.truth /\ Current(b).id = r.entry
StillMine(b, r) ==
  /\ r.trav = b.traversal /\ RolledTo(b, r)
  /\ r.op = 0 \/ \E o \in Active(b) : o.seq = r.op /\ ~o.aborted
Newer(b, r) == {o \in Active(b) : o.kind # "post" /\ o.seq # r.op}
SupersededBy(N) == {[op |-> o.seq, url |-> o.url, rec |-> o.rec] : o \in N}

LEMMA SupersededByIs ==
  ASSUME NEW N, N \subseteq Operation, IsFiniteSet(N)
  PROVE  SupersededBy(N) \in SUBSET [op : Nat, url : Link, rec : Link] /\ IsFiniteSet(SupersededBy(N))
<1> DEFINE f == [o \in N |-> [op |-> o.seq, url |-> o.url, rec |-> o.rec]]
<1>1. SupersededBy(N) = {f[o] : o \in N} BY DEF SupersededBy
<1>2. \A o \in N : f[o] \in [op : Nat, url : Link, rec : Link] BY DEF Operation
<1> HIDE DEF f
<1>3. IsFiniteSet({f[o] : o \in N}) BY FiniteMap
<1> QED BY <1>1, <1>2, <1>3

\* the rollback that is over leaves nothing behind in the page
LEMMA DropPushKeeps ==
  ASSUME NEW b, Base(b), NEW c, c = [b EXCEPT !.pushRecovery = {}]
  PROVE  /\ Base(c) /\ Spare(c) /\ (Fair(b) => Fair(c)) /\ (Owed(b) => Owed(c)) /\ Same(b, c)
         /\ c.shown = b.shown /\ c.mutationRecovery = b.mutationRecovery /\ c.supersession = b.supersession
         /\ c.entries = b.entries /\ c.cur = b.cur /\ c.timers = b.timers
<1>1. b \in Page BY DEF Base, Typed
<1>2. /\ c \in Page /\ Same(b, c) /\ c.shown = b.shown /\ c.mutationRecovery = b.mutationRecovery
      /\ c.supersession = b.supersession /\ c.timers = b.timers /\ c.jumps = b.jumps
      /\ c.entries = b.entries /\ c.cur = b.cur /\ c.pushRecovery = {}
  BY <1>1 DEF Page, Same
<1>3. Typed(c)
  <2>1. IsFiniteSet({}) BY FS_EmptySet
  <2> QED BY <1>2, <2>1 DEF Base, Typed, Same
<1>4. Exclusive(c) BY <1>2 DEF Base, Exclusive
<1>5. Base(c) /\ Spare(c) /\ (Fair(b) => Fair(c)) BY <1>2, <1>3, <1>4, RewriteKeeps
<1>6. Owed(b) => Owed(c) BY <1>2 DEF Owed, Same
<1> QED BY <1>2, <1>5, <1>6

LEMMA RolledBackKeeps ==
  ASSUME NEW b, Base(b), b.supersession = {}, b.mutationRecovery = {}, Kind(b) # "post", NEW r \in b.pushRecovery
  PROVE  Sound(RolledBack(b, r)) /\ RolledBack(b, r).shown = b.shown
<1>0. /\ Typed(b) /\ b \in Page /\ r \in PushRecovery /\ Unique(b) /\ Owed(b)
      /\ \A o \in b.ops : o \in Operation
  BY DEF Base, Typed, Page, Owed
<1>1. r.url \in Link /\ r.truth \in Link /\ r.rec \in Link /\ r.op \in Nat /\ r.trav \in Nat BY <1>0 DEF PushRecovery
<1>2. PICK x : x = RolledBack(b, r) OBVIOUS
<1>3. PICK a : a = [b EXCEPT !.pushRecovery = {}] OBVIOUS
<1>4. /\ Base(a) /\ Spare(a) /\ (Fair(b) => Fair(a)) /\ Owed(a) /\ Same(b, a)
      /\ a.shown = b.shown /\ a.mutationRecovery = {} /\ a.supersession = {}
      /\ a.entries = b.entries /\ a.cur = b.cur /\ a.timers = b.timers
  BY <1>0, <1>3, DropPushKeeps
<1>5. a \in Page /\ a.pushRecovery = {} BY <1>0, <1>3 DEF Page
<1>6. CASE StillMine(b, r)
  <2>1. Fair(b)
    <3>1. CASE r.op = 0
      <4>1. Live(b, r) BY <1>6, <3>1 DEF StillMine, Live
      <4>2. Off(b) \/ b.active = 0 BY <4>1 DEF Base, Rolling, Idle
      <4> QED BY <1>0, <4>2 DEF Fair, Operation
    <3>2. CASE \E o \in Active(b) : o.seq = r.op /\ ~o.aborted
      <4>1. PICK o \in b.ops : o.seq = b.active /\ o.seq = r.op BY <3>2 DEF Active
      <4>2. o.kind \in {"idle", "held"} BY <4>1 DEF Base, Placeholder
      <4> QED BY <1>0, <4>1, <4>2 DEF Fair, Unique
    <3> QED BY <1>6, <3>1, <3>2 DEF StillMine
  <2>2. PICK t \in TimerRecord : t = [Timer("stage", r.op, 0, r.url, r.rec) EXCEPT !.truth = r.truth]
    BY <1>1 DEF TimerRecord, Timer, Link
  <2>3. PICK d : d = CloseTraversal(a) OBVIOUS
  <2>4. /\ d = [a EXCEPT !.traversal = FreshTraversal(a), !.traversing = FALSE, !.recovering = FALSE]
        /\ Base(d) /\ Spare(d) /\ Fair(d) /\ Owed(d)
    BY <1>4, <2>1, <2>3, CloseTraversalKeeps
  <2>5. x = [d EXCEPT !.timers = @ \cup {t}]
    BY <1>2, <1>3, <1>6, <2>2, <2>3 DEF RolledBack, StillMine, RolledTo
  <2>6. /\ d \in Page /\ d.shown = a.shown /\ d.pushRecovery = {} /\ d.mutationRecovery = {} /\ d.supersession = {}
    BY <1>4, <1>5, <2>4 DEF Page, Base, Typed
  <2>7. /\ x \in Page /\ Same(d, x) /\ x.shown = d.shown /\ x.pushRecovery = {} /\ x.mutationRecovery = {}
        /\ x.supersession = {} /\ x.timers = d.timers \cup {t} /\ x.entries = d.entries /\ x.cur = d.cur
    BY <2>5, <2>6, ZenonT(60) DEF Page, Same
  <2>8. Typed(x)
    <3>1. PICK T : T = d.timers OBVIOUS
    <3>2. IsFiniteSet(T) BY <2>4, <3>1 DEF Base, Typed
    <3>3. IsFiniteSet(T \cup {t}) /\ IsFiniteSet({}) BY <3>2, FS_AddElement, FS_EmptySet
    <3> QED BY <2>4, <2>7, <3>1, <3>3 DEF Base, Typed, Same
  <2>9. Exclusive(x) /\ Owed(x) BY <2>7 DEF Exclusive, Owed
  <2>10. Base(x) /\ Fair(x) BY <2>4, <2>7, <2>8, <2>9, RewriteKeeps
  <2> QED BY <1>2, <1>4, <2>6, <2>7, <2>9, <2>10 DEF Sound
<1>7. CASE ~StillMine(b, r) /\ Newer(b, r) # {}
  <2>1. PICK u : u = Abort(a) OBVIOUS
  <2>2. u = [a EXCEPT !.ops = Aborting(a)] /\ Base(u) /\ Fair(u) BY <1>4, <2>1, AbortKeeps
  <2>3. PICK S \in SUBSET [op : Nat, url : Link, rec : Link] : S = SupersededBy(Newer(b, r)) /\ IsFiniteSet(S)
    <3>1. Newer(b, r) \subseteq b.ops BY DEF Newer, Active
    <3>2. Newer(b, r) \subseteq Operation /\ IsFiniteSet(Newer(b, r)) BY <1>0, <3>1, FS_Subset DEF Typed
    <3> QED BY <3>2, SupersededByIs
  <2>4. PICK yes \in BOOLEAN : yes = TRUE OBVIOUS
  <2>5. x = [u EXCEPT !.supersession = S, !.traversing = yes, !.jumps = Append(@, 1)]
    BY <1>2, <1>3, <1>7, <2>1, <2>3, <2>4 DEF RolledBack, StillMine, RolledTo, Newer, SupersededBy
  <2>6. u \in Page /\ u.shown = a.shown /\ u.pushRecovery = {} /\ u.mutationRecovery = {} /\ u.jumps \in Seq({1, -1})
    <3>1. u \in Page BY <2>2 DEF Base, Typed
    <3>2. u.shown = a.shown /\ u.pushRecovery = a.pushRecovery /\ u.mutationRecovery = a.mutationRecovery
      BY <1>5, <2>2 DEF Page
    <3>3. u.jumps \in Seq({1, -1}) BY <3>1 DEF Page
    <3> QED BY <1>4, <1>5, <3>1, <3>2, <3>3
  <2>7. PICK j \in Seq({1, -1}) : j = Append(u.jumps, 1) /\ \A i \in DOMAIN u.jumps : i \in DOMAIN j /\ j[i] = u.jumps[i]
    BY <2>6, JumpIs
  <2>8. /\ x \in Page /\ Same(u, x) /\ x.shown = u.shown /\ x.pushRecovery = {} /\ x.mutationRecovery = {}
        /\ x.supersession = S /\ x.timers = u.timers /\ x.entries = u.entries /\ x.cur = u.cur
    <3>1. x = [u EXCEPT !.supersession = S, !.traversing = yes, !.jumps = j] BY <2>5, <2>6, <2>7 DEF Page
    <3>2. yes \in BOOLEAN /\ j \in Seq({1, -1}) OBVIOUS
    <3> QED BY <2>6, <3>1, <3>2, ZenonT(60) DEF Page, Same
  <2>9. Typed(x) BY <2>2, <2>3, <2>6, <2>8, FS_EmptySet DEF Base, Typed, Same
  <2>10. Exclusive(x) /\ Owed(x) BY <2>8 DEF Exclusive, Owed
  <2>11. Base(x) /\ Fair(x) BY <2>2, <2>8, <2>9, <2>10, RewriteKeeps
  <2> QED BY <1>2, <1>4, <2>6, <2>8, <2>10, <2>11 DEF Sound
<1>8. CASE ~StillMine(b, r) /\ Newer(b, r) = {}
  <2>1. PICK m : m = IF a.active = r.op THEN Relinquish(a) ELSE a OBVIOUS
  <2>2. Base(m) /\ Spare(m) /\ Fair(m) /\ Owed(m) /\ m.shown = b.shown /\ m.pushRecovery = {} /\ m.mutationRecovery = {}
    <3>1. CASE a.active = r.op
      <4>1. PICK q : q = Relinquish(a) OBVIOUS
      <4>2. q = [a EXCEPT !.active = 0, !.ops = Remaining(a)] /\ Base(q) /\ Spare(q) /\ Fair(q) /\ Owed(q)
        BY <1>4, <4>1, RelinquishKeeps
      <4>3. q.shown = a.shown /\ q.pushRecovery = {} /\ q.mutationRecovery = {} BY <1>4, <1>5, <4>2 DEF Page
      <4> QED BY <1>4, <2>1, <3>1, <4>1, <4>2, <4>3
    <3>2. CASE a.active # r.op
      <4>1. m = a BY <2>1, <3>2
      <4>2. Active(b) = {}
        <5> SUFFICES ASSUME NEW o \in Active(b) PROVE FALSE OBVIOUS
        <5>1. o \in b.ops /\ o.seq = b.active BY DEF Active
        <5>2. Kind(b) = o.kind BY <1>0, <5>1, ActiveIs
        <5>3. o.seq # r.op BY <1>4, <3>2, <5>1 DEF Same
        <5> QED BY <1>8, <5>2, <5>3 DEF Newer
      <4>3. Fair(b) BY <4>2 DEF Fair, Active
      <4> QED BY <1>4, <1>5, <4>1, <4>3
    <3> QED BY <3>1, <3>2
  <2>3. PICK no \in BOOLEAN : no = FALSE OBVIOUS
  <2>4. PICK f : f = [m EXCEPT !.traversing = no, !.recovering = no] OBVIOUS
  <2>5. m \in Page BY <2>2 DEF Base, Typed
  <2>6. /\ f \in Page /\ Same(m, f) /\ f.shown = m.shown /\ f.pushRecovery = {} /\ f.mutationRecovery = {}
        /\ f.supersession = m.supersession /\ f.timers = m.timers /\ f.entries = m.entries /\ f.cur = m.cur
    <3>1. no \in BOOLEAN OBVIOUS
    <3> QED BY <2>2, <2>4, <2>5, <3>1, ZenonT(60) DEF Page, Same
  <2>7. Typed(f) BY <2>2, <2>6, FS_EmptySet DEF Base, Typed, Same
  <2>8. Exclusive(f) /\ Owed(f) BY <2>6 DEF Exclusive, Owed
  <2>9. Base(f) /\ Spare(f) /\ Fair(f) BY <2>2, <2>6, <2>7, <2>8, RewriteKeeps
  <2>10. PICK h \in Link : h = Href(b) BY <1>0, CurrentIs
  <2>11. PICK g : g = Fallback(f, h, no, r.rec) OBVIOUS
  <2>12. Undisturbed(f, g) /\ Base(g) /\ Fair(g) /\ Owed(g)
    <3>1. no \in BOOLEAN OBVIOUS
    <3> QED BY <1>1, <2>8, <2>9, <2>11, <3>1, FallbackKeeps
  <2>13. g.shown = f.shown BY <2>12 DEF Undisturbed
  <2>14. x = IF RolledTo(b, r) THEN f ELSE g
    BY <1>2, <1>3, <1>8, <2>1, <2>3, <2>4, <2>10, <2>11 DEF RolledBack, StillMine, RolledTo, Newer
  <2> QED BY <1>2, <2>2, <2>6, <2>8, <2>9, <2>12, <2>13, <2>14 DEF Sound
<1> QED BY <1>6, <1>7, <1>8

LEMMA KindIs ==
  ASSUME NEW b, NEW c, c.ops = b.ops, c.active = b.active
  PROVE  Kind(c) = Kind(b) /\ Rec(c) = Rec(b) /\ Active(c) = Active(b)
<1>1. Active(c) = Active(b) BY DEF Active
<1> QED BY <1>1 DEF Kind, Rec

LEMMA SelectEntryKeeps ==
  ASSUME server \in Nat, NEW b, Base(b), b.mutationRecovery = {}, b.pushRecovery = {}, Kind(b) # "post",
         NEW enhance \in BOOLEAN, NEW safe \in BOOLEAN
  PROVE  Sound(SelectEntry(b, enhance, safe)) /\ SelectEntry(b, enhance, safe).shown = b.shown
<1>0. Typed(b) /\ b \in Page /\ Owed(b) BY DEF Base, Typed, Owed
<1>1. PICK t \in Nat : t = FreshTraversal(b) BY <1>0, FreshTraversalIs
<1>2. PICK id \in Nat : id = Current(b).id BY <1>0, CurrentIs DEF Entry
<1>3. PICK yes \in BOOLEAN, no \in BOOLEAN : yes = TRUE /\ no = FALSE OBVIOUS
<1>4. PICK a : a = [b EXCEPT !.traversal = t, !.traversing = yes, !.recovering = no, !.selected = id] OBVIOUS
<1>5. /\ a \in Page /\ Same(b, a) /\ a.shown = b.shown /\ a.pushRecovery = {} /\ a.mutationRecovery = {}
      /\ a.supersession = b.supersession /\ a.timers = b.timers /\ a.entries = b.entries /\ a.cur = b.cur
  <2>1. yes \in BOOLEAN /\ no \in BOOLEAN OBVIOUS
  <2>2. a \in Page
    <3>1. PICK u : u = [b EXCEPT !.traversal = t, !.selected = id] OBVIOUS
    <3>2. u \in Page BY <1>0, <3>1 DEF Page
    <3>3. a = [u EXCEPT !.traversing = yes, !.recovering = no] BY <1>0, <1>4, <3>1 DEF Page
    <3> QED BY <2>1, <3>2, <3>3, ZenonT(60) DEF Page
  <2>3. /\ Same(b, a) /\ a.shown = b.shown /\ a.pushRecovery = b.pushRecovery
        /\ a.mutationRecovery = b.mutationRecovery
        /\ a.supersession = b.supersession /\ a.timers = b.timers /\ a.entries = b.entries /\ a.cur = b.cur
    BY <1>0, <1>4 DEF Page, Same
  <2> QED BY <2>2, <2>3
<1>6. Typed(a) BY <1>0, <1>5 DEF Typed, Same
<1>7. Exclusive(a) /\ Owed(a) BY <1>5 DEF Exclusive, Owed
<1>8. Base(a) /\ Spare(a) BY <1>5, <1>6, <1>7, RewriteKeeps
<1>9. Kind(a) # "post" BY <1>5, KindIs DEF Same
<1>10. PICK h \in Link : h = Href(a) BY <1>6, CurrentIs
<1>11. PICK x : x = SelectEntry(b, enhance, safe) OBVIOUS
<1>12. CASE enhance /\ Current(b).id # b.selected
  <2>1. PICK n : n = Navigate(a, h, yes, t, NoUrl, safe) OBVIOUS
  <2>2. Base(n) /\ Fair(n) /\ Owed(n) /\ n.shown = a.shown
    <3>1. yes \in BOOLEAN /\ NoUrl \in Link /\ t \in Nat /\ h \in Link BY DEF Link
    <3> QED BY <1>5, <1>7, <1>8, <1>9, <2>1, <3>1, NavigateKeeps
  <2>3. x = n BY <1>1, <1>2, <1>3, <1>4, <1>10, <1>11, <1>12, <2>1 DEF SelectEntry
  <2> QED BY <1>5, <1>11, <2>2, <2>3 DEF Sound
<1>13. CASE ~(enhance /\ Current(b).id # b.selected)
  <2>1. PICK u : u = Abort(a) OBVIOUS
  <2>2. u = [a EXCEPT !.ops = Aborting(a)] /\ Base(u) /\ Fair(u) /\ Spare(u) /\ Owed(u)
    BY <1>7, <1>8, <2>1, AbortKeeps
  <2>3. u \in Page BY <2>2 DEF Base, Typed
  <2>4. u.shown = a.shown /\ u.pushRecovery = {} /\ u.mutationRecovery = {} BY <1>5, <2>2 DEF Page
  <2>5. PICK v : v = [u EXCEPT !.recovering = yes] OBVIOUS
  <2>6. /\ v \in Page /\ Same(u, v) /\ v.shown = u.shown /\ v.pushRecovery = {} /\ v.mutationRecovery = {}
        /\ v.supersession = u.supersession /\ v.timers = u.timers /\ v.entries = u.entries /\ v.cur = u.cur
    <3>1. yes \in BOOLEAN OBVIOUS
    <3> QED BY <2>3, <2>4, <2>5, <3>1 DEF Page, Same
  <2>7. Typed(v) BY <2>2, <2>4, <2>6 DEF Base, Typed, Same
  <2>8. Exclusive(v) /\ Owed(v) BY <2>6 DEF Exclusive, Owed
  <2>9. Base(v) /\ Spare(v) /\ Fair(v) BY <2>2, <2>6, <2>7, <2>8, RewriteKeeps
  <2>10. PICK r \in Link : r = Rec(b) BY <1>0, ActiveIs
  <2>11. PICK n : n = BeginTraversalRecovery(v, r) OBVIOUS
  <2>12. Undisturbed(v, n) /\ Base(n) /\ Fair(n) /\ Owed(n)
    BY <2>8, <2>9, <2>11, BeginTraversalRecoveryKeeps
  <2>13. x = n BY <1>1, <1>2, <1>3, <1>4, <1>11, <1>13, <2>1, <2>5, <2>10, <2>11 DEF SelectEntry
  <2>14. n.shown = v.shown BY <2>12 DEF Undisturbed
  <2> QED BY <1>5, <1>11, <2>4, <2>6, <2>12, <2>13, <2>14 DEF Sound
<1> QED BY <1>11, <1>12, <1>13

LEMMA ArrivedKeeps ==
  ASSUME server \in Nat, NEW b, Base(b), NEW enhance \in BOOLEAN, NEW safe \in BOOLEAN
  PROVE  Sound(Arrived(b, enhance, safe)) /\ Arrived(b, enhance, safe).shown = b.shown
<1>0. Typed(b) /\ b \in Page /\ Unique(b) BY DEF Base, Typed
<1>1. PICK x : x = Popstate(b, enhance, safe) OBVIOUS
<1>2. Base(x) /\ Owed(x) /\ x.shown = b.shown /\ (Lapses(b) \/ Fair(x))
  <2>1. CASE b.supersession # {}
    <3>1. PICK r \in b.supersession : r = CHOOSE q \in b.supersession : TRUE BY <2>1
    <3>2. x = SupersessionArrived(b, r) BY <1>1, <2>1, <3>1 DEF Popstate
    <3> QED BY <3>2, SupersessionArrivedKeeps
  <2>2. CASE b.supersession = {} /\ b.mutationRecovery # {}
    <3>1. PICK r \in b.mutationRecovery : r = CHOOSE q \in b.mutationRecovery : TRUE BY <2>2
    <3>2. r.url \in Link BY <1>0 DEF Page
    <3>3. PICK u \in Link : u = r.url BY <3>2
    <3>4. Spare(b) BY <2>2, SpareUnlessIdle DEF Idle
    <3>5. PICK a : a = [b EXCEPT !.mutationRecovery = {}] OBVIOUS
    <3>6. /\ a \in Page /\ Same(b, a) /\ a.shown = b.shown /\ a.pushRecovery = b.pushRecovery
          /\ a.mutationRecovery = {} /\ a.supersession = b.supersession /\ a.traversal = b.traversal
          /\ a.timers = b.timers /\ a.entries = b.entries /\ a.cur = b.cur
      BY <1>0, <3>5 DEF Page, Same
    <3>7. Typed(a) BY <1>0, <3>6, FS_EmptySet DEF Typed, Same
    <3>8. Exclusive(a) /\ Owed(a) BY <3>6 DEF Exclusive, Owed
    <3>9. Base(a) /\ Spare(a) BY <3>4, <3>6, <3>7, <3>8, RewriteKeeps
    <3>10. PICK c : c = RecoverCommitted(a, u) OBVIOUS
    <3>11. Carries(a, c) /\ Base(c) /\ Fair(c) /\ Owed(c) BY <3>8, <3>9, <3>10, RecoverCommittedKeeps
    <3>12. x = c BY <1>1, <2>2, <3>1, <3>3, <3>5, <3>10 DEF Popstate
    <3>13. c.shown = a.shown BY <3>11 DEF Carries
    <3> QED BY <3>6, <3>11, <3>12, <3>13
  <2>3. CASE b.supersession = {} /\ b.mutationRecovery = {} /\ Kind(b) = "post"
    <3>1. Active(b) # {} BY <2>3 DEF Kind
    <3>2. PICK o \in Active(b) : o = CHOOSE q \in Active(b) : TRUE BY <3>1
    <3>3. o \in b.ops /\ o.seq = b.active BY DEF Active
    <3>4. x = InterruptPost(b, o) BY <1>1, <2>3, <3>2 DEF Popstate
    <3>5. Sound(x) /\ x.shown = b.shown BY <2>3, <3>3, <3>4, InterruptPostKeeps
    <3> QED BY <3>5 DEF Sound
  <2>4. CASE b.supersession = {} /\ b.mutationRecovery = {} /\ Kind(b) # "post" /\ b.pushRecovery # {}
    <3>1. PICK r \in b.pushRecovery : r = CHOOSE q \in b.pushRecovery : TRUE BY <2>4
    <3>2. x = RolledBack(b, r) BY <1>1, <2>4, <3>1 DEF Popstate
    <3>3. Sound(x) /\ x.shown = b.shown BY <2>4, <3>2, RolledBackKeeps
    <3> QED BY <3>3 DEF Sound
  <2>5. CASE b.supersession = {} /\ b.mutationRecovery = {} /\ Kind(b) # "post" /\ b.pushRecovery = {}
    <3>1. x = SelectEntry(b, enhance, safe) BY <1>1, <2>5 DEF Popstate
    <3>2. Sound(x) /\ x.shown = b.shown BY <2>5, <3>1, SelectEntryKeeps
    <3> QED BY <3>2 DEF Sound
  <2> QED BY <2>1, <2>2, <2>3, <2>4, <2>5
<1>3. x \in Page BY <1>2 DEF Base, Typed
<1>4. PICK l \in BOOLEAN : l = (x.lapsed \/ Lapses(b) \/ Drops(b)) OBVIOUS
<1>5. PICK y : y = [x EXCEPT !.lapsed = l] OBVIOUS
<1>6. y = Arrived(b, enhance, safe) BY <1>1, <1>3, <1>4, <1>5 DEF Arrived, Page
<1>7. Base(y) /\ (Fair(x) => Fair(y)) /\ (Owed(x) => Owed(y)) /\ (l => Sound(y)) /\ y.shown = x.shown
  <2>1. l \in BOOLEAN OBVIOUS
  <2> QED BY <1>2, <1>4, <1>5, <2>1, LapseKeeps
<1> QED BY <1>2, <1>4, <1>6, <1>7 DEF Sound

LEMMA OutdateKind ==
  ASSUME NEW b, Base(b)
  PROVE  Kind(Outdate(b)) = Kind(b) /\ Rec(Outdate(b)) = Rec(b) /\ Outdate(b).active = b.active
         /\ Outdate(b).traversing = b.traversing /\ Outdate(b).life = b.life /\ Outdate(b).shown = b.shown
         /\ Outdate(b).prompted = b.prompted /\ Outdate(b).departure = b.departure /\ Outdate(b).observers = b.observers
         /\ Outdate(b).truthUrl = b.truthUrl /\ Outdate(b).entries = b.entries /\ Outdate(b).lapsed = b.lapsed
<1>1. PICK d : d = Outdate(b) OBVIOUS
<1>2. /\ d = [b EXCEPT !.ops = Outdating(b), !.timers = LatenTimers(b)] /\ Base(d)
      /\ \A o \in d.ops : \E q \in b.ops : q.seq = o.seq /\ q.rec = o.rec /\ q.kind = o.kind
  BY <1>1, OutdateKeeps
<1>3. Typed(b) /\ Typed(d) /\ Unique(b) /\ Unique(d) /\ b \in Page BY <1>2 DEF Base, Typed
<1>4. /\ d.active = b.active /\ d.traversing = b.traversing /\ d.life = b.life /\ d.shown = b.shown
      /\ d.prompted = b.prompted /\ d.departure = b.departure /\ d.observers = b.observers
      /\ d.truthUrl = b.truthUrl /\ d.entries = b.entries /\ d.lapsed = b.lapsed /\ d.ops = Outdating(b)
  BY <1>2, <1>3 DEF Page
<1>5. Kind(d) = Kind(b) /\ Rec(d) = Rec(b)
  <2>1. CASE \E o \in d.ops : o.seq = d.active
    <3>1. PICK o \in d.ops : o.seq = d.active BY <2>1
    <3>2. PICK q \in b.ops : q.seq = o.seq /\ q.rec = o.rec /\ q.kind = o.kind BY <1>2
    <3>3. Rec(d) = o.rec /\ Kind(d) = o.kind BY <1>3, <3>1, ActiveIs
    <3>4. Rec(b) = q.rec /\ Kind(b) = q.kind BY <1>3, <1>4, <3>1, <3>2, ActiveIs
    <3> QED BY <3>2, <3>3, <3>4
  <2>2. CASE ~\E o \in d.ops : o.seq = d.active
    <3>1. Active(d) = {} BY <2>2 DEF Active
    <3>2. Active(b) = {}
      <4> SUFFICES ASSUME NEW q \in Active(b) PROVE FALSE OBVIOUS
      <4>1. q \in b.ops /\ q.seq = b.active /\ q \in Operation BY <1>3 DEF Active, Page
      <4>2. Outdated(q) \in d.ops /\ Outdated(q).seq = q.seq BY <1>4, <4>1, MarkedIs DEF Outdating
      <4> QED BY <1>4, <2>2, <4>1, <4>2
    <3> QED BY <3>1, <3>2 DEF Kind, Rec
  <2> QED BY <2>1, <2>2
<1> QED BY <1>1, <1>4, <1>5

\* the operation is forgotten, its request with it
LEMMA FreeKeeps ==
  ASSUME NEW b, Base(b), NEW c, c = [b EXCEPT !.active = 0]
  PROVE  /\ Base(c) /\ Fair(c) /\ (Spare(b) => Spare(c)) /\ (Off(b) => Off(c)) /\ (Owed(b) => Owed(c))
         /\ c.shown = b.shown
<1>1. b \in Page BY DEF Base, Typed
<1>2. /\ c \in Page /\ c.shown = b.shown /\ c.active = 0
      /\ c.ops = b.ops /\ c.timers = b.timers /\ c.lapsed = b.lapsed /\ c.traversal = b.traversal
      /\ c.entries = b.entries /\ c.cur = b.cur /\ c.carrier = b.carrier
      /\ c.traversing = b.traversing /\ c.recovering = b.recovering
      /\ c.mutationRecovery = b.mutationRecovery /\ c.pushRecovery = b.pushRecovery
      /\ c.supersession = b.supersession /\ c.life = b.life /\ c.departure = b.departure
      /\ c.observers = b.observers /\ c.prompted = b.prompted /\ c.jumps = b.jumps
  BY <1>1 DEF Page
<1>3. Typed(c) BY <1>2 DEF Base, Typed
<1>4. Unique(c) /\ Exclusive(c) /\ Placeholder(c) /\ Travs(c) /\ Carried(c) /\ Closing(c)
  BY <1>2 DEF Base, Unique, Exclusive, Placeholder, Travs, Carried, Closing
<1>5. (Off(b) => Off(c)) /\ (\A r : Live(b, r) <=> Live(c, r)) /\ (Idle(b) => Idle(c)) /\ (Owed(b) => Owed(c))
  BY <1>2 DEF Off, NoReturn, Live, Idle, Owed
<1>6. Rolling(c) /\ (Spare(b) => Spare(c)) BY <1>2, <1>5 DEF Base, Rolling, Spare
<1>7. Fair(c)
  <2>1. \A o \in c.ops : o.seq # 0 BY <1>3 DEF Typed, Page, Operation
  <2> QED BY <1>2, <2>1 DEF Fair
<1> QED BY <1>2, <1>3, <1>4, <1>5, <1>6, <1>7 DEF Base

\* a timer has run
LEMMA TimerKeeps ==
  ASSUME NEW b, Base(b), NEW t \in b.timers, NEW c, c = [b EXCEPT !.timers = @ \ {t}]
  PROVE  /\ Base(c) /\ (Fair(b) => Fair(c)) /\ (Spare(b) => Spare(c)) /\ (Off(b) => Off(c))
         /\ (Owed(b) /\ t.kind # "forward" => Owed(c)) /\ Same(b, c) /\ c.timers = b.timers \ {t}
         /\ c.shown = b.shown /\ c.pushRecovery = b.pushRecovery /\ c.mutationRecovery = b.mutationRecovery
         /\ c.supersession = b.supersession /\ c.traversal = b.traversal /\ c.jumps = b.jumps
         /\ c.entries = b.entries /\ c.cur = b.cur /\ c.recovering = b.recovering
<1>1. b \in Page BY DEF Base, Typed
<1>2. /\ c \in Page /\ c.shown = b.shown /\ c.active = b.active
      /\ c.ops = b.ops /\ c.timers = b.timers \ {t} /\ c.lapsed = b.lapsed /\ c.traversal = b.traversal
      /\ c.entries = b.entries /\ c.cur = b.cur /\ c.carrier = b.carrier
      /\ c.traversing = b.traversing /\ c.recovering = b.recovering
      /\ c.mutationRecovery = b.mutationRecovery /\ c.pushRecovery = b.pushRecovery
      /\ c.supersession = b.supersession /\ c.life = b.life /\ c.departure = b.departure
      /\ c.observers = b.observers /\ c.prompted = b.prompted /\ c.jumps = b.jumps
  BY <1>1 DEF Page
<1>3. Typed(c)
  <2>1. PICK T : T = b.timers OBVIOUS
  <2>2. IsFiniteSet(T \ {t}) BY <2>1, FS_Subset DEF Base, Typed
  <2> QED BY <1>2, <2>1, <2>2 DEF Base, Typed
<1>4. Unique(c) /\ Exclusive(c) /\ Placeholder(c) /\ Travs(c) /\ Carried(c) /\ Closing(c)
  BY <1>2 DEF Base, Unique, Exclusive, Placeholder, Travs, Carried, Closing
<1>5. (Off(b) <=> Off(c)) /\ (\A r : Live(b, r) <=> Live(c, r)) /\ (Idle(b) => Idle(c))
  BY <1>2 DEF Off, NoReturn, Live, Idle
<1>6. Rolling(c) /\ (Spare(b) => Spare(c)) BY <1>2, <1>5 DEF Base, Rolling, Spare
<1>7. Fair(b) => Fair(c) BY <1>2, <1>5 DEF Fair
<1>8. Owed(b) /\ t.kind # "forward" => Owed(c) BY <1>2 DEF Owed
<1>9. Same(b, c) BY <1>2 DEF Same
<1> QED BY <1>2, <1>3, <1>4, <1>5, <1>6, <1>7, <1>8, <1>9 DEF Base

-----------------------------------------------------------------------------
(* The actions.  Each first outdates what was under way (Act) or not.      *)

Inv == server \in Nat /\ Sound(page)

LEMMA OutdatedPage ==
  ASSUME NEW b, Sound(b)
  PROVE  /\ Base(Outdate(b)) /\ Owed(Outdate(b)) /\ (Spare(b) => Spare(Outdate(b))) /\ (Off(b) => Off(Outdate(b)))
         /\ Typed(Outdate(b)) /\ Outdate(b) \in Page
BY OutdateKeeps DEF Sound, Base, Typed

\* the operation without its source entry
Unsourced(o) == [o EXCEPT !.source.id = 0]
Unsourcing(b) == {IF o.seq = b.active THEN Unsourced(o) ELSE o : o \in b.ops}

LEMMA UnsourcedIs ==
  ASSUME NEW o \in Operation
  PROVE  /\ Unsourced(o) \in Operation
         /\ \A f \in DOMAIN o : f # "source" => Unsourced(o)[f] = o[f]
         /\ DOMAIN o = {"seq", "kind", "url", "truth", "replace", "source", "trav", "rec", "began",
                        "aborted", "served", "outdated"}
<1>1. PICK e \in Entry : e = [o.source EXCEPT !.id = 0] BY DEF Operation, Entry
<1>2. Unsourced(o) = [o EXCEPT !.source = e] BY <1>1 DEF Unsourced
<1>3. PICK u : u = [o EXCEPT !.source = e] OBVIOUS
<1>4. u \in Operation BY <1>3 DEF Operation
<1>5. \A f \in DOMAIN o : f # "source" => u[f] = o[f] BY <1>3 DEF Operation
<1>6. DOMAIN o = {"seq", "kind", "url", "truth", "replace", "source", "trav", "rec", "began",
                  "aborted", "served", "outdated"} BY DEF Operation
<1> QED BY <1>2, <1>3, <1>4, <1>5, <1>6

LEMMA UnsourceKeeps ==
  ASSUME NEW b, Sound(b), NEW c, c = [b EXCEPT !.ops = Unsourcing(b)]
  PROVE  Sound(c)
<1> DEFINE f == [o \in b.ops |-> IF o.seq = b.active THEN Unsourced(o) ELSE o]
           X == Unsourcing(b)
<1>0. b.ops \subseteq Operation /\ IsFiniteSet(b.ops) /\ Unique(b) BY DEF Sound, Base, Typed, Page
<1>1. X = {f[o] : o \in b.ops} BY DEF Unsourcing
<1>10. \A o \in b.ops : f[o] = IF o.seq = b.active THEN Unsourced(o) ELSE o OBVIOUS
<1>20. c = [b EXCEPT !.ops = X] OBVIOUS
<1> HIDE DEF f, X
<1>2. IsFiniteSet(X) BY <1>0, <1>1, FiniteMap
<1>3. ASSUME NEW o \in b.ops
      PROVE  /\ f[o] \in Operation
             /\ f[o].seq = o.seq /\ f[o].trav = o.trav /\ f[o].kind = o.kind /\ f[o].aborted = o.aborted
             /\ f[o].outdated = o.outdated
  <2>1. o \in Operation BY <1>0
  <2>2. CASE o.seq = b.active BY <1>10, <2>1, <2>2, UnsourcedIs
  <2>3. CASE o.seq # b.active BY <1>10, <2>1, <2>3
  <2> QED BY <2>2, <2>3
<1>4. X \in SUBSET Operation /\ From(X, b.ops) BY <1>1, <1>3 DEF From
<1>5. NotOlder(X, b.ops) BY <1>0, <1>1, <1>3 DEF NotOlder, Unique
<1>6. \A o, q \in X : o.seq = q.seq => o = q BY <1>0, <1>1, <1>3 DEF Unique
<1>7. Base(c) /\ (Owed(b) => Owed(c)) /\ (Fair(b) => Fair(c)) BY <1>2, <1>4, <1>5, <1>6, <1>20, OpsChange DEF Sound
<1> QED BY <1>7 DEF Sound

LEMMA ClickKeeps ==
  ASSUME Inv, NEW url \in Url, Click(url)
  PROVE  Sound(page')
<1>1. PICK p : p = Outdate(page) OBVIOUS
<1>2. Sound(page) /\ Base(page) /\ server \in Nat BY DEF Inv, Sound
<1>3. Base(p) /\ Owed(p) /\ (Spare(page) => Spare(p)) BY <1>1, <1>2, OutdatedPage
<1>4. Kind(p) # "post" BY <1>1, <1>2, OutdateKind DEF Click, Listening
<1>5. ~Idle(page) BY DEF Click, Idle
<1>6. Spare(p) BY <1>2, <1>3, <1>5, SpareUnlessIdle
<1>7. PICK yes \in BOOLEAN, no \in BOOLEAN : yes = TRUE /\ no = FALSE OBVIOUS
<1>8. PICK b : b = Navigate(p, url, no, 0, NoUrl, yes) OBVIOUS
<1>9. Base(b) /\ Fair(b) /\ Owed(b)
  <2>1. yes \in BOOLEAN /\ no \in BOOLEAN /\ url \in Link /\ NoUrl \in Link BY DEF Link
  <2> QED BY <1>2, <1>3, <1>4, <1>6, <1>8, <2>1, NavigateKeeps
<1>10. page' = [b EXCEPT !.ops = Unsourcing(b)]
  BY <1>1, <1>7, <1>8 DEF Click, Unsourcing, Unsourced
<1>11. Sound(b) BY <1>9 DEF Sound
<1> QED BY <1>10, <1>11, UnsourceKeeps

LEMMA NativeActivationKeeps ==
  ASSUME Inv, NEW url \in Url, NativeActivation(url)
  PROVE  Sound(page')
<1>1. PICK p : p = Outdate(page) OBVIOUS
<1>2. Sound(page) /\ Base(page) /\ Fair(page) /\ Owed(page) /\ server \in Nat /\ url \in Link BY DEF Inv, Sound, Link
<1>3. Base(p) /\ Owed(p) BY <1>1, <1>2, OutdatedPage
<1>4. PICK b : b = IF page.life = "closed" THEN page ELSE Superseded(p) OBVIOUS
<1>5. Base(b) /\ Spare(b) /\ Fair(b) /\ Owed(b)
  <2>1. CASE page.life = "closed"
    <3>1. Spare(page) BY <2>1 DEF Spare, Off
    <3> QED BY <1>2, <1>4, <2>1, <3>1
  <2>2. CASE page.life # "closed"
    <3>1. b = Superseded(p) BY <1>4, <2>2
    <3> QED BY <1>3, <3>1, SupersededKeeps
  <2> QED BY <2>1, <2>2
<1>6. PICK r \in Link : r = Rec(page) BY <1>2, ActiveIs DEF Base
<1>7. page' = IF page.life # "closed" /\ Rec(page) # NoUrl THEN RecoverCommitted(b, r) ELSE Depart(b, url)
  BY <1>1, <1>4, <1>6 DEF NativeActivation
<1>8. PICK c : c = RecoverCommitted(b, r) OBVIOUS
<1>9. Base(c) /\ Fair(c) /\ Owed(c) BY <1>2, <1>5, <1>8, RecoverCommittedKeeps
<1>10. PICK d : d = Depart(b, url) OBVIOUS
<1>11. Base(d) /\ Fair(d) /\ Owed(d) BY <1>2, <1>5, <1>10, DepartKeeps
<1> QED BY <1>7, <1>8, <1>9, <1>10, <1>11 DEF Sound

LEMMA PolicyActivationKeeps ==
  ASSUME Inv, NEW url \in Url, PolicyActivation(url)
  PROVE  Sound(page')
<1>1. PICK p : p = Outdate(page) OBVIOUS
<1>2. Sound(page) /\ Base(page) /\ Typed(page) /\ url \in Link /\ page.truthUrl \in Link
  BY DEF Inv, Sound, Base, Typed, Page, Link
<1>3. Base(p) /\ Owed(p) /\ (Spare(page) => Spare(p)) BY <1>1, <1>2, OutdatedPage
<1>4. page.active # 0 BY <1>2, ActiveIs DEF PolicyActivation
<1>5. Spare(p) BY <1>2, <1>3, <1>4, SpareUnlessIdle DEF Idle
<1>6. PICK u : u = Abort(p) OBVIOUS
<1>7. Base(u) /\ Spare(u) /\ Owed(u) BY <1>3, <1>5, <1>6, AbortKeeps
<1>8. PICK a : a = Relinquish(u) OBVIOUS
<1>9. Base(a) /\ Spare(a) /\ Fair(a) /\ Owed(a) BY <1>7, <1>8, RelinquishKeeps
<1>10. PICK w : w = CloseTraversal(a) OBVIOUS
<1>11. Base(w) /\ Spare(w) /\ Fair(w) /\ Owed(w) BY <1>9, <1>10, CloseTraversalKeeps
<1>12. PICK t \in Link : t = page.truthUrl BY <1>2
<1>13. PICK v : v = RepairDisplayedTruth(w, t) OBVIOUS
<1>14. Base(v) /\ Spare(v) /\ Fair(v) /\ Owed(v) BY <1>11, <1>13, RepairKeeps
<1>15. PICK b : b = IF page.traversing THEN v ELSE a OBVIOUS
<1>16. Base(b) /\ Spare(b) /\ Fair(b) /\ Owed(b) BY <1>9, <1>14, <1>15
<1>17. PICK d : d = Depart(b, url) OBVIOUS
<1>18. Base(d) /\ Fair(d) /\ Owed(d) BY <1>2, <1>16, <1>17, DepartKeeps
<1>19. PICK l \in BOOLEAN : l = (d.lapsed \/ Href(b) # b.truthUrl) OBVIOUS
<1>20. d \in Page BY <1>18 DEF Base, Typed
<1>21. PICK c : c = [d EXCEPT !.lapsed = l] OBVIOUS
<1>22. page' = c
  <2>1. page' = [Depart(b, url) EXCEPT !.lapsed = @ \/ Href(b) # b.truthUrl]
    BY <1>1, <1>6, <1>8, <1>10, <1>12, <1>13, <1>15 DEF PolicyActivation
  <2> QED BY <1>17, <1>19, <1>20, <1>21, <2>1 DEF Page
<1>23. Base(c) /\ Fair(c) /\ Owed(c)
  <2>1. l \in BOOLEAN OBVIOUS
  <2> QED BY <1>18, <1>19, <1>21, <2>1, LapseKeeps
<1> QED BY <1>22, <1>23 DEF Sound

LEMMA AuxiliaryClickKeeps ==
  ASSUME Inv, AuxiliaryClick
  PROVE  Sound(page')
<1>1. PICK p : p = Outdate(page) OBVIOUS
<1>2. Sound(page) /\ Base(page) /\ Typed(page) BY DEF Inv, Sound, Base
<1>3. Base(p) /\ Owed(p) /\ p.active = page.active BY <1>1, <1>2, OutdatedPage, OutdateKind
<1>4. PICK b : b = Superseded(p) OBVIOUS
<1>5. /\ Base(b) /\ Spare(b) /\ Fair(b) /\ Owed(b) /\ b.active = p.active
      /\ \A q \in b.ops : q.seq = b.active => q.aborted
  BY <1>3, <1>4, SupersededKeeps
<1>6. PICK o \in Active(page) :
        page' = IF page.carrier = o.seq THEN b
                ELSE [b EXCEPT !.carrier = o.seq, !.timers = @ \cup {Timer("native", o.seq, 0, o.truth, o.rec)}]
  BY <1>1, <1>4 DEF AuxiliaryClick
<1>7. o \in Operation /\ o.seq = b.active /\ o.seq \in Nat \ {0} /\ o.truth \in Link /\ o.rec \in Link
  BY <1>2, <1>3, <1>5 DEF Active, Typed, Page, Operation
<1>8. CASE page.carrier = o.seq BY <1>5, <1>6, <1>8 DEF Sound
<1>9. CASE page.carrier # o.seq
  <2>1. PICK n \in Nat : n = o.seq BY <1>7
  <2>2. PICK t \in TimerRecord : t = Timer("native", o.seq, 0, o.truth, o.rec) BY <1>7 DEF Timer, TimerRecord, Link
  <2>3. PICK c : c = [b EXCEPT !.carrier = n, !.timers = @ \cup {t}] OBVIOUS
  <2>4. page' = c BY <1>6, <1>9, <2>1, <2>2, <2>3
  <2>5. b \in Page BY <1>5 DEF Base, Typed
  <2>6. /\ c \in Page /\ c.active = b.active /\ c.carrier = n /\ c.timers = b.timers \cup {t}
        /\ c.ops = b.ops /\ c.lapsed = b.lapsed /\ c.traversal = b.traversal
        /\ c.entries = b.entries /\ c.cur = b.cur
        /\ c.mutationRecovery = b.mutationRecovery /\ c.pushRecovery = b.pushRecovery
        /\ c.supersession = b.supersession /\ c.life = b.life /\ c.departure = b.departure
        /\ c.observers = b.observers /\ c.prompted = b.prompted /\ c.jumps = b.jumps
    BY <2>3, <2>5, ZenonT(60) DEF Page
  <2> HIDE <2>3
  <2>7. Typed(c)
    <3>1. PICK T : T = b.timers OBVIOUS
    <3>2. IsFiniteSet(T) BY <1>5, <3>1 DEF Base, Typed
    <3>3. IsFiniteSet(T \cup {t}) BY <3>2, FS_AddElement
    <3> QED BY <1>5, <2>6, <3>1, <3>3 DEF Base, Typed
  <2>8. Unique(c) /\ Exclusive(c) /\ Placeholder(c) /\ Travs(c) /\ Closing(c)
    BY <1>5, <2>6 DEF Base, Unique, Exclusive, Placeholder, Travs, Closing
  <2>9. Carried(c) BY <1>5, <1>7, <2>1, <2>6 DEF Carried
  <2>10. (Off(b) <=> Off(c)) /\ (\A r : Live(b, r) <=> Live(c, r)) /\ (Owed(b) => Owed(c))
    BY <2>6 DEF Off, NoReturn, Live, Owed
  <2>11. Rolling(c) BY <1>5, <2>6, <2>10 DEF Spare, Rolling
  <2>12. Fair(c) BY <1>5, <2>6, <2>10 DEF Fair
  <2> QED BY <1>5, <2>4, <2>7, <2>8, <2>9, <2>10, <2>11, <2>12 DEF Base, Sound
<1> QED BY <1>8, <1>9

LEMMA SubmitKeeps ==
  ASSUME Inv, Submit
  PROVE  Sound(page')
<1>1. PICK p : p = Outdate(page) OBVIOUS
<1>2. Sound(page) /\ Base(page) /\ Typed(page) /\ server \in Nat BY DEF Inv, Sound, Base
<1>3. Base(p) /\ Owed(p) /\ (Spare(page) => Spare(p)) BY <1>1, <1>2, OutdatedPage
<1>4. PICK s : s = Superseded(p) OBVIOUS
<1>5. Base(s) /\ Spare(s) /\ Owed(s) BY <1>3, <1>4, SupersededKeeps
<1>6. PICK no \in BOOLEAN : no = FALSE OBVIOUS
<1>7. PICK r \in Link : r = Rec(page) BY <1>2, ActiveIs
<1>8. PICK obs \in ObserverRecord : obs = Observer(s, "fallback", no, 0, r) /\ obs.kind # "close"
  <2>1. no \in BOOLEAN /\ 0 \in Nat OBVIOUS
  <2> QED BY <1>5, <2>1, ObserverIs DEF Base
<1>9. PICK e : e = Observe(s, obs) OBVIOUS
<1>10. Base(e) /\ Spare(e) /\ Owed(e) BY <1>5, <1>8, <1>9, ObserveKeeps
<1>11. PICK b : b = IF ~page.traversing THEN p ELSE IF Rec(page) = NoUrl THEN s ELSE e OBVIOUS
<1>12. Base(b) /\ Spare(b) /\ Owed(b)
  <2>1. CASE ~page.traversing
    <3>1. Spare(p) BY <1>2, <1>3, <2>1, SpareUnlessIdle DEF Idle
    <3> QED BY <1>3, <1>11, <2>1, <3>1
  <2>2. CASE page.traversing BY <1>5, <1>10, <1>11, <2>2
  <2> QED BY <2>1, <2>2
<1>13. PICK q : q = Op(b, "post", NoUrl, no, 0, NoUrl) OBVIOUS
<1>14. q \in Operation /\ q.seq = FreshSeq(b) /\ q.trav = 0 /\ ~q.outdated
  <2>1. no \in BOOLEAN /\ 0 \in Nat /\ NoUrl \in Link BY DEF Link
  <2> QED BY <1>2, <1>12, <1>13, <2>1, OpIs DEF Base
<1>15. PICK c : c = Begin(b, q) OBVIOUS
<1>16. Base(c) /\ Fair(c) /\ Owed(c) BY <1>12, <1>14, <1>15, StartKeeps
<1>17. page' = c BY <1>1, <1>4, <1>6, <1>7, <1>8, <1>9, <1>11, <1>13, <1>15 DEF Submit
<1> QED BY <1>16, <1>17 DEF Sound

LEMMA SelectKeeps ==
  ASSUME NEW b, Base(b), NEW i \in DOMAIN b.entries, NEW c, c = [b EXCEPT !.cur = i]
  PROVE  /\ Base(c) /\ (Fair(b) => Fair(c)) /\ (Owed(b) => Owed(c)) /\ c.shown = b.shown
<1>1. b \in Page /\ b.entries \in Seq(Entry) BY DEF Base, Typed, Page
<1>2. i \in Nat BY <1>1
<1>3. c \in Page /\ c.cur \in DOMAIN c.entries /\ Alike(b, c) /\ c.shown = b.shown BY <1>1, <1>2 DEF Page, Alike
<1> QED BY <1>3, AlikeKeeps

LEMMA TraverseKeeps ==
  ASSUME Inv, NEW i \in DOMAIN page.entries, Traverse(i)
  PROVE  Sound(page')
<1>1. PICK p : p = Outdate(page) OBVIOUS
<1>2. Sound(page) /\ Base(page) /\ server \in Nat BY DEF Inv, Sound
<1>3. Base(p) /\ p.entries = page.entries BY <1>1, <1>2, OutdatedPage, OutdateKind
<1>4. PICK b : b = [p EXCEPT !.cur = i] OBVIOUS
<1>5. Base(b) BY <1>3, <1>4, SelectKeeps
<1>6. PICK enhance \in BOOLEAN, safe \in BOOLEAN : page' = Arrived(b, enhance, safe) BY <1>1, <1>4 DEF Traverse
<1>7. enhance \in BOOLEAN /\ safe \in BOOLEAN OBVIOUS
<1> QED BY <1>2, <1>5, <1>6, <1>7, ArrivedKeeps

LEMMA ScrollKeeps ==
  ASSUME Inv, Scroll
  PROVE  Sound(page')
<1>1. Sound(page) /\ Base(page) /\ Typed(page) /\ Owed(page) BY DEF Inv, Sound, Base
<1>2. Spare(page) BY <1>1, SpareUnlessIdle DEF Scroll, Idle
<1>3. PICK a : a = Abort(page) OBVIOUS
<1>4. a = [page EXCEPT !.ops = Aborting(page)] /\ Base(a) /\ Spare(a) /\ Fair(a) /\ Owed(a) BY <1>1, <1>2, <1>3, AbortKeeps
<1>5. PICK r \in Link : r = Rec(page) BY <1>1, ActiveIs
<1>6. PICK n \in Nat : n = page.traversal BY <1>1 DEF Typed, Page
<1>7. PICK t \in TimerRecord : t = Timer("traversal", 0, n, NoUrl, r) BY DEF Timer, TimerRecord, Link
<1>8. PICK yes \in BOOLEAN : yes = TRUE OBVIOUS
<1>9. PICK c : c = [a EXCEPT !.recovering = yes, !.timers = @ \cup {t}] OBVIOUS
<1>10. a \in Page BY <1>4 DEF Base, Typed
<1>11. /\ c \in Page /\ Same(a, c) /\ c.timers = a.timers \cup {t} /\ c.pushRecovery = a.pushRecovery
       /\ c.mutationRecovery = a.mutationRecovery /\ c.supersession = a.supersession /\ c.traversal = a.traversal
       /\ c.jumps = a.jumps /\ c.entries = a.entries /\ c.cur = a.cur
  <2>1. yes \in BOOLEAN OBVIOUS
  <2> QED BY <1>9, <1>10, <2>1, ZenonT(60) DEF Page, Same
<1>12. Typed(c)
  <2>1. PICK T : T = a.timers OBVIOUS
  <2>2. IsFiniteSet(T) BY <1>4, <2>1 DEF Base, Typed
  <2>3. IsFiniteSet(T \cup {t}) BY <2>2, FS_AddElement
  <2> QED BY <1>4, <1>11, <2>1, <2>3 DEF Base, Typed, Same
<1>13. Exclusive(c) BY <1>4, <1>11 DEF Base, Exclusive
<1>14. Base(c) /\ Fair(c) BY <1>4, <1>11, <1>12, <1>13, RewriteKeeps
<1>15. Owed(c) BY <1>4, <1>11 DEF Owed, Same
<1>16. PICK l \in BOOLEAN : l = (c.lapsed \/ (page.pushRecovery # {} /\ Rec(page) # NoUrl)) OBVIOUS
<1>17. PICK d : d = [c EXCEPT !.lapsed = l] OBVIOUS
<1>18. Base(d) /\ Fair(d) /\ Owed(d)
  <2>1. l \in BOOLEAN OBVIOUS
  <2> QED BY <1>14, <1>15, <1>16, <1>17, <2>1, LapseKeeps
<1>19. page' = d
  <2>1. page' = [a EXCEPT !.recovering = yes,
                          !.lapsed = @ \/ (page.pushRecovery # {} /\ Rec(page) # NoUrl),
                          !.timers = @ \cup {t}]
    BY <1>3, <1>5, <1>6, <1>7, <1>8 DEF Scroll
  <2>2. c.lapsed = a.lapsed /\ c.timers = a.timers \cup {t} BY <1>11 DEF Same
  <2> QED BY <1>9, <1>10, <1>16, <1>17, <2>1, <2>2 DEF Page
<1> QED BY <1>18, <1>19 DEF Sound

LEMMA ServeKeeps ==
  ASSUME Inv, Serve
  PROVE  Sound(page')
<1>1. Sound(page) /\ Base(page) /\ Typed(page) BY DEF Inv, Sound, Base
<1>2. CASE UNCHANGED page BY <1>1, <1>2
<1>3. CASE \E o \in page.ops :
             /\ o.kind = "post" /\ ~o.served
             /\ page' = [page EXCEPT !.ops = (@ \ {o}) \cup {[o EXCEPT !.served = TRUE]}]
  <2>1. PICK o \in page.ops :
             page' = [page EXCEPT !.ops = (@ \ {o}) \cup {[o EXCEPT !.served = TRUE]}]
    BY <1>3
  <2>2. page.ops \subseteq Operation /\ IsFiniteSet(page.ops) /\ Unique(page) /\ page \in Page
    BY <1>1 DEF Base, Typed, Page
  <2>3. PICK u : u = [o EXCEPT !.served = TRUE] OBVIOUS
  <2>4. /\ u \in Operation /\ u.seq = o.seq /\ u.trav = o.trav /\ u.kind = o.kind /\ u.aborted = o.aborted
        /\ u.outdated = o.outdated
    BY <2>2, <2>3 DEF Operation
  <2>5. PICK X : X = (page.ops \ {o}) \cup {u} OBVIOUS
  <2>6. X \in SUBSET Operation /\ IsFiniteSet(X)
    <3>1. PICK Y : Y = page.ops \ {o} OBVIOUS
    <3>2. IsFiniteSet(Y) BY <2>2, <3>1, FS_Subset
    <3>3. IsFiniteSet(Y \cup {u}) BY <3>2, FS_AddElement
    <3> QED BY <2>2, <2>4, <2>5, <3>1, <3>3
  <2>7. From(X, page.ops) BY <2>4, <2>5 DEF From
  <2>8. NotOlder(X, page.ops) BY <2>2, <2>4, <2>5 DEF NotOlder, Unique
  <2>9. \A q, x \in X : q.seq = x.seq => q = x BY <2>2, <2>4, <2>5 DEF Unique
  <2>10. PICK c : c = [page EXCEPT !.ops = X] OBVIOUS
  <2>11. page' = c BY <2>1, <2>2, <2>3, <2>5, <2>10 DEF Page
  <2>12. Base(c) /\ (Owed(page) => Owed(c)) /\ (Fair(page) => Fair(c))
    BY <1>1, <2>6, <2>7, <2>8, <2>9, <2>10, OpsChange DEF Sound
  <2> QED BY <1>1, <2>11, <2>12 DEF Sound
<1> QED BY <1>2, <1>3 DEF Serve

\* all but the life is as it was
LifeOnly(b, c, l) ==
  /\ c.ops = b.ops /\ c.active = b.active /\ c.carrier = b.carrier /\ c.life = l
  /\ c.traversing = b.traversing /\ c.traversal = b.traversal /\ c.recovering = b.recovering
  /\ c.mutationRecovery = b.mutationRecovery /\ c.pushRecovery = b.pushRecovery
  /\ c.supersession = b.supersession /\ c.departure = b.departure
  /\ c.observers = b.observers /\ c.prompted = b.prompted /\ c.timers = b.timers
  /\ c.jumps = b.jumps /\ c.lapsed = b.lapsed /\ c.shown = b.shown /\ c.entries = b.entries /\ c.cur = b.cur

LEMMA LifeIs ==
  ASSUME NEW b, Typed(b), NEW l \in {"active", "closing", "closed"}, NEW c, c = [b EXCEPT !.life = l]
  PROVE  Typed(c) /\ LifeOnly(b, c, l)
<1>1. b \in Page BY DEF Typed
<1>2. c \in Page /\ LifeOnly(b, c, l) BY <1>1 DEF Page, LifeOnly
<1> QED BY <1>2 DEF Typed, LifeOnly

LEMMA ClosedKeeps ==
  ASSUME NEW b, Base(b), NEW c, c = [b EXCEPT !.life = "closed"]
  PROVE  Sound(c) /\ Off(c)
<1>1. Typed(c) /\ LifeOnly(b, c, "closed") BY LifeIs DEF Base
<1>2. Unique(c) /\ Exclusive(c) /\ Placeholder(c) /\ Travs(c) /\ Carried(c) /\ Closing(c)
  BY <1>1 DEF Base, Unique, Exclusive, Placeholder, Travs, Carried, Closing, LifeOnly
<1>3. Off(c) /\ Owed(c) BY <1>1 DEF Off, Owed, LifeOnly
<1>4. Rolling(c) /\ Fair(c) BY <1>3 DEF Rolling, Fair
<1> QED BY <1>1, <1>2, <1>3, <1>4 DEF Base, Sound

LEMMA CloseKeeps ==
  ASSUME Inv, Close
  PROVE  Sound(page')
<1>1. PICK p : p = Outdate(page) OBVIOUS
<1>2. Sound(page) /\ Base(page) /\ Typed(page) BY DEF Inv, Sound, Base
<1>3. /\ Base(p) /\ Owed(p) /\ (Spare(page) => Spare(p))
      /\ p.life = page.life /\ p.prompted = page.prompted /\ p.departure = page.departure
      /\ p.observers = page.observers /\ p.lapsed = page.lapsed
  BY <1>1, <1>2, OutdatedPage, OutdateKind
<1>4. PICK b : b = Abort(p) OBVIOUS
<1>5. /\ b = [p EXCEPT !.ops = Aborting(p)] /\ Base(b) /\ Fair(b) /\ Owed(b) /\ (Spare(p) => Spare(b))
      /\ \A q \in b.ops : q.seq = p.active => q.aborted
  BY <1>3, <1>4, AbortKeeps
<1>6. p \in Page /\ b \in Page /\ Typed(b) BY <1>3, <1>5 DEF Base, Typed
<1>7. /\ b.life = "active" /\ b.prompted = page.prompted /\ b.departure = page.departure
      /\ b.observers = page.observers /\ b.lapsed = page.lapsed /\ b.active = p.active
  BY <1>3, <1>5, <1>6 DEF Page, Close
<1>8. PICK r \in Link : r = Rec(page) BY <1>2, ActiveIs
<1>9. CASE ~page.traversing /\ Kind(page) # "post" /\ Rec(page) = NoUrl
  <2>1. page' = [b EXCEPT !.life = "closed"] BY <1>1, <1>4, <1>9 DEF Close
  <2>2. PICK c : c = [b EXCEPT !.life = "closed"] OBVIOUS
  <2>3. Sound(c) BY <1>5, <2>2, ClosedKeeps
  <2> QED BY <2>1, <2>2, <2>3
<1>10. CASE ~(~page.traversing /\ Kind(page) # "post" /\ Rec(page) = NoUrl)
  <2>1. PICK h \in Link : h = Href(b) BY <1>6, CurrentIs
  <2>2. PICK yes \in BOOLEAN, no \in BOOLEAN : yes = TRUE /\ no = FALSE OBVIOUS
  <2>3. PICK obs \in ObserverRecord : obs = Observer(b, "close", yes, 0, r) /\ obs.kind = "close" /\ obs.rec = r
    <3>1. yes \in BOOLEAN /\ 0 \in Nat OBVIOUS
    <3> QED BY <1>6, <3>1, ObserverIs
  <2>4. PICK s : s = Observed(b.observers, obs) OBVIOUS
  <2>5. s \in Seq(ObserverRecord) /\ Elements(s) = Elements(b.observers) \cup {obs}
    <3>1. b.observers \in Seq(ObserverRecord) BY <1>6 DEF Page
    <3> QED BY <2>4, <3>1, ObservedIs
  <2>6. PICK d \in [url : Link, asked : BOOLEAN] : d = [url |-> h, asked |-> no] BY <2>2
  <2>7. ~d.asked BY <2>2, <2>6
  <2>8. PICK c : c = [b EXCEPT !.life = "closing", !.observers = s, !.departure = {d}] OBVIOUS
  <2>9. page' = c
    <3>1. page' = Depart(Observe([b EXCEPT !.life = "closing"], Observer(b, "close", TRUE, 0, Rec(page))), Href(b))
      BY <1>1, <1>4, <1>10 DEF Close
    <3>2. PICK l : l = [b EXCEPT !.life = "closing"] OBVIOUS
    <3>3. l \in Page /\ l.observers = b.observers BY <1>6, <3>2 DEF Page
    <3>4. Observe(l, obs) = [l EXCEPT !.observers = s] BY <2>4, <3>3 DEF Observe, Observed
    <3>5. page' = [[l EXCEPT !.observers = s] EXCEPT !.departure = {d}]
      BY <1>8, <2>1, <2>2, <2>3, <2>6, <3>1, <3>2, <3>4 DEF Depart
    <3> QED BY <1>6, <2>8, <3>2, <3>3, <3>5 DEF Page
  <2>10. /\ c \in Page /\ c.life = "closing" /\ c.observers = s /\ c.departure = {d}
         /\ c.ops = b.ops /\ c.active = b.active /\ c.carrier = b.carrier
         /\ c.traversal = b.traversal /\ c.entries = b.entries /\ c.cur = b.cur
         /\ c.mutationRecovery = b.mutationRecovery /\ c.pushRecovery = b.pushRecovery
         /\ c.supersession = b.supersession /\ c.prompted = b.prompted /\ c.timers = b.timers
         /\ c.jumps = b.jumps /\ c.lapsed = b.lapsed
    BY <1>6, <2>5, <2>8, ZenonT(60) DEF Page
  <2> HIDE <2>8
  <2>11. Typed(c) BY <1>6, <2>10 DEF Typed
  <2>12. Unique(c) /\ Exclusive(c) /\ Placeholder(c) /\ Travs(c) /\ Carried(c)
    BY <1>5, <2>10 DEF Base, Unique, Exclusive, Placeholder, Travs, Carried
  <2>13. Closing(c) BY <2>7, <2>10 DEF Closing
  <2>14. Spare(c)
    <3>1. CASE Spare(page)
      <4>1. Spare(b) BY <1>3, <1>5, <3>1
      <4>2. Off(b) => Off(c) BY <1>7, <2>10 DEF Off
      <4> QED BY <2>10, <4>1, <4>2 DEF Spare, Live
    <3>2. CASE ~Spare(page)
      <4>1. Idle(page) BY <1>2, <3>2, SpareUnlessIdle
      <4>2. Elements(page.prompted) = {} BY <4>1 DEF Idle, Elements
      <4>3. \A y \in Elements(page.observers) : y.kind # "close" BY <1>2, <4>1 DEF Base, Closing, Idle
      <4>4. r = NoUrl BY <1>2, <1>8, <4>1, ActiveIs DEF Idle
      <4>5. NoReturn(c) BY <1>7, <2>3, <2>5, <2>10, <4>2, <4>3, <4>4 DEF NoReturn
      <4> QED BY <2>10, <4>5 DEF Spare, Off
    <3> QED BY <3>1, <3>2
  <2>15. Rolling(c) BY <2>14 DEF Spare, Rolling
  <2>16. Fair(c) BY <1>5, <1>7, <2>10 DEF Fair
  <2>17. Owed(c) BY <1>5, <1>7, <2>10 DEF Owed
  <2> QED BY <2>9, <2>11, <2>12, <2>13, <2>15, <2>16, <2>17 DEF Base, Sound
<1> QED BY <1>9, <1>10

LEMMA AnswerNavigationKeeps ==
  ASSUME server \in Nat, NEW b, Sound(b), Waiting(b), NEW o \in b.ops, Owns(b, o), o.kind = "nav",
         NEW c \in AnswerNavigation(b, o)
  PROVE  Sound(c) /\ (c.shown = b.shown \/ b.life = "active")
<1>0. Base(b) /\ Typed(b) /\ b \in Page /\ o \in Operation /\ o.seq = b.active /\ ~o.aborted
  BY DEF Sound, Base, Typed, Page, Owns
<1>1. /\ o.url \in Link /\ o.truth \in Link /\ o.rec \in Link /\ o.replace \in BOOLEAN /\ o.began \in Nat
      /\ o.seq # 0
  BY <1>0 DEF Operation
<1>2. Spare(b) BY <1>0, <1>1, SpareUnlessIdle DEF Idle
<1>3. PICK no \in BOOLEAN : no = FALSE OBVIOUS
<1>4. ASSUME NEW u \in Link, c = EndOp(Fallback(b, u, no, o.rec), o) PROVE Sound(c) /\ c.shown = b.shown
  <2>1. no \in BOOLEAN OBVIOUS
  <2> QED BY <1>1, <1>2, <1>4, <2>1, FallbackEndKeeps
<1>5. CASE c = EndOp(Fallback(b, o.url, FALSE, o.rec), o) BY <1>1, <1>3, <1>4, <1>5
<1>6. CASE \E u \in Url \cup {o.truth} : c = EndOp(Fallback(b, u, FALSE, o.rec), o)
  <2>1. PICK u \in Link : c = EndOp(Fallback(b, u, no, o.rec), o) BY <1>1, <1>3, <1>6 DEF Link
  <2> QED BY <1>4, <2>1
<1>7. CASE c = EndOp(CommitFails(b, o), o) BY <1>0, <1>2, <1>7, CommitFailsKeeps
<1>8. CASE Commits(b, o) /\ \E v \in {o.began, server} : c = EndOp(Commit(b, o.url, o.replace, v), o)
  <2>1. PICK v \in Nat : c = EndOp(Commit(b, o.url, o.replace, v), o) BY <1>1, <1>8
  <2>2. PICK d : d = Commit(b, o.url, o.replace, v) OBVIOUS
  <2>3. Alike(b, d) /\ Base(d) /\ Fair(d) /\ Owed(d) BY <1>0, <1>1, <2>2, CommitKeeps DEF Sound
  <2>4. o \in d.ops BY <2>3 DEF Alike
  <2>5. Base(EndOp(d, o)) /\ Fair(EndOp(d, o)) /\ Owed(EndOp(d, o)) BY <2>3, <2>4, OwnEndKeeps
  <2> QED BY <1>8, <2>1, <2>2, <2>5 DEF Commits, Sound
<1> QED BY <1>5, <1>6, <1>7, <1>8 DEF AnswerNavigation

LEMMA AnswerPostKeeps ==
  ASSUME server \in Nat, NEW b, Sound(b), Waiting(b), NEW o \in b.ops, Owns(b, o), o.kind = "post",
         NEW c \in AnswerPost(b, o)
  PROVE  Sound(c) /\ (c.shown = b.shown \/ b.life = "active")
<1>0. Base(b) /\ Typed(b) /\ b \in Page /\ o \in Operation /\ o.seq = b.active /\ ~o.aborted /\ Fair(b) /\ Owed(b)
  BY DEF Sound, Base, Typed, Page, Owns
<1>1. o.truth \in Link /\ o.seq # 0 BY <1>0 DEF Operation
<1>2. Spare(b) BY <1>0, <1>1, SpareUnlessIdle DEF Idle
<1>3. PICK no \in BOOLEAN : no = FALSE OBVIOUS
<1>4. no \in BOOLEAN OBVIOUS
<1>5. CASE c = EndOp(Fallback(b, o.truth, FALSE, o.truth), o)
  <2>1. c = EndOp(Fallback(b, o.truth, no, o.truth), o) BY <1>3, <1>5
  <2> QED BY <1>1, <1>2, <1>4, <2>1, FallbackEndKeeps
<1>6. CASE c = EndOp(CommitFails(b, o), o) BY <1>0, <1>2, <1>6, CommitFailsKeeps
<1>7. PICK e : e = EndOp(b, o) OBVIOUS
<1>8. Base(e) /\ Spare(e) /\ Fair(e) /\ Owed(e) /\ e.shown = b.shown BY <1>0, <1>2, <1>7, OwnEndKeeps
<1>9. CASE c = RecoverCommitted(EndOp(b, o), o.truth)
  <2>1. c = RecoverCommitted(e, o.truth) BY <1>7, <1>9
  <2>2. Carries(e, c) /\ Base(c) /\ Fair(c) /\ Owed(c) BY <1>1, <1>8, <2>1, RecoverCommittedKeeps
  <2>3. c.shown = e.shown BY <2>2 DEF Carries
  <2> QED BY <1>8, <2>2, <2>3 DEF Sound
<1>10. CASE \E u \in Url, safe \in BOOLEAN : c = Navigate(EndOp(b, o), u, FALSE, 0, o.truth, safe)
  <2>1. PICK u \in Link, safe \in BOOLEAN : c = Navigate(e, u, no, 0, o.truth, safe) BY <1>3, <1>7, <1>10 DEF Link
  <2>2. Base(c) /\ Fair(c) /\ Owed(c) /\ c.shown = e.shown
    <3>1. u \in Link /\ safe \in BOOLEAN /\ 0 \in Nat OBVIOUS
    <3> QED BY <1>1, <1>4, <1>8, <2>1, <3>1, NavigateKeeps
  <2> QED BY <1>8, <2>2 DEF Sound
<1>11. CASE Commits(b, o) /\ c = EndOp(Commit(b, o.truth, FALSE, server), o)
  <2>1. PICK d : d = Commit(b, o.truth, no, server) OBVIOUS
  <2>2. Alike(b, d) /\ Base(d) /\ Fair(d) /\ Owed(d) BY <1>0, <1>1, <1>4, <2>1, CommitKeeps
  <2>3. o \in d.ops BY <2>2 DEF Alike
  <2>4. Base(EndOp(d, o)) /\ Fair(EndOp(d, o)) /\ Owed(EndOp(d, o)) BY <2>2, <2>3, OwnEndKeeps
  <2> QED BY <1>3, <1>11, <2>1, <2>4 DEF Commits, Sound
<1>12. PICK N : N = {Navigate(EndOp(b, o), n[1], FALSE, 0, o.truth, n[2]) : n \in Url \X BOOLEAN} OBVIOUS
<1>13. c \in N => \E u \in Url, safe \in BOOLEAN : c = Navigate(EndOp(b, o), u, FALSE, 0, o.truth, safe)
  <2> SUFFICES ASSUME c \in N PROVE \E u \in Url, safe \in BOOLEAN : c = Navigate(EndOp(b, o), u, FALSE, 0, o.truth, safe)
    OBVIOUS
  <2>1. PICK n \in Url \X BOOLEAN : c = Navigate(EndOp(b, o), n[1], FALSE, 0, o.truth, n[2]) BY <1>12
  <2>2. n[1] \in Url /\ n[2] \in BOOLEAN OBVIOUS
  <2> QED BY <2>1, <2>2
<1>14. AnswerPost(b, o) =
         {EndOp(Fallback(b, o.truth, FALSE, o.truth), o)}
         \cup (IF ~InPlace(b, o) \/ ~o.served THEN {}
               ELSE {EndOp(CommitFails(b, o), o), RecoverCommitted(EndOp(b, o), o.truth)} \cup N
                    \cup (IF Commits(b, o) THEN {EndOp(Commit(b, o.truth, FALSE, server), o)} ELSE {}))
  BY <1>12 DEF AnswerPost
<1> HIDE <1>12
<1>15. \/ c = EndOp(Fallback(b, o.truth, FALSE, o.truth), o)
       \/ c = EndOp(CommitFails(b, o), o) \/ c = RecoverCommitted(EndOp(b, o), o.truth)
       \/ c \in N
       \/ (Commits(b, o) /\ c = EndOp(Commit(b, o.truth, FALSE, server), o))
  <2>1. PICK x1, x2, x3, x4 : /\ x1 = EndOp(Fallback(b, o.truth, FALSE, o.truth), o) /\ x2 = EndOp(CommitFails(b, o), o)
                              /\ x3 = RecoverCommitted(EndOp(b, o), o.truth)
                              /\ x4 = EndOp(Commit(b, o.truth, FALSE, server), o)
    OBVIOUS
  <2>2. c \in {x1} \cup (IF ~InPlace(b, o) \/ ~o.served THEN {} ELSE {x2, x3} \cup N \cup (IF Commits(b, o) THEN {x4} ELSE {}))
    BY <1>14, <2>1
  <2>3. c = x1 \/ c = x2 \/ c = x3 \/ c \in N \/ (Commits(b, o) /\ c = x4) BY <2>2
  <2> QED BY <2>1, <2>3
<1> QED BY <1>5, <1>6, <1>9, <1>10, <1>11, <1>13, <1>15

LEMMA ObsoleteKeeps ==
  ASSUME NEW b, Sound(b), NEW o \in b.ops
  PROVE  Sound(Obsolete(b, o)) /\ Obsolete(b, o).shown = b.shown
<1>0. Base(b) /\ Fair(b) /\ Owed(b) /\ o \in Operation BY DEF Sound, Base, Typed, Page
<1>1. o.truth \in Link /\ o.seq # 0 BY <1>0 DEF Operation
<1>2. PICK no \in BOOLEAN : no = FALSE OBVIOUS
<1>3. CASE b.active = o.seq /\ Obsolete(b, o) = EndOp(Fallback(b, o.truth, FALSE, o.truth), o)
  <2>1. Spare(b) BY <1>0, <1>1, <1>3, SpareUnlessIdle DEF Idle
  <2>2. Obsolete(b, o) = EndOp(Fallback(b, o.truth, no, o.truth), o) BY <1>2, <1>3
  <2>3. no \in BOOLEAN OBVIOUS
  <2>4. PICK c : c = EndOp(Fallback(b, o.truth, no, o.truth), o) OBVIOUS
  <2>5. Sound(c) /\ c.shown = b.shown BY <1>1, <2>1, <2>3, <2>4, FallbackEndKeeps
  <2> QED BY <2>2, <2>4, <2>5
<1>4. CASE Obsolete(b, o) = EndOp(b, o) BY <1>0, <1>4, OwnEndKeeps DEF Sound
<1> QED BY <1>3, <1>4 DEF Obsolete

LEMMA ArriveKeeps ==
  ASSUME Inv, NEW o \in page.ops, Arrive(o)
  PROVE  /\ Sound(page')
         /\ page'.shown = page.shown \/ (Owns(page, o) /\ page.life = "active" /\ Waiting(page))
<1>1. Sound(page) /\ server \in Nat BY DEF Inv
<1>2. CASE ~Owns(page, o)
  <2>1. page' = Obsolete(page, o) BY <1>2 DEF Arrive
  <2> QED BY <1>1, <2>1, ObsoleteKeeps
<1>3. CASE Owns(page, o)
  <2>1. Waiting(page) BY <1>3 DEF Arrive, Waiting, Unprompted
  <2>2. CASE o.kind = "nav"
    <3>1. page' \in AnswerNavigation(page, o) BY <1>3, <2>2 DEF Arrive
    <3>2. Sound(page') /\ (page'.shown = page.shown \/ page.life = "active")
      BY <1>1, <1>3, <2>1, <2>2, <3>1, AnswerNavigationKeeps
    <3> QED BY <1>3, <2>1, <3>2
  <2>3. CASE o.kind = "post"
    <3>1. page' \in AnswerPost(page, o) BY <1>3, <2>3 DEF Arrive
    <3>2. Sound(page') /\ (page'.shown = page.shown \/ page.life = "active")
      BY <1>1, <1>3, <2>1, <2>3, <3>1, AnswerPostKeeps
    <3> QED BY <1>3, <2>1, <3>2
  <2> QED BY <2>2, <2>3 DEF Arrive
<1> QED BY <1>2, <1>3

\* the operations without o, or with o made idle
LEMMA WithoutKeeps ==
  ASSUME NEW b, Sound(b), NEW o \in b.ops, NEW X, X = b.ops \ {o} \/ X = (b.ops \ {o}) \cup {[o EXCEPT !.kind = "idle"]},
         NEW c, c = [b EXCEPT !.ops = X]
  PROVE  Sound(c) /\ (Spare(b) => Spare(c)) /\ (Off(b) => Off(c)) /\ c.shown = b.shown
<1>1. b.ops \subseteq Operation /\ IsFiniteSet(b.ops) /\ Unique(b) /\ b \in Page BY DEF Sound, Base, Typed, Page
<1>2. PICK u : u = [o EXCEPT !.kind = "idle"] OBVIOUS
<1>3. /\ u \in Operation /\ u.seq = o.seq /\ u.trav = o.trav /\ u.aborted = o.aborted /\ u.outdated = o.outdated
      /\ u.kind = "idle"
  BY <1>1, <1>2 DEF Operation
<1>4. X \subseteq (b.ops \ {o}) \cup {u} BY <1>2
<1>5. X \in SUBSET Operation /\ IsFiniteSet(X)
  <2>1. PICK Y : Y = b.ops \ {o} OBVIOUS
  <2>2. IsFiniteSet(Y) BY <1>1, <2>1, FS_Subset
  <2>3. IsFiniteSet(Y \cup {u}) BY <2>2, FS_AddElement
  <2>4. IsFiniteSet(X) BY <1>4, <2>1, <2>3, FS_Subset
  <2> QED BY <1>1, <1>3, <1>4, <2>4
<1>6. From(X, b.ops) BY <1>3, <1>4 DEF From
<1>7. NotOlder(X, b.ops) BY <1>1, <1>3, <1>4 DEF NotOlder, Unique
<1>8. \A q, x \in X : q.seq = x.seq => q = x BY <1>1, <1>3, <1>4 DEF Unique
<1>9. /\ Base(c) /\ (Owed(b) => Owed(c)) /\ (Fair(b) => Fair(c)) /\ (Spare(b) => Spare(c)) /\ (Off(b) => Off(c))
  BY <1>5, <1>6, <1>7, <1>8, OpsChange DEF Sound
<1>10. c.shown = b.shown BY <1>1 DEF Page
<1> QED BY <1>9, <1>10 DEF Sound

LEMMA RecoveryTimerKeeps ==
  ASSUME Inv, NEW o \in page.ops, RecoveryTimer(o)
  PROVE  Sound(page')
<1>1. Sound(page) /\ Base(page) /\ Typed(page) /\ page \in Page /\ server \in Nat /\ o \in Operation
  BY DEF Inv, Sound, Base, Typed, Page
<1>2. o.url \in Link /\ o.rec \in Link /\ o.seq # 0 BY <1>1 DEF Operation
<1>20. PICK Y : Y = page.ops \ {o} OBVIOUS
<1>3. PICK r : r = [page EXCEPT !.ops = Y] OBVIOUS
<1>4. Sound(r) /\ (Spare(page) => Spare(r)) BY <1>1, <1>3, <1>20, WithoutKeeps
<1>5. PICK f : f = [r EXCEPT !.active = 0] OBVIOUS
<1>6. Base(f) /\ Fair(f) /\ Owed(f) /\ (Spare(r) => Spare(f)) BY <1>4, <1>5, FreeKeeps DEF Sound
<1>7. [page EXCEPT !.ops = @ \ {o}] = r BY <1>1, <1>3, <1>20 DEF Page
<1>8. \/ page.active # o.seq /\ page' = r
      \/ page' = [page EXCEPT !.ops = (@ \ {o}) \cup {[o EXCEPT !.kind = "idle"]}]
      \/ page.active = o.seq /\ page' = f
      \/ page.active = o.seq /\ page' = Fallback(f, o.url, FALSE, o.rec)
      \/ page.active = o.seq /\ \E safe \in BOOLEAN : page' = Navigate(f, o.url, TRUE, 0, o.rec, safe)
  BY <1>5, <1>7 DEF RecoveryTimer
<1>9. CASE page' = r BY <1>4, <1>9
<1>10. CASE page' = [page EXCEPT !.ops = (@ \ {o}) \cup {[o EXCEPT !.kind = "idle"]}]
  <2>1. PICK X : X = (page.ops \ {o}) \cup {[o EXCEPT !.kind = "idle"]} OBVIOUS
  <2>2. PICK c : c = [page EXCEPT !.ops = X] OBVIOUS
  <2>3. Sound(c) BY <1>1, <2>1, <2>2, WithoutKeeps
  <2> QED BY <1>1, <1>10, <2>1, <2>2, <2>3 DEF Page
<1>11. CASE page' = f BY <1>6, <1>11 DEF Sound
<1>12. page.active = o.seq => Spare(f) BY <1>1, <1>2, <1>4, <1>6, SpareUnlessIdle DEF Idle
<1>13. PICK yes \in BOOLEAN, no \in BOOLEAN : yes = TRUE /\ no = FALSE OBVIOUS
<1>14. yes \in BOOLEAN /\ no \in BOOLEAN /\ 0 \in Nat OBVIOUS
<1>15. CASE page.active = o.seq /\ page' = Fallback(f, o.url, FALSE, o.rec)
  <2>1. PICK c : c = Fallback(f, o.url, no, o.rec) OBVIOUS
  <2>2. Base(c) /\ Fair(c) /\ Owed(c) BY <1>2, <1>6, <1>12, <1>14, <1>15, <2>1, FallbackKeeps
  <2> QED BY <1>13, <1>15, <2>1, <2>2 DEF Sound
<1>16. CASE page.active = o.seq /\ \E safe \in BOOLEAN : page' = Navigate(f, o.url, TRUE, 0, o.rec, safe)
  <2>1. PICK safe \in BOOLEAN : page' = Navigate(f, o.url, yes, 0, o.rec, safe) BY <1>13, <1>16
  <2>2. safe \in BOOLEAN OBVIOUS
  <2>3. PICK c : c = Navigate(f, o.url, yes, 0, o.rec, safe) OBVIOUS
  <2>4. Base(c) /\ Fair(c) /\ Owed(c) BY <1>1, <1>2, <1>6, <1>12, <1>14, <1>16, <2>2, <2>3, NavigateKeeps
  <2> QED BY <2>1, <2>3, <2>4 DEF Sound
<1> QED BY <1>8, <1>9, <1>10, <1>11, <1>15, <1>16

LEMMA NativeTimerKeeps ==
  ASSUME Inv, NEW t \in page.timers, NativeTimer(t)
  PROVE  Sound(page')
<1>1. Sound(page) /\ Base(page) /\ Typed(page) /\ page \in Page /\ t \in TimerRecord /\ Fair(page) /\ Owed(page)
  BY DEF Inv, Sound, Base, Typed, Page
<1>2. t.url \in Link /\ t.rec \in Link /\ t.kind = "native" BY <1>1 DEF TimerRecord, NativeTimer
<1>3. Spare(page) BY <1>1, <1>2, SpareUnlessIdle DEF Idle
<1>4. PICK s : s = [page EXCEPT !.timers = @ \ {t}] OBVIOUS
<1>5. /\ Base(s) /\ Fair(s) /\ Spare(s) /\ Owed(s) /\ s.ops = page.ops /\ s.carrier = page.carrier
      /\ s.timers = page.timers \ {t}
  BY <1>1, <1>2, <1>3, <1>4, TimerKeeps DEF Same
<1>6. PICK X : X = {o \in page.ops : o.seq # t.op \/ o.kind # "held"} OBVIOUS
<1>7. X \subseteq page.ops /\ X \in SUBSET Operation /\ IsFiniteSet(X)
  <2>1. IsFiniteSet(page.ops) /\ page.ops \subseteq Operation BY <1>1 DEF Typed, Page
  <2> QED BY <1>6, <2>1, FS_Subset
<1>8. From(X, s.ops) BY <1>5, <1>7 DEF From
<1>9. NotOlder(X, s.ops) /\ \A q, x \in X : q.seq = x.seq => q = x BY <1>1, <1>5, <1>7 DEF Base, Unique, NotOlder
<1>10. PICK n \in Nat : n = IF page.carrier = t.op THEN 0 ELSE page.carrier BY <1>1 DEF Page
<1>11. PICK b : b = [s EXCEPT !.carrier = n, !.ops = X] OBVIOUS
<1>12. s \in Page BY <1>5 DEF Base, Typed
<1>13. /\ b \in Page /\ b.carrier = n /\ b.ops = X /\ b.active = s.active /\ b.timers = s.timers
       /\ b.lapsed = s.lapsed /\ b.traversal = s.traversal /\ b.entries = s.entries /\ b.cur = s.cur
       /\ b.mutationRecovery = s.mutationRecovery /\ b.pushRecovery = s.pushRecovery
       /\ b.supersession = s.supersession /\ b.life = s.life /\ b.departure = s.departure
       /\ b.observers = s.observers /\ b.prompted = s.prompted /\ b.jumps = s.jumps
  BY <1>7, <1>11, <1>12 DEF Page
<1>14. Typed(b) BY <1>5, <1>7, <1>13 DEF Base, Typed
<1>15. Unique(b) /\ Exclusive(b) /\ Closing(b) BY <1>5, <1>9, <1>13 DEF Base, Unique, Exclusive, Closing
<1>16. (Off(s) => Off(b)) /\ (Owed(s) => Owed(b)) BY <1>13 DEF Off, NoReturn, Owed
<1>17. b.carrier \in {0, s.carrier} BY <1>5, <1>10, <1>13
<1>18. Base(b) /\ Spare(b) BY <1>5, <1>8, <1>13, <1>14, <1>15, <1>16, <1>17, SpareKeeps
<1>19. Fair(b) BY <1>5, <1>8, <1>9, <1>13, <1>14, <1>16, FairKeeps
<1>20. PICK f : f = [b EXCEPT !.active = 0] OBVIOUS
<1>21. Base(f) /\ Fair(f) /\ Spare(f) /\ (Owed(b) => Owed(f)) BY <1>18, <1>20, FreeKeeps
<1>22. PICK m : m = IF b.active = t.op THEN f ELSE b OBVIOUS
<1>23. Base(m) /\ Fair(m) /\ Spare(m) /\ Owed(m) BY <1>5, <1>16, <1>18, <1>19, <1>21, <1>22
<1>24. PICK no \in BOOLEAN : no = FALSE OBVIOUS
<1>25. PICK c : c = Fallback(m, t.url, no, t.rec) OBVIOUS
<1>26. Base(c) /\ Fair(c) /\ Owed(c)
  <2>1. no \in BOOLEAN OBVIOUS
  <2> QED BY <1>2, <1>23, <1>25, <2>1, FallbackKeeps
<1>27. page' \in {c, b}
  <2>1. PICK x : x = [page EXCEPT !.timers = @ \ {t}, !.carrier = IF @ = t.op THEN 0 ELSE @,
                                  !.ops = {o \in @ : o.seq # t.op \/ o.kind # "held"}]
    OBVIOUS
  <2>2. page' = IF page.carrier = t.op /\ t.current
                THEN Fallback(IF x.active = t.op THEN [x EXCEPT !.active = 0] ELSE x, t.url, FALSE, t.rec) ELSE x
    BY <2>1 DEF NativeTimer
  <2>3. x = b BY <1>1, <1>4, <1>6, <1>10, <1>11, <2>1 DEF Page
  <2> QED BY <1>20, <1>22, <1>24, <1>25, <2>2, <2>3
<1> QED BY <1>5, <1>16, <1>18, <1>19, <1>26, <1>27 DEF Sound

LEMMA TraversalTimerKeeps ==
  ASSUME Inv, NEW t \in page.timers, TraversalTimer(t)
  PROVE  Sound(page')
<1>1. Sound(page) /\ Base(page) /\ Typed(page) /\ page \in Page /\ t \in TimerRecord /\ Fair(page) /\ Owed(page)
  BY DEF Inv, Sound, Base, Typed, Page
<1>2. PICK r \in Link : r = t.rec BY <1>1 DEF TimerRecord
<1>3. PICK b : b = [page EXCEPT !.timers = @ \ {t}] OBVIOUS
<1>4. Base(b) /\ Fair(b) /\ (Spare(page) => Spare(b)) /\ Owed(b) /\ b.recovering = page.recovering
  BY <1>1, <1>3, TimerKeeps DEF TraversalTimer
<1>5. page' = b \/ (b.recovering /\ page' = BeginTraversalRecovery(b, r)) BY <1>2, <1>3 DEF TraversalTimer
<1>6. CASE page' = b BY <1>4, <1>6 DEF Sound
<1>7. CASE b.recovering /\ page' = BeginTraversalRecovery(b, r)
  <2>1. Spare(b) BY <1>1, <1>4, <1>7, SpareUnlessIdle DEF Idle
  <2>2. PICK c : c = BeginTraversalRecovery(b, r) OBVIOUS
  <2>3. Base(c) /\ Fair(c) /\ Owed(c) BY <1>4, <2>1, <2>2, BeginTraversalRecoveryKeeps
  <2> QED BY <1>7, <2>2, <2>3 DEF Sound
<1> QED BY <1>5, <1>6, <1>7

LEMMA StageTimerKeeps ==
  ASSUME Inv, NEW t \in page.timers, StageTimer(t)
  PROVE  Sound(page')
<1>1. Sound(page) /\ Base(page) /\ Typed(page) /\ page \in Page /\ t \in TimerRecord /\ Fair(page) /\ Owed(page)
  BY DEF Inv, Sound, Base, Typed, Page
<1>2. t.url \in Link /\ t.rec \in Link /\ t.truth \in Link /\ t.kind = "stage" BY <1>1 DEF TimerRecord, StageTimer
<1>3. PICK b : b = [page EXCEPT !.timers = @ \ {t}] OBVIOUS
<1>4. Spare(page) BY <1>1, <1>2, SpareUnlessIdle DEF Idle
<1>5. Base(b) /\ Fair(b) /\ Spare(b) /\ Owed(b) BY <1>1, <1>2, <1>3, <1>4, TimerKeeps
<1>6. PICK yes \in BOOLEAN, no \in BOOLEAN : yes = TRUE /\ no = FALSE OBVIOUS
<1>7. yes \in BOOLEAN /\ no \in BOOLEAN /\ 0 \in Nat OBVIOUS
<1>8. PICK s : s = Selected(b, t.url, no) OBVIOUS
<1>9. Base(s) /\ Fair(s) /\ Spare(s) /\ Owed(s) BY <1>2, <1>5, <1>7, <1>8, SelectedKeeps
<1>10. PICK q : q = Observer(s, "staged", yes, 0, t.rec) OBVIOUS
<1>11. q \in ObserverRecord /\ q.kind = "staged" BY <1>2, <1>7, <1>9, <1>10, ObserverIs DEF Base
<1>12. PICK obs : obs = [q EXCEPT !.truth = t.truth] OBVIOUS
<1>13. obs \in ObserverRecord /\ obs.kind # "close" BY <1>2, <1>11, <1>12 DEF ObserverRecord
<1>14. PICK e : e = Observe(s, obs) OBVIOUS
<1>15. Base(e) /\ Fair(e) /\ Spare(e) /\ Owed(e) BY <1>9, <1>13, <1>14, ObserveKeeps
<1>16. PICK c : c = Depart(e, t.url) OBVIOUS
<1>17. Base(c) /\ Fair(c) /\ Owed(c) BY <1>2, <1>15, <1>16, DepartKeeps
<1>18. page' \in {b, c} BY <1>3, <1>6, <1>8, <1>10, <1>12, <1>14, <1>16 DEF StageTimer
<1> QED BY <1>5, <1>17, <1>18 DEF Sound

LEMMA ForwardTimerKeeps ==
  ASSUME Inv, NEW t \in page.timers, ForwardTimer(t)
  PROVE  Sound(page')
<1>1. Sound(page) /\ Base(page) /\ Typed(page) /\ page \in Page /\ Fair(page) /\ Owed(page)
      /\ page.jumps \in Seq({1, -1})
  BY DEF Inv, Sound, Base, Typed, Page
<1>2. t.kind = "forward" BY DEF ForwardTimer
<1>3. PICK b : b = [page EXCEPT !.timers = @ \ {t}] OBVIOUS
<1>4. Spare(page) BY <1>1, <1>2, SpareUnlessIdle DEF Idle
<1>5. /\ Base(b) /\ Fair(b) /\ Spare(b) /\ Same(page, b) /\ b.timers = page.timers \ {t}
      /\ b.mutationRecovery = page.mutationRecovery /\ b.jumps = page.jumps
  BY <1>1, <1>3, <1>4, TimerKeeps
<1>6. b \in Page BY <1>5 DEF Base, Typed
<1>7. PICK j : j = IF \E r \in page.mutationRecovery : r.op = t.op THEN Append(page.jumps, 1) ELSE page.jumps OBVIOUS
<1>8. /\ j \in Seq({1, -1}) /\ (1 \in Elements(page.jumps) => 1 \in Elements(j))
      /\ ((\E r \in page.mutationRecovery : r.op = t.op) => 1 \in Elements(j))
  BY <1>1, <1>7, JumpIs
<1>9. PICK c : c = [b EXCEPT !.jumps = j] OBVIOUS
<1>10. /\ c \in Page /\ Same(b, c) /\ c.jumps = j /\ c.timers = b.timers /\ c.mutationRecovery = b.mutationRecovery
       /\ c.pushRecovery = b.pushRecovery /\ c.supersession = b.supersession /\ c.traversal = b.traversal
       /\ c.entries = b.entries /\ c.cur = b.cur
  BY <1>6, <1>8, <1>9 DEF Page, Same
<1>11. Typed(c) /\ Exclusive(c) BY <1>5, <1>10 DEF Base, Typed, Exclusive, Same
<1>12. Base(c) /\ Fair(c) BY <1>5, <1>10, <1>11, RewriteKeeps
<1>13. Owed(c) BY <1>1, <1>5, <1>8, <1>10 DEF Owed, Same
<1>14. page' = c BY <1>1, <1>3, <1>5, <1>6, <1>7, <1>9 DEF ForwardTimer, Page
<1> QED BY <1>12, <1>13, <1>14 DEF Sound

LEMMA TailIs ==
  ASSUME NEW S, NEW s \in Seq(S), s # <<>>
  PROVE  /\ Tail(s) \in Seq(S) /\ Head(s) \in S /\ Elements(Tail(s)) \subseteq Elements(s)
         /\ Elements(s) \subseteq Elements(Tail(s)) \cup {Head(s)} /\ Head(s) \in Elements(s)
<1>1. PICK n \in Nat : n = Len(s) OBVIOUS
<1>2. n > 0 /\ DOMAIN s = 1..n BY <1>1
<1>3. PICK t : t = Tail(s) OBVIOUS
<1>4. t \in Seq(S) /\ DOMAIN t = 1..(n - 1) /\ \A i \in 1..(n - 1) : t[i] = s[i + 1] BY <1>1, <1>2, <1>3
<1>5. Head(s) = s[1] /\ s[1] \in S BY <1>1, <1>2
<1>6. Elements(t) \subseteq Elements(s)
  <2> SUFFICES ASSUME NEW i \in 1..(n - 1) PROVE t[i] \in Elements(s) BY <1>4 DEF Elements
  <2>1. i + 1 \in DOMAIN s BY <1>2
  <2>2. t[i] = s[i + 1] BY <1>4
  <2> QED BY <2>1, <2>2 DEF Elements
<1>7. Elements(s) \subseteq Elements(t) \cup {s[1]}
  <2> SUFFICES ASSUME NEW i \in 1..n, i # 1 PROVE s[i] \in Elements(t) BY <1>2 DEF Elements
  <2>1. i - 1 \in 1..(n - 1) /\ (i - 1) + 1 = i BY <1>2
  <2>2. t[i - 1] = s[i] BY <1>4, <2>1
  <2> QED BY <1>4, <2>1, <2>2 DEF Elements
<1>8. s[1] \in Elements(s) BY <1>2 DEF Elements
<1> QED BY <1>3, <1>4, <1>5, <1>6, <1>7, <1>8

LEMMA JumpKeeps ==
  ASSUME Inv, Jump
  PROVE  Sound(page')
<1>1. Sound(page) /\ Base(page) /\ Typed(page) /\ page \in Page /\ Fair(page) /\ Owed(page) /\ server \in Nat
      /\ page.jumps \in Seq({1, -1}) /\ page.jumps # <<>> /\ page.cur \in Nat
  BY DEF Inv, Sound, Base, Typed, Page, Jump
<1>2. PICK h \in {1, -1} : h = Head(page.jumps) BY <1>1, TailIs
<1>3. PICK j : j = Tail(page.jumps) OBVIOUS
<1>4. j \in Seq({1, -1}) /\ (1 \in Elements(page.jumps) => 1 \in Elements(j) \/ h = 1) BY <1>1, <1>2, <1>3, TailIs
<1>5. PICK b : b = [page EXCEPT !.jumps = j] OBVIOUS
<1>6. /\ b \in Page /\ b.shown = page.shown /\ b.jumps = j /\ b.recovering = page.recovering
      /\ b.ops = page.ops /\ b.timers = page.timers /\ b.active = page.active /\ b.traversal = page.traversal
      /\ b.entries = page.entries /\ b.cur = page.cur /\ b.carrier = page.carrier /\ b.traversing = page.traversing
      /\ b.mutationRecovery = page.mutationRecovery /\ b.pushRecovery = page.pushRecovery
      /\ b.supersession = page.supersession /\ b.life = page.life /\ b.departure = page.departure
      /\ b.observers = page.observers /\ b.prompted = page.prompted /\ b.lapsed = page.lapsed
  BY <1>1, <1>4, <1>5 DEF Page
<1>7. Typed(b) BY <1>1, <1>6 DEF Typed
<1>8. Unique(b) /\ Exclusive(b) /\ Placeholder(b) /\ Travs(b) /\ Carried(b) /\ Closing(b)
  BY <1>1, <1>6 DEF Base, Unique, Exclusive, Placeholder, Travs, Carried, Closing
<1>9. (Off(page) <=> Off(b)) /\ (\A r : Live(page, r) <=> Live(b, r)) /\ (Idle(page) => Idle(b))
  BY <1>6 DEF Off, NoReturn, Live, Idle
<1>10. Rolling(b) /\ Fair(b) BY <1>1, <1>6, <1>9 DEF Base, Rolling, Fair
<1>11. Base(b) BY <1>7, <1>8, <1>10 DEF Base
<1>12. Owed(b) \/ (h = 1 /\ b.mutationRecovery # {}) BY <1>1, <1>4, <1>6 DEF Owed
<1>13. PICK i : i = page.cur + h OBVIOUS
<1>14. \E enhance, safe \in BOOLEAN :
         page' = IF i \notin DOMAIN b.entries
                 THEN [b EXCEPT !.lapsed = @ \/ (Head(page.jumps) = 1 /\ b.mutationRecovery # {})]
                 ELSE IF b.life = "closed" THEN [b EXCEPT !.cur = i]
                 ELSE Arrived([b EXCEPT !.cur = i], enhance, safe)
  BY <1>2, <1>3, <1>5, <1>13 DEF Jump
<1>15. CASE i \notin DOMAIN b.entries
  <2>1. PICK l \in BOOLEAN : l = (b.lapsed \/ (h = 1 /\ b.mutationRecovery # {})) OBVIOUS
  <2>2. PICK c : c = [b EXCEPT !.lapsed = l] OBVIOUS
  <2>3. Base(c) /\ (Fair(b) => Fair(c)) /\ (Owed(b) => Owed(c)) /\ (l => Sound(c))
    <3>1. l \in BOOLEAN OBVIOUS
    <3> QED BY <1>11, <2>1, <2>2, <3>1, LapseKeeps
  <2>4. page' = c BY <1>2, <1>6, <1>14, <1>15, <2>1, <2>2 DEF Page
  <2> QED BY <1>10, <1>12, <2>1, <2>3, <2>4 DEF Sound
<1>16. CASE i \in DOMAIN b.entries
  <2>1. PICK c : c = [b EXCEPT !.cur = i] OBVIOUS
  <2>2. Base(c) /\ (Fair(b) => Fair(c)) BY <1>11, <1>16, <2>1, SelectKeeps
  <2>3. c.life = b.life BY <1>6, <2>1 DEF Page
  <2>4. CASE b.life = "closed"
    <3>1. page' = c BY <1>14, <1>16, <2>1, <2>4
    <3> QED BY <1>10, <2>2, <2>3, <2>4, <3>1 DEF Sound, Owed
  <2>5. CASE b.life # "closed"
    <3>1. PICK enhance \in BOOLEAN, safe \in BOOLEAN : page' = Arrived(c, enhance, safe)
      BY <1>14, <1>16, <2>1, <2>5
    <3>2. enhance \in BOOLEAN /\ safe \in BOOLEAN OBVIOUS
    <3> QED BY <1>1, <2>2, <3>1, <3>2, ArrivedKeeps
  <2> QED BY <2>4, <2>5
<1> QED BY <1>15, <1>16

\* the answer to an unload prompt
LEMMA AnsweredKeeps ==
  ASSUME NEW b, Sound(b), Spare(b), NEW c, Typed(c), c.observers = <<>>,
         Elements(c.prompted) \subseteq Elements(b.prompted) \cup Elements(b.observers),
         /\ c.ops = b.ops /\ c.active = b.active /\ c.carrier = b.carrier /\ c.life = b.life
         /\ c.lapsed = b.lapsed /\ c.mutationRecovery = b.mutationRecovery /\ c.pushRecovery = b.pushRecovery
         /\ c.supersession = b.supersession /\ c.traversal = b.traversal /\ c.timers = b.timers /\ c.jumps = b.jumps
  PROVE  Sound(c)
<1>1. Elements(c.observers) = {} BY DEF Elements
<1>2. Unique(c) /\ Exclusive(c) BY DEF Sound, Base, Unique, Exclusive
<1>3. Closing(c) BY <1>1 DEF Closing
<1>4. Off(b) => Off(c) BY <1>1 DEF Off, NoReturn
<1>5. From(c.ops, b.ops) /\ NotOlder(c.ops, b.ops) BY DEF From, NotOlder, Sound, Base, Unique
<1>6. Base(c) BY <1>2, <1>3, <1>4, <1>5, SpareKeeps DEF Sound
<1>7. Fair(c) BY <1>4, <1>5, FairKeeps DEF Sound
<1>8. Owed(c) BY DEF Sound, Owed
<1> QED BY <1>6, <1>7, <1>8 DEF Sound

LEMMA AcceptKeeps ==
  ASSUME Inv, Accept
  PROVE  Sound(page')
<1>1. Sound(page) /\ Base(page) /\ Typed(page) /\ page \in Page BY DEF Inv, Sound, Base, Typed
<1>2. PICK d \in page.departure :
         ~d.asked /\ page' = [page EXCEPT !.departure = {[d EXCEPT !.asked = TRUE]}, !.observers = <<>>, !.leaving = TRUE]
  BY DEF Accept
<1>3. Spare(page) BY <1>1, <1>2, SpareUnlessIdle DEF Idle
<1>4. PICK e \in [url : Link, asked : BOOLEAN] : e = [d EXCEPT !.asked = TRUE]
  <2>1. d \in [url : Link, asked : BOOLEAN] BY <1>1 DEF Page
  <2> QED BY <2>1
<1>5. PICK yes \in BOOLEAN : yes = TRUE OBVIOUS
<1>6. PICK s \in Seq(ObserverRecord) : s = <<>>
  <2>1. <<>> \in Seq(ObserverRecord) OBVIOUS
  <2> QED BY <2>1
<1>7. PICK c : c = [page EXCEPT !.departure = {e}, !.observers = s, !.leaving = yes] OBVIOUS
<1>8. page' = c BY <1>2, <1>4, <1>5, <1>6, <1>7
<1>9. /\ c \in Page /\ c.observers = s /\ c.prompted = page.prompted /\ c.entries = page.entries /\ c.cur = page.cur
      /\ c.ops = page.ops /\ c.active = page.active /\ c.carrier = page.carrier /\ c.life = page.life
      /\ c.lapsed = page.lapsed /\ c.mutationRecovery = page.mutationRecovery /\ c.pushRecovery = page.pushRecovery
      /\ c.supersession = page.supersession /\ c.traversal = page.traversal /\ c.timers = page.timers
      /\ c.jumps = page.jumps
  <2>1. yes \in BOOLEAN /\ s \in Seq(ObserverRecord) /\ e \in [url : Link, asked : BOOLEAN] OBVIOUS
  <2> QED BY <1>1, <1>7, <2>1, ZenonT(60) DEF Page
<1>10. Typed(c) BY <1>1, <1>9 DEF Typed
<1>11. Sound(c) BY <1>1, <1>3, <1>6, <1>9, <1>10, AnsweredKeeps
<1> QED BY <1>8, <1>11

LEMMA RefuseKeeps ==
  ASSUME Inv, Refuse
  PROVE  Sound(page')
<1>1. Sound(page) /\ Base(page) /\ Typed(page) /\ page \in Page BY DEF Inv, Sound, Base, Typed
<1>2. PICK d \in page.departure :
         ~d.asked /\ page' = [page EXCEPT !.departure = {}, !.observers = <<>>, !.prompted = @ \o page.observers]
  BY DEF Refuse
<1>3. Spare(page) BY <1>1, <1>2, SpareUnlessIdle DEF Idle
<1>4. PICK x \in Seq(ObserverRecord), y \in Seq(ObserverRecord) : x = page.prompted /\ y = page.observers BY <1>1 DEF Page
<1>5. PICK p : p = x \o y OBVIOUS
<1>6. x \in Seq(ObserverRecord) /\ y \in Seq(ObserverRecord) OBVIOUS
<1>7. p \in Seq(ObserverRecord) BY <1>5, <1>6
<1>8. Elements(p) \subseteq Elements(x) \cup Elements(y)
  <2>1. PICK m \in Nat, n \in Nat : m = Len(x) /\ n = Len(y) BY <1>6
  <2>2. DOMAIN p = 1..(m + n) /\ DOMAIN x = 1..m /\ DOMAIN y = 1..n BY <1>5, <1>6, <2>1
  <2>3. \A i \in 1..(m + n) : p[i] = IF i <= m THEN x[i] ELSE y[i - m] BY <1>5, <1>6, <2>1
  <2> SUFFICES ASSUME NEW i \in 1..(m + n) PROVE p[i] \in Elements(x) \cup Elements(y) BY <2>2 DEF Elements
  <2>4. CASE i <= m
    <3>1. i \in DOMAIN x /\ p[i] = x[i] BY <2>2, <2>3, <2>4
    <3> QED BY <3>1 DEF Elements
  <2>5. CASE i > m
    <3>1. i - m \in DOMAIN y /\ p[i] = y[i - m] BY <2>1, <2>2, <2>3, <2>5
    <3> QED BY <3>1 DEF Elements
  <2> QED BY <2>1, <2>4, <2>5
<1>9. PICK s \in Seq(ObserverRecord) : s = <<>>
  <2>1. <<>> \in Seq(ObserverRecord) OBVIOUS
  <2> QED BY <2>1
<1>10. PICK c : c = [page EXCEPT !.departure = {}, !.observers = s, !.prompted = p] OBVIOUS
<1>11. page' = c BY <1>1, <1>2, <1>4, <1>5, <1>9, <1>10 DEF Page
<1>12. /\ c \in Page /\ c.observers = s /\ c.prompted = p /\ c.entries = page.entries /\ c.cur = page.cur
       /\ c.ops = page.ops /\ c.active = page.active /\ c.carrier = page.carrier /\ c.life = page.life
       /\ c.lapsed = page.lapsed /\ c.mutationRecovery = page.mutationRecovery /\ c.pushRecovery = page.pushRecovery
       /\ c.supersession = page.supersession /\ c.traversal = page.traversal /\ c.timers = page.timers
       /\ c.jumps = page.jumps
  <2>1. s \in Seq(ObserverRecord) OBVIOUS
  <2> QED BY <1>1, <1>7, <1>10, <2>1 DEF Page
<1>13. Typed(c) BY <1>1, <1>12 DEF Typed
<1>14. Sound(c) BY <1>1, <1>3, <1>4, <1>8, <1>9, <1>12, <1>13, AnsweredKeeps
<1> QED BY <1>11, <1>14

LEMMA LoadedIs ==
  ASSUME NEW es \in Seq(Entry), NEW i \in DOMAIN es, NEW v \in Nat
  PROVE  Sound(Loaded(es, i, v))
<1>1. PICK e \in Entry : e = es[i] OBVIOUS
<1>2. PICK u \in Link, id \in Nat : u = e.url /\ id = e.id BY DEF Entry
<1>3. PICK h \in [url : Link, version : Nat] : h = [url |-> u, version |-> v] OBVIOUS
<1>4. PICK os \in Seq(ObserverRecord) : os = <<>>
  <2>1. <<>> \in Seq(ObserverRecord) OBVIOUS
  <2> QED BY <2>1
<1>5. PICK js \in Seq({1, -1}) : js = <<>>
  <2>1. <<>> \in Seq({1, -1}) OBVIOUS
  <2> QED BY <2>1
<1>6. PICK no \in BOOLEAN : no = FALSE OBVIOUS
<1>7. PICK c : c = Loaded(es, i, v) OBVIOUS
<1>8. c = [entries |-> es, cur |-> i, shown |-> h, truthUrl |-> u, displayed |-> id, selected |-> id,
           ops |-> {}, active |-> 0, carrier |-> 0, traversing |-> no, traversal |-> 1,
           recovering |-> no, mutationRecovery |-> {}, pushRecovery |-> {}, supersession |-> {},
           life |-> "active", departure |-> {}, observers |-> os, prompted |-> os,
           timers |-> {}, jumps |-> js, leaving |-> no, lapsed |-> no]
  BY <1>1, <1>2, <1>3, <1>4, <1>5, <1>6, <1>7 DEF Loaded
<1>9. no \in BOOLEAN /\ os \in Seq(ObserverRecord) /\ js \in Seq({1, -1}) /\ u \in Link /\ id \in Nat
      /\ h \in [url : Link, version : Nat] /\ i \in Nat
  OBVIOUS
<1>10. c \in Page BY <1>8, <1>9 DEF Page
<1>11. /\ c.ops = {} /\ c.pushRecovery = {} /\ c.mutationRecovery = {} /\ c.supersession = {} /\ c.timers = {}
       /\ c.entries = es /\ c.cur = i /\ c.observers = <<>>
  BY <1>4, <1>8
<1>12. Typed(c) BY <1>10, <1>11, FS_EmptySet DEF Typed
<1>13. Unique(c) /\ Exclusive(c) /\ Placeholder(c) /\ Travs(c) /\ Carried(c) /\ Rolling(c) /\ Owed(c) /\ Fair(c)
  BY <1>11 DEF Unique, Exclusive, Placeholder, Travs, Carried, Rolling, Owed, Fair
<1>14. Closing(c) BY <1>11 DEF Closing, Elements
<1> QED BY <1>7, <1>12, <1>13, <1>14 DEF Sound, Base

LEMMA LoadKeeps ==
  ASSUME Inv, Load
  PROVE  Sound(page')
<1>1. Typed(page) /\ server \in Nat BY DEF Inv, Sound, Base
<1>2. PICK d \in page.departure : page' = Loaded(<<[url |-> d.url, id |-> 1]>>, 1, server) BY DEF Load
<1>3. d.url \in Link BY <1>1 DEF Typed, Page
<1>4. PICK e \in Entry : e = [url |-> d.url, id |-> 1] BY <1>3 DEF Entry
<1>5. PICK es : es = <<e>> OBVIOUS
<1>6. es \in Seq(Entry) /\ 1 \in DOMAIN es BY <1>5
<1> QED BY <1>1, <1>2, <1>4, <1>5, <1>6, LoadedIs

LEMMA ReopenKeeps ==
  ASSUME NEW b, Sound(b), b.life = "closing", b.lapsed \/ \A r \in b.pushRecovery : ~Live(b, r),
         NEW c, c = [b EXCEPT !.life = "active"]
  PROVE  Base(c) /\ Spare(c) /\ Owed(c)
<1>1. Typed(c) /\ LifeOnly(b, c, "active") BY LifeIs DEF Sound, Base
<1>2. Unique(c) /\ Exclusive(c) /\ Placeholder(c) /\ Travs(c) /\ Carried(c) /\ Closing(c)
  BY <1>1 DEF Sound, Base, Unique, Exclusive, Placeholder, Travs, Carried, Closing, LifeOnly
<1>4. Spare(c) BY <1>1 DEF Spare, Live, LifeOnly, Off
<1>5. Owed(c) BY <1>1 DEF Sound, Owed, LifeOnly
<1>6. Rolling(c) BY <1>4 DEF Spare, Rolling
<1> QED BY <1>1, <1>2, <1>4, <1>5, <1>6 DEF Base

\* one prompt has been answered
LEMMA PromptedKeeps ==
  ASSUME NEW b, Sound(b), b.prompted # <<>>, NEW c, c = [b EXCEPT !.prompted = Tail(@)]
  PROVE  /\ Sound(c) /\ Spare(c) /\ Head(b.prompted) \in ObserverRecord /\ c.life = b.life /\ c.lapsed = b.lapsed
         /\ (c.life = "closing" /\ Head(b.prompted).kind = "close" /\ Head(b.prompted).rec # NoUrl /\ ~c.lapsed
             => \A r \in c.pushRecovery : ~Live(c, r))
<1>1. Base(b) /\ Typed(b) /\ b \in Page /\ b.prompted \in Seq(ObserverRecord) /\ Fair(b) /\ Owed(b)
  BY DEF Sound, Base, Typed, Page
<1>2. PICK t : t = Tail(b.prompted) OBVIOUS
<1>3. /\ t \in Seq(ObserverRecord) /\ Head(b.prompted) \in ObserverRecord /\ Elements(t) \subseteq Elements(b.prompted)
      /\ Head(b.prompted) \in Elements(b.prompted)
  BY <1>1, <1>2, TailIs
<1>4. Spare(b) BY <1>1, SpareUnlessIdle DEF Idle
<1>5. /\ c \in Page /\ c.shown = b.shown /\ c.active = b.active /\ c.prompted = t
      /\ c.ops = b.ops /\ c.timers = b.timers /\ c.lapsed = b.lapsed /\ c.traversal = b.traversal
      /\ c.entries = b.entries /\ c.cur = b.cur /\ c.carrier = b.carrier
      /\ c.mutationRecovery = b.mutationRecovery /\ c.pushRecovery = b.pushRecovery
      /\ c.supersession = b.supersession /\ c.life = b.life /\ c.departure = b.departure
      /\ c.observers = b.observers /\ c.jumps = b.jumps
  BY <1>1, <1>2, <1>3 DEF Page
<1>6. Typed(c) /\ Unique(c) /\ Exclusive(c) /\ Closing(c) BY <1>1, <1>5 DEF Base, Typed, Unique, Exclusive, Closing
<1>7. (Off(b) => Off(c)) /\ Owed(c) BY <1>1, <1>3, <1>5 DEF Off, NoReturn, Owed
<1>8. From(c.ops, b.ops) BY <1>5 DEF From
<1>9. Base(c) /\ Spare(c) BY <1>1, <1>4, <1>5, <1>6, <1>7, <1>8, SpareKeeps
<1>10. Fair(c) BY <1>1, <1>5, <1>7 DEF Fair
<1>11. ASSUME c.life = "closing", Head(b.prompted).kind = "close", Head(b.prompted).rec # NoUrl, ~c.lapsed
       PROVE  \A r \in c.pushRecovery : ~Live(c, r)
  <2>1. ~Off(b) BY <1>3, <1>5, <1>11 DEF Off, NoReturn
  <2> QED BY <1>4, <1>5, <2>1 DEF Spare, Live
<1> QED BY <1>3, <1>5, <1>7, <1>9, <1>10, <1>11 DEF Sound

LEMMA RecoveredIs ==
  ASSUME server \in Nat, NEW b, Base(b), Spare(b), Owed(b), NEW url \in Link
  PROVE  Sound(RecoverCommitted(b, url))
BY RecoverCommittedKeeps DEF Sound

LEMMA CheckKeeps ==
  ASSUME Inv, Check
  PROVE  Sound(page')
<1>1. Sound(page) /\ server \in Nat /\ page.prompted # <<>> BY DEF Inv, Check
<1>2. PICK b : b = [page EXCEPT !.prompted = Tail(@)] OBVIOUS
<1>3. PICK obs \in ObserverRecord : obs = Head(page.prompted) BY <1>1, <1>2, PromptedKeeps
<1>4. /\ Sound(b) /\ Spare(b)
      /\ b.life = "closing" /\ obs.kind = "close" /\ obs.rec # NoUrl /\ ~b.lapsed
         => \A r \in b.pushRecovery : ~Live(b, r)
  BY <1>1, <1>2, <1>3, PromptedKeeps
<1>5. page' = (IF b.life # "closed" /\ Guard(b, obs) THEN Repaired(b, obs) ELSE b)
  BY <1>2, <1>3 DEF Check
<1>6. PICK u \in Link, v \in Link : u = obs.truth /\ v = obs.rec BY DEF ObserverRecord
<1>7. PICK t : t = IF obs.kind # "staged" /\ obs.repair THEN CloseTraversal(b) ELSE b OBVIOUS
<1>8. Base(t) /\ Spare(t) /\ Fair(t) /\ Owed(t) BY <1>4, <1>7, CloseTraversalKeeps DEF Sound
<1>9. PICK r : r = RepairDisplayedTruth(t, u) OBVIOUS
<1>10. Base(r) /\ Spare(r) /\ Fair(r) /\ Owed(r) BY <1>8, <1>9, RepairKeeps
<1>11. Base(b) /\ Owed(b) BY <1>4 DEF Sound
<1>12. PICK c : c = [b EXCEPT !.life = "active"] OBVIOUS
<1>13. PICK z : z = [r EXCEPT !.life = "closed"] OBVIOUS
<1>14. Repaired(b, obs) = CASE obs.kind = "close" -> IF v # NoUrl THEN RecoverCommitted(c, v) ELSE z
                            [] obs.kind = "fallback" /\ v # NoUrl ->
                                 RecoverCommitted(IF obs.repair THEN r ELSE b, v)
                            [] OTHER -> IF v # NoUrl THEN RecoverCommitted(r, v) ELSE r
  BY <1>6, <1>7, <1>9, <1>12, <1>13 DEF Repaired
<1>15. CASE ~(b.life # "closed" /\ Guard(b, obs))
  BY <1>4, <1>5, <1>15
<1>16. CASE b.life # "closed" /\ Guard(b, obs) /\ obs.kind = "close" /\ v # NoUrl
  <2>1. b.life = "closing" BY <1>16 DEF Guard
  <2>2. Base(c) /\ Spare(c) /\ Owed(c) BY <1>4, <1>6, <1>12, <1>16, <2>1, ReopenKeeps
  <2>3. page' = RecoverCommitted(c, v) BY <1>5, <1>14, <1>16
  <2> QED BY <1>1, <2>2, <2>3, RecoveredIs
<1>17. CASE b.life # "closed" /\ Guard(b, obs) /\ obs.kind = "close" /\ v = NoUrl
  <2>1. page' = z BY <1>5, <1>14, <1>17
  <2> QED BY <1>10, <1>13, <2>1, ClosedKeeps
<1>18. CASE b.life # "closed" /\ Guard(b, obs) /\ obs.kind # "close" /\ v = NoUrl
  <2>1. page' = r BY <1>5, <1>14, <1>18
  <2> QED BY <1>10, <2>1 DEF Sound
<1>19. CASE b.life # "closed" /\ Guard(b, obs) /\ obs.kind # "close" /\ v # NoUrl
  <2>1. PICK w : w = IF obs.kind = "fallback" /\ ~obs.repair THEN b ELSE r OBVIOUS
  <2>2. page' = RecoverCommitted(w, v) BY <1>5, <1>14, <1>19, <2>1
  <2>3. Base(w) /\ Spare(w) /\ Owed(w) BY <1>4, <1>10, <1>11, <2>1
  <2> QED BY <1>1, <2>2, <2>3, RecoveredIs
<1> QED BY <1>15, <1>16, <1>17, <1>18, <1>19

-----------------------------------------------------------------------------
(* The theorems.                                                           *)

LEMMA InitKeeps ==
  ASSUME Init
  PROVE  Inv
<1>1. PICK n \in 1..MaxEntries : \E urls \in [1..n -> Url], cur \in 1..n :
         page = Loaded([i \in 1..n |-> [url |-> urls[i], id |-> i]], cur, 0)
  BY DEF Init
<1>2. PICK urls \in [1..n -> Url], cur \in 1..n :
         page = Loaded([i \in 1..n |-> [url |-> urls[i], id |-> i]], cur, 0)
  BY <1>1
<1>3. PICK es : es = [i \in 1..n |-> [url |-> urls[i], id |-> i]] OBVIOUS
<1>4. n \in Nat BY NavigationAssumption
<1>5. \A i \in 1..n : [url |-> urls[i], id |-> i] \in Entry BY <1>4 DEF Entry, Link
<1>6. es \in Seq(Entry) /\ DOMAIN es = 1..n BY <1>3, <1>4, <1>5
<1>7. Sound(Loaded(es, cur, 0)) BY <1>6, LoadedIs
<1> QED BY <1>2, <1>3, <1>7 DEF Inv, Init

LEMMA NextKeeps ==
  ASSUME Inv, [Next]_vars
  PROVE  Inv'
<1>1. Sound(page) /\ server \in Nat BY DEF Inv
<1>2. Sound(page')
  <2>1. CASE User
    BY <2>1, ClickKeeps, NativeActivationKeeps, PolicyActivationKeeps, AuxiliaryClickKeeps, SubmitKeeps,
       ScrollKeeps, CloseKeeps, TraverseKeeps DEF User
  <2>2. CASE Answers BY <2>2, ArriveKeeps, RecoveryTimerKeeps DEF Answers
  <2>3. CASE Timers
    BY <2>3, NativeTimerKeeps, TraversalTimerKeeps, StageTimerKeeps, ForwardTimerKeeps DEF Timers
  <2>4. CASE Rest \/ UNCHANGED vars BY <1>1, <2>4 DEF Rest, vars
  <2> QED BY <2>1, <2>2, <2>3, <2>4, ServeKeeps, JumpKeeps, AcceptKeeps, RefuseKeeps, LoadKeeps, CheckKeeps DEF Next
<1>3. server' \in {server, server + 1}
  BY DEF Next, User, Answers, Timers, Rest, vars, Serve, Jump, Accept, Refuse, Load, Check, Click,
         NativeActivation, PolicyActivation, AuxiliaryClick, Submit, Traverse, Scroll, Close, Act, Quietly,
         Arrive, RecoveryTimer, NativeTimer, TraversalTimer, StageTimer, ForwardTimer
<1> QED BY <1>1, <1>2, <1>3 DEF Inv

\* The operations, timers and recoveries of the runtime are well formed, every number names one
\* operation, of the recoveries of a POST only one is pending, a rollback on its own meets nothing of the
\* user's, and a superseded operation that can still commit is aborted.
THEOREM Consistency == Spec => []Inv
<1>1. Init => Inv BY InitKeeps
<1>2. Inv /\ [Next]_vars => Inv' BY NextKeeps
<1> QED BY <1>1, <1>2, PTL DEF Spec

\* The answer to an operation the user has since superseded never replaces the document
\* (ownsNavigation and the abort of the pending operation by every later act).
THEOREM LatestIntent == Spec => LatestIntentWins
<1> DEFINE Wins == \A o \in page.ops : Arrive(o) /\ o.outdated /\ ~page.lapsed => page'.shown = page.shown
<1>1. Inv => Wins
  <2> SUFFICES ASSUME Inv, NEW o \in page.ops, Arrive(o), o.outdated, ~page.lapsed
               PROVE  page'.shown = page.shown
    OBVIOUS
  <2>1. page'.shown = page.shown \/ (Owns(page, o) /\ page.life = "active") BY ArriveKeeps
  <2>2. Owns(page, o) => Off(page) BY DEF Inv, Sound, Fair, Owns, Arrive
  <2> QED BY <2>1, <2>2 DEF Off
<1>2. Spec => []Inv BY Consistency
<1> QED BY <1>1, <1>2, PTL DEF Spec, LatestIntentWins

-----------------------------------------------------------------------------
(* What holds in every state.                                              *)

\* the active number names an operation
Owned(b) == b.active = 0 \/ \E o \in b.ops : o.seq = b.active
\* an operation left to the browser carries a recovery, and its timer is the only one of its number
Natives(b) ==
  /\ \A t, u \in b.timers : t.kind = "native" /\ u.kind = "native" /\ t.op = u.op => t = u
  /\ \A t \in b.timers : t.kind = "native" => t.rec # NoUrl /\ t.op # 0 /\ (t.op = b.active => b.carrier = t.op)
  /\ \A o \in b.ops : o.seq = b.carrier =>
       /\ o.rec # NoUrl
       /\ o.seq = b.active => \E t \in b.timers : t.kind = "native" /\ t.op = o.seq /\ t.current
\* what is loaded, shown or repaired later has a URL
RealOps(b) ==
  \A o \in b.ops : /\ o.truth # NoUrl
                   /\ o.kind = "post" => o.rec = NoUrl
                   /\ o.kind # "post" => o.url # NoUrl
                   /\ o.kind \in {"wait", "idle"} => o.rec # NoUrl
RealTimers(b) ==
  \A t \in b.timers : /\ t.kind = "stage" => t.url # NoUrl /\ t.truth # NoUrl
                      /\ t.kind = "native" => t.url # NoUrl
RealHistory(b) == b.truthUrl # NoUrl /\ \A i \in DOMAIN b.entries : b.entries[i].url # NoUrl
RealRecoveries(b) ==
  /\ \A r \in b.mutationRecovery \cup b.supersession : r.url # NoUrl
  /\ \A r \in b.pushRecovery : r.url # NoUrl /\ r.truth # NoUrl
RealPrompts(b) ==
  /\ \A d \in b.departure : d.url # NoUrl
  /\ \A x \in Elements(b.observers) \cup Elements(b.prompted) : x.truth # NoUrl

Form(b) ==
  /\ Typed(b) /\ Unique(b) /\ Owned(b) /\ Natives(b)
  /\ RealOps(b) /\ RealTimers(b) /\ RealHistory(b) /\ RealRecoveries(b) /\ RealPrompts(b)

-----------------------------------------------------------------------------
(* What holds until the document is left.                                  *)

Awake(b) == ~Off(b) /\ ~b.leaving
Unasked(b) == \E d \in b.departure : ~d.asked

\* only the active operation may use its answer, and none whose page is left to a native timer
Single(b) == \A o \in b.ops : ~o.aborted => o.seq = b.active /\ o.kind # "held"
Repeating(b) == b.recovering => b.traversing
\* a POST waits on its own; interrupted, it is recovered by the forward step
Posting(b) ==
  \A o \in b.ops : o.seq = b.active /\ o.kind = "post" =>
    /\ ~b.traversing /\ b.life = "active"
    /\ o.aborted => b.mutationRecovery # {}
    /\ \A t \in b.timers : t.kind = "stage" => t.late
Interrupted(b) == b.mutationRecovery # {} => ~b.traversing /\ b.pushRecovery = {}
\* the timer of the scrolled traversal
Ours(b, t) == t.kind = "traversal" /\ t.trav = b.traversal
Scrolled(b) ==
  \A t \in b.timers : Ours(b, t) =>
    b.recovering /\ (t.rec # NoUrl => \A o \in b.ops : o.seq = b.active => o.rec # NoUrl)
Prompting(b) == Unasked(b) \/ \A x \in Elements(b.observers) : x.rec # NoUrl

Core(b) == Single(b) /\ Repeating(b) /\ Posting(b) /\ Interrupted(b) /\ Scrolled(b) /\ Prompting(b)
\* the same, whatever the active operation is
Calm(b) == Single(b) /\ Repeating(b) /\ Interrupted(b) /\ Scrolled(b) /\ Prompting(b)

\* a rollback is the only jump under way
Rollback(b) ==
  b.pushRecovery # {} =>
    /\ b.jumps = <<-1>> /\ b.cur > 1 /\ ~b.recovering
    /\ \A t \in b.timers : t.kind # "stage"
    /\ b.traversing => \A o \in b.ops : o.seq = b.active => o.rec # NoUrl
    /\ \A r, q \in b.pushRecovery : r = q
    /\ \A r \in b.pushRecovery : /\ r.rec # NoUrl <=> r.op # 0
                                 /\ \A o \in b.ops : o.seq = r.op => o.rec # NoUrl
\* the step forward to a superseded push stays possible
Stepping(b) ==
  b.supersession # {} =>
    /\ Len(b.entries) > 1
    /\ (b.jumps = <<1>> /\ b.cur < Len(b.entries)) \/ b.jumps = <<-1, 1>>
    /\ \A t \in b.timers : t.kind # "stage"
    /\ \A r \in b.supersession, o \in b.ops :
         /\ o.seq = r.op => o.aborted /\ o.kind # "post"
         /\ b.traversing /\ r.rec # NoUrl /\ o.seq = b.active => o.rec # NoUrl

\* the answer to come is no older than what the document owes
Newest(b, d) == \A o \in b.ops : ~o.aborted /\ o.kind = "nav" => o.began >= d

\* whatever may take over the page carries the recovery
Heavy(b) ==
  /\ \A x \in Elements(b.prompted) \cup Elements(b.observers) : x.rec # NoUrl
  /\ \A t \in b.timers : Ours(b, t) \/ t.kind = "stage" => t.rec # NoUrl
  /\ \A r \in b.pushRecovery \cup b.supersession : r.rec # NoUrl

\* the operation that carries the recovery, and what it waits for
Awaited(b, o) ==
  \/ o.kind \in {"nav", "wait"}
  \/ o.kind = "idle" /\ \E r \in b.pushRecovery : r.op = o.seq /\ r.trav = b.traversal
  \/ \E t \in b.timers : t.kind = "stage" /\ t.op = o.seq /\ t.truth = Href(b)
Requested(b) == \E o \in b.ops : o.seq = b.active /\ o.rec # NoUrl /\ ~o.aborted /\ Awaited(b, o)
Submitted(b) == \E o \in b.ops : o.seq = b.active /\ o.kind = "post"
Leaving(b) == Unasked(b) /\ \E x \in Elements(b.observers) : x.rec # NoUrl /\ Guard(b, x)
Refused(b) == \E x \in Elements(b.prompted) : x.rec # NoUrl /\ Guard(b, x)
Native(b) == \E o \in b.ops : o.seq = b.active /\ o.seq = b.carrier
Delayed(b) == \E t \in b.timers : Ours(b, t)
Stepped(b) == b.mutationRecovery # {} \/ b.supersession # {}

Holder(b) ==
  Requested(b) \/ Submitted(b) \/ Leaving(b) \/ Refused(b) \/ Native(b) \/ Delayed(b) \/ Stepped(b)

-----------------------------------------------------------------------------
(* The operation that is active.                                           *)

LEMMA RecIs ==
  ASSUME NEW b, Typed(b), Unique(b), Owned(b)
  PROVE  \/ b.active = 0 /\ Active(b) = {} /\ Rec(b) = NoUrl /\ Kind(b) = "none"
            /\ \A o \in b.ops : o.seq # b.active
         \/ \E o \in b.ops : o.seq = b.active /\ Active(b) = {o} /\ Rec(b) = o.rec /\ Kind(b) = o.kind
<1>1. \A o \in b.ops : o.seq # 0 BY DEF Typed, Page, Operation
<1>2. CASE b.active = 0 BY <1>1, <1>2, ActiveIs
<1>3. CASE \E o \in b.ops : o.seq = b.active
  <2>1. PICK o \in b.ops : o.seq = b.active BY <1>3
  <2>2. Active(b) = {o} BY <2>1 DEF Active, Unique
  <2>3. Rec(b) = o.rec /\ Kind(b) = o.kind BY <2>1, ActiveIs
  <2> QED BY <2>1, <2>2, <2>3
<1> QED BY <1>2, <1>3 DEF Owned

-----------------------------------------------------------------------------
(* Changes of the operations.                                              *)

\* o is what became of q
Kin(o, q) ==
  /\ o.seq = q.seq /\ o.rec = q.rec /\ o.truth = q.truth /\ o.url = q.url /\ o.began = q.began
  /\ o.trav = q.trav
  /\ q.aborted => o.aborted
  /\ \/ o.kind = q.kind
     \/ o.kind = "held" /\ q.kind # "post"
     \/ o.kind = "idle" /\ q.kind = "wait"
Descend(S, T) == \A o \in S : \E q \in T : Kin(o, q)

LEMMA OthersForm ==
  ASSUME NEW b, Form(b), NEW c, Typed(c), Unique(c), Owned(c), Others(b, c), Descend(c.ops, b.ops),
         c.active \in {0, b.active}
  PROVE  Form(c)
<1>1. \A o \in c.ops : o.seq # 0 BY DEF Typed, Page, Operation
<1>2. Natives(c)
  <2>1. \A t \in c.timers : t.kind = "native" => t.rec # NoUrl /\ t.op # 0 /\ (t.op = c.active => c.carrier = t.op)
    BY DEF Form, Natives, Others
  <2>2. ASSUME NEW o \in c.ops, o.seq = c.carrier
        PROVE  /\ o.rec # NoUrl
               /\ o.seq = c.active => \E t \in c.timers : t.kind = "native" /\ t.op = o.seq /\ t.current
    <3>1. PICK q \in b.ops : Kin(o, q) BY DEF Descend
    <3>2. q.seq = b.carrier /\ o.rec = q.rec /\ o.seq = q.seq BY <2>2, <3>1 DEF Kin, Others
    <3>3. o.seq = c.active => q.seq = b.active BY <1>1, <3>2
    <3> QED BY <3>2, <3>3 DEF Form, Natives, Others
  <2> QED BY <2>1, <2>2 DEF Form, Natives, Others
<1>3. RealOps(c)
  <2> SUFFICES ASSUME NEW o \in c.ops
               PROVE  /\ o.truth # NoUrl
                      /\ o.kind = "post" => o.rec = NoUrl
                      /\ o.kind # "post" => o.url # NoUrl
                      /\ o.kind \in {"wait", "idle"} => o.rec # NoUrl
    BY DEF RealOps
  <2>1. PICK q \in b.ops : Kin(o, q) BY DEF Descend
  <2> QED BY <2>1 DEF Form, RealOps, Kin
<1>4. RealTimers(c) /\ RealHistory(c) /\ RealRecoveries(c) /\ RealPrompts(c)
  BY DEF Form, RealTimers, RealHistory, RealRecoveries, RealPrompts, Others
<1> QED BY <1>2, <1>3, <1>4 DEF Form

LEMMA OthersKeep ==
  ASSUME NEW b, Form(b), NEW c, Typed(c), Others(b, c), Descend(c.ops, b.ops),
         c.active \in {0, b.active}, c.traversing => b.traversing
  PROVE  /\ Rollback(b) => Rollback(c)
         /\ Stepping(b) => Stepping(c)
         /\ Core(b) /\ Single(c) /\ Repeating(c)
            /\ (\A o \in c.ops : o.seq = b.active /\ o.kind = "post" /\ o.aborted =>
                  b.mutationRecovery # {} \/ c.active = 0)
            => Core(c)
<1>1. \A o \in c.ops : o.seq # 0 BY DEF Typed, Page, Operation
<1>2. ASSUME NEW o \in c.ops, o.seq = c.active PROVE o.seq = b.active /\ c.active = b.active BY <1>1, <1>2
<1>3. ASSUME Rollback(b) PROVE Rollback(c)
  <2> SUFFICES ASSUME c.pushRecovery # {}
               PROVE  /\ c.jumps = <<-1>> /\ c.cur > 1 /\ ~c.recovering
                      /\ \A t \in c.timers : t.kind # "stage"
                      /\ c.traversing => \A o \in c.ops : o.seq = c.active => o.rec # NoUrl
                      /\ \A r, q \in c.pushRecovery : r = q
                      /\ \A r \in c.pushRecovery : /\ r.rec # NoUrl <=> r.op # 0
                                                   /\ \A o \in c.ops : o.seq = r.op => o.rec # NoUrl
    BY DEF Rollback
  <2>1. b.pushRecovery # {} /\ c.pushRecovery = b.pushRecovery BY DEF Others
  <2>2. c.jumps = <<-1>> /\ c.cur > 1 /\ ~c.recovering /\ \A t \in c.timers : t.kind # "stage"
    BY <1>3, <2>1 DEF Rollback, Others
  <2>3. ASSUME c.traversing, NEW o \in c.ops, o.seq = c.active PROVE o.rec # NoUrl
    <3>1. PICK q \in b.ops : Kin(o, q) BY DEF Descend
    <3>2. q.seq = b.active /\ q.rec = o.rec BY <1>2, <2>3, <3>1 DEF Kin
    <3> QED BY <1>3, <2>1, <2>3, <3>2 DEF Rollback
  <2>4. ASSUME NEW r \in c.pushRecovery, NEW o \in c.ops, o.seq = r.op PROVE o.rec # NoUrl
    <3>1. PICK q \in b.ops : Kin(o, q) BY DEF Descend
    <3>2. q.seq = r.op /\ q.rec = o.rec BY <2>4, <3>1 DEF Kin
    <3> QED BY <1>3, <2>1, <3>2 DEF Rollback
  <2>5. \A r, q \in c.pushRecovery : r = q BY <1>3, <2>1 DEF Rollback
  <2>6. \A r \in c.pushRecovery : r.rec # NoUrl <=> r.op # 0 BY <1>3, <2>1 DEF Rollback
  <2> QED BY <2>2, <2>3, <2>4, <2>5, <2>6
<1>4. ASSUME Stepping(b) PROVE Stepping(c)
  <2> SUFFICES ASSUME c.supersession # {}
               PROVE  /\ Len(c.entries) > 1
                      /\ (c.jumps = <<1>> /\ c.cur < Len(c.entries)) \/ c.jumps = <<-1, 1>>
                      /\ \A t \in c.timers : t.kind # "stage"
                      /\ \A r \in c.supersession, o \in c.ops :
                           /\ o.seq = r.op => o.aborted /\ o.kind # "post"
                           /\ c.traversing /\ r.rec # NoUrl /\ o.seq = c.active => o.rec # NoUrl
    BY DEF Stepping
  <2>1. b.supersession # {} /\ c.supersession = b.supersession BY DEF Others
  <2>2. /\ Len(c.entries) > 1
        /\ (c.jumps = <<1>> /\ c.cur < Len(c.entries)) \/ c.jumps = <<-1, 1>>
        /\ \A t \in c.timers : t.kind # "stage"
    BY <1>4, <2>1 DEF Stepping, Others
  <2>3. ASSUME NEW r \in c.supersession, NEW o \in c.ops
        PROVE  /\ o.seq = r.op => o.aborted /\ o.kind # "post"
               /\ c.traversing /\ r.rec # NoUrl /\ o.seq = c.active => o.rec # NoUrl
    <3>1. PICK q \in b.ops : Kin(o, q) BY DEF Descend
    <3>2. r \in b.supersession BY <2>1
    <3>3. /\ q.seq = r.op => q.aborted /\ q.kind # "post"
          /\ b.traversing /\ r.rec # NoUrl /\ q.seq = b.active => q.rec # NoUrl
      BY <1>4, <2>1, <3>2 DEF Stepping
    <3> QED BY <1>2, <3>1, <3>3 DEF Kin
  <2> QED BY <2>2, <2>3
<1>5. ASSUME Core(b), Single(c), Repeating(c),
             \A o \in c.ops : o.seq = b.active /\ o.kind = "post" /\ o.aborted =>
               b.mutationRecovery # {} \/ c.active = 0
      PROVE  Core(c)
  <2>1. Posting(c)
    <3> SUFFICES ASSUME NEW o \in c.ops, o.seq = c.active, o.kind = "post"
                 PROVE  /\ ~c.traversing /\ c.life = "active"
                        /\ o.aborted => c.mutationRecovery # {}
                        /\ \A t \in c.timers : t.kind = "stage" => t.late
      BY DEF Posting
    <3>1. PICK q \in b.ops : Kin(o, q) BY DEF Descend
    <3>2. q.seq = b.active /\ q.kind = "post" BY <1>2, <3>1 DEF Kin
    <3>3. ~b.traversing /\ b.life = "active" /\ \A t \in b.timers : t.kind = "stage" => t.late
      BY <1>5, <3>2 DEF Core, Posting
    <3>4. o.aborted => b.mutationRecovery # {} BY <1>1, <1>2, <1>5
    <3> QED BY <3>3, <3>4 DEF Others
  <2>2. Interrupted(c) BY <1>5 DEF Core, Interrupted, Others
  <2>3. Scrolled(c)
    <3> SUFFICES ASSUME NEW t \in c.timers, Ours(c, t)
                 PROVE  c.recovering /\ (t.rec # NoUrl => \A o \in c.ops : o.seq = c.active => o.rec # NoUrl)
      BY DEF Scrolled
    <3>1. t \in b.timers /\ Ours(b, t) BY DEF Others, Ours
    <3>2. b.recovering /\ (t.rec # NoUrl => \A o \in b.ops : o.seq = b.active => o.rec # NoUrl)
      BY <1>5, <3>1 DEF Core, Scrolled
    <3>3. ASSUME t.rec # NoUrl, NEW o \in c.ops, o.seq = c.active PROVE o.rec # NoUrl
      <4>1. PICK q \in b.ops : Kin(o, q) BY DEF Descend
      <4> QED BY <1>2, <3>2, <3>3, <4>1 DEF Kin
    <3> QED BY <3>2, <3>3 DEF Others
  <2>4. Prompting(c) BY <1>5 DEF Core, Prompting, Unasked, Others
  <2> QED BY <1>5, <2>1, <2>2, <2>3, <2>4 DEF Core
<1> QED BY <1>3, <1>4, <1>5

\* an operation set among the operations the page may have
Renewed(b, X, v, w) == [b EXCEPT !.ops = X, !.active = v, !.traversing = w]

LEMMA RenewedIs ==
  ASSUME NEW b, Typed(b), NEW X \in SUBSET Operation, IsFiniteSet(X), NEW v \in Nat, NEW w \in BOOLEAN,
         NEW c, c = Renewed(b, X, v, w)
  PROVE  Typed(c) /\ Others(b, c) /\ c.ops = X /\ c.active = v /\ c.traversing = w
<1>1. b \in Page BY DEF Typed
<1>2. c \in Page /\ Others(b, c) /\ c.ops = X /\ c.active = v /\ c.traversing = w
  BY <1>1 DEF Page, Others, Renewed
<1>3. Typed(c) BY <1>2 DEF Typed, Others
<1> QED BY <1>2, <1>3

LEMMA SameRenewed ==
  ASSUME NEW b, Typed(b), NEW X
  PROVE  [b EXCEPT !.ops = X] = Renewed(b, X, b.active, b.traversing)
BY DEF Typed, Page, Renewed

LEMMA AbortIs ==
  ASSUME NEW b, Form(b), NEW c, c = Abort(b)
  PROVE  /\ Form(c) /\ Others(b, c) /\ c.active = b.active /\ c.traversing = b.traversing
         /\ \A o \in c.ops : \E q \in b.ops : /\ Kin(o, q) /\ o.kind = q.kind
                                              /\ IF q.seq = b.active THEN o.aborted ELSE o = q
         /\ \A q \in b.ops : \E o \in c.ops : Kin(o, q) /\ o.kind = q.kind
<1> DEFINE f == [o \in b.ops |-> IF o.seq = b.active THEN Cancelled(o) ELSE o]
           X == Aborting(b)
<1>0. b.ops \subseteq Operation /\ IsFiniteSet(b.ops) /\ Unique(b) /\ Typed(b) /\ Owned(b) /\ b.active \in Nat
      /\ b.traversing \in BOOLEAN
  BY DEF Form, Typed, Page
<1>1. X = {f[o] : o \in b.ops} BY DEF Aborting
<1>10. \A o \in b.ops : f[o] = IF o.seq = b.active THEN Cancelled(o) ELSE o OBVIOUS
<1> HIDE DEF f, X
<1>2. IsFiniteSet(X) BY <1>0, <1>1, FiniteMap
<1>3. ASSUME NEW o \in b.ops
      PROVE  /\ f[o] \in Operation /\ Kin(f[o], o) /\ f[o].kind = o.kind
             /\ IF o.seq = b.active THEN f[o].aborted ELSE f[o] = o
  <2>1. o \in Operation BY <1>0
  <2>2. CASE o.seq = b.active BY <1>10, <2>1, <2>2, MarkedIs DEF Kin
  <2>3. CASE o.seq # b.active BY <1>10, <2>1, <2>3 DEF Kin
  <2> QED BY <2>2, <2>3
<1>4. X \in SUBSET Operation BY <1>1, <1>3
<1>5. \A o, q \in X : o.seq = q.seq => o = q BY <1>0, <1>1, <1>3 DEF Unique, Kin
<1>6. c = [b EXCEPT !.ops = X] BY DEF Abort, Aborting, Cancelled, X
<1>7. c = Renewed(b, X, b.active, b.traversing) BY <1>0, <1>6, SameRenewed
<1>8. Typed(c) /\ Others(b, c) /\ c.ops = X /\ c.active = b.active /\ c.traversing = b.traversing
  BY <1>0, <1>2, <1>4, <1>7, RenewedIs
<1>9. Unique(c) /\ Owned(c) /\ Descend(c.ops, b.ops)
  BY <1>0, <1>1, <1>3, <1>5, <1>8 DEF Unique, Owned, Descend, Kin
<1>11. Form(c) BY <1>8, <1>9, OthersForm
<1> QED BY <1>1, <1>3, <1>8, <1>11

LEMMA AbortCore ==
  ASSUME NEW b, Form(b), NEW c, c = Abort(b)
  PROVE  /\ Core(b) /\ Kind(b) # "post" => Core(c)
         /\ Rollback(b) => Rollback(c)
         /\ Stepping(b) => Stepping(c)
         /\ Kind(c) = Kind(b) /\ Rec(c) = Rec(b)
         /\ Core(b) => \A o \in c.ops : o.aborted
<1>1. /\ Form(c) /\ Others(b, c) /\ c.active = b.active /\ c.traversing = b.traversing
      /\ \A o \in c.ops : \E q \in b.ops : /\ Kin(o, q) /\ o.kind = q.kind
                                           /\ IF q.seq = b.active THEN o.aborted ELSE o = q
      /\ \A q \in b.ops : \E o \in c.ops : Kin(o, q) /\ o.kind = q.kind
  BY AbortIs
<1>2. Descend(c.ops, b.ops) /\ Typed(c) BY <1>1 DEF Descend, Form
<1>3. Kind(c) = Kind(b) /\ Rec(c) = Rec(b)
  <2>1. Typed(b) /\ Unique(b) /\ Owned(b) /\ Typed(c) /\ Unique(c) /\ Owned(c) BY <1>1 DEF Form
  <2>2. CASE b.active = 0 BY <1>1, <2>1, <2>2, ActiveIs
  <2>3. CASE \E q \in b.ops : q.seq = b.active
    <3>1. PICK q \in b.ops : q.seq = b.active BY <2>3
    <3>2. PICK o \in c.ops : Kin(o, q) /\ o.kind = q.kind BY <1>1
    <3>3. o.seq = c.active /\ o.rec = q.rec BY <1>1, <3>1, <3>2 DEF Kin
    <3> QED BY <2>1, <3>1, <3>2, <3>3, ActiveIs
  <2> QED BY <2>1, <2>2, <2>3 DEF Owned
<1>4. ASSUME Core(b) PROVE \A o \in c.ops : o.aborted
  BY <1>1, <1>4 DEF Core, Single
<1>5. ASSUME Core(b), Kind(b) # "post" PROVE Core(c)
  <2>1. Single(c) BY <1>4, <1>5 DEF Single
  <2>2. Repeating(c) BY <1>1, <1>5 DEF Core, Repeating, Others
  <2>3. \A o \in c.ops : o.seq = b.active => o.kind # "post"
    <3> SUFFICES ASSUME NEW o \in c.ops, o.seq = b.active PROVE o.kind # "post" OBVIOUS
    <3>1. Kind(c) = o.kind BY <1>1, ActiveIs DEF Form
    <3> QED BY <1>3, <1>5, <3>1
  <2> QED BY <1>1, <1>2, <1>5, <2>1, <2>2, <2>3, OthersKeep
<1>6. (Rollback(b) => Rollback(c)) /\ (Stepping(b) => Stepping(c)) BY <1>1, <1>2, OthersKeep
<1> QED BY <1>3, <1>4, <1>5, <1>6

LEMMA RelinquishIs ==
  ASSUME NEW b, Form(b), NEW c, c = Relinquish(b)
  PROVE  /\ Form(c) /\ Others(b, c) /\ c.active = 0 /\ c.traversing = b.traversing
         /\ c.ops \subseteq b.ops
         /\ \A o \in b.ops : o.seq # b.active \/ o.kind # "idle" => o \in c.ops
         /\ Rollback(b) => Rollback(c)
         /\ Stepping(b) => Stepping(c)
         /\ Core(b) /\ (\A o \in b.ops : o.seq = b.active => o.aborted \/ o.kind = "idle") => Core(c)
<1> DEFINE X == Remaining(b)
<1>0. Typed(b) /\ b.ops \subseteq Operation /\ IsFiniteSet(b.ops) /\ Unique(b) /\ b.traversing \in BOOLEAN
  BY DEF Form, Typed, Page
<1>1. PICK z \in Nat : z = 0 OBVIOUS
<1>2. X \subseteq b.ops /\ X \in SUBSET Operation /\ IsFiniteSet(X) BY <1>0, FS_Subset DEF Remaining
<1>3. c = Renewed(b, X, z, b.traversing) BY <1>0, <1>1 DEF Relinquish, Remaining, Renewed, Typed, Page
<1>4. \A o \in b.ops : o.seq # b.active \/ o.kind # "idle" => o \in X BY DEF Remaining
<1>5. \A o \in X : o.seq = b.active => o.kind # "idle" BY DEF Remaining
<1> HIDE DEF X
<1>6. Typed(c) /\ Others(b, c) /\ c.ops = X /\ c.active = 0 /\ c.traversing = b.traversing
  BY <1>0, <1>1, <1>2, <1>3, RenewedIs
<1>7. Unique(c) /\ Owned(c) /\ Descend(c.ops, b.ops)
  BY <1>0, <1>2, <1>6 DEF Unique, Owned, Descend, Kin
<1>8. Form(c) BY <1>6, <1>7, OthersForm
<1>9. ASSUME Core(b), \A o \in b.ops : o.seq = b.active => o.aborted \/ o.kind = "idle" PROVE Core(c)
  <2>1. Single(c) BY <1>2, <1>5, <1>6, <1>9 DEF Core, Single
  <2>2. Repeating(c) BY <1>6, <1>9 DEF Core, Repeating, Others
  <2> QED BY <1>6, <1>7, <1>9, <2>1, <2>2, OthersKeep
<1>10. (Rollback(b) => Rollback(c)) /\ (Stepping(b) => Stepping(c)) BY <1>6, <1>7, OthersKeep
<1> QED BY <1>2, <1>4, <1>6, <1>8, <1>9, <1>10

-----------------------------------------------------------------------------
(* What an act of the user does to everything pending.                     *)

TimerKin(t, u) ==
  /\ t.kind = u.kind /\ t.op = u.op /\ t.trav = u.trav /\ t.url = u.url /\ t.truth = u.truth
  /\ t.rec = u.rec

\* the page a moment later: the same but for marks on its operations and timers
Aged(b, c) ==
  /\ Carries(b, c) /\ c.active = b.active
  /\ \A o \in c.ops : \E q \in b.ops : Kin(o, q) /\ o.kind = q.kind /\ o.aborted = q.aborted
  /\ \A q \in b.ops : \E o \in c.ops : Kin(o, q) /\ o.kind = q.kind /\ o.aborted = q.aborted
  /\ \A t \in c.timers : \E u \in b.timers : TimerKin(t, u) /\ t.current = u.current
  /\ \A u \in b.timers : \E t \in c.timers : TimerKin(t, u) /\ t.current = u.current

LEMMA AgedKeeps ==
  ASSUME NEW b, Form(b), NEW c, Typed(c), Unique(c), Aged(b, c),
         \A t \in c.timers : t.kind = "stage" => t.late,
         \A t, u \in c.timers : t.kind = "native" /\ u.kind = "native" /\ t.op = u.op => t = u
  PROVE  /\ Form(c) /\ Kind(c) = Kind(b) /\ Rec(c) = Rec(b)
         /\ (Core(b) => Core(c)) /\ (Rollback(b) => Rollback(c)) /\ (Stepping(b) => Stepping(c))
         /\ (Heavy(b) => Heavy(c)) /\ (Holder(b) => Holder(c))
<1>1. \A o \in c.ops : \E q \in b.ops : Kin(o, q) /\ o.kind = q.kind /\ o.aborted = q.aborted BY DEF Aged
<1>2. \A q \in b.ops : \E o \in c.ops : Kin(o, q) /\ o.kind = q.kind /\ o.aborted = q.aborted BY DEF Aged
<1>3. \A t \in c.timers : \E u \in b.timers : TimerKin(t, u) /\ t.current = u.current BY DEF Aged
<1>4. \A u \in b.timers : \E t \in c.timers : TimerKin(t, u) /\ t.current = u.current BY DEF Aged
<1>5. Carries(b, c) /\ c.active = b.active BY DEF Aged
<1>6. Owned(c) BY <1>2, <1>5 DEF Form, Owned, Kin
<1>7. Natives(c)
  <2>1. \A t \in c.timers : t.kind = "native" => t.rec # NoUrl /\ t.op # 0 /\ (t.op = c.active => c.carrier = t.op)
    BY <1>3, <1>5 DEF Form, Natives, TimerKin, Carries
  <2>2. ASSUME NEW o \in c.ops, o.seq = c.carrier
        PROVE  /\ o.rec # NoUrl
               /\ o.seq = c.active => \E t \in c.timers : t.kind = "native" /\ t.op = o.seq /\ t.current
    <3>1. PICK q \in b.ops : Kin(o, q) BY <1>1
    <3>2. q.seq = b.carrier BY <1>5, <2>2, <3>1 DEF Kin, Carries
    <3>3. /\ q.rec # NoUrl
          /\ q.seq = b.active => \E t \in b.timers : t.kind = "native" /\ t.op = q.seq /\ t.current
      BY <3>2 DEF Form, Natives
    <3>4. o.seq = c.active => q.seq = b.active BY <1>5, <3>1 DEF Kin
    <3> QED BY <1>4, <3>1, <3>3, <3>4 DEF Kin, TimerKin
  <2> QED BY <2>1, <2>2 DEF Natives
<1>8. RealOps(c)
  <2> SUFFICES ASSUME NEW o \in c.ops
               PROVE  /\ o.truth # NoUrl
                      /\ o.kind = "post" => o.rec = NoUrl
                      /\ o.kind # "post" => o.url # NoUrl
                      /\ o.kind \in {"wait", "idle"} => o.rec # NoUrl
    BY DEF RealOps
  <2>1. PICK q \in b.ops : Kin(o, q) BY <1>1
  <2> QED BY <2>1 DEF Form, RealOps, Kin
<1>9. RealTimers(c) BY <1>3 DEF Form, RealTimers, TimerKin
<1>10. RealHistory(c) /\ RealRecoveries(c) /\ RealPrompts(c)
  BY <1>5 DEF Form, RealHistory, RealRecoveries, RealPrompts, Carries
<1>11. Form(c) BY <1>6, <1>7, <1>8, <1>9, <1>10 DEF Form
<1>12. Kind(c) = Kind(b) /\ Rec(c) = Rec(b)
  <2>1. Typed(b) /\ Unique(b) /\ Owned(b) BY DEF Form
  <2>2. CASE b.active = 0 BY <1>5, <2>1, <2>2, ActiveIs
  <2>3. CASE \E q \in b.ops : q.seq = b.active
    <3>1. PICK q \in b.ops : q.seq = b.active BY <2>3
    <3>2. PICK o \in c.ops : Kin(o, q) /\ o.kind = q.kind BY <1>2
    <3>3. o.seq = c.active /\ o.rec = q.rec BY <1>5, <3>1, <3>2 DEF Kin
    <3> QED BY <2>1, <3>1, <3>2, <3>3, ActiveIs
  <2> QED BY <2>1, <2>2, <2>3 DEF Owned
<1>13. ASSUME Core(b) PROVE Core(c)
  <2>1. Single(c)
    <3> SUFFICES ASSUME NEW o \in c.ops, ~o.aborted PROVE o.seq = c.active /\ o.kind # "held" BY DEF Single
    <3>1. PICK q \in b.ops : Kin(o, q) /\ o.kind = q.kind /\ o.aborted = q.aborted BY <1>1
    <3> QED BY <1>5, <1>13, <3>1 DEF Core, Single, Kin
  <2>2. Repeating(c) /\ Interrupted(c) BY <1>5, <1>13 DEF Core, Repeating, Interrupted, Carries
  <2>3. Posting(c)
    <3> SUFFICES ASSUME NEW o \in c.ops, o.seq = c.active, o.kind = "post"
                 PROVE  ~c.traversing /\ c.life = "active" /\ (o.aborted => c.mutationRecovery # {})
      BY DEF Posting
    <3>1. PICK q \in b.ops : Kin(o, q) /\ o.kind = q.kind /\ o.aborted = q.aborted BY <1>1
    <3>2. q.seq = b.active BY <1>5, <3>1 DEF Kin
    <3> QED BY <1>5, <1>13, <3>1, <3>2 DEF Core, Posting, Carries
  <2>4. Scrolled(c)
    <3> SUFFICES ASSUME NEW t \in c.timers, Ours(c, t)
                 PROVE  c.recovering /\ (t.rec # NoUrl => \A o \in c.ops : o.seq = c.active => o.rec # NoUrl)
      BY DEF Scrolled
    <3>1. PICK u \in b.timers : TimerKin(t, u) BY <1>3
    <3>2. Ours(b, u) BY <1>5, <3>1 DEF Ours, TimerKin, Carries
    <3>3. b.recovering /\ (u.rec # NoUrl => \A o \in b.ops : o.seq = b.active => o.rec # NoUrl)
      BY <1>13, <3>2 DEF Core, Scrolled
    <3>4. ASSUME t.rec # NoUrl, NEW o \in c.ops, o.seq = c.active PROVE o.rec # NoUrl
      <4>1. PICK q \in b.ops : Kin(o, q) BY <1>1
      <4> QED BY <1>5, <3>1, <3>3, <3>4, <4>1 DEF Kin, TimerKin
    <3> QED BY <1>5, <3>3, <3>4 DEF Carries
  <2>5. Prompting(c) BY <1>5, <1>13 DEF Core, Prompting, Unasked, Carries
  <2> QED BY <2>1, <2>2, <2>3, <2>4, <2>5 DEF Core
<1>14. ASSUME Rollback(b) PROVE Rollback(c)
  <2> SUFFICES ASSUME c.pushRecovery # {}
               PROVE  /\ c.jumps = <<-1>> /\ c.cur > 1 /\ ~c.recovering
                      /\ \A t \in c.timers : t.kind # "stage"
                      /\ c.traversing => \A o \in c.ops : o.seq = c.active => o.rec # NoUrl
                      /\ \A r, q \in c.pushRecovery : r = q
                      /\ \A r \in c.pushRecovery : /\ r.rec # NoUrl <=> r.op # 0
                                                   /\ \A o \in c.ops : o.seq = r.op => o.rec # NoUrl
    BY DEF Rollback
  <2>1. b.pushRecovery # {} /\ c.pushRecovery = b.pushRecovery BY <1>5 DEF Carries
  <2>2. c.jumps = <<-1>> /\ c.cur > 1 /\ ~c.recovering BY <1>5, <1>14, <2>1 DEF Rollback, Carries
  <2>3. \A t \in c.timers : t.kind # "stage" BY <1>3, <1>14, <2>1 DEF Rollback, TimerKin
  <2>4. ASSUME c.traversing, NEW o \in c.ops, o.seq = c.active PROVE o.rec # NoUrl
    <3>1. PICK q \in b.ops : Kin(o, q) BY <1>1
    <3> QED BY <1>5, <1>14, <2>1, <2>4, <3>1 DEF Kin, Rollback, Carries
  <2>5. ASSUME NEW r \in c.pushRecovery, NEW o \in c.ops, o.seq = r.op PROVE o.rec # NoUrl
    <3>1. PICK q \in b.ops : Kin(o, q) BY <1>1
    <3>2. q.seq = r.op /\ q.rec = o.rec BY <2>5, <3>1 DEF Kin
    <3> QED BY <1>14, <2>1, <3>2 DEF Rollback
  <2>6. (\A r, q \in c.pushRecovery : r = q) /\ \A r \in c.pushRecovery : r.rec # NoUrl <=> r.op # 0
    BY <1>14, <2>1 DEF Rollback
  <2> QED BY <2>2, <2>3, <2>4, <2>5, <2>6
<1>15. ASSUME Stepping(b) PROVE Stepping(c)
  <2> SUFFICES ASSUME c.supersession # {}
               PROVE  /\ Len(c.entries) > 1
                      /\ (c.jumps = <<1>> /\ c.cur < Len(c.entries)) \/ c.jumps = <<-1, 1>>
                      /\ \A t \in c.timers : t.kind # "stage"
                      /\ \A r \in c.supersession, o \in c.ops :
                           /\ o.seq = r.op => o.aborted /\ o.kind # "post"
                           /\ c.traversing /\ r.rec # NoUrl /\ o.seq = c.active => o.rec # NoUrl
    BY DEF Stepping
  <2>1. b.supersession # {} /\ c.supersession = b.supersession BY <1>5 DEF Carries
  <2>2. /\ Len(c.entries) > 1
        /\ (c.jumps = <<1>> /\ c.cur < Len(c.entries)) \/ c.jumps = <<-1, 1>>
    BY <1>5, <1>15, <2>1 DEF Stepping, Carries
  <2>3. \A t \in c.timers : t.kind # "stage" BY <1>3, <1>15, <2>1 DEF Stepping, TimerKin
  <2>4. ASSUME NEW r \in c.supersession, NEW o \in c.ops
        PROVE  /\ o.seq = r.op => o.aborted /\ o.kind # "post"
               /\ c.traversing /\ r.rec # NoUrl /\ o.seq = c.active => o.rec # NoUrl
    <3>1. PICK q \in b.ops : Kin(o, q) /\ o.kind = q.kind /\ o.aborted = q.aborted BY <1>1
    <3>2. r \in b.supersession BY <2>1
    <3>3. /\ q.seq = r.op => q.aborted /\ q.kind # "post"
          /\ b.traversing /\ r.rec # NoUrl /\ q.seq = b.active => q.rec # NoUrl
      BY <1>15, <2>1, <3>2 DEF Stepping
    <3> QED BY <1>5, <3>1, <3>3 DEF Kin, Carries
  <2> QED BY <2>2, <2>3, <2>4
<1>16. ASSUME Heavy(b) PROVE Heavy(c)
  BY <1>3, <1>5, <1>16 DEF Heavy, Ours, TimerKin, Carries
<1>17. ASSUME Holder(b) PROVE Holder(c)
  <2>0. Href(c) = Href(b) /\ (Unasked(b) => Unasked(c)) /\ \A x : Guard(b, x) => Guard(c, x)
    BY <1>5 DEF Href, Current, Unasked, Guard, Carries
  <2>1. CASE Requested(b)
    <3>1. PICK q \in b.ops : q.seq = b.active /\ q.rec # NoUrl /\ ~q.aborted /\ Awaited(b, q) BY <2>1 DEF Requested
    <3>2. PICK o \in c.ops : Kin(o, q) /\ o.kind = q.kind /\ o.aborted = q.aborted BY <1>2
    <3>3. Awaited(c, o)
      <4>1. CASE \E u \in b.timers : u.kind = "stage" /\ u.op = q.seq /\ u.truth = Href(b)
        <5>1. PICK u \in b.timers : u.kind = "stage" /\ u.op = q.seq /\ u.truth = Href(b) BY <4>1
        <5>2. PICK t \in c.timers : TimerKin(t, u) BY <1>4
        <5> QED BY <2>0, <3>2, <5>1, <5>2 DEF Awaited, TimerKin, Kin
      <4>2. CASE q.kind \in {"nav", "wait"}
                 \/ (q.kind = "idle" /\ \E r \in b.pushRecovery : r.op = q.seq /\ r.trav = b.traversal)
        BY <1>5, <3>2, <4>2 DEF Awaited, Kin, Carries
      <4> QED BY <3>1, <4>1, <4>2 DEF Awaited
    <3>4. Requested(c) BY <1>5, <3>1, <3>2, <3>3 DEF Requested, Kin
    <3> QED BY <3>4 DEF Holder
  <2>2. CASE Submitted(b)
    <3>1. Submitted(c) BY <1>2, <1>5, <2>2 DEF Submitted, Kin
    <3> QED BY <3>1 DEF Holder
  <2>3. CASE Leaving(b) \/ Refused(b)
    <3>1. Leaving(c) \/ Refused(c) BY <1>5, <2>0, <2>3 DEF Leaving, Refused, Carries
    <3> QED BY <3>1 DEF Holder
  <2>4. CASE Native(b)
    <3>1. Native(c) BY <1>2, <1>5, <2>4 DEF Native, Kin, Carries
    <3> QED BY <3>1 DEF Holder
  <2>5. CASE Delayed(b)
    <3>1. Delayed(c) BY <1>4, <1>5, <2>5 DEF Delayed, Ours, TimerKin, Carries
    <3> QED BY <3>1 DEF Holder
  <2>6. CASE Stepped(b) BY <1>5, <2>6 DEF Stepped, Holder, Carries
  <2> QED BY <1>17, <2>1, <2>2, <2>3, <2>4, <2>5, <2>6 DEF Holder
<1> QED BY <1>11, <1>12, <1>13, <1>14, <1>15, <1>16, <1>17

LEMMA OutdateIs ==
  ASSUME NEW b, Form(b), NEW c, c = Outdate(b)
  PROVE  /\ Form(c) /\ Aged(b, c) /\ Kind(c) = Kind(b) /\ Rec(c) = Rec(b)
         /\ (Core(b) => Core(c)) /\ (Rollback(b) => Rollback(c)) /\ (Stepping(b) => Stepping(c))
         /\ (Heavy(b) => Heavy(c)) /\ (Holder(b) => Holder(c))
         /\ \A t \in c.timers : t.kind # "traversal" => t.late
<1> DEFINE f == [o \in b.ops |-> Outdated(o)]
           g == [t \in b.timers |-> Late(t)]
           X == Outdating(b)
           Z == LatenTimers(b)
<1>0. /\ b.ops \subseteq Operation /\ IsFiniteSet(b.ops) /\ Unique(b) /\ Typed(b) /\ b \in Page
      /\ b.timers \subseteq TimerRecord /\ IsFiniteSet(b.timers)
  BY DEF Form, Typed, Page
<1>1. X = {f[o] : o \in b.ops} /\ Z = {g[t] : t \in b.timers} BY DEF Outdating, LatenTimers
<1>2. (\A o \in b.ops : f[o] = Outdated(o)) /\ \A t \in b.timers : g[t] = Late(t) OBVIOUS
<1>3. c = [b EXCEPT !.ops = X, !.timers = Z] BY DEF Outdate, Outdating, LatenTimers, Outdated, Late, X, Z
<1> HIDE DEF f, g, X, Z
<1>4. IsFiniteSet(X) /\ IsFiniteSet(Z) BY <1>0, <1>1, FiniteMap
<1>5. ASSUME NEW o \in b.ops
      PROVE  f[o] \in Operation /\ Kin(f[o], o) /\ f[o].kind = o.kind /\ f[o].aborted = o.aborted
  <2>1. o \in Operation BY <1>0
  <2> QED BY <1>2, <2>1, MarkedIs DEF Kin
<1>6. ASSUME NEW t \in b.timers
      PROVE  /\ g[t] \in TimerRecord /\ TimerKin(g[t], t) /\ g[t].current = t.current
             /\ t.kind # "traversal" => g[t].late
  <2>1. t \in TimerRecord BY <1>0
  <2>2. PICK l \in BOOLEAN : l = (t.kind # "traversal") OBVIOUS
  <2>3. g[t] = [t EXCEPT !.late = l] BY <1>2, <2>2 DEF Late
  <2>4. g[t] \in TimerRecord /\ TimerKin(g[t], t) /\ g[t].current = t.current /\ g[t].late = l
    BY <2>1, <2>3 DEF TimerRecord, TimerKin
  <2> QED BY <2>2, <2>4
<1>7. X \in SUBSET Operation /\ Z \in SUBSET TimerRecord BY <1>1, <1>5, <1>6
<1>8. Carries(b, c) /\ c \in Page /\ c.ops = X /\ c.timers = Z /\ c.active = b.active
  BY <1>0, <1>3, <1>7, ZenonT(60) DEF Page, Carries
<1>9. Typed(c) BY <1>0, <1>4, <1>8 DEF Typed, Carries
<1>10. Unique(c) BY <1>0, <1>1, <1>5, <1>8 DEF Unique, Kin
<1>11. Aged(b, c) BY <1>1, <1>5, <1>6, <1>8 DEF Aged
<1>12. \A t \in c.timers : t.kind # "traversal" => t.late BY <1>1, <1>6, <1>8 DEF TimerKin
<1>13. \A t, u \in c.timers : t.kind = "native" /\ u.kind = "native" /\ t.op = u.op => t = u
  BY <1>1, <1>6, <1>8 DEF Form, Natives, TimerKin
<1> QED BY <1>9, <1>10, <1>11, <1>12, <1>13, AgedKeeps

-----------------------------------------------------------------------------
(* A new operation.                                                        *)

\* an operation as the runtime starts it
Proper(o) ==
  /\ o \in Operation /\ ~o.aborted /\ o.truth # NoUrl /\ o.kind # "held"
  /\ o.kind = "post" => o.rec = NoUrl
  /\ o.kind # "post" => o.url # NoUrl
  /\ o.kind \in {"wait", "idle"} => o.rec # NoUrl
\* it takes the recovery over from whatever may hold it
Inherits(b, o) ==
  \/ o.rec # NoUrl
  \/ ~b.traversing
  \/ b.pushRecovery = {} /\ b.supersession = {} /\ \A t \in b.timers : ~Ours(b, t)
Postable(b, o) ==
  o.kind = "post" => ~b.traversing /\ b.life = "active" /\ \A t \in b.timers : t.kind = "stage" => t.late

\* b with the operation o in place of the active one
Begun(b, c, o) ==
  /\ Carries(b, c) /\ c.active = o.seq /\ o \in c.ops
  /\ \A x \in c.ops : x = o \/ \E q \in b.ops : Kin(x, q) /\ x.kind = q.kind /\ (IF q.seq = b.active THEN x.aborted ELSE x = q)
  /\ \A q \in b.ops : q.kind # "idle" => \E x \in c.ops : Kin(x, q) /\ x.kind = q.kind
  /\ \A t \in c.timers : \E u \in b.timers : TimerKin(t, u) /\ t.late = u.late
  /\ \A u \in b.timers : \E t \in c.timers : TimerKin(t, u) /\ t.late = u.late

LEMMA BeginIs ==
  ASSUME NEW b, Form(b), NEW o, Proper(o), o.seq = FreshSeq(b), NEW c, c = Begin(b, o)
  PROVE  Form(c) /\ Begun(b, c, o)
<1>1. PICK a : a = Abort(b) OBVIOUS
<1>2. PICK r : r = Relinquish(a) OBVIOUS
<1>3. /\ Form(a) /\ Others(b, a) /\ a.active = b.active /\ a.traversing = b.traversing
      /\ \A x \in a.ops : \E q \in b.ops : Kin(x, q) /\ x.kind = q.kind /\ IF q.seq = b.active THEN x.aborted ELSE x = q
      /\ \A q \in b.ops : \E x \in a.ops : Kin(x, q) /\ x.kind = q.kind
  BY <1>1, AbortIs
<1>4. /\ Form(r) /\ Others(a, r) /\ r.active = 0 /\ r.traversing = a.traversing /\ r.ops \subseteq a.ops
      /\ \A x \in a.ops : x.kind # "idle" => x \in r.ops
  BY <1>2, <1>3, RelinquishIs
<1>5. Carries(b, r) /\ r.timers = b.timers BY <1>3, <1>4 DEF Carries, Others
<1>6. \A x \in r.ops : \E q \in b.ops : Kin(x, q) /\ x.kind = q.kind /\ IF q.seq = b.active THEN x.aborted ELSE x = q
  BY <1>3, <1>4
<1>7. /\ o.seq \in Nat \ {0} /\ o.seq # b.carrier /\ (\A q \in b.ops : q.seq # o.seq)
      /\ \A t \in b.timers : t.op # o.seq
  <2>1. Typed(b) BY DEF Form
  <2> QED BY <2>1, FreshSeqIs
<1> DEFINE g == [t \in r.timers |-> Overtake(t)]
           T == Overtaken(r)
<1>8. T = {g[t] : t \in r.timers} BY DEF Overtaken, Overtake
<1>9. \A t \in r.timers : g[t] = Overtake(t) OBVIOUS
<1> HIDE DEF g, T
<1>10. r \in Page /\ IsFiniteSet(r.timers) /\ r.timers \subseteq TimerRecord /\ IsFiniteSet(r.ops)
  BY <1>4 DEF Form, Typed, Page
<1>11. IsFiniteSet(T) BY <1>8, <1>10, FiniteMap
<1>12. ASSUME NEW t \in r.timers
       PROVE  g[t] \in TimerRecord /\ TimerKin(g[t], t) /\ g[t].late = t.late
  <2>1. t \in TimerRecord BY <1>10
  <2>2. PICK l \in BOOLEAN : l = (t.current /\ t.kind # "native") OBVIOUS
  <2>3. g[t] = [t EXCEPT !.current = l] BY <1>9, <2>2 DEF Overtake
  <2> QED BY <2>1, <2>3 DEF TimerRecord, TimerKin
<1>13. T \in SUBSET TimerRecord BY <1>8, <1>12
<1>14. c = [r EXCEPT !.ops = @ \cup {o}, !.active = o.seq, !.timers = T]
  BY <1>1, <1>2 DEF Begin, Overtaken, T
<1>15. c \in Page /\ Carries(r, c) /\ c.active = o.seq /\ c.ops = r.ops \cup {o} /\ c.timers = T
  <2>1. PICK s \in Nat : s = o.seq BY <1>7
  <2>2. o \in Operation BY DEF Proper
  <2>3. PICK U \in SUBSET TimerRecord : U = T BY <1>13
  <2>4. PICK X \in SUBSET Operation : X = r.ops \cup {o} BY <1>10, <2>2 DEF Page
  <2>5. c = [r EXCEPT !.ops = X, !.active = s, !.timers = U] BY <1>14, <2>1, <2>3, <2>4
  <2>6. c \in Page BY <1>10, <2>5, ZenonT(60) DEF Page
  <2>7. c.ops = X /\ c.active = s /\ c.timers = U BY <1>10, <2>5 DEF Page
  <2>8. Carries(r, c) BY <1>10, <2>5 DEF Page, Carries
  <2> QED BY <2>1, <2>3, <2>4, <2>6, <2>7, <2>8
<1>16. Begun(b, c, o)
  <2>1. Carries(b, c) BY <1>5, <1>15 DEF Carries
  <2>2. \A t \in c.timers : \E u \in b.timers : TimerKin(t, u) /\ t.late = u.late
    BY <1>5, <1>8, <1>12, <1>15
  <2>3. \A u \in b.timers : \E t \in c.timers : TimerKin(t, u) /\ t.late = u.late
    BY <1>5, <1>8, <1>12, <1>15
  <2>4. \A q \in b.ops : q.kind # "idle" => \E x \in c.ops : Kin(x, q) /\ x.kind = q.kind
    BY <1>3, <1>4, <1>15
  <2> QED BY <1>6, <1>15, <2>1, <2>2, <2>3, <2>4 DEF Begun
<1>17. Typed(c)
  <2>1. IsFiniteSet(c.ops) BY <1>10, <1>15, FS_AddElement
  <2> QED BY <1>4, <1>11, <1>15, <2>1 DEF Form, Typed, Carries
<1>18. \A x \in r.ops : x.seq # o.seq BY <1>6, <1>7 DEF Kin
<1>19. Unique(c) BY <1>4, <1>15, <1>18 DEF Form, Unique
<1>20. Owned(c) BY <1>15 DEF Owned
<1>21. Natives(c)
  <2>1. \A t, u \in c.timers : t.kind = "native" /\ u.kind = "native" /\ t.op = u.op => t = u
    BY <1>4, <1>8, <1>12, <1>15 DEF Form, Natives, TimerKin
  <2>2. \A t \in c.timers : t.kind = "native" => t.rec # NoUrl /\ t.op # 0 /\ t.op # c.active
    BY <1>4, <1>5, <1>7, <1>8, <1>12, <1>15 DEF Form, Natives, TimerKin
  <2>3. ASSUME NEW x \in c.ops, x.seq = c.carrier PROVE x.rec # NoUrl /\ x.seq # c.active
    <3>1. c.carrier = b.carrier BY <1>16 DEF Begun, Carries
    <3>2. PICK q \in b.ops : Kin(x, q) BY <1>6, <1>7, <1>15, <2>3, <3>1
    <3>3. q.seq = b.carrier BY <2>3, <3>1, <3>2 DEF Kin
    <3> QED BY <1>7, <1>15, <2>3, <3>1, <3>2, <3>3 DEF Form, Natives, Kin
  <2> QED BY <2>1, <2>2, <2>3 DEF Natives
<1>22. RealOps(c)
  <2>1. RealOps(r) BY <1>4 DEF Form
  <2> QED BY <1>15, <2>1 DEF RealOps, Proper
<1>23. RealTimers(c) BY <1>4, <1>8, <1>12, <1>15 DEF Form, RealTimers, TimerKin
<1>24. RealHistory(c) /\ RealRecoveries(c) /\ RealPrompts(c)
  BY <1>16 DEF Form, RealHistory, RealRecoveries, RealPrompts, Begun, Carries
<1> QED BY <1>16, <1>17, <1>19, <1>20, <1>21, <1>22, <1>23, <1>24 DEF Form

LEMMA BeginCore ==
  ASSUME NEW b, Form(b), NEW o, Proper(o), o.seq = FreshSeq(b), NEW c, Begun(b, c, o), Inherits(b, o)
  PROVE  /\ Calm(b) /\ Postable(b, o) => Core(c)
         /\ Rollback(b) => Rollback(c)
         /\ Stepping(b) => Stepping(c)
         /\ Heavy(b) => Heavy(c)
<1>0. Typed(b) BY DEF Form
<1>1. Carries(b, c) /\ c.active = o.seq /\ o \in c.ops BY DEF Begun
<1>2. \A x \in c.ops : x = o \/ \E q \in b.ops : Kin(x, q) /\ (IF q.seq = b.active THEN x.aborted ELSE x = q)
  BY DEF Begun
<1>3. \A t \in c.timers : \E u \in b.timers : TimerKin(t, u) /\ t.late = u.late BY DEF Begun
<1>4. /\ \A q \in b.ops : q.seq # o.seq
      /\ \A r \in b.pushRecovery \cup b.supersession : r.op # o.seq
  BY <1>0, FreshSeqIs
<1>5. \A x \in c.ops : x.seq = c.active => x = o BY <1>1, <1>2, <1>4 DEF Kin
<1>6. ASSUME Calm(b), Postable(b, o) PROVE Core(c)
  <2>1. Single(c)
    <3> SUFFICES ASSUME NEW x \in c.ops, ~x.aborted PROVE x = o BY <1>1 DEF Single, Proper
    <3>1. CASE x # o
      <4>1. PICK q \in b.ops : Kin(x, q) /\ (IF q.seq = b.active THEN x.aborted ELSE x = q) BY <1>2, <3>1
      <4>2. x = q /\ q.seq # b.active BY <4>1
      <4> QED BY <1>6, <4>2 DEF Calm, Single
    <3> QED BY <3>1
  <2>2. Repeating(c) /\ Interrupted(c) /\ Prompting(c)
    BY <1>1, <1>6 DEF Calm, Repeating, Interrupted, Prompting, Unasked, Carries
  <2>3. Posting(c)
    <3> SUFFICES ASSUME o.kind = "post"
                 PROVE  /\ ~c.traversing /\ c.life = "active"
                        /\ \A t \in c.timers : t.kind = "stage" => t.late
      BY <1>5 DEF Posting, Proper
    <3> QED BY <1>1, <1>3, <1>6 DEF Postable, Carries, TimerKin
  <2>4. Scrolled(c)
    <3> SUFFICES ASSUME NEW t \in c.timers, Ours(c, t)
                 PROVE  c.recovering /\ (t.rec # NoUrl => o.rec # NoUrl)
      BY <1>5 DEF Scrolled
    <3>1. PICK u \in b.timers : TimerKin(t, u) BY <1>3
    <3>2. Ours(b, u) BY <1>1, <3>1 DEF Ours, TimerKin, Carries
    <3>3. b.recovering /\ b.traversing BY <1>6, <3>2 DEF Calm, Scrolled, Repeating
    <3> QED BY <1>1, <3>2, <3>3 DEF Inherits, Carries
  <2> QED BY <2>1, <2>2, <2>3, <2>4 DEF Core
<1>7. ASSUME Rollback(b) PROVE Rollback(c)
  <2> SUFFICES ASSUME c.pushRecovery # {}
               PROVE  /\ c.jumps = <<-1>> /\ c.cur > 1 /\ ~c.recovering
                      /\ \A t \in c.timers : t.kind # "stage"
                      /\ c.traversing => o.rec # NoUrl
                      /\ \A r, q \in c.pushRecovery : r = q
                      /\ \A r \in c.pushRecovery : /\ r.rec # NoUrl <=> r.op # 0
                                                   /\ \A x \in c.ops : x.seq = r.op => x.rec # NoUrl
    BY <1>5 DEF Rollback
  <2>1. b.pushRecovery # {} /\ c.pushRecovery = b.pushRecovery BY <1>1 DEF Carries
  <2>2. c.jumps = <<-1>> /\ c.cur > 1 /\ ~c.recovering BY <1>1, <1>7, <2>1 DEF Rollback, Carries
  <2>3. \A t \in c.timers : t.kind # "stage" BY <1>3, <1>7, <2>1 DEF Rollback, TimerKin
  <2>4. c.traversing => o.rec # NoUrl BY <1>1, <2>1 DEF Inherits, Carries
  <2>5. ASSUME NEW r \in c.pushRecovery, NEW x \in c.ops, x.seq = r.op PROVE x.rec # NoUrl
    <3>1. x # o BY <1>4, <2>1, <2>5
    <3>2. PICK q \in b.ops : Kin(x, q) BY <1>2, <3>1
    <3> QED BY <1>7, <2>1, <2>5, <3>2 DEF Rollback, Kin
  <2>6. (\A r, q \in c.pushRecovery : r = q) /\ \A r \in c.pushRecovery : r.rec # NoUrl <=> r.op # 0
    BY <1>7, <2>1 DEF Rollback
  <2> QED BY <2>2, <2>3, <2>4, <2>5, <2>6
<1>8. ASSUME Stepping(b) PROVE Stepping(c)
  <2> SUFFICES ASSUME c.supersession # {}
               PROVE  /\ Len(c.entries) > 1
                      /\ (c.jumps = <<1>> /\ c.cur < Len(c.entries)) \/ c.jumps = <<-1, 1>>
                      /\ \A t \in c.timers : t.kind # "stage"
                      /\ \A r \in c.supersession, x \in c.ops :
                           /\ x.seq = r.op => x.aborted /\ x.kind # "post"
                           /\ c.traversing /\ r.rec # NoUrl /\ x.seq = c.active => x.rec # NoUrl
    BY DEF Stepping
  <2>1. b.supersession # {} /\ c.supersession = b.supersession BY <1>1 DEF Carries
  <2>2. /\ Len(c.entries) > 1
        /\ (c.jumps = <<1>> /\ c.cur < Len(c.entries)) \/ c.jumps = <<-1, 1>>
    BY <1>1, <1>8, <2>1 DEF Stepping, Carries
  <2>3. \A t \in c.timers : t.kind # "stage" BY <1>3, <1>8, <2>1 DEF Stepping, TimerKin
  <2>4. ASSUME NEW r \in c.supersession, NEW x \in c.ops, x.seq = r.op PROVE x.aborted /\ x.kind # "post"
    <3>1. x # o BY <1>4, <2>1, <2>4
    <3>2. PICK q \in b.ops : Kin(x, q) BY <1>2, <3>1
    <3>3. q.seq = r.op BY <2>4, <3>2 DEF Kin
    <3>4. q.aborted /\ q.kind # "post" BY <1>8, <2>1, <3>3 DEF Stepping
    <3> QED BY <3>2, <3>4 DEF Kin
  <2>5. c.traversing => o.rec # NoUrl BY <1>1, <2>1 DEF Inherits, Carries
  <2> QED BY <1>5, <2>2, <2>3, <2>4, <2>5
<1>9. ASSUME Heavy(b) PROVE Heavy(c)
  BY <1>1, <1>3, <1>9 DEF Heavy, Ours, TimerKin, Carries
<1> QED BY <1>6, <1>7, <1>8, <1>9

-----------------------------------------------------------------------------
(* The traversal, the history and the prompts.                             *)

\* all but the traversal is as it was, and none is under way
Paused(b, c) ==
  /\ c.entries = b.entries /\ c.cur = b.cur /\ c.shown = b.shown /\ c.truthUrl = b.truthUrl
  /\ c.displayed = b.displayed /\ c.selected = b.selected
  /\ c.ops = b.ops /\ c.active = b.active /\ c.carrier = b.carrier
  /\ ~c.traversing /\ ~c.recovering
  /\ c.mutationRecovery = b.mutationRecovery /\ c.pushRecovery = b.pushRecovery
  /\ c.supersession = b.supersession /\ c.life = b.life /\ c.departure = b.departure
  /\ c.observers = b.observers /\ c.prompted = b.prompted /\ c.timers = b.timers
  /\ c.jumps = b.jumps /\ c.lapsed = b.lapsed /\ c.leaving = b.leaving
  /\ \A t \in c.timers : ~Ours(c, t)

LEMMA PausedKeeps ==
  ASSUME NEW b, Form(b), NEW c, Typed(c), Paused(b, c)
  PROVE  /\ Form(c) /\ (Core(b) => Core(c)) /\ (Rollback(b) => Rollback(c)) /\ (Stepping(b) => Stepping(c))
         /\ (Heavy(b) => Heavy(c))
<1>1. Unique(c) /\ Owned(c) /\ Natives(c) BY DEF Form, Unique, Owned, Natives, Paused
<1>2. RealOps(c) /\ RealTimers(c) /\ RealHistory(c) /\ RealRecoveries(c) /\ RealPrompts(c)
  BY DEF Form, RealOps, RealTimers, RealHistory, RealRecoveries, RealPrompts, Paused
<1>3. Core(b) => Core(c)
  BY DEF Core, Single, Repeating, Posting, Interrupted, Scrolled, Prompting, Unasked, Paused
<1>4. Rollback(b) => Rollback(c) BY DEF Rollback, Paused
<1>5. Stepping(b) => Stepping(c) BY DEF Stepping, Paused
<1>6. Heavy(b) => Heavy(c) BY DEF Heavy, Paused
<1> QED BY <1>1, <1>2, <1>3, <1>4, <1>5, <1>6 DEF Form

LEMMA CloseTraversalIs ==
  ASSUME NEW b, Form(b), NEW c, c = CloseTraversal(b)
  PROVE  /\ Paused(b, c) /\ Form(c)
         /\ (Core(b) => Core(c)) /\ (Rollback(b) => Rollback(c)) /\ (Stepping(b) => Stepping(c))
         /\ (Heavy(b) => Heavy(c))
<1>1. PICK t \in Nat : t = FreshTraversal(b) /\ \A u \in b.timers : u.trav # t
  BY FreshTraversalIs DEF Form
<1>2. b \in Page /\ Typed(b) BY DEF Form, Typed
<1>3. c = [b EXCEPT !.traversal = t, !.traversing = FALSE, !.recovering = FALSE] BY <1>1 DEF CloseTraversal
<1>4. c \in Page BY <1>2, <1>3, ZenonT(60) DEF Page
<1>5. c.traversal = t BY <1>2, <1>3 DEF Page
<1>6. Paused(b, c) BY <1>1, <1>2, <1>3, <1>5 DEF Paused, Page, Ours
<1>7. Typed(c) BY <1>2, <1>4, <1>6 DEF Typed, Paused
<1> QED BY <1>6, <1>7, PausedKeeps

\* a change of the history and the document
LEMMA AlikeIs ==
  ASSUME NEW b, Form(b), NEW c, c \in Page, c.cur \in DOMAIN c.entries, Alike(b, c), RealHistory(c)
  PROVE  /\ Form(c) /\ (Core(b) => Core(c)) /\ (Heavy(b) => Heavy(c))
         /\ c.cur >= b.cur => (Rollback(b) => Rollback(c))
         /\ c.cur = b.cur /\ Len(c.entries) = Len(b.entries) => (Stepping(b) => Stepping(c))
<1>1. Typed(c) BY DEF Form, Typed, Alike
<1>2. Unique(c) /\ Owned(c) /\ Natives(c) BY DEF Form, Unique, Owned, Natives, Alike
<1>3. RealOps(c) /\ RealTimers(c) /\ RealRecoveries(c) /\ RealPrompts(c)
  BY DEF Form, RealOps, RealTimers, RealRecoveries, RealPrompts, Alike
<1>4. Core(b) => Core(c)
  BY DEF Core, Single, Repeating, Posting, Interrupted, Scrolled, Ours, Prompting, Unasked, Alike
<1>5. c.cur >= b.cur => (Rollback(b) => Rollback(c))
  <2>1. b.cur \in Nat /\ c.cur \in Nat BY DEF Form, Typed, Page
  <2> QED BY <2>1 DEF Rollback, Alike
<1>6. c.cur = b.cur /\ Len(c.entries) = Len(b.entries) => (Stepping(b) => Stepping(c)) BY DEF Stepping, Alike
<1>7. Heavy(b) => Heavy(c) BY DEF Heavy, Ours, Alike
<1> QED BY <1>1, <1>2, <1>3, <1>4, <1>5, <1>6, <1>7 DEF Form

LEMMA RepairIs ==
  ASSUME NEW b, Form(b), NEW url \in Link, url # NoUrl, NEW c, c = RepairDisplayedTruth(b, url)
  PROVE  /\ Form(c) /\ Alike(b, c) /\ c.shown = b.shown /\ c.leaving = b.leaving
         /\ c.truthUrl = url /\ Href(c) = url /\ c.cur = b.cur /\ Len(c.entries) = Len(b.entries)
         /\ (Core(b) => Core(c)) /\ (Rollback(b) => Rollback(c)) /\ (Stepping(b) => Stepping(c))
         /\ (Heavy(b) => Heavy(c))
<1>1. PICK id \in Nat : id = FreshEntry(b) BY FreshEntryIs DEF Form
<1>2. PICK e \in Entry : e = [url |-> url, id |-> id] BY DEF Entry
<1>3. PICK s : s = [b.entries EXCEPT ![b.cur] = e] OBVIOUS
<1>4. b \in Page /\ b.cur \in DOMAIN b.entries /\ b.entries \in Seq(Entry) /\ b.cur \in Nat BY DEF Form, Typed, Page
<1>5. s \in Seq(Entry) /\ DOMAIN s = DOMAIN b.entries /\ Len(s) = Len(b.entries) /\ s[b.cur] = e BY <1>3, <1>4
<1>6. c = [b EXCEPT !.entries = s, !.displayed = id, !.selected = id, !.truthUrl = url]
  BY <1>1, <1>2, <1>3 DEF RepairDisplayedTruth
<1>7. c \in Page BY <1>4, <1>5, <1>6, ZenonT(60) DEF Page
<1>8. Alike(b, c) /\ c.shown = b.shown /\ c.leaving = b.leaving BY <1>4, <1>6 DEF Alike, Page
<1>9. c.truthUrl = url /\ c.entries = s /\ c.cur = b.cur BY <1>4, <1>6 DEF Page
<1>10. Href(c) = url /\ c.cur \in DOMAIN c.entries BY <1>2, <1>4, <1>5, <1>9 DEF Href, Current
<1>11. RealHistory(c)
  <2>1. \A i \in DOMAIN s : s[i].url # NoUrl BY <1>2, <1>3, <1>4, <1>5 DEF Form, RealHistory
  <2> QED BY <1>9, <2>1 DEF RealHistory
<1>12. c.cur >= b.cur BY <1>4, <1>9
<1> QED BY <1>5, <1>7, <1>8, <1>9, <1>10, <1>11, <1>12, AlikeIs

LEMMA SelectedIs ==
  ASSUME NEW b, Form(b), NEW url \in Link, url # NoUrl, NEW replace \in BOOLEAN, NEW c, c = Selected(b, url, replace)
  PROVE  /\ Form(c) /\ Alike(b, c) /\ c.shown = b.shown /\ c.leaving = b.leaving
         /\ c.truthUrl = b.truthUrl /\ Href(c) = url
         /\ (~replace => c.cur > 1) /\ c.cur >= b.cur
         /\ (Core(b) => Core(c)) /\ (Rollback(b) => Rollback(c)) /\ (Heavy(b) => Heavy(c))
<1>1. PICK id \in Nat : id = FreshEntry(b) BY FreshEntryIs DEF Form
<1>2. b \in Page /\ b.cur \in DOMAIN b.entries /\ b.entries \in Seq(Entry) /\ b.cur \in 1..Len(b.entries)
      /\ b.truthUrl # NoUrl /\ \A i \in DOMAIN b.entries : b.entries[i].url # NoUrl
  BY DEF Form, Typed, Page, RealHistory
<1>3. /\ c \in Page /\ c.cur \in DOMAIN c.entries /\ Alike(b, c) /\ c.shown = b.shown /\ c.leaving = b.leaving
      /\ c.truthUrl = b.truthUrl /\ Href(c) = url /\ (~replace => c.cur > 1) /\ c.cur >= b.cur
      /\ \A i \in DOMAIN c.entries : c.entries[i].url # NoUrl
  <2>1. CASE replace
    <3>0. PICK x \in Entry : x = b.entries[b.cur] BY <1>2
    <3>1. PICK e \in Entry : e = [x EXCEPT !.url = url] BY DEF Entry
    <3>2. PICK s : s = [b.entries EXCEPT ![b.cur] = e] OBVIOUS
    <3>3. s \in Seq(Entry) /\ DOMAIN s = DOMAIN b.entries /\ s[b.cur] = e BY <1>2, <3>2
    <3>4. c = [b EXCEPT !.entries = s] BY <2>1, <3>0, <3>1, <3>2, <1>2 DEF Selected
    <3>5. c \in Page /\ Alike(b, c) /\ c.shown = b.shown /\ c.leaving = b.leaving /\ c.truthUrl = b.truthUrl
          /\ c.cur = b.cur /\ c.entries = s
      BY <1>2, <3>3, <3>4, ZenonT(60) DEF Page, Alike
    <3>6. e.url = url BY <3>0, <3>1 DEF Entry
    <3>7. Href(c) = url BY <3>3, <3>5, <3>6 DEF Href, Current
    <3>8. \A i \in DOMAIN s : s[i].url # NoUrl BY <1>2, <3>2, <3>3, <3>6
    <3>9. c.cur >= b.cur
      <4>1. b.cur \in Nat BY <1>2 DEF Page
      <4> QED BY <3>5, <4>1
    <3>10. c.cur \in DOMAIN c.entries BY <1>2, <3>3, <3>5
    <3>11. \A i \in DOMAIN c.entries : c.entries[i].url # NoUrl BY <3>5, <3>8
    <3> QED BY <2>1, <3>5, <3>7, <3>9, <3>10, <3>11
  <2>2. CASE ~replace
    <3>1. PICK e \in Entry : e = [url |-> url, id |-> id] BY DEF Entry
    <3>2. PICK h : h = SubSeq(b.entries, 1, b.cur) OBVIOUS
    <3>3. h \in Seq(Entry) /\ Len(h) = b.cur /\ \A i \in 1..b.cur : h[i] = b.entries[i]
      BY <1>2, <3>2
    <3>4. PICK s : s = Append(h, e) OBVIOUS
    <3>5. PICK k \in Nat : k = b.cur + 1 BY <1>2
    <3>6. s \in Seq(Entry) /\ DOMAIN s = 1..k /\ s[k] = e /\ \A i \in 1..b.cur : s[i] = h[i]
      BY <1>2, <3>3, <3>4, <3>5
    <3>7. c = [b EXCEPT !.entries = s, !.cur = k]
      <4>1. c = [b EXCEPT !.entries = s, !.cur = @ + 1] BY <1>1, <2>2, <3>1, <3>2, <3>4 DEF Selected
      <4> QED BY <1>2, <3>5, <4>1 DEF Page
    <3>8. c \in Page /\ c.cur = k /\ c.entries = s BY <1>2, <3>6, <3>7, ZenonT(60) DEF Page
    <3>9. Alike(b, c) /\ c.shown = b.shown /\ c.leaving = b.leaving /\ c.truthUrl = b.truthUrl
      BY <1>2, <3>7 DEF Page, Alike
    <3>10. Href(c) = url BY <3>1, <3>6, <3>8 DEF Href, Current
    <3>11. \A i \in 1..b.cur : s[i].url # NoUrl BY <1>2, <3>3, <3>6
    <3>12. \A i \in 1..k : i \in 1..b.cur \/ i = k BY <1>2, <3>5
    <3>13. e.url # NoUrl BY <3>1
    <3>14. \A i \in DOMAIN s : s[i].url # NoUrl BY <3>6, <3>11, <3>12, <3>13
    <3>15. k \in 1..k /\ k > 1 /\ k >= b.cur BY <1>2, <3>5
    <3> QED BY <3>6, <3>8, <3>9, <3>10, <3>14, <3>15
  <2> QED BY <2>1, <2>2
<1>4. RealHistory(c) BY <1>2, <1>3 DEF RealHistory
<1> QED BY <1>3, <1>4, AlikeIs

\* all but the prompts is as it was: one is to come, and the observers O listen to it as well
Asks(b, c, O) ==
  /\ Undisturbed(b, c) /\ Elements(c.observers) = Elements(b.observers) \cup O
  /\ \E url \in Link : url # NoUrl /\ c.departure = {[url |-> url, asked |-> FALSE]}

LEMMA AsksKeeps ==
  ASSUME NEW b, Form(b), NEW O, \A x \in O : x.truth # NoUrl, NEW c, Typed(c), Asks(b, c, O)
  PROVE  /\ Form(c) /\ Unasked(c)
         /\ (Core(b) => Core(c)) /\ (Rollback(b) => Rollback(c)) /\ (Stepping(b) => Stepping(c))
         /\ (\A x \in O : x.rec # NoUrl) => (Heavy(b) => Heavy(c))
<1>1. PICK url \in Link : url # NoUrl /\ c.departure = {[url |-> url, asked |-> FALSE]} BY DEF Asks
<1>2. Undisturbed(b, c) /\ Elements(c.observers) = Elements(b.observers) \cup O BY DEF Asks
<1>3. Unasked(c) BY <1>1 DEF Unasked
<1>4. Unique(c) /\ Owned(c) /\ Natives(c) BY <1>2 DEF Form, Unique, Owned, Natives, Undisturbed
<1>5. RealOps(c) /\ RealTimers(c) /\ RealHistory(c) /\ RealRecoveries(c)
  BY <1>2 DEF Form, RealOps, RealTimers, RealHistory, RealRecoveries, Undisturbed
<1>6. RealPrompts(c) BY <1>1, <1>2 DEF Form, RealPrompts, Undisturbed
<1>7. Core(b) => Core(c)
  BY <1>2, <1>3 DEF Core, Single, Repeating, Posting, Interrupted, Scrolled, Ours, Prompting, Undisturbed
<1>8. Rollback(b) => Rollback(c) BY <1>2 DEF Rollback, Undisturbed
<1>9. Stepping(b) => Stepping(c) BY <1>2 DEF Stepping, Undisturbed
<1>10. ASSUME \A x \in O : x.rec # NoUrl, Heavy(b) PROVE Heavy(c) BY <1>2, <1>10 DEF Heavy, Ours, Undisturbed
<1> QED BY <1>3, <1>4, <1>5, <1>6, <1>7, <1>8, <1>9, <1>10 DEF Form

LEMMA DepartIs ==
  ASSUME NEW b, Typed(b), NEW url \in Link, url # NoUrl, NEW c, c = Depart(b, url)
  PROVE  Typed(c) /\ Asks(b, c, {}) /\ c.observers = b.observers
<1>1. PICK d \in [url : Link, asked : BOOLEAN] : d = [url |-> url, asked |-> FALSE] OBVIOUS
<1>2. b \in Page BY DEF Typed
<1>3. PICK D \in SUBSET [url : Link, asked : BOOLEAN] : D = {d} OBVIOUS
<1>4. c = [b EXCEPT !.departure = D] BY <1>1, <1>3 DEF Depart
<1>5. c \in Page /\ Undisturbed(b, c) /\ c.departure = {d} /\ c.observers = b.observers
  <2>1. c \in Page BY <1>2, <1>4, ZenonT(60) DEF Page
  <2>2. Undisturbed(b, c) /\ c.departure = D /\ c.observers = b.observers BY <1>2, <1>4 DEF Page, Undisturbed
  <2> QED BY <1>3, <2>1, <2>2
<1>6. Typed(c) BY <1>5 DEF Typed, Undisturbed
<1> QED BY <1>1, <1>5, <1>6 DEF Asks

LEMMA ObserveIs ==
  ASSUME NEW b, Typed(b), NEW obs \in ObserverRecord, NEW c, c = Observe(b, obs)
  PROVE  /\ Typed(c) /\ Undisturbed(b, c) /\ c.departure = b.departure
         /\ Elements(c.observers) = Elements(b.observers) \cup {obs}
<1>1. PICK s : s = Observed(b.observers, obs) OBVIOUS
<1>2. b \in Page /\ b.observers \in Seq(ObserverRecord) BY DEF Typed, Page
<1>3. c = [b EXCEPT !.observers = s] BY <1>1 DEF Observe, Observed
<1>4. s \in Seq(ObserverRecord) /\ Elements(s) = Elements(b.observers) \cup {obs} BY <1>1, <1>2, ObservedIs
<1>5. c \in Page /\ Undisturbed(b, c) /\ c.departure = b.departure /\ c.observers = s
  BY <1>2, <1>3, <1>4, ZenonT(60) DEF Page, Undisturbed
<1> QED BY <1>4, <1>5 DEF Typed, Undisturbed

LEMMA AskIs ==
  ASSUME NEW b, Typed(b), NEW url \in Link, url # NoUrl, NEW obs \in ObserverRecord,
         NEW c, c = Depart(Observe(b, obs), url)
  PROVE  Typed(c) /\ Asks(b, c, {obs})
<1>1. PICK a : a = Observe(b, obs) OBVIOUS
<1>2. /\ Typed(a) /\ Undisturbed(b, a) /\ a.departure = b.departure
      /\ Elements(a.observers) = Elements(b.observers) \cup {obs}
  BY <1>1, ObserveIs
<1>3. Typed(c) /\ Asks(a, c, {}) /\ c.observers = a.observers BY <1>1, <1>2, DepartIs
<1>4. Undisturbed(b, c) BY <1>2, <1>3 DEF Undisturbed, Asks
<1> QED BY <1>2, <1>3, <1>4 DEF Asks

LEMMA WatcherIs ==
  ASSUME NEW b, Form(b), NEW kind \in {"fallback", "traversal", "staged", "close"}, NEW repair \in BOOLEAN,
         NEW trav \in Nat, NEW rec \in Link, NEW x, x = Observer(b, kind, repair, trav, rec)
  PROVE  /\ x \in ObserverRecord /\ x.kind = kind /\ x.rec = rec /\ x.trav = trav /\ x.repair = repair
         /\ x.truth = b.truthUrl /\ x.sel = Href(b) /\ x.truth # NoUrl
<1>1. Href(b) \in Link BY CurrentIs DEF Form
<1>2. b.truthUrl \in Link /\ b.truthUrl # NoUrl BY DEF Form, Typed, Page, RealHistory
<1> QED BY <1>1, <1>2 DEF Observer, ObserverRecord

LEMMA BeginTraversalRecoveryIs ==
  ASSUME NEW b, Form(b), b.recovering, NEW rec \in Link, NEW c, c = BeginTraversalRecovery(b, rec)
  PROVE  \E x \in ObserverRecord :
           /\ Asks(b, c, {x}) /\ x.kind = "traversal" /\ x.rec = rec
           /\ Form(c) /\ Unasked(c)
           /\ (Core(b) => Core(c)) /\ (Rollback(b) => Rollback(c)) /\ (Stepping(b) => Stepping(c))
           /\ rec # NoUrl => (Heavy(b) => Heavy(c)) /\ Leaving(c)
<1>0. Typed(b) /\ b.traversal \in Nat /\ b.cur \in DOMAIN b.entries /\ \A i \in DOMAIN b.entries : b.entries[i].url # NoUrl
  BY DEF Form, Typed, Page, RealHistory
<1>10. PICK yes \in BOOLEAN : yes = TRUE OBVIOUS
<1>11. yes \in BOOLEAN OBVIOUS
<1>1. PICK x : x = Observer(b, "traversal", yes, b.traversal, rec) OBVIOUS
<1>2. /\ x \in ObserverRecord /\ x.kind = "traversal" /\ x.rec = rec /\ x.truth = b.truthUrl
      /\ x.trav = b.traversal /\ x.truth # NoUrl
  BY <1>0, <1>1, <1>11, WatcherIs
<1>3. PICK url \in Link : url = Href(b) /\ url # NoUrl
  <2>1. Href(b) \in Link BY <1>0, CurrentIs
  <2> QED BY <1>0, <2>1 DEF Href, Current
<1>4. Typed(c) /\ Asks(b, c, {x})
  <2>1. c = Depart(Observe(b, x), url) BY <1>1, <1>3, <1>10 DEF BeginTraversalRecovery
  <2> QED BY <1>0, <1>2, <1>3, <2>1, AskIs
<1>5. /\ Form(c) /\ Unasked(c)
      /\ (Core(b) => Core(c)) /\ (Rollback(b) => Rollback(c)) /\ (Stepping(b) => Stepping(c))
      /\ (\A y \in {x} : y.rec # NoUrl) => (Heavy(b) => Heavy(c))
  BY <1>2, <1>4, AsksKeeps
<1>6. Guard(c, x) /\ x \in Elements(c.observers)
  <2>1. c.truthUrl = b.truthUrl /\ c.traversal = b.traversal /\ c.recovering BY <1>4 DEF Asks, Undisturbed
  <2>2. x \in Elements(c.observers) BY <1>4 DEF Asks
  <2> QED BY <1>2, <2>1, <2>2 DEF Guard
<1>7. rec # NoUrl => Leaving(c) BY <1>2, <1>5, <1>6 DEF Leaving
<1> QED BY <1>2, <1>4, <1>5, <1>7

-----------------------------------------------------------------------------
(* What every function of the runtime does to the page.                    *)

Steady(b) == Core(b) /\ Rollback(b) /\ Stepping(b)

Lone(b) == \A d, e \in b.departure : d = e
\* an operation of S is new, or was among T and no less a request there
Recent(S, T) ==
  \A o \in S : \/ o.began = server
               \/ \E q \in T : o.began = q.began /\ (~o.aborted /\ o.kind = "nav" => ~q.aborted /\ q.kind = "nav")
\* c is a later page of the same document
Onward(b, c) ==
  /\ (Off(b) => Off(c)) /\ c.leaving = b.leaving
  /\ (b.departure # {} => c.departure # {}) /\ (Lone(b) => Lone(c))
  /\ Recent(c.ops, b.ops)
Still(b, c) == Onward(b, c) /\ c.shown = b.shown

LEMMA StillTrans ==
  ASSUME NEW a, NEW b, NEW c, Still(a, b), Still(b, c)
  PROVE  Still(a, c)
<1>1. Recent(c.ops, a.ops)
  <2> SUFFICES ASSUME NEW o \in c.ops
               PROVE  \/ o.began = server
                      \/ \E q \in a.ops : o.began = q.began /\ (~o.aborted /\ o.kind = "nav" => ~q.aborted /\ q.kind = "nav")
    BY DEF Recent
  <2>1. CASE o.began = server BY <2>1
  <2>2. CASE \E q \in b.ops : o.began = q.began /\ (~o.aborted /\ o.kind = "nav" => ~q.aborted /\ q.kind = "nav")
    <3>1. PICK q \in b.ops : o.began = q.began /\ (~o.aborted /\ o.kind = "nav" => ~q.aborted /\ q.kind = "nav")
      BY <2>2
    <3>2. q.began = server \/ \E p \in a.ops : q.began = p.began /\ (~q.aborted /\ q.kind = "nav" => ~p.aborted /\ p.kind = "nav")
      BY DEF Still, Onward, Recent
    <3> QED BY <3>1, <3>2
  <2> QED BY <2>1, <2>2 DEF Still, Onward, Recent
<1> QED BY <1>1 DEF Still, Onward

LEMMA StillNewest ==
  ASSUME server \in Nat, NEW b, NEW c, Still(b, c), NEW d \in Nat, d <= server, Newest(b, d)
  PROVE  Newest(c, d)
BY DEF Still, Onward, Recent, Newest

LEMMA SameRecent ==
  ASSUME NEW T, NEW S \in SUBSET T
  PROVE  Recent(S, T)
BY DEF Recent

LEMMA StillOthers ==
  ASSUME NEW b, NEW c, Others(b, c), Descend(c.ops, b.ops)
  PROVE  Still(b, c)
<1>1. Recent(c.ops, b.ops)
  <2> SUFFICES ASSUME NEW o \in c.ops
               PROVE  \E q \in b.ops : o.began = q.began /\ (~o.aborted /\ o.kind = "nav" => ~q.aborted /\ q.kind = "nav")
    BY DEF Recent
  <2>1. PICK q \in b.ops : Kin(o, q) BY DEF Descend
  <2> QED BY <2>1 DEF Kin
<1> QED BY <1>1 DEF Still, Onward, Off, NoReturn, Lone, Others

LEMMA StillAged ==
  ASSUME NEW b, NEW c, Aged(b, c)
  PROVE  Still(b, c)
<1>1. Recent(c.ops, b.ops) BY DEF Recent, Aged, Kin
<1> QED BY <1>1 DEF Still, Onward, Off, NoReturn, Lone, Aged, Carries

LEMMA StillBegun ==
  ASSUME NEW b, NEW c, NEW o, Begun(b, c, o), o.began = server
  PROVE  Still(b, c)
<1>1. Recent(c.ops, b.ops)
  <2> SUFFICES ASSUME NEW x \in c.ops, x # o
               PROVE  \E q \in b.ops : x.began = q.began /\ (~x.aborted /\ x.kind = "nav" => ~q.aborted /\ q.kind = "nav")
    BY DEF Recent
  <2>1. PICK q \in b.ops : Kin(x, q) /\ x.kind = q.kind BY DEF Begun
  <2> QED BY <2>1 DEF Kin
<1> QED BY <1>1 DEF Still, Onward, Off, NoReturn, Lone, Begun, Carries

LEMMA StillPaused ==
  ASSUME NEW b, NEW c, Paused(b, c)
  PROVE  Still(b, c)
<1>1. Recent(c.ops, b.ops) BY DEF Recent, Paused
<1> QED BY <1>1 DEF Still, Onward, Off, NoReturn, Lone, Paused

LEMMA StillAlike ==
  ASSUME NEW b, NEW c, Alike(b, c), c.leaving = b.leaving, c.shown = b.shown
  PROVE  Still(b, c)
<1>1. Recent(c.ops, b.ops) BY DEF Recent, Alike
<1> QED BY <1>1 DEF Still, Onward, Off, NoReturn, Lone, Alike

LEMMA StillAsks ==
  ASSUME NEW b, NEW O, \A x \in O : x.kind = "close" => x.rec = NoUrl, NEW c, Asks(b, c, O)
  PROVE  Still(b, c)
<1>1. Recent(c.ops, b.ops) BY DEF Recent, Asks, Undisturbed
<1>2. c.departure # {} /\ Lone(c) BY DEF Asks, Lone
<1>3. Off(b) => Off(c) BY DEF Off, NoReturn, Asks, Undisturbed
<1> QED BY <1>1, <1>2, <1>3 DEF Still, Onward, Asks, Undisturbed

\* a native load that carries rec
Away(b, c, rec) ==
  /\ Form(c) /\ Still(b, c) /\ Undisturbed(b, c)
  /\ (Core(b) => Core(c)) /\ (Rollback(b) => Rollback(c)) /\ (Stepping(b) => Stepping(c))
  /\ rec # NoUrl => (Heavy(b) => Heavy(c)) /\ Leaving(c)

LEMMA FallbackAway ==
  ASSUME NEW b, Form(b), NEW url \in Link, url # NoUrl, NEW repair \in BOOLEAN, NEW rec \in Link
  PROVE  Away(b, Fallback(b, url, repair, rec), rec)
<1>0. PICK c : c = Fallback(b, url, repair, rec) OBVIOUS
<1>1. PICK x : x = Observer(b, "fallback", repair, 0, rec) OBVIOUS
<1>2. /\ x \in ObserverRecord /\ x.kind = "fallback" /\ x.rec = rec /\ x.truth = b.truthUrl /\ x.sel = Href(b)
      /\ x.truth # NoUrl
  BY <1>1, WatcherIs
<1>3. Typed(c) /\ Asks(b, c, {x})
  <2>1. Typed(b) BY DEF Form
  <2>2. c = Depart(Observe(b, x), url) BY <1>0, <1>1 DEF Fallback
  <2> QED BY <1>2, <2>1, <2>2, AskIs
<1>4. /\ Form(c) /\ Unasked(c)
      /\ (Core(b) => Core(c)) /\ (Rollback(b) => Rollback(c)) /\ (Stepping(b) => Stepping(c))
      /\ (\A y \in {x} : y.rec # NoUrl) => (Heavy(b) => Heavy(c))
  BY <1>2, <1>3, AsksKeeps
<1>5. Guard(c, x) /\ x \in Elements(c.observers)
  <2>1. c.truthUrl = b.truthUrl /\ Href(c) = Href(b) BY <1>3 DEF Asks, Undisturbed, Href, Current
  <2>2. x \in Elements(c.observers) BY <1>3 DEF Asks
  <2> QED BY <1>2, <2>1, <2>2 DEF Guard
<1>6. rec # NoUrl => Leaving(c) BY <1>2, <1>4, <1>5 DEF Leaving
<1>7. Still(b, c) BY <1>2, <1>3, StillAsks
<1>8. Undisturbed(b, c) BY <1>3 DEF Asks
<1>9. Away(b, c, rec) BY <1>2, <1>4, <1>6, <1>7, <1>8 DEF Away
<1> QED BY <1>0, <1>9

LEMMA TraversalAway ==
  ASSUME NEW b, Form(b), b.recovering, NEW rec \in Link
  PROVE  Away(b, BeginTraversalRecovery(b, rec), rec)
<1>1. PICK c : c = BeginTraversalRecovery(b, rec) OBVIOUS
<1>2. PICK x \in ObserverRecord :
           /\ Asks(b, c, {x}) /\ x.kind = "traversal" /\ x.rec = rec
           /\ Form(c) /\ Unasked(c)
           /\ (Core(b) => Core(c)) /\ (Rollback(b) => Rollback(c)) /\ (Stepping(b) => Stepping(c))
           /\ rec # NoUrl => (Heavy(b) => Heavy(c)) /\ Leaving(c)
  BY <1>1, BeginTraversalRecoveryIs
<1>3. Still(b, c) BY <1>2, StillAsks
<1>4. Undisturbed(b, c) BY <1>2 DEF Asks
<1>5. Away(b, c, rec) BY <1>2, <1>3, <1>4 DEF Away
<1> QED BY <1>1, <1>5

-----------------------------------------------------------------------------
(* The end of an operation, and new requests.                              *)

LEMMA EndOpForm ==
  ASSUME NEW b, Form(b), NEW o \in Operation, o.seq = b.carrier => o \in b.ops /\ o.aborted,
         NEW c, c = EndOp(b, o)
  PROVE  /\ Form(c) /\ Others(b, c) /\ Still(b, c) /\ Descend(c.ops, b.ops)
         /\ c.active = (IF b.active = o.seq /\ b.carrier # o.seq THEN 0 ELSE b.active)
         /\ c.traversing = (b.traversing /\ (o.trav = 0 \/ o.trav # b.traversal \/ b.recovering))
         /\ (\A x \in b.ops : x.seq # o.seq => x \in c.ops)
         /\ (\A x \in c.ops : x.seq # o.seq => x \in b.ops)
         /\ (b.carrier = o.seq => \E x \in c.ops : x.seq = o.seq)
         /\ (b.carrier # o.seq => \A x \in c.ops : x.seq # o.seq)
         /\ (Core(b) => Core(c)) /\ (Rollback(b) => Rollback(c)) /\ (Stepping(b) => Stepping(c))
         /\ (Heavy(b) => Heavy(c))
<1> DEFINE R == OthersOf(b, o)
           D == b.ops \ R
           X == IF b.carrier = o.seq THEN R \cup {Held(x) : x \in D} ELSE R
<1>0. Typed(b) /\ Unique(b) /\ b \in Page /\ b.ops \subseteq Operation BY DEF Form, Typed, Page
<1>1. /\ Typed(c) /\ Unique(c) /\ Others(b, c)
      /\ c.active = (IF b.active = o.seq /\ b.carrier # o.seq THEN 0 ELSE b.active)
      /\ c.traversing = (b.traversing /\ (o.trav = 0 \/ o.trav # b.traversal \/ b.recovering))
  BY <1>0, EndOpIs
<1>2. c.ops = X BY <1>0 DEF EndOp, OthersOf, Held, Page
<1>3. b.carrier = o.seq => D = {o} BY <1>0 DEF OthersOf, Unique
<1>4. R \subseteq b.ops /\ \A x \in R : x.seq # o.seq BY DEF OthersOf
<1>5. \A x \in b.ops : x.seq # o.seq => x \in R BY DEF OthersOf
<1>6. PICK h : h = Held(o) OBVIOUS
<1>7. /\ h.seq = o.seq /\ h.rec = o.rec /\ h.trav = o.trav /\ h.truth = o.truth /\ h.url = o.url
      /\ h.began = o.began /\ h.aborted = o.aborted /\ h.kind = "held"
  BY <1>0, <1>6 DEF Held, Operation
<1>8. c.ops = IF b.carrier = o.seq THEN R \cup {h} ELSE R BY <1>2, <1>3, <1>6
<1> HIDE DEF R, D, X
<1>9. b.carrier = o.seq => Kin(h, o)
  <2> SUFFICES ASSUME b.carrier = o.seq PROVE o.kind # "post" BY <1>7 DEF Kin
  <2> QED BY DEF Form, Natives, RealOps
<1>10. Descend(c.ops, b.ops)
  <2> SUFFICES ASSUME NEW x \in c.ops PROVE \E q \in b.ops : Kin(x, q) BY DEF Descend
  <2>1. CASE x \in R BY <1>4, <2>1 DEF Kin
  <2>2. CASE x = h /\ b.carrier = o.seq BY <1>9, <2>2
  <2> QED BY <1>8, <2>1, <2>2
<1>11. \A x \in b.ops : x.seq # o.seq => x \in c.ops BY <1>5, <1>8
<1>12. \A x \in c.ops : x.seq # o.seq => x \in b.ops BY <1>4, <1>7, <1>8
<1>13. (b.carrier = o.seq => \E x \in c.ops : x.seq = o.seq) /\ (b.carrier # o.seq => \A x \in c.ops : x.seq # o.seq)
  BY <1>4, <1>7, <1>8
<1>14. Owned(c)
  <2>1. CASE b.active = 0 BY <1>1, <2>1 DEF Owned
  <2>2. CASE b.active = o.seq BY <1>1, <1>13, <2>2 DEF Owned
  <2>3. CASE \E x \in b.ops : x.seq = b.active /\ x.seq # o.seq BY <1>1, <1>11, <2>3 DEF Owned
  <2> QED BY <2>1, <2>2, <2>3 DEF Form, Owned
<1>15. Form(c) BY <1>1, <1>10, <1>14, OthersForm
<1>16. Still(b, c) BY <1>1, <1>10, StillOthers
<1>17. ASSUME Core(b) PROVE Core(c)
  <2>1. Single(c)
    <3> SUFFICES ASSUME NEW x \in c.ops, ~x.aborted PROVE x.seq = c.active /\ x.kind # "held" BY DEF Single
    <3>1. x \in R BY <1>7, <1>8
    <3>2. x.seq = b.active /\ x.kind # "held" /\ x.seq # o.seq BY <1>4, <1>17, <3>1 DEF Core, Single
    <3> QED BY <1>1, <3>2
  <2>2. Repeating(c) BY <1>1, <1>17 DEF Core, Repeating, Others
  <2>3. \A x \in c.ops : x.seq = b.active /\ x.kind = "post" /\ x.aborted => b.mutationRecovery # {}
    <3> SUFFICES ASSUME NEW x \in c.ops, x.seq = b.active, x.kind = "post", x.aborted PROVE b.mutationRecovery # {}
      OBVIOUS
    <3>1. x \in b.ops BY <1>4, <1>7, <1>8
    <3> QED BY <1>17, <3>1 DEF Core, Posting
  <2> QED BY <1>1, <1>10, <1>15, <1>17, <2>1, <2>2, <2>3, OthersKeep
<1>18. (Rollback(b) => Rollback(c)) /\ (Stepping(b) => Stepping(c)) BY <1>1, <1>10, OthersKeep
<1>19. Heavy(b) => Heavy(c) BY <1>1 DEF Heavy, Ours, Others
<1> QED BY <1>1, <1>10, <1>11, <1>12, <1>13, <1>15, <1>16, <1>17, <1>18, <1>19

LEMMA NewOpIs ==
  ASSUME server \in Nat, NEW b, Form(b), NEW kind \in {"nav", "post", "wait", "idle"}, NEW url \in Link,
         NEW replace \in BOOLEAN, NEW trav \in Nat, NEW rec \in Link,
         NEW o, o = Op(b, kind, url, replace, trav, rec)
  PROVE  /\ o \in Operation /\ o.seq = FreshSeq(b) /\ o.kind = kind /\ o.url = url /\ o.rec = rec
         /\ o.truth # NoUrl /\ ~o.aborted /\ o.began = server
<1>1. Typed(b) /\ Href(b) # NoUrl BY DEF Form, Typed, RealHistory, Href, Current
<1>2. o \in Operation /\ o.seq = FreshSeq(b) /\ o.kind = kind /\ o.rec = rec BY <1>1, OpIs
<1>3. o.url = url /\ o.truth = Href(b) /\ ~o.aborted /\ o.began = server BY DEF Op
<1> QED BY <1>1, <1>2, <1>3

\* the traversal is over, but for what is being recovered
LEMMA ReleaseIs ==
  ASSUME NEW b, Form(b), NEW t \in BOOLEAN, t => b.traversing, b.recovering /\ b.traversing => t,
         NEW c, c = [b EXCEPT !.traversing = t]
  PROVE  /\ Form(c) /\ Others(b, c) /\ Still(b, c) /\ c.ops = b.ops /\ c.active = b.active
         /\ (Core(b) => Core(c)) /\ (Rollback(b) => Rollback(c)) /\ (Stepping(b) => Stepping(c))
         /\ (Heavy(b) => Heavy(c)) /\ (Leaving(b) => Leaving(c))
<1>1. Typed(b) /\ b \in Page /\ b.ops \in SUBSET Operation /\ IsFiniteSet(b.ops) /\ b.active \in Nat
      /\ Unique(b) /\ Owned(b)
  BY DEF Form, Typed, Page
<1>2. c = Renewed(b, b.ops, b.active, t) BY <1>1 DEF Renewed, Page
<1>3. Typed(c) /\ Others(b, c) /\ c.ops = b.ops /\ c.active = b.active /\ c.traversing = t
  BY <1>1, <1>2, RenewedIs
<1>4. Descend(c.ops, b.ops) BY <1>3 DEF Descend, Kin
<1>5. Unique(c) /\ Owned(c) BY <1>1, <1>3 DEF Unique, Owned
<1>6. Form(c) BY <1>3, <1>4, <1>5, OthersForm
<1>7. Still(b, c) BY <1>3, <1>4, StillOthers
<1>8. ASSUME Core(b) PROVE Core(c)
  <2>1. Single(c) BY <1>3, <1>8 DEF Core, Single
  <2>2. Repeating(c) BY <1>3, <1>8 DEF Core, Repeating, Others
  <2>3. \A o \in c.ops : o.seq = b.active /\ o.kind = "post" /\ o.aborted => b.mutationRecovery # {}
    BY <1>3, <1>8 DEF Core, Posting
  <2> QED BY <1>3, <1>4, <1>8, <2>1, <2>2, <2>3, OthersKeep
<1>9. (Rollback(b) => Rollback(c)) /\ (Stepping(b) => Stepping(c)) BY <1>3, <1>4, OthersKeep
<1>10. Heavy(b) => Heavy(c) BY <1>3 DEF Heavy, Ours, Others
<1>11. Leaving(b) => Leaving(c)
  <2>1. (Unasked(b) => Unasked(c)) /\ \A x : Guard(b, x) => Guard(c, x)
    BY <1>3 DEF Unasked, Guard, Href, Current, Others
  <2> QED BY <1>3, <2>1 DEF Leaving, Others
<1> QED BY <1>3, <1>6, <1>7, <1>8, <1>9, <1>10, <1>11

LEMMA RecoverCommittedIs ==
  ASSUME server \in Nat, NEW b, Form(b), NEW url \in Link, url # NoUrl, NEW c, c = RecoverCommitted(b, url)
  PROVE  /\ Form(c) /\ Still(b, c) /\ Requested(c)
         /\ (\E o : Begun(b, c, o) /\ o.kind = "wait" /\ o.trav = 0 /\ ~o.aborted)
         /\ (Calm(b) => Core(c)) /\ (Rollback(b) => Rollback(c)) /\ (Stepping(b) => Stepping(c))
         /\ (Heavy(b) => Heavy(c))
<1>0. PICK yes \in BOOLEAN : yes = TRUE OBVIOUS
<1>1. PICK q : q = Op(b, "wait", url, yes, 0, url) OBVIOUS
<1>2. /\ q \in Operation /\ q.seq = FreshSeq(b) /\ q.kind = "wait" /\ q.url = url /\ q.rec = url
      /\ ~q.aborted /\ q.began = server
  <2>1. yes \in BOOLEAN OBVIOUS
  <2> QED BY <1>1, <2>1, NewOpIs
<1>3. PICK o : o = [q EXCEPT !.truth = url] OBVIOUS
<1>4. /\ o \in Operation /\ o.seq = q.seq /\ o.kind = "wait" /\ o.url = url /\ o.rec = url /\ o.truth = url
      /\ ~o.aborted /\ o.began = server
  BY <1>2, <1>3 DEF Operation
<1>5. c = Begin(b, o) BY <1>0, <1>1, <1>3 DEF RecoverCommitted
<1>6. Proper(o) /\ Inherits(b, o) /\ Postable(b, o) BY <1>4 DEF Proper, Inherits, Postable
<1>7. o.seq = FreshSeq(b) BY <1>2, <1>4
<1>8. Form(c) /\ Begun(b, c, o) BY <1>5, <1>6, <1>7, BeginIs
<1>9. /\ (Calm(b) => Core(c)) /\ (Rollback(b) => Rollback(c)) /\ (Stepping(b) => Stepping(c))
      /\ (Heavy(b) => Heavy(c))
  BY <1>6, <1>7, <1>8, BeginCore
<1>10. Still(b, c) BY <1>4, <1>8, StillBegun
<1>11. Requested(c) BY <1>4, <1>8 DEF Requested, Awaited, Begun
<1>12. o.trav = 0
  <2>1. q.trav = 0 BY <1>1 DEF Op
  <2> QED BY <1>2, <1>3, <2>1 DEF Operation
<1> QED BY <1>4, <1>8, <1>9, <1>10, <1>11, <1>12

\* c has begun a navigation that carries h
Engaged(b, c, h) ==
  /\ Form(c) /\ Still(b, c)
  /\ \E o : Begun(b, c, o) /\ o.rec = h /\ o.kind = "nav"
  /\ h # NoUrl => Requested(c)
  /\ h # NoUrl \/ ~b.traversing \/ (b.pushRecovery = {} /\ b.supersession = {} /\ \A t \in b.timers : ~Ours(b, t)) =>
       /\ (Calm(b) => Core(c)) /\ (Rollback(b) => Rollback(c)) /\ (Stepping(b) => Stepping(c))
       /\ (Heavy(b) => Heavy(c))

\* a navigation the runtime requests
LEMMA NavigateBegins ==
  ASSUME server \in Nat, NEW b, Form(b), NEW url \in Link, url # NoUrl, NEW replace \in BOOLEAN, NEW trav \in Nat,
         NEW rec \in Link, Kind(b) # "post", b.life # "closed", NEW h \in Link,
         h = IF rec # NoUrl THEN rec ELSE Rec(b), NEW safe \in BOOLEAN, safe
  PROVE  Engaged(b, Navigate(b, url, replace, trav, rec, safe), h)
<1>0. PICK c : c = Navigate(b, url, replace, trav, rec, safe) OBVIOUS
<1>1. PICK o : o = Op(b, "nav", url, replace, trav, h) OBVIOUS
<1>2. /\ o \in Operation /\ o.seq = FreshSeq(b) /\ o.kind = "nav" /\ o.url = url /\ o.rec = h
      /\ o.truth # NoUrl /\ ~o.aborted /\ o.began = server
  BY <1>1, NewOpIs
<1>3. c = Begin(b, o) BY <1>0, <1>1 DEF Navigate
<1>4. Proper(o) /\ Postable(b, o) BY <1>2 DEF Proper, Postable
<1>5. Form(c) /\ Begun(b, c, o) BY <1>2, <1>3, <1>4, BeginIs
<1>6. Still(b, c) BY <1>2, <1>5, StillBegun
<1>7. h # NoUrl => Requested(c) BY <1>2, <1>5 DEF Requested, Awaited, Begun
<1>8. ASSUME h # NoUrl \/ ~b.traversing \/ (b.pushRecovery = {} /\ b.supersession = {} /\ \A t \in b.timers : ~Ours(b, t))
      PROVE  /\ (Calm(b) => Core(c)) /\ (Rollback(b) => Rollback(c)) /\ (Stepping(b) => Stepping(c))
             /\ (Heavy(b) => Heavy(c))
  <2>1. Inherits(b, o) BY <1>2, <1>8 DEF Inherits
  <2> QED BY <1>2, <1>4, <1>5, <2>1, BeginCore
<1>9. Engaged(b, c, h) BY <1>2, <1>5, <1>6, <1>7, <1>8 DEF Engaged
<1> QED BY <1>0, <1>9

\* a navigation left to the browser
LEMMA NavigateLeaves ==
  ASSUME NEW b, Form(b), NEW url \in Link, url # NoUrl, NEW replace \in BOOLEAN, NEW trav \in Nat,
         NEW rec \in Link, Kind(b) # "post", NEW h \in Link, h = IF rec # NoUrl THEN rec ELSE Rec(b),
         NEW safe \in BOOLEAN, b.life = "closed" \/ ~safe,
         NEW c, c = Navigate(b, url, replace, trav, rec, safe)
  PROVE  /\ Form(c) /\ Still(b, c)
         /\ (Core(b) => Core(c)) /\ (Rollback(b) => Rollback(c)) /\ (Stepping(b) => Stepping(c))
         /\ h # NoUrl => (Heavy(b) => Heavy(c)) /\ Leaving(c)
<1>1. PICK a : a = Abort(b) OBVIOUS
<1>2. /\ Form(a) /\ Others(b, a) /\ a.active = b.active /\ a.traversing = b.traversing
      /\ \A o \in a.ops : \E q \in b.ops : /\ Kin(o, q) /\ o.kind = q.kind
                                           /\ IF q.seq = b.active THEN o.aborted ELSE o = q
  BY <1>1, AbortIs
<1>3. (Core(b) => Core(a)) /\ (Rollback(b) => Rollback(a)) /\ (Stepping(b) => Stepping(a)) BY <1>1, AbortCore
<1>4. Still(b, a)
  <2>1. Descend(a.ops, b.ops) BY <1>2 DEF Descend
  <2> QED BY <1>2, <2>1, StillOthers
<1>5. Heavy(b) => Heavy(a) BY <1>2 DEF Heavy, Ours, Others
<1>6. PICK yes \in BOOLEAN : yes = TRUE OBVIOUS
<1>7. PICK f : f = Fallback(a, url, yes, h) OBVIOUS
<1>8. Away(a, f, h)
  <2>1. yes \in BOOLEAN OBVIOUS
  <2> QED BY <1>2, <1>7, <2>1, FallbackAway
<1>9. Form(f) /\ Undisturbed(a, f) BY <1>8 DEF Away
<1>10. PICK t \in BOOLEAN : t = (f.traversing /\ (trav = 0 \/ trav # b.traversal \/ b.recovering)) OBVIOUS
<1>11. c = [f EXCEPT !.traversing = t]
  BY <1>1, <1>6, <1>7, <1>10 DEF Navigate
<1>12. /\ Form(c) /\ Still(f, c)
       /\ (Core(f) => Core(c)) /\ (Rollback(f) => Rollback(c)) /\ (Stepping(f) => Stepping(c))
       /\ (Heavy(f) => Heavy(c)) /\ (Leaving(f) => Leaving(c))
  <2>1. t \in BOOLEAN OBVIOUS
  <2>2. f.recovering = b.recovering BY <1>2, <1>9 DEF Undisturbed, Others
  <2>3. (t => f.traversing) /\ (f.recovering /\ f.traversing => t) BY <1>10, <2>2
  <2> QED BY <1>9, <1>11, <2>1, <2>3, ReleaseIs
<1>13. Still(b, c)
  <2>1. Still(b, f) BY <1>4, <1>8, StillTrans DEF Away
  <2> QED BY <1>12, <2>1, StillTrans
<1>14. /\ (Core(a) => Core(f)) /\ (Rollback(a) => Rollback(f)) /\ (Stepping(a) => Stepping(f))
       /\ h # NoUrl => (Heavy(a) => Heavy(f)) /\ Leaving(f)
  BY <1>8 DEF Away
<1> QED BY <1>3, <1>5, <1>12, <1>13, <1>14

-----------------------------------------------------------------------------
(* Native activations.                                                     *)

\* all but that the runtime may have lost track is as it was
Losing(b, c) ==
  /\ c.ops = b.ops /\ c.active = b.active /\ c.timers = b.timers
  /\ c.entries = b.entries /\ c.cur = b.cur /\ c.shown = b.shown /\ c.truthUrl = b.truthUrl
  /\ c.displayed = b.displayed /\ c.selected = b.selected /\ c.carrier = b.carrier
  /\ c.traversing = b.traversing /\ c.traversal = b.traversal /\ c.recovering = b.recovering
  /\ c.mutationRecovery = b.mutationRecovery /\ c.pushRecovery = b.pushRecovery
  /\ c.supersession = b.supersession /\ c.life = b.life /\ c.departure = b.departure
  /\ c.observers = b.observers /\ c.prompted = b.prompted
  /\ c.jumps = b.jumps /\ c.leaving = b.leaving /\ (b.lapsed => c.lapsed)

LEMMA LosingKeeps ==
  ASSUME NEW b, Form(b), NEW c \in Page, Losing(b, c)
  PROVE  /\ Form(c) /\ Still(b, c)
         /\ (Core(b) => Core(c)) /\ (Rollback(b) => Rollback(c)) /\ (Stepping(b) => Stepping(c))
         /\ (Heavy(b) => Heavy(c)) /\ (Holder(b) => Holder(c))
<1>1. Typed(c) BY DEF Form, Typed, Losing
<1>2. Unique(c) /\ Owned(c) /\ Natives(c) BY DEF Form, Unique, Owned, Natives, Losing
<1>3. RealOps(c) /\ RealTimers(c) /\ RealHistory(c) /\ RealRecoveries(c) /\ RealPrompts(c)
  BY DEF Form, RealOps, RealTimers, RealHistory, RealRecoveries, RealPrompts, Losing
<1>4. Form(c) BY <1>1, <1>2, <1>3 DEF Form
<1>5. Still(b, c) BY DEF Still, Onward, Off, NoReturn, Lone, Recent, Losing
<1>6. Core(b) => Core(c)
  BY DEF Core, Single, Repeating, Posting, Interrupted, Scrolled, Ours, Prompting, Unasked, Losing
<1>7. (Rollback(b) => Rollback(c)) /\ (Stepping(b) => Stepping(c)) BY DEF Rollback, Stepping, Losing
<1>8. Heavy(b) => Heavy(c) BY DEF Heavy, Ours, Losing
<1>9. Href(c) = Href(b) /\ (Unasked(b) => Unasked(c)) /\ \A x : Guard(b, x) => Guard(c, x)
  BY DEF Href, Current, Unasked, Guard, Losing
<1>10. Requested(b) => Requested(c) BY <1>9 DEF Requested, Awaited, Losing
<1>11. Submitted(b) \/ Leaving(b) \/ Refused(b) \/ Native(b) \/ Delayed(b) \/ Stepped(b) =>
         Submitted(c) \/ Leaving(c) \/ Refused(c) \/ Native(c) \/ Delayed(c) \/ Stepped(c)
  BY <1>9 DEF Submitted, Leaving, Refused, Native, Delayed, Ours, Stepped, Losing
<1>12. Holder(b) => Holder(c) BY <1>10, <1>11 DEF Holder
<1> QED BY <1>4, <1>5, <1>6, <1>7, <1>8, <1>12

LEMMA SupersededIs ==
  ASSUME NEW b, Form(b), NEW c, c = Superseded(b)
  PROVE  /\ Form(c) /\ Still(b, c) /\ (Drops(b) => Off(c))
         /\ Kind(c) = Kind(b) /\ Rec(c) = Rec(b) /\ c.active = b.active /\ c.carrier = b.carrier
         /\ ~c.traversing /\ c.timers = b.timers /\ c.life = b.life /\ c.observers = b.observers
         /\ c.prompted = b.prompted /\ c.departure = b.departure
         /\ c.mutationRecovery = b.mutationRecovery /\ c.pushRecovery = b.pushRecovery
         /\ c.supersession = b.supersession
         /\ (Core(b) => \A o \in c.ops : o.aborted)
         /\ (Kind(b) # "post" => (Core(b) => Core(c)))
         /\ (Rollback(b) => Rollback(c)) /\ (Stepping(b) => Stepping(c)) /\ (Heavy(b) => Heavy(c))
<1>1. PICK a : a = Abort(b) OBVIOUS
<1>2. /\ Form(a) /\ Others(b, a) /\ a.active = b.active /\ a.traversing = b.traversing
      /\ \A o \in a.ops : \E q \in b.ops : /\ Kin(o, q) /\ o.kind = q.kind
                                           /\ IF q.seq = b.active THEN o.aborted ELSE o = q
  BY <1>1, AbortIs
<1>3. /\ (Rollback(b) => Rollback(a)) /\ (Stepping(b) => Stepping(a))
      /\ Kind(a) = Kind(b) /\ Rec(a) = Rec(b) /\ (Core(b) => \A o \in a.ops : o.aborted)
      /\ (Core(b) /\ Kind(b) # "post" => Core(a))
  BY <1>1, AbortCore
<1>4. Still(b, a) /\ (Heavy(b) => Heavy(a))
  <2>1. Descend(a.ops, b.ops) BY <1>2 DEF Descend
  <2>2. Heavy(b) => Heavy(a) BY <1>2 DEF Heavy, Ours, Others
  <2> QED BY <1>2, <2>1, <2>2, StillOthers
<1>5. PICK l \in BOOLEAN : l = (a.lapsed \/ Drops(b)) OBVIOUS
<1>6. PICK d : d = [a EXCEPT !.lapsed = l] OBVIOUS
<1>7. /\ Form(d) /\ Still(a, d) /\ Losing(a, d) /\ d.lapsed = l
      /\ (Core(a) => Core(d)) /\ (Rollback(a) => Rollback(d)) /\ (Stepping(a) => Stepping(d))
      /\ (Heavy(a) => Heavy(d))
  <2>1. a \in Page BY <1>2 DEF Form, Typed
  <2>2. l \in BOOLEAN /\ (a.lapsed => l) BY <1>5
  <2>3. d \in Page BY <1>6, <2>1, <2>2, ZenonT(60) DEF Page
  <2>4. Losing(a, d) /\ d.lapsed = l BY <1>6, <2>1, <2>2 DEF Page, Losing
  <2> QED BY <1>2, <2>3, <2>4, LosingKeeps
<1>8. Still(b, d) BY <1>4, <1>7, StillTrans
<1>9. Drops(b) => Off(d) BY <1>5, <1>7 DEF Off
<1>10. Kind(d) = Kind(a) /\ Rec(d) = Rec(a) /\ d.ops = a.ops BY <1>7 DEF Losing, Kind, Rec, Active
<1>11. CASE ~b.traversing
  <2>1. c = d BY <1>1, <1>5, <1>6, <1>11 DEF Superseded
  <2>2. /\ d.active = b.active /\ d.carrier = b.carrier
        /\ ~d.traversing /\ d.timers = b.timers /\ d.life = b.life /\ d.observers = b.observers
        /\ d.prompted = b.prompted /\ d.departure = b.departure
        /\ d.mutationRecovery = b.mutationRecovery /\ d.pushRecovery = b.pushRecovery
        /\ d.supersession = b.supersession
    BY <1>2, <1>7, <1>11 DEF Others, Losing
  <2> QED BY <1>3, <1>4, <1>7, <1>8, <1>9, <1>10, <2>1, <2>2
<1>12. CASE b.traversing
  <2>1. PICK e : e = CloseTraversal(d) OBVIOUS
  <2>2. /\ Paused(d, e) /\ Form(e)
        /\ (Core(d) => Core(e)) /\ (Rollback(d) => Rollback(e)) /\ (Stepping(d) => Stepping(e))
        /\ (Heavy(d) => Heavy(e))
    BY <1>7, <2>1, CloseTraversalIs
  <2>3. PICK url \in Link : url = b.truthUrl /\ url # NoUrl BY DEF Form, Typed, Page, RealHistory
  <2>4. c = RepairDisplayedTruth(e, url) BY <1>1, <1>5, <1>6, <1>12, <2>1, <2>3 DEF Superseded
  <2>5. /\ Form(c) /\ Alike(e, c) /\ c.shown = e.shown /\ c.leaving = e.leaving
        /\ (Core(e) => Core(c)) /\ (Rollback(e) => Rollback(c)) /\ (Stepping(e) => Stepping(c))
        /\ (Heavy(e) => Heavy(c))
    BY <2>2, <2>3, <2>4, RepairIs
  <2>6. Still(d, e) /\ Still(e, c) BY <2>2, <2>5, StillPaused, StillAlike
  <2>7. Still(b, c)
    <3>1. Still(b, e) BY <1>8, <2>6, StillTrans
    <3> QED BY <2>6, <3>1, StillTrans
  <2>8. Off(d) => Off(c) BY <2>6 DEF Still, Onward
  <2>9. c.ops = d.ops /\ c.active = d.active BY <2>2, <2>5 DEF Paused, Alike
  <2>10. Kind(c) = Kind(d) /\ Rec(c) = Rec(d) BY <2>9 DEF Kind, Rec, Active
  <2>11. /\ c.active = b.active /\ c.carrier = b.carrier
         /\ ~c.traversing /\ c.timers = b.timers /\ c.life = b.life /\ c.observers = b.observers
         /\ c.prompted = b.prompted /\ c.departure = b.departure
         /\ c.mutationRecovery = b.mutationRecovery /\ c.pushRecovery = b.pushRecovery
         /\ c.supersession = b.supersession
    BY <1>2, <1>7, <2>2, <2>5 DEF Others, Losing, Paused, Alike
  <2> QED BY <1>3, <1>4, <1>7, <1>9, <1>10, <2>2, <2>5, <2>7, <2>8, <2>9, <2>10, <2>11
<1> QED BY <1>11, <1>12

-----------------------------------------------------------------------------
(* Answers.                                                                *)

\* one more observer of the next prompt
LEMMA WatchedIs ==
  ASSUME NEW b, Form(b), NEW x \in ObserverRecord, x.truth # NoUrl, x.rec # NoUrl, x.kind # "close",
         NEW c, c = Observe(b, x)
  PROVE  /\ Form(c) /\ Still(b, c) /\ Undisturbed(b, c)
         /\ (Core(b) => Core(c)) /\ (Rollback(b) => Rollback(c)) /\ (Stepping(b) => Stepping(c))
         /\ (Heavy(b) => Heavy(c))
<1>1. /\ Typed(c) /\ Undisturbed(b, c) /\ c.departure = b.departure
      /\ Elements(c.observers) = Elements(b.observers) \cup {x}
  BY ObserveIs DEF Form
<1>2. Unique(c) /\ Owned(c) /\ Natives(c) BY <1>1 DEF Form, Unique, Owned, Natives, Undisturbed
<1>3. RealOps(c) /\ RealTimers(c) /\ RealHistory(c) /\ RealRecoveries(c)
  BY <1>1 DEF Form, RealOps, RealTimers, RealHistory, RealRecoveries, Undisturbed
<1>4. RealPrompts(c) BY <1>1 DEF Form, RealPrompts, Undisturbed
<1>5. Core(b) => Core(c)
  BY <1>1 DEF Core, Single, Repeating, Posting, Interrupted, Scrolled, Ours, Prompting, Unasked, Undisturbed
<1>6. Rollback(b) => Rollback(c) BY <1>1 DEF Rollback, Undisturbed
<1>7. Stepping(b) => Stepping(c) BY <1>1 DEF Stepping, Undisturbed
<1>8. Heavy(b) => Heavy(c) BY <1>1 DEF Heavy, Ours, Undisturbed
<1>9. Recent(c.ops, b.ops) BY <1>1 DEF Recent, Undisturbed
<1>10. Still(b, c) BY <1>1, <1>9 DEF Still, Onward, Off, NoReturn, Lone, Undisturbed
<1> QED BY <1>1, <1>2, <1>3, <1>4, <1>5, <1>6, <1>7, <1>8, <1>10 DEF Form

LEMMA CommitIs ==
  ASSUME NEW b, Form(b), NEW url \in Link, url # NoUrl, NEW replace \in BOOLEAN, NEW version \in Nat
  PROVE  LET c == Commit(b, url, replace, version)
         IN  /\ Form(c) /\ Onward(b, c) /\ Alike(b, c) /\ c.shown.version = version
             /\ (Core(b) => Core(c)) /\ (Rollback(b) => Rollback(c))
             /\ b.supersession = {} => Stepping(c)
<1>1. PICK s : s = Selected(b, url, replace) OBVIOUS
<1>2. /\ Form(s) /\ Alike(b, s) /\ s.shown = b.shown /\ s.leaving = b.leaving
      /\ (Core(b) => Core(s)) /\ (Rollback(b) => Rollback(s))
  BY <1>1, SelectedIs
<1>3. Typed(s) /\ s \in Page /\ Current(s) \in Entry BY <1>2, CurrentIs DEF Form, Typed
<1>4. PICK id \in Nat : id = Current(s).id BY <1>3 DEF Entry
<1>5. PICK w \in [url : Link, version : Nat] : w = [url |-> url, version |-> version] OBVIOUS
<1>6. PICK c : c = Commit(b, url, replace, version) OBVIOUS
<1>7. c = [s EXCEPT !.shown = w, !.displayed = id, !.selected = id, !.truthUrl = url]
  BY <1>1, <1>4, <1>5, <1>6 DEF Commit
<1>8. c \in Page /\ Alike(s, c) /\ c.shown = w /\ c.leaving = s.leaving /\ c.entries = s.entries /\ c.cur = s.cur
      /\ c.truthUrl = url
  <2>1. c \in Page BY <1>3, <1>7 DEF Page
  <2>2. Alike(s, c) /\ c.shown = w /\ c.leaving = s.leaving /\ c.entries = s.entries /\ c.cur = s.cur
        /\ c.truthUrl = url
    BY <1>3, <1>7 DEF Page, Alike
  <2> QED BY <2>1, <2>2
<1>9. RealHistory(c) BY <1>2, <1>8 DEF Form, RealHistory
<1>10. c.cur \in DOMAIN c.entries /\ c.cur >= s.cur BY <1>3, <1>8, SMTT(30) DEF Typed, Page
<1>11. Form(c) /\ (Core(s) => Core(c)) /\ (Rollback(s) => Rollback(c))
  BY <1>2, <1>8, <1>9, <1>10, AlikeIs
<1>12. Alike(b, c) BY <1>2, <1>8 DEF Alike
<1>13. b.supersession = {} => Stepping(c) BY <1>12 DEF Stepping, Alike
<1>14. Onward(b, c)
  <2>1. c.leaving = b.leaving BY <1>2, <1>8
  <2> QED BY <1>12, <2>1 DEF Onward, Off, NoReturn, Lone, Recent, Alike
<1>15. c.shown.version = version BY <1>5, <1>8
<1> QED BY <1>2, <1>6, <1>11, <1>12, <1>13, <1>14, <1>15

\* b, with the rollback r asked for
Rolls(b, c, r) ==
  /\ c.ops = b.ops /\ c.active = b.active /\ c.timers = b.timers
  /\ c.entries = b.entries /\ c.cur = b.cur /\ c.shown = b.shown /\ c.truthUrl = b.truthUrl
  /\ c.displayed = b.displayed /\ c.selected = b.selected /\ c.carrier = b.carrier
  /\ c.traversing /\ c.traversal = r.trav /\ ~c.recovering
  /\ c.mutationRecovery = b.mutationRecovery /\ c.pushRecovery = {r}
  /\ c.supersession = b.supersession /\ c.life = b.life /\ c.departure = b.departure
  /\ c.observers = b.observers /\ c.prompted = b.prompted
  /\ c.jumps = Append(b.jumps, -1) /\ c.leaving = b.leaving /\ c.lapsed = b.lapsed

RollsTo(b, c, url, truth, rec, trav, op) ==
  \E r \in PushRecovery : Rolls(b, c, r) /\ r.url = url /\ r.truth = truth /\ r.rec = rec
                          /\ r.trav = trav /\ r.op = op

LEMMA RollsIs ==
  ASSUME NEW b, Typed(b), NEW url \in Link, NEW truth \in Link, NEW rec \in Link, NEW trav \in Nat \ {0},
         NEW op \in Nat, NEW entry \in Nat, NEW c, c = Pushed(b, url, truth, rec, trav, op, entry)
  PROVE  Typed(c) /\ RollsTo(b, c, url, truth, rec, trav, op)
<1>1. b \in Page /\ b.jumps \in Seq({1, -1}) BY DEF Typed, Page
<1>2. PICK r \in PushRecovery : r = [url |-> url, truth |-> truth, rec |-> rec, trav |-> trav,
                                     op |-> op, entry |-> entry]
  BY DEF PushRecovery
<1>3. PICK j : j = Append(b.jumps, -1) OBVIOUS
<1>4. j \in Seq({1, -1}) BY <1>1, <1>3
<1>5. PICK yes \in BOOLEAN, no \in BOOLEAN : yes = TRUE /\ no = FALSE OBVIOUS
<1>6. c = Rewritten(b, trav, yes, no, r, j) BY <1>1, <1>2, <1>3, <1>5 DEF Page, Pushed, Rewritten
<1>7. c = [b EXCEPT !.traversal = trav, !.traversing = yes, !.recovering = no, !.pushRecovery = {r}, !.jumps = j]
  BY <1>6 DEF Rewritten
<1>8. /\ c.truthUrl = b.truthUrl /\ c.displayed = b.displayed /\ c.selected = b.selected /\ c.leaving = b.leaving
      /\ c.shown = b.shown
  BY <1>1, <1>7 DEF Page
<1>9. RewrittenTo(b, c, trav, yes, no, r, j)
  <2>1. yes \in BOOLEAN /\ no \in BOOLEAN /\ j \in Seq({1, -1}) /\ trav \in Nat BY <1>4
  <2> QED BY <1>1, <1>6, <2>1, RewrittenIs
<1>10. Typed(c)
  <2>1. IsFiniteSet({r}) BY FS_Singleton
  <2> QED BY <1>9, <2>1 DEF Typed, RewrittenTo
<1>11. Rolls(b, c, r) BY <1>2, <1>3, <1>5, <1>8, <1>9 DEF Rolls, RewrittenTo
<1> QED BY <1>2, <1>10, <1>11 DEF RollsTo

LEMMA RollsKeeps ==
  ASSUME NEW b, Form(b), NEW r, r.url # NoUrl, r.truth # NoUrl, \A t \in b.timers : t.trav # r.trav,
         NEW c, Typed(c), Rolls(b, c, r)
  PROVE  /\ Form(c) /\ Still(b, c)
         /\ Core(b) /\ b.mutationRecovery = {} /\ (\A o \in b.ops : o.seq = b.active => o.kind # "post") => Core(c)
         /\ Heavy(b) /\ r.rec # NoUrl => Heavy(c)
<1>1. Unique(c) /\ Owned(c) /\ Natives(c) BY DEF Form, Unique, Owned, Natives, Rolls
<1>2. RealOps(c) /\ RealTimers(c) /\ RealHistory(c) /\ RealRecoveries(c) /\ RealPrompts(c)
  BY DEF Form, RealOps, RealTimers, RealHistory, RealRecoveries, RealPrompts, Rolls
<1>3. Still(b, c) BY DEF Still, Onward, Off, NoReturn, Lone, Recent, Rolls
<1>4. Core(b) /\ b.mutationRecovery = {} /\ (\A o \in b.ops : o.seq = b.active => o.kind # "post") => Core(c)
  BY DEF Core, Single, Repeating, Posting, Interrupted, Scrolled, Ours, Prompting, Unasked, Rolls
<1>5. Heavy(b) /\ r.rec # NoUrl => Heavy(c) BY DEF Heavy, Ours, Rolls
<1> QED BY <1>1, <1>2, <1>3, <1>4, <1>5 DEF Form

\* c rolls b back to the displayed document
Rolled(b, c) ==
  /\ c.shown = b.shown /\ c.truthUrl = b.truthUrl /\ c.departure = b.departure
  /\ c.observers = b.observers /\ c.prompted = b.prompted
  /\ \A t \in c.timers : \E u \in b.timers : TimerKin(t, u)
  /\ \A q \in c.ops : q.trav = 0 \/ \E p \in b.ops : q.seq = p.seq /\ q.trav = p.trav
  /\ \E r : c.pushRecovery = {r} /\ r.truth = b.truthUrl

\* the page whose answer could not be displayed, with its rollback asked for
LEMMA PushEnds ==
  ASSUME server \in Nat, NEW b, Form(b), NEW o \in b.ops, o.seq = b.active, o.seq # b.carrier, o.kind = "nav",
         NEW url \in Link, url # NoUrl, NEW rec \in Link,
         NEW c, c = EndOp(RecoverSelectedPush(b, url, rec), o)
  PROVE  /\ Form(c) /\ Still(b, c) /\ Rolled(b, c)
         /\ Core(b) /\ b.jumps = <<>> /\ b.cur > 1 /\ b.mutationRecovery = {} /\ b.supersession = {}
            /\ b.pushRecovery = {} /\ (\A t \in b.timers : t.kind # "stage") => Steady(c)
         /\ rec # NoUrl => Requested(c) /\ (Heavy(b) => Heavy(c))
<1>1. PICK x : x = RecoverSelectedPush(b, url, rec) OBVIOUS
<1>2. c = EndOp(x, o) BY <1>1
<1>3. Typed(b) /\ Unique(b) /\ b \in Page /\ o \in Operation /\ b.displayed \in Nat /\ b.truthUrl \in Link
      /\ b.truthUrl # NoUrl /\ \A q \in b.ops : q.seq # 0
  BY DEF Form, Typed, Page, RealHistory, Operation
<1>4. o.seq # 0 BY <1>3
<1>5. PICK u \in Link, d \in Nat : u = b.truthUrl /\ d = b.displayed BY <1>3
<1>6. Append(<<>>, -1) = <<-1>> OBVIOUS
<1>7. CASE rec = NoUrl
  <2>0. PICK z \in Nat : z = 0 OBVIOUS
  <2>1. PICK t \in Nat \ {0} : t = FreshTraversal(b) /\ \A q \in b.timers : q.trav # t BY <1>3, FreshTraversalIs
  <2>2. x = Pushed(b, url, u, rec, t, z, d)
    BY <1>1, <1>5, <1>7, <2>0, <2>1 DEF RecoverSelectedPush, Pushed
  <2>3. z \in Nat /\ u \in Link /\ d \in Nat /\ t \in Nat \ {0} OBVIOUS
  <2>4. Typed(x) /\ RollsTo(b, x, url, u, rec, t, z) BY <1>3, <2>2, <2>3, RollsIs
  <2>5. PICK r \in PushRecovery : Rolls(b, x, r) /\ r.url = url /\ r.truth = u /\ r.rec = rec
                                  /\ r.trav = t /\ r.op = z
    BY <2>4 DEF RollsTo
  <2>6. /\ Form(x) /\ Still(b, x)
        /\ Core(b) /\ b.mutationRecovery = {} /\ (\A q \in b.ops : q.seq = b.active => q.kind # "post") => Core(x)
    <3>1. r.url # NoUrl /\ r.truth # NoUrl /\ \A q \in b.timers : q.trav # r.trav BY <1>3, <1>5, <2>1, <2>5
    <3> QED BY <2>4, <2>5, <3>1, RollsKeeps
  <2>7. x.carrier = b.carrier /\ x.active = b.active BY <2>5 DEF Rolls
  <2>8. /\ Form(c) /\ Others(x, c) /\ Still(x, c) /\ Descend(c.ops, x.ops)
        /\ c.active = (IF x.active = o.seq /\ x.carrier # o.seq THEN 0 ELSE x.active)
        /\ (Core(x) => Core(c))
    BY <1>2, <1>3, <2>6, <2>7, EndOpForm
  <2>9. c.active = 0 BY <2>7, <2>8
  <2>10. Still(b, c) BY <2>6, <2>8, StillTrans
  <2>11. ASSUME Core(b), b.jumps = <<>>, b.cur > 1, b.mutationRecovery = {}, b.supersession = {},
                \A q \in b.timers : q.kind # "stage"
         PROVE  Steady(c)
    <3>1. \A q \in b.ops : q.seq = b.active => q.kind # "post" BY <1>3 DEF Unique
    <3>2. Core(c) BY <2>6, <2>8, <2>11, <3>1
    <3>3. Stepping(c) BY <2>5, <2>8, <2>11 DEF Stepping, Rolls, Others
    <3>4. Rollback(c)
      <4>1. \A q \in c.ops : q.seq # 0 BY <2>8 DEF Form, Typed, Page, Operation
      <4>2. c.pushRecovery = {r} /\ c.jumps = <<-1>> /\ c.cur > 1 /\ ~c.recovering /\ c.timers = b.timers
        BY <1>6, <2>5, <2>8, <2>11 DEF Rolls, Others
      <4> QED BY <1>7, <2>0, <2>5, <2>9, <2>11, <4>1, <4>2 DEF Rollback
    <3> QED BY <3>2, <3>3, <3>4 DEF Steady
  <2>12. Rolled(b, c)
    <3>1. \A q \in c.ops : \E p \in b.ops : q.seq = p.seq /\ q.trav = p.trav BY <2>5, <2>8 DEF Descend, Kin, Rolls
    <3>2. \A w \in c.timers : \E v \in b.timers : TimerKin(w, v) BY <2>5, <2>8 DEF TimerKin, Rolls, Others
    <3>3. c.pushRecovery = {r} /\ r.truth = b.truthUrl BY <1>5, <2>5, <2>8 DEF Rolls, Others
    <3> QED BY <2>5, <2>8, <3>1, <3>2, <3>3 DEF Rolled, Rolls, Others
  <2> QED BY <1>7, <2>8, <2>10, <2>11, <2>12
<1>8. CASE rec # NoUrl
  <2>0. PICK no \in BOOLEAN : no = FALSE OBVIOUS
  <2>1. PICK p : p = Op(b, "idle", url, no, 0, rec) OBVIOUS
  <2>2. /\ p \in Operation /\ p.seq = FreshSeq(b) /\ p.kind = "idle" /\ p.url = url /\ p.rec = rec
        /\ p.truth # NoUrl /\ ~p.aborted /\ p.began = server
    <3>1. no \in BOOLEAN OBVIOUS
    <3> QED BY <2>1, <3>1, NewOpIs
  <2>3. PICK a : a = Begin(b, p) OBVIOUS
  <2>4. Proper(p) /\ Inherits(b, p) /\ Postable(b, p) BY <1>8, <2>2 DEF Proper, Inherits, Postable
  <2>5. Form(a) /\ Begun(b, a, p) BY <2>2, <2>3, <2>4, BeginIs
  <2>6. (Calm(b) => Core(a)) /\ (Heavy(b) => Heavy(a)) BY <2>2, <2>4, <2>5, BeginCore
  <2>7. Still(b, a) BY <2>2, <2>5, StillBegun
  <2>8. Typed(a) BY <2>5 DEF Form
  <2>9. PICK t \in Nat \ {0} : t = FreshTraversal(a) /\ \A q \in a.timers : q.trav # t BY <2>8, FreshTraversalIs
  <2>10. PICK i \in Nat \ {0} : i = p.seq BY <2>2 DEF Operation
  <2>11. x = Pushed(a, url, u, rec, t, i, d)
    BY <1>1, <1>5, <1>8, <2>0, <2>1, <2>3, <2>9, <2>10 DEF RecoverSelectedPush, Pushed
  <2>12. i \in Nat /\ u \in Link /\ d \in Nat /\ t \in Nat \ {0} OBVIOUS
  <2>13. Typed(x) /\ RollsTo(a, x, url, u, rec, t, i) BY <2>8, <2>11, <2>12, RollsIs
  <2>14. PICK r \in PushRecovery : Rolls(a, x, r) /\ r.url = url /\ r.truth = u /\ r.rec = rec
                                   /\ r.trav = t /\ r.op = i
    BY <2>13 DEF RollsTo
  <2>15. \A q \in a.ops : q.seq = p.seq => q = p BY <2>5 DEF Form, Unique, Begun
  <2>16. a.active = p.seq /\ p \in a.ops BY <2>5 DEF Begun
  <2>17. /\ Form(x) /\ Still(a, x)
         /\ Core(a) /\ a.mutationRecovery = {} => Core(x)
         /\ (Heavy(a) => Heavy(x))
    <3>1. r.url # NoUrl /\ r.truth # NoUrl /\ \A q \in a.timers : q.trav # r.trav BY <1>3, <1>5, <2>9, <2>14
    <3>2. \A q \in a.ops : q.seq = a.active => q.kind # "post" BY <2>2, <2>15, <2>16
    <3> QED BY <1>8, <2>5, <2>13, <2>14, <3>1, <3>2, RollsKeeps
  <2>18. x.carrier = b.carrier /\ x.active = p.seq /\ p \in x.ops /\ x.pushRecovery = {r} /\ x.traversal = r.trav
    BY <2>5, <2>14, <2>16 DEF Rolls, Begun, Carries
  <2>19. p.seq # o.seq BY <1>3, <2>2, FreshSeqIs
  <2>20. /\ Form(c) /\ Others(x, c) /\ Still(x, c) /\ Descend(c.ops, x.ops)
         /\ c.active = (IF x.active = o.seq /\ x.carrier # o.seq THEN 0 ELSE x.active)
         /\ (\A q \in x.ops : q.seq # o.seq => q \in c.ops)
         /\ (Core(x) => Core(c)) /\ (Rollback(x) => Rollback(c)) /\ (Stepping(x) => Stepping(c))
         /\ (Heavy(x) => Heavy(c))
    BY <1>2, <1>3, <2>17, <2>18, EndOpForm
  <2>21. Still(b, c)
    <3>1. Still(b, x) BY <2>7, <2>17, StillTrans
    <3> QED BY <2>20, <3>1, StillTrans
  <2>22. Requested(c)
    <3>1. p \in c.ops /\ c.active = p.seq /\ c.pushRecovery = {r} /\ c.traversal = r.trav
      BY <2>18, <2>19, <2>20 DEF Others
    <3>2. r.op = p.seq BY <2>10, <2>14
    <3> QED BY <1>8, <2>2, <3>1, <3>2 DEF Requested, Awaited
  <2>23. ASSUME Core(b), b.jumps = <<>>, b.cur > 1, b.mutationRecovery = {}, b.supersession = {},
                \A q \in b.timers : q.kind # "stage"
         PROVE  Steady(c)
    <3>1. Calm(b) BY <2>23 DEF Core, Calm
    <3>2. a.mutationRecovery = {} /\ a.supersession = {} /\ a.jumps = <<>> /\ a.cur > 1
      BY <2>5, <2>23 DEF Begun, Carries
    <3>3. \A q \in a.timers : q.kind # "stage" BY <2>5, <2>23 DEF Begun, TimerKin
    <3>4. Core(x) BY <2>6, <2>17, <3>1, <3>2
    <3>5. Stepping(x) BY <2>14, <3>2 DEF Stepping, Rolls
    <3>6. Rollback(x)
      <4>1. x.jumps = <<-1>> /\ x.cur > 1 /\ ~x.recovering /\ x.timers = a.timers /\ x.ops = a.ops
        BY <1>6, <2>14, <3>2 DEF Rolls
      <4>2. \A q \in x.ops : q.seq = p.seq => q.rec # NoUrl BY <1>8, <2>2, <2>15, <4>1
      <4> QED BY <1>8, <2>10, <2>14, <2>18, <3>3, <4>1, <4>2 DEF Rollback
    <3> QED BY <2>20, <3>4, <3>5, <3>6 DEF Steady
  <2>24. Heavy(b) => Heavy(c) BY <2>6, <2>17, <2>20
  <2>25. Rolled(b, c)
    <3>1. p.trav = 0 BY <2>1 DEF Op
    <3>2. \A q \in a.ops : q.trav = 0 \/ \E v \in b.ops : q.seq = v.seq /\ q.trav = v.trav
      BY <2>5, <3>1 DEF Begun, Kin
    <3>3. \A q \in c.ops : \E v \in a.ops : q.seq = v.seq /\ q.trav = v.trav BY <2>14, <2>20 DEF Descend, Kin, Rolls
    <3>4. \A q \in c.ops : q.trav = 0 \/ \E v \in b.ops : q.seq = v.seq /\ q.trav = v.trav BY <3>2, <3>3
    <3>5. c.timers = a.timers BY <2>14, <2>20 DEF Rolls, Others
    <3>6. \A t1 \in c.timers : \E v \in b.timers : TimerKin(t1, v) BY <2>5, <3>5 DEF Begun
    <3>7. c.pushRecovery = {r} /\ r.truth = b.truthUrl BY <1>5, <2>14, <2>20 DEF Rolls, Others
    <3> QED BY <2>5, <2>14, <2>20, <3>4, <3>6, <3>7 DEF Rolled, Begun, Carries, Rolls, Others
  <2> QED BY <2>20, <2>21, <2>22, <2>23, <2>24, <2>25
<1> QED BY <1>7, <1>8

-----------------------------------------------------------------------------
(* The arrival at an entry.                                                *)

\* the same but that fewer recoveries are pending
Lightened(b, c) ==
  /\ c.ops = b.ops /\ c.active = b.active /\ c.timers = b.timers
  /\ c.entries = b.entries /\ c.cur = b.cur /\ c.shown = b.shown /\ c.truthUrl = b.truthUrl
  /\ c.displayed = b.displayed /\ c.selected = b.selected /\ c.carrier = b.carrier
  /\ c.traversing = b.traversing /\ c.traversal = b.traversal /\ c.recovering = b.recovering
  /\ c.mutationRecovery \subseteq b.mutationRecovery /\ c.pushRecovery \subseteq b.pushRecovery
  /\ c.supersession \subseteq b.supersession /\ c.life = b.life /\ c.departure = b.departure
  /\ c.observers = b.observers /\ c.prompted = b.prompted
  /\ c.jumps = b.jumps /\ c.leaving = b.leaving /\ c.lapsed = b.lapsed

LEMMA LightenedKeeps ==
  ASSUME NEW b, Form(b), NEW c \in Page, Lightened(b, c)
  PROVE  /\ Form(c) /\ Still(b, c)
         /\ (Calm(b) => Calm(c)) /\ (Heavy(b) => Heavy(c))
         /\ Core(b) /\ c.mutationRecovery = b.mutationRecovery => Core(c)
         /\ Kind(c) = Kind(b) /\ Rec(c) = Rec(b)
<1>1. Typed(c)
  <2>1. IsFiniteSet(c.mutationRecovery) /\ IsFiniteSet(c.pushRecovery) /\ IsFiniteSet(c.supersession)
    BY FS_Subset DEF Form, Typed, Lightened
  <2> QED BY <2>1 DEF Form, Typed, Lightened
<1>2. Unique(c) /\ Owned(c) /\ Natives(c) BY DEF Form, Unique, Owned, Natives, Lightened
<1>3. RealOps(c) /\ RealTimers(c) /\ RealHistory(c) /\ RealPrompts(c)
  BY DEF Form, RealOps, RealTimers, RealHistory, RealPrompts, Lightened
<1>4. RealRecoveries(c) BY DEF Form, RealRecoveries, Lightened
<1>5. Form(c) BY <1>1, <1>2, <1>3, <1>4 DEF Form
<1>6. Still(b, c) BY DEF Still, Onward, Off, NoReturn, Lone, Recent, Lightened
<1>7. Calm(b) => Calm(c)
  BY DEF Calm, Single, Repeating, Interrupted, Scrolled, Ours, Prompting, Unasked, Lightened
<1>8. Core(b) /\ c.mutationRecovery = b.mutationRecovery => Core(c)
  BY DEF Core, Single, Repeating, Posting, Interrupted, Scrolled, Ours, Prompting, Unasked, Lightened
<1>9. Heavy(b) => Heavy(c) BY DEF Heavy, Ours, Lightened
<1>10. Kind(c) = Kind(b) /\ Rec(c) = Rec(b) BY DEF Kind, Rec, Active, Lightened
<1> QED BY <1>5, <1>6, <1>7, <1>8, <1>9, <1>10

\* what is known of the rollback or the step forward that an arrival may be
Arriving(b) ==
  /\ Exclusive(b) /\ Placeholder(b)
  /\ b.pushRecovery = {} \/ b.supersession = {}
  /\ b.pushRecovery # {} =>
       /\ (b.jumps = <<>> /\ b.cur < Len(b.entries)) \/ (b.jumps = <<-1>> /\ Len(b.entries) > 1)
       /\ ~b.recovering
       /\ \A t \in b.timers : t.kind # "stage"
       /\ \A r, q \in b.pushRecovery : r = q
       /\ \A r \in b.pushRecovery : /\ r.rec # NoUrl <=> r.op # 0
                                    /\ \A o \in b.ops : o.seq = r.op => o.rec # NoUrl
  /\ \A r \in b.supersession, o \in b.ops : o.seq = r.op => o.aborted
\* what holds the recovery, whichever entry is selected and whatever the prompts
Promised(b) ==
  \/ Kind(b) = "post" \/ Delayed(b) \/ Stepped(b)
  \/ \E o \in b.ops :
       /\ o.seq = b.active /\ o.rec # NoUrl
       /\ o.kind = "idle" /\ ~o.aborted /\ (\A t \in b.timers : t.kind # "stage") =>
            \E r \in b.pushRecovery : r.op = o.seq /\ r.trav = b.traversal

\* c is what the arrival makes of b
Reaches(b, c) ==
  /\ Form(c) /\ Still(b, c)
  /\ Core(b) /\ Arriving(b) /\ ~Lapses(b) /\ ~Drops(b) =>
       Steady(c) /\ (Heavy(b) /\ Promised(b) => Heavy(c) /\ Holder(c))

LEMMA SupersessionReaches ==
  ASSUME NEW b, Form(b), NEW r \in b.supersession
  PROVE  Reaches(b, SupersessionArrived(b, r))
<1>0. PICK c : c = SupersessionArrived(b, r) OBVIOUS
<1>1. PICK l : l = [b EXCEPT !.supersession = {}] OBVIOUS
<1>2. b \in Page /\ Typed(b) BY DEF Form, Typed
<1>3. l \in Page /\ Lightened(b, l) /\ l.supersession = {} /\ l.mutationRecovery = b.mutationRecovery
      /\ l.pushRecovery = b.pushRecovery
  <2>1. l \in Page BY <1>1, <1>2 DEF Page
  <2> QED BY <1>1, <1>2, <2>1 DEF Page, Lightened
<1>4. Form(l) /\ Still(b, l) /\ (Heavy(b) => Heavy(l)) /\ (Core(b) => Core(l)) BY <1>3, LightenedKeeps
<1>5. PICK a : a = CloseTraversal(l) OBVIOUS
<1>6. Paused(l, a) /\ Form(a) /\ (Core(l) => Core(a)) /\ (Heavy(l) => Heavy(a))
  BY <1>4, <1>5, CloseTraversalIs
<1>7. a.ops = b.ops /\ a.active = b.active /\ a.supersession = {} /\ a.pushRecovery = b.pushRecovery
  BY <1>3, <1>6 DEF Paused, Lightened
<1>8. Still(b, a)
  <2>1. Still(l, a) BY <1>6, StillPaused
  <2> QED BY <1>4, <2>1, StillTrans
<1>9. PICK m : m = IF a.active = r.op THEN Relinquish(a) ELSE a OBVIOUS
<1>10. /\ Form(m) /\ Still(b, m) /\ (Heavy(b) => Heavy(m))
       /\ Core(b) /\ Arriving(b) => Core(m)
       /\ m.supersession = {} /\ m.pushRecovery = b.pushRecovery
  <2>1. CASE a.active = r.op
    <3>1. m = Relinquish(a) BY <1>9, <2>1
    <3>2. /\ Form(m) /\ Others(a, m) /\ m.ops \subseteq a.ops
          /\ Core(a) /\ (\A o \in a.ops : o.seq = a.active => o.aborted \/ o.kind = "idle") => Core(m)
      BY <1>6, <3>1, RelinquishIs
    <3>3. Still(a, m)
      <4>1. Descend(m.ops, a.ops) BY <3>2 DEF Descend, Kin
      <4> QED BY <3>2, <4>1, StillOthers
    <3>4. Heavy(a) => Heavy(m) BY <3>2 DEF Heavy, Ours, Others
    <3>5. Core(b) /\ Arriving(b) => Core(m) BY <1>4, <1>6, <1>7, <2>1, <3>2 DEF Arriving
    <3>6. m.supersession = {} /\ m.pushRecovery = b.pushRecovery BY <1>7, <3>2 DEF Others
    <3>7. Still(b, m) BY <1>8, <3>3, StillTrans
    <3> QED BY <1>4, <1>6, <3>2, <3>4, <3>5, <3>6, <3>7
  <2>2. CASE a.active # r.op BY <1>4, <1>6, <1>7, <1>8, <1>9, <2>2
  <2> QED BY <2>1, <2>2
<1>11. PICK no \in BOOLEAN : no = FALSE OBVIOUS
<1>12. Away(m, c, r.rec)
  <2>1. r.url \in Link /\ r.rec \in Link /\ r.url # NoUrl BY <1>2 DEF Form, RealRecoveries, Page
  <2>2. PICK u \in Link, h \in Link : u = r.url /\ h = r.rec /\ u # NoUrl BY <2>1
  <2>3. no \in BOOLEAN OBVIOUS
  <2>4. c = Fallback(m, u, no, h) BY <1>0, <1>1, <1>5, <1>9, <1>11, <2>2 DEF SupersessionArrived
  <2>5. Away(m, Fallback(m, u, no, h), h) BY <1>10, <2>2, <2>3, FallbackAway
  <2> QED BY <2>2, <2>4, <2>5
<1>13. Form(c) /\ Still(m, c) BY <1>12 DEF Away
<1>14. Still(b, c) BY <1>10, <1>13, StillTrans
<1>15. ASSUME Core(b), Arriving(b) PROVE Steady(c)
  <2>1. Core(c) BY <1>10, <1>12, <1>15 DEF Away
  <2>2. c.supersession = {} /\ c.pushRecovery = {} BY <1>10, <1>12, <1>15 DEF Away, Undisturbed, Arriving
  <2>3. Rollback(c) /\ Stepping(c) BY <2>2 DEF Rollback, Stepping
  <2> QED BY <2>1, <2>3 DEF Steady
<1>16. ASSUME Heavy(b) PROVE Heavy(c) /\ Holder(c)
  <2>1. r.rec # NoUrl BY <1>16 DEF Heavy
  <2> QED BY <1>10, <1>12, <1>16, <2>1 DEF Away, Holder
<1>17. Reaches(b, c) BY <1>13, <1>14, <1>15, <1>16 DEF Reaches
<1> QED BY <1>0, <1>17

\* the interrupted POST is recovered
LEMMA CommittedReaches ==
  ASSUME server \in Nat, NEW b, Form(b), NEW r \in b.mutationRecovery
  PROVE  Reaches(b, RecoverCommitted([b EXCEPT !.mutationRecovery = {}], r.url))
<1>1. PICK l : l = [b EXCEPT !.mutationRecovery = {}] OBVIOUS
<1>2. b \in Page /\ Typed(b) BY DEF Form, Typed
<1>3. l \in Page /\ Lightened(b, l) /\ l.supersession = b.supersession /\ l.pushRecovery = b.pushRecovery
  <2>1. l \in Page BY <1>1, <1>2 DEF Page
  <2> QED BY <1>1, <1>2, <2>1 DEF Page, Lightened
<1>4. Form(l) /\ Still(b, l) /\ (Heavy(b) => Heavy(l)) /\ (Calm(b) => Calm(l)) BY <1>3, LightenedKeeps
<1>5. PICK u \in Link : u = r.url /\ u # NoUrl BY <1>2 DEF Form, RealRecoveries, Page
<1>6. PICK c : c = RecoverCommitted(l, u) OBVIOUS
<1>7. /\ Form(c) /\ Still(l, c) /\ Requested(c) /\ (\E o : Begun(l, c, o))
      /\ (Calm(l) => Core(c)) /\ (Heavy(l) => Heavy(c))
  BY <1>4, <1>5, <1>6, RecoverCommittedIs
<1>8. Still(b, c) BY <1>4, <1>7, StillTrans
<1>9. ASSUME Core(b), Arriving(b) PROVE Steady(c)
  <2>1. Calm(b) BY <1>9 DEF Core, Calm
  <2>2. b.pushRecovery = {} /\ b.supersession = {} BY <1>9 DEF Core, Interrupted, Arriving, Exclusive
  <2>3. c.pushRecovery = {} /\ c.supersession = {} BY <1>3, <1>7, <2>2 DEF Begun, Carries
  <2>4. Rollback(c) /\ Stepping(c) BY <2>3 DEF Rollback, Stepping
  <2> QED BY <1>4, <1>7, <2>1, <2>4 DEF Steady
<1>10. Reaches(b, c) BY <1>4, <1>7, <1>8, <1>9 DEF Reaches, Holder
<1> QED BY <1>1, <1>5, <1>6, <1>10

\* one more timer, and all else as it was
Timed(b, c, t) ==
  /\ c.ops = b.ops /\ c.active = b.active /\ c.timers = b.timers \cup {t}
  /\ c.entries = b.entries /\ c.cur = b.cur /\ c.shown = b.shown /\ c.truthUrl = b.truthUrl
  /\ c.displayed = b.displayed /\ c.selected = b.selected /\ c.carrier = b.carrier
  /\ c.traversing = b.traversing /\ c.traversal = b.traversal /\ c.recovering = b.recovering
  /\ c.mutationRecovery = b.mutationRecovery /\ c.pushRecovery = b.pushRecovery
  /\ c.supersession = b.supersession /\ c.life = b.life /\ c.departure = b.departure
  /\ c.observers = b.observers /\ c.prompted = b.prompted
  /\ c.jumps = b.jumps /\ c.leaving = b.leaving /\ c.lapsed = b.lapsed

LEMMA TimedIs ==
  ASSUME NEW b, Typed(b), NEW t \in TimerRecord, NEW c, c = [b EXCEPT !.timers = @ \cup {t}]
  PROVE  Typed(c) /\ Timed(b, c, t)
<1>1. b \in Page BY DEF Typed
<1>2. PICK T \in SUBSET TimerRecord : T = b.timers \cup {t} BY <1>1 DEF Page
<1>3. c = [b EXCEPT !.timers = T] BY <1>1, <1>2 DEF Page
<1>4. c \in Page /\ c.timers = T BY <1>1, <1>3, ZenonT(60) DEF Page
<1>5. Timed(b, c, t) BY <1>1, <1>2, <1>3 DEF Timed, Page
<1>6. IsFiniteSet(T)
  <2>1. PICK U : U = b.timers OBVIOUS
  <2>2. IsFiniteSet(U) BY <2>1 DEF Typed
  <2> QED BY <1>2, <2>1, <2>2, FS_AddElement
<1> QED BY <1>4, <1>5, <1>6 DEF Typed, Timed

LEMMA TimedKeeps ==
  ASSUME NEW b, Form(b), NEW t \in TimerRecord, t.kind # "native", t.kind = "stage" => t.url # NoUrl /\ t.truth # NoUrl,
         NEW c, Typed(c), Timed(b, c, t)
  PROVE  /\ Form(c) /\ Still(b, c)
         /\ Core(b) /\ ~Ours(b, t) /\ (t.kind = "stage" => \A o \in b.ops : o.seq = b.active => o.kind # "post") => Core(c)
         /\ t.kind # "stage" => (Rollback(b) => Rollback(c)) /\ (Stepping(b) => Stepping(c))
         /\ (Ours(b, t) \/ t.kind = "stage" => t.rec # NoUrl) => (Heavy(b) => Heavy(c))
<1>1. Unique(c) /\ Owned(c) /\ Natives(c) BY DEF Form, Unique, Owned, Natives, Timed
<1>2. RealOps(c) /\ RealTimers(c) /\ RealHistory(c) /\ RealRecoveries(c) /\ RealPrompts(c)
  BY DEF Form, RealOps, RealTimers, RealHistory, RealRecoveries, RealPrompts, Timed
<1>3. Still(b, c) BY DEF Still, Onward, Off, NoReturn, Lone, Recent, Timed
<1>4. ASSUME Core(b), ~Ours(b, t), t.kind = "stage" => \A o \in b.ops : o.seq = b.active => o.kind # "post"
      PROVE  Core(c)
  <2>1. Single(c) /\ Repeating(c) /\ Interrupted(c) /\ Prompting(c)
    BY <1>4 DEF Core, Single, Repeating, Interrupted, Prompting, Unasked, Timed
  <2>2. Posting(c) BY <1>4 DEF Core, Posting, Timed
  <2>3. Scrolled(c) BY <1>4 DEF Core, Scrolled, Ours, Timed
  <2> QED BY <2>1, <2>2, <2>3 DEF Core
<1>5. t.kind # "stage" => (Rollback(b) => Rollback(c)) /\ (Stepping(b) => Stepping(c))
  BY DEF Rollback, Stepping, Timed
<1>6. (Ours(b, t) \/ t.kind = "stage" => t.rec # NoUrl) => (Heavy(b) => Heavy(c))
  BY DEF Heavy, Ours, Timed
<1> QED BY <1>1, <1>2, <1>3, <1>4, <1>5, <1>6 DEF Form

\* a POST is given up, and the way forward begins
LEMMA InterruptReaches ==
  ASSUME NEW b, Form(b), b.supersession = {}, b.mutationRecovery = {}, NEW o \in b.ops, o.seq = b.active,
         o.kind = "post"
  PROVE  Reaches(b, InterruptPost(b, o))
<1>0. Typed(b) /\ Unique(b) /\ o \in Operation /\ o.truth # NoUrl BY DEF Form, Typed, Page, RealOps
<1>00. o.seq \in Nat \ {0} /\ o.truth \in Link BY <1>0 DEF Operation
<1>1. PICK a : a = Abort(b) OBVIOUS
<1>2. /\ Form(a) /\ Others(b, a) /\ a.active = b.active /\ a.traversing = b.traversing
      /\ \A x \in a.ops : \E q \in b.ops : /\ Kin(x, q) /\ x.kind = q.kind
                                           /\ IF q.seq = b.active THEN x.aborted ELSE x = q
  BY <1>1, AbortIs
<1>3. Still(b, a) /\ (Heavy(b) => Heavy(a))
  <2>1. Descend(a.ops, b.ops) BY <1>2 DEF Descend
  <2>2. Heavy(b) => Heavy(a) BY <1>2 DEF Heavy, Ours, Others
  <2> QED BY <1>2, <2>1, <2>2, StillOthers
<1>4. PICK r \in [op : Nat, url : Link] : r = [op |-> o.seq, url |-> o.truth] BY <1>00
<1>5. PICK y : y = [a EXCEPT !.mutationRecovery = {r}] OBVIOUS
<1>6. a \in Page /\ Typed(a) BY <1>2 DEF Form, Typed
<1>7. y \in Page /\ y.mutationRecovery = {r} BY <1>5, <1>6, ZenonT(60) DEF Page
<1>8. /\ y.ops = a.ops /\ y.active = a.active /\ y.timers = a.timers
      /\ y.entries = a.entries /\ y.cur = a.cur /\ y.shown = a.shown /\ y.truthUrl = a.truthUrl
      /\ y.carrier = a.carrier
      /\ y.traversing = a.traversing /\ y.traversal = a.traversal /\ y.recovering = a.recovering
      /\ y.pushRecovery = a.pushRecovery
      /\ y.supersession = a.supersession /\ y.life = a.life /\ y.departure = a.departure
      /\ y.observers = a.observers /\ y.prompted = a.prompted
      /\ y.jumps = a.jumps /\ y.leaving = a.leaving /\ y.lapsed = a.lapsed
  BY <1>5, <1>6 DEF Page
<1>9. Form(y)
  <2>1. Typed(y)
    <3>1. IsFiniteSet({r}) BY FS_Singleton
    <3> QED BY <1>6, <1>7, <1>8, <3>1 DEF Typed
  <2>2. Unique(y) /\ Owned(y) /\ Natives(y) BY <1>2, <1>8 DEF Form, Unique, Owned, Natives
  <2>3. RealOps(y) /\ RealTimers(y) /\ RealHistory(y) /\ RealPrompts(y)
    BY <1>2, <1>8 DEF Form, RealOps, RealTimers, RealHistory, RealPrompts
  <2>4. RealRecoveries(y) BY <1>0, <1>2, <1>4, <1>7, <1>8 DEF Form, RealRecoveries
  <2> QED BY <2>1, <2>2, <2>3, <2>4 DEF Form
<1>10. Still(a, y) BY <1>8 DEF Still, Onward, Off, NoReturn, Lone, Recent
<1>11. Heavy(a) => Heavy(y) BY <1>8 DEF Heavy, Ours
<1>12. PICK t \in TimerRecord : t = Timer("forward", o.seq, 0, NoUrl, NoUrl) BY <1>00 DEF TimerRecord, Timer, Link
<1>13. t.kind = "forward" BY <1>12 DEF Timer
<1>14. PICK c : c = InterruptPost(b, o) OBVIOUS
<1>15. c = [y EXCEPT !.timers = @ \cup {t}]
  BY <1>1, <1>4, <1>5, <1>6, <1>12, <1>14 DEF InterruptPost, Page
<1>16. Typed(c) /\ Timed(y, c, t) BY <1>9, <1>15, TimedIs DEF Form
<1>17. /\ Form(c) /\ Still(y, c) /\ (Heavy(y) => Heavy(c)) /\ (Core(y) => Core(c))
  <2>1. t.kind # "native" /\ t.kind # "stage" /\ ~Ours(y, t) BY <1>13 DEF Ours
  <2> QED BY <1>9, <1>16, <2>1, TimedKeeps
<1>18. Still(b, c)
  <2>1. Still(b, y) BY <1>3, <1>10, StillTrans
  <2> QED BY <1>17, <2>1, StillTrans
<1>19. ASSUME Core(b), Arriving(b), ~Lapses(b) PROVE Steady(c)
  <2>1. Kind(b) = "post" BY <1>0, ActiveIs
  <2>2. b.pushRecovery = {} BY <1>19, <2>1 DEF Lapses
  <2>3. ~b.traversing /\ b.life = "active" /\ ~b.recovering /\ \A u \in b.timers : u.kind = "stage" => u.late
    BY <1>19 DEF Core, Posting, Repeating
  <2>4. \A x \in a.ops : x.aborted BY <1>1, <1>19, AbortCore
  <2>5. Single(y) BY <1>8, <2>4 DEF Single
  <2>6. Repeating(y) BY <1>2, <1>8, <2>3 DEF Repeating, Others
  <2>7. Posting(y) BY <1>2, <1>7, <1>8, <2>3 DEF Posting, Others
  <2>8. Interrupted(y) BY <1>2, <1>8, <2>2, <2>3 DEF Interrupted, Others
  <2>9. Scrolled(y)
    <3>1. \A u \in b.timers : ~Ours(b, u) BY <1>19, <2>3 DEF Core, Scrolled
    <3> QED BY <1>2, <1>8, <3>1 DEF Scrolled, Ours, Others
  <2>10. Prompting(y) BY <1>2, <1>8, <1>19 DEF Core, Prompting, Unasked, Others
  <2>11. Core(y) BY <2>5, <2>6, <2>7, <2>8, <2>9, <2>10 DEF Core
  <2>12. c.pushRecovery = {} /\ c.supersession = {} BY <1>2, <1>8, <1>16, <2>2 DEF Timed, Others
  <2>13. Rollback(c) /\ Stepping(c) BY <2>12 DEF Rollback, Stepping
  <2> QED BY <1>17, <2>11, <2>13 DEF Steady
<1>20. Holder(c) BY <1>7, <1>16 DEF Holder, Stepped, Timed
<1>21. Reaches(b, c) BY <1>3, <1>11, <1>17, <1>18, <1>19, <1>20 DEF Reaches
<1> QED BY <1>14, <1>21

\* a rollback arrived where it was expected
LEMMA StagedReaches ==
  ASSUME NEW b, Form(b), b.supersession = {}, b.mutationRecovery = {}, Kind(b) # "post",
         NEW r \in b.pushRecovery, StillMine(b, r)
  PROVE  Reaches(b, RolledBack(b, r))
<1>0. Typed(b) /\ b \in Page /\ Unique(b) /\ r \in PushRecovery /\ r.url # NoUrl /\ r.truth # NoUrl
  BY DEF Form, Typed, Page, RealRecoveries
<1>00. r.url \in Link /\ r.truth \in Link /\ r.rec \in Link /\ r.op \in Nat BY <1>0 DEF PushRecovery
<1>1. PICK a : a = [b EXCEPT !.pushRecovery = {}] OBVIOUS
<1>2. a \in Page /\ Lightened(b, a) /\ a.supersession = {} /\ a.mutationRecovery = {} /\ a.pushRecovery = {}
  <2>1. a \in Page BY <1>0, <1>1 DEF Page
  <2> QED BY <1>0, <1>1, <2>1 DEF Page, Lightened
<1>3. Form(a) /\ Still(b, a) /\ (Heavy(b) => Heavy(a)) /\ (Core(b) => Core(a)) BY <1>2, LightenedKeeps
<1>4. PICK d : d = CloseTraversal(a) OBVIOUS
<1>5. Paused(a, d) /\ Form(d) /\ (Core(a) => Core(d)) /\ (Heavy(a) => Heavy(d)) BY <1>3, <1>4, CloseTraversalIs
<1>6. PICK t \in TimerRecord : t = [Timer("stage", r.op, 0, r.url, r.rec) EXCEPT !.truth = r.truth]
  BY <1>00 DEF TimerRecord, Timer, Link
<1>7. t.kind = "stage" /\ t.op = r.op /\ t.url = r.url /\ t.rec = r.rec /\ t.truth = r.truth BY <1>6 DEF Timer
<1>8. PICK c : c = RolledBack(b, r) OBVIOUS
<1>9. c = [d EXCEPT !.timers = @ \cup {t}]
  BY <1>1, <1>4, <1>6, <1>8 DEF RolledBack, StillMine, RolledTo
<1>10. Typed(c) /\ Timed(d, c, t) BY <1>5, <1>9, TimedIs DEF Form
<1>11. d.ops = b.ops /\ d.active = b.active /\ d.entries = b.entries /\ d.cur = b.cur
  BY <1>2, <1>5 DEF Paused, Lightened
<1>12. \A o \in d.ops : o.seq = d.active => o.kind # "post" BY <1>0, <1>11, ActiveIs
<1>13. Form(c) /\ Still(d, c) /\ (Core(d) => Core(c)) /\ (r.rec # NoUrl => (Heavy(d) => Heavy(c)))
  <2>1. t.kind # "native" /\ t.url # NoUrl /\ t.truth # NoUrl /\ ~Ours(d, t) BY <1>0, <1>7 DEF Ours
  <2> QED BY <1>5, <1>7, <1>10, <1>12, <2>1, TimedKeeps
<1>14. Still(b, c)
  <2>1. Still(a, d) BY <1>5, StillPaused
  <2>2. Still(b, d) BY <1>3, <2>1, StillTrans
  <2> QED BY <1>13, <2>2, StillTrans
<1>15. ASSUME Core(b) PROVE Steady(c)
  <2>1. c.pushRecovery = {} /\ c.supersession = {} BY <1>2, <1>5, <1>10 DEF Timed, Paused
  <2>2. Rollback(c) /\ Stepping(c) BY <2>1 DEF Rollback, Stepping
  <2> QED BY <1>3, <1>5, <1>13, <1>15, <2>2 DEF Steady
<1>16. ASSUME Arriving(b), Heavy(b) PROVE Heavy(c) /\ Holder(c)
  <2>1. r.rec # NoUrl BY <1>16 DEF Heavy
  <2>2. r.op # 0 BY <1>16, <2>1 DEF Arriving
  <2>3. PICK o \in Active(b) : o.seq = r.op /\ ~o.aborted BY <2>2 DEF StillMine
  <2>4. o \in b.ops /\ o.seq = b.active BY DEF Active
  <2>5. o.rec # NoUrl BY <1>16, <2>3, <2>4 DEF Arriving
  <2>6. o \in c.ops /\ c.active = b.active /\ t \in c.timers /\ Href(c) = Href(b)
    BY <1>10, <1>11, <2>4 DEF Timed, Href, Current
  <2>7. Href(b) = r.truth BY DEF StillMine, RolledTo
  <2>8. Requested(c) BY <1>7, <2>3, <2>4, <2>5, <2>6, <2>7 DEF Requested, Awaited
  <2> QED BY <1>3, <1>5, <1>13, <1>16, <2>1, <2>8 DEF Holder
<1>17. Reaches(b, c) BY <1>13, <1>14, <1>15, <1>16 DEF Reaches
<1> QED BY <1>8, <1>17

LEMMA BackAndForth == Append(<<-1>>, 1) = <<-1, 1>>
<1>1. PICK s : s = Append(<<-1>>, 1) OBVIOUS
<1>2. s \in Seq(Int) /\ Len(s) = 2 /\ s[1] = -1 /\ s[2] = 1 BY <1>1
<1>3. PICK u : u = <<-1, 1>> OBVIOUS
<1>4. u \in Seq(Int) /\ Len(u) = 2 /\ u[1] = -1 /\ u[2] = 1 BY <1>3
<1>5. s = u BY <1>2, <1>4
<1> QED BY <1>1, <1>3, <1>5

\* it arrived, but a newer operation is under way: the pushed entry is stepped forward to again
LEMMA NewerReaches ==
  ASSUME NEW b, Form(b), b.supersession = {}, b.mutationRecovery = {}, Kind(b) # "post",
         NEW r \in b.pushRecovery, ~StillMine(b, r), Newer(b, r) # {}
  PROVE  Reaches(b, RolledBack(b, r))
<1>0. Typed(b) /\ b \in Page /\ Unique(b) /\ \A o \in b.ops : o \in Operation /\ (o.kind # "post" => o.url # NoUrl)
  BY DEF Form, Typed, Page, RealOps
<1>1. PICK a : a = [b EXCEPT !.pushRecovery = {}] OBVIOUS
<1>2. a \in Page /\ Lightened(b, a) /\ a.supersession = {} /\ a.mutationRecovery = {} /\ a.pushRecovery = {}
  <2>1. a \in Page BY <1>0, <1>1 DEF Page
  <2> QED BY <1>0, <1>1, <2>1 DEF Page, Lightened
<1>3. Form(a) /\ Still(b, a) /\ (Heavy(b) => Heavy(a)) /\ (Core(b) => Core(a)) /\ Kind(a) = Kind(b)
  BY <1>2, LightenedKeeps
<1>4. PICK u : u = Abort(a) OBVIOUS
<1>5. /\ Form(u) /\ Others(a, u) /\ u.active = a.active
      /\ \A x \in u.ops : \E q \in a.ops : /\ Kin(x, q) /\ x.kind = q.kind
                                           /\ IF q.seq = a.active THEN x.aborted ELSE x = q
  BY <1>3, <1>4, AbortIs
<1>6. (Core(a) => Core(u)) /\ (Heavy(a) => Heavy(u)) /\ Still(a, u)
  <2>1. Descend(u.ops, a.ops) BY <1>5 DEF Descend
  <2>2. Heavy(a) => Heavy(u) BY <1>5 DEF Heavy, Ours, Others
  <2>3. Kind(a) # "post" BY <1>3
  <2> QED BY <1>3, <1>4, <1>5, <2>1, <2>2, <2>3, AbortCore, StillOthers
<1>7. PICK o \in b.ops : o.seq = b.active /\ o.kind # "post" /\ o.seq # r.op BY DEF Newer, Active
<1>8. Newer(b, r) = {o} BY <1>0, <1>7 DEF Newer, Active, Unique
<1>70. o.seq \in Nat /\ o.url \in Link /\ o.rec \in Link /\ o.url # NoUrl BY <1>0, <1>7 DEF Operation
<1>9. PICK s \in [op : Nat, url : Link, rec : Link] : s = [op |-> o.seq, url |-> o.url, rec |-> o.rec]
  BY <1>70
<1>10. SupersededBy(Newer(b, r)) = {s} BY <1>8, <1>9 DEF SupersededBy
<1>11. PICK yes \in BOOLEAN : yes = TRUE OBVIOUS
<1>12. PICK c : c = RolledBack(b, r) OBVIOUS
<1>13. u \in Page /\ Typed(u) BY <1>5 DEF Form, Typed
<1>14. PICK j \in Seq({1, -1}) : j = Append(u.jumps, 1) BY <1>13, JumpIs DEF Page
<1>15. c = [u EXCEPT !.supersession = {s}, !.traversing = yes, !.jumps = j]
  <2>1. c = [u EXCEPT !.supersession = {s}, !.traversing = yes, !.jumps = Append(@, 1)]
    BY <1>1, <1>4, <1>10, <1>11, <1>12 DEF RolledBack, StillMine, RolledTo, Newer, SupersededBy
  <2> QED BY <1>13, <1>14, <2>1 DEF Page
<1>16. c \in Page /\ c.supersession = {s} /\ c.traversing /\ c.jumps = j
  <2>1. yes \in BOOLEAN OBVIOUS
  <2>2. c \in Page BY <1>13, <1>15, <2>1, ZenonT(60) DEF Page
  <2> QED BY <1>11, <1>13, <1>15, <2>2 DEF Page
<1>17. /\ c.ops = u.ops /\ c.active = u.active /\ c.timers = u.timers
       /\ c.entries = u.entries /\ c.cur = u.cur /\ c.shown = u.shown /\ c.truthUrl = u.truthUrl
       /\ c.carrier = u.carrier /\ c.traversal = u.traversal /\ c.recovering = u.recovering
       /\ c.mutationRecovery = u.mutationRecovery /\ c.pushRecovery = u.pushRecovery
       /\ c.life = u.life /\ c.departure = u.departure
       /\ c.observers = u.observers /\ c.prompted = u.prompted
       /\ c.leaving = u.leaving /\ c.lapsed = u.lapsed
  BY <1>13, <1>15 DEF Page
<1>18. Form(c)
  <2>1. Typed(c)
    <3>1. IsFiniteSet({s}) BY FS_Singleton
    <3> QED BY <1>13, <1>16, <1>17, <3>1 DEF Typed
  <2>2. Unique(c) /\ Owned(c) /\ Natives(c) BY <1>5, <1>17 DEF Form, Unique, Owned, Natives
  <2>3. RealOps(c) /\ RealTimers(c) /\ RealHistory(c) /\ RealPrompts(c)
    BY <1>5, <1>17 DEF Form, RealOps, RealTimers, RealHistory, RealPrompts
  <2>4. s.url # NoUrl BY <1>9, <1>70
  <2>5. RealRecoveries(c) BY <1>5, <1>16, <1>17, <2>4 DEF Form, RealRecoveries
  <2> QED BY <2>1, <2>2, <2>3, <2>5 DEF Form
<1>19. Still(u, c) BY <1>17 DEF Still, Onward, Off, NoReturn, Lone, Recent
<1>20. Still(b, c)
  <2>1. Still(b, u) BY <1>3, <1>6, StillTrans
  <2> QED BY <1>19, <2>1, StillTrans
<1>21. c.timers = b.timers /\ c.active = b.active /\ c.traversal = b.traversal /\ c.recovering = b.recovering
       /\ c.entries = b.entries /\ c.cur = b.cur /\ u.jumps = b.jumps /\ c.pushRecovery = {} /\ c.mutationRecovery = {}
  BY <1>2, <1>5, <1>17 DEF Others, Lightened
<1>22. ASSUME Core(b), Arriving(b) PROVE Steady(c)
  <2>1. ~c.recovering /\ \A t \in c.timers : t.kind # "stage" BY <1>21, <1>22 DEF Arriving
  <2>2. \A t \in c.timers : ~Ours(c, t) BY <1>21, <1>22, <2>1 DEF Core, Scrolled, Ours
  <2>3. \A x \in u.ops : x.aborted BY <1>3, <1>4, <1>22, AbortCore
  <2>4. \A x \in c.ops : x.seq = c.active => x.kind # "post" /\ x.rec = o.rec
    <3> SUFFICES ASSUME NEW x \in c.ops, x.seq = c.active PROVE x.kind # "post" /\ x.rec = o.rec OBVIOUS
    <3>1. PICK q \in a.ops : Kin(x, q) /\ x.kind = q.kind BY <1>5, <1>17
    <3>2. q \in b.ops /\ q.seq = b.active BY <1>2, <1>21, <3>1 DEF Kin, Lightened
    <3>3. q = o BY <1>0, <1>7, <3>2 DEF Unique
    <3> QED BY <1>7, <3>1, <3>3 DEF Kin
  <2>5. Single(c) BY <1>17, <2>3 DEF Single
  <2>6. Repeating(c) /\ Posting(c) /\ Interrupted(c) /\ Scrolled(c)
    BY <1>21, <2>1, <2>2, <2>4 DEF Repeating, Posting, Interrupted, Scrolled
  <2>7. Prompting(c)
    <3>1. Core(u) BY <1>3, <1>6, <1>22
    <3> QED BY <1>17, <3>1 DEF Core, Prompting, Unasked
  <2>8. Core(c) BY <2>5, <2>6, <2>7 DEF Core
  <2>9. Rollback(c) BY <1>21 DEF Rollback
  <2>10. Stepping(c)
    <3>1. Len(c.entries) > 1 /\ ((c.jumps = <<1>> /\ c.cur < Len(c.entries)) \/ c.jumps = <<-1, 1>>)
      <4>1. b.cur \in Nat \ {0} /\ Len(b.entries) \in Nat BY <1>0 DEF Typed, Page
      <4>2. CASE b.jumps = <<>> /\ b.cur < Len(b.entries)
        <5>1. Append(<<>>, 1) = <<1>> OBVIOUS
        <5>2. c.jumps = <<1>> BY <1>14, <1>16, <1>21, <4>2, <5>1
        <5> QED BY <1>21, <4>1, <4>2, <5>2
      <4>3. CASE b.jumps = <<-1>> /\ Len(b.entries) > 1
        <5>1. c.jumps = <<-1, 1>> BY <1>14, <1>16, <1>21, <4>3, BackAndForth
        <5> QED BY <1>21, <4>3, <5>1
      <4> QED BY <1>22, <4>2, <4>3 DEF Arriving
    <3>2. \A q \in c.supersession : q.op = c.active /\ q.rec = o.rec BY <1>7, <1>9, <1>16, <1>21
    <3> QED BY <1>17, <2>1, <2>3, <2>4, <3>1, <3>2 DEF Stepping
  <2> QED BY <2>8, <2>9, <2>10 DEF Steady
<1>23. ASSUME Core(b), Arriving(b), Heavy(b), Promised(b) PROVE Heavy(c) /\ Holder(c)
  <2>1. ~Delayed(b) BY <1>23 DEF Arriving, Delayed, Core, Scrolled
  <2>2. o.rec # NoUrl BY <1>0, <1>7, <1>23, <2>1 DEF Promised, Stepped, Unique
  <2>3. s.rec # NoUrl BY <1>9, <2>2
  <2>4. Heavy(c) BY <1>3, <1>6, <1>16, <1>17, <1>23, <2>3 DEF Heavy, Ours
  <2> QED BY <1>16, <2>4 DEF Holder, Stepped
<1>24. Reaches(b, c) BY <1>18, <1>20, <1>22, <1>23 DEF Reaches
<1> QED BY <1>12, <1>24

\* it arrived, and nothing else is under way
LEMMA FreedReaches ==
  ASSUME NEW b, Form(b), b.supersession = {}, b.mutationRecovery = {}, Kind(b) # "post",
         NEW r \in b.pushRecovery, ~StillMine(b, r), Newer(b, r) = {}
  PROVE  Reaches(b, RolledBack(b, r))
<1>0. Typed(b) /\ b \in Page /\ Unique(b) BY DEF Form, Typed
<1>1. PICK a : a = [b EXCEPT !.pushRecovery = {}] OBVIOUS
<1>2. a \in Page /\ Lightened(b, a) /\ a.supersession = {} /\ a.mutationRecovery = {} /\ a.pushRecovery = {}
  <2>1. a \in Page BY <1>0, <1>1 DEF Page
  <2> QED BY <1>0, <1>1, <2>1 DEF Page, Lightened
<1>3. Form(a) /\ Still(b, a) /\ (Heavy(b) => Heavy(a)) /\ (Core(b) => Core(a)) BY <1>2, LightenedKeeps
<1>4. PICK m : m = IF a.active = r.op THEN Relinquish(a) ELSE a OBVIOUS
<1>5. /\ Form(m) /\ Still(b, m) /\ (Heavy(b) => Heavy(m))
      /\ Core(b) /\ Arriving(b) => Core(m)
      /\ m.supersession = {} /\ m.pushRecovery = {} /\ m.recovering = b.recovering
      /\ m.timers = b.timers /\ m.traversal = b.traversal /\ m.entries = b.entries /\ m.cur = b.cur
  <2>1. CASE a.active = r.op
    <3>1. m = Relinquish(a) BY <1>4, <2>1
    <3>2. /\ Form(m) /\ Others(a, m) /\ m.ops \subseteq a.ops
          /\ Core(a) /\ (\A o \in a.ops : o.seq = a.active => o.aborted \/ o.kind = "idle") => Core(m)
      BY <1>3, <3>1, RelinquishIs
    <3>3. Still(a, m)
      <4>1. Descend(m.ops, a.ops) BY <3>2 DEF Descend, Kin
      <4> QED BY <3>2, <4>1, StillOthers
    <3>4. Heavy(a) => Heavy(m) BY <3>2 DEF Heavy, Ours, Others
    <3>5. ASSUME Core(b), Arriving(b) PROVE Core(m)
      <4>1. a.ops = b.ops BY <1>2 DEF Lightened
      <4>2. \A o \in a.ops : o.seq = a.active => o.aborted \/ o.kind = "idle"
        BY <2>1, <3>5, <4>1 DEF Arriving, Placeholder, Core, Single
      <4> QED BY <1>3, <3>2, <3>5, <4>2
    <3>6. /\ m.supersession = {} /\ m.pushRecovery = {} /\ m.recovering = b.recovering
          /\ m.timers = b.timers /\ m.traversal = b.traversal /\ m.entries = b.entries /\ m.cur = b.cur
      BY <1>2, <3>2 DEF Others, Lightened
    <3>7. Still(b, m) BY <1>3, <3>3, StillTrans
    <3> QED BY <1>3, <3>2, <3>4, <3>5, <3>6, <3>7
  <2>2. CASE a.active # r.op
    <3>1. m = a BY <1>4, <2>2
    <3>2. /\ a.recovering = b.recovering /\ a.timers = b.timers /\ a.traversal = b.traversal
          /\ a.entries = b.entries /\ a.cur = b.cur
      BY <1>2 DEF Lightened
    <3> QED BY <1>2, <1>3, <3>1, <3>2
  <2> QED BY <2>1, <2>2
<1>6. PICK no \in BOOLEAN : no = FALSE OBVIOUS
<1>7. PICK f : f = [m EXCEPT !.traversing = no, !.recovering = no] OBVIOUS
<1>8. m \in Page /\ Typed(m) BY <1>5 DEF Form, Typed
<1>9. f \in Page /\ ~f.traversing /\ ~f.recovering
  <2>1. no \in BOOLEAN OBVIOUS
  <2>2. f \in Page BY <1>7, <1>8, <2>1, ZenonT(60) DEF Page
  <2> QED BY <1>6, <1>7, <1>8, <2>2 DEF Page
<1>10. /\ f.entries = m.entries /\ f.cur = m.cur /\ f.shown = m.shown /\ f.truthUrl = m.truthUrl
       /\ f.displayed = m.displayed /\ f.selected = m.selected /\ f.traversal = m.traversal
       /\ f.ops = m.ops /\ f.active = m.active /\ f.carrier = m.carrier
       /\ f.mutationRecovery = m.mutationRecovery /\ f.pushRecovery = m.pushRecovery
       /\ f.supersession = m.supersession /\ f.life = m.life /\ f.departure = m.departure
       /\ f.observers = m.observers /\ f.prompted = m.prompted /\ f.timers = m.timers
       /\ f.jumps = m.jumps /\ f.lapsed = m.lapsed /\ f.leaving = m.leaving
  BY <1>7, <1>8 DEF Page
<1>11. Form(f)
  <2>1. Typed(f) BY <1>8, <1>9, <1>10 DEF Typed
  <2>2. Unique(f) /\ Owned(f) /\ Natives(f) BY <1>5, <1>10 DEF Form, Unique, Owned, Natives
  <2>3. RealOps(f) /\ RealTimers(f) /\ RealHistory(f) /\ RealRecoveries(f) /\ RealPrompts(f)
    BY <1>5, <1>10 DEF Form, RealOps, RealTimers, RealHistory, RealRecoveries, RealPrompts
  <2> QED BY <2>1, <2>2, <2>3 DEF Form
<1>12. Still(b, f)
  <2>1. Still(m, f) BY <1>10 DEF Still, Onward, Off, NoReturn, Lone, Recent
  <2> QED BY <1>5, <2>1, StillTrans
<1>13. ASSUME Core(b), Arriving(b) PROVE Core(f) /\ (Heavy(b) => Heavy(f))
  <2>1. \A t \in f.timers : ~Ours(f, t) BY <1>5, <1>10, <1>13 DEF Arriving, Core, Scrolled, Ours
  <2>2. Paused(m, f) BY <1>9, <1>10, <2>1 DEF Paused
  <2>3. Typed(f) BY <1>11 DEF Form
  <2> QED BY <1>5, <1>13, <2>2, <2>3, PausedKeeps
<1>14. f.supersession = {} /\ f.pushRecovery = {} BY <1>5, <1>10
<1>15. PICK c : c = RolledBack(b, r) OBVIOUS
<1>16. CASE RolledTo(b, r)
  <2>1. c = f
    BY <1>1, <1>4, <1>6, <1>7, <1>15, <1>16 DEF RolledBack, StillMine, RolledTo, Newer
  <2>2. ASSUME Core(b), Arriving(b), ~Lapses(b), Heavy(b), Promised(b) PROVE FALSE
    <3>1. ~Delayed(b) BY <2>2 DEF Arriving, Delayed, Core, Scrolled
    <3>2. PICK o \in b.ops :
               /\ o.seq = b.active /\ o.rec # NoUrl
               /\ o.kind = "idle" /\ ~o.aborted /\ (\A t \in b.timers : t.kind # "stage") =>
                    \E q \in b.pushRecovery : q.op = o.seq /\ q.trav = b.traversal
      BY <2>2, <3>1 DEF Promised, Stepped
    <3>3. o \in Active(b) /\ o.kind # "post" BY <1>0, <3>2, ActiveIs DEF Active
    <3>4. o.seq = r.op BY <3>3 DEF Newer
    <3>5. ~o.aborted BY <2>2, <3>3, <3>4 DEF Lapses
    <3>6. o.kind = "idle" BY <2>2, <3>4, <3>5 DEF Arriving, Placeholder, Core, Single
    <3>7. \E q \in b.pushRecovery : q.op = o.seq /\ q.trav = b.traversal BY <2>2, <3>2, <3>5, <3>6 DEF Arriving
    <3>8. r.trav = b.traversal BY <2>2, <3>7 DEF Arriving
    <3> QED BY <1>16, <3>3, <3>4, <3>5, <3>8 DEF StillMine
  <2>3. ASSUME Core(b), Arriving(b) PROVE Steady(f)
    BY <1>13, <1>14, <2>3 DEF Steady, Rollback, Stepping
  <2>4. Reaches(b, c) BY <1>11, <1>12, <2>1, <2>2, <2>3 DEF Reaches
  <2> QED BY <1>15, <2>4
<1>17. CASE ~RolledTo(b, r)
  <2>1. PICK h \in Link : h = Href(b) /\ h # NoUrl
    <3>1. Href(b) \in Link BY <1>0, CurrentIs
    <3> QED BY <3>1 DEF Form, Typed, RealHistory, Href, Current
  <2>2. PICK k \in Link : k = r.rec BY <1>0 DEF Page, PushRecovery
  <2>3. Href(f) = Href(b) BY <1>5, <1>10 DEF Href, Current
  <2>4. c = Fallback(f, h, no, k)
    BY <1>1, <1>4, <1>6, <1>7, <1>15, <1>17, <2>1, <2>2 DEF RolledBack, StillMine, RolledTo, Newer
  <2>5. Away(f, c, k)
    <3>1. no \in BOOLEAN OBVIOUS
    <3>2. Away(f, Fallback(f, h, no, k), k) BY <1>11, <2>1, <3>1, FallbackAway
    <3> QED BY <2>4, <3>2
  <2>6. Form(c) /\ Still(f, c) BY <2>5 DEF Away
  <2>7. Still(b, c) BY <1>12, <2>6, StillTrans
  <2>8. ASSUME Core(b), Arriving(b) PROVE Steady(c)
    <3>1. Core(c) BY <1>13, <2>5, <2>8 DEF Away
    <3>2. c.supersession = {} /\ c.pushRecovery = {} BY <1>14, <2>5 DEF Away, Undisturbed
    <3> QED BY <3>1, <3>2 DEF Steady, Rollback, Stepping
  <2>9. ASSUME Core(b), Arriving(b), Heavy(b) PROVE Heavy(c) /\ Holder(c)
    <3>1. k # NoUrl BY <2>2, <2>9 DEF Heavy
    <3> QED BY <1>13, <2>5, <2>9, <3>1 DEF Away, Holder
  <2>10. Reaches(b, c) BY <2>6, <2>7, <2>8, <2>9 DEF Reaches
  <2> QED BY <1>15, <2>10
<1> QED BY <1>16, <1>17

\* an ordinary traversal
LEMMA EntryReaches ==
  ASSUME server \in Nat, NEW b, Form(b), b.supersession = {}, b.mutationRecovery = {}, b.pushRecovery = {},
         Kind(b) # "post", NEW enhance \in BOOLEAN, NEW safe \in BOOLEAN
  PROVE  Reaches(b, SelectEntry(b, enhance, safe))
<1>0. Typed(b) /\ b \in Page /\ Unique(b) /\ Owned(b) BY DEF Form, Typed
<1>1. PICK t \in Nat : t = FreshTraversal(b) /\ \A u \in b.timers : u.trav # t BY <1>0, FreshTraversalIs
<1>2. PICK id \in Nat : id = Current(b).id BY <1>0, CurrentIs DEF Entry
<1>3. PICK yes \in BOOLEAN, no \in BOOLEAN : yes = TRUE /\ no = FALSE OBVIOUS
<1>4. PICK a : a = [b EXCEPT !.traversal = t, !.traversing = yes, !.recovering = no, !.selected = id] OBVIOUS
<1>5. a \in Page
  <2>1. PICK u : u = [b EXCEPT !.traversal = t, !.selected = id] OBVIOUS
  <2>2. u \in Page BY <1>0, <2>1 DEF Page
  <2>3. a = [u EXCEPT !.traversing = yes, !.recovering = no] BY <1>0, <1>4, <2>1 DEF Page
  <2>4. yes \in BOOLEAN /\ no \in BOOLEAN OBVIOUS
  <2> QED BY <2>2, <2>3, <2>4, ZenonT(60) DEF Page
<1>6. /\ a.entries = b.entries /\ a.cur = b.cur /\ a.shown = b.shown /\ a.truthUrl = b.truthUrl
      /\ a.traversal = t /\ a.traversing /\ ~a.recovering
      /\ a.ops = b.ops /\ a.active = b.active /\ a.carrier = b.carrier
      /\ a.mutationRecovery = b.mutationRecovery /\ a.pushRecovery = b.pushRecovery
      /\ a.supersession = b.supersession /\ a.life = b.life /\ a.departure = b.departure
      /\ a.observers = b.observers /\ a.prompted = b.prompted /\ a.timers = b.timers
      /\ a.jumps = b.jumps /\ a.lapsed = b.lapsed /\ a.leaving = b.leaving
  BY <1>0, <1>3, <1>4 DEF Page
<1>7. Form(a)
  <2>1. Typed(a) BY <1>0, <1>5, <1>6 DEF Typed
  <2>2. Unique(a) /\ Owned(a) /\ Natives(a) BY <1>6 DEF Form, Unique, Owned, Natives
  <2>3. RealOps(a) /\ RealTimers(a) /\ RealHistory(a) /\ RealRecoveries(a) /\ RealPrompts(a)
    BY <1>6 DEF Form, RealOps, RealTimers, RealHistory, RealRecoveries, RealPrompts
  <2> QED BY <2>1, <2>2, <2>3 DEF Form
<1>8. Still(b, a) BY <1>6 DEF Still, Onward, Off, NoReturn, Lone, Recent
<1>9. \A u \in a.timers : ~Ours(a, u) BY <1>1, <1>6 DEF Ours
<1>10. \A o \in b.ops : o.seq = b.active => o.kind # "post" BY <1>0, ActiveIs
<1>11. Core(b) => Core(a)
  BY <1>6, <1>9, <1>10 DEF Core, Single, Repeating, Posting, Interrupted, Scrolled, Prompting, Unasked
<1>12. Heavy(b) => Heavy(a) BY <1>6, <1>9 DEF Heavy, Ours
<1>13. Kind(a) = Kind(b) /\ Rec(a) = Rec(b) BY <1>6, KindIs
<1>14. PICK g \in Link : g = Rec(b) BY <1>0, ActiveIs
<1>15. ASSUME Core(b), ~Drops(b), Heavy(b), Promised(b) PROVE g # NoUrl
  <2>1. CASE Delayed(b)
    <3>1. PICK u \in b.timers : Ours(b, u) BY <2>1 DEF Delayed
    <3>2. u.rec # NoUrl /\ b.recovering BY <1>15, <3>1 DEF Heavy, Core, Scrolled
    <3> QED BY <1>14, <1>15, <3>1, <3>2 DEF Drops, Ours
  <2>2. CASE \E o \in b.ops : o.seq = b.active /\ o.rec # NoUrl BY <1>0, <1>14, <2>2, ActiveIs
  <2> QED BY <1>15, <2>1, <2>2 DEF Promised, Stepped
<1>16. PICK c : c = SelectEntry(b, enhance, safe) OBVIOUS
<1>17. PICK h \in Link : h = Href(a) /\ h # NoUrl
  <2>1. Href(a) \in Link BY <1>7, CurrentIs DEF Form
  <2> QED BY <1>7, <2>1 DEF Form, Typed, RealHistory, Href, Current
<1>18. CASE enhance /\ Current(b).id # b.selected
  <2>1. c = Navigate(a, h, yes, t, NoUrl, safe)
    BY <1>1, <1>2, <1>3, <1>4, <1>16, <1>17, <1>18 DEF SelectEntry
  <2>2. yes \in BOOLEAN /\ NoUrl \in Link /\ Kind(a) # "post" BY <1>13 DEF Link
  <2>3. g = IF NoUrl # NoUrl THEN NoUrl ELSE Rec(a) BY <1>13, <1>14
  <2>4. /\ Form(c) /\ Still(a, c)
        /\ Core(a) => Core(c)
        /\ g # NoUrl /\ Heavy(a) => Heavy(c) /\ Holder(c)
        /\ c.pushRecovery = {} /\ c.supersession = {}
    <3>1. CASE a.life # "closed" /\ safe
      <4>0. Engaged(a, Navigate(a, h, yes, t, NoUrl, safe), g) BY <1>7, <1>17, <2>2, <2>3, <3>1, NavigateBegins
      <4>1. Engaged(a, c, g) BY <2>1, <4>0
      <4>2. (Calm(a) => Core(c)) /\ (Heavy(a) => Heavy(c)) BY <1>6, <1>9, <4>1 DEF Engaged
      <4>3. c.pushRecovery = {} /\ c.supersession = {} BY <1>6, <4>1 DEF Engaged, Begun, Carries
      <4>4. Core(a) => Calm(a) BY DEF Core, Calm
      <4> QED BY <4>1, <4>2, <4>3, <4>4 DEF Engaged, Holder
    <3>2. CASE a.life = "closed" \/ ~safe
      <4>1. /\ Form(c) /\ Still(a, c)
            /\ (Core(a) => Core(c)) /\ (Rollback(a) => Rollback(c)) /\ (Stepping(a) => Stepping(c))
            /\ g # NoUrl => (Heavy(a) => Heavy(c)) /\ Leaving(c)
        BY <1>7, <1>17, <2>1, <2>2, <2>3, <3>2, NavigateLeaves
      <4>2. c.pushRecovery = a.pushRecovery /\ c.supersession = a.supersession
        <5>1. PICK w : w = Abort(a) OBVIOUS
        <5>2. Form(w) /\ Others(a, w) BY <1>7, <5>1, AbortIs
        <5>3. PICK v : v = Fallback(w, h, yes, g) OBVIOUS
        <5>4. Away(w, v, g)
          <6>1. Away(w, Fallback(w, h, yes, g), g) BY <1>17, <2>2, <5>2, FallbackAway
          <6> QED BY <5>3, <6>1
        <5>5. PICK z \in BOOLEAN : z = (v.traversing /\ (t = 0 \/ t # a.traversal \/ a.recovering)) OBVIOUS
        <5>6. c = [v EXCEPT !.traversing = z]
          BY <1>3, <2>1, <2>2, <2>3, <3>2, <5>1, <5>3, <5>5 DEF Navigate
        <5>7. v \in Page BY <5>4 DEF Away, Form, Typed
        <5>8. c.pushRecovery = v.pushRecovery /\ c.supersession = v.supersession BY <5>6, <5>7 DEF Page
        <5> QED BY <5>2, <5>4, <5>8 DEF Away, Undisturbed, Others
      <4> QED BY <1>6, <4>1, <4>2 DEF Holder
    <3> QED BY <3>1, <3>2
  <2>5. Still(b, c) BY <1>8, <2>4, StillTrans
  <2>6. ASSUME Core(b) PROVE Steady(c) BY <1>11, <2>4, <2>6 DEF Steady, Rollback, Stepping
  <2>7. Reaches(b, c) BY <1>12, <1>15, <2>4, <2>5, <2>6 DEF Reaches
  <2> QED BY <1>16, <2>7
<1>19. CASE ~(enhance /\ Current(b).id # b.selected)
  <2>1. PICK u : u = Abort(a) OBVIOUS
  <2>2. /\ Form(u) /\ Others(a, u) /\ u.active = a.active /\ u.traversing = a.traversing
        /\ \A x \in u.ops : \E q \in a.ops : Kin(x, q)
    BY <1>7, <2>1, AbortIs
  <2>3. (Core(a) => Core(u)) /\ (Heavy(a) => Heavy(u)) /\ Still(a, u)
    <3>1. Descend(u.ops, a.ops) BY <2>2 DEF Descend
    <3>2. Heavy(a) => Heavy(u) BY <2>2 DEF Heavy, Ours, Others
    <3>3. Kind(a) # "post" BY <1>13
    <3> QED BY <1>7, <2>1, <2>2, <3>1, <3>2, <3>3, AbortCore, StillOthers
  <2>4. PICK v : v = [u EXCEPT !.recovering = yes] OBVIOUS
  <2>5. u \in Page /\ Typed(u) BY <2>2 DEF Form, Typed
  <2>6. v \in Page /\ v.recovering
    <3>1. yes \in BOOLEAN OBVIOUS
    <3>2. v \in Page BY <2>4, <2>5, <3>1 DEF Page
    <3> QED BY <1>3, <2>4, <2>5, <3>2 DEF Page
  <2>7. /\ v.entries = u.entries /\ v.cur = u.cur /\ v.shown = u.shown /\ v.truthUrl = u.truthUrl
        /\ v.traversal = u.traversal /\ v.traversing = u.traversing
        /\ v.ops = u.ops /\ v.active = u.active /\ v.carrier = u.carrier
        /\ v.mutationRecovery = u.mutationRecovery /\ v.pushRecovery = u.pushRecovery
        /\ v.supersession = u.supersession /\ v.life = u.life /\ v.departure = u.departure
        /\ v.observers = u.observers /\ v.prompted = u.prompted /\ v.timers = u.timers
        /\ v.jumps = u.jumps /\ v.lapsed = u.lapsed /\ v.leaving = u.leaving
    BY <2>4, <2>5 DEF Page
  <2>8. Form(v)
    <3>1. Typed(v) BY <2>5, <2>6, <2>7 DEF Typed
    <3>2. Unique(v) /\ Owned(v) /\ Natives(v) BY <2>2, <2>7 DEF Form, Unique, Owned, Natives
    <3>3. RealOps(v) /\ RealTimers(v) /\ RealHistory(v) /\ RealRecoveries(v) /\ RealPrompts(v)
      BY <2>2, <2>7 DEF Form, RealOps, RealTimers, RealHistory, RealRecoveries, RealPrompts
    <3> QED BY <3>1, <3>2, <3>3 DEF Form
  <2>9. Still(u, v) BY <2>7 DEF Still, Onward, Off, NoReturn, Lone, Recent
  <2>10. \A z \in v.timers : ~Ours(v, z) BY <1>9, <2>2, <2>7 DEF Ours, Others
  <2>11. Core(u) => Core(v)
    BY <1>6, <2>2, <2>7, <2>10 DEF Core, Single, Repeating, Posting, Interrupted, Scrolled, Prompting, Unasked
  <2>12. Heavy(u) => Heavy(v) BY <2>7, <2>10 DEF Heavy
  <2>13. c = BeginTraversalRecovery(v, g)
    BY <1>1, <1>2, <1>3, <1>4, <1>14, <1>16, <1>19, <2>1, <2>4 DEF SelectEntry
  <2>14. Away(v, c, g)
    <3>1. Away(v, BeginTraversalRecovery(v, g), g) BY <2>6, <2>8, TraversalAway
    <3> QED BY <2>13, <3>1
  <2>15. Form(c) /\ Still(v, c) BY <2>14 DEF Away
  <2>16. Still(b, c)
    <3>1. Still(b, u) BY <1>8, <2>3, StillTrans
    <3>2. Still(b, v) BY <2>9, <3>1, StillTrans
    <3> QED BY <2>15, <3>2, StillTrans
  <2>17. ASSUME Core(b) PROVE Steady(c)
    <3>1. Core(c) BY <1>11, <2>3, <2>11, <2>14, <2>17 DEF Away
    <3>2. c.pushRecovery = {} /\ c.supersession = {} BY <1>6, <2>2, <2>7, <2>14 DEF Away, Undisturbed, Others
    <3> QED BY <3>1, <3>2 DEF Steady, Rollback, Stepping
  <2>18. ASSUME g # NoUrl, Heavy(b) PROVE Heavy(c) /\ Holder(c)
    BY <1>12, <2>3, <2>12, <2>14, <2>18 DEF Away, Holder
  <2>19. Reaches(b, c) BY <1>15, <2>15, <2>16, <2>17, <2>18 DEF Reaches
  <2> QED BY <1>16, <2>19
<1> QED BY <1>18, <1>19

\* c is what an arrival makes of b, but for what the runtime may lose then
Arrives(b, c) ==
  /\ Form(c) /\ Still(b, c)
  /\ Awake(c) => ~Lapses(b) /\ ~Drops(b)
  /\ Core(b) /\ Arriving(b) /\ Awake(c) => Steady(c) /\ (Heavy(b) /\ Promised(b) => Heavy(c) /\ Holder(c))

LEMMA ArrivedIs ==
  ASSUME server \in Nat, NEW b, Form(b), NEW enhance \in BOOLEAN, NEW safe \in BOOLEAN
  PROVE  Arrives(b, Arrived(b, enhance, safe))
<1>1. PICK x : x = Popstate(b, enhance, safe) OBVIOUS
<1>2. Reaches(b, x)
  <2>1. CASE b.supersession # {}
    <3>1. PICK r \in b.supersession : r = CHOOSE q \in b.supersession : TRUE BY <2>1
    <3>2. x = SupersessionArrived(b, r) BY <1>1, <2>1, <3>1 DEF Popstate
    <3> QED BY <3>2, SupersessionReaches
  <2>2. CASE b.supersession = {} /\ b.mutationRecovery # {}
    <3>1. PICK r \in b.mutationRecovery : r = CHOOSE q \in b.mutationRecovery : TRUE BY <2>2
    <3>2. x = RecoverCommitted([b EXCEPT !.mutationRecovery = {}], r.url) BY <1>1, <2>2, <3>1 DEF Popstate
    <3> QED BY <3>2, CommittedReaches
  <2>3. CASE b.supersession = {} /\ b.mutationRecovery = {} /\ Kind(b) = "post"
    <3>1. Active(b) # {} BY <2>3 DEF Kind
    <3>2. PICK o \in Active(b) : o = CHOOSE q \in Active(b) : TRUE BY <3>1
    <3>3. o \in b.ops /\ o.seq = b.active BY DEF Active
    <3>4. o.kind = "post" BY <2>3, <3>1, <3>2 DEF Kind
    <3>5. x = InterruptPost(b, o) BY <1>1, <2>3, <3>2 DEF Popstate
    <3> QED BY <2>3, <3>3, <3>4, <3>5, InterruptReaches
  <2>4. CASE b.supersession = {} /\ b.mutationRecovery = {} /\ Kind(b) # "post" /\ b.pushRecovery # {}
    <3>1. PICK r \in b.pushRecovery : r = CHOOSE q \in b.pushRecovery : TRUE BY <2>4
    <3>2. x = RolledBack(b, r) BY <1>1, <2>4, <3>1 DEF Popstate
    <3>3. StillMine(b, r) => Reaches(b, RolledBack(b, r)) BY <2>4, StagedReaches
    <3>4. ~StillMine(b, r) /\ Newer(b, r) # {} => Reaches(b, RolledBack(b, r)) BY <2>4, NewerReaches
    <3>5. ~StillMine(b, r) /\ Newer(b, r) = {} => Reaches(b, RolledBack(b, r)) BY <2>4, FreedReaches
    <3> QED BY <3>2, <3>3, <3>4, <3>5
  <2>5. CASE b.supersession = {} /\ b.mutationRecovery = {} /\ Kind(b) # "post" /\ b.pushRecovery = {}
    <3>1. x = SelectEntry(b, enhance, safe) BY <1>1, <2>5 DEF Popstate
    <3>2. Reaches(b, SelectEntry(b, enhance, safe)) BY <2>5, EntryReaches
    <3> QED BY <3>1, <3>2
  <2> QED BY <2>1, <2>2, <2>3, <2>4, <2>5
<1>3. x \in Page /\ Form(x) BY <1>2 DEF Reaches, Form, Typed
<1>4. PICK l \in BOOLEAN : l = (x.lapsed \/ Lapses(b) \/ Drops(b)) OBVIOUS
<1>5. PICK y : y = [x EXCEPT !.lapsed = l] OBVIOUS
<1>6. y = Arrived(b, enhance, safe) BY <1>1, <1>3, <1>4, <1>5 DEF Arrived, Page
<1>7. y \in Page /\ Losing(x, y) /\ y.lapsed = l
  <2>1. l \in BOOLEAN /\ (x.lapsed => l) BY <1>4
  <2>2. y \in Page BY <1>3, <1>5, <2>1, ZenonT(60) DEF Page
  <2>3. Losing(x, y) /\ y.lapsed = l BY <1>3, <1>5, <2>1 DEF Page, Losing
  <2> QED BY <2>2, <2>3
<1>8. /\ Form(y) /\ Still(x, y)
      /\ (Core(x) => Core(y)) /\ (Rollback(x) => Rollback(y)) /\ (Stepping(x) => Stepping(y))
      /\ (Heavy(x) => Heavy(y)) /\ (Holder(x) => Holder(y))
  BY <1>3, <1>7, LosingKeeps
<1>9. Still(b, y) BY <1>2, <1>8, StillTrans DEF Reaches
<1>10. Awake(y) => ~Lapses(b) /\ ~Drops(b) BY <1>4, <1>7 DEF Awake, Off
<1>11. Arrives(b, y) BY <1>2, <1>8, <1>9, <1>10 DEF Arrives, Reaches, Steady
<1> QED BY <1>6, <1>11

===============================================================================
