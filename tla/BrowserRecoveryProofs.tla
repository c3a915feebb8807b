------------------------ MODULE BrowserRecoveryProofs ------------------------
(***************************************************************************)
(* The theorems about what is left once nothing is under way: the document *)
(* is as new as every commit the runtime knows it owes, and the address    *)
(* bar names it.                                                           *)
(*                                                                         *)
(* While the document is older than what it owes, something of the runtime *)
(* still carries the recovery: a request, a rollback, a prompt to come, a  *)
(* refused prompt, a timer, or a pending jump (Holder); and whatever else  *)
(* may take over carries it too (Heavy).  The rest of the first invariant  *)
(* (Kept) says which of these may be under way together.                   *)
(*                                                                         *)
(* While the selected entry has another URL than the document, something   *)
(* sets it right (Mended); while a traversal is open, something ends it    *)
(* (Turned); and all that would restore an URL restores that of the        *)
(* document (Faithful).  The second invariant (Whole) rests on the first.  *)
(***************************************************************************)
EXTENDS BrowserNavigationProofs

-----------------------------------------------------------------------------
(* The invariant.                                                          *)

\* what holds of the page b, which owes the d-th of n commits
Tracked(b, d, n) ==
  /\ Form(b) /\ Lone(b) /\ d \in Nat /\ d <= n
  /\ b.shown.version <= n /\ \A o \in b.ops : o.began <= n
  /\ b.leaving => b.departure # {}
  /\ Awake(b) => /\ Steady(b) /\ Newest(b, d)
                 /\ b.shown.version < d => Heavy(b) /\ Holder(b)

LEMMA StillTracked ==
  ASSUME server \in Nat, NEW b, NEW d, Tracked(b, d, server), NEW c, Form(c), Still(b, c),
         Awake(c) => Steady(c) /\ (c.shown.version < d => Heavy(c) /\ Holder(c))
  PROVE  Tracked(c, d, server)
<1>1. \A o \in c.ops : o.began <= server
  <2> SUFFICES ASSUME NEW o \in c.ops PROVE o.began <= server OBVIOUS
  <2>1. o.began = server \/ \E q \in b.ops : o.began = q.began BY DEF Still, Onward, Recent
  <2> QED BY <2>1 DEF Tracked
<1>2. Awake(c) => Awake(b) BY DEF Still, Onward, Awake
<1>3. Newest(b, d) => Newest(c, d) BY StillNewest DEF Tracked
<1> QED BY <1>1, <1>2, <1>3 DEF Tracked, Still, Onward

\* the same once the page owes every commit
LEMMA StillOwing ==
  ASSUME server \in Nat, NEW b, NEW d, Tracked(b, d, server), NEW c, Form(c), Still(b, c),
         Awake(b) => \A o \in b.ops : o.kind = "nav" => o.aborted,
         Awake(c) => Steady(c) /\ Heavy(c) /\ Holder(c)
  PROVE  Tracked(c, server, server)
<1>1. \A o \in c.ops : o.began <= server
  <2> SUFFICES ASSUME NEW o \in c.ops PROVE o.began <= server OBVIOUS
  <2>1. o.began = server \/ \E q \in b.ops : o.began = q.began BY DEF Still, Onward, Recent
  <2> QED BY <2>1 DEF Tracked
<1>2. Awake(c) => Awake(b) BY DEF Still, Onward, Awake
<1>3. ASSUME Awake(b) PROVE Newest(c, server)
  <2> SUFFICES ASSUME NEW o \in c.ops, ~o.aborted, o.kind = "nav" PROVE o.began >= server BY DEF Newest
  <2>1. o.began = server BY <1>3 DEF Still, Onward, Recent
  <2> QED BY <2>1
<1> QED BY <1>1, <1>2, <1>3 DEF Tracked, Still, Onward

\* no prompt is to come or was refused
Loose(b) == b.prompted = <<>> /\ \A d \in b.departure : d.asked

LEMMA HolderPromised ==
  ASSUME NEW b, Form(b), Carried(b), Loose(b), Holder(b)
  PROVE  Promised(b)
<1>1. Typed(b) /\ Unique(b) BY DEF Form
<1>2. ~Leaving(b) /\ ~Refused(b) BY DEF Loose, Leaving, Refused, Unasked, Elements
<1>3. CASE Requested(b)
  <2>1. PICK o \in b.ops : o.seq = b.active /\ o.rec # NoUrl /\ ~o.aborted /\ Awaited(b, o) BY <1>3 DEF Requested
  <2>2. o.kind = "idle" /\ (\A t \in b.timers : t.kind # "stage") =>
          \E r \in b.pushRecovery : r.op = o.seq /\ r.trav = b.traversal
    BY <2>1 DEF Awaited
  <2> QED BY <2>1, <2>2 DEF Promised
<1>4. CASE Submitted(b)
  <2>1. PICK o \in b.ops : o.seq = b.active /\ o.kind = "post" BY <1>4 DEF Submitted
  <2> QED BY <1>1, <2>1, ActiveIs DEF Promised
<1>5. CASE Native(b)
  <2>1. PICK o \in b.ops : o.seq = b.active /\ o.seq = b.carrier BY <1>5 DEF Native
  <2>2. o.aborted /\ o.rec # NoUrl BY <2>1 DEF Carried, Form, Natives
  <2> QED BY <2>1, <2>2 DEF Promised
<1>6. CASE Delayed(b) \/ Stepped(b) BY <1>6 DEF Promised
<1> QED BY <1>2, <1>3, <1>4, <1>5, <1>6 DEF Holder

LEMMA PostHeavy ==
  ASSUME NEW b, Form(b), Core(b), Loose(b), Kind(b) = "post",
         \A t \in b.timers : t.kind = "stage" => ~t.late,
         b.pushRecovery = {}, b.supersession = {}
  PROVE  Heavy(b)
<1>1. Typed(b) /\ Unique(b) /\ Owned(b) BY DEF Form
<1>2. PICK o \in b.ops : o.seq = b.active /\ o.kind = "post"
  <2>1. \E o \in b.ops : o.seq = b.active BY <1>1, ActiveIs DEF Owned
  <2> QED BY <1>1, <2>1, ActiveIs
<1>3. ~b.traversing /\ ~b.recovering /\ \A t \in b.timers : t.kind # "stage" BY <1>2 DEF Core, Posting, Repeating
<1>4. \A t \in b.timers : ~Ours(b, t) BY <1>3 DEF Core, Scrolled
<1>5. \A x \in Elements(b.observers) : x.rec # NoUrl BY DEF Core, Prompting, Unasked, Loose
<1>6. Elements(b.prompted) = {} BY DEF Loose, Elements
<1> QED BY <1>3, <1>4, <1>5, <1>6 DEF Heavy

-----------------------------------------------------------------------------
(* The acts of the user.                                                   *)

Kept == Inv /\ Tracked(page, due, server)

\* what an act finds, with everything pending outdated
LEMMA OutdatedIs ==
  ASSUME Kept, Unprompted, NEW p, p = Outdate(page)
  PROVE  /\ Form(p) /\ Base(p) /\ Aged(page, p) /\ Still(page, p) /\ Loose(p)
         /\ Kind(p) = Kind(page) /\ Rec(p) = Rec(page)
         /\ Awake(page) => Steady(p)
         /\ (Heavy(page) => Heavy(p)) /\ (Holder(page) => Holder(p))
         /\ Awake(page) /\ page.shown.version < due => Heavy(p) /\ Promised(p)
         /\ \A t \in p.timers : t.kind # "traversal" => t.late
<1>1. Form(page) /\ Sound(page) BY DEF Kept, Tracked, Inv
<1>2. /\ Form(p) /\ Aged(page, p) /\ Kind(p) = Kind(page) /\ Rec(p) = Rec(page)
      /\ (Core(page) => Core(p)) /\ (Rollback(page) => Rollback(p)) /\ (Stepping(page) => Stepping(p))
      /\ (Heavy(page) => Heavy(p)) /\ (Holder(page) => Holder(p))
      /\ \A t \in p.timers : t.kind # "traversal" => t.late
  BY <1>1, OutdateIs
<1>3. Base(p) BY <1>1, OutdatedPage
<1>4. Loose(p) BY <1>2 DEF Unprompted, Loose, Aged, Carries
<1>5. Still(page, p) BY <1>2, StillAged
<1>6. Awake(page) => Steady(p) BY <1>2 DEF Kept, Tracked, Steady
<1>7. ASSUME Awake(page), page.shown.version < due PROVE Heavy(p) /\ Promised(p)
  <2>1. Heavy(p) /\ Holder(p) BY <1>2, <1>7 DEF Kept, Tracked
  <2> QED BY <1>2, <1>3, <1>4, <2>1, HolderPromised DEF Base
<1> QED BY <1>2, <1>3, <1>4, <1>5, <1>6, <1>7

\* another entry is selected
LEMMA MovedIs ==
  ASSUME NEW b, Form(b), NEW i \in DOMAIN b.entries, NEW c, c = [b EXCEPT !.cur = i]
  PROVE  /\ Form(c) /\ Alike(b, c) /\ Still(b, c) /\ c.entries = b.entries /\ c.cur = i /\ c.truthUrl = b.truthUrl
         /\ Kind(c) = Kind(b) /\ Rec(c) = Rec(b)
         /\ (Core(b) => Core(c)) /\ (Heavy(b) => Heavy(c)) /\ (Promised(b) => Promised(c))
<1>1. b \in Page BY DEF Form, Typed
<1>2. i \in Nat BY <1>1 DEF Page
<1>3. c \in Page BY <1>1, <1>2 DEF Page
<1>4. Alike(b, c) /\ c.entries = b.entries /\ c.cur = i /\ c.truthUrl = b.truthUrl /\ c.leaving = b.leaving
      /\ c.shown = b.shown
  BY <1>1 DEF Page, Alike
<1>5. RealHistory(c) BY <1>4 DEF Form, RealHistory
<1>6. Form(c) /\ (Core(b) => Core(c)) /\ (Heavy(b) => Heavy(c))
  BY <1>3, <1>4, <1>5, AlikeIs
<1>7. Still(b, c) BY <1>4, StillAlike
<1>8. Kind(c) = Kind(b) /\ Rec(c) = Rec(b) BY <1>4, KindIs DEF Alike
<1>9. Promised(b) => Promised(c) BY <1>4, <1>8 DEF Promised, Alike, Delayed, Stepped, Ours
<1> QED BY <1>4, <1>6, <1>7, <1>8, <1>9

\* a rollback and a step forward are never under way together
LEMMA OneWay ==
  ASSUME NEW b, Rollback(b), Stepping(b)
  PROVE  b.pushRecovery = {} \/ b.supersession = {}
<1>1. <<-1>> # <<1>> /\ <<-1>> # <<-1, 1>>
  <2>1. Len(<<-1>>) = 1 /\ Len(<<-1, 1>>) = 2 /\ <<-1>>[1] = -1 /\ <<1>>[1] = 1 OBVIOUS
  <2> QED BY <2>1
<1> QED BY <1>1 DEF Rollback, Stepping

\* a POST in the way of an arrival that loses nothing is the only thing under way
LEMMA PostAlone ==
  ASSUME NEW b, Form(b), Steady(b), Exclusive(b), Kind(b) = "post", ~Lapses(b)
  PROVE  b.pushRecovery = {} /\ b.supersession = {}
<1>1. Typed(b) /\ Unique(b) /\ Owned(b) BY DEF Form
<1>2. PICK o \in b.ops : o.seq = b.active /\ o.kind = "post" /\ Active(b) = {o} BY <1>1, RecIs
<1>3. o.aborted => b.mutationRecovery # {} BY <1>2 DEF Steady, Core, Posting
<1>4. b.supersession = {}
  <2> SUFFICES ASSUME NEW r \in b.supersession PROVE FALSE OBVIOUS
  <2>1. ~o.aborted BY <1>3 DEF Exclusive
  <2>2. o.seq = r.op BY <1>2, <2>1 DEF Lapses
  <2> QED BY <1>2, <2>1, <2>2 DEF Steady, Stepping
<1>5. b.pushRecovery = {} BY <1>4 DEF Lapses, Steady, Core, Interrupted
<1> QED BY <1>4, <1>5

LEMMA TraverseTracks ==
  ASSUME Kept, NEW i \in DOMAIN page.entries, Traverse(i)
  PROVE  Tracked(page', due', server')
<1>0. server \in Nat /\ server' = server /\ Unprompted /\ Punctual /\ Form(page)
      /\ due' = (IF Kind(page) = "post" THEN server ELSE due)
  BY DEF Kept, Inv, Traverse, Act, Free, Tracked
<1>1. PICK p : p = Outdate(page) OBVIOUS
<1>2. /\ Form(p) /\ Base(p) /\ Aged(page, p) /\ Still(page, p) /\ Loose(p)
      /\ Kind(p) = Kind(page)
      /\ Awake(page) => Steady(p)
      /\ (Heavy(page) => Heavy(p))
      /\ Awake(page) /\ page.shown.version < due => Heavy(p) /\ Promised(p)
  BY <1>0, <1>1, OutdatedIs
<1>3. p.entries = page.entries /\ p.cur = page.cur BY <1>2 DEF Aged, Carries
<1>4. PICK b : b = [p EXCEPT !.cur = i] OBVIOUS
<1>5. /\ Form(b) /\ Alike(p, b) /\ Still(p, b) /\ b.entries = p.entries /\ b.cur = i
      /\ Kind(b) = Kind(p)
      /\ (Core(p) => Core(b)) /\ (Heavy(p) => Heavy(b)) /\ (Promised(p) => Promised(b))
  BY <1>2, <1>3, <1>4, MovedIs
<1>6. ASSUME Awake(page) PROVE Core(b) /\ Arriving(b)
  <2>1. Steady(p) BY <1>2, <1>6
  <2>2. Exclusive(b) /\ Placeholder(b) BY <1>2, <1>5 DEF Base, Exclusive, Placeholder, Alike
  <2>3. b.pushRecovery = {} \/ b.supersession = {} BY <1>5, <2>1, OneWay DEF Steady, Alike
  <2>4. b.pushRecovery # {} => b.jumps = <<-1>> /\ Len(b.entries) > 1
    <3>1. p.cur \in 1..Len(p.entries) /\ Len(p.entries) \in Nat BY <1>2 DEF Form, Typed, Page
    <3> QED BY <1>5, <2>1, <3>1 DEF Steady, Rollback, Alike
  <2>5. b.pushRecovery # {} =>
          /\ ~b.recovering
          /\ \A t \in b.timers : t.kind # "stage"
          /\ \A r, q \in b.pushRecovery : r = q
          /\ \A r \in b.pushRecovery : /\ r.rec # NoUrl <=> r.op # 0
                                       /\ \A o \in b.ops : o.seq = r.op => o.rec # NoUrl
    BY <1>5, <2>1 DEF Steady, Rollback, Alike
  <2>6. \A r \in b.supersession, o \in b.ops : o.seq = r.op => o.aborted
    BY <1>5, <2>1 DEF Steady, Stepping, Alike
  <2>7. Core(b) BY <1>5, <2>1 DEF Steady
  <2> QED BY <2>2, <2>3, <2>4, <2>5, <2>6, <2>7 DEF Arriving
<1>7. PICK enhance \in BOOLEAN, safe \in BOOLEAN : page' = Arrived(b, enhance, safe)
  BY <1>1, <1>4 DEF Traverse
<1>8. PICK c : c = page' OBVIOUS
<1>9. /\ Form(c) /\ Still(b, c)
      /\ Awake(c) => ~Lapses(b) /\ ~Drops(b)
      /\ Core(b) /\ Arriving(b) /\ Awake(c) => Steady(c) /\ (Heavy(b) /\ Promised(b) => Heavy(c) /\ Holder(c))
  <2>1. Arrives(b, Arrived(b, enhance, safe)) BY <1>0, <1>5, ArrivedIs
  <2>2. Arrives(b, c) BY <1>7, <1>8, <2>1
  <2> QED BY <2>2 DEF Arrives
<1>10. Still(page, c)
  <2>1. Still(page, b) BY <1>2, <1>5, StillTrans
  <2> QED BY <1>9, <2>1, StillTrans
<1>11. Awake(c) => Awake(page) BY <1>10 DEF Still, Onward, Awake
<1>12. CASE Kind(page) = "post"
  <2>1. Awake(page) => \A o \in page.ops : o.kind = "nav" => o.aborted
    <3> SUFFICES ASSUME Awake(page), NEW o \in page.ops, o.kind = "nav", ~o.aborted PROVE FALSE OBVIOUS
    <3>1. o.seq = page.active BY DEF Kept, Tracked, Steady, Core, Single
    <3>2. Kind(page) = "nav" BY <1>0, <3>1, ActiveIs DEF Form
    <3> QED BY <1>12, <3>2
  <2>2. ASSUME Awake(c) PROVE Heavy(b)
    <3>1. Steady(page) /\ Exclusive(page) BY <1>11, <2>2 DEF Kept, Tracked, Inv, Sound, Base
    <3>2. Steady(p) /\ Exclusive(p) BY <1>2, <1>11, <2>2 DEF Base
    <3>3. ~Lapses(p)
      <4>1. ~Lapses(b) BY <1>9, <2>2
      <4>2. Active(b) = Active(p) BY <1>5, KindIs DEF Alike
      <4> QED BY <1>5, <4>1, <4>2 DEF Lapses, Alike
    <3>4. p.pushRecovery = {} /\ p.supersession = {} BY <1>2, <1>12, <3>2, <3>3, PostAlone
    <3>5. page.pushRecovery = {} /\ page.supersession = {} BY <1>2, <3>4 DEF Aged, Carries
    <3>6. Loose(page) BY <1>0 DEF Unprompted, Loose
    <3>7. \A t \in page.timers : ~t.late BY <1>0 DEF Punctual
    <3>8. Heavy(page) BY <1>0, <1>12, <3>1, <3>5, <3>6, <3>7, PostHeavy DEF Steady
    <3> QED BY <1>2, <1>5, <3>8
  <2>3. Promised(b) BY <1>2, <1>5, <1>12 DEF Promised
  <2>4. Awake(c) => Steady(c) /\ Heavy(c) /\ Holder(c) BY <1>6, <1>9, <1>11, <2>2, <2>3
  <2>5. Tracked(page, due, server) BY DEF Kept
  <2>6. Tracked(c, server, server) BY <1>0, <1>9, <1>10, <2>1, <2>4, <2>5, StillOwing
  <2> QED BY <1>0, <1>8, <1>12, <2>6
<1>13. CASE Kind(page) # "post"
  <2>1. c.shown = page.shown BY <1>10 DEF Still
  <2>2. ASSUME Awake(c), c.shown.version < due PROVE Heavy(c) /\ Holder(c)
    BY <1>2, <1>5, <1>6, <1>9, <1>11, <2>1, <2>2
  <2>3. Awake(c) => Steady(c) BY <1>6, <1>9, <1>11
  <2>4. Tracked(page, due, server) BY DEF Kept
  <2>5. Tracked(c, due, server) BY <1>0, <1>9, <1>10, <2>2, <2>3, <2>4, StillTracked
  <2> QED BY <1>0, <1>8, <1>13, <2>5
<1> QED BY <1>12, <1>13

\* the page whose active operation has no source entry
Unsource(b) == [b EXCEPT !.ops = Unsourcing(b)]

LEMMA UnsourceIs ==
  ASSUME NEW b, Form(b), \A t \in b.timers : t.kind = "stage" => t.late, NEW c, c = Unsource(b)
  PROVE  /\ Form(c) /\ Still(b, c) /\ Aged(b, c)
         /\ (Core(b) => Core(c)) /\ (Rollback(b) => Rollback(c)) /\ (Stepping(b) => Stepping(c))
         /\ (Heavy(b) => Heavy(c)) /\ (Holder(b) => Holder(c))
<1> DEFINE f == [o \in b.ops |-> IF o.seq = b.active THEN Unsourced(o) ELSE o]
           X == Unsourcing(b)
<1>0. b \in Page /\ b.ops \subseteq Operation /\ IsFiniteSet(b.ops) /\ Unique(b) /\ Typed(b) /\ b.traversing \in BOOLEAN
      /\ b.active \in Nat
  BY DEF Form, Typed, Page
<1>1. X = {f[o] : o \in b.ops} BY DEF Unsourcing
<1>2. \A o \in b.ops : f[o] = IF o.seq = b.active THEN Unsourced(o) ELSE o OBVIOUS
<1> HIDE DEF f, X
<1>3. IsFiniteSet(X) BY <1>0, <1>1, FiniteMap
<1>4. ASSUME NEW o \in b.ops
      PROVE  f[o] \in Operation /\ Kin(f[o], o) /\ f[o].kind = o.kind /\ f[o].aborted = o.aborted
  <2>1. o \in Operation BY <1>0
  <2>2. CASE o.seq = b.active BY <1>2, <2>1, <2>2, UnsourcedIs DEF Kin
  <2>3. CASE o.seq # b.active BY <1>2, <2>1, <2>3 DEF Kin
  <2> QED BY <2>2, <2>3
<1>5. X \in SUBSET Operation BY <1>1, <1>4
<1>6. c = Renewed(b, X, b.active, b.traversing) BY <1>0, SameRenewed DEF X, Unsource
<1>7. Typed(c) /\ Others(b, c) /\ c.ops = X /\ c.active = b.active /\ c.traversing = b.traversing
  BY <1>0, <1>3, <1>5, <1>6, RenewedIs
<1>8. Unique(c) BY <1>0, <1>1, <1>4, <1>7 DEF Unique, Kin
<1>9. Aged(b, c)
  <2>1. Carries(b, c) BY <1>7 DEF Carries, Others
  <2>2. \A o \in c.ops : \E q \in b.ops : Kin(o, q) /\ o.kind = q.kind /\ o.aborted = q.aborted BY <1>1, <1>4, <1>7
  <2>3. \A q \in b.ops : \E o \in c.ops : Kin(o, q) /\ o.kind = q.kind /\ o.aborted = q.aborted BY <1>1, <1>4, <1>7
  <2>4. c.timers = b.timers BY <1>7 DEF Others
  <2> QED BY <1>7, <2>1, <2>2, <2>3, <2>4 DEF Aged, TimerKin
<1>10. /\ \A t \in c.timers : t.kind = "stage" => t.late
       /\ \A t, u \in c.timers : t.kind = "native" /\ u.kind = "native" /\ t.op = u.op => t = u
  BY <1>7 DEF Others, Form, Natives
<1>11. Still(b, c) BY <1>9, StillAged
<1> QED BY <1>7, <1>8, <1>9, <1>10, <1>11, AgedKeeps

\* the recovery outlives an act that no traversal, POST or inherited recovery may carry it through
LEMMA StillStepped ==
  ASSUME NEW b, Form(b), Core(b), ~Drops(b), Kind(b) # "post", Rec(b) = NoUrl, Heavy(b), Promised(b)
  PROVE  Stepped(b)
<1>1. Typed(b) /\ Unique(b) BY DEF Form
<1>2. ~Delayed(b)
  <2> SUFFICES ASSUME NEW t \in b.timers, Ours(b, t) PROVE FALSE BY DEF Delayed
  <2>1. t.rec # NoUrl /\ b.recovering BY DEF Heavy, Core, Scrolled
  <2> QED BY <2>1 DEF Drops, Ours
<1>3. \A o \in b.ops : o.seq = b.active => o.rec = NoUrl BY <1>1, ActiveIs
<1> QED BY <1>2, <1>3 DEF Promised

LEMMA ClickTracks ==
  ASSUME Kept, NEW url \in Url, Click(url)
  PROVE  Tracked(page', due', server')
<1>0. server \in Nat /\ server' = server /\ Unprompted /\ Form(page) /\ due' = due
      /\ page.life = "active" /\ Kind(page) # "post" /\ ~page.traversing
  BY DEF Kept, Inv, Click, Listening, Act, Free, Tracked
<1>1. PICK p : p = Outdate(page) OBVIOUS
<1>2. /\ Form(p) /\ Aged(page, p) /\ Still(page, p)
      /\ Kind(p) = Kind(page)
      /\ Awake(page) => Steady(p)
      /\ Awake(page) /\ page.shown.version < due => Heavy(p) /\ Promised(p)
      /\ \A t \in p.timers : t.kind # "traversal" => t.late
  BY <1>0, <1>1, OutdatedIs
<1>3. p.life = "active" /\ ~p.traversing BY <1>0, <1>2 DEF Aged, Carries
<1>4. PICK yes \in BOOLEAN, no \in BOOLEAN : yes = TRUE /\ no = FALSE OBVIOUS
<1>5. PICK g \in Link : g = Rec(p) BY <1>2, ActiveIs DEF Form
<1>6. PICK b : b = Navigate(p, url, no, 0, NoUrl, yes) OBVIOUS
<1>7. Engaged(p, b, g)
  <2>1. url \in Link /\ url # NoUrl /\ NoUrl \in Link /\ 0 \in Nat BY NavigationAssumption DEF Link
  <2>2. g = IF NoUrl # NoUrl THEN NoUrl ELSE Rec(p) BY <1>5
  <2>3. yes \in BOOLEAN /\ no \in BOOLEAN OBVIOUS
  <2>4. Kind(p) # "post" /\ p.life # "closed" BY <1>0, <1>2, <1>3
  <2>5. Engaged(p, Navigate(p, url, no, 0, NoUrl, yes), g)
    BY <1>0, <1>2, <1>4, <2>1, <2>2, <2>3, <2>4, NavigateBegins
  <2> QED BY <1>6, <2>5
<1>8. /\ Form(b) /\ Still(p, b) /\ (g # NoUrl => Requested(b))
      /\ (Calm(p) => Core(b)) /\ (Rollback(p) => Rollback(b)) /\ (Stepping(p) => Stepping(b))
      /\ (Heavy(p) => Heavy(b))
      /\ \E o : Begun(p, b, o)
  BY <1>3, <1>7 DEF Engaged
<1>9. \A t \in b.timers : t.kind = "stage" => t.late BY <1>2, <1>8 DEF Begun, TimerKin
<1>10. PICK c : c = Unsource(b) OBVIOUS
<1>11. c = page'
  <2>1. page' = [b EXCEPT !.ops = {IF o.seq = b.active THEN [o EXCEPT !.source.id = 0] ELSE o : o \in @}]
    BY <1>1, <1>4, <1>6 DEF Click
  <2> QED BY <1>10, <2>1 DEF Unsource, Unsourcing, Unsourced
<1>12. /\ Form(c) /\ Still(b, c)
       /\ (Core(b) => Core(c)) /\ (Rollback(b) => Rollback(c)) /\ (Stepping(b) => Stepping(c))
       /\ (Heavy(b) => Heavy(c)) /\ (Holder(b) => Holder(c))
  BY <1>8, <1>9, <1>10, UnsourceIs
<1>13. Still(page, c)
  <2>1. Still(page, b) BY <1>2, <1>8, StillTrans
  <2> QED BY <1>12, <2>1, StillTrans
<1>14. Awake(c) => Awake(page) /\ c.shown = page.shown BY <1>13 DEF Still, Onward, Awake
<1>15. Awake(c) => Steady(c)
  <2>1. Core(p) => Calm(p) BY DEF Core, Calm
  <2> QED BY <1>2, <1>8, <1>12, <1>14, <2>1 DEF Steady
<1>16. ASSUME Awake(c), c.shown.version < due PROVE Heavy(c) /\ Holder(c)
  <2>1. Heavy(p) /\ Promised(p) /\ Core(p) BY <1>2, <1>14, <1>16 DEF Steady
  <2>2. Heavy(c) BY <1>8, <1>12, <2>1
  <2>3. g # NoUrl => Holder(b) BY <1>8 DEF Holder
  <2>4. ASSUME g = NoUrl PROVE Holder(b)
    <3>1. ~Drops(p) BY <1>3, <2>1 DEF Drops, Core, Repeating
    <3>2. Stepped(p) BY <1>0, <1>2, <1>5, <2>1, <2>4, <3>1, StillStepped
    <3>3. Stepped(b) BY <1>8, <3>2 DEF Stepped, Begun, Carries
    <3> QED BY <3>3 DEF Holder
  <2> QED BY <1>12, <2>2, <2>3, <2>4
<1>17. Tracked(page, due, server) BY DEF Kept
<1>18. Tracked(c, due, server) BY <1>0, <1>12, <1>13, <1>15, <1>16, <1>17, StillTracked
<1> QED BY <1>0, <1>11, <1>18

LEMMA DepartAlone ==
  ASSUME NEW b, Form(b), NEW url \in Link, url # NoUrl, NEW c, c = Depart(b, url)
  PROVE  /\ Form(c) /\ Still(b, c) /\ Undisturbed(b, c)
         /\ (Core(b) => Core(c)) /\ (Rollback(b) => Rollback(c)) /\ (Stepping(b) => Stepping(c))
         /\ (Heavy(b) => Heavy(c))
<1>1. Typed(c) /\ Asks(b, c, {}) BY DepartIs DEF Form
<1>2. PICK O : O = {} OBVIOUS
<1>3. Asks(b, c, O) /\ (\A x \in O : x.truth # NoUrl) /\ (\A x \in O : x.rec # NoUrl)
      /\ (\A x \in O : x.kind = "close" => x.rec = NoUrl)
  BY <1>1, <1>2
<1>4. Still(b, c) BY <1>3, StillAsks
<1>5. /\ Form(c) /\ (Core(b) => Core(c)) /\ (Rollback(b) => Rollback(c)) /\ (Stepping(b) => Stepping(c))
      /\ (Heavy(b) => Heavy(c))
  BY <1>1, <1>3, AsksKeeps
<1>6. Undisturbed(b, c) BY <1>1 DEF Asks
<1> QED BY <1>4, <1>5, <1>6

LEMMA NativeActivationTracks ==
  ASSUME Kept, NEW url \in Url, NativeActivation(url)
  PROVE  Tracked(page', due', server')
<1>0. /\ server \in Nat /\ server' = server /\ Unprompted /\ Form(page)
      /\ due' = (IF Kind(page) = "post" THEN server ELSE due)
      /\ page.life = "closed" \/ (page.life = "active" /\ Kind(page) # "post")
  BY DEF Kept, Inv, NativeActivation, Listening, Act, Free, Tracked
<1>1. url \in Link /\ url # NoUrl BY NavigationAssumption DEF Link
<1>2. Tracked(page, due, server) BY DEF Kept
<1>3. PICK c : c = page' OBVIOUS
<1>4. CASE page.life = "closed"
  <2>1. c = Depart(page, url) BY <1>3, <1>4 DEF NativeActivation
  <2>2. Form(c) /\ Still(page, c) BY <1>0, <1>1, <2>1, DepartAlone
  <2>3. ~Awake(page) /\ ~Awake(c) BY <1>4, <2>2 DEF Still, Onward, Awake, Off
  <2>4. Tracked(c, due, server) BY <1>0, <1>2, <2>2, <2>3, StillTracked
  <2>5. Tracked(c, server, server) BY <1>0, <1>2, <2>2, <2>3, StillOwing
  <2> QED BY <1>0, <1>3, <2>4, <2>5
<1>5. CASE page.life # "closed"
  <2>0. page.life = "active" /\ Kind(page) # "post" /\ due' = due BY <1>0, <1>5
  <2>1. PICK p : p = Outdate(page) OBVIOUS
  <2>2. /\ Form(p) /\ Still(page, p) /\ Kind(p) = Kind(page) /\ Rec(p) = Rec(page)
        /\ Awake(page) => Steady(p)
        /\ Awake(page) /\ page.shown.version < due => Heavy(p) /\ Promised(p)
    BY <1>0, <2>1, OutdatedIs
  <2>3. PICK b : b = Superseded(p) OBVIOUS
  <2>4. /\ Form(b) /\ Still(p, b) /\ (Drops(p) => Off(b))
        /\ b.mutationRecovery = p.mutationRecovery /\ b.supersession = p.supersession
        /\ (Kind(p) # "post" => (Core(p) => Core(b)))
        /\ (Rollback(p) => Rollback(b)) /\ (Stepping(p) => Stepping(b)) /\ (Heavy(p) => Heavy(b))
    BY <2>2, <2>3, SupersededIs
  <2>5. Still(page, b) BY <2>2, <2>4, StillTrans
  <2>6. CASE Rec(page) # NoUrl
    <3>1. PICK g \in Link : g = Rec(page) /\ g # NoUrl BY <1>0, <2>6, ActiveIs DEF Form
    <3>2. c = RecoverCommitted(b, g) BY <1>3, <2>0, <2>1, <2>3, <3>1 DEF NativeActivation
    <3>3. /\ Form(c) /\ Still(b, c) /\ Requested(c)
          /\ (Calm(b) => Core(c)) /\ (Rollback(b) => Rollback(c)) /\ (Stepping(b) => Stepping(c))
          /\ (Heavy(b) => Heavy(c))
      BY <1>0, <2>4, <3>1, <3>2, RecoverCommittedIs
    <3>4. Still(page, c) BY <2>5, <3>3, StillTrans
    <3>5. Awake(c) => Awake(page) /\ c.shown = page.shown BY <3>4 DEF Still, Onward, Awake
    <3>6. Core(b) => Calm(b) BY DEF Core, Calm
    <3>7. Awake(c) => Steady(c) BY <2>0, <2>2, <2>4, <3>3, <3>5, <3>6 DEF Steady
    <3>8. Awake(c) /\ c.shown.version < due => Heavy(c) /\ Holder(c)
      BY <2>2, <2>4, <3>3, <3>5 DEF Holder
    <3>9. Tracked(c, due, server) BY <1>0, <1>2, <3>3, <3>4, <3>7, <3>8, StillTracked
    <3> QED BY <1>0, <1>3, <2>0, <3>9
  <2>7. CASE Rec(page) = NoUrl
    <3>1. c = Depart(b, url) BY <1>3, <2>0, <2>1, <2>3, <2>7 DEF NativeActivation
    <3>2. /\ Form(c) /\ Still(b, c) /\ Undisturbed(b, c)
          /\ (Core(b) => Core(c)) /\ (Rollback(b) => Rollback(c)) /\ (Stepping(b) => Stepping(c))
          /\ (Heavy(b) => Heavy(c))
      BY <1>1, <2>4, <3>1, DepartAlone
    <3>3. Still(page, c) BY <2>5, <3>2, StillTrans
    <3>4. Awake(c) => Awake(page) /\ c.shown = page.shown /\ ~Drops(p)
      BY <2>4, <3>2, <3>3 DEF Still, Onward, Awake
    <3>5. Awake(c) => Steady(c) BY <2>0, <2>2, <2>4, <3>2, <3>4 DEF Steady
    <3>6. ASSUME Awake(c), c.shown.version < due PROVE Heavy(c) /\ Holder(c)
      <4>1. Heavy(p) /\ Promised(p) /\ Core(p) BY <2>2, <3>4, <3>6 DEF Steady
      <4>2. Stepped(p) BY <2>0, <2>2, <2>7, <3>4, <3>6, <4>1, StillStepped
      <4>3. Stepped(c) BY <2>4, <3>2, <4>2 DEF Stepped, Undisturbed
      <4> QED BY <2>4, <3>2, <4>1, <4>3 DEF Holder
    <3>7. Tracked(c, due, server) BY <1>0, <1>2, <3>2, <3>3, <3>5, <3>6, StillTracked
    <3> QED BY <1>0, <1>3, <2>0, <3>7
  <2> QED BY <2>6, <2>7
<1> QED BY <1>4, <1>5

LEMMA PolicyActivationTracks ==
  ASSUME Kept, NEW url \in Url, PolicyActivation(url)
  PROVE  Tracked(page', due', server')
<1>0. /\ server \in Nat /\ server' = server /\ Unprompted /\ Form(page) /\ due' = 0
      /\ page.life = "active" /\ Kind(page) # "post"
  BY DEF Kept, Inv, PolicyActivation, Listening, Act, Free, Tracked
<1>1. url \in Link /\ url # NoUrl BY NavigationAssumption DEF Link
<1>2. PICK p : p = Outdate(page) OBVIOUS
<1>3. Form(p) /\ Aged(page, p) /\ Still(page, p) /\ Kind(p) = Kind(page) /\ (Awake(page) => Steady(p))
  BY <1>0, <1>2, OutdatedIs
<1>4. PICK q : q = Abort(p) OBVIOUS
<1>5. /\ Form(q) /\ Still(p, q) /\ Others(p, q)
      /\ (Core(p) => Core(q) /\ \A o \in q.ops : o.aborted)
      /\ (Rollback(p) => Rollback(q)) /\ (Stepping(p) => Stepping(q))
  <2>1. Form(q) /\ Others(p, q) /\ \A o \in q.ops : \E x \in p.ops : Kin(o, x) BY <1>3, <1>4, AbortIs
  <2>2. Still(p, q) BY <2>1, StillOthers DEF Descend
  <2> QED BY <1>0, <1>3, <1>4, <2>1, <2>2, AbortCore
<1>6. PICK a : a = Relinquish(q) OBVIOUS
<1>7. /\ Form(a) /\ Still(q, a) /\ Others(q, a)
      /\ (Core(p) => Core(a)) /\ (Rollback(q) => Rollback(a)) /\ (Stepping(q) => Stepping(a))
  <2>1. /\ Form(a) /\ Others(q, a) /\ a.ops \subseteq q.ops
        /\ (Rollback(q) => Rollback(a)) /\ (Stepping(q) => Stepping(a))
        /\ Core(q) /\ (\A o \in q.ops : o.seq = q.active => o.aborted \/ o.kind = "idle") => Core(a)
    BY <1>5, <1>6, RelinquishIs
  <2>2. Descend(a.ops, q.ops) BY <2>1 DEF Descend, Kin
  <2>3. Still(q, a) BY <2>1, <2>2, StillOthers
  <2> QED BY <1>5, <2>1, <2>3
<1>8. PICK t \in Link : t = page.truthUrl /\ t # NoUrl BY <1>0 DEF Form, Typed, Page, RealHistory
<1>9. PICK b : b = IF page.traversing THEN RepairDisplayedTruth(CloseTraversal(a), t) ELSE a OBVIOUS
<1>10. Form(b) /\ Still(a, b) /\ (Core(a) => Core(b)) /\ (Rollback(a) => Rollback(b)) /\ (Stepping(a) => Stepping(b))
  <2>1. CASE page.traversing
    <3>1. PICK z : z = CloseTraversal(a) OBVIOUS
    <3>2. /\ Form(z) /\ Still(a, z)
          /\ (Core(a) => Core(z)) /\ (Rollback(a) => Rollback(z)) /\ (Stepping(a) => Stepping(z))
      BY <1>7, <3>1, CloseTraversalIs, StillPaused
    <3>3. b = RepairDisplayedTruth(z, t) BY <1>9, <2>1, <3>1
    <3>4. /\ Form(b) /\ Alike(z, b) /\ b.shown = z.shown /\ b.leaving = z.leaving
          /\ (Core(z) => Core(b)) /\ (Rollback(z) => Rollback(b)) /\ (Stepping(z) => Stepping(b))
      BY <1>8, <3>2, <3>3, RepairIs
    <3>5. Still(z, b) BY <3>4, StillAlike
    <3>6. Still(a, b) BY <3>2, <3>5, StillTrans
    <3> QED BY <3>2, <3>4, <3>6
  <2>2. CASE ~page.traversing
    <3>1. b = a BY <1>9, <2>2
    <3>2. Still(a, a) BY DEF Still, Onward, Recent
    <3> QED BY <1>7, <3>1, <3>2
  <2> QED BY <2>1, <2>2
<1>11. PICK d : d = Depart(b, url) OBVIOUS
<1>12. /\ Form(d) /\ Still(b, d) /\ Undisturbed(b, d)
       /\ (Core(b) => Core(d)) /\ (Rollback(b) => Rollback(d)) /\ (Stepping(b) => Stepping(d))
  BY <1>1, <1>10, <1>11, DepartAlone
<1>13. d \in Page BY <1>12 DEF Form, Typed
<1>14. PICK l \in BOOLEAN : l = (d.lapsed \/ Href(b) # b.truthUrl) OBVIOUS
<1>15. PICK c : c = [d EXCEPT !.lapsed = l] OBVIOUS
<1>16. c = page'
  <2>1. page' = [d EXCEPT !.lapsed = @ \/ Href(b) # b.truthUrl]
    BY <1>2, <1>4, <1>6, <1>8, <1>9, <1>11 DEF PolicyActivation
  <2> QED BY <1>13, <1>14, <1>15, <2>1 DEF Page
<1>17. c \in Page /\ Losing(d, c)
  <2>1. l \in BOOLEAN /\ (d.lapsed => l) BY <1>14
  <2>2. c \in Page BY <1>13, <1>15, <2>1, ZenonT(60) DEF Page
  <2> QED BY <1>13, <1>15, <2>1, <2>2 DEF Page, Losing
<1>18. /\ Form(c) /\ Still(d, c)
       /\ (Core(d) => Core(c)) /\ (Rollback(d) => Rollback(c)) /\ (Stepping(d) => Stepping(c))
  BY <1>12, <1>17, LosingKeeps
<1>19. Still(page, c)
  <2>1. Still(page, q) BY <1>3, <1>5, StillTrans
  <2>2. Still(page, a) BY <1>7, <2>1, StillTrans
  <2>3. Still(page, b) BY <1>10, <2>2, StillTrans
  <2>4. Still(page, d) BY <1>12, <2>3, StillTrans
  <2> QED BY <1>18, <2>4, StillTrans
<1>20. Awake(c) => Awake(page) BY <1>19 DEF Still, Onward, Awake
<1>21. Awake(c) => Steady(c) BY <1>3, <1>5, <1>7, <1>10, <1>12, <1>18, <1>20 DEF Steady
<1>22. page.shown.version \in Nat /\ \A o \in page.ops : o.began \in Nat
  BY <1>0 DEF Form, Typed, Page, Operation
<1>23. ~(page.shown.version < 0) /\ Newest(page, 0) BY <1>22 DEF Newest
<1>24. Tracked(page, 0, server) BY <1>0, <1>23 DEF Kept, Tracked
<1>25. ~(c.shown.version < 0) BY <1>19, <1>23 DEF Still
<1>26. Tracked(c, 0, server) BY <1>0, <1>18, <1>19, <1>21, <1>24, <1>25, StillTracked
<1> QED BY <1>0, <1>16, <1>26

\* b, with the active operation left to the native timer t
Laden(b, c, t) ==
  /\ c.ops = b.ops /\ c.active = b.active /\ c.timers = b.timers \cup {t} /\ c.carrier = b.active
  /\ c.entries = b.entries /\ c.cur = b.cur /\ c.shown = b.shown /\ c.truthUrl = b.truthUrl
  /\ c.traversing = b.traversing /\ c.traversal = b.traversal /\ c.recovering = b.recovering
  /\ c.mutationRecovery = b.mutationRecovery /\ c.pushRecovery = b.pushRecovery
  /\ c.supersession = b.supersession /\ c.life = b.life /\ c.departure = b.departure
  /\ c.observers = b.observers /\ c.prompted = b.prompted
  /\ c.jumps = b.jumps /\ c.leaving = b.leaving /\ c.lapsed = b.lapsed

LEMMA LadenIs ==
  ASSUME NEW b, Typed(b), NEW t \in TimerRecord, NEW n \in Nat, n = b.active,
         NEW c, c = [b EXCEPT !.carrier = n, !.timers = @ \cup {t}]
  PROVE  Typed(c) /\ Laden(b, c, t)
<1>1. b \in Page BY DEF Typed
<1>2. PICK T \in SUBSET TimerRecord : T = b.timers \cup {t} BY <1>1 DEF Page
<1>3. c = [b EXCEPT !.carrier = n, !.timers = T] BY <1>1, <1>2 DEF Page
<1>4. c \in Page /\ c.timers = T BY <1>1, <1>3, ZenonT(60) DEF Page
<1>5. Laden(b, c, t) BY <1>1, <1>2, <1>3 DEF Laden, Page
<1>6. IsFiniteSet(T)
  <2>1. PICK U : U = b.timers OBVIOUS
  <2>2. IsFiniteSet(U) BY <2>1 DEF Typed
  <2> QED BY <1>2, <2>1, <2>2, FS_AddElement
<1> QED BY <1>4, <1>5, <1>6 DEF Typed, Laden

LEMMA LadenKeeps ==
  ASSUME NEW b, Form(b), NEW o \in b.ops, o.seq = b.active, o.rec # NoUrl, b.carrier # b.active,
         NEW t \in TimerRecord, t.kind = "native", t.op = b.active, t.current, t.rec # NoUrl, t.url # NoUrl,
         NEW c, Typed(c), Laden(b, c, t)
  PROVE  /\ Form(c) /\ Still(b, c) /\ Native(c)
         /\ (Core(b) => Core(c)) /\ (Rollback(b) => Rollback(c)) /\ (Stepping(b) => Stepping(c))
         /\ (Heavy(b) => Heavy(c))
<1>1. Unique(c) /\ Owned(c) BY DEF Form, Unique, Owned, Laden
<1>2. o.seq # 0 BY DEF Form, Typed, Page, Operation
<1>3. \A u \in b.timers : u.kind = "native" => u.op # t.op BY DEF Form, Natives
<1>4. Natives(c)
  <2>1. \A u, v \in c.timers : u.kind = "native" /\ v.kind = "native" /\ u.op = v.op => u = v
    BY <1>3 DEF Form, Natives, Laden
  <2>2. \A u \in c.timers : u.kind = "native" => u.rec # NoUrl /\ u.op # 0 /\ (u.op = c.active => c.carrier = u.op)
    BY <1>2 DEF Form, Natives, Laden
  <2>3. ASSUME NEW x \in c.ops, x.seq = c.carrier PROVE x.rec # NoUrl
    BY <2>3 DEF Form, Unique, Laden
  <2>4. t \in c.timers BY DEF Laden
  <2>5. c.carrier = t.op BY DEF Laden
  <2> QED BY <2>1, <2>2, <2>3, <2>4, <2>5 DEF Natives
<1>5. RealOps(c) /\ RealTimers(c) /\ RealHistory(c) /\ RealRecoveries(c) /\ RealPrompts(c)
  BY DEF Form, RealOps, RealTimers, RealHistory, RealRecoveries, RealPrompts, Laden
<1>6. Still(b, c) BY DEF Still, Onward, Off, NoReturn, Lone, Recent, Laden
<1>7. Native(c) BY DEF Native, Laden
<1>8. ASSUME Core(b) PROVE Core(c)
  <2>1. Single(c) /\ Repeating(c) /\ Interrupted(c) /\ Prompting(c)
    BY <1>8 DEF Core, Single, Repeating, Interrupted, Prompting, Unasked, Laden
  <2>2. Posting(c) BY <1>8 DEF Core, Posting, Laden
  <2>3. Scrolled(c) BY <1>8 DEF Core, Scrolled, Ours, Laden
  <2> QED BY <2>1, <2>2, <2>3 DEF Core
<1>9. (Rollback(b) => Rollback(c)) /\ (Stepping(b) => Stepping(c)) BY DEF Rollback, Stepping, Laden
<1>10. Heavy(b) => Heavy(c) BY DEF Heavy, Ours, Laden
<1> QED BY <1>1, <1>4, <1>5, <1>6, <1>7, <1>8, <1>9, <1>10 DEF Form

LEMMA AuxiliaryClickTracks ==
  ASSUME Kept, AuxiliaryClick
  PROVE  Tracked(page', due', server')
<1>0. /\ server \in Nat /\ server' = server /\ Unprompted /\ Form(page) /\ due' = due
      /\ page.life = "active" /\ Kind(page) # "post" /\ Rec(page) # NoUrl
  BY DEF Kept, Inv, AuxiliaryClick, Listening, Act, Free, Tracked
<1>1. PICK p : p = Outdate(page) OBVIOUS
<1>2. /\ Form(p) /\ Aged(page, p) /\ Still(page, p) /\ Kind(p) = Kind(page) /\ Rec(p) = Rec(page)
      /\ Awake(page) => Steady(p)
      /\ Awake(page) /\ page.shown.version < due => Heavy(p) /\ Promised(p)
  BY <1>0, <1>1, OutdatedIs
<1>3. PICK b : b = Superseded(p) OBVIOUS
<1>4. /\ Form(b) /\ Still(p, b) /\ b.active = p.active /\ b.carrier = p.carrier
      /\ Rec(b) = Rec(p)
      /\ (Core(p) => Core(b)) /\ (Rollback(p) => Rollback(b)) /\ (Stepping(p) => Stepping(b))
      /\ (Heavy(p) => Heavy(b))
  BY <1>0, <1>2, <1>3, SupersededIs
<1>5. Still(page, b) BY <1>2, <1>4, StillTrans
<1>6. PICK x \in b.ops : x.seq = b.active /\ x.rec # NoUrl
  <2>1. Rec(b) # NoUrl BY <1>0, <1>2, <1>4
  <2> QED BY <1>4, <2>1, RecIs DEF Form
<1>7. PICK o \in Active(page) :
        page' = IF page.carrier = o.seq THEN b
                ELSE [b EXCEPT !.carrier = o.seq, !.timers = @ \cup {Timer("native", o.seq, 0, o.truth, o.rec)}]
  BY <1>1, <1>3 DEF AuxiliaryClick
<1>8. /\ o \in Operation /\ o.seq = b.active /\ o.seq \in Nat /\ o.truth \in Link /\ o.rec \in Link
      /\ o.truth # NoUrl /\ o.rec # NoUrl
  <2>1. o \in page.ops /\ o.seq = page.active BY DEF Active
  <2>2. o \in Operation /\ o.seq \in Nat /\ o.truth \in Link /\ o.rec \in Link
    BY <1>0, <2>1 DEF Form, Typed, Page, Operation
  <2>3. o.truth # NoUrl BY <1>0, <2>1 DEF Form, RealOps
  <2>4. o.rec # NoUrl BY <1>0, <2>1, ActiveIs DEF Form
  <2>5. b.active = page.active BY <1>2, <1>4 DEF Aged
  <2> QED BY <2>1, <2>2, <2>3, <2>4, <2>5
<1>9. PICK c : c = page' OBVIOUS
<1>10. /\ Form(c) /\ Still(b, c) /\ Native(c)
       /\ (Core(b) => Core(c)) /\ (Rollback(b) => Rollback(c)) /\ (Stepping(b) => Stepping(c))
       /\ (Heavy(b) => Heavy(c))
  <2>1. CASE page.carrier = o.seq
    <3>1. c = b BY <1>7, <1>9, <2>1
    <3>2. b.carrier = b.active BY <1>2, <1>4, <1>8, <2>1 DEF Aged, Carries
    <3>3. Native(b) BY <1>6, <3>2 DEF Native
    <3>4. Still(b, b) BY DEF Still, Onward, Recent
    <3> QED BY <1>4, <3>1, <3>3, <3>4
  <2>2. CASE page.carrier # o.seq
    <3>1. PICK t \in TimerRecord : t = Timer("native", o.seq, 0, o.truth, o.rec) BY <1>8 DEF Timer, TimerRecord, Link
    <3>2. /\ t.kind = "native" /\ t.op = b.active /\ t.current /\ t.rec # NoUrl /\ t.url # NoUrl
      BY <1>8, <3>1 DEF Timer
    <3>3. PICK n \in Nat : n = o.seq BY <1>8
    <3>4. c = [b EXCEPT !.carrier = n, !.timers = @ \cup {t}] BY <1>7, <1>9, <2>2, <3>1, <3>3
    <3>5. Typed(c) /\ Laden(b, c, t)
      <4>1. n = b.active BY <1>8, <3>3
      <4> QED BY <1>4, <3>4, <4>1, LadenIs DEF Form
    <3>6. b.carrier # b.active BY <1>2, <1>4, <1>8, <2>2 DEF Aged, Carries
    <3> QED BY <1>4, <1>6, <3>2, <3>5, <3>6, LadenKeeps
  <2> QED BY <2>1, <2>2
<1>11. Still(page, c) BY <1>5, <1>10, StillTrans
<1>12. Awake(c) => Awake(page) /\ c.shown = page.shown BY <1>11 DEF Still, Onward, Awake
<1>13. Awake(c) => Steady(c) BY <1>2, <1>4, <1>10, <1>12 DEF Steady
<1>14. Awake(c) /\ c.shown.version < due => Heavy(c) /\ Holder(c) BY <1>2, <1>4, <1>10, <1>12 DEF Holder
<1>15. Tracked(page, due, server) BY DEF Kept
<1>16. Tracked(c, due, server) BY <1>0, <1>10, <1>11, <1>13, <1>14, <1>15, StillTracked
<1> QED BY <1>0, <1>9, <1>16

LEMMA SubmitTracks ==
  ASSUME Kept, Submit
  PROVE  Tracked(page', due', server')
<1>0. /\ server \in Nat /\ server' = server /\ Unprompted /\ Form(page) /\ due' = due
      /\ page.life = "active" /\ Kind(page) # "post"
  BY DEF Kept, Inv, Submit, Listening, Act, Free, Tracked
<1>1. PICK p : p = Outdate(page) OBVIOUS
<1>2. /\ Form(p) /\ Aged(page, p) /\ Still(page, p) /\ Kind(p) = Kind(page) /\ Rec(p) = Rec(page)
      /\ Awake(page) => Steady(p)
      /\ Awake(page) /\ page.shown.version < due => Heavy(p) /\ Promised(p)
      /\ \A t \in p.timers : t.kind # "traversal" => t.late
  BY <1>0, <1>1, OutdatedIs
<1>3. PICK s : s = Superseded(p) OBVIOUS
<1>4. /\ Form(s) /\ Still(p, s) /\ ~s.traversing /\ s.timers = p.timers /\ s.life = p.life
      /\ (Core(p) => Core(s)) /\ (Rollback(p) => Rollback(s)) /\ (Stepping(p) => Stepping(s))
      /\ (Heavy(p) => Heavy(s))
  BY <1>0, <1>2, <1>3, SupersededIs
<1>5. PICK b : b = IF ~page.traversing THEN p
                   ELSE IF Rec(page) = NoUrl THEN s
                   ELSE Observe(s, Observer(s, "fallback", FALSE, 0, Rec(page)))
  OBVIOUS
<1>6. /\ Form(b) /\ Still(p, b) /\ ~b.traversing /\ b.timers = p.timers /\ b.life = p.life
      /\ (Core(p) => Core(b)) /\ (Rollback(p) => Rollback(b)) /\ (Stepping(p) => Stepping(b))
      /\ (Heavy(p) => Heavy(b))
  <2>1. CASE ~page.traversing
    <3>1. b = p /\ ~p.traversing BY <1>2, <1>5, <2>1 DEF Aged, Carries
    <3>2. Still(p, p) BY DEF Still, Onward, Recent
    <3> QED BY <1>2, <3>1, <3>2
  <2>2. CASE page.traversing /\ Rec(page) = NoUrl
    <3>1. b = s BY <1>5, <2>2
    <3> QED BY <1>4, <3>1
  <2>3. CASE page.traversing /\ Rec(page) # NoUrl
    <3>1. PICK g \in Link : g = Rec(page) /\ g # NoUrl BY <1>0, <2>3, ActiveIs DEF Form
    <3>2. PICK no \in BOOLEAN : no = FALSE OBVIOUS
    <3>3. PICK x : x = Observer(s, "fallback", no, 0, g) OBVIOUS
    <3>4. x \in ObserverRecord /\ x.kind = "fallback" /\ x.rec = g /\ x.truth # NoUrl
      <4>1. no \in BOOLEAN /\ 0 \in Nat /\ "fallback" \in {"fallback", "traversal", "staged", "close"} OBVIOUS
      <4> QED BY <1>4, <3>3, <4>1, WatcherIs
    <3>5. b = Observe(s, x) BY <1>5, <2>3, <3>1, <3>2, <3>3
    <3>6. /\ Form(b) /\ Still(s, b) /\ Undisturbed(s, b)
          /\ (Core(s) => Core(b)) /\ (Rollback(s) => Rollback(b)) /\ (Stepping(s) => Stepping(b))
          /\ (Heavy(s) => Heavy(b))
      BY <1>4, <3>1, <3>4, <3>5, WatchedIs
    <3>7. ~b.traversing /\ b.timers = p.timers /\ b.life = p.life BY <1>4, <3>6 DEF Undisturbed
    <3>8. Still(p, b) BY <1>4, <3>6, StillTrans
    <3> QED BY <1>4, <3>6, <3>7, <3>8
  <2> QED BY <2>1, <2>2, <2>3
<1>7. PICK no \in BOOLEAN : no = FALSE OBVIOUS
<1>8. PICK o : o = Op(b, "post", NoUrl, no, 0, NoUrl) OBVIOUS
<1>9. o \in Operation /\ o.seq = FreshSeq(b) /\ o.kind = "post" /\ o.rec = NoUrl /\ o.truth # NoUrl /\ ~o.aborted
      /\ o.began = server
  <2>1. no \in BOOLEAN /\ 0 \in Nat /\ NoUrl \in Link /\ "post" \in {"nav", "post", "wait", "idle"} BY DEF Link
  <2> QED BY <1>0, <1>6, <1>8, <2>1, NewOpIs
<1>10. PICK c : c = page' OBVIOUS
<1>11. c = Begin(b, o) BY <1>1, <1>3, <1>5, <1>7, <1>8, <1>10 DEF Submit
<1>12. Proper(o) BY <1>9 DEF Proper
<1>13. Form(c) /\ Begun(b, c, o) BY <1>6, <1>9, <1>11, <1>12, BeginIs
<1>14. Still(page, c)
  <2>1. Still(b, c) BY <1>9, <1>13, StillBegun
  <2>2. Still(page, b) BY <1>2, <1>6, StillTrans
  <2> QED BY <2>1, <2>2, StillTrans
<1>15. Inherits(b, o) /\ Postable(b, o)
  BY <1>0, <1>2, <1>6 DEF Inherits, Postable, Aged, Carries
<1>16. /\ (Calm(b) => Core(c)) /\ (Rollback(b) => Rollback(c)) /\ (Stepping(b) => Stepping(c))
       /\ (Heavy(b) => Heavy(c))
  BY <1>6, <1>9, <1>12, <1>13, <1>15, BeginCore
<1>17. Submitted(c) BY <1>9, <1>13 DEF Submitted, Begun
<1>18. Awake(c) => Awake(page) /\ c.shown = page.shown BY <1>14 DEF Still, Onward, Awake
<1>19. Core(b) => Calm(b) BY DEF Core, Calm
<1>20. Awake(c) => Steady(c) BY <1>2, <1>6, <1>16, <1>18, <1>19 DEF Steady
<1>21. Awake(c) /\ c.shown.version < due => Heavy(c) /\ Holder(c) BY <1>2, <1>6, <1>16, <1>17, <1>18 DEF Holder
<1>22. Tracked(page, due, server) BY DEF Kept
<1>23. Tracked(c, due, server) BY <1>0, <1>13, <1>14, <1>20, <1>21, <1>22, StillTracked
<1> QED BY <1>0, <1>10, <1>23

\* b, with its traversal to be repeated after a delay
Delays(b, c, l) ==
  /\ c.ops = b.ops /\ c.active = b.active /\ c.timers = b.timers
  /\ c.entries = b.entries /\ c.cur = b.cur /\ c.shown = b.shown /\ c.truthUrl = b.truthUrl
  /\ c.carrier = b.carrier
  /\ c.traversing = b.traversing /\ c.traversal = b.traversal /\ c.recovering
  /\ c.mutationRecovery = b.mutationRecovery /\ c.pushRecovery = b.pushRecovery
  /\ c.supersession = b.supersession /\ c.life = b.life /\ c.departure = b.departure
  /\ c.observers = b.observers /\ c.prompted = b.prompted
  /\ c.jumps = b.jumps /\ c.leaving = b.leaving /\ c.lapsed = l

LEMMA DelaysIs ==
  ASSUME NEW b, Form(b), NEW l \in BOOLEAN, b.lapsed => l, NEW yes \in BOOLEAN, yes,
         NEW c, c = [b EXCEPT !.recovering = yes, !.lapsed = l]
  PROVE  Form(c) /\ Delays(b, c, l) /\ Still(b, c)
<1>1. b \in Page BY DEF Form, Typed
<1>2. c \in Page BY <1>1, ZenonT(60) DEF Page
<1>3. Delays(b, c, l) BY <1>1 DEF Delays, Page
<1>4. Typed(c) BY <1>2, <1>3 DEF Form, Typed, Delays
<1>5. Unique(c) /\ Owned(c) /\ Natives(c) BY <1>3 DEF Form, Unique, Owned, Natives, Delays
<1>6. RealOps(c) /\ RealTimers(c) /\ RealHistory(c) /\ RealRecoveries(c) /\ RealPrompts(c)
  BY <1>3 DEF Form, RealOps, RealTimers, RealHistory, RealRecoveries, RealPrompts, Delays
<1>7. Still(b, c) BY <1>3 DEF Still, Onward, Off, NoReturn, Lone, Recent, Delays
<1> QED BY <1>3, <1>4, <1>5, <1>6, <1>7 DEF Form

LEMMA ScrollTracks ==
  ASSUME Kept, Scroll
  PROVE  Tracked(page', due', server')
<1>0. /\ server \in Nat /\ server' = server /\ Unprompted /\ Form(page) /\ Base(page)
      /\ due' = (IF Kind(page) = "post" THEN server ELSE due)
      /\ page.life = "active" /\ page.traversing /\ page.active # 0
  BY DEF Kept, Inv, Sound, Scroll, Act, Free, Tracked
<1>1. Typed(page) /\ Unique(page) /\ Owned(page) /\ page \in Page BY <1>0 DEF Form, Typed
<1>2. PICK x \in page.ops : x.seq = page.active /\ Rec(page) = x.rec /\ Kind(page) = x.kind
  BY <1>0, <1>1, RecIs
<1>3. \A o \in page.ops : o.seq = page.active => o.rec = Rec(page) BY <1>2, <1>1 DEF Unique
<1>4. Awake(page) => Kind(page) # "post"
  BY <1>0, <1>2 DEF Kept, Tracked, Steady, Core, Posting
<1>5. PICK q : q = Abort(page) OBVIOUS
<1>6. /\ Form(q) /\ Others(page, q) /\ q.active = page.active /\ q.traversing = page.traversing
      /\ \A o \in q.ops : \E y \in page.ops : Kin(o, y)
      /\ (Awake(page) => Core(q)) /\ (Rollback(page) => Rollback(q)) /\ (Stepping(page) => Stepping(q))
  BY <1>0, <1>4, <1>5, AbortIs, AbortCore DEF Kept, Tracked, Steady
<1>7. PICK g \in Link : g = Rec(page) BY <1>1, ActiveIs
<1>8. PICK l \in BOOLEAN : l = (q.lapsed \/ (page.pushRecovery # {} /\ Rec(page) # NoUrl)) OBVIOUS
<1>9. PICK yes \in BOOLEAN : yes = TRUE OBVIOUS
<1>10. PICK w : w = [q EXCEPT !.recovering = yes, !.lapsed = l] OBVIOUS
<1>11. Form(w) /\ Delays(q, w, l) /\ Still(q, w)
  <2>1. l \in BOOLEAN /\ yes \in BOOLEAN /\ yes /\ (q.lapsed => l) BY <1>8, <1>9
  <2> QED BY <1>6, <1>10, <2>1, DelaysIs
<1>12. PICK v : v = page.traversal OBVIOUS
<1>13. PICK t \in TimerRecord : t = Timer("traversal", 0, v, NoUrl, g)
  <2>1. v \in Nat BY <1>1, <1>12 DEF Page
  <2> QED BY <2>1 DEF Timer, TimerRecord, Link
<1>14. t.kind = "traversal" /\ t.trav = v /\ t.rec = g BY <1>13 DEF Timer
<1>15. PICK c : c = [w EXCEPT !.timers = @ \cup {t}] OBVIOUS
<1>16. c = page'
  <2>1. q \in Page BY <1>6 DEF Form, Typed
  <2>2. page' = [q EXCEPT !.recovering = TRUE,
                           !.lapsed = @ \/ (page.pushRecovery # {} /\ Rec(page) # NoUrl),
                           !.timers = @ \cup {t}]
    BY <1>5, <1>7, <1>12, <1>13 DEF Scroll
  <2> QED BY <1>8, <1>9, <1>10, <1>15, <2>1, <2>2 DEF Page
<1>17. /\ Form(c) /\ Timed(w, c, t) /\ Still(w, c) /\ (Rollback(w) => Rollback(c)) /\ (Stepping(w) => Stepping(c))
       /\ (g # NoUrl => (Heavy(w) => Heavy(c)))
  BY <1>11, <1>14, <1>15, TimedIs, TimedKeeps DEF Form
<1>18. Still(page, c)
  <2>1. Still(page, q) BY <1>6, StillOthers DEF Descend
  <2>2. Still(page, w) BY <1>11, <2>1, StillTrans
  <2> QED BY <1>17, <2>2, StillTrans
<1>19. Awake(c) => Awake(page) /\ c.shown = page.shown BY <1>18 DEF Still, Onward, Awake
<1>20. /\ c.ops = q.ops /\ c.active = page.active /\ c.timers = page.timers \cup {t} /\ c.entries = page.entries
       /\ c.cur = page.cur /\ c.traversing /\ c.recovering /\ c.traversal = page.traversal
       /\ c.mutationRecovery = page.mutationRecovery /\ c.pushRecovery = page.pushRecovery
       /\ c.supersession = page.supersession /\ c.life = page.life /\ c.departure = page.departure
       /\ c.observers = page.observers /\ c.prompted = page.prompted /\ c.jumps = page.jumps /\ c.lapsed = l
  BY <1>0, <1>6, <1>11, <1>17 DEF Timed, Delays, Others
<1>21. \A o \in c.ops : o.seq = c.active => o.rec = Rec(page)
  <2> SUFFICES ASSUME NEW o \in c.ops, o.seq = c.active PROVE o.rec = Rec(page) OBVIOUS
  <2>1. PICK y \in page.ops : Kin(o, y) BY <1>6, <1>20
  <2> QED BY <1>3, <1>20, <2>1 DEF Kin
<1>22. ASSUME Awake(c) PROVE Steady(c)
  <2>1. Awake(page) /\ Core(q) BY <1>6, <1>19, <1>22
  <2>2. page.pushRecovery = {}
    <3> SUFFICES ASSUME page.pushRecovery # {} PROVE FALSE OBVIOUS
    <3>1. Rec(page) # NoUrl BY <1>0, <1>2, <2>1 DEF Kept, Tracked, Steady, Rollback
    <3> QED BY <1>8, <1>20, <1>22, <3>1 DEF Awake, Off
  <2>3. Single(c) BY <2>1, <1>6, <1>20 DEF Core, Single
  <2>4. Repeating(c) BY <1>20 DEF Repeating
  <2>5. Posting(c)
    <3>1. \A o \in q.ops : o.seq = q.active => o.kind # "post"
      <4>1. \A o \in q.ops : o.seq = q.active /\ o.kind = "post" => ~q.traversing BY <2>1 DEF Core, Posting
      <4> QED BY <1>0, <1>6, <4>1
    <3> QED BY <1>6, <1>20, <3>1 DEF Posting
  <2>6. Interrupted(c) BY <1>0, <1>20, <2>1 DEF Kept, Tracked, Steady, Core, Interrupted
  <2>7. Scrolled(c)
    <3> SUFFICES ASSUME NEW u \in c.timers, Ours(c, u), u.rec # NoUrl, NEW o \in c.ops, o.seq = c.active PROVE o.rec # NoUrl
      BY <1>20 DEF Scrolled
    <3>1. CASE u = t BY <1>7, <1>14, <1>21, <3>1
    <3>2. CASE u \in page.timers
      <4>1. Ours(page, u) BY <1>20 DEF Ours
      <4>2. x.rec # NoUrl BY <1>2, <2>1, <3>2, <4>1 DEF Kept, Tracked, Steady, Core, Scrolled
      <4> QED BY <1>2, <1>21, <4>2
    <3> QED BY <1>20, <3>1, <3>2
  <2>8. Prompting(c) BY <1>20, <2>1 DEF Kept, Tracked, Steady, Core, Prompting, Unasked
  <2>9. Rollback(c) BY <1>20, <2>2 DEF Rollback
  <2>10. Stepping(c)
    <3>1. Stepping(q) BY <1>6, <2>1 DEF Kept, Tracked, Steady
    <3>2. Stepping(w) BY <1>11, <3>1 DEF Delays, Stepping
    <3> QED BY <1>17, <3>2
  <2> QED BY <2>3, <2>4, <2>5, <2>6, <2>7, <2>8, <2>9, <2>10 DEF Steady, Core
<1>23. ASSUME Awake(c), c.shown.version < due PROVE Heavy(c) /\ Holder(c)
  <2>1. Awake(page) /\ Heavy(page) /\ Holder(page) /\ Steady(page) BY <1>19, <1>23 DEF Kept, Tracked
  <2>2. Promised(page)
    <3>1. Loose(page) /\ Carried(page) BY <1>0 DEF Unprompted, Loose, Base
    <3> QED BY <1>0, <2>1, <3>1, HolderPromised
  <2>3. g # NoUrl
    <3>1. CASE Delayed(page)
      <4>1. PICK u \in page.timers : Ours(page, u) BY <3>1 DEF Delayed
      <4>2. u.rec # NoUrl BY <2>1, <4>1 DEF Heavy
      <4> QED BY <1>2, <1>7, <2>1, <4>1, <4>2 DEF Steady, Core, Scrolled
    <3>2. CASE Stepped(page)
      <4>1. page.mutationRecovery = {} BY <1>0, <2>1 DEF Steady, Core, Interrupted
      <4>2. PICK r \in page.supersession : TRUE BY <3>2, <4>1 DEF Stepped
      <4>3. r.rec # NoUrl BY <2>1 DEF Heavy
      <4> QED BY <1>0, <1>2, <1>7, <2>1, <4>3 DEF Steady, Stepping
    <3>3. CASE \E o \in page.ops : o.seq = page.active /\ o.rec # NoUrl BY <1>3, <1>7, <3>3
    <3> QED BY <1>4, <2>1, <2>2, <3>1, <3>2, <3>3 DEF Promised
  <2>4. Heavy(w) BY <1>6, <1>11, <2>1 DEF Heavy, Ours, Delays, Others
  <2>5. Delayed(c) BY <1>12, <1>14, <1>20 DEF Delayed, Ours
  <2> QED BY <1>17, <2>3, <2>4, <2>5 DEF Holder
<1>24. Tracked(page, due, server) BY DEF Kept
<1>25. CASE Kind(page) = "post"
  <2>1. ~Awake(page) /\ ~Awake(c) BY <1>4, <1>19, <1>25
  <2>2. Tracked(c, server, server) BY <1>0, <1>17, <1>18, <1>24, <2>1, StillOwing
  <2> QED BY <1>0, <1>16, <1>25, <2>2
<1>26. CASE Kind(page) # "post"
  <2>1. Tracked(c, due, server) BY <1>0, <1>17, <1>18, <1>22, <1>23, <1>24, StillTracked
  <2> QED BY <1>0, <1>16, <1>26, <2>1
<1> QED BY <1>25, <1>26

\* all but the life is as it was
Lived(b, c, l) ==
  /\ c.ops = b.ops /\ c.active = b.active /\ c.timers = b.timers /\ c.carrier = b.carrier
  /\ c.entries = b.entries /\ c.cur = b.cur /\ c.shown = b.shown /\ c.truthUrl = b.truthUrl
  /\ c.traversing = b.traversing /\ c.traversal = b.traversal /\ c.recovering = b.recovering
  /\ c.mutationRecovery = b.mutationRecovery /\ c.pushRecovery = b.pushRecovery
  /\ c.supersession = b.supersession /\ c.life = l /\ c.departure = b.departure
  /\ c.observers = b.observers /\ c.prompted = b.prompted
  /\ c.jumps = b.jumps /\ c.leaving = b.leaving /\ c.lapsed = b.lapsed

LEMMA LivedIs ==
  ASSUME NEW b, Form(b), NEW l \in {"active", "closing", "closed"}, NEW c, c = [b EXCEPT !.life = l]
  PROVE  /\ Form(c) /\ Lived(b, c, l)
         /\ Core(b) /\ (l = "active" \/ Kind(b) # "post") => Core(c)
         /\ (Rollback(b) => Rollback(c)) /\ (Stepping(b) => Stepping(c)) /\ (Heavy(b) => Heavy(c))
<1>1. b \in Page /\ Typed(b) /\ Unique(b) BY DEF Form, Typed
<1>2. c \in Page BY <1>1 DEF Page
<1>3. Lived(b, c, l) BY <1>1 DEF Lived, Page
<1>4. Typed(c) BY <1>1, <1>2, <1>3 DEF Typed, Lived
<1>5. Unique(c) /\ Owned(c) /\ Natives(c) BY <1>3 DEF Form, Unique, Owned, Natives, Lived
<1>6. RealOps(c) /\ RealTimers(c) /\ RealHistory(c) /\ RealRecoveries(c) /\ RealPrompts(c)
  BY <1>3 DEF Form, RealOps, RealTimers, RealHistory, RealRecoveries, RealPrompts, Lived
<1>7. ASSUME Core(b), l = "active" \/ Kind(b) # "post" PROVE Core(c)
  <2>1. Single(c) /\ Repeating(c) /\ Interrupted(c) /\ Prompting(c)
    BY <1>3, <1>7 DEF Core, Single, Repeating, Interrupted, Prompting, Unasked, Lived
  <2>2. Kind(b) # "post" => \A o \in b.ops : o.seq = b.active => o.kind # "post" BY <1>1, ActiveIs
  <2>3. Posting(c) BY <1>3, <1>7, <2>2 DEF Core, Posting, Lived
  <2>4. Scrolled(c) BY <1>3, <1>7 DEF Core, Scrolled, Ours, Lived
  <2> QED BY <2>1, <2>3, <2>4 DEF Core
<1>8. (Rollback(b) => Rollback(c)) /\ (Stepping(b) => Stepping(c)) /\ (Heavy(b) => Heavy(c))
  BY <1>3 DEF Rollback, Stepping, Heavy, Ours, Lived
<1> QED BY <1>3, <1>4, <1>5, <1>6, <1>7, <1>8 DEF Form

LEMMA CloseTracks ==
  ASSUME Kept, Close
  PROVE  Tracked(page', due', server')
<1>0. /\ server \in Nat /\ server' = server /\ Unprompted /\ Form(page) /\ Base(page)
      /\ due' = (IF Kind(page) = "post" THEN server ELSE due) /\ page.life = "active"
  BY DEF Kept, Inv, Sound, Close, Act, Free, Tracked
<1>1. PICK p : p = Outdate(page) OBVIOUS
<1>2. /\ Form(p) /\ Aged(page, p) /\ Still(page, p) /\ Kind(p) = Kind(page) /\ Rec(p) = Rec(page) /\ Loose(p)
      /\ Awake(page) => Steady(p)
      /\ Awake(page) /\ page.shown.version < due => Heavy(p) /\ Promised(p)
      /\ Base(p)
  BY <1>0, <1>1, OutdatedIs
<1>3. PICK b : b = Abort(p) OBVIOUS
<1>4. /\ Form(b) /\ Others(p, b) /\ Still(p, b) /\ Kind(b) = Kind(p)
      /\ (Core(p) /\ Kind(p) # "post" => Core(b)) /\ (Rollback(p) => Rollback(b)) /\ (Stepping(p) => Stepping(b))
      /\ (Heavy(p) => Heavy(b))
  <2>1. Form(b) /\ Others(p, b) /\ \A o \in b.ops : \E x \in p.ops : Kin(o, x) BY <1>2, <1>3, AbortIs
  <2>2. Still(p, b) BY <2>1, StillOthers DEF Descend
  <2>3. Heavy(p) => Heavy(b) BY <2>1 DEF Heavy, Ours, Others
  <2> QED BY <1>2, <1>3, <2>1, <2>2, <2>3, AbortCore
<1>5. Still(page, b) BY <1>2, <1>4, StillTrans
<1>6. PICK c : c = page' OBVIOUS
<1>7. Tracked(page, due, server) BY DEF Kept
<1>8. ~b.lapsed => ~Off(page)
  <2>1. b.lapsed = page.lapsed BY <1>2, <1>4 DEF Aged, Carries, Others
  <2> QED BY <1>0, <2>1 DEF Off
<1>9. b.life = "active" /\ b.prompted = <<>> BY <1>0, <1>2, <1>4 DEF Aged, Carries, Others, Loose
<1>10. \A x \in Elements(b.observers) : x.kind # "close"
  <2>1. \A x \in Elements(p.observers) : x.kind # "close" BY <1>2 DEF Base, Closing, Loose
  <2> QED BY <1>4, <2>1 DEF Others
<1>11. CASE ~page.traversing /\ Kind(page) # "post" /\ Rec(page) = NoUrl
  <2>1. PICK l \in {"active", "closing", "closed"} : l = "closed" OBVIOUS
  <2>2. c = [b EXCEPT !.life = l] BY <1>1, <1>3, <1>6, <1>11, <2>1 DEF Close
  <2>3. Form(c) /\ Lived(b, c, l) BY <1>4, <2>2, LivedIs
  <2>4. Off(c) BY <2>1, <2>3 DEF Lived, Off
  <2>5. Still(b, c) BY <2>3, <2>4 DEF Still, Onward, Lone, Recent, Lived
  <2>6. Still(page, c) BY <1>5, <2>5, StillTrans
  <2>7. Tracked(c, due, server) BY <1>0, <1>7, <2>3, <2>4, <2>6, StillTracked DEF Awake
  <2> QED BY <1>0, <1>6, <1>11, <2>7
<1>12. CASE ~(~page.traversing /\ Kind(page) # "post" /\ Rec(page) = NoUrl)
  <2>1. PICK l \in {"active", "closing", "closed"} : l = "closing" OBVIOUS
  <2>2. PICK w : w = [b EXCEPT !.life = l] OBVIOUS
  <2>3. /\ Form(w) /\ Lived(b, w, l)
        /\ Core(b) /\ Kind(b) # "post" => Core(w)
        /\ (Rollback(b) => Rollback(w)) /\ (Stepping(b) => Stepping(w)) /\ (Heavy(b) => Heavy(w))
    BY <1>4, <2>2, LivedIs
  <2>4. PICK g \in Link : g = Rec(page) BY <1>0, ActiveIs DEF Form
  <2>5. PICK yes \in BOOLEAN : yes = TRUE OBVIOUS
  <2>6. PICK x : x = Observer(b, "close", yes, 0, g) OBVIOUS
  <2>7. x \in ObserverRecord /\ x.kind = "close" /\ x.rec = g /\ x.truth # NoUrl /\ x.truth = b.truthUrl /\ x.sel = Href(b)
    <3>1. yes \in BOOLEAN /\ 0 \in Nat /\ "close" \in {"fallback", "traversal", "staged", "close"} OBVIOUS
    <3> QED BY <1>4, <2>6, <3>1, WatcherIs
  <2>8. PICK h \in Link : h = Href(b) /\ h # NoUrl
    <3>1. Href(b) \in Link BY <1>4, CurrentIs DEF Form
    <3> QED BY <1>4, <3>1 DEF Form, Typed, RealHistory, Href, Current
  <2>9. c = Depart(Observe(w, x), h) BY <1>1, <1>3, <1>6, <1>12, <2>1, <2>2, <2>4, <2>5, <2>6, <2>8 DEF Close
  <2>10. PICK O : O = {x} OBVIOUS
  <2>11. Typed(c) /\ Asks(w, c, O) BY <2>3, <2>7, <2>8, <2>9, <2>10, AskIs DEF Form
  <2>12. /\ Form(c) /\ Unasked(c)
         /\ (Core(w) => Core(c)) /\ (Rollback(w) => Rollback(c)) /\ (Stepping(w) => Stepping(c))
         /\ g # NoUrl => (Heavy(w) => Heavy(c))
    BY <2>3, <2>7, <2>10, <2>11, AsksKeeps
  <2>13. Undisturbed(w, c) /\ Elements(c.observers) = Elements(w.observers) \cup {x} BY <2>10, <2>11 DEF Asks
  <2>14. Still(b, c)
    <3>1. Off(b) => Off(c) BY <1>9, <2>3, <2>13 DEF Off, Lived, Undisturbed
    <3>2. c.leaving = b.leaving /\ c.shown = b.shown /\ c.ops = b.ops BY <2>3, <2>13 DEF Lived, Undisturbed
    <3>3. c.departure # {} /\ Lone(c) BY <2>11 DEF Asks, Lone
    <3> QED BY <3>1, <3>2, <3>3 DEF Still, Onward, Recent
  <2>15. Still(page, c) BY <1>5, <2>14, StillTrans
  <2>16. Awake(c) => Awake(page) /\ c.shown = page.shown BY <2>15 DEF Still, Onward, Awake
  <2>17. ASSUME g = NoUrl PROVE ~Awake(c)
    <3>1. c.life = "closing" BY <2>1, <2>3, <2>13 DEF Lived, Undisturbed
    <3>2. Elements(c.prompted) = {} BY <1>9, <2>3, <2>13 DEF Lived, Undisturbed, Elements
    <3>3. NoReturn(c) BY <1>10, <2>3, <2>7, <2>13, <2>17, <3>2 DEF NoReturn, Lived
    <3> QED BY <3>1, <3>3 DEF Awake, Off
  <2>18. CASE g = NoUrl
    <3>1. Tracked(c, due, server) BY <1>0, <1>7, <2>12, <2>15, <2>17, <2>18, StillTracked
    <3>2. CASE Kind(page) = "post"
      <4>1. Awake(page) => \A o \in page.ops : o.kind = "nav" => o.aborted
        <5> SUFFICES ASSUME Awake(page), NEW o \in page.ops, o.kind = "nav", ~o.aborted PROVE FALSE OBVIOUS
        <5>1. o.seq = page.active BY DEF Kept, Tracked, Steady, Core, Single
        <5>2. Kind(page) = "nav" BY <1>0, <5>1, ActiveIs DEF Form
        <5> QED BY <3>2, <5>2
      <4>2. Tracked(c, server, server) BY <1>0, <1>7, <2>12, <2>15, <2>17, <2>18, <4>1, StillOwing
      <4> QED BY <1>0, <1>6, <3>2, <4>2
    <3>3. CASE Kind(page) # "post" BY <1>0, <1>6, <3>1, <3>3
    <3> QED BY <3>2, <3>3
  <2>19. CASE g # NoUrl
    <3>1. Kind(page) # "post"
      <4>1. Typed(page) /\ Unique(page) /\ Owned(page) BY <1>0 DEF Form
      <4>2. PICK o \in page.ops : Rec(page) = o.rec /\ Kind(page) = o.kind BY <2>4, <2>19, <4>1, RecIs
      <4> QED BY <1>0, <2>4, <2>19, <4>2 DEF Form, RealOps
    <3>2. Awake(c) => Steady(c) BY <1>2, <1>4, <2>3, <2>12, <2>16, <3>1 DEF Steady
    <3>3. Leaving(c)
      <4>1. x \in Elements(c.observers) /\ x.rec # NoUrl BY <2>7, <2>13, <2>19
      <4>2. c.life = "closing" /\ c.truthUrl = x.truth /\ Href(c) = x.sel
        BY <2>1, <2>3, <2>7, <2>13 DEF Lived, Undisturbed, Href, Current
      <4>3. Guard(c, x) BY <2>7, <4>2 DEF Guard
      <4> QED BY <2>12, <4>1, <4>3 DEF Leaving
    <3>4. Awake(c) /\ c.shown.version < due => Heavy(c) /\ Holder(c)
      BY <1>2, <1>4, <2>3, <2>12, <2>16, <2>19, <3>3 DEF Holder
    <3>5. Tracked(c, due, server) BY <1>0, <1>7, <2>12, <2>15, <3>2, <3>4, StillTracked
    <3> QED BY <1>0, <1>6, <3>1, <3>5
  <2> QED BY <2>18, <2>19
<1> QED BY <1>11, <1>12

-----------------------------------------------------------------------------
(* The server, and the operations that end unheard.                        *)

LEMMA SwapIs ==
  ASSUME NEW b, Typed(b), NEW o, NEW u \in Operation, NEW X, X = (b.ops \ {o}) \cup {u}
  PROVE  X \in SUBSET Operation /\ IsFiniteSet(X) /\ \A x : x \in X <=> (x \in b.ops /\ x # o) \/ x = u
<1>0. b.ops \subseteq Operation /\ IsFiniteSet(b.ops) BY DEF Typed, Page
<1>1. PICK Y : Y = b.ops \ {o} OBVIOUS
<1>2. IsFiniteSet(Y) BY <1>0, <1>1, FS_Subset
<1>3. IsFiniteSet(Y \cup {u}) BY <1>2, FS_AddElement
<1> QED BY <1>0, <1>1, <1>3

\* one operation is marked, or becomes a placeholder
LEMMA SwappedIs ==
  ASSUME NEW b, Form(b), NEW o \in b.ops, NEW u \in Operation, Kin(u, o),
         \/ u.kind = o.kind /\ u.aborted = o.aborted
         \/ u.kind = "idle" /\ u.aborted /\ o.aborted /\ o.seq = b.active /\ o.kind = "wait",
         NEW X \in SUBSET Operation, IsFiniteSet(X), \A x : x \in X <=> (x \in b.ops /\ x # o) \/ x = u,
         NEW c, c = [b EXCEPT !.ops = X]
  PROVE  /\ Form(c) /\ Others(b, c) /\ Still(b, c) /\ c.active = b.active /\ c.ops = X
         /\ (Core(b) => Core(c)) /\ (Rollback(b) => Rollback(c)) /\ (Stepping(b) => Stepping(c))
         /\ (Heavy(b) => Heavy(c)) /\ (Holder(b) => Holder(c))
<1>0. Typed(b) /\ b.ops \subseteq Operation /\ IsFiniteSet(b.ops) /\ Unique(b) /\ b.traversing \in BOOLEAN
      /\ b.active \in Nat
  BY DEF Form, Typed, Page
<1>1. X \in SUBSET Operation /\ IsFiniteSet(X) OBVIOUS
<1>2. PICK w \in BOOLEAN : w = b.traversing BY <1>0
<1>3. c = Renewed(b, X, b.active, w) BY <1>0, <1>2, SameRenewed
<1>4. Typed(c) /\ Others(b, c) /\ c.ops = X /\ c.active = b.active /\ c.traversing = b.traversing
  <2>1. w \in BOOLEAN OBVIOUS
  <2>2. PICK d : d = Renewed(b, X, b.active, w) OBVIOUS
  <2>3. Typed(d) /\ Others(b, d) /\ d.ops = X /\ d.active = b.active /\ d.traversing = w
    BY <1>0, <1>1, <2>1, <2>2, RenewedIs
  <2>4. c = d BY <1>3, <2>2
  <2> QED BY <1>2, <2>3, <2>4
<1>5. \A x \in X : x \in b.ops \/ x = u OBVIOUS
<1>6. u.seq = o.seq BY DEF Kin
<1>7. Unique(c) BY <1>0, <1>4, <1>6 DEF Unique
<1>8. Owned(c) BY <1>4, <1>6 DEF Form, Owned
<1>9. Descend(c.ops, b.ops)
  <2> SUFFICES ASSUME NEW x \in X PROVE \E q \in b.ops : Kin(x, q) BY <1>4 DEF Descend
  <2>1. x \in b.ops => Kin(x, x) BY DEF Kin
  <2> QED BY <1>5, <2>1
<1>10. Form(c) BY <1>4, <1>7, <1>8, <1>9, OthersForm
<1>11. Still(b, c) BY <1>4, <1>9, StillOthers
<1>12. Core(b) => Core(c)
  <2> SUFFICES ASSUME Core(b) PROVE Core(c) OBVIOUS
  <2>1. Single(c) BY <1>4, <1>5, <1>6 DEF Core, Single
  <2>2. Repeating(c) BY <1>4 DEF Core, Repeating, Others
  <2>3. \A x \in c.ops : x.seq = b.active /\ x.kind = "post" /\ x.aborted => b.mutationRecovery # {} \/ c.active = 0
    BY <1>4, <1>5, <1>6 DEF Core, Posting
  <2> QED BY <1>4, <1>9, <2>1, <2>2, <2>3, OthersKeep
<1>13. (Rollback(b) => Rollback(c)) /\ (Stepping(b) => Stepping(c)) BY <1>4, <1>9, OthersKeep
<1>14. Heavy(b) => Heavy(c) BY <1>4 DEF Heavy, Ours, Others
<1>15. ASSUME Holder(b) PROVE Holder(c)
  <2>1. ASSUME Requested(b) PROVE Requested(c)
    <3>1. PICK x \in b.ops : x.seq = b.active /\ x.rec # NoUrl /\ ~x.aborted /\ Awaited(b, x) BY <2>1 DEF Requested
    <3>2. CASE x = o
      <4>1. u.kind = o.kind /\ ~u.aborted /\ u.rec # NoUrl BY <3>1, <3>2 DEF Kin
      <4>2. Awaited(c, u) BY <1>4, <1>6, <3>1, <3>2, <4>1 DEF Awaited, Others, Href, Current
      <4> QED BY <1>4, <1>6, <3>1, <3>2, <4>1, <4>2 DEF Requested
    <3>3. CASE x # o
      <4>1. Awaited(c, x) BY <1>4, <3>1 DEF Awaited, Others, Href, Current
      <4> QED BY <1>4, <3>1, <3>3, <4>1 DEF Requested
    <3> QED BY <3>2, <3>3
  <2>2. ASSUME Submitted(b) PROVE Submitted(c)
    <3>1. PICK x \in b.ops : x.seq = b.active /\ x.kind = "post" BY <2>2 DEF Submitted
    <3>2. x = o => u.kind = "post" BY <1>0, <3>1
    <3> QED BY <1>4, <1>6, <3>1, <3>2 DEF Submitted
  <2>3. ASSUME Native(b) PROVE Native(c)
    <3>1. PICK x \in b.ops : x.seq = b.active /\ x.seq = b.carrier BY <2>3 DEF Native
    <3> QED BY <1>4, <1>6, <3>1 DEF Native, Others
  <2>4. (Leaving(b) => Leaving(c)) /\ (Refused(b) => Refused(c))
    <3>1. \A x : Guard(b, x) => Guard(c, x) BY <1>4 DEF Guard, Others, Href, Current
    <3> QED BY <1>4, <3>1 DEF Leaving, Refused, Unasked, Others
  <2>5. (Delayed(b) => Delayed(c)) /\ (Stepped(b) => Stepped(c)) BY <1>4 DEF Delayed, Stepped, Ours, Others
  <2> QED BY <1>15, <2>1, <2>2, <2>3, <2>4, <2>5 DEF Holder
<1> QED BY <1>4, <1>10, <1>11, <1>12, <1>13, <1>14, <1>15

LEMMA ServeTracks ==
  ASSUME Kept, Serve
  PROVE  Tracked(page', due', server')
<1>0. server \in Nat /\ server' = server + 1 /\ due' = due /\ Form(page) BY DEF Kept, Inv, Tracked, Serve
<1>1. PICK c : c = page' OBVIOUS
<1>2. /\ Form(c) /\ Lone(c) /\ c.shown = page.shown /\ (Off(page) => Off(c)) /\ c.leaving = page.leaving
      /\ (page.departure # {} => c.departure # {})
      /\ \A x \in c.ops : \E q \in page.ops : x.began = q.began /\ x.aborted = q.aborted /\ x.kind = q.kind
      /\ (Core(page) => Core(c)) /\ (Rollback(page) => Rollback(c)) /\ (Stepping(page) => Stepping(c))
      /\ (Heavy(page) => Heavy(c)) /\ (Holder(page) => Holder(c))
  <2>1. CASE UNCHANGED page BY <1>0, <1>1, <2>1 DEF Kept, Tracked
  <2>2. CASE \E o \in page.ops : page' = [page EXCEPT !.ops = (@ \ {o}) \cup {[o EXCEPT !.served = TRUE]}]
    <3>1. PICK o \in page.ops : page' = [page EXCEPT !.ops = (@ \ {o}) \cup {[o EXCEPT !.served = TRUE]}] BY <2>2
    <3>2. o \in Operation /\ page \in Page BY <1>0 DEF Form, Typed, Page
    <3>3. PICK u : u = [o EXCEPT !.served = TRUE] OBVIOUS
    <3>4. u \in Operation /\ Kin(u, o) /\ u.kind = o.kind /\ u.aborted = o.aborted BY <3>2, <3>3 DEF Operation, Kin
    <3>5. PICK X : X = (page.ops \ {o}) \cup {u} OBVIOUS
    <3>6. c = [page EXCEPT !.ops = X] BY <1>1, <3>1, <3>2, <3>3, <3>5 DEF Page
    <3>9. X \in SUBSET Operation /\ IsFiniteSet(X) /\ \A x : x \in X <=> (x \in page.ops /\ x # o) \/ x = u
      <4>1. Typed(page) BY <1>0 DEF Form
      <4>2. u \in Operation BY <3>4
      <4> QED BY <3>5, <4>1, <4>2, SwapIs
    <3>7. /\ Form(c) /\ Still(page, c) /\ c.ops = X
          /\ (Core(page) => Core(c)) /\ (Rollback(page) => Rollback(c)) /\ (Stepping(page) => Stepping(c))
          /\ (Heavy(page) => Heavy(c)) /\ (Holder(page) => Holder(c))
      BY <1>0, <3>4, <3>6, <3>9, SwappedIs
    <3>8. \A x \in c.ops : \E q \in page.ops : x.began = q.began /\ x.aborted = q.aborted /\ x.kind = q.kind
      BY <3>4, <3>7, <3>9 DEF Kin
    <3> QED BY <3>7, <3>8 DEF Still, Onward, Kept, Tracked
  <2> QED BY <2>1, <2>2 DEF Serve
<1>3. Awake(c) => Awake(page) BY <1>2 DEF Awake
<1>4. Newest(page, due) => Newest(c, due) BY <1>2 DEF Newest
<1>5. due \in Nat /\ due <= server /\ page.shown.version \in Nat /\ page.shown.version <= server
      /\ \A q \in page.ops : q.began \in Nat /\ q.began <= server
  BY <1>0 DEF Kept, Tracked, Form, Typed, Page, Operation
<1>6. due <= server + 1 /\ c.shown.version <= server + 1 BY <1>0, <1>2, <1>5
<1>7. \A x \in c.ops : x.began <= server + 1 BY <1>0, <1>2, <1>5
<1>8. Awake(c) => Steady(c) /\ Newest(c, due) /\ (c.shown.version < due => Heavy(c) /\ Holder(c))
  BY <1>2, <1>3, <1>4 DEF Kept, Tracked, Steady
<1>9. c.leaving => c.departure # {} BY <1>2 DEF Kept, Tracked
<1>10. Tracked(c, due, server + 1) BY <1>2, <1>5, <1>6, <1>7, <1>8, <1>9 DEF Tracked
<1> QED BY <1>0, <1>1, <1>10

\* one operation ends, the active one or another
Dropped(b, X, v) == [b EXCEPT !.ops = X, !.active = v]

LEMMA DroppedIs ==
  ASSUME NEW b, Form(b), NEW o \in b.ops, NEW X \in SUBSET b.ops, \A x \in b.ops : x \in X <=> x # o,
         NEW v \in Nat, (v = b.active /\ o.seq # b.active) \/ (v = 0 /\ o.seq = b.active),
         NEW c, c = Dropped(b, X, v)
  PROVE  /\ Form(c) /\ Others(b, c) /\ Still(b, c) /\ c.active = v /\ c.ops = X
         /\ (Core(b) => Core(c)) /\ (Rollback(b) => Rollback(c)) /\ (Stepping(b) => Stepping(c))
         /\ (Heavy(b) => Heavy(c)) /\ (v = b.active /\ Holder(b) => Holder(c))
<1>0. Typed(b) /\ b.ops \subseteq Operation /\ IsFiniteSet(b.ops) /\ Unique(b) /\ b.traversing \in BOOLEAN
  BY DEF Form, Typed, Page
<1>1. X \in SUBSET Operation /\ IsFiniteSet(X) BY <1>0, FS_Subset
<1>2. PICK w \in BOOLEAN : w = b.traversing BY <1>0
<1>3. c = Renewed(b, X, v, w) BY <1>0, <1>2 DEF Dropped, Renewed, Typed, Page
<1>4. Typed(c) /\ Others(b, c) /\ c.ops = X /\ c.active = v /\ c.traversing = b.traversing
  <2>1. w \in BOOLEAN /\ v \in Nat OBVIOUS
  <2>2. PICK d : d = Renewed(b, X, v, w) OBVIOUS
  <2>3. Typed(d) /\ Others(b, d) /\ d.ops = X /\ d.active = v /\ d.traversing = w
    BY <1>0, <1>1, <2>1, <2>2, RenewedIs
  <2>4. c = d BY <1>3, <2>2
  <2> QED BY <1>2, <2>3, <2>4
<1>5. X \subseteq b.ops OBVIOUS
<1>6. Unique(c) BY <1>0, <1>4, <1>5 DEF Unique
<1>7. Owned(c)
  <2>1. CASE v = 0 BY <1>4, <2>1 DEF Owned
  <2>2. CASE v = b.active /\ o.seq # b.active BY <1>4, <2>2 DEF Form, Owned
  <2> QED BY <2>1, <2>2
<1>8. Descend(c.ops, b.ops) BY <1>4, <1>5 DEF Descend, Kin
<1>9. c.active \in {0, b.active} BY <1>4
<1>10. Form(c) BY <1>4, <1>6, <1>7, <1>8, <1>9, OthersForm
<1>11. Still(b, c) BY <1>4, <1>8, StillOthers
<1>12. Core(b) => Core(c)
  <2> SUFFICES ASSUME Core(b) PROVE Core(c) OBVIOUS
  <2>1. Single(c)
    <3> SUFFICES ASSUME NEW x \in X, ~x.aborted PROVE x.seq = v /\ x.kind # "held" BY <1>4 DEF Single
    <3>1. x \in b.ops /\ x # o /\ x.seq = b.active /\ x.kind # "held" BY <1>5 DEF Core, Single
    <3>2. o.seq # b.active BY <1>0, <3>1 DEF Unique
    <3> QED BY <3>1, <3>2
  <2>2. Repeating(c) BY <1>4 DEF Core, Repeating, Others
  <2>3. \A x \in c.ops : x.seq = b.active /\ x.kind = "post" /\ x.aborted => b.mutationRecovery # {} \/ c.active = 0
    BY <1>4, <1>5 DEF Core, Posting
  <2> QED BY <1>4, <1>8, <1>9, <2>1, <2>2, <2>3, OthersKeep
<1>13. (Rollback(b) => Rollback(c)) /\ (Stepping(b) => Stepping(c)) BY <1>4, <1>8, <1>9, OthersKeep
<1>14. Heavy(b) => Heavy(c) BY <1>4 DEF Heavy, Ours, Others
<1>15. ASSUME v = b.active, Holder(b) PROVE Holder(c)
  <2>0. \A x \in b.ops : x.seq = b.active => x \in X
    <3>1. CASE v = b.active /\ o.seq # b.active BY <3>1
    <3>2. CASE v = 0 /\ o.seq = b.active BY <1>0, <1>15, <3>2 DEF Operation
    <3> QED BY <3>1, <3>2
  <2>1. ASSUME Requested(b) PROVE Requested(c)
    <3>1. PICK x \in b.ops : x.seq = b.active /\ x.rec # NoUrl /\ ~x.aborted /\ Awaited(b, x) BY <2>1 DEF Requested
    <3>2. Awaited(c, x) BY <1>4, <3>1 DEF Awaited, Others, Href, Current
    <3> QED BY <1>4, <1>15, <2>0, <3>1, <3>2 DEF Requested
  <2>2. Submitted(b) => Submitted(c) BY <1>4, <1>15, <2>0 DEF Submitted
  <2>3. Native(b) => Native(c) BY <1>4, <1>15, <2>0 DEF Native, Others
  <2>4. (Leaving(b) => Leaving(c)) /\ (Refused(b) => Refused(c))
    <3>1. \A x : Guard(b, x) => Guard(c, x) BY <1>4 DEF Guard, Others, Href, Current
    <3> QED BY <1>4, <3>1 DEF Leaving, Refused, Unasked, Others
  <2>5. (Delayed(b) => Delayed(c)) /\ (Stepped(b) => Stepped(c)) BY <1>4 DEF Delayed, Stepped, Ours, Others
  <2> QED BY <1>15, <2>1, <2>2, <2>3, <2>4, <2>5 DEF Holder
<1> QED BY <1>4, <1>10, <1>11, <1>12, <1>13, <1>14, <1>15

\* c goes on from b with the recovery, whatever b had
Resumes(b, c) ==
  /\ Form(c) /\ Still(b, c)
  /\ (Core(b) => Core(c)) /\ (Rollback(b) => Rollback(c)) /\ (Stepping(b) => Stepping(c))
  /\ (Heavy(b) => Heavy(c)) /\ Holder(c)

LEMMA NavigateResumes ==
  ASSUME server \in Nat, NEW b, Form(b), NEW url \in Link, url # NoUrl, NEW replace \in BOOLEAN, NEW trav \in Nat,
         NEW rec \in Link, rec # NoUrl, Kind(b) # "post", NEW safe \in BOOLEAN
  PROVE  Resumes(b, Navigate(b, url, replace, trav, rec, safe))
<1>0. rec = IF rec # NoUrl THEN rec ELSE Rec(b) OBVIOUS
<1>1. PICK c : c = Navigate(b, url, replace, trav, rec, safe) OBVIOUS
<1>2. CASE b.life # "closed" /\ safe
  <2>1. Engaged(b, Navigate(b, url, replace, trav, rec, safe), rec) BY <1>0, <1>2, NavigateBegins
  <2>2. Engaged(b, c, rec) BY <1>1, <2>1
  <2>3. /\ Form(c) /\ Still(b, c) /\ Requested(c)
        /\ (Calm(b) => Core(c)) /\ (Rollback(b) => Rollback(c)) /\ (Stepping(b) => Stepping(c))
        /\ (Heavy(b) => Heavy(c))
    BY <2>2 DEF Engaged
  <2>4. Core(b) => Calm(b) BY DEF Core, Calm
  <2>5. Resumes(b, c) BY <2>3, <2>4 DEF Resumes, Holder
  <2> QED BY <1>1, <2>5
<1>3. CASE b.life = "closed" \/ ~safe
  <2>1. /\ Form(c) /\ Still(b, c)
        /\ (Core(b) => Core(c)) /\ (Rollback(b) => Rollback(c)) /\ (Stepping(b) => Stepping(c))
        /\ rec # NoUrl => (Heavy(b) => Heavy(c)) /\ Leaving(c)
    BY <1>0, <1>1, <1>3, NavigateLeaves
  <2>2. Resumes(b, c) BY <2>1 DEF Resumes, Holder
  <2> QED BY <1>1, <2>2
<1> QED BY <1>2, <1>3

LEMMA FallbackResumes ==
  ASSUME NEW b, Form(b), NEW url \in Link, url # NoUrl, NEW repair \in BOOLEAN, NEW rec \in Link, rec # NoUrl
  PROVE  Resumes(b, Fallback(b, url, repair, rec))
<1>1. PICK c : c = Fallback(b, url, repair, rec) OBVIOUS
<1>2. Away(b, Fallback(b, url, repair, rec), rec) BY FallbackAway
<1>3. Away(b, c, rec) BY <1>1, <1>2
<1>4. Resumes(b, c) BY <1>3 DEF Away, Resumes, Holder
<1> QED BY <1>1, <1>4

LEMMA ResumesTracked ==
  ASSUME Kept, NEW b, Still(page, b), Awake(page) => Steady(b), Heavy(page) => Heavy(b), NEW c, Resumes(b, c)
  PROVE  Tracked(c, due, server)
<1>1. server \in Nat /\ Tracked(page, due, server) BY DEF Kept, Inv
<1>2. Form(c) /\ Still(b, c) BY DEF Resumes
<1>3. Still(page, c) BY <1>2, StillTrans
<1>4. Awake(c) => Awake(page) /\ c.shown = page.shown BY <1>3 DEF Still, Onward, Awake
<1>5. Awake(c) => Steady(c) BY <1>4 DEF Resumes, Steady
<1>6. Awake(c) /\ c.shown.version < due => Heavy(c) /\ Holder(c) BY <1>1, <1>4 DEF Resumes, Tracked
<1> QED BY <1>1, <1>2, <1>3, <1>5, <1>6, StillTracked

LEMMA RecoveryTimerTracks ==
  ASSUME Kept, NEW o \in page.ops, RecoveryTimer(o)
  PROVE  Tracked(page', due', server')
<1>0. /\ server \in Nat /\ server' = server /\ due' = due /\ Form(page) /\ page \in Page
      /\ o \in Operation /\ o.kind = "wait" /\ Tracked(page, due, server)
  BY DEF Kept, Inv, Tracked, RecoveryTimer, Quietly, Form, Typed, Page
<1>1. o.rec \in Link /\ o.rec # NoUrl /\ o.url \in Link /\ o.url # NoUrl
  BY <1>0 DEF Form, RealOps, Operation
<1>2. PICK X \in SUBSET page.ops : \A x \in page.ops : x \in X <=> x # o
  <2>1. PICK Y : Y = page.ops \ {o} OBVIOUS
  <2> QED BY <2>1
<1>3. X = page.ops \ {o} BY <1>2
<1>4. PICK c : c = page' OBVIOUS
<1>5. CASE page.active # o.seq
  <2>1. PICK v \in Nat : v = page.active BY <1>0 DEF Page
  <2>2. c = Dropped(page, X, v) BY <1>0, <1>3, <1>4, <1>5, <2>1 DEF RecoveryTimer, Dropped, Page
  <2>3. /\ Form(c) /\ Still(page, c)
        /\ (Core(page) => Core(c)) /\ (Rollback(page) => Rollback(c)) /\ (Stepping(page) => Stepping(c))
        /\ (Heavy(page) => Heavy(c)) /\ (Holder(page) => Holder(c))
    BY <1>0, <1>2, <1>5, <2>1, <2>2, DroppedIs
  <2>4. Awake(c) => Awake(page) /\ c.shown = page.shown BY <2>3 DEF Still, Onward, Awake
  <2>5. Awake(c) => Steady(c) /\ (c.shown.version < due => Heavy(c) /\ Holder(c))
    BY <1>0, <2>3, <2>4 DEF Tracked, Steady
  <2>6. Tracked(c, due, server) BY <1>0, <2>3, <2>5, StillTracked
  <2> QED BY <1>0, <1>4, <2>6
<1>6. CASE page.active = o.seq /\ o.aborted
  <2>1. PICK u : u = [o EXCEPT !.kind = "idle"] OBVIOUS
  <2>2. u \in Operation /\ Kin(u, o) /\ u.kind = "idle" /\ u.aborted BY <1>0, <1>6, <2>1 DEF Operation, Kin
  <2>3. PICK Y : Y = (page.ops \ {o}) \cup {u} OBVIOUS
  <2>4. c = [page EXCEPT !.ops = Y] BY <1>0, <1>4, <1>6, <2>1, <2>3 DEF RecoveryTimer, Page
  <2>5. Y \in SUBSET Operation /\ IsFiniteSet(Y) /\ \A x : x \in Y <=> (x \in page.ops /\ x # o) \/ x = u
    <3>1. page.ops \in SUBSET Operation /\ IsFiniteSet(page.ops) BY <1>0 DEF Form, Typed, Page
    <3>2. Y \in SUBSET Operation /\ \A x : x \in Y <=> (x \in page.ops /\ x # o) \/ x = u
      BY <2>2, <2>3, <3>1
    <3>3. X \subseteq page.ops /\ IsFiniteSet(X) BY <3>1, FS_Subset
    <3>4. IsFiniteSet(X \cup {u}) BY <3>3, FS_AddElement
    <3> QED BY <1>3, <2>3, <3>2, <3>4
  <2>6. /\ Form(c) /\ Still(page, c)
        /\ (Core(page) => Core(c)) /\ (Rollback(page) => Rollback(c)) /\ (Stepping(page) => Stepping(c))
        /\ (Heavy(page) => Heavy(c)) /\ (Holder(page) => Holder(c))
    BY <1>0, <1>6, <2>2, <2>4, <2>5, SwappedIs
  <2>7. Awake(c) => Awake(page) /\ c.shown = page.shown BY <2>6 DEF Still, Onward, Awake
  <2>8. Awake(c) => Steady(c) /\ (c.shown.version < due => Heavy(c) /\ Holder(c))
    BY <1>0, <2>6, <2>7 DEF Tracked, Steady
  <2>9. Tracked(c, due, server) BY <1>0, <2>6, <2>8, StillTracked
  <2> QED BY <1>0, <1>4, <2>9
<1>7. CASE page.active = o.seq /\ ~o.aborted
  <2>1. PICK z \in Nat : z = 0 OBVIOUS
  <2>2. PICK f : f = Dropped(page, X, z) OBVIOUS
  <2>3. /\ Form(f) /\ Others(page, f) /\ Still(page, f) /\ f.active = 0
        /\ (Core(page) => Core(f)) /\ (Rollback(page) => Rollback(f)) /\ (Stepping(page) => Stepping(f))
        /\ (Heavy(page) => Heavy(f))
    BY <1>0, <1>2, <1>7, <2>1, <2>2, DroppedIs
  <2>4. f = [[page EXCEPT !.ops = @ \ {o}] EXCEPT !.active = 0] BY <1>0, <1>3, <2>1, <2>2 DEF Dropped, Page
  <2>5. Awake(page) => Steady(f) BY <1>0, <2>3 DEF Tracked, Steady
  <2>6. CASE page.life = "closed"
    <3>1. c = f BY <1>0, <1>4, <1>7, <2>4, <2>6 DEF RecoveryTimer
    <3>2. ~Awake(f) BY <2>3, <2>6 DEF Awake, Off, Others
    <3>3. Tracked(f, due, server) BY <1>0, <2>3, <3>2, StillTracked
    <3> QED BY <1>0, <1>4, <3>1, <3>3
  <2>7. CASE page.life # "closed"
    <3>1. PICK yes \in BOOLEAN, no \in BOOLEAN : yes = TRUE /\ no = FALSE OBVIOUS
    <3>2. yes \in BOOLEAN /\ no \in BOOLEAN /\ 0 \in Nat OBVIOUS
    <3>7. \/ page' = Fallback(f, o.url, FALSE, o.rec)
          \/ \E safe \in BOOLEAN : page' = Navigate(f, o.url, TRUE, 0, o.rec, safe)
      BY <1>7, <2>4, <2>7 DEF RecoveryTimer
    <3>4. Kind(f) # "post"
      <4>1. Typed(f) /\ Unique(f) /\ Owned(f) BY <2>3 DEF Form
      <4>2. \A x \in f.ops : x.seq # f.active BY <2>3, <4>1 DEF Typed, Page, Operation
      <4> QED BY <4>1, <4>2, RecIs
    <3>5. Resumes(f, c)
      <4>1. ASSUME page' = Fallback(f, o.url, FALSE, o.rec) PROVE Resumes(f, c)
        <5>1. Resumes(f, Fallback(f, o.url, no, o.rec)) BY <1>1, <2>3, <3>2, FallbackResumes
        <5>2. c = Fallback(f, o.url, no, o.rec) BY <1>4, <3>1, <4>1
        <5> QED BY <5>1, <5>2
      <4>2. ASSUME NEW safe \in BOOLEAN, page' = Navigate(f, o.url, TRUE, 0, o.rec, safe) PROVE Resumes(f, c)
        <5>1. safe \in BOOLEAN OBVIOUS
        <5>2. c = Navigate(f, o.url, yes, 0, o.rec, safe) BY <1>4, <3>1, <4>2
        <5>3. Resumes(f, Navigate(f, o.url, yes, 0, o.rec, safe))
          BY <1>0, <1>1, <2>3, <3>2, <3>4, <5>1, NavigateResumes
        <5> QED BY <5>2, <5>3
      <4> QED BY <3>7, <4>1, <4>2
    <3>6. Tracked(c, due, server) BY <2>3, <2>5, <3>5, ResumesTracked
    <3> QED BY <1>0, <1>4, <3>6
  <2> QED BY <2>6, <2>7
<1> QED BY <1>5, <1>6, <1>7

-----------------------------------------------------------------------------
(* The timers.                                                             *)

\* the timer t has fired; operations may have ended with it
Spent(b, c, t) ==
  /\ c.timers = b.timers \ {t} /\ c.ops \subseteq b.ops /\ c.active \in {0, b.active}
  /\ \A o \in b.ops : o.seq = c.active => o \in c.ops
  /\ c.entries = b.entries /\ c.cur = b.cur /\ c.shown = b.shown /\ c.truthUrl = b.truthUrl
  /\ c.traversing = b.traversing /\ c.traversal = b.traversal /\ c.recovering = b.recovering
  /\ c.mutationRecovery = b.mutationRecovery /\ c.pushRecovery = b.pushRecovery
  /\ c.supersession = b.supersession /\ c.life = b.life /\ c.departure = b.departure
  /\ c.observers = b.observers /\ c.prompted = b.prompted
  /\ c.jumps = b.jumps /\ c.leaving = b.leaving /\ c.lapsed = b.lapsed

LEMMA SpentKeeps ==
  ASSUME NEW b, Form(b), NEW t, NEW c, Typed(c), Natives(c), Owned(c), Spent(b, c, t)
  PROVE  /\ Form(c) /\ Still(b, c)
         /\ Core(b) /\ Single(c) => Core(c)
         /\ (Rollback(b) => Rollback(c)) /\ (Stepping(b) => Stepping(c)) /\ (Heavy(b) => Heavy(c))
<1>0. \A o \in b.ops : o.seq # 0 BY DEF Form, Typed, Page, Operation
<1>1. Unique(c) BY DEF Form, Unique, Spent
<1>2. RealOps(c) /\ RealTimers(c) /\ RealHistory(c) /\ RealRecoveries(c) /\ RealPrompts(c)
  BY DEF Form, RealOps, RealTimers, RealHistory, RealRecoveries, RealPrompts, Spent
<1>3. Still(b, c) BY DEF Still, Onward, Off, NoReturn, Lone, Recent, Spent
<1>4. \A o \in c.ops : o \in b.ops /\ (o.seq = c.active => c.active = b.active) BY <1>0 DEF Spent
<1>5. ASSUME Core(b), Single(c) PROVE Core(c)
  <2>1. Repeating(c) /\ Interrupted(c) /\ Prompting(c)
    BY <1>5 DEF Core, Repeating, Interrupted, Prompting, Unasked, Spent
  <2>2. Posting(c) BY <1>4, <1>5 DEF Core, Posting, Spent
  <2>3. Scrolled(c) BY <1>4, <1>5 DEF Core, Scrolled, Ours, Spent
  <2> QED BY <1>5, <2>1, <2>2, <2>3 DEF Core
<1>6. ASSUME Rollback(b) PROVE Rollback(c) BY <1>4, <1>6 DEF Rollback, Spent
<1>7. ASSUME Stepping(b) PROVE Stepping(c) BY <1>4, <1>7 DEF Stepping, Spent
<1>8. Heavy(b) => Heavy(c) BY DEF Heavy, Ours, Spent
<1> QED BY <1>1, <1>2, <1>3, <1>5, <1>6, <1>7, <1>8 DEF Form

\* what held the recovery still does when no timer of it fired
LEMMA SpentHolds ==
  ASSUME NEW b, Form(b), NEW t, ~Ours(b, t), NEW c, Spent(b, c, t), c.active = b.active,
         b.carrier = b.active => c.carrier = b.carrier,
         \A o \in b.ops : o.seq = b.active /\ t.kind = "stage" /\ t.op = o.seq => t.truth # Href(b),
         Holder(b)
  PROVE  Holder(c)
<1>0. Href(c) = Href(b) BY DEF Href, Current, Spent
<1>1. ASSUME Requested(b) PROVE Requested(c)
  <2>1. PICK o \in b.ops : o.seq = b.active /\ o.rec # NoUrl /\ ~o.aborted /\ Awaited(b, o) BY <1>1 DEF Requested
  <2>2. Awaited(c, o)
    <3>1. CASE \E u \in b.timers : u.kind = "stage" /\ u.op = o.seq /\ u.truth = Href(b)
      <4>1. PICK u \in b.timers : u.kind = "stage" /\ u.op = o.seq /\ u.truth = Href(b) BY <3>1
      <4>2. u # t BY <2>1, <4>1
      <4> QED BY <1>0, <4>1, <4>2 DEF Awaited, Spent
    <3>2. CASE o.kind \in {"nav", "wait"} BY <3>2 DEF Awaited
    <3>3. CASE o.kind = "idle" /\ \E r \in b.pushRecovery : r.op = o.seq /\ r.trav = b.traversal
      BY <3>3 DEF Awaited, Spent
    <3> QED BY <2>1, <3>1, <3>2, <3>3 DEF Awaited
  <2> QED BY <2>1, <2>2 DEF Requested, Spent
<1>2. Submitted(b) => Submitted(c) BY DEF Submitted, Spent
<1>3. Native(b) => Native(c) BY DEF Native, Spent
<1>4. (Leaving(b) => Leaving(c)) /\ (Refused(b) => Refused(c))
  <2>1. \A x : Guard(b, x) => Guard(c, x) BY <1>0 DEF Guard, Spent
  <2> QED BY <2>1 DEF Leaving, Refused, Unasked, Spent
<1>5. (Delayed(b) => Delayed(c)) /\ (Stepped(b) => Stepped(c)) BY DEF Delayed, Stepped, Ours, Spent
<1> QED BY <1>1, <1>2, <1>3, <1>4, <1>5 DEF Holder

\* the timer goes, and nothing else
Fired(b, t) == [b EXCEPT !.timers = @ \ {t}]

LEMMA FiredIs ==
  ASSUME NEW b, Form(b), NEW t \in b.timers, t.kind # "native", NEW c, c = Fired(b, t)
  PROVE  /\ Spent(b, c, t) /\ c.active = b.active /\ c.carrier = b.carrier /\ c.ops = b.ops
         /\ Form(c) /\ Still(b, c)
         /\ (Core(b) => Core(c)) /\ (Rollback(b) => Rollback(c)) /\ (Stepping(b) => Stepping(c))
         /\ (Heavy(b) => Heavy(c))
<1>1. b \in Page /\ Typed(b) /\ IsFiniteSet(b.timers) BY DEF Form, Typed
<1>2. PICK T \in SUBSET b.timers : T = b.timers \ {t} OBVIOUS
<1>3. IsFiniteSet(T) BY <1>1, FS_Subset
<1>4. c = [b EXCEPT !.timers = T] BY <1>1, <1>2 DEF Fired, Page
<1>5. c \in Page BY <1>1, <1>4, ZenonT(60) DEF Page
<1>6. c.timers = T /\ c.active = b.active /\ c.carrier = b.carrier /\ c.ops = b.ops BY <1>1, <1>4 DEF Page
<1>7. Spent(b, c, t)
  <2>1. /\ c.entries = b.entries /\ c.cur = b.cur /\ c.shown = b.shown /\ c.truthUrl = b.truthUrl
        /\ c.traversing = b.traversing /\ c.traversal = b.traversal /\ c.recovering = b.recovering
        /\ c.mutationRecovery = b.mutationRecovery /\ c.pushRecovery = b.pushRecovery
        /\ c.supersession = b.supersession /\ c.life = b.life /\ c.departure = b.departure
        /\ c.observers = b.observers /\ c.prompted = b.prompted
        /\ c.jumps = b.jumps /\ c.leaving = b.leaving /\ c.lapsed = b.lapsed
    BY <1>1, <1>4 DEF Page
  <2> QED BY <1>2, <1>6, <2>1 DEF Spent
<1>8. Typed(c) BY <1>1, <1>3, <1>5, <1>6, <1>7 DEF Typed, Spent
<1>9. Owned(c) BY <1>6 DEF Form, Owned
<1>10. Natives(c)
  <2>1. \A u \in b.timers : u.kind = "native" => u \in T BY <1>2
  <2> QED BY <1>6, <2>1 DEF Form, Natives
<1>11. Single(b) => Single(c) BY <1>6 DEF Single
<1>12. /\ Form(c) /\ Still(b, c) /\ (Core(b) /\ Single(c) => Core(c))
       /\ (Rollback(b) => Rollback(c)) /\ (Stepping(b) => Stepping(c)) /\ (Heavy(b) => Heavy(c))
  BY <1>7, <1>8, <1>9, <1>10, SpentKeeps
<1> QED BY <1>6, <1>7, <1>11, <1>12 DEF Core

LEMMA TraversalTimerTracks ==
  ASSUME Kept, NEW t \in page.timers, TraversalTimer(t)
  PROVE  Tracked(page', due', server')
<1>0. /\ server \in Nat /\ server' = server /\ due' = due /\ Form(page) /\ Tracked(page, due, server)
      /\ t.kind = "traversal" /\ t.rec \in Link
  BY DEF Kept, Inv, Tracked, TraversalTimer, Quietly, Form, Typed, Page, TimerRecord
<1>1. PICK b : b = Fired(page, t) OBVIOUS
<1>2. /\ Spent(page, b, t) /\ b.active = page.active /\ b.carrier = page.carrier
      /\ Form(b) /\ Still(page, b)
      /\ (Core(page) => Core(b)) /\ (Rollback(page) => Rollback(b)) /\ (Stepping(page) => Stepping(b))
      /\ (Heavy(page) => Heavy(b))
  BY <1>0, <1>1, FiredIs
<1>3. Awake(page) => Steady(b) BY <1>0, <1>2 DEF Tracked, Steady
<1>4. Awake(b) => Awake(page) /\ b.shown = page.shown BY <1>2 DEF Still, Onward, Awake
<1>5. CASE b.life # "closed" /\ t.trav = b.traversal /\ b.recovering
  <2>1. PICK c : c = BeginTraversalRecovery(b, t.rec) OBVIOUS
  <2>2. page' = c BY <1>1, <1>5, <2>1 DEF TraversalTimer, Fired
  <2>3. Away(b, BeginTraversalRecovery(b, t.rec), t.rec) BY <1>0, <1>2, <1>5, TraversalAway
  <2>4. Away(b, c, t.rec) BY <2>1, <2>3
  <2>5. /\ Form(c) /\ Still(b, c)
        /\ (Core(b) => Core(c)) /\ (Rollback(b) => Rollback(c)) /\ (Stepping(b) => Stepping(c))
        /\ (t.rec # NoUrl => (Heavy(b) => Heavy(c)) /\ Leaving(c))
    BY <2>4 DEF Away
  <2>6. Still(page, c) BY <1>2, <2>5, StillTrans
  <2>7. Awake(c) => Awake(page) /\ c.shown = page.shown BY <2>6 DEF Still, Onward, Awake
  <2>8. Awake(c) => Steady(c) BY <1>3, <2>5, <2>7 DEF Steady
  <2>9. ASSUME Awake(c), c.shown.version < due PROVE Heavy(c) /\ Holder(c)
    <3>1. Heavy(page) BY <1>0, <2>7, <2>9 DEF Tracked
    <3>2. Ours(page, t) BY <1>0, <1>2, <1>5 DEF Ours, Spent
    <3>3. t.rec # NoUrl BY <3>1, <3>2 DEF Heavy
    <3> QED BY <1>2, <2>5, <3>1, <3>3 DEF Holder
  <2>10. Tracked(c, due, server) BY <1>0, <2>5, <2>6, <2>8, <2>9, StillTracked
  <2> QED BY <1>0, <2>2, <2>10
<1>6. CASE ~(b.life # "closed" /\ t.trav = b.traversal /\ b.recovering)
  <2>1. page' = b BY <1>1, <1>6 DEF TraversalTimer, Fired
  <2>2. ASSUME Awake(b), b.shown.version < due PROVE Heavy(b) /\ Holder(b)
    <3>1. Heavy(page) /\ Holder(page) /\ Core(page) BY <1>0, <1>4, <2>2 DEF Tracked, Steady
    <3>2. ~Ours(page, t)
      <4>1. b.life # "closed" BY <2>2 DEF Awake, Off
      <4>2. Ours(page, t) => page.recovering BY <3>1 DEF Core, Scrolled
      <4> QED BY <1>2, <1>6, <4>1, <4>2 DEF Ours, Spent
    <3>3. Holder(b) BY <1>0, <1>2, <3>1, <3>2, SpentHolds
    <3> QED BY <1>2, <3>1, <3>3
  <2>3. Awake(b) => Steady(b) BY <1>3, <1>4
  <2>4. Tracked(b, due, server) BY <1>0, <1>2, <2>2, <2>3, StillTracked
  <2> QED BY <1>0, <2>1, <2>4
<1> QED BY <1>5, <1>6

\* the observer of a staged push
Staged(b, t) == [Observer(b, "staged", TRUE, 0, t.rec) EXCEPT !.truth = t.truth]

LEMMA StagedIs ==
  ASSUME NEW b, Form(b), NEW t \in TimerRecord, t.truth # NoUrl, NEW x, x = Staged(b, t)
  PROVE  x \in ObserverRecord /\ x.kind = "staged" /\ x.rec = t.rec /\ x.sel = Href(b) /\ x.truth # NoUrl
<1>1. PICK y : y = Observer(b, "staged", TRUE, 0, t.rec) OBVIOUS
<1>2. PICK rec \in Link, yes \in BOOLEAN, z \in Nat : rec = t.rec /\ yes = TRUE /\ z = 0 BY DEF TimerRecord
<1>3. y \in ObserverRecord /\ y.kind = "staged" /\ y.rec = rec /\ y.sel = Href(b)
  <2>1. y = Observer(b, "staged", yes, z, rec) BY <1>1, <1>2
  <2>2. yes \in BOOLEAN /\ z \in Nat /\ rec \in Link OBVIOUS
  <2> QED BY <2>1, <2>2, WatcherIs
<1>4. x = [y EXCEPT !.truth = t.truth] BY <1>1 DEF Staged
<1>5. t.truth \in Link BY DEF TimerRecord
<1> QED BY <1>2, <1>3, <1>4, <1>5 DEF ObserverRecord

LEMMA StageTimerTracks ==
  ASSUME Kept, NEW t \in page.timers, StageTimer(t)
  PROVE  Tracked(page', due', server')
<1>0. /\ server \in Nat /\ server' = server /\ due' = due /\ Form(page) /\ Tracked(page, due, server)
      /\ t.kind = "stage" /\ t \in TimerRecord
  BY DEF Kept, Inv, Tracked, StageTimer, Quietly, Form, Typed, Page
<1>1. PICK b : b = Fired(page, t) OBVIOUS
<1>2. /\ Spent(page, b, t) /\ b.active = page.active /\ b.carrier = page.carrier
      /\ Form(b) /\ Still(page, b)
      /\ (Core(page) => Core(b)) /\ (Rollback(page) => Rollback(b)) /\ (Stepping(page) => Stepping(b))
      /\ (Heavy(page) => Heavy(b))
  BY <1>0, <1>1, FiredIs
<1>3. Awake(page) => Steady(b) BY <1>0, <1>2 DEF Tracked, Steady
<1>4. Awake(b) => Awake(page) /\ b.shown = page.shown BY <1>2 DEF Still, Onward, Awake
<1>5. CASE ~(b.life = "closed" \/ Href(b) # t.truth \/ (t.op # 0 /\ b.active # t.op))
  <2>1. t.url \in Link /\ t.url # NoUrl /\ t.truth # NoUrl BY <1>0 DEF Form, RealTimers, TimerRecord
  <2>2. PICK no \in BOOLEAN : no = FALSE OBVIOUS
  <2>3. PICK s : s = Selected(b, t.url, no) OBVIOUS
  <2>4. /\ Form(s) /\ Alike(b, s) /\ s.shown = b.shown /\ s.leaving = b.leaving
        /\ (Core(b) => Core(s)) /\ (Rollback(b) => Rollback(s)) /\ (Heavy(b) => Heavy(s))
    <3>1. no \in BOOLEAN OBVIOUS
    <3> QED BY <1>2, <2>1, <2>3, <3>1, SelectedIs
  <2>5. PICK x : x = Staged(s, t) OBVIOUS
  <2>6. x \in ObserverRecord /\ x.kind = "staged" /\ x.rec = t.rec /\ x.sel = Href(s) /\ x.truth # NoUrl
    BY <1>0, <2>1, <2>4, <2>5, StagedIs
  <2>7. PICK c : c = Depart(Observe(s, x), t.url) OBVIOUS
  <2>8. page' = c BY <1>1, <1>5, <2>2, <2>3, <2>5, <2>7 DEF StageTimer, Fired, Staged
  <2>9. Typed(s) BY <2>4 DEF Form
  <2>10. Typed(c) /\ Asks(s, c, {x}) BY <2>1, <2>6, <2>7, <2>9, AskIs
  <2>11. /\ Form(c) /\ Unasked(c)
         /\ (Core(s) => Core(c)) /\ (Rollback(s) => Rollback(c)) /\ (Stepping(s) => Stepping(c))
         /\ (x.rec # NoUrl => (Heavy(s) => Heavy(c)))
    BY <2>4, <2>6, <2>10, AsksKeeps
  <2>12. Still(page, c)
    <3>1. Still(b, s) BY <2>4, StillAlike
    <3>2. Still(s, c) BY <2>6, <2>10, StillAsks
    <3>3. Still(page, s) BY <1>2, <3>1, StillTrans
    <3> QED BY <3>2, <3>3, StillTrans
  <2>13. Awake(c) => Awake(page) /\ c.shown = page.shown BY <2>12 DEF Still, Onward, Awake
  <2>14. ASSUME Awake(c) PROVE Steady(c)
    <3>1. Steady(page) /\ Steady(b) BY <1>0, <1>3, <2>13, <2>14 DEF Tracked
    <3>2. page.supersession = {} BY <1>0, <3>1 DEF Steady, Stepping
    <3>3. s.supersession = {} BY <1>2, <2>4, <3>2 DEF Spent, Alike
    <3>4. Stepping(s) BY <3>3 DEF Stepping
    <3> QED BY <2>4, <2>11, <3>1, <3>4 DEF Steady
  <2>15. ASSUME Awake(c), c.shown.version < due PROVE Heavy(c) /\ Holder(c)
    <3>1. Heavy(page) BY <1>0, <2>13, <2>15 DEF Tracked
    <3>2. t.rec # NoUrl BY <1>0, <3>1 DEF Heavy
    <3>3. Heavy(c) BY <1>2, <2>4, <2>6, <2>11, <3>1, <3>2
    <3>4. Guard(c, x)
      <4>1. Href(c) = Href(s) BY <2>10 DEF Asks, Undisturbed, Href, Current
      <4> QED BY <2>6, <4>1 DEF Guard
    <3>5. Leaving(c) BY <2>6, <2>10, <2>11, <3>2, <3>4 DEF Leaving, Asks
    <3> QED BY <3>3, <3>5 DEF Holder
  <2>16. Tracked(c, due, server) BY <1>0, <2>11, <2>12, <2>14, <2>15, StillTracked
  <2> QED BY <1>0, <2>8, <2>16
<1>6. CASE b.life = "closed" \/ Href(b) # t.truth \/ (t.op # 0 /\ b.active # t.op)
  <2>1. page' = b BY <1>1, <1>6 DEF StageTimer, Fired
  <2>2. ASSUME Awake(b), b.shown.version < due PROVE Heavy(b) /\ Holder(b)
    <3>1. Heavy(page) /\ Holder(page) BY <1>0, <1>4, <2>2 DEF Tracked
    <3>2. b.life # "closed" BY <2>2 DEF Awake, Off
    <3>3. Href(b) = Href(page) BY <1>2 DEF Spent, Href, Current
    <3>4. \A o \in page.ops : o.seq # 0 BY <1>0 DEF Form, Typed, Page, Operation
    <3>5. \A o \in page.ops : o.seq = page.active /\ t.op = o.seq => t.truth # Href(page)
      BY <1>2, <1>6, <3>2, <3>3, <3>4
    <3>6. ~Ours(page, t) BY <1>0 DEF Ours
    <3>7. Holder(b) BY <1>0, <1>2, <3>1, <3>5, <3>6, SpentHolds
    <3> QED BY <1>2, <3>1, <3>7
  <2>3. Awake(b) => Steady(b) BY <1>3, <1>4
  <2>4. Tracked(b, due, server) BY <1>0, <1>2, <2>2, <2>3, StillTracked
  <2> QED BY <1>0, <2>1, <2>4
<1> QED BY <1>5, <1>6

\* other jumps are pending
Queued(b, c, j) ==
  /\ c.ops = b.ops /\ c.active = b.active /\ c.timers = b.timers /\ c.carrier = b.carrier
  /\ c.entries = b.entries /\ c.cur = b.cur /\ c.shown = b.shown /\ c.truthUrl = b.truthUrl
  /\ c.traversing = b.traversing /\ c.traversal = b.traversal /\ c.recovering = b.recovering
  /\ c.mutationRecovery = b.mutationRecovery /\ c.pushRecovery = b.pushRecovery
  /\ c.supersession = b.supersession /\ c.life = b.life /\ c.departure = b.departure
  /\ c.observers = b.observers /\ c.prompted = b.prompted
  /\ c.jumps = j /\ c.leaving = b.leaving /\ c.lapsed = b.lapsed

LEMMA QueuedIs ==
  ASSUME NEW b, Form(b), NEW j \in Seq({1, -1}), NEW c, c = [b EXCEPT !.jumps = j]
  PROVE  /\ Form(c) /\ Queued(b, c, j) /\ Still(b, c)
         /\ Kind(c) = Kind(b) /\ Rec(c) = Rec(b)
         /\ (Core(b) => Core(c)) /\ (Heavy(b) => Heavy(c)) /\ (Holder(b) => Holder(c))
         /\ (Promised(b) => Promised(c))
         /\ (b.pushRecovery = {} => Rollback(c)) /\ (b.supersession = {} => Stepping(c))
<1>1. b \in Page /\ Typed(b) BY DEF Form, Typed
<1>2. c \in Page BY <1>1 DEF Page
<1>3. Queued(b, c, j) BY <1>1 DEF Page, Queued
<1>4. Typed(c) BY <1>1, <1>2, <1>3 DEF Typed, Queued
<1>5. Unique(c) /\ Owned(c) /\ Natives(c) BY <1>3 DEF Form, Unique, Owned, Natives, Queued
<1>6. RealOps(c) /\ RealTimers(c) /\ RealHistory(c) /\ RealRecoveries(c) /\ RealPrompts(c)
  BY <1>3 DEF Form, RealOps, RealTimers, RealHistory, RealRecoveries, RealPrompts, Queued
<1>7. Still(b, c) BY <1>3 DEF Still, Onward, Off, NoReturn, Lone, Recent, Queued
<1>8. Core(b) => Core(c)
  BY <1>3 DEF Core, Single, Repeating, Posting, Interrupted, Scrolled, Ours, Prompting, Unasked, Queued
<1>9. Heavy(b) => Heavy(c) BY <1>3 DEF Heavy, Ours, Queued
<1>10. Kind(c) = Kind(b) /\ Rec(c) = Rec(b) BY <1>3 DEF Kind, Rec, Active, Queued
<1>11. (Delayed(b) => Delayed(c)) /\ (Stepped(b) => Stepped(c)) BY <1>3 DEF Delayed, Stepped, Ours, Queued
<1>12. Href(c) = Href(b) BY <1>3 DEF Href, Current, Queued
<1>13. \A x : Guard(b, x) => Guard(c, x) BY <1>3, <1>12 DEF Guard, Queued
<1>14. Holder(b) => Holder(c)
  <2>1. Requested(b) => Requested(c) BY <1>3, <1>12 DEF Requested, Awaited, Queued
  <2>2. (Submitted(b) => Submitted(c)) /\ (Native(b) => Native(c)) BY <1>3 DEF Submitted, Native, Queued
  <2>3. (Leaving(b) => Leaving(c)) /\ (Refused(b) => Refused(c))
    BY <1>3, <1>13 DEF Leaving, Refused, Unasked, Queued
  <2> QED BY <1>11, <2>1, <2>2, <2>3 DEF Holder
<1>15. Promised(b) => Promised(c) BY <1>3, <1>10, <1>11 DEF Promised, Queued
<1>16. (b.pushRecovery = {} => Rollback(c)) /\ (b.supersession = {} => Stepping(c))
  BY <1>3 DEF Rollback, Stepping, Queued
<1> QED BY <1>3, <1>4, <1>5, <1>6, <1>7, <1>8, <1>9, <1>10, <1>14, <1>15, <1>16 DEF Form

LEMMA ForwardTimerTracks ==
  ASSUME Kept, NEW t \in page.timers, ForwardTimer(t)
  PROVE  Tracked(page', due', server')
<1>0. /\ server \in Nat /\ server' = server /\ due' = due /\ Form(page) /\ Tracked(page, due, server)
      /\ t.kind = "forward" /\ Exclusive(page) /\ page \in Page
  BY DEF Kept, Inv, Sound, Base, Tracked, ForwardTimer, Quietly, Form, Typed
<1>1. PICK b : b = Fired(page, t) OBVIOUS
<1>2. /\ Spent(page, b, t) /\ b.active = page.active /\ b.carrier = page.carrier
      /\ Form(b) /\ Still(page, b)
      /\ (Core(page) => Core(b)) /\ (Rollback(page) => Rollback(b)) /\ (Stepping(page) => Stepping(b))
      /\ (Heavy(page) => Heavy(b))
  BY <1>0, <1>1, FiredIs
<1>3. Awake(page) => Steady(b) BY <1>0, <1>2 DEF Tracked, Steady
<1>4. Awake(b) => Awake(page) /\ b.shown = page.shown BY <1>2 DEF Still, Onward, Awake
<1>5. ASSUME Awake(b), b.shown.version < due PROVE Heavy(b) /\ Holder(b)
  <2>1. Heavy(page) /\ Holder(page) BY <1>0, <1>4, <1>5 DEF Tracked
  <2>2. ~Ours(page, t) BY <1>0 DEF Ours
  <2>3. Holder(b) BY <1>0, <1>2, <2>1, <2>2, SpentHolds
  <2> QED BY <1>2, <2>1, <2>3
<1>6. CASE \E r \in page.mutationRecovery : r.op = t.op
  <2>1. PICK j : j = Append(page.jumps, 1) OBVIOUS
  <2>2. j \in Seq({1, -1})
    <3>1. page.jumps \in Seq({1, -1}) BY <1>0 DEF Page
    <3> QED BY <2>1, <3>1
  <2>3. PICK c : c = [b EXCEPT !.jumps = j] OBVIOUS
  <2>4. page' = c BY <1>0, <1>1, <1>6, <2>1, <2>3 DEF ForwardTimer, Fired, Page
  <2>5. /\ Form(c) /\ Queued(b, c, j) /\ Still(b, c)
        /\ (Core(b) => Core(c)) /\ (Heavy(b) => Heavy(c)) /\ (Holder(b) => Holder(c))
        /\ (b.pushRecovery = {} => Rollback(c)) /\ (b.supersession = {} => Stepping(c))
    BY <1>2, <2>2, <2>3, QueuedIs
  <2>6. Still(page, c) BY <1>2, <2>5, StillTrans
  <2>7. Awake(c) => Awake(b) /\ c.shown = b.shown BY <2>5 DEF Still, Onward, Awake
  <2>8. ASSUME Awake(c) PROVE Steady(c)
    <3>1. Awake(page) BY <1>4, <2>7, <2>8
    <3>2. page.pushRecovery = {} /\ page.supersession = {}
      BY <1>0, <1>6, <3>1 DEF Tracked, Steady, Core, Interrupted, Exclusive
    <3>3. b.pushRecovery = {} /\ b.supersession = {} BY <1>2, <3>2 DEF Spent
    <3> QED BY <1>3, <2>5, <3>1, <3>3 DEF Steady
  <2>9. Awake(c) /\ c.shown.version < due => Heavy(c) /\ Holder(c) BY <1>5, <2>5, <2>7
  <2>10. Tracked(c, due, server) BY <1>0, <2>5, <2>6, <2>8, <2>9, StillTracked
  <2> QED BY <1>0, <2>4, <2>10
<1>7. CASE ~\E r \in page.mutationRecovery : r.op = t.op
  <2>1. page' = b BY <1>0, <1>1, <1>7 DEF ForwardTimer, Fired, Page
  <2>2. Tracked(b, due, server) BY <1>0, <1>2, <1>3, <1>4, <1>5, StillTracked
  <2> QED BY <1>0, <2>1, <2>2
<1> QED BY <1>6, <1>7

\* the page without the native timer t and what it carried, the operation v active
Unburdened(b, t, X, k, v) ==
  [b EXCEPT !.timers = @ \ {t}, !.carrier = k, !.ops = X, !.active = v]

LEMMA UnburdenedIs ==
  ASSUME NEW b, Form(b), Carried(b), NEW t \in b.timers, t.kind = "native",
         NEW X \in SUBSET b.ops, \A o \in b.ops : o \in X <=> (o.seq # t.op \/ o.kind # "held"),
         NEW k \in Nat, k = (IF b.carrier = t.op THEN 0 ELSE b.carrier),
         NEW v \in Nat, v = (IF b.active = t.op THEN 0 ELSE b.active),
         NEW c, c = Unburdened(b, t, X, k, v)
  PROVE  /\ Spent(b, c, t) /\ c.active = v /\ c.carrier = k
         /\ Form(c) /\ Still(b, c)
         /\ (Core(b) => Core(c)) /\ (Rollback(b) => Rollback(c)) /\ (Stepping(b) => Stepping(c))
         /\ (Heavy(b) => Heavy(c))
<1>1. /\ b \in Page /\ Typed(b) /\ Unique(b) /\ IsFiniteSet(b.timers) /\ IsFiniteSet(b.ops)
      /\ \A o \in b.ops : o.seq # 0
  BY DEF Form, Typed, Page, Operation
<1>2. PICK T \in SUBSET b.timers : T = b.timers \ {t} OBVIOUS
<1>3. IsFiniteSet(T) /\ IsFiniteSet(X) BY <1>1, FS_Subset
<1>4. c = [b EXCEPT !.timers = T, !.carrier = k, !.ops = X, !.active = v] BY <1>1, <1>2 DEF Unburdened, Page
<1>5. X \in SUBSET Operation /\ T \in SUBSET TimerRecord BY <1>1 DEF Page
<1>6. c \in Page
  <2>1. PICK n \in Nat, m \in Nat : n = k /\ m = v OBVIOUS
  <2>2. PICK d : d = [b EXCEPT !.timers = T, !.carrier = n, !.ops = X, !.active = m] OBVIOUS
  <2>3. c = d BY <1>4, <2>1, <2>2
  <2>4. d \in Page BY <1>1, <1>5, <2>2 DEF Page
  <2> QED BY <2>3, <2>4
<1>7. c.timers = T /\ c.active = v /\ c.carrier = k /\ c.ops = X BY <1>1, <1>4 DEF Page
<1>8. t.op # 0 /\ t.rec # NoUrl /\ (t.op = b.active => b.carrier = t.op) BY DEF Form, Natives
<1>9. \A o \in b.ops : o.seq = v => o \in X BY <1>1
<1>10. Spent(b, c, t)
  <2>1. /\ c.entries = b.entries /\ c.cur = b.cur /\ c.shown = b.shown /\ c.truthUrl = b.truthUrl
        /\ c.traversing = b.traversing /\ c.traversal = b.traversal /\ c.recovering = b.recovering
        /\ c.mutationRecovery = b.mutationRecovery /\ c.pushRecovery = b.pushRecovery
        /\ c.supersession = b.supersession /\ c.life = b.life /\ c.departure = b.departure
        /\ c.observers = b.observers /\ c.prompted = b.prompted
        /\ c.jumps = b.jumps /\ c.leaving = b.leaving /\ c.lapsed = b.lapsed
    BY <1>1, <1>4 DEF Page
  <2> QED BY <1>2, <1>7, <1>9, <2>1 DEF Spent
<1>11. Typed(c) BY <1>1, <1>3, <1>6, <1>7, <1>10 DEF Typed, Spent
<1>12. Owned(c) BY <1>7, <1>9 DEF Form, Owned
<1>13. Natives(c)
  <2>1. \A u, w \in T : u.kind = "native" /\ w.kind = "native" /\ u.op = w.op => u = w
    BY <1>2 DEF Form, Natives
  <2>2. \A u \in T : u.kind = "native" => u.op # t.op BY <1>2 DEF Form, Natives
  <2>3. ASSUME NEW u \in T, u.kind = "native" PROVE u.rec # NoUrl /\ u.op # 0 /\ (u.op = v => k = u.op)
    <3>1. u.rec # NoUrl /\ u.op # 0 /\ (u.op = b.active => b.carrier = u.op)
      BY <1>2, <2>3 DEF Form, Natives
    <3> QED BY <2>2, <2>3, <3>1
  <2>4. ASSUME NEW o \in X, o.seq = k
        PROVE  o.rec # NoUrl /\ (o.seq = v => \E u \in T : u.kind = "native" /\ u.op = o.seq /\ u.current)
    <3>1. o \in b.ops /\ o.seq = b.carrier /\ b.carrier # t.op BY <1>1, <2>4
    <3>2. /\ o.rec # NoUrl
          /\ o.seq = b.active => \E u \in b.timers : u.kind = "native" /\ u.op = o.seq /\ u.current
      BY <3>1 DEF Form, Natives
    <3>3. o.seq = v => o.seq = b.active BY <1>1, <3>1
    <3>4. \A u \in b.timers : u.op = o.seq => u \in T BY <1>2, <3>1
    <3> QED BY <3>2, <3>3, <3>4
  <2> QED BY <1>7, <2>1, <2>3, <2>4 DEF Natives
<1>14. Core(b) => Single(c)
  <2> SUFFICES ASSUME Core(b), NEW o \in X, ~o.aborted PROVE o.seq = v /\ o.kind # "held" BY <1>7 DEF Single
  <2>1. o \in b.ops /\ o.seq = b.active /\ o.kind # "held" BY DEF Core, Single
  <2>2. b.active # t.op BY <1>8, <2>1 DEF Carried
  <2> QED BY <2>1, <2>2
<1>15. /\ Form(c) /\ Still(b, c) /\ (Core(b) /\ Single(c) => Core(c))
       /\ (Rollback(b) => Rollback(c)) /\ (Stepping(b) => Stepping(c)) /\ (Heavy(b) => Heavy(c))
  BY <1>10, <1>11, <1>12, <1>13, SpentKeeps
<1> QED BY <1>7, <1>10, <1>14, <1>15

LEMMA NativeTimerTracks ==
  ASSUME Kept, NEW t \in page.timers, NativeTimer(t)
  PROVE  Tracked(page', due', server')
<1>0. /\ server \in Nat /\ server' = server /\ due' = due /\ Form(page) /\ Tracked(page, due, server)
      /\ t.kind = "native" /\ Carried(page) /\ page \in Page /\ Unique(page) /\ Owned(page)
  BY DEF Kept, Inv, Sound, Base, Tracked, NativeTimer, Quietly, Form, Typed
<1>1. t.op # 0 /\ t.rec # NoUrl /\ t.url # NoUrl /\ t.rec \in Link /\ t.url \in Link
      /\ (t.op = page.active => page.carrier = t.op)
  BY <1>0 DEF Form, Natives, RealTimers, Page, TimerRecord
<1>2. PICK X \in SUBSET page.ops : X = {o \in page.ops : o.seq # t.op \/ o.kind # "held"} OBVIOUS
<1>3. \A o \in page.ops : o \in X <=> (o.seq # t.op \/ o.kind # "held") BY <1>2
<1>4. PICK k \in Nat : k = IF page.carrier = t.op THEN 0 ELSE page.carrier BY <1>0 DEF Page
<1>5. PICK v \in Nat : v = IF page.active = t.op THEN 0 ELSE page.active BY <1>0 DEF Page
<1>6. PICK b : b = Unburdened(page, t, X, k, v) OBVIOUS
<1>7. /\ Spent(page, b, t) /\ b.active = v /\ b.carrier = k
      /\ Form(b) /\ Still(page, b)
      /\ (Core(page) => Core(b)) /\ (Rollback(page) => Rollback(b)) /\ (Stepping(page) => Stepping(b))
      /\ (Heavy(page) => Heavy(b))
  <2>1. k \in Nat /\ v \in Nat OBVIOUS
  <2> QED BY <1>0, <1>3, <1>4, <1>5, <1>6, <2>1, UnburdenedIs
<1>8. Awake(page) => Steady(b) BY <1>0, <1>7 DEF Tracked, Steady
<1>9. PICK r : r = [page EXCEPT !.timers = @ \ {t},
                                !.carrier = IF @ = t.op THEN 0 ELSE @,
                                !.ops = {o \in @ : o.seq # t.op \/ o.kind # "held"}]
  OBVIOUS
<1>10. page' = IF page.carrier = t.op /\ t.current
               THEN Fallback(IF r.active = t.op THEN [r EXCEPT !.active = 0] ELSE r, t.url, FALSE, t.rec)
               ELSE r
  BY <1>9 DEF NativeTimer
<1>11. b = IF r.active = t.op THEN [r EXCEPT !.active = 0] ELSE r
  BY <1>0, <1>2, <1>4, <1>5, <1>6, <1>9 DEF Unburdened, Page
<1>12. CASE page.carrier = t.op /\ t.current
  <2>1. PICK no \in BOOLEAN : no = FALSE OBVIOUS
  <2>2. PICK c : c = Fallback(b, t.url, no, t.rec) OBVIOUS
  <2>3. page' = c BY <1>10, <1>11, <1>12, <2>1, <2>2
  <2>4. Resumes(b, Fallback(b, t.url, no, t.rec))
    <3>1. no \in BOOLEAN OBVIOUS
    <3> QED BY <1>1, <1>7, <3>1, FallbackResumes
  <2>5. Resumes(b, c) BY <2>2, <2>4
  <2>6. Tracked(c, due, server) BY <1>7, <1>8, <2>5, ResumesTracked
  <2> QED BY <1>0, <2>3, <2>6
<1>13. CASE ~(page.carrier = t.op /\ t.current)
  <2>1. page.active # t.op
    <3> SUFFICES ASSUME page.active = t.op PROVE FALSE OBVIOUS
    <3>1. PICK o \in page.ops : o.seq = page.active BY <1>0, <1>1 DEF Owned
    <3>2. PICK u \in page.timers : u.kind = "native" /\ u.op = o.seq /\ u.current
      BY <1>0, <1>1, <3>1 DEF Form, Natives
    <3>3. u = t BY <1>0, <3>1, <3>2 DEF Form, Natives
    <3> QED BY <1>1, <1>13, <3>2, <3>3
  <2>2. page' = b
    <3>1. r.active = page.active BY <1>0, <1>9 DEF Page
    <3> QED BY <1>10, <1>11, <1>13, <2>1, <3>1
  <2>3. b.active = page.active BY <1>5, <1>7, <2>1
  <2>4. Awake(b) => Awake(page) /\ b.shown = page.shown BY <1>7 DEF Still, Onward, Awake
  <2>5. ASSUME Awake(b), b.shown.version < due PROVE Heavy(b) /\ Holder(b)
    <3>1. Heavy(page) /\ Holder(page) BY <1>0, <2>4, <2>5 DEF Tracked
    <3>2. ~Ours(page, t) BY <1>0 DEF Ours
    <3>3. page.carrier = page.active => b.carrier = page.carrier BY <1>4, <1>7, <2>1
    <3>4. Holder(b) BY <1>0, <1>7, <2>3, <3>1, <3>2, <3>3, SpentHolds
    <3> QED BY <1>7, <3>1, <3>4
  <2>6. Awake(b) => Steady(b) BY <1>8, <2>4
  <2>7. Tracked(b, due, server) BY <1>0, <1>7, <2>5, <2>6, StillTracked
  <2> QED BY <1>0, <2>2, <2>7
<1> QED BY <1>12, <1>13

LEMMA HeadsAndTails ==
  /\ Head(<<-1>>) = -1 /\ Tail(<<-1>>) = <<>>
  /\ Head(<<1>>) = 1 /\ Tail(<<1>>) = <<>>
  /\ Head(<<-1, 1>>) = -1 /\ Tail(<<-1, 1>>) = <<1>>
<1>1. Head(<<-1>>) = -1 /\ Head(<<1>>) = 1 /\ Head(<<-1, 1>>) = -1 OBVIOUS
<1>2. Tail(<<-1>>) = <<>> /\ Tail(<<1>>) = <<>> OBVIOUS
<1>3. Tail(<<-1, 1>>) = <<1>>
  <2>1. PICK s : s = <<-1, 1>> OBVIOUS
  <2>2. s \in Seq({1, -1}) /\ Len(s) = 2 /\ s[2] = 1 BY <2>1
  <2>3. PICK t : t = Tail(s) OBVIOUS
  <2>4. t \in Seq({1, -1}) /\ Len(t) = 1 BY <2>2, <2>3
  <2>5. t[1] = 1 BY <2>2, <2>3, SMTT(30)
  <2>6. t = <<1>> BY <2>4, <2>5
  <2> QED BY <2>1, <2>3, <2>6
<1> QED BY <1>1, <1>2, <1>3

LEMMA JumpTracks ==
  ASSUME Kept, Jump
  PROVE  Tracked(page', due', server')
<1>0. /\ server \in Nat /\ server' = server /\ due' = due /\ Form(page) /\ Tracked(page, due, server)
      /\ Unprompted /\ Base(page) /\ page \in Page /\ page.jumps \in Seq({1, -1}) /\ page.jumps # <<>>
  BY DEF Kept, Inv, Sound, Base, Tracked, Jump, Quietly, Form, Typed, Page
<1>1. page.cur \in 1..Len(page.entries) /\ Len(page.entries) \in Nat BY <1>0 DEF Form, Typed, Page
<1>2. PICK h \in {1, -1} : h = Head(page.jumps) BY <1>0, TailIs
<1>3. PICK j \in Seq({1, -1}) : j = Tail(page.jumps) BY <1>0, TailIs
<1>4. PICK b : b = [page EXCEPT !.jumps = j] OBVIOUS
<1>5. /\ Form(b) /\ Queued(page, b, j) /\ Still(page, b)
      /\ Kind(b) = Kind(page)
      /\ (Core(page) => Core(b)) /\ (Heavy(page) => Heavy(b)) /\ (Holder(page) => Holder(b))
      /\ (Promised(page) => Promised(b))
      /\ (page.pushRecovery = {} => Rollback(b)) /\ (page.supersession = {} => Stepping(b))
  BY <1>0, <1>3, <1>4, QueuedIs
<1>6. PICK i : i = page.cur + h OBVIOUS
<1>7. i \in Int /\ (h = 1 => i = page.cur + 1) /\ (h = -1 => i = page.cur - 1) BY <1>1, <1>6
<1>8. \E enhance, safe \in BOOLEAN :
        page' = IF i \notin DOMAIN b.entries
                THEN [b EXCEPT !.lapsed = @ \/ (Head(page.jumps) = 1 /\ b.mutationRecovery # {})]
                ELSE IF b.life = "closed" THEN [b EXCEPT !.cur = i]
                ELSE Arrived([b EXCEPT !.cur = i], enhance, safe)
  BY <1>2, <1>3, <1>4, <1>6 DEF Jump
<1>9. b.entries = page.entries /\ DOMAIN b.entries = 1..Len(page.entries) /\ b.cur = page.cur
  BY <1>0, <1>5 DEF Queued, Page
<1>10. Awake(b) => Awake(page) /\ b.shown = page.shown BY <1>5 DEF Still, Onward, Awake
<1>11. CASE i \notin DOMAIN b.entries
  <2>1. PICK l \in BOOLEAN : l = (b.lapsed \/ (h = 1 /\ b.mutationRecovery # {})) OBVIOUS
  <2>2. PICK c : c = [b EXCEPT !.lapsed = l] OBVIOUS
  <2>3. b \in Page BY <1>5 DEF Form, Typed
  <2>4. page' = c BY <1>2, <1>8, <1>11, <2>1, <2>2, <2>3 DEF Page
  <2>5. c \in Page
    <3>1. l \in BOOLEAN OBVIOUS
    <3> QED BY <2>2, <2>3, <3>1 DEF Page
  <2>6. Losing(b, c)
    <3>1. c.lapsed = l /\ (b.lapsed => l) BY <2>1, <2>2, <2>3 DEF Page
    <3> QED BY <2>2, <2>3, <3>1 DEF Losing, Page
  <2>7. /\ Form(c) /\ Still(b, c)
        /\ (Core(b) => Core(c)) /\ (Rollback(b) => Rollback(c)) /\ (Stepping(b) => Stepping(c))
        /\ (Heavy(b) => Heavy(c)) /\ (Holder(b) => Holder(c))
    BY <1>5, <2>5, <2>6, LosingKeeps
  <2>8. Still(page, c) BY <1>5, <2>7, StillTrans
  <2>9. Awake(c) => Awake(page) /\ c.shown = page.shown BY <2>8 DEF Still, Onward, Awake
  <2>10. ASSUME Awake(c) PROVE Steady(c)
    <3>1. Steady(page) BY <1>0, <2>9, <2>10 DEF Tracked
    <3>2. page.pushRecovery = {}
      <4> SUFFICES ASSUME page.pushRecovery # {} PROVE FALSE OBVIOUS
      <4>1. page.jumps = <<-1>> /\ page.cur > 1 BY <3>1 DEF Steady, Rollback
      <4>2. h = -1 BY <1>2, <4>1, HeadsAndTails
      <4> QED BY <1>1, <1>7, <1>9, <1>11, <4>1, <4>2
    <3>3. Stepping(b)
      <4>1. CASE page.supersession = {} BY <1>5, <4>1
      <4>2. CASE page.supersession # {}
        <5>1. /\ Len(page.entries) > 1
              /\ (page.jumps = <<1>> /\ page.cur < Len(page.entries)) \/ page.jumps = <<-1, 1>>
              /\ \A t \in page.timers : t.kind # "stage"
              /\ \A r \in page.supersession, o \in page.ops :
                   /\ o.seq = r.op => o.aborted /\ o.kind # "post"
                   /\ page.traversing /\ r.rec # NoUrl /\ o.seq = page.active => o.rec # NoUrl
          BY <3>1, <4>2 DEF Steady, Stepping
        <5>2. ~(page.jumps = <<1>> /\ page.cur < Len(page.entries))
          <6> SUFFICES ASSUME page.jumps = << 1 >>, page.cur < Len(page.entries) PROVE FALSE OBVIOUS
          <6>1. h = 1 BY <1>2, HeadsAndTails
          <6> QED BY <1>1, <1>7, <1>9, <1>11, <6>1
        <5>3. page.jumps = <<-1, 1>> BY <5>1, <5>2
        <5>4. h = -1 /\ j = <<1>> BY <1>2, <1>3, <5>3, HeadsAndTails
        <5>5. page.cur = 1 BY <1>1, <1>7, <1>9, <1>11, <5>4
        <5>6. b.jumps = <<1>> /\ b.cur < Len(b.entries) BY <1>5, <1>9, <5>1, <5>4, <5>5 DEF Queued
        <5> QED BY <1>5, <5>1, <5>6 DEF Stepping, Queued
      <4> QED BY <4>1, <4>2
    <3> QED BY <1>5, <2>7, <3>1, <3>2, <3>3 DEF Steady
  <2>11. ASSUME Awake(c), c.shown.version < due PROVE Heavy(c) /\ Holder(c)
    <3>1. Heavy(page) /\ Holder(page) BY <1>0, <2>9, <2>11 DEF Tracked
    <3> QED BY <1>5, <2>7, <3>1
  <2>12. Tracked(c, due, server) BY <1>0, <2>7, <2>8, <2>10, <2>11, StillTracked
  <2> QED BY <1>0, <2>4, <2>12
<1>12. CASE i \in DOMAIN b.entries
  <2>1. PICK d : d = [b EXCEPT !.cur = i] OBVIOUS
  <2>2. /\ Form(d) /\ Alike(b, d) /\ Still(b, d) /\ d.entries = b.entries /\ d.cur = i
        /\ Kind(d) = Kind(b)
        /\ (Core(b) => Core(d)) /\ (Heavy(b) => Heavy(d)) /\ (Promised(b) => Promised(d))
    BY <1>5, <1>12, <2>1, MovedIs
  <2>3. Still(page, d) BY <1>5, <2>2, StillTrans
  <2>4. CASE b.life = "closed"
    <3>1. page' = d BY <1>8, <1>12, <2>1, <2>4
    <3>2. ~Awake(d) BY <2>2, <2>4 DEF Awake, Off, Alike
    <3>3. Tracked(d, due, server) BY <1>0, <2>2, <2>3, <3>2, StillTracked
    <3> QED BY <1>0, <3>1, <3>3
  <2>5. CASE b.life # "closed"
    <3>1. PICK enhance \in BOOLEAN, safe \in BOOLEAN : page' = Arrived(d, enhance, safe)
      BY <1>8, <1>12, <2>1, <2>5
    <3>2. PICK c : c = Arrived(d, enhance, safe) OBVIOUS
    <3>3. /\ Form(c) /\ Still(d, c)
          /\ Core(d) /\ Arriving(d) /\ Awake(c) => Steady(c) /\ (Heavy(d) /\ Promised(d) => Heavy(c) /\ Holder(c))
      <4>1. enhance \in BOOLEAN /\ safe \in BOOLEAN OBVIOUS
      <4>2. Arrives(d, Arrived(d, enhance, safe)) BY <1>0, <2>2, <4>1, ArrivedIs
      <4>3. Arrives(d, c) BY <3>2, <4>2
      <4> QED BY <4>3 DEF Arrives
    <3>4. Still(page, c) BY <2>3, <3>3, StillTrans
    <3>5. Awake(c) => Awake(page) /\ c.shown = page.shown BY <3>4 DEF Still, Onward, Awake
    <3>6. ASSUME Awake(page) PROVE Core(d) /\ Arriving(d)
      <4>1. Steady(page) BY <1>0, <3>6 DEF Tracked
      <4>2. Exclusive(d) /\ Placeholder(d)
        BY <1>0, <1>5, <2>2 DEF Base, Exclusive, Placeholder, Alike, Queued
      <4>3. d.pushRecovery = {} \/ d.supersession = {} BY <1>5, <2>2, <4>1, OneWay DEF Steady, Alike, Queued
      <4>4. ASSUME d.pushRecovery # {} PROVE d.jumps = <<>> /\ d.cur < Len(d.entries)
        <5>1. page.jumps = <<-1>> /\ page.cur > 1
          BY <1>5, <2>2, <4>1, <4>4 DEF Steady, Rollback, Alike, Queued
        <5>2. h = -1 /\ j = <<>> BY <1>2, <1>3, <5>1, HeadsAndTails
        <5>3. d.jumps = <<>> BY <1>5, <2>2, <5>2 DEF Alike, Queued
        <5> QED BY <1>1, <1>7, <1>9, <2>2, <5>2, <5>3
      <4>5. d.pushRecovery # {} =>
              /\ ~d.recovering
              /\ \A t \in d.timers : t.kind # "stage"
              /\ \A r, q \in d.pushRecovery : r = q
              /\ \A r \in d.pushRecovery : /\ r.rec # NoUrl <=> r.op # 0
                                           /\ \A o \in d.ops : o.seq = r.op => o.rec # NoUrl
        BY <1>5, <2>2, <4>1 DEF Steady, Rollback, Alike, Queued
      <4>6. \A r \in d.supersession, o \in d.ops : o.seq = r.op => o.aborted
        BY <1>5, <2>2, <4>1 DEF Steady, Stepping, Alike, Queued
      <4>7. Core(d) BY <1>5, <2>2, <4>1 DEF Steady
      <4> QED BY <4>2, <4>3, <4>4, <4>5, <4>6, <4>7 DEF Arriving
    <3>7. Awake(c) => Steady(c) BY <3>3, <3>5, <3>6
    <3>8. ASSUME Awake(c), c.shown.version < due PROVE Heavy(c) /\ Holder(c)
      <4>1. Heavy(page) /\ Holder(page) BY <1>0, <3>5, <3>8 DEF Tracked
      <4>2. Loose(page) /\ Carried(page) BY <1>0 DEF Unprompted, Loose, Base
      <4>3. Promised(page) BY <1>0, <4>1, <4>2, HolderPromised
      <4>4. Heavy(d) /\ Promised(d) BY <1>5, <2>2, <4>1, <4>3
      <4> QED BY <3>3, <3>5, <3>6, <3>8, <4>4
    <3>9. Tracked(c, due, server) BY <1>0, <3>3, <3>4, <3>7, <3>8, StillTracked
    <3> QED BY <1>0, <3>1, <3>2, <3>9
  <2> QED BY <2>4, <2>5
<1> QED BY <1>11, <1>12

-----------------------------------------------------------------------------
(* The prompts, and the next document.                                     *)

\* the same operations and timers, the prompts apart
Asked(b, c) ==
  /\ c.ops = b.ops /\ c.active = b.active /\ c.timers = b.timers /\ c.carrier = b.carrier
  /\ c.entries = b.entries /\ c.cur = b.cur /\ c.shown = b.shown /\ c.truthUrl = b.truthUrl
  /\ c.traversing = b.traversing /\ c.traversal = b.traversal /\ c.recovering = b.recovering
  /\ c.mutationRecovery = b.mutationRecovery /\ c.pushRecovery = b.pushRecovery
  /\ c.supersession = b.supersession /\ c.life = b.life /\ c.jumps = b.jumps /\ c.lapsed = b.lapsed

LEMMA AskedIs ==
  ASSUME NEW b, Form(b), NEW c \in Page, Asked(b, c),
         \A d \in c.departure : d.url # NoUrl,
         \A x \in Elements(c.observers) \cup Elements(c.prompted) : x \in Elements(b.observers) \cup Elements(b.prompted)
  PROVE  /\ Form(c)
         /\ Core(b) /\ Prompting(c) => Core(c)
         /\ (Rollback(b) => Rollback(c)) /\ (Stepping(b) => Stepping(c)) /\ (Heavy(b) => Heavy(c))
         /\ (Off(b) => Off(c)) /\ Recent(c.ops, b.ops)
         /\ \A x : Guard(b, x) <=> Guard(c, x)
         /\ Holder(b) => Leaving(b) \/ Refused(b) \/ Holder(c)
<1>1. Typed(c) BY DEF Form, Typed, Asked
<1>2. Unique(c) /\ Owned(c) /\ Natives(c) BY DEF Form, Unique, Owned, Natives, Asked
<1>3. RealOps(c) /\ RealTimers(c) /\ RealHistory(c) /\ RealRecoveries(c)
  BY DEF Form, RealOps, RealTimers, RealHistory, RealRecoveries, Asked
<1>4. RealPrompts(c) BY DEF Form, RealPrompts
<1>5. Core(b) /\ Prompting(c) => Core(c)
  BY DEF Core, Single, Repeating, Posting, Interrupted, Scrolled, Ours, Asked
<1>6. (Rollback(b) => Rollback(c)) /\ (Stepping(b) => Stepping(c)) BY DEF Rollback, Stepping, Asked
<1>7. Heavy(b) => Heavy(c) BY DEF Heavy, Ours, Asked
<1>8. Off(b) => Off(c) BY DEF Off, NoReturn, Asked
<1>9. Recent(c.ops, b.ops) BY DEF Recent, Asked
<1>10. Href(c) = Href(b) BY DEF Href, Current, Asked
<1>11. \A x : Guard(b, x) <=> Guard(c, x) BY <1>10 DEF Guard, Asked
<1>12. ASSUME Holder(b), ~Leaving(b), ~Refused(b) PROVE Holder(c)
  <2>1. Requested(b) => Requested(c) BY <1>10 DEF Requested, Awaited, Asked
  <2>2. (Submitted(b) => Submitted(c)) /\ (Native(b) => Native(c)) BY DEF Submitted, Native, Asked
  <2>3. (Delayed(b) => Delayed(c)) /\ (Stepped(b) => Stepped(c)) BY DEF Delayed, Stepped, Ours, Asked
  <2> QED BY <1>12, <2>1, <2>2, <2>3 DEF Holder
<1> QED BY <1>1, <1>2, <1>3, <1>4, <1>5, <1>6, <1>7, <1>8, <1>9, <1>11, <1>12 DEF Form

LEMMA AcceptTracks ==
  ASSUME Kept, Accept
  PROVE  Tracked(page', due', server')
<1>0. /\ server \in Nat /\ server' = server /\ due' = due /\ Form(page) /\ Tracked(page, due, server)
      /\ page \in Page
  BY DEF Kept, Inv, Tracked, Accept, Quietly, Form, Typed
<1>1. PICK d \in page.departure :
         ~d.asked /\ page' = [page EXCEPT !.departure = {[d EXCEPT !.asked = TRUE]}, !.observers = <<>>, !.leaving = TRUE]
  BY DEF Accept
<1>2. PICK e \in [url : Link, asked : BOOLEAN] : e = [d EXCEPT !.asked = TRUE]
  <2>1. d \in [url : Link, asked : BOOLEAN] BY <1>0 DEF Page
  <2> QED BY <2>1
<1>3. e.url # NoUrl
  <2>1. d \in [url : Link, asked : BOOLEAN] BY <1>0 DEF Page
  <2> QED BY <1>0, <1>2, <2>1 DEF Form, RealPrompts
<1>4. PICK yes \in BOOLEAN : yes = TRUE OBVIOUS
<1>5. PICK s \in Seq(ObserverRecord) : s = <<>>
  <2>1. <<>> \in Seq(ObserverRecord) OBVIOUS
  <2> QED BY <2>1
<1>6. PICK c : c = [page EXCEPT !.departure = {e}, !.observers = s, !.leaving = yes] OBVIOUS
<1>7. page' = c BY <1>1, <1>2, <1>4, <1>5, <1>6
<1>8. c \in Page /\ c.departure = {e} /\ c.leaving = yes /\ c.observers = s /\ c.prompted = page.prompted
  <2>1. yes \in BOOLEAN /\ s \in Seq(ObserverRecord) /\ e \in [url : Link, asked : BOOLEAN] OBVIOUS
  <2> QED BY <1>0, <1>6, <2>1 DEF Page
<1>9. Asked(page, c) BY <1>0, <1>6 DEF Asked, Page
<1>10. Elements(c.observers) = {} BY <1>5, <1>8 DEF Elements
<1>11. Form(c)
  <2>1. \A y \in c.departure : y.url # NoUrl BY <1>3, <1>8
  <2> QED BY <1>0, <1>8, <1>9, <1>10, <2>1, AskedIs
<1>12. c.shown = page.shown /\ c.ops = page.ops BY <1>9 DEF Asked
<1>13. Lone(c) /\ c.departure # {} /\ ~Awake(c) BY <1>4, <1>8 DEF Lone, Awake
<1>14. Tracked(c, due, server) BY <1>0, <1>11, <1>12, <1>13 DEF Tracked
<1> QED BY <1>0, <1>7, <1>14

LEMMA JoinedIs ==
  ASSUME NEW S, NEW x \in Seq(S), NEW y \in Seq(S)
  PROVE  x \o y \in Seq(S) /\ Elements(x \o y) = Elements(x) \cup Elements(y)
<1>1. PICK p : p = x \o y OBVIOUS
<1>2. p \in Seq(S) BY <1>1
<1>3. PICK m \in Nat, n \in Nat : m = Len(x) /\ n = Len(y) OBVIOUS
<1>4. DOMAIN p = 1..(m + n) /\ DOMAIN x = 1..m /\ DOMAIN y = 1..n BY <1>1, <1>3
<1>5. \A i \in 1..(m + n) : p[i] = IF i <= m THEN x[i] ELSE y[i - m] BY <1>1, <1>3
<1>6. \A i \in 1..m : i \in 1..(m + n) /\ p[i] = x[i] BY <1>5
<1>7. \A i \in 1..n : i + m \in 1..(m + n) /\ p[i + m] = y[i]
  <2> SUFFICES ASSUME NEW i \in 1..n PROVE i + m \in 1..(m + n) /\ p[i + m] = y[i] OBVIOUS
  <2>1. i + m \in 1..(m + n) /\ ~(i + m <= m) /\ (i + m) - m = i OBVIOUS
  <2> QED BY <1>5, <2>1
<1>8. ASSUME NEW i \in 1..(m + n) PROVE p[i] \in Elements(x) \cup Elements(y)
  <2>1. CASE i <= m BY <1>4, <1>5, <2>1 DEF Elements
  <2>2. CASE i > m
    <3>1. i - m \in DOMAIN y /\ p[i] = y[i - m] BY <1>4, <1>5, <2>2
    <3> QED BY <3>1 DEF Elements
  <2> QED BY <2>1, <2>2
<1>9. Elements(p) \subseteq Elements(x) \cup Elements(y) BY <1>4, <1>8 DEF Elements
<1>10. Elements(x) \subseteq Elements(p) BY <1>4, <1>6 DEF Elements
<1>11. Elements(y) \subseteq Elements(p)
  <2> SUFFICES ASSUME NEW i \in 1..n PROVE y[i] \in Elements(p) BY <1>4 DEF Elements
  <2> QED BY <1>4, <1>7 DEF Elements
<1> QED BY <1>1, <1>2, <1>9, <1>10, <1>11

LEMMA RefuseTracks ==
  ASSUME Kept, Refuse
  PROVE  Tracked(page', due', server')
<1>0. /\ server \in Nat /\ server' = server /\ due' = due /\ Form(page) /\ Tracked(page, due, server)
      /\ page \in Page /\ ~page.leaving
  BY DEF Kept, Inv, Tracked, Refuse, Form, Typed
<1>1. PICK d \in page.departure :
         ~d.asked /\ page' = [page EXCEPT !.departure = {}, !.observers = <<>>, !.prompted = @ \o page.observers]
  BY DEF Refuse
<1>2. PICK x \in Seq(ObserverRecord), y \in Seq(ObserverRecord) : x = page.prompted /\ y = page.observers
  BY <1>0 DEF Page
<1>3. PICK p : p = x \o y OBVIOUS
<1>4. p \in Seq(ObserverRecord) /\ Elements(p) = Elements(page.prompted) \cup Elements(page.observers)
  <2>1. x \in Seq(ObserverRecord) /\ y \in Seq(ObserverRecord) OBVIOUS
  <2> QED BY <1>2, <1>3, <2>1, JoinedIs
<1>5. PICK s \in Seq(ObserverRecord) : s = <<>>
  <2>1. <<>> \in Seq(ObserverRecord) OBVIOUS
  <2> QED BY <2>1
<1>6. PICK c : c = [page EXCEPT !.departure = {}, !.observers = s, !.prompted = p] OBVIOUS
<1>7. page' = c BY <1>0, <1>1, <1>2, <1>3, <1>5, <1>6 DEF Page
<1>8. c \in Page /\ c.departure = {} /\ c.observers = s /\ c.prompted = p /\ c.leaving = page.leaving
  <2>1. s \in Seq(ObserverRecord) OBVIOUS
  <2> QED BY <1>0, <1>4, <1>6, <2>1 DEF Page
<1>9. Asked(page, c) BY <1>0, <1>6 DEF Asked, Page
<1>10. Elements(c.observers) = {} BY <1>5, <1>8 DEF Elements
<1>11. /\ Form(c)
       /\ Core(page) /\ Prompting(c) => Core(c)
       /\ (Rollback(page) => Rollback(c)) /\ (Stepping(page) => Stepping(c)) /\ (Heavy(page) => Heavy(c))
       /\ (Off(page) => Off(c))
       /\ \A z : Guard(page, z) <=> Guard(c, z)
       /\ Holder(page) => Leaving(page) \/ Refused(page) \/ Holder(c)
  <2>1. \A z \in Elements(c.observers) \cup Elements(c.prompted) :
          z \in Elements(page.observers) \cup Elements(page.prompted)
    BY <1>4, <1>8, <1>10
  <2> QED BY <1>0, <1>8, <1>9, <2>1, AskedIs
<1>12. c.shown = page.shown /\ c.ops = page.ops BY <1>9 DEF Asked
<1>13. Lone(c) /\ ~c.leaving BY <1>0, <1>8 DEF Lone
<1>14. ASSUME Awake(c)
       PROVE  Steady(c) /\ Newest(c, due) /\ (c.shown.version < due => Heavy(c) /\ Holder(c))
  <2>1. Awake(page) BY <1>0, <1>11, <1>14 DEF Awake
  <2>2. Steady(page) /\ Newest(page, due) /\ (page.shown.version < due => Heavy(page) /\ Holder(page))
    BY <1>0, <2>1 DEF Tracked
  <2>3. Prompting(c) BY <1>10 DEF Prompting
  <2>4. Leaving(page) \/ Refused(page) => Refused(c) BY <1>4, <1>8, <1>11 DEF Leaving, Refused
  <2>5. Holder(page) => Holder(c) BY <1>11, <2>4 DEF Holder
  <2> QED BY <1>11, <1>12, <2>2, <2>3, <2>5 DEF Steady, Newest
<1>15. Tracked(c, due, server) BY <1>0, <1>11, <1>12, <1>13, <1>14 DEF Tracked
<1> QED BY <1>0, <1>7, <1>15

LEMMA LoadedTracked ==
  ASSUME NEW es \in Seq(Entry), NEW i \in DOMAIN es, \A k \in DOMAIN es : es[k].url # NoUrl,
         NEW v \in Nat, NEW d \in Nat, d <= v
  PROVE  Tracked(Loaded(es, i, v), d, v)
<1>1. PICK c : c = Loaded(es, i, v) OBVIOUS
<1>2. Sound(Loaded(es, i, v)) BY LoadedIs
<1>3. Typed(c) /\ Unique(c) BY <1>1, <1>2 DEF Sound, Base
<1>4. /\ c.ops = {} /\ c.active = 0 /\ c.timers = {} /\ c.pushRecovery = {} /\ c.mutationRecovery = {}
      /\ c.supersession = {} /\ c.departure = {} /\ ~c.recovering /\ ~c.leaving /\ c.entries = es
      /\ c.observers = <<>> /\ c.prompted = <<>> /\ c.shown.version = v /\ c.truthUrl = es[i].url
  BY <1>1 DEF Loaded
<1>5. Elements(c.observers) = {} /\ Elements(c.prompted) = {} BY <1>4 DEF Elements
<1>6. Owned(c) /\ Natives(c) /\ RealOps(c) /\ RealTimers(c) /\ RealRecoveries(c)
  BY <1>4 DEF Owned, Natives, RealOps, RealTimers, RealRecoveries
<1>7. RealHistory(c) /\ RealPrompts(c) BY <1>4, <1>5 DEF RealHistory, RealPrompts
<1>8. Form(c) BY <1>3, <1>6, <1>7 DEF Form
<1>9. Core(c) BY <1>4, <1>5 DEF Core, Single, Repeating, Posting, Interrupted, Scrolled, Prompting
<1>10. Rollback(c) /\ Stepping(c) BY <1>4 DEF Rollback, Stepping
<1>11. Tracked(c, d, v) BY <1>4, <1>8, <1>9, <1>10 DEF Tracked, Lone, Steady, Newest
<1> QED BY <1>1, <1>11

LEMMA LoadTracks ==
  ASSUME Kept, Load
  PROVE  Tracked(page', due', server')
<1>0. /\ server \in Nat /\ server' = server /\ due' = due /\ Form(page) /\ due \in Nat /\ due <= server
      /\ page \in Page
  BY DEF Kept, Inv, Tracked, Load, Form, Typed
<1>1. PICK d \in page.departure : page' = Loaded(<<[url |-> d.url, id |-> 1]>>, 1, server) BY DEF Load
<1>2. d.url \in Link /\ d.url # NoUrl BY <1>0 DEF Form, RealPrompts, Page
<1>3. PICK e \in Entry : e = [url |-> d.url, id |-> 1] BY <1>2 DEF Entry
<1>4. e.url # NoUrl BY <1>2, <1>3
<1>5. PICK es : es = <<e>> OBVIOUS
<1>6. es \in Seq(Entry) /\ 1 \in DOMAIN es /\ \A k \in DOMAIN es : es[k].url # NoUrl BY <1>4, <1>5
<1>7. Tracked(Loaded(es, 1, server), due, server) BY <1>0, <1>6, LoadedTracked
<1> QED BY <1>0, <1>1, <1>3, <1>5, <1>7

\* the observer obs of the prompt that was refused is told so
LEMMA HeardIs ==
  ASSUME Kept, page.prompted # <<>>, NEW obs, obs = Head(page.prompted),
         NEW b, b = [page EXCEPT !.prompted = Tail(@)]
  PROVE  /\ Form(b) /\ Asked(page, b) /\ Still(page, b) /\ obs \in ObserverRecord /\ obs.truth # NoUrl
         /\ b.life = "closing" /\ obs.kind = "close" /\ obs.rec # NoUrl => ~Off(page) \/ b.lapsed
         /\ (Core(page) => Core(b)) /\ (Rollback(page) => Rollback(b)) /\ (Stepping(page) => Stepping(b))
         /\ (Heavy(page) => Heavy(b) /\ obs.rec # NoUrl)
         /\ Holder(page) => Holder(b) \/ Guard(b, obs)
<1>0. Form(page) /\ page \in Page /\ page.prompted \in Seq(ObserverRecord) BY DEF Kept, Tracked, Form, Typed, Page
<1>1. PICK t \in Seq(ObserverRecord) : t = Tail(page.prompted) BY <1>0, TailIs
<1>2. /\ obs \in ObserverRecord /\ obs \in Elements(page.prompted)
      /\ Elements(t) \subseteq Elements(page.prompted)
      /\ Elements(page.prompted) \subseteq Elements(t) \cup {obs}
  BY <1>0, <1>1, TailIs
<1>3. b = [page EXCEPT !.prompted = t] BY <1>0, <1>1 DEF Page
<1>4. /\ b \in Page /\ b.prompted = t /\ b.departure = page.departure /\ b.observers = page.observers
      /\ b.leaving = page.leaving
  BY <1>0, <1>3, ZenonT(60) DEF Page
<1>5. Asked(page, b) BY <1>0, <1>3 DEF Asked, Page
<1>6. /\ Form(b)
      /\ Core(page) /\ Prompting(b) => Core(b)
      /\ (Rollback(page) => Rollback(b)) /\ (Stepping(page) => Stepping(b)) /\ (Heavy(page) => Heavy(b))
      /\ (Off(page) => Off(b)) /\ Recent(b.ops, page.ops)
      /\ \A x : Guard(page, x) <=> Guard(b, x)
      /\ Holder(page) => Leaving(page) \/ Refused(page) \/ Holder(b)
  <2>1. \A d \in b.departure : d.url # NoUrl BY <1>0, <1>4 DEF Form, RealPrompts
  <2>2. \A x \in Elements(b.observers) \cup Elements(b.prompted) :
          x \in Elements(page.observers) \cup Elements(page.prompted)
    BY <1>2, <1>4
  <2> QED BY <1>0, <1>4, <1>5, <2>1, <2>2, AskedIs, ZenonT(60)
<1>7. Core(page) => Core(b) BY <1>4, <1>6 DEF Core, Prompting, Unasked
<1>8. Still(page, b) BY <1>4, <1>5, <1>6 DEF Still, Onward, Lone, Asked
<1>9. ASSUME b.life = "closing", obs.kind = "close", obs.rec # NoUrl PROVE ~Off(page) \/ b.lapsed
  BY <1>2, <1>5, <1>9 DEF Off, NoReturn, Asked
<1>10. Heavy(page) => obs.rec # NoUrl BY <1>2 DEF Heavy
<1>11. obs.truth # NoUrl BY <1>0, <1>2 DEF Form, RealPrompts
<1>12. ASSUME Holder(page), ~Guard(b, obs) PROVE Holder(b)
  <2>1. Leaving(page) => Leaving(b) BY <1>4, <1>6 DEF Leaving, Unasked
  <2>2. Refused(page) => Refused(b)
    <3> SUFFICES ASSUME Refused(page) PROVE Refused(b) OBVIOUS
    <3>1. PICK x \in Elements(page.prompted) : x.rec # NoUrl /\ Guard(page, x) BY DEF Refused
    <3>2. Guard(b, x) /\ x # obs BY <1>6, <1>12, <3>1
    <3>3. x \in Elements(b.prompted) BY <1>2, <1>4, <3>2
    <3> QED BY <3>1, <3>2, <3>3 DEF Refused
  <2> QED BY <1>6, <1>12, <2>1, <2>2 DEF Holder
<1> QED BY <1>2, <1>5, <1>6, <1>7, <1>8, <1>9, <1>10, <1>11, <1>12

\* what a refusal recovers
LEMMA RecoverResumes ==
  ASSUME server \in Nat, NEW b, Form(b), NEW url \in Link, url # NoUrl
  PROVE  Resumes(b, RecoverCommitted(b, url))
<1>1. PICK c : c = RecoverCommitted(b, url) OBVIOUS
<1>2. /\ Form(c) /\ Still(b, c) /\ Requested(c)
      /\ (Calm(b) => Core(c)) /\ (Rollback(b) => Rollback(c)) /\ (Stepping(b) => Stepping(c))
      /\ (Heavy(b) => Heavy(c))
  BY <1>1, RecoverCommittedIs
<1>3. Core(b) => Calm(b) BY DEF Core, Calm
<1>4. Resumes(b, c) BY <1>2, <1>3 DEF Resumes, Holder
<1> QED BY <1>1, <1>4

LEMMA CheckTracks ==
  ASSUME Kept, Check
  PROVE  Tracked(page', due', server')
<1>0. /\ server \in Nat /\ server' = server /\ due' = due /\ Form(page) /\ Tracked(page, due, server)
      /\ page.prompted # <<>>
  BY DEF Kept, Inv, Tracked, Check, Quietly
<1>1. PICK b : b = [page EXCEPT !.prompted = Tail(@)] OBVIOUS
<1>2. PICK obs : obs = Head(page.prompted) OBVIOUS
<1>3. /\ Form(b) /\ Asked(page, b) /\ Still(page, b) /\ obs \in ObserverRecord /\ obs.truth # NoUrl
      /\ b.life = "closing" /\ obs.kind = "close" /\ obs.rec # NoUrl => ~Off(page) \/ b.lapsed
      /\ (Core(page) => Core(b)) /\ (Rollback(page) => Rollback(b)) /\ (Stepping(page) => Stepping(b))
      /\ (Heavy(page) => Heavy(b) /\ obs.rec # NoUrl)
      /\ Holder(page) => Holder(b) \/ Guard(b, obs)
  BY <1>0, <1>1, <1>2, HeardIs
<1>4. Awake(page) => Steady(b) BY <1>0, <1>3 DEF Tracked, Steady
<1>5. Awake(b) => Awake(page) /\ b.shown = page.shown BY <1>3 DEF Still, Onward, Awake
<1>6. PICK u \in Link, v \in Link : u = obs.truth /\ v = obs.rec BY <1>3 DEF ObserverRecord
<1>7. PICK t : t = IF obs.kind # "staged" /\ obs.repair THEN CloseTraversal(b) ELSE b OBVIOUS
<1>8. /\ Form(t) /\ Still(b, t)
      /\ (Core(b) => Core(t)) /\ (Rollback(b) => Rollback(t)) /\ (Stepping(b) => Stepping(t))
      /\ (Heavy(b) => Heavy(t))
  <2>1. CASE obs.kind # "staged" /\ obs.repair
    <3>1. t = CloseTraversal(b) BY <1>7, <2>1
    <3>2. /\ Paused(b, t) /\ Form(t)
          /\ (Core(b) => Core(t)) /\ (Rollback(b) => Rollback(t)) /\ (Stepping(b) => Stepping(t))
          /\ (Heavy(b) => Heavy(t))
      BY <1>3, <3>1, CloseTraversalIs
    <3> QED BY <3>2, StillPaused
  <2>2. CASE ~(obs.kind # "staged" /\ obs.repair)
    <3>1. t = b BY <1>7, <2>2
    <3>2. Still(b, b) BY DEF Still, Onward, Recent
    <3> QED BY <1>3, <3>1, <3>2
  <2> QED BY <2>1, <2>2
<1>9. PICK r : r = RepairDisplayedTruth(t, u) OBVIOUS
<1>10. /\ Form(r) /\ Still(t, r)
       /\ (Core(t) => Core(r)) /\ (Rollback(t) => Rollback(r)) /\ (Stepping(t) => Stepping(r))
       /\ (Heavy(t) => Heavy(r))
  <2>1. u \in Link /\ u # NoUrl BY <1>3, <1>6
  <2>2. /\ Form(r) /\ Alike(t, r) /\ r.shown = t.shown /\ r.leaving = t.leaving
        /\ (Core(t) => Core(r)) /\ (Rollback(t) => Rollback(r)) /\ (Stepping(t) => Stepping(r))
        /\ (Heavy(t) => Heavy(r))
    BY <1>8, <1>9, <2>1, RepairIs
  <2> QED BY <2>2, StillAlike
<1>11. Still(page, t) BY <1>3, <1>8, StillTrans
<1>12. Still(page, r) BY <1>10, <1>11, StillTrans
<1>13. Awake(page) => Steady(r) BY <1>4, <1>8, <1>10 DEF Steady
<1>14. Heavy(page) => Heavy(r) BY <1>3, <1>8, <1>10
<1>15. PICK act \in {"active", "closing", "closed"} : act = "active" OBVIOUS
<1>16. PICK end \in {"active", "closing", "closed"} : end = "closed" OBVIOUS
<1>17. PICK w : w = [b EXCEPT !.life = act] OBVIOUS
<1>18. PICK z : z = [r EXCEPT !.life = end] OBVIOUS
<1>19. page' = IF b.life # "closed" /\ Guard(b, obs) THEN Repaired(b, obs) ELSE b
  BY <1>1, <1>2 DEF Check
<1>20. Repaired(b, obs) = CASE obs.kind = "close" -> IF v # NoUrl THEN RecoverCommitted(w, v) ELSE z
                             [] obs.kind = "fallback" /\ v # NoUrl ->
                                  RecoverCommitted(IF obs.repair THEN r ELSE b, v)
                             [] OTHER -> IF v # NoUrl THEN RecoverCommitted(r, v) ELSE r
  BY <1>6, <1>7, <1>9, <1>15, <1>16, <1>17, <1>18 DEF Repaired
<1>21. CASE ~(b.life # "closed" /\ Guard(b, obs))
  <2>1. page' = b BY <1>19, <1>21
  <2>2. ASSUME Awake(b), b.shown.version < due PROVE Heavy(b) /\ Holder(b)
    <3>1. Heavy(page) /\ Holder(page) BY <1>0, <1>5, <2>2 DEF Tracked
    <3>2. b.life # "closed" BY <2>2 DEF Awake, Off
    <3> QED BY <1>3, <1>21, <3>1, <3>2
  <2>3. Awake(b) => Steady(b) BY <1>4, <1>5
  <2>4. Tracked(b, due, server) BY <1>0, <1>3, <2>2, <2>3, StillTracked
  <2> QED BY <1>0, <2>1, <2>4
<1>22. CASE b.life # "closed" /\ Guard(b, obs) /\ obs.kind = "close" /\ v # NoUrl
  <2>1. b.life = "closing" BY <1>22 DEF Guard
  <2>2. /\ Form(w) /\ Lived(b, w, act)
        /\ (Core(b) => Core(w)) /\ (Rollback(b) => Rollback(w)) /\ (Stepping(b) => Stepping(w)) /\ (Heavy(b) => Heavy(w))
    BY <1>3, <1>15, <1>17, LivedIs
  <2>3. Still(page, w)
    <3>1. Off(page) => Off(w) BY <1>3, <1>6, <1>22, <2>1, <2>2 DEF Off, Lived
    <3>2. /\ w.leaving = b.leaving /\ w.departure = b.departure /\ w.ops = b.ops /\ w.shown = b.shown
      BY <2>2 DEF Lived
    <3> QED BY <1>3, <3>1, <3>2 DEF Still, Onward, Lone
  <2>4. Awake(page) => Steady(w) BY <1>4, <2>2 DEF Steady
  <2>5. Heavy(page) => Heavy(w) BY <1>3, <2>2
  <2>6. PICK c : c = RecoverCommitted(w, v) OBVIOUS
  <2>7. page' = c BY <1>19, <1>20, <1>22, <2>6
  <2>8. Resumes(w, RecoverCommitted(w, v)) BY <1>0, <1>22, <2>2, RecoverResumes
  <2>9. Resumes(w, c) BY <2>6, <2>8
  <2>10. Tracked(c, due, server) BY <2>3, <2>4, <2>5, <2>9, ResumesTracked
  <2> QED BY <1>0, <2>7, <2>10
<1>23. CASE b.life # "closed" /\ Guard(b, obs) /\ obs.kind = "close" /\ v = NoUrl
  <2>1. page' = z BY <1>19, <1>20, <1>23
  <2>2. Form(z) /\ Lived(r, z, end) BY <1>10, <1>18, LivedIs
  <2>3. Off(z) BY <1>16, <2>2 DEF Lived, Off
  <2>4. Still(r, z) BY <2>2, <2>3 DEF Still, Onward, Lone, Recent, Lived
  <2>5. Still(page, z) BY <1>12, <2>4, StillTrans
  <2>6. Tracked(z, due, server) BY <1>0, <2>2, <2>3, <2>5, StillTracked DEF Awake
  <2> QED BY <1>0, <2>1, <2>6
<1>24. CASE b.life # "closed" /\ Guard(b, obs) /\ obs.kind # "close" /\ v = NoUrl
  <2>1. page' = r BY <1>19, <1>20, <1>24
  <2>2. Awake(r) => Awake(page) /\ r.shown = page.shown BY <1>12 DEF Still, Onward, Awake
  <2>3. ~(Awake(r) /\ r.shown.version < due) BY <1>0, <1>3, <1>6, <1>24, <2>2 DEF Tracked
  <2>4. Tracked(r, due, server) BY <1>0, <1>10, <1>12, <1>13, <2>2, <2>3, StillTracked
  <2> QED BY <1>0, <2>1, <2>4
<1>25. CASE b.life # "closed" /\ Guard(b, obs) /\ obs.kind # "close" /\ v # NoUrl
  <2>1. PICK x : x = IF obs.kind = "fallback" /\ ~obs.repair THEN b ELSE r OBVIOUS
  <2>2. Form(x) /\ Still(page, x) /\ (Awake(page) => Steady(x)) /\ (Heavy(page) => Heavy(x))
    <3>1. CASE x = b BY <1>3, <1>4, <3>1
    <3>2. CASE x = r BY <1>10, <1>12, <1>13, <1>14, <3>2
    <3> QED BY <2>1, <3>1, <3>2
  <2>3. PICK c : c = RecoverCommitted(x, v) OBVIOUS
  <2>4. page' = c BY <1>19, <1>20, <1>25, <2>1, <2>3
  <2>5. Resumes(x, RecoverCommitted(x, v)) BY <1>0, <1>25, <2>2, RecoverResumes
  <2>6. Resumes(x, c) BY <2>3, <2>5
  <2>7. Tracked(c, due, server) BY <2>2, <2>6, ResumesTracked
  <2> QED BY <1>0, <2>4, <2>7
<1> QED BY <1>6, <1>21, <1>22, <1>23, <1>24, <1>25

-----------------------------------------------------------------------------
(* The answers.                                                            *)

LEMMA LeavingOthers ==
  ASSUME NEW b, NEW c, Others(b, c), Leaving(b)
  PROVE  Leaving(c)
<1>1. \A x : Guard(b, x) => Guard(c, x) BY DEF Guard, Others, Href, Current
<1> QED BY <1>1 DEF Leaving, Unasked, Others

\* an operation that ends with a native load
Gone(b, c, rec) ==
  /\ Form(c) /\ Still(b, c)
  /\ (Core(b) => Core(c)) /\ (Rollback(b) => Rollback(c)) /\ (Stepping(b) => Stepping(c))
  /\ rec # NoUrl => (Heavy(b) => Heavy(c)) /\ Leaving(c)

LEMMA FallbackEnds ==
  ASSUME NEW b, Form(b), NEW o \in Operation, o.seq = b.carrier => o \in b.ops /\ o.aborted,
         NEW url \in Link, url # NoUrl, NEW repair \in BOOLEAN, NEW rec \in Link
  PROVE  Gone(b, EndOp(Fallback(b, url, repair, rec), o), rec)
<1>1. PICK f : f = Fallback(b, url, repair, rec) OBVIOUS
<1>2. Away(b, Fallback(b, url, repair, rec), rec) BY FallbackAway
<1>3. Away(b, f, rec) BY <1>1, <1>2
<1>4. /\ Form(f) /\ Still(b, f) /\ Undisturbed(b, f)
      /\ (Core(b) => Core(f)) /\ (Rollback(b) => Rollback(f)) /\ (Stepping(b) => Stepping(f))
      /\ (rec # NoUrl => (Heavy(b) => Heavy(f)) /\ Leaving(f))
  BY <1>3 DEF Away
<1>5. o.seq = f.carrier => o \in f.ops /\ o.aborted BY <1>4 DEF Undisturbed
<1>6. PICK c : c = EndOp(f, o) OBVIOUS
<1>7. /\ Form(c) /\ Others(f, c) /\ Still(f, c)
      /\ (Core(f) => Core(c)) /\ (Rollback(f) => Rollback(c)) /\ (Stepping(f) => Stepping(c))
      /\ (Heavy(f) => Heavy(c))
  BY <1>4, <1>5, <1>6, EndOpForm
<1>8. Still(b, c) BY <1>4, <1>7, StillTrans
<1>9. rec # NoUrl => Leaving(c) BY <1>4, <1>7, LeavingOthers
<1>10. Gone(b, c, rec) BY <1>4, <1>7, <1>8, <1>9 DEF Gone
<1> QED BY <1>1, <1>6, <1>10

\* what held the recovery still does when an aborted operation ends
LEMMA EndHolds ==
  ASSUME NEW b, Form(b), Core(b), NEW o \in b.ops, o.aborted, NEW c, c = EndOp(b, o), Holder(b)
  PROVE  Holder(c)
<1>0. Typed(b) /\ Unique(b) /\ o \in Operation /\ o.seq # 0 BY DEF Form, Typed, Page, Operation
<1>1. /\ Form(c) /\ Others(b, c)
      /\ c.active = (IF b.active = o.seq /\ b.carrier # o.seq THEN 0 ELSE b.active)
      /\ (\A x \in b.ops : x.seq # o.seq => x \in c.ops)
      /\ (b.carrier = o.seq => \E x \in c.ops : x.seq = o.seq)
  BY <1>0, EndOpForm
<1>2. Href(c) = Href(b) BY <1>1 DEF Href, Current, Others
<1>3. ASSUME Requested(b) PROVE Requested(c)
  <2>1. PICK x \in b.ops : x.seq = b.active /\ x.rec # NoUrl /\ ~x.aborted /\ Awaited(b, x) BY <1>3 DEF Requested
  <2>2. x.seq # o.seq BY <1>0, <2>1 DEF Unique
  <2>3. x \in c.ops /\ c.active = b.active BY <1>1, <2>1, <2>2
  <2>4. Awaited(c, x) BY <1>1, <1>2, <2>1 DEF Awaited, Others
  <2> QED BY <2>1, <2>3, <2>4 DEF Requested
<1>4. ASSUME Submitted(b) PROVE Submitted(c) \/ Stepped(c)
  <2>1. PICK x \in b.ops : x.seq = b.active /\ x.kind = "post" BY <1>4 DEF Submitted
  <2>2. CASE x.seq # o.seq BY <1>1, <2>1, <2>2 DEF Submitted
  <2>3. CASE x.seq = o.seq
    <3>1. x = o BY <1>0, <2>3 DEF Unique
    <3>2. b.mutationRecovery # {} BY <2>1, <3>1 DEF Core, Posting
    <3> QED BY <1>1, <3>2 DEF Stepped, Others
  <2> QED BY <2>2, <2>3
<1>5. ASSUME Native(b) PROVE Native(c)
  <2>1. PICK x \in b.ops : x.seq = b.active /\ x.seq = b.carrier BY <1>5 DEF Native
  <2>2. c.active = b.active /\ c.carrier = b.carrier BY <1>1, <2>1 DEF Others
  <2>3. CASE x.seq # o.seq BY <1>1, <2>1, <2>2, <2>3 DEF Native
  <2>4. CASE x.seq = o.seq BY <1>1, <2>1, <2>2, <2>4 DEF Native
  <2> QED BY <2>3, <2>4
<1>6. (Leaving(b) => Leaving(c)) /\ (Refused(b) => Refused(c))
  <2>1. \A x : Guard(b, x) => Guard(c, x) BY <1>1, <1>2 DEF Guard, Others
  <2> QED BY <1>1, <2>1 DEF Leaving, Refused, Unasked, Others
<1>7. (Delayed(b) => Delayed(c)) /\ (Stepped(b) => Stepped(c)) BY <1>1 DEF Delayed, Stepped, Ours, Others
<1> QED BY <1>3, <1>4, <1>5, <1>6, <1>7 DEF Holder

LEMMA OnwardNewest ==
  ASSUME server \in Nat, NEW b, NEW c, Onward(b, c), NEW d \in Nat, d <= server, Newest(b, d)
  PROVE  Newest(c, d)
BY DEF Onward, Recent, Newest

LEMMA OnwardStill ==
  ASSUME NEW a, NEW b, NEW c, Onward(a, b), Still(b, c)
  PROVE  Onward(a, c)
<1>1. Recent(c.ops, a.ops)
  <2> SUFFICES ASSUME NEW o \in c.ops
               PROVE  \/ o.began = server
                      \/ \E q \in a.ops : o.began = q.began /\ (~o.aborted /\ o.kind = "nav" => ~q.aborted /\ q.kind = "nav")
    BY DEF Recent
  <2>1. CASE o.began = server BY <2>1
  <2>2. CASE \E q \in b.ops : o.began = q.began /\ (~o.aborted /\ o.kind = "nav" => ~q.aborted /\ q.kind = "nav")
    <3>1. PICK q \in b.ops : o.began = q.began /\ (~o.aborted /\ o.kind = "nav" => ~q.aborted /\ q.kind = "nav")
      BY <2>2
    <3>2. q.began = server \/ \E p \in a.ops : q.began = p.began /\ (~q.aborted /\ q.kind = "nav" => ~p.aborted /\ p.kind = "nav")
      BY DEF Onward, Recent
    <3> QED BY <3>1, <3>2
  <2> QED BY <2>1, <2>2 DEF Still, Onward, Recent
<1> QED BY <1>1 DEF Still, Onward

\* a document no older than what it owes
LEMMA OnwardTracked ==
  ASSUME server \in Nat, NEW b, NEW d, Tracked(b, d, server), NEW e \in Nat, e <= server, NEW c, Form(c), Onward(b, c),
         c.shown.version <= server, Awake(c) => Steady(c) /\ Newest(c, e) /\ ~(c.shown.version < e)
  PROVE  Tracked(c, e, server)
<1>1. \A o \in c.ops : o.began <= server
  <2> SUFFICES ASSUME NEW o \in c.ops PROVE o.began <= server OBVIOUS
  <2>1. o.began = server \/ \E q \in b.ops : o.began = q.began BY DEF Onward, Recent
  <2> QED BY <2>1 DEF Tracked
<1> QED BY <1>1 DEF Tracked, Onward

\* what an operation that has lost the page leaves behind
LEMMA ObsoleteTracks ==
  ASSUME Kept, NEW o \in page.ops, ~Owns(page, o), Arrive(o)
  PROVE  Tracked(page', due', server')
<1>0. /\ server \in Nat /\ server' = server /\ Form(page) /\ Tracked(page, due, server) /\ Carried(page)
      /\ o \in Operation /\ o.truth \in Link /\ o.truth # NoUrl
  BY DEF Kept, Inv, Sound, Base, Tracked, Arrive, Form, Typed, Page, RealOps, Operation
<1>1. o.seq = page.carrier => o \in page.ops /\ o.aborted BY <1>0 DEF Carried
<1>2. Awake(page) => o.aborted BY <1>0 DEF Tracked, Steady, Core, Single, Owns
<1>3. PICK c : c = page' OBVIOUS
<1>4. c = Obsolete(page, o) BY <1>3 DEF Arrive
<1>5. PICK no \in BOOLEAN : no = FALSE OBVIOUS
<1>6. no \in BOOLEAN OBVIOUS
<1>7. /\ Form(c) /\ Still(page, c)
      /\ (Core(page) => Core(c)) /\ (Rollback(page) => Rollback(c)) /\ (Stepping(page) => Stepping(c))
      /\ (Heavy(page) => Heavy(c)) /\ (Core(page) /\ o.aborted /\ Holder(page) => Holder(c))
  <2>1. CASE c = EndOp(Fallback(page, o.truth, FALSE, o.truth), o)
    <3>1. c = EndOp(Fallback(page, o.truth, no, o.truth), o) BY <1>5, <2>1
    <3>2. Gone(page, EndOp(Fallback(page, o.truth, no, o.truth), o), o.truth) BY <1>0, <1>1, <1>6, FallbackEnds
    <3>3. Gone(page, c, o.truth) BY <3>1, <3>2
    <3> QED BY <1>0, <3>3 DEF Gone, Holder
  <2>2. CASE c = EndOp(page, o)
    <3>1. /\ Form(c) /\ Still(page, c)
          /\ (Core(page) => Core(c)) /\ (Rollback(page) => Rollback(c)) /\ (Stepping(page) => Stepping(c))
          /\ (Heavy(page) => Heavy(c))
      BY <1>0, <1>1, <2>2, EndOpForm
    <3>2. Core(page) /\ o.aborted /\ Holder(page) => Holder(c) BY <1>0, <2>2, EndHolds
    <3> QED BY <3>1, <3>2
  <2> QED BY <1>4, <2>1, <2>2 DEF Obsolete
<1>8. Awake(c) => Awake(page) /\ c.shown = page.shown BY <1>7 DEF Still, Onward, Awake
<1>9. CASE due' = due
  <2>1. Awake(c) => Steady(c) /\ (c.shown.version < due => Heavy(c) /\ Holder(c))
    BY <1>0, <1>2, <1>7, <1>8 DEF Tracked, Steady
  <2>2. Tracked(c, due, server) BY <1>0, <1>7, <2>1, StillTracked
  <2> QED BY <1>0, <1>3, <1>9, <2>2
<1>10. CASE due' # due
  <2>1. due' = server /\ ~o.aborted BY <1>10 DEF Arrive
  <2>2. ~Awake(page) BY <1>2, <2>1
  <2>3. Tracked(c, server, server) BY <1>0, <1>7, <1>8, <2>2, StillOwing
  <2> QED BY <1>0, <1>3, <2>1, <2>3
<1> QED BY <1>9, <1>10

\* nothing else is under way when an answer is used
LEMMA WaitingIs ==
  ASSUME NEW b, Form(b), Owed(b), Awake(b), Steady(b), Waiting(b)
  PROVE  /\ b.mutationRecovery = {} /\ b.pushRecovery = {} /\ b.supersession = {} /\ b.jumps = <<>>
         /\ (\A t \in b.timers : t.kind # "stage") /\ Loose(b)
<1>1. b.jumps = <<>> /\ (\A t \in b.timers : t.kind = "traversal") /\ Loose(b) BY DEF Waiting, Loose
<1>2. <<>> # <<-1>> /\ <<>> # <<1>> /\ <<>> # <<-1, 1>>
  <2>1. Len(<<>>) = 0 /\ Len(<<-1>>) = 1 /\ Len(<<1>>) = 1 /\ Len(<<-1, 1>>) = 2 OBVIOUS
  <2> QED BY <2>1
<1>3. b.pushRecovery = {} BY <1>1, <1>2 DEF Steady, Rollback
<1>4. b.supersession = {} BY <1>1, <1>2 DEF Steady, Stepping
<1>5. Elements(b.jumps) = {} BY <1>1 DEF Elements
<1>6. b.mutationRecovery = {} BY <1>1, <1>5 DEF Owed, Awake, Off
<1> QED BY <1>1, <1>3, <1>4, <1>6

LEMMA SelectedStill ==
  ASSUME NEW b, NEW c, Alike(b, c), c.shown = b.shown, c.leaving = b.leaving
  PROVE  Still(b, c)
BY DEF Still, Onward, Off, NoReturn, Lone, Recent, Alike

\* the answer of a navigation, which replaces the document, loads it natively or rolls it back
LEMMA AnswerNavigationTracks ==
  ASSUME Kept, Waiting(page), NEW o \in page.ops, Owns(page, o), o.kind = "nav", NEW c \in AnswerNavigation(page, o)
  PROVE  Tracked(c, due, server)
<1>0. /\ server \in Nat /\ Form(page) /\ Tracked(page, due, server) /\ Carried(page) /\ Owed(page)
      /\ Typed(page) /\ Unique(page)
      /\ o \in Operation /\ o.seq = page.active /\ ~o.aborted /\ due \in Nat /\ due <= server
  BY DEF Kept, Inv, Sound, Base, Tracked, Form, Typed, Page, Owns
<1>1. /\ o.url \in Link /\ o.url # NoUrl /\ o.truth \in Link /\ o.truth # NoUrl /\ o.rec \in Link
      /\ o.replace \in BOOLEAN /\ o.began \in Nat /\ o.began <= server
  BY <1>0 DEF Form, RealOps, Operation, Tracked
<1>2. o.seq # page.carrier BY <1>0 DEF Carried
<1>3. ASSUME Awake(page)
      PROVE  /\ Steady(page) /\ page.mutationRecovery = {} /\ page.pushRecovery = {} /\ page.supersession = {}
             /\ page.jumps = <<>> /\ (\A t \in page.timers : t.kind # "stage") /\ Loose(page)
  <2>1. Steady(page) BY <1>0, <1>3 DEF Tracked
  <2> QED BY <1>0, <1>3, <2>1, WaitingIs
<1>4. ASSUME Awake(page), page.shown.version < due PROVE Heavy(page) /\ o.rec # NoUrl
  <2>1. Heavy(page) /\ Holder(page) BY <1>0, <1>4 DEF Tracked
  <2>2. Promised(page) BY <1>0, <1>3, <1>4, <2>1, HolderPromised
  <2>3. Kind(page) = "nav" BY <1>0, ActiveIs
  <2>4. Delayed(page) => o.rec # NoUrl BY <1>0, <1>3, <1>4, <2>1 DEF Delayed, Heavy, Steady, Core, Scrolled
  <2>5. ~Stepped(page) BY <1>3, <1>4 DEF Stepped
  <2> QED BY <1>0, <2>1, <2>2, <2>3, <2>4, <2>5 DEF Promised, Unique
<1>5. ASSUME Form(c), Still(page, c), Awake(page) => Steady(c),
             o.rec # NoUrl => (Heavy(page) => Heavy(c)) /\ Holder(c)
      PROVE  Tracked(c, due, server)
  <2>1. Awake(c) => Awake(page) /\ c.shown = page.shown BY <1>5 DEF Still, Onward, Awake
  <2>2. Awake(c) => Steady(c) /\ (c.shown.version < due => Heavy(c) /\ Holder(c)) BY <1>4, <1>5, <2>1
  <2> QED BY <1>0, <1>5, <2>2, StillTracked
<1>6. PICK yes \in BOOLEAN, no \in BOOLEAN : yes = TRUE /\ no = FALSE OBVIOUS
<1>13. PICK rp \in BOOLEAN : rp = o.replace BY <1>1
<1>7. yes \in BOOLEAN /\ no \in BOOLEAN /\ rp \in BOOLEAN OBVIOUS
<1>8. ASSUME NEW u \in Link, u # NoUrl, c = EndOp(Fallback(page, u, no, o.rec), o) PROVE Tracked(c, due, server)
  <2>1. Gone(page, EndOp(Fallback(page, u, no, o.rec), o), o.rec) BY <1>0, <1>1, <1>2, <1>7, <1>8, FallbackEnds
  <2>2. Gone(page, c, o.rec) BY <1>8, <2>1
  <2>3. Awake(page) => Steady(c) BY <1>3, <2>2 DEF Gone, Steady
  <2>4. Form(c) /\ Still(page, c) /\ (o.rec # NoUrl => (Heavy(page) => Heavy(c)) /\ Holder(c))
    BY <2>2 DEF Gone, Holder
  <2> QED BY <1>5, <2>3, <2>4
<1>9. CASE c = EndOp(Fallback(page, o.url, FALSE, o.rec), o) BY <1>1, <1>6, <1>8, <1>9
<1>10. CASE \E u \in Url \cup {o.truth} : c = EndOp(Fallback(page, u, FALSE, o.rec), o)
  <2>1. PICK u \in Link : u # NoUrl /\ c = EndOp(Fallback(page, u, no, o.rec), o)
    BY <1>1, <1>6, <1>10, NavigationAssumption DEF Link
  <2> QED BY <1>8, <2>1
<1>11. CASE c = EndOp(CommitFails(page, o), o)
  <2>0. PICK s : s = Selected(page, o.url, rp) OBVIOUS
  <2>1. s = Selected(page, o.url, o.replace) BY <1>13, <2>0
  <2>2. /\ Form(s) /\ Alike(page, s) /\ s.shown = page.shown /\ s.leaving = page.leaving
        /\ (~rp => s.cur > 1)
        /\ (Core(page) => Core(s)) /\ (Rollback(page) => Rollback(s)) /\ (Heavy(page) => Heavy(s))
    <3>1. rp \in BOOLEAN OBVIOUS
    <3>2. o.url \in Link /\ o.url # NoUrl BY <1>1
    <3>3. Form(page) BY <1>0
    <3> QED BY <3>1, <3>2, <3>3, <2>0, SelectedIs
  <2>3. Still(page, s) BY <2>2, SelectedStill
  <2>4. o \in s.ops /\ o.seq = s.active /\ o.seq # s.carrier BY <1>0, <1>2, <2>2 DEF Alike
  <2>5. Awake(page) => /\ Core(s) /\ Rollback(s) /\ s.mutationRecovery = {} /\ s.pushRecovery = {}
                       /\ s.supersession = {} /\ s.jumps = <<>> /\ (\A t \in s.timers : t.kind # "stage")
    BY <1>3, <2>2 DEF Steady, Alike
  <2>6. CASE o.replace
    <3>1. c = EndOp(Fallback(s, o.url, yes, o.rec), o) BY <1>6, <1>11, <2>1, <2>6 DEF CommitFails
    <3>2. Gone(s, EndOp(Fallback(s, o.url, yes, o.rec), o), o.rec) BY <1>0, <1>1, <1>7, <2>2, <2>4, FallbackEnds
    <3>3. Gone(s, c, o.rec) BY <3>1, <3>2
    <3>4. Form(c) /\ Still(s, c) BY <3>3 DEF Gone
    <3>5. Still(page, c) BY <2>3, <3>4, StillTrans
    <3>6. Awake(page) => Stepping(s) BY <2>5 DEF Stepping
    <3>7. Awake(page) => Steady(c) BY <2>5, <3>3, <3>6 DEF Gone, Steady
    <3>8. o.rec # NoUrl => (Heavy(page) => Heavy(c)) /\ Holder(c) BY <2>2, <3>3 DEF Gone, Holder
    <3> QED BY <1>5, <3>4, <3>5, <3>7, <3>8
  <2>7. CASE ~o.replace
    <3>1. c = EndOp(RecoverSelectedPush(s, o.url, o.rec), o)
      <4>1. CommitFails(page, o) = RecoverSelectedPush(s, o.url, o.rec) BY <2>1, <2>7 DEF CommitFails
      <4> QED BY <1>11, <4>1
    <3>2. /\ Form(c) /\ Still(s, c)
          /\ Core(s) /\ s.jumps = <<>> /\ s.cur > 1 /\ s.mutationRecovery = {} /\ s.supersession = {}
             /\ s.pushRecovery = {} /\ (\A t \in s.timers : t.kind # "stage") => Steady(c)
          /\ o.rec # NoUrl => Requested(c) /\ (Heavy(s) => Heavy(c))
      BY <1>0, <1>1, <2>2, <2>4, <3>1, PushEnds
    <3>3. Still(page, c) BY <2>3, <3>2, StillTrans
    <3>4. Awake(page) => Steady(c) BY <1>13, <2>2, <2>5, <2>7, <3>2
    <3>5. o.rec # NoUrl => (Heavy(page) => Heavy(c)) /\ Holder(c) BY <2>2, <3>2 DEF Holder
    <3> QED BY <1>5, <3>2, <3>3, <3>4, <3>5
  <2> QED BY <2>6, <2>7
<1>12. CASE \E v \in {o.began, server} : c = EndOp(Commit(page, o.url, o.replace, v), o)
  <2>1. PICK v \in Nat : v \in {o.began, server} /\ c = EndOp(Commit(page, o.url, o.replace, v), o)
    BY <1>0, <1>1, <1>12
  <2>10. PICK s : s = Commit(page, o.url, rp, v) OBVIOUS
  <2>2. s = Commit(page, o.url, o.replace, v) BY <1>13, <2>10
  <2>3. /\ Form(s) /\ Onward(page, s) /\ Alike(page, s) /\ s.shown.version = v
        /\ (Core(page) => Core(s)) /\ (Rollback(page) => Rollback(s))
        /\ page.supersession = {} => Stepping(s)
    <3>1. rp \in BOOLEAN OBVIOUS
    <3>2. o.url \in Link /\ o.url # NoUrl /\ v \in Nat BY <1>1
    <3>3. Form(page) BY <1>0
    <3> QED BY <3>1, <3>2, <3>3, <2>10, CommitIs
  <2>4. o.seq # s.carrier BY <1>2, <2>3 DEF Alike
  <2>5. c = EndOp(s, o) BY <2>1, <2>2
  <2>6. /\ Form(c) /\ Others(s, c) /\ Still(s, c)
        /\ (Core(s) => Core(c)) /\ (Rollback(s) => Rollback(c)) /\ (Stepping(s) => Stepping(c))
    BY <1>0, <2>3, <2>4, <2>5, EndOpForm
  <2>7. Onward(page, c) /\ c.shown.version = v
    <3>1. Onward(page, c) BY <2>3, <2>6, OnwardStill
    <3> QED BY <2>3, <2>6, <3>1 DEF Still
  <2>8. ASSUME Awake(c) PROVE Steady(c) /\ Newest(c, due) /\ ~(c.shown.version < due)
    <3>1. Awake(page) BY <2>7, <2>8 DEF Onward, Awake
    <3>2. Newest(page, due) BY <1>0, <3>1 DEF Tracked
    <3>3. Newest(c, due) BY <1>0, <2>7, <3>2, OnwardNewest
    <3>4. o.began >= due BY <1>0, <3>2 DEF Newest
    <3>5. v >= due BY <1>0, <2>1, <3>4
    <3>6. ~(v < due) BY <1>0, <2>1, <3>5
    <3> QED BY <1>3, <2>3, <2>6, <2>7, <3>1, <3>3, <3>6 DEF Steady
  <2>9. c.shown.version <= server BY <1>0, <1>1, <2>1, <2>7
  <2> QED BY <1>0, <2>6, <2>7, <2>8, <2>9, OnwardTracked
<1> QED BY <1>9, <1>10, <1>11, <1>12 DEF AnswerNavigation

\* the answer of a POST, after which the page owes every commit
LEMMA AnswerPostTracks ==
  ASSUME Kept, Waiting(page), NEW o \in page.ops, Owns(page, o), o.kind = "post", NEW c \in AnswerPost(page, o)
  PROVE  Tracked(c, server, server)
<1>0. /\ server \in Nat /\ Form(page) /\ Tracked(page, due, server) /\ Carried(page) /\ Owed(page)
      /\ Typed(page) /\ Unique(page)
      /\ o \in Operation /\ o.seq = page.active /\ ~o.aborted /\ due \in Nat /\ due <= server
  BY DEF Kept, Inv, Sound, Base, Tracked, Form, Typed, Page, Owns
<1>1. o.truth \in Link /\ o.truth # NoUrl BY <1>0 DEF Form, RealOps, Operation
<1>2. o.seq # page.carrier BY <1>0 DEF Carried
<1>3. ASSUME Awake(page)
      PROVE  /\ Steady(page) /\ page.pushRecovery = {} /\ page.supersession = {}
             /\ (\A t \in page.timers : t.kind # "stage") /\ Loose(page)
  <2>1. Steady(page) BY <1>0, <1>3 DEF Tracked
  <2> QED BY <1>0, <1>3, <2>1, WaitingIs
<1>4. ASSUME Awake(page) PROVE Heavy(page) /\ \A q \in page.ops : q.kind = "nav" => q.aborted
  <2>1. Kind(page) = "post" BY <1>0, ActiveIs
  <2>2. Heavy(page) BY <1>0, <1>3, <1>4, <2>1, PostHeavy DEF Steady
  <2>3. \A q \in page.ops : q.kind = "nav" => q.aborted
    BY <1>0, <1>3, <1>4 DEF Steady, Core, Single, Unique
  <2> QED BY <2>2, <2>3
<1>5. ASSUME Form(c), Still(page, c), Awake(page) => Steady(c), Heavy(page) => Heavy(c), Holder(c)
      PROVE  Tracked(c, server, server)
  <2>1. Awake(c) => Awake(page) BY <1>5 DEF Still, Onward, Awake
  <2>2. Awake(c) => Steady(c) /\ Heavy(c) /\ Holder(c) BY <1>4, <1>5, <2>1
  <2>3. Awake(page) => \A q \in page.ops : q.kind = "nav" => q.aborted BY <1>4
  <2> QED BY <1>0, <1>5, <2>2, <2>3, StillOwing
<1>6. PICK yes \in BOOLEAN, no \in BOOLEAN : yes = TRUE /\ no = FALSE OBVIOUS
<1>7. yes \in BOOLEAN /\ no \in BOOLEAN OBVIOUS
<1>8. CASE c = EndOp(Fallback(page, o.truth, FALSE, o.truth), o)
  <2>0. c = EndOp(Fallback(page, o.truth, no, o.truth), o) BY <1>6, <1>8
  <2>1. Gone(page, EndOp(Fallback(page, o.truth, no, o.truth), o), o.truth) BY <1>0, <1>1, <1>2, <1>7, FallbackEnds
  <2>2. Gone(page, c, o.truth) BY <2>0, <2>1
  <2>3. Awake(page) => Steady(c) BY <1>3, <2>2 DEF Gone, Steady
  <2>4. Form(c) /\ Still(page, c) /\ (Heavy(page) => Heavy(c)) /\ Holder(c) BY <1>1, <2>2 DEF Gone, Holder
  <2> QED BY <1>5, <2>3, <2>4
<1>9. CASE c = EndOp(CommitFails(page, o), o)
  <2>1. PICK s : s = Selected(page, o.truth, no) OBVIOUS
  <2>2. /\ Form(s) /\ Alike(page, s) /\ s.shown = page.shown /\ s.leaving = page.leaving
        /\ (Core(page) => Core(s)) /\ (Rollback(page) => Rollback(s)) /\ (Heavy(page) => Heavy(s))
    <3>1. no \in BOOLEAN OBVIOUS
    <3> QED BY <1>0, <1>1, <2>1, <3>1, SelectedIs
  <2>3. Still(page, s) BY <2>2, SelectedStill
  <2>4. o \in s.ops /\ o.seq # s.carrier BY <1>2, <2>2 DEF Alike
  <2>5. c = EndOp(Fallback(s, o.truth, yes, o.truth), o)
    <3>1. CommitFails(page, o) = Fallback(s, o.truth, yes, o.truth) BY <1>6, <2>1 DEF CommitFails
    <3> QED BY <1>9, <3>1
  <2>6. Gone(s, EndOp(Fallback(s, o.truth, yes, o.truth), o), o.truth) BY <1>0, <1>1, <1>7, <2>2, <2>4, FallbackEnds
  <2>7. Gone(s, c, o.truth) BY <2>5, <2>6
  <2>8. Form(c) /\ Still(s, c) BY <2>7 DEF Gone
  <2>9. Still(page, c) BY <2>3, <2>8, StillTrans
  <2>10. Awake(page) => Stepping(s) BY <1>3, <2>2 DEF Stepping, Alike
  <2>11. Awake(page) => Steady(c) BY <1>3, <2>2, <2>7, <2>10 DEF Gone, Steady
  <2>12. (Heavy(page) => Heavy(c)) /\ Holder(c) BY <1>1, <2>2, <2>7 DEF Gone, Holder
  <2> QED BY <1>5, <2>8, <2>9, <2>11, <2>12
<1>10. PICK e : e = EndOp(page, o) OBVIOUS
<1>11. /\ Form(e) /\ Still(page, e) /\ e.active = 0
       /\ (Core(page) => Core(e)) /\ (Rollback(page) => Rollback(e)) /\ (Stepping(page) => Stepping(e))
       /\ (Heavy(page) => Heavy(e))
  BY <1>0, <1>2, <1>10, EndOpForm
<1>12. ASSUME Resumes(e, c) PROVE Tracked(c, server, server)
  <2>1. Form(c) /\ Still(e, c) /\ (Heavy(page) => Heavy(c)) /\ Holder(c) BY <1>11, <1>12 DEF Resumes
  <2>2. Still(page, c) BY <1>11, <2>1, StillTrans
  <2>3. Awake(page) => Steady(c) BY <1>3, <1>11, <1>12 DEF Resumes, Steady
  <2> QED BY <1>5, <2>1, <2>2, <2>3
<1>13. CASE c = RecoverCommitted(EndOp(page, o), o.truth)
  <2>1. Resumes(e, RecoverCommitted(e, o.truth)) BY <1>0, <1>1, <1>11, RecoverResumes
  <2>2. Resumes(e, c) BY <1>10, <1>13, <2>1
  <2> QED BY <1>12, <2>2
<1>14. ASSUME NEW u \in Url, NEW safe \in BOOLEAN, c = Navigate(EndOp(page, o), u, FALSE, 0, o.truth, safe)
       PROVE  Tracked(c, server, server)
  <2>1. u \in Link /\ u # NoUrl /\ 0 \in Nat BY NavigationAssumption DEF Link
  <2>2. no \in BOOLEAN OBVIOUS
  <2>3. safe \in BOOLEAN OBVIOUS
  <2>4. Typed(e) BY <1>11 DEF Form
  <2>5. Kind(e) # "post" BY <1>11, <2>4, ActiveIs
  <2>6. Resumes(e, Navigate(e, u, no, 0, o.truth, safe))
    BY <1>0, <1>1, <1>11, <2>1, <2>2, <2>3, <2>5, NavigateResumes
  <2>7. c = Navigate(e, u, no, 0, o.truth, safe) BY <1>6, <1>10, <1>14
  <2>8. Resumes(e, c) BY <2>6, <2>7
  <2> QED BY <1>12, <2>8
<1>15. CASE c = EndOp(Commit(page, o.truth, FALSE, server), o)
  <2>1. PICK s : s = Commit(page, o.truth, no, server) OBVIOUS
  <2>2. /\ Form(s) /\ Onward(page, s) /\ Alike(page, s) /\ s.shown.version = server
        /\ (Core(page) => Core(s)) /\ (Rollback(page) => Rollback(s))
        /\ page.supersession = {} => Stepping(s)
    <3>1. no \in BOOLEAN OBVIOUS
    <3> QED BY <1>0, <1>1, <2>1, <3>1, CommitIs
  <2>3. o.seq # s.carrier BY <1>2, <2>2 DEF Alike
  <2>4. c = EndOp(s, o) BY <1>6, <1>15, <2>1
  <2>5. /\ Form(c) /\ Others(s, c) /\ Still(s, c)
        /\ (Core(s) => Core(c)) /\ (Rollback(s) => Rollback(c)) /\ (Stepping(s) => Stepping(c))
    BY <1>0, <2>2, <2>3, <2>4, EndOpForm
  <2>6. Onward(page, c) /\ c.shown.version = server
    <3>1. Onward(page, c) BY <2>2, <2>5, OnwardStill
    <3> QED BY <2>2, <2>5, <3>1 DEF Still
  <2>7. ASSUME Awake(c) PROVE Steady(c) /\ Newest(c, server) /\ ~(c.shown.version < server)
    <3>1. Awake(page) BY <2>6, <2>7 DEF Onward, Awake
    <3>2. Newest(page, server) BY <1>4, <3>1 DEF Newest
    <3>3. Newest(c, server) BY <1>0, <2>6, <3>2, OnwardNewest
    <3>4. ~(server < server) BY <1>0
    <3> QED BY <1>3, <2>2, <2>5, <2>6, <3>1, <3>3, <3>4 DEF Steady
  <2>8. server <= server BY <1>0
  <2> QED BY <1>0, <2>5, <2>6, <2>7, <2>8, OnwardTracked
<1>16. PICK N : N = {Navigate(EndOp(page, o), n[1], FALSE, 0, o.truth, n[2]) : n \in Url \X BOOLEAN} OBVIOUS
<1>17. ASSUME c \in N PROVE Tracked(c, server, server)
  <2>1. PICK n \in Url \X BOOLEAN : c = Navigate(EndOp(page, o), n[1], FALSE, 0, o.truth, n[2]) BY <1>16, <1>17
  <2>2. n[1] \in Url /\ n[2] \in BOOLEAN OBVIOUS
  <2> QED BY <1>14, <2>1, <2>2
<1>18. AnswerPost(page, o) =
         {EndOp(Fallback(page, o.truth, FALSE, o.truth), o)}
         \cup (IF ~InPlace(page, o) \/ ~o.served THEN {}
               ELSE {EndOp(CommitFails(page, o), o), RecoverCommitted(EndOp(page, o), o.truth)} \cup N
                    \cup (IF Commits(page, o) THEN {EndOp(Commit(page, o.truth, FALSE, server), o)} ELSE {}))
  BY <1>16 DEF AnswerPost
<1> HIDE <1>16
<1>19. \/ c = EndOp(Fallback(page, o.truth, FALSE, o.truth), o)
       \/ c = EndOp(CommitFails(page, o), o) \/ c = RecoverCommitted(EndOp(page, o), o.truth)
       \/ c \in N
       \/ c = EndOp(Commit(page, o.truth, FALSE, server), o)
  <2>1. PICK x1, x2, x3, x4 : /\ x1 = EndOp(Fallback(page, o.truth, FALSE, o.truth), o)
                              /\ x2 = EndOp(CommitFails(page, o), o)
                              /\ x3 = RecoverCommitted(EndOp(page, o), o.truth)
                              /\ x4 = EndOp(Commit(page, o.truth, FALSE, server), o)
    OBVIOUS
  <2>2. c \in {x1} \cup (IF ~InPlace(page, o) \/ ~o.served THEN {}
                         ELSE {x2, x3} \cup N \cup (IF Commits(page, o) THEN {x4} ELSE {}))
    BY <1>18, <2>1
  <2>3. c = x1 \/ c = x2 \/ c = x3 \/ c \in N \/ c = x4 BY <2>2
  <2> QED BY <2>1, <2>3
<1> QED BY <1>8, <1>9, <1>13, <1>15, <1>17, <1>19

LEMMA ArriveTracks ==
  ASSUME Kept, NEW o \in page.ops, Arrive(o)
  PROVE  Tracked(page', due', server')
<1>1. server' = server BY DEF Arrive
<1>2. CASE ~Owns(page, o) BY <1>2, ObsoleteTracks
<1>3. CASE Owns(page, o)
  <2>1. Waiting(page) BY <1>3 DEF Arrive, Waiting, Unprompted
  <2>2. CASE o.kind = "nav"
    <3>1. page' \in AnswerNavigation(page, o) /\ due' = due BY <1>3, <2>2 DEF Arrive
    <3>2. Tracked(page', due, server) BY <1>3, <2>1, <2>2, <3>1, AnswerNavigationTracks
    <3> QED BY <1>1, <3>1, <3>2
  <2>3. CASE o.kind = "post"
    <3>1. page' \in AnswerPost(page, o) /\ due' = server BY <1>3, <2>3 DEF Arrive, Owns
    <3>2. Tracked(page', server, server) BY <1>3, <2>1, <2>3, <3>1, AnswerPostTracks
    <3> QED BY <1>1, <3>1, <3>2
  <2> QED BY <2>2, <2>3 DEF Arrive
<1> QED BY <1>2, <1>3

-----------------------------------------------------------------------------
(* The theorems.                                                           *)

LEMMA InitTracks ==
  ASSUME Init
  PROVE  Kept
<1>1. PICK n \in 1..MaxEntries : \E urls \in [1..n -> Url], cur \in 1..n :
         page = Loaded([i \in 1..n |-> [url |-> urls[i], id |-> i]], cur, 0)
  BY DEF Init
<1>2. PICK urls \in [1..n -> Url], cur \in 1..n :
         page = Loaded([i \in 1..n |-> [url |-> urls[i], id |-> i]], cur, 0)
  BY <1>1
<1>3. PICK es : es = [i \in 1..n |-> [url |-> urls[i], id |-> i]] OBVIOUS
<1>4. n \in Nat BY NavigationAssumption
<1>5. \A i \in 1..n : [url |-> urls[i], id |-> i] \in Entry /\ urls[i] # NoUrl
  BY <1>4, NavigationAssumption DEF Entry, Link
<1>6. es \in Seq(Entry) /\ DOMAIN es = 1..n BY <1>3, <1>4, <1>5
<1>7. \A i \in DOMAIN es : es[i].url # NoUrl BY <1>3, <1>5, <1>6
<1>8. Tracked(Loaded(es, cur, 0), 0, 0)
  <2>1. PICK z \in Nat : z = 0 OBVIOUS
  <2>2. z <= z /\ cur \in DOMAIN es BY <1>6, <2>1
  <2>3. Tracked(Loaded(es, cur, z), z, z) BY <1>6, <1>7, <2>2, LoadedTracked
  <2> QED BY <2>1, <2>3
<1>9. server = 0 /\ due = 0 BY DEF Init
<1>10. Tracked(page, due, server) BY <1>2, <1>3, <1>8, <1>9
<1>11. Inv BY InitKeeps
<1> QED BY <1>10, <1>11 DEF Kept

LEMMA NextTracks ==
  ASSUME Kept, [Next]_vars
  PROVE  Kept'
<1>1. Inv' BY NextKeeps DEF Kept
<1>2. Tracked(page', due', server')
  <2>1. CASE User
    BY <2>1, ClickTracks, NativeActivationTracks, PolicyActivationTracks, AuxiliaryClickTracks, SubmitTracks,
       ScrollTracks, CloseTracks, TraverseTracks DEF User
  <2>2. CASE Answers BY <2>2, ArriveTracks, RecoveryTimerTracks DEF Answers
  <2>3. CASE Timers
    BY <2>3, NativeTimerTracks, TraversalTimerTracks, StageTimerTracks, ForwardTimerTracks DEF Timers
  <2>4. CASE Rest \/ UNCHANGED vars
    <3>1. page' = page /\ due' = due /\ server' = server BY <2>4 DEF Rest, vars
    <3> QED BY <3>1 DEF Kept
  <2> QED BY <2>1, <2>2, <2>3, <2>4, ServeTracks, JumpTracks, AcceptTracks, RefuseTracks, LoadTracks, CheckTracks
        DEF Next
<1> QED BY <1>1, <1>2 DEF Kept

\* Besides Inv, everything the page holds names a document to load; until the page is given up, only one
\* operation may use its answer, a rollback or a step forward still finds its entry, a request in flight was
\* sent after every commit the document owes; and while the document owes one, some operation, prompt,
\* timer or traversal carries the recovery, and so does all that may take over from it.
THEOREM RecoveryKept == Spec => []Kept
<1>1. Init => Kept BY InitTracks
<1>2. Kept /\ [Next]_vars => Kept' BY NextTracks
<1> QED BY <1>1, <1>2, PTL DEF Spec

LEMMA TrackedTypes ==
  ASSUME Kept
  PROVE  TypeOK
<1>1. Form(page) /\ Typed(page) /\ Lone(page) /\ page \in Page /\ server \in Nat
  BY DEF Kept, Inv, Tracked, Form, Typed
<1>2. page.shown.version \in 0..server
  <2>1. page.shown.version \in Nat BY <1>1 DEF Page
  <2>2. page.shown.version <= server BY DEF Kept, Tracked
  <2> QED BY <1>1, <2>1, <2>2
<1>3. Cardinality(page.departure) <= 1
  <2>1. CASE page.departure = {} BY <2>1, FS_EmptySet
  <2>2. CASE page.departure # {}
    <3>1. PICK d \in page.departure : TRUE BY <2>2
    <3>2. page.departure = {d} BY <1>1, <3>1 DEF Lone
    <3>3. Cardinality({d}) = 1 BY FS_Singleton
    <3> QED BY <3>2, <3>3
  <2> QED BY <2>1, <2>2
<1> QED BY <1>1, <1>2, <1>3 DEF TypeOK, Form, Typed, Unique, Owned

\* The selected entry is one of the history, the active number names one operation or none, at most one
\* native load is under way, and no document shows a state the server has not reached.
THEOREM PageTypes == Spec => []TypeOK
<1>1. Kept => TypeOK BY TrackedTypes
<1>2. Spec => []Kept BY RecoveryKept
<1> QED BY <1>1, <1>2, PTL

\* nothing holds a recovery any more once nothing is under way
LEMMA QuietHolds ==
  ASSUME Kept, Quiet, Awake(page)
  PROVE  ~Holder(page)
<1>1. /\ \A o \in page.ops : o.kind = "idle"
      /\ page.departure = {} /\ page.prompted = <<>> /\ page.timers = {} /\ page.jumps = <<>>
  BY DEF Quiet
<1>2. Form(page) /\ Steady(page) /\ Owed(page) BY DEF Kept, Inv, Sound, Tracked
<1>3. Waiting(page) BY <1>1 DEF Waiting
<1>4. page.mutationRecovery = {} /\ page.pushRecovery = {} /\ page.supersession = {} BY <1>2, <1>3, WaitingIs
<1>5. ~Requested(page) BY <1>1, <1>4 DEF Requested, Awaited
<1>6. ~Submitted(page) BY <1>1 DEF Submitted
<1>7. ~Leaving(page) BY <1>1 DEF Leaving, Unasked
<1>8. ~Refused(page)
  <2>1. Elements(page.prompted) = {} BY <1>1 DEF Elements
  <2> QED BY <2>1 DEF Refused
<1>9. ~Native(page) BY <1>1, <1>2 DEF Native, Form, Natives
<1>10. ~Delayed(page) /\ ~Stepped(page) BY <1>1, <1>4 DEF Delayed, Stepped
<1> QED BY <1>5, <1>6, <1>7, <1>8, <1>9, <1>10 DEF Holder

\* A commit the runtime waited for is never forgotten: once nothing is under way, the document is at least
\* as new as it (recoverCommittedMutationCurrentTruth, and the recovery every later operation inherits).
THEOREM TruthKnown == Spec => []KnownTruth
<1>1. Kept => KnownTruth
  <2> SUFFICES ASSUME Kept, Quiet, page.life = "active", ~page.lapsed
               PROVE  page.shown.version >= due
    BY DEF KnownTruth
  <2>1. ~page.leaving BY DEF Kept, Tracked, Quiet
  <2>2. Awake(page) BY <2>1 DEF Awake, Off
  <2>3. ~(page.shown.version < due) BY <2>2, QuietHolds DEF Kept, Tracked
  <2>4. page.shown.version \in Nat /\ due \in Nat BY DEF Kept, Tracked, Form, Typed, Page
  <2> QED BY <2>3, <2>4
<1>2. Spec => []Kept BY RecoveryKept
<1> QED BY <1>1, <1>2, PTL

-----------------------------------------------------------------------------
(* The address bar and the traversals.                                     *)

\* the observer x will be told of a refused prompt, and acts then
Watching(b, x) ==
  /\ x \in Elements(b.prompted) \/ (Unasked(b) /\ x \in Elements(b.observers))
  /\ Guard(b, x)

\* the runtime's truth is the displayed document's URL
Truthful(b) == b.truthUrl = b.shown.url
\* what an observer would make the truth
Told(b, x) == (x.kind = "staged" => x.truth = b.truthUrl) /\ (x.kind = "traversal" => x.repair)
Heeding(b) ==
  /\ \A x \in Elements(b.observers) \cup Elements(b.prompted) : Told(b, x)
  /\ \A x \in Elements(b.observers) : x.kind = "staged" => Unasked(b)
\* what a rollback returns to
Staging(b) ==
  /\ \A t \in b.timers : t.kind = "stage" => t.truth = b.truthUrl
  /\ \A r \in b.pushRecovery : r.truth = b.truthUrl
\* a traversal is requested once
Distinct(b) == \A o, q \in b.ops : o.trav = q.trav /\ o.trav # 0 => o.seq = q.seq
Faithful(b) == Truthful(b) /\ Heeding(b) /\ Staging(b) /\ Distinct(b)

\* something ends the traversal that is open
Requesting(b) == \E o \in b.ops : o.kind = "nav" /\ o.trav = b.traversal /\ o.trav # 0
Reloading(b) == Delayed(b) \/ \E x : Watching(b, x) /\ x.kind = "traversal"
Turned(b) ==
  b.traversing => \/ ~b.recovering /\ Requesting(b)
                  \/ b.recovering /\ Reloading(b)
                  \/ b.pushRecovery # {} \/ b.supersession # {}

\* something gives the selected entry the displayed document's URL, or displays another document
Mender(b, o) ==
  /\ o.seq = b.active
  /\ \/ o.kind = "post" \/ o.seq = b.carrier
     \/ ~o.aborted /\ o.kind = "wait"
     \/ ~o.aborted /\ o.kind = "nav" /\ (o.rec # NoUrl \/ (b.traversing /\ o.trav = b.traversal))
Pending(b) == Delayed(b) \/ b.pushRecovery # {} \/ b.supersession # {} \/ b.mutationRecovery # {}
Mended(b) ==
  Href(b) # b.truthUrl => (\E o \in b.ops : Mender(b, o)) \/ (\E x : Watching(b, x)) \/ Pending(b)

Whole(b) == Awake(b) => Faithful(b) /\ Turned(b) /\ Mended(b)

-----------------------------------------------------------------------------
(* What the functions of the runtime keep.                                 *)

Tells(b, c) == (Faithful(b) => Faithful(c)) /\ (Turned(b) => Turned(c))

LEMMA TellsTrans ==
  ASSUME NEW a, NEW b, NEW c, Tells(a, b), Tells(b, c)
  PROVE  Tells(a, c)
BY DEF Tells

\* the document and the traversal are the same; nothing that ends the traversal is lost
Akin(b, c) ==
  /\ c.shown = b.shown /\ c.truthUrl = b.truthUrl
  /\ c.traversal = b.traversal /\ c.recovering = b.recovering /\ (c.traversing => b.traversing)
  /\ c.prompted = b.prompted /\ (Unasked(b) => Unasked(c))
  /\ \A x \in Elements(b.observers) : x \in Elements(c.observers)
  /\ \A x \in Elements(c.observers) : x \in Elements(b.observers) \/ (Told(b, x) /\ (x.kind = "staged" => Unasked(c)))
  /\ c.pushRecovery = b.pushRecovery /\ c.supersession = b.supersession
  /\ \A t \in c.timers : t.kind = "stage" => \E u \in b.timers : u.kind = "stage" /\ u.truth = t.truth
  /\ \A u \in b.timers : Ours(b, u) => \E t \in c.timers : t.kind = "traversal" /\ t.trav = u.trav
  /\ Distinct(b) => Distinct(c)
  /\ c.traversing /\ ~c.recovering /\ Requesting(b) => Requesting(c)

LEMMA AkinTells ==
  ASSUME NEW b, NEW c, Akin(b, c)
  PROVE  Tells(b, c)
<1>1. ASSUME Faithful(b) PROVE Faithful(c)
  <2>1. Truthful(c) BY <1>1 DEF Faithful, Truthful, Akin
  <2>2. Heeding(c)
    <3>1. \A x : Told(b, x) => Told(c, x) BY DEF Told, Akin
    <3>2. \A x \in Elements(c.observers) \cup Elements(c.prompted) : Told(c, x)
      BY <1>1, <3>1 DEF Faithful, Heeding, Akin
    <3>3. \A x \in Elements(c.observers) : x.kind = "staged" => Unasked(c)
      BY <1>1 DEF Faithful, Heeding, Akin
    <3> QED BY <3>2, <3>3 DEF Heeding
  <2>3. Staging(c) BY <1>1 DEF Faithful, Staging, Akin
  <2>4. Distinct(c) BY <1>1 DEF Faithful, Akin
  <2> QED BY <2>1, <2>2, <2>3, <2>4 DEF Faithful
<1>2. ASSUME Turned(b) PROVE Turned(c)
  <2> SUFFICES ASSUME c.traversing, c.pushRecovery = {}, c.supersession = {}
               PROVE  (~c.recovering /\ Requesting(c)) \/ (c.recovering /\ Reloading(c))
    BY DEF Turned
  <2>1. (~b.recovering /\ Requesting(b)) \/ (b.recovering /\ Reloading(b)) BY <1>2 DEF Turned, Akin
  <2>2. CASE ~b.recovering BY <2>1, <2>2 DEF Akin
  <2>3. CASE b.recovering
    <3>1. c.recovering BY <2>3 DEF Akin
    <3>2. CASE Delayed(b) BY <3>1, <3>2 DEF Akin, Delayed, Ours, Reloading
    <3>3. CASE \E x : Watching(b, x) /\ x.kind = "traversal"
      <4>1. PICK x : Watching(b, x) /\ x.kind = "traversal" BY <3>3
      <4>2. Guard(c, x) BY <4>1 DEF Watching, Guard, Akin
      <4>3. x \in Elements(c.prompted) \/ (Unasked(c) /\ x \in Elements(c.observers)) BY <4>1 DEF Watching, Akin
      <4> QED BY <3>1, <4>1, <4>2, <4>3 DEF Watching, Reloading
    <3> QED BY <2>1, <2>3, <3>2, <3>3 DEF Reloading
  <2> QED BY <2>2, <2>3
<1> QED BY <1>1, <1>2 DEF Tells

LEMMA KinDistinct ==
  ASSUME NEW b, Distinct(b), NEW c, \A o \in c.ops : \E q \in b.ops : o.seq = q.seq /\ o.trav = q.trav
  PROVE  Distinct(c)
BY DEF Distinct

LEMMA OthersTell ==
  ASSUME NEW b, NEW c, Others(b, c), Descend(c.ops, b.ops), c.traversing => b.traversing,
         c.traversing /\ ~b.recovering =>
           \A q \in b.ops : q.kind = "nav" /\ q.trav = b.traversal /\ q.trav # 0 =>
             \E o \in c.ops : o.kind = "nav" /\ o.trav = q.trav
  PROVE  Tells(b, c)
<1>1. Distinct(b) => Distinct(c)
  <2>1. \A o \in c.ops : \E q \in b.ops : o.seq = q.seq /\ o.trav = q.trav BY DEF Descend, Kin
  <2> QED BY <2>1, KinDistinct
<1>2. c.traversing /\ ~c.recovering /\ Requesting(b) => Requesting(c) BY DEF Requesting, Others
<1>3. Unasked(b) => Unasked(c) BY DEF Unasked, Others
<1>4. Akin(b, c) BY <1>1, <1>2, <1>3 DEF Akin, Others, Ours
<1> QED BY <1>4, AkinTells

LEMMA AgedTell ==
  ASSUME NEW b, NEW c, Aged(b, c)
  PROVE  Tells(b, c)
<1>1. Distinct(b) => Distinct(c)
  <2>1. \A o \in c.ops : \E q \in b.ops : o.seq = q.seq /\ o.trav = q.trav BY DEF Aged, Kin
  <2> QED BY <2>1, KinDistinct
<1>2. Requesting(b) => Requesting(c) BY DEF Requesting, Aged, Carries, Kin
<1>3. Unasked(b) => Unasked(c) BY DEF Unasked, Aged, Carries
<1>4. \A t \in c.timers : t.kind = "stage" => \E u \in b.timers : u.kind = "stage" /\ u.truth = t.truth
  BY DEF Aged, TimerKin
<1>5. \A u \in b.timers : Ours(b, u) => \E t \in c.timers : t.kind = "traversal" /\ t.trav = u.trav
  BY DEF Aged, TimerKin, Ours
<1>6. Akin(b, c) BY <1>1, <1>2, <1>3, <1>4, <1>5 DEF Akin, Aged, Carries
<1> QED BY <1>6, AkinTells

LEMMA BegunTell ==
  ASSUME NEW b, NEW c, NEW o, Begun(b, c, o), o.trav # 0 => \A q \in b.ops : q.trav # o.trav
  PROVE  Tells(b, c)
<1>1. ASSUME Distinct(b) PROVE Distinct(c)
  <2>1. \A x \in c.ops : x = o \/ \E q \in b.ops : x.seq = q.seq /\ x.trav = q.trav BY DEF Begun, Kin
  <2> QED BY <1>1, <2>1 DEF Distinct
<1>2. Requesting(b) => Requesting(c) BY DEF Requesting, Begun, Carries, Kin
<1>3. Unasked(b) => Unasked(c) BY DEF Unasked, Begun, Carries
<1>4. \A t \in c.timers : t.kind = "stage" => \E u \in b.timers : u.kind = "stage" /\ u.truth = t.truth
  BY DEF Begun, TimerKin
<1>5. \A u \in b.timers : Ours(b, u) => \E t \in c.timers : t.kind = "traversal" /\ t.trav = u.trav
  BY DEF Begun, TimerKin, Ours
<1>6. Akin(b, c) BY <1>1, <1>2, <1>3, <1>4, <1>5 DEF Akin, Begun, Carries
<1> QED BY <1>6, AkinTells

LEMMA PausedTell ==
  ASSUME NEW b, NEW c, Paused(b, c)
  PROVE  Tells(b, c)
<1>1. Turned(c) BY DEF Turned, Paused
<1>2. ASSUME Faithful(b) PROVE Faithful(c)
  <2>1. Unasked(b) <=> Unasked(c) BY DEF Unasked, Paused
  <2> QED BY <1>2, <2>1 DEF Faithful, Truthful, Heeding, Told, Staging, Distinct, Paused
<1> QED BY <1>1, <1>2 DEF Tells

\* the history changes, the truth does not
LEMMA AlikeTell ==
  ASSUME NEW b, NEW c, Alike(b, c), c.shown = b.shown, c.truthUrl = b.truthUrl
  PROVE  Tells(b, c)
<1>1. Distinct(b) => Distinct(c) BY DEF Distinct, Alike
<1>2. Requesting(b) => Requesting(c) BY DEF Requesting, Alike
<1>3. Unasked(b) => Unasked(c) BY DEF Unasked, Alike
<1>4. Akin(b, c) BY <1>1, <1>2, <1>3 DEF Akin, Alike, Ours
<1> QED BY <1>4, AkinTells

LEMMA AsksTell ==
  ASSUME NEW b, NEW O, \A x \in O : Told(b, x), NEW c, Asks(b, c, O)
  PROVE  Tells(b, c)
<1>1. Distinct(b) => Distinct(c) BY DEF Distinct, Asks, Undisturbed
<1>2. Requesting(b) => Requesting(c) BY DEF Requesting, Asks, Undisturbed
<1>3. Unasked(c) BY DEF Unasked, Asks
<1>4. Akin(b, c) BY <1>1, <1>2, <1>3 DEF Akin, Asks, Undisturbed, Ours
<1> QED BY <1>4, AkinTells

LEMMA LosingTell ==
  ASSUME NEW b, NEW c, Losing(b, c)
  PROVE  Tells(b, c)
<1>1. Distinct(b) => Distinct(c) BY DEF Distinct, Losing
<1>2. Requesting(b) => Requesting(c) BY DEF Requesting, Losing
<1>3. Unasked(b) => Unasked(c) BY DEF Unasked, Losing
<1>4. Akin(b, c) BY <1>1, <1>2, <1>3 DEF Akin, Losing, Ours
<1> QED BY <1>4, AkinTells

LEMMA LadenTell ==
  ASSUME NEW b, NEW t, t.kind # "stage", NEW c, Laden(b, c, t)
  PROVE  Tells(b, c)
<1>1. Distinct(b) => Distinct(c) BY DEF Distinct, Laden
<1>2. Requesting(b) => Requesting(c) BY DEF Requesting, Laden
<1>3. Unasked(b) => Unasked(c) BY DEF Unasked, Laden
<1>4. Akin(b, c) BY <1>1, <1>2, <1>3 DEF Akin, Laden, Ours
<1> QED BY <1>4, AkinTells

LEMMA LivedTell ==
  ASSUME NEW b, NEW l, NEW c, Lived(b, c, l)
  PROVE  Tells(b, c)
<1>1. Distinct(b) => Distinct(c) BY DEF Distinct, Lived
<1>2. Requesting(b) => Requesting(c) BY DEF Requesting, Lived
<1>3. Unasked(b) => Unasked(c) BY DEF Unasked, Lived
<1>4. Akin(b, c) BY <1>1, <1>2, <1>3 DEF Akin, Lived, Ours
<1> QED BY <1>4, AkinTells

LEMMA QueuedTell ==
  ASSUME NEW b, NEW j, NEW c, Queued(b, c, j)
  PROVE  Tells(b, c)
<1>1. Distinct(b) => Distinct(c) BY DEF Distinct, Queued
<1>2. Requesting(b) => Requesting(c) BY DEF Requesting, Queued
<1>3. Unasked(b) => Unasked(c) BY DEF Unasked, Queued
<1>4. Akin(b, c) BY <1>1, <1>2, <1>3 DEF Akin, Queued, Ours
<1> QED BY <1>4, AkinTells

LEMMA TimedTell ==
  ASSUME NEW b, NEW t, t.kind # "stage", NEW c, Timed(b, c, t)
  PROVE  Tells(b, c)
<1>1. Distinct(b) => Distinct(c) BY DEF Distinct, Timed
<1>2. Requesting(b) => Requesting(c) BY DEF Requesting, Timed
<1>3. Unasked(b) => Unasked(c) BY DEF Unasked, Timed
<1>4. Akin(b, c) BY <1>1, <1>2, <1>3 DEF Akin, Timed, Ours
<1> QED BY <1>4, AkinTells

LEMMA SpentTell ==
  ASSUME NEW b, NEW t, ~Ours(b, t), NEW c, Spent(b, c, t), \A o \in b.ops : o.kind = "nav" => o \in c.ops
  PROVE  Tells(b, c)
<1>1. Distinct(b) => Distinct(c) BY DEF Distinct, Spent
<1>2. Requesting(b) => Requesting(c) BY DEF Requesting, Spent
<1>3. Unasked(b) => Unasked(c) BY DEF Unasked, Spent
<1>4. Akin(b, c) BY <1>1, <1>2, <1>3 DEF Akin, Spent, Ours
<1> QED BY <1>4, AkinTells

LEMMA AbortTells ==
  ASSUME NEW b, Form(b), NEW c, c = Abort(b)
  PROVE  Tells(b, c)
<1>1. /\ Others(b, c) /\ c.traversing = b.traversing
      /\ \A o \in c.ops : \E q \in b.ops : Kin(o, q)
      /\ \A q \in b.ops : \E o \in c.ops : Kin(o, q) /\ o.kind = q.kind
  BY AbortIs
<1>2. Descend(c.ops, b.ops) BY <1>1 DEF Descend
<1>3. \A q \in b.ops : q.kind = "nav" => \E o \in c.ops : o.kind = "nav" /\ o.trav = q.trav BY <1>1 DEF Kin
<1> QED BY <1>1, <1>2, <1>3, OthersTell

LEMMA RelinquishTells ==
  ASSUME NEW b, Form(b), NEW c, c = Relinquish(b)
  PROVE  Tells(b, c)
<1>1. /\ Others(b, c) /\ c.traversing = b.traversing /\ c.ops \subseteq b.ops
      /\ \A o \in b.ops : o.kind # "idle" => o \in c.ops
  BY RelinquishIs
<1>2. Descend(c.ops, b.ops) BY <1>1 DEF Descend, Kin
<1>3. \A q \in b.ops : q.kind = "nav" => \E o \in c.ops : o.kind = "nav" /\ o.trav = q.trav BY <1>1
<1> QED BY <1>1, <1>2, <1>3, OthersTell

LEMMA EndOpTells ==
  ASSUME NEW b, Form(b), NEW o \in Operation, o.seq = b.carrier => o \in b.ops /\ o.aborted,
         \A x \in b.ops : x.seq = o.seq => x.trav = o.trav, NEW c, c = EndOp(b, o)
  PROVE  Tells(b, c)
<1>1. /\ Others(b, c) /\ Descend(c.ops, b.ops)
      /\ c.traversing = (b.traversing /\ (o.trav = 0 \/ o.trav # b.traversal \/ b.recovering))
      /\ \A x \in b.ops : x.seq # o.seq => x \in c.ops
  BY EndOpForm
<1>2. ASSUME c.traversing, ~b.recovering, NEW q \in b.ops, q.kind = "nav", q.trav = b.traversal, q.trav # 0
      PROVE  \E x \in c.ops : x.kind = "nav" /\ x.trav = q.trav
  <2>1. q.seq # o.seq BY <1>1, <1>2
  <2> QED BY <1>1, <1>2, <2>1
<1> QED BY <1>1, <1>2, OthersTell

LEMMA RepairTells ==
  ASSUME NEW b, Form(b), NEW url \in Link, url = b.truthUrl, NEW c, c = RepairDisplayedTruth(b, url)
  PROVE  Tells(b, c) /\ Href(c) = c.truthUrl
<1>1. url # NoUrl BY DEF Form, RealHistory
<1>2. Alike(b, c) /\ c.shown = b.shown /\ c.truthUrl = url /\ Href(c) = url BY <1>1, RepairIs
<1> QED BY <1>2, AlikeTell

LEMMA SelectedTells ==
  ASSUME NEW b, Form(b), NEW url \in Link, url # NoUrl, NEW replace \in BOOLEAN, NEW c, c = Selected(b, url, replace)
  PROVE  Tells(b, c)
<1>1. Alike(b, c) /\ c.shown = b.shown /\ c.truthUrl = b.truthUrl BY SelectedIs
<1> QED BY <1>1, AlikeTell

LEMMA CloseTells ==
  ASSUME NEW b, Form(b), NEW c, c = CloseTraversal(b)
  PROVE  Tells(b, c)
BY CloseTraversalIs, PausedTell

LEMMA WatchingOthers ==
  ASSUME NEW b, NEW c, Others(b, c), NEW x, Watching(b, x)
  PROVE  Watching(c, x)
<1>1. Guard(c, x) BY DEF Watching, Guard, Others, Href, Current
<1>2. Unasked(b) => Unasked(c) BY DEF Unasked, Others
<1> QED BY <1>1, <1>2 DEF Watching, Others

\* a native load: if the user refuses it, the address bar is repaired
LEMMA FallbackTells ==
  ASSUME NEW b, Form(b), NEW url \in Link, url # NoUrl, NEW repair \in BOOLEAN, NEW rec \in Link,
         NEW c, c = Fallback(b, url, repair, rec)
  PROVE  Tells(b, c) /\ \E x : Watching(c, x)
<1>1. PICK x : x = Observer(b, "fallback", repair, 0, rec) OBVIOUS
<1>2. x \in ObserverRecord /\ x.kind = "fallback" /\ x.truth = b.truthUrl /\ x.sel = Href(b)
  BY <1>1, WatcherIs
<1>3. Asks(b, c, {x})
  <2>1. Typed(b) BY DEF Form
  <2>2. c = Depart(Observe(b, x), url) BY <1>1 DEF Fallback
  <2> QED BY <1>2, <2>1, <2>2, AskIs
<1>4. Tells(b, c)
  <2>1. \A y \in {x} : Told(b, y) BY <1>2 DEF Told
  <2> QED BY <1>3, <2>1, AsksTell
<1>5. Watching(c, x)
  <2>1. c.truthUrl = b.truthUrl /\ Href(c) = Href(b) BY <1>3 DEF Asks, Undisturbed, Href, Current
  <2>2. x \in Elements(c.observers) /\ Unasked(c) BY <1>3 DEF Asks, Unasked
  <2> QED BY <1>2, <2>1, <2>2 DEF Watching, Guard
<1> QED BY <1>4, <1>5

\* the traversal is repeated natively
LEMMA TraversalRecoveryTells ==
  ASSUME NEW b, Form(b), b.recovering, NEW rec \in Link, NEW c, c = BeginTraversalRecovery(b, rec)
  PROVE  Tells(b, c) /\ Turned(c) /\ \E x : Watching(c, x)
<1>1. PICK yes \in BOOLEAN : yes = TRUE OBVIOUS
<1>2. PICK x : x = Observer(b, "traversal", yes, b.traversal, rec) OBVIOUS
<1>3. b.traversal \in Nat /\ Typed(b) BY DEF Form, Typed, Page
<1>4. /\ x \in ObserverRecord /\ x.kind = "traversal" /\ x.truth = b.truthUrl /\ x.trav = b.traversal
      /\ x.repair = yes
  <2>1. yes \in BOOLEAN OBVIOUS
  <2> QED BY <1>2, <1>3, <2>1, WatcherIs
<1>5. PICK url \in Link : url = Href(b) /\ url # NoUrl
  BY <1>3, CurrentIs DEF Form, RealHistory, Typed, Href, Current
<1>6. Asks(b, c, {x})
  <2>1. c = Depart(Observe(b, x), url) BY <1>1, <1>2, <1>5 DEF BeginTraversalRecovery
  <2> QED BY <1>3, <1>4, <1>5, <2>1, AskIs
<1>7. Tells(b, c)
  <2>1. \A y \in {x} : Told(b, y) BY <1>1, <1>4 DEF Told
  <2> QED BY <1>6, <2>1, AsksTell
<1>8. Watching(c, x)
  <2>1. c.truthUrl = b.truthUrl /\ c.traversal = b.traversal /\ c.recovering BY <1>6 DEF Asks, Undisturbed
  <2>2. x \in Elements(c.observers) /\ Unasked(c) BY <1>6 DEF Asks, Unasked
  <2> QED BY <1>4, <2>1, <2>2 DEF Watching, Guard
<1>9. Turned(c)
  <2>1. c.recovering BY <1>6 DEF Asks, Undisturbed
  <2> QED BY <1>4, <1>8, <2>1 DEF Turned, Reloading
<1> QED BY <1>7, <1>8, <1>9

LEMMA RecoverTells ==
  ASSUME server \in Nat, NEW b, Form(b), NEW url \in Link, url # NoUrl, NEW c, c = RecoverCommitted(b, url)
  PROVE  Tells(b, c) /\ \E o \in c.ops : Mender(c, o)
<1>1. PICK o : Begun(b, c, o) /\ o.kind = "wait" /\ o.trav = 0 /\ ~o.aborted BY RecoverCommittedIs
<1>2. Tells(b, c) BY <1>1, BegunTell
<1>3. o \in c.ops /\ Mender(c, o) BY <1>1 DEF Mender, Begun
<1> QED BY <1>2, <1>3

\* c requests from b with the number trav and the recovery h, or leaves the page
Goes(b, c, trav, h) ==
  \/ \E o : Begun(b, c, o) /\ o.kind = "nav" /\ o.trav = trav /\ o.rec = h /\ ~o.aborted
  \/ /\ \E x : Watching(c, x)
     /\ c.traversing = (b.traversing /\ (trav = 0 \/ trav # b.traversal \/ b.recovering))

LEMMA NavigateTells ==
  ASSUME server \in Nat, NEW b, Form(b), NEW url \in Link, url # NoUrl, NEW replace \in BOOLEAN, NEW trav \in Nat,
         trav # 0 => \A q \in b.ops : q.trav # trav, NEW rec \in Link, Kind(b) # "post",
         NEW h \in Link, h = (IF rec # NoUrl THEN rec ELSE Rec(b)), NEW safe \in BOOLEAN,
         NEW c, c = Navigate(b, url, replace, trav, rec, safe)
  PROVE  Form(c) /\ Still(b, c) /\ Tells(b, c) /\ Goes(b, c, trav, h)
<1>1. CASE b.life # "closed" /\ safe
  <2>1. PICK o : o = Op(b, "nav", url, replace, trav, h) OBVIOUS
  <2>2. /\ o \in Operation /\ o.seq = FreshSeq(b) /\ o.kind = "nav" /\ o.url = url /\ o.rec = h
        /\ o.truth # NoUrl /\ ~o.aborted /\ o.began = server
    BY <2>1, NewOpIs
  <2>3. o.trav = trav BY <2>1 DEF Op
  <2>4. c = Begin(b, o) BY <1>1, <2>1 DEF Navigate
  <2>5. Proper(o) BY <2>2 DEF Proper
  <2>6. Form(c) /\ Begun(b, c, o) BY <2>2, <2>4, <2>5, BeginIs
  <2>7. Still(b, c) BY <2>2, <2>6, StillBegun
  <2>8. Tells(b, c) BY <2>3, <2>6, BegunTell
  <2>9. Goes(b, c, trav, h) BY <2>2, <2>3, <2>6 DEF Goes
  <2> QED BY <2>6, <2>7, <2>8, <2>9
<1>2. CASE ~(b.life # "closed" /\ safe)
  <2>1. Form(c) /\ Still(b, c) BY <1>2, NavigateLeaves
  <2>2. PICK a : a = Abort(b) OBVIOUS
  <2>3. Form(a) /\ Others(b, a) /\ a.traversing = b.traversing BY <2>2, AbortIs
  <2>4. Tells(b, a) BY <2>2, AbortTells
  <2>5. PICK yes \in BOOLEAN : yes = TRUE OBVIOUS
  <2>6. PICK f : f = Fallback(a, url, yes, h) OBVIOUS
  <2>7. yes \in BOOLEAN OBVIOUS
  <2>8. Tells(a, f) /\ \E x : Watching(f, x) BY <2>3, <2>6, <2>7, FallbackTells
  <2>9. Form(f) /\ Undisturbed(a, f)
    <3>1. Away(a, f, h) BY <2>3, <2>6, <2>7, FallbackAway
    <3> QED BY <3>1 DEF Away
  <2>10. PICK t \in BOOLEAN : t = (f.traversing /\ (trav = 0 \/ trav # b.traversal \/ b.recovering)) OBVIOUS
  <2>11. c = [f EXCEPT !.traversing = t] BY <1>2, <2>2, <2>5, <2>6, <2>10 DEF Navigate
  <2>12. Others(f, c) /\ c.ops = f.ops
    <3>1. t \in BOOLEAN OBVIOUS
    <3>2. f.recovering = b.recovering BY <2>3, <2>9 DEF Undisturbed, Others
    <3>3. (t => f.traversing) /\ (f.recovering /\ f.traversing => t) BY <2>10, <3>2
    <3> QED BY <2>9, <2>11, <3>1, <3>3, ReleaseIs
  <2>13. c.traversing = t BY <2>9, <2>11 DEF Form, Typed, Page
  <2>14. Descend(c.ops, f.ops) BY <2>12 DEF Descend, Kin
  <2>15. Tells(f, c)
    <3>1. \A q \in f.ops : q.kind = "nav" => \E o \in c.ops : o.kind = "nav" /\ o.trav = q.trav BY <2>12
    <3> QED BY <2>10, <2>12, <2>13, <2>14, <3>1, OthersTell
  <2>16. Tells(b, c)
    <3>1. Tells(b, f) BY <2>4, <2>8, TellsTrans
    <3> QED BY <2>15, <3>1, TellsTrans
  <2>17. \E x : Watching(c, x) BY <2>8, <2>12, WatchingOthers
  <2>18. Goes(b, c, trav, h)
    <3>1. f.traversing = b.traversing BY <2>3, <2>9 DEF Undisturbed
    <3> QED BY <2>10, <2>13, <2>17, <3>1 DEF Goes
  <2> QED BY <2>1, <2>16, <2>18
<1> QED BY <1>1, <1>2

LEMMA SupersededTells ==
  ASSUME NEW b, Form(b), NEW c, c = Superseded(b)
  PROVE  /\ Tells(b, c) /\ c.truthUrl = b.truthUrl
         /\ (b.traversing => Href(c) = c.truthUrl) /\ (~b.traversing => Href(c) = Href(b))
<1>1. PICK a : a = Abort(b) OBVIOUS
<1>2. Form(a) /\ Others(b, a) /\ a.traversing = b.traversing /\ Tells(b, a) BY <1>1, AbortIs, AbortTells
<1>3. PICK l \in BOOLEAN : l = (a.lapsed \/ Drops(b)) OBVIOUS
<1>4. PICK d : d = [a EXCEPT !.lapsed = l] OBVIOUS
<1>5. Form(d) /\ Losing(a, d)
  <2>1. a \in Page BY <1>2 DEF Form, Typed
  <2>2. l \in BOOLEAN /\ (a.lapsed => l) BY <1>3
  <2>3. d \in Page BY <1>4, <2>1, <2>2, ZenonT(60) DEF Page
  <2>4. Losing(a, d) BY <1>4, <2>1, <2>2 DEF Page, Losing
  <2> QED BY <1>2, <2>3, <2>4, LosingKeeps
<1>6. Tells(b, d)
  <2>1. Tells(a, d) BY <1>5, LosingTell
  <2> QED BY <1>2, <2>1, TellsTrans
<1>7. d.truthUrl = b.truthUrl /\ Href(d) = Href(b) BY <1>2, <1>5 DEF Others, Losing, Href, Current
<1>8. CASE ~b.traversing
  <2>1. c = d BY <1>1, <1>3, <1>4, <1>8 DEF Superseded
  <2> QED BY <1>6, <1>7, <1>8, <2>1
<1>9. CASE b.traversing
  <2>1. PICK e : e = CloseTraversal(d) OBVIOUS
  <2>2. Paused(d, e) /\ Form(e) /\ Tells(d, e) BY <1>5, <2>1, CloseTraversalIs, CloseTells
  <2>3. PICK url \in Link : url = b.truthUrl BY DEF Form, Typed, Page
  <2>4. c = RepairDisplayedTruth(e, url) BY <1>1, <1>3, <1>4, <1>9, <2>1, <2>3 DEF Superseded
  <2>5. url = e.truthUrl BY <1>7, <2>2, <2>3 DEF Paused
  <2>6. Tells(e, c) /\ Href(c) = c.truthUrl BY <2>2, <2>4, <2>5, RepairTells
  <2>7. c.truthUrl = b.truthUrl
    <3>1. url # NoUrl BY <2>3 DEF Form, RealHistory
    <3> QED BY <2>2, <2>3, <2>4, <3>1, RepairIs
  <2>8. Tells(b, c)
    <3>1. Tells(b, e) BY <1>6, <2>2, TellsTrans
    <3> QED BY <2>6, <3>1, TellsTrans
  <2> QED BY <1>9, <2>6, <2>7, <2>8
<1> QED BY <1>8, <1>9

-----------------------------------------------------------------------------
(* What is known when an action begins and ends.                           *)

LEMMA TellsWhole ==
  ASSUME NEW b, Whole(b), NEW c, Still(b, c), Tells(b, c), Awake(b) /\ Awake(c) => Mended(c)
  PROVE  Whole(c)
<1>1. Awake(c) => Awake(b) BY DEF Still, Onward, Awake
<1> QED BY <1>1 DEF Whole, Tells

\* an arrival is still to come
Deferred(b) == b.pushRecovery # {} \/ b.supersession # {} \/ b.mutationRecovery # {}
\* the address bar is right, or an arrival will correct it
Righted(b) == Href(b) = b.truthUrl \/ Deferred(b)

LEMMA RightedMends ==
  ASSUME NEW b, Righted(b)
  PROVE  Mended(b)
BY DEF Righted, Deferred, Mended, Pending

\* where no traversal, POST or recovery is under way, and no prompt, the address bar is right
LEMMA Unbroken ==
  ASSUME NEW b, Form(b), Core(b), Loose(b), Mended(b), ~b.traversing, Kind(b) # "post", Rec(b) = NoUrl
  PROVE  Righted(b)
<1> SUFFICES ASSUME Href(b) # b.truthUrl, ~Deferred(b) PROVE FALSE BY DEF Righted
<1>1. \A o \in b.ops : o.seq = b.active => o.kind # "post" /\ o.rec = NoUrl
  BY ActiveIs DEF Form
<1>2. \A o \in b.ops : ~Mender(b, o)
  <2> SUFFICES ASSUME NEW o \in b.ops, Mender(b, o) PROVE FALSE OBVIOUS
  <2>1. o.seq = b.active /\ o.kind # "post" /\ o.rec = NoUrl BY <1>1 DEF Mender
  <2>2. o.seq # b.carrier BY <2>1 DEF Form, Natives
  <2>3. o.kind # "wait" BY <2>1 DEF Form, RealOps
  <2> QED BY <2>1, <2>2, <2>3 DEF Mender
<1>3. \A x : ~Watching(b, x) BY DEF Watching, Loose, Unasked, Elements
<1>4. ~Delayed(b) BY DEF Delayed, Core, Scrolled, Repeating
<1> QED BY <1>2, <1>3, <1>4 DEF Mended, Pending, Deferred

LEMMA AgedWatching ==
  ASSUME NEW b, NEW c, Aged(b, c), NEW x, Watching(b, x)
  PROVE  Watching(c, x)
<1>1. Guard(c, x) BY DEF Watching, Guard, Aged, Carries, Href, Current
<1>2. Unasked(b) => Unasked(c) BY DEF Unasked, Aged, Carries
<1> QED BY <1>1, <1>2 DEF Watching, Aged, Carries

LEMMA AgedMender ==
  ASSUME NEW b, NEW c, Aged(b, c), NEW o \in b.ops, Mender(b, o)
  PROVE  \E x \in c.ops : Mender(c, x)
<1>1. PICK x \in c.ops : Kin(x, o) /\ x.kind = o.kind /\ x.aborted = o.aborted BY DEF Aged
<1> QED BY <1>1 DEF Mender, Aged, Carries, Kin

LEMMA AgedRighted ==
  ASSUME NEW b, NEW c, Aged(b, c), Righted(b)
  PROVE  Righted(c)
BY DEF Righted, Deferred, Aged, Carries, Href, Current

\* what the user's acts begin with
LEMMA ActsIs ==
  ASSUME Kept, Whole(page), Unprompted
  PROVE  /\ Form(page) /\ Loose(page)
         /\ Awake(page) => /\ Core(page) /\ Faithful(page) /\ Turned(page) /\ Mended(page)
                           /\ Kind(page) # "post" /\ ~page.traversing /\ Rec(page) = NoUrl => Righted(page)
<1>1. Form(page) BY DEF Kept, Tracked
<1>2. Loose(page) BY DEF Unprompted, Loose
<1>3. ASSUME Awake(page) PROVE Core(page) /\ Faithful(page) /\ Turned(page) /\ Mended(page)
  BY <1>3 DEF Kept, Tracked, Steady, Whole
<1> QED BY <1>1, <1>2, <1>3, Unbroken

-----------------------------------------------------------------------------
(* The acts of the user.                                                   *)

LEMMA ClickHolds ==
  ASSUME Kept, Whole(page), NEW url \in Url, Click(url)
  PROVE  Whole(page')
<1>0. server \in Nat /\ Unprompted /\ page.life = "active" /\ Kind(page) # "post" /\ ~page.traversing
  BY DEF Kept, Inv, Click, Listening, Act, Free
<1>1. PICK p : p = Outdate(page) OBVIOUS
<1>2. /\ Form(p) /\ Aged(page, p) /\ Still(page, p) /\ Kind(p) = Kind(page) /\ Rec(p) = Rec(page)
      /\ \A t \in p.timers : t.kind # "traversal" => t.late
  BY <1>0, <1>1, OutdatedIs
<1>3. PICK yes \in BOOLEAN, no \in BOOLEAN, z \in Nat : yes = TRUE /\ no = FALSE /\ z = 0 OBVIOUS
<1>4. PICK g \in Link : g = Rec(p) BY <1>2, ActiveIs DEF Form
<1>5. PICK b : b = Navigate(p, url, no, z, NoUrl, yes) OBVIOUS
<1>6. Form(b) /\ Still(p, b) /\ Tells(p, b) /\ Goes(p, b, z, g)
  <2>1. url \in Link /\ url # NoUrl /\ NoUrl \in Link BY NavigationAssumption DEF Link
  <2>2. g = (IF NoUrl # NoUrl THEN NoUrl ELSE Rec(p)) BY <1>4
  <2>3. yes \in BOOLEAN /\ no \in BOOLEAN /\ z \in Nat OBVIOUS
  <2>4. z # 0 => \A q \in p.ops : q.trav # z BY <1>3
  <2>5. Kind(p) # "post" BY <1>0, <1>2
  <2> QED BY <1>0, <1>2, <1>5, <2>1, <2>2, <2>3, <2>4, <2>5, NavigateTells
<1>7. PICK c : c = Unsource(b) OBVIOUS
<1>8. c = page'
  <2>1. page' = [b EXCEPT !.ops = {IF o.seq = b.active THEN [o EXCEPT !.source.id = 0] ELSE o : o \in @}]
    BY <1>1, <1>3, <1>5 DEF Click
  <2> QED BY <1>7, <2>1 DEF Unsource, Unsourcing, Unsourced
<1>9. \E o : Begun(p, b, o) /\ o.kind = "nav" /\ o.rec = g /\ ~o.aborted
  <2>1. b = Begin(p, Op(p, "nav", url, no, z, g))
    <3>1. p.life # "closed" BY <1>0, <1>2 DEF Aged, Carries
    <3> QED BY <1>0, <1>2, <1>3, <1>4, <1>5, <3>1 DEF Navigate
  <2>2. PICK o : o = Op(p, "nav", url, no, z, g) OBVIOUS
  <2>3. url \in Link /\ url # NoUrl BY NavigationAssumption DEF Link
  <2>4. /\ o \in Operation /\ o.seq = FreshSeq(p) /\ o.kind = "nav" /\ o.url = url /\ o.rec = g
        /\ o.truth # NoUrl /\ ~o.aborted
    BY <1>0, <1>2, <2>2, <2>3, NewOpIs
  <2>5. Proper(o) BY <2>3, <2>4 DEF Proper
  <2>6. Begun(p, b, o) BY <1>2, <2>1, <2>2, <2>4, <2>5, BeginIs
  <2> QED BY <2>4, <2>6
<1>10. Form(c) /\ Still(b, c) /\ Aged(b, c)
  <2>1. \A t \in b.timers : t.kind = "stage" => t.late BY <1>2, <1>9 DEF Begun, TimerKin
  <2> QED BY <1>6, <1>7, <2>1, UnsourceIs
<1>11. Tells(page, c)
  <2>1. Tells(page, p) BY <1>2, AgedTell
  <2>2. Tells(b, c) BY <1>10, AgedTell
  <2>3. Tells(page, b) BY <1>6, <2>1, TellsTrans
  <2> QED BY <2>2, <2>3, TellsTrans
<1>12. Still(page, c)
  <2>1. Still(page, b) BY <1>2, <1>6, StillTrans
  <2> QED BY <1>10, <2>1, StillTrans
<1>13. ASSUME Awake(page) PROVE Mended(c)
  <2>1. PICK o : Begun(p, b, o) /\ o.kind = "nav" /\ o.rec = g /\ ~o.aborted BY <1>9
  <2>2. CASE g # NoUrl
    <3>1. o \in b.ops /\ Mender(b, o) BY <2>1, <2>2 DEF Begun, Mender
    <3>2. \E x \in c.ops : Mender(c, x) BY <1>10, <3>1, AgedMender
    <3> QED BY <3>2 DEF Mended
  <2>3. CASE g = NoUrl
    <3>1. Righted(page) BY <1>0, <1>2, <1>4, <1>13, <2>3, ActsIs
    <3>2. Righted(p) BY <1>2, <3>1, AgedRighted
    <3>3. Righted(b) BY <2>1, <3>2 DEF Righted, Deferred, Begun, Carries, Href, Current
    <3>4. Righted(c) BY <1>10, <3>3, AgedRighted
    <3> QED BY <3>4, RightedMends
  <2> QED BY <2>2, <2>3
<1> QED BY <1>8, <1>11, <1>12, <1>13, TellsWhole

LEMMA DepartTells ==
  ASSUME NEW b, Form(b), NEW url \in Link, url # NoUrl, NEW c, c = Depart(b, url)
  PROVE  Tells(b, c)
<1>1. Asks(b, c, {}) BY DepartIs DEF Form
<1>2. PICK O : O = {} OBVIOUS
<1>3. Asks(b, c, O) /\ \A x \in O : Told(b, x) BY <1>1, <1>2
<1> QED BY <1>3, AsksTell

LEMMA MenderMends ==
  ASSUME NEW b, NEW o \in b.ops, Mender(b, o)
  PROVE  Mended(b)
BY DEF Mended

LEMMA NativeActivationHolds ==
  ASSUME Kept, Whole(page), NEW url \in Url, NativeActivation(url)
  PROVE  Whole(page')
<1>0. /\ server \in Nat /\ Unprompted /\ Form(page)
      /\ page.life = "closed" \/ (page.life = "active" /\ Kind(page) # "post")
  BY DEF Kept, Inv, NativeActivation, Listening, Act, Free, Tracked
<1>1. url \in Link /\ url # NoUrl BY NavigationAssumption DEF Link
<1>2. PICK c : c = page' OBVIOUS
<1>3. CASE page.life = "closed"
  <2>1. c = Depart(page, url) BY <1>2, <1>3 DEF NativeActivation
  <2>2. Still(page, c) BY <1>0, <1>1, <2>1, DepartAlone
  <2>3. ~Awake(c) BY <1>3, <2>2 DEF Still, Onward, Awake, Off
  <2> QED BY <1>2, <2>3 DEF Whole
<1>4. CASE page.life # "closed"
  <2>0. page.life = "active" /\ Kind(page) # "post" BY <1>0, <1>4
  <2>1. PICK p : p = Outdate(page) OBVIOUS
  <2>2. Form(p) /\ Aged(page, p) /\ Still(page, p) BY <1>0, <2>1, OutdatedIs
  <2>3. PICK b : b = Superseded(p) OBVIOUS
  <2>4. /\ Form(b) /\ Still(p, b)
        /\ b.mutationRecovery = p.mutationRecovery /\ b.pushRecovery = p.pushRecovery
        /\ b.supersession = p.supersession
    BY <2>2, <2>3, SupersededIs
  <2>5. /\ Tells(p, b) /\ b.truthUrl = p.truthUrl
        /\ (p.traversing => Href(b) = b.truthUrl) /\ (~p.traversing => Href(b) = Href(p))
    BY <2>2, <2>3, SupersededTells
  <2>6. Still(page, b) BY <2>2, <2>4, StillTrans
  <2>7. Tells(page, b)
    <3>1. Tells(page, p) BY <2>2, AgedTell
    <3> QED BY <2>5, <3>1, TellsTrans
  <2>8. CASE Rec(page) # NoUrl
    <3>1. PICK g \in Link : g = Rec(page) /\ g # NoUrl BY <1>0, <2>8, ActiveIs DEF Form
    <3>2. c = RecoverCommitted(b, g) BY <1>2, <2>0, <2>1, <2>3, <3>1 DEF NativeActivation
    <3>3. Still(b, c) BY <1>0, <2>4, <3>1, <3>2, RecoverCommittedIs
    <3>4. Tells(b, c) /\ \E o \in c.ops : Mender(c, o) BY <1>0, <2>4, <3>1, <3>2, RecoverTells
    <3>5. Mended(c) BY <3>4, MenderMends
    <3>6. Still(page, c) BY <2>6, <3>3, StillTrans
    <3>7. Tells(page, c) BY <2>7, <3>4, TellsTrans
    <3> QED BY <1>2, <3>5, <3>6, <3>7, TellsWhole
  <2>9. CASE Rec(page) = NoUrl
    <3>1. c = Depart(b, url) BY <1>2, <2>0, <2>1, <2>3, <2>9 DEF NativeActivation
    <3>2. Still(b, c) /\ Undisturbed(b, c) BY <1>1, <2>4, <3>1, DepartAlone
    <3>3. Tells(b, c) BY <1>1, <2>4, <3>1, DepartTells
    <3>4. Still(page, c) BY <2>6, <3>2, StillTrans
    <3>5. Tells(page, c) BY <2>7, <3>3, TellsTrans
    <3>6. ASSUME Awake(page) PROVE Mended(c)
      <4>1. CASE p.traversing
        <5>1. Href(c) = c.truthUrl BY <2>5, <3>2, <4>1 DEF Undisturbed, Href, Current
        <5> QED BY <5>1 DEF Mended
      <4>2. CASE ~p.traversing
        <5>1. ~page.traversing BY <2>2, <4>2 DEF Aged, Carries
        <5>2. Righted(page) BY <1>0, <2>0, <2>9, <3>6, <5>1, ActsIs
        <5>3. Righted(p) BY <2>2, <5>2, AgedRighted
        <5>4. Righted(b) BY <2>4, <2>5, <4>2, <5>3 DEF Righted, Deferred
        <5>5. Righted(c) BY <3>2, <5>4 DEF Righted, Deferred, Undisturbed, Href, Current
        <5> QED BY <5>5, RightedMends
      <4> QED BY <4>1, <4>2
    <3> QED BY <1>2, <3>4, <3>5, <3>6, TellsWhole
  <2> QED BY <2>8, <2>9
<1> QED BY <1>3, <1>4

LEMMA PolicyActivationHolds ==
  ASSUME Kept, Whole(page), NEW url \in Url, PolicyActivation(url)
  PROVE  Whole(page')
<1>0. Unprompted /\ Form(page) BY DEF Kept, Inv, PolicyActivation, Free, Tracked
<1>1. url \in Link /\ url # NoUrl BY NavigationAssumption DEF Link
<1>2. PICK p : p = Outdate(page) OBVIOUS
<1>3. Form(p) /\ Aged(page, p) /\ Still(page, p) BY <1>0, <1>2, OutdatedIs
<1>4. PICK q : q = Abort(p) OBVIOUS
<1>5. Form(q) /\ Still(p, q) /\ Others(p, q) /\ Tells(p, q)
  <2>1. Form(q) /\ Others(p, q) /\ \A o \in q.ops : \E x \in p.ops : Kin(o, x) BY <1>3, <1>4, AbortIs
  <2>2. Still(p, q) BY <2>1, StillOthers DEF Descend
  <2> QED BY <1>3, <1>4, <2>1, <2>2, AbortTells
<1>6. PICK a : a = Relinquish(q) OBVIOUS
<1>7. Form(a) /\ Still(q, a) /\ Others(q, a) /\ Tells(q, a)
  <2>1. Form(a) /\ Others(q, a) /\ a.ops \subseteq q.ops BY <1>5, <1>6, RelinquishIs
  <2>2. Descend(a.ops, q.ops) BY <2>1 DEF Descend, Kin
  <2>3. Still(q, a) BY <2>1, <2>2, StillOthers
  <2> QED BY <1>5, <1>6, <2>1, <2>3, RelinquishTells
<1>8. PICK t \in Link : t = page.truthUrl /\ t # NoUrl BY <1>0 DEF Form, Typed, Page, RealHistory
<1>9. PICK b : b = IF page.traversing THEN RepairDisplayedTruth(CloseTraversal(a), t) ELSE a OBVIOUS
<1>10. Form(b) /\ Still(a, b) /\ Tells(a, b)
  <2>1. CASE page.traversing
    <3>1. PICK z : z = CloseTraversal(a) OBVIOUS
    <3>2. Form(z) /\ Paused(a, z) /\ Still(a, z) /\ Tells(a, z) BY <1>7, <3>1, CloseTraversalIs, StillPaused, CloseTells
    <3>3. b = RepairDisplayedTruth(z, t) BY <1>9, <2>1, <3>1
    <3>4. Form(b) /\ Alike(z, b) /\ b.shown = z.shown /\ b.leaving = z.leaving BY <1>8, <3>2, <3>3, RepairIs
    <3>5. Still(z, b) BY <3>4, StillAlike
    <3>6. t = z.truthUrl BY <1>3, <1>5, <1>7, <1>8, <3>2 DEF Aged, Carries, Others, Paused
    <3>7. Tells(z, b) BY <3>2, <3>3, <3>6, RepairTells
    <3>8. Still(a, b) BY <3>2, <3>5, StillTrans
    <3>9. Tells(a, b) BY <3>2, <3>7, TellsTrans
    <3> QED BY <3>4, <3>8, <3>9
  <2>2. CASE ~page.traversing
    <3>1. b = a BY <1>9, <2>2
    <3> QED BY <1>7, <3>1 DEF Still, Onward, Recent, Tells
  <2> QED BY <2>1, <2>2
<1>11. PICK d : d = Depart(b, url) OBVIOUS
<1>12. Form(d) /\ Still(b, d) /\ Undisturbed(b, d) BY <1>1, <1>10, <1>11, DepartAlone
<1>13. Tells(b, d) BY <1>1, <1>10, <1>11, DepartTells
<1>14. d \in Page BY <1>12 DEF Form, Typed
<1>15. PICK l \in BOOLEAN : l = (d.lapsed \/ Href(b) # b.truthUrl) OBVIOUS
<1>16. PICK c : c = [d EXCEPT !.lapsed = l] OBVIOUS
<1>17. c = page'
  <2>1. page' = [d EXCEPT !.lapsed = @ \/ Href(b) # b.truthUrl]
    BY <1>2, <1>4, <1>6, <1>8, <1>9, <1>11 DEF PolicyActivation
  <2> QED BY <1>14, <1>15, <1>16, <2>1 DEF Page
<1>18. c \in Page /\ Losing(d, c) /\ c.lapsed = l
  <2>1. l \in BOOLEAN /\ (d.lapsed => l) BY <1>15
  <2>2. c \in Page BY <1>14, <1>16, <2>1, ZenonT(60) DEF Page
  <2> QED BY <1>14, <1>16, <2>1, <2>2 DEF Page, Losing
<1>19. Still(page, c)
  <2>1. Still(page, q) BY <1>3, <1>5, StillTrans
  <2>2. Still(page, a) BY <1>7, <2>1, StillTrans
  <2>3. Still(page, b) BY <1>10, <2>2, StillTrans
  <2>4. Still(page, d) BY <1>12, <2>3, StillTrans
  <2>5. Still(d, c) BY <1>12, <1>18, LosingKeeps
  <2> QED BY <2>4, <2>5, StillTrans
<1>20. Tells(page, c)
  <2>1. Tells(page, p) BY <1>3, AgedTell
  <2>2. Tells(page, q) BY <1>5, <2>1, TellsTrans
  <2>3. Tells(page, a) BY <1>7, <2>2, TellsTrans
  <2>4. Tells(page, b) BY <1>10, <2>3, TellsTrans
  <2>5. Tells(page, d) BY <1>13, <2>4, TellsTrans
  <2>6. Tells(d, c) BY <1>18, LosingTell
  <2> QED BY <2>5, <2>6, TellsTrans
<1>21. ASSUME Awake(c) PROVE Mended(c)
  <2>1. Href(b) = b.truthUrl BY <1>15, <1>18, <1>21 DEF Awake, Off
  <2>2. Href(c) = c.truthUrl BY <1>12, <1>18, <2>1 DEF Undisturbed, Losing, Href, Current
  <2> QED BY <2>2 DEF Mended
<1> QED BY <1>17, <1>19, <1>20, <1>21, TellsWhole

LEMMA AuxiliaryClickHolds ==
  ASSUME Kept, Whole(page), AuxiliaryClick
  PROVE  Whole(page')
<1>0. /\ Unprompted /\ Form(page) /\ page.life = "active" /\ Kind(page) # "post" /\ Rec(page) # NoUrl
  BY DEF Kept, Inv, AuxiliaryClick, Listening, Act, Free, Tracked
<1>1. PICK p : p = Outdate(page) OBVIOUS
<1>2. Form(p) /\ Aged(page, p) /\ Still(page, p) /\ Rec(p) = Rec(page) BY <1>0, <1>1, OutdatedIs
<1>3. PICK b : b = Superseded(p) OBVIOUS
<1>4. Form(b) /\ Still(p, b) /\ b.active = p.active /\ b.carrier = p.carrier /\ Rec(b) = Rec(p)
  BY <1>2, <1>3, SupersededIs
<1>5. Still(page, b) BY <1>2, <1>4, StillTrans
<1>6. Tells(page, b)
  <2>1. Tells(page, p) BY <1>2, AgedTell
  <2>2. Tells(p, b) BY <1>2, <1>3, SupersededTells
  <2> QED BY <2>1, <2>2, TellsTrans
<1>7. PICK x \in b.ops : x.seq = b.active /\ x.rec # NoUrl
  <2>1. Rec(b) # NoUrl BY <1>0, <1>2, <1>4
  <2> QED BY <1>4, <2>1, RecIs DEF Form
<1>8. PICK o \in Active(page) :
        page' = IF page.carrier = o.seq THEN b
                ELSE [b EXCEPT !.carrier = o.seq, !.timers = @ \cup {Timer("native", o.seq, 0, o.truth, o.rec)}]
  BY <1>1, <1>3 DEF AuxiliaryClick
<1>9. /\ o.seq = b.active /\ o.seq \in Nat /\ o.truth \in Link /\ o.rec \in Link
      /\ o.truth # NoUrl /\ o.rec # NoUrl
  <2>1. o \in page.ops /\ o.seq = page.active BY DEF Active
  <2>2. o \in Operation /\ o.seq \in Nat /\ o.truth \in Link /\ o.rec \in Link
    BY <1>0, <2>1 DEF Form, Typed, Page, Operation
  <2>3. o.truth # NoUrl BY <1>0, <2>1 DEF Form, RealOps
  <2>4. o.rec # NoUrl BY <1>0, <2>1, ActiveIs DEF Form
  <2>5. b.active = page.active BY <1>2, <1>4 DEF Aged
  <2> QED BY <2>1, <2>2, <2>3, <2>4, <2>5
<1>10. PICK c : c = page' OBVIOUS
<1>11. Still(b, c) /\ Tells(b, c) /\ \E y \in c.ops : Mender(c, y)
  <2>1. CASE page.carrier = o.seq
    <3>1. c = b BY <1>8, <1>10, <2>1
    <3>2. b.carrier = b.active BY <1>2, <1>4, <1>9, <2>1 DEF Aged, Carries
    <3>3. Mender(b, x) BY <1>7, <3>2 DEF Mender
    <3>4. Still(b, b) /\ Tells(b, b) BY DEF Still, Onward, Recent, Tells
    <3> QED BY <3>1, <3>3, <3>4
  <2>2. CASE page.carrier # o.seq
    <3>1. PICK t \in TimerRecord : t = Timer("native", o.seq, 0, o.truth, o.rec) BY <1>9 DEF Timer, TimerRecord, Link
    <3>2. t.kind = "native" /\ t.op = b.active /\ t.current /\ t.rec # NoUrl /\ t.url # NoUrl
      BY <1>9, <3>1 DEF Timer
    <3>3. PICK n \in Nat : n = o.seq BY <1>9
    <3>4. c = [b EXCEPT !.carrier = n, !.timers = @ \cup {t}] BY <1>8, <1>10, <2>2, <3>1, <3>3
    <3>5. Typed(c) /\ Laden(b, c, t)
      <4>1. n = b.active BY <1>9, <3>3
      <4> QED BY <1>4, <3>4, <4>1, LadenIs DEF Form
    <3>6. b.carrier # b.active BY <1>2, <1>4, <1>9, <2>2 DEF Aged, Carries
    <3>7. Still(b, c) BY <1>4, <1>7, <3>2, <3>5, <3>6, LadenKeeps
    <3>8. Tells(b, c) BY <3>2, <3>5, LadenTell
    <3>9. x \in c.ops /\ Mender(c, x) BY <1>7, <3>5 DEF Mender, Laden
    <3> QED BY <3>7, <3>8, <3>9
  <2> QED BY <2>1, <2>2
<1>12. Still(page, c) BY <1>5, <1>11, StillTrans
<1>13. Tells(page, c) BY <1>6, <1>11, TellsTrans
<1>14. Mended(c) BY <1>11, MenderMends
<1> QED BY <1>10, <1>12, <1>13, <1>14, TellsWhole

LEMMA SubmitHolds ==
  ASSUME Kept, Whole(page), Submit
  PROVE  Whole(page')
<1>0. server \in Nat /\ Unprompted /\ Form(page) BY DEF Kept, Inv, Submit, Act, Free, Tracked
<1>1. PICK p : p = Outdate(page) OBVIOUS
<1>2. Form(p) /\ Aged(page, p) /\ Still(page, p) /\ Tells(page, p) BY <1>0, <1>1, OutdatedIs, AgedTell
<1>3. PICK s : s = Superseded(p) OBVIOUS
<1>4. Form(s) /\ Still(p, s) /\ Tells(p, s) BY <1>2, <1>3, SupersededIs, SupersededTells
<1>5. PICK b : b = IF ~page.traversing THEN p
                   ELSE IF Rec(page) = NoUrl THEN s
                   ELSE Observe(s, Observer(s, "fallback", FALSE, 0, Rec(page)))
  OBVIOUS
<1>6. Form(b) /\ Still(p, b) /\ Tells(p, b)
  <2>1. CASE ~page.traversing
    <3>1. b = p BY <1>5, <2>1
    <3>2. Still(p, p) /\ Tells(p, p) BY DEF Still, Onward, Recent, Tells
    <3> QED BY <1>2, <3>1, <3>2
  <2>2. CASE page.traversing /\ Rec(page) = NoUrl
    <3>1. b = s BY <1>5, <2>2
    <3> QED BY <1>4, <3>1
  <2>3. CASE page.traversing /\ Rec(page) # NoUrl
    <3>1. PICK g \in Link : g = Rec(page) /\ g # NoUrl BY <1>0, <2>3, ActiveIs DEF Form
    <3>2. PICK no \in BOOLEAN : no = FALSE OBVIOUS
    <3>3. PICK x : x = Observer(s, "fallback", no, 0, g) OBVIOUS
    <3>4. x \in ObserverRecord /\ x.kind = "fallback" /\ x.rec = g /\ x.truth # NoUrl
      <4>1. no \in BOOLEAN /\ 0 \in Nat /\ "fallback" \in {"fallback", "traversal", "staged", "close"} OBVIOUS
      <4> QED BY <1>4, <3>3, <4>1, WatcherIs
    <3>5. b = Observe(s, x) BY <1>5, <2>3, <3>1, <3>2, <3>3
    <3>6. Form(b) /\ Still(s, b) BY <1>4, <3>1, <3>4, <3>5, WatchedIs
    <3>7. /\ Undisturbed(s, b) /\ b.departure = s.departure
          /\ Elements(b.observers) = Elements(s.observers) \cup {x}
      BY <1>4, <3>4, <3>5, ObserveIs DEF Form
    <3>8. Tells(s, b)
      <4>1. Distinct(s) => Distinct(b) BY <3>7 DEF Distinct, Undisturbed
      <4>2. Requesting(s) => Requesting(b) BY <3>7 DEF Requesting, Undisturbed
      <4>3. Unasked(s) => Unasked(b) BY <3>7 DEF Unasked
      <4>4. Told(s, x) /\ x.kind # "staged" BY <3>4 DEF Told
      <4>5. Akin(s, b) BY <3>7, <4>1, <4>2, <4>3, <4>4 DEF Akin, Undisturbed, Ours
      <4> QED BY <4>5, AkinTells
    <3>9. Still(p, b) BY <1>4, <3>6, StillTrans
    <3>10. Tells(p, b) BY <1>4, <3>8, TellsTrans
    <3> QED BY <3>6, <3>9, <3>10
  <2> QED BY <2>1, <2>2, <2>3
<1>7. PICK no \in BOOLEAN : no = FALSE OBVIOUS
<1>8. PICK o : o = Op(b, "post", NoUrl, no, 0, NoUrl) OBVIOUS
<1>9. o \in Operation /\ o.seq = FreshSeq(b) /\ o.kind = "post" /\ o.rec = NoUrl /\ o.truth # NoUrl /\ ~o.aborted
      /\ o.began = server /\ o.trav = 0
  <2>1. no \in BOOLEAN /\ 0 \in Nat /\ NoUrl \in Link /\ "post" \in {"nav", "post", "wait", "idle"} BY DEF Link
  <2>2. o.trav = 0 BY <1>8 DEF Op
  <2> QED BY <1>0, <1>6, <1>8, <2>1, <2>2, NewOpIs
<1>10. PICK c : c = page' OBVIOUS
<1>11. c = Begin(b, o) BY <1>1, <1>3, <1>5, <1>7, <1>8, <1>10 DEF Submit
<1>12. Proper(o) BY <1>9 DEF Proper
<1>13. Begun(b, c, o) BY <1>6, <1>9, <1>11, <1>12, BeginIs
<1>14. Still(page, c)
  <2>1. Still(b, c) BY <1>9, <1>13, StillBegun
  <2>2. Still(page, b) BY <1>2, <1>6, StillTrans
  <2> QED BY <2>1, <2>2, StillTrans
<1>15. Tells(page, c)
  <2>1. Tells(b, c) BY <1>9, <1>13, BegunTell
  <2>2. Tells(page, b) BY <1>2, <1>6, TellsTrans
  <2> QED BY <2>1, <2>2, TellsTrans
<1>16. o \in c.ops /\ Mender(c, o) BY <1>9, <1>13 DEF Begun, Mender
<1>17. Mended(c) BY <1>16, MenderMends
<1> QED BY <1>10, <1>14, <1>15, <1>17, TellsWhole

LEMMA ScrollHolds ==
  ASSUME Kept, Whole(page), Scroll
  PROVE  Whole(page')
<1>0. Unprompted /\ Form(page) /\ page.life = "active" /\ page.traversing
  BY DEF Kept, Scroll, Act, Free, Tracked
<1>1. Typed(page) /\ page \in Page BY <1>0 DEF Form, Typed
<1>2. PICK q : q = Abort(page) OBVIOUS
<1>3. Form(q) /\ Others(page, q) /\ Still(page, q) /\ Tells(page, q)
  <2>1. Form(q) /\ Others(page, q) /\ \A o \in q.ops : \E y \in page.ops : Kin(o, y) BY <1>0, <1>2, AbortIs
  <2>2. Still(page, q) BY <2>1, StillOthers DEF Descend
  <2> QED BY <1>0, <1>2, <2>1, <2>2, AbortTells
<1>4. PICK g \in Link : g = Rec(page) BY <1>1, ActiveIs
<1>5. PICK l \in BOOLEAN : l = (q.lapsed \/ (page.pushRecovery # {} /\ Rec(page) # NoUrl)) OBVIOUS
<1>6. PICK yes \in BOOLEAN : yes = TRUE OBVIOUS
<1>7. PICK w : w = [q EXCEPT !.recovering = yes, !.lapsed = l] OBVIOUS
<1>8. Form(w) /\ Delays(q, w, l) /\ Still(q, w)
  <2>1. l \in BOOLEAN /\ yes \in BOOLEAN /\ yes /\ (q.lapsed => l) BY <1>5, <1>6
  <2> QED BY <1>3, <1>7, <2>1, DelaysIs
<1>9. PICK v : v = page.traversal OBVIOUS
<1>10. PICK t \in TimerRecord : t = Timer("traversal", 0, v, NoUrl, g)
  <2>1. v \in Nat BY <1>1, <1>9 DEF Page
  <2> QED BY <2>1 DEF Timer, TimerRecord, Link
<1>11. t.kind = "traversal" /\ t.trav = v BY <1>10 DEF Timer
<1>12. PICK c : c = [w EXCEPT !.timers = @ \cup {t}] OBVIOUS
<1>13. c = page'
  <2>1. q \in Page BY <1>3 DEF Form, Typed
  <2>2. page' = [q EXCEPT !.recovering = TRUE,
                          !.lapsed = @ \/ (page.pushRecovery # {} /\ Rec(page) # NoUrl),
                          !.timers = @ \cup {t}]
    BY <1>2, <1>4, <1>9, <1>10 DEF Scroll
  <2> QED BY <1>5, <1>6, <1>7, <1>12, <2>1, <2>2 DEF Page
<1>14. Timed(w, c, t) /\ Still(w, c) BY <1>8, <1>11, <1>12, TimedIs, TimedKeeps DEF Form
<1>15. Still(page, c)
  <2>1. Still(page, w) BY <1>3, <1>8, StillTrans
  <2> QED BY <1>14, <2>1, StillTrans
<1>16. Delayed(c)
  <2>1. c.traversal = page.traversal /\ t \in c.timers BY <1>3, <1>8, <1>14 DEF Others, Delays, Timed
  <2> QED BY <1>9, <1>11, <2>1 DEF Delayed, Ours
<1>17. Tells(page, c)
  <2>1. Faithful(q) => Faithful(w)
    <3>1. Unasked(q) => Unasked(w) BY <1>8 DEF Unasked, Delays
    <3> QED BY <1>8, <3>1 DEF Faithful, Truthful, Heeding, Told, Staging, Distinct, Delays
  <2>2. Tells(w, c) BY <1>11, <1>14, TimedTell
  <2>3. c.recovering BY <1>8, <1>14 DEF Delays, Timed
  <2>4. Turned(c) BY <1>16, <2>3 DEF Turned, Reloading
  <2> QED BY <1>3, <2>1, <2>2, <2>4 DEF Tells
<1>18. Mended(c) BY <1>16 DEF Mended, Pending
<1> QED BY <1>13, <1>15, <1>17, <1>18, TellsWhole

LEMMA CloseHolds ==
  ASSUME Kept, Whole(page), Close
  PROVE  Whole(page')
<1>0. Unprompted /\ Form(page) /\ page.life = "active" BY DEF Kept, Close, Act, Free, Tracked
<1>1. PICK p : p = Outdate(page) OBVIOUS
<1>2. Form(p) /\ Aged(page, p) /\ Tells(page, p) BY <1>0, <1>1, OutdatedIs, AgedTell
<1>3. PICK b : b = Abort(p) OBVIOUS
<1>4. Form(b) /\ Others(p, b) /\ Tells(p, b) BY <1>2, <1>3, AbortIs, AbortTells
<1>5. Tells(page, b) BY <1>2, <1>4, TellsTrans
<1>6. PICK c : c = page' OBVIOUS
<1>7. CASE ~page.traversing /\ Kind(page) # "post" /\ Rec(page) = NoUrl
  <2>1. PICK l \in {"active", "closing", "closed"} : l = "closed" OBVIOUS
  <2>2. c = [b EXCEPT !.life = l] BY <1>1, <1>3, <1>6, <1>7, <2>1 DEF Close
  <2>3. Lived(b, c, l) BY <1>4, <2>2, LivedIs
  <2>4. ~Awake(c) BY <2>1, <2>3 DEF Lived, Off, Awake
  <2> QED BY <1>6, <2>4 DEF Whole
<1>8. CASE ~(~page.traversing /\ Kind(page) # "post" /\ Rec(page) = NoUrl)
  <2>1. PICK l \in {"active", "closing", "closed"} : l = "closing" OBVIOUS
  <2>2. PICK w : w = [b EXCEPT !.life = l] OBVIOUS
  <2>3. Form(w) /\ Lived(b, w, l) BY <1>4, <2>2, LivedIs
  <2>4. PICK g \in Link : g = Rec(page) BY <1>0, ActiveIs DEF Form
  <2>5. PICK yes \in BOOLEAN : yes = TRUE OBVIOUS
  <2>6. PICK x : x = Observer(b, "close", yes, 0, g) OBVIOUS
  <2>7. x \in ObserverRecord /\ x.kind = "close" /\ x.truth # NoUrl /\ x.truth = b.truthUrl /\ x.sel = Href(b)
    <3>1. yes \in BOOLEAN /\ 0 \in Nat /\ "close" \in {"fallback", "traversal", "staged", "close"} OBVIOUS
    <3> QED BY <1>4, <2>6, <3>1, WatcherIs
  <2>8. PICK h \in Link : h = Href(b) /\ h # NoUrl
    <3>1. Href(b) \in Link BY <1>4, CurrentIs DEF Form
    <3> QED BY <1>4, <3>1 DEF Form, Typed, RealHistory, Href, Current
  <2>9. c = Depart(Observe(w, x), h) BY <1>1, <1>3, <1>6, <1>8, <2>1, <2>2, <2>4, <2>5, <2>6, <2>8 DEF Close
  <2>10. PICK O : O = {x} OBVIOUS
  <2>11. Asks(w, c, O) BY <2>3, <2>7, <2>8, <2>9, <2>10, AskIs DEF Form
  <2>12. Tells(page, c)
    <3>1. \A y \in O : Told(w, y) BY <2>7, <2>10 DEF Told
    <3>2. Tells(w, c) BY <2>11, <3>1, AsksTell
    <3>3. Tells(b, w) BY <2>3, LivedTell
    <3>4. Tells(page, w) BY <1>5, <3>3, TellsTrans
    <3> QED BY <3>2, <3>4, TellsTrans
  <2>13. Watching(c, x)
    <3>1. x \in Elements(c.observers) /\ Unasked(c) BY <2>10, <2>11 DEF Asks, Unasked
    <3>2. c.life = "closing" /\ c.truthUrl = x.truth /\ Href(c) = x.sel
      BY <2>1, <2>3, <2>7, <2>11 DEF Asks, Lived, Undisturbed, Href, Current
    <3> QED BY <2>7, <3>1, <3>2 DEF Watching, Guard
  <2>14. Mended(c) BY <2>13 DEF Mended
  <2>15. Awake(c) => Awake(page)
    <3>1. c.lapsed = page.lapsed /\ c.leaving = page.leaving
      BY <1>2, <1>4, <2>3, <2>11 DEF Aged, Carries, Others, Lived, Asks, Undisturbed
    <3> QED BY <1>0, <3>1 DEF Awake, Off
  <2> QED BY <1>6, <2>12, <2>14, <2>15 DEF Whole, Tells
<1> QED BY <1>7, <1>8

-----------------------------------------------------------------------------
(* The arrival at an entry.                                                *)

Lands(b, c) ==
  Core(b) /\ Arriving(b) /\ Faithful(b) /\ Turned(b) => Faithful(c) /\ Turned(c) /\ Mended(c)

LEMMA LightenedFaithful ==
  ASSUME NEW b, Faithful(b), NEW c, Lightened(b, c)
  PROVE  Faithful(c)
BY DEF Faithful, Truthful, Heeding, Told, Unasked, Staging, Distinct, Lightened

LEMMA WatchingMends ==
  ASSUME NEW b, NEW x, Watching(b, x)
  PROVE  Mended(b)
BY DEF Mended

LEMMA SupersessionLands ==
  ASSUME NEW b, Form(b), NEW r \in b.supersession
  PROVE  Lands(b, SupersessionArrived(b, r))
<1>0. PICK c : c = SupersessionArrived(b, r) OBVIOUS
<1>1. PICK l : l = [b EXCEPT !.supersession = {}] OBVIOUS
<1>2. b \in Page /\ Typed(b) BY DEF Form, Typed
<1>3. l \in Page /\ Lightened(b, l)
  <2>1. l \in Page BY <1>1, <1>2 DEF Page
  <2> QED BY <1>1, <1>2, <2>1 DEF Page, Lightened
<1>4. Form(l) BY <1>3, LightenedKeeps
<1>5. PICK a : a = CloseTraversal(l) OBVIOUS
<1>6. Form(a) /\ Turned(a) /\ Tells(l, a)
  <2>1. Form(a) /\ Paused(l, a) BY <1>4, <1>5, CloseTraversalIs
  <2>2. Turned(a) BY <2>1 DEF Paused, Turned
  <2> QED BY <1>4, <1>5, <2>1, <2>2, CloseTells
<1>7. PICK m : m = IF a.active = r.op THEN Relinquish(a) ELSE a OBVIOUS
<1>8. Form(m) /\ Tells(a, m)
  <2>1. CASE a.active = r.op
    <3>1. m = Relinquish(a) BY <1>7, <2>1
    <3> QED BY <1>6, <3>1, RelinquishIs, RelinquishTells
  <2>2. CASE a.active # r.op
    <3>1. m = a BY <1>7, <2>2
    <3> QED BY <1>6, <3>1 DEF Tells
  <2> QED BY <2>1, <2>2
<1>9. PICK no \in BOOLEAN : no = FALSE OBVIOUS
<1>10. Tells(m, c) /\ \E x : Watching(c, x)
  <2>1. PICK u \in Link, h \in Link : u = r.url /\ h = r.rec /\ u # NoUrl BY <1>2 DEF Form, RealRecoveries, Page
  <2>2. c = Fallback(m, u, no, h) BY <1>0, <1>1, <1>5, <1>7, <1>9, <2>1 DEF SupersessionArrived
  <2>3. no \in BOOLEAN OBVIOUS
  <2> QED BY <1>8, <2>1, <2>2, <2>3, FallbackTells
<1>11. ASSUME Faithful(b) PROVE Faithful(c) /\ Turned(c)
  <2>1. Faithful(l) BY <1>3, <1>11, LightenedFaithful
  <2> QED BY <1>6, <1>8, <1>10, <2>1 DEF Tells
<1>12. Mended(c) BY <1>10, WatchingMends
<1>13. Lands(b, c) BY <1>11, <1>12 DEF Lands
<1> QED BY <1>0, <1>13

LEMMA CommittedLands ==
  ASSUME server \in Nat, NEW b, Form(b), NEW r \in b.mutationRecovery
  PROVE  Lands(b, RecoverCommitted([b EXCEPT !.mutationRecovery = {}], r.url))
<1>1. PICK l : l = [b EXCEPT !.mutationRecovery = {}] OBVIOUS
<1>2. b \in Page /\ Typed(b) BY DEF Form, Typed
<1>3. l \in Page /\ Lightened(b, l)
  <2>1. l \in Page BY <1>1, <1>2 DEF Page
  <2> QED BY <1>1, <1>2, <2>1 DEF Page, Lightened
<1>4. Form(l) BY <1>3, LightenedKeeps
<1>5. PICK u \in Link : u = r.url /\ u # NoUrl BY <1>2 DEF Form, RealRecoveries, Page
<1>6. PICK c : c = RecoverCommitted(l, u) OBVIOUS
<1>7. Tells(l, c) /\ \E o \in c.ops : Mender(c, o) BY <1>4, <1>5, <1>6, RecoverTells
<1>8. ASSUME Core(b), Faithful(b) PROVE Faithful(c) /\ Turned(c)
  <2>1. Faithful(l) BY <1>3, <1>8, LightenedFaithful
  <2>2. ~b.traversing BY <1>8 DEF Core, Interrupted
  <2>3. Turned(l) BY <1>3, <2>2 DEF Turned, Lightened
  <2> QED BY <1>7, <2>1, <2>3 DEF Tells
<1>9. Mended(c) BY <1>7, MenderMends
<1>10. Lands(b, c) BY <1>8, <1>9 DEF Lands
<1> QED BY <1>1, <1>5, <1>6, <1>10

LEMMA InterruptLands ==
  ASSUME NEW b, Form(b), b.supersession = {}, b.mutationRecovery = {}, NEW o \in b.ops, o.seq = b.active,
         o.kind = "post"
  PROVE  Lands(b, InterruptPost(b, o))
<1>0. Typed(b) /\ o \in Operation BY DEF Form, Typed, Page
<1>00. o.seq \in Nat \ {0} /\ o.truth \in Link BY <1>0 DEF Operation
<1>1. PICK a : a = Abort(b) OBVIOUS
<1>2. Form(a) /\ Others(b, a) /\ a.traversing = b.traversing /\ Tells(b, a) BY <1>1, AbortIs, AbortTells
<1>4. PICK r \in [op : Nat, url : Link] : r = [op |-> o.seq, url |-> o.truth] BY <1>00
<1>5. PICK y : y = [a EXCEPT !.mutationRecovery = {r}] OBVIOUS
<1>6. a \in Page /\ Typed(a) BY <1>2 DEF Form, Typed
<1>7. y \in Page /\ y.mutationRecovery = {r} BY <1>5, <1>6, ZenonT(60) DEF Page
<1>8. /\ y.ops = a.ops /\ y.active = a.active /\ y.timers = a.timers
      /\ y.entries = a.entries /\ y.cur = a.cur /\ y.shown = a.shown /\ y.truthUrl = a.truthUrl
      /\ y.carrier = a.carrier
      /\ y.traversing = a.traversing /\ y.traversal = a.traversal /\ y.recovering = a.recovering
      /\ y.pushRecovery = a.pushRecovery
      /\ y.supersession = a.supersession /\ y.life = a.life /\ y.departure = a.departure
      /\ y.observers = a.observers /\ y.prompted = a.prompted
      /\ y.jumps = a.jumps /\ y.leaving = a.leaving /\ y.lapsed = a.lapsed
  BY <1>5, <1>6 DEF Page
<1>9. Typed(y)
  <2>1. IsFiniteSet({r}) BY FS_Singleton
  <2> QED BY <1>6, <1>7, <1>8, <2>1 DEF Typed
<1>10. Faithful(a) => Faithful(y)
  <2>1. Unasked(a) => Unasked(y) BY <1>8 DEF Unasked
  <2> QED BY <1>8, <2>1 DEF Faithful, Truthful, Heeding, Told, Staging, Distinct
<1>12. PICK t \in TimerRecord : t = Timer("forward", o.seq, 0, NoUrl, NoUrl) BY <1>00 DEF TimerRecord, Timer, Link
<1>13. t.kind = "forward" BY <1>12 DEF Timer
<1>14. PICK c : c = InterruptPost(b, o) OBVIOUS
<1>15. c = [y EXCEPT !.timers = @ \cup {t}]
  BY <1>1, <1>4, <1>5, <1>6, <1>12, <1>14 DEF InterruptPost, Page
<1>16. Timed(y, c, t) BY <1>9, <1>15, TimedIs
<1>17. Tells(y, c) BY <1>13, <1>16, TimedTell
<1>18. ASSUME Core(b), Faithful(b) PROVE Faithful(c) /\ Turned(c)
  <2>1. ~b.traversing BY <1>18 DEF Core, Posting
  <2>2. Turned(y) BY <1>2, <1>8, <2>1 DEF Turned
  <2> QED BY <1>2, <1>10, <1>17, <1>18, <2>2 DEF Tells
<1>19. Mended(c) BY <1>7, <1>16 DEF Mended, Pending, Timed
<1>20. Lands(b, c) BY <1>18, <1>19 DEF Lands
<1> QED BY <1>14, <1>20

LEMMA StagedLands ==
  ASSUME NEW b, Form(b), b.supersession = {}, b.mutationRecovery = {},
         NEW r \in b.pushRecovery, StillMine(b, r)
  PROVE  Lands(b, RolledBack(b, r))
<1>0. Typed(b) /\ b \in Page /\ r \in PushRecovery BY DEF Form, Typed, Page
<1>00. r.url \in Link /\ r.truth \in Link /\ r.rec \in Link /\ r.op \in Nat BY <1>0 DEF PushRecovery
<1>1. PICK a : a = [b EXCEPT !.pushRecovery = {}] OBVIOUS
<1>2. a \in Page /\ Lightened(b, a)
  <2>1. a \in Page BY <1>0, <1>1 DEF Page
  <2> QED BY <1>0, <1>1, <2>1 DEF Page, Lightened
<1>3. Form(a) BY <1>2, LightenedKeeps
<1>4. PICK d : d = CloseTraversal(a) OBVIOUS
<1>5. Paused(a, d) /\ Form(d) /\ Tells(a, d) BY <1>3, <1>4, CloseTraversalIs, CloseTells
<1>6. PICK t \in TimerRecord : t = [Timer("stage", r.op, 0, r.url, r.rec) EXCEPT !.truth = r.truth]
  BY <1>00 DEF TimerRecord, Timer, Link
<1>7. t.truth = r.truth BY <1>6 DEF Timer
<1>8. PICK c : c = RolledBack(b, r) OBVIOUS
<1>9. c = [d EXCEPT !.timers = @ \cup {t}]
  BY <1>1, <1>4, <1>6, <1>8 DEF RolledBack, StillMine, RolledTo
<1>10. Timed(d, c, t) BY <1>5, <1>9, TimedIs DEF Form
<1>11. c.truthUrl = b.truthUrl /\ Href(c) = Href(b) BY <1>2, <1>5, <1>10 DEF Timed, Paused, Lightened, Href, Current
<1>12. Turned(c) BY <1>5, <1>10 DEF Turned, Paused, Timed
<1>13. ASSUME Faithful(b) PROVE Faithful(c) /\ Mended(c)
  <2>1. r.truth = b.truthUrl BY <1>13 DEF Faithful, Staging
  <2>2. Faithful(d)
    <3>1. Faithful(a) BY <1>2, <1>13, LightenedFaithful
    <3> QED BY <1>5, <3>1 DEF Tells
  <2>3. Staging(c) BY <1>7, <1>10, <1>11, <2>1, <2>2 DEF Faithful, Staging, Timed
  <2>4. Truthful(c) /\ Distinct(c) BY <1>10, <2>2 DEF Faithful, Truthful, Distinct, Timed
  <2>5. Heeding(c)
    <3>1. Unasked(d) => Unasked(c) BY <1>10 DEF Unasked, Timed
    <3> QED BY <1>10, <2>2, <3>1 DEF Faithful, Heeding, Told, Timed
  <2>6. Href(b) = r.truth BY DEF StillMine, RolledTo
  <2>7. Mended(c) BY <1>11, <2>1, <2>6 DEF Mended
  <2> QED BY <2>3, <2>4, <2>5, <2>7 DEF Faithful
<1>14. Lands(b, c) BY <1>12, <1>13 DEF Lands
<1> QED BY <1>8, <1>14

LEMMA NewerLands ==
  ASSUME NEW b, Form(b), b.supersession = {}, b.mutationRecovery = {},
         NEW r \in b.pushRecovery, ~StillMine(b, r), Newer(b, r) # {}
  PROVE  Lands(b, RolledBack(b, r))
<1>0. Typed(b) /\ b \in Page BY DEF Form, Typed
<1>1. PICK a : a = [b EXCEPT !.pushRecovery = {}] OBVIOUS
<1>2. a \in Page /\ Lightened(b, a)
  <2>1. a \in Page BY <1>0, <1>1 DEF Page
  <2> QED BY <1>0, <1>1, <2>1 DEF Page, Lightened
<1>3. Form(a) BY <1>2, LightenedKeeps
<1>4. PICK u : u = Abort(a) OBVIOUS
<1>5. Form(u) /\ Tells(a, u) BY <1>3, <1>4, AbortIs, AbortTells
<1>6. PICK N : N = SupersededBy(Newer(b, r)) OBVIOUS
<1>7. N # {} BY <1>6 DEF SupersededBy
<1>8. PICK yes \in BOOLEAN : yes = TRUE OBVIOUS
<1>9. PICK c : c = RolledBack(b, r) OBVIOUS
<1>10. u \in Page BY <1>5 DEF Form, Typed
<1>11. PICK j : j = Append(u.jumps, 1) OBVIOUS
<1>12. c = [u EXCEPT !.supersession = N, !.traversing = yes, !.jumps = j]
  <2>1. c = [u EXCEPT !.supersession = N, !.traversing = yes, !.jumps = Append(@, 1)]
    BY <1>1, <1>4, <1>6, <1>8, <1>9 DEF RolledBack, StillMine, RolledTo, Newer, SupersededBy
  <2> QED BY <1>10, <1>11, <2>1 DEF Page
<1>13. c.supersession = N BY <1>10, <1>12 DEF Page
<1>14. /\ c.ops = u.ops /\ c.timers = u.timers /\ c.shown = u.shown /\ c.truthUrl = u.truthUrl
       /\ c.pushRecovery = u.pushRecovery /\ c.departure = u.departure
       /\ c.observers = u.observers /\ c.prompted = u.prompted
  BY <1>10, <1>12 DEF Page
<1>15. ASSUME Faithful(b) PROVE Faithful(c)
  <2>1. Faithful(a) BY <1>2, <1>15, LightenedFaithful
  <2>2. Faithful(u) BY <1>5, <2>1 DEF Tells
  <2> QED BY <1>14, <2>2 DEF Faithful, Truthful, Heeding, Told, Unasked, Staging, Distinct
<1>16. Turned(c) /\ Mended(c) BY <1>7, <1>13 DEF Turned, Mended, Pending
<1>17. Lands(b, c) BY <1>15, <1>16 DEF Lands
<1> QED BY <1>9, <1>17

LEMMA FreedLands ==
  ASSUME NEW b, Form(b), b.supersession = {}, b.mutationRecovery = {},
         NEW r \in b.pushRecovery, ~StillMine(b, r), Newer(b, r) = {}
  PROVE  Lands(b, RolledBack(b, r))
<1>0. Typed(b) /\ b \in Page BY DEF Form, Typed
<1>1. PICK a : a = [b EXCEPT !.pushRecovery = {}] OBVIOUS
<1>2. a \in Page /\ Lightened(b, a)
  <2>1. a \in Page BY <1>0, <1>1 DEF Page
  <2> QED BY <1>0, <1>1, <2>1 DEF Page, Lightened
<1>3. Form(a) BY <1>2, LightenedKeeps
<1>4. PICK m : m = IF a.active = r.op THEN Relinquish(a) ELSE a OBVIOUS
<1>5. /\ Form(m) /\ Tells(a, m) /\ m.entries = b.entries /\ m.cur = b.cur /\ m.truthUrl = b.truthUrl
  <2>1. CASE a.active = r.op
    <3>1. m = Relinquish(a) BY <1>4, <2>1
    <3>2. Form(m) /\ Others(a, m) BY <1>3, <3>1, RelinquishIs
    <3>3. Tells(a, m) BY <1>3, <3>1, RelinquishTells
    <3> QED BY <1>2, <3>2, <3>3 DEF Others, Lightened
  <2>2. CASE a.active # r.op
    <3>1. m = a BY <1>4, <2>2
    <3> QED BY <1>2, <1>3, <3>1 DEF Tells, Lightened
  <2> QED BY <2>1, <2>2
<1>6. PICK no \in BOOLEAN : no = FALSE OBVIOUS
<1>7. PICK f : f = [m EXCEPT !.traversing = no, !.recovering = no] OBVIOUS
<1>8. m \in Page /\ Typed(m) BY <1>5 DEF Form, Typed
<1>9. f \in Page /\ ~f.traversing
  <2>1. no \in BOOLEAN OBVIOUS
  <2>2. f \in Page BY <1>7, <1>8, <2>1, ZenonT(60) DEF Page
  <2> QED BY <1>6, <1>7, <1>8, <2>2 DEF Page
<1>10. /\ f.entries = m.entries /\ f.cur = m.cur /\ f.shown = m.shown /\ f.truthUrl = m.truthUrl
       /\ f.displayed = m.displayed /\ f.selected = m.selected /\ f.traversal = m.traversal
       /\ f.ops = m.ops /\ f.active = m.active /\ f.carrier = m.carrier
       /\ f.mutationRecovery = m.mutationRecovery /\ f.pushRecovery = m.pushRecovery
       /\ f.supersession = m.supersession /\ f.life = m.life /\ f.departure = m.departure
       /\ f.observers = m.observers /\ f.prompted = m.prompted /\ f.timers = m.timers
       /\ f.jumps = m.jumps /\ f.lapsed = m.lapsed /\ f.leaving = m.leaving
  BY <1>7, <1>8 DEF Page
<1>11. Form(f)
  <2>1. Typed(f) BY <1>8, <1>9, <1>10 DEF Typed
  <2>2. Unique(f) /\ Owned(f) /\ Natives(f) BY <1>5, <1>10 DEF Form, Unique, Owned, Natives
  <2>3. RealOps(f) /\ RealTimers(f) /\ RealHistory(f) /\ RealRecoveries(f) /\ RealPrompts(f)
    BY <1>5, <1>10 DEF Form, RealOps, RealTimers, RealHistory, RealRecoveries, RealPrompts
  <2> QED BY <2>1, <2>2, <2>3 DEF Form
<1>12. ASSUME Faithful(b) PROVE Faithful(f) /\ Turned(f)
  <2>1. Faithful(a) BY <1>2, <1>12, LightenedFaithful
  <2>2. Faithful(m) BY <1>5, <2>1 DEF Tells
  <2>3. Faithful(f) BY <1>10, <2>2 DEF Faithful, Truthful, Heeding, Told, Unasked, Staging, Distinct
  <2>4. Turned(f) BY <1>9 DEF Turned
  <2> QED BY <2>3, <2>4
<1>13. f.truthUrl = b.truthUrl /\ Href(f) = Href(b) BY <1>5, <1>10 DEF Href, Current
<1>14. PICK c : c = RolledBack(b, r) OBVIOUS
<1>15. CASE RolledTo(b, r)
  <2>1. c = f
    BY <1>1, <1>4, <1>6, <1>7, <1>14, <1>15 DEF RolledBack, StillMine, RolledTo, Newer
  <2>2. Faithful(b) => Href(b) = b.truthUrl BY <1>15 DEF RolledTo, Faithful, Staging
  <2>3. Faithful(b) => Mended(c) BY <1>13, <2>1, <2>2 DEF Mended
  <2>4. Lands(b, c) BY <1>12, <2>1, <2>3 DEF Lands
  <2> QED BY <1>14, <2>4
<1>16. CASE ~RolledTo(b, r)
  <2>1. PICK h \in Link : h = Href(b) /\ h # NoUrl
    <3>1. Href(b) \in Link BY <1>0, CurrentIs
    <3> QED BY <3>1 DEF Form, Typed, RealHistory, Href, Current
  <2>2. PICK k \in Link : k = r.rec BY <1>0 DEF Page, PushRecovery
  <2>3. c = Fallback(f, h, no, k)
    BY <1>1, <1>4, <1>6, <1>7, <1>14, <1>16, <2>1, <2>2 DEF RolledBack, StillMine, RolledTo, Newer
  <2>4. no \in BOOLEAN OBVIOUS
  <2>5. Tells(f, c) /\ \E x : Watching(c, x) BY <1>11, <2>1, <2>3, <2>4, FallbackTells
  <2>6. Mended(c) BY <2>5, WatchingMends
  <2>7. Lands(b, c) BY <1>12, <2>5, <2>6 DEF Lands, Tells
  <2> QED BY <1>14, <2>7
<1> QED BY <1>15, <1>16

LEMMA EntryLands ==
  ASSUME server \in Nat, NEW b, Form(b), Kind(b) # "post", NEW enhance \in BOOLEAN, NEW safe \in BOOLEAN
  PROVE  Lands(b, SelectEntry(b, enhance, safe))
<1>0. Typed(b) /\ b \in Page BY DEF Form, Typed
<1>1. PICK t \in Nat : t = FreshTraversal(b) /\ t # 0 /\ \A o \in b.ops : o.trav # t BY <1>0, FreshTraversalIs
<1>2. PICK id \in Nat : id = Current(b).id BY <1>0, CurrentIs DEF Entry
<1>3. PICK yes \in BOOLEAN, no \in BOOLEAN : yes = TRUE /\ no = FALSE OBVIOUS
<1>4. PICK a : a = [b EXCEPT !.traversal = t, !.traversing = yes, !.recovering = no, !.selected = id] OBVIOUS
<1>5. a \in Page
  <2>1. PICK u : u = [b EXCEPT !.traversal = t, !.selected = id] OBVIOUS
  <2>2. u \in Page BY <1>0, <2>1 DEF Page
  <2>3. a = [u EXCEPT !.traversing = yes, !.recovering = no] BY <1>0, <1>4, <2>1 DEF Page
  <2>4. yes \in BOOLEAN /\ no \in BOOLEAN OBVIOUS
  <2> QED BY <2>2, <2>3, <2>4, ZenonT(60) DEF Page
<1>6. /\ a.entries = b.entries /\ a.cur = b.cur /\ a.shown = b.shown /\ a.truthUrl = b.truthUrl
      /\ a.traversal = t /\ a.traversing /\ ~a.recovering
      /\ a.ops = b.ops /\ a.active = b.active /\ a.carrier = b.carrier
      /\ a.mutationRecovery = b.mutationRecovery /\ a.pushRecovery = b.pushRecovery
      /\ a.supersession = b.supersession /\ a.life = b.life /\ a.departure = b.departure
      /\ a.observers = b.observers /\ a.prompted = b.prompted /\ a.timers = b.timers
      /\ a.jumps = b.jumps /\ a.lapsed = b.lapsed /\ a.leaving = b.leaving
  BY <1>0, <1>3, <1>4 DEF Page
<1>7. Form(a)
  <2>1. Typed(a) BY <1>0, <1>5, <1>6 DEF Typed
  <2>2. Unique(a) /\ Owned(a) /\ Natives(a) BY <1>6 DEF Form, Unique, Owned, Natives
  <2>3. RealOps(a) /\ RealTimers(a) /\ RealHistory(a) /\ RealRecoveries(a) /\ RealPrompts(a)
    BY <1>6 DEF Form, RealOps, RealTimers, RealHistory, RealRecoveries, RealPrompts
  <2> QED BY <2>1, <2>2, <2>3 DEF Form
<1>8. Faithful(b) => Faithful(a)
  BY <1>6 DEF Faithful, Truthful, Heeding, Told, Unasked, Staging, Distinct
<1>9. Kind(a) # "post" /\ Rec(a) = Rec(b) BY <1>6, KindIs
<1>10. PICK g \in Link : g = Rec(b) BY <1>0, ActiveIs
<1>11. PICK c : c = SelectEntry(b, enhance, safe) OBVIOUS
<1>12. PICK h \in Link : h = Href(a) /\ h # NoUrl
  <2>1. Href(a) \in Link BY <1>7, CurrentIs DEF Form
  <2> QED BY <1>7, <2>1 DEF Form, Typed, RealHistory, Href, Current
<1>13. CASE enhance /\ Current(b).id # b.selected
  <2>1. c = Navigate(a, h, yes, t, NoUrl, safe)
    BY <1>1, <1>2, <1>3, <1>4, <1>11, <1>12, <1>13 DEF SelectEntry
  <2>2. Tells(a, c) /\ Goes(a, c, t, g)
    <3>1. yes \in BOOLEAN OBVIOUS
    <3>2. NoUrl \in Link BY DEF Link
    <3>3. g = (IF NoUrl # NoUrl THEN NoUrl ELSE Rec(a)) BY <1>9, <1>10
    <3>4. t # 0 => \A q \in a.ops : q.trav # t BY <1>1, <1>6
    <3> QED BY <1>7, <1>9, <1>12, <2>1, <3>1, <3>2, <3>3, <3>4, NavigateTells
  <2>3. Turned(c) /\ Mended(c)
    <3>1. CASE \E o : Begun(a, c, o) /\ o.kind = "nav" /\ o.trav = t /\ o.rec = g /\ ~o.aborted
      <4>1. PICK o : Begun(a, c, o) /\ o.kind = "nav" /\ o.trav = t /\ ~o.aborted BY <3>1
      <4>2. o \in c.ops /\ o.seq = c.active /\ c.traversing /\ ~c.recovering /\ c.traversal = t
        BY <1>6, <4>1 DEF Begun, Carries
      <4>3. Turned(c) BY <1>1, <4>1, <4>2 DEF Turned, Requesting
      <4>4. Mender(c, o) BY <4>1, <4>2 DEF Mender
      <4> QED BY <4>2, <4>3, <4>4, MenderMends
    <3>2. CASE /\ \E x : Watching(c, x)
               /\ c.traversing = (a.traversing /\ (t = 0 \/ t # a.traversal \/ a.recovering))
      <4>1. ~c.traversing BY <1>1, <1>6, <3>2
      <4>2. Turned(c) BY <4>1 DEF Turned
      <4>3. Mended(c) BY <3>2, WatchingMends
      <4> QED BY <4>2, <4>3
    <3> QED BY <2>2, <3>1, <3>2 DEF Goes
  <2>4. Faithful(b) => Faithful(c) BY <1>8, <2>2 DEF Tells
  <2>5. Lands(b, c) BY <2>3, <2>4 DEF Lands
  <2> QED BY <1>11, <2>5
<1>14. CASE ~(enhance /\ Current(b).id # b.selected)
  <2>1. PICK u : u = Abort(a) OBVIOUS
  <2>2. Form(u) /\ Tells(a, u) BY <1>7, <2>1, AbortIs, AbortTells
  <2>4. PICK v : v = [u EXCEPT !.recovering = yes] OBVIOUS
  <2>5. u \in Page /\ Typed(u) BY <2>2 DEF Form, Typed
  <2>6. v \in Page /\ v.recovering
    <3>1. yes \in BOOLEAN OBVIOUS
    <3>2. v \in Page BY <2>4, <2>5, <3>1 DEF Page
    <3> QED BY <1>3, <2>4, <2>5, <3>2 DEF Page
  <2>7. /\ v.entries = u.entries /\ v.cur = u.cur /\ v.shown = u.shown /\ v.truthUrl = u.truthUrl
        /\ v.traversal = u.traversal /\ v.traversing = u.traversing
        /\ v.ops = u.ops /\ v.active = u.active /\ v.carrier = u.carrier
        /\ v.mutationRecovery = u.mutationRecovery /\ v.pushRecovery = u.pushRecovery
        /\ v.supersession = u.supersession /\ v.life = u.life /\ v.departure = u.departure
        /\ v.observers = u.observers /\ v.prompted = u.prompted /\ v.timers = u.timers
        /\ v.jumps = u.jumps /\ v.lapsed = u.lapsed /\ v.leaving = u.leaving
    BY <2>4, <2>5 DEF Page
  <2>8. Form(v)
    <3>1. Typed(v) BY <2>5, <2>6, <2>7 DEF Typed
    <3>2. Unique(v) /\ Owned(v) /\ Natives(v) BY <2>2, <2>7 DEF Form, Unique, Owned, Natives
    <3>3. RealOps(v) /\ RealTimers(v) /\ RealHistory(v) /\ RealRecoveries(v) /\ RealPrompts(v)
      BY <2>2, <2>7 DEF Form, RealOps, RealTimers, RealHistory, RealRecoveries, RealPrompts
    <3> QED BY <3>1, <3>2, <3>3 DEF Form
  <2>9. Faithful(u) => Faithful(v)
    BY <2>7 DEF Faithful, Truthful, Heeding, Told, Unasked, Staging, Distinct
  <2>10. c = BeginTraversalRecovery(v, g)
    BY <1>1, <1>2, <1>3, <1>4, <1>10, <1>11, <1>14, <2>1, <2>4 DEF SelectEntry
  <2>11. Tells(v, c) /\ Turned(c) /\ \E x : Watching(c, x) BY <2>6, <2>8, <2>10, TraversalRecoveryTells
  <2>12. Mended(c) BY <2>11, WatchingMends
  <2>13. Faithful(b) => Faithful(c) BY <1>8, <2>2, <2>9, <2>11 DEF Tells
  <2>14. Lands(b, c) BY <2>11, <2>12, <2>13 DEF Lands
  <2> QED BY <1>11, <2>14
<1> QED BY <1>13, <1>14

LEMMA LosingMends ==
  ASSUME NEW b, Mended(b), NEW c, Losing(b, c)
  PROVE  Mended(c)
<1>1. \A x : Watching(b, x) => Watching(c, x)
  <2> SUFFICES ASSUME NEW x, Watching(b, x) PROVE Watching(c, x) OBVIOUS
  <2>1. Guard(c, x) BY DEF Watching, Guard, Losing, Href, Current
  <2>2. Unasked(b) => Unasked(c) BY DEF Unasked, Losing
  <2> QED BY <2>1, <2>2 DEF Watching, Losing
<1>2. \A o : Mender(b, o) => Mender(c, o) BY DEF Mender, Losing
<1>3. Pending(b) => Pending(c) BY DEF Pending, Delayed, Ours, Losing
<1>4. Href(c) = Href(b) /\ c.truthUrl = b.truthUrl /\ c.ops = b.ops BY DEF Losing, Href, Current
<1> QED BY <1>1, <1>2, <1>3, <1>4 DEF Mended

LEMMA ArrivedLands ==
  ASSUME server \in Nat, NEW b, Form(b), NEW enhance \in BOOLEAN, NEW safe \in BOOLEAN
  PROVE  Lands(b, Arrived(b, enhance, safe))
<1>1. PICK x : x = Popstate(b, enhance, safe) OBVIOUS
<1>2. Lands(b, x) /\ Reaches(b, x)
  <2>1. CASE b.supersession # {}
    <3>1. PICK r \in b.supersession : r = CHOOSE q \in b.supersession : TRUE BY <2>1
    <3>2. x = SupersessionArrived(b, r) BY <1>1, <2>1, <3>1 DEF Popstate
    <3>3. Lands(b, SupersessionArrived(b, r)) BY SupersessionLands
    <3>4. Reaches(b, SupersessionArrived(b, r)) BY SupersessionReaches
    <3> QED BY <3>2, <3>3, <3>4
  <2>2. CASE b.supersession = {} /\ b.mutationRecovery # {}
    <3>1. PICK r \in b.mutationRecovery : r = CHOOSE q \in b.mutationRecovery : TRUE BY <2>2
    <3>2. PICK y : y = RecoverCommitted([b EXCEPT !.mutationRecovery = {}], r.url) OBVIOUS
    <3>3. x = y BY <1>1, <2>2, <3>1, <3>2 DEF Popstate
    <3>4. Lands(b, y) BY <3>2, CommittedLands
    <3>5. Reaches(b, y) BY <3>2, CommittedReaches
    <3> QED BY <3>3, <3>4, <3>5
  <2>3. CASE b.supersession = {} /\ b.mutationRecovery = {} /\ Kind(b) = "post"
    <3>1. Active(b) # {} BY <2>3 DEF Kind
    <3>2. PICK o \in Active(b) : o = CHOOSE q \in Active(b) : TRUE BY <3>1
    <3>3. o \in b.ops /\ o.seq = b.active BY DEF Active
    <3>4. o.kind = "post" BY <2>3, <3>1, <3>2 DEF Kind
    <3>5. x = InterruptPost(b, o) BY <1>1, <2>3, <3>2 DEF Popstate
    <3>6. Lands(b, InterruptPost(b, o)) BY <2>3, <3>3, <3>4, InterruptLands
    <3>7. Reaches(b, InterruptPost(b, o)) BY <2>3, <3>3, <3>4, InterruptReaches
    <3> QED BY <3>5, <3>6, <3>7
  <2>4. CASE b.supersession = {} /\ b.mutationRecovery = {} /\ Kind(b) # "post" /\ b.pushRecovery # {}
    <3>1. PICK r \in b.pushRecovery : r = CHOOSE q \in b.pushRecovery : TRUE BY <2>4
    <3>2. x = RolledBack(b, r) BY <1>1, <2>4, <3>1 DEF Popstate
    <3>3. StillMine(b, r) => Reaches(b, RolledBack(b, r)) BY <2>4, StagedReaches
    <3>4. ~StillMine(b, r) /\ Newer(b, r) # {} => Reaches(b, RolledBack(b, r)) BY <2>4, NewerReaches
    <3>5. ~StillMine(b, r) /\ Newer(b, r) = {} => Reaches(b, RolledBack(b, r)) BY <2>4, FreedReaches
    <3>6. StillMine(b, r) => Lands(b, RolledBack(b, r)) BY <2>4, StagedLands
    <3>7. ~StillMine(b, r) /\ Newer(b, r) # {} => Lands(b, RolledBack(b, r)) BY <2>4, NewerLands
    <3>8. ~StillMine(b, r) /\ Newer(b, r) = {} => Lands(b, RolledBack(b, r)) BY <2>4, FreedLands
    <3> QED BY <3>2, <3>3, <3>4, <3>5, <3>6, <3>7, <3>8
  <2>5. CASE b.supersession = {} /\ b.mutationRecovery = {} /\ Kind(b) # "post" /\ b.pushRecovery = {}
    <3>1. x = SelectEntry(b, enhance, safe) BY <1>1, <2>5 DEF Popstate
    <3>2. Reaches(b, SelectEntry(b, enhance, safe)) BY <2>5, EntryReaches
    <3>3. Lands(b, SelectEntry(b, enhance, safe)) BY <2>5, EntryLands
    <3> QED BY <3>1, <3>2, <3>3
  <2> QED BY <2>1, <2>2, <2>3, <2>4, <2>5
<1>3. x \in Page BY <1>2 DEF Reaches, Form, Typed
<1>4. PICK l \in BOOLEAN : l = (x.lapsed \/ Lapses(b) \/ Drops(b)) OBVIOUS
<1>5. PICK y : y = [x EXCEPT !.lapsed = l] OBVIOUS
<1>6. y = Arrived(b, enhance, safe) BY <1>1, <1>3, <1>4, <1>5 DEF Arrived, Page
<1>7. Losing(x, y)
  <2>1. l \in BOOLEAN /\ (x.lapsed => l) BY <1>4
  <2> QED BY <1>3, <1>5, <2>1 DEF Page, Losing
<1>8. Tells(x, y) /\ (Mended(x) => Mended(y)) BY <1>7, LosingTell, LosingMends
<1>9. Lands(b, y) BY <1>2, <1>8 DEF Lands, Tells
<1> QED BY <1>6, <1>9

LEMMA TraverseHolds ==
  ASSUME Kept, Whole(page), NEW i \in DOMAIN page.entries, Traverse(i)
  PROVE  Whole(page')
<1>0. server \in Nat /\ Unprompted /\ Form(page) BY DEF Kept, Inv, Traverse, Act, Free, Tracked
<1>1. PICK p : p = Outdate(page) OBVIOUS
<1>2. /\ Form(p) /\ Base(p) /\ Aged(page, p) /\ Still(page, p)
      /\ Awake(page) => Steady(p)
  BY <1>0, <1>1, OutdatedIs
<1>3. p.entries = page.entries /\ p.cur = page.cur BY <1>2 DEF Aged, Carries
<1>4. PICK b : b = [p EXCEPT !.cur = i] OBVIOUS
<1>5. /\ Form(b) /\ Alike(p, b) /\ Still(p, b) /\ b.entries = p.entries /\ b.truthUrl = p.truthUrl
      /\ (Core(p) => Core(b))
  BY <1>2, <1>3, <1>4, MovedIs
<1>6. ASSUME Awake(page) PROVE Core(b) /\ Arriving(b)
  <2>1. Steady(p) BY <1>2, <1>6
  <2>2. Exclusive(b) /\ Placeholder(b) BY <1>2, <1>5 DEF Base, Exclusive, Placeholder, Alike
  <2>3. b.pushRecovery = {} \/ b.supersession = {} BY <1>5, <2>1, OneWay DEF Steady, Alike
  <2>4. b.pushRecovery # {} => b.jumps = << -1 >> /\ Len(b.entries) > 1
    <3>1. p.cur \in 1..Len(p.entries) /\ Len(p.entries) \in Nat BY <1>2 DEF Form, Typed, Page
    <3> QED BY <1>5, <2>1, <3>1 DEF Steady, Rollback, Alike
  <2>5. b.pushRecovery # {} =>
          /\ ~b.recovering
          /\ \A t \in b.timers : t.kind # "stage"
          /\ \A r, q \in b.pushRecovery : r = q
          /\ \A r \in b.pushRecovery : /\ r.rec # NoUrl <=> r.op # 0
                                       /\ \A o \in b.ops : o.seq = r.op => o.rec # NoUrl
    BY <1>5, <2>1 DEF Steady, Rollback, Alike
  <2>6. \A r \in b.supersession, o \in b.ops : o.seq = r.op => o.aborted
    BY <1>5, <2>1 DEF Steady, Stepping, Alike
  <2>7. Core(b) BY <1>5, <2>1 DEF Steady
  <2> QED BY <2>2, <2>3, <2>4, <2>5, <2>6, <2>7 DEF Arriving
<1>7. PICK enhance \in BOOLEAN, safe \in BOOLEAN : page' = Arrived(b, enhance, safe)
  BY <1>1, <1>4 DEF Traverse
<1>8. PICK c : c = Arrived(b, enhance, safe) OBVIOUS
<1>9. Lands(b, c) /\ Still(b, c)
  <2>1. Arrives(b, Arrived(b, enhance, safe)) BY <1>0, <1>5, ArrivedIs
  <2>2. Arrives(b, c) BY <1>8, <2>1
  <2> QED BY <1>0, <1>5, <1>8, <2>2, ArrivedLands DEF Arrives
<1>10. Still(page, c)
  <2>1. Still(page, b) BY <1>2, <1>5, StillTrans
  <2> QED BY <1>9, <2>1, StillTrans
<1>11. Awake(c) => Awake(page) BY <1>10 DEF Still, Onward, Awake
<1>12. Tells(page, b)
  <2>1. Tells(page, p) BY <1>2, AgedTell
  <2>2. b.shown = p.shown BY <1>5 DEF Still
  <2>3. Tells(p, b) BY <1>5, <2>2, AlikeTell
  <2> QED BY <2>1, <2>3, TellsTrans
<1>13. Whole(c) BY <1>6, <1>9, <1>11, <1>12 DEF Whole, Lands, Tells
<1> QED BY <1>7, <1>8, <1>13

LEMMA QueuedMends ==
  ASSUME NEW b, Mended(b), NEW j, NEW c, Queued(b, c, j)
  PROVE  Mended(c)
<1>1. \A x : Watching(b, x) => Watching(c, x)
  <2> SUFFICES ASSUME NEW x, Watching(b, x) PROVE Watching(c, x) OBVIOUS
  <2>1. Guard(c, x) BY DEF Watching, Guard, Queued, Href, Current
  <2>2. Unasked(b) => Unasked(c) BY DEF Unasked, Queued
  <2> QED BY <2>1, <2>2 DEF Watching, Queued
<1>2. \A o : Mender(b, o) => Mender(c, o) BY DEF Mender, Queued
<1>3. Pending(b) => Pending(c) BY DEF Pending, Delayed, Ours, Queued
<1>4. Href(c) = Href(b) /\ c.truthUrl = b.truthUrl /\ c.ops = b.ops BY DEF Queued, Href, Current
<1> QED BY <1>1, <1>2, <1>3, <1>4 DEF Mended

LEMMA JumpHolds ==
  ASSUME Kept, Whole(page), Jump
  PROVE  Whole(page')
<1>0. /\ server \in Nat /\ Form(page) /\ Tracked(page, due, server)
      /\ Unprompted /\ Base(page) /\ page \in Page /\ page.jumps \in Seq({1, -1}) /\ page.jumps # <<>>
  BY DEF Kept, Inv, Sound, Base, Tracked, Jump, Form, Typed, Page
<1>1. page.cur \in 1..Len(page.entries) /\ Len(page.entries) \in Nat BY <1>0 DEF Form, Typed, Page
<1>2. PICK h \in {1, -1} : h = Head(page.jumps) BY <1>0, TailIs
<1>3. PICK j \in Seq({1, -1}) : j = Tail(page.jumps) BY <1>0, TailIs
<1>4. PICK b : b = [page EXCEPT !.jumps = j] OBVIOUS
<1>5. Form(b) /\ Queued(page, b, j) /\ Still(page, b) /\ (Core(page) => Core(b)) BY <1>0, <1>3, <1>4, QueuedIs
<1>6. PICK i : i = page.cur + h OBVIOUS
<1>7. i \in Int /\ (h = 1 => i = page.cur + 1) /\ (h = -1 => i = page.cur - 1) BY <1>1, <1>6
<1>8. \E enhance, safe \in BOOLEAN :
        page' = IF i \notin DOMAIN b.entries
                THEN [b EXCEPT !.lapsed = @ \/ (Head(page.jumps) = 1 /\ b.mutationRecovery # {})]
                ELSE IF b.life = "closed" THEN [b EXCEPT !.cur = i]
                ELSE Arrived([b EXCEPT !.cur = i], enhance, safe)
  BY <1>2, <1>3, <1>4, <1>6 DEF Jump
<1>9. b.entries = page.entries /\ DOMAIN b.entries = 1..Len(page.entries) /\ b.cur = page.cur
  BY <1>0, <1>5 DEF Queued, Page
<1>10. Tells(page, b) /\ (Mended(page) => Mended(b)) BY <1>5, QueuedTell, QueuedMends
<1>11. CASE i \notin DOMAIN b.entries
  <2>1. PICK l \in BOOLEAN : l = (b.lapsed \/ (h = 1 /\ b.mutationRecovery # {})) OBVIOUS
  <2>2. PICK c : c = [b EXCEPT !.lapsed = l] OBVIOUS
  <2>3. b \in Page BY <1>5 DEF Form, Typed
  <2>4. page' = c BY <1>2, <1>8, <1>11, <2>1, <2>2, <2>3 DEF Page
  <2>5. c \in Page
    <3>1. l \in BOOLEAN OBVIOUS
    <3> QED BY <2>2, <2>3, <3>1 DEF Page
  <2>6. Losing(b, c)
    <3>1. c.lapsed = l /\ (b.lapsed => l) BY <2>1, <2>2, <2>3 DEF Page
    <3> QED BY <2>2, <2>3, <3>1 DEF Losing, Page
  <2>7. Still(page, c)
    <3>1. Still(b, c) BY <1>5, <2>5, <2>6, LosingKeeps
    <3> QED BY <1>5, <3>1, StillTrans
  <2>8. Tells(page, c)
    <3>1. Tells(b, c) BY <2>6, LosingTell
    <3> QED BY <1>10, <3>1, TellsTrans
  <2>9. Awake(page) => Mended(c) BY <1>10, <2>6, LosingMends DEF Whole
  <2> QED BY <2>4, <2>7, <2>8, <2>9, TellsWhole
<1>12. CASE i \in DOMAIN b.entries
  <2>1. PICK d : d = [b EXCEPT !.cur = i] OBVIOUS
  <2>2. /\ Form(d) /\ Alike(b, d) /\ Still(b, d) /\ d.entries = b.entries /\ d.cur = i
        /\ d.truthUrl = b.truthUrl /\ (Core(b) => Core(d))
    BY <1>5, <1>12, <2>1, MovedIs
  <2>3. Still(page, d) BY <1>5, <2>2, StillTrans
  <2>4. Tells(page, d)
    <3>1. d.shown = b.shown BY <2>2 DEF Still
    <3>2. Tells(b, d) BY <2>2, <3>1, AlikeTell
    <3> QED BY <1>10, <3>2, TellsTrans
  <2>5. CASE b.life = "closed"
    <3>1. page' = d BY <1>8, <1>12, <2>1, <2>5
    <3>2. ~Awake(d) BY <2>2, <2>5 DEF Awake, Off, Alike
    <3> QED BY <3>1, <3>2 DEF Whole
  <2>6. CASE b.life # "closed"
    <3>1. PICK enhance \in BOOLEAN, safe \in BOOLEAN : page' = Arrived(d, enhance, safe)
      BY <1>8, <1>12, <2>1, <2>6
    <3>2. PICK c : c = Arrived(d, enhance, safe) OBVIOUS
    <3>3. Lands(d, c) /\ Still(d, c)
      <4>1. enhance \in BOOLEAN /\ safe \in BOOLEAN OBVIOUS
      <4>2. Arrives(d, Arrived(d, enhance, safe)) BY <1>0, <2>2, <4>1, ArrivedIs
      <4>3. Arrives(d, c) BY <3>2, <4>2
      <4>4. Lands(d, Arrived(d, enhance, safe)) BY <1>0, <2>2, <4>1, ArrivedLands
      <4> QED BY <3>2, <4>3, <4>4 DEF Arrives
    <3>4. Still(page, c) BY <2>3, <3>3, StillTrans
    <3>5. Awake(c) => Awake(page) BY <3>4 DEF Still, Onward, Awake
    <3>6. ASSUME Awake(page) PROVE Core(d) /\ Arriving(d)
      <4>1. Steady(page) BY <1>0, <3>6 DEF Tracked
      <4>2. Exclusive(d) /\ Placeholder(d)
        BY <1>0, <1>5, <2>2 DEF Base, Exclusive, Placeholder, Alike, Queued
      <4>3. d.pushRecovery = {} \/ d.supersession = {} BY <1>5, <2>2, <4>1, OneWay DEF Steady, Alike, Queued
      <4>4. ASSUME d.pushRecovery # {} PROVE d.jumps = <<>> /\ d.cur < Len(d.entries)
        <5>1. page.jumps = <<-1>> /\ page.cur > 1
          BY <1>5, <2>2, <4>1, <4>4 DEF Steady, Rollback, Alike, Queued
        <5>2. h = -1 /\ j = <<>> BY <1>2, <1>3, <5>1, HeadsAndTails
        <5>3. d.jumps = <<>> BY <1>5, <2>2, <5>2 DEF Alike, Queued
        <5> QED BY <1>1, <1>7, <1>9, <2>2, <5>1, <5>2, <5>3
      <4>5. d.pushRecovery # {} =>
              /\ ~d.recovering
              /\ \A t \in d.timers : t.kind # "stage"
              /\ \A r, q \in d.pushRecovery : r = q
              /\ \A r \in d.pushRecovery : /\ r.rec # NoUrl <=> r.op # 0
                                           /\ \A o \in d.ops : o.seq = r.op => o.rec # NoUrl
        BY <1>5, <2>2, <4>1 DEF Steady, Rollback, Alike, Queued
      <4>6. \A r \in d.supersession, o \in d.ops : o.seq = r.op => o.aborted
        BY <1>5, <2>2, <4>1 DEF Steady, Stepping, Alike, Queued
      <4>7. Core(d) BY <1>5, <2>2, <4>1 DEF Steady
      <4> QED BY <4>2, <4>3, <4>4, <4>5, <4>6, <4>7 DEF Arriving
    <3>7. Whole(c) BY <2>4, <3>3, <3>5, <3>6 DEF Whole, Lands, Tells
    <3> QED BY <3>1, <3>2, <3>7
  <2> QED BY <2>5, <2>6
<1> QED BY <1>11, <1>12

-----------------------------------------------------------------------------
(* The server, and the operations that end unheard.                        *)

\* what an operation made good is made good otherwise
LEMMA OthersMend ==
  ASSUME NEW b, Mended(b), NEW c, Others(b, c), \A o \in b.ops : Mender(b, o) => Mended(c)
  PROVE  Mended(c)
<1>1. (\E x : Watching(b, x)) => \E x : Watching(c, x) BY WatchingOthers
<1>2. Pending(b) => Pending(c) BY DEF Pending, Delayed, Ours, Others
<1>3. Href(c) = Href(b) /\ c.truthUrl = b.truthUrl BY DEF Others, Href, Current
<1> QED BY <1>1, <1>2, <1>3 DEF Mended

LEMMA SwapTells ==
  ASSUME NEW b, NEW o \in b.ops, NEW u, Kin(u, o), o.kind = "nav" => u.kind = "nav",
         NEW c, Others(b, c), \A x : x \in c.ops <=> (x \in b.ops /\ x # o) \/ x = u, c.traversing = b.traversing
  PROVE  Tells(b, c)
<1>1. Descend(c.ops, b.ops) BY DEF Descend, Kin
<1>2. \A q \in b.ops : q.kind = "nav" => \E x \in c.ops : x.kind = "nav" /\ x.trav = q.trav BY DEF Kin
<1> QED BY <1>1, <1>2, OthersTell

LEMMA DropTells ==
  ASSUME NEW b, NEW o \in b.ops, o.kind # "nav",
         NEW c, Others(b, c), \A x : x \in c.ops <=> x \in b.ops /\ x # o, c.traversing = b.traversing
  PROVE  Tells(b, c)
<1>1. Descend(c.ops, b.ops) BY DEF Descend, Kin
<1>2. \A q \in b.ops : q.kind = "nav" => \E x \in c.ops : x.kind = "nav" /\ x.trav = q.trav OBVIOUS
<1> QED BY <1>1, <1>2, OthersTell

LEMMA GoesMends ==
  ASSUME NEW b, NEW c, NEW trav, NEW h, h # NoUrl, Goes(b, c, trav, h)
  PROVE  Mended(c)
<1>1. CASE \E o : Begun(b, c, o) /\ o.kind = "nav" /\ o.trav = trav /\ o.rec = h /\ ~o.aborted
  <2>1. PICK o : Begun(b, c, o) /\ o.kind = "nav" /\ o.rec = h /\ ~o.aborted BY <1>1
  <2>2. o \in c.ops /\ Mender(c, o) BY <2>1 DEF Mender, Begun
  <2> QED BY <2>2, MenderMends
<1>2. CASE \E x : Watching(c, x) BY <1>2, WatchingMends
<1> QED BY <1>1, <1>2 DEF Goes

LEMMA ServeHolds ==
  ASSUME Kept, Whole(page), Serve
  PROVE  Whole(page')
<1>0. Form(page) /\ page \in Page BY DEF Kept, Tracked, Form, Typed
<1>1. PICK c : c = page' OBVIOUS
<1>2. CASE UNCHANGED page BY <1>2
<1>3. CASE \E o \in page.ops : page' = [page EXCEPT !.ops = (@ \ {o}) \cup {[o EXCEPT !.served = TRUE]}]
  <2>1. PICK o \in page.ops : page' = [page EXCEPT !.ops = (@ \ {o}) \cup {[o EXCEPT !.served = TRUE]}] BY <1>3
  <2>2. o \in Operation BY <1>0 DEF Page
  <2>3. PICK u : u = [o EXCEPT !.served = TRUE] OBVIOUS
  <2>4. u \in Operation /\ Kin(u, o) /\ u.kind = o.kind /\ u.aborted = o.aborted BY <2>2, <2>3 DEF Operation, Kin
  <2>5. PICK X : X = (page.ops \ {o}) \cup {u} OBVIOUS
  <2>6. c = [page EXCEPT !.ops = X] BY <1>0, <1>1, <2>1, <2>3, <2>5 DEF Page
  <2>7. X \in SUBSET Operation /\ IsFiniteSet(X) /\ \A x : x \in X <=> (x \in page.ops /\ x # o) \/ x = u
    <3>1. Typed(page) BY <1>0 DEF Form
    <3>2. u \in Operation BY <2>4
    <3> QED BY <2>5, <3>1, <3>2, SwapIs
  <2>8. Still(page, c) /\ Others(page, c) /\ c.active = page.active /\ c.ops = X
    BY <1>0, <2>4, <2>6, <2>7, SwappedIs
  <2>9. c.traversing = page.traversing BY <1>0, <2>6 DEF Page
  <2>10. Tells(page, c) BY <2>4, <2>7, <2>8, <2>9, SwapTells
  <2>11. ASSUME Mended(page) PROVE Mended(c)
    <3>1. ASSUME NEW q \in page.ops, Mender(page, q) PROVE Mended(c)
      <4>1. CASE q # o
        <5>1. q \in c.ops /\ Mender(c, q) BY <2>7, <2>8, <2>9, <3>1, <4>1 DEF Mender, Others
        <5> QED BY <5>1, MenderMends
      <4>2. CASE q = o
        <5>1. u \in c.ops /\ Mender(c, u) BY <2>4, <2>7, <2>8, <2>9, <3>1, <4>2 DEF Mender, Others, Kin
        <5> QED BY <5>1, MenderMends
      <4> QED BY <4>1, <4>2
    <3> QED BY <2>8, <2>11, <3>1, OthersMend
  <2>12. Awake(page) => Mended(c) BY <2>11 DEF Whole
  <2> QED BY <1>1, <2>8, <2>10, <2>12, TellsWhole
<1> QED BY <1>2, <1>3 DEF Serve

LEMMA RecoveryTimerHolds ==
  ASSUME Kept, Whole(page), NEW o \in page.ops, RecoveryTimer(o)
  PROVE  Whole(page')
<1>0. /\ server \in Nat /\ Form(page) /\ page \in Page /\ Unique(page)
      /\ o \in Operation /\ o.kind = "wait" /\ Tracked(page, due, server)
  BY DEF Kept, Inv, Tracked, RecoveryTimer, Form, Typed, Page
<1>1. o.rec \in Link /\ o.rec # NoUrl /\ o.url \in Link /\ o.url # NoUrl
  BY <1>0 DEF Form, RealOps, Operation
<1>2. PICK X \in SUBSET page.ops : \A x \in page.ops : x \in X <=> x # o
  <2>1. PICK Y : Y = page.ops \ {o} OBVIOUS
  <2> QED BY <2>1
<1>3. X = page.ops \ {o} BY <1>2
<1>4. PICK c : c = page' OBVIOUS
<1>5. CASE page.active # o.seq
  <2>1. PICK v \in Nat : v = page.active BY <1>0 DEF Page
  <2>2. c = Dropped(page, X, v) BY <1>0, <1>3, <1>4, <1>5, <2>1 DEF RecoveryTimer, Dropped, Page
  <2>3. Still(page, c) /\ Others(page, c) /\ c.active = v /\ c.ops = X BY <1>0, <1>2, <1>5, <2>1, <2>2, DroppedIs
  <2>4. c.traversing = page.traversing BY <1>0, <2>2 DEF Dropped, Page
  <2>5. Tells(page, c) BY <1>0, <1>2, <2>3, <2>4, DropTells
  <2>6. ASSUME Mended(page) PROVE Mended(c)
    <3>1. ASSUME NEW q \in page.ops, Mender(page, q) PROVE Mended(c)
      <4>1. q # o BY <1>5, <3>1 DEF Mender
      <4>2. q \in c.ops /\ Mender(c, q) BY <1>2, <2>1, <2>3, <2>4, <3>1, <4>1 DEF Mender, Others
      <4> QED BY <4>2, MenderMends
    <3> QED BY <2>3, <2>6, <3>1, OthersMend
  <2>7. Awake(page) => Mended(c) BY <2>6 DEF Whole
  <2> QED BY <1>4, <2>3, <2>5, <2>7, TellsWhole
<1>6. CASE page.active = o.seq /\ o.aborted
  <2>1. PICK u : u = [o EXCEPT !.kind = "idle"] OBVIOUS
  <2>2. u \in Operation /\ Kin(u, o) /\ u.kind = "idle" /\ u.aborted BY <1>0, <1>6, <2>1 DEF Operation, Kin
  <2>3. PICK Y : Y = (page.ops \ {o}) \cup {u} OBVIOUS
  <2>4. c = [page EXCEPT !.ops = Y] BY <1>0, <1>4, <1>6, <2>1, <2>3 DEF RecoveryTimer, Page
  <2>5. Y \in SUBSET Operation /\ IsFiniteSet(Y) /\ \A x : x \in Y <=> (x \in page.ops /\ x # o) \/ x = u
    <3>1. page.ops \in SUBSET Operation /\ IsFiniteSet(page.ops) BY <1>0 DEF Form, Typed, Page
    <3>2. \A x : x \in Y <=> (x \in page.ops /\ x # o) \/ x = u BY <2>3
    <3>3. Y \in SUBSET Operation BY <2>2, <3>1, <3>2
    <3>4. X \subseteq page.ops /\ IsFiniteSet(X) BY <1>2, <3>1, FS_Subset
    <3>5. Y = X \cup {u} BY <1>3, <2>3
    <3>6. IsFiniteSet(X \cup {u}) BY <3>4, FS_AddElement
    <3> QED BY <3>2, <3>3, <3>5, <3>6
  <2>6. Still(page, c) /\ Others(page, c) /\ c.active = page.active /\ c.ops = Y
    BY <1>0, <1>6, <2>2, <2>4, <2>5, SwappedIs
  <2>7. c.traversing = page.traversing BY <1>0, <2>4 DEF Page
  <2>8. Tells(page, c) BY <1>0, <2>2, <2>5, <2>6, <2>7, SwapTells
  <2>9. ASSUME Mended(page) PROVE Mended(c)
    <3>1. ASSUME NEW q \in page.ops, Mender(page, q) PROVE Mended(c)
      <4>1. q = o BY <1>0, <1>6, <3>1 DEF Mender, Unique
      <4>2. o.seq = page.carrier BY <1>0, <1>6, <3>1, <4>1 DEF Mender
      <4>3. u \in c.ops /\ Mender(c, u) BY <1>6, <2>2, <2>5, <2>6, <4>2 DEF Mender, Others, Kin
      <4> QED BY <4>3, MenderMends
    <3> QED BY <2>6, <2>9, <3>1, OthersMend
  <2>10. Awake(page) => Mended(c) BY <2>9 DEF Whole
  <2> QED BY <1>4, <2>6, <2>8, <2>10, TellsWhole
<1>7. CASE page.active = o.seq /\ ~o.aborted
  <2>1. PICK z \in Nat : z = 0 OBVIOUS
  <2>2. PICK f : f = Dropped(page, X, z) OBVIOUS
  <2>3. Form(f) /\ Others(page, f) /\ Still(page, f) /\ f.active = 0 /\ f.ops = X
    BY <1>0, <1>2, <1>7, <2>1, <2>2, DroppedIs
  <2>4. f = [[page EXCEPT !.ops = @ \ {o}] EXCEPT !.active = 0] BY <1>0, <1>3, <2>1, <2>2 DEF Dropped, Page
  <2>5. f.traversing = page.traversing BY <1>0, <2>2 DEF Dropped, Page
  <2>6. Tells(page, f) BY <1>0, <1>2, <2>3, <2>5, DropTells
  <2>7. CASE page.life = "closed"
    <3>1. c = f BY <1>0, <1>4, <1>7, <2>4, <2>7 DEF RecoveryTimer
    <3>2. ~Awake(c) BY <2>3, <2>7, <3>1 DEF Awake, Off, Others
    <3> QED BY <1>4, <3>2 DEF Whole
  <2>8. CASE page.life # "closed"
    <3>1. PICK yes \in BOOLEAN, no \in BOOLEAN : yes = TRUE /\ no = FALSE OBVIOUS
    <3>2. yes \in BOOLEAN /\ no \in BOOLEAN /\ z \in Nat OBVIOUS
    <3>3. \/ page' = Fallback(f, o.url, FALSE, o.rec)
          \/ \E safe \in BOOLEAN : page' = Navigate(f, o.url, TRUE, 0, o.rec, safe)
      BY <1>7, <2>4, <2>8 DEF RecoveryTimer
    <3>4. Kind(f) # "post"
      <4>1. Typed(f) /\ Unique(f) /\ Owned(f) BY <2>3 DEF Form
      <4>2. \A x \in f.ops : x.seq # f.active BY <2>3, <4>1 DEF Typed, Page, Operation
      <4> QED BY <4>1, <4>2, RecIs
    <3>5. Still(f, c) /\ Tells(f, c) /\ Mended(c)
      <4>1. ASSUME page' = Fallback(f, o.url, FALSE, o.rec) PROVE Still(f, c) /\ Tells(f, c) /\ Mended(c)
        <5>1. c = Fallback(f, o.url, no, o.rec) BY <1>4, <3>1, <4>1
        <5>2. Tells(f, c) /\ \E x : Watching(c, x) BY <1>1, <2>3, <3>2, <5>1, FallbackTells
        <5>3. Still(f, c)
          <6>1. Away(f, Fallback(f, o.url, no, o.rec), o.rec) BY <1>1, <2>3, <3>2, FallbackAway
          <6> QED BY <5>1, <6>1 DEF Away
        <5> QED BY <5>2, <5>3, WatchingMends
      <4>2. ASSUME NEW safe \in BOOLEAN, page' = Navigate(f, o.url, TRUE, 0, o.rec, safe)
            PROVE  Still(f, c) /\ Tells(f, c) /\ Mended(c)
        <5>1. safe \in BOOLEAN OBVIOUS
        <5>2. c = Navigate(f, o.url, yes, z, o.rec, safe) BY <1>4, <2>1, <3>1, <4>2
        <5>3. PICK h \in Link : h = o.rec BY <1>1
        <5>4. h = (IF h # NoUrl THEN h ELSE Rec(f)) BY <1>1, <5>3
        <5>5. Still(f, c) /\ Tells(f, c) /\ Goes(f, c, z, h)
          <6>1. z # 0 => \A q \in f.ops : q.trav # z BY <2>1
          <6>2. c = Navigate(f, o.url, yes, z, h, safe) BY <5>2, <5>3
          <6> QED BY <1>0, <1>1, <2>3, <3>2, <3>4, <5>1, <5>4, <6>1, <6>2, NavigateTells
        <5> QED BY <1>1, <5>3, <5>5, GoesMends
      <4> QED BY <3>3, <4>1, <4>2
    <3>6. Still(page, c) BY <2>3, <3>5, StillTrans
    <3>7. Tells(page, c) BY <2>6, <3>5, TellsTrans
    <3> QED BY <1>4, <3>5, <3>6, <3>7, TellsWhole
  <2> QED BY <2>7, <2>8
<1> QED BY <1>5, <1>6, <1>7

-----------------------------------------------------------------------------
(* The timers.                                                             *)

LEMMA SpentMend ==
  ASSUME NEW b, Mended(b), NEW t, ~Ours(b, t), NEW c, Spent(b, c, t), \A o \in b.ops : Mender(b, o) => Mended(c)
  PROVE  Mended(c)
<1>1. Href(c) = Href(b) /\ c.truthUrl = b.truthUrl BY DEF Spent, Href, Current
<1>2. ASSUME NEW x, Watching(b, x) PROVE Watching(c, x)
  <2>1. Guard(c, x) BY <1>1, <1>2 DEF Watching, Guard, Spent
  <2>2. Unasked(b) => Unasked(c) BY DEF Unasked, Spent
  <2> QED BY <1>2, <2>1, <2>2 DEF Watching, Spent
<1>3. Pending(b) => Pending(c) BY DEF Pending, Delayed, Ours, Spent
<1> QED BY <1>1, <1>2, <1>3 DEF Mended

LEMMA FiredMends ==
  ASSUME NEW b, Mended(b), NEW t, ~Ours(b, t), NEW c, Spent(b, c, t), c.active = b.active, c.carrier = b.carrier,
         c.ops = b.ops
  PROVE  Mended(c)
<1>1. ASSUME NEW o \in b.ops, Mender(b, o) PROVE Mended(c)
  <2>1. o \in c.ops /\ Mender(c, o) BY <1>1 DEF Mender, Spent
  <2> QED BY <2>1, MenderMends
<1> QED BY <1>1, SpentMend

LEMMA NativeTimerHolds ==
  ASSUME Kept, Whole(page), NEW t \in page.timers, NativeTimer(t)
  PROVE  Whole(page')
<1>0. /\ Form(page) /\ t.kind = "native" /\ Carried(page) /\ page \in Page /\ Unique(page) /\ Owned(page)
  BY DEF Kept, Inv, Sound, Base, Tracked, NativeTimer, Form, Typed
<1>1. t.op # 0 /\ t.rec # NoUrl /\ t.url # NoUrl /\ t.rec \in Link /\ t.url \in Link
  BY <1>0 DEF Form, Natives, RealTimers, Page, TimerRecord
<1>2. PICK X \in SUBSET page.ops : X = {o \in page.ops : o.seq # t.op \/ o.kind # "held"} OBVIOUS
<1>3. \A o \in page.ops : o \in X <=> (o.seq # t.op \/ o.kind # "held") BY <1>2
<1>4. PICK k \in Nat : k = IF page.carrier = t.op THEN 0 ELSE page.carrier BY <1>0 DEF Page
<1>5. PICK v \in Nat : v = IF page.active = t.op THEN 0 ELSE page.active BY <1>0 DEF Page
<1>6. PICK b : b = Unburdened(page, t, X, k, v) OBVIOUS
<1>7. Spent(page, b, t) /\ b.active = v /\ b.carrier = k /\ Form(b) /\ Still(page, b)
  <2>1. k \in Nat /\ v \in Nat OBVIOUS
  <2> QED BY <1>0, <1>3, <1>4, <1>5, <1>6, <2>1, UnburdenedIs
<1>8. b.ops = X BY <1>0, <1>6 DEF Unburdened, Page
<1>9. ~Ours(page, t) BY <1>0 DEF Ours
<1>10. Tells(page, b)
  <2>1. \A o \in page.ops : o.kind = "nav" => o \in b.ops BY <1>3, <1>8
  <2> QED BY <1>7, <1>9, <2>1, SpentTell
<1>11. PICK r : r = [page EXCEPT !.timers = @ \ {t},
                                 !.carrier = IF @ = t.op THEN 0 ELSE @,
                                 !.ops = {o \in @ : o.seq # t.op \/ o.kind # "held"}]
  OBVIOUS
<1>12. page' = IF page.carrier = t.op /\ t.current
               THEN Fallback(IF r.active = t.op THEN [r EXCEPT !.active = 0] ELSE r, t.url, FALSE, t.rec)
               ELSE r
  BY <1>11 DEF NativeTimer
<1>13. b = IF r.active = t.op THEN [r EXCEPT !.active = 0] ELSE r
  BY <1>0, <1>2, <1>4, <1>5, <1>6, <1>11 DEF Unburdened, Page
<1>14. CASE page.carrier = t.op /\ t.current
  <2>1. PICK no \in BOOLEAN : no = FALSE OBVIOUS
  <2>2. PICK c : c = Fallback(b, t.url, no, t.rec) OBVIOUS
  <2>3. page' = c BY <1>12, <1>13, <1>14, <2>1, <2>2
  <2>4. no \in BOOLEAN OBVIOUS
  <2>5. Tells(b, c) /\ \E x : Watching(c, x) BY <1>1, <1>7, <2>2, <2>4, FallbackTells
  <2>6. Still(b, c)
    <3>1. Away(b, Fallback(b, t.url, no, t.rec), t.rec) BY <1>1, <1>7, <2>4, FallbackAway
    <3> QED BY <2>2, <3>1 DEF Away
  <2>7. Still(page, c) BY <1>7, <2>6, StillTrans
  <2>8. Tells(page, c) BY <1>10, <2>5, TellsTrans
  <2>9. Mended(c) BY <2>5, WatchingMends
  <2> QED BY <2>3, <2>7, <2>8, <2>9, TellsWhole
<1>15. CASE ~(page.carrier = t.op /\ t.current)
  <2>1. page.active # t.op
    <3> SUFFICES ASSUME page.active = t.op PROVE FALSE OBVIOUS
    <3>1. PICK o \in page.ops : o.seq = page.active BY <1>0, <1>1 DEF Owned
    <3>2. page.carrier = t.op BY <1>0 DEF Form, Natives
    <3>3. PICK u \in page.timers : u.kind = "native" /\ u.op = o.seq /\ u.current
      BY <1>0, <3>1, <3>2 DEF Form, Natives
    <3>4. u = t BY <1>0, <3>1, <3>3 DEF Form, Natives
    <3> QED BY <1>15, <3>2, <3>3, <3>4
  <2>2. page' = b
    <3>1. r.active = page.active BY <1>0, <1>11 DEF Page
    <3> QED BY <1>12, <1>13, <1>15, <2>1, <3>1
  <2>3. b.active = page.active BY <1>5, <1>7, <2>1
  <2>4. ASSUME Mended(page) PROVE Mended(b)
    <3>1. ASSUME NEW q \in page.ops, Mender(page, q) PROVE Mended(b)
      <4>1. q.seq = page.active /\ q.seq # t.op BY <2>1, <3>1 DEF Mender
      <4>2. q \in b.ops BY <1>3, <1>8, <4>1
      <4>3. q.seq = page.carrier => q.seq = b.carrier BY <1>4, <1>7, <4>1
      <4>4. Mender(b, q) BY <1>7, <2>3, <3>1, <4>3 DEF Mender, Spent
      <4> QED BY <4>2, <4>4, MenderMends
    <3> QED BY <1>7, <1>9, <2>4, <3>1, SpentMend
  <2>5. Awake(page) => Mended(b) BY <2>4 DEF Whole
  <2> QED BY <1>7, <1>10, <2>2, <2>5, TellsWhole
<1> QED BY <1>14, <1>15

LEMMA TraversalTimerHolds ==
  ASSUME Kept, Whole(page), NEW t \in page.timers, TraversalTimer(t)
  PROVE  Whole(page')
<1>0. Form(page) /\ Tracked(page, due, server) /\ t.kind = "traversal" /\ t.rec \in Link
  BY DEF Kept, Inv, Tracked, TraversalTimer, Form, Typed, Page, TimerRecord
<1>1. PICK b : b = Fired(page, t) OBVIOUS
<1>2. /\ Spent(page, b, t) /\ b.active = page.active /\ b.carrier = page.carrier /\ b.ops = page.ops
      /\ Form(b) /\ Still(page, b)
  BY <1>0, <1>1, FiredIs
<1>3. CASE b.life # "closed" /\ t.trav = b.traversal /\ b.recovering
  <2>1. PICK c : c = BeginTraversalRecovery(b, t.rec) OBVIOUS
  <2>2. page' = c BY <1>1, <1>3, <2>1 DEF TraversalTimer, Fired
  <2>3. Tells(b, c) /\ Turned(c) /\ \E x : Watching(c, x) BY <1>0, <1>2, <1>3, <2>1, TraversalRecoveryTells
  <2>4. Still(b, c)
    <3>1. Away(b, BeginTraversalRecovery(b, t.rec), t.rec) BY <1>0, <1>2, <1>3, TraversalAway
    <3> QED BY <2>1, <3>1 DEF Away
  <2>5. Faithful(page) => Faithful(b)
    <3>1. Unasked(page) => Unasked(b) BY <1>2 DEF Unasked, Spent
    <3> QED BY <1>2, <3>1 DEF Faithful, Truthful, Heeding, Told, Staging, Distinct, Spent
  <2>6. Tells(page, c) BY <2>3, <2>5 DEF Tells
  <2>7. Still(page, c) BY <1>2, <2>4, StillTrans
  <2>8. Mended(c) BY <2>3, WatchingMends
  <2> QED BY <2>2, <2>6, <2>7, <2>8, TellsWhole
<1>4. CASE ~(b.life # "closed" /\ t.trav = b.traversal /\ b.recovering)
  <2>1. page' = b BY <1>1, <1>4 DEF TraversalTimer, Fired
  <2>2. ASSUME Awake(b) PROVE Whole(b)
    <3>1. Awake(page) BY <1>2, <2>2 DEF Still, Onward, Awake
    <3>2. ~Ours(page, t)
      <4>1. b.life # "closed" BY <2>2 DEF Awake, Off
      <4>2. Ours(page, t) => page.recovering BY <1>0, <3>1 DEF Tracked, Steady, Core, Scrolled
      <4> QED BY <1>2, <1>4, <4>1, <4>2 DEF Ours, Spent
    <3>3. Tells(page, b) BY <1>2, <3>2, SpentTell
    <3>4. Mended(page) => Mended(b) BY <1>2, <3>2, FiredMends
    <3> QED BY <3>1, <3>3, <3>4 DEF Whole, Tells
  <2> QED BY <2>1, <2>2 DEF Whole
<1> QED BY <1>3, <1>4

LEMMA StageTimerHolds ==
  ASSUME Kept, Whole(page), NEW t \in page.timers, StageTimer(t)
  PROVE  Whole(page')
<1>0. Form(page) /\ t.kind = "stage" /\ t \in TimerRecord
  BY DEF Kept, Tracked, StageTimer, Form, Typed, Page
<1>1. PICK b : b = Fired(page, t) OBVIOUS
<1>2. /\ Spent(page, b, t) /\ b.active = page.active /\ b.carrier = page.carrier /\ b.ops = page.ops
      /\ Form(b) /\ Still(page, b)
  BY <1>0, <1>1, FiredIs
<1>3. ~Ours(page, t) BY <1>0 DEF Ours
<1>4. Tells(page, b) BY <1>2, <1>3, SpentTell
<1>5. CASE ~(b.life = "closed" \/ Href(b) # t.truth \/ (t.op # 0 /\ b.active # t.op))
  <2>1. t.url \in Link /\ t.url # NoUrl /\ t.truth # NoUrl BY <1>0 DEF Form, RealTimers, TimerRecord
  <2>2. PICK no \in BOOLEAN : no = FALSE OBVIOUS
  <2>3. PICK s : s = Selected(b, t.url, no) OBVIOUS
  <2>4. Form(s) /\ Alike(b, s) /\ s.shown = b.shown /\ s.leaving = b.leaving /\ s.truthUrl = b.truthUrl
    <3>1. no \in BOOLEAN OBVIOUS
    <3> QED BY <1>2, <2>1, <2>3, <3>1, SelectedIs
  <2>5. Tells(b, s) BY <2>4, AlikeTell
  <2>6. PICK x : x = Staged(s, t) OBVIOUS
  <2>7. x \in ObserverRecord /\ x.kind = "staged" /\ x.rec = t.rec /\ x.sel = Href(s) /\ x.truth # NoUrl
    BY <1>0, <2>1, <2>4, <2>6, StagedIs
  <2>8. x.truth = t.truth BY <2>6 DEF Staged, Observer
  <2>9. PICK c : c = Depart(Observe(s, x), t.url) OBVIOUS
  <2>10. page' = c BY <1>1, <1>5, <2>2, <2>3, <2>6, <2>9 DEF StageTimer, Fired, Staged
  <2>11. PICK O : O = {x} OBVIOUS
  <2>12. Asks(s, c, O)
    <3>1. Typed(s) BY <2>4 DEF Form
    <3> QED BY <2>1, <2>7, <2>9, <2>11, <3>1, AskIs
  <2>13. Still(page, c)
    <3>1. Still(b, s) BY <2>4, StillAlike
    <3>2. Still(s, c)
      <4>1. Typed(s) BY <2>4 DEF Form
      <4>2. Asks(s, c, {x}) BY <2>11, <2>12
      <4> QED BY <2>7, <4>1, <4>2, StillAsks
    <3>3. Still(page, s) BY <1>2, <3>1, StillTrans
    <3> QED BY <3>2, <3>3, StillTrans
  <2>14. ASSUME Awake(c) PROVE Faithful(c) /\ Turned(c)
    <3>1. Awake(page) BY <2>13, <2>14 DEF Still, Onward, Awake
    <3>2. Faithful(page) /\ Turned(page) BY <3>1 DEF Whole
    <3>3. t.truth = s.truthUrl BY <1>0, <1>2, <2>4, <3>2 DEF Faithful, Staging, Spent
    <3>4. \A y \in O : Told(s, y) BY <2>7, <2>8, <2>11, <3>3 DEF Told
    <3>5. Tells(s, c) BY <2>12, <3>4, AsksTell
    <3> QED BY <1>4, <2>5, <3>2, <3>5 DEF Tells
  <2>15. Watching(c, x)
    <3>1. Href(c) = Href(s) BY <2>12 DEF Asks, Undisturbed, Href, Current
    <3>2. x \in Elements(c.observers) /\ Unasked(c) BY <2>11, <2>12 DEF Asks, Unasked
    <3> QED BY <2>7, <3>1, <3>2 DEF Watching, Guard
  <2>16. Mended(c) BY <2>15, WatchingMends
  <2> QED BY <2>10, <2>14, <2>16 DEF Whole
<1>6. CASE b.life = "closed" \/ Href(b) # t.truth \/ (t.op # 0 /\ b.active # t.op)
  <2>1. page' = b BY <1>1, <1>6 DEF StageTimer, Fired
  <2>2. Mended(page) => Mended(b) BY <1>2, <1>3, FiredMends
  <2>3. Awake(page) => Mended(b) BY <2>2 DEF Whole
  <2> QED BY <1>2, <1>4, <2>1, <2>3, TellsWhole
<1> QED BY <1>5, <1>6

LEMMA ForwardTimerHolds ==
  ASSUME Kept, Whole(page), NEW t \in page.timers, ForwardTimer(t)
  PROVE  Whole(page')
<1>0. Form(page) /\ t.kind = "forward" /\ page \in Page BY DEF Kept, Tracked, ForwardTimer, Form, Typed
<1>1. PICK b : b = Fired(page, t) OBVIOUS
<1>2. /\ Spent(page, b, t) /\ b.active = page.active /\ b.carrier = page.carrier /\ b.ops = page.ops
      /\ Form(b) /\ Still(page, b)
  BY <1>0, <1>1, FiredIs
<1>3. ~Ours(page, t) BY <1>0 DEF Ours
<1>4. Tells(page, b) BY <1>2, <1>3, SpentTell
<1>5. Mended(page) => Mended(b) BY <1>2, <1>3, FiredMends
<1>6. CASE \E r \in page.mutationRecovery : r.op = t.op
  <2>1. PICK j : j = Append(page.jumps, 1) OBVIOUS
  <2>2. j \in Seq({1, -1})
    <3>1. page.jumps \in Seq({1, -1}) BY <1>0 DEF Page
    <3> QED BY <2>1, <3>1
  <2>3. PICK c : c = [b EXCEPT !.jumps = j] OBVIOUS
  <2>4. page' = c BY <1>0, <1>1, <1>6, <2>1, <2>3 DEF ForwardTimer, Fired, Page
  <2>5. Queued(b, c, j) /\ Still(b, c) BY <1>2, <2>2, <2>3, QueuedIs
  <2>6. Still(page, c) BY <1>2, <2>5, StillTrans
  <2>7. Tells(page, c)
    <3>1. Tells(b, c) BY <2>5, QueuedTell
    <3> QED BY <1>4, <3>1, TellsTrans
  <2>8. Awake(page) => Mended(c) BY <1>5, <2>5, QueuedMends DEF Whole
  <2> QED BY <2>4, <2>6, <2>7, <2>8, TellsWhole
<1>7. CASE ~\E r \in page.mutationRecovery : r.op = t.op
  <2>1. page' = b BY <1>0, <1>1, <1>7 DEF ForwardTimer, Fired, Page
  <2>2. Awake(page) => Mended(b) BY <1>5 DEF Whole
  <2> QED BY <1>2, <1>4, <2>1, <2>2, TellsWhole
<1> QED BY <1>6, <1>7

-----------------------------------------------------------------------------
(* The prompts.                                                            *)

LEMMA AskedFaithful ==
  ASSUME NEW b, NEW c, Asked(b, c), Faithful(b),
         \A x \in Elements(c.observers) \cup Elements(c.prompted) : x \in Elements(b.observers) \cup Elements(b.prompted),
         \A x \in Elements(c.observers) : x \in Elements(b.observers) /\ (Unasked(b) => Unasked(c))
  PROVE  Faithful(c)
<1>1. Truthful(c) BY DEF Faithful, Truthful, Asked
<1>2. \A x : Told(b, x) => Told(c, x) BY DEF Told, Asked
<1>3. Heeding(c) BY <1>2 DEF Faithful, Heeding
<1>4. Staging(c) BY DEF Faithful, Staging, Asked
<1>5. Distinct(c) BY DEF Faithful, Distinct, Asked
<1> QED BY <1>1, <1>3, <1>4, <1>5 DEF Faithful

LEMMA AskedGuard ==
  ASSUME NEW b, NEW c, Asked(b, c)
  PROVE  \A x : Guard(b, x) <=> Guard(c, x)
<1>1. Href(c) = Href(b) BY DEF Href, Current, Asked
<1> QED BY <1>1 DEF Guard, Asked

LEMMA AskedTurned ==
  ASSUME NEW b, NEW c, Asked(b, c), Turned(b), \A x : Watching(b, x) /\ x.kind = "traversal" => Watching(c, x)
  PROVE  Turned(c)
<1>1. Requesting(b) => Requesting(c) BY DEF Requesting, Asked
<1>2. Delayed(b) => Delayed(c) BY DEF Delayed, Ours, Asked
<1>3. Reloading(b) => Reloading(c) BY <1>2 DEF Reloading
<1> QED BY <1>1, <1>3 DEF Turned, Asked

LEMMA AskedMended ==
  ASSUME NEW b, NEW c, Asked(b, c), Mended(b), \A x : Watching(b, x) => Watching(c, x)
  PROVE  Mended(c)
<1>1. Href(c) = Href(b) BY DEF Href, Current, Asked
<1>2. \A o \in b.ops : Mender(b, o) => Mender(c, o) BY DEF Mender, Asked
<1>3. Pending(b) => Pending(c) BY DEF Pending, Delayed, Ours, Asked
<1> QED BY <1>1, <1>2, <1>3 DEF Mended, Asked

\* the page unloads
LEMMA AcceptHolds ==
  ASSUME Kept, Whole(page), Accept
  PROVE  Whole(page')
<1>1. page \in Page BY DEF Kept, Tracked, Form, Typed
<1>2. PICK d \in page.departure :
         ~d.asked /\ page' = [page EXCEPT !.departure = {[d EXCEPT !.asked = TRUE]}, !.observers = <<>>, !.leaving = TRUE]
  BY DEF Accept
<1>3. PICK e : e = [d EXCEPT !.asked = TRUE] OBVIOUS
<1>4. PICK yes \in BOOLEAN : yes = TRUE OBVIOUS
<1>5. page' = [page EXCEPT !.departure = {e}, !.observers = <<>>, !.leaving = yes] BY <1>2, <1>3, <1>4
<1>6. page'.leaving = yes BY <1>1, <1>5 DEF Page
<1> QED BY <1>4, <1>6 DEF Whole, Awake

LEMMA RefuseHolds ==
  ASSUME Kept, Whole(page), Refuse
  PROVE  Whole(page')
<1>0. Form(page) /\ page \in Page /\ ~page.leaving BY DEF Kept, Tracked, Refuse, Form, Typed
<1>1. PICK d \in page.departure :
         ~d.asked /\ page' = [page EXCEPT !.departure = {}, !.observers = <<>>, !.prompted = @ \o page.observers]
  BY DEF Refuse
<1>2. PICK x \in Seq(ObserverRecord), y \in Seq(ObserverRecord) : x = page.prompted /\ y = page.observers
  BY <1>0 DEF Page
<1>3. PICK p : p = x \o y OBVIOUS
<1>4. p \in Seq(ObserverRecord) /\ Elements(p) = Elements(page.prompted) \cup Elements(page.observers)
  <2>1. x \in Seq(ObserverRecord) /\ y \in Seq(ObserverRecord) OBVIOUS
  <2> QED BY <1>2, <1>3, <2>1, JoinedIs
<1>5. PICK s \in Seq(ObserverRecord) : s = <<>>
  <2>1. <<>> \in Seq(ObserverRecord) OBVIOUS
  <2> QED BY <2>1
<1>6. PICK c : c = [page EXCEPT !.departure = {}, !.observers = s, !.prompted = p] OBVIOUS
<1>7. page' = c BY <1>0, <1>1, <1>2, <1>3, <1>5, <1>6 DEF Page
<1>8. c \in Page /\ c.departure = {} /\ c.observers = s /\ c.prompted = p /\ c.leaving = page.leaving
  <2>1. s \in Seq(ObserverRecord) OBVIOUS
  <2> QED BY <1>0, <1>4, <1>6, <2>1 DEF Page
<1>9. Asked(page, c) BY <1>0, <1>6 DEF Asked, Page
<1>10. Elements(c.observers) = {} BY <1>5, <1>8 DEF Elements
<1>11. \A z : Guard(page, z) <=> Guard(c, z) BY <1>9, AskedGuard
<1>12. \A z : Watching(page, z) => Watching(c, z) BY <1>4, <1>8, <1>11 DEF Watching
<1>13. Off(page) => Off(c)
  <2>1. \A z \in Elements(c.observers) \cup Elements(c.prompted) :
          z \in Elements(page.observers) \cup Elements(page.prompted)
    BY <1>4, <1>8, <1>10
  <2> QED BY <1>0, <1>8, <1>9, <2>1, AskedIs
<1>14. ASSUME Awake(c) PROVE Faithful(c) /\ Turned(c) /\ Mended(c)
  <2>1. Faithful(page) /\ Turned(page) /\ Mended(page) BY <1>0, <1>13, <1>14 DEF Whole, Awake
  <2>2. Faithful(c) BY <1>4, <1>8, <1>9, <1>10, <2>1, AskedFaithful
  <2> QED BY <1>9, <1>12, <2>1, <2>2, AskedTurned, AskedMended
<1> QED BY <1>7, <1>14 DEF Whole

LEMMA LoadedWhole ==
  ASSUME NEW es \in Seq(Entry), NEW i \in DOMAIN es, NEW v \in Nat
  PROVE  Whole(Loaded(es, i, v))
<1>1. PICK c : c = Loaded(es, i, v) OBVIOUS
<1>2. /\ c.ops = {} /\ c.timers = {} /\ c.pushRecovery = {} /\ ~c.traversing /\ c.observers = <<>> /\ c.prompted = <<>>
      /\ c.entries = es /\ c.cur = i /\ c.truthUrl = es[i].url /\ c.shown.url = es[i].url
  BY <1>1 DEF Loaded
<1>3. Elements(c.observers) = {} /\ Elements(c.prompted) = {} BY <1>2 DEF Elements
<1>4. Faithful(c) BY <1>2, <1>3 DEF Faithful, Truthful, Heeding, Staging, Distinct
<1>5. Turned(c) BY <1>2 DEF Turned
<1>6. Mended(c) BY <1>2 DEF Mended, Href, Current
<1> QED BY <1>1, <1>4, <1>5, <1>6 DEF Whole

LEMMA LoadHolds ==
  ASSUME Kept, Whole(page), Load
  PROVE  Whole(page')
<1>0. server \in Nat /\ Form(page) /\ page \in Page BY DEF Kept, Inv, Tracked, Form, Typed
<1>1. PICK d \in page.departure : page' = Loaded(<<[url |-> d.url, id |-> 1]>>, 1, server) BY DEF Load
<1>2. d.url \in Link BY <1>0 DEF Page
<1>3. PICK e \in Entry : e = [url |-> d.url, id |-> 1] BY <1>2 DEF Entry
<1>4. PICK es : es = <<e>> OBVIOUS
<1>5. es \in Seq(Entry) /\ 1 \in DOMAIN es BY <1>4
<1>6. Whole(Loaded(es, 1, server)) BY <1>0, <1>5, LoadedWhole
<1> QED BY <1>1, <1>3, <1>4, <1>6

LEMMA RepairedStill ==
  ASSUME NEW b, Form(b), NEW obs, NEW u \in Link, u = obs.truth, obs.truth # NoUrl,
         NEW t, t = IF obs.kind # "staged" /\ obs.repair THEN CloseTraversal(b) ELSE b,
         NEW r, r = RepairDisplayedTruth(t, u)
  PROVE  Form(r) /\ Still(b, r)
<1>1. Form(t) /\ Still(b, t)
  <2>1. CASE obs.kind # "staged" /\ obs.repair
    <3>1. t = CloseTraversal(b) BY <2>1
    <3>2. Paused(b, t) /\ Form(t) BY <3>1, CloseTraversalIs
    <3> QED BY <3>2, StillPaused
  <2>2. CASE ~(obs.kind # "staged" /\ obs.repair)
    <3>1. t = b BY <2>2
    <3>2. Still(b, b) BY DEF Still, Onward, Recent
    <3> QED BY <3>1, <3>2
  <2> QED BY <2>1, <2>2
<1>2. Form(r) /\ Alike(t, r) /\ r.shown = t.shown /\ r.leaving = t.leaving BY <1>1, RepairIs
<1>3. Still(t, r) BY <1>2, StillAlike
<1> QED BY <1>1, <1>2, <1>3, StillTrans

\* what the observer obs restores when it acts
LEMMA RepairedTells ==
  ASSUME NEW b, Form(b), Faithful(b), NEW obs \in ObserverRecord, Told(b, obs), Guard(b, obs), obs.kind # "close",
         obs.kind # "traversal" => Turned(b),
         NEW u \in Link, u = obs.truth, u # NoUrl,
         NEW t, t = IF obs.kind # "staged" /\ obs.repair THEN CloseTraversal(b) ELSE b,
         NEW r, r = RepairDisplayedTruth(t, u)
  PROVE  Form(r) /\ Faithful(r) /\ Turned(r) /\ Mended(r)
<1>1. u = b.truthUrl BY DEF Told, Guard, ObserverRecord
<1>2. Form(t) /\ Faithful(t) /\ Turned(t) /\ t.truthUrl = b.truthUrl
  <2>1. CASE obs.kind # "staged" /\ obs.repair
    <3>1. t = CloseTraversal(b) BY <2>1
    <3>2. Paused(b, t) /\ Form(t) /\ Tells(b, t) BY <3>1, CloseTraversalIs, CloseTells
    <3>3. Turned(t) BY <3>2 DEF Turned, Paused
    <3> QED BY <3>2, <3>3 DEF Tells, Paused
  <2>2. CASE ~(obs.kind # "staged" /\ obs.repair)
    <3>1. t = b BY <2>2
    <3>2. obs.kind # "traversal" BY <2>2 DEF Told
    <3> QED BY <3>1, <3>2
  <2> QED BY <2>1, <2>2
<1>3. Tells(t, r) /\ Href(r) = r.truthUrl BY <1>1, <1>2, RepairTells
<1>4. Form(r) BY <1>2, RepairIs
<1>5. Mended(r) BY <1>3 DEF Mended
<1> QED BY <1>2, <1>3, <1>4, <1>5 DEF Tells

LEMMA CheckHolds ==
  ASSUME Kept, Whole(page), Check
  PROVE  Whole(page')
<1>0. server \in Nat /\ Form(page) /\ page \in Page /\ page.prompted # <<>> /\ page.prompted \in Seq(ObserverRecord)
  BY DEF Kept, Inv, Tracked, Check, Form, Typed, Page
<1>1. PICK b : b = [page EXCEPT !.prompted = Tail(@)] OBVIOUS
<1>2. PICK obs : obs = Head(page.prompted) OBVIOUS
<1>3. Form(b) /\ Asked(page, b) /\ Still(page, b) /\ obs \in ObserverRecord /\ obs.truth # NoUrl
  BY <1>0, <1>1, <1>2, HeardIs
<1>4. PICK s \in Seq(ObserverRecord) : s = Tail(page.prompted) BY <1>0, TailIs
<1>5. /\ obs \in Elements(page.prompted) /\ Elements(s) \subseteq Elements(page.prompted)
      /\ Elements(page.prompted) \subseteq Elements(s) \cup {obs}
  BY <1>0, <1>2, <1>4, TailIs
<1>6. b.prompted = s /\ b.observers = page.observers /\ b.departure = page.departure BY <1>0, <1>1, <1>4 DEF Page
<1>7. \A z : Guard(page, z) <=> Guard(b, z) BY <1>3, AskedGuard
<1>8. ASSUME NEW z, Watching(page, z), z # obs \/ ~Guard(b, obs) PROVE Watching(b, z)
  BY <1>5, <1>6, <1>7, <1>8 DEF Watching, Unasked
<1>9. PICK u \in Link, v \in Link : u = obs.truth /\ v = obs.rec BY <1>3 DEF ObserverRecord
<1>10. PICK t : t = IF obs.kind # "staged" /\ obs.repair THEN CloseTraversal(b) ELSE b OBVIOUS
<1>11. PICK r : r = RepairDisplayedTruth(t, u) OBVIOUS
<1>12. PICK act \in {"active", "closing", "closed"} : act = "active" OBVIOUS
<1>13. PICK w : w = [b EXCEPT !.life = act] OBVIOUS
<1>14. page' = IF b.life # "closed" /\ Guard(b, obs) THEN Repaired(b, obs) ELSE b
  BY <1>1, <1>2 DEF Check
<1>15. Repaired(b, obs) = CASE obs.kind = "close" -> IF v # NoUrl THEN RecoverCommitted(w, v) ELSE [r EXCEPT !.life = "closed"]
                             [] obs.kind = "fallback" /\ v # NoUrl ->
                                  RecoverCommitted(IF obs.repair THEN r ELSE b, v)
                             [] OTHER -> IF v # NoUrl THEN RecoverCommitted(r, v) ELSE r
  BY <1>9, <1>10, <1>11, <1>12, <1>13 DEF Repaired
<1>16. ASSUME Awake(page)
       PROVE  /\ Faithful(b) /\ Told(b, obs)
              /\ (obs.kind # "traversal" \/ ~Guard(b, obs) => Turned(b))
              /\ (~Guard(b, obs) => Mended(b))
  <2>1. Faithful(page) /\ Turned(page) /\ Mended(page) BY <1>16 DEF Whole
  <2>2. Faithful(b) BY <1>3, <1>5, <1>6, <2>1, AskedFaithful DEF Unasked
  <2>3. Told(b, obs) BY <1>3, <1>5, <2>1 DEF Faithful, Heeding, Told, Asked
  <2>4. obs.kind # "traversal" \/ ~Guard(b, obs) => Turned(b) BY <1>3, <1>8, <2>1, AskedTurned
  <2>5. ~Guard(b, obs) => Mended(b) BY <1>3, <1>8, <2>1, AskedMended
  <2> QED BY <2>2, <2>3, <2>4, <2>5
<1>17. CASE ~(b.life # "closed" /\ Guard(b, obs))
  <2>1. page' = b BY <1>14, <1>17
  <2>2. SUFFICES ASSUME Awake(b) PROVE Faithful(b) /\ Turned(b) /\ Mended(b) BY <2>1 DEF Whole
  <2>3. Awake(page) BY <1>3, <2>2 DEF Still, Onward, Awake
  <2>4. ~Guard(b, obs) BY <1>17, <2>2 DEF Awake, Off
  <2> QED BY <1>16, <2>3, <2>4
<1>18. CASE b.life # "closed" /\ Guard(b, obs) /\ obs.kind = "close" /\ v # NoUrl
  <2>1. b.life = "closing" BY <1>18 DEF Guard
  <2>2. Form(w) /\ Lived(b, w, act) BY <1>3, <1>12, <1>13, LivedIs
  <2>3. PICK c : c = RecoverCommitted(w, v) OBVIOUS
  <2>4. page' = c BY <1>14, <1>15, <1>18, <2>3
  <2>5. Still(w, c) BY <1>0, <1>18, <2>2, <2>3, RecoverCommittedIs
  <2>6. Tells(w, c) /\ \E o \in c.ops : Mender(c, o) BY <1>0, <1>18, <2>2, <2>3, RecoverTells
  <2>7. SUFFICES ASSUME Awake(c) PROVE Faithful(c) /\ Turned(c) /\ Mended(c) BY <2>4 DEF Whole
  <2>8. Awake(page)
    <3>1. Awake(w) BY <2>5, <2>7 DEF Still, Onward, Awake
    <3>2. /\ b.life = "closing" /\ obs.kind = "close" /\ obs.rec # NoUrl => ~Off(page) \/ b.lapsed
      BY <1>0, <1>1, <1>2, HeardIs
    <3>3. ~w.lapsed /\ ~w.leaving BY <3>1 DEF Awake, Off
    <3>4. ~b.lapsed /\ ~page.leaving BY <1>3, <2>2, <3>3 DEF Lived, Still, Onward
    <3> QED BY <1>9, <1>18, <2>1, <3>2, <3>4 DEF Awake
  <2>9. Faithful(b) /\ Turned(b) BY <1>16, <1>18, <2>8
  <2>10. Tells(b, w) BY <2>2, LivedTell
  <2>11. Mended(c) BY <2>6, MenderMends
  <2> QED BY <2>6, <2>9, <2>10, <2>11 DEF Tells
<1>19. CASE b.life # "closed" /\ Guard(b, obs) /\ obs.kind = "close" /\ v = NoUrl
  <2>1. page' = [r EXCEPT !.life = "closed"] BY <1>14, <1>15, <1>19
  <2>2. Form(r) BY <1>3, <1>9, <1>10, <1>11, RepairedStill
  <2>3. page'.life = "closed" BY <2>1, <2>2 DEF Form, Typed, Page
  <2> QED BY <2>3 DEF Whole, Awake, Off
<1>20. ASSUME b.life # "closed", Guard(b, obs), obs.kind # "close", Awake(page)
       PROVE  /\ Form(r) /\ Faithful(r) /\ Turned(r) /\ Mended(r)
              /\ Faithful(b) /\ (obs.kind = "fallback" => Turned(b))
  <2>1. Faithful(b) /\ Told(b, obs) /\ (obs.kind # "traversal" => Turned(b)) BY <1>16, <1>20
  <2> QED BY <1>3, <1>9, <1>10, <1>11, <1>20, <2>1, RepairedTells
<1>21. CASE b.life # "closed" /\ Guard(b, obs) /\ obs.kind # "close" /\ v = NoUrl
  <2>1. page' = r BY <1>14, <1>15, <1>21
  <2>2. Still(b, r) BY <1>3, <1>9, <1>10, <1>11, RepairedStill
  <2>3. Still(page, r) BY <1>3, <2>2, StillTrans
  <2>4. Awake(r) => Awake(page) BY <2>3 DEF Still, Onward, Awake
  <2> QED BY <1>20, <1>21, <2>1, <2>4 DEF Whole
<1>22. CASE b.life # "closed" /\ Guard(b, obs) /\ obs.kind # "close" /\ v # NoUrl
  <2>1. PICK x : x = IF obs.kind = "fallback" /\ ~obs.repair THEN b ELSE r OBVIOUS
  <2>2. Form(r) /\ Still(b, r) BY <1>3, <1>9, <1>10, <1>11, RepairedStill
  <2>3. Form(x) /\ Still(page, x)
    <3>1. Still(page, r) BY <1>3, <2>2, StillTrans
    <3> QED BY <1>3, <2>1, <2>2, <3>1
  <2>4. PICK c : c = RecoverCommitted(x, v) OBVIOUS
  <2>5. page' = c BY <1>14, <1>15, <1>22, <2>1, <2>4
  <2>6. Still(x, c) BY <1>0, <1>22, <2>3, <2>4, RecoverCommittedIs
  <2>7. Tells(x, c) /\ \E o \in c.ops : Mender(c, o) BY <1>0, <1>22, <2>3, <2>4, RecoverTells
  <2>8. Still(page, c) BY <2>3, <2>6, StillTrans
  <2>9. Awake(c) => Awake(page) BY <2>8 DEF Still, Onward, Awake
  <2>10. Awake(page) => Faithful(x) /\ Turned(x) BY <1>20, <1>22, <2>1
  <2>11. Mended(c) BY <2>7, MenderMends
  <2> QED BY <2>5, <2>7, <2>9, <2>10, <2>11 DEF Whole, Tells
<1> QED BY <1>17, <1>18, <1>19, <1>21, <1>22

-----------------------------------------------------------------------------
(* The answers.                                                            *)

\* what ends with a native load
LEMMA FallbackLands ==
  ASSUME NEW b, Form(b), NEW o \in b.ops, o.seq = b.carrier => o.aborted,
         NEW url \in Link, url # NoUrl, NEW repair \in BOOLEAN, NEW rec \in Link,
         NEW c, c = EndOp(Fallback(b, url, repair, rec), o)
  PROVE  Tells(b, c) /\ Mended(c) /\ Still(b, c)
<1>0. o \in Operation /\ Unique(b) BY DEF Form, Typed, Page
<1>1. PICK f : f = Fallback(b, url, repair, rec) OBVIOUS
<1>2. Away(b, Fallback(b, url, repair, rec), rec) BY FallbackAway
<1>3. Away(b, f, rec) BY <1>1, <1>2
<1>4. Form(f) /\ Undisturbed(b, f) /\ Still(b, f) BY <1>3 DEF Away
<1>5. o \in f.ops /\ (o.seq = f.carrier => o \in f.ops /\ o.aborted) BY <1>4 DEF Undisturbed
<1>6. Tells(b, f) /\ \E x : Watching(f, x) BY <1>1, FallbackTells
<1>7. c = EndOp(f, o) BY <1>1
<1>8. Others(f, c) /\ Still(f, c) BY <1>0, <1>4, <1>5, <1>7, EndOpForm
<1>9. Tells(f, c)
  <2>1. \A x \in f.ops : x.seq = o.seq => x.trav = o.trav BY <1>0, <1>4 DEF Unique, Undisturbed
  <2> QED BY <1>0, <1>4, <1>5, <1>7, <2>1, EndOpTells
<1>10. Tells(b, c) BY <1>6, <1>9, TellsTrans
<1>11. \E x : Watching(c, x) BY <1>6, <1>8, WatchingOthers
<1>12. Still(b, c) BY <1>4, <1>8, StillTrans
<1> QED BY <1>10, <1>11, <1>12 DEF Mended

LEMMA CommitShows ==
  ASSUME NEW b, Form(b), NEW url \in Link, url # NoUrl, NEW replace \in BOOLEAN, NEW version \in Nat,
         NEW c, c = Commit(b, url, replace, version)
  PROVE  Form(c) /\ Alike(b, c) /\ Onward(b, c) /\ c.shown.url = url /\ c.truthUrl = url /\ Href(c) = url
<1>1. PICK s : s = Selected(b, url, replace) OBVIOUS
<1>2. Form(s) /\ Href(s) = url BY <1>1, SelectedIs
<1>3. s \in Page BY <1>2 DEF Form, Typed
<1>4. PICK w : w = [url |-> url, version |-> version] OBVIOUS
<1>5. PICK id : id = Current(s).id OBVIOUS
<1>6. c = [s EXCEPT !.shown = w, !.displayed = id, !.selected = id, !.truthUrl = url]
  BY <1>1, <1>4, <1>5 DEF Commit
<1>7. c.shown = w /\ c.truthUrl = url /\ c.entries = s.entries /\ c.cur = s.cur BY <1>3, <1>6 DEF Page
<1>8. Form(c) /\ Alike(b, c) /\ Onward(b, c)
  <2>1. PICK d : d = Commit(b, url, replace, version) OBVIOUS
  <2>2. Form(d) /\ Alike(b, d) /\ Onward(b, d) BY <2>1, CommitIs
  <2> QED BY <2>1, <2>2
<1> QED BY <1>2, <1>4, <1>7, <1>8 DEF Href, Current

\* what ends with a new document in place
LEMMA CommitLands ==
  ASSUME NEW b, Form(b), Whole(b), Awake(b) => Loose(b) /\ b.pushRecovery = {} /\ \A t \in b.timers : t.kind # "stage",
         NEW o \in b.ops, o.seq # b.carrier,
         NEW url \in Link, url # NoUrl, NEW replace \in BOOLEAN, NEW version \in Nat,
         NEW c, c = EndOp(Commit(b, url, replace, version), o)
  PROVE  Whole(c)
<1>0. o \in Operation /\ Unique(b) BY DEF Form, Typed, Page
<1>1. PICK s : s = Commit(b, url, replace, version) OBVIOUS
<1>2. Form(s) /\ Alike(b, s) /\ Onward(b, s) /\ s.shown.url = url /\ s.truthUrl = url /\ Href(s) = url
  BY <1>1, CommitShows
<1>3. ASSUME Loose(b), b.pushRecovery = {}, \A t \in b.timers : t.kind # "stage", Faithful(b)
      PROVE  Faithful(s)
  <2>1. Truthful(s) BY <1>2 DEF Truthful
  <2>2. Elements(b.prompted) = {} BY <1>3 DEF Loose, Elements
  <2>3. \A x \in Elements(b.observers) : x.kind # "staged" BY <1>3 DEF Faithful, Heeding, Loose, Unasked
  <2>4. \A x \in Elements(b.observers) : x.kind = "traversal" => x.repair BY <1>3 DEF Faithful, Heeding, Told
  <2>5. s.prompted = b.prompted /\ s.observers = b.observers BY <1>2 DEF Alike
  <2>6. Heeding(s) BY <2>2, <2>3, <2>4, <2>5 DEF Heeding, Told
  <2>7. Staging(s) BY <1>2, <1>3 DEF Staging, Alike
  <2>8. Distinct(s) BY <1>2, <1>3 DEF Faithful, Distinct, Alike
  <2> QED BY <2>1, <2>6, <2>7, <2>8 DEF Faithful
<1>4. ASSUME Loose(b), Turned(b) PROVE Turned(s)
  <2>1. \A x : ~Watching(b, x) BY <1>4 DEF Watching, Loose, Unasked, Elements
  <2>2. Requesting(b) => Requesting(s) BY <1>2 DEF Requesting, Alike
  <2>3. Reloading(b) => Reloading(s) BY <1>2, <2>1 DEF Reloading, Delayed, Ours, Alike
  <2> QED BY <1>2, <1>4, <2>2, <2>3 DEF Turned, Alike
<1>5. c = EndOp(s, o) BY <1>1
<1>6. o \in s.ops /\ (o.seq = s.carrier => o \in s.ops /\ o.aborted) BY <1>2 DEF Alike
<1>7. Tells(s, c)
  <2>1. \A x \in s.ops : x.seq = o.seq => x.trav = o.trav BY <1>0, <1>2 DEF Unique, Alike
  <2> QED BY <1>0, <1>2, <1>5, <1>6, <2>1, EndOpTells
<1>8. Others(s, c) /\ Still(s, c) BY <1>0, <1>2, <1>5, <1>6, EndOpForm
<1>9. Mended(c) BY <1>2, <1>8 DEF Mended, Others, Href, Current
<1>10. Awake(c) => Awake(b)
  <2>1. Onward(b, c) BY <1>2, <1>8, OnwardStill
  <2> QED BY <2>1 DEF Onward, Awake
<1>11. SUFFICES ASSUME Awake(c) PROVE Faithful(c) /\ Turned(c) /\ Mended(c) BY DEF Whole
<1>12. Faithful(s) /\ Turned(s) BY <1>3, <1>4, <1>10, <1>11 DEF Whole
<1> QED BY <1>7, <1>9, <1>12 DEF Tells

\* what ends with a rollback
LEMMA RolledLands ==
  ASSUME NEW b, Faithful(b), NEW c, Rolled(b, c)
  PROVE  Faithful(c) /\ Turned(c) /\ Mended(c)
<1>1. PICK r : c.pushRecovery = {r} /\ r.truth = b.truthUrl BY DEF Rolled
<1>2. Truthful(c) BY DEF Faithful, Truthful, Rolled
<1>3. Heeding(c) BY DEF Faithful, Heeding, Told, Unasked, Rolled
<1>4. Staging(c)
  <2>1. \A t \in c.timers : t.kind = "stage" => t.truth = c.truthUrl BY DEF Faithful, Staging, Rolled, TimerKin
  <2>2. \A q \in c.pushRecovery : q.truth = c.truthUrl BY <1>1 DEF Rolled
  <2> QED BY <2>1, <2>2 DEF Staging
<1>5. Distinct(c)
  <2> SUFFICES ASSUME NEW x \in c.ops, NEW y \in c.ops, x.trav = y.trav, x.trav # 0 PROVE x.seq = y.seq BY DEF Distinct
  <2>1. PICK p \in b.ops : x.seq = p.seq /\ x.trav = p.trav BY DEF Rolled
  <2>2. PICK q \in b.ops : y.seq = q.seq /\ y.trav = q.trav BY DEF Rolled
  <2> QED BY <2>1, <2>2 DEF Faithful, Distinct
<1>6. Faithful(c) BY <1>2, <1>3, <1>4, <1>5 DEF Faithful
<1>7. Turned(c) BY <1>1 DEF Turned
<1>8. Mended(c) BY <1>1 DEF Mended, Pending
<1> QED BY <1>6, <1>7, <1>8

\* an operation that has lost the page ends without an answer
LEMMA EndMends ==
  ASSUME NEW b, Form(b), Core(b), Faithful(b), Mended(b), NEW o \in b.ops, o.aborted, NEW c, c = EndOp(b, o)
  PROVE  Tells(b, c) /\ Mended(c)
<1>0. o \in Operation /\ Unique(b) BY DEF Form, Typed, Page
<1>1. /\ Others(b, c)
      /\ c.active = (IF b.active = o.seq /\ b.carrier # o.seq THEN 0 ELSE b.active)
      /\ c.traversing = (b.traversing /\ (o.trav = 0 \/ o.trav # b.traversal \/ b.recovering))
      /\ (\A x \in b.ops : x.seq # o.seq => x \in c.ops)
      /\ (b.carrier = o.seq => \E x \in c.ops : x.seq = o.seq)
  BY <1>0, EndOpForm
<1>2. Tells(b, c)
  <2>1. \A x \in b.ops : x.seq = o.seq => x.trav = o.trav BY <1>0 DEF Unique
  <2> QED BY <1>0, <2>1, EndOpTells
<1>3. ASSUME NEW q \in b.ops, Mender(b, q) PROVE Mended(c)
  <2>1. CASE q.seq # o.seq
    <3>1. q \in c.ops /\ c.active = b.active BY <1>1, <1>3, <2>1 DEF Mender
    <3>2. b.traversing /\ q.trav = b.traversal => c.traversing
      BY <1>1, <2>1 DEF Faithful, Distinct
    <3>3. Mender(c, q) BY <1>1, <1>3, <3>1, <3>2 DEF Mender, Others
    <3> QED BY <3>1, <3>3, MenderMends
  <2>2. CASE q.seq = o.seq /\ b.carrier = o.seq
    <3>1. PICK x \in c.ops : x.seq = o.seq BY <1>1, <2>2
    <3>2. Mender(c, x) BY <1>1, <1>3, <2>2, <3>1 DEF Mender, Others
    <3> QED BY <3>2, MenderMends
  <2>3. CASE q.seq = o.seq /\ b.carrier # o.seq
    <3>1. q = o BY <1>0, <2>3 DEF Unique
    <3>2. o.kind = "post" /\ o.seq = b.active BY <1>3, <2>3, <3>1 DEF Mender
    <3>3. b.mutationRecovery # {} BY <3>2 DEF Core, Posting
    <3>4. c.mutationRecovery # {} BY <1>1, <3>3 DEF Others
    <3> QED BY <3>4 DEF Mended, Pending
  <2> QED BY <2>1, <2>2, <2>3
<1>4. Mended(c) BY <1>1, <1>3, OthersMend
<1> QED BY <1>2, <1>4

LEMMA ObsoleteHolds ==
  ASSUME Kept, Whole(page), NEW o \in page.ops, ~Owns(page, o), Arrive(o)
  PROVE  Whole(page')
<1>0. /\ Form(page) /\ Carried(page) /\ o \in Operation /\ o.truth \in Link /\ o.truth # NoUrl
  BY DEF Kept, Inv, Sound, Base, Tracked, Form, Typed, Page, RealOps, Operation
<1>1. o.seq = page.carrier => o.aborted BY <1>0 DEF Carried
<1>2. PICK c : c = page' OBVIOUS
<1>3. c = Obsolete(page, o) BY <1>2 DEF Arrive
<1>4. CASE c = EndOp(Fallback(page, o.truth, FALSE, o.truth), o)
  <2>1. PICK no \in BOOLEAN : no = FALSE OBVIOUS
  <2>2. no \in BOOLEAN OBVIOUS
  <2>3. c = EndOp(Fallback(page, o.truth, no, o.truth), o) BY <1>4, <2>1
  <2>4. Tells(page, c) /\ Mended(c) /\ Still(page, c) BY <1>0, <1>1, <2>2, <2>3, FallbackLands
  <2> QED BY <1>2, <2>4, TellsWhole
<1>5. CASE c = EndOp(page, o)
  <2>1. Still(page, c) BY <1>0, <1>1, <1>5, EndOpForm
  <2>2. SUFFICES ASSUME Awake(c) PROVE Faithful(c) /\ Turned(c) /\ Mended(c) BY <1>2 DEF Whole
  <2>3. Awake(page) BY <2>1, <2>2 DEF Still, Onward, Awake
  <2>4. Core(page) /\ o.aborted BY <2>3 DEF Kept, Tracked, Steady, Core, Single, Owns
  <2>5. Faithful(page) /\ Turned(page) /\ Mended(page) BY <2>3 DEF Whole
  <2>6. Tells(page, c) /\ Mended(c) BY <1>0, <1>5, <2>4, <2>5, EndMends
  <2> QED BY <2>5, <2>6 DEF Tells
<1> QED BY <1>3, <1>4, <1>5 DEF Obsolete

LEMMA AnswerNavigationHolds ==
  ASSUME Kept, Whole(page), Waiting(page), NEW o \in page.ops, Owns(page, o), o.kind = "nav",
         NEW c \in AnswerNavigation(page, o)
  PROVE  Whole(c)
<1>0. /\ server \in Nat /\ Form(page) /\ Carried(page) /\ Owed(page) /\ (Awake(page) => Steady(page))
      /\ o \in Operation /\ o.seq = page.active /\ ~o.aborted
  BY DEF Kept, Inv, Sound, Base, Tracked, Form, Typed, Page, Owns
<1>1. /\ o.url \in Link /\ o.url # NoUrl /\ o.truth \in Link /\ o.truth # NoUrl /\ o.rec \in Link
      /\ o.replace \in BOOLEAN /\ o.began \in Nat
  BY <1>0 DEF Form, RealOps, Operation
<1>2. o.seq # page.carrier BY <1>0 DEF Carried
<1>3. Awake(page) => Loose(page) /\ page.pushRecovery = {} /\ \A t \in page.timers : t.kind # "stage"
  BY <1>0, WaitingIs
<1>4. PICK yes \in BOOLEAN, no \in BOOLEAN : yes = TRUE /\ no = FALSE OBVIOUS
<1>5. PICK rp \in BOOLEAN : rp = o.replace BY <1>1
<1>6. yes \in BOOLEAN /\ no \in BOOLEAN /\ rp \in BOOLEAN OBVIOUS
<1>7. ASSUME NEW u \in Link, u # NoUrl, c = EndOp(Fallback(page, u, no, o.rec), o)
      PROVE  Whole(c)
  <2>1. Tells(page, c) /\ Mended(c) /\ Still(page, c) BY <1>0, <1>1, <1>2, <1>6, <1>7, FallbackLands
  <2> QED BY <2>1, TellsWhole
<1>8. CASE c = EndOp(Fallback(page, o.url, FALSE, o.rec), o) BY <1>1, <1>4, <1>7, <1>8
<1>9. CASE \E u \in Url \cup {o.truth} : c = EndOp(Fallback(page, u, FALSE, o.rec), o)
  <2>1. PICK u \in Link : u # NoUrl /\ c = EndOp(Fallback(page, u, no, o.rec), o)
    BY <1>1, <1>4, <1>9, NavigationAssumption DEF Link
  <2> QED BY <1>7, <2>1
<1>10. CASE c = EndOp(CommitFails(page, o), o)
  <2>1. PICK s : s = Selected(page, o.url, rp) OBVIOUS
  <2>2. s = Selected(page, o.url, o.replace) BY <1>5, <2>1
  <2>3. Form(s) /\ Alike(page, s) /\ Tells(page, s) /\ Still(page, s)
    <3>1. o.url \in Link /\ o.url # NoUrl BY <1>1
    <3>2. Form(s) /\ Alike(page, s) /\ s.shown = page.shown /\ s.leaving = page.leaving
      BY <1>0, <1>6, <2>1, <3>1, SelectedIs
    <3>3. Tells(page, s) BY <1>0, <1>6, <2>1, <3>1, SelectedTells
    <3>4. Still(page, s) BY <3>2, SelectedStill
    <3> QED BY <3>2, <3>3, <3>4
  <2>4. o \in s.ops /\ o.seq = s.active /\ o.seq # s.carrier BY <1>0, <1>2, <2>3 DEF Alike
  <2>5. CASE o.replace
    <3>1. c = EndOp(Fallback(s, o.url, yes, o.rec), o) BY <1>4, <1>10, <2>2, <2>5 DEF CommitFails
    <3>2. Tells(s, c) /\ Mended(c) /\ Still(s, c) BY <1>1, <1>6, <2>3, <2>4, <3>1, FallbackLands
    <3>3. Tells(page, c) BY <2>3, <3>2, TellsTrans
    <3>4. Still(page, c) BY <2>3, <3>2, StillTrans
    <3> QED BY <3>2, <3>3, <3>4, TellsWhole
  <2>6. CASE ~o.replace
    <3>1. c = EndOp(RecoverSelectedPush(s, o.url, o.rec), o)
      <4>1. CommitFails(page, o) = RecoverSelectedPush(s, o.url, o.rec) BY <2>2, <2>6 DEF CommitFails
      <4> QED BY <1>10, <4>1
    <3>2. Rolled(s, c) /\ Still(s, c) BY <1>0, <1>1, <2>3, <2>4, <3>1, PushEnds
    <3>3. Still(page, c) BY <2>3, <3>2, StillTrans
    <3>4. Awake(c) => Awake(page) BY <3>3 DEF Still, Onward, Awake
    <3>5. Awake(page) => Faithful(s) BY <2>3 DEF Tells, Whole
    <3>6. Faithful(s) => Faithful(c) /\ Turned(c) /\ Mended(c) BY <3>2, RolledLands
    <3> QED BY <3>4, <3>5, <3>6 DEF Whole
  <2> QED BY <2>5, <2>6
<1>11. CASE \E v \in {o.began, server} : c = EndOp(Commit(page, o.url, o.replace, v), o)
  <2>1. PICK v \in Nat : c = EndOp(Commit(page, o.url, o.replace, v), o) BY <1>0, <1>1, <1>11
  <2>2. c = EndOp(Commit(page, o.url, rp, v), o) BY <1>5, <2>1
  <2>3. o.url \in Link /\ o.url # NoUrl BY <1>1
  <2> QED BY <1>0, <1>2, <1>3, <1>6, <2>2, <2>3, CommitLands
<1> QED BY <1>8, <1>9, <1>10, <1>11 DEF AnswerNavigation

LEMMA AnswerPostHolds ==
  ASSUME Kept, Whole(page), Waiting(page), NEW o \in page.ops, Owns(page, o), o.kind = "post",
         NEW c \in AnswerPost(page, o)
  PROVE  Whole(c)
<1>0. /\ server \in Nat /\ Form(page) /\ Carried(page) /\ Owed(page) /\ (Awake(page) => Steady(page))
      /\ o \in Operation /\ o.seq = page.active /\ ~o.aborted /\ Unique(page)
  BY DEF Kept, Inv, Sound, Base, Tracked, Form, Typed, Page, Owns
<1>1. o.truth \in Link /\ o.truth # NoUrl BY <1>0 DEF Form, RealOps, Operation
<1>2. o.seq # page.carrier BY <1>0 DEF Carried
<1>3. Awake(page) => Loose(page) /\ page.pushRecovery = {} /\ \A t \in page.timers : t.kind # "stage"
  BY <1>0, WaitingIs
<1>4. PICK yes \in BOOLEAN, no \in BOOLEAN : yes = TRUE /\ no = FALSE OBVIOUS
<1>5. yes \in BOOLEAN /\ no \in BOOLEAN OBVIOUS
<1>6. CASE c = EndOp(Fallback(page, o.truth, FALSE, o.truth), o)
  <2>1. c = EndOp(Fallback(page, o.truth, no, o.truth), o) BY <1>4, <1>6
  <2>2. Tells(page, c) /\ Mended(c) /\ Still(page, c) BY <1>0, <1>1, <1>2, <1>5, <2>1, FallbackLands
  <2> QED BY <2>2, TellsWhole
<1>7. CASE c = EndOp(CommitFails(page, o), o)
  <2>1. PICK s : s = Selected(page, o.truth, no) OBVIOUS
  <2>2. Form(s) /\ Alike(page, s) /\ Tells(page, s) /\ Still(page, s)
    <3>1. Form(s) /\ Alike(page, s) /\ s.shown = page.shown /\ s.leaving = page.leaving
      BY <1>0, <1>1, <1>5, <2>1, SelectedIs
    <3>2. Tells(page, s) BY <1>0, <1>1, <1>5, <2>1, SelectedTells
    <3>3. Still(page, s) BY <3>1, SelectedStill
    <3> QED BY <3>1, <3>2, <3>3
  <2>3. o \in s.ops /\ o.seq # s.carrier BY <1>2, <2>2 DEF Alike
  <2>4. c = EndOp(Fallback(s, o.truth, yes, o.truth), o)
    <3>1. CommitFails(page, o) = Fallback(s, o.truth, yes, o.truth) BY <1>4, <2>1 DEF CommitFails
    <3> QED BY <1>7, <3>1
  <2>5. Tells(s, c) /\ Mended(c) /\ Still(s, c) BY <1>1, <1>5, <2>2, <2>3, <2>4, FallbackLands
  <2>6. Tells(page, c) BY <2>2, <2>5, TellsTrans
  <2>7. Still(page, c) BY <2>2, <2>5, StillTrans
  <2> QED BY <2>5, <2>6, <2>7, TellsWhole
<1>8. PICK e : e = EndOp(page, o) OBVIOUS
<1>9. Form(e) /\ Still(page, e) /\ e.active = 0 BY <1>0, <1>2, <1>8, EndOpForm
<1>10. Tells(page, e)
  <2>1. \A x \in page.ops : x.seq = o.seq => x.trav = o.trav BY <1>0 DEF Unique
  <2> QED BY <1>0, <1>2, <1>8, <2>1, EndOpTells
<1>11. CASE c = RecoverCommitted(EndOp(page, o), o.truth)
  <2>1. c = RecoverCommitted(e, o.truth) BY <1>8, <1>11
  <2>2. Tells(e, c) /\ \E q \in c.ops : Mender(c, q) BY <1>0, <1>1, <1>9, <2>1, RecoverTells
  <2>3. Mended(c) BY <2>2, MenderMends
  <2>4. Still(e, c) BY <1>0, <1>1, <1>9, <2>1, RecoverCommittedIs
  <2>5. Tells(page, c) BY <1>10, <2>2, TellsTrans
  <2>6. Still(page, c) BY <1>9, <2>4, StillTrans
  <2> QED BY <2>3, <2>5, <2>6, TellsWhole
<1>12. ASSUME NEW u \in Url, NEW safe \in BOOLEAN, c = Navigate(EndOp(page, o), u, FALSE, 0, o.truth, safe)
       PROVE  Whole(c)
  <2>1. u \in Link /\ u # NoUrl BY NavigationAssumption DEF Link
  <2>2. PICK z \in Nat : z = 0 OBVIOUS
  <2>3. z \in Nat /\ safe \in BOOLEAN /\ no \in BOOLEAN /\ (z # 0 => \A q \in e.ops : q.trav # z) BY <2>2
  <2>4. Kind(e) # "post" BY <1>9, ActiveIs DEF Form
  <2>5. c = Navigate(e, u, no, z, o.truth, safe) BY <1>4, <1>8, <1>12, <2>2
  <2>6. PICK h \in Link : h = o.truth /\ h # NoUrl /\ h = (IF o.truth # NoUrl THEN o.truth ELSE Rec(e)) BY <1>1
  <2>7. Tells(e, c) /\ Goes(e, c, z, h) /\ Still(e, c) BY <1>0, <1>1, <1>9, <2>1, <2>3, <2>4, <2>5, <2>6, NavigateTells
  <2>8. Mended(c) BY <2>6, <2>7, GoesMends
  <2>9. Tells(page, c) BY <1>10, <2>7, TellsTrans
  <2>10. Still(page, c) BY <1>9, <2>7, StillTrans
  <2> QED BY <2>8, <2>9, <2>10, TellsWhole
<1>13. CASE c = EndOp(Commit(page, o.truth, FALSE, server), o)
  <2>1. c = EndOp(Commit(page, o.truth, no, server), o) BY <1>4, <1>13
  <2> QED BY <1>0, <1>1, <1>2, <1>3, <1>5, <2>1, CommitLands
<1>14. PICK N : N = {Navigate(EndOp(page, o), n[1], FALSE, 0, o.truth, n[2]) : n \in Url \X BOOLEAN} OBVIOUS
<1>15. ASSUME c \in N PROVE Whole(c)
  <2>1. PICK n \in Url \X BOOLEAN : c = Navigate(EndOp(page, o), n[1], FALSE, 0, o.truth, n[2]) BY <1>14, <1>15
  <2>2. n[1] \in Url /\ n[2] \in BOOLEAN OBVIOUS
  <2> QED BY <1>12, <2>1, <2>2
<1>16. AnswerPost(page, o) =
         {EndOp(Fallback(page, o.truth, FALSE, o.truth), o)}
         \cup (IF ~InPlace(page, o) \/ ~o.served THEN {}
               ELSE {EndOp(CommitFails(page, o), o), RecoverCommitted(EndOp(page, o), o.truth)} \cup N
                    \cup (IF Commits(page, o) THEN {EndOp(Commit(page, o.truth, FALSE, server), o)} ELSE {}))
  BY <1>14 DEF AnswerPost
<1> HIDE <1>14
<1>17. \/ c = EndOp(Fallback(page, o.truth, FALSE, o.truth), o)
       \/ c = EndOp(CommitFails(page, o), o) \/ c = RecoverCommitted(EndOp(page, o), o.truth)
       \/ c \in N
       \/ c = EndOp(Commit(page, o.truth, FALSE, server), o)
  <2>1. PICK x1, x2, x3, x4 : /\ x1 = EndOp(Fallback(page, o.truth, FALSE, o.truth), o)
                              /\ x2 = EndOp(CommitFails(page, o), o)
                              /\ x3 = RecoverCommitted(EndOp(page, o), o.truth)
                              /\ x4 = EndOp(Commit(page, o.truth, FALSE, server), o)
    OBVIOUS
  <2>2. c \in {x1} \cup (IF ~InPlace(page, o) \/ ~o.served THEN {}
                         ELSE {x2, x3} \cup N \cup (IF Commits(page, o) THEN {x4} ELSE {}))
    BY <1>16, <2>1
  <2>3. c = x1 \/ c = x2 \/ c = x3 \/ c \in N \/ c = x4 BY <2>2
  <2> QED BY <2>1, <2>3
<1> QED BY <1>6, <1>7, <1>11, <1>13, <1>15, <1>17

LEMMA ArriveHolds ==
  ASSUME Kept, Whole(page), NEW o \in page.ops, Arrive(o)
  PROVE  Whole(page')
<1>1. CASE ~Owns(page, o) BY <1>1, ObsoleteHolds
<1>2. CASE Owns(page, o)
  <2>1. Waiting(page) BY <1>2 DEF Arrive, Waiting, Unprompted
  <2>2. CASE o.kind = "nav"
    <3>1. page' \in AnswerNavigation(page, o) BY <1>2, <2>2 DEF Arrive
    <3> QED BY <1>2, <2>1, <2>2, <3>1, AnswerNavigationHolds
  <2>3. CASE o.kind = "post"
    <3>1. page' \in AnswerPost(page, o) BY <1>2, <2>3 DEF Arrive
    <3> QED BY <1>2, <2>1, <2>3, <3>1, AnswerPostHolds
  <2> QED BY <2>2, <2>3 DEF Arrive
<1> QED BY <1>1, <1>2

-----------------------------------------------------------------------------
(* The theorems.                                                           *)

LEMMA InitWhole ==
  ASSUME Init
  PROVE  Whole(page)
<1>1. PICK n \in 1..MaxEntries : \E urls \in [1..n -> Url], cur \in 1..n :
         page = Loaded([i \in 1..n |-> [url |-> urls[i], id |-> i]], cur, 0)
  BY DEF Init
<1>2. PICK urls \in [1..n -> Url], cur \in 1..n :
         page = Loaded([i \in 1..n |-> [url |-> urls[i], id |-> i]], cur, 0)
  BY <1>1
<1>3. PICK es : es = [i \in 1..n |-> [url |-> urls[i], id |-> i]] OBVIOUS
<1>4. n \in Nat BY NavigationAssumption
<1>5. \A i \in 1..n : [url |-> urls[i], id |-> i] \in Entry
  BY <1>4, NavigationAssumption DEF Entry, Link
<1>6. es \in Seq(Entry) /\ DOMAIN es = 1..n BY <1>3, <1>4, <1>5
<1>7. PICK z \in Nat : z = 0 OBVIOUS
<1>8. Whole(Loaded(es, cur, z)) BY <1>6, LoadedWhole
<1> QED BY <1>2, <1>3, <1>7, <1>8

LEMMA NextWhole ==
  ASSUME Kept, Whole(page), [Next]_vars
  PROVE  Whole(page')
<1>1. CASE User
  BY <1>1, ClickHolds, NativeActivationHolds, PolicyActivationHolds, AuxiliaryClickHolds, SubmitHolds,
     ScrollHolds, CloseHolds, TraverseHolds DEF User
<1>2. CASE Answers BY <1>2, ArriveHolds, RecoveryTimerHolds DEF Answers
<1>3. CASE Timers
  BY <1>3, NativeTimerHolds, TraversalTimerHolds, StageTimerHolds, ForwardTimerHolds DEF Timers
<1>4. CASE Rest \/ UNCHANGED vars
  <2>1. page' = page BY <1>4 DEF Rest, vars
  <2> QED BY <2>1
<1> QED BY <1>1, <1>2, <1>3, <1>4, ServeHolds, JumpHolds, AcceptHolds, RefuseHolds, LoadHolds, CheckHolds DEF Next

\* Until the page is given up: the runtime's truth is the URL of the displayed document, and every observer,
\* rollback and timer would restore just that; while the selected entry has another URL, an operation, a
\* prompt, a timer or an arrival to come sets it right; and a traversal that is open is still requested,
\* repeated or rolled back (repairDisplayedTruth, its callers and its observers).
THEOREM TruthRestored == Spec => [](Kept /\ Whole(page))
<1>1. Init => Kept /\ Whole(page) BY InitTracks, InitWhole
<1>2. (Kept /\ Whole(page)) /\ [Next]_vars => (Kept /\ Whole(page))' BY NextTracks, NextWhole
<1> QED BY <1>1, <1>2, PTL DEF Spec

\* nothing is left to correct once nothing is under way
LEMMA QuietCoherent ==
  ASSUME Kept, Whole(page), Quiet, Awake(page)
  PROVE  InTruth /\ Settled
<1>1. /\ \A o \in page.ops : o.kind = "idle"
      /\ page.departure = {} /\ page.prompted = <<>> /\ page.timers = {} /\ page.jumps = <<>>
  BY DEF Quiet
<1>2. Form(page) /\ Steady(page) /\ Owed(page) BY DEF Kept, Inv, Sound, Tracked
<1>3. Faithful(page) /\ Turned(page) /\ Mended(page) BY DEF Whole
<1>4. Waiting(page) BY <1>1 DEF Waiting
<1>5. /\ page.mutationRecovery = {} /\ page.pushRecovery = {} /\ page.supersession = {} /\ Loose(page)
  BY <1>2, <1>4, WaitingIs
<1>6. \A x : ~Watching(page, x) BY <1>5 DEF Watching, Loose, Unasked, Elements
<1>7. ~Delayed(page) BY <1>1 DEF Delayed
<1>8. \A o \in page.ops : ~Mender(page, o) BY <1>1, <1>2 DEF Mender, Form, Natives
<1>9. Href(page) = page.truthUrl BY <1>3, <1>5, <1>6, <1>7, <1>8 DEF Mended, Pending
<1>10. page.truthUrl = page.shown.url BY <1>3 DEF Faithful, Truthful
<1>11. ~page.traversing
  <2>1. ~Requesting(page) BY <1>1 DEF Requesting
  <2>2. ~Reloading(page) BY <1>6, <1>7 DEF Reloading
  <2> QED BY <1>3, <1>5, <2>1, <2>2 DEF Turned
<1>12. page.active = 0 \/ Rec(page) # NoUrl
  <2>1. CASE page.active # 0
    <3>1. PICK o \in page.ops : o.seq = page.active /\ Rec(page) = o.rec BY <1>2, <2>1, RecIs DEF Form
    <3>2. o.rec # NoUrl BY <1>1, <1>2 DEF Form, RealOps
    <3> QED BY <3>1, <3>2
  <2> QED BY <2>1
<1> QED BY <1>9, <1>10, <1>11, <1>12 DEF InTruth, Settled

\* Whatever was clicked, submitted, traversed, refused at a prompt or answered late: once nothing is under
\* way, the address bar and the runtime's truth name the displayed document, no traversal is left open, and
\* no operation but one that keeps a recovery (repairDisplayedTruth and its callers).
THEOREM AddressCoherent == Spec => []Coherent
<1>1. Kept /\ Whole(page) => Coherent
  <2> SUFFICES ASSUME Kept, Whole(page) PROVE Coherent OBVIOUS
  <2>1. TypeOK BY TrackedTypes
  <2>2. ASSUME Quiet, page.life = "active", ~page.lapsed PROVE InTruth /\ Settled
    <3>1. ~page.leaving BY <2>2 DEF Kept, Tracked, Quiet
    <3>2. Awake(page) BY <2>2, <3>1 DEF Awake, Off
    <3> QED BY <2>2, <3>2, QuietCoherent
  <2> QED BY <2>1, <2>2 DEF Coherent
<1>2. Spec => [](Kept /\ Whole(page)) BY TruthRestored
<1> QED BY <1>1, <1>2, PTL

===============================================================================
