----------------------------- MODULE ServerProofs -----------------------------
(***************************************************************************)
(* Theorems about the two halves of the application server, which share no  *)
(* state: the action server (ActionServer), for every number of requests,   *)
(* limits, lifetimes and bounds, and the response of a page                 *)
(* (DocumentResponse), for any keys, readers and limits.                    *)
(***************************************************************************)
EXTENDS ActionServer, DocumentResponse, FiniteSetTheorems, TLAPS

-----------------------------------------------------------------------------
(* Types.  The sets of names are kept closed in most proofs.                 *)

Flags == BOOLEAN
Places == {"idle", "page", "body", "run", "stream"}
Openings == {"none", "missing", "valid", "renew"}
Outcomes == {"none", "failure", "error", "document", "redirect"}
Identities == [n : 1..MaxSession, createdAt : 0..MaxTime]
Live == [id : Identities, values : 0..MaxProof]
Progress ==
  [at : Places, startedAt : Nat, opened : Openings, initial : Live \cup {NoSession},
   current : 0..MaxProof, dirty : Flags, rotated : Flags, publication : Live \cup {NoSession},
   proof : 0..MaxProof, outcome : Outcomes]

LEMMA Names ==
  /\ TRUE \in Flags /\ FALSE \in Flags
  /\ "idle" \in Places /\ "page" \in Places /\ "body" \in Places /\ "run" \in Places
  /\ "stream" \in Places
  /\ "none" \in Openings /\ "missing" \in Openings /\ "valid" \in Openings /\ "renew" \in Openings
  /\ "none" \in Outcomes /\ "failure" \in Outcomes /\ "error" \in Outcomes
  /\ "document" \in Outcomes /\ "redirect" \in Outcomes
BY DEF Flags, Places, Openings, Outcomes

LEMMA IdleType ==
  /\ Idle \in Progress /\ NoSession \in Sessions
  /\ Idle.at = "idle" /\ Idle.initial = NoSession /\ Idle.publication = NoSession
  /\ Idle.current = 0 /\ Idle.proof = 0 /\ Idle.startedAt = 0
  /\ NoSession.values = 0 /\ NoSession \notin Live
<1>1. 0 \in 0..MaxProof /\ 0 \in 0..MaxSession /\ 0 \in 0..MaxTime /\ 0 \in Nat
  BY ActionAssumption
<1>2. Idle \in Progress
  BY <1>1, Names DEF Idle, Progress
<1>3. NoSession \in Sessions /\ NoSession \notin Live
  BY <1>1 DEF NoSession, Sessions, Live, Identities
<1> QED
  BY <1>2, <1>3 DEF Idle, NoSession

\* The record a step leaves in its slot.
LEMMA Slots ==
  ASSUME slot \in [Slot -> Progress], NEW s \in Slot, NEW r \in Progress, slot' = [slot EXCEPT ![s] = r]
  PROVE slot' \in [Slot -> Progress] /\ slot'[s] = r /\ \A u \in Slot : u # s => slot'[u] = slot[u]
OBVIOUS

LEMMA RunningType ==
  ASSUME NEW r \in Progress
  PROVE LET x == [r EXCEPT !.at = "run", !.startedAt = 0]
        IN x \in Progress /\ x.at = "run" /\ x.startedAt = 0 /\ x.initial = r.initial /\ x.current = r.current
           /\ x.publication = r.publication /\ x.proof = r.proof
BY Names DEF Progress

LEMMA WrittenType ==
  ASSUME NEW r \in Progress
  PROVE LET x == [r EXCEPT !.current = r.proof, !.dirty = TRUE]
        IN x \in Progress /\ x.at = r.at /\ x.startedAt = r.startedAt /\ x.initial = r.initial /\ x.current = r.proof
           /\ x.publication = r.publication /\ x.proof = r.proof /\ x.dirty
BY Names DEF Progress

LEMMA RotatedType ==
  ASSUME NEW r \in Progress
  PROVE LET x == [r EXCEPT !.rotated = TRUE, !.dirty = TRUE]
        IN x \in Progress /\ x.at = r.at /\ x.startedAt = r.startedAt /\ x.initial = r.initial /\ x.current = r.current
           /\ x.publication = r.publication /\ x.proof = r.proof /\ x.dirty
BY Names DEF Progress

LEMMA DiscardedType ==
  ASSUME NEW r \in Progress, NEW o \in Outcomes, NEW c \in 0..MaxProof, NEW q \in Live \cup {NoSession}
  PROVE LET x == [r EXCEPT !.at = "page", !.outcome = o, !.current = c, !.dirty = FALSE, !.rotated = FALSE,
                           !.publication = q]
        IN x \in Progress /\ x.at = "page" /\ x.startedAt = r.startedAt /\ x.initial = r.initial /\ x.current = c
           /\ x.publication = q /\ x.proof = r.proof
BY Names DEF Progress

LEMMA PublishedType ==
  ASSUME NEW r \in Progress, NEW o \in Outcomes, NEW q \in Live \cup {NoSession}
  PROVE LET x == [r EXCEPT !.at = "page", !.outcome = o, !.dirty = FALSE, !.rotated = FALSE, !.publication = q]
        IN x \in Progress /\ x.at = "page" /\ x.startedAt = r.startedAt /\ x.initial = r.initial /\ x.current = r.current
           /\ x.publication = q /\ x.proof = r.proof
BY Names DEF Progress

LEMMA StreamedType ==
  ASSUME NEW r \in Progress
  PROVE LET x == [r EXCEPT !.at = "stream"]
        IN x \in Progress /\ x.at = "stream" /\ x.startedAt = r.startedAt /\ x.initial = r.initial
           /\ x.current = r.current /\ x.publication = r.publication /\ x.proof = r.proof
BY Names DEF Progress

-----------------------------------------------------------------------------
(* The inductive invariant. *)

Issue == [session : Identities, issuedAt : 0..MaxTime, process : 0..MaxRestart, key : Nat]
Clocks ==
  /\ now \in 0..MaxTime /\ process \in 0..MaxRestart /\ sessions \in 0..MaxSession
  /\ keyring.active \in Nat /\ keyring.active \in keyring.byId
Issued ==
  /\ proofs \in Seq(Issue) /\ Len(proofs) <= MaxProof
  /\ \A p \in 1..Len(proofs) : proofs[p].process <= process

\* the session a response leaves in the browser
Displayed(r) == IF r.publication # NoSession THEN r.publication ELSE r.initial

\* A buffer holds what its action wrote, or what was there; only a page and its document have a session to
\* publish; nothing a failed action wrote is carried.
Handled(r) ==
  /\ r.startedAt \in 0..now /\ r.proof \in 0..Len(proofs)
  /\ r.at # "idle" => r.initial \in Live
  /\ r.at \in {"body", "run"} => r.proof # 0
  /\ r.at \notin {"page", "stream"} => r.publication = NoSession
  /\ r.at = "run" => /\ r.current = r.initial.values \/ r.current = r.proof
                     /\ ~r.dirty => r.current = r.initial.values
  /\ r.at # "run" /\ r.publication = NoSession => r.current = r.initial.values
  /\ Clean(r.initial.values) /\ Clean(r.publication.values)

Requests ==
  /\ slot \in [Slot -> Progress] /\ \A s \in Slot : Handled(slot[s])
Jar ==
  /\ jar = NoCookie \/ jar.session \in Live
  /\ Clean(jar.session.values) /\ held \subseteq 1..Len(proofs) /\ replaced \subseteq Slot

Base == Clocks /\ Issued /\ Jar /\ Requests

\* What a step may do to what the others rely on.
Grows ==
  /\ now \in 0..now' /\ travels \subseteq travels'
  /\ Len(proofs) <= Len(proofs)' /\ Len(proofs)' \in Nat
  /\ \A p \in 1..Len(proofs) : proofs'[p] = proofs[p]

LEMMA HandledGrows ==
  ASSUME Clocks, Issued, Clocks', Grows, NEW r, Handled(r)
  PROVE Handled(r)'
<1>1. now \in Nat /\ now' \in Nat /\ now <= now' /\ Len(proofs) \in Nat /\ Len(proofs)' \in Nat
  BY ActionAssumption DEF Clocks, Issued, Grows
<1>2. r.startedAt \in 0..now' /\ r.proof \in 0..Len(proofs)'
  BY <1>1 DEF Handled, Grows
<1>3. Clean(r.initial.values)' /\ Clean(r.publication.values)'
  BY DEF Handled, Grows, Clean
<1> QED
  BY <1>2, <1>3, Zenon DEF Handled

\* A request goes on alone: the others keep what they have.
LEMMA RequestStep ==
  ASSUME Base, Clocks', Grows, NEW s \in Slot, NEW r \in Progress, slot' = [slot EXCEPT ![s] = r], Handled(r)'
  PROVE Requests'
<1>1. slot' \in [Slot -> Progress] /\ slot'[s] = r /\ \A u \in Slot : u # s => slot'[u] = slot[u]
  BY Slots DEF Base, Requests
<1>2. \A u \in Slot : u # s => Handled(slot[u])'
  <2> SUFFICES ASSUME NEW u \in Slot, u # s PROVE Handled(slot[u])'
    OBVIOUS
  <2>1. PICK x : x = slot[u]
    OBVIOUS
  <2>2. Handled(x)'
    BY <2>1, HandledGrows DEF Base, Requests
  <2> QED
    BY <1>1, <2>1, <2>2
<1>3. Handled(slot[s])'
  BY <1>1
<1> QED
  BY <1>1, <1>2, <1>3, Zenon DEF Requests

\* Steps that leave the requests and the browser alone.
LEMMA OthersStep ==
  ASSUME Base, Clocks', Grows, UNCHANGED <<slot, browser>>
  PROVE Requests' /\ Jar'
<1>1. slot' = slot /\ jar' = jar /\ held' = held /\ replaced' = replaced
  BY DEF browser
<1>2. \A u \in Slot : Handled(slot[u])'
  <2> SUFFICES ASSUME NEW u \in Slot PROVE Handled(slot[u])'
    OBVIOUS
  <2>1. PICK x : x = slot[u]
    OBVIOUS
  <2>2. Handled(x)'
    BY <2>1, HandledGrows DEF Base, Requests
  <2> QED
    BY <1>1, <2>1, <2>2
<1>3. Requests'
  BY <1>1, <1>2 DEF Base, Requests
<1>4. Jar'
  BY <1>1 DEF Base, Jar, Clean, Grows, Issued
<1> QED
  BY <1>3, <1>4

\* What a response carries is a session of the server's, and nothing a failed action wrote.
LEMMA CookieType ==
  ASSUME Base, NEW s \in Slot, slot[s].at # "idle", slot[s].at = "run" => ~slot[s].dirty, Cookie(s) # NoCookie
  PROVE Cookie(s).session \in Live /\ Clean(Cookie(s).session.values)
        /\ Cookie(s).session.id = Displayed(slot[s]).id
<1> DEFINE r == slot[s]
<1>1. r \in Progress /\ Handled(r)
  BY DEF Base, Requests
<1> HIDE DEF r
<1>2. /\ r.publication # NoSession => r.publication \in Live
      /\ r.initial \in Live /\ r.current \in 0..MaxProof
  BY <1>1 DEF Progress, Handled, r
<1>3. r.publication = NoSession => r.current = r.initial.values
  BY <1>1 DEF Handled, r
<1>4. [r.initial EXCEPT !.values = r.current] \in Live /\ [r.initial EXCEPT !.values = r.current].id = r.initial.id
      /\ [r.initial EXCEPT !.values = r.current].values = r.current
  BY <1>2 DEF Live
<1>5. CASE r.publication # NoSession
  BY <1>1, <1>2, <1>5 DEF Cookie, Sealed, Displayed, Handled, r
<1>6. CASE r.publication = NoSession /\ r.opened = "renew"
  <2>1. Cookie(s) = Sealed([r.initial EXCEPT !.values = r.current])
    BY <1>6 DEF Cookie, r
  <2>2. Clean(r.current)
    BY <1>1, <1>3, <1>6 DEF Handled
  <2>3. Cookie(s).session = [r.initial EXCEPT !.values = r.current]
    BY <2>1 DEF Sealed
  <2>4. Displayed(slot[s]) = r.initial
    BY <1>6 DEF Displayed, r
  <2> QED
    BY <1>4, <2>2, <2>3, <2>4
<1>7. CASE r.publication = NoSession /\ r.opened # "renew"
  <2>1. Cookie(s) = Sealed(r.initial)
    BY <1>7 DEF Cookie, r
  <2> QED
    BY <1>1, <1>2, <1>7, <2>1 DEF Sealed, Displayed, Handled, r
<1> QED
  BY <1>5, <1>6, <1>7

\* The cookie of a response is a session of the server's, and nothing a failed action wrote.
LEMMA CookieStep ==
  ASSUME Base, Clocks', Grows, NEW s \in Slot, SetsCookie(s), slot[s].at # "idle", slot[s].at = "run" => ~slot[s].dirty,
         replaced' \subseteq Slot
  PROVE Jar'
<1>1. jar' = (IF Cookie(s) = NoCookie THEN jar ELSE Cookie(s)) /\ held' = held
  BY DEF SetsCookie, Left
<1>2. jar' = jar \/ (jar'.session \in Live /\ Clean(jar'.session.values))
  BY <1>1, CookieType
<1>3. jar' = NoCookie \/ jar'.session \in Live
  BY <1>2 DEF Base, Jar
<1>4. Clean(jar.session.values)'
  BY <1>2 DEF Base, Jar, Clean, Grows
<1>5. held' \subseteq 1..Len(proofs)'
  BY <1>1 DEF Base, Jar, Grows, Issued
<1> QED
  BY <1>3, <1>4, <1>5 DEF Jar

LEMMA OvertakenType ==
  ASSUME Base, NEW s \in Slot
  PROVE Overtaken(s) \subseteq Slot /\ replaced \subseteq Slot
BY DEF Base, Jar, Overtaken

\* The end of a request keeps what holds of requests and browser.
LEMMA AnswerStep ==
  ASSUME Base, Clocks', Grows, NEW s \in Slot, Answer(s), slot[s].at # "idle", slot[s].at = "run" => ~slot[s].dirty
  PROVE Requests' /\ Jar'
<1>1. Handled(Idle)'
  <2>1. Clean(0)'
    BY DEF Clean
  <2>2. 0 \in 0..now' /\ 0 \in 0..Len(proofs)'
    BY ActionAssumption DEF Clocks, Grows
  <2> QED
    BY <2>1, <2>2, IdleType, Zenon DEF Handled
<1>2. Requests'
  BY <1>1, IdleType, RequestStep DEF Answer
<1>3. CASE UNCHANGED <<jar, held>> /\ replaced' = replaced \ {s}
  BY <1>2, <1>3 DEF Base, Jar, Clean, Grows, Issued
<1>4. CASE SetsCookie(s) /\ replaced' = Overtaken(s)
  BY <1>2, <1>4, CookieStep, OvertakenType
<1> QED
  BY <1>2, <1>3, <1>4 DEF Answer

-----------------------------------------------------------------------------
(* One lemma per operation. *)

\* What a step that issues no form and lets no time pass leaves alone.
LEMMA Still ==
  ASSUME Base, UNCHANGED <<now, process, keyring, proofs>>, sessions' \in 0..MaxSession, travels \subseteq travels'
  PROVE Clocks' /\ Issued' /\ Grows
<1>1. now \in Nat /\ Len(proofs) \in Nat
  BY ActionAssumption DEF Base, Clocks, Issued
<1> QED
  BY <1>1 DEF Base, Clocks, Issued, Grows

LEMMA OpenKeeps ==
  ASSUME Base, NEW s \in Slot, NEW p \in held \cup {0}, Open(s, p)
  PROVE Base'
<1>1. /\ now \in 0..MaxTime /\ now \in Nat /\ sessions \in 0..MaxSession /\ MaxSession \in Nat /\ MaxProof \in Nat
      /\ Len(proofs) \in Nat /\ Len(proofs) <= MaxProof
  BY ActionAssumption DEF Base, Clocks, Issued
<1>2. p \in 0..Len(proofs) /\ p \in 0..MaxProof
  BY <1>1 DEF Base, Jar
<1>3. /\ slot[s].at = "idle" /\ Status(jar) \in {"missing", "valid", "renew"}
      /\ Status(jar) = "missing" => sessions < MaxSession
      /\ sessions' = IF Status(jar) = "missing" THEN sessions + 1 ELSE sessions
      /\ UNCHANGED <<now, server, ledger, proofs, browser, history>>
  BY DEF Open
<1>4. Clocks' /\ Issued' /\ Grows
  <2>1. sessions' \in 0..MaxSession
    BY <1>1, <1>3
  <2> QED
    BY <1>3, <2>1, Still DEF server, history
<1>5. Status(jar) # "missing" => jar.session \in Live
  BY DEF Status, Base, Jar
<1>6. PICK a, t, o, i, c : /\ o = Status(jar) /\ a = (IF p = 0 THEN "page" ELSE "body") /\ t = (IF p = 0 THEN 0 ELSE now)
                        /\ i = (IF Status(jar) = "missing" THEN NewSession(0) ELSE jar.session)
                        /\ c = (IF Status(jar) = "missing" THEN 0 ELSE jar.session.values)
  OBVIOUS
<1>7. a \in Places /\ a \in {"page", "body"} /\ (a = "body" => p # 0) /\ t \in Nat /\ t \in 0..now
  BY <1>1, <1>6 DEF Places
<1>8. i \in Live /\ c \in 0..MaxProof /\ i.values = c /\ Clean(c)
  <2>1. CASE Status(jar) = "missing"
    <3>1. sessions + 1 \in 1..MaxSession /\ 0 \in 0..MaxProof
      BY <1>1, <1>3, <2>1
    <3> QED
      BY <1>1, <1>6, <2>1, <3>1 DEF NewSession, Live, Identities, Clean
  <2>2. CASE Status(jar) # "missing"
    BY <1>5, <1>6, <2>2 DEF Live, Base, Jar
  <2> QED
    BY <2>1, <2>2
<1>9. o \in Openings
  BY <1>3, <1>6 DEF Openings
<1>10. PICK r : r = [Idle EXCEPT !.at = a, !.proof = p, !.startedAt = t, !.opened = o, !.initial = i, !.current = c]
  OBVIOUS
<1>11. r \in Progress /\ r.at = a /\ r.startedAt = t /\ r.initial = i /\ r.current = c
       /\ r.publication = NoSession /\ r.proof = p
  BY <1>2, <1>7, <1>8, <1>9, <1>10, IdleType DEF Progress
<1>12. slot' = [slot EXCEPT ![s] = r]
  BY <1>6, <1>10 DEF Open
<1>13. Handled(r)
  BY <1>2, <1>7, <1>8, <1>11, IdleType DEF Handled, Clean
<1>14. Handled(r)'
  BY <1>4, <1>13, HandledGrows DEF Base
<1>15. Requests'
  BY <1>4, <1>11, <1>12, <1>14, RequestStep
<1>16. Jar'
  BY <1>3 DEF browser, history, Base, Jar, Clean
<1> QED
  BY <1>4, <1>15, <1>16 DEF Base

LEMMA RefuseSessionKeeps ==
  ASSUME Base, RefuseSession
  PROVE Base'
<1>1. Clocks' /\ Issued' /\ Grows
  BY Still DEF RefuseSession, server, history, Base, Clocks
<1>2. Requests'
  <2>1. slot' = slot /\ proofs' = proofs /\ now' = now /\ travels' = travels
    BY DEF RefuseSession, history
  <2> QED
    BY <2>1 DEF Base, Requests, Handled, Displayed, Clean
<1>3. Jar'
  BY IdleType DEF RefuseSession, history, Base, Jar, Clean, NoCookie
<1> QED
  BY <1>1, <1>2, <1>3 DEF Base

\* Refused bodies, refused authorizations and pages end their request.
LEMMA EndKeeps ==
  ASSUME Base, NEW s \in Slot, Answer(s),
         slot[s].at # "idle", slot[s].at = "run" => ~slot[s].dirty,
         UNCHANGED <<now, server, proofs, sessions, travels>>
  PROVE Base'
<1>1. Clocks' /\ Issued' /\ Grows
  BY Still DEF server, Base, Clocks
<1>2. Requests' /\ Jar'
  BY <1>1, AnswerStep
<1> QED
  BY <1>1, <1>2 DEF Base

\* The end of a document changes nothing in the browser.
LEMMA DocumentEnds ==
  ASSUME Base, NEW s \in Slot, End(s)
  PROVE Base'
<1>1. Answer(s) /\ slot[s].at = "stream" /\ UNCHANGED <<now, server, proofs, sessions, travels>>
  BY DEF End, Answer, history
<1> QED
  BY <1>1, EndKeeps

\* A page becomes a document.
LEMMA StreamsKeeps ==
  ASSUME Base, NEW s \in Slot, slot[s].at = "page", Streams(s),
         UNCHANGED <<now, server, proofs, sessions, travels>>
  PROVE Base'
<1>1. Clocks' /\ Issued' /\ Grows
  BY Still DEF server, Base, Clocks
<1>2. PICK x : x = slot[s]
  OBVIOUS
<1>3. x \in Progress /\ Handled(x) /\ x.at = "page"
  BY <1>2 DEF Base, Requests
<1>4. PICK r : r = [x EXCEPT !.at = "stream"]
  OBVIOUS
<1>5. r \in Progress /\ r.at = "stream" /\ r.startedAt = x.startedAt /\ r.initial = x.initial
      /\ r.current = x.current /\ r.publication = x.publication /\ r.proof = x.proof
  BY <1>3, <1>4, StreamedType
<1>6. slot' = [slot EXCEPT ![s] = r]
  BY <1>2, <1>4 DEF Streams, Base, Requests
<1>7. Handled(r)
  BY <1>3, <1>5 DEF Handled
<1>8. Handled(r)'
  BY <1>1, <1>7, HandledGrows DEF Base
<1>9. Requests'
  BY <1>1, <1>5, <1>6, <1>8, RequestStep
<1>10. Jar'
  BY <1>1, CookieStep, OvertakenType DEF Streams
<1> QED
  BY <1>1, <1>9, <1>10 DEF Base

LEMMA BoundaryKeeps ==
  ASSUME Base, NEW s \in Slot, Boundary(s)
  PROVE Base'
<1>1. slot[s].at = "body" /\ UNCHANGED <<now, server, proofs, sessions, travels>>
  BY DEF Boundary
<1>2. CASE Answer(s)
  BY <1>1, <1>2, EndKeeps
<1>3. CASE slot' = [slot EXCEPT ![s].at = "run", ![s].startedAt = 0] /\ UNCHANGED browser
  <2>1. Clocks' /\ Issued' /\ Grows
    BY <1>1, Still DEF server, Base, Clocks
  <2>2. PICK x : x = slot[s]
    OBVIOUS
  <2>3. PICK r : r = [x EXCEPT !.at = "run", !.startedAt = 0]
    OBVIOUS
  <2>4. x \in Progress /\ Handled(x) /\ x.at = "body"
    BY <1>1, <2>2 DEF Base, Requests
  <2>5. r \in Progress /\ r.at = "run" /\ r.startedAt = 0 /\ r.initial = x.initial /\ r.current = x.current
        /\ r.publication = x.publication /\ r.proof = x.proof
    BY <2>3, <2>4, RunningType
  <2>6. slot' = [slot EXCEPT ![s] = r]
    BY <1>3, <2>2, <2>3 DEF Base, Requests
  <2>7. Handled(r)
    <3>1. 0 \in 0..now
      BY ActionAssumption DEF Base, Clocks
    <3> QED
      BY <2>4, <2>5, <3>1, IdleType DEF Handled, Displayed
  <2>8. Handled(r)'
    BY <2>1, <2>7, HandledGrows DEF Base
  <2>9. Requests'
    BY <2>1, <2>2, <2>5, <2>6, <2>8, RequestStep
  <2> QED
    BY <1>1, <1>3, <2>1, <2>9 DEF Base, Jar, browser, Clean
<1> QED
  BY <1>2, <1>3 DEF Boundary

\* A step of one request that changes its record alone, once the record is shown to be right.
LEMMA AloneKeeps ==
  ASSUME Base, NEW s \in Slot, NEW r \in Progress, slot' = [slot EXCEPT ![s] = r],
         sessions' \in 0..MaxSession, travels \subseteq travels',
         UNCHANGED <<now, server, proofs, browser>>,
         Clocks /\ Clocks' /\ Issued /\ Issued' /\ Grows => Handled(r)'
  PROVE Base'
<1>1. Clocks' /\ Issued' /\ Grows
  BY Still DEF server
<1>2. Requests'
  BY <1>1, RequestStep DEF Base
<1>3. Jar'
  BY DEF browser, Base, Jar, Clean
<1> QED
  BY <1>1, <1>2, <1>3 DEF Base

LEMMA BufferKeeps ==
  ASSUME Base, NEW s \in Slot, Set(s) \/ Rotate(s)
  PROVE Base'
<1>1. slot[s].at = "run" /\ UNCHANGED <<now, server, proofs, sessions, browser, history>>
  BY DEF Set, Rotate
<1>2. PICK x : x = slot[s]
  OBVIOUS
<1>3. x \in Progress /\ Handled(x) /\ x.at = "run"
  BY <1>1, <1>2 DEF Base, Requests
<1>4. sessions' \in 0..MaxSession /\ travels \subseteq travels'
  BY <1>1 DEF Base, Clocks, history
<1>5. CASE Set(s)
  <2>1. PICK r : r = [x EXCEPT !.current = x.proof, !.dirty = TRUE]
    OBVIOUS
  <2>2. r \in Progress /\ r.at = x.at /\ r.startedAt = x.startedAt /\ r.initial = x.initial /\ r.current = x.proof
        /\ r.publication = x.publication /\ r.proof = x.proof /\ r.dirty
    BY <1>3, <2>1, WrittenType
  <2>3. slot' = [slot EXCEPT ![s] = r]
    BY <1>2, <1>5, <2>1 DEF Set, Base, Requests
  <2>4. Handled(r)
    BY <1>3, <2>2 DEF Handled, Displayed
  <2>5. Clocks /\ Clocks' /\ Issued /\ Issued' /\ Grows => Handled(r)'
    BY <2>4, HandledGrows
  <2> QED
    BY <1>1, <1>2, <1>4, <2>2, <2>3, <2>5, AloneKeeps
<1>6. CASE Rotate(s)
  <2>1. PICK r : r = [x EXCEPT !.rotated = TRUE, !.dirty = TRUE]
    OBVIOUS
  <2>2. r \in Progress /\ r.at = x.at /\ r.startedAt = x.startedAt /\ r.initial = x.initial /\ r.current = x.current
        /\ r.publication = x.publication /\ r.proof = x.proof /\ r.dirty
    BY <1>3, <2>1, RotatedType
  <2>3. slot' = [slot EXCEPT ![s] = r]
    BY <1>2, <1>6, <2>1 DEF Rotate, Base, Requests
  <2>4. Handled(r)
    BY <1>3, <2>2 DEF Handled, Displayed
  <2>5. Clocks /\ Clocks' /\ Issued /\ Issued' /\ Grows => Handled(r)'
    BY <2>4, HandledGrows
  <2> QED
    BY <1>1, <1>2, <1>4, <2>2, <2>3, <2>5, AloneKeeps
<1> QED
  BY <1>5, <1>6

LEMMA FailsKeeps ==
  ASSUME Base, NEW s \in Slot, Fails(s)
  PROVE Base'
<1>1. slot[s].at = "run" /\ UNCHANGED <<now, server, proofs, sessions, browser, history>>
  BY DEF Fails
<1>2. PICK x : x = slot[s]
  OBVIOUS
<1>3. x \in Progress /\ Handled(x) /\ x.at = "run"
  BY <1>1, <1>2 DEF Base, Requests
<1>4. sessions' \in 0..MaxSession /\ travels \subseteq travels'
  BY <1>1 DEF Base, Clocks, history
<1>5. PICK o \in Outcomes : slot' = [slot EXCEPT ![s] = Discarded(s, o)]
  BY Zenon, Names DEF Fails
<1>6. PICK c : c = x.initial.values
  OBVIOUS
<1>7. c \in 0..MaxProof /\ x.initial \in Live /\ NoSession \in Live \cup {NoSession}
  BY <1>3, <1>6 DEF Handled, Live
<1>8. PICK r : r = [x EXCEPT !.at = "page", !.outcome = o, !.current = c, !.dirty = FALSE, !.rotated = FALSE,
                             !.publication = NoSession]
  OBVIOUS
<1>9. r \in Progress /\ r.at = "page" /\ r.startedAt = x.startedAt /\ r.initial = x.initial /\ r.current = c
      /\ r.publication = NoSession /\ r.proof = x.proof
  BY <1>3, <1>7, <1>8, Names DEF Progress
<1>10. slot' = [slot EXCEPT ![s] = r]
  BY <1>2, <1>5, <1>6, <1>8 DEF Discarded
<1>11. Handled(r)
  BY <1>3, <1>6, <1>9, IdleType DEF Handled, Displayed, Clean
<1>12. Clocks /\ Clocks' /\ Issued /\ Issued' /\ Grows => Handled(r)'
  BY <1>11, HandledGrows
<1> QED
  BY <1>1, <1>2, <1>4, <1>9, <1>10, <1>12, AloneKeeps

LEMMA SucceedsKeeps ==
  ASSUME Base, NEW s \in Slot, Succeeds(s)
  PROVE Base'
<1>1. slot[s].at = "run" /\ UNCHANGED <<now, server, proofs, browser>> /\ travels' = travels \cup {slot[s].proof}
  BY DEF Succeeds
<1>2. PICK x : x = slot[s]
  OBVIOUS
<1>3. x \in Progress /\ Handled(x) /\ x.at = "run"
  BY <1>1, <1>2 DEF Base, Requests
<1>4. now \in 0..MaxTime /\ sessions \in 0..MaxSession /\ MaxSession \in Nat /\ MaxTime \in Nat
  BY ActionAssumption DEF Base, Clocks
<1>5. sessions' \in 0..MaxSession /\ (x.rotated => sessions + 1 \in 1..MaxSession)
  BY <1>2, <1>4 DEF Succeeds
<1>6. PICK o, q :
        /\ o \in Outcomes
        /\ slot' = [slot EXCEPT ![s].at = "page", ![s].outcome = o,
             ![s].dirty = FALSE, ![s].rotated = FALSE, ![s].publication = q]
        /\ q = IF ~slot[s].dirty THEN NoSession
               ELSE IF slot[s].rotated THEN NewSession(slot[s].current)
               ELSE [slot[s].initial EXCEPT !.values = slot[s].current]
  BY Zenon, Names DEF Succeeds, Committed
<1>7. x.initial \in Live /\ x.current \in 0..MaxProof
  BY <1>3 DEF Handled, Progress
<1>8. /\ x.dirty => q \in Live /\ q.values = x.current
      /\ ~x.dirty => q = NoSession /\ x.current = x.initial.values
  <2>1. CASE ~x.dirty
    BY <1>2, <1>3, <1>6, <2>1 DEF Handled
  <2>2. CASE x.dirty /\ x.rotated
    <3>1. q = NewSession(x.current)
      BY <1>2, <1>6, <2>2
    <3> QED
      BY <1>4, <1>5, <1>7, <2>2, <3>1 DEF NewSession, Live, Identities
  <2>3. CASE x.dirty /\ ~x.rotated
    <3>1. q = [x.initial EXCEPT !.values = x.current]
      BY <1>2, <1>6, <2>3
    <3> QED
      BY <1>7, <2>3, <3>1 DEF Live
  <2> QED
    BY <2>1, <2>2, <2>3
<1>9. Clean(x.current)'
  BY <1>1, <1>2, <1>3 DEF Handled, Clean
<1>10. PICK r : r = [x EXCEPT !.at = "page", !.outcome = o, !.dirty = FALSE, !.rotated = FALSE, !.publication = q]
  OBVIOUS
<1>11. r \in Progress /\ r.at = "page" /\ r.startedAt = x.startedAt /\ r.initial = x.initial /\ r.current = x.current
       /\ r.publication = q /\ r.proof = x.proof
  <2>1. q \in Live \cup {NoSession} /\ o \in Outcomes
    BY <1>6, <1>8
  <2> QED
    BY <1>3, <1>10, <2>1, Names DEF Progress
<1>12. slot' = [slot EXCEPT ![s] = r]
  BY <1>2, <1>6, <1>10 DEF Base, Requests
<1>13. Clocks /\ Clocks' /\ Issued /\ Issued' /\ Grows => Handled(r)'
  <2> SUFFICES ASSUME Clocks, Clocks', Issued, Issued', Grows PROVE Handled(r)'
    OBVIOUS
  <2>1. Handled(x)'
    BY <1>3, HandledGrows
  <2>3. Clean(q.values)'
    BY <1>8, <1>9, IdleType DEF Clean
  <2>4. Clean(x.initial.values)'
    BY <2>1 DEF Handled
  <2>5. r.publication = NoSession => r.current = r.initial.values
    BY <1>8, <1>11, IdleType
  <2> QED
    BY <1>7, <1>11, <2>1, <2>3, <2>4, <2>5 DEF Handled
<1>14. travels \subseteq travels'
  BY <1>1
<1> QED
  BY <1>1, <1>5, <1>11, <1>12, <1>13, <1>14, AloneKeeps

LEMMA OutlivesKeeps ==
  ASSUME Base, NEW s \in Slot, Outlives(s)
  PROVE Base'
<1>1. slot[s].at = "run" /\ UNCHANGED <<now, server, proofs, browser, history>>
  BY DEF Outlives
<1>2. PICK x : x = slot[s]
  OBVIOUS
<1>3. x \in Progress /\ Handled(x) /\ x.at = "run"
  BY <1>1, <1>2 DEF Base, Requests
<1>4. now \in 0..MaxTime /\ sessions \in 0..MaxSession /\ MaxSession \in Nat /\ MaxTime \in Nat /\ 0 \in 0..MaxProof
  BY ActionAssumption DEF Base, Clocks
<1>5. sessions' \in 0..MaxSession /\ sessions + 1 \in 1..MaxSession /\ travels \subseteq travels'
  BY <1>1, <1>4 DEF Outlives, history
<1>6. PICK q : q = NewSession(0)
  OBVIOUS
<1>7. q \in Live /\ q.values = 0
  BY <1>4, <1>5, <1>6 DEF NewSession, Live, Identities
<1>8. PICK o, c : o = "error" /\ c = x.initial.values
  OBVIOUS
<1>9. PICK y : y = [x EXCEPT !.at = "page", !.outcome = o, !.current = c, !.dirty = FALSE, !.rotated = FALSE,
                             !.publication = NoSession]
  OBVIOUS
<1>10. y \in Progress /\ y.at = "page" /\ y.startedAt = x.startedAt /\ y.initial = x.initial
       /\ y.proof = x.proof
  <2>1. c \in 0..MaxProof /\ NoSession \in Live \cup {NoSession} /\ o \in Outcomes
    BY <1>3, <1>8, Names DEF Handled, Live
  <2> QED
    BY <1>3, <1>9, <2>1, Names DEF Progress
<1>11. PICK r : r = [y EXCEPT !.current = 0, !.publication = q]
  OBVIOUS
<1>12. r \in Progress /\ r.at = "page" /\ r.startedAt = x.startedAt /\ r.initial = x.initial /\ r.current = 0
       /\ r.publication = q /\ r.proof = x.proof
  <2>1. q \in Live \cup {NoSession}
    BY <1>7
  <2> QED
    BY <1>4, <1>10, <1>11, <2>1 DEF Progress
<1>13. slot' = [slot EXCEPT ![s] = r]
  <2>1. Discarded(s, "error") = y
    BY <1>2, <1>8, <1>9 DEF Discarded
  <2> QED
    BY <1>6, <1>11, <2>1 DEF Outlives
<1>14. Handled(r)
  BY <1>3, <1>7, <1>12, IdleType DEF Handled, Displayed, Clean
<1>15. Clocks /\ Clocks' /\ Issued /\ Issued' /\ Grows => Handled(r)'
  BY <1>14, HandledGrows
<1> QED
  BY <1>1, <1>2, <1>5, <1>12, <1>13, <1>15, AloneKeeps

LEMMA RenderKeeps ==
  ASSUME Base, NEW s \in Slot, RenderForm(s)
  PROVE Base'
<1>1. slot[s].at = "stream" /\ UNCHANGED <<now, server, sessions, slot, jar, replaced, history>> /\ Len(proofs) < MaxProof
  BY DEF RenderForm
<1>2. PICK x : x = slot[s]
  OBVIOUS
<1>3. x \in Progress /\ Handled(x) /\ x.at = "stream"
  BY <1>1, <1>2 DEF Base, Requests
<1>4. Displayed(x) \in Live /\ Snapshot(s) = Displayed(x)
  BY <1>2, <1>3 DEF Handled, Displayed, Snapshot, Progress
<1>5. PICK issue : issue = [session |-> Snapshot(s).id, issuedAt |-> now, process |-> process, key |-> keyring.active]
  OBVIOUS
<1>6. issue \in Issue /\ issue.process = process /\ issue.session = Displayed(x).id
  BY <1>4, <1>5 DEF Issue, Base, Clocks, Live
<1>7. proofs' = Append(proofs, issue)
  BY <1>5 DEF RenderForm
<1>8. /\ proofs \in Seq(Issue) /\ Len(proofs) \in Nat /\ MaxProof \in Nat /\ Len(proofs)' = Len(proofs) + 1
      /\ proofs' \in Seq(Issue) /\ proofs'[Len(proofs) + 1] = issue
      /\ \A p \in 1..Len(proofs) : proofs'[p] = proofs[p]
  BY <1>6, <1>7, ActionAssumption DEF Base, Issued
<1>9. Clocks'
  BY <1>1 DEF Base, Clocks, server
<1>10. Issued'
  <2>1. \A p \in 1..Len(proofs)' : proofs'[p].process <= process'
    <3>1. process' = process /\ process \in Nat
      BY <1>1, ActionAssumption DEF server, Base, Clocks
    <3>2. \A p \in 1..Len(proofs)' : p \in 1..Len(proofs) \/ p = Len(proofs) + 1
      BY <1>8
    <3> QED
      BY <1>6, <1>8, <3>1, <3>2 DEF Base, Issued
  <2> QED
    BY <1>1, <1>8, <2>1 DEF Issued
<1>11. Grows
  <2>1. now \in Nat /\ now' = now
    BY <1>1, ActionAssumption DEF Base, Clocks
  <2> QED
    BY <1>1, <1>8, <2>1 DEF Grows, history
<1>12. Requests'
  <2>1. \A u \in Slot : Handled(slot[u])'
    <3> SUFFICES ASSUME NEW u \in Slot PROVE Handled(slot[u])'
      OBVIOUS
    <3>1. PICK y : y = slot[u]
      OBVIOUS
    <3>2. Handled(y)'
      BY <1>9, <1>11, <3>1, HandledGrows DEF Base, Requests
    <3> QED
      BY <1>1, <3>1, <3>2
  <2> QED
    BY <1>1, <2>1 DEF Base, Requests
<1>13. Jar'
  <2>1. held' = held \union {Len(proofs) + 1}
    BY DEF RenderForm
  <2>2. held' \subseteq 1..Len(proofs)'
    <3>1. held \subseteq 1..Len(proofs)
      BY DEF Base, Jar
    <3>2. Len(proofs) + 1 \in 1..Len(proofs)' /\ 1..Len(proofs) \subseteq 1..Len(proofs)'
      BY <1>8
    <3> QED
      BY <2>1, <3>1, <3>2
  <2> QED
    BY <1>1, <2>2 DEF history, Base, Jar, Clean
<1> QED
  BY <1>9, <1>10, <1>12, <1>13 DEF Base

LEMMA ClockKeeps ==
  ASSUME Base, Tick
  PROVE Base'
<1>1. Clocks' /\ Issued' /\ Grows
  <2>1. now \in Nat /\ now' \in 0..MaxTime /\ now \in 0..now' /\ Len(proofs) \in Nat
    BY ActionAssumption DEF Tick, Base, Clocks, Issued
  <2> QED
    BY <2>1 DEF Tick, server, history, Base, Clocks, Issued, Grows
<1>2. Requests' /\ Jar'
  BY <1>1, OthersStep DEF Tick
<1> QED
  BY <1>1, <1>2 DEF Base

LEMMA RestartKeeps ==
  ASSUME Base, Restart
  PROVE Base'
<1>1. process' = process + 1 /\ process \in Nat /\ process' \in 0..MaxRestart /\ now \in Nat /\ Len(proofs) \in Nat
  BY ActionAssumption DEF Restart, Base, Clocks, Issued
<1>2. keyring'.active \in Nat /\ keyring'.active \in keyring'.byId
  BY DEF Restart, Base, Clocks
<1>3. Clocks' /\ Grows
  BY <1>1, <1>2 DEF Restart, history, Base, Clocks, Grows
<1>4. Issued'
  <2>1. proofs' = proofs
    BY DEF Restart
  <2>2. \A p \in 1..Len(proofs) : proofs[p].process \in Nat /\ proofs[p].process <= process
    <3>1. \A p \in 1..Len(proofs) : proofs[p] \in Issue
      BY DEF Base, Issued
    <3> QED
      BY <3>1, ActionAssumption DEF Base, Issued, Issue
  <2>3. \A p \in 1..Len(proofs) : proofs[p].process <= process'
    BY <1>1, <2>2
  <2> QED
    BY <2>1, <2>3 DEF Base, Issued
<1>5. Jar'
  BY DEF Restart, browser, history, Base, Jar, Clean
<1>6. slot' = [s \in Slot |-> Idle]
  BY DEF Restart
<1>7. Handled(Idle)'
  <2>1. Clean(0)'
    BY DEF Clean
  <2>2. 0 \in 0..now' /\ 0 \in 0..Len(proofs)'
    BY <1>1 DEF Restart
  <2> QED
    BY <2>1, <2>2, IdleType, Zenon DEF Handled
<1>8. Requests'
  <2>1. \A s \in Slot : slot'[s] = Idle
    BY <1>6
  <2>2. ASSUME NEW s \in Slot PROVE Handled(slot[s])'
    BY <1>7, <2>1
  <2>3. slot' \in [Slot -> Progress]
    BY <1>6, IdleType
  <2> QED
    BY <2>2, <2>3, Zenon DEF Requests
<1> QED
  BY <1>3, <1>4, <1>5, <1>8 DEF Base

\* Every operation keeps what holds of clocks, proofs, requests and browser.
LEMMA BaseKeeps ==
  ASSUME Base, Next
  PROVE Base'
<1>1. ASSUME NEW s \in Slot, Get(s) \/ Post(s) PROVE Base'
  BY <1>1, OpenKeeps DEF Get, Post
<1>2. ASSUME NEW s \in Slot, RefuseBody(s) PROVE Base'
  BY <1>2, EndKeeps DEF RefuseBody, history
<1>3. ASSUME NEW s \in Slot, Deny(s) PROVE Base'
  BY <1>3, EndKeeps DEF Deny, history
<1>4. ASSUME NEW s \in Slot, Leave(s) PROVE Base'
  <2>1. slot[s].at = "page" /\ UNCHANGED <<now, server, proofs, sessions, travels>>
    BY <1>4 DEF Leave, history
  <2> QED
    BY <1>4, <2>1, EndKeeps, StreamsKeeps DEF Leave
<1> QED
  BY <1>1, <1>2, <1>3, <1>4, RefuseSessionKeeps, BoundaryKeeps, BufferKeeps, FailsKeeps, SucceedsKeeps, OutlivesKeeps,
     RenderKeeps, DocumentEnds, ClockKeeps, RestartKeeps DEF Next

LEMMA BaseInit ==
  ASSUME Init
  PROVE Base
<1>1. 0 \in 0..MaxTime /\ 0 \in 0..MaxRestart /\ 0 \in 0..MaxSession /\ 0 <= MaxProof
  BY ActionAssumption
<1>2. Clocks /\ Issued /\ Len(proofs) = 0
  BY <1>1 DEF Init, Clocks, Issued
<1>3. Jar
  BY <1>2, IdleType DEF Init, Jar, Clean, NoCookie
<1>4. Handled(Idle)
  BY <1>2, IdleType DEF Init, Handled, Clean
<1>5. Requests
  <2>1. slot = [s \in Slot |-> Idle]
    BY DEF Init
  <2> QED
    BY <1>4, <2>1, IdleType DEF Requests
<1> QED
  BY <1>2, <1>3, <1>5 DEF Base

-----------------------------------------------------------------------------
(* The ledger. *)

Counted(l) ==
  /\ l = [entries |-> l.entries, perSession |-> l.perSession, nextExpiry |-> l.nextExpiry]
  /\ l.entries \subseteq 1..Len(proofs)
  /\ l.perSession \in [1..MaxSession -> Nat]
  /\ \A n \in 1..MaxSession : l.perSession[n] = Cardinality(OfSession(l.entries, n))
  /\ l.nextExpiry \in 1..Infinity
  /\ \A p \in l.entries : l.nextExpiry <= Due(p)
  /\ l.nextExpiry = Infinity \/ \E p \in l.entries : l.nextExpiry = Due(p)
Bounded(l) ==
  /\ Cardinality(l.entries) <= maximumReplayEntries
  /\ \A n \in 1..MaxSession : l.perSession[n] <= maximumSessionReplayEntries

LEMMA ProofType ==
  ASSUME Issued, NEW p \in 1..Len(proofs)
  PROVE /\ proofs[p] \in Issue /\ proofs[p].session.n \in 1..MaxSession /\ proofs[p].process \in Nat
        /\ Due(p) \in Nat /\ Due(p) \in 1..Infinity
<1>1. proofs[p] \in Issue
  BY DEF Issued
<1>2. proofs[p].session.n \in 1..MaxSession /\ proofs[p].process \in Nat
  BY <1>1, ActionAssumption DEF Issue, Identities
<1>3. proofs[p].issuedAt \in 0..MaxTime /\ proofs[p].session.createdAt \in 0..MaxTime
  BY <1>1 DEF Issue, Identities
<1>4. Due(p) \in Nat /\ Due(p) \in 1..Infinity
  BY <1>3, ActionAssumption, SMTT(30) DEF Due, Lesser, Expiry, Infinity
<1> QED
  BY <1>1, <1>2, <1>4

LEMMA Finite ==
  ASSUME Issued, NEW P \in SUBSET (1..Len(proofs)), NEW n
  PROVE IsFiniteSet(P) /\ IsFiniteSet(OfSession(P, n)) /\ Cardinality(P) \in Nat /\ Cardinality(OfSession(P, n)) \in Nat
<1>1. IsFiniteSet(1..Len(proofs))
  BY FS_Interval DEF Issued
<1>2. IsFiniteSet(P)
  BY <1>1, FS_Subset
<1>3. OfSession(P, n) \in SUBSET P
  BY DEF OfSession
<1>4. IsFiniteSet(OfSession(P, n))
  BY <1>2, <1>3, FS_Subset
<1> QED
  BY <1>2, <1>4, FS_CardinalityType

\* #prune keeps the counters exact and forgets only what is due.
LEMMA SweepKeeps ==
  ASSUME Issued, NEW l, Counted(l), NEW t \in Nat, NEW k \in Swept(l, t)
  PROVE /\ Counted(k) /\ (Bounded(l) => Bounded(k))
        /\ k.entries \subseteq l.entries /\ \A p \in l.entries \ k.entries : Due(p) <= t
<1>1. CASE t < l.nextExpiry
  BY <1>1 DEF Swept
<1>2. CASE ~(t < l.nextExpiry)
  <2> DEFINE kept == Kept(l, t)
  <2>1. PICK next \in {Due(p) : p \in kept} \union {Infinity} :
          /\ \A p \in kept : next <= Due(p)
          /\ k = [entries |-> kept, perSession |-> Counts(l, kept), nextExpiry |-> next]
    BY <1>2 DEF Swept
  <2>2. kept \subseteq l.entries /\ \A p \in l.entries \ kept : Due(p) <= t
    BY ProofType DEF Kept, Counted
  <2> HIDE DEF kept
  <2>3. ASSUME NEW n \in 1..MaxSession
        PROVE /\ Counts(l, kept)[n] \in Nat /\ Counts(l, kept)[n] = Cardinality(OfSession(kept, n))
              /\ Counts(l, kept)[n] <= l.perSession[n]
    <3> DEFINE A == OfSession(l.entries, n)
               B == OfSession(l.entries \ kept, n)
    <3>1. A \ B = OfSession(kept, n) /\ A \cap B = B
      BY <2>2 DEF OfSession
    <3>2. IsFiniteSet(A) /\ Cardinality(A) \in Nat /\ IsFiniteSet(B) /\ Cardinality(B) \in Nat
      BY Finite DEF Counted
    <3>3. Cardinality(A \ B) = Cardinality(A) - Cardinality(A \cap B)
      BY <3>2, FS_Difference
    <3>4. Cardinality(OfSession(kept, n)) \in Nat
      BY <2>2, Finite DEF Counted
    <3>5. Counts(l, kept)[n] = l.perSession[n] - Cardinality(B)
      BY DEF Counts
    <3>6. l.perSession[n] = Cardinality(A)
      BY DEF Counted
    <3>7. PICK a, b, c : a = Cardinality(A) /\ b = Cardinality(B) /\ c = Cardinality(OfSession(kept, n))
      OBVIOUS
    <3>8. c = a - b
      BY <3>1, <3>3, <3>7
    <3>9. a \in Nat /\ b \in Nat /\ c \in Nat
      BY <3>2, <3>4, <3>7
    <3>10. Counts(l, kept)[n] = a - b /\ l.perSession[n] = a
      BY <3>5, <3>6, <3>7
    <3>11. a - b \in Nat /\ a - b <= a
      BY <3>8, <3>9
    <3> QED
      BY <3>7, <3>8, <3>10, <3>11
  <2>4. Counts(l, kept) \in [1..MaxSession -> Nat]
    <3>1. Counts(l, kept) = [n \in 1..MaxSession |-> Counts(l, kept)[n]]
      BY DEF Counts
    <3> QED
      BY <2>3, <3>1
  <2>5. next \in 1..Infinity
    <3>1. Infinity \in 1..Infinity
      BY ActionAssumption DEF Infinity
    <3>2. \A p \in kept : Due(p) \in 1..Infinity
      BY <2>2, ProofType DEF Counted
    <3> QED
      BY <2>1, <3>1, <3>2
  <2>6. next = Infinity \/ \E p \in kept : next = Due(p)
    BY <2>1
  <2>7. k.entries = kept /\ k.perSession = Counts(l, kept) /\ k.nextExpiry = next
    BY <2>1
  <2>8. Counted(k)
    BY <2>1, <2>2, <2>3, <2>4, <2>5, <2>6, <2>7 DEF Counted
  <2>9. Bounded(l) => Bounded(k)
    <3> SUFFICES ASSUME Bounded(l) PROVE Bounded(k)
      OBVIOUS
    <3>1. Cardinality(kept) <= Cardinality(l.entries) /\ Cardinality(kept) \in Nat /\ Cardinality(l.entries) \in Nat
      <4>1. IsFiniteSet(l.entries) /\ Cardinality(l.entries) \in Nat /\ Cardinality(kept) \in Nat
        BY <2>2, Finite DEF Counted
      <4> QED
        BY <2>2, <4>1, FS_Subset
    <3>2. Cardinality(kept) <= maximumReplayEntries
      BY <3>1, ActionAssumption DEF Bounded
    <3>3. \A n \in 1..MaxSession : Counts(l, kept)[n] <= maximumSessionReplayEntries
      BY <2>3, ActionAssumption DEF Bounded, Counted
    <3> QED
      BY <2>7, <3>2, <3>3 DEF Bounded
  <2> QED
    BY <2>2, <2>7, <2>8, <2>9
<1> QED
  BY <1>1, <1>2

\* A proof below the limits is entered and counted.
LEMMA RememberKeeps ==
  ASSUME Issued, NEW l, Counted(l), Bounded(l), NEW p \in 1..Len(proofs), p \notin l.entries,
         ~AtLimit(l, proofs[p].session.n)
  PROVE Counted(Remember(l, p)) /\ Bounded(Remember(l, p))
<1> DEFINE k == Remember(l, p)
           m == proofs[p].session.n
<1>1. m \in 1..MaxSession /\ Due(p) \in 1..Infinity /\ Infinity \in Nat
  BY ProofType, ActionAssumption DEF Infinity
<1>2. /\ k.entries = l.entries \cup {p} /\ k.perSession = [l.perSession EXCEPT ![m] = @ + 1]
      /\ k.nextExpiry = Lesser(l.nextExpiry, Due(p))
      /\ k = [entries |-> k.entries, perSession |-> k.perSession, nextExpiry |-> k.nextExpiry]
  BY DEF Remember
<1> HIDE DEF k
<1>3. /\ l.perSession \in [1..MaxSession -> Nat] /\ l.entries \subseteq 1..Len(proofs) /\ l.nextExpiry \in 1..Infinity
      /\ \A n \in 1..MaxSession : l.perSession[n] = Cardinality(OfSession(l.entries, n))
      /\ \A q \in l.entries : l.nextExpiry <= Due(q)
      /\ l.nextExpiry = Infinity \/ \E q \in l.entries : l.nextExpiry = Due(q)
  BY DEF Counted
<1>4. /\ k.perSession \in [1..MaxSession -> Nat] /\ k.perSession[m] = l.perSession[m] + 1
      /\ \A n \in 1..MaxSession : n # m => k.perSession[n] = l.perSession[n]
  <2>1. PICK g : g = l.perSession
    OBVIOUS
  <2>3. k.perSession = [g EXCEPT ![m] = g[m] + 1]
    BY <1>2, <2>1
  <2> HIDE DEF m
  <2>5. g \in [1..MaxSession -> Nat]
    BY <1>3, <2>1
  <2>2. g \in [1..MaxSession -> Nat] /\ g[m] + 1 \in Nat
    BY <1>1, <2>5
  <2>4. k.perSession \in [1..MaxSession -> Nat] /\ k.perSession[m] = g[m] + 1
        /\ \A n \in 1..MaxSession : n # m => k.perSession[n] = g[n]
    BY <1>1, <2>2, <2>3
  <2> QED
    BY <2>1, <2>4
<1>5. ASSUME NEW n \in 1..MaxSession PROVE k.perSession[n] = Cardinality(OfSession(k.entries, n))
  <2>1. CASE n = m
    <3>1. OfSession(k.entries, n) = OfSession(l.entries, n) \cup {p} /\ p \notin OfSession(l.entries, n)
      BY <1>2, <2>1 DEF OfSession
    <3>2. IsFiniteSet(OfSession(l.entries, n))
      BY <1>3, Finite
    <3>3. Cardinality(OfSession(k.entries, n)) = Cardinality(OfSession(l.entries, n)) + 1
      BY <3>1, <3>2, FS_AddElement
    <3> QED
      BY <1>3, <1>4, <2>1, <3>3
  <2>2. CASE n # m
    <3>1. OfSession(k.entries, n) = OfSession(l.entries, n)
      BY <1>2, <2>2 DEF OfSession
    <3> QED
      BY <1>3, <1>4, <2>2, <3>1
  <2> QED
    BY <2>1, <2>2
<1>6. /\ k.nextExpiry \in 1..Infinity /\ \A q \in k.entries : k.nextExpiry <= Due(q)
      /\ k.nextExpiry = Infinity \/ \E q \in k.entries : k.nextExpiry = Due(q)
  <2>1. \A q \in k.entries : Due(q) \in Nat
    BY <1>2, <1>3, ProofType
  <2> QED
    BY <1>1, <1>2, <1>3, <2>1 DEF Lesser
<1>7. k.entries \subseteq 1..Len(proofs)
  BY <1>2, <1>3
<1>8. Cardinality(k.entries) <= maximumReplayEntries
  <2>1. IsFiniteSet(l.entries) /\ Cardinality(l.entries) \in Nat
    BY <1>3, Finite
  <2>2. Cardinality(k.entries) = Cardinality(l.entries) + 1
    BY <1>2, <2>1, FS_AddElement
  <2>3. ~(Cardinality(l.entries) >= maximumReplayEntries)
    BY DEF AtLimit
  <2> QED
    BY <2>1, <2>2, <2>3, ActionAssumption
<1>9. \A n \in 1..MaxSession : k.perSession[n] <= maximumSessionReplayEntries
  <2>1. ~(l.perSession[m] >= maximumSessionReplayEntries)
    BY DEF AtLimit
  <2>2. l.perSession[m] \in Nat /\ l.perSession[m] + 1 <= maximumSessionReplayEntries
    BY <1>1, <1>3, <2>1, ActionAssumption
  <2>3. k.perSession[m] <= maximumSessionReplayEntries
    BY <1>4, <2>2
  <2>4. \A n \in 1..MaxSession : n # m => k.perSession[n] <= maximumSessionReplayEntries
    BY <1>4 DEF Bounded
  <2> HIDE DEF m
  <2> QED
    BY <2>3, <2>4
<1>10. Counted(k)
  BY <1>2, <1>4, <1>5, <1>6, <1>7, Zenon DEF Counted
<1> QED
  BY <1>8, <1>9, <1>10 DEF Bounded, k

Ledger == Counted(ledger) /\ Bounded(ledger)

LEMMA EmptyKeeps ==
  ASSUME Issued
  PROVE Counted(EmptyLedger) /\ Bounded(EmptyLedger)
<1>1. \A n : OfSession({}, n) = {}
  BY DEF OfSession
<1>2. Cardinality({}) = 0
  BY FS_EmptySet
<1>3. Infinity \in 1..Infinity
  BY ActionAssumption DEF Infinity
<1>4. /\ EmptyLedger.entries = {} /\ EmptyLedger.nextExpiry = Infinity
      /\ EmptyLedger.perSession = [n \in 1..MaxSession |-> 0]
      /\ EmptyLedger = [entries |-> EmptyLedger.entries, perSession |-> EmptyLedger.perSession,
                        nextExpiry |-> EmptyLedger.nextExpiry]
  BY DEF EmptyLedger
<1>5. EmptyLedger.perSession \in [1..MaxSession -> Nat] /\ \A n \in 1..MaxSession : EmptyLedger.perSession[n] = 0
  BY <1>4
<1> HIDE DEF EmptyLedger
<1>6. Counted(EmptyLedger)
  BY <1>1, <1>2, <1>3, <1>4, <1>5 DEF Counted
<1> QED
  BY <1>2, <1>4, <1>5, <1>6, ActionAssumption DEF Bounded

\* Proofs are only added, and never changed.
Added == Len(proofs) <= Len(proofs)' /\ \A p \in 1..Len(proofs) : proofs'[p] = proofs[p]

LEMMA DueStays ==
  ASSUME Added, NEW p \in 1..Len(proofs)
  PROVE Due(p)' = Due(p)
BY DEF Added, Due, Expiry

\* What a ledger counts does not depend on later proofs.
LEMMA CountedStays ==
  ASSUME Issued, Issued', Added, NEW l, Counted(l)
  PROVE Counted(l)'
<1>1. l.entries \subseteq 1..Len(proofs) /\ l.entries \subseteq 1..Len(proofs)'
  BY DEF Counted, Added, Issued
<1>2. \A n : OfSession(l.entries, n)' = OfSession(l.entries, n)
  BY <1>1 DEF OfSession, Added
<1>3. \A p \in l.entries : Due(p)' = Due(p)
  BY <1>1, DueStays
<1>4. \A n \in 1..MaxSession : l.perSession[n] = Cardinality(OfSession(l.entries, n))'
  BY <1>2 DEF Counted
<1>5. /\ \A p \in l.entries : l.nextExpiry <= Due(p)'
      /\ l.nextExpiry = Infinity \/ \E p \in l.entries : l.nextExpiry = Due(p)'
  BY <1>3 DEF Counted
<1>6. /\ l = [entries |-> l.entries, perSession |-> l.perSession, nextExpiry |-> l.nextExpiry]
      /\ l.perSession \in [1..MaxSession -> Nat] /\ l.nextExpiry \in 1..Infinity
  BY DEF Counted
<1> QED
  BY <1>1, <1>4, <1>5, <1>6, Zenon DEF Counted

\* The admission of a proof: the ledger of a step, and what it pruned on the way.
LEMMA Admission ==
  ASSUME Base, Ledger, NEW s \in Slot, Boundary(s)
  PROVE \E l, t :
          /\ t \in Nat /\ Counted(l) /\ Bounded(l) /\ l.entries \subseteq ledger.entries
          /\ \A q \in ledger.entries \ l.entries : Due(q) <= t
          /\ forgot' = [q \in 1..MaxProof |-> IF q \in ledger.entries \ l.entries THEN t ELSE forgot[q]]
          /\ \/ ledger' = l /\ ran' = ran
             \/ \E p \in 1..Len(proofs) :
                  /\ p \notin ledger.entries /\ proofs[p].process = process
                  /\ ~AtLimit(l, proofs[p].session.n)
                  /\ ledger' = Remember(l, p) /\ ran' = [ran EXCEPT ![p] = @ + 1]
<1>1. PICK p, t : p = slot[s].proof /\ t = slot[s].startedAt
  OBVIOUS
<1>2. t \in Nat /\ p \in 1..Len(proofs)
  <2>1. slot[s] \in Progress /\ Handled(slot[s]) /\ slot[s].at = "body"
    BY DEF Base, Requests, Boundary
  <2>2. slot[s].startedAt \in Nat /\ slot[s].proof # 0 /\ slot[s].proof \in 0..Len(proofs)
    BY <2>1 DEF Progress, Handled
  <2> QED
    BY <1>1, <2>2 DEF Base, Issued
<1>3. /\ Valid(p, t, slot[s].initial.id) /\ p \notin ledger.entries
      /\ \E l \in IF AtLimit(ledger, proofs[p].session.n) THEN Swept(ledger, t) ELSE {ledger} :
           /\ forgot' = [q \in 1..MaxProof |-> IF q \in ledger.entries \ l.entries THEN t ELSE forgot[q]]
           /\ \/ /\ ~AtLimit(l, proofs[p].session.n)
                 /\ ledger' = Remember(l, p) /\ ran' = [ran EXCEPT ![p] = @ + 1]
              \/ ledger' = l /\ ran' = ran
  BY <1>1 DEF Boundary
<1>4. proofs[p].process = process
  BY <1>3 DEF Valid
<1>5. PICK l \in IF AtLimit(ledger, proofs[p].session.n) THEN Swept(ledger, t) ELSE {ledger} :
           /\ forgot' = [q \in 1..MaxProof |-> IF q \in ledger.entries \ l.entries THEN t ELSE forgot[q]]
           /\ \/ /\ ~AtLimit(l, proofs[p].session.n)
                 /\ ledger' = Remember(l, p) /\ ran' = [ran EXCEPT ![p] = @ + 1]
              \/ ledger' = l /\ ran' = ran
  BY <1>3
<1>6. /\ Counted(l) /\ Bounded(l) /\ l.entries \subseteq ledger.entries
      /\ \A q \in ledger.entries \ l.entries : Due(q) <= t
  <2>1. CASE l = ledger
    BY <2>1 DEF Ledger
  <2>2. CASE l \in Swept(ledger, t)
    <3>1. PICK x : x = ledger
      OBVIOUS
    <3>2. l \in Swept(x, t) /\ Counted(x) /\ Bounded(x)
      BY <2>2, <3>1 DEF Ledger
    <3> QED
      BY <1>2, <3>1, <3>2, SweepKeeps DEF Base
  <2> QED
    BY <1>5, <2>1, <2>2
<1> QED
  BY <1>2, <1>3, <1>4, <1>5, <1>6, Zenon

\* What the other steps leave alone.
LEMMA Elsewhere ==
  ASSUME Base, Base', Next
  PROVE /\ Added
        /\ \/ UNCHANGED <<process, ledger, ran, forgot>>
           \/ (\E s \in Slot : Boundary(s)) /\ UNCHANGED <<process, proofs>>
           \/ Restart /\ UNCHANGED <<proofs, ran, forgot>>
<1>1. Len(proofs) \in Nat /\ proofs \in Seq(Issue)
  BY DEF Base, Issued
<1>2. proofs' = proofs => Added
  BY <1>1 DEF Added
<1>3. ASSUME NEW s \in Slot, Get(s) \/ Post(s) \/ RefuseBody(s) \/ Deny(s) \/ Set(s) \/ Rotate(s) \/ Fails(s)
                             \/ Succeeds(s) \/ Outlives(s) \/ Leave(s) \/ End(s)
      PROVE UNCHANGED <<process, ledger, ran, forgot, proofs>>
  BY <1>3 DEF Get, Post, Open, RefuseBody, Deny, Set, Rotate, Fails, Succeeds, Outlives, Leave, End, server, history
<1>4. ASSUME RefuseSession \/ Tick PROVE UNCHANGED <<process, ledger, ran, forgot, proofs>>
  BY <1>4 DEF RefuseSession, Tick, server, history
<1>5. ASSUME NEW s \in Slot, RenderForm(s) PROVE Added /\ UNCHANGED <<process, ledger, ran, forgot>>
  BY <1>1, <1>5 DEF RenderForm, server, history, Added
<1>6. ASSUME NEW s \in Slot, Boundary(s) PROVE UNCHANGED <<process, proofs>>
  BY <1>6 DEF Boundary, server
<1>7. ASSUME Restart PROVE UNCHANGED <<proofs, ran, forgot>>
  BY <1>7 DEF Restart, history
<1> QED
  BY <1>2, <1>3, <1>4, <1>5, <1>6, <1>7 DEF Next

LEMMA LedgerStays ==
  ASSUME Base, Base', Added, NEW x, Counted(x), Bounded(x), ledger' = x
  PROVE Ledger'
<1>1. Counted(x)' /\ Bounded(x)'
  BY CountedStays DEF Base, Bounded
<1> QED
  BY <1>1 DEF Ledger

\* Every operation keeps the ledger exact and within its limits.
LEMMA LedgerKeeps ==
  ASSUME Base, Base', Ledger, Next
  PROVE Ledger'
<1>1. Added
  BY Elsewhere
<1>2. CASE ledger' = ledger
  <2>1. PICK x : x = ledger
    OBVIOUS
  <2> QED
    BY <1>1, <1>2, <2>1, LedgerStays DEF Ledger
<1>3. ASSUME NEW s \in Slot, Boundary(s) PROVE Ledger'
  <2>1. PICK l : /\ Counted(l) /\ Bounded(l) /\ l.entries \subseteq ledger.entries
                 /\ \/ ledger' = l
                    \/ \E p \in 1..Len(proofs) :
                         /\ p \notin ledger.entries /\ ~AtLimit(l, proofs[p].session.n)
                         /\ ledger' = Remember(l, p)
    BY <1>3, Admission, Zenon
  <2>2. CASE ledger' = l
    BY <1>1, <2>1, <2>2, LedgerStays
  <2>3. ASSUME NEW p \in 1..Len(proofs), p \notin ledger.entries, ~AtLimit(l, proofs[p].session.n),
               ledger' = Remember(l, p)
        PROVE Ledger'
    <3>1. PICK x : x = Remember(l, p)
      OBVIOUS
    <3>2. Counted(x) /\ Bounded(x)
      BY <2>1, <2>3, <3>1, RememberKeeps DEF Base
    <3> QED
      BY <1>1, <2>3, <3>1, <3>2, LedgerStays
  <2> QED
    BY <2>1, <2>2, <2>3
<1>4. CASE Restart
  <2>1. ledger' = EmptyLedger
    BY <1>4 DEF Restart
  <2> QED
    BY <1>1, <2>1, EmptyKeeps, LedgerStays DEF Base
<1> QED
  BY <1>2, <1>3, <1>4, Elsewhere

LEMMA LedgerInit ==
  ASSUME Init
  PROVE Ledger
<1>1. ledger = EmptyLedger /\ Issued
  BY BaseInit DEF Init, Base
<1> QED
  BY <1>1, EmptyKeeps DEF Ledger

LEMMA Types ==
  ASSUME Base, Ledger
  PROVE TypeOK
<1>1. Live \subseteq Sessions
  BY ActionAssumption DEF Live, Sessions, Identities
<1>2. Live \cup {NoSession} \subseteq Sessions
  BY <1>1, IdleType
<1>3. ledger \in [entries : SUBSET (1..Len(proofs)), perSession : [1..MaxSession -> Nat], nextExpiry : 1..Infinity]
  <2>1. PICK e, c, x : e = ledger.entries /\ c = ledger.perSession /\ x = ledger.nextExpiry
    OBVIOUS
  <2>2. ledger = [entries |-> e, perSession |-> c, nextExpiry |-> x]
    BY <2>1 DEF Ledger, Counted
  <2>3. e \in SUBSET (1..Len(proofs)) /\ c \in [1..MaxSession -> Nat] /\ x \in 1..Infinity
    BY <2>1 DEF Ledger, Counted
  <2> QED
    BY <2>2, <2>3
<1>4. ASSUME NEW s \in Slot
      PROVE /\ slot[s].initial \in Sessions /\ slot[s].publication \in Sessions
            /\ slot[s].proof \in 0..Len(proofs) /\ slot[s].startedAt \in 0..now
  <2>1. slot[s] \in Progress /\ Handled(slot[s])
    BY DEF Base, Requests
  <2>2. slot[s].initial \in Live \cup {NoSession} /\ slot[s].publication \in Live \cup {NoSession}
    BY <2>1 DEF Progress
  <2> QED
    BY <1>2, <2>1, <2>2 DEF Handled
<1>5. jar.session \in Sessions /\ held \subseteq 1..Len(proofs) /\ replaced \subseteq Slot
  BY <1>1, IdleType DEF Base, Jar, NoCookie
<1>6. /\ now \in 0..MaxTime /\ process \in 0..MaxRestart /\ sessions \in 0..MaxSession
      /\ keyring.active \in keyring.byId
  BY DEF Base, Clocks
<1>7. proofs \in Seq([session : [n : 1..MaxSession, createdAt : 0..MaxTime],
                      issuedAt : 0..MaxTime, process : 0..MaxRestart, key : Nat]) /\ Len(proofs) <= MaxProof
  BY DEF Base, Issued, Issue, Identities
<1> QED
  BY <1>3, <1>4, <1>5, <1>6, <1>7, Zenon DEF TypeOK

LEMMA Stutters ==
  ASSUME Base, Ledger, UNCHANGED vars
  PROVE Base' /\ Ledger'
<1>1. Clocks' /\ Issued' /\ Jar' /\ Requests'
  BY DEF vars, server, browser, history, Base, Clocks, Issued, Issue, Jar, Requests, Handled, Clean, Displayed
<1>2. Ledger'
  BY DEF vars, server, browser, history, Ledger, Counted, Bounded, OfSession, Due, Expiry
<1> QED
  BY <1>1, <1>2 DEF Base

\* The replay ledger (DecisionReplayLedger of action-decision.ts) keeps exact counters, stays within both
\* limits and knows its earliest expiry, whatever overlaps, expires or restarts.
THEOREM LedgerAlwaysExact == Spec => []LedgerExact
<1>1. Init => Base /\ Ledger
  BY BaseInit, LedgerInit
<1>2. Base /\ Ledger /\ [Next]_vars => Base' /\ Ledger'
  <2> SUFFICES ASSUME Base, Ledger, [Next]_vars PROVE Base' /\ Ledger'
    OBVIOUS
  <2>1. CASE Next
    BY <2>1, BaseKeeps, LedgerKeeps
  <2>2. CASE UNCHANGED vars
    BY <2>2, Stutters
  <2> QED
    BY <2>1, <2>2
<1>3. Base /\ Ledger => LedgerExact
  <2> SUFFICES ASSUME Base, Ledger PROVE LedgerExact
    OBVIOUS
  <2>1. TypeOK
    BY Types
  <2> QED
    BY <2>1 DEF Ledger, Counted, Bounded, LedgerExact
<1> QED
  BY <1>1, <1>2, <1>3, PTL DEF Spec

-----------------------------------------------------------------------------
(* What the ledger has forgotten. *)

\* A proof that ran in this process is remembered until it was due.
Admitted ==
  /\ ran \in [1..MaxProof -> Nat] /\ forgot \in [1..MaxProof -> Nat]
  /\ \A p \in 1..MaxProof : ran[p] > 0 =>
       /\ p \in 1..Len(proofs)
       /\ proofs[p].process = process => p \in ledger.entries \/ forgot[p] >= Due(p)
  /\ \A p \in 1..MaxProof : ran[p] > 1 => forgot[p] >= Due(p)

LEMMA AdmittedKeeps ==
  ASSUME Base, Base', Ledger, Admitted, Next
  PROVE Admitted'
<1>1. /\ Len(proofs) \in Nat /\ Len(proofs) <= MaxProof /\ MaxProof \in Nat /\ process \in Nat
      /\ \A p \in 1..Len(proofs) : p \in 1..MaxProof
  BY ActionAssumption DEF Base, Issued, Clocks
<1>2. Added
  BY Elsewhere
<1>3. \A p \in 1..Len(proofs) : Due(p)' = Due(p) /\ proofs'[p] = proofs[p] /\ p \in 1..Len(proofs)'
  BY <1>1, <1>2, DueStays DEF Added, Base, Issued
<1>4. \A p \in 1..MaxProof : ran[p] \in Nat /\ forgot[p] \in Nat /\ (ran[p] > 1 => ran[p] > 0)
  BY DEF Admitted
<1>5. CASE UNCHANGED <<process, ledger, ran, forgot>>
  BY <1>3, <1>4, <1>5 DEF Admitted
<1>6. ASSUME NEW s \in Slot, Boundary(s), UNCHANGED <<process, proofs>> PROVE Admitted'
  <2>1. PICK l, t :
          /\ t \in Nat /\ l.entries \subseteq ledger.entries
          /\ \A q \in ledger.entries \ l.entries : Due(q) <= t
          /\ forgot' = [q \in 1..MaxProof |-> IF q \in ledger.entries \ l.entries THEN t ELSE forgot[q]]
          /\ \/ ledger' = l /\ ran' = ran
             \/ \E p \in 1..Len(proofs) :
                  /\ p \notin ledger.entries /\ proofs[p].process = process
                  /\ ledger' = Remember(l, p) /\ ran' = [ran EXCEPT ![p] = @ + 1]
    BY <1>6, Admission, Zenon
  <2>2. forgot' \in [1..MaxProof -> Nat]
    BY <1>4, <2>1
  <2>3. \A q \in 1..MaxProof : q \in ledger.entries \ l.entries => forgot'[q] >= Due(q)
    <3>1. ledger.entries \subseteq 1..Len(proofs)
      BY DEF Ledger, Counted
    <3>2. \A q \in ledger.entries : Due(q) \in Nat
      BY <3>1, ProofType DEF Base
    <3> QED
      BY <2>1, <3>2
  <2>4. \A q \in 1..MaxProof : q \notin ledger.entries \ l.entries => forgot'[q] = forgot[q]
    BY <2>1
  <2>5. \A q \in 1..MaxProof : forgot[q] >= Due(q) => forgot'[q] >= Due(q)
    BY <2>3, <2>4
  <2>6. \A q \in 1..MaxProof : q \in ledger.entries => q \in l.entries \/ forgot'[q] >= Due(q)
    BY <2>3
  <2>7. \A q \in 1..MaxProof : ran[q] > 0 =>
          /\ q \in 1..Len(proofs)
          /\ proofs[q].process = process => q \in l.entries \/ forgot'[q] >= Due(q)
    BY <2>5, <2>6 DEF Admitted
  <2>8. \A q \in 1..MaxProof : ran[q] > 1 => forgot'[q] >= Due(q)
    BY <2>5 DEF Admitted
  <2>9. CASE ledger' = l /\ ran' = ran
    BY <1>3, <1>4, <1>6, <2>2, <2>7, <2>8, <2>9 DEF Admitted
  <2>10. ASSUME NEW p \in 1..Len(proofs), p \notin ledger.entries, proofs[p].process = process,
                ledger' = Remember(l, p), ran' = [ran EXCEPT ![p] = @ + 1]
         PROVE Admitted'
    <3>1. p \in 1..MaxProof
      BY <1>1
    <3>2. ran' \in [1..MaxProof -> Nat] /\ ran'[p] = ran[p] + 1 /\ \A q \in 1..MaxProof : q # p => ran'[q] = ran[q]
      BY <2>10, <3>1 DEF Admitted
    <3>3. ledger'.entries = l.entries \cup {p}
      BY <2>10 DEF Remember
    <3>4. ran[p] > 0 => forgot'[p] >= Due(p)
      BY <2>5, <2>10, <3>1 DEF Admitted
    <3>5. \A q \in 1..MaxProof : ran'[q] > 0 =>
            /\ q \in 1..Len(proofs)
            /\ proofs[q].process = process => q \in ledger'.entries \/ forgot'[q] >= Due(q)
      BY <2>7, <3>2, <3>3
    <3>6. \A q \in 1..MaxProof : ran'[q] > 1 => forgot'[q] >= Due(q)
      <4>1. ran'[p] > 1 => forgot'[p] >= Due(p)
        BY <1>4, <3>1, <3>2, <3>4
      <4> QED
        BY <2>8, <3>2, <4>1
    <3> QED
      BY <1>3, <1>4, <1>6, <2>2, <3>2, <3>5, <3>6 DEF Admitted
  <2> QED
    BY <2>1, <2>9, <2>10
<1>7. CASE Restart /\ UNCHANGED <<proofs, ran, forgot>>
  <2>1. process' = process + 1
    BY <1>7 DEF Restart
  <2>2. \A p \in 1..Len(proofs) : proofs[p].process <= process /\ proofs[p].process \in Nat
    BY ProofType DEF Base, Issued
  <2>3. \A p \in 1..Len(proofs) : proofs'[p].process # process'
    BY <1>1, <1>3, <2>1, <2>2
  <2> QED
    BY <1>3, <1>4, <1>7, <2>3 DEF Admitted
<1> QED
  BY <1>5, <1>6, <1>7, Elsewhere

\* A proof runs its action once, whatever overlaps, is resubmitted or restarts (executeDecisionAction of
\* action-decision.ts), but for the one exception OncePerProof names.
THEOREM ProofRunsOnce == Spec => []OncePerProof
<1>1. Init => Base /\ Ledger /\ Admitted
  <2>1. Init => Admitted
    BY ActionAssumption DEF Init, Admitted
  <2> QED
    BY <2>1, BaseInit, LedgerInit
<1>2. Base /\ Ledger /\ Admitted /\ [Next]_vars => Base' /\ Ledger' /\ Admitted'
  <2> SUFFICES ASSUME Base, Ledger, Admitted, [Next]_vars PROVE Base' /\ Ledger' /\ Admitted'
    OBVIOUS
  <2>1. CASE Next
    BY <2>1, BaseKeeps, LedgerKeeps, AdmittedKeeps
  <2>2. CASE UNCHANGED vars
    <3>1. Admitted'
      BY <2>2 DEF vars, server, browser, history, Admitted, Due, Expiry
    <3> QED
      BY <2>2, <3>1, Stutters
  <2> QED
    BY <2>1, <2>2
<1>3. Base /\ Admitted => OncePerProof
  <2> SUFFICES ASSUME Base, Admitted, NEW p \in 1..MaxProof, ran[p] > 1
               PROVE p <= Len(proofs) /\ forgot[p] >= Due(p)
    BY DEF OncePerProof
  <2>1. ran[p] > 0 /\ Len(proofs) \in Nat
    BY DEF Admitted, Base, Issued
  <2> QED
    BY <2>1 DEF Admitted
<1> QED
  BY <1>1, <1>2, <1>3, PTL DEF Spec

-----------------------------------------------------------------------------
(* What a response leaves in the browser. *)

\* The cookie changes with the head of a response, or is deleted because it cannot be read.
LEMMA CookieChanges ==
  ASSUME Base, Next, jar' # jar
  PROVE \/ slot' = slot
        \/ \E u \in Slot : /\ SetsCookie(u) /\ slot'[u].at # slot[u].at
                           /\ \A v \in Slot \ {u} : slot'[v] = slot[v]
<1>1. ASSUME NEW u \in Slot, Answer(u) \/ Streams(u), slot[u].at \in {"body", "run", "page"}
      PROVE SetsCookie(u) /\ slot'[u].at # slot[u].at /\ \A v \in Slot \ {u} : slot'[v] = slot[v]
  <2>1. slot \in [Slot -> Progress] /\ slot[u] \in Progress
    BY DEF Base, Requests
  <2>2. SetsCookie(u)
    BY <1>1 DEF Answer, Streams
  <2>3. CASE Answer(u)
    BY <1>1, <2>1, <2>2, <2>3, IdleType DEF Answer
  <2>4. CASE Streams(u)
    <3>1. slot'[u].at = "stream" /\ \A v \in Slot \ {u} : slot'[v] = slot[v]
      BY <2>1, <2>4 DEF Streams, Progress
    <3> QED
      BY <1>1, <2>2, <3>1
  <2> QED
    BY <1>1, <2>3, <2>4
<1>2. ASSUME NEW u \in Slot, Boundary(u) \/ RefuseBody(u) \/ Deny(u) \/ Leave(u)
      PROVE (Answer(u) \/ Streams(u)) /\ slot[u].at \in {"body", "run", "page"}
  BY <1>2 DEF Boundary, RefuseBody, Deny, Leave, browser
<1>3. ASSUME RefuseSession PROVE slot' = slot
  BY <1>3 DEF RefuseSession
<1> QED
  BY <1>1, <1>2, <1>3 DEF Next, Get, Post, Open, Set, Rotate, Fails, Succeeds, Outlives, RenderForm, End, Tick,
     Restart, browser

LEMMA CommittedIsCarried ==
  ASSUME Base, Next, NEW s \in Slot, Written(s), slot'[s].at # slot[s].at, jar' # jar
  PROVE jar'.session = slot[s].publication
<1>1. PICK u \in Slot : SetsCookie(u) /\ \A v \in Slot \ {u} : slot'[v] = slot[v]
  BY CookieChanges
<1>2. u = s
  BY <1>1
<1>3. Cookie(s) = Sealed(slot[s].publication)
  BY DEF Cookie, Written
<1> QED
  BY <1>1, <1>2, <1>3 DEF SetsCookie, Left, Sealed

\* A request that is not overtaken was sent with the session of the jar, or draws one; its document has left
\* there the session its forms are signed for.
Follows ==
  /\ \A s \in Slot : slot[s].at # "idle" => slot[s].opened \in {"missing", "valid", "renew"}
  /\ \A s \in Slot \ replaced :
       /\ slot[s].at = "stream" => jar.session.id = Displayed(slot[s]).id
       /\ slot[s].at \in {"page", "body", "run"} /\ slot[s].opened # "missing" =>
            jar.session.id = slot[s].initial.id

LEMMA SealedType ==
  ASSUME NEW q \in Live
  PROVE Sealed(q) # NoCookie
<1>1. Sealed(q).session = q /\ NoCookie.session = NoSession
  BY DEF Sealed, NoCookie
<1> QED
  BY <1>1, IdleType

\* A head leaves the session of its own document, and marks the requests whose session it replaces.
LEMMA AnswersFollow ==
  ASSUME Base, Follows, NEW s \in Slot, slot[s].at \in {"page", "body", "run"}, slot[s].at = "run" => ~slot[s].dirty,
         Answer(s) \/ Streams(s)
  PROVE Follows'
<1>1. slot \in [Slot -> Progress] /\ slot[s] \in Progress
  BY DEF Base, Requests
<1>2. \A u \in Slot \ {s} : slot'[u] = slot[u]
  BY <1>1 DEF Answer, Streams
<1>3. \A u \in Slot \ {s} : u \notin replaced' /\ slot[u].at # "idle" =>
        u \notin replaced /\ jar'.session.id = jar.session.id
  BY DEF Answer, Streams, SetsCookie, Overtaken
<1>4. CASE Answer(s)
  <2>1. slot'[s] = Idle
    BY <1>1, <1>4 DEF Answer
  <2> QED
    BY <1>2, <1>3, <2>1, IdleType DEF Follows, Displayed
<1>5. CASE Streams(s)
  <2>1. /\ slot'[s].at = "stream" /\ slot'[s].opened = slot[s].opened
        /\ slot'[s].initial = slot[s].initial /\ slot'[s].publication = slot[s].publication
    BY <1>1, <1>5 DEF Streams, Progress
  <2>2. s \notin replaced' => jar'.session.id = Displayed(slot[s]).id
    <3>1. CASE Cookie(s) # NoCookie
      BY <1>5, <3>1, CookieType DEF Streams, SetsCookie, Left
    <3>2. CASE Cookie(s) = NoCookie
      <4>1. jar' = jar /\ (s \notin replaced' => s \notin replaced)
        BY <1>5, <3>2 DEF Streams, SetsCookie, Left
      <4>2. slot[s].initial \in Live /\ slot[s].current \in 0..MaxProof /\ Handled(slot[s])
        BY <1>1 DEF Base, Requests, Handled, Progress
      <4>3. [slot[s].initial EXCEPT !.values = slot[s].current] \in Live
        BY <4>2 DEF Live
      <4>4. slot[s].publication = NoSession
        BY <1>1, <3>2, SealedType DEF Cookie, Progress
      <4>5. slot[s].opened # "renew" /\ slot[s].opened # "missing"
        BY <3>2, <4>2, <4>3, <4>4, SealedType DEF Cookie
      <4>6. slot[s].opened = "valid" /\ slot[s].at \in {"page", "body", "run"}
        BY <4>5 DEF Follows
      <4> QED
        BY <4>1, <4>4, <4>6 DEF Follows, Displayed
    <3> QED
      BY <3>1, <3>2
  <2>3. Displayed(slot'[s]) = Displayed(slot[s])
    BY <2>1 DEF Displayed
  <2> QED
    BY <1>2, <1>3, <2>1, <2>2, <2>3 DEF Follows, Displayed
<1> QED
  BY <1>4, <1>5

\* The steps of a request before its head.
LEMMA AloneFollows ==
  ASSUME Base, Follows, NEW s \in Slot, slot[s].at \in {"body", "run"}, UNCHANGED browser,
         \A u \in Slot \ {s} : slot'[u] = slot[u], slot'[s].at \in {"page", "run"},
         slot'[s].opened = slot[s].opened, slot'[s].initial = slot[s].initial
  PROVE Follows'
<1>1. jar' = jar /\ replaced' = replaced
  BY DEF browser
<1> QED
  BY <1>1 DEF Follows, Displayed

LEMMA FollowsKeeps ==
  ASSUME Base, Follows, Next
  PROVE Follows'
<1>1. slot \in [Slot -> Progress]
  BY DEF Base, Requests
<1>2. ASSUME NEW s \in Slot, Get(s) \/ Post(s) PROVE Follows'
  <2>1. PICK p : Open(s, p)
    BY <1>2 DEF Get, Post
  <2>2. PICK r : r = slot'[s]
    OBVIOUS
  <2>3. /\ r.at \in {"page", "body"} /\ r.opened = Status(jar)
        /\ Status(jar) # "missing" => r.initial = jar.session
        /\ \A u \in Slot \ {s} : slot'[u] = slot[u]
    BY <1>1, <2>1, <2>2 DEF Open, Idle
  <2>4. r.opened \in {"missing", "valid", "renew"} /\ jar' = jar /\ replaced' = replaced
    BY <2>1, <2>3 DEF Open, browser
  <2> QED
    BY <2>2, <2>3, <2>4 DEF Follows, Displayed
<1>3. ASSUME NEW s \in Slot, RefuseBody(s) \/ Deny(s) \/ Leave(s) PROVE Follows'
  BY <1>3, AnswersFollow DEF RefuseBody, Deny, Leave
<1>4. ASSUME NEW s \in Slot, Boundary(s) PROVE Follows'
  <2>1. CASE Answer(s)
    BY <1>4, <2>1, AnswersFollow DEF Boundary
  <2>2. CASE slot' = [slot EXCEPT ![s].at = "run", ![s].startedAt = 0] /\ UNCHANGED browser
    BY <1>1, <1>4, <2>2, AloneFollows DEF Boundary, Progress
  <2> QED
    BY <1>4, <2>1, <2>2 DEF Boundary
<1>5. ASSUME NEW s \in Slot, Set(s) \/ Rotate(s) PROVE Follows'
  BY <1>1, <1>5, AloneFollows DEF Set, Rotate, Progress
<1>6. ASSUME NEW s \in Slot, Fails(s) \/ Outlives(s) PROVE Follows'
  <2>1. UNCHANGED browser /\ slot[s].at = "run" /\ \A u \in Slot \ {s} : slot'[u] = slot[u]
    BY <1>1, <1>6 DEF Fails, Outlives
  <2>2. slot'[s].at = "page" /\ slot'[s].opened = slot[s].opened /\ slot'[s].initial = slot[s].initial
    <3>1. slot[s] \in Progress
      BY <1>1
    <3>2. \A o : /\ Discarded(s, o).at = "page" /\ Discarded(s, o).opened = slot[s].opened
                 /\ Discarded(s, o).initial = slot[s].initial
      BY <3>1 DEF Discarded, Progress
    <3>3. CASE Fails(s)
      BY <1>1, <3>2, <3>3, Zenon DEF Fails
    <3>4. CASE Outlives(s)
      <4>1. slot'[s] = [Discarded(s, "error") EXCEPT !.current = 0, !.publication = NewSession(0)]
        BY <1>1, <3>4 DEF Outlives
      <4>2. /\ slot'[s].at = Discarded(s, "error").at /\ slot'[s].opened = Discarded(s, "error").opened
            /\ slot'[s].initial = Discarded(s, "error").initial
        BY <3>1, <4>1 DEF Discarded, Progress
      <4> QED
        BY <3>2, <4>2
    <3> QED
      BY <1>6, <3>3, <3>4
  <2> QED
    BY <2>1, <2>2, AloneFollows
<1>7. ASSUME NEW s \in Slot, Succeeds(s) PROVE Follows'
  <2>1. UNCHANGED browser /\ slot[s].at = "run" /\ \A u \in Slot \ {s} : slot'[u] = slot[u]
    BY <1>1, <1>7 DEF Succeeds
  <2>2. slot'[s].at = "page" /\ slot'[s].opened = slot[s].opened /\ slot'[s].initial = slot[s].initial
    BY <1>1, <1>7 DEF Succeeds, Progress
  <2> QED
    BY <2>1, <2>2, AloneFollows
<1>8. CASE RefuseSession
  <2>1. slot' = slot /\ \A u \in Slot \ replaced' : slot[u].at = "idle"
    BY <1>8 DEF RefuseSession
  <2> QED
    BY <2>1 DEF Follows
<1>9. ASSUME NEW s \in Slot, RenderForm(s) PROVE Follows'
  BY <1>9 DEF RenderForm, Follows, Displayed
<1>10. ASSUME NEW s \in Slot, End(s) PROVE Follows'
  <2>1. slot'[s] = Idle /\ (\A u \in Slot \ {s} : slot'[u] = slot[u]) /\ replaced' = replaced \ {s} /\ jar' = jar
    BY <1>1, <1>10 DEF End
  <2> QED
    BY <2>1, IdleType DEF Follows, Displayed
<1>11. CASE Tick
  BY <1>11 DEF Tick, browser, Follows, Displayed
<1>12. CASE Restart
  <2>1. \A s \in Slot : slot'[s].at = "idle"
    BY <1>12, IdleType DEF Restart
  <2> QED
    BY <2>1 DEF Follows
<1> QED
  BY <1>2, <1>3, <1>4, <1>5, <1>6, <1>7, <1>8, <1>9, <1>10, <1>11, <1>12 DEF Next

\* A form arrives from a document, signed for the session of its request.
LEMMA FormsAreSigned ==
  ASSUME Base, Follows, Next, NEW p \in held' \ held
  PROVE \/ proofs'[p].session = jar'.session.id
        \/ \E s \in replaced : slot[s].at = "stream" /\ proofs'[p].session = Snapshot(s).id
<1>1. PICK s \in Slot : RenderForm(s)
  BY DEF Next, Get, Post, Open, Boundary, RefuseBody, Deny, Set, Rotate, Fails, Succeeds, Outlives, Leave, End,
     Answer, Streams, SetsCookie, RefuseSession, Tick, Restart, browser
<1>2. slot[s].at = "stream" /\ jar' = jar /\ p = Len(proofs) + 1
  BY <1>1 DEF RenderForm
<1>3. proofs'[p].session = Snapshot(s).id
  <2>1. PICK issue : issue = [session |-> Snapshot(s).id, issuedAt |-> now, process |-> process, key |-> keyring.active]
    OBVIOUS
  <2>2. proofs' = Append(proofs, issue) /\ issue.session = Snapshot(s).id
    BY <1>1, <2>1 DEF RenderForm
  <2> QED
    BY <1>2, <2>2 DEF Base, Issued
<1>4. Snapshot(s) = Displayed(slot[s])
  BY DEF Snapshot, Displayed
<1>5. CASE s \in replaced
  BY <1>2, <1>3, <1>5
<1>6. CASE s \notin replaced
  BY <1>2, <1>3, <1>4, <1>6 DEF Follows
<1> QED
  BY <1>5, <1>6

LEMMA BaseAlways == Spec => []Base
<1>1. Init => Base /\ Ledger
  BY BaseInit, LedgerInit
<1>2. Base /\ Ledger /\ [Next]_vars => Base' /\ Ledger'
  BY BaseKeeps, LedgerKeeps, Stutters
<1> QED
  BY <1>1, <1>2, PTL DEF Spec

\* No session carries what a failed action wrote, and the answer to a committed one carries what it wrote
\* (acceptMutation and discardMutation of action-server.ts).
THEOREM SessionsAreAtomic == Spec => SessionIsAtomic
<1> DEFINE Untainted == Clean(jar.session.values) /\ \A s \in Slot : Clean(slot[s].initial.values)
           Carried == \A s \in Slot : Written(s) /\ slot'[s].at # slot[s].at /\ jar' # jar =>
                         jar'.session = slot[s].publication
<1>1. Base => Untainted
  BY DEF Base, Jar, Requests, Handled
<1>2. Base /\ [Next]_vars => [Carried]_vars
  BY CommittedIsCarried
<1>3. Spec => []Untainted
  BY <1>1, BaseAlways, PTL
<1>4. Spec => [][Carried]_vars
  BY <1>2, BaseAlways, PTL DEF Spec
<1> QED
  BY <1>3, <1>4 DEF SessionIsAtomic

\* The forms a document's pulls sign (renderForm of action-server.ts) are signed for the session its head left
\* in the browser (cookie of its session), whatever happens in between.
THEOREM FormsAlwaysFollow == Spec => FormsFollowSession
<1> DEFINE Signed == \A p \in held' \ held :
                       \/ proofs'[p].session = jar'.session.id
                       \/ \E s \in replaced : slot[s].at = "stream" /\ proofs'[p].session = Snapshot(s).id
<1>1. Init => Follows
  BY IdleType DEF Init, Follows
<1>2. Base /\ Follows /\ [Next]_vars => Follows'
  <2> SUFFICES ASSUME Base, Follows, [Next]_vars PROVE Follows'
    OBVIOUS
  <2>1. CASE UNCHANGED vars
    BY <2>1 DEF vars, browser, Follows, Displayed
  <2> QED
    BY <2>1, FollowsKeeps
<1>3. Base /\ Follows /\ [Next]_vars => [Signed]_vars
  BY FormsAreSigned
<1>4. Spec => [][Signed]_vars
  BY <1>1, <1>2, <1>3, BaseAlways, PTL DEF Spec
<1> QED
  BY <1>4 DEF FormsFollowSession

-----------------------------------------------------------------------------
(* The response of a page.  It ends normally only when it is whole, the      *)
(* resource scope lives as long as the response, and every cut of a          *)
(* connected client is explained.  The reads of the resources cannot disturb *)
(* the response, share one load per key, and yield nothing once the request  *)
(* is over.                                                                  *)

(* How the lifecycle, the stream, the adapter and the route stand together.  *)
Agree ==
  /\ route.at \in {"page", "failure", "rejected"} => phase = "uncommitted"
  /\ phase = "uncommitted" => /\ stream = "none" /\ work = "none" /\ produced = 0
                              /\ reports.post = 0 /\ target.sent = 0
  /\ route.at \in {"page", "failure"} =>
       /\ adapter = "handler" /\ ~target.ended
       /\ target.destroyed <=> client = "gone"
  /\ aborted <=> client = "gone" \/ phase = "terminated"
  /\ Published => /\ stream = "readable" /\ ~aborted /\ work # "ended"
             /\ adapter \in {"reading", "draining"}
             /\ ~target.ended /\ ~target.destroyed
             /\ target.sent = produced /\ reports.post = 0
  /\ adapter = "draining" => Published /\ work = "idle"
  /\ phase = "completed" <=> stream = "closed"
  /\ phase = "completed" => target.ended /\ work = "ended" /\ ~target.destroyed
                            /\ target.sent = produced /\ reports.post = 0
  /\ phase = "cancelled" => client = "gone" /\ ~target.ended /\ reports.post = 0
  /\ phase = "terminated" => ~target.ended /\ target.destroyed /\ client = "connected"
  /\ phase = "terminated" /\ route.cause # "expected" => reports.post = 1
  /\ target.destroyed /\ client = "connected" => phase = "terminated"
  /\ target.destroyed => ~target.ended

ScopeInv ==
  /\ Published => ~closed
  /\ route.at \in {"returned", "rejected"} /\ ~Published => closed
  /\ route.at \in {"page", "failure"} /\ ~aborted => ~closed

Shape ==
  /\ client \in {"connected", "gone"} /\ aborted \in BOOLEAN /\ closed \in BOOLEAN
  /\ target \in [sent : Nat, ended : BOOLEAN, destroyed : BOOLEAN]
  /\ route \in [at : {"page", "failure", "returned", "rejected"},
                cause : {"none", "expected", "unexpected"}]
  /\ phase \in {"uncommitted", "head-published", "body-started", "completed",
                "terminated", "cancelled"}
  /\ produced \in Nat /\ reports \in [pre : Nat, post : Nat]

ResponseInv == Shape /\ Agree /\ ScopeInv
LEMMA ResponseInitInv == ResponseInit => ResponseInv
<1> SUFFICES ASSUME ResponseInit PROVE ResponseInv
  OBVIOUS
<1>1. /\ target.sent = 0 /\ ~target.ended /\ ~target.destroyed
      /\ route.at = "page" /\ reports.post = 0
      /\ target \in [sent : Nat, ended : BOOLEAN, destroyed : BOOLEAN]
      /\ reports \in [pre : Nat, post : Nat]
  BY DEF ResponseInit
<1>2. Shape
  BY <1>1 DEF ResponseInit, Shape
<1>3. Agree /\ ScopeInv
  BY <1>1 DEF ResponseInit, Agree, ScopeInv, Published
<1> QED BY <1>2, <1>3 DEF ResponseInv

(* Reads and loads change only the scope's bookkeeping, and do not close it. *)
LEMMA ReadsKeep ==
  ASSUME ResponseInv, UNCHANGED <<wire, route, body, reports, closed>>
  PROVE  ResponseInv'
BY DEF ResponseInv, Shape, Agree, ScopeInv, Published, wire, body

LEMMA PublishKeeps ==
  ASSUME ResponseInv, Publish, ~aborted, route.at \in {"page", "failure"}
  PROVE  ResponseInv'
<1>1. /\ ~closed /\ phase = "uncommitted" /\ produced = 0 /\ target.sent = 0
      /\ ~target.ended /\ ~target.destroyed /\ client = "connected" /\ reports.post = 0
  BY DEF ResponseInv, Shape, Agree, ScopeInv
<1>2. /\ route' \in [at : {"page", "failure", "returned", "rejected"},
                     cause : {"none", "expected", "unexpected"}]
      /\ route'.at = "returned" /\ route'.cause = route.cause
  BY DEF Publish, ResponseInv, Shape
<1>3. Shape'
  BY <1>2 DEF Publish, ResponseInv, Shape, scope
<1>4. Agree'
  BY <1>1, <1>2 DEF Publish, ResponseInv, Agree, Published
<1>5. ScopeInv'
  BY <1>1, <1>2 DEF Publish, scope, ScopeInv, Published
<1> QED BY <1>3, <1>4, <1>5 DEF ResponseInv

LEMMA CatchKeeps ==
  ASSUME ResponseInv, route.at = "page", NEW kind \in {"expected", "unexpected"}, Catch(kind),
         ~aborted => UNCHANGED closed, closed' \in BOOLEAN
  PROVE  ResponseInv'
<1>1. /\ route' = [at |-> "failure", cause |-> kind]
      /\ reports' \in [pre : Nat, post : Nat] /\ reports'.post = reports.post
      /\ UNCHANGED <<wire, body>>
  BY DEF Catch, Reported, ResponseInv, Shape
<1>2. phase = "uncommitted"
  BY DEF ResponseInv, Agree
<1>3. Shape'
  BY <1>1 DEF ResponseInv, Shape, wire, body
<1>4. Agree'
  BY <1>1, <1>2 DEF ResponseInv, Agree, Published, wire, body
<1>5. ScopeInv'
  BY <1>1, <1>2 DEF ResponseInv, ScopeInv, Published, wire, body
<1> QED BY <1>3, <1>4, <1>5 DEF ResponseInv

(* The page and its error page. *)
LEMMA RouteKeeps ==
  ASSUME ResponseInv, PageRenders \/ PageThrows \/ PageRedirects \/ FailureRenders
  PROVE  ResponseInv'
<1>1. CASE PageRenders
  <2>1. CASE aborted
    BY <1>1, <2>1, CatchKeeps DEF PageRenders, CloseScope
  <2>2. CASE ~aborted
    BY <1>1, <2>2, PublishKeeps DEF PageRenders
  <2> QED BY <2>1, <2>2
<1>2. CASE PageThrows
  BY <1>2, CatchKeeps DEF PageThrows, Closes_late, scope, ResponseInv, Shape
<1>3. CASE PageRedirects
  <2>1. /\ route' = [route EXCEPT !.at = "returned"] /\ closed' = TRUE /\ adapter' = "done"
        /\ target' = IF aborted THEN target ELSE [target EXCEPT !.ended = TRUE]
        /\ UNCHANGED <<client, aborted, body, reports>> /\ route.at = "page"
    BY <1>3 DEF PageRedirects, CloseScope
  <2>2. phase = "uncommitted" /\ (~aborted => ~target.destroyed) /\ (aborted <=> client = "gone")
    BY <2>1 DEF ResponseInv, Agree, Shape
  <2>3. Shape'
    BY <2>1 DEF ResponseInv, Shape, body
  <2>4. /\ route'.at = "returned" /\ target'.sent = target.sent
        /\ target'.destroyed = target.destroyed /\ (aborted => target' = target)
    BY <2>1 DEF ResponseInv, Shape
  <2>5. Agree'
    BY <2>1, <2>2, <2>4 DEF ResponseInv, Agree, Published, body
  <2>6. ScopeInv'
    BY <2>1, <2>2, <2>4 DEF ScopeInv, Published, body
  <2> QED BY <2>3, <2>5, <2>6 DEF ResponseInv
<1>4. CASE FailureRenders
  <2>1. CASE ~aborted
    BY <1>4, <2>1, PublishKeeps DEF FailureRenders
  <2>2. CASE aborted
    <3>1. /\ route' = [route EXCEPT !.at = "rejected"] /\ closed' = TRUE /\ adapter' = "done"
          /\ target' = [target EXCEPT !.destroyed = TRUE]
          /\ UNCHANGED <<client, aborted, body, reports>> /\ route.at = "failure"
      BY <1>4, <2>2 DEF FailureRenders, Forsaken, CloseScope
    <3>2. phase = "uncommitted" /\ client = "gone" /\ ~target.ended
      BY <2>2, <3>1 DEF ResponseInv, Agree, Shape
    <3>3. Shape'
      BY <3>1 DEF ResponseInv, Shape, body
    <3>4. /\ route'.at = "rejected" /\ target'.sent = target.sent
          /\ target'.ended = target.ended
      BY <3>1 DEF ResponseInv, Shape
    <3>5. Agree'
      BY <3>1, <3>2, <3>4 DEF ResponseInv, Agree, Published, body
    <3>6. ScopeInv'
      BY <3>1, <3>2, <3>4 DEF ScopeInv, Published, body
    <3> QED BY <3>3, <3>5, <3>6 DEF ResponseInv
  <2> QED BY <2>1, <2>2
<1> QED BY <1>1, <1>2, <1>3, <1>4

(* What comes after the lifecycle has ended changes nothing but the iterator. *)
LEMMA LateKeeps ==
  ASSUME ResponseInv, Late, work = "running",
         produced' = produced \/ produced' = produced + 1
  PROVE  ResponseInv'
<1>1. /\ ~Published /\ UNCHANGED <<wire, route, phase, stream, reports, scope>> /\ work' = "ended"
  BY DEF Late
<1>2. phase # "uncommitted" /\ phase # "completed"
  BY DEF ResponseInv, Agree
<1>3. produced' \in Nat
  BY DEF ResponseInv, Shape
<1>4. Shape'
  BY <1>1, <1>3 DEF ResponseInv, Shape, wire, scope
<1>5. Agree'
  BY <1>1, <1>2 DEF ResponseInv, Agree, Published, wire
<1>6. ScopeInv'
  BY <1>1 DEF ResponseInv, ScopeInv, Published, wire, scope
<1> QED BY <1>4, <1>5, <1>6 DEF ResponseInv

(* The document: a chunk, its end, or its failure. *)
LEMMA WorkKeeps ==
  ASSUME ResponseInv, WorkSteps
  PROVE  ResponseInv'
<1>1. work = "running"
  BY DEF WorkSteps, Yields, YieldsNothing, Finishes, Throws
<1>2. CASE Late /\ (produced' = produced \/ produced' = produced + 1)
  BY <1>1, <1>2, LateKeeps
<1>3. CASE Published /\ Yields
  <2>1. /\ produced' = produced + 1 /\ phase' = "body-started"
        /\ target' = [target EXCEPT !.sent = @ + 1]
        /\ \/ adapter' = "reading" /\ work' = "running"
           \/ adapter' = "draining" /\ work' = "idle"
        /\ UNCHANGED <<client, aborted, route, stream, reports, scope>>
    <3>1. ~Late
      BY <1>3 DEF Late
    <3> QED BY <1>3, <3>1 DEF Yields
  <2>2. /\ target'.sent = target.sent + 1 /\ target'.ended = target.ended
        /\ target'.destroyed = target.destroyed /\ target' \in [sent : Nat, ended : BOOLEAN, destroyed : BOOLEAN]
    BY <2>1 DEF ResponseInv, Shape
  <2>3. Shape'
    BY <2>1, <2>2 DEF ResponseInv, Shape, scope
  <2>4. route.at = "returned" /\ ~closed /\ target'.sent = produced'
    BY <1>3, <2>1, <2>2 DEF ResponseInv, Agree, ScopeInv, Published, Shape
  <2>5. Agree'
    BY <1>3, <2>1, <2>2, <2>4 DEF ResponseInv, Agree, Published
  <2>6. ScopeInv'
    BY <2>1, <2>4 DEF ScopeInv, Published, scope
  <2> QED BY <2>3, <2>5, <2>6 DEF ResponseInv
<1>4. CASE Published /\ Finishes
  <2>1. /\ phase' = "completed" /\ work' = "ended" /\ closed' = TRUE
        /\ stream' = "closed" /\ adapter' = "done" /\ aborted' = FALSE
        /\ target' = [target EXCEPT !.ended = TRUE]
        /\ UNCHANGED <<client, route, produced, reports>>
    BY <1>4 DEF Finishes, Late, Delivers, CloseScope
  <2>2. /\ target'.sent = target.sent /\ target'.ended
        /\ target'.destroyed = target.destroyed /\ target' \in [sent : Nat, ended : BOOLEAN, destroyed : BOOLEAN]
    BY <2>1 DEF ResponseInv, Shape
  <2>3. /\ route.at = "returned" /\ client = "connected" /\ ~target.destroyed
        /\ target.sent = produced /\ reports.post = 0
    BY <1>4 DEF ResponseInv, Agree, Published, Shape
  <2>4. Shape'
    BY <2>1, <2>2 DEF ResponseInv, Shape
  <2>5. Agree'
    BY <2>1, <2>2, <2>3 DEF Agree, Published
  <2>6. ScopeInv'
    BY <2>1, <2>3 DEF ScopeInv, Published
  <2> QED BY <2>4, <2>5, <2>6 DEF ResponseInv
<1>5. CASE Published /\ \E kind \in {"expected", "unexpected"} : Throws(kind)
  <2> PICK kind \in {"expected", "unexpected"} : Throws(kind)
    BY <1>5
  <2>1. /\ phase' = "terminated" /\ work' = "ended" /\ closed' = TRUE
        /\ stream' = "errored" /\ adapter' = "done" /\ aborted' = TRUE
        /\ target' = [target EXCEPT !.destroyed = TRUE]
        /\ route' = [route EXCEPT !.cause = kind]
        /\ reports' = [reports EXCEPT !.post = @ + Reported(kind)]
        /\ UNCHANGED <<client, produced>>
    BY <1>5 DEF Throws, Late, Delivers, CloseScope, Cut, Incident
  <2>2. /\ target'.sent = target.sent /\ target'.ended = target.ended /\ target'.destroyed
        /\ target' \in [sent : Nat, ended : BOOLEAN, destroyed : BOOLEAN]
    BY <2>1 DEF ResponseInv, Shape
  <2>3. /\ route'.at = route.at /\ route'.cause = kind
        /\ route' \in [at : {"page", "failure", "returned", "rejected"},
                       cause : {"none", "expected", "unexpected"}]
    BY <2>1 DEF ResponseInv, Shape
  <2>4. reports' \in [pre : Nat, post : Nat] /\ reports'.post = reports.post + Reported(kind)
    BY <2>1 DEF ResponseInv, Shape, Reported
  <2>5. route.at = "returned" /\ ~target.ended /\ reports.post = 0 /\ client = "connected"
    BY <1>5 DEF ResponseInv, Agree, Published, Shape
  <2>6. Shape'
    BY <2>1, <2>2, <2>3, <2>4 DEF ResponseInv, Shape
  <2>7. kind # "expected" => reports'.post = 1
    BY <2>4, <2>5 DEF Reported
  <2>8. Agree'
    BY <2>1, <2>2, <2>3, <2>5, <2>7 DEF Agree, Published
  <2>9. ScopeInv'
    BY <2>1, <2>3, <2>5 DEF ScopeInv, Published
  <2> QED BY <2>6, <2>8, <2>9 DEF ResponseInv
<1>6. CASE YieldsNothing
  <2>1. CASE Published
    <3>1. work' = "idle" /\ UNCHANGED <<wire, route, phase, stream, produced, reports, scope>>
      BY <1>6, <2>1 DEF YieldsNothing
    <3>2. Shape' /\ ScopeInv'
      BY <3>1 DEF ResponseInv, Shape, ScopeInv, Published, wire, scope
    <3>3. Agree'
      BY <2>1, <3>1 DEF ResponseInv, Agree, Published, wire
    <3> QED BY <3>2, <3>3 DEF ResponseInv
  <2>2. CASE ~Published
    <3>1. Late /\ produced' = produced
      BY <1>6, <2>2 DEF YieldsNothing, Late
    <3> QED BY <1>1, <3>1, LateKeeps
  <2> QED BY <2>1, <2>2
<1> QED BY <1>2, <1>3, <1>4, <1>5, <1>6 DEF WorkSteps, Yields, Finishes, Throws, Late

(* The client drains its buffer or goes away. *)
LEMMA ClientKeeps ==
  ASSUME ResponseInv, Drains \/ Disconnects
  PROVE  ResponseInv'
<1>1. CASE Drains
  <2>1. /\ adapter = "draining" /\ adapter' = "reading" /\ work' = "running"
        /\ UNCHANGED <<client, aborted, target, route, phase, stream, produced, reports, scope>>
    BY <1>1 DEF Drains
  <2>2. Published /\ route.at = "returned"
    BY <2>1 DEF ResponseInv, Agree, Published, Shape
  <2>3. Shape' /\ ScopeInv'
    BY <2>1 DEF ResponseInv, Shape, ScopeInv, Published, scope
  <2>4. Agree'
    BY <2>1, <2>2 DEF ResponseInv, Agree, Published
  <2> QED BY <2>3, <2>4 DEF ResponseInv
<1>2. CASE Disconnects
  <2>1. /\ client = "connected" /\ ~target.ended /\ client' = "gone" /\ aborted' = TRUE
        /\ target' = [target EXCEPT !.destroyed = TRUE]
        /\ UNCHANGED <<route, produced, reports>> /\ ~target.destroyed
    BY <1>2 DEF Disconnects
  <2>2. /\ target'.sent = target.sent /\ target'.ended = target.ended /\ target'.destroyed
        /\ target' \in [sent : Nat, ended : BOOLEAN, destroyed : BOOLEAN]
    BY <2>1 DEF ResponseInv, Shape
  <2>3. CASE Published
    <3>1. /\ phase' = "cancelled" /\ closed' = TRUE /\ stream' = "errored" /\ adapter' = "done"
      BY <1>2, <2>3 DEF Disconnects, Cancelled, CloseScope
    <3>2. route.at = "returned" /\ reports.post = 0
      BY <2>3 DEF ResponseInv, Agree, Published, Shape
    <3>3. Shape' /\ ScopeInv'
      BY <2>1, <2>2, <3>1, <3>2 DEF ResponseInv, Shape, ScopeInv, Published
    <3>4. Agree'
      BY <2>1, <2>2, <3>1, <3>2 DEF ResponseInv, Agree, Published
    <3> QED BY <3>3, <3>4 DEF ResponseInv
  <2>4. CASE ~Published
    <3>1. UNCHANGED <<phase, stream, adapter, work, closed>>
      BY <1>2, <2>4 DEF Disconnects, AbandonLoads
    <3>2. phase # "completed" /\ phase # "terminated"
      BY <2>1, <2>4 DEF ResponseInv, Agree
    <3>3. Shape' /\ ScopeInv'
      BY <2>1, <2>2, <2>4, <3>1 DEF ResponseInv, Shape, ScopeInv, Published
    <3>4. Agree'
      BY <2>1, <2>2, <2>4, <3>1, <3>2 DEF ResponseInv, Agree, Published
    <3> QED BY <3>3, <3>4 DEF ResponseInv
  <2> QED BY <2>3, <2>4
<1> QED BY <1>1, <1>2

LEMMA ResponseNextInv == ResponseInv /\ [ResponseNext]_responseVars => ResponseInv'
<1> SUFFICES ASSUME ResponseInv, [ResponseNext]_responseVars PROVE ResponseInv'
  OBVIOUS
<1>1. CASE \E r \in Reader, k \in Key : Read(r, k)
  BY <1>1, ReadsKeep DEF Read
<1>2. CASE \E k \in Key : LoaderSettles(k)
  BY <1>2, ReadsKeep DEF LoaderSettles
<1>3. CASE PageRenders \/ PageThrows \/ PageRedirects \/ FailureRenders
  BY <1>3, RouteKeeps
<1>4. CASE WorkSteps
  BY <1>4, WorkKeeps
<1>5. CASE Drains \/ Disconnects
  BY <1>5, ClientKeeps
<1>6. CASE UNCHANGED responseVars
  BY <1>6, ReadsKeep DEF responseVars, scope
<1> QED BY <1>1, <1>2, <1>3, <1>4, <1>5, <1>6 DEF ResponseNext, Over

THEOREM ResponseInvariance == ResponseSpec => []ResponseInv
BY ResponseInitInv, ResponseNextInv, PTL DEF ResponseSpec

(* A response that ends normally is the whole document: pull(), the lifecycle *)
(* and the adapter never pass a cut document off as complete.                *)
THEOREM WholeResponses == ResponseSpec => []WholeBody
<1>1. ResponseInv => WholeBody
  <2> SUFFICES ASSUME ResponseInv, target.ended PROVE
        /\ phase \in {"completed", "uncommitted"} /\ ~target.destroyed
        /\ target.sent = produced /\ (phase = "completed" => stream = "closed")
    BY DEF WholeBody
  <2>1. ~target.destroyed /\ (phase = "completed" => stream = "closed")
    BY DEF ResponseInv, Agree
  <2>2. phase \in {"completed", "uncommitted"}
    BY DEF ResponseInv, Agree, Shape, Published
  <2> QED BY <2>1, <2>2 DEF ResponseInv, Agree
<1> QED BY <1>1, ResponseInvariance, PTL

(* closeResources runs on every path, and never while the page, its error    *)
(* page or a live document may still read.                                   *)
THEOREM ScopeLifetime == ResponseSpec => []ScopeFollowsResponse
<1>1. ResponseInv => ScopeFollowsResponse
  BY DEF ResponseInv, ScopeInv, ScopeFollowsResponse
<1> QED BY <1>1, ResponseInvariance, PTL

(* A connected client's response is cut only for an expected error or a      *)
(* reported incident; a disconnect is never reported after publication.      *)
THEOREM ExplainedCuts == ResponseSpec => []CutsAreExplained
<1>1. ResponseInv => CutsAreExplained
  <2> SUFFICES ASSUME ResponseInv PROVE CutsAreExplained
    OBVIOUS
  <2>1. target.destroyed /\ client = "connected" => route.cause = "expected" \/ reports.post = 1
    BY DEF ResponseInv, Agree
  <2>2. reports.post = 1 => phase = "terminated"
    BY DEF ResponseInv, Agree, Published, Shape
  <2> QED BY <2>1, <2>2 DEF CutsAreExplained, ResponseInv, Agree
<1> QED BY <1>1, ResponseInvariance, PTL

(* No connected client is given a truncated document without a reason that   *)
(* somebody was told of.                                                     *)
THEOREM NoTruncation == ResponseSpec => []NoSilentTruncation
BY WholeResponses, ExplainedCuts, PTL DEF NoSilentTruncation

-----------------------------------------------------------------------------
(* The reads of the request.                                                 *)
ReadOutcomes == {"value", "expected", "unexpected"}
ReadShape ==
  /\ entry \in [Key -> ReadOutcomes \cup {"none", "loading", "cancelled"}]
  /\ loads \in [Key -> Nat]
  /\ reader \in [Reader -> [key : Key \cup {"none"}, got : Settled \cup {"none"}]]
Empty == closed => \A k \in Key : entry[k] = "none"
Once == \A k \in Key : loads[k] <= 1 /\ (~closed /\ entry[k] = "none" => loads[k] = 0)
Faithful ==
  ~closed => \A r \in Reader : reader[r].got \in ReadOutcomes =>
               reader[r].key \in Key /\ entry[reader[r].key] = reader[r].got
SameOutcome ==
  \A r, s \in Reader :
    reader[r].key = reader[s].key /\ reader[r].got \in ReadOutcomes /\ reader[s].got \in ReadOutcomes
    => reader[r].got = reader[s].got
Interrupted == aborted => \A k \in Key : entry[k] # "loading"
ReadInv == ReadShape /\ Empty /\ Once /\ Faithful /\ SameOutcome /\ Interrupted

(* Every step leaves the scope alone, ends it, settles its loads, or reads.  *)
LEMMA ScopeSteps ==
  ASSUME ResponseInv, [ResponseNext]_responseVars
  PROVE  \/ UNCHANGED scope /\ (aborted' => aborted)
         \/ CloseScope
         \/ AbandonLoads
         \/ \E r \in Reader, k \in Key : Read(r, k)
         \/ \E k \in Key : LoaderSettles(k)
<1>1. CASE PageRenders \/ PageThrows \/ PageRedirects \/ FailureRenders
  BY <1>1 DEF PageRenders, PageThrows, PageRedirects, FailureRenders, Catch, Publish,
              Closes_late, Forsaken, wire
<1>2. CASE WorkSteps
  <2>1. CASE Yields
    BY <2>1 DEF Yields, Late, wire
  <2>2. CASE Finishes
    BY <2>2 DEF Finishes, Late, wire
  <2>3. CASE \E kind \in {"expected", "unexpected"} : Throws(kind)
    BY <2>3 DEF Throws, Late, wire
  <2>4. CASE YieldsNothing
    BY <2>4 DEF YieldsNothing, wire
  <2> QED BY <1>2, <2>1, <2>2, <2>3, <2>4 DEF WorkSteps
<1>3. CASE Drains \/ Disconnects
  BY <1>3 DEF Drains, Disconnects, Cancelled
<1>4. CASE UNCHANGED responseVars
  BY <1>4 DEF responseVars, wire
<1> QED BY <1>1, <1>2, <1>3, <1>4 DEF ResponseNext, Over

LEMMA CloseKeepsReads ==
  ASSUME ReadInv, CloseScope
  PROVE  ReadInv'
<1>1. /\ entry' = [k \in Key |-> "none"] /\ closed' /\ loads' = loads /\ reader' = Abandoned
  BY DEF CloseScope
<1>2. \A r \in Reader : /\ reader'[r].key = reader[r].key
                        /\ reader'[r] \in [key : Key \cup {"none"}, got : Settled \cup {"none"}]
                        /\ reader'[r].got \in ReadOutcomes => reader'[r].got = reader[r].got
  BY <1>1 DEF Abandoned, ReadInv, ReadShape, Settled, ReadOutcomes
<1>3. ReadShape'
  BY <1>1, <1>2 DEF ReadInv, ReadShape, Abandoned
<1>4. (Empty /\ Faithful /\ Interrupted)'
  BY <1>1 DEF Empty, Faithful, Interrupted
<1>5. Once'
  BY <1>1 DEF ReadInv, Once
<1>6. SameOutcome'
  BY <1>2 DEF ReadInv, SameOutcome
<1> QED BY <1>3, <1>4, <1>5, <1>6 DEF ReadInv

LEMMA AbandonKeepsReads ==
  ASSUME ReadInv, AbandonLoads
  PROVE  ReadInv'
<1>1. /\ entry' = [k \in Key |-> IF entry[k] = "loading" THEN "cancelled" ELSE entry[k]]
      /\ closed' = closed /\ loads' = loads /\ reader' = Abandoned
  BY DEF AbandonLoads
<1>2. \A r \in Reader : /\ reader'[r].key = reader[r].key
                        /\ reader'[r] \in [key : Key \cup {"none"}, got : Settled \cup {"none"}]
                        /\ reader'[r].got \in ReadOutcomes => reader'[r].got = reader[r].got
  BY <1>1 DEF Abandoned, ReadInv, ReadShape, Settled, ReadOutcomes
<1>3. ReadShape'
  BY <1>1, <1>2 DEF ReadInv, ReadShape, Abandoned
<1>4. (Empty /\ Interrupted)'
  BY <1>1 DEF ReadInv, Empty, Interrupted
<1>5. Once'
  BY <1>1 DEF ReadInv, Once
<1>6. Faithful'
  BY <1>1, <1>2 DEF ReadInv, Faithful, ReadOutcomes
<1>7. SameOutcome'
  BY <1>2 DEF ReadInv, SameOutcome
<1> QED BY <1>3, <1>4, <1>5, <1>6, <1>7 DEF ReadInv

LEMMA ReadKeepsReads ==
  ASSUME ReadInv, NEW r \in Reader, NEW k \in Key, Read(r, k)
  PROVE  ReadInv'
<1>1. /\ closed' = closed /\ aborted' = aborted
  BY DEF Read, wire
<1>2. CASE UNCHANGED <<entry, loads>> /\ \E o \in {"refused", "cancelled", "none"} : Give(r, k, o)
  <2> PICK o \in {"refused", "cancelled", "none"} : Give(r, k, o)
    BY <1>2
  <2>1. reader' = [reader EXCEPT ![r] = [key |-> k, got |-> o]]
    BY DEF Give
  <2>2. o \notin ReadOutcomes /\ o \in Settled \cup {"none"}
    BY DEF ReadOutcomes, Settled
  <2>3. ReadShape'
    BY <1>2, <2>1, <2>2 DEF ReadInv, ReadShape
  <2>4. (Empty /\ Once /\ Interrupted)'
    BY <1>1, <1>2 DEF ReadInv, Empty, Once, Interrupted
  <2>5. \A q \in Reader : reader'[q].got \in ReadOutcomes => reader'[q] = reader[q]
    BY <2>1, <2>2 DEF ReadInv, ReadShape
  <2>6. (Faithful /\ SameOutcome)'
    BY <1>1, <1>2, <2>5 DEF ReadInv, Faithful, SameOutcome
  <2> QED BY <2>3, <2>4, <2>6 DEF ReadInv
<1>3. CASE UNCHANGED <<entry, loads>> /\ ~closed /\ entry[k] \in ReadOutcomes /\ Give(r, k, entry[k])
  <2>1. reader' = [reader EXCEPT ![r] = [key |-> k, got |-> entry[k]]]
    BY <1>3 DEF Give
  <2>2. ReadShape'
    BY <1>3, <2>1 DEF ReadInv, ReadShape, ReadOutcomes, Settled
  <2>3. (Empty /\ Once /\ Interrupted)'
    BY <1>1, <1>3 DEF ReadInv, Empty, Once, Interrupted
  <2>4. reader'[r] = [key |-> k, got |-> entry[k]] /\ \A q \in Reader \ {r} : reader'[q] = reader[q]
    BY <2>1 DEF ReadInv, ReadShape
  <2>5. Faithful'
    <3>1. \A q \in Reader : reader'[q].got \in ReadOutcomes =>
            reader'[q].key \in Key /\ entry[reader'[q].key] = reader'[q].got
      BY <1>3, <2>4 DEF ReadInv, Faithful
    <3> QED BY <1>3, <3>1 DEF Faithful
  <2>6. SameOutcome'
    BY <1>1, <1>3, <2>5 DEF Faithful, SameOutcome
  <2> QED BY <2>2, <2>3, <2>5, <2>6 DEF ReadInv
<1>4. CASE /\ ~closed /\ ~aborted /\ entry[k] = "none" /\ Give(r, k, "none")
           /\ entry' = [entry EXCEPT ![k] = "loading"]
           /\ loads' = [loads EXCEPT ![k] = @ + 1]
  <2>1. reader' = [reader EXCEPT ![r] = [key |-> k, got |-> "none"]]
    BY <1>4 DEF Give
  <2>2. ReadShape'
    BY <1>4, <2>1 DEF ReadInv, ReadShape
  <2>3. \A q \in Reader : reader'[q].got \in ReadOutcomes => reader'[q] = reader[q]
    BY <2>1 DEF ReadInv, ReadShape, ReadOutcomes
  <2>4. \A j \in Key : entry[j] # "none" => entry'[j] = entry[j]
    BY <1>4 DEF ReadInv, ReadShape
  <2>5. Faithful'
    BY <1>1, <2>3, <2>4 DEF ReadInv, Faithful, ReadOutcomes
  <2>6. SameOutcome'
    BY <2>3 DEF ReadInv, SameOutcome
  <2>7. (Empty /\ Interrupted)'
    BY <1>1, <1>4 DEF Empty, Interrupted
  <2>8. Once'
    <3> SUFFICES ASSUME NEW j \in Key
                 PROVE  loads'[j] <= 1 /\ (~closed' /\ entry'[j] = "none" => loads'[j] = 0)
      BY DEF Once
    <3>1. CASE j = k
      <4>1. entry'[k] = "loading" /\ loads'[k] = loads[k] + 1 /\ loads[k] = 0
        BY <1>4 DEF ReadInv, ReadShape, Once
      <4> QED BY <3>1, <4>1
    <3>2. CASE j # k
      <4>1. entry'[j] = entry[j] /\ loads'[j] = loads[j]
        BY <1>4, <3>2 DEF ReadInv, ReadShape
      <4> QED BY <1>1, <4>1 DEF ReadInv, Once
    <3> QED BY <3>1, <3>2
  <2> QED BY <2>2, <2>5, <2>6, <2>7, <2>8 DEF ReadInv
<1>5. entry[k] \in ReadOutcomes \cup {"none", "loading", "cancelled"}
  BY DEF ReadInv, ReadShape
<1> QED BY <1>2, <1>3, <1>4, <1>5 DEF Read

LEMMA SettleKeepsReads ==
  ASSUME ReadInv, NEW k \in Key, LoaderSettles(k)
  PROVE  ReadInv'
<1> PICK outcome \in {"value", "expected", "unexpected"} :
      entry' = [entry EXCEPT ![k] = outcome] /\ reader' = Answered(k, outcome)
  BY DEF LoaderSettles, Memo
<1>1. entry[k] = "loading" /\ closed' = closed /\ aborted' = aborted /\ loads' = loads
  BY DEF LoaderSettles, wire
<1>2. ~closed /\ outcome \in ReadOutcomes
  BY <1>1 DEF ReadInv, Empty, ReadOutcomes
<1>3. \A q \in Reader : reader'[q] = IF reader[q] = [key |-> k, got |-> "none"]
                                     THEN [key |-> k, got |-> outcome] ELSE reader[q]
  BY DEF Answered
<1>4. ReadShape'
  BY <1>1, <1>2, <1>3 DEF ReadInv, ReadShape, ReadOutcomes, Settled, Answered
<1>5. \A j \in Key \ {k} : entry'[j] = entry[j]
  BY DEF ReadInv, ReadShape
<1>6. entry'[k] = outcome
  BY DEF ReadInv, ReadShape
<1>7. (Empty /\ Interrupted)'
  BY <1>1, <1>2, <1>5, <1>6 DEF ReadInv, Empty, Interrupted
<1>8. Once'
  BY <1>1, <1>2, <1>5, <1>6 DEF ReadInv, Once, ReadOutcomes
<1>9. Faithful'
  <2> SUFFICES ASSUME NEW q \in Reader, reader'[q].got \in ReadOutcomes
               PROVE  reader'[q].key \in Key /\ entry'[reader'[q].key] = reader'[q].got
    BY DEF Faithful
  <2>1. CASE reader[q] = [key |-> k, got |-> "none"]
    BY <1>3, <1>6, <2>1
  <2>2. CASE reader[q] # [key |-> k, got |-> "none"]
    <3>1. reader'[q] = reader[q]
      BY <1>3, <2>2
    <3>2. reader[q].key \in Key /\ entry[reader[q].key] = reader[q].got
      BY <1>2, <3>1 DEF ReadInv, Faithful
    <3>3. reader[q].key # k
      BY <1>1, <3>1, <3>2 DEF ReadOutcomes
    <3> QED BY <1>5, <3>1, <3>2, <3>3
  <2> QED BY <2>1, <2>2
<1>10. SameOutcome'
  BY <1>1, <1>2, <1>9 DEF Faithful, SameOutcome
<1> QED BY <1>4, <1>7, <1>8, <1>9, <1>10 DEF ReadInv

LEMMA NextReadInv == ResponseInv /\ ReadInv /\ [ResponseNext]_responseVars => ReadInv'
<1> SUFFICES ASSUME ResponseInv, ReadInv, [ResponseNext]_responseVars PROVE ReadInv'
  OBVIOUS
<1>1. CASE UNCHANGED scope /\ (aborted' => aborted)
  BY <1>1 DEF scope, ReadInv, ReadShape, Empty, Once, Faithful, SameOutcome, Interrupted
<1> QED BY <1>1, ScopeSteps, CloseKeepsReads, AbandonKeepsReads, ReadKeepsReads, SettleKeepsReads

LEMMA InitReadInv == ResponseInit => ReadInv
<1> SUFFICES ASSUME ResponseInit PROVE ReadInv
  OBVIOUS
<1>1. \A r \in Reader : reader[r] = NoRead /\ NoRead.got \notin ReadOutcomes
  BY DEF ResponseInit, NoRead, ReadOutcomes
<1>2. ReadShape
  BY DEF ResponseInit, ReadShape, NoRead
<1>3. Empty /\ Once /\ Interrupted
  BY DEF ResponseInit, Empty, Once, Interrupted
<1> QED BY <1>1, <1>2, <1>3 DEF ReadInv, Faithful, SameOutcome

LEMMA ReadInvariance == ResponseSpec => []ReadInv
BY InitReadInv, NextReadInv, ResponseInvariance, PTL DEF ResponseSpec

(* resource.ts 317-357: equivalent reads of one request share one loader call *)
(* and, unless abandoned, one outcome, rejections included.                  *)
THEOREM ReadsShareLoads == ResponseSpec => []SharedLoads
<1>1. ReadInv => SharedLoads
  <2> SUFFICES ASSUME ReadInv PROVE SharedLoads
    OBVIOUS
  <2>1. \A r \in Reader : reader[r].got \in ReadOutcomes \cup {"none", "cancelled", "refused"}
    BY DEF ReadInv, ReadShape, Settled, ReadOutcomes
  <2> QED BY <2>1 DEF ReadInv, Once, SameOutcome, SharedLoads
<1> QED BY <1>1, ReadInvariance, PTL

(* After an abort or the end of the lifecycle nothing reaches the client and *)
(* no read yields a value, whatever the application still runs.              *)
THEOREM LateWork == ResponseSpec => LateWorkIsMute
<1>1. ResponseInv /\ ReadInv /\ [ResponseNext]_responseVars =>
        [aborted \/ phase \in {"completed", "terminated", "cancelled"} =>
           /\ target'.sent = target.sent
           /\ \A r \in Reader : reader'[r].got = "value" => reader[r].got = "value"]_responseVars
  <2> SUFFICES ASSUME ResponseInv, ReadInv, [ResponseNext]_responseVars,
                      aborted \/ phase \in {"completed", "terminated", "cancelled"}
               PROVE  /\ target'.sent = target.sent
                      /\ \A r \in Reader : reader'[r].got = "value" => reader[r].got = "value"
    OBVIOUS
  <2>1. ~Published /\ (aborted \/ closed)
    BY DEF ResponseInv, Agree, ScopeInv, Shape, Published
  <2>2. target'.sent = target.sent
    BY <2>1 DEF ResponseNext, Read, LoaderSettles, PageRenders, PageThrows, PageRedirects,
       FailureRenders, WorkSteps, Yields, YieldsNothing, Finishes, Throws, Drains, Disconnects, Over,
       Late, Catch, Publish, wire, responseVars, ResponseInv, Shape
  <2>3. CASE UNCHANGED scope
    BY <2>2, <2>3 DEF scope
  <2>4. CASE CloseScope \/ AbandonLoads
    <3>1. reader' = Abandoned
      BY <2>4 DEF CloseScope, AbandonLoads
    <3> QED BY <2>2, <3>1 DEF Abandoned, ReadInv, ReadShape
  <2>5. CASE \E r \in Reader, k \in Key : Read(r, k)
    <3> PICK r \in Reader, k \in Key : Read(r, k)
      BY <2>5
    <3>1. \E o \in {"refused", "cancelled"} : reader' = [reader EXCEPT ![r] = [key |-> k, got |-> o]]
      BY <2>1 DEF Read, Give
    <3> QED BY <2>2, <3>1 DEF ReadInv, ReadShape
  <2>6. ~\E k \in Key : LoaderSettles(k)
    BY <2>1 DEF LoaderSettles, ReadInv, Interrupted, Empty
  <2> QED BY ScopeSteps, <2>3, <2>4, <2>5, <2>6
<1> QED BY <1>1, ResponseInvariance, ReadInvariance, PTL DEF ResponseSpec, LateWorkIsMute
===============================================================================
