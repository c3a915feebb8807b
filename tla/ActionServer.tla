------------------------------ MODULE ActionServer ------------------------------
(***************************************************************************)
(* The action server and its sessions.  A browser keeps one session cookie  *)
(* and the forms of the documents it received; its requests run side by     *)
(* side.  action-server.ts opens a session per request, lets an action      *)
(* change it in a buffer, and publishes it with the head of the response;   *)
(* renderer.ts then streams the document, whose forms are signed as they are *)
(* reached;                                                                  *)
(* action-decision.ts issues a proof per rendered form and consumes it once *)
(* in a bounded ledger; session-decision.ts seals, opens and renews.        *)
(*                                                                         *)
(* A session's content is the proof of the last action that wrote it (0 for *)
(* none).  A proof is its position in `proofs`; its signature is abstracted *)
(* to the fields it binds.  Cryptography, fields and bodies are left out: a  *)
(* body may always be refused.                                              *)
(***************************************************************************)
EXTENDS Naturals, Sequences, FiniteSets

CONSTANTS
  Slot,                                   \* requests that may overlap
  proofLifetime, sessionLifetime, maximumBoundaryDuration,
  maximumReplayEntries, maximumSessionReplayEntries,
  MaxTime, MaxProof, MaxSession, MaxRestart   \* bounds of the instance

ASSUME ActionAssumption ==
  /\ proofLifetime \in Nat \ {0} /\ sessionLifetime \in Nat \ {0}
  /\ maximumBoundaryDuration \in Nat
  /\ maximumReplayEntries \in Nat \ {0} /\ maximumSessionReplayEntries \in Nat \ {0}
  /\ MaxTime \in Nat /\ MaxProof \in Nat /\ MaxSession \in Nat /\ MaxRestart \in Nat

VARIABLES
  now,       \* the clock of the server
  process,   \* which process runs: the identities of actions are drawn at its start
  keyring,   \* the sealing key and the keys that still open
  ledger,    \* DecisionReplayLedger: #entries, #perSession, #nextExpiry
  proofs,    \* every proof issued
  sessions,  \* number of session identities drawn
  slot,      \* ServerSession and progress of each request
  jar,       \* the cookie of the browser
  held,      \* proofs in the documents it received
  replaced,  \* history: requests whose session another response replaced in the jar
  ran,       \* history: how often each proof was admitted
  forgot,    \* history: the clock reading with which each proof was last pruned
  travels    \* history: proofs whose action committed

server == <<process, keyring>>
history == <<ran, forgot, travels>>
browser == <<jar, held, replaced>>
vars == <<now, server, ledger, proofs, sessions, slot, browser, history>>

Lesser(a, b) == IF a < b THEN a ELSE b
Expiry(id) == id.createdAt + sessionLifetime
Due(p) == Lesser(proofs[p].issuedAt + proofLifetime, Expiry(proofs[p].session))
Infinity == MaxTime + proofLifetime + 1

NoSession == [id |-> [n |-> 0, createdAt |-> 0], values |-> 0]
NoCookie == [session |-> NoSession, key |-> 0]
Idle == [at |-> "idle", startedAt |-> 0, opened |-> "none", initial |-> NoSession,
         current |-> 0, dirty |-> FALSE, rotated |-> FALSE, publication |-> NoSession,
         proof |-> 0, outcome |-> "none"]

EmptyLedger == [entries |-> {}, perSession |-> [n \in 1..MaxSession |-> 0],
                nextExpiry |-> Infinity]

Init ==
  /\ now = 0 /\ process = 0 /\ keyring = [active |-> 1, byId |-> {1}]
  /\ ledger = EmptyLedger /\ proofs = <<>> /\ sessions = 0
  /\ slot = [s \in Slot |-> Idle]
  /\ jar = NoCookie /\ held = {} /\ replaced = {}
  /\ ran = [p \in 1..MaxProof |-> 0] /\ forgot = [p \in 1..MaxProof |-> 0]
  /\ travels = {}

-----------------------------------------------------------------------------
(* Sessions.  A new identity is drawn for an absent cookie, for a privilege  *)
(* change and for a session that ended while its action ran.                 *)
NewSession(values) ==
  [id |-> [n |-> sessions + 1, createdAt |-> now], values |-> values]

(* openDecisionSession                                                       *)
Status(cookie) ==
  IF cookie = NoCookie THEN "missing"
  ELSE IF cookie.key \notin keyring.byId THEN "invalid"
  ELSE IF now >= Expiry(cookie.session.id) THEN "expired"
  ELSE IF cookie.key = keyring.active THEN "valid" ELSE "renew"

(* serve opens the session; a form is posted with the proof it was rendered   *)
(* with, a page is requested with none.                                      *)
Open(s, p) ==
  /\ slot[s].at = "idle"
  /\ Status(jar) \in {"missing", "valid", "renew"}
  /\ Status(jar) = "missing" => sessions < MaxSession
  /\ slot' = [slot EXCEPT ![s] =
       [Idle EXCEPT !.at = IF p = 0 THEN "page" ELSE "body", !.proof = p,
                    !.startedAt = IF p = 0 THEN 0 ELSE now, !.opened = Status(jar),
                    !.initial = IF Status(jar) = "missing" THEN NewSession(0) ELSE jar.session,
                    !.current = IF Status(jar) = "missing" THEN 0 ELSE jar.session.values]]
  /\ sessions' = IF Status(jar) = "missing" THEN sessions + 1 ELSE sessions
  /\ UNCHANGED <<now, server, ledger, proofs, browser, history>>

Get(s) == Open(s, 0)

(* validateProof reads the clock of the request's start and the fields the    *)
(* signature binds: the session, and the process through the action.         *)
Valid_anywhere(p, t, id) ==            \* mutant: the action's identity is not signed
  t < Due(p) /\ proofs[p].issuedAt <= t /\ proofs[p].session = id
Valid(p, t, id) ==
  /\ t < Due(p) /\ proofs[p].issuedAt <= t
  /\ proofs[p].key \in keyring.byId
  /\ proofs[p].session = id /\ proofs[p].process = process

(* Nothing that validity depends on changes while the process lives, so a     *)
(* form that will be refused is left out: its answer carries what a page      *)
(* without forms carries.                                                    *)
Post(s) == \E p \in held : Valid(p, now, jar.session.id) /\ Open(s, p)

(* An expired or unreadable cookie is answered with its deletion alone.      *)
RefuseSession ==
  /\ Status(jar) \in {"invalid", "expired"}
  /\ jar' = NoCookie /\ replaced' = {s \in Slot : slot[s].at # "idle"}
  /\ UNCHANGED <<now, server, ledger, proofs, sessions, slot, held, history>>

(* ServerSession.snapshot and cookie                                         *)
Snapshot_initial(s) == slot[s].initial    \* mutant: what the action published is ignored
Snapshot(s) == IF slot[s].publication # NoSession THEN slot[s].publication ELSE slot[s].initial

Sealed(session) == [session |-> session, key |-> keyring.active]
Cookie(s) ==
  CASE slot[s].publication # NoSession -> Sealed(slot[s].publication)
    [] slot[s].publication = NoSession /\ slot[s].opened = "renew" ->
         Sealed([slot[s].initial EXCEPT !.values = slot[s].current])
    [] slot[s].publication = NoSession /\ slot[s].opened = "missing" -> Sealed(slot[s].initial)
    [] OTHER -> NoCookie

(* Formatting or renewing the cookie of a session that has ended throws, and  *)
(* the response is lost with it.                                             *)
CookieThrows(s) == Cookie(s) # NoCookie /\ now >= Expiry(Cookie(s).session.id)

(* serve computes the cookie when #invokeBound has returned, and it arrives   *)
(* with the head of the response.                                            *)
Left(s) == IF Cookie(s) = NoCookie THEN jar ELSE Cookie(s)
SetsCookie(s) == ~CookieThrows(s) /\ jar' = Left(s) /\ UNCHANGED held

Overtaken(s) ==
  IF Left(s).session.id = jar.session.id THEN replaced \ {s}
  ELSE {u \in Slot \ {s} : slot[u].at # "idle"}

(* A response without forms, or one that never arrives.                      *)
Answer(s) ==
  /\ slot' = [slot EXCEPT ![s] = Idle]
  /\ \/ SetsCookie(s) /\ replaced' = Overtaken(s)
     \/ UNCHANGED <<jar, held>> /\ replaced' = replaced \ {s}

(* A document, whose body is yet to be pulled.                               *)
Streams(s) ==
  /\ SetsCookie(s) /\ slot' = [slot EXCEPT ![s].at = "stream"]
  /\ replaced' = Overtaken(s) \union IF Cookie(s) = NoCookie THEN replaced \cap {s} ELSE {}

-----------------------------------------------------------------------------
(* The replay ledger.                                                        *)
AtLimit(l, n) ==
  \/ Cardinality(l.entries) >= maximumReplayEntries
  \/ l.perSession[n] >= maximumSessionReplayEntries

OfSession(P, n) == {p \in P : proofs[p].session.n = n}
Kept(l, t) == {p \in l.entries : Due(p) > t}
Counts_kept(l, kept) == l.perSession     \* mutant: the counters are left alone
Counts(l, kept) ==
  [n \in 1..MaxSession |-> l.perSession[n] - Cardinality(OfSession(l.entries \ kept, n))]

(* #prune: the ledger without what is due, and the earliest of the rest.      *)
Swept(l, t) ==
  IF t < l.nextExpiry THEN {l}
  ELSE LET kept == Kept(l, t) IN
       {[entries |-> kept, perSession |-> Counts(l, kept), nextExpiry |-> next] :
          next \in {x \in {Due(p) : p \in kept} \union {Infinity} :
                      \A p \in kept : x <= Due(p)}}

Remember(l, p) ==
  [entries |-> l.entries \union {p},
   perSession |-> [l.perSession EXCEPT ![proofs[p].session.n] = @ + 1],
   nextExpiry |-> Lesser(l.nextExpiry, Due(p))]

(* executeDecisionAction's boundary: the body is complete in time, its proof  *)
(* is valid and the ledger takes it, pruning first when it is at a limit.    *)
Boundary(s) ==
  LET p == slot[s].proof  n == proofs[p].session.n  t == slot[s].startedAt IN
  /\ slot[s].at = "body" /\ now <= t + maximumBoundaryDuration
  /\ Valid(p, t, slot[s].initial.id) /\ p \notin ledger.entries
  /\ \E l \in IF AtLimit(ledger, n) THEN Swept(ledger, t) ELSE {ledger} :
       /\ forgot' = [q \in 1..MaxProof |->
                       IF q \in ledger.entries \ l.entries THEN t ELSE forgot[q]]
       /\ \/ /\ ~AtLimit(l, n)
             /\ ledger' = Remember(l, p)
             /\ ran' = [ran EXCEPT ![p] = @ + 1]
             /\ slot' = [slot EXCEPT ![s].at = "run", ![s].startedAt = 0]
             /\ UNCHANGED browser
          \/ /\ AtLimit(l, n)
             /\ ledger' = l /\ Answer(s)
             /\ UNCHANGED ran
  /\ UNCHANGED <<now, server, proofs, sessions, travels>>

(* A late or malformed body, an invalid or replayed proof.                   *)
RefuseBody(s) ==
  /\ slot[s].at = "body" /\ Answer(s)
  /\ UNCHANGED <<now, server, ledger, proofs, sessions, history>>

-----------------------------------------------------------------------------
(* The action.  authorize reads the session and may refuse or fail; run may   *)
(* change the buffer.  Granting changes nothing, so both share a phase.  A    *)
(* call of session.set after run returned reaches no cookie: only a renewal   *)
(* reads the buffer that late, and a browser that holds a form of this        *)
(* process already has a cookie with its key.                                *)
Deny(s) ==
  /\ slot[s].at = "run" /\ ~slot[s].dirty /\ Answer(s)
  /\ UNCHANGED <<now, server, ledger, proofs, sessions, history>>

Set(s) ==
  /\ slot[s].at = "run" /\ slot[s].current # slot[s].proof
  /\ slot' = [slot EXCEPT ![s].current = slot[s].proof, ![s].dirty = TRUE]
  /\ UNCHANGED <<now, server, ledger, proofs, sessions, browser, history>>

Rotate(s) ==
  /\ slot[s].at = "run" /\ ~slot[s].rotated /\ sessions < MaxSession
  /\ slot' = [slot EXCEPT ![s].rotated = TRUE, ![s].dirty = TRUE]
  /\ UNCHANGED <<now, server, ledger, proofs, sessions, browser, history>>

Discarded_accepted(s, result) ==         \* mutant: any failure publishes the buffer
  [slot[s] EXCEPT !.at = "page", !.outcome = result, !.dirty = FALSE,
                  !.publication = [slot[s].initial EXCEPT !.values = slot[s].current]]
Discarded(s, result) ==
  [slot[s] EXCEPT !.at = "page", !.outcome = result, !.current = slot[s].initial.values,
                  !.dirty = FALSE, !.rotated = FALSE, !.publication = NoSession]

(* run failed as expected, or unexpectedly (a refused redirect ends like an   *)
(* unexpected failure): what it wrote is discarded, and an expected failure   *)
(* that had written counts as an unexpected one.                             *)
Fails(s) ==
  /\ slot[s].at = "run"
  /\ \E outcome \in {"failure", "error"} :
       slot' = [slot EXCEPT ![s] =
         Discarded(s, IF slot[s].dirty /\ outcome = "failure" THEN "error" ELSE outcome)]
  /\ UNCHANGED <<now, server, ledger, proofs, sessions, browser, history>>

(* A failure declared to have changed state commits like a document.          *)
Committed == {"document", "redirect"}

(* acceptMutation, before the session's end: a changed session is renewed.    *)
Succeeds(s) ==
  /\ slot[s].at = "run" /\ now < Expiry(slot[s].initial.id)
  /\ slot[s].rotated => sessions < MaxSession
  /\ \E outcome \in Committed :
       slot' = [slot EXCEPT ![s].at = "page", ![s].outcome = outcome,
         ![s].dirty = FALSE, ![s].rotated = FALSE,
         ![s].publication =
            IF ~slot[s].dirty THEN NoSession
            ELSE IF slot[s].rotated THEN NewSession(slot[s].current)
            ELSE [slot[s].initial EXCEPT !.values = slot[s].current]]
  /\ sessions' = IF slot[s].rotated THEN sessions + 1 ELSE sessions
  /\ travels' = travels \union {slot[s].proof}
  /\ UNCHANGED <<now, server, ledger, proofs, browser, ran, forgot>>

(* acceptMutation, after it: only a fresh session is published.               *)
Outlives(s) ==
  /\ slot[s].at = "run" /\ now >= Expiry(slot[s].initial.id) /\ sessions < MaxSession
  /\ slot' = [slot EXCEPT ![s] = [Discarded(s, "error") EXCEPT
                !.current = 0, !.publication = NewSession(0)]]
  /\ sessions' = sessions + 1
  /\ UNCHANGED <<now, server, ledger, proofs, browser, history>>

-----------------------------------------------------------------------------
(* The page, requested or shown after an action, has returned.  After a       *)
(* redirect, a refused redirect or an error it was run for its revalidation   *)
(* alone, and is shown when it failed itself; the forms of a document that    *)
(* nobody is shown leave no trace.                                           *)
Leave(s) ==
  /\ slot[s].at = "page" /\ (Answer(s) \/ Streams(s))
  /\ UNCHANGED <<now, server, ledger, proofs, sessions, history>>

(* pull() reaches a form, which is given a proof of the snapshot and sent; it *)
(* throws once that session has ended, which ends the document.              *)
RenderForm(s) ==
  /\ slot[s].at = "stream" /\ Len(proofs) < MaxProof /\ now < Expiry(Snapshot(s).id)
  /\ proofs' = Append(proofs, [session |-> Snapshot(s).id, issuedAt |-> now,
                               process |-> process, key |-> keyring.active])
  /\ held' = held \union {Len(proofs) + 1}
  /\ UNCHANGED <<now, server, ledger, sessions, slot, jar, replaced, history>>

(* The document ends, fails, or loses its client.                            *)
End(s) ==
  /\ slot[s].at = "stream" /\ slot' = [slot EXCEPT ![s] = Idle]
  /\ replaced' = replaced \ {s}
  /\ UNCHANGED <<now, server, ledger, proofs, sessions, jar, held, history>>

Tick ==
  /\ now < MaxTime /\ now' = now + 1
  /\ UNCHANGED <<server, ledger, proofs, sessions, slot, browser, history>>

(* A new process draws new identities for its actions and starts an empty     *)
(* ledger; its keyring may lead with a new key and keep the old one.         *)
Restart ==
  /\ process < MaxRestart /\ process' = process + 1
  /\ keyring' \in {keyring, [active |-> keyring.active + 1,
                              byId |-> keyring.byId \union {keyring.active + 1}]}
  /\ ledger' = EmptyLedger /\ slot' = [s \in Slot |-> Idle] /\ replaced' = {}
  /\ UNCHANGED <<now, proofs, sessions, jar, held, history>>

Next ==
  \/ \E s \in Slot : Get(s) \/ Post(s)
  \/ RefuseSession
  \/ \E s \in Slot : Boundary(s) \/ RefuseBody(s)
  \/ \E s \in Slot : Deny(s) \/ Set(s) \/ Rotate(s)
  \/ \E s \in Slot : Fails(s) \/ Succeeds(s) \/ Outlives(s)
  \/ \E s \in Slot : Leave(s) \/ RenderForm(s) \/ End(s)
  \/ Tick \/ Restart

Spec == Init /\ [][Next]_vars

-----------------------------------------------------------------------------
Sessions == [id : [n : 0..MaxSession, createdAt : 0..MaxTime], values : 0..MaxProof]

TypeOK ==
  /\ now \in 0..MaxTime /\ process \in 0..MaxRestart /\ sessions \in 0..MaxSession
  /\ keyring.active \in keyring.byId
  /\ ledger \in [entries : SUBSET (1..Len(proofs)), perSession : [1..MaxSession -> Nat],
                 nextExpiry : 1..Infinity]
  /\ proofs \in Seq([session : [n : 1..MaxSession, createdAt : 0..MaxTime],
                     issuedAt : 0..MaxTime, process : 0..MaxRestart, key : Nat])
  /\ Len(proofs) <= MaxProof
  /\ \A s \in Slot :
       /\ slot[s].initial \in Sessions /\ slot[s].publication \in Sessions
       /\ slot[s].proof \in 0..Len(proofs) /\ slot[s].startedAt \in 0..now
  /\ held \subseteq 1..Len(proofs) /\ jar.session \in Sessions /\ replaced \subseteq Slot

(* The counters of the ledger agree with its entries, no limit is exceeded,   *)
(* and the expiry that lets #prune return early is the earliest one, so a     *)
(* ledger at a limit never keeps what is due (DecisionReplayLedger).         *)
LedgerExact ==
  /\ TypeOK
  /\ \A n \in 1..MaxSession :
       /\ ledger.perSession[n] = Cardinality(OfSession(ledger.entries, n))
       /\ ledger.perSession[n] <= maximumSessionReplayEntries
  /\ Cardinality(ledger.entries) <= maximumReplayEntries
  /\ \A p \in ledger.entries : ledger.nextExpiry <= Due(p)
  /\ ledger.nextExpiry = Infinity \/ \E p \in ledger.entries : ledger.nextExpiry = Due(p)

(* A proof runs its action once, whatever overlaps, resubmits or restarts.    *)
(* The exception is the code's: consume() compares with the clock of a        *)
(* request's start, so a request that started before the proof was due may    *)
(* run it again when its body ends after a later request has pruned it.      *)
OncePerProof ==
  \A p \in 1..MaxProof : ran[p] > 1 => p <= Len(proofs) /\ forgot[p] >= Due(p)

(* No session ever carries what a failed action wrote, and the response to a  *)
(* committed one carries what it wrote (#handleAction, acceptMutation,        *)
(* discardMutation).                                                         *)
Clean(values) == values = 0 \/ values \in travels
Written(s) == slot[s].publication # NoSession /\ slot[s].outcome \in Committed
SessionIsAtomic ==
  /\ [](Clean(jar.session.values) /\ \A s \in Slot : Clean(slot[s].initial.values))
  /\ [][\A s \in Slot : Written(s) /\ slot'[s].at # slot[s].at /\ jar' # jar =>
           jar'.session = slot[s].publication]_vars

(* A form that arrives is bound to the session in the browser, whatever       *)
(* happened between the head of its document, which set the cookie, and the   *)
(* pull that signed it: also after a rotation or the end of the old session.  *)
(* The exception is a document whose session another response replaced, after *)
(* its head had set it or, if its head set none, after it was requested       *)
(* (renderForm, cookie).                                                     *)
FormsFollowSession ==
  [][\A p \in held' \ held :
       \/ proofs'[p].session = jar'.session.id
       \/ \E s \in replaced : slot[s].at = "stream" /\ proofs'[p].session = Snapshot(s).id]_vars
=============================================================================
