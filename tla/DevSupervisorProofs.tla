-------------------------- MODULE DevSupervisorProofs --------------------------
(***************************************************************************)
(* Theorems about DevSupervisor, for any number of edits, children and      *)
(* signals and any set of faults.                                           *)
(***************************************************************************)
EXTENDS DevSupervisor, FiniteSetTheorems, TLAPS

\* Flags keeps the Booleans of records opaque to the provers.
Flags == BOOLEAN
Output == [generation : Nat, version : 0..MaxEdits]
States == {"starting", "ready", "preparing", "switching", "stopping", "stopped", "forced"}
Results == {"none", "ok", "failed", "interrupted"}

Refreshes == [place : Places, aborted : Flags, previous : 0..MaxChildren,
              candidate : 0..MaxChildren, version : 0..MaxEdits,
              expired : Flags, error : {"none", "failed", "interrupted"}]
Children == [Child -> [status : {"none", "starting", "listening", "exited"},
                       intentional : Flags, killed : Flags, generation : Nat,
                       environment : Nat]]
Closings == [place : {"none", "awaiting", "stopping", "done"}, closed : Flags, timer : Flags,
             forced : Flags, byFailure : Flags, expired : Flags]
Decisions == [state : States, accepted : Nat, candidate : Nat]
Commands == [place : {"startup", "serving", "exited"}, exit : {0, 1, 3}, last : Results]
Outputs == [now : Output, rollback : Output, open : Flags, left : Flags]

(* The variables have the values the code gives them. *)
Typed ==
  /\ work \in 1..MaxEdits /\ noticed \in 1..work /\ pending \in Flags
  /\ refresh \in Refreshes /\ refresh.version <= work
  /\ current \in 0..MaxChildren /\ children \subseteq Child
  /\ child \in Children
  /\ dist \in Outputs
  /\ dist.now.version <= work /\ dist.rollback.version <= work
  /\ sequence \in Nat
  /\ decision \in Decisions
  /\ closing \in Closings
  /\ command \in Commands

(* The one child that may be alive, unless it is dying after a failed commit. *)
Owner == IF refresh.place \in {"starting", "restoring"} THEN refresh.candidate ELSE current

(* Where a refresh stands decides who may be alive and what is in dist. *)
Placed ==
  /\ \A c \in Child : Alive(c) => c = Owner \/ (dist.left /\ child[c].killed)
  /\ refresh.place \in {"accepting", "starting"} => current = 0
  /\ refresh.place = "draining" => refresh.previous = current /\ current # 0
  /\ refresh.place \in {"starting", "restoring"} =>
       /\ refresh.candidate \in Child
       /\ child[refresh.candidate].generation = dist.now.generation
       /\ dist.left \/ child[refresh.candidate].environment = dist.now.generation
  /\ dist.open <=> refresh.place = "starting"
  /\ dist.open => ~dist.left
  /\ ServerMatchesDist

(* The environment a restart would use is the one dist was accepted with. *)
Equipped ==
  /\ current # 0 => child[current].status # "none"
  /\ refresh.previous # 0 => child[refresh.previous].status # "none"
  /\ ~dist.left =>
       /\ current # 0 => child[current].environment = dist.now.generation
       /\ (refresh.place = "accepting" /\ refresh.previous # 0)
            => child[refresh.previous].environment = dist.now.generation
       /\ (refresh.place = "starting" /\ refresh.previous # 0)
            => child[refresh.previous].environment = dist.rollback.generation

(* A switch that is not interrupted is one the decision model knows of. *)
Decided ==
  /\ (refresh.place \in {"accepting", "starting"} /\ refresh.previous # 0 /\ ~refresh.aborted)
       => decision.state = "switching"
  /\ (refresh.place = "starting" /\ ~child[refresh.candidate].killed
        /\ child[refresh.candidate].status = "starting") => ~refresh.aborted
  /\ (refresh.place # "idle" /\ ~refresh.aborted) => Accepting

(* The shutdown goes on only when no refresh is active. *)
Closed ==
  /\ closing.closed <=> closing.place \in {"stopping", "done"}
  /\ closing.closed => refresh.place = "idle"
  /\ closing.place = "done" => current = 0
  /\ closing.timer => ~Accepting
  /\ command.place = "exited" => ~Accepting
  /\ (command.place = "exited" /\ command.exit = 0) => closing.place = "done" /\ decision.state = "stopped"

(* An edit that was noticed is pending or in the files of the refresh. *)
Informed ==
  /\ (Accepting /\ refresh.place # "idle" /\ ~pending) => ~refresh.aborted /\ refresh.version >= noticed
  /\ refresh.place = "starting" => dist.now.version = refresh.version
  /\ refresh.place = "restoring" => refresh.error # "none"
  /\ (refresh.place = "restoring" /\ refresh.error = "interrupted") => refresh.aborted
  /\ (command.place = "serving" /\ Accepting /\ refresh.place = "idle" /\ ~pending)
       => command.last = "failed" \/ (command.last = "ok" /\ dist.now.version >= noticed)

(* A child that has not been forced has not been asked to stop either. *)
Candidate ==
  /\ refresh.place # "idle" => sequence # 0
  /\ refresh.place = "starting" => dist.now.generation = sequence
  /\ (refresh.place \in {"starting", "restoring"} /\ child[refresh.candidate].status = "starting"
        /\ ~child[refresh.candidate].killed) => ~child[refresh.candidate].intentional

(* Restarts succeed when no fault says otherwise and dist was never left     *)
(* half moved.                                                               *)
Restartable == "restart-fails" \notin faults /\ ~dist.left

(* Then dist, or what a rollback would put back, is what the decision model  *)
(* has accepted; ...                                                         *)
Kept(o) == IF o.open THEN o.rollback ELSE o.now
Judged == Restartable => Kept(dist).generation = decision.accepted

(* ... until its first server is ready the command has none, ... *)
Starting ==
  /\ current = 0 /\ refresh.previous = 0 /\ decision.state = "starting"
  /\ refresh.place \in {"idle", "analyzing", "accepting", "starting"}
  /\ sequence = IF refresh.place = "idle" THEN 0 ELSE 1

(* ... and then there is always a server to stop or to restart; ... *)
Running ==
  /\ decision.accepted # 0
  /\ refresh.place \in {"idle", "analyzing"} => current # 0
  /\ refresh.place \in {"accepting", "starting"} => refresh.previous # 0
  /\ refresh.place = "idle" => decision.state = "ready"
  /\ refresh.place \in {"analyzing", "draining"} => decision.state = "preparing"
  /\ refresh.place \in {"accepting", "starting", "restoring"} => decision.state = "switching"
  /\ refresh.place = "restoring" =>
       child[refresh.candidate].status = "starting" /\ ~child[refresh.candidate].killed

Continued == (Restartable /\ Accepting) => IF command.place = "startup" THEN Starting ELSE Running

(* ... which serves, unless it outlasts its drain deadline. *)
Serves(c) ==
  /\ c # 0 /\ child[c].status = "listening"
  /\ ~child[c].killed /\ ~child[c].intentional
Serving ==
  /\ refresh.place \in {"idle", "analyzing"} => Serves(current)
  /\ refresh.place \in {"analyzing", "draining"} => ~refresh.expired

Calm == Restartable /\ "drain-deadline" \notin faults
LastGood == (Calm /\ Accepting /\ command.place # "startup") => Serving
-----------------------------------------------------------------------------
(* What the parts of the actions do. *)

LEMMA NextChildFree ==
  ASSUME Spawnable # {}
  PROVE NextChild \in Child /\ child[NextChild].status = "none"
<1> DEFINE S == Spawnable
           Below == {i \in 1..MaxChildren : \A s \in S : i <= s}
           k == Cardinality(Below)
<1>1. S \subseteq 1..MaxChildren /\ MaxChildren \in Nat \ {0}
  BY DevAssumption DEF Spawnable, Child
<1>2. IsFiniteSet(1..MaxChildren)
  BY <1>1, FS_Interval
<1>3. PICK b : b = Below
  OBVIOUS
<1>4. \A i \in 1..MaxChildren : i \in b <=> \A s \in S : i <= s
  BY <1>3
<1>5. b \subseteq 1..MaxChildren /\ 1 \in b
  BY <1>1, <1>3
<1>6. PICK n : n = Cardinality(b)
  OBVIOUS
<1>7. IsFiniteSet(b) /\ n \in Nat
  BY <1>2, <1>5, <1>6, FS_Subset, FS_CardinalityType
<1> HIDE DEF Below, k, S
<1>8. \A i \in b : 1..i \subseteq b
  <2> SUFFICES ASSUME NEW i \in b, NEW j \in 1..i PROVE j \in b
    OBVIOUS
  <2>1. i \in 1..MaxChildren /\ j \in 1..MaxChildren
    BY <1>1, <1>5
  <2>2. \A s \in S : j <= s
    BY <1>1, <1>4, <2>1
  <2> QED
    BY <1>4, <2>1, <2>2
<1>9. \A i \in Nat : IsFiniteSet(1..i) /\ Cardinality(1..i) = i
  <2> TAKE i \in Nat
  <2>1. IsFiniteSet(1..i) /\ Cardinality(1..i) = IF 1 > i THEN 0 ELSE i - 1 + 1
    BY FS_Interval
  <2> QED
    BY <2>1
<1>10. \A i \in b : i <= n
  <2> TAKE i \in b
  <2>1. i \in Nat /\ 1..i \subseteq b
    BY <1>5, <1>8
  <2> QED
    BY <1>6, <1>7, <1>9, <2>1, FS_Subset
<1>11. n \in b
  <2> SUFFICES ASSUME n \notin b PROVE FALSE
    OBVIOUS
  <2>1. n >= 1
    BY <1>5, <1>10
  <2>2. PICK m \in Nat : n = m + 1
    <3>1. n - 1 \in Nat /\ n = (n - 1) + 1
      BY <1>7, <2>1
    <3> QED
      BY <3>1
  <2>3. b \subseteq 1..m
    <3> SUFFICES ASSUME NEW i \in b PROVE i \in 1..m
      OBVIOUS
    <3>1. i \in Nat \ {0} /\ i <= n /\ i # n
      BY <1>5, <1>10
    <3> QED
      BY <1>7, <2>2, <3>1
  <2>4. IsFiniteSet(1..m) /\ Cardinality(1..m) = m
    BY <1>9
  <2>5. n <= m
    BY <1>6, <2>3, <2>4, FS_Subset
  <2> QED
    BY <2>2, <2>5
<1>12. n \in S
  <2> SUFFICES ASSUME n \notin S PROVE FALSE
    OBVIOUS
  <2>1. n \in 1..MaxChildren /\ \A s \in S : n <= s
    BY <1>4, <1>5, <1>11
  <2>2. \A s \in S : n + 1 <= s
    BY <1>1, <2>1
  <2>3. PICK s \in S : TRUE
    BY DEF S
  <2>4. n + 1 \in 1..MaxChildren
    BY <1>1, <2>1, <2>2, <2>3
  <2>5. n + 1 \in b
    BY <1>4, <2>2, <2>4
  <2> QED
    BY <1>7, <1>10, <2>5
<1>13. \A s \in S : n <= s
  BY <1>4, <1>5, <1>11
<1>14. NextChild \in Spawnable
  BY <1>12, <1>13 DEF NextChild, S
<1> QED
  BY <1>14 DEF Spawnable

LEMMA KilledKeeps ==
  ASSUME NEW ch \in Children, NEW S
  PROVE /\ Killed(ch, S) \in Children
        /\ \A c \in Child : /\ Killed(ch, S)[c].status = ch[c].status
                            /\ Killed(ch, S)[c].generation = ch[c].generation
                            /\ Killed(ch, S)[c].environment = ch[c].environment
                            /\ Killed(ch, S)[c] = ch[c] \/ (c \in S /\ Killed(ch, S)[c].killed)
        /\ \A c \in Child : (c \in S /\ ch[c].status \in {"starting", "listening"}) => Killed(ch, S)[c].killed
<1>1. PICK yes \in Flags : yes = TRUE
  BY DEF Flags
<1>2. \A c \in Child : Killed(ch, S)[c] = IF c \in S /\ ch[c].status \in {"starting", "listening"}
                                          THEN [ch[c] EXCEPT !.killed = yes, !.intentional = yes] ELSE ch[c]
  BY <1>1, Zenon DEF Killed
<1>3. \A c \in Child : [ch[c] EXCEPT !.killed = yes, !.intentional = yes].killed = yes
  BY DEF Children
<1>4. Killed(ch, S) = [c \in Child |-> Killed(ch, S)[c]]
  BY DEF Killed
<1>5. \A c \in Child : Killed(ch, S)[c] \in [status : {"none", "starting", "listening", "exited"},
                       intentional : Flags, killed : Flags, generation : Nat, environment : Nat]
  BY <1>2 DEF Children
<1>6. Killed(ch, S) \in Children
  BY <1>4, <1>5 DEF Children
<1>7. \A c \in Child : [ch[c] EXCEPT !.killed = yes, !.intentional = yes].killed
  BY <1>1, <1>3, Zenon
<1>8. \A c \in Child : /\ [ch[c] EXCEPT !.killed = yes, !.intentional = yes].status = ch[c].status
                       /\ [ch[c] EXCEPT !.killed = yes, !.intentional = yes].generation = ch[c].generation
                       /\ [ch[c] EXCEPT !.killed = yes, !.intentional = yes].environment = ch[c].environment
  BY DEF Children
<1> QED
  BY <1>2, <1>6, <1>7, <1>8, Zenon
LEMMA SpawnedKeeps ==
  ASSUME NEW ch \in Children, NEW c \in Child, NEW g \in Nat, NEW e \in Nat
  PROVE /\ Spawned(ch, c, g, e) \in Children
        /\ Spawned(ch, c, g, e)[c].status = "starting" /\ Spawned(ch, c, g, e)[c].generation = g
        /\ Spawned(ch, c, g, e)[c].environment = e
        /\ ~Spawned(ch, c, g, e)[c].killed /\ ~Spawned(ch, c, g, e)[c].intentional
        /\ \A d \in Child : d # c => Spawned(ch, c, g, e)[d] = ch[d]
<1>1. PICK no \in Flags : no = FALSE
  BY DEF Flags
<1>2. PICK new : new = [status |-> "starting", intentional |-> no, killed |-> no,
                         generation |-> g, environment |-> e]
  OBVIOUS
<1>3. Spawned(ch, c, g, e) = [ch EXCEPT ![c] = new]
  BY <1>1, <1>2, Zenon DEF Spawned
<1>4. new \in [status : {"none", "starting", "listening", "exited"},
              intentional : Flags, killed : Flags, generation : Nat, environment : Nat]
  BY <1>2
<1>5. new.killed = no /\ new.intentional = no /\ new.status = "starting"
      /\ new.generation = g /\ new.environment = e
  BY <1>2
<1>6. ~new.killed /\ ~new.intentional
  BY <1>1, <1>5, Zenon
<1>7. Spawned(ch, c, g, e) \in Children /\ Spawned(ch, c, g, e)[c] = new
      /\ \A d \in Child : d # c => Spawned(ch, c, g, e)[d] = ch[d]
  BY <1>3, <1>4 DEF Children
<1> QED
  BY <1>5, <1>6, <1>7, Zenon

LEMMA AbortedKeeps ==
  ASSUME refresh \in Refreshes
  PROVE /\ AbortedRefresh \in Refreshes
        /\ AbortedRefresh.place = refresh.place /\ AbortedRefresh.previous = refresh.previous
        /\ AbortedRefresh.candidate = refresh.candidate /\ AbortedRefresh.version = refresh.version
        /\ AbortedRefresh.expired = refresh.expired /\ AbortedRefresh.error = refresh.error
        /\ IF refresh.place = "idle" THEN AbortedRefresh = refresh ELSE AbortedRefresh.aborted
<1>1. PICK yes \in Flags : yes = TRUE
  BY DEF Flags
<1>2. AbortedRefresh = IF refresh.place = "idle" THEN refresh ELSE [refresh EXCEPT !.aborted = yes]
  BY <1>1, Zenon DEF AbortedRefresh
<1>3. refresh.place # "idle" => AbortedRefresh.aborted = yes
  BY <1>2 DEF Refreshes
<1>4. refresh.place # "idle" => AbortedRefresh.aborted
  BY <1>1, <1>3, Zenon
<1> QED
  BY <1>2, <1>4 DEF Refreshes

LEMMA IdleKeeps == /\ Idle \in Refreshes /\ Idle.place = "idle" /\ Idle.previous = 0
                   /\ Idle.candidate = 0 /\ Idle.version = 0 /\ ~Idle.aborted /\ ~Idle.expired
<1>1. PICK no \in Flags : no = FALSE
  BY DEF Flags
<1>2. Idle = [place |-> "idle", aborted |-> no, previous |-> 0, candidate |-> 0,
              version |-> 0, expired |-> no, error |-> "none"]
  BY <1>1, Zenon DEF Idle
<1>3. Idle.aborted = no /\ Idle.expired = no
  BY <1>2
<1> QED
  BY <1>1, <1>2, <1>3, DevAssumption DEF Refreshes, Places

(* A settled refresh is idle; it ends the command when it was the first and  *)
(* failed, and otherwise a failure puts the decision model back to ready.    *)
LEMMA SettleKeeps ==
  ASSUME NEW result \in Results \ {"none"}, NEW d \in Decisions, command \in Commands, closing \in Closings,
         command.place = "exited" => ~Accepting,
         Settle(result, d), AfterSettle(result)
  PROVE /\ refresh' = Idle
        /\ decision' \in Decisions /\ decision'.accepted = d.accepted
        /\ decision'.state \in {d.state, "ready"}
        /\ (result = "ok" \/ ~Accepting) => decision' = d
        /\ d.state \in {"ready", "preparing", "switching"} => (result = "ok" \/ ~Accepting \/ decision'.state = "ready")
        /\ command' \in Commands /\ closing' \in Closings /\ command'.last = result
        /\ command'.place = command.place \/ (command.place = "startup" /\ Accepting)
        /\ closing' = closing \/ (command.place = "startup" /\ Accepting /\ result # "ok")
        /\ closing'.closed = closing.closed /\ closing'.timer = closing.timer
        /\ closing'.place \in {closing.place, "awaiting"}
        /\ closing'.place = "awaiting" \/ closing' = closing
        /\ (command.place = "startup" /\ Accepting) =>
             IF result = "ok" THEN command'.place = "serving"
             ELSE command'.place = "exited" /\ command'.exit # 0 /\ closing'.place = "awaiting"
        /\ ~(command.place = "startup" /\ Accepting) => command'.exit = command.exit
<1>1. refresh' = Idle /\ decision' = IF result # "ok" /\ Accepting /\ d.state # "starting"
                                    THEN Refused(d) ELSE d
  BY DEF Settle
<1>2. /\ decision' \in Decisions /\ decision'.accepted = d.accepted
      /\ decision'.state \in {d.state, "ready"}
      /\ d.state \in {"ready", "preparing", "switching"} => (result = "ok" \/ ~Accepting \/ decision'.state = "ready")
  BY <1>1 DEF Refused, Decisions, States
<1>3. PICK code \in {1, 3} :
        command' = IF command.place = "startup" /\ Accepting
                   THEN IF result = "ok" THEN [command EXCEPT !.place = "serving", !.last = "ok"]
                        ELSE [command EXCEPT !.place = "exited", !.last = result, !.exit = code]
                   ELSE [command EXCEPT !.last = result]
  BY DEF Settle
<1>4. /\ command' \in Commands /\ command'.last = result
      /\ command'.place = command.place \/ (command.place = "startup" /\ Accepting)
      /\ (command.place = "startup" /\ Accepting) =>
           IF result = "ok" THEN command'.place = "serving"
           ELSE command'.place = "exited" /\ command'.exit # 0
      /\ ~(command.place = "startup" /\ Accepting) => command'.exit = command.exit
  <2>1. CASE command.place = "startup" /\ Accepting /\ result = "ok"
    BY <1>3, <2>1 DEF Commands, Results
  <2>2. CASE command.place = "startup" /\ Accepting /\ result # "ok"
    <3>1. command' = [command EXCEPT !.place = "exited", !.last = result, !.exit = code]
      BY <1>3, <2>2
    <3>2. result \in Results /\ code \in {0, 1, 3} /\ code # 0
      OBVIOUS
    <3>3. /\ command'.place = "exited" /\ command'.last = result /\ command'.exit = code
          /\ command' \in Commands
      BY <3>1, <3>2 DEF Commands
    <3> QED
      BY <2>2, <3>2, <3>3
  <2>3. CASE ~(command.place = "startup" /\ Accepting)
    BY <1>3, <2>3 DEF Commands, Results
  <2> QED
    BY <2>1, <2>2, <2>3
<1>5. /\ closing' \in Closings
      /\ closing' = closing \/ (command.place = "startup" /\ Accepting /\ result # "ok")
      /\ closing'.closed = closing.closed /\ closing'.timer = closing.timer
      /\ closing'.place = "awaiting" \/ closing' = closing
      /\ (command.place = "startup" /\ Accepting /\ result # "ok") => closing'.place = "awaiting"
  BY DEF AfterSettle, Closings
<1> QED
  BY <1>1, <1>2, <1>4, <1>5

(* Shutting down aborts the refresh and kills what it is starting. *)
LEMMA ShutdownKeeps ==
  ASSUME NEW ch \in Children, NEW failure \in Flags, decision \in Decisions, closing \in Closings,
         command \in Commands, pending \in Flags, Shutdown(ch, failure)
  PROVE /\ refresh' = AbortedRefresh /\ pending' \in Flags
        /\ \E S : child' = Killed(ch, S) /\ AbortKills \subseteq S
        /\ decision' = Signalled(decision) /\ decision' \in Decisions
        /\ decision'.accepted = decision.accepted
        /\ closing' \in Closings /\ closing'.closed = closing.closed /\ ~Accepting'
        /\ closing'.place = IF Accepting THEN "awaiting" ELSE closing.place
        /\ command' \in Commands
        /\ IF command.place = "exited" THEN command' = command
           ELSE command'.place = "exited" => command'.exit # 0
<1>1. PICK yes \in Flags : yes = TRUE
  BY DEF Flags
<1>2. decision' = Signalled(decision) /\ refresh' = AbortedRefresh
  BY DEF Shutdown
<1>3. decision' \in Decisions /\ decision'.accepted = decision.accepted
  BY <1>2 DEF Signalled, Decisions, States
<1>4. pending' \in Flags
  BY DEF Shutdown, Flags
<1>5. \E S : child' = Killed(ch, S) /\ AbortKills \subseteq S
  BY DEF Shutdown
<1>6. CASE closing.place # "none"
  <2>1. closing' = [closing EXCEPT !.forced = yes]
    BY <1>1, <1>6, Zenon DEF Shutdown
  <2>2. closing' \in Closings /\ closing'.closed = closing.closed /\ closing'.place = closing.place
    BY <2>1 DEF Closings
  <2>3. command' = IF command.place = "exited" THEN command
                   ELSE [command EXCEPT !.place = "exited", !.exit = 3]
    BY <1>6 DEF Shutdown
  <2>4. command' \in Commands /\ IF command.place = "exited" THEN command' = command
                                ELSE command'.exit = 3
    BY <2>3 DEF Commands
  <2> QED
    BY <1>2, <1>3, <1>4, <1>5, <1>6, <2>2, <2>4 DEF Accepting
<1>7. CASE closing.place = "none"
  <2>1. closing' = [closing EXCEPT !.place = "awaiting", !.timer = yes, !.byFailure = failure]
    BY <1>1, <1>7, Zenon DEF Shutdown
  <2>2. closing' \in Closings /\ closing'.closed = closing.closed /\ closing'.place = "awaiting"
    BY <2>1 DEF Closings
  <2>3. command' = IF command.place = "startup"
                     THEN [command EXCEPT !.place = "serving"] ELSE command
    BY <1>7 DEF Shutdown
  <2>4. command' \in Commands /\ IF command.place = "exited" THEN command' = command
                                ELSE command'.place # "exited"
    BY <2>3 DEF Commands
  <2> QED
    BY <1>2, <1>3, <1>4, <1>5, <1>7, <2>2, <2>4 DEF Accepting
<1> QED
  BY <1>6, <1>7

(* What becomes of the output when a switch fails. *)
LEMMA RolledBackKeeps ==
  ASSUME NEW o \in Outputs
  PROVE /\ RolledBack(o) \in Outputs /\ ~RolledBack(o).open
        /\ RolledBack(o).now = Kept(o) /\ RolledBack(o).left = o.left
        /\ RolledBack(o).rollback = o.rollback \/ RolledBack(o).rollback = NoOutput
<1>1. PICK no \in Flags : no = FALSE
  BY DEF Flags
<1>2. NoOutput \in Output
  BY DevAssumption DEF NoOutput, Output
<1>3. RolledBack(o) = IF o.open THEN [o EXCEPT !.now = o.rollback, !.rollback = NoOutput, !.open = no] ELSE o
  BY <1>1, Zenon DEF RolledBack
<1>4. RolledBack(o).open = IF o.open THEN no ELSE o.open
  BY <1>3 DEF Outputs
<1>5. ~RolledBack(o).open
  BY <1>1, <1>4, Zenon
<1> QED
  BY <1>2, <1>3, <1>5 DEF Outputs, Kept

LEMMA AbandonedKeeps ==
  ASSUME NEW o, NEW now \in Output
  PROVE /\ Abandoned(o, now) \in Outputs /\ ~Abandoned(o, now).open /\ Abandoned(o, now).left
        /\ Abandoned(o, now).now = now /\ Abandoned(o, now).rollback = NoOutput
<1>1. PICK no \in Flags : no = FALSE
  BY DEF Flags
<1>2. PICK yes \in Flags : yes = TRUE
  BY DEF Flags
<1>3. NoOutput \in Output
  BY DevAssumption DEF NoOutput, Output
<1>4. Abandoned(o, now) = [now |-> now, rollback |-> NoOutput, open |-> no, left |-> yes]
  BY <1>1, <1>2, Zenon DEF Abandoned
<1>5. Abandoned(o, now).open = no /\ Abandoned(o, now).left = yes
  BY <1>4
<1>6. ~Abandoned(o, now).open /\ Abandoned(o, now).left
  BY <1>1, <1>2, <1>5, Zenon
<1>7. Abandoned(o, now) \in Outputs
  BY <1>3, <1>4 DEF Outputs
<1>8. Abandoned(o, now).now = now /\ Abandoned(o, now).rollback = NoOutput
  BY <1>4
<1> QED
  BY <1>6, <1>7, <1>8

LEMMA NoOutputTyped == NoOutput \in Output /\ NoOutput.version = 0 /\ NoOutput.generation = 0
  BY DevAssumption DEF NoOutput, Output
-----------------------------------------------------------------------------
(* Every action keeps the invariant. *)

Inv == /\ Typed /\ Placed /\ Equipped /\ Decided /\ Closed /\ Informed /\ Candidate
       /\ Judged /\ Continued /\ LastGood

(* Under these the child being restored has no reason to exit. *)
LEMMA RestartsSafely ==
  ASSUME Inv, Restartable, Accepting, refresh.place = "restoring"
  PROVE ~RestartMayFail /\ child[refresh.candidate].status = "starting" /\ ~child[refresh.candidate].killed
<1>1. Running
  BY DEF Inv, Continued, Starting
<1>2. dist.now # NoOutput
  BY <1>1, NoOutputTyped DEF Inv, Judged, Kept, Placed, Running
<1>3. \A c \in Child \ {refresh.candidate} : ~Alive(c)
  BY DEF Inv, Placed, Owner, Restartable
<1> QED
  BY <1>1, <1>2, <1>3 DEF RestartMayFail, Restartable, Running

LEMMA EditKeeps ==
  ASSUME Inv, Edit, faults' = faults
  PROVE Inv'
<1>1. work' = work + 1 /\ work < MaxEdits
      /\ UNCHANGED <<noticed, pending, refresh, current, children, child, dist,
                     sequence, decision, closing, command>>
  BY DEF Edit
<1>2. Typed'
  <2>1. /\ work \in 1..MaxEdits /\ noticed \in 1..work /\ refresh.version \in Nat /\ refresh.version <= work
        /\ dist.now.version \in Nat /\ dist.rollback.version \in Nat
        /\ dist.now.version <= work /\ dist.rollback.version <= work
    BY DevAssumption DEF Inv, Typed, Refreshes, Outputs, Output
  <2>2. /\ work' \in 1..MaxEdits /\ noticed \in 1..work' /\ refresh.version <= work'
        /\ dist.now.version <= work' /\ dist.rollback.version <= work'
    BY <1>1, <2>1, DevAssumption
  <2> QED
    BY <1>1, <2>2 DEF Inv, Typed
<1>3. Placed' /\ Equipped' /\ Decided' /\ Closed' /\ Candidate' /\ Informed'
  BY <1>1 DEF Inv, Placed, Equipped, Decided, Closed, Candidate, Informed, Alive, Owner, ServerMatchesDist, Accepting
<1>4. Judged' /\ Continued' /\ LastGood'
  BY <1>1 DEF Inv, Judged, Continued, LastGood, Calm, Restartable, Kept, Starting, Running, Serving, Serves, Accepting
<1> QED
  BY <1>2, <1>3, <1>4 DEF Inv

LEMMA RefreshBeginsKeeps ==
  ASSUME Inv, RefreshBegins, faults' = faults
  PROVE Inv'
<1>1. /\ pending /\ closing.place = "none" /\ refresh.place = "idle" /\ command.place # "exited"
      /\ ~pending' /\ sequence' = sequence + 1
      /\ refresh' = [Idle EXCEPT !.place = "analyzing", !.version = work]
      /\ decision' = IF current = 0 THEN decision
                     ELSE [decision EXCEPT !.state = "preparing", !.candidate = sequence + 1]
      /\ UNCHANGED <<work, noticed, current, children, child, dist, closing, command>>
  BY DEF RefreshBegins, Accepting
<1>2. pending' \in Flags
  BY DEF RefreshBegins, Flags
<1>3. /\ refresh' \in Refreshes /\ refresh'.place = "analyzing" /\ refresh'.version = work
      /\ refresh'.previous = 0 /\ refresh'.aborted = Idle.aborted /\ refresh'.expired = Idle.expired
  <2>1. work \in 0..MaxEdits
    BY DevAssumption DEF Inv, Typed
  <2> QED
    BY <1>1, <2>1, IdleKeeps DEF Refreshes, Places
<1>4. ~refresh'.aborted /\ ~refresh'.expired
  BY <1>3, IdleKeeps, Zenon
<1>5. /\ decision' \in Decisions /\ decision'.accepted = decision.accepted
      /\ decision'.state = IF current = 0 THEN decision.state ELSE "preparing"
  <2>1. decision \in Decisions /\ sequence + 1 \in Nat
    BY DEF Inv, Typed
  <2> QED
    BY <1>1, <2>1 DEF Decisions, States
<1>6. Typed'
  BY <1>1, <1>2, <1>3, <1>5, DevAssumption DEF Inv, Typed
<1>7. Placed' /\ Equipped' /\ Decided' /\ Closed' /\ Candidate'
  BY <1>1, <1>3, <1>5 DEF Inv, Typed, Placed, Equipped, Decided, Closed, Candidate, Alive, Owner, ServerMatchesDist, Accepting
<1>8. Informed'
  BY <1>1, <1>3, <1>4 DEF Inv, Informed, Typed, Accepting
<1>9. Judged' /\ Continued' /\ LastGood'
  BY <1>1, <1>3, <1>4, <1>5 DEF Inv, Judged, Continued, LastGood, Calm, Restartable, Kept, Starting, Running, Serving, Serves, Accepting
<1> QED
  BY <1>6, <1>7, <1>8, <1>9 DEF Inv

LEMMA StageReadyKeeps ==
  ASSUME Inv, StageReady, faults' = faults
  PROVE Inv'
<1> DEFINE place == IF current = 0 THEN "accepting" ELSE "draining"
<1>1. /\ refresh.place = "analyzing" /\ ~refresh.aborted
      /\ refresh' = [refresh EXCEPT !.previous = current, !.place = place]
      /\ UNCHANGED <<work, noticed, pending, current, children, dist, sequence, decision, closing, command>>
  BY DEF StageReady
<1>2. /\ refresh' \in Refreshes /\ refresh'.place = place /\ refresh'.previous = current
      /\ refresh'.version = refresh.version /\ refresh'.aborted = refresh.aborted
      /\ refresh'.expired = refresh.expired
  BY <1>1 DEF Inv, Typed, Refreshes, Places
<1>3. PICK yes \in Flags : yes = TRUE
  BY DEF Flags
<1>4. child' = IF current = 0 THEN child ELSE [child EXCEPT ![current].intentional = yes]
  BY <1>3, Zenon DEF StageReady
<1>5. /\ child' \in Children
      /\ \A c \in Child : /\ child'[c].status = child[c].status /\ child'[c].killed = child[c].killed
                          /\ child'[c].generation = child[c].generation
                          /\ child'[c].environment = child[c].environment
                          /\ c = current \/ child'[c] = child[c]
  BY <1>4, DevAssumption DEF Inv, Typed, Children, Child
<1>6. ~refresh'.aborted
  BY <1>1, <1>2, Zenon
<1>7. Typed'
  BY <1>1, <1>2, <1>5 DEF Inv, Typed
<1>8. Placed' /\ Equipped'
  BY <1>1, <1>2, <1>5, DevAssumption DEF Inv, Typed, Child, Placed, Equipped, Alive, Owner, ServerMatchesDist
<1>9. Decided' /\ Closed' /\ Candidate'
  BY <1>1, <1>2 DEF Inv, Decided, Closed, Candidate, Accepting
<1>10. Informed'
  BY <1>1, <1>2 DEF Inv, Informed, Accepting
<1>11. Judged' /\ Continued' /\ LastGood'
  BY <1>1, <1>2, <1>5 DEF Inv, Judged, Continued, LastGood, Calm, Restartable, Kept, Starting, Running, Serving, Serves, Accepting
<1> QED
  BY <1>7, <1>8, <1>9, <1>10, <1>11 DEF Inv
(* Children that exit or are killed, and a refresh that is aborted, leave    *)
(* who may be alive as it was.                                               *)
LEMMA AbortKeepsPlaces ==
  ASSUME Inv, NEW ch \in Children, NEW S,
         \A c \in Child : ch[c] = child[c] \/ (/\ ch[c].status = "exited" /\ ch[c].killed = child[c].killed
                                               /\ ch[c].generation = child[c].generation
                                               /\ ch[c].environment = child[c].environment),
         child' = Killed(ch, S), AbortKills \subseteq S, refresh' = AbortedRefresh,
         UNCHANGED <<current, children, dist, sequence>>
  PROVE /\ child' \in Children /\ refresh' \in Refreshes
        /\ Placed' /\ Equipped' /\ Decided' /\ Candidate'
        /\ refresh.place = "idle" => refresh' = refresh
        /\ refresh.place # "idle" => refresh'.aborted
        /\ refresh'.place = refresh.place /\ refresh'.version = refresh.version
        /\ refresh'.previous = refresh.previous /\ refresh'.error = refresh.error
        /\ refresh'.candidate = refresh.candidate /\ refresh'.expired = refresh.expired
<1>1. /\ refresh' \in Refreshes
      /\ refresh'.place = refresh.place /\ refresh'.previous = refresh.previous
      /\ refresh'.candidate = refresh.candidate /\ refresh'.version = refresh.version
      /\ refresh'.expired = refresh.expired /\ refresh'.error = refresh.error
      /\ IF refresh.place = "idle" THEN refresh' = refresh ELSE refresh'.aborted
  BY AbortedKeeps DEF Inv, Typed
<1>2. /\ child' \in Children
      /\ \A c \in Child : /\ child'[c].status = ch[c].status
                          /\ child'[c].generation = ch[c].generation
                          /\ child'[c].environment = ch[c].environment
                          /\ child'[c] = ch[c] \/ child'[c].killed
      /\ \A c \in Child : (c \in S /\ ch[c].status \in {"starting", "listening"}) => child'[c].killed
  BY KilledKeeps
<1>3. \A c \in Child : /\ child'[c].status \in {child[c].status, "exited"}
                       /\ child'[c].generation = child[c].generation
                       /\ child'[c].environment = child[c].environment
                       /\ child'[c].killed \/ child'[c].status = "exited" \/ child'[c] = child[c]
  <2> TAKE c \in Child
  <2>1. /\ child'[c].status = ch[c].status /\ child'[c].generation = ch[c].generation
        /\ child'[c].environment = ch[c].environment
    BY <1>2
  <2>2. child'[c] = ch[c] \/ child'[c].killed
    BY <1>2
  <2>3. ch[c] = child[c] \/ (/\ ch[c].status = "exited" /\ ch[c].generation = child[c].generation
                             /\ ch[c].environment = child[c].environment)
    OBVIOUS
  <2>4. /\ child'[c].status \in {child[c].status, "exited"} /\ child'[c].generation = child[c].generation
        /\ child'[c].environment = child[c].environment
    BY <2>1, <2>3
  <2>5. child'[c].killed \/ child'[c].status = "exited" \/ child'[c] = child[c]
    BY <2>1, <2>2, <2>3
  <2> QED
    BY <2>4, <2>5
<1>4. refresh.place = "starting" /\ child'[refresh.candidate].status = "starting" => child'[refresh.candidate].killed
  BY <1>2 DEF AbortKills, Inv, Placed
<1>5. Placed'
  BY <1>1, <1>3 DEF Inv, Placed, Alive, Owner, ServerMatchesDist
<1>6. Equipped'
  BY <1>1, <1>3, DevAssumption DEF Inv, Typed, Refreshes, Child, Equipped
<1>7. Decided'
  BY <1>1, <1>4 DEF Decided
<1>8. Candidate'
  BY <1>1, <1>3, <1>4 DEF Inv, Candidate, Placed
<1> QED
  BY <1>1, <1>2, <1>5, <1>6, <1>7, <1>8

(* A shutdown keeps the invariant, whoever asks for it. *)
LEMMA ShutdownKeepsInv ==
  ASSUME Inv, NEW ch \in Children, NEW failure \in Flags, Shutdown(ch, failure),
         \A c \in Child : ch[c] = child[c] \/ (/\ ch[c].status = "exited" /\ ch[c].killed = child[c].killed
                                               /\ ch[c].generation = child[c].generation
                                               /\ ch[c].environment = child[c].environment),
         closing.place = "done" /\ command.place = "exited" => command.exit # 0,
         UNCHANGED <<work, noticed, current, children, dist, sequence, faults>>
  PROVE Inv'
<1>1. PICK S : child' = Killed(ch, S) /\ AbortKills \subseteq S
  BY ShutdownKeeps DEF Inv, Typed
<1>2. /\ refresh' = AbortedRefresh /\ pending' \in Flags /\ decision' \in Decisions
      /\ decision'.accepted = decision.accepted
      /\ closing' \in Closings /\ closing'.closed = closing.closed /\ ~Accepting'
      /\ closing'.place = IF Accepting THEN "awaiting" ELSE closing.place
      /\ command' \in Commands
      /\ IF command.place = "exited" THEN command' = command
         ELSE command'.place = "exited" => command'.exit # 0
  BY ShutdownKeeps DEF Inv, Typed
<1>3. /\ child' \in Children /\ refresh' \in Refreshes
      /\ Placed' /\ Equipped' /\ Decided' /\ Candidate'
      /\ refresh'.place = refresh.place /\ refresh'.version = refresh.version /\ refresh'.error = refresh.error
      /\ refresh.place # "idle" => refresh'.aborted
  BY <1>1, <1>2, AbortKeepsPlaces
<1>4. Typed'
  BY <1>2, <1>3 DEF Inv, Typed
<1>5. Closed'
  BY <1>2, <1>3 DEF Inv, Closed, Accepting
<1>6. Informed'
  BY <1>2, <1>3 DEF Inv, Informed
<1>7. Judged' /\ Continued' /\ LastGood'
  BY <1>2 DEF Inv, Judged, Continued, LastGood, Restartable, Kept
<1> QED
  BY <1>3, <1>4, <1>5, <1>6, <1>7 DEF Inv

LEMMA TerminationSignalKeeps ==
  ASSUME Inv, TerminationSignal, faults' = faults
  PROVE Inv'
<1>1. PICK no \in Flags : no = FALSE
  BY DEF Flags
<1>2. Shutdown(child, no)
  BY <1>1, Zenon DEF TerminationSignal
<1>3. command.place # "exited" /\ UNCHANGED <<work, noticed, current, children, dist, sequence>>
  BY DEF TerminationSignal
<1>4. child \in Children
  BY DEF Inv, Typed
<1> QED
  BY <1>2, <1>3, <1>4, ShutdownKeepsInv

LEMMA ChildExitsKeeps ==
  ASSUME Inv, NEW c \in Child, ChildExits(c), faults' = faults
  PROVE Inv'
<1>1. PICK ch : ch = [child EXCEPT ![c].status = "exited"]
  OBVIOUS
<1>2. /\ ch \in Children /\ ch[c].status = "exited" /\ ch[c].killed = child[c].killed
      /\ ch[c].generation = child[c].generation /\ ch[c].intentional = child[c].intentional
      /\ ch[c].environment = child[c].environment
      /\ \A d \in Child : d # c => ch[d] = child[d]
  BY <1>1 DEF Inv, Typed, Children
<1>3. UNCHANGED <<work, noticed, current, children, dist, sequence>> /\ Alive(c) /\ MayExit(c)
  BY DEF ChildExits
<1>4. CASE /\ child[c].status = "listening" /\ ~child[c].intentional
           /\ c = current /\ ~closing.closed
  <2>1. PICK yes \in Flags : yes = TRUE
    BY DEF Flags
  <2>2. Shutdown(ch, TRUE)
    BY <1>1, <1>4 DEF ChildExits
  <2>3. Shutdown(ch, yes)
    BY <2>1, <2>2, Zenon
  <2>4. closing.place # "done"
    BY <1>4 DEF Inv, Closed
  <2> QED
    BY <1>2, <1>3, <2>3, <2>4, ShutdownKeepsInv
<1>5. CASE ~(/\ child[c].status = "listening" /\ ~child[c].intentional
             /\ c = current /\ ~closing.closed)
  <2>1. child' = ch /\ UNCHANGED <<closing, decision, refresh, command, pending>>
    BY <1>1, <1>5 DEF ChildExits
  <2>2. Typed' /\ Closed' /\ Informed'
    BY <1>2, <1>3, <2>1 DEF Inv, Typed, Closed, Informed, Accepting
  <2>3. Placed'
    BY <1>2, <1>3, <2>1 DEF Inv, Placed, Alive, Owner, ServerMatchesDist
  <2>4. Equipped' /\ Decided' /\ Candidate'
    BY <1>2, <1>3, <2>1, DevAssumption DEF Inv, Typed, Refreshes, Child, Equipped, Decided, Candidate, Placed, Accepting
  <2>5. Judged'
    BY <1>3, <2>1 DEF Inv, Judged, Restartable, Kept
  <2>6. ASSUME Restartable, Accepting, refresh.place = "restoring" PROVE c # refresh.candidate
    <3>1. ~RestartMayFail /\ child[refresh.candidate].status = "starting" /\ ~child[refresh.candidate].killed
      BY <2>6, RestartsSafely
    <3>2. ~child[refresh.candidate].intentional
      BY <2>6, <3>1 DEF Inv, Candidate
    <3> QED
      BY <1>3, <2>6, <3>1, <3>2 DEF MayExit
  <2>7. refresh.place = "restoring" => refresh.candidate \in Child
    BY DEF Inv, Placed
  <2>8. Continued'
    <3> SUFFICES ASSUME Restartable, Accepting PROVE Continued'
      BY <1>3, <2>1 DEF Continued, Restartable, Accepting
    <3> QED
      BY <1>2, <1>3, <2>1, <2>6, <2>7 DEF Inv, Continued, Starting, Running, Accepting
  <2>9. LastGood'
    <3> SUFFICES ASSUME Calm, Accepting, command.place # "startup" PROVE Serving'
      BY <1>3, <2>1 DEF LastGood, Calm, Restartable, Accepting
    <3>1. Serving
      BY DEF Inv, LastGood
    <3>2. refresh.place \in {"idle", "analyzing"} => c # current
      BY <1>5, <3>1 DEF Serving, Serves, Inv, Closed, Accepting
    <3> QED
      BY <1>2, <1>3, <2>1, <3>1, <3>2, DevAssumption DEF Serving, Serves, Inv, Typed, Child
  <2> QED
    BY <2>2, <2>3, <2>4, <2>5, <2>8, <2>9 DEF Inv
<1> QED
  BY <1>4, <1>5

LEMMA NotificationKeeps ==
  ASSUME Inv, Notification, faults' = faults
  PROVE Inv'
<1>1. /\ noticed < work /\ Accepting /\ noticed' = work /\ pending' = TRUE
      /\ refresh' = AbortedRefresh /\ child' = Killed(child, AbortKills)
      /\ UNCHANGED <<work, current, children, dist, sequence, decision, closing, command>>
  BY DEF Notification, AfterNotice
<1>2. pending' \in Flags /\ pending'
  BY <1>1 DEF Flags
<1>3. /\ child' \in Children /\ refresh' \in Refreshes
      /\ Placed' /\ Equipped' /\ Decided' /\ Candidate'
      /\ refresh'.place = refresh.place /\ refresh'.version = refresh.version /\ refresh'.error = refresh.error
      /\ refresh'.previous = refresh.previous
      /\ refresh'.candidate = refresh.candidate /\ refresh'.expired = refresh.expired
      /\ refresh.place # "idle" => refresh'.aborted
  <2>1. child \in Children
    BY DEF Inv, Typed
  <2> QED
    BY <1>1, <2>1, AbortKeepsPlaces
<1>4. Typed' /\ Closed'
  <2>1. work \in 1..MaxEdits /\ noticed' \in 1..work'
    BY <1>1, DevAssumption DEF Inv, Typed
  <2> QED
    BY <1>1, <1>2, <1>3, <2>1 DEF Inv, Typed, Closed, Accepting
<1>5. Informed'
  BY <1>1, <1>2, <1>3 DEF Inv, Informed
<1>6. refresh.place # "starting" => child' = child
  <2>1. child = [c \in Child |-> child[c]]
    BY DEF Inv, Typed, Children
  <2> QED
    BY <1>1, <2>1 DEF AbortKills, Killed
<1>7. Judged' /\ Continued' /\ LastGood'
  BY <1>1, <1>3, <1>6 DEF Inv, Judged, Continued, LastGood, Calm, Restartable, Kept, Starting, Running, Serving, Serves, Accepting
<1> QED
  BY <1>3, <1>4, <1>5, <1>7 DEF Inv

LEMMA ShutdownDeadlineKeeps ==
  ASSUME Inv, ShutdownDeadline, faults' = faults
  PROVE Inv'
<1>1. PICK yes \in Flags : yes = TRUE
  BY DEF Flags
<1>2. PICK no \in Flags : no = FALSE
  BY DEF Flags
<1>3. /\ closing.timer /\ command.place # "exited"
      /\ decision' = IF decision.state = "stopping"
                     THEN [decision EXCEPT !.state = "forced"] ELSE decision
      /\ refresh' = AbortedRefresh
      /\ child' = Killed(child, OwnedByForce \cup AbortKills)
      /\ command' = [command EXCEPT !.place = "exited", !.exit = 3]
      /\ UNCHANGED <<work, noticed, pending, current, children, dist, sequence>>
  BY DEF ShutdownDeadline
<1>4. closing' = [closing EXCEPT !.timer = no, !.forced = yes]
  BY <1>1, <1>2, Zenon DEF ShutdownDeadline
<1>5. /\ closing' \in Closings /\ closing'.place = closing.place /\ closing'.closed = closing.closed
      /\ closing'.timer = no
  BY <1>4 DEF Inv, Typed, Closings
<1>6. ~closing'.timer
  BY <1>2, <1>5, Zenon
<1>7. decision' \in Decisions /\ decision'.accepted = decision.accepted
  BY <1>3 DEF Inv, Typed, Decisions, States
<1>8. command' \in Commands /\ command'.place = "exited" /\ command'.exit = 3
  BY <1>3 DEF Inv, Typed, Commands
<1>9. /\ child' \in Children /\ refresh' \in Refreshes
      /\ Placed' /\ Equipped' /\ Decided' /\ Candidate'
      /\ refresh'.place = refresh.place /\ refresh'.version = refresh.version /\ refresh'.error = refresh.error
      /\ refresh.place # "idle" => refresh'.aborted
  <2>1. child \in Children
    BY DEF Inv, Typed
  <2> QED
    BY <1>3, <2>1, AbortKeepsPlaces
<1>10. ~Accepting'
  BY <1>3, <1>5 DEF Inv, Closed, Accepting
<1>11. Typed'
  BY <1>3, <1>5, <1>7, <1>8, <1>9 DEF Inv, Typed
<1>12. Closed'
  BY <1>3, <1>5, <1>6, <1>8, <1>9, <1>10 DEF Inv, Closed
<1>13. Informed' /\ Judged' /\ Continued' /\ LastGood'
  BY <1>3, <1>7, <1>9, <1>10 DEF Inv, Informed, Judged, Continued, LastGood, Restartable, Kept
<1> QED
  BY <1>9, <1>11, <1>12, <1>13 DEF Inv

(* Forcing one child leaves the refresh where it stands. *)
LEMMA KillKeepsPlaces ==
  ASSUME Inv, NEW S, child' = Killed(child, S), refresh'.place = refresh.place,
         refresh'.candidate = refresh.candidate, refresh'.previous = refresh.previous,
         refresh'.aborted = refresh.aborted,
         closing'.place = closing.place,
         UNCHANGED <<current, children, dist, sequence, decision, faults>>
  PROVE child' \in Children /\ Placed' /\ Equipped' /\ Decided' /\ Candidate' /\ Judged'
<1>1. /\ child' \in Children
      /\ \A c \in Child : /\ child'[c].status = child[c].status
                          /\ child'[c].generation = child[c].generation
                          /\ child'[c].environment = child[c].environment
                          /\ child'[c] = child[c] \/ child'[c].killed
  BY KilledKeeps DEF Inv, Typed
<1>2. Placed'
  BY <1>1 DEF Inv, Placed, Alive, Owner, ServerMatchesDist
<1>3. Decided' /\ Candidate'
  BY <1>1 DEF Inv, Decided, Candidate, Placed, Accepting
<1>4. Equipped'
  BY <1>1, DevAssumption DEF Inv, Typed, Refreshes, Child, Equipped
<1>5. Judged'
  BY DEF Inv, Judged, Restartable, Kept
<1> QED
  BY <1>1, <1>2, <1>3, <1>4, <1>5

LEMMA DrainDeadlineKeeps ==
  ASSUME Inv, DrainDeadline, faults' = faults
  PROVE Inv'
<1>1. PICK yes \in Flags : yes = TRUE
  BY DEF Flags
<1>2. /\ "drain-deadline" \in faults /\ refresh.place = "draining"
      /\ child' = Killed(child, {refresh.previous})
      /\ UNCHANGED <<work, noticed, pending, current, children, dist, sequence, decision, closing, command>>
  BY DEF DrainDeadline
<1>3. refresh' = [refresh EXCEPT !.expired = yes]
  BY <1>1, Zenon DEF DrainDeadline
<1>4. /\ refresh' \in Refreshes /\ refresh'.place = refresh.place /\ refresh'.candidate = refresh.candidate
      /\ refresh'.previous = refresh.previous /\ refresh'.version = refresh.version
      /\ refresh'.aborted = refresh.aborted /\ refresh'.error = refresh.error
  BY <1>3 DEF Inv, Typed, Refreshes
<1>5. child' \in Children /\ Placed' /\ Equipped' /\ Decided' /\ Candidate' /\ Judged'
  BY <1>2, <1>4, KillKeepsPlaces
<1>6. Typed' /\ Closed'
  BY <1>2, <1>4, <1>5 DEF Inv, Typed, Closed, Accepting
<1>7. Informed'
  BY <1>2, <1>4 DEF Inv, Informed, Accepting
<1>8. Continued' /\ LastGood'
  BY <1>2, <1>4 DEF Inv, Continued, LastGood, Calm, Restartable, Starting, Running, Accepting
<1> QED
  BY <1>5, <1>6, <1>7, <1>8 DEF Inv

LEMMA StartupDeadlineKeeps ==
  ASSUME Inv, StartupDeadline, faults' = faults
  PROVE Inv'
<1>1. /\ refresh.place = "starting" \/ (refresh.place = "restoring" /\ RestartMayFail)
      /\ child' = Killed(child, {refresh.candidate})
      /\ UNCHANGED <<work, noticed, pending, refresh, current, children, dist, sequence, decision, closing, command>>
  BY DEF StartupDeadline
<1>2. child' \in Children /\ Placed' /\ Equipped' /\ Decided' /\ Candidate' /\ Judged'
  BY <1>1, KillKeepsPlaces
<1>3. Typed' /\ Closed' /\ Informed'
  BY <1>1, <1>2 DEF Inv, Typed, Closed, Informed, Accepting
<1>4. (Restartable /\ Accepting) => refresh.place = "starting"
  BY <1>1, RestartsSafely
<1>5. Continued' /\ LastGood'
  BY <1>1, <1>4 DEF Inv, Continued, LastGood, Calm, Restartable, Starting, Running, Serving, Serves, Accepting
<1> QED
  BY <1>2, <1>3, <1>5 DEF Inv

LEMMA TargetClosesKeeps ==
  ASSUME Inv, TargetCloses, faults' = faults
  PROVE Inv'
<1>1. PICK yes \in Flags : yes = TRUE
  BY DEF Flags
<1>2. /\ closing.place = "awaiting" /\ refresh.place = "idle"
      /\ UNCHANGED <<work, noticed, pending, refresh, current, children, dist, sequence, decision, command>>
  BY DEF TargetCloses, RefreshAwaited
<1>3. /\ closing' = [closing EXCEPT !.place = "stopping", !.closed = yes]
      /\ child' = IF current = 0 THEN child ELSE [child EXCEPT ![current].intentional = yes]
  BY <1>1, Zenon DEF TargetCloses
<1>4. closing' \in Closings /\ closing'.place = "stopping" /\ closing'.closed = yes
  BY <1>3 DEF Inv, Typed, Closings
<1>5. closing'.closed
  BY <1>1, <1>4, Zenon
<1>6. /\ child' \in Children
      /\ \A c \in Child : /\ child'[c].status = child[c].status /\ child'[c].killed = child[c].killed
                          /\ child'[c].generation = child[c].generation
                          /\ child'[c].environment = child[c].environment
  BY <1>3, DevAssumption DEF Inv, Typed, Children, Child
<1>7. Typed'
  BY <1>2, <1>4, <1>6 DEF Inv, Typed
<1>8. Placed'
  BY <1>2, <1>6 DEF Inv, Placed, Alive, Owner, ServerMatchesDist
<1>9. Equipped' /\ Decided' /\ Candidate'
  BY <1>2, <1>6, DevAssumption DEF Inv, Typed, Refreshes, Child, Equipped, Decided, Candidate
<1>10. Closed'
  BY <1>2, <1>4, <1>5 DEF Inv, Closed, Accepting
<1>11. Informed' /\ Judged' /\ Continued' /\ LastGood'
  BY <1>2, <1>4 DEF Inv, Informed, Judged, Continued, LastGood, Restartable, Kept, Accepting
<1> QED
  BY <1>7, <1>8, <1>9, <1>10, <1>11 DEF Inv

LEMMA CloseDeadlineKeeps ==
  ASSUME Inv, CloseDeadline, faults' = faults
  PROVE Inv'
<1>1. PICK yes \in Flags : yes = TRUE
  BY DEF Flags
<1>2. /\ closing.place = "stopping" /\ child' = Killed(child, {current})
      /\ UNCHANGED <<work, noticed, pending, refresh, current, children, dist, sequence, decision, command>>
  BY DEF CloseDeadline
<1>3. closing' = [closing EXCEPT !.expired = yes]
  BY <1>1, Zenon DEF CloseDeadline
<1>4. /\ closing' \in Closings /\ closing'.place = "stopping" /\ closing'.closed = closing.closed
      /\ closing'.timer = closing.timer
  BY <1>2, <1>3 DEF Inv, Typed, Closings
<1>5. child' \in Children /\ Placed' /\ Equipped' /\ Decided' /\ Candidate' /\ Judged'
  BY <1>2, <1>4, KillKeepsPlaces
<1>6. Typed'
  BY <1>2, <1>4, <1>5 DEF Inv, Typed
<1>7. Closed' /\ Informed' /\ Continued' /\ LastGood'
  BY <1>2, <1>4 DEF Inv, Closed, Informed, Continued, LastGood, Accepting
<1> QED
  BY <1>5, <1>6, <1>7 DEF Inv

LEMMA ShutdownCompletesKeeps ==
  ASSUME Inv, ShutdownCompletes, faults' = faults
  PROVE Inv'
<1>1. PICK no \in Flags : no = FALSE
  BY DEF Flags
<1>2. /\ closing.place = "stopping" /\ CurrentStopped /\ current' = 0
      /\ decision' = IF Clean /\ command.place # "exited"
                     THEN [decision EXCEPT !.state = "stopped"] ELSE decision
      /\ command' = IF command.place = "exited" THEN command
                    ELSE [command EXCEPT !.place = "exited", !.exit = IF Clean THEN 0 ELSE 3]
      /\ UNCHANGED <<work, noticed, pending, refresh, children, child, dist, sequence>>
  BY DEF ShutdownCompletes
<1>3. PICK forced : forced = (closing.forced \/ closing.expired)
  OBVIOUS
<1>4. forced \in Flags
  BY <1>3 DEF Flags
<1>5. closing' = [closing EXCEPT !.place = "done", !.timer = no, !.forced = forced]
  BY <1>1, <1>3, Zenon DEF ShutdownCompletes
<1>6. closing' \in Closings /\ closing'.place = "done" /\ closing'.closed = closing.closed /\ closing'.timer = no
  BY <1>4, <1>5 DEF Inv, Typed, Closings
<1>7. ~closing'.timer
  BY <1>1, <1>6, Zenon
<1>8. /\ decision' \in Decisions /\ decision'.accepted = decision.accepted
      /\ Clean /\ command.place # "exited" => decision'.state = "stopped"
  BY <1>2 DEF Inv, Typed, Decisions, States
<1>9. /\ command' \in Commands /\ command'.place = "exited"
      /\ IF command.place = "exited" THEN command'.exit = command.exit
         ELSE command'.exit = 0 => Clean
  <2>1. CASE command.place = "exited"
    BY <1>2, <2>1 DEF Inv, Typed
  <2>2. CASE command.place # "exited" /\ Clean
    BY <1>2, <2>2 DEF Inv, Typed, Commands
  <2>3. CASE command.place # "exited" /\ ~Clean
    <3>1. command' = [command EXCEPT !.place = "exited", !.exit = 3]
      BY <1>2, <2>3
    <3>2. command' \in Commands /\ command'.place = "exited" /\ command'.exit = 3
      BY <3>1 DEF Inv, Typed, Commands
    <3> QED
      BY <2>3, <3>2
  <2> QED
    BY <2>1, <2>2, <2>3
<1>10. refresh.place = "idle" /\ closing.closed
  BY <1>2 DEF Inv, Closed
<1>11. Typed'
  BY <1>2, <1>6, <1>8, <1>9, DevAssumption DEF Inv, Typed
<1>12. Placed' /\ Equipped'
  BY <1>2, <1>10 DEF Inv, Placed, Equipped, Alive, Owner, ServerMatchesDist, CurrentStopped, Child
<1>13. Decided' /\ Candidate'
  BY <1>2, <1>10 DEF Decided, Candidate
<1>14. Closed'
  BY <1>2, <1>6, <1>7, <1>8, <1>9, <1>10 DEF Inv, Closed, Accepting
<1>15. Informed' /\ Judged' /\ Continued' /\ LastGood'
  BY <1>2, <1>6, <1>8, <1>10 DEF Inv, Informed, Judged, Continued, LastGood, Restartable, Kept, Accepting
<1> QED
  BY <1>11, <1>12, <1>13, <1>14, <1>15 DEF Inv

(* A refresh that settles leaves at most its server, on the files in dist. *)
LEMMA SettleKeepsInv ==
  ASSUME Inv, NEW result \in Results \ {"none"}, NEW d \in Decisions,
         Settle(result, d), AfterSettle(result), refresh.place # "idle",
         child' \in Children, current' \in 0..MaxChildren, children' \subseteq Child,
         dist' \in Outputs, dist'.now.version <= work, dist'.rollback.version <= work, ~dist'.open,
         dist.left => dist'.left,
         \A c \in Child : child'[c].status \in {"starting", "listening"}
                            => c = current' \/ (dist'.left /\ child'[c].killed),
         ServerMatchesDist',
         current' # 0 => child'[current'].status # "none",
         (~dist'.left /\ current' # 0) => child'[current'].environment = dist'.now.generation,
         result = "interrupted" => refresh.aborted,
         result = "ok" => dist'.now.version = refresh.version,
         Restartable' => dist'.now.generation = d.accepted,
         (Restartable' /\ Accepting /\ (command.place = "serving" \/ result = "ok")) =>
           /\ current' # 0 /\ d.accepted # 0
           /\ d.state \in {"preparing", "switching", "ready"} /\ (result = "ok" => d.state = "ready"),
         (Calm' /\ Accepting /\ (command.place = "serving" \/ result = "ok")) =>
           /\ child'[current'].status = "listening"
           /\ ~child'[current'].killed /\ ~child'[current'].intentional,
         UNCHANGED <<work, noticed, pending, sequence, faults>>
  PROVE Inv'
<1>1. /\ refresh' = Idle
      /\ decision' \in Decisions /\ decision'.accepted = d.accepted
      /\ (result = "ok" \/ ~Accepting) => decision' = d
      /\ d.state \in {"ready", "preparing", "switching"} => (result = "ok" \/ ~Accepting \/ decision'.state = "ready")
      /\ command' \in Commands /\ closing' \in Closings /\ command'.last = result
      /\ command'.place = command.place \/ (command.place = "startup" /\ Accepting)
      /\ closing' = closing \/ (command.place = "startup" /\ Accepting /\ result # "ok")
      /\ closing'.closed = closing.closed /\ closing'.timer = closing.timer
      /\ closing'.place = "awaiting" \/ closing' = closing
      /\ (command.place = "startup" /\ Accepting) =>
           IF result = "ok" THEN command'.place = "serving"
           ELSE command'.place = "exited" /\ command'.exit # 0 /\ closing'.place = "awaiting"
      /\ ~(command.place = "startup" /\ Accepting) => command'.exit = command.exit
  <2>1. command \in Commands /\ closing \in Closings /\ (command.place = "exited" => ~Accepting)
    BY DEF Inv, Typed, Closed
  <2> QED
    BY <2>1, SettleKeeps
<1>2. /\ refresh' \in Refreshes /\ refresh'.place = "idle" /\ refresh'.version = 0
  BY <1>1, IdleKeeps
<1>3. Typed'
  BY <1>1, <1>2, DevAssumption DEF Inv, Typed
<1>4. Placed' /\ Equipped'
  BY <1>1, <1>2, IdleKeeps DEF Placed, Equipped, Alive, Owner
<1>5. Decided' /\ Candidate'
  BY <1>2 DEF Decided, Candidate
<1>6. ~closing.closed /\ closing.place \notin {"stopping", "done"}
  BY DEF Inv, Closed
<1>7. command.place = "exited" => command.exit # 0
  BY <1>6 DEF Inv, Closed
<1>8. Closed'
  <2>1. CASE command.place = "startup" /\ Accepting
    BY <1>1, <1>2, <1>6, <2>1 DEF Inv, Closed, Accepting
  <2>2. CASE ~(command.place = "startup" /\ Accepting)
    BY <1>1, <1>2, <1>6, <1>7, <2>2 DEF Inv, Closed, Accepting
  <2> QED
    BY <2>1, <2>2
<1>9. Accepting' => /\ Accepting /\ command'.place = "serving"
                    /\ command.place = "serving" \/ result = "ok"
  <2>1. command.place \in {"startup", "serving", "exited"}
    BY DEF Inv, Typed, Commands
  <2> QED
    BY <1>1, <2>1 DEF Inv, Closed, Accepting
<1>10. Informed'
  <2>1. (Accepting /\ ~pending) => ~refresh.aborted /\ refresh.version >= noticed
    BY DEF Inv, Informed
  <2> QED
    BY <1>1, <1>2, <1>9, <2>1 DEF Informed, Results
<1>11. Judged'
  BY <1>1 DEF Judged, Kept
<1>12. Continued'
  BY <1>1, <1>2, <1>9 DEF Continued, Running
<1>13. LastGood'
  <2> SUFFICES ASSUME Calm', Accepting' PROVE Serving'
    BY DEF LastGood
  <2>1. Restartable'
    BY DEF Calm
  <2> QED
    BY <1>1, <1>2, <1>9, <2>1 DEF Serving, Serves
<1> QED
  BY <1>3, <1>4, <1>5, <1>8, <1>10, <1>11, <1>12, <1>13 DEF Inv

(* A switch that failed restarts the previous generation or settles, when    *)
(* nobody is alive but a candidate dying after its failed commit.            *)
LEMMA RestartKeepsInv ==
  ASSUME Inv, NEW result \in {"failed", "interrupted"}, NEW ch \in Children, NEW o \in Outputs,
         Restart(result, ch, o), refresh.place \in {"accepting", "starting"},
         ~o.open, o.now.version <= work, o.rollback.version <= work, dist.left => o.left,
         ~o.left => o.now = Kept(dist),
         \A c \in Child : /\ ch[c].status \in {"starting", "listening"} => o.left /\ ch[c].killed
                          /\ child[c].status # "none" => ch[c].status # "none",
         current' \in 0..MaxChildren, current' = current \/ (o.left /\ ch[current'].status # "none"),
         result = "interrupted" => refresh.aborted,
         UNCHANGED <<work, noticed, pending, children, sequence, faults>>
  PROVE Inv'
<1>1. dist' = o /\ current = 0
  BY DEF Restart, Inv, Placed
<1>2. Restartable' => Restartable
  BY <1>1 DEF Restartable
<1>3. CASE RestartsPrevious
  <2>1. PICK g : g = o.now.generation
    OBVIOUS
  <2>2. PICK e : e = child[refresh.previous].environment
    OBVIOUS
  <2>3. PICK n : n = NextChild
    OBVIOUS
  <2>4. PICK no \in Flags : no = FALSE
    BY DEF Flags
  <2>5. /\ Spawnable # {} /\ child' = Spawned(ch, n, g, e)
        /\ refresh' = [refresh EXCEPT !.place = "restoring", !.candidate = n, !.error = result, !.expired = no]
        /\ UNCHANGED <<decision, command, closing>>
    BY <1>3, <2>1, <2>2, <2>3, <2>4, Zenon DEF Restart
  <2>6. refresh.previous # 0 /\ refresh.previous \in Child
    BY <1>3, DevAssumption DEF RestartsPrevious, Inv, Typed, Refreshes, Child
  <2>7. g \in Nat /\ e \in Nat
    BY <2>1, <2>2, <2>6 DEF Outputs, Output, Inv, Typed, Children
  <2>8. n \in Child
    BY <2>3, <2>5, NextChildFree
  <2>9. /\ child' \in Children /\ child'[n].status = "starting" /\ child'[n].generation = g
        /\ child'[n].environment = e
        /\ ~child'[n].killed /\ ~child'[n].intentional
        /\ \A d \in Child : d # n => child'[d] = ch[d]
    BY <2>5, <2>7, <2>8, SpawnedKeeps, SMTT(30)
  <2>10. /\ refresh' \in Refreshes /\ refresh'.place = "restoring" /\ refresh'.candidate = n
         /\ refresh'.error = result /\ refresh'.version = refresh.version /\ refresh'.previous = refresh.previous
         /\ refresh'.aborted = refresh.aborted
    <3>1. n \in 0..MaxChildren /\ "restoring" \in Places
      BY <2>8, DevAssumption DEF Child, Places
    <3>2. result \in {"none", "failed", "interrupted"} /\ refresh \in Refreshes
      BY DEF Inv, Typed
    <3> QED
      BY <2>5, <3>1, <3>2 DEF Refreshes
  <2>11. Typed'
    BY <1>1, <2>5, <2>9, <2>10 DEF Inv, Typed
  <2>12. ~o.left => e = g
    BY <1>1, <2>1, <2>2, <2>6 DEF Inv, Equipped, Placed, Kept
  <2>13. Placed'
    <3>1. \A c \in Child : child'[c].status \in {"starting", "listening"} => c = n \/ (o.left /\ child'[c].killed)
      BY <2>9
    <3>2. ServerMatchesDist'
      BY <2>9, <3>1 DEF ServerMatchesDist
    <3> QED
      BY <1>1, <2>1, <2>8, <2>9, <2>10, <2>12, <3>1, <3>2 DEF Placed, Alive, Owner
  <2>14. Equipped'
    <3>1. child'[refresh.previous].status # "none"
      BY <2>6, <2>9 DEF Inv, Equipped
    <3>2. current' # 0 => o.left /\ current' \in Child /\ child'[current'].status # "none"
      BY <1>1, <2>9, DevAssumption DEF Child
    <3> QED
      BY <1>1, <2>10, <3>1, <3>2 DEF Equipped
  <2>15. refresh'.aborted <=> refresh.aborted
    BY <2>10
  <2>16. Decided' /\ Candidate'
    BY <2>5, <2>9, <2>10, <2>15 DEF Inv, Decided, Candidate, Accepting
  <2>17. Closed'
    BY <1>3, <2>5, <2>10 DEF Inv, Closed, Accepting, RestartsPrevious
  <2>18. Informed'
    BY <2>5, <2>10, <2>15 DEF Inv, Informed, Accepting
  <2>19. Judged'
    BY <1>1, <1>2, <2>5 DEF Inv, Judged, Kept, Restartable
  <2>20. Continued'
    BY <1>2, <2>5, <2>6, <2>9, <2>10 DEF Inv, Continued, Starting, Running, Accepting
  <2>21. LastGood'
    BY <1>2, <2>5, <2>10 DEF Inv, LastGood, Calm, Serving, Accepting
  <2> QED
    BY <2>11, <2>13, <2>14, <2>16, <2>17, <2>18, <2>19, <2>20, <2>21 DEF Inv
<1>4. CASE ~RestartsPrevious
  <2>1. child' = ch /\ Settle(result, decision) /\ AfterSettle(result)
    BY <1>4 DEF Restart
  <2>2. refresh.previous = 0
    BY <1>4 DEF RestartsPrevious, Inv, Closed
  <2>3. ~(Restartable' /\ Accepting /\ command.place = "serving")
    BY <1>2, <2>2 DEF Inv, Continued, Running
  <2>4. ServerMatchesDist'
    BY <2>1 DEF ServerMatchesDist
  <2>5. result \in Results \ {"none"} /\ result # "ok" /\ refresh.place # "idle"
    BY DEF Results
  <2>6. Restartable' => dist'.now.generation = decision.accepted
    BY <1>1, <1>2 DEF Inv, Judged, Restartable
  <2>7. current' # 0 => dist'.left /\ child'[current'].status # "none"
    BY <1>1, <2>1
  <2>8. ~(Calm' /\ Accepting /\ command.place = "serving")
    BY <2>3 DEF Calm
  <2>9. decision \in Decisions /\ children' \subseteq Child
    BY DEF Inv, Typed
  <2>10. \A c \in Child : child'[c].status \in {"starting", "listening"}
                            => c = current' \/ (dist'.left /\ child'[c].killed)
    BY <1>1, <2>1
  <2> QED
    BY <1>1, <2>1, <2>3, <2>4, <2>5, <2>6, <2>7, <2>8, <2>9, <2>10, SettleKeepsInv
<1> QED
  BY <1>3, <1>4

LEMMA VerdictsKeep ==
  ASSUME Inv, NEW result \in Verdicts
  PROVE result \in {"failed", "interrupted"} /\ (result = "interrupted" => refresh.aborted)
  BY DEF Verdicts

LEMMA AnalysisFailsKeeps ==
  ASSUME Inv, AnalysisFails, faults' = faults
  PROVE Inv'
<1>1. PICK result \in Verdicts : Settle(result, decision) /\ AfterSettle(result)
  BY DEF AnalysisFails
<1>2. /\ refresh.place = "analyzing"
      /\ UNCHANGED <<work, noticed, pending, current, children, child, dist, sequence>>
  BY DEF AnalysisFails
<1>3. result \in Results \ {"none"} /\ result # "ok" /\ (result = "interrupted" => refresh.aborted)
  BY VerdictsKeep DEF Results
<1>4. /\ ~dist.open /\ ServerMatchesDist
      /\ \A c \in Child : child[c].status \in {"starting", "listening"}
                            => c = current \/ (dist.left /\ child[c].killed)
  BY <1>2 DEF Inv, Placed, Alive, Owner
<1>5. /\ (Restartable /\ Accepting /\ command.place = "serving")
           => current # 0 /\ decision.accepted # 0 /\ decision.state = "preparing"
      /\ Restartable => dist.now.generation = decision.accepted
      /\ (~dist.left /\ current # 0) => child[current].environment = dist.now.generation
      /\ current # 0 => child[current].status # "none"
  BY <1>2, <1>4 DEF Inv, Continued, Running, Judged, Kept, Equipped
<1>6. (Calm /\ Accepting /\ command.place = "serving") => Serves(current)
  BY <1>2 DEF Inv, LastGood, Serving
<1>7. Restartable' = Restartable /\ Calm' = Calm /\ ServerMatchesDist'
  BY <1>2, <1>4 DEF Restartable, Calm, ServerMatchesDist
<1> QED
  BY <1>1, <1>2, <1>3, <1>4, <1>5, <1>6, <1>7, SettleKeepsInv DEF Inv, Typed, Serves

LEMMA PreviousDrainedKeeps ==
  ASSUME Inv, PreviousDrained, faults' = faults
  PROVE Inv'
<1>1. /\ refresh.place = "draining" /\ ~Alive(refresh.previous)
      /\ UNCHANGED <<work, noticed, pending, child, dist, sequence>>
  BY DEF PreviousDrained, PreviousGone
<1>2. refresh.previous = current /\ current # 0
  BY <1>1 DEF Inv, Placed
<1>3. /\ ~dist.open /\ ServerMatchesDist'
      /\ \A c \in Child : Alive(c) => dist.left /\ child[c].killed
  BY <1>1, <1>2 DEF Inv, Placed, Owner, ServerMatchesDist
<1>4. (Calm /\ Accepting /\ command.place = "serving") => ~refresh.expired
  BY <1>1 DEF Inv, LastGood, Serving
<1>5. children' \subseteq Child /\ current' \in 0..MaxChildren
  BY DevAssumption DEF PreviousDrained, Inv, Typed
<1>6. /\ (Restartable /\ Accepting)
           => command.place # "startup" /\ decision.accepted # 0 /\ decision.state = "preparing"
      /\ Restartable => dist.now.generation = decision.accepted
      /\ ~dist.left => child[current].environment = dist.now.generation
      /\ child[current].status # "none"
  BY <1>1, <1>2, <1>3 DEF Inv, Continued, Starting, Running, Judged, Kept, Equipped
<1>7. Restartable' = Restartable /\ Calm' = Calm
  BY <1>1 DEF Restartable, Calm
<1>8. CASE refresh.expired \/ decision.state # "preparing"
  <2>1. Settle("failed", decision) /\ AfterSettle("failed")
    BY <1>8 DEF PreviousDrained
  <2>2. "failed" \in Results \ {"none"}
    BY DEF Results
  <2>3. /\ (Restartable' /\ Accepting /\ command.place = "serving") => current' # 0
        /\ current' # 0 => child[current'].status # "none"
        /\ (~dist.left /\ current' # 0) => child[current'].environment = dist.now.generation
    <3>1. CASE refresh.expired
      BY <1>2, <1>6, <3>1 DEF PreviousDrained
    <3>2. CASE ~refresh.expired
      <4>1. current' = 0 /\ decision.state # "preparing"
        BY <1>8, <3>2 DEF PreviousDrained
      <4> QED
        BY <1>6, <1>7, <4>1
    <3> QED
      BY <3>1, <3>2
  <2>4. \A c \in Child : child'[c].status \in {"starting", "listening"}
                            => c = current' \/ (dist'.left /\ child'[c].killed)
    BY <1>1, <1>3 DEF Alive
  <2>5. Restartable' => dist'.now.generation = decision.accepted
    BY <1>1, <1>6, <1>7
  <2>6. (Restartable' /\ Accepting /\ command.place = "serving")
          => current' # 0 /\ decision.accepted # 0 /\ decision.state = "preparing"
    BY <1>6, <1>7, <2>3
  <2>7. ~(Calm' /\ Accepting /\ command.place = "serving")
    BY <1>4, <1>6, <1>7, <1>8 DEF Calm
  <2>8. /\ child' \in Children /\ dist' \in Outputs /\ ~dist'.open /\ decision \in Decisions
        /\ dist'.now.version <= work /\ dist'.rollback.version <= work
    BY <1>1, <1>3 DEF Inv, Typed
  <2> QED
    BY <1>1, <1>3, <1>5, <2>1, <2>2, <2>3, <2>4, <2>5, <2>6, <2>7, <2>8, SettleKeepsInv
<1>9. CASE ~refresh.expired /\ decision.state = "preparing"
  <2>1. /\ current' = 0 /\ decision' = [decision EXCEPT !.state = "switching"]
        /\ refresh' = [refresh EXCEPT !.place = "accepting"]
        /\ UNCHANGED <<closing, command>>
    BY <1>9 DEF PreviousDrained
  <2>2. decision' \in Decisions /\ decision'.state = "switching" /\ decision'.accepted = decision.accepted
    BY <2>1 DEF Inv, Typed, Decisions, States
  <2>3. /\ refresh' \in Refreshes /\ refresh'.place = "accepting" /\ refresh'.previous = refresh.previous
        /\ refresh'.version = refresh.version /\ refresh'.aborted = refresh.aborted
    BY <2>1 DEF Inv, Typed, Refreshes, Places
  <2>4. Typed'
    BY <1>1, <1>5, <2>1, <2>2, <2>3 DEF Inv, Typed
  <2>5. Placed' /\ Equipped'
    BY <1>1, <1>2, <1>3, <1>6, <2>1, <2>3 DEF Placed, Equipped, Alive
  <2>6. Decided' /\ Candidate' /\ Closed'
    BY <1>1, <2>1, <2>2, <2>3 DEF Inv, Decided, Candidate, Closed, Accepting
  <2>7. Informed'
    BY <1>1, <2>1, <2>3 DEF Inv, Informed, Accepting
  <2>8. Judged' /\ Continued' /\ LastGood'
    BY <1>1, <1>2, <1>6, <1>7, <2>1, <2>2, <2>3 DEF Inv, Judged, Kept, Continued, LastGood, Starting, Running, Serving, Accepting
  <2> QED
    BY <2>4, <2>5, <2>6, <2>7, <2>8 DEF Inv
<1> QED
  BY <1>8, <1>9

LEMMA AcceptRefusedKeeps ==
  ASSUME Inv, AcceptRefused, faults' = faults
  PROVE Inv'
<1>1. /\ refresh.place = "accepting" /\ current = 0 /\ ~dist.open
      /\ UNCHANGED <<work, noticed, pending, current, children, sequence>>
  BY DEF AcceptRefused, Inv, Placed
<1>2. PICK result \in Verdicts :
        \/ Restart(result, child, dist)
        \/ /\ ~dist.left
           /\ \E now \in {dist.now, NoOutput} : Restart(result, child, Abandoned(dist, now))
  BY DEF AcceptRefused
<1>3. result \in {"failed", "interrupted"} /\ (result = "interrupted" => refresh.aborted)
  BY VerdictsKeep
<1>4. \A c \in Child : child[c].status \in {"starting", "listening"} => dist.left /\ child[c].killed
  BY <1>1 DEF Inv, Placed, Owner, Alive, Child
<1>5. /\ child \in Children /\ dist \in Outputs /\ current \in 0..MaxChildren
      /\ dist.now.version <= work /\ dist.rollback.version <= work /\ dist.now = Kept(dist)
  BY <1>1 DEF Inv, Typed, Kept
<1>6. CASE Restart(result, child, dist)
  BY <1>1, <1>3, <1>4, <1>5, <1>6, RestartKeepsInv
<1>7. ASSUME ~dist.left, NEW now \in {dist.now, NoOutput}, Restart(result, child, Abandoned(dist, now))
      PROVE Inv'
  <2>1. now \in Output /\ now.version <= work /\ NoOutput.version <= work
    <3>1. dist.now \in Output /\ dist.now.version <= work /\ work \in Nat
      BY DEF Inv, Typed, Outputs
    <3> QED
      BY <3>1, NoOutputTyped
  <2>2. PICK o \in Outputs : o = Abandoned(dist, now)
    BY <2>1, AbandonedKeeps
  <2>3. ~o.open /\ o.left /\ o.now = now /\ o.rollback = NoOutput
    BY <2>1, <2>2, AbandonedKeeps
  <2>4. Restart(result, child, o)
    BY <1>7, <2>2
  <2> QED
    BY <1>1, <1>3, <1>4, <1>5, <1>7, <2>1, <2>3, <2>4, RestartKeepsInv
<1> QED
  BY <1>2, <1>6, <1>7

LEMMA CandidateLostKeeps ==
  ASSUME Inv, CandidateLost, faults' = faults
  PROVE Inv'
<1>1. /\ refresh.place = "starting" /\ child[refresh.candidate].status = "exited"
      /\ current = 0 /\ dist.open /\ ~dist.left
      /\ UNCHANGED <<work, noticed, pending, current, children, sequence>>
  BY DEF CandidateLost, Inv, Placed
<1>2. PICK result \in Verdicts : Recover(result, child, dist)
  BY DEF CandidateLost
<1>3. result \in {"failed", "interrupted"} /\ (result = "interrupted" => refresh.aborted)
  BY VerdictsKeep
<1>4. \A c \in Child : child[c].status \notin {"starting", "listening"}
  BY <1>1 DEF Inv, Placed, Owner, Alive
<1>5. child \in Children /\ dist \in Outputs /\ current \in 0..MaxChildren
  BY <1>1 DEF Inv, Typed
<1>6. CASE Restart(result, child, RolledBack(dist))
  <2>1. PICK o \in Outputs : o = RolledBack(dist)
    BY <1>5, RolledBackKeeps
  <2>2. /\ ~o.open /\ o.now = Kept(dist) /\ o.left = dist.left
        /\ o.rollback = dist.rollback \/ o.rollback = NoOutput
    BY <1>5, <2>1, RolledBackKeeps
  <2>3. o.now.version <= work /\ o.rollback.version <= work
    <3>1. dist.now.version <= work /\ dist.rollback.version <= work /\ work \in Nat
      BY DEF Inv, Typed
    <3> QED
      BY <2>2, <3>1, NoOutputTyped DEF Kept
  <2>4. Restart(result, child, o)
    BY <1>6, <2>1
  <2> QED
    BY <1>1, <1>3, <1>4, <1>5, <2>2, <2>3, <2>4, RestartKeepsInv
<1>7. CASE RollbackFails(child, dist)
  <2>1. PICK now \in {dist.now, NoOutput, dist.rollback} : dist' = Abandoned(dist, now)
    BY <1>7 DEF RollbackFails
  <2>2. now \in Output /\ now.version <= work /\ NoOutput.version <= work
    <3>1. /\ dist.now \in Output /\ dist.rollback \in Output /\ work \in Nat
          /\ dist.now.version <= work /\ dist.rollback.version <= work
      BY DEF Inv, Typed, Outputs
    <3> QED
      BY <3>1, NoOutputTyped
  <2>3. /\ dist' \in Outputs /\ ~dist'.open /\ dist'.left
        /\ dist'.now.version <= work /\ dist'.rollback.version <= work
    BY <2>1, <2>2, AbandonedKeeps
  <2>4. child' = child /\ Settle("failed", decision) /\ AfterSettle("failed")
    BY <1>7 DEF RollbackFails
  <2>5. ~Restartable' /\ ~Calm'
    BY <2>3 DEF Restartable, Calm
  <2>6. ServerMatchesDist'
    BY <1>4, <2>4 DEF ServerMatchesDist
  <2>7. "failed" \in Results \ {"none"} /\ refresh.place # "idle" /\ decision \in Decisions /\ children \subseteq Child
    BY <1>1 DEF Results, Inv, Typed
  <2> QED
    BY <1>1, <1>4, <1>5, <2>3, <2>4, <2>5, <2>6, <2>7, SettleKeepsInv
<1> QED
  BY <1>2, <1>6, <1>7 DEF Recover

LEMMA AcceptedKeeps ==
  ASSUME Inv, Accepted, faults' = faults
  PROVE Inv'
<1>1. PICK n : n = NextChild
  OBVIOUS
<1>2. PICK no \in Flags : no = FALSE
  BY DEF Flags
<1>3. PICK yes \in Flags : yes = TRUE
  BY DEF Flags
<1>4. /\ refresh.place = "accepting" /\ ~refresh.aborted /\ refresh.version = work /\ Spawnable # {}
      /\ ~dist.left /\ child' = Spawned(child, n, sequence, sequence)
      /\ UNCHANGED <<work, noticed, pending, current, children, sequence, decision, closing, command>>
  BY <1>1 DEF Accepted, Fresh
<1>5. dist' = [now |-> [generation |-> sequence, version |-> refresh.version], rollback |-> dist.now,
                open |-> yes, left |-> no]
  BY <1>2, <1>3, Zenon DEF Accepted
<1>6. refresh' = [refresh EXCEPT !.place = "starting", !.candidate = n, !.expired = no]
  BY <1>1, <1>2, Zenon DEF Accepted
<1>7. n \in Child /\ n \in 0..MaxChildren
  BY <1>1, <1>4, NextChildFree, DevAssumption DEF Child
<1>8. /\ child' \in Children /\ child'[n].status = "starting" /\ child'[n].generation = sequence
      /\ child'[n].environment = sequence
      /\ ~child'[n].killed /\ ~child'[n].intentional
      /\ \A d \in Child : d # n => child'[d] = child[d]
  <2>1. child \in Children /\ sequence \in Nat
    BY DEF Inv, Typed
  <2> QED
    BY <1>4, <1>7, <2>1, SpawnedKeeps
<1>9. /\ refresh' \in Refreshes /\ refresh'.place = "starting" /\ refresh'.candidate = n
      /\ refresh'.version = refresh.version /\ refresh'.previous = refresh.previous
      /\ refresh'.aborted = refresh.aborted
  BY <1>6, <1>7 DEF Inv, Typed, Refreshes, Places
<1>10. /\ dist' \in Outputs /\ dist'.now.generation = sequence /\ dist'.now.version = refresh.version
       /\ dist'.rollback = dist.now /\ dist'.open = yes /\ dist'.left = no
  BY <1>5 DEF Inv, Typed, Outputs, Output, Refreshes
<1>11. dist'.open /\ ~dist'.left
  BY <1>2, <1>3, <1>10, Zenon
<1>12. \A c \in Child : ~Alive(c)
  BY <1>4 DEF Inv, Placed, Owner, Child
<1>13. Typed'
  BY <1>4, <1>8, <1>9, <1>10 DEF Inv, Typed
<1>14. Placed'
  BY <1>4, <1>7, <1>8, <1>9, <1>10, <1>11, <1>12 DEF Inv, Placed, Alive, Owner, ServerMatchesDist
<1>15. refresh'.aborted <=> refresh.aborted
  BY <1>9
<1>16. Decided' /\ Candidate'
  BY <1>4, <1>8, <1>9, <1>10, <1>15 DEF Inv, Decided, Candidate, Accepting
<1>17. Closed' /\ Informed'
  BY <1>4, <1>9, <1>10, <1>15 DEF Inv, Closed, Informed, Accepting
<1>18. Equipped'
  <2> SUFFICES ASSUME refresh.previous # 0
               PROVE /\ child'[refresh.previous].status # "none"
                     /\ child'[refresh.previous].environment = dist.now.generation
    BY <1>4, <1>9, <1>10 DEF Inv, Placed, Equipped
  <2>1. /\ child[refresh.previous].environment = dist.now.generation
        /\ child[refresh.previous].status # "none" /\ refresh.previous \in Child
    BY <1>4, DevAssumption DEF Inv, Typed, Refreshes, Child, Equipped
  <2>2. refresh.previous # n
    BY <1>1, <1>4, <2>1, NextChildFree
  <2> QED
    BY <1>8, <2>1, <2>2
<1>19. Judged' /\ Continued' /\ LastGood'
  BY <1>4, <1>9, <1>10, <1>11 DEF Inv, Placed, Judged, Continued, LastGood, Calm, Restartable, Kept, Starting, Running, Serving, Accepting
<1> QED
  BY <1>13, <1>14, <1>16, <1>17, <1>18, <1>19 DEF Inv

LEMMA RestoredKeeps ==
  ASSUME Inv, Restored, faults' = faults
  PROVE Inv'
<1>1. PICK c : c = refresh.candidate
  OBVIOUS
<1>2. /\ refresh.place = "restoring" /\ child[c].status = "starting" /\ ~child[c].killed
      /\ child' = [child EXCEPT ![c].status = "listening"]
      /\ children' = children \cup {c} /\ current' = c
      /\ Settle(refresh.error, decision) /\ AfterSettle(refresh.error)
      /\ UNCHANGED <<work, noticed, pending, dist, sequence>>
  BY <1>1 DEF Restored
<1>3. /\ c \in Child /\ c \in 0..MaxChildren /\ c # 0 /\ child[c].generation = dist.now.generation
      /\ dist.left \/ child[c].environment = dist.now.generation
  BY <1>1, <1>2, DevAssumption DEF Inv, Placed, Child
<1>4. /\ child' \in Children /\ child'[c].status = "listening" /\ child'[c].killed = child[c].killed
      /\ child'[c].environment = child[c].environment
      /\ child'[c].intentional = child[c].intentional /\ child'[c].generation = child[c].generation
      /\ \A d \in Child : d # c => child'[d] = child[d]
  BY <1>2, <1>3 DEF Inv, Typed, Children
<1>5. ~child[c].intentional
  BY <1>1, <1>2 DEF Inv, Candidate
<1>6. ~child'[c].killed /\ ~child'[c].intentional
  BY <1>2, <1>4, <1>5, Zenon
<1>7. /\ refresh.error \in Results \ {"none"} /\ refresh.error # "ok"
      /\ refresh.error = "interrupted" => refresh.aborted
  BY <1>2 DEF Inv, Typed, Informed, Results, Refreshes
<1>8. /\ ServerMatchesDist' /\ ~dist'.open
      /\ \A d \in Child : child'[d].status \in {"starting", "listening"} => d = c \/ (dist'.left /\ child'[d].killed)
  BY <1>1, <1>2, <1>3, <1>4 DEF Inv, Placed, Alive, Owner, ServerMatchesDist
<1>9. /\ (Restartable /\ Accepting /\ command.place = "serving")
           => decision.state = "switching" /\ decision.accepted # 0
      /\ Restartable => dist.now.generation = decision.accepted
      /\ Restartable' = Restartable /\ Calm' = Calm
  BY <1>2, <1>8 DEF Inv, Continued, Running, Judged, Kept, Restartable, Calm
<1>10. children' \subseteq Child /\ refresh.place # "idle"
  BY <1>2, <1>3 DEF Inv, Typed
<1>11. decision \in Decisions /\ dist' \in Outputs /\ dist'.now.version <= work /\ dist'.rollback.version <= work
  BY <1>2 DEF Inv, Typed
<1>12. PICK result \in Results \ {"none"} : result = refresh.error
  BY <1>7
<1> QED
  BY <1>2, <1>3, <1>4, <1>6, <1>7, <1>8, <1>9, <1>10, <1>11, <1>12, SettleKeepsInv

LEMMA RestoreFailsKeeps ==
  ASSUME Inv, RestoreFails, faults' = faults
  PROVE Inv'
<1>1. /\ refresh.place = "restoring" /\ child[refresh.candidate].status = "exited"
      /\ Settle("failed", decision) /\ AfterSettle("failed")
      /\ UNCHANGED <<work, noticed, pending, current, children, child, dist, sequence>>
  BY DEF RestoreFails
<1>2. /\ ServerMatchesDist' /\ ~dist.open
      /\ \A c \in Child : Alive(c) => dist.left /\ child[c].killed
  BY <1>1 DEF Inv, Placed, Owner, Alive, ServerMatchesDist
<1>3. ~(Restartable /\ Accepting) /\ Restartable' = Restartable /\ Calm' = Calm
  BY <1>1, RestartsSafely DEF Restartable, Calm
<1>4. "failed" \in Results \ {"none"}
  BY DEF Results
<1>5. /\ Restartable => dist.now.generation = decision.accepted
      /\ (~dist.left /\ current # 0) => child[current].environment = dist.now.generation
      /\ current # 0 => child[current].status # "none"
  BY <1>2 DEF Inv, Judged, Kept, Equipped
<1>6. ~Calm' \/ ~Accepting
  BY <1>3 DEF Calm
<1> QED
  BY <1>1, <1>2, <1>3, <1>4, <1>5, <1>6, SettleKeepsInv DEF Inv, Typed, Alive

LEMMA CandidateReadyKeeps ==
  ASSUME Inv, CandidateReady, faults' = faults
  PROVE Inv'
<1>1. PICK c : c = refresh.candidate
  OBVIOUS
<1>2. PICK ch : ch = [child EXCEPT ![c].status = "listening"]
  OBVIOUS
<1>3. PICK no \in Flags : no = FALSE
  BY DEF Flags
<1>4. PICK committed : committed = [dist EXCEPT !.open = no, !.rollback = NoOutput]
  OBVIOUS
<1>5. /\ refresh.place = "starting" /\ child[c].status = "starting" /\ ~child[c].killed
      /\ current' = c /\ UNCHANGED <<work, noticed, pending, sequence>>
  BY <1>1 DEF CandidateReady
<1>6. /\ c \in Child /\ c \in 0..MaxChildren /\ c # 0 /\ ~dist.left
      /\ child[c].generation = dist.now.generation /\ child[c].environment = dist.now.generation
  BY <1>1, <1>5, DevAssumption DEF Inv, Placed, Child
<1>7. /\ ch \in Children /\ ch[c].status = "listening" /\ ch[c].killed = child[c].killed
      /\ ch[c].intentional = child[c].intentional /\ ch[c].generation = child[c].generation
      /\ ch[c].environment = child[c].environment
      /\ \A d \in Child : d # c => ch[d] = child[d]
  BY <1>2, <1>6 DEF Inv, Typed, Children
<1>8. ~child[c].intentional
  BY <1>1, <1>5 DEF Inv, Candidate
<1>9. ~ch[c].killed /\ ~ch[c].intentional
  BY <1>5, <1>7, <1>8, Zenon
<1>10. /\ committed \in Outputs /\ committed.now = dist.now /\ committed.rollback = NoOutput /\ committed.open = no
       /\ committed.left = dist.left
  <2>1. NoOutput \in Output
    BY DevAssumption DEF NoOutput, Output
  <2> QED
    BY <1>4, <2>1 DEF Inv, Typed, Outputs
<1>11. /\ ~committed.open /\ committed.now.version <= work /\ committed.rollback.version <= work
  <2>1. NoOutput.version = 0 /\ work \in Nat
    BY DEF NoOutput, Inv, Typed
  <2>2. ~committed.open
    BY <1>3, <1>10, Zenon
  <2> QED
    BY <1>10, <2>1, <2>2 DEF Inv, Typed
<1>12. ~refresh.aborted /\ (refresh.previous # 0 => decision.state = "switching")
  BY <1>1, <1>5 DEF Inv, Decided
<1>13. dist.now.version = refresh.version /\ dist.now.generation = sequence /\ sequence \in Nat
  BY <1>5 DEF Inv, Informed, Candidate, Typed
<1>14. \A d \in Child : Alive(d) => d = c
  BY <1>1, <1>5, <1>6 DEF Inv, Placed, Owner
<1>15. CASE DecisionAccepts
  <2>1. PICK d : d = [state |-> "ready", candidate |-> 0, accepted |-> sequence]
    OBVIOUS
  <2>2. /\ child' = ch /\ children' = children \cup {c}
        /\ Settle("ok", d) /\ AfterSettle("ok")
    BY <1>1, <1>2, <1>15, <2>1 DEF CandidateReady
  <2>3. dist' = committed
    BY <1>3, <1>4, <1>15, Zenon DEF CandidateReady
  <2>4. d \in Decisions /\ d.state = "ready" /\ d.accepted = sequence
    BY <1>13, <2>1 DEF Decisions, States
  <2>5. "ok" \in Results \ {"none"} /\ refresh.place # "idle"
    BY <1>5 DEF Results
  <2>6. children' \subseteq Child
    BY <1>6, <2>2 DEF Inv, Typed
  <2>7. \A e \in Child : child'[e].status \in {"starting", "listening"} => e = c
    BY <1>7, <1>14, <2>2 DEF Alive
  <2>8. ServerMatchesDist'
    BY <1>6, <1>7, <1>10, <2>2, <2>3, <2>7 DEF ServerMatchesDist
  <2>9. sequence # 0
    BY <1>5 DEF Inv, Candidate
  <2> QED
    BY <1>5, <1>6, <1>7, <1>9, <1>10, <1>11, <1>13, <2>2, <2>3, <2>4, <2>5, <2>6, <2>7, <2>8, <2>9, SettleKeepsInv
<1>16. CASE ~DecisionAccepts
  <2>1. refresh.previous = 0
    BY <1>12, <1>16 DEF DecisionAccepts
  <2>2. Restart("failed", Killed(ch, {c}), committed) /\ children' = children
    <3>1. Restart("failed", Killed([child EXCEPT ![refresh.candidate].status = "listening"], {refresh.candidate}),
                  [dist EXCEPT !.open = FALSE, !.rollback = NoOutput]) /\ children' = children
      BY <1>16 DEF CandidateReady
    <3> QED
      BY <1>1, <1>2, <1>3, <1>4, <3>1, Zenon
  <2>3. ~RestartsPrevious
    BY <2>1 DEF RestartsPrevious
  <2>4. /\ dist' = committed /\ child' = Killed(ch, {c})
        /\ Settle("failed", decision) /\ AfterSettle("failed")
    BY <2>2, <2>3 DEF Restart
  <2>5. child'[c].environment = dist'.now.generation /\ child'[c].status = "listening"
    BY <1>6, <1>7, <1>10, <2>4, KilledKeeps
  <2>6. /\ child' \in Children /\ child'[c].killed
        /\ \A e \in Child : child'[e].status = ch[e].status
    BY <1>6, <1>7, <2>4, KilledKeeps
  <2>7. \A e \in Child : child'[e].status \in {"starting", "listening"} => e = c
    BY <1>7, <1>14, <2>6 DEF Alive
  <2>8. ServerMatchesDist'
    BY <2>6, <2>7 DEF ServerMatchesDist
  <2>9. ~Restartable' /\ ~Calm'
    <3>1. Accepting
      BY <1>5, <1>12 DEF Inv, Decided
    <3>2. ~Restartable
      BY <1>5, <1>16, <2>1, <3>1 DEF Inv, Continued, Starting, Running, DecisionAccepts
    <3> QED
      BY <1>6, <3>2 DEF Restartable, Calm
  <2>10. "failed" \in Results \ {"none"} /\ refresh.place # "idle"
    BY <1>5 DEF Results
  <2> QED
    BY <1>5, <1>6, <1>10, <1>11, <2>2, <2>4, <2>5, <2>6, <2>7, <2>8, <2>9, <2>10, SettleKeepsInv DEF Inv, Typed
<1> QED
  BY <1>15, <1>16

LEMMA CommitFailsKeeps ==
  ASSUME Inv, CommitFails, faults' = faults
  PROVE Inv'
<1>1. PICK c : c = refresh.candidate
  OBVIOUS
<1>2. PICK ch : ch = [child EXCEPT ![c].status = "listening"]
  OBVIOUS
<1>3. PICK forced : forced = Killed(ch, {c})
  OBVIOUS
<1>4. PICK o : o = Abandoned(dist, dist.now)
  OBVIOUS
<1>5. /\ refresh.place = "starting" /\ child[c].status = "starting"
      /\ Restart("failed", forced, o) /\ current' = c
      /\ UNCHANGED <<work, noticed, pending, children, sequence>>
  BY <1>1, <1>2, <1>3, <1>4 DEF CommitFails
<1>6. c \in Child /\ c \in 0..MaxChildren /\ ~dist.left
  BY <1>1, <1>5, DevAssumption DEF Inv, Placed, Child
<1>7. /\ ch \in Children /\ ch[c].status = "listening"
      /\ \A d \in Child : d # c => ch[d] = child[d]
  BY <1>2, <1>6 DEF Inv, Typed, Children
<1>8. /\ forced \in Children /\ forced[c].killed
      /\ \A d \in Child : forced[d].status = ch[d].status
  BY <1>3, <1>6, <1>7, KilledKeeps
<1>9. \A d \in Child : Alive(d) => d = c
  BY <1>1, <1>5, <1>6 DEF Inv, Placed, Owner
<1>10. /\ o \in Outputs /\ ~o.open /\ o.left
       /\ o.now.version <= work /\ o.rollback.version <= work
  <2>1. dist.now \in Output /\ dist.now.version <= work /\ NoOutput.version <= work
    BY NoOutputTyped DEF Inv, Typed, Outputs
  <2> QED
    BY <1>4, <2>1, AbandonedKeeps
<1>11. \A d \in Child : /\ forced[d].status \in {"starting", "listening"} => o.left /\ forced[d].killed
                        /\ child[d].status # "none" => forced[d].status # "none"
  BY <1>7, <1>8, <1>9, <1>10 DEF Alive
<1> QED
  BY <1>5, <1>6, <1>7, <1>8, <1>10, <1>11, RestartKeepsInv

-----------------------------------------------------------------------------
LEMMA InitInv == Init => Inv
<1> SUFFICES ASSUME Init PROVE Inv
  OBVIOUS
<1>1. PICK no \in Flags : no = FALSE
  BY DEF Flags
<1>2. /\ work = 1 /\ noticed = 1 /\ current = 0 /\ children = {} /\ sequence = 0
      /\ decision = [state |-> "starting", accepted |-> 0, candidate |-> 0]
      /\ command = [place |-> "startup", exit |-> 0, last |-> "none"] /\ refresh = Idle
  BY DEF Init
<1>3. /\ child = [c \in Child |-> [status |-> "none", intentional |-> no, killed |-> no,
                               generation |-> 0, environment |-> 0]]
      /\ dist = [now |-> NoOutput, rollback |-> NoOutput, open |-> no, left |-> no]
      /\ closing = [place |-> "none", closed |-> no, timer |-> no, forced |-> no, byFailure |-> no, expired |-> no]
  BY <1>1, Zenon DEF Init
<1>4. pending \in Flags
  BY DEF Init, Flags
<1>5. NoOutput \in Output /\ NoOutput.version = 0 /\ NoOutput.generation = 0
  BY NoOutputTyped
<1>6. child \in Children /\ \A c \in Child : child[c].status = "none"
  BY <1>3 DEF Children
<1>7. /\ dist \in Outputs /\ dist.now.version <= work /\ dist.rollback.version <= work /\ dist.open = no
      /\ dist.now.generation = 0
  BY <1>2, <1>3, <1>5 DEF Outputs
<1>8. closing \in Closings /\ closing.place = "none" /\ closing.closed = no /\ closing.timer = no
  BY <1>3 DEF Closings
<1>9. ~dist.open /\ ~closing.closed /\ ~closing.timer
  BY <1>1, <1>7, <1>8, Zenon
<1>10. /\ refresh \in Refreshes /\ refresh.place = "idle" /\ refresh.version = 0 /\ refresh.previous = 0
  BY <1>2, IdleKeeps
<1>11. decision \in Decisions /\ decision.state = "starting" /\ decision.accepted = 0
  BY <1>2 DEF Decisions, States
<1>12. command \in Commands /\ command.place = "startup"
  BY <1>2 DEF Commands, Results
<1>13. Typed
  BY <1>2, <1>4, <1>6, <1>7, <1>8, <1>10, <1>11, <1>12, DevAssumption DEF Typed
<1>14. Placed /\ Equipped
  BY <1>2, <1>6, <1>9, <1>10 DEF Placed, Equipped, Alive, ServerMatchesDist
<1>15. Decided /\ Candidate /\ Informed
  BY <1>10, <1>12 DEF Decided, Candidate, Informed
<1>16. Closed
  BY <1>8, <1>9, <1>12 DEF Closed
<1>17. Judged /\ Continued /\ LastGood
  BY <1>2, <1>7, <1>9, <1>10, <1>11, <1>12 DEF Judged, Kept, Continued, LastGood, Starting
<1> QED
  BY <1>13, <1>14, <1>15, <1>16, <1>17 DEF Inv

LEMMA StutterKeeps ==
  ASSUME Inv, UNCHANGED <<vars, faults>>
  PROVE Inv'
<1>1. Typed' /\ Placed' /\ Equipped' /\ Decided' /\ Closed'
  BY DEF Inv, vars, Typed, Placed, Equipped, Decided, Closed, Alive, Owner, ServerMatchesDist, Accepting
<1>2. Informed' /\ Candidate' /\ Judged' /\ Continued' /\ LastGood'
  BY DEF Inv, vars, Informed, Candidate, Judged, Kept, Restartable, Continued, Calm, LastGood,
         Starting, Running, Serving, Serves, Accepting
<1> QED
  BY <1>1, <1>2 DEF Inv

LEMMA StepKeeps == Inv /\ [Next]_<<vars, faults>> => Inv'
<1> SUFFICES ASSUME Inv, [Next]_<<vars, faults>> PROVE Inv'
  OBVIOUS
<1>1. CASE UNCHANGED <<vars, faults>>
  BY <1>1, StutterKeeps
<1>2. CASE Next
  <2>1. faults' = faults
    BY <1>2 DEF Next
  <2>2. CASE TerminationSignal
    BY <2>1, <2>2, TerminationSignalKeeps
  <2>3. CASE ShutdownDeadline
    BY <2>1, <2>3, ShutdownDeadlineKeeps
  <2>4. CASE \E c \in Child : ChildExits(c)
    BY <2>1, <2>4, ChildExitsKeeps
  <2>5. CASE Edit
    BY <2>1, <2>5, EditKeeps
  <2>6. CASE Notification
    BY <2>1, <2>6, NotificationKeeps
  <2>7. CASE RefreshBegins
    BY <2>1, <2>7, RefreshBeginsKeeps
  <2>8. CASE AnalysisFails
    BY <2>1, <2>8, AnalysisFailsKeeps
  <2>9. CASE StageReady
    BY <2>1, <2>9, StageReadyKeeps
  <2>10. CASE DrainDeadline
    BY <2>1, <2>10, DrainDeadlineKeeps
  <2>11. CASE PreviousDrained
    BY <2>1, <2>11, PreviousDrainedKeeps
  <2>12. CASE AcceptRefused
    BY <2>1, <2>12, AcceptRefusedKeeps
  <2>13. CASE Accepted
    BY <2>1, <2>13, AcceptedKeeps
  <2>14. CASE StartupDeadline
    BY <2>1, <2>14, StartupDeadlineKeeps
  <2>15. CASE CandidateReady
    BY <2>1, <2>15, CandidateReadyKeeps
  <2>23. CASE CommitFails
    BY <2>1, <2>23, CommitFailsKeeps
  <2>16. CASE CandidateLost
    BY <2>1, <2>16, CandidateLostKeeps
  <2>17. CASE Restored
    BY <2>1, <2>17, RestoredKeeps
  <2>18. CASE RestoreFails
    BY <2>1, <2>18, RestoreFailsKeeps
  <2>19. CASE TargetCloses
    BY <2>1, <2>19, TargetClosesKeeps
  <2>20. CASE CloseDeadline
    BY <2>1, <2>20, CloseDeadlineKeeps
  <2>21. CASE ShutdownCompletes
    BY <2>1, <2>21, ShutdownCompletesKeeps
  <2>22. CASE Ended
    <3>1. UNCHANGED <<vars, faults>>
      BY <2>1, <2>22 DEF Ended
    <3> QED
      BY <3>1, StutterKeeps
  <2> QED
    BY <1>2, <2>2, <2>3, <2>4, <2>5, <2>6, <2>7, <2>8, <2>9, <2>10, <2>11, <2>12, <2>13, <2>14,
       <2>15, <2>16, <2>17, <2>18, <2>19, <2>20, <2>21, <2>22, <2>23 DEF Next, Step
<1> QED
  BY <1>1, <1>2

(* Only accepting a stage and recovering from a failed switch move dist. *)
LEMMA DistMoves ==
  ASSUME Inv, [Next]_<<vars, faults>>, dist'.now # dist.now
  PROVE /\ ~dist.left
        /\ \/ dist'.open /\ ~dist.open /\ dist'.rollback = dist.now
           \/ dist.open /\ ~dist'.open /\ dist'.now = dist.rollback
           \/ dist'.left
<1>1. dist \in Outputs /\ (dist.open => ~dist.left)
  BY DEF Inv, Typed, Placed
<1>2. CASE AcceptRefused
  <2>1. \E now \in {dist.now, NoOutput} : ~dist.left /\ dist' = Abandoned(dist, now)
    BY <1>2 DEF AcceptRefused, Restart
  <2> QED
    BY <1>1, <2>1, AbandonedKeeps, NoOutputTyped DEF Outputs
<1>3. CASE CandidateLost
  <2>1. dist.open
    BY <1>3 DEF CandidateLost, Inv, Placed
  <2>2. dist' = RolledBack(dist) \/ \E now \in {dist.now, NoOutput, dist.rollback} : dist' = Abandoned(dist, now)
    BY <1>3 DEF CandidateLost, Recover, Restart, RollbackFails
  <2>3. CASE dist' = RolledBack(dist)
    BY <1>1, <2>1, <2>3, RolledBackKeeps DEF Kept
  <2>4. CASE \E now \in {dist.now, NoOutput, dist.rollback} : dist' = Abandoned(dist, now)
    BY <1>1, <2>1, <2>4, AbandonedKeeps, NoOutputTyped DEF Outputs
  <2> QED
    BY <2>2, <2>3, <2>4
<1>4. CASE Accepted
  <2>1. PICK yes \in Flags : yes = TRUE
    BY DEF Flags
  <2>2. PICK no \in Flags : no = FALSE
    BY DEF Flags
  <2>3. dist' = [now |-> [generation |-> sequence, version |-> refresh.version], rollback |-> dist.now,
                 open |-> yes, left |-> no]
    BY <1>4, <2>1, <2>2, Zenon DEF Accepted
  <2>4. dist'.rollback = dist.now /\ dist'.open = yes
    BY <2>3
  <2>5. dist'.open
    BY <2>1, <2>4, Zenon
  <2>6. ~dist.open /\ ~dist.left
    BY <1>4 DEF Accepted, Inv, Placed
  <2> QED
    BY <2>4, <2>5, <2>6
<1>5. CASE CandidateReady
  <2>1. PICK no \in Flags : no = FALSE
    BY DEF Flags
  <2>2. dist' = [dist EXCEPT !.open = no, !.rollback = NoOutput]
    BY <1>5, <2>1, Zenon DEF CandidateReady, Restart
  <2>3. dist'.now = dist.now
    BY <1>1, <2>2 DEF Outputs
  <2> QED
    BY <2>3
<1>6. CASE CommitFails
  <2>1. dist' = Abandoned(dist, dist.now)
    BY <1>6 DEF CommitFails, Restart
  <2> QED
    BY <1>1, <2>1, AbandonedKeeps DEF Outputs
<1>7. CASE UNCHANGED dist
  BY <1>7
<1>8. \/ AcceptRefused \/ CandidateLost \/ Accepted \/ CandidateReady \/ CommitFails \/ UNCHANGED dist
  BY DEF Next, Step, vars, TerminationSignal, ShutdownDeadline, ChildExits, Edit, Notification, RefreshBegins,
     AnalysisFails, StageReady, DrainDeadline, PreviousDrained, StartupDeadline, Restored, RestoreFails,
     TargetCloses, CloseDeadline, ShutdownCompletes, Ended
<1> QED
  BY <1>2, <1>3, <1>4, <1>5, <1>6, <1>7, <1>8

-----------------------------------------------------------------------------
LEMMA InvHolds == Spec => []Inv
  BY InitInv, StepKeeps, PTL DEF Spec

(* Two server children are never alive at once, except that one forced after *)
(* a failed output call may still be dying; one that serves runs the files   *)
(* in dist; and a command that exits 0 leaves no server (#switch, stop and   *)
(* close of project-dev.ts).                                                 *)
THEOREM NeverTwoServers == Spec => []OneServer
<1>1. Inv => OneServer
  <2> SUFFICES ASSUME Inv PROVE OneServer
    OBVIOUS
  <2>1. TypeOK
    <3>1. noticed \in 1..MaxEdits
      BY DevAssumption DEF Inv, Typed
    <3> QED
      BY <3>1 DEF Inv, Typed, TypeOK, Flags, Refreshes, Children, Decisions, States, Closings, Commands
  <2>2. OneChild /\ ServerMatchesDist
    BY DEF Inv, Placed, OneChild, Alive
  <2>3. GracefulExitIsClean
    <3> SUFFICES ASSUME command.place = "exited", command.exit = 0
                 PROVE /\ \A c \in Child : Alive(c) => dist.left /\ child[c].killed
                       /\ refresh.place = "idle" /\ ~dist.open /\ decision.state = "stopped"
      BY DEF GracefulExitIsClean
    <3>1. closing.place = "done" /\ decision.state = "stopped" /\ current = 0 /\ refresh.place = "idle"
      BY DEF Inv, Closed
    <3> QED
      BY <3>1 DEF Inv, Placed, Owner, Child
  <2> QED
    BY <2>1, <2>2, <2>3 DEF OneServer
<1> QED
  BY <1>1, InvHolds, PTL

(* The accepted output is replaced only while a candidate starts, goes back  *)
(* only to what it replaced, and is otherwise what the decision model has    *)
(* accepted; an output call that throws half-way is the last to touch it     *)
(* (#switch, accept and settle of the generation owner).                     *)
THEOREM SwitchesAreTransactional == Spec => OutputIsTransactional
<1>1. Inv' => OutputSettled'
  BY DEF Inv, Placed, Judged, Kept, Restartable, OutputSettled
<1>2. Inv /\ Inv' /\ [Next]_<<vars, faults>> =>
        [/\ OutputSettled'
         /\ dist'.now # dist.now =>
              /\ ~dist.left
              /\ \/ dist'.open /\ ~dist.open /\ dist'.rollback = dist.now
                 \/ dist.open /\ ~dist'.open /\ dist'.now = dist.rollback
                 \/ dist'.left]_vars
  BY <1>1, DistMoves
<1> QED
  BY <1>2, InvHolds, PTL DEF Spec, OutputIsTransactional

(* Once every edit has been noticed and served, the running server was built *)
(* from the current files, unless the last refresh was refused (refresh of   *)
(* project-dev.ts and the adapter's notify).                                 *)
THEOREM EditsReachTheServer == Spec => []NoStaleServer
<1>1. Inv => NoStaleServer
  BY DEF Inv, Typed, Informed, NoStaleServer, Outputs, Output
<1> QED
  BY <1>1, InvHolds, PTL

(* While the supervisor waits for changes the last accepted generation       *)
(* serves, unless a child outlasted its drain or would not restart, or an    *)
(* output call threw with dist half moved (the catch of #switch).            *)
THEOREM LastGoodKeepsServing == Spec => []LastGoodServesUnlessLost
<1>1. Inv => LastGoodServesUnlessLost
  BY DEF Inv, LastGood, Calm, Restartable, Serving, Serves, Continued, Judged, Kept, Placed,
         LastGoodServesUnlessLost, LastGoodServes
<1> QED
  BY <1>1, InvHolds, PTL
===============================================================================
