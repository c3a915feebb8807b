---------------------------- MODULE AnalysisService ----------------------------
(***************************************************************************)
(* What the analyzer's operation coordinator promises its callers, with no *)
(* queue and no worker: requests are served one at a time, oldest first; a *)
(* new analysis makes every unserved analysis superseded and dooms the one *)
(* being served, a caller may cancel, and each request is answered once.   *)
(* AnalyzerCoordinator implements this specification.                      *)
(***************************************************************************)
EXTENDS Naturals

CONSTANT MaxStarts

Request == 1..MaxStarts
Verdict == {"cancelled", "superseded"}

VARIABLES
  open,      \* whether requests are accepted
  asked,     \* number of requests made
  analyses,  \* the requests that are analyses
  answer,    \* what each request was told so far
  doom,      \* the verdict hanging over the request being served
  serving    \* the request being served, 0 if none

vars == <<open, asked, analyses, answer, doom, serving>>

Waiting(i) == i \in 1..asked /\ answer[i] = "none" /\ i # serving

Init ==
  /\ open = TRUE
  /\ asked = 0
  /\ analyses = {}
  /\ answer = [i \in Request |-> "none"]
  /\ doom = "none"
  /\ serving = 0

AskExplanation ==
  /\ open /\ asked < MaxStarts
  /\ asked' = asked + 1
  /\ UNCHANGED <<open, analyses, answer, doom, serving>>

AskAnalysis ==
  /\ open /\ asked < MaxStarts
  /\ asked' = asked + 1
  /\ analyses' = analyses \cup {asked + 1}
  /\ answer' = [i \in Request |->
       IF Waiting(i) /\ i \in analyses THEN "superseded" ELSE answer[i]]
  /\ doom' = IF serving \in analyses /\ doom = "none" THEN "superseded" ELSE doom
  /\ UNCHANGED <<open, serving>>

Cancel(i) ==
  \/ /\ Waiting(i)
     /\ answer' = [answer EXCEPT ![i] = "cancelled"]
     /\ UNCHANGED <<open, asked, analyses, doom, serving>>
  \/ /\ i = serving /\ doom = "none"
     /\ doom' = "cancelled"
     /\ UNCHANGED <<open, asked, analyses, answer, serving>>

(* Serve the oldest waiting request or, when there is none, nobody. *)
Oldest(i) == Waiting(i) /\ \A j \in Request : Waiting(j) => i <= j
TurnTo ==
  \/ Oldest(serving')
  \/ serving' = 0 /\ \A j \in Request : ~Waiting(j)

Serve ==
  /\ serving = 0
  /\ Oldest(serving')
  /\ UNCHANGED <<open, asked, analyses, answer, doom>>

Answer(result) ==
  /\ serving # 0
  /\ answer' = [answer EXCEPT ![serving] = IF doom = "none" THEN result ELSE doom]
  /\ doom' = "none"
  /\ TurnTo
  /\ UNCHANGED <<open, asked, analyses>>

Close ==
  /\ open
  /\ open' = FALSE
  /\ UNCHANGED <<asked, analyses, answer, doom, serving>>

Next ==
  \/ AskExplanation \/ AskAnalysis
  \/ \E i \in Request : Cancel(i)
  \/ Serve
  \/ \E r \in {"value", "error"} : Answer(r)
  \/ Close

Spec == Init /\ [][Next]_vars
=============================================================================
