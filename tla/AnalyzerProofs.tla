---------------------------- MODULE AnalyzerProofs ----------------------------
(***************************************************************************)
(* TLAPS proofs about the analyzer: first AnalyzerCoordinator, for every    *)
(* number of operations, then AnalyzerSession, for every set of documents,  *)
(* texts and definitions and every bound.                                   *)
(***************************************************************************)
EXTENDS AnalyzerCoordinator, AnalyzerSession, FiniteSetTheorems, WellFoundedInduction, TLAPS

In(q, i) == \E p \in DOMAIN q : q[p] = i

-----------------------------------------------------------------------------
(* Removing an item from a sorted queue removes it and nothing else. *)
LEMMA WithoutFact ==
  ASSUME NEW q \in Seq(Id), Sorted(q), NEW i
  PROVE  /\ Without(q, i) \in Seq(Id)
         /\ Sorted(Without(q, i))
         /\ \A j : In(Without(q, i), j) <=> In(q, j) /\ j # i
<1>1. CASE ~In(q, i)
  BY <1>1 DEF Without, In
<1>2. CASE In(q, i)
  <2> DEFINE at == CHOOSE p \in DOMAIN q : q[p] = i
             w == [p \in 1..(Len(q) - 1) |-> IF p < at THEN q[p] ELSE q[p + 1]]
  <2>1. Without(q, i) = w
    BY <1>2 DEF Without, In
  <2>2. at \in 1..Len(q) /\ q[at] = i
    BY <1>2 DEF In
  <2>3. Len(q) \in Nat /\ Len(q) >= 1 /\ \A p \in 1..Len(q) : q[p] \in Id
    BY <2>2
  <2> HIDE DEF at
  <2>4. \A p \in 1..(Len(q) - 1) : w[p] \in Id
    BY <2>2, <2>3
  <2>5. w \in Seq(Id) /\ DOMAIN w = 1..(Len(q) - 1)
    <3>1. Len(q) - 1 \in Nat
      BY <2>3
    <3>2. w \in [1..(Len(q) - 1) -> Id]
      BY <2>4
    <3> QED BY <3>1, <3>2
  <2>6. Sorted(w)
    BY <2>2, <2>3, <2>5 DEF Sorted, Id
  <2>7. ASSUME NEW j PROVE In(w, j) <=> In(q, j) /\ j # i
    <3>1. ASSUME In(w, j) PROVE In(q, j) /\ j # i
      <4>1. PICK p \in 1..(Len(q) - 1) : w[p] = j
        BY <3>1, <2>5 DEF In
      <4>2. CASE p < at
        BY <4>1, <4>2, <2>2, <2>3 DEF In, Sorted, Id
      <4>3. CASE ~(p < at)
        BY <4>1, <4>3, <2>2, <2>3 DEF In, Sorted, Id
      <4> QED BY <4>2, <4>3
    <3>2. ASSUME In(q, j), j # i PROVE In(w, j)
      <4>1. PICK p \in 1..Len(q) : q[p] = j
        BY <3>2 DEF In
      <4>2. CASE p < at
        <5>1. p \in 1..(Len(q) - 1) /\ w[p] = j
          BY <4>1, <4>2, <2>2, <2>3
        <5> QED BY <5>1, <2>5 DEF In
      <4>3. CASE p > at
        <5>1. p - 1 \in 1..(Len(q) - 1) /\ w[p - 1] = j
          BY <4>1, <4>3, <2>2, <2>3
        <5> QED BY <5>1, <2>5 DEF In
      <4> QED BY <4>1, <4>2, <4>3, <3>2, <2>2
    <3> QED BY <3>1, <3>2
  <2> QED BY <2>1, <2>5, <2>6, <2>7
<1> QED BY <1>1, <1>2

(* Appending a new, larger item keeps the queue sorted. *)
LEMMA AppendFact ==
  ASSUME NEW q \in Seq(Id), Sorted(q), NEW i \in Id, \A j : In(q, j) => j < i
  PROVE  /\ Append(q, i) \in Seq(Id)
         /\ Sorted(Append(q, i))
         /\ \A j : In(Append(q, i), j) <=> In(q, j) \/ j = i
<1> DEFINE a == Append(q, i)
<1>1. a \in Seq(Id) /\ Len(a) = Len(q) + 1 /\ Len(q) \in Nat
  OBVIOUS
<1>2. DOMAIN a = 1..(Len(q) + 1) /\ DOMAIN q = 1..Len(q)
  BY <1>1
<1>3. a[Len(q) + 1] = i /\ \A p \in 1..Len(q) : a[p] = q[p]
  OBVIOUS
<1>4. \A p \in 1..Len(q) : q[p] < i
  BY <1>2 DEF In
<1> HIDE DEF a
<1>5. Sorted(a)
  BY <1>1, <1>2, <1>3, <1>4 DEF Sorted
<1>6. ASSUME NEW j PROVE In(a, j) <=> In(q, j) \/ j = i
  BY <1>1, <1>2, <1>3 DEF In
<1> QED BY <1>1, <1>5, <1>6 DEF a

(* Taking the head of a sorted queue takes its smallest item. *)
LEMMA RestFact ==
  ASSUME NEW q \in Seq(Id), Sorted(q), q # <<>>
  PROVE  /\ q[1] \in Id /\ 1 \in DOMAIN q
         /\ SubSeq(q, 2, Len(q)) \in Seq(Id)
         /\ Sorted(SubSeq(q, 2, Len(q)))
         /\ \A j : In(SubSeq(q, 2, Len(q)), j) <=> In(q, j) /\ j # q[1]
         /\ \A j : In(q, j) => q[1] <= j
<1> DEFINE r == SubSeq(q, 2, Len(q))
<1>1. Len(q) \in Nat /\ Len(q) >= 1 /\ DOMAIN q = 1..Len(q)
  OBVIOUS
<1>2. \A p \in 1..Len(q) : q[p] \in Id
  BY <1>1
<1>3. r \in Seq(Id) /\ Len(r) = Len(q) - 1
  BY <1>1
<1>4. DOMAIN r = 1..(Len(q) - 1)
  BY <1>3
<1>5. \A p \in 1..(Len(q) - 1) : r[p] = q[p + 1]
  BY <1>1
<1> HIDE DEF r
<1>6. Sorted(r)
  <2> SUFFICES ASSUME NEW p \in 1..(Len(q) - 1), NEW s \in 1..(Len(q) - 1), p < s
               PROVE  r[p] < r[s]
    BY <1>4 DEF Sorted
  <2>1. p + 1 \in 1..Len(q) /\ s + 1 \in 1..Len(q) /\ p + 1 < s + 1
    BY <1>1
  <2>2. q[p + 1] < q[s + 1]
    BY <2>1, <1>1 DEF Sorted
  <2> QED BY <2>2, <1>5
<1>7. ASSUME NEW j PROVE In(r, j) <=> In(q, j) /\ j # q[1]
  <2>1. ASSUME In(r, j) PROVE In(q, j) /\ j # q[1]
    <3>1. PICK p \in 1..(Len(q) - 1) : r[p] = j
      BY <2>1, <1>4 DEF In
    <3>2. p + 1 \in 1..Len(q) /\ 1 < p + 1 /\ q[p + 1] = j /\ 1 \in 1..Len(q)
      BY <3>1, <1>1, <1>5
    <3>3. q[1] < q[p + 1]
      BY <3>2, <1>1 DEF Sorted
    <3>4. q[1] \in Nat /\ q[p + 1] \in Nat
      BY <3>2, <1>2 DEF Id
    <3> QED BY <3>2, <3>3, <3>4, <1>1 DEF In
  <2>2. ASSUME In(q, j), j # q[1] PROVE In(r, j)
    <3>1. PICK p \in 1..Len(q) : q[p] = j
      BY <2>2, <1>1 DEF In
    <3>2. p - 1 \in 1..(Len(q) - 1) /\ r[p - 1] = j
      BY <3>1, <2>2, <1>1, <1>5
    <3> QED BY <3>2, <1>4 DEF In
  <2> QED BY <2>1, <2>2
<1>8. ASSUME NEW j, In(q, j) PROVE q[1] <= j
  BY <1>1, <1>2, <1>8 DEF In, Sorted, Id
<1> QED BY <1>1, <1>2, <1>3, <1>6, <1>7, <1>8 DEF r

-----------------------------------------------------------------------------
(* What the places of the worker and of close(), and the generations, add to *)
(* the invariants of AnalyzerCoordinator to make them inductive.             *)
Places ==
  /\ \A i \in Id : itemState[i] = "absent" <=> i > sequence
  /\ \A i \in Id : i > sequence => request[i].kind = "none"
  /\ \A i \in Id : itemState[i] = "active" => i = active
  /\ active # 0 => itemState[active] \in {"active"} \cup Interrupted /\ active \in ran
  /\ closer = "none" <=> state = "accepting"
  /\ closer = "awaiting" => drain # "none"
  /\ closer = "idle" => queue = <<>> /\ drain = "none"
  /\ state = "closed" => closer = "idle"

Newest ==
  /\ pendingAnalysis # 0 => request[pendingAnalysis].generation = analysisGeneration
  /\ (active # 0 /\ itemState[active] = "active" /\ request[active].kind = "analysis")
       => pendingAnalysis = 0 /\ request[active].generation = analysisGeneration

IInv == TypeOK /\ QueueIsPending /\ SettledWhenDone /\ QueuedWorkHasWorker
          /\ OutcomeIsTrue /\ Places /\ Newest

Results == {"value", "error"}

(* The worker's next step: it finds the queue empty, or it takes the oldest  *)
(* pending item and leaves the rest of the queue sorted.                     *)
LEMMA RunNextFact ==
  ASSUME NEW s, s \in [Id -> ItemState], queue \in Seq(Id), Sorted(queue),
         \A i \in Id : s[i] = "pending" <=> Queued(i),
         RunNext(s)
  PROVE  \/ /\ drain' = "checkpoint" /\ active' = 0 /\ queue = <<>> /\ queue' = <<>>
            /\ itemState' = s /\ UNCHANGED <<pendingAnalysis, ran>>
         \/ \E item \in Id :
              /\ s[item] = "pending" /\ \A j \in Id : s[j] = "pending" => item <= j
              /\ drain' = "running" /\ active' = item
              /\ queue' \in Seq(Id) /\ Sorted(queue')
              /\ \A j : In(queue', j) <=> In(queue, j) /\ j # item
              /\ itemState' = [s EXCEPT ![item] = "active"]
              /\ pendingAnalysis' = IF pendingAnalysis = item THEN 0 ELSE pendingAnalysis
              /\ ran' = ran \cup {item}
<1>1. DOMAIN queue = 1..Len(queue) /\ Len(queue) \in Nat
  OBVIOUS
<1>2. \A p \in DOMAIN queue : queue[p] \in Id
  BY <1>1
<1>3. Live(s) = DOMAIN queue
  BY <1>2 DEF Live, Queued, Interrupted
<1>4. CASE queue = <<>>
  <2>1. Live(s) = {}
    BY <1>1, <1>3, <1>4
  <2> QED BY <2>1, <1>4 DEF RunNext
<1>5. CASE queue # <<>>
  <2>1. Len(queue) >= 1 /\ 1 \in Live(s)
    BY <1>1, <1>3, <1>5
  <2>2. NextAt(s) = 1
    <3>1. \E p \in Live(s) : \A r \in Live(s) : p <= r
      BY <1>1, <1>3, <2>1
    <3>2. NextAt(s) \in Live(s) /\ \A r \in Live(s) : NextAt(s) <= r
      BY <3>1 DEF NextAt
    <3> QED BY <1>1, <1>3, <2>1, <3>2
  <2> DEFINE item == queue[1]
  <2>3. /\ drain' = "running" /\ active' = item
        /\ queue' = SubSeq(queue, 1 + 1, Len(queue))
        /\ itemState' = [s EXCEPT ![item] = "active"]
        /\ pendingAnalysis' = IF pendingAnalysis = item THEN 0 ELSE pendingAnalysis
        /\ ran' = ran \cup {item}
    BY <2>1, <2>2 DEF RunNext
  <2>4. queue' = SubSeq(queue, 2, Len(queue))
    BY <2>3
  <2>5. /\ item \in Id /\ 1 \in DOMAIN queue
        /\ queue' \in Seq(Id) /\ Sorted(queue')
        /\ \A j : In(queue', j) <=> In(queue, j) /\ j # item
        /\ \A j : In(queue, j) => item <= j
    BY <2>4, <1>5, RestFact
  <2>6. s[item] = "pending" /\ \A j \in Id : s[j] = "pending" => item <= j
    BY <2>5 DEF Queued, In
  <2> QED BY <2>3, <2>5, <2>6
<1> QED BY <1>4, <1>5

LEMMA InitIInv == Init => IInv
<1> SUFFICES ASSUME Init PROVE IInv
  OBVIOUS
<1>1. queue \in Seq(Id) /\ DOMAIN queue = {}
  BY DEF Init
<1>2. TypeOK
  BY <1>1, MaxStartsAssumption DEF TypeOK, Init, Id, NoRequest, ItemState
<1>3. QueueIsPending
  BY <1>1, MaxStartsAssumption DEF QueueIsPending, Init, Sorted, Queued, NoRequest, Id
<1>4. SettledWhenDone /\ QueuedWorkHasWorker /\ OutcomeIsTrue /\ Places /\ Newest
  BY DEF Init, SettledWhenDone, QueuedWorkHasWorker, OutcomeIsTrue, Places, Newest,
         Interrupted, Id, NoRequest
<1> QED BY <1>2, <1>3, <1>4 DEF IInv

(* A step that runs the worker on (RunNext), the running item having been    *)
(* settled or not, re-establishes the invariant.                             *)
LEMMA WorkerStep ==
  ASSUME IInv, NEW s, s \in [Id -> ItemState], RunNext(s),
         outcome' \in [Id -> {"none"} \cup Outcome],
         UNCHANGED <<state, sequence, analysisGeneration, closer, request>>,
         drain # "none", state # "closed",
         \A i \in Id : i # active => s[i] = itemState[i] /\ outcome'[i] = outcome[i],
         active # 0 => /\ s[active] \in {"completed"} \cup Interrupted
                       /\ outcome'[active] # "none"
                       /\ outcome'[active] \in Results => s[active] = "completed"
                       /\ outcome'[active] \in Interrupted => s[active] = outcome'[active]
  PROVE  IInv'
<1> USE DEF IInv
<1>1. \A i \in Id : s[i] = "pending" <=> Queued(i)
  <2>1. \A i \in Id : s[i] = "pending" <=> itemState[i] = "pending"
    BY DEF Places, Interrupted
  <2> QED BY <2>1 DEF QueueIsPending
<1>2. queue \in Seq(Id) /\ Sorted(queue)
  BY DEF TypeOK, QueueIsPending
<1>3. \A i \in Id : s[i] # "active" /\ (s[i] = "absent" <=> i > sequence)
  BY DEF Places, Interrupted
<1>4. \A i \in Id : s[i] # "pending" => (outcome'[i] # "none" <=> i <= sequence)
  <2> SUFFICES ASSUME NEW i \in Id, s[i] # "pending"
               PROVE  outcome'[i] # "none" <=> i <= sequence
    OBVIOUS
  <2>1. CASE i = active
    <3>1. active # 0 /\ i <= sequence
      BY <2>1, <1>3, MaxStartsAssumption DEF Places, TypeOK, Id, Interrupted
    <3> QED BY <3>1, <2>1
  <2>2. CASE i # active
    BY <2>2 DEF SettledWhenDone
  <2> QED BY <2>1, <2>2
<1>5. \A i \in Id : s[i] = "pending" => outcome'[i] = "none" /\ i # active
  BY DEF SettledWhenDone, Places, Interrupted, TypeOK, Id
<1>6. \A i \in Id : /\ outcome'[i] \in Results => i \in ran /\ s[i] = "completed"
                    /\ outcome'[i] \in Interrupted => outcome'[i] = s[i]
  BY DEF OutcomeIsTrue, Places, Results
<1>7. CASE /\ drain' = "checkpoint" /\ active' = 0 /\ queue = <<>> /\ queue' = <<>>
           /\ itemState' = s /\ UNCHANGED <<pendingAnalysis, ran>>
  <2>1. TypeOK'
    <3>1. queue' \in Seq(Id)
      BY <1>2, <1>7
    <3> QED BY <1>7, <3>1, MaxStartsAssumption DEF TypeOK
  <2>2. \A i \in Id : ~Queued(i) /\ ~Queued(i)'
    BY <1>7 DEF Queued
  <2>3. QueueIsPending'
    BY <1>7, <2>2, <1>1 DEF QueueIsPending, Sorted
  <2>4. SettledWhenDone'
    BY <1>7, <1>4, <2>2, <1>1 DEF SettledWhenDone, Id
  <2>5. QueuedWorkHasWorker' /\ OutcomeIsTrue'
    BY <1>7, <1>6 DEF QueuedWorkHasWorker, OutcomeIsTrue, Results
  <2>6. Places'
    BY <1>7, <1>3 DEF Places
  <2>7. Newest'
    BY <1>7 DEF Newest
  <2> QED BY <2>1, <2>3, <2>4, <2>5, <2>6, <2>7
<1>8. CASE \E item \in Id :
              /\ s[item] = "pending" /\ \A j \in Id : s[j] = "pending" => item <= j
              /\ drain' = "running" /\ active' = item
              /\ queue' \in Seq(Id) /\ Sorted(queue')
              /\ \A j : In(queue', j) <=> In(queue, j) /\ j # item
              /\ itemState' = [s EXCEPT ![item] = "active"]
              /\ pendingAnalysis' = IF pendingAnalysis = item THEN 0 ELSE pendingAnalysis
              /\ ran' = ran \cup {item}
  <2> PICK item \in Id :
              /\ s[item] = "pending" /\ \A j \in Id : s[j] = "pending" => item <= j
              /\ drain' = "running" /\ active' = item
              /\ queue' \in Seq(Id) /\ Sorted(queue')
              /\ \A j : In(queue', j) <=> In(queue, j) /\ j # item
              /\ itemState' = [s EXCEPT ![item] = "active"]
              /\ pendingAnalysis' = IF pendingAnalysis = item THEN 0 ELSE pendingAnalysis
              /\ ran' = ran \cup {item}
    BY <1>8
  <2>1. TypeOK'
    <3>1. itemState' \in [Id -> ItemState] /\ ran' \subseteq Id
      BY DEF TypeOK, ItemState
    <3>2. active' \in 0..MaxStarts /\ pendingAnalysis' \in 0..MaxStarts
      BY MaxStartsAssumption DEF TypeOK, Id
    <3> QED BY <3>1, <3>2 DEF TypeOK
  <2>2. \A i \in Id : Queued(i)' <=> Queued(i) /\ i # item
    BY DEF Queued, In
  <2>3. itemState[item] = "pending" /\ item # 0
    BY <1>5 DEF Id
  <2>4. QueueIsPending'
    <3>1. \A i \in Id : itemState'[i] = "pending" <=> Queued(i)'
      BY <2>2, <1>1 DEF QueueIsPending
    <3>2. ASSUME NEW i \in Id
          PROVE (itemState'[i] = "pending" /\ request'[i].kind = "analysis")
                  <=> (i = pendingAnalysis')
      <4>1. (s[i] = "pending" /\ request[i].kind = "analysis") <=> (i = pendingAnalysis)
        BY <1>1 DEF QueueIsPending
      <4>2. CASE i = item
        BY <4>2, <2>3
      <4>3. CASE i # item
        BY <4>1, <4>3 DEF Id
      <4> QED BY <4>2, <4>3
    <3> QED BY <3>1, <3>2 DEF QueueIsPending
  <2>5. SettledWhenDone'
    BY <1>4, <1>5 DEF SettledWhenDone
  <2>6. QueuedWorkHasWorker' /\ OutcomeIsTrue'
    BY <1>5, <1>6, <2>3 DEF QueuedWorkHasWorker, OutcomeIsTrue, Results, Interrupted
  <2>7. Places'
    <3>1. closer # "idle"
      BY DEF Places
    <3> QED BY <1>3, <2>3, <3>1 DEF Places, Interrupted
  <2>8. Newest'
    BY <2>3 DEF Newest, QueueIsPending
  <2> QED BY <2>1, <2>4, <2>5, <2>6, <2>7, <2>8
<1> QED BY <1>1, <1>2, <1>7, <1>8, RunNextFact

LEMMA CancelIInv ==
  ASSUME IInv, NEW i \in Id, Cancel(i)
  PROVE  IInv'
<1> USE DEF IInv
<1>1. CASE itemState[i] = "active"
  BY <1>1, SMTT(30) DEF Cancel, Interruptible, TypeOK, QueueIsPending, SettledWhenDone, Queued,
     QueuedWorkHasWorker, OutcomeIsTrue, Places, Newest, Interrupted, ItemState
<1>2. CASE itemState[i] = "pending"
  <2>1. /\ pendingAnalysis' = IF pendingAnalysis = i THEN 0 ELSE pendingAnalysis
        /\ queue' = Without(queue, i)
        /\ outcome' = [outcome EXCEPT ![i] = "cancelled"]
        /\ itemState' = [itemState EXCEPT ![i] = "cancelled"]
        /\ UNCHANGED <<state, sequence, analysisGeneration, active, drain, closer,
                       request, ran>>
    BY <1>2 DEF Cancel
  <2>2. queue \in Seq(Id) /\ Sorted(queue)
    BY DEF TypeOK, QueueIsPending
  <2>3. /\ queue' \in Seq(Id) /\ Sorted(queue')
        /\ \A j \in Id : Queued(j)' <=> Queued(j) /\ j # i
    <3>1. \A j \in Id : In(queue', j) <=> In(queue, j) /\ j # i
      BY <2>1, <2>2, WithoutFact
    <3> QED BY <2>1, <2>2, <3>1, WithoutFact DEF In, Queued
  <2>4. i # active /\ i <= sequence
    BY <1>2 DEF Places, Interrupted, SettledWhenDone, Id, TypeOK
  <2>5. TypeOK'
    <3>1. itemState' \in [Id -> ItemState] /\ outcome' \in [Id -> {"none"} \cup Outcome]
      BY <2>1 DEF TypeOK, ItemState, Outcome, Interrupted
    <3>2. pendingAnalysis' \in 0..MaxStarts
      BY <2>1, MaxStartsAssumption DEF TypeOK
    <3> QED BY <2>1, <2>3, <3>1, <3>2 DEF TypeOK
  <2>6. QueueIsPending'
    <3>1. \A j \in Id : itemState'[j] = "pending" <=> Queued(j)'
      BY <2>1, <2>3 DEF QueueIsPending, TypeOK
    <3>2. \A j \in Id : (itemState'[j] = "pending" /\ request'[j].kind = "analysis")
                           <=> (j = pendingAnalysis')
      BY <2>1 DEF QueueIsPending, TypeOK, Id
    <3> QED BY <2>3, <3>1, <3>2 DEF QueueIsPending
  <2>7. SettledWhenDone'
    BY <2>1, <2>4 DEF SettledWhenDone, TypeOK
  <2>8. QueuedWorkHasWorker'
    <3>1. queue # <<>>
      BY <1>2 DEF QueueIsPending, Queued
    <3> QED BY <2>1, <3>1 DEF QueuedWorkHasWorker
  <2>9. OutcomeIsTrue'
    BY <2>1, <1>2 DEF OutcomeIsTrue, TypeOK, Interrupted
  <2>10. Places'
    <3>1. closer # "idle"
      BY <1>2 DEF Places, QueueIsPending, Queued
    <3> QED BY <2>1, <2>4, <3>1, <1>2 DEF Places, Interrupted, TypeOK
  <2>11. Newest'
    BY <2>1, <2>4 DEF Newest, TypeOK, Id
  <2> QED BY <2>5, <2>6, <2>7, <2>8, <2>9, <2>10, <2>11
<1> QED BY <1>1, <1>2 DEF Cancel, Interruptible

LEMMA StartIInv ==
  ASSUME IInv, NEW k \in Kind, Start(k)
  PROVE  IInv'
<1> USE DEF IInv
<1> DEFINE id == sequence + 1
           coalesced == IF k = "analysis" THEN pendingAnalysis ELSE 0
           gen == IF k = "analysis" THEN analysisGeneration + 1 ELSE analysisGeneration
           rec == [kind |-> k, generation |-> gen,
                   first |-> Batch(id, coalesced).first,
                   size |-> Batch(id, coalesced).size]
<1>1. /\ state = "accepting" /\ sequence < MaxStarts
      /\ sequence' = id /\ analysisGeneration' = gen
      /\ request' = [request EXCEPT ![id] = rec]
      /\ itemState' = [i \in Id |->
              IF i = id THEN "pending"
              ELSE IF i \in SupersededBy(k) THEN "superseded" ELSE itemState[i]]
      /\ outcome' = [i \in Id |-> IF i = coalesced THEN "superseded" ELSE outcome[i]]
      /\ queue' = Append(Without(queue, coalesced), id)
      /\ pendingAnalysis' = IF k = "analysis" THEN id ELSE pendingAnalysis
      /\ drain' = Drained(drain)
      /\ UNCHANGED <<state, active, closer, ran>>
  BY DEF Start
<1>2. id \in Id /\ id # 0 /\ sequence \in Nat
  BY <1>1, MaxStartsAssumption DEF TypeOK, Id
<1>3. /\ itemState[id] = "absent" /\ outcome[id] = "none" /\ id # active
      /\ id # pendingAnalysis /\ ~Queued(id)
      /\ \A i \in Id : Queued(i) => i < id
  <2>1. itemState[id] = "absent" /\ \A i \in Id : itemState[i] = "pending" => i < id
    BY <1>2 DEF Places, TypeOK, Id
  <2> QED BY <1>2, <2>1 DEF SettledWhenDone, QueueIsPending, Places, Interrupted, TypeOK
<1>4. coalesced # 0 => /\ coalesced \in Id /\ itemState[coalesced] = "pending"
                       /\ coalesced # active /\ coalesced # id /\ coalesced = pendingAnalysis
                       /\ coalesced <= sequence
  <2> SUFFICES ASSUME pendingAnalysis # 0
               PROVE  /\ pendingAnalysis \in Id /\ itemState[pendingAnalysis] = "pending"
                      /\ pendingAnalysis # active /\ pendingAnalysis # id
                      /\ pendingAnalysis <= sequence
    OBVIOUS
  <2>1. pendingAnalysis \in Id
    BY MaxStartsAssumption DEF TypeOK, Id
  <2>2. itemState[pendingAnalysis] = "pending"
    BY <2>1 DEF QueueIsPending
  <2>3. pendingAnalysis <= sequence
    BY <2>1, <2>2, <1>2 DEF Places, Id
  <2>4. pendingAnalysis # active
    BY <2>1, <2>2 DEF Places, Interrupted, Id
  <2> QED BY <2>1, <2>2, <2>3, <2>4, <1>2
<1>5. \A i \in Id : i \in SupersededBy(k) <=>
        /\ k = "analysis"
        /\ i = pendingAnalysis \/ (i = active /\ request[i].kind = "analysis"
                                               /\ itemState[i] = "active")
  BY DEF SupersededBy, Id
<1>6. rec \in [kind : Kind \cup {"none"}, generation : Nat, first : 0..MaxStarts, size : Nat]
  BY <1>2, <1>4 DEF Batch, TypeOK, Id
<1>7. queue \in Seq(Id) /\ Sorted(queue) /\ \A j : In(queue, j) => j \in Id /\ j < id
  <2>1. queue \in Seq(Id) /\ Sorted(queue)
    BY DEF TypeOK, QueueIsPending
  <2>2. \A j : In(queue, j) => j \in Id
    BY <2>1 DEF In
  <2> QED BY <2>1, <2>2, <1>3 DEF In, Queued
<1>8. /\ queue' \in Seq(Id) /\ Sorted(queue')
      /\ \A j \in Id : Queued(j)' <=> j = id \/ (Queued(j) /\ j # coalesced)
      /\ queue' # <<>>
  <2> DEFINE w == Without(queue, coalesced)
  <2> HIDE DEF coalesced, id
  <2>1. w \in Seq(Id) /\ Sorted(w) /\ \A j : In(w, j) <=> In(queue, j) /\ j # coalesced
    BY <1>7, WithoutFact
  <2>2. \A j : In(w, j) => j < id
    BY <2>1, <1>7
  <2> HIDE DEF w
  <2>3. /\ Append(w, id) \in Seq(Id) /\ Sorted(Append(w, id))
        /\ \A j : In(Append(w, id), j) <=> In(w, j) \/ j = id
    BY <2>1, <2>2, <1>2, AppendFact
  <2>4. queue' = Append(w, id)
    BY <1>1 DEF w
  <2> QED BY <2>1, <2>3, <2>4 DEF In, Queued
<1> HIDE DEF id, coalesced, gen, rec
<1>9. TypeOK'
  <2>1. request' \in [Id -> [kind : Kind \cup {"none"}, generation : Nat,
                             first : 0..MaxStarts, size : Nat]]
    BY <1>1, <1>2, <1>6 DEF TypeOK
  <2>2. itemState' \in [Id -> ItemState]
    BY <1>1 DEF TypeOK, ItemState, Interrupted
  <2>3. outcome' \in [Id -> {"none"} \cup Outcome]
    BY <1>1 DEF TypeOK, Outcome, Interrupted
  <2>4. sequence' \in 0..MaxStarts /\ pendingAnalysis' \in 0..MaxStarts
    BY <1>1, <1>2 DEF TypeOK, Id
  <2>5. analysisGeneration' \in Nat
    BY <1>1 DEF TypeOK, gen
  <2>6. drain' \in {"none", "scheduled", "running", "checkpoint", "returned"}
    BY <1>1 DEF TypeOK, Drained
  <2> QED BY <1>1, <1>8, <2>1, <2>2, <2>3, <2>4, <2>5, <2>6 DEF TypeOK
<1>10. QueueIsPending'
  <2>1. \A j \in Id : itemState'[j] = "pending" <=> Queued(j)'
    <3> SUFFICES ASSUME NEW j \in Id PROVE itemState'[j] = "pending" <=> Queued(j)'
      OBVIOUS
    <3>1. CASE j = id
      BY <3>1, <1>1, <1>8
    <3>2. CASE j # id /\ j = pendingAnalysis
      BY <3>2, <1>1, <1>5, <1>8 DEF QueueIsPending, coalesced, Kind, Id
    <3>3. CASE j # id /\ j # pendingAnalysis
      <4>1. j # coalesced
        BY <3>3 DEF coalesced, Id
      <4>2. itemState'[j] = "pending" <=> itemState[j] = "pending"
        BY <3>3, <1>1, <1>5
      <4> QED BY <3>3, <4>1, <4>2, <1>8 DEF QueueIsPending
    <3> QED BY <3>1, <3>2, <3>3
  <2>2. request'[id].kind = k /\ \A j \in Id : j # id => request'[j] = request[j]
    BY <1>1, <1>2 DEF TypeOK, rec
  <2>3. ASSUME NEW j \in Id
        PROVE  (itemState'[j] = "pending" /\ request'[j].kind = "analysis")
                  <=> (j = pendingAnalysis')
    BY <1>1, <1>2, <1>3, <1>5, <2>2 DEF QueueIsPending, Kind
  <2> QED BY <1>8, <2>1, <2>3 DEF QueueIsPending
<1>11. SettledWhenDone'
  <2> SUFFICES ASSUME NEW i \in Id
               PROVE (outcome'[i] # "none")
                       <=> (i <= sequence' /\ itemState'[i] # "pending" /\ i # active')
    BY DEF SettledWhenDone
  <2>1. CASE i = id
    BY <2>1, <1>1, <1>2, <1>3, <1>4
  <2>2. CASE i = coalesced /\ i # id
    BY <2>2, <1>1, <1>2, <1>4, <1>5 DEF id, coalesced, TypeOK, Id
  <2>3. CASE i # id /\ i # coalesced
    <3>1. i <= sequence' <=> i <= sequence
      BY <2>3, <1>1, <1>2 DEF id, Id
    <3>2. itemState'[i] = "pending" <=> itemState[i] = "pending"
      BY <2>3, <1>1, <1>5 DEF coalesced
    <3> QED BY <2>3, <1>1, <3>1, <3>2 DEF SettledWhenDone
  <2> QED BY <2>1, <2>2, <2>3
<1>12. QueuedWorkHasWorker'
  BY <1>1 DEF QueuedWorkHasWorker, Drained
<1>13. OutcomeIsTrue'
  <2> SUFFICES ASSUME NEW i \in Id
               PROVE  /\ outcome'[i] \in Results => i \in ran' /\ itemState'[i] = "completed"
                      /\ outcome'[i] \in Interrupted => outcome'[i] = itemState'[i]
    BY DEF OutcomeIsTrue, Results
  <2>1. CASE i = id
    BY <2>1, <1>1, <1>3, <1>4, <1>2 DEF Results, Interrupted
  <2>2. CASE i = coalesced /\ i # id
    BY <2>2, <1>1, <1>4, <1>5 DEF coalesced, Results, Interrupted, Id
  <2>3. CASE i # id /\ i # coalesced
    <3>1. outcome'[i] = outcome[i] /\ (outcome[i] # "none" => itemState'[i] = itemState[i])
      BY <2>3, <1>1, <1>5 DEF coalesced, SettledWhenDone
    <3> QED BY <3>1, <1>1 DEF OutcomeIsTrue, Results, Interrupted
  <2> QED BY <2>1, <2>2, <2>3
<1>14. Places'
  <2>1. \A i \in Id : itemState'[i] = "absent" <=> i > sequence'
    BY <1>1, <1>2, <1>5, <1>4 DEF Places, id, Id, QueueIsPending, TypeOK
  <2>2. \A i \in Id : itemState'[i] = "active" => i = active'
    BY <1>1 DEF Places
  <2>3. active' # 0 => itemState'[active'] \in {"active"} \cup Interrupted /\ active' \in ran'
    BY <1>1, <1>3, <1>5, MaxStartsAssumption DEF Places, TypeOK, Id, Interrupted
  <2>4. \A i \in Id : i > sequence' => request'[i].kind = "none"
    BY <1>1, <1>2 DEF Places, id, Id, TypeOK
  <2> QED BY <1>1, <2>1, <2>2, <2>3, <2>4 DEF Places, Drained
<1>15. Newest'
  <2>1. active' # 0 => active' \in Id /\ active' # id /\ request'[active'] = request[active]
    BY <1>1, <1>2, <1>3, MaxStartsAssumption DEF TypeOK, Id
  <2>2. CASE k = "analysis"
    <3>1. request'[pendingAnalysis'].generation = analysisGeneration'
      BY <2>2, <1>1, <1>2 DEF rec, TypeOK
    <3>2. ~(active' # 0 /\ itemState'[active'] = "active"
              /\ request'[active'].kind = "analysis")
      BY <2>1, <2>2, <1>1, <1>5
    <3> QED BY <3>1, <3>2 DEF Newest
  <2>3. CASE k # "analysis"
    <3>1. pendingAnalysis' = pendingAnalysis /\ analysisGeneration' = analysisGeneration
      BY <2>3, <1>1 DEF gen
    <3>2. pendingAnalysis # 0 => request'[pendingAnalysis] = request[pendingAnalysis]
      BY <1>1, <1>3, <1>2, MaxStartsAssumption DEF TypeOK, Id
    <3>3. active # 0 => itemState'[active] = itemState[active]
      BY <2>1, <2>3, <1>1, <1>5
    <3> QED BY <3>1, <3>2, <3>3, <2>1, <1>1 DEF Newest
  <2> QED BY <2>2, <2>3
<1> QED BY <1>9, <1>10, <1>11, <1>12, <1>13, <1>14, <1>15

LEMMA StepIInv == IInv /\ [Next]_vars => IInv'
<1> SUFFICES ASSUME IInv, [Next]_vars PROVE IInv'
  OBVIOUS
<1> USE DEF IInv
<1>1. CASE UNCHANGED vars \/ Stopped
  <2>1. UNCHANGED vars
    BY <1>1 DEF Stopped
  <2> QED BY <2>1 DEF vars, TypeOK, QueueIsPending, SettledWhenDone, QueuedWorkHasWorker,
         OutcomeIsTrue, Places, Newest, Queued
<1>2. ASSUME NEW k \in Kind, Start(k) PROVE IInv'
  BY <1>2, StartIInv
<1>3. ASSUME NEW i \in Id, Cancel(i) PROVE IInv'
  BY <1>3, CancelIInv
<1>4. CASE DrainBegins
  <2>1. active = 0 /\ state # "closed"
    BY <1>4 DEF DrainBegins, QueuedWorkHasWorker, Places
  <2> QED BY <1>4, <2>1, WorkerStep DEF DrainBegins, TypeOK
<1>5. ASSUME NEW r \in Results, OperationReturns(r) PROVE IInv'
  <2> DEFINE s == [itemState EXCEPT ![active] = IF @ = "active" THEN "completed" ELSE @]
  <2>1. active \in Id /\ drain = "running" /\ state # "closed"
    BY <1>5, MaxStartsAssumption DEF OperationReturns, QueuedWorkHasWorker, TypeOK, Id, Places
  <2>2. s \in [Id -> ItemState] /\ outcome' \in [Id -> {"none"} \cup Outcome]
    <3>1. s \in [Id -> ItemState]
      BY DEF TypeOK, ItemState
    <3>2. itemState[active] \in {"active"} \cup Interrupted
      BY <2>1 DEF Places, Id
    <3>3. Settlement(active, r) \in {"none"} \cup Outcome
      BY <2>1, <3>2 DEF Settlement, TypeOK, Outcome, Results
    <3> QED BY <1>5, <3>1, <3>3 DEF OperationReturns, TypeOK
  <2>3. RunNext(s)
    BY <1>5 DEF OperationReturns
  <2>4. outcome[active] = "none" /\ itemState[active] \in {"active"} \cup Interrupted
    BY <2>1 DEF SettledWhenDone, Places, Id
  <2>5. /\ s[active] \in {"completed"} \cup Interrupted
        /\ outcome'[active] # "none"
        /\ outcome'[active] \in Results => s[active] = "completed"
        /\ outcome'[active] \in Interrupted => s[active] = outcome'[active]
    BY <1>5, <2>1, <2>4 DEF OperationReturns, Settlement, TypeOK, Results, Interrupted
  <2>6. \A i \in Id : i # active => s[i] = itemState[i] /\ outcome'[i] = outcome[i]
    BY <1>5, <2>1 DEF OperationReturns, TypeOK
  <2> HIDE DEF s
  <2> QED BY <1>5, <2>1, <2>2, <2>3, <2>5, <2>6, WorkerStep DEF OperationReturns
<1>6. CASE Checkpoint
  <2>1. active = 0 /\ state # "closed"
    BY <1>6 DEF Checkpoint, QueuedWorkHasWorker, Places
  <2>2. CASE queue = <<>>
    BY <1>6, <2>2 DEF Checkpoint, TypeOK, QueueIsPending, SettledWhenDone,
       QueuedWorkHasWorker, OutcomeIsTrue, Places, Newest, Queued
  <2>3. CASE queue # <<>>
    BY <1>6, <2>1, <2>3, WorkerStep DEF Checkpoint, TypeOK
  <2> QED BY <2>2, <2>3
<1>7. CASE DrainEnds
  BY <1>7 DEF DrainEnds, Successor, TypeOK, QueueIsPending, SettledWhenDone,
     QueuedWorkHasWorker, OutcomeIsTrue, Places, Newest, Queued
<1>8. CASE Close
  BY <1>8 DEF Close, WaitTurn, Drained, TypeOK, QueueIsPending, SettledWhenDone,
     QueuedWorkHasWorker, OutcomeIsTrue, Places, Newest, Queued
<1>9. CASE CloseRechecks
  BY <1>9 DEF CloseRechecks, WaitTurn, Drained, TypeOK, QueueIsPending, SettledWhenDone,
     QueuedWorkHasWorker, OutcomeIsTrue, Places, Newest, Queued
<1>10. CASE Closed
  BY <1>10 DEF Closed, TypeOK, QueueIsPending, SettledWhenDone,
     QueuedWorkHasWorker, OutcomeIsTrue, Places, Newest, Queued
<1> QED
  BY <1>1, <1>2, <1>3, <1>4, <1>5, <1>6, <1>7, <1>8, <1>9, <1>10 DEF Next, Results

-----------------------------------------------------------------------------
(* The conjunction of the invariants holds in every reachable state. *)
THEOREM Invariance == Spec => []IInv
BY InitIInv, StepIInv, PTL DEF Spec

(* start, cancel, close and the worker keep every variable in its range. *)
THEOREM TypeCorrectness == Spec => []TypeOK
<1>1. IInv => TypeOK
  BY DEF IInv
<1> QED BY <1>1, Invariance, PTL

(* The queue, #pendingAnalysis and the items' states never disagree. *)
THEOREM QueueCorrectness == Spec => []QueueIsPending
<1>1. IInv => QueueIsPending
  BY DEF IInv
<1> QED BY <1>1, Invariance, PTL

(* An item outside the queue and the worker's hands has been settled, and    *)
(* only such items have: no request is dropped by cancel or supersession.    *)
THEOREM NothingForgotten == Spec => []SettledWhenDone
<1>1. IInv => SettledWhenDone
  BY DEF IInv
<1> QED BY <1>1, Invariance, PTL

(* #ensureDrain leaves no queued work without a worker. *)
THEOREM NoLostWakeup == Spec => []QueuedWorkHasWorker
<1>1. IInv => QueuedWorkHasWorker
  BY DEF IInv
<1> QED BY <1>1, Invariance, PTL

(* start, cancel, close and the worker keep the queue, the items and their    *)
(* results in agreement, and no result lies about its operation.             *)
THEOREM Consistency == Spec => []Consistent
<1>1. IInv => Consistent
  BY DEF IInv, Bookkeeping, Consistent
<1> QED BY <1>1, Invariance, PTL

(* A request is told what happened to its operation. *)
THEOREM TruthfulOutcomes == Spec => []OutcomeIsTrue
<1>1. IInv => OutcomeIsTrue
  BY DEF IInv
<1> QED BY <1>1, Invariance, PTL

(* When close() has resolved, every operation has been settled. *)
THEOREM CloseDrains == Spec => []ClosedIsQuiet
<1>1. IInv => ClosedIsQuiet
  <2> SUFFICES ASSUME IInv, state = "closed" PROVE
         /\ queue = <<>> /\ active = 0 /\ drain = "none"
         /\ \A i \in 1..sequence : outcome[i] # "none"
    BY DEF ClosedIsQuiet
  <2>1. queue = <<>> /\ drain = "none" /\ active = 0
    BY DEF IInv, Places, QueuedWorkHasWorker
  <2>2. \A i \in 1..sequence : i \in Id /\ i <= sequence
    BY MaxStartsAssumption DEF IInv, TypeOK, Id
  <2>3. \A i \in Id : itemState[i] # "pending" /\ i # active
    BY <2>1 DEF IInv, QueueIsPending, Queued, Id
  <2> QED BY <2>1, <2>2, <2>3 DEF IInv, SettledWhenDone
<1> QED BY <1>1, Invariance, PTL

(* What one turn of the worker does to the items it does not settle. *)
LEMMA RunNextTurn ==
  ASSUME IInv, NEW s, s \in [Id -> ItemState], RunNext(s),
         \A i \in Id : s[i] = "pending" <=> itemState[i] = "pending"
  PROVE  \/ itemState' = s /\ ran' = ran /\ active' = 0 /\ \A i \in Id : s[i] # "pending"
         \/ \E item \in Id :
              /\ s[item] = "pending" /\ \A j \in Id : s[j] = "pending" => item <= j
              /\ itemState' = [s EXCEPT ![item] = "active"]
              /\ ran' = ran \cup {item} /\ active' = item
<1>1. queue \in Seq(Id) /\ Sorted(queue) /\ \A i \in Id : s[i] = "pending" <=> Queued(i)
  BY DEF IInv, TypeOK, QueueIsPending
<1>2. queue = <<>> => \A i \in Id : s[i] # "pending"
  BY <1>1 DEF Queued
<1> QED BY <1>1, <1>2, RunNextFact

(* What an operation's return settles, and the state its item is left in. *)
LEMMA ReturnFact ==
  ASSUME IInv, NEW r \in Results, OperationReturns(r)
  PROVE  \E s \in [Id -> ItemState] :
           /\ RunNext(s)
           /\ active \in Id /\ outcome[active] = "none"
           /\ itemState[active] \in {"active"} \cup Interrupted
           /\ s = [itemState EXCEPT ![active] = IF @ = "active" THEN "completed" ELSE @]
           /\ \A i \in Id : s[i] = "pending" <=> itemState[i] = "pending"
           /\ outcome' = [outcome EXCEPT ![active] =
                             IF itemState[active] = "active" THEN r ELSE itemState[active]]
<1> DEFINE s == [itemState EXCEPT ![active] = IF @ = "active" THEN "completed" ELSE @]
<1>1. active \in Id
  BY MaxStartsAssumption DEF OperationReturns, IInv, QueuedWorkHasWorker, TypeOK, Id
<1>2. s \in [Id -> ItemState]
  BY DEF IInv, TypeOK, ItemState
<1>3. outcome[active] = "none" /\ itemState[active] \in {"active"} \cup Interrupted
  BY <1>1 DEF IInv, SettledWhenDone, Places, Id
<1>4. \A i \in Id : s[i] = "pending" <=> itemState[i] = "pending"
  BY <1>1 DEF IInv, TypeOK
<1>5. outcome' = [outcome EXCEPT ![active] =
                    IF itemState[active] = "active" THEN r ELSE itemState[active]]
  BY <1>3 DEF OperationReturns, Settlement
<1>6. RunNext(s)
  BY DEF OperationReturns
<1> HIDE DEF s
<1>7. s = [itemState EXCEPT ![active] = IF @ = "active" THEN "completed" ELSE @]
  BY DEF s
<1> QED BY <1>1, <1>2, <1>3, <1>4, <1>5, <1>6, <1>7

(* A stale analysis is never delivered: a successful analysis is the newest  *)
(* one requested when it is settled.                                         *)
THEOREM LatestWins == Spec => LatestAnalysisWins
<1> DEFINE P == \A i \in Id :
       (outcome[i] = "none" /\ outcome'[i] \in {"value", "error"}
          /\ request[i].kind = "analysis")
         => request[i].generation = analysisGeneration
<1>1. IInv /\ [Next]_vars => [P]_vars
  <2> SUFFICES ASSUME IInv, Next, NEW i \in Id, outcome[i] = "none",
                      outcome'[i] \in Results, request[i].kind = "analysis"
               PROVE  request[i].generation = analysisGeneration
    BY DEF Results
  <2>1. ASSUME NEW k \in Kind, Start(k) PROVE FALSE
    BY <2>1 DEF Start, Results
  <2>2. ASSUME NEW j \in Id, Cancel(j) PROVE FALSE
    BY <2>2 DEF Cancel, Results, IInv, TypeOK
  <2>3. ASSUME NEW r \in Results, OperationReturns(r)
        PROVE  request[i].generation = analysisGeneration
    <3>1. i = active /\ itemState[active] = "active"
      BY <2>3, ReturnFact DEF IInv, TypeOK, Results, Interrupted
    <3> QED BY <3>1 DEF IInv, Newest, Id
  <2>4. outcome' = outcome => FALSE
    BY DEF Results
  <2> QED BY <2>1, <2>2, <2>3, <2>4 DEF Next, DrainBegins, Checkpoint, DrainEnds, Close,
          CloseRechecks, Closed, Stopped, vars, Results
<1> QED BY <1>1, Invariance, PTL DEF Spec, LatestAnalysisWins

Verdicts ==
  \A i \in Id :
    /\ outcome[i] # "none" => outcome'[i] = outcome[i]
    /\ itemState[i] \in Interrupted \cup {"completed"} => itemState'[i] = itemState[i]

(* No step changes a settled result, nor the state of an item that is done. *)
LEMMA VerdictStep == IInv /\ [Next]_vars => Verdicts
<1> SUFFICES ASSUME IInv, [Next]_vars PROVE Verdicts
  OBVIOUS
<1> USE DEF Verdicts
<1>1. ASSUME NEW k \in Kind, Start(k) PROVE Verdicts
  <2>1. \A i \in Id : i \in SupersededBy(k) => itemState[i] \in {"pending", "active"}
    BY DEF SupersededBy, IInv, QueueIsPending
  <2>2. sequence + 1 \in Id /\ itemState[sequence + 1] = "absent"
    BY <1>1, MaxStartsAssumption DEF Start, IInv, TypeOK, Places, Id
  <2>3. \A i \in Id : (k = "analysis" /\ i = pendingAnalysis) => outcome[i] = "none"
    BY DEF IInv, QueueIsPending, SettledWhenDone
  <2> QED BY <1>1, <2>1, <2>2, <2>3 DEF Start, Interrupted, Id
<1>2. ASSUME NEW j \in Id, Cancel(j) PROVE Verdicts
  BY <1>2 DEF Cancel, Interruptible, IInv, TypeOK, SettledWhenDone, Interrupted
<1>3. ASSUME NEW r \in Results, OperationReturns(r) PROVE Verdicts
  <2> PICK s \in [Id -> ItemState] :
         /\ RunNext(s)
         /\ active \in Id /\ outcome[active] = "none"
         /\ itemState[active] \in {"active"} \cup Interrupted
         /\ s = [itemState EXCEPT ![active] = IF @ = "active" THEN "completed" ELSE @]
         /\ \A i \in Id : s[i] = "pending" <=> itemState[i] = "pending"
         /\ outcome' = [outcome EXCEPT ![active] =
                           IF itemState[active] = "active" THEN r ELSE itemState[active]]
    BY <1>3, ReturnFact
  <2>1. \A i \in Id : outcome[i] # "none" => outcome'[i] = outcome[i]
    BY DEF IInv, TypeOK
  <2>2. \A i \in Id : itemState[i] \in Interrupted \cup {"completed"} => s[i] = itemState[i]
    BY DEF IInv, TypeOK, Interrupted
  <2>3. \A i \in Id : s[i] # "pending" => itemState'[i] = s[i]
    <3>1. RunNext(s) /\ \A i \in Id : s[i] = "pending" <=> itemState[i] = "pending"
      OBVIOUS
    <3> QED BY ONLY IInv, <3>1, s \in [Id -> ItemState], RunNextTurn
  <2> QED BY <2>1, <2>2, <2>3 DEF Interrupted
<1>4. CASE DrainBegins \/ (Checkpoint /\ queue # <<>>)
  <2>1. RunNext(itemState) /\ outcome' = outcome /\ itemState \in [Id -> ItemState]
    BY <1>4 DEF DrainBegins, Checkpoint, IInv, TypeOK
  <2> QED BY <2>1, RunNextTurn DEF Interrupted
<1>5. CASE itemState' = itemState /\ outcome' = outcome
  BY <1>5
<1> QED BY <1>1, <1>2, <1>3, <1>4, <1>5 DEF Next, Checkpoint, DrainEnds, Close,
        CloseRechecks, Closed, Stopped, vars, Results

(* Promises are settled once, and the first interruption of an item decides. *)
THEOREM FirstVerdictWins == Spec => VerdictIsFinal
<1>1. IInv /\ [Next]_vars => [Verdicts]_vars
  BY VerdictStep
<1> QED BY <1>1, Invariance, PTL DEF Spec, VerdictIsFinal, Verdicts

-----------------------------------------------------------------------------
(* What makes BatchIsExact inductive: only requested operations run, a queued *)
(* one has not, and no analysis is newer than the queued one.                *)
Covered(i) == {j \in request[i].first..i : request[j].kind = "analysis"}

BatchesCover ==
  \A i \in 1..sequence : request[i].kind = "analysis" =>
    /\ request[i].first \in 1..i
    /\ request[i].size = Cardinality(Covered(i))
    /\ \A j \in Covered(i) \ {i} : itemState[j] = "superseded" /\ j \notin ran

Untouched ==
  /\ \A i \in ran : i <= sequence /\ itemState[i] # "pending"
  /\ pendingAnalysis # 0 =>
       \A j \in (pendingAnalysis + 1)..sequence : request[j].kind # "analysis"

Batches == BatchesCover /\ Untouched

(* What the steps other than start() and cancel() do to the items that run.  *)
LEMMA TurnStep ==
  ASSUME IInv, [Next]_vars, \A k \in Kind : ~Start(k), \A i \in Id : ~Cancel(i)
  PROVE  /\ UNCHANGED <<sequence, request>> /\ pendingAnalysis' \in {0, pendingAnalysis}
         /\ \A i \in ran' \ ran : itemState[i] = "pending" /\ itemState'[i] # "pending"
         /\ \A i \in Id : itemState[i] # "pending" => itemState'[i] # "pending"
<1>1. ASSUME NEW s \in [Id -> ItemState], RunNext(s),
             \A i \in Id : s[i] = "pending" <=> itemState[i] = "pending"
      PROVE  /\ pendingAnalysis' \in {0, pendingAnalysis}
             /\ \A i \in ran' \ ran : itemState[i] = "pending" /\ itemState'[i] # "pending"
             /\ \A i \in Id : itemState[i] # "pending" => itemState'[i] # "pending"
  <2>1. CASE UNCHANGED <<pendingAnalysis, ran>> /\ itemState' = s
    BY <1>1, <2>1
  <2>2. CASE \E item \in Id :
              /\ s[item] = "pending" /\ itemState' = [s EXCEPT ![item] = "active"]
              /\ pendingAnalysis' = (IF pendingAnalysis = item THEN 0 ELSE pendingAnalysis)
              /\ ran' = ran \cup {item}
    BY <1>1, <2>2
  <2>3. queue \in Seq(Id) /\ Sorted(queue) /\ \A i \in Id : s[i] = "pending" <=> Queued(i)
    BY <1>1 DEF IInv, TypeOK, QueueIsPending
  <2> QED BY <1>1, <2>1, <2>2, <2>3, RunNextFact
<1>2. ASSUME NEW r \in Results, OperationReturns(r)
      PROVE  /\ UNCHANGED <<sequence, request>> /\ pendingAnalysis' \in {0, pendingAnalysis}
             /\ \A i \in ran' \ ran : itemState[i] = "pending" /\ itemState'[i] # "pending"
             /\ \A i \in Id : itemState[i] # "pending" => itemState'[i] # "pending"
  <2>1. UNCHANGED <<sequence, request>>
    BY <1>2 DEF OperationReturns
  <2>2. PICK s \in [Id -> ItemState] :
           RunNext(s) /\ \A i \in Id : s[i] = "pending" <=> itemState[i] = "pending"
    BY <1>2, ReturnFact
  <2> QED BY <2>1, <2>2, <1>1
<1>3. CASE DrainBegins \/ (Checkpoint /\ queue # <<>>)
  <2>1. RunNext(itemState) /\ itemState \in [Id -> ItemState] /\ UNCHANGED <<sequence, request>>
    BY <1>3 DEF DrainBegins, Checkpoint, IInv, TypeOK
  <2> QED BY <2>1, <1>1
<1>4. CASE UNCHANGED <<sequence, request, pendingAnalysis, ran, itemState>>
  BY <1>4
<1> QED BY <1>2, <1>3, <1>4 DEF Next, Checkpoint, DrainEnds, Close, CloseRechecks, Closed,
        Stopped, vars, Results

(* A new analysis covers what the queued one covered, and itself. *)
LEMMA CoverGrows ==
  ASSUME IInv, Batches, NEW k \in Kind, Start(k)
  PROVE  Batches'
<1> PICK id : id = sequence + 1
  OBVIOUS
<1> DEFINE coalesced == IF k = "analysis" THEN pendingAnalysis ELSE 0
<1>1. /\ id \in Id /\ id \in Nat /\ sequence \in Nat /\ sequence' = id
      /\ \A i \in 1..sequence : i \in Id /\ i # id
  BY MaxStartsAssumption DEF Start, IInv, TypeOK, Id
<1>2. /\ \A i \in Id \ {id} : request'[i] = request[i]
      /\ request'[id].kind = k /\ request'[id].first = Batch(id, coalesced).first
      /\ request'[id].size = Batch(id, coalesced).size
  BY <1>1 DEF Start, IInv, TypeOK
<1>3. /\ ran' = ran /\ id \notin ran
      /\ pendingAnalysis' = IF k = "analysis" THEN id ELSE pendingAnalysis
      /\ \A i \in Id \ {id} : itemState[i] # "pending" => itemState'[i] # "pending"
  BY <1>1 DEF Start, SupersededBy, Batches, Untouched
<1>4. \A i \in Id : itemState[i] = "superseded" => itemState'[i] = "superseded"
  BY VerdictStep DEF Verdicts, Interrupted, Next
<1>5. ASSUME NEW i \in 1..sequence, request[i].kind = "analysis"
      PROVE  Covered(i)' = Covered(i) /\ Covered(i) \subseteq 1..sequence
  <2>1. request[i].first \in 1..i
    BY <1>5 DEF Batches, BatchesCover
  <2>2. \A j \in request[i].first..i : j \in Id \ {id} /\ j \in 1..sequence
    BY <1>1, <2>1
  <2>3. request'[i].first = request[i].first
    BY <1>1, <1>2
  <2> QED BY <1>2, <2>2, <2>3 DEF Covered
<1>6. ASSUME NEW i \in 1..sequence, request'[i].kind = "analysis"
      PROVE  /\ request'[i].first \in 1..i
             /\ request'[i].size = Cardinality(Covered(i)')
             /\ \A j \in Covered(i)' \ {i} : itemState'[j] = "superseded" /\ j \notin ran'
  <2>1. request[i].kind = "analysis" /\ request'[i] = request[i]
    BY <1>1, <1>2, <1>6
  <2> QED BY <1>1, <1>3, <1>4, <1>5, <2>1 DEF Batches, BatchesCover
<1>7. Untouched'
  <2>1. \A i \in ran' : i <= sequence' /\ itemState'[i] # "pending"
    BY <1>1, <1>3 DEF Batches, Untouched, IInv, TypeOK, Id
  <2>2. CASE k = "analysis"
    BY <1>1, <1>3, <2>1, <2>2 DEF Untouched
  <2>3. CASE k # "analysis"
    <3>1. ASSUME pendingAnalysis # 0, NEW j \in (pendingAnalysis + 1)..id
          PROVE  request'[j].kind # "analysis"
      <4>1. j = id \/ (j \in (pendingAnalysis + 1)..sequence /\ j \in Id \ {id})
        BY <1>1, <3>1 DEF IInv, TypeOK, Id
      <4> QED BY <1>2, <2>3, <3>1, <4>1 DEF Batches, Untouched
    <3> QED BY <1>1, <1>3, <2>1, <2>3, <3>1 DEF Untouched
  <2> QED BY <2>2, <2>3
<1>8. ASSUME request'[id].kind = "analysis" =>
                /\ request'[id].first \in 1..id
                /\ request'[id].size = Cardinality(Covered(id)')
                /\ \A j \in Covered(id)' \ {id} : itemState'[j] = "superseded" /\ j \notin ran'
       PROVE  Batches'
  <2>1. \A i \in 1..sequence' : i = id \/ i \in 1..sequence
    BY <1>1
  <2>2. BatchesCover'
    <3> SUFFICES ASSUME NEW i \in 1..sequence', request'[i].kind = "analysis"
                 PROVE  /\ request'[i].first \in 1..i /\ request'[i].size = Cardinality(Covered(i)')
                        /\ \A j \in Covered(i)' \ {i} : itemState'[j] = "superseded" /\ j \notin ran'
      BY DEF BatchesCover
    <3>1. CASE i = id
      BY <1>8, <3>1
    <3>2. CASE i \in 1..sequence
      BY <1>6, <3>2
    <3> QED BY <2>1, <3>1, <3>2
  <2> QED BY <1>7, <2>2 DEF Batches
<1>9. CASE k # "analysis"
  BY <1>2, <1>9, <1>8
<1>10. CASE k = "analysis"
  <2>1. CASE pendingAnalysis = 0
    <3>1. request'[id].first = id /\ request'[id].size = 1
      BY <1>2, <1>10, <2>1 DEF Batch
    <3>2. Covered(id)' = {id}
      <4>1. id..id = {id}
        BY <1>1
      <4> QED BY <1>2, <1>10, <3>1, <4>1 DEF Covered
    <3>3. Cardinality(Covered(id)') = 1
      BY <3>2, FS_Singleton
    <3> QED BY <1>1, <1>8, <3>1, <3>2, <3>3
  <2>2. CASE pendingAnalysis # 0
    <3> DEFINE old == pendingAnalysis
    <3>1. /\ old \in 1..sequence /\ request[old].kind = "analysis" /\ itemState[old] = "pending"
          /\ old \notin ran
      <4>1. old \in Id
        BY <2>2 DEF IInv, TypeOK, Id
      <4>2. itemState[old] = "pending" /\ request[old].kind = "analysis"
        BY <4>1 DEF IInv, QueueIsPending
      <4>3. old <= sequence
        BY <1>1, <4>1, <4>2 DEF IInv, Places, Id
      <4> QED BY <1>1, <4>1, <4>2, <4>3 DEF Batches, Untouched, Id
    <3>2. /\ request[old].first \in 1..old /\ request[old].size = Cardinality(Covered(old))
          /\ \A j \in Covered(old) \ {old} : itemState[j] = "superseded" /\ j \notin ran
      BY <3>1 DEF Batches, BatchesCover
    <3>3. request'[id].first = request[old].first /\ request'[id].size = request[old].size + 1
      BY <1>2, <1>10, <2>2 DEF Batch
    <3>4. itemState'[old] = "superseded"
      BY <1>1, <1>10, <2>2, <3>1 DEF Start, SupersededBy
    <3>5. \A j \in (old + 1)..sequence : request[j].kind # "analysis"
      BY <2>2 DEF Batches, Untouched
    <3> HIDE DEF old
    <3>6. Covered(id)' = Covered(old) \cup {id}
      <4>1. \A j : j \in request[old].first..id <=>
               j \in request[old].first..old \/ j \in (old + 1)..sequence \/ j = id
        BY <1>1, <3>1, <3>2
      <4>2. \A j \in request[old].first..old : j \in Id \ {id}
        BY <1>1, <3>1, <3>2
      <4>3. \A j \in (old + 1)..sequence : j \in Id \ {id}
        BY <1>1, <3>1
      <4>4. \A j \in request[old].first..old : request'[j] = request[j]
        BY <1>2, <4>2
      <4>5. \A j \in (old + 1)..sequence : request'[j].kind # "analysis"
        BY <1>2, <3>5, <4>3
      <4>6. Covered(id)' = {j \in request[old].first..id : request'[j].kind = "analysis"}
        BY <3>3 DEF Covered
      <4>7. request'[id].kind = "analysis"
        BY <1>2, <1>10
      <4>8. \A j : j \in Covered(id)' <=> j \in Covered(old) \/ j = id
        BY <4>1, <4>4, <4>5, <4>6, <4>7 DEF Covered
      <4> QED BY <4>8
    <3>7. IsFiniteSet(Covered(old)) /\ id \notin Covered(old)
      <4>1. IsFiniteSet(request[old].first..old)
        BY <3>1, <3>2, FS_Interval
      <4>2. Covered(old) \subseteq request[old].first..old
        BY DEF Covered
      <4> QED BY <1>1, <3>1, <3>2, <4>1, <4>2, FS_Subset
    <3>8. Cardinality(Covered(id)') = Cardinality(Covered(old)) + 1
      BY <3>6, <3>7, FS_AddElement
    <3>9. \A j \in Covered(id)' \ {id} : itemState'[j] = "superseded" /\ j \notin ran'
      <4>1. Covered(old) \subseteq Id
        BY <1>1, <3>1, <3>2 DEF Covered
      <4> QED BY <1>3, <1>4, <3>1, <3>2, <3>4, <3>6, <4>1
    <3>10. request'[id].first \in 1..id
      BY <1>1, <3>1, <3>2, <3>3
    <3> QED BY <1>8, <3>2, <3>3, <3>8, <3>9, <3>10
  <2> QED BY <2>1, <2>2
<1> QED BY <1>9, <1>10

(* The step other than start(): batches are what they were. *)
LEMMA CoverStays ==
  ASSUME IInv, Batches, [Next]_vars, \A k \in Kind : ~Start(k)
  PROVE  Batches'
<1>1. /\ UNCHANGED <<sequence, request>> /\ pendingAnalysis' \in {0, pendingAnalysis}
      /\ \A i \in ran' \ ran : itemState[i] = "pending" /\ itemState'[i] # "pending"
      /\ \A i \in Id : itemState[i] # "pending" => itemState'[i] # "pending"
  <2>1. ASSUME NEW i \in Id, Cancel(i)
        PROVE  /\ UNCHANGED <<sequence, request, ran>> /\ pendingAnalysis' \in {0, pendingAnalysis}
               /\ \A j \in Id : itemState[j] # "pending" => itemState'[j] # "pending"
    BY <2>1 DEF Cancel, IInv, TypeOK
  <2> QED BY <2>1, TurnStep
<1>2. \A i \in Id : itemState[i] = "superseded" => itemState'[i] = "superseded"
  BY VerdictStep DEF Verdicts, Interrupted
<1>3. ran \subseteq Id /\ sequence \in Nat /\ 1..sequence \subseteq Id
  BY MaxStartsAssumption DEF IInv, TypeOK, Id
<1>4. Untouched'
  <2>1. \A i \in ran' : i <= sequence' /\ itemState'[i] # "pending"
    <3>1. \A i \in ran' \ ran : i \in Id /\ i <= sequence
      <4>1. ran' \subseteq Id
        BY StepIInv DEF IInv, TypeOK
      <4> QED BY <1>1, <1>3, <4>1 DEF IInv, Places, Id
    <3> QED BY <1>1, <1>3, <3>1 DEF Batches, Untouched
  <2> QED BY <1>1, <2>1 DEF Batches, Untouched
<1>5. BatchesCover'
  <2> SUFFICES ASSUME NEW i \in 1..sequence, request[i].kind = "analysis"
               PROVE  /\ request[i].first \in 1..i /\ request[i].size = Cardinality(Covered(i))
                      /\ \A j \in Covered(i) \ {i} : itemState'[j] = "superseded" /\ j \notin ran'
    BY <1>1 DEF BatchesCover, Covered
  <2>1. /\ request[i].first \in 1..i /\ request[i].size = Cardinality(Covered(i))
        /\ \A j \in Covered(i) \ {i} : itemState[j] = "superseded" /\ j \notin ran
    BY DEF Batches, BatchesCover
  <2>2. Covered(i) \subseteq Id
    BY <1>3, <2>1 DEF Covered
  <2> QED BY <1>1, <1>2, <2>1, <2>2
<1> QED BY <1>4, <1>5 DEF Batches

(* A batch covers exactly the analyses coalesced into it, none of which ran. *)
THEOREM BatchesAreExact == Spec => []BatchIsExact
<1>1. Init => Batches
  BY DEF Init, Batches, BatchesCover, Untouched
<1>2. IInv /\ Batches /\ [Next]_vars => Batches'
  BY CoverGrows, CoverStays
<1>3. Batches => BatchIsExact
  BY DEF Batches, BatchesCover, BatchIsExact, Covered
<1> QED BY <1>1, <1>2, <1>3, Invariance, PTL DEF Spec

-----------------------------------------------------------------------------
(* Operations are invoked in request order and never two at a time. *)
THEOREM InOrder == Spec => RunsInOrder
<1> DEFINE P == \A i \in ran' \ ran :
       /\ \A j \in 1..(i - 1) : itemState[j] # "pending"
       /\ \A j \in Id \ {i} : itemState'[j] # "active"
<1>1. ASSUME IInv, NEW s \in [Id -> ItemState], RunNext(s),
             \A i \in Id : s[i] = "pending" <=> itemState[i] = "pending",
             \A i \in Id : s[i] # "active"
      PROVE  P
  <2>1. CASE ran' = ran
    BY <2>1
  <2>2. CASE \E item \in Id :
              /\ s[item] = "pending" /\ \A j \in Id : s[j] = "pending" => item <= j
              /\ itemState' = [s EXCEPT ![item] = "active"]
              /\ ran' = ran \cup {item} /\ active' = item
    <3> PICK item \in Id :
              /\ s[item] = "pending" /\ \A j \in Id : s[j] = "pending" => item <= j
              /\ itemState' = [s EXCEPT ![item] = "active"]
              /\ ran' = ran \cup {item} /\ active' = item
      BY <2>2
    <3>1. \A j \in 1..(item - 1) : j \in Id /\ ~(item <= j)
      BY MaxStartsAssumption DEF Id
    <3> QED BY <3>1, <1>1
  <2> QED BY <1>1, <2>1, <2>2, RunNextTurn
<1>2. IInv /\ [Next]_vars => [P]_vars
  <2> SUFFICES ASSUME IInv, Next PROVE P
    OBVIOUS
  <2>1. ASSUME NEW r \in Results, OperationReturns(r) PROVE P
    <3> PICK s \in [Id -> ItemState] :
           /\ RunNext(s)
           /\ active \in Id
           /\ itemState[active] \in {"active"} \cup Interrupted
           /\ s = [itemState EXCEPT ![active] = IF @ = "active" THEN "completed" ELSE @]
           /\ \A i \in Id : s[i] = "pending" <=> itemState[i] = "pending"
      BY <2>1, ReturnFact
    <3>1. \A i \in Id : s[i] # "active"
      BY DEF IInv, Places, TypeOK, Interrupted
    <3> HIDE DEF P
    <3> QED BY <3>1, <1>1
  <2>2. CASE DrainBegins \/ (Checkpoint /\ queue # <<>>)
    <3>1. RunNext(itemState) /\ active = 0 /\ itemState \in [Id -> ItemState]
      BY <2>2 DEF DrainBegins, Checkpoint, IInv, TypeOK, QueuedWorkHasWorker
    <3>2. \A i \in Id : itemState[i] # "active"
      BY <3>1 DEF IInv, Places, Id
    <3> HIDE DEF P
    <3> QED BY <3>1, <3>2, <1>1
  <2>3. CASE ran' = ran
    BY <2>3
  <2> QED BY <2>1, <2>2, <2>3 DEF Next, Start, Cancel, Checkpoint, DrainEnds, Close,
          CloseRechecks, Closed, Stopped, vars, Results
<1> QED BY <1>2, Invariance, PTL DEF Spec, RunsInOrder

-----------------------------------------------------------------------------
(* The queue, the worker and its checkpoints implement the abstract service: *)
(* requests served one at a time, oldest first, the newest analysis winning. *)
THEOREM Refinement == Spec => ServiceRefined
<1>1. Init => Service!Init
  BY DEF Init, Service!Init, NoRequest, Id, Service!Request
<1>2. ASSUME IInv, [Next]_vars PROVE [Service!Next]_(Service!vars)
  <2> DEFINE open == state = "accepting"
             analyses == {i \in Id : request[i].kind = "analysis"}
             doom == IF active # 0 /\ itemState[active] \in Interrupted
                     THEN itemState[active] ELSE "none"
  <2> USE <1>2 DEF IInv
  <2>1. Id = Service!Request
    BY DEF Id, Service!Request
  <2>2. \A i \in Id : Service!Waiting(i) <=> itemState[i] = "pending"
    BY DEF Service!Waiting, SettledWhenDone, TypeOK, Places, Interrupted, Id
  <2>3. ASSUME NEW k \in Kind, Start(k) PROVE Service!Next
    <3>1. active' = active /\ sequence' = sequence + 1 /\ open /\ open' /\ sequence < MaxStarts
      BY <2>3 DEF Start
    <3>2. /\ sequence + 1 \in Id /\ itemState[sequence + 1] = "absent"
          /\ request[sequence + 1].kind = "none" /\ active # sequence + 1
      BY <3>1, MaxStartsAssumption DEF Places, TypeOK, Id, Interrupted
    <3>3. /\ request'[sequence + 1].kind = k
          /\ \A i \in Id : i # sequence + 1 => request'[i] = request[i]
      BY <2>3, <3>2 DEF Start, TypeOK
    <3>4. active # 0 => active \in Id
      BY DEF TypeOK, Id
    <3>5. CASE k = "explanation"
      <4>1. analyses' = analyses
        BY <3>2, <3>3, <3>5
      <4>2. outcome' = outcome
        <5>1. outcome' = [i \in Id |-> outcome[i]]
          BY <2>3, <3>5 DEF Start, Id
        <5> QED BY <5>1 DEF TypeOK
      <4>3. doom' = doom
        BY <2>3, <3>1, <3>2, <3>4, <3>5 DEF Start, SupersededBy
      <4> QED BY <3>1, <4>1, <4>2, <4>3 DEF Service!Next, Service!AskExplanation
    <3>6. CASE k = "analysis"
      <4>1. analyses' = analyses \cup {sequence + 1}
        BY <3>2, <3>3, <3>6
      <4>2. outcome' = [i \in Service!Request |->
               IF Service!Waiting(i) /\ i \in analyses THEN "superseded" ELSE outcome[i]]
        <5>1. \A i \in Id : (Service!Waiting(i) /\ i \in analyses) <=> i = pendingAnalysis
          BY <2>2 DEF QueueIsPending
        <5>2. outcome' = [i \in Id |-> IF i = pendingAnalysis THEN "superseded" ELSE outcome[i]]
          BY <2>3, <3>6 DEF Start
        <5> QED BY <2>1, <5>1, <5>2
      <4>3. doom' = IF active \in analyses /\ doom = "none" THEN "superseded" ELSE doom
        <5>1. CASE active = 0
          BY <5>1, <3>1 DEF Id
        <5>2. CASE active # 0
          <6>1. active \in Id /\ itemState[active] \in {"active"} \cup Interrupted
            BY <3>4, <5>2 DEF Places
          <6>2. active # pendingAnalysis
            BY <6>1 DEF QueueIsPending, Interrupted
          <6>3. itemState'[active] = IF request[active].kind = "analysis" /\ itemState[active] = "active"
                                     THEN "superseded" ELSE itemState[active]
            BY <2>3, <3>2, <3>6, <5>2, <6>1, <6>2 DEF Start, SupersededBy
          <6> QED BY <3>1, <5>2, <6>1, <6>3 DEF Interrupted
        <5> QED BY <5>1, <5>2
      <4> QED BY <3>1, <4>1, <4>2, <4>3 DEF Service!Next, Service!AskAnalysis
    <3> QED BY <3>5, <3>6 DEF Kind
  <2>4. ASSUME NEW i \in Id, Cancel(i) PROVE Service!Next
    <3>1. UNCHANGED <<state, sequence, active, request>> /\ analyses' = analyses
      BY <2>4 DEF Cancel
    <3>2. CASE itemState[i] = "pending"
      <4>1. outcome' = [outcome EXCEPT ![i] = "cancelled"] /\ i # active
        BY <2>4, <3>2 DEF Cancel, Places, Interrupted, Id
      <4>2. doom' = doom
        BY <2>4, <3>1, <4>1 DEF Cancel, TypeOK, Id
      <4> QED BY <2>1, <2>2, <3>1, <3>2, <4>1, <4>2 DEF Service!Next, Service!Cancel
    <3>3. CASE itemState[i] = "active"
      <4>1. i = active /\ active # 0 /\ outcome' = outcome
        BY <2>4, <3>3 DEF Cancel, Places, Id
      <4>2. doom = "none" /\ doom' = "cancelled"
        BY <2>4, <3>1, <3>3, <4>1 DEF Cancel, TypeOK, Interrupted
      <4> QED BY <2>1, <3>1, <4>1, <4>2 DEF Service!Next, Service!Cancel
    <3> QED BY <2>4, <3>2, <3>3 DEF Cancel, Interruptible
  <2>5. ASSUME NEW r \in Results, OperationReturns(r) PROVE Service!Next
    <3> PICK s \in [Id -> ItemState] :
           /\ RunNext(s)
           /\ active \in Id /\ outcome[active] = "none"
           /\ itemState[active] \in {"active"} \cup Interrupted
           /\ s = [itemState EXCEPT ![active] = IF @ = "active" THEN "completed" ELSE @]
           /\ \A i \in Id : s[i] = "pending" <=> itemState[i] = "pending"
           /\ outcome' = [outcome EXCEPT ![active] =
                             IF itemState[active] = "active" THEN r ELSE itemState[active]]
      BY <2>5, ReturnFact
    <3>1. UNCHANGED <<state, sequence, request>> /\ analyses' = analyses
      BY <2>5 DEF OperationReturns
    <3>3. active # 0
      BY DEF Id
    <3>2. outcome' = [outcome EXCEPT ![active] = IF doom = "none" THEN r ELSE doom]
      <4>1. CASE itemState[active] = "active"
        <5>1. doom = "none"
          BY <4>1 DEF Interrupted
        <5> QED BY <4>1, <5>1
      <4>2. CASE itemState[active] \in Interrupted
        <5>1. doom = itemState[active] /\ doom # "none" /\ itemState[active] # "active"
          BY <3>3, <4>2 DEF Interrupted
        <5> HIDE DEF doom
        <5> QED BY <5>1
      <4> QED BY <4>1, <4>2
    <3>4. doom' = "none" /\ Service!TurnTo
      <4>1. CASE itemState' = s /\ active' = 0 /\ \A i \in Id : s[i] # "pending"
        BY <4>1, <2>1, <2>2 DEF Service!TurnTo
      <4>2. CASE \E item \in Id :
              /\ s[item] = "pending" /\ \A j \in Id : s[j] = "pending" => item <= j
              /\ itemState' = [s EXCEPT ![item] = "active"]
              /\ active' = item
        BY <4>2, <2>1, <2>2 DEF Service!TurnTo, Service!Oldest, Interrupted
      <4>3. RunNext(s) /\ s \in [Id -> ItemState]
            /\ \A i \in Id : s[i] = "pending" <=> itemState[i] = "pending"
        OBVIOUS
      <4>4. \/ itemState' = s /\ active' = 0 /\ \A i \in Id : s[i] # "pending"
            \/ \E item \in Id :
              /\ s[item] = "pending" /\ \A j \in Id : s[j] = "pending" => item <= j
              /\ itemState' = [s EXCEPT ![item] = "active"]
              /\ active' = item
        BY ONLY IInv, <1>2, <4>3, RunNextTurn
      <4> QED BY <4>1, <4>2, <4>4
    <3> QED BY <3>1, <3>2, <3>3, <3>4 DEF Service!Next, Service!Answer, Results
  <2>6. CASE DrainBegins \/ (Checkpoint /\ queue # <<>>)
    <3>1. /\ RunNext(itemState) /\ active = 0 /\ itemState \in [Id -> ItemState]
          /\ UNCHANGED <<state, sequence, request, outcome>> /\ analyses' = analyses
      BY <2>6 DEF DrainBegins, Checkpoint, TypeOK, QueuedWorkHasWorker
    <3>2. CASE itemState' = itemState /\ active' = 0
      BY <3>1, <3>2 DEF Service!vars
    <3>3. CASE \E item \in Id :
              /\ itemState[item] = "pending" /\ \A j \in Id : itemState[j] = "pending" => item <= j
              /\ itemState' = [itemState EXCEPT ![item] = "active"]
              /\ active' = item
      <4>1. doom = "none" /\ doom' = "none"
        BY <3>1, <3>3 DEF Interrupted
      <4>2. Service!Oldest(active')
        BY <3>3, <2>1, <2>2 DEF Service!Oldest
      <4> QED BY <3>1, <4>1, <4>2 DEF Service!Next, Service!Serve
    <3> QED BY <3>1, <3>2, <3>3, RunNextTurn
  <2>7. CASE Close
    <3>1. open /\ ~open'
      BY <2>7 DEF Close, Places
    <3> QED BY <2>7, <3>1 DEF Close, Service!Next, Service!Close
  <2>8. CASE UNCHANGED <<open, sequence, active, request, itemState, outcome>>
    BY <2>8 DEF Service!vars
  <2>9. CASE Closed
    BY <2>9 DEF Closed, Service!vars
  <2>10. CASE (Checkpoint /\ queue = <<>>) \/ DrainEnds \/ CloseRechecks
    BY <2>10, <2>8 DEF Checkpoint, DrainEnds, CloseRechecks
  <2>11. CASE UNCHANGED vars
    BY <2>11, <2>8 DEF vars
  <2> QED BY <1>2, <2>3, <2>4, <2>5, <2>6, <2>7, <2>9, <2>10, <2>11 DEF Next, Stopped, Results
<1> QED BY <1>1, <1>2, Invariance, PTL DEF Spec, ServiceRefined, Service!Spec

-----------------------------------------------------------------------------
(* The session: its documents, its publications and its explanations. *)
DocumentState ==
  [saved : Text \cup {NoText}, rev : Nat, next : Nat,
   open : SUBSET [lifetime : Nat, version : Nat, text : Text]]

\* the documents and the lifetimes each has ended
Known == docs \in UNION {[D -> DocumentState] : D \in SUBSET Doc}
Retired == retired \in [Doc -> SUBSET Nat]
\* a lifetime in use, or ended, has been counted; a document has one lifetime at a time
Counted ==
  /\ \A d \in DOMAIN docs : \A o \in docs[d].open : o.lifetime \in 1..docs[d].next
  /\ \A d \in Doc : retired[d] \subseteq 1..State(d).next
Lifetimes == Known /\ Retired /\ Counted /\ LifetimesNeverReturn

\* What a publication under way has prepared, and what an explanation has seen, is of the epoch in its
\* authority; the newest request is the active one.
Shaped(t) == t = [n |-> t.n, state |-> t.state, authority |-> t.authority, defs |-> t.defs, prepared |-> t.prepared]
Fresh(t) ==
  /\ Shaped(t) /\ t.authority.epoch \in Nat /\ t.authority.epoch <= epoch
  /\ \A p \in t.prepared :
       /\ p.candidate.defs = t.defs
       /\ t.authority.epoch = epoch => p.candidate.prints = View /\ p.candidate.config = config
Counters == epoch \in Nat /\ starts \in Nat
Requests == \A t \in tickets :
  /\ t.n \in 1..starts /\ (publishing # 0 => t.n <= publishing)
  /\ t.state = "active" => Fresh(t)
Seen == \A t \in explains : t.state = "active" =>
  /\ t.authority.epoch \in Nat /\ t.authority.epoch <= epoch
  /\ t.authority.epoch = epoch => t.view = View
Current == Counters /\ Requests /\ Seen

-----------------------------------------------------------------------------
(* What the helpers on documents return. *)

\* State is the record of a known document, or that of an unknown one.
LEMMA StateType ==
  ASSUME Known, NEW d \in Doc
  PROVE State(d) \in DocumentState /\ (State(d).open # {} => d \in DOMAIN docs)
BY DEF Known, State, Unknown, DocumentState

\* What saving makes of a record.
LEMMA SavedType ==
  ASSUME NEW r \in DocumentState, NEW text \in Text \cup {NoText}, NEW n \in Nat
  PROVE LET s == [r EXCEPT !.saved = text, !.rev = n]
        IN s \in DocumentState /\ s.next = r.next /\ s.open = r.open
BY DEF DocumentState

\* Put replaces one record.
LEMMA PutType ==
  ASSUME Known, NEW d \in Doc, NEW s \in DocumentState
  PROVE /\ Put(d, s) \in UNION {[D -> DocumentState] : D \in SUBSET Doc}
        /\ DOMAIN Put(d, s) = DOMAIN docs \cup {d}
        /\ Put(d, s)[d] = s
        /\ \A x \in DOMAIN docs : x # d => Put(d, s)[x] = docs[x]
<1> DEFINE D == DOMAIN docs \cup {d}
<1>1. D \in SUBSET Doc
  BY DEF Known
<1>2. \A x \in D : (IF x = d THEN s ELSE docs[x]) \in DocumentState
  BY DEF Known
<1>3. Put(d, s) \in [D -> DocumentState]
  BY <1>2 DEF Put
<1> QED
  BY <1>1, <1>3 DEF Put

\* A step that gives one document a record whose lifetimes are counted and not yet ended keeps the
\* invariant.
LEMMA BecomeOne ==
  ASSUME Lifetimes, NEW d \in Doc, NEW s \in DocumentState,
         Become(Put(d, s)),
         State(d).next <= s.next,
         \A o \in s.open : o.lifetime \in 1..s.next /\ o.lifetime \notin retired[d]
  PROVE Lifetimes'
<1>1. /\ docs' = Put(d, s)
      /\ retired' = [x \in Doc |-> IF x \in DOMAIN docs' THEN retired[x] ELSE {}]
  BY DEF Become
<1>2. Known' /\ Retired'
  BY <1>1, PutType, Zenon DEF Lifetimes, Known, Retired
<1>3. /\ DOMAIN docs' = DOMAIN docs \cup {d} /\ docs'[d] = s
      /\ \A x \in DOMAIN docs : x # d => docs'[x] = docs[x]
  BY <1>1, PutType DEF Lifetimes
<1>4. State(d).next \in Nat /\ s.next \in Nat
  BY StateType DEF Lifetimes, DocumentState
<1>5. \A x \in DOMAIN docs' : \A o \in docs'[x].open : o.lifetime \in 1..docs'[x].next /\ o.lifetime \notin retired[x]
  BY <1>3 DEF Lifetimes, Counted, LifetimesNeverReturn
<1>6. \A x \in Doc : retired'[x] \subseteq retired[x]
  BY <1>1 DEF Lifetimes, Retired
<1>7. DOMAIN docs' \subseteq Doc
  BY <1>2 DEF Known
<1>8. LifetimesNeverReturn'
  BY <1>5, <1>6, <1>7 DEF LifetimesNeverReturn
<1>9. ASSUME NEW x \in Doc PROVE retired'[x] \subseteq 1..State(x)'.next
  <2>1. CASE x = d
    <3>1. State(x)' = s
      BY <2>1, <1>3 DEF State
    <3> QED
      BY <2>1, <3>1, <1>4, <1>6 DEF Lifetimes, Counted
  <2>2. CASE x # d /\ x \in DOMAIN docs
    <3>1. State(x)' = State(x)
      BY <2>2, <1>3 DEF State
    <3> QED
      BY <2>2, <3>1, <1>6 DEF Lifetimes, Counted
  <2>3. CASE x # d /\ x \notin DOMAIN docs
    <3>1. retired'[x] = {}
      BY <1>1, <1>3, <2>3
    <3> QED
      BY <3>1
  <2> QED
    BY <2>1, <2>2, <2>3
<1>10. Counted'
  BY <1>5, <1>9 DEF Counted
<1> QED
  BY <1>2, <1>8, <1>10 DEF Lifetimes

-----------------------------------------------------------------------------
(* Every operation of the session keeps the invariant. *)

LEMMA LifetimesInit ==
  ASSUME SessionInit
  PROVE Lifetimes
<1>1. retired = [d \in Doc |-> {}]
  BY DEF SessionInit
<1>2. CASE docs = <<>>
  <2>1. DOMAIN docs = {} /\ docs \in [{} -> DocumentState]
    BY <1>2
  <2>2. Known
    BY <2>1 DEF Known
  <2> QED
    BY <1>1, <2>1, <2>2 DEF Lifetimes, Retired, Counted, LifetimesNeverReturn
<1>3. ASSUME NEW texts \in [Doc -> Text], NEW opened \in SUBSET Doc,
             docs = [d \in Doc |-> [saved |-> texts[d], rev |-> 1, next |-> IF d \in opened THEN 1 ELSE 0,
                      open |-> IF d \in opened THEN {[lifetime |-> 1, version |-> 0, text |-> texts[d]]} ELSE {}]]
      PROVE Lifetimes
  <2>1. docs \in [Doc -> DocumentState]
    BY <1>3 DEF DocumentState
  <2>2. Known
    BY <2>1 DEF Known
  <2>3. \A d \in DOMAIN docs : \A o \in docs[d].open : o.lifetime \in 1..docs[d].next
    BY <1>3
  <2> QED
    BY <1>1, <2>1, <2>2, <2>3 DEF Lifetimes, Retired, Counted, LifetimesNeverReturn
<1> QED
  BY <1>2, <1>3 DEF SessionInit

LEMMA SaveStep ==
  ASSUME Lifetimes, NEW d \in Doc, NEW text \in Text, Save(d, text)
  PROVE Lifetimes'
<1> DEFINE s == [State(d) EXCEPT !.saved = text, !.rev = @ + 1]
<1>1. State(d) \in DocumentState
  BY StateType DEF Lifetimes
<1>2. s \in DocumentState /\ s.next = State(d).next /\ s.open = State(d).open
  <2>1. State(d).rev + 1 \in Nat
    BY <1>1 DEF DocumentState
  <2> QED
    BY <1>1, <2>1, SavedType
<1>3. \A o \in s.open : o.lifetime \in 1..s.next /\ o.lifetime \notin retired[d]
  BY <1>2, StateType DEF Lifetimes, Counted, LifetimesNeverReturn, State
<1>4. State(d).next <= s.next
  BY <1>1, <1>2 DEF DocumentState
<1>5. Become(Put(d, s))
  BY DEF Save
<1> HIDE DEF s
<1> QED
  BY <1>2, <1>3, <1>4, <1>5, BecomeOne

LEMMA OpenStep ==
  ASSUME Lifetimes, NEW d \in Doc, NEW version \in 0..MaxVersion, NEW text \in Text, Open(d, version, text)
  PROVE Lifetimes'
<1>1. State(d) \in DocumentState
  BY StateType DEF Lifetimes
<1> DEFINE lifetime == State(d).next + 1
           s(saved) == [State(d) EXCEPT !.saved = saved, !.next = lifetime,
                          !.open = {[lifetime |-> lifetime, version |-> version, text |-> text]}]
<1>2. PICK saved \in Text \cup {NoText} : Become(Put(d, s(saved)))
  <2>1. d \in DOMAIN docs => docs[d].saved \in Text \cup {NoText}
    BY DEF Lifetimes, Known, DocumentState
  <2> QED
    BY <2>1 DEF Open
<1>3. lifetime \in Nat /\ lifetime \in 1..lifetime /\ State(d).next <= lifetime
  BY <1>1 DEF DocumentState
<1>4. lifetime \notin retired[d]
  BY <1>1 DEF Lifetimes, Counted, DocumentState
<1>5. /\ s(saved) \in DocumentState /\ s(saved).next = lifetime
      /\ s(saved).open = {[lifetime |-> lifetime, version |-> version, text |-> text]}
  <2> DEFINE o == [lifetime |-> lifetime, version |-> version, text |-> text]
             r == State(d)
  <2>1. o \in [lifetime : Nat, version : Nat, text : Text]
    BY <1>3, SessionAssumption
  <2>2. lifetime \in Nat
    BY <1>3
  <2>3. s(saved) = [r EXCEPT !.saved = saved, !.next = lifetime, !.open = {o}]
    OBVIOUS
  <2> HIDE DEF lifetime, o, r, s
  <2>4. r \in DocumentState
    BY <1>1 DEF r
  <2>5. s(saved) \in DocumentState /\ s(saved).next = lifetime /\ s(saved).open = {o}
    BY <2>1, <2>2, <2>3, <2>4 DEF DocumentState
  <2> QED
    BY <2>5 DEF o
<1>6. \A o \in s(saved).open : o.lifetime = lifetime
  BY <1>5
<1> HIDE DEF s, lifetime
<1> QED
  BY <1>2, <1>3, <1>4, <1>5, <1>6, BecomeOne

LEMMA EditStep ==
  ASSUME Lifetimes, NEW d \in Doc, NEW lifetime, NEW version \in 0..MaxVersion, NEW text \in Text,
         Edit(d, lifetime, version, text)
  PROVE Lifetimes'
<1> DEFINE s == [docs[d] EXCEPT !.open = {[lifetime |-> lifetime, version |-> version, text |-> text]}]
<1>1. State(d) \in DocumentState /\ d \in DOMAIN docs /\ State(d) = docs[d]
  BY StateType DEF Lifetimes, Edit, State
<1>2. \E o \in docs[d].open : o.lifetime = lifetime
  BY <1>1 DEF Edit
<1>3. lifetime \in 1..docs[d].next /\ lifetime \notin retired[d] /\ lifetime \in Nat
  BY <1>1, <1>2 DEF Lifetimes, Counted, LifetimesNeverReturn, DocumentState
<1>4. s \in DocumentState /\ s.next = docs[d].next /\ \A o \in s.open : o.lifetime = lifetime
  BY <1>1, <1>3 DEF DocumentState
<1>5. State(d).next <= s.next
  BY <1>1, <1>4 DEF DocumentState
<1>6. Become(Put(d, s))
  BY DEF Edit
<1> HIDE DEF s
<1> QED
  BY <1>3, <1>4, <1>5, <1>6, BecomeOne

LEMMA CloseStep ==
  ASSUME Lifetimes, NEW d \in Doc, NEW lifetime, NEW version, CloseDocument(d, lifetime, version)
  PROVE Lifetimes'
<1>1. State(d) \in DocumentState /\ d \in DOMAIN docs /\ State(d) = docs[d]
  BY StateType DEF Lifetimes, CloseDocument, State
<1>2. lifetime \in 1..docs[d].next
  BY <1>1 DEF Lifetimes, Counted, CloseDocument
<1>3. lifetime \in Nat
  BY <1>1, <1>2 DEF DocumentState
<1>4. ClosedDocument(docs[d]) \in DocumentState /\ ClosedDocument(docs[d]).next = docs[d].next /\ ClosedDocument(docs[d]).open = {}
  BY <1>1 DEF ClosedDocument, DocumentState
<1>5. docs' = Put(d, ClosedDocument(docs[d])) /\ retired' = [retired EXCEPT ![d] = @ \cup {lifetime}]
  BY DEF CloseDocument
<1>6. DOMAIN docs' = DOMAIN docs /\ docs'[d] = ClosedDocument(docs[d]) /\ \A x \in DOMAIN docs : x # d => docs'[x] = docs[x]
  BY <1>1, <1>4, <1>5, PutType, ZenonT(60) DEF Lifetimes
<1>7. Known' /\ Retired'
  BY <1>3, <1>4, <1>5, PutType DEF Lifetimes, Known, Retired
<1>8. \A x \in Doc : /\ x # d => retired'[x] = retired[x]
                     /\ x = d => retired'[x] = retired[x] \cup {lifetime}
  BY <1>5 DEF Lifetimes, Retired
<1>9. \A x \in Doc : retired'[x] \subseteq 1..State(x)'.next
  BY <1>1, <1>2, <1>4, <1>6, <1>8 DEF Lifetimes, Counted, State
<1>10. \A x \in DOMAIN docs' : \A o \in docs'[x].open : o.lifetime \in 1..docs'[x].next /\ o.lifetime \notin retired'[x]
  BY <1>4, <1>6, <1>7, <1>8 DEF Lifetimes, Counted, LifetimesNeverReturn, Known
<1> QED
  BY <1>7, <1>9, <1>10 DEF Lifetimes, Counted, LifetimesNeverReturn

\* Forgetting documents, and changing what others have saved, opens nothing and counts nothing.
LEMMA BecomeSome ==
  ASSUME Lifetimes, NEW D \in SUBSET Doc, NEW next \in [D -> DocumentState], Become(next),
         \A d \in D : next[d].next = State(d).next /\ next[d].open = State(d).open
  PROVE Lifetimes'
<1>1. docs' = next /\ retired' = [d \in Doc |-> IF d \in D THEN retired[d] ELSE {}]
  BY DEF Become
<1>2. Known' /\ Retired'
  BY <1>1, Zenon DEF Lifetimes, Known, Retired
<1>3. \A d \in D : State(d)' = next[d]
  BY <1>1 DEF State
<1>4. \A d \in Doc : retired'[d] \subseteq 1..State(d)'.next
  BY <1>1, <1>3 DEF Lifetimes, Counted
<1>5. \A d \in D : \A o \in next[d].open : o.lifetime \in 1..next[d].next /\ o.lifetime \notin retired[d]
  BY StateType DEF Lifetimes, Counted, LifetimesNeverReturn, State
<1>6. \A d \in DOMAIN docs' : \A o \in docs'[d].open : o.lifetime \in 1..docs'[d].next /\ o.lifetime \notin retired'[d]
  BY <1>1, <1>5
<1> QED
  BY <1>2, <1>4, <1>6 DEF Lifetimes, Counted, LifetimesNeverReturn

LEMMA RemoveStep ==
  ASSUME Lifetimes, NEW d \in Doc, Remove(d)
  PROVE Lifetimes'
<1> DEFINE D == DOMAIN docs \ {d}
           next == Restrict(docs, D)
<1>1. D \in SUBSET Doc /\ next \in [D -> DocumentState] /\ \A x \in D : next[x] = State(x)
  BY DEF Lifetimes, Known, State, Restrict
<1>2. Become(next)
  BY DEF Remove
<1> HIDE DEF D, next
<1> QED
  BY <1>1, <1>2, BecomeSome

LEMMA ReconcileStep ==
  ASSUME Lifetimes, NEW S \in SUBSET Doc, NEW forget \in SUBSET Doc, NEW texts \in [S -> Text],
         Reconcile(texts, forget)
  PROVE Lifetimes'
<1> DEFINE D == (DOMAIN docs \cup DOMAIN texts) \ forget
           s(d) == IF d \in DOMAIN texts /\ State(d).saved # texts[d]
                   THEN [State(d) EXCEPT !.saved = texts[d], !.rev = @ + 1] ELSE State(d)
           next == [d \in D |-> s(d)]
<1>1. D \in SUBSET Doc
  BY DEF Lifetimes, Known
<1>2. \A d \in D : s(d) \in DocumentState /\ s(d).next = State(d).next /\ s(d).open = State(d).open
  <2> SUFFICES ASSUME NEW d \in D
               PROVE s(d) \in DocumentState /\ s(d).next = State(d).next /\ s(d).open = State(d).open
    OBVIOUS
  <2>1. State(d) \in DocumentState
    BY <1>1, StateType DEF Lifetimes
  <2>2. d \in DOMAIN texts => texts[d] \in Text \cup {NoText}
    OBVIOUS
  <2>3. CASE d \in DOMAIN texts /\ State(d).saved # texts[d]
    <3>1. State(d).rev + 1 \in Nat
      BY <2>1 DEF DocumentState
    <3> QED
      BY <2>1, <2>2, <2>3, <3>1, SavedType
  <2>4. CASE ~(d \in DOMAIN texts /\ State(d).saved # texts[d])
    BY <2>1, <2>4
  <2> QED
    BY <2>3, <2>4
<1>3. Become(next)
  BY DEF Reconcile
<1> HIDE DEF s, D
<1>4. next \in [D -> DocumentState]
  BY <1>2
<1> QED
  BY <1>1, <1>2, <1>3, <1>4, BecomeSome

-----------------------------------------------------------------------------
(* The theorem on lifetimes. *)

\* Documents, lifetimes and their counters agree in every execution.
LEMMA LifetimesHold == SessionSpec => []Lifetimes
<1>1. SessionInit => Lifetimes
  BY LifetimesInit
<1>2. Lifetimes /\ [SessionNext]_sessionVars => Lifetimes'
  <2> SUFFICES ASSUME Lifetimes, [SessionNext]_sessionVars PROVE Lifetimes'
    OBVIOUS
  <2>1. ASSUME UNCHANGED <<docs, retired>> PROVE Lifetimes'
    BY <2>1 DEF Lifetimes, Known, Retired, Counted, LifetimesNeverReturn, State
  <2>2. CASE Session
    <3>1. CASE \E d \in Doc, text \in Text : Save(d, text)
      BY <3>1, SaveStep
    <3>2. CASE \E d \in Doc, text \in Text, version \in 0..MaxVersion : Open(d, version, text)
      BY <3>2, OpenStep
    <3>3. CASE \E d \in Doc, text \in Text, version \in 0..MaxVersion : \E lifetime \in 1..State(d).next :
                 Edit(d, lifetime, version, text)
      BY <3>3, EditStep
    <3>4. CASE \E d \in Doc : Remove(d)
      BY <3>4, RemoveStep
    <3>5. CASE \E d \in Doc : \E lifetime \in 1..State(d).next, version \in 0..MaxVersion :
                 CloseDocument(d, lifetime, version)
      BY <3>5, CloseStep
    <3>6. CASE \E D, forget \in SUBSET Doc : D \cap forget = {} /\ \E texts \in [D -> Text] : Reconcile(texts, forget)
      BY <3>6, ReconcileStep
    <3>7. CASE ReloadConfiguration
      BY <3>7, <2>1 DEF ReloadConfiguration
    <3> QED
      BY <2>2, <3>1, <3>2, <3>3, <3>4, <3>5, <3>6, <3>7, Zenon DEF Session
  <2>3. CASE Publication
    BY <2>1, <2>3 DEF Publication, AnalyzeGraph, StartPublication, CancelPublication, Preview, Publish, Discard, Leave
  <2>4. CASE Explanation
    BY <2>1, <2>4 DEF Explanation, StartExplain, CancelExplain, Explain, Interrupt, Finish
  <2>5. CASE UNCHANGED sessionVars
    BY <2>1, <2>5 DEF sessionVars
  <2> QED
    BY <2>2, <2>3, <2>4, <2>5 DEF SessionNext
<1> QED
  BY <1>1, <1>2, PTL DEF SessionSpec

\* In every execution an edit or close that was made for an ended lifetime of a document finds no
\* open lifetime of that number, as long as the document has not been removed or forgotten.
THEOREM EndedLifetimesStayEnded == SessionSpec => []LifetimesNeverReturn
<1>1. Lifetimes => LifetimesNeverReturn
  BY DEF Lifetimes
<1> QED
  BY <1>1, LifetimesHold, PTL

-----------------------------------------------------------------------------
(* Publications and explanations. *)

\* Documents and configuration decide what an analysis sees.
LEMMA SameView ==
  ASSUME UNCHANGED <<docs, epoch, config>>
  PROVE View' = View /\ Authority' = Authority /\ \A t : Fresh(t)' <=> Fresh(t)
<1>1. View' = View /\ Shown' = Shown
  BY DEF View, Shown, IsOpen, State, Unknown
<1>2. Authority' = Authority
  BY <1>1 DEF Authority, Versions, IsOpen, State, Unknown
<1> QED
  BY <1>1, <1>2 DEF Fresh, Shaped

\* Every accepted operation of the session ends in Accept.
LEMMA SessionAccepts ==
  ASSUME Session
  PROVE Accept
BY Zenon DEF Session, Save, Open, Edit, CloseDocument, Remove, Reconcile, ReloadConfiguration, Become

\* An accepted operation makes every older authority stale.
LEMMA AcceptStep ==
  ASSUME Current, Accept
  PROVE Current'
<1>1. epoch \in Nat /\ epoch' = epoch + 1 /\ starts' = starts /\ publishing' = publishing
  BY DEF Current, Counters, Accept, services
<1>2. ASSUME NEW t \in tickets'
      PROVE /\ t.n \in 1..starts' /\ (publishing' # 0 => t.n <= publishing')
            /\ t.state = "active" => Fresh(t)'
  <2>1. t \in tickets \/ \E u \in tickets : t = Aborted(u)
    BY <1>2 DEF Accept, Abort
  <2>2. CASE t \in tickets
    <3>1. t.state = "active" => Fresh(t)
      BY <2>2 DEF Current, Requests
    <3>2. Fresh(t) => Fresh(t)'
      BY <1>1 DEF Fresh, Shaped
    <3> QED
      BY <1>1, <2>2, <3>1, <3>2 DEF Current, Requests
  <2>3. ASSUME NEW u \in tickets, t = Aborted(u)
        PROVE t.n \in 1..starts' /\ (publishing' # 0 => t.n <= publishing') /\ t.state # "active"
    BY <1>1, <2>3 DEF Current, Requests, Aborted
  <2> QED
    BY <2>1, <2>2, <2>3
<1>3. ASSUME NEW t \in explains', t.state = "active"
      PROVE t.authority.epoch \in Nat /\ t.authority.epoch < epoch'
  <2>1. t \in explains
    BY <1>3 DEF Accept, Abort, Aborted
  <2> QED
    BY <1>1, <1>3, <2>1 DEF Current, Seen
<1>4. Requests'
  BY <1>2 DEF Requests
<1>5. Seen'
  BY <1>1, <1>3 DEF Seen
<1> QED
  BY <1>1, <1>4, <1>5 DEF Current, Counters

\* What preparing makes of a request.
LEMMA SetPrepared ==
  ASSUME NEW t, Shaped(t), NEW P
  PROVE [t EXCEPT !.prepared = P] =
          [n |-> t.n, state |-> t.state, authority |-> t.authority, defs |-> t.defs, prepared |-> P]
<1>1. ASSUME NEW a, NEW b, NEW c, NEW d, NEW e
      PROVE [[n |-> a, state |-> b, authority |-> c, defs |-> d, prepared |-> e] EXCEPT !.prepared = P] =
              [n |-> a, state |-> b, authority |-> c, defs |-> d, prepared |-> P]
  OBVIOUS
<1>2. [t EXCEPT !.prepared = P] =
        [[n |-> t.n, state |-> t.state, authority |-> t.authority, defs |-> t.defs, prepared |-> t.prepared]
           EXCEPT !.prepared = P]
  BY Zenon DEF Shaped
<1> QED
  BY <1>1, <1>2, Zenon

\* The steps of publications keep it: a request is the newest when it starts, and prepares what it sees.
LEMMA PublicationStep ==
  ASSUME Current, Publication
  PROVE Current'
<1>1. UNCHANGED <<docs, epoch, config>>
  BY DEF Publication, AnalyzeGraph, StartPublication, CancelPublication, Preview, Publish, Discard, Leave
<1>2. \A t : Fresh(t)' <=> Fresh(t)
  BY <1>1, SameView
<1>3. CASE \E defs \in Admitted : AnalyzeGraph(defs)
  BY <1>1, <1>2, <1>3, SameView DEF AnalyzeGraph, Current, Counters, Requests, Seen
<1>4. ASSUME NEW defs \in Admitted, StartPublication(defs) PROVE Current'
  <2>0. PICK new : new = [n |-> starts + 1, state |-> "active", authority |-> Authority, defs |-> defs, prepared |-> {}]
    OBVIOUS
  <2>1. /\ starts' = starts + 1 /\ publishing' = starts + 1 /\ starts \in Nat
        /\ tickets' = Abort(tickets, publishing) \cup {new}
        /\ explains' = Abort(explains, explaining)
    BY <1>4, <2>0 DEF StartPublication, Current, Counters
  <2>2. Fresh(new)'
    <3>1. Fresh(new)
      BY <2>0 DEF Fresh, Shaped, Authority, Current, Counters
    <3> QED
      BY <1>2, <3>1
  <2>3. new.n = starts + 1
    BY <2>0
  <2>4. ASSUME NEW t \in tickets'
        PROVE t.n \in 1..starts' /\ t.n <= publishing' /\ (t.state = "active" => Fresh(t)')
    <3>1. CASE t = new
      BY <2>1, <2>2, <2>3, <3>1
    <3>2. CASE t \in tickets
      BY <1>2, <2>1, <3>2 DEF Current, Requests
    <3>3. ASSUME NEW u \in tickets, t = Aborted(u)
          PROVE t.n \in 1..starts' /\ t.n <= publishing' /\ t.state # "active"
      BY <2>1, <3>3 DEF Current, Requests, Aborted
    <3> QED
      BY <2>1, <3>1, <3>2, <3>3 DEF Abort
  <2>5. Requests'
    BY <2>4 DEF Requests
  <2>6. Seen'
    BY <1>1, <2>1, SameView DEF Seen, Current, Abort, Aborted
  <2> QED
    BY <1>1, <2>1, <2>5, <2>6 DEF Current, Counters
<1>5. ASSUME NEW t \in tickets, CancelPublication(t) PROVE Current'
  <2>1. \A u \in tickets' : u \in tickets \/ (u.n = t.n /\ u.state # "active")
    BY <1>5 DEF CancelPublication, Cancelled, Aborted
  <2> QED
    BY <1>1, <1>2, <1>5, <2>1, SameView DEF CancelPublication, Current, Counters, Requests, Seen
<1>6. ASSUME NEW t \in tickets, Preview(t) PROVE Current'
  <2> DEFINE p == [baseline |-> graph.generation, candidate |-> Prepared(t.defs)]
             u == [t EXCEPT !.prepared = {p}]
  <2>1. t.state = "active" /\ t.authority = Authority /\ Fresh(t)
    BY <1>6 DEF Preview, Terminal, Current, Requests
  <2>2. p.candidate.defs = t.defs /\ p.candidate.prints = View /\ p.candidate.config = config
    BY DEF Prepared
  <2> HIDE DEF p
  <2>3. u = [n |-> t.n, state |-> t.state, authority |-> t.authority, defs |-> t.defs, prepared |-> {p}]
    BY <2>1, SetPrepared DEF Fresh, Shaped
  <2>4. Fresh(u) /\ u.n = t.n
    BY <2>1, <2>2, <2>3 DEF Fresh, Shaped
  <2>5. tickets' = (tickets \ {t}) \cup {u}
    BY <1>6 DEF Preview, p
  <2> HIDE DEF u
  <2>6. Requests'
    BY <1>2, <1>6, <2>4, <2>5 DEF Preview, Current, Requests
  <2> QED
    BY <1>1, <1>6, <2>6, SameView DEF Preview, Current, Counters, Seen
<1>7. ASSUME NEW t \in tickets, Leave(t), starts' = starts PROVE Current'
  <2>1. tickets' \subseteq tickets /\ (publishing' = 0 \/ publishing' = publishing) /\ explains' = explains
    BY <1>7 DEF Leave
  <2> QED
    BY <1>1, <1>2, <1>7, <2>1, SameView DEF Current, Counters, Requests, Seen
<1>8. CASE \E t \in tickets : Publish(t) \/ Discard(t)
  BY <1>7, <1>8 DEF Publish, Discard, Leave
<1> QED
  BY <1>3, <1>4, <1>5, <1>6, <1>8 DEF Publication

\* The steps of explanations keep it: an explanation starts from what is there.
LEMMA ExplanationStep ==
  ASSUME Current, Explanation
  PROVE Current'
<1>1. UNCHANGED <<docs, epoch, config, tickets, publishing, starts>>
  BY DEF Explanation, StartExplain, CancelExplain, Explain, Interrupt, Finish
<1>2. Requests'
  BY <1>1, SameView DEF Current, Requests
<1>3. View' = View
  BY <1>1, SameView
<1>4. \A t \in explains' : t.state = "active" =>
        t \in explains \/ (t.authority.epoch = epoch /\ t.view = View)
  BY DEF Explanation, StartExplain, CancelExplain, Explain, Interrupt, Finish, Abort, Aborted, Cancelled, ExplainAuthority
<1>5. Seen'
  BY <1>1, <1>3, <1>4 DEF Current, Counters, Seen
<1> QED
  BY <1>1, <1>2, <1>5 DEF Current, Counters

\* What a publication commits is computed from the documents of that moment, for the newest request;
\* what an explanation describes is the publication of that moment.
LEMMA CurrentResults ==
  ASSUME Current, [SessionNext]_sessionVars
  PROVE /\ published' # published =>
             \A t \in tickets \ tickets' :
               /\ t.state = "active" /\ \A u \in tickets : u.n <= t.n
               /\ graph'.defs = t.defs /\ graph'.prints = View /\ graph'.config = config
        /\ \A t \in explains \ explains' :
             Explain(t) => t.view = View /\ t.authority.publication = published
<1>1. ASSUME published' # published
      PROVE \E t \in tickets : Publish(t)
  <2>1. ~Session
    BY <1>1, SessionAccepts DEF Accept, services
  <2>2. ~Explanation
    BY <1>1 DEF Explanation, StartExplain, CancelExplain, Explain, Interrupt, Finish
  <2>3. Publication
    BY <1>1, <2>1, <2>2 DEF SessionNext, sessionVars
  <2> QED
    BY <1>1, <2>3 DEF Publication, AnalyzeGraph, StartPublication, CancelPublication, Preview, Discard
<1>2. ASSUME NEW t \in tickets, Publish(t)
      PROVE /\ tickets' = tickets \ {t} /\ t.state = "active" /\ \A u \in tickets : u.n <= t.n
            /\ graph'.defs = t.defs /\ graph'.prints = View /\ graph'.config = config
  <2>1. t.state = "active" /\ t.n = publishing /\ t.authority = Authority /\ tickets' = tickets \ {t}
    BY <1>2 DEF Publish, Terminal, Leave
  <2>2. t.authority.epoch = epoch
    BY <2>1 DEF Authority
  <2>3. Fresh(t) /\ t.n \in 1..starts /\ starts \in Nat
    BY <2>1 DEF Current, Requests, Counters
  <2>4. \A u \in tickets : u.n <= t.n
    BY <2>1, <2>3 DEF Current, Requests
  <2>5. PICK p \in t.prepared : graph' = p.candidate
    BY <1>2 DEF Publish
  <2> QED
    BY <2>1, <2>2, <2>3, <2>4, <2>5 DEF Fresh
<1>3. ASSUME NEW t \in explains, Explain(t)
      PROVE t.view = View /\ t.authority.publication = published
  BY <1>3 DEF Explain, ExplainTerminal, ExplainAuthority, Current, Seen
<1> QED
  BY <1>1, <1>2, <1>3

\* Requests and explanations know what they were made from in every execution.
LEMMA CurrentHolds == SessionSpec => []Current
<1>1. SessionInit => Current
  BY SMT DEF SessionInit, Current, Counters, Requests, Seen
<1>2. Current /\ [SessionNext]_sessionVars => Current'
  <2> SUFFICES ASSUME Current, [SessionNext]_sessionVars PROVE Current'
    OBVIOUS
  <2>1. CASE Session
    BY <2>1, SessionAccepts, AcceptStep
  <2>2. CASE Publication
    BY <2>2, PublicationStep
  <2>3. CASE Explanation
    BY <2>3, ExplanationStep
  <2>4. CASE UNCHANGED sessionVars
    BY <2>4, SameView DEF sessionVars, Current, Counters, Requests, Seen
  <2> QED
    BY <2>1, <2>2, <2>3, <2>4 DEF SessionNext
<1> QED
  BY <1>1, <1>2, PTL DEF SessionSpec

\* Every publication is the newest request, computed from the documents and configuration of its moment,
\* and every explanation describes the publication that is current, whatever edits, cancellations,
\* newer requests and direct analyses came while it waited.
THEOREM NothingStaleIsPublished == SessionSpec => ResultsAreCurrent
BY CurrentHolds, CurrentResults, PTL DEF SessionSpec, ResultsAreCurrent

-----------------------------------------------------------------------------
(* Recursion.  The graph's values and the set of affected nodes are           *)
(* recursive functions; that such a function exists, and that two of them     *)
(* agree, follows from the least node at which either would fail.             *)

\* A set of numbers that is not empty has a least one.
LEMMA Least ==
  ASSUME NEW T \in SUBSET Nat, T # {}
  PROVE  \E x \in T : \A y \in T : x <= y
<1> DEFINE R == {ss \in Nat \X Nat : ss[1] < ss[2]}
<1>1. IsWellFoundedOn(R, Nat)
  BY NatLessThanWellFounded DEF OpToRel
<1>2. PICK x \in T : \A y \in T : <<y, x>> \notin R
  <2> HIDE DEF R
  <2> QED
    BY <1>1, WFMin
<1>3. \A y \in T : ~(y < x)
  BY <1>2
<1> QED
  BY <1>3

\* Nodes depend on smaller ones, as in every set of definitions that may be asked.
Acyclic(defs) ==
  \E S \in SUBSET (1..Nodes) : /\ defs \in [S -> [owner : Doc, deps : SUBSET S]]
                        /\ \A n \in S : \A m \in defs[n].deps : m < n

\* What that says of each node.
LEMMA AcyclicShape ==
  ASSUME NEW defs, Acyclic(defs)
  PROVE  /\ DOMAIN defs \subseteq 1..Nodes /\ Nodes \in Nat
         /\ \A n \in DOMAIN defs : /\ defs[n].deps \subseteq DOMAIN defs
                                    /\ \A m \in defs[n].deps : m < n
BY SessionAssumption DEF Acyclic

\* The value of one node, given those of the others.
Value(defs, view, epochOfConfig, again, kept, value, n) ==
  IF n \in again
  THEN [text |-> view[defs[n].owner].text, config |-> epochOfConfig, of |-> {value[m] : m \in defs[n].deps}]
  ELSE kept[n]

\* Computed is the function its recursive definition describes.
LEMMA ComputedUnfolds ==
  ASSUME NEW defs, Acyclic(defs), NEW view, NEW c, NEW again, NEW kept,
         NEW value, value = Computed(defs, view, c, again, kept)
  PROVE  value = [n \in DOMAIN defs |-> Value(defs, view, c, again, kept, value, n)]
<1> DEFINE D == DOMAIN defs
           V(g, n) == Value(defs, view, c, again, kept, g, n)
           Upto(k) == {n \in D : n < k}
           Good == {k \in Nat : \E g : g = [n \in Upto(k) |-> V(g, n)]}
<1>1. D \in SUBSET Nat /\ \A n \in D : defs[n].deps \subseteq D /\ \A m \in defs[n].deps : m < n
  BY AcyclicShape
<1>2. \A g, h, n : n \in D /\ (\A m \in Upto(n) : g[m] = h[m]) => V(g, n) = V(h, n)
  BY <1>1 DEF Value
<1>3. Computed(defs, view, c, again, kept) = CHOOSE g : g = [n \in D |-> V(g, n)]
  BY DEF Computed, Value
<1> HIDE DEF V
<1>4. \A k \in Nat : k \in Good
  <2> SUFFICES ASSUME Nat \ Good # {} PROVE FALSE
    OBVIOUS
  <2>1. PICK k \in Nat \ Good : \A j \in Nat \ Good : k <= j
    BY Least
  <2>2. k # 0
    <3>1. Upto(0) = {}
      BY <1>1
    <3>2. [n \in Upto(0) |-> V(<<>>, n)] = [n \in Upto(0) |-> V([m \in Upto(0) |-> V(<<>>, m)], n)]
      BY <3>1
    <3> QED
      BY <3>2
  <2>3. k - 1 \in Good
    <3>1. k - 1 \in Nat /\ ~(k <= k - 1)
      BY <2>2
    <3> HIDE DEF Good
    <3> QED
      BY <2>1, <3>1
  <2>4. PICK g : g = [n \in Upto(k - 1) |-> V(g, n)]
    BY <2>3
  <2> DEFINE h == [n \in Upto(k) |-> V(g, n)]
  <2>5. \A n \in Upto(k) : \A m \in Upto(n) : m \in Upto(k - 1) /\ m \in Upto(k)
    BY <1>1, <2>1, <2>2
  <2>6. \A m \in Upto(k - 1) : g[m] = V(g, m)
    BY <2>4
  <2>7. \A m \in Upto(k) : h[m] = V(g, m)
    OBVIOUS
  <2>8. \A n \in Upto(k) : V(g, n) = V(h, n)
    BY <1>2, <2>5, <2>6, <2>7
  <2>9. h = [n \in Upto(k) |-> V(h, n)]
    BY <2>8
  <2> QED
    BY <2>1, <2>9
<1>5. \E g : g = [n \in D |-> V(g, n)]
  <2>1. Nodes \in Nat /\ \A n \in D : n < Nodes + 1
    BY AcyclicShape
  <2>2. Nodes + 1 \in Nat /\ Upto(Nodes + 1) = D
    BY <2>1
  <2> QED
    BY <1>4, <2>2
<1> QED
  BY <1>3, <1>5 DEF V

\* Whether a node is affected, given which others are.
Hit(defs, hit, n) == Changed(defs, n) \/ \E m \in defs[n].deps : hit[m]

\* The affected nodes are those that changed and those that depend on an affected one.
LEMMA AffectedUnfolds ==
  ASSUME NEW defs, Acyclic(defs)
  PROVE  Affected(defs) = {n \in DOMAIN defs : Changed(defs, n) \/ \E m \in defs[n].deps : m \in Affected(defs)}
<1> DEFINE D == DOMAIN defs
           V(g, n) == Hit(defs, g, n)
           Upto(k) == {n \in D : n < k}
           Good == {k \in Nat : \E g : g = [n \in Upto(k) |-> V(g, n)]}
           hit == CHOOSE g : g = [n \in D |-> V(g, n)]
<1>1. D \in SUBSET Nat /\ \A n \in D : defs[n].deps \subseteq D /\ \A m \in defs[n].deps : m < n
  BY AcyclicShape
<1>2. \A g, h, n : n \in D /\ (\A m \in Upto(n) : g[m] = h[m]) => V(g, n) = V(h, n)
  BY <1>1 DEF Hit
<1>3. Affected(defs) = {n \in D : hit[n]}
  BY DEF Affected, Hit
<1> HIDE DEF V
<1>4. \A k \in Nat : k \in Good
  <2> SUFFICES ASSUME Nat \ Good # {} PROVE FALSE
    OBVIOUS
  <2>1. PICK k \in Nat \ Good : \A j \in Nat \ Good : k <= j
    BY Least
  <2>2. k # 0
    <3>1. Upto(0) = {}
      BY <1>1
    <3>2. [n \in Upto(0) |-> V(<<>>, n)] = [n \in Upto(0) |-> V([m \in Upto(0) |-> V(<<>>, m)], n)]
      BY <3>1
    <3> QED
      BY <3>2
  <2>3. k - 1 \in Good
    <3>1. k - 1 \in Nat /\ ~(k <= k - 1)
      BY <2>2
    <3> HIDE DEF Good
    <3> QED
      BY <2>1, <3>1
  <2>4. PICK g : g = [n \in Upto(k - 1) |-> V(g, n)]
    BY <2>3
  <2> DEFINE h == [n \in Upto(k) |-> V(g, n)]
  <2>5. \A n \in Upto(k) : \A m \in Upto(n) : m \in Upto(k - 1) /\ m \in Upto(k)
    BY <1>1, <2>1, <2>2
  <2>6. \A m \in Upto(k - 1) : g[m] = V(g, m)
    BY <2>4
  <2>7. \A m \in Upto(k) : h[m] = V(g, m)
    OBVIOUS
  <2>8. \A n \in Upto(k) : V(g, n) = V(h, n)
    BY <1>2, <2>5, <2>6, <2>7
  <2>9. h = [n \in Upto(k) |-> V(h, n)]
    BY <2>8
  <2> QED
    BY <2>1, <2>9
<1>5. \E g : g = [n \in D |-> V(g, n)]
  <2>1. Nodes \in Nat /\ \A n \in D : n < Nodes + 1
    BY AcyclicShape
  <2>2. Nodes + 1 \in Nat /\ Upto(Nodes + 1) = D
    BY <2>1
  <2> QED
    BY <1>4, <2>2
<1>6. hit = [n \in D |-> V(hit, n)]
  BY <1>5
<1> HIDE DEF hit
<1> QED
  BY <1>1, <1>3, <1>6 DEF V, Hit

-----------------------------------------------------------------------------
(* The incremental graph. *)

\* Recomputing the affected nodes over exact results gives what recomputing every node would: a node
\* that is kept has the inputs it had, and so have all it depends on.
LEMMA PreparedIsExact ==
  ASSUME NEW defs, Acyclic(defs), Acyclic(graph.defs), Exact(graph)
  PROVE  Exact(Prepared(defs))
<1> DEFINE D == DOMAIN defs
           A == Affected(defs)
           Node(view, c, f, ds, n) ==
             [text |-> view[ds[n].owner].text, config |-> c, of |-> {f[m] : m \in ds[n].deps}]
<1>0. PICK new, full, old :
        /\ new = Computed(defs, View, config, A, graph.results)
        /\ full = Computed(defs, View, config, D, <<>>)
        /\ old = graph.results
  OBVIOUS
<1>1. new = [n \in D |-> IF n \in A THEN Node(View, config, new, defs, n) ELSE old[n]]
  <2>1. new = [n \in D |-> Value(defs, View, config, A, graph.results, new, n)]
    BY <1>0, ComputedUnfolds
  <2> QED
    BY <1>0, <2>1 DEF Value
<1>2. full = [n \in D |-> Node(View, config, full, defs, n)]
  <2>1. full = [n \in D |-> Value(defs, View, config, D, <<>>, full, n)]
    BY <1>0, ComputedUnfolds
  <2> QED
    BY <2>1 DEF Value
<1>3. old = [n \in DOMAIN graph.defs |-> Node(graph.prints, graph.config, old, graph.defs, n)]
  <2>1. old = Computed(graph.defs, graph.prints, graph.config, DOMAIN graph.defs, <<>>)
    BY <1>0 DEF Exact
  <2>2. old = [n \in DOMAIN graph.defs |->
                Value(graph.defs, graph.prints, graph.config, DOMAIN graph.defs, <<>>, old, n)]
    BY <2>1, ComputedUnfolds
  <2> QED
    BY <2>2 DEF Value
<1> HIDE DEF A
<1>4. D \in SUBSET Nat /\ \A n \in D : defs[n].deps \subseteq D /\ \A m \in defs[n].deps : m < n
  BY AcyclicShape
<1>5. A \subseteq D /\ \A n \in D \ A : ~Changed(defs, n) /\ \A m \in defs[n].deps : m \notin A
  BY AffectedUnfolds DEF A
<1>6. ASSUME NEW n \in D \ A
      PROVE /\ n \in DOMAIN graph.defs /\ graph.defs[n] = defs[n] /\ config = graph.config
            /\ graph.prints[defs[n].owner] = View[defs[n].owner]
  BY <1>5 DEF Changed
<1>7. ASSUME NEW n \in D, \A m \in defs[n].deps : new[m] = full[m]
      PROVE  new[n] = full[n]
  <2>1. CASE n \in A
    <3>1. new[n] = Node(View, config, new, defs, n) /\ full[n] = Node(View, config, full, defs, n)
      BY <1>1, <1>2, <2>1
    <3> QED
      BY <1>7, <3>1
  <2>2. CASE n \notin A
    <3>1. new[n] = old[n]
      BY <1>1, <2>2
    <3>2. old[n] = Node(graph.prints, graph.config, old, graph.defs, n)
      BY <1>3, <1>6, <2>2
    <3>3. @ = [text |-> View[defs[n].owner].text, config |-> config, of |-> {old[m] : m \in defs[n].deps}]
      BY <1>6, <2>2
    <3>4. \A m \in defs[n].deps : old[m] = full[m]
      BY <1>1, <1>4, <1>5, <1>7, <2>2
    <3>5. {old[m] : m \in defs[n].deps} = {full[m] : m \in defs[n].deps}
      BY ONLY <3>4
    <3>6. full[n] = Node(View, config, full, defs, n)
      BY <1>2
    <3>7. @ = [text |-> View[defs[n].owner].text, config |-> config, of |-> {full[m] : m \in defs[n].deps}]
      OBVIOUS
    <3>8. old[n] = full[n]
      BY <3>2, <3>3, <3>5, <3>6, <3>7
    <3> QED
      BY <3>1, <3>8
  <2> QED
    BY <2>1, <2>2
<1>8. \A n \in D : new[n] = full[n]
  <2> DEFINE Bad == {n \in D : new[n] # full[n]}
  <2> SUFFICES ASSUME Bad # {} PROVE FALSE
    OBVIOUS
  <2>1. PICK n \in Bad : \A m \in Bad : n <= m
    <3>1. Bad \in SUBSET Nat
      BY <1>4
    <3> HIDE DEF Bad
    <3> QED
      BY <3>1, Least
  <2>2. \A m \in defs[n].deps : m \in D /\ ~(n <= m)
    BY <1>4, <2>1
  <2> QED
    BY <1>7, <2>1, <2>2
<1>9. new = full
  <2>1. new = [n \in D |-> new[n]]
    BY <1>1
  <2>2. full = [n \in D |-> full[n]]
    BY <1>2
  <2> QED
    BY <1>8, <2>1, <2>2
<1>10. Prepared(defs).defs = defs /\ Prepared(defs).prints = View /\ Prepared(defs).config = config /\ Prepared(defs).results = new
  BY <1>0 DEF Prepared, A
<1> QED
  BY <1>0, <1>9, <1>10 DEF Exact

\* The committed graph and those that publications have prepared are exact.
Graphs ==
  /\ Acyclic(graph.defs) /\ Exact(graph)
  /\ \A t \in tickets : t.state = "active" =>
       Acyclic(t.defs) /\ \A p \in t.prepared : Acyclic(p.candidate.defs) /\ Exact(p.candidate)
\* Each request has its own number, and the active ones are under way.
Tidy ==
  /\ \A t, u \in tickets : t.n = u.n => t = u
  /\ publishing = 0 \/ \E t \in tickets : t.n = publishing
  /\ explaining = 0 \/ \E t \in explains : t.n = explaining

\* What aborting the active request leaves of the requests.
LEMMA AbortTidy ==
  ASSUME NEW ts, NEW us, NEW current, us = Abort(ts, current)
  PROVE  /\ \A t \in us : \E u \in ts : u.n = t.n /\ (t.state = "active" => t = u)
         /\ \A u \in ts : \E t \in us : t.n = u.n
         /\ (\A t, u \in ts : t.n = u.n => t = u) => (\A t, u \in us : t.n = u.n => t = u)
<1>1. \A t \in ts : Aborted(t).n = t.n /\ Aborted(t).state # "active"
  BY DEF Aborted
<1>2. \A t \in us : \E u \in ts : t = IF u.n = current /\ u.state = "active" THEN Aborted(u) ELSE u
  BY DEF Abort
<1>3. \A u \in ts : (IF u.n = current /\ u.state = "active" THEN Aborted(u) ELSE u) \in us
  BY DEF Abort
<1> QED
  BY <1>1, <1>2, <1>3

\* A step keeps the graphs exact: only a prepared one is ever committed.
LEMMA GraphsStep ==
  ASSUME Graphs, [SessionNext]_sessionVars
  PROVE  Graphs'
<1>1. ASSUME NEW defs, Acyclic(defs)
      PROVE Exact(Prepared(defs)) /\ Prepared(defs).defs = defs
  BY <1>1, PreparedIsExact DEF Graphs, Prepared
<1>2. \A defs \in Admitted : Acyclic(defs)
  BY SessionAssumption DEF Admitted, Acyclic
<1>3. ASSUME graph' = graph,
             \A t \in tickets' : t.state = "active" => t \in tickets \/ (Acyclic(t.defs) /\ t.prepared = {})
      PROVE Graphs'
  BY <1>3 DEF Graphs
<1>4. CASE Session
  <2>1. \A t \in tickets' : t.state = "active" => t \in tickets
    BY <1>4, SessionAccepts, AbortTidy DEF Accept
  <2> QED
    BY <1>3, <1>4, <2>1, SessionAccepts DEF Accept, services
<1>5. ASSUME NEW defs \in Admitted, AnalyzeGraph(defs) PROVE Graphs'
  <2>1. Acyclic(defs) /\ graph' = Prepared(defs) /\ tickets' = tickets
    BY <1>2, <1>5 DEF AnalyzeGraph
  <2> QED
    BY <1>1, <2>1 DEF Graphs
<1>6. ASSUME NEW defs \in Admitted, StartPublication(defs) PROVE Graphs'
  <2>0. PICK new : new = [n |-> starts + 1, state |-> "active", authority |-> Authority, defs |-> defs, prepared |-> {}]
    OBVIOUS
  <2>1. new.defs = defs /\ new.prepared = {} /\ tickets' = Abort(tickets, publishing) \cup {new} /\ graph' = graph
    BY <1>6, <2>0 DEF StartPublication
  <2>2. \A t \in Abort(tickets, publishing) : t.state = "active" => t \in tickets
    BY AbortTidy
  <2> QED
    BY <1>2, <1>3, <2>1, <2>2
<1>7. ASSUME NEW t \in tickets, CancelPublication(t) PROVE Graphs'
  BY <1>3, <1>7 DEF CancelPublication, Cancelled, Aborted
<1>8. ASSUME NEW t \in tickets, Preview(t) PROVE Graphs'
  <2> DEFINE p == [baseline |-> graph.generation, candidate |-> Prepared(t.defs)]
             u == [t EXCEPT !.prepared = {p}]
  <2>1. t.state = "active" /\ Acyclic(t.defs) /\ p.candidate = Prepared(t.defs)
    BY <1>8 DEF Preview, Terminal, Graphs
  <2>2. Exact(p.candidate) /\ Acyclic(p.candidate.defs)
    BY <1>1, <2>1
  <2>3. tickets' = (tickets \ {t}) \cup {u} /\ graph' = graph
    BY <1>8 DEF Preview
  <2> HIDE DEF p
  <2>4. Acyclic(u.defs) /\ \A q \in u.prepared : q = p
    BY <2>1
  <2> HIDE DEF u
  <2> QED
    BY <2>2, <2>3, <2>4 DEF Graphs
<1>9. ASSUME NEW t \in tickets, Publish(t) PROVE Graphs'
  <2>1. t.state = "active" /\ tickets' = tickets \ {t}
    BY <1>9 DEF Publish, Leave, Terminal
  <2>2. PICK p \in t.prepared : graph' = p.candidate
    BY <1>9 DEF Publish
  <2> QED
    BY <2>1, <2>2 DEF Graphs
<1>10. ASSUME NEW t \in tickets, Discard(t) PROVE Graphs'
  BY <1>3, <1>10 DEF Discard, Leave
<1>11. CASE Explanation
  BY <1>3, <1>11 DEF Explanation, StartExplain, CancelExplain, Explain, Interrupt, Finish
<1>12. CASE UNCHANGED sessionVars
  BY <1>3, <1>12 DEF sessionVars
<1> QED
  BY <1>4, <1>5, <1>6, <1>7, <1>8, <1>9, <1>10, <1>11, <1>12 DEF SessionNext, Publication

\* A step keeps the requests tidy.
LEMMA TidyStep ==
  ASSUME Current, Tidy, [SessionNext]_sessionVars
  PROVE  Tidy'
<1> DEFINE Unique(ts) == \A t, u \in ts : t.n = u.n => t = u
           Named(ts, k) == k = 0 \/ \E t \in ts : t.n = k
<1>0. Unique(tickets) /\ Named(tickets, publishing) /\ Named(explains, explaining)
  BY DEF Tidy
<1>1. SUFFICES Unique(tickets') /\ Named(tickets', publishing') /\ Named(explains', explaining')
  BY DEF Tidy
<1>2. \A k : /\ Unique(Abort(tickets, k)) /\ Named(Abort(tickets, k), publishing)
             /\ Named(Abort(explains, k), explaining)
             /\ \A t \in Abort(tickets, k) : \E u \in tickets : u.n = t.n
  BY <1>0, AbortTidy
<1>3. CASE Session
  BY <1>2, <1>3, SessionAccepts DEF Accept
<1>4. ASSUME NEW defs \in Admitted, StartPublication(defs)
      PROVE Unique(tickets') /\ Named(tickets', publishing') /\ Named(explains', explaining')
  <2>0. PICK new : new = [n |-> starts + 1, state |-> "active", authority |-> Authority, defs |-> defs, prepared |-> {}]
    OBVIOUS
  <2>1. /\ new.n = starts + 1 /\ tickets' = Abort(tickets, publishing) \cup {new} /\ publishing' = starts + 1
        /\ explains' = Abort(explains, explaining) /\ explaining' = explaining
    BY <1>4, <2>0 DEF StartPublication
  <2>2. \A t \in Abort(tickets, publishing) : t.n # new.n
    <3>1. \A t \in tickets : t.n \in 1..starts /\ starts \in Nat
      BY DEF Current, Requests, Counters
    <3> QED
      BY <1>2, <2>1, <3>1
  <2> QED
    BY <1>2, <2>1, <2>2
<1>5. ASSUME NEW t \in tickets, NEW u, u.n = t.n, tickets' = (tickets \ {t}) \cup {u},
             UNCHANGED <<publishing, explains, explaining>>
      PROVE Unique(tickets') /\ Named(tickets', publishing') /\ Named(explains', explaining')
  BY <1>0, <1>5
<1>6. ASSUME NEW t \in tickets, CancelPublication(t)
      PROVE Unique(tickets') /\ Named(tickets', publishing') /\ Named(explains', explaining')
  <2>1. Aborted(t).n = t.n
    BY DEF Aborted
  <2> QED
    BY <1>5, <1>6, <2>1 DEF CancelPublication, Cancelled
<1>7. ASSUME NEW t \in tickets, Preview(t)
      PROVE Unique(tickets') /\ Named(tickets', publishing') /\ Named(explains', explaining')
  <2> DEFINE p == [baseline |-> graph.generation, candidate |-> Prepared(t.defs)]
             u == [t EXCEPT !.prepared = {p}]
  <2>1. tickets' = (tickets \ {t}) \cup {u} /\ UNCHANGED <<publishing, explains, explaining>> /\ t.state = "active"
    BY <1>7 DEF Preview, Terminal
  <2>2. Shaped(t)
    BY <2>1 DEF Current, Requests, Fresh
  <2>3. u.n = t.n
    BY <2>2, SetPrepared
  <2> HIDE DEF u
  <2> QED
    BY <1>5, <2>1, <2>3
<1>8. ASSUME NEW t \in tickets, Leave(t)
      PROVE Unique(tickets') /\ Named(tickets', publishing') /\ Named(explains', explaining')
  BY <1>0, <1>8 DEF Leave
<1>9. ASSUME UNCHANGED <<tickets, publishing>>,
             \/ UNCHANGED <<explains, explaining>>
             \/ explains' = Abort(explains, explaining) /\ explaining' = explaining
             \/ \E t \in explains' : explaining' = t.n
             \/ \E t \in explains : explains' = Cancelled(explains, t) /\ explaining' = explaining
             \/ \E t \in explains : Finish(t)
      PROVE Unique(tickets') /\ Named(tickets', publishing') /\ Named(explains', explaining')
  <2>1. \A t : Aborted(t).n = t.n
    BY DEF Aborted
  <2> QED
    BY <1>0, <1>2, <1>9, <2>1 DEF Cancelled, Finish
<1>10. CASE Explanation
  <2>1. ASSUME NEW enabled \in BOOLEAN, StartExplain(enabled)
        PROVE Unique(tickets') /\ Named(tickets', publishing') /\ Named(explains', explaining')
    <3>0. PICK new : new = [n |-> asked + 1, state |-> "active", authority |-> ExplainAuthority, view |-> View]
      OBVIOUS
    <3>1. new.n = asked + 1
      BY <3>0
    <3>2. UNCHANGED <<tickets, publishing>> /\ explains' = Abort(explains, explaining) \cup (IF enabled THEN {new} ELSE {})
          /\ explaining' = IF enabled THEN asked + 1 ELSE explaining
      BY <2>1, <3>0 DEF StartExplain
    <3> QED
      BY <1>9, <3>1, <3>2
  <2>2. CASE \E t \in explains : CancelExplain(t) \/ Explain(t) \/ Interrupt(t)
    BY <1>9, <2>2 DEF CancelExplain, Explain, Interrupt, Finish
  <2> QED
    BY <1>10, <2>1, <2>2 DEF Explanation
<1>11. CASE (\E defs \in Admitted : AnalyzeGraph(defs)) \/ UNCHANGED sessionVars
  BY <1>9, <1>11 DEF AnalyzeGraph, sessionVars
<1> QED
  BY <1>3, <1>4, <1>6, <1>7, <1>8, <1>10, <1>11 DEF SessionNext, Publication, Publish, Discard

\* No more requests are under way than were started.
LEMMA TidyCounts ==
  ASSUME Current, Tidy
  PROVE  Cardinality(tickets) <= starts
<1> DEFINE f == [t \in tickets |-> t.n]
<1>1. \A t \in tickets : t.n \in 1..starts /\ starts \in Nat
  BY DEF Current, Requests, Counters
<1>2. f \in Injection(tickets, 1..starts)
  BY <1>1 DEF Injection, IsInjective, Tidy
<1>3. starts \in Nat
  BY DEF Current, Counters
<1>4. IsFiniteSet(1..starts) /\ Cardinality(1..starts) = starts
  BY <1>3, FS_Interval
<1> HIDE DEF f
<1> QED
  BY <1>2, <1>4, FS_Injection

\* Whatever is edited, asked, cancelled or committed, the committed results and those about to be
\* committed are what recomputing every node from the same documents and configuration would give.
THEOREM IncrementalIsExact == SessionSpec => []GraphIsExact
<1>1. SessionInit => Graphs /\ Tidy
  <2> SUFFICES ASSUME SessionInit PROVE Graphs /\ Tidy
    OBVIOUS
  <2>1. graph.defs = <<>> /\ graph.results = <<>> /\ tickets = {} /\ publishing = 0 /\ explaining = 0
    BY DEF SessionInit
  <2>2. DOMAIN <<>> = {} /\ <<>> \in [{} -> [owner : Doc, deps : SUBSET {}]]
    OBVIOUS
  <2>3. Acyclic(<<>>)
    BY <2>2 DEF Acyclic
  <2>4. PICK value : value = Computed(<<>>, graph.prints, graph.config, {}, <<>>)
    OBVIOUS
  <2>5. value = [n \in {} |-> Value(<<>>, graph.prints, graph.config, {}, <<>>, value, n)]
    BY <2>2, <2>3, <2>4, ComputedUnfolds
  <2>6. value = <<>>
    BY <2>5
  <2> QED
    BY <2>1, <2>2, <2>3, <2>4, <2>6 DEF Graphs, Tidy, Exact
<1>2. Lifetimes /\ Current /\ Graphs /\ Tidy /\ [SessionNext]_sessionVars => (Graphs /\ Tidy)'
  BY GraphsStep, TidyStep
<1>3. Lifetimes /\ Current /\ Graphs /\ Tidy => GraphIsExact
  BY TidyCounts DEF Lifetimes, Known, Graphs, Tidy, GraphIsExact, SessionTypeOK
<1> QED
  BY <1>1, <1>2, <1>3, LifetimesHold, CurrentHolds, PTL DEF SessionSpec

===============================================================================
