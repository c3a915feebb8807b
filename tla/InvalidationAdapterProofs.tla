----------------------- MODULE InvalidationAdapterProofs -----------------------
(***************************************************************************)
(* Theorems about InvalidationAdapter, for any paths, limits, delays and    *)
(* number of calls.                                                         *)
(***************************************************************************)
EXTENDS InvalidationAdapter, FiniteSetTheorems, SequenceTheorems, WellFoundedInduction, TLAPS

-----------------------------------------------------------------------------
(* Helpers. *)

LEMMA MaxOfTwo ==
  ASSUME NEW a \in Int, NEW b \in Int
  PROVE Max({a, b}) = IF a >= b THEN a ELSE b
<1>1. \E x \in {a, b} : \A y \in {a, b} : x >= y
  OBVIOUS
<1>2. Max({a, b}) \in {a, b} /\ \A y \in {a, b} : Max({a, b}) >= y
  BY <1>1 DEF Max
<1> QED
  BY <1>2

LEMMA MinOfTwo ==
  ASSUME NEW a \in Int, NEW b \in Int
  PROVE Min({a, b}) = IF a <= b THEN a ELSE b
<1>1. \E x \in {a, b} : \A y \in {a, b} : x <= y
  OBVIOUS
<1>2. Min({a, b}) \in {a, b} /\ \A y \in {a, b} : Min({a, b}) <= y
  BY <1>1 DEF Min
<1> QED
  BY <1>2

LEMMA Initial ==
  ASSUME NEW n \in Nat
  PROVE IsFiniteSet(1..n) /\ Cardinality(1..n) = n
<1>1. IsFiniteSet(1..n) /\ Cardinality(1..n) = IF 1 > n THEN 0 ELSE n - 1 + 1
  BY FS_Interval
<1> QED
  BY <1>1

\* A set of positions that is closed downwards is an interval; its length is what Front chooses.
LEMMA FrontExists ==
  ASSUME NEW w \in Seq(Flush), NEW t \in [Flush -> Int], NEW latest \in Int,
         \A i \in 1..Len(w) : \A j \in i..Len(w) : t[w[i]] <= t[w[j]]
  PROVE /\ Front(w, t, latest) \in 0..Len(w)
        /\ \A i \in 1..Len(w) : i <= Front(w, t, latest) <=> t[w[i]] <= latest
<1> DEFINE A == {i \in 1..Len(w) : t[w[i]] <= latest}
           k == Cardinality(A)
<1>1. Len(w) \in Nat /\ \A i \in 1..Len(w) : w[i] \in Flush /\ t[w[i]] \in Int
  OBVIOUS
<1>2. IsFiniteSet(A) /\ k \in Nat /\ k <= Len(w)
  <2>1. IsFiniteSet(1..Len(w)) /\ Cardinality(1..Len(w)) = Len(w)
    BY <1>1, Initial
  <2>2. A \subseteq 1..Len(w)
    OBVIOUS
  <2> HIDE DEF A
  <2>3. IsFiniteSet(A) /\ Cardinality(A) <= Cardinality(1..Len(w))
    BY <2>1, <2>2, FS_Subset
  <2> QED
    BY <2>1, <2>3, FS_CardinalityType
<1>3. \A i \in A : 1..i \subseteq A
  <2> SUFFICES ASSUME NEW i \in A, NEW j \in 1..i PROVE j \in A
    OBVIOUS
  <2>1. i \in 1..Len(w) /\ t[w[i]] <= latest /\ j \in 1..Len(w) /\ i \in j..Len(w)
    BY <1>1
  <2>2. t[w[j]] <= t[w[i]]
    BY <2>1
  <2> QED
    BY <1>1, <2>1, <2>2
<1>4. \A i \in 1..k : i \in A
  <2> SUFFICES ASSUME NEW i \in 1..k, i \notin A PROVE FALSE
    OBVIOUS
  <2>1. A \subseteq 1..(i - 1)
    <3> SUFFICES ASSUME NEW j \in A, j \notin 1..(i - 1) PROVE FALSE
      OBVIOUS
    <3>1. j \in 1..Len(w) /\ i \in 1..j
      BY <1>1, <1>2
    <3> QED
      BY <1>3, <3>1
  <2>2. i - 1 \in Nat /\ IsFiniteSet(1..(i - 1)) /\ Cardinality(1..(i - 1)) = i - 1
    BY <1>2, Initial
  <2> HIDE DEF A
  <2>3. Cardinality(A) <= i - 1
    BY <2>1, <2>2, FS_Subset
  <2> QED
    BY <1>2, <2>2, <2>3
<1>5. k < Len(w) => k + 1 \notin A
  <2> SUFFICES ASSUME k + 1 \in A PROVE FALSE
    OBVIOUS
  <2>1. 1..(k + 1) \subseteq A
    BY <1>3
  <2>2. Cardinality(1..(k + 1)) = k + 1
    BY <1>2, Initial
  <2> HIDE DEF A
  <2>3. k + 1 <= Cardinality(A)
    BY <1>2, <2>1, <2>2, FS_Subset
  <2> QED
    BY <1>2, <2>3
<1>6. k \in 0..Len(w) /\ (\A i \in 1..k : t[w[i]] <= latest) /\ (k < Len(w) => t[w[k + 1]] > latest)
  <2>1. k < Len(w) => k + 1 \in 1..Len(w)
    BY <1>2
  <2> QED
    BY <1>1, <1>2, <1>4, <1>5, <2>1
<1> HIDE DEF k, A
<1>7. PICK n : n = Front(w, t, latest)
  OBVIOUS
<1>8. /\ n \in 0..Len(w) /\ \A i \in 1..n : t[w[i]] <= latest
      /\ n < Len(w) => t[w[n + 1]] > latest
  BY <1>6, <1>7 DEF Front
<1>9. ASSUME NEW i \in 1..Len(w), i > n PROVE t[w[i]] > latest
  <2>1. n < Len(w) /\ n + 1 \in 1..Len(w) /\ i \in (n + 1)..Len(w)
    BY <1>1, <1>8, <1>9
  <2>2. t[w[n + 1]] <= t[w[i]] /\ t[w[n + 1]] > latest
    BY <1>8, <2>1
  <2> QED
    BY <1>1, <2>1, <2>2
<1> QED
  BY <1>1, <1>7, <1>8, <1>9

Sorted(w, t) == \A i \in 1..Len(w) : \A j \in i..Len(w) : t[w[i]] <= t[w[j]]

Among(w, f) == \E i \in 1..Len(w) : w[i] = f
Answered(w, t, o, latest, v, f) == outcome'[f] = o[f] \/ (outcome'[f] = v /\ t[f] <= latest /\ Among(w, f))

\* Settling takes from the front exactly the waiters that are covered.
LEMMA SettleKeeps ==
  ASSUME NEW w, NEW t, NEW o, NEW latest, NEW v, w \in Seq(Flush), t \in [Flush -> Int], o \in [Flush -> Int],
         latest \in Int, v \in Int, Sorted(w, t), \A i \in 1..Len(w) : o[w[i]] = 0, Settle(w, t, o, latest, v)
  PROVE /\ waiters' \in Seq(Flush) /\ outcome' \in [Flush -> Int] /\ Len(waiters') <= Len(w)
        /\ \A i \in 1..Len(waiters') : /\ t[waiters'[i]] > latest /\ outcome'[waiters'[i]] = 0
                                       /\ Among(w, waiters'[i])
        /\ Sorted(waiters', t)
        /\ \A f \in Flush : Answered(w, t, o, latest, v, f)
<1>1. PICK n : n = Front(w, t, latest)
  OBVIOUS
<1>2. n \in 0..Len(w) /\ \A i \in 1..Len(w) : i <= n <=> t[w[i]] <= latest
  BY <1>1, FrontExists DEF Sorted
<1>3. /\ waiters' = SubSeq(w, n + 1, Len(w))
      /\ outcome' = [f \in Flush |-> IF \E i \in 1..n : w[i] = f THEN v ELSE o[f]]
  BY <1>1 DEF Settle
<1>4. Len(w) \in Nat /\ \A i \in 1..Len(w) : w[i] \in Flush /\ t[w[i]] \in Int
  OBVIOUS
<1>5. waiters' \in Seq(Flush) /\ Len(waiters') = Len(w) - n /\ \A i \in 1..(Len(w) - n) : waiters'[i] = w[n + i]
  BY <1>2, <1>3, <1>4
<1>6. \A i \in 1..Len(waiters') : n + i \in 1..Len(w) /\ waiters'[i] = w[n + i] /\ n + i > n
  <2> SUFFICES ASSUME NEW i \in 1..Len(waiters') PROVE n + i \in 1..Len(w) /\ waiters'[i] = w[n + i] /\ n + i > n
    OBVIOUS
  <2>1. i \in 1..(Len(w) - n) /\ n \in Nat /\ n <= Len(w) /\ Len(w) \in Nat
    BY <1>2, <1>4, <1>5
  <2>2. waiters'[i] = w[n + i]
    BY <1>5, <2>1
  <2>3. n + i \in 1..Len(w) /\ n + i > n
    BY <2>1
  <2> QED
    BY <2>2, <2>3
<1>7. \A i \in 1..Len(waiters') : t[waiters'[i]] > latest
  <2> SUFFICES ASSUME NEW i \in 1..Len(waiters') PROVE t[w[n + i]] > latest
    BY <1>6
  <2>1. n + i \in 1..Len(w) /\ ~(n + i <= n)
    BY <1>2, <1>6
  <2>2. ~(t[w[n + i]] <= latest) /\ t[w[n + i]] \in Int
    BY <1>2, <1>4, <2>1
  <2> QED
    BY <2>2
<1>8. \A i \in 1..Len(waiters') : outcome'[waiters'[i]] = 0
  <2> SUFFICES ASSUME NEW i \in 1..Len(waiters') PROVE outcome'[w[n + i]] = 0
    BY <1>6
  <2>1. n + i \in 1..Len(w) /\ w[n + i] \in Flush /\ t[w[n + i]] > latest
    BY <1>4, <1>6, <1>7
  <2>2. \A j \in 1..n : j \in 1..Len(w) /\ t[w[j]] <= latest
    BY <1>2, <1>4
  <2>3. ~\E j \in 1..n : w[j] = w[n + i]
    BY <1>4, <2>1, <2>2
  <2> QED
    BY <1>3, <2>1, <2>3
<1>9. Sorted(waiters', t)
  <2> SUFFICES ASSUME NEW i \in 1..Len(waiters'), NEW j \in i..Len(waiters') PROVE t[waiters'[i]] <= t[waiters'[j]]
    BY DEF Sorted
  <2>1. n + i \in 1..Len(w) /\ n + j \in (n + i)..Len(w) /\ j \in 1..Len(waiters')
    BY <1>2, <1>4, <1>5
  <2> QED
    BY <1>6, <2>1 DEF Sorted
<1>10. \A f \in Flush : Answered(w, t, o, latest, v, f)
  BY <1>2, <1>3, <1>4 DEF Among, Answered
<1>12. \A i \in 1..Len(waiters') : Among(w, waiters'[i])
  BY <1>6 DEF Among
<1>11. outcome' \in [Flush -> Int] /\ Len(waiters') <= Len(w)
  BY <1>2, <1>3, <1>4, <1>5
<1> QED
  BY <1>5, <1>7, <1>8, <1>9, <1>10, <1>11, <1>12

-----------------------------------------------------------------------------
(* What is pending. *)

Flags == BOOLEAN
Hints == Path \X Alias
Pendings == [first : 0..MaxAdmissions, size : 0..MaxAdmissions, full : Flags, hints : SUBSET Hints,
             bytes : 0..MaximumPendingBytes, firstAt : 0..MaxNow, latestAt : 0..MaxNow]

\* The clock and the counter in their range, and a batch that counts what was admitted last.
Admissible ==
  /\ pending \in Pendings /\ admissions \in 0..MaxAdmissions /\ now \in 0..MaxNow
  /\ HasPending(pending) => pending.first >= 1 /\ pending.first + pending.size = admissions + 1

LEMMA AdmittedType ==
  ASSUME Admissible, admissions < MaxAdmissions, NEW full \in Flags, NEW hint \in SUBSET Hints, NEW bytes \in Nat,
         full \/ pending.full \/ pending.bytes + bytes <= MaximumPendingBytes,
         NEW q, q = Admitted(pending, full, hint, bytes)
  PROVE /\ q \in Pendings /\ q.size > 0 /\ q.first >= 1 /\ q.first + q.size = admissions + 2
        /\ HasPending(pending) => q.first = pending.first /\ q.firstAt = pending.firstAt
        /\ ~HasPending(pending) => q.first = admissions + 1
        /\ full => q.full /\ q.hints = {}
        /\ ~full => (q.full <=> pending.full) /\ q.hints = IF pending.full THEN pending.hints ELSE pending.hints \cup hint
<1>1. PICK a, z, g, h, b, x, y :
        pending = [first |-> a, size |-> z, full |-> g, hints |-> h, bytes |-> b, firstAt |-> x, latestAt |-> y]
        /\ a \in 0..MaxAdmissions /\ z \in 0..MaxAdmissions /\ g \in Flags /\ h \in SUBSET Hints
        /\ b \in 0..MaximumPendingBytes /\ x \in 0..MaxNow /\ y \in 0..MaxNow
  BY DEF Admissible, Pendings
<1>2. q = Admitted(pending, full, hint, bytes)
  OBVIOUS
<1>3. /\ pending.first = a /\ pending.size = z /\ pending.full = g /\ pending.hints = h /\ pending.bytes = b
      /\ pending.firstAt = x /\ (HasPending(pending) <=> z > 0)
  BY <1>1 DEF HasPending
<1>4. q = [first |-> IF z > 0 THEN a ELSE admissions + 1, size |-> z + 1, full |-> (g \/ full),
           hints |-> IF full THEN {} ELSE IF g THEN h ELSE h \cup hint,
           bytes |-> IF full THEN 0 ELSE IF g THEN b ELSE b + bytes,
           firstAt |-> IF z > 0 THEN x ELSE now, latestAt |-> now]
  BY <1>1, <1>2 DEF Admitted, HasPending
<1>5. /\ q.first = (IF z > 0 THEN a ELSE admissions + 1) /\ q.size = z + 1 /\ q.full = (g \/ full)
      /\ q.hints = (IF full THEN {} ELSE IF g THEN h ELSE h \cup hint)
      /\ q.firstAt = (IF z > 0 THEN x ELSE now)
  BY <1>4
<1>6. /\ admissions \in Nat /\ z \in Nat /\ a \in Nat /\ MaxAdmissions \in Nat /\ (z > 0 => a >= 1 /\ a + z = admissions + 1)
      /\ now \in 0..MaxNow /\ admissions + 1 \in 0..MaxAdmissions
  BY <1>1, <1>3, AdapterAssumption DEF Admissible
<1>7. z + 1 \in 0..MaxAdmissions /\ (z + 1) > 0
  BY <1>1, <1>6
<1>8. (g \/ full) \in Flags /\ g \in BOOLEAN /\ full \in BOOLEAN
  BY <1>1 DEF Flags
<1>9. (IF full THEN 0 ELSE IF g THEN b ELSE b + bytes) \in 0..MaximumPendingBytes
  BY <1>1, <1>3, AdapterAssumption
<1>10. (IF z > 0 THEN a ELSE admissions + 1) \in 0..MaxAdmissions /\ (IF z > 0 THEN x ELSE now) \in 0..MaxNow
       /\ (IF full THEN {} ELSE IF g THEN h ELSE h \cup hint) \in SUBSET Hints
  BY <1>1, <1>6
<1>11. q \in Pendings
  BY <1>4, <1>6, <1>7, <1>8, <1>9, <1>10 DEF Pendings
<1>12. /\ q.size > 0 /\ q.first >= 1 /\ q.first + q.size = admissions + 2
       /\ HasPending(pending) => q.first = pending.first /\ q.firstAt = pending.firstAt
       /\ ~HasPending(pending) => q.first = admissions + 1
  BY <1>3, <1>5, <1>6, <1>7
<1>13. full => q.full /\ q.hints = {}
  BY <1>5, Zenon
<1>14. ~full => (q.full <=> pending.full) /\ q.hints = IF pending.full THEN pending.hints ELSE pending.hints \cup hint
  BY <1>3, <1>5, <1>8, Zenon
<1> QED
  BY <1>2, <1>11, <1>12, <1>13, <1>14, Zenon

\* The two uses of it: a rescan, and a hint.
LEMMA HintType ==
  ASSUME Admissible, admissions < MaxAdmissions, NEW hint \in SUBSET Hints, NEW bytes \in Nat,
         pending.full \/ pending.bytes + bytes <= MaximumPendingBytes,
         NEW q, q = Admitted(pending, FALSE, hint, bytes)
  PROVE /\ q \in Pendings /\ q.size > 0 /\ q.first >= 1 /\ q.first + q.size = admissions + 2
        /\ HasPending(pending) => q.first = pending.first /\ q.firstAt = pending.firstAt
        /\ ~HasPending(pending) => q.first = admissions + 1
        /\ (q.full <=> pending.full) /\ q.hints = IF pending.full THEN pending.hints ELSE pending.hints \cup hint
<1>1. PICK g \in Flags : g = FALSE
  BY DEF Flags
<1>2. PICK x : x = Admitted(pending, g, hint, bytes)
  OBVIOUS
<1>3. q = x
  BY <1>1, <1>2, Zenon
<1>5. g \/ pending.full \/ pending.bytes + bytes <= MaximumPendingBytes
  OBVIOUS
<1>4. /\ x \in Pendings /\ x.size > 0 /\ x.first >= 1 /\ x.first + x.size = admissions + 2
      /\ HasPending(pending) => x.first = pending.first /\ x.firstAt = pending.firstAt
      /\ ~HasPending(pending) => x.first = admissions + 1
      /\ ~g => (x.full <=> pending.full) /\ x.hints = IF pending.full THEN pending.hints ELSE pending.hints \cup hint
  BY <1>2, <1>5, AdmittedType
<1> QED
  BY <1>1, <1>3, <1>4, Zenon

LEMMA RescanType ==
  ASSUME Admissible, admissions < MaxAdmissions, NEW q, q = Rescan
  PROVE /\ q \in Pendings /\ q.size > 0 /\ q.first >= 1 /\ q.first + q.size = admissions + 2
        /\ HasPending(pending) => q.first = pending.first /\ q.firstAt = pending.firstAt
        /\ ~HasPending(pending) => q.first = admissions + 1
        /\ q.full /\ q.hints = {}
<1>1. PICK g \in Flags, h \in SUBSET Hints, b \in Nat : g = TRUE /\ h = {} /\ b = 0
  BY DEF Flags
<1>2. q = Admitted(pending, g, h, b)
  BY <1>1, Zenon DEF Rescan
<1>3. g \/ pending.full \/ pending.bytes + b <= MaximumPendingBytes
  BY <1>1
<1>4. /\ q \in Pendings /\ q.size > 0 /\ q.first >= 1 /\ q.first + q.size = admissions + 2
      /\ HasPending(pending) => q.first = pending.first /\ q.firstAt = pending.firstAt
      /\ ~HasPending(pending) => q.first = admissions + 1
      /\ g => q.full /\ q.hints = {}
  BY <1>2, <1>3, AdmittedType
<1> QED
  BY <1>1, <1>4, Zenon

LEMMA DueType ==
  ASSUME NEW q \in Pendings, now \in 0..MaxNow
  PROVE /\ Due(q) \in NoTimer..(MaxNow + MaximumDelayMs) /\ Due(q) # NoTimer
        /\ Due(q) <= now \/ Due(q) <= q.firstAt + MaximumDelayMs
<1>1. PICK x, y : x = q.latestAt + DebounceMs /\ y = q.firstAt + MaximumDelayMs
  OBVIOUS
<1>2. q.latestAt \in 0..MaxNow /\ q.firstAt \in 0..MaxNow
  BY DEF Pendings
<1>3. x \in Nat /\ y \in Nat /\ now \in Nat /\ y <= MaxNow + MaximumDelayMs /\ MaxNow + MaximumDelayMs \in Nat
      /\ now <= MaxNow + MaximumDelayMs
  BY <1>1, <1>2, AdapterAssumption
<1>4. Due(q) = Max({now, Min({x, y})})
  BY <1>1 DEF Due
<1>5. Min({x, y}) \in Nat /\ Min({x, y}) <= y
  BY <1>3, MinOfTwo
<1>6. Due(q) \in {now, Min({x, y})}
  BY <1>3, <1>4, <1>5, MaxOfTwo
<1> QED
  BY <1>1, <1>3, <1>5, <1>6 DEF NoTimer

-----------------------------------------------------------------------------
(* Batches: what is pending, the timer, the running cycle. *)

Queued ==
  /\ state \in {"accepting", "closing", "closed"} /\ Admissible
  /\ timer \in NoTimer..(MaxNow + MaximumDelayMs) /\ active \in Batches /\ last \in 0..MaxAdmissions
  /\ PendingIsScheduled /\ NeverPostponed
  /\ state # "accepting" => pending = NothingPending /\ timer = NoTimer
  /\ state = "closed" => Idle
  /\ state = "accepting" /\ ~HasPending(pending) /\ ~Idle => active.latest = admissions
  /\ BatchesNameEveryChange

LEMMA NothingType ==
  /\ NothingPending \in Pendings /\ NothingPending.size = 0 /\ NothingPending.hints = {} /\ ~NothingPending.full
  /\ ~HasPending(NothingPending) /\ Named(NothingPending) = {}
  /\ NoBatch \in Batches /\ NoBatch.latest = 0
<1>1. 0 \in 0..MaxAdmissions /\ 0 \in 0..MaximumPendingBytes /\ 0 \in 0..MaxNow /\ FALSE \in Flags /\ FALSE \in BOOLEAN
  BY AdapterAssumption DEF Flags
<1>2. NothingPending \in Pendings /\ NoBatch \in Batches
  BY <1>1 DEF NothingPending, Pendings, NoBatch, Batches
<1>3. NothingPending.size = 0 /\ NothingPending.hints = {} /\ ~NothingPending.full /\ NoBatch.latest = 0
  BY DEF NothingPending, NoBatch
<1> QED
  BY <1>2, <1>3 DEF HasPending, Named

\* A notification adds a name to the batch, or turns it into a rescan.
LEMMA ChangedKeeps ==
  ASSUME Queued, admissions < MaxAdmissions, NEW path \in Path, NEW q,
         q = Rescan \/ \E alias \in Alias : q = Changed(path, alias)
  PROVE /\ q \in Pendings /\ q.size > 0 /\ q.first >= 1 /\ q.first + q.size = admissions + 2
        /\ HasPending(pending) => q.first = pending.first /\ q.firstAt = pending.firstAt
        /\ ~HasPending(pending) => q.first = admissions + 1
        /\ q.full => q.hints = {}
        /\ q.full \/ Named(q) = touched \cup {path}
<1>1. TRUE \in Flags /\ FALSE \in Flags /\ {} \in SUBSET Hints /\ 0 \in Nat
  BY DEF Flags
<1>2. Admissible /\ (pending.full => pending.hints = {}) /\ (pending.full \/ touched = Named(pending))
  BY DEF Queued, BatchesNameEveryChange
<1>3. pending.bytes \in 0..MaximumPendingBytes /\ pending.bytes + 0 <= MaximumPendingBytes
      /\ MaximumPendingBytes \in Nat
  BY <1>2, AdapterAssumption DEF Admissible, Pendings
<1>4. CASE q = Rescan
  BY <1>2, <1>4, RescanType
<1>5. CASE q = Admitted(pending, FALSE, {}, 0) /\ path \in Named(pending)
  <2>1. /\ q \in Pendings /\ q.size > 0 /\ q.first >= 1 /\ q.first + q.size = admissions + 2
        /\ HasPending(pending) => q.first = pending.first /\ q.firstAt = pending.firstAt
        /\ ~HasPending(pending) => q.first = admissions + 1
        /\ (q.full <=> pending.full) /\ q.hints = IF pending.full THEN pending.hints ELSE pending.hints \cup {}
    BY <1>1, <1>2, <1>3, <1>5, HintType, Zenon
  <2>2. q.hints = pending.hints
    BY <2>1
  <2>3. Named(q) = Named(pending)
    BY <2>2 DEF Named
  <2> QED
    BY <1>2, <1>5, <2>1, <2>2, <2>3
<1>6. ASSUME NEW alias \in Alias, q = Admitted(pending, FALSE, {<<path, alias>>}, 2 * Size[path]),
             pending.full \/ ~(2 * Size[path] > MaximumPendingBytes - pending.bytes)
      PROVE /\ q \in Pendings /\ q.size > 0 /\ q.first >= 1 /\ q.first + q.size = admissions + 2
            /\ HasPending(pending) => q.first = pending.first /\ q.firstAt = pending.firstAt
            /\ ~HasPending(pending) => q.first = admissions + 1
            /\ q.full => q.hints = {}
            /\ q.full \/ Named(q) = touched \cup {path}
  <2>1. 2 * Size[path] \in Nat
    BY AdapterAssumption
  <2>2. pending.full \/ pending.bytes + 2 * Size[path] <= MaximumPendingBytes
    BY <1>3, <1>6, <2>1
  <2>3. {<<path, alias>>} \in SUBSET Hints
    BY DEF Hints
  <2>4. /\ q \in Pendings /\ q.size > 0 /\ q.first >= 1 /\ q.first + q.size = admissions + 2
        /\ HasPending(pending) => q.first = pending.first /\ q.firstAt = pending.firstAt
        /\ ~HasPending(pending) => q.first = admissions + 1
        /\ (q.full <=> pending.full)
        /\ q.hints = IF pending.full THEN pending.hints ELSE pending.hints \cup {<<path, alias>>}
    <3>1. PICK h \in SUBSET Hints, b \in Nat : h = {<<path, alias>>} /\ b = 2 * Size[path]
      BY <2>1, <2>3
    <3>2. q = Admitted(pending, FALSE, h, b) /\ (pending.full \/ pending.bytes + b <= MaximumPendingBytes)
      BY <1>6, <2>2, <3>1
    <3>3. /\ q \in Pendings /\ q.size > 0 /\ q.first >= 1 /\ q.first + q.size = admissions + 2
          /\ HasPending(pending) => q.first = pending.first /\ q.firstAt = pending.firstAt
          /\ ~HasPending(pending) => q.first = admissions + 1
          /\ (q.full <=> pending.full) /\ q.hints = IF pending.full THEN pending.hints ELSE pending.hints \cup h
      BY <1>2, <3>2, HintType, Zenon
    <3> QED
      BY <3>1, <3>3
  <2>5. ~pending.full => Named(q) = Named(pending) \cup {path}
    <3> SUFFICES ASSUME ~pending.full PROVE Named(q) = Named(pending) \cup {path}
      OBVIOUS
    <3>1. q.hints = pending.hints \cup {<<path, alias>>} /\ <<path, alias>>[1] = path
      BY <2>4
    <3> QED
      BY <3>1, Zenon DEF Named
  <2> QED
    BY <1>2, <2>4, <2>5
<1>7. ASSUME NEW alias \in Alias, q = Changed(path, alias)
      PROVE \/ q = Rescan
            \/ q = Admitted(pending, FALSE, {}, 0) /\ path \in Named(pending)
            \/ /\ q = Admitted(pending, FALSE, {<<path, alias>>}, 2 * Size[path])
               /\ pending.full \/ ~(2 * Size[path] > MaximumPendingBytes - pending.bytes)
  BY <1>7, Zenon DEF Changed, Known, Overflows
<1> QED
  BY <1>4, <1>5, <1>6, <1>7

\* A cycle takes all that is pending, or its refresh() throws.
LEMMA StartKeeps ==
  ASSUME NEW p \in Pendings, NEW upto \in 0..MaxAdmissions, NEW w, NEW t, NEW o, StartCycle(p, upto, w, t, o)
  PROVE /\ pending' = NothingPending /\ timer' = NoTimer /\ touched' = {} /\ active' \in Batches
        /\ \/ active'.latest = upto /\ waiters' = w /\ outcome' = o
           \/ active' = NoBatch /\ Settle(w, t, o, upto, -1)
<1>1. BatchOf(p, upto) \in Batches /\ BatchOf(p, upto).latest = upto
  BY DEF BatchOf, Batches, Pendings, Flags, Hints
<1> QED
  BY <1>1, NothingType DEF StartCycle

LEMMA FreshCycle ==
  ASSUME state' = "accepting", admissions' \in 0..MaxAdmissions, now' \in 0..MaxNow, last' \in 0..MaxAdmissions,
         pending' = NothingPending, timer' = NoTimer, touched' = {}, active' \in Batches,
         active'.latest = admissions' \/ active' = NoBatch
  PROVE Queued'
<1>1. Admissible'
  BY NothingType DEF Admissible, HasPending
<1>2. NoTimer \in NoTimer..(MaxNow + MaximumDelayMs)
  BY AdapterAssumption DEF NoTimer
<1>3. PendingIsScheduled' /\ NeverPostponed'
  BY NothingType DEF PendingIsScheduled, NeverPostponed, HasPending
<1>4. BatchesNameEveryChange'
  BY NothingType DEF BatchesNameEveryChange, Named
<1> QED
  BY <1>1, <1>2, <1>3, <1>4 DEF Queued, Idle

LEMMA NotifyQueued ==
  ASSUME Queued, Notify
  PROVE Queued'
<1>1. /\ state = "accepting" /\ admissions < MaxAdmissions /\ admissions' = admissions + 1
      /\ timer' = IF Idle THEN Due(pending') ELSE timer
      /\ UNCHANGED <<state, active, last, now>>
  BY DEF Notify
<1>2. PICK path \in Path : /\ pending' = Rescan \/ \E alias \in Alias : pending' = Changed(path, alias)
                           /\ touched' = IF pending'.full THEN {} ELSE touched \cup {path}
  BY DEF Notify
<1>3. PICK q : q = pending'
  OBVIOUS
<1>4. /\ q \in Pendings /\ q.size > 0 /\ q.first >= 1 /\ q.first + q.size = admissions + 2
      /\ HasPending(pending) => q.first = pending.first /\ q.firstAt = pending.firstAt
      /\ ~HasPending(pending) => q.first = admissions + 1
      /\ q.full => q.hints = {}
      /\ q.full \/ Named(q) = touched \cup {path}
  BY <1>1, <1>2, <1>3, ChangedKeeps
<1>5. admissions \in 0..MaxAdmissions /\ admissions \in Nat /\ MaxAdmissions \in Nat /\ now \in 0..MaxNow
  BY AdapterAssumption DEF Queued, Admissible
<1>6. Admissible'
  BY <1>1, <1>3, <1>4, <1>5 DEF Admissible
<1>7. HasPending(q)
  BY <1>4 DEF HasPending
<1>8. /\ Due(q) \in NoTimer..(MaxNow + MaximumDelayMs) /\ Due(q) # NoTimer
      /\ Due(q) <= now \/ Due(q) <= q.firstAt + MaximumDelayMs
  BY <1>4, <1>5, DueType
<1>9. Due(q)' = Due(q)
  BY <1>1 DEF Due
<1>10. timer' = IF Idle THEN Due(q) ELSE timer
  BY <1>1, <1>3
<1>11. CASE Idle
  <2>1. timer' = Due(q) /\ Idle'
    BY <1>1, <1>10, <1>11 DEF Idle
  <2>2. PendingIsScheduled'
    BY <1>1, <1>3, <1>4, <1>5, <1>7, <1>8, <2>1 DEF PendingIsScheduled
  <2>3. NeverPostponed'
    BY <1>1, <1>3, <1>8, <2>1 DEF NeverPostponed
  <2> QED
    BY <1>1, <1>2, <1>3, <1>4, <1>6, <1>7, <1>8, <2>1, <2>2, <2>3 DEF Queued, BatchesNameEveryChange
<1>12. CASE ~Idle
  <2>1. timer' = timer /\ timer = NoTimer /\ ~Idle'
    BY <1>1, <1>10, <1>12 DEF Idle, Queued, PendingIsScheduled
  <2>2. q.first = active.latest + 1
    BY <1>1, <1>4, <1>12 DEF Queued, PendingIsScheduled
  <2>3. PendingIsScheduled'
    BY <1>1, <1>3, <1>4, <1>5, <2>1, <2>2 DEF PendingIsScheduled
  <2>4. NeverPostponed'
    BY <2>1 DEF NeverPostponed
  <2>5. timer' \in NoTimer..(MaxNow + MaximumDelayMs)
    BY <2>1 DEF Queued
  <2> QED
    BY <1>1, <1>2, <1>3, <1>4, <1>6, <1>7, <2>1, <2>3, <2>4, <2>5 DEF Queued, BatchesNameEveryChange
<1> QED
  BY <1>11, <1>12

LEMMA TimerQueued ==
  ASSUME Queued, TimerFires
  PROVE Queued'
<1>1. timer # NoTimer /\ StartCycle(pending, admissions, waiters, target, outcome) /\ UNCHANGED <<state, admissions, last, now>>
  BY DEF TimerFires
<1>2. pending \in Pendings /\ admissions \in 0..MaxAdmissions /\ now \in 0..MaxNow /\ last \in 0..MaxAdmissions
      /\ state = "accepting"
  BY <1>1 DEF Queued, Admissible
<1>3. PICK p, u, w, t, o : p = pending /\ u = admissions /\ w = waiters /\ t = target /\ o = outcome
  OBVIOUS
<1>4. StartCycle(p, u, w, t, o)
  BY <1>1, <1>3
<1>5. /\ pending' = NothingPending /\ timer' = NoTimer /\ touched' = {} /\ active' \in Batches
      /\ active'.latest = admissions \/ active' = NoBatch
  BY <1>2, <1>3, <1>4, StartKeeps
<1> QED
  BY <1>1, <1>2, <1>5, FreshCycle

LEMMA CycleQueued ==
  ASSUME Queued, CycleEnds
  PROVE Queued'
<1>1. /\ ~Idle /\ state = "accepting" /\ active' = NoBatch /\ timer' = Successor(pending)
      /\ UNCHANGED <<state, admissions, pending, target, now, touched>>
      /\ last' \in {active.latest, last}
  BY DEF CycleEnds
<1>2. last' \in 0..MaxAdmissions
  BY <1>1 DEF Queued, Batches
<1>3. Admissible' /\ BatchesNameEveryChange'
  BY <1>1 DEF Queued, Admissible, BatchesNameEveryChange
<1>4. Idle'
  BY <1>1 DEF Idle
<1>5. CASE HasPending(pending)
  <2>1. timer' = Due(pending)
    BY <1>1, <1>5 DEF Successor
  <2>2. /\ timer' \in NoTimer..(MaxNow + MaximumDelayMs) /\ timer' # NoTimer
        /\ timer' <= now \/ timer' <= pending.firstAt + MaximumDelayMs
    BY <2>1, DueType DEF Queued, Admissible
  <2>3. PendingIsScheduled' /\ NeverPostponed'
    BY <1>1, <1>4, <1>5, <2>2 DEF PendingIsScheduled, NeverPostponed, Queued
  <2> QED
    BY <1>1, <1>2, <1>3, <1>4, <2>2, <2>3, NothingType DEF Queued
<1>6. CASE ~HasPending(pending)
  <2>1. timer' = NoTimer /\ NoTimer \in NoTimer..(MaxNow + MaximumDelayMs)
    BY <1>1, <1>6, AdapterAssumption DEF Successor, NoTimer
  <2>2. PendingIsScheduled' /\ NeverPostponed'
    BY <1>1, <1>4, <1>6, <2>1 DEF PendingIsScheduled, NeverPostponed
  <2> QED
    BY <1>1, <1>2, <1>3, <1>4, <2>1, <2>2, NothingType DEF Queued
<1> QED
  BY <1>5, <1>6

\* What flush() does to the batch, the timer and the cycle; p is the batch it takes or leaves.
FlushStep(f, p, w, o) ==
  /\ state = "accepting" /\ target[f] = 0 /\ admissions' \in 0..MaxAdmissions
  /\ UNCHANGED <<state, last, now>>
  /\ target' = [target EXCEPT ![f] = admissions']
  /\ \/ w = Append(waiters, f) /\ o = outcome
     \/ w = waiters /\ o = [outcome EXCEPT ![f] = -1]
  /\ ~Crowded \/ w = waiters
  /\ \/ p \in Pendings /\ HasPending(p)
     \/ p = pending /\ ~HasPending(p) /\ ~Idle
  /\ \/ Rescans /\ p = Rescan /\ admissions' = admissions + 1 /\ admissions < MaxAdmissions
     \/ ~Rescans /\ p = pending /\ admissions' = admissions
  /\ \/ /\ last >= admissions' /\ outcome' = [outcome EXCEPT ![f] = last] /\ pending' = p
        /\ timer' = IF Rescans THEN Due(p) ELSE timer
        /\ UNCHANGED <<active, waiters, touched>>
     \/ ~(last >= admissions') /\ Idle /\ StartCycle(p, admissions', w, target', o)
     \/ ~(last >= admissions') /\ ~Idle /\ waiters' = w /\ outcome' = o /\ UNCHANGED <<queue, touched>>

LEMMA FlushShape ==
  ASSUME Queued, NEW f \in Flush, FlushCalls(f)
  PROVE \E p, w, o : FlushStep(f, p, w, o)
<1>1. PICK p, w, o : /\ p = (IF Rescans THEN Rescan ELSE pending)
                     /\ w = (IF Crowded THEN waiters ELSE Append(waiters, f))
                     /\ o = (IF Crowded THEN [outcome EXCEPT ![f] = -1] ELSE outcome)
  OBVIOUS
<1>2. /\ state = "accepting" /\ target[f] = 0 /\ (Rescans => admissions < MaxAdmissions)
      /\ admissions' = (IF Rescans THEN admissions + 1 ELSE admissions)
      /\ target' = [target EXCEPT ![f] = admissions']
      /\ UNCHANGED <<state, last, now>>
      /\ IF last >= admissions'
         THEN /\ outcome' = [outcome EXCEPT ![f] = last] /\ pending' = p
              /\ timer' = IF Rescans THEN Due(p) ELSE timer
              /\ UNCHANGED <<active, waiters, touched>>
         ELSE IF Idle
         THEN StartCycle(p, admissions', w, target', o)
         ELSE waiters' = w /\ outcome' = o /\ UNCHANGED <<queue, touched>>
  BY <1>1, Zenon DEF FlushCalls, Target
<1>3. /\ admissions' \in 0..MaxAdmissions
      /\ \/ Rescans /\ p = Rescan /\ admissions' = admissions + 1 /\ admissions < MaxAdmissions
         \/ ~Rescans /\ p = pending /\ admissions' = admissions
  BY <1>1, <1>2, AdapterAssumption DEF Queued, Admissible
<1>4. (p \in Pendings /\ HasPending(p)) \/ (p = pending /\ ~HasPending(p) /\ ~Idle)
  <2>1. CASE Rescans
    <3>1. p \in Pendings /\ p.size > 0
      BY <1>1, <1>2, <2>1, RescanType DEF Queued
    <3> QED
      BY <3>1 DEF HasPending
  <2>2. CASE ~Rescans
    BY <1>1, <2>2 DEF Rescans, Queued, Admissible
  <2> QED
    BY <2>1, <2>2
<1>5. /\ \/ w = Append(waiters, f) /\ o = outcome
         \/ w = waiters /\ o = [outcome EXCEPT ![f] = -1]
      /\ ~Crowded \/ w = waiters
  <2>1. CASE Crowded
    BY <1>1, <2>1
  <2>2. CASE ~Crowded
    <3>1. w = Append(waiters, f) /\ o = outcome
      BY <1>1, <2>2
    <3> QED
      BY <2>2, <3>1
  <2> QED
    BY <2>1, <2>2
<1> QED
  BY <1>2, <1>3, <1>4, <1>5, Zenon DEF FlushStep

LEMMA FlushQueued ==
  ASSUME Queued, NEW f \in Flush, FlushCalls(f)
  PROVE Queued'
<1>0. PICK p, w, o : FlushStep(f, p, w, o)
  BY FlushShape, Zenon
<1>1. /\ state = "accepting" /\ admissions' \in 0..MaxAdmissions /\ UNCHANGED <<state, last, now>>
      /\ (p \in Pendings /\ HasPending(p)) \/ (p = pending /\ ~HasPending(p) /\ ~Idle)
      /\ \/ Rescans /\ p = Rescan /\ admissions' = admissions + 1 /\ admissions < MaxAdmissions
         \/ ~Rescans /\ p = pending /\ admissions' = admissions
      /\ \/ /\ pending' = p /\ timer' = IF Rescans THEN Due(p) ELSE timer
            /\ UNCHANGED <<active, touched>>
         \/ Idle /\ StartCycle(p, admissions', w, target', o)
         \/ ~Idle /\ UNCHANGED <<queue, touched>>
  BY <1>0 DEF FlushStep
<1>2. now \in 0..MaxNow /\ last \in 0..MaxAdmissions /\ admissions \in Nat
  BY AdapterAssumption DEF Queued, Admissible
<1>3. CASE Idle /\ StartCycle(p, admissions', w, target', o)
  <2>1. PICK u, t : u = admissions' /\ t = target'
    OBVIOUS
  <2>2. StartCycle(p, u, w, t, o) /\ p \in Pendings /\ u \in 0..MaxAdmissions
    BY <1>1, <1>3, <2>1
  <2>3. /\ pending' = NothingPending /\ timer' = NoTimer /\ touched' = {} /\ active' \in Batches
        /\ active'.latest = admissions' \/ active' = NoBatch
    BY <2>1, <2>2, StartKeeps
  <2> QED
    BY <1>1, <1>2, <2>3, FreshCycle
<1>4. ASSUME UNCHANGED <<queue, touched, admissions>> PROVE Queued'
  BY <1>1, <1>4 DEF queue, Queued, Admissible, PendingIsScheduled, NeverPostponed, BatchesNameEveryChange, Idle
<1>5. CASE ~Idle /\ UNCHANGED <<queue, touched>>
  BY <1>1, <1>4, <1>5 DEF Rescans
<1>6. CASE pending' = p /\ timer' = (IF Rescans THEN Due(p) ELSE timer) /\ UNCHANGED <<active, touched>>
  <2>1. CASE ~Rescans
    BY <1>1, <1>4, <1>6, <2>1 DEF queue
  <2>2. CASE Rescans
    <3>1. p = Rescan /\ admissions' = admissions + 1 /\ admissions < MaxAdmissions /\ Idle /\ ~HasPending(pending)
      BY <1>1, <2>2 DEF Rescans
    <3>2. p \in Pendings /\ p.size > 0 /\ p.first >= 1 /\ p.first + p.size = admissions + 2 /\ p.full /\ p.hints = {}
      BY <3>1, RescanType DEF Queued
    <3>3. /\ Due(p) \in NoTimer..(MaxNow + MaximumDelayMs) /\ Due(p) # NoTimer
          /\ Due(p) <= now \/ Due(p) <= p.firstAt + MaximumDelayMs
      BY <1>2, <3>2, DueType
    <3>4. Admissible' /\ HasPending(p)
      BY <1>1, <1>2, <1>6, <3>1, <3>2 DEF Admissible, HasPending
    <3>5. Idle' /\ timer' = Due(p)
      BY <1>6, <2>2, <3>1 DEF Idle
    <3>6. PendingIsScheduled' /\ NeverPostponed' /\ BatchesNameEveryChange'
      BY <1>1, <1>2, <1>6, <3>1, <3>2, <3>3, <3>4, <3>5 DEF PendingIsScheduled, NeverPostponed, BatchesNameEveryChange
    <3> QED
      BY <1>1, <1>2, <1>6, <3>3, <3>4, <3>5, <3>6 DEF Queued
  <2> QED
    BY <2>1, <2>2
<1> QED
  BY <1>1, <1>3, <1>5, <1>6

LEMMA RestQueued ==
  ASSUME Queued, Closes \/ CancelledCycleEnds \/ TargetCloses \/ Tick \/ Ended \/ UNCHANGED vars
  PROVE Queued'
<1>1. CASE Closes
  <2>1. /\ state' = "closing" /\ pending' = NothingPending /\ timer' = NoTimer /\ last' = 0 /\ touched' = {}
        /\ UNCHANGED <<admissions, active, now>>
    BY <1>1 DEF Closes
  <2>2. Admissible' /\ BatchesNameEveryChange'
    BY <2>1, NothingType DEF Queued, Admissible, BatchesNameEveryChange
  <2>3. 0 \in 0..MaxAdmissions /\ NoTimer \in NoTimer..(MaxNow + MaximumDelayMs)
    BY AdapterAssumption DEF NoTimer
  <2>4. PendingIsScheduled' /\ NeverPostponed'
    BY <2>1 DEF PendingIsScheduled, NeverPostponed
  <2> QED
    BY <2>1, <2>2, <2>3, <2>4 DEF Queued
<1>2. CASE CancelledCycleEnds
  <2>1. /\ state = "closing" /\ active' = NoBatch /\ UNCHANGED <<state, admissions, pending, timer, last, now, touched>>
    BY <1>2 DEF CancelledCycleEnds
  <2> QED
    BY <2>1, NothingType DEF Queued, Admissible, PendingIsScheduled, NeverPostponed, BatchesNameEveryChange
<1>3. CASE TargetCloses
  <2>1. /\ state' = "closed" /\ state = "closing" /\ Idle
        /\ UNCHANGED <<admissions, pending, timer, active, last, now, touched>>
    BY <1>3 DEF TargetCloses, Awaited, queue
  <2> QED
    BY <2>1 DEF Queued, Admissible, PendingIsScheduled, NeverPostponed, BatchesNameEveryChange, Idle
<1>4. CASE Tick
  <2>1. now < MaxNow /\ now' = now + 1 /\ UNCHANGED <<state, admissions, pending, timer, active, last, touched>>
    BY <1>4 DEF Tick, queue
  <2>2. now \in 0..MaxNow /\ now' \in 0..MaxNow /\ timer \in Int
    BY <2>1, AdapterAssumption DEF Queued, Admissible, NoTimer
  <2>3. NeverPostponed'
    BY <2>1, <2>2 DEF NeverPostponed, Queued
  <2>4. Admissible'
    BY <2>1, <2>2 DEF Queued, Admissible
  <2> QED
    BY <2>1, <2>3, <2>4 DEF Queued, PendingIsScheduled, BatchesNameEveryChange, Idle
<1>5. CASE Ended \/ UNCHANGED vars
  BY <1>5 DEF Ended, vars, queue, Queued, Admissible, PendingIsScheduled, NeverPostponed, BatchesNameEveryChange, Idle
<1> QED
  BY <1>1, <1>2, <1>3, <1>4, <1>5

LEMMA QueuedKeeps ==
  ASSUME Queued, [Next]_vars
  PROVE Queued'
BY NotifyQueued, TimerQueued, CycleQueued, FlushQueued, RestQueued DEF Next

LEMMA QueuedInit ==
  ASSUME Init
  PROVE Queued
<1>1. /\ state = "accepting" /\ admissions = 0 /\ now = 0 /\ pending = NothingPending /\ timer = NoTimer
      /\ active = NoBatch /\ last = 0 /\ touched = {}
  BY DEF Init
<1>2. 0 \in 0..MaxAdmissions /\ 0 \in 0..MaxNow /\ NoTimer \in NoTimer..(MaxNow + MaximumDelayMs)
  BY AdapterAssumption DEF NoTimer
<1>3. Admissible /\ Idle /\ ~HasPending(pending)
  BY <1>1, <1>2, NothingType DEF Admissible, Idle
<1>4. PendingIsScheduled /\ NeverPostponed /\ BatchesNameEveryChange
  BY <1>1, <1>3, NothingType DEF PendingIsScheduled, NeverPostponed, BatchesNameEveryChange
<1> QED
  BY <1>1, <1>2, <1>3, <1>4, NothingType DEF Queued

-----------------------------------------------------------------------------
(* The callers of flush(). *)

Orderly(w, t, o, upto) ==
  /\ w \in Seq(Flush) /\ t \in [Flush -> 0..MaxAdmissions] /\ o \in [Flush -> -1..MaxAdmissions]
  /\ \A f \in Flush : t[f] <= upto /\ (t[f] = 0 => o[f] = 0) /\ (o[f] > 0 => o[f] >= t[f])
  /\ \A i \in 1..Len(w) : o[w[i]] = 0 /\ t[w[i]] # 0
  /\ Sorted(w, t)

Covered == IF HasPending(pending) THEN admissions ELSE active.latest
Served ==
  /\ Orderly(waiters, target, outcome, admissions)
  /\ \A i \in 1..Len(waiters) : target[waiters[i]] <= Covered
  /\ state # "accepting" => waiters = <<>>
  /\ ~Idle => admissions >= 1

LEMMA SettleOrderly ==
  ASSUME NEW w, NEW t, NEW o, NEW upto \in Int, Orderly(w, t, o, upto), NEW latest \in 0..MaxAdmissions,
         NEW v \in {-1, latest}, Settle(w, t, o, latest, v)
  PROVE Orderly(waiters', t, outcome', upto) /\ \A i \in 1..Len(waiters') : t[waiters'[i]] > latest
<1>1. /\ w \in Seq(Flush) /\ t \in [Flush -> Int] /\ o \in [Flush -> Int] /\ latest \in Int /\ v \in Int
      /\ v \in -1..MaxAdmissions /\ Sorted(w, t) /\ \A i \in 1..Len(w) : o[w[i]] = 0 /\ t[w[i]] # 0 /\ w[i] \in Flush
  BY AdapterAssumption DEF Orderly
<1>6. \A i \in 1..Len(w) : o[w[i]] = 0
  BY <1>1
<1>2. /\ waiters' \in Seq(Flush) /\ outcome' \in [Flush -> Int] /\ Len(waiters') <= Len(w)
      /\ \A i \in 1..Len(waiters') : /\ t[waiters'[i]] > latest /\ outcome'[waiters'[i]] = 0
                                     /\ Among(w, waiters'[i])
      /\ Sorted(waiters', t)
      /\ \A f \in Flush : Answered(w, t, o, latest, v, f)
  <2>1. w \in Seq(Flush)
    BY <1>1
  <2>2. t \in [Flush -> Int] /\ o \in [Flush -> Int]
    BY <1>1
  <2>3. latest \in Int /\ v \in Int /\ Sorted(w, t)
    BY <1>1
  <2>4. Settle(w, t, o, latest, v)
    OBVIOUS
  <2>5. waiters' \in Seq(Flush) /\ outcome' \in [Flush -> Int] /\ Len(waiters') <= Len(w) /\ Sorted(waiters', t)
    BY <1>6, <2>1, <2>2, <2>3, <2>4, SettleKeeps
  <2>6. ASSUME NEW i \in 1..Len(waiters')
        PROVE t[waiters'[i]] > latest /\ outcome'[waiters'[i]] = 0 /\ Among(w, waiters'[i])
    BY <1>6, <2>1, <2>2, <2>3, <2>4, SettleKeeps
  <2>7. ASSUME NEW f \in Flush
        PROVE Answered(w, t, o, latest, v, f)
    BY <1>6, <2>1, <2>2, <2>3, <2>4, SettleKeeps
  <2> QED
    BY <2>5, <2>6, <2>7
<1>3. outcome' \in [Flush -> -1..MaxAdmissions]
  <2>1. \A f \in Flush : outcome'[f] \in -1..MaxAdmissions
    BY <1>1, <1>2 DEF Orderly, Answered
  <2> QED
    BY <1>2, <2>1
<1>4. \A f \in Flush : t[f] <= upto /\ (t[f] = 0 => outcome'[f] = 0) /\ (outcome'[f] > 0 => outcome'[f] >= t[f])
  <2> SUFFICES ASSUME NEW f \in Flush
               PROVE (t[f] = 0 => outcome'[f] = 0) /\ (outcome'[f] > 0 => outcome'[f] >= t[f])
    BY DEF Orderly
  <2>1. CASE outcome'[f] = o[f]
    BY <2>1 DEF Orderly
  <2>2. CASE outcome'[f] = v /\ t[f] <= latest /\ Among(w, f)
    BY <1>1, <2>2 DEF Among
  <2> QED
    BY <1>2, <2>1, <2>2 DEF Answered
<1>5. \A i \in 1..Len(waiters') : t[waiters'[i]] # 0
  <2> SUFFICES ASSUME NEW i \in 1..Len(waiters') PROVE t[waiters'[i]] # 0
    OBVIOUS
  <2>1. PICK j \in 1..Len(w) : w[j] = waiters'[i]
    BY <1>2 DEF Among
  <2> QED
    BY <1>1, <2>1
<1> QED
  BY <1>2, <1>3, <1>4, <1>5 DEF Orderly

\* A new caller waits for what is admitted when it calls, behind all others, or is turned away.
LEMMA FlushOrderly ==
  ASSUME NEW upto \in Int, Orderly(waiters, target, outcome, upto), NEW f \in Flush, target[f] = 0,
         NEW a \in 1..MaxAdmissions, upto <= a, NEW w, NEW t, NEW o, t = [target EXCEPT ![f] = a],
         \/ w = Append(waiters, f) /\ o = outcome
         \/ w = waiters /\ o = [outcome EXCEPT ![f] = -1]
  PROVE Orderly(w, t, o, a)
<1>1. t \in [Flush -> 0..MaxAdmissions] /\ t[f] = a /\ \A g \in Flush : g # f => t[g] = target[g]
  BY AdapterAssumption DEF Orderly
<1>2. \A g \in Flush : t[g] <= a
  BY <1>1, AdapterAssumption DEF Orderly
<1>3. /\ waiters \in Seq(Flush) /\ Len(waiters) \in Nat
      /\ \A i \in 1..Len(waiters) : waiters[i] \in Flush /\ waiters[i] # f /\ outcome[waiters[i]] = 0
                                    /\ t[waiters[i]] = target[waiters[i]] /\ t[waiters[i]] # 0
  BY <1>1 DEF Orderly
<1>4. outcome[f] = 0 /\ outcome \in [Flush -> -1..MaxAdmissions]
  BY DEF Orderly
<1>5. Sorted(waiters, t)
  <2> SUFFICES ASSUME NEW i \in 1..Len(waiters), NEW j \in i..Len(waiters) PROVE t[waiters[i]] <= t[waiters[j]]
    BY DEF Sorted
  <2>1. j \in 1..Len(waiters)
    BY <1>3
  <2>2. target[waiters[i]] <= target[waiters[j]]
    BY DEF Orderly, Sorted
  <2> QED
    BY <1>3, <2>1, <2>2
<1>6. CASE w = Append(waiters, f) /\ o = outcome
  <2>1. w \in Seq(Flush) /\ Len(w) = Len(waiters) + 1 /\ w[Len(waiters) + 1] = f
        /\ \A i \in 1..Len(waiters) : w[i] = waiters[i]
    BY <1>3, <1>6
  <2>2. \A i \in 1..Len(w) : i \in 1..Len(waiters) \/ i = Len(waiters) + 1
    BY <1>3, <2>1
  <2>3. \A i \in 1..Len(w) : o[w[i]] = 0 /\ t[w[i]] # 0
    BY <1>1, <1>3, <1>4, <1>6, <2>1, <2>2
  <2>4. Sorted(w, t)
    <3> SUFFICES ASSUME NEW i \in 1..Len(w), NEW j \in i..Len(w) PROVE t[w[i]] <= t[w[j]]
      BY DEF Sorted
    <3>1. CASE j = Len(waiters) + 1
      BY <1>1, <1>2, <1>3, <2>1, <2>2, <3>1
    <3>2. CASE j # Len(waiters) + 1
      <4>1. i \in 1..Len(waiters) /\ j \in i..Len(waiters) /\ j \in 1..Len(waiters)
        BY <1>3, <2>1, <3>2
      <4> QED
        BY <1>5, <2>1, <4>1 DEF Sorted
    <3> QED
      BY <3>1, <3>2
  <2>5. \A g \in Flush : t[g] <= a /\ (t[g] = 0 => o[g] = 0) /\ (o[g] > 0 => o[g] >= t[g])
    BY <1>1, <1>2, <1>4, <1>6 DEF Orderly
  <2> QED
    BY <1>1, <1>4, <1>6, <2>1, <2>3, <2>4, <2>5 DEF Orderly
<1>7. CASE w = waiters /\ o = [outcome EXCEPT ![f] = -1]
  <2>1. o \in [Flush -> -1..MaxAdmissions] /\ o[f] = -1 /\ \A g \in Flush : g # f => o[g] = outcome[g]
    BY <1>4, <1>7, AdapterAssumption
  <2>2. \A g \in Flush : t[g] <= a /\ (t[g] = 0 => o[g] = 0) /\ (o[g] > 0 => o[g] >= t[g])
    BY <1>1, <1>2, <2>1 DEF Orderly
  <2>3. \A i \in 1..Len(w) : o[w[i]] = 0 /\ t[w[i]] # 0
    BY <1>3, <1>7, <2>1
  <2> QED
    BY <1>1, <1>3, <1>5, <1>7, <2>1, <2>2, <2>3 DEF Orderly
<1> QED
  BY <1>6, <1>7

LEMMA PendingCounts ==
  ASSUME Queued, HasPending(pending)
  PROVE admissions >= 1 /\ admissions \in 1..MaxAdmissions
BY AdapterAssumption DEF Queued, Admissible, HasPending, Pendings

LEMMA NotifyServed ==
  ASSUME Queued, Queued', Served, Notify
  PROVE Served'
<1>1. /\ state = "accepting" /\ state' = state /\ admissions' = admissions + 1
      /\ waiters' = waiters /\ target' = target /\ outcome' = outcome
  BY DEF Notify, calls
<1>2. admissions \in Nat
  BY AdapterAssumption DEF Queued, Admissible
<1>3. HasPending(pending)'
  <2>1. PICK path \in Path : pending' = Rescan \/ \E alias \in Alias : pending' = Changed(path, alias)
    BY DEF Notify
  <2>2. pending'.size > 0
    BY <2>1, ChangedKeeps DEF Notify
  <2> QED
    BY <2>2 DEF HasPending
<1>4. /\ waiters \in Seq(Flush) /\ target \in [Flush -> 0..MaxAdmissions]
      /\ \A f \in Flush : target[f] <= admissions /\ target[f] \in Nat
  BY AdapterAssumption DEF Served, Orderly
<1>5. \A f \in Flush : target[f] <= admissions'
  BY <1>1, <1>2, <1>4
<1>6. \A i \in 1..Len(waiters) : waiters[i] \in Flush
  BY <1>4
<1> QED
  BY <1>1, <1>2, <1>3, <1>5, <1>6 DEF Served, Orderly, Covered

\* A cycle that starts covers every waiter; when its refresh() throws none is left.
LEMMA StartServed ==
  ASSUME NEW w, NEW t, NEW o, NEW upto \in 1..MaxAdmissions, Orderly(w, t, o, upto), NEW p \in Pendings,
         StartCycle(p, upto, w, t, o), admissions' = upto, target' = t, state' = "accepting"
  PROVE Served'
<1>1. /\ pending' = NothingPending
      /\ \/ active'.latest = upto /\ waiters' = w /\ outcome' = o
         \/ active' = NoBatch /\ Settle(w, t, o, upto, -1)
  BY AdapterAssumption, StartKeeps
<1>2. ~HasPending(pending)' /\ Covered' = active'.latest /\ upto >= 1
  BY <1>1, NothingType DEF HasPending, Covered
<1>3. \A f \in Flush : t[f] <= upto /\ t[f] \in Int
  BY DEF Orderly
<1>4. CASE active'.latest = upto /\ waiters' = w /\ outcome' = o
  <2>1. \A i \in 1..Len(w) : w[i] \in Flush
    BY DEF Orderly
  <2> QED
    BY <1>2, <1>3, <1>4, <2>1 DEF Served
<1>5. CASE active' = NoBatch /\ Settle(w, t, o, upto, -1)
  <2>1. Orderly(waiters', t, outcome', upto) /\ \A i \in 1..Len(waiters') : t[waiters'[i]] > upto
    BY <1>5, AdapterAssumption, SettleOrderly
  <2>2. \A i \in 1..Len(waiters') : waiters'[i] \in Flush
    BY <2>1 DEF Orderly
  <2>3. \A i \in 1..Len(waiters') : FALSE
    BY <1>3, <2>1, <2>2
  <2> QED
    BY <1>2, <2>1, <2>3 DEF Served
<1> QED
  BY <1>1, <1>4, <1>5

LEMMA TimerServed ==
  ASSUME Queued, Served, TimerFires
  PROVE Served'
<1>1. /\ timer # NoTimer /\ StartCycle(pending, admissions, waiters, target, outcome)
      /\ UNCHANGED <<state, admissions, target>>
  BY DEF TimerFires
<1>2. state = "accepting" /\ HasPending(pending) /\ pending \in Pendings
  BY <1>1 DEF Queued, PendingIsScheduled, Admissible
<1>3. admissions \in 1..MaxAdmissions
  BY <1>2, PendingCounts
<1>4. PICK w, t, o, u, p : w = waiters /\ t = target /\ o = outcome /\ u = admissions /\ p = pending
  OBVIOUS
<1>5. Orderly(w, t, o, u) /\ StartCycle(p, u, w, t, o) /\ u \in 1..MaxAdmissions /\ p \in Pendings
  BY <1>1, <1>2, <1>3, <1>4 DEF Served
<1> QED
  BY <1>1, <1>2, <1>4, <1>5, StartServed

LEMMA CycleServed ==
  ASSUME Queued, Served, CycleEnds
  PROVE Served'
<1>1. /\ state = "accepting" /\ UNCHANGED <<state, admissions, pending, target>> /\ active' = NoBatch
      /\ \E v \in {-1, active.latest} : Settle(waiters, target, outcome, active.latest, v)
  BY DEF CycleEnds
<1>2. PICK v \in {-1, active.latest} : Settle(waiters, target, outcome, active.latest, v)
  BY <1>1
<1>3. PICK w, t, o, u, l : w = waiters /\ t = target /\ o = outcome /\ u = admissions /\ l = active.latest
  OBVIOUS
<1>4. Orderly(w, t, o, u) /\ Settle(w, t, o, l, v) /\ u \in Int /\ l \in 0..MaxAdmissions /\ v \in {-1, l}
  BY <1>2, <1>3 DEF Served, Queued, Admissible, Batches
<1>5. Orderly(waiters', t, outcome', u) /\ \A i \in 1..Len(waiters') : t[waiters'[i]] > l
  BY <1>4, SettleOrderly
<1>6. \A i \in 1..Len(waiters') : waiters'[i] \in Flush /\ t[waiters'[i]] <= u /\ t[waiters'[i]] \in Int
  BY <1>5 DEF Orderly
<1>7. \A i \in 1..Len(waiters') : HasPending(pending)
  <2> SUFFICES ASSUME NEW i \in 1..Len(waiters'), ~HasPending(pending) PROVE FALSE
    OBVIOUS
  <2>1. l = u
    BY <1>1, <1>3 DEF Queued, CycleEnds
  <2> QED
    BY <1>4, <1>5, <1>6, <2>1
<1>8. \A i \in 1..Len(waiters') : target'[waiters'[i]] <= Covered'
  BY <1>1, <1>3, <1>6, <1>7 DEF Covered
<1> QED
  BY <1>1, <1>3, <1>5, <1>8 DEF Served, Idle

\* Whoever calls flush() joins an orderly line, with everything admitted so far for its target.
LEMMA FlushCaller ==
  ASSUME Queued, Served, NEW f \in Flush, NEW p, NEW w, NEW o, FlushStep(f, p, w, o)
  PROVE \E a, t :
          /\ a \in 1..MaxAdmissions /\ a = admissions' /\ t = target' /\ admissions <= a
          /\ t = [target EXCEPT ![f] = a] /\ Orderly(w, t, o, a)
<1>1. /\ target[f] = 0 /\ admissions' \in 0..MaxAdmissions
      /\ target' = [target EXCEPT ![f] = admissions']
      /\ \/ w = Append(waiters, f) /\ o = outcome
         \/ w = waiters /\ o = [outcome EXCEPT ![f] = -1]
      /\ \/ Rescans /\ admissions' = admissions + 1
         \/ ~Rescans /\ admissions' = admissions
  BY DEF FlushStep
<1>2. admissions \in Nat /\ MaxAdmissions \in Nat
  BY AdapterAssumption DEF Queued, Admissible
<1>3. PICK a, t : a = admissions' /\ t = target'
  OBVIOUS
<1>4. a \in 1..MaxAdmissions /\ admissions <= a
  <2>1. CASE Rescans
    BY <1>1, <1>2, <1>3, <2>1
  <2>2. CASE HasPending(pending) /\ ~Rescans
    BY <1>1, <1>2, <1>3, <2>2, PendingCounts
  <2>3. CASE ~Idle /\ ~Rescans
    BY <1>1, <1>2, <1>3, <2>3 DEF Served
  <2> QED
    BY <2>1, <2>2, <2>3 DEF Rescans
<1>5. Orderly(waiters, target, outcome, admissions) /\ admissions \in Int
  BY <1>2 DEF Served
<1>6. t = [target EXCEPT ![f] = a]
  BY <1>1, <1>3
<1>7. Orderly(w, t, o, a)
  BY <1>1, <1>4, <1>5, <1>6, FlushOrderly
<1> QED
  BY <1>3, <1>4, <1>6, <1>7

LEMMA FlushServed ==
  ASSUME Queued, Served, NEW f \in Flush, FlushCalls(f)
  PROVE Served'
<1>0. PICK p, w, o : FlushStep(f, p, w, o)
  BY FlushShape, Zenon
<1>1. /\ state = "accepting" /\ target[f] = 0 /\ admissions' \in 0..MaxAdmissions
      /\ UNCHANGED <<state, last, now>>
      /\ target' = [target EXCEPT ![f] = admissions']
      /\ \/ w = Append(waiters, f) /\ o = outcome
         \/ w = waiters /\ o = [outcome EXCEPT ![f] = -1]
      /\ \/ p \in Pendings /\ HasPending(p)
         \/ p = pending /\ ~HasPending(p) /\ ~Idle
      /\ \/ Rescans /\ p = Rescan /\ admissions' = admissions + 1 /\ admissions < MaxAdmissions
         \/ ~Rescans /\ p = pending /\ admissions' = admissions
      /\ \/ /\ last >= admissions' /\ outcome' = [outcome EXCEPT ![f] = last] /\ pending' = p
            /\ UNCHANGED <<active, waiters>>
         \/ Idle /\ StartCycle(p, admissions', w, target', o)
         \/ ~Idle /\ waiters' = w /\ outcome' = o /\ UNCHANGED queue
  BY <1>0 DEF FlushStep
<1>2. admissions \in Nat /\ MaxAdmissions \in Nat /\ last \in 0..MaxAdmissions
  BY AdapterAssumption DEF Queued, Admissible
<1>3. PICK a, t :
          /\ a \in 1..MaxAdmissions /\ a = admissions' /\ t = target' /\ admissions <= a
          /\ t = [target EXCEPT ![f] = a] /\ Orderly(w, t, o, a)
  BY <1>0, FlushCaller
<1>4. a \in 1..MaxAdmissions /\ admissions <= a
  BY <1>3
<1>5. Orderly(waiters, target, outcome, admissions) /\ admissions \in Int
  BY <1>2 DEF Served
<1>6. t = [target EXCEPT ![f] = a]
  BY <1>3
<1>7. Orderly(w, t, o, a)
  BY <1>3
<1>8. CASE Idle /\ StartCycle(p, admissions', w, target', o)
  <2>1. StartCycle(p, a, w, t, o) /\ p \in Pendings
    BY <1>1, <1>3, <1>8
  <2> QED
    BY <1>1, <1>3, <1>4, <1>7, <2>1, StartServed
<1>9. CASE ~Idle /\ waiters' = w /\ outcome' = o /\ UNCHANGED queue
  <2>1. admissions' = admissions /\ a = admissions /\ Covered' = Covered /\ ~Idle'
    BY <1>1, <1>3, <1>9 DEF Rescans, queue, Covered, Idle
  <2>2. Covered = a
    <3>1. CASE HasPending(pending)
      BY <2>1, <3>1 DEF Covered
    <3>2. CASE ~HasPending(pending)
      BY <1>1, <1>9, <2>1, <3>2 DEF Covered, Queued
    <3> QED
      BY <3>1, <3>2
  <2>3. \A i \in 1..Len(w) : t[w[i]] <= a
    BY <1>7 DEF Orderly
  <2> QED
    BY <1>1, <1>3, <1>4, <1>7, <1>9, <2>1, <2>2, <2>3 DEF Served
<1>10. CASE last >= admissions' /\ outcome' = [outcome EXCEPT ![f] = last] /\ pending' = p /\ UNCHANGED <<active, waiters>>
  <2>1. PICK x : x = [outcome EXCEPT ![f] = -1]
    OBVIOUS
  <2>2. Orderly(waiters, t, x, a)
    BY <1>1, <1>4, <1>5, <1>6, <2>1, FlushOrderly
  <2>3. outcome' \in [Flush -> -1..MaxAdmissions] /\ outcome'[f] = last /\ \A g \in Flush : g # f => outcome'[g] = x[g]
    BY <1>2, <1>5, <1>10, <2>1 DEF Orderly
  <2>4. t[f] = a /\ target \in [Flush -> 0..MaxAdmissions]
    BY <1>5, <1>6 DEF Orderly
  <2>5. \A i \in 1..Len(waiters) : waiters[i] # f /\ waiters[i] \in Flush /\ t[waiters[i]] = target[waiters[i]]
    BY <1>1, <1>5, <1>6 DEF Orderly
  <2>6. Orderly(waiters', t, outcome', a)
    BY <1>2, <1>3, <1>4, <1>10, <2>2, <2>3, <2>4, <2>5, SMTT(30) DEF Orderly
  <2>7. \A i \in 1..Len(waiters) : t[waiters[i]] <= Covered'
    <3>1. CASE HasPending(p)
      <4>1. Covered' = a
        BY <1>3, <1>10, <3>1 DEF Covered
      <4> QED
        BY <2>2, <2>5, <4>1 DEF Orderly
    <3>2. CASE ~HasPending(p)
      <4>1. Covered' = Covered
        BY <1>1, <1>10, <3>2 DEF Covered, Rescans
      <4> QED
        BY <2>5, <4>1 DEF Served
    <3> QED
      BY <3>1, <3>2
  <2> QED
    BY <1>1, <1>3, <1>4, <1>10, <2>6, <2>7 DEF Served
<1> QED
  BY <1>1, <1>8, <1>9, <1>10

LEMMA RestServed ==
  ASSUME Queued, Served, Closes \/ CancelledCycleEnds \/ TargetCloses \/ Tick \/ Ended \/ UNCHANGED vars
  PROVE Served'
<1>1. CASE Closes
  <2>1. /\ waiters' = <<>> /\ UNCHANGED <<admissions, active, target>>
        /\ outcome' = [f \in Flush |-> IF \E i \in 1..Len(waiters) : waiters[i] = f THEN -1 ELSE outcome[f]]
    BY <1>1 DEF Closes
  <2>2. /\ outcome \in [Flush -> -1..MaxAdmissions] /\ target \in [Flush -> 0..MaxAdmissions]
        /\ \A f \in Flush : target[f] <= admissions /\ (target[f] = 0 => outcome[f] = 0)
                            /\ (outcome[f] > 0 => outcome[f] >= target[f])
        /\ \A i \in 1..Len(waiters) : target[waiters[i]] # 0
    BY DEF Served, Orderly
  <2>3. outcome' \in [Flush -> -1..MaxAdmissions]
    BY <2>1, <2>2, AdapterAssumption
  <2>4. \A f \in Flush : (target[f] = 0 => outcome'[f] = 0) /\ (outcome'[f] > 0 => outcome'[f] >= target[f])
    BY <2>1, <2>2
  <2>5. <<>> \in Seq(Flush) /\ Len(<<>>) = 0
    OBVIOUS
  <2>6. Sorted(<<>>, target) /\ \A i \in 1..Len(<<>>) : FALSE
    BY <2>5 DEF Sorted
  <2>7. Orderly(<<>>, target, outcome', admissions)
    BY <2>2, <2>3, <2>4, <2>5, <2>6 DEF Orderly
  <2> QED
    BY <2>1, <2>6, <2>7 DEF Served, Idle
<1>2. CASE CancelledCycleEnds
  <2>1. state = "closing" /\ active' = NoBatch /\ UNCHANGED <<state, admissions, pending, waiters, target, outcome>>
    BY <1>2 DEF CancelledCycleEnds, calls
  <2>2. waiters = <<>> /\ Len(waiters) = 0 /\ Idle'
    BY <2>1 DEF Served, Idle
  <2>3. \A i \in 1..Len(waiters) : FALSE
    BY <2>2
  <2> QED
    BY <2>1, <2>2, <2>3 DEF Served
<1>3. CASE TargetCloses
  <2>1. state = "closing" /\ UNCHANGED <<admissions, pending, active, waiters, target, outcome>>
    BY <1>3 DEF TargetCloses, queue, calls
  <2> QED
    BY <2>1 DEF Served, Covered, Idle
<1>4. CASE Tick \/ Ended \/ UNCHANGED vars
  BY <1>4 DEF Tick, Ended, vars, queue, calls, Served, Covered, Idle
<1> QED
  BY <1>1, <1>2, <1>3, <1>4

LEMMA ServedKeeps ==
  ASSUME Queued, Served, [Next]_vars
  PROVE Served'
<1>1. Queued'
  BY QueuedKeeps
<1> QED
  BY <1>1, NotifyServed, TimerServed, CycleServed, FlushServed, RestServed DEF Next

LEMMA ServedInit ==
  ASSUME Init
  PROVE Served
<1>1. /\ admissions = 0 /\ waiters = <<>> /\ target = [f \in Flush |-> 0] /\ outcome = [f \in Flush |-> 0]
      /\ active = NoBatch
  BY DEF Init
<1>2. Idle /\ waiters \in Seq(Flush) /\ Len(waiters) = 0
  BY <1>1 DEF Idle
<1>3. Sorted(waiters, target) /\ \A i \in 1..Len(waiters) : FALSE
  BY <1>2 DEF Sorted
<1>4. /\ target \in [Flush -> 0..MaxAdmissions] /\ outcome \in [Flush -> -1..MaxAdmissions]
      /\ \A f \in Flush : target[f] = 0 /\ outcome[f] = 0
  BY <1>1, AdapterAssumption
<1> QED
  BY <1>1, <1>2, <1>3, <1>4 DEF Served, Orderly

LEMMA Invariant == Spec => [](Queued /\ Served)
<1>1. Init => Queued /\ Served
  BY QueuedInit, ServedInit
<1>2. Queued /\ Served /\ [Next]_vars => Queued' /\ Served'
  BY QueuedKeeps, ServedKeeps
<1> QED
  BY <1>1, <1>2, PTL DEF Spec

-----------------------------------------------------------------------------
(* The byte count of a batch, a recursive sum over its hints, counts cells:  *)
(* a hint of weight w has the cells <<hint, 1>> ... <<hint, w>>.             *)

Weight(hint) == 2 * Size[hint[1]]
Cells(s) == {cell \in Hints \X Nat : cell[1] \in s /\ cell[2] \in 1..Weight(cell[1])}
Bytes(s) == MapThenSumSet(LAMBDA hint : 2 * Size[hint[1]], s)

\* A batch of one hint has as many cells as the hint weighs.
LEMMA CellsOfOne ==
  ASSUME NEW h \in Hints
  PROVE  IsFiniteSet(Cells({h})) /\ Cardinality(Cells({h})) = Weight(h) /\ Weight(h) \in Nat
<1>1. Weight(h) \in Nat
  BY AdapterAssumption DEF Weight, Hints
<1>2. Cells({h}) = {h} \X (1..Weight(h))
  BY <1>1 DEF Cells
<1>3. IsFiniteSet(1..Weight(h)) /\ Cardinality(1..Weight(h)) = Weight(h)
  BY <1>1, FS_Interval
<1>4. IsFiniteSet({h}) /\ Cardinality({h}) = 1
  BY FS_Singleton
<1>5. IsFiniteSet({h} \X (1..Weight(h))) /\ Cardinality({h} \X (1..Weight(h))) = 1 * Weight(h)
  BY <1>3, <1>4, FS_Product
<1> QED
  BY <1>1, <1>2, <1>5

\* Finitely many hints have finitely many cells.
LEMMA CellsFinite ==
  ASSUME NEW s \in SUBSET Hints, IsFiniteSet(s)
  PROVE  IsFiniteSet(Cells(s))
<1> DEFINE f == [h \in s |-> Cells({h})]
           T == {Cells({h}) : h \in s}
<1>1. f \in Surjection(s, T)
  BY DEF Surjection
<1>2. IsFiniteSet(T)
  <2> HIDE DEF f, T
  <2> QED
    BY <1>1, FS_Surjection
<1>3. \A t \in T : IsFiniteSet(t)
  BY CellsOfOne
<1>4. IsFiniteSet(UNION T)
  <2> HIDE DEF T
  <2> QED
    BY <1>2, <1>3, FS_UNION
<1>5. Cells(s) = UNION T
  BY DEF Cells
<1> QED
  BY <1>4, <1>5

\* One more hint adds its weight.
LEMMA CellsGrow ==
  ASSUME NEW s \in SUBSET Hints, IsFiniteSet(s), NEW h \in Hints, h \notin s
  PROVE  Cardinality(Cells(s \cup {h})) = Weight(h) + Cardinality(Cells(s))
<1>1. Cells(s \cup {h}) = Cells(s) \cup Cells({h}) /\ Cells(s) \cap Cells({h}) = {}
  BY DEF Cells
<1>2. IsFiniteSet(Cells(s)) /\ IsFiniteSet(Cells({h})) /\ Cardinality(Cells({h})) = Weight(h)
      /\ Weight(h) \in Nat
  BY CellsFinite, CellsOfOne
<1>3. PICK old, new, weight : old = Cells(s) /\ new = Cells({h}) /\ weight = Weight(h)
  OBVIOUS
<1>4. /\ IsFiniteSet(old) /\ IsFiniteSet(new) /\ Cardinality(new) = weight /\ weight \in Nat
      /\ old \cap new = {} /\ Cells(s \cup {h}) = old \cup new
  BY <1>1, <1>2, <1>3
<1>5. Cardinality({}) = 0 /\ Cardinality(old) \in Nat
  BY <1>4, FS_EmptySet, FS_CardinalityType
<1>6. Cardinality(old \cup new) = Cardinality(old) + Cardinality(new) - Cardinality(old \cap new)
  BY <1>4, FS_Union
<1>7. Cardinality(old \cup new) = weight + Cardinality(old)
  <2>1. Cardinality(old \cap new) = 0
    BY <1>4, <1>5
  <2>2. PICK m, n : m = Cardinality(old) /\ n = Cardinality(old \cup new)
    OBVIOUS
  <2>3. n = m + weight - 0 /\ m \in Nat /\ weight \in Nat
    BY <1>4, <1>5, <1>6, <2>1, <2>2
  <2>4. n = weight + m
    BY <2>3
  <2> QED
    BY <2>2, <2>4
<1> QED
  BY <1>3, <1>4, <1>7

\* What the recursive sum says of each subset, given its values on the smaller ones.
Chosen(t) == CHOOSE h \in t : TRUE
SumStep(sum, t) == IF t = {} THEN 0 ELSE Weight(Chosen(t)) + sum[t \ {Chosen(t)}]
SumOver(s) == CHOOSE sum : sum = [t \in SUBSET s |-> SumStep(sum, t)]

\* The number of cells satisfies the recursion.
LEMMA CellsSum ==
  ASSUME NEW s \in SUBSET Hints, IsFiniteSet(s), NEW count, count = [t \in SUBSET s |-> Cardinality(Cells(t))]
  PROVE  count = [t \in SUBSET s |-> SumStep(count, t)]
<1> SUFFICES ASSUME NEW t \in SUBSET s PROVE Cardinality(Cells(t)) = SumStep(count, t)
  OBVIOUS
<1>1. CASE t = {}
  <2>1. Cells(t) = {}
    BY <1>1 DEF Cells
  <2> QED
    BY <1>1, <2>1, FS_EmptySet DEF SumStep
<1>2. CASE t # {}
  <2> DEFINE h == Chosen(t)
             r == t \ {Chosen(t)}
  <2>1. h \in t
    BY <1>2 DEF Chosen
  <2>2. r \in SUBSET s /\ r \in SUBSET Hints /\ IsFiniteSet(r) /\ h \in Hints /\ h \notin r /\ t = r \cup {h}
    BY <2>1, FS_Subset
  <2> HIDE DEF h, r
  <2>3. Cardinality(Cells(t)) = Weight(h) + Cardinality(Cells(r))
    BY <2>2, CellsGrow
  <2>4. count[r] = Cardinality(Cells(r))
    BY <2>2
  <2> QED
    BY <1>2, <2>3, <2>4 DEF SumStep, h, r
<1> QED
  BY <1>1, <1>2

\* A nonempty family of finite sets has a member with no smaller one below it.
LEMMA Minimal ==
  ASSUME NEW S, NEW T \in SUBSET FiniteSubsetsOf(S), T # {}
  PROVE \E x \in T : \A y \in T : ~(y \subseteq x /\ y # x)
<1>1. PICK x \in T : \A y \in T : ~(<<y, x>> \in StrictSubsetOrdering(S))
  BY FS_StrictSubsetOrderingWellFounded, WFMin
<1>2. \A y \in T : y \in SUBSET S 
  BY DEF FiniteSubsetsOf
<1> QED
  BY <1>1, <1>2 DEF StrictSubsetOrdering

\* Nothing else does, so the sum is the number of cells.
LEMMA SumIsCells ==
  ASSUME NEW s \in SUBSET Hints, IsFiniteSet(s)
  PROVE  Bytes(s) = Cardinality(Cells(s))
<1>1. PICK sum : sum = SumOver(s)
  OBVIOUS
<1>2. PICK count : count = [t \in SUBSET s |-> Cardinality(Cells(t))]
  OBVIOUS
<1>3. count = [t \in SUBSET s |-> SumStep(count, t)]
  BY <1>2, CellsSum
<1>4. sum = [t \in SUBSET s |-> SumStep(sum, t)]
  BY <1>1, <1>3 DEF SumOver
<1> DEFINE W == {t \in SUBSET s : sum[t] # count[t]}
<1>5. W = {}
  <2> SUFFICES ASSUME W # {} PROVE FALSE
    OBVIOUS
  <2>1. W \in SUBSET FiniteSubsetsOf(s)
    BY FS_Subset DEF FiniteSubsetsOf
  <2>2. PICK x \in W : \A y \in W : ~(y \subseteq x /\ y # x)
    <3> HIDE DEF W
    <3> QED
      BY <2>1, Minimal
  <2>3. x \in SUBSET s /\ sum[x] = SumStep(sum, x) /\ count[x] = SumStep(count, x)
    BY <1>3, <1>4
  <2>4. x # {}
    BY <2>2, <2>3 DEF SumStep
  <2>5. Chosen(x) \in x
    BY <2>4 DEF Chosen
  <2>6. sum[x \ {Chosen(x)}] = count[x \ {Chosen(x)}]
    BY <2>2, <2>5
  <2> QED
    BY <2>2, <2>3, <2>4, <2>6 DEF SumStep
<1>6. sum[s] = count[s] /\ count[s] = Cardinality(Cells(s))
  BY <1>2, <1>5
<1>7. Bytes(s) = SumOver(s)[s]
  BY DEF Bytes, MapThenSumSet, MapThenFoldSet, SumOver, SumStep, Chosen, Weight
<1> QED
  BY <1>1, <1>6, <1>7

-----------------------------------------------------------------------------
(* The limits: hints, bytes and waiters never outgrow them, and a rescan,    *)
(* which names no path, weighs nothing.                                      *)

Light(hints, bytes) ==
  /\ hints \in SUBSET Hints /\ IsFiniteSet(hints) /\ Cardinality(hints) <= MaximumPendingHints
  /\ bytes = Cardinality(Cells(hints))
Limited == Light(pending.hints, pending.bytes) /\ Len(waiters) <= MaximumPendingHints

LEMMA NothingIsLight ==
  Light({}, 0) /\ NothingPending.hints = {} /\ NothingPending.bytes = 0
<1>1. Cells({}) = {}
  BY DEF Cells
<1> QED
  BY <1>1, FS_EmptySet, AdapterAssumption DEF Light, NothingPending

LEMMA AdmittedWeight ==
  ASSUME pending \in Pendings, NEW full \in Flags, NEW hint, NEW bytes, NEW q,
         q = Admitted(pending, full, hint, bytes)
  PROVE  /\ full => q.hints = {} /\ q.bytes = 0
         /\ ~full /\ pending.full => q.hints = pending.hints /\ q.bytes = pending.bytes
         /\ ~full /\ ~pending.full => q.hints = pending.hints \cup hint /\ q.bytes = pending.bytes + bytes
<1>1. PICK a, z, g, h, b, x, y :
        pending = [first |-> a, size |-> z, full |-> g, hints |-> h, bytes |-> b, firstAt |-> x, latestAt |-> y]
  BY DEF Pendings
<1>2. /\ q.hints = (IF full THEN {} ELSE IF pending.full THEN pending.hints ELSE pending.hints \cup hint)
      /\ q.bytes = (IF full THEN 0 ELSE IF pending.full THEN pending.bytes ELSE pending.bytes + bytes)
  BY <1>1 DEF Admitted
<1> QED
  BY <1>2

LEMMA RescanLight ==
  ASSUME pending \in Pendings, NEW q, q = Rescan
  PROVE  Light(q.hints, q.bytes)
<1>1. PICK full, hint, bytes : full \in Flags /\ full = TRUE /\ hint = {} /\ bytes = 0
  BY DEF Flags
<1>2. q = Admitted(pending, full, hint, bytes)
  BY <1>1 DEF Rescan
<1>3. full \in Flags
  BY <1>1
<1>4. /\ full => q.hints = {} /\ q.bytes = 0
      /\ ~full /\ pending.full => q.hints = pending.hints /\ q.bytes = pending.bytes
  BY <1>2, <1>3, AdmittedWeight
<1> QED
  BY <1>1, <1>4, NothingIsLight, Zenon

\* What a notification makes of the batch stays within the limits.
LEMMA ChangedLight ==
  ASSUME Queued, Limited, NEW path \in Path, NEW alias \in Alias, NEW q, q = Changed(path, alias)
  PROVE  Light(q.hints, q.bytes)
<1>1. pending \in Pendings /\ Light(pending.hints, pending.bytes)
  BY DEF Queued, Admissible, Limited
<1>2. CASE q = Rescan
  BY <1>1, <1>2, RescanLight
<1>3. CASE q = Admitted(pending, FALSE, {}, 0)
  <2>1. pending.bytes + 0 = pending.bytes /\ pending.hints \cup {} = pending.hints
    BY <1>1, AdapterAssumption DEF Pendings
  <2>2. PICK full, hint, bytes : full \in Flags /\ full = FALSE /\ hint = {} /\ bytes = 0
    BY DEF Flags
  <2>3. q = Admitted(pending, full, hint, bytes)
    BY <1>3, <2>2
  <2>4. /\ ~full /\ pending.full => q.hints = pending.hints /\ q.bytes = pending.bytes
        /\ ~full /\ ~pending.full => q.hints = pending.hints \cup hint /\ q.bytes = pending.bytes + bytes
    <3>1. full \in Flags
      BY <2>2
    <3> QED
      BY <1>1, <2>3, <3>1, AdmittedWeight
  <2>5. q.hints = pending.hints /\ q.bytes = pending.bytes
    BY <2>1, <2>2, <2>4, Zenon
  <2> QED
    BY <1>1, <2>5
<1>4. CASE q = Admitted(pending, FALSE, {<<path, alias>>}, 2 * Size[path]) /\ ~Known(path) /\ ~Overflows(path)
  <2>1. PICK full, hint, bytes : full \in Flags /\ full = FALSE /\ hint = <<path, alias>> /\ bytes = Weight(hint)
    BY DEF Flags
  <2>2. q = Admitted(pending, full, {hint}, bytes)
    BY <1>4, <2>1 DEF Weight
  <2>3. CASE pending.full
    <3>1. q.hints = pending.hints /\ q.bytes = pending.bytes
      BY <1>1, <2>3, <2>1, <2>2, AdmittedWeight
    <3> QED
      BY <1>1, <3>1
  <2>4. CASE ~pending.full
    <3>1. q.hints = pending.hints \cup {hint} /\ q.bytes = pending.bytes + Weight(hint)
      BY <1>1, <2>4, <2>1, <2>2, AdmittedWeight
    <3>2. hint \in Hints /\ hint \notin pending.hints
      BY <1>4, <2>1 DEF Known, Named, Hints
    <3>3. Cardinality(pending.hints) < MaximumPendingHints
      <4>1. Cardinality(pending.hints) \in Nat
        BY <1>1, FS_CardinalityType DEF Light
      <4> QED
        BY <1>4, <2>4, <4>1, AdapterAssumption DEF Overflows
    <3>4. /\ IsFiniteSet(pending.hints \cup {hint})
          /\ Cardinality(pending.hints \cup {hint}) = Cardinality(pending.hints) + 1
      BY <1>1, <3>2, FS_AddElement DEF Light
    <3>5. Cardinality(Cells(pending.hints \cup {hint})) = Weight(hint) + Cardinality(Cells(pending.hints))
      BY <1>1, <3>2, CellsGrow DEF Light
    <3>6. Weight(hint) \in Nat /\ Cardinality(Cells(pending.hints)) \in Nat /\ Cardinality(pending.hints) \in Nat
      BY <1>1, <3>2, CellsOfOne, CellsFinite, FS_CardinalityType DEF Light
    <3> QED
      BY <1>1, <3>1, <3>2, <3>3, <3>4, <3>5, <3>6, AdapterAssumption DEF Light
  <2> QED
    BY <2>3, <2>4
<1> QED
  BY <1>2, <1>3, <1>4 DEF Changed

\* A cycle takes the whole batch, and settling only shortens the line.
LEMMA StartLimited ==
  ASSUME NEW p, NEW u \in Int, NEW w, NEW t, NEW o, StartCycle(p, u, w, t, o), Orderly(w, t, o, u),
         Len(w) <= MaximumPendingHints
  PROVE  Limited'
<1>1. /\ pending' = NothingPending /\ w \in Seq(Flush) /\ t \in [Flush -> Int] /\ o \in [Flush -> Int]
      /\ Sorted(w, t) /\ \A i \in 1..Len(w) : o[w[i]] = 0
  BY DEF StartCycle, Orderly
<1>2. Len(waiters') <= Len(w) /\ Len(waiters') \in Nat /\ Len(w) \in Nat
  <2>1. CASE waiters' = w
    BY <1>1, <2>1
  <2>2. CASE Settle(w, t, o, u, -1)
    <3>1. PICK v \in Int : v = -1
      OBVIOUS
    <3>2. Settle(w, t, o, u, v)
      BY <2>2, <3>1
    <3>3. waiters' \in Seq(Flush) /\ Len(waiters') <= Len(w)
      BY <1>1, <3>2, SettleKeeps
    <3> QED
      BY <1>1, <3>3
  <2> QED
    BY <2>1, <2>2 DEF StartCycle
<1> QED
  BY <1>1, <1>2, NothingIsLight, AdapterAssumption DEF Limited

LEMMA LimitedKeeps ==
  ASSUME Queued, Served, Limited, [Next]_vars
  PROVE  Limited'
<1>1. /\ pending \in Pendings /\ admissions \in Int /\ MaximumPendingHints \in Nat
      /\ waiters \in Seq(Flush) /\ Len(waiters) \in Nat /\ target \in [Flush -> Int]
      /\ outcome \in [Flush -> Int] /\ Sorted(waiters, target) /\ \A i \in 1..Len(waiters) : outcome[waiters[i]] = 0
  BY AdapterAssumption DEF Queued, Admissible, Served, Orderly
<1>2. CASE Notify
  <2>1. waiters' = waiters
    BY <1>2 DEF Notify, calls
  <2>2. PICK path \in Path : pending' = Rescan \/ \E alias \in Alias : pending' = Changed(path, alias)
    BY <1>2 DEF Notify
  <2>3. Light(pending'.hints, pending'.bytes)
    BY <1>1, <2>2, RescanLight, ChangedLight
  <2> QED
    BY <2>1, <2>3 DEF Limited
<1>3. CASE TimerFires
  <2>1. PICK w, t, o, u, p : w = waiters /\ t = target /\ o = outcome /\ u = admissions /\ p = pending
    OBVIOUS
  <2>2. StartCycle(p, u, w, t, o) /\ Orderly(w, t, o, u) /\ u \in Int /\ Len(w) <= MaximumPendingHints
    BY <1>1, <1>3, <2>1 DEF TimerFires, Limited, Served
  <2> QED
    BY <2>2, StartLimited
<1>4. CASE CycleEnds
  <2>1. pending' = pending /\ \E v \in {-1, active.latest} : Settle(waiters, target, outcome, active.latest, v)
    BY <1>4 DEF CycleEnds
  <2>2. PICK v \in {-1, active.latest} : Settle(waiters, target, outcome, active.latest, v)
    BY <2>1
  <2>3. active.latest \in Int /\ v \in Int
    BY DEF Queued, Batches
  <2>4. waiters' \in Seq(Flush) /\ Len(waiters') <= Len(waiters)
    BY <1>1, <2>2, <2>3, SettleKeeps
  <2>5. Len(waiters') \in Nat
    BY <2>4
  <2> QED
    BY <1>1, <2>1, <2>4, <2>5 DEF Limited
<1>5. ASSUME NEW f \in Flush, FlushCalls(f) PROVE Limited'
  <2>1. PICK p, w, o : FlushStep(f, p, w, o)
    BY <1>5, FlushShape, Zenon
  <2>2. /\ \/ w = Append(waiters, f) /\ ~Crowded
           \/ w = waiters
        /\ p = Rescan \/ p = pending
        /\ \/ pending' = p /\ waiters' = waiters
           \/ StartCycle(p, admissions', w, target', o)
           \/ waiters' = w /\ pending' = pending
    BY <2>1 DEF FlushStep, queue
  <2>3. Light(p.hints, p.bytes)
    BY <1>1, <2>2, RescanLight DEF Limited
  <2>4. Len(w) <= MaximumPendingHints
    <3>1. Len(Append(waiters, f)) = Len(waiters) + 1
      BY <1>1
    <3> QED
      BY <1>1, <2>2, <3>1 DEF Limited, Crowded
  <2>5. PICK a, t :
          /\ a \in 1..MaxAdmissions /\ a = admissions' /\ t = target' /\ admissions <= a
          /\ t = [target EXCEPT ![f] = a] /\ Orderly(w, t, o, a)
    BY <2>1, FlushCaller
  <2>6. CASE StartCycle(p, admissions', w, target', o)
    <3>1. StartCycle(p, a, w, t, o) /\ a \in Int
      BY <2>5, <2>6
    <3> QED
      BY <2>4, <2>5, <3>1, StartLimited
  <2>7. CASE pending' = p /\ waiters' = waiters
    BY <2>3, <2>7 DEF Limited
  <2>8. CASE waiters' = w /\ pending' = pending
    BY <2>4, <2>8 DEF Limited
  <2> QED
    BY <2>2, <2>6, <2>7, <2>8
<1>6. CASE Closes
  <2>1. pending' = NothingPending /\ waiters' = <<>>
    BY <1>6 DEF Closes
  <2> QED
    BY <1>1, <2>1, NothingIsLight DEF Limited
<1>7. CASE UNCHANGED <<pending, waiters>>
  BY <1>7 DEF Limited
<1> QED
  BY <1>2, <1>3, <1>4, <1>5, <1>6, <1>7 DEF Next, CancelledCycleEnds, TargetCloses, Tick, Ended, vars, queue, calls

-----------------------------------------------------------------------------
(* The theorems. *)

\* Whatever is admitted is in the pending batch, which has a timer within the maximum delay or a running
\* cycle to follow it, and a closed adapter holds nothing (#schedule, #finishCycle and close of
\* analyzer-watcher.ts).
THEOREM NothingIsStranded == Spec => []NothingStranded
<1>1. ASSUME Queued, Served PROVE NothingStranded
  <2>1. /\ pending \in [first : 0..MaxAdmissions, size : 0..MaxAdmissions, full : BOOLEAN,
                        hints : SUBSET (Path \X Alias), bytes : 0..MaximumPendingBytes,
                        firstAt : 0..MaxNow, latestAt : 0..MaxNow]
    BY <1>1 DEF Queued, Admissible, Pendings, Flags, Hints
  <2>2. waiters \in Seq(Flush) /\ target \in [Flush -> 0..MaxAdmissions] /\ outcome \in [Flush -> -1..MaxAdmissions]
    BY <1>1 DEF Served, Orderly
  <2>3. TypeOK
    BY <1>1, <2>1, <2>2 DEF TypeOK, Queued, Admissible
  <2>4. ClosedIsQuiet
    BY <1>1 DEF ClosedIsQuiet, Queued, Served
  <2> QED
    BY <1>1, <2>3, <2>4 DEF NothingStranded, Queued
<1> QED
  BY <1>1, Invariant, PTL

\* flush() resolves only with a cycle that began after everything admitted before the call, and every
\* caller that still waits is covered by the running cycle or the next one (#settleWaiters).
THEOREM FlushesAreCurrent == Spec => []FlushIsCurrent
<1>1. ASSUME Queued, Served PROVE FlushIsCurrent
  <2>1. ResolvedIsCurrent
    BY <1>1 DEF ResolvedIsCurrent, Served, Orderly
  <2>2. WaitersAreServed
    BY <1>1 DEF WaitersAreServed, Served, Orderly, Sorted, Covered
  <2> QED
    BY <2>1, <2>2 DEF FlushIsCurrent
<1> QED
  BY <1>1, Invariant, PTL

\* A batch names every path that changed since the last one, or is a rescan, and neither it nor the line of
\* waiters outgrows its limit; the bytes counted are those of the hints (#accept and flush).
THEOREM BatchesAreFaithful == Spec => []BatchIsFaithful
<1>1. Init => Limited
  <2> SUFFICES ASSUME Init PROVE Limited
    OBVIOUS
  <2>1. pending = NothingPending /\ waiters = <<>> /\ Len(<<>>) = 0
    BY DEF Init
  <2> QED
    BY <2>1, NothingIsLight, AdapterAssumption DEF Limited
<1>2. Queued /\ Served /\ Limited /\ [Next]_vars => Limited'
  BY LimitedKeeps
<1>3. Queued /\ Limited => BatchIsFaithful
  <2> SUFFICES ASSUME Queued, Limited PROVE BatchIsFaithful
    OBVIOUS
  <2>1. pending.bytes = Bytes(pending.hints)
    BY SumIsCells DEF Limited, Light
  <2>2. pending.bytes <= MaximumPendingBytes
    BY AdapterAssumption DEF Queued, Admissible, Pendings
  <2>3. WithinLimits
    BY <2>1, <2>2 DEF WithinLimits, Limited, Light, Bytes
  <2> QED
    BY <2>3 DEF BatchIsFaithful, Queued
<1> QED
  BY <1>1, <1>2, <1>3, Invariant, PTL DEF Spec
===============================================================================
