------------------------ MODULE ContainerPoolProofs ------------------------
(***************************************************************************)
(* Theorems about ContainerPool, for every set of sessions, every fairness *)
(* key and every cap, checked by TLAPS.                                    *)
(***************************************************************************)
EXTENDS ContainerPool, FiniteSetTheorems, WellFoundedInduction, TLAPS

(***************************************************************************)
(* Induction over Nat, on a set instead of a predicate: the least number   *)
(* outside of the set is neither 0 nor a successor.                        *)
(***************************************************************************)
LEMMA NatInSet ==
    ASSUME NEW T, 0 \in T, \A n \in Nat : n \in T => n + 1 \in T
    PROVE  \A n \in Nat : n \in T
  <1> DEFINE Bad == Nat \ T
  <1>1. SUFFICES ASSUME Bad # {} PROVE FALSE
    OBVIOUS
  <1>2. IsWellFoundedOn(OpToRel(<, Nat), Nat)
    BY NatLessThanWellFounded
  <1>3. PICK n \in Bad : \A m \in Bad : <<m, n>> \notin OpToRel(<, Nat)
    <2> HIDE DEF Bad
    <2>1. Bad \subseteq Nat
      BY DEF Bad
    <2> QED
      BY <1>1, <1>2, <2>1, WFMin
  <1>4. \A m \in Bad : ~ (m < n)
    BY <1>3 DEF OpToRel
  <1>5. n # 0 /\ n - 1 \in Nat /\ n - 1 < n
    OBVIOUS
  <1>6. n - 1 \in T
    BY <1>4, <1>5
  <1> QED
    BY <1>5, <1>6

(***************************************************************************)
(* Without.                                                                *)
(***************************************************************************)
\* kept is a table of the prefixes of q without S.
IsKept(kept, q, S) ==
    kept = [n \in 0 .. Len(q) |->
               IF n = 0 THEN <<>>
               ELSE IF q[n] \in S THEN kept[n - 1] ELSE Append(kept[n - 1], q[n])]

\* Such a table exists: it is built up prefix by prefix.
LEMMA KeptExists ==
    ASSUME NEW q \in Seq(Sessions), NEW S
    PROVE  \E kept : IsKept(kept, q, S)
  <1> DEFINE Step(g, n) == IF n = 0 THEN <<>>
                           ELSE IF q[n] \in S THEN g[n - 1] ELSE Append(g[n - 1], q[n])
             T == {n \in Nat : \E g : /\ g = [i \in 0 .. n |-> g[i]]
                                      /\ \A i \in 0 .. n : g[i] = Step(g, i)}
  <1>1. 0 \in T
    <2> DEFINE g == [i \in 0 .. 0 |-> <<>>]
    <2>1. g = [i \in 0 .. 0 |-> g[i]] /\ \A i \in 0 .. 0 : g[i] = Step(g, i)
      OBVIOUS
    <2> QED
      BY <2>1
  <1>2. ASSUME NEW n \in Nat, n \in T PROVE n + 1 \in T
    <2>1. PICK g : g = [i \in 0 .. n |-> g[i]] /\ \A i \in 0 .. n : g[i] = Step(g, i)
      BY <1>2
    <2> DEFINE h == [i \in 0 .. n + 1 |-> IF i <= n THEN g[i] ELSE Step(g, n + 1)]
    <2>2. \A i \in 0 .. n : h[i] = g[i]
      OBVIOUS
    <2>3. h[n + 1] = Step(g, n + 1)
      OBVIOUS
    <2> HIDE DEF h
    <2>4. h[n + 1] = Step(h, n + 1)
      BY <2>2, <2>3
    <2>5. ASSUME NEW i \in 0 .. n PROVE h[i] = Step(h, i)
      BY <2>1, <2>2, SMTT(40)
    <2>6. h = [i \in 0 .. n + 1 |-> h[i]]
      BY DEF h
    <2>7. \A i \in 0 .. n + 1 : h[i] = Step(h, i)
      <3>1. \A i \in 0 .. n + 1 : i \in 0 .. n \/ i = n + 1
        OBVIOUS
      <3> HIDE DEF Step
      <3> QED
        BY <2>4, <2>5, <3>1
    <2> QED
      BY <2>6, <2>7
  <1> HIDE DEF T
  <1>3. Len(q) \in T
    BY <1>1, <1>2, NatInSet
  <1>4. PICK g : g = [i \in 0 .. Len(q) |-> g[i]] /\ \A i \in 0 .. Len(q) : g[i] = Step(g, i)
    BY <1>3 DEF T
  <1>5. IsKept(g, q, S)
    BY <1>4 DEF IsKept
  <1> QED
    BY <1>5

\* Without keeps a sequence of sessions, its order's distinctness, and exactly
\* the entries that are not in S.
LEMMA WithoutFacts ==
    ASSUME NEW q \in Seq(Sessions), NEW S
    PROVE  /\ Without(q, S) \in Seq(Sessions)
           /\ ToSet(Without(q, S)) = ToSet(q) \ S
           /\ (\A i, j \in DOMAIN q : q[i] = q[j] => i = j)
              => \A i, j \in DOMAIN Without(q, S) : Without(q, S)[i] = Without(q, S)[j] => i = j
  <1> DEFINE kept == CHOOSE g : IsKept(g, q, S)
  <1>1. Without(q, S) = kept[Len(q)]
    BY DEF Without, IsKept
  <1>2. IsKept(kept, q, S)
    BY KeptExists
  <1> HIDE DEF kept
  <1> DEFINE Distinct(r) == \A i, j \in 1 .. Len(r) : r[i] = r[j] => i = j
             Good(n) == /\ kept[n] \in Seq(Sessions)
                        /\ \A i \in 1 .. Len(kept[n]) : /\ kept[n][i] \notin S
                                                        /\ \E j \in 1 .. n : q[j] = kept[n][i]
                        /\ \A j \in 1 .. n : q[j] \notin S => \E i \in 1 .. Len(kept[n]) : kept[n][i] = q[j]
                        /\ Distinct(q) => Distinct(kept[n])
             T == {n \in Nat : n <= Len(q) => Good(n)}
  <1>3. kept[0] = <<>>
    BY <1>2 DEF IsKept
  <1>4. 0 \in T
    <2>1. 1 .. 0 = {} /\ Len(kept[0]) = 0 /\ kept[0] \in Seq(Sessions)
      BY <1>3
    <2>2. Good(0)
      BY <2>1
    <2> QED
      BY <2>2
  <1>5. ASSUME NEW n \in Nat, n \in T PROVE n + 1 \in T
    <2> SUFFICES ASSUME n + 1 <= Len(q) PROVE Good(n + 1)
      OBVIOUS
    <2>1. Good(n)
      BY <1>5
    <2>2. n + 1 \in 0 .. Len(q) /\ n + 1 # 0 /\ (n + 1) - 1 = n /\ n + 1 \in 1 .. Len(q)
      OBVIOUS
    <2>3. kept[n + 1] = IF q[n + 1] \in S THEN kept[n] ELSE Append(kept[n], q[n + 1])
      BY <1>2, <2>2 DEF IsKept
    <2>4. \A j \in 1 .. n + 1 : j \in 1 .. n \/ j = n + 1
      OBVIOUS
    <2>5. CASE q[n + 1] \in S
      BY <2>1, <2>3, <2>4, <2>5
    <2>6. CASE q[n + 1] \notin S
      <3> DEFINE r == kept[n]
                 x == q[n + 1]
      <3>1. x \in Sessions /\ r \in Seq(Sessions) /\ kept[n + 1] = Append(r, x)
        BY <2>1, <2>2, <2>3, <2>6
      <3>2. /\ kept[n + 1] \in Seq(Sessions)
            /\ Len(kept[n + 1]) = Len(r) + 1 /\ Len(r) \in Nat
            /\ \A i \in 1 .. Len(r) : kept[n + 1][i] = r[i]
            /\ kept[n + 1][Len(r) + 1] = x
        BY <3>1
      <3>3. \A i \in 1 .. Len(kept[n + 1]) : i \in 1 .. Len(r) \/ i = Len(r) + 1
        BY <3>2
      <3>4. 1 .. Len(r) \subseteq 1 .. Len(kept[n + 1]) /\ Len(r) + 1 \in 1 .. Len(kept[n + 1])
        BY <3>2
      <3>5. 1 .. n \subseteq 1 .. n + 1 /\ n + 1 \in 1 .. n + 1 /\ n + 1 \notin 1 .. n /\ 1 .. n + 1 \subseteq 1 .. Len(q)
        OBVIOUS
      <3>6. \A i \in 1 .. Len(kept[n + 1]) : /\ kept[n + 1][i] \notin S
                                              /\ \E j \in 1 .. n + 1 : q[j] = kept[n + 1][i]
        BY <2>1, <2>6, <3>2, <3>3, <3>5
      <3>7. \A j \in 1 .. n + 1 : q[j] \notin S => \E i \in 1 .. Len(kept[n + 1]) : kept[n + 1][i] = q[j]
        <4>1. ASSUME NEW j \in 1 .. n, q[j] \notin S
              PROVE  \E i \in 1 .. Len(kept[n + 1]) : kept[n + 1][i] = q[j]
          <5>1. PICK i \in 1 .. Len(r) : r[i] = q[j]
            BY <2>1, <4>1
          <5> QED
            BY <3>2, <3>4, <5>1
        <4> QED
          BY <2>4, <3>2, <3>4, <4>1
      <3>8. ASSUME Distinct(q) PROVE Distinct(kept[n + 1])
        <4>1. \A i \in 1 .. Len(r) : r[i] # x
          BY <2>1, <3>5, <3>8
        <4> QED
          BY <2>1, <3>2, <3>3, <3>8, <4>1, ZenonT(60)
      <3> QED
        BY <3>2, <3>6, <3>7, <3>8
    <2> QED
      BY <2>5, <2>6
  <1> HIDE DEF T
  <1>6. Len(q) \in T
    BY <1>4, <1>5, NatInSet
  <1>7. Good(Len(q))
    <2> HIDE DEF Good
    <2>1. Len(q) \in Nat /\ Len(q) <= Len(q)
      OBVIOUS
    <2> QED
      BY <1>6, <2>1 DEF T
  <1> DEFINE w == kept[Len(q)]
  <1>8. w \in Seq(Sessions) /\ DOMAIN w = 1 .. Len(w) /\ DOMAIN q = 1 .. Len(q)
    BY <1>7
  <1>9. ToSet(w) = ToSet(q) \ S
    <2>1. ASSUME NEW x \in ToSet(w) PROVE x \in ToSet(q) \ S
      <3>1. PICK i \in 1 .. Len(w) : w[i] = x
        BY <1>8, <2>1 DEF ToSet
      <3>2. x \notin S /\ \E j \in 1 .. Len(q) : q[j] = x
        BY <1>7, <3>1
      <3> QED
        BY <1>8, <3>2 DEF ToSet
    <2>2. ASSUME NEW x \in ToSet(q) \ S PROVE x \in ToSet(w)
      <3>1. PICK j \in 1 .. Len(q) : q[j] = x
        BY <1>8, <2>2 DEF ToSet
      <3>2. PICK i \in 1 .. Len(w) : w[i] = x
        BY <1>7, <2>2, <3>1
      <3> QED
        BY <1>8, <3>2 DEF ToSet
    <2> QED
      BY <2>1, <2>2
  <1>10. (\A i, j \in DOMAIN q : q[i] = q[j] => i = j) => \A i, j \in DOMAIN w : w[i] = w[j] => i = j
    BY <1>7, <1>8
  <1> HIDE DEF w
  <1>11. Without(q, S) = w
    BY <1>1 DEF w
  <1> QED
    BY <1>8, <1>9, <1>10, <1>11

\* What appending a new entry, or putting one in front, does to a queue.
LEMMA QueueGrows ==
    ASSUME NEW q \in Seq(Sessions), NEW s \in Sessions, s \notin ToSet(q),
           \A i, j \in DOMAIN q : q[i] = q[j] => i = j,
           NEW r, r = Append(q, s) \/ r = <<s>> \o q
    PROVE  /\ r \in Seq(Sessions)
           /\ ToSet(r) = ToSet(q) \union {s}
           /\ \A i, j \in DOMAIN r : r[i] = r[j] => i = j
  <1>1. DOMAIN q = 1 .. Len(q) /\ Len(q) \in Nat
    OBVIOUS
  <1>2. \A i \in 1 .. Len(q) : q[i] # s
    BY <1>1 DEF ToSet
  <1>3. CASE r = Append(q, s)
    <2>1. r \in Seq(Sessions) /\ Len(r) = Len(q) + 1 /\ DOMAIN r = 1 .. Len(q) + 1
      BY <1>3
    <2>2. (\A i \in 1 .. Len(q) : r[i] = q[i]) /\ r[Len(q) + 1] = s
      BY <1>3
    <2>3. \A i \in 1 .. Len(q) + 1 : i \in 1 .. Len(q) \/ i = Len(q) + 1
      BY <1>1
    <2>4. 1 .. Len(q) \subseteq 1 .. Len(q) + 1 /\ Len(q) + 1 \in 1 .. Len(q) + 1
      BY <1>1
    <2>5. ToSet(r) = ToSet(q) \union {s}
      BY <1>1, <2>1, <2>2, <2>3, <2>4 DEF ToSet
    <2>6. \A i, j \in DOMAIN r : r[i] = r[j] => i = j
      BY <1>1, <1>2, <2>1, <2>2, <2>3
    <2> QED
      BY <2>1, <2>5, <2>6
  <1>4. CASE r = <<s>> \o q
    <2>1. r \in Seq(Sessions) /\ Len(r) = Len(q) + 1 /\ DOMAIN r = 1 .. Len(q) + 1
      BY <1>4
    <2>2. (\A i \in 1 .. Len(q) : r[i + 1] = q[i]) /\ r[1] = s
      BY <1>4
    <2>3. \A i \in 1 .. Len(q) + 1 : i = 1 \/ (i - 1 \in 1 .. Len(q) /\ r[i] = q[i - 1])
      BY <1>1, <2>2
    <2>4. (\A i \in 1 .. Len(q) : i + 1 \in 1 .. Len(q) + 1) /\ 1 \in 1 .. Len(q) + 1
      BY <1>1
    <2>5. ToSet(r) = ToSet(q) \union {s}
      <3>1. ASSUME NEW x \in ToSet(r) PROVE x \in ToSet(q) \union {s}
        <4>1. PICK i \in 1 .. Len(q) + 1 : r[i] = x
          BY <2>1, <3>1 DEF ToSet
        <4>2. CASE i = 1
          BY <2>2, <4>1, <4>2
        <4>3. CASE i # 1
          <5>1. PICK k : k = i - 1
            OBVIOUS
          <5>2. k \in DOMAIN q /\ q[k] = x
            BY <1>1, <2>3, <4>1, <4>3, <5>1
          <5> QED
            BY <5>2 DEF ToSet
        <4> QED
          BY <4>2, <4>3
      <3>2. ASSUME NEW x \in ToSet(q) PROVE x \in ToSet(r)
        <4>1. PICK i \in 1 .. Len(q) : q[i] = x
          BY <1>1, <3>2 DEF ToSet
        <4>2. i + 1 \in DOMAIN r /\ r[i + 1] = x
          BY <2>1, <2>2, <2>4, <4>1
        <4> QED
          BY <4>2 DEF ToSet
      <3>3. s \in ToSet(r)
        BY <2>1, <2>2, <2>4 DEF ToSet
      <3> QED
        BY <3>1, <3>2, <3>3
    <2>6. \A i, j \in DOMAIN r : r[i] = r[j] => i = j
      <3>1. ASSUME NEW i \in 1 .. Len(q) + 1, NEW j \in 1 .. Len(q) + 1, r[i] = r[j] PROVE i = j
        <4>1. CASE i = 1 \/ j = 1
          BY <1>2, <2>2, <2>3, <3>1, <4>1, ZenonT(60)
        <4>2. CASE i # 1 /\ j # 1
          <5>1. i - 1 \in 1 .. Len(q) /\ j - 1 \in 1 .. Len(q) /\ q[i - 1] = q[j - 1]
            BY <2>3, <3>1, <4>2
          <5>2. i - 1 = j - 1
            BY <1>1, <5>1
          <5> QED
            BY <1>1, <5>2
        <4> QED
          BY <4>1, <4>2
      <3> QED
        BY <2>1, <3>1
    <2> QED
      BY <2>1, <2>5, <2>6
  <1> QED
    BY <1>3, <1>4

(***************************************************************************)
(* The inductive invariant.                                                *)
(***************************************************************************)
\* TypeOK, for the part of the state that wakes and drains touch.
PoolTypes ==
    /\ active \subseteq Sessions /\ wakes \subseteq Sessions /\ joined \subseteq wakes
    /\ queue \in Seq(Sessions)
    /\ keyed \subseteq Sessions
    /\ fails \in [Sessions -> 0 .. MAX_ADMISSION_FAILURES - 1]

\* What the capacity check counts never passes the cap.
Slots ==
    /\ IsFiniteSet(active) /\ IsFiniteSet(wakes)
    /\ active \intersect wakes = {}
    /\ Cardinality(active) + Cardinality(wakes) <= Cap

\* An admission in flight is out of the queue until it fails.
Books ==
    /\ PoolTypes
    /\ Slots
    /\ QueueSound
    /\ ToSet(queue) \intersect joined = {}

\* While the host is up a session has the container of its slot, and beyond
\* that only containers that docker failed to stop.
Boxes ==
    /\ \A s \in active : boxes[s] >= 1
    /\ Up => \A s \in Sessions : boxes[s] <= (IF s \in active THEN 1 ELSE 0) + orphans
    /\ ~ Up => active = {} /\ \A s \in Sessions : boxes[s] <= 1 + orphans

Inv == TypeOK /\ Books /\ Boxes

-----------------------------------------------------------------------------
\* The books without a step of the pool.
LEMMA BooksStay == ASSUME Books, UNCHANGED <<slots, book>> PROVE Books'
  BY DEF Books, PoolTypes, Slots, QueueSound, slots, book

\* A wake of the router or the sweep keeps the books.
LEMMA WakeBooks == ASSUME NEW s \in Sessions, Books, wakeContainer(s) PROVE Books' /\ active' = active
  <1> USE DEF Books, PoolTypes
  <1>1. CASE s \in active \union wakes
    BY <1>1, BooksStay DEF wakeContainer, slots, book
  <1>2. CASE s \notin active \union wakes /\ shouldAdmitWake(active)
    <2>1. wakes' = wakes \union {s} /\ UNCHANGED <<active, book>>
      BY <1>2 DEF wakeContainer, book
    <2>2. IsFiniteSet(wakes') /\ Cardinality(wakes') = Cardinality(wakes) + 1
      BY <1>2, <2>1, FS_AddElement DEF Slots
    <2>3. Slots'
      <3>1. Cardinality(active) \in Nat /\ Cardinality(wakes) \in Nat
        BY FS_CardinalityType DEF Slots
      <3> QED
        BY <1>2, <2>1, <2>2, <3>1, PoolAssumption DEF Slots, shouldAdmitWake
    <2> QED
      BY <2>1, <2>3 DEF QueueSound, book
  <1>3. CASE s \notin active \union wakes /\ ~ shouldAdmitWake(active)
    <2>1. /\ queue' = IF s \in ToSet(queue) THEN queue ELSE Append(queue, s)
          /\ keyed' = keyed \union {s}
          /\ UNCHANGED <<active, wakes, joined, fails>>
      BY <1>3 DEF wakeContainer
    <2>2. /\ queue' \in Seq(Sessions)
          /\ ToSet(queue') = ToSet(queue) \union {s}
          /\ \A i, j \in DOMAIN queue' : queue'[i] = queue'[j] => i = j
      <3>1. CASE s \in ToSet(queue)
        BY <2>1, <3>1 DEF QueueSound
      <3>2. CASE s \notin ToSet(queue)
        BY <2>1, <3>2, QueueGrows DEF QueueSound
      <3> QED
        BY <3>1, <3>2
    <2>3. s \notin joined
      BY <1>3
    <2> QED
      BY <2>1, <2>2, <2>3 DEF Slots, QueueSound
  <1> QED
    BY <1>1, <1>2, <1>3 DEF wakeContainer

\* Forgetting sessions resets exactly their failure counts.
LEMMA ForgetFacts ==
    ASSUME NEW S, PoolTypes, Forget(S)
    PROVE  /\ keyed' = keyed \ S
           /\ fails' \in [Sessions -> 0 .. MAX_ADMISSION_FAILURES - 1]
           /\ \A s \in Sessions : fails'[s] = IF s \in S THEN 0 ELSE fails[s]
  BY DEF PoolTypes, Forget, MAX_ADMISSION_FAILURES

\* A drain gives the slot of a container that has gone to one session at most:
\* Before is a total order on the queue, so that one candidate at most has no
\* candidate before it.
LEMMA DrainBooks ==
    ASSUME Books, NEW t \in active, NEW broken, Drain(active \ {t}, broken)
    PROVE  Books' /\ active' = active \ {t}
  <1> USE DEF Books
  <1> DEFINE act == active \ {t}
             Candidate(s) == s \notin act /\ s \notin broken /\ work[s] # "none"
             chosen == {i \in DOMAIN queue :
                          /\ Candidate(queue[i])
                          /\ \A j \in DOMAIN queue : Before(j, i, act) => ~ Candidate(queue[j])}
             dropped == {queue[j] : j \in {k \in DOMAIN queue : \A i \in chosen : Before(k, i, act)}}
             next == {queue[i] : i \in chosen}
  <1>1. /\ active' = act
        /\ queue' = Without(queue, dropped \union next)
        /\ wakes' = wakes \union next
        /\ joined' = joined \union next
        /\ Forget(dropped)
    BY DEF Drain
  <1>2. DOMAIN queue = 1 .. Len(queue) /\ \A i \in DOMAIN queue : queue[i] \in Sessions /\ queue[i] \in ToSet(queue)
    BY DEF PoolTypes, ToSet
  <1>3. \A i \in DOMAIN queue : Load(queue[i], act) \in Nat
    <2> SUFFICES ASSUME NEW i \in DOMAIN queue PROVE Load(queue[i], act) \in Nat
      OBVIOUS
    <2>1. IsFiniteSet({u \in act : Bucket[u] = Bucket[queue[i]]})
      <3>1. {u \in act : Bucket[u] = Bucket[queue[i]]} \subseteq active
        OBVIOUS
      <3> QED
        BY <3>1, FS_Subset DEF Slots
    <2> QED
      BY <2>1, FS_CardinalityType DEF Load, slotsHeldBy
  <1>4. \A i, j \in DOMAIN queue : i # j => Before(i, j, act) \/ Before(j, i, act)
    <2> SUFFICES ASSUME NEW i \in DOMAIN queue, NEW j \in DOMAIN queue, i # j
                 PROVE  Before(i, j, act) \/ Before(j, i, act)
      OBVIOUS
    <2> DEFINE a == Load(queue[i], act)
               b == Load(queue[j], act)
    <2>1. a \in Nat /\ b \in Nat
      BY <1>3
    <2>4. i \in Nat /\ j \in Nat
      BY <1>2
    <2>2. Before(i, j, act) <=> a < b \/ (a = b /\ i < j)
      BY DEF Before
    <2>3. Before(j, i, act) <=> b < a \/ (b = a /\ j < i)
      BY DEF Before
    <2> HIDE DEF a, b
    <2> QED
      BY <2>1, <2>2, <2>3, <2>4
  <1>5. \A i \in DOMAIN queue : ~ Before(i, i, act)
    BY <1>2, <1>3, SMTT(40) DEF Before
  <1>6. \A i, j \in chosen : i = j
    BY <1>4
  <1>7. (dropped \union next) \subseteq ToSet(queue) /\ next \intersect act = {}
    BY <1>2
  <1>8. dropped \intersect next = {}
    BY <1>5, <1>6 DEF QueueSound
  <1>9. next = {} \/ \E n \in Sessions : next = {n} /\ n \notin act
    <2>1. CASE chosen = {}
      BY <2>1
    <2>2. CASE chosen # {}
      <3>1. PICK i \in chosen : TRUE
        BY <2>2
      <3>2. next = {queue[i]} /\ queue[i] \in Sessions /\ queue[i] \notin act
        <4>1. chosen = {i}
          BY <1>6, <3>1
        <4>2. i \in DOMAIN queue /\ queue[i] \notin act
          BY <3>1
        <4> HIDE DEF chosen
        <4> QED
          BY <1>2, <4>1, <4>2
      <3> QED
        BY <3>2
    <2> QED
      BY <2>1, <2>2
  <1> HIDE DEF next, dropped, chosen
  <1>10. Slots'
    <2>1. IsFiniteSet(act) /\ Cardinality(act) = Cardinality(active) - 1
      BY FS_RemoveElement DEF Slots
    <2>2. IsFiniteSet(wakes') /\ Cardinality(wakes') <= Cardinality(wakes) + 1
      <3>1. Cardinality(wakes) \in Nat
        BY FS_CardinalityType DEF Slots
      <3>2. CASE next = {}
        BY <1>1, <3>1, <3>2 DEF Slots
      <3>3. ASSUME NEW n \in Sessions, next = {n}
            PROVE  IsFiniteSet(wakes') /\ Cardinality(wakes') <= Cardinality(wakes) + 1
        <4>1. wakes' = wakes \union {n}
          BY <1>1, <3>3
        <4>2. /\ IsFiniteSet(wakes \union {n})
              /\ Cardinality(wakes \union {n}) = IF n \in wakes THEN Cardinality(wakes) ELSE Cardinality(wakes) + 1
          BY FS_AddElement DEF Slots
        <4> QED
          BY <3>1, <4>1, <4>2
      <3> QED
        BY <1>9, <3>2, <3>3
    <2>3. active' \intersect wakes' = {}
      BY <1>1, <1>9 DEF Slots
    <2>4. /\ Cardinality(active) \in Nat /\ Cardinality(wakes) \in Nat
          /\ Cardinality(active') \in Nat /\ Cardinality(wakes') \in Nat
      BY <1>1, <2>1, <2>2, FS_CardinalityType DEF Slots
    <2> QED
      BY <1>1, <2>1, <2>2, <2>3, <2>4, PoolAssumption DEF Slots
  <1>11. /\ queue' \in Seq(Sessions)
         /\ ToSet(queue') = ToSet(queue) \ (dropped \union next)
         /\ \A i, j \in DOMAIN queue' : queue'[i] = queue'[j] => i = j
    BY <1>1, WithoutFacts DEF PoolTypes, QueueSound
  <1>12. /\ keyed' = keyed \ dropped
         /\ fails' \in [Sessions -> 0 .. MAX_ADMISSION_FAILURES - 1]
         /\ \A s \in Sessions : fails'[s] = IF s \in dropped THEN 0 ELSE fails[s]
    BY <1>1, ForgetFacts
  <1>13. PoolTypes'
    BY <1>1, <1>9, <1>11, <1>12 DEF PoolTypes
  <1>14. QueueSound'
    <2>1. keyed' = ToSet(queue') \union joined'
      BY <1>1, <1>7, <1>8, <1>11, <1>12 DEF QueueSound
    <2>2. \A s \in Sessions : fails'[s] > 0 => s \in keyed'
      BY <1>12 DEF QueueSound
    <2> QED
      BY <1>11, <2>1, <2>2 DEF QueueSound
  <1>15. ToSet(queue') \intersect joined' = {}
    BY <1>1, <1>11
  <1> QED
    BY <1>1, <1>10, <1>13, <1>14, <1>15

\* A slot, or the wake of a request nobody waits for, is given up.
LEMMA ReleaseBooks ==
    ASSUME Books, NEW t, UNCHANGED book,
           \/ active' = active \ {t} /\ UNCHANGED wakes
           \/ t \notin joined /\ wakes' = wakes \ {t} /\ UNCHANGED active
    PROVE  Books'
  <1> USE DEF Books
  <1>1. Slots'
    <2>1. /\ IsFiniteSet(active \ {t}) /\ Cardinality(active \ {t}) <= Cardinality(active)
          /\ IsFiniteSet(wakes \ {t}) /\ Cardinality(wakes \ {t}) <= Cardinality(wakes)
      BY FS_Subset DEF Slots
    <2>2. /\ Cardinality(active) \in Nat /\ Cardinality(wakes) \in Nat
          /\ Cardinality(active \ {t}) \in Nat /\ Cardinality(wakes \ {t}) \in Nat
      BY <2>1, FS_CardinalityType DEF Slots
    <2>3. /\ IsFiniteSet(active') /\ IsFiniteSet(wakes')
          /\ active' \subseteq active /\ wakes' \subseteq wakes
          /\ Cardinality(active') \in Nat /\ Cardinality(active') <= Cardinality(active)
          /\ Cardinality(wakes') \in Nat /\ Cardinality(wakes') <= Cardinality(wakes)
      <3>1. CASE active' = active \ {t} /\ wakes' = wakes
        BY <2>1, <2>2, <3>1 DEF Slots
      <3>2. CASE active' = active /\ wakes' = wakes \ {t}
        BY <2>1, <2>2, <3>2 DEF Slots
      <3> QED
        BY <3>1, <3>2
    <2>4. Cardinality(active') + Cardinality(wakes') <= Cap
      BY <2>2, <2>3, PoolAssumption DEF Slots
    <2> QED
      BY <2>3, <2>4 DEF Slots
  <1> QED
    BY <1>1 DEF PoolTypes, QueueSound, book

\* The hand-off of a slot, or, in a shutdown, its release.
LEMMA HandOffBooks ==
    ASSUME Books, NEW t \in active, handOffSlot(active \ {t})
    PROVE  Books' /\ active' = active \ {t}
  <1>1. CASE phase = "stopping"
    <2>1. active' = active \ {t} /\ UNCHANGED <<wakes, book>>
      BY <1>1 DEF handOffSlot
    <2> QED
      BY <2>1, ReleaseBooks
  <1>2. CASE phase # "stopping"
    BY <1>2, DrainBooks DEF handOffSlot
  <1> QED
    BY <1>1, <1>2

\* The end of a wake that a drain may be waiting for: with its bookkeeping
\* cleared, or kept for the retry that is queued.
LEMMA WakeEndsBooks ==
    ASSUME Books, NEW s \in wakes, Settle(s), active' \in {active, active \union {s}}
    PROVE  Books'
  <1> USE DEF Books
  <1>1. /\ wakes' = wakes \ {s} /\ joined' = joined \ {s} /\ queue' = queue
        /\ Forget(IF s \in joined THEN {s} ELSE {})
    BY DEF Settle
  <1>2. Slots'
    <2>1. IsFiniteSet(wakes') /\ Cardinality(wakes') = Cardinality(wakes) - 1
      BY <1>1, FS_RemoveElement DEF Slots
    <2>2. IsFiniteSet(active') /\ Cardinality(active') \in {Cardinality(active), Cardinality(active) + 1}
      <3>1. s \notin active
        BY DEF Slots
      <3>2. IsFiniteSet(active \union {s}) /\ Cardinality(active \union {s}) = Cardinality(active) + 1
        BY <3>1, FS_AddElement DEF Slots
      <3> QED
        BY <3>2 DEF Slots
    <2>3. Cardinality(active) \in Nat /\ Cardinality(wakes) \in Nat
      BY FS_CardinalityType DEF Slots
    <2>4. active' \intersect wakes' = {}
      BY <1>1 DEF Slots
    <2> QED
      BY <2>1, <2>2, <2>3, <2>4, PoolAssumption DEF Slots
  <1>3. /\ keyed' = keyed \ (IF s \in joined THEN {s} ELSE {})
        /\ fails' \in [Sessions -> 0 .. MAX_ADMISSION_FAILURES - 1]
        /\ \A u \in Sessions : fails'[u] = IF u \in (IF s \in joined THEN {s} ELSE {}) THEN 0 ELSE fails[u]
    BY <1>1, ForgetFacts
  <1>4. PoolTypes'
    BY <1>1, <1>3 DEF PoolTypes
  <1>5. QueueSound'
    BY <1>1, <1>3 DEF QueueSound, PoolTypes
  <1> QED
    BY <1>1, <1>2, <1>4, <1>5

\* A failed admission goes to the front, to the back or out, once.
LEMMA FailureBooks ==
    ASSUME Books, NEW s \in joined, recordFailure(s),
           wakes' = wakes \ {s}, joined' = joined \ {s}, active' = active
    PROVE  Books'
  <1> USE DEF Books
  <1>1. Slots'
    <2>1. IsFiniteSet(wakes') /\ Cardinality(wakes') = Cardinality(wakes) - 1
      BY FS_RemoveElement DEF Slots, PoolTypes
    <2>2. Cardinality(active) \in Nat /\ Cardinality(wakes) \in Nat
      BY FS_CardinalityType DEF Slots
    <2> QED
      BY <2>1, <2>2, PoolAssumption DEF Slots
  <1>2. s \in Sessions /\ s \notin ToSet(queue) /\ s \in keyed /\ fails[s] \in 0 .. 2
    BY DEF PoolTypes, QueueSound, MAX_ADMISSION_FAILURES
  <1>3. CASE fails[s] + 1 < MAX_ADMISSION_FAILURES
    <2>1. fails' = [fails EXCEPT ![s] = fails[s] + 1] /\ keyed' = keyed
      BY <1>3 DEF recordFailure
    <2>2. queue' = Append(queue, s) \/ queue' = <<s>> \o Without(queue, {s})
      BY <1>2, <1>3 DEF recordFailure
    <2>3. /\ queue' \in Seq(Sessions)
          /\ ToSet(queue') = ToSet(queue) \union {s}
          /\ \A i, j \in DOMAIN queue' : queue'[i] = queue'[j] => i = j
      <3>1. CASE queue' = Append(queue, s)
        BY <1>2, <3>1, QueueGrows DEF PoolTypes, QueueSound
      <3>2. CASE queue' = <<s>> \o Without(queue, {s})
        <4>1. /\ Without(queue, {s}) \in Seq(Sessions)
              /\ ToSet(Without(queue, {s})) = ToSet(queue) \ {s}
              /\ \A i, j \in DOMAIN Without(queue, {s}) : Without(queue, {s})[i] = Without(queue, {s})[j] => i = j
          BY WithoutFacts DEF PoolTypes, QueueSound
        <4>2. /\ queue' \in Seq(Sessions)
              /\ ToSet(queue') = ToSet(Without(queue, {s})) \union {s}
              /\ \A i, j \in DOMAIN queue' : queue'[i] = queue'[j] => i = j
          <5> DEFINE q == Without(queue, {s})
          <5>1. q \in Seq(Sessions) /\ s \notin ToSet(q) /\ \A i, j \in DOMAIN q : q[i] = q[j] => i = j
            BY <4>1
          <5>2. queue' = <<s>> \o q
            BY <3>2
          <5> HIDE DEF q
          <5>3. /\ queue' \in Seq(Sessions)
                /\ ToSet(queue') = ToSet(q) \union {s}
                /\ \A i, j \in DOMAIN queue' : queue'[i] = queue'[j] => i = j
            BY <1>2, <5>1, <5>2, QueueGrows
          <5> QED
            BY <5>3 DEF q
        <4> QED
          BY <4>1, <4>2
      <3> QED
        BY <2>2, <3>1, <3>2
    <2>4. fails' \in [Sessions -> 0 .. MAX_ADMISSION_FAILURES - 1]
      BY <1>2, <1>3, <2>1 DEF PoolTypes, MAX_ADMISSION_FAILURES
    <2>5. PoolTypes'
      BY <2>1, <2>3, <2>4 DEF PoolTypes
    <2>6. QueueSound'
      BY <1>2, <2>1, <2>3 DEF QueueSound, PoolTypes
    <2> QED
      BY <1>1, <2>3, <2>5, <2>6
  <1>4. CASE ~ (fails[s] + 1 < MAX_ADMISSION_FAILURES)
    <2>1. Forget({s}) /\ queue' = queue
      BY <1>4 DEF recordFailure
    <2>2. /\ keyed' = keyed \ {s}
          /\ fails' \in [Sessions -> 0 .. MAX_ADMISSION_FAILURES - 1]
          /\ \A u \in Sessions : fails'[u] = IF u \in {s} THEN 0 ELSE fails[u]
      BY <2>1, ForgetFacts
    <2>3. PoolTypes'
      BY <2>1, <2>2 DEF PoolTypes
    <2>4. QueueSound'
      BY <1>2, <2>1, <2>2 DEF QueueSound
    <2> QED
      BY <1>1, <2>1, <2>3, <2>4
  <1> QED
    BY <1>3, <1>4

(***************************************************************************)
(* The steps.                                                              *)
(***************************************************************************)
\* A pool without sessions satisfies Inv.
LEMMA InitInv == Init => Inv
  <1> SUFFICES ASSUME Init PROVE Inv
    OBVIOUS
  <1>1. TypeOK
    BY DEF Init, TypeOK, MAX_ADMISSION_FAILURES
  <1>2. Slots
    BY PoolAssumption, FS_EmptySet DEF Init, Slots
  <1>3. QueueSound /\ ToSet(queue) \intersect joined = {}
    BY DEF Init, QueueSound, ToSet
  <1>4. Boxes
    BY DEF Init, Boxes, Up
  <1> QED
    BY <1>1, <1>2, <1>3, <1>4 DEF Inv, Books, PoolTypes, TypeOK

\* TypeOK is the types of the pool and of what surrounds it.
LEMMA TypesOfPool ==
    ASSUME PoolTypes',
           work' \in [Sessions -> {"none", "pending", "acked"}],
           toWake' \subseteq Sessions,
           phase' \in {"up", "stopping", "down"},
           snapshot' \subseteq active',
           boxes' \in [Sessions -> Nat],
           faults' \in Nat, orphans' \in Nat, stops' \in Nat
    PROVE  TypeOK'
  BY DEF PoolTypes, TypeOK

\* Messages, acks, wakes of the router and of the sweep.
LEMMA InboxInv ==
    ASSUME Inv, NEW s \in Sessions, Route(s) \/ RouterWakes(s) \/ Work(s) \/ Sweep(s)
    PROVE  Inv'
  <1> USE DEF Inv
  <1>1. Books' /\ active' = active
    <2>1. CASE wakeContainer(s)
      BY <2>1, WakeBooks
    <2>2. CASE UNCHANGED <<slots, book>>
      BY <2>2, BooksStay DEF slots
    <2> QED
      BY <2>1, <2>2 DEF Route, RouterWakes, Work, Sweep
  <1>2. work' \in [Sessions -> {"none", "pending", "acked"}] /\ toWake' \subseteq Sessions
    <2>1. CASE Route(s)
      BY <2>1 DEF TypeOK, Route
    <2>2. CASE RouterWakes(s)
      BY <2>2 DEF TypeOK, RouterWakes
    <2>3. CASE Work(s)
      BY <2>3 DEF TypeOK, Work
    <2>4. CASE Sweep(s)
      BY <2>4 DEF TypeOK, Sweep
    <2> QED
      BY <2>1, <2>2, <2>3, <2>4
  <1>3. UNCHANGED <<phase, snapshot, boxes, faults, orphans, stops>>
    BY DEF Route, RouterWakes, Work, Sweep, bounds
  <1>4. TypeOK'
    BY <1>1, <1>2, <1>3, TypesOfPool DEF TypeOK, Books
  <1>5. Boxes'
    BY <1>1, <1>3 DEF Boxes, Up
  <1> QED
    BY <1>1, <1>4, <1>5

\* A spawn succeeds, finds nothing to run, or throws.
LEMMA SpawnEndsInv ==
    ASSUME Inv, NEW s \in Sessions, SpawnEnds(s)
    PROVE  Inv'
  <1> USE DEF Inv
  <1>1. Up /\ s \in wakes /\ s \notin active
    BY DEF SpawnEnds, spawnContainer, SpawnNothing, SpawnFails, Books, Slots
  <1>2. CASE spawnContainer(s)
    <2>1. /\ active' = active \union {s} /\ boxes' = [boxes EXCEPT ![s] = @ + 1] /\ Settle(s)
          /\ UNCHANGED <<work, toWake, phase, snapshot, faults, orphans, stops>>
      BY <1>2 DEF spawnContainer, inbox, bounds
    <2>2. Books'
      BY <1>1, <2>1, WakeEndsBooks
    <2>3. boxes' \in [Sessions -> Nat] /\ snapshot' \subseteq active'
      BY <2>1 DEF TypeOK
    <2>4. TypeOK'
      BY <2>1, <2>2, <2>3, TypesOfPool DEF TypeOK, Books
    <2>5. Boxes'
      BY <1>1, <2>1 DEF Boxes, Up, TypeOK
    <2> QED
      BY <2>2, <2>4, <2>5
  <1>3. CASE SpawnNothing(s) \/ SpawnFails(s)
    <2>1. /\ active' = active /\ faults' = faults + 1
          /\ UNCHANGED <<work, toWake, phase, snapshot, boxes, orphans, stops>>
      BY <1>3 DEF SpawnNothing, SpawnFails, Fault, inbox
    <2>2. Books'
      <3>1. CASE SpawnNothing(s)
        BY <1>1, <2>1, <3>1, WakeEndsBooks DEF SpawnNothing
      <3>2. CASE SpawnFails(s) /\ s \in joined
        BY <2>1, <3>2, FailureBooks DEF SpawnFails
      <3>3. CASE SpawnFails(s) /\ s \notin joined
        <4>1. wakes' = wakes \ {s} /\ UNCHANGED book
          BY <3>3 DEF SpawnFails, book
        <4> QED
          BY <2>1, <3>3, <4>1, ReleaseBooks
      <3> QED
        BY <1>3, <3>1, <3>2, <3>3
    <2>3. TypeOK'
      BY <2>1, <2>2, TypesOfPool DEF TypeOK, Books
    <2>4. Boxes'
      BY <2>1 DEF Boxes, Up
    <2> QED
      BY <2>2, <2>3, <2>4
  <1> QED
    BY <1>2, <1>3 DEF SpawnEnds

\* A container exits, crashes early, or outlives a stop that docker refused.
LEMMA ContainerEndsInv ==
    ASSUME Inv, NEW s \in Sessions, Close(s) \/ QuickCrash(s) \/ KillFallback(s)
    PROVE  Inv'
  <1> USE DEF Inv
  <1>1. Up /\ s \in active
    BY DEF Close, QuickCrash, KillFallback
  <1>2. Books' /\ active' = active \ {s}
    <2>1. CASE handOffSlot(active \ {s})
      BY <1>1, <2>1, HandOffBooks
    <2>2. CASE active' = active \ {s} /\ UNCHANGED <<wakes, book>>
      BY <2>2, ReleaseBooks
    <2> QED
      BY <2>1, <2>2 DEF Close, QuickCrash, KillFallback
  <1>3. snapshot' = snapshot \ {s} /\ UNCHANGED <<work, toWake, phase, stops>>
    BY DEF Close, QuickCrash, KillFallback, inbox
  <1>4. faults' \in {faults, faults + 1}
    BY DEF Close, QuickCrash, KillFallback, handOffSlot, Fault
  <1>5. \/ boxes' = [boxes EXCEPT ![s] = @ - 1] /\ orphans' = orphans
        \/ boxes' = boxes /\ orphans' = orphans + 1
    BY DEF Close, QuickCrash, KillFallback, Orphan
  <1>6. boxes[s] \in Nat /\ boxes[s] >= 1
    BY <1>1 DEF TypeOK, Boxes
  <1>7. boxes' \in [Sessions -> Nat] /\ orphans' \in Nat /\ faults' \in Nat /\ snapshot' \subseteq active'
    <2>1. boxes' \in [Sessions -> Nat]
      <3>1. CASE boxes' = [boxes EXCEPT ![s] = @ - 1]
        BY <1>6, <3>1 DEF TypeOK
      <3> QED
        BY <1>5, <3>1 DEF TypeOK
    <2>2. orphans' \in Nat /\ faults' \in Nat
      BY <1>4, <1>5 DEF TypeOK
    <2> QED
      BY <1>2, <1>3, <2>1, <2>2 DEF TypeOK
  <1>8. TypeOK'
    BY <1>2, <1>3, <1>7, TypesOfPool DEF TypeOK, Books
  <1>9. Boxes'
    <2>1. CASE boxes' = [boxes EXCEPT ![s] = @ - 1] /\ orphans' = orphans
      BY <1>1, <1>2, <1>3, <1>6, <2>1 DEF Boxes, Up, TypeOK
    <2>2. CASE boxes' = boxes /\ orphans' = orphans + 1
      BY <1>1, <1>2, <1>3, <2>2 DEF Boxes, Up, TypeOK
    <2> QED
      BY <1>5, <2>1, <2>2
  <1> QED
    BY <1>2, <1>8, <1>9

\* The host stops, dies and starts again.
LEMMA HostInv ==
    ASSUME Inv, stopAllContainers \/ Exit \/ Crash \/ Restart
    PROVE  Inv'
  <1> USE DEF Inv
  <1>1. CASE stopAllContainers
    <2>1. phase = "up" /\ phase' = "stopping" /\ snapshot' = active
          /\ UNCHANGED <<work, toWake, slots, book, boxes, faults, orphans, stops>>
      BY <1>1 DEF stopAllContainers, inbox, bounds
    <2>2. Books'
      BY <2>1, BooksStay
    <2>3. TypeOK'
      BY <2>1, <2>2, TypesOfPool DEF TypeOK, Books, slots
    <2>4. Boxes'
      BY <2>1 DEF Boxes, Up, slots
    <2> QED
      BY <2>2, <2>3, <2>4
  <1>2. CASE End /\ Up
    <2>1. /\ active' = {} /\ wakes' = {} /\ joined' = {} /\ queue' = <<>> /\ keyed' = {}
          /\ fails' = [s \in Sessions |-> 0] /\ phase' = "down" /\ toWake' = {} /\ snapshot' = {}
          /\ stops' = stops + 1
          /\ UNCHANGED <<work, boxes, faults, orphans>>
      BY <1>2 DEF End
    <2>2. Slots'
      BY <2>1, PoolAssumption, FS_EmptySet DEF Slots
    <2>3. QueueSound' /\ ToSet(queue') \intersect joined' = {}
      BY <2>1 DEF QueueSound, ToSet
    <2>4. PoolTypes'
      BY <2>1 DEF PoolTypes, MAX_ADMISSION_FAILURES
    <2>5. TypeOK'
      BY <2>1, <2>4, TypesOfPool DEF TypeOK
    <2>6. Boxes'
      BY <1>2, <2>1 DEF Boxes, Up, TypeOK
    <2> QED
      BY <2>2, <2>3, <2>4, <2>5, <2>6 DEF Books
  <1>3. CASE Restart
    <2>1. /\ ~ Up /\ phase' = "up"
          /\ UNCHANGED <<work, toWake, slots, book, snapshot, faults, stops>>
          /\ \/ boxes' = [s \in Sessions |-> 0] /\ orphans' = orphans
             \/ boxes' = boxes /\ orphans' = orphans + 1
      BY <1>3 DEF Restart, Orphan, inbox
    <2>2. Books'
      BY <2>1, BooksStay
    <2>3. boxes' \in [Sessions -> Nat] /\ orphans' \in Nat /\ snapshot' \subseteq active'
      BY <2>1 DEF TypeOK, slots
    <2>4. TypeOK'
      BY <2>1, <2>2, <2>3, TypesOfPool DEF TypeOK, Books
    <2>5. Boxes'
      BY <2>1 DEF Boxes, Up, TypeOK, slots
    <2> QED
      BY <2>2, <2>4, <2>5
  <1> QED
    BY <1>1, <1>2, <1>3 DEF Exit, Crash, Up

\* Every step of the host and of docker keeps Inv.
LEMMA NextInv == Inv /\ [Next]_vars => Inv'
  <1> SUFFICES ASSUME Inv, [Next]_vars PROVE Inv'
    OBVIOUS
  <1>1. ASSUME NEW s \in Sessions,
               \/ Route(s) \/ RouterWakes(s) \/ Work(s) \/ Sweep(s) \/ SpawnEnds(s)
               \/ Close(s) \/ QuickCrash(s) \/ KillFallback(s)
        PROVE  Inv'
    BY <1>1, InboxInv, SpawnEndsInv, ContainerEndsInv
  <1>2. CASE stopAllContainers \/ Exit \/ Crash \/ Restart
    BY <1>2, HostInv
  <1>3. CASE UNCHANGED vars
    BY <1>3 DEF vars, inbox, slots, book, bounds, Inv, TypeOK, Books, PoolTypes, Slots, QueueSound, Boxes, Up
  <1> QED
    BY <1>1, <1>2, <1>3 DEF Next

\* Every reachable state of the pool satisfies Inv.
THEOREM Invariance == Spec => []Inv
  <1> QED
    BY InitInv, NextInv, PTL DEF Spec

\* The maps and the queue keep their types: in particular a container's close
\* event finds a container to count down.
THEOREM TypeCorrect == Spec => []TypeOK
  <1>1. Inv => TypeOK
    BY DEF Inv
  <1> QED
    BY <1>1, Invariance, PTL

\* For any number of sessions that race for any number of slots, the cap holds
\* and the admission queue agrees with its side tables.
THEOREM BooksSound == Spec => []PoolBooksSound
  <1>1. Inv => PoolBooksSound
    <2> SUFFICES ASSUME Inv PROVE Cardinality(active \union wakes) <= Cap
      BY DEF Inv, Books, Slots, PoolBooksSound, SlotsBounded
    <2>1. Cardinality(active \union wakes) = Cardinality(active) + Cardinality(wakes)
      <3>1. Cardinality(active) \in Nat /\ Cardinality(wakes) \in Nat
        BY FS_CardinalityType DEF Inv, Books, Slots
      <3>2. Cardinality(active \intersect wakes) = 0
        BY FS_EmptySet DEF Inv, Books, Slots
      <3> QED
        <4>1. Cardinality(active \union wakes)
                = Cardinality(active) + Cardinality(wakes) - Cardinality(active \intersect wakes)
          BY FS_Union DEF Inv, Books, Slots
        <4> QED
          BY <3>1, <3>2, <4>1
    <2> QED
      BY <2>1 DEF Inv, Books, Slots
  <1> QED
    BY <1>1, Invariance, PTL

\* A session gets a second container only after docker failed to stop one.
THEOREM OneContainer == Spec => []SecondContainerNeedsFailedStop
  <1>1. Inv => SecondContainerNeedsFailedStop
    BY DEF Inv, TypeOK, Boxes, Up, SecondContainerNeedsFailedStop
  <1> QED
    BY <1>1, Invariance, PTL
=============================================================================
