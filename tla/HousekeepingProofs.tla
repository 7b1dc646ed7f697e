------------------------- MODULE HousekeepingProofs -------------------------
(***************************************************************************)
(* Theorems about the parts that MCHousekeeping runs side by side: the     *)
(* locks and queues of a channel, the numbers of a session's messages, the *)
(* files of a session, the task series, the cap on messages to people and  *)
(* the business writes of a turn.                                          *)
(* They hold for every value of the constants and are checked by TLAPS.    *)
(***************************************************************************)
EXTENDS MCHousekeeping, FiniteSetTheorems, WellFoundedInduction, TLAPS

(***************************************************************************)
(* Extrema of sets of numbers.                                             *)
(***************************************************************************)
\* A set of numbers that is not empty has a least one.
LEMMA LeastOf ==
    ASSUME NEW S \in SUBSET Nat, S # {}
    PROVE  \E i \in S : \A j \in S : i <= j
  <1>1. IsWellFoundedOn(OpToRel(<, Nat), Nat)
    BY NatLessThanWellFounded
  <1>2. PICK i \in S : \A j \in S : <<j, i>> \notin OpToRel(<, Nat)
    BY <1>1, WFMin
  <1>3. \A j \in S : ~ (j < i)
    BY <1>2 DEF OpToRel
  <1> QED
    BY <1>3

\* A bounded one has a largest: its least bound is in it.
LEMMA GreatestOf ==
    ASSUME NEW S \in SUBSET Nat, S # {}, NEW b \in Nat, \A j \in S : j <= b
    PROVE  \E i \in S : \A j \in S : j <= i
  <1> DEFINE Bounds == {n \in Nat : \A j \in S : j <= n}
  <1>1. Bounds # {} /\ Bounds \in SUBSET Nat
    OBVIOUS
  <1>2. PICK n \in Bounds : \A m \in Bounds : n <= m
    <2> HIDE DEF Bounds
    <2> QED
      BY <1>1, LeastOf
  <1>3. n \in Nat /\ \A j \in S : j <= n
    OBVIOUS
  <1>4. n \in S
    <2> SUFFICES ASSUME n \notin S PROVE FALSE
      OBVIOUS
    <2>1. \A j \in S : j <= n - 1
      BY <1>3
    <2>2. n # 0
      <3>1. PICK j \in S : TRUE
        OBVIOUS
      <3>2. j \in Nat /\ j <= n /\ j # n
        BY <1>3
      <3> QED
        BY <1>3, <3>2
    <2>3. n - 1 \in Bounds
      BY <1>3, <2>1, <2>2
    <2> QED
      BY <1>2, <1>3, <2>3
  <1> QED
    BY <1>3, <1>4

\* Counting is the same in the modules put side by side.
LEMMA ChaCounts == ASSUME NEW S PROVE Cha!Cardinality(S) = Cardinality(S)
  BY DEF Cha!Cardinality, Cardinality

\* As above.
LEMMA NumCounts == ASSUME NEW S PROVE Num!Cardinality(S) = Cardinality(S)
  BY DEF Num!Cardinality, Cardinality

(***************************************************************************)
(* The locks and queues of a channel (ChatState).                          *)
(***************************************************************************)
\* A lock row carries the deadline its holder was given, and a deadline that
\* still runs is the row's or was taken by force.
LocksKept ==
    /\ clock \in 0 .. LastTick
    /\ lease \in [Holders -> Cha!Ticks \union {Cha!None}]
    /\ \/ lockRow = Cha!NoLock
       \/ /\ lockRow \in [by : Holders, until : Cha!Ticks]
          /\ lease[lockRow.by] = lockRow.until
    /\ \A h \in Holders : lease[h] >= clock => lockRow.by = h \/ h \in forced

\* Entries are numbered upwards, in the list and in what was served before it.
QueueKept ==
    /\ entered \in 0 .. MaxEntries
    /\ taken \in Seq(1 .. MaxEntries)
    /\ DOMAIN listRows \in SUBSET Nat
    /\ \E b \in Nat : \A i \in DOMAIN listRows : i <= b
    /\ IsFiniteSet(DOMAIN listRows) /\ Cardinality(DOMAIN listRows) <= MaxSize
    /\ \A i \in DOMAIN listRows : listRows[i] \in 1 .. entered
    /\ \A i, j \in DOMAIN listRows : i < j => listRows[i] < listRows[j]
    /\ \A i \in 1 .. Len(taken) : taken[i] <= entered
    /\ \A i \in 1 .. Len(taken) - 1 : taken[i] < taken[i + 1]
    /\ \A i \in DOMAIN listRows : taken # <<>> => taken[Len(taken)] < listRows[i]

\* Lock steps, ticks and forced releases keep LocksKept.
LEMMA LocksStep == ASSUME LocksKept, Cha!Next PROVE LocksKept'
  <1>a. clock \in Nat /\ clock <= LastTick /\ Ttl \in Nat /\ LastTick \in Nat
    BY ChatAssumption DEF LocksKept
  <1>b. clock + Ttl \in Cha!Ticks
    BY <1>a DEF Cha!Ticks
  <1>c. lease \in [Holders -> Cha!Ticks \union {Cha!None}] /\ \A n \in Cha!Ticks \union {Cha!None} : n \in Int
    BY ChatAssumption DEF LocksKept, Cha!Ticks, Cha!None
  <1>d. Cha!None < clock /\ Cha!NoLock.by \notin Holders
    BY <1>a, ChatAssumption DEF Cha!None, Cha!NoLock
  <1>1. CASE Cha!Tick
    <2>1. clock' = clock + 1 /\ clock < LastTick /\ UNCHANGED <<lockRow, lease, forced>>
      BY <1>1 DEF Cha!Tick
    <2>2. clock' \in 0 .. LastTick
      BY <1>a, <2>1
    <2>3. \A h \in Holders : lease[h] \in Int
      BY <1>c
    <2>4. \A h \in Holders : lease[h] >= clock' => lease[h] >= clock
      BY <1>a, <2>1, <2>3
    <2> QED
      BY <2>1, <2>2, <2>4 DEF LocksKept
  <1>2. CASE Cha!forceReleaseLock
    BY <1>a, <1>b, <1>c, <1>d, <1>2 DEF LocksKept, Cha!forceReleaseLock
  <1>3. CASE Cha!cleanup
    <2>1. lockRow' = Cha!NoLock /\ UNCHANGED <<clock, lease, forced>> /\ lockRow # Cha!NoLock /\ lockRow.until < clock
      BY <1>3 DEF Cha!cleanup, Cha!Expired
    <2>2. \A h \in Holders : lease[h] >= clock => lockRow.by # h
      BY <1>a, <1>b, <1>c, <1>d, <2>1 DEF LocksKept
    <2> QED
      BY <2>1, <2>2 DEF LocksKept
  <1>4. CASE Cha!enqueue \/ Cha!dequeue
    BY <1>4 DEF LocksKept, Cha!enqueue, Cha!dequeue
  <1>5. ASSUME NEW h \in Holders, Cha!acquireLock(h) PROVE LocksKept'
    <2>1. /\ lockRow' = [by |-> h, until |-> clock + Ttl] /\ lease' = [lease EXCEPT ![h] = clock + Ttl]
          /\ forced' = forced \ {h} /\ clock' = clock
          /\ lockRow = Cha!NoLock \/ lockRow.until < clock
      BY <1>5 DEF Cha!acquireLock, Cha!Expired
    <2>2. \A k \in Holders : lease[k] >= clock => k \in forced
      BY <1>a, <1>b, <1>c, <1>d, <2>1 DEF LocksKept
    <2>3. lockRow' \in [by : Holders, until : Cha!Ticks] /\ lockRow'.by = h /\ lockRow'.until = clock + Ttl
      BY <1>a, <1>b, <1>c, <1>d, <2>1
    <2>4. lease' \in [Holders -> Cha!Ticks \union {Cha!None}] /\ lease'[h] = clock + Ttl
      BY <1>a, <1>b, <1>c, <1>d, <2>1
    <2>5. \A k \in Holders \ {h} : lease'[k] = lease[k]
      BY <1>a, <1>b, <1>c, <1>d, <2>1
    <2> QED
      BY <2>1, <2>2, <2>3, <2>4, <2>5 DEF LocksKept
  <1>6. ASSUME NEW h \in Holders, Cha!releaseLock(h) PROVE LocksKept'
    <2>1. /\ lockRow' = IF lockRow.by = h THEN Cha!NoLock ELSE lockRow
          /\ lease' = [lease EXCEPT ![h] = Cha!None] /\ UNCHANGED <<clock, forced>>
      BY <1>6 DEF Cha!releaseLock
    <2>2. /\ lease' \in [Holders -> Cha!Ticks \union {Cha!None}] /\ lease'[h] = Cha!None
          /\ \A k \in Holders \ {h} : lease'[k] = lease[k]
      BY <1>a, <1>b, <1>c, <1>d, <2>1
    <2>3. ~ (Cha!None >= clock)
      BY <1>a DEF Cha!None
    <2> QED
      BY <1>a, <1>b, <1>c, <1>d, <2>1, <2>2, <2>3 DEF LocksKept
  <1>7. ASSUME NEW h \in Holders, Cha!extendLock(h) PROVE LocksKept'
    <2>1. CASE lockRow.by = h
      <3>1. /\ lockRow' = [lockRow EXCEPT !.until = clock + Ttl] /\ lease' = [lease EXCEPT ![h] = clock + Ttl]
            /\ UNCHANGED <<clock, forced>>
        BY <1>7, <2>1 DEF Cha!extendLock
      <3>2. lockRow \in [by : Holders, until : Cha!Ticks]
        BY <1>a, <1>b, <1>c, <1>d, <2>1 DEF LocksKept
      <3>3. lockRow' \in [by : Holders, until : Cha!Ticks] /\ lockRow'.by = h /\ lockRow'.until = clock + Ttl
        BY <1>a, <1>b, <1>c, <1>d, <2>1, <3>1, <3>2
      <3>4. lease' \in [Holders -> Cha!Ticks \union {Cha!None}] /\ lease'[h] = clock + Ttl
        BY <1>a, <1>b, <1>c, <1>d, <3>1
      <3>5. \A k \in Holders \ {h} : lease'[k] = lease[k]
        BY <1>a, <1>b, <1>c, <1>d, <3>1
      <3> QED
        BY <2>1, <3>1, <3>3, <3>4, <3>5 DEF LocksKept
    <2>2. CASE lockRow.by # h
      <3>1. lockRow' = lockRow /\ lease' = [lease EXCEPT ![h] = Cha!None] /\ UNCHANGED <<clock, forced>>
        BY <1>7, <2>2 DEF Cha!extendLock
      <3>2. /\ lease' \in [Holders -> Cha!Ticks \union {Cha!None}] /\ lease'[h] = Cha!None
            /\ \A k \in Holders \ {h} : lease'[k] = lease[k]
        BY <1>a, <1>b, <1>c, <1>d, <3>1
      <3>3. ~ (Cha!None >= clock)
        BY <1>a DEF Cha!None
      <3> QED
        BY <2>2, <3>1, <3>2, <3>3 DEF LocksKept
    <2> QED
      BY <2>1, <2>2
  <1> QED
    BY <1>1, <1>2, <1>3, <1>4, <1>5, <1>6, <1>7 DEF Cha!Next

\* An append keeps QueueKept: the new index is above the old ones, and what the
\* cut leaves lies within MaxSize indices below it.
LEMMA EnqueueStep == ASSUME QueueKept, Cha!enqueue PROVE QueueKept'
  <1> DEFINE D == DOMAIN listRows
  <1>a. MaxEntries \in Nat /\ MaxSize \in Nat
    BY ChatAssumption
  <1>b. D \in SUBSET Nat /\ entered \in Nat /\ entered < MaxEntries /\ entered' = entered + 1 /\ taken' = taken
    BY <1>a DEF QueueKept, Cha!enqueue
  <1>1. Cha!nextIdx \in Nat /\ \A i \in D : i < Cha!nextIdx
    <2>1. CASE D = {}
      BY <2>1 DEF Cha!nextIdx, Cha!indices
    <2>2. CASE D # {}
      <3>1. PICK b \in Nat : \A i \in D : i <= b
        BY DEF QueueKept
      <3>2. \E i \in D : \A j \in D : j <= i
        BY <1>b, <2>2, <3>1, GreatestOf
      <3>3. Cha!Highest(D) \in D /\ \A j \in D : j <= Cha!Highest(D)
        BY <3>2 DEF Cha!Highest
      <3>4. Cha!nextIdx = Cha!Highest(D) + 1
        BY <2>2 DEF Cha!nextIdx, Cha!indices
      <3> HIDE DEF D
      <3>5. Cha!Highest(D) \in Nat
        BY <1>b, <3>3
      <3> QED
        BY <1>b, <3>3, <3>4, <3>5
    <2> QED
      BY <2>1, <2>2
  <1> DEFINE n == Cha!nextIdx
             K == {j \in D \union {n} : j > n - MaxSize}
  <1>2. /\ DOMAIN listRows' = K
        /\ \A i \in K : listRows'[i] = IF i = n THEN entered + 1 ELSE listRows[i]
    BY DEF Cha!enqueue, Cha!indices, Cha!cutoff
  <1>3. n \in Nat /\ \A i \in D : i < n
    BY <1>1
  <1> HIDE DEF n, D
  <1>4. K \in SUBSET Nat /\ \A i \in K : i <= n /\ (i = n \/ i \in D)
    <2>1. \A i \in D : i \in Nat /\ i <= n
      BY <1>b, <1>3
    <2> QED
      BY <1>3, <2>1
  <1>5. IsFiniteSet(K) /\ Cardinality(K) <= MaxSize
    <2> DEFINE I == (n - MaxSize + 1) .. n
    <2>1. IsFiniteSet(I) /\ Cardinality(I) = MaxSize
      BY <1>a, <1>3, FS_Interval
    <2>2. K \subseteq I
      <3>1. \A i \in K : i \in Nat /\ i <= n /\ i > n - MaxSize
        BY <1>4
      <3> QED
        BY <1>a, <1>3, <3>1
    <2> HIDE DEF I, K
    <2>3. IsFiniteSet(K) /\ Cardinality(K) <= Cardinality(I)
      BY <2>1, <2>2, FS_Subset
    <2> QED
      BY <2>1, <2>3
  <1>6. /\ \A i \in D : listRows[i] \in 1 .. entered
        /\ \A i, j \in D : i < j => listRows[i] < listRows[j]
        /\ \A i \in D : taken # <<>> => taken[Len(taken)] < listRows[i]
    BY DEF QueueKept, D
  <1>7. \A i \in K : listRows'[i] \in 1 .. entered'
    BY <1>b, <1>2, <1>4, <1>6
  <1>8. \A i, j \in K : i < j => listRows'[i] < listRows'[j]
    BY <1>b, <1>2, <1>3, <1>4, <1>6
  <1>9. taken \in Seq(1 .. MaxEntries) /\ Len(taken) \in Nat /\ (taken # <<>> => Len(taken) \in 1 .. Len(taken))
    BY DEF QueueKept
  <1>10. \A i \in 1 .. Len(taken) : taken[i] \in Nat /\ taken[i] <= entered /\ taken[i] <= entered'
    <2>1. \A i \in 1 .. Len(taken) : taken[i] \in 1 .. MaxEntries
      <3>1. taken \in Seq(1 .. MaxEntries)
        BY DEF QueueKept
      <3> QED
        BY <1>a, <3>1
    <2>2. \A i \in 1 .. Len(taken) : taken[i] \in Nat /\ taken[i] <= entered
      BY <1>a, <2>1 DEF QueueKept
    <2> QED
      BY <1>b, <2>2
  <1>11. \A i \in K : taken # <<>> => taken[Len(taken)] < listRows'[i]
    BY <1>b, <1>2, <1>4, <1>6, <1>9, <1>10
  <1>12. \A i \in 1 .. Len(taken) - 1 : taken[i] < taken[i + 1]
    BY DEF QueueKept
  <1>13. entered' \in 0 .. MaxEntries
    BY <1>a, <1>b
  <1> HIDE DEF K
  <1> QED
    BY <1>b, <1>2, <1>3, <1>4, <1>5, <1>7, <1>8, <1>9, <1>10, <1>11, <1>12, <1>13 DEF QueueKept

\* Serving the lowest index keeps QueueKept: it holds the oldest entry.
LEMMA DequeueStep == ASSUME QueueKept, Cha!dequeue PROVE QueueKept'
  <1> DEFINE D == DOMAIN listRows
             n == Cha!nextInLine
  <1>a. D \in SUBSET Nat /\ D # {} /\ entered' = entered /\ entered \in 0 .. MaxEntries
    BY DEF QueueKept, Cha!dequeue, Cha!indices
  <1>1. n \in D /\ \A j \in D : n <= j
    <2>1. \E i \in D : \A j \in D : i <= j
      BY <1>a, LeastOf
    <2>2. n = Cha!Lowest(D)
      BY DEF Cha!nextInLine, Cha!indices
    <2> HIDE DEF n, D
    <2> QED
      BY <2>1, <2>2 DEF Cha!Lowest
  <1>2. /\ DOMAIN listRows' = D \ {n} /\ \A i \in D \ {n} : listRows'[i] = listRows[i]
        /\ taken' = Append(taken, listRows[n])
    BY DEF Cha!dequeue, Cha!indices
  <1>3. /\ \A i \in D : listRows[i] \in 1 .. entered
        /\ \A i, j \in D : i < j => listRows[i] < listRows[j]
        /\ \A i \in D : taken # <<>> => taken[Len(taken)] < listRows[i]
        /\ \E b \in Nat : \A i \in D : i <= b
        /\ IsFiniteSet(D) /\ Cardinality(D) <= MaxSize
    BY DEF QueueKept
  <1> HIDE DEF n, D
  <1>4. IsFiniteSet(D \ {n}) /\ Cardinality(D \ {n}) <= MaxSize
    <2>1. IsFiniteSet(D \ {n}) /\ Cardinality(D \ {n}) = Cardinality(D) - 1 /\ Cardinality(D) \in Nat
      BY <1>1, <1>3, FS_RemoveElement, FS_CardinalityType
    <2> QED
      BY <1>3, <2>1, ChatAssumption
  <1>5. taken \in Seq(1 .. MaxEntries) /\ Len(taken) \in Nat /\ MaxEntries \in Nat
    BY ChatAssumption DEF QueueKept
  <1>6. listRows[n] \in 1 .. entered /\ listRows[n] \in 1 .. MaxEntries
    BY <1>a, <1>1, <1>3, <1>5
  <1>7. /\ taken' \in Seq(1 .. MaxEntries) /\ Len(taken') = Len(taken) + 1
        /\ taken'[Len(taken) + 1] = listRows[n] /\ taken' # <<>>
        /\ \A i \in 1 .. Len(taken) : taken'[i] = taken[i]
    BY <1>2, <1>5, <1>6
  <1>8. \A i \in 1 .. Len(taken') : taken'[i] <= entered'
    <2>1. \A i \in 1 .. Len(taken) : taken[i] <= entered
      BY DEF QueueKept
    <2>2. listRows[n] <= entered
      BY <1>5, <1>6
    <2>3. \A i \in 1 .. Len(taken') : i \in 1 .. Len(taken) \/ i = Len(taken) + 1
      BY <1>5, <1>7
    <2>4. /\ taken'[Len(taken) + 1] = listRows[n]
          /\ \A i \in 1 .. Len(taken) : taken'[i] = taken[i]
      BY <1>7
    <2> QED
      BY <1>a, <2>1, <2>2, <2>3, <2>4
  <1>9. ASSUME NEW i \in 1 .. Len(taken') - 1 PROVE taken'[i] < taken'[i + 1]
    <2>0. i \in 1 .. Len(taken)
      BY <1>5, <1>7
    <2>1. CASE i = Len(taken)
      <3>1. taken # <<>>
        BY <1>5, <2>0, <2>1
      <3> QED
        BY <1>1, <1>3, <1>5, <1>7, <2>0, <2>1, <3>1
    <2>2. CASE i # Len(taken)
      <3>1. i \in 1 .. Len(taken) - 1 /\ i + 1 \in 1 .. Len(taken)
        BY <1>5, <2>0, <2>2
      <3> QED
        BY <1>7, <2>0, <3>1 DEF QueueKept
    <2> QED
      BY <2>1, <2>2
  <1>10. \A i \in D \ {n} : taken'[Len(taken')] < listRows'[i]
    BY <1>a, <1>1, <1>2, <1>3, <1>5, <1>7, SMTT(40)
  <1>11. D \ {n} \in SUBSET Nat /\ \E b \in Nat : \A i \in D \ {n} : i <= b
    BY <1>a, <1>3
  <1>12. \A i \in D \ {n} : listRows'[i] \in 1 .. entered'
    BY <1>a, <1>2, <1>3
  <1>13. \A i, j \in D \ {n} : i < j => listRows'[i] < listRows'[j]
    BY <1>2, <1>3
  <1> QED
    BY <1>a, <1>2, <1>4, <1>7, <1>8, <1>9, <1>10, <1>11, <1>12, <1>13 DEF QueueKept

\* The other steps leave the queue alone.
LEMMA QueueStep == ASSUME QueueKept, Cha!Next PROVE QueueKept'
  <1>1. CASE Cha!enqueue
    BY <1>1, EnqueueStep
  <1>2. CASE Cha!dequeue
    BY <1>2, DequeueStep
  <1>3. CASE UNCHANGED <<listRows, entered, taken>>
    BY <1>3 DEF QueueKept
  <1> QED
    BY <1>1, <1>2, <1>3 DEF Cha!Next, Cha!Tick, Cha!forceReleaseLock, Cha!cleanup, Cha!acquireLock,
       Cha!releaseLock, Cha!extendLock

\* What ChatInv says of a behaviour about the chat state.
ChatInv == focus = "chat" => LocksKept /\ QueueKept

\* The thread's row and queue are empty at first.
LEMMA ChatInit == ASSUME Init PROVE ChatInv
  <1>1. LocksKept
    BY ChatAssumption DEF Init, Cha!Init, LocksKept, Cha!NoLock, Cha!None, Cha!Ticks
  <1>2. listRows = <<>> /\ entered = 0 /\ taken = <<>>
    BY DEF Init, Cha!Init
  <1>3. DOMAIN listRows = {} /\ Len(taken) = 0 /\ taken \in Seq(1 .. MaxEntries)
    BY <1>2
  <1>4. IsFiniteSet(DOMAIN listRows) /\ Cardinality(DOMAIN listRows) = 0
    BY <1>3, FS_EmptySet
  <1>5. 1 .. Len(taken) = {} /\ 1 .. Len(taken) - 1 = {}
    BY <1>3
  <1>6. QueueKept
    BY <1>2, <1>3, <1>4, <1>5, ChatAssumption DEF QueueKept
  <1> QED
    BY <1>1, <1>6 DEF ChatInv

\* The properties follow from what the locks and the queue keep.
LEMMA ChatImplied == ASSUME ChatInv PROVE LocksAndQueues
  <1> SUFFICES ASSUME focus = "chat", LocksKept, QueueKept PROVE Cha!LocksAndQueues
    BY DEF ChatInv, LocksAndQueues
  <1>1. Cha!TypeOK
    <2>1. lockRow.by \in Holders \union {"nobody"} /\ lockRow.until \in Cha!Ticks \union {Cha!None}
      BY DEF LocksKept, Cha!NoLock
    <2>2. \A i \in DOMAIN listRows : i >= 0 /\ listRows[i] \in 1 .. MaxEntries
      BY ChatAssumption DEF QueueKept
    <2> QED
      BY <2>1, <2>2 DEF Cha!TypeOK, Cha!indices, LocksKept, QueueKept
  <1>2. Cha!LockExclusive
    BY DEF Cha!LockExclusive, LocksKept
  <1>3. Cha!QueueInOrder
    <2>0. Cha!indices = DOMAIN listRows
      BY DEF Cha!indices
    <2>1. Cha!Cardinality(Cha!indices) <= MaxSize
      BY <2>0, ChaCounts DEF QueueKept
    <2>2. \A i, j \in Cha!indices : i < j => listRows[i] < listRows[j]
      BY <2>0 DEF QueueKept
    <2>3. \A i \in 1 .. Len(taken) - 1 : taken[i] < taken[i + 1]
      BY <2>0 DEF QueueKept
    <2>4. \A i \in Cha!indices : taken # <<>> => taken[Len(taken)] < listRows[i]
      BY <2>0 DEF QueueKept
    <2> QED
      BY <2>1, <2>2, <2>3, <2>4 DEF Cha!QueueInOrder
  <1> QED
    BY <1>1, <1>2, <1>3 DEF Cha!LocksAndQueues

\* Two handlers of a thread never work under locks that both still run unless
\* one was taken by force, and the thread's queue keeps its size and its order
\* (state-sqlite.ts).
THEOREM ChatSafe == Spec => []LocksAndQueues
  <1>1. Init => ChatInv
    BY ChatInit
  <1>2. ASSUME ChatInv, [Next]_vars PROVE ChatInv'
    <2>1. CASE focus = "chat" /\ Cha!Next /\ UNCHANGED focus
      BY <1>2, <2>1, LocksStep, QueueStep DEF ChatInv
    <2>2. CASE UNCHANGED <<focus, chaVars>>
      BY <1>2, <2>2 DEF ChatInv, LocksKept, QueueKept, chaVars
    <2> QED
      BY <1>2, <2>1, <2>2 DEF Next, vars
  <1>3. ChatInv => LocksAndQueues
    BY ChatImplied
  <1> QED
    BY <1>1, <1>2, <1>3, PTL DEF Spec

(***************************************************************************)
(* The numbers of a session's messages (MessageSeqs).                      *)
(***************************************************************************)
\* Inbound numbers are the even ones, one after the other.
InboundKept ==
    /\ inSeqs \in SUBSET Nat /\ IsFiniteSet(inSeqs) /\ Cardinality(inSeqs) <= MaxRows
    /\ \A n \in inSeqs : n % 2 = 0 /\ n >= 2 /\ n <= 2 * Cardinality(inSeqs)

\* An outbound number runs ahead of its table by no more than the inbound ones.
OutboundKept ==
    /\ outRows \subseteq [seq : Num!Seqs, by : Writers \union {"host"}] /\ IsFiniteSet(outRows)
    /\ \A r \in outRows : r.seq <= 2 * Cardinality(outRows) + 2 * MaxRows

\* The two values a writer reads, the second at least the first.
ReadsKept ==
    /\ reads \in [Writers -> [out : Nat \union {Num!None}, both : Nat \union {Num!None}]]
    /\ \A w \in Writers : reads[w].out # Num!None =>
         reads[w].out <= 4 * MaxRows - 2 /\ reads[w].out <= 2 * Cardinality(outRows) + 2 * MaxRows
    /\ \A w \in Writers : reads[w].both # Num!None =>
         /\ reads[w].out # Num!None /\ reads[w].out <= reads[w].both
         /\ reads[w].both <= 4 * MaxRows - 2 /\ reads[w].both <= 2 * Cardinality(outRows) + 2 * MaxRows

\* The agent knows even inbound and odd outbound numbers of rows that exist.
ToldKept ==
    /\ told \subseteq [seq : Num!Seqs, what : {"in", "out"}]
    /\ \A t \in told : IF t.what = "in" THEN t.seq \in inSeqs ELSE t.seq % 2 = 1 /\ t.seq \in Num!outSeqs

\* Until another row comes in between, what a writer read is still the maximum.
RacesKept ==
    /\ refusedBy \subseteq raced /\ raced \subseteq Writers
    /\ \A w \in Writers \ raced : reads[w].out # Num!None => \A n \in Num!outSeqs : n <= reads[w].out

\* All of it.
NumbersKept == InboundKept /\ OutboundKept /\ ReadsKept /\ ToldKept /\ RacesKept

\* What a statement that reads a maximum returns.
LEMMA LargestIs ==
    ASSUME NEW S \in SUBSET Nat, NEW b \in Nat, \A j \in S : j <= b
    PROVE  /\ Num!Largest(S) \in S \union {0} /\ Num!Largest(S) \in Nat
           /\ \A j \in S : j <= Num!Largest(S)
  <1>1. \E i \in S \union {0} : \A j \in S : j <= i
    <2>1. CASE S = {}
      BY <2>1
    <2>2. CASE S # {}
      BY <2>2, GreatestOf
    <2> QED
      BY <2>1, <2>2
  <1>2. Num!Largest(S) \in S \union {0} /\ \A j \in S : j <= Num!Largest(S)
    BY <1>1 DEF Num!Largest
  <1>3. S \union {0} \subseteq Nat
    OBVIOUS
  <1>4. Num!Largest(S) \in Nat
    BY <1>2, <1>3
  <1> QED
    BY <1>2, <1>4

\* Counts and numbers of the tables.
LEMMA TableFacts ==
    ASSUME InboundKept, OutboundKept
    PROVE  /\ Cardinality(inSeqs) \in Nat /\ Cardinality(outRows) \in Nat
           /\ \A n \in inSeqs : n <= 2 * MaxRows
           /\ Num!outSeqs \in SUBSET Nat /\ \A n \in Num!outSeqs : n \in Num!Seqs
           /\ \A n \in Num!outSeqs : n <= 2 * Cardinality(outRows) + 2 * MaxRows
           /\ Num!Seqs \subseteq Nat \ {0}
  <1>1. Cardinality(inSeqs) \in Nat /\ Cardinality(outRows) \in Nat
    BY FS_CardinalityType DEF InboundKept, OutboundKept
  <1>2. \A n \in inSeqs : n <= 2 * MaxRows
    BY <1>1, NumbersAssumption DEF InboundKept
  <1>3. Num!Seqs \subseteq Nat \ {0}
    BY NumbersAssumption DEF Num!Seqs
  <1>4. \A r \in outRows : r.seq \in Num!Seqs /\ r.seq <= 2 * Cardinality(outRows) + 2 * MaxRows
    BY DEF OutboundKept
  <1>5. \A n \in Num!outSeqs : \E r \in outRows : n = r.seq
    BY DEF Num!outSeqs
  <1> QED
    BY <1>1, <1>2, <1>3, <1>4, <1>5

\* An inbound row gets the next even number.
LEMMA InsertStep == ASSUME NumbersKept, Num!insertMessage PROVE NumbersKept'
  <1> DEFINE m == Num!Largest(inSeqs)
             n == Num!nextEvenSeq
  <1>a. InboundKept /\ OutboundKept /\ ReadsKept /\ ToldKept /\ RacesKept /\ MaxRows \in Nat
    BY NumbersAssumption DEF NumbersKept
  <1>b. /\ Cardinality(inSeqs) \in Nat /\ inSeqs \in SUBSET Nat
        /\ \A k \in inSeqs : k % 2 = 0 /\ k >= 2 /\ k <= 2 * Cardinality(inSeqs)
    BY <1>a, TableFacts DEF InboundKept
  <1>c. Cardinality(inSeqs) < MaxRows
    BY NumCounts DEF Num!insertMessage
  <1>1. m \in inSeqs \union {0} /\ m \in Nat /\ \A j \in inSeqs : j <= m
    <2>1. 2 * Cardinality(inSeqs) \in Nat
      BY <1>b
    <2>2. \A j \in inSeqs : j <= 2 * Cardinality(inSeqs)
      BY <1>b
    <2> QED
      BY <1>b, <2>1, <2>2, LargestIs
  <1>2. n = IF m < 2 THEN 2 ELSE m + 2 - (m % 2)
    BY DEF Num!nextEvenSeq
  <1> HIDE DEF m, n
  <1>3. m % 2 = 0 /\ (m < 2 => m = 0) /\ m <= 2 * Cardinality(inSeqs)
    BY <1>b, <1>1
  <1>4. n = m + 2 /\ n % 2 = 0 /\ n >= 2
    BY <1>1, <1>2, <1>3
  <1>5. n \notin inSeqs
    BY <1>1, <1>4
  <1>6. /\ inSeqs' = inSeqs \union {n} /\ told' = told \union {[seq |-> n, what |-> "in"]}
        /\ UNCHANGED <<outRows, reads, refusedBy, raced>>
    BY DEF Num!insertMessage, n
  <1>7. IsFiniteSet(inSeqs') /\ Cardinality(inSeqs') = Cardinality(inSeqs) + 1
    BY <1>a, <1>5, <1>6, FS_AddElement DEF InboundKept
  <1>8. InboundKept'
    <2>1. inSeqs' \in SUBSET Nat /\ Cardinality(inSeqs') <= MaxRows
      BY <1>a, <1>b, <1>c, <1>1, <1>4, <1>6, <1>7
    <2>2. \A k \in inSeqs' : k % 2 = 0 /\ k >= 2 /\ k <= 2 * Cardinality(inSeqs')
      BY <1>b, <1>1, <1>3, <1>4, <1>6, <1>7
    <2> QED
      BY <1>7, <2>1, <2>2 DEF InboundKept
  <1>9. Num!outSeqs' = Num!outSeqs
    BY <1>6 DEF Num!outSeqs
  <1>10. OutboundKept' /\ ReadsKept' /\ RacesKept'
    BY <1>a, <1>6, <1>9 DEF OutboundKept, ReadsKept, RacesKept
  <1>11. n \in Num!Seqs
    <2>1. n <= 2 * MaxRows
      BY <1>a, <1>b, <1>c, <1>1, <1>3, <1>4
    <2> QED
      BY <1>a, <1>1, <1>4, <2>1 DEF Num!Seqs
  <1>12. ToldKept'
    BY <1>a, <1>6, <1>9, <1>11 DEF ToldKept
  <1> QED
    BY <1>8, <1>10, <1>12 DEF NumbersKept

\* What the first statement of a writer, and the host's row, read of messages_out.
LEMMA MaxOut ==
    ASSUME NumbersKept, Cardinality(outRows) < MaxRows
    PROVE  /\ Num!Largest(Num!outSeqs) \in Nat
           /\ Num!Largest(Num!outSeqs) <= 4 * MaxRows - 2
           /\ Num!Largest(Num!outSeqs) <= 2 * Cardinality(outRows) + 2 * MaxRows
           /\ \A n \in Num!outSeqs : n <= Num!Largest(Num!outSeqs)
  <1> DEFINE S == Num!outSeqs
             m == Num!Largest(S)
             b == 2 * Cardinality(outRows) + 2 * MaxRows
  <1>1. S \in SUBSET Nat /\ Cardinality(outRows) \in Nat /\ MaxRows \in Nat /\ \A n \in S : n <= b
    BY TableFacts, NumbersAssumption DEF NumbersKept
  <1>2. b \in Nat /\ b <= 4 * MaxRows - 2
    BY <1>1
  <1> HIDE DEF b, S
  <1>3. m \in S \union {0} /\ m \in Nat /\ \A j \in S : j <= m
    BY <1>1, <1>2, LargestIs
  <1> HIDE DEF m
  <1>4. m <= b
    BY <1>1, <1>2, <1>3
  <1>5. m <= 4 * MaxRows - 2
    BY <1>1, <1>2, <1>3, <1>4
  <1> QED
    BY <1>3, <1>4, <1>5 DEF b, m, S

\* Writing down a maximum read.
LEMMA ReadStep ==
    ASSUME NumbersKept, NEW w \in Writers, Num!ReadMaxOut(w) \/ Num!ReadMaxIn(w)
    PROVE  NumbersKept'
  <1>a. InboundKept /\ OutboundKept /\ ReadsKept /\ ToldKept /\ RacesKept /\ MaxRows \in Nat
    BY NumbersAssumption DEF NumbersKept
  <1>b. UNCHANGED <<inSeqs, outRows, told, refusedBy, raced>>
    BY DEF Num!ReadMaxOut, Num!ReadMaxIn
  <1>c. Num!outSeqs' = Num!outSeqs
    BY <1>b DEF Num!outSeqs
  <1>d. InboundKept' /\ OutboundKept' /\ ToldKept'
    BY <1>a, <1>b, <1>c DEF InboundKept, OutboundKept, ToldKept
  <1>e. reads \in [Writers -> [out : Nat \union {Num!None}, both : Nat \union {Num!None}]] /\ Num!None \notin Nat
    BY <1>a DEF ReadsKept, Num!None
  <1>1. CASE Num!ReadMaxOut(w)
    <2> DEFINE m == Num!Largest(Num!outSeqs)
    <2>1. /\ reads[w].both = Num!None /\ reads' = [reads EXCEPT ![w].out = m]
          /\ Cardinality(outRows) < MaxRows
      BY <1>1, NumCounts DEF Num!ReadMaxOut, Num!Idle
    <2>2. /\ m \in Nat /\ m <= 4 * MaxRows - 2 /\ m <= 2 * Cardinality(outRows) + 2 * MaxRows
          /\ \A n \in Num!outSeqs : n <= m
      BY <2>1, MaxOut
    <2> HIDE DEF m
    <2>3. /\ reads' \in [Writers -> [out : Nat \union {Num!None}, both : Nat \union {Num!None}]]
          /\ reads'[w].out = m /\ reads'[w].both = Num!None
          /\ \A v \in Writers \ {w} : reads'[v] = reads[v]
      BY <1>e, <2>1, <2>2
    <2>4. ReadsKept'
      BY <1>a, <1>b, <2>2, <2>3 DEF ReadsKept
    <2>5. RacesKept'
      BY <1>a, <1>b, <1>c, <2>2, <2>3 DEF RacesKept
    <2> QED
      BY <1>d, <2>4, <2>5 DEF NumbersKept
  <1>2. CASE Num!ReadMaxIn(w)
    <2> DEFINE o == reads[w].out
               S == {o} \union inSeqs
               m == Num!Largest(S)
               b == 2 * Cardinality(outRows) + 2 * MaxRows
    <2>1. o # Num!None /\ reads' = [reads EXCEPT ![w].both = m]
      BY <1>2 DEF Num!ReadMaxIn, Num!maxOfBoth
    <2>2. o \in Nat /\ o <= 4 * MaxRows - 2 /\ o <= b
      BY <1>a, <1>e, <2>1 DEF ReadsKept
    <2>3. Cardinality(outRows) \in Nat /\ (\A n \in inSeqs : n <= 2 * MaxRows) /\ inSeqs \in SUBSET Nat
      BY <1>a, TableFacts DEF InboundKept
    <2>4. MaxRows >= 1 /\ b \in Nat /\ 2 * MaxRows <= b /\ 2 * MaxRows <= 4 * MaxRows - 2
      BY <1>a, <2>2, <2>3
    <2> HIDE DEF o, b
    <2>5. S \in SUBSET Nat /\ \A n \in S : n <= b /\ n <= 4 * MaxRows - 2
      <3>1. \A n \in inSeqs : n \in Nat /\ n <= b /\ n <= 4 * MaxRows - 2
        BY <1>a, <2>3, <2>4
      <3> QED
        BY <2>2, <3>1
    <2>6. o \in S
      OBVIOUS
    <2> HIDE DEF S
    <2>7. m \in S \union {0} /\ m \in Nat /\ \A j \in S : j <= m
      BY <2>4, <2>5, LargestIs
    <2> HIDE DEF m
    <2>8. m <= b /\ m <= 4 * MaxRows - 2 /\ o <= m
      BY <1>a, <2>4, <2>5, <2>6, <2>7
    <2>9. /\ reads' \in [Writers -> [out : Nat \union {Num!None}, both : Nat \union {Num!None}]]
          /\ reads'[w].out = o /\ reads'[w].both = m
          /\ \A v \in Writers \ {w} : reads'[v] = reads[v]
      BY <1>e, <2>1, <2>7 DEF o
    <2>10. ReadsKept'
      BY <1>a, <1>b, <2>1, <2>2, <2>8, <2>9 DEF ReadsKept, b
    <2>11. RacesKept'
      BY <1>a, <1>b, <1>c, <2>9 DEF RacesKept, o
    <2> QED
      BY <1>d, <2>10, <2>11 DEF NumbersKept
  <1> QED
    BY <1>1, <1>2

\* A new row of messages_out, by a writer or the host.
LEMMA NewOutRow ==
    ASSUME InboundKept, OutboundKept, ReadsKept, NEW n \in Num!Seqs, n \notin Num!outSeqs,
           n <= 2 * Cardinality(outRows) + 2 * MaxRows + 2,
           NEW by \in Writers \union {"host"}, outRows' = outRows \union {[seq |-> n, by |-> by]}
    PROVE  /\ OutboundKept' /\ Num!outSeqs' = Num!outSeqs \union {n}
           /\ Cardinality(outRows') = Cardinality(outRows) + 1
  <1> DEFINE r == [seq |-> n, by |-> by]
  <1>1. r \notin outRows
    BY DEF Num!outSeqs
  <1>2. r \in [seq : Num!Seqs, by : Writers \union {"host"}] /\ r.seq = n
    OBVIOUS
  <1>3. outRows' = outRows \union {r}
    OBVIOUS
  <1> HIDE DEF r
  <1>4. IsFiniteSet(outRows') /\ Cardinality(outRows') = Cardinality(outRows) + 1
    BY <1>1, <1>3, FS_AddElement DEF OutboundKept
  <1>5. Num!outSeqs' = Num!outSeqs \union {n}
    BY <1>2, <1>3 DEF Num!outSeqs
  <1>6. Cardinality(outRows) \in Nat /\ MaxRows \in Nat /\ Num!Seqs \subseteq Nat
    BY TableFacts, NumbersAssumption
  <1>7. \A q \in outRows : q.seq \in Nat /\ q.seq <= 2 * Cardinality(outRows) + 2 * MaxRows
    BY <1>6 DEF OutboundKept
  <1>8. \A q \in outRows' : q.seq <= 2 * Cardinality(outRows') + 2 * MaxRows
    BY <1>2, <1>3, <1>4, <1>6, <1>7
  <1>9. OutboundKept'
    BY <1>2, <1>3, <1>4, <1>8 DEF OutboundKept
  <1> QED
    BY <1>4, <1>5, <1>9

\* The host's row takes a number nobody is told.
LEMMA HostRowStep == ASSUME NumbersKept, Num!writeOutboundDirect PROVE NumbersKept'
  <1> DEFINE m == Num!Largest(Num!outSeqs)
             n == m + 2
  <1>a. InboundKept /\ OutboundKept /\ ReadsKept /\ ToldKept /\ RacesKept /\ MaxRows \in Nat
    BY NumbersAssumption DEF NumbersKept
  <1>b. Cardinality(outRows) < MaxRows /\ Cardinality(outRows) \in Nat
    BY <1>a, NumCounts, TableFacts DEF Num!writeOutboundDirect
  <1>1. /\ m \in Nat /\ m <= 4 * MaxRows - 2 /\ m <= 2 * Cardinality(outRows) + 2 * MaxRows
        /\ \A k \in Num!outSeqs : k <= m
    BY <1>b, MaxOut
  <1>2. /\ outRows' = outRows \union {[seq |-> n, by |-> "host"]}
        /\ raced' = raced \union {v \in Writers : reads[v].out # Num!None}
        /\ UNCHANGED <<inSeqs, reads, told, refusedBy>>
    BY DEF Num!writeOutboundDirect
  <1> HIDE DEF m
  <1>3. n \in Num!Seqs /\ n <= 2 * Cardinality(outRows) + 2 * MaxRows + 2
    BY <1>a, <1>b, <1>1 DEF Num!Seqs
  <1>4. n \notin Num!outSeqs
    <2>1. ~ (n <= m)
      BY <1>1
    <2> QED
      BY <1>1, <2>1
  <1> HIDE DEF n
  <1>5. /\ OutboundKept' /\ Num!outSeqs' = Num!outSeqs \union {n}
        /\ Cardinality(outRows') = Cardinality(outRows) + 1
    BY <1>a, <1>2, <1>3, <1>4, NewOutRow
  <1>6. InboundKept'
    BY <1>a, <1>2 DEF InboundKept
  <1>7. ReadsKept'
    <2>1. \A v \in Writers : reads[v].out \in Nat \union {Num!None} /\ reads[v].both \in Nat \union {Num!None}
      BY <1>a DEF ReadsKept
    <2>2. \A k \in Nat : k <= 2 * Cardinality(outRows) + 2 * MaxRows => k <= 2 * Cardinality(outRows') + 2 * MaxRows
      BY <1>a, <1>b, <1>5
    <2> QED
      BY <1>a, <1>2, <2>1, <2>2 DEF ReadsKept
  <1>8. ToldKept'
    BY <1>a, <1>2, <1>5 DEF ToldKept
  <1>9. RacesKept'
    BY <1>a, <1>2, <1>5 DEF RacesKept
  <1> QED
    BY <1>5, <1>6, <1>7, <1>8, <1>9 DEF NumbersKept

\* A writer's insert: a number it alone computed from an unraced read is free.
LEMMA WriterStep == ASSUME NumbersKept, NEW w \in Writers, Num!writeMessageOut(w) PROVE NumbersKept'
  <1> DEFINE o == reads[w].out
             m == reads[w].both
             n == Num!nextOddSeq(m)
  <1>a. InboundKept /\ OutboundKept /\ ReadsKept /\ ToldKept /\ RacesKept /\ MaxRows \in Nat
    BY NumbersAssumption DEF NumbersKept
  <1>b. Cardinality(outRows) \in Nat /\ Num!Seqs \subseteq Nat
    BY <1>a, TableFacts
  <1>1. /\ m # Num!None /\ reads' = [reads EXCEPT ![w] = Num!Idle] /\ inSeqs' = inSeqs
        /\ raced' = raced \union {v \in Writers \ {w} : reads[v].out # Num!None}
    BY DEF Num!writeMessageOut
  <1>2. /\ m \in Nat /\ m <= 4 * MaxRows - 2 /\ m <= 2 * Cardinality(outRows) + 2 * MaxRows
        /\ o \in Nat /\ o # Num!None /\ o <= m
    BY <1>a, <1>1 DEF ReadsKept
  <1>3. n = IF m % 2 = 0 THEN m + 1 ELSE m + 2
    BY DEF Num!nextOddSeq
  <1>4. \/ n \in Num!outSeqs /\ refusedBy' = refusedBy \union {w} /\ UNCHANGED <<outRows, told>>
        \/ /\ n \notin Num!outSeqs /\ outRows' = outRows \union {[seq |-> n, by |-> w]}
           /\ told' = told \union {[seq |-> n, what |-> "out"]} /\ refusedBy' = refusedBy
    BY DEF Num!writeMessageOut
  <1>5. /\ reads' \in [Writers -> [out : Nat \union {Num!None}, both : Nat \union {Num!None}]]
        /\ reads'[w].out = Num!None /\ reads'[w].both = Num!None
        /\ \A v \in Writers \ {w} : reads'[v] = reads[v]
    BY <1>a, <1>1 DEF ReadsKept, Num!Idle
  <1>6. w \notin raced => \A k \in Num!outSeqs : k <= o
    BY <1>a, <1>2 DEF RacesKept
  <1> HIDE DEF o, m, n
  <1>7. n \in Nat /\ n > m /\ n <= m + 2 /\ n % 2 = 1
    BY <1>2, <1>3
  <1>8. n \in Num!Seqs /\ n <= 2 * Cardinality(outRows) + 2 * MaxRows + 2
    BY <1>a, <1>b, <1>2, <1>7 DEF Num!Seqs
  <1>9. InboundKept'
    BY <1>a, <1>1 DEF InboundKept
  <1>10. CASE n \in Num!outSeqs
    <2>1. refusedBy' = refusedBy \union {w} /\ UNCHANGED <<outRows, told>>
      BY <1>4, <1>10
    <2>2. w \in raced
      BY <1>2, <1>6, <1>7, <1>10
    <2>3. Num!outSeqs' = Num!outSeqs
      BY <2>1 DEF Num!outSeqs
    <2>4. OutboundKept' /\ ToldKept'
      BY <1>a, <1>1, <2>1, <2>3 DEF OutboundKept, ToldKept
    <2>5. ReadsKept'
      BY <1>a, <1>5, <2>1 DEF ReadsKept
    <2>6. RacesKept'
      BY <1>a, <1>1, <1>5, <2>1, <2>2, <2>3 DEF RacesKept
    <2> QED
      BY <1>9, <2>4, <2>5, <2>6 DEF NumbersKept
  <1>11. CASE n \notin Num!outSeqs
    <2>1. /\ outRows' = outRows \union {[seq |-> n, by |-> w]}
          /\ told' = told \union {[seq |-> n, what |-> "out"]} /\ refusedBy' = refusedBy
      BY <1>4, <1>11
    <2>2. /\ OutboundKept' /\ Num!outSeqs' = Num!outSeqs \union {n}
          /\ Cardinality(outRows') = Cardinality(outRows) + 1
      BY <1>a, <1>8, <1>11, <2>1, NewOutRow
    <2>3. ReadsKept'
      <3>1. \A v \in Writers : reads[v].out \in Nat \union {Num!None} /\ reads[v].both \in Nat \union {Num!None}
        BY <1>a DEF ReadsKept
      <3>2. \A k \in Nat : k <= 2 * Cardinality(outRows) + 2 * MaxRows => k <= 2 * Cardinality(outRows') + 2 * MaxRows
        BY <1>a, <1>b, <2>2
      <3> QED
        BY <1>a, <1>5, <3>1, <3>2 DEF ReadsKept
    <2>4. ToldKept'
      BY <1>a, <1>1, <1>7, <1>8, <2>1, <2>2 DEF ToldKept
    <2>5. RacesKept'
      BY <1>a, <1>1, <1>5, <2>1, <2>2 DEF RacesKept
    <2> QED
      BY <1>9, <2>2, <2>3, <2>4, <2>5 DEF NumbersKept
  <1> QED
    BY <1>10, <1>11

\* NumbersKept in the behaviours about the numbers.
NumbersInv == focus = "numbers" => NumbersKept

\* The tables are empty at first.
LEMMA NumbersInit == ASSUME Init PROVE NumbersInv
  <1>1. /\ inSeqs = {} /\ outRows = {} /\ told = {} /\ refusedBy = {} /\ raced = {}
        /\ reads = [w \in Writers |-> [out |-> Num!None, both |-> Num!None]]
    BY DEF Init, Num!Init, Num!Idle
  <1>2. IsFiniteSet({}) /\ Cardinality({}) = 0
    BY FS_EmptySet
  <1>3. InboundKept /\ OutboundKept
    BY <1>1, <1>2, NumbersAssumption DEF InboundKept, OutboundKept
  <1>4. ReadsKept
    BY <1>1 DEF ReadsKept
  <1>5. ToldKept /\ RacesKept
    BY <1>1 DEF ToldKept, RacesKept
  <1> QED
    BY <1>3, <1>4, <1>5 DEF NumbersInv, NumbersKept

\* The properties follow: even numbers are looked up inbound, odd ones outbound.
LEMMA NumbersImplied == ASSUME NumbersInv PROVE NumberingSound
  <1> SUFFICES ASSUME NumbersKept PROVE Num!NumberingSound
    BY DEF NumbersInv, NumberingSound
  <1>a. InboundKept /\ OutboundKept /\ ReadsKept /\ ToldKept /\ RacesKept /\ MaxRows \in Nat
    BY NumbersAssumption DEF NumbersKept
  <1>1. Num!TypeOK
    <2>1. inSeqs \subseteq Num!Seqs
      BY <1>a, TableFacts DEF InboundKept, Num!Seqs
    <2>2. ASSUME NEW w \in Writers
          PROVE  /\ reads[w].out \in Num!Seqs \union {Num!None, 0}
                 /\ reads[w].both \in Num!Seqs \union {Num!None, 0}
      <3>1. \A k \in Nat : k <= 4 * MaxRows - 2 => k \in Num!Seqs \union {0}
        BY <1>a DEF Num!Seqs
      <3> QED
        BY <1>a, <3>1 DEF ReadsKept
    <2>3. refusedBy \subseteq Writers /\ raced \subseteq Writers
      BY <1>a DEF RacesKept
    <2> QED
      BY <1>a, <2>1, <2>2, <2>3 DEF Num!TypeOK, OutboundKept, ToldKept
  <1>2. Num!NumbersResolve
    <2> SUFFICES ASSUME NEW t \in told PROVE Num!getMessageIdBySeq(t.seq) = t.what
      BY DEF Num!NumbersResolve
    <2>1. CASE t.what = "in"
      BY <1>a, <2>1 DEF ToldKept, Num!getMessageIdBySeq
    <2>2. CASE t.what # "in"
      <3>1. t.what = "out" /\ t.seq % 2 = 1 /\ t.seq \in Num!outSeqs
        BY <1>a, <2>2 DEF ToldKept
      <3>2. t.seq \notin inSeqs
        <4>1. \A k \in inSeqs : k % 2 = 0
          BY <1>a DEF InboundKept
        <4>2. t.seq \in inSeqs => t.seq % 2 = 0
          BY <4>1
        <4> QED
          BY <3>1, <4>2
      <3> QED
        BY <3>1, <3>2 DEF Num!getMessageIdBySeq
    <2> QED
      BY <2>1, <2>2
  <1>3. Num!RefusalNeedsRace
    BY <1>a DEF RacesKept, Num!RefusalNeedsRace
  <1> QED
    BY <1>1, <1>2, <1>3 DEF Num!NumberingSound

\* A number the agent was given names its message whenever it is used later,
\* and a writer's insert is refused only if another row came in between
\* (messages-out.ts, session-manager.ts).
THEOREM NumbersSafe == Spec => []NumberingSound
  <1>1. Init => NumbersInv
    BY NumbersInit
  <1>2. ASSUME NumbersInv, [Next]_vars PROVE NumbersInv'
    <2>1. CASE focus = "numbers" /\ Num!Next /\ UNCHANGED focus
      <3>1. NumbersKept
        BY <1>2, <2>1 DEF NumbersInv
      <3>2. NumbersKept'
        BY <2>1, <3>1, InsertStep, HostRowStep, ReadStep, WriterStep DEF Num!Next
      <3> QED
        BY <3>2 DEF NumbersInv
    <2>2. CASE UNCHANGED <<focus, numVars>>
      <3>1. Num!outSeqs' = Num!outSeqs
        BY <2>2 DEF Num!outSeqs, numVars
      <3> QED
        BY <1>2, <2>2, <3>1 DEF NumbersInv, NumbersKept, InboundKept, OutboundKept, ReadsKept, ToldKept,
           RacesKept, numVars
    <2> QED
      BY <1>2, <2>1, <2>2 DEF Next, vars
  <1>3. NumbersInv => NumberingSound
    BY NumbersImplied
  <1> QED
    BY <1>1, <1>2, <1>3, PTL DEF Spec

(***************************************************************************)
(* Sessions, their archives and the user's scope (SessionLife).            *)
(***************************************************************************)
TarRecords == [last : Lif!Days \union {Lif!Never}, at : Lif!Days \union {Lif!Never}, copied : SUBSET Texts]

\* Types, with the history that Lif!TypeOK leaves out.
LifeTypes ==
    /\ Lif!TypeOK
    /\ taring \in [SessionIds -> TarRecords]
    /\ usedOn \in Lif!Days \union {Lif!Never} /\ auditedDel \in BOOLEAN
    /\ removals \in Nat /\ audits \in Nat

\* While a tar runs its session is active and has its directory; if no message
\* has stamped the session since, only quiet rows came after the tar began.
TarsKept ==
    \A s \in SessionIds : taring[s] # Lif!NoTar =>
      /\ sessStatus[s] = "active" /\ dir[s] # Lif!Gone
      /\ taring[s].last \in Lif!Days /\ taring[s].at \in Lif!Days /\ taring[s].last < today
      /\ lastActive[s] = taring[s].last => dir[s].rows \ taring[s].copied \subseteq quiet

\* What was destroyed and what failed.
TextsKept == lostTexts \subseteq quiet /\ (failed # {} => cutArchive # {}) /\ Lif!OnePlace

\* The marker is at least as new as the last mount; a running session of the
\* user has its scope; a delete still owed is audited already.
ScopeKept ==
    /\ early = FALSE
    /\ scope => marker \in Lif!Days /\ (usedOn # Lif!Never => usedOn <= marker)
    /\ \A s \in running : sessStatus[s] = "active" => scope
    /\ removals + (IF auditedDel THEN 1 ELSE 0) <= audits

\* All of it.
LifeKept == LifeTypes /\ TarsKept /\ TextsKept /\ ScopeKept

\* Directories, and what becomes of one that takes a row.
LEMMA DirFacts ==
    /\ Lif!Gone \in Lif!Dirs /\ Lif!Gone.rows = {}
    /\ \A r \in SUBSET Texts : Lif!Holding(r) \in Lif!Dirs /\ Lif!Holding(r).rows = r /\ Lif!Holding(r) # Lif!Gone
    /\ \A d \in Lif!Dirs : d.rows \in SUBSET Texts
    /\ \A d \in Lif!Dirs, t \in Texts :
         LET e == [d EXCEPT !.rows = @ \union {t}]
         IN  e \in Lif!Dirs /\ e.rows = d.rows \union {t} /\ e # Lif!Gone
  <1>1. Lif!Gone \in Lif!Dirs /\ Lif!Gone.rows = {}
    BY DEF Lif!Gone, Lif!Dirs
  <1>2. ASSUME NEW r \in SUBSET Texts
        PROVE  Lif!Holding(r) \in Lif!Dirs /\ Lif!Holding(r).rows = r /\ Lif!Holding(r) # Lif!Gone
    <2>1. Lif!Holding(r) \in Lif!Dirs /\ Lif!Holding(r).rows = r /\ Lif!Holding(r).there = TRUE
      BY DEF Lif!Holding, Lif!Dirs
    <2>2. Lif!Gone.there = FALSE
      BY DEF Lif!Gone
    <2> QED
      BY <2>1, <2>2
  <1>3. \A d \in Lif!Dirs : d.rows \in SUBSET Texts
    BY DEF Lif!Dirs
  <1>4. ASSUME NEW d \in Lif!Dirs, NEW t \in Texts
        PROVE  LET e == [d EXCEPT !.rows = @ \union {t}]
               IN  e \in Lif!Dirs /\ e.rows = d.rows \union {t} /\ e # Lif!Gone
    <2> DEFINE e == [d EXCEPT !.rows = @ \union {t}]
    <2>1. e \in Lif!Dirs /\ e.rows = d.rows \union {t}
      BY DEF Lif!Dirs
    <2>2. e.rows # {}
      BY <2>1
    <2> HIDE DEF e
    <2>3. e # Lif!Gone
      BY <1>1, <2>2
    <2> QED
      BY <2>1, <2>3 DEF e
  <1> QED
    BY <1>1, <1>2, <1>3, <1>4

\* The types one by one.
LEMMA LifeTypeFacts ==
    ASSUME LifeTypes
    PROVE  /\ today \in Nat /\ today \in Lif!Days /\ Lif!Days \subseteq Nat /\ Lif!Never \notin Lif!Days
           /\ Lif!Never = -1
           /\ dir \in [SessionIds -> Lif!Dirs] /\ tarball \in [SessionIds -> Lif!Dirs]
           /\ taring \in [SessionIds -> TarRecords] /\ Lif!NoTar \in TarRecords
           /\ lastActive \in [SessionIds -> Lif!Days] /\ archivedAt \in [SessionIds -> Lif!Days]
           /\ sessStatus \in [SessionIds -> {"none", "active", "archived", "deleted"}]
  BY LifeAssumption DEF LifeTypes, Lif!TypeOK, Lif!Days, Lif!Never, TarRecords, Lif!NoTar

\* Days, stops and starts: nothing on disk changes.
LEMMA LifeQuietSteps ==
    ASSUME LifeKept,
           \/ Lif!DayPasses \/ Lif!HostEnds \/ Lif!HostStarts
           \/ \E s \in SessionIds : Lif!ContainerStops(s) \/ Lif!TarFails(s)
    PROVE  LifeKept'
  <1>a. LifeTypes /\ TarsKept /\ TextsKept /\ ScopeKept
    BY DEF LifeKept
  <1>b. /\ today \in Nat /\ Lif!Days \subseteq Nat /\ taring \in [SessionIds -> TarRecords]
        /\ Lif!NoTar \in TarRecords /\ removals \in Nat /\ audits \in Nat /\ auditedDel \in BOOLEAN
    BY <1>a, LifeTypeFacts DEF LifeTypes
  <1>1. /\ UNCHANGED <<sessStatus, lastActive, archivedAt, dir, tarball, scope, marker, usedOn, removals, audits, sent>>
        /\ UNCHANGED <<quiet, failed, cutArchive, lostTexts, early>>
    BY DEF Lif!DayPasses, Lif!HostEnds, Lif!HostStarts, Lif!ContainerStops, Lif!TarFails, Lif!life, Lif!past,
       Lif!scopes
  <1>2. today' \in Lif!Days /\ today' >= today /\ running' \subseteq running
    <2>1. today' = today \/ (today < LastDay /\ today' = today + 1)
      BY DEF Lif!DayPasses, Lif!HostEnds, Lif!HostStarts, Lif!ContainerStops, Lif!TarFails
    <2>2. running' \subseteq running
      BY DEF Lif!DayPasses, Lif!HostEnds, Lif!HostStarts, Lif!ContainerStops, Lif!TarFails, Lif!life
    <2>3. today \in Lif!Days
      BY <1>a, LifeTypeFacts
    <2> QED
      BY <1>b, <2>1, <2>2, <2>3, LifeAssumption DEF Lif!Days
  <1>3. /\ taring' \in [SessionIds -> TarRecords]
        /\ \A s \in SessionIds : taring'[s] = taring[s] \/ taring'[s] = Lif!NoTar
    <2>1. \/ taring' = taring \/ taring' = [x \in SessionIds |-> Lif!NoTar]
          \/ \E s \in SessionIds : taring' = [taring EXCEPT ![s] = Lif!NoTar]
      BY DEF Lif!DayPasses, Lif!HostEnds, Lif!HostStarts, Lif!ContainerStops, Lif!TarFails
    <2> QED
      BY <1>b, <2>1
  <1>4. auditedDel' = auditedDel \/ auditedDel' = FALSE
    BY DEF Lif!DayPasses, Lif!HostEnds, Lif!HostStarts, Lif!ContainerStops, Lif!TarFails, Lif!scopes
  <1>5. LifeTypes'
    <2>1. Lif!TypeOK'
      BY <1>a, <1>1, <1>2, <1>3 DEF LifeTypes, Lif!TypeOK, Lif!Days, TarRecords
    <2>2. auditedDel' \in BOOLEAN
      BY <1>b, <1>4
    <2>3. (usedOn \in Lif!Days \union {Lif!Never} /\ removals \in Nat /\ audits \in Nat)'
      BY <1>a, <1>1 DEF LifeTypes, Lif!Days, Lif!Never
    <2> QED
      BY <1>3, <2>1, <2>2, <2>3 DEF LifeTypes, TarRecords
  <1>6. TarsKept'
    <2> SUFFICES ASSUME NEW s \in SessionIds, taring'[s] # Lif!NoTar
                 PROVE  /\ sessStatus[s] = "active" /\ dir[s] # Lif!Gone
                        /\ taring[s].last \in Lif!Days /\ taring[s].at \in Lif!Days /\ taring[s].last < today'
                        /\ lastActive[s] = taring[s].last => dir[s].rows \ taring[s].copied \subseteq quiet
      BY <1>1, <1>3 DEF TarsKept, Lif!Days, Lif!NoTar, Lif!Gone, Lif!Never
    <2>1. taring[s] # Lif!NoTar
      BY <1>3
    <2>2. taring[s].last \in Nat /\ taring[s].last < today
      BY <1>a, <1>b, <2>1 DEF TarsKept
    <2>3. today' \in Nat
      BY <1>b, <1>2
    <2>4. taring[s].last < today'
      BY <1>b, <1>2, <2>2, <2>3
    <2> QED
      BY <1>a, <2>1, <2>4 DEF TarsKept
  <1>7. TextsKept'
    BY <1>a, <1>1 DEF TextsKept, Lif!OnePlace, Lif!Gone
  <1>8. ScopeKept'
    <2>1. (IF auditedDel' THEN 1 ELSE 0) <= (IF auditedDel THEN 1 ELSE 0)
      BY <1>4
    <2>2. removals + (IF auditedDel' THEN 1 ELSE 0) <= audits
      BY <1>a, <1>b, <2>1 DEF ScopeKept
    <2> QED
      BY <1>a, <1>1, <1>2, <2>2 DEF ScopeKept, Lif!Days, Lif!Never
  <1> QED
    BY <1>5, <1>6, <1>7, <1>8 DEF LifeKept

\* A quiet write shows in quiet whatever the tar does.
LEMMA QuietWriteStep == ASSUME LifeKept, NEW t \in Texts, Lif!QuietWrite(t) PROVE LifeKept'
  <1>a. LifeTypes /\ TarsKept /\ TextsKept /\ ScopeKept
    BY DEF LifeKept
  <1>1. PICK s \in SessionIds :
          sessStatus[s] = "active" /\ dir[s] # Lif!Gone /\ dir' = [dir EXCEPT ![s].rows = @ \union {t}]
    BY DEF Lif!QuietWrite, Lif!Active
  <1>2. /\ UNCHANGED <<today, sessStatus, lastActive, archivedAt, running, tarball, taring>>
        /\ UNCHANGED <<scope, marker, auditedDel, usedOn, removals, audits, failed, cutArchive, lostTexts, early>>
        /\ sent' = sent \union {t} /\ quiet' = quiet \union {t}
    BY DEF Lif!QuietWrite, Lif!scopes
  <1>3. dir \in [SessionIds -> Lif!Dirs]
    BY <1>a, LifeTypeFacts
  <1>4. /\ dir' \in [SessionIds -> Lif!Dirs] /\ dir'[s] # Lif!Gone /\ dir'[s].rows = dir[s].rows \union {t}
        /\ \A x \in SessionIds \ {s} : dir'[x] = dir[x]
    <2> DEFINE e == [dir[s] EXCEPT !.rows = @ \union {t}]
    <2>1. dir' = [dir EXCEPT ![s] = e]
      BY <1>1
    <2>2. e \in Lif!Dirs /\ e.rows = dir[s].rows \union {t} /\ e # Lif!Gone
      BY <1>3, DirFacts
    <2> HIDE DEF e
    <2> QED
      BY <1>3, <2>1, <2>2
  <1>5. LifeTypes'
    BY <1>a, <1>2, <1>4 DEF LifeTypes, Lif!TypeOK, Lif!Days, TarRecords, Lif!Dirs, Lif!Never
  <1>6. TarsKept'
    BY <1>a, <1>1, <1>2, <1>4 DEF TarsKept, Lif!NoTar, Lif!Gone, Lif!Days, Lif!Never
  <1>7. TextsKept'
    BY <1>a, <1>1, <1>2, <1>4 DEF TextsKept, Lif!OnePlace, Lif!Gone
  <1>8. ScopeKept'
    BY <1>a, <1>2 DEF ScopeKept, Lif!Days, Lif!Never
  <1> QED
    BY <1>5, <1>6, <1>7, <1>8 DEF LifeKept

\* The lowest of a set of sessions.
LEMMA LowestIs == ASSUME NEW S \in SUBSET SessionIds, S # {} PROVE Lif!Lowest(S) \in S
  <1>1. S \in SUBSET Nat
    BY LifeAssumption
  <1> QED
    BY <1>1, LeastOf DEF Lif!Lowest

\* A user's message stamps its session, which any tar under way will see.
LEMMA UserWriteStep == ASSUME LifeKept, NEW t \in Texts, Lif!writeSessionMessage(t) PROVE LifeKept'
  <1> DEFINE s == IF Lif!Active # {} THEN Lif!Lowest(Lif!Active) ELSE Lif!Lowest(Lif!Unused)
  <1>a. LifeTypes /\ TarsKept /\ TextsKept /\ ScopeKept
    BY DEF LifeKept
  <1>b. /\ today \in Nat /\ today \in Lif!Days /\ Lif!Days \subseteq Nat
        /\ dir \in [SessionIds -> Lif!Dirs] /\ lastActive \in [SessionIds -> Lif!Days]
        /\ sessStatus \in [SessionIds -> {"none", "active", "archived", "deleted"}]
    BY <1>a, LifeTypeFacts
  <1>1. s \in SessionIds /\ (sessStatus[s] = "active" \/ (Lif!Active = {} /\ sessStatus[s] = "none"))
    <2>1. Lif!Active \in SUBSET SessionIds /\ Lif!Unused \in SUBSET SessionIds
      BY DEF Lif!Active, Lif!Unused
    <2>2. Lif!Active # {} \/ Lif!Unused # {}
      BY DEF Lif!writeSessionMessage
    <2>3. s \in IF Lif!Active # {} THEN Lif!Active ELSE Lif!Unused
      BY <2>1, <2>2, LowestIs
    <2> HIDE DEF s
    <2> QED
      BY <2>1, <2>3 DEF Lif!Active, Lif!Unused
  <1>2. sessStatus[s] = "none" => Lif!Active = {}
    BY <1>1 DEF Lif!Active
  <1>3. /\ UNCHANGED <<today, archivedAt, tarball, taring, auditedDel, removals, audits>>
        /\ UNCHANGED <<quiet, cutArchive, lostTexts, early>>
        /\ sent' = sent \union {t} /\ sessStatus' = [sessStatus EXCEPT ![s] = "active"]
    BY DEF Lif!writeSessionMessage
  <1>4. \/ /\ Lif!Active # {} /\ dir[s] = Lif!Gone /\ failed' = failed \union {t}
           /\ UNCHANGED <<lastActive, running, dir, scope, marker, usedOn>>
        \/ /\ dir' = [dir EXCEPT ![s] = Lif!Holding(@.rows \union {t})]
           /\ lastActive' = [lastActive EXCEPT ![s] = today] /\ running' = running \union {s}
           /\ marker' = today /\ scope' = TRUE /\ usedOn' = today /\ UNCHANGED failed
    BY DEF Lif!writeSessionMessage, Lif!touchScopeAccess, Lif!ensureStateScope
  <1> HIDE DEF s
  <1>5. sessStatus' \in [SessionIds -> {"none", "active", "archived", "deleted"}] /\ sessStatus'[s] = "active"
    BY <1>b, <1>1, <1>3
  <1>6. \A x \in SessionIds \ {s} : sessStatus'[x] = sessStatus[x]
    BY <1>b, <1>1, <1>3
  <1>7. CASE /\ Lif!Active # {} /\ dir[s] = Lif!Gone /\ failed' = failed \union {t}
             /\ UNCHANGED <<lastActive, running, dir, scope, marker, usedOn>>
    <2>1. sessStatus[s] = "active" /\ s \in cutArchive
      BY <1>a, <1>1, <1>2, <1>7 DEF TextsKept, Lif!OnePlace
    <2>2. sessStatus' = sessStatus
      BY <1>b, <1>1, <1>3, <2>1
    <2>3. LifeTypes'
      BY <1>a, <1>3, <1>7, <2>2 DEF LifeTypes, Lif!TypeOK, Lif!Days, TarRecords, Lif!Dirs, Lif!Never
    <2>4. TarsKept'
      BY <1>a, <1>3, <1>7, <2>2 DEF TarsKept, Lif!NoTar, Lif!Gone, Lif!Days, Lif!Never
    <2>5. TextsKept'
      BY <1>a, <1>3, <1>7, <2>1, <2>2 DEF TextsKept, Lif!OnePlace, Lif!Gone
    <2>6. ScopeKept'
      BY <1>a, <1>3, <1>7, <2>2 DEF ScopeKept, Lif!Days, Lif!Never
    <2> QED
      BY <2>3, <2>4, <2>5, <2>6 DEF LifeKept
  <1>8. CASE /\ dir' = [dir EXCEPT ![s] = Lif!Holding(@.rows \union {t})]
             /\ lastActive' = [lastActive EXCEPT ![s] = today] /\ running' = running \union {s}
             /\ marker' = today /\ scope' = TRUE /\ usedOn' = today /\ UNCHANGED failed
    <2>1. /\ dir' \in [SessionIds -> Lif!Dirs] /\ dir'[s] # Lif!Gone
          /\ \A x \in SessionIds \ {s} : dir'[x] = dir[x]
      <3> DEFINE e == Lif!Holding(dir[s].rows \union {t})
      <3>1. dir[s].rows \union {t} \in SUBSET Texts
        BY <1>b, <1>1, DirFacts
      <3>2. e \in Lif!Dirs /\ e # Lif!Gone
        BY <3>1, DirFacts
      <3>3. dir' = [dir EXCEPT ![s] = e]
        BY <1>8
      <3> HIDE DEF e
      <3> QED
        BY <1>b, <1>1, <3>2, <3>3
    <2>2. /\ lastActive' \in [SessionIds -> Lif!Days] /\ lastActive'[s] = today
          /\ \A x \in SessionIds \ {s} : lastActive'[x] = lastActive[x]
      BY <1>b, <1>1, <1>8
    <2>3. Lif!TypeOK'
      BY <1>a, <1>b, <1>1, <1>3, <1>5, <1>8, <2>1, <2>2
         DEF LifeTypes, Lif!TypeOK, Lif!Days, TarRecords, Lif!Dirs, Lif!Never
    <2>4. LifeTypes'
      BY <1>a, <1>b, <1>3, <1>8, <2>3 DEF LifeTypes, Lif!Days, TarRecords, Lif!Never
    <2>5. ASSUME NEW x \in SessionIds, taring[x] # Lif!NoTar
          PROVE  /\ sessStatus'[x] = "active" /\ dir'[x] # Lif!Gone
                 /\ taring[x].last \in Lif!Days /\ taring[x].at \in Lif!Days /\ taring[x].last < today
                 /\ lastActive'[x] = taring[x].last => dir'[x].rows \ taring[x].copied \subseteq quiet
      <3>1. /\ sessStatus[x] = "active" /\ dir[x] # Lif!Gone
            /\ taring[x].last \in Lif!Days /\ taring[x].at \in Lif!Days /\ taring[x].last < today
            /\ lastActive[x] = taring[x].last => dir[x].rows \ taring[x].copied \subseteq quiet
        BY <1>a, <2>5 DEF TarsKept
      <3>2. CASE x = s
        BY <1>b, <1>5, <2>1, <2>2, <3>1, <3>2
      <3>3. CASE x # s
        BY <1>6, <2>1, <2>2, <3>1, <3>3
      <3> QED
        BY <3>2, <3>3
    <2>6. TarsKept'
      BY <1>3, <2>5 DEF TarsKept, Lif!NoTar, Lif!Gone, Lif!Days, Lif!Never
    <2>7. TextsKept'
      BY <1>a, <1>3, <1>5, <1>6, <1>8, <2>1 DEF TextsKept, Lif!OnePlace, Lif!Gone
    <2>8. ScopeKept'
      BY <1>a, <1>b, <1>3, <1>8 DEF ScopeKept, Lif!Days, Lif!Never
    <2> QED
      BY <2>4, <2>6, <2>7, <2>8 DEF LifeKept
  <1> QED
    BY <1>4, <1>7, <1>8

\* A tar begins with what the directory holds.
LEMMA TarStep == ASSUME LifeKept, NEW s \in SessionIds, Lif!archiveSession(s) PROVE LifeKept'
  <1> DEFINE r == [last |-> lastActive[s], at |-> today, copied |-> dir[s].rows]
  <1>a. LifeTypes /\ TarsKept /\ TextsKept /\ ScopeKept
    BY DEF LifeKept
  <1>b. /\ today \in Nat /\ today \in Lif!Days /\ Lif!Days \subseteq Nat /\ TtlDays \in Nat
        /\ dir \in [SessionIds -> Lif!Dirs] /\ lastActive \in [SessionIds -> Lif!Days]
        /\ taring \in [SessionIds -> TarRecords] /\ tarball \in [SessionIds -> Lif!Dirs]
    BY <1>a, LifeTypeFacts, LifeAssumption
  <1>1. /\ sessStatus[s] = "active" /\ lastActive[s] < today - TtlDays /\ dir[s] # Lif!Gone
        /\ taring' = [taring EXCEPT ![s] = r] /\ tarball' = [tarball EXCEPT ![s] = Lif!Holding({})]
        /\ UNCHANGED <<today, sessStatus, lastActive, archivedAt, running, dir, sent, quiet, failed>>
        /\ UNCHANGED <<cutArchive, lostTexts, early, scope, marker, auditedDel, usedOn, removals, audits>>
    BY DEF Lif!archiveSession, Lif!findArchivableSessions, Lif!Active, Lif!scopes, Lif!past
  <1>2. r \in TarRecords /\ r.last = lastActive[s] /\ r.at = today /\ r.copied = dir[s].rows
    BY <1>b, DirFacts DEF TarRecords
  <1>3. lastActive[s] \in Lif!Days /\ lastActive[s] < today
    <2>1. lastActive[s] \in Lif!Days
      BY <1>b
    <2>2. lastActive[s] \in Nat /\ lastActive[s] < today - TtlDays
      BY <1>b, <1>1, <2>1
    <2>3. lastActive[s] < today
      BY <1>b, <2>2
    <2> QED
      BY <2>1, <2>3
  <1> HIDE DEF r
  <1>4. taring' \in [SessionIds -> TarRecords] /\ taring'[s] = r /\ \A x \in SessionIds \ {s} : taring'[x] = taring[x]
    BY <1>b, <1>1, <1>2
  <1>5. tarball' \in [SessionIds -> Lif!Dirs] /\ \A x \in SessionIds \ {s} : tarball'[x] = tarball[x]
    BY <1>b, <1>1, DirFacts
  <1>6. LifeTypes'
    <2>1. Lif!TypeOK'
      BY <1>a, <1>1, <1>4, <1>5 DEF LifeTypes, Lif!TypeOK, Lif!Days, TarRecords, Lif!Dirs, Lif!Never
    <2> QED
      BY <1>a, <1>1, <1>4, <2>1 DEF LifeTypes, Lif!Days, TarRecords, Lif!Never
  <1>7. TarsKept'
    BY <1>a, <1>b, <1>1, <1>2, <1>3, <1>4 DEF TarsKept, Lif!NoTar, Lif!Gone, Lif!Days, Lif!Never
  <1>8. TextsKept'
    BY <1>a, <1>1, <1>5 DEF TextsKept, Lif!OnePlace, Lif!Gone
  <1>9. ScopeKept'
    BY <1>a, <1>1 DEF ScopeKept, Lif!Days, Lif!Never
  <1> QED
    BY <1>6, <1>7, <1>8, <1>9 DEF LifeKept

\* What the second look leaves to be lost is quiet.
LEMMA NothingLost ==
    ASSUME LifeKept, NEW s \in SessionIds, taring[s] # Lif!NoTar, Lif!stillQuiescent(s)
    PROVE  Lif!Lost(s) \subseteq quiet
  BY DEF LifeKept, TarsKept, Lif!stillQuiescent, Lif!Lost

\* After the tar: the delete and the status, or the tarball dropped.
LEMMA ArchiveStep == ASSUME LifeKept, NEW s \in SessionIds, Lif!archiveSessionFiles(s) PROVE LifeKept'
  <1>a. LifeTypes /\ TarsKept /\ TextsKept /\ ScopeKept
    BY DEF LifeKept
  <1>b. /\ dir \in [SessionIds -> Lif!Dirs] /\ archivedAt \in [SessionIds -> Lif!Days]
        /\ taring \in [SessionIds -> TarRecords] /\ tarball \in [SessionIds -> Lif!Dirs]
        /\ sessStatus \in [SessionIds -> {"none", "active", "archived", "deleted"}] /\ Lif!NoTar \in TarRecords
    BY <1>a, LifeTypeFacts
  <1>1. /\ taring[s] # Lif!NoTar /\ taring' = [taring EXCEPT ![s] = Lif!NoTar]
        /\ UNCHANGED <<today, lastActive, running, sent, quiet, failed, cutArchive, early>>
        /\ UNCHANGED <<scope, marker, auditedDel, usedOn, removals, audits>>
    BY DEF Lif!archiveSessionFiles, Lif!scopes
  <1>2. /\ taring' \in [SessionIds -> TarRecords] /\ taring'[s] = Lif!NoTar
        /\ \A x \in SessionIds \ {s} : taring'[x] = taring[x]
    BY <1>b, <1>1
  <1>3. taring[s].copied \in SUBSET Texts /\ taring[s].at \in Lif!Days /\ sessStatus[s] = "active"
    BY <1>a, <1>b, <1>1 DEF TarsKept, TarRecords
  <1>4. CASE Lif!stillQuiescent(s)
    <2>1. /\ tarball' = [tarball EXCEPT ![s] = Lif!Holding(taring[s].copied)]
          /\ lostTexts' = lostTexts \union Lif!Lost(s) /\ dir' = [dir EXCEPT ![s] = Lif!Gone]
          /\ sessStatus' = [sessStatus EXCEPT ![s] = "archived"]
          /\ archivedAt' = [archivedAt EXCEPT ![s] = taring[s].at]
      BY <1>4 DEF Lif!archiveSessionFiles
    <2>2. /\ tarball' \in [SessionIds -> Lif!Dirs] /\ \A x \in SessionIds \ {s} : tarball'[x] = tarball[x]
      BY <1>b, <1>3, <2>1, DirFacts
    <2>3. dir' \in [SessionIds -> Lif!Dirs] /\ dir'[s] = Lif!Gone /\ \A x \in SessionIds \ {s} : dir'[x] = dir[x]
      BY <1>b, <2>1, DirFacts
    <2>4. /\ sessStatus' \in [SessionIds -> {"none", "active", "archived", "deleted"}]
          /\ sessStatus'[s] = "archived" /\ \A x \in SessionIds \ {s} : sessStatus'[x] = sessStatus[x]
      BY <1>b, <2>1
    <2>5. archivedAt' \in [SessionIds -> Lif!Days]
      BY <1>b, <1>3, <2>1
    <2>6. lostTexts' \subseteq quiet
      BY <1>a, <1>1, <1>4, <2>1, NothingLost DEF TextsKept
    <2>7. Lif!TypeOK'
      BY <1>a, <1>1, <1>2, <2>2, <2>3, <2>4, <2>5
         DEF LifeTypes, Lif!TypeOK, Lif!Days, TarRecords, Lif!Dirs, Lif!Never
    <2>8. LifeTypes'
      BY <1>a, <1>1, <1>2, <2>7 DEF LifeTypes, Lif!Days, TarRecords, Lif!Never
    <2>9. TarsKept'
      BY <1>a, <1>1, <1>2, <2>3, <2>4, ZenonT(60) DEF TarsKept, Lif!NoTar, Lif!Gone, Lif!Days, Lif!Never
    <2>10. TextsKept'
      BY <1>a, <1>1, <2>2, <2>3, <2>4, <2>6 DEF TextsKept, Lif!OnePlace, Lif!Gone
    <2>11. ScopeKept'
      BY <1>a, <1>1, <2>4 DEF ScopeKept, Lif!Days, Lif!Never, LifeTypes, Lif!TypeOK
    <2> QED
      BY <2>8, <2>9, <2>10, <2>11 DEF LifeKept
  <1>5. CASE ~Lif!stillQuiescent(s)
    <2>1. tarball' = [tarball EXCEPT ![s] = Lif!Gone] /\ UNCHANGED <<dir, sessStatus, archivedAt, lostTexts>>
      BY <1>5 DEF Lif!archiveSessionFiles
    <2>2. /\ tarball' \in [SessionIds -> Lif!Dirs] /\ \A x \in SessionIds \ {s} : tarball'[x] = tarball[x]
      BY <1>b, <2>1, DirFacts
    <2>3. Lif!TypeOK'
      BY <1>a, <1>1, <1>2, <2>1, <2>2 DEF LifeTypes, Lif!TypeOK, Lif!Days, TarRecords, Lif!Dirs, Lif!Never
    <2>4. LifeTypes'
      BY <1>a, <1>1, <1>2, <2>3 DEF LifeTypes, Lif!Days, TarRecords, Lif!Never
    <2>5. TarsKept'
      BY <1>a, <1>1, <1>2, <2>1 DEF TarsKept, Lif!NoTar, Lif!Gone, Lif!Days, Lif!Never
    <2>6. TextsKept'
      BY <1>a, <1>1, <1>3, <2>1, <2>2 DEF TextsKept, Lif!OnePlace, Lif!Gone
    <2>7. ScopeKept'
      BY <1>a, <1>1, <2>1 DEF ScopeKept, Lif!Days, Lif!Never
    <2> QED
      BY <2>4, <2>5, <2>6, <2>7 DEF LifeKept
  <1> QED
    BY <1>4, <1>5

\* The host ends between the delete and the status.
LEMMA CutArchiveStep == ASSUME LifeKept, NEW s \in SessionIds, Lif!ArchiveCutShort(s) PROVE LifeKept'
  <1>a. LifeTypes /\ TarsKept /\ TextsKept /\ ScopeKept
    BY DEF LifeKept
  <1>b. /\ dir \in [SessionIds -> Lif!Dirs] /\ tarball \in [SessionIds -> Lif!Dirs]
        /\ taring \in [SessionIds -> TarRecords] /\ Lif!NoTar \in TarRecords
        /\ removals \in Nat /\ audits \in Nat
    BY <1>a, LifeTypeFacts DEF LifeTypes
  <1>1. /\ taring[s] # Lif!NoTar /\ Lif!stillQuiescent(s)
        /\ tarball' = [tarball EXCEPT ![s] = Lif!Holding(taring[s].copied)]
        /\ lostTexts' = lostTexts \union Lif!Lost(s) /\ dir' = [dir EXCEPT ![s] = Lif!Gone]
        /\ cutArchive' = cutArchive \union {s} /\ taring' = [x \in SessionIds |-> Lif!NoTar] /\ auditedDel' = FALSE
        /\ UNCHANGED <<today, sessStatus, lastActive, archivedAt, running, scope, marker, usedOn>>
        /\ UNCHANGED <<removals, audits, sent, quiet, failed, early>>
    BY DEF Lif!ArchiveCutShort
  <1>2. taring' \in [SessionIds -> TarRecords] /\ \A x \in SessionIds : taring'[x] = Lif!NoTar
    BY <1>b, <1>1
  <1>3. taring[s].copied \in SUBSET Texts /\ sessStatus[s] = "active"
    BY <1>a, <1>b, <1>1 DEF TarsKept, TarRecords
  <1>4. tarball' \in [SessionIds -> Lif!Dirs] /\ \A x \in SessionIds \ {s} : tarball'[x] = tarball[x]
    BY <1>b, <1>1, <1>3, DirFacts
  <1>5. dir' \in [SessionIds -> Lif!Dirs] /\ dir'[s] = Lif!Gone /\ \A x \in SessionIds \ {s} : dir'[x] = dir[x]
    BY <1>b, <1>1, DirFacts
  <1>6. lostTexts' \subseteq quiet
    BY <1>a, <1>1, NothingLost DEF TextsKept
  <1>7. Lif!TypeOK'
    BY <1>a, <1>1, <1>2, <1>4, <1>5 DEF LifeTypes, Lif!TypeOK, Lif!Days, TarRecords, Lif!Dirs, Lif!Never
  <1>8. LifeTypes'
    BY <1>a, <1>1, <1>2, <1>7 DEF LifeTypes, Lif!Days, TarRecords, Lif!Never
  <1>9. TarsKept'
    BY <1>2 DEF TarsKept, Lif!NoTar, Lif!Never
  <1>10. TextsKept'
    BY <1>a, <1>1, <1>3, <1>4, <1>5, <1>6 DEF TextsKept, Lif!OnePlace, Lif!Gone
  <1>11. ScopeKept'
    <2>1. removals <= audits
      BY <1>a, <1>b DEF ScopeKept
    <2> QED
      BY <1>a, <1>b, <1>1, <2>1 DEF ScopeKept, Lif!Days, Lif!Never
  <1> QED
    BY <1>8, <1>9, <1>10, <1>11 DEF LifeKept

\* A later sweep writes the status a cut archive owed.
LEMMA ArchiveAgainStep == ASSUME LifeKept, NEW s \in SessionIds, Lif!ArchiveAgain(s) PROVE LifeKept'
  <1>a. LifeTypes /\ TarsKept /\ TextsKept /\ ScopeKept
    BY DEF LifeKept
  <1>b. /\ archivedAt \in [SessionIds -> Lif!Days] /\ today \in Lif!Days
        /\ sessStatus \in [SessionIds -> {"none", "active", "archived", "deleted"}]
    BY <1>a, LifeTypeFacts
  <1>1. /\ dir[s] = Lif!Gone /\ sessStatus' = [sessStatus EXCEPT ![s] = "archived"]
        /\ archivedAt' = [archivedAt EXCEPT ![s] = today] /\ sessStatus[s] = "active"
        /\ UNCHANGED <<today, lastActive, running, dir, tarball, taring, sent>>
        /\ UNCHANGED <<scope, marker, auditedDel, usedOn, removals, audits, quiet, failed, cutArchive, lostTexts, early>>
    BY DEF Lif!ArchiveAgain, Lif!scopes, Lif!past, Lif!findArchivableSessions, Lif!Active
  <1>2. /\ sessStatus' \in [SessionIds -> {"none", "active", "archived", "deleted"}]
        /\ sessStatus'[s] = "archived" /\ \A x \in SessionIds \ {s} : sessStatus'[x] = sessStatus[x]
        /\ archivedAt' \in [SessionIds -> Lif!Days]
    BY <1>b, <1>1
  <1>3. Lif!TypeOK'
    BY <1>a, <1>1, <1>2 DEF LifeTypes, Lif!TypeOK, Lif!Days, TarRecords, Lif!Dirs, Lif!Never
  <1>4. LifeTypes'
    BY <1>a, <1>1, <1>3 DEF LifeTypes, Lif!Days, TarRecords, Lif!Never
  <1>5. TarsKept'
    BY <1>a, <1>1, <1>2 DEF TarsKept, Lif!NoTar, Lif!Gone, Lif!Days, Lif!Never
  <1>6. TextsKept'
    BY <1>a, <1>1, <1>2 DEF TextsKept, Lif!OnePlace, Lif!Gone
  <1>7. ScopeKept'
    BY <1>a, <1>1, <1>2 DEF ScopeKept, Lif!Days, Lif!Never, LifeTypes, Lif!TypeOK
  <1> QED
    BY <1>4, <1>5, <1>6, <1>7 DEF LifeKept

\* The end of an archive, late enough.
LEMMA HardDeleteStep == ASSUME LifeKept, NEW s \in SessionIds, Lif!hardDeleteArchivedSession(s) PROVE LifeKept'
  <1>a. LifeTypes /\ TarsKept /\ TextsKept /\ ScopeKept
    BY DEF LifeKept
  <1>b. /\ archivedAt \in [SessionIds -> Lif!Days] /\ today \in Nat /\ Lif!Days \subseteq Nat /\ HardDays \in Nat
        /\ tarball \in [SessionIds -> Lif!Dirs] /\ taring \in [SessionIds -> TarRecords] /\ Lif!NoTar \in TarRecords
        /\ sessStatus \in [SessionIds -> {"none", "active", "archived", "deleted"}]
        /\ removals \in Nat /\ audits \in Nat /\ auditedDel \in BOOLEAN
    BY <1>a, LifeTypeFacts, LifeAssumption DEF LifeTypes
  <1>1. /\ sessStatus[s] = "archived" /\ archivedAt[s] < today - HardDays
        /\ tarball' = [tarball EXCEPT ![s] = Lif!Gone]
        /\ early' = (early \/ today - archivedAt[s] <= HardDays)
        /\ sessStatus' = [sessStatus EXCEPT ![s] = "deleted"] \/ sessStatus' = sessStatus
        /\ taring' = taring \/ taring' = [x \in SessionIds |-> Lif!NoTar]
        /\ auditedDel' = (lifeUp' /\ auditedDel)
        /\ UNCHANGED <<today, lastActive, archivedAt, running, dir, scope, marker, usedOn, removals, audits>>
        /\ UNCHANGED <<sent, quiet, failed, cutArchive, lostTexts>>
    BY DEF Lif!hardDeleteArchivedSession, Lif!findArchivedSessionsOlderThan
  <1>2. early' = FALSE
    <2>1. archivedAt[s] \in Nat
      BY <1>b
    <2>2. ~ (today - archivedAt[s] <= HardDays)
      BY <1>b, <1>1, <2>1
    <2> QED
      BY <1>a, <1>1, <2>2 DEF ScopeKept
  <1>3. /\ tarball' \in [SessionIds -> Lif!Dirs] /\ tarball'[s] = Lif!Gone
        /\ \A x \in SessionIds \ {s} : tarball'[x] = tarball[x]
    BY <1>b, <1>1, DirFacts
  <1>4. /\ sessStatus' \in [SessionIds -> {"none", "active", "archived", "deleted"}]
        /\ sessStatus'[s] \in {"archived", "deleted"} /\ \A x \in SessionIds \ {s} : sessStatus'[x] = sessStatus[x]
    BY <1>b, <1>1
  <1>5. taring' \in [SessionIds -> TarRecords] /\ \A x \in SessionIds : taring'[x] = taring[x] \/ taring'[x] = Lif!NoTar
    BY <1>b, <1>1
  <1>6. taring[s] = Lif!NoTar
    BY <1>a, <1>1 DEF TarsKept
  <1>7. auditedDel' \in BOOLEAN /\ (auditedDel' => auditedDel)
    BY <1>1
  <1>8. Lif!TypeOK'
    BY <1>a, <1>1, <1>3, <1>4, <1>5 DEF LifeTypes, Lif!TypeOK, Lif!Days, TarRecords, Lif!Dirs, Lif!Never
  <1>9. LifeTypes'
    BY <1>a, <1>1, <1>5, <1>7, <1>8 DEF LifeTypes, Lif!Days, TarRecords, Lif!Never
  <1>10. TarsKept'
    BY <1>a, <1>1, <1>4, <1>5, <1>6 DEF TarsKept, Lif!NoTar, Lif!Gone, Lif!Days, Lif!Never
  <1>11. TextsKept'
    BY ZenonT(60), <1>a, <1>1, <1>3, <1>4 DEF TextsKept, Lif!OnePlace, Lif!Gone
  <1>12. ScopeKept'
    <2>1. removals + (IF auditedDel' THEN 1 ELSE 0) <= audits
      BY <1>a, <1>b, <1>7 DEF ScopeKept
    <2>2. \A x \in running : sessStatus'[x] = "active" => sessStatus[x] = "active"
      BY <1>a, <1>4 DEF LifeTypes, Lif!TypeOK
    <2> QED
      BY <1>a, <1>1, <1>2, <2>1, <2>2 DEF ScopeKept, Lif!Days, Lif!Never
  <1> QED
    BY <1>9, <1>10, <1>11, <1>12 DEF LifeKept

\* The sweep of the scope: no session is active, its marker is old enough.
LEMMA ScopeSweepStep == ASSUME LifeKept, Lif!sweepExpiredScopes PROVE LifeKept'
  <1>a. LifeTypes /\ TarsKept /\ TextsKept /\ ScopeKept
    BY DEF LifeKept
  <1>b. /\ today \in Nat /\ Lif!Days \subseteq Nat /\ ScopeDays \in Nat /\ Lif!Never \notin Lif!Days
        /\ removals \in Nat /\ audits \in Nat /\ auditedDel \in BOOLEAN
        /\ usedOn \in Lif!Days \union {Lif!Never}
    BY <1>a, LifeTypeFacts, LifeAssumption DEF LifeTypes
  <1>1. /\ scope = TRUE /\ Lif!Active = {}
        /\ UNCHANGED <<today, sessStatus, lastActive, archivedAt, running, dir, tarball, taring, usedOn, sent>>
        /\ UNCHANGED <<quiet, failed, cutArchive, lostTexts>>
    BY <1>a DEF Lif!sweepExpiredScopes, Lif!liveScope, Lif!life, LifeTypes, Lif!TypeOK
  <1>2. marker \in Lif!Days /\ (usedOn # Lif!Never => usedOn <= marker) /\ marker # Lif!Never
    BY <1>a, <1>b, <1>1 DEF ScopeKept
  <1>3. /\ IF marker > today - ScopeDays THEN UNCHANGED <<scope, auditedDel, removals, audits, early, lifeTrouble>>
           ELSE Lif!expireScope
        /\ marker' = IF scope' THEN marker ELSE Lif!Never
    BY <1>2 DEF Lif!sweepExpiredScopes
  <1>4. /\ scope' \in BOOLEAN /\ auditedDel' \in BOOLEAN /\ removals' \in Nat /\ audits' \in Nat
        /\ early' = FALSE /\ removals' + (IF auditedDel' THEN 1 ELSE 0) <= audits'
    <2>1. CASE marker > today - ScopeDays
      BY <1>a, <1>b, <1>1, <1>3, <2>1 DEF ScopeKept
    <2>2. CASE ~ (marker > today - ScopeDays)
      <3>0. early = FALSE /\ removals + (IF auditedDel THEN 1 ELSE 0) <= audits
        BY <1>a DEF ScopeKept
      <3>1. ~ (usedOn # Lif!Never /\ today - usedOn < ScopeDays)
        <4>1. marker \in Nat
          BY <1>b, <1>2
        <4> SUFFICES ASSUME usedOn # Lif!Never PROVE ~ (today - usedOn < ScopeDays)
          OBVIOUS
        <4>2. usedOn \in Nat /\ usedOn <= marker
          BY <1>b, <1>2
        <4> QED
          BY <1>b, <2>2, <4>1, <4>2
      <3>2. \/ /\ audits' = (IF auditedDel THEN audits ELSE audits + 1) /\ scope' = FALSE /\ auditedDel' = FALSE
               /\ removals' = removals + 1 /\ early' = (early \/ (usedOn # Lif!Never /\ today - usedOn < ScopeDays))
            \/ /\ audits' = (IF auditedDel THEN audits ELSE audits + 1) /\ auditedDel' = TRUE
               /\ UNCHANGED <<scope, removals, early>>
            \/ UNCHANGED <<scope, auditedDel, removals, audits, early>>
        BY <1>3, <2>2 DEF Lif!expireScope, Lif!auditRemoval
      <3>3. early' = FALSE
        BY <3>0, <3>1, <3>2
      <3>4. scope' \in BOOLEAN /\ auditedDel' \in BOOLEAN
        BY <1>b, <1>1, <3>2
      <3>5. CASE auditedDel = TRUE
        <4>1. \/ audits' = audits /\ auditedDel' = FALSE /\ removals' = removals + 1
              \/ audits' = audits /\ auditedDel' = TRUE /\ removals' = removals
          BY <3>2, <3>5
        <4>2. removals + 1 <= audits
          BY <3>0, <3>5
        <4> QED
          BY <1>b, <3>3, <3>4, <4>1, <4>2
      <3>6. CASE auditedDel = FALSE
        <4>1. \/ audits' = audits + 1 /\ auditedDel' = FALSE /\ removals' = removals + 1
              \/ audits' = audits + 1 /\ auditedDel' = TRUE /\ removals' = removals
              \/ audits' = audits /\ auditedDel' = FALSE /\ removals' = removals
          BY <3>2, <3>6
        <4>2. removals <= audits
          BY <1>b, <3>0, <3>6
        <4> QED
          BY <1>b, <3>3, <3>4, <4>1, <4>2
      <3> QED
        BY <1>b, <3>5, <3>6
    <2> QED
      BY <2>1, <2>2
  <1>5. marker' \in Lif!Days \union {Lif!Never}
    BY <1>2, <1>3
  <1>6. Lif!TypeOK'
    BY <1>a, <1>1, <1>4, <1>5 DEF LifeTypes, Lif!TypeOK, Lif!Days, TarRecords, Lif!Dirs, Lif!Never
  <1>7. LifeTypes'
    BY <1>a, <1>1, <1>4, <1>6 DEF LifeTypes, Lif!Days, TarRecords, Lif!Never
  <1>8. TarsKept'
    BY <1>a, <1>1 DEF TarsKept, Lif!NoTar, Lif!Gone, Lif!Days, Lif!Never
  <1>9. TextsKept'
    BY <1>a, <1>1 DEF TextsKept, Lif!OnePlace, Lif!Gone
  <1>10. ScopeKept'
    <2>1. \A x \in SessionIds : sessStatus[x] # "active"
      BY <1>1 DEF Lif!Active
    <2>2. \A x \in running : sessStatus[x] # "active"
      BY <1>a, <2>1 DEF LifeTypes, Lif!TypeOK
    <2>3. scope' => marker' = marker
      BY <1>3
    <2>4. (scope => marker \in Lif!Days /\ (usedOn # Lif!Never => usedOn <= marker))'
      BY <1>1, <1>2, <2>3 DEF Lif!Days, Lif!Never
    <2>5. (\A x \in running : sessStatus[x] = "active" => scope)'
      BY <1>1, <2>2
    <2> QED
      BY <1>4, <2>4, <2>5 DEF ScopeKept
  <1> QED
    BY <1>7, <1>8, <1>9, <1>10 DEF LifeKept

\* LifeKept in the behaviours about sessions.
LifeInv == focus = "life" => LifeKept

\* Nothing is there at first.
LEMMA LifeInit == ASSUME Init PROVE LifeInv
  <1>1. Lif!Init
    BY DEF Init
  <1>2. 0 \in Lif!Days
    BY LifeAssumption DEF Lif!Days
  <1>3. Lif!NoTar \in TarRecords
    BY DEF TarRecords, Lif!NoTar
  <1>4. \A s \in SessionIds : taring[s] = Lif!NoTar
    BY <1>1 DEF Lif!Init
  <1>5. Lif!TypeOK
    BY <1>1, <1>2, <1>3, <1>4, DirFacts DEF Lif!Init, Lif!TypeOK, TarRecords
  <1>6. LifeTypes
    BY <1>1, <1>3, <1>5 DEF Lif!Init, LifeTypes
  <1>7. TarsKept
    BY <1>4 DEF TarsKept
  <1>8. TextsKept
    BY <1>1 DEF Lif!Init, TextsKept, Lif!OnePlace
  <1>9. ScopeKept
    BY <1>1 DEF Lif!Init, ScopeKept
  <1> QED
    BY <1>6, <1>7, <1>8, <1>9 DEF LifeInv, LifeKept

\* The properties follow.
LEMMA LifeImplied == ASSUME LifeInv PROVE FilesKept
  <1> SUFFICES ASSUME LifeKept PROVE Lif!FilesKept
    BY DEF LifeInv, FilesKept
  <1>a. LifeTypes /\ TextsKept /\ ScopeKept
    BY DEF LifeKept
  <1>1. Lif!TypeOK /\ Lif!ArchiveLosesNothing /\ Lif!MessagesLand /\ Lif!OnePlace
    BY <1>a DEF LifeTypes, TextsKept, Lif!ArchiveLosesNothing, Lif!MessagesLand
  <1>2. Lif!RetentionHonoured
    BY <1>a DEF ScopeKept, Lif!RetentionHonoured, Lif!Active
  <1>3. Lif!RemovalsAudited
    <2>1. removals \in Nat /\ audits \in Nat
      BY <1>a DEF LifeTypes
    <2> QED
      BY <1>a, <2>1 DEF ScopeKept, Lif!RemovalsAudited
  <1> QED
    BY <1>1, <1>2, <1>3 DEF Lif!FilesKept

\* Archiving destroys no message of a user, however a tar, a message and a stop
\* of the host interleave; nothing goes before its days are over, and no scope
\* without an audit row (session-archive.ts, scope-retention.ts).
THEOREM FilesSafe == Spec => []FilesKept
  <1>1. Init => LifeInv
    BY LifeInit
  <1>2. ASSUME LifeInv, [Next]_vars PROVE LifeInv'
    <2>1. CASE focus = "life" /\ Lif!Next /\ UNCHANGED focus
      <3>1. LifeKept
        BY <1>2, <2>1 DEF LifeInv
      <3>2. LifeKept'
        BY <2>1, <3>1, UserWriteStep, QuietWriteStep, LifeQuietSteps, TarStep, ArchiveStep, CutArchiveStep,
           ArchiveAgainStep, HardDeleteStep, ScopeSweepStep DEF Lif!Next
      <3> QED
        BY <3>2 DEF LifeInv
    <2>2. CASE UNCHANGED <<focus, lifVars>>
      BY <1>2, <2>2 DEF LifeInv, LifeKept, LifeTypes, Lif!TypeOK, TarsKept, TextsKept, Lif!OnePlace, ScopeKept,
         TarRecords, Lif!Days, Lif!Never, Lif!Dirs, Lif!Gone, Lif!NoTar, lifVars
    <2> QED
      BY <1>2, <2>1, <2>2 DEF Next, vars
  <1>3. LifeInv => FilesKept
    BY LifeImplied
  <1> QED
    BY <1>1, <1>2, <1>3, PTL DEF Spec

(***************************************************************************)
(* A task and its recurrences (TaskSeries).                                *)
(***************************************************************************)
\* Occurrence k is live; or completed, with the next one still to come.
Alive(k)  == status[k] \in {"pending", "paused"}
Awaits(k) == status[k] = "completed" /\ k \in recurs

\* The rows: what the sweep has read still holds, unused and failed rows are
\* nobody's run.
RowsKept ==
    /\ status \in [Tas!Occurrences -> {"none", "pending", "paused", "completed", "failed"}]
    /\ recurs \subseteq Tas!Occurrences
    /\ prompt \in [Tas!Occurrences -> 0 .. (MaxCommands + MaxTaskTrouble)]
    /\ runAck \in [Tas!Occurrences -> {"none", "processing", "done"}]
    /\ recurring \subseteq Tas!Occurrences
    /\ \A k \in recurring : Awaits(k)
    /\ \A k \in Tas!Occurrences : status[k] = "none" => prompt[k] = 0 /\ runAck[k] = "none" /\ k \notin recurs
    /\ \A k \in Tas!Occurrences : status[k] = "failed" => runAck[k] = "none"

\* Unless it forked the series is in one row, which has every update.
SeriesKept ==
    /\ status[1] = "none" => (\A k \in Tas!Occurrences : status[k] = "none") /\ updates = 0 /\ ~cancelled /\ ~paused
    /\ ~forked => \A j, k \in Tas!Occurrences : (Alive(j) \/ Awaits(j)) /\ (Alive(k) \/ Awaits(k)) => j = k
    /\ ~forked => \A k \in Tas!Occurrences : Alive(k) \/ Awaits(k) => prompt[k] = updates
    /\ ~ended => \A k \in Tas!Occurrences : Alive(k) => k \in recurs
    /\ status[1] # "none" /\ ~cancelled /\ ~ended => \E k \in Tas!Occurrences : Alive(k) \/ Awaits(k)
    /\ cancelled /\ ~missed => \A k \in Tas!Occurrences : ~Alive(k) /\ ~Awaits(k)

\* A pause that met no run and no row between two occurrences leaves nothing
\* that could start.
PauseKept ==
    /\ \A k \in Tas!Occurrences : status[k] = "paused" => paused
    /\ paused /\ ~inRun /\ ~missed => \A k \in Tas!Occurrences :
         status[k] # "pending" /\ ~Awaits(k) /\ (status[k] = "paused" => runAck[k] = "none")
    /\ ranPaused => inRun \/ missed

\* The commands come in order, the schedule first, each applied once more only
\* by a stop of the host.
LineKept ==
    /\ commands \in Seq(Tas!Commands)
    /\ calls \in 0 .. MaxCommands /\ taskTrouble \in 0 .. MaxTaskTrouble /\ updates \in Nat
    /\ updates + Len(commands) <= calls + taskTrouble
    /\ status[1] = "none" => \/ calls = 0 /\ commands = <<>>
                             \/ commands # <<>> /\ Head(commands) = "schedule"

\* The flags.
FlagsKept ==
    /\ sweepAt \in {"idle", "synced", "recurring"}
    /\ taskUp \in BOOLEAN /\ paused \in BOOLEAN /\ cancelled \in BOOLEAN /\ missed \in BOOLEAN
    /\ inRun \in BOOLEAN /\ forked \in BOOLEAN /\ ended \in BOOLEAN /\ ranPaused \in BOOLEAN

\* All of it.
TasksKept == RowsKept /\ SeriesKept /\ PauseKept /\ LineKept /\ FlagsKept

\* The sets of the model, row by row.
LEMMA TaskSets ==
    /\ 1 \in Tas!Occurrences /\ Tas!Occurrences \subseteq Nat
    /\ Tas!Live = {k \in Tas!Occurrences : Alive(k)}
    /\ Tas!Between = {k \in Tas!Occurrences : Awaits(k)}
    /\ Tas!In({"pending"}) = {k \in Tas!Occurrences : status[k] = "pending"}
    /\ Tas!In({"paused"}) = {k \in Tas!Occurrences : status[k] = "paused"}
  <1>1. 1 \in Tas!Occurrences /\ Tas!Occurrences \subseteq Nat
    BY TasksAssumption DEF Tas!Occurrences
  <1> QED
    BY <1>1 DEF Tas!Live, Tas!Between, Tas!In, Alive, Awaits

\* What a command leaves behind it; the line is not looked at.
LEMMA InsertTaskStep ==
    ASSUME TasksKept, Tas!insertTask, UNCHANGED runAck, recurring' \subseteq recurring
    PROVE  RowsKept' /\ SeriesKept' /\ PauseKept' /\ status'[1] # "none" /\ updates' = updates
  <1>a. RowsKept /\ SeriesKept /\ PauseKept /\ FlagsKept
    BY DEF TasksKept
  <1>b. 1 \in Tas!Occurrences
    BY TaskSets
  <1>1. prompt' = prompt /\ UNCHANGED <<updates, paused, cancelled, missed, inRun, forked, ended, ranPaused>>
    BY DEF Tas!insertTask, Tas!notes
  <1>2. CASE status[1] # "none"
    <2>1. status' = status /\ recurs' = recurs
      BY <1>2 DEF Tas!insertTask
    <2>2. RowsKept'
      BY <1>a, <1>1, <2>1 DEF RowsKept, Awaits, Tas!Occurrences
    <2>3. SeriesKept'
      BY <1>a, <1>1, <2>1 DEF SeriesKept, Awaits, Alive, Tas!Occurrences
    <2>4. PauseKept'
      BY <1>a, <1>1, <2>1 DEF PauseKept, Awaits, Tas!Occurrences
    <2> QED
      BY <1>1, <1>2, <2>1, <2>2, <2>3, <2>4
  <1>3. CASE status[1] = "none"
    <2>1. status' = [k \in Tas!Occurrences |-> IF k \in {1} THEN "pending" ELSE status[k]] /\ recurs' = {1}
      BY <1>3 DEF Tas!insertTask, Tas!SetAll
    <2>2. /\ \A k \in Tas!Occurrences : status[k] = "none" /\ prompt[k] = 0 /\ runAck[k] = "none"
          /\ updates = 0 /\ ~cancelled /\ ~paused
      BY <1>a, <1>3 DEF SeriesKept, RowsKept
    <2>3. status'[1] = "pending" /\ \A k \in Tas!Occurrences \ {1} : status'[k] = "none"
      BY <1>b, <2>1, <2>2
    <2>4. recurring = {}
      BY <1>a, <2>2 DEF RowsKept, Awaits
    <2>5. RowsKept'
      BY <1>a, <1>b, <1>1, <2>1, <2>2, <2>3, <2>4 DEF RowsKept, Awaits, Tas!Occurrences
    <2>6. SeriesKept'
      BY <1>a, <1>b, <1>1, <2>1, <2>2, <2>3 DEF SeriesKept, Awaits, Alive, Tas!Occurrences
    <2>7. PauseKept'
      BY <1>a, <1>b, <1>1, <2>1, <2>2, <2>3 DEF PauseKept, Awaits, Tas!Occurrences
    <2> QED
      BY <1>1, <2>3, <2>5, <2>6, <2>7
  <1> QED
    BY <1>2, <1>3

\* A pause moves what is pending.
LEMMA PauseTaskStep ==
    ASSUME TasksKept, status[1] # "none", Tas!pauseTask, UNCHANGED runAck, recurring' \subseteq recurring
    PROVE  RowsKept' /\ SeriesKept' /\ PauseKept' /\ status'[1] # "none" /\ updates' = updates
  <1>a. RowsKept /\ SeriesKept /\ PauseKept /\ FlagsKept
    BY DEF TasksKept
  <1>b. 1 \in Tas!Occurrences /\ status \in [Tas!Occurrences -> {"none", "pending", "paused", "completed", "failed"}]
    BY <1>a, TaskSets DEF RowsKept
  <1>1. UNCHANGED <<recurs, prompt, updates, cancelled, forked, ended, ranPaused>>
    BY DEF Tas!pauseTask
  <1>2. \A k \in Tas!Occurrences : status'[k] = IF status[k] = "pending" THEN "paused" ELSE status[k]
    BY TaskSets DEF Tas!pauseTask, Tas!SetAll
  <1>3. status' \in [Tas!Occurrences -> {"none", "pending", "paused", "completed", "failed"}]
    BY <1>b, <1>2, TaskSets DEF Tas!pauseTask, Tas!SetAll
  <1>4. /\ paused' <=> (paused \/ \E k \in Tas!Occurrences : status[k] = "pending")
        /\ inRun' <=> (inRun \/ \E k \in Tas!Occurrences : status[k] = "pending" /\ runAck[k] # "none")
        /\ missed' <=> (missed \/ \E k \in Tas!Occurrences : Awaits(k))
    BY TaskSets DEF Tas!pauseTask
  <1>5. \A k \in Tas!Occurrences : /\ status'[k] \in {"pending", "paused"} <=> Alive(k)
                                   /\ (status'[k] = "completed" /\ k \in recurs') <=> Awaits(k)
    BY <1>1, <1>2 DEF Alive, Awaits
  <1>6. RowsKept'
    BY <1>a, <1>1, <1>2, <1>3 DEF RowsKept, Awaits, Tas!Occurrences
  <1>7. SeriesKept'
    BY <1>a, <1>b, <1>1, <1>2, <1>4, <1>5 DEF SeriesKept, Awaits, Alive, Tas!Occurrences
  <1>8. PauseKept'
    BY <1>a, <1>1, <1>2, <1>4, <1>5 DEF PauseKept, Awaits, Tas!Occurrences
  <1> QED
    BY <1>b, <1>1, <1>2, <1>6, <1>7, <1>8

\* A resume moves what is paused.
LEMMA ResumeTaskStep ==
    ASSUME TasksKept, status[1] # "none", Tas!resumeTask, UNCHANGED runAck, recurring' \subseteq recurring
    PROVE  RowsKept' /\ SeriesKept' /\ PauseKept' /\ status'[1] # "none" /\ updates' = updates
  <1>a. RowsKept /\ SeriesKept /\ PauseKept /\ FlagsKept
    BY DEF TasksKept
  <1>b. 1 \in Tas!Occurrences /\ status \in [Tas!Occurrences -> {"none", "pending", "paused", "completed", "failed"}]
    BY <1>a, TaskSets DEF RowsKept
  <1>1. UNCHANGED <<recurs, prompt, updates, cancelled, missed, inRun, forked, ended, ranPaused>> /\ ~paused'
    BY DEF Tas!resumeTask
  <1>2. \A k \in Tas!Occurrences : status'[k] = IF status[k] = "paused" THEN "pending" ELSE status[k]
    BY TaskSets DEF Tas!resumeTask, Tas!SetAll
  <1>3. status' \in [Tas!Occurrences -> {"none", "pending", "paused", "completed", "failed"}]
    BY <1>b, <1>2, TaskSets DEF Tas!resumeTask, Tas!SetAll
  <1>4. \A k \in Tas!Occurrences : /\ status'[k] \in {"pending", "paused"} <=> Alive(k)
                                   /\ (status'[k] = "completed" /\ k \in recurs') <=> Awaits(k)
    BY <1>1, <1>2 DEF Alive, Awaits
  <1>5. RowsKept'
    BY <1>a, <1>1, <1>2, <1>3 DEF RowsKept, Awaits, Tas!Occurrences
  <1>6. SeriesKept'
    BY <1>a, <1>b, <1>1, <1>2, <1>4 DEF SeriesKept, Awaits, Alive, Tas!Occurrences
  <1>7. PauseKept'
    BY <1>a, <1>1, <1>2, <1>4 DEF PauseKept, Awaits, Tas!Occurrences
  <1> QED
    BY <1>b, <1>1, <1>2, <1>5, <1>6, <1>7

\* A cancel completes what is live, without recurrence.
LEMMA CancelTaskStep ==
    ASSUME TasksKept, status[1] # "none", Tas!cancelTask, UNCHANGED runAck, recurring' \subseteq recurring
    PROVE  RowsKept' /\ SeriesKept' /\ PauseKept' /\ status'[1] # "none" /\ updates' = updates
  <1>a. RowsKept /\ SeriesKept /\ PauseKept /\ FlagsKept
    BY DEF TasksKept
  <1>b. 1 \in Tas!Occurrences /\ status \in [Tas!Occurrences -> {"none", "pending", "paused", "completed", "failed"}]
    BY <1>a, TaskSets DEF RowsKept
  <1>1. /\ UNCHANGED <<prompt, updates, paused, inRun, forked, ended, ranPaused>> /\ cancelled'
        /\ recurs' = recurs \ {k \in Tas!Occurrences : Alive(k)}
        /\ missed' <=> (missed \/ \E k \in Tas!Occurrences : Awaits(k))
    BY TaskSets DEF Tas!cancelTask
  <1>2. \A k \in Tas!Occurrences : status'[k] = IF Alive(k) THEN "completed" ELSE status[k]
    BY TaskSets DEF Tas!cancelTask, Tas!SetAll
  <1>3. status' \in [Tas!Occurrences -> {"none", "pending", "paused", "completed", "failed"}]
    BY <1>b, <1>2, TaskSets DEF Tas!cancelTask, Tas!SetAll
  <1>4. \A k \in Tas!Occurrences : /\ ~ (status'[k] \in {"pending", "paused"})
                                   /\ (status'[k] = "completed" /\ k \in recurs') <=> Awaits(k)
    BY <1>1, <1>2 DEF Alive, Awaits
  <1>5. RowsKept'
    BY <1>a, <1>1, <1>2, <1>3, <1>4 DEF RowsKept, Awaits, Alive, Tas!Occurrences
  <1>6. SeriesKept'
    BY <1>a, <1>b, <1>1, <1>2, <1>4 DEF SeriesKept, Awaits, Alive, Tas!Occurrences
  <1>7. PauseKept'
    BY <1>a, <1>1, <1>2, <1>4 DEF PauseKept, Awaits, Alive, Tas!Occurrences
  <1> QED
    BY <1>b, <1>1, <1>2, <1>5, <1>6, <1>7 DEF Alive

\* An update writes what is live; room for its number is left by the line.
LEMMA UpdateTaskStep ==
    ASSUME TasksKept, status[1] # "none", NEW once \in BOOLEAN, Tas!updateTask(once), commands # <<>>,
           UNCHANGED runAck, recurring' \subseteq recurring
    PROVE  /\ RowsKept' /\ SeriesKept' /\ PauseKept' /\ status'[1] # "none"
           /\ updates' = updates \/ updates' = updates + 1
  <1>a. RowsKept /\ SeriesKept /\ PauseKept /\ FlagsKept /\ LineKept
    BY DEF TasksKept
  <1>b. 1 \in Tas!Occurrences /\ updates \in Nat /\ MaxCommands \in Nat /\ MaxTaskTrouble \in Nat
    BY <1>a, TaskSets, TasksAssumption DEF LineKept
  <1>1. /\ UNCHANGED <<status, paused, cancelled, missed, inRun, forked, ranPaused>>
        /\ prompt' = [k \in Tas!Occurrences |-> IF Alive(k) THEN updates + 1 ELSE prompt[k]]
        /\ recurs' = IF once THEN recurs \ {k \in Tas!Occurrences : Alive(k)} ELSE recurs
        /\ updates' = IF \E k \in Tas!Occurrences : Alive(k) THEN updates + 1 ELSE updates
        /\ ended' <=> (ended \/ once)
    BY TaskSets DEF Tas!updateTask
  <1>2. updates + 1 \in 0 .. (MaxCommands + MaxTaskTrouble)
    <2>1. Len(commands) \in Nat /\ Len(commands) >= 1
      BY <1>a DEF LineKept
    <2>2. updates + Len(commands) <= calls + taskTrouble /\ calls \in 0 .. MaxCommands /\ taskTrouble \in 0 .. MaxTaskTrouble
      BY <1>a DEF LineKept
    <2> QED
      BY <1>b, <2>1, <2>2
  <1>3. \A k \in Tas!Occurrences : prompt'[k] = IF Alive(k) THEN updates + 1 ELSE prompt[k]
    BY <1>1
  <1>4. prompt' \in [Tas!Occurrences -> 0 .. (MaxCommands + MaxTaskTrouble)]
    BY <1>a, <1>1, <1>2 DEF RowsKept
  <1>5. \A k \in Tas!Occurrences : /\ status'[k] \in {"pending", "paused"} <=> Alive(k)
                                   /\ (status'[k] = "completed" /\ k \in recurs') <=> Awaits(k)
    BY <1>1 DEF Alive, Awaits
  <1>6. RowsKept'
    <2>1. recurs' \subseteq recurs
      BY <1>1
    <2>2. \A k \in recurring' : (status[k] = "completed" /\ k \in recurs)'
      BY <1>a, <1>5 DEF RowsKept
    <2>3. \A k \in Tas!Occurrences : status[k] = "none" => ~Alive(k)
      BY DEF Alive
    <2> QED
      BY <1>a, <1>1, <1>3, <1>4, <2>1, <2>2, <2>3 DEF RowsKept, Awaits, Tas!Occurrences
  <1>7. SeriesKept'
    <2>1. (~forked => \A j, k \in Tas!Occurrences : (Alive(j) \/ Awaits(j)) /\ (Alive(k) \/ Awaits(k)) => j = k)'
      BY <1>a, <1>1, <1>5 DEF SeriesKept, Alive, Awaits, Tas!Occurrences
    <2>2. ASSUME ~forked, NEW k \in Tas!Occurrences, Alive(k) \/ Awaits(k) PROVE prompt'[k] = updates'
      <3>1. prompt[k] = updates
        BY <1>a, <2>2 DEF SeriesKept
      <3>2. CASE Alive(k)
        BY <1>1, <1>3, <3>2
      <3>3. CASE ~Alive(k)
        <4>1. \A j \in Tas!Occurrences : Alive(j) => j = k
          BY <1>a, <2>2 DEF SeriesKept
        <4>2. ~ \E j \in Tas!Occurrences : Alive(j)
          BY <3>3, <4>1
        <4> QED
          BY <1>1, <1>3, <3>1, <3>3, <4>2
      <3> QED
        BY <3>2, <3>3
    <2>3. (~forked => \A k \in Tas!Occurrences : Alive(k) \/ Awaits(k) => prompt[k] = updates)'
      BY <1>1, <1>5, <2>2 DEF Alive, Awaits, Tas!Occurrences
    <2>4. (~ended => \A k \in Tas!Occurrences : Alive(k) => k \in recurs)'
      BY <1>a, <1>1, <1>5 DEF SeriesKept, Alive, Tas!Occurrences
    <2>5. (status[1] # "none" /\ ~cancelled /\ ~ended => \E k \in Tas!Occurrences : Alive(k) \/ Awaits(k))'
      BY <1>a, <1>1, <1>5 DEF SeriesKept, Alive, Awaits, Tas!Occurrences
    <2>6. (cancelled /\ ~missed => \A k \in Tas!Occurrences : ~Alive(k) /\ ~Awaits(k))'
      BY <1>a, <1>1, <1>5 DEF SeriesKept, Alive, Awaits, Tas!Occurrences
    <2>7. (status[1] # "none")'
      BY <1>1
    <2> QED
      BY <2>1, <2>3, <2>4, <2>5, <2>6, <2>7 DEF SeriesKept
  <1>8. PauseKept'
    BY <1>a, <1>1, <1>5 DEF PauseKept, Awaits, Tas!Occurrences
  <1> QED
    BY <1>1, <1>6, <1>7, <1>8

\* The delivery of a command, whole or cut short before it is recorded.
LEMMA DeliverStep ==
    ASSUME TasksKept, Tas!Deliver \/ Tas!DeliverCutShort
    PROVE  TasksKept'
  <1> DEFINE c == Head(commands)
  <1>a. RowsKept /\ SeriesKept /\ PauseKept /\ FlagsKept /\ LineKept
    BY DEF TasksKept
  <1>1. commands # <<>> /\ Tas!Applied(c) /\ UNCHANGED <<runAck, calls>> /\ recurring' \subseteq recurring
    BY DEF Tas!Deliver, Tas!DeliverCutShort
  <1>2. Len(commands) \in Nat \ {0} /\ Tail(commands) \in Seq(Tas!Commands) /\ Len(Tail(commands)) = Len(commands) - 1
    BY <1>a, <1>1 DEF LineKept
  <1>3. c # "schedule" => status[1] # "none"
    BY <1>a, <1>1 DEF LineKept
  <1>4. /\ RowsKept' /\ SeriesKept' /\ PauseKept' /\ status'[1] # "none"
        /\ updates' = updates \/ updates' = updates + 1
    <2>1. CASE c = "schedule" /\ Tas!insertTask
      BY <1>1, <2>1, InsertTaskStep
    <2>2. CASE c = "pause" /\ Tas!pauseTask
      BY <1>1, <1>3, <2>2, PauseTaskStep
    <2>3. CASE c = "resume" /\ Tas!resumeTask
      BY <1>1, <1>3, <2>3, ResumeTaskStep
    <2>4. CASE c = "cancel" /\ Tas!cancelTask
      BY <1>1, <1>3, <2>4, CancelTaskStep
    <2>5. CASE c = "update" /\ Tas!updateTask(FALSE)
      BY <1>1, <1>3, <2>5, UpdateTaskStep
    <2>6. CASE c = "once" /\ Tas!updateTask(TRUE)
      BY <1>1, <1>3, <2>6, UpdateTaskStep
    <2> QED
      BY <1>1, <2>1, <2>2, <2>3, <2>4, <2>5, <2>6 DEF Tas!Applied
  <1>5. LineKept'
    <2>1. /\ calls \in 0 .. MaxCommands /\ taskTrouble \in 0 .. MaxTaskTrouble /\ updates \in Nat
          /\ updates + Len(commands) <= calls + taskTrouble /\ commands \in Seq(Tas!Commands)
      BY <1>a DEF LineKept
    <2>2. \/ commands' = Tail(commands) /\ taskTrouble' = taskTrouble
          \/ commands' = commands /\ taskTrouble < MaxTaskTrouble /\ taskTrouble' = taskTrouble + 1
      BY DEF Tas!Deliver, Tas!DeliverCutShort, Tas!Trouble
    <2>3. commands' \in Seq(Tas!Commands) /\ Len(commands') \in Nat
      BY <1>2, <2>1, <2>2
    <2>4. taskTrouble' \in 0 .. MaxTaskTrouble /\ updates' \in Nat /\ updates' + Len(commands') <= calls' + taskTrouble'
      <3>0. calls' = calls /\ calls \in Nat /\ taskTrouble \in Nat /\ MaxTaskTrouble \in Nat /\ taskTrouble <= MaxTaskTrouble
        BY <1>1, <2>1, TasksAssumption
      <3>1. CASE commands' = Tail(commands) /\ taskTrouble' = taskTrouble
        BY <1>2, <1>4, <2>1, <3>0, <3>1
      <3>2. CASE commands' = commands /\ taskTrouble < MaxTaskTrouble /\ taskTrouble' = taskTrouble + 1
        BY <1>2, <1>4, <2>1, <3>0, <3>2
      <3> QED
        BY <2>2, <3>1, <3>2
    <2> QED
      BY <1>1, <1>4, <2>1, <2>3, <2>4 DEF LineKept, Tas!Commands
  <1>6. FlagsKept'
    <2>1. sweepAt' \in {"idle", "synced", "recurring"} /\ taskUp' \in BOOLEAN
      BY <1>a DEF FlagsKept, Tas!Deliver, Tas!DeliverCutShort
    <2> QED
      BY <1>a, <1>1, <2>1 DEF FlagsKept, Tas!Applied, Tas!insertTask, Tas!pauseTask, Tas!resumeTask, Tas!cancelTask,
         Tas!updateTask, Tas!notes
  <1> QED
    BY <1>4, <1>5, <1>6 DEF TasksKept

\* Steps that leave the table, the acks and the notes alone.
LEMMA TaskQuietSteps ==
    ASSUME TasksKept,
           \/ Tas!getCompletedRecurring \/ Tas!SweepEnds \/ Tas!HostEnds \/ Tas!HostStarts
           \/ \E k \in Tas!Occurrences : Tas!RecurrenceFails(k)
    PROVE  TasksKept'
  <1>a. RowsKept /\ SeriesKept /\ PauseKept /\ FlagsKept /\ LineKept
    BY DEF TasksKept
  <1>1. /\ UNCHANGED <<status, recurs, prompt, runAck, commands, calls>>
        /\ UNCHANGED <<updates, paused, cancelled, missed, inRun, forked, ended, ranPaused>>
    BY DEF Tas!getCompletedRecurring, Tas!SweepEnds, Tas!HostEnds, Tas!HostStarts, Tas!RecurrenceFails,
       Tas!table, Tas!notes
  <1>2. recurring' \subseteq recurring \union {k \in Tas!Occurrences : Awaits(k)}
    BY TaskSets DEF Tas!getCompletedRecurring, Tas!SweepEnds, Tas!HostEnds, Tas!HostStarts, Tas!RecurrenceFails
  <1>3. RowsKept'
    BY <1>a, <1>1, <1>2 DEF RowsKept, Awaits, Tas!Occurrences
  <1>4. SeriesKept'
    BY <1>a, <1>1 DEF SeriesKept, Awaits, Alive, Tas!Occurrences
  <1>5. PauseKept'
    BY <1>a, <1>1 DEF PauseKept, Awaits, Tas!Occurrences
  <1>6. LineKept'
    <2>1. taskTrouble' = taskTrouble \/ (taskTrouble < MaxTaskTrouble /\ taskTrouble' = taskTrouble + 1)
      BY DEF Tas!getCompletedRecurring, Tas!SweepEnds, Tas!HostEnds, Tas!HostStarts, Tas!RecurrenceFails, Tas!Trouble
    <2>2. /\ calls \in Nat /\ taskTrouble \in 0 .. MaxTaskTrouble /\ updates \in Nat /\ commands \in Seq(Tas!Commands)
          /\ updates + Len(commands) <= calls + taskTrouble /\ MaxTaskTrouble \in Nat
      BY <1>a, TasksAssumption DEF LineKept
    <2>3. taskTrouble' \in 0 .. MaxTaskTrouble /\ updates + Len(commands) <= calls + taskTrouble'
      <3>1. Len(commands) \in Nat
        BY <2>2
      <3> QED
        BY <2>1, <2>2, <3>1
    <2> QED
      BY <1>a, <1>1, <2>3 DEF LineKept, Tas!Commands
  <1>7. FlagsKept'
    BY <1>a, <1>1, ZenonT(60) DEF FlagsKept, Tas!getCompletedRecurring, Tas!SweepEnds, Tas!HostEnds, Tas!HostStarts,
       Tas!RecurrenceFails
  <1> QED
    BY <1>3, <1>4, <1>5, <1>6, <1>7 DEF TasksKept

\* A tool call goes to the end of the line, the schedule to its front.
LEMMA ToolCallStep == ASSUME TasksKept, NEW c \in Tas!Commands, Tas!ToolCall(c) PROVE TasksKept'
  <1>a. RowsKept /\ SeriesKept /\ PauseKept /\ FlagsKept /\ LineKept
    BY DEF TasksKept
  <1>1. /\ UNCHANGED <<status, recurs, prompt, runAck, sweepAt, recurring, taskUp, taskTrouble>>
        /\ UNCHANGED <<updates, paused, cancelled, missed, inRun, forked, ended, ranPaused>>
        /\ calls < MaxCommands /\ calls' = calls + 1 /\ commands' = Append(commands, c)
        /\ calls = 0 => c = "schedule"
    BY DEF Tas!ToolCall, Tas!table, Tas!notes
  <1>2. /\ calls \in 0 .. MaxCommands /\ taskTrouble \in Nat /\ updates \in Nat /\ commands \in Seq(Tas!Commands)
        /\ updates + Len(commands) <= calls + taskTrouble /\ MaxCommands \in Nat /\ Len(commands) \in Nat
    BY <1>a, TasksAssumption DEF LineKept
  <1>3. commands' \in Seq(Tas!Commands) /\ Len(commands') = Len(commands) + 1 /\ commands' # <<>>
    BY <1>1, <1>2
  <1>4. calls' \in 0 .. MaxCommands /\ updates + Len(commands') <= calls' + taskTrouble
    BY <1>1, <1>2, <1>3
  <1>5. status[1] = "none" => Head(commands') = "schedule"
    <2> SUFFICES ASSUME status[1] = "none" PROVE Head(commands') = "schedule"
      OBVIOUS
    <2>1. CASE calls = 0 /\ commands = <<>>
      BY <1>1, <2>1
    <2>2. CASE commands # <<>> /\ Head(commands) = "schedule"
      BY <1>1, <1>2, <2>2
    <2> QED
      BY <1>a, <2>1, <2>2 DEF LineKept
  <1>6. LineKept'
    BY <1>a, <1>1, <1>3, <1>4, <1>5 DEF LineKept, Tas!Commands
  <1>7. RowsKept'
    BY <1>a, <1>1 DEF RowsKept, Awaits, Tas!Occurrences
  <1>8. SeriesKept'
    BY <1>a, <1>1 DEF SeriesKept, Awaits, Alive, Tas!Occurrences
  <1>9. PauseKept' /\ FlagsKept'
    BY <1>a, <1>1 DEF PauseKept, FlagsKept, Awaits, Tas!Occurrences
  <1> QED
    BY <1>6, <1>7, <1>8, <1>9 DEF TasksKept

\* The line is kept by a step that leaves it alone and uses status[1] as before.
LEMMA LineStays ==
    ASSUME LineKept, UNCHANGED <<commands, calls, updates>>, status'[1] = "none" => status[1] = "none",
           taskTrouble' = taskTrouble \/ (taskTrouble < MaxTaskTrouble /\ taskTrouble' = taskTrouble + 1)
    PROVE  LineKept'
  <1>1. /\ calls \in Nat /\ taskTrouble \in 0 .. MaxTaskTrouble /\ updates \in Nat /\ commands \in Seq(Tas!Commands)
        /\ updates + Len(commands) <= calls + taskTrouble /\ MaxTaskTrouble \in Nat /\ Len(commands) \in Nat
    BY TasksAssumption DEF LineKept
  <1>2. taskTrouble' \in 0 .. MaxTaskTrouble /\ updates + Len(commands) <= calls + taskTrouble'
    BY <1>1
  <1> QED
    BY <1>2 DEF LineKept, Tas!Commands

\* A run begins, ends, or is lost with its container.
LEMMA RunSteps ==
    ASSUME TasksKept, NEW k \in Tas!Occurrences, Tas!StartRun(k) \/ Tas!EndRun(k) \/ Tas!RunLost(k)
    PROVE  TasksKept'
  <1>a. RowsKept /\ SeriesKept /\ PauseKept /\ FlagsKept /\ LineKept
    BY DEF TasksKept
  <1>b. /\ 1 \in Tas!Occurrences /\ runAck \in [Tas!Occurrences -> {"none", "processing", "done"}]
        /\ status \in [Tas!Occurrences -> {"none", "pending", "paused", "completed", "failed"}]
    BY <1>a, TaskSets DEF RowsKept
  <1>1. /\ UNCHANGED <<recurs, prompt, commands, calls, sweepAt, recurring, taskUp>>
        /\ UNCHANGED <<updates, paused, cancelled, missed, inRun, forked>>
    BY DEF Tas!StartRun, Tas!EndRun, Tas!RunLost, Tas!table, Tas!notes
  <1>2. CASE Tas!StartRun(k)
    <2>1. /\ status' = status /\ status[k] = "pending" /\ runAck' = [runAck EXCEPT ![k] = "processing"]
          /\ ranPaused' = (ranPaused \/ paused) /\ ended' = ended /\ taskTrouble' = taskTrouble
      BY <1>2 DEF Tas!StartRun, Tas!table
    <2>2. /\ runAck' \in [Tas!Occurrences -> {"none", "processing", "done"}]
          /\ \A j \in Tas!Occurrences \ {k} : runAck'[j] = runAck[j]
      BY <1>b, <2>1
    <2>3. RowsKept'
      BY <1>a, <1>1, <2>1, <2>2 DEF RowsKept, Awaits, Tas!Occurrences
    <2>4. SeriesKept'
      BY <1>a, <1>1, <2>1 DEF SeriesKept, Awaits, Alive, Tas!Occurrences
    <2>5. PauseKept'
      BY <1>a, <1>1, <2>1, <2>2 DEF PauseKept, Awaits, Tas!Occurrences
    <2>6. FlagsKept'
      BY <1>a, <1>1, <2>1 DEF FlagsKept
    <2>7. LineKept'
      BY <1>a, <1>1, <2>1, LineStays
    <2> QED
      BY <2>3, <2>4, <2>5, <2>6, <2>7 DEF TasksKept
  <1>3. CASE Tas!EndRun(k)
    <2>1. /\ status' = status /\ runAck[k] = "processing" /\ runAck' = [runAck EXCEPT ![k] = "done"]
          /\ ranPaused' = ranPaused /\ ended' = ended /\ taskTrouble' = taskTrouble
      BY <1>3 DEF Tas!EndRun, Tas!table, Tas!notes
    <2>2. /\ runAck' \in [Tas!Occurrences -> {"none", "processing", "done"}]
          /\ \A j \in Tas!Occurrences \ {k} : runAck'[j] = runAck[j]
      BY <1>b, <2>1
    <2>3. RowsKept'
      BY <1>a, <1>1, <2>1, <2>2 DEF RowsKept, Awaits, Tas!Occurrences
    <2>4. SeriesKept'
      BY <1>a, <1>1, <2>1 DEF SeriesKept, Awaits, Alive, Tas!Occurrences
    <2>5. PauseKept'
      BY <1>a, <1>1, <2>1, <2>2 DEF PauseKept, Awaits, Tas!Occurrences
    <2>6. FlagsKept'
      BY <1>a, <1>1, <2>1 DEF FlagsKept
    <2>7. LineKept'
      BY <1>a, <1>1, <2>1, LineStays
    <2> QED
      BY <2>3, <2>4, <2>5, <2>6, <2>7 DEF TasksKept
  <1>4. CASE Tas!RunLost(k)
    <2>1. /\ runAck' = [runAck EXCEPT ![k] = "none"] /\ ranPaused' = ranPaused
          /\ taskTrouble < MaxTaskTrouble /\ taskTrouble' = taskTrouble + 1
          /\ \/ status' = status /\ ended' = ended
             \/ /\ Alive(k) /\ ended' = TRUE
                /\ status' = [j \in Tas!Occurrences |-> IF j \in {k} THEN "failed" ELSE status[j]]
      BY <1>4 DEF Tas!RunLost, Tas!Trouble, Tas!SetAll, Alive
    <2>2. /\ runAck' \in [Tas!Occurrences -> {"none", "processing", "done"}] /\ runAck'[k] = "none"
          /\ \A j \in Tas!Occurrences \ {k} : runAck'[j] = runAck[j]
      BY <1>b, <2>1
    <2>3. /\ status' \in [Tas!Occurrences -> {"none", "pending", "paused", "completed", "failed"}]
          /\ \A j \in Tas!Occurrences : status'[j] = status[j] \/ (j = k /\ Alive(j) /\ status'[j] = "failed" /\ ended')
          /\ ended => ended'
      BY <1>b, <2>1
    <2>4. \A j \in Tas!Occurrences : /\ status'[j] \in {"pending", "paused"} => Alive(j) /\ status'[j] = status[j]
                                     /\ (status'[j] = "completed" /\ j \in recurs') <=> Awaits(j)
                                     /\ status'[j] = "none" <=> status[j] = "none"
      BY <1>1, <2>3 DEF Alive, Awaits
    <2>5. RowsKept'
      BY <1>a, <1>1, <2>2, <2>3, <2>4 DEF RowsKept, Awaits, Tas!Occurrences
    <2>6. SeriesKept'
      <3>1. (status[1] = "none" => (\A j \in Tas!Occurrences : status[j] = "none") /\ updates = 0 /\ ~cancelled /\ ~paused)'
        BY <1>a, <1>b, <1>1, <2>4 DEF SeriesKept, Tas!Occurrences
      <3>2. (~forked => \A i, j \in Tas!Occurrences : (Alive(i) \/ Awaits(i)) /\ (Alive(j) \/ Awaits(j)) => i = j)'
        BY <1>a, <1>1, <2>4 DEF SeriesKept, Alive, Awaits, Tas!Occurrences
      <3>3. (~forked => \A j \in Tas!Occurrences : Alive(j) \/ Awaits(j) => prompt[j] = updates)'
        BY <1>a, <1>1, <2>4 DEF SeriesKept, Alive, Awaits, Tas!Occurrences
      <3>4. (~ended => \A j \in Tas!Occurrences : Alive(j) => j \in recurs)'
        BY <1>a, <1>1, <2>3, <2>4 DEF SeriesKept, Alive, Tas!Occurrences
      <3>5. (status[1] # "none" /\ ~cancelled /\ ~ended => \E j \in Tas!Occurrences : Alive(j) \/ Awaits(j))'
        <4>1. ended' \/ status' = status
          BY <2>1
        <4> QED
          BY <1>a, <1>1, <2>3, <4>1 DEF SeriesKept, Alive, Awaits, Tas!Occurrences
      <3>6. (cancelled /\ ~missed => \A j \in Tas!Occurrences : ~Alive(j) /\ ~Awaits(j))'
        BY <1>a, <1>1, <2>4 DEF SeriesKept, Alive, Awaits, Tas!Occurrences
      <3> QED
        BY <3>1, <3>2, <3>3, <3>4, <3>5, <3>6 DEF SeriesKept
    <2>7. PauseKept'
      BY <1>a, <1>1, <2>1, <2>2, <2>4 DEF PauseKept, Awaits, Tas!Occurrences
    <2>8. FlagsKept'
      BY <1>a, <1>1, <2>1 DEF FlagsKept
    <2>9. LineKept'
      BY <1>a, <1>b, <1>1, <2>1, <2>4, LineStays
    <2> QED
      BY <2>5, <2>6, <2>7, <2>8, <2>9 DEF TasksKept
  <1> QED
    BY <1>2, <1>3, <1>4

\* The sweep copies the acks: only live rows change, into rows still to recur.
LEMMA SyncStep == ASSUME TasksKept, Tas!syncProcessingAcks PROVE TasksKept'
  <1>a. RowsKept /\ SeriesKept /\ PauseKept /\ FlagsKept /\ LineKept
    BY DEF TasksKept
  <1>b. /\ 1 \in Tas!Occurrences
        /\ status \in [Tas!Occurrences -> {"none", "pending", "paused", "completed", "failed"}]
    BY <1>a, TaskSets DEF RowsKept
  <1>1. /\ UNCHANGED <<recurs, prompt, runAck, commands, calls, recurring, taskUp, taskTrouble>>
        /\ UNCHANGED <<updates, paused, cancelled, missed, inRun, forked, ended, ranPaused>>
        /\ sweepAt' = "synced"
        /\ status' = [k \in Tas!Occurrences |-> IF k \in {j \in Tas!Occurrences : runAck[j] = "done"}
                                                THEN "completed" ELSE status[k]]
    BY DEF Tas!syncProcessingAcks, Tas!SetAll, Tas!notes
  <1>2. /\ status' \in [Tas!Occurrences -> {"none", "pending", "paused", "completed", "failed"}]
        /\ \A k \in Tas!Occurrences : status'[k] = IF runAck[k] = "done" THEN "completed" ELSE status[k]
    BY <1>b, <1>1
  <1>3. \A k \in Tas!Occurrences : runAck[k] = "done" => Alive(k) \/ status[k] = "completed"
    BY <1>a, <1>b DEF RowsKept, Alive
  <1>4. \A k \in Tas!Occurrences : /\ status'[k] \in {"pending", "paused"} => Alive(k) /\ status'[k] = status[k]
                                   /\ Alive(k) => status'[k] = status[k] \/ (status'[k] = "completed" /\ runAck[k] = "done")
                                   /\ Awaits(k) => (status'[k] = "completed" /\ k \in recurs')
                                   /\ (status'[k] = "completed" /\ k \in recurs')
                                        => Awaits(k) \/ (Alive(k) /\ runAck[k] = "done")
                                   /\ status'[k] = "none" <=> status[k] = "none"
                                   /\ status'[k] = "failed" <=> status[k] = "failed"
    BY <1>1, <1>2, <1>3 DEF Alive, Awaits
  <1>5. RowsKept'
    BY <1>a, <1>1, <1>2, <1>4 DEF RowsKept, Awaits, Tas!Occurrences
  <1>6. SeriesKept'
    <2>1. (status[1] = "none" => (\A j \in Tas!Occurrences : status[j] = "none") /\ updates = 0 /\ ~cancelled /\ ~paused)'
      BY <1>a, <1>b, <1>1, <1>4 DEF SeriesKept, Tas!Occurrences
    <2>2. (~forked => \A i, j \in Tas!Occurrences : (Alive(i) \/ Awaits(i)) /\ (Alive(j) \/ Awaits(j)) => i = j)'
      BY <1>a, <1>1, <1>4 DEF SeriesKept, Alive, Awaits, Tas!Occurrences
    <2>3. (~forked => \A j \in Tas!Occurrences : Alive(j) \/ Awaits(j) => prompt[j] = updates)'
      BY <1>a, <1>1, <1>4 DEF SeriesKept, Alive, Awaits, Tas!Occurrences
    <2>4. (~ended => \A j \in Tas!Occurrences : Alive(j) => j \in recurs)'
      BY <1>a, <1>1, <1>4 DEF SeriesKept, Alive, Tas!Occurrences
    <2>5. ASSUME status'[1] # "none", ~cancelled, ~ended
          PROVE  \E k \in Tas!Occurrences : status'[k] \in {"pending", "paused"} \/ (status'[k] = "completed" /\ k \in recurs')
      <3>1. status[1] # "none"
        BY <1>b, <1>4, <2>5
      <3>2. PICK k \in Tas!Occurrences : Alive(k) \/ Awaits(k)
        BY <1>a, <2>5, <3>1 DEF SeriesKept
      <3>3. CASE Awaits(k)
        BY <1>4, <3>3
      <3>4. CASE Alive(k)
        <4>1. k \in recurs'
          BY <1>a, <1>1, <2>5, <3>4 DEF SeriesKept
        <4>2. status'[k] = status[k] \/ status'[k] = "completed"
          BY <1>4, <3>4
        <4> QED
          BY <3>4, <4>1, <4>2 DEF Alive
      <3> QED
        BY <3>2, <3>3, <3>4
    <2>6. (status[1] # "none" /\ ~cancelled /\ ~ended => \E j \in Tas!Occurrences : Alive(j) \/ Awaits(j))'
      BY <1>1, <2>5 DEF Alive, Awaits, Tas!Occurrences
    <2>7. (cancelled /\ ~missed => \A j \in Tas!Occurrences : ~Alive(j) /\ ~Awaits(j))'
      BY <1>a, <1>1, <1>4 DEF SeriesKept, Alive, Awaits, Tas!Occurrences
    <2> QED
      BY <2>1, <2>2, <2>3, <2>4, <2>6, <2>7 DEF SeriesKept
  <1>7. PauseKept'
    <2>1. (\A k \in Tas!Occurrences : status[k] = "paused" => paused)'
      BY <1>a, <1>1, <1>4 DEF PauseKept, Tas!Occurrences
    <2>2. ASSUME paused, ~inRun, ~missed, NEW k \in Tas!Occurrences
          PROVE  /\ status'[k] # "pending" /\ ~ (status'[k] = "completed" /\ k \in recurs')
                 /\ status'[k] = "paused" => runAck[k] = "none"
      <3>1. status[k] # "pending" /\ ~Awaits(k) /\ (status[k] = "paused" => runAck[k] = "none")
        BY <1>a, <2>2 DEF PauseKept
      <3>2. ~ (Alive(k) /\ runAck[k] = "done")
        BY <3>1 DEF Alive
      <3> QED
        BY <1>4, <3>1, <3>2
    <2>3. (ranPaused => inRun \/ missed)'
      BY <1>a, <1>1 DEF PauseKept
    <2> QED
      BY <1>1, <2>1, <2>2, <2>3 DEF PauseKept, Awaits, Tas!Occurrences
  <1>8. FlagsKept'
    BY <1>a, <1>1 DEF FlagsKept
  <1>9. LineKept'
    BY <1>a, <1>b, <1>1, <1>4, LineStays
  <1> QED
    BY <1>5, <1>6, <1>7, <1>8, <1>9 DEF TasksKept

\* The next occurrence takes an unused row and the prompt of the last one.
LEMMA NextRowFacts ==
    ASSUME TasksKept, NEW k \in recurring, Tas!insertRecurrence(k)
    PROVE  \E n \in Tas!Occurrences :
             /\ n = Tas!First(Tas!Fresh) /\ n # k /\ n # 1 /\ status[n] = "none" /\ n \notin recurs
             /\ status' \in [Tas!Occurrences -> {"none", "pending", "paused", "completed", "failed"}]
             /\ prompt' \in [Tas!Occurrences -> 0 .. (MaxCommands + MaxTaskTrouble)]
             /\ status'[n] = "pending" /\ \A j \in Tas!Occurrences \ {n} : status'[j] = status[j]
             /\ prompt'[n] = prompt[k] /\ \A j \in Tas!Occurrences \ {n} : prompt'[j] = prompt[j]
  <1> DEFINE n == Tas!First(Tas!Fresh)
  <1>a. RowsKept /\ SeriesKept
    BY DEF TasksKept
  <1>b. /\ k \in Tas!Occurrences /\ Awaits(k) /\ 1 \in Tas!Occurrences /\ Tas!Occurrences \subseteq Nat
        /\ status \in [Tas!Occurrences -> {"none", "pending", "paused", "completed", "failed"}]
        /\ prompt \in [Tas!Occurrences -> 0 .. (MaxCommands + MaxTaskTrouble)]
    BY <1>a, TaskSets DEF RowsKept
  <1>1. Tas!Fresh \in SUBSET Nat /\ Tas!Fresh # {}
    BY <1>b DEF Tas!Fresh, Tas!insertRecurrence
  <1>2. n \in Tas!Fresh
    BY <1>1, LeastOf DEF Tas!First
  <1>3. /\ status' = [j \in Tas!Occurrences |-> IF j \in {n} THEN "pending" ELSE status[j]]
        /\ prompt' = [prompt EXCEPT ![n] = prompt[k]]
    BY DEF Tas!insertRecurrence, Tas!SetAll
  <1> HIDE DEF n
  <1>4. n \in Tas!Occurrences /\ status[n] = "none"
    BY <1>2 DEF Tas!Fresh
  <1>5. n # k /\ n \notin recurs
    BY <1>a, <1>b, <1>4 DEF RowsKept, Awaits
  <1>6. n # 1
    <2>1. status[1] # "none"
      BY <1>a, <1>b DEF SeriesKept, Awaits
    <2> QED
      BY <1>4, <2>1
  <1>7. /\ status' \in [Tas!Occurrences -> {"none", "pending", "paused", "completed", "failed"}]
        /\ status'[n] = "pending" /\ \A j \in Tas!Occurrences \ {n} : status'[j] = status[j]
    BY <1>b, <1>3, <1>4
  <1>8. /\ prompt' \in [Tas!Occurrences -> 0 .. (MaxCommands + MaxTaskTrouble)]
        /\ prompt'[n] = prompt[k] /\ \A j \in Tas!Occurrences \ {n} : prompt'[j] = prompt[j]
    BY <1>b, <1>3, <1>4
  <1> QED
    BY <1>4, <1>5, <1>6, <1>7, <1>8 DEF n

\* The recurrence, whole or cut off before the old flag is cleared.
LEMMA RecurrenceStep ==
    ASSUME TasksKept, NEW k \in Tas!Occurrences, Tas!handleRecurrence(k) \/ Tas!RecurrenceCutShort(k)
    PROVE  TasksKept'
  <1>a. RowsKept /\ SeriesKept /\ PauseKept /\ FlagsKept /\ LineKept
    BY DEF TasksKept
  <1>b. k \in recurring /\ Tas!insertRecurrence(k)
    BY DEF Tas!handleRecurrence, Tas!RecurrenceCutShort
  <1>c. Awaits(k) /\ 1 \in Tas!Occurrences
    BY <1>a, <1>b, TaskSets DEF RowsKept
  <1>1. PICK n \in Tas!Occurrences :
          /\ n = Tas!First(Tas!Fresh) /\ n # k /\ n # 1 /\ status[n] = "none" /\ n \notin recurs
          /\ status' \in [Tas!Occurrences -> {"none", "pending", "paused", "completed", "failed"}]
          /\ prompt' \in [Tas!Occurrences -> 0 .. (MaxCommands + MaxTaskTrouble)]
          /\ status'[n] = "pending" /\ \A j \in Tas!Occurrences \ {n} : status'[j] = status[j]
          /\ prompt'[n] = prompt[k] /\ \A j \in Tas!Occurrences \ {n} : prompt'[j] = prompt[j]
    BY <1>b, NextRowFacts
  <1>2. /\ UNCHANGED <<runAck, commands, calls, updates, paused, cancelled, missed, inRun, ended, ranPaused>>
        /\ recurring' \subseteq recurring \ {k}
        /\ taskTrouble' = taskTrouble \/ (taskTrouble < MaxTaskTrouble /\ taskTrouble' = taskTrouble + 1)
        /\ \/ forked' = forked /\ recurs' = (recurs \union {n}) \ {k}
           \/ forked' = TRUE /\ recurs' = recurs \union {n}
    BY <1>1 DEF Tas!handleRecurrence, Tas!RecurrenceCutShort, Tas!notes, Tas!Trouble
  <1>3. \A j \in Tas!Occurrences \ {n} : /\ status'[j] \in {"pending", "paused"} <=> Alive(j)
                                         /\ (status'[j] = "completed" /\ j \in recurs') => Awaits(j)
                                         /\ j # k /\ Awaits(j) => (status'[j] = "completed" /\ j \in recurs')
    BY <1>1, <1>2 DEF Alive, Awaits
  <1>4. n \in recurs' /\ recurs' \subseteq Tas!Occurrences
    BY <1>a, <1>1, <1>2 DEF RowsKept
  <1>5. \A j \in recurring' : j \in Tas!Occurrences \ {n} /\ j # k /\ Awaits(j)
    BY <1>a, <1>1, <1>2 DEF RowsKept, Awaits
  <1>6. RowsKept'
    <2>1. (\A j \in recurring : Awaits(j))'
      BY <1>3, <1>5 DEF Awaits
    <2>2. (\A j \in Tas!Occurrences : status[j] = "none" => prompt[j] = 0 /\ runAck[j] = "none" /\ j \notin recurs)'
      BY <1>a, <1>1, <1>2 DEF RowsKept, Tas!Occurrences
    <2>3. (\A j \in Tas!Occurrences : status[j] = "failed" => runAck[j] = "none")'
      BY <1>a, <1>1, <1>2 DEF RowsKept, Tas!Occurrences
    <2> QED
      BY <1>a, <1>1, <1>2, <1>4, <1>5, <2>1, <2>2, <2>3 DEF RowsKept, Tas!Occurrences
  <1>7. SeriesKept'
    <2>1. status'[1] # "none"
      BY <1>a, <1>c, <1>1 DEF SeriesKept, Awaits
    <2>2. ASSUME ~forked' PROVE \A j \in Tas!Occurrences :
               (status'[j] \in {"pending", "paused"} \/ (status'[j] = "completed" /\ j \in recurs')) => j = n
      <3>1. ~forked /\ k \notin recurs'
        BY <1>2, <2>2
      <3>2. \A j \in Tas!Occurrences : Alive(j) \/ Awaits(j) => j = k
        BY <1>a, <1>c, <3>1 DEF SeriesKept
      <3>3. ~Alive(k)
        BY <1>c DEF Alive, Awaits
      <3> QED
        BY <1>3, <3>1, <3>2, <3>3
    <2>3. ~forked' => prompt'[n] = updates'
      <3>1. ~forked' => ~forked
        BY <1>2
      <3> QED
        BY <1>a, <1>c, <1>1, <1>2, <3>1 DEF SeriesKept
    <2>4. ~ended' => \A j \in Tas!Occurrences : status'[j] \in {"pending", "paused"} => j \in recurs'
      <3>1. \A j \in Tas!Occurrences : Alive(j) => j # k
        BY <1>c DEF Alive, Awaits
      <3> QED
        BY <1>a, <1>2, <1>3, <1>4, <3>1 DEF SeriesKept
    <2>5. cancelled' /\ ~missed' => FALSE
      BY <1>a, <1>c, <1>2 DEF SeriesKept
    <2> QED
      BY <1>1, <1>2, <2>1, <2>2, <2>3, <2>4, <2>5 DEF SeriesKept, Alive, Awaits, Tas!Occurrences
  <1>8. PauseKept'
    <2>1. ~ (paused /\ ~inRun /\ ~missed)
      BY <1>a, <1>c DEF PauseKept
    <2> QED
      BY <1>a, <1>1, <1>2, <2>1 DEF PauseKept, Tas!Occurrences
  <1>9. FlagsKept'
    <2>1. sweepAt' \in {"idle", "synced", "recurring"} /\ taskUp' \in BOOLEAN
      BY <1>a DEF FlagsKept, Tas!handleRecurrence, Tas!RecurrenceCutShort
    <2> QED
      BY <1>a, <1>2, <2>1 DEF FlagsKept
  <1>10. LineKept'
    <2>1. status'[1] # "none"
      BY <1>a, <1>c, <1>1 DEF SeriesKept, Awaits
    <2> QED
      BY <1>a, <1>2, <2>1, LineStays
  <1> QED
    BY <1>6, <1>7, <1>8, <1>9, <1>10 DEF TasksKept

\* TasksKept in the behaviours about tasks.
TasksInv == focus = "tasks" => TasksKept

\* No row at first.
LEMMA TasksInit == ASSUME Init PROVE TasksInv
  <1>1. Tas!Init
    BY DEF Init
  <1>a. 1 \in Tas!Occurrences /\ 0 \in 0 .. (MaxCommands + MaxTaskTrouble)
    BY TaskSets, TasksAssumption
  <1>2. \A k \in Tas!Occurrences : status[k] = "none" /\ prompt[k] = 0 /\ runAck[k] = "none"
    BY <1>1 DEF Tas!Init
  <1>3. RowsKept
    BY <1>1, <1>a, <1>2 DEF Tas!Init, RowsKept
  <1>4. SeriesKept
    BY <1>1, <1>a, <1>2 DEF Tas!Init, SeriesKept, Alive, Awaits
  <1>5. PauseKept
    BY <1>1, <1>2 DEF Tas!Init, PauseKept
  <1>6. LineKept
    <2>1. commands = <<>> /\ calls = 0 /\ updates = 0 /\ taskTrouble = 0
      BY <1>1 DEF Tas!Init
    <2>2. commands \in Seq(Tas!Commands) /\ Len(commands) = 0
      BY <2>1
    <2> QED
      BY <2>1, <2>2, TasksAssumption DEF LineKept
  <1>7. FlagsKept
    BY <1>1 DEF Tas!Init, FlagsKept
  <1> QED
    BY <1>3, <1>4, <1>5, <1>6, <1>7 DEF TasksInv, TasksKept

\* As above, for the tasks.
LEMMA TasCounts == ASSUME NEW S PROVE Tas!Cardinality(S) = Cardinality(S)
  BY DEF Tas!Cardinality, Cardinality

\* The properties follow.
LEMMA TasksImplied == ASSUME TasksInv PROVE SeriesAsCommanded
  <1> SUFFICES ASSUME TasksKept PROVE Tas!SeriesAsCommanded
    BY DEF TasksInv, SeriesAsCommanded
  <1>a. RowsKept /\ SeriesKept /\ PauseKept /\ FlagsKept /\ LineKept
    BY DEF TasksKept
  <1>1. Tas!TypeOK
    <2>1. \A b \in {taskUp, paused, cancelled, missed, inRun, forked, ended, ranPaused} : b \in BOOLEAN
      BY <1>a, Zenon DEF FlagsKept
    <2> QED
      BY <1>a, <2>1 DEF RowsKept, LineKept, FlagsKept, Tas!TypeOK
  <1>2. Tas!OneLiveOccurrence
    <2> SUFFICES ASSUME ~forked PROVE Tas!Cardinality(Tas!Live) <= 1
      BY DEF Tas!OneLiveOccurrence
    <2>1. \A j, k \in Tas!Live : j = k
      BY <1>a, TaskSets DEF SeriesKept
    <2>2. CASE Tas!Live = {}
      <3>1. Cardinality(Tas!Live) = 0
        BY <2>2, FS_EmptySet
      <3> QED
        BY <3>1, TasCounts
    <2>3. CASE Tas!Live # {}
      <3>1. PICK k \in Tas!Live : TRUE
        BY <2>3
      <3>2. Tas!Live = {k}
        BY <2>1, <3>1
      <3>3. Cardinality(Tas!Live) = 1
        BY <3>2, FS_Singleton
      <3> QED
        BY <3>3, TasCounts
    <2> QED
      BY <2>2, <2>3
  <1>3. Tas!CancelSticks /\ Tas!SeriesGoesOn
    BY <1>a, TaskSets DEF SeriesKept, Tas!CancelSticks, Tas!SeriesGoesOn
  <1>4. Tas!PauseHolds
    BY <1>a DEF PauseKept, Tas!PauseHolds
  <1>5. Tas!UpdatesCarried
    BY <1>a, TaskSets DEF SeriesKept, Tas!UpdatesCarried
  <1> QED
    BY <1>1, <1>2, <1>3, <1>4, <1>5 DEF Tas!SeriesAsCommanded

\* A series does what its last commands said, although commands, runs, the
\* sweep and stops of the host interleave: one occurrence at a time, on until it
\* is ended, quiet while paused, with every update (modules/scheduling).
THEOREM SeriesSafe == Spec => []SeriesAsCommanded
  <1>1. Init => TasksInv
    BY TasksInit
  <1>2. ASSUME TasksInv, [Next]_vars PROVE TasksInv'
    <2>1. CASE focus = "tasks" /\ Tas!Next /\ UNCHANGED focus
      <3>1. TasksKept
        BY <1>2, <2>1 DEF TasksInv
      <3>2. TasksKept'
        BY <2>1, <3>1, ToolCallStep, DeliverStep, RunSteps, RecurrenceStep, SyncStep, TaskQuietSteps DEF Tas!Next
      <3> QED
        BY <3>2 DEF TasksInv
    <2>2. CASE UNCHANGED <<focus, tasVars>>
      BY <1>2, <2>2, SMTT(40) DEF TasksInv, TasksKept, RowsKept, SeriesKept, PauseKept, LineKept, FlagsKept,
         Alive, Awaits,
         Tas!Occurrences, Tas!Commands, tasVars
    <2> QED
      BY <1>2, <2>1, <2>2 DEF Next, vars
  <1>3. TasksInv => SeriesAsCommanded
    BY TasksImplied
  <1> QED
    BY <1>1, <1>2, <1>3, PTL DEF Spec

(***************************************************************************)
(* Capped direct messages: what RosterGrantsProofs shows of the component, *)
(* carried over to the run that puts it beside the others.                 *)
(***************************************************************************)
Lim == INSTANCE RosterGrantsProofs WITH marker <- reserve, clock <- time, late <- landing

\* The component's steps here and there are the same.
LEMMA SameSteps == Ros!Next => Lim!Next
  BY DEF Ros!Next, Lim!Next, Ros!insertDmGrant, Lim!insertDmGrant, Ros!SlotsOf, Lim!SlotsOf, Ros!NoGrant,
     Lim!NoGrant, Ros!Nobody, Lim!Nobody, Ros!sender, Lim!sender, Ros!inviter, Lim!inviter, Ros!tables,
     Lim!tables, Ros!Revoked, Lim!Revoked, Ros!Withdraw, Lim!Withdraw, Ros!optOutParticipant,
     Lim!optOutParticipant, Ros!revokeGrantsForLeaver, Lim!revokeGrantsForLeaver, Ros!handleChatDisbanded,
     Lim!handleChatDisbanded, Ros!revokeScope, Lim!revokeScope, Ros!Expire, Lim!Expire, Ros!checkGrantLive,
     Lim!checkGrantLive, Ros!Retry, Lim!Retry, Ros!Reject, Lim!Reject, Ros!UnderLimits, Lim!UnderLimits,
     Ros!WindowOf, Lim!WindowOf, Ros!Charge, Lim!Charge, Ros!StandingReservation, Lim!StandingReservation,
     Ros!CanReserve, Lim!CanReserve, Ros!FreshReservation, Lim!FreshReservation, Ros!reserveRosterSend,
     Lim!reserveRosterSend, Ros!Attempt, Lim!Attempt, Ros!Answered, Lim!Answered, Ros!Accept, Lim!Accept,
     Ros!Succeed, Lim!Succeed, Ros!TimeOut, Lim!TimeOut, Ros!Refund, Lim!Refund, Ros!rollbackRosterReservation,
     Lim!rollbackRosterReservation, Ros!Fail, Lim!Fail, Ros!LateAccept, Lim!LateAccept, Ros!InviteAsk,
     Lim!InviteAsk, Ros!InviteUnderLimits, Lim!InviteUnderLimits, Ros!InviteAnswered, Lim!InviteAnswered,
     Ros!InviteCard, Lim!InviteCard, Ros!Tick, Lim!Tick, Ros!Stop, Lim!Stop, Ros!Time, Lim!Time

\* Its state and its property too.
LEMMA SameStates ==
    /\ Ros!Init => Lim!Init
    /\ UNCHANGED rosVars => UNCHANGED Lim!vars
    /\ Lim!CapHeld => Ros!CapHeld
  <1>1. Ros!Init => Lim!Init
    BY DEF Ros!Init, Lim!Init, Ros!NoGrant, Lim!NoGrant, Ros!Nobody, Lim!Nobody, Ros!Time, Lim!Time
  <1>2. UNCHANGED rosVars => UNCHANGED Lim!vars
    BY DEF rosVars, Lim!vars, Lim!tables, Lim!sender, Lim!inviter
  <1>3. Lim!CapHeld => Ros!CapHeld
    BY DEF Ros!CapHeld, Lim!CapHeld, Ros!Cardinality, Lim!Cardinality
  <1> QED
    BY <1>1, <1>2, <1>3

\* Where an adapter reports an error only for a send that did not land, no more
\* distinct messages than max_sends reach the participant of a capped grant
\* (dm-grants.ts).
THEOREM CapSafe == ASSUME ~ AmbiguousErrors PROVE Spec => []CapHeld
  <1>1. Lim!Spec => []Lim!CapHeld
    BY Lim!CapIsHeld, RosterAssumption DEF Lim!RosterAssumption, Lim!NobodyAssumption, Lim!Nobody
  <1>2. Init => Lim!Init
    BY SameStates DEF Init
  <1>3. [Next]_vars => [Lim!Next]_(Lim!vars)
    <2> SUFFICES ASSUME [Next]_vars PROVE Lim!Next \/ UNCHANGED Lim!vars
      OBVIOUS
    <2>1. Ros!Next \/ UNCHANGED rosVars
      BY DEF Next, vars
    <2> QED
      BY <2>1, SameSteps, SameStates
  <1>4. Lim!CapHeld => CapHeld
    BY SameStates DEF CapHeld
  <1> QED
    BY <1>1, <1>2, <1>3, <1>4, PTL DEF Spec, Lim!Spec

(***************************************************************************)
(* Business writes through the gateway.                                    *)
(***************************************************************************)
\* How many of a turn's first k - 1 writes hold operation c.
Before(c, k) == Cardinality({j \in 1 .. (k - 1) : c \in Script[j]})

\* Counting is the same in the component.
LEMMA GatCounts == ASSUME NEW S PROVE Gat!Cardinality(S) = Cardinality(S)
  BY DEF Gat!Cardinality, Cardinality

\* A count is a number, and the first write has none before it.
LEMMA BeforeIs ==
    ASSUME NEW c, NEW k \in Nat
    PROVE  /\ Before(c, k) \in Nat
           /\ k = 1 => Before(c, k) = 0
           /\ IsFiniteSet({j \in 1 .. (k - 1) : c \in Script[j]})
  <1>1. IsFiniteSet(1 .. (k - 1))
    BY FS_Interval
  <1>2. IsFiniteSet({j \in 1 .. (k - 1) : c \in Script[j]})
    BY <1>1, FS_Subset
  <1>3. Before(c, k) \in Nat
    BY <1>2, FS_CardinalityType DEF Before
  <1>4. k = 1 => {j \in 1 .. (k - 1) : c \in Script[j]} = {}
    OBVIOUS
  <1> QED
    BY <1>2, <1>3, <1>4, FS_EmptySet DEF Before

\* One write more.
LEMMA BeforeNext ==
    ASSUME NEW c, NEW k \in Nat \ {0}
    PROVE  Before(c, k + 1) = Before(c, k) + (IF c \in Script[k] THEN 1 ELSE 0)
  <1> DEFINE S == {j \in 1 .. (k - 1) : c \in Script[j]}
             T == {j \in 1 .. ((k + 1) - 1) : c \in Script[j]}
  <1>1. IsFiniteSet(S) /\ Cardinality(S) \in Nat
    BY BeforeIs DEF Before
  <1>2. k \notin S /\ T = IF c \in Script[k] THEN S \cup {k} ELSE S
    OBVIOUS
  <1> HIDE DEF S, T
  <1>3. Cardinality(S \cup {k}) = Cardinality(S) + 1
    BY <1>1, <1>2, FS_AddElement
  <1>4. Cardinality(T) = Cardinality(S) + (IF c \in Script[k] THEN 1 ELSE 0)
    BY <1>1, <1>2, <1>3
  <1> QED
    BY <1>4 DEF Before, S, T

\* A later write has a larger count.
LEMMA BeforeLess ==
    ASSUME NEW c, NEW j \in Nat \ {0}, NEW k \in Nat, j < k, c \in Script[j]
    PROVE  Before(c, j) < Before(c, k)
  <1>1. Before(c, j + 1) = Before(c, j) + 1
    BY BeforeNext
  <1>2. Before(c, j) \in Nat /\ Before(c, k) \in Nat /\ IsFiniteSet({x \in 1 .. (k - 1) : c \in Script[x]})
    BY BeforeIs
  <1>3. {x \in 1 .. ((j + 1) - 1) : c \in Script[x]} \in SUBSET {x \in 1 .. (k - 1) : c \in Script[x]}
    OBVIOUS
  <1>4. Before(c, j + 1) <= Before(c, k)
    BY <1>2, <1>3, FS_Subset DEF Before
  <1> QED
    BY <1>1, <1>2, <1>4

\* Two writes of an operation have different counts.
LEMMA BeforeInjective ==
    ASSUME NEW c, NEW j \in Nat \ {0}, NEW k \in Nat \ {0}, c \in Script[j], c \in Script[k],
           Before(c, j) = Before(c, k)
    PROVE  j = k
  <1>1. Before(c, j) \in Nat /\ Before(c, k) \in Nat
    BY BeforeIs
  <1>2. ~ (j < k)
    BY <1>1, BeforeLess
  <1>3. ~ (k < j)
    BY <1>1, BeforeLess
  <1> QED
    BY <1>2, <1>3

\* What a function makes of a finite set is finite.
LEMMA ImageFinite ==
    ASSUME NEW f, IsFiniteSet(DOMAIN f), f = [x \in DOMAIN f |-> f[x]]
    PROVE  IsFiniteSet({f[x] : x \in DOMAIN f})
  <1>1. f \in Surjection(DOMAIN f, {f[x] : x \in DOMAIN f})
    BY DEF Surjection
  <1> QED
    BY <1>1, FS_Surjection

(***************************************************************************)
(* The inductive invariant.                                                *)
(***************************************************************************)
GatKeys == (SUBSET Rows) \X Gat!Ops \X Nat \X {0}
WriteKeys(j) == {<<firstAnchor, c, Before(c, j), 0>> : c \in Script[j]}

GatTyped ==
  /\ Gat!TypeOK
  /\ gateUp \in BOOLEAN /\ regrouped \in BOOLEAN /\ retried \in BOOLEAN
  /\ counter.key[2] \in Nat
  /\ \E b \in Nat : \A r \in Rows : stamp[r] <= b
  /\ callKeys \in [Gat!Ids -> SUBSET GatKeys]
  /\ \A i \in Gat!Ids : IsFiniteSet(callKeys[i])

\* A turn holds its first row for good, its counts are of an execution no newer
\* than the claims, and no count is above the calls that were made.
TurnHeld ==
  /\ nextWrite = 0 => claims = {} /\ followUps = {}
  /\ nextWrite # 0 => 1 \in claims \ followUps
  /\ \E r \in Rows : counter.key[2] <= stamp[r]
  /\ \A i \in Gat!Ids : callAt[i] = "none" => \A c \in Gat!Ops : counter.counts[c] < i
  /\ firstAnchor # {} <=> \E i \in Gat!Ids : callAt[i] # "none"
  /\ retried => \E i \in Gat!Ids : result[i] = "retryable"

\* Every call of every run carries the keys of a place of the script.
CallsScripted ==
  \A i \in Gat!Ids : callAt[i] # "none" => \E j \in DOMAIN Script : callKeys[i] = WriteKeys(j)

\* The counts of the run stand where its script does.
CountsScripted ==
  /\ nextWrite = 1 => \A r \in claims : counter.key[2] < stamp[r]
  /\ nextWrite >= 2 => /\ claims = firstAnchor /\ counter.key = <<claims, Gat!Signal>>
                       /\ \A c \in Gat!Ops : counter.counts[c] = Before(c, nextWrite)

\* Each write the run has made has a call that it hears of.
RunHeard ==
  \A j \in DOMAIN Script : j < nextWrite =>
    \E i \in Gat!Ids : result[i] \notin {"none", "lost"} /\ callKeys[i] = WriteKeys(j)

\* So it is as long as the claims stay and the agent repeats nothing.
AsScripted == ~ regrouped /\ ~ retried => CallsScripted /\ CountsScripted /\ RunHeard

\* What a call's place says of its audit row and of the backend's work.
CallKept(i) ==
  /\ callAt[i] = "none" <=> result[i] = "none"
  /\ callAt[i] \in {"none", "sent"} => auditRow[i] = "none" /\ i \notin atBackend /\ i \notin served
  /\ result[i] = "ok" \/ callAt[i] = "answered" => i \in served
  /\ i \in atBackend \/ i \in served => auditRow[i] # "none"
  /\ auditRow[i] = "intent" => callAt[i] \in {"forwarded", "answered"} \/ i \in late \/ i \in gap
  /\ auditRow[i] = "error" => i \in late \/ i \in gap \/ (i \notin atBackend /\ i \notin served)
  /\ auditRow[i] = "ok" => i \in served
  /\ ~ gateUp => callAt[i] \notin {"forwarded", "answered"}

\* The backend has committed the keys of the calls it worked on, and counts them.
BackendKept ==
  /\ committed \in SUBSET GatKeys /\ IsFiniteSet(committed)
  /\ \A k \in committed : \E i \in served : k \in callKeys[i]
  /\ \A i \in served : callKeys[i] \subseteq committed
  /\ \A c \in Gat!Ops : commits[c] = Cardinality({k \in committed : k[2] = c})

TokenKept == \A b \in Gat!Boxes : token[b] = "live" => b = box

GatKept ==
  /\ GatTyped /\ TurnHeld /\ AsScripted /\ BackendKept /\ TokenKept
  /\ \A i \in Gat!Ids : CallKept(i)

GatInv == focus = "gateway" => GatKept

\* The bounds of the constants, once.
LEMMA GatConsts ==
    /\ 1 \in Rows /\ Len(Script) \in Nat /\ DOMAIN Script = 1 .. Len(Script)
    /\ \A k \in DOMAIN Script : IsFiniteSet(Script[k]) /\ Script[k] \subseteq Gat!Ops
    /\ MaxCalls \in Nat /\ MaxBoxes \in Nat /\ RateLimit \in Nat
    /\ Gat!Ids = 1 .. MaxCalls
  BY GatewayAssumption DEF Gat!Ops, Gat!Ids

\* The newest stamp is one: none is above it.
LEMMA NewestIs ==
    ASSUME GatTyped
    PROVE  Gat!Newest \in Nat /\ \A r \in Rows : stamp[r] <= Gat!Newest
  <1> DEFINE S == {stamp[r] : r \in Rows}
  <1>1. stamp \in [Rows -> Nat] /\ \E b \in Nat : \A r \in Rows : stamp[r] <= b
    BY DEF GatTyped, Gat!TypeOK
  <1>2. PICK b \in Nat : \A r \in Rows : stamp[r] <= b
    BY <1>1
  <1>3. S \in SUBSET Nat /\ S # {} /\ \A n \in S : n <= b
    BY <1>1, <1>2, GatConsts
  <1>4. \E n \in S : \A m \in S : m <= n
    <2> HIDE DEF S
    <2> QED
      BY <1>3, GreatestOf
  <1>5. \E n \in {stamp[r] : r \in Rows} : \A r \in Rows : stamp[r] <= n
    BY <1>4
  <1>6. Gat!Newest \in {stamp[r] : r \in Rows} /\ \A r \in Rows : stamp[r] <= Gat!Newest
    BY <1>5 DEF Gat!Newest
  <1> QED
    BY <1>1, <1>6

\* So is the signal of a turn, among its claims.
LEMMA SignalIs ==
    ASSUME GatTyped, claims # {}
    PROVE  /\ Gat!Signal \in Nat
           /\ \E r \in claims : Gat!Signal = stamp[r]
           /\ \A r \in claims : stamp[r] <= Gat!Signal
  <1> DEFINE S == {stamp[r] : r \in claims}
  <1>1. stamp \in [Rows -> Nat] /\ claims \subseteq Rows /\ \E b \in Nat : \A r \in Rows : stamp[r] <= b
    BY DEF GatTyped, Gat!TypeOK
  <1>2. PICK b \in Nat : \A r \in Rows : stamp[r] <= b
    BY <1>1
  <1>3. S \in SUBSET Nat /\ S # {} /\ \A n \in S : n <= b
    BY <1>1, <1>2
  <1>4. \E n \in S : \A m \in S : m <= n
    <2> HIDE DEF S
    <2> QED
      BY <1>3, GreatestOf
  <1>5. \E n \in {stamp[r] : r \in claims} : \A r \in claims : stamp[r] <= n
    BY <1>4
  <1>6. Gat!Signal \in {stamp[r] : r \in claims} /\ \A r \in claims : stamp[r] <= Gat!Signal
    BY <1>5 DEF Gat!Signal
  <1> QED
    BY <1>1, <1>6

\* The call a tool starts has not been one before.
LEMMA FreshIs ==
    ASSUME Gat!Unused # {}
    PROVE  /\ Gat!Fresh \in Gat!Ids /\ callAt[Gat!Fresh] = "none"
           /\ \A i \in Gat!Ids : callAt[i] = "none" => Gat!Fresh <= i
  <1>1. Gat!Unused \in SUBSET Nat
    BY GatConsts DEF Gat!Unused
  <1>2. \E i \in Gat!Unused : \A j \in Gat!Unused : i <= j
    BY <1>1, LeastOf
  <1>3. Gat!Fresh \in Gat!Unused /\ \A j \in Gat!Unused : Gat!Fresh <= j
    BY <1>2 DEF Gat!Fresh
  <1> QED
    BY <1>3 DEF Gat!Unused

\* The signal depends on the claims and their stamps only.
LEMMA SignalStays ==
    ASSUME claims' = claims, stamp' = stamp
    PROVE  (Gat!Signal)' = Gat!Signal
  BY DEF Gat!Signal

\* Steps of the proxy, of the backend and of time start no call, take no answer
\* back and do not touch the turn's claims and counts.
TurnUntouched ==
  /\ claims' = claims /\ stamp' = stamp /\ counter' = counter /\ nextWrite' = nextWrite
  /\ followUps' \subseteq followUps /\ callKeys' = callKeys
  /\ firstAnchor' = firstAnchor /\ regrouped' = regrouped /\ retried' = retried
  /\ \A i \in Gat!Ids :
       /\ callAt'[i] = "none" <=> callAt[i] = "none"
       /\ result[i] = "retryable" => result'[i] = "retryable"
       /\ result[i] \notin {"none", "lost"} => result'[i] \notin {"none", "lost"}

\* They leave the turn held and as scripted.
LEMMA ScriptStays == ASSUME GatKept, TurnUntouched PROVE TurnHeld' /\ AsScripted'
  <1>1. \A j : WriteKeys(j)' = WriteKeys(j)
    BY DEF WriteKeys, TurnUntouched
  <1>2. (Gat!Signal)' = Gat!Signal
    BY SignalStays DEF TurnUntouched
  <1>3. CallsScripted => CallsScripted'
    BY <1>1 DEF CallsScripted, TurnUntouched
  <1>4. CountsScripted => CountsScripted'
    BY <1>2 DEF CountsScripted, TurnUntouched
  <1>5. RunHeard => RunHeard'
    BY <1>1 DEF RunHeard, TurnUntouched
  <1>6. TurnHeld'
    BY DEF TurnHeld, GatKept, TurnUntouched
  <1> QED
    BY <1>3, <1>4, <1>5, <1>6 DEF AsScripted, GatKept, TurnUntouched

\* The backend's tables, where no step touches them.
LEMMA BackendStays ==
    ASSUME GatKept, callKeys' = callKeys, committed' = committed, commits' = commits, served' = served
    PROVE  BackendKept'
  BY DEF BackendKept, GatKept

\* A spawn: the new container's token is the only live one.
LEMMA MintStep == ASSUME GatKept, Gat!mintProxyToken PROVE GatKept'
  <1>1. GatTyped'
    BY GatConsts DEF GatKept, GatTyped, Gat!TypeOK, Gat!mintProxyToken, Gat!Boxes, Gat!turn, Gat!proxy, Gat!wire,
       Gat!backend, Gat!notes
  <1>2. TurnUntouched
    BY DEF GatKept, GatTyped, Gat!TypeOK, TurnUntouched, Gat!mintProxyToken, Gat!Boxes, Gat!turn, Gat!proxy,
       Gat!wire, Gat!backend, Gat!notes
  <1>3. TurnHeld' /\ AsScripted'
    BY <1>2, ScriptStays
  <1>4. \A x \in Gat!Ids : CallKept(x)'
    BY DEF GatKept, GatTyped, Gat!TypeOK, CallKept, Gat!mintProxyToken, Gat!Boxes, Gat!turn, Gat!proxy, Gat!wire,
       Gat!backend, Gat!notes
  <1>5. BackendKept'
    BY BackendStays DEF Gat!mintProxyToken, Gat!Boxes, Gat!turn, Gat!proxy, Gat!wire, Gat!backend, Gat!notes
  <1>6. TokenKept'
    BY GatConsts DEF GatKept, GatTyped, Gat!TypeOK, TokenKept, Gat!Boxes, Gat!mintProxyToken, Gat!Boxes,
       Gat!turn, Gat!proxy, Gat!wire, Gat!backend, Gat!notes
  <1> QED
    BY <1>1, <1>3, <1>4, <1>5, <1>6 DEF GatKept

\* A row arrives.
LEMMA ArriveStep == ASSUME GatKept, NEW r \in Rows, Gat!Arrive(r) PROVE GatKept'
  <1>1. GatTyped'
    BY GatConsts DEF GatKept, GatTyped, Gat!TypeOK, Gat!Arrive, Gat!turn, Gat!proxy, Gat!wire, Gat!backend, Gat!notes
  <1>2. TurnUntouched
    BY DEF GatKept, GatTyped, Gat!TypeOK, TurnUntouched, Gat!Arrive, Gat!turn, Gat!proxy, Gat!wire, Gat!backend,
       Gat!notes
  <1>3. TurnHeld' /\ AsScripted'
    BY <1>2, ScriptStays
  <1>4. \A x \in Gat!Ids : CallKept(x)'
    BY DEF GatKept, GatTyped, Gat!TypeOK, CallKept, Gat!Arrive, Gat!turn, Gat!proxy, Gat!wire, Gat!backend, Gat!notes
  <1>5. BackendKept'
    BY BackendStays DEF Gat!Arrive, Gat!turn, Gat!proxy, Gat!wire, Gat!backend, Gat!notes
  <1>6. TokenKept'
    BY GatConsts DEF GatKept, GatTyped, Gat!TypeOK, TokenKept, Gat!Boxes, Gat!Arrive, Gat!turn, Gat!proxy,
       Gat!wire, Gat!backend, Gat!notes
  <1> QED
    BY <1>1, <1>3, <1>4, <1>5, <1>6 DEF GatKept

\* A follow-up row stays with the turn.
LEMMA KeepStep == ASSUME GatKept, NEW r \in Rows, Gat!KeepFollowUp(r) PROVE GatKept'
  <1>1. GatTyped'
    BY GatConsts DEF GatKept, GatTyped, Gat!TypeOK, Gat!KeepFollowUp, Gat!turn, Gat!proxy, Gat!wire, Gat!backend,
       Gat!notes
  <1>2. TurnUntouched
    BY DEF GatKept, GatTyped, Gat!TypeOK, TurnUntouched, Gat!KeepFollowUp, Gat!turn, Gat!proxy, Gat!wire,
       Gat!backend, Gat!notes
  <1>3. TurnHeld' /\ AsScripted'
    BY <1>2, ScriptStays
  <1>4. \A x \in Gat!Ids : CallKept(x)'
    BY DEF GatKept, GatTyped, Gat!TypeOK, CallKept, Gat!KeepFollowUp, Gat!turn, Gat!proxy, Gat!wire, Gat!backend,
       Gat!notes
  <1>5. BackendKept'
    BY BackendStays DEF Gat!KeepFollowUp, Gat!turn, Gat!proxy, Gat!wire, Gat!backend, Gat!notes
  <1>6. TokenKept'
    BY GatConsts DEF GatKept, GatTyped, Gat!TypeOK, TokenKept, Gat!Boxes, Gat!KeepFollowUp, Gat!turn, Gat!proxy,
       Gat!wire, Gat!backend, Gat!notes
  <1> QED
    BY <1>1, <1>3, <1>4, <1>5, <1>6 DEF GatKept

\* The tool stops waiting.
LEMMA CallTimeoutStep == ASSUME GatKept, NEW i \in Gat!Ids, Gat!CallTimesOut(i) PROVE GatKept'
  <1>1. GatTyped'
    BY GatConsts DEF GatKept, GatTyped, Gat!TypeOK, Gat!CallTimesOut, Gat!Trouble, Gat!Waiting, Gat!turn,
       Gat!proxy, Gat!wire, Gat!backend, Gat!notes
  <1>2. TurnUntouched
    BY DEF GatKept, GatTyped, Gat!TypeOK, TurnUntouched, Gat!CallTimesOut, Gat!Trouble, Gat!Waiting, Gat!turn,
       Gat!proxy, Gat!wire, Gat!backend, Gat!notes
  <1>3. TurnHeld' /\ AsScripted'
    BY <1>2, ScriptStays
  <1>4. \A x \in Gat!Ids : CallKept(x)'
    BY DEF GatKept, GatTyped, Gat!TypeOK, CallKept, Gat!CallTimesOut, Gat!Trouble, Gat!Waiting, Gat!turn,
       Gat!proxy, Gat!wire, Gat!backend, Gat!notes
  <1>5. BackendKept'
    BY BackendStays DEF Gat!CallTimesOut, Gat!Trouble, Gat!Waiting, Gat!turn, Gat!proxy, Gat!wire, Gat!backend,
       Gat!notes
  <1>6. TokenKept'
    BY GatConsts DEF GatKept, GatTyped, Gat!TypeOK, TokenKept, Gat!Boxes, Gat!CallTimesOut, Gat!Trouble,
       Gat!Waiting, Gat!turn, Gat!proxy, Gat!wire, Gat!backend, Gat!notes
  <1> QED
    BY <1>1, <1>3, <1>4, <1>5, <1>6 DEF GatKept

\* No intent row, no signature.
LEMMA IntentFailsStep == ASSUME GatKept, NEW i \in Gat!Ids, Gat!IntentFails(i) PROVE GatKept'
  <1>1. GatTyped'
    BY GatConsts DEF GatKept, GatTyped, Gat!TypeOK, Gat!IntentFails, Gat!Trouble, Gat!Answer,
       Gat!verifyProxyToken, Gat!allowRate, Gat!turn, Gat!proxy, Gat!wire, Gat!backend, Gat!notes
  <1>2. TurnUntouched
    BY DEF GatKept, GatTyped, Gat!TypeOK, TurnUntouched, Gat!IntentFails, Gat!Trouble, Gat!Answer,
       Gat!verifyProxyToken, Gat!allowRate, Gat!turn, Gat!proxy, Gat!wire, Gat!backend, Gat!notes
  <1>3. TurnHeld' /\ AsScripted'
    BY <1>2, ScriptStays
  <1>4. \A x \in Gat!Ids : CallKept(x)'
    BY DEF GatKept, GatTyped, Gat!TypeOK, CallKept, Gat!IntentFails, Gat!Trouble, Gat!Answer,
       Gat!verifyProxyToken, Gat!allowRate, Gat!turn, Gat!proxy, Gat!wire, Gat!backend, Gat!notes
  <1>5. BackendKept'
    BY BackendStays DEF Gat!IntentFails, Gat!Trouble, Gat!Answer, Gat!verifyProxyToken, Gat!allowRate, Gat!turn,
       Gat!proxy, Gat!wire, Gat!backend, Gat!notes
  <1>6. TokenKept'
    BY GatConsts DEF GatKept, GatTyped, Gat!TypeOK, TokenKept, Gat!Boxes, Gat!IntentFails, Gat!Trouble,
       Gat!Answer, Gat!verifyProxyToken, Gat!allowRate, Gat!turn, Gat!proxy, Gat!wire, Gat!backend, Gat!notes
  <1> QED
    BY <1>1, <1>3, <1>4, <1>5, <1>6 DEF GatKept

\* The intent row is there before the request leaves.
LEMMA ForwardStep == ASSUME GatKept, NEW i \in Gat!Ids, Gat!processSigningProxyRequest(i) PROVE GatKept'
  <1>1. GatTyped'
    BY GatConsts DEF GatKept, GatTyped, Gat!TypeOK, Gat!processSigningProxyRequest, Gat!verifyProxyToken,
       Gat!allowRate, Gat!turn, Gat!proxy, Gat!wire, Gat!backend, Gat!notes
  <1>2. TurnUntouched
    BY DEF GatKept, GatTyped, Gat!TypeOK, TurnUntouched, Gat!processSigningProxyRequest, Gat!verifyProxyToken,
       Gat!allowRate, Gat!turn, Gat!proxy, Gat!wire, Gat!backend, Gat!notes
  <1>3. TurnHeld' /\ AsScripted'
    BY <1>2, ScriptStays
  <1>4. \A x \in Gat!Ids : CallKept(x)'
    BY DEF GatKept, GatTyped, Gat!TypeOK, CallKept, Gat!processSigningProxyRequest, Gat!verifyProxyToken,
       Gat!allowRate, Gat!turn, Gat!proxy, Gat!wire, Gat!backend, Gat!notes
  <1>5. BackendKept'
    BY BackendStays DEF Gat!processSigningProxyRequest, Gat!verifyProxyToken, Gat!allowRate, Gat!turn, Gat!proxy,
       Gat!wire, Gat!backend, Gat!notes
  <1>6. TokenKept'
    BY GatConsts DEF GatKept, GatTyped, Gat!TypeOK, TokenKept, Gat!Boxes, Gat!processSigningProxyRequest,
       Gat!verifyProxyToken, Gat!allowRate, Gat!turn, Gat!proxy, Gat!wire, Gat!backend, Gat!notes
  <1> QED
    BY <1>1, <1>3, <1>4, <1>5, <1>6 DEF GatKept

\* A call without a live token, or above the rate.
LEMMA RefuseStep == ASSUME GatKept, NEW i \in Gat!Ids, Gat!RefuseRequest(i) PROVE GatKept'
  <1>1. GatTyped'
    BY GatConsts DEF GatKept, GatTyped, Gat!TypeOK, Gat!RefuseRequest, Gat!Answer, Gat!verifyProxyToken,
       Gat!allowRate, Gat!turn, Gat!proxy, Gat!wire, Gat!backend, Gat!notes
  <1>2. TurnUntouched
    BY DEF GatKept, GatTyped, Gat!TypeOK, TurnUntouched, Gat!RefuseRequest, Gat!Answer, Gat!verifyProxyToken,
       Gat!allowRate, Gat!turn, Gat!proxy, Gat!wire, Gat!backend, Gat!notes
  <1>3. TurnHeld' /\ AsScripted'
    BY <1>2, ScriptStays
  <1>4. \A x \in Gat!Ids : CallKept(x)'
    BY DEF GatKept, GatTyped, Gat!TypeOK, CallKept, Gat!RefuseRequest, Gat!Answer, Gat!verifyProxyToken,
       Gat!allowRate, Gat!turn, Gat!proxy, Gat!wire, Gat!backend, Gat!notes
  <1>5. BackendKept'
    BY BackendStays DEF Gat!RefuseRequest, Gat!Answer, Gat!verifyProxyToken, Gat!allowRate, Gat!turn, Gat!proxy,
       Gat!wire, Gat!backend, Gat!notes
  <1>6. TokenKept'
    BY GatConsts DEF GatKept, GatTyped, Gat!TypeOK, TokenKept, Gat!Boxes, Gat!RefuseRequest, Gat!Answer,
       Gat!verifyProxyToken, Gat!allowRate, Gat!turn, Gat!proxy, Gat!wire, Gat!backend, Gat!notes
  <1> QED
    BY <1>1, <1>3, <1>4, <1>5, <1>6 DEF GatKept

\* A call the host will not sign.
LEMMA RefuseAuditedStep == ASSUME GatKept, NEW i \in Gat!Ids, Gat!RefuseAudited(i) PROVE GatKept'
  <1>1. GatTyped'
    BY SMTT(40), GatConsts DEF GatKept, GatTyped, Gat!TypeOK, Gat!RefuseAudited, Gat!Trouble, Gat!Answer,
       Gat!verifyProxyToken, Gat!allowRate, Gat!turn, Gat!proxy, Gat!wire, Gat!backend, Gat!notes
  <1>2. TurnUntouched
    BY DEF GatKept, GatTyped, Gat!TypeOK, TurnUntouched, Gat!RefuseAudited, Gat!Trouble, Gat!Answer,
       Gat!verifyProxyToken, Gat!allowRate, Gat!turn, Gat!proxy, Gat!wire, Gat!backend, Gat!notes
  <1>3. TurnHeld' /\ AsScripted'
    BY <1>2, ScriptStays
  <1>4. \A x \in Gat!Ids : CallKept(x)'
    BY DEF GatKept, GatTyped, Gat!TypeOK, CallKept, Gat!RefuseAudited, Gat!Trouble, Gat!Answer,
       Gat!verifyProxyToken, Gat!allowRate, Gat!turn, Gat!proxy, Gat!wire, Gat!backend, Gat!notes
  <1>5. BackendKept'
    BY BackendStays DEF Gat!RefuseAudited, Gat!Trouble, Gat!Answer, Gat!verifyProxyToken, Gat!allowRate,
       Gat!turn, Gat!proxy, Gat!wire, Gat!backend, Gat!notes
  <1>6. TokenKept'
    BY GatConsts DEF GatKept, GatTyped, Gat!TypeOK, TokenKept, Gat!Boxes, Gat!RefuseAudited, Gat!Trouble,
       Gat!Answer, Gat!verifyProxyToken, Gat!allowRate, Gat!turn, Gat!proxy, Gat!wire, Gat!backend, Gat!notes
  <1> QED
    BY <1>1, <1>3, <1>4, <1>5, <1>6 DEF GatKept

\* The backend's answer reaches the tool, its audit row perhaps not.
LEMMA AnsweredStep == ASSUME GatKept, NEW i \in Gat!Ids, Gat!BackendAnswers(i) PROVE GatKept'
  <1>1. GatTyped'
    BY GatConsts DEF GatKept, GatTyped, Gat!TypeOK, Gat!BackendAnswers, Gat!Trouble, Gat!Answer, Gat!finalize,
       Gat!turn, Gat!proxy, Gat!wire, Gat!backend, Gat!notes
  <1>2. TurnUntouched
    BY DEF GatKept, GatTyped, Gat!TypeOK, TurnUntouched, Gat!BackendAnswers, Gat!Trouble, Gat!Answer,
       Gat!finalize, Gat!turn, Gat!proxy, Gat!wire, Gat!backend, Gat!notes
  <1>3. TurnHeld' /\ AsScripted'
    BY <1>2, ScriptStays
  <1>4. \A x \in Gat!Ids : CallKept(x)'
    BY DEF GatKept, GatTyped, Gat!TypeOK, CallKept, Gat!BackendAnswers, Gat!Trouble, Gat!Answer, Gat!finalize,
       Gat!turn, Gat!proxy, Gat!wire, Gat!backend, Gat!notes
  <1>5. BackendKept'
    BY BackendStays DEF Gat!BackendAnswers, Gat!Trouble, Gat!Answer, Gat!finalize, Gat!turn, Gat!proxy, Gat!wire,
       Gat!backend, Gat!notes
  <1>6. TokenKept'
    BY GatConsts DEF GatKept, GatTyped, Gat!TypeOK, TokenKept, Gat!Boxes, Gat!BackendAnswers, Gat!Trouble,
       Gat!Answer, Gat!finalize, Gat!turn, Gat!proxy, Gat!wire, Gat!backend, Gat!notes
  <1> QED
    BY <1>1, <1>3, <1>4, <1>5, <1>6 DEF GatKept

\* The proxy gives up on the backend.
LEMMA ForwardFailsStep == ASSUME GatKept, NEW i \in Gat!Ids, Gat!ForwardFails(i) PROVE GatKept'
  <1>1. GatTyped'
    BY GatConsts DEF GatKept, GatTyped, Gat!TypeOK, Gat!ForwardFails, Gat!Trouble, Gat!Answer, Gat!turn,
       Gat!proxy, Gat!wire, Gat!backend, Gat!notes
  <1>2. TurnUntouched
    BY DEF GatKept, GatTyped, Gat!TypeOK, TurnUntouched, Gat!ForwardFails, Gat!Trouble, Gat!Answer, Gat!turn,
       Gat!proxy, Gat!wire, Gat!backend, Gat!notes
  <1>3. TurnHeld' /\ AsScripted'
    BY <1>2, ScriptStays
  <1>4. \A x \in Gat!Ids : CallKept(x)'
    BY DEF GatKept, GatTyped, Gat!TypeOK, CallKept, Gat!ForwardFails, Gat!Trouble, Gat!Answer, Gat!turn,
       Gat!proxy, Gat!wire, Gat!backend, Gat!notes
  <1>5. BackendKept'
    BY BackendStays DEF Gat!ForwardFails, Gat!Trouble, Gat!Answer, Gat!turn, Gat!proxy, Gat!wire, Gat!backend,
       Gat!notes
  <1>6. TokenKept'
    BY GatConsts DEF GatKept, GatTyped, Gat!TypeOK, TokenKept, Gat!Boxes, Gat!ForwardFails, Gat!Trouble,
       Gat!Answer, Gat!turn, Gat!proxy, Gat!wire, Gat!backend, Gat!notes
  <1> QED
    BY <1>1, <1>3, <1>4, <1>5, <1>6 DEF GatKept

\* A call while the host is down.
LEMMA UnreachableStep == ASSUME GatKept, NEW i \in Gat!Ids, Gat!ProxyUnreachable(i) PROVE GatKept'
  <1>1. GatTyped'
    BY GatConsts DEF GatKept, GatTyped, Gat!TypeOK, Gat!ProxyUnreachable, Gat!Answer, Gat!turn, Gat!proxy,
       Gat!wire, Gat!backend, Gat!notes
  <1>2. TurnUntouched
    BY DEF GatKept, GatTyped, Gat!TypeOK, TurnUntouched, Gat!ProxyUnreachable, Gat!Answer, Gat!turn, Gat!proxy,
       Gat!wire, Gat!backend, Gat!notes
  <1>3. TurnHeld' /\ AsScripted'
    BY <1>2, ScriptStays
  <1>4. \A x \in Gat!Ids : CallKept(x)'
    BY DEF GatKept, GatTyped, Gat!TypeOK, CallKept, Gat!ProxyUnreachable, Gat!Answer, Gat!turn, Gat!proxy,
       Gat!wire, Gat!backend, Gat!notes
  <1>5. BackendKept'
    BY BackendStays DEF Gat!ProxyUnreachable, Gat!Answer, Gat!turn, Gat!proxy, Gat!wire, Gat!backend, Gat!notes
  <1>6. TokenKept'
    BY GatConsts DEF GatKept, GatTyped, Gat!TypeOK, TokenKept, Gat!Boxes, Gat!ProxyUnreachable, Gat!Answer,
       Gat!turn, Gat!proxy, Gat!wire, Gat!backend, Gat!notes
  <1> QED
    BY <1>1, <1>3, <1>4, <1>5, <1>6 DEF GatKept

\* The rate window ends.
LEMMA WindowStep == ASSUME GatKept, Gat!RateWindowEnds PROVE GatKept'
  <1>1. GatTyped'
    BY GatConsts DEF GatKept, GatTyped, Gat!TypeOK, Gat!RateWindowEnds, Gat!turn, Gat!proxy, Gat!wire,
       Gat!backend, Gat!notes
  <1>2. TurnUntouched
    BY DEF GatKept, GatTyped, Gat!TypeOK, TurnUntouched, Gat!RateWindowEnds, Gat!turn, Gat!proxy, Gat!wire,
       Gat!backend, Gat!notes
  <1>3. TurnHeld' /\ AsScripted'
    BY <1>2, ScriptStays
  <1>4. \A x \in Gat!Ids : CallKept(x)'
    BY DEF GatKept, GatTyped, Gat!TypeOK, CallKept, Gat!RateWindowEnds, Gat!turn, Gat!proxy, Gat!wire,
       Gat!backend, Gat!notes
  <1>5. BackendKept'
    BY BackendStays DEF Gat!RateWindowEnds, Gat!turn, Gat!proxy, Gat!wire, Gat!backend, Gat!notes
  <1>6. TokenKept'
    BY GatConsts DEF GatKept, GatTyped, Gat!TypeOK, TokenKept, Gat!Boxes, Gat!RateWindowEnds, Gat!turn,
       Gat!proxy, Gat!wire, Gat!backend, Gat!notes
  <1> QED
    BY <1>1, <1>3, <1>4, <1>5, <1>6 DEF GatKept

\* A token expires.
LEMMA ExpireTokenStep == ASSUME GatKept, Gat!TokenExpires PROVE GatKept'
  <1>1. GatTyped'
    BY GatConsts DEF GatKept, GatTyped, Gat!TypeOK, Gat!TokenExpires, Gat!Trouble, Gat!Boxes, Gat!turn,
       Gat!proxy, Gat!wire, Gat!backend, Gat!notes
  <1>2. TurnUntouched
    BY DEF GatKept, GatTyped, Gat!TypeOK, TurnUntouched, Gat!TokenExpires, Gat!Trouble, Gat!Boxes, Gat!turn,
       Gat!proxy, Gat!wire, Gat!backend, Gat!notes
  <1>3. TurnHeld' /\ AsScripted'
    BY <1>2, ScriptStays
  <1>4. \A x \in Gat!Ids : CallKept(x)'
    BY DEF GatKept, GatTyped, Gat!TypeOK, CallKept, Gat!TokenExpires, Gat!Trouble, Gat!Boxes, Gat!turn,
       Gat!proxy, Gat!wire, Gat!backend, Gat!notes
  <1>5. BackendKept'
    BY BackendStays DEF Gat!TokenExpires, Gat!Trouble, Gat!Boxes, Gat!turn, Gat!proxy, Gat!wire, Gat!backend,
       Gat!notes
  <1>6. TokenKept'
    BY GatConsts DEF GatKept, GatTyped, Gat!TypeOK, TokenKept, Gat!Boxes, Gat!TokenExpires, Gat!Trouble,
       Gat!Boxes, Gat!turn, Gat!proxy, Gat!wire, Gat!backend, Gat!notes
  <1> QED
    BY <1>1, <1>3, <1>4, <1>5, <1>6 DEF GatKept

\* The host ends with calls on the wire.
LEMMA GateEndsStep == ASSUME GatKept, Gat!HostEnds PROVE GatKept'
  <1>1. GatTyped'
    <2>1. callAt' \in [Gat!Ids -> {"none", "sent", "forwarded", "answered", "ended"}]
      BY DEF GatKept, GatTyped, Gat!TypeOK, Gat!HostEnds, Gat!Trouble, Gat!turn, Gat!proxy, Gat!wire,
         Gat!backend, Gat!notes
    <2>2. result' \in [Gat!Ids -> {"none", "waiting", "ok", "retryable", "refused", "lost"}]
      BY DEF GatKept, GatTyped, Gat!TypeOK, Gat!HostEnds, Gat!Trouble, Gat!turn, Gat!proxy, Gat!wire,
         Gat!backend, Gat!notes
    <2>3. used' \in 0 .. RateLimit
      <3>1. used' = 0
        BY DEF Gat!HostEnds
      <3> QED
        BY <3>1, GatConsts
    <2>4. gateUp' \in BOOLEAN
      BY DEF Gat!HostEnds
    <2> QED
      BY <2>1, <2>2, <2>3, <2>4 DEF GatKept, GatTyped, Gat!TypeOK, Gat!HostEnds, Gat!Trouble, Gat!turn,
         Gat!proxy, Gat!wire, Gat!backend, Gat!notes
  <1>2. TurnUntouched
    BY DEF GatKept, GatTyped, Gat!TypeOK, TurnUntouched, Gat!HostEnds, Gat!Trouble, Gat!turn, Gat!proxy,
       Gat!wire, Gat!backend, Gat!notes
  <1>3. TurnHeld' /\ AsScripted'
    BY <1>2, ScriptStays
  <1>4. \A x \in Gat!Ids : CallKept(x)'
    BY DEF GatKept, GatTyped, Gat!TypeOK, CallKept, Gat!HostEnds, Gat!Trouble, Gat!turn, Gat!proxy, Gat!wire,
       Gat!backend, Gat!notes
  <1>5. BackendKept'
    BY BackendStays DEF Gat!HostEnds, Gat!Trouble, Gat!turn, Gat!proxy, Gat!wire, Gat!backend, Gat!notes
  <1>6. TokenKept'
    BY GatConsts DEF GatKept, GatTyped, Gat!TypeOK, TokenKept, Gat!Boxes, Gat!HostEnds, Gat!Trouble, Gat!turn,
       Gat!proxy, Gat!wire, Gat!backend, Gat!notes
  <1> QED
    BY <1>1, <1>3, <1>4, <1>5, <1>6 DEF GatKept

\* Requests the backend works on: their new keys are counted once each.
LEMMA BackendRunsStep == ASSUME GatKept, NEW i \in Gat!Ids, Gat!BackendRuns(i) PROVE GatKept'
  <1> DEFINE new == callKeys[i] \ committed
             Of(S, c) == {k \in S : k[2] = c}
  <1>0. /\ i \in atBackend /\ atBackend' = atBackend \ {i} /\ served' = served \cup {i}
        /\ committed' = committed \cup new
        /\ commits' = [c \in Gat!Ops |-> commits[c] + Cardinality({k \in new : k[2] = c})]
        /\ callAt' = [callAt EXCEPT ![i] = IF @ = "forwarded" THEN "answered" ELSE @]
        /\ UNCHANGED <<Gat!turn, box, boxes, Gat!proxy, gatewayTrouble, callKeys, result, auditRow, Gat!notes,
                       late, gap>>
    BY GatCounts DEF Gat!BackendRuns
  <1>1. IsFiniteSet(new) /\ IsFiniteSet(committed) /\ new \in SUBSET GatKeys /\ committed \in SUBSET GatKeys
    <2>1. IsFiniteSet(callKeys[i]) /\ callKeys[i] \in SUBSET GatKeys
      BY DEF GatKept, GatTyped
    <2> QED
      BY <2>1, FS_Subset DEF GatKept, BackendKept
  <1>2. \A c : /\ IsFiniteSet(Of(new, c)) /\ IsFiniteSet(Of(committed, c))
               /\ Cardinality(Of(new, c)) \in Nat /\ Cardinality(Of(committed, c)) \in Nat
    <2> TAKE c
    <2>1. Of(new, c) \in SUBSET new /\ Of(committed, c) \in SUBSET committed
      OBVIOUS
    <2> HIDE DEF Of, new
    <2> QED
      BY <1>1, <2>1, FS_Subset, FS_CardinalityType
  <1>3. \A c : Cardinality(Of(committed \cup new, c)) = Cardinality(Of(committed, c)) + Cardinality(Of(new, c))
    <2> TAKE c
    <2>1. Of(committed \cup new, c) = Of(committed, c) \cup Of(new, c) /\ Of(committed, c) \cap Of(new, c) = {}
      OBVIOUS
    <2>2. /\ IsFiniteSet(Of(committed, c)) /\ IsFiniteSet(Of(new, c))
          /\ Cardinality(Of(committed, c)) \in Nat /\ Cardinality(Of(new, c)) \in Nat
      BY <1>2
    <2> HIDE DEF Of, new
    <2>3. Cardinality(Of(committed, c) \cup Of(new, c)) =
            Cardinality(Of(committed, c)) + Cardinality(Of(new, c)) - Cardinality(Of(committed, c) \cap Of(new, c))
      BY <2>2, FS_Union
    <2>4. Cardinality(Of(committed, c) \cap Of(new, c)) = 0
      BY <2>1, FS_EmptySet, Zenon
    <2>5. Cardinality(Of(committed \cup new, c)) = Cardinality(Of(committed, c) \cup Of(new, c))
      BY <2>1, Zenon
    <2> QED
      BY <2>2, <2>3, <2>4, <2>5
  <1>4. commits' \in [Gat!Ops -> Nat]
    <2>1. \A c \in Gat!Ops : Cardinality({k \in new : k[2] = c}) \in Nat /\ commits[c] \in Nat
      BY <1>2 DEF GatKept, GatTyped, Gat!TypeOK
    <2> HIDE DEF new
    <2> QED
      BY <1>0, <2>1
  <1>5. GatTyped'
    BY <1>0, <1>4 DEF GatKept, GatTyped, Gat!TypeOK, Gat!turn, Gat!proxy, Gat!notes
  <1>6. TurnUntouched
    BY <1>0 DEF GatKept, GatTyped, Gat!TypeOK, TurnUntouched, Gat!turn, Gat!notes
  <1>7. TurnHeld' /\ AsScripted'
    BY <1>6, ScriptStays
  <1>8. \A x \in Gat!Ids : CallKept(x)'
    BY <1>0 DEF GatKept, GatTyped, Gat!TypeOK, CallKept, Gat!proxy
  <1>9. BackendKept'
    <2>1. committed' \in SUBSET GatKeys /\ IsFiniteSet(committed')
      <3> HIDE DEF new
      <3> QED
        BY <1>0, <1>1, FS_Union
    <2>2. \A k \in committed' : \E x \in served' : k \in callKeys'[x]
      BY <1>0 DEF GatKept, BackendKept
    <2>3. \A x \in served' : callKeys'[x] \subseteq committed'
      BY <1>0 DEF GatKept, BackendKept
    <2>4. \A c \in Gat!Ops : commits'[c] = Cardinality(Of(committed', c))
      <3> TAKE c \in Gat!Ops
      <3>1. commits'[c] = commits[c] + Cardinality(Of(new, c)) /\ commits[c] = Cardinality(Of(committed, c))
        BY <1>0 DEF GatKept, BackendKept
      <3> HIDE DEF Of, new
      <3> QED
        BY <1>0, <1>3, <3>1
    <2> QED
      BY <2>1, <2>2, <2>3, <2>4 DEF BackendKept
  <1>10. TokenKept'
    BY <1>0 DEF GatKept, TokenKept, Gat!proxy
  <1> QED
    BY <1>5, <1>7, <1>8, <1>9, <1>10 DEF GatKept

\* A turn begins: its claims are newer than the counts of any before it.
LEMMA TurnStartsStep == ASSUME GatKept, Gat!TurnStarts PROVE GatKept'
  <1> DEFINE now == Gat!Newest + 1
  <1>0. /\ claims' = arrived \ completed /\ 1 \in claims' /\ nextWrite = 0 /\ nextWrite' = 1
        /\ stamp' = [r \in Rows |-> IF r \in arrived \ completed THEN now ELSE stamp[r]]
        /\ UNCHANGED <<arrived, completed, followUps, counter, box, boxes, Gat!proxy, gatewayTrouble, Gat!wire,
                       auditRow, Gat!backend, Gat!notes, late, gap>>
    BY DEF Gat!TurnStarts, Gat!Pending, Gat!Mark
  <1>1. Gat!Newest \in Nat /\ \A r \in Rows : stamp[r] <= Gat!Newest
    BY NewestIs DEF GatKept
  <1>2. stamp \in [Rows -> Nat] /\ stamp' \in [Rows -> Nat] /\ \A r \in Rows : stamp'[r] <= now
    BY <1>0, <1>1 DEF GatKept, GatTyped, Gat!TypeOK
  <1>3. now \in Nat /\ claims' \subseteq Rows /\ \A r \in claims' : stamp'[r] = now
    BY <1>0, <1>1 DEF GatKept, GatTyped, Gat!TypeOK
  <1> HIDE DEF now
  <1>4. GatTyped'
    <2>1. nextWrite' \in 0 .. (Len(Script) + 1)
      BY <1>0, GatConsts
    <2>2. followUps' \subseteq claims'
      BY <1>0 DEF GatKept, TurnHeld
    <2> QED
      BY <1>0, <1>2, <1>3, <2>1, <2>2
         DEF GatKept, GatTyped, Gat!TypeOK, Gat!proxy, Gat!wire, Gat!backend, Gat!notes
  <1>5. counter.key[2] \in Nat /\ counter' = counter /\ \E r \in Rows : counter.key[2] <= stamp[r]
    BY <1>0 DEF GatKept, GatTyped, TurnHeld
  <1>6. counter.key[2] < now
    BY <1>1, <1>2, <1>5 DEF now
  <1>7. \E r \in Rows : counter'.key[2] <= stamp'[r]
    BY <1>0, <1>3, <1>5, <1>6
  <1>8. TurnHeld'
    BY <1>0, <1>7 DEF GatKept, TurnHeld, Gat!wire, Gat!notes
  <1>9. AsScripted'
    <2>1. CallsScripted => CallsScripted'
      BY <1>0 DEF CallsScripted, WriteKeys, Gat!wire, Gat!notes
    <2>2. CountsScripted'
      BY <1>0, <1>3, <1>5, <1>6 DEF CountsScripted
    <2>3. RunHeard'
      BY <1>0, GatConsts DEF RunHeard
    <2> QED
      BY <1>0, <2>1, <2>2, <2>3 DEF GatKept, AsScripted, Gat!notes
  <1>10. BackendKept'
    BY <1>0, BackendStays DEF Gat!wire, Gat!backend
  <1>11. TokenKept' /\ \A x \in Gat!Ids : CallKept(x)'
    BY <1>0 DEF GatKept, TokenKept, CallKept, Gat!proxy, Gat!wire, Gat!backend
  <1> QED
    BY <1>4, <1>8, <1>9, <1>10, <1>11 DEF GatKept

\* The claims change before the turn's first write only, or are noted.
LEMMA ClaimStep == ASSUME GatKept, NEW r \in Rows, Gat!ClaimFollowUp(r) PROVE GatKept'
  <1> DEFINE now == Gat!Newest + 1
  <1>0. /\ nextWrite # 0 /\ r \in arrived \ completed /\ r \notin claims
        /\ claims' = claims \cup {r} /\ followUps' = followUps \cup {r}
        /\ stamp' = [x \in Rows |-> IF x \in {r} THEN now ELSE stamp[x]]
        /\ regrouped' = (regrouped \/ firstAnchor # {})
        /\ UNCHANGED <<arrived, completed, counter, nextWrite, box, boxes, Gat!proxy, gatewayTrouble, Gat!wire,
                       auditRow, Gat!backend, firstAnchor, retried, late, gap>>
    BY DEF Gat!ClaimFollowUp, Gat!Pending, Gat!Mark
  <1>1. Gat!Newest \in Nat /\ \A x \in Rows : stamp[x] <= Gat!Newest
    BY NewestIs DEF GatKept
  <1>2. stamp \in [Rows -> Nat] /\ stamp' \in [Rows -> Nat] /\ \A x \in Rows : stamp'[x] <= now /\ stamp[x] <= stamp'[x]
    BY <1>0, <1>1 DEF GatKept, GatTyped, Gat!TypeOK
  <1>3. now \in Nat /\ stamp'[r] = now
    BY <1>0, <1>1 DEF GatKept, GatTyped, Gat!TypeOK
  <1> HIDE DEF now
  <1>4. GatTyped'
    <2>1. regrouped' \in BOOLEAN
      BY <1>0
    <2>2. followUps' \subseteq claims' /\ claims' \subseteq arrived' \ completed'
      BY <1>0 DEF GatKept, GatTyped, Gat!TypeOK
    <2> QED
      BY <1>0, <1>2, <1>3, <2>1, <2>2 DEF GatKept, GatTyped, Gat!TypeOK, Gat!proxy, Gat!wire, Gat!backend
  <1>5. counter.key[2] \in Nat /\ counter' = counter /\ \E x \in Rows : counter.key[2] <= stamp[x]
    BY <1>0 DEF GatKept, GatTyped, TurnHeld
  <1>6. counter.key[2] < now
    BY <1>1, <1>2, <1>5 DEF now
  <1>7. \E x \in Rows : counter'.key[2] <= stamp'[x]
    BY <1>3, <1>5, <1>6
  <1>8. TurnHeld'
    BY <1>0, <1>7 DEF GatKept, TurnHeld, Gat!wire
  <1>9. AsScripted'
    <2> SUFFICES ASSUME ~ regrouped', ~ retried' PROVE CallsScripted' /\ CountsScripted' /\ RunHeard'
      BY DEF AsScripted
    <2>1. ~ regrouped /\ ~ retried /\ firstAnchor = {}
      BY <1>0 DEF GatKept, GatTyped
    <2>2. \A x \in Gat!Ids : callAt[x] = "none" /\ result[x] = "none"
      BY <2>1 DEF GatKept, TurnHeld, CallKept
    <2>3. CountsScripted /\ RunHeard
      BY <2>1 DEF GatKept, AsScripted
    <2>4. nextWrite = 1
      <3>1. 1 \in claims /\ nextWrite \in Nat
        BY <1>0, GatConsts DEF GatKept, GatTyped, Gat!TypeOK, TurnHeld
      <3>2. ~ (nextWrite >= 2)
        BY <2>1, <2>3, <3>1 DEF CountsScripted
      <3> QED
        BY <1>0, <3>1, <3>2
    <2>5. CallsScripted'
      BY <1>0, <2>2 DEF CallsScripted, Gat!wire
    <2>6. CountsScripted'
      <3>1. \A x \in claims : counter.key[2] < stamp[x] /\ x \in Rows /\ x # r
        BY <1>0, <2>3, <2>4 DEF CountsScripted, GatKept, GatTyped, Gat!TypeOK
      <3>2. \A x \in claims' : counter.key[2] < stamp'[x]
        BY <1>0, <1>2, <1>3, <1>6, <3>1
      <3> QED
        BY <1>0, <2>4, <3>2 DEF CountsScripted
    <2>7. RunHeard'
      BY <1>0, <2>4, GatConsts DEF RunHeard
    <2> QED
      BY <2>5, <2>6, <2>7
  <1>10. BackendKept'
    BY <1>0, BackendStays DEF Gat!wire, Gat!backend
  <1>11. TokenKept' /\ \A x \in Gat!Ids : CallKept(x)'
    BY <1>0 DEF GatKept, TokenKept, CallKept, Gat!proxy, Gat!wire, Gat!backend
  <1> QED
    BY <1>4, <1>8, <1>9, <1>10, <1>11 DEF GatKept

\* A follow-up row is given back; the turn's own first row never is.
LEMMA ReleaseStep == ASSUME GatKept, NEW r \in Rows, Gat!ReleaseFollowUp(r) PROVE GatKept'
  <1>0. /\ r \in followUps /\ claims' = claims \ {r} /\ followUps' = followUps \ {r}
        /\ regrouped' = (regrouped \/ firstAnchor # {})
        /\ UNCHANGED <<arrived, completed, stamp, counter, nextWrite, box, boxes, Gat!proxy, Gat!wire, auditRow,
                       Gat!backend, firstAnchor, retried, late, gap>>
    BY DEF Gat!ReleaseFollowUp
  <1>1. nextWrite # 0 /\ 1 \in claims /\ r # 1
    BY <1>0 DEF GatKept, TurnHeld
  <1>2. GatTyped'
    <2>1. regrouped' \in BOOLEAN
      BY <1>0
    <2> QED
      BY <1>0, <2>1 DEF GatKept, GatTyped, Gat!TypeOK, Gat!proxy, Gat!wire, Gat!backend
  <1>3. TurnHeld'
    BY <1>0, <1>1 DEF GatKept, TurnHeld, Gat!wire
  <1>4. AsScripted'
    <2> SUFFICES ASSUME ~ regrouped', ~ retried' PROVE CallsScripted' /\ CountsScripted' /\ RunHeard'
      BY DEF AsScripted
    <2>1. ~ regrouped /\ ~ retried /\ firstAnchor = {}
      BY <1>0 DEF GatKept, GatTyped
    <2>2. \A x \in Gat!Ids : callAt[x] = "none" /\ result[x] = "none"
      BY <2>1 DEF GatKept, TurnHeld, CallKept
    <2>3. CountsScripted /\ RunHeard
      BY <2>1 DEF GatKept, AsScripted
    <2>4. nextWrite = 1
      <3>1. nextWrite \in Nat
        BY GatConsts DEF GatKept, GatTyped, Gat!TypeOK
      <3>2. ~ (nextWrite >= 2)
        BY <1>1, <2>1, <2>3, <3>1 DEF CountsScripted
      <3> QED
        BY <1>1, <3>1, <3>2
    <2>5. CallsScripted'
      BY <1>0, <2>2 DEF CallsScripted, Gat!wire
    <2>6. CountsScripted'
      BY <1>0, <2>3, <2>4 DEF CountsScripted
    <2>7. RunHeard'
      BY <1>0, <2>4, GatConsts DEF RunHeard
    <2> QED
      BY <2>5, <2>6, <2>7
  <1>5. BackendKept'
    BY <1>0, BackendStays DEF Gat!wire, Gat!backend
  <1>6. TokenKept' /\ \A x \in Gat!Ids : CallKept(x)'
    BY <1>0 DEF GatKept, TokenKept, CallKept, Gat!proxy, Gat!wire, Gat!backend
  <1> QED
    BY <1>2, <1>3, <1>4, <1>5, <1>6 DEF GatKept

\* A turn that is over, for good or because its container or its host ended, has
\* no claims; every call keeps its keys, and none that was waiting is heard.
LEMMA TurnGone ==
    ASSUME GatKept, GatTyped', nextWrite' = 0, claims' = {}, followUps' = {}, stamp' = stamp,
           counter' = counter \/ counter' = Gat!NoCounter, callAt' = callAt, callKeys' = callKeys,
           \A i \in Gat!Ids : result[i] = "retryable" => result'[i] = "retryable",
           UNCHANGED Gat!notes
    PROVE  TurnHeld' /\ AsScripted'
  <1>1. \E r \in Rows : counter'.key[2] <= stamp'[r]
    <2>1. CASE counter' = counter
      BY <2>1 DEF GatKept, TurnHeld
    <2>2. CASE counter' = Gat!NoCounter
      <3>1. counter'.key[2] = 0
        BY <2>2 DEF Gat!NoCounter
      <3>2. 1 \in Rows /\ stamp'[1] \in Nat
        BY GatConsts DEF GatKept, GatTyped, Gat!TypeOK
      <3> QED
        BY <3>1, <3>2
    <2> QED
      BY <2>1, <2>2
  <1>2. \A i \in Gat!Ids : callAt'[i] = "none" => \A c \in Gat!Ops : counter'.counts[c] < i
    <2>1. CASE counter' = counter
      BY <2>1 DEF GatKept, TurnHeld
    <2>2. CASE counter' = Gat!NoCounter
      BY <2>2, GatConsts DEF Gat!NoCounter
    <2> QED
      BY <2>1, <2>2
  <1>3. TurnHeld'
    BY <1>1, <1>2 DEF GatKept, TurnHeld, Gat!notes
  <1>4. CallsScripted => CallsScripted'
    BY DEF CallsScripted, WriteKeys, Gat!notes
  <1>5. CountsScripted' /\ RunHeard'
    BY GatConsts DEF CountsScripted, RunHeard
  <1> QED
    BY <1>3, <1>4, <1>5 DEF GatKept, AsScripted, Gat!notes

\* The turn's result event.
LEMMA TurnEndsStep == ASSUME GatKept, Gat!TurnEnds PROVE GatKept'
  <1>0. /\ claims' = {} /\ followUps' = {} /\ nextWrite' = 0 /\ completed' = completed \cup claims
        /\ UNCHANGED <<arrived, stamp, counter, box, boxes, Gat!proxy, gatewayTrouble, Gat!wire, auditRow,
                       Gat!backend, Gat!notes, late, gap>>
    BY DEF Gat!TurnEnds
  <1>1. GatTyped'
    <2>1. completed' \subseteq arrived' /\ nextWrite' \in 0 .. (Len(Script) + 1)
      BY <1>0, GatConsts DEF GatKept, GatTyped, Gat!TypeOK
    <2> QED
      BY <1>0, <2>1 DEF GatKept, GatTyped, Gat!TypeOK, Gat!proxy, Gat!wire, Gat!backend, Gat!notes
  <1>2. TurnHeld' /\ AsScripted'
    BY <1>0, <1>1, TurnGone DEF Gat!wire
  <1>3. BackendKept'
    BY <1>0, BackendStays DEF Gat!wire, Gat!backend
  <1>4. TokenKept' /\ \A x \in Gat!Ids : CallKept(x)'
    BY <1>0 DEF GatKept, TokenKept, CallKept, Gat!proxy, Gat!wire, Gat!backend
  <1> QED
    BY <1>1, <1>2, <1>3, <1>4 DEF GatKept

\* The container dies, its token with it.
LEMMA BoxDiesStep == ASSUME GatKept, Gat!ContainerDies PROVE GatKept'
  <1>0. /\ gateUp /\ box' = 0 /\ claims' = {} /\ followUps' = {} /\ nextWrite' = 0 /\ counter' = Gat!NoCounter
        /\ result' = [i \in Gat!Ids |-> IF result[i] = "waiting" THEN "lost" ELSE result[i]]
        /\ token' = [b \in Gat!Boxes |-> IF token[b] = "live" THEN "revoked" ELSE token[b]]
        /\ UNCHANGED <<arrived, completed, stamp, boxes, used, gateUp, callAt, callKeys, auditRow, Gat!backend,
                       Gat!notes, late, gap>>
    BY DEF Gat!ContainerDies, Gat!Unheard, Gat!revokeProxyTokensForSession
  <1>1. GatTyped'
    <2>1. nextWrite' \in 0 .. (Len(Script) + 1) /\ box' \in 0 .. MaxBoxes
      BY <1>0, GatConsts
    <2>2. counter'.counts \in [Gat!Ops -> 0 .. MaxCalls] /\ counter'.key[2] \in Nat
      BY <1>0, GatConsts DEF Gat!NoCounter
    <2>3. token' \in [Gat!Boxes -> {"none", "live", "revoked", "expired"}]
      BY <1>0 DEF GatKept, GatTyped, Gat!TypeOK
    <2>4. result' \in [Gat!Ids -> {"none", "waiting", "ok", "retryable", "refused", "lost"}]
      BY <1>0 DEF GatKept, GatTyped, Gat!TypeOK
    <2> QED
      BY <1>0, <2>1, <2>2, <2>3, <2>4 DEF GatKept, GatTyped, Gat!TypeOK, Gat!backend, Gat!notes
  <1>2. \A i \in Gat!Ids : result[i] = "retryable" => result'[i] = "retryable"
    BY <1>0
  <1>3. TurnHeld' /\ AsScripted'
    BY <1>0, <1>1, <1>2, TurnGone
  <1>4. BackendKept'
    BY <1>0, BackendStays DEF Gat!backend
  <1>5. TokenKept'
    BY <1>0 DEF TokenKept
  <1>6. \A x \in Gat!Ids : CallKept(x)'
    BY <1>0 DEF GatKept, CallKept, Gat!backend
  <1> QED
    BY <1>1, <1>3, <1>4, <1>5, <1>6 DEF GatKept

\* The host starts again: what it finds open is closed as an error.
LEMMA GateStartsStep == ASSUME GatKept, Gat!HostStarts PROVE GatKept'
  <1>0. /\ ~ gateUp /\ gateUp' = TRUE
        /\ box' = 0 /\ claims' = {} /\ followUps' = {} /\ nextWrite' = 0 /\ counter' = Gat!NoCounter
        /\ result' = [i \in Gat!Ids |-> IF result[i] = "waiting" THEN "lost" ELSE result[i]]
        /\ token' = [b \in Gat!Boxes |-> IF token[b] = "live" THEN "revoked" ELSE token[b]]
        /\ auditRow' = [i \in Gat!Ids |-> IF auditRow[i] = "intent" THEN "error" ELSE auditRow[i]]
        /\ UNCHANGED <<arrived, completed, stamp, boxes, used, callAt, callKeys, Gat!backend, Gat!notes, late, gap>>
    BY DEF Gat!HostStarts, Gat!Unheard, Gat!revokeProxyTokensForSession
  <1>1. GatTyped'
    <2>1. nextWrite' \in 0 .. (Len(Script) + 1) /\ box' \in 0 .. MaxBoxes
      BY <1>0, GatConsts
    <2>2. counter'.counts \in [Gat!Ops -> 0 .. MaxCalls] /\ counter'.key[2] \in Nat
      BY <1>0, GatConsts DEF Gat!NoCounter
    <2>3. token' \in [Gat!Boxes -> {"none", "live", "revoked", "expired"}]
      BY <1>0 DEF GatKept, GatTyped, Gat!TypeOK
    <2>4. result' \in [Gat!Ids -> {"none", "waiting", "ok", "retryable", "refused", "lost"}]
      BY <1>0 DEF GatKept, GatTyped, Gat!TypeOK
    <2>5. auditRow' \in [Gat!Ids -> {"none", "intent", "ok", "error"}] /\ gateUp' \in BOOLEAN
      BY <1>0 DEF GatKept, GatTyped, Gat!TypeOK
    <2> QED
      BY <1>0, <2>1, <2>2, <2>3, <2>4, <2>5 DEF GatKept, GatTyped, Gat!TypeOK, Gat!backend, Gat!notes
  <1>2. \A i \in Gat!Ids : result[i] = "retryable" => result'[i] = "retryable"
    BY <1>0
  <1>3. TurnHeld' /\ AsScripted'
    BY <1>0, <1>1, <1>2, TurnGone
  <1>4. BackendKept'
    BY <1>0, BackendStays DEF Gat!backend
  <1>5. TokenKept'
    BY <1>0 DEF TokenKept
  <1>6. \A x \in Gat!Ids : CallKept(x)'
    BY <1>0 DEF GatKept, CallKept, Gat!backend
  <1> QED
    BY <1>1, <1>3, <1>4, <1>5, <1>6 DEF GatKept

\* A new call of the running turn: the keys it carries and the counts after it.
LEMMA CallMade ==
    ASSUME GatKept, claims # {}, Gat!Unused # {}, NEW ops \in SUBSET Gat!Ops, IsFiniteSet(ops),
           Gat!callGateway(ops, Gat!Fresh), nextWrite' \in 0 .. (Len(Script) + 1), retried' \in BOOLEAN,
           UNCHANGED <<arrived, completed, claims, stamp, followUps, box, boxes, Gat!proxy, auditRow, Gat!backend,
                       late, gap>>
    PROVE  /\ GatTyped' /\ BackendKept' /\ TokenKept' /\ \A x \in Gat!Ids : CallKept(x)'
           /\ \E r \in Rows : counter'.key[2] <= stamp'[r]
           /\ \A i \in Gat!Ids : callAt'[i] = "none" => \A c \in Gat!Ops : counter'.counts[c] < i
           /\ firstAnchor' # {}
  <1> DEFINE new == Gat!Fresh
             occ == Gat!nextOccurrence
             keys == {<<claims, c, occ[c], 0>> : c \in ops}
             key == <<claims, Gat!Signal>>
             counts == [c \in Gat!Ops |-> occ[c] + (IF c \in ops THEN 1 ELSE 0)]
  <1>0. /\ callAt' = [callAt EXCEPT ![new] = "sent"] /\ callKeys' = [callKeys EXCEPT ![new] = keys]
        /\ result' = [result EXCEPT ![new] = "waiting"]
        /\ counter' = [key |-> key, counts |-> counts]
        /\ firstAnchor' = (IF firstAnchor = {} THEN claims ELSE firstAnchor)
        /\ regrouped' = (regrouped \/ (firstAnchor # {} /\ claims # firstAnchor))
    BY DEF Gat!callGateway, Gat!deriveStableIdempotencyKey
  <1>1. /\ new \in Gat!Ids /\ callAt[new] = "none" /\ new \in Nat /\ new >= 1 /\ new <= MaxCalls
        /\ \A i \in Gat!Ids : callAt[i] = "none" => new <= i
    BY FreshIs, GatConsts
  <1>2. /\ Gat!Signal \in Nat /\ \E r \in claims : Gat!Signal = stamp[r]
        /\ claims \subseteq Rows /\ stamp \in [Rows -> Nat]
    BY SignalIs DEF GatKept, GatTyped, Gat!TypeOK
  <1>3. occ \in [Gat!Ops -> 0 .. MaxCalls] /\ \A c \in Gat!Ops : occ[c] < new
    <2>1. counter.counts \in [Gat!Ops -> 0 .. MaxCalls]
      BY DEF GatKept, GatTyped, Gat!TypeOK
    <2>2. \A c \in Gat!Ops : counter.counts[c] < new
      BY <1>1 DEF GatKept, TurnHeld
    <2>3. CASE counter.key = <<claims, Gat!Signal>>
      BY <2>1, <2>2, <2>3 DEF Gat!nextOccurrence
    <2>4. CASE counter.key # <<claims, Gat!Signal>>
      <3>1. occ = [c \in Gat!Ops |-> 0]
        BY <2>4 DEF Gat!nextOccurrence
      <3> HIDE DEF occ
      <3> QED
        BY <3>1, <1>1, GatConsts
    <2> QED
      BY <2>3, <2>4
  <1> HIDE DEF occ, new
  <1>4. counts \in [Gat!Ops -> 0 .. MaxCalls] /\ \A c \in Gat!Ops : counts[c] <= new
    BY <1>1, <1>3, GatConsts
  <1>5. keys \in SUBSET GatKeys
    BY <1>2, <1>3, GatConsts DEF GatKeys
  <1>6. IsFiniteSet(keys)
    <2> DEFINE f == [c \in ops |-> <<claims, c, occ[c], 0>>]
    <2>1. DOMAIN f = ops /\ f = [x \in DOMAIN f |-> f[x]] /\ keys = {f[x] : x \in DOMAIN f}
      OBVIOUS
    <2> HIDE DEF f, keys
    <2> QED
      BY <2>1, ImageFinite
  <1> HIDE DEF counts, keys
  <1>7. counter'.key[2] = Gat!Signal /\ counter'.counts = counts
    BY <1>0
  <1>8. GatTyped'
    <2>1. callAt' \in [Gat!Ids -> {"none", "sent", "forwarded", "answered", "ended"}]
      BY <1>0, <1>1 DEF GatKept, GatTyped, Gat!TypeOK
    <2>2. result' \in [Gat!Ids -> {"none", "waiting", "ok", "retryable", "refused", "lost"}]
      BY <1>0, <1>1 DEF GatKept, GatTyped, Gat!TypeOK
    <2>3. callKeys' \in [Gat!Ids -> SUBSET GatKeys] /\ \A i \in Gat!Ids : IsFiniteSet(callKeys'[i])
      BY <1>0, <1>1, <1>5, <1>6 DEF GatKept, GatTyped
    <2>4. regrouped' \in BOOLEAN
      BY <1>0
    <2>5. counter'.counts \in [Gat!Ops -> 0 .. MaxCalls] /\ counter'.key[2] \in Nat
      BY <1>2, <1>4, <1>7
    <2> QED
      BY <2>1, <2>2, <2>3, <2>4, <2>5 DEF GatKept, GatTyped, Gat!TypeOK, Gat!proxy, Gat!backend
  <1>9. new \notin served /\ new \notin atBackend /\ auditRow[new] = "none"
    BY <1>1 DEF GatKept, CallKept
  <1>10. BackendKept'
    <2>1. /\ committed' = committed /\ commits' = commits /\ served' = served
          /\ \A x \in served : x \in Gat!Ids /\ callKeys'[x] = callKeys[x]
      BY <1>0, <1>1, <1>9 DEF Gat!backend, GatKept, GatTyped, Gat!TypeOK
    <2> QED
      BY <2>1 DEF GatKept, BackendKept
  <1>11. TokenKept'
    BY DEF GatKept, TokenKept, Gat!proxy
  <1>12. \A x \in Gat!Ids : CallKept(x)'
    BY <1>0, <1>1, <1>9 DEF GatKept, GatTyped, Gat!TypeOK, CallKept, Gat!proxy, Gat!backend
  <1>13. \E r \in Rows : counter'.key[2] <= stamp'[r]
    BY <1>2, <1>7
  <1>14. \A i \in Gat!Ids : callAt'[i] = "none" => \A c \in Gat!Ops : counter'.counts[c] < i
    <2> SUFFICES ASSUME NEW i \in Gat!Ids, callAt'[i] = "none", NEW c \in Gat!Ops PROVE counts[c] < i
      BY <1>7
    <2>1. i # new /\ callAt[i] = "none" /\ i \in Nat
      BY <1>0, <1>1, GatConsts DEF GatKept, GatTyped, Gat!TypeOK
    <2>2. new <= i /\ counts[c] <= new /\ counts[c] \in Nat
      BY <2>1, <1>1, <1>4, GatConsts
    <2> QED
      BY <1>1, <2>1, <2>2
  <1>15. firstAnchor' # {}
    BY <1>0
  <1> QED
    BY <1>8, <1>10, <1>11, <1>12, <1>13, <1>14, <1>15

\* The agent repeats a call: from then on it may write more than its script.
LEMMA RetryStep == ASSUME GatKept, NEW i \in Gat!Ids, Gat!RetryCall(i) PROVE GatKept'
  <1> DEFINE ops == {k[2] : k \in callKeys[i]}
  <1>0. /\ nextWrite # 0 /\ result[i] = "retryable" /\ Gat!Unused # {} /\ Gat!callGateway(ops, Gat!Fresh)
        /\ retried' = TRUE /\ nextWrite' = nextWrite
        /\ UNCHANGED <<arrived, completed, claims, stamp, followUps, box, boxes, Gat!proxy, auditRow, Gat!backend,
                       late, gap>>
    BY DEF Gat!RetryCall
  <1>1. ops \in SUBSET Gat!Ops /\ IsFiniteSet(ops)
    <2>1. IsFiniteSet(callKeys[i]) /\ callKeys[i] \in SUBSET GatKeys
      BY DEF GatKept, GatTyped
    <2>2. ops \in SUBSET Gat!Ops
      BY <2>1 DEF GatKeys
    <2> DEFINE f == [k \in callKeys[i] |-> k[2]]
    <2>3. DOMAIN f = callKeys[i] /\ f = [x \in DOMAIN f |-> f[x]] /\ ops = {f[x] : x \in DOMAIN f}
      OBVIOUS
    <2> HIDE DEF f, ops
    <2> QED
      BY <2>1, <2>2, <2>3, ImageFinite
  <1>2. 1 \in claims /\ 1 \notin followUps /\ nextWrite' \in 0 .. (Len(Script) + 1) /\ retried' \in BOOLEAN
    BY <1>0 DEF GatKept, TurnHeld, GatTyped, Gat!TypeOK
  <1> HIDE DEF ops
  <1>3. /\ GatTyped' /\ BackendKept' /\ TokenKept' /\ \A x \in Gat!Ids : CallKept(x)'
        /\ \E r \in Rows : counter'.key[2] <= stamp'[r]
        /\ \A x \in Gat!Ids : callAt'[x] = "none" => \A c \in Gat!Ops : counter'.counts[c] < x
        /\ firstAnchor' # {}
    BY <1>0, <1>1, <1>2, CallMade
  <1>4. /\ Gat!Fresh \in Gat!Ids /\ callAt[Gat!Fresh] = "none"
        /\ callAt' = [callAt EXCEPT ![Gat!Fresh] = "sent"] /\ result' = [result EXCEPT ![Gat!Fresh] = "waiting"]
    BY <1>0, FreshIs DEF Gat!callGateway
  <1>5. \E x \in Gat!Ids : callAt'[x] # "none"
    BY <1>4 DEF GatKept, GatTyped, Gat!TypeOK
  <1>6. result'[i] = "retryable"
    <2>1. i # Gat!Fresh
      BY <1>0, <1>4 DEF GatKept, CallKept
    <2> QED
      BY <1>0, <1>4, <2>1 DEF GatKept, GatTyped, Gat!TypeOK
  <1>7. TurnHeld'
    BY <1>0, <1>2, <1>3, <1>5, <1>6 DEF TurnHeld
  <1> QED
    BY <1>0, <1>3, <1>7 DEF GatKept, AsScripted

\* The next write of the script carries the keys of its place: what a run before
\* this one made of that place.
LEMMA ExecuteStep == ASSUME GatKept, Gat!handleGatewayExecute PROVE GatKept'
  <1> DEFINE new == Gat!Fresh
             occ == Gat!nextOccurrence
             ops == Script[nextWrite]
  <1>0. /\ nextWrite \in DOMAIN Script /\ Gat!Unused # {} /\ Gat!callGateway(ops, new)
        /\ nextWrite' = nextWrite + 1 /\ retried' = retried
        /\ UNCHANGED <<arrived, completed, claims, stamp, followUps, box, boxes, Gat!proxy, auditRow, Gat!backend,
                       late, gap>>
    BY DEF Gat!handleGatewayExecute
  <1>1. ops \in SUBSET Gat!Ops /\ IsFiniteSet(ops) /\ nextWrite \in Nat \ {0}
    BY <1>0, GatConsts
  <1>2. 1 \in claims /\ 1 \notin followUps /\ nextWrite' \in 0 .. (Len(Script) + 1) /\ retried' \in BOOLEAN
    BY <1>0, <1>1, GatConsts DEF GatKept, TurnHeld, GatTyped
  <1>3. /\ GatTyped' /\ BackendKept' /\ TokenKept' /\ \A x \in Gat!Ids : CallKept(x)'
        /\ \E r \in Rows : counter'.key[2] <= stamp'[r]
        /\ \A x \in Gat!Ids : callAt'[x] = "none" => \A c \in Gat!Ops : counter'.counts[c] < x
        /\ firstAnchor' # {}
    BY <1>0, <1>1, <1>2, CallMade
  <1>4. /\ callAt' = [callAt EXCEPT ![new] = "sent"] /\ result' = [result EXCEPT ![new] = "waiting"]
        /\ callKeys' = [callKeys EXCEPT ![new] = {<<claims, c, occ[c], 0>> : c \in ops}]
        /\ counter'.key = <<claims, Gat!Signal>>
        /\ counter'.counts = [c \in Gat!Ops |-> occ[c] + (IF c \in ops THEN 1 ELSE 0)]
        /\ firstAnchor' = (IF firstAnchor = {} THEN claims ELSE firstAnchor)
        /\ regrouped' = (regrouped \/ (firstAnchor # {} /\ claims # firstAnchor))
    BY <1>0 DEF Gat!callGateway, Gat!deriveStableIdempotencyKey
  <1>5. new \in Gat!Ids /\ callAt[new] = "none"
    BY <1>0, FreshIs
  <1>6. /\ callAt'[new] = "sent" /\ result'[new] = "waiting"
        /\ callKeys'[new] = {<<claims, c, occ[c], 0>> : c \in ops}
        /\ \A x \in Gat!Ids : x # new =>
             callAt'[x] = callAt[x] /\ result'[x] = result[x] /\ callKeys'[x] = callKeys[x]
    BY <1>4, <1>5 DEF GatKept, GatTyped, Gat!TypeOK
  <1>7. TurnHeld'
    <2>1. retried' => \E x \in Gat!Ids : result'[x] = "retryable"
      <3> SUFFICES ASSUME retried PROVE \E x \in Gat!Ids : result'[x] = "retryable"
        BY <1>0
      <3>1. PICK x \in Gat!Ids : result[x] = "retryable"
        BY DEF GatKept, TurnHeld
      <3>2. x # new
        BY <1>5, <3>1 DEF GatKept, CallKept
      <3> QED
        BY <1>6, <3>1, <3>2
    <2>2. \E x \in Gat!Ids : callAt'[x] # "none"
      BY <1>5, <1>6
    <2>3. nextWrite' # 0
      BY <1>0, <1>1
    <2> QED
      BY <1>0, <1>2, <1>3, <2>1, <2>2, <2>3 DEF TurnHeld
  <1>8. AsScripted'
    <2> SUFFICES ASSUME ~ regrouped', ~ retried' PROVE CallsScripted' /\ CountsScripted' /\ RunHeard'
      BY DEF AsScripted
    <2>1. ~ regrouped /\ ~ retried /\ firstAnchor' = claims /\ (firstAnchor # {} => firstAnchor = claims)
      BY <1>0, <1>4 DEF GatKept, GatTyped
    <2>2. CallsScripted /\ CountsScripted /\ RunHeard
      BY <2>1 DEF GatKept, AsScripted
    <2>3. \A c \in Gat!Ops : occ[c] = Before(c, nextWrite)
      <3>1. CASE nextWrite = 1
        <4>1. \A r \in claims : counter.key[2] < stamp[r]
          BY <2>2, <3>1 DEF CountsScripted
        <4>2. /\ Gat!Signal \in Nat /\ \E r \in claims : Gat!Signal = stamp[r]
              /\ counter.key[2] \in Nat
          BY <1>2, SignalIs DEF GatKept, GatTyped
        <4>3. counter.key[2] # Gat!Signal
          BY <4>1, <4>2
        <4>4. counter.key # <<claims, Gat!Signal>>
          BY <4>3
        <4>5. occ = [c \in Gat!Ops |-> 0]
          BY <4>4 DEF Gat!nextOccurrence
        <4>6. \A c : Before(c, 1) = 0
          BY BeforeIs
        <4> HIDE DEF occ
        <4> QED
          BY <3>1, <4>5, <4>6
      <3>2. CASE nextWrite >= 2
        <4>1. counter.key = <<claims, Gat!Signal>> /\ \A c \in Gat!Ops : counter.counts[c] = Before(c, nextWrite)
          BY <2>2, <3>2 DEF CountsScripted
        <4>2. occ = counter.counts
          BY <4>1 DEF Gat!nextOccurrence
        <4> HIDE DEF occ
        <4> QED
          BY <4>1, <4>2
      <3> QED
        BY <1>1, <3>1, <3>2
    <2> HIDE DEF occ, new
    <2>4. PICK w \in DOMAIN Script : w = nextWrite
      BY <1>0
    <2>5. \A j : WriteKeys(j)' = {<<claims, c, Before(c, j), 0>> : c \in Script[j]}
      BY <2>1 DEF WriteKeys
    <2>6. callKeys'[new] = WriteKeys(w)'
      <3>1. \A c \in Script[w] : occ[c] = Before(c, w)
        BY <1>1, <2>3, <2>4
      <3> QED
        BY <1>6, <2>4, <2>5, <3>1
    <2>7. \A x \in Gat!Ids : callAt[x] # "none" => x # new /\ \A j : WriteKeys(j)' = WriteKeys(j)
      <3>1. \A x \in Gat!Ids : callAt[x] # "none" => firstAnchor # {}
        BY DEF GatKept, TurnHeld
      <3> QED
        BY <1>5, <2>1, <3>1 DEF WriteKeys
    <2>8. CallsScripted'
      <3> SUFFICES ASSUME NEW x \in Gat!Ids, callAt'[x] # "none"
                   PROVE  \E j \in DOMAIN Script : callKeys'[x] = WriteKeys(j)'
        BY DEF CallsScripted
      <3>1. CASE x = new
        BY <2>6, <3>1
      <3>2. CASE x # new
        BY <1>6, <2>2, <2>7, <3>2 DEF CallsScripted
      <3> QED
        BY <3>1, <3>2
    <2>9. CountsScripted'
      <3>1. claims' = firstAnchor' /\ nextWrite' >= 2 /\ nextWrite' # 1
        BY <1>0, <1>1, <2>1
      <3>2. counter'.key = <<claims', (Gat!Signal)'>>
        BY <1>0, <1>4, SignalStays
      <3>3. \A c \in Gat!Ops : counter'.counts[c] = Before(c, nextWrite')
        <4> TAKE c \in Gat!Ops
        <4>1. Before(c, nextWrite + 1) = Before(c, nextWrite) + (IF c \in ops THEN 1 ELSE 0)
          BY <1>1, BeforeNext
        <4>2. counter'.counts[c] = occ[c] + (IF c \in ops THEN 1 ELSE 0)
          BY <1>4
        <4> QED
          BY <1>0, <2>3, <4>1, <4>2
      <3> QED
        BY <3>1, <3>2, <3>3 DEF CountsScripted
    <2>10. RunHeard'
      <3> SUFFICES ASSUME NEW j \in DOMAIN Script, j < nextWrite'
                   PROVE  \E x \in Gat!Ids : result'[x] \notin {"none", "lost"} /\ callKeys'[x] = WriteKeys(j)'
        BY DEF RunHeard
      <3>1. CASE j = w
        BY <1>5, <1>6, <2>6, <3>1
      <3>2. CASE j # w
        <4>1. j < nextWrite
          BY <1>0, <1>1, <2>4, <3>2, GatConsts
        <4>2. PICK x \in Gat!Ids : result[x] \notin {"none", "lost"} /\ callKeys[x] = WriteKeys(j)
          BY <2>2, <4>1 DEF RunHeard
        <4>3. callAt[x] # "none"
          BY <4>2 DEF GatKept, CallKept
        <4> QED
          BY <1>6, <2>7, <4>2, <4>3
      <3> QED
        BY <3>1, <3>2
    <2> QED
      BY <2>8, <2>9, <2>10
  <1> QED
    BY <1>3, <1>7, <1>8 DEF GatKept

\* The first state.
LEMMA GatInit == ASSUME Init PROVE GatInv
  <1>0. Gat!Init
    BY DEF Init
  <1>1. \A i \in Gat!Ids : callKeys[i] = {}
    BY <1>0 DEF Gat!Init
  <1>2. GatTyped
    <2>1. Gat!TypeOK
      BY <1>0, GatConsts DEF Gat!Init, Gat!TypeOK, Gat!NoCounter
    <2>2. gateUp \in BOOLEAN /\ regrouped \in BOOLEAN /\ retried \in BOOLEAN
      BY <1>0 DEF Gat!Init
    <2>3. counter.key[2] = 0
      BY <1>0 DEF Gat!Init, Gat!NoCounter
    <2>4. \E b \in Nat : \A r \in Rows : stamp[r] <= b
      BY <1>0 DEF Gat!Init
    <2>5. callKeys \in [Gat!Ids -> SUBSET GatKeys]
      BY <1>0 DEF Gat!Init
    <2> QED
      BY <1>1, <2>1, <2>2, <2>3, <2>4, <2>5, FS_EmptySet DEF GatTyped
  <1>3. TurnHeld
    <2>1. counter.key[2] = 0 /\ \A c \in Gat!Ops : counter.counts[c] = 0
      BY <1>0 DEF Gat!Init, Gat!NoCounter
    <2>2. stamp[1] = 0 /\ 1 \in Rows
      BY <1>0, GatConsts DEF Gat!Init
    <2>3. \E r \in Rows : counter.key[2] <= stamp[r]
      BY <2>1, <2>2
    <2>4. \A i \in Gat!Ids : \A c \in Gat!Ops : counter.counts[c] < i
      BY <2>1, GatConsts
    <2>5. /\ nextWrite = 0 /\ claims = {} /\ followUps = {} /\ firstAnchor = {} /\ retried = FALSE
          /\ \A i \in Gat!Ids : callAt[i] = "none"
      BY <1>0 DEF Gat!Init
    <2> QED
      BY <2>3, <2>4, <2>5 DEF TurnHeld
  <1>4. AsScripted
    <2>1. nextWrite = 0 /\ \A i \in Gat!Ids : callAt[i] = "none"
      BY <1>0 DEF Gat!Init
    <2> QED
      BY <2>1, GatConsts DEF AsScripted, CallsScripted, CountsScripted, RunHeard
  <1>5. BackendKept
    <2>1. committed = {} /\ served = {} /\ \A c \in Gat!Ops : commits[c] = 0
      BY <1>0 DEF Gat!Init
    <2>2. \A c : {k \in committed : k[2] = c} = {}
      BY <2>1
    <2> QED
      BY <2>1, <2>2, FS_EmptySet DEF BackendKept
  <1>6. TokenKept
    BY <1>0 DEF Gat!Init, TokenKept
  <1>7. \A i \in Gat!Ids : CallKept(i)
    BY <1>0 DEF Gat!Init, CallKept
  <1> QED
    BY <1>2, <1>3, <1>4, <1>5, <1>6, <1>7 DEF GatInv, GatKept

\* Without a regrouped turn and without a repeated call every committed key is
\* that of a place of the script: an operation has no more of them than places.
LEMMA OnceEach ==
    ASSUME GatKept, ~ regrouped, ~ retried, NEW c \in Gat!Ops
    PROVE  commits[c] <= Gat!Wanted(c)
  <1> DEFINE K == {k \in committed : k[2] = c}
             P == {j \in DOMAIN Script : c \in Script[j]}
             f == [k \in K |-> CHOOSE j \in P : k = <<firstAnchor, c, Before(c, j), 0>>]
  <1>1. \A k \in K : \E j \in P : k = <<firstAnchor, c, Before(c, j), 0>>
    <2> TAKE k \in K
    <2>1. PICK i \in served : k \in callKeys[i]
      BY DEF GatKept, BackendKept
    <2>2. i \in Gat!Ids /\ callAt[i] # "none"
      BY <2>1 DEF GatKept, GatTyped, Gat!TypeOK, CallKept
    <2>3. PICK j \in DOMAIN Script : callKeys[i] = WriteKeys(j)
      BY <2>2 DEF GatKept, AsScripted, CallsScripted
    <2>4. PICK d \in Script[j] : k = <<firstAnchor, d, Before(d, j), 0>>
      BY <2>1, <2>3 DEF WriteKeys
    <2>5. d = c
      BY <2>4
    <2> QED
      BY <2>4, <2>5
  <1>2. \A k \in K : f[k] \in P /\ k = <<firstAnchor, c, Before(c, f[k]), 0>>
    <2> HIDE DEF K, P
    <2> QED
      BY <1>1
  <1>3. f \in Injection(K, P)
    <2>1. f \in [K -> P]
      <3> HIDE DEF K, P
      <3> QED
        BY <1>2
    <2>2. \A a, b \in K : f[a] = f[b] => a = b
      <3> HIDE DEF K, P, f
      <3> QED
        BY <1>2
    <2> HIDE DEF K, P, f
    <2> QED
      BY <2>1, <2>2 DEF Injection, IsInjective
  <1>4. IsFiniteSet(P)
    <2>1. IsFiniteSet(DOMAIN Script)
      BY GatConsts, FS_Interval
    <2> QED
      BY <2>1, FS_Subset
  <1>5. commits[c] = Cardinality(K) /\ Gat!Wanted(c) = Cardinality(P)
    BY GatCounts DEF GatKept, BackendKept, Gat!Wanted
  <1> HIDE DEF K, P, f
  <1> QED
    BY <1>3, <1>4, <1>5, FS_Injection

\* A run that made all its writes and heard ok of each has them all committed.
LEMMA EachOnce ==
    ASSUME GatKept PROVE Gat!NoWriteSwallowed
  <1> SUFFICES ASSUME nextWrite = Len(Script) + 1, ~ regrouped,
                      \A i \in Gat!Ids : result[i] \in {"none", "ok", "lost"}, NEW c \in Gat!Ops
               PROVE  commits[c] >= Gat!Wanted(c)
    BY DEF Gat!NoWriteSwallowed
  <1> DEFINE K == {k \in committed : k[2] = c}
             P == {j \in DOMAIN Script : c \in Script[j]}
             f == [j \in P |-> <<firstAnchor, c, Before(c, j), 0>>]
  <1>1. ~ retried
    BY DEF GatKept, TurnHeld
  <1>2. \A j \in P : <<firstAnchor, c, Before(c, j), 0>> \in K
    <2> TAKE j \in P
    <2>1. j < nextWrite
      BY GatConsts
    <2>2. PICK i \in Gat!Ids : result[i] \notin {"none", "lost"} /\ callKeys[i] = WriteKeys(j)
      BY <1>1, <2>1 DEF GatKept, AsScripted, RunHeard
    <2>3. i \in served
      BY <2>2 DEF GatKept, CallKept
    <2>4. WriteKeys(j) \subseteq committed
      BY <2>2, <2>3 DEF GatKept, BackendKept
    <2> QED
      BY <2>4 DEF WriteKeys
  <1>3. f \in Injection(P, K)
    <2>1. f \in [P -> K]
      <3> HIDE DEF K, P
      <3> QED
        BY <1>2
    <2>2. \A a, b \in P : f[a] = f[b] => a = b
      <3> TAKE a, b \in P
      <3> HAVE f[a] = f[b]
      <3>1. a \in Nat \ {0} /\ b \in Nat \ {0} /\ c \in Script[a] /\ c \in Script[b]
        BY GatConsts
      <3>2. f[a] = <<firstAnchor, c, Before(c, a), 0>> /\ f[b] = <<firstAnchor, c, Before(c, b), 0>>
        OBVIOUS
      <3>3. f[a][3] = Before(c, a) /\ f[b][3] = Before(c, b)
        BY <3>2
      <3>4. Before(c, a) = Before(c, b)
        BY <3>3
      <3> QED
        BY <3>1, <3>4, BeforeInjective
    <2> HIDE DEF K, P, f
    <2> QED
      BY <2>1, <2>2 DEF Injection, IsInjective
  <1>4. IsFiniteSet(K) /\ IsFiniteSet(P)
    <2>1. IsFiniteSet(DOMAIN Script)
      BY GatConsts, FS_Interval
    <2>2. K \in SUBSET committed /\ P \in SUBSET DOMAIN Script /\ IsFiniteSet(committed)
      BY DEF GatKept, BackendKept
    <2> HIDE DEF K, P
    <2> QED
      BY <2>1, <2>2, FS_Subset
  <1>5. commits[c] = Cardinality(K) /\ Gat!Wanted(c) = Cardinality(P)
    BY GatCounts DEF GatKept, BackendKept, Gat!Wanted
  <1> HIDE DEF K, P, f
  <1> QED
    BY <1>3, <1>4, <1>5, FS_Injection, FS_CardinalityType

\* The invariant implies the property.
LEMMA GatImplied == ASSUME GatInv PROVE WritesAccounted
  <1> SUFFICES ASSUME GatKept PROVE Gat!WritesAccounted
    BY DEF GatInv, WritesAccounted
  <1>1. Gat!TypeOK
    BY DEF GatKept, GatTyped
  <1>2. Gat!WritesOnce
    <2> SUFFICES ASSUME NEW c \in Gat!Ops, commits[c] > Gat!Wanted(c), ~ (regrouped \/ retried) PROVE FALSE
      BY DEF Gat!WritesOnce
    <2>1. commits[c] <= Gat!Wanted(c) /\ commits[c] \in Nat
      BY OnceEach DEF GatKept, GatTyped, Gat!TypeOK
    <2>2. Gat!Wanted(c) \in Nat
      <3>1. IsFiniteSet(DOMAIN Script)
        BY GatConsts, FS_Interval
      <3>2. IsFiniteSet({k \in DOMAIN Script : c \in Script[k]})
        BY <3>1, FS_Subset
      <3> QED
        BY <3>2, FS_CardinalityType, GatCounts DEF Gat!Wanted
    <2> QED
      BY <2>1, <2>2
  <1>3. Gat!NoWriteSwallowed
    BY EachOnce
  <1>4. Gat!AuditHonest
    BY DEF GatKept, CallKept, Gat!AuditHonest
  <1>5. Gat!TokenDiesWithContainer
    BY DEF GatKept, TokenKept, Gat!TokenDiesWithContainer
  <1> QED
    BY <1>1, <1>2, <1>3, <1>4, <1>5 DEF Gat!WritesAccounted

\* However often a turn runs, whatever dies or times out on the way: its business
\* writes are committed as often as it means them, audited as they happened, and
\* pass on the running container's token only (gateway.ts,
\* gateway-signing-proxy.ts).
THEOREM WritesSafe == Spec => []WritesAccounted
  <1>1. Init => GatInv
    BY GatInit
  <1>2. GatInv /\ [Next]_vars => GatInv'
    <2> SUFFICES ASSUME GatInv, [Next]_vars, focus' = "gateway" PROVE GatKept'
      BY DEF GatInv
    <2>1. focus = "gateway" /\ GatKept
      BY DEF GatInv, Next, vars
    <2>2. CASE Gat!Next
      BY <2>1, <2>2, MintStep, ArriveStep, KeepStep, CallTimeoutStep, IntentFailsStep, ForwardStep, RefuseStep,
         RefuseAuditedStep, AnsweredStep, ForwardFailsStep, UnreachableStep, WindowStep, ExpireTokenStep,
         GateEndsStep, BackendRunsStep, TurnStartsStep, ClaimStep, ReleaseStep, TurnEndsStep, BoxDiesStep,
         GateStartsStep, RetryStep, ExecuteStep
         DEF Gat!Next
    <2>3. CASE UNCHANGED gatVars
      <3>1. TurnUntouched /\ GatTyped'
        BY <2>1, <2>3 DEF gatVars, TurnUntouched, GatKept, GatTyped, Gat!TypeOK
      <3>2. TurnHeld' /\ AsScripted'
        BY <2>1, <3>1, ScriptStays
      <3>3. BackendKept'
        BY <2>1, <2>3, BackendStays DEF gatVars
      <3>4. TokenKept' /\ \A i \in Gat!Ids : CallKept(i)'
        BY <2>1, <2>3 DEF gatVars, GatKept, TokenKept, CallKept
      <3> QED
        BY <3>1, <3>2, <3>3, <3>4 DEF GatKept
    <2> QED
      BY <2>1, <2>2, <2>3 DEF Next, vars
  <1>3. GatInv => WritesAccounted
    BY GatImplied
  <1> QED
    BY <1>1, <1>2, <1>3, PTL DEF Spec
=============================================================================
