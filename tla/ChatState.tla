----------------------------- MODULE ChatState -----------------------------
(***************************************************************************)
(* The state adapter the chat SDK keeps in the host's database: locks of a  *)
(* thread with tokens and deadlines, and the bounded queue of a thread kept *)
(* as a list of indexed rows.                                               *)
(***************************************************************************)
EXTENDS Integers, Sequences, FiniteSets

CONSTANTS
  Holders,    \* handlers that work on the thread
  Ttl,        \* how long a lock lasts
  MaxSize,    \* maxSize of the queue
  LastTick,   \* bound: clock
  MaxEntries  \* bound: entries put in the queue

VARIABLES
  clock,
  lockRow,    \* chat_sdk_locks of the thread: holder of the token, deadline
  lease,      \* the deadline a holder was last given; None without a lock
  forced,     \* history: holders whose lock was taken by force
  listRows,   \* chat_sdk_lists of the queue: index to entry
  entered,    \* entries enqueued so far, numbered
  taken       \* entries dequeued, in order

vars == <<clock, lockRow, lease, forced, listRows, entered, taken>>

None    == -1
NoLock  == [by |-> "nobody", until |-> None]
Ticks   == 0..(LastTick + Ttl)
indices == DOMAIN listRows
Highest(S) == CHOOSE i \in S : \A j \in S : j <= i
Lowest(S)  == CHOOSE i \in S : \A j \in S : i <= j

TypeOK ==
  /\ clock \in 0..LastTick
  /\ lockRow.by \in Holders \cup {"nobody"} /\ lockRow.until \in Ticks \cup {None}
  /\ lease \in [Holders -> Ticks \cup {None}]
  /\ \A i \in indices : i >= 0 /\ listRows[i] \in 1..MaxEntries
  /\ entered \in 0..MaxEntries

Init ==
  /\ clock = 0 /\ lockRow = NoLock /\ lease = [h \in Holders |-> None] /\ forced = {}
  /\ listRows = << >> /\ entered = 0 /\ taken = << >>

Tick == clock < LastTick /\ clock' = clock + 1
        /\ UNCHANGED <<lockRow, lease, forced, listRows, entered, taken>>

Expired == lockRow # NoLock /\ lockRow.until < clock

\* An expired row is deleted, then INSERT OR IGNORE.
acquireLock(h) ==
  /\ lease[h] = None /\ (lockRow = NoLock \/ Expired)
  /\ lockRow' = [by |-> h, until |-> clock + Ttl]
  /\ lease' = [lease EXCEPT ![h] = clock + Ttl]
  /\ forced' = forced \ {h}
  /\ UNCHANGED <<clock, listRows, entered, taken>>

\* Mutant: the row of the thread, whoever's token it has.
releaseAny(h) ==
  /\ lease[h] # None
  /\ lockRow' = NoLock
  /\ lease' = [lease EXCEPT ![h] = None]
  /\ UNCHANGED <<clock, forced, listRows, entered, taken>>

\* Only the row with the holder's own token.
releaseLock(h) ==
  /\ lease[h] # None
  /\ lockRow' = IF lockRow.by = h THEN NoLock ELSE lockRow
  /\ lease' = [lease EXCEPT ![h] = None]
  /\ UNCHANGED <<clock, forced, listRows, entered, taken>>

\* Works on an expired row as long as nobody deleted it; otherwise false.
extendLock(h) ==
  /\ lease[h] # None
  /\ IF lockRow.by = h
     THEN /\ lockRow' = [lockRow EXCEPT !.until = clock + Ttl]
          /\ lease' = [lease EXCEPT ![h] = clock + Ttl]
     ELSE lease' = [lease EXCEPT ![h] = None] /\ UNCHANGED lockRow
  /\ UNCHANGED <<clock, forced, listRows, entered, taken>>

forceReleaseLock ==
  /\ lockRow # NoLock
  /\ lockRow' = NoLock
  /\ forced' = forced \cup {lockRow.by}
  /\ UNCHANGED <<clock, lease, listRows, entered, taken>>

\* Every read of the key-value table also drops expired locks.
cleanup ==
  /\ Expired
  /\ lockRow' = NoLock
  /\ UNCHANGED <<clock, lease, forced, listRows, entered, taken>>

nextIdx == IF indices = {} THEN 0 ELSE Highest(indices) + 1

cutoff == nextIdx - MaxSize

\* appendToList with maxLength: the new row, then the oldest are deleted.
enqueue ==
  /\ entered < MaxEntries
  /\ entered' = entered + 1
  /\ LET rows == [i \in indices \cup {nextIdx} |-> IF i = nextIdx THEN entered + 1 ELSE listRows[i]]
     IN listRows' = [i \in {j \in DOMAIN rows : j > cutoff} |-> rows[i]]
  /\ UNCHANGED <<clock, lockRow, lease, forced, taken>>

nextInLine == Lowest(indices)

dequeue ==
  /\ indices # {}
  /\ taken' = Append(taken, listRows[nextInLine])
  /\ listRows' = [i \in indices \ {nextInLine} |-> listRows[i]]
  /\ UNCHANGED <<clock, lockRow, lease, forced, entered>>

Next ==
  \/ Tick \/ forceReleaseLock \/ cleanup \/ enqueue \/ dequeue
  \/ \E h \in Holders : acquireLock(h) \/ releaseLock(h) \/ extendLock(h)

Spec == Init /\ [][Next]_vars

----------------------------------------------------------------------------
(* Properties.                                                              *)

\* Two handlers never work under a lock that still runs, unless the first one
\* was taken by force: a late release or extension of an old token touches
\* nobody else's lock.
LockExclusive ==
  \A h, k \in Holders :
    (h # k /\ lease[h] >= clock /\ lease[k] >= clock) => {h, k} \cap forced # {}

\* The queue never holds more than its size, and what it holds and what was
\* served are in the order of entry, across the restart of the index at zero
\* after the queue ran empty.
QueueInOrder ==
  /\ Cardinality(indices) <= MaxSize
  /\ \A i, j \in indices : i < j => listRows[i] < listRows[j]
  /\ \A i \in 1..(Len(taken) - 1) : taken[i] < taken[i + 1]
  /\ \A i \in indices : taken # << >> => taken[Len(taken)] < listRows[i]

\* The channel's locks exclude and its queues keep order and size.
LocksAndQueues ==
  /\ TypeOK
  /\ LockExclusive
  /\ QueueInOrder
=============================================================================
