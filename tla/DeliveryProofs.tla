--------------------------- MODULE DeliveryProofs ---------------------------
(***************************************************************************)
(* Theorems about Delivery, for every set of sessions and messages, every  *)
(* concurrency and every retry limit, checked by TLAPS.                    *)
(***************************************************************************)
EXTENDS Delivery, FiniteSetTheorems, TLAPS

(***************************************************************************)
(* The inductive invariant.                                                *)
(***************************************************************************)
Busy(w) == pc[w] # "idle"

\* A row the running drain of w may still act on: nobody else will.
Owned(w, m) == m \in produced /\ SessionOf[m] = job[w]

\* What each place in drainFn knows.
WorkerOK(w) ==
    /\ pc[w] = "idle" => job[w] = NoSession /\ todo[w] = {}
    /\ Busy(w) => job[w] \in inflight
    /\ \A m \in todo[w] : Owned(w, m) /\ ~ Undeliverable(m)
    /\ pc[w] \in {"call", "accepted"} =>
          /\ cur[w] \in Messages
          /\ Owned(w, cur[w])
          /\ Sendable(cur[w])
          /\ ~ Undeliverable(cur[w])
          /\ cur[w] \notin todo[w]
    /\ pc[w] = "accepted" => shown[cur[w]] > 0
    /\ pc[w] \in {"marked", "progress"} =>
          cur[w] \in Messages /\ Owned(w, cur[w]) /\ row[cur[w]].status = "delivered"

\* The inflight guard: no two workers drain one session.
OneDrainPerSession ==
    \A v, w \in Workers : v # w /\ Busy(v) /\ Busy(w) => job[v] # job[w]

\* A row of the delivered table belongs to a produced message.
RowsOK ==
    \A m \in Messages :
        /\ row[m].status = "none" => row[m].retry = "null"
        /\ row[m].status # "none" => m \in produced
        /\ late[m] > 0 => m \in produced

\* Attachments stay on disk until the delivered row is durable.
FilesKept ==
    \A m \in produced \intersect WithFiles : row[m].status # "delivered" => m \in outbox

Inv ==
    /\ TypeOK
    /\ \A w \in Workers : WorkerOK(w)
    /\ OneDrainPerSession
    /\ RowsOK
    /\ FilesKept
    /\ AttachmentsTravel
    /\ DeliveredMeansShown

\* A worker belongs to one of the two poll loops.
LEMMA WorkerPoller == \A w \in Workers : w[1] \in Pollers
  BY DEF Workers

\* The fields of a delivered-table row after an update keep their types.
LEMMA RowUpdate ==
    ASSUME TypeOK, NEW m \in Messages
    PROVE  /\ row[m] \in Row
           /\ row[m].status \in {"none", "failed", "delivered"}
           /\ row[m].attempts \in 0 .. MaxAttempts
           /\ row[m].retry \in {"null", "waiting", "open"}
  BY DEF TypeOK, Row

-----------------------------------------------------------------------------
\* A fresh host with empty tables satisfies Inv.
LEMMA InitInv == Init => Inv
  <1> SUFFICES ASSUME Init PROVE Inv
    OBVIOUS
  <1>1. NoRow \in Row
    BY DeliveryAssumption DEF NoRow, Row
  <1>2. TypeOK
    BY <1>1 DEF Init, TypeOK
  <1>3. \A w \in Workers : WorkerOK(w)
    BY DEF Init, WorkerOK, Busy
  <1>4. OneDrainPerSession
    BY DEF Init, OneDrainPerSession, Busy
  <1>5. RowsOK /\ FilesKept /\ AttachmentsTravel /\ DeliveredMeansShown
    BY DEF Init, RowsOK, FilesKept, AttachmentsTravel, DeliveredMeansShown, NoRow
  <1> QED
    BY <1>2, <1>3, <1>4, <1>5 DEF Inv

\* A poll loop lists its sessions (pollActive, pollSweep).
LEMMA StartTickInv == ASSUME NEW p \in Pollers, Inv, StartTick(p) PROVE Inv'
  <1> USE DEF Inv
  <1>1. TypeOK'
    BY DEF TypeOK, StartTick, db, worker, history, bounds
  <1>2. (\A w \in Workers : WorkerOK(w))' /\ OneDrainPerSession'
    BY DEF StartTick, db, worker, history, bounds, WorkerOK, OneDrainPerSession, Busy, Owned, Undeliverable
  <1>3. (RowsOK /\ FilesKept /\ AttachmentsTravel /\ DeliveredMeansShown)'
    BY DEF StartTick, db, worker, history, bounds, RowsOK, FilesKept, AttachmentsTravel, DeliveredMeansShown
  <1> QED
    BY <1>1, <1>2, <1>3

\* drainSessionsBounded of one tick returns.
LEMMA EndTickInv == ASSUME NEW p \in Pollers, Inv, EndTick(p) PROVE Inv'
  <1> USE DEF Inv
  <1>1. TypeOK'
    BY DEF TypeOK, EndTick, db, worker, history, bounds
  <1>2. (\A w \in Workers : WorkerOK(w))' /\ OneDrainPerSession'
    BY DEF EndTick, db, worker, history, bounds, WorkerOK, OneDrainPerSession, Busy, Owned, Undeliverable
  <1>3. (RowsOK /\ FilesKept /\ AttachmentsTravel /\ DeliveredMeansShown)'
    BY DEF EndTick, db, worker, history, bounds, RowsOK, FilesKept, AttachmentsTravel, DeliveredMeansShown
  <1> QED
    BY <1>1, <1>2, <1>3

\* deliverSessionMessages takes the inflight guard and its snapshot.
LEMMA TakeSessionInv ==
    ASSUME NEW w \in Workers, NEW s \in Sessions, Inv, TakeSession(w, s) PROVE Inv'
  <1> USE DEF Inv
  <1>1. TypeOK'
    <2> DEFINE undelivered == {m \in DueOutbound(s) : ~ Undeliverable(m)}
    <2>1. undelivered \subseteq Messages
      BY DEF DueOutbound, TypeOK
    <2>2. w[1] \in Pollers
      BY WorkerPoller
    <2>3. queue' \in [Pollers -> SUBSET Sessions]
      BY <2>2 DEF TakeSession, TypeOK
    <2>4. todo' \in [Workers -> SUBSET Messages]
      <3> HIDE DEF undelivered
      <3> QED BY <2>1 DEF TakeSession, TypeOK, undelivered
    <2>5. /\ inflight' \subseteq Sessions
          /\ pc' \in [Workers -> {"idle", "loop", "call", "accepted", "marked", "progress", "notify"}]
          /\ job' \in [Workers -> Sessions \union {NoSession}]
      BY DEF TakeSession, TypeOK
    <2> QED
      BY <2>3, <2>4, <2>5 DEF TypeOK, TakeSession, db, history, bounds
  <1>2. ASSUME NEW v \in Workers PROVE WorkerOK(v)'
    BY DEF TypeOK, TakeSession, DueOutbound, db, history, bounds, WorkerOK, Busy, Owned, Undeliverable
  <1>3. OneDrainPerSession'
    BY DEF TypeOK, TakeSession, db, history, bounds, WorkerOK, OneDrainPerSession, Busy
  <1>4. (RowsOK /\ FilesKept /\ AttachmentsTravel /\ DeliveredMeansShown)'
    BY DEF TakeSession, db, history, bounds, RowsOK, FilesKept, AttachmentsTravel, DeliveredMeansShown
  <1> QED
    BY <1>1, <1>2, <1>3, <1>4

\* drainSession reaches its end and gives the guard back.
LEMMA FinishDrainInv == ASSUME NEW w \in Workers, Inv, FinishDrain(w) PROVE Inv'
  <1> USE DEF Inv
  <1>1. TypeOK'
    BY DEF TypeOK, FinishDrain, LeaveDrain, db, history, bounds
  <1>2. ASSUME NEW v \in Workers PROVE WorkerOK(v)'
    BY DEF TypeOK, FinishDrain, LeaveDrain, db, history, bounds, WorkerOK, OneDrainPerSession, Busy, Owned,
       Undeliverable
  <1>3. OneDrainPerSession'
    BY DEF TypeOK, FinishDrain, LeaveDrain, OneDrainPerSession, Busy
  <1>4. (RowsOK /\ FilesKept /\ AttachmentsTravel /\ DeliveredMeansShown)'
    BY DEF FinishDrain, db, history, bounds, RowsOK, FilesKept, AttachmentsTravel, DeliveredMeansShown
  <1> QED
    BY <1>1, <1>2, <1>3, <1>4

-----------------------------------------------------------------------------
\* The catch block, whatever led to it: the row is counted against the budget
\* (unless it is delivered already) and the drain ends or sends its notice.
LEMMA FailInv ==
    ASSUME NEW w \in Workers, NEW m \in Messages, Inv, Busy(w), Owned(w, m),
           ~ Undeliverable(m) \/ row[m].status = "delivered",
           Fail(w, m),
           late' \in [Messages -> Nat], \A n \in Messages : late'[n] > late[n] => n \in produced,
           UNCHANGED <<produced, deferred, outbox, phase, ticking, queue, history, bounds>>
    PROVE  Inv'
  <1> USE DEF Inv
  <1> DEFINE n == getDeliveryAttempts(m) + 1
  <1>1. row[m].status # "delivered" => n \in 0 .. MaxAttempts
    BY RowUpdate, DeliveryAssumption DEF getDeliveryAttempts, Undeliverable
  <1>2. /\ row' \in [Messages -> Row]
        /\ \A k \in Messages : k # m => row'[k] = row[k]
        /\ row[m].status = "delivered" => row'[m] = row[m]
        /\ row[m].status # "delivered" => row'[m].status = "failed"
    <2>1. PICK r \in {"null", "waiting"} : markDeliveryFailed(m, n, r)
      BY DEF Fail
    <2> HIDE DEF n
    <2>2. CASE row[m].status = "delivered"
      BY <2>1, <2>2 DEF markDeliveryFailed, TypeOK
    <2>3. CASE row[m].status # "delivered"
      <3>1. [status |-> "failed", attempts |-> n, retry |-> r] \in Row
        BY <1>1, <2>3 DEF Row
      <3> QED BY <2>1, <2>3, <3>1 DEF markDeliveryFailed, TypeOK
    <2> QED BY <2>2, <2>3
  <1>3. LeaveDrain(w) \/ Goto(w, m, "notify")
    BY DEF Fail
  <1> HIDE DEF n
  <1>4. TypeOK'
    BY <1>2, <1>3 DEF TypeOK, LeaveDrain, Goto, history, bounds
  <1>5. ASSUME NEW v \in Workers, v # w PROVE WorkerOK(v)'
    <2>1. pc'[v] = pc[v] /\ job'[v] = job[v] /\ todo'[v] = todo[v] /\ cur'[v] = cur[v]
      BY <1>3, <1>5 DEF LeaveDrain, Goto, TypeOK
    <2>2. Busy(v) => job[v] # job[w] /\ job[v] \in inflight'
      BY <1>3, <1>5 DEF LeaveDrain, Goto, OneDrainPerSession, WorkerOK
    <2>3. \A k \in Messages : Busy(v) /\ Owned(v, k) => row'[k] = row[k]
      BY <1>2, <2>2 DEF Owned
    <2> QED
      BY <2>1, <2>2, <2>3 DEF WorkerOK, Busy, Owned, Undeliverable, history, TypeOK
  <1>6. WorkerOK(w)'
    <2>1. CASE LeaveDrain(w)
      BY <2>1 DEF LeaveDrain, WorkerOK, Busy, TypeOK
    <2>2. CASE Goto(w, m, "notify")
      <3>1. \A k \in todo'[w] : k \in Messages /\ row'[k] = row[k] /\ k \in todo[w]
        BY <1>2, <2>2 DEF Goto, TypeOK
      <3> QED
        BY <2>2, <3>1 DEF Goto, WorkerOK, Busy, Owned, Undeliverable, TypeOK
    <2> QED BY <1>3, <2>1, <2>2
  <1>7. OneDrainPerSession'
    BY <1>3 DEF LeaveDrain, Goto, OneDrainPerSession, Busy, TypeOK
  <1>8. RowsOK'
    BY <1>2 DEF RowsOK, Owned, TypeOK, Row
  <1>9. FilesKept' /\ AttachmentsTravel' /\ DeliveredMeansShown'
    BY <1>2 DEF FilesKept, AttachmentsTravel, DeliveredMeansShown, history, TypeOK, Sendable
  <1> QED
    BY <1>4, <1>5, <1>6, <1>7, <1>8, <1>9

\* What a worker about to handle its next row knows of it.
LEMMA NextRow ==
    ASSUME NEW w \in Workers, NEW m \in Messages, Inv, IsNext(w, m)
    PROVE  Busy(w) /\ Owned(w, m) /\ ~ Undeliverable(m) /\ m \in todo[w]
  BY DEF Inv, WorkerOK, IsNext, Busy

\* parseOutboundContent or a permission check refuses the row.
LEMMA RefuseInv ==
    ASSUME NEW w \in Workers, NEW m \in Messages, Inv, Refuse(w, m) PROVE Inv'
  <1>1. IsNext(w, m) /\ Fail(w, m)
    BY DEF Refuse
  <1>2. late' = late /\ late \in [Messages -> Nat]
    BY DEF Refuse, Inv, TypeOK
  <1>3. UNCHANGED <<produced, deferred, outbox, phase, ticking, queue, history, bounds>>
    BY DEF Refuse
  <1> QED
    BY <1>1, <1>2, <1>3, NextRow, FailInv

\* An adapter call rejects.
LEMMA CallFailsInv == ASSUME NEW w \in Workers, Inv, CallFails(w) PROVE Inv'
  <1>1. /\ cur[w] \in Messages /\ Busy(w) /\ Owned(w, cur[w]) /\ ~ Undeliverable(cur[w])
        /\ Fail(w, cur[w])
    BY DEF CallFails, Inv, WorkerOK, Busy
  <1>2. late' = late /\ late \in [Messages -> Nat]
    BY DEF CallFails, Inv, TypeOK
  <1>3. UNCHANGED <<produced, deferred, outbox, phase, ticking, queue, history, bounds>>
    BY DEF CallFails
  <1> QED
    BY <1>1, <1>2, <1>3, FailInv

\* The delivery timeout abandons a call, which may still take effect.
LEMMA CallTimesOutInv == ASSUME NEW w \in Workers, Inv, CallTimesOut(w) PROVE Inv'
  <1>1. /\ cur[w] \in Messages /\ Busy(w) /\ Owned(w, cur[w]) /\ ~ Undeliverable(cur[w])
        /\ Fail(w, cur[w])
    BY DEF CallTimesOut, Inv, WorkerOK, Busy
  <1>2. /\ late' \in [Messages -> Nat]
        /\ \A n \in Messages : late'[n] > late[n] => n \in produced
    BY <1>1 DEF CallTimesOut, Inv, TypeOK, Owned
  <1>3. UNCHANGED <<produced, deferred, outbox, phase, ticking, queue, history, bounds>>
    BY DEF CallTimesOut
  <1> QED
    BY <1>1, <1>2, <1>3, FailInv

\* The catch block runs for a row that is already delivered.
LEMMA ProgressThrowsInv == ASSUME NEW w \in Workers, Inv, ProgressThrows(w) PROVE Inv'
  <1>1. /\ cur[w] \in Messages /\ Busy(w) /\ Owned(w, cur[w])
        /\ row[cur[w]].status = "delivered" /\ Fail(w, cur[w])
    BY DEF ProgressThrows, Inv, WorkerOK, Busy
  <1>2. late' = late /\ late \in [Messages -> Nat]
    BY DEF ProgressThrows, Inv, TypeOK
  <1>3. UNCHANGED <<produced, deferred, outbox, phase, ticking, queue, history, bounds>>
    BY DEF ProgressThrows
  <1> QED
    BY <1>1, <1>2, <1>3, FailInv

\* A row is recorded as delivered by the worker that owns it.
LEMMA MarkInv ==
    ASSUME NEW w \in Workers, NEW m \in Messages, Inv, Busy(w), Owned(w, m),
           m \in todo[w] \/ m = cur[w],
           Sendable(m) => shown[m] > 0,
           markDelivered(m),
           NEW place \in {"loop", "marked"}, Goto(w, m, place),
           UNCHANGED <<produced, deferred, outbox, phase, ticking, queue, late, history, bounds>>
    PROVE  Inv'
  <1> USE DEF Inv
  <1>1. /\ row' \in [Messages -> Row]
        /\ \A k \in Messages : k # m => row'[k] = row[k]
        /\ row'[m].status = "delivered" /\ row'[m].retry = row[m].retry
    BY RowUpdate DEF markDelivered, TypeOK, Row
  <1>2. TypeOK'
    BY <1>1 DEF TypeOK, Goto, history, bounds
  <1>3. ASSUME NEW v \in Workers, v # w PROVE WorkerOK(v)'
    <2>1. pc'[v] = pc[v] /\ job'[v] = job[v] /\ todo'[v] = todo[v] /\ cur'[v] = cur[v]
      BY <1>3 DEF Goto, TypeOK
    <2>2. Busy(v) => job[v] # job[w] /\ job[v] \in inflight'
      BY <1>3 DEF Goto, OneDrainPerSession, WorkerOK
    <2>3. \A k \in Messages : Busy(v) /\ Owned(v, k) => row'[k] = row[k]
      BY <1>1, <2>2 DEF Owned
    <2> QED
      BY <2>1, <2>2, <2>3 DEF WorkerOK, Busy, Owned, Undeliverable, history, TypeOK
  <1>4. WorkerOK(w)'
    <2>1. /\ pc'[w] = place /\ job'[w] = job[w] /\ cur'[w] = m
          /\ todo'[w] = todo[w] \ {m} /\ inflight' = inflight
      BY DEF Goto, TypeOK
    <2>2. \A k \in todo'[w] : k \in Messages /\ row'[k] = row[k] /\ k \in todo[w]
      BY <1>1, <2>1 DEF TypeOK
    <2> QED
      BY <1>1, <2>1, <2>2 DEF WorkerOK, Busy, Owned, Undeliverable
  <1>5. OneDrainPerSession'
    BY DEF Goto, OneDrainPerSession, Busy, TypeOK
  <1>6. RowsOK'
    BY <1>1 DEF RowsOK, Owned, TypeOK
  <1>7. FilesKept' /\ AttachmentsTravel' /\ DeliveredMeansShown'
    BY <1>1 DEF FilesKept, AttachmentsTravel, DeliveredMeansShown, history, TypeOK, Sendable
  <1> QED
    BY <1>2, <1>3, <1>4, <1>5, <1>6, <1>7

\* A usage row is skipped.
LEMMA SkipUsageInv ==
    ASSUME NEW w \in Workers, NEW m \in Messages, Inv, SkipUsage(w, m) PROVE Inv'
  <1>1. IsNext(w, m) /\ markDelivered(m) /\ Goto(w, m, "loop") /\ ~ Sendable(m)
    BY DEF SkipUsage, Sendable
  <1>2. UNCHANGED <<produced, deferred, outbox, phase, ticking, queue, late, history, bounds>>
    BY DEF SkipUsage
  <1> QED
    BY <1>1, <1>2, NextRow, MarkInv

\* A row without a route is dropped.
LEMMA DropUnroutedInv ==
    ASSUME NEW w \in Workers, NEW m \in Messages, Inv, DropUnrouted(w, m) PROVE Inv'
  <1>1. IsNext(w, m) /\ markDelivered(m) /\ Goto(w, m, "marked") /\ ~ Sendable(m)
    BY DEF DropUnrouted, Sendable
  <1>2. UNCHANGED <<produced, deferred, outbox, phase, ticking, queue, late, history, bounds>>
    BY DEF DropUnrouted
  <1> QED
    BY <1>1, <1>2, NextRow, MarkInv

\* The adapter's success is recorded.
LEMMA RecordDeliveredInv == ASSUME NEW w \in Workers, Inv, RecordDelivered(w) PROVE Inv'
  <1>1. /\ cur[w] \in Messages /\ Busy(w) /\ Owned(w, cur[w]) /\ shown[cur[w]] > 0
        /\ cur[w] \notin todo[w] /\ markDelivered(cur[w])
    BY DEF RecordDelivered, Inv, WorkerOK, Busy
  <1>2. Goto(w, cur[w], "marked")
    BY <1>1 DEF RecordDelivered, Goto, host, Inv, TypeOK
  <1>3. UNCHANGED <<produced, deferred, outbox, phase, ticking, queue, late, history, bounds>>
    BY DEF RecordDelivered, host
  <1> QED
    BY <1>1, <1>2, <1>3, MarkInv

-----------------------------------------------------------------------------
\* The send begins: the files are still there, because the row is not delivered.
LEMMA BeginSendInv ==
    ASSUME NEW w \in Workers, NEW m \in Messages, Inv, BeginSend(w, m) PROVE Inv'
  <1> USE DEF Inv
  <1>1. Busy(w) /\ Owned(w, m) /\ ~ Undeliverable(m) /\ m \in todo[w]
    BY NextRow DEF BeginSend
  <1>2. TypeOK'
    BY DEF TypeOK, BeginSend, Goto, db, bounds
  <1>3. ASSUME NEW v \in Workers PROVE WorkerOK(v)'
    BY <1>1 DEF BeginSend, Goto, db, WorkerOK, Busy, Owned, Undeliverable, TypeOK
  <1>4. OneDrainPerSession'
    BY <1>1 DEF BeginSend, Goto, OneDrainPerSession, Busy, TypeOK
  <1>5. m \in WithFiles => m \in outbox
    BY <1>1 DEF FilesKept, Owned, Undeliverable
  <1>6. (RowsOK /\ FilesKept /\ AttachmentsTravel /\ DeliveredMeansShown)'
    BY <1>5 DEF BeginSend, db, RowsOK, FilesKept, AttachmentsTravel, DeliveredMeansShown
  <1> QED
    BY <1>2, <1>3, <1>4, <1>6

\* The platform performs the send.
LEMMA AcceptInv == ASSUME NEW w \in Workers, Inv, Accept(w) PROVE Inv'
  <1> USE DEF Inv
  <1>1. cur[w] \in Messages /\ Busy(w)
    BY DEF Accept, WorkerOK, Busy
  <1>2. /\ shown' \in [Messages -> Nat]
        /\ shown'[cur[w]] > 0
        /\ \A m \in Messages : shown[m] > 0 => shown'[m] > 0
    BY <1>1 DEF Accept, TypeOK
  <1>3. TypeOK'
    BY <1>2 DEF TypeOK, Accept, db, host, bounds
  <1>4. ASSUME NEW v \in Workers PROVE WorkerOK(v)'
    BY <1>1, <1>2 DEF Accept, db, host, WorkerOK, Busy, Owned, Undeliverable, TypeOK
  <1>5. OneDrainPerSession'
    BY <1>1 DEF Accept, OneDrainPerSession, Busy, TypeOK
  <1>6. (RowsOK /\ FilesKept /\ AttachmentsTravel /\ DeliveredMeansShown)'
    BY <1>2 DEF Accept, db, RowsOK, FilesKept, AttachmentsTravel, DeliveredMeansShown
  <1> QED
    BY <1>3, <1>4, <1>5, <1>6

\* The attachments are removed once the row is durable.
LEMMA ClearOutboxInv == ASSUME NEW w \in Workers, Inv, ClearOutbox(w) PROVE Inv'
  <1> USE DEF Inv
  <1>1. Busy(w) /\ row[cur[w]].status = "delivered"
    BY DEF ClearOutbox, WorkerOK, Busy
  <1>2. TypeOK'
    BY DEF TypeOK, ClearOutbox, host, history, bounds
  <1>3. PICK place \in {"progress", "loop"} : pc' = [pc EXCEPT ![w] = place]
    BY DEF ClearOutbox
  <1>4. ASSUME NEW v \in Workers PROVE WorkerOK(v)'
    BY <1>3 DEF ClearOutbox, host, history, WorkerOK, Busy, Owned, Undeliverable, TypeOK
  <1>5. OneDrainPerSession'
    BY <1>1, <1>3 DEF ClearOutbox, OneDrainPerSession, Busy, TypeOK
  <1>6. (RowsOK /\ FilesKept /\ AttachmentsTravel /\ DeliveredMeansShown)'
    BY <1>1 DEF ClearOutbox, history, RowsOK, FilesKept, AttachmentsTravel, DeliveredMeansShown
  <1> QED
    BY <1>2, <1>4, <1>5, <1>6

\* The progress reaction is removed, or was already.
LEMMA ProgressReturnsInv == ASSUME NEW w \in Workers, Inv, ProgressReturns(w) PROVE Inv'
  <1> USE DEF Inv
  <1>1. TypeOK'
    BY DEF TypeOK, ProgressReturns, db, host, history, bounds
  <1>2. ASSUME NEW v \in Workers PROVE WorkerOK(v)'
    BY DEF ProgressReturns, db, host, history, WorkerOK, Busy, Owned, Undeliverable, TypeOK
  <1>3. OneDrainPerSession'
    BY DEF ProgressReturns, OneDrainPerSession, Busy, TypeOK
  <1>4. (RowsOK /\ FilesKept /\ AttachmentsTravel /\ DeliveredMeansShown)'
    BY DEF ProgressReturns, db, history, RowsOK, FilesKept, AttachmentsTravel, DeliveredMeansShown
  <1> QED
    BY <1>1, <1>2, <1>3, <1>4

\* The permanent-failure notice returns.
LEMMA NotifyReturnsInv == ASSUME NEW w \in Workers, Inv, NotifyReturns(w) PROVE Inv'
  <1> USE DEF Inv
  <1>1. TypeOK'
    BY DEF TypeOK, NotifyReturns, LeaveDrain, db, history, bounds
  <1>2. ASSUME NEW v \in Workers PROVE WorkerOK(v)'
    BY DEF TypeOK, NotifyReturns, LeaveDrain, db, history, bounds, WorkerOK, OneDrainPerSession, Busy, Owned,
       Undeliverable
  <1>3. OneDrainPerSession'
    BY DEF TypeOK, NotifyReturns, LeaveDrain, OneDrainPerSession, Busy
  <1>4. (RowsOK /\ FilesKept /\ AttachmentsTravel /\ DeliveredMeansShown)'
    BY DEF NotifyReturns, db, history, bounds, RowsOK, FilesKept, AttachmentsTravel, DeliveredMeansShown
  <1> QED
    BY <1>1, <1>2, <1>3, <1>4

-----------------------------------------------------------------------------
\* A container appends a row.
LEMMA ProduceInv == ASSUME NEW m \in Messages, Inv, Produce(m) PROVE Inv'
  <1> USE DEF Inv
  <1>1. TypeOK'
    BY DEF TypeOK, Produce, host, worker, history, bounds
  <1>2. (\A w \in Workers : WorkerOK(w))' /\ OneDrainPerSession'
    BY DEF Produce, host, worker, history, WorkerOK, OneDrainPerSession, Busy, Owned, Undeliverable
  <1>3. (RowsOK /\ FilesKept /\ AttachmentsTravel /\ DeliveredMeansShown)'
    BY DEF Produce, history, RowsOK, FilesKept, AttachmentsTravel, DeliveredMeansShown
  <1> QED
    BY <1>1, <1>2, <1>3

\* A deferred row becomes due.
LEMMA DeliverAfterInv == ASSUME NEW m \in Messages, Inv, DeliverAfterPasses(m) PROVE Inv'
  <1> USE DEF Inv
  <1>1. TypeOK'
    BY DEF TypeOK, DeliverAfterPasses, host, worker, history, bounds
  <1>2. (\A w \in Workers : WorkerOK(w))' /\ OneDrainPerSession'
    BY DEF DeliverAfterPasses, host, worker, history, WorkerOK, OneDrainPerSession, Busy, Owned, Undeliverable
  <1>3. (RowsOK /\ FilesKept /\ AttachmentsTravel /\ DeliveredMeansShown)'
    BY DEF DeliverAfterPasses, history, RowsOK, FilesKept, AttachmentsTravel, DeliveredMeansShown
  <1> QED
    BY <1>1, <1>2, <1>3

\* The table changes under the drains' feet without becoming less deliverable:
\* a retry time passes, or an operator requeues a dead letter.
LEMMA ReopenInv ==
    ASSUME NEW m \in Messages, Inv, row[m].status # "none",
           row' \in [Messages -> Row],
           \A k \in Messages : /\ row'[k].status = row[k].status
                               /\ row'[k].status = "none" => row'[k] = row[k]
                               /\ ~ Undeliverable(k) => ~ Undeliverable(k)',
           UNCHANGED <<produced, deferred, outbox, host, worker, late, history, stops>>,
           requeues' \in [Messages -> Nat]
    PROVE  Inv'
  <1> USE DEF Inv
  <1>1. TypeOK'
    BY DEF TypeOK, host, worker, history
  <1>2. (\A w \in Workers : WorkerOK(w))'
    <2> SUFFICES ASSUME NEW w \in Workers PROVE WorkerOK(w)'
      OBVIOUS
    <2>1. todo[w] \subseteq Messages
      BY DEF TypeOK
    <2> QED
      BY <2>1 DEF host, worker, history, WorkerOK, Busy, Owned, Undeliverable
  <1>3. OneDrainPerSession'
    BY DEF host, worker, OneDrainPerSession, Busy
  <1>4. (RowsOK /\ FilesKept /\ AttachmentsTravel /\ DeliveredMeansShown)'
    BY DEF history, RowsOK, FilesKept, AttachmentsTravel, DeliveredMeansShown, TypeOK, Row, Sendable
  <1> QED
    BY <1>1, <1>2, <1>3, <1>4

\* A retry time passes.
LEMMA RetryWindowInv == ASSUME NEW m \in Messages, Inv, RetryWindowOpens(m) PROVE Inv'
  <1> USE DEF Inv
  <1>1. row[m].status # "none"
    BY DEF RowsOK, RetryWindowOpens
  <1>2. row' \in [Messages -> Row]
    BY DEF RetryWindowOpens, TypeOK, Row
  <1>3. \A k \in Messages : /\ row'[k].status = row[k].status
                            /\ row'[k].status = "none" => row'[k] = row[k]
                            /\ ~ Undeliverable(k) => ~ Undeliverable(k)'
    BY <1>1 DEF RetryWindowOpens, TypeOK, Row, Undeliverable
  <1>4. /\ UNCHANGED <<produced, deferred, outbox, host, worker, late, history, stops>>
        /\ requeues' \in [Messages -> Nat]
    BY DEF RetryWindowOpens, TypeOK, bounds
  <1> QED
    BY <1>1, <1>2, <1>3, <1>4, ReopenInv

\* An operator requeues a dead letter.
LEMMA RequeueInv == ASSUME NEW m \in Messages, Inv, requeueFailedDelivery(m) PROVE Inv'
  <1> USE DEF Inv
  <1>1. row[m].status # "none"
    BY DEF requeueFailedDelivery
  <1>2. row' \in [Messages -> Row]
    BY DeliveryAssumption DEF requeueFailedDelivery, TypeOK, Row
  <1>3. \A k \in Messages : /\ row'[k].status = row[k].status
                            /\ row'[k].status = "none" => row'[k] = row[k]
                            /\ ~ Undeliverable(k) => ~ Undeliverable(k)'
    BY <1>1, DeliveryAssumption DEF requeueFailedDelivery, TypeOK, Row, Undeliverable
  <1>4. /\ UNCHANGED <<produced, deferred, outbox, host, worker, late, history, stops>>
        /\ requeues' \in [Messages -> Nat]
    BY DEF requeueFailedDelivery, TypeOK
  <1> QED
    BY <1>1, <1>2, <1>3, <1>4, ReopenInv

\* A call nobody waits for takes effect.
LEMMA LateAcceptInv == ASSUME NEW m \in Messages, Inv, LateAccept(m) PROVE Inv'
  <1> USE DEF Inv
  <1>1. /\ shown' \in [Messages -> Nat] /\ late' \in [Messages -> Nat]
        /\ \A k \in Messages : (shown[k] > 0 => shown'[k] > 0) /\ (late'[k] > 0 => late[k] > 0)
    BY DEF LateAccept, TypeOK
  <1>2. TypeOK'
    BY <1>1 DEF TypeOK, LateAccept, db, host, worker, bounds
  <1>3. (\A w \in Workers : WorkerOK(w))' /\ OneDrainPerSession'
    BY <1>1 DEF LateAccept, db, host, worker, WorkerOK, OneDrainPerSession, Busy, Owned, Undeliverable
  <1>4. (RowsOK /\ FilesKept /\ AttachmentsTravel /\ DeliveredMeansShown)'
    BY <1>1 DEF LateAccept, db, RowsOK, FilesKept, AttachmentsTravel, DeliveredMeansShown
  <1> QED
    BY <1>2, <1>3, <1>4

\* The polls are flagged off (stopDeliveryPolls).
LEMMA StopPollsInv == ASSUME Inv, stopDeliveryPolls PROVE Inv'
  <1> USE DEF Inv
  <1>1. TypeOK'
    BY DEF TypeOK, stopDeliveryPolls, db, worker, history, bounds
  <1>2. (\A w \in Workers : WorkerOK(w))' /\ OneDrainPerSession'
    BY DEF stopDeliveryPolls, db, worker, history, WorkerOK, OneDrainPerSession, Busy, Owned, Undeliverable
  <1>3. (RowsOK /\ FilesKept /\ AttachmentsTravel /\ DeliveredMeansShown)'
    BY DEF stopDeliveryPolls, db, history, RowsOK, FilesKept, AttachmentsTravel, DeliveredMeansShown
  <1> QED
    BY <1>1, <1>2, <1>3

\* The service manager starts the host again.
LEMMA RestartInv == ASSUME Inv, Restart PROVE Inv'
  <1> USE DEF Inv
  <1>1. TypeOK'
    BY DEF TypeOK, Restart, db, worker, history, bounds
  <1>2. (\A w \in Workers : WorkerOK(w))' /\ OneDrainPerSession'
    BY DEF Restart, db, worker, history, WorkerOK, OneDrainPerSession, Busy, Owned, Undeliverable
  <1>3. (RowsOK /\ FilesKept /\ AttachmentsTravel /\ DeliveredMeansShown)'
    BY DEF Restart, db, history, RowsOK, FilesKept, AttachmentsTravel, DeliveredMeansShown
  <1> QED
    BY <1>1, <1>2, <1>3

\* The pool is finite, so the calls under way at a stop can be counted.
LEMMA CallsUnderWay ==
    ASSUME NEW S \in SUBSET Workers
    PROVE  IsFiniteSet(S) /\ Cardinality(S) \in Nat /\ (Cardinality(S) = 0 <=> S = {})
  <1>1. IsFiniteSet(1 .. Concurrency)
    BY DeliveryAssumption, FS_Interval
  <1>2. IsFiniteSet(Pollers)
    <2>1. IsFiniteSet({"active"}) /\ Pollers = {"active"} \union {"sweep"}
      BY FS_Singleton DEF Pollers
    <2> QED
      BY <2>1, FS_AddElement
  <1>3. IsFiniteSet(Workers)
    BY <1>1, <1>2, FS_Product DEF Workers
  <1> QED
    BY <1>3, FS_Subset, FS_CardinalityType, FS_EmptySet

\* The process ends: calls under way become calls nobody waits for.
LEMMA StopInv == ASSUME Inv, Stop PROVE Inv'
  <1> USE DEF Inv
  <1> DEFINE callers(m) == {w \in Workers : pc[w] = "call" /\ cur[w] = m}
  <1>1. \A m \in Messages : /\ Cardinality(callers(m)) \in Nat
                            /\ Cardinality(callers(m)) > 0 => callers(m) # {}
    <2> SUFFICES ASSUME NEW m \in Messages
                 PROVE  /\ Cardinality(callers(m)) \in Nat
                        /\ Cardinality(callers(m)) > 0 => callers(m) # {}
      OBVIOUS
    <2>1. callers(m) \in SUBSET Workers
      OBVIOUS
    <2> HIDE DEF callers
    <2> QED
      BY <2>1, CallsUnderWay
  <1>2. \A m \in Messages : callers(m) # {} => m \in produced
    BY DEF WorkerOK, Owned
  <1>3. late' = [m \in Messages |-> late[m] + Cardinality(callers(m))]
    BY DEF Stop
  <1> HIDE DEF callers
  <1>4. /\ late' \in [Messages -> Nat]
        /\ \A m \in Messages : late'[m] > 0 => m \in produced
    BY <1>1, <1>2, <1>3 DEF TypeOK, RowsOK
  <1>5. TypeOK'
    BY <1>4 DEF TypeOK, Stop, db, history
  <1>6. (\A w \in Workers : WorkerOK(w))' /\ OneDrainPerSession'
    BY DEF Stop, WorkerOK, OneDrainPerSession, Busy
  <1>7. (RowsOK /\ FilesKept /\ AttachmentsTravel /\ DeliveredMeansShown)'
    BY <1>4 DEF Stop, db, history, RowsOK, FilesKept, AttachmentsTravel, DeliveredMeansShown
  <1> QED
    BY <1>5, <1>6, <1>7

-----------------------------------------------------------------------------
\* Inv is inductive.
LEMMA NextInv == Inv /\ [Next]_vars => Inv'
  <1> SUFFICES ASSUME Inv, [Next]_vars PROVE Inv'
    OBVIOUS
  <1>1. ASSUME NEW p \in Pollers, StartTick(p) \/ EndTick(p) PROVE Inv'
    BY <1>1, StartTickInv, EndTickInv
  <1>2. ASSUME NEW w \in Workers, TimedStep(w) PROVE Inv'
    <2>1. ASSUME NEW s \in Sessions, TakeSession(w, s) PROVE Inv'
      BY <2>1, TakeSessionInv
    <2>2. ASSUME NEW m \in Messages,
                 SkipUsage(w, m) \/ Refuse(w, m) \/ DropUnrouted(w, m) \/ BeginSend(w, m)
          PROVE  Inv'
      BY <2>2, SkipUsageInv, RefuseInv, DropUnroutedInv, BeginSendInv
    <2> QED
      BY <1>2, <2>1, <2>2, AcceptInv, CallFailsInv, CallTimesOutInv, RecordDeliveredInv,
         ClearOutboxInv, FinishDrainInv DEF TimedStep
  <1>3. ASSUME NEW w \in Workers, UntimedStep(w) PROVE Inv'
    BY <1>3, ProgressReturnsInv, ProgressThrowsInv, NotifyReturnsInv DEF UntimedStep
  <1>4. ASSUME Environment PROVE Inv'
    BY <1>4, ProduceInv, DeliverAfterInv, RetryWindowInv, LateAcceptInv, RequeueInv,
       StopPollsInv, StopInv, RestartInv DEF Environment
  <1>5. CASE UNCHANGED vars
    <2>1. TypeOK'
      BY <1>5 DEF Inv, TypeOK, vars, db, host, worker, history, bounds
    <2>2. (\A w \in Workers : WorkerOK(w))' /\ OneDrainPerSession'
      BY <1>5 DEF Inv, vars, db, host, worker, history, bounds, WorkerOK, OneDrainPerSession, Busy, Owned,
         Undeliverable
    <2>3. (RowsOK /\ FilesKept /\ AttachmentsTravel /\ DeliveredMeansShown)'
      BY <1>5 DEF Inv, vars, db, history, RowsOK, FilesKept, AttachmentsTravel, DeliveredMeansShown
    <2> QED
      BY <2>1, <2>2, <2>3 DEF Inv
  <1> QED
    BY <1>1, <1>2, <1>3, <1>4, <1>5 DEF Next

\* Inv holds in every reachable state.
THEOREM Invariance == Spec => []Inv
  BY InitInv, NextInv, PTL DEF Spec

\* Type correctness of the drain, for any number of sessions, rows and workers.
THEOREM TypeCorrect == Spec => []TypeOK
  <1>1. Inv => TypeOK
    BY DEF Inv
  <1> QED
    BY <1>1, Invariance, PTL

\* No row of the delivered table claims a send that did not happen.
THEOREM NoPhantomDelivery == Spec => []DeliveredMeansShown
  <1>1. Inv => DeliveredMeansShown
    BY DEF Inv
  <1> QED
    BY <1>1, Invariance, PTL

\* No message reaches the adapter without its attachments.
THEOREM NoBareSend == Spec => []AttachmentsTravel
  <1>1. Inv => AttachmentsTravel
    BY DEF Inv
  <1> QED
    BY <1>1, Invariance, PTL

-----------------------------------------------------------------------------
\* Only the start of a send counts a call.
LEMMA CallsStep ==
    ASSUME Inv, [Next]_vars, NEW m \in Messages, Undeliverable(m)
    PROVE  calls'[m] = calls[m]
  <1>1. ASSUME NEW w \in Workers, NEW n \in Messages, BeginSend(w, n) PROVE calls'[m] = calls[m]
    <2>1. n # m
      BY <1>1, NextRow DEF BeginSend
    <2> QED
      BY <1>1, <2>1 DEF BeginSend, Inv, TypeOK
  <1>2. ASSUME NEW w \in Workers, TimedStep(w) PROVE calls'[m] = calls[m]
    BY <1>1, <1>2 DEF TimedStep, TakeSession, SkipUsage, Refuse, DropUnrouted, Accept, CallFails,
       CallTimesOut, RecordDelivered, ClearOutbox, FinishDrain, history
  <1>3. ASSUME NEW w \in Workers, UntimedStep(w) PROVE calls'[m] = calls[m]
    BY <1>3 DEF UntimedStep, ProgressReturns, ProgressThrows, NotifyReturns, history
  <1>4. ASSUME NEW p \in Pollers, StartTick(p) \/ EndTick(p) PROVE calls'[m] = calls[m]
    BY <1>4 DEF StartTick, EndTick, history
  <1>5. ASSUME Environment PROVE calls'[m] = calls[m]
    BY <1>5 DEF Environment, Produce, DeliverAfterPasses, RetryWindowOpens, LateAccept,
       requeueFailedDelivery, stopDeliveryPolls, Stop, Restart, history
  <1> QED
    BY <1>2, <1>3, <1>4, <1>5 DEF Next, vars, history

\* A message that is delivered, dead-lettered or inside its backoff window is
\* never handed to the adapter, however many drains, sessions and workers run.
THEOREM NoResendAtRest == Spec => NeverResentAtRest
  <1>1. Inv /\ [Next]_vars => [\A m \in Messages : Undeliverable(m) => calls'[m] = calls[m]]_vars
    BY CallsStep
  <1> QED
    BY <1>1, Invariance, PTL DEF Spec, NeverResentAtRest

-----------------------------------------------------------------------------
\* What the catch block does to the table.
LEMMA FailRow ==
    ASSUME NEW w \in Workers, NEW m \in Messages, TypeOK, Fail(w, m)
    PROVE  /\ \A k \in Messages : k # m => row'[k] = row[k]
           /\ row[m].status = "delivered" => row' = row
           /\ row[m].status # "delivered" =>
                 row'[m].status = "failed" /\ row'[m].retry \in {"null", "waiting"}
  <1>1. PICK n \in {getDeliveryAttempts(m) + 1}, r \in {"null", "waiting"} :
            markDeliveryFailed(m, n, r)
    BY DEF Fail
  <1> QED
    BY <1>1 DEF markDeliveryFailed, TypeOK

\* Each step's effect on the table, on the produced rows and on the copies:
\* nothing, or one of five changes of one message.
TableQuiet == UNCHANGED <<row, produced, shown>>

Produced(m) == m \notin produced /\ produced' = produced \union {m} /\ UNCHANGED <<row, shown>>

Copied(m) == m \in produced /\ shown' = [shown EXCEPT ![m] = @ + 1] /\ UNCHANGED <<row, produced>>

Others(m) == /\ m \in produced
             /\ \A k \in Messages : k # m => row'[k] = row[k]
             /\ UNCHANGED <<produced, shown>>

Marked(m) == /\ Others(m) /\ ~ Undeliverable(m) /\ row'[m].status = "delivered"
             /\ Sendable(m) => shown[m] > 0

Failed(m) == /\ Others(m) /\ ~ Undeliverable(m)
             /\ row'[m].status = "failed" /\ row'[m].retry \in {"null", "waiting"}

Reopened(m) == /\ Others(m) /\ row[m].status # "none"
               /\ row'[m].status = row[m].status /\ row'[m].retry = "open"

TableStep ==
    \/ TableQuiet
    \/ \E m \in Messages :
          Produced(m) \/ Copied(m) \/ Marked(m) \/ Failed(m) \/ Reopened(m)

\* The catch block of a worker that owns the row.
LEMMA FailTable ==
    ASSUME NEW w \in Workers, NEW m \in Messages, Inv, Owned(w, m), Fail(w, m),
           ~ Undeliverable(m) \/ row[m].status = "delivered",
           UNCHANGED <<produced, history>>
    PROVE  TableStep
  <1>1. CASE row[m].status = "delivered"
    BY <1>1, FailRow DEF TableStep, TableQuiet, history, Inv
  <1>2. CASE row[m].status # "delivered"
    BY <1>2, FailRow DEF TableStep, Failed, Others, Owned, history, Inv
  <1> QED
    BY <1>1, <1>2

\* Recording a success by the worker that owns the row.
LEMMA MarkTable ==
    ASSUME NEW w \in Workers, NEW m \in Messages, Inv, Owned(w, m), markDelivered(m),
           ~ Undeliverable(m), Sendable(m) => shown[m] > 0,
           UNCHANGED <<produced, history>>
    PROVE  TableStep
  <1>1. row'[m].status = "delivered" /\ \A k \in Messages : k # m => row'[k] = row[k]
    BY DEF markDelivered, Inv, TypeOK, Row
  <1>2. Marked(m)
    BY <1>1 DEF Marked, Others, Owned, history
  <1> QED
    BY <1>2 DEF TableStep

\* Every step changes the table in one of these ways.
LEMMA NextTable == Inv /\ [Next]_vars => TableStep
  <1> SUFFICES ASSUME Inv, [Next]_vars PROVE TableStep
    OBVIOUS
  <1>1. ASSUME NEW p \in Pollers, StartTick(p) \/ EndTick(p) PROVE TableStep
    BY <1>1 DEF StartTick, EndTick, db, history, TableStep, TableQuiet
  <1>2. ASSUME NEW w \in Workers, NEW m \in Messages, SkipUsage(w, m) \/ DropUnrouted(w, m)
        PROVE  TableStep
    BY <1>2, NextRow, MarkTable DEF SkipUsage, DropUnrouted, Sendable
  <1>3. ASSUME NEW w \in Workers, NEW m \in Messages, Refuse(w, m) PROVE TableStep
    BY <1>3, NextRow, FailTable DEF Refuse
  <1>4. ASSUME NEW w \in Workers, CallFails(w) \/ CallTimesOut(w) PROVE TableStep
    <2>1. /\ cur[w] \in Messages /\ Owned(w, cur[w]) /\ ~ Undeliverable(cur[w])
          /\ Fail(w, cur[w]) /\ UNCHANGED <<produced, history>>
      BY <1>4 DEF CallFails, CallTimesOut, Inv, WorkerOK
    <2> QED BY <2>1, FailTable
  <1>5. ASSUME NEW w \in Workers, ProgressThrows(w) PROVE TableStep
    <2>1. /\ cur[w] \in Messages /\ Owned(w, cur[w]) /\ row[cur[w]].status = "delivered"
          /\ Fail(w, cur[w]) /\ UNCHANGED <<produced, history>>
      BY <1>5 DEF ProgressThrows, Inv, WorkerOK
    <2> QED BY <2>1, FailTable
  <1>6. ASSUME NEW w \in Workers, RecordDelivered(w) PROVE TableStep
    <2>1. /\ cur[w] \in Messages /\ Owned(w, cur[w]) /\ ~ Undeliverable(cur[w])
          /\ shown[cur[w]] > 0 /\ markDelivered(cur[w]) /\ UNCHANGED <<produced, history>>
      BY <1>6 DEF RecordDelivered, Inv, WorkerOK
    <2> QED BY <2>1, MarkTable
  <1>7. ASSUME NEW w \in Workers, Accept(w) PROVE TableStep
    <2>1. cur[w] \in Messages /\ Copied(cur[w])
      BY <1>7 DEF Accept, db, Copied, Inv, WorkerOK, Owned
    <2> QED BY <2>1 DEF TableStep
  <1>8. ASSUME NEW w \in Workers,
               \/ \E s \in Sessions : TakeSession(w, s)
               \/ \E m \in Messages : BeginSend(w, m)
               \/ ClearOutbox(w) \/ FinishDrain(w) \/ ProgressReturns(w) \/ NotifyReturns(w)
        PROVE  TableStep
    BY <1>8 DEF TakeSession, BeginSend, ClearOutbox, FinishDrain, ProgressReturns, NotifyReturns,
       db, history, TableStep, TableQuiet
  <1>9. ASSUME NEW m \in Messages, Produce(m) \/ DeliverAfterPasses(m) PROVE TableStep
    BY <1>9 DEF Produce, DeliverAfterPasses, history, TableStep, TableQuiet, Produced
  <1>10. ASSUME NEW m \in Messages, RetryWindowOpens(m) \/ requeueFailedDelivery(m) PROVE TableStep
    <2>1. row[m].status # "none" /\ m \in produced
      BY <1>10 DEF RetryWindowOpens, requeueFailedDelivery, Inv, RowsOK
    <2>2. Reopened(m)
      BY <1>10, <2>1 DEF RetryWindowOpens, requeueFailedDelivery, Reopened, Others, history, Inv, TypeOK, Row
    <2> QED BY <2>2 DEF TableStep
  <1>11. ASSUME NEW m \in Messages, LateAccept(m) PROVE TableStep
    <2>1. Copied(m)
      BY <1>11 DEF LateAccept, db, Copied, Inv, RowsOK
    <2> QED BY <2>1 DEF TableStep
  <1>12. ASSUME stopDeliveryPolls \/ Stop \/ Restart \/ UNCHANGED vars PROVE TableStep
    BY <1>12 DEF stopDeliveryPolls, Stop, Restart, vars, db, history, TableStep, TableQuiet
  <1>13. ASSUME NEW w \in Workers, TimedStep(w) \/ UntimedStep(w) PROVE TableStep
    BY <1>13, <1>2, <1>3, <1>4, <1>5, <1>6, <1>7, <1>8 DEF TimedStep, UntimedStep
  <1>14. ASSUME Environment PROVE TableStep
    BY <1>14, <1>9, <1>10, <1>11, <1>12 DEF Environment
  <1> QED
    BY <1>1, <1>12, <1>13, <1>14 DEF Next

\* A success is final.
THEOREM SuccessIsFinal == Spec => DeliveredIsFinal
  <1>1. ASSUME Inv, TableStep, NEW m \in Messages, row[m].status = "delivered"
        PROVE  row'[m].status = "delivered"
    BY <1>1 DEF TableStep, TableQuiet, Produced, Copied, Marked, Failed, Reopened, Others, Undeliverable
  <1>2. Inv /\ [Next]_vars =>
            [\A m \in Messages : row[m].status = "delivered" => row'[m].status = "delivered"]_vars
    BY <1>1, NextTable
  <1> QED
    BY <1>2, Invariance, PTL DEF Spec, DeliveredIsFinal

-----------------------------------------------------------------------------
\* What the refinement mapping says of one message.
LEMMA StatusOf ==
    ASSUME NEW m \in Messages
    PROVE  /\ ContractStatus[m] = "absent" <=> m \notin produced
           /\ m \in produced /\ row[m].status = "delivered" => ContractStatus[m] = "delivered"
           /\ m \in produced /\ DeadLettered(m) => ContractStatus[m] = "dead"
           /\ m \in produced /\ row[m].status # "delivered" /\ ~ DeadLettered(m)
                 => ContractStatus[m] = "owed"
  BY DEF ContractStatus, DeadLettered

\* One change of the table is one step of the contract, or none.
LEMMA TableContract ==
    ASSUME Inv, Inv', TableStep PROVE [Contract!Next]_(Contract!cvars)
  <1> DEFINE S == ContractStatus
  <1>1. DOMAIN S = Messages /\ DOMAIN S' = Messages /\ S = [m \in Messages |-> S[m]]
        /\ S' = [m \in Messages |-> S'[m]]
    BY DEF ContractStatus
  <1>2. \A m \in Messages :
           /\ S'[m] = "absent" <=> m \notin produced'
           /\ m \in produced' /\ row'[m].status = "delivered" => S'[m] = "delivered"
           /\ m \in produced' /\ row'[m].status = "failed" /\ row'[m].retry = "null" => S'[m] = "dead"
           /\ m \in produced' /\ row'[m].status # "delivered"
                 /\ ~ (row'[m].status = "failed" /\ row'[m].retry = "null") => S'[m] = "owed"
    BY DEF ContractStatus, DeadLettered
  <1>3. \A m \in Messages :
           /\ S[m] = "absent" <=> m \notin produced
           /\ m \in produced /\ row[m].status = "delivered" => S[m] = "delivered"
           /\ m \in produced /\ row[m].status = "failed" /\ row[m].retry = "null" => S[m] = "dead"
           /\ m \in produced /\ row[m].status # "delivered"
                 /\ ~ (row[m].status = "failed" /\ row[m].retry = "null") => S[m] = "owed"
    BY StatusOf DEF DeadLettered
  <1> HIDE DEF S
  <1>4. ASSUME NEW m \in Messages, produced' = produced, row'[m] = row[m] PROVE S'[m] = S[m]
    BY <1>4, <1>2, <1>3
  <1>5. CASE TableQuiet
    BY <1>1, <1>4, <1>5 DEF TableQuiet, Contract!cvars, S
  <1>6. ASSUME NEW m \in Messages, Others(m) PROVE S' = [S EXCEPT ![m] = S'[m]]
    BY <1>1, <1>4, <1>6 DEF Others
  <1>7. ASSUME NEW m \in Messages, Others(m), S'[m] = S[m] PROVE S' = S
    BY <1>1, <1>6, <1>7
  <1>8. ASSUME NEW m \in Messages, Produced(m) PROVE Contract!Owe(m)
    <2>1. row[m].status = "none"
      BY <1>8 DEF Produced, Inv, RowsOK, TypeOK
    <2>2. S[m] = "absent" /\ S'[m] = "owed"
      BY <1>2, <1>3, <1>8, <2>1 DEF Produced
    <2>3. \A k \in Messages : k # m => S'[k] = S[k]
      BY <1>2, <1>3, <1>8 DEF Produced
    <2>4. S' = [S EXCEPT ![m] = "owed"]
      BY <1>1, <2>2, <2>3
    <2> QED
      BY <2>2, <2>4, <1>8 DEF Contract!Owe, Produced, S
  <1>9. ASSUME NEW m \in Messages, Copied(m) PROVE Contract!Copy(m)
    <2>1. S' = S /\ S[m] # "absent"
      BY <1>1, <1>3, <1>4, <1>9 DEF Copied
    <2> QED
      BY <2>1, <1>9 DEF Contract!Copy, Copied, S
  <1>10. ASSUME NEW m \in Messages, Marked(m) PROVE Contract!Confirm(m)
    <2>1. S[m] = "owed" /\ S'[m] = "delivered"
      BY <1>2, <1>3, <1>10 DEF Marked, Others, Undeliverable
    <2>2. S' = [S EXCEPT ![m] = "delivered"]
      BY <1>6, <1>10, <2>1 DEF Marked
    <2>3. m \in NeedsCopy => shown[m] > 0
      BY <1>10 DEF Marked, NeedsCopy
    <2> QED
      BY <2>1, <2>2, <2>3, <1>10 DEF Contract!Confirm, Marked, Others, S
  <1>11. ASSUME NEW m \in Messages, Failed(m)
         PROVE  Contract!GiveUp(m) \/ UNCHANGED Contract!cvars
    <2>1. S[m] = "owed"
      BY <1>3, <1>11 DEF Failed, Others, Undeliverable
    <2>2. CASE row'[m].retry = "null"
      <3>1. S'[m] = "dead"
        BY <1>2, <1>11, <2>2 DEF Failed, Others
      <3>2. S' = [S EXCEPT ![m] = "dead"]
        BY <1>6, <1>11, <3>1 DEF Failed
      <3> QED
        BY <2>1, <3>2, <1>11 DEF Contract!GiveUp, Failed, Others, S
    <2>3. CASE row'[m].retry # "null"
      <3>1. S'[m] = "owed"
        BY <1>2, <1>11, <2>3 DEF Failed, Others
      <3>2. S' = S
        BY <1>7, <1>11, <2>1, <3>1 DEF Failed
      <3> QED
        BY <3>2, <1>11 DEF Contract!cvars, Failed, Others, S
    <2> QED
      BY <2>2, <2>3
  <1>12. ASSUME NEW m \in Messages, Reopened(m)
         PROVE  Contract!Revive(m) \/ UNCHANGED Contract!cvars
    <2>1. CASE S[m] = "dead"
      <3>1. row[m].status # "delivered"
        BY <1>3, <1>12, <2>1 DEF Reopened, Others
      <3>2. S'[m] = "owed"
        BY <1>2, <1>12, <3>1 DEF Reopened, Others
      <3>3. S' = [S EXCEPT ![m] = "owed"]
        BY <1>6, <1>12, <3>2 DEF Reopened
      <3> QED
        BY <2>1, <3>3, <1>12 DEF Contract!Revive, Reopened, Others, S
    <2>2. CASE S[m] # "dead"
      <3>1. S'[m] = S[m]
        BY <1>2, <1>3, <1>12, <2>2 DEF Reopened, Others
      <3>2. S' = S
        BY <1>7, <1>12, <3>1 DEF Reopened
      <3> QED
        BY <3>2, <1>12 DEF Contract!cvars, Reopened, Others, S
    <2> QED
      BY <2>1, <2>2
  <1> QED
    BY <1>5, <1>8, <1>9, <1>10, <1>11, <1>12 DEF TableStep, Contract!Next

\* The polls, the worker pool, the retries, the requeues and the stops together
\* implement the at-least-once outbox contract.
THEOREM DeliveryImplementsContract == Spec => ImplementsContract
  <1>1. Init => Contract!Init
    BY DEF Init, Contract!Init, ContractStatus
  <1>2. Inv /\ Inv' /\ [Next]_vars => [Contract!Next]_(Contract!cvars)
    BY NextTable, TableContract
  <1> QED
    BY <1>1, <1>2, Invariance, PTL DEF Spec, ImplementsContract, Contract!Spec

-----------------------------------------------------------------------------
(***************************************************************************)
(* The attempts: each is paid for, and first attempts come in order.       *)
(***************************************************************************)
\* A send of m is under way at w; at some worker.
Sending(w, m) == pc[w] \in {"call", "accepted"} /\ cur[w] = m

UnderWay(m) == \E w \in Workers : Sending(w, m)

\* What has been granted to m so far.
Granted(m) == MaxAttempts * (1 + requeues[m]) + stops

\* The calls made are covered by the attempts recorded, the requeues, the stops
\* and the one send under way that no row records yet.
Paid(m) ==
    /\ row[m].status = "none" => row[m].attempts = 0
    /\ row[m].status = "delivered" => calls[m] <= Granted(m)
    /\ row[m].status # "delivered" =>
          calls[m] + MaxAttempts <= Granted(m) + row[m].attempts + (IF UnderWay(m) THEN 1 ELSE 0)

\* A row the drain at w has left behind, earlier than one it still holds, has
\* an attempt recorded or under way.
LeftBehind(w) ==
    \A n \in todo[w], m \in produced :
        /\ SessionOf[m] = SessionOf[n] /\ Timestamp[m] < Timestamp[n]
        /\ m \notin Deferrable /\ m \notin todo[w] /\ ~ Sending(w, m)
        => row[m].status # "none"

OrderOK ==
    /\ \A m \in Messages : calls[m] > 0 => m \in produced
    /\ deferred \subseteq Deferrable
    /\ \A w \in Workers : LeftBehind(w)
    /\ FirstAttemptsInOrder

AttemptsInv == OrderOK /\ \A m \in Messages : Paid(m)

\* The numbers in Paid are numbers.
LEMMA Amounts ==
    ASSUME TypeOK, NEW m \in Messages
    PROVE  /\ calls[m] \in Nat /\ requeues[m] \in Nat /\ stops \in Nat
           /\ row[m].attempts \in 0 .. MaxAttempts /\ MaxAttempts \in Nat
           /\ Granted(m) \in Nat
  <1>1. calls[m] \in Nat /\ requeues[m] \in Nat /\ stops \in Nat /\ MaxAttempts \in Nat
    BY DeliveryAssumption DEF TypeOK
  <1>2. Granted(m) \in Nat
    BY <1>1 DEF Granted
  <1> QED
    BY <1>1, <1>2, RowUpdate

\* No worker but w has a send of a row that w's drain owns under way.
LEMMA SoleSender ==
    ASSUME Inv, NEW w \in Workers, NEW m \in Messages, Busy(w), Owned(w, m),
           NEW v \in Workers, Sending(v, m)
    PROVE  v = w
  BY DEF Inv, OneDrainPerSession, WorkerOK, Sending, Busy, Owned

\* A step that leaves a message's calls, its count and its grants alone, and
\* does not take a send of it away, leaves the account balanced.
LEMMA PaidSame ==
    ASSUME NEW m \in Messages, Paid(m), UnderWay(m) => UnderWay(m)',
           TypeOK,
           row'[m].status = row[m].status, row'[m].attempts = row[m].attempts,
           calls'[m] = calls[m], requeues'[m] = requeues[m], stops' = stops
    PROVE  Paid(m)'
  <1>1. Granted(m)' = Granted(m)
    BY DEF Granted
  <1> QED
    BY <1>1, Amounts DEF Paid

\* A failure records the attempt it ends.
LEMMA PaidFailed ==
    ASSUME NEW w \in Workers, NEW m \in Messages, Inv, \A k \in Messages : Paid(k),
           Busy(w), Owned(w, m), ~ Undeliverable(m) \/ row[m].status = "delivered",
           pc[w] \in {"loop", "progress"} \/ cur[w] = m, Fail(w, m),
           UNCHANGED <<history, bounds>>,
           NEW k \in Messages
    PROVE  Paid(k)'
  <1> DEFINE n == getDeliveryAttempts(m) + 1
  <1>1. PICK r \in {"null", "waiting"} : markDeliveryFailed(m, n, r)
    BY DEF Fail
  <1>2. \A v \in Workers : v # w => pc'[v] = pc[v] /\ cur'[v] = cur[v]
    BY DEF Fail, LeaveDrain, Goto, Inv, TypeOK
  <1>3. calls'[k] = calls[k] /\ requeues'[k] = requeues[k] /\ stops' = stops
    BY DEF history, bounds
  <1>4. Granted(k)' = Granted(k)
    BY <1>3 DEF Granted
  <1>5. k # m => (UnderWay(k) => UnderWay(k)')
    <2> SUFFICES ASSUME k # m, NEW v \in Workers, Sending(v, k) PROVE UnderWay(k)'
      BY DEF UnderWay
    <2>1. v # w
      BY DEF Sending
    <2> QED
      BY <1>2, <2>1 DEF Sending, UnderWay
  <1>6. CASE k # m \/ row[m].status = "delivered"
    <2>1. row'[k] = row[k]
      BY <1>1, <1>6 DEF markDeliveryFailed, Inv, TypeOK
    <2>2. CASE k # m
      BY <2>1, <2>2, <1>3, <1>5, PaidSame DEF Inv
    <2>3. CASE row[k].status = "delivered"
      BY <2>1, <2>3, <1>3, <1>4 DEF Paid
    <2> QED
      BY <2>2, <2>3, <1>6
  <1>7. CASE k = m /\ row[m].status # "delivered"
    <2>1. n = row[m].attempts + 1 /\ n \in Nat
      BY <1>7, RowUpdate, Amounts DEF getDeliveryAttempts, Paid, Inv
    <2> HIDE DEF n
    <2>2. row'[m] = [status |-> "failed", attempts |-> n, retry |-> r]
      BY <1>1, <1>7 DEF markDeliveryFailed, Inv, TypeOK
    <2>3. row'[m].status = "failed" /\ row'[m].attempts = row[m].attempts + 1
      BY <2>1, <2>2
    <2>4. calls[m] + MaxAttempts <= Granted(m) + row[m].attempts + 1
      BY <1>7, Amounts DEF Paid, Inv
    <2>5. calls[m] + MaxAttempts <= Granted(m) + (row[m].attempts + 1) + (IF UnderWay(m)' THEN 1 ELSE 0)
      BY <2>4, Amounts DEF Inv
    <2> QED
      BY <1>3, <1>4, <1>7, <2>3, <2>5 DEF Paid
  <1> QED
    BY <1>6, <1>7

\* A success settles the account: the attempt under way was within the budget.
LEMMA PaidMarked ==
    ASSUME NEW w \in Workers, NEW m \in Messages, Inv, \A k \in Messages : Paid(k),
           ~ Undeliverable(m), markDelivered(m),
           \A v \in Workers : v # w => pc'[v] = pc[v] /\ cur'[v] = cur[v],
           pc[w] = "loop" \/ cur[w] = m,
           UNCHANGED <<history, bounds>>,
           NEW k \in Messages
    PROVE  Paid(k)'
  <1>1. calls'[k] = calls[k] /\ requeues'[k] = requeues[k] /\ stops' = stops
    BY DEF history, bounds
  <1>2. Granted(k)' = Granted(k)
    BY <1>1 DEF Granted
  <1>3. CASE k # m
    <2>1. row'[k] = row[k]
      BY <1>3 DEF markDelivered, Inv, TypeOK
    <2>2. UnderWay(k) => UnderWay(k)'
      BY <1>3 DEF UnderWay, Sending
    <2> QED
      BY <1>1, <2>1, <2>2, PaidSame DEF Inv
  <1>4. CASE k = m
    <2>1. row'[m].status = "delivered"
      BY DEF markDelivered, Inv, TypeOK, Row
    <2>2. row[m].status # "delivered" /\ row[m].attempts + 1 <= MaxAttempts
      BY RowUpdate, DeliveryAssumption DEF Undeliverable, Paid, Inv
    <2>3. calls[m] + MaxAttempts <= Granted(m) + row[m].attempts + 1
      BY <2>2, Amounts DEF Paid, Inv
    <2>4. calls[m] <= Granted(m)
      BY <2>2, <2>3, Amounts DEF Inv
    <2> QED
      BY <1>1, <1>2, <1>4, <2>1, <2>4 DEF Paid
  <1> QED
    BY <1>3, <1>4

\* A call is counted when its send comes under way.
LEMMA PaidBegun ==
    ASSUME NEW w \in Workers, NEW m \in Messages, Inv, \A k \in Messages : Paid(k),
           BeginSend(w, m), NEW k \in Messages
    PROVE  Paid(k)'
  <1>1. Busy(w) /\ Owned(w, m) /\ ~ Undeliverable(m)
    BY NextRow DEF BeginSend
  <1>2. /\ pc[w] = "loop" /\ pc'[w] = "call" /\ cur'[w] = m
        /\ \A v \in Workers : v # w => pc'[v] = pc[v] /\ cur'[v] = cur[v]
    BY DEF BeginSend, IsNext, Goto, Inv, TypeOK
  <1>3. row' = row /\ requeues' = requeues /\ stops' = stops
    BY DEF BeginSend, db, bounds
  <1>4. Granted(k)' = Granted(k)
    BY <1>3 DEF Granted
  <1>5. CASE k # m
    <2>1. calls'[k] = calls[k]
      BY <1>5 DEF BeginSend, Inv, TypeOK
    <2>2. UnderWay(k) => UnderWay(k)'
      BY <1>2 DEF UnderWay, Sending
    <2> QED
      BY <1>3, <2>1, <2>2, PaidSame DEF Inv
  <1>6. CASE k = m
    <2>1. ~ UnderWay(m)
      BY <1>1, <1>2, SoleSender DEF UnderWay, Sending
    <2>2. UnderWay(m)'
      BY <1>2 DEF UnderWay, Sending
    <2>3. calls'[m] = calls[m] + 1
      BY DEF BeginSend, Inv, TypeOK
    <2>4. calls[m] + MaxAttempts <= Granted(m) + row[m].attempts
      BY <1>1, <2>1, Amounts DEF Paid, Undeliverable, Inv
    <2>5. (calls[m] + 1) + MaxAttempts <= Granted(m) + row[m].attempts + 1
      BY <2>4, Amounts DEF Inv
    <2>6. row[m].status # "delivered" /\ (row[m].status = "none" => row[m].attempts = 0)
      BY <1>1 DEF Undeliverable, Paid
    <2> QED
      BY <1>3, <1>4, <1>6, <2>2, <2>3, <2>5, <2>6 DEF Paid
  <1> QED
    BY <1>5, <1>6

\* A requeue grants a whole new budget and resets the count.
LEMMA PaidRequeued ==
    ASSUME NEW m \in Messages, Inv, \A k \in Messages : Paid(k), requeueFailedDelivery(m),
           NEW k \in Messages
    PROVE  Paid(k)'
  <1>1. (UnderWay(k) => UnderWay(k)') /\ calls' = calls /\ stops' = stops
    BY DEF requeueFailedDelivery, worker, history, UnderWay, Sending
  <1>2. CASE k # m
    BY <1>1, <1>2, PaidSame DEF requeueFailedDelivery, Inv, TypeOK
  <1>3. CASE k = m
    <2>1. row'[m].status = "failed" /\ row'[m].attempts = 0 /\ requeues'[m] = requeues[m] + 1
      BY DEF requeueFailedDelivery, Inv, TypeOK
    <2>2. Granted(m)' = Granted(m) + MaxAttempts
      BY <1>1, <2>1, Amounts DEF Granted, Inv
    <2>3. calls[m] + MaxAttempts <= Granted(m) + row[m].attempts + (IF UnderWay(m) THEN 1 ELSE 0)
      BY DEF requeueFailedDelivery, Paid
    <2>4. calls[m] + MaxAttempts <= Granted(m)' + 0 + (IF UnderWay(m)' THEN 1 ELSE 0)
      BY <1>1, <1>3, <2>2, <2>3, Amounts DEF Inv
    <2> QED
      BY <1>1, <1>3, <2>1, <2>4 DEF Paid
  <1> QED
    BY <1>2, <1>3

\* A stop forgets the send under way and is granted one call for it.
LEMMA PaidStopped ==
    ASSUME Inv, \A k \in Messages : Paid(k), Stop, NEW k \in Messages
    PROVE  Paid(k)'
  <1>1. row' = row /\ calls' = calls /\ requeues' = requeues /\ stops' = stops + 1
    BY DEF Stop, db, history
  <1>2. Granted(k)' = Granted(k) + 1
    BY <1>1, Amounts DEF Granted, Inv
  <1>3. row[k].status = "delivered" => calls[k] <= Granted(k) + 1
    BY Amounts DEF Paid, Inv
  <1>4. row[k].status # "delivered" =>
           calls[k] + MaxAttempts <= (Granted(k) + 1) + row[k].attempts + (IF UnderWay(k)' THEN 1 ELSE 0)
    BY Amounts DEF Paid, Inv
  <1> QED
    BY <1>1, <1>2, <1>3, <1>4 DEF Paid

\* The account is kept by every step.
LEMMA NextPaid ==
    ASSUME Inv, \A k \in Messages : Paid(k), [Next]_vars PROVE (\A k \in Messages : Paid(k))'
  <1> SUFFICES ASSUME NEW k \in Messages PROVE Paid(k)'
    OBVIOUS
  <1>1. ASSUME UNCHANGED <<row, calls, requeues, stops>>, UnderWay(k) => UnderWay(k)' PROVE Paid(k)'
    BY <1>1, PaidSame DEF Inv
  <1>2. ASSUME UNCHANGED <<pc, cur>> PROVE UnderWay(k) => UnderWay(k)'
    BY <1>2 DEF UnderWay, Sending
  <1>3. ASSUME NEW w \in Workers, pc[w] \notin {"call", "accepted"},
               \A v \in Workers : v # w => pc'[v] = pc[v] /\ cur'[v] = cur[v]
        PROVE  UnderWay(k) => UnderWay(k)'
    BY <1>3 DEF UnderWay, Sending
  <1>4. ASSUME NEW p \in Pollers, StartTick(p) \/ EndTick(p) PROVE Paid(k)'
    BY <1>1, <1>2, <1>4 DEF StartTick, EndTick, db, worker, history, bounds
  <1>5. ASSUME NEW w \in Workers, TimedStep(w) PROVE Paid(k)'
    <2>1. ASSUME NEW s \in Sessions, TakeSession(w, s) PROVE Paid(k)'
      <3>1. pc[w] = "idle" /\ \A v \in Workers : v # w => pc'[v] = pc[v] /\ cur'[v] = cur[v]
        BY <2>1 DEF TakeSession, Inv, TypeOK
      <3> QED
        BY <1>1, <1>3, <2>1, <3>1 DEF TakeSession, db, history, bounds
    <2>2. ASSUME NEW m \in Messages, SkipUsage(w, m) \/ DropUnrouted(w, m) PROVE Paid(k)'
      <3>1. IsNext(w, m) /\ markDelivered(m) /\ UNCHANGED <<history, bounds>>
            /\ \A v \in Workers : v # w => pc'[v] = pc[v] /\ cur'[v] = cur[v]
        BY <2>2 DEF SkipUsage, DropUnrouted, Goto, Inv, TypeOK
      <3> QED
        BY <3>1, NextRow, PaidMarked DEF IsNext
    <2>3. ASSUME NEW m \in Messages, Refuse(w, m) PROVE Paid(k)'
      BY <2>3, NextRow, PaidFailed DEF Refuse, IsNext
    <2>4. ASSUME NEW m \in Messages, BeginSend(w, m) PROVE Paid(k)'
      BY <2>4, PaidBegun
    <2>5. CASE CallFails(w) \/ CallTimesOut(w)
      <3>1. /\ cur[w] \in Messages /\ Busy(w) /\ Owned(w, cur[w]) /\ ~ Undeliverable(cur[w])
            /\ Fail(w, cur[w]) /\ UNCHANGED <<history, bounds>>
        BY <2>5 DEF CallFails, CallTimesOut, Inv, WorkerOK, Busy
      <3> QED
        BY <3>1, PaidFailed
    <2>6. CASE RecordDelivered(w)
      <3>1. /\ cur[w] \in Messages /\ ~ Undeliverable(cur[w]) /\ markDelivered(cur[w])
            /\ UNCHANGED <<history, bounds>>
            /\ \A v \in Workers : v # w => pc'[v] = pc[v] /\ cur'[v] = cur[v]
        BY <2>6 DEF RecordDelivered, Inv, WorkerOK, TypeOK
      <3> QED
        BY <3>1, PaidMarked
    <2>7. CASE Accept(w)
      <3>1. UnderWay(k) => UnderWay(k)'
        BY <2>7 DEF Accept, UnderWay, Sending, Inv, TypeOK
      <3> QED
        BY <1>1, <2>7, <3>1 DEF Accept, db, bounds
    <2>8. CASE ClearOutbox(w)
      <3>1. pc[w] = "marked" /\ \A v \in Workers : v # w => pc'[v] = pc[v] /\ cur'[v] = cur[v]
        BY <2>8 DEF ClearOutbox, Inv, TypeOK
      <3> QED
        BY <1>1, <1>3, <2>8, <3>1 DEF ClearOutbox, history, bounds
    <2>9. CASE FinishDrain(w)
      <3>1. pc[w] = "loop" /\ \A v \in Workers : v # w => pc'[v] = pc[v] /\ cur'[v] = cur[v]
        BY <2>9 DEF FinishDrain, LeaveDrain, Inv, TypeOK
      <3> QED
        BY <1>1, <1>3, <2>9, <3>1 DEF FinishDrain, db, history, bounds
    <2> QED
      BY <1>5, <2>1, <2>2, <2>3, <2>4, <2>5, <2>6, <2>7, <2>8, <2>9 DEF TimedStep
  <1>6. ASSUME NEW w \in Workers, UntimedStep(w) PROVE Paid(k)'
    <2>1. CASE ProgressReturns(w) \/ NotifyReturns(w)
      <3>1. /\ pc[w] \in {"progress", "notify"}
            /\ \A v \in Workers : v # w => pc'[v] = pc[v] /\ cur'[v] = cur[v]
        BY <2>1 DEF ProgressReturns, NotifyReturns, LeaveDrain, Inv, TypeOK
      <3> QED
        BY <1>1, <1>3, <2>1, <3>1 DEF ProgressReturns, NotifyReturns, db, history, bounds
    <2>2. CASE ProgressThrows(w)
      <3>1. /\ cur[w] \in Messages /\ Busy(w) /\ Owned(w, cur[w])
            /\ row[cur[w]].status = "delivered" /\ Fail(w, cur[w]) /\ UNCHANGED <<history, bounds>>
        BY <2>2 DEF ProgressThrows, Inv, WorkerOK, Busy
      <3> QED
        BY <3>1, PaidFailed
    <2> QED
      BY <1>6, <2>1, <2>2 DEF UntimedStep
  <1>7. ASSUME Environment PROVE Paid(k)'
    <2>1. ASSUME NEW m \in Messages, Produce(m) \/ DeliverAfterPasses(m) \/ LateAccept(m) PROVE Paid(k)'
      BY <1>1, <1>2, <2>1 DEF Produce, DeliverAfterPasses, LateAccept, db, worker, history, bounds
    <2>2. ASSUME NEW m \in Messages, RetryWindowOpens(m) PROVE Paid(k)'
      <3>1. row'[k].status = row[k].status /\ row'[k].attempts = row[k].attempts
        BY <2>2 DEF RetryWindowOpens, Inv, TypeOK, Row
      <3> QED
        BY <1>2, <2>2, <3>1, PaidSame DEF RetryWindowOpens, worker, history, bounds, Inv
    <2>3. ASSUME NEW m \in Messages, requeueFailedDelivery(m) PROVE Paid(k)'
      BY <2>3, PaidRequeued
    <2>4. CASE Stop
      BY <2>4, PaidStopped
    <2>5. CASE stopDeliveryPolls \/ Restart
      BY <1>1, <1>2, <2>5 DEF stopDeliveryPolls, Restart, db, worker, history, bounds
    <2> QED
      BY <1>7, <2>1, <2>2, <2>3, <2>4, <2>5 DEF Environment
  <1>8. CASE UNCHANGED vars
    BY <1>1, <1>2, <1>8 DEF vars, db, worker, history, bounds
  <1> QED
    BY <1>4, <1>5, <1>6, <1>7, <1>8 DEF Next

-----------------------------------------------------------------------------
\* A recorded attempt is never forgotten, and rows are never taken back.
LEMMA NeverForgotten ==
    ASSUME Inv, [Next]_vars
    PROVE  /\ produced \subseteq produced'
           /\ \A m \in Messages : row[m].status # "none" => row'[m].status # "none"
  <1>1. TableStep
    BY NextTable
  <1> QED
    BY <1>1 DEF TableStep, TableQuiet, Produced, Copied, Marked, Failed, Reopened, Others

\* A step that produces nothing and starts no call keeps first attempts in
\* order, when what each drain drops from its list is being tried or recorded.
LEMMA OrderSame ==
    ASSUME Inv, OrderOK, [Next]_vars, UNCHANGED <<produced, calls>>, deferred' \subseteq deferred,
           \A w \in Workers :
              \/ todo'[w] = {}
              \/ /\ todo'[w] \subseteq todo[w]
                 /\ \A m \in Messages :
                       Sending(w, m) \/ m \in todo[w] \ todo'[w]
                       => Sending(w, m)' \/ row'[m].status # "none"
    PROVE  OrderOK'
  <1>1. \A m \in Messages : row[m].status # "none" => row'[m].status # "none"
    BY NeverForgotten
  <1>2. produced \subseteq Messages
    BY DEF Inv, TypeOK
  <1>3. ASSUME NEW w \in Workers PROVE LeftBehind(w)'
    <2> SUFFICES ASSUME NEW n \in todo'[w], NEW m \in produced',
                        SessionOf[m] = SessionOf[n], Timestamp[m] < Timestamp[n],
                        m \notin Deferrable, m \notin todo'[w], ~ Sending(w, m)'
                 PROVE  row'[m].status # "none"
      BY DEF LeftBehind
    <2>1. m \in produced /\ m \in Messages /\ n \in todo[w]
      BY <1>2
    <2>2. CASE Sending(w, m) \/ m \in todo[w]
      BY <2>1, <2>2
    <2>3. CASE ~ Sending(w, m) /\ m \notin todo[w]
      BY <1>1, <2>1, <2>3 DEF OrderOK, LeftBehind
    <2> QED
      BY <2>2, <2>3
  <1>4. FirstAttemptsInOrder'
    BY <1>1, <1>2 DEF OrderOK, FirstAttemptsInOrder
  <1> QED
    BY <1>3, <1>4 DEF OrderOK

\* The drains do not move.
LEMMA OrderStill ==
    ASSUME Inv, OrderOK, [Next]_vars, UNCHANGED <<produced, calls, todo, pc, cur>>,
           deferred' \subseteq deferred
    PROVE  OrderOK'
  <1>1. \A w \in Workers, m \in Messages : Sending(w, m)' <=> Sending(w, m)
    BY DEF Sending
  <1> QED
    BY <1>1, OrderSame

\* Only w moves: its list is empty afterwards, or the row it leaves is tried or recorded.
LEMMA OrderMoves ==
    ASSUME Inv, OrderOK, [Next]_vars, UNCHANGED <<produced, calls, deferred>>, NEW w \in Workers,
           \A v \in Workers : v # w => pc'[v] = pc[v] /\ cur'[v] = cur[v] /\ todo'[v] = todo[v],
           \/ todo'[w] = {}
           \/ /\ todo'[w] \subseteq todo[w]
              /\ \A m \in Messages :
                    Sending(w, m) \/ m \in todo[w] \ todo'[w]
                    => Sending(w, m)' \/ row'[m].status # "none"
    PROVE  OrderOK'
  <1>1. \A v \in Workers : v # w =>
           todo'[v] = todo[v] /\ \A m \in Messages : Sending(v, m)' <=> Sending(v, m)
    BY DEF Sending
  <1>2. deferred' \subseteq deferred
    OBVIOUS
  <1>3. \A v \in Workers :
              \/ todo'[v] = {}
              \/ /\ todo'[v] \subseteq todo[v]
                 /\ \A m \in Messages :
                       Sending(v, m) \/ m \in todo[v] \ todo'[v]
                       => Sending(v, m)' \/ row'[m].status # "none"
    BY <1>1
  <1> QED
    BY <1>2, <1>3, OrderSame

\* The catch block ends the drain, or leaves a recorded failure behind.
LEMMA OrderFailed ==
    ASSUME Inv, OrderOK, [Next]_vars, NEW w \in Workers, NEW m \in Messages, Fail(w, m),
           pc[w] \in {"loop", "progress"} \/ cur[w] = m,
           UNCHANGED <<produced, calls, deferred>>
    PROVE  OrderOK'
  <1>1. \A v \in Workers : v # w => pc'[v] = pc[v] /\ cur'[v] = cur[v] /\ todo'[v] = todo[v]
    BY DEF Fail, LeaveDrain, Goto, Inv, TypeOK
  <1>2. row'[m].status # "none"
    BY FailRow DEF Inv
  <1>3. CASE LeaveDrain(w)
    <2>1. todo'[w] = {}
      BY <1>3 DEF LeaveDrain, Inv, TypeOK
    <2> QED
      BY <1>1, <2>1, OrderMoves
  <1>4. CASE Goto(w, m, "notify")
    <2>1. todo'[w] = todo[w] \ {m}
      BY <1>4 DEF Goto, Inv, TypeOK
    <2>2. \A k \in Messages : Sending(w, k) \/ k \in todo[w] \ todo'[w] => row'[k].status # "none"
      BY <1>2, <2>1 DEF Sending
    <2> QED
      BY <1>1, <2>1, <2>2, OrderMoves
  <1> QED
    BY <1>3, <1>4 DEF Fail

\* The snapshot holds every earlier row that has no attempt yet.
LEMMA OrderTaken ==
    ASSUME Inv, OrderOK, NEW w \in Workers, NEW s \in Sessions, TakeSession(w, s)
    PROVE  OrderOK'
  <1>1. UNCHANGED <<produced, deferred, row, calls, cur>>
    BY DEF TakeSession, db, history
  <1>2. FirstAttemptsInOrder'
    BY <1>1 DEF OrderOK, FirstAttemptsInOrder
  <1>3. ASSUME NEW v \in Workers, v # w \/ todo'[v] = todo[v] PROVE LeftBehind(v)'
    <2>1. todo'[v] = todo[v] /\ (v # w => pc'[v] = pc[v])
      BY <1>3 DEF TakeSession, Inv, TypeOK
    <2>2. CASE v # w
      BY <1>1, <2>1, <2>2 DEF OrderOK, LeftBehind, Sending
    <2>3. CASE v = w
      <3>1. todo[w] = {}
        BY DEF TakeSession, Inv, WorkerOK
      <3> QED
        BY <2>1, <2>3, <3>1 DEF LeftBehind
    <2> QED
      BY <2>2, <2>3
  <1>4. ASSUME todo'[w] = {m \in DueOutbound(s) : ~ Undeliverable(m)} PROVE LeftBehind(w)'
    <2> SUFFICES ASSUME NEW n \in todo'[w], NEW m \in produced',
                        SessionOf[m] = SessionOf[n], m \notin Deferrable, m \notin todo'[w]
                 PROVE  row'[m].status # "none"
      BY DEF LeftBehind
    <2>1. SessionOf[n] = s /\ m \in produced /\ m \notin deferred
      BY <1>1, <1>4 DEF DueOutbound, OrderOK
    <2>2. m \in DueOutbound(s)
      BY <2>1 DEF DueOutbound
    <2>3. Undeliverable(m)
      BY <1>4, <2>2
    <2> QED
      BY <1>1, <2>3 DEF Undeliverable
  <1>5. todo' = todo \/ todo'[w] = {m \in DueOutbound(s) : ~ Undeliverable(m)}
    BY DEF TakeSession, Inv, TypeOK
  <1>6. \A v \in Workers : LeftBehind(v)'
    BY <1>3, <1>4, <1>5
  <1> QED
    BY <1>1, <1>2, <1>6 DEF OrderOK

\* The row a send begins with is the earliest of the list, so every earlier row
\* of the session has been tried.
LEMMA OrderBegun ==
    ASSUME Inv, OrderOK, NEW w \in Workers, NEW n \in Messages, BeginSend(w, n)
    PROVE  OrderOK'
  <1>1. UNCHANGED <<produced, deferred, row>>
    BY DEF BeginSend, db
  <1>2. n \in todo[w] /\ Owned(w, n)
    BY NextRow DEF BeginSend
  <1>3. /\ pc[w] = "loop" /\ pc'[w] = "call" /\ cur'[w] = n /\ todo'[w] = todo[w] \ {n}
        /\ \A v \in Workers : v # w => pc'[v] = pc[v] /\ cur'[v] = cur[v] /\ todo'[v] = todo[v]
    BY DEF BeginSend, IsNext, Goto, Inv, TypeOK
  <1>4. \A k \in Messages : k # n => calls'[k] = calls[k]
    BY DEF BeginSend, Inv, TypeOK
  <1>5. produced \subseteq Messages
    BY DEF Inv, TypeOK
  <1>6. \A k \in Messages : calls'[k] > 0 => k \in produced'
    BY <1>1, <1>2, <1>4 DEF OrderOK, Owned
  <1>7. FirstAttemptsInOrder'
    <2> SUFFICES ASSUME NEW m \in produced', NEW k \in produced',
                        SessionOf[m] = SessionOf[k], Timestamp[m] < Timestamp[k],
                        m \notin Deferrable, calls'[k] > 0
                 PROVE  row'[m].status # "none"
      BY DEF FirstAttemptsInOrder
    <2>1. CASE k # n
      BY <1>1, <1>4, <1>5, <2>1 DEF OrderOK, FirstAttemptsInOrder
    <2>2. CASE k = n
      <3>1. m \notin todo[w]
        <4>1. Timestamp[m] \in Nat /\ Timestamp[n] \in Nat
          BY <1>1, <1>5, DeliveryAssumption
        <4>2. \A i \in todo[w] : Timestamp[n] <= Timestamp[i]
          BY DEF BeginSend, IsNext
        <4> QED
          BY <2>2, <4>1, <4>2
      <3>2. ~ Sending(w, m)
        BY <1>3 DEF Sending
      <3> QED
        BY <1>1, <1>2, <2>2, <3>1, <3>2 DEF OrderOK, LeftBehind
    <2> QED
      BY <2>1, <2>2
  <1>8. ASSUME NEW v \in Workers PROVE LeftBehind(v)'
    <2>1. CASE v # w
      BY <1>1, <1>3, <2>1 DEF OrderOK, LeftBehind, Sending
    <2>2. CASE v = w
      <3>1. \A m \in produced : ~ Sending(w, m)
        BY <1>3 DEF Sending
      <3>2. Sending(w, n)'
        BY <1>3 DEF Sending
      <3> QED
        BY <1>1, <1>3, <2>2, <3>1, <3>2 DEF OrderOK, LeftBehind
    <2> QED
      BY <2>1, <2>2
  <1> QED
    BY <1>1, <1>6, <1>7, <1>8 DEF OrderOK

\* A new row carries the latest timestamp of its session and no call.
LEMMA OrderProduced ==
    ASSUME Inv, OrderOK, NEW k \in Messages, Produce(k)
    PROVE  OrderOK'
  <1>1. /\ k \notin produced /\ produced' = produced \union {k}
        /\ UNCHANGED <<row, calls, todo, pc, cur>>
        /\ deferred' \subseteq Deferrable
    BY DEF Produce, worker, history, OrderOK
  <1>2. produced \subseteq Messages /\ Timestamp \in [Messages -> Nat]
    BY DeliveryAssumption DEF Inv, TypeOK
  <1>3. \A n \in produced : SessionOf[n] = SessionOf[k] => ~ (Timestamp[k] < Timestamp[n])
    <2> SUFFICES ASSUME NEW n \in produced, SessionOf[n] = SessionOf[k]
                 PROVE  ~ (Timestamp[k] < Timestamp[n])
      OBVIOUS
    <2>1. Timestamp[k] \in Nat /\ Timestamp[n] \in Nat /\ Timestamp[n] <= Timestamp[k]
      BY <1>2 DEF Produce
    <2> QED
      BY <2>1
  <1>4. ~ (calls[k] > 0)
    BY <1>1 DEF OrderOK
  <1>5. \A w \in Workers : todo[w] \subseteq produced
    BY DEF Inv, WorkerOK, Owned
  <1>6. ~ (Timestamp[k] < Timestamp[k])
    BY <1>2
  <1>7. FirstAttemptsInOrder'
    BY <1>1, <1>3, <1>4 DEF OrderOK, FirstAttemptsInOrder
  <1>8. ASSUME NEW w \in Workers PROVE LeftBehind(w)'
    BY <1>1, <1>3, <1>5 DEF OrderOK, LeftBehind, Sending
  <1> QED
    BY <1>1, <1>7, <1>8 DEF OrderOK

\* First attempts stay in order.
LEMMA NextOrder == ASSUME Inv, OrderOK, [Next]_vars PROVE OrderOK'
  <1>1. ASSUME NEW p \in Pollers, StartTick(p) \/ EndTick(p) PROVE OrderOK'
    BY <1>1, OrderStill DEF StartTick, EndTick, db, worker, history
  <1>2. ASSUME NEW w \in Workers, TimedStep(w) PROVE OrderOK'
    <2>1. ASSUME NEW s \in Sessions, TakeSession(w, s) PROVE OrderOK'
      BY <2>1, OrderTaken
    <2>2. ASSUME NEW m \in Messages, SkipUsage(w, m) \/ DropUnrouted(w, m) PROVE OrderOK'
      <3>1. /\ pc[w] = "loop" /\ row'[m].status # "none" /\ todo'[w] = todo[w] \ {m}
            /\ \A v \in Workers : v # w => pc'[v] = pc[v] /\ cur'[v] = cur[v] /\ todo'[v] = todo[v]
            /\ UNCHANGED <<produced, calls, deferred>>
        BY <2>2 DEF SkipUsage, DropUnrouted, IsNext, markDelivered, Goto, history, Inv, TypeOK, Row
      <3>2. \A k \in Messages : Sending(w, k) \/ k \in todo[w] \ todo'[w] => row'[k].status # "none"
        BY <3>1 DEF Sending
      <3> QED
        BY <3>1, <3>2, OrderMoves
    <2>3. ASSUME NEW m \in Messages, Refuse(w, m) PROVE OrderOK'
      BY <2>3, OrderFailed DEF Refuse, IsNext, history
    <2>4. ASSUME NEW m \in Messages, BeginSend(w, m) PROVE OrderOK'
      BY <2>4, OrderBegun
    <2>5. CASE CallFails(w) \/ CallTimesOut(w)
      <3>1. cur[w] \in Messages /\ Fail(w, cur[w]) /\ UNCHANGED <<produced, calls, deferred>>
        BY <2>5 DEF CallFails, CallTimesOut, Inv, WorkerOK, history
      <3> QED
        BY <3>1, OrderFailed
    <2>6. CASE RecordDelivered(w)
      <3>1. /\ cur[w] \in Messages /\ row'[cur[w]].status # "none" /\ todo' = todo
            /\ \A v \in Workers : v # w => pc'[v] = pc[v] /\ cur'[v] = cur[v] /\ todo'[v] = todo[v]
            /\ UNCHANGED <<produced, calls, deferred>>
        BY <2>6 DEF RecordDelivered, markDelivered, Inv, WorkerOK, TypeOK, Row, history
      <3>2. \A k \in Messages : Sending(w, k) \/ k \in todo[w] \ todo'[w] => row'[k].status # "none"
        BY <3>1 DEF Sending
      <3>3. todo'[w] \subseteq todo[w]
        BY <3>1
      <3> QED
        BY <3>1, <3>2, <3>3, OrderMoves
    <2>7. CASE Accept(w) \/ ClearOutbox(w)
      <3>1. /\ todo' = todo
            /\ \A v \in Workers : v # w => pc'[v] = pc[v] /\ cur'[v] = cur[v] /\ todo'[v] = todo[v]
            /\ UNCHANGED <<produced, calls, deferred>>
        BY <2>7 DEF Accept, ClearOutbox, db, Inv, TypeOK, history
      <3>2. \A k \in Messages : Sending(w, k) => Sending(w, k)'
        BY <2>7 DEF Accept, ClearOutbox, Sending, Inv, TypeOK
      <3>3. todo'[w] \subseteq todo[w]
        BY <3>1
      <3> QED
        BY <3>1, <3>2, <3>3, OrderMoves
    <2>8. CASE FinishDrain(w)
      <3>1. /\ todo'[w] = {}
            /\ \A v \in Workers : v # w => pc'[v] = pc[v] /\ cur'[v] = cur[v] /\ todo'[v] = todo[v]
            /\ UNCHANGED <<produced, calls, deferred>>
        BY <2>8 DEF FinishDrain, LeaveDrain, db, Inv, TypeOK, history
      <3> QED
        BY <3>1, OrderMoves
    <2> QED
      BY <1>2, <2>1, <2>2, <2>3, <2>4, <2>5, <2>6, <2>7, <2>8 DEF TimedStep
  <1>3. ASSUME NEW w \in Workers, UntimedStep(w) PROVE OrderOK'
    <2>1. CASE ProgressReturns(w)
      <3>1. /\ todo' = todo /\ \A k \in Messages : ~ Sending(w, k)
            /\ \A v \in Workers : v # w => pc'[v] = pc[v] /\ cur'[v] = cur[v] /\ todo'[v] = todo[v]
            /\ UNCHANGED <<produced, calls, deferred>>
        BY <2>1 DEF ProgressReturns, db, Inv, TypeOK, history, Sending
      <3>2. todo'[w] \subseteq todo[w]
        BY <3>1
      <3> QED
        BY <3>1, <3>2, OrderMoves
    <2>2. CASE NotifyReturns(w)
      <3>1. /\ todo'[w] = {}
            /\ \A v \in Workers : v # w => pc'[v] = pc[v] /\ cur'[v] = cur[v] /\ todo'[v] = todo[v]
            /\ UNCHANGED <<produced, calls, deferred>>
        BY <2>2 DEF NotifyReturns, LeaveDrain, db, Inv, TypeOK, history
      <3> QED
        BY <3>1, OrderMoves
    <2>3. CASE ProgressThrows(w)
      <3>1. cur[w] \in Messages /\ Fail(w, cur[w]) /\ UNCHANGED <<produced, calls, deferred>>
        BY <2>3 DEF ProgressThrows, Inv, WorkerOK, history
      <3> QED
        BY <3>1, OrderFailed
    <2> QED
      BY <1>3, <2>1, <2>2, <2>3 DEF UntimedStep
  <1>4. ASSUME Environment PROVE OrderOK'
    <2>1. ASSUME NEW m \in Messages, Produce(m) PROVE OrderOK'
      BY <2>1, OrderProduced
    <2>2. ASSUME NEW m \in Messages,
                 DeliverAfterPasses(m) \/ RetryWindowOpens(m) \/ LateAccept(m) \/ requeueFailedDelivery(m)
          PROVE  OrderOK'
      BY <2>2, OrderStill DEF DeliverAfterPasses, RetryWindowOpens, LateAccept, requeueFailedDelivery,
         db, worker, history
    <2>3. CASE Stop
      <3>1. UNCHANGED <<produced, calls, deferred>> /\ \A w \in Workers : todo'[w] = {}
        BY <2>3 DEF Stop, db, history
      <3> QED
        BY <3>1, OrderSame
    <2>4. CASE stopDeliveryPolls \/ Restart
      BY <2>4, OrderStill DEF stopDeliveryPolls, Restart, db, worker, history
    <2> QED
      BY <1>4, <2>1, <2>2, <2>3, <2>4 DEF Environment
  <1>5. CASE UNCHANGED vars
    BY <1>5, OrderStill DEF vars, db, worker, history
  <1> QED
    BY <1>1, <1>2, <1>3, <1>4, <1>5 DEF Next

\* Before the first row nothing is owed and nothing is spent.
LEMMA InitAttempts == Init => AttemptsInv
  <1> SUFFICES ASSUME Init PROVE AttemptsInv
    OBVIOUS
  <1>1. OrderOK
    BY DEF Init, OrderOK, LeftBehind, FirstAttemptsInOrder
  <1>2. ASSUME NEW m \in Messages PROVE Paid(m)
    <2>1. /\ row[m].status = "none" /\ row[m].attempts = 0 /\ calls[m] = 0
          /\ requeues[m] = 0 /\ stops = 0
      BY DEF Init, NoRow
    <2>2. Granted(m) = MaxAttempts /\ MaxAttempts \in Nat
      BY <2>1, DeliveryAssumption DEF Granted
    <2> QED
      BY <2>1, <2>2 DEF Paid
  <1> QED
    BY <1>1, <1>2 DEF AttemptsInv

\* First attempts keep the order of the session's stream, and every start of a
\* send is paid for by the retry limit, an operator's requeue or a stop of the
\* host, for any number of sessions, rows, workers, requeues and stops.
THEOREM AttemptsSound == Spec => []AttemptsOrderedAndBounded
  <1>1. Inv /\ AttemptsInv /\ [Next]_vars => AttemptsInv'
    BY NextPaid, NextOrder DEF AttemptsInv
  <1>2. Inv /\ AttemptsInv => AttemptsOrderedAndBounded
    <2> SUFFICES ASSUME Inv, AttemptsInv, NEW m \in Messages PROVE calls[m] <= Granted(m)
      BY DEF AttemptsInv, OrderOK, AttemptsOrderedAndBounded, CallsBounded, Granted
    <2>1. CASE row[m].status = "delivered"
      BY <2>1 DEF AttemptsInv, Paid
    <2>2. CASE row[m].status # "delivered" /\ ~ UnderWay(m)
      BY <2>2, Amounts DEF AttemptsInv, Paid, Inv
    <2>3. CASE row[m].status # "delivered" /\ UnderWay(m)
      <3>1. row[m].status = "none" \/ row[m].attempts < MaxAttempts
        BY <2>3, RowUpdate, DeliveryAssumption DEF UnderWay, Sending, Inv, WorkerOK, Undeliverable
      <3>2. row[m].attempts < MaxAttempts
        BY <3>1, DeliveryAssumption DEF AttemptsInv, Paid
      <3> QED
        BY <2>3, <3>2, Amounts DEF AttemptsInv, Paid, Inv
    <2> QED
      BY <2>1, <2>2, <2>3
  <1> QED
    BY <1>1, <1>2, InitAttempts, Invariance, PTL DEF Spec
=============================================================================
