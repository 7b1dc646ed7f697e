------------------------------ MODULE Delivery ------------------------------
(***************************************************************************)
(* Outbound delivery (src/delivery.ts, src/db/session-db.ts).              *)
(*                                                                         *)
(* A container appends rows to its session's messages_out; two poll loops  *)
(* of the host ("active" over running sessions, "sweep" over all active    *)
(* ones) drain them through a bounded pool of workers, call the channel    *)
(* adapter under a timeout and record the outcome in the delivered table.  *)
(* The tables and the outbox survive a stop of the host; the poll loops,   *)
(* the workers and inflightDeliveries do not.  scripts/dlq.ts is a second  *)
(* process that writes the delivered table while the host runs.            *)
(***************************************************************************)
EXTENDS Naturals, FiniteSets

CONSTANTS
    Sessions,       \* sessions with status 'active'
    Messages,       \* ids of messages_out rows
    SessionOf,      \* the session whose outbound.db holds the row
    Timestamp,      \* messages_out.timestamp, the sort key of a drain
    Kind,           \* what deliverMessage does with the row
    WithFiles,      \* rows whose content names attachments in the outbox
    Deferrable,     \* rows that may carry a deliver_after in the future
    MaxAttempts,    \* DELIVERY_MAX_ATTEMPTS
    Concurrency,    \* DELIVERY_CONCURRENCY
    MaxRequeues,    \* bound: dlq requeues per message
    MaxStops        \* bound: stops of the host process

Kinds == {"chat", "system", "usage", "invalid", "denied", "unrouted"}

ASSUME DeliveryAssumption ==
    /\ SessionOf \in [Messages -> Sessions]
    /\ Timestamp \in [Messages -> Nat]
    /\ Kind \in [Messages -> Kinds]
    /\ WithFiles \subseteq Messages
    /\ Deferrable \subseteq Messages
    /\ MaxAttempts \in Nat \ {0, 1}
    /\ Concurrency \in Nat \ {0}
    /\ MaxRequeues \in Nat
    /\ MaxStops \in Nat

Pollers == {"active", "sweep"}
Workers == Pollers \X (1 .. Concurrency)

NoSession == "no session"
NoMessage == "no message"

ASSUME SentinelAssumption == NoSession \notin Sessions /\ NoMessage \notin Messages

VARIABLES
    produced,   \* rows of messages_out
    deferred,   \* the rows among them whose deliver_after lies ahead
    row,        \* the delivered table, keyed by message_out_id
    outbox,     \* messages whose attachment files are on disk
    phase,      \* the host process: "up", "draining" (shutting down), "down"
    ticking,    \* poll loops that are inside drainSessionsBounded
    queue,      \* sessions the running tick has not shifted yet
    inflight,   \* inflightDeliveries
    pc, job, todo, cur,   \* worker: place in drainFn, session, rows left, row
    late,       \* timed-out adapter calls that may still take effect
    calls,      \* history: adapter or handler calls started per message
    shown,      \* history: copies that took effect per message
    bare,       \* history: messages handed to the adapter without their files
    requeues,   \* bound counter: dlq requeues per message
    stops       \* bound counter: stops of the host

db      == <<produced, deferred, row, outbox>>
host    == <<phase, ticking, queue, inflight>>
worker  == <<pc, job, todo, cur>>
history == <<calls, shown, bare>>
bounds  == <<requeues, stops>>
vars    == <<db, host, worker, late, history, bounds>>

(***************************************************************************)
(* The delivered table.                                                    *)
(***************************************************************************)
Row  == [status : {"none", "failed", "delivered"},
         attempts : 0 .. MaxAttempts,
         retry : {"null", "waiting", "open"}]

NoRow == [status |-> "none", attempts |-> 0, retry |-> "null"]

\* Rows with their own rendering or effect outside the host's tables.
Sendable(m)   == Kind[m] \in {"chat", "system"}
UserFacing(m) == Kind[m] \in {"chat", "invalid", "denied", "unrouted"}

Undeliverable(m) ==
    \/ row[m].status = "delivered"
    \/ /\ row[m].status = "failed"
       /\ row[m].attempts >= MaxAttempts \/ row[m].retry \in {"null", "waiting"}

DueOutbound(s) == {m \in produced \ deferred : SessionOf[m] = s}

\* Mutant: the attempt under way is counted twice.
getDeliveryAttemptsTwice(m) == IF row[m].status = "failed" THEN row[m].attempts + 1 ELSE 0

getDeliveryAttempts(m) == IF row[m].status = "failed" THEN row[m].attempts ELSE 0

markDelivered(m) == row' = [row EXCEPT ![m].status = "delivered"]

\* Mutant: the conflict update is not gated on the status.
markDeliveryFailedUngated(m, n, retry) ==
    row' = [row EXCEPT ![m] = [status |-> "failed", attempts |-> n, retry |-> retry]]

\* The conflict update is gated on status = 'failed': a success stays.
markDeliveryFailed(m, n, retry) ==
    row' = IF row[m].status = "delivered"
           THEN row
           ELSE [row EXCEPT ![m] = [status |-> "failed", attempts |-> n, retry |-> retry]]

(***************************************************************************)
(* The poll loops and the worker pool.                                     *)
(***************************************************************************)
StartTick(p) ==
    /\ phase = "up"
    /\ p \notin ticking
    /\ ticking' = ticking \union {p}
    /\ \E S \in IF p = "sweep" THEN {Sessions} ELSE (SUBSET Sessions) \ {{}} :
          queue' = [queue EXCEPT ![p] = S]
    /\ UNCHANGED <<db, phase, inflight, worker, late, history, bounds>>

EndTick(p) ==
    /\ p \in ticking
    /\ queue[p] = {}
    /\ \A w \in Workers : w[1] = p => pc[w] = "idle"
    /\ ticking' = ticking \ {p}
    /\ UNCHANGED <<db, phase, queue, inflight, worker, late, history, bounds>>

\* Mutant: the two poll loops may drain one session at the same time.
TakeSessionUnguarded(w, s) ==
    LET undelivered == {m \in DueOutbound(s) : ~ Undeliverable(m)} IN
    /\ pc[w] = "idle" /\ w[1] \in ticking /\ s \in queue[w[1]]
    /\ undelivered # {}
    /\ queue' = [queue EXCEPT ![w[1]] = @ \ {s}]
    /\ inflight' = inflight \union {s}
    /\ pc' = [pc EXCEPT ![w] = "loop"]
    /\ job' = [job EXCEPT ![w] = s]
    /\ todo' = [todo EXCEPT ![w] = undelivered]
    /\ UNCHANGED <<db, phase, ticking, cur, late, history, bounds>>

\* deliverSessionMessages and the head of drainSession: the guard, the
\* snapshot of what is deliverable now, and an early return when it is empty.
TakeSession(w, s) ==
    LET undelivered == {m \in DueOutbound(s) : ~ Undeliverable(m)} IN
    /\ pc[w] = "idle"
    /\ w[1] \in ticking
    /\ s \in queue[w[1]]
    /\ queue' = [queue EXCEPT ![w[1]] = @ \ {s}]
    /\ IF s \in inflight \/ undelivered = {}
       THEN UNCHANGED <<inflight, pc, job, todo>>
       ELSE /\ inflight' = inflight \union {s}
            /\ pc' = [pc EXCEPT ![w] = "loop"]
            /\ job' = [job EXCEPT ![w] = s]
            /\ todo' = [todo EXCEPT ![w] = undelivered]
    /\ UNCHANGED <<db, phase, ticking, cur, late, history, bounds>>

\* Mutant: an exception path that leaves the session in inflightDeliveries.
LeaveDrainLeaking(w) ==
    /\ pc' = [pc EXCEPT ![w] = "idle"]
    /\ job' = [job EXCEPT ![w] = NoSession]
    /\ todo' = [todo EXCEPT ![w] = {}]
    /\ cur' = [cur EXCEPT ![w] = NoMessage]
    /\ UNCHANGED inflight

\* The finally blocks: the session leaves inflightDeliveries.
LeaveDrain(w) ==
    /\ inflight' = inflight \ {job[w]}
    /\ pc' = [pc EXCEPT ![w] = "idle"]
    /\ job' = [job EXCEPT ![w] = NoSession]
    /\ todo' = [todo EXCEPT ![w] = {}]
    /\ cur' = [cur EXCEPT ![w] = NoMessage]

FinishDrain(w) ==
    /\ pc[w] = "loop"
    /\ todo[w] = {}
    /\ LeaveDrain(w)
    /\ UNCHANGED <<db, phase, ticking, queue, late, history, bounds>>

(***************************************************************************)
(* One iteration of drainFn.                                               *)
(***************************************************************************)
\* Mutant: the rows are drained in no particular order.
IsNextUnordered(w, m) == pc[w] = "loop" /\ m \in todo[w]

\* ORDER BY timestamp ASC; rows with equal timestamps come in any order.
IsNext(w, m) ==
    /\ pc[w] = "loop"
    /\ m \in todo[w]
    /\ \A n \in todo[w] : Timestamp[m] <= Timestamp[n]

Goto(w, m, place) ==
    /\ pc' = [pc EXCEPT ![w] = place]
    /\ cur' = [cur EXCEPT ![w] = m]
    /\ todo' = [todo EXCEPT ![w] = @ \ {m}]
    /\ UNCHANGED <<job, inflight>>

\* The catch block: count the attempt, dead-letter it or schedule the retry,
\* and break out of the loop.
Fail(w, m) ==
    LET n == getDeliveryAttempts(m) + 1 IN
    IF Kind[m] = "invalid" \/ n >= MaxAttempts
    THEN /\ markDeliveryFailed(m, n, "null")
         /\ IF UserFacing(m) THEN Goto(w, m, "notify") ELSE LeaveDrain(w)
    ELSE /\ markDeliveryFailed(m, n, "waiting")
         /\ LeaveDrain(w)

\* kind 'llm-usage': recorded as delivered without any call.
SkipUsage(w, m) ==
    /\ IsNext(w, m)
    /\ Kind[m] = "usage"
    /\ markDelivered(m)
    /\ Goto(w, m, "loop")
    /\ UNCHANGED <<produced, deferred, outbox, phase, ticking, queue, late, history, bounds>>

\* parseOutboundContent refuses the bytes, or a permission check throws.
Refuse(w, m) ==
    /\ IsNext(w, m)
    /\ Kind[m] \in {"invalid", "denied"}
    /\ Fail(w, m)
    /\ UNCHANGED <<produced, deferred, outbox, phase, ticking, queue, late, history, bounds>>

\* No routing fields, or no adapter registered for the channel: deliverMessage
\* returns without sending and the row is recorded as delivered.
DropUnrouted(w, m) ==
    /\ IsNext(w, m)
    /\ Kind[m] = "unrouted"
    /\ markDelivered(m)
    /\ Goto(w, m, "marked")
    /\ UNCHANGED <<produced, deferred, outbox, phase, ticking, queue, late, history, bounds>>

\* deliverMessage up to the await: attachments are read, the adapter (or the
\* system-action handler) is called.
BeginSend(w, m) ==
    /\ IsNext(w, m)
    /\ Sendable(m)
    /\ Goto(w, m, "call")
    /\ calls' = [calls EXCEPT ![m] = @ + 1]
    /\ bare' = IF m \in WithFiles \ outbox THEN bare \union {m} ELSE bare
    /\ UNCHANGED <<db, phase, ticking, queue, late, shown, bounds>>

\* Mutant: the outbox is cleared inside deliverMessage, before the row is marked.
AcceptAndClear(w) ==
    /\ pc[w] = "call"
    /\ pc' = [pc EXCEPT ![w] = "accepted"]
    /\ shown' = [shown EXCEPT ![cur[w]] = @ + 1]
    /\ outbox' = outbox \ {cur[w]}
    /\ UNCHANGED <<produced, deferred, row, host, job, todo, cur, late, calls, bare, bounds>>

\* The platform (or the handler) performs the send; the reply is under way.
Accept(w) ==
    /\ pc[w] = "call"
    /\ pc' = [pc EXCEPT ![w] = "accepted"]
    /\ shown' = [shown EXCEPT ![cur[w]] = @ + 1]
    /\ UNCHANGED <<db, host, job, todo, cur, late, calls, bare, bounds>>

RecordDelivered(w) ==
    /\ pc[w] = "accepted"
    /\ markDelivered(cur[w])
    /\ pc' = [pc EXCEPT ![w] = "marked"]
    /\ UNCHANGED <<produced, deferred, outbox, host, job, todo, cur, late, history, bounds>>

\* clearOutbox after the row is durable (best effort), then the progress
\* reaction of the session is removed when it has one.
ClearOutbox(w) ==
    /\ pc[w] = "marked"
    /\ outbox' \in {outbox, outbox \ {cur[w]}}
    /\ \E hasReaction \in BOOLEAN :
          pc' = [pc EXCEPT ![w] = IF UserFacing(cur[w]) /\ hasReaction
                                  THEN "progress" ELSE "loop"]
    /\ UNCHANGED <<produced, deferred, row, host, job, todo, cur, late, history, bounds>>

\* The call rejects: refused by the platform, or accepted and the reply lost.
CallFails(w) ==
    /\ pc[w] \in {"call", "accepted"}
    /\ Fail(w, cur[w])
    /\ UNCHANGED <<produced, deferred, outbox, phase, ticking, queue, late, history, bounds>>

\* Mutant: a timeout is taken for a success.
TimeoutIsSuccess(w) ==
    /\ pc[w] \in {"call", "accepted"}
    /\ Kind[cur[w]] = "chat"
    /\ late' = IF pc[w] = "call" THEN [late EXCEPT ![cur[w]] = @ + 1] ELSE late
    /\ markDelivered(cur[w])
    /\ Goto(w, cur[w], "marked")
    /\ UNCHANGED <<produced, deferred, outbox, phase, ticking, queue, history, bounds>>

\* withDeliveryTimeout rejects without cancelling the call underneath.
CallTimesOut(w) ==
    /\ pc[w] \in {"call", "accepted"}
    /\ Kind[cur[w]] = "chat"
    /\ late' = IF pc[w] = "call" THEN [late EXCEPT ![cur[w]] = @ + 1] ELSE late
    /\ Fail(w, cur[w])
    /\ UNCHANGED <<produced, deferred, outbox, phase, ticking, queue, history, bounds>>

\* markProgressStatusCompleted returns, or its table write throws: the catch
\* block then runs for a message that is already delivered.
ProgressReturns(w) ==
    /\ pc[w] = "progress"
    /\ pc' = [pc EXCEPT ![w] = "loop"]
    /\ UNCHANGED <<db, host, job, todo, cur, late, history, bounds>>

ProgressThrows(w) ==
    /\ pc[w] = "progress"
    /\ Fail(w, cur[w])
    /\ UNCHANGED <<produced, deferred, outbox, phase, ticking, queue, late, history, bounds>>

\* The un-timed notice of a permanent failure returns; the drain ends.
NotifyReturns(w) ==
    /\ pc[w] = "notify"
    /\ LeaveDrain(w)
    /\ UNCHANGED <<db, phase, ticking, queue, late, history, bounds>>

(***************************************************************************)
(* The world around the host.                                              *)
(***************************************************************************)
\* The container (or a host-written notice) appends a row, stamped now.
Produce(m) ==
    /\ m \notin produced
    /\ \A n \in produced : SessionOf[n] = SessionOf[m] => Timestamp[n] <= Timestamp[m]
    /\ produced' = produced \union {m}
    /\ deferred' = IF m \in Deferrable THEN deferred \union {m} ELSE deferred
    /\ outbox' = IF m \in WithFiles THEN outbox \union {m} ELSE outbox
    /\ UNCHANGED <<row, host, worker, late, history, bounds>>

DeliverAfterPasses(m) ==
    /\ m \in deferred
    /\ deferred' = deferred \ {m}
    /\ UNCHANGED <<produced, row, outbox, host, worker, late, history, bounds>>

RetryWindowOpens(m) ==
    /\ row[m].retry = "waiting"
    /\ row' = [row EXCEPT ![m].retry = "open"]
    /\ UNCHANGED <<produced, deferred, outbox, host, worker, late, history, bounds>>

\* A call nobody waits for any more reaches the user after all.
LateAccept(m) ==
    /\ late[m] > 0
    /\ late' = [late EXCEPT ![m] = @ - 1]
    /\ shown' = [shown EXCEPT ![m] = @ + 1]
    /\ UNCHANGED <<db, host, worker, calls, bare, bounds>>

\* scripts/dlq.ts --requeue, at any moment.
requeueFailedDelivery(m) ==
    /\ row[m].status = "failed"
    /\ requeues[m] < MaxRequeues
    /\ row' = [row EXCEPT ![m] = [status |-> "failed", attempts |-> 0, retry |-> "open"]]
    /\ requeues' = [requeues EXCEPT ![m] = @ + 1]
    /\ UNCHANGED <<produced, deferred, outbox, host, worker, late, history, stops>>

(***************************************************************************)
(* Stops and starts of the host.                                           *)
(***************************************************************************)
\* The signal handler is a task of its own: it runs when every ready worker has
\* shifted its next session.
stopDeliveryPolls ==
    /\ phase = "up"
    /\ stops < MaxStops
    /\ \A w \in Workers : w[1] \in ticking /\ queue[w[1]] # {} => pc[w] # "idle"
    /\ phase' = "draining"
    /\ UNCHANGED <<db, ticking, queue, inflight, worker, late, history, bounds>>

\* drainInflightDeliveries gives up after its timeout, so the process may exit
\* with calls under way; a crash ends it at any moment.  Calls already handed
\* to the platform may still take effect.
Stop ==
    /\ phase # "down"
    /\ stops < MaxStops
    /\ stops' = stops + 1
    /\ phase' = "down"
    /\ ticking' = {}
    /\ queue' = [p \in Pollers |-> {}]
    /\ inflight' = {}
    /\ late' = [m \in Messages |->
                  late[m] + Cardinality({w \in Workers : pc[w] = "call" /\ cur[w] = m})]
    /\ pc' = [w \in Workers |-> "idle"]
    /\ job' = [w \in Workers |-> NoSession]
    /\ todo' = [w \in Workers |-> {}]
    /\ cur' = [w \in Workers |-> NoMessage]
    /\ UNCHANGED <<db, history, requeues>>

Restart ==
    /\ phase = "down"
    /\ phase' = "up"
    /\ UNCHANGED <<db, ticking, queue, inflight, worker, late, history, bounds>>

-----------------------------------------------------------------------------
Init ==
    /\ produced = {} /\ deferred = {} /\ outbox = {}
    /\ row = [m \in Messages |-> NoRow]
    /\ phase = "up"
    /\ ticking = {}
    /\ queue = [p \in Pollers |-> {}]
    /\ inflight = {}
    /\ pc = [w \in Workers |-> "idle"]
    /\ job = [w \in Workers |-> NoSession]
    /\ todo = [w \in Workers |-> {}]
    /\ cur = [w \in Workers |-> NoMessage]
    /\ late = [m \in Messages |-> 0]
    /\ calls = [m \in Messages |-> 0]
    /\ shown = [m \in Messages |-> 0]
    /\ bare = {}
    /\ requeues = [m \in Messages |-> 0]
    /\ stops = 0

\* Steps of a worker that end by themselves or through the delivery timeout.
TimedStep(w) ==
    \/ \E s \in Sessions : TakeSession(w, s)
    \/ \E m \in Messages :
          SkipUsage(w, m) \/ Refuse(w, m) \/ DropUnrouted(w, m) \/ BeginSend(w, m)
    \/ Accept(w) \/ CallFails(w) \/ CallTimesOut(w)
    \/ RecordDelivered(w) \/ ClearOutbox(w) \/ FinishDrain(w)

\* Steps that wait for an adapter call made without the timeout.
UntimedStep(w) == ProgressReturns(w) \/ ProgressThrows(w) \/ NotifyReturns(w)

Environment ==
    \/ \E m \in Messages :
          \/ Produce(m) \/ DeliverAfterPasses(m) \/ RetryWindowOpens(m)
          \/ LateAccept(m) \/ requeueFailedDelivery(m)
    \/ stopDeliveryPolls \/ Stop \/ Restart

Next ==
    \/ \E p \in Pollers : StartTick(p) \/ EndTick(p)
    \/ \E w \in Workers : TimedStep(w) \/ UntimedStep(w)
    \/ Environment

Spec == Init /\ [][Next]_vars

(***************************************************************************)
(* Fairness.  The event loop runs every ready continuation; the sweep timer *)
(* rearms itself; clocks advance; a stopped host is restarted by its        *)
(* service manager.  Adapter calls under withDeliveryTimeout end by         *)
(* themselves; UntimedStep, the calls made without it, is the one place     *)
(* where the platform is assumed to answer.                                 *)
(***************************************************************************)
FairSpec ==
    /\ Spec
    /\ WF_vars(StartTick("sweep"))
    /\ \A p \in Pollers : WF_vars(EndTick(p))
    /\ \A w \in Workers : WF_vars(TimedStep(w))
    /\ \A m \in Messages : WF_vars(DeliverAfterPasses(m)) /\ WF_vars(RetryWindowOpens(m))
    /\ WF_vars(phase = "draining" /\ Stop)
    /\ WF_vars(Restart)
    /\ \A w \in Workers : WF_vars(UntimedStep(w))

(***************************************************************************)
(* Properties.                                                             *)
(***************************************************************************)
\* The types of all variables (src/delivery.ts state, delivered table).
TypeOK ==
    /\ produced \subseteq Messages
    /\ deferred \subseteq produced
    /\ outbox \subseteq Messages
    /\ row \in [Messages -> Row]
    /\ phase \in {"up", "draining", "down"}
    /\ ticking \subseteq Pollers
    /\ queue \in [Pollers -> SUBSET Sessions]
    /\ inflight \subseteq Sessions
    /\ pc \in [Workers -> {"idle", "loop", "call", "accepted", "marked", "progress", "notify"}]
    /\ job \in [Workers -> Sessions \union {NoSession}]
    /\ todo \in [Workers -> SUBSET Messages]
    /\ cur \in [Workers -> Messages \union {NoMessage}]
    /\ late \in [Messages -> Nat]
    /\ calls \in [Messages -> Nat]
    /\ shown \in [Messages -> Nat]
    /\ bare \subseteq Messages
    /\ requeues \in [Messages -> Nat]
    /\ stops \in Nat

\* The delivered table never claims a send that did not happen: a row of a
\* message that has a channel (or a handler) is 'delivered' only when at least
\* one copy took effect, whatever timeouts, retries and stops occurred.
DeliveredMeansShown ==
    \A m \in Messages : Sendable(m) /\ row[m].status = "delivered" => shown[m] > 0

\* A message never reaches the adapter without the attachments its content
\* names: the outbox is cleared only after the delivered row is durable, so a
\* stop in between cannot lead to a re-send without the files.
AttachmentsTravel == bare = {}

\* The retry budget is real: every start of a send is paid for by one of
\* DELIVERY_MAX_ATTEMPTS attempts, by an operator's requeue that granted a new
\* budget, or by a stop of the host that lost the count of one attempt.
CallsBounded ==
    \A m \in Messages : calls[m] <= MaxAttempts * (1 + requeues[m]) + stops

\* First attempts keep the order of the session's stream: nothing is sent
\* before every earlier row of the session has had its own attempt recorded
\* (rows with a deliver_after wait for their time and are exempt).
FirstAttemptsInOrder ==
    \A m, n \in produced :
        /\ SessionOf[m] = SessionOf[n]
        /\ Timestamp[m] < Timestamp[n]
        /\ m \notin Deferrable
        /\ calls[n] > 0
        => row[m].status # "none"

\* Attempts begin in order and there are no more of them than were paid for.
AttemptsOrderedAndBounded == FirstAttemptsInOrder /\ CallsBounded

\* No two drains race on one outbound row: a message that is delivered,
\* dead-lettered or inside its backoff window is never handed to the adapter,
\* although a drain works from a snapshot of the delivered table and the two
\* poll loops and dlq.ts run at the same time.
NeverResentAtRest ==
    [][\A m \in Messages : Undeliverable(m) => calls'[m] = calls[m]]_vars

\* A success is final: no failure recorded later (the catch block after
\* markProgressStatusCompleted throws, a concurrent requeue) takes it back.
DeliveredIsFinal ==
    [][\A m \in Messages : row[m].status = "delivered" => row'[m].status = "delivered"]_vars

DeadLettered(m) == row[m].status = "failed" /\ row[m].retry = "null"

\* Every row a container writes is eventually delivered or dead-lettered,
\* across failures, timeouts, backoff and stops of the host.
EventuallySettled ==
    \A m \in Messages :
        m \in produced ~> (row[m].status = "delivered" \/ DeadLettered(m))

\* No session is held for ever: whatever fails, times out, is refused or is cut
\* off by a stop, a session that entered inflightDeliveries leaves it.
DrainsEnd == \A s \in Sessions : s \in inflight ~> s \notin inflight

\* Nothing is stuck: rows settle and drains end.
DrainsSettle == EventuallySettled /\ DrainsEnd

(***************************************************************************)
(* The contract a channel user relies on.                                  *)
(***************************************************************************)
ContractStatus ==
    [m \in Messages |->
        IF m \notin produced THEN "absent"
        ELSE IF row[m].status = "delivered" THEN "delivered"
        ELSE IF DeadLettered(m) THEN "dead"
        ELSE "owed"]

NeedsCopy == {m \in Messages : Sendable(m)}

Contract == INSTANCE OutboxContract WITH status <- ContractStatus, copies <- shown

\* The drain implements the at-least-once outbox contract.
ImplementsContract == Contract!Spec
=============================================================================
