--------------------------- MODULE SessionInbound ---------------------------
(***************************************************************************)
(* The inbound side of one session: messages_in (written by the host),     *)
(* processing_ack (written by the container), the container's poll loop    *)
(* and turns, and the host sweep that syncs acks, wakes, kills stuck       *)
(* containers and retries what they left behind (src/db/session-db.ts,     *)
(* src/host-sweep.ts, container/agent-runner/src/poll-loop.ts,             *)
(* container/agent-runner/src/db/messages-in.ts).                          *)
(*                                                                         *)
(* Host and container are two processes; each reads the other's table at   *)
(* its own pace.  A row is named by its seq.                               *)
(***************************************************************************)
EXTENDS Naturals, Sequences, FiniteSets

CONSTANTS
    Rows,           \* seqs of the rows that may arrive
    Trigger,        \* rows with trigger = 1
    Chat,           \* the triggers among them that are user chat, not tasks
    Poison,         \* rows whose turn always brings the container down
    Window,         \* maxMessagesPerPrompt
    Streaming,      \* the provider's stream stays open until query.end()
    Routed,         \* turns run under a routing gate
    EarlyClose,     \* a stream may close before its result
    MaxTries,       \* MAX_TRIES
    MaxFaults,      \* bound: deaths, hangs and stale sessions
    MaxWakeFailures,\* bound: wakes that are rejected or fail
    MaxRequeues     \* bound: requeue-inbound calls

ASSUME InboundAssumption ==
    /\ Rows \subseteq Nat
    /\ Chat \subseteq Trigger /\ Trigger \subseteq Rows /\ Poison \subseteq Rows
    /\ Streaming \in BOOLEAN /\ Routed \in BOOLEAN /\ EarlyClose \in BOOLEAN
    /\ Window \in Nat \ {0} /\ MaxTries \in Nat
    /\ MaxFaults \in Nat /\ MaxWakeFailures \in Nat /\ MaxRequeues \in Nat

VARIABLES
    status,     \* messages_in.status, "absent" before the row is inserted
    tries,      \* messages_in.tries
    after,      \* process_after: "now" (null or past) or "later"
    ack,        \* processing_ack; "stale" is 'processing' beyond the tolerance
    box,        \* the container: "down", "starting" or "up"
    query,      \* "none", "scripts" (awaiting pre-task scripts) or "live"
    ends,       \* {}, {"latched"} (no more follow-up polls) or with "ended"
    inputs,     \* prompts in the live query that have no result yet
    sent,       \* the output for the first of them is in outbound.db
    initial,    \* processingIds: the batch the turn started with
    pendingAck, \* claims the next result will ack
    pushing,    \* follow-ups claimed by the live query's poll, not yet pushed
    late,       \* the same of queries that have ended
    toWake,     \* the router has written a trigger and not yet woken for it
    sweeping,   \* the sweep is past its wake and before the SLA check
    answered,   \* history: rows whose output was written
    said,       \* history: the ones written by the running container
    twice,      \* history: rows one container answered a second time
    excused,    \* history: gated tasks, and rows pushed into a busy query
    faults, wakeFailures, requeues    \* bound counters

inDb      == <<status, tries, after>>
turn      == <<query, ends, inputs, sent, initial, pendingAck, pushing, late>>
history   == <<answered, said, twice, excused>>
bounds    == <<faults, wakeFailures, requeues>>
waking    == <<toWake, sweeping>>
vars      == <<inDb, ack, box, turn, waking, history, bounds>>

Claimed == {m \in Rows : ack[m] \in {"processing", "stale"}}

SetAck(S, value) == [m \in Rows |-> IF m \in S THEN value ELSE ack[m]]

(***************************************************************************)
(* The container.                                                          *)
(***************************************************************************)
\* processQuery returns or throws: a poll still awaiting its scripts goes on.
QueryGone ==
    /\ query' = "none" /\ ends' = {} /\ inputs' = <<>> /\ sent' = FALSE
    /\ initial' = {} /\ pendingAck' = {} /\ pushing' = {}

\* The process ends; its query and its memory are gone, the tables are not.
BoxGone ==
    /\ box' = "down"
    /\ QueryGone
    /\ late' = {}
    /\ said' = {}

\* clearStaleProcessingAcks, then the poll loop.
Start ==
    /\ box = "starting"
    /\ box' = "up"
    /\ ack' = SetAck(Claimed, "none")
    /\ UNCHANGED <<inDb, turn, waking, history, bounds>>

Due == {m \in Rows : status[m] = "pending" /\ after[m] = "now"}

\* Mutant: acked rows are not filtered out.
getPendingUnfiltered ==
    {m \in Due : Cardinality({n \in Due : n > m}) < Window}

\* The newest Window due rows, minus the ones that have any ack.
getPendingMessages ==
    {m \in Due : Cardinality({n \in Due : n > m}) < Window /\ ack[m] = "none"}

\* The batch up to the second trigger; splitBatchByTurn may release rows of
\* other users and keeps the anchor.
splitBatch(batch) ==
    LET triggers == batch \intersect Trigger
        anchor   == CHOOSE t \in triggers : \A u \in triggers : t <= u
        keep     == {m \in batch : \A u \in triggers : u <= m => u = anchor}
    IN  {K \in SUBSET keep : anchor \in K}

\* The container runs, and is not between a result's output and its ack.
Running == box = "up" /\ ~ sent

\* A row whose output is written; done twice by one container is remembered.
Answer(S) ==
    /\ answered' = answered \union S
    /\ said' = said \union S
    /\ twice' = twice \union (said \intersect S)

\* A batch without a trigger is left alone (the accumulate gate).  /clear
\* commands are answered at once; the rest waits for its pre-task scripts.
ClaimBatch ==
    /\ Running
    /\ query = "none"
    /\ getPendingMessages \intersect Trigger # {}
    /\ \E K \in splitBatch(getPendingMessages) : \E C \in SUBSET (K \intersect Chat) :
          /\ ack' = [m \in Rows |-> IF m \in C THEN "completed"
                                    ELSE IF m \in K THEN "processing" ELSE ack[m]]
          /\ Answer(C)
          /\ query' = IF K = C THEN "none" ELSE "scripts"
          /\ initial' = K \ C
    /\ UNCHANGED <<inDb, box, ends, inputs, sent, pendingAck, pushing, late,
                   waking, excused, bounds>>

\* The scripts return: gated tasks are completed without a turn, and the rest
\* becomes the prompt of a query.
StartQuery ==
    /\ Running
    /\ query = "scripts"
    /\ \E G \in SUBSET (initial \intersect (Trigger \ Chat)) :
          /\ ack' = SetAck(G, "completed")
          /\ excused' = excused \union G
          /\ initial' = initial \ G
          /\ pendingAck' = initial \ G
          /\ inputs' = IF initial = G THEN <<>> ELSE <<initial \ G>>
          /\ query' = IF initial = G THEN "none" ELSE "live"
    /\ UNCHANGED <<inDb, box, ends, sent, pushing, late, waking, answered, said,
                   twice, bounds>>

\* The routing decision delegates the turn: the delegation is the output.
Delegate ==
    /\ Running /\ Routed
    /\ query = "scripts"
    /\ Answer(initial)
    /\ ack' = SetAck(initial, "completed")
    /\ QueryGone
    /\ UNCHANGED <<inDb, box, late, waking, excused, bounds>>

\* The poll beside a live query: a user's trigger waits for a turn of its own,
\* a slash command ends the stream, other rows are claimed for their scripts.
FollowUpPoll ==
    /\ Running
    /\ query = "live" /\ ends = {} /\ pushing = {}
    /\ \/ /\ getPendingMessages \intersect Chat # {}
          /\ ends' = {"latched"} \union (IF Routed THEN {"ended"} ELSE {})
          /\ UNCHANGED <<ack, pushing>>
       \/ /\ getPendingMessages \intersect Chat = {}
          /\ getPendingMessages \ Trigger # {}
          /\ ends' = {"latched", "ended"}
          /\ UNCHANGED <<ack, pushing>>
       \/ /\ getPendingMessages \intersect Chat = {}
          /\ getPendingMessages # {}
          /\ ack' = SetAck(getPendingMessages, "processing")
          /\ pushing' = getPendingMessages
          /\ UNCHANGED ends
    /\ UNCHANGED <<inDb, box, query, inputs, sent, initial, pendingAck, late, waking,
                   history, bounds>>

\* The follow-ups' scripts return: gated tasks are completed; rows of one turn
\* are pushed and the others released, or all are released and the stream ended.
FollowUpPush ==
    /\ Running
    /\ pushing # {}
    /\ \E G \in SUBSET (pushing \intersect Trigger) : \E K \in SUBSET (pushing \ G) :
          /\ ends' = IF K # {} \/ pushing = G THEN ends ELSE {"latched", "ended"}
          /\ ack' = [m \in Rows |-> IF m \in G THEN "completed"
                                    ELSE IF m \in pushing \ K THEN "none" ELSE ack[m]]
          /\ inputs' = IF K = {} THEN inputs ELSE Append(inputs, K)
          /\ pendingAck' = pendingAck \union K
          /\ excused' = excused \union G \union (IF inputs = <<>> THEN {} ELSE K)
    /\ pushing' = {}
    /\ UNCHANGED <<inDb, box, query, sent, initial, late, waking, answered, said,
                   twice, bounds>>

\* The same after the query has ended: what is not gated is released.
FollowUpLate ==
    /\ Running
    /\ late # {}
    /\ \E G \in SUBSET (late \intersect Trigger) :
          /\ ack' = [m \in Rows |-> IF m \in G THEN "completed"
                                    ELSE IF m \in late THEN "none" ELSE ack[m]]
          /\ excused' = excused \union G
    /\ late' = {}
    /\ UNCHANGED <<inDb, box, query, ends, inputs, sent, initial, pendingAck, pushing,
                   waking, answered, said, twice, bounds>>

\* A result event: the output is written first ...
Dispatch ==
    /\ Running
    /\ inputs # <<>>
    /\ Head(inputs) \intersect Poison = {}
    /\ sent' = TRUE
    /\ Answer(Head(inputs))
    /\ UNCHANGED <<inDb, ack, box, query, ends, inputs, initial, pendingAck, pushing,
                   late, waking, excused, bounds>>

\* Mutant: the claims are acked before the output is written.
AckTurnFirst ==
    /\ box = "up"
    /\ inputs # <<>>
    /\ ack' = SetAck(pendingAck, "completed")
    /\ pendingAck' = {}
    /\ inputs' = IF sent THEN Tail(inputs) ELSE inputs
    /\ sent' = FALSE
    /\ UNCHANGED <<inDb, box, query, ends, initial, pushing, late, waking, history, bounds>>

\* ... then every claim of the stream is acked.
AckTurn ==
    /\ box = "up"
    /\ sent
    /\ ack' = SetAck(pendingAck, "completed")
    /\ pendingAck' = {}
    /\ inputs' = Tail(inputs)
    /\ sent' = FALSE
    /\ UNCHANGED <<inDb, box, query, ends, initial, pushing, late, waking, history, bounds>>

\* The stream closes, having answered its inputs or not; the turn's tail acks
\* the initial batch, follow-ups without a result keep their claims.
StreamCloses ==
    /\ Running
    /\ query = "live"
    /\ inputs = <<>> => (Streaming => "ended" \in ends)
    /\ inputs # <<>> => EarlyClose
    /\ ack' = SetAck(initial, "completed")
    /\ QueryGone
    /\ late' = late \union pushing
    /\ UNCHANGED <<inDb, box, waking, history, bounds>>

\* The query throws: an error is written for the initial batch, then its ack.
TurnThrows ==
    /\ Running
    /\ query = "live"
    /\ UNION {inputs[i] : i \in DOMAIN inputs} \intersect Poison = {}
    /\ answered' = answered \union initial
    /\ ack' = SetAck(initial, "completed")
    /\ QueryGone
    /\ late' = late \union pushing
    /\ UNCHANGED <<inDb, box, waking, said, twice, excused, bounds>>

\* A stale session, before any result: the same turn starts afresh; follow-ups
\* that were pushed keep their claims and are forgotten.
StaleSession ==
    /\ Running
    /\ query = "live" /\ initial \subseteq pendingAck
    /\ faults < MaxFaults
    /\ faults' = faults + 1
    /\ inputs' = <<initial>>
    /\ pendingAck' = initial
    /\ ends' = {}
    /\ late' = late \union pushing
    /\ pushing' = {}
    /\ UNCHANGED <<inDb, ack, box, query, sent, initial, waking, history,
                   wakeFailures, requeues>>

CrashMidTurn ==
    /\ box = "up"
    /\ query # "none"
    /\ \/ inputs # <<>> /\ Head(inputs) \intersect Poison # {} /\ UNCHANGED faults
       \/ faults < MaxFaults /\ faults' = faults + 1
    /\ BoxGone
    /\ UNCHANGED <<inDb, ack, waking, answered, twice, excused, wakeFailures, requeues>>

\* Idle exit, or the sweep's ceiling on a container between turns.
IdleExit ==
    /\ box = "up"
    /\ query = "none"
    /\ getPendingMessages \intersect Trigger = {}
    /\ BoxGone
    /\ UNCHANGED <<inDb, ack, waking, answered, twice, excused, bounds>>

(***************************************************************************)
(* The host.                                                               *)
(***************************************************************************)
\* wakeContainer, as far as this session sees it.
wakeContainer ==
    \/ box # "down" /\ UNCHANGED <<box, wakeFailures>>
    \/ box = "down" /\ box' = "starting" /\ UNCHANGED wakeFailures
    \/ /\ box = "down"
       /\ wakeFailures < MaxWakeFailures
       /\ wakeFailures' = wakeFailures + 1
       /\ UNCHANGED box

\* insertMessage; after the progress reaction, which awaits the channel, the
\* router wakes the container for a trigger.
insertMessage(m) ==
    /\ status[m] = "absent"
    /\ \A n \in Rows : n < m => status[n] # "absent"
    /\ status' = [status EXCEPT ![m] = "pending"]
    /\ toWake' = (toWake \/ m \in Trigger)
    /\ UNCHANGED <<tries, after, ack, box, turn, sweeping, history, bounds>>

RouterWakes ==
    /\ toWake
    /\ toWake' = FALSE
    /\ wakeContainer
    /\ UNCHANGED <<inDb, ack, turn, sweeping, history, faults, requeues>>

\* Mutant: the sweep syncs the acks and leaves every wake to the router.
SweepWakeSyncOnly ==
    /\ ~ sweeping
    /\ sweeping' = TRUE
    /\ status' = [m \in Rows |-> IF ack[m] = "completed" THEN "completed" ELSE status[m]]
    /\ UNCHANGED <<toWake, tries, after, ack, box, turn, history, bounds>>

\* sweepSession up to the wake: sync the acks, count what is due.
SweepWake ==
    LET synced == [m \in Rows |-> IF ack[m] = "completed" THEN "completed" ELSE status[m]]
    IN  /\ ~ sweeping
        /\ sweeping' = TRUE
        /\ status' = synced
        /\ IF \E m \in Trigger : synced[m] = "pending" /\ after[m] = "now"
           THEN wakeContainer
           ELSE UNCHANGED <<box, wakeFailures>>
        /\ UNCHANGED <<toWake, tries, after, ack, turn, history, faults, requeues>>

\* Mutant: off by one in MAX_TRIES.
resetOffByOne ==
    /\ tries' = [m \in Rows |-> IF m \in Claimed \intersect Due THEN tries[m] + 1 ELSE tries[m]]
    /\ status' = [m \in Rows |-> IF m \in Claimed \intersect Due /\ tries[m] > MaxTries
                                 THEN "failed" ELSE status[m]]
    /\ after' = [m \in Rows |-> IF m \in Claimed \intersect Due THEN "later" ELSE after[m]]
    /\ ack' = SetAck(Claimed, "none")

\* Claims of a dead container: backoff and one more try, or the dead letter;
\* rows already rescheduled are skipped; then the claims are deleted.
resetStuckProcessingRows ==
    LET retry == {m \in Claimed \intersect Due : tries[m] < MaxTries}
        dead  == {m \in Claimed \intersect Due : tries[m] >= MaxTries}
    IN  /\ tries' = [m \in Rows |-> IF m \in retry THEN tries[m] + 1 ELSE tries[m]]
        /\ after' = [m \in Rows |-> IF m \in retry THEN "later" ELSE after[m]]
        /\ status' = [m \in Rows |-> IF m \in dead THEN "failed" ELSE status[m]]
        /\ ack' = SetAck(Claimed, "none")

\* Mutant: the cleanup trusts what was known before the wake.
SweepRestUnchecked ==
    /\ sweeping
    /\ sweeping' = FALSE
    /\ resetStuckProcessingRows
    /\ UNCHANGED <<toWake, box, turn, history, bounds>>

\* An open stream with nothing to answer touches no heartbeat.
Parked == query = "live" /\ inputs = <<>> /\ pushing = {}

\* sweepSession after the wake: the SLA of a running container (kill when a
\* claim is stale or the heartbeat is past the ceiling), or the cleanup after
\* one that is gone.
SweepRest ==
    /\ sweeping
    /\ sweeping' = FALSE
    /\ \/ /\ box = "down"
          /\ resetStuckProcessingRows
          /\ UNCHANGED <<box, turn, said>>
       \/ /\ box # "down"
          /\ Parked \/ \E m \in Rows : ack[m] = "stale"
          /\ resetStuckProcessingRows
          /\ BoxGone
       \/ /\ box # "down"
          /\ \A m \in Rows : ack[m] # "stale"
          /\ UNCHANGED <<inDb, ack, box, turn, said>>
    /\ UNCHANGED <<toWake, answered, twice, excused, bounds>>

\* A claim outlives its tolerance, or the container its ceiling or budget.
ClaimAges(m) ==
    /\ ack[m] = "processing"
    /\ faults < MaxFaults
    /\ faults' = faults + 1
    /\ ack' = SetAck({m}, "stale")
    /\ UNCHANGED <<inDb, box, turn, waking, history, wakeFailures, requeues>>

BackoffElapses(m) ==
    /\ after[m] = "later"
    /\ after' = [after EXCEPT ![m] = "now"]
    /\ UNCHANGED <<status, tries, ack, box, turn, waking, history, bounds>>

\* scripts/requeue-inbound.ts
requeueFailedInbound(m) ==
    /\ status[m] = "failed"
    /\ requeues < MaxRequeues
    /\ requeues' = requeues + 1
    /\ status' = [status EXCEPT ![m] = "pending"]
    /\ tries' = [tries EXCEPT ![m] = 0]
    /\ after' = [after EXCEPT ![m] = "now"]
    /\ UNCHANGED <<ack, box, turn, waking, history, faults, wakeFailures>>

-----------------------------------------------------------------------------
Init ==
    /\ status = [m \in Rows |-> "absent"]
    /\ tries = [m \in Rows |-> 0]
    /\ after = [m \in Rows |-> "now"]
    /\ ack = [m \in Rows |-> "none"]
    /\ box = "down"
    /\ query = "none" /\ ends = {} /\ inputs = <<>> /\ sent = FALSE
    /\ initial = {} /\ pendingAck = {} /\ pushing = {} /\ late = {}
    /\ toWake = FALSE /\ sweeping = FALSE
    /\ answered = {} /\ said = {} /\ twice = {} /\ excused = {}
    /\ faults = 0 /\ wakeFailures = 0 /\ requeues = 0

\* What the container does by itself, one turn after another.
Turns ==
    Start \/ ClaimBatch \/ StartQuery \/ Delegate \/ Dispatch \/ AckTurn
          \/ StreamCloses \/ CrashMidTurn

Next ==
    \/ Turns \/ FollowUpPoll \/ FollowUpPush \/ FollowUpLate
    \/ TurnThrows \/ StaleSession \/ IdleExit
    \/ RouterWakes \/ SweepWake \/ SweepRest
    \/ \E m \in Rows :
          insertMessage(m) \/ ClaimAges(m) \/ BackoffElapses(m) \/ requeueFailedInbound(m)

Spec == Init /\ [][Next]_vars

(***************************************************************************)
(* Fairness: the container makes progress (a poisoned turn progresses by   *)
(* crashing), its poll timer fires and the scripts it awaits return, a     *)
(* container with nothing to do is released in the end, the sweep comes    *)
(* round and finds the heartbeat of a parked stream past its ceiling, and  *)
(* backoffs elapse.                                                        *)
(***************************************************************************)
FairSpec ==
    /\ Spec
    /\ WF_vars(Turns) /\ WF_vars(IdleExit)
    /\ WF_vars(FollowUpPoll) /\ WF_vars(FollowUpPush) /\ WF_vars(FollowUpLate)
    /\ WF_vars(SweepWake) /\ WF_vars(SweepRest)
    /\ SF_vars(SweepRest /\ Parked /\ box' = "down")
    /\ \A m \in Rows : WF_vars(BackoffElapses(m))

(***************************************************************************)
(* Properties.                                                             *)
(***************************************************************************)
\* The types of the two tables and of the container's turn.
TypeOK ==
    /\ status \in [Rows -> {"absent", "pending", "completed", "failed"}]
    /\ tries \in [Rows -> 0 .. MaxTries]
    /\ after \in [Rows -> {"now", "later"}]
    /\ ack \in [Rows -> {"none", "processing", "stale", "completed"}]
    /\ box \in {"down", "starting", "up"}
    /\ query \in {"none", "scripts", "live"}
    /\ ends \subseteq {"latched", "ended"}
    /\ inputs \in Seq(SUBSET Rows)
    /\ pushing \subseteq Rows /\ late \subseteq Rows
    /\ sent \in BOOLEAN /\ toWake \in BOOLEAN /\ sweeping \in BOOLEAN
    /\ initial \subseteq Rows /\ pendingAck \subseteq Rows
    /\ answered \subseteq Rows /\ said \subseteq Rows
    /\ twice \subseteq Rows /\ excused \subseteq Rows
    /\ faults \in Nat /\ wakeFailures \in Nat /\ requeues \in Nat

\* No row is closed by silence (ADR-0062): whatever crashes, kills, errors and
\* sweeps happen, a row is completed only when its output had been written,
\* except a task its script gated and a follow-up pushed while the query was
\* still answering an earlier input.
CompletedMeansAnswered ==
    \A m \in Rows : ack[m] = "completed" \/ status[m] = "completed"
                        => m \in answered \union excused

\* One container answers a row at most once: a row that is claimed or acked
\* never enters a second turn of the same container, although the host learns
\* of the ack only at its next sweep.
AnsweredOncePerContainer == twice = {}

\* A container's turn owns its claims: while it runs, the rows its next result
\* will ack and the follow-ups whose scripts it awaits, for this query or for
\* one that has ended, are claimed and in one place only, so that neither
\* another poll nor the sweep's cleanup of an earlier container takes them.
QueryOwnsItsClaims ==
    box = "up" =>
        /\ pendingAck \union pushing \union late \subseteq Claimed
        /\ pendingAck \intersect pushing = {}
        /\ (pendingAck \union pushing) \intersect late = {}

\* Every trigger row is worked off in the end: completed, or dead-lettered after
\* MAX_TRIES, through crashes, failed wakes, stranded claims and backoff.
TriggersSettle ==
    \A m \in Trigger : status[m] = "pending" ~> status[m] \in {"completed", "failed"}
=============================================================================
