--------------------------- MODULE ContainerPool ---------------------------
(***************************************************************************)
(* The container pool of the host: wakes under a global cap, the admission *)
(* queue that hands a freed slot to the next session, the sweep as its     *)
(* fallback, and what survives a stop of the host (src/container-runner.ts,*)
(* src/admission-queue.ts, the wake step of src/host-sweep.ts).            *)
(*                                                                         *)
(* JavaScript runs one task at a time: a wake's capacity check and its     *)
(* entry in wakePromises are one step, and so are a container's close      *)
(* event, the release of its slot and the hand-off to the next session.    *)
(* What interleaves is the spawn, which awaits, and the events.            *)
(***************************************************************************)
EXTENDS Integers, Sequences, FiniteSets, SequencesExt

CONSTANTS
    Sessions,
    Bucket,         \* sessionFairnessKey
    Cap,            \* MAX_CONCURRENT_CONTAINERS
    MaxFaults,      \* bound: failed spawns, quick crashes, failed probes and stops
    MaxOrphans,     \* bound: docker stops that fail, among them
    MaxStops        \* bound: stops of the host

ASSUME PoolAssumption ==
    /\ DOMAIN Bucket = Sessions
    /\ Cap \in Nat \ {0}
    /\ MaxFaults \in Nat /\ MaxOrphans \in Nat /\ MaxStops \in Nat

MAX_ADMISSION_FAILURES == 3

VARIABLES
    work,       \* inbound.db: "none", "pending", or "acked" (done, not yet synced)
    toWake,     \* sessions the router has written to and not yet woken
    active,     \* keys of activeContainers
    wakes,      \* keys of wakePromises
    joined,     \* wakes whose outcome a drain waits for
    queue,      \* the admission queue
    keyed,      \* keys of firstQueuedAt and fairnessKeyOf
    fails,      \* failCounts, 0 when absent
    phase,      \* "up", "stopping" or "down"
    snapshot,   \* containers stopAllContainers has yet to stop
    boxes,      \* docker containers running on the session's directory
    faults, orphans, stops    \* bound counters

inbox  == <<work, toWake>>
book   == <<joined, queue, keyed, fails>>
slots  == <<active, wakes>>
bounds == <<faults, orphans, stops>>
vars   == <<inbox, slots, book, phase, snapshot, boxes, bounds>>

Up == phase # "down"

Fault  == faults + orphans < MaxFaults /\ faults' = faults + 1
Orphan == /\ orphans < MaxOrphans /\ faults + orphans < MaxFaults
          /\ orphans' = orphans + 1

\* The queue without the entries of S, in their order.
Without(q, S) ==
    LET kept[n \in 0 .. Len(q)] ==
            IF n = 0 THEN <<>>
            ELSE IF q[n] \in S THEN kept[n - 1] ELSE Append(kept[n - 1], q[n])
    IN  kept[Len(q)]

(***************************************************************************)
(* wakeContainer.                                                          *)
(***************************************************************************)
\* Mutant: wakes in flight are not counted against the cap.
shouldAdmitIgnoringInflight(act) == Cardinality(act) < Cap

shouldAdmitWake(act) == Cardinality(act) + Cardinality(wakes) < Cap

\* A wake requested by the router or the sweep: a running container or a wake
\* in flight answers it, a free slot starts a spawn, a full pool queues it.
wakeContainer(s) ==
    /\ UNCHANGED <<active, joined, fails>>
    /\ IF s \in active \union wakes
       THEN UNCHANGED <<wakes, queue, keyed>>
       ELSE IF shouldAdmitWake(active)
       THEN /\ wakes' = wakes \union {s}
            /\ UNCHANGED <<queue, keyed>>
       ELSE /\ queue' = IF s \in ToSet(queue) THEN queue ELSE Append(queue, s)
            /\ keyed' = keyed \union {s}
            /\ UNCHANGED wakes

(***************************************************************************)
(* drainAdmissionSlot.                                                     *)
(***************************************************************************)
slotsHeldBy(key, act) == Cardinality({t \in act : Bucket[t] = key})

Load(s, act) == IF s \in keyed THEN slotsHeldBy(Bucket[s], act) ELSE 0

\* selectNextIndex: the least loaded bucket first, ties by position.
Before(i, j, act) ==
    \/ Load(queue[i], act) < Load(queue[j], act)
    \/ Load(queue[i], act) = Load(queue[j], act) /\ i < j

\* Entries that leave the queue without a slot leave no trace in the maps.
Forget(S) ==
    /\ keyed' = keyed \ S
    /\ fails' = [s \in Sessions |-> IF s \in S THEN 0 ELSE fails[s]]

\* Entries are popped in order until one is a candidate: it gets the slot, or
\* joins the wake that is already in flight for it.  Entries whose probe throws
\* and stale ones are dropped on the way.  The capacity check of this wake
\* succeeds, the slot having been freed in the same step (SlotsBounded would
\* show it if it did not).
Drain(act, broken) ==
    LET positions == DOMAIN queue
        Candidate(s) == s \notin act /\ s \notin broken /\ work[s] # "none"
        chosen == {i \in positions : /\ Candidate(queue[i])
                                     /\ \A j \in positions : Before(j, i, act) => ~ Candidate(queue[j])}
        dropped == {queue[j] : j \in {k \in positions : \A i \in chosen : Before(k, i, act)}}
        next == {queue[i] : i \in chosen}
    IN  /\ active' = act
        /\ queue' = Without(queue, dropped \union next)
        /\ wakes' = wakes \union next
        /\ joined' = joined \union next
        /\ Forget(dropped)

\* Mutant: a freed slot is left to the sweep.
handOffNothing(act) == active' = act /\ UNCHANGED <<wakes, book, faults>>

\* handOffSlot on a healthy exit: never once the shutdown has begun.
handOffSlot(act) ==
    IF phase = "stopping"
    THEN active' = act /\ UNCHANGED <<wakes, book, faults>>
    ELSE \/ Drain(act, {}) /\ UNCHANGED faults
         \/ \E s \in ToSet(queue) : Drain(act, {s}) /\ Fault

(***************************************************************************)
(* Messages and the sweep.                                                 *)
(***************************************************************************)
\* A message is written to the session; the router then awaits the channel's
\* progress reaction before it wakes the container.  Channel adapters are torn
\* down last, so both go on while the host is stopping.
Route(s) ==
    /\ Up
    /\ s \notin toWake
    /\ work' = [work EXCEPT ![s] = "pending"]
    /\ toWake' = toWake \union {s}
    /\ UNCHANGED <<slots, book, phase, snapshot, boxes, bounds>>

RouterWakes(s) ==
    /\ Up
    /\ s \in toWake
    /\ toWake' = toWake \ {s}
    /\ wakeContainer(s)
    /\ UNCHANGED <<work, phase, snapshot, boxes, bounds>>

\* The container completes its messages; the host learns of it at the sweep.
Work(s) ==
    /\ boxes[s] > 0
    /\ work[s] = "pending"
    /\ work' = [work EXCEPT ![s] = "acked"]
    /\ UNCHANGED <<toWake, slots, book, phase, snapshot, boxes, bounds>>

\* sweepSession: sync the acks, then wake when work is due.
Sweep(s) ==
    /\ phase = "up"
    /\ work[s] # "none"
    /\ work' = [work EXCEPT ![s] = IF @ = "acked" THEN "none" ELSE @]
    /\ IF work[s] = "pending" /\ s \notin active
       THEN wakeContainer(s)
       ELSE UNCHANGED <<slots, book>>
    /\ UNCHANGED <<toWake, phase, snapshot, boxes, bounds>>

(***************************************************************************)
(* The end of a spawn.                                                     *)
(***************************************************************************)
\* A drain that waits for the wake clears its bookkeeping on success.
Settle(s) ==
    /\ wakes' = wakes \ {s}
    /\ joined' = joined \ {s}
    /\ Forget(IF s \in joined THEN {s} ELSE {})
    /\ UNCHANGED queue

spawnContainer(s) ==
    /\ Up
    /\ s \in wakes
    /\ Settle(s)
    /\ active' = active \union {s}
    /\ boxes' = [boxes EXCEPT ![s] = @ + 1]
    /\ UNCHANGED <<inbox, phase, snapshot, bounds>>

\* The agent group is gone, or docker could not be started: the wake counts as
\* a success, no container runs, and no slot is handed on.
SpawnNothing(s) ==
    /\ Up
    /\ s \in wakes
    /\ Settle(s)
    /\ Fault
    /\ UNCHANGED <<inbox, active, phase, snapshot, boxes, orphans, stops>>

\* Mutant: off by one in the eviction threshold.
recordFailureOffByOne(s) ==
    IF fails[s] + 1 <= MAX_ADMISSION_FAILURES
    THEN /\ fails' = [fails EXCEPT ![s] = @ + 1]
         /\ keyed' = keyed
         /\ queue' = <<s>> \o Without(queue, {s})
    ELSE Forget({s}) /\ UNCHANGED queue

\* First failure to the front, then to the back, then out of the queue.
recordFailure(s) ==
    LET n == fails[s] + 1 IN
    IF n < MAX_ADMISSION_FAILURES
    THEN /\ fails' = [fails EXCEPT ![s] = n]
         /\ keyed' = keyed
         /\ queue' = IF n = 1 THEN <<s>> \o Without(queue, {s})
                     ELSE IF s \in ToSet(queue) THEN queue
                     ELSE Append(queue, s)
    ELSE Forget({s}) /\ UNCHANGED queue

\* spawnContainer throws.
SpawnFails(s) ==
    /\ Up
    /\ s \in wakes
    /\ wakes' = wakes \ {s}
    /\ joined' = joined \ {s}
    /\ IF s \in joined THEN recordFailure(s) ELSE UNCHANGED <<queue, keyed, fails>>
    /\ Fault
    /\ UNCHANGED <<inbox, active, phase, snapshot, boxes, orphans, stops>>

(***************************************************************************)
(* The end of a container.                                                 *)
(***************************************************************************)
\* An idle exit, or any exit after a real lifetime, a docker stop included.
Close(s) ==
    /\ Up
    /\ s \in active
    /\ boxes' = [boxes EXCEPT ![s] = @ - 1]
    /\ snapshot' = snapshot \ {s}
    /\ handOffSlot(active \ {s})
    /\ UNCHANGED <<inbox, phase, orphans, stops>>

\* A crash right after the spawn frees the slot and hands it to nobody.
QuickCrash(s) ==
    /\ Up
    /\ s \in active
    /\ active' = active \ {s}
    /\ boxes' = [boxes EXCEPT ![s] = @ - 1]
    /\ snapshot' = snapshot \ {s}
    /\ Fault
    /\ UNCHANGED <<inbox, wakes, book, phase, orphans, stops>>

\* killContainer when docker stop throws: the docker client is killed, its
\* close event frees the slot, and the container it had started runs on.
KillFallback(s) ==
    /\ Up
    /\ s \in active
    /\ Orphan
    /\ snapshot' = snapshot \ {s}
    /\ handOffSlot(active \ {s})
    /\ UNCHANGED <<inbox, phase, boxes, stops>>

(***************************************************************************)
(* Stops of the host.                                                      *)
(***************************************************************************)
stopAllContainers ==
    /\ phase = "up"
    /\ stops < MaxStops
    /\ phase' = "stopping"
    /\ snapshot' = active
    /\ UNCHANGED <<inbox, slots, book, boxes, bounds>>

\* The process ends: its maps are gone, docker containers are not.
End ==
    /\ stops < MaxStops
    /\ stops' = stops + 1
    /\ phase' = "down"
    /\ toWake' = {}
    /\ active' = {} /\ wakes' = {} /\ joined' = {} /\ queue' = <<>> /\ keyed' = {}
    /\ fails' = [s \in Sessions |-> 0]
    /\ snapshot' = {}
    /\ UNCHANGED <<work, boxes, faults, orphans>>

Exit  == phase = "stopping" /\ snapshot = {} /\ End
Crash == Up /\ End

\* Mutant: the host starts without reaping the previous run's containers.
RestartWithoutCleanup ==
    /\ ~ Up
    /\ phase' = "up"
    /\ UNCHANGED <<inbox, slots, book, snapshot, boxes, bounds>>

\* cleanupOrphans stops every container of the previous run before the sweep
\* and the channels start; it goes on when docker does not answer.
Restart ==
    /\ ~ Up
    /\ phase' = "up"
    /\ \/ boxes' = [s \in Sessions |-> 0] /\ UNCHANGED orphans
       \/ Orphan /\ UNCHANGED boxes
    /\ UNCHANGED <<inbox, slots, book, snapshot, faults, stops>>

-----------------------------------------------------------------------------
Init ==
    /\ work = [s \in Sessions |-> "none"]
    /\ toWake = {}
    /\ active = {} /\ wakes = {} /\ joined = {} /\ queue = <<>> /\ keyed = {}
    /\ fails = [s \in Sessions |-> 0]
    /\ phase = "up"
    /\ snapshot = {}
    /\ boxes = [s \in Sessions |-> 0]
    /\ faults = 0 /\ orphans = 0 /\ stops = 0

SpawnEnds(s) == spawnContainer(s) \/ SpawnNothing(s) \/ SpawnFails(s)

Next ==
    \/ \E s \in Sessions :
          \/ Route(s) \/ RouterWakes(s) \/ Work(s) \/ Sweep(s) \/ SpawnEnds(s)
          \/ Close(s) \/ QuickCrash(s) \/ KillFallback(s)
    \/ stopAllContainers \/ Exit \/ Crash \/ Restart

Spec == Init /\ [][Next]_vars

(***************************************************************************)
(* Fairness: a spawn ends, the sweep comes round to every session, a       *)
(* container works off what is pending, every conversation ends (its       *)
(* container exits or is stopped by the sweep's ceiling), and the service  *)
(* manager restarts the host.                                              *)
(***************************************************************************)
FairSpec ==
    /\ Spec
    /\ \A s \in Sessions : WF_vars(SpawnEnds(s)) /\ WF_vars(Sweep(s))
                          /\ WF_vars(Work(s)) /\ WF_vars(Close(s))
    /\ WF_vars(Exit) /\ WF_vars(Restart)

(***************************************************************************)
(* Properties.                                                             *)
(***************************************************************************)
\* The types of the pool's maps and of the admission queue.
TypeOK ==
    /\ work \in [Sessions -> {"none", "pending", "acked"}]
    /\ toWake \subseteq Sessions
    /\ active \subseteq Sessions /\ wakes \subseteq Sessions /\ joined \subseteq wakes
    /\ queue \in Seq(Sessions)
    /\ keyed \subseteq Sessions
    /\ fails \in [Sessions -> 0 .. MAX_ADMISSION_FAILURES - 1]
    /\ phase \in {"up", "stopping", "down"}
    /\ snapshot \subseteq active
    /\ boxes \in [Sessions -> Nat]
    /\ faults \in Nat /\ orphans \in Nat /\ stops \in Nat

\* The cap holds for what wakeContainer counts: running containers and spawns
\* in flight, over router, sweep and queue wakes that race for a slot.
SlotsBounded == active \intersect wakes = {} /\ Cardinality(active \union wakes) <= Cap

\* The admission queue's side tables neither leak nor run ahead of it: a
\* session has a first-queued time and a fairness key exactly while it is queued
\* or its admission is in flight, a failure count only then, and it is queued
\* at most once ("the missing-key branch is unreachable").
QueueSound ==
    /\ keyed = ToSet(queue) \union joined
    /\ \A i, j \in DOMAIN queue : queue[i] = queue[j] => i = j
    /\ \A s \in Sessions : fails[s] > 0 => s \in keyed

\* The pool and its queue are within their bounds and agree with each other.
PoolBooksSound == SlotsBounded /\ QueueSound

\* Never two containers on one session directory, which would be two writers
\* of one outbound.db, unless docker itself fails: racing wakes, stops,
\* crashes and restarts of the host add no second container; only a failed
\* docker stop or cleanup does.
SecondContainerNeedsFailedStop == \A s \in Sessions : boxes[s] <= 1 + orphans

\* The queue "can delay a wake but never strand one": a session with due work
\* gets a container, or its work is done, however slots change hands.
DueEventuallyRuns ==
    \A s \in Sessions : work[s] = "pending" ~> s \in active \/ work[s] # "pending"
=============================================================================
