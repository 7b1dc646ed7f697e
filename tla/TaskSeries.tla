----------------------------- MODULE TaskSeries -----------------------------
(***************************************************************************)
(* A scheduled task and its recurrences.  The MCP tools of the agent write  *)
(* system rows; the delivery loop applies them, in order and at least once, *)
(* to messages_in; the container runs the occurrence that is due; the sweep *)
(* copies its acks into messages_in and inserts the next occurrence of      *)
(* every completed row that has a recurrence, in two statements.            *)
(***************************************************************************)
EXTENDS Integers, Sequences, FiniteSets

CONSTANTS
  MaxOccurrences,  \* bound: rows of the series
  MaxCommands,     \* bound: tool calls
  MaxTaskTrouble   \* bound: failed runs, stops, bad expressions

VARIABLES
  status,    \* status of occurrence k in messages_in, or "none"
  recurs,    \* occurrences whose recurrence is set
  prompt,    \* how many updates the content of an occurrence holds
  runAck,    \* processing_ack: "none", "processing", "done"
  commands,  \* tool calls the delivery loop has not recorded as delivered
  calls,     \* tool calls so far
  sweepAt,   \* "idle", "synced", "recurring"
  recurring, \* completed rows handleRecurrence has read and not done
  taskUp, taskTrouble,
  updates,   \* history: updates that touched a row
  paused,    \* history: the series is paused, as far as the agent can tell
  cancelled, \* history: a cancel was applied
  missed,    \* history: a cancel or a pause met a completed row still to recur
  inRun,     \* history: a pause met a run under way
  forked,    \* history: the host ended between insert and clear
  ended,     \* history: an occurrence failed for good, or an update ended it
  ranPaused  \* history: an occurrence began while the series was paused

table == <<status, recurs, prompt>>
notes == <<updates, paused, cancelled, missed, inRun, forked, ended, ranPaused>>
vars  == <<table, runAck, commands, calls, sweepAt, recurring, taskUp, taskTrouble, notes>>

Occurrences == 1..MaxOccurrences
Commands    == {"schedule", "pause", "resume", "cancel", "update", "once"}

TypeOK ==
  /\ status \in [Occurrences -> {"none", "pending", "paused", "completed", "failed"}]
  /\ recurs \subseteq Occurrences /\ recurring \subseteq Occurrences
  /\ prompt \in [Occurrences -> 0..(MaxCommands + MaxTaskTrouble)]
  /\ runAck \in [Occurrences -> {"none", "processing", "done"}]
  /\ commands \in Seq(Commands)
  /\ sweepAt \in {"idle", "synced", "recurring"}
  /\ \A b \in {taskUp, paused, cancelled, missed, inRun, forked, ended, ranPaused} : b \in BOOLEAN

Init ==
  /\ status = [k \in Occurrences |-> "none"]
  /\ prompt = [k \in Occurrences |-> 0]
  /\ runAck = [k \in Occurrences |-> "none"]
  /\ recurs = {} /\ recurring = {} /\ commands = <<>> /\ calls = 0
  /\ sweepAt = "idle" /\ taskUp = TRUE /\ taskTrouble = 0
  /\ updates = 0
  /\ paused = FALSE /\ cancelled = FALSE /\ missed = FALSE /\ inRun = FALSE
  /\ forked = FALSE /\ ended = FALSE /\ ranPaused = FALSE

Trouble == taskTrouble < MaxTaskTrouble /\ taskTrouble' = taskTrouble + 1

In(statuses) == {k \in Occurrences : status[k] \in statuses}
Live         == In({"pending", "paused"})
SetAll(S, s) == status' = [k \in Occurrences |-> IF k \in S THEN s ELSE status[k]]

\* A completed row whose next occurrence is still to be inserted.
Between == In({"completed"}) \cap recurs

----------------------------------------------------------------------------
(* The tools and the actions of the host.                                   *)

\* schedule_task first; its id is the series id the others name.
ToolCall(c) ==
  /\ calls < MaxCommands
  /\ (calls = 0) = (c = "schedule")
  /\ commands' = Append(commands, c)
  /\ calls' = calls + 1
  /\ UNCHANGED <<table, runAck, sweepAt, recurring, taskUp, taskTrouble, notes>>

\* A second insert with the same id throws; the row is dead-lettered.
insertTask ==
  /\ IF status[1] = "none"
     THEN SetAll({1}, "pending") /\ recurs' = {1}
     ELSE UNCHANGED <<status, recurs>>
  /\ UNCHANGED <<prompt, notes>>

pauseTask ==
  /\ SetAll(In({"pending"}), "paused")
  /\ paused' = (paused \/ In({"pending"}) # {})
  /\ inRun' = (inRun \/ \E k \in In({"pending"}) : runAck[k] # "none")
  /\ missed' = (missed \/ Between # {})
  /\ UNCHANGED <<recurs, prompt, updates, cancelled, forked, ended, ranPaused>>

resumeTask ==
  /\ SetAll(In({"paused"}), "pending")
  /\ paused' = FALSE
  /\ UNCHANGED <<recurs, prompt, updates, cancelled, missed, inRun, forked, ended, ranPaused>>

\* Mutant: the recurrence of a cancelled row stays.
cancelKeepingRecurrence ==
  /\ SetAll(Live, "completed")
  /\ cancelled' = TRUE
  /\ missed' = (missed \/ Between # {})
  /\ UNCHANGED <<recurs, prompt, updates, paused, inRun, forked, ended, ranPaused>>

\* A completed row that still has its recurrence is not touched.
cancelTask ==
  /\ SetAll(Live, "completed")
  /\ recurs' = recurs \ Live
  /\ cancelled' = TRUE
  /\ missed' = (missed \/ Between # {})
  /\ UNCHANGED <<prompt, updates, paused, inRun, forked, ended, ranPaused>>

\* New content for every live row, or no recurrence any more; an update that
\* finds no live row is reported to the agent.
updateTask(once) ==
  /\ prompt' = [k \in Occurrences |-> IF k \in Live THEN updates + 1 ELSE prompt[k]]
  /\ recurs' = IF once THEN recurs \ Live ELSE recurs
  /\ updates' = IF Live # {} THEN updates + 1 ELSE updates
  /\ ended' = (ended \/ once)
  /\ UNCHANGED <<status, paused, cancelled, missed, inRun, forked, ranPaused>>

Applied(c) ==
  \/ c = "schedule" /\ insertTask
  \/ c = "pause" /\ pauseTask
  \/ c = "resume" /\ resumeTask
  \/ c = "cancel" /\ cancelTask
  \/ c = "update" /\ updateTask(FALSE)
  \/ c = "once" /\ updateTask(TRUE)

Deliver ==
  /\ taskUp /\ commands # <<>>
  /\ Applied(Head(commands))
  /\ commands' = Tail(commands)
  /\ UNCHANGED <<runAck, calls, sweepAt, recurring, taskUp, taskTrouble>>

\* The host ends after the action and before the row is marked delivered.
DeliverCutShort ==
  /\ taskUp /\ commands # <<>> /\ Trouble
  /\ Applied(Head(commands))
  /\ taskUp' = FALSE /\ sweepAt' = "idle" /\ recurring' = {}
  /\ UNCHANGED <<runAck, calls, commands>>

----------------------------------------------------------------------------
(* The container.                                                           *)

\* A due row is claimed; the claim lives in the container's own database.
StartRun(k) ==
  /\ status[k] = "pending" /\ runAck[k] = "none"
  /\ runAck' = [runAck EXCEPT ![k] = "processing"]
  /\ ranPaused' = (ranPaused \/ paused)
  /\ UNCHANGED <<table, commands, calls, sweepAt, recurring, taskUp, taskTrouble, updates, paused,
                 cancelled, missed, inRun, forked, ended>>

\* The turn, or a pre-task script that says not to wake the agent.
EndRun(k) ==
  /\ runAck[k] = "processing"
  /\ runAck' = [runAck EXCEPT ![k] = "done"]
  /\ UNCHANGED <<table, commands, calls, sweepAt, recurring, taskUp, taskTrouble, notes>>

\* The container died: the claim is dropped and the row tried again, or
\* dead-lettered when its tries are used up, recurrence and all.
RunLost(k) ==
  /\ taskUp /\ runAck[k] = "processing" /\ Trouble
  /\ runAck' = [runAck EXCEPT ![k] = "none"]
  /\ \/ UNCHANGED <<status, ended>>
     \/ /\ status[k] \in {"pending", "paused"}
        /\ SetAll({k}, "failed")
        /\ ended' = TRUE
  /\ UNCHANGED <<recurs, prompt, commands, calls, sweepAt, recurring, taskUp, updates, paused,
                 cancelled, missed, inRun, forked, ranPaused>>

----------------------------------------------------------------------------
(* The sweep of the session.                                                *)

\* Every acked row becomes completed, whatever its status was.
syncProcessingAcks ==
  /\ taskUp /\ sweepAt = "idle"
  /\ sweepAt' = "synced"
  /\ SetAll({k \in Occurrences : runAck[k] = "done"}, "completed")
  /\ UNCHANGED <<recurs, prompt, runAck, commands, calls, recurring, taskUp, taskTrouble, notes>>

\* After the awaits of the wake and of the SLA checks.
getCompletedRecurring ==
  /\ taskUp /\ sweepAt = "synced"
  /\ sweepAt' = "recurring"
  /\ recurring' = Between
  /\ UNCHANGED <<table, runAck, commands, calls, taskUp, taskTrouble, notes>>

Fresh == {k \in Occurrences : status[k] = "none"}
First(S) == CHOOSE k \in S : \A l \in S : k <= l

insertRecurrence(k) ==
  LET n == First(Fresh)
  IN /\ Fresh # {}
     /\ SetAll({n}, "pending")
     /\ prompt' = [prompt EXCEPT ![n] = prompt[k]]

\* The next row, then the flag of the old one.
handleRecurrence(k) ==
  /\ taskUp /\ k \in recurring
  /\ recurring' = recurring \ {k}
  /\ insertRecurrence(k)
  /\ recurs' = (recurs \cup {First(Fresh)}) \ {k}
  /\ UNCHANGED <<runAck, commands, calls, sweepAt, taskUp, taskTrouble, notes>>

\* The host ends between the two statements.
RecurrenceCutShort(k) ==
  /\ taskUp /\ k \in recurring /\ Trouble
  /\ insertRecurrence(k)
  /\ recurs' = recurs \cup {First(Fresh)}
  /\ taskUp' = FALSE /\ sweepAt' = "idle" /\ recurring' = {}
  /\ forked' = TRUE
  /\ UNCHANGED <<runAck, commands, calls, updates, paused, cancelled, missed, inRun, ended,
                 ranPaused>>

\* An expression that does not parse is logged and met again next time.
RecurrenceFails(k) ==
  /\ taskUp /\ k \in recurring /\ Trouble
  /\ recurring' = recurring \ {k}
  /\ UNCHANGED <<table, runAck, commands, calls, sweepAt, taskUp, notes>>

SweepEnds ==
  /\ taskUp /\ sweepAt = "recurring" /\ recurring = {}
  /\ sweepAt' = "idle"
  /\ UNCHANGED <<table, runAck, commands, calls, recurring, taskUp, taskTrouble, notes>>

HostEnds ==
  /\ taskUp /\ Trouble
  /\ taskUp' = FALSE /\ sweepAt' = "idle" /\ recurring' = {}
  /\ UNCHANGED <<table, runAck, commands, calls, notes>>

HostStarts ==
  /\ ~taskUp
  /\ taskUp' = TRUE
  /\ UNCHANGED <<table, runAck, commands, calls, sweepAt, recurring, taskTrouble, notes>>

Next ==
  \/ \E c \in Commands : ToolCall(c)
  \/ Deliver \/ DeliverCutShort
  \/ \E k \in Occurrences :
       \/ StartRun(k) \/ EndRun(k) \/ RunLost(k)
       \/ handleRecurrence(k) \/ RecurrenceCutShort(k) \/ RecurrenceFails(k)
  \/ syncProcessingAcks \/ getCompletedRecurring \/ SweepEnds
  \/ HostEnds \/ HostStarts

Spec == Init /\ [][Next]_vars

----------------------------------------------------------------------------
(* Properties.                                                              *)

\* A series has one live occurrence at a time; a second one needs a host that
\* ended between the insert of the next row and the clear of the old flag.
OneLiveOccurrence == forked \/ Cardinality(Live) <= 1

\* A cancel ends the series for good: afterwards no row is live and none will
\* be inserted, unless the cancel met a completed row still to recur, which
\* cancel_task does not touch.
CancelSticks == (cancelled /\ ~missed) => (Live = {} /\ Between = {})

\* A recurring task goes on until it is cancelled, made a one-shot or dead-
\* lettered: a row is live, or completed with its next one still to come.
SeriesGoesOn ==
  (status[1] # "none" /\ ~cancelled /\ ~ended) => Live \cup Between # {}

\* A paused series starts no run; a pause is lost only when it met a run
\* under way, whose ack overwrites it, or a completed row still to recur.
PauseHolds == ranPaused => (inRun \/ missed)

\* An update the agent was not told to have failed is in every live row: the
\* next occurrence is copied from a row that has it.
UpdatesCarried == forked \/ \A k \in Live : prompt[k] = updates

\* A series does what its last commands said: one occurrence at a time, going
\* on until it is ended, quiet while paused, with the updates it was given.
SeriesAsCommanded ==
  /\ TypeOK
  /\ OneLiveOccurrence
  /\ CancelSticks
  /\ SeriesGoesOn
  /\ PauseHolds
  /\ UpdatesCarried
=============================================================================
