----------------------------- MODULE RoutedTurn -----------------------------
(***************************************************************************)
(* The routing phase of the frontdesk and what enforces it.  A routed turn  *)
(* asks the routing model for a decision; a delegation is written by the    *)
(* runner itself, every other action runs the agent behind a gate that is a *)
(* row of the session's own database.  Tools run in a child process, which  *)
(* reads the gate and keeps the last classification in its own memory.  The *)
(* host reads the rows in order, logs the classifications and links each to *)
(* the message that carried it out.                                         *)
(***************************************************************************)
EXTENDS Integers, Sequences, FiniteSets

CONSTANTS
  Turns,          \* triggering messages of the session
  Routed,         \* those from a channel; the rest come from agents and tasks
  Places,         \* channels
  OriginOf,       \* the channel of each turn
  Staff,          \* workers
  ToolActions,    \* actions the agent names when it classifies by itself
  RetryTimes,     \* retryTimes of the routing configuration
  MaxOutRows,     \* bound: outbound rows
  MaxLag,         \* bound: rows the host has not handled yet
  MaxRouteTrouble \* bound: crashes and changes of the destinations

VARIABLES
  progress,     \* messages_in / processing_ack of each turn
  phase,        \* where the poll loop is
  gate,         \* session_state: routing:active_gate
  childId,      \* currentClassificationId of the tools' process
  staffed,      \* the workers of the destinations table
  outRows,      \* messages_out
  taken,        \* how many of them the host has handled
  logged,       \* classification_log by id
  issued,       \* ids given out so far
  routeTrouble,
  cutAfter      \* history: crashes of a turn after its delegation was written

vars == <<progress, phase, gate, childId, staffed, outRows, taken, logged, issued, routeTrouble, cutAfter>>

None    == 0
NoTurn  == "noturn"
NoGate  == [id |-> None, action |-> "none", origin |-> "none"]
Idle    == [at |-> "idle", turn |-> NoTurn, tries |-> 0, offered |-> {}, id |-> None, action |-> "none", target |-> "none"]
Actions == {"delegate", "answer_self", "clarify", "reject"}
FallbackActions == {"clarify", "reject"}
Ids     == 0..MaxOutRows
Row(kind, id, to, t, action) == [kind |-> kind, id |-> id, to |-> to, turn |-> t, action |-> action]
NoEntry == [action |-> "none", outcome |-> None, turn |-> NoTurn]

TypeOK ==
  /\ progress \in [Turns -> {"pending", "processing", "done"}]
  /\ phase.at \in {"idle", "attempt", "waiting", "decided", "delegate", "gate", "execute", "ack"}
  /\ phase.offered \subseteq Staff /\ phase.tries \in 0..RetryTimes + 1
  /\ gate.id \in 0..issued /\ childId \in 0..issued /\ staffed \subseteq Staff
  /\ Len(outRows) <= MaxOutRows /\ taken \in 0..Len(outRows)
  /\ \A i \in 1..Len(outRows) : outRows[i].id \in 0..issued
  /\ DOMAIN logged = 1..issued /\ \A d \in 1..issued : logged[d].outcome \in 0..taken
  /\ routeTrouble \in 0..MaxRouteTrouble

Init ==
  /\ progress = [t \in Turns |-> "pending"] /\ phase = Idle
  /\ gate = NoGate /\ childId = None /\ staffed = Staff
  /\ outRows = <<>> /\ taken = 0 /\ logged = <<>> /\ issued = 0 /\ routeTrouble = 0
  /\ cutAfter = [t \in Turns |-> 0]

Trouble == routeTrouble < MaxRouteTrouble /\ routeTrouble' = routeTrouble + 1
Room == Len(outRows) < MaxOutRows /\ Len(outRows) - taken < MaxLag
Write(row) == Room /\ outRows' = Append(outRows, row)
NewId == issued + 1
Issue == issued' = NewId /\ logged' = Append(logged, NoEntry)
host == <<taken, logged>>

----------------------------------------------------------------------------
(* The routing phase.                                                       *)

\* Mutant: the gate of a run that crashed stays.
gateAtClaim == gate

\* The gate of an earlier run is dropped before a turn starts.
gateAtStart == NoGate

\* A turn is claimed; only one that a channel triggered is routed.
Claim(t) ==
  /\ phase.at = "idle" /\ progress[t] = "pending"
  /\ progress' = [progress EXCEPT ![t] = "processing"]
  /\ gate' = gateAtStart
  /\ IF t \in Routed
     THEN phase' = [Idle EXCEPT !.at = "attempt", !.turn = t, !.id = NewId] /\ Issue
     ELSE phase' = [Idle EXCEPT !.at = "execute", !.turn = t] /\ UNCHANGED <<issued, logged>>
  /\ UNCHANGED <<childId, staffed, outRows, taken, routeTrouble, cutAfter>>

Decided(action, target) == [phase EXCEPT !.at = "decided", !.tries = 0, !.offered = {}, !.action = action, !.target = target]
only == <<progress, gate, childId, staffed, outRows, host, issued, routeTrouble, cutAfter>>

fallbackDecision == \E a \in FallbackActions : phase' = Decided(a, "none")

\* An attempt loads the prompt and shows the workers of the moment; a prompt
\* that is missing or a context that does not fit ends the attempts.
buildRoutingContext ==
  /\ phase.at = "attempt"
  /\ phase' = [phase EXCEPT !.at = "waiting", !.offered = staffed, !.tries = @ + 1]
  /\ UNCHANGED only

loadRoutingPromptFails ==
  /\ phase.at = "attempt" /\ fallbackDecision
  /\ UNCHANGED only

\* The model's answer is valid: a delegation names a worker it was shown; one
\* of low confidence becomes the configured action.
parseDecision ==
  /\ phase.at = "waiting"
  /\ \/ \E w \in phase.offered : phase' = Decided("delegate", w)
     \/ \E a \in Actions \ {"delegate"} : phase' = Decided(a, "none")
  /\ UNCHANGED only

\* A timeout, an error, or an answer that does not parse.
queryOnceFails(retryable) ==
  /\ phase.at = "waiting"
  /\ IF retryable /\ phase.tries <= RetryTimes
     THEN phase' = [phase EXCEPT !.at = "attempt"]
     ELSE fallbackDecision
  /\ UNCHANGED only

writeRoutingClassification ==
  /\ phase.at = "decided"
  /\ Write(Row("class", phase.id, "none", phase.turn, phase.action))
  /\ phase' = [phase EXCEPT !.at = IF phase.action = "delegate" THEN "delegate" ELSE "gate"]
  /\ UNCHANGED <<progress, gate, childId, staffed, host, issued, routeTrouble, cutAfter>>

\* A delegation is all there is to the turn.
afterDelegation == "ack"

\* The delegation carries the id of the decision.
delegationId == phase.id

writeDirectDelegation ==
  /\ phase.at = "delegate"
  /\ Write(Row("agent", delegationId, phase.target, phase.turn, "none"))
  /\ phase' = [phase EXCEPT !.at = afterDelegation]
  /\ UNCHANGED <<progress, gate, childId, staffed, host, issued, routeTrouble, cutAfter>>

setRoutingGate ==
  /\ phase.at = "gate"
  /\ gate' = [id |-> phase.id, action |-> phase.action, origin |-> OriginOf[phase.turn]]
  /\ phase' = [phase EXCEPT !.at = "execute"]
  /\ UNCHANGED <<progress, childId, staffed, outRows, host, issued, routeTrouble, cutAfter>>

----------------------------------------------------------------------------
(* The agent at work.                                                       *)

\* A channel must be the one that asked; no worker, as a delegation never gets
\* this far.
enforceRoutingDestination(to) == gate = NoGate \/ to = gate.origin

\* The tool refuses under a gate.
classifyIntent(action) ==
  /\ phase.at = "execute" /\ gate = NoGate
  /\ Issue /\ childId' = NewId
  /\ Write(Row("class", NewId, "none", phase.turn, action))
  /\ UNCHANGED <<progress, phase, gate, staffed, taken, routeTrouble, cutAfter>>

Kind(to) == IF to \in Places THEN "channel" ELSE "agent"

\* The id of the gate, else one the agent names, else, to a worker, the tools'.
sendMessage(to) ==
  /\ phase.at = "execute" /\ enforceRoutingDestination(to)
  /\ to \in Places \cup staffed
  /\ \E named \in 1..issued \cup {IF to \in Places THEN None ELSE childId} :
       Write(Row(Kind(to), IF gate # NoGate THEN gate.id ELSE named, to, phase.turn, "none"))
  /\ UNCHANGED <<progress, phase, gate, childId, staffed, host, issued, routeTrouble, cutAfter>>

\* An edit or a reaction goes where the message it is about went or came from,
\* and carries no id.
editMessage(to) ==
  /\ phase.at = "execute" /\ enforceRoutingDestination(to)
  /\ \/ \E t \in Turns : progress[t] # "pending" /\ OriginOf[t] = to
     \/ \E i \in 1..Len(outRows) : outRows[i].to = to
  /\ Write(Row(Kind(to), None, to, phase.turn, "none"))
  /\ UNCHANGED <<progress, phase, gate, childId, staffed, host, issued, routeTrouble, cutAfter>>

\* An escalation or feedback on the routing, which the host only records.
escalateToHuman ==
  /\ phase.at = "execute"
  /\ Write(Row("note", None, "none", phase.turn, "none"))
  /\ UNCHANGED <<progress, phase, gate, childId, staffed, host, issued, routeTrouble, cutAfter>>

\* A card in the conversation the session is bound to.
askUserQuestion ==
  /\ phase.at = "execute" /\ enforceRoutingDestination(OriginOf[phase.turn])
  /\ Write(Row("ask", gate.id, OriginOf[phase.turn], phase.turn, "none"))
  /\ UNCHANGED <<progress, phase, gate, childId, staffed, host, issued, routeTrouble, cutAfter>>

\* The final text, dispatched by the loop: its process never learns the id of a
\* classification.  A refused destination is dropped.
dispatchResultText ==
  /\ phase.at = "execute"
  /\ \/ \E to \in Places \cup staffed :
          enforceRoutingDestination(to) /\ Write(Row(Kind(to), gate.id, to, phase.turn, "none"))
     \/ UNCHANGED outRows
  /\ phase' = [phase EXCEPT !.at = "ack"]
  /\ UNCHANGED <<progress, gate, childId, staffed, host, issued, routeTrouble, cutAfter>>

\* The rows are acknowledged and the gate goes.
TurnEnds ==
  /\ phase.at = "ack"
  /\ progress' = [progress EXCEPT ![phase.turn] = "done"]
  /\ gate' = NoGate /\ phase' = Idle
  /\ UNCHANGED <<childId, staffed, outRows, host, issued, routeTrouble, cutAfter>>

\* The container dies: the host gives the claim back, the gate is still there.
Crash ==
  /\ phase.at # "idle" /\ Trouble
  /\ progress' = [progress EXCEPT ![phase.turn] = "pending"]
  /\ cutAfter' = IF phase.at = "ack" /\ phase.action = "delegate"
                 THEN [cutAfter EXCEPT ![phase.turn] = @ + 1] ELSE cutAfter
  /\ phase' = Idle /\ childId' = None
  /\ UNCHANGED <<gate, staffed, outRows, host, issued>>

\* The tools' process ends with a query, or lives on, as the provider has it.
ChildEnds ==
  /\ phase.at = "idle" /\ childId # None
  /\ childId' = None
  /\ UNCHANGED <<progress, phase, gate, staffed, outRows, host, issued, routeTrouble, cutAfter>>

replaceDestinations ==
  /\ Trouble
  /\ \E S \in SUBSET Staff : staffed' = S
  /\ UNCHANGED <<progress, phase, gate, childId, outRows, host, issued, cutAfter>>

----------------------------------------------------------------------------
(* The host.                                                                *)

surfaceAction == [agent |-> "delegate", ask |-> "clarify", channel |-> "answer_self"]

\* The classification is in the log, says what the row does, and is not linked.
linkOutcome(row, surface) ==
  /\ row.id # None /\ logged[row.id].action = surfaceAction[surface]
  /\ logged[row.id].outcome = None

\* A card is looked at twice, as a question and as a message of a channel.
Surfaces(row) == IF row.kind = "ask" THEN {"ask", "channel"} ELSE {row.kind}

\* The rows are handled in order; a row that cannot be delivered is linked all
\* the same.
reconcileClassification ==
  LET row == outRows[taken + 1]
  IN  /\ taken < Len(outRows) /\ row.kind \in {"agent", "channel", "ask"}
      /\ taken' = taken + 1
      /\ logged' = IF \E surface \in Surfaces(row) : linkOutcome(row, surface)
                   THEN [logged EXCEPT ![row.id].outcome = taken + 1] ELSE logged
      /\ UNCHANGED <<progress, phase, gate, childId, staffed, outRows, issued, routeTrouble, cutAfter>>

\* A refusal or an answer of one's own has its outcome at once.
handleClassifyIntent ==
  LET row == outRows[taken + 1]
  IN  /\ taken < Len(outRows) /\ row.kind = "class"
      /\ taken' = taken + 1
      /\ logged' = [logged EXCEPT ![row.id] =
           [action |-> row.action, turn |-> row.turn,
            outcome |-> IF row.action \in {"reject", "answer_self"} THEN taken + 1 ELSE None]]
      /\ UNCHANGED <<progress, phase, gate, childId, staffed, outRows, issued, routeTrouble, cutAfter>>

\* An entry of its own, with its outcome.
handleRoutingFeedback ==
  /\ taken < Len(outRows) /\ outRows[taken + 1].kind = "note"
  /\ taken' = taken + 1
  /\ UNCHANGED <<progress, phase, gate, childId, staffed, outRows, logged, issued, routeTrouble, cutAfter>>

Next ==
  \/ \E t \in Turns : Claim(t)
  \/ buildRoutingContext \/ loadRoutingPromptFails \/ parseDecision
  \/ \E retryable \in BOOLEAN : queryOnceFails(retryable)
  \/ writeRoutingClassification \/ writeDirectDelegation \/ setRoutingGate
  \/ \E a \in ToolActions : classifyIntent(a)
  \/ \E to \in Places \cup Staff : sendMessage(to)
  \/ \E to \in Places \cup Staff : editMessage(to)
  \/ escalateToHuman
  \/ askUserQuestion \/ dispatchResultText \/ TurnEnds \/ Crash \/ ChildEnds \/ replaceDestinations
  \/ reconcileClassification \/ handleClassifyIntent \/ handleRoutingFeedback

Spec == Init /\ [][Next]_vars

----------------------------------------------------------------------------
(* Properties.                                                              *)

(* The gate in force while an agent works is that of its own turn, and a     *)
(* turn that is not routed works without one, although the gate survives the *)
(* container that set it.                                                    *)
GateIsOwn ==
  phase.at = "execute" =>
    IF phase.turn \in Routed
    THEN gate.id = phase.id /\ gate.origin = OriginOf[phase.turn]
    ELSE gate = NoGate

(* Whatever a routed turn sends, by tool or as its final text, before or     *)
(* after a crash, goes back to the channel that asked, or is the delegation  *)
(* the runner decided on.                                                    *)
RoutedStaysHome ==
  \A i \in 1..Len(outRows) :
    LET row == outRows[i]
    IN  (row.turn \in Routed /\ row.kind \in {"agent", "channel", "ask"}) =>
          \/ row.to = OriginOf[row.turn]
          \/ /\ row.kind = "agent"
             /\ \E j \in 1..i : outRows[j] = Row("class", row.id, "none", row.turn, "delegate")

(* A routed message is handed to at most one worker, once more for every     *)
(* crash between the delegation and its acknowledgement.                     *)
DelegatedOnce ==
  \A t \in Routed :
    Cardinality({i \in 1..Len(outRows) : outRows[i].turn = t /\ outRows[i].kind = "agent"}) <= 1 + cutAfter[t]

(* The outcome a classification is linked to did what the classification     *)
(* said: no acknowledgement takes the place of the delegation.               *)
OutcomeTrue ==
  \A d \in 1..issued :
    LET e == logged[d]
    IN  (e.outcome # None /\ outRows[e.outcome].kind # "class") =>
          /\ outRows[e.outcome].id = d
          /\ \E surface \in Surfaces(outRows[e.outcome]) : surfaceAction[surface] = e.action

(* A delegation the runner decided on is linked as soon as the host has      *)
(* handled it, so the decision was in the log by then.                       *)
DelegationLinked ==
  \A i \in 1..taken :
    (outRows[i].kind = "agent" /\ outRows[i].turn \in Routed) =>
      outRows[i].id # None /\ logged[outRows[i].id].outcome # None

\* A routed turn works under its own decision, sends nothing elsewhere, delegates
\* once and is logged as what it did.
RoutingHolds ==
  /\ TypeOK
  /\ GateIsOwn
  /\ RoutedStaysHome
  /\ DelegatedOnce
  /\ OutcomeTrue
  /\ DelegationLinked
=============================================================================
