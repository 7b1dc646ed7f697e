----------------------------- MODULE Questions -----------------------------
(***************************************************************************)
(* ask_user_question: the tool in the container writes a card to            *)
(* messages_out and polls messages_in; the delivery loop records a pending  *)
(* question and sends the card, again after a failure; a click, or the word *)
(* cancel typed by the owner of the session, writes a response row and      *)
(* deletes the pending question.  The cancel run reads its list once and    *)
(* awaits a wake after every question.                                      *)
(***************************************************************************)
EXTENDS Integers, Sequences, FiniteSets

CONSTANTS
  Questions,
  Users,
  Owner,         \* owner_user_id of a question's session, or none of Users
  MaxSends,      \* MAX_DELIVERY_ATTEMPTS
  MaxReplies,    \* bound: clicks and cancel words
  MaxAskTrouble  \* bound: failed sends, stops, ended containers

VARIABLES
  asker,     \* the tool call: "idle", "polling", its result, or "gone"
  sendAt,    \* the card row: "none", "due", "sending", "sent", "failed"
  sends,     \* attempts that failed
  pendingQ,  \* pending_questions
  shown,     \* cards on a screen
  answers,   \* question_response rows in messages_in, oldest first
  cancelRun, \* what the running cancel still has to resolve
  canceller, \* who typed it
  replies, askTrouble, askUp,
  recorded,  \* history: questions that had a row
  pruned,    \* history: questions whose row was pruned
  shownTwice,\* history: recorded again after an answer, by a retried send
  crossed,   \* history: cancelled by a list read before the answer
  cutShort,  \* history: the host ended between the response and the delete
  cancelled  \* history: <<user, question>> a cancel resolved

outside == <<replies, askTrouble, askUp>>
history == <<recorded, pruned, shownTwice, crossed, cutShort, cancelled>>
vars == <<asker, sendAt, sends, pendingQ, shown, answers, cancelRun, canceller, outside, history>>

Results == {"yes", "__cancelled__"}
NoOne   == "nobody"

TypeOK ==
  /\ asker \in [Questions -> {"idle", "polling", "timeout", "gone"} \cup Results]
  /\ sendAt \in [Questions -> {"none", "due", "sending", "sent", "failed"}]
  /\ sends \in [Questions -> 0..MaxSends]
  /\ pendingQ \subseteq Questions /\ shown \subseteq Questions /\ cancelRun \subseteq Questions
  /\ \A q \in Questions : \A k \in DOMAIN answers[q] : answers[q][k] \in Results
  /\ canceller \in Users \cup {NoOne}
  /\ askUp \in BOOLEAN

Init ==
  /\ asker = [q \in Questions |-> "idle"]
  /\ sendAt = [q \in Questions |-> "none"] /\ sends = [q \in Questions |-> 0]
  /\ pendingQ = {} /\ shown = {} /\ cancelRun = {} /\ canceller = NoOne
  /\ answers = [q \in Questions |-> <<>>]
  /\ replies = 0 /\ askTrouble = 0 /\ askUp = TRUE
  /\ recorded = {} /\ pruned = {} /\ shownTwice = {} /\ crossed = {} /\ cutShort = {} /\ cancelled = {}

Trouble == askTrouble < MaxAskTrouble /\ askTrouble' = askTrouble + 1
Reply   == replies < MaxReplies /\ replies' = replies + 1
Sends(q, s) == sendAt' = [sendAt EXCEPT ![q] = s]

----------------------------------------------------------------------------
(* The tool call.                                                           *)

askUserQuestion(q) ==
  /\ asker[q] = "idle"
  /\ asker' = [asker EXCEPT ![q] = "polling"]
  /\ Sends(q, "due")
  /\ UNCHANGED <<sends, pendingQ, shown, answers, cancelRun, canceller, outside, history>>

\* The oldest response that is not acked becomes the result.
findQuestionResponse(q) ==
  /\ asker[q] = "polling" /\ answers[q] # <<>>
  /\ asker' = [asker EXCEPT ![q] = Head(answers[q])]
  /\ UNCHANGED <<sendAt, sends, pendingQ, shown, answers, cancelRun, canceller, outside, history>>

\* Past the deadline the tool gives up, whatever arrives later.
AskTimesOut(q) ==
  /\ asker[q] = "polling"
  /\ asker' = [asker EXCEPT ![q] = "timeout"]
  /\ UNCHANGED <<sendAt, sends, pendingQ, shown, answers, cancelRun, canceller, outside, history>>

ContainerEnds ==
  /\ Trouble
  /\ asker' = [q \in Questions |-> IF asker[q] = "polling" THEN "gone" ELSE asker[q]]
  /\ UNCHANGED <<sendAt, sends, pendingQ, shown, answers, cancelRun, canceller, replies, askUp,
                 history>>

----------------------------------------------------------------------------
(* The card.                                                                *)

\* INSERT OR IGNORE, on every attempt.
createPendingQuestion(q) == pendingQ' = pendingQ \cup {q}

SendCard(q) ==
  /\ askUp /\ sendAt[q] = "due"
  /\ createPendingQuestion(q)
  /\ recorded' = recorded \cup {q}
  /\ Sends(q, "sending")
  /\ shownTwice' = IF answers[q] # <<>> THEN shownTwice \cup {q} ELSE shownTwice
  /\ UNCHANGED <<asker, sends, shown, answers, cancelRun, canceller, outside, pruned, crossed,
                 cutShort, cancelled>>

CardAppears(q) ==
  /\ sendAt[q] = "sending" /\ q \notin shown
  /\ shown' = shown \cup {q}
  /\ UNCHANGED <<asker, sendAt, sends, pendingQ, answers, cancelRun, canceller, outside, history>>

SendSucceeds(q) ==
  /\ askUp /\ sendAt[q] = "sending" /\ q \in shown
  /\ Sends(q, "sent")
  /\ UNCHANGED <<asker, sends, pendingQ, shown, answers, cancelRun, canceller, outside, history>>

\* A failure or a timeout, also for a card that did appear; the pending
\* question stays, also once the row is given up.
SendFails(q) ==
  /\ askUp /\ sendAt[q] = "sending" /\ Trouble
  /\ sends' = [sends EXCEPT ![q] = @ + 1]
  /\ Sends(q, IF sends'[q] < MaxSends THEN "due" ELSE "failed")
  /\ UNCHANGED <<asker, pendingQ, shown, answers, cancelRun, canceller, replies, askUp,
                 history>>

----------------------------------------------------------------------------
(* The answer.                                                              *)

\* The response row, then the delete, whatever the row is by now.
resolvePendingQuestion(q, v) ==
  /\ answers' = [answers EXCEPT ![q] = Append(@, v)]
  /\ pendingQ' = pendingQ \ {q}

\* A click: claimed when the question is pending.
handleInteractiveResponse(q) ==
  /\ askUp /\ q \in shown /\ Reply
  /\ IF q \in pendingQ THEN resolvePendingQuestion(q, "yes") ELSE UNCHANGED <<answers, pendingQ>>
  /\ UNCHANGED <<asker, sendAt, sends, shown, cancelRun, canceller, askTrouble, askUp, history>>

\* Mutant: the delete comes first, and the host ends after it.
ClickCutShortDeleting(q) ==
  /\ askUp /\ q \in shown /\ q \in pendingQ /\ Reply /\ Trouble
  /\ pendingQ' = pendingQ \ {q}
  /\ askUp' = FALSE
  /\ cancelRun' = {} /\ canceller' = NoOne
  /\ cutShort' = cutShort \cup {q}
  /\ UNCHANGED <<asker, sendAt, sends, shown, answers, recorded, pruned, shownTwice, crossed,
                 cancelled>>

\* The host ends between the two writes of a click.
ClickCutShort(q) ==
  /\ askUp /\ q \in shown /\ q \in pendingQ /\ Reply /\ Trouble
  /\ answers' = [answers EXCEPT ![q] = Append(@, "yes")]
  /\ askUp' = FALSE
  /\ cancelRun' = {} /\ canceller' = NoOne
  /\ cutShort' = cutShort \cup {q}
  /\ UNCHANGED <<asker, sendAt, sends, pendingQ, shown, recorded, pruned, shownTwice, crossed,
                 cancelled>>

findCancelablePendingQuestions(u) == {q \in pendingQ : Owner[q] = u}

\* The interceptor: nothing to cancel lets the word through to the agent.
TypeCancel(u) ==
  /\ askUp /\ cancelRun = {} /\ Reply
  /\ cancelRun' = findCancelablePendingQuestions(u)
  /\ canceller' = IF cancelRun' = {} THEN NoOne ELSE u
  /\ UNCHANGED <<asker, sendAt, sends, pendingQ, shown, answers, askTrouble, askUp, history>>

\* The next question of the list; a wake that throws changes nothing here.
CancelNext(q) ==
  /\ askUp /\ q \in cancelRun
  /\ resolvePendingQuestion(q, "__cancelled__")
  /\ cancelRun' = cancelRun \ {q}
  /\ canceller' = IF cancelRun' = {} THEN NoOne ELSE canceller
  /\ crossed' = IF q \in pendingQ THEN crossed ELSE crossed \cup {q}
  /\ cancelled' = cancelled \cup {<<canceller, q>>}
  /\ UNCHANGED <<asker, sendAt, sends, shown, outside, recorded, pruned, shownTwice, cutShort>>

\* The sweep prunes rows older than days; a tool call waits minutes.
deleteStalePendingQuestions(q) ==
  /\ askUp /\ q \in pendingQ /\ asker[q] # "polling" /\ Trouble
  /\ pendingQ' = pendingQ \ {q}
  /\ pruned' = pruned \cup {q}
  /\ UNCHANGED <<asker, sendAt, sends, shown, answers, cancelRun, canceller, replies, askUp,
                 recorded, shownTwice, crossed, cutShort, cancelled>>

HostEnds ==
  /\ askUp /\ Trouble
  /\ askUp' = FALSE
  /\ cancelRun' = {} /\ canceller' = NoOne
  /\ UNCHANGED <<asker, sendAt, sends, pendingQ, shown, answers, replies, history>>

\* An attempt the end cut off was not recorded: the card row is due again.
HostStarts ==
  /\ ~askUp
  /\ askUp' = TRUE
  /\ sendAt' = [q \in Questions |-> IF sendAt[q] = "sending" THEN "due" ELSE sendAt[q]]
  /\ UNCHANGED <<asker, sends, pendingQ, shown, answers, cancelRun, canceller, replies,
                 askTrouble, history>>

QuestionStep(q) ==
  \/ askUserQuestion(q) \/ findQuestionResponse(q) \/ AskTimesOut(q)
  \/ SendCard(q) \/ CardAppears(q) \/ SendSucceeds(q) \/ SendFails(q)
  \/ handleInteractiveResponse(q) \/ ClickCutShort(q) \/ CancelNext(q)
  \/ deleteStalePendingQuestions(q)

Next ==
  \/ \E q \in Questions : QuestionStep(q)
  \/ \E u \in Users : TypeCancel(u)
  \/ ContainerEnds \/ HostEnds \/ HostStarts

Spec == Init /\ [][Next]_vars

----------------------------------------------------------------------------
(* Properties.                                                              *)

\* No answer is swallowed: a question that was recorded and is pending no
\* more has a response row for the tool to find, unless the sweep pruned it,
\* also when the host ends in the middle of a click.
NoAnswerSwallowed ==
  \A q \in Questions :
    (q \in recorded /\ q \notin pendingQ) => (answers[q] # <<>> \/ q \in pruned)

\* A second response row, which no tool call reads and the sweep counts as
\* due for ever, needs one of three races: the card was recorded again after
\* the answer, the cancel list was older than the answer, or the host ended
\* between the response and the delete.
SecondAnswerExplained ==
  \A q \in Questions :
    Len(answers[q]) > 1 => q \in shownTwice \cup crossed \cup cutShort

\* A cancel word resolves questions of the sessions its author owns and no
\* others, also after the awaits of the cancel run.
CancelOnlyOwn == \A x \in cancelled : Owner[x[2]] = x[1]

\* Every answer reaches its asker, once unless a named race doubled it, and a
\* cancel word touches nobody else's question.
AnswersArrive ==
  /\ TypeOK
  /\ NoAnswerSwallowed
  /\ SecondAnswerExplained
  /\ CancelOnlyOwn
=============================================================================
