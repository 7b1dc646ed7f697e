---------------------------- MODULE ProviderTurn ----------------------------
(***************************************************************************)
(* A query of the OpenAI-compatible provider under the poll loop.  A turn   *)
(* restores the conversation, compacts it when it is large, and asks the    *)
(* model until it stops calling tools.  A follow-up aborts the turn and     *)
(* starts another with the follow-up as its prompt; the endpoint may refuse *)
(* a previous response or the whole responses API; the container may die.   *)
(* Three copies of the conversation exist: the provider's, the stored one,  *)
(* and the poll loop's.                                                     *)
(***************************************************************************)
EXTENDS Integers, Sequences, FiniteSets

CONSTANTS
  Prompts,         \* formatted batches of messages
  MaxResponses,    \* bound: answers of the endpoint
  MaxTurnTrouble   \* bound: errors, compactions, crashes

VARIABLES
  memory,      \* the poll loop's continuation
  stored,      \* session_state: the persisted one
  cont,        \* the query's continuation
  reported,    \* the continuation of the query's last init event
  turn,        \* the turn under way
  slot,        \* pendingFollowUp
  abortTurn,   \* the turn's signal is aborted
  first,       \* the query's own prompt
  batch,       \* the rows this query will acknowledge with its next result
  claimed,     \* the rows this container has claimed
  toolList,    \* toolsPromise of the bridge: "unasked", "loaded" or "rejected"
  server,      \* what the endpoint stored under each response id
  turnTrouble,
  acked, seen, \* history: prompts acknowledged; prompts in an answered request
  talkedOver,  \* history: prompts a follow-up took the turn or the slot from
  apologised,  \* history: prompts answered with an error
  told, toldBefore, \* history: prompts the conversation answered, now and when
               \* the query began
  trimmed,     \* history: prompts cut off a transcript and not answered since
  stale        \* history: a request revived the context a compaction replaced

convs == <<memory, stored, cont, reported>>
past == <<acked, seen, talkedOver, apologised, told, toldBefore, trimmed, stale>>
vars == <<convs, turn, slot, abortTurn, first, batch, claimed, toolList, server, turnTrouble, past>>

None     == 0
NoPrompt == "none"
Summary  == "summary"
Reminder == "reminder"
Items    == Prompts \cup {Summary, Reminder}
NoCont == [mode |-> "responses", transport |-> "responses", id |-> None, items |-> {}]
NoTurn == [at |-> "idle", prompt |-> NoPrompt, conv |-> NoCont, all |-> FALSE, compacted |-> FALSE]
Convs == [mode : {"responses", "stateless"}, transport : {"responses", "chat"},
          id : 0..MaxResponses, items : SUBSET Items]

TypeOK ==
  /\ memory \in Convs /\ stored \in Convs /\ cont \in Convs /\ reported \in Convs
  /\ turn.at \in {"idle", "tools", "size", "request", "calls", "done", "after"}
  /\ turn.prompt \in Prompts \cup {NoPrompt} /\ turn.conv \in Convs
  /\ slot \in Prompts \cup {NoPrompt} /\ abortTurn \in BOOLEAN /\ batch \subseteq claimed
  /\ first \in Prompts \cup {NoPrompt} /\ claimed \subseteq Prompts
  /\ toolList \in {"unasked", "loaded", "rejected"}
  /\ \A i \in 1..Len(server) : server[i] \subseteq Items
  /\ turnTrouble \in 0..MaxTurnTrouble
  /\ acked \cup seen \cup talkedOver \cup apologised \cup told \cup toldBefore \cup trimmed \subseteq Prompts

Init ==
  /\ memory = NoCont /\ stored = NoCont /\ cont = NoCont /\ reported = NoCont
  /\ turn = NoTurn /\ slot = NoPrompt /\ abortTurn = FALSE /\ first = NoPrompt /\ batch = {} /\ claimed = {}
  /\ toolList = "unasked" /\ server = <<>> /\ turnTrouble = 0
  /\ acked = {} /\ seen = {} /\ talkedOver = {} /\ apologised = {} /\ told = {} /\ toldBefore = {}
  /\ trimmed = {} /\ stale = FALSE

Trouble == turnTrouble < MaxTurnTrouble /\ turnTrouble' = turnTrouble + 1
InQuery == turn.at # "idle"
Begin(p) == [NoTurn EXCEPT !.at = "tools", !.prompt = p]

----------------------------------------------------------------------------
(* The poll loop.                                                           *)

\* A batch of rows becomes a query from the loop's own continuation.
query(p) ==
  /\ ~InQuery /\ p \notin acked \cup claimed
  /\ turn' = Begin(p) /\ cont' = memory /\ reported' = memory
  /\ slot' = NoPrompt /\ abortTurn' = FALSE /\ first' = p /\ batch' = {p}
  /\ claimed' = claimed \cup {p} /\ toldBefore' = told
  /\ UNCHANGED <<memory, stored, toolList, server, turnTrouble, acked, seen, talkedOver, apologised,
                 told, trimmed, stale>>

\* Mutant: a follow-up is acknowledged when it is pushed.
ackAtPush(p) == {p}

\* Nothing has been produced for a follow-up yet.
ackOf(p) == {}

\* A follow-up: one slot, and the turn is aborted.  From a response's last byte
\* to the end of its result event the runtime does not run the poll timer.
push(p) ==
  /\ turn.at \in {"tools", "size", "request", "calls"} /\ p \notin acked \cup claimed
  /\ slot' = p /\ abortTurn' = TRUE /\ batch' = batch \cup {p}
  /\ claimed' = claimed \cup {p}
  /\ acked' = acked \cup ackOf(p)
  /\ talkedOver' = talkedOver \cup (IF slot = NoPrompt THEN {} ELSE {slot})
  /\ UNCHANGED <<convs, turn, first, toolList, server, turnTrouble, seen, apologised, told,
                 toldBefore, trimmed, stale>>

\* The query is over: the loop takes the last reported continuation.
QueryEnds ==
  /\ turn.at = "after" /\ slot = NoPrompt
  /\ memory' = reported
  /\ stored' = IF reported # memory THEN reported ELSE stored
  /\ turn' = NoTurn /\ batch' = {} /\ acked' = acked \cup {first}
  /\ UNCHANGED <<cont, reported, slot, abortTurn, first, claimed, toolList, server, turnTrouble, seen, talkedOver,
                 apologised, told, toldBefore, trimmed, stale>>

NextTurn ==
  /\ turn.at = "after" /\ slot # NoPrompt
  /\ turn' = Begin(slot) /\ slot' = NoPrompt /\ abortTurn' = FALSE
  /\ UNCHANGED <<convs, first, batch, claimed, toolList, server, turnTrouble, past>>

\* A turn that throws: the follow-up that aborted it runs in its place, from
\* the continuation the aborted turn began with.  When the error says the
\* loop's continuation is unusable the query's own prompt runs again without
\* one.  Else the query fails: its own rows are acknowledged after an error
\* message, the follow-ups stay claimed, the loop's continuation stays.
Throws(invalid) ==
  /\ slot' = NoPrompt /\ abortTurn' = FALSE
  /\ UNCHANGED <<first, claimed, seen, trimmed>>
  /\ IF abortTurn /\ slot # NoPrompt
     THEN /\ turn' = Begin(slot) /\ talkedOver' = talkedOver \cup {turn.prompt}
          /\ UNCHANGED <<memory, cont, reported, batch, told, toldBefore, acked, apologised>>
     ELSE IF invalid /\ memory # NoCont
     THEN /\ memory' = NoCont /\ cont' = NoCont /\ reported' = NoCont /\ told' = {} /\ toldBefore' = {}
          /\ turn' = Begin(first) /\ batch' = {first} \ acked
          /\ UNCHANGED <<talkedOver, acked, apologised>>
     ELSE /\ turn' = NoTurn /\ batch' = {} /\ told' = toldBefore
          /\ acked' = acked \cup {first} /\ apologised' = apologised \cup {first}
          /\ UNCHANGED <<memory, cont, reported, talkedOver, toldBefore>>

----------------------------------------------------------------------------
(* One turn.                                                                *)

\* The list of tools is loaded once; a failure is kept for the life of the
\* container.
listTools ==
  /\ turn.at = "tools"
  /\ \/ /\ toolList \in {"unasked", "loaded"}
        /\ toolList' = "loaded"
        /\ turn' = [turn EXCEPT !.at = "size",
             !.conv = [cont EXCEPT !.items = @ \cup {turn.prompt},
                                   !.id = IF cont.mode = "responses" THEN @ ELSE None]]
        /\ UNCHANGED <<convs, slot, abortTurn, first, batch, claimed, turnTrouble, past>>
     \/ /\ toolList = "unasked" /\ Trouble
        /\ toolList' = "rejected" /\ Throws(FALSE) /\ UNCHANGED <<stored, stale>>
     \/ /\ toolList = "rejected"
        /\ UNCHANGED toolList /\ Throws(FALSE) /\ UNCHANGED <<stored, turnTrouble, stale>>
  /\ UNCHANGED server

\* The transcript is not too large.
SmallEnough ==
  /\ turn.at = "size"
  /\ turn' = [turn EXCEPT !.at = "request", !.all = turn.conv.mode = "stateless"]
  /\ UNCHANGED <<convs, slot, abortTurn, first, batch, claimed, toolList, server, turnTrouble, past>>

\* The old window becomes a summary; the endpoint's history is left behind.
compacted(c, recent) == [c EXCEPT !.items = {Summary} \cup recent, !.mode = "stateless", !.id = None]

runCompaction ==
  /\ turn.at = "size" /\ Trouble /\ turn.conv.items \cap Prompts # {turn.prompt}
  /\ \E recent \in SUBSET turn.conv.items :
       /\ turn.prompt \in recent /\ ~(turn.conv.items \cap Prompts \subseteq recent)
       /\ turn' = [turn EXCEPT !.at = "request", !.conv = compacted(turn.conv, recent),
                               !.all = compacted(turn.conv, recent).mode = "stateless", !.compacted = TRUE]
  /\ UNCHANGED <<convs, slot, abortTurn, first, batch, claimed, toolList, server, past>>

\* No summary: the oldest items are cut off.
trimTranscript ==
  /\ turn.at = "size" /\ Trouble
  /\ \E kept \in SUBSET turn.conv.items :
       /\ turn.prompt \in kept
       /\ turn' = [turn EXCEPT !.at = "request", !.conv.items = kept, !.all = turn.conv.mode = "stateless"]
       /\ told' = IF Summary \in kept THEN told ELSE told \cap kept
       /\ trimmed' = trimmed \cup (told \ told')
  /\ UNCHANGED <<convs, slot, abortTurn, first, batch, claimed, toolList, server, acked, seen,
                 talkedOver, apologised, toldBefore, stale>>

\* What the model sees: the whole transcript, or the prompt and what the
\* endpoint keeps under the previous response.
Shown ==
  IF turn.all THEN turn.conv.items
  ELSE {turn.prompt} \cup (IF turn.conv.id = None THEN {} ELSE server[turn.conv.id])

Sent ==
  /\ stale' = (stale \/ (~turn.all /\ turn.conv.id # None /\ Summary \in turn.conv.items))

\* The response is stored by the endpoint under a new id.
Answered ==
  /\ Len(server) < MaxResponses
  /\ server' = Append(server, Shown)

NewConv == [turn.conv EXCEPT !.id = IF turn.conv.mode = "responses" THEN Len(server) + 1 ELSE None]

\* Text and no calls: persisted; an answer that reports an error throws after
\* that.
FinalResponse ==
  /\ turn.at = "request" /\ ~abortTurn /\ Answered /\ Sent
  /\ stored' = NewConv
  /\ \/ /\ turn' = [turn EXCEPT !.at = "done", !.conv = NewConv]
        /\ seen' = seen \cup (Shown \cap Prompts)
        /\ UNCHANGED <<memory, cont, reported, slot, abortTurn, first, batch, claimed, turnTrouble,
                       acked, talkedOver, apologised, told, toldBefore, trimmed>>
     \/ Trouble /\ Throws(FALSE)
  /\ UNCHANGED toolList

\* Calls: the tools run to their end, aborted or not, then the conversation is
\* persisted without them.
CallsResponse ==
  /\ turn.at = "request" /\ ~abortTurn /\ Answered /\ Sent
  /\ turn' = [turn EXCEPT !.at = "calls", !.conv = NewConv]
  /\ UNCHANGED <<convs, slot, abortTurn, first, batch, claimed, toolList, turnTrouble, acked, seen,
                 talkedOver, apologised, told, toldBefore, trimmed>>

callTool ==
  /\ turn.at = "calls"
  /\ stored' = turn.conv
  /\ turn' = [turn EXCEPT !.at = "request"]
  /\ UNCHANGED <<memory, cont, reported, slot, abortTurn, first, batch, claimed, toolList, server, turnTrouble, past>>

\* The whole transcript is sent from now on.
stateless(t) == [t EXCEPT !.conv.mode = "stateless", !.conv.id = None, !.all = TRUE]

isPreviousResponseIdUnsupported ==
  /\ turn.at = "request" /\ Trouble
  /\ turn.conv.transport = "responses" /\ turn.conv.mode = "responses" /\ turn.conv.id # None
  /\ turn' = stateless(turn)
  /\ UNCHANGED <<convs, slot, abortTurn, first, batch, claimed, toolList, server, past>>

shouldFallbackToChatCompletions ==
  /\ turn.at = "request" /\ Trouble
  /\ turn.conv.transport = "responses"
  /\ turn' = stateless([turn EXCEPT !.conv.transport = "chat"])
  /\ UNCHANGED <<convs, slot, abortTurn, first, batch, claimed, toolList, server, past>>

\* The last attempt of a request failed, or the response id is not known.
RequestFails(invalid) ==
  /\ turn.at = "request" /\ Trouble
  /\ invalid => turn.conv.id # None
  /\ Throws(invalid)
  /\ stored' = IF memory' = NoCont /\ memory # NoCont THEN NoCont ELSE stored
  /\ UNCHANGED <<toolList, server, stale>>

\* The signal is noticed before a request, during one, and between tools.
AbortSeen ==
  /\ turn.at \in {"size", "request", "calls"} /\ abortTurn /\ slot # NoPrompt
  /\ Throws(FALSE)
  /\ UNCHANGED <<stored, toolList, server, turnTrouble, stale>>

\* init, compacted, result: stored, the reminder folded into the continuation,
\* everything claimed acknowledged.
ReportResult ==
  LET c == turn.conv
      reminded == [c EXCEPT !.items = @ \cup {Reminder}]
  IN  /\ turn.at = "done"
      /\ reported' = c
      /\ cont' = IF turn.compacted THEN reminded ELSE c
      /\ stored' = cont'
      /\ acked' = acked \cup batch /\ batch' = {}
      /\ told' = told \cup {turn.prompt} /\ trimmed' = trimmed \ {turn.prompt}
      /\ turn' = [NoTurn EXCEPT !.at = "after"]
      /\ UNCHANGED <<memory, slot, abortTurn, first, claimed, toolList, server, turnTrouble, seen, talkedOver,
                     apologised, toldBefore, stale>>

\* The container dies and another starts from what is stored: a copy cut short
\* may have been stored by a query that failed before it could say so.
Restart ==
  /\ Trouble
  /\ memory' = stored /\ cont' = NoCont /\ reported' = NoCont
  /\ turn' = NoTurn /\ slot' = NoPrompt /\ abortTurn' = FALSE /\ batch' = {} /\ claimed' = {} /\ toolList' = "unasked"
  /\ told' = told \ (trimmed \ stored.items)
  /\ UNCHANGED <<stored, first, server, acked, seen, talkedOver, apologised, toldBefore, trimmed, stale>>

Next ==
  \/ \E p \in Prompts : query(p) \/ push(p)
  \/ listTools \/ SmallEnough \/ runCompaction \/ trimTranscript
  \/ FinalResponse \/ CallsResponse \/ callTool
  \/ isPreviousResponseIdUnsupported \/ shouldFallbackToChatCompletions
  \/ \E invalid \in BOOLEAN : RequestFails(invalid)
  \/ AbortSeen \/ ReportResult \/ NextTurn \/ QueryEnds \/ Restart

Spec == Init /\ [][Next]_vars

----------------------------------------------------------------------------
(* Properties.                                                              *)

(* Every row acknowledged was in a request the model answered, unless a      *)
(* follow-up took its turn or its place in the slot: fallbacks, retries,     *)
(* compaction, trimming and crashes answer nobody with silence.              *)
SilenceNeedsFollowUp == acked \subseteq seen \cup talkedOver \cup apologised

(* The model never loses an earlier turn of the conversation: a finished     *)
(* turn's prompt stays in the stored copy, the loop's copy or both,          *)
(* whichever way the turn reached the endpoint, until the conversation is    *)
(* cleared or cut; a summary stands for what it replaced.                    *)
ContextKept ==
  (turn.at = "done") => (told \subseteq Shown \/ Summary \in Shown)

(* Once a summary has replaced part of the conversation no request names a   *)
(* previous response: the endpoint would bring back what was cut.            *)
CompactionForks == ~stale

\* Through fallbacks, compaction, trimming, follow-ups and crashes the model's
\* conversation keeps what was said and silence answers nobody but those a
\* follow-up talked over.
ConversationKept ==
  /\ TypeOK
  /\ SilenceNeedsFollowUp
  /\ ContextKept
  /\ CompactionForks
=============================================================================
