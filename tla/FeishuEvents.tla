---------------------------- MODULE FeishuEvents ----------------------------
(***************************************************************************)
(* The receiving side of the Feishu adapter (src/channels/feishu.ts,       *)
(* src/channels/feishu/roster-consent.ts): the two transports, webhook and *)
(* long connection, that may both carry one event and that resend what was *)
(* not acknowledged; the event ids that are remembered so that an event    *)
(* has its effect once; and what the events do - a message handed to the   *)
(* router, a card click handed to the questions and approvals, consent to  *)
(* direct messages given and withdrawn. The host may stop at any time; the *)
(* remembered ids and the grants are in its database.                      *)
(* What happens to a message after onInbound is module Ingress.            *)
(***************************************************************************)
EXTENDS Naturals, FiniteSets

CONSTANTS
    Members,         \* members of the chats (open_ids)
    Nobody,         \* no identity, no scoping, no chat
    Events,         \* ids of what happens on the platform
    EventOf,        \* EventOf[e]: [what, from, chat, expected, identified, slot]
    Seats,          \* roster slots of the one scope considered
    Configs,        \* the adapter's settings: [mode, key], FEISHU_EVENT_MODE and
                    \* whether FEISHU_ENCRYPT_KEY is set
    MaxCopies,      \* times the platform sends one event
    MaxOpen,        \* requests open at a time
    MaxEventTrouble \* failures and restarts

VARIABLES
    conf,         \* the settings this host runs with, never changed
    life,         \* of the adapter: "off", "starting", "connected" or "failed"
    transports,   \* the transports that are up
    remembered,   \* inbound_dedup
    copies,       \* times an event was sent
    requests,     \* events that have arrived and whose handler has not run
    acked,        \* events the platform was told it need not send again
    grant,        \* Seats -> [who, chat, live] : dm_grants of the scope
    effects,      \* Events -> how often the event had its effect
    answeredBy,   \* Events -> who an answered card was answered by
    wish,         \* Members -> "none", "in" or "out": their last act that was effects
    unserved,     \* events whose handling failed or was cut after it was remembered
    eventTrouble

eventVars == <<conf, life, transports, remembered, copies, requests, acked, grant,
               effects, answeredBy, wish, unserved, eventTrouble>>
effectVars == <<grant, effects, answeredBy, wish>>

NoGrant == [who |-> Nobody, chat |-> Nobody, live |-> FALSE]

Init ==
    /\ conf \in Configs
    /\ life = "off"
    /\ transports = {}
    /\ remembered = {}
    /\ copies = [e \in Events |-> 0]
    /\ requests = {}
    /\ acked = {}
    /\ grant = [s \in Seats |-> NoGrant]
    /\ effects = [e \in Events |-> 0]
    /\ answeredBy = [e \in Events |-> Nobody]
    /\ wish = [p \in Members |-> "none"]
    /\ unserved = {}
    /\ eventTrouble = 0

Fault == /\ eventTrouble < MaxEventTrouble
         /\ eventTrouble' = eventTrouble + 1

Clicks == {"click_in", "click_out", "answer", "stale_answer"}
Membership == {"left", "disbanded"}
----------------------------------------------------------------------------
(* Starting and stopping. *)

\* readEnvConfig and shouldEnableWebhook: no webhook without the key.
shouldEnableWebhook == conf.mode # "long-connection" /\ conf.key
shouldEnableLongConnection == conf.mode # "webhook"

\* The factory gives no adapter in webhook mode without a key.
readEnvConfig == conf.mode = "webhook" => conf.key

\* setup: the webhook is registered, and serves, before the long connection.
Setup ==
    /\ life = "off" /\ readEnvConfig
    /\ transports' = IF shouldEnableWebhook THEN {"webhook"} ELSE {}
    /\ life' = IF shouldEnableLongConnection THEN "starting" ELSE "connected"
    /\ UNCHANGED <<conf, remembered, copies, requests, acked, effectVars, unserved, eventTrouble>>

\* setup throws when no transport is left.
lifeAfterSetup(up) == IF up = {} THEN "failed" ELSE "connected"

\* startLongConnection succeeds, or fails and setup goes on with the webhook.
startLongConnection ==
    /\ life = "starting"
    /\ \/ /\ transports' = transports \cup {"long"}
          /\ UNCHANGED eventTrouble
       \/ /\ Fault /\ UNCHANGED transports
    /\ life' = lifeAfterSetup(transports')
    /\ UNCHANGED <<conf, remembered, copies, requests, acked, effectVars, unserved>>

\* The host ends, or teardown: both transports close, requests go unanswered.
Stop ==
    /\ life # "off"
    /\ Fault
    /\ life' = "off"
    /\ transports' = {}
    /\ requests' = {}
    /\ UNCHANGED <<conf, remembered, copies, acked, effectVars, unserved>>
----------------------------------------------------------------------------
(* The platform. *)

\* The transports that carry an event: card clicks come by webhook only.
Carries(via, e) == via = "webhook" \/ EventOf[e].what \notin Clicks

\* The platform sends an event, again when its acknowledgement was late or
\* lost; with both transports configured either may carry it, and both may.
Send(e, via) ==
    /\ via \in transports /\ Carries(via, e)
    /\ copies[e] < MaxCopies /\ Cardinality(requests) < MaxOpen
    /\ copies' = [copies EXCEPT ![e] = @ + 1]
    /\ requests' = requests \cup {[event |-> e, via |-> via]}
    /\ UNCHANGED <<conf, life, transports, remembered, acked, effectVars, unserved, eventTrouble>>

\* handleWebhook answers with an error before it looks at the event: the body
\* is late or too large, the signature or the token does not match.
RejectRequest(r) ==
    /\ r.via = "webhook"
    /\ Fault
    /\ requests' = requests \ {r}
    /\ UNCHANGED <<conf, life, transports, remembered, copies, acked, effectVars, unserved>>
----------------------------------------------------------------------------
(* Handlers. *)

\* The id under which an event is remembered: message id or action token.
eventKey(e) == e

\* Mutant: clicks are not remembered.
freshMessage(e) == EventOf[e].what \in Clicks \/ eventKey(e) \notin remembered

\* markInboundSeen: whether this is the first copy. Membership events are not
\* remembered: what they do may be done twice.
markInboundSeen(e) == EventOf[e].what \in Membership \/ eventKey(e) \notin remembered

\* The sender or operator as the event tells it.
told(e) == IF EventOf[e].identified THEN EventOf[e].from ELSE Nobody

\* cardActionOperatorAllowed: a scoped card takes only its own member's click.
cardActionOperatorAllowed(expected, operator) ==
    expected = Nobody \/ (operator # Nobody /\ operator = expected)

\* mintGrant: the slot is free or this participant's, who has no other slot.
mintGrant(who, slot, chat) ==
    IF /\ grant[slot].who \in {Nobody, who}
       /\ \A s \in Seats \ {slot} : grant[s].who # who
    THEN [grant EXCEPT ![slot] = [who |-> who, chat |-> chat, live |-> TRUE]]
    ELSE grant

\* captureP2pIngressConsent: a direct message whose sender is known; a group
\* message records nothing.
captureP2pIngressConsent(e) ==
    IF EventOf[e].chat # Nobody \/ told(e) = Nobody THEN grant
    ELSE mintGrant(told(e), EventOf[e].slot, Nobody)

\* captureDirectedCardConsent: a card scoped to the member who clicks.
captureDirectedCardConsent(e) ==
    IF \/ EventOf[e].expected = Nobody
       \/ ~cardActionOperatorAllowed(EventOf[e].expected, told(e))
    THEN grant
    ELSE mintGrant(EventOf[e].expected, EventOf[e].slot, EventOf[e].chat)

\* optOutParticipant: the sender's own grants are revoked, never another's.
optOutParticipant(who) ==
    [s \in Seats |-> IF who # Nobody /\ grant[s].who = who
                     THEN [grant[s] EXCEPT !.live = FALSE] ELSE grant[s]]

\* handleChatMemberLeave: the grants given in the chat, of the members who
\* left or, when it is disbanded, of everyone.
handleChatMemberLeave(e) ==
    [s \in Seats |-> IF /\ grant[s].chat = EventOf[e].chat /\ EventOf[e].chat # Nobody
                        /\ EventOf[e].what = "disbanded" \/ grant[s].who = told(e)
                     THEN [grant[s] EXCEPT !.live = FALSE] ELSE grant[s]]

\* An opt-out card names no member, or the one who clicks.
optOutAllowed(e) == /\ told(e) # Nobody
                    /\ cardActionOperatorAllowed(EventOf[e].expected, told(e))

\* The dm_grants after event e: opting out is looked at before opting in. An
\* opt-out written in a group is an ordinary message.
grantsAfter(e) ==
    CASE EventOf[e].what = "out" /\ EventOf[e].chat = Nobody -> optOutParticipant(told(e))
      [] EventOf[e].what = "in" -> captureP2pIngressConsent(e)
      [] EventOf[e].what = "click_out" /\ optOutAllowed(e) -> optOutParticipant(told(e))
      [] EventOf[e].what = "click_in" -> captureDirectedCardConsent(e)
      [] EventOf[e].what \in Membership -> handleChatMemberLeave(e)
      [] OTHER -> grant

\* What the person really behind e has now asked for, if e says so.
WishAfter(e) ==
    LET asks == CASE EventOf[e].what = "in" /\ EventOf[e].chat = Nobody -> "in"
                  [] EventOf[e].what = "click_in" /\ EventOf[e].expected = EventOf[e].from -> "in"
                  [] EventOf[e].what = "out" /\ EventOf[e].chat = Nobody -> "out"
                  [] EventOf[e].what = "click_out" /\ EventOf[e].expected \in
                         {Nobody, EventOf[e].from} -> "out"
                  [] OTHER -> "none"
    IN IF asks = "none" \/ effects[e] > 0 \/ EventOf[e].from = Nobody \/ ~EventOf[e].identified
       THEN wish ELSE [wish EXCEPT ![EventOf[e].from] = asks]

\* handleCardAction on a question or approval card: onAction, or an expired
\* card's notice, or nothing.
answerTaken(e) == /\ EventOf[e].what = "answer"
                  /\ cardActionOperatorAllowed(EventOf[e].expected, told(e))

\* handleMessageReceive, handleCardAction and the membership handlers: the
\* first copy has its effect, a later one only its acknowledgement.
Handle(r) ==
    LET e == r.event IN
    /\ requests' = requests \ {r}
    /\ acked' = acked \cup {e}
    /\ \/ /\ markInboundSeen(e)
          /\ remembered' = IF EventOf[e].what \in Membership THEN remembered
                           ELSE remembered \cup {eventKey(e)}
          /\ grant' = grantsAfter(e)
          /\ wish' = WishAfter(e)
          /\ effects' = [effects EXCEPT ![e] = @ + 1]
          /\ answeredBy' = IF answerTaken(e)
                           THEN [answeredBy EXCEPT ![e] = EventOf[e].from] ELSE answeredBy
       \/ /\ ~markInboundSeen(e)
          /\ UNCHANGED <<remembered, effectVars>>
    /\ UNCHANGED <<conf, life, transports, copies, unserved, eventTrouble>>

\* The handler throws after the event was remembered (a database error): the
\* answer is 500, or no acknowledgement, and the platform sends it again.
HandlerThrows(r) ==
    LET e == r.event IN
    /\ Fault
    /\ markInboundSeen(e)
    /\ requests' = requests \ {r}
    /\ remembered' = IF EventOf[e].what \in Membership THEN remembered
                     ELSE remembered \cup {eventKey(e)}
    /\ unserved' = unserved \cup {e}
    /\ UNCHANGED <<conf, life, transports, copies, acked, effectVars>>

\* pruneInboundDedup: an id is forgotten long after the platform has given up.
pruneInboundDedup(e) ==
    /\ copies[e] = MaxCopies
    /\ ~ \E r \in requests : r.event = e
    /\ eventKey(e) \in remembered
    /\ remembered' = remembered \ {eventKey(e)}
    /\ UNCHANGED <<conf, life, transports, copies, requests, acked, effectVars, unserved, eventTrouble>>

Next ==
    \/ Setup \/ startLongConnection \/ Stop
    \/ \E e \in Events : \/ \E via \in {"webhook", "long"} : Send(e, via)
                         \/ pruneInboundDedup(e)
    \/ \E r \in requests : RejectRequest(r) \/ Handle(r) \/ HandlerThrows(r)

Spec == Init /\ [][Next]_eventVars
----------------------------------------------------------------------------
(* Properties. *)

\* The state has its type, and a participant has one slot.
TypeOK ==
    /\ conf \in Configs
    /\ life \in {"off", "starting", "connected", "failed"}
    /\ transports \subseteq {"webhook", "long"}
    /\ \A e \in Events : copies[e] \in 0..MaxCopies /\ effects[e] \in Nat
    /\ acked \subseteq Events /\ unserved \subseteq Events
    /\ \A s \in Seats : grant[s].who \in Members \cup {Nobody}
    /\ \A s, u \in Seats : grant[s].who # Nobody /\ grant[s].who = grant[u].who => s = u

\* A message or a click has its effect at most once, however often and over
\* whichever transports the platform sends it, restarts included.
EffectOnce ==
    \A e \in Events : EventOf[e].what \notin Membership => effects[e] <= 1

\* Someone who may be written to directly asked for it, and asked for nothing
\* else since: the last of their own acts that was carried out is an opt-in.
ConsentIsLastWish ==
    \A s \in Seats : grant[s].live => wish[grant[s].who] = "in"

\* A card scoped to a member is answered by that member only.
ScopedAnswers ==
    \A e \in Events : answeredBy[e] # Nobody /\ EventOf[e].expected # Nobody =>
        answeredBy[e] = EventOf[e].expected

\* An event the platform was told not to send again had its effect, unless its
\* handler failed after it was remembered.
LossNeedsFailure ==
    \A e \in acked : effects[e] = 0 => e \in unserved

\* An adapter that calls itself connected can be reached.
ConnectedMeansReachable == life = "connected" => transports # {}

\* Events have their effect once whichever way they come, consent is what its
\* giver last asked for, and only a failed handler loses an event.
EventsHonoured ==
  /\ TypeOK
  /\ EffectOnce
  /\ ConsentIsLastWish
  /\ ScopedAnswers
  /\ LossNeedsFailure
  /\ ConnectedMeansReachable
=============================================================================
