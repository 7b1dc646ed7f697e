--------------------------- MODULE ArrivalProofs ---------------------------
(***************************************************************************)
(* More theorems about the parts that MCFrontDoor runs side by side: how   *)
(* events of the platform are honoured, how strangers and chats are let    *)
(* in, how front desks are cloned and how messages reach the agents.       *)
(***************************************************************************)
EXTENDS MCFrontDoor, FiniteSetTheorems, TLAPS

(***************************************************************************)
(* Events of the platform: the inductive invariant.                        *)
(***************************************************************************)
\* The chats of the events, and the rows of dm_grants.
EventChats == {EventOf[e].chat : e \in Events} \cup {NoMember}
GrantRows == [who : Members \cup {NoMember}, chat : EventChats, live : BOOLEAN]

EventTypes ==
    /\ conf \in Configs
    /\ life \in {"off", "starting", "connected", "failed"}
    /\ transports \subseteq {"webhook", "long"}
    /\ copies \in [Events -> 0 .. MaxCopies] /\ effects \in [Events -> Nat]
    /\ \A r \in requests : r.event \in Events
    /\ acked \subseteq Events /\ unserved \subseteq Events
    /\ grant \in [Seats -> GrantRows]
    /\ answeredBy \in [Events -> Members \cup {NoMember}]
    /\ wish \in [Members -> {"none", "in", "out"}]

\* One participant has one slot, and who can be written to asked for it.
ConsentKept ==
    /\ \A s, t \in Seats : grant[s].who # NoMember /\ grant[s].who = grant[t].who => s = t
    /\ \A s \in Seats : grant[s].live => grant[s].who \in Members /\ wish[grant[s].who] = "in"

\* An event that had its effect is remembered, or the platform sends it no more.
OnceKept(e) ==
    /\ EventOf[e].what \notin Eve!Membership =>
          /\ effects[e] <= 1
          /\ effects[e] > 0 => \/ e \in remembered
                               \/ copies[e] = MaxCopies /\ \A r \in requests : r.event # e
    /\ e \in remembered \cup acked => effects[e] > 0 \/ e \in unserved

EventsKept ==
    /\ EventTypes
    /\ ConsentKept
    /\ \A e \in Events : OnceKept(e)
    /\ Eve!ScopedAnswers
    /\ Eve!ConnectedMeansReachable

\* What the handlers may make of the grants and the wishes.
ConsentStep ==
    /\ grant' \in [Seats -> GrantRows] /\ wish' \in [Members -> {"none", "in", "out"}]
    /\ ConsentKept'

\* A slot is given to a member whose wish that is now.
LEMMA MintKeeps ==
    ASSUME EventsKept, NEW who \in Members, NEW slot \in Seats, NEW chat \in EventChats,
           grant' = Eve!mintGrant(who, slot, chat), wish' = [wish EXCEPT ![who] = "in"]
    PROVE  ConsentStep
  <1> DEFINE row == [who |-> who, chat |-> chat, live |-> TRUE]
  <1>1. row \in GrantRows /\ row.who = who
    BY DEF GrantRows
  <1>2. /\ grant \in [Seats -> GrantRows] /\ wish \in [Members -> {"none", "in", "out"}]
        /\ wish' \in [Members -> {"none", "in", "out"}] /\ wish'[who] = "in"
        /\ \A p \in Members : p # who => wish'[p] = wish[p]
        /\ NoMember \notin Members
    BY EventsAssumption DEF EventsKept, EventTypes
  <1> DEFINE free == grant[slot].who \in {NoMember, who} /\ \A s \in Seats \ {slot} : grant[s].who # who
  <1>3. grant' = IF free THEN [grant EXCEPT ![slot] = row] ELSE grant
    BY DEF Eve!mintGrant
  <1> HIDE DEF row
  <1>4. CASE ~free
    <2>1. grant' = grant
      BY <1>3, <1>4
    <2> HIDE DEF free
    <2> QED
      BY <1>2, <2>1 DEF EventsKept, ConsentKept, ConsentStep
  <1>5. CASE free
    <2>1. grant' \in [Seats -> GrantRows] /\ grant'[slot] = row /\ \A s \in Seats : s # slot => grant'[s] = grant[s]
      BY <1>1, <1>2, <1>3, <1>5
    <2>2. \A s \in Seats : s # slot => grant'[s].who # who
      BY <1>5, <2>1
    <2> HIDE DEF free
    <2>3. \A s, t \in Seats : grant'[s].who # NoMember /\ grant'[s].who = grant'[t].who => s = t
      BY <1>1, <1>2, <2>1, <2>2 DEF EventsKept, ConsentKept
    <2>4. \A s \in Seats : grant'[s].live => grant'[s].who \in Members /\ wish'[grant'[s].who] = "in"
      BY <1>1, <1>2, <2>1, <2>2 DEF EventsKept, ConsentKept
    <2> QED
      BY <1>2, <2>1, <2>3, <2>4 DEF ConsentKept, ConsentStep
  <1> QED
    BY <1>4, <1>5

\* Grants are only revoked, and every live one of a member who opted out is.
LEMMA RevokeKeeps ==
    ASSUME EventsKept, NEW Gone,
           grant' = [s \in Seats |-> IF s \in Gone THEN [grant[s] EXCEPT !.live = FALSE] ELSE grant[s]],
           \/ wish' = wish
           \/ \E p \in Members : /\ wish' = [wish EXCEPT ![p] = "out"]
                                 /\ \A s \in Seats : grant[s].who = p => s \in Gone
    PROVE  ConsentStep
  <1>1. /\ grant \in [Seats -> GrantRows] /\ wish \in [Members -> {"none", "in", "out"}]
        /\ wish' \in [Members -> {"none", "in", "out"}]
    BY DEF EventsKept, EventTypes
  <1>2. \A s \in Seats : /\ grant'[s] \in GrantRows
                         /\ grant'[s].who = grant[s].who
                         /\ grant'[s].live => grant[s].live /\ s \notin Gone
    <2> SUFFICES ASSUME NEW s \in Seats
                 PROVE  /\ grant'[s] \in GrantRows
                        /\ grant'[s].who = grant[s].who
                        /\ grant'[s].live => grant[s].live /\ s \notin Gone
      OBVIOUS
    <2>1. grant[s] \in GrantRows
      BY <1>1
    <2>2. CASE s \in Gone
      BY <2>1, <2>2 DEF GrantRows
    <2>3. CASE s \notin Gone
      BY <2>1, <2>3
    <2> QED
      BY <2>2, <2>3
  <1>3. grant' \in [Seats -> GrantRows]
    <2>1. DOMAIN grant' = Seats /\ grant' = [s \in Seats |-> grant'[s]]
      OBVIOUS
    <2> QED
      BY <1>2, <2>1
  <1>4. ConsentKept'
    BY <1>1, <1>2 DEF EventsKept, ConsentKept
  <1> QED
    BY <1>1, <1>3, <1>4 DEF ConsentStep
\* The consent an event gives or takes is that of the person behind it.
LEMMA HandlerConsent ==
    ASSUME EventsKept, NEW e \in Events, EventOf[e].what \notin Eve!Membership => effects[e] = 0,
           grant' = Eve!grantsAfter(e), wish' = Eve!WishAfter(e)
    PROVE  ConsentStep
  <1> DEFINE what == EventOf[e].what
             from == EventOf[e].from
             chat == EventOf[e].chat
             expected == EventOf[e].expected
             slot == EventOf[e].slot
             who == Eve!told(e)
  <1>1. /\ from \in Members /\ from # NoMember /\ NoMember \notin Members /\ chat \in EventChats
        /\ expected \in Members \cup {NoMember} /\ slot \in Seats /\ NoMember \in EventChats
        /\ effects[e] \in Nat
    BY EventsAssumption DEF EventChats, EventsKept, EventTypes
  <1>2. who = (IF EventOf[e].identified THEN from ELSE NoMember)
    BY DEF Eve!told
  <1>3. ASSUME NEW p \in Members \cup {NoMember}, grant' = Eve!optOutParticipant(p),
               wish' = wish \/ (p \in Members /\ wish' = [wish EXCEPT ![p] = "out"])
        PROVE  ConsentStep
    <2> DEFINE gone == {s \in Seats : p # NoMember /\ grant[s].who = p}
    <2>1. grant' = [s \in Seats |-> IF s \in gone THEN [grant[s] EXCEPT !.live = FALSE] ELSE grant[s]]
      BY <1>3 DEF Eve!optOutParticipant
    <2>2. p \in Members => \A s \in Seats : grant[s].who = p => s \in gone
      BY <1>1
    <2> HIDE DEF gone
    <2> QED
      BY <1>3, <2>1, <2>2, RevokeKeeps
  <1>4. ASSUME grant' = grant, wish' = wish PROVE ConsentStep
    BY <1>4 DEF ConsentStep, EventsKept, EventTypes, ConsentKept
  <1>5. CASE what = "out" /\ chat = NoMember
    <2>1. grant' = Eve!optOutParticipant(who)
      BY <1>5 DEF Eve!grantsAfter, Eve!Membership
    <2>2. wish' = IF EventOf[e].identified THEN [wish EXCEPT ![from] = "out"] ELSE wish
      BY <1>1, <1>5 DEF Eve!WishAfter, Eve!Membership
    <2> QED
      BY <1>1, <1>2, <1>3, <2>1, <2>2
  <1>6. CASE what = "in"
    <2>1. grant' = IF chat # NoMember \/ who = NoMember THEN grant
                   ELSE Eve!mintGrant(who, slot, NoMember)
      BY <1>6 DEF Eve!grantsAfter, Eve!captureP2pIngressConsent, Eve!Membership
    <2>2. wish' = IF EventOf[e].identified /\ chat = NoMember THEN [wish EXCEPT ![from] = "in"] ELSE wish
      <3>1. CASE chat = NoMember
        BY <1>1, <1>6, <3>1 DEF Eve!WishAfter, Eve!Membership
      <3>2. CASE ~ (chat = NoMember)
        BY <1>1, <1>6, <3>2 DEF Eve!WishAfter, Eve!Membership
      <3> QED
        BY <3>1, <3>2
    <2> HIDE DEF what, from, chat, slot, who
    <2>3. CASE EventOf[e].identified /\ chat = NoMember
      <3>1. grant' = Eve!mintGrant(from, slot, NoMember) /\ wish' = [wish EXCEPT ![from] = "in"]
        BY <1>1, <1>2, <2>1, <2>2, <2>3
      <3> QED
        BY <1>1, <3>1, MintKeeps
    <2>4. CASE ~ (EventOf[e].identified /\ chat = NoMember)
      BY <1>1, <1>2, <1>4, <2>1, <2>2, <2>4
    <2> QED
      BY <2>3, <2>4
  <1>7. CASE what = "click_out"
    <2>1. grant' = IF Eve!optOutAllowed(e) THEN Eve!optOutParticipant(who) ELSE grant
      BY <1>7 DEF Eve!grantsAfter, Eve!Membership
    <2>2. Eve!optOutAllowed(e) <=> who # NoMember /\ (expected = NoMember \/ who = expected)
      BY DEF Eve!optOutAllowed, Eve!cardActionOperatorAllowed
    <2>3. wish' = IF EventOf[e].identified /\ (expected = NoMember \/ expected = from)
                  THEN [wish EXCEPT ![from] = "out"] ELSE wish
      <3>1. CASE (expected = NoMember \/ expected = from)
        <4>1. expected \in {NoMember, from} /\ effects[e] = 0 /\ what = "click_out"
          BY <1>7, <3>1 DEF Eve!Membership
        <4> QED
          BY <1>1, <4>1 DEF Eve!WishAfter
      <3>2. CASE ~ ((expected = NoMember \/ expected = from))
        BY <1>1, <1>7, <3>2 DEF Eve!WishAfter, Eve!Membership
      <3> QED
        BY <3>1, <3>2
    <2> HIDE DEF what, from, chat, slot, who, expected
    <2>4. CASE EventOf[e].identified /\ (expected = NoMember \/ expected = from)
      <3>1. grant' = Eve!optOutParticipant(from) /\ wish' = [wish EXCEPT ![from] = "out"]
        BY <1>1, <1>2, <2>1, <2>2, <2>3, <2>4
      <3> QED
        BY <1>1, <1>3, <3>1
    <2>5. CASE ~ (EventOf[e].identified /\ (expected = NoMember \/ expected = from))
      BY <1>1, <1>2, <1>4, <2>1, <2>2, <2>3, <2>5
    <2> QED
      BY <2>4, <2>5
  <1>8. CASE what = "click_in"
    <2>1. grant' = IF expected = NoMember \/ ~ Eve!cardActionOperatorAllowed(expected, who) THEN grant
                   ELSE Eve!mintGrant(expected, slot, chat)
      BY <1>8 DEF Eve!grantsAfter, Eve!captureDirectedCardConsent, Eve!Membership
    <2>2. Eve!cardActionOperatorAllowed(expected, who) <=> expected = NoMember \/ (who # NoMember /\ who = expected)
      BY DEF Eve!cardActionOperatorAllowed
    <2>3. wish' = IF EventOf[e].identified /\ expected = from THEN [wish EXCEPT ![from] = "in"] ELSE wish
      <3>1. CASE expected = from
        BY <1>1, <1>8, <3>1 DEF Eve!WishAfter, Eve!Membership
      <3>2. CASE ~ (expected = from)
        BY <1>1, <1>8, <3>2 DEF Eve!WishAfter, Eve!Membership
      <3> QED
        BY <3>1, <3>2
    <2> HIDE DEF what, from, chat, slot, who, expected
    <2>4. CASE EventOf[e].identified /\ expected = from
      <3>1. grant' = Eve!mintGrant(from, slot, chat) /\ wish' = [wish EXCEPT ![from] = "in"]
        BY <1>1, <1>2, <2>1, <2>2, <2>3, <2>4
      <3> QED
        BY <1>1, <3>1, MintKeeps
    <2>5. CASE ~ (EventOf[e].identified /\ expected = from)
      BY <1>1, <1>2, <1>4, <2>1, <2>2, <2>3, <2>5
    <2> QED
      BY <2>4, <2>5
  <1>9. CASE what \in Eve!Membership
    <2> DEFINE gone == {s \in Seats : /\ grant[s].chat = chat /\ chat # NoMember
                                      /\ what = "disbanded" \/ grant[s].who = who}
    <2>1. grant' = [s \in Seats |-> IF s \in gone THEN [grant[s] EXCEPT !.live = FALSE] ELSE grant[s]]
      BY <1>9 DEF Eve!grantsAfter, Eve!Membership, Eve!handleChatMemberLeave
    <2>2. wish' = wish
      BY <1>9 DEF Eve!WishAfter, Eve!Membership
    <2> HIDE DEF gone
    <2> QED
      BY <2>1, <2>2, RevokeKeeps
  <1>10. CASE /\ ~ (what = "out" /\ chat = NoMember) /\ what # "in" /\ what # "click_out"
              /\ what # "click_in" /\ what \notin Eve!Membership
    <2>1. grant' = grant
      BY <1>10 DEF Eve!grantsAfter
    <2>2. wish' = wish
      BY <1>10 DEF Eve!WishAfter
    <2> QED
      BY <1>4, <2>1, <2>2
  <1> QED
    BY <1>5, <1>6, <1>7, <1>8, <1>9, <1>10

\* A handler that runs to its end.
LEMMA HandleStep ==
    ASSUME EventsKept, NEW r \in requests, Eve!Handle(r) PROVE EventsKept'
  <1> DEFINE e == r.event
  <1>1. /\ e \in Events /\ requests' = requests \ {r} /\ acked' = acked \cup {e}
        /\ UNCHANGED <<conf, life, transports, copies, unserved, eventTrouble>>
    BY DEF EventsKept, EventTypes, Eve!Handle
  <1>2. /\ \A x \in Events : copies[x] \in Nat /\ effects[x] \in Nat /\ OnceKept(x)
        /\ effects \in [Events -> Nat] /\ answeredBy \in [Events -> Members \cup {NoMember}]
    BY DEF EventsKept, EventTypes
  <1>3. CASE Eve!markInboundSeen(e)
    <2>1. /\ remembered' = IF EventOf[e].what \in Eve!Membership THEN remembered ELSE remembered \cup {e}
          /\ grant' = Eve!grantsAfter(e) /\ wish' = Eve!WishAfter(e)
          /\ effects' = [effects EXCEPT ![e] = @ + 1]
          /\ answeredBy' = IF Eve!answerTaken(e)
                           THEN [answeredBy EXCEPT ![e] = EventOf[e].from] ELSE answeredBy
      BY <1>3 DEF Eve!Handle, Eve!eventKey
    <2>2. EventOf[e].what \notin Eve!Membership => effects[e] = 0
      BY <1>1, <1>2, <1>3 DEF OnceKept, Eve!markInboundSeen, Eve!eventKey
    <2> HIDE DEF e
    <2>3. ConsentStep
      BY <1>1, <2>1, <2>2, HandlerConsent
    <2>4. EventTypes'
      <3>1. answeredBy' \in [Events -> Members \cup {NoMember}]
        BY <1>1, <1>2, <2>1, EventsAssumption
      <3>2. effects' \in [Events -> Nat]
        BY <1>1, <1>2, <2>1
      <3> QED
        BY <1>1, <2>3, <3>1, <3>2 DEF EventsKept, EventTypes, ConsentStep
    <2>5. ASSUME NEW x \in Events PROVE OnceKept(x)'
      <3>1. effects'[x] = IF x = e THEN effects[x] + 1 ELSE effects[x]
        BY <1>1, <1>2, <2>1
      <3> QED
        BY <1>1, <1>2, <2>1, <2>2, <3>1 DEF OnceKept
    <2>6. Eve!ScopedAnswers'
      <3>1. Eve!answerTaken(e) /\ EventOf[e].expected # NoMember => EventOf[e].from = EventOf[e].expected
        BY DEF Eve!answerTaken, Eve!cardActionOperatorAllowed, Eve!told
      <3> QED
        BY <1>1, <1>2, <2>1, <3>1 DEF EventsKept, Eve!ScopedAnswers
    <2> QED
      BY <1>1, <2>3, <2>4, <2>5, <2>6 DEF EventsKept, ConsentStep, Eve!ConnectedMeansReachable
  <1>4. CASE ~ Eve!markInboundSeen(e)
    <2>1. e \in remembered
      BY <1>4 DEF Eve!markInboundSeen, Eve!eventKey
    <2>2. UNCHANGED <<remembered, grant, effects, answeredBy, wish>>
      BY <1>4 DEF Eve!Handle, Eve!effectVars
    <2> HIDE DEF e
    <2>3. \A x \in Events : OnceKept(x)'
      BY <1>1, <1>2, <2>1, <2>2 DEF OnceKept
    <2> QED
      BY <1>1, <2>2, <2>3 DEF EventsKept, EventTypes, ConsentKept, Eve!ScopedAnswers,
         Eve!ConnectedMeansReachable
  <1> QED
    BY <1>3, <1>4

\* Every other step leaves grants, wishes and effects alone.
LEMMA OtherEventSteps ==
    ASSUME EventsKept, Eve!Next, ~ \E r \in requests : Eve!Handle(r) PROVE EventsKept'
  <1>1. \A x \in Events : copies[x] \in Nat /\ copies[x] <= MaxCopies /\ effects[x] \in Nat /\ OnceKept(x)
    BY EventsAssumption DEF EventsKept, EventTypes
  <1> USE DEF EventsKept, EventTypes, ConsentKept, Eve!ScopedAnswers, Eve!ConnectedMeansReachable,
              Eve!effectVars
  <1>2. CASE Eve!Setup
    BY <1>2 DEF Eve!Setup, Eve!readEnvConfig, Eve!shouldEnableWebhook, Eve!shouldEnableLongConnection,
       OnceKept
  <1>3. CASE Eve!startLongConnection
    BY <1>3 DEF Eve!startLongConnection, Eve!lifeAfterSetup, OnceKept
  <1>4. CASE Eve!Stop
    BY <1>1, <1>4 DEF Eve!Stop, OnceKept
  <1>5. ASSUME NEW e \in Events, NEW via \in {"webhook", "long"}, Eve!Send(e, via) PROVE EventsKept'
    <2>1. /\ copies[e] < MaxCopies /\ copies' = [copies EXCEPT ![e] = @ + 1]
          /\ requests' = requests \cup {[event |-> e, via |-> via]}
          /\ UNCHANGED <<conf, life, transports, remembered, acked, grant, effects, answeredBy, wish, unserved>>
      BY <1>5 DEF Eve!Send
    <2>2. copies' \in [Events -> 0 .. MaxCopies] /\ \A x \in Events : x # e => copies'[x] = copies[x]
      BY <1>1, <2>1, EventsAssumption
    <2>3. \A x \in Events : OnceKept(x)'
      BY <1>1, <2>1, <2>2 DEF OnceKept
    <2>4. \A r \in requests' : r.event \in Events
      BY <2>1
    <2> QED
      BY <2>1, <2>2, <2>3, <2>4
  <1>6. ASSUME NEW r \in requests, Eve!RejectRequest(r) PROVE EventsKept'
    BY <1>1, <1>6 DEF Eve!RejectRequest, OnceKept
  <1>7. ASSUME NEW r \in requests, Eve!HandlerThrows(r) PROVE EventsKept'
    <2>1. /\ r.event \in Events /\ requests' = requests \ {r}
          /\ remembered' \in {remembered, remembered \cup {r.event}} /\ unserved' = unserved \cup {r.event}
          /\ UNCHANGED <<conf, life, transports, copies, acked, grant, effects, answeredBy, wish>>
      BY <1>7 DEF Eve!HandlerThrows, Eve!eventKey
    <2>2. \A x \in Events : OnceKept(x)'
      BY <1>1, <2>1 DEF OnceKept
    <2> QED
      BY <2>1, <2>2
  <1>8. ASSUME NEW e \in Events, Eve!pruneInboundDedup(e) PROVE EventsKept'
    <2>1. /\ copies[e] = MaxCopies /\ \A r \in requests : r.event # e
          /\ remembered' = remembered \ {e}
          /\ UNCHANGED <<conf, life, transports, copies, requests, acked, grant, effects, answeredBy, wish, unserved>>
      BY <1>8 DEF Eve!pruneInboundDedup, Eve!eventKey
    <2>2. \A x \in Events : OnceKept(x)'
      BY <1>1, <2>1 DEF OnceKept
    <2> QED
      BY <2>1, <2>2
  <1> QED
    BY <1>2, <1>3, <1>4, <1>5, <1>6, <1>7, <1>8 DEF Eve!Next

\* The invariant speaks of the behaviours about the events.
EventsInv == focus = "events" => EventsKept

\* Before the adapter starts.
LEMMA EventsInit == ASSUME Init PROVE EventsInv
  <1>1. Eve!Init
    BY DEF Init
  <1>2. Eve!NoGrant \in GrantRows /\ ~ Eve!NoGrant.live /\ Eve!NoGrant.who = NoMember
    BY DEF Eve!NoGrant, GrantRows, EventChats
  <1>3. EventTypes
    BY <1>1, <1>2, EventsAssumption DEF Eve!Init, EventTypes
  <1>4. ConsentKept
    BY <1>1, <1>2 DEF Eve!Init, ConsentKept
  <1>5. \A e \in Events : OnceKept(e)
    BY <1>1 DEF Eve!Init, OnceKept
  <1> QED
    BY <1>1, <1>3, <1>4, <1>5 DEF EventsInv, EventsKept, Eve!Init, Eve!ScopedAnswers,
       Eve!ConnectedMeansReachable

\* An event has its effect once over either transport, restarts and resends
\* included, and who can be written to asked for it last (feishu.ts).
THEOREM EventsSafe == Spec => []EventsHonoured
  <1>1. Init => EventsInv
    BY EventsInit
  <1>2. ASSUME EventsInv, [Next]_vars PROVE EventsInv'
    <2>1. CASE focus = "events" /\ Eve!Next /\ UNCHANGED focus
      BY <1>2, <2>1, HandleStep, OtherEventSteps DEF EventsInv
    <2>2. CASE UNCHANGED <<focus, eveVars>>
      BY <1>2, <2>2 DEF EventsInv, EventsKept, EventTypes, ConsentKept, OnceKept, eveVars,
         Eve!ScopedAnswers, Eve!ConnectedMeansReachable
    <2>3. UNCHANGED focus /\ (~ (focus = "events" /\ Eve!Next) => UNCHANGED eveVars)
      BY <1>2 DEF Next, vars
    <2> QED
      BY <2>1, <2>2, <2>3
  <1>3. EventsInv => EventsHonoured
    <2> SUFFICES ASSUME EventsKept PROVE Eve!EventsHonoured
      BY DEF EventsInv, EventsHonoured
    <2>1. \A s \in Seats : grant[s].who \in Members \cup {NoMember}
      <3>1. \A s \in Seats : grant[s] \in GrantRows
        BY DEF EventsKept, EventTypes
      <3> QED
        BY <3>1 DEF GrantRows
    <2>2. Eve!TypeOK
      BY <2>1 DEF EventsKept, EventTypes, ConsentKept, Eve!TypeOK
    <2>3. Eve!EffectOnce /\ Eve!LossNeedsFailure
      BY DEF EventsKept, EventTypes, OnceKept, Eve!EffectOnce, Eve!LossNeedsFailure
    <2> QED
      BY <2>2, <2>3 DEF EventsKept, ConsentKept, Eve!EventsHonoured, Eve!ConsentIsLastWish
  <1> QED
    BY <1>1, <1>2, <1>3, PTL DEF Spec

-----------------------------------------------------------------------------
(***************************************************************************)
(* Admission: the inductive invariant.                                     *)
(***************************************************************************)
\* The requests in progress.
Asks == [at : {"idle", "dm", "card"}, key : Reg!Keys, from : Reg!Keys, group : Reg!AllGroups, id : Nat]

AdmissionTypes ==
    /\ Reg!TypeOK
    /\ rowsMade \in Nat
    /\ request \in [Slots -> Asks]
    /\ wirings \subseteq Nat \X Reg!AllGroups

\* A pending row has an id of its own; one for a sender is about a wired group.
RowKept(row) ==
    /\ row.id \in 1 .. rowsMade
    /\ row.key # Reg!Chat => row.group \in wired
    /\ \A other \in pending : other.id = row.id => other = row

\* A request carries a sender, and once its row is inserted it knows the row.
AskKept(r) ==
    /\ request[r].at # "idle" =>
          request[r].from \in People /\ (request[r].key # Reg!Chat => request[r].group \in wired)
    /\ request[r].at = "card" =>
          /\ request[r].id \in 1 .. rowsMade
          /\ \A row \in pending : row.id = request[r].id => row.key = request[r].key

\* A row that led to a wiring is gone and does not come back.
WiringKept(w) == w[1] \in 1 .. rowsMade /\ \A row \in pending : row.id # w[1]

\* Whom an approver let in is a member of a wired group and its organisation.
AdmittedKept(x) ==
    /\ x \in members /\ x[2] \in wired
    /\ x[2] \in Orgs => x[1] \in orgMembers

AdmissionKept ==
    /\ AdmissionTypes
    /\ \A row \in pending : RowKept(row)
    /\ \A r \in Slots : AskKept(r)
    /\ \A w \in wirings : WiringKept(w)
    /\ \A x \in admitted : AdmittedKept(x)
    /\ Reg!PendingAnswerable
    /\ Reg!OneWiringPerRow
    /\ Reg!AdmittedIsServed

\* A message of p is routed: the state it may change.
LEMMA RouteKeeps ==
    ASSUME AdmissionKept, NEW p \in People, Reg!Route(p),
           UNCHANGED <<wired, members, orgMembers, pending, cards, flow, nameWait, regUp, rowsMade,
                       wirings, stuck, admitted, cutOff>>,
           toRoute' \in {toRoute, toRoute \ {p}}
    PROVE  AdmissionKept'
  <1>1. /\ mgRow' \in {"none", "open", "denied"}
        /\ got' = got \cup {<<p, g>> : g \in {h \in wired : Reg!canAccessAgentGroup(p, h)}}
        /\ \/ request' = request
           \/ \E r \in Slots, k \in Reg!Keys, g \in Reg!AllGroups :
                 /\ k # Reg!Chat => g \in wired
                 /\ request[r].at = "idle" /\ request' = Reg!Start(r, k, p, g)
    BY DEF Reg!Route, Reg!Keys, Reg!AllGroups, Reg!Free, AdmissionKept, AdmissionTypes, Reg!TypeOK
  <1>2. /\ request' \in [Slots -> Asks]
        /\ \A r \in Slots : \/ request'[r] = request[r]
                            \/ /\ request[r].at = "idle" /\ request'[r].at = "dm" /\ request'[r].from = p
                               /\ request'[r].key # Reg!Chat => request'[r].group \in wired
    <2>1. request \in [Slots -> Asks]
      BY DEF AdmissionKept, AdmissionTypes
    <2>2. CASE request' = request
      BY <2>1, <2>2
    <2>3. ASSUME NEW r \in Slots, NEW k \in Reg!Keys, NEW g \in Reg!AllGroups,
                 k # Reg!Chat => g \in wired,
                 request[r].at = "idle", request' = Reg!Start(r, k, p, g)
          PROVE  /\ request' \in [Slots -> Asks]
                 /\ \A x \in Slots : \/ request'[x] = request[x]
                                     \/ /\ request[x].at = "idle" /\ request'[x].at = "dm"
                                        /\ request'[x].from = p
                                        /\ request'[x].key # Reg!Chat => request'[x].group \in wired
      <3> DEFINE q == [at |-> "dm", key |-> k, from |-> p, group |-> g, id |-> 0]
      <3>1. q \in Asks /\ q.at = "dm" /\ q.from = p /\ q.key = k /\ q.group = g
        BY DEF Asks, Reg!Keys
      <3>2. request' = [request EXCEPT ![r] = q]
        BY <2>3 DEF Reg!Start
      <3> HIDE DEF q
      <3> QED
        BY <2>1, <2>3, <3>1, <3>2
    <2> QED
      BY <1>1, <2>2, <2>3
  <1>3. toRoute' \subseteq toRoute /\ \A x \in People : x # p /\ x \in toRoute => x \in toRoute'
    OBVIOUS
  <1>4. AdmissionTypes'
    <2>1. got' \subseteq People \X Reg!AllGroups /\ toRoute' \subseteq People
      BY <1>1, <1>3 DEF AdmissionKept, AdmissionTypes, Reg!TypeOK
    <2> QED
      BY <1>1, <1>2, <2>1 DEF AdmissionKept, AdmissionTypes, Reg!TypeOK, Asks
  <1>5. \A row \in pending' : RowKept(row)'
    BY DEF AdmissionKept, RowKept
  <1>6. \A r \in Slots : AskKept(r)'
    BY <1>2 DEF AdmissionKept, AskKept
  <1>7. (\A w \in wirings' : WiringKept(w)') /\ Reg!OneWiringPerRow'
    BY DEF AdmissionKept, WiringKept, Reg!OneWiringPerRow
  <1>8. \A x \in admitted' : AdmittedKept(x)'
    BY DEF AdmissionKept, AdmittedKept
  <1>9. Reg!PendingAnswerable'
    BY <1>2 DEF AdmissionKept, Reg!PendingAnswerable, Reg!Shown
  <1>10. Reg!AdmittedIsServed'
    <2> SUFFICES ASSUME NEW x \in admitted PROVE x[1] \in toRoute' \/ x \in got' \cup cutOff
      BY DEF Reg!AdmittedIsServed
    <2>1. x \in People \X Reg!AllGroups /\ x = <<x[1], x[2]>> /\ AdmittedKept(x)
      BY DEF AdmissionKept, AdmissionTypes, Reg!TypeOK
    <2>2. x[1] \in toRoute \/ x \in got \cup cutOff
      BY DEF AdmissionKept, Reg!AdmittedIsServed
    <2>3. CASE x[1] = p
      BY <1>1, <2>1, <2>3 DEF AdmittedKept, Reg!canAccessAgentGroup
    <2>4. CASE x[1] # p
      BY <1>1, <1>3, <2>1, <2>2, <2>4
    <2> QED
      BY <2>3, <2>4
  <1> QED
    BY <1>4, <1>5, <1>6, <1>7, <1>8, <1>9, <1>10 DEF AdmissionKept

\* A request that ends leaves the slot idle.
LEMMA RetireIs ==
    ASSUME AdmissionKept, NEW r \in Slots, request' = Reg!Retire(r)
    PROVE  /\ request' \in [Slots -> Asks] /\ request'[r].at = "idle"
           /\ \A x \in Slots : x # r => request'[x] = request[x]
  <1>1. Reg!IdleReq \in Asks /\ Reg!IdleReq.at = "idle"
    BY DEF Reg!IdleReq, Asks, Reg!Keys, Reg!AllGroups
  <1>2. request \in [Slots -> Asks]
    BY DEF AdmissionKept, AdmissionTypes
  <1> QED
    BY <1>1, <1>2 DEF Reg!Retire

\* The approver's channel is known.
LEMMA DmStep ==
    ASSUME AdmissionKept, NEW r \in Slots, Reg!DmKnown(r) PROVE AdmissionKept'
  <1> DEFINE q == request[r]
             n == rowsMade + 1
             row == [id |-> n, key |-> q.key, from |-> q.from, group |-> q.group]
             sent == [q EXCEPT !.at = "card", !.id = n]
  <1>1. /\ q.at = "dm"
        /\ \/ request' = Reg!Retire(r) /\ UNCHANGED <<pending, rowsMade, stuck>>
           \/ /\ pending' = pending \cup {row} /\ rowsMade' = n
              /\ \/ request' = [request EXCEPT ![r] = sent] /\ UNCHANGED stuck
                 \/ request' = Reg!Retire(r) /\ stuck' = stuck \cup {n}
        /\ UNCHANGED <<mgRow, wired, members, orgMembers, cards, flow, nameWait, toRoute, got, regUp,
                       wirings, admitted, cutOff>>
    BY DEF Reg!DmKnown, Reg!tables
  <1>2. /\ request \in [Slots -> Asks] /\ q \in Asks /\ rowsMade \in Nat /\ n \in Nat
        /\ \A x \in Slots : AskKept(x)
    BY DEF AdmissionKept, AdmissionTypes
  <1>3. /\ sent \in Asks /\ sent.at = "card" /\ sent.id = n /\ sent.key = q.key /\ sent.from = q.from
        /\ sent.group = q.group
    BY <1>2 DEF Asks
  <1>4. row \in Reg!Row /\ row.id = n /\ row.key = q.key /\ row.group = q.group
    BY <1>1, <1>2 DEF Reg!Row, Asks, AskKept
  <1>5. q.key # Reg!Chat => q.group \in wired
    BY <1>1, <1>2 DEF AskKept
  <1> HIDE DEF sent, row
  <1>6. CASE request' = Reg!Retire(r) /\ UNCHANGED <<pending, rowsMade, stuck>>
    <2>1. /\ request' \in [Slots -> Asks] /\ request'[r].at = "idle"
          /\ \A x \in Slots : x # r => request'[x] = request[x]
      BY <1>6, RetireIs
    <2>2. AdmissionTypes'
      BY <1>1, <1>6, <2>1 DEF AdmissionKept, AdmissionTypes, Reg!TypeOK, Asks
    <2>3. (\A x \in pending' : RowKept(x)') /\ (\A x \in Slots : AskKept(x)')
      BY <1>1, <1>6, <2>1 DEF AdmissionKept, RowKept, AskKept
    <2>4. /\ \A w \in wirings' : WiringKept(w)'
          /\ \A x \in admitted' : AdmittedKept(x)'
          /\ Reg!OneWiringPerRow' /\ Reg!AdmittedIsServed'
      BY <1>1, <1>6 DEF AdmissionKept, WiringKept, AdmittedKept, Reg!OneWiringPerRow, Reg!AdmittedIsServed
    <2>5. Reg!PendingAnswerable'
      BY <1>1, <1>6, <2>1 DEF AdmissionKept, Reg!PendingAnswerable, Reg!Shown
    <2> QED
      BY <2>2, <2>3, <2>4, <2>5 DEF AdmissionKept
  <1>7. CASE pending' = pending \cup {row} /\ rowsMade' = n
    <2>1. /\ request' \in [Slots -> Asks]
          /\ \A x \in Slots : x # r => request'[x] = request[x]
          /\ request'[r] = sent \/ (request'[r].at = "idle" /\ n \in stuck')
          /\ stuck \subseteq stuck'
      <3>1. CASE request' = [request EXCEPT ![r] = sent] /\ UNCHANGED stuck
        BY <1>2, <1>3, <3>1
      <3>2. CASE request' = Reg!Retire(r) /\ stuck' = stuck \cup {n}
        BY <3>2, RetireIs
      <3>3. CASE request' = Reg!Retire(r) /\ UNCHANGED <<pending, rowsMade, stuck>>
        BY <1>2, <1>7, <3>3
      <3> QED
        BY <1>1, <3>1, <3>2, <3>3
    <2>2. AdmissionTypes'
      <3>1. pending' \subseteq Reg!Row
        BY <1>4, <1>7 DEF AdmissionKept, AdmissionTypes, Reg!TypeOK
      <3>2. cards' \subseteq (1 .. rowsMade') \X Reg!Keys
        BY <1>1, <1>2, <1>7 DEF AdmissionKept, AdmissionTypes, Reg!TypeOK
      <3> QED
        BY <1>1, <1>2, <1>7, <2>1, <3>1, <3>2 DEF AdmissionKept, AdmissionTypes, Reg!TypeOK, Asks
    <2>3. \A x \in pending : x.id \in 1 .. rowsMade /\ x.id # n /\ x.id \in 1 .. n
      BY <1>2 DEF AdmissionKept, RowKept
    <2>4. \A x \in pending' : RowKept(x)'
      BY <1>1, <1>2, <1>4, <1>5, <1>7, <2>3 DEF AdmissionKept, RowKept
    <2>5. \A x \in Slots : AskKept(x)'
      BY <1>1, <1>2, <1>3, <1>4, <1>7, <2>1, <2>3 DEF AskKept
    <2>6. /\ \A w \in wirings' : WiringKept(w)'
          /\ \A x \in admitted' : AdmittedKept(x)'
          /\ Reg!OneWiringPerRow' /\ Reg!AdmittedIsServed'
      BY <1>1, <1>2, <1>4, <1>7 DEF AdmissionKept, WiringKept, AdmittedKept, Reg!OneWiringPerRow,
         Reg!AdmittedIsServed
    <2>7. Reg!PendingAnswerable'
      BY <1>1, <1>3, <1>4, <1>7, <2>1 DEF AdmissionKept, Reg!PendingAnswerable, Reg!Shown
    <2> QED
      BY <2>2, <2>4, <2>5, <2>6, <2>7 DEF AdmissionKept
  <1> QED
    BY <1>1, <1>6, <1>7

\* Rows go and requests end: the rest keep what is known of them.
LEMMA RowsShrink ==
    ASSUME AdmissionKept, pending' \subseteq pending, rowsMade' = rowsMade, wired \subseteq wired',
           \A r \in Slots : request'[r] = request[r] \/ request'[r].at = "idle"
    PROVE  /\ \A row \in pending' : RowKept(row)'
           /\ \A r \in Slots : AskKept(r)'
  <1>1. \A row \in pending' : RowKept(row)'
    BY DEF AdmissionKept, RowKept
  <1>2. \A r \in Slots : AskKept(r)'
    BY DEF AdmissionKept, AskKept
  <1> QED
    BY <1>1, <1>2

\* Nobody is admitted and nothing is wired.
LEMMA NobodyAdmitted ==
    ASSUME AdmissionKept, pending' \subseteq pending,
           UNCHANGED <<wired, members, orgMembers, toRoute, got, wirings, admitted, cutOff, rowsMade>>
    PROVE  /\ \A w \in wirings' : WiringKept(w)'
           /\ \A x \in admitted' : AdmittedKept(x)'
           /\ Reg!OneWiringPerRow' /\ Reg!AdmittedIsServed'
  BY DEF AdmissionKept, WiringKept, AdmittedKept, Reg!OneWiringPerRow, Reg!AdmittedIsServed

\* The other steps of a request.
LEMMA AskStep ==
    ASSUME AdmissionKept, NEW r \in Slots, Reg!RequestStep(r), ~ Reg!DmKnown(r) PROVE AdmissionKept'
  <1>1. UNCHANGED <<mgRow, wired, members, orgMembers, flow, nameWait, toRoute, got, regUp, rowsMade,
                    wirings, stuck, admitted, cutOff>>
    BY DEF Reg!RequestStep, Reg!DmMissing, Reg!CardShown, Reg!CardReturns, Reg!CardFails, Reg!tables,
       Reg!histories
  <1>2. request \in [Slots -> Asks] /\ request[r] \in Asks /\ AskKept(r) /\ rowsMade \in Nat
    BY DEF AdmissionKept, AdmissionTypes
  <1>3. CASE Reg!CardShown(r)
    <2>1. /\ cards' = cards \cup {<<request[r].id, request[r].key>>} /\ request[r].at = "card"
          /\ UNCHANGED <<pending, request>>
      BY <1>3 DEF Reg!CardShown
    <2>2. request[r].id \in 1 .. rowsMade /\ request[r].key \in Reg!Keys
      BY <1>2, <2>1 DEF AskKept, Asks
    <2>3. cards' \subseteq (1 .. rowsMade) \X Reg!Keys
      BY <2>1, <2>2 DEF AdmissionKept, AdmissionTypes, Reg!TypeOK
    <2>4. AdmissionTypes'
      BY <1>1, <1>2, <2>1, <2>3 DEF AdmissionKept, AdmissionTypes, Reg!TypeOK
    <2>5. Reg!PendingAnswerable'
      BY <1>1, <2>1 DEF AdmissionKept, Reg!PendingAnswerable, Reg!Shown
    <2> QED
      BY <1>1, <2>1, <2>4, <2>5, RowsShrink, NobodyAdmitted DEF AdmissionKept
  <1>4. CASE Reg!DmMissing(r) \/ Reg!CardReturns(r) \/ Reg!CardFails(r)
    <2>1. /\ request' = Reg!Retire(r) /\ UNCHANGED cards
          /\ \/ pending' = pending /\ request[r].at = "dm"
             \/ /\ pending' = pending /\ request[r].at = "card"
                /\ Reg!Shown(request[r].id) \/ request[r].id \in stuck
             \/ pending' = pending \ Reg!RowsCleared(request[r]) /\ request[r].at = "card"
      BY <1>4 DEF Reg!DmMissing, Reg!CardReturns, Reg!CardFails, Reg!Unseen
    <2>2. /\ request' \in [Slots -> Asks] /\ request'[r].at = "idle"
          /\ \A x \in Slots : x # r => request'[x] = request[x]
      BY <2>1, RetireIs
    <2>3. pending' \subseteq pending
      BY <2>1
    <2>4. AdmissionTypes'
      BY <1>1, <2>1, <2>2, <2>3 DEF AdmissionKept, AdmissionTypes, Reg!TypeOK, Asks
    <2>5. Reg!PendingAnswerable'
      <3> SUFFICES ASSUME NEW row \in pending'
                   PROVE  \/ Reg!Shown(row.id) \/ row.id \in stuck
                          \/ \E x \in Slots : request'[x].at = "card" /\ request'[x].id = row.id
        BY <1>1, <2>1 DEF Reg!PendingAnswerable, Reg!Shown
      <3>1. \/ Reg!Shown(row.id) \/ row.id \in stuck
            \/ \E x \in Slots : request[x].at = "card" /\ request[x].id = row.id
        BY <2>3 DEF AdmissionKept, Reg!PendingAnswerable
      <3>2. request[r].at = "card" /\ request[r].id = row.id => Reg!Shown(row.id) \/ row.id \in stuck
        BY <1>2, <2>1, <2>3 DEF AskKept, Reg!RowsCleared
      <3> QED
        BY <2>2, <3>1, <3>2
    <2> QED
      BY <1>1, <2>2, <2>3, <2>4, <2>5, RowsShrink, NobodyAdmitted DEF AdmissionKept
  <1> QED
    BY <1>3, <1>4 DEF Reg!RequestStep

\* A card can no longer be answered.
LEMMA ExpireStep ==
    ASSUME AdmissionKept, NEW c \in cards, Reg!CardExpires(c) PROVE AdmissionKept'
  <1>1. /\ cards' = cards \ {c} /\ stuck' = stuck \cup {c[1]}
        /\ UNCHANGED <<mgRow, wired, members, orgMembers, pending, request, flow, nameWait, toRoute, got,
                       regUp, rowsMade, wirings, admitted, cutOff>>
    BY DEF Reg!CardExpires, Reg!tables
  <1>2. AdmissionTypes'
    BY <1>1 DEF AdmissionKept, AdmissionTypes, Reg!TypeOK
  <1>3. Reg!PendingAnswerable'
    BY <1>1 DEF AdmissionKept, Reg!PendingAnswerable, Reg!Shown
  <1> QED
    BY <1>1, <1>2, <1>3, RowsShrink, NobodyAdmitted DEF AdmissionKept

\* Somebody is let in: the membership first, then the row, then the event.
LEMMA AdmitKeeps ==
    ASSUME AdmissionKept, NEW row \in pending, NEW g \in Reg!AllGroups, g \in wired',
           wired' \in {wired, wired \cup {g}},
           Reg!addMember(row.from, g), Reg!addOrgMember(row.from, g),
           pending' = pending \ {row}, toRoute' = toRoute \cup {row.from},
           admitted' = admitted \cup {<<row.from, g>>},
           wirings' \in {wirings, wirings \cup {<<row.id, g>>}},
           flow' \in BOOLEAN, nameWait' \in BOOLEAN,
           UNCHANGED <<mgRow, request, cards, got, regUp, rowsMade, stuck, cutOff>>
    PROVE  AdmissionKept'
  <1>1. /\ members' = members \cup {<<row.from, g>>} /\ orgMembers \subseteq orgMembers'
        /\ orgMembers' \subseteq orgMembers \cup {row.from}
        /\ g \in Orgs => row.from \in orgMembers'
    BY DEF Reg!addMember, Reg!addOrgMember
  <1>2. row \in Reg!Row /\ row.from \in People /\ row.id \in Nat /\ RowKept(row)
    <2>1. row \in Reg!Row /\ RowKept(row)
      BY DEF AdmissionKept, AdmissionTypes, Reg!TypeOK
    <2> QED
      BY <2>1 DEF Reg!Row
  <1>3. AdmissionTypes'
    <2>1. members' \subseteq People \X Reg!AllGroups /\ wirings' \subseteq Nat \X Reg!AllGroups
      BY <1>1, <1>2 DEF AdmissionKept, AdmissionTypes, Reg!TypeOK
    <2>2. wired' \subseteq Reg!AllGroups /\ orgMembers' \subseteq People /\ toRoute' \subseteq People
      BY <1>1, <1>2 DEF AdmissionKept, AdmissionTypes, Reg!TypeOK
    <2>3. got' \cup admitted' \cup cutOff' \subseteq People \X Reg!AllGroups
      BY <1>2 DEF AdmissionKept, AdmissionTypes, Reg!TypeOK
    <2> QED
      BY <2>1, <2>2, <2>3 DEF AdmissionKept, AdmissionTypes, Reg!TypeOK
  <1>4. \A w \in wirings' : WiringKept(w)'
    <2> SUFFICES ASSUME NEW w \in wirings' PROVE WiringKept(w)'
      OBVIOUS
    <2>1. CASE w \in wirings
      BY <2>1 DEF AdmissionKept, WiringKept
    <2>2. CASE w = <<row.id, g>>
      <3>1. w[1] = row.id
        BY <2>2
      <3> QED
        BY <1>2, <3>1 DEF AdmissionKept, RowKept, WiringKept
    <2> QED
      BY <2>1, <2>2
  <1>5. Reg!OneWiringPerRow'
    <2>1. \A w \in wirings : w[1] # row.id
      BY DEF AdmissionKept, WiringKept
    <2>2. <<row.id, g>>[1] = row.id
      OBVIOUS
    <2> QED
      BY <2>1, <2>2 DEF AdmissionKept, Reg!OneWiringPerRow
  <1>6. \A x \in admitted' : AdmittedKept(x)'
    <2> SUFFICES ASSUME NEW x \in admitted' PROVE AdmittedKept(x)'
      OBVIOUS
    <2>1. CASE x \in admitted
      BY <1>1, <2>1 DEF AdmissionKept, AdmittedKept
    <2>2. CASE x = <<row.from, g>>
      <3>1. x[1] = row.from /\ x[2] = g
        BY <2>2
      <3> QED
        BY <1>1, <2>2, <3>1 DEF AdmittedKept
    <2> QED
      BY <2>1, <2>2
  <1>7. Reg!AdmittedIsServed'
    <2>1. <<row.from, g>>[1] = row.from
      OBVIOUS
    <2> QED
      BY <2>1 DEF AdmissionKept, Reg!AdmittedIsServed
  <1>8. Reg!PendingAnswerable'
    BY DEF AdmissionKept, Reg!PendingAnswerable, Reg!Shown
  <1>9. wired \subseteq wired' /\ pending' \subseteq pending
    OBVIOUS
  <1> QED
    BY <1>3, <1>4, <1>5, <1>6, <1>7, <1>8, <1>9, RowsShrink DEF AdmissionKept

\* A row goes and nobody is let in, or the name of a new agent is asked for.
LEMMA RowGoes ==
    ASSUME AdmissionKept, pending' \subseteq pending, mgRow' \in {"none", "open", "denied"},
           flow' \in BOOLEAN, nameWait' \in BOOLEAN, regUp' \in BOOLEAN,
           UNCHANGED <<wired, members, orgMembers, request, cards, toRoute, got, rowsMade, wirings, stuck,
                       admitted, cutOff>>
    PROVE  AdmissionKept'
  <1>1. AdmissionTypes'
    BY DEF AdmissionKept, AdmissionTypes, Reg!TypeOK
  <1>2. Reg!PendingAnswerable'
    BY DEF AdmissionKept, Reg!PendingAnswerable, Reg!Shown
  <1> QED
    BY <1>1, <1>2, RowsShrink, NobodyAdmitted DEF AdmissionKept

\* The answers to a card.
LEMMA ClickStep ==
    ASSUME AdmissionKept, NEW c \in cards, NEW row \in pending, Reg!Click(c, row) PROVE AdmissionKept'
  <1>0. /\ flow \in BOOLEAN /\ nameWait \in BOOLEAN /\ regUp \in BOOLEAN
        /\ mgRow \in {"none", "open", "denied"} /\ wired \subseteq Reg!AllGroups
        /\ RowKept(row) /\ pending \ {row} \subseteq pending
    BY DEF AdmissionKept, AdmissionTypes, Reg!TypeOK
  <1>1. CASE Reg!ApproveSender(c, row)
    <2>1. row.group \in wired
      BY <1>0, <1>1 DEF Reg!ApproveSender, RowKept
    <2>2. row.group \in Reg!AllGroups
      BY <1>0, <2>1
    <2>3. /\ Reg!addMember(row.from, row.group) /\ Reg!addOrgMember(row.from, row.group)
          /\ pending' = pending \ {row} /\ toRoute' = toRoute \cup {row.from}
          /\ admitted' = admitted \cup {<<row.from, row.group>>}
          /\ UNCHANGED <<mgRow, wired, request, cards, flow, nameWait, got, regUp, rowsMade, wirings, stuck, cutOff>>
      BY <1>1 DEF Reg!ApproveSender
    <2>4. wired' \in {wired, wired \cup {row.group}} /\ wirings' \in {wirings, wirings \cup {<<row.id, row.group>>}}
      BY <2>3
    <2> QED
      BY <1>0, <2>1, <2>2, <2>3, <2>4, AdmitKeeps
  <1>2. CASE Reg!DenySender(c, row) \/ Reg!Reject(c, row) \/ Reg!ClickNewAgent(c, row)
    <2>1. /\ pending' \subseteq pending /\ mgRow' \in {"none", "open", "denied"}
          /\ flow' \in BOOLEAN /\ nameWait' \in BOOLEAN /\ regUp' \in BOOLEAN
          /\ UNCHANGED <<wired, members, orgMembers, request, cards, toRoute, got, rowsMade, wirings, stuck,
                         admitted, cutOff>>
      BY <1>0, <1>2 DEF Reg!DenySender, Reg!Reject, Reg!ClickNewAgent, Reg!tables, Reg!histories
    <2> QED
      BY <2>1, RowGoes
  <1>3. ASSUME NEW g \in Groups, Reg!Connect(c, row, g) PROVE AdmissionKept'
    <2>1. UNCHANGED <<mgRow, request, cards, flow, nameWait, got, regUp, rowsMade, stuck, cutOff>>
      BY <1>3 DEF Reg!Connect
    <2>2. CASE g \in Foreign
      <3>1. pending' \subseteq pending /\ UNCHANGED <<wired, members, orgMembers, toRoute, admitted, wirings>>
        BY <1>3, <2>2 DEF Reg!Connect
      <3> QED
        BY <1>0, <2>1, <3>1, RowGoes
    <2>3. CASE g \notin Foreign
      <3>1. Reg!Wire(g, row)
        BY <1>3, <2>3 DEF Reg!Connect
      <3>2. /\ g \in Reg!AllGroups /\ g \in wired' /\ wired' = wired \cup {g}
            /\ wirings' = wirings \cup {<<row.id, g>>}
            /\ Reg!addMember(row.from, g) /\ Reg!addOrgMember(row.from, g)
            /\ pending' = pending \ {row} /\ toRoute' = toRoute \cup {row.from}
            /\ admitted' = admitted \cup {<<row.from, g>>}
        BY <3>1 DEF Reg!Wire, Reg!AllGroups
      <3>3. wired' \in {wired, wired \cup {g}} /\ wirings' \in {wirings, wirings \cup {<<row.id, g>>}}
        BY <3>2
      <3> QED
        BY <1>0, <2>1, <3>2, <3>3, AdmitKeeps
    <2> QED
      BY <2>2, <2>3
  <1> QED
    BY <1>1, <1>2, <1>3 DEF Reg!Click

\* The name of a new agent, and the life of the host.
LEMMA HostSteps ==
    ASSUME AdmissionKept, Reg!PromptForName \/ Reg!NameReply \/ Reg!HostCrash \/ Reg!HostStarts
    PROVE  AdmissionKept'
  <1>0. /\ flow \in BOOLEAN /\ nameWait \in BOOLEAN /\ regUp \in BOOLEAN
        /\ mgRow \in {"none", "open", "denied"} /\ wired \subseteq Reg!AllGroups
    BY DEF AdmissionKept, AdmissionTypes, Reg!TypeOK
  <1>1. CASE Reg!PromptForName \/ Reg!HostStarts
    <2>1. /\ pending' \subseteq pending /\ mgRow' \in {"none", "open", "denied"}
          /\ flow' \in BOOLEAN /\ nameWait' \in BOOLEAN /\ regUp' \in BOOLEAN
          /\ UNCHANGED <<wired, members, orgMembers, request, cards, toRoute, got, rowsMade, wirings, stuck,
                         admitted, cutOff>>
      BY <1>0, <1>1 DEF Reg!PromptForName, Reg!HostStarts, Reg!tables, Reg!histories
    <2> QED
      BY <2>1, RowGoes
  <1>2. CASE Reg!NameReply
    <2>1. nameWait' \in BOOLEAN /\ UNCHANGED <<request, cards, flow, got, regUp, rowsMade, stuck, cutOff>>
      BY <1>2 DEF Reg!NameReply
    <2>2. ASSUME NEW row \in pending, Reg!Wire(NewGroup, row), UNCHANGED mgRow PROVE AdmissionKept'
      <3>1. /\ NewGroup \in Reg!AllGroups /\ NewGroup \in wired' /\ wired' = wired \cup {NewGroup}
            /\ wirings' = wirings \cup {<<row.id, NewGroup>>}
            /\ Reg!addMember(row.from, NewGroup) /\ Reg!addOrgMember(row.from, NewGroup)
            /\ pending' = pending \ {row} /\ toRoute' = toRoute \cup {row.from}
            /\ admitted' = admitted \cup {<<row.from, NewGroup>>}
        BY <2>2 DEF Reg!Wire, Reg!AllGroups
      <3>2. /\ wired' \in {wired, wired \cup {NewGroup}}
            /\ wirings' \in {wirings, wirings \cup {<<row.id, NewGroup>>}}
        BY <3>1
      <3> QED
        BY <1>0, <2>1, <2>2, <3>1, <3>2, AdmitKeeps
    <2>3. CASE UNCHANGED <<mgRow, wired, members, orgMembers, pending, toRoute, admitted, wirings>>
      BY <1>0, <2>1, <2>3, RowGoes
    <2> QED
      BY <1>2, <2>2, <2>3 DEF Reg!NameReply, Reg!tables
  <1>3. CASE Reg!HostCrash
    <2>1. /\ request' = [r \in Slots |-> Reg!IdleReq] /\ toRoute' = {} /\ regUp' = FALSE
          /\ flow' = FALSE /\ nameWait' = FALSE
          /\ stuck' = stuck \cup {request[r].id : r \in {x \in Slots : request[x].at = "card"
                                                                       /\ Reg!Unseen(request[x].id)}}
          /\ cutOff' = cutOff \cup {x \in admitted : x[1] \in toRoute}
          /\ UNCHANGED <<mgRow, wired, members, orgMembers, pending, cards, got, rowsMade, wirings, admitted>>
      BY <1>3 DEF Reg!HostCrash, Reg!tables
    <2>2. Reg!IdleReq \in Asks /\ Reg!IdleReq.at = "idle"
      BY DEF Reg!IdleReq, Asks, Reg!Keys, Reg!AllGroups
    <2>3. request' \in [Slots -> Asks] /\ \A r \in Slots : request'[r].at = "idle"
      BY <2>1, <2>2
    <2>4. AdmissionTypes'
      <3>1. got' \cup admitted' \cup cutOff' \subseteq People \X Reg!AllGroups
        BY <2>1 DEF AdmissionKept, AdmissionTypes, Reg!TypeOK
      <3> QED
        BY <2>1, <2>3, <3>1 DEF AdmissionKept, AdmissionTypes, Reg!TypeOK, Asks
    <2>5. Reg!PendingAnswerable'
      BY <2>1 DEF AdmissionKept, Reg!PendingAnswerable, Reg!Shown, Reg!Unseen
    <2>6. /\ \A w \in wirings' : WiringKept(w)'
          /\ \A x \in admitted' : AdmittedKept(x)'
          /\ Reg!OneWiringPerRow' /\ Reg!AdmittedIsServed'
      BY <2>1 DEF AdmissionKept, WiringKept, AdmittedKept, Reg!OneWiringPerRow, Reg!AdmittedIsServed
    <2> QED
      BY <2>1, <2>3, <2>4, <2>5, <2>6, RowsShrink DEF AdmissionKept
  <1> QED
    BY <1>1, <1>2, <1>3

\* The invariant speaks of the behaviours about admission.
AdmissionInv == focus = "registration" => AdmissionKept

\* Before the first message.
LEMMA AdmissionInit == ASSUME Init PROVE AdmissionInv
  <1>1. Reg!Init
    BY DEF Init
  <1>2. Reg!IdleReq \in Asks /\ Reg!IdleReq.at = "idle"
    BY DEF Reg!IdleReq, Asks, Reg!Keys, Reg!AllGroups
  <1>3. request \in [Slots -> Asks] /\ \A r \in Slots : request[r].at = "idle"
    BY <1>1, <1>2 DEF Reg!Init
  <1>4. AdmissionTypes
    BY <1>1, <1>3 DEF Reg!Init, AdmissionTypes, Reg!TypeOK, Asks
  <1> QED
    BY <1>1, <1>3, <1>4 DEF Reg!Init, AdmissionInv, AdmissionKept, RowKept, AskKept, WiringKept, AdmittedKept,
       Reg!PendingAnswerable, Reg!OneWiringPerRow, Reg!AdmittedIsServed

\* A pending admission can be answered, is carried out once, and serves whom
\* it admitted, however requests, clicks, name prompts and crashes interleave
\* (channel-approval.ts, sender-approval.ts).
THEOREM AdmissionSafe == Spec => []AdmissionSound
  <1>1. Init => AdmissionInv
    BY AdmissionInit
  <1>2. ASSUME AdmissionInv, [Next]_vars PROVE AdmissionInv'
    <2>1. CASE focus = "registration" /\ Reg!Next /\ UNCHANGED focus
      <3>1. AdmissionKept
        BY <1>2, <2>1 DEF AdmissionInv
      <3>2. ASSUME NEW p \in People, Reg!Message(p) \/ Reg!RouteAgain(p) PROVE AdmissionKept'
        <4>1. /\ Reg!Route(p) /\ toRoute' \in {toRoute, toRoute \ {p}}
              /\ UNCHANGED <<wired, members, orgMembers, pending, cards, flow, nameWait, regUp, rowsMade,
                             wirings, stuck, admitted, cutOff>>
          BY <3>2 DEF Reg!Message, Reg!RouteAgain, Reg!histories
        <4> QED
          BY <3>1, <4>1, RouteKeeps
      <3>3. AdmissionKept'
        BY <2>1, <3>1, <3>2, DmStep, AskStep, ExpireStep, ClickStep, HostSteps DEF Reg!Next
      <3> QED
        BY <3>3 DEF AdmissionInv
    <2>2. CASE UNCHANGED <<focus, regVars>>
      BY <1>2, <2>2 DEF AdmissionInv, AdmissionKept, AdmissionTypes, RowKept, AskKept, WiringKept, AdmittedKept,
         regVars, Reg!TypeOK, Reg!PendingAnswerable, Reg!Shown, Reg!OneWiringPerRow, Reg!AdmittedIsServed
    <2>3. UNCHANGED focus /\ (~ (focus = "registration" /\ Reg!Next) => UNCHANGED regVars)
      BY <1>2 DEF Next, vars
    <2> QED
      BY <2>1, <2>2, <2>3
  <1>3. AdmissionInv => AdmissionSound
    BY DEF AdmissionInv, AdmissionSound, AdmissionKept, AdmissionTypes, Reg!AdmissionSound
  <1> QED
    BY <1>1, <1>2, <1>3, PTL DEF Spec

-----------------------------------------------------------------------------
(***************************************************************************)
(* Front desks and their edges: the inductive invariant.                   *)
(***************************************************************************)
\* The run of the script and the provisioning of a clone.
ScriptRuns == [desk : Desks, todo : SUBSET Workers, back : SUBSET Workers, at : {"idle", "groups", "edges"}]
Provisions == [chat : Chats \cup {Top!NoChat}, at : {"idle", "made", "prompts", "config", "edges"},
               was : BOOLEAN, may : BOOLEAN]
Early == {"made", "prompts", "config"}

TopologyTypes ==
    /\ Top!TypeOK
    /\ script \in ScriptRuns
    /\ provision \in Provisions
    /\ owed \in [Top!Folders -> SUBSET Top!Folders]

\* There is an edge from g to h.
Edge(g, h) == \E d \in dests : d.of = g /\ d.to = h

\* The script works on groups that exist; at most one edge waits for its way back.
ScriptKept ==
    /\ script.at = "edges" => script.desk \in folders /\ script.todo \subseteq folders
                              /\ script.back \subseteq folders
    /\ script.at # "edges" => script.back = {}
    /\ \A w \in script.back : Edge(script.desk, w) /\ \A x \in script.back : x = w

\* The clone under way exists, may be wired, and its front desk still has the
\* edges the clone is owed.
ProvisionKept ==
    LET g == Top!CloneOf(provision.chat)
    IN  /\ provision.at = "idle" <=> provision = Top!Idle
        /\ provision.at # "idle" => /\ provision.chat \in Chats /\ g \in folders
                                    /\ provision.was \/ provision.may
                                    /\ <<provision.chat, g>> \notin wiredTo
        /\ provision.at \in Early =>
              \A w \in owed[g] : w # Frontdesk /\ w \in folders /\ Edge(Frontdesk, w)
        /\ provision.at = "prompts" /\ Top!HasPrompts => g \in prompts

\* A clone that is not being made has the edges it is owed, or was cut short.
CloneKept(c) ==
    /\ <<c, Top!CloneOf(c)>> \in wiredTo => Top!CloneOf(c) \in folders
    /\ Top!CloneOf(c) \in folders /\ ~ (provision.chat = c /\ provision.at \in Early) =>
          \A w \in owed[Top!CloneOf(c)] : Edge(Top!CloneOf(c), w) \/ {Top!CloneOf(c), w} \in cut

TopologyKept ==
    /\ TopologyTypes
    /\ ScriptKept
    /\ ProvisionKept
    /\ \A c \in Chats : CloneKept(c)
    /\ Top!EdgesPaired
    /\ Top!CloneBoots
    /\ Top!NoOrphanClone

\* Clones are groups of their own, one per chat.
LEMMA CloneFacts ==
    /\ \A c \in Chats : /\ Top!CloneOf(c) \in Top!Folders /\ Top!CloneOf(c) \in Top!Clones
                        /\ Top!CloneOf(c) \notin Desks /\ Top!CloneOf(c) \notin Workers
                        /\ Top!CloneOf(c) # Child /\ Top!CloneOf(c) # Frontdesk
    /\ \A c, d : Top!CloneOf(c) = Top!CloneOf(d) => c = d
    /\ Desks \subseteq Top!Folders /\ Workers \subseteq Top!Folders /\ Child \in Top!Folders
    /\ Frontdesk \in Desks
    /\ \A g \in Top!Clones : \E c \in Chats : g = Top!CloneOf(c)
  <1>1. \A c, d : <<"clone", c>> = <<"clone", d>> => c = d
    OBVIOUS
  <1> QED
    BY <1>1, TopologyAssumption DEF Top!CloneOf, Top!Folders, Top!Clones

\* An edge's two ends.
LEMMA DestIs == \A g, n, h : Top!Dest(g, n, h).of = g /\ Top!Dest(g, n, h).to = h
  BY DEF Top!Dest

\* New edges come with their way back, and what waited for it is settled.
LEMMA EdgesKeep ==
    ASSUME TopologyKept, dests \subseteq dests', cut \subseteq cut',
           \A d \in dests' : d \notin dests \/ {d.of, d.to} \in Top!Linking =>
              {d.of, d.to} \in cut' \cup Top!Linking' \/ Edge(d.to, d.of)'
    PROVE  Top!EdgesPaired'
  BY DEF TopologyKept, Top!EdgesPaired, Edge, Top!getDestinationByTarget

\* The facts of the script's state.
LEMMA ScriptFacts ==
    ASSUME TopologyKept
    PROVE  /\ script \in ScriptRuns /\ script.desk \in Desks /\ script.todo \subseteq Workers
           /\ script.back \subseteq Workers /\ script.at \in {"idle", "groups", "edges"}
           /\ script.desk \in Top!Folders
  BY CloneFacts DEF TopologyKept, TopologyTypes, ScriptRuns

\* An idle script.
LEMMA NoScriptIs ==
    /\ Top!NoScript \in ScriptRuns /\ Top!NoScript.at = "idle" /\ Top!NoScript.todo = {}
    /\ Top!NoScript.back = {}
  BY CloneFacts DEF Top!NoScript, ScriptRuns

\* A step of the script that leaves the clones and the host alone: edges,
\* wirings of desks and groups are added, never taken away.
ScriptFrame ==
    /\ folders \subseteq folders' /\ dests \subseteq dests' /\ cut \subseteq cut'
    /\ \A c \in Chats : Top!CloneOf(c) \in folders' => Top!CloneOf(c) \in folders
    /\ \A c \in Chats : /\ <<c, Top!CloneOf(c)>> \in wiredTo => <<c, Top!CloneOf(c)>> \in wiredTo'
                        /\ <<c, Top!CloneOf(c)>> \in wiredTo' => <<c, Top!CloneOf(c)>> \in wiredTo
    /\ \A g \in Top!Clones : config'[g] = config[g]
    /\ UNCHANGED <<prompts, provision, owed>>

\* Such a step keeps what is known of the clones.
LEMMA FrameKeeps ==
    ASSUME TopologyKept, ScriptFrame
    PROVE  /\ ProvisionKept' /\ (\A c \in Chats : CloneKept(c)') /\ Top!CloneBoots' /\ Top!NoOrphanClone'
  <1>1. \A g, h : Edge(g, h) => Edge(g, h)'
    BY DEF ScriptFrame, Edge
  <1>2. provision.at # "idle" => provision.chat \in Chats
    BY DEF TopologyKept, ProvisionKept
  <1>3. ProvisionKept'
    <2>1. provision' = provision /\ owed' = owed /\ prompts' = prompts
      BY DEF ScriptFrame
    <2>2. ProvisionKept
      BY DEF TopologyKept
    <2>3. provision.at # "idle" => /\ Top!CloneOf(provision.chat) \in folders'
                                   /\ <<provision.chat, Top!CloneOf(provision.chat)>> \notin wiredTo'
      BY <1>2, <2>2 DEF ProvisionKept, ScriptFrame
    <2>4. provision.at \in Early =>
             \A w \in owed[Top!CloneOf(provision.chat)] : w # Frontdesk /\ w \in folders' /\ Edge(Frontdesk, w)'
      BY <1>1, <2>2 DEF ProvisionKept, ScriptFrame
    <2> QED
      BY <2>1, <2>2, <2>3, <2>4 DEF ProvisionKept, Top!HasPrompts
  <1>4. ASSUME NEW c \in Chats PROVE CloneKept(c)'
    BY <1>1 DEF TopologyKept, CloneKept, ScriptFrame
  <1>5. Top!CloneBoots'
    BY DEF TopologyKept, Top!CloneBoots, Top!HasPrompts, ScriptFrame
  <1>6. Top!NoOrphanClone'
    BY DEF TopologyKept, Top!NoOrphanClone, ScriptFrame
  <1> QED
    BY <1>3, <1>4, <1>5, <1>6

\* The script starts and makes its groups.
LEMMA ScriptGroups ==
    ASSUME TopologyKept,
           (\E args \in Top!ScriptArgs : Top!parseArgs(args)) \/ Top!ensureAgentGroup
    PROVE  TopologyKept'
  <1>1. ASSUME NEW args \in Top!ScriptArgs, Top!parseArgs(args) PROVE TopologyKept'
    <2>1. /\ script.at = "idle" /\ scripts < MaxScripts /\ script' = args /\ scripts' = scripts + 1
          /\ UNCHANGED <<folders, roleOf, dests, config, prompts, wiredTo, open, denied, provision, owed,
                         topologyTrouble, cut>>
      BY <1>1 DEF Top!parseArgs, Top!tables, Top!channel, Top!hostState
    <2>2. args \in ScriptRuns /\ args.at = "groups" /\ args.back = {} /\ args.todo \cup args.back \subseteq Workers
      BY DEF Top!ScriptArgs, ScriptRuns
    <2>3. TopologyTypes'
      BY <2>1, <2>2, TopologyAssumption DEF TopologyKept, TopologyTypes, Top!TypeOK
    <2>4. ScriptKept'
      BY <2>1, <2>2 DEF ScriptKept
    <2>5. Top!EdgesPaired'
      <3>1. Top!Linking = {}
        BY <2>1 DEF TopologyKept, ScriptKept, Top!Linking
      <3> QED
        BY <2>1, <3>1, EdgesKeep
    <2>6. ScriptFrame
      BY <2>1 DEF ScriptFrame
    <2> QED
      BY <2>3, <2>4, <2>5, <2>6, FrameKeeps DEF TopologyKept
  <1>2. CASE Top!ensureAgentGroup
    <2> DEFINE made0 == {script.desk} \cup script.todo
    <2>1. /\ script.at = "groups" /\ folders' = folders \cup made0
          /\ roleOf' = [g \in Top!Folders |-> IF g = script.desk THEN "frontdesk"
                                              ELSE IF g \in script.todo THEN "worker" ELSE roleOf[g]]
          /\ config' = [g \in Top!Folders |-> IF g \in made0 /\ config[g] = "none" THEN "default" ELSE config[g]]
          /\ script' = [script EXCEPT !.at = "edges"]
          /\ UNCHANGED <<dests, prompts, wiredTo, open, denied, provision, owed, scripts, topologyTrouble, cut>>
      BY <1>2 DEF Top!ensureAgentGroup, Top!channel, Top!hostState
    <2>2. /\ script' \in ScriptRuns /\ script'.at = "edges" /\ script'.desk = script.desk
          /\ script'.todo = script.todo /\ script'.back = script.back
      BY <2>1, ScriptFacts DEF ScriptRuns
    <2>3. made0 \subseteq Top!Folders /\ made0 \subseteq Desks \cup Workers /\ script.back = {}
      BY <2>1, ScriptFacts, CloneFacts DEF TopologyKept, ScriptKept
    <2>4. script'.todo \cup script'.back \subseteq Workers
      BY <2>2, <2>3, ScriptFacts
    <2> HIDE DEF made0
    <2>5. roleOf' \in [Top!Folders -> {"none", "frontdesk", "worker"}]
          /\ config' \in [Top!Folders -> {"none", "default", "cloned"}]
      BY <2>1 DEF TopologyKept, TopologyTypes, Top!TypeOK
    <2>6. folders' \subseteq Top!Folders
      BY <2>1, <2>3 DEF TopologyKept, TopologyTypes, Top!TypeOK
    <2>7. TopologyTypes'
      BY <2>1, <2>2, <2>4, <2>5, <2>6 DEF TopologyKept, TopologyTypes, Top!TypeOK
    <2>8. ScriptKept'
      BY <2>1, <2>2, <2>3 DEF ScriptKept, made0
    <2>9. Top!EdgesPaired'
      <3>1. Top!Linking = {}
        BY <2>3 DEF Top!Linking
      <3> QED
        BY <2>1, <3>1, EdgesKeep
    <2>10. ScriptFrame
      <3>1. \A g \in Top!Clones : g \in Top!Folders /\ g \notin made0
        BY <2>3, CloneFacts
      <3>2. \A g \in Top!Clones : config'[g] = config[g]
        BY <2>1, <3>1
      <3> QED
        BY <2>1, <3>1, <3>2, CloneFacts DEF ScriptFrame
    <2> QED
      BY <2>7, <2>8, <2>9, <2>10, FrameKeeps DEF TopologyKept
  <1> QED
    BY <1>1, <1>2

\* The script ends: what it had still to do is cut.
LEMMA ScriptStops ==
    ASSUME TopologyKept, script' = Top!NoScript,
           cut' = cut \cup {{script.desk, w} : w \in script.todo \cup script.back},
           topologyTrouble' \in 0 .. MaxTopologyTrouble,
           UNCHANGED <<folders, roleOf, dests, config, prompts, wiredTo, open, denied, provision, owed, scripts>>
    PROVE  TopologyKept'
  <1>1. TopologyTypes'
    <2>1. script'.at = "idle" /\ script'.todo \cup script'.back \subseteq Workers /\ script' \in ScriptRuns
      BY NoScriptIs
    <2> QED
      BY <2>1 DEF TopologyKept, TopologyTypes, Top!TypeOK
  <1>2. ScriptKept'
    BY NoScriptIs DEF ScriptKept
  <1>3. Top!EdgesPaired'
    <2>1. Top!Linking \subseteq cut' /\ cut \subseteq cut'
      BY DEF Top!Linking
    <2> QED
      BY <2>1, EdgesKeep
  <1>4. ScriptFrame
    BY DEF ScriptFrame
  <1> QED
    BY <1>1, <1>2, <1>3, <1>4, FrameKeeps DEF TopologyKept

\* The edges the script makes.
LEMMA ScriptLinks ==
    ASSUME TopologyKept, NEW w \in Workers, Top!LinkWorker(w) \/ Top!LinkBack(w) PROVE TopologyKept'
  <1>0. /\ script.at = "edges"
        /\ UNCHANGED <<folders, roleOf, config, prompts, wiredTo, open, denied, provision, owed, scripts, topologyTrouble>>
        /\ topologyTrouble \in 0 .. MaxTopologyTrouble
    BY DEF Top!LinkWorker, Top!LinkBack, Top!channel, Top!hostState, TopologyKept, TopologyTypes, Top!TypeOK
  <1>1. CASE /\ script' = Top!NoScript
             /\ cut' = cut \cup {{script.desk, x} : x \in script.todo \cup script.back} /\ UNCHANGED dests
    BY <1>0, <1>1, ScriptStops
  <1>2. CASE /\ Top!LinkWorker(w) /\ cut' = cut
             /\ dests' = dests \cup {Top!Dest(script.desk, w, w)}
             /\ script' = [script EXCEPT !.todo = @ \ {w}, !.back = {w}]
    <2>1. w \in script.todo /\ script.back = {}
      BY <1>2 DEF Top!LinkWorker
    <2>2. /\ script' \in ScriptRuns /\ script'.at = "edges" /\ script'.desk = script.desk
          /\ script'.todo = script.todo \ {w} /\ script'.back = {w}
      BY <1>0, <1>2, ScriptFacts DEF ScriptRuns
    <2>3. w \in folders /\ script.desk \in folders /\ script.todo \subseteq folders
      BY <1>0, <2>1 DEF TopologyKept, ScriptKept
    <2>4. script'.todo \cup script'.back \subseteq Workers
      BY <2>2, ScriptFacts
    <2>5. \A d \in dests' : d \in dests \/ (d.of = script.desk /\ d.to = w)
      BY <1>2, DestIs
    <2>6. TopologyTypes'
      BY <1>0, <1>2, <2>2, <2>3, <2>4, <2>5 DEF TopologyKept, TopologyTypes, Top!TypeOK
    <2>7. ScriptKept'
      <3>1. Edge(script.desk, w)'
        BY <1>2, DestIs DEF Edge
      <3> QED
        BY <1>0, <2>2, <2>3, <3>1 DEF ScriptKept
    <2>8. Top!EdgesPaired'
      <3>1. Top!Linking = {} /\ {script.desk, w} \in Top!Linking'
        BY <2>1, <2>2 DEF Top!Linking
      <3> QED
        BY <1>2, <2>5, <3>1, EdgesKeep
    <2>9. ScriptFrame
      BY <1>0, <1>2 DEF ScriptFrame
    <2> QED
      BY <2>6, <2>7, <2>8, <2>9, FrameKeeps DEF TopologyKept
  <1>3. CASE /\ Top!LinkBack(w) /\ cut' = cut
             /\ dests' = dests \cup {Top!Dest(w, Top!FrontdeskName, script.desk)}
             /\ script' = [script EXCEPT !.back = {}]
    <2>1. w \in script.back /\ \A x \in script.back : x = w
      BY <1>3 DEF Top!LinkBack, TopologyKept, ScriptKept
    <2>2. /\ script' \in ScriptRuns /\ script'.at = "edges" /\ script'.desk = script.desk
          /\ script'.todo = script.todo /\ script'.back = {}
      BY <1>0, <1>3, ScriptFacts DEF ScriptRuns
    <2>3. w \in folders /\ script.desk \in folders /\ script.todo \subseteq folders /\ Edge(script.desk, w)
      BY <1>0, <2>1 DEF TopologyKept, ScriptKept
    <2>4. script'.todo \cup script'.back \subseteq Workers
      BY <2>2, ScriptFacts
    <2>5. \A d \in dests' : d \in dests \/ (d.of = w /\ d.to = script.desk)
      BY <1>3, DestIs
    <2>6. TopologyTypes'
      BY <1>0, <1>3, <2>2, <2>3, <2>4, <2>5 DEF TopologyKept, TopologyTypes, Top!TypeOK
    <2>7. ScriptKept'
      BY <1>0, <2>2, <2>3 DEF ScriptKept
    <2>8. Top!EdgesPaired'
      <3>1. Edge(script.desk, w)' /\ Edge(w, script.desk)'
        BY <1>3, <2>3, DestIs DEF Edge
      <3>2. Top!Linking \subseteq {{script.desk, w}}
        BY <2>1 DEF Top!Linking
      <3>3. \A d \in dests' : {d.of, d.to} = {script.desk, w} \/ (d.of = w /\ d.to = script.desk) => Edge(d.to, d.of)'
        <4> SUFFICES ASSUME NEW d \in dests', {d.of, d.to} = {script.desk, w} PROVE Edge(d.to, d.of)'
          BY <2>2, <3>1
        <4>1. d.of \in {script.desk, w} /\ d.to \in {script.desk, w} /\ w \in {d.of, d.to}
              /\ script.desk \in {d.of, d.to}
          OBVIOUS
        <4>2. (d.of = script.desk /\ d.to = w) \/ (d.of = w /\ d.to = script.desk)
          BY <4>1
        <4> QED
          BY <2>2, <3>1, <4>2
      <3> QED
        BY <1>3, <2>5, <3>2, <3>3, EdgesKeep
    <2>9. ScriptFrame
      BY <1>0, <1>3 DEF ScriptFrame
    <2> QED
      BY <2>6, <2>7, <2>8, <2>9, FrameKeeps DEF TopologyKept
  <1> QED
    BY <1>1, <1>2, <1>3 DEF Top!LinkWorker, Top!LinkBack, Top!ensureDestination

\* The end of the script.
LEMMA ScriptFinish ==
    ASSUME TopologyKept, Top!ensureSharedEntryWiring \/ Top!ScriptEnds PROVE TopologyKept'
  <1>1. CASE Top!ScriptEnds
    BY <1>1, ScriptStops, TopologyAssumption
       DEF Top!ScriptEnds, Top!Trouble, Top!tables, Top!channel, Top!hostState, TopologyKept, TopologyTypes, Top!TypeOK
  <1>2. CASE Top!ensureSharedEntryWiring
    <2>1. /\ script.back = {} /\ script' = Top!NoScript
          /\ \/ UNCHANGED <<wiredTo, open>>
             \/ \E c \in Chats : wiredTo' = wiredTo \cup {<<c, script.desk>>} /\ open' \in {open \cup {c}, open \ {c}}
          /\ UNCHANGED <<folders, roleOf, dests, config, prompts, denied, provision, owed, scripts, topologyTrouble, cut>>
      BY <1>2 DEF Top!ensureSharedEntryWiring, Top!tables, Top!hostState
    <2>2. script'.at = "idle" /\ script'.todo \cup script'.back \subseteq Workers /\ script' \in ScriptRuns
      BY <2>1, NoScriptIs
    <2>3. wiredTo' \subseteq Chats \X Top!Folders /\ open' \subseteq Chats
      BY <2>1, ScriptFacts DEF TopologyKept, TopologyTypes, Top!TypeOK
    <2>4. TopologyTypes'
      BY <2>1, <2>2, <2>3 DEF TopologyKept, TopologyTypes, Top!TypeOK
    <2>5. ScriptKept'
      BY <2>1, NoScriptIs DEF ScriptKept
    <2>6. Top!EdgesPaired'
      <3>1. Top!Linking = {}
        BY <2>1 DEF Top!Linking
      <3> QED
        BY <2>1, <3>1, EdgesKeep
    <2>7. ScriptFrame
      <3>1. \A c, d \in Chats : <<c, Top!CloneOf(c)>> # <<d, script.desk>>
        BY ScriptFacts, CloneFacts
      <3> QED
        BY <2>1, <3>1 DEF ScriptFrame
    <2> QED
      BY <2>4, <2>5, <2>6, <2>7, FrameKeeps DEF TopologyKept
  <1> QED
    BY <1>1, <1>2

\* The script's own state does not move while groups and edges are added.
LEMMA ScriptStays ==
    ASSUME TopologyKept, script' = script, folders \subseteq folders', dests \subseteq dests'
    PROVE  ScriptKept'
  <1>1. \A g, h : Edge(g, h) => Edge(g, h)'
    BY DEF Edge
  <1>2. \A w \in script.back : Edge(script.desk, w)'
    BY <1>1 DEF TopologyKept, ScriptKept
  <1> QED
    BY <1>2 DEF TopologyKept, ScriptKept

\* A provisioning that begins.
Begun(c, was, may) == [chat |-> c, at |-> "made", was |-> was, may |-> may]

\* No provisioning.
LEMMA IdleIs == /\ Top!Idle \in Provisions /\ Top!Idle.at = "idle" /\ Top!Idle.chat = Top!NoChat
                /\ Top!Idle.chat \notin Chats
  BY TopologyAssumption DEF Top!Idle, Provisions, Top!NoChat

\* The record of a provisioning that begins.
LEMMA BegunIs ==
    ASSUME NEW c \in Chats, NEW was \in BOOLEAN, NEW may \in BOOLEAN
    PROVE  /\ Begun(c, was, may) \in Provisions /\ Begun(c, was, may).at = "made"
           /\ Begun(c, was, may).chat = c
           /\ was \/ may => Begun(c, was, may).was \/ Begun(c, was, may).may
  <1>1. Begun(c, was, may) \in Provisions
    BY Zenon DEF Begun, Provisions
  <1>2. Begun(c, was, may).at = "made" /\ Begun(c, was, may).chat = c
    BY DEF Begun
  <1>3. Begun(c, was, may).was = was /\ Begun(c, was, may).may = may
    BY Zenon DEF Begun
  <1> QED
    BY <1>1, <1>2, <1>3

\* The provisioning goes on.
LEMMA GoesOn ==
    ASSUME TopologyKept, NEW at \in {"made", "prompts", "config", "edges"},
           provision' = [provision EXCEPT !.at = at]
    PROVE  /\ provision' \in Provisions /\ provision'.at = at /\ provision'.chat = provision.chat
           /\ ((provision.was \/ provision.may) => (provision'.was \/ provision'.may))
           /\ provision' # Top!Idle
  <1>1. provision \in Provisions
    BY DEF TopologyKept, TopologyTypes
  <1>2. provision' \in Provisions /\ provision'.at = at /\ provision'.chat = provision.chat
    BY <1>1 DEF Provisions
  <1>3. provision'.was = provision.was /\ provision'.may = provision.may
    BY <1>1 DEF Provisions
  <1> QED
    BY <1>2, <1>3, IdleIs

\* A chat is refused, or served by a group that exists.
LEMMA WireSteps ==
    ASSUME TopologyKept, NEW c \in Chats, NEW isolated \in BOOLEAN, NEW downgrade \in BOOLEAN,
           Top!Deny(c) \/ Top!maybeAutowireEnterpriseFrontdesk(c, isolated, downgrade)
    PROVE  TopologyKept'
  <1>1. CASE Top!Deny(c)
    <2>1. /\ denied' = denied \cup {c}
          /\ UNCHANGED <<folders, roleOf, dests, config, prompts, wiredTo, open, provision, owed, script, scripts,
                         topologyTrouble, cut>>
      BY <1>1 DEF Top!Deny, Top!tables, Top!hostState, Top!scriptState
    <2>2. TopologyTypes'
      BY <2>1 DEF TopologyKept, TopologyTypes, Top!TypeOK
    <2>3. Top!EdgesPaired'
      BY <2>1 DEF TopologyKept, Top!EdgesPaired, Top!Linking, Top!getDestinationByTarget
    <2> QED
      BY <2>1, <2>2, <2>3, ScriptStays, FrameKeeps DEF TopologyKept, ScriptFrame
  <1>2. CASE Top!maybeAutowireEnterpriseFrontdesk(c, isolated, downgrade)
    <2> DEFINE target == IF isolated THEN Top!CloneOf(c) ELSE Frontdesk
    <2>1. /\ provision = Top!Idle /\ target \in folders
          /\ \/ wiredTo' = wiredTo \cup {<<c, target>>} /\ open' \in {open, open \cup {c}}
             \/ UNCHANGED <<wiredTo, open>>
          /\ UNCHANGED <<folders, roleOf, dests, config, prompts, denied, provision, owed, script, scripts,
                         topologyTrouble, cut>>
      BY <1>2 DEF Top!maybeAutowireEnterpriseFrontdesk, Top!Wire, Top!tables, Top!hostState, Top!scriptState
    <2>2. wiredTo' \subseteq Chats \X Top!Folders /\ open' \subseteq Chats
      <3>1. target \in Top!Folders
        BY <2>1 DEF TopologyKept, TopologyTypes, Top!TypeOK
      <3> HIDE DEF target
      <3> QED
        BY <2>1, <3>1 DEF TopologyKept, TopologyTypes, Top!TypeOK
    <2>3. TopologyTypes'
      BY <2>1, <2>2 DEF TopologyKept, TopologyTypes, Top!TypeOK
    <2>4. Top!EdgesPaired'
      BY <2>1 DEF TopologyKept, Top!EdgesPaired, Top!Linking, Top!getDestinationByTarget
    <2>5. ProvisionKept'
      BY <2>1, IdleIs DEF ProvisionKept, Early
    <2>6. ASSUME NEW d \in Chats PROVE CloneKept(d)'
      <3>1. <<d, Top!CloneOf(d)>> = <<c, target>> => Top!CloneOf(d) \in folders
        BY <2>1
      <3>2. <<d, Top!CloneOf(d)>> \in wiredTo' => Top!CloneOf(d) \in folders
        BY <2>1, <3>1 DEF TopologyKept, CloneKept
      <3> QED
        BY <2>1, <3>2 DEF TopologyKept, CloneKept, Edge
    <2>7. wiredTo \subseteq wiredTo'
      BY <2>1
    <2>8. Top!CloneBoots' /\ Top!NoOrphanClone'
      BY <2>1, <2>7 DEF TopologyKept, Top!CloneBoots, Top!NoOrphanClone, Top!HasPrompts
    <2> QED
      BY <2>1, <2>3, <2>4, <2>5, <2>6, <2>8, ScriptStays DEF TopologyKept
  <1> QED
    BY <1>1, <1>2

\* A clone begins to be made.
LEMMA CloneBegins ==
    ASSUME TopologyKept, NEW c \in Chats, NEW downgrade \in BOOLEAN,
           Top!resolveOrCreatePerGroupAgent(c, downgrade)
    PROVE  TopologyKept'
  <1> DEFINE g == Top!CloneOf(c)
             peers == Top!Delegates(Frontdesk) \ {Frontdesk}
  <1>1. /\ provision = Top!Idle /\ g \notin folders /\ folders' = folders \cup {g}
        /\ roleOf' = [roleOf EXCEPT ![g] = roleOf[Frontdesk]]
        /\ config' = [config EXCEPT ![g] = IF @ = "none" THEN "default" ELSE @]
        /\ owed' = [owed EXCEPT ![g] = peers]
        /\ provision' = Begun(c, c \in open, downgrade)
        /\ (c \in open) \/ downgrade
        /\ UNCHANGED <<dests, prompts, wiredTo, open, denied, script, scripts, topologyTrouble, cut>>
    BY DEF Top!resolveOrCreatePerGroupAgent, Top!createAgentGroup, Top!initGroupFilesystem, Top!gatePassed,
       Top!channel, Top!scriptState, Begun
  <1>2. /\ provision' \in Provisions /\ provision'.at = "made" /\ provision'.chat = c
        /\ (provision'.was \/ provision'.may) /\ provision' # Top!Idle
    <2>1. (c \in open) \in BOOLEAN
      OBVIOUS
    <2>2. /\ Begun(c, c \in open, downgrade) \in Provisions /\ Begun(c, c \in open, downgrade).at = "made"
          /\ Begun(c, c \in open, downgrade).chat = c
          /\ Begun(c, c \in open, downgrade).was \/ Begun(c, c \in open, downgrade).may
      BY <1>1, <2>1, BegunIs, ZenonT(60)
    <2> QED
      BY <1>1, <2>2, IdleIs
  <1>3. /\ g \in Top!Folders /\ g \in Top!Clones /\ Frontdesk \in Top!Folders /\ provision.chat \notin Chats
        /\ provision.at = "idle"
    BY <1>1, CloneFacts, IdleIs
  <1>4. \A w \in peers : w # Frontdesk /\ w \in folders /\ w \in Top!Folders /\ Edge(Frontdesk, w)
    BY DEF TopologyKept, TopologyTypes, Top!TypeOK, Top!Delegates, Top!getDestinations, Edge
  <1> HIDE DEF peers
  <1>5. owed' \in [Top!Folders -> SUBSET Top!Folders] /\ owed'[g] = peers
        /\ \A x \in Top!Folders : x # g => owed'[x] = owed[x]
    BY <1>1, <1>3, <1>4 DEF TopologyKept, TopologyTypes
  <1>6. /\ config' \in [Top!Folders -> {"none", "default", "cloned"}]
        /\ \A x \in Top!Folders : config'[x] = "cloned" => config[x] = "cloned"
    BY <1>1, <1>3 DEF TopologyKept, TopologyTypes, Top!TypeOK
  <1>7. TopologyTypes'
    <2>1. roleOf' \in [Top!Folders -> {"none", "frontdesk", "worker"}]
      BY <1>1, <1>3 DEF TopologyKept, TopologyTypes, Top!TypeOK
    <2>2. folders' \subseteq Top!Folders /\ provision'.at \in {"idle", "made", "prompts", "config", "edges"}
      BY <1>1, <1>2, <1>3 DEF TopologyKept, TopologyTypes, Top!TypeOK
    <2> QED
      BY <1>1, <1>2, <1>5, <1>6, <2>1, <2>2 DEF TopologyKept, TopologyTypes, Top!TypeOK
  <1>8. Top!EdgesPaired'
    BY <1>1 DEF TopologyKept, Top!EdgesPaired, Top!Linking, Top!getDestinationByTarget
  <1>9. ProvisionKept'
    <2>1. <<c, g>> \notin wiredTo'
      BY <1>1 DEF TopologyKept, CloneKept
    <2>2. \A w \in owed'[g] : w # Frontdesk /\ w \in folders' /\ Edge(Frontdesk, w)'
      BY <1>1, <1>4, <1>5 DEF Edge
    <2> QED
      BY <1>1, <1>2, <2>1, <2>2 DEF ProvisionKept, Early
  <1>10. ASSUME NEW d \in Chats PROVE CloneKept(d)'
    <2>1. CASE d = c
      <3>1. <<c, g>> \notin wiredTo'
        BY <1>1 DEF TopologyKept, CloneKept
      <3> QED
        BY <1>2, <2>1, <3>1 DEF CloneKept, Early
    <2>2. CASE d # c
      <3>1. /\ Top!CloneOf(d) # g /\ owed'[Top!CloneOf(d)] = owed[Top!CloneOf(d)] /\ provision.chat # d
            /\ provision'.chat # d
        BY <1>2, <1>3, <1>5, <2>2, CloneFacts
      <3> QED
        BY <1>1, <3>1 DEF TopologyKept, CloneKept, Edge
    <2> QED
      BY <2>1, <2>2
  <1>11. Top!CloneBoots'
    BY <1>1, <1>6, CloneFacts DEF TopologyKept, Top!CloneBoots, Top!HasPrompts
  <1>12. Top!NoOrphanClone'
    BY <1>1, <1>2, <1>3, CloneFacts DEF TopologyKept, Top!NoOrphanClone
  <1> QED
    BY <1>1, <1>7, <1>8, <1>9, <1>10, <1>11, <1>12, ScriptStays DEF TopologyKept

\* The files of the clone.
LEMMA FileSteps ==
    ASSUME TopologyKept, Top!CopyPrompts \/ Top!CopyConfig PROVE TopologyKept'
  <1> DEFINE g == Top!CloneOf(provision.chat)
  <1>1. /\ provision.at \in {"made", "prompts"}
        /\ UNCHANGED <<folders, roleOf, dests, wiredTo, open, denied, owed, script, scripts, cut>>
    BY DEF Top!CopyPrompts, Top!CopyConfig, Top!channel, Top!scriptState
  <1>2. /\ provision.chat \in Chats /\ g \in folders /\ (provision.was \/ provision.may)
        /\ <<provision.chat, g>> \notin wiredTo /\ g \in Top!Folders /\ g \in Top!Clones /\ g # Frontdesk
        /\ \A w \in owed[g] : w # Frontdesk /\ w \in folders /\ Edge(Frontdesk, w)
    BY <1>1, CloneFacts DEF TopologyKept, ProvisionKept, Early
  <1>3. /\ \/ /\ prompts' = IF Top!HasPrompts THEN prompts \cup {g} ELSE prompts
              /\ provision' = [provision EXCEPT !.at = "prompts"] /\ UNCHANGED <<config, topologyTrouble>>
           \/ /\ provision' = [provision EXCEPT !.at = "config"]
              /\ config' \in {config, [config EXCEPT ![g] = "cloned"]}
              /\ config' # config /\ Top!HasPrompts => g \in prompts
              /\ UNCHANGED prompts /\ topologyTrouble' \in 0 .. MaxTopologyTrouble
    BY TopologyAssumption DEF Top!CopyPrompts, Top!CopyConfig, Top!Trouble, TopologyKept, ProvisionKept,
       TopologyTypes, Top!TypeOK
  <1>4. /\ provision' \in Provisions /\ provision'.at \in {"prompts", "config"} /\ provision'.chat = provision.chat
        /\ (provision'.was \/ provision'.may) /\ provision' # Top!Idle
    BY <1>2, <1>3, GoesOn
  <1>5. provision.at \in {"prompts", "config"} => provision.at \in Early
    BY DEF Early
  <1>6. /\ prompts \subseteq prompts' /\ prompts' \subseteq prompts \cup {g}
        /\ Top!HasPrompts' <=> Top!HasPrompts
        /\ provision'.at = "prompts" /\ Top!HasPrompts => g \in prompts'
    BY <1>2, <1>3, GoesOn DEF Top!HasPrompts
  <1>7. TopologyTypes'
    <2>1. config' \in [Top!Folders -> {"none", "default", "cloned"}] /\ prompts' \subseteq Top!Folders
      BY <1>2, <1>3, <1>6 DEF TopologyKept, TopologyTypes, Top!TypeOK
    <2>2. topologyTrouble' \in 0 .. MaxTopologyTrouble
      BY <1>3 DEF TopologyKept, TopologyTypes, Top!TypeOK
    <2> QED
      BY <1>1, <1>4, <2>1, <2>2 DEF TopologyKept, TopologyTypes, Top!TypeOK
  <1>8. ProvisionKept'
    <2> DEFINE c == provision.chat
    <2>1. c \in Chats /\ provision'.chat = c /\ g = Top!CloneOf(c)
      BY <1>2, <1>4
    <2>2. \A w \in owed'[g] : w # Frontdesk /\ w \in folders' /\ Edge(Frontdesk, w)'
      BY <1>1, <1>2 DEF Edge
    <2> HIDE DEF c, g
    <2> QED
      BY <1>1, <1>2, <1>4, <1>6, <2>1, <2>2 DEF ProvisionKept
  <1>9. ASSUME NEW d \in Chats PROVE CloneKept(d)'
    <2>1. provision.at \in Early /\ provision'.at \in Early
      BY <1>1, <1>4 DEF Early
    <2> QED
      BY <1>1, <1>4, <2>1 DEF TopologyKept, CloneKept, Edge
  <1>10. Top!CloneBoots'
    <2>1. \A x \in Top!Clones : config'[x] = "cloned" => config[x] = "cloned" \/ (x = g /\ (Top!HasPrompts => g \in prompts))
      <3>1. config \in [Top!Folders -> {"none", "default", "cloned"}] /\ Top!Clones \subseteq Top!Folders
        BY CloneFacts DEF TopologyKept, TopologyTypes, Top!TypeOK
      <3> QED
        BY <1>2, <1>3, <3>1
    <2> QED
      BY <1>6, <2>1 DEF TopologyKept, Top!CloneBoots
  <1>11. Top!NoOrphanClone'
    BY <1>1, <1>4 DEF TopologyKept, Top!NoOrphanClone
  <1>12. Top!EdgesPaired'
    BY <1>1 DEF TopologyKept, Top!EdgesPaired, Top!Linking, Top!getDestinationByTarget
  <1> QED
    BY <1>1, <1>7, <1>8, <1>9, <1>10, <1>11, <1>12, ScriptStays DEF TopologyKept

\* The edges a clone gets, each way.
LEMMA MirrorIs ==
    ASSUME TopologyKept, NEW g \in folders
    PROVE  /\ \A d \in Top!mirror(g) : d.of \in folders /\ d.to \in folders /\ g \in {d.of, d.to}
           /\ \A d \in Top!mirror(g) : \E e \in Top!mirror(g) : e.of = d.to /\ e.to = d.of
           /\ \A w : w # Frontdesk /\ Edge(Frontdesk, w) => \E d \in Top!mirror(g) : d.of = g /\ d.to = w
  <1>1. \A m \in Top!Mirrored : m \in dests /\ m.of = Frontdesk /\ m.to \in folders
    BY DEF Top!Mirrored, Top!getDestinations, TopologyKept, TopologyTypes, Top!TypeOK
  <1>2. \A d \in Top!mirror(g) : \E m \in Top!Mirrored :
           d = Top!Dest(g, m.name, m.to) \/ d = Top!Dest(m.to, g, g)
    BY DEF Top!mirror
  <1>3. \A m \in Top!Mirrored : Top!Dest(g, m.name, m.to) \in Top!mirror(g) /\ Top!Dest(m.to, g, g) \in Top!mirror(g)
    BY DEF Top!mirror
  <1>4. \A d \in Top!mirror(g) : d.of \in folders /\ d.to \in folders /\ g \in {d.of, d.to}
    BY <1>1, <1>2, DestIs
  <1>5. \A d \in Top!mirror(g) : \E e \in Top!mirror(g) : e.of = d.to /\ e.to = d.of
    BY <1>2, <1>3, DestIs, SMTT(40)
  <1>6. \A w : w # Frontdesk /\ Edge(Frontdesk, w) => \E m \in Top!Mirrored : m.to = w
    BY DEF Edge, Top!Mirrored, Top!getDestinations
  <1>7. \A w : w # Frontdesk /\ Edge(Frontdesk, w) => \E d \in Top!mirror(g) : d.of = g /\ d.to = w
    BY <1>3, <1>6, DestIs
  <1> QED
    BY <1>4, <1>5, <1>7

\* The clone gets its edges, or the host ends meanwhile.
LEMMA EdgeSteps ==
    ASSUME TopologyKept, Top!cloneFrontdeskDelegationEdges \/ Top!HostEnds PROVE TopologyKept'
  <1> DEFINE g == Top!CloneOf(provision.chat)
  <1>1. /\ provision.at # "idle"
        /\ UNCHANGED <<folders, roleOf, config, prompts, wiredTo, open, denied, owed, script, scripts>>
    BY IdleIs DEF Top!cloneFrontdeskDelegationEdges, Top!HostEnds, Top!channel, Top!scriptState, TopologyKept,
       ProvisionKept
  <1>2. /\ provision.chat \in Chats /\ g \in folders /\ (provision.was \/ provision.may)
        /\ <<provision.chat, g>> \notin wiredTo /\ g \in Top!Folders
        /\ provision.at \in Early => \A w \in owed[g] : w # Frontdesk /\ w \in folders /\ Edge(Frontdesk, w)
    BY <1>1, CloneFacts DEF TopologyKept, ProvisionKept
  <1>3. /\ \A d \in Top!mirror(g) : d.of \in folders /\ d.to \in folders /\ g \in {d.of, d.to}
        /\ \A d \in Top!mirror(g) : \E e \in Top!mirror(g) : e.of = d.to /\ e.to = d.of
        /\ \A w : w # Frontdesk /\ Edge(Frontdesk, w) => \E d \in Top!mirror(g) : d.of = g /\ d.to = w
    BY <1>2, MirrorIs
  <1>4. /\ dests \subseteq dests' /\ dests' \subseteq dests \cup Top!mirror(g) /\ cut \subseteq cut'
        /\ topologyTrouble' \in 0 .. MaxTopologyTrouble
        /\ \/ /\ dests' = dests \cup Top!mirror(g) /\ provision.at = "config" /\ UNCHANGED cut
              /\ provision' = [provision EXCEPT !.at = "edges"]
           \/ /\ cut' = cut \cup {{g, h} : h \in Top!Folders} /\ provision' = Top!Idle
    <2>1. CASE Top!cloneFrontdeskDelegationEdges
      BY <2>1 DEF Top!cloneFrontdeskDelegationEdges, TopologyKept, TopologyTypes, Top!TypeOK
    <2>2. CASE Top!HostEnds
      <3>1. /\ cut' = cut \cup {{g, h} : h \in Top!Folders} /\ provision' = Top!Idle
            /\ dests' = dests \/ \E some \in SUBSET Top!mirror(g) : dests' = dests \cup some
        BY <2>2 DEF Top!HostEnds
      <3>2. topologyTrouble' \in 0 .. MaxTopologyTrouble
        BY <2>2, TopologyAssumption DEF Top!HostEnds, Top!Trouble, TopologyKept, TopologyTypes, Top!TypeOK
      <3> QED
        BY <3>1, <3>2
    <2> QED
      BY <2>1, <2>2
  <1>5. \A x, y : Edge(x, y) => Edge(x, y)'
    BY <1>4 DEF Edge
  <1>6. TopologyTypes'
    <2>1. \A d \in dests' : d.of \in folders /\ d.to \in folders
      BY <1>3, <1>4 DEF TopologyKept, TopologyTypes, Top!TypeOK
    <2>2. provision' \in Provisions /\ provision'.at \in {"idle", "edges"}
      BY <1>4, GoesOn, IdleIs
    <2> QED
      BY <1>1, <1>4, <2>1, <2>2 DEF TopologyKept, TopologyTypes, Top!TypeOK
  <1>7. CASE /\ dests' = dests \cup Top!mirror(g) /\ provision.at = "config" /\ UNCHANGED cut
             /\ provision' = [provision EXCEPT !.at = "edges"]
    <2>1. /\ provision'.at = "edges" /\ provision'.chat = provision.chat /\ (provision'.was \/ provision'.may)
          /\ provision' # Top!Idle
      BY <1>2, <1>7, GoesOn
    <2>2. Top!EdgesPaired'
      <3>1. \A d \in Top!mirror(g) : Edge(d.to, d.of)'
        BY <1>3, <1>7 DEF Edge
      <3>2. Top!Linking' = Top!Linking
        BY <1>1 DEF Top!Linking
      <3> QED
        BY <1>7, <3>1, <3>2, EdgesKeep
    <2>3. ProvisionKept'
      BY <1>1, <1>2, <2>1 DEF ProvisionKept, Early
    <2>4. ASSUME NEW d \in Chats PROVE CloneKept(d)'
      <3>1. CASE d = provision.chat
        <4>1. \A w \in owed[Top!CloneOf(d)] : \E e \in dests' : e.of = Top!CloneOf(d) /\ e.to = w
          BY <1>2, <1>3, <1>7, <3>1 DEF Early
        <4>2. owed' = owed /\ Top!CloneOf(d) \in folders'
          BY <1>1, <1>2, <3>1
        <4> QED
          BY <4>1, <4>2 DEF CloneKept, Edge
      <3>2. CASE d # provision.chat
        BY <1>1, <1>5, <1>7, <2>1, <3>2 DEF TopologyKept, CloneKept
      <3> QED
        BY <3>1, <3>2
    <2>5. Top!CloneBoots' /\ Top!NoOrphanClone'
      BY <1>1, <1>7, <2>1 DEF TopologyKept, Top!CloneBoots, Top!NoOrphanClone, Top!HasPrompts
    <2> QED
      BY <1>1, <1>4, <1>6, <2>2, <2>3, <2>4, <2>5, ScriptStays DEF TopologyKept
  <1>8. CASE cut' = cut \cup {{g, h} : h \in Top!Folders} /\ provision' = Top!Idle
    <2>1. folders \subseteq Top!Folders /\ \A h \in Top!Folders : {g, h} \in cut'
      BY <1>8 DEF TopologyKept, TopologyTypes, Top!TypeOK
    <2> HIDE DEF g
    <2>2. Top!EdgesPaired'
      <3>1. \A d \in Top!mirror(g) : {d.of, d.to} \in cut'
        <4> SUFFICES ASSUME NEW d \in Top!mirror(g) PROVE {d.of, d.to} \in cut'
          OBVIOUS
        <4>1. d.of \in Top!Folders /\ d.to \in Top!Folders /\ (g = d.of \/ g = d.to)
          BY <1>3, <2>1
        <4>2. {d.of, d.to} = {g, d.to} \/ {d.of, d.to} = {g, d.of}
          BY <4>1
        <4> QED
          BY <2>1, <4>1, <4>2
      <3>2. Top!Linking' = Top!Linking
        BY <1>1 DEF Top!Linking
      <3> QED
        BY <1>4, <3>1, <3>2, EdgesKeep
    <2>3. ProvisionKept'
      BY <1>8, IdleIs DEF ProvisionKept, Early
    <2>4. ASSUME NEW d \in Chats PROVE CloneKept(d)'
      <3>1. CASE d = provision.chat
        <4>1. Top!CloneOf(d) = g /\ owed' = owed /\ g \in folders' /\ owed[g] \subseteq Top!Folders
          BY <1>1, <1>2, <3>1 DEF TopologyKept, TopologyTypes, g
        <4> QED
          BY <2>1, <4>1 DEF CloneKept
      <3>2. CASE d # provision.chat
        BY <1>1, <1>4, <1>5, <3>2 DEF TopologyKept, CloneKept
      <3> QED
        BY <3>1, <3>2
    <2>5. Top!CloneBoots'
      BY <1>1 DEF TopologyKept, Top!CloneBoots, Top!HasPrompts
    <2>6. Top!NoOrphanClone'
      <3>1. {g, Child} \in cut' /\ g \in {g, Child}
        BY <2>1, CloneFacts
      <3>2. \A d \in Chats : d = provision.chat => \E pair \in cut' : Top!CloneOf(d) \in pair
        BY <3>1 DEF g
      <3> QED
        BY <1>1, <1>4, <3>2 DEF TopologyKept, Top!NoOrphanClone
    <2> QED
      BY <1>1, <1>4, <1>6, <2>2, <2>3, <2>4, <2>5, <2>6, ScriptStays DEF TopologyKept
  <1> QED
    BY <1>4, <1>7, <1>8

\* The clone is wired.
LEMMA WireCloneStep ==
    ASSUME TopologyKept, Top!WireClone PROVE TopologyKept'
  <1> DEFINE g == Top!CloneOf(provision.chat)
  <1>1. /\ provision.at = "edges" /\ provision' = Top!Idle
        /\ UNCHANGED <<folders, roleOf, dests, config, prompts, denied, owed, script, scripts, topologyTrouble, cut>>
    BY DEF Top!WireClone, Top!tables, Top!scriptState
  <1>2. provision.chat \in Chats /\ g \in folders /\ (provision.was \/ provision.may)
    BY <1>1 DEF TopologyKept, ProvisionKept
  <1>3. /\ wiredTo' = wiredTo \cup {<<provision.chat, g>>}
        /\ open' \in {open, open \cup {provision.chat}}
    BY <1>2 DEF Top!WireClone, Top!Wire
  <1>4. TopologyTypes'
    <2>1. wiredTo' \subseteq Chats \X Top!Folders /\ open' \subseteq Chats
      BY <1>2, <1>3 DEF TopologyKept, TopologyTypes, Top!TypeOK
    <2> QED
      BY <1>1, <2>1, IdleIs DEF TopologyKept, TopologyTypes, Top!TypeOK
  <1>5. ProvisionKept'
    BY <1>1, IdleIs DEF ProvisionKept, Early
  <1>6. ASSUME NEW d \in Chats PROVE CloneKept(d)'
    <2>1. <<d, Top!CloneOf(d)>> = <<provision.chat, g>> => Top!CloneOf(d) \in folders
      BY <1>2
    <2>2. <<d, Top!CloneOf(d)>> \in wiredTo' => Top!CloneOf(d) \in folders
      BY <1>3, <2>1 DEF TopologyKept, CloneKept
    <2> QED
      BY <1>1, <2>2 DEF TopologyKept, CloneKept, Edge, Early
  <1>7. Top!NoOrphanClone'
    BY <1>1, <1>3 DEF TopologyKept, Top!NoOrphanClone
  <1>8. Top!CloneBoots' /\ Top!EdgesPaired'
    BY <1>1 DEF TopologyKept, Top!CloneBoots, Top!HasPrompts, Top!EdgesPaired, Top!Linking,
       Top!getDestinationByTarget
  <1> QED
    BY <1>1, <1>4, <1>5, <1>6, <1>7, <1>8, ScriptStays DEF TopologyKept

\* An agent makes a child.
LEMMA ChildStep ==
    ASSUME TopologyKept, NEW g \in Desks, Top!handleCreateAgent(g) PROVE TopologyKept'
  <1>1. /\ g \in folders /\ folders' = folders \cup {Child} /\ roleOf' = [roleOf EXCEPT ![Child] = "worker"]
        /\ config' = [config EXCEPT ![Child] = IF @ = "none" THEN "default" ELSE @]
        /\ UNCHANGED <<prompts, wiredTo, open, denied, provision, owed, script, scripts>>
    BY DEF Top!handleCreateAgent, Top!createAgentGroup, Top!initGroupFilesystem, Top!channel, Top!hostState,
       Top!scriptState
  <1>2. /\ topologyTrouble' \in 0 .. MaxTopologyTrouble /\ dests \subseteq dests' /\ cut \subseteq cut'
        /\ \A d \in dests' : d \in dests \/ (d.of = g /\ d.to = Child) \/ (d.of = Child /\ d.to = g)
        /\ {g, Child} \in cut' \/ (Edge(g, Child)' /\ Edge(Child, g)')
    <2>1. \/ /\ dests' = dests \cup {Top!Dest(g, Child, Child), Top!Dest(Child, Top!ParentName, g)}
             /\ UNCHANGED <<cut, topologyTrouble>>
          \/ /\ dests' \in {dests, dests \cup {Top!Dest(g, Child, Child)}}
             /\ cut' = cut \cup {{g, Child}} /\ Top!Trouble
      BY DEF Top!handleCreateAgent
    <2>2. topologyTrouble' \in 0 .. MaxTopologyTrouble
      BY <2>1, TopologyAssumption DEF Top!Trouble, TopologyKept, TopologyTypes, Top!TypeOK
    <2>3. /\ Top!Dest(g, Child, Child).of = g /\ Top!Dest(g, Child, Child).to = Child
          /\ Top!Dest(Child, Top!ParentName, g).of = Child /\ Top!Dest(Child, Top!ParentName, g).to = g
      BY DestIs
    <2> QED
      BY <2>1, <2>2, <2>3 DEF Edge
  <1>3. /\ Child \in Top!Folders /\ g \in Top!Folders /\ \A x \in Top!Clones : x # Child /\ x \in Top!Folders
    BY CloneFacts
  <1>4. TopologyTypes'
    <2>1. /\ roleOf' \in [Top!Folders -> {"none", "frontdesk", "worker"}]
          /\ config' \in [Top!Folders -> {"none", "default", "cloned"}]
          /\ folders' \subseteq Top!Folders
      BY <1>1, <1>3 DEF TopologyKept, TopologyTypes, Top!TypeOK
    <2>2. \A d \in dests' : d.of \in folders' /\ d.to \in folders'
      BY <1>1, <1>2 DEF TopologyKept, TopologyTypes, Top!TypeOK
    <2> QED
      BY <1>1, <1>2, <2>1, <2>2 DEF TopologyKept, TopologyTypes, Top!TypeOK
  <1>5. Top!EdgesPaired'
    <2>1. Top!Linking' = Top!Linking
      BY <1>1 DEF Top!Linking
    <2>2. {g, Child} = {Child, g}
      OBVIOUS
    <2> QED
      BY <1>2, <2>1, <2>2, EdgesKeep
  <1>6. ScriptFrame
    <2>1. \A x \in Top!Clones : config'[x] = config[x]
      BY <1>1, <1>3 DEF TopologyKept, TopologyTypes, Top!TypeOK
    <2> QED
      BY <1>1, <1>2, <1>3, <2>1, CloneFacts DEF ScriptFrame
  <1> QED
    BY <1>1, <1>2, <1>4, <1>5, <1>6, FrameKeeps, ScriptStays DEF TopologyKept

\* The invariant speaks of the behaviours about the front desks.
TopologyInv == focus = "topology" => TopologyKept

\* Before the first script.
LEMMA TopologyInit == ASSUME Init PROVE TopologyInv
  <1>1. Top!Init
    BY DEF Init
  <1>2. /\ folders = {} /\ dests = {} /\ wiredTo = {} /\ cut = {} /\ denied = {}
        /\ prompts \in {{}, {Frontdesk}} /\ open \in {{}, Chats}
        /\ roleOf = [g \in Top!Folders |-> "none"] /\ config = [g \in Top!Folders |-> "none"]
        /\ provision = Top!Idle /\ script = Top!NoScript /\ scripts = 0 /\ topologyTrouble = 0
        /\ owed = [g \in Top!Folders |-> {}]
    BY <1>1 DEF Top!Init
  <1>3. TopologyTypes
    BY <1>2, IdleIs, NoScriptIs, CloneFacts, TopologyAssumption DEF TopologyTypes, Top!TypeOK
  <1>4. ScriptKept
    BY <1>2, NoScriptIs DEF ScriptKept
  <1>5. ProvisionKept
    BY <1>2, IdleIs DEF ProvisionKept, Early
  <1>6. \A c \in Chats : CloneKept(c)
    BY <1>2 DEF CloneKept
  <1>7. Top!EdgesPaired /\ Top!NoOrphanClone
    BY <1>2 DEF Top!EdgesPaired, Top!NoOrphanClone
  <1>8. Top!CloneBoots
    BY <1>2, CloneFacts DEF Top!CloneBoots
  <1> QED
    BY <1>3, <1>4, <1>5, <1>6, <1>7, <1>8 DEF TopologyInv, TopologyKept

\* A front desk cloned for a chat can start, ask its workers and hear them,
\* and exists only where it may, wherever the script or the host stopped
\* (enterprise-autowire.ts, init-enterprise-topology.ts).
THEOREM ClonesSafe == Spec => []ClonesWork
  <1>1. Init => TopologyInv
    BY TopologyInit
  <1>2. ASSUME TopologyInv, [Next]_vars PROVE TopologyInv'
    <2>1. CASE focus = "topology" /\ Top!Next /\ UNCHANGED focus
      <3>1. TopologyKept
        BY <1>2, <2>1 DEF TopologyInv
      <3>2. TopologyKept'
        BY <2>1, <3>1, ScriptGroups, ScriptLinks, ScriptFinish, WireSteps, CloneBegins, FileSteps, EdgeSteps,
           WireCloneStep, ChildStep DEF Top!Next
      <3> QED
        BY <3>2 DEF TopologyInv
    <2>2. CASE UNCHANGED <<focus, topVars>>
      BY SMTT(40), <1>2, <2>2 DEF TopologyInv, TopologyKept, TopologyTypes, ScriptKept, ProvisionKept, CloneKept,
         Edge,
         topVars, Top!TypeOK, Top!EdgesPaired, Top!Linking, Top!getDestinationByTarget, Top!CloneBoots,
         Top!HasPrompts, Top!NoOrphanClone
    <2>3. UNCHANGED focus /\ (~ (focus = "topology" /\ Top!Next) => UNCHANGED topVars)
      BY <1>2 DEF Next, vars
    <2> QED
      BY <2>1, <2>2, <2>3
  <1>3. TopologyInv => ClonesWork
    <2> SUFFICES ASSUME TopologyKept PROVE Top!ClonesWork
      BY DEF TopologyInv, ClonesWork
    <2>1. Top!CloneDelegates
      <3> SUFFICES ASSUME NEW c \in Chats, <<c, Top!CloneOf(c)>> \in wiredTo,
                          NEW w \in owed[Top!CloneOf(c)]
                   PROVE  w \in Top!Delegates(Top!CloneOf(c)) \/ {Top!CloneOf(c), w} \in cut
        BY DEF Top!CloneDelegates
      <3>1. ~ (provision.chat = c /\ provision.at \in Early)
        BY DEF TopologyKept, ProvisionKept, Early
      <3>2. Edge(Top!CloneOf(c), w) \/ {Top!CloneOf(c), w} \in cut
        BY <3>1 DEF TopologyKept, CloneKept
      <3> QED
        BY <3>2 DEF Edge, Top!Delegates, Top!getDestinations
    <2> QED
      BY <2>1 DEF TopologyKept, TopologyTypes, Top!ClonesWork
  <1> QED
    BY <1>1, <1>2, <1>3, PTL DEF Spec

(***************************************************************************)
(* Messages on their way in: the inductive invariant.                      *)
(***************************************************************************)
RoutingCalls == [at : {"idle", "intercept", "lookup", "fanout", "waking"}, i : 0 .. Len(Fanout) + 1,
                 durable : BOOLEAN, placed : 0 .. Len(Fanout)]
ScopeSessions == [made : 0 .. (MaxTrouble + 1), active : BOOLEAN]
InboxRows == [msg : Messages, scope : Ing!Scopes, n : 1 .. (MaxTrouble + 1),
              trigger : BOOLEAN, engaged : BOOLEAN, by : Ing!Procs]

IngressTypes ==
    /\ seen \subseteq Messages
    /\ ledger \in [Messages -> {"none", "received", "failed"}]
    /\ route \in [Ing!Procs -> [Messages -> RoutingCalls]]
    /\ session \in [Ing!Scopes -> ScopeSessions]
    /\ inbox \subseteq InboxRows /\ IsFiniteSet(inbox)
    /\ hostUp \in BOOLEAN
    /\ trouble \in 0 .. MaxTrouble /\ replays \in [Messages -> Nat]
    /\ swallowed \cup unidentified \subseteq Messages \X Ing!Agents
    /\ undurable \cup interrupted \subseteq Messages

\* A session is made once, and again only after one was archived or a write failed.
SessionKept(s) == /\ session[s].made <= trouble + (IF session[s].active THEN 1 ELSE 0)
                  /\ session[s].active => session[s].made >= 1

\* The call c is done with the agent at place j of the fan-out.
Behind(c, j) == (c.at = "fanout" /\ j < c.i) \/ (c.at = "waking" /\ j <= c.i)

\* The agent has the message, or one of the three named ways around it was taken.
Served(m, a) == \/ Ing!HasMessage(m, a) \/ m \in undurable
                \/ <<m, a>> \in swallowed \cup unidentified

\* A call leaves every agent it is done with served.
CallSound(m, c) ==
    /\ c.at # "idle" => m \in seen
    /\ c.at \in {"idle", "intercept", "lookup"} => c.placed = 0 /\ c.i = 0
    /\ c.at = "fanout" => c.i \in 1 .. Len(Fanout) + 1 /\ c.placed < c.i
    /\ c.at = "waking" => c.i \in 1 .. Len(Fanout) /\ c.placed < c.i
    /\ c.at # "idle" /\ ~c.durable => m \in undurable
    /\ \A j \in 1 .. Len(Fanout) : Behind(c, j) /\ Fanout[j] \in Ing!Owed(m) => Served(m, Fanout[j])

\* What the host wrote of a message it still routes is behind its call.
HostRows(m, c) ==
    \A r \in inbox : r.msg = m /\ r.by = "host" =>
        c.at = "idle" \/ \E j \in 1 .. Len(Fanout) : Fanout[j] = r.scope[1] /\ Behind(c, j)

\* A replay under way has not yet used its copy for the agents ahead of it.
ReplayRows(m, s) == {r \in inbox : r.msg = m /\ r.scope = s /\ r.by = "replay"}
Ahead(c, a) == c.at # "idle" /\ \A j \in 1 .. Len(Fanout) : Fanout[j] = a => ~Behind(c, j)
ReplayPaid(m, c) ==
    \A s \in Ing!Scopes : /\ Cardinality(ReplayRows(m, s)) <= replays[m]
                          /\ Ahead(c, s[1]) => Cardinality(ReplayRows(m, s)) < replays[m]

\* A message without a row in the ledger is new or served; a received one is
\* being routed by the host, or was interrupted.
LedgerKept(m, c) ==
    /\ m \notin seen => ledger[m] = "none" /\ \A r \in inbox : r.msg # m
    /\ m \in seen /\ ledger[m] = "none" => \A a \in Ing!Owed(m) : Served(m, a)
    /\ ledger[m] = "received" => m \in interrupted \/ (c.at # "idle" /\ c.durable)

HostRowsApart ==
    \A r, q \in inbox : r.by = "host" /\ q.by = "host" /\ r.msg = q.msg /\ r.scope = q.scope => r = q

MessageKept(m) ==
    /\ \A p \in Ing!Procs : CallSound(m, route[p][m])
    /\ HostRows(m, route["host"][m])
    /\ ReplayPaid(m, route["replay"][m])
    /\ LedgerKept(m, route["host"][m])

IngressKept ==
    /\ IngressTypes
    /\ \A s \in Ing!Scopes : SessionKept(s)
    /\ \A m \in Messages : MessageKept(m)
    /\ HostRowsApart
    /\ Ing!RefusalStoresNothing

\* What every step does to the records that are only added to.
RecordsGrow ==
    /\ seen \subseteq seen' /\ inbox \subseteq inbox' /\ undurable \subseteq undurable'
    /\ swallowed \subseteq swallowed' /\ unidentified \subseteq unidentified'
    /\ interrupted \subseteq interrupted'

\* The two processes, and a call that is not there.
LEMMA ProcsAre == "host" \in Ing!Procs /\ "replay" \in Ing!Procs /\ "host" # "replay"
                  /\ \A p \in Ing!Procs : p = "host" \/ p = "replay"
  BY DEF Ing!Procs

\* A call that is not there is a call, at nothing.
LEMMA IdleCallIs == /\ Ing!Idle \in RoutingCalls /\ Ing!Idle.at = "idle" /\ Ing!Idle.i = 0
                    /\ Ing!Idle.placed = 0 /\ Ing!Idle.durable = FALSE
  <1>1. Len(Fanout) \in Nat
    BY IngressAssumption
  <1> QED
    BY <1>1 DEF Ing!Idle, RoutingCalls

\* The agent at a place of the fan-out.
LEMMA AgentsAre == \A i \in 1 .. Len(Fanout) : Fanout[i] \in Ing!Agents
  BY DEF Ing!Agents

\* One call moves, the others stay where they are.
LEMMA CallMoves ==
    ASSUME IngressTypes, NEW p \in Ing!Procs, NEW m \in Messages, NEW d \in RoutingCalls,
           route' = [route EXCEPT ![p][m] = d]
    PROVE  /\ route' \in [Ing!Procs -> [Messages -> RoutingCalls]]
           /\ route'[p][m] = d
           /\ \A q \in Ing!Procs, x \in Messages : q # p \/ x # m => route'[q][x] = route[q][x]
  BY DEF IngressTypes

\* Nobody is served less than before.
LEMMA ServedGrows ==
    ASSUME RecordsGrow, NEW m, NEW a, Served(m, a)
    PROVE  Served(m, a)'
  BY DEF RecordsGrow, Served, Ing!HasMessage

\* The conjuncts of CallSound for a call d of the next state.
CallSoundNext(m, d) ==
    /\ d.at # "idle" => m \in seen'
    /\ d.at \in {"idle", "intercept", "lookup"} => d.placed = 0 /\ d.i = 0
    /\ d.at = "fanout" => d.i \in 1 .. Len(Fanout) + 1 /\ d.placed < d.i
    /\ d.at = "waking" => d.i \in 1 .. Len(Fanout) /\ d.placed < d.i
    /\ d.at # "idle" /\ ~d.durable => m \in undurable'
    /\ \A j \in 1 .. Len(Fanout) : Behind(d, j) /\ Fanout[j] \in Ing!Owed(m) => Served(m, Fanout[j])'

\* CallSoundNext is CallSound of the next state, with the call as a constant.
LEMMA CallSoundAt ==
    ASSUME NEW p, NEW m, CallSoundNext(m, route'[p][m])
    PROVE  CallSound(m, route[p][m])'
  BY DEF CallSound, CallSoundNext, Behind, Ing!Owed

\* A call that does not move stays sound, and one that ended is sound.
LEMMA CallStays ==
    ASSUME RecordsGrow, NEW m, NEW c, CallSound(m, c)
    PROVE  CallSoundNext(m, c)
  BY ServedGrows DEF CallSound, CallSoundNext, RecordsGrow

\* A call that is over has nothing behind it.
LEMMA CallEnded ==
    ASSUME NEW m
    PROVE  CallSoundNext(m, Ing!Idle)
  BY IdleCallIs DEF CallSoundNext, Behind

\* A message whose calls stay or end, and whose rows stay, is kept.
LEMMA MessageStays ==
    ASSUME IngressKept, RecordsGrow, NEW x \in Messages,
           \A p \in Ing!Procs : route'[p][x] \in {route[p][x], Ing!Idle},
           route'["host"][x] # route["host"][x] /\ route["host"][x].at # "idle" => x \in interrupted',
           \A r \in inbox' : r.msg = x => r \in inbox,
           ledger'[x] = ledger[x], x \in seen' => x \in seen, replays'[x] = replays[x]
    PROVE  MessageKept(x)'
  <1>1. MessageKept(x)
    BY DEF IngressKept
  <1>2. ASSUME NEW p \in Ing!Procs PROVE CallSound(x, route[p][x])'
    <2>1. CallSoundNext(x, route'[p][x])
      BY <1>1, CallStays, CallEnded DEF MessageKept
    <2> QED
      BY <2>1, CallSoundAt
  <1>3. HostRows(x, route["host"][x])'
    BY <1>1, ProcsAre, IdleCallIs DEF MessageKept, HostRows, Behind
  <1>4. ReplayPaid(x, route["replay"][x])'
    <2>1. \A s : ReplayRows(x, s)' = ReplayRows(x, s)
      BY DEF ReplayRows, RecordsGrow
    <2>2. route'["replay"][x] = route["replay"][x] \/ route'["replay"][x].at = "idle"
      BY ProcsAre, IdleCallIs
    <2>3. \A a : Ahead(route["replay"][x], a)' => Ahead(route["replay"][x], a)
      BY <2>2 DEF Ahead, Behind
    <2>4. Ing!Scopes' = Ing!Scopes
      BY DEF Ing!Scopes, Ing!Agents
    <2> QED
      BY <1>1, <2>1, <2>3, <2>4 DEF MessageKept, ReplayPaid
  <1>5. LedgerKept(x, route["host"][x])'
    <2>1. x \notin seen' => ledger'[x] = "none" /\ \A r \in inbox' : r.msg # x
      BY <1>1 DEF MessageKept, LedgerKept, RecordsGrow
    <2>2. ASSUME x \in seen', ledger'[x] = "none", NEW a \in Ing!Owed(x) PROVE Served(x, a)'
      BY <1>1, <2>2, ServedGrows DEF MessageKept, LedgerKept
    <2>3. ledger'[x] = "received" =>
              x \in interrupted' \/ (route'["host"][x].at # "idle" /\ route'["host"][x].durable)
      BY <1>1 DEF MessageKept, LedgerKept, RecordsGrow
    <2>4. Ing!Owed(x)' = Ing!Owed(x)
      BY DEF Ing!Owed, Ing!Agents
    <2> QED
      BY <2>1, <2>2, <2>3, <2>4 DEF LedgerKept
  <1> QED
    BY <1>2, <1>3, <1>4, <1>5 DEF MessageKept, Ing!Procs

\* The replay's rows are finitely many.
LEMMA ReplayRowsCount ==
    ASSUME IngressKept, NEW m, NEW s
    PROVE  IsFiniteSet(ReplayRows(m, s)) /\ Cardinality(ReplayRows(m, s)) \in Nat
  <1>1. ReplayRows(m, s) \in SUBSET inbox /\ IsFiniteSet(inbox)
    BY DEF ReplayRows, IngressKept, IngressTypes
  <1>2. IsFiniteSet(ReplayRows(m, s))
    BY <1>1, FS_Subset
  <1> QED
    BY <1>2, FS_CardinalityType

\* A row that the call writes is for an agent it was not done with before.
NewRow(p, m, c, d, r) ==
    /\ r.msg = m /\ r.by = p
    /\ \E j \in 1 .. Len(Fanout) : r.scope[1] = Fanout[j] /\ ~Behind(c, j) /\ Behind(d, j)

\* A call that goes on, perhaps with one more row in the inbox.
CallAdvance(p, m, c, d) ==
    /\ c.at # "idle" /\ d.at # "idle" /\ d.durable = c.durable
    /\ d.at \in {"intercept", "lookup"} => d.placed = 0 /\ d.i = 0
    /\ d.at = "fanout" => d.i \in 1 .. Len(Fanout) + 1 /\ d.placed < d.i
    /\ d.at = "waking" => d.i \in 1 .. Len(Fanout) /\ d.placed < d.i
    /\ \A j \in 1 .. Len(Fanout) : Behind(c, j) => Behind(d, j)
    /\ \A j \in 1 .. Len(Fanout) :
           Behind(d, j) /\ ~Behind(c, j) /\ Fanout[j] \in Ing!Owed(m) => Served(m, Fanout[j])'
    /\ inbox' = inbox \/ \E r : inbox' = inbox \cup {r} /\ NewRow(p, m, c, d, r)
    /\ seen' = seen /\ ledger' = ledger /\ replays' = replays

\* The message whose call moves on is kept.
LEMMA MessageAdvances ==
    ASSUME IngressKept, RecordsGrow, NEW p \in Ing!Procs, NEW m \in Messages, NEW d \in RoutingCalls,
           route' = [route EXCEPT ![p][m] = d], CallAdvance(p, m, route[p][m], d)
    PROVE  MessageKept(m)'
  <1> DEFINE c == route[p][m]
  <1>1. MessageKept(m)
    BY DEF IngressKept
  <1>2. /\ route'[p][m] = d
        /\ \A q \in Ing!Procs : q # p => route'[q][m] = route[q][m]
    BY ZenonT(60), CallMoves DEF IngressKept
  <1>3. \A j \in 1 .. Len(Fanout) : Behind(c, j) => Behind(d, j)
    BY DEF CallAdvance
  <1>4. ASSUME NEW q \in Ing!Procs PROVE CallSound(m, route[q][m])'
    <2>1. CallSound(m, route[q][m])
      BY <1>1 DEF MessageKept
    <2>2. CASE q # p
      BY <1>2, <2>1, <2>2, CallStays, CallSoundAt
    <2>3. CASE q = p
      <3>1. CallSoundNext(m, c)
        BY <2>1, <2>3, CallStays
      <3>2. \A j \in 1 .. Len(Fanout) : Behind(d, j) /\ Fanout[j] \in Ing!Owed(m) => Served(m, Fanout[j])'
        BY <3>1 DEF CallAdvance, CallSoundNext
      <3>3. CallSoundNext(m, d)
        BY <3>1, <3>2 DEF CallAdvance, CallSoundNext
      <3> QED
        BY <1>2, <2>3, <3>3, CallSoundAt
    <2> QED
      BY <2>2, <2>3
  <1>5. HostRows(m, route["host"][m])'
    <2>1. \A j \in 1 .. Len(Fanout) : Behind(route["host"][m], j) => Behind(route["host"][m], j)'
      BY <1>2, <1>3, ProcsAre DEF Behind
    <2>2. route["host"][m].at = "idle" => route'["host"][m].at = "idle"
      BY <1>2, ProcsAre DEF CallAdvance
    <2>3. ASSUME NEW r \in inbox', r.msg = m, r.by = "host", r \notin inbox
          PROVE \E j \in 1 .. Len(Fanout) : Fanout[j] = r.scope[1] /\ Behind(route["host"][m], j)'
      <3>1. NewRow(p, m, c, d, r) /\ p = "host"
        BY <2>3 DEF CallAdvance, NewRow
      <3> QED
        BY <1>2, <3>1 DEF NewRow, Behind
    <2> QED
      BY <1>1, <2>1, <2>2, <2>3 DEF MessageKept, HostRows
  <1>6. ReplayPaid(m, route["replay"][m])'
    <2> SUFFICES ASSUME NEW s \in Ing!Scopes
                 PROVE  /\ Cardinality(ReplayRows(m, s)') <= replays[m]
                        /\ Ahead(route'["replay"][m], s[1]) => Cardinality(ReplayRows(m, s)') < replays[m]
      BY DEF ReplayPaid, CallAdvance, Ahead, Behind, Ing!Scopes, Ing!Agents, ReplayRows
    <2>1. \A a : Ahead(route'["replay"][m], a) => Ahead(route["replay"][m], a)
      BY <1>2, <1>3, ProcsAre DEF CallAdvance, Ahead
    <2>2. /\ Cardinality(ReplayRows(m, s)) <= replays[m]
          /\ Ahead(route["replay"][m], s[1]) => Cardinality(ReplayRows(m, s)) < replays[m]
      BY <1>1 DEF MessageKept, ReplayPaid
    <2>3. CASE ReplayRows(m, s)' = ReplayRows(m, s)
      BY <2>1, <2>2, <2>3
    <2>4. CASE ReplayRows(m, s)' # ReplayRows(m, s)
      <3>1. PICK r : /\ inbox' = inbox \cup {r} /\ NewRow(p, m, c, d, r)
                     /\ r.scope = s /\ p = "replay"
        <4>1. PICK r : inbox' = inbox \cup {r} /\ NewRow(p, m, c, d, r)
          BY <2>4 DEF CallAdvance, ReplayRows
        <4>2. r.scope = s /\ p = "replay"
          BY <2>4, <4>1 DEF NewRow, ReplayRows
        <4> QED
          BY <4>1, <4>2
      <3>2. ReplayRows(m, s)' = ReplayRows(m, s) \cup {r}
        BY <3>1 DEF NewRow, ReplayRows
      <3>3. PICK j \in 1 .. Len(Fanout) : s[1] = Fanout[j] /\ ~Behind(c, j) /\ Behind(d, j)
        BY <3>1 DEF NewRow
      <3>4. Ahead(c, s[1]) /\ ~Ahead(d, s[1])
        BY <3>3, IngressAssumption DEF Ahead, CallAdvance
      <3>5. Cardinality(ReplayRows(m, s)) < replays[m]
        BY <2>2, <3>1, <3>4
      <3>6. /\ Cardinality(ReplayRows(m, s)) \in Nat
            /\ Cardinality(ReplayRows(m, s)') \in {Cardinality(ReplayRows(m, s)), Cardinality(ReplayRows(m, s)) + 1}
        BY <3>2, ReplayRowsCount, FS_AddElement
      <3>7. replays[m] \in Nat
        BY DEF IngressKept, IngressTypes
      <3> QED
        BY <1>2, <3>1, <3>4, <3>5, <3>6, <3>7
    <2> QED
      BY <2>3, <2>4
  <1>7. LedgerKept(m, route["host"][m])'
    <2>1. m \in seen'
      BY <1>1 DEF MessageKept, CallSound, CallAdvance
    <2>2. ASSUME ledger'[m] = "none", NEW a \in Ing!Owed(m) PROVE Served(m, a)'
      BY <1>1, <2>1, <2>2, ServedGrows DEF MessageKept, LedgerKept, CallAdvance
    <2>3. ledger'[m] = "received" =>
              m \in interrupted' \/ (route'["host"][m].at # "idle" /\ route'["host"][m].durable)
      BY <1>1, <1>2, ProcsAre DEF MessageKept, LedgerKept, RecordsGrow, CallAdvance
    <2>4. Ing!Owed(m)' = Ing!Owed(m)
      BY DEF Ing!Owed, Ing!Agents
    <2> QED
      BY <2>1, <2>2, <2>3, <2>4 DEF LedgerKept
  <1> QED
    BY <1>4, <1>5, <1>6, <1>7 DEF MessageKept, Ing!Procs

\* Trouble is counted.
LEMMA TroubleIs ==
    ASSUME IngressTypes, Ing!Trouble
    PROVE  trouble' = trouble + 1 /\ trouble' \in 0 .. MaxTrouble
  BY IngressAssumption DEF IngressTypes, Ing!Trouble

\* A step that writes neither sessions nor inboxes.
LEMMA RestKept ==
    ASSUME IngressKept, session' = session, inbox' = inbox,
           trouble' = trouble \/ Ing!Trouble,
           route' \in [Ing!Procs -> [Messages -> RoutingCalls]], seen' \subseteq Messages,
           ledger' \in [Messages -> {"none", "received", "failed"}],
           hostUp' \in BOOLEAN, replays' \in [Messages -> Nat],
           UNCHANGED <<swallowed, unidentified>>, undurable' \cup interrupted' \subseteq Messages,
           \A m \in Messages : MessageKept(m)'
    PROVE  IngressKept'
  <1>1. trouble' \in 0 .. MaxTrouble /\ trouble' \in {trouble, trouble + 1}
    BY TroubleIs DEF IngressKept, IngressTypes
  <1>2. IngressTypes'
    BY <1>1 DEF IngressKept, IngressTypes, Ing!Procs, Ing!Scopes, Ing!Agents, RoutingCalls, ScopeSessions, InboxRows
  <1>3. ASSUME NEW s \in Ing!Scopes PROVE SessionKept(s)'
    <2>1. SessionKept(s) /\ session[s].made \in 0 .. (MaxTrouble + 1) /\ trouble \in Nat /\ MaxTrouble \in Nat
      BY IngressAssumption DEF IngressKept, IngressTypes, ScopeSessions
    <2> QED
      BY <1>1, <2>1 DEF SessionKept
  <1>4. HostRowsApart' /\ Ing!RefusalStoresNothing'
    BY DEF IngressKept, HostRowsApart, Ing!RefusalStoresNothing
  <1> QED
    BY <1>2, <1>3, <1>4 DEF IngressKept, Ing!Scopes, Ing!Agents

\* A call at another place.
Moved(c, at, i, placed) == [c EXCEPT !.at = at, !.i = i, !.placed = placed]

\* A call that moved is a call.
LEMMA MovedIs ==
    ASSUME NEW c \in RoutingCalls, NEW at \in {"intercept", "lookup", "fanout", "waking"},
           NEW i \in 0 .. Len(Fanout) + 1, NEW placed \in 0 .. Len(Fanout)
    PROVE  Moved(c, at, i, placed) \in RoutingCalls
  BY DEF RoutingCalls, Moved

\* The interceptors, the lookup and the end of a wake move the call only.
LEMMA CallSteps ==
    ASSUME IngressKept, NEW p \in Ing!Procs, NEW m \in Messages,
           Ing!Intercept(p, m) \/ Ing!Lookup(p, m) \/ Ing!WakeEnds(p, m)
    PROVE  IngressKept'
  <1> DEFINE c == route[p][m]
  <1>1. /\ c \in RoutingCalls /\ CallSound(m, c) /\ Len(Fanout) \in Nat \ {0}
    BY IngressAssumption DEF IngressKept, IngressTypes, MessageKept
  <1>2. /\ seen' = seen /\ ledger' = ledger /\ session' = session /\ inbox' = inbox /\ hostUp' = hostUp
        /\ replays' = replays /\ UNCHANGED <<undurable, swallowed, unidentified, interrupted>>
    BY DEF Ing!Intercept, Ing!Lookup, Ing!WakeEnds, Ing!history
  <1>3. RecordsGrow
    BY <1>2 DEF RecordsGrow
  <1>4. trouble' = trouble \/ Ing!Trouble
    BY DEF Ing!Intercept, Ing!Lookup, Ing!WakeEnds
  <1>5. \E d \in RoutingCalls : route' = [route EXCEPT ![p][m] = d] /\ CallAdvance(p, m, c, d)
    <2>1. CASE Ing!Lookup(p, m)
      <3> DEFINE d == Moved(c, "fanout", 1, c.placed)
      <3>1. c.at = "lookup" /\ route' = [route EXCEPT ![p][m] = d]
        BY <1>1, <2>1 DEF Ing!Lookup, Moved, RoutingCalls
      <3>2. d \in RoutingCalls /\ d.at = "fanout" /\ d.i = 1 /\ d.placed = c.placed /\ d.durable = c.durable
        <4>1. c.placed \in 0 .. Len(Fanout) /\ 1 \in 0 .. Len(Fanout) + 1
          BY <1>1 DEF RoutingCalls
        <4>2. d \in RoutingCalls
          BY <1>1, <4>1, MovedIs
        <4>3. d.at = "fanout" /\ d.i = 1 /\ d.placed = c.placed
          BY <1>1, <4>1 DEF Moved, RoutingCalls
        <4>4. d.durable = c.durable
          BY <1>1, <4>1 DEF Moved, RoutingCalls
        <4> QED
          BY <4>2, <4>3, <4>4
      <3>3. CallAdvance(p, m, c, d)
        BY <1>1, <1>2, <3>1, <3>2 DEF CallAdvance, CallSound, Behind
      <3> QED
        BY <3>1, <3>2, <3>3
    <2>2. CASE Ing!WakeEnds(p, m)
      <3> DEFINE d == Moved(c, "fanout", c.i + 1, c.placed + 1)
      <3>1. c.at = "waking" /\ route' = [route EXCEPT ![p][m] = d]
        BY <1>1, <2>2 DEF Ing!WakeEnds, Moved
      <3>2. c.i \in 1 .. Len(Fanout) /\ c.placed < c.i /\ c.placed \in 0 .. Len(Fanout)
        BY <1>1, <3>1 DEF CallSound, RoutingCalls
      <3>3. d \in RoutingCalls /\ d.at = "fanout" /\ d.i = c.i + 1 /\ d.placed = c.placed + 1 /\ d.durable = c.durable
        <4>1. c.i + 1 \in 0 .. Len(Fanout) + 1 /\ c.placed + 1 \in 0 .. Len(Fanout)
          BY SMTT(40), <1>1, <3>2
        <4>2. d \in RoutingCalls
          BY <1>1, <4>1, MovedIs
        <4>3. d.at = "fanout" /\ d.i = c.i + 1 /\ d.placed = c.placed + 1
          BY <1>1, <4>1 DEF Moved, RoutingCalls
        <4>4. d.durable = c.durable
          BY <1>1, <4>1 DEF Moved, RoutingCalls
        <4> QED
          BY <4>2, <4>3, <4>4
      <3>4. \A j \in 1 .. Len(Fanout) : Behind(d, j) <=> Behind(c, j)
        BY <3>1, <3>2, <3>3 DEF Behind
      <3>5. CallAdvance(p, m, c, d)
        BY SMTT(40), <1>1, <1>2, <3>1, <3>2, <3>3, <3>4 DEF CallAdvance
      <3> QED
        BY <3>1, <3>3, <3>5
    <2>3. CASE Ing!Intercept(p, m)
      <3>1. c.at = "intercept"
        BY <2>3 DEF Ing!Intercept
      <3>2. CASE route' = [route EXCEPT ![p][m].at = "lookup"]
        <4> DEFINE d == [c EXCEPT !.at = "lookup"]
        <4>1. route' = [route EXCEPT ![p][m] = d]
          BY <3>2
        <4>2. d \in RoutingCalls /\ d.at = "lookup" /\ d.i = c.i /\ d.placed = c.placed /\ d.durable = c.durable
          BY <1>1 DEF RoutingCalls
        <4>3. CallAdvance(p, m, c, d)
          BY <1>1, <1>2, <3>1, <4>2 DEF CallAdvance, CallSound, Behind
        <4> QED
          BY <4>1, <4>2, <4>3
      <3>3. CASE m \in Claimed /\ route' = [route EXCEPT ![p][m] = [@ EXCEPT !.at = "fanout", !.i = Len(Fanout) + 1,
                                                                             !.placed = 1]]
        <4> DEFINE d == Moved(c, "fanout", Len(Fanout) + 1, 1)
        <4>1. route' = [route EXCEPT ![p][m] = d]
          BY <3>3 DEF Moved
        <4>2. d \in RoutingCalls /\ d.at = "fanout" /\ d.i = Len(Fanout) + 1 /\ d.placed = 1 /\ d.durable = c.durable
          <5>1. Len(Fanout) + 1 \in 0 .. Len(Fanout) + 1 /\ 1 \in 0 .. Len(Fanout)
            BY <1>1
          <5>2. d \in RoutingCalls
            BY <1>1, <5>1, MovedIs
          <5>3. d.at = "fanout" /\ d.i = Len(Fanout) + 1 /\ d.placed = 1
            BY <1>1, <5>1 DEF Moved, RoutingCalls
          <5>4. d.durable = c.durable
            BY <1>1, <5>1 DEF Moved, RoutingCalls
          <5> QED
            BY <5>2, <5>3, <5>4
        <4>3. Ing!Owed(m) = {}
          BY <3>3 DEF Ing!Owed
        <4>4. CallAdvance(p, m, c, d)
          BY <1>1, <1>2, <3>1, <4>2, <4>3 DEF CallAdvance, CallSound, Behind
        <4> QED
          BY <4>1, <4>2, <4>4
      <3> QED
        BY <2>3, <3>2, <3>3 DEF Ing!Intercept
    <2> QED
      BY <2>1, <2>2, <2>3
  <1>6. PICK d \in RoutingCalls : route' = [route EXCEPT ![p][m] = d] /\ CallAdvance(p, m, c, d)
    BY <1>5
  <1>7. /\ route' \in [Ing!Procs -> [Messages -> RoutingCalls]]
        /\ \A q \in Ing!Procs, x \in Messages : q # p \/ x # m => route'[q][x] = route[q][x]
    BY ZenonT(60), <1>6, CallMoves DEF IngressKept
  <1>8. ASSUME NEW x \in Messages PROVE MessageKept(x)'
    <2>1. CASE x = m
      BY <1>3, <1>6, <2>1, MessageAdvances
    <2>2. CASE x # m
      BY <1>2, <1>3, <1>7, <2>2, MessageStays, ProcsAre
    <2> QED
      BY <2>1, <2>2
  <1> QED
    BY <1>2, <1>4, <1>7, <1>8, RestKept DEF IngressKept, IngressTypes

\* The session of the scope an agent's turn goes to.
LEMMA ResolveIs ==
    ASSUME IngressKept, NEW s \in Ing!Scopes
    PROVE  /\ Ing!resolveSession(s) \in [Ing!Scopes -> ScopeSessions]
           /\ Ing!resolveSession(s)[s].made \in 1 .. (MaxTrouble + 1)
           /\ (session' = Ing!resolveSession(s) \/ session' = session) /\ (trouble' = trouble \/ Ing!Trouble)
              => \A t \in Ing!Scopes : SessionKept(t)'
  <1> DEFINE resolved == Ing!resolveSession(s)
             new == [made |-> session[s].made + 1, active |-> TRUE]
  <1>1. session \in [Ing!Scopes -> ScopeSessions] /\ trouble \in 0 .. MaxTrouble /\ MaxTrouble \in Nat
    BY IngressAssumption DEF IngressKept, IngressTypes
  <1>2. \A t \in Ing!Scopes : /\ SessionKept(t) /\ session[t] \in ScopeSessions
                              /\ session[t].made \in Nat /\ session[t].active \in BOOLEAN
    BY <1>1 DEF IngressKept, ScopeSessions
  <1>3. resolved = [session EXCEPT ![s] = IF session[s].active THEN session[s] ELSE new]
    BY DEF Ing!resolveSession
  <1>4. /\ ~session[s].active => session[s].made <= MaxTrouble /\ new \in ScopeSessions
        /\ new.made = session[s].made + 1 /\ new.active
    <2>1. ~session[s].active => session[s].made <= MaxTrouble
      BY <1>1, <1>2 DEF SessionKept
    <2>2. session[s].made <= MaxTrouble => session[s].made + 1 \in 0 .. (MaxTrouble + 1)
      BY <1>1, <1>2
    <2> QED
      BY <2>1, <2>2 DEF ScopeSessions
  <1> HIDE DEF new
  <1>5. resolved \in [Ing!Scopes -> ScopeSessions]
    BY <1>1, <1>2, <1>3, <1>4
  <1>6. /\ \A t \in Ing!Scopes : t # s => resolved[t] = session[t]
        /\ session[s].active => resolved[s] = session[s]
        /\ ~session[s].active => resolved[s] = new
    BY <1>1, <1>3
  <1>7. resolved[s].made \in 1 .. (MaxTrouble + 1)
    <2>1. CASE session[s].active
      BY <1>1, <1>2, <1>6, <2>1 DEF SessionKept, ScopeSessions
    <2>2. CASE ~session[s].active
      BY <1>1, <1>2, <1>4, <1>6, <2>2
    <2> QED
      BY <2>1, <2>2
  <1> HIDE DEF resolved
  <1>8. ASSUME session' = resolved \/ session' = session, trouble' = trouble \/ Ing!Trouble, NEW t \in Ing!Scopes
        PROVE  SessionKept(t)'
    <2>1. trouble' \in {trouble, trouble + 1}
      BY <1>8, TroubleIs DEF IngressKept
    <2>2. CASE session'[t] = session[t]
      BY <1>1, <1>2, <2>1, <2>2 DEF SessionKept
    <2>3. CASE t = s /\ ~session[s].active /\ session'[t] = new
      BY <1>1, <1>2, <1>4, <2>1, <2>3 DEF SessionKept
    <2> QED
      BY <1>6, <1>8, <2>2, <2>3
  <1> QED
    BY <1>5, <1>7, <1>8 DEF resolved

\* The scope of an agent's turn.
LEMMA ScopeIs ==
    ASSUME NEW p \in Ing!Procs, NEW m \in Messages, NEW a \in Ing!Agents
    PROVE  Ing!scopeOf(p, m, a) \in Ing!Scopes /\ Ing!scopeOf(p, m, a)[1] = a
  BY DEF Ing!scopeOf, Ing!Scopes, Ing!userOf

\* A message surely meant for an agent engages it; the host wakes it then, and
\* so does a replay that needs no sender.
LEMMA OwedWakes ==
    ASSUME NEW p \in Ing!Procs, NEW m \in Messages, NEW a \in Ing!Owed(m)
    PROVE  /\ Ing!identityOk(p, m, a) => Ing!wakes(p, m, a)
           /\ p = "host" => Ing!identityOk(p, m, a)
           /\ Command[m] = "pass"
  <1>1. a \in Ing!Agents /\ (Engage[a] = "always" \/ m \in Mentions) /\ <<m, a>> \notin Refused
        /\ (a \in UserScoped => Sender[m] # NoUser) /\ Command[m] = "pass"
    BY DEF Ing!Owed
  <1>2. Engage[a] \in {"always", "mention", "sticky"}
    BY <1>1, IngressAssumption DEF Ing!Agents
  <1>3. Ing!evaluateEngage(p, m, a)
    BY <1>1, <1>2 DEF Ing!evaluateEngage
  <1>4. Ing!gatesAllow(p, m, a)
    BY <1>1 DEF Ing!gatesAllow
  <1>5. p = "host" => Ing!identityOk(p, m, a)
    BY <1>1 DEF Ing!identityOk, Ing!userOf
  <1> QED
    BY <1>1, <1>3, <1>4, <1>5 DEF Ing!wakes

\* Engagement and waking are yes or no.
LEMMA EngageIs ==
    ASSUME NEW p, NEW m, NEW a \in Ing!Agents
    PROVE  Ing!evaluateEngage(p, m, a) \in BOOLEAN /\ Ing!wakes(p, m, a) \in BOOLEAN
  <1>1. Engage[a] \in {"always", "mention", "sticky"}
    BY IngressAssumption DEF Ing!Agents
  <1>2. Ing!evaluateEngage(p, m, a) \in BOOLEAN
    <2>1. CASE Engage[a] = "always"
      BY <2>1 DEF Ing!evaluateEngage
    <2>2. CASE Engage[a] = "mention"
      <3>1. Ing!evaluateEngage(p, m, a) = (m \in Mentions)
        BY <2>2 DEF Ing!evaluateEngage
      <3> QED
        BY <3>1
    <2>3. CASE Engage[a] = "sticky"
      <3> DEFINE followed == (a \in UserScoped => Ing!userOf(p, m) # NoUser) /\ session[Ing!scopeOf(p, m, a)].active
      <3>1. Ing!evaluateEngage(p, m, a) = (m \in Mentions \/ followed)
        BY <2>3 DEF Ing!evaluateEngage
      <3>2. (m \in Mentions \/ followed) \in BOOLEAN
        BY Zenon
      <3> HIDE DEF followed
      <3> QED
        BY <3>1, <3>2, Zenon
    <2> QED
      BY <1>1, <2>1, <2>2, <2>3
  <1> QED
    BY <1>2 DEF Ing!wakes

\* One agent of the fan-out: what becomes of the call, and of the agent.
LEMMA RouteAgentMoves ==
    ASSUME IngressKept, NEW p \in Ing!Procs, NEW m \in Messages, Ing!RouteAgent(p, m)
    PROVE  /\ RecordsGrow
           /\ \E d \in RoutingCalls : route' = [route EXCEPT ![p][m] = d] /\ CallAdvance(p, m, route[p][m], d)
  <1> DEFINE c == route[p][m]
  <1>0. PICK i \in {c.i} : TRUE
    OBVIOUS
  <1> DEFINE a == Fanout[i]
             s == Ing!scopeOf(p, m, a)
             resolved == Ing!resolveSession(s)
             next(placed) == [route EXCEPT ![p][m].i = @ + 1, ![p][m].placed = @ + placed]
             deliver == Ing!wakes(p, m, a) \/ Ing!accumulates(p, m, a)
             row == [msg |-> m, scope |-> s, n |-> resolved[s].made, trigger |-> Ing!wakes(p, m, a),
                     engaged |-> Ing!evaluateEngage(p, m, a), by |-> p]
             gone(placed) == Moved(c, "fanout", i + 1, c.placed + placed)
             woken == Moved(c, "waking", i, c.placed)
  <1>1. c \in RoutingCalls /\ CallSound(m, c) /\ Len(Fanout) \in Nat \ {0}
    BY SMTT(40), IngressAssumption DEF IngressKept, IngressTypes, MessageKept
  <1>2. /\ c.at = "fanout" /\ i = c.i /\ i <= Len(Fanout)
        /\ seen' = seen /\ ledger' = ledger /\ hostUp' = hostUp /\ replays' = replays
        /\ undurable' = undurable /\ interrupted' = interrupted
    BY <1>0 DEF Ing!RouteAgent
  <1>3. /\ i \in 1 .. Len(Fanout) /\ c.placed \in 0 .. Len(Fanout) /\ c.placed < i
        /\ i \in 0 .. Len(Fanout) + 1 /\ i + 1 \in 0 .. Len(Fanout) + 1 /\ c.placed + 1 \in 0 .. Len(Fanout)
        /\ c.placed + 0 = c.placed
    BY <1>1, <1>2 DEF CallSound, RoutingCalls
  <1>4. a \in Ing!Agents /\ s \in Ing!Scopes /\ s[1] = a
    BY <1>3, AgentsAre, ScopeIs
  <1>5. ASSUME NEW k \in {0, 1}
        PROVE  /\ gone(k) \in RoutingCalls /\ next(k) = [route EXCEPT ![p][m] = gone(k)]
               /\ gone(k).at = "fanout" /\ gone(k).i = i + 1 /\ gone(k).placed = c.placed + k
               /\ gone(k).durable = c.durable
    <2>1. i + 1 \in 0 .. Len(Fanout) + 1 /\ c.placed + k \in 0 .. Len(Fanout)
      BY <1>3
    <2>2. gone(k) \in RoutingCalls
      BY <1>1, <2>1, MovedIs
    <2>3. gone(k).at = "fanout" /\ gone(k).i = i + 1 /\ gone(k).placed = c.placed + k
      BY <1>1, <2>1 DEF Moved, RoutingCalls
    <2>4. gone(k).durable = c.durable
      BY <1>1, <2>1 DEF Moved, RoutingCalls
    <2>5. next(k) = [route EXCEPT ![p][m] = gone(k)]
      <3>1. gone(k) = [c EXCEPT !.i = @ + 1, !.placed = @ + k]
        BY <1>1, <1>2 DEF Moved, RoutingCalls
      <3> HIDE DEF gone
      <3> QED
        BY <3>1 DEF IngressKept, IngressTypes
    <2> QED
      BY <2>2, <2>3, <2>4, <2>5
  <1>6. /\ woken \in RoutingCalls /\ [route EXCEPT ![p][m].at = "waking"] = [route EXCEPT ![p][m] = woken]
        /\ woken.at = "waking" /\ woken.i = i /\ woken.placed = c.placed /\ woken.durable = c.durable
    <2>1. woken \in RoutingCalls
      BY <1>1, <1>3, MovedIs
    <2>3. woken.at = "waking" /\ woken.i = i /\ woken.placed = c.placed
      BY <1>1, <1>3 DEF Moved, RoutingCalls
    <2>4. woken.durable = c.durable
      BY <1>1, <1>3 DEF Moved, RoutingCalls
    <2>5. [route EXCEPT ![p][m].at = "waking"] = [route EXCEPT ![p][m] = woken]
      BY <1>1, <1>2 DEF Moved, RoutingCalls, IngressKept, IngressTypes
    <2> HIDE DEF woken
    <2> QED
      BY <2>1, <2>3, <2>4, <2>5
  <1>7. /\ \/ /\ ~deliver
              /\ route' = next(0)
              /\ unidentified' = IF p = "replay" /\ ~Ing!identityOk(p, m, a)
                                 THEN unidentified \cup {<<m, a>>} ELSE unidentified
              /\ UNCHANGED <<session, inbox, trouble, swallowed>>
           \/ /\ deliver /\ Command[m] # "pass"
              /\ session' = resolved
              /\ route' = next(1)
              /\ UNCHANGED <<inbox, trouble, swallowed, unidentified>>
           \/ /\ deliver /\ Command[m] = "pass" /\ ~Ing!HasRow(m, s, resolved[s].made)
              /\ session' = resolved
              /\ inbox' = inbox \cup {row}
              /\ route' = IF row.trigger THEN [route EXCEPT ![p][m].at = "waking"] ELSE next(1)
              /\ UNCHANGED <<trouble, swallowed, unidentified>>
           \/ /\ deliver /\ Command[m] = "pass" /\ Ing!HasRow(m, s, resolved[s].made)
              /\ route' = next(0)
              /\ UNCHANGED <<session, inbox, trouble, swallowed, unidentified>>
           \/ /\ deliver /\ Command[m] = "pass" /\ Ing!Trouble
              /\ session' \in {session, resolved}
              /\ swallowed' = swallowed \cup {<<m, a>>}
              /\ route' = next(0)
              /\ UNCHANGED <<inbox, unidentified>>
    BY ZenonT(60), <1>2 DEF Ing!RouteAgent
  <1> HIDE DEF next, gone, woken
  <1>8. RecordsGrow
    BY <1>2, <1>7 DEF RecordsGrow
  <1>9. /\ row.msg = m /\ row.by = p /\ row.scope = s
    OBVIOUS
  <1> HIDE DEF resolved, row, s
  <1>10. ASSUME NEW d \in RoutingCalls, d.durable = c.durable,
               \/ d.at = "fanout" /\ d.i = i + 1 /\ d.placed \in {c.placed, c.placed + 1}
               \/ d.at = "waking" /\ d.i = i /\ d.placed = c.placed,
               a \in Ing!Owed(m) => Served(m, a)', inbox' = inbox \/ inbox' = inbox \cup {row}
         PROVE CallAdvance(p, m, c, d)
    <2>1. \A j \in 1 .. Len(Fanout) : /\ Behind(d, j) <=> Behind(c, j) \/ j = i
                                      /\ ~Behind(c, i)
      BY SMTT(40), <1>2, <1>3, <1>10 DEF Behind
    <2>2. NewRow(p, m, c, d, row)
      BY <1>3, <1>4, <1>9, <2>1 DEF NewRow
    <2>3. /\ d.at = "fanout" => d.i \in 1 .. Len(Fanout) + 1 /\ d.placed < d.i
          /\ d.at = "waking" => d.i \in 1 .. Len(Fanout) /\ d.placed < d.i
      BY SMTT(40), <1>1, <1>3, <1>10
    <2>4. c.at # "idle" /\ d.at # "idle" /\ d.at \notin {"intercept", "lookup"}
      BY <1>2, <1>10
    <2>5. inbox' = inbox \/ \E r : inbox' = inbox \cup {r} /\ NewRow(p, m, c, d, r)
      BY <1>10, <2>2
    <2>6. \A j \in 1 .. Len(Fanout) :
              Behind(d, j) /\ ~Behind(c, j) /\ Fanout[j] \in Ing!Owed(m) => Served(m, Fanout[j])'
      BY <1>10, <2>1
    <2> QED
      BY <1>2, <1>10, <2>1, <2>3, <2>4, <2>5, <2>6 DEF CallAdvance
  <1>12. a \in Ing!Owed(m) =>
            /\ ~deliver => p = "replay" /\ ~Ing!identityOk(p, m, a)
            /\ Command[m] = "pass"
    BY OwedWakes, ProcsAre
  <1>13. CASE /\ ~deliver /\ route' = next(0)
              /\ unidentified' = IF p = "replay" /\ ~Ing!identityOk(p, m, a)
                                 THEN unidentified \cup {<<m, a>>} ELSE unidentified
              /\ UNCHANGED <<session, inbox, trouble, swallowed>>
    <2>1. a \in Ing!Owed(m) => Served(m, a)'
      BY <1>12, <1>13 DEF Served
    <2> QED
      BY <1>3, <1>5, <1>8, <1>10, <1>13, <2>1
  <1>14. CASE /\ deliver /\ Command[m] # "pass" /\ route' = next(1)
              /\ UNCHANGED <<inbox, trouble, swallowed, unidentified>>
    BY <1>3, <1>5, <1>8, <1>10, <1>12, <1>14
  <1>15. CASE /\ deliver /\ inbox' = inbox \cup {row}
              /\ route' = IF row.trigger THEN [route EXCEPT ![p][m].at = "waking"] ELSE next(1)
    <2>1. Served(m, a)'
      BY <1>4, <1>9, <1>15 DEF Served, Ing!HasMessage
    <2>2. CASE route' = next(1)
      BY <1>3, <1>5, <1>8, <1>10, <1>15, <2>1, <2>2
    <2>3. CASE route' = [route EXCEPT ![p][m].at = "waking"]
      BY <1>3, <1>6, <1>8, <1>10, <1>15, <2>1, <2>3
    <2> QED
      BY <1>15, <2>2, <2>3
  <1>16. CASE /\ deliver /\ Ing!HasRow(m, s, resolved[s].made) /\ route' = next(0)
              /\ UNCHANGED <<session, inbox, trouble, swallowed, unidentified>>
    <2>1. Served(m, a)'
      BY <1>4, <1>16 DEF Served, Ing!HasMessage, Ing!HasRow
    <2> QED
      BY <1>3, <1>5, <1>8, <1>10, <1>16, <2>1
  <1>17. CASE /\ deliver /\ swallowed' = swallowed \cup {<<m, a>>} /\ route' = next(0)
              /\ UNCHANGED <<inbox, unidentified>>
    <2>1. Served(m, a)'
      BY <1>17 DEF Served
    <2> QED
      BY <1>3, <1>5, <1>8, <1>10, <1>17, <2>1
  <1> QED
    BY <1>7, <1>13, <1>14, <1>15, <1>16, <1>17

\* One agent of the fan-out: sessions and inboxes stay in order.
LEMMA RouteAgentStep ==
    ASSUME IngressKept, NEW p \in Ing!Procs, NEW m \in Messages, Ing!RouteAgent(p, m)
    PROVE  IngressKept'
  <1> DEFINE c == route[p][m]
             a == Fanout[c.i]
             s == Ing!scopeOf(p, m, a)
             resolved == Ing!resolveSession(s)
             row == [msg |-> m, scope |-> s, n |-> resolved[s].made, trigger |-> Ing!wakes(p, m, a),
                     engaged |-> Ing!evaluateEngage(p, m, a), by |-> p]
  <1>1. /\ c.at = "fanout" /\ c.i <= Len(Fanout)
        /\ seen' = seen /\ ledger' = ledger /\ hostUp' = hostUp /\ replays' = replays
        /\ undurable' = undurable /\ interrupted' = interrupted
        /\ session' = resolved \/ session' = session
        /\ trouble' = trouble \/ Ing!Trouble
        /\ inbox' = inbox \/ (inbox' = inbox \cup {row} /\ (Ing!wakes(p, m, a) \/ Ing!accumulates(p, m, a)))
        /\ swallowed' \subseteq swallowed \cup {<<m, a>>} /\ unidentified' \subseteq unidentified \cup {<<m, a>>}
    BY DEF Ing!RouteAgent
  <1>2. PICK d \in RoutingCalls : /\ RecordsGrow /\ route' = [route EXCEPT ![p][m] = d]
                                  /\ CallAdvance(p, m, c, d)
    BY SMTT(40), RouteAgentMoves
  <1>3. c.i \in 1 .. Len(Fanout)
    <2>1. CallSound(m, c) /\ Len(Fanout) \in Nat
      BY IngressAssumption DEF IngressKept, MessageKept
    <2> HIDE DEF c
    <2>2. c.i \in 1 .. Len(Fanout) + 1
      BY <1>1, <2>1 DEF CallSound
    <2> QED
      BY <1>1, <2>1, <2>2
  <1>4. a \in Ing!Agents /\ s \in Ing!Scopes /\ s[1] = a
    BY <1>3, AgentsAre, ScopeIs
  <1>5. /\ route' \in [Ing!Procs -> [Messages -> RoutingCalls]]
        /\ \A q \in Ing!Procs, x \in Messages : q # p \/ x # m => route'[q][x] = route[q][x]
    BY ZenonT(60), <1>2, CallMoves DEF IngressKept
  <1>6. row.msg = m /\ row.by = p /\ row.scope = s /\ row \in InboxRows
    <2>1. resolved[s].made \in 1 .. (MaxTrouble + 1)
      BY <1>4, ResolveIs
    <2>2. Ing!evaluateEngage(p, m, a) \in BOOLEAN /\ Ing!wakes(p, m, a) \in BOOLEAN
      BY <1>4, EngageIs
    <2> HIDE DEF resolved, s, a
    <2>3. row \in InboxRows
      BY <1>4, <2>1, <2>2, Zenon DEF InboxRows
    <2> QED
      BY <2>3
  <1>7. IngressTypes'
    <2> HIDE DEF row, resolved, s, a
    <2>1. session' \in [Ing!Scopes -> ScopeSessions]
      BY <1>1, <1>4, ResolveIs DEF resolved, IngressKept, IngressTypes
    <2>2. inbox' \subseteq InboxRows /\ IsFiniteSet(inbox')
      <3>1. inbox \subseteq InboxRows /\ IsFiniteSet(inbox)
        BY DEF IngressKept, IngressTypes
      <3>2. IsFiniteSet(inbox \cup {row})
        BY <3>1, FS_AddElement
      <3> QED
        BY <1>1, <1>6, <3>1, <3>2
    <2>3. trouble' \in 0 .. MaxTrouble
      BY <1>1, TroubleIs DEF IngressKept, IngressTypes
    <2>4. swallowed' \cup unidentified' \subseteq Messages \X Ing!Agents
      BY SMTT(40), <1>1, <1>4 DEF IngressKept, IngressTypes
    <2> QED
      BY <1>1, <1>5, <2>1, <2>2, <2>3, <2>4
      DEF IngressKept, IngressTypes, Ing!Procs, Ing!Scopes, Ing!Agents, RoutingCalls, ScopeSessions, InboxRows
  <1>8. \A t \in Ing!Scopes : SessionKept(t)'
    BY <1>1, <1>4, ResolveIs
  <1>9. ASSUME NEW x \in Messages PROVE MessageKept(x)'
    <2>1. CASE x = m
      BY <1>2, <2>1, MessageAdvances
    <2>2. CASE x # m
      <3>1. \A r \in inbox' : r.msg = x => r \in inbox
        BY ZenonT(60), <1>1, <1>6, <2>2
      <3> QED
        BY <1>1, <1>2, <1>5, <2>2, <3>1, MessageStays, ProcsAre
    <2> QED
      BY <2>1, <2>2
  <1>10. HostRowsApart'
    <2>1. CASE inbox' = inbox
      BY <2>1 DEF IngressKept, HostRowsApart
    <2>2. CASE inbox' = inbox \cup {row}
      <3>1. ASSUME p = "host", NEW q \in inbox, q.by = "host", q.msg = m PROVE q.scope # s
        <4>1. HostRows(m, c)
          BY SMTT(40), <3>1 DEF IngressKept, MessageKept
        <4>2. PICK j \in 1 .. Len(Fanout) : Fanout[j] = q.scope[1] /\ Behind(c, j)
          BY SMTT(40), <1>1, <3>1, <4>1 DEF HostRows
        <4>3. j # c.i
          BY SMTT(40), <1>1, <1>3, <4>2 DEF Behind
        <4> QED
          BY <1>3, <1>4, <4>2, <4>3, IngressAssumption
      <3> HIDE DEF row
      <3> QED
        BY <1>6, <2>2, <3>1 DEF IngressKept, HostRowsApart
    <2> QED
      BY <1>1, <2>1, <2>2
  <1>11. Ing!RefusalStoresNothing'
    <2>1. CASE inbox' = inbox
      BY <2>1 DEF IngressKept, Ing!RefusalStoresNothing
    <2>2. CASE inbox' = inbox \cup {row} /\ (Ing!wakes(p, m, a) \/ Ing!accumulates(p, m, a))
      <3>1. row.trigger = Ing!wakes(p, m, a) /\ row.engaged = Ing!evaluateEngage(p, m, a)
        OBVIOUS
      <3>2. row.by = "host" /\ (row.trigger \/ row.engaged) => <<row.msg, row.scope[1]>> \notin Refused
        <4>1. Ing!evaluateEngage(p, m, a) => Ing!wakes(p, m, a)
          BY <2>2 DEF Ing!accumulates
        <4>2. Ing!wakes(p, m, a) /\ p = "host" => <<m, a>> \notin Refused
          BY DEF Ing!wakes, Ing!gatesAllow
        <4> HIDE DEF row
        <4> QED
          BY <1>4, <1>6, <3>1, <4>1, <4>2
      <3> HIDE DEF row
      <3> QED
        BY <2>2, <3>2 DEF IngressKept, Ing!RefusalStoresNothing
    <2> QED
      BY <1>1, <2>1, <2>2
  <1> QED
    BY SMTT(40), <1>7, <1>8, <1>9, <1>10, <1>11 DEF IngressKept, Ing!Scopes, Ing!Agents

\* A call that begins, with and without a row in the ledger.
BegunCall == [Ing!Idle EXCEPT !.at = "intercept", !.durable = TRUE]
LooseCall == [Ing!Idle EXCEPT !.at = "intercept"]

\* The call that a message with a row in the ledger begins with ...
LEMMA BegunCallIs ==
    /\ BegunCall \in RoutingCalls /\ BegunCall.at = "intercept" /\ BegunCall.i = 0 /\ BegunCall.placed = 0
    /\ BegunCall.durable = TRUE
  <1>1. Ing!Idle \in RoutingCalls
    BY IdleCallIs
  <1>2. BegunCall \in RoutingCalls /\ BegunCall.at = "intercept"
    BY <1>1 DEF BegunCall, RoutingCalls
  <1>3. BegunCall.i = 0 /\ BegunCall.placed = 0
    BY <1>1, IdleCallIs DEF BegunCall, RoutingCalls
  <1>4. BegunCall.durable = TRUE
    BY <1>1 DEF BegunCall, RoutingCalls
  <1> QED
    BY <1>2, <1>3, <1>4

\* ... and the one that a message without such a row begins with.
LEMMA LooseCallIs ==
    /\ LooseCall \in RoutingCalls /\ LooseCall.at = "intercept" /\ LooseCall.i = 0 /\ LooseCall.placed = 0
    /\ LooseCall.durable = FALSE
  <1>1. Ing!Idle \in RoutingCalls
    BY IdleCallIs
  <1>2. LooseCall \in RoutingCalls /\ LooseCall.at = "intercept"
    BY <1>1 DEF LooseCall, RoutingCalls
  <1>3. LooseCall.i = 0 /\ LooseCall.placed = 0
    BY <1>1, IdleCallIs DEF LooseCall, RoutingCalls
  <1>4. LooseCall.durable = FALSE
    BY <1>1, IdleCallIs DEF LooseCall, RoutingCalls
  <1> QED
    BY <1>2, <1>3, <1>4

\* The adapter takes a message.
LEMMA ReceiveStep ==
    ASSUME IngressKept, NEW m \in Messages, Ing!Receive(m)
    PROVE  IngressKept'
  <1>1. /\ m \notin seen /\ seen' = seen \cup {m}
        /\ UNCHANGED <<session, inbox, hostUp, replays, swallowed, unidentified, interrupted>>
        /\ \/ /\ ledger' = [ledger EXCEPT ![m] = "received"]
              /\ route' = [route EXCEPT !["host"][m] = BegunCall]
              /\ UNCHANGED <<trouble, undurable>>
           \/ /\ Ing!Trouble
              /\ route' = [route EXCEPT !["host"][m] = LooseCall]
              /\ undurable' = undurable \cup {m}
              /\ UNCHANGED ledger
    BY DEF Ing!Receive, Ing!markInboundSeen, BegunCall, LooseCall
  <1>2. MessageKept(m)
    BY DEF IngressKept
  <1>5. RecordsGrow
    BY <1>1 DEF RecordsGrow
  <1>6. PICK d \in RoutingCalls :
            /\ d.at = "intercept" /\ d.i = 0 /\ d.placed = 0
            /\ route' = [route EXCEPT !["host"][m] = d]
            /\ ~d.durable => m \in undurable' /\ ledger'[m] = "none"
            /\ d.durable => ledger'[m] = "received"
    <2>1. ledger[m] = "none" /\ ledger \in [Messages -> {"none", "received", "failed"}]
      BY <1>1, <1>2 DEF IngressKept, IngressTypes, MessageKept, LedgerKept
    <2> QED
      BY <1>1, <2>1, BegunCallIs, LooseCallIs
  <1>7. /\ route' \in [Ing!Procs -> [Messages -> RoutingCalls]] /\ route'["host"][m] = d
        /\ \A q \in Ing!Procs, x \in Messages : q # "host" \/ x # m => route'[q][x] = route[q][x]
    <2>1. "host" \in Ing!Procs /\ IngressTypes
      BY ProcsAre DEF IngressKept
    <2> QED
      BY ZenonT(60), <1>6, <2>1, CallMoves
  <1>8. /\ ledger' \in [Messages -> {"none", "received", "failed"}]
        /\ \A x \in Messages : x # m => ledger'[x] = ledger[x]
    BY <1>1 DEF IngressKept, IngressTypes
  <1>9. MessageKept(m)'
    <2>1. CallSoundNext(m, d)
      BY <1>1, <1>6 DEF CallSoundNext, Behind
    <2>2. CallSound(m, route["host"][m])'
      BY <1>7, <2>1, CallSoundAt
    <2>3. CallSound(m, route["replay"][m])'
      BY <1>2, <1>5, <1>7, CallStays, CallSoundAt, ProcsAre DEF MessageKept
    <2>4. \A r \in inbox' : r.msg # m
      BY <1>1, <1>2 DEF MessageKept, LedgerKept
    <2>5. HostRows(m, route["host"][m])'
      BY <2>4 DEF HostRows
    <2>6. ReplayPaid(m, route["replay"][m])'
      <3>1. route'["replay"][m] = route["replay"][m] /\ \A s : ReplayRows(m, s)' = ReplayRows(m, s)
        BY <1>1, <1>7, ProcsAre DEF ReplayRows
      <3> QED
        BY <1>1, <1>2, <3>1 DEF MessageKept, ReplayPaid, Ahead, Behind, Ing!Scopes, Ing!Agents
    <2>7. LedgerKept(m, route["host"][m])'
      BY <1>1, <1>6, <1>7 DEF LedgerKept, Served
    <2> QED
      BY <2>2, <2>3, <2>5, <2>6, <2>7 DEF MessageKept, Ing!Procs
  <1>10. ASSUME NEW x \in Messages, x # m PROVE MessageKept(x)'
    BY <1>1, <1>5, <1>7, <1>8, <1>10, MessageStays, ProcsAre
  <1> QED
    BY <1>1, <1>7, <1>8, <1>9, <1>10, RestKept DEF IngressKept, IngressTypes

\* A replay begins: it may write one more copy of the message for each agent.
LEMMA ReplayStep ==
    ASSUME IngressKept, NEW m \in Messages, Ing!Replay(m)
    PROVE  IngressKept'
  <1>1. /\ ledger[m] # "none" /\ route["replay"][m].at = "idle"
        /\ replays' = [replays EXCEPT ![m] = @ + 1]
        /\ route' = [route EXCEPT !["replay"][m] = BegunCall]
        /\ UNCHANGED <<seen, ledger, session, inbox, hostUp, trouble, undurable, swallowed, unidentified,
                       interrupted>>
    BY Zenon DEF Ing!Replay, BegunCall, Ing!history
  <1>2. MessageKept(m) /\ replays \in [Messages -> Nat]
    BY DEF IngressKept, IngressTypes
  <1>3. RecordsGrow
    BY <1>1 DEF RecordsGrow
  <1>4. /\ route' \in [Ing!Procs -> [Messages -> RoutingCalls]] /\ route'["replay"][m] = BegunCall
        /\ \A q \in Ing!Procs, x \in Messages : q # "replay" \/ x # m => route'[q][x] = route[q][x]
    <2>1. "replay" \in Ing!Procs /\ IngressTypes /\ BegunCall \in RoutingCalls
      BY ProcsAre, BegunCallIs DEF IngressKept
    <2>2. PICK d \in RoutingCalls : d = BegunCall /\ route' = [route EXCEPT !["replay"][m] = d]
      BY <1>1, <2>1
    <2>4. route' = [route EXCEPT !["replay"][m] = d]
      BY <2>2
    <2>3. /\ route' \in [Ing!Procs -> [Messages -> RoutingCalls]] /\ route'["replay"][m] = d
          /\ \A q \in Ing!Procs, x \in Messages : q # "replay" \/ x # m => route'[q][x] = route[q][x]
      BY ZenonT(60), <2>1, <2>4, CallMoves
    <2> QED
      BY <2>2, <2>3
  <1>5. replays' \in [Messages -> Nat] /\ replays'[m] = replays[m] + 1 /\ \A x \in Messages : x # m => replays'[x] = replays[x]
    BY <1>1, <1>2
  <1>6. m \in seen
    BY <1>1, <1>2 DEF MessageKept, LedgerKept
  <1>7. MessageKept(m)'
    <2>1. CallSoundNext(m, BegunCall)
      BY <1>1, <1>6, BegunCallIs DEF CallSoundNext, Behind
    <2>2. CallSound(m, route["replay"][m])'
      BY <1>4, <2>1, CallSoundAt
    <2>3. CallSound(m, route["host"][m])'
      BY <1>2, <1>3, <1>4, CallStays, CallSoundAt, ProcsAre DEF MessageKept
    <2>4. route'["host"][m] = route["host"][m]
      BY <1>4, ProcsAre
    <2>5. HostRows(m, route["host"][m])'
      BY <1>1, <1>2, <2>4 DEF MessageKept, HostRows, Behind
    <2>6. ReplayPaid(m, route["replay"][m])'
      <3>1. \A s : ReplayRows(m, s)' = ReplayRows(m, s)
        BY <1>1 DEF ReplayRows
      <3>2. ASSUME NEW s \in Ing!Scopes PROVE Cardinality(ReplayRows(m, s)) < replays'[m]
        <4>1. Cardinality(ReplayRows(m, s)) <= replays[m] /\ Cardinality(ReplayRows(m, s)) \in Nat /\ replays[m] \in Nat
          BY <1>2, ReplayRowsCount DEF MessageKept, ReplayPaid
        <4> QED
          BY <1>5, <4>1
      <3>3. \A s \in Ing!Scopes : Cardinality(ReplayRows(m, s)) <= replays'[m]
        BY <1>2, <1>5, <3>2, ReplayRowsCount
      <3>4. Ing!Scopes' = Ing!Scopes
        BY DEF Ing!Scopes, Ing!Agents
      <3> QED
        BY <3>1, <3>2, <3>3, <3>4 DEF ReplayPaid
    <2>7. LedgerKept(m, route["host"][m])'
      BY <1>1, <1>2, <1>6, <2>4 DEF MessageKept, LedgerKept, Served
    <2> QED
      BY <2>2, <2>3, <2>5, <2>6, <2>7 DEF MessageKept, Ing!Procs
  <1>8. ASSUME NEW x \in Messages, x # m PROVE MessageKept(x)'
    BY <1>1, <1>3, <1>4, <1>5, <1>8, MessageStays, ProcsAre
  <1> QED
    BY <1>1, <1>4, <1>5, <1>7, <1>8, RestKept DEF IngressKept, IngressTypes

\* A call that ends: what it leaves in the ledger is true.
LEMMA EndKeeps ==
    ASSUME IngressKept, RecordsGrow, NEW p \in Ing!Procs, NEW m \in Messages,
           route[p][m].at # "idle", route' = [route EXCEPT ![p][m] = Ing!Idle],
           \A x \in Messages : x # m => ledger'[x] = ledger[x],
           ledger'[m] \in {"none", "received", "failed"},
           ledger'[m] = "none" => ledger[m] = "none" \/ \A a \in Ing!Owed(m) : Served(m, a),
           ledger'[m] = "received" => \/ m \in interrupted'
                                      \/ ledger[m] = "received" /\ (p = "replay" \/ ~route[p][m].durable),
           UNCHANGED <<inbox, seen, replays>>
    PROVE  \A x \in Messages : MessageKept(x)'
  <1>1. MessageKept(m) /\ m \in seen
    BY DEF IngressKept, MessageKept, CallSound
  <1>2. /\ route'[p][m] = Ing!Idle
        /\ \A q \in Ing!Procs, x \in Messages : q # p \/ x # m => route'[q][x] = route[q][x]
    <2>1. IngressTypes /\ Ing!Idle \in RoutingCalls
      BY IdleCallIs DEF IngressKept
    <2> QED
      BY ZenonT(60), <2>1, CallMoves
  <1>3. MessageKept(m)'
    <2>1. ASSUME NEW q \in Ing!Procs PROVE CallSound(m, route[q][m])'
      <3>1. CallSoundNext(m, route'[q][m])
        BY <1>1, <1>2, CallStays, CallEnded DEF MessageKept
      <3> QED
        BY <3>1, CallSoundAt
    <2>2. \A q \in Ing!Procs : route'[q][m] \in {route[q][m], Ing!Idle}
      BY <1>2
    <2>3. HostRows(m, route["host"][m])'
      BY <1>1, <2>2, ProcsAre, IdleCallIs DEF MessageKept, HostRows, Behind
    <2>4. ReplayPaid(m, route["replay"][m])'
      <3>1. \A s : ReplayRows(m, s)' = ReplayRows(m, s)
        BY DEF ReplayRows
      <3>2. \A a : Ahead(route["replay"][m], a)' => Ahead(route["replay"][m], a)
        BY <2>2, ProcsAre, IdleCallIs DEF Ahead, Behind
      <3>3. Ing!Scopes' = Ing!Scopes
        BY DEF Ing!Scopes, Ing!Agents
      <3> QED
        BY <1>1, <3>1, <3>2, <3>3 DEF MessageKept, ReplayPaid
    <2>5. LedgerKept(m, route["host"][m])'
      <3>1. ASSUME ledger'[m] = "none", NEW a \in Ing!Owed(m) PROVE Served(m, a)'
        <4>1. Served(m, a)
          BY <1>1, <3>1 DEF MessageKept, LedgerKept
        <4> QED
          BY <4>1, ServedGrows
      <3>2. ledger'[m] = "received" =>
                m \in interrupted' \/ (route'["host"][m].at # "idle" /\ route'["host"][m].durable)
        BY <1>1, <1>2, ProcsAre DEF MessageKept, LedgerKept, RecordsGrow
      <3>3. Ing!Owed(m)' = Ing!Owed(m)
        BY DEF Ing!Owed, Ing!Agents
      <3> QED
        BY <1>1, <3>1, <3>2, <3>3 DEF LedgerKept
    <2> QED
      BY <2>1, <2>3, <2>4, <2>5 DEF MessageKept, Ing!Procs
  <1>4. ASSUME NEW x \in Messages, x # m PROVE MessageKept(x)'
    BY <1>2, <1>4, MessageStays, ProcsAre
  <1> QED
    BY <1>3, <1>4

\* routeInboundInner returns or throws.
LEMMA EndSteps ==
    ASSUME IngressKept, NEW p \in Ing!Procs, NEW m \in Messages, Ing!RouteEnds(p, m) \/ Ing!RouteFails(p, m)
    PROVE  IngressKept'
  <1> DEFINE c == route[p][m]
  <1>1. /\ c.at # "idle" /\ route' = [route EXCEPT ![p][m] = Ing!Idle]
        /\ UNCHANGED <<seen, session, inbox, hostUp, replays, undurable, swallowed, unidentified>>
        /\ trouble' = trouble \/ Ing!Trouble
        /\ interrupted' = interrupted \/ interrupted' = interrupted \cup {m}
    BY DEF Ing!RouteEnds, Ing!RouteFails, Ing!history
  <1>2. RecordsGrow
    BY <1>1 DEF RecordsGrow
  <1>3. ledger \in [Messages -> {"none", "received", "failed"}] /\ CallSound(m, c) /\ Len(Fanout) \in Nat
        /\ c \in RoutingCalls
    BY IngressAssumption DEF IngressKept, IngressTypes, MessageKept
  <1>4. \/ ledger' = ledger
        \/ ledger' = [ledger EXCEPT ![m] = "none"]
        \/ ledger' = [ledger EXCEPT ![m] = IF @ = "none" THEN @ ELSE "failed"]
    BY DEF Ing!RouteEnds, Ing!RouteFails, Ing!deleteIngress, Ing!markIngressFailed
  <1>5. /\ ledger' \in [Messages -> {"none", "received", "failed"}]
        /\ \A x \in Messages : x # m => ledger'[x] = ledger[x]
    BY <1>3, <1>4
  <1>6. ASSUME ledger'[m] = "none", ledger[m] # "none", NEW a \in Ing!Owed(m) PROVE Served(m, a)
    <2>1. Ing!RouteEnds(p, m)
      BY <1>3, <1>6 DEF Ing!RouteFails, Ing!markIngressFailed
    <2>2. c.at = "fanout" /\ c.i > Len(Fanout)
      BY <2>1 DEF Ing!RouteEnds
    <2>3. PICK j \in 1 .. Len(Fanout) : a = Fanout[j]
      BY DEF Ing!Owed, Ing!Agents
    <2>4. Behind(c, j)
      BY <1>3, <2>2 DEF Behind, RoutingCalls
    <2> QED
      BY <1>3, <2>3, <2>4 DEF CallSound
  <1>7. ledger'[m] = "received" => \/ m \in interrupted'
                                   \/ ledger[m] = "received" /\ (p = "replay" \/ ~c.durable)
    <2>1. CASE ~c.durable
      <3>1. ledger' = ledger
        BY <2>1 DEF Ing!RouteEnds, Ing!RouteFails
      <3> QED
        BY <2>1, <3>1
    <2>2. CASE c.durable /\ Ing!RouteFails(p, m)
      BY <1>3, <2>2 DEF Ing!RouteFails, Ing!markIngressFailed
    <2>3. CASE c.durable /\ Ing!RouteEnds(p, m)
      BY <1>3, <2>3 DEF Ing!RouteEnds, Ing!deleteIngress
    <2> QED
      BY <2>1, <2>2, <2>3
  <1>8. \A x \in Messages : MessageKept(x)'
    <2>1. ledger'[m] \in {"none", "received", "failed"}
      BY <1>5
    <2>2. ledger'[m] = "none" => ledger[m] = "none" \/ \A a \in Ing!Owed(m) : Served(m, a)
      BY <1>6
    <2> QED
      BY <1>1, <1>2, <1>5, <1>7, <2>1, <2>2, EndKeeps
  <1>9. route' \in [Ing!Procs -> [Messages -> RoutingCalls]]
    BY <1>1, CallMoves, IdleCallIs DEF IngressKept
  <1>10. interrupted' \subseteq Messages
    BY <1>1 DEF IngressKept, IngressTypes
  <1> QED
    BY <1>1, <1>5, <1>8, <1>9, <1>10, RestKept DEF IngressKept, IngressTypes

\* The sweep archives a session, and the host starts again.
LEMMA ArchiveStep ==
    ASSUME IngressKept, NEW s \in Ing!Scopes, Ing!Archive(s)
    PROVE  IngressKept'
  <1>1. /\ session[s].active /\ Ing!Trouble /\ session' = [session EXCEPT ![s].active = FALSE]
        /\ UNCHANGED <<seen, ledger, route, inbox, hostUp, replays, undurable, swallowed, unidentified, interrupted>>
    BY DEF Ing!Archive, Ing!history
  <1>2. RecordsGrow
    BY <1>1 DEF RecordsGrow
  <1>3. ASSUME NEW x \in Messages PROVE MessageKept(x)'
    BY <1>1, <1>2, MessageStays
  <1>4. session \in [Ing!Scopes -> ScopeSessions] /\ trouble \in 0 .. MaxTrouble /\ MaxTrouble \in Nat
        /\ trouble' = trouble + 1 /\ trouble' \in 0 .. MaxTrouble
    BY <1>1, IngressAssumption, TroubleIs DEF IngressKept, IngressTypes
  <1>5. session' \in [Ing!Scopes -> ScopeSessions]
    BY <1>1, <1>4 DEF ScopeSessions
  <1>6. ASSUME NEW t \in Ing!Scopes PROVE SessionKept(t)'
    <2>1. SessionKept(t) /\ session[t].made \in Nat
      BY <1>4 DEF IngressKept, ScopeSessions
    <2>2. CASE t # s
      BY <1>1, <1>4, <2>1, <2>2 DEF SessionKept
    <2>3. CASE t = s
      <3>1. session'[t].made = session[t].made /\ ~session'[t].active
        BY <1>1, <1>4, <2>3 DEF ScopeSessions
      <3> QED
        BY <1>1, <1>4, <2>1, <2>3, <3>1 DEF SessionKept
    <2> QED
      BY <2>2, <2>3
  <1>7. IngressTypes'
    BY <1>1, <1>4, <1>5
    DEF IngressKept, IngressTypes, Ing!Procs, Ing!Scopes, Ing!Agents, RoutingCalls, ScopeSessions, InboxRows
  <1>8. HostRowsApart' /\ Ing!RefusalStoresNothing'
    BY <1>1 DEF IngressKept, HostRowsApart, Ing!RefusalStoresNothing
  <1> QED
    BY <1>3, <1>6, <1>7, <1>8 DEF IngressKept, Ing!Scopes, Ing!Agents

\* The host comes back: what it had stored is still there.
LEMMA HostBack ==
    ASSUME IngressKept, Ing!Restart
    PROVE  IngressKept'
  <1>1. hostUp' = TRUE /\ UNCHANGED <<seen, ledger, route, session, inbox, trouble, replays, undurable,
                                      swallowed, unidentified, interrupted>>
    BY DEF Ing!Restart, Ing!history
  <1>2. RecordsGrow
    BY <1>1 DEF RecordsGrow
  <1>3. ASSUME NEW x \in Messages PROVE MessageKept(x)'
    BY <1>1, <1>2, MessageStays
  <1> QED
    BY <1>1, <1>3, RestKept DEF IngressKept, IngressTypes

\* All calls of a process end at once.
LEMMA CallsEnd ==
    ASSUME IngressTypes, NEW p \in Ing!Procs, route' = [route EXCEPT ![p] = [x \in Messages |-> Ing!Idle]]
    PROVE  /\ route' \in [Ing!Procs -> [Messages -> RoutingCalls]]
           /\ \A x \in Messages : route'[p][x] = Ing!Idle
           /\ \A q \in Ing!Procs, x \in Messages : q # p => route'[q][x] = route[q][x]
  BY IdleCallIs DEF IngressTypes

\* A crash ends the calls of its process and marks them as interrupted.
LEMMA CrashStep ==
    ASSUME IngressKept, NEW p \in Ing!Procs, Ing!Crash(p)
    PROVE  IngressKept'
  <1>1. /\ Ing!Trouble /\ hostUp' \in BOOLEAN
        /\ route' = [route EXCEPT ![p] = [x \in Messages |-> Ing!Idle]]
        /\ interrupted' = interrupted \cup {x \in Messages : route[p][x].at # "idle"}
        /\ UNCHANGED <<seen, ledger, session, inbox, replays, undurable, swallowed, unidentified>>
    BY DEF Ing!Crash
  <1>2. RecordsGrow
    BY <1>1 DEF RecordsGrow
  <1>3. /\ route' \in [Ing!Procs -> [Messages -> RoutingCalls]]
        /\ \A x \in Messages : route'[p][x] = Ing!Idle
        /\ \A q \in Ing!Procs, x \in Messages : q # p => route'[q][x] = route[q][x]
    BY <1>1, CallsEnd DEF IngressKept
  <1>4. ASSUME NEW x \in Messages PROVE MessageKept(x)'
    <2>1. \A q \in Ing!Procs : route'[q][x] \in {route[q][x], Ing!Idle}
      BY <1>3
    <2>2. route'["host"][x] # route["host"][x] /\ route["host"][x].at # "idle" => x \in interrupted'
      BY <1>1, <1>3, ProcsAre
    <2> QED
      BY <1>1, <1>2, <2>1, <2>2, MessageStays
  <1> QED
    BY <1>1, <1>3, <1>4, RestKept DEF IngressKept, IngressTypes

\* A crash between the mark and the row: the message is seen, and known to be
\* without a row.
LEMMA CrashAfterMarkStep ==
    ASSUME IngressKept, NEW m \in Messages, Ing!CrashAfterMark(m)
    PROVE  IngressKept'
  <1>1. /\ Ing!Trouble /\ hostUp' = FALSE /\ m \notin seen
        /\ seen' = seen \cup {m} /\ undurable' = undurable \cup {m}
        /\ route' = [route EXCEPT !["host"] = [x \in Messages |-> Ing!Idle]]
        /\ interrupted' = interrupted \cup {x \in Messages : route["host"][x].at # "idle"}
        /\ UNCHANGED <<ledger, session, inbox, replays, swallowed, unidentified>>
    BY DEF Ing!CrashAfterMark, Ing!markInboundSeen
  <1>2. RecordsGrow
    BY <1>1 DEF RecordsGrow
  <1>3. /\ route' \in [Ing!Procs -> [Messages -> RoutingCalls]]
        /\ \A x \in Messages : route'["host"][x] = Ing!Idle
        /\ \A q \in Ing!Procs, x \in Messages : q # "host" => route'[q][x] = route[q][x]
    BY <1>1, CallsEnd, ProcsAre DEF IngressKept
  <1>4. ASSUME NEW x \in Messages, x # m PROVE MessageKept(x)'
    <2>1. \A q \in Ing!Procs : route'[q][x] \in {route[q][x], Ing!Idle}
      BY <1>3
    <2>2. route'["host"][x] # route["host"][x] /\ route["host"][x].at # "idle" => x \in interrupted'
      BY <1>1, <1>3, ProcsAre
    <2> QED
      BY <1>1, <1>2, <1>4, <2>1, <2>2, MessageStays
  <1>5. MessageKept(m)'
    <2>1. MessageKept(m)
      BY DEF IngressKept
    <2>2. ASSUME NEW q \in Ing!Procs PROVE CallSound(m, route[q][m])'
      <3>1. CallSoundNext(m, route'[q][m])
        BY <1>2, <1>3, <2>1, CallStays, CallEnded DEF MessageKept
      <3> QED
        BY <3>1, CallSoundAt
    <2>3. HostRows(m, route["host"][m])'
      BY <1>3, IdleCallIs DEF HostRows
    <2>4. route'["replay"][m] = route["replay"][m] /\ \A s : ReplayRows(m, s)' = ReplayRows(m, s)
      BY <1>1, <1>3, ProcsAre DEF ReplayRows
    <2>5. ReplayPaid(m, route["replay"][m])'
      BY <1>1, <2>1, <2>4 DEF MessageKept, ReplayPaid, Ahead, Behind, Ing!Scopes, Ing!Agents
    <2>6. LedgerKept(m, route["host"][m])'
      BY <1>1, <2>1 DEF MessageKept, LedgerKept, Served
    <2> QED
      BY <2>2, <2>3, <2>5, <2>6 DEF MessageKept, Ing!Procs
  <1>6. undurable' \cup interrupted' \subseteq Messages /\ seen' \subseteq Messages
    BY <1>1 DEF IngressKept, IngressTypes
  <1> QED
    BY <1>1, <1>3, <1>4, <1>5, <1>6, RestKept DEF IngressKept, IngressTypes

IngressInv == focus = "ingress" => IngressKept

\* Before the first message.
LEMMA IngressInit == ASSUME Init PROVE IngressInv
  <1>1. Ing!Init
    BY DEF Init
  <1>2. /\ seen = {} /\ ledger = [m \in Messages |-> "none"]
        /\ route = [p \in Ing!Procs |-> [m \in Messages |-> Ing!Idle]]
        /\ session = [s \in Ing!Scopes |-> [made |-> 0, active |-> FALSE]]
        /\ inbox = {} /\ hostUp = TRUE /\ trouble = 0 /\ replays = [m \in Messages |-> 0]
        /\ undurable = {} /\ swallowed = {} /\ unidentified = {} /\ interrupted = {}
    BY <1>1 DEF Ing!Init
  <1>3. /\ \A p \in Ing!Procs, m \in Messages : route[p][m] = Ing!Idle
        /\ \A s \in Ing!Scopes : session[s].made = 0 /\ ~session[s].active
    BY <1>2
  <1>4. IngressTypes
    <2>1. IsFiniteSet(inbox)
      BY <1>2, FS_EmptySet
    <2>2. session \in [Ing!Scopes -> ScopeSessions]
      BY <1>2, IngressAssumption DEF ScopeSessions
    <2>3. route \in [Ing!Procs -> [Messages -> RoutingCalls]]
      BY <1>2, IdleCallIs
    <2>4. /\ ledger \in [Messages -> {"none", "received", "failed"}] /\ replays \in [Messages -> Nat]
          /\ trouble \in 0 .. MaxTrouble
      BY <1>2, IngressAssumption
    <2> QED
      BY <1>2, <2>1, <2>2, <2>3, <2>4 DEF IngressTypes
  <1>5. \A s \in Ing!Scopes : SessionKept(s)
    BY <1>2, <1>3 DEF SessionKept
  <1>6. ASSUME NEW m \in Messages PROVE MessageKept(m)
    <2>1. \A p \in Ing!Procs : CallSound(m, route[p][m])
      BY <1>3, IdleCallIs DEF CallSound, Behind
    <2>2. HostRows(m, route["host"][m])
      BY <1>2 DEF HostRows
    <2>3. ReplayPaid(m, route["replay"][m])
      <3>1. route["replay"][m].at = "idle"
        BY <1>3, ProcsAre, IdleCallIs
      <3>2. \A s : ReplayRows(m, s) = {}
        BY <1>2 DEF ReplayRows
      <3>3. Cardinality({}) = 0
        BY FS_EmptySet
      <3>4. \A s : Cardinality(ReplayRows(m, s)) = 0
        BY <3>2, <3>3, Zenon
      <3>5. replays[m] = 0
        BY <1>2
      <3> QED
        BY <3>1, <3>4, <3>5 DEF ReplayPaid, Ahead
    <2>4. LedgerKept(m, route["host"][m])
      BY <1>2 DEF LedgerKept
    <2> QED
      BY <2>1, <2>2, <2>3, <2>4 DEF MessageKept
  <1>7. HostRowsApart /\ Ing!RefusalStoresNothing
    BY <1>2 DEF HostRowsApart, Ing!RefusalStoresNothing
  <1> QED
    BY <1>4, <1>5, <1>6, <1>7 DEF IngressInv, IngressKept

\* What the invariant says of the copies of a message.
LEMMA CopiesCounted ==
    ASSUME IngressKept, NEW m \in Messages, NEW s \in Ing!Scopes
    PROVE  Cardinality({r \in inbox : r.msg = m /\ r.scope = s}) <= 1 + replays[m]
  <1> DEFINE all == {r \in inbox : r.msg = m /\ r.scope = s}
             mine == {r \in inbox : r.msg = m /\ r.scope = s /\ r.by = "host"}
  <1>1. all = mine \cup ReplayRows(m, s)
    BY DEF ReplayRows, IngressKept, IngressTypes, InboxRows, Ing!Procs
  <1>2. IsFiniteSet(mine) /\ Cardinality(mine) \in {0, 1}
    <2>1. CASE mine = {}
      BY <2>1, FS_EmptySet
    <2>2. CASE mine # {}
      <3>1. PICK x : x \in mine
        BY <2>2
      <3>2. mine = {x}
        BY <3>1 DEF IngressKept, HostRowsApart
      <3> QED
        BY <3>2, FS_Singleton
    <2> QED
      BY <2>1, <2>2
  <1>3. /\ IsFiniteSet(ReplayRows(m, s)) /\ Cardinality(ReplayRows(m, s)) \in Nat
        /\ Cardinality(ReplayRows(m, s)) <= replays[m] /\ replays[m] \in Nat
    BY ReplayRowsCount DEF IngressKept, IngressTypes, MessageKept, ReplayPaid
  <1> HIDE DEF mine
  <1>4. /\ Cardinality(mine \cup ReplayRows(m, s)) =
              Cardinality(mine) + Cardinality(ReplayRows(m, s)) - Cardinality(mine \cap ReplayRows(m, s))
        /\ Cardinality(mine \cap ReplayRows(m, s)) \in Nat
    <2>1. IsFiniteSet(mine \cap ReplayRows(m, s))
      BY <1>2, FS_Intersection
    <2> QED
      BY <1>2, <1>3, <2>1, FS_Union, FS_CardinalityType
  <1>5. Cardinality(all) = Cardinality(mine \cup ReplayRows(m, s))
    BY <1>1, Zenon
  <1> HIDE DEF all
  <1>6. Cardinality(all) <= 1 + replays[m]
    BY <1>2, <1>3, <1>4, <1>5
  <1> QED
    BY <1>6 DEF all

\* What is kept of every message and session is what InboundAccounted says.
LEMMA IngressSound == ASSUME IngressKept PROVE Ing!InboundAccounted
  <1>1. Ing!TypeOK
    BY DEF IngressKept, IngressTypes, Ing!TypeOK, RoutingCalls, ScopeSessions, InboxRows
  <1>2. Ing!NoSilentLoss
    BY DEF IngressKept, IngressTypes, MessageKept, LedgerKept, Ing!NoSilentLoss, Served
  <1>3. Ing!CopiesExplained
    <2>1. ASSUME NEW S PROVE Ing!Cardinality(S) = Cardinality(S)
      BY Zenon DEF Ing!Cardinality, Cardinality
    <2>2. \A m \in Messages, s \in Ing!Scopes :
              Ing!Cardinality({r \in inbox : r.msg = m /\ r.scope = s}) <= 1 + replays[m]
      BY <2>1, CopiesCounted
    <2> QED
      BY <2>2 DEF Ing!CopiesExplained
  <1>4. Ing!ReceivedMeansInterrupted
    BY ProcsAre DEF IngressKept, MessageKept, LedgerKept, Ing!ReceivedMeansInterrupted, Ing!Routing
  <1> QED
    BY <1>1, <1>2, <1>3, <1>4 DEF IngressKept, Ing!InboundAccounted

\* A message the adapter took is in the inbox of every agent it was meant for or
\* in the ledger, whatever host and replay do in whatever order; no agent gets a
\* copy that no replay paid for; a row left at received was interrupted; and a
\* refused message is stored nowhere (router.ts, inbound-ingress.ts).
THEOREM InboundSafe == Spec => []InboundAccounted
  <1>1. Init => IngressInv
    BY IngressInit
  <1>2. IngressInv /\ [Next]_vars => IngressInv'
    <2> SUFFICES ASSUME IngressInv, [Next]_vars
                 PROVE  IngressInv'
      OBVIOUS
    <2>1. CASE focus = "ingress" /\ Ing!Next /\ UNCHANGED focus
      <3>1. IngressKept
        BY <2>1 DEF IngressInv
      <3>2. IngressKept'
        <4>1. CASE \E m \in Messages : Ing!Receive(m) \/ Ing!Replay(m) \/ Ing!CrashAfterMark(m)
          BY <3>1, <4>1, ReceiveStep, ReplayStep, CrashAfterMarkStep
        <4>2. CASE \E p \in Ing!Procs, m \in Messages : Ing!Step(p, m)
          BY <3>1, <4>2, CallSteps, RouteAgentStep, EndSteps DEF Ing!Step
        <4>3. CASE \E s \in Ing!Scopes : Ing!Archive(s)
          BY <3>1, <4>3, ArchiveStep
        <4>4. CASE \E p \in Ing!Procs : Ing!Crash(p)
          BY <3>1, <4>4, CrashStep
        <4>5. CASE Ing!Restart
          BY <3>1, <4>5, HostBack
        <4> QED
          BY <2>1, <4>1, <4>2, <4>3, <4>4, <4>5 DEF Ing!Next
      <3> QED
        BY <3>2 DEF IngressInv
    <2>2. CASE focus # "ingress" /\ UNCHANGED focus
      BY <2>2 DEF IngressInv
    <2>3. CASE UNCHANGED vars
      <3>1. UNCHANGED <<focus, ingVars>>
        BY <2>3 DEF vars
      <3>2. CASE focus = "ingress"
        <4>1. IngressKept
          BY <3>2 DEF IngressInv
        <4>2. UNCHANGED <<seen, ledger, route, session, inbox, hostUp, trouble, replays,
                          undurable, swallowed, unidentified, interrupted>>
          BY <3>1 DEF ingVars
        <4>3. RecordsGrow
          BY <4>2 DEF RecordsGrow
        <4>4. ASSUME NEW x \in Messages PROVE MessageKept(x)'
          BY <4>1, <4>2, <4>3, MessageStays
        <4>5. IngressKept'
          BY <4>1, <4>2, <4>4, RestKept DEF IngressKept, IngressTypes
        <4> QED
          BY <4>5 DEF IngressInv
      <3> QED
        BY <3>1, <3>2 DEF IngressInv
    <2> QED
      BY <2>1, <2>2, <2>3 DEF Next
  <1>3. IngressInv => InboundAccounted
    BY IngressSound DEF IngressInv, InboundAccounted
  <1> QED
    BY <1>1, <1>2, <1>3, PTL DEF Spec
=============================================================================
