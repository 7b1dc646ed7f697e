---------------------------- MODULE MCFrontDoor ----------------------------
(***************************************************************************)
(* What people and the platform meet, in one run: the channel's two sides,  *)
(* the way of a message in, admission, approvals and questions, the front   *)
(* desks made for chats and the messages between agents.  They share no     *)
(* state, so the run explores the union of their behaviours: focus says     *)
(* which one a behaviour is about, the others stay in their initial state.  *)
(***************************************************************************)
EXTENDS Integers, Sequences, FiniteSets

CONSTANTS m1, m2, m3, u1, u2, fd, wk, p1, p2, g1, g2, gn, i1, c1, c2, q1, q2, w1, w2

CONSTANTS Messages, Fanout, Engage, Accumulates, UserScoped, Mentions, Sender, NoUser,
          Refused, Command, Claimed, MaxTrouble, MaxReplays
CONSTANTS People, Groups, NewGroup, Orgs, Foreign, Slots, MaxMessages, MaxRegTrouble
CONSTANTS Installs, Credentials, MaxPackages, MaxCardClicks, MaxCardTrouble
CONSTANTS Questions, Users, Owner, MaxSends, MaxReplies, MaxAskTrouble
CONSTANTS Members, NoMember, Events, EventOf, Seats, Configs, MaxCopies, MaxOpen, MaxEventTrouble
CONSTANTS Jobs, Text, MemberPage, GroupPages, PageBudget, MaxTries, MaxApiTrouble
CONSTANTS Desks, Workers, Chats, Frontdesk, Child, MaxScripts, MaxTopologyTrouble
CONSTANTS MeshGroups, Companies, RootMode, EntryDesk, SpawnCap, MaxLanes, MaxMail, MaxAdmin

ASSUME IngressAssumption ==
  /\ Len(Fanout) \in Nat \ {0} /\ MaxTrouble \in Nat
  /\ \A i, j \in 1..Len(Fanout) : Fanout[i] = Fanout[j] => i = j
  /\ \A i \in 1..Len(Fanout) : Engage[Fanout[i]] \in {"always", "mention", "sticky"}

ASSUME ApprovalsAssumption ==
  /\ Installs \cap Credentials = {}
  /\ MaxPackages \in Nat /\ MaxCardClicks \in Nat /\ MaxCardTrouble \in Nat

ASSUME QuestionsAssumption == MaxSends \in Nat \ {0}

ASSUME MeshAssumption == EntryDesk \in MeshGroups /\ SpawnCap \in Nat /\ MaxLanes \in Nat

ASSUME EventsAssumption ==
  /\ NoMember \notin Members /\ MaxCopies \in Nat
  /\ \A e \in Events : /\ EventOf[e].from \in Members /\ EventOf[e].expected \in Members \cup {NoMember}
                       /\ EventOf[e].slot \in Seats

ASSUME SendsAssumption ==
  /\ MaxTries \in Nat /\ PageBudget \in Nat \ {0} /\ GroupPages \in Nat
  /\ \A j \in Jobs : /\ Text[j].kind \in {"chat", "question", "card", "edit", "react", "list"}
                     /\ Text[j].images \in Nat /\ Text[j].chunks \in Nat /\ Text[j].threaded \in BOOLEAN

ASSUME TopologyAssumption ==
  /\ Frontdesk \in Desks /\ "nochat" \notin Chats
  /\ \A c \in Chats : <<"clone", c>> \notin Desks \cup Workers \cup {Child}
  /\ MaxScripts \in Nat /\ MaxTopologyTrouble \in Nat

VARIABLES focus,
  seen, ledger, route, session, inbox, hostUp, trouble, replays,
  undurable, swallowed, unidentified, interrupted,
  mgRow, wired, members, orgMembers, pending, request, cards, flow, nameWait, toRoute,
  got, said, regUp, regTrouble, rowsMade, wirings, stuck, admitted, cutOff,
  content, viaTool, reqAt, approvalRow, onScreen, applying, applied, waiting, decision,
  expiring, staleList, sessionGone, apprUp, clicks, cardTrouble, hostRefused, made, trail,
  approvals, cutApplies,
  asker, sendAt, sends, pendingQ, shown, answers, cancelRun, canceller, replies, askTrouble,
  askUp, recorded, pruned, shownTwice, crossed, cutShort, cancelled,
  conf, life, transports, remembered, copies, requests, acked, grant, effects, answeredBy,
  wish, unserved, eventTrouble,
  cache, inflight, asking, part, stage, names, firstId, outcome, tries, display, cutCalls,
  page, member, apiTrouble,
  folders, roleOf, dests, config, prompts, wiredTo, open, denied, provision, script, scripts,
  topologyTrouble, owed, cut,
  lanes, mail, edges, orgOf, heard, admin

Ing == INSTANCE Ingress
Reg == INSTANCE Registration
App == INSTANCE Approvals
Que == INSTANCE Questions
Eve == INSTANCE FeishuEvents WITH Nobody <- NoMember
Sen == INSTANCE FeishuSends WITH Message <- Text
Top == INSTANCE Topology
Mes == INSTANCE AgentMesh WITH inbox <- mail, Groups <- MeshGroups, Orgs <- Companies,
                               Entry <- EntryDesk

\* A front desk that sticks to a conversation and keeps what it ignores, and a
\* worker with one session per user; one message mentions the bot, the other
\* comes from a sender the front desk refuses.
TwoMessages == {m1, m2}
DeskThenWorker == <<fd, wk>>
StickyDesk == [a \in {fd, wk} |-> IF a = fd THEN "sticky" ELSE "always"]
OnlyDesk == {fd}
OnlyWorker == {wk}
FirstMentions == {m1}
OneSender == [m \in {m1, m2} |-> u1]
SecondRefused == {<<m2, fd>>}
NoCommand == [m \in {m1, m2} |-> "pass"]
NoneClaimed == {}

\* Two strangers, a group in an organisation and one the approver may not use.
TwoPeople == {p1, p2}
TwoGroups == {g1, g2}
OrgGroup == {g1}
ForeignGroup == {g2}
TwoSlots == {1, 2}

\* One package request, two credential requests, two questions to one user
\* with another user in the chat.
OneInstall == {i1}
TwoCredentials == {c1, c2}
TwoQuestions == {q1, q2}
TwoUsers == {u1, u2}
FirstOwnsAll == [q \in {q1, q2} |-> u1]

\* p1 opts in and out in a direct chat; p2 clicks an invitation of their own in
\* chat c1, which is disbanded; somebody unnamed answers p1's card.  The host
\* has both transports, or the long connection alone.
FiveEvents == {"in", "out", "click", "answer", "disband"}
Event(what, from, chat, expected, identified, slot) ==
  [what |-> what, from |-> from, chat |-> chat, expected |-> expected,
   identified |-> identified, slot |-> slot]
WhatHappens == [e \in FiveEvents |->
  CASE e = "in"      -> Event("in", p1, NoMember, NoMember, TRUE, 1)
    [] e = "out"     -> Event("out", p1, NoMember, NoMember, TRUE, 1)
    [] e = "click"   -> Event("click_in", p2, c1, p2, TRUE, 2)
    [] e = "answer"  -> Event("answer", p2, c1, p1, FALSE, 2)
    [] e = "disband" -> Event("disbanded", p1, c1, NoMember, TRUE, 1)]
BothOrLong == {[mode |-> "hybrid", key |-> TRUE], [mode |-> "long-connection", key |-> FALSE]}

\* A threaded text of two chunks with two images, a question, and the removal
\* of a reaction; the last page the budget allows holds the participant.
ThreeJobs == {m1, m2, m3}
Job(kind, images, chunks, threaded) ==
  [kind |-> kind, images |-> images, chunks |-> chunks, threaded |-> threaded]
WhatToSend == [j \in {m1, m2, m3} |->
  CASE j = m1 -> Job("chat", 2, 2, TRUE)
    [] j = m2 -> Job("question", 0, 0, FALSE)
    [] j = m3 -> Job("list", 0, 0, FALSE)]

\* Two desks, one of them the configured front desk, a worker and a chat.
TwoDesks == {fd, g1}
OneWorker == {wk}
OneChat == {c1}

\* A front desk and two workers, one of which keeps a session per root.
MeshThree == {fd, w1, w2}
TwoCompanies == {g1, g2}
RootWorker == {w1}

ingVars == <<seen, ledger, route, session, inbox, hostUp, trouble, replays,
             undurable, swallowed, unidentified, interrupted>>
regVars == <<mgRow, wired, members, orgMembers, pending, request, cards, flow, nameWait,
             toRoute, got, said, regUp, regTrouble, rowsMade, wirings, stuck, admitted, cutOff>>
appVars == <<content, viaTool, reqAt, approvalRow, onScreen, applying, applied, waiting,
             decision, expiring, staleList, sessionGone, apprUp, clicks, cardTrouble,
             hostRefused, made, trail, approvals, cutApplies>>
queVars == <<asker, sendAt, sends, pendingQ, shown, answers, cancelRun, canceller, replies,
             askTrouble, askUp, recorded, pruned, shownTwice, crossed, cutShort, cancelled>>
eveVars == <<conf, life, transports, remembered, copies, requests, acked, grant, effects,
             answeredBy, wish, unserved, eventTrouble>>
senVars == <<cache, inflight, asking, part, stage, names, firstId, outcome, tries, display,
             cutCalls, page, member, apiTrouble>>
topVars == <<folders, roleOf, dests, config, prompts, wiredTo, open, denied, provision, script,
             scripts, topologyTrouble, owed, cut>>
mesVars == <<lanes, mail, edges, orgOf, heard, admin>>
vars == <<focus, ingVars, regVars, appVars, queVars, eveVars, senVars, topVars, mesVars>>

Init == /\ focus \in {"ingress", "registration", "approvals", "questions", "events", "sends",
                      "topology", "mesh"}
        /\ Ing!Init /\ Reg!Init /\ App!Init /\ Que!Init
        /\ Eve!Init /\ Sen!Init /\ Top!Init /\ Mes!Init
        /\ focus # "events" => conf.mode = "hybrid"
        /\ focus # "topology" => prompts = {} /\ open = {}

Next ==
  /\ UNCHANGED focus
  /\ \/ /\ focus = "ingress" /\ Ing!Next
        /\ UNCHANGED <<regVars, appVars, queVars, eveVars, senVars, topVars, mesVars>>
     \/ /\ focus = "registration" /\ Reg!Next
        /\ UNCHANGED <<ingVars, appVars, queVars, eveVars, senVars, topVars, mesVars>>
     \/ /\ focus = "approvals" /\ App!Next
        /\ UNCHANGED <<ingVars, regVars, queVars, eveVars, senVars, topVars, mesVars>>
     \/ /\ focus = "questions" /\ Que!Next
        /\ UNCHANGED <<ingVars, regVars, appVars, eveVars, senVars, topVars, mesVars>>
     \/ /\ focus = "events" /\ Eve!Next
        /\ UNCHANGED <<ingVars, regVars, appVars, queVars, senVars, topVars, mesVars>>
     \/ /\ focus = "sends" /\ Sen!Next
        /\ UNCHANGED <<ingVars, regVars, appVars, queVars, eveVars, topVars, mesVars>>
     \/ /\ focus = "topology" /\ Top!Next
        /\ UNCHANGED <<ingVars, regVars, appVars, queVars, eveVars, senVars, mesVars>>
     \/ /\ focus = "mesh" /\ Mes!Next
        /\ UNCHANGED <<ingVars, regVars, appVars, queVars, eveVars, senVars, topVars>>

Spec == Init /\ [][Next]_vars

\* A message the adapter took is in the inbox of every agent it was meant for
\* or in the ingress ledger; no copy without a replay (router.ts).
InboundAccounted == focus = "ingress" => Ing!InboundAccounted
\* A pending admission can be answered, is carried out once, and serves whom
\* it admitted (channel-approval.ts, sender-approval.ts).
AdmissionSound == focus = "registration" => Reg!AdmissionSound
\* Applied changes, answers to the credential gateway and the audit trail
\* agree (modules/approvals).
TrailHonest == focus = "approvals" => App!TrailHonest
\* A card audited as expired applies nothing, however late the click
\* (response-handler.ts).
ExpiredStaysDead == App!ExpiredStaysDead
\* An answer to a question reaches the agent, and a cancel word touches no
\* one else's question (modules/interactive).
AnswersArrive == focus = "questions" => Que!AnswersArrive
\* An event of the platform has its effect once over either transport, and
\* consent is what its giver last asked for (feishu.ts).
EventsHonoured == focus = "events" => Eve!EventsHonoured
\* A send that reports success showed all of the message, in one form each
\* (feishu.ts, deliver).
SendsHonest == focus = "sends" => Sen!SendsHonest
\* A front desk cloned for a chat can start, ask its workers and hear them
\* (enterprise-autowire.ts).
ClonesWork == focus = "topology" => Top!ClonesWork
\* Messages between agents never cross from one user's lane to another's
\* (agent-route.ts).
UsersApart == focus = "mesh" => Mes!UsersApart
=============================================================================
