---------------------------- MODULE Registration ----------------------------
(***************************************************************************)
(* How a chat gets wired to an agent and how an unknown sender becomes a    *)
(* member: the unwired branch of routeInboundInner, the access gate, the    *)
(* two approval requests with their pending tables, the answers to their    *)
(* cards, and the free-text name of a new agent.                            *)
(*                                                                         *)
(* One chat.  A request checks for a pending row, awaits the direct message *)
(* channel of an approver, inserts its row and awaits the delivery of the   *)
(* card; several requests, clicks and messages interleave at the awaits.    *)
(* Clicks of people who are neither the approver nor an admin change        *)
(* nothing and are left out.                                                *)
(***************************************************************************)
EXTENDS Integers, FiniteSets

CONSTANTS
  People,        \* senders, strangers at first
  Groups,        \* existing agent groups
  NewGroup,      \* the agent group the name prompt creates
  Orgs,          \* groups that belong to the organisation
  Foreign,       \* groups the approver may not access
  Slots,         \* bound: approval requests in progress at a time
  MaxMessages,   \* bound: messages of one sender
  MaxRegTrouble  \* bound: failures, crashes and expired cards

VARIABLES
  mgRow,       \* messaging_groups: "none", "open", "denied"
  wired,       \* messaging_group_agents
  members,     \* agent_group_members
  orgMembers,  \* organization_members
  pending,     \* pending_channel_approvals and pending_sender_approvals
  request,     \* the approval requests in progress
  cards,       \* cards that can be clicked
  flow,        \* clicks on "new agent" that await the approver's DM channel
  nameWait,    \* awaitingNameInput
  toRoute,     \* events handed to routeInbound again
  got,         \* <<sender, group>> whose session got a message
  said,        \* messages of each sender so far
  regUp, regTrouble,
  rowsMade,    \* rows inserted so far; the last one is the newest id
  wirings,     \* history: the rows that led to a wiring
  stuck,       \* history: rows whose card expired, was cut off or never sent
  admitted,    \* history: <<sender, group>> an approver let in
  cutOff       \* history: <<sender, group>> let in when the host ended before the event was routed

tables == <<mgRow, wired, members, orgMembers>>
histories == <<wirings, stuck, admitted, cutOff>>
vars == <<tables, pending, request, cards, flow, nameWait, toRoute, got, said, regUp,
          regTrouble, rowsMade, histories>>

AllGroups == Groups \cup {NewGroup}
Chat      == "chat"
Keys      == People \cup {Chat}
Row       == [id : Nat, key : Keys, from : People, group : AllGroups]
IdleReq   == [at |-> "idle", key |-> Chat, from |-> Chat, group |-> NewGroup, id |-> 0]

TypeOK ==
  /\ mgRow \in {"none", "open", "denied"}
  /\ wired \subseteq AllGroups
  /\ members \subseteq People \X AllGroups
  /\ orgMembers \subseteq People
  /\ pending \subseteq Row
  /\ request \in [Slots -> [at : {"idle", "dm", "card"}, key : Keys, from : Keys,
                            group : AllGroups, id : Nat]]
  /\ cards \subseteq (1..rowsMade) \X Keys
  /\ flow \in BOOLEAN /\ nameWait \in BOOLEAN /\ regUp \in BOOLEAN
  /\ toRoute \subseteq People
  /\ got \cup admitted \cup cutOff \subseteq People \X AllGroups

Init ==
  /\ mgRow = "none" /\ wired = {} /\ members = {} /\ orgMembers = {}
  /\ pending = {} /\ cards = {} /\ toRoute = {} /\ got = {}
  /\ request = [r \in Slots |-> IdleReq]
  /\ flow = FALSE /\ nameWait = FALSE /\ regUp = TRUE
  /\ said = [p \in People |-> 0]
  /\ regTrouble = 0 /\ rowsMade = 0
  /\ wirings = {} /\ stuck = {} /\ admitted = {} /\ cutOff = {}

Trouble == regTrouble < MaxRegTrouble /\ regTrouble' = regTrouble + 1

----------------------------------------------------------------------------
(* Routing one message of a sender.                                         *)

\* The pending tables have one row per chat and one per chat and sender.
HasPending(k) == \E row \in pending : row.key = k

\* Membership in the group, and in the organisation the group belongs to.
canAccessAgentGroup(p, g) == <<p, g>> \in members /\ (g \in Orgs => p \in orgMembers)

Start(r, k, p, g) == [request EXCEPT ![r] = [at |-> "dm", key |-> k, from |-> p,
                                             group |-> g, id |-> 0]]
Free(r) == request[r].at = "idle"

\* routeInboundInner for a mention of sender p: make the chat's row, ask for
\* the wiring of an unwired chat that was not denied, or else hand the message
\* to every wired agent whose gate lets p in and ask for the others.  Both
\* requests are started without being awaited.
Route(p) ==
  LET open == {g \in wired : canAccessAgentGroup(p, g)}
      shut == wired \ open
  IN /\ mgRow' = IF mgRow = "none" THEN "open" ELSE mgRow
     /\ got' = got \cup {<<p, g>> : g \in open}
     /\ \/ /\ wired = {} /\ mgRow # "denied" /\ ~HasPending(Chat)
           /\ \E r \in Slots : Free(r) /\ request' = Start(r, Chat, p, NewGroup)
        \/ /\ shut # {} /\ ~HasPending(p)
           /\ \E r \in Slots, g \in shut : Free(r) /\ request' = Start(r, p, p, g)
        \/ /\ IF wired = {} THEN mgRow = "denied" \/ HasPending(Chat)
                            ELSE shut = {} \/ HasPending(p)
           /\ UNCHANGED request

Message(p) ==
  /\ regUp /\ said[p] < MaxMessages
  /\ said' = [said EXCEPT ![p] = @ + 1]
  /\ Route(p)
  /\ UNCHANGED <<wired, members, orgMembers, pending, cards, flow, nameWait, toRoute, regUp,
                 regTrouble, rowsMade, histories>>

\* An approved event goes through routeInbound again.
RouteAgain(p) ==
  /\ regUp /\ p \in toRoute
  /\ toRoute' = toRoute \ {p}
  /\ Route(p)
  /\ UNCHANGED <<wired, members, orgMembers, pending, cards, flow, nameWait, said, regUp,
                 regTrouble, rowsMade, histories>>

----------------------------------------------------------------------------
(* requestChannelApproval and requestSenderApproval.                        *)

Retire(r) == [request EXCEPT ![r] = IdleReq]

\* The approver's DM channel is known: insert the row, then hand the card to
\* the adapter.  The insert of a second row for the same key throws.  Without
\* an adapter the request ends here and the row stays.
DmKnown(r) ==
  LET q == request[r]
      n == rowsMade + 1
      row == [id |-> n, key |-> q.key, from |-> q.from, group |-> q.group]
  IN /\ regUp /\ q.at = "dm"
     /\ \/ /\ HasPending(q.key)
           /\ request' = Retire(r)
           /\ UNCHANGED <<pending, rowsMade, stuck, regTrouble>>
        \/ /\ ~HasPending(q.key)
           /\ pending' = pending \cup {row}
           /\ rowsMade' = n
           /\ \/ /\ request' = [request EXCEPT ![r] = [q EXCEPT !.at = "card", !.id = n]]
                 /\ UNCHANGED <<stuck, regTrouble>>
              \/ /\ Trouble
                 /\ request' = Retire(r)
                 /\ stuck' = stuck \cup {n}
     /\ UNCHANGED <<tables, cards, flow, nameWait, toRoute, got, said, regUp, wirings,
                    admitted, cutOff>>

\* No approver, or none with a reachable DM channel: nothing was written.
DmMissing(r) ==
  /\ regUp /\ request[r].at = "dm" /\ Trouble
  /\ request' = Retire(r)
  /\ UNCHANGED <<tables, pending, cards, flow, nameWait, toRoute, got, said, regUp, rowsMade,
                 histories>>

Shown(n)  == \E c \in cards : c[1] = n
Unseen(n) == ~Shown(n) /\ n \notin stuck

\* The card is shown, and can be clicked, before the call returns.
CardShown(r) ==
  /\ regUp /\ request[r].at = "card" /\ Unseen(request[r].id)
  /\ cards' = cards \cup {<<request[r].id, request[r].key>>}
  /\ UNCHANGED <<tables, pending, request, flow, nameWait, toRoute, got, said, regUp,
                 regTrouble, rowsMade, histories>>

CardReturns(r) ==
  /\ regUp /\ request[r].at = "card" /\ ~Unseen(request[r].id)
  /\ request' = Retire(r)
  /\ UNCHANGED <<tables, pending, cards, flow, nameWait, toRoute, got, said, regUp,
                 regTrouble, rowsMade, histories>>

\* The row an error of deliver removes: the request's own row for a sender,
\* whatever row the chat has for a channel.
RowsCleared(q) == {row \in pending : IF q.key = Chat THEN row.key = Chat ELSE row.id = q.id}

\* deliver threw, also for a card that is on the approver's screen.
CardFails(r) ==
  /\ regUp /\ request[r].at = "card" /\ Trouble
  /\ pending' = pending \ RowsCleared(request[r])
  /\ request' = Retire(r)
  /\ UNCHANGED <<tables, cards, flow, nameWait, toRoute, got, said, regUp, rowsMade, histories>>

\* A card of the Feishu adapter can be answered for five minutes.
CardExpires(c) ==
  /\ c \in cards /\ Trouble
  /\ cards' = cards \ {c}
  /\ stuck' = stuck \cup {c[1]}
  /\ UNCHANGED <<tables, pending, request, flow, nameWait, toRoute, got, said, regUp,
                 rowsMade, wirings, admitted, cutOff>>

----------------------------------------------------------------------------
(* The answers.  A click on a card whose row is gone is claimed by nobody.  *)

\* The channel card carries the chat's id, a sender card its own row's id.
Answers(c, row) == c \in cards /\ row \in pending /\ c[2] = row.key
                   /\ (row.key # Chat => row.id = c[1])

addMember(p, g)    == members' = members \cup {<<p, g>>}
addOrgMember(p, g) == orgMembers' = IF g \in Orgs THEN orgMembers \cup {p} ELSE orgMembers

\* addMember, addOrgMember, delete the row, then route the stored event.
ApproveSender(c, row) ==
  /\ regUp /\ Answers(c, row) /\ row.key # Chat
  /\ addMember(row.from, row.group) /\ addOrgMember(row.from, row.group)
  /\ pending' = pending \ {row}
  /\ toRoute' = toRoute \cup {row.from}
  /\ admitted' = admitted \cup {<<row.from, row.group>>}
  /\ UNCHANGED <<mgRow, wired, request, cards, flow, nameWait, got, said, regUp, regTrouble,
                 rowsMade, wirings, stuck, cutOff>>

DenySender(c, row) ==
  /\ regUp /\ Answers(c, row) /\ row.key # Chat
  /\ pending' = pending \ {row}
  /\ UNCHANGED <<tables, request, cards, flow, nameWait, toRoute, got, said, regUp,
                 regTrouble, rowsMade, histories>>

Reject(c, row) ==
  /\ regUp /\ Answers(c, row) /\ row.key = Chat
  /\ mgRow' = "denied"
  /\ pending' = pending \ {row}
  /\ UNCHANGED <<wired, members, orgMembers, request, cards, flow, nameWait, toRoute, got,
                 said, regUp, regTrouble, rowsMade, histories>>

\* Mutant: the answered row stays.
WireKeepingRow(g, row) ==
  /\ g \notin wired
  /\ wired' = wired \cup {g}
  /\ addMember(row.from, g) /\ addOrgMember(row.from, g)
  /\ toRoute' = toRoute \cup {row.from}
  /\ admitted' = admitted \cup {<<row.from, g>>}
  /\ wirings' = wirings \cup {<<row.id, g>>}
  /\ UNCHANGED pending

\* Wire group g: the wiring, the sender's membership, the row, the event.  A
\* wiring that exists already throws on its unique key and leaves the row.
Wire(g, row) ==
  /\ g \notin wired
  /\ wired' = wired \cup {g}
  /\ addMember(row.from, g) /\ addOrgMember(row.from, g)
  /\ pending' = pending \ {row}
  /\ toRoute' = toRoute \cup {row.from}
  /\ admitted' = admitted \cup {<<row.from, g>>}
  /\ wirings' = wirings \cup {<<row.id, g>>}

Connect(c, row, g) ==
  /\ regUp /\ Answers(c, row) /\ row.key = Chat
  /\ IF g \in Foreign
     THEN /\ pending' = pending \ {row}
          /\ UNCHANGED <<wired, members, orgMembers, toRoute, admitted, wirings>>
     ELSE Wire(g, row)
  /\ UNCHANGED <<mgRow, request, cards, flow, nameWait, got, said, regUp, regTrouble, rowsMade,
                 stuck, cutOff>>

\* "Connect new agent": the DM channel is awaited, then the name is.
ClickNewAgent(c, row) ==
  /\ regUp /\ Answers(c, row) /\ row.key = Chat /\ ~flow
  /\ flow' = TRUE
  /\ UNCHANGED <<tables, pending, request, cards, nameWait, toRoute, got, said, regUp,
                 regTrouble, rowsMade, histories>>

PromptForName ==
  /\ regUp /\ flow
  /\ flow' = FALSE
  /\ \/ nameWait' = TRUE /\ UNCHANGED regTrouble
     \/ nameWait' = FALSE /\ Trouble
  /\ UNCHANGED <<tables, pending, request, cards, toRoute, got, said, regUp, rowsMade, histories>>

\* The interceptor takes the approver's next message as the name; the row may
\* be gone by then.
NameReply ==
  /\ regUp /\ nameWait
  /\ nameWait' = FALSE
  /\ \/ /\ \E row \in pending : row.key = Chat /\ Wire(NewGroup, row)
        /\ UNCHANGED mgRow
     \/ /\ ~HasPending(Chat) \/ NewGroup \in wired
        /\ UNCHANGED <<tables, pending, toRoute, admitted, wirings>>
  /\ UNCHANGED <<request, cards, flow, got, said, regUp, regTrouble, rowsMade, stuck,
                 cutOff>>

\* The host ends: requests, prompts and the name wait are memory.  Events to
\* route again are in the ingress ledger, for the operator.
HostCrash ==
  /\ regUp /\ Trouble
  /\ regUp' = FALSE
  /\ request' = [r \in Slots |-> IdleReq]
  /\ stuck' = stuck \cup {request[r].id : r \in {x \in Slots : request[x].at = "card"
                                                               /\ Unseen(request[x].id)}}
  /\ flow' = FALSE /\ nameWait' = FALSE
  /\ toRoute' = {}
  /\ cutOff' = cutOff \cup {x \in admitted : x[1] \in toRoute}
  /\ UNCHANGED <<tables, pending, cards, got, said, rowsMade, wirings, admitted>>

HostStarts ==
  /\ ~regUp
  /\ regUp' = TRUE
  /\ UNCHANGED <<tables, pending, request, cards, flow, nameWait, toRoute, got, said,
                 regTrouble, rowsMade, histories>>

RequestStep(r) == DmKnown(r) \/ DmMissing(r) \/ CardShown(r) \/ CardReturns(r) \/ CardFails(r)

Click(c, row) ==
  \/ ApproveSender(c, row) \/ DenySender(c, row) \/ Reject(c, row) \/ ClickNewAgent(c, row)
  \/ \E g \in Groups : Connect(c, row, g)

Next ==
  \/ \E p \in People : Message(p) \/ RouteAgain(p)
  \/ \E r \in Slots : RequestStep(r)
  \/ \E c \in cards : CardExpires(c) \/ \E row \in pending : Click(c, row)
  \/ PromptForName \/ NameReply \/ HostCrash \/ HostStarts

Spec == Init /\ [][Next]_vars

----------------------------------------------------------------------------
(* Properties.                                                              *)

\* A pending row, which makes every later request for the same chat or
\* sender return at once, has a card that can be answered or a request that
\* still brings one; it has none only after one of the recorded mishaps (the
\* host ended or had no adapter before the card was out, or the card expired).
PendingAnswerable ==
  \A row \in pending :
    \/ Shown(row.id) \/ row.id \in stuck
    \/ \E r \in Slots : request[r].at = "card" /\ request[r].id = row.id

\* One answered channel card wires the chat at most once, however the clicks,
\* the name prompt and a second request interleave.
OneWiringPerRow == \A x, y \in wirings : x[1] = y[1] => x = y

\* A sender an approver let in gets through: the stored event is routed again
\* after the row is gone, and the gate then finds the membership of the group
\* and of its organisation, unless the host ended in between.
AdmittedIsServed ==
  \A x \in admitted : x[1] \in toRoute \/ x \in got \cup cutOff

\* A request for admission stays answerable, is carried out once, and serves
\* whom it admitted.
AdmissionSound ==
  /\ TypeOK
  /\ PendingAnswerable
  /\ OneWiringPerRow
  /\ AdmittedIsServed
=============================================================================
