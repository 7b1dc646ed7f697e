----------------------------- MODULE AgentMesh -----------------------------
(***************************************************************************)
(* Messages between agents.  A container writes an outbound row with a      *)
(* target group, the row it answers and the user it says it works for;      *)
(* none of the three is trusted.  The host checks the edge, the             *)
(* organizations and the depth, picks the session of the target that gets   *)
(* the row and stamps the origin user it can vouch for.                     *)
(***************************************************************************)
EXTENDS Integers, Sequences, FiniteSetsExt

CONSTANTS
  Groups, Users, Orgs,
  RootMode,     \* groups whose a2aSessionMode is root-session
  Entry,        \* the group the channel is wired to
  SpawnCap,     \* AGENTDESK_MAX_SPAWN_DEPTH
  MaxLanes,     \* bound: sessions
  MaxMail,      \* bound: rows in all inboxes
  MaxAdmin      \* bound: edges removed and groups given to an organization

VARIABLES
  lanes,        \* the sessions table, in the order of creation
  inbox,        \* messages_in of a session, in the order of seq
  edges,        \* agent_destinations
  orgOf,        \* agent_groups.organization_id
  heard,        \* history: users whose words can have led to what a session says
  admin

vars == <<lanes, inbox, edges, orgOf, heard, admin>>

Nobody == "nobody"
NoOrg  == "unassigned"
None   == 0

Lanes == 1..Len(lanes)
Row(kind, who, from) == [kind |-> kind, who |-> who, from |-> from]
Rows == [kind : {"chat", "agent", "system"}, who : Users \cup {Nobody}, from : 0..MaxLanes]
Mail == MapThenSumSet(LAMBDA s : Len(inbox[s]), 1..MaxLanes)

TypeOK ==
  /\ Len(lanes) <= MaxLanes
  /\ \A s \in Lanes :
       /\ lanes[s].group \in Groups /\ lanes[s].owner \in Users \cup {Nobody}
       /\ lanes[s].root \in Lanes /\ lanes[s].depth \in 0..SpawnCap
       /\ lanes[s].channel \in BOOLEAN /\ lanes[s].active \in BOOLEAN
  /\ DOMAIN inbox = 1..MaxLanes
  /\ \A s \in 1..MaxLanes : \A i \in 1..Len(inbox[s]) : inbox[s][i] \in Rows
  /\ edges \subseteq Groups \X Groups
  /\ orgOf \in [Groups -> Orgs \cup {NoOrg}]
  /\ heard \in [1..MaxLanes -> SUBSET Users]

Init ==
  /\ lanes = <<>>
  /\ inbox = [s \in 1..MaxLanes |-> <<>>]
  /\ edges = {e \in Groups \X Groups : e[1] # e[2]}
  /\ orgOf = [g \in Groups |-> NoOrg]
  /\ heard = [s \in 1..MaxLanes |-> {}]
  /\ admin = 0

----------------------------------------------------------------------------
(* Finding and making sessions.                                             *)

Active(g) == {s \in Lanes : lanes[s].group = g /\ lanes[s].active}
Newest(S) == IF S = {} THEN None ELSE CHOOSE s \in S : \A t \in S : t <= s

findSessionByAgentGroup(g) == Newest(Active(g))

\* Mutant: the newest lane of the group, whoever owns it.
findNewestAnyForAgent(g, u) == Newest(Active(g))

findNewestOwnedSessionForAgent(g, u) == Newest({s \in Active(g) : lanes[s].owner = u})
findNewestOwnerlessSessionForAgent(g) == Newest({s \in Active(g) : lanes[s].owner = Nobody})
findSessionForAgentRoot(g, r) == Newest({s \in Active(g) : lanes[s].root = r})
findSessionForAgent(g, u) == Newest({s \in Active(g) : lanes[s].channel /\ lanes[s].owner = u})

\* A session that has to be made: its place in the table is the next one.
Fresh == Len(lanes) + 1
NewLane(g, owner, root, depth, channel) ==
  [group |-> g, owner |-> owner, root |-> root, depth |-> depth, channel |-> channel, active |-> TRUE]

\* The answer of a resolver: a lane, and the row to append when it is new.
Found(s) == [lane |-> s, made |-> <<>>]
Made(row) == [lane |-> Fresh, made |-> <<row>>]
FoundOr(s, row) == IF s = None THEN Made(row) ELSE Found(s)

\* resolveSession as agent-route calls it: keyed by the root when one is given,
\* else one session for the group.
resolveByRoot(g, owner, root, depth) ==
  FoundOr(findSessionForAgentRoot(g, root), NewLane(g, owner, root, depth + 1, FALSE))

resolveShared(g, depth) ==
  FoundOr(findSessionByAgentGroup(g), NewLane(g, Nobody, Fresh, depth + 1, FALSE))

Append1(s, row) == [inbox EXCEPT ![s] = Append(@, row)]

\* A person writes to the entry group, in a direct message or in a group wired
\* per-user, or in a group wired as shared.
ChannelMessage(u, perUser) ==
  LET owner == IF perUser THEN u ELSE Nobody
      to == FoundOr(findSessionForAgent(Entry, owner), NewLane(Entry, owner, Fresh, 0, TRUE))
  IN  /\ Mail < MaxMail /\ to.lane <= MaxLanes
      /\ lanes' = lanes \o to.made
      /\ inbox' = Append1(to.lane, Row("chat", u, None))
      /\ heard' = [heard EXCEPT ![to.lane] = @ \cup {u}]
      /\ UNCHANGED <<edges, orgOf, admin>>

\* The host tells the agent something: a row of sender "system".
notifyAgent(s) ==
  /\ Mail < MaxMail /\ lanes[s].active
  /\ inbox' = Append1(s, Row("system", Nobody, None))
  /\ UNCHANGED <<lanes, edges, orgOf, heard, admin>>

----------------------------------------------------------------------------
(* Routing.                                                                 *)

\* Neither side of a boundary without an organization is a boundary.
SameTenant(g, h) == orgOf[g] = NoOrg \/ orgOf[h] = NoOrg \/ orgOf[g] = orgOf[h]

withinDepth(s) == lanes[s].depth < SpawnCap

hasDestination(g, h) == <<g, h>> \in edges

\* The checks of routeAgentMessage; a failed one throws and the delivery retries.
Accepts(s, g) ==
  \/ g = lanes[s].group
  \/ /\ hasDestination(lanes[s].group, g)
     /\ SameTenant(lanes[s].group, g)
     /\ withinDepth(s)

getInboundSourceSessionId(s, i) == IF i = 0 THEN None ELSE inbox[s][i].from

getMostRecentPeerSourceSessionId(s, g) ==
  LET rows == {i \in 1..Len(inbox[s]) : inbox[s][i].from # None /\ lanes[inbox[s][i].from].group = g}
  IN  IF rows = {} THEN None ELSE inbox[s][Newest(rows)].from

\* Two owners that are both known and differ: the anchor is not honoured.
sameUser(s, t) ==
  lanes[s].owner = Nobody \/ lanes[t].owner = Nobody \/ lanes[s].owner = lanes[t].owner

anchored(s, g, i) ==
  LET direct == getInboundSourceSessionId(s, i)
      t == IF direct # None THEN direct ELSE getMostRecentPeerSourceSessionId(s, g)
  IN  IF t # None /\ lanes[t].group = g /\ lanes[t].active /\ sameUser(s, t) THEN t ELSE None

resolveTargetSession(s, g, i) ==
  LET me == lanes[s]
      byAnchor == anchored(s, g, i)
      own == findNewestOwnedSessionForAgent(g, me.owner)
      shared == findNewestOwnerlessSessionForAgent(g)
  IN  CASE byAnchor # None      -> Found(byAnchor)
        [] byAnchor = None /\ g \in RootMode -> resolveByRoot(g, me.owner, me.root, me.depth)
        [] byAnchor = None /\ g \notin RootMode /\ me.owner # Nobody ->
             IF own # None THEN Found(own)
             ELSE IF shared # None THEN Found(shared)
             ELSE resolveByRoot(g, me.owner, me.root, me.depth)
        [] OTHER                -> resolveShared(g, me.depth)

\* Only chat rows name a user: the column the host wrote on a row from an
\* agent, the sender of a row from the channel.
namespacedOriginOf(row) == row.who
collectLegitimateOrigins(s) == {namespacedOriginOf(inbox[s][i]) : i \in 1..Len(inbox[s])} \ {Nobody}
resolveOriginUserId(s) ==
  IF inbox[s] = <<>> THEN Nobody ELSE namespacedOriginOf(inbox[s][Len(inbox[s])])

\* The claim when the user really appeared in the source session, else the
\* newest chat row, else the owner.
originOf(s, claimed) ==
  LET newest == resolveOriginUserId(s)
  IN  CASE claimed # Nobody /\ claimed \in collectLegitimateOrigins(s) -> claimed
        [] ~(claimed # Nobody /\ claimed \in collectLegitimateOrigins(s)) /\ newest # Nobody -> newest
        [] OTHER -> lanes[s].owner

\* The host routes one outbound row of session s to group g: the anchor i and
\* the claim are whatever the container wrote.
routeAgentMessage(s, g, i, claimed) ==
  LET to == resolveTargetSession(s, g, i)
  IN  /\ Mail < MaxMail /\ lanes[s].active
      /\ Accepts(s, g)
      /\ to.lane <= MaxLanes
      /\ lanes' = lanes \o to.made
      /\ inbox' = Append1(to.lane, Row("agent", originOf(s, claimed), s))
      /\ heard' = [heard EXCEPT ![to.lane] = @ \cup heard[s]]
      /\ UNCHANGED <<edges, orgOf, admin>>

----------------------------------------------------------------------------
(* What operators and the sweep do meanwhile.                               *)

Administer == admin < MaxAdmin /\ admin' = admin + 1

assignAgentGroupToOrg(g, o) ==
  /\ Administer
  /\ orgOf' = [orgOf EXCEPT ![g] = o]
  /\ UNCHANGED <<lanes, inbox, edges, heard>>

deleteDestination(g, h) ==
  /\ Administer /\ <<g, h>> \in edges
  /\ edges' = edges \ {<<g, h>>}
  /\ UNCHANGED <<lanes, inbox, orgOf, heard>>

createDestination(g, h) ==
  /\ Administer /\ g # h /\ <<g, h>> \notin edges
  /\ SameTenant(g, h)
  /\ edges' = edges \cup {<<g, h>>}
  /\ UNCHANGED <<lanes, inbox, orgOf, heard>>

Archive(s) ==
  /\ Administer /\ lanes[s].active
  /\ lanes' = [lanes EXCEPT ![s].active = FALSE]
  /\ UNCHANGED <<inbox, edges, orgOf, heard>>

Next ==
  \/ \E u \in Users, perUser \in BOOLEAN : ChannelMessage(u, perUser)
  \/ \E s \in Lanes : notifyAgent(s)
  \/ \E s \in Lanes : \E g \in Groups, i \in 0..Len(inbox[s]), claimed \in Users \cup {Nobody} :
       routeAgentMessage(s, g, i, claimed)
  \/ \E g \in Groups, o \in Orgs : assignAgentGroupToOrg(g, o)
  \/ \E g, h \in Groups : deleteDestination(g, h)
  \/ \E g, h \in Groups : createDestination(g, h)
  \/ \E s \in Lanes : Archive(s)

Spec == Init /\ [][Next]_vars

----------------------------------------------------------------------------
(* Properties.                                                              *)

(* What a session with an owner says never reaches the lane of another       *)
(* owner, whatever row its container answers and whoever else uses the       *)
(* target (agent-route.ts, the owner check on the anchor and the owner-aware *)
(* fall-through).                                                            *)
OwnLanes ==
  \A s \in Lanes : \A i \in 1..Len(inbox[s]) :
    LET from == inbox[s][i].from
    IN  (from # None /\ lanes[s].owner # Nobody /\ lanes[from].owner # Nobody)
          => lanes[s].owner = lanes[from].owner

(* The origin user on a row is somebody whose own words came down the chain  *)
(* of messages that led to it, whatever the containers on the way claimed:   *)
(* the claim is honoured only when the source session has seen the user.     *)
OriginsSpoke ==
  \A s \in Lanes : \A i \in 1..Len(inbox[s]) :
    inbox[s][i].who # Nobody => inbox[s][i].who \in heard[s]

(* All lanes of one root belong to one user, so a lane found by its root is  *)
(* the user's own: a root-session target keeps the users of a shared entry   *)
(* group apart (resolveSession finds it by group and root only).             *)
RootMeansOwner ==
  \A s, t \in Lanes : lanes[s].root = lanes[t].root => lanes[s].owner = lanes[t].owner

\* Messages between agents keep the users of shared agents apart: lanes, origins
\* and roots belong to one user each.
UsersApart ==
  /\ TypeOK
  /\ OwnLanes
  /\ OriginsSpoke
  /\ RootMeansOwner
=============================================================================
