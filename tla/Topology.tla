------------------------------ MODULE Topology ------------------------------
(***************************************************************************)
(* How agent groups and the edges between them come to be.  The operator's  *)
(* script makes frontdesks, workers and their edges; the host clones the    *)
(* frontdesk for a group chat it meets for the first time and wires it; an  *)
(* agent makes a child.  The script is a process of its own, and either     *)
(* process may end between two writes.                                      *)
(***************************************************************************)
EXTENDS Integers, FiniteSets

CONSTANTS
  Desks, Workers, Chats,
  Frontdesk,     \* the desk ENTERPRISE_FRONTDESK_FOLDER names
  Child,         \* the agent a create_agent call would make
  MaxScripts,    \* bound: runs of the script
  MaxTopologyTrouble

VARIABLES
  folders,       \* agent_groups, by folder
  roleOf,        \* their role
  dests,         \* agent_destinations: holder, local name, target
  config,        \* container.json: "none", "default" or "cloned"
  prompts,       \* groups with a prompts directory
  wiredTo,       \* messaging_group_agents: chat and group
  open,          \* chats whose unknown_sender_policy is public
  denied,        \* chats with denied_at
  provision,     \* the host provisions a clone: the chat, how far it is, the policy it
                 \* read, and whether it may change the policy
  script,        \* what the script has still to do
  scripts, topologyTrouble,
  owed,          \* history: the workers the frontdesk had when a clone was made
  cut            \* history: pairs of groups whose provisioning stopped half-way

hostState == <<provision, owed>>
scriptState == <<script, scripts>>
tables == <<folders, roleOf, dests, config, prompts>>
channel == <<wiredTo, open, denied>>
vars == <<tables, channel, hostState, scriptState, topologyTrouble, cut>>

CloneOf(c) == <<"clone", c>>
Clones == {CloneOf(c) : c \in Chats}
Folders == Desks \cup Workers \cup {Child} \cup Clones
NoChat == "nochat"
FrontdeskName == "frontdesk"
ParentName == "parent"
Idle == [chat |-> NoChat, at |-> "idle", was |-> FALSE, may |-> FALSE]
NoScript == [desk |-> Frontdesk, todo |-> {}, back |-> {}, at |-> "idle"]

TypeOK ==
  /\ folders \subseteq Folders
  /\ roleOf \in [Folders -> {"none", "frontdesk", "worker"}]
  /\ \A d \in dests : d.of \in folders /\ d.to \in folders
  /\ config \in [Folders -> {"none", "default", "cloned"}]
  /\ prompts \subseteq Folders
  /\ wiredTo \subseteq Chats \X Folders /\ open \subseteq Chats /\ denied \subseteq Chats
  /\ provision.at \in {"idle", "made", "prompts", "config", "edges"}
  /\ script.at \in {"idle", "groups", "edges"} /\ script.todo \cup script.back \subseteq Workers
  /\ scripts \in 0..MaxScripts /\ topologyTrouble \in 0..MaxTopologyTrouble

Init ==
  /\ folders = {} /\ dests = {} /\ prompts \in {{}, {Frontdesk}}
  /\ roleOf = [g \in Folders |-> "none"]
  /\ config = [g \in Folders |-> "none"]
  /\ wiredTo = {} /\ open \in {{}, Chats} /\ denied = {}
  /\ provision = Idle /\ script = NoScript /\ scripts = 0 /\ topologyTrouble = 0
  /\ owed = [g \in Folders |-> {}] /\ cut = {}

Trouble == topologyTrouble < MaxTopologyTrouble /\ topologyTrouble' = topologyTrouble + 1

----------------------------------------------------------------------------
(* Rows and files.                                                          *)

Dest(g, name, h) == [of |-> g, name |-> name, to |-> h]
getDestinationByName(g, name) == {d \in dests : d.of = g /\ d.name = name}
getDestinationByTarget(g, h) == {d \in dests : d.of = g /\ d.to = h}
getDestinations(g) == {d \in dests : d.of = g}
Delegates(g) == {d.to : d \in getDestinations(g)}

\* initGroupFilesystem and initContainerConfig: what is there stays.
initGroupFilesystem(g) == config' = [config EXCEPT ![g] = IF @ = "none" THEN "default" ELSE @]

createAgentGroup(g, role) ==
  /\ folders' = folders \cup {g}
  /\ roleOf' = [roleOf EXCEPT ![g] = role]

----------------------------------------------------------------------------
(* The script.                                                              *)

\* A run for one primary desk and some workers; the reserved name and folder
\* collisions end it before the first write.
ScriptArgs == [desk : Desks, todo : SUBSET Workers, back : {{}}, at : {"groups"}]

parseArgs(args) ==
  /\ script.at = "idle" /\ scripts < MaxScripts
  /\ script' = args /\ scripts' = scripts + 1
  /\ UNCHANGED <<tables, channel, hostState, topologyTrouble, cut>>

\* The desk and its workers, made or stamped with their role.
ensureAgentGroup ==
  LET made == {script.desk} \cup script.todo
  IN  /\ script.at = "groups"
      /\ folders' = folders \cup made
      /\ roleOf' = [g \in Folders |-> IF g = script.desk THEN "frontdesk"
                                      ELSE IF g \in script.todo THEN "worker" ELSE roleOf[g]]
      /\ config' = [g \in Folders |-> IF g \in made /\ config[g] = "none" THEN "default" ELSE config[g]]
      /\ script' = [script EXCEPT !.at = "edges"]
      /\ UNCHANGED <<dests, prompts, channel, hostState, scripts, topologyTrouble, cut>>

\* One edge, made or found; a name taken by another target throws.
ensureDestination(g, name, h, then) ==
  IF \E d \in getDestinationByName(g, name) : d.to # h
  THEN /\ script' = NoScript
       /\ cut' = cut \cup {{script.desk, w} : w \in script.todo \cup script.back}
       /\ UNCHANGED dests
  ELSE /\ dests' = dests \cup {Dest(g, name, h)}
       /\ script' = then
       /\ UNCHANGED cut

\* The edge to a worker, then the worker's edge back.
LinkWorker(w) ==
  /\ script.at = "edges" /\ w \in script.todo /\ script.back = {}
  /\ ensureDestination(script.desk, w, w, [script EXCEPT !.todo = @ \ {w}, !.back = {w}])
  /\ UNCHANGED <<folders, roleOf, config, prompts, channel, hostState, scripts, topologyTrouble>>

LinkBack(w) ==
  /\ script.at = "edges" /\ w \in script.back
  /\ ensureDestination(w, FrontdeskName, script.desk, [script EXCEPT !.back = {}])
  /\ UNCHANGED <<folders, roleOf, config, prompts, channel, hostState, scripts, topologyTrouble>>

\* The shared entry, when the operator names one: a chat wired to the desk with
\* the policy of the command line.
ensureSharedEntryWiring ==
  /\ script.at = "edges" /\ script.todo = {} /\ script.back = {}
  /\ \/ UNCHANGED <<wiredTo, open>>
     \/ \E c \in Chats : wiredTo' = wiredTo \cup {<<c, script.desk>>} /\ open' \in {open \cup {c}, open \ {c}}
  /\ script' = NoScript
  /\ UNCHANGED <<tables, denied, hostState, scripts, topologyTrouble, cut>>

ScriptEnds ==
  /\ script.at # "idle" /\ Trouble
  /\ script' = NoScript
  /\ cut' = cut \cup {{script.desk, w} : w \in script.todo \cup script.back}
  /\ UNCHANGED <<tables, channel, hostState, scripts>>

----------------------------------------------------------------------------
(* The host meets a chat.                                                   *)

\* The owner refused the channel.
Deny(c) ==
  /\ denied' = denied \cup {c}
  /\ UNCHANGED <<tables, wiredTo, open, hostState, scriptState, topologyTrouble, cut>>

\* Not denied, a frontdesk exists, and the policy is public or may be made so.
gatePassed(c, downgrade) == c \notin denied /\ Frontdesk \in folders /\ (c \in open \/ downgrade)

\* The wiring, and the policy when the one that was read is not public.
Wire(c, g, was, may) ==
  IF was \/ may
  THEN wiredTo' = wiredTo \cup {<<c, g>>} /\ open' = IF was THEN open ELSE open \cup {c}
  ELSE UNCHANGED <<wiredTo, open>>

\* A message in a chat no agent serves: the frontdesk itself, or the clone that
\* exists already, is wired at once.
maybeAutowireEnterpriseFrontdesk(c, isolated, downgrade) ==
  LET target == IF isolated THEN CloneOf(c) ELSE Frontdesk
  IN  /\ provision = Idle /\ {x \in wiredTo : x[1] = c} = {}
      /\ gatePassed(c, downgrade)
      /\ target \in folders
      /\ Wire(c, target, c \in open, downgrade)
      /\ UNCHANGED <<tables, denied, hostState, scriptState, topologyTrouble, cut>>

\* The first message of a chat under the per-group strategy: the row comes first.
resolveOrCreatePerGroupAgent(c, downgrade) ==
  /\ provision = Idle /\ {x \in wiredTo : x[1] = c} = {}
  /\ gatePassed(c, downgrade)
  /\ CloneOf(c) \notin folders
  /\ createAgentGroup(CloneOf(c), roleOf[Frontdesk])
  /\ initGroupFilesystem(CloneOf(c))
  /\ owed' = [owed EXCEPT ![CloneOf(c)] = Delegates(Frontdesk) \ {Frontdesk}]
  /\ provision' = [chat |-> c, at |-> "made", was |-> c \in open, may |-> downgrade]
  /\ UNCHANGED <<dests, prompts, channel, scriptState, topologyTrouble, cut>>

HasPrompts == Frontdesk \in prompts

\* The prompts, before the configuration that may need them; a copy that fails
\* leaves the defaults.
CopyPrompts ==
  /\ provision.at = "made"
  /\ \/ /\ prompts' = IF HasPrompts THEN prompts \cup {CloneOf(provision.chat)} ELSE prompts
        /\ provision' = [provision EXCEPT !.at = "prompts"]
        /\ UNCHANGED topologyTrouble
     \/ /\ Trouble
        /\ provision' = [provision EXCEPT !.at = "config"]
        /\ UNCHANGED prompts
  /\ UNCHANGED <<folders, roleOf, dests, config, channel, owed, scriptState, cut>>

CopyConfig ==
  /\ provision.at = "prompts"
  /\ config' = [config EXCEPT ![CloneOf(provision.chat)] = "cloned"]
  /\ provision' = [provision EXCEPT !.at = "config"]
  /\ UNCHANGED <<folders, roleOf, dests, prompts, channel, owed, scriptState, topologyTrouble, cut>>

Mirrored == {d \in getDestinations(Frontdesk) : d.to # Frontdesk}

\* Mutant: only the edges from the clone.
mirrorForward(g) == {Dest(g, d.name, d.to) : d \in Mirrored}

\* The frontdesk's edges under their names, and one back from every target.
mirror(g) == {Dest(g, d.name, d.to) : d \in Mirrored} \cup {Dest(d.to, g, g) : d \in Mirrored}

cloneFrontdeskDelegationEdges ==
  /\ provision.at = "config"
  /\ dests' = dests \cup mirror(CloneOf(provision.chat))
  /\ provision' = [provision EXCEPT !.at = "edges"]
  /\ UNCHANGED <<folders, roleOf, config, prompts, channel, owed, scriptState, topologyTrouble, cut>>

WireClone ==
  /\ provision.at = "edges"
  /\ Wire(provision.chat, CloneOf(provision.chat), provision.was, provision.may)
  /\ provision' = Idle
  /\ UNCHANGED <<tables, denied, owed, scriptState, topologyTrouble, cut>>

\* The host ends: a clone half made stays as it is, with any part of its edges.
HostEnds ==
  LET g == CloneOf(provision.chat)
  IN  /\ provision # Idle /\ Trouble
      /\ IF provision.at = "config"
         THEN \E some \in SUBSET mirror(g) : dests' = dests \cup some
         ELSE UNCHANGED dests
      /\ cut' = cut \cup {{g, h} : h \in Folders}
      /\ provision' = Idle
      /\ UNCHANGED <<folders, roleOf, config, prompts, channel, owed, scriptState>>

----------------------------------------------------------------------------
(* An agent makes another one.                                              *)

\* A name in use is refused; else the group, its files and an edge each way.
handleCreateAgent(g) ==
  /\ provision = Idle /\ g \in folders /\ Child \notin folders /\ g # Child
  /\ getDestinationByName(g, Child) = {}
  /\ createAgentGroup(Child, "worker") /\ initGroupFilesystem(Child)
  /\ \/ /\ dests' = dests \cup {Dest(g, Child, Child), Dest(Child, ParentName, g)}
        /\ UNCHANGED <<cut, topologyTrouble>>
     \/ /\ dests' \in {dests, dests \cup {Dest(g, Child, Child)}}
        /\ cut' = cut \cup {{g, Child}} /\ Trouble
  /\ UNCHANGED <<prompts, channel, hostState, scriptState>>

Next ==
  \/ \E args \in ScriptArgs : parseArgs(args)
  \/ ensureAgentGroup \/ ensureSharedEntryWiring \/ ScriptEnds
  \/ \E w \in Workers : LinkWorker(w) \/ LinkBack(w)
  \/ \E c \in Chats : Deny(c)
  \/ \E c \in Chats, isolated, downgrade \in BOOLEAN :
       \/ maybeAutowireEnterpriseFrontdesk(c, isolated, downgrade)
       \/ isolated /\ resolveOrCreatePerGroupAgent(c, downgrade)
  \/ CopyPrompts \/ CopyConfig \/ cloneFrontdeskDelegationEdges \/ WireClone \/ HostEnds
  \/ \E g \in Desks : handleCreateAgent(g)

Spec == Init /\ [][Next]_vars

----------------------------------------------------------------------------
(* Properties.                                                              *)

Linking == {{script.desk, w} : w \in script.back}

(* Whoever may be asked may answer: an edge has its way back, as the checks  *)
(* on a message know no exemption for replies.  Only a script or a host that *)
(* stopped between the two writes leaves an edge without it.                 *)
EdgesPaired ==
  \A d \in dests : {d.of, d.to} \in cut \cup Linking \/ getDestinationByTarget(d.to, d.of) # {}

(* A clone that serves a chat can ask every worker the frontdesk could ask   *)
(* when the clone was made, unless the host ended while making it: a clone   *)
(* that exists is used as it is, its edges are not looked at again.          *)
CloneDelegates ==
  \A c \in Chats : <<c, CloneOf(c)>> \in wiredTo =>
    \A w \in owed[CloneOf(c)] : w \in Delegates(CloneOf(c)) \/ {CloneOf(c), w} \in cut

(* A clone never has the frontdesk's configuration without the prompts it    *)
(* refers to, wherever the host ended or a copy failed: such a clone could   *)
(* not be started.                                                           *)
CloneBoots == \A g \in Clones : config[g] = "cloned" /\ HasPrompts => g \in prompts

(* A chat whose wiring is refused gets no clone: every clone is wired, is    *)
(* being made, or was left by a host that ended.                             *)
NoOrphanClone ==
  \A c \in Chats : CloneOf(c) \in folders =>
    \/ <<c, CloneOf(c)>> \in wiredTo
    \/ provision.chat = c
    \/ \E pair \in cut : CloneOf(c) \in pair

\* A chat's own front desk can start, can ask its workers and hear them, and
\* exists only where it may.
ClonesWork ==
  /\ TypeOK
  /\ EdgesPaired
  /\ CloneDelegates
  /\ CloneBoots
  /\ NoOrphanClone
=============================================================================
