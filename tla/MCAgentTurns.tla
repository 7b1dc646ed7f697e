---------------------------- MODULE MCAgentTurns ----------------------------
(***************************************************************************)
(* From the start of a container to the end of a turn, in one run: what a   *)
(* spawn mounts into the container, how the routing phase disposes of a     *)
(* turn, and how the provider keeps the conversation.  They share no state, *)
(* so the run explores the union of their behaviours: focus says which one  *)
(* a behaviour is about, the others stay in their initial state.            *)
(***************************************************************************)
EXTENDS Integers, Sequences, FiniteSets, TLC

CONSTANTS p1, p2, p3, b1, b2

CONSTANTS Prompts, MaxResponses, MaxTurnTrouble
CONSTANTS Turns, Routed, Places, OriginOf, Staff, ToolActions, RetryTimes, MaxOutRows, MaxLag,
          MaxRouteTrouble
CONSTANTS Boxes, Settings, Dormant, Skills, LeanSkills, OwnSkills, Requests, MaxEdits, MaxSpawns,
          MaxSpawnTrouble

ASSUME ProviderAssumption ==
  /\ Prompts \cap {"none", "summary", "reminder"} = {}
  /\ MaxResponses \in Nat /\ MaxTurnTrouble \in Nat

ASSUME RoutedAssumption ==
  /\ Routed \subseteq Turns /\ "noturn" \notin Turns /\ OriginOf \in [Turns -> Places]
  /\ Places \cap Staff = {}
  /\ RetryTimes \in Nat /\ MaxOutRows \in Nat /\ MaxRouteTrouble \in Nat

ASSUME SpawnAssumption ==
  /\ Boxes \cap {"free", "update", "image"} = {} /\ LeanSkills \subseteq Skills
  /\ MaxEdits \in Nat /\ MaxSpawns \in Nat /\ MaxSpawnTrouble \in Nat

VARIABLES focus,
  memory, stored, cont, reported, turn, slot, abortTurn, first, batch, claimed, toolList, server,
  turnTrouble, acked, seen, talkedOver, apologised, told, toldBefore, trimmed, stale,
  progress, phase, gate, childId, staffed, outRows, taken, logged, issued, routeTrouble, cutAfter,
  file, host, box, skillDir, md, local, listFile, listCache, edits, spawns, spawnTrouble, wanted,
  raced, made, hadNotes, desired

Pro == INSTANCE ProviderTurn
Rou == INSTANCE RoutedTurn
Spa == INSTANCE Spawn

\* A query and two batches that may come in while it runs, in any order.
ThreePrompts == {p1, p2, p3}
PromptsAlike == Permutations(ThreePrompts)

\* A turn from a channel and one from another agent, with one worker.
TwoTurns == {"t1", "t2"}
FirstRouted == {"t1"}
TwoPlaces == {"c1", "c2"}
OwnPlace == [t \in TwoTurns |-> IF t = "t1" THEN "c1" ELSE "c2"]
OneWorker == {"w1"}
Delegate == {"delegate"}

\* Two sessions of a group; settings the host models and one it does not; a
\* mount that may be written and one that is refused.
TwoBoxes == {b1, b2}
AllSettings == {"key", "lean", "extra", "dormant", "offline", "direct"}
OneDormant == {"dormant"}
TwoSkills == {"s1", "s2"}
OneSkill == {"s1"}
OwnOrShadowing == {"s2", "mine"}
TwoMounts == {[place |-> "allowed", write |-> TRUE], [place |-> "blocked", write |-> FALSE]}

proVars == <<memory, stored, cont, reported, turn, slot, abortTurn, first, batch, claimed,
             toolList, server, turnTrouble, acked, seen, talkedOver, apologised, told, toldBefore,
             trimmed, stale>>
rouVars == <<progress, phase, gate, childId, staffed, outRows, taken, logged, issued,
             routeTrouble, cutAfter>>
spaVars == <<file, host, box, skillDir, md, local, listFile, listCache, edits, spawns,
             spawnTrouble, wanted, raced, made, hadNotes, desired>>
vars == <<focus, proVars, rouVars, spaVars>>

Init == /\ focus \in {"provider", "routed", "spawn"}
        /\ Pro!Init /\ Rou!Init /\ Spa!Init
        /\ focus # "spawn" => wanted = {} /\ md = "none" /\ listFile = "absent"

Next ==
  /\ UNCHANGED focus
  /\ \/ focus = "provider" /\ Pro!Next /\ UNCHANGED <<rouVars, spaVars>>
     \/ focus = "routed" /\ Rou!Next /\ UNCHANGED <<proVars, spaVars>>
     \/ focus = "spawn" /\ Spa!Next /\ UNCHANGED <<proVars, rouVars>>

Spec == Init /\ [][Next]_vars

\* The conversation keeps what was said, and silence answers nobody but those
\* a follow-up talked over (providers/openai.ts, poll-loop.ts).
ConversationKept == focus = "provider" => Pro!ConversationKept
\* A routed turn works under its own decision, sends nothing elsewhere and
\* delegates once (routing/index.ts, routing/gate.ts).
RoutingHolds == focus = "routed" => Rou!RoutingHolds
\* A container is assembled from what the operator saved last, and assembling
\* it destroys nothing (container-runner.ts, container-config.ts).
SpawnFaithful == focus = "spawn" => Spa!SpawnFaithful
=============================================================================
