------------------------------- MODULE Spawn -------------------------------
(***************************************************************************)
(* Getting a container ready.  A group's container.json is edited by its    *)
(* operator while the host reads it, writes it back and mounts it; the host *)
(* is one thread, but the operator's editor is another process and the      *)
(* assembly of a container has an await in it.  Skills, the composed        *)
(* CLAUDE.md and the mount allowlist are prepared on the way.               *)
(***************************************************************************)
EXTENDS Integers, FiniteSets

CONSTANTS
  Boxes,          \* sessions of one group and one state scope
  Settings,       \* what an operator may set in container.json
  Dormant,        \* those of them the host's types do not model
  Skills,         \* shared skills
  LeanSkills,     \* those a group with its own list keeps
  OwnSkills,      \* directories an agent may make among the skills
  Requests,       \* additional mounts of the group: [place, write]
  MaxEdits,       \* bound: operator edits
  MaxSpawns,      \* bound: spawns begun
  MaxSpawnTrouble \* bound: failures and crashes

VARIABLES
  file,         \* container.json: whether it parses, what it sets, whether
                \* the names are current and an editor is at it
  host,         \* whether the host runs, and the synchronous stretch it is in
  box,          \* the container of each session
  skillDir,     \* entries of the scope's skills directory
  md, local,    \* CLAUDE.md and CLAUDE.local.md of the group
  listFile,     \* mount-allowlist.json
  listCache,    \* cachedAllowlist and allowlistLoadError
  edits, spawns, spawnTrouble,
  wanted,       \* history: the settings the operator saved last
  raced,        \* history: a save fell between a read and a write of the host
  made,         \* history: directories agents made
  hadNotes,     \* history: the group had a CLAUDE.md of its own
  desired       \* history: the skills of the last spawn

vars == <<file, host, box, skillDir, md, local, listFile, listCache, edits, spawns, spawnTrouble,
          wanted, raced, made, hadNotes, desired>>
disk == <<skillDir, md, local>>
lists == <<listFile, listCache>>
counts == <<edits, spawns, spawnTrouble>>
history == <<wanted, raced, made, hadNotes, desired>>

NoBox  == [at |-> "none", set |-> {}, named |-> FALSE, meant |-> {}, sure |-> TRUE, copy |-> FALSE, saw |-> {}, net |-> "default",
           extra |-> {}, list |-> "none"]
Free   == [up |-> TRUE, at |-> "free", set |-> {}]
Down   == [up |-> FALSE, at |-> "free", set |-> {}]
Lists  == {"absent", "bad", "read", "write"}

TypeOK ==
  /\ file \in [state : {"absent", "good", "half"}, set : SUBSET Settings, named : BOOLEAN, open : BOOLEAN]
  /\ host.up \in BOOLEAN /\ host.at \in {"free", "update", "image"} \cup Boxes
  /\ \A b \in Boxes : box[b].at \in {"none", "read", "mounts", "args", "starting", "running"}
  /\ skillDir.linked \subseteq Skills /\ skillDir.own \subseteq OwnSkills /\ made \subseteq OwnSkills
  /\ md \in {"none", "legacy", "composed"} /\ local \in {"none", "legacy", "empty"}
  /\ listFile \in Lists /\ listCache \in {"unread", "failed", "read", "write"}
  /\ edits \in 0..MaxEdits /\ spawns \in 0..MaxSpawns /\ spawnTrouble \in 0..MaxSpawnTrouble

Init ==
  /\ \E S \in {{}, Settings} :
       file = [state |-> IF S = {} THEN "absent" ELSE "good", set |-> S, named |-> FALSE, open |-> FALSE] /\ wanted = S
  /\ host = Down /\ box = [b \in Boxes |-> NoBox]
  /\ skillDir = [linked |-> {}, own |-> {}]
  /\ md \in {"none", "legacy"} /\ local = "none" /\ hadNotes = (md = "legacy")
  /\ listFile \in Lists /\ listCache = "unread"
  /\ edits = 0 /\ spawns = 0 /\ spawnTrouble = 0 /\ raced = FALSE /\ made = {} /\ desired = {}

Trouble == spawnTrouble < MaxSpawnTrouble /\ spawnTrouble' = spawnTrouble + 1
Idle == host.up /\ host.at = "free"

----------------------------------------------------------------------------
(* The operator.                                                            *)

\* An editor writes in place: for a while the file does not parse.
BeginEdit ==
  /\ edits < MaxEdits /\ ~file.open
  /\ file' = [file EXCEPT !.state = "half", !.open = TRUE] /\ edits' = edits + 1
  /\ UNCHANGED <<host, box, disk, lists, spawns, spawnTrouble, history>>

SaveEdit(x) ==
  /\ file.open
  /\ LET S == (file.set \ {x}) \cup ({x} \ file.set)
     IN  file' = [file EXCEPT !.state = "good", !.set = S, !.open = FALSE] /\ wanted' = S
  /\ raced' = (host.at # "free")
  /\ UNCHANGED <<host, box, disk, lists, counts, made, hadNotes, desired>>

WriteList ==
  /\ edits < MaxEdits /\ edits' = edits + 1
  /\ \E l \in Lists \ {listFile} : listFile' = l
  /\ UNCHANGED <<file, host, box, disk, listCache, spawns, spawnTrouble, history>>

----------------------------------------------------------------------------
(* container.json in the host's hands.                                      *)

\* A missing file means the defaults; one that does not parse, or enables a
\* routing block that is not valid, means no start.
readable == file.state # "half"

\* Unknown keys and dormant blocks are carried along.
readContainerConfig == IF file.state = "good" THEN file.set ELSE {}

writeContainerConfig(S, named) == file' = [file EXCEPT !.state = "good", !.set = S, !.named = named]

\* An approved change to the configuration; the build of an image reads the
\* file first and writes what it read minutes later.
updateContainerConfig(kind) ==
  /\ Idle /\ readable /\ spawns < MaxSpawns
  /\ spawns' = spawns + 1
  /\ host' = [host EXCEPT !.at = kind, !.set = readContainerConfig]
  /\ UNCHANGED <<file, box, disk, lists, edits, spawnTrouble, history>>

UpdateWrites ==
  /\ host.at \in {"update", "image"}
  /\ writeContainerConfig(host.set, file.named) /\ host' = Free
  /\ UNCHANGED <<box, disk, lists, counts, history>>

buildAgentGroupImageFails ==
  /\ host.at = "image" /\ Trouble
  /\ host' = Free
  /\ UNCHANGED <<file, box, disk, lists, edits, spawns, history>>

\* A group renamed in the database.
Rename ==
  /\ file.named /\ edits < MaxEdits
  /\ edits' = edits + 1 /\ file' = [file EXCEPT !.named = FALSE]
  /\ UNCHANGED <<host, box, disk, lists, spawns, spawnTrouble, history>>

----------------------------------------------------------------------------
(* A spawn.                                                                 *)

spawnContainer(b) ==
  /\ Idle /\ box[b].at = "none" /\ spawns < MaxSpawns
  /\ spawns' = spawns + 1
  /\ IF readable
     THEN /\ host' = [host EXCEPT !.at = b]
          /\ box' = [box EXCEPT ![b] = [NoBox EXCEPT !.at = "read", !.set = readContainerConfig,
                                                     !.named = file.named, !.meant = wanted, !.sure = ~raced]]
     ELSE UNCHANGED <<host, box>>
  /\ UNCHANGED <<file, disk, lists, edits, spawnTrouble, history>>

\* The names of the group are written into the file when they differ.
ensureRuntimeFields(b) ==
  /\ host.at = b /\ box[b].at = "read"
  /\ box' = [box EXCEPT ![b].at = "mounts"]
  /\ IF box[b].named THEN UNCHANGED file ELSE writeContainerConfig(box[b].set, TRUE)
  /\ UNCHANGED <<host, disk, lists, counts, history>>

\* A list that was read, or that was bad, is remembered; a missing one is not.
loadMountAllowlist ==
  IF listCache # "unread" THEN listCache
  ELSE CASE listFile = "absent" -> "unread"
         [] listFile = "bad"    -> "failed"
         [] OTHER               -> listFile

\* Under an allowed root and no blocked pattern; to be written only when asked
\* for and allowed.
validateMount(r) == loadMountAllowlist \in {"read", "write"} /\ r.place = "allowed"
modeOf(r) == IF r.write /\ loadMountAllowlist = "write" THEN "write" ELSE "read"
validateAdditionalMounts(S) ==
  IF "extra" \in S THEN {<<r, modeOf(r)>> : r \in {q \in Requests : validateMount(q)}} ELSE {}

\* Links that are not wanted go, what is wanted and missing is linked; an entry
\* that is no link is left alone.
syncSkillSymlinks(S) == [skillDir EXCEPT !.linked = S \ skillDir.own]

desiredSkills(S) == IF "lean" \in S THEN LeanSkills ELSE Skills

\* The group's files are completed, the memory is seeded and CLAUDE.md composed.
initGroupFilesystem == local' = IF local = "none" THEN "empty" ELSE local
composeGroupClaudeMd == md' = "composed"

\* The key of a group behind the signing proxy stays with the host: what is
\* mounted is a copy without it.
resolveSpawnSigningProxy(S) == "key" \in S

\* The contributions of the providers contradict each other.
mergeProviderContributionsFails(b) ==
  /\ host.at = b /\ box[b].at = "mounts" /\ Trouble
  /\ host' = Free /\ box' = [box EXCEPT ![b] = NoBox]
  /\ UNCHANGED <<file, disk, lists, edits, spawns, history>>

\* Both the group's files and the composed CLAUDE.md read the file again; a
\* routing prompt that is missing ends the spawn after they were written.
buildMounts(b) ==
  /\ host.at = b /\ box[b].at = "mounts"
  /\ host' = Free
  /\ IF readable
     THEN /\ \/ /\ box' = [box EXCEPT ![b].at = "args", ![b].copy = resolveSpawnSigningProxy(box[b].set),
                             ![b].extra = validateAdditionalMounts(box[b].set), ![b].list = loadMountAllowlist]
                /\ listCache' = IF "extra" \in box[b].set THEN loadMountAllowlist ELSE listCache
                /\ UNCHANGED spawnTrouble
             \/ Trouble /\ box' = [box EXCEPT ![b] = NoBox] /\ UNCHANGED listCache
          /\ skillDir' = syncSkillSymlinks(desiredSkills(box[b].set))
          /\ desired' = desiredSkills(box[b].set)
          /\ initGroupFilesystem /\ composeGroupClaudeMd
     ELSE /\ box' = [box EXCEPT ![b] = NoBox]
          /\ UNCHANGED <<disk, listCache, desired, spawnTrouble>>
  /\ UNCHANGED <<file, listFile, edits, spawns, wanted, raced, made, hadNotes>>

\* A provider with credentials of its own does without the vault.
shouldApplyOneCliGateway(S) == "direct" \notin S

resolveContainerNetwork(S) == IF "offline" \in S THEN "none" ELSE "default"

\* The vault wires its proxy and its certificates, or there is no container.
buildContainerArgs(b) ==
  /\ host.up /\ box[b].at = "args"
  /\ \/ /\ box' = [box EXCEPT ![b].at = "starting", ![b].net = resolveContainerNetwork(box[b].set)]
        /\ UNCHANGED spawnTrouble
     \/ /\ shouldApplyOneCliGateway(box[b].set) /\ Trouble
        /\ box' = [box EXCEPT ![b] = NoBox]
  /\ UNCHANGED <<file, host, disk, lists, edits, spawns, history>>

\* Mutant: the file itself is mounted.
mountsFile(b) == IF file.state = "good" THEN file.set ELSE {}

\* The copy of the spawn, or the file as it is by now; a file that does not
\* parse gives the runner its defaults.
mountedConfig(b) == IF box[b].copy THEN box[b].set \ {"key"} ELSE mountsFile(b)

\* The runner reads its configuration once.
loadConfig(b) ==
  /\ box[b].at = "starting"
  /\ box' = [box EXCEPT ![b].at = "running", ![b].saw = mountedConfig(b)]
  /\ UNCHANGED <<file, host, disk, lists, counts, history>>

\* An agent makes a directory among its skills.
MakeSkill(b, x) ==
  /\ box[b].at = "running" /\ x \in OwnSkills \ (skillDir.own \cup skillDir.linked)
  /\ skillDir' = [skillDir EXCEPT !.own = @ \cup {x}] /\ made' = made \cup {x}
  /\ UNCHANGED <<file, host, box, md, local, lists, counts, wanted, raced, hadNotes, desired>>

Exit(b) ==
  /\ host.up /\ box[b].at \in {"starting", "running"}
  /\ box' = [box EXCEPT ![b] = NoBox]
  /\ UNCHANGED <<file, host, disk, lists, counts, history>>

\* A CLAUDE.md of the time before composition becomes the memory, once.
migrateGroupsToClaudeLocal ==
  IF md # "none" /\ local = "none" THEN [md |-> "none", local |-> md] ELSE [md |-> md, local |-> local]

\* Containers of an earlier host are gone before a new one serves.
Boot ==
  /\ ~host.up /\ host' = Free
  /\ md' = migrateGroupsToClaudeLocal.md /\ local' = migrateGroupsToClaudeLocal.local
  /\ listCache' = "unread" /\ box' = [b \in Boxes |-> NoBox]
  /\ UNCHANGED <<file, skillDir, listFile, counts, history>>

\* The host ends, perhaps in the middle of a write; the operator then restores
\* what he had.
HostEnds ==
  /\ host.up /\ Trouble /\ host' = Down
  /\ \/ UNCHANGED file
     \/ host.at # "free" /\ file' = [file EXCEPT !.state = "half", !.set = wanted, !.open = TRUE]
  /\ UNCHANGED <<box, disk, lists, edits, spawns, history>>

Next ==
  \/ BeginEdit \/ WriteList \/ Rename \/ (\E x \in Settings : SaveEdit(x))
  \/ \E kind \in {"update", "image"} : updateContainerConfig(kind)
  \/ UpdateWrites \/ buildAgentGroupImageFails
  \/ \E b \in Boxes : \/ spawnContainer(b) \/ ensureRuntimeFields(b) \/ buildMounts(b)
                      \/ mergeProviderContributionsFails(b) \/ buildContainerArgs(b) \/ loadConfig(b) \/ Exit(b)
  \/ \E b \in Boxes, x \in OwnSkills : MakeSkill(b, x)
  \/ Boot \/ HostEnds

Spec == Init /\ [][Next]_vars

----------------------------------------------------------------------------
(* Properties.                                                              *)

(* Whatever the host reads and writes back over the life of a group, the     *)
(* file keeps what the operator saved last, keys the host does not know      *)
(* included; only a save that falls between a read and its write is lost.    *)
SettingsSurvive == (file.state = "good" /\ ~raced) => file.set = wanted

(* A container starts with the settings its operator saved last, never with  *)
(* the defaults of a file that was being edited or was cut by a crash.       *)
StartedAsSaved ==
  \A b \in Boxes : (box[b].at # "none" /\ box[b].sure) =>
    /\ box[b].set = box[b].meant
    /\ box[b].at = "running" => box[b].net = resolveContainerNetwork(box[b].meant)

(* Behind the signing proxy the runner works with the configuration its      *)
(* container was assembled for, without the key, whatever happened to the    *)
(* file while the vault was asked.                                           *)
RunnerAgrees ==
  \A b \in Boxes : (box[b].at = "running" /\ "key" \in box[b].set) => box[b].saw = box[b].set \ {"key"}

(* After any number of spawns over one scope the links are those of the      *)
(* newest, and what an agent made there itself is still there.               *)
SkillsFollow ==
  /\ skillDir.linked \subseteq desired /\ desired \subseteq skillDir.linked \cup skillDir.own
  /\ skillDir.own = made

(* All mounts a host process grants are judged by one allowlist, the first   *)
(* it could read; after a bad one it grants none.                            *)
OneList ==
  \A b, c \in Boxes :
    (host.up /\ "extra" \in box[b].set /\ "extra" \in box[c].set /\ box[b].list \in {"read", "write", "failed"}
      /\ box[c].list \in {"read", "write", "failed"}) =>
        /\ box[b].list = box[c].list
        /\ \A m \in box[b].extra : m[2] = "write" => box[b].list = "write"

(* The notes a group kept before CLAUDE.md was composed are never lost, and  *)
(* a composed file never becomes memory.                                     *)
NotesSurvive == hadNotes => "legacy" \in {md, local}

\* A container is assembled from what the operator saved, and assembling it
\* destroys nothing of the operator's or the agent's.
SpawnFaithful ==
  /\ TypeOK
  /\ SettingsSurvive
  /\ StartedAsSaved
  /\ RunnerAgrees
  /\ SkillsFollow
  /\ OneList
  /\ NotesSurvive
=============================================================================
