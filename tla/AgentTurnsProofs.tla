-------------------------- MODULE AgentTurnsProofs --------------------------
(***************************************************************************)
(* Theorems about the parts that MCAgentTurns runs side by side: what a    *)
(* container is started with, how the routing phase disposes of a turn and *)
(* how the provider keeps the conversation.                                *)
(***************************************************************************)
EXTENDS MCAgentTurns, FiniteSetTheorems, TLAPS

(***************************************************************************)
(* Spawns: the inductive invariant.                                        *)
(***************************************************************************)
\* container.json, the host's stretch, a container and the skills directory.
Files == [state : {"absent", "good", "half"}, set : SUBSET Settings, named : BOOLEAN, open : BOOLEAN]
Stretches == [up : BOOLEAN, at : {"free", "update", "image"} \cup Boxes, set : SUBSET Settings]
Assembled == {"args", "starting", "running"}
Containers ==
    [at : {"none", "read", "mounts"} \cup Assembled, set : SUBSET Settings, named : BOOLEAN,
     meant : SUBSET Settings, sure : BOOLEAN, copy : BOOLEAN, saw : SUBSET Settings,
     net : {"none", "default"}, extra : SUBSET (Requests \X {"read", "write"}),
     list : {"none", "unread", "failed", "read", "write"}]
SkillDirs == [linked : SUBSET Skills, own : SUBSET OwnSkills]

SpawnTypes ==
    /\ file \in Files /\ host \in Stretches /\ box \in [Boxes -> Containers] /\ skillDir \in SkillDirs
    /\ md \in {"none", "legacy", "composed"} /\ local \in {"none", "legacy", "empty"}
    /\ listFile \in Spa!Lists /\ listCache \in {"unread", "failed", "read", "write"}
    /\ edits \in 0 .. MaxEdits /\ spawns \in 0 .. MaxSpawns /\ spawnTrouble \in 0 .. MaxSpawnTrouble
    /\ wanted \subseteq Settings /\ made \subseteq OwnSkills /\ raced \in BOOLEAN

\* What the host holds between a read and the write is what the operator saved
\* last, unless he saved in between.
HeldKept ==
    /\ file.state = "absent" => file.set = {} /\ wanted = {}
    /\ Spa!SettingsSurvive
    /\ host.at # "free" => host.up
    /\ host.at \in {"update", "image"} /\ ~ raced => host.set = wanted
    /\ \A b \in Boxes : host.at = b =>
          /\ box[b].at \in {"read", "mounts"}
          /\ ~ raced => box[b].set = wanted

\* A container is assembled for its settings, and judged by the list in memory.
BoxKept(b) ==
    /\ box[b].at # "none" /\ box[b].sure => box[b].set = box[b].meant
    /\ box[b].at \in Assembled => (box[b].copy <=> "key" \in box[b].set)
    /\ box[b].at \in {"starting", "running"} => box[b].net = Spa!resolveContainerNetwork(box[b].set)
    /\ box[b].at = "running" /\ "key" \in box[b].set => box[b].saw = box[b].set \ {"key"}
    /\ host.up /\ "extra" \in box[b].set /\ box[b].list \in {"read", "write", "failed"} =>
          box[b].list = listCache
    /\ \A m \in box[b].extra : m[2] = "write" => box[b].list = "write"

\* Notes are migrated before the host can compose a file over them.
NotesKept ==
    /\ hadNotes => (md = "legacy" /\ local = "none" /\ ~ host.up) \/ local = "legacy"
    /\ md = "composed" => local # "none"

SpawnKept ==
    /\ SpawnTypes
    /\ HeldKept
    /\ \A b \in Boxes : BoxKept(b)
    /\ Spa!SkillsFollow
    /\ NotesKept

\* The host at rest, and the host that is not there.
LEMMA FreeAndDown ==
    /\ Spa!Free \in Stretches /\ Spa!Free.at = "free" /\ Spa!Free.up = TRUE
    /\ Spa!Down \in Stretches /\ Spa!Down.at = "free" /\ Spa!Down.up = FALSE
  BY DEF Spa!Free, Spa!Down, Stretches

\* No container.
LEMMA NoBoxIs ==
    /\ Spa!NoBox \in Containers /\ Spa!NoBox.at = "none" /\ Spa!NoBox.set = {} /\ Spa!NoBox.extra = {}
    /\ Spa!NoBox.list = "none"
  BY DEF Spa!NoBox, Containers

\* The operator edits container.json or the allowlist, the group is renamed, or
\* an approved change is under way: no container notices.
LEMMA EditSteps ==
    ASSUME SpawnKept,
           \/ Spa!BeginEdit \/ Spa!WriteList \/ Spa!Rename \/ \E x \in Settings : Spa!SaveEdit(x)
           \/ \E kind \in {"update", "image"} : Spa!updateContainerConfig(kind)
           \/ Spa!UpdateWrites \/ Spa!buildAgentGroupImageFails
    PROVE  SpawnKept'
  <1>1. /\ file \in Files /\ host \in Stretches /\ wanted \in SUBSET Settings
        /\ edits \in Nat /\ spawns \in Nat /\ spawnTrouble \in Nat
    BY SpawnAssumption DEF SpawnKept, SpawnTypes
  <1>2. file.set \in SUBSET Settings /\ host.set \in SUBSET Settings /\ file.named \in BOOLEAN
    BY <1>1 DEF Files, Stretches
  <1>3. UNCHANGED <<box, skillDir, md, local, listCache, made, hadNotes, desired>>
    BY DEF Spa!BeginEdit, Spa!WriteList, Spa!Rename, Spa!SaveEdit, Spa!updateContainerConfig, Spa!UpdateWrites,
       Spa!buildAgentGroupImageFails, Spa!disk, Spa!lists, Spa!history
  <1>4. SpawnTypes' /\ HeldKept' /\ host'.up = host.up
    <2>1. CASE Spa!BeginEdit
      <3>1. /\ file' = [file EXCEPT !.state = "half", !.open = TRUE] /\ edits' = edits + 1 /\ edits < MaxEdits
            /\ UNCHANGED <<host, listFile, spawns, spawnTrouble, wanted, raced>>
        BY <2>1 DEF Spa!BeginEdit, Spa!disk, Spa!lists, Spa!history
      <3>2. file' \in Files /\ file'.state = "half"
        BY <1>1, <3>1 DEF Files
      <3> QED
        BY <1>1, <1>3, <3>1, <3>2, SpawnAssumption DEF SpawnKept, SpawnTypes, HeldKept, Spa!SettingsSurvive
    <2>2. CASE Spa!WriteList
      <3>1. /\ edits' = edits + 1 /\ edits < MaxEdits /\ listFile' \in Spa!Lists
            /\ UNCHANGED <<file, host, spawns, spawnTrouble, wanted, raced>>
        BY <2>2 DEF Spa!WriteList, Spa!disk, Spa!history
      <3> QED
        BY <1>1, <1>3, <3>1, SpawnAssumption DEF SpawnKept, SpawnTypes, HeldKept, Spa!SettingsSurvive
    <2>3. CASE Spa!Rename
      <3>1. /\ file' = [file EXCEPT !.named = FALSE] /\ edits' = edits + 1 /\ edits < MaxEdits
            /\ UNCHANGED <<host, listFile, spawns, spawnTrouble, wanted, raced>>
        BY <2>3 DEF Spa!Rename, Spa!disk, Spa!lists, Spa!history
      <3>2. file' \in Files /\ file'.state = file.state /\ file'.set = file.set
        BY <1>1, <3>1 DEF Files
      <3> QED
        BY <1>1, <1>3, <3>1, <3>2, SpawnAssumption DEF SpawnKept, SpawnTypes, HeldKept, Spa!SettingsSurvive
    <2>4. CASE \E x \in Settings : Spa!SaveEdit(x)
      <3>1. PICK x \in Settings : Spa!SaveEdit(x)
        BY <2>4
      <3>2. PICK S : /\ S = (file.set \ {x}) \cup ({x} \ file.set)
                     /\ file' = [file EXCEPT !.state = "good", !.set = S, !.open = FALSE] /\ wanted' = S
        BY <3>1 DEF Spa!SaveEdit
      <3>3. /\ raced' = (host.at # "free")
            /\ UNCHANGED <<host, listFile, edits, spawns, spawnTrouble>>
        BY <3>1 DEF Spa!SaveEdit, Spa!disk, Spa!lists, Spa!counts
      <3>4. S \in SUBSET Settings
        BY <1>2, <3>2
      <3>5. file' \in Files /\ file'.state = "good" /\ file'.set = S
        BY <1>1, <3>2, <3>4 DEF Files
      <3>6. raced' \in BOOLEAN
        BY <3>3, Zenon
      <3>7. host.at \in {"update", "image"} \cup Boxes => raced'
        BY <3>3, SpawnAssumption
      <3> QED
        BY <1>1, <1>3, <3>2, <3>3, <3>4, <3>5, <3>6, <3>7
        DEF SpawnKept, SpawnTypes, HeldKept, Spa!SettingsSurvive
    <2>5. CASE \E kind \in {"update", "image"} : Spa!updateContainerConfig(kind)
      <3>1. PICK kind \in {"update", "image"} : Spa!updateContainerConfig(kind)
        BY <2>5
      <3>2. /\ host' = [host EXCEPT !.at = kind, !.set = Spa!readContainerConfig] /\ host.up
            /\ spawns' = spawns + 1 /\ spawns < MaxSpawns /\ file.state # "half"
            /\ UNCHANGED <<file, listFile, edits, spawnTrouble, wanted, raced>>
        BY <3>1 DEF Spa!updateContainerConfig, Spa!Idle, Spa!disk, Spa!lists, Spa!history, Spa!readable
      <3>3. Spa!readContainerConfig \in SUBSET Settings /\ (~ raced => Spa!readContainerConfig = wanted)
        BY <1>1, <1>2, <3>2 DEF Spa!readContainerConfig, SpawnKept, HeldKept, Spa!SettingsSurvive, Files
      <3>4. host' \in Stretches /\ host'.at = kind /\ host'.up = host.up /\ host'.set = Spa!readContainerConfig
        BY <1>1, <3>2, <3>3 DEF Stretches
      <3>5. kind \notin Boxes /\ spawns' \in 0 .. MaxSpawns
        BY <1>1, <3>2, SpawnAssumption
      <3> HIDE DEF Spa!readContainerConfig
      <3>6. HeldKept'
        BY <1>3, <3>2, <3>3, <3>4, <3>5 DEF SpawnKept, HeldKept, Spa!SettingsSurvive
      <3>7. SpawnTypes'
        BY <1>3, <3>2, <3>4, <3>5 DEF SpawnKept, SpawnTypes
      <3> QED
        BY <3>4, <3>6, <3>7
    <2>6. CASE Spa!UpdateWrites
      <3>1. /\ file' = [file EXCEPT !.state = "good", !.set = host.set, !.named = file.named] /\ host' = Spa!Free
            /\ host.at \in {"update", "image"}
            /\ UNCHANGED <<listFile, edits, spawns, spawnTrouble, wanted, raced>>
        BY <2>6 DEF Spa!UpdateWrites, Spa!writeContainerConfig, Spa!disk, Spa!lists, Spa!history, Spa!counts
      <3>2. file' \in Files /\ file'.state = "good" /\ file'.set = host.set
        BY <1>1, <1>2, <3>1 DEF Files
      <3>3. host.up
        BY <3>1 DEF SpawnKept, HeldKept
      <3>4. host.up = TRUE
        BY <1>1, <3>3 DEF Stretches
      <3> QED
        BY <1>1, <1>3, <3>1, <3>2, <3>4, FreeAndDown, SpawnAssumption
        DEF SpawnKept, SpawnTypes, HeldKept, Spa!SettingsSurvive
    <2>7. CASE Spa!buildAgentGroupImageFails
      <3>1. /\ host' = Spa!Free /\ host.at = "image" /\ spawnTrouble' = spawnTrouble + 1
            /\ spawnTrouble < MaxSpawnTrouble
            /\ UNCHANGED <<file, listFile, edits, spawns, wanted, raced>>
        BY <2>7 DEF Spa!buildAgentGroupImageFails, Spa!Trouble, Spa!disk, Spa!lists, Spa!history
      <3>2. host.up
        BY <3>1 DEF SpawnKept, HeldKept
      <3>3. host.up = TRUE
        BY <1>1, <3>2 DEF Stretches
      <3>4. spawnTrouble' \in 0 .. MaxSpawnTrouble /\ host'.at \notin Boxes
        BY <1>1, <3>1, FreeAndDown, SpawnAssumption
      <3>5. HeldKept'
        BY <1>3, <3>1, <3>4, FreeAndDown DEF SpawnKept, HeldKept, Spa!SettingsSurvive
      <3>6. SpawnTypes'
        BY <1>3, <3>1, <3>4, FreeAndDown DEF SpawnKept, SpawnTypes
      <3> QED
        BY <3>1, <3>3, <3>5, <3>6, FreeAndDown
    <2> QED
      BY <2>1, <2>2, <2>3, <2>4, <2>5, <2>6, <2>7
  <1>5. Spa!SkillsFollow' /\ NotesKept'
    BY <1>3, <1>4 DEF SpawnKept, Spa!SkillsFollow, NotesKept
  <1>6. \A b \in Boxes : BoxKept(b)'
    BY <1>3, <1>4 DEF SpawnKept, BoxKept
  <1> QED
    BY <1>4, <1>5, <1>6 DEF SpawnKept

\* One container changes.
LEMMA OneBox ==
    ASSUME SpawnKept, NEW b \in Boxes, NEW r \in Containers, box' = [box EXCEPT ![b] = r]
    PROVE  box' \in [Boxes -> Containers] /\ box'[b] = r /\ \A c \in Boxes \ {b} : box'[c] = box[c]
  BY DEF SpawnKept, SpawnTypes

\* The other containers do not notice while the list in memory stays and the
\* host does not come up.
LEMMA OthersKept ==
    ASSUME SpawnKept, NEW c \in Boxes, box'[c] = box[c], host'.up => host.up,
           listCache' = listCache \/ listCache = "unread"
    PROVE  BoxKept(c)'
  BY DEF SpawnKept, BoxKept

\* A spawn reads the configuration.
LEMMA ReadStep == ASSUME SpawnKept, NEW b \in Boxes, Spa!spawnContainer(b) PROVE SpawnKept'
  <1>1. /\ spawns' = spawns + 1 /\ spawns < MaxSpawns /\ host.up /\ host.at = "free" /\ box[b].at = "none"
        /\ UNCHANGED <<file, skillDir, md, local, listFile, listCache, edits, spawnTrouble, wanted, raced, made,
                       hadNotes, desired>>
    BY DEF Spa!spawnContainer, Spa!Idle, Spa!disk, Spa!lists, Spa!history
  <1>2. spawns' \in 0 .. MaxSpawns
    BY <1>1, SpawnAssumption DEF SpawnKept, SpawnTypes
  <1>3. CASE ~ Spa!readable
    <2>1. UNCHANGED <<host, box>>
      BY <1>3 DEF Spa!spawnContainer
    <2>2. \A c \in Boxes : BoxKept(c)'
      BY <1>1, <2>1 DEF SpawnKept, BoxKept
    <2> QED
      BY <1>1, <1>2, <2>1, <2>2
      DEF SpawnKept, SpawnTypes, HeldKept, Spa!SettingsSurvive, Spa!SkillsFollow, NotesKept
  <1>4. CASE Spa!readable
    <2> DEFINE S == Spa!readContainerConfig
               sure == ~ raced
               r == [Spa!NoBox EXCEPT !.at = "read", !.set = S, !.named = file.named, !.meant = wanted, !.sure = sure]
    <2>1. host' = [host EXCEPT !.at = b] /\ box' = [box EXCEPT ![b] = r]
      BY <1>4 DEF Spa!spawnContainer
    <2>2. S \in SUBSET Settings /\ (~ raced => S = wanted)
      BY <1>4 DEF Spa!readContainerConfig, Spa!readable, SpawnKept, SpawnTypes, HeldKept, Spa!SettingsSurvive, Files
    <2>3. sure \in BOOLEAN
      BY Zenon
    <2>4. file.named \in BOOLEAN /\ wanted \in SUBSET Settings
      BY DEF SpawnKept, SpawnTypes, Files
    <2> HIDE DEF S, sure
    <2>5. /\ r \in Containers /\ r.at = "read" /\ r.set = S /\ r.meant = wanted /\ r.sure = sure /\ r.extra = {}
          /\ r.list = "none"
      BY <2>2, <2>3, <2>4 DEF Containers, Spa!NoBox
    <2> HIDE DEF r
    <2>6. box' \in [Boxes -> Containers] /\ box'[b] = r /\ \A c \in Boxes \ {b} : box'[c] = box[c]
      BY <2>1, <2>5, OneBox
    <2>7. host' \in Stretches /\ host'.at = b /\ host'.up = host.up
      BY <2>1 DEF SpawnKept, SpawnTypes, Stretches
    <2>8. SpawnTypes'
      BY <1>1, <1>2, <2>6, <2>7 DEF SpawnKept, SpawnTypes
    <2>9. HeldKept'
      <3>1. b \notin {"update", "image"}
        BY SpawnAssumption
      <3> QED
        BY <1>1, <2>2, <2>5, <2>6, <2>7, <3>1 DEF SpawnKept, HeldKept, Spa!SettingsSurvive
    <2>10. BoxKept(b)'
      <3>1. sure => ~ raced
        BY DEF sure
      <3> QED
        BY <2>2, <2>5, <2>6, <3>1 DEF BoxKept, Assembled
    <2>11. \A c \in Boxes \ {b} : BoxKept(c)'
      BY <1>1, <2>6, <2>7, OthersKept
    <2> QED
      BY <1>1, <2>7, <2>8, <2>9, <2>10, <2>11 DEF SpawnKept, Spa!SkillsFollow, NotesKept
  <1> QED
    BY <1>3, <1>4

\* The names are written into the file, or the providers contradict each other.
LEMMA NameSteps ==
    ASSUME SpawnKept, NEW b \in Boxes, Spa!ensureRuntimeFields(b) \/ Spa!mergeProviderContributionsFails(b)
    PROVE  SpawnKept'
  <1>1. /\ host.at = b /\ host.up /\ box[b] \in Containers /\ box[b].set \in SUBSET Settings
        /\ UNCHANGED <<skillDir, md, local, listFile, listCache, edits, spawns, wanted, raced, made, hadNotes, desired>>
    BY SpawnAssumption DEF Spa!ensureRuntimeFields, Spa!mergeProviderContributionsFails, Spa!disk, Spa!lists,
       Spa!counts, Spa!history, SpawnKept, SpawnTypes, HeldKept, Containers
  <1>2. Spa!SkillsFollow'
    BY <1>1 DEF SpawnKept, Spa!SkillsFollow
  <1>3. CASE Spa!ensureRuntimeFields(b)
    <2> DEFINE r == [box[b] EXCEPT !.at = "mounts"]
    <2>1. /\ box' = [box EXCEPT ![b] = r] /\ UNCHANGED <<host, spawnTrouble>>
          /\ \/ UNCHANGED file
             \/ file' = [file EXCEPT !.state = "good", !.set = box[b].set, !.named = TRUE]
      BY <1>3 DEF Spa!ensureRuntimeFields, Spa!writeContainerConfig, Spa!counts
    <2>2. /\ r \in Containers /\ r.at = "mounts" /\ r.set = box[b].set /\ r.meant = box[b].meant
          /\ r.sure = box[b].sure /\ r.extra = box[b].extra /\ r.list = box[b].list
      BY <1>1 DEF Containers
    <2> HIDE DEF r
    <2>3. box' \in [Boxes -> Containers] /\ box'[b] = r /\ \A c \in Boxes \ {b} : box'[c] = box[c]
      BY <2>1, <2>2, OneBox
    <2>4. file' \in Files /\ (file' = file \/ (file'.state = "good" /\ file'.set = box[b].set))
      <3>1. file \in Files
        BY DEF SpawnKept, SpawnTypes
      <3>2. CASE file' = [file EXCEPT !.state = "good", !.set = box[b].set, !.named = TRUE]
        BY <1>1, <3>1, <3>2 DEF Files
      <3> QED
        BY <2>1, <3>1, <3>2
    <2>5. SpawnTypes' /\ NotesKept'
      BY <1>1, <2>1, <2>3, <2>4 DEF SpawnKept, SpawnTypes, NotesKept
    <2>6. HeldKept'
      BY <1>1, <2>1, <2>2, <2>3, <2>4, SpawnAssumption DEF SpawnKept, HeldKept, Spa!SettingsSurvive
    <2>7. BoxKept(b)'
      <3>1. box[b].at # "none"
        BY <1>3 DEF Spa!ensureRuntimeFields
      <3> QED
        BY <1>1, <2>1, <2>2, <2>3, <3>1 DEF SpawnKept, BoxKept, Assembled
    <2>8. \A c \in Boxes \ {b} : BoxKept(c)'
      BY <1>1, <2>1, <2>3, OthersKept
    <2> QED
      BY <1>2, <2>5, <2>6, <2>7, <2>8 DEF SpawnKept
  <1>4. CASE Spa!mergeProviderContributionsFails(b)
    <2>1. /\ box' = [box EXCEPT ![b] = Spa!NoBox] /\ UNCHANGED file /\ host' = Spa!Free
          /\ spawnTrouble' = spawnTrouble + 1 /\ spawnTrouble < MaxSpawnTrouble
      BY <1>4 DEF Spa!mergeProviderContributionsFails, Spa!Trouble
    <2>2. box' \in [Boxes -> Containers] /\ box'[b] = Spa!NoBox /\ \A c \in Boxes \ {b} : box'[c] = box[c]
      BY <2>1, NoBoxIs, OneBox
    <2>3. spawnTrouble' \in 0 .. MaxSpawnTrouble
      BY <2>1, SpawnAssumption DEF SpawnKept, SpawnTypes
    <2>4. SpawnTypes' /\ NotesKept'
      BY <1>1, <2>1, <2>2, <2>3, FreeAndDown DEF SpawnKept, SpawnTypes, NotesKept
    <2>5. HeldKept'
      BY <1>1, <2>1, FreeAndDown, SpawnAssumption DEF SpawnKept, HeldKept, Spa!SettingsSurvive
    <2>6. BoxKept(b)'
      BY <2>2, NoBoxIs DEF BoxKept, Assembled
    <2>7. \A c \in Boxes \ {b} : BoxKept(c)'
      BY <1>1, <2>1, <2>2, OthersKept
    <2> QED
      BY <1>2, <2>4, <2>5, <2>6, <2>7 DEF SpawnKept
  <1> QED
    BY <1>3, <1>4

\* The list in memory, or the file's; once in memory it is not read again.
LEMMA ListIs ==
    ASSUME SpawnTypes
    PROVE  /\ Spa!loadMountAllowlist \in {"unread", "failed", "read", "write"}
           /\ listCache # "unread" => Spa!loadMountAllowlist = listCache
  BY DEF SpawnTypes, Spa!loadMountAllowlist, Spa!Lists

\* Mounts are granted as the list says.
LEMMA MountsAre ==
    ASSUME NEW S
    PROVE  /\ Spa!validateAdditionalMounts(S) \in SUBSET (Requests \X {"read", "write"})
           /\ \A m \in Spa!validateAdditionalMounts(S) : m[2] = "write" => Spa!loadMountAllowlist = "write"
  BY DEF Spa!validateAdditionalMounts, Spa!modeOf

\* The group's files and the skills: what a spawn leaves on the disk.
LEMMA DiskKept ==
    ASSUME SpawnKept, host.up, NEW D \in SUBSET Skills, Spa!initGroupFilesystem, Spa!composeGroupClaudeMd,
           skillDir' = Spa!syncSkillSymlinks(D), desired' = D, UNCHANGED <<made, hadNotes>>
    PROVE  /\ skillDir' \in SkillDirs /\ md' = "composed" /\ local' \in {"legacy", "empty"}
           /\ Spa!SkillsFollow' /\ NotesKept'
  <1>1. skillDir' \in SkillDirs /\ skillDir'.linked = D \ skillDir.own /\ skillDir'.own = skillDir.own
    BY DEF SpawnKept, SpawnTypes, Spa!syncSkillSymlinks, SkillDirs
  <1>2. md' = "composed" /\ local' \in {"legacy", "empty"} /\ (local = "legacy" => local' = "legacy")
    BY DEF SpawnKept, SpawnTypes, Spa!initGroupFilesystem, Spa!composeGroupClaudeMd
  <1> QED
    BY <1>1, <1>2 DEF SpawnKept, Spa!SkillsFollow, NotesKept

\* A container gets its mounts, or its spawn ends here.
LEMMA MountStep == ASSUME SpawnKept, NEW b \in Boxes, Spa!buildMounts(b) PROVE SpawnKept'
  <1>1. /\ host.at = b /\ host.up /\ box[b] \in Containers /\ box[b].at = "mounts" /\ host' = Spa!Free
        /\ UNCHANGED <<file, listFile, edits, spawns, wanted, raced, made, hadNotes>>
    BY SpawnAssumption DEF Spa!buildMounts, SpawnKept, SpawnTypes, HeldKept
  <1> DEFINE S == box[b].set
             load == Spa!loadMountAllowlist
             copy == Spa!resolveSpawnSigningProxy(S)
             extra == Spa!validateAdditionalMounts(S)
             r == [box[b] EXCEPT !.at = "args", !.copy = copy, !.extra = extra, !.list = load]
             Good == /\ box' = [box EXCEPT ![b] = r] /\ spawnTrouble' = spawnTrouble
                     /\ listCache' = IF "extra" \in S THEN load ELSE listCache
             Bad == /\ box' = [box EXCEPT ![b] = Spa!NoBox] /\ UNCHANGED listCache
                    /\ spawnTrouble' \in {spawnTrouble, spawnTrouble + 1}
                    /\ spawnTrouble' # spawnTrouble => spawnTrouble < MaxSpawnTrouble
  <1>2. Good \/ Bad
    BY ZenonT(60) DEF Spa!buildMounts, Spa!Trouble
  <1>3. skillDir' \in SkillDirs /\ md' \in {"none", "legacy", "composed"} /\ local' \in {"none", "legacy", "empty"}
        /\ Spa!SkillsFollow' /\ NotesKept'
    <2>1. CASE Spa!readable
      <3>1. Spa!desiredSkills(S) \in SUBSET Skills
        BY SpawnAssumption DEF Spa!desiredSkills
      <3>2. /\ Spa!initGroupFilesystem /\ Spa!composeGroupClaudeMd
            /\ skillDir' = Spa!syncSkillSymlinks(Spa!desiredSkills(S)) /\ desired' = Spa!desiredSkills(S)
        BY <2>1 DEF Spa!buildMounts
      <3> HIDE DEF S
      <3> QED
        BY <1>1, <3>1, <3>2, DiskKept
    <2>2. CASE ~ Spa!readable
      <3>1. UNCHANGED <<skillDir, md, local, desired>>
        BY <2>2 DEF Spa!buildMounts, Spa!disk
      <3> QED
        BY <1>1, <3>1 DEF SpawnKept, SpawnTypes, Spa!SkillsFollow, NotesKept
    <2> QED
      BY <2>1, <2>2
  <1>4. HeldKept'
    BY <1>1, FreeAndDown, SpawnAssumption DEF SpawnKept, HeldKept, Spa!SettingsSurvive
  <1>5. load \in {"unread", "failed", "read", "write"} /\ (listCache # "unread" => load = listCache)
    BY ListIs DEF SpawnKept
  <1>6. CASE Good
    <2>1. copy \in BOOLEAN /\ (copy <=> "key" \in S)
      <3>1. copy = ("key" \in S)
        BY DEF Spa!resolveSpawnSigningProxy
      <3> HIDE DEF copy, S
      <3>2. copy = TRUE \/ copy = FALSE
        BY <3>1
      <3> QED
        BY <3>1, <3>2
    <2>2. /\ extra \in SUBSET (Requests \X {"read", "write"})
          /\ \A m \in extra : m[2] = "write" => load = "write"
      BY MountsAre
    <2> HIDE DEF load, copy, extra
    <2>3. /\ r \in Containers /\ r.at = "args" /\ r.set = S /\ r.meant = box[b].meant /\ r.sure = box[b].sure
          /\ r.copy = copy /\ r.extra = extra /\ r.list = load
      BY <1>1, <1>5, <2>1, <2>2 DEF Containers, Assembled
    <2> HIDE DEF r
    <2>4. box' \in [Boxes -> Containers] /\ box'[b] = r /\ \A c \in Boxes \ {b} : box'[c] = box[c]
      BY <1>6, <2>3, OneBox
    <2>5. listCache' \in {"unread", "failed", "read", "write"} /\ (listCache' = listCache \/ listCache = "unread")
      BY <1>5, <1>6 DEF SpawnKept, SpawnTypes
    <2>6. SpawnTypes'
      BY <1>1, <1>3, <1>6, <2>4, <2>5, FreeAndDown DEF SpawnKept, SpawnTypes
    <2>7. BoxKept(b)'
      BY <1>1, <1>6, <2>1, <2>2, <2>3, <2>4 DEF SpawnKept, BoxKept, Assembled
    <2>8. \A c \in Boxes \ {b} : BoxKept(c)'
      BY <1>1, <2>4, <2>5, OthersKept
    <2> QED
      BY <1>3, <1>4, <2>6, <2>7, <2>8 DEF SpawnKept
  <1>7. CASE Bad
    <2>1. box' \in [Boxes -> Containers] /\ box'[b] = Spa!NoBox /\ \A c \in Boxes \ {b} : box'[c] = box[c]
      BY <1>7, NoBoxIs, OneBox
    <2>2. spawnTrouble' \in 0 .. MaxSpawnTrouble
      BY <1>7, SpawnAssumption DEF SpawnKept, SpawnTypes
    <2>3. SpawnTypes'
      BY <1>1, <1>3, <1>7, <2>1, <2>2, FreeAndDown DEF SpawnKept, SpawnTypes
    <2>4. BoxKept(b)'
      BY <2>1, NoBoxIs DEF BoxKept, Assembled
    <2>5. \A c \in Boxes \ {b} : BoxKept(c)'
      BY <1>1, <1>7, <2>1, OthersKept
    <2> QED
      BY <1>3, <1>4, <2>3, <2>4, <2>5 DEF SpawnKept
  <1> QED
    BY <1>2, <1>6, <1>7

\* The container is started, reads its configuration, or is gone.
LEMMA RunSteps ==
    ASSUME SpawnKept, NEW b \in Boxes, Spa!buildContainerArgs(b) \/ Spa!loadConfig(b) \/ Spa!Exit(b)
    PROVE  SpawnKept'
  <1>1. /\ box[b] \in Containers /\ box[b].at \in Assembled /\ host.at # b
        /\ UNCHANGED <<file, host, skillDir, md, local, listFile, listCache, edits, spawns, wanted, raced, made,
                       hadNotes, desired>>
    BY DEF Spa!buildContainerArgs, Spa!loadConfig, Spa!Exit, Spa!disk, Spa!lists, Spa!counts, Spa!history,
       SpawnKept, SpawnTypes, HeldKept, Assembled
  <1> DEFINE S == box[b].set
             net == Spa!resolveContainerNetwork(S)
             saw == Spa!mountedConfig(b)
  <1>2. /\ spawnTrouble' \in {spawnTrouble, spawnTrouble + 1}
        /\ spawnTrouble' # spawnTrouble => spawnTrouble < MaxSpawnTrouble
    BY DEF Spa!buildContainerArgs, Spa!loadConfig, Spa!Exit, Spa!Trouble, Spa!counts
  <1>3. \E r \in Containers :
           /\ box' = [box EXCEPT ![b] = r]
           /\ \/ r = Spa!NoBox
              \/ /\ r.set = S /\ r.meant = box[b].meant /\ r.sure = box[b].sure /\ r.copy = box[b].copy
                 /\ r.extra = box[b].extra /\ r.list = box[b].list
                 /\ \/ r.at = "starting" /\ r.net = net
                    \/ r.at = "running" /\ r.net = box[b].net /\ r.saw = saw /\ box[b].at = "starting"
    <2>1. CASE box' = [box EXCEPT ![b] = Spa!NoBox]
      BY <2>1, NoBoxIs
    <2>2. CASE box' = [box EXCEPT ![b].at = "starting", ![b].net = net]
      <3> DEFINE r == [box[b] EXCEPT !.at = "starting", !.net = net]
      <3>1. net \in {"none", "default"}
        BY DEF Spa!resolveContainerNetwork
      <3> HIDE DEF net
      <3>2. /\ r \in Containers /\ r.at = "starting" /\ r.net = net /\ r.set = S /\ r.meant = box[b].meant
            /\ r.sure = box[b].sure /\ r.copy = box[b].copy /\ r.extra = box[b].extra /\ r.list = box[b].list
        BY <1>1, <3>1 DEF Containers, Assembled
      <3>3. box' = [box EXCEPT ![b] = r]
        BY <2>2
      <3> QED
        BY <3>2, <3>3
    <2>3. CASE box[b].at = "starting" /\ box' = [box EXCEPT ![b].at = "running", ![b].saw = saw]
      <3> DEFINE r == [box[b] EXCEPT !.at = "running", !.saw = saw]
      <3>1. saw \in SUBSET Settings
        BY <1>1 DEF Spa!mountedConfig, Spa!mountsFile, SpawnKept, SpawnTypes, Containers, Files
      <3> HIDE DEF saw
      <3>2. /\ r \in Containers /\ r.at = "running" /\ r.saw = saw /\ r.net = box[b].net /\ r.set = S
            /\ r.meant = box[b].meant /\ r.sure = box[b].sure /\ r.copy = box[b].copy
            /\ r.extra = box[b].extra /\ r.list = box[b].list
        BY <1>1, <3>1 DEF Containers, Assembled
      <3>3. box' = [box EXCEPT ![b] = r]
        BY <2>3
      <3> QED
        BY <2>3, <3>2, <3>3
    <2> QED
      BY <2>1, <2>2, <2>3 DEF Spa!buildContainerArgs, Spa!loadConfig, Spa!Exit
  <1>4. PICK r \in Containers :
           /\ box' = [box EXCEPT ![b] = r]
           /\ \/ r = Spa!NoBox
              \/ /\ r.set = S /\ r.meant = box[b].meant /\ r.sure = box[b].sure /\ r.copy = box[b].copy
                 /\ r.extra = box[b].extra /\ r.list = box[b].list
                 /\ \/ r.at = "starting" /\ r.net = net
                    \/ r.at = "running" /\ r.net = box[b].net /\ r.saw = saw /\ box[b].at = "starting"
    BY <1>3
  <1>5. box' \in [Boxes -> Containers] /\ box'[b] = r /\ \A c \in Boxes \ {b} : box'[c] = box[c]
    BY <1>4, OneBox
  <1>6. SpawnTypes'
    <2>1. spawnTrouble' \in 0 .. MaxSpawnTrouble
      BY <1>2, SpawnAssumption DEF SpawnKept, SpawnTypes
    <2> QED
      BY <1>1, <1>5, <2>1 DEF SpawnKept, SpawnTypes
  <1>7. HeldKept' /\ Spa!SkillsFollow' /\ NotesKept'
    BY <1>1, <1>5 DEF SpawnKept, HeldKept, Spa!SettingsSurvive, Spa!SkillsFollow, NotesKept
  <1>8. BoxKept(b)'
    <2>1. CASE r = Spa!NoBox
      BY <1>5, <2>1, NoBoxIs DEF BoxKept, Assembled
    <2>2. CASE r # Spa!NoBox
      <3>1. saw = IF box[b].copy THEN S \ {"key"} ELSE Spa!mountsFile(b)
        BY DEF Spa!mountedConfig
      <3>2. box[b].copy <=> "key" \in S
        BY <1>1 DEF SpawnKept, BoxKept
      <3>3. "key" \in S => saw = S \ {"key"}
        BY <3>1, <3>2
      <3> HIDE DEF saw
      <3>4. BoxKept(b) /\ box[b].at # "none"
        BY <1>1 DEF SpawnKept, Assembled
      <3> QED
        BY <1>1, <1>4, <1>5, <2>2, <3>2, <3>3, <3>4 DEF BoxKept, Assembled
    <2> QED
      BY <2>1, <2>2
  <1>9. \A c \in Boxes \ {b} : BoxKept(c)'
    BY <1>1, <1>5, OthersKept
  <1> QED
    BY <1>6, <1>7, <1>8, <1>9 DEF SpawnKept

\* An agent makes a directory of its own.
LEMMA SkillStep ==
    ASSUME SpawnKept, NEW b \in Boxes, NEW x \in OwnSkills, Spa!MakeSkill(b, x) PROVE SpawnKept'
  <1>1. /\ skillDir' = [skillDir EXCEPT !.own = @ \cup {x}] /\ made' = made \cup {x}
        /\ UNCHANGED <<file, host, box, md, local, listFile, listCache, edits, spawns, spawnTrouble, wanted, raced,
                       hadNotes, desired>>
    BY DEF Spa!MakeSkill, Spa!lists, Spa!counts
  <1>2. skillDir' \in SkillDirs /\ skillDir'.own = skillDir.own \cup {x} /\ skillDir'.linked = skillDir.linked
    BY <1>1 DEF SpawnKept, SpawnTypes, SkillDirs
  <1>3. \A c \in Boxes : BoxKept(c)'
    BY <1>1, OthersKept
  <1> QED
    BY <1>1, <1>2, <1>3
    DEF SpawnKept, SpawnTypes, HeldKept, Spa!SettingsSurvive, Spa!SkillsFollow, NotesKept

\* The host starts, or ends, perhaps in the middle of a write.
LEMMA HostSteps == ASSUME SpawnKept, Spa!Boot \/ Spa!HostEnds PROVE SpawnKept'
  <1>1. CASE Spa!Boot
    <2>1. /\ host' = Spa!Free /\ listCache' = "unread" /\ box' = [b \in Boxes |-> Spa!NoBox]
          /\ UNCHANGED <<file, skillDir, listFile, edits, spawns, spawnTrouble, wanted, raced, made, hadNotes, desired>>
      BY <1>1 DEF Spa!Boot, Spa!counts, Spa!history
    <2>2. IF md # "none" /\ local = "none" THEN md' = "none" /\ local' = md ELSE md' = md /\ local' = local
      BY <1>1 DEF Spa!Boot, Spa!migrateGroupsToClaudeLocal
    <2>3. md' \in {"none", "legacy", "composed"} /\ local' \in {"none", "legacy", "empty"} /\ NotesKept'
      BY <2>1, <2>2 DEF SpawnKept, SpawnTypes, NotesKept
    <2>4. SpawnTypes'
      BY <2>1, <2>3, FreeAndDown, NoBoxIs DEF SpawnKept, SpawnTypes
    <2>5. HeldKept' /\ Spa!SkillsFollow'
      BY <2>1, FreeAndDown, SpawnAssumption DEF SpawnKept, HeldKept, Spa!SettingsSurvive, Spa!SkillsFollow
    <2>6. \A b \in Boxes : BoxKept(b)'
      BY <2>1, NoBoxIs DEF BoxKept, Assembled
    <2> QED
      BY <2>3, <2>4, <2>5, <2>6 DEF SpawnKept
  <1>2. CASE Spa!HostEnds
    <2>1. /\ host' = Spa!Down /\ spawnTrouble' = spawnTrouble + 1 /\ spawnTrouble < MaxSpawnTrouble
          /\ \/ UNCHANGED file \/ file' = [file EXCEPT !.state = "half", !.set = wanted, !.open = TRUE]
          /\ UNCHANGED <<box, skillDir, md, local, listFile, listCache, edits, spawns, wanted, raced, made, hadNotes,
                         desired>>
      BY <1>2 DEF Spa!HostEnds, Spa!Trouble, Spa!disk, Spa!lists, Spa!history
    <2>2. file' \in Files /\ (file' = file \/ file'.state = "half")
      <3>1. file \in Files /\ wanted \in SUBSET Settings
        BY DEF SpawnKept, SpawnTypes
      <3>2. CASE file' = [file EXCEPT !.state = "half", !.set = wanted, !.open = TRUE]
        BY <3>1, <3>2 DEF Files
      <3> QED
        BY <2>1, <3>1, <3>2
    <2>3. spawnTrouble' \in 0 .. MaxSpawnTrouble
      BY <2>1, SpawnAssumption DEF SpawnKept, SpawnTypes
    <2>4. SpawnTypes'
      BY <2>1, <2>2, <2>3, FreeAndDown DEF SpawnKept, SpawnTypes
    <2>5. HeldKept'
      BY <2>1, <2>2, FreeAndDown, SpawnAssumption DEF SpawnKept, HeldKept, Spa!SettingsSurvive
    <2>6. Spa!SkillsFollow' /\ NotesKept'
      BY <1>2, <2>1, FreeAndDown DEF SpawnKept, Spa!SkillsFollow, NotesKept, Spa!HostEnds
    <2>7. \A b \in Boxes : BoxKept(b)'
      BY <2>1, FreeAndDown, OthersKept
    <2> QED
      BY <2>4, <2>5, <2>6, <2>7 DEF SpawnKept
  <1> QED
    BY <1>1, <1>2

\* The invariant speaks of the behaviours about spawns.
SpawnInv == focus = "spawn" => SpawnKept

\* Before the host first starts.
LEMMA SpawnInit == ASSUME Init PROVE SpawnInv
  <1>1. Spa!Init
    BY DEF Init
  <1>2. PICK S \in {{}, Settings} :
           file = [state |-> IF S = {} THEN "absent" ELSE "good", set |-> S, named |-> FALSE, open |-> FALSE] /\ wanted = S
    BY <1>1 DEF Spa!Init
  <1>3. /\ host = Spa!Down /\ box = [b \in Boxes |-> Spa!NoBox] /\ skillDir = [linked |-> {}, own |-> {}]
        /\ md \in {"none", "legacy"} /\ local = "none" /\ (hadNotes <=> md = "legacy")
        /\ listFile \in Spa!Lists /\ listCache = "unread"
        /\ edits = 0 /\ spawns = 0 /\ spawnTrouble = 0 /\ raced = FALSE /\ made = {} /\ desired = {}
    BY <1>1 DEF Spa!Init
  <1>4. /\ file \in Files /\ file.set = S /\ file.state \in {"absent", "good"} /\ (file.state = "absent" => S = {})
        /\ S \in SUBSET Settings
    BY <1>2 DEF Files
  <1>5. skillDir \in SkillDirs /\ skillDir.linked = {} /\ skillDir.own = {}
    BY <1>3 DEF SkillDirs
  <1>6. SpawnTypes
    <2>1. box \in [Boxes -> Containers] /\ host \in Stretches
      BY <1>3, FreeAndDown, NoBoxIs
    <2>2. edits \in 0 .. MaxEdits /\ spawns \in 0 .. MaxSpawns /\ spawnTrouble \in 0 .. MaxSpawnTrouble
      BY <1>3, SpawnAssumption
    <2> QED
      BY <1>2, <1>3, <1>4, <1>5, <2>1, <2>2 DEF SpawnTypes
  <1>7. HeldKept
    BY <1>2, <1>3, <1>4, FreeAndDown, SpawnAssumption DEF HeldKept, Spa!SettingsSurvive
  <1>8. \A b \in Boxes : BoxKept(b)
    BY <1>3, NoBoxIs DEF BoxKept, Assembled
  <1>9. Spa!SkillsFollow /\ NotesKept
    BY <1>3, <1>5, FreeAndDown DEF Spa!SkillsFollow, NotesKept
  <1> QED
    BY <1>6, <1>7, <1>8, <1>9 DEF SpawnInv, SpawnKept

\* A container starts with what the operator saved last, and starting it loses
\* nothing of his or the agent's, whatever edits, failures and restarts of the
\* host fall between the steps (container-runner.ts, container-config.ts).
THEOREM SpawnSafe == Spec => []SpawnFaithful
  <1>1. Init => SpawnInv
    BY SpawnInit
  <1>2. ASSUME SpawnInv, [Next]_vars PROVE SpawnInv'
    <2>1. CASE focus = "spawn" /\ Spa!Next /\ UNCHANGED focus
      <3>1. SpawnKept
        BY <1>2, <2>1 DEF SpawnInv
      <3>2. SpawnKept'
        BY <2>1, <3>1, EditSteps, ReadStep, NameSteps, MountStep, RunSteps, SkillStep, HostSteps DEF Spa!Next
      <3> QED
        BY <3>2 DEF SpawnInv
    <2>2. CASE UNCHANGED <<focus, spaVars>>
      BY <1>2, <2>2 DEF SpawnInv, SpawnKept, SpawnTypes, HeldKept, Spa!SettingsSurvive, BoxKept, NotesKept,
         Spa!SkillsFollow, spaVars
    <2>3. UNCHANGED focus /\ (~ (focus = "spawn" /\ Spa!Next) => UNCHANGED spaVars)
      BY <1>2 DEF Next, vars
    <2> QED
      BY <2>1, <2>2, <2>3
  <1>3. SpawnInv => SpawnFaithful
    <2> SUFFICES ASSUME SpawnKept PROVE Spa!SpawnFaithful
      BY DEF SpawnInv, SpawnFaithful
    <2>1. Spa!TypeOK
      BY DEF SpawnKept, SpawnTypes, Spa!TypeOK, Files, Stretches, Containers, Assembled, SkillDirs
    <2>2. Spa!StartedAsSaved
      BY DEF SpawnKept, BoxKept, Spa!StartedAsSaved
    <2>3. Spa!RunnerAgrees
      BY DEF SpawnKept, BoxKept, Spa!RunnerAgrees
    <2>4. Spa!OneList
      BY DEF SpawnKept, BoxKept, Spa!OneList
    <2>5. Spa!NotesSurvive
      BY DEF SpawnKept, NotesKept, Spa!NotesSurvive
    <2> QED
      BY <2>1, <2>2, <2>3, <2>4, <2>5 DEF SpawnKept, HeldKept, Spa!SpawnFaithful
  <1> QED
    BY <1>1, <1>2, <1>3, PTL DEF Spec

(***************************************************************************)
(* Routed turns: the inductive invariant.                                  *)
(***************************************************************************)
\* Where a turn stands, the gate, the outbound rows and the classifications.
Phases == [at : {"idle", "attempt", "waiting", "decided", "delegate", "gate", "execute", "ack"},
           turn : Turns \cup {Rou!NoTurn}, tries : 0 .. RetryTimes + 1, offered : SUBSET Staff, id : Nat,
           action : Rou!Actions \cup {"none"}, target : Staff \cup {"none"}]
Gates == [id : Nat, action : Rou!Actions \cup {"none"}, origin : Places \cup {"none"}]
OutRows == [kind : {"class", "agent", "channel", "ask", "note"}, id : Nat, to : Places \cup Staff \cup {"none"},
            turn : Turns, action : Rou!Actions \cup ToolActions \cup {"none"}]
Entries == [action : Rou!Actions \cup ToolActions \cup {"none"}, outcome : Nat, turn : Turns \cup {Rou!NoTurn}]

RoutedTypes ==
    /\ progress \in [Turns -> {"pending", "processing", "done"}]
    /\ phase \in Phases /\ gate \in Gates /\ staffed \subseteq Staff
    /\ issued \in Nat /\ childId \in 0 .. issued /\ gate.id \in 0 .. issued
    /\ outRows \in Seq(OutRows) /\ Len(outRows) <= MaxOutRows /\ taken \in 0 .. Len(outRows)
    /\ logged \in Seq(Entries) /\ Len(logged) = issued
    /\ routeTrouble \in 0 .. MaxRouteTrouble /\ cutAfter \in [Turns -> Nat]

\* The row of a decision to delegate.
DecisionRow(id, t) == Rou!Row("class", id, "none", t, "delegate")

\* Until the runner wrote its decision no row carries it; then its row is there.
PhaseKept ==
    /\ phase.at # "idle" => phase.turn \in Turns /\ progress[phase.turn] = "processing"
    /\ phase.at \in {"attempt", "waiting", "decided", "delegate", "gate"} => phase.turn \in Routed
    /\ phase.turn \in Routed => phase.id \in 1 .. issued
    /\ phase.at = "attempt" => phase.tries <= RetryTimes
    /\ phase.at \in {"attempt", "waiting", "decided"} =>
          \A i \in 1 .. Len(outRows) : outRows[i].kind = "class" => outRows[i].id # phase.id
    /\ phase.at = "decided" /\ phase.action = "delegate" => phase.target \in Staff
    /\ phase.at = "delegate" =>
          /\ phase.action = "delegate" /\ phase.target \in Staff
          /\ \E j \in 1 .. Len(outRows) : outRows[j] = DecisionRow(phase.id, phase.turn)
    /\ Rou!GateIsOwn

\* A row of a routed turn goes home, or is the delegation decided on before it.
RowOf(i) ==
    /\ outRows[i].id \in 0 .. issued
    /\ outRows[i].kind = "class" => outRows[i].id # 0
    /\ outRows[i].turn \in Routed /\ outRows[i].kind \in {"channel", "ask"} =>
          outRows[i].to = OriginOf[outRows[i].turn]
    /\ outRows[i].turn \in Routed /\ outRows[i].kind = "agent" =>
          /\ outRows[i].id # 0
          /\ \E j \in 1 .. i - 1 : outRows[j] = DecisionRow(outRows[i].id, outRows[i].turn)

\* A classification is written once.
ClassesApart ==
    \A i, j \in 1 .. Len(outRows) :
       outRows[i].kind = "class" /\ outRows[j].kind = "class" /\ outRows[i].id = outRows[j].id => i = j

\* The log says what the host has read, and nothing it has not.
LogKept ==
    /\ \A d \in 1 .. issued : logged[d].outcome \in 0 .. taken
    /\ \A j \in 1 .. taken : outRows[j].kind = "class" => logged[outRows[j].id].action = outRows[j].action
    /\ Rou!OutcomeTrue
    /\ Rou!DelegationLinked

\* The delegations of a turn; one more than its crashes only once it is done.
Delegations(t) == {i \in 1 .. Len(outRows) : outRows[i].turn = t /\ outRows[i].kind = "agent"}
Owing(t) == progress[t] # "done" /\ ~ (phase.turn = t /\ phase.at = "ack" /\ phase.action = "delegate")
CountKept(t) ==
    /\ Cardinality(Delegations(t)) <= 1 + cutAfter[t]
    /\ Owing(t) => Cardinality(Delegations(t)) <= cutAfter[t]

RoutedKept ==
    /\ RoutedTypes
    /\ PhaseKept
    /\ \A i \in 1 .. Len(outRows) : RowOf(i)
    /\ ClassesApart
    /\ LogKept
    /\ \A t \in Routed : CountKept(t)

\* What a row says.
LEMMA RowSays ==
    \A k, d, to, t, a : /\ Rou!Row(k, d, to, t, a).kind = k /\ Rou!Row(k, d, to, t, a).id = d
                        /\ Rou!Row(k, d, to, t, a).to = to /\ Rou!Row(k, d, to, t, a).turn = t
                        /\ Rou!Row(k, d, to, t, a).action = a
  BY DEF Rou!Row

\* A row is an outbound row.
LEMMA RowIs ==
    ASSUME NEW k \in {"class", "agent", "channel", "ask", "note"}, NEW d \in Nat,
           NEW to \in Places \cup Staff \cup {"none"}, NEW t \in Turns,
           NEW a \in Rou!Actions \cup ToolActions \cup {"none"}
    PROVE  Rou!Row(k, d, to, t, a) \in OutRows
  BY DEF Rou!Row, OutRows

\* What the row of a decision says.
LEMMA DecisionSays ==
    \A d, t : DecisionRow(d, t).kind = "class" /\ DecisionRow(d, t).id = d /\ DecisionRow(d, t).action = "delegate"
  BY RowSays DEF DecisionRow

\* A row is written behind the others.
LEMMA Written ==
    ASSUME RoutedTypes, NEW row \in OutRows, Rou!Write(row)
    PROVE  /\ outRows' \in Seq(OutRows) /\ Len(outRows') = Len(outRows) + 1 /\ Len(outRows') <= MaxOutRows
           /\ \A i \in 1 .. Len(outRows) : outRows'[i] = outRows[i]
           /\ outRows'[Len(outRows) + 1] = row
           /\ Len(outRows) \in Nat
  BY RoutedAssumption DEF RoutedTypes, Rou!Write, Rou!Room

\* The log stays, or gets the place of a classification to come.
LogGrows == \/ UNCHANGED <<issued, logged>>
            \/ issued' = issued + 1 /\ logged' = Append(logged, Rou!NoEntry)

\* The place of a classification to come.
LEMMA NoEntryIs ==
    /\ Rou!NoEntry \in Entries /\ Rou!NoEntry.outcome = 0 /\ Rou!NoEntry.action = "none"
  BY DEF Rou!NoEntry, Entries, Rou!None

\* The log stays a log.
LEMMA LogIs ==
    ASSUME RoutedTypes, LogGrows
    PROVE  /\ issued' \in Nat /\ issued <= issued' /\ logged' \in Seq(Entries) /\ Len(logged') = issued'
           /\ \A d \in 1 .. issued : logged'[d] = logged[d]
           /\ \A d \in 1 .. issued' : d \in 1 .. issued \/ logged'[d] = Rou!NoEntry
  <1>1. CASE UNCHANGED <<issued, logged>>
    BY <1>1 DEF RoutedTypes
  <1>2. CASE issued' = issued + 1 /\ logged' = Append(logged, Rou!NoEntry)
    BY <1>2, NoEntryIs, SMTT(40) DEF RoutedTypes
  <1> QED
    BY <1>1, <1>2 DEF LogGrows

\* What the host has logged stays true while it handles nothing.
LEMMA LogStays ==
    ASSUME RoutedKept, LogGrows, taken' = taken, Len(outRows') \in Nat, Len(outRows) <= Len(outRows'),
           \A i \in 1 .. Len(outRows) : outRows'[i] = outRows[i]
    PROVE  LogKept'
  <1>1. /\ issued' \in Nat /\ issued <= issued'
        /\ \A d \in 1 .. issued : logged'[d] = logged[d]
        /\ \A d \in 1 .. issued' : d \in 1 .. issued \/ logged'[d] = Rou!NoEntry
    BY LogIs DEF RoutedKept
  <1>2. /\ taken \in 0 .. Len(outRows) /\ Len(outRows) \in Nat /\ taken \in Nat /\ issued \in Nat
        /\ \A i \in 1 .. taken : i \in 1 .. Len(outRows) /\ outRows'[i] = outRows[i]
    BY DEF RoutedKept, RoutedTypes
  <1>3. \A i \in 1 .. taken : outRows[i].id \in 0 .. issued /\ (outRows[i].kind = "class" => outRows[i].id \in 1 .. issued)
    BY <1>2 DEF RoutedKept, RowOf
  <1>4. \A d \in 1 .. issued' : logged'[d].outcome \in 0 .. taken'
    BY <1>1, <1>2, NoEntryIs DEF RoutedKept, LogKept
  <1>5. \A j \in 1 .. taken' : outRows'[j].kind = "class" => logged'[outRows'[j].id].action = outRows'[j].action
    BY <1>1, <1>2, <1>3 DEF RoutedKept, LogKept
  <1>6. Rou!OutcomeTrue'
    <2> SUFFICES ASSUME NEW d \in 1 .. issued', logged'[d].outcome # Rou!None,
                        outRows'[logged'[d].outcome].kind # "class"
                 PROVE  /\ outRows'[logged'[d].outcome].id = d
                        /\ \E surface \in Rou!Surfaces(outRows'[logged'[d].outcome]) :
                              Rou!surfaceAction[surface] = logged'[d].action
      BY DEF Rou!OutcomeTrue
    <2>1. d \in 1 .. issued /\ logged'[d] = logged[d]
      BY <1>1, NoEntryIs DEF Rou!None
    <2>2. logged[d].outcome \in 1 .. taken
      BY <1>2, <2>1 DEF RoutedKept, LogKept, Rou!None
    <2>3. outRows'[logged[d].outcome] = outRows[logged[d].outcome]
      BY <1>2, <2>2
    <2> QED
      BY <2>1, <2>3 DEF RoutedKept, LogKept, Rou!OutcomeTrue
  <1>7. Rou!DelegationLinked'
    <2> SUFFICES ASSUME NEW i \in 1 .. taken', outRows'[i].kind = "agent", outRows'[i].turn \in Routed
                 PROVE  outRows'[i].id # Rou!None /\ logged'[outRows'[i].id].outcome # Rou!None
      BY DEF Rou!DelegationLinked
    <2>1. i \in 1 .. taken /\ outRows'[i] = outRows[i]
      BY <1>2
    <2>2. outRows[i].id # Rou!None /\ logged[outRows[i].id].outcome # Rou!None
      BY <2>1 DEF RoutedKept, LogKept, Rou!DelegationLinked
    <2>3. outRows[i].id \in 1 .. issued
      BY <1>2, <1>3, <2>1, <2>2 DEF Rou!None
    <2> QED
      BY <1>1, <2>1, <2>2, <2>3
  <1> QED
    BY <1>4, <1>5, <1>6, <1>7 DEF LogKept

\* The delegations of a turn can be counted.
LEMMA Countable ==
    ASSUME RoutedTypes, NEW t
    PROVE  IsFiniteSet(Delegations(t)) /\ Cardinality(Delegations(t)) \in Nat
  <1>1. Len(outRows) \in Nat
    BY DEF RoutedTypes
  <1>2. IsFiniteSet(1 .. Len(outRows))
    BY <1>1, FS_Interval
  <1>3. Delegations(t) \subseteq 1 .. Len(outRows)
    BY DEF Delegations
  <1> QED
    BY <1>2, <1>3, FS_Subset, FS_CardinalityType

\* What a row may say when it is written.
Proper(row) ==
    /\ row.id \in 0 .. issued'
    /\ row.kind = "class" => row.id # 0 /\ \A i \in 1 .. Len(outRows) : outRows[i].kind = "class" => outRows[i].id # row.id
    /\ row.turn \in Routed /\ row.kind \in {"channel", "ask"} => row.to = OriginOf[row.turn]
    /\ row.turn \in Routed /\ row.kind = "agent" =>
          row.id # 0 /\ \E j \in 1 .. Len(outRows) : outRows[j] = DecisionRow(row.id, row.turn)

\* A proper row keeps the rows, the classifications and the log.
LEMMA WriteKeeps ==
    ASSUME RoutedKept, LogGrows, taken' = taken, NEW row \in OutRows, Rou!Write(row), Proper(row)
    PROVE  /\ \A i \in 1 .. Len(outRows') : RowOf(i)'
           /\ ClassesApart' /\ LogKept' /\ Len(outRows) <= Len(outRows')
           /\ outRows' \in Seq(OutRows) /\ Len(outRows') <= MaxOutRows /\ taken' \in 0 .. Len(outRows')
  <1>1. /\ outRows' \in Seq(OutRows) /\ Len(outRows') = Len(outRows) + 1 /\ Len(outRows') <= MaxOutRows
        /\ \A i \in 1 .. Len(outRows) : outRows'[i] = outRows[i]
        /\ outRows'[Len(outRows) + 1] = row
        /\ Len(outRows) \in Nat
    BY Written DEF RoutedKept
  <1>2. issued \in Nat /\ issued' \in Nat /\ issued <= issued' /\ taken \in 0 .. Len(outRows)
    BY LogIs DEF RoutedKept, RoutedTypes
  <1>3. LogKept'
    BY <1>1, LogStays
  <1>4. ASSUME NEW i \in 1 .. Len(outRows') PROVE RowOf(i)'
    <2>1. CASE i \in 1 .. Len(outRows)
      <3>1. RowOf(i) /\ outRows'[i] = outRows[i] /\ \A j \in 1 .. i - 1 : outRows'[j] = outRows[j]
        BY <1>1, <2>1 DEF RoutedKept
      <3> QED
        BY <1>2, <3>1 DEF RowOf
    <2>2. CASE i = Len(outRows) + 1
      <3>1. outRows'[i] = row /\ i - 1 = Len(outRows) /\ \A j \in 1 .. i - 1 : outRows'[j] = outRows[j]
        BY <1>1, <2>2
      <3> QED
        BY <3>1 DEF RowOf, Proper
    <2> QED
      BY <1>1, <2>1, <2>2
  <1>5. ClassesApart'
    <2> SUFFICES ASSUME NEW i \in 1 .. Len(outRows'), NEW j \in 1 .. Len(outRows'), outRows'[i].kind = "class",
                        outRows'[j].kind = "class", outRows'[i].id = outRows'[j].id
                 PROVE  i = j
      BY DEF ClassesApart
    <2>1. /\ i \in 1 .. Len(outRows) \/ i = Len(outRows) + 1
          /\ j \in 1 .. Len(outRows) \/ j = Len(outRows) + 1
      BY <1>1
    <2> QED
      BY <1>1, <2>1 DEF RoutedKept, ClassesApart, Proper
  <1> QED
    BY <1>1, <1>2, <1>3, <1>4, <1>5

\* A row that is no delegation of a routed turn counts for none of them.
LEMMA CountStays ==
    ASSUME RoutedKept, NEW row \in OutRows, Rou!Write(row), row.turn \in Routed => row.kind # "agent",
           UNCHANGED <<progress, cutAfter>>, phase.at # "ack", NEW t \in Routed
    PROVE  CountKept(t)'
  <1>1. Delegations(t)' = Delegations(t)
    BY Written DEF RoutedKept, Delegations
  <1>2. Owing(t)' => Owing(t)
    BY DEF Owing
  <1> QED
    BY <1>1, <1>2 DEF RoutedKept, CountKept

\* Steps that write no row: the rows stay, the log may get a place.
LEMMA QuietKeeps ==
    ASSUME RoutedKept, LogGrows, UNCHANGED <<outRows, taken>>
    PROVE  /\ \A i \in 1 .. Len(outRows') : RowOf(i)'
           /\ ClassesApart' /\ LogKept' /\ \A t : Delegations(t)' = Delegations(t)
           /\ issued' \in Nat /\ issued <= issued' /\ logged' \in Seq(Entries) /\ Len(logged') = issued'
  <1>1. /\ issued \in Nat /\ issued' \in Nat /\ issued <= issued' /\ Len(outRows) \in Nat
        /\ logged' \in Seq(Entries) /\ Len(logged') = issued'
    BY LogIs DEF RoutedKept, RoutedTypes
  <1>2. LogKept'
    BY <1>1, LogStays
  <1>3. \A i \in 1 .. Len(outRows') : RowOf(i)'
    BY <1>1 DEF RoutedKept, RowOf
  <1>4. ClassesApart' /\ \A t : Delegations(t)' = Delegations(t)
    BY DEF RoutedKept, ClassesApart, Delegations
  <1> QED
    BY <1>1, <1>2, <1>3, <1>4

\* No turn, no gate.
LEMMA NothingIs ==
    /\ Rou!Idle \in Phases /\ Rou!Idle.at = "idle" /\ Rou!Idle.turn = Rou!NoTurn /\ Rou!Idle.tries = 0
    /\ Rou!Idle.id = 0 /\ Rou!NoGate \in Gates /\ Rou!NoGate.id = 0
    /\ Rou!NoTurn \notin Turns /\ Rou!NoTurn \notin Routed
  BY RoutedAssumption DEF Rou!Idle, Rou!NoGate, Rou!NoTurn, Rou!None, Phases, Gates

\* A turn is claimed.
LEMMA ClaimStep == ASSUME RoutedKept, NEW t \in Turns, Rou!Claim(t) PROVE RoutedKept'
  <1>1. /\ phase.at = "idle" /\ progress[t] = "pending" /\ progress' = [progress EXCEPT ![t] = "processing"]
        /\ gate' = Rou!NoGate /\ UNCHANGED <<childId, staffed, outRows, taken, routeTrouble, cutAfter>>
        /\ \/ /\ t \in Routed /\ phase' = [Rou!Idle EXCEPT !.at = "attempt", !.turn = t, !.id = issued + 1]
              /\ issued' = issued + 1 /\ logged' = Append(logged, Rou!NoEntry)
           \/ /\ t \notin Routed /\ phase' = [Rou!Idle EXCEPT !.at = "execute", !.turn = t]
              /\ UNCHANGED <<issued, logged>>
    BY DEF Rou!Claim, Rou!gateAtStart, Rou!Issue, Rou!NewId
  <1>2. LogGrows
    BY <1>1 DEF LogGrows
  <1>3. /\ \A i \in 1 .. Len(outRows') : RowOf(i)'
        /\ ClassesApart' /\ LogKept' /\ \A u : Delegations(u)' = Delegations(u)
        /\ issued' \in Nat /\ issued <= issued' /\ logged' \in Seq(Entries) /\ Len(logged') = issued'
    BY <1>1, <1>2, QuietKeeps
  <1>4. issued \in Nat
    BY DEF RoutedKept, RoutedTypes
  <1>5. /\ phase' \in Phases /\ phase'.turn = t /\ phase'.tries = 0 /\ phase'.at \in {"attempt", "execute"}
        /\ (phase'.at = "attempt" <=> t \in Routed) /\ (t \in Routed => phase'.id = issued + 1 /\ issued' = issued + 1)
    <2>1. 0 \in 0 .. RetryTimes + 1 /\ issued + 1 \in Nat
      BY <1>4, RoutedAssumption
    <2>2. CASE t \in Routed
      <3>1. phase' = [Rou!Idle EXCEPT !.at = "attempt", !.turn = t, !.id = issued + 1] /\ issued' = issued + 1
        BY <1>1, <2>2
      <3>2. phase' \in Phases /\ phase'.turn = t /\ phase'.tries = 0 /\ phase'.at = "attempt" /\ phase'.id = issued + 1
        BY <2>1, <3>1 DEF Rou!Idle, Phases
      <3> QED
        BY <2>2, <3>1, <3>2
    <2>3. CASE t \notin Routed
      <3>1. phase' = [Rou!Idle EXCEPT !.at = "execute", !.turn = t]
        BY <1>1, <2>3
      <3>2. phase' \in Phases /\ phase'.turn = t /\ phase'.tries = 0 /\ phase'.at = "execute"
        BY <2>1, <3>1 DEF Rou!Idle, Phases, Rou!None
      <3> QED
        BY <2>3, <3>2
    <2> QED
      BY <2>2, <2>3
  <1>6. RoutedTypes'
    BY <1>1, <1>3, <1>4, <1>5, NothingIs DEF RoutedKept, RoutedTypes
  <1>7. PhaseKept'
    <2>1. \A i \in 1 .. Len(outRows) : outRows[i].id \in 0 .. issued
      BY DEF RoutedKept, RowOf
    <2>2. progress'[t] = "processing"
      BY <1>1 DEF RoutedKept, RoutedTypes
    <2>3. Rou!GateIsOwn'
      BY <1>1, <1>5 DEF Rou!GateIsOwn
    <2> QED
      BY <1>1, <1>3, <1>4, <1>5, <2>1, <2>2, <2>3, RoutedAssumption DEF PhaseKept
  <1>8. \A u \in Routed : CountKept(u)'
    <2> SUFFICES ASSUME NEW u \in Routed PROVE CountKept(u)'
      OBVIOUS
    <2>1. Owing(u)' => Owing(u)
      BY <1>1, RoutedAssumption DEF Owing, RoutedKept, RoutedTypes
    <2> QED
      BY <1>1, <1>3, <2>1 DEF RoutedKept, CountKept
  <1> QED
    BY <1>3, <1>6, <1>7, <1>8 DEF RoutedKept

\* A decision.
LEMMA DecidedIs ==
    ASSUME RoutedTypes, NEW a \in Rou!Actions, NEW w \in Staff \cup {"none"}
    PROVE  /\ Rou!Decided(a, w) \in Phases /\ Rou!Decided(a, w).at = "decided" /\ Rou!Decided(a, w).turn = phase.turn
           /\ Rou!Decided(a, w).id = phase.id /\ Rou!Decided(a, w).action = a /\ Rou!Decided(a, w).target = w
  <1>1. phase \in Phases /\ 0 \in 0 .. RetryTimes + 1
    BY RoutedAssumption DEF RoutedTypes
  <1>2. Rou!Decided(a, w) = [phase EXCEPT !.at = "decided", !.tries = 0, !.offered = {}, !.action = a, !.target = w]
    BY DEF Rou!Decided
  <1> QED
    BY <1>1, <1>2 DEF Phases

\* The routing model is asked, asked again, answers or is given up, or the gate
\* is set: the turn goes on with the same decision to be written.
Onward ==
    /\ phase' \in Phases /\ phase'.turn = phase.turn /\ phase'.id = phase.id
    /\ phase.at \in {"attempt", "waiting"} /\ phase'.at \in {"attempt", "waiting", "decided"}
    /\ phase'.at = "attempt" => phase'.tries <= RetryTimes
    /\ phase'.at = "decided" /\ phase'.action = "delegate" => phase'.target \in Staff

\* Those steps, and nothing else, leave the turn going on.
LEMMA AskingSteps ==
    ASSUME RoutedKept,
           \/ Rou!buildRoutingContext \/ Rou!loadRoutingPromptFails \/ Rou!parseDecision
           \/ \E retryable \in BOOLEAN : Rou!queryOnceFails(retryable)
    PROVE  Onward /\ UNCHANGED Rou!only
  <1>1. UNCHANGED Rou!only
    BY DEF Rou!buildRoutingContext, Rou!loadRoutingPromptFails, Rou!parseDecision, Rou!queryOnceFails
  <1>2. RoutedTypes
    BY DEF RoutedKept
  <1>3. Rou!fallbackDecision => \E a \in Rou!Actions \ {"delegate"} : phase' = Rou!Decided(a, "none")
    BY DEF Rou!fallbackDecision, Rou!FallbackActions, Rou!Actions
  <1>4. (\E a \in Rou!Actions \ {"delegate"} : phase' = Rou!Decided(a, "none")) /\ phase.at \in {"attempt", "waiting"} => Onward
    BY <1>2, DecidedIs DEF Onward
  <1>5. CASE Rou!buildRoutingContext
    <2>1. phase.at = "attempt" /\ phase' = [phase EXCEPT !.at = "waiting", !.offered = staffed, !.tries = phase.tries + 1]
      BY <1>5 DEF Rou!buildRoutingContext
    <2>2. phase.tries \in 0 .. RetryTimes + 1 /\ phase.tries <= RetryTimes /\ staffed \in SUBSET Staff /\ phase \in Phases
      BY <2>1 DEF RoutedKept, RoutedTypes, PhaseKept, Phases
    <2>3. phase.tries + 1 \in 0 .. RetryTimes + 1
      BY <2>2, RoutedAssumption
    <2>4. phase' \in Phases /\ phase'.turn = phase.turn /\ phase'.id = phase.id /\ phase'.at = "waiting"
      BY <2>1, <2>2, <2>3 DEF Phases
    <2> QED
      BY <1>1, <2>1, <2>4 DEF Onward
  <1>6. CASE Rou!loadRoutingPromptFails
    BY <1>1, <1>3, <1>4, <1>6 DEF Rou!loadRoutingPromptFails
  <1>7. CASE Rou!parseDecision
    <2>1. CASE \E w \in phase.offered : phase' = Rou!Decided("delegate", w)
      <3>1. PICK w \in Staff : phase' = Rou!Decided("delegate", w)
        BY <1>2, <2>1 DEF RoutedTypes, Phases
      <3>2. "delegate" \in Rou!Actions /\ phase.at = "waiting"
        BY <1>7 DEF Rou!Actions, Rou!parseDecision
      <3> QED
        BY <1>1, <1>2, <3>1, <3>2, DecidedIs DEF Onward
    <2> QED
      BY <1>1, <1>4, <1>7, <2>1 DEF Rou!parseDecision
  <1>8. CASE \E retryable \in BOOLEAN : Rou!queryOnceFails(retryable)
    <2>1. /\ phase.at = "waiting"
          /\ \/ phase.tries <= RetryTimes /\ phase' = [phase EXCEPT !.at = "attempt"]
             \/ Rou!fallbackDecision
      BY <1>8 DEF Rou!queryOnceFails
    <2>2. CASE phase.tries <= RetryTimes /\ phase' = [phase EXCEPT !.at = "attempt"]
      <3>1. /\ phase' \in Phases /\ phase'.turn = phase.turn /\ phase'.id = phase.id /\ phase'.at = "attempt"
            /\ phase'.tries = phase.tries
        BY <1>2, <2>2 DEF RoutedTypes, Phases
      <3> QED
        BY <1>1, <2>1, <2>2, <3>1 DEF Onward
    <2> QED
      BY <1>1, <1>3, <1>4, <2>1, <2>2
  <1> QED
    BY <1>5, <1>6, <1>7, <1>8

\* A turn that goes on keeps the invariant.
LEMMA OnwardKeeps == ASSUME RoutedKept, Onward, UNCHANGED Rou!only PROVE RoutedKept'
  <1>1. /\ UNCHANGED <<progress, gate, childId, staffed, outRows, taken, logged, issued, routeTrouble, cutAfter>>
        /\ LogGrows
    BY DEF Rou!only, Rou!host, LogGrows
  <1>2. /\ \A i \in 1 .. Len(outRows') : RowOf(i)'
        /\ ClassesApart' /\ LogKept' /\ \A u : Delegations(u)' = Delegations(u)
    BY <1>1, QuietKeeps
  <1>3. RoutedTypes'
    BY <1>1 DEF RoutedKept, RoutedTypes, Onward
  <1>4. PhaseKept'
    BY <1>1 DEF RoutedKept, PhaseKept, Onward, Rou!GateIsOwn
  <1>5. \A u \in Routed : CountKept(u)'
    BY <1>1, <1>2 DEF RoutedKept, CountKept, Owing, Onward
  <1> QED
    BY <1>2, <1>3, <1>4, <1>5 DEF RoutedKept

\* The gate is set.
LEMMA GateStep == ASSUME RoutedKept, Rou!setRoutingGate PROVE RoutedKept'
  <1>1. /\ phase.at = "gate" /\ phase' = [phase EXCEPT !.at = "execute"]
        /\ gate' = [id |-> phase.id, action |-> phase.action, origin |-> OriginOf[phase.turn]]
        /\ UNCHANGED <<progress, childId, staffed, outRows, taken, logged, issued, routeTrouble, cutAfter>>
        /\ LogGrows
    BY DEF Rou!setRoutingGate, Rou!host, LogGrows
  <1>2. /\ \A i \in 1 .. Len(outRows') : RowOf(i)'
        /\ ClassesApart' /\ LogKept' /\ \A u : Delegations(u)' = Delegations(u)
    BY <1>1, QuietKeeps
  <1>3. /\ phase' \in Phases /\ phase'.at = "execute" /\ phase'.turn = phase.turn /\ phase'.id = phase.id
        /\ phase \in Phases
    BY <1>1 DEF RoutedKept, RoutedTypes, Phases
  <1>4. phase.turn \in Routed /\ phase.turn \in Turns /\ phase.id \in 1 .. issued
    BY <1>1, RoutedAssumption DEF RoutedKept, PhaseKept
  <1>5. gate' \in Gates /\ gate'.id = phase.id /\ gate'.origin = OriginOf[phase.turn]
    BY <1>1, <1>3, <1>4, RoutedAssumption DEF Gates, Phases
  <1>6. RoutedTypes'
    BY <1>1, <1>3, <1>4, <1>5 DEF RoutedKept, RoutedTypes
  <1>7. PhaseKept'
    BY <1>1, <1>3, <1>4, <1>5 DEF RoutedKept, PhaseKept, Rou!GateIsOwn
  <1>8. \A u \in Routed : CountKept(u)'
    BY <1>1, <1>2 DEF RoutedKept, CountKept, Owing
  <1> QED
    BY <1>2, <1>6, <1>7, <1>8 DEF RoutedKept

\* The decision is written, then, if it is one to delegate, the delegation.
LEMMA DecisionSteps == ASSUME RoutedKept, Rou!writeRoutingClassification PROVE RoutedKept'
  <1> DEFINE row == Rou!Row("class", phase.id, "none", phase.turn, phase.action)
  <1>1. /\ phase.at = "decided" /\ Rou!Write(row)
        /\ phase' = [phase EXCEPT !.at = IF phase.action = "delegate" THEN "delegate" ELSE "gate"]
        /\ UNCHANGED <<progress, gate, childId, staffed, taken, logged, issued, routeTrouble, cutAfter>>
        /\ LogGrows
    BY DEF Rou!writeRoutingClassification, Rou!host, LogGrows
  <1>2. phase.turn \in Routed /\ phase.turn \in Turns /\ phase.id \in 1 .. issued /\ issued \in Nat /\ phase \in Phases
    BY <1>1, RoutedAssumption DEF RoutedKept, RoutedTypes, PhaseKept
  <1>3. row \in OutRows /\ row.kind = "class" /\ row.id = phase.id
    <2>1. /\ phase.id \in Nat /\ phase.action \in Rou!Actions \cup ToolActions \cup {"none"}
          /\ "none" \in Places \cup Staff \cup {"none"}
      BY <1>2 DEF Phases
    <2>2. row \in OutRows
      BY <1>2, <2>1 DEF Rou!Row, OutRows
    <2> QED
      BY <2>2, RowSays
  <1>4. Proper(row)
    BY <1>1, <1>2, <1>3 DEF Proper, RoutedKept, PhaseKept
  <1>5. phase.action = "delegate" => row = DecisionRow(phase.id, phase.turn)
    BY DEF DecisionRow
  <1> HIDE DEF row
  <1>6. /\ \A i \in 1 .. Len(outRows') : RowOf(i)'
        /\ ClassesApart' /\ LogKept' /\ outRows' \in Seq(OutRows) /\ Len(outRows') <= MaxOutRows
        /\ taken' \in 0 .. Len(outRows')
    BY <1>1, <1>3, <1>4, WriteKeeps
  <1>7. /\ phase' \in Phases /\ phase'.at = (IF phase.action = "delegate" THEN "delegate" ELSE "gate")
        /\ phase'.turn = phase.turn /\ phase'.id = phase.id /\ phase'.action = phase.action
        /\ phase'.target = phase.target
    BY <1>1, <1>2 DEF Phases
  <1>8. RoutedTypes'
    BY <1>1, <1>6, <1>7 DEF RoutedKept, RoutedTypes
  <1>9. PhaseKept'
    <2>1. \E j \in 1 .. Len(outRows') : outRows'[j] = row
      BY <1>1, <1>3, Written DEF RoutedKept
    <2> QED
      BY <1>1, <1>2, <1>5, <1>7, <2>1 DEF RoutedKept, PhaseKept, Rou!GateIsOwn
  <1>10. \A u \in Routed : CountKept(u)'
    BY <1>1, <1>3, CountStays
  <1> QED
    BY <1>6, <1>8, <1>9, <1>10 DEF RoutedKept

\* The runner writes the delegation: the one row that counts.
LEMMA DelegationStep == ASSUME RoutedKept, Rou!writeDirectDelegation PROVE RoutedKept'
  <1> DEFINE row == Rou!Row("agent", phase.id, phase.target, phase.turn, "none")
  <1>1. /\ phase.at = "delegate" /\ Rou!Write(row) /\ phase' = [phase EXCEPT !.at = "ack"]
        /\ UNCHANGED <<progress, gate, childId, staffed, taken, logged, issued, routeTrouble, cutAfter>>
        /\ LogGrows
    BY DEF Rou!writeDirectDelegation, Rou!delegationId, Rou!afterDelegation, Rou!host, LogGrows
  <1>2. /\ phase.turn \in Routed /\ phase.turn \in Turns /\ phase.id \in 1 .. issued /\ issued \in Nat
        /\ phase \in Phases /\ phase.action = "delegate" /\ phase.target \in Staff
        /\ \E j \in 1 .. Len(outRows) : outRows[j] = DecisionRow(phase.id, phase.turn)
    BY <1>1, RoutedAssumption DEF RoutedKept, RoutedTypes, PhaseKept
  <1>3. row \in OutRows /\ row.kind = "agent" /\ row.id = phase.id /\ row.turn = phase.turn
    BY <1>2, RowIs, RowSays
  <1>4. Proper(row)
    BY <1>1, <1>2, <1>3 DEF Proper
  <1> HIDE DEF row
  <1>5. /\ \A i \in 1 .. Len(outRows') : RowOf(i)'
        /\ ClassesApart' /\ LogKept' /\ outRows' \in Seq(OutRows) /\ Len(outRows') <= MaxOutRows
        /\ taken' \in 0 .. Len(outRows')
    BY <1>1, <1>3, <1>4, WriteKeeps
  <1>6. /\ phase' \in Phases /\ phase'.at = "ack" /\ phase'.turn = phase.turn /\ phase'.id = phase.id
        /\ phase'.action = phase.action
    BY <1>1, <1>2 DEF Phases
  <1>7. RoutedTypes'
    BY <1>1, <1>5, <1>6 DEF RoutedKept, RoutedTypes
  <1>8. PhaseKept'
    BY <1>1, <1>2, <1>6 DEF RoutedKept, PhaseKept, Rou!GateIsOwn
  <1>9. ASSUME NEW u \in Routed PROVE CountKept(u)'
    <2>1. /\ Len(outRows') = Len(outRows) + 1 /\ Len(outRows) \in Nat /\ outRows'[Len(outRows) + 1] = row
          /\ \A i \in 1 .. Len(outRows) : outRows'[i] = outRows[i]
      BY <1>1, <1>3, Written DEF RoutedKept
    <2>2. CASE u = phase.turn
      <3>1. Delegations(u)' = Delegations(u) \cup {Len(outRows) + 1} /\ Len(outRows) + 1 \notin Delegations(u)
        BY <1>3, <2>1, <2>2 DEF Delegations
      <3>2. IsFiniteSet(Delegations(u)) /\ Cardinality(Delegations(u)) \in Nat
        BY Countable DEF RoutedKept
      <3>3. Cardinality(Delegations(u)') = Cardinality(Delegations(u)) + 1
        BY <3>1, <3>2, FS_AddElement
      <3>4. Owing(u) /\ cutAfter[u] \in Nat
        BY <1>1, <1>2, <2>2 DEF Owing, RoutedKept, PhaseKept, RoutedTypes
      <3>5. ~ Owing(u)'
        BY <1>2, <1>6, <2>2 DEF Owing
      <3> QED
        BY <1>1, <3>2, <3>3, <3>4, <3>5 DEF RoutedKept, CountKept
    <2>3. CASE u # phase.turn
      <3>1. Delegations(u)' = Delegations(u)
        BY <1>3, <2>1, <2>3 DEF Delegations
      <3>2. Owing(u)' => Owing(u)
        BY <1>1 DEF Owing
      <3> QED
        BY <1>1, <3>1, <3>2 DEF RoutedKept, CountKept
    <2> QED
      BY <2>2, <2>3
  <1> QED
    BY <1>5, <1>7, <1>8, <1>9 DEF RoutedKept

\* What the agent may do to the phase: go on, or hand in its final text.
StillAtWork == phase' = phase \/ phase' = [phase EXCEPT !.at = "ack"]

\* The phase of a turn at work stays as it should.
LEMMA WorkPhase ==
    ASSUME RoutedKept, phase.at = "execute", StillAtWork, UNCHANGED <<progress, gate>>, issued \in Nat, issued' \in Nat,
           issued <= issued'
    PROVE  phase' \in Phases /\ PhaseKept'
  <1>1. /\ phase' \in Phases /\ phase'.at \in {"execute", "ack"} /\ phase'.turn = phase.turn /\ phase'.id = phase.id
    BY DEF StillAtWork, RoutedKept, RoutedTypes, Phases
  <1>2. Rou!GateIsOwn'
    BY <1>1 DEF RoutedKept, PhaseKept, Rou!GateIsOwn
  <1> QED
    BY <1>1, <1>2 DEF RoutedKept, PhaseKept

\* A row the agent writes.
LEMMA WorkKeeps ==
    ASSUME RoutedKept, phase.at = "execute", LogGrows, taken' = taken, childId' \in 0 .. issued',
           UNCHANGED <<progress, gate, staffed, routeTrouble, cutAfter>>, StillAtWork,
           NEW row \in OutRows, Rou!Write(row), Proper(row), row.turn \in Routed => row.kind # "agent"
    PROVE  RoutedKept'
  <1>1. /\ issued \in Nat /\ issued' \in Nat /\ issued <= issued' /\ logged' \in Seq(Entries) /\ Len(logged') = issued'
    BY LogIs DEF RoutedKept, RoutedTypes
  <1>2. /\ \A i \in 1 .. Len(outRows') : RowOf(i)'
        /\ ClassesApart' /\ LogKept' /\ outRows' \in Seq(OutRows) /\ Len(outRows') <= MaxOutRows
        /\ taken' \in 0 .. Len(outRows')
    BY WriteKeeps
  <1>3. phase' \in Phases /\ PhaseKept'
    BY <1>1, WorkPhase
  <1>4. RoutedTypes'
    BY <1>1, <1>2, <1>3 DEF RoutedKept, RoutedTypes
  <1>5. \A t \in Routed : CountKept(t)'
    BY CountStays
  <1> QED
    BY <1>2, <1>3, <1>4, <1>5 DEF RoutedKept

\* Under the gate of a routed turn there is one way to go.
LEMMA HomeBound ==
    ASSUME RoutedKept, phase.at = "execute"
    PROVE  /\ phase.turn \in Turns /\ OriginOf[phase.turn] \in Places
           /\ phase.turn \in Routed =>
                 gate # Rou!NoGate /\ \A to : Rou!enforceRoutingDestination(to) => to = OriginOf[phase.turn]
  <1>1. phase.turn \in Turns /\ OriginOf[phase.turn] \in Places
    BY RoutedAssumption DEF RoutedKept, PhaseKept
  <1>2. phase.turn \in Routed => gate.id # 0 /\ gate.origin = OriginOf[phase.turn]
    BY DEF RoutedKept, RoutedTypes, PhaseKept, Rou!GateIsOwn
  <1>3. phase.turn \in Routed => gate # Rou!NoGate
    BY <1>2, NothingIs
  <1> QED
    BY <1>1, <1>2, <1>3 DEF Rou!enforceRoutingDestination

\* A message the agent sends.
LEMMA SendKeeps ==
    ASSUME RoutedKept, phase.at = "execute", NEW to \in Places \cup Staff, Rou!enforceRoutingDestination(to),
           NEW d \in 0 .. issued, NEW k \in {Rou!Kind(to), "ask"}, k = "ask" => to \in Places,
           Rou!Write(Rou!Row(k, d, to, phase.turn, "none")),
           UNCHANGED <<progress, gate, childId, staffed, taken, logged, issued, routeTrouble, cutAfter>>, StillAtWork
    PROVE  RoutedKept'
  <1> DEFINE row == Rou!Row(k, d, to, phase.turn, "none")
  <1>1. issued \in Nat /\ childId \in 0 .. issued /\ LogGrows
    BY DEF RoutedKept, RoutedTypes, LogGrows
  <1>2. k \in {"agent", "channel", "ask"} /\ (to \in Places => k # "agent")
    BY DEF Rou!Kind
  <1>3. row \in OutRows
    BY <1>1, <1>2, HomeBound DEF Rou!Row, OutRows
  <1>4. row.kind = k /\ row.id = d /\ row.turn = phase.turn /\ row.to = to
    BY RowSays
  <1> HIDE DEF row
  <1>5. phase.turn \in Routed => to = OriginOf[phase.turn] /\ to \in Places
    BY HomeBound
  <1>6. Proper(row)
    BY <1>2, <1>4, <1>5 DEF Proper
  <1>7. row.turn \in Routed => row.kind # "agent"
    BY <1>2, <1>4, <1>5
  <1>8. Rou!Write(row)
    BY DEF row
  <1> QED
    BY <1>1, <1>3, <1>6, <1>7, <1>8, WorkKeeps

\* The agent at work.
LEMMA WorkSteps ==
    ASSUME RoutedKept,
           \/ \E a \in ToolActions : Rou!classifyIntent(a)
           \/ \E to \in Places \cup Staff : Rou!sendMessage(to)
           \/ \E to \in Places \cup Staff : Rou!editMessage(to)
           \/ Rou!escalateToHuman \/ Rou!askUserQuestion \/ Rou!dispatchResultText
    PROVE  RoutedKept'
  <1>1. /\ phase.at = "execute" /\ issued \in Nat /\ gate.id \in 0 .. issued /\ childId \in 0 .. issued
        /\ staffed \subseteq Staff
    BY DEF Rou!classifyIntent, Rou!sendMessage, Rou!editMessage, Rou!escalateToHuman, Rou!askUserQuestion,
       Rou!dispatchResultText, RoutedKept, RoutedTypes
  <1>2. ASSUME NEW a \in ToolActions, Rou!classifyIntent(a) PROVE RoutedKept'
    <2> DEFINE n == issued + 1
               row == Rou!Row("class", n, "none", phase.turn, a)
    <2>1. /\ gate = Rou!NoGate /\ issued' = n /\ childId' = n /\ Rou!Write(row) /\ LogGrows
          /\ UNCHANGED <<progress, phase, gate, staffed, taken, routeTrouble, cutAfter>>
      BY <1>2 DEF Rou!classifyIntent, Rou!Issue, Rou!NewId, LogGrows
    <2>2. n \in Nat /\ n # 0 /\ n \in 0 .. n /\ n \notin 0 .. issued
      BY <1>1
    <2> HIDE DEF n
    <2>3. row \in OutRows
      BY <1>1, <2>2, HomeBound DEF Rou!Row, OutRows
    <2>4. row.kind = "class" /\ row.id = n
      BY RowSays
    <2> HIDE DEF row
    <2>5. Proper(row)
      BY <2>1, <2>2, <2>4 DEF Proper, RoutedKept, RowOf
    <2> QED
      BY <1>1, <2>1, <2>2, <2>3, <2>4, <2>5, WorkKeeps DEF StillAtWork
  <1>3. ASSUME NEW to \in Places \cup Staff, Rou!sendMessage(to) PROVE RoutedKept'
    <2>1. PICK named \in 1 .. issued \cup {IF to \in Places THEN Rou!None ELSE childId} :
             Rou!Write(Rou!Row(Rou!Kind(to), IF gate # Rou!NoGate THEN gate.id ELSE named, to, phase.turn, "none"))
      BY <1>3 DEF Rou!sendMessage
    <2>2. PICK d \in 0 .. issued : Rou!Write(Rou!Row(Rou!Kind(to), d, to, phase.turn, "none"))
      BY <1>1, <2>1 DEF Rou!None
    <2>3. Rou!Kind(to) # "ask"
      BY DEF Rou!Kind
    <2>4. /\ Rou!enforceRoutingDestination(to) /\ StillAtWork
          /\ UNCHANGED <<progress, gate, childId, staffed, taken, logged, issued, routeTrouble, cutAfter>>
      BY <1>3 DEF Rou!sendMessage, Rou!host, StillAtWork
    <2> QED
      BY <1>1, <2>2, <2>3, <2>4, SendKeeps
  <1>4. ASSUME NEW to \in Places \cup Staff, Rou!editMessage(to) PROVE RoutedKept'
    <2>1. /\ Rou!enforceRoutingDestination(to) /\ StillAtWork /\ Rou!Write(Rou!Row(Rou!Kind(to), 0, to, phase.turn, "none"))
          /\ UNCHANGED <<progress, gate, childId, staffed, taken, logged, issued, routeTrouble, cutAfter>>
      BY <1>4 DEF Rou!editMessage, Rou!host, Rou!None, StillAtWork
    <2>2. Rou!Kind(to) # "ask" /\ 0 \in 0 .. issued
      BY <1>1 DEF Rou!Kind
    <2> QED
      BY <1>1, <2>1, <2>2, SendKeeps
  <1>5. CASE Rou!escalateToHuman
    <2> DEFINE row == Rou!Row("note", 0, "none", phase.turn, "none")
    <2>1. /\ Rou!Write(row) /\ LogGrows /\ StillAtWork
          /\ UNCHANGED <<progress, gate, childId, staffed, taken, issued, routeTrouble, cutAfter>>
      BY <1>5 DEF Rou!escalateToHuman, Rou!host, Rou!None, LogGrows, StillAtWork
    <2>2. row \in OutRows
      BY <1>1, HomeBound DEF Rou!Row, OutRows
    <2>3. row.kind = "note" /\ row.id = 0 /\ 0 \in 0 .. issued
      BY <1>1, RowSays
    <2> HIDE DEF row
    <2>4. Proper(row)
      BY <2>1, <2>3 DEF Proper
    <2> QED
      BY <1>1, <2>1, <2>2, <2>3, <2>4, WorkKeeps
  <1>6. CASE Rou!askUserQuestion
    <2>1. /\ Rou!enforceRoutingDestination(OriginOf[phase.turn]) /\ StillAtWork
          /\ Rou!Write(Rou!Row("ask", gate.id, OriginOf[phase.turn], phase.turn, "none"))
          /\ UNCHANGED <<progress, gate, childId, staffed, taken, logged, issued, routeTrouble, cutAfter>>
      BY <1>6 DEF Rou!askUserQuestion, Rou!host, StillAtWork
    <2>2. OriginOf[phase.turn] \in Places
      BY <1>1, HomeBound
    <2> QED
      BY <1>1, <2>1, <2>2, SendKeeps
  <1>7. CASE Rou!dispatchResultText
    <2>1. /\ StillAtWork
          /\ UNCHANGED <<progress, gate, childId, staffed, taken, logged, issued, routeTrouble, cutAfter>>
      BY <1>7 DEF Rou!dispatchResultText, Rou!host, StillAtWork
    <2>2. ASSUME NEW to \in Places \cup staffed, Rou!enforceRoutingDestination(to),
                 Rou!Write(Rou!Row(Rou!Kind(to), gate.id, to, phase.turn, "none"))
          PROVE  RoutedKept'
      <3>1. Rou!Kind(to) # "ask" /\ to \in Places \cup Staff
        BY <1>1 DEF Rou!Kind
      <3> QED
        BY <1>1, <2>1, <2>2, <3>1, SendKeeps
    <2>3. CASE UNCHANGED outRows
      <3>1. LogGrows
        BY <2>1 DEF LogGrows
      <3>2. /\ \A i \in 1 .. Len(outRows') : RowOf(i)'
            /\ ClassesApart' /\ LogKept' /\ \A t : Delegations(t)' = Delegations(t)
        BY <2>1, <2>3, <3>1, QuietKeeps
      <3>3. phase' \in Phases /\ PhaseKept'
        BY <1>1, <2>1, WorkPhase
      <3>4. RoutedTypes'
        BY <2>1, <2>3, <3>3 DEF RoutedKept, RoutedTypes
      <3>5. \A t \in Routed : CountKept(t)'
        BY <1>1, <2>1, <3>2 DEF RoutedKept, CountKept, Owing
      <3> QED
        BY <3>2, <3>3, <3>4, <3>5 DEF RoutedKept
    <2> QED
      BY <1>7, <2>2, <2>3 DEF Rou!dispatchResultText
  <1> QED
    BY <1>2, <1>3, <1>4, <1>5, <1>6, <1>7

\* The turn is over, acknowledged or cut by a crash.
LEMMA EndSteps == ASSUME RoutedKept, Rou!TurnEnds \/ Rou!Crash PROVE RoutedKept'
  <1>1. /\ phase.at # "idle" /\ phase' = Rou!Idle /\ gate' \in {gate, Rou!NoGate} /\ childId' \in {childId, 0}
        /\ progress' \in {[progress EXCEPT ![phase.turn] = "done"], [progress EXCEPT ![phase.turn] = "pending"]}
        /\ routeTrouble' \in {routeTrouble, routeTrouble + 1}
        /\ routeTrouble' # routeTrouble => routeTrouble < MaxRouteTrouble
        /\ LogGrows /\ UNCHANGED <<staffed, outRows, taken, logged, issued>>
    BY DEF Rou!TurnEnds, Rou!Crash, Rou!Trouble, Rou!host, Rou!None, LogGrows
  <1>2. \/ progress' = [progress EXCEPT ![phase.turn] = "done"] /\ UNCHANGED cutAfter
        \/ /\ progress' = [progress EXCEPT ![phase.turn] = "pending"]
           /\ cutAfter' = IF phase.at = "ack" /\ phase.action = "delegate"
                          THEN [cutAfter EXCEPT ![phase.turn] = cutAfter[phase.turn] + 1] ELSE cutAfter
    BY DEF Rou!TurnEnds, Rou!Crash
  <1>3. /\ \A i \in 1 .. Len(outRows') : RowOf(i)'
        /\ ClassesApart' /\ LogKept' /\ \A t : Delegations(t)' = Delegations(t)
    BY <1>1, QuietKeeps
  <1>4. phase.turn \in Turns /\ progress[phase.turn] = "processing" /\ cutAfter \in [Turns -> Nat]
    BY <1>1 DEF RoutedKept, RoutedTypes, PhaseKept
  <1>5. cutAfter' \in [Turns -> Nat]
    BY <1>2, <1>4
  <1>6. RoutedTypes'
    <2>1. routeTrouble' \in 0 .. MaxRouteTrouble
      BY <1>1, RoutedAssumption DEF RoutedKept, RoutedTypes
    <2>2. gate' \in Gates /\ gate'.id \in 0 .. issued /\ childId' \in 0 .. issued
      BY <1>1, NothingIs DEF RoutedKept, RoutedTypes
    <2>3. progress' \in [Turns -> {"pending", "processing", "done"}]
      BY <1>1, <1>4 DEF RoutedKept, RoutedTypes
    <2> QED
      BY <1>1, <1>5, <2>1, <2>2, <2>3, NothingIs DEF RoutedKept, RoutedTypes
  <1>7. PhaseKept'
    BY <1>1, NothingIs DEF PhaseKept, Rou!GateIsOwn
  <1>8. ASSUME NEW t \in Routed PROVE CountKept(t)'
    <2>1. t \in Turns /\ CountKept(t) /\ Delegations(t)' = Delegations(t) /\ Cardinality(Delegations(t)) \in Nat
      BY <1>3, RoutedAssumption, Countable DEF RoutedKept
    <2>2. CASE t # phase.turn
      <3>1. progress'[t] = progress[t] /\ cutAfter'[t] = cutAfter[t]
        BY <1>2, <1>4, <2>1, <2>2 DEF RoutedKept, RoutedTypes
      <3>2. Owing(t)' => Owing(t)
        BY <2>2, <3>1 DEF Owing
      <3> QED
        BY <2>1, <3>1, <3>2 DEF CountKept
    <2>3. CASE t = phase.turn /\ progress' = [progress EXCEPT ![phase.turn] = "done"] /\ UNCHANGED cutAfter
      <3>1. ~ Owing(t)'
        BY <1>4, <2>3 DEF Owing, RoutedKept, RoutedTypes
      <3> QED
        BY <2>1, <2>3, <3>1 DEF CountKept
    <2>4. CASE /\ t = phase.turn /\ progress' = [progress EXCEPT ![phase.turn] = "pending"]
               /\ cutAfter' = IF phase.at = "ack" /\ phase.action = "delegate"
                              THEN [cutAfter EXCEPT ![phase.turn] = cutAfter[phase.turn] + 1] ELSE cutAfter
      <3>1. CASE phase.at = "ack" /\ phase.action = "delegate"
        <4>1. cutAfter'[t] = cutAfter[t] + 1 /\ cutAfter[t] \in Nat
          BY <1>4, <2>4, <3>1
        <4> QED
          BY <2>1, <4>1 DEF CountKept
      <3>2. CASE ~ (phase.at = "ack" /\ phase.action = "delegate")
        <4>1. Owing(t) /\ cutAfter' = cutAfter
          BY <1>4, <2>4, <3>2 DEF Owing
        <4> QED
          BY <2>1, <4>1 DEF CountKept
      <3> QED
        BY <3>1, <3>2
    <2> QED
      BY <1>2, <2>2, <2>3, <2>4
  <1> QED
    BY <1>3, <1>6, <1>7, <1>8 DEF RoutedKept

\* The tools' process ends, or the destinations change.
LEMMA SideSteps == ASSUME RoutedKept, Rou!ChildEnds \/ Rou!replaceDestinations PROVE RoutedKept'
  <1>1. /\ childId' \in {childId, 0} /\ staffed' \subseteq Staff
        /\ routeTrouble' \in {routeTrouble, routeTrouble + 1}
        /\ routeTrouble' # routeTrouble => routeTrouble < MaxRouteTrouble
        /\ LogGrows /\ UNCHANGED <<progress, phase, gate, outRows, taken, logged, issued, cutAfter>>
    BY DEF Rou!ChildEnds, Rou!replaceDestinations, Rou!Trouble, Rou!host, Rou!None, LogGrows, RoutedKept, RoutedTypes
  <1>2. /\ \A i \in 1 .. Len(outRows') : RowOf(i)'
        /\ ClassesApart' /\ LogKept' /\ \A t : Delegations(t)' = Delegations(t)
    BY <1>1, QuietKeeps
  <1>3. routeTrouble' \in 0 .. MaxRouteTrouble /\ childId' \in 0 .. issued
    BY <1>1, RoutedAssumption DEF RoutedKept, RoutedTypes
  <1>4. RoutedTypes' /\ PhaseKept'
    BY <1>1, <1>3 DEF RoutedKept, RoutedTypes, PhaseKept, Rou!GateIsOwn
  <1>5. \A t \in Routed : CountKept(t)'
    BY <1>1, <1>2 DEF RoutedKept, CountKept, Owing
  <1> QED
    BY <1>2, <1>4, <1>5 DEF RoutedKept

\* The host handles a row: rows, phase and counts stay.
LEMMA HandledKeeps ==
    ASSUME RoutedKept, UNCHANGED <<progress, phase, gate, childId, staffed, outRows, issued, routeTrouble, cutAfter>>,
           taken < Len(outRows), taken' = taken + 1, logged' \in Seq(Entries), Len(logged') = issued, LogKept'
    PROVE  RoutedKept'
  <1>1. taken' \in 0 .. Len(outRows)
    BY DEF RoutedKept, RoutedTypes
  <1>2. RoutedTypes' /\ PhaseKept'
    BY <1>1 DEF RoutedKept, RoutedTypes, PhaseKept, Rou!GateIsOwn
  <1>3. \A i \in 1 .. Len(outRows') : RowOf(i)'
    BY DEF RoutedKept, RowOf
  <1>4. ClassesApart' /\ \A t \in Routed : CountKept(t)'
    BY DEF RoutedKept, ClassesApart, CountKept, Owing, Delegations
  <1> QED
    BY <1>2, <1>3, <1>4 DEF RoutedKept

\* What the host finds at the head of the rows it has not handled.
LEMMA HeadIs ==
    ASSUME RoutedKept, taken < Len(outRows)
    PROVE  /\ taken \in Nat /\ taken + 1 \in 1 .. Len(outRows) /\ outRows[taken + 1] \in OutRows /\ RowOf(taken + 1)
           /\ issued \in Nat /\ Len(outRows) \in Nat
           /\ \A i \in 1 .. taken + 1 : i \in 1 .. taken \/ i = taken + 1
           /\ \A i \in 1 .. taken : i \in 1 .. Len(outRows) /\ i # taken + 1 /\ i \in 1 .. taken + 1
           /\ logged \in Seq(Entries) /\ Len(logged) = issued /\ DOMAIN logged = 1 .. issued
           /\ \A d \in 1 .. issued : logged[d] \in Entries /\ logged[d].outcome \in 0 .. taken
  <1>1. taken \in Nat /\ Len(outRows) \in Nat /\ issued \in Nat /\ outRows \in Seq(OutRows)
        /\ logged \in Seq(Entries) /\ Len(logged) = issued
    BY DEF RoutedKept, RoutedTypes
  <1>2. taken + 1 \in 1 .. Len(outRows)
    BY <1>1
  <1>3. outRows[taken + 1] \in OutRows /\ RowOf(taken + 1)
    BY <1>1, <1>2 DEF RoutedKept
  <1>4. /\ \A i \in 1 .. taken + 1 : i \in 1 .. taken \/ i = taken + 1
        /\ \A i \in 1 .. taken : i \in 1 .. Len(outRows) /\ i # taken + 1 /\ i \in 1 .. taken + 1
    BY <1>1
  <1>5. DOMAIN logged = 1 .. issued /\ \A d \in 1 .. issued : logged[d] \in Entries
    BY <1>1
  <1> QED
    BY <1>1, <1>2, <1>3, <1>4, <1>5 DEF RoutedKept, LogKept

\* A classification is logged.
LEMMA ClassHandled == ASSUME RoutedKept, Rou!handleClassifyIntent PROVE RoutedKept'
  <1> DEFINE n == taken + 1
             row == outRows[n]
             out == IF row.action \in {"reject", "answer_self"} THEN n ELSE 0
             entry == [action |-> row.action, turn |-> row.turn, outcome |-> out]
  <1>1. /\ taken < Len(outRows) /\ row.kind = "class" /\ taken' = n /\ logged' = [logged EXCEPT ![row.id] = entry]
        /\ UNCHANGED <<progress, phase, gate, childId, staffed, outRows, issued, routeTrouble, cutAfter>>
    BY DEF Rou!handleClassifyIntent, Rou!None
  <1>2. /\ taken \in Nat /\ n \in 1 .. Len(outRows) /\ row \in OutRows /\ RowOf(n) /\ issued \in Nat
        /\ n \in Nat /\ n # 0
        /\ \A i \in 1 .. n : i \in 1 .. taken \/ i = n
        /\ \A i \in 1 .. taken : i \in 1 .. Len(outRows) /\ i # n
        /\ logged \in Seq(Entries) /\ Len(logged) = issued /\ DOMAIN logged = 1 .. issued
        /\ \A d \in 1 .. issued : logged[d] \in Entries /\ logged[d].outcome \in 0 .. taken
    BY <1>1, HeadIs
  <1>3. out \in {0, n} /\ \A k \in 0 .. taken : k \in 0 .. n
    BY <1>2
  <1> HIDE DEF n
  <1>4. row.id \in 1 .. issued
    BY <1>1, <1>2 DEF RowOf
  <1>5. entry \in Entries /\ entry.action = row.action /\ entry.outcome = out
    BY <1>2, <1>3 DEF Entries, OutRows
  <1> HIDE DEF out, entry
  <1>6. /\ logged' \in Seq(Entries) /\ Len(logged') = issued /\ logged'[row.id] = entry
        /\ \A d \in 1 .. issued : d # row.id => logged'[d] = logged[d]
    BY <1>1, <1>2, <1>4, <1>5
  <1>7. \A j \in 1 .. taken : outRows[j].kind = "class" => outRows[j].id # row.id
    BY <1>1, <1>2 DEF RoutedKept, ClassesApart
  <1>8. \A d \in 1 .. issued : logged'[d].outcome \in 0 .. n
    BY <1>2, <1>3, <1>5, <1>6
  <1>9. \A j \in 1 .. n : outRows[j].kind = "class" => logged'[outRows[j].id].action = outRows[j].action
    <2> SUFFICES ASSUME NEW j \in 1 .. n, outRows[j].kind = "class"
                 PROVE  logged'[outRows[j].id].action = outRows[j].action
      OBVIOUS
    <2>1. CASE j = n
      BY <1>5, <1>6, <2>1
    <2>2. CASE j \in 1 .. taken
      <3>1. outRows[j].id \in 1 .. issued /\ outRows[j].id # row.id
        BY <1>2, <1>7, <2>2, SMTT(40) DEF RoutedKept, RowOf
      <3> QED
        BY <1>6, <2>2, <3>1 DEF RoutedKept, LogKept
    <2> QED
      BY <1>2, <2>1, <2>2
  <1>10. Rou!OutcomeTrue'
    <2> SUFFICES ASSUME NEW d \in 1 .. issued, logged'[d].outcome # Rou!None,
                        outRows[logged'[d].outcome].kind # "class"
                 PROVE  /\ outRows[logged'[d].outcome].id = d
                        /\ \E surface \in Rou!Surfaces(outRows[logged'[d].outcome]) :
                              Rou!surfaceAction[surface] = logged'[d].action
      BY <1>1 DEF Rou!OutcomeTrue
    <2>1. d # row.id
      BY <1>1, <1>3, <1>5, <1>6 DEF Rou!None
    <2> QED
      BY <1>6, <2>1, SMTT(40) DEF RoutedKept, LogKept, Rou!OutcomeTrue
  <1>11. Rou!DelegationLinked'
    <2> SUFFICES ASSUME NEW i \in 1 .. n, outRows[i].kind = "agent", outRows[i].turn \in Routed
                 PROVE  outRows[i].id # Rou!None /\ logged'[outRows[i].id].outcome # Rou!None
      BY <1>1 DEF Rou!DelegationLinked
    <2>1. i \in 1 .. taken /\ i \in 1 .. Len(outRows)
      BY <1>1, <1>2
    <2>2. /\ outRows[i].id # 0 /\ outRows[i].id \in 0 .. issued
          /\ \E j \in 1 .. i - 1 : outRows[j] = DecisionRow(outRows[i].id, outRows[i].turn)
      BY <2>1 DEF RoutedKept, RowOf
    <2>3. PICK j \in 1 .. i - 1 : outRows[j] = DecisionRow(outRows[i].id, outRows[i].turn)
      BY <2>2
    <2>4. j \in 1 .. taken /\ outRows[j].kind = "class" /\ outRows[j].id = outRows[i].id
      BY <1>2, <2>1, <2>3, DecisionSays
    <2>5. outRows[i].id # row.id /\ outRows[i].id \in 1 .. issued
      BY <1>2, <1>7, <2>2, <2>4
    <2> QED
      BY <1>6, <2>1, <2>5 DEF RoutedKept, LogKept, Rou!DelegationLinked
  <1>12. LogKept'
    BY <1>1, <1>8, <1>9, <1>10, <1>11 DEF LogKept
  <1> QED
    BY <1>1, <1>6, <1>12, HandledKeeps DEF n

\* A message is linked to its classification, or a note is passed over.
LEMMA MessageHandled ==
    ASSUME RoutedKept, Rou!reconcileClassification \/ Rou!handleRoutingFeedback PROVE RoutedKept'
  <1> DEFINE n == taken + 1
             row == outRows[n]
             Linked == \E surface \in Rou!Surfaces(row) : Rou!linkOutcome(row, surface)
  <1>1. /\ taken < Len(outRows) /\ row.kind # "class" /\ taken' = n
        /\ UNCHANGED <<progress, phase, gate, childId, staffed, outRows, issued, routeTrouble, cutAfter>>
        /\ \/ Linked /\ logged' = [logged EXCEPT ![row.id].outcome = n]
           \/ ~ (Linked /\ row.kind = "agent") /\ logged' = logged
    BY DEF Rou!reconcileClassification, Rou!handleRoutingFeedback
  <1>2. /\ taken \in Nat /\ n \in 1 .. Len(outRows) /\ row \in OutRows /\ RowOf(n) /\ issued \in Nat
        /\ n \in Nat /\ n # 0
        /\ \A i \in 1 .. n : i \in 1 .. taken \/ i = n
        /\ \A i \in 1 .. taken : i \in 1 .. Len(outRows) /\ i # n
        /\ logged \in Seq(Entries) /\ Len(logged) = issued /\ DOMAIN logged = 1 .. issued
        /\ \A d \in 1 .. issued : logged[d] \in Entries /\ logged[d].outcome \in 0 .. taken
    BY <1>1, HeadIs
  <1>3. n \in 0 .. n /\ \A k \in 0 .. taken : k \in 0 .. n
    BY <1>2
  <1> HIDE DEF n
  <1>4. /\ logged' \in Seq(Entries) /\ Len(logged') = issued
        /\ \A d \in 1 .. issued : logged'[d].action = logged[d].action
        /\ \A d \in 1 .. issued : \/ logged'[d] = logged[d]
                                  \/ d = row.id /\ Linked /\ logged'[d].outcome = n
        /\ Linked /\ row.kind = "agent" => row.id \in 1 .. issued /\ logged'[row.id].outcome = n
    <2>1. CASE ~ (Linked /\ row.kind = "agent") /\ logged' = logged
      BY <1>2, <2>1
    <2>2. CASE Linked /\ logged' = [logged EXCEPT ![row.id].outcome = n]
      <3>1. row.id \in 1 .. issued
        BY <1>2, <2>2 DEF RowOf, Rou!linkOutcome, Rou!None
      <3> DEFINE e == [logged[row.id] EXCEPT !.outcome = n]
      <3>2. logged' = [logged EXCEPT ![row.id] = e]
        BY <1>2, <2>2, <3>1
      <3>3. e \in Entries /\ e.outcome = n /\ e.action = logged[row.id].action
        <4>1. logged[row.id] \in Entries /\ n \in Nat
          BY <1>2, <3>1
        <4> QED
          BY <4>1 DEF Entries
      <3> HIDE DEF e, Linked
      <3>4. /\ logged' \in Seq(Entries) /\ Len(logged') = issued /\ logged'[row.id] = e
            /\ \A d \in 1 .. issued : d # row.id => logged'[d] = logged[d]
        BY <1>2, <3>1, <3>2, <3>3
      <3> QED
        BY <2>2, <3>1, <3>3, <3>4
    <2> QED
      BY <1>1, <2>1, <2>2
  <1>5. \A d \in 1 .. issued : logged'[d].outcome \in 0 .. n
    BY <1>2, <1>3, <1>4
  <1>6. \A j \in 1 .. n : outRows[j].kind = "class" => logged'[outRows[j].id].action = outRows[j].action
    <2> SUFFICES ASSUME NEW j \in 1 .. n, outRows[j].kind = "class"
                 PROVE  logged'[outRows[j].id].action = outRows[j].action
      OBVIOUS
    <2>1. j \in 1 .. taken /\ j \in 1 .. Len(outRows)
      BY <1>1, <1>2
    <2>2. outRows[j].id \in 1 .. issued
      BY <1>2, <2>1 DEF RoutedKept, RowOf
    <2> QED
      BY <1>4, <2>1, <2>2 DEF RoutedKept, LogKept
  <1>7. Rou!OutcomeTrue'
    <2> SUFFICES ASSUME NEW d \in 1 .. issued, logged'[d].outcome # Rou!None,
                        outRows[logged'[d].outcome].kind # "class"
                 PROVE  /\ outRows[logged'[d].outcome].id = d
                        /\ \E surface \in Rou!Surfaces(outRows[logged'[d].outcome]) :
                              Rou!surfaceAction[surface] = logged'[d].action
      BY <1>1 DEF Rou!OutcomeTrue
    <2>1. CASE logged'[d] = logged[d]
      BY <2>1 DEF RoutedKept, LogKept, Rou!OutcomeTrue
    <2>2. CASE d = row.id /\ Linked /\ logged'[d].outcome = n
      <3>1. outRows[logged'[d].outcome] = row
        BY <2>2
      <3>2. PICK surface \in Rou!Surfaces(row) : Rou!surfaceAction[surface] = logged[d].action
        BY <2>2 DEF Rou!linkOutcome
      <3> QED
        BY <1>4, <2>2, <3>1, <3>2
    <2> QED
      BY <1>4, <2>1, <2>2
  <1>8. Rou!DelegationLinked'
    <2> SUFFICES ASSUME NEW i \in 1 .. n, outRows[i].kind = "agent", outRows[i].turn \in Routed
                 PROVE  outRows[i].id # Rou!None /\ logged'[outRows[i].id].outcome # Rou!None
      BY <1>1 DEF Rou!DelegationLinked
    <2>1. i \in 1 .. Len(outRows)
      BY <1>2
    <2>2. /\ outRows[i].id # 0 /\ outRows[i].id \in 1 .. issued
          /\ \E j \in 1 .. i - 1 : outRows[j] = DecisionRow(outRows[i].id, outRows[i].turn)
      BY <1>2, <2>1 DEF RoutedKept, RowOf
    <2>3. CASE i \in 1 .. taken
      BY <1>2, <1>4, <2>2, <2>3 DEF RoutedKept, LogKept, Rou!DelegationLinked, Rou!None
    <2>4. CASE i = n
      <3>1. PICK j \in 1 .. i - 1 : outRows[j] = DecisionRow(outRows[i].id, outRows[i].turn)
        BY <2>2
      <3>2. j \in 1 .. taken /\ outRows[j].kind = "class" /\ outRows[j].id = row.id /\ outRows[j].action = "delegate"
        BY <1>2, <2>4, <3>1, DecisionSays DEF n
      <3>3. logged[row.id].action = "delegate"
        BY <3>2 DEF RoutedKept, LogKept
      <3>4. Rou!surfaceAction["agent"] = "delegate" /\ "agent" \in Rou!Surfaces(row)
        BY <2>4 DEF Rou!surfaceAction, Rou!Surfaces
      <3>5. logged[row.id].outcome = 0 => Linked
        BY <2>2, <2>4, <3>3, <3>4 DEF Rou!linkOutcome, Rou!None
      <3> HIDE DEF Linked
      <3>6. logged'[row.id].outcome = 0 => logged'[row.id] = logged[row.id] /\ ~ Linked
        BY <1>2, <1>4, <2>2, <2>4
      <3> QED
        BY <2>2, <2>4, <3>5, <3>6 DEF Rou!None
    <2> QED
      BY <1>2, <2>3, <2>4
  <1>9. LogKept'
    BY <1>1, <1>5, <1>6, <1>7, <1>8 DEF LogKept
  <1> QED
    BY <1>1, <1>4, <1>9, HandledKeeps DEF n

\* The invariant speaks of the behaviours about routed turns.
RoutedInv == focus = "routed" => RoutedKept

\* Before the first turn.
LEMMA RoutedInit == ASSUME Init PROVE RoutedInv
  <1>1. Rou!Init
    BY DEF Init
  <1>2. /\ progress = [t \in Turns |-> "pending"] /\ phase = Rou!Idle
        /\ gate = Rou!NoGate /\ childId = 0 /\ staffed = Staff
        /\ outRows = <<>> /\ taken = 0 /\ logged = <<>> /\ issued = 0 /\ routeTrouble = 0
        /\ cutAfter = [t \in Turns |-> 0]
    BY <1>1 DEF Rou!Init, Rou!None
  <1>3. outRows \in Seq(OutRows) /\ Len(outRows) = 0 /\ logged \in Seq(Entries) /\ Len(logged) = 0 /\ 1 .. 0 = {}
    BY <1>2
  <1>4. RoutedTypes
    BY <1>2, <1>3, NothingIs, RoutedAssumption DEF RoutedTypes
  <1>5. PhaseKept
    BY <1>2, NothingIs DEF PhaseKept, Rou!GateIsOwn
  <1>6. (\A i \in 1 .. Len(outRows) : RowOf(i)) /\ ClassesApart
    BY <1>3 DEF ClassesApart
  <1>7. LogKept
    BY <1>2, <1>3 DEF LogKept, Rou!OutcomeTrue, Rou!DelegationLinked
  <1>8. ASSUME NEW t \in Routed PROVE CountKept(t)
    <2>1. Delegations(t) = {} /\ cutAfter[t] = 0
      BY <1>2, <1>3, RoutedAssumption DEF Delegations
    <2>2. Cardinality(Delegations(t)) = 0
      BY <2>1, FS_EmptySet
    <2> QED
      BY <2>1, <2>2 DEF CountKept
  <1> QED
    BY <1>4, <1>5, <1>6, <1>7, <1>8 DEF RoutedInv, RoutedKept

\* A routed turn works under its own gate, sends nothing but to the chat that
\* asked or the worker decided on, delegates once for every try that was cut
\* after it, and is logged as what it did, for any number of turns, workers and
\* crashes (routing/index.ts, routing/gate.ts, modules/classification-log/index.ts).
THEOREM RoutedSafe == Spec => []RoutingHolds
  <1>1. Init => RoutedInv
    BY RoutedInit
  <1>2. ASSUME RoutedInv, [Next]_vars PROVE RoutedInv'
    <2>1. CASE focus = "routed" /\ Rou!Next /\ UNCHANGED focus
      <3>1. RoutedKept
        BY <1>2, <2>1 DEF RoutedInv
      <3>2. RoutedKept'
        BY <2>1, <3>1, ClaimStep, AskingSteps, OnwardKeeps, DecisionSteps, DelegationStep, GateStep, WorkSteps,
           EndSteps,
           SideSteps, ClassHandled, MessageHandled DEF Rou!Next
      <3> QED
        BY <3>2 DEF RoutedInv
    <2>2. CASE UNCHANGED <<focus, rouVars>>
      BY <1>2, <2>2, ZenonT(60) DEF RoutedInv, RoutedKept, RoutedTypes, PhaseKept, RowOf, ClassesApart, LogKept,
         CountKept, Owing,
         Delegations, Rou!GateIsOwn, Rou!OutcomeTrue, Rou!DelegationLinked, rouVars
    <2>3. UNCHANGED focus /\ (~ (focus = "routed" /\ Rou!Next) => UNCHANGED rouVars)
      BY <1>2 DEF Next, vars
    <2> QED
      BY <2>1, <2>2, <2>3
  <1>3. RoutedInv => RoutingHolds
    <2> SUFFICES ASSUME RoutedKept PROVE Rou!RoutingHolds
      BY DEF RoutedInv, RoutingHolds
    <2>1. Rou!TypeOK
      <3>1. /\ progress \in [Turns -> {"pending", "processing", "done"}]
            /\ gate.id \in 0 .. issued /\ childId \in 0 .. issued /\ staffed \subseteq Staff
            /\ Len(outRows) <= MaxOutRows /\ taken \in 0 .. Len(outRows) /\ routeTrouble \in 0 .. MaxRouteTrouble
            /\ phase \in Phases /\ DOMAIN logged = 1 .. issued
        BY DEF RoutedKept, RoutedTypes
      <3>2. /\ phase.at \in {"idle", "attempt", "waiting", "decided", "delegate", "gate", "execute", "ack"}
            /\ phase.offered \subseteq Staff /\ phase.tries \in 0 .. RetryTimes + 1
        BY <3>1 DEF Phases
      <3> QED
        BY <3>1, <3>2 DEF RoutedKept, RowOf, LogKept, Rou!TypeOK
    <2>2. Rou!RoutedStaysHome
      <3> SUFFICES ASSUME NEW i \in 1 .. Len(outRows), outRows[i].turn \in Routed,
                          outRows[i].kind \in {"agent", "channel", "ask"}
                   PROVE  \/ outRows[i].to = OriginOf[outRows[i].turn]
                          \/ /\ outRows[i].kind = "agent"
                             /\ \E j \in 1 .. i : outRows[j] = Rou!Row("class", outRows[i].id, "none", outRows[i].turn,
                                                                       "delegate")
        BY DEF Rou!RoutedStaysHome
      <3>1. RowOf(i) /\ \A j \in 1 .. i - 1 : j \in 1 .. i
        BY DEF RoutedKept
      <3> QED
        BY <3>1 DEF RowOf, DecisionRow
    <2>3. Rou!DelegatedOnce
      <3>1. \A t \in Routed : Cardinality(Delegations(t)) <= 1 + cutAfter[t]
        BY DEF RoutedKept, CountKept
      <3>2. ASSUME NEW S PROVE Rou!Cardinality(S) = Cardinality(S)
        BY Zenon DEF Rou!Cardinality, Cardinality
      <3>3. \A t \in Routed : Rou!Cardinality(Delegations(t)) <= 1 + cutAfter[t]
        BY <3>1, <3>2
      <3> QED
        BY <3>3, Zenon DEF Delegations, Rou!DelegatedOnce
    <2> QED
      BY <2>1, <2>2, <2>3 DEF RoutedKept, PhaseKept, LogKept, Rou!RoutingHolds
  <1> QED
    BY <1>1, <1>2, <1>3, PTL DEF Spec

(***************************************************************************)
(* The provider's conversation: the inductive invariant.                   *)
(***************************************************************************)
\* What the endpoint keeps for a conversation, with the responses s it stored.
KeptFor(c, s) == IF c.id = 0 THEN {} ELSE s[c.id]

\* A previous response is named only by a conversation without a summary.
Shaped(c, s) ==
    /\ c \in Pro!Convs /\ c.id <= Len(s)
    /\ c.mode = "stateless" => c.id = 0
    /\ "summary" \in c.items => c.mode = "stateless"

\* The endpoint remembers what is not sent again.
Sound(c, s) == Shaped(c, s) /\ (c.mode = "responses" => c.items \subseteq KeptFor(c, s))

\* A conversation holds these prompts, or a summary that stands for them.
Covers(c, T) == T \subseteq c.items \/ "summary" \in c.items

Resting == {"idle", "after"}
Underway == {"size", "request", "calls", "done"}
TurnRecords ==
    [at : Resting \cup Underway \cup {"tools"}, prompt : Prompts \cup {"none"}, conv : Pro!Convs, all : BOOLEAN,
     compacted : BOOLEAN]

\* A turn and the conversation it works on.
TurnSound(r, s) ==
    /\ r \in TurnRecords
    /\ r.at \notin Resting => r.prompt \in Prompts
    /\ r.at \in Underway =>
         /\ r.prompt \in r.conv.items /\ Shaped(r.conv, s)
         /\ r.conv.mode = "responses" => r.conv.items \ {r.prompt} \subseteq KeptFor(r.conv, s)
    /\ r.at \in {"request", "calls", "done"} => (r.all <=> r.conv.mode = "stateless")
    /\ r.at \in {"calls", "done"} => Sound(r.conv, s)
    /\ r.at \in Underway /\ r.compacted => r.conv.mode = "stateless"
    /\ r.at = "tools" => ~ r.compacted

ProviderTypes ==
    /\ slot \in Prompts \cup {"none"} /\ abortTurn \in BOOLEAN /\ batch \subseteq claimed
    /\ first \in Prompts \cup {"none"} /\ claimed \subseteq Prompts
    /\ toolList \in {"unasked", "loaded", "rejected"} /\ turnTrouble \in 0 .. MaxTurnTrouble
    /\ acked \subseteq Prompts /\ seen \subseteq Prompts /\ talkedOver \subseteq Prompts /\ apologised \subseteq Prompts
    /\ told \subseteq Prompts /\ toldBefore \subseteq Prompts /\ trimmed \subseteq Prompts
    /\ server \in Seq(SUBSET Pro!Items) /\ Len(server) <= MaxResponses

\* Every copy is sound: the loop's, the stored one, the query's, the reported.
CopiesKept == Sound(memory, server) /\ Sound(stored, server) /\ Sound(cont, server) /\ Sound(reported, server)

\* Each copy holds what it would be asked for if the next step continued from
\* it: the stored one after a crash, the loop's after an error.
ToldKept ==
    /\ Covers(stored, told \ trimmed)
    /\ turn.at = "idle" => Covers(memory, told)
    /\ turn.at # "idle" => Covers(memory, toldBefore) /\ Covers(cont, told) /\ toldBefore \subseteq told \cup trimmed
    /\ turn.at \in Underway => Covers(turn.conv, told)
    /\ turn.at = "after" => Covers(reported, told)

\* A row still to be acknowledged is in the turn, in the slot or talked over.
AcksKept ==
    /\ abortTurn <=> slot # "none"
    /\ turn.at \in Resting \cup {"done"} => slot = "none"
    /\ acked \subseteq seen \cup talkedOver \cup apologised
    /\ turn.at \notin Resting => batch \subseteq {turn.prompt, slot} \cup talkedOver
    /\ turn.at \in Resting => batch = {}
    /\ turn.at # "idle" => first \in claimed /\ first \in batch \cup acked
    /\ turn.at = "done" => turn.prompt \in seen

ProviderKept ==
    /\ ProviderTypes
    /\ TurnSound(turn, server)
    /\ CopiesKept
    /\ ToldKept
    /\ AcksKept
    /\ stale = FALSE

\* No conversation, no turn, a turn that begins.
LEMMA EmptyIs ==
    /\ Pro!NoCont \in Pro!Convs /\ Pro!NoCont.id = 0 /\ Pro!NoCont.items = {} /\ Pro!NoCont.mode = "responses"
    /\ Pro!NoTurn \in TurnRecords /\ Pro!NoTurn.at = "idle"
    /\ \A p \in Prompts \cup {"none"} : /\ Pro!Begin(p) \in TurnRecords /\ Pro!Begin(p).at = "tools"
                                        /\ Pro!Begin(p).prompt = p /\ ~ Pro!Begin(p).compacted
  <1>1. /\ Pro!NoCont \in Pro!Convs /\ Pro!NoCont.id = 0 /\ Pro!NoCont.items = {} /\ Pro!NoCont.mode = "responses"
    BY ProviderAssumption DEF Pro!NoCont, Pro!Convs, Pro!None
  <1>2. Pro!NoTurn \in TurnRecords /\ Pro!NoTurn.at = "idle"
    BY <1>1 DEF Pro!NoTurn, TurnRecords, Resting, Underway, Pro!NoPrompt
  <1>3. ASSUME NEW p \in Prompts \cup {"none"}
        PROVE  /\ Pro!Begin(p) \in TurnRecords /\ Pro!Begin(p).at = "tools" /\ Pro!Begin(p).prompt = p
               /\ ~ Pro!Begin(p).compacted
    BY <1>2 DEF Pro!Begin, Pro!NoTurn, TurnRecords
  <1> QED
    BY <1>1, <1>2, <1>3

\* An empty conversation is sound, and a turn at its beginning or its end.
LEMMA EmptySound ==
    ASSUME NEW s \in Seq(SUBSET Pro!Items)
    PROVE  /\ Sound(Pro!NoCont, s) /\ TurnSound(Pro!NoTurn, s) /\ TurnSound([Pro!NoTurn EXCEPT !.at = "after"], s)
           /\ [Pro!NoTurn EXCEPT !.at = "after"].at = "after"
           /\ \A p \in Prompts : TurnSound(Pro!Begin(p), s)
  <1>1. Sound(Pro!NoCont, s)
    BY EmptyIs DEF Sound, Shaped
  <1>2. TurnSound(Pro!NoTurn, s) /\ \A p \in Prompts : TurnSound(Pro!Begin(p), s)
    BY EmptyIs DEF TurnSound, Resting, Underway
  <1>3. [Pro!NoTurn EXCEPT !.at = "after"] \in TurnRecords /\ [Pro!NoTurn EXCEPT !.at = "after"].at = "after"
    BY EmptyIs DEF TurnRecords, Resting
  <1>4. TurnSound([Pro!NoTurn EXCEPT !.at = "after"], s)
    BY <1>3 DEF TurnSound, Resting, Underway
  <1> QED
    BY <1>1, <1>2, <1>3, <1>4

\* One more response takes nothing from a conversation.
LEMMA StillSound ==
    ASSUME NEW s \in Seq(SUBSET Pro!Items), NEW x \in SUBSET Pro!Items, NEW c, Shaped(c, s)
    PROVE  /\ Shaped(c, Append(s, x)) /\ KeptFor(c, Append(s, x)) = KeptFor(c, s)
           /\ Sound(c, s) => Sound(c, Append(s, x))
  <1>1. c.id \in Nat /\ c.id <= Len(s) /\ Len(s) \in Nat
    BY ProviderAssumption DEF Shaped, Pro!Convs
  <1>2. Len(Append(s, x)) = Len(s) + 1 /\ \A i \in 1 .. Len(s) : Append(s, x)[i] = s[i]
    OBVIOUS
  <1>3. c.id # 0 => c.id \in 1 .. Len(s)
    BY <1>1
  <1>4. KeptFor(c, Append(s, x)) = KeptFor(c, s)
    BY <1>2, <1>3 DEF KeptFor
  <1> QED
    BY <1>1, <1>2, <1>4 DEF Shaped, Sound

\* What a conversation of the endpoint holds are prompts, summaries, reminders.
LEMMA KeptIs ==
    ASSUME NEW s \in Seq(SUBSET Pro!Items), NEW c, Shaped(c, s)
    PROVE  KeptFor(c, s) \subseteq Pro!Items
  <1>1. c.id \in Nat /\ c.id <= Len(s) /\ Len(s) \in Nat
    BY ProviderAssumption DEF Shaped, Pro!Convs
  <1>2. c.id # 0 => c.id \in 1 .. Len(s)
    BY <1>1
  <1> QED
    BY <1>2 DEF KeptFor

\* A turn throws: whichever copy the next step continues from holds what it
\* should.
LEMMA ThrowKeeps ==
    ASSUME ProviderKept, NEW invalid \in BOOLEAN, Pro!Throws(invalid), turn.at \in {"tools", "size", "request", "calls"},
           server' \in Seq(SUBSET Pro!Items), Len(server') <= MaxResponses,
           \A c : Sound(c, server) => Sound(c, server'),
           Sound(stored', server'), Covers(stored', told \ trimmed) \/ told' = {},
           toolList' \in {"unasked", "loaded", "rejected"}, turnTrouble' \in 0 .. MaxTurnTrouble, stale' = FALSE
    PROVE  ProviderKept'
  <1>1. /\ slot' = "none" /\ abortTurn' = FALSE /\ UNCHANGED <<first, claimed, seen, trimmed>>
        /\ turn.prompt \in Prompts /\ first \in claimed /\ first \in batch \cup acked /\ first \in Prompts
        /\ batch \subseteq {turn.prompt, slot} \cup talkedOver
    BY DEF Pro!Throws, Pro!NoPrompt, ProviderKept, ProviderTypes, AcksKept, TurnSound, Resting
  <1>2. CASE abortTurn /\ slot # "none"
    <2>1. /\ turn' = Pro!Begin(slot) /\ talkedOver' = talkedOver \cup {turn.prompt} /\ slot \in Prompts
          /\ UNCHANGED <<memory, cont, reported, batch, told, toldBefore, acked, apologised>>
      BY <1>2 DEF Pro!Throws, Pro!NoPrompt, ProviderKept, ProviderTypes
    <2>2. turn'.at = "tools" /\ turn'.prompt = slot /\ TurnSound(turn', server')
      BY <2>1, EmptyIs, EmptySound
    <2>3. ProviderTypes'
      BY <1>1, <2>1 DEF ProviderKept, ProviderTypes
    <2>4. CopiesKept'
      BY <2>1 DEF ProviderKept, CopiesKept
    <2>5. Covers(stored', (told \ trimmed)')
      BY <1>1, <2>1 DEF Covers
    <2>6. ToldKept'
      BY <1>1, <2>1, <2>2, <2>5 DEF ProviderKept, ToldKept, Underway
    <2>7. AcksKept'
      BY <1>1, <2>1, <2>2 DEF ProviderKept, AcksKept, Resting
    <2> QED
      BY <2>2, <2>3, <2>4, <2>6, <2>7 DEF ProviderKept
  <1>3. CASE ~ (abortTurn /\ slot # "none") /\ invalid /\ memory # Pro!NoCont
    <2>1. /\ memory' = Pro!NoCont /\ cont' = Pro!NoCont /\ reported' = Pro!NoCont /\ told' = {} /\ toldBefore' = {}
          /\ turn' = Pro!Begin(first) /\ batch' = {first} \ acked
          /\ UNCHANGED <<talkedOver, acked, apologised>>
      BY <1>3 DEF Pro!Throws, Pro!NoPrompt
    <2>2. turn'.at = "tools" /\ turn'.prompt = first /\ TurnSound(turn', server')
      BY <1>1, <2>1, EmptyIs, EmptySound
    <2>3. ProviderTypes'
      BY <1>1, <2>1 DEF ProviderKept, ProviderTypes
    <2>4. CopiesKept'
      BY <2>1, EmptySound DEF CopiesKept
    <2>5. \A c : Covers(c, {}) /\ Covers(c, {} \ trimmed')
      BY DEF Covers
    <2>6. ToldKept'
      BY <1>1, <2>1, <2>2, <2>5 DEF ToldKept, Underway
    <2>7. AcksKept'
      BY <1>1, <2>1, <2>2 DEF ProviderKept, AcksKept, Resting
    <2> QED
      BY <2>2, <2>3, <2>4, <2>6, <2>7 DEF ProviderKept
  <1>4. CASE ~ (abortTurn /\ slot # "none") /\ ~ (invalid /\ memory # Pro!NoCont)
    <2>1. /\ turn' = Pro!NoTurn /\ batch' = {} /\ told' = toldBefore
          /\ acked' = acked \cup {first} /\ apologised' = apologised \cup {first}
          /\ UNCHANGED <<memory, cont, reported, talkedOver, toldBefore>>
      BY <1>4 DEF Pro!Throws, Pro!NoPrompt
    <2>2. turn'.at = "idle" /\ TurnSound(turn', server')
      BY <2>1, EmptyIs, EmptySound
    <2>3. ProviderTypes'
      BY <1>1, <2>1 DEF ProviderKept, ProviderTypes
    <2>4. CopiesKept'
      BY <2>1 DEF ProviderKept, CopiesKept
    <2>5. Covers(stored', told' \ trimmed')
      BY <1>1, <2>1 DEF ProviderKept, ToldKept, Covers
    <2>6. ToldKept'
      BY <1>1, <2>1, <2>2, <2>5 DEF ProviderKept, ToldKept, Underway
    <2>7. AcksKept'
      BY <1>1, <2>1, <2>2 DEF ProviderKept, AcksKept, Resting
    <2> QED
      BY <2>2, <2>3, <2>4, <2>6, <2>7 DEF ProviderKept
  <1> QED
    BY <1>2, <1>3, <1>4

\* The counter of troubles.
LEMMA TroubleIs == ASSUME ProviderKept, Pro!Trouble PROVE turnTrouble' \in 0 .. MaxTurnTrouble
  BY ProviderAssumption DEF Pro!Trouble, ProviderKept, ProviderTypes

\* A query begins, or a follow-up comes in.
LEMMA QuerySteps ==
    ASSUME ProviderKept, NEW p \in Prompts, Pro!query(p) \/ Pro!push(p)
    PROVE  ProviderKept'
  <1>1. CASE Pro!query(p)
    <2>1. /\ turn.at = "idle" /\ turn' = Pro!Begin(p) /\ cont' = memory /\ reported' = memory
          /\ slot' = "none" /\ abortTurn' = FALSE /\ first' = p /\ batch' = {p}
          /\ claimed' = claimed \cup {p} /\ toldBefore' = told
          /\ UNCHANGED <<memory, stored, toolList, server, turnTrouble, acked, seen, talkedOver, apologised, told, trimmed,
                         stale>>
      BY <1>1 DEF Pro!query, Pro!InQuery, Pro!NoPrompt
    <2>2. turn'.at = "tools" /\ turn'.prompt = p /\ TurnSound(turn', server')
      BY <2>1, EmptyIs, EmptySound DEF ProviderKept, ProviderTypes
    <2>3. ProviderTypes' /\ CopiesKept'
      BY <2>1 DEF ProviderKept, ProviderTypes, CopiesKept
    <2>4. ToldKept'
      BY <2>1, <2>2 DEF ProviderKept, ToldKept, Underway
    <2>5. AcksKept'
      BY <2>1, <2>2 DEF ProviderKept, AcksKept, Resting
    <2> QED
      BY <2>1, <2>2, <2>3, <2>4, <2>5 DEF ProviderKept
  <1>2. CASE Pro!push(p)
    <2>1. /\ turn.at \in {"tools", "size", "request", "calls"} /\ slot' = p /\ abortTurn' = TRUE
          /\ batch' = batch \cup {p} /\ claimed' = claimed \cup {p} /\ acked' = acked
          /\ talkedOver' = talkedOver \cup (IF slot = "none" THEN {} ELSE {slot})
          /\ UNCHANGED <<memory, stored, cont, reported, turn, first, toolList, server, turnTrouble, seen, apologised, told,
                         toldBefore, trimmed, stale>>
      BY <1>2 DEF Pro!push, Pro!ackOf, Pro!NoPrompt, Pro!convs
    <2>2. ProviderTypes'
      BY <2>1 DEF ProviderKept, ProviderTypes
    <2>3. CopiesKept' /\ TurnSound(turn', server') /\ ToldKept'
      BY <2>1 DEF ProviderKept, CopiesKept, ToldKept
    <2>4. p # "none"
      BY ProviderAssumption
    <2>5. AcksKept'
      <3>1. abortTurn' <=> slot' # "none"
        BY <2>1, <2>4
      <3>2. batch \subseteq {turn.prompt, slot} \cup talkedOver /\ batch \subseteq Prompts /\ first \in claimed
            /\ first \in batch \cup acked /\ acked \subseteq seen \cup talkedOver \cup apologised
        BY <2>1 DEF ProviderKept, ProviderTypes, AcksKept, Resting
      <3>3. batch' \subseteq {turn.prompt, p} \cup talkedOver'
        BY <2>1, <3>2, ProviderAssumption
      <3> QED
        BY <2>1, <3>1, <3>2, <3>3 DEF AcksKept, Resting
    <2> QED
      BY <2>1, <2>2, <2>3, <2>5 DEF ProviderKept
  <1> QED
    BY <1>1, <1>2

\* The tools are listed and the conversation is restored, or the turn throws.
LEMMA ListStep == ASSUME ProviderKept, Pro!listTools PROVE ProviderKept'
  <1>1. turn.at = "tools" /\ server' = server
    BY DEF Pro!listTools
  <1>2. CASE toolList' = "loaded" /\ UNCHANGED <<Pro!convs, slot, abortTurn, first, batch, claimed, turnTrouble, Pro!past>>
             /\ turn' = [turn EXCEPT !.at = "size",
                          !.conv = [cont EXCEPT !.items = @ \cup {turn.prompt},
                                                !.id = IF cont.mode = "responses" THEN @ ELSE Pro!None]]
    <2> DEFINE i == IF cont.mode = "responses" THEN cont.id ELSE 0
               c == [cont EXCEPT !.items = cont.items \cup {turn.prompt}, !.id = i]
    <2>1. /\ Sound(cont, server) /\ cont \in Pro!Convs /\ turn.prompt \in Prompts /\ turn \in TurnRecords /\ ~ turn.compacted
          /\ i \in 0 .. MaxResponses
      BY <1>1, ProviderAssumption DEF ProviderKept, CopiesKept, Sound, Shaped, TurnSound, Resting, Pro!Convs
    <2>2. i = cont.id
      BY <2>1 DEF Sound, Shaped, Pro!Convs
    <2> HIDE DEF i
    <2>3. c \in Pro!Convs /\ c.items = cont.items \cup {turn.prompt} /\ c.id = cont.id /\ c.mode = cont.mode
      BY <2>1, <2>2 DEF Pro!Convs, Pro!Items
    <2>4. turn' = [turn EXCEPT !.at = "size", !.conv = c]
      BY <1>2 DEF i, Pro!None
    <2> HIDE DEF c
    <2>5. /\ turn' \in TurnRecords /\ turn'.at = "size" /\ turn'.prompt = turn.prompt /\ turn'.conv = c
          /\ turn'.compacted = turn.compacted
      BY <2>1, <2>3, <2>4 DEF TurnRecords, Underway
    <2>6. turn.prompt # "summary" /\ Len(server') = Len(server)
      BY <1>1, <2>1, ProviderAssumption
    <2>7. TurnSound(turn', server')
      BY <1>1, <2>1, <2>3, <2>5, <2>6 DEF TurnSound, Sound, Shaped, KeptFor, Resting, Underway
    <2>8. Covers(c, told)
      BY <1>1, <2>3 DEF ProviderKept, ToldKept, Covers
    <2>9. ProviderTypes' /\ CopiesKept' /\ stale' = FALSE
      BY <1>1, <1>2 DEF ProviderKept, ProviderTypes, CopiesKept, Pro!convs, Pro!past
    <2>10. ToldKept'
      BY <1>1, <1>2, <2>5, <2>8 DEF ProviderKept, ToldKept, Pro!convs, Pro!past
    <2>11. AcksKept'
      BY <1>1, <1>2, <2>5 DEF ProviderKept, AcksKept, Resting, Pro!convs, Pro!past
    <2> QED
      BY <2>7, <2>9, <2>10, <2>11 DEF ProviderKept
  <1>3. CASE toolList' = "rejected" /\ Pro!Throws(FALSE) /\ UNCHANGED <<stored, stale>>
             /\ turnTrouble' \in 0 .. MaxTurnTrouble
    <2>1. /\ server' \in Seq(SUBSET Pro!Items) /\ Len(server') <= MaxResponses
          /\ \A c : Sound(c, server) => Sound(c, server')
          /\ Sound(stored', server') /\ Covers(stored', told \ trimmed) /\ stale' = FALSE
      BY <1>1, <1>3 DEF ProviderKept, ProviderTypes, CopiesKept, ToldKept
    <2> QED
      BY <1>1, <1>3, <2>1, ThrowKeeps
  <1> QED
    BY <1>2, <1>3, TroubleIs DEF Pro!listTools, ProviderKept, ProviderTypes

\* The transcript is measured: sent as it is, summarised, or cut.
LEMMA SizeSteps ==
    ASSUME ProviderKept, Pro!SmallEnough \/ Pro!runCompaction \/ Pro!trimTranscript
    PROVE  ProviderKept'
  <1>1. /\ turn.at = "size" /\ turn \in TurnRecords /\ turn.prompt \in Prompts /\ turn.conv \in Pro!Convs
        /\ turn.prompt \in turn.conv.items /\ Shaped(turn.conv, server)
        /\ turn.conv.mode = "responses" => turn.conv.items \ {turn.prompt} \subseteq KeptFor(turn.conv, server)
        /\ turn.compacted => turn.conv.mode = "stateless"
    <2>1. turn.at = "size"
      BY Zenon DEF Pro!SmallEnough, Pro!runCompaction, Pro!trimTranscript
    <2> QED
      BY <2>1 DEF ProviderKept, TurnSound, Resting, Underway, Shaped
  <1>2. /\ UNCHANGED <<memory, stored, cont, reported, slot, abortTurn, first, batch, claimed, toolList, server, acked, seen,
                       talkedOver, apologised, toldBefore, stale>>
        /\ turnTrouble' \in 0 .. MaxTurnTrouble
    <2>1. /\ UNCHANGED <<Pro!convs, slot, abortTurn, first, batch, claimed, toolList, server, acked, seen,
                         talkedOver, apologised, toldBefore, stale>>
          /\ turnTrouble' = turnTrouble \/ Pro!Trouble
      BY Zenon DEF Pro!SmallEnough, Pro!runCompaction, Pro!trimTranscript, Pro!past
    <2> QED
      BY <2>1, TroubleIs DEF Pro!convs, ProviderKept, ProviderTypes
  <1> DEFINE Ready(c, done) ==
        /\ turn' = [turn EXCEPT !.at = "request", !.conv = c, !.all = (c.mode = "stateless"), !.compacted = done]
        /\ c \in Pro!Convs /\ turn.prompt \in c.items /\ Shaped(c, server)
        /\ c.mode = "responses" => c.items \ {turn.prompt} \subseteq KeptFor(c, server)
        /\ done => c.mode = "stateless"
        /\ Covers(c, told')
  <1>3. ASSUME NEW c, NEW done \in BOOLEAN, Ready(c, done), told' \subseteq told, trimmed' = trimmed \cup (told \ told')
        PROVE  ProviderKept'
    <2>1. /\ turn' \in TurnRecords /\ turn'.at = "request" /\ turn'.prompt = turn.prompt /\ turn'.conv = c
          /\ (turn'.all <=> c.mode = "stateless") /\ turn'.compacted = done
      BY <1>1, <1>3 DEF TurnRecords, Underway
    <2>2. TurnSound(turn', server')
      BY <1>1, <1>2, <1>3, <2>1 DEF TurnSound, Resting, Underway
    <2>3. ProviderTypes' /\ CopiesKept' /\ stale' = FALSE
      BY <1>2, <1>3 DEF ProviderKept, ProviderTypes, CopiesKept
    <2>4. Covers(stored, told' \ trimmed') /\ Covers(cont, told') /\ toldBefore \subseteq told' \cup trimmed'
      BY <1>1, <1>3 DEF ProviderKept, ToldKept, Covers
    <2>5. ToldKept'
      BY <1>1, <1>2, <1>3, <2>1, <2>4 DEF ProviderKept, ToldKept
    <2>6. AcksKept'
      BY <1>1, <1>2, <2>1 DEF ProviderKept, AcksKept, Resting
    <2> QED
      BY <2>2, <2>3, <2>5, <2>6 DEF ProviderKept
  <1>4. Covers(turn.conv, told) /\ turn = [turn EXCEPT !.conv = turn.conv, !.compacted = turn.compacted]
    BY <1>1 DEF ProviderKept, ToldKept, Underway, TurnRecords
  <1>5. CASE Pro!SmallEnough
    <2>1. /\ turn' = [turn EXCEPT !.at = "request", !.all = (turn.conv.mode = "stateless")] /\ told' = told
          /\ trimmed' = trimmed
      BY <1>5 DEF Pro!SmallEnough, Pro!past
    <2>2. turn' = [turn EXCEPT !.at = "request", !.conv = turn.conv, !.all = (turn.conv.mode = "stateless"),
                               !.compacted = turn.compacted] /\ turn.compacted \in BOOLEAN
      BY <1>1, <2>1 DEF TurnRecords
    <2>3. Ready(turn.conv, turn.compacted)
      BY <1>1, <1>4, <2>1, <2>2
    <2> HIDE DEF Ready
    <2> QED
      BY <1>3, <2>1, <2>2, <2>3
  <1>6. CASE Pro!runCompaction
    <2>1. PICK recent \in SUBSET turn.conv.items :
            /\ turn.prompt \in recent
            /\ turn' = [turn EXCEPT !.at = "request", !.conv = Pro!compacted(turn.conv, recent),
                                    !.all = (Pro!compacted(turn.conv, recent).mode = "stateless"), !.compacted = TRUE]
      BY <1>6, Zenon DEF Pro!runCompaction
    <2>2. told' = told /\ trimmed' = trimmed
      BY <1>6, Zenon DEF Pro!runCompaction, Pro!past
    <2> DEFINE c == Pro!compacted(turn.conv, recent)
    <2>3. /\ c \in Pro!Convs /\ c.items = {"summary"} \cup recent /\ c.mode = "stateless" /\ c.id = 0
      <3>1. turn.conv \in Pro!Convs /\ 0 \in 0 .. MaxResponses /\ recent \subseteq turn.conv.items
        BY <1>1, ProviderAssumption
      <3> QED
        BY <3>1 DEF Pro!compacted, Pro!Convs, Pro!Items, Pro!Summary, Pro!None
    <2>4. turn' = [turn EXCEPT !.at = "request", !.conv = c, !.all = (c.mode = "stateless"), !.compacted = TRUE]
      BY <2>1
    <2> HIDE DEF c
    <2>5. Shaped(c, server)
      BY <2>3 DEF Shaped, ProviderKept, ProviderTypes
    <2>6. Ready(c, TRUE)
      BY <2>1, <2>2, <2>3, <2>4, <2>5 DEF Covers
    <2> HIDE DEF Ready
    <2> QED
      BY <1>3, <2>2, <2>6
  <1>7. CASE Pro!trimTranscript
    <2>1. PICK cut \in SUBSET turn.conv.items :
            /\ turn.prompt \in cut
            /\ turn' = [turn EXCEPT !.at = "request", !.conv.items = cut, !.all = (turn.conv.mode = "stateless")]
            /\ told' = (IF "summary" \in cut THEN told ELSE told \cap cut)
            /\ trimmed' = trimmed \cup (told \ told')
      BY <1>7, Zenon DEF Pro!trimTranscript, Pro!Summary
    <2> DEFINE c == [turn.conv EXCEPT !.items = cut]
    <2>2. c \in Pro!Convs /\ c.items = cut /\ c.mode = turn.conv.mode /\ c.id = turn.conv.id
      BY <1>1, <2>1 DEF Pro!Convs
    <2>3. turn' = [turn EXCEPT !.at = "request", !.conv = c, !.all = (c.mode = "stateless"), !.compacted = turn.compacted]
          /\ turn.compacted \in BOOLEAN
      BY <1>1, <2>1, <2>2 DEF TurnRecords
    <2> HIDE DEF c
    <2>4. Shaped(c, server) /\ KeptFor(c, server) = KeptFor(turn.conv, server)
      BY <1>1, <2>1, <2>2 DEF Shaped, KeptFor
    <2>5. Covers(c, told') /\ told' \subseteq told
      BY <2>1, <2>2 DEF Covers
    <2>6. Ready(c, turn.compacted)
      BY <1>1, <2>1, <2>2, <2>3, <2>4, <2>5
    <2> HIDE DEF Ready
    <2> QED
      BY <1>3, <2>1, <2>3, <2>5, <2>6
  <1> QED
    BY <1>5, <1>6, <1>7

\* What the model is shown holds the turn's conversation, its prompt too.
LEMMA ShownIs ==
    ASSUME ProviderKept, turn.at \in {"request", "calls", "done"}
    PROVE  /\ turn.prompt \in Pro!Shown /\ turn.conv.items \subseteq Pro!Shown /\ Pro!Shown \subseteq Pro!Items
           /\ turn.prompt \in Prompts /\ turn.prompt \in turn.conv.items /\ Shaped(turn.conv, server)
           /\ turn.conv \in Pro!Convs /\ turn \in TurnRecords
           /\ ~ turn.all => Pro!Shown = {turn.prompt} \cup KeptFor(turn.conv, server)
           /\ turn.all <=> turn.conv.mode = "stateless"
           /\ turn.compacted => turn.conv.mode = "stateless"
  <1>1. /\ turn \in TurnRecords /\ turn.prompt \in Prompts /\ turn.prompt \in turn.conv.items /\ Shaped(turn.conv, server)
        /\ turn.conv \in Pro!Convs /\ turn.conv.items \subseteq Pro!Items
        /\ turn.conv.mode = "responses" => turn.conv.items \ {turn.prompt} \subseteq KeptFor(turn.conv, server)
        /\ turn.all <=> turn.conv.mode = "stateless"
        /\ turn.compacted => turn.conv.mode = "stateless"
        /\ turn.conv.mode \in {"responses", "stateless"} /\ server \in Seq(SUBSET Pro!Items)
    BY DEF ProviderKept, ProviderTypes, TurnSound, Shaped, Resting, Underway, Pro!Convs
  <1>2. KeptFor(turn.conv, server) \subseteq Pro!Items
    BY <1>1, KeptIs
  <1>3. Pro!Shown = (IF turn.all THEN turn.conv.items ELSE {turn.prompt} \cup KeptFor(turn.conv, server))
    BY Zenon DEF Pro!Shown, KeptFor, Pro!None
  <1>4. Prompts \subseteq Pro!Items
    BY DEF Pro!Items
  <1>5. CASE turn.all
    BY <1>1, <1>3, <1>5
  <1>6. CASE ~ turn.all
    BY <1>1, <1>2, <1>3, <1>4, <1>6
  <1> QED
    BY <1>5, <1>6

\* The endpoint answers: the conversation goes on under the new response.
LEMMA AnswerIs ==
    ASSUME ProviderKept, turn.at = "request", Pro!Answered, Pro!Sent
    PROVE  /\ server' = Append(server, Pro!Shown) /\ server' \in Seq(SUBSET Pro!Items) /\ Len(server') <= MaxResponses
           /\ \A c : Sound(c, server) => Sound(c, server')
           /\ Pro!NewConv \in Pro!Convs /\ Sound(Pro!NewConv, server') /\ Pro!NewConv.items = turn.conv.items
           /\ Pro!NewConv.mode = turn.conv.mode
           /\ stale' = FALSE
  <1>1. /\ server \in Seq(SUBSET Pro!Items) /\ Len(server) \in Nat /\ Len(server) < MaxResponses
        /\ server' = Append(server, Pro!Shown) /\ Pro!Shown \in SUBSET Pro!Items
    <2>1. Pro!Shown \subseteq Pro!Items
      BY ShownIs
    <2>2. Len(server) < MaxResponses /\ server' = Append(server, Pro!Shown)
      BY Zenon DEF Pro!Answered
    <2>3. server \in Seq(SUBSET Pro!Items) /\ Len(server) \in Nat
      BY DEF ProviderKept, ProviderTypes
    <2> QED
      BY <2>1, <2>2, <2>3
  <1>2. server' \in Seq(SUBSET Pro!Items) /\ Len(server') = Len(server) + 1 /\ server'[Len(server) + 1] = Pro!Shown
        /\ Len(server') <= MaxResponses
    BY <1>1, ProviderAssumption
  <1>3. \A c : Sound(c, server) => Sound(c, server')
    BY <1>1, StillSound DEF Sound
  <1> DEFINE n == IF turn.conv.mode = "responses" THEN Len(server) + 1 ELSE 0
             c == Pro!NewConv
  <1>4. turn.conv \in Pro!Convs /\ n \in 0 .. MaxResponses /\ c = [turn.conv EXCEPT !.id = n]
    BY <1>1, ShownIs, ProviderAssumption DEF Pro!NewConv, Pro!None
  <1>5. c \in Pro!Convs /\ c.items = turn.conv.items /\ c.mode = turn.conv.mode /\ c.id = n
    BY <1>4 DEF Pro!Convs
  <1>6. Shaped(c, server')
    BY <1>1, <1>2, <1>5, ShownIs DEF Shaped
  <1>7. c.mode = "responses" => KeptFor(c, server') = Pro!Shown
    BY <1>1, <1>2, <1>5 DEF KeptFor
  <1>8. Sound(c, server')
    BY <1>5, <1>6, <1>7, ShownIs DEF Sound
  <1>9. stale' = FALSE
    <2>1. stale = FALSE /\ Shaped(turn.conv, server)
      BY ShownIs DEF ProviderKept
    <2>2. ~ (~ turn.all /\ turn.conv.id # 0 /\ "summary" \in turn.conv.items)
      BY <2>1 DEF Shaped
    <2> QED
      BY <2>1, <2>2, Zenon DEF Pro!Sent, Pro!Summary, Pro!None
  <1> QED
    BY <1>1, <1>2, <1>3, <1>5, <1>8, <1>9

\* The conversation under a new response holds what was told.
LEMMA NewCovers ==
    ASSUME ProviderKept, turn.at = "request", NEW c, c.items = turn.conv.items
    PROVE  Covers(c, told) /\ Covers(c, told \ trimmed)
  BY DEF ProviderKept, ToldKept, Underway, Covers

\* The endpoint answers with a text, an error or calls.
LEMMA AnswerSteps ==
    ASSUME ProviderKept, Pro!FinalResponse \/ Pro!CallsResponse
    PROVE  ProviderKept'
  <1>1. turn.at = "request" /\ ~ abortTurn /\ Pro!Answered /\ Pro!Sent /\ UNCHANGED toolList
    BY Zenon DEF Pro!FinalResponse, Pro!CallsResponse
  <1> DEFINE c == Pro!NewConv
  <1>2. /\ server' \in Seq(SUBSET Pro!Items) /\ Len(server') <= MaxResponses
        /\ \A d : Sound(d, server) => Sound(d, server')
        /\ c \in Pro!Convs /\ Sound(c, server') /\ c.items = turn.conv.items /\ c.mode = turn.conv.mode
        /\ stale' = FALSE
    BY <1>1, AnswerIs
  <1>3. Covers(c, told) /\ Covers(c, told \ trimmed)
    BY <1>1, <1>2, NewCovers
  <1> HIDE DEF c
  <1>4. ASSUME NEW at \in {"calls", "done"}, turn' = [turn EXCEPT !.at = at, !.conv = c]
        PROVE  /\ TurnSound(turn', server') /\ turn'.at = at /\ turn'.prompt = turn.prompt /\ turn'.conv = c
    <2>1. /\ turn' \in TurnRecords /\ turn'.at = at /\ turn'.prompt = turn.prompt /\ turn'.conv = c
          /\ turn'.all = turn.all /\ turn'.compacted = turn.compacted
      BY <1>1, <1>2, <1>4, ShownIs DEF TurnRecords, Underway
    <2> QED
      BY <1>1, <1>2, <2>1, ShownIs DEF TurnSound, Resting, Underway, Sound
  <1>5. CASE /\ turn' = [turn EXCEPT !.at = "calls", !.conv = c]
             /\ UNCHANGED <<Pro!convs, slot, abortTurn, first, batch, claimed, turnTrouble, acked, seen, talkedOver,
                            apologised, told, toldBefore, trimmed>>
    <2>1. /\ TurnSound(turn', server') /\ turn'.at = "calls" /\ turn'.prompt = turn.prompt /\ turn'.conv = c
      BY <1>4, <1>5
    <2>2. ProviderTypes' /\ CopiesKept'
      BY <1>1, <1>2, <1>5 DEF ProviderKept, ProviderTypes, CopiesKept, Pro!convs
    <2>3. ToldKept'
      BY <1>1, <1>3, <1>5, <2>1 DEF ProviderKept, ToldKept, Pro!convs
    <2>4. AcksKept'
      BY <1>1, <1>5, <2>1 DEF ProviderKept, AcksKept, Resting
    <2> QED
      BY <1>2, <2>1, <2>2, <2>3, <2>4 DEF ProviderKept
  <1>6. CASE /\ stored' = c /\ turn' = [turn EXCEPT !.at = "done", !.conv = c]
             /\ seen' = seen \cup (Pro!Shown \cap Prompts)
             /\ UNCHANGED <<memory, cont, reported, slot, abortTurn, first, batch, claimed, turnTrouble, acked, talkedOver,
                            apologised, told, toldBefore, trimmed>>
    <2>1. /\ TurnSound(turn', server') /\ turn'.at = "done" /\ turn'.prompt = turn.prompt /\ turn'.conv = c
      BY <1>4, <1>6
    <2>2. ProviderTypes' /\ CopiesKept'
      BY <1>1, <1>2, <1>6 DEF ProviderKept, ProviderTypes, CopiesKept
    <2>3. ToldKept'
      BY <1>1, <1>3, <1>6, <2>1 DEF ProviderKept, ToldKept
    <2>4. turn.prompt \in seen'
      BY <1>1, <1>6, ShownIs
    <2>5. AcksKept'
      BY <1>1, <1>6, <2>1, <2>4 DEF ProviderKept, ProviderTypes, AcksKept, Resting
    <2> QED
      BY <1>2, <2>1, <2>2, <2>3, <2>5 DEF ProviderKept
  <1>7. CASE stored' = c /\ Pro!Trouble /\ Pro!Throws(FALSE)
    <2>1. turnTrouble' \in 0 .. MaxTurnTrouble /\ toolList' \in {"unasked", "loaded", "rejected"}
      BY <1>1, <1>7, TroubleIs DEF ProviderKept, ProviderTypes
    <2> QED
      BY <1>1, <1>2, <1>3, <1>7, <2>1, ThrowKeeps
  <1> QED
    BY <1>5, <1>6, <1>7, Zenon DEF Pro!FinalResponse, Pro!CallsResponse, c

\* The tools have run, or the endpoint wants the whole transcript.
LEMMA GoOnSteps ==
    ASSUME ProviderKept,
           Pro!callTool \/ Pro!isPreviousResponseIdUnsupported \/ Pro!shouldFallbackToChatCompletions
    PROVE  ProviderKept'
  <1>1. CASE Pro!callTool
    <2>1. /\ turn.at = "calls" /\ stored' = turn.conv /\ turn' = [turn EXCEPT !.at = "request"]
          /\ UNCHANGED <<memory, cont, reported, slot, abortTurn, first, batch, claimed, toolList, server, turnTrouble,
                         acked, seen, talkedOver, apologised, told, toldBefore, trimmed, stale>>
      BY <1>1 DEF Pro!callTool, Pro!past
    <2>2. /\ turn' \in TurnRecords /\ turn'.at = "request" /\ turn'.prompt = turn.prompt /\ turn'.conv = turn.conv
          /\ turn'.all = turn.all /\ turn'.compacted = turn.compacted
      BY <2>1, ShownIs DEF TurnRecords, Underway
    <2>3. Sound(turn.conv, server) /\ Covers(turn.conv, told) /\ Covers(turn.conv, told \ trimmed)
      BY <2>1 DEF ProviderKept, TurnSound, ToldKept, Underway, Covers
    <2>4. TurnSound(turn', server')
      BY <2>1, <2>2, <2>3, ShownIs DEF TurnSound, Sound, Resting, Underway
    <2>5. ProviderTypes' /\ CopiesKept' /\ stale' = FALSE
      BY <2>1, <2>3 DEF ProviderKept, ProviderTypes, CopiesKept
    <2>6. ToldKept'
      BY <2>1, <2>2, <2>3 DEF ProviderKept, ToldKept
    <2>7. AcksKept'
      BY <2>1, <2>2 DEF ProviderKept, AcksKept, Resting
    <2> QED
      BY <2>4, <2>5, <2>6, <2>7 DEF ProviderKept
  <1>2. CASE Pro!isPreviousResponseIdUnsupported \/ Pro!shouldFallbackToChatCompletions
    <2>1. /\ turn.at = "request" /\ Pro!Trouble
          /\ UNCHANGED <<Pro!convs, slot, abortTurn, first, batch, claimed, toolList, server, Pro!past>>
          /\ \/ turn' = Pro!stateless(turn)
             \/ turn' = Pro!stateless([turn EXCEPT !.conv.transport = "chat"])
      BY <1>2, Zenon DEF Pro!isPreviousResponseIdUnsupported, Pro!shouldFallbackToChatCompletions
    <2>2. turn \in TurnRecords /\ turn.conv \in Pro!Convs /\ turn.prompt \in Prompts /\ turn.prompt \in turn.conv.items
          /\ turnTrouble' \in 0 .. MaxTurnTrouble
      BY <2>1, ShownIs, TroubleIs
    <2>3. ASSUME NEW r, r = turn \/ r = [turn EXCEPT !.conv.transport = "chat"]
          PROVE  /\ r \in TurnRecords /\ r.at = "request" /\ r.prompt = turn.prompt /\ r.conv \in Pro!Convs
                 /\ r.conv.items = turn.conv.items
      BY <2>1, <2>2, <2>3 DEF TurnRecords, Pro!Convs
    <2>4. PICK r : r \in TurnRecords /\ r.at = "request" /\ r.prompt = turn.prompt /\ r.conv \in Pro!Convs
                   /\ r.conv.items = turn.conv.items /\ turn' = Pro!stateless(r)
      BY <2>1, <2>3
    <2>5. 0 \in 0 .. MaxResponses /\ turn' = [r EXCEPT !.conv.mode = "stateless", !.conv.id = 0, !.all = TRUE]
      BY <2>4, ProviderAssumption DEF Pro!stateless, Pro!None
    <2>6. /\ turn' \in TurnRecords /\ turn'.at = "request" /\ turn'.prompt = turn.prompt /\ turn'.all
          /\ turn'.conv \in Pro!Convs /\ turn'.conv.items = turn.conv.items /\ turn'.conv.mode = "stateless"
          /\ turn'.conv.id = 0
      <3> DEFINE d == [r.conv EXCEPT !.mode = "stateless", !.id = 0]
      <3>1. d \in Pro!Convs /\ d.items = turn.conv.items /\ d.mode = "stateless" /\ d.id = 0
        BY <2>4, <2>5 DEF Pro!Convs
      <3>2. turn' = [r EXCEPT !.conv = d, !.all = TRUE]
        BY <2>4, <2>5 DEF TurnRecords
      <3> HIDE DEF d
      <3> QED
        BY <2>4, <3>1, <3>2 DEF TurnRecords
    <2>7. server' = server /\ Len(server) \in Nat
      BY <2>1 DEF ProviderKept, ProviderTypes
    <2>8. TurnSound(turn', server')
      BY <2>2, <2>6, <2>7 DEF TurnSound, Shaped, Resting, Underway
    <2>9. ProviderTypes' /\ CopiesKept' /\ stale' = FALSE
      BY <2>1, <2>2 DEF ProviderKept, ProviderTypes, CopiesKept, Pro!convs, Pro!past
    <2>10. Covers(turn'.conv, told)
      BY <2>1, <2>6, NewCovers
    <2>11. ToldKept'
      BY <2>1, <2>6, <2>10 DEF ProviderKept, ToldKept, Pro!convs, Pro!past
    <2>12. AcksKept'
      BY <2>1, <2>6 DEF ProviderKept, AcksKept, Resting, Pro!past
    <2> QED
      BY <2>8, <2>9, <2>11, <2>12 DEF ProviderKept
  <1> QED
    BY <1>1, <1>2

\* A request fails for good, or the follow-up's signal is noticed.
LEMMA FailSteps ==
    ASSUME ProviderKept, (\E invalid \in BOOLEAN : Pro!RequestFails(invalid)) \/ Pro!AbortSeen
    PROVE  ProviderKept'
  <1>1. CASE Pro!AbortSeen
    <2>1. /\ turn.at \in {"size", "request", "calls"} /\ Pro!Throws(FALSE)
          /\ UNCHANGED <<stored, toolList, server, turnTrouble, stale>>
      BY <1>1, Zenon DEF Pro!AbortSeen
    <2>2. /\ server' \in Seq(SUBSET Pro!Items) /\ Len(server') <= MaxResponses
          /\ \A c : Sound(c, server) => Sound(c, server')
          /\ Sound(stored', server') /\ Covers(stored', told \ trimmed) /\ stale' = FALSE
          /\ turnTrouble' \in 0 .. MaxTurnTrouble /\ toolList' \in {"unasked", "loaded", "rejected"}
      BY <2>1 DEF ProviderKept, ProviderTypes, CopiesKept, ToldKept
    <2> QED
      BY <2>1, <2>2, ThrowKeeps
  <1>2. ASSUME NEW invalid \in BOOLEAN, Pro!RequestFails(invalid) PROVE ProviderKept'
    <2>1. /\ turn.at = "request" /\ Pro!Throws(invalid) /\ Pro!Trouble
          /\ stored' = (IF memory' = Pro!NoCont /\ memory # Pro!NoCont THEN Pro!NoCont ELSE stored)
          /\ UNCHANGED <<toolList, server, stale>>
      BY <1>2, Zenon DEF Pro!RequestFails
    <2>2. /\ server' \in Seq(SUBSET Pro!Items) /\ Len(server') <= MaxResponses
          /\ \A c : Sound(c, server) => Sound(c, server')
          /\ Sound(stored, server') /\ Covers(stored, told \ trimmed) /\ stale' = FALSE
          /\ turnTrouble' \in 0 .. MaxTurnTrouble /\ toolList' \in {"unasked", "loaded", "rejected"}
      BY <2>1, TroubleIs DEF ProviderKept, ProviderTypes, CopiesKept, ToldKept
    <2>3. memory' # memory => told' = {}
      BY <2>1, Zenon DEF Pro!Throws
    <2>4. Sound(stored', server') /\ (Covers(stored', told \ trimmed) \/ told' = {})
      BY <2>1, <2>2, <2>3, EmptySound
    <2> QED
      BY <2>1, <2>2, <2>4, ThrowKeeps
  <1> QED
    BY <1>1, <1>2

\* The result is reported, and the reminder folded into what is stored.
LEMMA ReportStep == ASSUME ProviderKept, Pro!ReportResult PROVE ProviderKept'
  <1> DEFINE c == turn.conv
             reminded == [c EXCEPT !.items = c.items \cup {"reminder"}]
  <1>1. /\ turn.at = "done" /\ reported' = c /\ cont' = (IF turn.compacted THEN reminded ELSE c) /\ stored' = cont'
        /\ acked' = acked \cup batch /\ batch' = {} /\ told' = told \cup {turn.prompt}
        /\ trimmed' = trimmed \ {turn.prompt} /\ turn' = [Pro!NoTurn EXCEPT !.at = "after"]
        /\ UNCHANGED <<memory, slot, abortTurn, first, claimed, toolList, server, turnTrouble, seen, talkedOver, apologised,
                       toldBefore, stale>>
    BY Zenon DEF Pro!ReportResult, Pro!Reminder
  <1>2. /\ turn.prompt \in Prompts /\ turn.prompt \in c.items /\ c \in Pro!Convs /\ Sound(c, server) /\ Covers(c, told)
        /\ turn.compacted => c.mode = "stateless"
    BY <1>1, ShownIs DEF ProviderKept, TurnSound, ToldKept, Underway
  <1>3. reminded \in Pro!Convs /\ reminded.items = c.items \cup {"reminder"} /\ reminded.mode = c.mode /\ reminded.id = c.id
    BY <1>2 DEF Pro!Convs, Pro!Items, Pro!Reminder
  <1>4. PICK d : d = cont'
    OBVIOUS
  <1>5. Sound(d, server) /\ c.items \subseteq d.items
    <2>1. CASE turn.compacted
      <3>1. d = reminded
        BY <1>1, <1>4, <2>1
      <3> HIDE DEF reminded
      <3> QED
        BY <1>2, <1>3, <2>1, <3>1 DEF Sound, Shaped
    <2>2. CASE ~ turn.compacted
      BY <1>1, <1>2, <1>4, <2>2
    <2> QED
      BY <2>1, <2>2
  <1> HIDE DEF c, reminded
  <1>6. Covers(d, told') /\ Covers(c, told') /\ Covers(d, told' \ trimmed') /\ toldBefore \subseteq told' \cup trimmed'
    BY <1>1, <1>2, <1>5 DEF Covers, ProviderKept, ToldKept
  <1>7. turn'.at = "after" /\ TurnSound(turn', server')
    BY <1>1, EmptySound DEF ProviderKept, ProviderTypes
  <1>8. ProviderTypes'
    BY <1>1, <1>2 DEF ProviderKept, ProviderTypes
  <1>9. CopiesKept'
    BY <1>1, <1>2, <1>4, <1>5 DEF ProviderKept, CopiesKept
  <1>10. ToldKept'
    BY <1>1, <1>4, <1>6, <1>7 DEF ProviderKept, ToldKept, Underway
  <1>11. acked' \subseteq seen \cup talkedOver \cup apologised
    BY <1>1, <1>2, ProviderAssumption DEF ProviderKept, ProviderTypes, AcksKept, Resting
  <1>12. AcksKept'
    BY <1>1, <1>7, <1>11 DEF ProviderKept, AcksKept, Resting
  <1> QED
    BY <1>1, <1>7, <1>8, <1>9, <1>10, <1>12 DEF ProviderKept

\* The query is over, or the container dies.  No follow-up waits at the end of a
\* turn: a query never goes on to another one from there.
LEMMA OverSteps ==
    ASSUME ProviderKept, Pro!NextTurn \/ Pro!QueryEnds \/ Pro!Restart
    PROVE  ProviderKept'
  <1>1. ~ Pro!NextTurn
    BY DEF ProviderKept, AcksKept, Resting, Pro!NextTurn, Pro!NoPrompt
  <1>2. CASE Pro!QueryEnds
    <2>1. /\ turn.at = "after" /\ slot = "none" /\ memory' = reported
          /\ stored' = (IF reported # memory THEN reported ELSE stored)
          /\ turn' = Pro!NoTurn /\ batch' = {} /\ acked' = acked \cup {first}
          /\ UNCHANGED <<cont, reported, slot, abortTurn, first, claimed, toolList, server, turnTrouble, seen, talkedOver,
                         apologised, told, toldBefore, trimmed, stale>>
      BY <1>2 DEF Pro!QueryEnds, Pro!NoPrompt
    <2>2. turn'.at = "idle" /\ TurnSound(turn', server')
      BY <2>1, EmptyIs, EmptySound DEF ProviderKept, ProviderTypes
    <2>3. first \in acked /\ Covers(reported, told) /\ Covers(reported, told \ trimmed)
      BY <2>1 DEF ProviderKept, AcksKept, ToldKept, Resting, Covers
    <2>4. ProviderTypes' /\ CopiesKept'
      BY <2>1, <2>3 DEF ProviderKept, ProviderTypes, CopiesKept
    <2>5. ToldKept'
      BY <2>1, <2>2, <2>3 DEF ProviderKept, ToldKept, Underway
    <2>6. AcksKept'
      BY <2>1, <2>2, <2>3 DEF ProviderKept, AcksKept, Resting
    <2> QED
      BY <2>1, <2>2, <2>4, <2>5, <2>6 DEF ProviderKept
  <1>3. CASE Pro!Restart
    <2>1. /\ memory' = stored /\ cont' = Pro!NoCont /\ reported' = Pro!NoCont
          /\ turn' = Pro!NoTurn /\ slot' = "none" /\ abortTurn' = FALSE /\ batch' = {} /\ claimed' = {}
          /\ toolList' = "unasked" /\ told' = told \ (trimmed \ stored.items) /\ Pro!Trouble
          /\ UNCHANGED <<stored, first, server, acked, seen, talkedOver, apologised, toldBefore, trimmed, stale>>
      BY <1>3, Zenon DEF Pro!Restart, Pro!NoPrompt
    <2>2. turn'.at = "idle" /\ TurnSound(turn', server') /\ Sound(Pro!NoCont, server') /\ turnTrouble' \in 0 .. MaxTurnTrouble
      BY <2>1, EmptyIs, EmptySound, TroubleIs DEF ProviderKept, ProviderTypes
    <2>3. Covers(stored, told') /\ Covers(stored, told' \ trimmed')
      BY <2>1 DEF ProviderKept, ToldKept, Covers
    <2>4. ProviderTypes' /\ CopiesKept'
      BY <2>1, <2>2 DEF ProviderKept, ProviderTypes, CopiesKept
    <2>5. ToldKept'
      BY <2>1, <2>2, <2>3 DEF ToldKept, Underway
    <2>6. AcksKept'
      BY <2>1, <2>2 DEF ProviderKept, AcksKept, Resting
    <2> QED
      BY <2>1, <2>2, <2>4, <2>5, <2>6 DEF ProviderKept
  <1> QED
    BY <1>1, <1>2, <1>3

\* The invariant speaks of the behaviours about the provider.
ProviderInv == focus = "provider" => ProviderKept

\* Before the first query.
LEMMA ProviderInit == ASSUME Init PROVE ProviderInv
  <1>1. Pro!Init
    BY DEF Init
  <1>2. /\ memory = Pro!NoCont /\ stored = Pro!NoCont /\ cont = Pro!NoCont /\ reported = Pro!NoCont /\ turn = Pro!NoTurn
        /\ slot = "none" /\ abortTurn = FALSE /\ first = "none" /\ batch = {} /\ claimed = {}
        /\ toolList = "unasked" /\ server = << >> /\ turnTrouble = 0 /\ acked = {} /\ seen = {} /\ talkedOver = {}
        /\ apologised = {} /\ told = {} /\ toldBefore = {} /\ trimmed = {} /\ stale = FALSE
    BY <1>1 DEF Pro!Init, Pro!NoPrompt
  <1>3. server \in Seq(SUBSET Pro!Items) /\ Len(server) = 0 /\ 0 \in 0 .. MaxTurnTrouble /\ 0 <= MaxResponses
    BY <1>2, ProviderAssumption
  <1>4. Sound(Pro!NoCont, server) /\ TurnSound(turn, server) /\ turn.at = "idle"
    BY <1>2, <1>3, EmptyIs, EmptySound
  <1>5. ProviderTypes /\ CopiesKept
    BY <1>2, <1>3, <1>4 DEF ProviderTypes, CopiesKept
  <1>6. ToldKept
    BY <1>2, <1>4 DEF ToldKept, Covers, Underway
  <1>7. AcksKept
    BY <1>2, <1>4 DEF AcksKept, Resting
  <1> QED
    BY <1>2, <1>4, <1>5, <1>6, <1>7 DEF ProviderInv, ProviderKept

\* Through fallbacks, compaction, trimming, follow-ups, failures and crashes the
\* model is shown every earlier turn or a summary that stands for it, no request
\* revives what a summary replaced, and nobody but those a follow-up talked over
\* is answered with silence, for any number of prompts, responses and troubles
\* (providers/openai.ts, poll-loop.ts).
THEOREM ConversationSafe == Spec => []ConversationKept
  <1>1. Init => ProviderInv
    BY ProviderInit
  <1>2. ASSUME ProviderInv, [Next]_vars PROVE ProviderInv'
    <2>1. CASE focus = "provider" /\ Pro!Next /\ UNCHANGED focus
      <3>1. ProviderKept
        BY <1>2, <2>1 DEF ProviderInv
      <3>2. ProviderKept'
        BY <2>1, <3>1, QuerySteps, ListStep, SizeSteps, AnswerSteps, GoOnSteps, FailSteps, ReportStep, OverSteps
           DEF Pro!Next
      <3> QED
        BY <3>2 DEF ProviderInv
    <2>2. CASE UNCHANGED <<focus, proVars>>
      BY <1>2, <2>2 DEF ProviderInv, ProviderKept, ProviderTypes, CopiesKept, ToldKept, AcksKept, proVars
    <2>3. UNCHANGED focus /\ (~ (focus = "provider" /\ Pro!Next) => UNCHANGED proVars)
      BY <1>2 DEF Next, vars
    <2> QED
      BY <2>1, <2>2, <2>3
  <1>3. ProviderInv => ConversationKept
    <2> SUFFICES ASSUME ProviderKept PROVE Pro!ConversationKept
      BY DEF ProviderInv, ConversationKept
    <2>1. Pro!TypeOK
      <3>1. memory \in Pro!Convs /\ stored \in Pro!Convs /\ cont \in Pro!Convs /\ reported \in Pro!Convs
        BY DEF ProviderKept, CopiesKept, Sound, Shaped
      <3>2. /\ turn.at \in {"idle", "tools", "size", "request", "calls", "done", "after"}
            /\ turn.prompt \in Prompts \cup {"none"} /\ turn.conv \in Pro!Convs
        BY DEF ProviderKept, TurnSound, TurnRecords, Resting, Underway
      <3>3. \A i \in 1 .. Len(server) : server[i] \subseteq Pro!Items
        BY DEF ProviderKept, ProviderTypes
      <3> QED
        BY <3>1, <3>2, <3>3 DEF ProviderKept, ProviderTypes, Pro!TypeOK, Pro!NoPrompt
    <2>2. Pro!ContextKept
      <3> SUFFICES ASSUME turn.at = "done" PROVE told \subseteq Pro!Shown \/ "summary" \in Pro!Shown
        BY DEF Pro!ContextKept, Pro!Summary
      <3>1. Covers(turn.conv, told) /\ turn.conv.items \subseteq Pro!Shown
        BY ShownIs DEF ProviderKept, ToldKept, Underway
      <3> QED
        BY <3>1 DEF Covers
    <2> QED
      BY <2>1, <2>2 DEF ProviderKept, AcksKept, Pro!ConversationKept, Pro!SilenceNeedsFollowUp, Pro!CompactionForks
  <1> QED
    BY <1>1, <1>2, <1>3, PTL DEF Spec

=============================================================================
