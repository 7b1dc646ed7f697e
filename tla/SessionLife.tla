---------------------------- MODULE SessionLife ----------------------------
(***************************************************************************)
(* The life of the sessions of one user with one agent, and of the user's   *)
(* state scope: messages find or create the active session, the sweep tars  *)
(* and deletes the directory of an idle one across an await, later deletes  *)
(* the tarball and the row, and expires the scope directory the user has    *)
(* not used for long.  Days are the unit of every retention clock.          *)
(***************************************************************************)
EXTENDS Integers, FiniteSets

CONSTANTS
  SessionIds,   \* ids of sessions, in the order they are made
  Texts,        \* messages
  TtlDays,      \* AGENTDESK_SESSION_TTL_DAYS
  HardDays,     \* AGENTDESK_ARCHIVE_HARD_DELETE_DAYS
  ScopeDays,    \* AGENTDESK_SCOPE_TTL_DAYS
  LastDay,      \* bound: days
  MaxLifeTrouble \* bound: stops and quiet writes

VARIABLES
  today,
  sessStatus,  \* status of a session row, "none" before and "deleted" after
  lastActive,  \* last_active, or created_at
  archivedAt,
  running,     \* sessions whose container_status is not stopped
  dir,         \* messages in the session directory; Gone when there is none
  tarball,     \* messages in the archive; Gone when there is none
  taring,      \* archivesInProgress: last_active and content when tar began
  scope,       \* the user's state scope directory exists
  marker,      \* day of its access marker, or Never
  auditedDel,  \* auditedPendingDelete: audited, and the delete has failed so far
  lifeUp, lifeTrouble,
  sent,        \* messages not sent yet are not in it
  quiet,       \* history: rows written without last_active
  failed,      \* history: messages whose write found no directory
  cutArchive,  \* history: the host ended between the delete and the flip
  lostTexts,   \* history: content deleted and in no archive
  usedOn,      \* history: the last day the scope was mounted, or Never
  removals, audits, \* history: scopes deleted, and audit rows about it
  early        \* history: a scope or an archive went before its days were over

life  == <<sessStatus, lastActive, archivedAt, running, dir, tarball>>
scopes == <<scope, marker, auditedDel, usedOn, removals, audits>>
past  == <<quiet, failed, cutArchive, lostTexts, early>>
vars  == <<today, life, taring, scopes, lifeUp, lifeTrouble, sent, past>>

Gone  == [there |-> FALSE, rows |-> {}]
Holding(rows) == [there |-> TRUE, rows |-> rows]
Never == -1
Days  == 0..LastDay
Dirs  == [there : BOOLEAN, rows : SUBSET Texts]
NoTar == [last |-> Never, at |-> Never, copied |-> {}]

TypeOK ==
  /\ today \in Days
  /\ sessStatus \in [SessionIds -> {"none", "active", "archived", "deleted"}]
  /\ lastActive \in [SessionIds -> Days] /\ archivedAt \in [SessionIds -> Days]
  /\ running \subseteq SessionIds
  /\ dir \in [SessionIds -> Dirs] /\ tarball \in [SessionIds -> Dirs]
  /\ \A s \in SessionIds : taring[s].last \in Days \cup {Never} /\ taring[s].at \in Days \cup {Never} /\ taring[s].copied \subseteq Texts
  /\ scope \in BOOLEAN /\ marker \in Days \cup {Never}
  /\ sent \subseteq Texts /\ quiet \subseteq Texts /\ failed \subseteq Texts

Init ==
  /\ today = 0
  /\ sessStatus = [s \in SessionIds |-> "none"]
  /\ lastActive = [s \in SessionIds |-> 0] /\ archivedAt = [s \in SessionIds |-> 0]
  /\ running = {} /\ sent = {}
  /\ dir = [s \in SessionIds |-> Gone] /\ tarball = [s \in SessionIds |-> Gone]
  /\ taring = [s \in SessionIds |-> NoTar]
  /\ scope = FALSE /\ marker = Never /\ usedOn = Never /\ auditedDel = FALSE /\ removals = 0 /\ audits = 0
  /\ lifeUp = TRUE /\ lifeTrouble = 0
  /\ quiet = {} /\ failed = {} /\ cutArchive = {} /\ lostTexts = {} /\ early = FALSE

Trouble == lifeTrouble < MaxLifeTrouble /\ lifeTrouble' = lifeTrouble + 1
Active  == {s \in SessionIds : sessStatus[s] = "active"}
Unused  == {s \in SessionIds : sessStatus[s] = "none"}
Lowest(S) == CHOOSE s \in S : \A t \in S : s <= t

----------------------------------------------------------------------------
(* Use.                                                                     *)

\* Every spawn that mounts the scope stamps it.
touchScopeAccess == marker' = today

\* ensureStateScope on the way to a spawn.
ensureStateScope == scope' = TRUE /\ usedOn' = today

\* The user's message: the active session or a new one, the row in its
\* inbound.db, last_active, the wake.  A directory that is gone throws.
writeSessionMessage(t) ==
  /\ lifeUp /\ t \notin sent
  /\ sent' = sent \cup {t}
  /\ Active # {} \/ Unused # {}
  /\ LET s == IF Active # {} THEN Lowest(Active) ELSE Lowest(Unused)
         new == Active = {}
     IN /\ sessStatus' = [sessStatus EXCEPT ![s] = "active"]
        /\ IF ~new /\ dir[s] = Gone
           THEN /\ failed' = failed \cup {t}
                /\ UNCHANGED <<lastActive, running, dir, scope, marker, usedOn>>
           ELSE /\ dir' = [dir EXCEPT ![s] = Holding(@.rows \cup {t})]
                /\ lastActive' = [lastActive EXCEPT ![s] = today]
                /\ running' = running \cup {s}
                /\ touchScopeAccess /\ ensureStateScope
                /\ UNCHANGED failed
  /\ UNCHANGED <<today, archivedAt, tarball, taring, auditedDel, removals, audits, lifeUp,
                 lifeTrouble, quiet, cutArchive, lostTexts, early>>

\* A scheduled task, a recurrence or a requeued row: inserted straight into
\* the table, last_active left alone, nothing woken.
QuietWrite(t) ==
  /\ lifeUp /\ t \notin sent /\ Trouble
  /\ \E s \in Active : dir[s] # Gone /\ dir' = [dir EXCEPT ![s].rows = @ \cup {t}]
  /\ sent' = sent \cup {t} /\ quiet' = quiet \cup {t}
  /\ UNCHANGED <<today, sessStatus, lastActive, archivedAt, running, tarball, taring, scopes, lifeUp,
                 failed, cutArchive, lostTexts, early>>

ContainerStops(s) ==
  /\ s \in running
  /\ running' = running \ {s}
  /\ UNCHANGED <<today, sessStatus, lastActive, archivedAt, dir, tarball, taring, scopes, lifeUp,
                 lifeTrouble, sent, past>>

DayPasses ==
  /\ today < LastDay
  /\ today' = today + 1
  /\ UNCHANGED <<life, taring, scopes, lifeUp, lifeTrouble, sent, past>>

----------------------------------------------------------------------------
(* Archiving.                                                               *)

findArchivableSessions ==
  {s \in Active \ running : lastActive[s] < today - TtlDays}

\* The tar runs in a child process and sees the directory at its start; its
\* file is there, and holds nothing yet one can rely on, while it runs.
archiveSession(s) ==
  /\ lifeUp /\ s \in findArchivableSessions /\ taring[s] = NoTar /\ dir[s] # Gone
  /\ taring' = [taring EXCEPT ![s] = [last |-> lastActive[s], at |-> today, copied |-> dir[s].rows]]
  /\ tarball' = [tarball EXCEPT ![s] = Holding({})]
  /\ UNCHANGED <<today, sessStatus, lastActive, archivedAt, running, dir, scopes, lifeUp,
                 lifeTrouble, sent, past>>

\* A tar that exits with an error leaves the session as it was, and its file.
TarFails(s) ==
  /\ lifeUp /\ taring[s] # NoTar /\ Trouble
  /\ taring' = [taring EXCEPT ![s] = NoTar]
  /\ UNCHANGED <<today, life, scopes, lifeUp, sent, past>>

\* Mutant: the session is not looked at again.
stillQuiescentAlways(s) == TRUE

\* Read again after the tar, before the delete.
stillQuiescent(s) ==
  sessStatus[s] = "active" /\ s \notin running /\ lastActive[s] = taring[s].last

Lost(s) == dir[s].rows \ taring[s].copied

\* The directory is deleted and the status written in one turn, dated with
\* the start of the sweep, or the tarball is dropped.
archiveSessionFiles(s) ==
  /\ lifeUp /\ taring[s] # NoTar
  /\ taring' = [taring EXCEPT ![s] = NoTar]
  /\ IF stillQuiescent(s)
     THEN /\ tarball' = [tarball EXCEPT ![s] = Holding(taring[s].copied)]
          /\ lostTexts' = lostTexts \cup Lost(s)
          /\ dir' = [dir EXCEPT ![s] = Gone]
          /\ sessStatus' = [sessStatus EXCEPT ![s] = "archived"]
          /\ archivedAt' = [archivedAt EXCEPT ![s] = taring[s].at]
     ELSE /\ tarball' = [tarball EXCEPT ![s] = Gone]
          /\ UNCHANGED <<dir, sessStatus, archivedAt, lostTexts>>
  /\ UNCHANGED <<today, lastActive, running, scopes, lifeUp, lifeTrouble, sent, quiet, failed,
                 cutArchive, early>>

\* The host ends after the delete and before the status is written.
ArchiveCutShort(s) ==
  /\ lifeUp /\ taring[s] # NoTar /\ stillQuiescent(s) /\ Trouble
  /\ tarball' = [tarball EXCEPT ![s] = Holding(taring[s].copied)]
  /\ lostTexts' = lostTexts \cup Lost(s)
  /\ dir' = [dir EXCEPT ![s] = Gone]
  /\ cutArchive' = cutArchive \cup {s}
  /\ taring' = [x \in SessionIds |-> NoTar]
  /\ lifeUp' = FALSE /\ auditedDel' = FALSE
  /\ UNCHANGED <<today, sessStatus, lastActive, archivedAt, running, scope, marker, usedOn,
                 removals, audits, sent, quiet, failed, early>>

\* A later sweep finds no directory and writes the status it owed.
ArchiveAgain(s) ==
  /\ lifeUp /\ s \in findArchivableSessions /\ dir[s] = Gone
  /\ sessStatus' = [sessStatus EXCEPT ![s] = "archived"]
  /\ archivedAt' = [archivedAt EXCEPT ![s] = today]
  /\ UNCHANGED <<today, lastActive, running, dir, tarball, taring, scopes, lifeUp, lifeTrouble, sent,
                 past>>

findArchivedSessionsOlderThan ==
  {s \in SessionIds : sessStatus[s] = "archived" /\ archivedAt[s] < today - HardDays}

\* The tarball, then the row; the end of the host in between leaves a row
\* without a tarball, which the next sweep deletes.
hardDeleteArchivedSession(s) ==
  /\ lifeUp /\ s \in findArchivedSessionsOlderThan
  /\ tarball' = [tarball EXCEPT ![s] = Gone]
  /\ early' = (early \/ today - archivedAt[s] <= HardDays)
  /\ \/ sessStatus' = [sessStatus EXCEPT ![s] = "deleted"] /\ UNCHANGED <<lifeUp, lifeTrouble>>
     \/ UNCHANGED sessStatus /\ lifeUp' = FALSE /\ Trouble
  /\ taring' = IF lifeUp' THEN taring ELSE [x \in SessionIds |-> NoTar]
  /\ auditedDel' = (lifeUp' /\ auditedDel)
  /\ UNCHANGED <<today, lastActive, archivedAt, running, dir, scope, marker, usedOn, removals, audits, sent, quiet, failed,
                 cutArchive, lostTexts>>

----------------------------------------------------------------------------
(* The state scope.                                                         *)

\* indexScopes: an active session keeps the scope.
liveScope == Active # {}

\* A scope never stamped is adopted with the newest last_active there is.
Evidence == LET seen == {lastActive[s] : s \in {x \in SessionIds : sessStatus[x] \in {"active", "archived"}}}
            IN IF seen = {} THEN today ELSE CHOOSE d \in seen : \A e \in seen : e <= d

\* Once for a scope whose delete keeps failing, as long as the process lives.
auditRemoval == audits' = IF auditedDel THEN audits ELSE audits + 1

\* The audit row, then the delete; a row that cannot be written stops it, and
\* a delete may fail.
expireScope ==
  \/ /\ auditRemoval
     /\ scope' = FALSE /\ auditedDel' = FALSE
     /\ removals' = removals + 1
     /\ early' = (early \/ (usedOn # Never /\ today - usedOn < ScopeDays))
     /\ UNCHANGED lifeTrouble
  \/ /\ auditRemoval
     /\ auditedDel' = TRUE /\ Trouble
     /\ UNCHANGED <<scope, removals, early>>
  \/ /\ ~auditedDel /\ Trouble
     /\ UNCHANGED <<scope, auditedDel, removals, audits, early>>

\* One synchronous pass: a live scope is skipped, an unstamped one adopted,
\* one past the cutoff expired.
sweepExpiredScopes ==
  LET accessed == IF marker = Never THEN Evidence ELSE marker
  IN /\ lifeUp /\ scope /\ ~liveScope
     /\ IF accessed > today - ScopeDays
        THEN UNCHANGED <<scope, auditedDel, removals, audits, early, lifeTrouble>>
        ELSE expireScope
     /\ marker' = IF scope' THEN accessed ELSE Never
     /\ UNCHANGED <<today, life, taring, usedOn, lifeUp, sent, quiet, failed, cutArchive, lostTexts>>

HostEnds ==
  /\ lifeUp /\ Trouble
  /\ lifeUp' = FALSE
  /\ taring' = [x \in SessionIds |-> NoTar] /\ auditedDel' = FALSE
  /\ UNCHANGED <<today, life, scope, marker, usedOn, removals, audits, sent, past>>

\* The containers of the last process are stopped at the start.
HostStarts ==
  /\ ~lifeUp
  /\ lifeUp' = TRUE
  /\ running' = {}
  /\ UNCHANGED <<today, sessStatus, lastActive, archivedAt, dir, tarball, taring, scopes, lifeTrouble,
                 sent, past>>

Next ==
  \/ \E t \in Texts : writeSessionMessage(t) \/ QuietWrite(t)
  \/ \E s \in SessionIds :
       \/ ContainerStops(s) \/ archiveSession(s) \/ TarFails(s) \/ archiveSessionFiles(s)
       \/ ArchiveCutShort(s) \/ ArchiveAgain(s) \/ hardDeleteArchivedSession(s)
  \/ sweepExpiredScopes \/ DayPasses \/ HostEnds \/ HostStarts

Spec == Init /\ [][Next]_vars

----------------------------------------------------------------------------
(* Properties.                                                              *)

\* The delete that follows the tar destroys no message of the user: whatever
\* came while the tar ran is seen by the second look at the session.  Rows
\* written without last_active are not.
ArchiveLosesNothing == lostTexts \subseteq quiet

\* A message finds the directory of its session; only an archive cut off
\* between the delete and the status makes it fail, until the sweep ends it.
MessagesLand == failed # {} => cutArchive # {}

\* A session is in one place: active with its directory, archived with its
\* tarball and no directory, or gone with both.  Between a cut archive and
\* the sweep that ends it the directory is missing; between the two steps of
\* a hard delete the tarball is.
OnePlace ==
  \A s \in SessionIds :
    /\ (sessStatus[s] = "active" /\ s \notin cutArchive) => dir[s] # Gone
    /\ sessStatus[s] \in {"archived", "deleted"} => dir[s] = Gone
    /\ sessStatus[s] = "deleted" => tarball[s] = Gone

\* No scope is deleted within ScopeDays of its last mount or under an active
\* session, and no tarball within HardDays of its archiving.
RetentionHonoured == ~early /\ (liveScope /\ usedOn # Never /\ Active \cap running # {} => scope)

\* Deleting a person's scope always leaves an audit row, written first.
RemovalsAudited == removals <= audits

\* Archiving and retention destroy nothing a session still needs, nothing too
\* early, and nothing without an audit row.
FilesKept ==
  /\ TypeOK
  /\ ArchiveLosesNothing
  /\ MessagesLand
  /\ OnePlace
  /\ RetentionHonoured
  /\ RemovalsAudited
=============================================================================
