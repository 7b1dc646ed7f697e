--------------------------- MODULE MCHousekeeping ---------------------------
(***************************************************************************)
(* What goes on behind a session, in one run: its scheduled tasks, its      *)
(* archive, the calls of its turns to the business gateway, the numbers of  *)
(* its messages, the locks of its channel and its capped direct messages to *)
(* members of a roster.  They share no state, so the run explores the union *)
(* of their behaviours: focus says which one a behaviour is about, the      *)
(* others stay in their initial state.                                      *)
(***************************************************************************)
EXTENDS Integers, Sequences, FiniteSets

CONSTANTS t1, t2, t3, b1, b2, w1, w2, h1, h2

CONSTANTS MaxOccurrences, MaxCommands, MaxTaskTrouble
CONSTANTS SessionIds, Texts, TtlDays, HardDays, ScopeDays, LastDay, MaxLifeTrouble
CONSTANTS Rows, Script, MaxCalls, MaxBoxes, RateLimit, MaxGatewayTrouble
CONSTANTS Writers, MaxRows
CONSTANTS Holders, Ttl, MaxSize, LastTick, MaxEntries
CONSTANTS Slots, Participants, Messages, SlotOf, Invites, Invitee, MaxSends, Keys, Limit, Window,
          KeysOf, InviteKeys, SendTimeAwait, AmbiguousErrors, MaxAttempts, MaxTime, MaxStops,
          MaxConsents

ASSUME TasksAssumption ==
  MaxOccurrences \in Nat \ {0} /\ MaxCommands \in Nat /\ MaxTaskTrouble \in Nat

ASSUME GatewayAssumption ==
  /\ 1 \in Rows
  /\ Len(Script) \in Nat /\ DOMAIN Script = 1..Len(Script)
  /\ \A k \in DOMAIN Script : IsFiniteSet(Script[k])
  /\ MaxCalls \in Nat /\ MaxBoxes \in Nat /\ RateLimit \in Nat

ASSUME NumbersAssumption == MaxRows \in Nat

ASSUME ChatAssumption ==
  /\ "nobody" \notin Holders
  /\ Ttl \in Nat /\ MaxSize \in Nat /\ LastTick \in Nat /\ MaxEntries \in Nat

ASSUME LifeAssumption ==
  /\ SessionIds \subseteq Nat
  /\ TtlDays \in Nat /\ HardDays \in Nat /\ ScopeDays \in Nat /\ LastDay \in Nat

ASSUME RosterAssumption ==
  /\ SlotOf \in [Messages -> Slots] /\ Invitee \in [Invites -> Participants]
  /\ Limit \in [Keys -> Nat] /\ Window \in [Keys -> Nat \ {0}]
  /\ KeysOf \in [Messages -> SUBSET Keys] /\ InviteKeys \subseteq Keys
  /\ SendTimeAwait \in BOOLEAN /\ AmbiguousErrors \in BOOLEAN
  /\ MaxSends \in Nat /\ MaxAttempts \in Nat \ {0}
  /\ MaxTime \in Nat /\ MaxStops \in Nat /\ MaxConsents \in Nat
  /\ "nobody" \notin Participants

VARIABLES focus,
  status, recurs, prompt, runAck, commands, calls, sweepAt, recurring, taskUp, taskTrouble,
  updates, paused, cancelled, missed, inRun, forked, ended, ranPaused,
  today, sessStatus, lastActive, archivedAt, running, dir, tarball, taring, scope, marker,
  auditedDel, lifeUp, lifeTrouble, sent, quiet, failed, cutArchive, lostTexts, usedOn,
  removals, audits, early,
  arrived, completed, claims, stamp, followUps, counter, nextWrite, box, boxes, token, used, gateUp,
  gatewayTrouble, callAt, callKeys, result, auditRow, atBackend, committed, commits, served,
  firstAnchor, regrouped, retried, late, gap,
  inSeqs, outRows, reads, told, refusedBy, raced,
  clock, lockRow, lease, forced, listRows, entered, taken,
  grant, reserve, ledger, time, pc, fresh, at, attempts, invite, charges, landing, shown,
  withdrawn, stops, consents

Tas == INSTANCE TaskSeries
Lif == INSTANCE SessionLife
Gat == INSTANCE GatewayCalls
Num == INSTANCE MessageSeqs
Cha == INSTANCE ChatState
Ros == INSTANCE RosterGrants WITH marker <- reserve, clock <- time, late <- landing

\* Two sessions of a user and three messages.
TwoSessions == {1, 2}
ThreeTexts == {t1, t2, t3}

\* A turn that writes the same two operations twice, each time in a bulk: two
\* equal writes a turn means to make, and two rows that may share the turn.
TwoRows == {1, 2}
SameBulkTwice == <<{b1, b2}, {b1, b2}>>

TwoWriters == {w1, w2}
TwoHolders == {h1, h2}

\* Three messages to one slot whose grant allows two sends, no rate keys.
OneSlot == {"slot1"}
OnePerson == {"p1"}
ThreeMessages == {"m1", "m2", "m3"}
ThreeSameSlot == [m \in ThreeMessages |-> "slot1"]
NoInvites == {}
NoInvitee == [i \in NoInvites |-> "p1"]
NoKeys == {}
NoLimit == [k \in NoKeys |-> 0]
NoWindow == [k \in NoKeys |-> 1]
NoKeysOfThree == [m \in ThreeMessages |-> {}]

tasVars == <<status, recurs, prompt, runAck, commands, calls, sweepAt, recurring, taskUp,
             taskTrouble, updates, paused, cancelled, missed, inRun, forked, ended, ranPaused>>
lifVars == <<today, sessStatus, lastActive, archivedAt, running, dir, tarball, taring, scope,
             marker, auditedDel, lifeUp, lifeTrouble, sent, quiet, failed, cutArchive, lostTexts,
             usedOn, removals, audits, early>>
gatVars == <<arrived, completed, claims, stamp, followUps, counter, nextWrite, box, boxes, token, used,
             gateUp, gatewayTrouble, callAt, callKeys, result, auditRow, atBackend, committed,
             commits, served, firstAnchor, regrouped, retried, late, gap>>
numVars == <<inSeqs, outRows, reads, told, refusedBy, raced>>
chaVars == <<clock, lockRow, lease, forced, listRows, entered, taken>>
rosVars == <<grant, reserve, ledger, time, pc, fresh, at, attempts, invite, charges, landing,
             shown, withdrawn, stops, consents>>
vars == <<focus, tasVars, lifVars, gatVars, numVars, chaVars, rosVars>>

Init == /\ focus \in {"tasks", "life", "gateway", "numbers", "chat", "roster"}
        /\ Tas!Init /\ Lif!Init /\ Gat!Init /\ Num!Init /\ Cha!Init /\ Ros!Init

Next ==
  /\ UNCHANGED focus
  /\ \/ /\ focus = "tasks" /\ Tas!Next
        /\ UNCHANGED <<lifVars, gatVars, numVars, chaVars, rosVars>>
     \/ /\ focus = "life" /\ Lif!Next
        /\ UNCHANGED <<tasVars, gatVars, numVars, chaVars, rosVars>>
     \/ /\ focus = "gateway" /\ Gat!Next
        /\ UNCHANGED <<tasVars, lifVars, numVars, chaVars, rosVars>>
     \/ /\ focus = "numbers" /\ Num!Next
        /\ UNCHANGED <<tasVars, lifVars, gatVars, chaVars, rosVars>>
     \/ /\ focus = "chat" /\ Cha!Next
        /\ UNCHANGED <<tasVars, lifVars, gatVars, numVars, rosVars>>
     \/ /\ focus = "roster" /\ Ros!Next
        /\ UNCHANGED <<tasVars, lifVars, gatVars, numVars, chaVars>>

Spec == Init /\ [][Next]_vars

\* A recurring task has one occurrence at a time and obeys its last commands
\* (modules/scheduling).
SeriesAsCommanded == focus = "tasks" => Tas!SeriesAsCommanded
\* The archive and the retention destroy nothing still needed, too early or
\* unaudited (session-archive.ts, scope-retention.ts).
FilesKept == focus = "life" => Lif!FilesKept
\* A turn's business writes are committed as often as it means them, however
\* often it runs, and audited as they happened (gateway-signing-proxy.ts).
WritesAccounted == focus = "gateway" => Gat!WritesAccounted
\* A number the agent was given keeps naming its message, although three
\* processes number rows (messages-out.ts, session-manager.ts).
NumberingSound == focus = "numbers" => Num!NumberingSound
\* A thread's lock excludes and its queue keeps order and size
\* (state-sqlite.ts).
LocksAndQueues == focus = "chat" => Cha!LocksAndQueues
\* Never more distinct messages reach a participant than the grant allows
\* (dm-grants.ts).
CapHeld == focus = "roster" => Ros!CapHeld
=============================================================================
