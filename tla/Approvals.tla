----------------------------- MODULE Approvals -----------------------------
(***************************************************************************)
(* Cards an admin answers: the self-modification requests of an agent       *)
(* (install_packages, add_mcp_server) and the credential requests of the    *)
(* OneCLI gateway.  Both keep a row in pending_approvals.  A self-mod row   *)
(* is inserted before its card is sent, and an approve click applies the    *)
(* change across an await with the row still there; a credential row is     *)
(* inserted after its card was sent, and a promise in memory waits for the  *)
(* click.  Clicks by anyone but the approver the card names are refused by  *)
(* the channel and left out.                                                *)
(***************************************************************************)
EXTENDS Integers, FiniteSets

CONSTANTS
  Installs,         \* self-mod requests
  Credentials,      \* credential requests
  MaxPackages,      \* MAX_PACKAGES
  MaxCardClicks,    \* bound: clicks in a behaviour
  MaxCardTrouble    \* bound: unreachable approvers, failed cards, stops

VARIABLES
  content,     \* what a self-mod request on its way to the host asks for
  viaTool,     \* requests the MCP tool wrote, not the agent's own shell
  reqAt,       \* how far the code that brings the card is
  approvalRow, \* pending_approvals: "none", "pending", "expired"
  onScreen,    \* cards that can be clicked
  applying,    \* approve clicks whose handler is being awaited
  applied,     \* times the change was written to container.json
  waiting,     \* pending of onecli-approvals.ts: credential promises
  decision,    \* what the gateway was told
  expiring,    \* expireApproval between its status and its delete
  staleList,   \* rows sweepStaleApprovals still has to delete
  sessionGone, \* the session of the self-mod requests was deleted
  apprUp, clicks, cardTrouble,
  hostRefused, \* history: requests the host refused
  made,        \* history: cards that had a row
  trail,       \* history: enterprise_audit outcomes
  approvals,   \* history: approve decisions audited
  cutApplies   \* history: applies the end of the host cut off

books    == <<approvalRow, applied, trail, approvals, made>>
requests == <<content, viaTool, reqAt, hostRefused>>
memory   == <<applying, waiting, expiring, staleList>>
world    == <<onScreen, sessionGone, apprUp, clicks, cardTrouble, cutApplies>>
vars     == <<books, requests, memory, world, decision>>

Items    == Installs \cup Credentials
Flaws    == {"none", "type", "length", "charset"}
Contents == [apt : 0..(MaxPackages + 1), npm : 0..(MaxPackages + 1), flaw : Flaws]
NoContent == [apt |-> 0, npm |-> 0, flaw |-> "none"]

TypeOK ==
  /\ content \in [Installs -> Contents]
  /\ viaTool \subseteq Installs /\ hostRefused \subseteq Installs
  /\ reqAt \in [Items -> {"new", "sent", "target", "card", "done"}]
  /\ approvalRow \in [Items -> {"none", "pending", "expired"}]
  /\ onScreen \subseteq Items /\ made \subseteq Items
  /\ applying \in [Installs -> 0..MaxCardClicks]
  /\ applied \in [Installs -> 0..MaxCardClicks]
  /\ approvals \in [Items -> 0..MaxCardClicks]
  /\ cutApplies \in [Installs -> 0..MaxCardClicks]
  /\ waiting \subseteq Credentials /\ expiring \subseteq Credentials
  /\ staleList \subseteq Credentials
  /\ decision \in [Credentials -> {"none", "approve", "deny"}]
  /\ trail \in [Items -> SUBSET {"approved", "rejected", "expired", "stale"}]
  /\ sessionGone \in BOOLEAN /\ apprUp \in BOOLEAN
  /\ clicks \in 0..MaxCardClicks /\ cardTrouble \in 0..MaxCardTrouble

Init ==
  /\ content = [i \in Installs |-> NoContent]
  /\ viaTool = {} /\ hostRefused = {} /\ onScreen = {} /\ made = {}
  /\ reqAt = [i \in Items |-> "new"]
  /\ approvalRow = [i \in Items |-> "none"]
  /\ applying = [i \in Installs |-> 0] /\ applied = [i \in Installs |-> 0]
  /\ approvals = [i \in Items |-> 0] /\ cutApplies = [i \in Installs |-> 0]
  /\ waiting = {} /\ expiring = {} /\ staleList = {}
  /\ decision = [c \in Credentials |-> "none"]
  /\ trail = [i \in Items |-> {}]
  /\ sessionGone = FALSE /\ apprUp = TRUE /\ clicks = 0 /\ cardTrouble = 0

Trouble == cardTrouble < MaxCardTrouble /\ cardTrouble' = cardTrouble + 1
Goto(i, s) == reqAt' = [reqAt EXCEPT ![i] = s]
SetRow(i, s) == approvalRow' = [approvalRow EXCEPT ![i] = s]
Audit(i, s) == trail' = [trail EXCEPT ![i] = @ \cup {s}]

----------------------------------------------------------------------------
(* A self-mod request: the tool in the container, the host's own checks,    *)
(* the approver, the row and the card.                                      *)

\* checkStrings and the counts of the install_packages tool.
toolAccepts(c) == /\ c.apt + c.npm # 0 /\ c.apt + c.npm <= MaxPackages
                  /\ c.flaw = "none"

\* A strict read of one array: too many entries, or an entry of the wrong
\* type, length or characters, refuses it.
readStringArray(n, c) == n <= MaxPackages /\ c.flaw = "none"

\* handleInstallPackages reads the same row again and trusts nothing.
hostAccepts(c) ==
  readStringArray(c.apt, c) /\ readStringArray(c.npm, c)
  /\ c.apt + c.npm # 0 /\ c.apt + c.npm <= MaxPackages

\* The tool writes what it accepts; the agent's shell can write any row.
Submit(i, c) ==
  /\ reqAt[i] = "new" /\ ~sessionGone
  /\ content' = [content EXCEPT ![i] = c]
  /\ \/ toolAccepts(c) /\ viaTool' = viaTool \cup {i}
     \/ UNCHANGED viaTool
  /\ Goto(i, "sent")
  /\ UNCHANGED <<books, memory, world, decision, hostRefused>>

\* The delivery of the system row: a refusal is told to the agent.
handleInstallPackages(i) ==
  /\ apprUp /\ reqAt[i] = "sent"
  /\ IF hostAccepts(content[i])
     THEN Goto(i, "target") /\ UNCHANGED hostRefused
     ELSE Goto(i, "done") /\ hostRefused' = hostRefused \cup {i}
  /\ content' = [content EXCEPT ![i] = NoContent]
  /\ UNCHANGED <<books, memory, world, decision, viaTool>>

\* An approver with a reachable DM: insert the row, then hand the card over.
\* Without a delivery adapter the request ends with the row in place.
requestApproval(i) ==
  /\ apprUp /\ i \in Installs /\ reqAt[i] = "target"
  /\ SetRow(i, "pending")
  /\ made' = made \cup {i}
  /\ \/ Goto(i, "card") /\ UNCHANGED cardTrouble
     \/ Goto(i, "done") /\ Trouble
  /\ UNCHANGED <<memory, decision, content, viaTool, hostRefused, applied, trail, approvals,
                 onScreen, sessionGone, apprUp, clicks, cutApplies>>

\* No owner or admin, or none whose DM channel opens: the agent is told, the
\* gateway denied.
NobodyToAsk(i) ==
  /\ apprUp /\ reqAt[i] = "target" /\ Trouble
  /\ Goto(i, "done")
  /\ decision' = IF i \in Credentials THEN [decision EXCEPT ![i] = "deny"] ELSE decision
  /\ UNCHANGED <<books, memory, content, viaTool, hostRefused, onScreen, sessionGone, apprUp,
                 clicks, cutApplies>>

\* The card shows, and can be clicked, before deliver returns.
CardShows(i) ==
  /\ apprUp /\ reqAt[i] = "card" /\ i \notin onScreen
  /\ onScreen' = onScreen \cup {i}
  /\ UNCHANGED <<books, requests, memory, decision, sessionGone, apprUp, clicks, cardTrouble,
                 cutApplies>>

\* deliver threw, also for a card that shows: the self-mod row stays.
CardThrows(i) ==
  /\ apprUp /\ reqAt[i] = "card" /\ Trouble
  /\ Goto(i, "done")
  /\ decision' = IF i \in Credentials THEN [decision EXCEPT ![i] = "deny"] ELSE decision
  /\ UNCHANGED <<books, memory, content, viaTool, hostRefused, onScreen, sessionGone, apprUp,
                 clicks, cutApplies>>

CardSent(i) ==
  /\ apprUp /\ i \in Installs /\ reqAt[i] = "card" /\ i \in onScreen
  /\ Goto(i, "done")
  /\ UNCHANGED <<books, memory, world, decision, content, viaTool, hostRefused>>

----------------------------------------------------------------------------
(* A credential request of the gateway.                                     *)

handleRequest(c) ==
  /\ apprUp /\ reqAt[c] = "new"
  /\ Goto(c, "target")
  /\ UNCHANGED <<books, memory, world, decision, content, viaTool, hostRefused>>

CredentialCard(c) ==
  /\ apprUp /\ c \in Credentials /\ reqAt[c] = "target"
  /\ Goto(c, "card")
  /\ UNCHANGED <<books, memory, world, decision, content, viaTool, hostRefused>>

\* deliver returned: the row, the timer and the promise.
AwaitDecision(c) ==
  /\ apprUp /\ c \in Credentials /\ reqAt[c] = "card" /\ c \in onScreen
  /\ Goto(c, "done")
  /\ SetRow(c, "pending")
  /\ made' = made \cup {c}
  /\ waiting' = waiting \cup {c}
  /\ UNCHANGED <<world, decision, content, viaTool, hostRefused, applied, trail, approvals,
                 applying, expiring, staleList>>

\* The timer, one second before the gateway gives up: the gateway is denied
\* and the row marked; it goes once the card was edited.
TimerFires(c) ==
  /\ apprUp /\ c \in waiting
  /\ waiting' = waiting \ {c}
  /\ decision' = [decision EXCEPT ![c] = "deny"]
  /\ SetRow(c, "expired")
  /\ expiring' = expiring \cup {c}
  /\ UNCHANGED <<requests, world, made, applied, trail, approvals, applying, staleList>>

expireApproval(c) ==
  /\ apprUp /\ c \in expiring
  /\ expiring' = expiring \ {c}
  /\ SetRow(c, "none")
  /\ UNCHANGED <<requests, world, decision, made, applied, trail, approvals, applying, waiting,
                 staleList>>

----------------------------------------------------------------------------
(* Clicks.                                                                  *)

Clicked(i) == apprUp /\ i \in onScreen /\ clicks < MaxCardClicks /\ clicks' = clicks + 1
Verdict(v) == IF v = "approve" THEN "approved" ELSE "rejected"

\* The promise is there: audit, delete the row, answer the gateway.
resolveOneCLIApproval(c, v) ==
  /\ c \in waiting
  /\ waiting' = waiting \ {c}
  /\ decision' = [decision EXCEPT ![c] = IF v = "approve" THEN v ELSE "deny"]
  /\ SetRow(c, "none")
  /\ Audit(c, Verdict(v))
  /\ approvals' = IF v = "approve" THEN [approvals EXCEPT ![c] = @ + 1] ELSE approvals

ClickCredential(c, v) ==
  /\ Clicked(c) /\ resolveOneCLIApproval(c, v)
  /\ UNCHANGED <<requests, made, applied, applying, expiring, staleList, onScreen, sessionGone,
                 apprUp, cardTrouble, cutApplies>>

\* Mutant: the status of the row is not looked at.
RefusesNoClick(i) == FALSE

\* A row the sweep or the timer marked expired refuses every click.
RefusesClick(i) == approvalRow[i] = "expired"

ClickStale(i) ==
  /\ Clicked(i) /\ i \notin waiting /\ RefusesClick(i)
  /\ SetRow(i, "none")
  /\ Audit(i, "stale")
  /\ UNCHANGED <<requests, memory, decision, made, applied, approvals, onScreen, sessionGone,
                 apprUp, cardTrouble, cutApplies>>

\* The row is there and its promise is not, or the session is gone: drop it.
ClickOrphan(i) ==
  /\ Clicked(i) /\ approvalRow[i] # "none" /\ ~RefusesClick(i)
  /\ IF i \in Credentials THEN i \notin waiting ELSE sessionGone
  /\ SetRow(i, "none")
  /\ UNCHANGED <<requests, memory, decision, made, applied, trail, approvals, onScreen,
                 sessionGone, apprUp, cardTrouble, cutApplies>>

\* No row: nobody claims the click, the card on the screen stays answered.
ClickUnclaimed(i) ==
  /\ Clicked(i) /\ approvalRow[i] = "none" /\ i \notin waiting
  /\ UNCHANGED <<books, requests, memory, decision, onScreen, sessionGone, apprUp, cardTrouble,
                 cutApplies>>

Decidable(i) == approvalRow[i] # "none" /\ ~RefusesClick(i) /\ ~sessionGone

ClickReject(i) ==
  /\ Clicked(i) /\ Decidable(i)
  /\ Audit(i, "rejected")
  /\ SetRow(i, "none")
  /\ UNCHANGED <<requests, memory, decision, made, applied, approvals, onScreen, sessionGone,
                 apprUp, cardTrouble, cutApplies>>

\* The handler writes container.json, then awaits the image build and the
\* stop of the container.  The row stays pending: another click on the same
\* card runs the handler again.
ClickApprove(i) ==
  /\ Clicked(i) /\ Decidable(i)
  /\ applied' = [applied EXCEPT ![i] = @ + 1]
  /\ applying' = [applying EXCEPT ![i] = @ + 1]
  /\ UNCHANGED <<requests, decision, approvalRow, made, trail, approvals, waiting, expiring,
                 staleList, onScreen, sessionGone, apprUp, cardTrouble, cutApplies>>

\* Mutant: a failed build leaves without an audit.
ApplyEndsUnaudited(i) ==
  /\ apprUp /\ applying[i] > 0
  /\ applying' = [applying EXCEPT ![i] = @ - 1]
  /\ SetRow(i, "none")
  /\ UNCHANGED <<requests, world, decision, made, applied, waiting, expiring, staleList,
                 trail, approvals>>

\* The handler returned or threw: audit, delete, wake the agent.
ApplyEnds(i) ==
  /\ apprUp /\ applying[i] > 0
  /\ applying' = [applying EXCEPT ![i] = @ - 1]
  /\ Audit(i, "approved")
  /\ approvals' = [approvals EXCEPT ![i] = @ + 1]
  /\ SetRow(i, "none")
  /\ UNCHANGED <<requests, world, decision, made, applied, waiting, expiring, staleList>>

----------------------------------------------------------------------------
(* The sweep, the end of the session, the end and the start of the host.    *)

\* expireStalePendingApprovals: a credential waits minutes, not days.
ExpireSweep(i) ==
  /\ apprUp /\ approvalRow[i] = "pending" /\ i \notin waiting
  /\ SetRow(i, "expired")
  /\ Audit(i, "expired")
  /\ UNCHANGED <<requests, memory, world, decision, made, applied, approvals>>

DeleteSession ==
  /\ apprUp /\ ~sessionGone /\ Trouble
  /\ \A i \in Installs : reqAt[i] \in {"new", "done"}
  /\ sessionGone' = TRUE
  /\ UNCHANGED <<books, requests, memory, decision, onScreen, apprUp, clicks, cutApplies>>

\* Promises, timers, requests and handlers end with the process; a stop of
\* the handler forgets the promises the same way.
HostEnds ==
  /\ apprUp /\ Trouble
  /\ apprUp' = FALSE
  /\ reqAt' = [i \in Items |-> IF reqAt[i] \in {"target", "card"} THEN "done" ELSE reqAt[i]]
  /\ cutApplies' = [i \in Installs |-> cutApplies[i] + applying[i]]
  /\ applying' = [i \in Installs |-> 0]
  /\ waiting' = {} /\ expiring' = {} /\ staleList' = {}
  /\ UNCHANGED <<books, content, viaTool, hostRefused, decision, onScreen, sessionGone, clicks>>

CredentialRows == {c \in Credentials : approvalRow[c] # "none"}

\* Whatever the status.
getPendingApprovalsByAction == CredentialRows

\* startOneCLIApprovalHandler reads the rows of the last process and deletes
\* them one by one, an await before each, while new requests come in.
HostStarts ==
  /\ ~apprUp
  /\ apprUp' = TRUE
  /\ staleList' = getPendingApprovalsByAction
  /\ UNCHANGED <<books, requests, decision, applying, waiting, expiring, onScreen, sessionGone,
                 clicks, cardTrouble, cutApplies>>

sweepStaleApprovals(c) ==
  /\ apprUp /\ c \in staleList
  /\ staleList' = staleList \ {c}
  /\ SetRow(c, "none")
  /\ UNCHANGED <<requests, world, decision, made, applied, trail, approvals, applying, waiting,
                 expiring>>

InstallStep(i) ==
  \/ \E c \in Contents : Submit(i, c)
  \/ handleInstallPackages(i) \/ requestApproval(i) \/ CardSent(i)
  \/ ClickReject(i) \/ ClickApprove(i) \/ ApplyEnds(i)

CredentialStep(c) ==
  \/ handleRequest(c) \/ CredentialCard(c) \/ AwaitDecision(c)
  \/ TimerFires(c) \/ expireApproval(c) \/ sweepStaleApprovals(c)
  \/ \E v \in {"approve", "reject"} : ClickCredential(c, v)

AnyStep(i) == NobodyToAsk(i) \/ CardShows(i) \/ CardThrows(i) \/ ClickStale(i) \/ ClickOrphan(i)
              \/ ClickUnclaimed(i) \/ ExpireSweep(i)

Next ==
  \/ \E i \in Installs : InstallStep(i)
  \/ \E c \in Credentials : CredentialStep(c)
  \/ \E i \in Items : AnyStep(i)
  \/ DeleteSession \/ HostEnds \/ HostStarts

Spec == Init /\ [][Next]_vars

----------------------------------------------------------------------------
(* Properties.                                                              *)

\* The two ends of the boundary agree: what the tool lets through, the host
\* refuses never; what the host refuses was written around the tool.
ToolRequestsPass == viaTool \cap hostRefused = {}

\* The audit trail counts the changes: every write of container.json has an
\* approve decision in enterprise_audit, or its handler still runs, or the
\* end of the host cut the handler off.
AppliesAudited ==
  \A i \in Installs : applied[i] = approvals[i] + applying[i] + cutApplies[i]

\* A self-mod card whose row is gone left a decision in the audit trail,
\* unless its session was deleted.
DecisionsLeaveATrail ==
  \A i \in Installs : (i \in made /\ approvalRow[i] = "none") => (trail[i] # {} \/ sessionGone)

\* A card the sweep audited as expired applies nothing any more: a click on
\* it, however late, runs no handler.
ExpiredStaysDead ==
  [][\A i \in Installs : approvalRow[i] = "expired" => applied'[i] = applied[i]]_vars

\* The gateway was told to approve exactly when the trail has an approval of
\* the credential: a timeout, a late click or a stop cannot make them differ.
TrailMatchesDecision ==
  \A c \in Credentials : (approvals[c] > 0 <=> decision[c] = "approve") /\ approvals[c] <= 1

\* While the host is up a credential row has someone who will remove it: the
\* promise that waits, the expiry that edits its card, or the sweep of the
\* start; and a promise has its row.
RowsHaveKeepers ==
  apprUp => /\ waiting \subseteq CredentialRows
            /\ CredentialRows \subseteq waiting \cup expiring \cup staleList

\* What was applied, what the gateway was told and what the audit trail says
\* agree, and no request is refused or forgotten that should not be.
TrailHonest ==
  /\ TypeOK
  /\ ToolRequestsPass
  /\ AppliesAudited
  /\ DecisionsLeaveATrail
  /\ TrailMatchesDecision
  /\ RowsHaveKeepers
=============================================================================
