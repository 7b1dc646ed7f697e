-------------------------- MODULE FrontDoorProofs --------------------------
(***************************************************************************)
(* Theorems about the parts that MCFrontDoor runs side by side.  They hold *)
(* for every value of the constants and are checked by TLAPS.              *)
(***************************************************************************)
EXTENDS MCFrontDoor, WellFoundedInduction, TLAPS

(***************************************************************************)
(* Approvals: the inductive invariant.                                     *)
(***************************************************************************)
\* A request the tool wrote is one the host accepts, until the host has read it.
RequestsKept ==
    /\ \A i \in Installs :
          /\ reqAt[i] \in {"new", "sent"} => i \notin hostRefused
          /\ reqAt[i] = "new" => i \notin viaTool
          /\ i \in viaTool /\ reqAt[i] = "sent" => App!toolAccepts(content[i])
    /\ App!ToolRequestsPass

\* Every apply and every approval is a click.
ClicksKept ==
    /\ App!AppliesAudited
    /\ \A i \in Installs : applied[i] <= clicks
    /\ \A i \in App!Items : approvals[i] <= clicks

\* A credential request is decided once, by whoever holds its row.
Promise(c) ==
    /\ (approvals[c] > 0 <=> decision[c] = "approve") /\ approvals[c] <= 1
    /\ reqAt[c] # "done" => /\ decision[c] = "none" /\ approvals[c] = 0
                            /\ approvalRow[c] = "none"
                            /\ c \notin waiting /\ c \notin expiring /\ c \notin staleList
    /\ c \in waiting => /\ decision[c] = "none" /\ approvals[c] = 0
                        /\ approvalRow[c] # "none"
                        /\ c \notin expiring /\ c \notin staleList
    /\ ~ apprUp => c \notin waiting /\ c \notin expiring /\ c \notin staleList
    /\ apprUp /\ approvalRow[c] # "none" => c \in waiting \/ c \in expiring \/ c \in staleList

PromisesKept == \A c \in Credentials : Promise(c)

ApprovalsKept ==
    /\ App!TypeOK
    /\ RequestsKept
    /\ ClicksKept
    /\ App!DecisionsLeaveATrail
    /\ PromisesKept

\* What the tool lets through the host accepts too: it reads each array with
\* the same limit and the sum with the same bound.
LEMMA HostAgrees ==
    ASSUME NEW c \in App!Contents, App!toolAccepts(c) PROVE App!hostAccepts(c)
  <1>1. c.apt \in Nat /\ c.npm \in Nat /\ MaxPackages \in Nat
    BY ApprovalsAssumption DEF App!Contents
  <1> QED
    BY <1>1 DEF App!toolAccepts, App!hostAccepts, App!readStringArray

\* Each step keeps the types: no counter outruns the clicks.
LEMMA ApprovalsTypes == ASSUME ApprovalsKept, App!Next PROVE App!TypeOK'
  <1> USE ApprovalsAssumption DEF ApprovalsKept, App!TypeOK, App!Items
  <1>1. ASSUME NEW i \in Installs, NEW c \in App!Contents, App!Submit(i, c) PROVE App!TypeOK'
    BY <1>1 DEF App!Submit, App!Goto, App!books, App!memory, App!world
  <1>2. ASSUME NEW i \in Installs, App!handleInstallPackages(i) PROVE App!TypeOK'
    <2>1. App!NoContent \in App!Contents
      BY DEF App!NoContent, App!Contents, App!Flaws
    <2> QED
      BY <1>2, <2>1 DEF App!handleInstallPackages, App!Goto, App!books, App!memory, App!world
  <1>3. ASSUME NEW i \in Installs, App!requestApproval(i) \/ App!CardSent(i) PROVE App!TypeOK'
    BY <1>3 DEF App!requestApproval, App!CardSent, App!SetRow, App!Goto, App!Trouble, App!books,
       App!memory, App!world
  <1>4. ASSUME NEW i \in Installs, App!ClickReject(i) PROVE App!TypeOK'
    BY <1>4 DEF App!ClickReject, App!Clicked, App!Audit, App!SetRow, App!requests, App!memory
  <1>5. ASSUME NEW i \in Installs, App!ClickApprove(i) PROVE App!TypeOK'
    <2>1. applied[i] + 1 \in 0 .. MaxCardClicks /\ applying[i] + 1 \in 0 .. MaxCardClicks
      BY <1>5 DEF App!ClickApprove, App!Clicked, ClicksKept, App!AppliesAudited
    <2> QED
      BY <1>5, <2>1 DEF App!ClickApprove, App!Clicked, App!requests
  <1>6. ASSUME NEW i \in Installs, App!ApplyEnds(i) PROVE App!TypeOK'
    <2>1. approvals[i] + 1 \in 0 .. MaxCardClicks /\ applying[i] - 1 \in 0 .. MaxCardClicks
      BY <1>6 DEF App!ApplyEnds, ClicksKept, App!AppliesAudited
    <2> QED
      BY <1>6, <2>1 DEF App!ApplyEnds, App!Audit, App!SetRow, App!requests, App!world
  <1>7. ASSUME NEW c \in Credentials, App!handleRequest(c) \/ App!CredentialCard(c) PROVE App!TypeOK'
    BY <1>7 DEF App!handleRequest, App!CredentialCard, App!Goto, App!books, App!memory, App!world
  <1>8. ASSUME NEW c \in Credentials, App!AwaitDecision(c) PROVE App!TypeOK'
    BY <1>8 DEF App!AwaitDecision, App!Goto, App!SetRow, App!world
  <1>9. ASSUME NEW c \in Credentials,
               App!TimerFires(c) \/ App!expireApproval(c) \/ App!sweepStaleApprovals(c)
        PROVE  App!TypeOK'
    BY <1>9 DEF App!TimerFires, App!expireApproval, App!sweepStaleApprovals, App!SetRow, App!requests,
       App!world
  <1>10. ASSUME NEW c \in Credentials, NEW v \in {"approve", "reject"}, App!ClickCredential(c, v)
         PROVE  App!TypeOK'
    <2>1. approvals[c] + 1 \in 0 .. MaxCardClicks
      BY <1>10 DEF App!ClickCredential, App!Clicked, ClicksKept
    <2> QED
      BY <1>10, <2>1 DEF App!ClickCredential, App!Clicked, App!resolveOneCLIApproval, App!Audit,
         App!Verdict, App!SetRow, App!requests
  <1>11. ASSUME NEW i \in App!Items,
                App!NobodyToAsk(i) \/ App!CardShows(i) \/ App!CardThrows(i)
         PROVE  App!TypeOK'
    BY <1>11 DEF App!NobodyToAsk, App!CardShows, App!CardThrows, App!Goto, App!Trouble, App!books,
       App!requests, App!memory
  <1>12. ASSUME NEW i \in App!Items,
                App!ClickStale(i) \/ App!ClickOrphan(i) \/ App!ClickUnclaimed(i) \/ App!ExpireSweep(i)
         PROVE  App!TypeOK'
    BY <1>12 DEF App!ClickStale, App!ClickOrphan, App!ClickUnclaimed, App!ExpireSweep, App!Clicked,
       App!Audit, App!SetRow, App!books, App!requests, App!memory, App!world
  <1>13. ASSUME App!DeleteSession PROVE App!TypeOK'
    BY <1>13 DEF App!DeleteSession, App!Trouble, App!books, App!requests, App!memory
  <1>14. ASSUME App!HostStarts PROVE App!TypeOK'
    <2>1. staleList' \subseteq Credentials
      BY <1>14 DEF App!HostStarts, App!getPendingApprovalsByAction, App!CredentialRows
    <2> QED
      BY <1>14, <2>1 DEF App!HostStarts, App!books, App!requests
  <1>15. ASSUME App!HostEnds PROVE App!TypeOK'
    <2>1. \A i \in Installs : cutApplies[i] + applying[i] \in 0 .. MaxCardClicks
      BY DEF ClicksKept, App!AppliesAudited
    <2>2. cutApplies' \in [Installs -> 0 .. MaxCardClicks] /\ applying' \in [Installs -> 0 .. MaxCardClicks]
      BY <1>15, <2>1 DEF App!HostEnds
    <2>3. reqAt' \in [App!Items -> {"new", "sent", "target", "card", "done"}]
      BY <1>15 DEF App!HostEnds
    <2>4. cardTrouble' \in 0 .. MaxCardTrouble
      BY <1>15 DEF App!HostEnds, App!Trouble
    <2> QED
      BY <1>15, <2>2, <2>3, <2>4 DEF App!HostEnds, App!books
  <1> QED
    BY <1>1, <1>2, <1>3, <1>4, <1>5, <1>6, <1>7, <1>8, <1>9, <1>10, <1>11, <1>12, <1>13, <1>14,
       <1>15
       DEF App!Next, App!InstallStep, App!CredentialStep, App!AnyStep

\* Requests move forward, and only the host's reading refuses one.
LEMMA RequestsStep == ASSUME ApprovalsKept, App!Next PROVE RequestsKept'
  <1> USE ApprovalsAssumption DEF ApprovalsKept
  <1>0. \A j \in Installs : reqAt[j] \in {"new", "sent", "target", "card", "done"}
    BY DEF App!TypeOK, App!Items
  <1>1. ASSUME NEW i \in Installs, NEW c \in App!Contents, App!Submit(i, c) PROVE RequestsKept'
    BY <1>1 DEF App!Submit, App!Goto, RequestsKept, App!ToolRequestsPass, App!TypeOK, App!Items
  <1>2. ASSUME NEW i \in Installs, App!handleInstallPackages(i) PROVE RequestsKept'
    <2>1. i \in viaTool => App!hostAccepts(content[i])
      <3>1. content[i] \in App!Contents /\ reqAt[i] = "sent"
        BY <1>2 DEF App!handleInstallPackages, App!TypeOK
      <3> QED
        BY <3>1, HostAgrees DEF RequestsKept
    <2>2. /\ viaTool' = viaTool /\ reqAt'[i] \in {"target", "done"}
          /\ \A j \in Installs : j # i => reqAt'[j] = reqAt[j] /\ content'[j] = content[j]
          /\ hostRefused' = IF App!hostAccepts(content[i]) THEN hostRefused ELSE hostRefused \cup {i}
      BY <1>2 DEF App!handleInstallPackages, App!Goto, App!TypeOK, App!Items
    <2> QED
      BY <2>1, <2>2 DEF RequestsKept, App!ToolRequestsPass
  <1>3. ASSUME UNCHANGED <<content, viaTool, hostRefused>>,
               \A j \in Installs : reqAt'[j] = reqAt[j] \/ reqAt'[j] \in {"target", "card", "done"}
        PROVE  RequestsKept'
    BY <1>3 DEF RequestsKept, App!ToolRequestsPass
  <1>4. ASSUME NEW i \in App!Items, NEW s \in {"target", "card", "done"}, App!Goto(i, s)
        PROVE  \A j \in Installs : reqAt'[j] = reqAt[j] \/ reqAt'[j] \in {"target", "card", "done"}
    BY <1>4 DEF App!Goto, App!TypeOK, App!Items
  <1>5. ASSUME NEW i \in Installs,
               App!requestApproval(i) \/ App!CardSent(i) \/ App!ClickReject(i) \/ App!ClickApprove(i)
                 \/ App!ApplyEnds(i)
        PROVE  RequestsKept'
    BY <1>3, <1>4, <1>5 DEF App!requestApproval, App!CardSent, App!ClickReject, App!ClickApprove,
       App!ApplyEnds, App!requests, App!Items
  <1>6. ASSUME NEW c \in Credentials, App!CredentialStep(c) PROVE RequestsKept'
    BY <1>3, <1>4, <1>6 DEF App!CredentialStep, App!handleRequest, App!CredentialCard,
       App!AwaitDecision, App!TimerFires, App!expireApproval, App!sweepStaleApprovals,
       App!ClickCredential, App!requests, App!Items
  <1>7. ASSUME NEW i \in App!Items, App!AnyStep(i) PROVE RequestsKept'
    BY <1>3, <1>4, <1>7 DEF App!AnyStep, App!NobodyToAsk, App!CardShows, App!CardThrows,
       App!ClickStale, App!ClickOrphan, App!ClickUnclaimed, App!ExpireSweep, App!requests
  <1>8. ASSUME App!HostEnds PROVE RequestsKept'
    <2>1. \A j \in Installs : reqAt'[j] = reqAt[j] \/ reqAt'[j] \in {"target", "card", "done"}
      BY <1>8 DEF App!HostEnds, App!Items
    <2> QED
      BY <1>3, <1>8, <2>1 DEF App!HostEnds
  <1>9. ASSUME App!DeleteSession \/ App!HostStarts PROVE RequestsKept'
    BY <1>3, <1>9 DEF App!DeleteSession, App!HostStarts, App!requests
  <1> QED
    BY <1>1, <1>2, <1>5, <1>6, <1>7, <1>8, <1>9 DEF App!Next, App!InstallStep

\* Clicks, applies and approvals are counted together.
LEMMA ClicksStep == ASSUME ApprovalsKept, App!Next PROVE ClicksKept'
  <1> USE ApprovalsAssumption DEF ApprovalsKept
  <1>0. /\ \A i \in Installs : applied[i] \in Nat /\ applying[i] \in Nat /\ cutApplies[i] \in Nat
        /\ \A i \in App!Items : approvals[i] \in Nat
        /\ clicks \in Nat /\ Installs \subseteq App!Items
        /\ \A i \in Credentials : i \notin Installs
    BY DEF App!TypeOK, App!Items
  <1>1. ASSUME UNCHANGED <<applied, applying, cutApplies, approvals>>, clicks' \in {clicks, clicks + 1}
        PROVE  ClicksKept'
    BY <1>0, <1>1 DEF ClicksKept, App!AppliesAudited
  <1>2. ASSUME NEW i \in Installs, App!ClickApprove(i) PROVE ClicksKept'
    <2>1. /\ applied'[i] = applied[i] + 1 /\ applying'[i] = applying[i] + 1 /\ clicks' = clicks + 1
          /\ \A j \in Installs : j # i => applied'[j] = applied[j] /\ applying'[j] = applying[j]
          /\ UNCHANGED <<approvals, cutApplies>>
      BY <1>2 DEF App!ClickApprove, App!Clicked, App!TypeOK
    <2> QED
      BY <1>0, <2>1 DEF ClicksKept, App!AppliesAudited
  <1>3. ASSUME NEW i \in Installs, App!ApplyEnds(i) PROVE ClicksKept'
    <2>1. /\ approvals'[i] = approvals[i] + 1 /\ applying'[i] = applying[i] - 1
          /\ applying[i] > 0
          /\ \A j \in Installs : j # i => applying'[j] = applying[j]
          /\ \A j \in App!Items : j # i => approvals'[j] = approvals[j]
          /\ UNCHANGED <<applied, clicks, cutApplies>>
      BY <1>0, <1>3 DEF App!ApplyEnds, App!world, App!TypeOK
    <2>2. applied[i] = approvals[i] + applying[i] + cutApplies[i] /\ applied[i] <= clicks
      BY DEF ClicksKept, App!AppliesAudited
    <2>3. App!AppliesAudited'
      BY <1>0, <2>1, <2>2 DEF ClicksKept, App!AppliesAudited
    <2>4. \A j \in App!Items : approvals'[j] <= clicks'
      BY <1>0, <2>1, <2>2 DEF ClicksKept
    <2> QED
      BY <2>1, <2>3, <2>4 DEF ClicksKept
  <1>4. ASSUME NEW c \in Credentials, NEW v \in {"approve", "reject"}, App!ClickCredential(c, v)
        PROVE  ClicksKept'
    <2>1. /\ clicks' = clicks + 1 /\ UNCHANGED <<applied, applying, cutApplies>>
          /\ approvals'[c] \in {approvals[c], approvals[c] + 1}
          /\ \A j \in App!Items : j # c => approvals'[j] = approvals[j]
          /\ c \in App!Items
      BY <1>4 DEF App!ClickCredential, App!Clicked, App!resolveOneCLIApproval, App!TypeOK, App!Items
    <2> QED
      BY <1>0, <2>1 DEF ClicksKept, App!AppliesAudited
  <1>5. ASSUME App!HostEnds PROVE ClicksKept'
    <2>1. /\ \A i \in Installs : cutApplies'[i] = cutApplies[i] + applying[i] /\ applying'[i] = 0
          /\ UNCHANGED <<applied, approvals, clicks>>
      BY <1>5 DEF App!HostEnds, App!books
    <2> QED
      BY <1>0, <2>1 DEF ClicksKept, App!AppliesAudited
  <1>6. ASSUME NEW i \in Installs,
               (\E c \in App!Contents : App!Submit(i, c)) \/ App!handleInstallPackages(i)
                 \/ App!requestApproval(i) \/ App!CardSent(i) \/ App!ClickReject(i)
        PROVE  ClicksKept'
    BY <1>1, <1>6 DEF App!Submit, App!handleInstallPackages, App!requestApproval, App!CardSent,
       App!ClickReject, App!Clicked, App!books, App!memory, App!world
  <1>7. ASSUME NEW c \in Credentials,
               App!handleRequest(c) \/ App!CredentialCard(c) \/ App!AwaitDecision(c)
                 \/ App!TimerFires(c) \/ App!expireApproval(c) \/ App!sweepStaleApprovals(c)
        PROVE  ClicksKept'
    BY <1>1, <1>7 DEF App!handleRequest, App!CredentialCard, App!AwaitDecision, App!TimerFires,
       App!expireApproval, App!sweepStaleApprovals, App!books, App!memory, App!world
  <1>8. ASSUME NEW i \in App!Items, App!AnyStep(i) PROVE ClicksKept'
    BY <1>1, <1>8 DEF App!AnyStep, App!NobodyToAsk, App!CardShows, App!CardThrows, App!ClickStale,
       App!ClickOrphan, App!ClickUnclaimed, App!ExpireSweep, App!Clicked, App!books, App!memory,
       App!world
  <1>9. ASSUME App!DeleteSession \/ App!HostStarts PROVE ClicksKept'
    BY <1>1, <1>9 DEF App!DeleteSession, App!HostStarts, App!books, App!memory
  <1> QED
    BY <1>2, <1>3, <1>4, <1>5, <1>6, <1>7, <1>8, <1>9
       DEF App!Next, App!InstallStep, App!CredentialStep

\* Whoever deletes the row of a self-mod card has written to the trail, or the
\* session is gone.
LEMMA TrailStep == ASSUME ApprovalsKept, App!Next PROVE App!DecisionsLeaveATrail'
  <1> USE ApprovalsAssumption DEF ApprovalsKept
  <1>0. Installs \subseteq App!Items /\ \A i \in Credentials : i \notin Installs
    BY DEF App!Items
  <1>1. ASSUME UNCHANGED <<made, trail>>, sessionGone => sessionGone',
               \A j \in Installs : approvalRow'[j] = approvalRow[j] \/ approvalRow'[j] # "none" \/ sessionGone
        PROVE  App!DecisionsLeaveATrail'
    BY <1>1 DEF App!DecisionsLeaveATrail
  <1>2. ASSUME NEW i \in App!Items, NEW s, NEW r \in {"none", "expired"}, App!Audit(i, s), App!SetRow(i, r),
               UNCHANGED <<made, sessionGone>>
        PROVE  App!DecisionsLeaveATrail'
    <2>1. /\ trail'[i] # {} /\ \A j \in App!Items : j # i => trail'[j] = trail[j] /\ approvalRow'[j] = approvalRow[j]
      BY <1>2 DEF App!Audit, App!SetRow, App!TypeOK
    <2> QED
      BY <1>0, <1>2, <2>1 DEF App!DecisionsLeaveATrail
  <1>3. ASSUME NEW c \in Credentials, NEW r, App!SetRow(c, r)
        PROVE  \A j \in Installs : approvalRow'[j] = approvalRow[j]
    BY <1>0, <1>3 DEF App!SetRow, App!TypeOK
  <1>4. ASSUME NEW i \in Installs,
               (\E c \in App!Contents : App!Submit(i, c)) \/ App!handleInstallPackages(i)
                 \/ App!CardSent(i) \/ App!ClickApprove(i)
        PROVE  App!DecisionsLeaveATrail'
    BY <1>1, <1>4 DEF App!Submit, App!handleInstallPackages, App!CardSent, App!ClickApprove,
       App!books, App!world
  <1>5. ASSUME NEW i \in Installs, App!requestApproval(i) PROVE App!DecisionsLeaveATrail'
    <2>1. /\ approvalRow'[i] = "pending" /\ \A j \in Installs : j # i => approvalRow'[j] = approvalRow[j]
      BY <1>0, <1>5 DEF App!requestApproval, App!SetRow, App!TypeOK
    <2>2. made' = made \cup {i} /\ trail' = trail /\ sessionGone' = sessionGone
      BY <1>5 DEF App!requestApproval
    <2> QED
      BY <2>1, <2>2 DEF App!DecisionsLeaveATrail
  <1>6. ASSUME NEW i \in Installs, App!ClickReject(i) \/ App!ApplyEnds(i) PROVE App!DecisionsLeaveATrail'
    BY <1>0, <1>2, <1>6 DEF App!ClickReject, App!ApplyEnds, App!world
  <1>7. ASSUME NEW c \in Credentials,
               App!handleRequest(c) \/ App!CredentialCard(c) \/ App!TimerFires(c)
                 \/ App!expireApproval(c) \/ App!sweepStaleApprovals(c)
        PROVE  App!DecisionsLeaveATrail'
    BY <1>1, <1>3, <1>7 DEF App!handleRequest, App!CredentialCard, App!TimerFires,
       App!expireApproval, App!sweepStaleApprovals, App!books, App!world
  <1>8. ASSUME NEW c \in Credentials,
               App!AwaitDecision(c) \/ \E v \in {"approve", "reject"} : App!ClickCredential(c, v)
        PROVE  App!DecisionsLeaveATrail'
    <2>1. PICK r \in {"pending", "none"} : App!SetRow(c, r)
      BY <1>8 DEF App!AwaitDecision, App!ClickCredential, App!resolveOneCLIApproval
    <2>2. \A j \in Installs : approvalRow'[j] = approvalRow[j]
      BY <1>3, <2>1
    <2>3. \A j \in Installs : (j \in made' => j \in made) /\ trail'[j] = trail[j]
      BY <1>0, <1>8 DEF App!AwaitDecision, App!ClickCredential, App!resolveOneCLIApproval, App!Audit,
         App!TypeOK
    <2>4. sessionGone' = sessionGone
      BY <1>8 DEF App!AwaitDecision, App!ClickCredential, App!world
    <2> QED
      BY <2>2, <2>3, <2>4 DEF App!DecisionsLeaveATrail
  <1>9. ASSUME NEW i \in App!Items, App!ClickStale(i) \/ App!ExpireSweep(i)
        PROVE  App!DecisionsLeaveATrail'
    BY <1>2, <1>9 DEF App!ClickStale, App!ExpireSweep, App!world
  <1>10. ASSUME NEW i \in App!Items, App!ClickOrphan(i) PROVE App!DecisionsLeaveATrail'
    <2>1. CASE i \in Credentials
      BY <1>1, <1>3, <1>10, <2>1 DEF App!ClickOrphan
    <2>2. CASE i \notin Credentials
      BY <1>1, <1>10, <2>2 DEF App!ClickOrphan
    <2> QED
      BY <2>1, <2>2
  <1>11. ASSUME NEW i \in App!Items,
                App!NobodyToAsk(i) \/ App!CardShows(i) \/ App!CardThrows(i) \/ App!ClickUnclaimed(i)
         PROVE  App!DecisionsLeaveATrail'
    BY <1>1, <1>11 DEF App!NobodyToAsk, App!CardShows, App!CardThrows, App!ClickUnclaimed, App!books
  <1>12. ASSUME App!DeleteSession \/ App!HostEnds \/ App!HostStarts PROVE App!DecisionsLeaveATrail'
    BY <1>1, <1>12 DEF App!DeleteSession, App!HostEnds, App!HostStarts, App!books
  <1> QED
    BY <1>4, <1>5, <1>6, <1>7, <1>8, <1>9, <1>10, <1>11, <1>12
       DEF App!Next, App!InstallStep, App!CredentialStep, App!AnyStep

\* A credential that a step does not touch.
Untouched(c) ==
    /\ approvals'[c] = approvals[c] /\ decision'[c] = decision[c] /\ approvalRow'[c] = approvalRow[c]
    /\ c \in waiting' <=> c \in waiting
    /\ c \in expiring' <=> c \in expiring
    /\ c \in staleList' <=> c \in staleList

\* Of a credential request, the code that asks, the click, the timer, the end
\* and the start of the host each leave a row that somebody keeps.
LEMMA PromisesStep == ASSUME ApprovalsKept, App!Next PROVE PromisesKept'
  <1> USE ApprovalsAssumption DEF ApprovalsKept
  <1> SUFFICES ASSUME NEW c \in Credentials PROVE Promise(c)'
    BY DEF PromisesKept
  <1>0. /\ c \in App!Items /\ c \notin Installs /\ Promise(c)
        /\ approvals[c] \in Nat
    BY DEF PromisesKept, App!Items, App!TypeOK
  <1>1. ASSUME Untouched(c), apprUp' = apprUp, reqAt'[c] = reqAt[c] \/ reqAt[c] # "done"
        PROVE  Promise(c)'
    BY <1>0, <1>1 DEF Promise, Untouched
  <1>2. ASSUME NEW i \in App!Items, i # c, NEW s, App!Goto(i, s) PROVE reqAt'[c] = reqAt[c]
    BY <1>0, <1>2 DEF App!Goto, App!TypeOK
  <1>3. ASSUME NEW i \in App!Items, i # c, NEW s, App!SetRow(i, s) PROVE approvalRow'[c] = approvalRow[c]
    BY <1>0, <1>3 DEF App!SetRow, App!TypeOK
  <1>4. ASSUME NEW i \in Installs, App!InstallStep(i) PROVE Promise(c)'
    <2>1. i # c /\ i \in App!Items
      BY <1>0 DEF App!Items
    <2>2. ASSUME NEW x \in App!Contents, App!Submit(i, x) PROVE Promise(c)'
      BY <1>1, <1>2, <2>1, <2>2 DEF App!Submit, Untouched, App!books, App!memory, App!world
    <2>3. CASE App!handleInstallPackages(i) \/ App!CardSent(i)
      BY <1>1, <1>2, <2>1, <2>3 DEF App!handleInstallPackages, App!CardSent, Untouched, App!books,
         App!memory, App!world
    <2>4. CASE App!requestApproval(i)
      BY <1>1, <1>2, <1>3, <2>1, <2>4 DEF App!requestApproval, Untouched, App!memory
    <2>5. CASE App!ClickReject(i)
      BY <1>1, <1>3, <2>1, <2>5 DEF App!ClickReject, Untouched, App!requests, App!memory
    <2>6. CASE App!ClickApprove(i)
      BY <1>1, <2>6 DEF App!ClickApprove, Untouched, App!requests
    <2>7. CASE App!ApplyEnds(i)
      <3>1. approvals'[c] = approvals[c]
        BY <1>0, <2>1, <2>7 DEF App!ApplyEnds, App!TypeOK
      <3> QED
        BY <1>1, <1>3, <2>1, <2>7, <3>1 DEF App!ApplyEnds, Untouched, App!requests, App!world
    <2> QED
      BY <1>4, <2>2, <2>3, <2>4, <2>5, <2>6, <2>7 DEF App!InstallStep
  <1>5. ASSUME NEW d \in Credentials, d # c, App!CredentialStep(d) PROVE Promise(c)'
    <2>1. d \in App!Items
      BY DEF App!Items
    <2>2. CASE App!handleRequest(d) \/ App!CredentialCard(d)
      BY <1>1, <1>2, <1>5, <2>1, <2>2 DEF App!handleRequest, App!CredentialCard, Untouched, App!books,
         App!memory, App!world
    <2>3. CASE App!AwaitDecision(d)
      BY <1>1, <1>2, <1>3, <1>5, <2>1, <2>3 DEF App!AwaitDecision, Untouched, App!world
    <2>4. CASE App!TimerFires(d)
      <3>1. decision'[c] = decision[c]
        BY <1>5, <2>4 DEF App!TimerFires, App!TypeOK
      <3> QED
        BY <1>1, <1>3, <1>5, <2>1, <2>4, <3>1 DEF App!TimerFires, Untouched, App!requests, App!world
    <2>5. CASE App!expireApproval(d) \/ App!sweepStaleApprovals(d)
      BY <1>1, <1>3, <1>5, <2>1, <2>5 DEF App!expireApproval, App!sweepStaleApprovals, Untouched,
         App!requests, App!world
    <2>6. ASSUME NEW v \in {"approve", "reject"}, App!ClickCredential(d, v) PROVE Promise(c)'
      <3>1. decision'[c] = decision[c] /\ approvals'[c] = approvals[c]
        BY <1>0, <1>5, <2>6 DEF App!ClickCredential, App!resolveOneCLIApproval, App!TypeOK
      <3> QED
        BY <1>1, <1>3, <1>5, <2>1, <2>6, <3>1 DEF App!ClickCredential, App!resolveOneCLIApproval,
           Untouched, App!requests
    <2> QED
      BY <1>5, <2>2, <2>3, <2>4, <2>5, <2>6 DEF App!CredentialStep
  <1>6. ASSUME App!CredentialStep(c) PROVE Promise(c)'
    <2>1. CASE App!handleRequest(c) \/ App!CredentialCard(c)
      BY <1>1, <2>1 DEF App!handleRequest, App!CredentialCard, Untouched, App!books, App!memory,
         App!world
    <2>2. CASE App!AwaitDecision(c)
      <3>1. /\ reqAt[c] # "done" /\ approvalRow'[c] = "pending" /\ c \in waiting'
            /\ UNCHANGED <<decision, approvals, expiring, staleList, apprUp>> /\ apprUp
            /\ reqAt'[c] = "done"
        BY <1>0, <2>2 DEF App!AwaitDecision, App!SetRow, App!Goto, App!world, App!TypeOK
      <3> QED
        BY <1>0, <3>1 DEF Promise
    <2>3. CASE App!TimerFires(c)
      <3>1. /\ c \in waiting /\ approvalRow'[c] = "expired" /\ c \notin waiting' /\ c \in expiring'
            /\ decision'[c] = "deny" /\ UNCHANGED <<approvals, staleList, apprUp, reqAt>> /\ apprUp
        BY <1>0, <2>3 DEF App!TimerFires, App!SetRow, App!requests, App!world, App!TypeOK
      <3> QED
        BY <1>0, <3>1 DEF Promise
    <2>4. CASE App!expireApproval(c) \/ App!sweepStaleApprovals(c)
      <3>1. /\ approvalRow'[c] = "none" /\ apprUp /\ (c \in expiring \/ c \in staleList)
            /\ c \in expiring' => c \in expiring
            /\ c \in staleList' => c \in staleList
            /\ UNCHANGED <<decision, approvals, waiting, apprUp, reqAt>>
        BY <1>0, <2>4 DEF App!expireApproval, App!sweepStaleApprovals, App!SetRow, App!requests,
           App!world, App!TypeOK
      <3> QED
        BY <1>0, <3>1 DEF Promise
    <2>5. ASSUME NEW v \in {"approve", "reject"}, App!ClickCredential(c, v) PROVE Promise(c)'
      <3>1. /\ c \in waiting /\ c \notin waiting' /\ approvalRow'[c] = "none"
            /\ decision'[c] = (IF v = "approve" THEN v ELSE "deny")
            /\ approvals'[c] = (IF v = "approve" THEN approvals[c] + 1 ELSE approvals[c])
            /\ UNCHANGED <<expiring, staleList, apprUp, reqAt>> /\ apprUp
        BY <1>0, <2>5 DEF App!ClickCredential, App!Clicked, App!resolveOneCLIApproval, App!SetRow,
           App!requests, App!TypeOK
      <3> QED
        BY <1>0, <3>1 DEF Promise
    <2> QED
      BY <1>6, <2>1, <2>2, <2>3, <2>4, <2>5 DEF App!CredentialStep
  <1>7. ASSUME NEW i \in App!Items, App!AnyStep(i) PROVE Promise(c)'
    <2>1. CASE App!NobodyToAsk(i) \/ App!CardThrows(i)
      <3>1. CASE i # c
        <4>1. decision'[c] = decision[c]
          BY <2>1, <3>1 DEF App!NobodyToAsk, App!CardThrows, App!TypeOK
        <4> QED
          BY <1>1, <1>2, <2>1, <3>1, <4>1 DEF App!NobodyToAsk, App!CardThrows, Untouched, App!books,
             App!memory
      <3>2. CASE i = c
        <4>1. /\ reqAt[c] # "done" /\ reqAt'[c] = "done" /\ decision'[c] = "deny" /\ apprUp' = apprUp
              /\ UNCHANGED <<approvals, approvalRow, waiting, expiring, staleList>>
          BY <1>0, <2>1, <3>2 DEF App!NobodyToAsk, App!CardThrows, App!Goto, App!books, App!memory,
             App!TypeOK
        <4> QED
          BY <1>0, <4>1 DEF Promise
      <3> QED
        BY <3>1, <3>2
    <2>2. CASE App!CardShows(i) \/ App!ClickUnclaimed(i)
      BY <1>1, <2>2 DEF App!CardShows, App!ClickUnclaimed, Untouched, App!books, App!requests,
         App!memory
    <2>3. CASE App!ClickStale(i) \/ App!ClickOrphan(i)
      <3>1. CASE i # c
        BY <1>1, <1>3, <2>3, <3>1 DEF App!ClickStale, App!ClickOrphan, Untouched, App!requests,
           App!memory
      <3>2. CASE i = c
        <4>1. /\ c \notin waiting /\ approvalRow'[c] = "none"
              /\ UNCHANGED <<reqAt, decision, approvals, waiting, expiring, staleList, apprUp>>
          BY <1>0, <2>3, <3>2 DEF App!ClickStale, App!ClickOrphan, App!SetRow, App!requests,
             App!memory, App!TypeOK
        <4> QED
          BY <1>0, <4>1 DEF Promise
      <3> QED
        BY <3>1, <3>2
    <2>4. CASE App!ExpireSweep(i)
      <3>1. CASE i # c
        BY <1>1, <1>3, <2>4, <3>1 DEF App!ExpireSweep, Untouched, App!requests, App!memory, App!world
      <3>2. CASE i = c
        <4>1. /\ c \notin waiting /\ approvalRow[c] = "pending" /\ approvalRow'[c] = "expired"
              /\ UNCHANGED <<reqAt, decision, approvals, waiting, expiring, staleList, apprUp>>
          BY <1>0, <2>4, <3>2 DEF App!ExpireSweep, App!SetRow, App!requests, App!memory, App!world,
             App!TypeOK
        <4> QED
          BY <1>0, <4>1 DEF Promise
      <3> QED
        BY <3>1, <3>2
    <2> QED
      BY <1>7, <2>1, <2>2, <2>3, <2>4 DEF App!AnyStep
  <1>8. ASSUME App!DeleteSession PROVE Promise(c)'
    BY <1>1, <1>8 DEF App!DeleteSession, Untouched, App!books, App!requests, App!memory
  <1>9. ASSUME App!HostEnds PROVE Promise(c)'
    <2>1. /\ ~ apprUp' /\ waiting' = {} /\ expiring' = {} /\ staleList' = {}
          /\ UNCHANGED <<decision, approvals, approvalRow>>
          /\ reqAt'[c] # "done" => reqAt[c] # "done"
      BY <1>0, <1>9 DEF App!HostEnds, App!books
    <2> QED
      BY <1>0, <2>1 DEF Promise
  <1>10. ASSUME App!HostStarts PROVE Promise(c)'
    <2>1. /\ ~ apprUp /\ apprUp' /\ UNCHANGED <<reqAt, decision, approvals, approvalRow, waiting, expiring>>
          /\ c \in staleList' <=> approvalRow[c] # "none"
      BY <1>10 DEF App!HostStarts, App!getPendingApprovalsByAction, App!CredentialRows, App!books,
         App!requests
    <2> QED
      BY <1>0, <2>1 DEF Promise
  <1> QED
    BY <1>4, <1>5, <1>6, <1>7, <1>8, <1>9, <1>10 DEF App!Next

\* The invariant speaks of the behaviours about approvals.
ApprovalsInv == focus = "approvals" => ApprovalsKept

\* Before the first request.
LEMMA ApprovalsInit == ASSUME Init PROVE ApprovalsInv
  <1>1. App!Init
    BY DEF Init
  <1>2. App!NoContent \in App!Contents
    BY ApprovalsAssumption DEF App!NoContent, App!Contents, App!Flaws
  <1>3. App!TypeOK
    <2>1. 0 \in 0 .. MaxCardClicks /\ 0 \in 0 .. MaxCardTrouble
      BY ApprovalsAssumption
    <2>2. content \in [Installs -> App!Contents]
      BY <1>1, <1>2 DEF App!Init
    <2>3. /\ applying \in [Installs -> 0 .. MaxCardClicks] /\ applied \in [Installs -> 0 .. MaxCardClicks]
          /\ approvals \in [App!Items -> 0 .. MaxCardClicks]
          /\ cutApplies \in [Installs -> 0 .. MaxCardClicks]
      BY <1>1, <2>1 DEF App!Init
    <2> QED
      BY <1>1, <2>1, <2>2, <2>3 DEF App!Init, App!TypeOK
  <1>4. RequestsKept /\ App!DecisionsLeaveATrail
    BY <1>1 DEF App!Init, RequestsKept, App!ToolRequestsPass, App!DecisionsLeaveATrail
  <1>5. ClicksKept /\ PromisesKept
    BY <1>1 DEF App!Init, ClicksKept, PromisesKept, Promise, App!AppliesAudited, App!Items
  <1> QED
    BY <1>3, <1>4, <1>5 DEF ApprovalsInv, ApprovalsKept

\* The invariant holds in every state.
LEMMA ApprovalsAlways == Spec => []ApprovalsInv
  <1>1. Init => ApprovalsInv
    BY ApprovalsInit
  <1>2. ASSUME ApprovalsInv, [Next]_vars PROVE ApprovalsInv'
    <2>1. CASE focus = "approvals" /\ App!Next /\ UNCHANGED focus
      BY <1>2, <2>1, ApprovalsTypes, RequestsStep, ClicksStep, TrailStep, PromisesStep
         DEF ApprovalsInv, ApprovalsKept
    <2>2. CASE UNCHANGED <<focus, appVars>>
      <3>1. UNCHANGED <<focus, content, viaTool, reqAt, approvalRow, onScreen, applying, applied,
                        waiting, decision, expiring, staleList, sessionGone, apprUp, clicks,
                        cardTrouble, hostRefused, made, trail, approvals, cutApplies>>
        BY <2>2 DEF appVars
      <3>2. App!TypeOK => App!TypeOK'
        BY <3>1 DEF App!TypeOK
      <3>3. (RequestsKept => RequestsKept') /\ (ClicksKept => ClicksKept')
        BY <3>1 DEF RequestsKept, ClicksKept, App!ToolRequestsPass, App!AppliesAudited
      <3>4. (App!DecisionsLeaveATrail => App!DecisionsLeaveATrail') /\ (PromisesKept => PromisesKept')
        BY <3>1 DEF App!DecisionsLeaveATrail, PromisesKept, Promise
      <3> QED
        BY <1>2, <3>1, <3>2, <3>3, <3>4 DEF ApprovalsInv, ApprovalsKept
    <2>3. UNCHANGED focus /\ (~ (focus = "approvals" /\ App!Next) => UNCHANGED appVars)
      BY <1>2 DEF Next, vars
    <2> QED
      BY <2>1, <2>2, <2>3
  <1> QED
    BY <1>1, <1>2, PTL DEF Spec

\* Applied changes, answers to the credential gateway and the audit trail agree,
\* for any number of requests, clicks and stops of the host (modules/approvals).
THEOREM TrailSafe == Spec => []TrailHonest
  <1>1. ApprovalsInv => TrailHonest
    <2> SUFFICES ASSUME ApprovalsKept PROVE App!TrailHonest
      BY DEF ApprovalsInv, TrailHonest
    <2>1. App!TrailMatchesDecision /\ App!RowsHaveKeepers
      BY DEF ApprovalsKept, PromisesKept, Promise, App!TrailMatchesDecision, App!RowsHaveKeepers,
         App!CredentialRows, App!TypeOK
    <2> QED
      BY <2>1 DEF ApprovalsKept, RequestsKept, ClicksKept, App!TrailHonest
  <1> QED
    BY <1>1, ApprovalsAlways, PTL

\* A card audited as expired applies nothing any more, however late the click
\* (response-handler.ts).
THEOREM ExpiredSafe == Spec => ExpiredStaysDead
  <1>1. ASSUME ApprovalsInv, [Next]_vars
        PROVE  [\A i \in Installs : approvalRow[i] = "expired" => applied'[i] = applied[i]]_(App!vars)
    <2>1. CASE focus = "approvals" /\ App!Next
      <3> SUFFICES ASSUME NEW i \in Installs, approvalRow[i] = "expired" PROVE applied'[i] = applied[i]
        OBVIOUS
      <3>1. ASSUME NEW j \in Installs, App!ClickApprove(j) PROVE applied'[i] = applied[i]
        <4>1. j # i
          BY <3>1 DEF App!ClickApprove, App!Decidable, App!RefusesClick
        <4> QED
          BY <1>1, <2>1, <3>1, <4>1 DEF App!ClickApprove, ApprovalsInv, ApprovalsKept, App!TypeOK
      <3>2. ASSUME NEW j \in Installs, App!InstallStep(j) PROVE applied'[i] = applied[i]
        BY <3>1, <3>2 DEF App!InstallStep, App!Submit, App!handleInstallPackages,
           App!requestApproval, App!CardSent, App!ClickReject, App!ApplyEnds, App!books
      <3>3. ASSUME NEW c \in Credentials, App!CredentialStep(c) PROVE applied'[i] = applied[i]
        BY <3>3 DEF App!CredentialStep, App!handleRequest, App!CredentialCard, App!AwaitDecision,
           App!TimerFires, App!expireApproval, App!sweepStaleApprovals, App!ClickCredential, App!books
      <3>4. ASSUME NEW j \in App!Items, App!AnyStep(j) PROVE applied'[i] = applied[i]
        BY <3>4 DEF App!AnyStep, App!NobodyToAsk, App!CardShows, App!CardThrows, App!ClickStale,
           App!ClickOrphan, App!ClickUnclaimed, App!ExpireSweep, App!books
      <3>5. ASSUME App!DeleteSession \/ App!HostEnds \/ App!HostStarts PROVE applied'[i] = applied[i]
        BY <3>5 DEF App!DeleteSession, App!HostEnds, App!HostStarts, App!books
      <3> QED
        BY <2>1, <3>2, <3>3, <3>4, <3>5 DEF App!Next
    <2>2. CASE UNCHANGED appVars
      BY <2>2 DEF appVars, App!vars, App!books, App!requests, App!memory, App!world
    <2>3. ~ (focus = "approvals" /\ App!Next) => UNCHANGED appVars
      BY <1>1 DEF Next, vars
    <2> QED
      BY <2>1, <2>2, <2>3
  <1> QED
    BY <1>1, ApprovalsAlways, PTL DEF Spec, ExpiredStaysDead, App!ExpiredStaysDead

-----------------------------------------------------------------------------
(***************************************************************************)
(* Questions: the inductive invariant.                                     *)
(***************************************************************************)
\* One question: its card is sent within the limit, a row that is gone left an
\* answer, and an answer beside a row that is still there has an explanation.
QuestionKept(q) ==
    /\ asker[q] \in {"idle", "polling", "timeout", "gone"} \cup Que!Results
    /\ sendAt[q] \in {"none", "due", "sending", "sent", "failed"}
    /\ sends[q] \in 0 .. MaxSends
    /\ answers[q] \in Seq(Que!Results)
    /\ asker[q] = "idle" => sendAt[q] = "none"
    /\ sendAt[q] = "none" => sends[q] = 0
    /\ sendAt[q] \in {"due", "sending"} => sends[q] < MaxSends
    /\ q \in recorded /\ q \notin pendingQ => answers[q] # <<>> \/ q \in pruned
    /\ q \in pendingQ /\ answers[q] # <<>> => q \in shownTwice \cup crossed \cup cutShort
    /\ Len(answers[q]) > 1 => q \in shownTwice \cup crossed \cup cutShort

\* The variables are functions and sets of questions; the running cancel works
\* on questions of the user who typed the word.
AskingKept ==
    /\ DOMAIN asker = Questions /\ DOMAIN sendAt = Questions /\ DOMAIN sends = Questions
    /\ asker = [q \in Questions |-> asker[q]] /\ sendAt = [q \in Questions |-> sendAt[q]]
    /\ sends = [q \in Questions |-> sends[q]] /\ answers = [q \in Questions |-> answers[q]]
    /\ pendingQ \subseteq Questions /\ shown \subseteq Questions /\ cancelRun \subseteq Questions
    /\ canceller \in Users \cup {Que!NoOne}
    /\ askUp \in BOOLEAN
    /\ \A q \in cancelRun : Owner[q] = canceller
    /\ Que!CancelOnlyOwn

QuestionsKept == AskingKept /\ \A q \in Questions : QuestionKept(q)

\* One more response row.
LEMMA OneMore ==
    ASSUME NEW a \in Seq(Que!Results), NEW v \in Que!Results
    PROVE  /\ Append(a, v) \in Seq(Que!Results) /\ Append(a, v) # <<>>
           /\ Len(Append(a, v)) = Len(a) + 1 /\ Len(a) \in Nat
           /\ Len(Append(a, v)) > 1 => a # <<>>
  <1>1. Append(a, v) \in Seq(Que!Results) /\ Len(Append(a, v)) = Len(a) + 1 /\ Len(a) \in Nat
    OBVIOUS
  <1>2. Len(<<>>) = 0
    OBVIOUS
  <1>3. Append(a, v) # <<>>
    BY <1>1, <1>2
  <1>4. Len(a) + 1 > 1 => a # <<>>
    BY <1>1, <1>2
  <1> QED
    BY <1>1, <1>3, <1>4

\* The shape of the variables.
LEMMA AskingStep == ASSUME QuestionsKept, Que!Next PROVE AskingKept'
  <1> USE DEF QuestionsKept
  <1>1. ASSUME NEW q \in Questions, Que!askUserQuestion(q) PROVE AskingKept'
    BY <1>1 DEF Que!askUserQuestion, Que!Sends, AskingKept, Que!CancelOnlyOwn, Que!outside, Que!history
  <1>2. ASSUME NEW q \in Questions, Que!findQuestionResponse(q) \/ Que!AskTimesOut(q) PROVE AskingKept'
    BY <1>2 DEF Que!findQuestionResponse, Que!AskTimesOut, AskingKept, Que!CancelOnlyOwn, Que!outside,
       Que!history
  <1>3. ASSUME NEW q \in Questions, Que!SendCard(q) \/ Que!CardAppears(q) \/ Que!SendSucceeds(q)
        PROVE  AskingKept'
    BY <1>3 DEF Que!SendCard, Que!CardAppears, Que!SendSucceeds, Que!createPendingQuestion, Que!Sends,
       AskingKept, Que!CancelOnlyOwn, Que!outside, Que!history
  <1>4. ASSUME NEW q \in Questions, Que!SendFails(q) PROVE AskingKept'
    BY <1>4 DEF Que!SendFails, Que!Sends, AskingKept, Que!CancelOnlyOwn, Que!history
  <1>5. ASSUME NEW q \in Questions, Que!handleInteractiveResponse(q) PROVE AskingKept'
    BY <1>5 DEF Que!handleInteractiveResponse, Que!resolvePendingQuestion, AskingKept,
       Que!CancelOnlyOwn, Que!history
  <1>6. ASSUME NEW q \in Questions, Que!ClickCutShort(q) PROVE AskingKept'
    BY <1>6 DEF Que!ClickCutShort, AskingKept, Que!CancelOnlyOwn
  <1>7. ASSUME NEW q \in Questions, Que!CancelNext(q) PROVE AskingKept'
    <2>1. Owner[q] = canceller
      BY <1>7 DEF Que!CancelNext, AskingKept
    <2>2. cancelled' = cancelled \cup {<<canceller, q>>}
      BY <1>7 DEF Que!CancelNext
    <2>3. Que!CancelOnlyOwn'
      <3> SUFFICES ASSUME NEW x \in cancelled' PROVE Owner[x[2]] = x[1]
        BY DEF Que!CancelOnlyOwn
      <3>1. CASE x \in cancelled
        BY <3>1 DEF AskingKept, Que!CancelOnlyOwn
      <3>2. CASE x = <<canceller, q>>
        BY <2>1, <3>2
      <3> QED
        BY <2>2, <3>1, <3>2
    <2>4. \A p \in cancelRun' : Owner[p] = canceller'
      BY <1>7 DEF Que!CancelNext, AskingKept
    <2> QED
      BY <1>7, <2>3, <2>4 DEF Que!CancelNext, Que!resolvePendingQuestion, AskingKept, Que!outside
  <1>8. ASSUME NEW q \in Questions, Que!deleteStalePendingQuestions(q) PROVE AskingKept'
    BY <1>8 DEF Que!deleteStalePendingQuestions, AskingKept, Que!CancelOnlyOwn
  <1>9. ASSUME NEW u \in Users, Que!TypeCancel(u) PROVE AskingKept'
    BY <1>9 DEF Que!TypeCancel, Que!findCancelablePendingQuestions, AskingKept, Que!CancelOnlyOwn,
       Que!history
  <1>10. ASSUME Que!ContainerEnds \/ Que!HostEnds \/ Que!HostStarts PROVE AskingKept'
    BY <1>10 DEF Que!ContainerEnds, Que!HostEnds, Que!HostStarts, AskingKept, Que!CancelOnlyOwn,
       Que!history
  <1> QED
    BY <1>1, <1>2, <1>3, <1>4, <1>5, <1>6, <1>7, <1>8, <1>9, <1>10 DEF Que!Next, Que!QuestionStep

\* What a step leaves of a question it is not about.
SameQuestion(q) ==
    /\ asker'[q] = asker[q] /\ sendAt'[q] = sendAt[q] /\ sends'[q] = sends[q]
    /\ answers'[q] = answers[q]
    /\ q \in pendingQ' <=> q \in pendingQ
    /\ q \in recorded' <=> q \in recorded
    /\ q \in pruned => q \in pruned'
    /\ q \in shownTwice \cup crossed \cup cutShort => q \in shownTwice' \cup crossed' \cup cutShort'

\* A step about q leaves every other question as it is.
LEMMA OtherQuestions ==
    ASSUME QuestionsKept, NEW p \in Questions, Que!QuestionStep(p), NEW q \in Questions, q # p
    PROVE  SameQuestion(q)
  <1> USE DEF QuestionsKept, AskingKept
  <1>1. CASE Que!askUserQuestion(p) \/ Que!findQuestionResponse(p) \/ Que!AskTimesOut(p)
    BY <1>1 DEF Que!askUserQuestion, Que!findQuestionResponse, Que!AskTimesOut, Que!Sends, SameQuestion,
       Que!outside, Que!history
  <1>2. CASE Que!SendCard(p) \/ Que!CardAppears(p) \/ Que!SendSucceeds(p)
    BY <1>2 DEF Que!SendCard, Que!CardAppears, Que!SendSucceeds, Que!createPendingQuestion, Que!Sends,
       SameQuestion, Que!outside, Que!history
  <1>3. CASE Que!SendFails(p)
    BY <1>3 DEF Que!SendFails, Que!Sends, SameQuestion, Que!history
  <1>4. CASE Que!handleInteractiveResponse(p) \/ Que!ClickCutShort(p) \/ Que!CancelNext(p)
    BY <1>4 DEF Que!handleInteractiveResponse, Que!ClickCutShort, Que!CancelNext,
       Que!resolvePendingQuestion, SameQuestion, Que!outside, Que!history
  <1>5. CASE Que!deleteStalePendingQuestions(p)
    BY <1>5 DEF Que!deleteStalePendingQuestions, SameQuestion
  <1> QED
    BY <1>1, <1>2, <1>3, <1>4, <1>5 DEF Que!QuestionStep

\* A question that a step leaves as it is stays kept.
LEMMA SameStaysKept ==
    ASSUME NEW q, QuestionKept(q), SameQuestion(q) PROVE QuestionKept(q)'
  BY DEF QuestionKept, SameQuestion

\* An answer written and the row deleted, by a click or by a cancel.
LEMMA ResolveStep ==
    ASSUME NEW q \in Questions, QuestionsKept, NEW v \in Que!Results, Que!resolvePendingQuestion(q, v),
           q \in pendingQ \/ q \in crossed',
           UNCHANGED <<asker, sendAt, sends, recorded, pruned, shownTwice, cutShort>>,
           crossed \subseteq crossed'
    PROVE  QuestionKept(q)'
  <1>1. QuestionKept(q) /\ answers'[q] = Append(answers[q], v) /\ q \notin pendingQ'
    BY DEF Que!resolvePendingQuestion, QuestionsKept, AskingKept
  <1>2. answers[q] \in Seq(Que!Results)
    BY <1>1 DEF QuestionKept
  <1>3. /\ answers'[q] \in Seq(Que!Results) /\ answers'[q] # <<>>
        /\ Len(answers'[q]) > 1 => answers[q] # <<>>
    BY <1>1, <1>2, OneMore
  <1> QED
    BY <1>1, <1>3 DEF QuestionKept

\* Every step keeps every question.
LEMMA QuestionsStep == ASSUME QuestionsKept, Que!Next, NEW q \in Questions PROVE QuestionKept(q)'
  <1>0. QuestionKept(q) /\ AskingKept /\ MaxSends \in Nat \ {0}
    BY QuestionsAssumption DEF QuestionsKept
  <1>1. ASSUME NEW p \in Questions, Que!QuestionStep(p), q # p PROVE QuestionKept(q)'
    BY <1>0, <1>1, OtherQuestions, SameStaysKept
  <1>2. ASSUME Que!askUserQuestion(q) PROVE QuestionKept(q)'
    <2>1. asker[q] = "idle" /\ asker'[q] = "polling" /\ sendAt'[q] = "due"
      BY <1>0, <1>2 DEF Que!askUserQuestion, Que!Sends, AskingKept
    <2>2. UNCHANGED <<sends, pendingQ, answers, recorded, pruned, shownTwice, crossed, cutShort>>
      BY <1>2 DEF Que!askUserQuestion, Que!history
    <2>3. sends[q] = 0 /\ 0 < MaxSends
      BY <1>0, <2>1 DEF QuestionKept
    <2> QED
      BY <1>0, <2>1, <2>2, <2>3 DEF QuestionKept
  <1>3. ASSUME Que!findQuestionResponse(q) PROVE QuestionKept(q)'
    <2>1. answers[q] \in Seq(Que!Results) /\ answers[q] # <<>> /\ asker'[q] = Head(answers[q])
      BY <1>0, <1>3 DEF Que!findQuestionResponse, QuestionKept, AskingKept
    <2>2. Head(answers[q]) \in Que!Results
      BY <2>1
    <2>3. UNCHANGED <<sendAt, sends, pendingQ, answers, recorded, pruned, shownTwice, crossed, cutShort>>
      BY <1>3 DEF Que!findQuestionResponse, Que!history
    <2>4. asker'[q] # "idle"
      BY <2>1, <2>2 DEF Que!Results
    <2> QED
      BY <1>0, <2>1, <2>2, <2>3, <2>4 DEF QuestionKept
  <1>4. ASSUME Que!AskTimesOut(q) PROVE QuestionKept(q)'
    <2>1. asker'[q] = "timeout"
      BY <1>0, <1>4 DEF Que!AskTimesOut, AskingKept
    <2> QED
      BY <1>0, <1>4, <2>1 DEF Que!AskTimesOut, QuestionKept, Que!history
  <1>5. ASSUME Que!SendCard(q) PROVE QuestionKept(q)'
    <2>1. /\ sendAt[q] = "due" /\ sendAt'[q] = "sending" /\ q \in pendingQ'
          /\ answers[q] # <<>> => q \in shownTwice'
          /\ q \in shownTwice => q \in shownTwice'
          /\ UNCHANGED <<asker, sends, answers, pruned, crossed, cutShort>>
      BY <1>0, <1>5 DEF Que!SendCard, Que!createPendingQuestion, Que!Sends, AskingKept
    <2> QED
      BY <1>0, <2>1 DEF QuestionKept
  <1>6. ASSUME Que!CardAppears(q) PROVE QuestionKept(q)'
    BY <1>0, <1>6 DEF Que!CardAppears, QuestionKept, Que!history
  <1>7. ASSUME Que!SendSucceeds(q) PROVE QuestionKept(q)'
    <2>1. sendAt[q] = "sending" /\ sendAt'[q] = "sent"
      BY <1>0, <1>7 DEF Que!SendSucceeds, Que!Sends, AskingKept
    <2> QED
      BY <1>0, <1>7, <2>1 DEF Que!SendSucceeds, QuestionKept, Que!history
  <1>8. ASSUME Que!SendFails(q) PROVE QuestionKept(q)'
    <2>1. /\ sendAt[q] = "sending" /\ sends'[q] = sends[q] + 1
          /\ sendAt'[q] = IF sends'[q] < MaxSends THEN "due" ELSE "failed"
      BY <1>0, <1>8 DEF Que!SendFails, Que!Sends, AskingKept
    <2>2. sends[q] \in 0 .. MaxSends /\ sends[q] < MaxSends
      BY <1>0, <2>1 DEF QuestionKept
    <2>3. sends'[q] \in 0 .. MaxSends
      BY <1>0, <2>1, <2>2
    <2>4. asker[q] # "idle"
      BY <1>0, <2>1 DEF QuestionKept
    <2> QED
      BY <1>0, <1>8, <2>1, <2>3, <2>4 DEF Que!SendFails, QuestionKept, Que!history
  <1>9. ASSUME Que!handleInteractiveResponse(q) PROVE QuestionKept(q)'
    <2>1. CASE q \in pendingQ
      BY <1>9, <2>1, ResolveStep DEF Que!handleInteractiveResponse, Que!history, Que!Results
    <2>2. CASE q \notin pendingQ
      BY <1>0, <1>9, <2>2 DEF Que!handleInteractiveResponse, QuestionKept, Que!history
    <2> QED
      BY <2>1, <2>2
  <1>10. ASSUME Que!ClickCutShort(q) PROVE QuestionKept(q)'
    <2>1. /\ q \in cutShort' /\ answers'[q] = Append(answers[q], "yes")
          /\ UNCHANGED <<asker, sendAt, sends, pendingQ, recorded, pruned>>
      BY <1>0, <1>10 DEF Que!ClickCutShort, AskingKept
    <2>2. answers'[q] \in Seq(Que!Results) /\ answers'[q] # <<>>
      BY <1>0, <2>1, OneMore DEF QuestionKept, Que!Results
    <2> QED
      BY <1>0, <2>1, <2>2 DEF QuestionKept
  <1>11. ASSUME Que!CancelNext(q) PROVE QuestionKept(q)'
    BY <1>11, ResolveStep DEF Que!CancelNext, Que!Results
  <1>12. ASSUME Que!deleteStalePendingQuestions(q) PROVE QuestionKept(q)'
    BY <1>0, <1>12 DEF Que!deleteStalePendingQuestions, QuestionKept
  <1>13. ASSUME NEW u \in Users, Que!TypeCancel(u) PROVE QuestionKept(q)'
    BY <1>0, <1>13 DEF Que!TypeCancel, QuestionKept, Que!history
  <1>14. ASSUME Que!ContainerEnds PROVE QuestionKept(q)'
    <2>1. asker'[q] = asker[q] \/ (asker'[q] = "gone" /\ asker[q] = "polling")
      BY <1>14 DEF Que!ContainerEnds
    <2> QED
      BY <1>0, <1>14, <2>1 DEF Que!ContainerEnds, QuestionKept, Que!history
  <1>15. ASSUME Que!HostEnds PROVE QuestionKept(q)'
    BY <1>0, <1>15 DEF Que!HostEnds, QuestionKept, Que!history
  <1>16. ASSUME Que!HostStarts PROVE QuestionKept(q)'
    <2>1. sendAt'[q] = sendAt[q] \/ (sendAt'[q] = "due" /\ sendAt[q] = "sending")
      BY <1>16 DEF Que!HostStarts
    <2> QED
      BY <1>0, <1>16, <2>1 DEF Que!HostStarts, QuestionKept, Que!history
  <1>17. ASSUME Que!QuestionStep(q) PROVE QuestionKept(q)'
    BY <1>2, <1>3, <1>4, <1>5, <1>6, <1>7, <1>8, <1>9, <1>10, <1>11, <1>12, <1>17 DEF Que!QuestionStep
  <1> QED
    BY <1>1, <1>13, <1>14, <1>15, <1>16, <1>17 DEF Que!Next

\* The invariant speaks of the behaviours about questions.
QuestionsInv == focus = "questions" => QuestionsKept

\* Before the first question.
LEMMA QuestionsInit == ASSUME Init PROVE QuestionsInv
  <1>1. Que!Init
    BY DEF Init
  <1>2. AskingKept
    BY <1>1 DEF Que!Init, AskingKept, Que!CancelOnlyOwn
  <1>3. ASSUME NEW q \in Questions PROVE QuestionKept(q)
    <2>1. /\ asker[q] = "idle" /\ sendAt[q] = "none" /\ sends[q] = 0 /\ answers[q] = <<>>
          /\ pendingQ = {} /\ recorded = {}
      BY <1>1 DEF Que!Init
    <2>2. <<>> \in Seq(Que!Results) /\ Len(<<>>) = 0 /\ 0 \in 0 .. MaxSends
      BY QuestionsAssumption
    <2> QED
      BY <2>1, <2>2 DEF QuestionKept
  <1> QED
    BY <1>2, <1>3 DEF QuestionsInv, QuestionsKept

\* Every answer reaches its asker, once unless a named race doubled it, and a
\* cancel word touches nobody else's question, for any number of questions,
\* users, replies and stops (modules/interactive).
THEOREM AnswersSafe == Spec => []AnswersArrive
  <1>1. Init => QuestionsInv
    BY QuestionsInit
  <1>2. ASSUME QuestionsInv, [Next]_vars PROVE QuestionsInv'
    <2>1. CASE focus = "questions" /\ Que!Next /\ UNCHANGED focus
      BY <1>2, <2>1, AskingStep, QuestionsStep DEF QuestionsInv, QuestionsKept
    <2>2. CASE UNCHANGED <<focus, queVars>>
      <3>1. UNCHANGED <<focus, asker, sendAt, sends, pendingQ, shown, answers, cancelRun, canceller,
                        askUp, recorded, pruned, shownTwice, crossed, cutShort, cancelled>>
        BY <2>2 DEF queVars
      <3>2. AskingKept => AskingKept'
        BY <3>1 DEF AskingKept, Que!CancelOnlyOwn
      <3>3. \A q \in Questions : QuestionKept(q) => QuestionKept(q)'
        BY <3>1 DEF QuestionKept
      <3> QED
        BY <1>2, <3>1, <3>2, <3>3 DEF QuestionsInv, QuestionsKept
    <2>3. UNCHANGED focus /\ (~ (focus = "questions" /\ Que!Next) => UNCHANGED queVars)
      BY <1>2 DEF Next, vars
    <2> QED
      BY <2>1, <2>2, <2>3
  <1>3. QuestionsInv => AnswersArrive
    <2> SUFFICES ASSUME QuestionsKept PROVE Que!AnswersArrive
      BY DEF QuestionsInv, AnswersArrive
    <2>1. \A q \in Questions : \A k \in DOMAIN answers[q] : answers[q][k] \in Que!Results
      BY DEF QuestionsKept, QuestionKept
    <2>2. Que!TypeOK
      BY <2>1 DEF QuestionsKept, QuestionKept, AskingKept, Que!TypeOK
    <2>3. Que!NoAnswerSwallowed /\ Que!SecondAnswerExplained /\ Que!CancelOnlyOwn
      BY DEF QuestionsKept, QuestionKept, AskingKept, Que!NoAnswerSwallowed, Que!SecondAnswerExplained
    <2> QED
      BY <2>2, <2>3 DEF Que!AnswersArrive
  <1> QED
    BY <1>1, <1>2, <1>3, PTL DEF Spec

-----------------------------------------------------------------------------
(***************************************************************************)
(* Messages between agents: the inductive invariant.                       *)
(***************************************************************************)
\* A row of the sessions table.
Lane == [group : MeshGroups, owner : Users \cup {Mes!Nobody}, root : Nat, depth : 0 .. SpawnCap,
         channel : BOOLEAN, active : BOOLEAN]

Len0 == Len(lanes)

\* A lane roots in a lane of the table, and its owner has spoken in it.
LaneKept(s) ==
    /\ lanes[s].root \in 1 .. Len0
    /\ lanes[s].owner # Mes!Nobody => lanes[s].owner \in heard[s]

\* A row came from a lane of the table, from nobody else's, and names a user
\* who was heard.
MailKept(s, i) ==
    /\ mail[s][i].from \in 0 .. Len0
    /\ mail[s][i].who # Mes!Nobody => mail[s][i].who \in heard[s]
    /\ s \in 1 .. Len0
    /\ (mail[s][i].from # 0 /\ lanes[s].owner # Mes!Nobody
          /\ lanes[mail[s][i].from].owner # Mes!Nobody)
        => lanes[s].owner = lanes[mail[s][i].from].owner

MeshTypes ==
    /\ lanes \in Seq(Lane) /\ Len0 <= MaxLanes
    /\ mail \in [1 .. MaxLanes -> Seq(Mes!Rows)]
    /\ edges \subseteq MeshGroups \X MeshGroups
    /\ orgOf \in [MeshGroups -> Companies \cup {Mes!NoOrg}]
    /\ heard \in [1 .. MaxLanes -> SUBSET Users]

MeshKept ==
    /\ MeshTypes
    /\ \A s \in 1 .. Len0 : LaneKept(s)
    /\ \A s \in 1 .. MaxLanes : \A i \in 1 .. Len(mail[s]) : MailKept(s, i)
    /\ Mes!RootMeansOwner

\* The fields of a lane.
LEMMA LaneFields ==
    ASSUME NEW l \in Lane
    PROVE  /\ l.group \in MeshGroups /\ l.owner \in Users \cup {Mes!Nobody}
           /\ l.root \in Nat /\ l.depth \in 0 .. SpawnCap
           /\ l.channel \in BOOLEAN /\ l.active \in BOOLEAN
  BY DEF Lane

\* Lanes made for another agent, and for a channel.
AgentLane(g, o, r, d) == Mes!NewLane(g, o, r, d, FALSE)

ChannelLane(o, r) == Mes!NewLane(EntryDesk, o, r, 0, TRUE)

\* A lane made by a resolver is a lane.
LEMMA NewLaneIs ==
    ASSUME NEW g \in MeshGroups, NEW o \in Users \cup {Mes!Nobody}, NEW r \in Nat,
           NEW d \in 0 .. SpawnCap
    PROVE  /\ AgentLane(g, o, r, d) \in Lane
           /\ AgentLane(g, o, r, d).owner = o /\ AgentLane(g, o, r, d).root = r
           /\ ChannelLane(o, r) \in Lane
           /\ ChannelLane(o, r).owner = o /\ ChannelLane(o, r).root = r
  BY MeshAssumption DEF AgentLane, ChannelLane, Mes!NewLane, Lane

\* A set of numbers that is not empty has a least one.
LEMMA LeastNumber ==
    ASSUME NEW S \in SUBSET Nat, S # {}
    PROVE  \E i \in S : \A j \in S : i <= j
  <1>1. IsWellFoundedOn(OpToRel(<, Nat), Nat)
    BY NatLessThanWellFounded
  <1>2. PICK i \in S : \A j \in S : <<j, i>> \notin OpToRel(<, Nat)
    BY <1>1, WFMin
  <1>3. \A j \in S : ~ (j < i)
    BY <1>2 DEF OpToRel
  <1> QED
    BY <1>3

\* A set of places in a table has a last one.
LEMMA NewestIs ==
    ASSUME NEW n \in Nat, NEW S \in SUBSET (1 .. n)
    PROVE  /\ S = {} => Mes!Newest(S) = 0
           /\ S # {} => Mes!Newest(S) \in S /\ Mes!Newest(S) # 0
  <1>1. S = {} => Mes!Newest(S) = 0
    BY DEF Mes!Newest, Mes!None
  <1>2. ASSUME S # {} PROVE Mes!Newest(S) \in S /\ Mes!Newest(S) # 0
    <2> DEFINE Left == {n - j : j \in S}
    <2>1. Left \in SUBSET Nat /\ Left # {}
      <3>1. \A j \in S : n - j \in Nat
        OBVIOUS
      <3>2. PICK j \in S : TRUE
        BY <1>2
      <3>3. n - j \in Left
        OBVIOUS
      <3> QED
        BY <3>1, <3>3
    <2>2. PICK k \in Left : \A j \in Left : k <= j
      <3> HIDE DEF Left
      <3> QED
        BY <2>1, LeastNumber
    <2>3. PICK i \in S : k = n - i
      OBVIOUS
    <2>4. \A j \in S : j <= i
      <3> SUFFICES ASSUME NEW j \in S PROVE j <= i
        OBVIOUS
      <3>1. n - i <= n - j
        BY <2>2, <2>3
      <3> QED
        BY <3>1
    <2> HIDE DEF Left
    <2>5. Mes!Newest(S) \in S
      BY <1>2, <2>4 DEF Mes!Newest
    <2> QED
      BY <2>5
  <1> QED
    BY <1>1, <1>2

\* Lanes of the table.
LEMMA LaneFacts ==
    ASSUME MeshKept
    PROVE  /\ Len0 \in Nat /\ Mes!Lanes = 1 .. Len0 /\ Mes!Fresh = Len0 + 1
           /\ \A s \in 1 .. Len0 :
                 /\ lanes[s] \in Lane /\ LaneKept(s)
                 /\ s \in 1 .. MaxLanes
  BY MeshAssumption DEF MeshKept, MeshTypes, Mes!Lanes, Mes!Fresh, Len0

\* The lanes a lookup may answer with.
LEMMA ActiveLanes ==
    ASSUME MeshKept, NEW g
    PROVE  /\ Mes!Active(g) \in SUBSET (1 .. Len0)
           /\ \A s \in Mes!Active(g) : lanes[s].group = g /\ lanes[s].active
           /\ \A s \in 1 .. Len0 : lanes[s].group = g /\ lanes[s].active => s \in Mes!Active(g)
  BY LaneFacts DEF Mes!Active

\* The anchor of a row is a lane of the table that the owner check let pass.
LEMMA AnchorIs ==
    ASSUME MeshKept, NEW s \in 1 .. Len0, NEW g, NEW i \in 0 .. Len(mail[s])
    PROVE  \/ Mes!anchored(s, g, i) = 0
           \/ /\ Mes!anchored(s, g, i) \in 1 .. Len0
              /\ Mes!sameUser(s, Mes!anchored(s, g, i))
  <1>1. Len(mail[s]) \in Nat /\ s \in 1 .. MaxLanes
    BY LaneFacts DEF MeshKept, MeshTypes
  <1>2. Mes!getInboundSourceSessionId(s, i) \in 0 .. Len0
    <2>1. CASE i = 0
      BY <2>1, LaneFacts DEF Mes!getInboundSourceSessionId, Mes!None
    <2>2. CASE i # 0
      <3>1. MailKept(s, i)
        BY <1>1, <2>2 DEF MeshKept
      <3> QED
        BY <2>2, <3>1 DEF Mes!getInboundSourceSessionId, MailKept
    <2> QED
      BY <2>1, <2>2
  <1>3. Mes!getMostRecentPeerSourceSessionId(s, g) \in 0 .. Len0
    <2> DEFINE rows == {k \in 1 .. Len(mail[s]) : mail[s][k].from # Mes!None
                                                  /\ lanes[mail[s][k].from].group = g}
    <2>1. rows \in SUBSET (1 .. Len(mail[s]))
      OBVIOUS
    <2>2. Mes!getMostRecentPeerSourceSessionId(s, g) =
             IF rows = {} THEN Mes!None ELSE mail[s][Mes!Newest(rows)].from
      BY DEF Mes!getMostRecentPeerSourceSessionId
    <2> HIDE DEF rows
    <2>3. CASE rows = {}
      BY <2>2, <2>3, LaneFacts DEF Mes!None
    <2>4. CASE rows # {}
      <3>1. Mes!Newest(rows) \in 1 .. Len(mail[s])
        BY <1>1, <2>1, <2>4, NewestIs
      <3>2. MailKept(s, Mes!Newest(rows))
        BY <1>1, <3>1 DEF MeshKept
      <3> QED
        BY <2>2, <2>4, <3>2 DEF MailKept
    <2> QED
      BY <2>3, <2>4
  <1> QED
    BY <1>2, <1>3, LaneFacts DEF Mes!anchored, Mes!None

\* What resolveTargetSession answers with: a lane of the table that shares the
\* sender's user unless one of the two has none, or a lane made for that user.
GoodAnswer(s, to) ==
    \/ /\ to.made = <<>> /\ to.lane \in 1 .. Len0 /\ Mes!sameUser(s, to.lane)
    \/ /\ to.lane = Len0 + 1
       /\ \E row \in Lane :
             /\ to.made = <<row>>
             /\ \/ row.root = lanes[s].root /\ row.owner = lanes[s].owner
                \/ row.root = Len0 + 1 /\ row.owner = Mes!Nobody

\* The answer by root.
LEMMA ByRootIs ==
    ASSUME MeshKept, NEW s \in 1 .. Len0, NEW g \in MeshGroups,
           lanes[s].active, lanes[s].group = g \/ lanes[s].depth < SpawnCap
    PROVE  GoodAnswer(s, Mes!resolveByRoot(g, lanes[s].owner, lanes[s].root, lanes[s].depth))
  <1> DEFINE S == {t \in Mes!Active(g) : lanes[t].root = lanes[s].root}
             row == AgentLane(g, lanes[s].owner, lanes[s].root, lanes[s].depth + 1)
             found == Mes!findSessionForAgentRoot(g, lanes[s].root)
  <1>1. S \in SUBSET (1 .. Len0) /\ \A t \in S : lanes[t].root = lanes[s].root
    BY ActiveLanes
  <1>2. found = Mes!Newest(S) /\ (lanes[s].group = g => s \in S)
    BY ActiveLanes DEF Mes!findSessionForAgentRoot
  <1>3. Mes!resolveByRoot(g, lanes[s].owner, lanes[s].root, lanes[s].depth)
          = IF found = 0 THEN [lane |-> Len0 + 1, made |-> <<row>>] ELSE [lane |-> found, made |-> <<>>]
    BY LaneFacts DEF Mes!resolveByRoot, AgentLane, Mes!FoundOr, Mes!Made, Mes!Found, Mes!None
  <1> HIDE DEF S, row, found
  <1>4. CASE S = {}
    <2>1. lanes[s].depth + 1 \in 0 .. SpawnCap
      BY <1>2, <1>4, LaneFacts, LaneFields, MeshAssumption
    <2>2. row \in Lane /\ row.owner = lanes[s].owner /\ row.root = lanes[s].root
      <3>1. lanes[s].owner \in Users \cup {Mes!Nobody} /\ lanes[s].root \in Nat
        BY LaneFacts, LaneFields
      <3>2. PICK d \in 0 .. SpawnCap, o \in Users \cup {Mes!Nobody}, q \in Nat :
               d = lanes[s].depth + 1 /\ o = lanes[s].owner /\ q = lanes[s].root
        BY <2>1, <3>1
      <3>3. AgentLane(g, o, q, d) \in Lane /\ AgentLane(g, o, q, d).owner = o /\ AgentLane(g, o, q, d).root = q
        BY NewLaneIs
      <3> QED
        BY <3>2, <3>3, Zenon DEF row
    <2>3. found = 0
      BY <1>1, <1>2, <1>4, LaneFacts, NewestIs
    <2> QED
      BY <1>3, <2>2, <2>3 DEF GoodAnswer
  <1>5. CASE S # {}
    <2>1. found \in S /\ found # 0
      BY <1>1, <1>2, <1>5, LaneFacts, NewestIs
    <2>2. Mes!sameUser(s, found)
      BY <1>1, <2>1, LaneFacts DEF MeshKept, Mes!RootMeansOwner, Mes!sameUser
    <2> QED
      BY <1>1, <1>3, <2>1, <2>2 DEF GoodAnswer
  <1> QED
    BY <1>4, <1>5

\* The answer for a group used by everybody.
LEMMA SharedIs ==
    ASSUME MeshKept, NEW s \in 1 .. Len0, NEW g \in MeshGroups,
           lanes[s].active, lanes[s].group = g \/ lanes[s].depth < SpawnCap,
           lanes[s].owner = Mes!Nobody
    PROVE  GoodAnswer(s, Mes!resolveShared(g, lanes[s].depth))
  <1> DEFINE row == AgentLane(g, Mes!Nobody, Len0 + 1, lanes[s].depth + 1)
             found == Mes!findSessionByAgentGroup(g)
  <1>1. Mes!Active(g) \in SUBSET (1 .. Len0) /\ (lanes[s].group = g => s \in Mes!Active(g))
    BY ActiveLanes
  <1>2. found = Mes!Newest(Mes!Active(g))
    BY DEF Mes!findSessionByAgentGroup
  <1>3. Mes!resolveShared(g, lanes[s].depth)
          = IF found = 0 THEN [lane |-> Len0 + 1, made |-> <<row>>] ELSE [lane |-> found, made |-> <<>>]
    BY LaneFacts DEF Mes!resolveShared, AgentLane, Mes!FoundOr, Mes!Made, Mes!Found, Mes!None
  <1> HIDE DEF row, found
  <1>4. CASE Mes!Active(g) = {}
    <2>1. lanes[s].depth + 1 \in 0 .. SpawnCap /\ Len0 + 1 \in Nat
      BY <1>1, <1>4, LaneFacts, LaneFields, MeshAssumption
    <2>2. row \in Lane /\ row.owner = Mes!Nobody /\ row.root = Len0 + 1
      <3>1. PICK d \in 0 .. SpawnCap, o \in Users \cup {Mes!Nobody}, q \in Nat :
               d = lanes[s].depth + 1 /\ o = Mes!Nobody /\ q = Len0 + 1
        BY <2>1
      <3>2. AgentLane(g, o, q, d) \in Lane /\ AgentLane(g, o, q, d).owner = o /\ AgentLane(g, o, q, d).root = q
        BY NewLaneIs
      <3> QED
        BY <3>1, <3>2, Zenon DEF row
    <2>3. found = 0
      BY <1>1, <1>2, <1>4, LaneFacts, NewestIs
    <2> QED
      BY <1>3, <2>2, <2>3 DEF GoodAnswer
  <1>5. CASE Mes!Active(g) # {}
    <2>1. found \in 1 .. Len0 /\ found # 0
      BY <1>1, <1>2, <1>5, LaneFacts, NewestIs
    <2> QED
      BY <1>3, <2>1 DEF GoodAnswer, Mes!sameUser
  <1> QED
    BY <1>4, <1>5

\* The answer in general.
LEMMA TargetIs ==
    ASSUME MeshKept, NEW s \in 1 .. Len0, NEW g \in MeshGroups, NEW i \in 0 .. Len(mail[s]),
           lanes[s].active, Mes!Accepts(s, g)
    PROVE  GoodAnswer(s, Mes!resolveTargetSession(s, g, i))
  <1> DEFINE a == Mes!anchored(s, g, i)
             own == Mes!findNewestOwnedSessionForAgent(g, lanes[s].owner)
             shared == Mes!findNewestOwnerlessSessionForAgent(g)
  <1>1. lanes[s].group = g \/ lanes[s].depth < SpawnCap
    BY DEF Mes!Accepts, Mes!withinDepth
  <1>2. GoodAnswer(s, Mes!resolveByRoot(g, lanes[s].owner, lanes[s].root, lanes[s].depth))
    BY <1>1, ByRootIs
  <1>3. lanes[s].owner = Mes!Nobody => GoodAnswer(s, Mes!resolveShared(g, lanes[s].depth))
    BY <1>1, SharedIs
  <1>4. own = 0 \/ (own \in 1 .. Len0 /\ lanes[own].owner = lanes[s].owner)
    <2> DEFINE S == {t \in Mes!Active(g) : lanes[t].owner = lanes[s].owner}
    <2>1. S \in SUBSET (1 .. Len0) /\ own = Mes!Newest(S)
      BY ActiveLanes DEF Mes!findNewestOwnedSessionForAgent
    <2>2. \A t \in S : lanes[t].owner = lanes[s].owner
      OBVIOUS
    <2> HIDE DEF S
    <2> QED
      BY <2>1, <2>2, LaneFacts, NewestIs
  <1>5. shared = 0 \/ (shared \in 1 .. Len0 /\ lanes[shared].owner = Mes!Nobody)
    <2> DEFINE S == {t \in Mes!Active(g) : lanes[t].owner = Mes!Nobody}
    <2>1. S \in SUBSET (1 .. Len0) /\ shared = Mes!Newest(S)
      BY ActiveLanes DEF Mes!findNewestOwnerlessSessionForAgent
    <2>2. \A t \in S : lanes[t].owner = Mes!Nobody
      OBVIOUS
    <2> HIDE DEF S
    <2> QED
      BY <2>1, <2>2, LaneFacts, NewestIs
  <1>6. a = 0 \/ (a \in 1 .. Len0 /\ Mes!sameUser(s, a))
    BY AnchorIs
  <1>7. \A t \in 1 .. Len0 : Mes!sameUser(s, t) => GoodAnswer(s, Mes!Found(t))
    BY DEF GoodAnswer, Mes!Found
  <1>8. Mes!resolveTargetSession(s, g, i) =
          CASE a # 0 -> Mes!Found(a)
            [] a = 0 /\ g \in RootMode ->
                 Mes!resolveByRoot(g, lanes[s].owner, lanes[s].root, lanes[s].depth)
            [] a = 0 /\ g \notin RootMode /\ lanes[s].owner # Mes!Nobody ->
                 IF own # 0 THEN Mes!Found(own)
                 ELSE IF shared # 0 THEN Mes!Found(shared)
                 ELSE Mes!resolveByRoot(g, lanes[s].owner, lanes[s].root, lanes[s].depth)
            [] OTHER -> Mes!resolveShared(g, lanes[s].depth)
    BY DEF Mes!resolveTargetSession, Mes!None
  <1> HIDE DEF a, own, shared
  <1>9. CASE a # 0
    BY <1>6, <1>7, <1>8, <1>9
  <1>10. CASE a = 0 /\ g \in RootMode
    BY <1>2, <1>8, <1>10
  <1>11. CASE a = 0 /\ g \notin RootMode /\ lanes[s].owner # Mes!Nobody
    <2>1. own # 0 => Mes!sameUser(s, own)
      BY <1>4 DEF Mes!sameUser
    <2>2. shared # 0 => Mes!sameUser(s, shared)
      BY <1>5 DEF Mes!sameUser
    <2> QED
      BY <1>2, <1>4, <1>5, <1>7, <1>8, <1>11, <2>1, <2>2
  <1>12. CASE a = 0 /\ g \notin RootMode /\ lanes[s].owner = Mes!Nobody
    BY <1>3, <1>8, <1>12
  <1> QED
    BY <1>9, <1>10, <1>11, <1>12

\* The origin the host vouches for was heard by the sender.
LEMMA OriginIs ==
    ASSUME MeshKept, NEW s \in 1 .. Len0, NEW claimed \in Users \cup {Mes!Nobody}
    PROVE  /\ Mes!originOf(s, claimed) \in Users \cup {Mes!Nobody}
           /\ Mes!originOf(s, claimed) # Mes!Nobody => Mes!originOf(s, claimed) \in heard[s]
  <1>1. s \in 1 .. MaxLanes /\ lanes[s] \in Lane /\ LaneKept(s)
    BY LaneFacts
  <1>2. mail[s] \in Seq(Mes!Rows) /\ Len(mail[s]) \in Nat
    BY <1>1 DEF MeshKept, MeshTypes
  <1>3. \A i \in 1 .. Len(mail[s]) :
           /\ mail[s][i].who \in Users \cup {Mes!Nobody}
           /\ mail[s][i].who # Mes!Nobody => mail[s][i].who \in heard[s]
    <2> SUFFICES ASSUME NEW i \in 1 .. Len(mail[s])
                 PROVE  /\ mail[s][i].who \in Users \cup {Mes!Nobody}
                        /\ mail[s][i].who # Mes!Nobody => mail[s][i].who \in heard[s]
      OBVIOUS
    <2>1. mail[s][i] \in Mes!Rows
      BY <1>2
    <2>2. MailKept(s, i)
      BY <1>1 DEF MeshKept
    <2> QED
      BY <2>1, <2>2 DEF Mes!Rows, MailKept
  <1>4. claimed # Mes!Nobody /\ claimed \in Mes!collectLegitimateOrigins(s) => claimed \in heard[s]
    BY <1>3 DEF Mes!collectLegitimateOrigins, Mes!namespacedOriginOf
  <1>5. /\ Mes!resolveOriginUserId(s) \in Users \cup {Mes!Nobody}
        /\ Mes!resolveOriginUserId(s) # Mes!Nobody => Mes!resolveOriginUserId(s) \in heard[s]
    <2>1. mail[s] # <<>> => Len(mail[s]) \in 1 .. Len(mail[s])
      BY <1>2
    <2> QED
      BY <1>3, <2>1 DEF Mes!resolveOriginUserId, Mes!namespacedOriginOf
  <1>6. /\ lanes[s].owner \in Users \cup {Mes!Nobody}
        /\ lanes[s].owner # Mes!Nobody => lanes[s].owner \in heard[s]
    BY <1>1, LaneFields DEF LaneKept
  <1> QED
    BY <1>4, <1>5, <1>6 DEF Mes!originOf

\* The table keeps its lanes and has at most one more, made for t, which roots
\* in itself or shares the root and the user of a lane that is there.
TableGrows(t) ==
    /\ lanes' \in Seq(Lane) /\ Len(lanes') \in {Len0, Len0 + 1} /\ Len(lanes') <= MaxLanes
    /\ \A s \in 1 .. Len0 : lanes'[s] = lanes[s]
    /\ t \in 1 .. Len(lanes')
    /\ Len(lanes') = Len0 + 1 =>
          /\ t = Len0 + 1
          /\ lanes'[t].owner # Mes!Nobody => lanes'[t].owner \in heard'[t]
          /\ \/ lanes'[t].root = Len0 + 1
             \/ \E s \in 1 .. Len0 : lanes'[t].root = lanes[s].root /\ lanes'[t].owner = lanes[s].owner

\* A row that says where it comes from and for whom arrives in lane t.
LEMMA RowArrives ==
    ASSUME MeshKept, NEW t, TableGrows(t), NEW row \in Mes!Rows,
           mail' = Mes!Append1(t, row),
           heard' \in [1 .. MaxLanes -> SUBSET Users],
           \A s \in 1 .. MaxLanes : heard[s] \subseteq heard'[s],
           row.from \in 0 .. Len0,
           row.who # Mes!Nobody => row.who \in heard'[t],
           row.from # 0 /\ lanes'[t].owner # Mes!Nobody /\ lanes[row.from].owner # Mes!Nobody
              => lanes'[t].owner = lanes[row.from].owner,
           UNCHANGED <<edges, orgOf>>
    PROVE  MeshKept'
  <1>0. /\ Len0 \in Nat /\ Len0' = Len(lanes') /\ Len0' \in Nat /\ Len0 <= Len0' /\ t \in 1 .. MaxLanes
        /\ t \in 1 .. Len0' /\ MaxLanes \in Nat
    BY LaneFacts, MeshAssumption DEF TableGrows, Len0
  <1>1. /\ mail' \in [1 .. MaxLanes -> Seq(Mes!Rows)]
        /\ \A s \in 1 .. MaxLanes : s # t => mail'[s] = mail[s]
        /\ mail'[t] = Append(mail[t], row) /\ mail[t] \in Seq(Mes!Rows)
    <2>1. mail \in [1 .. MaxLanes -> Seq(Mes!Rows)] /\ mail' = [mail EXCEPT ![t] = Append(mail[t], row)]
      BY <1>0 DEF Mes!Append1, MeshKept, MeshTypes
    <2>2. mail[t] \in Seq(Mes!Rows)
      BY <1>0, <2>1
    <2>3. Append(mail[t], row) \in Seq(Mes!Rows)
      BY <2>2
    <2> QED
      BY <1>0, <2>1, <2>2, <2>3
  <1>2. MeshTypes'
    BY <1>0, <1>1 DEF MeshKept, MeshTypes, TableGrows
  <1>3. ASSUME NEW s \in 1 .. Len0' PROVE LaneKept(s)'
    <2>1. CASE s \in 1 .. Len0
      <3>1. LaneKept(s) /\ s \in 1 .. MaxLanes /\ lanes'[s] = lanes[s]
        BY <2>1, LaneFacts DEF TableGrows
      <3>2. lanes[s].root \in 1 .. Len0'
        BY <1>0, <3>1 DEF LaneKept
      <3> QED
        BY <3>1, <3>2 DEF LaneKept
    <2>2. CASE s \notin 1 .. Len0
      <3>1. Len0' = Len0 + 1 /\ s = t /\ t = Len0 + 1
        BY <1>0, <2>2 DEF TableGrows
      <3>2. lanes'[t].root \in 1 .. Len0'
        BY <1>0, <3>1, LaneFacts DEF TableGrows, LaneKept
      <3> QED
        BY <1>0, <3>1, <3>2 DEF LaneKept, TableGrows
    <2> QED
      BY <2>1, <2>2
  <1>4. ASSUME NEW s \in 1 .. MaxLanes, NEW i \in 1 .. Len(mail'[s]) PROVE MailKept(s, i)'
    <2>1. ASSUME i \in 1 .. Len(mail[s]), mail'[s][i] = mail[s][i] PROVE MailKept(s, i)'
      <3>1. MailKept(s, i)
        BY <2>1 DEF MeshKept
      <3>2. mail[s][i].from \in 0 .. Len0' /\ s \in 1 .. Len0'
        BY <1>0, <3>1 DEF MailKept
      <3>3. lanes'[s] = lanes[s] /\ (mail[s][i].from # 0 => lanes'[mail[s][i].from] = lanes[mail[s][i].from])
        BY <1>0, <3>1 DEF MailKept, TableGrows
      <3> QED
        BY <2>1, <3>1, <3>2, <3>3 DEF MailKept
    <2>2. CASE s # t
      BY <1>1, <2>1, <2>2
    <2>3. CASE s = t /\ i # Len(mail[t]) + 1
      <3>1. i \in 1 .. Len(mail[t]) /\ mail'[t][i] = mail[t][i]
        BY <1>1, <2>3
      <3> QED
        BY <2>1, <2>3, <3>1
    <2>4. CASE s = t /\ i = Len(mail[t]) + 1
      <3>1. mail'[t][i] = row
        BY <1>1, <2>4
      <3>2. row.from # 0 => lanes'[row.from] = lanes[row.from]
        BY <1>0 DEF TableGrows
      <3>3. row.from \in 0 .. Len0'
        BY <1>0
      <3> QED
        BY <1>0, <2>4, <3>1, <3>2, <3>3 DEF MailKept
    <2> QED
      BY <2>2, <2>3, <2>4
  <1>5. Mes!RootMeansOwner'
    <2>1. Mes!Lanes' = 1 .. Len0'
      BY DEF Mes!Lanes, Len0
    <2> SUFFICES ASSUME NEW a \in 1 .. Len0', NEW b \in 1 .. Len0', lanes'[a].root = lanes'[b].root
                 PROVE  lanes'[a].owner = lanes'[b].owner
      BY <2>1 DEF Mes!RootMeansOwner
    <2>2. \A c, d \in 1 .. Len0 : lanes[c].root = lanes[d].root => lanes[c].owner = lanes[d].owner
      BY LaneFacts DEF MeshKept, Mes!RootMeansOwner
    <2>3. \A c \in 1 .. Len0 : lanes'[c] = lanes[c] /\ lanes[c].root # Len0 + 1
      BY <1>0, LaneFacts DEF TableGrows, LaneKept
    <2>4. \A c \in 1 .. Len0' : c \in 1 .. Len0 \/ (c = t /\ Len(lanes') = Len0 + 1)
      BY <1>0 DEF TableGrows
    <2> QED
      BY <2>2, <2>3, <2>4, SMTT(40) DEF TableGrows
  <1> QED
    BY <1>2, <1>3, <1>4, <1>5 DEF MeshKept

\* A table that is left alone, and one with a lane appended.
LEMMA TableAppended ==
    ASSUME MeshKept
    PROVE  /\ lanes \o <<>> = lanes
           /\ \A l \in Lane : /\ lanes \o <<l>> \in Seq(Lane) /\ Len(lanes \o <<l>>) = Len0 + 1
                              /\ \A s \in 1 .. Len0 : (lanes \o <<l>>)[s] = lanes[s]
                              /\ (lanes \o <<l>>)[Len0 + 1] = l
  <1>1. lanes \in Seq(Lane)
    BY DEF MeshKept, MeshTypes
  <1>2. lanes \o <<>> = lanes
    BY <1>1
  <1> SUFFICES ASSUME NEW l \in Lane
               PROVE  /\ lanes \o <<l>> \in Seq(Lane) /\ Len(lanes \o <<l>>) = Len0 + 1
                      /\ \A s \in 1 .. Len0 : (lanes \o <<l>>)[s] = lanes[s]
                      /\ (lanes \o <<l>>)[Len0 + 1] = l
    BY <1>2
  <1>3. <<l>> \in Seq(Lane) /\ Len(<<l>>) = 1 /\ <<l>>[1] = l
    OBVIOUS
  <1> HIDE DEF Lane
  <1> QED
    BY <1>1, <1>3 DEF Len0

\* A row record.
LEMMA RowIs ==
    ASSUME NEW k \in {"chat", "agent", "system"}, NEW u \in Users \cup {Mes!Nobody},
           NEW f \in 0 .. MaxLanes
    PROVE  /\ Mes!Row(k, u, f) \in Mes!Rows
           /\ Mes!Row(k, u, f).who = u /\ Mes!Row(k, u, f).from = f
  BY DEF Mes!Row, Mes!Rows

\* A person writes in a channel.
LEMMA ChannelStep ==
    ASSUME MeshKept, NEW u \in Users, NEW perUser \in BOOLEAN, Mes!ChannelMessage(u, perUser)
    PROVE  MeshKept'
  <1> DEFINE owner == IF perUser THEN u ELSE Mes!Nobody
             found == Mes!findSessionForAgent(EntryDesk, owner)
             t == IF found = 0 THEN Len0 + 1 ELSE found
             S == {s \in Mes!Active(EntryDesk) : lanes[s].channel /\ lanes[s].owner = owner}
  <1>1. /\ t <= MaxLanes
        /\ lanes' = lanes \o (IF found = 0 THEN <<ChannelLane(owner, Len0 + 1)>> ELSE <<>>)
        /\ mail' = Mes!Append1(t, Mes!Row("chat", u, 0))
        /\ heard' = [heard EXCEPT ![t] = @ \cup {u}]
        /\ UNCHANGED <<edges, orgOf>>
    BY LaneFacts DEF Mes!ChannelMessage, Mes!FoundOr, Mes!Made, Mes!Found, Mes!None, ChannelLane
  <1>2. S \in SUBSET (1 .. Len0) /\ found = Mes!Newest(S)
    BY ActiveLanes DEF Mes!findSessionForAgent
  <1>3. owner \in Users \cup {Mes!Nobody} /\ (owner # Mes!Nobody => owner = u)
    OBVIOUS
  <1> HIDE DEF owner, found, S
  <1>4. found = 0 \/ found \in 1 .. Len0
    BY <1>2, LaneFacts, NewestIs
  <1>5. Len0 \in Nat /\ Len0 <= MaxLanes /\ MaxLanes \in Nat /\ t \in 1 .. MaxLanes
    BY <1>1, <1>4, LaneFacts, MeshAssumption DEF MeshKept, MeshTypes
  <1>6. /\ heard' \in [1 .. MaxLanes -> SUBSET Users]
        /\ \A s \in 1 .. MaxLanes : heard[s] \subseteq heard'[s]
        /\ u \in heard'[t]
    BY <1>1, <1>5 DEF MeshKept, MeshTypes
  <1>7. TableGrows(t)
    <2>1. CASE found = 0
      <3>1. /\ ChannelLane(owner, Len0 + 1) \in Lane
            /\ ChannelLane(owner, Len0 + 1).owner = owner
            /\ ChannelLane(owner, Len0 + 1).root = Len0 + 1
        <4>1. 0 \in 0 .. SpawnCap /\ EntryDesk \in MeshGroups /\ Len0 + 1 \in Nat
          BY <1>5, MeshAssumption
        <4> QED
          BY <1>3, <4>1, NewLaneIs
      <3> HIDE DEF Lane
      <3>2. lanes' = lanes \o <<ChannelLane(owner, Len0 + 1)>> /\ t = Len0 + 1
        BY <1>1, <2>1
      <3>3. /\ lanes' \in Seq(Lane) /\ Len(lanes') = Len0 + 1
            /\ \A s \in 1 .. Len0 : lanes'[s] = lanes[s]
            /\ lanes'[Len0 + 1] = ChannelLane(owner, Len0 + 1)
        BY <3>1, <3>2, TableAppended
      <3>4. Len(lanes') <= MaxLanes /\ t \in 1 .. Len(lanes') /\ Len(lanes') \in {Len0, Len0 + 1}
        BY <1>1, <1>5, <3>2, <3>3
      <3>5. lanes'[t].root = Len0 + 1 /\ (lanes'[t].owner # Mes!Nobody => lanes'[t].owner \in heard'[t])
        BY <1>3, <1>6, <3>1, <3>2, <3>3
      <3> HIDE DEF t
      <3> QED
        BY <3>2, <3>3, <3>4, <3>5 DEF TableGrows
    <2>2. CASE found # 0
      <3>1. lanes' = lanes /\ t = found /\ t \in 1 .. Len0
        BY <1>1, <1>4, <2>2, TableAppended
      <3> QED
        BY <1>5, <3>1 DEF TableGrows, Len0, MeshKept, MeshTypes
    <2> QED
      BY <2>1, <2>2
  <1>8. /\ Mes!Row("chat", u, 0) \in Mes!Rows
        /\ Mes!Row("chat", u, 0).who = u /\ Mes!Row("chat", u, 0).from = 0
    BY <1>5, RowIs
  <1>9. 0 \in 0 .. Len0
    BY <1>5
  <1> HIDE DEF t
  <1> QED
    BY <1>1, <1>6, <1>7, <1>8, <1>9, RowArrives

\* The host tells an agent something.
LEMMA NotifyStep ==
    ASSUME MeshKept, NEW s \in Mes!Lanes, Mes!notifyAgent(s) PROVE MeshKept'
  <1>1. /\ s \in 1 .. Len0 /\ Len0 \in Nat /\ Len0 <= MaxLanes /\ MaxLanes \in Nat
        /\ lanes \in Seq(Lane) /\ heard \in [1 .. MaxLanes -> SUBSET Users]
    BY LaneFacts, MeshAssumption DEF MeshKept, MeshTypes
  <1>2. /\ mail' = Mes!Append1(s, Mes!Row("system", Mes!Nobody, 0))
        /\ UNCHANGED <<lanes, edges, orgOf, heard>>
    BY DEF Mes!notifyAgent, Mes!None
  <1>3. /\ Mes!Row("system", Mes!Nobody, 0) \in Mes!Rows
        /\ Mes!Row("system", Mes!Nobody, 0).who = Mes!Nobody
        /\ Mes!Row("system", Mes!Nobody, 0).from = 0
    BY <1>1, RowIs
  <1>4. TableGrows(s)
    BY <1>1, <1>2 DEF TableGrows, Len0
  <1>5. 0 \in 0 .. Len0 /\ heard' = heard
    BY <1>1, <1>2
  <1> QED
    BY <1>1, <1>2, <1>3, <1>4, <1>5, RowArrives

\* One outbound row is routed.
LEMMA RouteStep ==
    ASSUME MeshKept, NEW s \in Mes!Lanes, NEW g \in MeshGroups, NEW i \in 0 .. Len(mail[s]),
           NEW claimed \in Users \cup {Mes!Nobody}, Mes!routeAgentMessage(s, g, i, claimed)
    PROVE  MeshKept'
  <1> DEFINE to == Mes!resolveTargetSession(s, g, i)
             who == Mes!originOf(s, claimed)
             row == Mes!Row("agent", who, s)
  <1>1. /\ s \in 1 .. Len0 /\ Len0 \in Nat /\ Len0 <= MaxLanes /\ MaxLanes \in Nat
        /\ lanes \in Seq(Lane) /\ heard \in [1 .. MaxLanes -> SUBSET Users] /\ s \in 1 .. MaxLanes
    BY LaneFacts, MeshAssumption DEF MeshKept, MeshTypes
  <1>2. /\ lanes[s].active /\ Mes!Accepts(s, g) /\ to.lane <= MaxLanes
        /\ lanes' = lanes \o to.made
        /\ mail' = Mes!Append1(to.lane, row)
        /\ heard' = [heard EXCEPT ![to.lane] = @ \cup heard[s]]
        /\ UNCHANGED <<edges, orgOf>>
    BY DEF Mes!routeAgentMessage
  <1>3. GoodAnswer(s, to)
    BY <1>1, <1>2, TargetIs
  <1>4. who \in Users \cup {Mes!Nobody} /\ (who # Mes!Nobody => who \in heard[s])
    BY <1>1, OriginIs
  <1> HIDE DEF to, who
  <1>5. row \in Mes!Rows /\ row.who = who /\ row.from = s
    <2>1. s \in 0 .. MaxLanes
      BY <1>1
    <2> QED
      BY <1>4, <2>1, RowIs
  <1> HIDE DEF row
  <1>6. to.lane \in 1 .. MaxLanes
    BY <1>1, <1>2, <1>3 DEF GoodAnswer
  <1>7. /\ heard' \in [1 .. MaxLanes -> SUBSET Users]
        /\ \A x \in 1 .. MaxLanes : heard[x] \subseteq heard'[x]
        /\ heard[s] \subseteq heard'[to.lane]
    BY <1>1, <1>2, <1>6
  <1>8. ASSUME NEW l \in Lane, to.made = <<l>>, to.lane = Len0 + 1,
               \/ l.root = lanes[s].root /\ l.owner = lanes[s].owner
               \/ l.root = Len0 + 1 /\ l.owner = Mes!Nobody
        PROVE  /\ TableGrows(to.lane)
               /\ lanes'[to.lane].owner # Mes!Nobody => lanes'[to.lane].owner = lanes[s].owner
    <2>1. /\ lanes' \in Seq(Lane) /\ Len(lanes') = Len0 + 1
          /\ \A x \in 1 .. Len0 : lanes'[x] = lanes[x]
          /\ lanes'[Len0 + 1] = l
      BY <1>2, <1>8, TableAppended, ZenonT(60)
    <2>2. l.owner # Mes!Nobody => l.owner = lanes[s].owner /\ l.owner \in heard'[to.lane]
      BY <1>1, <1>7, <1>8, LaneFacts DEF LaneKept
    <2> HIDE DEF Lane
    <2> QED
      BY <1>1, <1>6, <1>8, <2>1, <2>2 DEF TableGrows
  <1>9. ASSUME to.made = <<>>, to.lane \in 1 .. Len0, Mes!sameUser(s, to.lane)
        PROVE  /\ TableGrows(to.lane)
               /\ lanes'[to.lane].owner # Mes!Nobody /\ lanes[s].owner # Mes!Nobody
                     => lanes'[to.lane].owner = lanes[s].owner
    <2>1. lanes' = lanes
      BY <1>2, <1>9, TableAppended
    <2> QED
      BY <1>1, <1>9, <2>1 DEF TableGrows, Len0, Mes!sameUser
  <1>10. /\ TableGrows(to.lane)
         /\ lanes'[to.lane].owner # Mes!Nobody /\ lanes[s].owner # Mes!Nobody
               => lanes'[to.lane].owner = lanes[s].owner
    BY <1>3, <1>8, <1>9 DEF GoodAnswer
  <1>11. s \in 0 .. Len0
    BY <1>1
  <1> QED
    BY <1>2, <1>4, <1>5, <1>7, <1>10, <1>11, RowArrives

\* Operators and the sweep: edges, organizations, archived sessions.
LEMMA AdminStep ==
    ASSUME MeshKept,
           \/ \E g \in MeshGroups, o \in Companies : Mes!assignAgentGroupToOrg(g, o)
           \/ \E g, h \in MeshGroups : Mes!deleteDestination(g, h) \/ Mes!createDestination(g, h)
           \/ \E s \in Mes!Lanes : Mes!Archive(s)
    PROVE  MeshKept'
  <1>1. ASSUME NEW g \in MeshGroups, NEW o \in Companies, Mes!assignAgentGroupToOrg(g, o) PROVE MeshKept'
    <2>1. orgOf' \in [MeshGroups -> Companies \cup {Mes!NoOrg}] /\ UNCHANGED <<lanes, mail, edges, heard>>
      BY <1>1 DEF Mes!assignAgentGroupToOrg, MeshKept, MeshTypes
    <2> QED
      BY SMTT(40), <2>1 DEF MeshKept, MeshTypes, LaneKept, MailKept, Len0, Mes!RootMeansOwner, Mes!Lanes
  <1>2. ASSUME NEW g \in MeshGroups, NEW h \in MeshGroups,
               Mes!deleteDestination(g, h) \/ Mes!createDestination(g, h)
        PROVE  MeshKept'
    <2>1. edges' \subseteq MeshGroups \X MeshGroups /\ UNCHANGED <<lanes, mail, orgOf, heard>>
      BY <1>2 DEF Mes!deleteDestination, Mes!createDestination, MeshKept, MeshTypes
    <2> QED
      BY <2>1 DEF MeshKept, MeshTypes, LaneKept, MailKept, Len0, Mes!RootMeansOwner, Mes!Lanes
  <1>3. ASSUME NEW s \in Mes!Lanes, Mes!Archive(s) PROVE MeshKept'
    <2>1. /\ s \in 1 .. Len0 /\ lanes \in Seq(Lane) /\ lanes[s] \in Lane
          /\ lanes' = [lanes EXCEPT ![s].active = FALSE] /\ UNCHANGED <<mail, edges, orgOf, heard>>
      BY <1>3, LaneFacts DEF Mes!Archive, MeshKept, MeshTypes
    <2>2. [lanes[s] EXCEPT !.active = FALSE] \in Lane
      BY <2>1 DEF Lane
    <2>3. lanes' = [lanes EXCEPT ![s] = [lanes[s] EXCEPT !.active = FALSE]]
      BY <2>1
    <2>4. lanes' \in Seq(Lane) /\ Len(lanes') = Len(lanes)
      <3> HIDE DEF Lane
      <3> DEFINE l == [lanes[s] EXCEPT !.active = FALSE]
      <3>1. l \in Lane /\ lanes' = [lanes EXCEPT ![s] = l]
        BY <2>2, <2>3
      <3> HIDE DEF l
      <3>2. lanes \in [1 .. Len(lanes) -> Lane] /\ s \in 1 .. Len(lanes) /\ Len(lanes) \in Nat
        BY <2>1 DEF Len0
      <3>3. lanes' \in [1 .. Len(lanes) -> Lane]
        BY <3>1, <3>2
      <3> QED
        BY <3>2, <3>3
    <2>5. \A x \in 1 .. Len0 : lanes'[x].owner = lanes[x].owner /\ lanes'[x].root = lanes[x].root
      BY <2>1 DEF Lane, Len0
    <2>6. Len0' = Len0
      BY <2>4 DEF Len0
    <2>7. MeshTypes'
      BY <2>1, <2>4, <2>6 DEF MeshKept, MeshTypes
    <2>8. \A x \in 1 .. Len0 : LaneKept(x)'
      BY <2>1, <2>5, <2>6, LaneFacts DEF LaneKept
    <2>9. ASSUME NEW x \in 1 .. MaxLanes, NEW k \in 1 .. Len(mail[x]) PROVE MailKept(x, k)'
      <3>1. MailKept(x, k) /\ Len0 \in Nat
        BY LaneFacts DEF MeshKept
      <3>2. mail[x][k].from # 0 => mail[x][k].from \in 1 .. Len0
        BY <3>1 DEF MailKept
      <3> QED
        BY <2>1, <2>5, <2>6, <3>1, <3>2 DEF MailKept
    <2>10. Mes!RootMeansOwner'
      BY <2>5, <2>6 DEF MeshKept, Mes!RootMeansOwner, Mes!Lanes, Len0
    <2> QED
      BY <2>1, <2>6, <2>7, <2>8, <2>9, <2>10 DEF MeshKept
  <1> QED
    BY <1>1, <1>2, <1>3

\* The invariant speaks of the behaviours about the mesh.
MeshInv == focus = "mesh" => MeshKept

\* Before the first message.
LEMMA MeshInit == ASSUME Init PROVE MeshInv
  <1>1. /\ lanes = <<>> /\ mail = [s \in 1 .. MaxLanes |-> <<>>]
        /\ edges = {e \in MeshGroups \X MeshGroups : e[1] # e[2]}
        /\ orgOf = [g \in MeshGroups |-> Mes!NoOrg] /\ heard = [s \in 1 .. MaxLanes |-> {}]
    BY DEF Init, Mes!Init
  <1>2. Len0 = 0 /\ 1 .. 0 = {} /\ Len(<<>>) = 0
    BY <1>1 DEF Len0
  <1>3. MeshTypes
    BY <1>1, <1>2, MeshAssumption DEF MeshTypes
  <1>4. Mes!RootMeansOwner
    BY <1>1, <1>2 DEF Mes!RootMeansOwner, Mes!Lanes, Len0
  <1>5. \A s \in 1 .. MaxLanes : Len(mail[s]) = 0
    BY <1>1, <1>2
  <1> QED
    BY <1>2, <1>3, <1>4, <1>5 DEF MeshInv, MeshKept

\* Messages between agents never cross from one user's lane to another's,
\* whatever the containers claim, for any groups, users and sessions
\* (agent-route.ts).
THEOREM UsersSafe == Spec => []UsersApart
  <1>1. Init => MeshInv
    BY MeshInit
  <1>2. ASSUME MeshInv, [Next]_vars PROVE MeshInv'
    <2>1. CASE focus = "mesh" /\ Mes!Next /\ UNCHANGED focus
      <3>1. MeshKept
        BY <1>2, <2>1 DEF MeshInv
      <3>2. MeshKept'
        BY <2>1, <3>1, ChannelStep, NotifyStep, RouteStep, AdminStep DEF Mes!Next
      <3> QED
        BY <3>2 DEF MeshInv
    <2>2. CASE UNCHANGED <<focus, mesVars>>
      BY <1>2, <2>2 DEF MeshInv, MeshKept, MeshTypes, LaneKept, MailKept, Len0, mesVars,
         Mes!RootMeansOwner, Mes!Lanes
    <2>3. UNCHANGED focus /\ (~ (focus = "mesh" /\ Mes!Next) => UNCHANGED mesVars)
      BY <1>2 DEF Next, vars
    <2> QED
      BY <2>1, <2>2, <2>3
  <1>3. MeshInv => UsersApart
    <2> SUFFICES ASSUME MeshKept PROVE Mes!UsersApart
      BY DEF MeshInv, UsersApart
    <2>1. \A s \in 1 .. Len0 : \A i \in 1 .. Len(mail[s]) : MailKept(s, i)
      BY LaneFacts DEF MeshKept
    <2>2. Mes!OwnLanes /\ Mes!OriginsSpoke
      BY <2>1, LaneFacts DEF Mes!OwnLanes, Mes!OriginsSpoke, MailKept, Mes!None
    <2>3. \A s \in 1 .. Len0 :
             /\ lanes[s].group \in MeshGroups /\ lanes[s].owner \in Users \cup {Mes!Nobody}
             /\ lanes[s].root \in 1 .. Len0 /\ lanes[s].depth \in 0 .. SpawnCap
             /\ lanes[s].channel \in BOOLEAN /\ lanes[s].active \in BOOLEAN
      BY LaneFacts, LaneFields DEF LaneKept
    <2>4. \A s \in 1 .. MaxLanes : \A i \in 1 .. Len(mail[s]) : mail[s][i] \in Mes!Rows
      BY DEF MeshKept, MeshTypes
    <2>5. Mes!TypeOK
      BY <2>3, <2>4, LaneFacts DEF Mes!TypeOK, MeshKept, MeshTypes, Len0
    <2> QED
      BY <2>2, <2>5 DEF Mes!UsersApart, MeshKept
  <1> QED
    BY <1>1, <1>2, <1>3, PTL DEF Spec

(***************************************************************************)
(* Sends to the Feishu platform: the inductive invariant.                  *)
(***************************************************************************)
SenPart == [is : {"idle", "upload", "image", "text", "question", "plain", "card", "edit", "react", "list", "unreact"},
            n : Nat]
SenEntry == [part : SenPart, thread : BOOLEAN, named : SUBSET Nat]

\* Of the images, exactly the first n are dealt with: sh shows them or nm names
\* them.
ImagesIn(sh, nm, n) ==
  /\ nm \subseteq 1 .. n
  /\ \A i \in 1 .. n : i \in nm \/ \E k \in 1 .. Len(sh) : sh[k].part = Sen!Part("image", i)
  /\ \A k \in 1 .. Len(sh) : sh[k].part.is = "image" => sh[k].part.n \in 1 .. n

\* Of c chunks of text, the first n are shown, in order; the last one has the
\* names.
TextsIn(sh, nm, c, n) ==
  /\ \A k \in 1 .. Len(sh) : sh[k].part.is = "text" =>
        sh[k].part.n \in 1 .. n /\ sh[k].named = (IF sh[k].part.n = c THEN nm ELSE {})
  /\ \A m \in 1 .. n : \E k \in 1 .. Len(sh) : sh[k].part = Sen!Part("text", m)
  /\ \A a, b \in 1 .. Len(sh) : a < b /\ sh[a].part.is = "text" /\ sh[b].part.is = "text"
        => sh[a].part.n < sh[b].part.n

\* A part of the message's kind.
PartOk(j, p, nm) ==
  \/ p = Sen!Idle
  \/ Text[j].kind = "chat" /\ p.is \in {"upload", "image"} /\ p.n \in 1 .. Text[j].images
  \/ Text[j].kind = "chat" /\ p.is = "text" /\ p.n \in 1 .. Sen!chunkCount(j, nm)
  \/ Text[j].kind = "question" /\ p.is \in {"question", "plain"}
  \/ Text[j].kind = "list" /\ p.is \in {"list", "unreact"}
  \/ Text[j].kind \in {"card", "edit", "react"} /\ p.is = Text[j].kind

\* How far an attempt has come: what is before the part it is at has been shown.
Progress(j, p, nm, oc, sh) ==
  Text[j].kind = "chat" =>
    /\ p.is \in {"upload", "image"} => ImagesIn(sh, nm, p.n - 1) /\ TextsIn(sh, nm, Sen!chunkCount(j, nm), 0)
    /\ p.is = "text" => ImagesIn(sh, nm, Text[j].images) /\ TextsIn(sh, nm, Sen!chunkCount(j, nm), p.n - 1)
    /\ oc = "ok" => /\ ImagesIn(sh, nm, Text[j].images)
                    /\ TextsIn(sh, nm, Sen!chunkCount(j, nm), Sen!chunkCount(j, nm))

\* No card beside its plain text, no image that is named.
Apart(p, nm, sh) ==
  /\ \A a, b \in 1 .. Len(sh) : ~ (sh[a].part.is = "question" /\ sh[b].part.is = "plain")
  /\ p.is = "plain" => \A a \in 1 .. Len(sh) : sh[a].part.is # "question"
  /\ \A k \in 1 .. Len(sh) : sh[k].part.is = "image" => sh[k].part.n \notin nm

\* The attempt tr at job j, at part p, with nm to name, sh shown and cuts the
\* attempts in which an answer was lost.
AttemptOk(j, p, nm, oc, tr, sh, cuts) ==
  /\ PartOk(j, p, nm)
  /\ oc = "ok" => p = Sen!Idle
  /\ Progress(j, p, nm, oc, sh)
  /\ \A k \in 1 .. Len(sh) : sh[k].named \subseteq nm /\ (sh[k].part.is # "text" => sh[k].named = {})
  /\ p.is = "question" => sh = <<>>
  /\ <<j, tr>> \notin cuts => Apart(p, nm, sh)

\* What one call adds to the chat.
ShownAfter(p, sh, e) == IF Sen!Shows(p) THEN Append(sh, e) ELSE sh
EntryOk(j, p, nm, e) ==
  /\ e \in SenEntry /\ e.part = p
  /\ e.named = (IF p.is = "text" /\ p.n = Sen!chunkCount(j, nm) THEN nm ELSE {})

\* The bounds of the constants, once.
LEMMA SenConsts ==
    /\ MaxTries \in Nat /\ PageBudget \in Nat \ {0} /\ GroupPages \in Nat
    /\ \A j \in Jobs : /\ Text[j].kind \in {"chat", "question", "card", "edit", "react", "list"}
                       /\ Text[j].images \in Nat /\ Text[j].chunks \in Nat
                       /\ \A nm : Sen!chunkCount(j, nm) \in Nat
                       /\ \A nm : nm # {} => Sen!chunkCount(j, nm) > 0
  BY SendsAssumption DEF Sen!chunkCount

\* One message more.
LEMMA OneShownMore ==
    ASSUME NEW sh \in Seq(SenEntry), NEW e \in SenEntry
    PROVE  /\ Append(sh, e) \in Seq(SenEntry) /\ Len(Append(sh, e)) = Len(sh) + 1 /\ Len(sh) \in Nat
           /\ Append(sh, e)[Len(sh) + 1] = e
           /\ \A k \in 1 .. Len(sh) : Append(sh, e)[k] = sh[k]
           /\ \A k \in 1 .. (Len(sh) + 1) : k \in 1 .. Len(sh) \/ k = Len(sh) + 1
  OBVIOUS

\* What was there is there, and the new message comes last.
LEMMA GrownIs ==
    ASSUME NEW sh \in Seq(SenEntry), NEW e \in SenEntry, NEW k \in 1 .. Len(Append(sh, e))
    PROVE  \/ k \in 1 .. Len(sh) /\ Append(sh, e)[k] = sh[k]
           \/ Append(sh, e)[k] = e
  BY OneShownMore

\* Image n is shown ...
LEMMA ImageShown ==
    ASSUME NEW sh \in Seq(SenEntry), NEW e \in SenEntry, NEW nm, NEW n \in Nat \ {0}, ImagesIn(sh, nm, n - 1),
           e.part.is = "image", e.part.n = n
    PROVE  ImagesIn(Append(sh, e), nm, n)
  <1> DEFINE s == Append(sh, e)
             l == Len(sh) + 1
  <1>1. /\ Len(s) = l /\ Len(sh) \in Nat /\ s[l] = e /\ \A k \in 1 .. Len(sh) : s[k] = sh[k]
        /\ \A k \in 1 .. l : k \in 1 .. Len(sh) \/ k = l
    BY OneShownMore
  <1>2. e.part = Sen!Part("image", n)
    BY DEF SenEntry, SenPart, Sen!Part
  <1> HIDE DEF s
  <1>3. nm \subseteq 1 .. n
    BY DEF ImagesIn
  <1>4. \A i \in 1 .. n : i \in nm \/ \E k \in 1 .. Len(s) : s[k].part = Sen!Part("image", i)
    <2> TAKE i \in 1 .. n
    <2>1. CASE i = n
      BY <1>1, <1>2, <2>1
    <2>2. CASE i # n
      <3>1. i \in nm \/ \E k \in 1 .. Len(sh) : sh[k].part = Sen!Part("image", i)
        BY <2>2 DEF ImagesIn
      <3> QED
        BY <1>1, <3>1
    <2> QED
      BY <2>1, <2>2
  <1>5. \A k \in 1 .. Len(s) : s[k].part.is = "image" => s[k].part.n \in 1 .. n
    BY <1>1 DEF ImagesIn
  <1> QED
    BY <1>3, <1>4, <1>5 DEF ImagesIn, s

\* ... or named.
LEMMA ImageNamed ==
    ASSUME NEW sh, NEW nm, NEW n \in Nat \ {0}, ImagesIn(sh, nm, n - 1) \/ ImagesIn(sh, nm, n)
    PROVE  ImagesIn(sh, nm \cup {n}, n)
  BY DEF ImagesIn

\* Another message leaves the images as they are.
LEMMA ImagesStay ==
    ASSUME NEW sh \in Seq(SenEntry), NEW e \in SenEntry, NEW nm, NEW n \in Nat, ImagesIn(sh, nm, n),
           e.part.is # "image"
    PROVE  ImagesIn(Append(sh, e), nm, n)
  <1> DEFINE s == Append(sh, e)
             l == Len(sh) + 1
  <1>1. /\ Len(s) = l /\ Len(sh) \in Nat /\ s[l] = e /\ \A k \in 1 .. Len(sh) : s[k] = sh[k] /\ k \in 1 .. Len(s)
        /\ \A k \in 1 .. l : k \in 1 .. Len(sh) \/ k = l
    BY OneShownMore
  <1> HIDE DEF s
  <1>2. nm \subseteq 1 .. n
    BY DEF ImagesIn
  <1>3. \A i \in 1 .. n : i \in nm \/ \E k \in 1 .. Len(s) : s[k].part = Sen!Part("image", i)
    BY <1>1 DEF ImagesIn
  <1>4. \A k \in 1 .. Len(s) : s[k].part.is = "image" => s[k].part.n \in 1 .. n
    BY <1>1 DEF ImagesIn
  <1> QED
    BY <1>2, <1>3, <1>4 DEF ImagesIn, s

\* Chunk n is shown.
LEMMA TextShown ==
    ASSUME NEW sh \in Seq(SenEntry), NEW e \in SenEntry, NEW nm, NEW c \in Nat, NEW n \in Nat \ {0},
           TextsIn(sh, nm, c, n - 1), e.part.is = "text", e.part.n = n, e.named = (IF n = c THEN nm ELSE {})
    PROVE  TextsIn(Append(sh, e), nm, c, n)
  <1> DEFINE s == Append(sh, e)
             l == Len(sh) + 1
  <1>1. /\ Len(s) = l /\ Len(sh) \in Nat /\ s[l] = e /\ \A k \in 1 .. Len(sh) : s[k] = sh[k] /\ k \in 1 .. Len(s)
        /\ \A k \in 1 .. l : k \in 1 .. Len(sh) \/ k = l
    BY OneShownMore
  <1>2. e.part = Sen!Part("text", n)
    BY DEF SenEntry, SenPart, Sen!Part
  <1> HIDE DEF s
  <1>3. \A k \in 1 .. Len(s) : s[k].part.is = "text" =>
           s[k].part.n \in 1 .. n /\ s[k].named = (IF s[k].part.n = c THEN nm ELSE {})
    <2> TAKE k \in 1 .. Len(s)
    <2>1. CASE k = l
      <3>1. s[k] = e /\ n \in 1 .. n
        BY <1>1, <2>1
      <3> QED
        BY <3>1
    <2>2. CASE k \in 1 .. Len(sh)
      <3>1. s[k] = sh[k]
        BY <1>1, <2>2
      <3>2. sh[k].part.is = "text" =>
              sh[k].part.n \in 1 .. (n - 1) /\ sh[k].named = (IF sh[k].part.n = c THEN nm ELSE {})
        BY <2>2 DEF TextsIn
      <3>3. \A x \in 1 .. (n - 1) : x \in 1 .. n
        OBVIOUS
      <3> QED
        BY <3>1, <3>2, <3>3
    <2> QED
      BY <1>1, <2>1, <2>2
  <1>4. \A m \in 1 .. n : \E k \in 1 .. Len(s) : s[k].part = Sen!Part("text", m)
    <2> TAKE m \in 1 .. n
    <2>1. CASE m = n
      BY <1>1, <1>2, <2>1
    <2>2. CASE m # n
      <3>1. \E k \in 1 .. Len(sh) : sh[k].part = Sen!Part("text", m)
        BY <2>2 DEF TextsIn
      <3> QED
        BY <1>1, <3>1
    <2> QED
      BY <2>1, <2>2
  <1>5. \A a, b \in 1 .. Len(s) : a < b /\ s[a].part.is = "text" /\ s[b].part.is = "text"
           => s[a].part.n < s[b].part.n
    <2> SUFFICES ASSUME NEW a \in 1 .. Len(s), NEW b \in 1 .. Len(s), a < b, s[a].part.is = "text",
                        s[b].part.is = "text"
                 PROVE  s[a].part.n < s[b].part.n
      OBVIOUS
    <2>1. a \in 1 .. Len(sh) /\ s[a] = sh[a]
      BY <1>1
    <2>2. CASE b = l
      <3>1. sh[a].part.n \in 1 .. (n - 1)
        BY <2>1 DEF TextsIn
      <3> QED
        BY <1>1, <2>1, <2>2, <3>1
    <2>3. CASE b # l
      BY <1>1, <2>1, <2>3 DEF TextsIn
    <2> QED
      BY <2>2, <2>3
  <1> QED
    BY <1>3, <1>4, <1>5 DEF TextsIn, s

\* Before the first chunk the names are free.
LEMMA NoTexts ==
    ASSUME NEW sh, NEW nm, NEW c, NEW nm2, NEW chunks, TextsIn(sh, nm, c, 0)
    PROVE  TextsIn(sh, nm2, chunks, 0)
  BY DEF TextsIn

\* A message that is not text leaves it at that.
LEMMA TextsStay ==
    ASSUME NEW sh \in Seq(SenEntry), NEW e \in SenEntry, NEW nm, NEW c, TextsIn(sh, nm, c, 0), e.part.is # "text"
    PROVE  TextsIn(Append(sh, e), nm, c, 0)
  <1>1. \A k \in 1 .. Len(sh) : sh[k].part.is # "text"
    BY DEF TextsIn
  <1>2. \A k \in 1 .. Len(Append(sh, e)) : Append(sh, e)[k].part.is # "text"
    BY <1>1, OneShownMore
  <1> QED
    BY <1>2 DEF TextsIn

\* A call succeeds: the attempt goes on to the next part, or is done.
LEMMA PartShown ==
    ASSUME NEW j \in Jobs, NEW p \in SenPart, p.is # "idle", NEW nm \in SUBSET Nat, NEW oc, NEW tr,
           NEW sh \in Seq(SenEntry), NEW cuts, AttemptOk(j, p, nm, oc, tr, sh, cuts), NEW e, EntryOk(j, p, nm, e),
           NEW q, q = Sen!partAfter(j, p, nm), NEW sh2, sh2 = ShownAfter(p, sh, e)
    PROVE  /\ AttemptOk(j, q, nm, IF q = Sen!Idle THEN "ok" ELSE "none", tr, sh2, cuts)
           /\ q \in SenPart
  <1> DEFINE c == Sen!chunkCount(j, nm)
             oc2 == IF q = Sen!Idle THEN "ok" ELSE "none"
  <1>1. /\ c \in Nat /\ Text[j].images \in Nat /\ e \in SenEntry /\ e.part = p /\ PartOk(j, p, nm) /\ p # Sen!Idle
        /\ p.is \in {"upload", "image", "text", "question", "plain", "card", "edit", "react", "list", "unreact"}
        /\ p.n \in Nat
    BY SenConsts DEF EntryOk, AttemptOk, SenPart, Sen!Idle
  <1>2. /\ p.is = "upload" => q.is = "image" /\ q.n = p.n
        /\ p.is = "image" /\ p.n < Text[j].images => q.is = "upload" /\ q.n = p.n + 1
        /\ p.is = "image" /\ p.n = Text[j].images /\ c > 0 => q.is = "text" /\ q.n = 1
        /\ p.is = "image" /\ p.n = Text[j].images /\ c = 0 => q = Sen!Idle
        /\ p.is = "text" /\ p.n < c => q.is = "text" /\ q.n = p.n + 1
        /\ p.is = "text" /\ p.n = c => q = Sen!Idle
        /\ p.is = "list" => q.is = "unreact" /\ q.n = 1
        /\ p.is \notin {"upload", "image", "text", "list"} => q = Sen!Idle
    <2> HIDE DEF c
    <2> QED
      BY <1>1 DEF Sen!partAfter, Sen!Part, Sen!Idle, c
  <1>3. q \in SenPart
    BY <1>1 DEF Sen!partAfter, Sen!Part, Sen!Idle, SenPart
  <1>4. PartOk(j, q, nm) /\ (Text[j].kind = "chat" => p.is \in {"upload", "image", "text"})
    BY <1>1, <1>2 DEF PartOk, Sen!Idle
  <1>5. sh2 \in Seq(SenEntry) /\ (sh2 = sh \/ (sh2 = Append(sh, e) /\ Sen!Shows(p)))
    BY <1>1, OneShownMore DEF ShownAfter
  <1>6. \A k \in 1 .. Len(sh2) : \/ k \in 1 .. Len(sh) /\ sh2[k] = sh[k]
                                 \/ sh2[k] = e /\ Sen!Shows(p)
    <2>1. CASE sh2 = sh
      BY <2>1
    <2>2. CASE sh2 = Append(sh, e) /\ Sen!Shows(p)
      BY <1>1, <2>2, GrownIs
    <2> QED
      BY <1>5, <2>1, <2>2
  <1>7. Progress(j, q, nm, oc2, sh2)
    <2> SUFFICES ASSUME Text[j].kind = "chat"
                 PROVE  /\ q.is \in {"upload", "image"} => ImagesIn(sh2, nm, q.n - 1) /\ TextsIn(sh2, nm, c, 0)
                        /\ q.is = "text" => ImagesIn(sh2, nm, Text[j].images) /\ TextsIn(sh2, nm, c, q.n - 1)
                        /\ q = Sen!Idle => ImagesIn(sh2, nm, Text[j].images) /\ TextsIn(sh2, nm, c, c)
      BY DEF Progress
    <2>1. CASE p.is = "upload"
      <3>1. ImagesIn(sh, nm, p.n - 1) /\ TextsIn(sh, nm, c, 0)
        BY <2>1 DEF AttemptOk, Progress
      <3>2. sh2 = sh /\ q.is = "image" /\ q.n = p.n
        BY <1>2, <2>1 DEF ShownAfter, Sen!Shows
      <3> QED
        BY <3>1, <3>2 DEF Sen!Idle
    <2>2. CASE p.is = "image"
      <3>1. ImagesIn(sh, nm, p.n - 1) /\ TextsIn(sh, nm, c, 0)
        BY <2>2 DEF AttemptOk, Progress
      <3>2. sh2 = Append(sh, e) /\ p.n \in 1 .. Text[j].images
        BY <1>1, <2>2 DEF ShownAfter, Sen!Shows, PartOk
      <3>3. ImagesIn(sh2, nm, p.n)
        BY <1>1, <2>2, <3>1, <3>2, ImageShown
      <3>4. TextsIn(sh2, nm, c, 0)
        BY <1>1, <2>2, <3>1, <3>2, TextsStay
      <3>5. CASE p.n < Text[j].images
        <4>1. q.is = "upload" /\ q.n - 1 = p.n
          BY <1>1, <1>2, <2>2, <3>5
        <4> QED
          BY <3>3, <3>4, <4>1 DEF Sen!Idle
      <3>6. CASE p.n = Text[j].images /\ c > 0
        <4>1. q.is = "text" /\ q.n - 1 = 0
          BY <1>2, <2>2, <3>6
        <4> QED
          BY <3>3, <3>4, <3>6, <4>1 DEF Sen!Idle
      <3>7. CASE p.n = Text[j].images /\ c = 0
        <4>1. q.is = "idle"
          BY <1>2, <2>2, <3>7 DEF Sen!Idle
        <4> HIDE DEF c
        <4> QED
          BY <3>3, <3>4, <3>7, <4>1
      <3> QED
        BY <1>1, <3>2, <3>5, <3>6, <3>7
    <2>3. CASE p.is = "text"
      <3>1. ImagesIn(sh, nm, Text[j].images) /\ TextsIn(sh, nm, c, p.n - 1)
        BY <2>3 DEF AttemptOk, Progress
      <3>2. sh2 = Append(sh, e) /\ p.n \in 1 .. c
        BY <1>1, <2>3 DEF ShownAfter, Sen!Shows, PartOk, Sen!Idle
      <3>3. e.named = (IF p.n = c THEN nm ELSE {})
        BY <2>3 DEF EntryOk
      <3> HIDE DEF c
      <3>4. ImagesIn(sh2, nm, Text[j].images)
        BY <1>1, <2>3, <3>1, <3>2, ImagesStay
      <3>5. TextsIn(sh2, nm, c, p.n)
        <4>1. p.n \in Nat \ {0} /\ c \in Nat /\ e \in SenEntry /\ e.part.is = "text" /\ e.part.n = p.n
          BY <1>1, <2>3, <3>2
        <4>2. TextsIn(Append(sh, e), nm, c, p.n)
          BY <3>1, <3>3, <4>1, TextShown
        <4> QED
          BY <3>2, <4>2
      <3>6. CASE p.n < c
        <4>1. q.is = "text" /\ q.n - 1 = p.n
          BY <1>1, <1>2, <2>3, <3>6
        <4> QED
          BY <3>4, <3>5, <4>1 DEF Sen!Idle
      <3>7. CASE p.n = c
        <4>1. q.is = "idle"
          BY <1>2, <2>3, <3>7 DEF Sen!Idle
        <4> QED
          BY <3>4, <3>5, <3>7, <4>1
      <3> QED
        BY <1>1, <3>2, <3>6, <3>7
    <2> QED
      BY <1>4, <2>1, <2>2, <2>3
  <1>8. \A k \in 1 .. Len(sh2) : sh2[k].named \subseteq nm /\ (sh2[k].part.is # "text" => sh2[k].named = {})
    <2>1. e.named \subseteq nm /\ (e.part.is # "text" => e.named = {})
      BY <1>1 DEF EntryOk
    <2> QED
      BY <1>6, <2>1 DEF AttemptOk
  <1>9. q.is # "question" /\ q.is # "plain"
    BY <1>1, <1>2 DEF Sen!Idle, PartOk
  <1>10. <<j, tr>> \notin cuts => Apart(q, nm, sh2)
    <2> SUFFICES ASSUME Apart(p, nm, sh) PROVE Apart(q, nm, sh2)
      BY DEF AttemptOk
    <2>1. \A a, b \in 1 .. Len(sh2) : ~ (sh2[a].part.is = "question" /\ sh2[b].part.is = "plain")
      <3>1. p.is = "question" => sh = <<>> /\ Len(sh) = 0
        BY DEF AttemptOk
      <3>2. e.part.is = "plain" => \A a \in 1 .. Len(sh) : sh[a].part.is # "question"
        BY <1>1 DEF Apart
      <3>3. \A a, b \in 1 .. Len(sh) : ~ (sh[a].part.is = "question" /\ sh[b].part.is = "plain")
        BY DEF Apart
      <3> QED
        BY <1>1, <1>6, <3>1, <3>2, <3>3
    <2>2. \A k \in 1 .. Len(sh2) : sh2[k].part.is = "image" => sh2[k].part.n \notin nm
      <3>1. p.is = "image" => p.n \notin nm
        <4> SUFFICES ASSUME p.is = "image" PROVE p.n \notin nm
          OBVIOUS
        <4>1. ImagesIn(sh, nm, p.n - 1)
          BY <1>1 DEF AttemptOk, Progress, PartOk
        <4> QED
          BY <1>1, <4>1 DEF ImagesIn
      <3> QED
        BY <1>1, <1>6, <3>1 DEF Apart
    <2> QED
      BY <1>9, <2>1, <2>2 DEF Apart
  <1> HIDE DEF c
  <1> QED
    BY <1>3, <1>4, <1>7, <1>8, <1>9, <1>10 DEF AttemptOk

\* Where a call that throws leaves its attempt.
ThrownTo(j, p, nm, oc, q, nm2, oc2) ==
  /\ p.is \in {"upload", "image"} =>
       nm2 = nm \cup {p.n} /\ q = Sen!partAfter(j, Sen!Part("image", p.n), nm2)
  /\ p.is \notin {"upload", "image"} => nm2 = nm
  /\ p.is = "question" => q = Sen!Part("plain", 1)
  /\ p.is \notin {"upload", "image", "question"} => q = Sen!Idle
  /\ q # Sen!Idle => oc2 = oc
  /\ q = Sen!Idle => oc2 = (IF p.is \in {"upload", "image", "question"} THEN "ok" ELSE "failed")

\* The attempt before it, and what it left in the chat although it threw.
BeforeThrow(j, p, nm, oc, tr, sh, cuts, sh2, cuts2) ==
  /\ p \in SenPart /\ p.is # "idle" /\ nm \in SUBSET Nat /\ oc # "ok" /\ sh \in Seq(SenEntry)
  /\ AttemptOk(j, p, nm, oc, tr, sh, cuts) /\ cuts \subseteq cuts2
  /\ \E e : /\ EntryOk(j, p, nm, e)
            /\ sh2 = sh \/ (sh2 = ShownAfter(p, sh, e) /\ <<j, tr>> \in cuts2)

\* A call throws, whether it was carried out or not: an image is named instead, a
\* card becomes plain text, anything else ends the attempt.
LEMMA PartThrown ==
    ASSUME NEW j \in Jobs, NEW p, NEW nm, NEW oc, NEW tr, NEW sh, NEW cuts, NEW sh2, NEW cuts2, NEW q, NEW nm2,
           NEW oc2, BeforeThrow(j, p, nm, oc, tr, sh, cuts, sh2, cuts2), ThrownTo(j, p, nm, oc, q, nm2, oc2)
    PROVE  /\ AttemptOk(j, q, nm2, oc2, tr, sh2, cuts2)
           /\ q \in SenPart /\ nm2 \in SUBSET Nat /\ sh2 \in Seq(SenEntry)
           /\ nm \subseteq 1 .. Text[j].images => nm2 \subseteq 1 .. Text[j].images
  <1> USE DEF ThrownTo
  <1>0. /\ p \in SenPart /\ p.is # "idle" /\ nm \in SUBSET Nat /\ oc # "ok" /\ sh \in Seq(SenEntry)
        /\ AttemptOk(j, p, nm, oc, tr, sh, cuts) /\ cuts \subseteq cuts2
    BY DEF BeforeThrow
  <1> USE <1>0
  <1>a. PICK e : EntryOk(j, p, nm, e) /\ (sh2 = sh \/ (sh2 = ShownAfter(p, sh, e) /\ <<j, tr>> \in cuts2))
    BY DEF BeforeThrow
  <1> USE <1>a
  <1> DEFINE chunks == Sen!chunkCount(j, nm2)
  <1>1. /\ chunks \in Nat /\ Text[j].images \in Nat /\ e \in SenEntry /\ e.part = p /\ PartOk(j, p, nm) /\ p # Sen!Idle
        /\ p.is \in {"upload", "image", "text", "question", "plain", "card", "edit", "react", "list", "unreact"}
        /\ p.n \in Nat /\ (nm2 # {} => chunks > 0)
    BY SenConsts DEF EntryOk, AttemptOk, SenPart, Sen!Idle
  <1>2. sh2 \in Seq(SenEntry) /\ (sh2 = sh \/ (sh2 = Append(sh, e) /\ Sen!Shows(p) /\ <<j, tr>> \in cuts2))
    <2>1. Append(sh, e) \in Seq(SenEntry)
      BY <1>1, OneShownMore
    <2>2. CASE sh2 = sh
      BY <2>2
    <2>3. CASE sh2 = ShownAfter(p, sh, e) /\ <<j, tr>> \in cuts2
      <3>1. CASE Sen!Shows(p)
        BY <2>1, <2>3, <3>1 DEF ShownAfter
      <3>2. CASE ~ Sen!Shows(p)
        BY <2>3, <3>2 DEF ShownAfter
      <3> QED
        BY <3>1, <3>2
    <2> QED
      BY <2>2, <2>3
  <1>3. \A k \in 1 .. Len(sh2) : \/ k \in 1 .. Len(sh) /\ sh2[k] = sh[k]
                                 \/ sh2[k] = e /\ Sen!Shows(p)
    <2>1. CASE sh2 = sh
      BY <2>1
    <2>2. CASE sh2 = Append(sh, e) /\ Sen!Shows(p)
      BY <1>1, <2>2, GrownIs
    <2> QED
      BY <1>2, <2>1, <2>2
  <1>4. CASE p.is \in {"upload", "image"}
    <2>1. /\ Text[j].kind = "chat" /\ p.n \in 1 .. Text[j].images /\ nm2 = nm \cup {p.n} /\ chunks > 0
      BY <1>1, <1>4 DEF PartOk
    <2>2. /\ p.n < Text[j].images => q.is = "upload" /\ q.n = p.n + 1
          /\ p.n = Text[j].images => q.is = "text" /\ q.n = 1
          /\ q \in SenPart
      <3> HIDE DEF chunks
      <3> QED
        BY <1>1, <1>4, <2>1 DEF Sen!partAfter, Sen!Part, Sen!Idle, SenPart, chunks
    <2>3. q.is \in {"upload", "text"} /\ q # Sen!Idle /\ oc2 # "ok"
      BY <1>1, <2>1, <2>2 DEF Sen!Idle
    <2>4. ImagesIn(sh, nm, p.n - 1) /\ TextsIn(sh, nm, Sen!chunkCount(j, nm), 0)
      BY <1>4, <2>1 DEF AttemptOk, Progress
    <2>5. ImagesIn(sh2, nm2, p.n)
      <3>1. CASE sh2 = sh
        <4>1. p.n \in Nat \ {0} /\ ImagesIn(sh2, nm, p.n - 1)
          BY <2>1, <2>4, <3>1
        <4>2. ImagesIn(sh2, nm \cup {p.n}, p.n)
          BY <4>1, ImageNamed
        <4> QED
          BY <2>1, <4>2
      <3>2. CASE sh2 = Append(sh, e) /\ Sen!Shows(p)
        <4>1. e.part.is = "image" /\ e.part.n = p.n
          BY <1>1, <1>4, <3>2 DEF Sen!Shows
        <4>2. ImagesIn(sh2, nm, p.n)
          BY <1>1, <2>1, <2>4, <3>2, <4>1, ImageShown
        <4> QED
          BY <2>1, <4>2, ImageNamed
      <3> QED
        BY <1>2, <3>1, <3>2
    <2>6. TextsIn(sh2, nm2, chunks, 0)
      <3>1. TextsIn(sh, nm2, chunks, 0)
        <4> HIDE DEF chunks
        <4> QED
          BY <2>4, NoTexts
      <3>2. CASE sh2 = sh
        BY <3>1, <3>2
      <3>3. CASE sh2 = Append(sh, e)
        BY <1>1, <1>4, <3>1, <3>3, TextsStay
      <3> QED
        BY <1>2, <3>2, <3>3
    <2> HIDE DEF chunks
    <2>7. PartOk(j, q, nm2)
      BY <1>1, <2>1, <2>2 DEF PartOk, chunks
    <2>8. Progress(j, q, nm2, oc2, sh2)
      <3>1. CASE p.n < Text[j].images
        <4>1. q.is = "upload" /\ q.n - 1 = p.n
          BY <1>1, <2>2, <3>1
        <4> QED
          BY <2>3, <2>5, <2>6, <4>1 DEF Progress, chunks
      <3>2. CASE p.n = Text[j].images
        <4>1. q.is = "text" /\ q.n - 1 = 0
          BY <2>2, <3>2
        <4> QED
          BY <2>3, <2>5, <2>6, <3>2, <4>1 DEF Progress, chunks
      <3> QED
        BY <1>1, <2>1, <3>1, <3>2
    <2>9. \A k \in 1 .. Len(sh2) : sh2[k].named \subseteq nm2 /\ (sh2[k].part.is # "text" => sh2[k].named = {})
      <3>1. e.named \subseteq nm /\ (e.part.is # "text" => e.named = {})
        BY <1>1 DEF EntryOk
      <3> QED
        BY <1>3, <2>1, <3>1 DEF AttemptOk
    <2>10. <<j, tr>> \notin cuts2 => Apart(q, nm2, sh2)
      <3> SUFFICES ASSUME <<j, tr>> \notin cuts2 PROVE Apart(q, nm2, sh2)
        OBVIOUS
      <3>1. sh2 = sh /\ Apart(p, nm, sh)
        BY <1>2 DEF AttemptOk
      <3>2. \A k \in 1 .. Len(sh) : sh[k].part.is = "image" => sh[k].part.n # p.n
        BY <1>1, <2>4 DEF ImagesIn
      <3> QED
        BY <2>1, <2>3, <3>1, <3>2 DEF Apart
    <2> QED
      BY <1>1, <1>2, <2>1, <2>2, <2>3, <2>7, <2>8, <2>9, <2>10 DEF AttemptOk
  <1>5. CASE p.is \notin {"upload", "image"}
    <2>1. nm2 = nm /\ q \in SenPart /\ q.is \in {"plain", "idle"} /\ (q.is = "plain" => Text[j].kind = "question")
      BY <1>1, <1>5 DEF Sen!Part, Sen!Idle, SenPart, PartOk
    <2>2. PartOk(j, q, nm2)
      BY <1>1, <1>5, <2>1 DEF PartOk, Sen!Part
    <2>3. oc2 # "ok"
      BY <1>5 DEF Sen!Part, Sen!Idle
    <2>4. Progress(j, q, nm2, oc2, sh2)
      BY <2>1, <2>3 DEF Progress
    <2>5. \A k \in 1 .. Len(sh2) : sh2[k].named \subseteq nm2 /\ (sh2[k].part.is # "text" => sh2[k].named = {})
      <3>1. e.named \subseteq nm /\ (e.part.is # "text" => e.named = {})
        BY <1>1 DEF EntryOk
      <3> QED
        BY <1>3, <2>1, <3>1 DEF AttemptOk
    <2>6. <<j, tr>> \notin cuts2 => Apart(q, nm2, sh2)
      <3> SUFFICES ASSUME <<j, tr>> \notin cuts2 PROVE Apart(q, nm2, sh2)
        OBVIOUS
      <3>1. sh2 = sh /\ Apart(p, nm, sh)
        BY <1>2 DEF AttemptOk
      <3>2. q.is = "plain" => sh = <<>>
        BY <1>1, <1>5 DEF AttemptOk, Sen!Idle
      <3> QED
        BY <2>1, <3>1, <3>2 DEF Apart
    <2> QED
      BY <1>2, <2>1, <2>2, <2>3, <2>4, <2>5, <2>6 DEF AttemptOk
  <1> QED
    BY <1>4, <1>5

(***************************************************************************)
(* The state.                                                              *)
(***************************************************************************)
SenTyped ==
  /\ Sen!TypeOK
  /\ part \in [Jobs -> SenPart] /\ stage \in [Jobs -> Sen!Stages] /\ names \in [Jobs -> SUBSET Nat]
  /\ firstId \in [Jobs -> BOOLEAN] /\ outcome \in [Jobs -> {"none", "ok", "failed"}]
  /\ tries \in [Jobs -> 0 .. MaxTries] /\ display \in [Jobs -> [1 .. MaxTries -> Seq(SenEntry)]]

\* An attempt that is over showed nothing in two forms.
OnlyOnce(sh) ==
  /\ ~ \E a, b \in DOMAIN sh : sh[a].part.is = "question" /\ sh[b].part.is = "plain"
  /\ ~ \E a, b \in DOMAIN sh : sh[a].part.is = "image" /\ sh[a].part.n \in sh[b].named

JobKept(j) ==
  /\ tries[j] = 0 => part[j] = Sen!Idle /\ outcome[j] = "none"
  /\ tries[j] >= 1 => AttemptOk(j, part[j], names[j], outcome[j], tries[j], display[j][tries[j]], cutCalls)
  /\ \A t \in 1 .. MaxTries : t > tries[j] => display[j][t] = <<>>
  /\ \A t \in 1 .. MaxTries : t < tries[j] /\ <<j, t>> \notin cutCalls => OnlyOnce(display[j][t])

CheckKept == Sen!NoMeansAbsent /\ (page > 0 => MemberPage \notin 1 .. (page - 1))

SenKept == SenTyped /\ Sen!OneRefresh /\ CheckKept /\ \A j \in Jobs : JobKept(j)
SenInv == focus = "sends" => SenKept

\* An attempt whose answers all came showed nothing in two forms.
LEMMA OnceIfApart ==
    ASSUME NEW j, NEW p, NEW nm, NEW oc, NEW tr, NEW sh \in Seq(SenEntry), NEW cuts,
           AttemptOk(j, p, nm, oc, tr, sh, cuts), <<j, tr>> \notin cuts
    PROVE  OnlyOnce(sh)
  <1>1. DOMAIN sh = 1 .. Len(sh)
    OBVIOUS
  <1>2. /\ Apart(p, nm, sh)
        /\ \A k \in 1 .. Len(sh) : sh[k].named \subseteq nm
    BY DEF AttemptOk
  <1> QED
    BY <1>1, <1>2 DEF Apart, OnlyOnce

\* A job another one's step does not touch.
LEMMA JobStays ==
    ASSUME NEW x \in Jobs, JobKept(x), part'[x] = part[x], names'[x] = names[x], outcome'[x] = outcome[x],
           tries'[x] = tries[x], display'[x] = display[x], \A t : <<x, t>> \in cutCalls' <=> <<x, t>> \in cutCalls
    PROVE  JobKept(x)'
  <1>1. tries[x] >= 1 =>
          AttemptOk(x, part'[x], names'[x], outcome'[x], tries'[x], display'[x][tries'[x]], cutCalls')
    BY DEF JobKept, AttemptOk
  <1> QED
    BY <1>1 DEF JobKept

\* A job whose attempt goes on.
LEMMA JobMoves ==
    ASSUME SenTyped, NEW j \in Jobs, JobKept(j), tries[j] >= 1, tries'[j] = tries[j], cutCalls \subseteq cutCalls',
           \A t \in 1 .. MaxTries : t # tries[j] => display'[j][t] = display[j][t],
           AttemptOk(j, part'[j], names'[j], outcome'[j], tries[j], display'[j][tries[j]], cutCalls')
    PROVE  JobKept(j)'
  <1>1. tries[j] \in 1 .. MaxTries
    BY SenConsts DEF SenTyped
  <1>2. \A t \in 1 .. MaxTries : t > tries[j] => display'[j][t] = <<>>
    BY <1>1 DEF JobKept
  <1>3. \A t \in 1 .. MaxTries : t < tries[j] /\ <<j, t>> \notin cutCalls' => OnlyOnce(display'[j][t])
    BY <1>1 DEF JobKept
  <1> QED
    BY <1>1, <1>2, <1>3 DEF JobKept

\* What a call leaves in the chat.
LEMMA EntryIs ==
    ASSUME SenTyped, NEW j \in Jobs, NEW th \in BOOLEAN
    PROVE  EntryOk(j, part[j], names[j], Sen!Entry(j, th))
  <1>1. part[j] \in SenPart /\ names[j] \in SUBSET Nat
    BY DEF SenTyped
  <1>2. Sen!Entry(j, th) \in SenEntry
    BY <1>1 DEF Sen!Entry, SenEntry
  <1> QED
    BY <1>2 DEF EntryOk, Sen!Entry

\* How the chat grows by it.
LEMMA ChatGrows ==
    ASSUME SenTyped, NEW j \in Jobs, tries[j] >= 1, NEW th \in BOOLEAN, display' = Sen!Displayed(j, th)
    PROVE  /\ \A x \in Jobs : x # j => display'[x] = display[x]
           /\ \A t \in 1 .. MaxTries : t # tries[j] => display'[j][t] = display[j][t]
           /\ display'[j][tries[j]] = ShownAfter(part[j], display[j][tries[j]], Sen!Entry(j, th))
           /\ display' \in [Jobs -> [1 .. MaxTries -> Seq(SenEntry)]]
  <1>1. tries[j] \in 1 .. MaxTries /\ display \in [Jobs -> [1 .. MaxTries -> Seq(SenEntry)]]
    BY SenConsts DEF SenTyped
  <1>2. Sen!Entry(j, th) \in SenEntry
    BY EntryIs DEF EntryOk
  <1>3. display[j] \in [1 .. MaxTries -> Seq(SenEntry)] /\ display[j][tries[j]] \in Seq(SenEntry)
    BY <1>1
  <1>4. Append(display[j][tries[j]], Sen!Entry(j, th)) \in Seq(SenEntry)
    BY <1>2, <1>3, OneShownMore
  <1>5. CASE Sen!Shows(part[j])
    <2>1. display' = [display EXCEPT ![j][tries[j]] = Append(display[j][tries[j]], Sen!Entry(j, th))]
      BY <1>5 DEF Sen!Displayed
    <2> QED
      BY <1>1, <1>3, <1>4, <1>5, <2>1 DEF ShownAfter
  <1>6. CASE ~ Sen!Shows(part[j])
    BY <1>1, <1>6 DEF Sen!Displayed, ShownAfter
  <1> QED
    BY <1>5, <1>6

\* A job that is at a part has an attempt.
LEMMA AtWork ==
    ASSUME SenKept, NEW j \in Jobs, stage[j] # "idle"
    PROVE  /\ tries[j] >= 1 /\ tries[j] \in 1 .. MaxTries /\ part[j] \in SenPart /\ part[j] # Sen!Idle
           /\ part[j].is # "idle" /\ outcome[j] # "ok" /\ names[j] \in SUBSET Nat
           /\ display[j][tries[j]] \in Seq(SenEntry)
           /\ AttemptOk(j, part[j], names[j], outcome[j], tries[j], display[j][tries[j]], cutCalls)
  <1>1. part[j] \in SenPart /\ part[j] # Sen!Idle /\ tries[j] \in 0 .. MaxTries /\ names[j] \in SUBSET Nat
    BY DEF SenKept, SenTyped, Sen!TypeOK
  <1>2. tries[j] >= 1 /\ tries[j] \in 1 .. MaxTries
    BY <1>1, SenConsts DEF SenKept, JobKept
  <1>3. AttemptOk(j, part[j], names[j], outcome[j], tries[j], display[j][tries[j]], cutCalls)
    BY <1>2 DEF SenKept, JobKept
  <1>4. part[j].is # "idle"
    BY <1>1, <1>3 DEF AttemptOk, PartOk
  <1>5. display[j][tries[j]] \in Seq(SenEntry)
    BY <1>2 DEF SenKept, SenTyped
  <1>6. outcome[j] # "ok"
    BY <1>1, <1>3 DEF AttemptOk
  <1> QED
    BY <1>1, <1>2, <1>3, <1>4, <1>5, <1>6

\* Calls that throw, of one job or of all that waited for the token.
LEMMA ThrowStep ==
    ASSUME SenKept, NEW js \in SUBSET Jobs, \A j \in js : stage[j] # "idle", Sen!Throws(js),
           UNCHANGED <<firstId, tries, page, member>>, cutCalls \subseteq cutCalls',
           \A x \in Jobs \ js : display'[x] = display[x] /\ \A t : <<x, t>> \in cutCalls' => <<x, t>> \in cutCalls,
           \A j \in js : \A t \in 1 .. MaxTries : t # tries[j] => display'[j][t] = display[j][t],
           \A j \in js :
             \/ display'[j][tries[j]] = display[j][tries[j]]
             \/ /\ display'[j][tries[j]] = ShownAfter(part[j], display[j][tries[j]], Sen!Entry(j, Sen!InThread(j, part[j])))
                /\ <<j, tries[j]>> \in cutCalls',
           display' \in [Jobs -> [1 .. MaxTries -> Seq(SenEntry)]],
           cache' \in {"none", "good", "old"}, inflight' \in BOOLEAN, asking' \in Nat
    PROVE  /\ SenTyped' /\ CheckKept' /\ \A x \in Jobs : JobKept(x)'
           /\ \A x \in Jobs \ js : stage'[x] = stage[x]
           /\ \A x \in js : stage'[x] \in {"idle", "token"}
  <1> DEFINE th(j) == Sen!Thrown(j)
  <1>1. /\ names' = [j \in Jobs |-> IF j \in js THEN Sen!Thrown(j).names ELSE names[j]]
        /\ part' = [j \in Jobs |-> IF j \in js THEN Sen!Thrown(j).next ELSE part[j]]
        /\ stage' = [j \in Jobs |-> IF j \notin js THEN stage[j]
                                    ELSE IF Sen!Thrown(j).next = Sen!Idle THEN "idle" ELSE "token"]
        /\ outcome' = [j \in Jobs |-> IF j \notin js \/ Sen!Thrown(j).next # Sen!Idle THEN outcome[j]
                                      ELSE IF Sen!Ends(j) THEN "failed" ELSE "ok"]
    BY DEF Sen!Throws
  <1>2. ASSUME NEW j \in js
        PROVE  /\ part[j].is \in {"upload", "image"} =>
                    /\ th(j).names = names[j] \cup {part[j].n}
                    /\ th(j).next = Sen!partAfter(j, Sen!Part("image", part[j].n), th(j).names)
               /\ part[j].is \notin {"upload", "image"} => th(j).names = names[j]
               /\ part[j].is = "question" => th(j).next = Sen!Part("plain", 1)
               /\ part[j].is \notin {"upload", "image", "question"} => th(j).next = Sen!Idle
    BY DEF Sen!Thrown, Sen!namedFiles
  <1>3. ASSUME NEW j \in js
        PROVE  /\ JobKept(j)' /\ th(j).next \in SenPart /\ th(j).names \in SUBSET Nat
               /\ th(j).names \subseteq 1 .. Text[j].images
    <2>1. /\ tries[j] >= 1 /\ part[j] \in SenPart /\ part[j].is # "idle" /\ outcome[j] # "ok"
          /\ names[j] \in SUBSET Nat /\ display[j][tries[j]] \in Seq(SenEntry)
          /\ AttemptOk(j, part[j], names[j], outcome[j], tries[j], display[j][tries[j]], cutCalls)
      BY AtWork
    <2>2. PICK b \in BOOLEAN : b = Sen!InThread(j, part[j])
      BY DEF Sen!InThread
    <2>3. EntryOk(j, part[j], names[j], Sen!Entry(j, b))
      BY EntryIs DEF SenKept
    <2>4. /\ names'[j] = th(j).names /\ part'[j] = th(j).next /\ tries'[j] = tries[j]
          /\ th(j).next # Sen!Idle => outcome'[j] = outcome[j]
          /\ th(j).next = Sen!Idle =>
               outcome'[j] = (IF part[j].is \in {"upload", "image", "question"} THEN "ok" ELSE "failed")
      BY <1>1 DEF Sen!Ends
    <2>5. \/ display'[j][tries[j]] = display[j][tries[j]]
          \/ /\ display'[j][tries[j]] = ShownAfter(part[j], display[j][tries[j]], Sen!Entry(j, b))
             /\ <<j, tries[j]>> \in cutCalls'
      BY <2>2
    <2> HIDE DEF th
    <2>6. /\ AttemptOk(j, th(j).next, th(j).names, outcome'[j], tries[j], display'[j][tries[j]], cutCalls')
          /\ th(j).next \in SenPart /\ th(j).names \in SUBSET Nat
          /\ names[j] \subseteq 1 .. Text[j].images => th(j).names \subseteq 1 .. Text[j].images
      <3>1. ThrownTo(j, part[j], names[j], outcome[j], th(j).next, th(j).names, outcome'[j])
        BY <1>2, <2>4 DEF ThrownTo
      <3>2. BeforeThrow(j, part[j], names[j], outcome[j], tries[j], display[j][tries[j]], cutCalls,
                        display'[j][tries[j]], cutCalls')
        BY <2>1, <2>3, <2>5 DEF BeforeThrow
      <3>3. PICK n2, q : n2 = th(j).names /\ q = th(j).next
        OBVIOUS
      <3>4. ThrownTo(j, part[j], names[j], outcome[j], q, n2, outcome'[j])
        BY <3>1, <3>3
      <3>5. /\ AttemptOk(j, q, n2, outcome'[j], tries[j], display'[j][tries[j]], cutCalls')
            /\ q \in SenPart /\ n2 \in SUBSET Nat
            /\ names[j] \subseteq 1 .. Text[j].images => n2 \subseteq 1 .. Text[j].images
        BY <3>2, <3>4, PartThrown
      <3> QED
        BY <3>3, <3>5
    <2>7. JobKept(j)'
      BY <2>1, <2>4, <2>6, JobMoves DEF SenKept
    <2>8. names[j] \subseteq 1 .. Text[j].images
      BY DEF SenKept, SenTyped, Sen!TypeOK
    <2> QED
      BY <2>6, <2>7, <2>8
  <1>4. \A x \in Jobs \ js : JobKept(x)'
    <2> TAKE x \in Jobs \ js
    <2>1. /\ part'[x] = part[x] /\ names'[x] = names[x] /\ outcome'[x] = outcome[x] /\ tries'[x] = tries[x]
          /\ display'[x] = display[x]
      BY <1>1
    <2>2. \A t : <<x, t>> \in cutCalls' <=> <<x, t>> \in cutCalls
      OBVIOUS
    <2>3. JobKept(x)
      BY DEF SenKept
    <2> QED
      BY <2>1, <2>2, <2>3, JobStays
  <1>5. SenTyped'
    <2>1. part' \in [Jobs -> SenPart] /\ names' \in [Jobs -> SUBSET Nat]
      BY <1>1, <1>3 DEF SenKept, SenTyped
    <2>2. stage' \in [Jobs -> Sen!Stages] /\ outcome' \in [Jobs -> {"none", "ok", "failed"}]
      BY <1>1 DEF SenKept, SenTyped, Sen!Stages
    <2>3. \A x \in Jobs : (stage'[x] = "idle" <=> part'[x] = Sen!Idle) /\ names'[x] \subseteq 1 .. Text[x].images
      BY <1>1, <1>3 DEF SenKept, SenTyped, Sen!TypeOK
    <2> QED
      BY <2>1, <2>2, <2>3 DEF SenKept, SenTyped, Sen!TypeOK
  <1>6. CheckKept'
    BY DEF SenKept, CheckKept, Sen!NoMeansAbsent
  <1>7. /\ \A x \in Jobs \ js : stage'[x] = stage[x]
        /\ \A x \in js : stage'[x] \in {"idle", "token"}
    BY <1>1
  <1> QED
    BY <1>3, <1>4, <1>5, <1>6, <1>7

\* A call fails, carried out or not.
LEMMA CallFailsStep == ASSUME SenKept, NEW j \in Jobs, Sen!CallFails(j) PROVE SenKept'
  <1>1. /\ stage[j] = "call" /\ Sen!Throws({j})
        /\ UNCHANGED <<firstId, tries, cache, inflight, asking, page, member>>
        /\ \/ display' = display /\ cutCalls' = cutCalls
           \/ /\ display' = Sen!Displayed(j, Sen!InThread(j, part[j]))
              /\ cutCalls' = cutCalls \cup {<<j, tries[j]>>}
    BY DEF Sen!CallFails, Sen!tokenVars, Sen!memberVars
  <1>2. tries[j] >= 1
    BY <1>1, AtWork
  <1>3. Sen!InThread(j, part[j]) \in BOOLEAN
    BY DEF Sen!InThread
  <1>4. /\ display' \in [Jobs -> [1 .. MaxTries -> Seq(SenEntry)]] /\ cutCalls \subseteq cutCalls'
        /\ \A x \in Jobs \ {j} : display'[x] = display[x] /\ \A t : <<x, t>> \in cutCalls' => <<x, t>> \in cutCalls
        /\ \A t \in 1 .. MaxTries : t # tries[j] => display'[j][t] = display[j][t]
        /\ \/ display'[j][tries[j]] = display[j][tries[j]]
           \/ /\ display'[j][tries[j]] =
                   ShownAfter(part[j], display[j][tries[j]], Sen!Entry(j, Sen!InThread(j, part[j])))
              /\ <<j, tries[j]>> \in cutCalls'
    <2>1. CASE display' = display /\ cutCalls' = cutCalls
      BY <2>1 DEF SenKept, SenTyped
    <2>2. CASE /\ display' = Sen!Displayed(j, Sen!InThread(j, part[j]))
               /\ cutCalls' = cutCalls \cup {<<j, tries[j]>>}
      <3>1. PICK b \in BOOLEAN : b = Sen!InThread(j, part[j])
        BY <1>3
      <3>2. display' = Sen!Displayed(j, b)
        BY <2>2, <3>1
      <3>3. /\ \A x \in Jobs : x # j => display'[x] = display[x]
            /\ \A t \in 1 .. MaxTries : t # tries[j] => display'[j][t] = display[j][t]
            /\ display'[j][tries[j]] = ShownAfter(part[j], display[j][tries[j]], Sen!Entry(j, b))
            /\ display' \in [Jobs -> [1 .. MaxTries -> Seq(SenEntry)]]
        BY <1>2, <3>2, ChatGrows DEF SenKept
      <3> QED
        BY <2>2, <3>1, <3>3
    <2> QED
      BY <1>1, <2>1, <2>2
  <1>5. cache' \in {"none", "good", "old"} /\ inflight' \in BOOLEAN /\ asking' \in Nat
    BY <1>1 DEF SenKept, SenTyped, Sen!TypeOK
  <1>6. /\ SenTyped' /\ CheckKept' /\ \A x \in Jobs : JobKept(x)'
        /\ \A x \in Jobs \ {j} : stage'[x] = stage[x]
        /\ stage'[j] \in {"idle", "token"}
    <2>1. \A x \in {j} : stage[x] # "idle"
      BY <1>1
    <2>2. \A x \in {j} : \A t \in 1 .. MaxTries : t # tries[x] => display'[x][t] = display[x][t]
      BY <1>4
    <2>3. \A x \in {j} :
             \/ display'[x][tries[x]] = display[x][tries[x]]
             \/ /\ display'[x][tries[x]] = ShownAfter(part[x], display[x][tries[x]], Sen!Entry(x, Sen!InThread(x, part[x])))
                /\ <<x, tries[x]>> \in cutCalls'
      BY <1>4
    <2> QED
      BY <1>1, <1>4, <1>5, <2>1, <2>2, <2>3, ThrowStep
  <1>7. Sen!OneRefresh'
    BY <1>1, <1>6 DEF SenKept, Sen!OneRefresh
  <1> QED
    BY <1>6, <1>7 DEF SenKept

\* The tool's timer ends while the call waits for a token.
LEMMA TimerStep == ASSUME SenKept, NEW j \in Jobs, Sen!CallTimesOut(j) PROVE SenKept'
  <1>1. /\ stage[j] = "waiting" /\ Sen!Throws({j})
        /\ UNCHANGED <<firstId, tries, cache, inflight, asking, page, member, display, cutCalls>>
    BY DEF Sen!CallTimesOut, Sen!tokenVars, Sen!memberVars
  <1>2. /\ cache' \in {"none", "good", "old"} /\ inflight' \in BOOLEAN /\ asking' \in Nat
        /\ display' \in [Jobs -> [1 .. MaxTries -> Seq(SenEntry)]]
    BY <1>1 DEF SenKept, SenTyped, Sen!TypeOK
  <1>3. /\ SenTyped' /\ CheckKept' /\ \A x \in Jobs : JobKept(x)'
        /\ \A x \in Jobs \ {j} : stage'[x] = stage[x]
        /\ stage'[j] \in {"idle", "token"}
    <2>1. \A x \in {j} : stage[x] # "idle"
      BY <1>1
    <2> QED
      BY <1>1, <1>2, <2>1, ThrowStep
  <1>4. Sen!OneRefresh'
    BY <1>1, <1>3 DEF SenKept, Sen!OneRefresh
  <1> QED
    BY <1>3, <1>4 DEF SenKept

\* The token request fails: all that waited fail with it and the slot is free.
LEMMA RefreshFailsStep == ASSUME SenKept, Sen!RefreshFails PROVE SenKept'
  <1> DEFINE js == {j \in Jobs : stage[j] = "waiting"}
  <1>1. /\ asking > 0 /\ asking' = asking - 1 /\ inflight' = FALSE /\ Sen!Throws(js)
        /\ UNCHANGED <<firstId, tries, cache, page, member, display, cutCalls>>
    BY DEF Sen!RefreshFails, Sen!memberVars
  <1>2. asking = 1 /\ asking' = 0
    BY <1>1 DEF SenKept, SenTyped, Sen!TypeOK, Sen!OneRefresh
  <1>3. /\ cache' \in {"none", "good", "old"} /\ asking' \in Nat
        /\ display' \in [Jobs -> [1 .. MaxTries -> Seq(SenEntry)]]
    BY <1>1, <1>2 DEF SenKept, SenTyped, Sen!TypeOK
  <1>4. inflight' \in BOOLEAN
    BY <1>1
  <1>5. /\ SenTyped' /\ CheckKept' /\ \A x \in Jobs : JobKept(x)'
        /\ \A x \in Jobs \ js : stage'[x] = stage[x]
        /\ \A x \in js : stage'[x] \in {"idle", "token"}
    <2>1. js \in SUBSET Jobs /\ \A x \in js : stage[x] # "idle"
      OBVIOUS
    <2> HIDE DEF js
    <2> QED
      BY <1>1, <1>3, <1>4, <2>1, ThrowStep
  <1>6. Sen!OneRefresh'
    <2>1. \A x \in Jobs : stage'[x] # "waiting"
      BY <1>5
    <2> QED
      BY <1>1, <1>2, <2>1 DEF Sen!OneRefresh
  <1> QED
    BY <1>5, <1>6 DEF SenKept

\* Steps of the token and of the membership check leave the jobs where they are.
LEMMA JobsStay ==
    ASSUME SenKept, UNCHANGED <<part, names, outcome, tries, display, cutCalls>>
    PROVE  \A x \in Jobs : JobKept(x)'
  BY JobStays DEF SenKept

\* A caller takes the token, waits for the request under way, or makes one.
LEMMA FetchStep == ASSUME SenKept, NEW j \in Jobs, Sen!fetchTenantAccessToken(j) PROVE SenKept'
  <1>1. /\ stage[j] = "token" /\ stage' = [stage EXCEPT ![j] = IF cache = "good" THEN "call" ELSE "waiting"]
        /\ cache' = cache
        /\ \/ cache = "good" /\ inflight' = inflight /\ asking' = asking
           \/ cache # "good" /\ inflight /\ inflight' = inflight /\ asking' = asking
           \/ cache # "good" /\ ~ inflight /\ inflight' = TRUE /\ asking' = asking + 1
        /\ UNCHANGED <<part, names, firstId, outcome, tries, display, cutCalls, page, member>>
    BY DEF Sen!fetchTenantAccessToken, Sen!memberVars
  <1>2. SenTyped'
    <2>1. stage' \in [Jobs -> Sen!Stages]
      BY <1>1 DEF SenKept, SenTyped, Sen!Stages
    <2>2. \A x \in Jobs : stage'[x] = "idle" <=> stage[x] = "idle"
      BY <1>1 DEF SenKept, SenTyped
    <2>3. inflight' \in BOOLEAN
      BY <1>1 DEF SenKept, SenTyped, Sen!TypeOK
    <2>4. asking' \in Nat
      BY <1>1 DEF SenKept, SenTyped, Sen!TypeOK
    <2> QED
      BY <1>1, <2>1, <2>2, <2>3, <2>4 DEF SenKept, SenTyped, Sen!TypeOK
  <1>3. Sen!OneRefresh'
    <2>1. CASE cache = "good"
      BY <1>1, <2>1 DEF SenKept, SenTyped, Sen!OneRefresh
    <2>2. CASE cache # "good" /\ inflight
      BY <1>1, <2>2 DEF SenKept, SenTyped, Sen!OneRefresh
    <2>3. CASE cache # "good" /\ ~ inflight
      <3>1. asking = 0
        BY <2>3 DEF SenKept, SenTyped, Sen!TypeOK, Sen!OneRefresh
      <3>2. asking' = 1 /\ inflight' = TRUE
        BY <1>1, <2>3, <3>1
      <3> QED
        BY <3>2 DEF Sen!OneRefresh
    <2> QED
      BY <2>1, <2>2, <2>3
  <1>4. CheckKept'
    BY <1>1 DEF SenKept, CheckKept, Sen!NoMeansAbsent
  <1>5. \A x \in Jobs : JobKept(x)'
    BY <1>1, JobsStay
  <1> QED
    BY <1>2, <1>3, <1>4, <1>5 DEF SenKept

\* The platform grants the token.
LEMMA GrantStep == ASSUME SenKept, Sen!RefreshSucceeds PROVE SenKept'
  <1>1. /\ asking > 0 /\ asking' = asking - 1 /\ cache' = "good" /\ inflight' = FALSE
        /\ stage' = [j \in Jobs |-> IF stage[j] = "waiting" THEN "call" ELSE stage[j]]
        /\ UNCHANGED <<part, names, firstId, outcome, tries, display, cutCalls, page, member>>
    BY DEF Sen!RefreshSucceeds, Sen!memberVars
  <1>2. asking = 1 /\ asking' = 0
    BY <1>1 DEF SenKept, SenTyped, Sen!TypeOK, Sen!OneRefresh
  <1>3. SenTyped'
    <2>1. stage' \in [Jobs -> Sen!Stages]
      BY <1>1 DEF SenKept, SenTyped, Sen!Stages
    <2>2. \A x \in Jobs : stage'[x] = "idle" <=> stage[x] = "idle"
      BY <1>1 DEF SenKept, SenTyped
    <2>3. inflight' \in BOOLEAN
      BY <1>1
    <2>4. asking' \in Nat
      BY <1>2
    <2> QED
      BY <1>1, <2>1, <2>2, <2>3, <2>4 DEF SenKept, SenTyped, Sen!TypeOK
  <1>4. Sen!OneRefresh'
    <2>1. \A x \in Jobs : stage'[x] # "waiting"
      BY <1>1 DEF SenKept, SenTyped
    <2> QED
      BY <1>1, <1>2, <2>1 DEF Sen!OneRefresh
  <1>5. CheckKept'
    BY <1>1 DEF SenKept, CheckKept, Sen!NoMeansAbsent
  <1>6. \A x \in Jobs : JobKept(x)'
    BY <1>1, JobsStay
  <1> QED
    BY <1>3, <1>4, <1>5, <1>6 DEF SenKept

\* The token ages; a membership check begins; it reads a page.
LEMMA CheckSteps == ASSUME SenKept, Sen!TokenAges \/ Sen!CheckMember \/ Sen!isMember PROVE SenKept'
  <1>1. UNCHANGED <<inflight, asking, part, stage, names, firstId, outcome, tries, display, cutCalls>>
    BY DEF Sen!TokenAges, Sen!CheckMember, Sen!isMember, Sen!tokenVars, Sen!jobVars
  <1>2. cache' \in {"none", "good", "old"}
    BY DEF Sen!TokenAges, Sen!CheckMember, Sen!isMember, Sen!tokenVars, SenKept, SenTyped, Sen!TypeOK
  <1>3. page' \in 0 .. PageBudget /\ member' \in {"none", "yes", "no", "unknown"}
    BY SenConsts DEF Sen!TokenAges, Sen!CheckMember, Sen!isMember, Sen!memberVars, SenKept, SenTyped, Sen!TypeOK
  <1>4. CheckKept'
    <2>1. CASE Sen!TokenAges
      BY <2>1 DEF Sen!TokenAges, Sen!memberVars, SenKept, CheckKept, Sen!NoMeansAbsent
    <2>2. CASE Sen!CheckMember
      BY <2>2 DEF Sen!CheckMember, SenKept, CheckKept, Sen!NoMeansAbsent
    <2>3. CASE Sen!isMember
      <3>1. page \in Nat /\ page > 0 /\ MemberPage \notin 1 .. (page - 1)
        BY <2>3, SenConsts DEF Sen!isMember, SenKept, SenTyped, Sen!TypeOK, CheckKept
      <3>2. page # MemberPage => MemberPage \notin 1 .. page
        BY <3>1
      <3> QED
        BY <2>3, <3>1, <3>2, SenConsts DEF Sen!isMember, Sen!lastPage, SenKept, CheckKept, Sen!NoMeansAbsent
    <2> QED
      BY <2>1, <2>2, <2>3
  <1>5. SenTyped' /\ Sen!OneRefresh'
    BY <1>1, <1>2, <1>3 DEF SenKept, SenTyped, Sen!TypeOK, Sen!OneRefresh
  <1>6. \A x \in Jobs : JobKept(x)'
    BY <1>1, JobsStay
  <1> QED
    BY <1>4, <1>5, <1>6 DEF SenKept

\* A job goes on to another part, or is done.
LEMMA GoOnStep ==
    ASSUME SenKept, NEW j \in Jobs, NEW p \in SenPart, Sen!GoOn(j, p), names'[j] \subseteq 1 .. Text[j].images,
           stage[j] # "waiting", \A x \in Jobs : x # j => names'[x] = names[x], names' \in [Jobs -> SUBSET Nat],
           firstId' \in [Jobs -> BOOLEAN], tries' \in [Jobs -> 0 .. MaxTries],
           display' \in [Jobs -> [1 .. MaxTries -> Seq(SenEntry)]],
           UNCHANGED <<cache, inflight, asking, page, member>>
    PROVE  SenTyped' /\ Sen!OneRefresh' /\ CheckKept'
  <1>1. /\ part' = [part EXCEPT ![j] = p]
        /\ stage' = [stage EXCEPT ![j] = IF p = Sen!Idle THEN "idle" ELSE "token"]
        /\ outcome' = [outcome EXCEPT ![j] = IF p = Sen!Idle THEN "ok" ELSE "none"]
    BY DEF Sen!GoOn
  <1>2. /\ part' \in [Jobs -> SenPart] /\ stage' \in [Jobs -> Sen!Stages]
        /\ outcome' \in [Jobs -> {"none", "ok", "failed"}]
    BY <1>1 DEF SenKept, SenTyped, Sen!Stages
  <1>3. \A x \in Jobs : (stage'[x] = "idle" <=> part'[x] = Sen!Idle) /\ names'[x] \subseteq 1 .. Text[x].images
    BY <1>1 DEF SenKept, SenTyped, Sen!TypeOK
  <1>4. SenTyped'
    BY <1>2, <1>3 DEF SenKept, SenTyped, Sen!TypeOK
  <1>5. \A x \in Jobs : stage'[x] = "waiting" => stage[x] = "waiting"
    BY <1>1 DEF SenKept, SenTyped
  <1>6. Sen!OneRefresh'
    BY <1>5 DEF SenKept, Sen!OneRefresh
  <1>7. CheckKept'
    BY DEF SenKept, CheckKept, Sen!NoMeansAbsent
  <1> QED
    BY <1>4, <1>6, <1>7

\* A call succeeds.
LEMMA CallStep == ASSUME SenKept, NEW j \in Jobs, Sen!CallSucceeds(j) PROVE SenKept'
  <1> DEFINE q == Sen!partAfter(j, part[j], names[j])
             sh2 == display'[j][tries[j]]
  <1>1. /\ stage[j] = "call" /\ Sen!GoOn(j, q) /\ firstId' = [firstId EXCEPT ![j] = @ \/ Sen!Shows(part[j])]
        /\ UNCHANGED <<names, tries, cutCalls, cache, inflight, asking, page, member>>
    BY DEF Sen!CallSucceeds, Sen!tokenVars, Sen!memberVars
  <1>2. \E b \in BOOLEAN : display' = Sen!Displayed(j, b)
    <2>1. Sen!InThread(j, part[j]) \in BOOLEAN /\ FALSE \in BOOLEAN
      BY DEF Sen!InThread
    <2> QED
      BY <2>1 DEF Sen!CallSucceeds
  <1>3. PICK b \in BOOLEAN : display' = Sen!Displayed(j, b)
    BY <1>2
  <1>4. /\ tries[j] >= 1 /\ part[j] \in SenPart /\ part[j].is # "idle" /\ names[j] \in SUBSET Nat
        /\ display[j][tries[j]] \in Seq(SenEntry)
        /\ AttemptOk(j, part[j], names[j], outcome[j], tries[j], display[j][tries[j]], cutCalls)
    BY <1>1, AtWork
  <1>5. /\ \A x \in Jobs : x # j => display'[x] = display[x]
        /\ \A t \in 1 .. MaxTries : t # tries[j] => display'[j][t] = display[j][t]
        /\ sh2 = ShownAfter(part[j], display[j][tries[j]], Sen!Entry(j, b))
        /\ display' \in [Jobs -> [1 .. MaxTries -> Seq(SenEntry)]]
    BY <1>3, <1>4, ChatGrows DEF SenKept
  <1>6. EntryOk(j, part[j], names[j], Sen!Entry(j, b))
    BY EntryIs DEF SenKept
  <1>7. AttemptOk(j, q, names[j], IF q = Sen!Idle THEN "ok" ELSE "none", tries[j], sh2, cutCalls) /\ q \in SenPart
    <2> HIDE DEF q, sh2
    <2> QED
      BY <1>4, <1>5, <1>6, PartShown DEF q
  <1>8. SenTyped' /\ Sen!OneRefresh' /\ CheckKept'
    <2>1. names'[j] \subseteq 1 .. Text[j].images /\ names' \in [Jobs -> SUBSET Nat] /\ tries' \in [Jobs -> 0 .. MaxTries]
      BY <1>1 DEF SenKept, SenTyped, Sen!TypeOK
    <2>2. firstId' \in [Jobs -> BOOLEAN]
      BY <1>1 DEF SenKept, SenTyped, Sen!Shows
    <2> HIDE DEF q
    <2> QED
      BY <1>1, <1>5, <1>7, <2>1, <2>2, GoOnStep
  <1>9. /\ part'[j] = q /\ outcome'[j] = (IF q = Sen!Idle THEN "ok" ELSE "none")
        /\ \A x \in Jobs : x # j => part'[x] = part[x] /\ outcome'[x] = outcome[x]
    <2> HIDE DEF q
    <2> QED
      BY <1>1 DEF Sen!GoOn, SenKept, SenTyped
  <1>10. JobKept(j)'
    <2> HIDE DEF q
    <2> QED
      BY <1>1, <1>4, <1>5, <1>7, <1>9, JobMoves DEF SenKept
  <1>11. \A x \in Jobs : x # j => JobKept(x)'
    BY <1>1, <1>5, <1>9, JobStays DEF SenKept
  <1> QED
    BY <1>8, <1>10, <1>11 DEF SenKept

\* There is no reaction to remove: the delivery is done.
LEMMA NothingStep == ASSUME SenKept, NEW j \in Jobs, Sen!NothingToRemove(j) PROVE SenKept'
  <1>1. /\ stage[j] = "call" /\ part[j].is = "list" /\ Sen!GoOn(j, Sen!Idle)
        /\ UNCHANGED <<names, firstId, tries, display, cutCalls, cache, inflight, asking, page, member>>
    BY DEF Sen!NothingToRemove, Sen!tokenVars, Sen!memberVars
  <1>2. /\ tries[j] >= 1
        /\ AttemptOk(j, part[j], names[j], outcome[j], tries[j], display[j][tries[j]], cutCalls)
    BY <1>1, AtWork
  <1>3. Sen!Idle \in SenPart
    BY DEF Sen!Idle, SenPart
  <1>4. SenTyped' /\ Sen!OneRefresh' /\ CheckKept'
    BY <1>1, <1>3, GoOnStep DEF SenKept, SenTyped, Sen!TypeOK
  <1>5. /\ part'[j] = Sen!Idle /\ outcome'[j] = "ok"
        /\ \A x \in Jobs : x # j => part'[x] = part[x] /\ outcome'[x] = outcome[x]
    BY <1>1 DEF Sen!GoOn, SenKept, SenTyped
  <1>6. AttemptOk(j, Sen!Idle, names[j], "ok", tries[j], display[j][tries[j]], cutCalls)
    <2>1. Text[j].kind # "chat"
      BY <1>1, <1>2 DEF AttemptOk, PartOk, Sen!Idle
    <2> QED
      BY <1>2, <2>1 DEF AttemptOk, PartOk, Progress, Apart, Sen!Idle
  <1>7. JobKept(j)'
    BY <1>1, <1>2, <1>5, <1>6, JobMoves DEF SenKept
  <1>8. \A x \in Jobs : x # j => JobKept(x)'
    BY <1>1, <1>5, JobStays DEF SenKept
  <1> QED
    BY <1>4, <1>7, <1>8 DEF SenKept

\* A new attempt begins with nothing shown and nothing to name.
LEMMA DeliverStep == ASSUME SenKept, NEW j \in Jobs, Sen!Deliver(j) PROVE SenKept'
  <1> DEFINE q == Sen!firstPart(j)
  <1>1. /\ stage[j] = "idle" /\ outcome[j] # "ok" /\ tries[j] < MaxTries /\ tries' = [tries EXCEPT ![j] = @ + 1]
        /\ Sen!GoOn(j, q) /\ names' = [names EXCEPT ![j] = {}] /\ firstId' = [firstId EXCEPT ![j] = FALSE]
        /\ UNCHANGED <<display, cutCalls, cache, inflight, asking, page, member>>
    BY DEF Sen!Deliver, Sen!tokenVars, Sen!memberVars
  <1>2. tries[j] \in 0 .. MaxTries /\ tries' \in [Jobs -> 0 .. MaxTries] /\ tries'[j] = tries[j] + 1
    BY <1>1, SenConsts DEF SenKept, SenTyped
  <1>3. /\ names' \in [Jobs -> SUBSET Nat] /\ firstId' \in [Jobs -> BOOLEAN] /\ names'[j] = {}
        /\ \A x \in Jobs : x # j => names'[x] = names[x] /\ tries'[x] = tries[x]
    BY <1>1 DEF SenKept, SenTyped
  <1>4. /\ Text[j].kind \in {"chat", "question", "card", "edit", "react", "list"}
        /\ Text[j].images \in Nat /\ Sen!chunkCount(j, {}) \in Nat
    BY SenConsts
  <1>5. /\ q \in SenPart
        /\ Text[j].kind = "chat" /\ Text[j].images > 0 => q.is = "upload" /\ q.n = 1
        /\ Text[j].kind = "chat" /\ Text[j].images = 0 /\ Sen!chunkCount(j, {}) > 0 => q.is = "text" /\ q.n = 1
        /\ Text[j].kind = "chat" /\ Text[j].images = 0 /\ Sen!chunkCount(j, {}) = 0 => q = Sen!Idle
        /\ Text[j].kind # "chat" => q.is = Text[j].kind /\ q.n = 1
    BY <1>4 DEF Sen!firstPart, Sen!Part, Sen!Idle, SenPart
  <1> HIDE DEF q
  <1>6. SenTyped' /\ Sen!OneRefresh' /\ CheckKept'
    BY <1>1, <1>2, <1>3, <1>5, GoOnStep DEF SenKept, SenTyped
  <1>7. /\ part'[j] = q /\ outcome'[j] = (IF q = Sen!Idle THEN "ok" ELSE "none")
        /\ \A x \in Jobs : x # j => part'[x] = part[x] /\ outcome'[x] = outcome[x]
    BY <1>1 DEF Sen!GoOn, SenKept, SenTyped
  <1>8. tries'[j] \in 1 .. MaxTries /\ display'[j][tries'[j]] = <<>>
    BY <1>1, <1>2, SenConsts DEF SenKept, JobKept
  <1>9. AttemptOk(j, q, {}, outcome'[j], tries'[j], <<>>, cutCalls')
    <2>1. PartOk(j, q, {})
      BY <1>4, <1>5 DEF PartOk
    <2>2. Progress(j, q, {}, outcome'[j], <<>>)
      <3> SUFFICES ASSUME Text[j].kind = "chat" PROVE Progress(j, q, {}, outcome'[j], <<>>)
        BY DEF Progress
      <3>1. Len(<<>>) = 0 /\ ImagesIn(<<>>, {}, 0) /\ TextsIn(<<>>, {}, Sen!chunkCount(j, {}), 0)
        BY DEF ImagesIn, TextsIn
      <3>2. CASE Text[j].images > 0
        <4>1. q.is = "upload" /\ q.n - 1 = 0 /\ outcome'[j] # "ok"
          BY <1>5, <1>7, <3>2 DEF Sen!Idle
        <4> QED
          BY <3>1, <4>1 DEF Progress
      <3>3. CASE Text[j].images = 0 /\ Sen!chunkCount(j, {}) > 0
        <4>1. q.is = "text" /\ q.n - 1 = 0 /\ outcome'[j] # "ok"
          BY <1>5, <1>7, <3>3 DEF Sen!Idle
        <4> QED
          BY <3>1, <3>3, <4>1 DEF Progress
      <3>4. CASE Text[j].images = 0 /\ Sen!chunkCount(j, {}) = 0
        <4>1. q.is = "idle"
          BY <1>5, <3>4 DEF Sen!Idle
        <4> QED
          BY <3>1, <3>4, <4>1 DEF Progress
      <3> QED
        BY <1>4, <3>2, <3>3, <3>4
    <2> QED
      BY <1>7, <2>1, <2>2 DEF AttemptOk, Apart
  <1>10. JobKept(j)'
    <2>1. \A t \in 1 .. MaxTries : t > tries'[j] => display'[j][t] = <<>>
      BY <1>1, <1>2 DEF SenKept, JobKept
    <2>2. \A t \in 1 .. MaxTries : t < tries'[j] /\ <<j, t>> \notin cutCalls' => OnlyOnce(display'[j][t])
      <3> SUFFICES ASSUME NEW t \in 1 .. MaxTries, t < tries'[j], <<j, t>> \notin cutCalls
                   PROVE  OnlyOnce(display[j][t])
        BY <1>1
      <3>1. CASE t < tries[j]
        BY <3>1 DEF SenKept, JobKept
      <3>2. CASE t = tries[j]
        <4>1. AttemptOk(j, part[j], names[j], outcome[j], t, display[j][t], cutCalls)
          BY <3>2, SenConsts DEF SenKept, JobKept
        <4>2. display[j][t] \in Seq(SenEntry)
          BY ZenonT(60) DEF SenKept, SenTyped
        <4> QED
          BY <4>1, <4>2, OnceIfApart
      <3> QED
        BY <1>2, <3>1, <3>2, SenConsts
    <2> QED
      BY <1>3, <1>7, <1>8, <1>9, <2>1, <2>2 DEF JobKept
  <1>11. \A x \in Jobs : x # j => JobKept(x)'
    BY <1>1, <1>3, <1>7, JobStays DEF SenKept
  <1> QED
    BY <1>6, <1>10, <1>11 DEF SenKept

\* Before the first delivery.
LEMMA SenInit == ASSUME Init PROVE SenKept
  <1>1. /\ cache = "none" /\ inflight = FALSE /\ asking = 0 /\ part = [j \in Jobs |-> Sen!Idle]
        /\ stage = [j \in Jobs |-> "idle"] /\ names = [j \in Jobs |-> {}] /\ firstId = [j \in Jobs |-> FALSE]
        /\ outcome = [j \in Jobs |-> "none"] /\ tries = [j \in Jobs |-> 0]
        /\ display = [j \in Jobs |-> [t \in 1 .. MaxTries |-> <<>>]] /\ page = 0 /\ member = "none"
    BY DEF Init, Sen!Init
  <1>2. Sen!Idle \in SenPart /\ <<>> \in Seq(SenEntry) /\ 0 \in 0 .. MaxTries /\ 0 \in 0 .. PageBudget
    BY SenConsts DEF Sen!Idle, SenPart
  <1>3. Sen!TypeOK
    BY <1>1, <1>2 DEF Sen!TypeOK, Sen!Stages
  <1>4. SenTyped
    BY <1>1, <1>2, <1>3 DEF SenTyped, Sen!Stages
  <1>5. Sen!OneRefresh /\ CheckKept
    BY <1>1 DEF Sen!OneRefresh, CheckKept, Sen!NoMeansAbsent
  <1>6. \A j \in Jobs : JobKept(j)
    BY <1>1, SenConsts DEF JobKept
  <1> QED
    BY <1>4, <1>5, <1>6 DEF SenKept

\* When all images and all chunks are dealt with, the names in the text are
\* exactly the images that could not be shown.
LEMMA NamesInText ==
    ASSUME NEW j \in Jobs, NEW sh \in Seq(SenEntry), NEW nm,
           TextsIn(sh, nm, Sen!chunkCount(j, nm), Sen!chunkCount(j, nm))
    PROVE  UNION {sh[k].named : k \in {k \in DOMAIN sh : sh[k].part.is = "text"}} = nm
  <1> DEFINE c == Sen!chunkCount(j, nm)
             texts == {k \in DOMAIN sh : sh[k].part.is = "text"}
  <1>1. c \in Nat /\ (nm # {} => c > 0) /\ DOMAIN sh = 1 .. Len(sh)
    BY SenConsts
  <1>2. \A k \in texts : sh[k].named \subseteq nm
    BY <1>1 DEF TextsIn
  <1>3. nm # {} => \E k \in texts : sh[k].named = nm
    <2> SUFFICES ASSUME nm # {} PROVE \E k \in texts : sh[k].named = nm
      OBVIOUS
    <2>1. c \in 1 .. c
      BY <1>1
    <2>2. PICK k \in 1 .. Len(sh) : sh[k].part = Sen!Part("text", c)
      BY <2>1 DEF TextsIn
    <2>3. sh[k].part.is = "text" /\ sh[k].part.n = c
      BY <2>2 DEF Sen!Part
    <2> QED
      BY <1>1, <2>3 DEF TextsIn
  <1> HIDE DEF texts
  <1>4. UNION {sh[k].named : k \in texts} \subseteq nm
    BY <1>2
  <1>5. nm \subseteq UNION {sh[k].named : k \in texts}
    BY <1>3
  <1>6. UNION {sh[k].named : k \in texts} = nm
    BY <1>4, <1>5
  <1> QED
    BY <1>6 DEF texts

\* A delivery that succeeded is on the screen.
LEMMA AllShown == ASSUME SenKept PROVE Sen!SuccessShowsAll
  <1> SUFFICES ASSUME NEW j \in Jobs, outcome[j] = "ok", Text[j].kind = "chat",
                      NEW sh, sh = display[j][tries[j]],
                      NEW texts, texts = {k \in DOMAIN sh : sh[k].part.is = "text"},
                      NEW named, named = UNION {sh[k].named : k \in texts}
               PROVE  /\ \A i \in 1 .. Text[j].images :
                           i \in named \/ \E k \in DOMAIN sh : sh[k].part = Sen!Part("image", i)
                      /\ {sh[k].part.n : k \in texts} = 1 .. Sen!chunkCount(j, named)
                      /\ \A a, b \in texts : a < b => sh[a].part.n < sh[b].part.n
    BY DEF Sen!SuccessShowsAll
  <1>1. tries[j] \in 1 .. MaxTries
    BY SenConsts DEF SenKept, SenTyped, JobKept
  <1>2. AttemptOk(j, part[j], names[j], outcome[j], tries[j], sh, cutCalls) /\ sh \in Seq(SenEntry)
    <2>1. AttemptOk(j, part[j], names[j], outcome[j], tries[j], display[j][tries[j]], cutCalls)
      BY <1>1 DEF SenKept, JobKept
    <2>2. display[j][tries[j]] \in Seq(SenEntry)
      BY <1>1 DEF SenKept, SenTyped
    <2> QED
      BY <2>1, <2>2
  <1> DEFINE nm == names[j]
             c == Sen!chunkCount(j, nm)
  <1>3. ImagesIn(sh, nm, Text[j].images) /\ TextsIn(sh, nm, c, c) /\ DOMAIN sh = 1 .. Len(sh)
    BY <1>2 DEF AttemptOk, Progress
  <1>4. named = nm
    BY <1>2, <1>3, NamesInText
  <1>5. c \in Nat /\ Sen!chunkCount(j, named) = c
    BY <1>4, SenConsts
  <1>6. \A i \in 1 .. Text[j].images : i \in named \/ \E k \in DOMAIN sh : sh[k].part = Sen!Part("image", i)
    BY SMTT(40), <1>3, <1>4 DEF ImagesIn
  <1> HIDE DEF c, nm
  <1>7. \A k \in texts : sh[k].part.n \in 1 .. c
    BY <1>3 DEF TextsIn
  <1>8. \A m \in 1 .. c : \E k \in texts : sh[k].part.n = m
    <2> SUFFICES ASSUME NEW m \in 1 .. c PROVE \E k \in texts : sh[k].part.n = m
      BY Zenon
    <2>1. PICK k \in 1 .. Len(sh) : sh[k].part = Sen!Part("text", m)
      BY <1>3 DEF TextsIn
    <2>2. sh[k].part.is = "text" /\ sh[k].part.n = m
      BY <2>1 DEF Sen!Part
    <2> QED
      BY <1>3, <2>2
  <1>9. {sh[k].part.n : k \in texts} = 1 .. c
    BY SMTT(40), <1>7, <1>8
  <1>10. \A a, b \in texts : a < b => sh[a].part.n < sh[b].part.n
    BY <1>3 DEF TextsIn
  <1>11. {sh[k].part.n : k \in texts} = 1 .. Sen!chunkCount(j, named)
    BY <1>5, <1>9, Zenon
  <1> QED
    BY <1>6, <1>10, <1>11, Zenon

\* A fallback replaces what failed.
LEMMA NothingTwice == ASSUME SenKept PROVE Sen!TwiceNeedsLostAnswer
  <1> SUFFICES ASSUME NEW j \in Jobs, NEW t \in 1 .. tries[j], <<j, t>> \notin cutCalls
               PROVE  OnlyOnce(display[j][t])
    BY DEF Sen!TwiceNeedsLostAnswer, OnlyOnce
  <1>1. tries[j] \in 0 .. MaxTries /\ t \in 1 .. MaxTries /\ tries[j] >= 1
    BY SenConsts DEF SenKept, SenTyped
  <1>2. CASE t < tries[j]
    BY <1>1, <1>2 DEF SenKept, JobKept
  <1>3. CASE t = tries[j]
    <2>1. AttemptOk(j, part[j], names[j], outcome[j], t, display[j][t], cutCalls) /\ display[j][t] \in Seq(SenEntry)
      BY <1>1, <1>3 DEF SenKept, SenTyped, JobKept
    <2> QED
      BY <2>1, OnceIfApart
  <1> QED
    BY <1>1, <1>2, <1>3

\* A send that reports success showed everything, each thing in one form unless
\* an answer was lost; one token request runs at a time; and a member within
\* the page budget is not taken for a stranger - for any messages, attempts,
\* group and budget (feishu.ts).
THEOREM SendsSafe == Spec => []SendsHonest
  <1>1. Init => SenInv
    BY SenInit DEF SenInv
  <1>2. ASSUME SenInv, [Next]_vars PROVE SenInv'
    <2>1. CASE focus = "sends" /\ Sen!Next /\ UNCHANGED focus
      <3>1. SenKept
        BY <1>2, <2>1 DEF SenInv
      <3>2. SenKept'
        BY <2>1, <3>1, FetchStep, DeliverStep, CallStep, NothingStep, CallFailsStep, TimerStep, GrantStep,
           RefreshFailsStep, CheckSteps DEF Sen!Next
      <3> QED
        BY <3>2 DEF SenInv
    <2>2. CASE UNCHANGED <<focus, senVars>>
      <3> SUFFICES ASSUME SenKept PROVE SenKept'
        BY <1>2, <2>2 DEF SenInv
      <3>1. \A x \in Jobs : JobKept(x)'
        BY <2>2, JobsStay DEF senVars
      <3>2. SenTyped' /\ Sen!OneRefresh' /\ CheckKept'
        BY <2>2 DEF SenKept, SenTyped, Sen!TypeOK, Sen!OneRefresh, CheckKept, Sen!NoMeansAbsent, senVars
      <3> QED
        BY <3>1, <3>2 DEF SenKept
    <2>3. UNCHANGED focus /\ (~ (focus = "sends" /\ Sen!Next) => UNCHANGED senVars)
      BY <1>2 DEF Next, vars
    <2> QED
      BY <2>1, <2>2, <2>3
  <1>3. SenInv => SendsHonest
    <2> SUFFICES ASSUME SenKept PROVE Sen!SendsHonest
      BY DEF SenInv, SendsHonest
    <2> QED
      BY AllShown, NothingTwice DEF SenKept, SenTyped, CheckKept, Sen!SendsHonest
  <1> QED
    BY <1>1, <1>2, <1>3, PTL DEF Spec
=============================================================================
