---------------------------- MODULE GatewayCalls ----------------------------
(***************************************************************************)
(* Business writes of one session: the gateway tool derives an idempotency  *)
(* key from the rows the turn has claimed, posts through the host's signing *)
(* proxy, which checks the container's token, writes an intent row, signs   *)
(* and forwards, and the backend commits a key once.  Containers die and    *)
(* turns run again, the host stops, both ends of a call time out on their   *)
(* own, audit rows fail to be written.                                      *)
(***************************************************************************)
EXTENDS Integers, Sequences, FiniteSets

CONSTANTS
  Rows,            \* inbound rows of the session, numbers in order of arrival
  Script,          \* writes of a turn: a sequence of sets of operations, a
                   \* set of one being gateway_execute, a larger one a bulk
  MaxCalls,        \* bound: calls in a behaviour
  MaxBoxes,        \* bound: containers
  RateLimit,       \* calls of a token in one window
  MaxGatewayTrouble \* bound: deaths, stops, timeouts, failed audit writes

VARIABLES
  arrived,     \* rows in messages_in
  completed,   \* rows 'completed' in processing_ack
  claims,      \* rows 'processing' in processing_ack
  stamp,       \* status_changed of a claim, as a count
  followUps,   \* claims the follow-up poll is still deciding about
  counter,     \* the MCP child: occResetKey and occCounts
  nextWrite,   \* place of the turn in its script; 0 without a turn
  box,         \* the running container; 0 is none
  boxes,       \* containers so far
  token,       \* gateway_proxy_token of a container
  used,        \* rate limiter: calls of the window, lost with the host
  gateUp, gatewayTrouble,
  callAt,      \* where a call is
  callKeys,    \* its idempotency keys
  result,      \* what the tool was told
  auditRow,    \* gateway_audit row of the call, written by the proxy
  atBackend,   \* requests the backend has received and not worked on
  committed,   \* keys the backend has committed, for ever
  commits,     \* commits per operation
  served,      \* history: calls the backend worked on
  firstAnchor, \* history: the claims of the turn's first write
  regrouped,   \* history: a write was made under other claims than the first
  retried,     \* history: the agent repeated a call told to be retryable
  late,        \* history: calls the proxy gave up on, or the host's end cut
  gap          \* history: calls whose final audit row could not be written

turn     == <<arrived, completed, claims, stamp, followUps, counter, nextWrite>>
proxy    == <<token, used, gateUp>>
wire     == <<callAt, callKeys, result>>
backend  == <<atBackend, committed, commits, served>>
notes    == <<firstAnchor, regrouped, retried>>
vars     == <<turn, box, boxes, proxy, gatewayTrouble, wire, auditRow, backend, notes, late, gap>>

Ids      == 1..MaxCalls
Boxes    == 1..MaxBoxes
Ops      == UNION {Script[k] : k \in DOMAIN Script}
NoCounter == [key |-> <<{}, 0>>, counts |-> [c \in Ops |-> 0]]
Wanted(c) == Cardinality({k \in DOMAIN Script : c \in Script[k]})

TypeOK ==
  /\ arrived \subseteq Rows /\ completed \subseteq arrived
  /\ claims \subseteq arrived \ completed /\ followUps \subseteq claims /\ stamp \in [Rows -> Nat]
  /\ counter.counts \in [Ops -> 0..MaxCalls]
  /\ nextWrite \in 0..(Len(Script) + 1)
  /\ box \in 0..MaxBoxes /\ boxes \in 0..MaxBoxes
  /\ token \in [Boxes -> {"none", "live", "revoked", "expired"}]
  /\ used \in 0..RateLimit
  /\ callAt \in [Ids -> {"none", "sent", "forwarded", "answered", "ended"}]
  /\ result \in [Ids -> {"none", "waiting", "ok", "retryable", "refused", "lost"}]
  /\ auditRow \in [Ids -> {"none", "intent", "ok", "error"}]
  /\ atBackend \subseteq Ids /\ served \subseteq Ids
  /\ commits \in [Ops -> Nat]

Init ==
  /\ arrived = {1} /\ completed = {} /\ claims = {} /\ followUps = {} /\ stamp = [r \in Rows |-> 0]
  /\ counter = NoCounter /\ nextWrite = 0
  /\ box = 0 /\ boxes = 0 /\ token = [b \in Boxes |-> "none"] /\ used = 0
  /\ gateUp = TRUE /\ gatewayTrouble = 0
  /\ callAt = [i \in Ids |-> "none"] /\ callKeys = [i \in Ids |-> {}]
  /\ result = [i \in Ids |-> "none"] /\ auditRow = [i \in Ids |-> "none"]
  /\ atBackend = {} /\ committed = {} /\ commits = [c \in Ops |-> 0] /\ served = {}
  /\ firstAnchor = {} /\ regrouped = FALSE /\ retried = FALSE /\ late = {} /\ gap = {}

Trouble == gatewayTrouble < MaxGatewayTrouble /\ gatewayTrouble' = gatewayTrouble + 1
Newest  == CHOOSE n \in {stamp[r] : r \in Rows} : \A r \in Rows : stamp[r] <= n
Signal  == CHOOSE n \in {stamp[r] : r \in claims} : \A r \in claims : stamp[r] <= n
Mark(S) == stamp' = [r \in Rows |-> IF r \in S THEN Newest + 1 ELSE stamp[r]]
\* getPendingMessages: what is acknowledged is not taken again; what a turn
\* still claims is left out where the poll asks.
Pending == arrived \ completed
Waiting == {i \in Ids : result[i] = "waiting"}
Unused  == {i \in Ids : callAt[i] = "none"}

----------------------------------------------------------------------------
(* The turn.                                                                *)

\* A spawn of a group with a signing key: a token, and no other stays live.
mintProxyToken ==
  /\ gateUp /\ box = 0 /\ boxes < MaxBoxes /\ 1 \in Pending
  /\ boxes' = boxes + 1 /\ box' = boxes + 1
  /\ token' = [b \in Boxes |-> IF b = boxes + 1 THEN "live"
                               ELSE IF token[b] = "live" THEN "revoked" ELSE token[b]]
  /\ UNCHANGED <<turn, used, gateUp, gatewayTrouble, wire, auditRow, backend, notes, late, gap>>

Arrive(r) ==
  /\ r \notin arrived
  /\ arrived' = arrived \cup {r}
  /\ UNCHANGED <<completed, claims, stamp, followUps, counter, nextWrite, box, boxes, proxy, gatewayTrouble, wire,
                 auditRow, backend, notes, late, gap>>

\* The poll loop claims every pending row and starts the query.
TurnStarts ==
  /\ box # 0 /\ nextWrite = 0 /\ 1 \in Pending
  /\ claims' = Pending /\ Mark(Pending)
  /\ nextWrite' = 1
  /\ UNCHANGED <<arrived, completed, followUps, counter, box, boxes, proxy, gatewayTrouble, wire, auditRow, backend, notes,
                 late, gap>>

\* A row that comes during the query is claimed at once, its script is
\* awaited, and then it rides along ...
ClaimFollowUp(r) ==
  /\ box # 0 /\ nextWrite # 0 /\ r \in Pending \ claims
  /\ claims' = claims \cup {r} /\ followUps' = followUps \cup {r}
  /\ Mark({r})
  /\ regrouped' = (regrouped \/ firstAnchor # {})
  /\ UNCHANGED <<arrived, completed, counter, nextWrite, box, boxes, proxy, gatewayTrouble, wire, auditRow,
                 backend, firstAnchor, retried, late, gap>>

KeepFollowUp(r) ==
  /\ r \in followUps
  /\ followUps' = followUps \ {r}
  /\ UNCHANGED <<arrived, completed, claims, stamp, counter, nextWrite, box, boxes, proxy, gatewayTrouble, wire,
                 auditRow, backend, notes, late, gap>>

\* ... or is released, being another turn's.
ReleaseFollowUp(r) ==
  /\ box # 0 /\ r \in followUps /\ Trouble
  /\ claims' = claims \ {r} /\ followUps' = followUps \ {r}
  /\ regrouped' = (regrouped \/ firstAnchor # {})
  /\ UNCHANGED <<arrived, completed, stamp, counter, nextWrite, box, boxes, proxy, wire, auditRow, backend,
                 firstAnchor, retried, late, gap>>

\* The counts of this turn's execution, empty when claims or signal changed.
nextOccurrence ==
  IF counter.key = <<claims, Signal>> THEN counter.counts ELSE [c \in Ops |-> 0]

\* Mutant: the key has the execution in it.
keyOfExecution(c) == <<claims, c, nextOccurrence[c], Signal>>

\* The claimed rows, the operation and how many equal ones came before it.
deriveStableIdempotencyKey(c) == <<claims, c, nextOccurrence[c], 0>>

\* The key is made before the first await; the call goes to the proxy.
callGateway(ops, i) ==
  /\ callAt' = [callAt EXCEPT ![i] = "sent"]
  /\ callKeys' = [callKeys EXCEPT ![i] = {deriveStableIdempotencyKey(c) : c \in ops}]
  /\ result' = [result EXCEPT ![i] = "waiting"]
  /\ counter' = [key |-> <<claims, Signal>>,
                 counts |-> [c \in Ops |-> nextOccurrence[c] + (IF c \in ops THEN 1 ELSE 0)]]
  /\ firstAnchor' = IF firstAnchor = {} THEN claims ELSE firstAnchor
  /\ regrouped' = (regrouped \/ (firstAnchor # {} /\ claims # firstAnchor))

Fresh == CHOOSE i \in Unused : \A j \in Unused : i <= j

\* The next write of the script, perhaps while earlier ones are under way.
handleGatewayExecute ==
  /\ box # 0 /\ nextWrite \in DOMAIN Script /\ Unused # {}
  /\ callGateway(Script[nextWrite], Fresh)
  /\ nextWrite' = nextWrite + 1
  /\ UNCHANGED <<arrived, completed, claims, stamp, followUps, box, boxes, proxy, gatewayTrouble, auditRow, backend,
                 retried, late, gap>>

\* The agent repeats a call whose error said it may.
RetryCall(i) ==
  /\ box # 0 /\ nextWrite # 0 /\ result[i] = "retryable" /\ Unused # {}
  /\ callGateway({k[2] : k \in callKeys[i]}, Fresh)
  /\ retried' = TRUE
  /\ UNCHANGED <<arrived, completed, claims, stamp, followUps, nextWrite, box, boxes, proxy, gatewayTrouble, auditRow,
                 backend, late, gap>>

\* The result event: every claim is completed.
TurnEnds ==
  /\ box # 0 /\ nextWrite = Len(Script) + 1 /\ Waiting = {}
  /\ claims' = {} /\ followUps' = {} /\ nextWrite' = 0 /\ completed' = completed \cup claims
  /\ UNCHANGED <<arrived, stamp, counter, box, boxes, proxy, gatewayTrouble, wire, auditRow, backend, notes,
                 late, gap>>

\* The tool's own timeout; whatever comes later is not heard.
CallTimesOut(i) ==
  /\ i \in Waiting /\ Trouble
  /\ result' = [result EXCEPT ![i] = "retryable"]
  /\ UNCHANGED <<turn, box, boxes, proxy, callAt, callKeys, auditRow, backend, notes, late, gap>>

----------------------------------------------------------------------------
(* The signing proxy.                                                       *)

\* What the caller hears, and its own audit message, if it still listens.
Answer(i, r) ==
  /\ callAt' = [callAt EXCEPT ![i] = "ended"]
  /\ result' = [result EXCEPT ![i] = IF @ = "waiting" THEN r ELSE @]

\* The token the call carries is that of the container that makes it; a call
\* of a container that ended carries a token that is not live any more.
verifyProxyToken(i) == result[i] # "lost" /\ box # 0 /\ token[box] = "live"

allowRate == used < RateLimit

\* The intent row cannot be written: nothing is signed.
IntentFails(i) ==
  /\ gateUp /\ callAt[i] = "sent" /\ verifyProxyToken(i) /\ allowRate /\ Trouble
  /\ used' = used + 1
  /\ Answer(i, "retryable")
  /\ UNCHANGED <<turn, box, boxes, token, gateUp, callKeys, auditRow, backend, notes, late, gap>>

\* Checked, audited as an intent, signed and forwarded in one turn.
processSigningProxyRequest(i) ==
  /\ gateUp /\ callAt[i] = "sent" /\ verifyProxyToken(i) /\ allowRate
  /\ used' = used + 1
  /\ auditRow' = [auditRow EXCEPT ![i] = "intent"]
  /\ callAt' = [callAt EXCEPT ![i] = "forwarded"]
  /\ atBackend' = atBackend \cup {i}
  /\ UNCHANGED <<turn, box, boxes, token, gateUp, gatewayTrouble, callKeys, result, committed,
                 commits, served, notes, late, gap>>

\* No live token: 401.  Over the rate: 429.  Neither may be repeated.
RefuseRequest(i) ==
  /\ gateUp /\ callAt[i] = "sent" /\ ~(verifyProxyToken(i) /\ allowRate)
  /\ Answer(i, "refused")
  /\ UNCHANGED <<turn, box, boxes, proxy, gatewayTrouble, callKeys, auditRow, backend, notes, late,
                 gap>>

\* A group without a key on the host, or a body that names another group:
\* audited as an error, never signed.
RefuseAudited(i) ==
  /\ gateUp /\ callAt[i] = "sent" /\ verifyProxyToken(i) /\ allowRate /\ Trouble
  /\ used' = used + 1
  /\ auditRow' = [auditRow EXCEPT ![i] = "error"]
  /\ Answer(i, "refused")
  /\ UNCHANGED <<turn, box, boxes, token, gateUp, callKeys, backend, notes, late, gap>>

\* finalizeGatewayProxyAudit: best effort, and only on an intent row.
finalize(i, outcome) ==
  \/ /\ auditRow' = [auditRow EXCEPT ![i] = IF @ = "intent" THEN outcome ELSE @]
     /\ UNCHANGED <<gatewayTrouble, gap>>
  \/ UNCHANGED auditRow /\ gap' = gap \cup {i} /\ Trouble

BackendAnswers(i) ==
  /\ gateUp /\ callAt[i] = "answered"
  /\ finalize(i, "ok") /\ Answer(i, "ok")
  /\ UNCHANGED <<turn, box, boxes, proxy, callKeys, backend, notes, late>>

\* The proxy's timeout, or a lost connection; the backend may work on it yet.
ForwardFails(i) ==
  /\ gateUp /\ callAt[i] \in {"forwarded", "answered"} /\ gatewayTrouble < MaxGatewayTrouble
  /\ gatewayTrouble' = gatewayTrouble + 1
  /\ auditRow' = [auditRow EXCEPT ![i] = IF @ = "intent" THEN "error" ELSE @]
  /\ Answer(i, "retryable")
  /\ late' = late \cup {i}
  /\ UNCHANGED <<turn, box, boxes, proxy, callKeys, backend, notes, gap>>

RateWindowEnds ==
  /\ used = RateLimit
  /\ used' = 0
  /\ UNCHANGED <<turn, box, boxes, token, gateUp, gatewayTrouble, wire, auditRow, backend, notes,
                 late, gap>>

TokenExpires ==
  /\ box # 0 /\ token[box] = "live" /\ Trouble
  /\ token' = [token EXCEPT ![box] = "expired"]
  /\ UNCHANGED <<turn, box, boxes, used, gateUp, wire, auditRow, backend, notes, late, gap>>

----------------------------------------------------------------------------
(* The backend.                                                             *)

\* The operations of a request at once; a key seen before is replayed.
BackendRuns(i) ==
  LET new == callKeys[i] \ committed
  IN /\ i \in atBackend
     /\ atBackend' = atBackend \ {i} /\ served' = served \cup {i}
     /\ committed' = committed \cup new
     /\ commits' = [c \in Ops |-> commits[c] + Cardinality({k \in new : k[2] = c})]
     /\ callAt' = [callAt EXCEPT ![i] = IF @ = "forwarded" THEN "answered" ELSE @]
     /\ UNCHANGED <<turn, box, boxes, proxy, gatewayTrouble, callKeys, result, auditRow, notes, late,
                    gap>>

----------------------------------------------------------------------------
(* Ends.                                                                    *)

revokeProxyTokensForSession == token' = [b \in Boxes |-> IF token[b] = "live" THEN "revoked" ELSE token[b]]

Unheard == [i \in Ids |-> IF result[i] = "waiting" THEN "lost" ELSE result[i]]

\* The container dies under the host: its turn will run again.
ContainerDies ==
  /\ gateUp /\ box # 0 /\ Trouble
  /\ box' = 0 /\ claims' = {} /\ followUps' = {} /\ nextWrite' = 0 /\ counter' = NoCounter
  /\ result' = Unheard
  /\ revokeProxyTokensForSession
  /\ UNCHANGED <<arrived, completed, stamp, boxes, used, gateUp, callAt, callKeys, auditRow, backend, notes,
                 late, gap>>

\* The host ends; the container runs on and finds no proxy.
HostEnds ==
  /\ gateUp /\ Trouble
  /\ gateUp' = FALSE /\ used' = 0
  /\ late' = late \cup {i \in Ids : callAt[i] \in {"forwarded", "answered"}}
  /\ callAt' = [i \in Ids |-> IF callAt[i] \in {"forwarded", "answered"} THEN "ended" ELSE callAt[i]]
  /\ result' = [i \in Ids |-> IF result[i] = "waiting" /\ callAt[i] # "sent" THEN "retryable" ELSE result[i]]
  /\ UNCHANGED <<turn, box, boxes, token, callKeys, auditRow, backend, notes, gap>>

ProxyUnreachable(i) ==
  /\ ~gateUp /\ callAt[i] = "sent"
  /\ Answer(i, "retryable")
  /\ UNCHANGED <<turn, box, boxes, proxy, gatewayTrouble, callKeys, auditRow, backend, notes, late,
                 gap>>

\* cleanupOrphans, cleanupProxyRuntimeOnBoot, reconcileOrphanedProxyAudit.
HostStarts ==
  /\ ~gateUp
  /\ gateUp' = TRUE
  /\ box' = 0 /\ claims' = {} /\ followUps' = {} /\ nextWrite' = 0 /\ counter' = NoCounter
  /\ result' = Unheard
  /\ revokeProxyTokensForSession
  /\ auditRow' = [i \in Ids |-> IF auditRow[i] = "intent" THEN "error" ELSE auditRow[i]]
  /\ UNCHANGED <<arrived, completed, stamp, boxes, used, gatewayTrouble, callAt, callKeys, backend, notes,
                 late, gap>>

Next ==
  \/ mintProxyToken \/ TurnStarts \/ handleGatewayExecute \/ TurnEnds
  \/ \E r \in Rows : Arrive(r) \/ ClaimFollowUp(r) \/ KeepFollowUp(r) \/ ReleaseFollowUp(r)
  \/ \E i \in Ids :
       \/ RetryCall(i) \/ CallTimesOut(i) \/ IntentFails(i) \/ processSigningProxyRequest(i)
       \/ RefuseRequest(i) \/ RefuseAudited(i) \/ BackendAnswers(i) \/ ForwardFails(i)
       \/ BackendRuns(i) \/ ProxyUnreachable(i)
  \/ RateWindowEnds \/ TokenExpires \/ ContainerDies \/ HostEnds \/ HostStarts

Spec == Init /\ [][Next]_vars

----------------------------------------------------------------------------
(* Properties.                                                              *)

\* However often a turn runs, no write of its script is committed twice: a
\* second run derives the keys of the first.  It takes a retry by the agent,
\* which counts as another write, or other claims than at the first write, to
\* break it.
WritesOnce == \A c \in Ops : commits[c] > Wanted(c) => (regrouped \/ retried)

\* Equal writes a turn means to make twice are made twice: when every call of
\* a run was answered ok, the backend has committed each of them.
NoWriteSwallowed ==
  (nextWrite = Len(Script) + 1 /\ Waiting = {} /\ ~regrouped
     /\ \A i \in Ids : result[i] \in {"none", "ok", "lost"})
  => \A c \in Ops : commits[c] >= Wanted(c)

\* The backend never works on a call the host has no audit row of, and a row
\* that says ok is about a call the backend worked on.  A row that says error
\* about such a call is one whose answer came too late, or that a stop cut.
AuditHonest ==
  \A i \in Ids :
    /\ i \in atBackend \cup served => auditRow[i] # "none"
    /\ auditRow[i] = "ok" => i \in served
    /\ (auditRow[i] = "error" /\ i \in served) => i \in late \cup gap

\* While the host is up the only token that opens the proxy is that of the
\* running container: it dies with the container and with the host.
TokenDiesWithContainer ==
  gateUp => \A b \in Boxes : token[b] = "live" => b = box

\* Writes to the business systems are made as often as a turn means them, are
\* audited as they happened, and pass on the running container's token only.
WritesAccounted ==
  /\ TypeOK
  /\ WritesOnce
  /\ NoWriteSwallowed
  /\ AuditHonest
  /\ TokenDiesWithContainer
=============================================================================
