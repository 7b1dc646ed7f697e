# Formal models of AgentDesk

TLA+ models of the AgentDesk platform: the parts of the host process and of the
agent container in which several actors share tables, queues, files and
containers, and in which a crash, a timeout or an unlucky order of events can
lose, duplicate, misdirect or strand a message. Paths below are relative to the
repository root.

## 1. The system

A **host** process (Node, `src/`) receives messages from channels, routes each
one to a session, keeps one **container** per session running while there is
work (`container/agent-runner/`), and delivers what the container writes. Host
and container share two SQLite files per session: `inbound.db`, written by the
host, and `outbound.db`, written by the container. A central database holds
sessions, wirings, grants, pending cards and audit rows. **Operator scripts**
(`scripts/`) are further processes that write the same tables, and an operator's
editor writes the same files.

| component | state | operations | hard behaviour | what makes it correct |
|---|---|---|---|---|
| Feishu events (`src/channels/feishu.ts`, `feishu/roster-consent.ts`) | `inbound_dedup`, transports, grants | event over webhook or long connection, click, consent, leave, setup, teardown | one event over two transports, resends, failure after dedup | one effect per event; consent is the giver's last wish |
| Feishu sends (`src/channels/feishu.ts`) | token cache and its one request, parts of a message | authenticate, upload, send a part, fall back, page through members | answers lost after the effect, expiring token shared by callers | success shows everything once; a member is not called a stranger |
| ingress (`src/router.ts`, `src/db/inbound-ingress.ts`, `scripts/replay-inbound.ts`) | `inbound_dedup`, `inbound_ingress`, `messages_in` | persist, route, fan out, delete or mark failed, replay | stop in the middle, one of several agents failing, replay of what was routed | nothing is lost without a trace; a copy needs a replay |
| registration (`src/modules/permissions/`) | pending channel and sender cards, wirings, memberships | request, click, name, route again | several requests and clicks across awaits | a request stays answerable, is carried out once, serves whom it admits |
| approvals and self-modification (`src/modules/approvals/`, `self-mod/`) | `pending_approvals`, promises in memory, audit | request, card, click, timer, expiry, boot sweep | late and double clicks, timer against click, stop during apply | what was applied, answered and audited agree |
| questions (`src/modules/interactive/`, `mcp-tools/interactive.ts`) | `pending_questions`, response rows | ask, show, click, cancel word, prune | retried card against answer, a cancel list that grows old | no answer swallowed; cancel touches only its author's |
| agent to agent (`src/modules/agent-to-agent/`) | destinations, organisations, sessions, origin user | send, pick the session, create a child | untrusted rows, shared agents of several users | users stay apart |
| topology (`src/enterprise-autowire.ts`, `scripts/init-enterprise-topology.ts`) | groups, edges, configuration, prompts, wiring | script, clone for a chat, create | script and host at once, stop between writes | a clone can start, ask and hear its workers |
| container pool (`src/container-runner.ts`, `src/admission-queue.ts`, `src/container-runtime.ts`) | `activeContainers`, `wakePromises`, the queue and its side tables | wake, spawn, close, kill, hand-off, shutdown, boot cleanup | racing wakes, failing spawns, slot hand-off, restart with containers alive | the cap; one container per session; due work gets a container |
| container assembly (`src/container-runner.ts`, `src/container-config.ts`, `src/claude-md-compose.ts`, `src/modules/mount-security/`) | `container.json`, skills, `CLAUDE.md`, allowlist cache | read, write back, mount, link, compose, build | an editor and the host on one file, an await in the middle, a torn file | a container runs with what was saved; nothing is destroyed |
| session inbound (`poll-loop.ts`, `src/host-sweep.ts`) | `messages_in`, `processing_ack`, the turn's claims | claim, turn, follow-up, acknowledge, sweep, reset, requeue | two processes that see each other's table late, crash between output and ack | no row closed by silence; none answered twice by one container; triggers settle |
| routing phase (`container/agent-runner/src/routing/`, `src/modules/classification-log/`) | gate row, classification log | decide, retry, fall back, delegate, enforce, link the outcome | gate and delegation surviving a crash, a tool process with its own memory | a turn works under its own gate and is logged as what it did |
| OpenAI provider (`providers/openai.ts`) | three copies of the conversation, the follow-up slot | request, tool loop, compaction, fallback, follow-up, abort | follow-ups against a turn, refused continuations, crash | what was said stays; silence answers nobody |
| gateway calls (`mcp-tools/gateway.ts`, `src/gateway-signing-proxy.ts`) | claims, occurrence counter, token, audit row | write, bulk, retry, sign, forward | a turn run twice, both ends timing out on their own | a write is made as often as meant and audited as it happened |
| outbound delivery (`src/delivery.ts`, `src/db/session-db.ts`) | `messages_out`, `delivered`, the outbox directory, in-flight sets | tick, drain, send, mark, retry, dead-letter, notify, shutdown | two pollers, awaits, timeouts that do not cancel, stops, a requeue from another process | a delivered row was sent; nothing at rest is sent; every row settles |
| roster messages (`src/db/dm-grants.ts`, `deliverRosterMessage`, `src/roster-*.ts`) | `dm_grants`, `dm_rate_ledger`, markers | consent, opt-out, leave, reserve, send, roll back, invite | timed-out sends that land, rollback across windows, withdrawal during a send | cap and rates hold; the books balance; a withdrawal is honoured |
| scheduling (`src/modules/scheduling/`, `mcp-tools/scheduling.ts`) | task rows with recurrence | schedule, update, pause, resume, cancel, recur | commands against a run and against the two statements of the recurrence | a series does what its last commands said |
| archive and retention (`src/session-archive.ts`, `src/scope-retention.ts`) | session status, directories, tarballs, markers | archive, hard delete, expire a scope | tar across an await, new messages meanwhile, stop between delete and status | nothing needed is destroyed, nothing too early, nothing unaudited |
| message numbers (`src/session-manager.ts`, `db/messages-out.ts`) | `seq` of both tables | number, look up | three processes number from stale maxima | a number keeps its meaning |
| chat SDK state (`src/state-sqlite.ts`) | locks, bounded queues | acquire, extend, release, force, enqueue, dequeue | old tokens, index restart | locks exclude; queues keep order |
| webhook server, other channels, circuit breaker, metrics, migrations | - | I/O, formatting | - | not modelled, see section 6 |

Interactions: a channel event becomes a ledger row and is fanned out to the
wired agents; the router writes an inbound row, awaits the channel's progress
reaction and wakes the container, which is assembled and started; the container
claims rows, decides a route, asks the model, calls business systems through the
signing proxy, answers into `messages_out` and acknowledges; the sweep copies
acknowledgements, wakes, kills, retries, recurs, expires and archives; the
delivery loops drain `messages_out` to the channel, to other agents or into
system actions; `dlq.ts`, `requeue-inbound.ts` and `replay-inbound.ts` put back
what was given up.

## 2. Modules

| module | models | specification |
|---|---|---|
| `Delivery` | outbound delivery with `dlq.ts`, shutdown, restart | `Spec`, `FairSpec` |
| `OutboxContract` | what delivery promises per row: owed, then delivered after at least one copy, or dead; a dead row may be revived | `Spec` |
| `RosterGrants` | grants, rate ledger, roster sends, invites of one scope | `Spec` |
| `ContainerPool` | pool, admission queue, sweep's wake, stop and restart | `Spec`, `FairSpec` |
| `SessionInbound` | one session's inbound tables, poll loop, turns, sweep | `Spec`, `FairSpec` |
| `FeishuEvents`, `FeishuSends` | the two sides of the Feishu channel | `Spec` |
| `Ingress` | a message from the adapter into the sessions, replay | `Spec` |
| `Registration` | how a chat is wired and a sender admitted | `Spec` |
| `Approvals` | self-modification and credential requests | `Spec` |
| `Questions` | `ask_user_question` and its answers | `Spec` |
| `Topology`, `AgentMesh` | how agents and edges come to be; messages between agents | `Spec` |
| `Spawn` | what a container is started with | `Spec` |
| `ProviderTurn`, `RoutedTurn` | the provider's conversation; the routing phase | `Spec` |
| `GatewayCalls` | business writes and the signing proxy | `Spec` |
| `TaskSeries` | a recurring task | `Spec` |
| `SessionLife` | archive, hard delete, scope retention | `Spec` |
| `MessageSeqs` | the numbering of both message tables | `Spec` |
| `ChatState` | locks and queues of the chat SDK | `Spec` |
| `MC*` | the instances for TLC; the sum runs | |
| `DeliveryProofs`, `SessionInboundProofs`, `ContainerPoolProofs`, `RosterGrantsProofs` | theorems about the four core modules | |
| `FrontDoorProofs`, `ArrivalProofs` | theorems about the components of `MCFrontDoor` | |
| `HousekeepingProofs` | theorems about the components of `MCHousekeeping` | |
| `AgentTurnsProofs` | theorems about the components of `MCAgentTurns` | |

Definitions carry the names of the functions they model where there is one;
actions without a function of that name are the continuation of a function after
an await, or something done from outside (a click, an edit, a stop). One step
covers what one JavaScript task does without awaiting; what happens between two
awaits is one action with all its calls. Definitions marked `Mutant` are
plausible bugs: each is a changed form of the definition after it, used to show
that a property notices the change, and no specification refers to them.
Variables commented `history` record what happened and guard no step.

**Delivery.** `row` is the `delivered` table, `outbox` the files on disk. Each
poller has `Concurrency` workers; a worker's `pc` is its place in `drainFn`. The
adapter call is split into the platform's effect (`Accept`) and the reply, so a
timeout or an error may hide an effect; a timed-out call stays in `late` and may
take effect at any time. `Stop` stands for a crash at any moment and for a
graceful exit whose wait timed out. The clock is abstract: a backoff is
`waiting` until `RetryWindowOpens`.

**RosterGrants.** One action per stretch of `deliverRosterMessage` between
awaits. The gateway's and the membership's question are one await (`checked`),
answered by allow, deny or "no longer a member". Rate windows are tumbling
windows over a small clock. Invites charge and never refund.

**ContainerPool.** `boxes` counts the docker containers on a session's
directory, which the host's maps (`active`, `wakes`) may not know about.

**SessionInbound.** `ack` is `processing_ack`; `stale` is a claim past its
tolerance. A provider is described by `Streaming` (the stream stays open until
`query.end()`), `Routed` (turns run under a routing gate) and `EarlyClose`. Each
pushed input has one result. A kill by the sweep and the reset of its rows are
one step, because `killContainer` is synchronous. Most slash commands are left
out; `/clear` is answered at once.

**FeishuEvents.** `transports` are the webhook server and the long connection,
`copies` how often the platform sent an event, `requests` what has arrived and
not been handled. A handler first inserts into `inbound_dedup` (`remembered`),
then acts; an error in the second part answers 500 and the resend is a
duplicate. Membership events are not deduplicated: they are idempotent.

**FeishuSends.** A job is one call of `deliver`: images, chunks of text, a card
or an edit, each an API call whose effect and answer are two steps. `inflight`
is the shared token request. A job that fails is tried again by the delivery
loop; `display[j][t]` is what attempt t left in the chat, in order. The
membership check reads pages up to its budget.

**Ingress.** `route` is the routing call of each process (host or replay) for
each message: dedup, ledger insert, interceptors, one action per wired agent
with its engage mode, gates and session, then delete or mark failed. `Stop` may
fall between any two. The replay process has no permissions module.

**Registration.** A request checks, awaits the approver's direct chat, inserts
its row and awaits the card. Clicks on "new agent" wait for a name in free text.
The step that offers a list of existing agents is left out.

**Approvals.** Self-modification rows are inserted before their card and applied
across an await; credential rows after it, with a promise and a timer in memory.
The expiry sweep claims rows, audits and deletes; a start sweeps what the old
process left.

**Questions.** The asking tool polls `answers`; the card is delivered, retried
or dead-lettered; a click writes the response and deletes the row in two
statements; the cancel run reads its list once and awaits between questions.

**AgentMesh.** `lanes` are sessions with owner, root and depth, `mail` their
inboxes. A send names a target, a row it answers and a user, none of them
trusted. The host checks edge, organisation and depth, then picks the lane.

**Topology.** The script and the host write folders, edges, configuration,
prompts and wirings one statement at a time and may end between any two.

**Spawn.** `file` is `container.json`: whether it parses and what it sets. The
operator's editor may leave it half written; the host reads, writes back and
mounts it around an await for the vault; `box` holds what a container was
assembled with and what its runner read. Skills, `CLAUDE.md` with its migration
and the allowlist cache are prepared on the way.

**ProviderTurn.** A conversation is the set of prompts a model request would
show. `memory`, `stored` and `cont` are the poll loop's, the database's and the
query's copy. A follow-up fills the one slot and aborts the turn; the endpoint
may refuse a continuation or the API altogether; compaction replaces prompts by
a summary. `told` is what the conversation owes the model; `trimmed` is what was
cut off a transcript: a query that fails after it stored such a copy leaves the
loop with the whole conversation and the database with the shorter one, and only
what was cut may be missing after a restart. `NextTurn` is the code's branch for
a follow-up found after a result; the proof shows that the slot is empty there.

**RoutedTurn.** The routing model's answer is any legal one. `gate` is a row that
survives the container; the tools' process keeps its own classification. The
host takes `outRows` in order and links outcomes.

**GatewayCalls.** A turn follows a script of writes. `arrived` are the rows of
`messages_in`, `completed` those acknowledged for good, and a poll takes the
others. The key comes from the claimed rows, the operation and its occurrence. A
call passes token, rate,
intent row, signature and forwarding; container and proxy time out separately;
the backend (external) commits a key once.

**TaskSeries.** `status[k]` is occurrence k in `messages_in`. Commands are
applied by the delivery loop at least once; the recurrence inserts the next row
and clears the old flag in two statements.

**SessionLife.** Days are the unit. `taring` is an archive between tar and the
second look; `cutArchive` is one that stopped between delete and status.

**MessageSeqs.** Host numbers even, container odd; each writer reads maxima in
one statement and inserts in another.

**ChatState.** A lock row with token and deadline; a queue of indexed rows.

## 3. Runs

Twelve configurations; every passing run explores its whole state space.

| run | instance | checks |
|---|---|---|
| `delivery_safety` | a chat row with an attachment and a system action, 2 attempts, 1 requeue each, 1 stop, both pollers | `TypeOK`, `DeliveredMeansShown`, `AttachmentsTravel`, `AttemptsOrderedAndBounded`, `NeverResentAtRest`, refinement `ImplementsContract` |
| `delivery_settles` | chat, invalid, unrouted (deferred) and usage rows, 1 stop, `FairSpec` | `DrainsSettle`, `DeliveredIsFinal` |
| `roster_books` | 2 messages and an invite on 2 rate keys with windows of length 1 and 2, no send cap, errors for sends that landed | `TypeOK`, `BooksBalance`, `RatesHeld`, `WithdrawalSticks`, `WithdrawalStopsNewSends` |
| `roster_optout_lost` | 1 message, cap 1 | violation of `WithdrawalSticks` |
| `pool_books` | 3 sessions of 2 users, cap 1, 3 faults (at most 1 a failed docker stop), 1 stop of the host; the two sessions of one user are symmetric | `TypeOK`, `PoolBooksSound`, `SecondContainerNeedsFailedStop` |
| `pool_live` | the same with 1 fault and 1 stop, `FairSpec` | `DueEventuallyRuns` |
| `inbound_turns` | 3 rows, triggers first and last with context between, window 2, routed streaming provider, 2 faults, 1 failed wake, 1 requeue | `TypeOK`, `CompletedMeansAnswered`, `AnsweredOncePerContainer`, `QueryOwnsItsClaims` |
| `inbound_settles` | 2 triggers, no routing gate, early closes, 2 faults, `FairSpec` | `TriggersSettle` |
| `inbound_poison` | 1 row that crashes every container, `FairSpec` | violation of `TriggersSettle` |
| `front_door` | `Ingress`, `Registration`, `Approvals`, `Questions`, `FeishuEvents`, `FeishuSends`, `Topology`, `AgentMesh`; 1.6 million states | `InboundAccounted`, `AdmissionSound`, `TrailHonest`, `ExpiredStaysDead`, `AnswersArrive`, `EventsHonoured`, `SendsHonest`, `ClonesWork`, `UsersApart` |
| `housekeeping` | `TaskSeries`, `SessionLife`, `GatewayCalls`, `MessageSeqs`, `ChatState`, `RosterGrants` with 3 messages on a grant of 2 sends; 1.2 million states | `SeriesAsCommanded`, `FilesKept`, `WritesAccounted`, `NumberingSound`, `LocksAndQueues`, `CapHeld` |
| `agent_turns` | `ProviderTurn`, `RoutedTurn`, `Spawn`; the prompts are symmetric; 2.6 million states | `ConversationKept`, `RoutingHolds`, `SpawnFaithful` |

**Sum runs.** The last three runs hold several components that share no state in
the model. `focus`, chosen in the initial state and never changed, says which
component a behaviour is about; the others stay where they start. The run
therefore explores the union of the components' behaviours, not their product,
and each property is exactly the component's own.

**What the compound properties say.** Each is a conjunction of the module's
`TypeOK` and named parts:

| property | parts |
|---|---|
| `AttemptsOrderedAndBounded` | first attempts go out in order; a row is tried at most its budget, per requeue and stop |
| `DrainsSettle` | every row is delivered or dead in the end; every drain ends |
| `BooksBalance` | `sends_used` and every rate window hold the charges that stand |
| `PoolBooksSound` | the cap holds; the queue's tables agree |
| `InboundAccounted` | `NoSilentLoss`, `CopiesExplained`, `ReceivedMeansInterrupted`, `RefusalStoresNothing` |
| `AdmissionSound` | `PendingAnswerable`, `OneWiringPerRow`, `AdmittedIsServed` |
| `TrailHonest` | `ToolRequestsPass`, `AppliesAudited`, `DecisionsLeaveATrail`, `TrailMatchesDecision`, `RowsHaveKeepers` |
| `AnswersArrive` | `NoAnswerSwallowed`, `SecondAnswerExplained`, `CancelOnlyOwn` |
| `EventsHonoured` | `EffectOnce`, `ConsentIsLastWish`, `ScopedAnswers`, `LossNeedsFailure`, `ConnectedMeansReachable` |
| `SendsHonest` | `OneRefresh`, `SuccessShowsAll`, `TwiceNeedsLostAnswer`, `NoMeansAbsent` |
| `ClonesWork` | `EdgesPaired`, `CloneDelegates`, `CloneBoots`, `NoOrphanClone` |
| `UsersApart` | `OwnLanes`, `OriginsSpoke`, `RootMeansOwner` |
| `SeriesAsCommanded` | `OneLiveOccurrence`, `CancelSticks`, `SeriesGoesOn`, `PauseHolds`, `UpdatesCarried` |
| `FilesKept` | `ArchiveLosesNothing`, `MessagesLand`, `OnePlace`, `RetentionHonoured`, `RemovalsAudited` |
| `WritesAccounted` | `WritesOnce`, `NoWriteSwallowed`, `AuditHonest`, `TokenDiesWithContainer` |
| `NumberingSound` | `NumbersResolve`, `RefusalNeedsRace` |
| `LocksAndQueues` | `LockExclusive`, `QueueInOrder` |
| `ConversationKept` | `SilenceNeedsFollowUp`, `ContextKept`, `CompactionForks` |
| `RoutingHolds` | `GateIsOwn`, `RoutedStaysHome`, `DelegatedOnce`, `OutcomeTrue`, `DelegationLinked` |
| `SpawnFaithful` | `SettingsSurvive`, `StartedAsSaved`, `RunnerAgrees`, `SkillsFollow`, `OneList`, `NotesSurvive` |

Where the code can miss a goal by a known race, the property names that race by
a history variable (`SecondAnswerExplained`: a second response row needs one of
three races; `WritesOnce`: a write made twice needs changed claims or an agent's
own retry). It then says that nothing else can bring the bad state about.

**Bounds, and why they are enough.** Two attempts are the least for which a
retry, a dead letter and a retry racing a late success all happen. One stop
already separates what is durable from what is not, and a requeue after a dead
letter gives the second budget. Three sessions on one slot are the least for
which the queue has an order to get wrong; three faults reach the eviction
(`MAX_ADMISSION_FAILURES`). Two windows of the clock are the least for which a
rollback crosses a boundary. Three rows with a window of two make a batch split
and leave a row outside the window. In the sum runs two of everything that
competes (messages, people, cards, credentials, questions, requests, turns,
sessions, lock holders, writers) and two mishaps let a mishap hit the recovery
from another; registration, events, topology, routing and spawning have one
mishap, as theirs have many places to fall and their recoveries are statements
of the next call. Three occurrences let a series recur from a recurred row.
Three prompts let a follow-up meet a follow-up, and three mishaps of the provider
are the least for which a transcript is cut, its query fails and the container
dies before the next one. Four lanes are an entry session
and a worker session for each of two users. Three group pages with a budget of
two let the budget cut. Every bound is a constant named `Max...`, `Last...` or
described in its module.

The roster and sum runs turn off deadlock checking: a roster whose messages are
all delivered or given up, or a person with no click left within the bounds, has
nothing to do. Every other model can always take a step.

**Fairness.** `Delivery!FairSpec`: the event loop runs what is ready, the sweep
timer rearms, clocks advance, adapter calls under `withDeliveryTimeout` end, a
stopped host is restarted by its service manager (`deploy/`). The calls without
that timeout, the progress reaction (`src/delivery.ts:378`) and the failure
notice (`src/delivery.ts:422`), end only if the platform answers: that is an
assumption about channels, not a guarantee of the code, and the part of
`DrainsSettle` about drains rests on it. `ContainerPool!FairSpec`: spawns end,
the sweep comes round, containers work, every conversation ends, the host is
restarted. `SessionInbound!FairSpec`: the container makes progress, the sweep
comes round, backoffs elapse; the one strong fairness is on the sweep's ceiling
kill of a stream that is parked, whose heartbeat grows older at every round. No
fairness is assumed of the router, of an operator or of faults.

### What the violation runs show

- `roster_optout_lost`: `rollbackRosterReservation` clears `revoked_at` whenever
  `sends_used` has reached `max_sends`; an opt-out during that send is undone,
  against the comment at `src/db/dm-grants.ts:748`.
- `inbound_poison`: the sweep wakes before it resets, the fresh container clears
  the claims, so the tries of a message that crashes every container are never
  counted, against `docs/RUNBOOK.md:316`.

### Known deviations that no run states

The models contain these behaviours, and the properties above are stated so that
they hold in spite of them.

- Delivery: a row without routing fields is recorded as delivered
  (`src/delivery.ts:737`); a tick in progress starts drains after the polls were
  flagged off (`src/delivery.ts:253`).
- Roster: a timed-out send at the cap is refused on its retry because its own
  reservation revoked the grant (`src/delivery.ts:891`); a standing reservation
  skips the revocation check (`src/db/dm-grants.ts:657`); a member who has not
  answered a card may get a second one (`src/roster-invite.ts:100`).
- Pool: when `docker stop` fails the container runs on and the session is woken
  beside it, against "one folder = one session = one container when running"
  (`docs/architecture.md:866`); a wake in flight at shutdown leaves a container
  until the next boot (`src/container-runner.ts:567`); spawns in flight do not
  count for fairness (`src/container-runner.ts:260`), so a user may wait behind
  others whose conversation never ends.
- Inbound: a stream that ends without a result has its batch marked completed
  (`poll-loop.ts:695`), against ADR-0062; context rows can fill the window in
  front of an older trigger (`messages-in.ts:70`); outside a routing gate a
  latched streaming query ends only by the sweep's ceiling kill
  (`poll-loop.ts:862`).
- Feishu: an event is remembered before its effect, so one whose handler fails
  is lost with its resend; a timed-out card that landed is followed by its plain
  text; a participant beyond the page budget is called absent although the
  comment says the check bails out (`src/channels/feishu.ts:1113`); any database
  error while inserting a grant counts as "taken".
- Ingress: the fan-out swallows the failed write of one agent; a stop between
  dedup and ledger loses the message; the replay process loads the router alone,
  so a message for an agent with a session per user is dropped and its row
  deleted (`scripts/replay-inbound.ts:102`).
- Registration: a pending row whose card never went out blocks later requests
  (`src/modules/permissions/sender-approval.ts:18`).
- Approvals: a second approve click during the awaited handler applies the
  change twice, audited twice; expiry and stale clicks do not tell the agent.
- Questions: a retried card or a late cancel list makes a second response row,
  which nobody reads.
- Tasks: a pause that meets a run is overwritten by its ack; a cancel between
  completion and recurrence is lost; a dead-lettered occurrence ends its series.
- Archive: rows written without `last_active` while the tar runs are not seen; a
  stop between delete and status makes messages fail until the next sweep.
- Numbers: rows the host writes into `messages_out` may be even.
- Gateway: the key changes when a follow-up is claimed in the middle of a turn;
  a retry after a timeout has a new key.
- Mesh: the depth guard counts replies; a reused session keeps its old depth; a
  group without organisation joins two organisations.
- Topology: a clone cut by a stop is used without its edges; workers added later
  are not mirrored into existing clones.
- Provider: a follow-up aborts the turn and its prompt is acknowledged though
  never answered (`poll-loop.ts:964`); a reminder after compaction is
  overwritten by a follow-up; a stale session met by a follow-up runs the first
  prompt again.
- Routing: a stop between `writeDirectDelegation` and `markCompleted` delegates
  twice; a clarification in plain text gets no outcome.
- Spawn: a save between the host's read and its write-back is lost, for minutes
  in `buildAgentGroupImage`; the runner starts with defaults from a file that
  does not parse; the allowlist is cached for the life of the process, a bad one
  too.

## 4. Proofs

TLC shows the properties on small instances; the theorems below hold for every
value of the constants that satisfies the named assumptions. Every assumption is
evaluated by TLC on the runs' instances. They say that bounds and limits are
natural numbers (positive where the code needs one: the cap, the window, the
attempts), that maps have their domains, and that a value standing for "none" is
not a member of the set it is used beside. Hypotheses beyond that are part of a
theorem's statement and listed with it.

**Core modules**

| module | theorem | statement |
|---|---|---|
| `DeliveryProofs` | `Invariance` | `Spec => []Inv` |
| | `TypeCorrect` | `Spec => []TypeOK` |
| | `NoPhantomDelivery` | `Spec => []DeliveredMeansShown` |
| | `NoBareSend` | `Spec => []AttachmentsTravel` |
| | `NoResendAtRest` | `Spec => NeverResentAtRest` |
| | `SuccessIsFinal` | `Spec => DeliveredIsFinal` |
| | `AttemptsSound` | `Spec => []AttemptsOrderedAndBounded` |
| | `DeliveryImplementsContract` | `Spec => ImplementsContract` |
| `SessionInboundProofs` | `Invariance`, `TypeCorrect` | `Spec => []Inv`, `Spec => []TypeOK` |
| | `ClaimsAreOwned` | `Spec => []QueryOwnsItsClaims` |
| | `AnsweredOnce` | `Spec => []AnsweredOncePerContainer` |
| | `NoSilence` | `~EarlyClose`: `Spec => []CompletedMeansAnswered` |
| `ContainerPoolProofs` | `Invariance`, `TypeCorrect` | `Spec => []Inv`, `Spec => []TypeOK` |
| | `BooksSound` | `Spec => []PoolBooksSound` |
| | `OneContainer` | `Spec => []SecondContainerNeedsFailedStop` |
| `RosterGrantsProofs` | `Invariance`, `TypeCorrect` | `Spec => []Inv`, `Spec => []TypeOK` |
| | `BooksAreBalanced` | `Spec => []BooksBalance` |
| | `LimitsHeld` | `Spec => []RatesHeld` |
| | `WithdrawalIsKept` | `MaxSends = 0`: `Spec => []WithdrawalSticks` |
| | `WithdrawalIsObeyed` | `MaxSends = 0`: `Spec => WithdrawalStopsNewSends` |
| | `CapIsHeld` | `~AmbiguousErrors`: `Spec => []CapHeld` |

The hypotheses mark where the code stops keeping the promise. A provider whose
stream may close early does complete rows by silence. With a cap on the grants
an opt-out can be undone (`roster_optout_lost`). An adapter that reports an
error for a send that landed makes the cap leak by the retries.

**Components of the sum runs**

| module | theorem | property | component |
|---|---|---|---|
| `FrontDoorProofs` | `TrailSafe` | `TrailHonest` | `Approvals` |
| | `ExpiredSafe` | `ExpiredStaysDead` (action property) | `Approvals` |
| | `AnswersSafe` | `AnswersArrive` | `Questions` |
| | `UsersSafe` | `UsersApart` | `AgentMesh` |
| | `SendsSafe` | `SendsHonest` | `FeishuSends` |
| `ArrivalProofs` | `EventsSafe` | `EventsHonoured` | `FeishuEvents` |
| | `AdmissionSafe` | `AdmissionSound` | `Registration` |
| | `ClonesSafe` | `ClonesWork` | `Topology` |
| | `InboundSafe` | `InboundAccounted` | `Ingress` |
| `HousekeepingProofs` | `ChatSafe` | `LocksAndQueues` | `ChatState` |
| | `NumbersSafe` | `NumberingSound` | `MessageSeqs` |
| | `FilesSafe` | `FilesKept` | `SessionLife` |
| | `SeriesSafe` | `SeriesAsCommanded` | `TaskSeries` |
| | `CapSafe` | `CapHeld`, where `~AmbiguousErrors` | `RosterGrants` |
| | `WritesSafe` | `WritesAccounted` | `GatewayCalls` |
| `AgentTurnsProofs` | `SpawnSafe` | `SpawnFaithful` | `Spawn` |
| | `RoutedSafe` | `RoutingHolds` | `RoutedTurn` |
| | `ConversationSafe` | `ConversationKept` | `ProviderTurn` |

A theorem about a sum run has an invariant `...Inv == focus = "x" => ...Kept`. A
step of another component leaves the component's variables alone, and a step of
its own is treated action by action, so the proof is the component's own. The
assumptions on a component's constants are in the module of the run. Three say
more than types: the agents of a fan-out are distinct and at least one
(`IngressAssumption`; the wirings of a chat are rows of different agents), a
script of writes is finite and so is each bulk call of it (`GatewayAssumption`),
and the page budget is positive (`SendsAssumption`; it is 20 in the code).

**The inductive invariants.** No property above is inductive by itself. What is
added, and why:

- *Delivery.* A row may be marked delivered only because the worker that marks
  it is in `accepted`, and nobody else touches that row meanwhile only because
  `inflightDeliveries` admits one drain per session. `Inv` adds `WorkerOK` (a
  busy worker's session is in `inflight`, its rows belong to that session, its
  current row is not among its remaining rows), `OneDrainPerSession`, `RowsOK`
  and `FilesKept`. The action properties and the refinement go through
  `TableStep`: every step is, on the delivered table, quiet, a new row, a new
  copy, a mark, a failure or a reopening, and each of those is a step or a
  stutter of the contract. `AttemptsInv` counts: calls made are covered by
  attempts recorded, requeues, stops and the one send no row records yet.
- *SessionInbound.* `Places`: a row that a turn keeps is claimed or acked, in
  one place only. `PromptsApart`: prompts of a query share no row, and none can
  be claimed again. `SaidIsOver`: what was answered is asked no more.
  `HeardBeforeAck`: what the next result will ack has been answered by then.
- *ContainerPool.* `Slots` (containers and admissions in flight never pass the
  cap), `Books` (an admission in flight is out of the queue until it fails) and
  `Boxes` (beyond the container of its slot a session has only those docker
  failed to stop). What the drain skips and keeps is computed by a recursive
  function over the queue; its prefixes are handled by a set of natural numbers
  without a least counterexample.
- *RosterGrants.* `Held` (a reservation belongs to a grant, and only a standing
  one is fresh), `Invited`, `LedgerUnderLimit`; a step moves a charge between
  the two finite sets that a window's sum counts. `Paid` for the cap: what
  landed, or may still land, is paid for, and the attempt that paid cannot fail.
- *Approvals, Questions, AgentMesh.* `Promise`: a credential request is decided
  once, by whoever holds its row. `QuestionKept`: a row that is gone left an
  answer, and an answer beside a row has an explanation. `LaneKept` and
  `MailKept`: a lane roots in a lane of the table, and mail came from a lane of
  the same user.
- *FeishuEvents, Registration, Topology.* `OnceKept`: an event that had its
  effect is remembered, or is not sent again. `RowKept`, `WiringKept`: pending
  rows have ids of their own, and one that led to a wiring does not come back.
  `ScriptKept`, `ProvisionKept`, `CloneKept`: at every stop of the script or of
  the provisioning the edges still owed are named by the run that owes them.
- *Ingress.* `CallSound`: every agent whose place in the fan-out is behind a
  routing call, and to whom the message is owed, is served: it has its row, or
  a recorded reason why not. `HostRows` and `ReplayPaid`: what a process wrote
  of a message is behind its call, and a replay has one copy left for every
  agent ahead of it; so copies are counted without looking at the order in
  which host and replay work. `LedgerKept`: a message without a ledger row is
  new or served, and a received one is being routed or was interrupted.
- *GatewayCalls.* `AsScripted`: as long as the claims stay and the agent repeats
  nothing, every call of every run carries the keys of a place of the script,
  the counter stands where the script stands, and each place passed had its
  answer. `Before(c, j)`, the writes of c before place j, is a cardinality, so
  the occurrence numbers need no induction over the script. `BackendKept`: the
  backend committed the keys of exactly the calls it served, and `commits` is
  their number, hence at most what the script wants. `CallKept` relates the
  place of one call to its audit row, and `TurnHeld` keeps the first row of a
  turn claimed, so that two runs of it share their anchor.
- *FeishuSends.* `Progress`: an attempt at part n has shown or named every image
  before n and shown the chunks before n in order, the last one with the names.
  `Apart`: unless an answer was lost, no image that is shown is named and no
  plain text stands beside its card; it is kept for the attempt under way, and
  `OnlyOnce` for those that are over. A part that throws is treated once
  (`PartThrown`, `ThrowStep`), for the refused call, the timer and the failed
  refresh, which throws in several jobs at a time.
- *ChatState, MessageSeqs, SessionLife, TaskSeries.* `LocksKept`: a deadline
  that still runs is the row's or was taken by force. `RacesKept`: until another
  row comes in between, what a writer read is still the maximum. `TarsKept`: if
  no message stamped the session since the tar began, only quiet rows came.
  `SeriesKept`, `PauseKept`, `LineKept`: unless it forked, the series is in one
  row, which has every update; commands are applied in order.
- *Spawn, RoutedTurn, ProviderTurn.* `HeldKept`: what the host holds between a
  read and the write is what was saved last, unless a save raced; `BoxKept`: a
  container is judged by the allowlist in memory. `PhaseKept`, `RowOf`,
  `CountKept`: until the runner wrote its decision no row carries it, and a
  delegation more than the crashes exists only once the turn is done. `Sound`: a
  conversation that names a previous response has no summary, and the endpoint
  keeps what is not sent again; `ToldKept`: each copy holds what it would be
  asked for if the next step continued from it; `AcksKept`: a row still to be
  acknowledged is in the turn, in the slot or talked over.

**What a proof attempt changed.** `ContextKept` was not true beyond two mishaps:
a query that stores a shortened transcript and then fails leaves two copies of
different length, and a crash makes the shorter one current. The history now
records what was cut (`trimmed`), counts a turn's own prompt as told, and the run
has a third mishap. In `GatewayCalls` a row that a turn had completed could
arrive again and be claimed by the next turn, which `processing_ack` prevents:
completed rows are now remembered, and the invariant that ties keys to the
script became inductive. In `FeishuSends` the chat was one sequence of which an
attempt's part was selected, and what a selection returns for every input needs
induction over data; it is now kept per attempt, and "the chunks in order" is
stated by positions, which says the same.

**Model-checked only.** Every invariant and every action property of the passing
runs is a theorem. What remains with TLC is liveness (`DrainsSettle`,
`DueEventuallyRuns`, `TriggersSettle`): the prover does not treat fairness.

## 5. Plan

Done: the four core modules, the contract, the modules around them from the
channel to the provider, and the theorems of section 4. What a next step would
be, in order:

1. Composition of `SessionInbound` and `Delivery` over one session: an inbound
   trigger that is completed has its answer owed or delivered.
2. Liveness of the surrounding components: an admitted request is answered, a
   credential promise ends, a task series goes on.
3. The parts of section 6 that share state with a modelled component: the caches
   of the gateway tools, the list of existing agents on the channel card.

## 6. Not modelled

The webhook server and the channels other than Feishu (HTTP, sockets,
formatting; what a channel promises is modelled with Feishu), the bridge to the
chat SDK apart from its state tables, the Claude provider (its SDK keeps the
conversation; the poll loop's view of it is in `SessionInbound`), the circuit
breaker (a boot-time counter with a table of delays), extension loading, docker
arguments, prompt building and formatting, metrics, tracing, configuration
validation, migrations and one-shot scripts: sequential code or I/O without
state that several actors share. Within modelled components: most slash
commands, reads and caches of the gateway tools, the step of the channel card
that lists existing agents, the copying of attachments between sessions, the
timers of the typing indicator, audit rows nothing reads back.

Time is abstract everywhere: durations matter only by the order of the events
they cause. Database writes are atomic and do not fail, except where the code
handles the failure in a way that changes state. The platform, the models, the
business systems and the credential vault are external: they answer anything
they may answer, or nothing. `PROJECT.json` lists every component with its
status, every definition with the lines it models, and the hazards the
properties are for.
