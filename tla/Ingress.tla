------------------------------ MODULE Ingress ------------------------------
(***************************************************************************)
(* The way of one platform message into the sessions of the agents wired   *)
(* to its chat: the dedup table of the adapter, the ingress ledger around   *)
(* routeInbound, the interceptors, the fan-out of routeInboundInner over    *)
(* the wired agents, the session each agent resolves, and the operator's    *)
(* replay of a ledger row from a second process.                            *)
(*                                                                         *)
(* A JavaScript stretch without an await is one step.  The host may die     *)
(* between any two steps, and also between the insert into inbound_dedup    *)
(* and the insert into inbound_ingress.  The chat is wired; how it gets     *)
(* wired is module Registration.                                            *)
(***************************************************************************)
EXTENDS Integers, Sequences, FiniteSetsExt

CONSTANTS
  Messages,     \* platform message ids
  Fanout,       \* the wired agents, ORDER BY priority DESC
  Engage,       \* engage_mode of each agent: "always", "mention", "sticky"
  Accumulates,  \* agents with ignored_message_policy = accumulate
  UserScoped,   \* agents whose effective session mode is per user
  Mentions,     \* messages that address the bot
  Sender,       \* the user behind each message, NoUser when unresolved
  NoUser,
  Refused,      \* pairs <<message, agent>> the access or scope gate refuses
  Command,      \* what gateCommand says of each message
  Claimed,      \* messages an interceptor consumes
  MaxTrouble,   \* bound: failed writes, ends of a process and archived sessions
  MaxReplays    \* bound: replays

VARIABLES
  seen,         \* inbound_dedup
  ledger,       \* inbound_ingress, one row per message
  route,        \* the routing call of each process for each message
  session,      \* per scope: sessions made so far, and whether one is active
  inbox,        \* rows of messages_in over all sessions
  hostUp,
  trouble,      \* failed writes, ends of a process and archived sessions so far
  replays,      \* replays of each message so far
  undurable,    \* history: messages that were never in the ledger
  swallowed,    \* history: <<m, a>> whose delivery failed and was only logged
  unidentified, \* history: <<m, a>> a replay skipped for want of a sender
  interrupted   \* history: messages whose routing or row cleanup was cut short

history == <<undurable, swallowed, unidentified, interrupted>>
vars == <<seen, ledger, route, session, inbox, hostUp, trouble, replays, history>>

Agents == {Fanout[i] : i \in 1..Len(Fanout)}
Procs  == {"host", "replay"}
Scopes == Agents \X ({Sender[m] : m \in Messages} \cup {NoUser})

Idle == [at |-> "idle", i |-> 0, durable |-> FALSE, placed |-> 0]
Routing(m) == \E p \in Procs : route[p][m].at # "idle"

TypeOK ==
  /\ seen \subseteq Messages
  /\ ledger \in [Messages -> {"none", "received", "failed"}]
  /\ route \in [Procs -> [Messages -> [at : {"idle", "intercept", "lookup", "fanout", "waking"},
                                       i : 0..Len(Fanout) + 1, durable : BOOLEAN,
                                       placed : 0..Len(Fanout)]]]
  /\ session \in [Scopes -> [made : 0..(MaxTrouble + 1), active : BOOLEAN]]
  /\ inbox \subseteq [msg : Messages, scope : Scopes, n : 1..(MaxTrouble + 1),
                      trigger : BOOLEAN, engaged : BOOLEAN, by : Procs]
  /\ hostUp \in BOOLEAN
  /\ swallowed \cup unidentified \subseteq Messages \X Agents
  /\ undurable \cup interrupted \subseteq Messages

Init ==
  /\ seen = {}
  /\ ledger = [m \in Messages |-> "none"]
  /\ route = [p \in Procs |-> [m \in Messages |-> Idle]]
  /\ session = [s \in Scopes |-> [made |-> 0, active |-> FALSE]]
  /\ inbox = {}
  /\ hostUp = TRUE
  /\ trouble = 0
  /\ replays = [m \in Messages |-> 0]
  /\ undurable = {} /\ swallowed = {} /\ unidentified = {} /\ interrupted = {}

Trouble == trouble < MaxTrouble /\ trouble' = trouble + 1

----------------------------------------------------------------------------
(* The adapter and the ledger.                                              *)

\* INSERT OR IGNORE into inbound_dedup: TRUE when the row is new.
markInboundSeen(m) == m \notin seen

\* handleMessageReceive up to the first await of routeInbound: the message is
\* marked, its envelope is inserted, and the first interceptor is called.  A
\* failed insert routes the message without durability.
Receive(m) ==
  /\ hostUp /\ markInboundSeen(m)
  /\ seen' = seen \cup {m}
  /\ \/ /\ ledger' = [ledger EXCEPT ![m] = "received"]
        /\ route' = [route EXCEPT !["host"][m] = [Idle EXCEPT !.at = "intercept", !.durable = TRUE]]
        /\ UNCHANGED <<trouble, undurable>>
     \/ /\ Trouble
        /\ route' = [route EXCEPT !["host"][m] = [Idle EXCEPT !.at = "intercept"]]
        /\ undurable' = undurable \cup {m}
        /\ UNCHANGED ledger
  /\ UNCHANGED <<session, inbox, hostUp, replays, swallowed, unidentified, interrupted>>

\* The interceptors, awaited in turn.  One that throws counts as "not
\* claimed".  The replay process registers none.
Intercept(p, m) ==
  /\ route[p][m].at = "intercept"
  /\ \/ /\ p = "host" /\ m \in Claimed
        /\ route' = [route EXCEPT ![p][m] = [@ EXCEPT !.at = "fanout", !.i = Len(Fanout) + 1,
                                                      !.placed = 1]]
        /\ UNCHANGED trouble
     \/ /\ \/ (p = "replay" \/ m \notin Claimed) /\ UNCHANGED trouble
           \/ p = "host" /\ m \in Claimed /\ Trouble
        /\ route' = [route EXCEPT ![p][m].at = "lookup"]
  /\ UNCHANGED <<seen, ledger, session, inbox, hostUp, replays, history>>

----------------------------------------------------------------------------
(* The fan-out.                                                             *)

\* The permissions module resolves the sender; it is not loaded by the replay.
userOf(p, m) == IF p = "host" THEN Sender[m] ELSE NoUser

scopeOf(p, m, a) == <<a, IF a \in UserScoped THEN userOf(p, m) ELSE NoUser>>

evaluateEngage(p, m, a) ==
  CASE Engage[a] = "always"  -> TRUE
    [] Engage[a] = "mention" -> m \in Mentions
    [] Engage[a] = "sticky"  -> \/ m \in Mentions
                                \/ /\ a \in UserScoped => userOf(p, m) # NoUser
                                   /\ session[scopeOf(p, m, a)].active

identityOk(p, m, a) == a \in UserScoped => userOf(p, m) # NoUser

\* Only the host has the access gate and the sender scope gate registered.
gatesAllow(p, m, a) == p = "host" => <<m, a>> \notin Refused

\* What routeOneAgent decides for one agent.
wakes(p, m, a) == evaluateEngage(p, m, a) /\ identityOk(p, m, a) /\ gatesAllow(p, m, a)
accumulates(p, m, a) ==
  identityOk(p, m, a) /\ a \in Accumulates /\ ~evaluateEngage(p, m, a)

\* resolveSession: the active session of the scope, made when there is none.
resolveSession(s) ==
  [session EXCEPT ![s] = IF @.active THEN @ ELSE [made |-> @.made + 1, active |-> TRUE]]

\* messages_in.id is the primary key, <message>:<agent>.
HasRow(m, s, n) == \E r \in inbox : r.msg = m /\ r.scope = s /\ r.n = n

\* One agent of the fan-out: the stretch of deliverToAgent before its first
\* await.  A write that fails, also on the primary key, is caught and logged
\* by the loop, which goes on with the next agent.
RouteAgent(p, m) ==
  LET a == Fanout[route[p][m].i]
      s == scopeOf(p, m, a)
      made == resolveSession(s)
      next(placed) == [route EXCEPT ![p][m].i = @ + 1, ![p][m].placed = @ + placed]
      deliver == wakes(p, m, a) \/ accumulates(p, m, a)
      row == [msg |-> m, scope |-> s, n |-> made[s].made, trigger |-> wakes(p, m, a),
              engaged |-> evaluateEngage(p, m, a), by |-> p]
  IN /\ route[p][m].at = "fanout" /\ route[p][m].i <= Len(Fanout)
     /\ \/ /\ ~deliver
           /\ route' = next(0)
           /\ unidentified' = IF p = "replay" /\ ~identityOk(p, m, a)
                              THEN unidentified \cup {<<m, a>>} ELSE unidentified
           /\ UNCHANGED <<session, inbox, trouble, swallowed>>
        \/ /\ deliver /\ Command[m] # "pass"
           /\ session' = made
           /\ route' = next(1)
           /\ UNCHANGED <<inbox, trouble, swallowed, unidentified>>
        \/ /\ deliver /\ Command[m] = "pass" /\ ~HasRow(m, s, made[s].made)
           /\ session' = made
           /\ inbox' = inbox \cup {row}
           /\ route' = IF row.trigger THEN [route EXCEPT ![p][m].at = "waking"] ELSE next(1)
           /\ UNCHANGED <<trouble, swallowed, unidentified>>
        \/ /\ deliver /\ Command[m] = "pass" /\ HasRow(m, s, made[s].made)
           /\ route' = next(0)
           /\ UNCHANGED <<session, inbox, trouble, swallowed, unidentified>>
        \/ /\ deliver /\ Command[m] = "pass" /\ Trouble
           /\ session' \in {session, made}
           /\ swallowed' = swallowed \cup {<<m, a>>}
           /\ route' = next(0)
           /\ UNCHANGED <<inbox, unidentified>>
  /\ UNCHANGED <<seen, ledger, hostUp, replays, undurable, interrupted>>

\* The awaits of deliverToAgent after the write (progress reaction, typing,
\* wakeContainer) end, well or not.
WakeEnds(p, m) ==
  /\ route[p][m].at = "waking"
  /\ route' = [route EXCEPT ![p][m] = [@ EXCEPT !.at = "fanout", !.i = route[p][m].i + 1,
                                                !.placed = route[p][m].placed + 1]]
  /\ UNCHANGED <<seen, ledger, session, inbox, hostUp, trouble, replays, history>>

\* The lookup of the chat and of the sender, without an await, up to the fan-out.
Lookup(p, m) ==
  /\ route[p][m].at = "lookup"
  /\ route' = [route EXCEPT ![p][m] = [@ EXCEPT !.at = "fanout", !.i = 1]]
  /\ UNCHANGED <<seen, ledger, session, inbox, hostUp, trouble, replays, history>>

\* Mutant: a failed message is forgotten.
markIngressFailedDropping(m) == [ledger EXCEPT ![m] = "none"]

deleteIngress(m)     == [ledger EXCEPT ![m] = "none"]
markIngressFailed(m) == [ledger EXCEPT ![m] = IF @ = "none" THEN @ ELSE "failed"]

\* routeInboundInner returned: the row goes.  The host survives a failed
\* cleanup; the row then looks like an interrupted one.
RouteEnds(p, m) ==
  /\ route[p][m].at = "fanout" /\ route[p][m].i > Len(Fanout)
  /\ route' = [route EXCEPT ![p][m] = Idle]
  /\ \/ /\ ledger' = IF route[p][m].durable THEN deleteIngress(m) ELSE ledger
        /\ UNCHANGED <<trouble, interrupted>>
     \/ /\ route[p][m].durable /\ Trouble
        /\ interrupted' = interrupted \cup {m}
        /\ ledger' = IF p = "replay" THEN markIngressFailed(m) ELSE ledger
  /\ UNCHANGED <<seen, session, inbox, hostUp, replays, undurable, swallowed, unidentified>>

\* routeInboundInner threw: a database error in the lookup, or in the record
\* of a message no agent took.
RouteFails(p, m) ==
  /\ \/ route[p][m].at = "lookup"
     \/ route[p][m].at = "fanout" /\ route[p][m].i > Len(Fanout) /\ route[p][m].placed = 0
  /\ Trouble
  /\ route' = [route EXCEPT ![p][m] = Idle]
  /\ ledger' = IF route[p][m].durable THEN markIngressFailed(m) ELSE ledger
  /\ UNCHANGED <<seen, session, inbox, hostUp, replays, history>>

----------------------------------------------------------------------------
(* Replay, archive, end of the host.                                        *)

\* replayRow: any row of the ledger, also one the host still works on; the
\* CLI owns the row, so the routing persists no second one.
Replay(m) ==
  /\ MapThenSumSet(LAMBDA x : replays[x], Messages) < MaxReplays
  /\ ledger[m] # "none"
  /\ \A x \in Messages : route["replay"][x].at = "idle"
  /\ replays' = [replays EXCEPT ![m] = @ + 1]
  /\ route' = [route EXCEPT !["replay"][m] = [Idle EXCEPT !.at = "intercept", !.durable = TRUE]]
  /\ UNCHANGED <<seen, ledger, session, inbox, hostUp, trouble, history>>

\* The sweep archives an idle session; the scope is then free for a new one.
Archive(s) ==
  /\ hostUp /\ session[s].active /\ Trouble
  /\ session' = [session EXCEPT ![s].active = FALSE]
  /\ UNCHANGED <<seen, ledger, route, inbox, hostUp, replays, history>>

\* A process ends wherever its routing calls are.
Crash(p) ==
  /\ Trouble
  /\ p = "host" => hostUp
  /\ \E m \in Messages : route[p][m].at # "idle"
  /\ hostUp' = (hostUp /\ p # "host")
  /\ route' = [route EXCEPT ![p] = [m \in Messages |-> Idle]]
  /\ interrupted' = interrupted \cup {m \in Messages : route[p][m].at # "idle"}
  /\ UNCHANGED <<seen, ledger, session, inbox, replays, undurable, swallowed, unidentified>>

\* The host dies between the two inserts of Receive.
CrashAfterMark(m) ==
  /\ Trouble
  /\ hostUp /\ markInboundSeen(m)
  /\ seen' = seen \cup {m}
  /\ undurable' = undurable \cup {m}
  /\ hostUp' = FALSE
  /\ interrupted' = interrupted \cup {x \in Messages : route["host"][x].at # "idle"}
  /\ route' = [route EXCEPT !["host"] = [x \in Messages |-> Idle]]
  /\ UNCHANGED <<ledger, session, inbox, replays, swallowed, unidentified>>

\* surfaceOrphanedIngress only counts and warns: nothing is routed again.
Restart ==
  /\ ~hostUp
  /\ hostUp' = TRUE
  /\ UNCHANGED <<seen, ledger, route, session, inbox, trouble, replays, history>>

Step(p, m) == \/ Intercept(p, m) \/ Lookup(p, m) \/ RouteAgent(p, m) \/ WakeEnds(p, m)
              \/ RouteEnds(p, m) \/ RouteFails(p, m)

Next ==
  \/ \E m \in Messages : \/ Receive(m) \/ Replay(m) \/ CrashAfterMark(m)
  \/ \E p \in Procs, m \in Messages : Step(p, m)
  \/ \E s \in Scopes : Archive(s)
  \/ \E p \in Procs : Crash(p)
  \/ Restart

Spec == Init /\ [][Next]_vars

----------------------------------------------------------------------------
(* Properties.                                                              *)

\* Agents a message is surely meant for: it addresses them, its sender is
\* known where that is needed, and no gate refuses it.
Owed(m) == {a \in Agents :
              /\ Engage[a] = "always" \/ m \in Mentions
              /\ a \in UserScoped => Sender[m] # NoUser
              /\ <<m, a>> \notin Refused
              /\ Command[m] = "pass" /\ m \notin Claimed}

HasMessage(m, a) == \E r \in inbox : r.msg = m /\ r.scope[1] = a

\* A message the adapter marked as seen is, once nothing routes it, in the
\* inbox of every agent it was meant for, or still in the ledger.  The three
\* ways around that are the ones named: the envelope never reached the
\* ledger, the delivery to that agent failed and was swallowed by the
\* fan-out, or a replay without the permissions module could not name the
\* sender.  Whatever else goes wrong, and in whatever order, leaves a row.
NoSilentLoss ==
  \A m \in seen : ~Routing(m) =>
    \A a \in Owed(m) :
      \/ HasMessage(m, a)
      \/ ledger[m] # "none"
      \/ m \in undurable
      \/ <<m, a>> \in swallowed \cup unidentified

\* Redeliveries by the platform, restarts of the host and archived sessions
\* never give an agent a second copy of a message: each further copy is paid
\* for by a replay of that row.
CopiesExplained ==
  \A m \in Messages, s \in Scopes :
    Cardinality({r \in inbox : r.msg = m /\ r.scope = s}) <= 1 + replays[m]

\* What routeInbound tells the operator at startup is true: a row left at
\* status received was interrupted (or its cleanup failed), never completed.
ReceivedMeansInterrupted ==
  \A m \in Messages : ledger[m] = "received" /\ ~Routing(m) => m \in interrupted

\* A message that engaged an agent and was refused by a gate leaves nothing
\* in that agent's inbox, neither as a trigger nor as silent context.
RefusalStoresNothing ==
  \A r \in inbox : r.by = "host" /\ (r.trigger \/ r.engaged) => <<r.msg, r.scope[1]>> \notin Refused

\* All of it: no message is lost in silence, none is copied without a replay,
\* the ledger tells the truth and a refused message is stored nowhere.
InboundAccounted ==
  /\ TypeOK
  /\ NoSilentLoss
  /\ CopiesExplained
  /\ ReceivedMeansInterrupted
  /\ RefusalStoresNothing
=============================================================================
