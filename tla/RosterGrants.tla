---------------------------- MODULE RosterGrants ----------------------------
(***************************************************************************)
(* Roster directed messages of one scope: consent grants, the budget that  *)
(* is reserved before a send and rolled back after an explicit failure,    *)
(* revocation, and opt-in invites (src/db/dm-grants.ts,                    *)
(* deliverRosterMessage in src/delivery.ts, src/roster-dm.ts,              *)
(* src/roster-invite.ts, src/channels/feishu/roster-consent.ts).           *)
(*                                                                         *)
(* Every roster row is drained on its own (two sessions of one scope may   *)
(* be drained at the same time), so the interleaving is between the awaits *)
(* of deliverRosterMessage: the gateway or membership check, and the       *)
(* adapter call.                                                           *)
(***************************************************************************)
EXTENDS Naturals, FiniteSets

CONSTANTS
    Slots, Participants,
    Messages, SlotOf,       \* roster rows and the slot each one addresses
    Invites, Invitee,       \* roster.invite rows and the member each one names
    MaxSends,               \* max_sends of a new grant; 0 is no cap
    Keys, Limit, Window,    \* rate-ledger keys, their limits and window lengths
    KeysOf,                 \* keys a message charges (grant, participant, scope, deploy)
    InviteKeys,             \* keys an invite charges
    SendTimeAwait,          \* gateway authority or membership check enabled
    AmbiguousErrors,        \* an adapter may report an error for a send that landed
    MaxAttempts,            \* DELIVERY_MAX_ATTEMPTS
    MaxTime, MaxStops, MaxConsents    \* bounds

Time == 0 .. MaxTime

ASSUME RosterAssumption ==
    /\ SlotOf \in [Messages -> Slots]
    /\ Invitee \in [Invites -> Participants]
    /\ MaxSends \in Nat
    /\ Limit \in [Keys -> Nat]
    /\ Window \in [Keys -> Nat \ {0}]
    /\ KeysOf \in [Messages -> SUBSET Keys]
    /\ InviteKeys \subseteq Keys
    /\ SendTimeAwait \in BOOLEAN
    /\ AmbiguousErrors \in BOOLEAN
    /\ MaxAttempts \in Nat \ {0}
    /\ MaxTime \in Nat /\ MaxStops \in Nat /\ MaxConsents \in Nat

Nobody == "nobody"
ASSUME NobodyAssumption == Nobody \notin Participants

VARIABLES
    grant,      \* dm_grants of the scope, by slot
    marker,     \* messages with a standing reservation (reserve:<id> rows)
    ledger,     \* dm_rate_ledger: count per key and window
    clock,
    pc,         \* per message: where deliverRosterMessage stands
    fresh,      \* per message: this attempt created the reservation
    at,         \* per message: reservedAt of its reservation
    attempts,   \* per message: failed attempts recorded by the drain
    invite,     \* per invite row: where handleRosterInvite stands
    charges,    \* history: charges made for invites, <<row, host life, time>>
    late,       \* timed-out calls that may still land
    shown,      \* history: copies that landed per message
    withdrawn,  \* history: slots whose consent was withdrawn since it was given
    stops, consents   \* bound counters

tables  == <<grant, marker, ledger>>
sender  == <<pc, fresh, at, attempts>>
inviter == <<invite, charges>>
vars    == <<tables, clock, sender, inviter, late, shown, withdrawn, stops, consents>>

NoGrant == [who |-> Nobody, revoked |-> FALSE, expired |-> FALSE,
            used |-> 0, cap |-> 0, fromGroup |-> FALSE]

\* windowStartIso: tumbling windows.
WindowOf(k, t) == t \div Window[k]

SlotsOf(p) == {s \in Slots : grant[s].who = p}

(***************************************************************************)
(* Consent and its withdrawal.                                             *)
(***************************************************************************)

\* insertDmGrant through captureP2pIngressConsent or a directed card: a free
\* slot is taken unless the participant holds another one; the same participant
\* refreshes the grant, which keeps its cap and its count; others are refused.
insertDmGrant(p, s, group) ==
    /\ consents < MaxConsents
    /\ consents' = consents + 1
    /\ \/ /\ grant[s].who = Nobody
          /\ SlotsOf(p) = {}
          /\ grant' = [grant EXCEPT ![s] = [NoGrant EXCEPT !.who = p, !.cap = MaxSends,
                                                           !.fromGroup = group]]
       \/ /\ grant[s].who = p
          /\ grant' = [grant EXCEPT ![s].revoked = FALSE, ![s].expired = FALSE,
                                    ![s].fromGroup = group]
    /\ withdrawn' = withdrawn \ {s}
    /\ UNCHANGED <<marker, ledger, clock, sender, inviter, late, shown, stops>>

Revoked(S) == [s \in Slots |-> IF s \in S THEN [grant[s] EXCEPT !.revoked = TRUE] ELSE grant[s]]

Withdraw(S) ==
    /\ S # {}
    /\ grant' = Revoked(S)
    /\ withdrawn' = withdrawn \union S
    /\ UNCHANGED <<marker, ledger, clock, sender, inviter, late, shown, stops, consents>>

optOutParticipant(p)      == Withdraw(SlotsOf(p))
revokeGrantsForLeaver(p)  == Withdraw({s \in SlotsOf(p) : grant[s].fromGroup})
handleChatDisbanded       == Withdraw({s \in Slots : grant[s].who # Nobody /\ grant[s].fromGroup})
revokeScope               == Withdraw({s \in Slots : grant[s].who # Nobody})

Expire(s) ==
    /\ grant[s].who # Nobody
    /\ ~ grant[s].expired
    /\ grant' = [grant EXCEPT ![s].expired = TRUE]
    /\ UNCHANGED <<marker, ledger, clock, sender, inviter, late, shown, withdrawn, stops, consents>>

(***************************************************************************)
(* One attempt of deliverRosterMessage.                                    *)
(***************************************************************************)
checkGrantLive(s) ==
    /\ grant[s].who # Nobody
    /\ ~ grant[s].revoked
    /\ ~ grant[s].expired
    /\ grant[s].cap > 0 => grant[s].used < grant[s].cap

\* Mutant: off by one in the attempt limit.
RetryOffByOne(m) ==
    /\ attempts' = [attempts EXCEPT ![m] = @ + 1]
    /\ pc' = [pc EXCEPT ![m] = IF attempts[m] + 1 > MaxAttempts THEN "dead" ELSE "idle"]
    /\ fresh' = [fresh EXCEPT ![m] = FALSE]

\* The attempt ends with an exception; the drain counts it and retries later.
Retry(m) ==
    /\ attempts' = [attempts EXCEPT ![m] = @ + 1]
    /\ pc' = [pc EXCEPT ![m] = IF attempts[m] + 1 >= MaxAttempts THEN "dead" ELSE "idle"]
    /\ fresh' = [fresh EXCEPT ![m] = FALSE]

Reject(m) == Retry(m) /\ UNCHANGED <<tables, at, withdrawn>>

UnderLimits(m) == \A k \in KeysOf[m] : ledger[k][WindowOf(k, clock)] < Limit[k]

Charge(K) ==
    [k \in Keys |-> IF k \in K THEN [ledger[k] EXCEPT ![WindowOf(k, clock)] = @ + 1] ELSE ledger[k]]

\* reserveRosterSend and the start of the adapter call.
StandingReservation(m) ==
    /\ m \in marker
    /\ pc' = [pc EXCEPT ![m] = "sending"]
    /\ fresh' = [fresh EXCEPT ![m] = FALSE]
    /\ UNCHANGED <<tables, at, attempts, withdrawn>>

\* Mutant: the conditional update trusts the earlier liveness check.
CanReserveRevoked(m) ==
    LET g == grant[SlotOf[m]] IN (g.cap = 0 \/ g.used < g.cap) /\ UnderLimits(m)

CanReserve(m) ==
    LET g == grant[SlotOf[m]] IN
    /\ ~ g.revoked
    /\ g.cap = 0 \/ g.used < g.cap
    /\ UnderLimits(m)

FreshReservation(m) ==
    LET s == SlotOf[m]
        g == grant[s] IN
    /\ m \notin marker
    /\ CanReserve(m)
    /\ grant' = [grant EXCEPT ![s].used = @ + 1,
                              ![s].revoked = @ \/ (g.cap > 0 /\ g.used + 1 >= g.cap)]
    /\ ledger' = Charge(KeysOf[m])
    /\ marker' = marker \union {m}
    /\ at' = [at EXCEPT ![m] = clock]
    /\ fresh' = [fresh EXCEPT ![m] = TRUE]
    /\ pc' = [pc EXCEPT ![m] = "sending"]
    /\ UNCHANGED <<attempts, withdrawn>>

\* Mutant: the rate keys are read before the send and not again here.
reserveUnchecked(m) ==
    \/ StandingReservation(m)
    \/ /\ m \notin marker
       /\ ~ grant[SlotOf[m]].revoked
       /\ grant' = [grant EXCEPT ![SlotOf[m]].used = @ + 1]
       /\ ledger' = Charge(KeysOf[m])
       /\ marker' = marker \union {m}
       /\ at' = [at EXCEPT ![m] = clock]
       /\ fresh' = [fresh EXCEPT ![m] = TRUE]
       /\ pc' = [pc EXCEPT ![m] = "sending"]
       /\ UNCHANGED <<attempts, withdrawn>>

reserveRosterSend(m) ==
    \/ StandingReservation(m)
    \/ FreshReservation(m)
    \/ m \notin marker /\ ~ CanReserve(m) /\ Reject(m)

\* The gates up to the first await.  With neither gateway authority nor
\* membership verification there is none before the reservation.
Attempt(m) ==
    /\ pc[m] = "idle"
    /\ \/ ~ checkGrantLive(SlotOf[m]) /\ Reject(m)
       \/ /\ checkGrantLive(SlotOf[m])
          /\ IF SendTimeAwait
             THEN /\ pc' = [pc EXCEPT ![m] = "checked"]
                  /\ UNCHANGED <<tables, fresh, at, attempts, withdrawn>>
             ELSE reserveRosterSend(m)
    /\ UNCHANGED <<clock, inviter, late, shown, stops, consents>>

\* authorizeDm and isMemberCached answer: allow, deny, or "no longer a member",
\* which also revokes the participant's grant.
Answered(m) ==
    /\ pc[m] = "checked"
    /\ \/ reserveRosterSend(m)
       \/ Reject(m)
       \/ /\ grant' = Revoked(SlotsOf(grant[SlotOf[m]].who))
          /\ withdrawn' = withdrawn \union SlotsOf(grant[SlotOf[m]].who)
          /\ Retry(m)
          /\ UNCHANGED <<marker, ledger, at>>
    /\ UNCHANGED <<clock, inviter, late, shown, stops, consents>>

Accept(m) ==
    /\ pc[m] = "sending"
    /\ pc' = [pc EXCEPT ![m] = "accepted"]
    /\ shown' = [shown EXCEPT ![m] = @ + 1]
    /\ UNCHANGED <<tables, clock, fresh, at, attempts, inviter, late, withdrawn, stops, consents>>

\* The call returns; the row is marked delivered.
Succeed(m) ==
    /\ pc[m] = "accepted"
    /\ pc' = [pc EXCEPT ![m] = "done"]
    /\ UNCHANGED <<tables, clock, fresh, at, attempts, inviter, late, shown, withdrawn, stops, consents>>

\* A timeout keeps the reservation.
TimeOut(m) ==
    /\ pc[m] \in {"sending", "accepted"}
    /\ late' = IF pc[m] = "sending" THEN [late EXCEPT ![m] = @ + 1] ELSE late
    /\ Reject(m)
    /\ UNCHANGED <<clock, inviter, shown, stops, consents>>

\* decLedger floors at zero.
Refund(m, t) ==
    [k \in Keys |->
        IF k \in KeysOf[m] /\ ledger[k][WindowOf(k, t)] > 0
        THEN [ledger[k] EXCEPT ![WindowOf(k, t)] = @ - 1]
        ELSE ledger[k]]

\* Mutant: the rollback uses the time of the failure, not reservedAt.
rollbackAtNow(m) ==
    LET s == SlotOf[m] g == grant[SlotOf[m]] IN
    /\ grant' = [grant EXCEPT ![s].used = IF @ > 0 THEN @ - 1 ELSE 0,
                              ![s].revoked = IF g.cap > 0 /\ g.used >= g.cap THEN FALSE ELSE @]
    /\ ledger' = Refund(m, clock)
    /\ marker' = marker \ {m}

\* Mutant: the rollback always un-revokes the grant.
rollbackUnrevokes(m) ==
    /\ grant' = [grant EXCEPT ![SlotOf[m]].used = IF @ > 0 THEN @ - 1 ELSE 0,
                              ![SlotOf[m]].revoked = FALSE]
    /\ ledger' = Refund(m, at[m])
    /\ marker' = marker \ {m}

rollbackRosterReservation(m) ==
    LET s == SlotOf[m] g == grant[SlotOf[m]] IN
    /\ grant' = [grant EXCEPT ![s].used = IF @ > 0 THEN @ - 1 ELSE 0,
                              ![s].revoked = IF g.cap > 0 /\ g.used >= g.cap THEN FALSE ELSE @]
    /\ ledger' = Refund(m, at[m])
    /\ marker' = marker \ {m}

\* Mutant: every explicit failure rolls back, carried-over reservations too.
FailRollingBack(m) ==
    /\ pc[m] = "sending"
    /\ rollbackRosterReservation(m)
    /\ Retry(m)
    /\ UNCHANGED <<clock, at, inviter, late, shown, withdrawn, stops, consents>>

\* An explicit error: only the attempt that made the reservation returns it.
Fail(m) ==
    /\ pc[m] = "sending" \/ (AmbiguousErrors /\ pc[m] = "accepted")
    /\ IF fresh[m] THEN rollbackRosterReservation(m) ELSE UNCHANGED tables
    /\ Retry(m)
    /\ UNCHANGED <<clock, at, inviter, late, shown, withdrawn, stops, consents>>

LateAccept(m) ==
    /\ late[m] > 0
    /\ late' = [late EXCEPT ![m] = @ - 1]
    /\ shown' = [shown EXCEPT ![m] = @ + 1]
    /\ UNCHANGED <<tables, clock, sender, inviter, withdrawn, stops, consents>>

(***************************************************************************)
(* handleRosterInvite: guards, the membership await, charge, card.         *)
(***************************************************************************)
InviteAsk(i) ==
    /\ invite[i] = "new"
    /\ invite' = [invite EXCEPT ![i] = IF SlotsOf(Invitee[i]) # {} THEN "refused" ELSE "asked"]
    /\ UNCHANGED <<tables, clock, sender, charges, late, shown, withdrawn, stops, consents>>

InviteUnderLimits == \A k \in InviteKeys : ledger[k][WindowOf(k, clock)] < Limit[k]

InviteAnswered(i) ==
    /\ invite[i] = "asked"
    /\ \/ /\ InviteUnderLimits
          /\ ledger' = Charge(InviteKeys)
          /\ charges' = charges \union {<<i, stops, clock>>}
          /\ invite' = [invite EXCEPT ![i] = "charged"]
       \/ /\ invite' = [invite EXCEPT ![i] = "refused"]
          /\ UNCHANGED <<ledger, charges>>
    /\ UNCHANGED <<grant, marker, clock, sender, late, shown, withdrawn, stops, consents>>

\* The card is posted, or the send fails and the charge stays.
InviteCard(i) ==
    /\ invite[i] = "charged"
    /\ invite' \in {[invite EXCEPT ![i] = "sent"], [invite EXCEPT ![i] = "unsent"]}
    /\ UNCHANGED <<tables, clock, sender, charges, late, shown, withdrawn, stops, consents>>

(***************************************************************************)
(* Time and stops of the host.                                             *)
(***************************************************************************)
Tick ==
    /\ clock < MaxTime
    /\ clock' = clock + 1
    /\ UNCHANGED <<tables, sender, inviter, late, shown, withdrawn, stops, consents>>

\* A stop loses the attempts under way and keeps the tables; a call already
\* handed to the platform may still land, an interrupted invite row is taken
\* up again by the next drain.
Stop ==
    /\ stops < MaxStops
    /\ stops' = stops + 1
    /\ late' = [m \in Messages |-> IF pc[m] = "sending" THEN late[m] + 1 ELSE late[m]]
    /\ pc' = [m \in Messages |-> IF pc[m] \in {"done", "dead"} THEN pc[m] ELSE "idle"]
    /\ fresh' = [m \in Messages |-> FALSE]
    /\ invite' = [i \in Invites |-> IF invite[i] \in {"asked", "charged"} THEN "new" ELSE invite[i]]
    /\ UNCHANGED <<tables, clock, at, attempts, charges, shown, withdrawn, consents>>

-----------------------------------------------------------------------------
Init ==
    /\ grant = [s \in Slots |-> NoGrant]
    /\ marker = {}
    /\ ledger = [k \in Keys |-> [t \in Time |-> 0]]
    /\ clock = 0
    /\ pc = [m \in Messages |-> "idle"]
    /\ fresh = [m \in Messages |-> FALSE]
    /\ at = [m \in Messages |-> 0]
    /\ attempts = [m \in Messages |-> 0]
    /\ invite = [i \in Invites |-> "new"]
    /\ charges = {}
    /\ late = [m \in Messages |-> 0]
    /\ shown = [m \in Messages |-> 0]
    /\ withdrawn = {}
    /\ stops = 0
    /\ consents = 0

Next ==
    \/ \E p \in Participants :
          \/ \E s \in Slots, group \in BOOLEAN : insertDmGrant(p, s, group)
          \/ optOutParticipant(p)
          \/ revokeGrantsForLeaver(p)
    \/ handleChatDisbanded \/ revokeScope
    \/ \E s \in Slots : Expire(s)
    \/ \E m \in Messages :
          \/ Attempt(m) \/ Answered(m) \/ Accept(m) \/ Succeed(m)
          \/ TimeOut(m) \/ Fail(m) \/ LateAccept(m)
    \/ \E i \in Invites : InviteAsk(i) \/ InviteAnswered(i) \/ InviteCard(i)
    \/ Tick \/ Stop

Spec == Init /\ [][Next]_vars

(***************************************************************************)
(* Properties.                                                             *)
(***************************************************************************)
\* The types of the tables and of the senders' local state.
TypeOK ==
    /\ grant \in [Slots -> [who : Participants \union {Nobody}, revoked : BOOLEAN,
                            expired : BOOLEAN, used : Nat, cap : Nat, fromGroup : BOOLEAN]]
    /\ marker \subseteq Messages
    /\ ledger \in [Keys -> [Time -> Nat]]
    /\ clock \in Time
    /\ pc \in [Messages -> {"idle", "checked", "sending", "accepted", "done", "dead"}]
    /\ fresh \in [Messages -> BOOLEAN]
    /\ at \in [Messages -> Time]
    /\ attempts \in [Messages -> 0 .. MaxAttempts]
    /\ invite \in [Invites -> {"new", "asked", "charged", "sent", "unsent", "refused"}]
    /\ charges \subseteq Invites \X Nat \X Time
    /\ late \in [Messages -> Nat]
    /\ shown \in [Messages -> Nat]
    /\ withdrawn \subseteq Slots
    /\ stops \in Nat /\ consents \in Nat

Standing(s) == {m \in marker : SlotOf[m] = s}

ChargedIn(k, w) ==
    Cardinality({m \in marker : k \in KeysOf[m] /\ WindowOf(k, at[m]) = w})
    + Cardinality({c \in charges : k \in InviteKeys /\ WindowOf(k, c[3]) = w})

\* The books balance: sends_used of a grant counts exactly its standing
\* reservations, although reservations are made, kept on timeouts, rolled back
\* on errors and orphaned by stops in any order, and consent is renewed.
UsedMatchesReservations ==
    \A s \in Slots : grant[s].used = Cardinality(Standing(s))

\* Every rate window holds exactly the charges that stand in it: a rollback
\* that crosses a window boundary refunds the window it charged, so no charge
\* is orphaned and no window is refunded twice.
LedgerMatchesReservations ==
    \A k \in Keys, w \in Time : ledger[k][w] = ChargedIn(k, w)

\* Both ledgers of the roster balance.
BooksBalance == UsedMatchesReservations /\ LedgerMatchesReservations

\* Concurrent drains of one scope never overshoot a rate key.
RatesHeld == \A k \in Keys, w \in Time : ChargedIn(k, w) <= Limit[k]

\* No more distinct messages than max_sends can ever have reached the
\* participant of a capped grant, counting timed-out calls that may still land.
CapHeld ==
    \A s \in Slots :
        grant[s].cap > 0 =>
            Cardinality({m \in Messages : SlotOf[m] = s /\ shown[m] + late[m] > 0}) <= grant[s].cap

\* A withdrawn consent stays withdrawn until the participant consents again:
\* the grant is revoked whatever reservations are rolled back meanwhile.
WithdrawalSticks == \A s \in withdrawn : grant[s].revoked

\* A withdrawal that lands anywhere before the reservation, the gateway and
\* membership awaits included, stops a send that is not yet paid for.
WithdrawalStopsNewSends ==
    [][\A m \in Messages :
          pc[m] # "sending" /\ pc'[m] = "sending" /\ m \notin marker
              => SlotOf[m] \notin withdrawn]_vars
=============================================================================
