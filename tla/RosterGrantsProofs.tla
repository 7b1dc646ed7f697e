------------------------ MODULE RosterGrantsProofs ------------------------
(***************************************************************************)
(* Theorems about RosterGrants, for every scope, every set of rate keys    *)
(* and every window, checked by TLAPS.                                     *)
(***************************************************************************)
EXTENDS RosterGrants, FiniteSetTheorems, TLAPS

\* The index of a window is a time of the model.
LEMMA WindowInTime == \A k \in Keys, t \in Time : WindowOf(k, t) \in Time
  <1> SUFFICES ASSUME NEW k \in Keys, NEW t \in Time PROVE t \div Window[k] \in Time
    BY DEF WindowOf
  <1>1. t \in Nat /\ Window[k] \in Nat \ {0} /\ t <= MaxTime /\ MaxTime \in Nat
    BY RosterAssumption DEF Time
  <1>2. \A a \in Nat, b \in Nat \ {0} : a \div b \in Nat /\ a \div b <= a
    OBVIOUS
  <1> QED
    BY <1>1, <1>2 DEF Time

(***************************************************************************)
(* The inductive invariant.                                                *)
(***************************************************************************)
\* A row of dm_grants.
Grant == [who : Participants \union {Nobody}, revoked : BOOLEAN, expired : BOOLEAN,
          used : Nat, cap : Nat, fromGroup : BOOLEAN]

\* A reservation belongs to a grant, an attempt that has passed its first gates
\* too, and only a standing reservation is "fresh".
Held ==
    /\ IsFiniteSet(marker)
    /\ \A m \in marker : grant[SlotOf[m]].who # Nobody
    /\ \A m \in Messages : pc[m] = "checked" => grant[SlotOf[m]].who # Nobody
    /\ \A m \in Messages : fresh[m] => m \in marker

\* A row that still tries has attempts left.
Counted == \A m \in Messages : pc[m] # "dead" => attempts[m] < MaxAttempts

\* An invite row is charged once in a life of the host.
Invited ==
    /\ IsFiniteSet(charges)
    /\ \A c \in charges : /\ c[2] <= stops
                          /\ c[2] = stops => invite[c[1]] \in {"charged", "sent", "unsent"}

\* The ledger itself never passes a limit.
LedgerUnderLimit == \A k \in Keys, w \in Time : ledger[k][w] <= Limit[k]

Inv ==
    /\ TypeOK
    /\ Held
    /\ Counted
    /\ Invited
    /\ UsedMatchesReservations
    /\ LedgerMatchesReservations
    /\ LedgerUnderLimit

\* The two sets ChargedIn counts.
Sends(k, w) == {m \in marker : k \in KeysOf[m] /\ WindowOf(k, at[m]) = w}

Asks(k, w) == {c \in charges : k \in InviteKeys /\ WindowOf(k, c[3]) = w}

\* They are finite.
LEMMA CountsAreNumbers ==
    ASSUME Inv
    PROVE  /\ \A k \in Keys, w \in Time : /\ IsFiniteSet(Sends(k, w)) /\ Cardinality(Sends(k, w)) \in Nat
                                          /\ IsFiniteSet(Asks(k, w)) /\ Cardinality(Asks(k, w)) \in Nat
                                          /\ ledger[k][w] = Cardinality(Sends(k, w)) + Cardinality(Asks(k, w))
           /\ \A s \in Slots : IsFiniteSet(Standing(s)) /\ Cardinality(Standing(s)) \in Nat
  <1> USE DEF Inv
  <1>1. ASSUME NEW k \in Keys, NEW w \in Time
        PROVE  /\ IsFiniteSet(Sends(k, w)) /\ Cardinality(Sends(k, w)) \in Nat
               /\ IsFiniteSet(Asks(k, w)) /\ Cardinality(Asks(k, w)) \in Nat
               /\ ledger[k][w] = Cardinality(Sends(k, w)) + Cardinality(Asks(k, w))
    <2>1. Sends(k, w) \subseteq marker /\ Asks(k, w) \subseteq charges
      BY DEF Sends, Asks
    <2>2. IsFiniteSet(Sends(k, w)) /\ IsFiniteSet(Asks(k, w))
      BY <2>1, FS_Subset DEF Held, Invited
    <2>3. ledger[k][w] = Cardinality(Sends(k, w)) + Cardinality(Asks(k, w))
      BY DEF LedgerMatchesReservations, ChargedIn, Sends, Asks
    <2> QED
      BY <2>2, <2>3, FS_CardinalityType
  <1>2. ASSUME NEW s \in Slots PROVE IsFiniteSet(Standing(s)) /\ Cardinality(Standing(s)) \in Nat
    <2>1. Standing(s) \subseteq marker
      BY DEF Standing
    <2> QED
      BY <2>1, FS_Subset, FS_CardinalityType DEF Held
  <1> QED
    BY <1>1, <1>2

(***************************************************************************)
(* Steps that leave the books alone.                                       *)
(***************************************************************************)
\* What such a step must show.
LEMMA Frame ==
    ASSUME Inv, TypeOK', Counted', Invited',
           UNCHANGED <<marker, ledger, charges>>,
           \A m \in marker : at'[m] = at[m],
           \A s \in Slots : /\ grant'[s].used = grant[s].used
                            /\ grant[s].who # Nobody => grant'[s].who # Nobody,
           \A m \in Messages : /\ fresh'[m] => fresh[m]
                               /\ pc'[m] = "checked" => pc[m] = "checked" \/ grant[SlotOf[m]].who # Nobody
    PROVE  Inv'
  <1> USE DEF Inv
  <1>1. Held'
    BY RosterAssumption DEF Held, TypeOK
  <1>2. UsedMatchesReservations'
    BY DEF UsedMatchesReservations, Standing
  <1>3. LedgerMatchesReservations'
    <2> SUFFICES ASSUME NEW k \in Keys, NEW w \in Time PROVE ledger'[k][w] = ChargedIn(k, w)'
      BY DEF LedgerMatchesReservations
    <2>1. Sends(k, w)' = Sends(k, w) /\ Asks(k, w)' = Asks(k, w)
      BY DEF Sends, Asks
    <2>2. ChargedIn(k, w)' = ChargedIn(k, w)
      BY <2>1 DEF ChargedIn, Sends, Asks
    <2> QED
      BY <2>2 DEF LedgerMatchesReservations
  <1>4. LedgerUnderLimit'
    BY DEF LedgerUnderLimit
  <1> QED
    BY <1>1, <1>2, <1>3, <1>4

\* The attempt ends with an exception: MaxAttempts bounds the attempts.
LEMMA RetryFacts ==
    ASSUME Inv, NEW m \in Messages, pc[m] \notin {"done", "dead"}, Retry(m)
    PROVE  /\ pc' \in [Messages -> {"idle", "checked", "sending", "accepted", "done", "dead"}]
           /\ fresh' \in [Messages -> BOOLEAN]
           /\ attempts' \in [Messages -> 0 .. MaxAttempts]
           /\ Counted'
           /\ \A n \in Messages : /\ fresh'[n] => fresh[n] /\ n # m
                                  /\ pc'[n] = "checked" => pc[n] = "checked"
  <1> USE DEF Inv, TypeOK
  <1>1. attempts[m] \in Nat /\ attempts[m] < MaxAttempts /\ MaxAttempts \in Nat
    BY RosterAssumption DEF Counted
  <1>2. attempts' \in [Messages -> 0 .. MaxAttempts]
    BY <1>1 DEF Retry
  <1>3. pc' \in [Messages -> {"idle", "checked", "sending", "accepted", "done", "dead"}]
    BY DEF Retry
  <1>4. fresh' \in [Messages -> BOOLEAN]
    BY DEF Retry
  <1>5. Counted'
    BY <1>1 DEF Retry, Counted
  <1>6. \A n \in Messages : /\ fresh'[n] => fresh[n] /\ n # m
                            /\ pc'[n] = "checked" => pc[n] = "checked"
    BY DEF Retry
  <1> QED
    BY <1>2, <1>3, <1>4, <1>5, <1>6

\* Consent, its withdrawal and its expiry.
LEMMA ConsentInv ==
    ASSUME Inv,
           \/ \E p \in Participants, s \in Slots, group \in BOOLEAN : insertDmGrant(p, s, group)
           \/ \E S \in SUBSET Slots : Withdraw(S)
           \/ \E s \in Slots : Expire(s)
    PROVE  Inv'
  <1> USE DEF Inv
  <1>1. UNCHANGED <<marker, ledger, clock, sender, inviter, late, shown, stops>>
    BY ZenonT(60) DEF insertDmGrant, Withdraw, Expire
  <1> DEFINE Kept == /\ grant' \in [Slots -> Grant]
                     /\ \A s \in Slots : /\ grant'[s].used = grant[s].used
                                         /\ grant[s].who # Nobody => grant'[s].who # Nobody
  <1>2. Kept /\ withdrawn' \subseteq Slots /\ consents' \in Nat
    <2>1. ASSUME NEW p \in Participants, NEW s \in Slots, NEW group \in BOOLEAN, insertDmGrant(p, s, group)
          PROVE  Kept /\ withdrawn' \subseteq Slots /\ consents' \in Nat
      <3>1. withdrawn' = withdrawn \ {s} /\ consents' = consents + 1
        BY <2>1 DEF insertDmGrant
      <3>2. CASE /\ grant[s].who = Nobody
                 /\ grant' = [grant EXCEPT ![s] = [NoGrant EXCEPT !.who = p, !.cap = MaxSends,
                                                                  !.fromGroup = group]]
        <4>1. Standing(s) = {}
          BY <3>2 DEF Held, Standing
        <4>2. grant[s].used = 0
          BY <4>1, FS_EmptySet DEF UsedMatchesReservations
        <4>3. Kept
          BY <3>2, <4>2, RosterAssumption DEF TypeOK, NoGrant, Grant
        <4> QED
          BY <3>1, <4>3 DEF TypeOK
      <3>3. CASE grant' = [grant EXCEPT ![s].revoked = FALSE, ![s].expired = FALSE, ![s].fromGroup = group]
        <4> DEFINE r == [grant[s] EXCEPT !.revoked = FALSE, !.expired = FALSE, !.fromGroup = group]
        <4>1. grant[s] \in Grant
          BY DEF TypeOK, Grant
        <4>2. r \in Grant /\ r.used = grant[s].used /\ r.who = grant[s].who
          BY <4>1 DEF Grant
        <4>3. grant' = [grant EXCEPT ![s] = r]
          BY <3>3 DEF TypeOK
        <4> HIDE DEF r
        <4>4. Kept
          BY <4>2, <4>3 DEF TypeOK, Grant
        <4> QED
          BY <3>1, <4>4 DEF TypeOK
      <3> QED
        BY <2>1, <3>2, <3>3, ZenonT(60) DEF insertDmGrant
    <2>2. ASSUME NEW S \in SUBSET Slots, Withdraw(S)
          PROVE  Kept /\ withdrawn' \subseteq Slots /\ consents' \in Nat
      BY <2>2, ZenonT(60) DEF Withdraw, Revoked, TypeOK, Grant
    <2>3. ASSUME NEW s \in Slots, Expire(s)
          PROVE  Kept /\ withdrawn' \subseteq Slots /\ consents' \in Nat
      <3>1. grant' = [grant EXCEPT ![s] = [grant[s] EXCEPT !.expired = TRUE]]
        BY <2>3 DEF Expire
      <3>2. grant[s] \in Grant
        BY DEF TypeOK, Grant
      <3>3. Kept
        BY <3>1, <3>2 DEF TypeOK, Grant
      <3> QED
        BY <2>3, <3>3 DEF Expire, TypeOK
    <2> QED
      BY <2>1, <2>2, <2>3
  <1>3. TypeOK' /\ Counted' /\ Invited'
    BY <1>1, <1>2 DEF TypeOK, Counted, Invited, sender, inviter, Grant
  <1> QED
    BY <1>1, <1>2, <1>3, Frame, SMTT(40) DEF sender, inviter

\* A step of a sender, a late answer of the platform or an answer of the
\* membership check that touches no reservation.
LEMMA QuietSend ==
    ASSUME Inv, grant' \in [Slots -> Grant],
           \A s \in Slots : grant'[s].used = grant[s].used /\ grant'[s].who = grant[s].who,
           UNCHANGED <<marker, ledger, clock, at, inviter, stops, consents>>,
           pc' \in [Messages -> {"idle", "checked", "sending", "accepted", "done", "dead"}],
           fresh' \in [Messages -> BOOLEAN],
           attempts' \in [Messages -> 0 .. MaxAttempts],
           late' \in [Messages -> Nat], shown' \in [Messages -> Nat],
           withdrawn' \subseteq Slots,
           Counted',
           \A m \in Messages : /\ fresh'[m] => fresh[m]
                               /\ pc'[m] = "checked" => pc[m] = "checked" \/ grant[SlotOf[m]].who # Nobody
    PROVE  Inv'
  <1>1. TypeOK'
    BY DEF Inv, TypeOK, Grant, inviter
  <1>2. Invited'
    BY DEF Inv, Invited, inviter
  <1> QED
    BY <1>1, <1>2, Frame DEF inviter

\* The steps of a sender that move only its own control state.
LEMMA SenderInv ==
    ASSUME Inv, NEW m \in Messages,
           \/ Accept(m) \/ Succeed(m) \/ LateAccept(m) \/ TimeOut(m)
           \/ Fail(m) /\ ~ fresh[m]
    PROVE  Inv'
  <1> USE DEF Inv
  <1>1. grant \in [Slots -> Grant] /\ withdrawn \subseteq Slots
    BY DEF TypeOK, Grant
  <1>2. CASE Accept(m) \/ Succeed(m)
    <2>1. /\ UNCHANGED <<tables, clock, fresh, at, attempts, inviter, late, withdrawn, stops, consents>>
          /\ pc' \in {[pc EXCEPT ![m] = "accepted"], [pc EXCEPT ![m] = "done"]}
          /\ shown' \in {shown, [shown EXCEPT ![m] = @ + 1]}
          /\ pc[m] # "dead"
      BY <1>2 DEF Accept, Succeed
    <2>2. /\ pc' \in [Messages -> {"idle", "checked", "sending", "accepted", "done", "dead"}]
          /\ \A n \in Messages : /\ pc'[n] = "checked" => pc[n] = "checked"
                                 /\ pc'[n] # "dead" => pc[n] # "dead"
          /\ shown' \in [Messages -> Nat]
      BY <2>1 DEF TypeOK
    <2>3. Counted'
      BY <2>1, <2>2 DEF Counted
    <2> QED
      BY <1>1, <2>1, <2>2, <2>3, QuietSend DEF TypeOK, tables
  <1>3. CASE LateAccept(m)
    <2>1. /\ UNCHANGED <<tables, clock, sender, inviter, withdrawn, stops, consents>>
          /\ late' \in [Messages -> Nat] /\ shown' \in [Messages -> Nat]
      BY <1>3 DEF LateAccept, TypeOK
    <2>2. Counted'
      BY <2>1 DEF Counted, sender
    <2> QED
      BY <1>1, <2>1, <2>2, QuietSend DEF TypeOK, tables, sender
  <1>4. CASE TimeOut(m) \/ (Fail(m) /\ ~ fresh[m])
    <2>1. /\ UNCHANGED <<tables, clock, at, inviter, shown, withdrawn, stops, consents>>
          /\ Retry(m) /\ pc[m] \notin {"done", "dead"}
          /\ late' \in [Messages -> Nat]
      BY <1>4 DEF TimeOut, Fail, Reject, TypeOK
    <2> QED
      BY <1>1, <2>1, RetryFacts, QuietSend DEF TypeOK, tables
  <1> QED
    BY <1>2, <1>3, <1>4

(***************************************************************************)
(* Reservations.                                                           *)
(***************************************************************************)
\* A reservation and its rollback edit two columns of a row.
Edited(g, n, b) == [g EXCEPT !.used = n, !.revoked = b]

\* The other columns stay, and so does the type.
LEMMA GrantEdit ==
    \A g \in Grant, n \in Nat, b \in BOOLEAN :
       /\ Edited(g, n, b) \in Grant
       /\ Edited(g, n, b).used = n
       /\ Edited(g, n, b).revoked = b
       /\ Edited(g, n, b).who = g.who
       /\ Edited(g, n, b).cap = g.cap
  BY DEF Grant, Edited

\* A fresh reservation charges the grant and every key once.
LEMMA FreshInv ==
    ASSUME Inv, NEW m \in Messages, pc[m] \notin {"done", "dead"}, grant[SlotOf[m]].who # Nobody,
           FreshReservation(m), UNCHANGED <<clock, inviter, late, shown, stops, consents>>
    PROVE  Inv'
  <1> USE DEF Inv
  <1> DEFINE s == SlotOf[m]
             full == grant[s].cap > 0 /\ grant[s].used + 1 >= grant[s].cap
             uses == grant[s].used + 1
             b == grant[s].revoked \/ full
             r == Edited(grant[s], uses, b)
  <1>1. s \in Slots /\ grant[s] \in Grant /\ grant \in [Slots -> Grant] /\ m \notin marker /\ clock \in Time
    BY RosterAssumption DEF TypeOK, Grant, FreshReservation
  <1>2. r \in Grant /\ r.used = grant[s].used + 1 /\ r.who = grant[s].who
    <2>1. uses \in Nat /\ b \in BOOLEAN
      BY <1>1 DEF Grant
    <2> HIDE DEF uses, b
    <2>2. r \in Grant /\ r.used = uses /\ r.who = grant[s].who
      BY <1>1, <2>1, GrantEdit
    <2> QED
      BY <2>2 DEF uses
  <1>3. grant' = [grant EXCEPT ![s] = r]
    BY <1>1 DEF FreshReservation, Edited
  <1> HIDE DEF r, s, full, uses, b
  <1>4. grant' \in [Slots -> Grant] /\ grant'[s] = r /\ \A u \in Slots \ {s} : grant'[u] = grant[u]
    BY <1>1, <1>2, <1>3
  <1>5. /\ marker' = marker \union {m} /\ ledger' = Charge(KeysOf[m])
        /\ at' = [at EXCEPT ![m] = clock] /\ fresh' = [fresh EXCEPT ![m] = TRUE]
        /\ pc' = [pc EXCEPT ![m] = "sending"]
        /\ UNCHANGED <<clock, attempts, withdrawn, invite, charges, late, shown, stops, consents>>
        /\ UnderLimits(m)
    BY DEF FreshReservation, inviter, CanReserve
  <1>6. \A k \in Keys, w \in Time :
           ledger'[k][w] = IF k \in KeysOf[m] /\ WindowOf(k, clock) = w THEN ledger[k][w] + 1 ELSE ledger[k][w]
    BY <1>1, <1>5, WindowInTime DEF Charge, TypeOK
  <1>7. ledger' \in [Keys -> [Time -> Nat]]
    BY <1>1, <1>5, WindowInTime DEF Charge, TypeOK
  <1>8. TypeOK'
    BY <1>1, <1>4, <1>5, <1>7 DEF TypeOK, Grant
  <1>9. Held'
    <2>1. IsFiniteSet(marker')
      BY <1>5, FS_AddElement DEF Held
    <2>2. \A u \in Slots : grant'[u].who = grant[u].who
      BY <1>2, <1>4
    <2>3. \A n \in Messages : SlotOf[n] \in Slots
      BY RosterAssumption
    <2> QED
      BY <1>5, <2>1, <2>2, <2>3 DEF Held, TypeOK, s
  <1>10. Counted' /\ Invited'
    BY <1>5 DEF Counted, Invited, TypeOK
  <1>11. UsedMatchesReservations'
    <2> SUFFICES ASSUME NEW u \in Slots PROVE grant'[u].used = Cardinality(Standing(u)')
      BY DEF UsedMatchesReservations, Standing
    <2>1. CASE u = s
      <3>1. Standing(u)' = Standing(u) \union {m} /\ m \notin Standing(u)
        BY <1>1, <1>5, <2>1 DEF Standing, s
      <3>2. Cardinality(Standing(u)') = Cardinality(Standing(u)) + 1
        BY <3>1, CountsAreNumbers, FS_AddElement
      <3> QED
        BY <1>2, <1>4, <2>1, <3>2 DEF UsedMatchesReservations
    <2>2. CASE u # s
      <3>1. Standing(u)' = Standing(u)
        BY <1>5, <2>2 DEF Standing, s
      <3> QED
        BY <1>4, <2>2, <3>1 DEF UsedMatchesReservations
    <2> QED
      BY <2>1, <2>2
  <1>12. LedgerMatchesReservations'
    <2> SUFFICES ASSUME NEW k \in Keys, NEW w \in Time
                 PROVE  ledger'[k][w] = Cardinality(Sends(k, w)') + Cardinality(Asks(k, w)')
      BY DEF LedgerMatchesReservations, ChargedIn, Sends, Asks
    <2>1. Asks(k, w)' = Asks(k, w)
      BY <1>5 DEF Asks
    <2>2. \A n \in marker : at'[n] = at[n]
      BY <1>1, <1>5 DEF TypeOK
    <2>3. at'[m] = clock
      BY <1>5 DEF TypeOK
    <2>4. CASE k \in KeysOf[m] /\ WindowOf(k, clock) = w
      <3>1. Sends(k, w)' = Sends(k, w) \union {m} /\ m \notin Sends(k, w)
        BY <1>1, <1>5, <2>2, <2>3, <2>4 DEF Sends, WindowOf
      <3>2. Cardinality(Sends(k, w)') = Cardinality(Sends(k, w)) + 1
        BY <3>1, CountsAreNumbers, FS_AddElement
      <3> QED
        BY <1>6, <2>1, <2>4, <3>2, CountsAreNumbers
    <2>5. CASE ~ (k \in KeysOf[m] /\ WindowOf(k, clock) = w)
      <3>1. Sends(k, w)' = Sends(k, w)
        BY <1>5, <2>2, <2>3, <2>5 DEF Sends, WindowOf
      <3> QED
        BY <1>6, <2>1, <2>5, <3>1, CountsAreNumbers
    <2> QED
      BY <2>4, <2>5
  <1>13. LedgerUnderLimit'
    <2> SUFFICES ASSUME NEW k \in Keys, NEW w \in Time PROVE ledger'[k][w] <= Limit[k]
      BY DEF LedgerUnderLimit
    <2>1. ledger[k][w] \in Nat /\ Limit[k] \in Nat /\ ledger[k][w] <= Limit[k]
      BY RosterAssumption DEF LedgerUnderLimit, TypeOK
    <2>2. k \in KeysOf[m] /\ WindowOf(k, clock) = w => ledger[k][w] < Limit[k]
      BY <1>5 DEF UnderLimits
    <2> QED
      BY <1>6, <2>1, <2>2
  <1> QED
    BY <1>8, <1>9, <1>10, <1>11, <1>12, <1>13

\* The rollback of the attempt that made the reservation returns exactly what
\* it charged, in the window it charged.
LEMMA RollbackInv ==
    ASSUME Inv, NEW m \in Messages, Fail(m), fresh[m]
    PROVE  Inv'
  <1> USE DEF Inv
  <1> DEFINE s == SlotOf[m]
             back == IF grant[s].cap > 0 /\ grant[s].used >= grant[s].cap THEN FALSE ELSE grant[s].revoked
             uses == IF grant[s].used > 0 THEN grant[s].used - 1 ELSE 0
             r == Edited(grant[s], uses, back)
  <1>1. /\ s \in Slots /\ grant[s] \in Grant /\ grant \in [Slots -> Grant]
        /\ m \in marker /\ pc[m] \notin {"done", "dead"} /\ at[m] \in Time
    BY RosterAssumption DEF TypeOK, Grant, Fail, Held
  <1>2. r \in Grant /\ r.used = (IF grant[s].used > 0 THEN grant[s].used - 1 ELSE 0) /\ r.who = grant[s].who
    <2>1. uses \in Nat /\ back \in BOOLEAN
      <3>1. grant[s].used \in Nat /\ grant[s].revoked \in BOOLEAN
        BY <1>1 DEF Grant
      <3>2. uses \in Nat
        BY <3>1
      <3>3. back \in BOOLEAN
        BY <3>1, Zenon
      <3> QED
        BY <3>2, <3>3
    <2> HIDE DEF uses, back
    <2>2. r \in Grant /\ r.used = uses /\ r.who = grant[s].who
      BY <1>1, <2>1, GrantEdit
    <2> QED
      BY <2>2 DEF uses
  <1>3. grant' = [grant EXCEPT ![s] = r]
    BY <1>1 DEF Fail, rollbackRosterReservation, Edited
  <1> HIDE DEF r, s, back, uses
  <1>4. grant' \in [Slots -> Grant] /\ grant'[s] = r /\ \A u \in Slots \ {s} : grant'[u] = grant[u]
    BY <1>1, <1>2, <1>3
  <1>5. /\ marker' = marker \ {m} /\ ledger' = Refund(m, at[m]) /\ Retry(m)
        /\ UNCHANGED <<clock, at, withdrawn, invite, charges, late, shown, stops, consents>>
    BY DEF Fail, rollbackRosterReservation, inviter
  <1>6. ASSUME NEW k \in Keys, NEW w \in Time, k \in KeysOf[m] /\ WindowOf(k, at[m]) = w
        PROVE  /\ Sends(k, w)' = Sends(k, w) \ {m} /\ m \in Sends(k, w)
               /\ ledger[k][w] > 0
               /\ Cardinality(Sends(k, w)') = Cardinality(Sends(k, w)) - 1
    <2>1. Sends(k, w)' = Sends(k, w) \ {m} /\ m \in Sends(k, w)
      BY <1>1, <1>5, <1>6 DEF Sends
    <2>2. Cardinality(Sends(k, w)') = Cardinality(Sends(k, w)) - 1
      BY <2>1, CountsAreNumbers, FS_RemoveElement, ZenonT(60)
    <2>3. Cardinality(Sends(k, w)) # 0
      BY <2>1, CountsAreNumbers, FS_EmptySet
    <2> QED
      BY <2>1, <2>2, <2>3, CountsAreNumbers
  <1>7. ASSUME NEW k \in Keys, NEW w \in Time
        PROVE  ledger'[k][w] = IF k \in KeysOf[m] /\ WindowOf(k, at[m]) = w THEN ledger[k][w] - 1 ELSE ledger[k][w]
    <2>1. WindowOf(k, at[m]) \in Time /\ ledger[k] \in [Time -> Nat]
      BY <1>1, WindowInTime DEF TypeOK
    <2>2. ledger'[k] = IF k \in KeysOf[m] /\ ledger[k][WindowOf(k, at[m])] > 0
                       THEN [ledger[k] EXCEPT ![WindowOf(k, at[m])] = @ - 1]
                       ELSE ledger[k]
      BY <1>5 DEF Refund
    <2>3. CASE k \in KeysOf[m] /\ WindowOf(k, at[m]) = w
      BY <1>6, <2>1, <2>2, <2>3
    <2>4. CASE ~ (k \in KeysOf[m] /\ WindowOf(k, at[m]) = w)
      BY <2>1, <2>2, <2>4
    <2> QED
      BY <2>3, <2>4
  <1>8. ledger' \in [Keys -> [Time -> Nat]]
    <2>1. ASSUME NEW k \in Keys PROVE ledger'[k] \in [Time -> Nat]
      <3>1. WindowOf(k, at[m]) \in Time /\ ledger[k] \in [Time -> Nat]
        BY <1>1, WindowInTime DEF TypeOK
      <3>2. ledger'[k] = IF k \in KeysOf[m] /\ ledger[k][WindowOf(k, at[m])] > 0
                         THEN [ledger[k] EXCEPT ![WindowOf(k, at[m])] = @ - 1]
                         ELSE ledger[k]
        BY <1>5 DEF Refund
      <3> QED
        BY <3>1, <3>2
    <2>2. ledger' = [k \in Keys |-> ledger'[k]]
      BY <1>5 DEF Refund
    <2> QED
      BY <2>1, <2>2
  <1>9. /\ pc' \in [Messages -> {"idle", "checked", "sending", "accepted", "done", "dead"}]
        /\ fresh' \in [Messages -> BOOLEAN]
        /\ attempts' \in [Messages -> 0 .. MaxAttempts]
        /\ Counted'
        /\ \A n \in Messages : /\ fresh'[n] => fresh[n] /\ n # m
                               /\ pc'[n] = "checked" => pc[n] = "checked"
    BY <1>1, <1>5, RetryFacts
  <1>10. TypeOK'
    BY <1>4, <1>5, <1>8, <1>9 DEF TypeOK, Grant
  <1>11. Held'
    <2>1. IsFiniteSet(marker')
      BY <1>5, FS_RemoveElement DEF Held
    <2>2. \A u \in Slots : grant'[u].who = grant[u].who
      BY <1>2, <1>4
    <2>3. \A n \in Messages : SlotOf[n] \in Slots
      BY RosterAssumption
    <2> QED
      BY <1>5, <1>9, <2>1, <2>2, <2>3 DEF Held, TypeOK
  <1>12. Invited'
    BY <1>5 DEF Invited
  <1>13. UsedMatchesReservations'
    <2> SUFFICES ASSUME NEW u \in Slots PROVE grant'[u].used = Cardinality(Standing(u)')
      BY DEF UsedMatchesReservations, Standing
    <2>1. CASE u = s
      <3>1. Standing(u)' = Standing(u) \ {m} /\ m \in Standing(u)
        BY <1>1, <1>5, <2>1 DEF Standing, s
      <3>2. Cardinality(Standing(u)') = Cardinality(Standing(u)) - 1
        BY <3>1, CountsAreNumbers, FS_RemoveElement, ZenonT(60)
      <3>3. Cardinality(Standing(u)) # 0 /\ Cardinality(Standing(u)) \in Nat
        BY <3>1, CountsAreNumbers, FS_EmptySet
      <3>4. grant[s].used = Cardinality(Standing(u))
        BY <2>1 DEF UsedMatchesReservations
      <3> QED
        BY <1>2, <1>4, <2>1, <3>2, <3>3, <3>4
    <2>2. CASE u # s
      <3>1. Standing(u)' = Standing(u)
        BY <1>5, <2>2 DEF Standing, s
      <3> QED
        BY <1>4, <2>2, <3>1 DEF UsedMatchesReservations
    <2> QED
      BY <2>1, <2>2
  <1>14. LedgerMatchesReservations'
    <2> SUFFICES ASSUME NEW k \in Keys, NEW w \in Time
                 PROVE  ledger'[k][w] = Cardinality(Sends(k, w)') + Cardinality(Asks(k, w)')
      BY DEF LedgerMatchesReservations, ChargedIn, Sends, Asks
    <2>1. Asks(k, w)' = Asks(k, w)
      BY <1>5 DEF Asks
    <2>2. CASE k \in KeysOf[m] /\ WindowOf(k, at[m]) = w
      BY <1>6, <1>7, <2>1, <2>2, CountsAreNumbers
    <2>3. CASE ~ (k \in KeysOf[m] /\ WindowOf(k, at[m]) = w)
      <3>1. Sends(k, w)' = Sends(k, w)
        BY <1>5, <2>3 DEF Sends
      <3> QED
        BY <1>7, <2>1, <2>3, <3>1, CountsAreNumbers
    <2> QED
      BY <2>2, <2>3
  <1>15. LedgerUnderLimit'
    <2> SUFFICES ASSUME NEW k \in Keys, NEW w \in Time PROVE ledger'[k][w] <= Limit[k]
      BY DEF LedgerUnderLimit
    <2>1. ledger[k][w] \in Nat /\ Limit[k] \in Nat /\ ledger[k][w] <= Limit[k]
      BY RosterAssumption DEF LedgerUnderLimit, TypeOK
    <2> QED
      BY <1>7, <2>1
  <1> QED
    BY <1>9, <1>10, <1>11, <1>12, <1>13, <1>14, <1>15

\* The whole of reserveRosterSend, for a row that has passed its gates.
LEMMA ReserveInv ==
    ASSUME Inv, NEW m \in Messages, pc[m] \notin {"done", "dead"}, grant[SlotOf[m]].who # Nobody,
           reserveRosterSend(m), UNCHANGED <<clock, inviter, late, shown, stops, consents>>
    PROVE  Inv'
  <1> USE DEF Inv
  <1>1. grant \in [Slots -> Grant] /\ withdrawn \subseteq Slots
    BY DEF TypeOK, Grant
  <1>2. CASE StandingReservation(m)
    <2>1. /\ pc' = [pc EXCEPT ![m] = "sending"] /\ fresh' = [fresh EXCEPT ![m] = FALSE]
          /\ UNCHANGED <<tables, at, attempts, withdrawn>>
      BY <1>2 DEF StandingReservation
    <2>2. /\ pc' \in [Messages -> {"idle", "checked", "sending", "accepted", "done", "dead"}]
          /\ fresh' \in [Messages -> BOOLEAN]
          /\ \A n \in Messages : /\ pc'[n] = "checked" => pc[n] = "checked"
                                 /\ pc'[n] # "dead" => pc[n] # "dead"
                                 /\ fresh'[n] => fresh[n]
      BY <2>1 DEF TypeOK
    <2>3. Counted'
      BY <2>1, <2>2 DEF Counted
    <2> QED
      BY <1>1, <2>1, <2>2, <2>3, QuietSend DEF TypeOK, tables
  <1>3. CASE FreshReservation(m)
    BY <1>3, FreshInv
  <1>4. CASE Reject(m)
    BY <1>1, <1>4, RetryFacts, QuietSend DEF Reject, TypeOK, tables
  <1> QED
    BY <1>2, <1>3, <1>4 DEF reserveRosterSend

\* The gates before the first await.
LEMMA AttemptInv == ASSUME Inv, NEW m \in Messages, Attempt(m) PROVE Inv'
  <1> USE DEF Inv
  <1>1. pc[m] = "idle" /\ UNCHANGED <<clock, inviter, late, shown, stops, consents>>
    BY DEF Attempt
  <1>2. grant \in [Slots -> Grant] /\ withdrawn \subseteq Slots
    BY DEF TypeOK, Grant
  <1>3. CASE Reject(m)
    BY <1>1, <1>2, <1>3, RetryFacts, QuietSend DEF Reject, TypeOK, tables
  <1>4. CASE checkGrantLive(SlotOf[m]) /\ reserveRosterSend(m)
    BY <1>1, <1>4, ReserveInv DEF checkGrantLive
  <1>5. CASE /\ checkGrantLive(SlotOf[m])
             /\ pc' = [pc EXCEPT ![m] = "checked"]
             /\ UNCHANGED <<tables, fresh, at, attempts, withdrawn>>
    <2>1. /\ pc' \in [Messages -> {"idle", "checked", "sending", "accepted", "done", "dead"}]
          /\ \A n \in Messages : /\ pc'[n] = "checked" => pc[n] = "checked" \/ grant[SlotOf[n]].who # Nobody
                                 /\ pc'[n] # "dead" => pc[n] # "dead"
      BY <1>1, <1>5 DEF TypeOK, checkGrantLive
    <2>2. Counted'
      BY <1>5, <2>1 DEF Counted
    <2> QED
      BY <1>1, <1>2, <1>5, <2>1, <2>2, QuietSend DEF TypeOK, tables
  <1> QED
    BY <1>3, <1>4, <1>5 DEF Attempt

\* The answer of the gateway or of the membership check.
LEMMA AnsweredInv == ASSUME Inv, NEW m \in Messages, Answered(m) PROVE Inv'
  <1> USE DEF Inv
  <1>1. /\ pc[m] = "checked" /\ grant[SlotOf[m]].who # Nobody
        /\ UNCHANGED <<clock, inviter, late, shown, stops, consents>>
    BY DEF Answered, Held
  <1>2. grant \in [Slots -> Grant] /\ withdrawn \subseteq Slots
    BY DEF TypeOK, Grant
  <1>3. CASE reserveRosterSend(m)
    BY <1>1, <1>3, ReserveInv
  <1>4. CASE Reject(m)
    BY <1>1, <1>2, <1>4, RetryFacts, QuietSend DEF Reject, TypeOK, tables
  <1>5. CASE /\ grant' = Revoked(SlotsOf(grant[SlotOf[m]].who))
             /\ withdrawn' = withdrawn \union SlotsOf(grant[SlotOf[m]].who)
             /\ Retry(m)
             /\ UNCHANGED <<marker, ledger, at>>
    <2>1. /\ grant' \in [Slots -> Grant] /\ withdrawn' \subseteq Slots
          /\ \A s \in Slots : grant'[s].used = grant[s].used /\ grant'[s].who = grant[s].who
      BY <1>2, <1>5 DEF Revoked, SlotsOf, Grant
    <2> QED
      BY <1>1, <1>5, <2>1, RetryFacts, QuietSend DEF TypeOK
  <1> QED
    BY <1>3, <1>4, <1>5 DEF Answered

\* An invite is asked, charged once, and its card posted or lost.
LEMMA InviteInv ==
    ASSUME Inv, NEW i \in Invites, InviteAsk(i) \/ InviteAnswered(i) \/ InviteCard(i)
    PROVE  Inv'
  <1> USE DEF Inv
  <1>1. /\ UNCHANGED <<grant, marker, clock, sender, late, shown, withdrawn, stops, consents>>
        /\ invite' \in [Invites -> {"new", "asked", "charged", "sent", "unsent", "refused"}]
    BY DEF InviteAsk, InviteAnswered, InviteCard, tables, TypeOK
  <1>2. \A j \in Invites : invite[j] \in {"charged", "sent", "unsent"} => invite'[j] \in {"charged", "sent", "unsent"}
    BY DEF InviteAsk, InviteAnswered, InviteCard, TypeOK
  <1>3. Counted'
    BY <1>1 DEF Counted, sender
  <1>4. CASE UNCHANGED <<ledger, charges>>
    <2>1. TypeOK'
      BY <1>1, <1>4 DEF TypeOK, sender
    <2>2. Invited'
      BY <1>1, <1>2, <1>4 DEF Invited, TypeOK
    <2> QED
      BY <1>1, <1>3, <1>4, <2>1, <2>2, Frame DEF sender
  <1>5. CASE /\ invite[i] = "asked" /\ InviteUnderLimits
             /\ ledger' = Charge(InviteKeys)
             /\ charges' = charges \union {<<i, stops, clock>>}
             /\ invite' = [invite EXCEPT ![i] = "charged"]
    <2> DEFINE c == <<i, stops, clock>>
    <2>1. clock \in Time /\ stops \in Nat /\ c \in Invites \X Nat \X Time
      BY DEF TypeOK
    <2>2. c[1] = i /\ c[2] = stops /\ c[3] = clock /\ c \notin charges
      BY <1>5 DEF Invited
    <2> HIDE DEF c
    <2>3. \A k \in Keys, w \in Time :
             ledger'[k][w] = IF k \in InviteKeys /\ WindowOf(k, clock) = w THEN ledger[k][w] + 1 ELSE ledger[k][w]
      BY <1>5, <2>1, WindowInTime DEF Charge, TypeOK
    <2>4. ledger' \in [Keys -> [Time -> Nat]]
      BY <1>5, <2>1, WindowInTime DEF Charge, TypeOK
    <2>5. charges' = charges \union {c}
      BY <1>5 DEF c
    <2>6. TypeOK'
      BY <1>1, <2>1, <2>4, <2>5 DEF TypeOK, sender
    <2>7. Held'
      BY <1>1 DEF Held, sender
    <2>8. Invited'
      <3>1. IsFiniteSet(charges')
        BY <2>5, FS_AddElement DEF Invited
      <3>2. ASSUME NEW d \in charges'
            PROVE  d[2] <= stops' /\ (d[2] = stops' => invite'[d[1]] \in {"charged", "sent", "unsent"})
        <4>1. CASE d = c
          BY <1>1, <1>5, <2>1, <2>2, <4>1 DEF TypeOK
        <4>2. CASE d \in charges
          BY <1>1, <1>2, <4>2 DEF Invited, TypeOK
        <4> QED
          BY <2>5, <3>2, <4>1, <4>2
      <3> QED
        BY <3>1, <3>2 DEF Invited
    <2>9. UsedMatchesReservations'
      BY <1>1 DEF UsedMatchesReservations, Standing
    <2>10. LedgerMatchesReservations'
      <3> SUFFICES ASSUME NEW k \in Keys, NEW w \in Time
                   PROVE  ledger'[k][w] = Cardinality(Sends(k, w)') + Cardinality(Asks(k, w)')
        BY DEF LedgerMatchesReservations, ChargedIn, Sends, Asks
      <3>1. Sends(k, w)' = Sends(k, w)
        BY <1>1 DEF Sends, sender
      <3>2. CASE k \in InviteKeys /\ WindowOf(k, clock) = w
        <4>1. Asks(k, w)' = Asks(k, w) \union {c} /\ c \notin Asks(k, w)
          BY <2>2, <2>5, <3>2 DEF Asks, WindowOf
        <4>2. Cardinality(Asks(k, w)') = Cardinality(Asks(k, w)) + 1
          BY <4>1, CountsAreNumbers, FS_AddElement
        <4> QED
          BY <2>3, <3>1, <3>2, <4>2, CountsAreNumbers
      <3>3. CASE ~ (k \in InviteKeys /\ WindowOf(k, clock) = w)
        <4>1. Asks(k, w)' = Asks(k, w)
          BY <2>2, <2>5, <3>3 DEF Asks, WindowOf
        <4> QED
          BY <2>3, <3>1, <3>3, <4>1, CountsAreNumbers
      <3> QED
        BY <3>2, <3>3
    <2>11. LedgerUnderLimit'
      <3> SUFFICES ASSUME NEW k \in Keys, NEW w \in Time PROVE ledger'[k][w] <= Limit[k]
        BY DEF LedgerUnderLimit
      <3>1. ledger[k][w] \in Nat /\ Limit[k] \in Nat /\ ledger[k][w] <= Limit[k]
        BY RosterAssumption DEF LedgerUnderLimit, TypeOK
      <3>2. k \in InviteKeys /\ WindowOf(k, clock) = w => ledger[k][w] < Limit[k]
        BY <1>5 DEF InviteUnderLimits
      <3> QED
        BY <2>3, <3>1, <3>2
    <2> QED
      BY <1>3, <2>6, <2>7, <2>8, <2>9, <2>10, <2>11
  <1> QED
    BY <1>4, <1>5 DEF InviteAsk, InviteAnswered, InviteCard, tables

\* Time passes; the host stops.
LEMMA TimeInv == ASSUME Inv, Tick \/ Stop PROVE Inv'
  <1> USE DEF Inv
  <1>1. CASE Tick
    <2>1. UNCHANGED <<tables, sender, inviter, late, shown, withdrawn, stops, consents>> /\ clock' \in Time
      BY <1>1, RosterAssumption DEF Tick, TypeOK, Time
    <2>2. TypeOK' /\ Counted' /\ Invited'
      BY <2>1 DEF TypeOK, Counted, Invited, tables, sender, inviter
    <2> QED
      BY <2>1, <2>2, Frame DEF tables, sender, inviter
  <1>2. CASE Stop
    <2>1. /\ UNCHANGED <<tables, clock, at, attempts, charges, shown, withdrawn, consents>>
          /\ stops' = stops + 1
          /\ pc' = [m \in Messages |-> IF pc[m] \in {"done", "dead"} THEN pc[m] ELSE "idle"]
          /\ fresh' = [m \in Messages |-> FALSE]
          /\ late' \in [Messages -> Nat]
          /\ invite' \in [Invites -> {"new", "asked", "charged", "sent", "unsent", "refused"}]
      BY <1>2 DEF Stop, TypeOK
    <2>2. /\ pc' \in [Messages -> {"idle", "checked", "sending", "accepted", "done", "dead"}]
          /\ \A n \in Messages : pc'[n] # "checked" /\ (pc'[n] # "dead" => pc[n] # "dead") /\ ~ fresh'[n]
      BY <2>1 DEF TypeOK
    <2>3. TypeOK'
      BY <2>1, <2>2 DEF TypeOK, tables
    <2>4. Counted'
      BY <2>1, <2>2 DEF Counted
    <2>5. Invited'
      <3>1. \A c \in charges : c[2] \in Nat /\ c[2] <= stops /\ stops \in Nat
        BY DEF Invited, TypeOK
      <3> QED
        BY <2>1, <3>1 DEF Invited
    <2> QED
      BY <2>1, <2>2, <2>3, <2>4, <2>5, Frame DEF tables
  <1> QED
    BY <1>1, <1>2
-----------------------------------------------------------------------------
\* An empty scope satisfies Inv.
LEMMA InitInv == Init => Inv
  <1> SUFFICES ASSUME Init PROVE Inv
    OBVIOUS
  <1>1. TypeOK
    BY RosterAssumption DEF Init, TypeOK, Time, NoGrant
  <1>2. Held /\ Counted /\ Invited
    BY RosterAssumption, FS_EmptySet DEF Init, Held, Counted, Invited
  <1>3. UsedMatchesReservations
    <2>1. \A s \in Slots : Standing(s) = {} /\ grant[s].used = 0
      BY DEF Init, Standing, NoGrant
    <2> QED
      BY <2>1, FS_EmptySet DEF UsedMatchesReservations
  <1>4. LedgerMatchesReservations
    <2> SUFFICES ASSUME NEW k \in Keys, NEW w \in Time PROVE ledger[k][w] = ChargedIn(k, w)
      BY DEF LedgerMatchesReservations
    <2>1. Sends(k, w) = {} /\ Asks(k, w) = {} /\ ledger[k][w] = 0
      BY DEF Init, Sends, Asks
    <2>2. ChargedIn(k, w) = 0
      BY <2>1, FS_EmptySet DEF ChargedIn, Sends, Asks
    <2> QED
      BY <2>1, <2>2
  <1>5. LedgerUnderLimit
    BY RosterAssumption DEF Init, LedgerUnderLimit
  <1> QED
    BY <1>1, <1>2, <1>3, <1>4, <1>5 DEF Inv

\* Every step of the participants, the senders and the host keeps Inv.
LEMMA NextInv == Inv /\ [Next]_vars => Inv'
  <1> SUFFICES ASSUME Inv, [Next]_vars PROVE Inv'
    OBVIOUS
  <1>1. CASE \/ \E p \in Participants :
                   \/ \E s \in Slots, group \in BOOLEAN : insertDmGrant(p, s, group)
                   \/ optOutParticipant(p)
                   \/ revokeGrantsForLeaver(p)
             \/ handleChatDisbanded \/ revokeScope
             \/ \E s \in Slots : Expire(s)
    <2>1. ASSUME NEW S \in SUBSET Slots, Withdraw(S) PROVE Inv'
      BY <2>1, ConsentInv
    <2>2. (\E p \in Participants : optOutParticipant(p) \/ revokeGrantsForLeaver(p)) => Inv'
      BY <2>1 DEF optOutParticipant, revokeGrantsForLeaver, SlotsOf
    <2>3. handleChatDisbanded \/ revokeScope => Inv'
      BY <2>1 DEF handleChatDisbanded, revokeScope
    <2> QED
      BY <1>1, <2>2, <2>3, ConsentInv
  <1>2. ASSUME NEW m \in Messages,
               \/ Attempt(m) \/ Answered(m) \/ Accept(m) \/ Succeed(m)
               \/ TimeOut(m) \/ Fail(m) \/ LateAccept(m)
        PROVE  Inv'
    BY <1>2, AttemptInv, AnsweredInv, SenderInv, RollbackInv
  <1>3. ASSUME NEW i \in Invites, InviteAsk(i) \/ InviteAnswered(i) \/ InviteCard(i) PROVE Inv'
    BY <1>3, InviteInv
  <1>4. CASE Tick \/ Stop
    BY <1>4, TimeInv
  <1>5. CASE UNCHANGED vars
    <2>1. TypeOK' /\ Counted' /\ Invited'
      BY <1>5 DEF vars, tables, sender, inviter, Inv, TypeOK, Counted, Invited
    <2> QED
      BY <1>5, <2>1, Frame DEF vars, tables, sender, inviter
  <1> QED
    BY <1>1, <1>2, <1>3, <1>4, <1>5 DEF Next

\* Every reachable state of the roster satisfies Inv.
THEOREM Invariance == Spec => []Inv
  <1> QED
    BY InitInv, NextInv, PTL DEF Spec

\* The tables and the senders keep their types; in particular no row is tried
\* more often than DELIVERY_MAX_ATTEMPTS.
THEOREM TypeCorrect == Spec => []TypeOK
  <1>1. Inv => TypeOK
    BY DEF Inv
  <1> QED
    BY <1>1, Invariance, PTL

\* The books balance for every number of slots, messages, keys and windows:
\* sends_used counts the standing reservations of the grant, and a rate window
\* holds the charges that stand in it.
THEOREM BooksAreBalanced == Spec => []BooksBalance
  <1>1. Inv => BooksBalance
    BY DEF Inv, BooksBalance
  <1> QED
    BY <1>1, Invariance, PTL

\* No interleaving of drains and invites overshoots a rate key.
THEOREM LimitsHeld == Spec => []RatesHeld
  <1>1. Inv => RatesHeld
    BY DEF Inv, LedgerMatchesReservations, LedgerUnderLimit, RatesHeld
  <1> QED
    BY <1>1, Invariance, PTL

(***************************************************************************)
(* Withdrawal, for grants without a cap.  Where there is one, a rollback   *)
(* un-revokes a grant that had been revoked by a withdrawal as well.       *)
(***************************************************************************)
\* No grant has a cap, and the withdrawn ones are revoked.
Uncapped == (\A s \in Slots : grant[s].cap = 0) /\ WithdrawalSticks

\* Reserving leaves a withdrawal alone.
LEMMA ReserveUncapped ==
    ASSUME TypeOK, Uncapped, NEW m \in Messages, reserveRosterSend(m)
    PROVE  Uncapped'
  <1> USE DEF Uncapped, WithdrawalSticks
  <1>1. CASE StandingReservation(m) \/ Reject(m)
    BY <1>1 DEF StandingReservation, Reject, tables
  <1>2. CASE FreshReservation(m)
    <2> DEFINE s == SlotOf[m]
    <2>1. s \in Slots /\ grant \in [Slots -> Grant] /\ withdrawn' = withdrawn
      BY <1>2, RosterAssumption DEF TypeOK, Grant, FreshReservation
    <2>2. /\ grant'[s].cap = grant[s].cap /\ (grant[s].revoked => grant'[s].revoked)
          /\ \A u \in Slots \ {s} : grant'[u] = grant[u]
      BY <1>2, <2>1 DEF FreshReservation, Grant
    <2> QED
      BY <2>1, <2>2 DEF TypeOK
  <1> QED
    BY <1>1, <1>2 DEF reserveRosterSend

\* Every step keeps Uncapped where new grants have no cap.
LEMMA NextUncapped ==
    ASSUME MaxSends = 0, TypeOK, Uncapped, [Next]_vars
    PROVE  Uncapped'
  <1> USE DEF Uncapped, WithdrawalSticks
  <1>0. grant \in [Slots -> Grant] /\ withdrawn \subseteq Slots
    BY DEF TypeOK, Grant
  <1>1. ASSUME NEW p \in Participants, NEW s \in Slots, NEW group \in BOOLEAN, insertDmGrant(p, s, group)
        PROVE  Uncapped'
    <2>1. withdrawn' = withdrawn \ {s} /\ \A u \in Slots \ {s} : grant'[u] = grant[u]
      BY <1>0, <1>1 DEF insertDmGrant
    <2>2. grant'[s].cap = 0
      <3>1. CASE grant' = [grant EXCEPT ![s] = [NoGrant EXCEPT !.who = p, !.cap = MaxSends, !.fromGroup = group]]
        BY <1>0, <3>1 DEF NoGrant
      <3>2. CASE grant' = [grant EXCEPT ![s].revoked = FALSE, ![s].expired = FALSE, ![s].fromGroup = group]
        <4>1. grant'[s] = [grant[s] EXCEPT !.revoked = FALSE, !.expired = FALSE, !.fromGroup = group]
          BY <1>0, <3>2
        <4>2. grant[s] \in Grant
          BY <1>0
        <4>3. grant'[s].cap = grant[s].cap
          BY <4>1, <4>2 DEF Grant
        <4> QED
          BY <4>3
      <3> QED
        BY <1>1, <3>1, <3>2 DEF insertDmGrant
    <2> QED
      BY <1>0, <2>1, <2>2
  <1>2. ASSUME NEW S \in SUBSET Slots, grant' = Revoked(S), withdrawn' = withdrawn \union S
        PROVE  Uncapped'
    BY <1>0, <1>2 DEF Revoked, Grant
  <1>3. ASSUME NEW s \in Slots, Expire(s) PROVE Uncapped'
    <2>1. withdrawn' = withdrawn /\ \A u \in Slots \ {s} : grant'[u] = grant[u]
      BY <1>0, <1>3 DEF Expire
    <2>2. grant'[s].cap = grant[s].cap /\ grant'[s].revoked = grant[s].revoked
      BY <1>0, <1>3 DEF Expire, Grant
    <2> QED
      BY <1>0, <2>1, <2>2
  <1>4. ASSUME NEW m \in Messages, Attempt(m) \/ Answered(m) PROVE Uncapped'
    <2>1. CASE reserveRosterSend(m)
      BY <2>1, ReserveUncapped
    <2>2. CASE UNCHANGED <<grant, withdrawn>>
      BY <2>2
    <2>3. CASE /\ grant' = Revoked(SlotsOf(grant[SlotOf[m]].who))
               /\ withdrawn' = withdrawn \union SlotsOf(grant[SlotOf[m]].who)
      BY <1>2, <2>3 DEF SlotsOf
    <2> QED
      BY <1>4, <2>1, <2>2, <2>3 DEF Attempt, Answered, Reject, tables
  <1>5. ASSUME NEW m \in Messages, Fail(m) PROVE Uncapped'
    <2>1. CASE fresh[m]
      <3> DEFINE s == SlotOf[m]
      <3>1. s \in Slots /\ withdrawn' = withdrawn
        BY <1>5, RosterAssumption DEF Fail
      <3>2. /\ grant'[s].cap = grant[s].cap /\ grant'[s].revoked = grant[s].revoked
            /\ \A u \in Slots \ {s} : grant'[u] = grant[u]
        BY <1>0, <1>5, <2>1, <3>1 DEF Fail, rollbackRosterReservation, Grant
      <3> QED
        BY <1>0, <3>1, <3>2
    <2>2. CASE ~ fresh[m]
      BY <1>5, <2>2 DEF Fail, tables
    <2> QED
      BY <2>1, <2>2
  <1>6. CASE UNCHANGED <<grant, withdrawn>>
    BY <1>6
  <1>7. CASE \/ \E p \in Participants : optOutParticipant(p) \/ revokeGrantsForLeaver(p)
             \/ handleChatDisbanded \/ revokeScope
    <2>1. PICK S \in SUBSET Slots : Withdraw(S)
      BY <1>7 DEF optOutParticipant, revokeGrantsForLeaver, handleChatDisbanded, revokeScope, SlotsOf
    <2> QED
      BY <1>2, <2>1 DEF Withdraw
  <1>8. CASE \/ \E m \in Messages : Accept(m) \/ Succeed(m) \/ TimeOut(m) \/ LateAccept(m)
             \/ \E i \in Invites : InviteAsk(i) \/ InviteAnswered(i) \/ InviteCard(i)
             \/ Tick \/ Stop \/ UNCHANGED vars
    BY <1>6, <1>8 DEF Accept, Succeed, TimeOut, LateAccept, Reject, InviteAsk, InviteAnswered, InviteCard,
       Tick, Stop, vars, tables
  <1> QED
    BY <1>1, <1>3, <1>4, <1>5, <1>7, <1>8 DEF Next

\* Without a cap on the grants, a withdrawn consent stays withdrawn until the
\* participant consents again.
THEOREM WithdrawalIsKept == ASSUME MaxSends = 0 PROVE Spec => []WithdrawalSticks
  <1>1. Init => Uncapped
    BY DEF Init, Uncapped, WithdrawalSticks, NoGrant
  <1>2. TypeOK /\ Uncapped /\ [Next]_vars => Uncapped'
    BY NextUncapped
  <1>3. Uncapped => WithdrawalSticks
    BY DEF Uncapped
  <1> QED
    BY <1>1, <1>2, <1>3, TypeCorrect, PTL DEF Spec

\* Without a cap, no send is started for a withdrawn consent unless it was paid
\* for before the withdrawal, whatever is awaited in between.
THEOREM WithdrawalIsObeyed == ASSUME MaxSends = 0 PROVE Spec => WithdrawalStopsNewSends
  <1> DEFINE A == \A m \in Messages :
                     pc[m] # "sending" /\ pc'[m] = "sending" /\ m \notin marker
                         => SlotOf[m] \notin withdrawn
  <1>1. TypeOK /\ WithdrawalSticks /\ [Next]_vars => [A]_vars
    <2> SUFFICES ASSUME TypeOK, WithdrawalSticks, Next, NEW m \in Messages,
                        pc[m] # "sending", pc'[m] = "sending", m \notin marker
                 PROVE  SlotOf[m] \notin withdrawn
      OBVIOUS
    <2>1. ASSUME NEW n \in Messages, reserveRosterSend(n) PROVE SlotOf[m] \notin withdrawn
      <3>1. FreshReservation(n) /\ n = m
        BY <2>1 DEF reserveRosterSend, StandingReservation, FreshReservation, Reject, Retry, TypeOK
      <3> QED
        BY <3>1 DEF FreshReservation, CanReserve, WithdrawalSticks
    <2>2. ASSUME NEW n \in Messages, Attempt(n) \/ Answered(n), ~ reserveRosterSend(n)
          PROVE FALSE
      BY <2>2 DEF Attempt, Answered, Reject, Retry, TypeOK
    <2>3. ASSUME NEW n \in Messages, Accept(n) \/ Succeed(n) \/ TimeOut(n) \/ Fail(n) \/ LateAccept(n)
          PROVE FALSE
      BY <2>3 DEF Accept, Succeed, TimeOut, Fail, LateAccept, Reject, Retry, sender, TypeOK
    <2>4. ASSUME NEW S, Withdraw(S) PROVE FALSE
      BY <2>4, SMTT(40) DEF Withdraw, sender
    <2>5. CASE \/ \E p \in Participants :
                     \/ \E s \in Slots, group \in BOOLEAN : insertDmGrant(p, s, group)
                     \/ optOutParticipant(p)
                     \/ revokeGrantsForLeaver(p)
               \/ handleChatDisbanded \/ revokeScope
               \/ \E s \in Slots : Expire(s)
      BY <2>4, <2>5 DEF insertDmGrant, optOutParticipant, revokeGrantsForLeaver, handleChatDisbanded,
         revokeScope, Expire, sender
    <2>6. CASE \/ \E i \in Invites : InviteAsk(i) \/ InviteAnswered(i) \/ InviteCard(i)
               \/ Tick
      BY <2>6 DEF InviteAsk, InviteAnswered, InviteCard, Tick, sender
    <2>7. CASE Stop
      BY <2>7 DEF Stop
    <2> QED
      BY <2>1, <2>2, <2>3, <2>5, <2>6, <2>7 DEF Next
  <1> QED
    BY <1>1, TypeCorrect, WithdrawalIsKept, PTL DEF Spec, WithdrawalStopsNewSends

(***************************************************************************)
(* The cap, for adapters that report an error only for a send that did not *)
(* land.                                                                   *)
(***************************************************************************)
\* No capped grant is overdrawn.
Capped == \A s \in Slots : grant[s].cap > 0 => grant[s].used <= grant[s].cap

\* What landed, or may still land, is paid for; the attempt that paid for it
\* cannot fail any more.
Paid ==
    \A m \in Messages :
       /\ pc[m] \in {"sending", "accepted"} => m \in marker
       /\ shown[m] + late[m] > 0 => /\ m \in marker
                                    /\ fresh[m] => pc[m] \in {"accepted", "done"}

\* Steps that move no money keep Capped.
LEMMA NextCapped == ASSUME Inv, Capped, [Next]_vars PROVE Capped'
  <1> USE DEF Inv, Capped
  <1>0. grant \in [Slots -> Grant]
    BY DEF TypeOK, Grant
  <1>1. ASSUME NEW s \in Slots, NEW r, grant' = [grant EXCEPT ![s] = r], r.cap > 0 => r.used <= r.cap
        PROVE  Capped'
    BY <1>0, <1>1
  <1>2. ASSUME \A s \in Slots : grant'[s].cap = grant[s].cap /\ grant'[s].used = grant[s].used
        PROVE  Capped'
    BY <1>2
  <1>3. ASSUME NEW p \in Participants, NEW s \in Slots, NEW group \in BOOLEAN, insertDmGrant(p, s, group)
        PROVE  Capped'
    <2>1. CASE grant' = [grant EXCEPT ![s] = [NoGrant EXCEPT !.who = p, !.cap = MaxSends, !.fromGroup = group]]
      <3> DEFINE r == [NoGrant EXCEPT !.who = p, !.cap = MaxSends, !.fromGroup = group]
      <3>1. r.cap > 0 => r.used <= r.cap
        BY RosterAssumption DEF NoGrant
      <3> QED
        BY <1>1, <2>1, <3>1
    <2>2. CASE grant' = [grant EXCEPT ![s].revoked = FALSE, ![s].expired = FALSE, ![s].fromGroup = group]
      <3>1. grant'[s] = [grant[s] EXCEPT !.revoked = FALSE, !.expired = FALSE, !.fromGroup = group]
        BY <1>0, <2>2
      <3>2. grant[s] \in Grant
        BY <1>0
      <3>3. grant'[s].cap = grant[s].cap /\ grant'[s].used = grant[s].used
        BY <3>1, <3>2 DEF Grant
      <3>4. \A u \in Slots \ {s} : grant'[u] = grant[u]
        BY <1>0, <2>2
      <3> QED
        BY <1>2, <3>3, <3>4
    <2> QED
      BY <1>3, <2>1, <2>2 DEF insertDmGrant
  <1>4. ASSUME NEW S \in SUBSET Slots, grant' = Revoked(S) PROVE Capped'
    <2>1. \A s \in Slots : grant'[s].cap = grant[s].cap /\ grant'[s].used = grant[s].used
      BY <1>0, <1>4 DEF Revoked, Grant
    <2> QED
      BY <1>2, <2>1
  <1>5. ASSUME NEW s \in Slots, Expire(s) PROVE Capped'
    <2>1. \A u \in Slots \ {s} : grant'[u] = grant[u]
      BY <1>0, <1>5 DEF Expire
    <2>2. grant'[s].cap = grant[s].cap /\ grant'[s].used = grant[s].used
      BY <1>0, <1>5 DEF Expire, Grant
    <2> QED
      BY <1>2, <2>1, <2>2
  <1>6. ASSUME NEW m \in Messages, FreshReservation(m) PROVE Capped'
    <2> DEFINE s == SlotOf[m]
    <2>1. s \in Slots /\ grant[s] \in Grant
      BY <1>0, RosterAssumption
    <2>2. /\ grant'[s].cap = grant[s].cap /\ grant'[s].used = grant[s].used + 1
          /\ \A u \in Slots \ {s} : grant'[u] = grant[u]
      BY <1>0, <1>6, <2>1 DEF FreshReservation, Grant
    <2>3. grant[s].cap = 0 \/ grant[s].used < grant[s].cap
      BY <1>6 DEF FreshReservation, CanReserve
    <2>4. grant[s].cap \in Nat /\ grant[s].used \in Nat
      BY <2>1 DEF Grant
    <2> QED
      BY <2>2, <2>3, <2>4
  <1>7. ASSUME NEW m \in Messages, Fail(m), fresh[m] PROVE Capped'
    <2> DEFINE s == SlotOf[m]
    <2>1. s \in Slots /\ grant[s] \in Grant
      BY <1>0, RosterAssumption
    <2>2. /\ grant'[s].cap = grant[s].cap
          /\ grant'[s].used = IF grant[s].used > 0 THEN grant[s].used - 1 ELSE 0
          /\ \A u \in Slots \ {s} : grant'[u] = grant[u]
      BY <1>0, <1>7, <2>1 DEF Fail, rollbackRosterReservation, Grant
    <2>3. grant[s].cap \in Nat /\ grant[s].used \in Nat
      BY <2>1 DEF Grant
    <2> QED
      BY <2>2, <2>3
  <1>8. CASE UNCHANGED grant
    BY <1>8
  <1>9. ASSUME NEW m \in Messages, Attempt(m) \/ Answered(m) PROVE Capped'
    <2>1. CASE reserveRosterSend(m)
      BY <1>6, <1>8, <2>1 DEF reserveRosterSend, StandingReservation, Reject, tables
    <2>2. CASE grant' = Revoked(SlotsOf(grant[SlotOf[m]].who))
      BY <1>4, <2>2 DEF SlotsOf
    <2> QED
      BY <1>8, <1>9, <2>1, <2>2 DEF Attempt, Answered, Reject, tables
  <1>10. CASE \/ \E p \in Participants : optOutParticipant(p) \/ revokeGrantsForLeaver(p)
              \/ handleChatDisbanded \/ revokeScope
    <2>1. PICK S \in SUBSET Slots : Withdraw(S)
      BY <1>10 DEF optOutParticipant, revokeGrantsForLeaver, handleChatDisbanded, revokeScope, SlotsOf
    <2> QED
      BY <1>4, <2>1 DEF Withdraw
  <1>11. CASE \/ \E m \in Messages : Accept(m) \/ Succeed(m) \/ TimeOut(m) \/ LateAccept(m) \/ (Fail(m) /\ ~ fresh[m])
              \/ \E i \in Invites : InviteAsk(i) \/ InviteAnswered(i) \/ InviteCard(i)
              \/ Tick \/ Stop \/ UNCHANGED vars
    BY <1>8, <1>11 DEF Accept, Succeed, TimeOut, LateAccept, Fail, Reject, InviteAsk, InviteAnswered, InviteCard,
       Tick, Stop, vars, tables
  <1> QED
    BY <1>3, <1>5, <1>7, <1>9, <1>10, <1>11 DEF Next

\* A landed copy stays paid for.
LEMMA NextPaid == ASSUME ~ AmbiguousErrors, Inv, Paid, [Next]_vars PROVE Paid'
  <1> USE DEF Inv
  <1>1. ASSUME UNCHANGED <<pc, marker, shown, late, fresh>> PROVE Paid'
    BY <1>1 DEF Paid
  <1>2. ASSUME NEW m \in Messages, Retry(m), UNCHANGED <<marker, shown>>,
               \A n \in Messages : late'[n] # late[n] => n = m /\ pc[m] = "sending"
        PROVE  Paid'
    BY <1>2 DEF Paid, Retry, TypeOK
  <1>3. ASSUME NEW m \in Messages, reserveRosterSend(m), pc[m] \in {"idle", "checked"}, UNCHANGED <<shown, late>>
        PROVE  Paid'
    <2>1. CASE StandingReservation(m)
      BY <1>3, <2>1 DEF Paid, StandingReservation, tables, TypeOK
    <2>2. CASE FreshReservation(m)
      BY <1>3, <2>2 DEF Paid, FreshReservation, TypeOK
    <2>3. CASE Reject(m)
      BY <1>2, <1>3, <2>3 DEF Reject, tables
    <2> QED
      BY <1>3, <2>1, <2>2, <2>3 DEF reserveRosterSend
  <1>4. ASSUME NEW m \in Messages, Attempt(m) PROVE Paid'
    <2>1. CASE pc' = [pc EXCEPT ![m] = "checked"] /\ UNCHANGED <<tables, fresh, shown, late>>
      BY <1>4, <2>1 DEF Attempt, Paid, tables, TypeOK
    <2> QED
      BY <1>2, <1>3, <1>4, <2>1 DEF Attempt, Reject, tables
  <1>5. ASSUME NEW m \in Messages, Answered(m) PROVE Paid'
    BY <1>2, <1>3, <1>5 DEF Answered, Reject, tables
  <1>6. ASSUME NEW m \in Messages, Accept(m) PROVE Paid'
    BY <1>6 DEF Accept, Paid, tables, TypeOK
  <1>7. ASSUME NEW m \in Messages, Succeed(m) PROVE Paid'
    BY <1>7 DEF Succeed, Paid, tables, TypeOK
  <1>8. ASSUME NEW m \in Messages, TimeOut(m) PROVE Paid'
    BY <1>2, <1>8 DEF TimeOut, Reject, tables, TypeOK
  <1>9. ASSUME NEW m \in Messages, LateAccept(m) PROVE Paid'
    BY <1>9 DEF LateAccept, Paid, tables, sender, TypeOK
  <1>10. ASSUME NEW m \in Messages, Fail(m) PROVE Paid'
    <2>1. CASE fresh[m]
      <3>1. pc[m] = "sending" /\ marker' = marker \ {m} /\ Retry(m) /\ UNCHANGED <<shown, late>>
        BY <1>10, <2>1 DEF Fail, rollbackRosterReservation
      <3>2. ~ (shown[m] + late[m] > 0)
        BY <2>1, <3>1 DEF Paid
      <3> QED
        BY <3>1, <3>2 DEF Paid, Retry, TypeOK
    <2>2. CASE ~ fresh[m]
      BY <1>2, <1>10, <2>2 DEF Fail, tables
    <2> QED
      BY <2>1, <2>2
  <1>11. CASE Stop
    BY <1>11 DEF Stop, Paid, tables, TypeOK
  <1>12. CASE \/ \E p \in Participants :
                    \/ \E s \in Slots, group \in BOOLEAN : insertDmGrant(p, s, group)
                    \/ optOutParticipant(p)
                    \/ revokeGrantsForLeaver(p)
              \/ handleChatDisbanded \/ revokeScope
              \/ \E s \in Slots : Expire(s)
    <2>1. UNCHANGED <<pc, marker, shown, late, fresh>>
      BY <1>12 DEF insertDmGrant, optOutParticipant, revokeGrantsForLeaver, handleChatDisbanded,
         revokeScope, Withdraw, Expire, sender
    <2> QED
      BY <1>1, <2>1, SMTT(40)
  <1>13. CASE \/ \E i \in Invites : InviteAsk(i) \/ InviteAnswered(i) \/ InviteCard(i)
              \/ Tick \/ UNCHANGED vars
    BY <1>1, <1>13 DEF InviteAsk, InviteAnswered, InviteCard, Tick, vars, tables, sender
  <1> QED
    BY <1>4, <1>5, <1>6, <1>7, <1>8, <1>9, <1>10, <1>11, <1>12, <1>13 DEF Next

\* No more messages than max_sends reach the participant of a capped grant,
\* through timeouts, late answers, rollbacks and stops of the host.
THEOREM CapIsHeld == ASSUME ~ AmbiguousErrors PROVE Spec => []CapHeld
  <1>1. Init => Capped /\ Paid
    BY DEF Init, Capped, Paid, NoGrant
  <1>2. Inv /\ Capped /\ Paid /\ [Next]_vars => (Capped /\ Paid)'
    BY NextCapped, NextPaid
  <1>3. Inv /\ Capped /\ Paid => CapHeld
    <2> SUFFICES ASSUME Inv, Capped, Paid, NEW s \in Slots, grant[s].cap > 0
                 PROVE  Cardinality({m \in Messages : SlotOf[m] = s /\ shown[m] + late[m] > 0}) <= grant[s].cap
      BY DEF CapHeld
    <2> DEFINE Landed == {m \in Messages : SlotOf[m] = s /\ shown[m] + late[m] > 0}
    <2>1. Landed \subseteq Standing(s)
      BY DEF Paid, Standing
    <2>2. IsFiniteSet(Standing(s)) /\ Cardinality(Standing(s)) \in Nat
      BY CountsAreNumbers
    <2> HIDE DEF Landed
    <2>3. Cardinality(Landed) \in Nat /\ Cardinality(Landed) <= Cardinality(Standing(s))
      BY <2>1, <2>2, FS_Subset, FS_CardinalityType
    <2>4. Cardinality(Standing(s)) <= grant[s].cap /\ grant[s].cap \in Nat
      BY DEF Capped, Inv, UsedMatchesReservations, TypeOK
    <2>5. Cardinality(Landed) <= grant[s].cap
      BY <2>2, <2>3, <2>4
    <2> QED
      BY <2>5 DEF Landed
  <1> QED
    BY <1>1, <1>2, <1>3, Invariance, PTL DEF Spec
=============================================================================
