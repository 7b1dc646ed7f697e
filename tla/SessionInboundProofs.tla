------------------------ MODULE SessionInboundProofs ------------------------
(***************************************************************************)
(* Theorems about SessionInbound, for every set of rows, every window and  *)
(* every kind of provider, checked by TLAPS.                               *)
(***************************************************************************)
EXTENDS SessionInbound, TLAPS

(***************************************************************************)
(* The inductive invariant.                                                *)
(***************************************************************************)
\* A container that is not up has no turn, and one between turns has no query.
Resting ==
    /\ box # "up" => query = "none" /\ late = {} /\ said = {}
    /\ query # "live" => inputs = <<>> /\ pendingAck = {} /\ pushing = {}
    /\ query = "none" => initial = {}
    /\ sent => inputs # <<>>

\* Where a turn keeps rows, they are claimed or acked, and in one place only.
Places ==
    /\ pendingAck \union pushing \union late \subseteq Claimed
    /\ pendingAck \intersect pushing = {}
    /\ (pendingAck \union pushing) \intersect late = {}
    /\ \A m \in initial : ack[m] # "none" /\ m \notin pushing \union late
    /\ query = "scripts" => initial \subseteq Claimed

\* Prompts of a query share no row, and none of their rows can be claimed again.
PromptsApart ==
    /\ \A i \in 1 .. Len(inputs) : \A m \in inputs[i] : ack[m] # "none" /\ m \notin pushing \union late
    /\ \A i, j \in 1 .. Len(inputs) : i # j => inputs[i] \intersect inputs[j] = {}

\* What the container has answered is acked or claimed, and is asked no more.
SaidIsOver ==
    /\ \A m \in said : ack[m] # "none" /\ m \notin pushing \union late
    /\ \A i \in 1 .. Len(inputs) : (i > 1 \/ ~ sent) => inputs[i] \intersect said = {}
    /\ ~ sent => pendingAck \intersect said = {}
    /\ query = "scripts" => initial \intersect said = {}
    /\ twice = {}

\* What the next result or the end of the turn will ack has been answered by
\* then, provided a stream answers its prompts before it closes.
HeardBeforeAck ==
    /\ pendingAck \subseteq excused \union (IF inputs = <<>> THEN {} ELSE inputs[1])
    /\ query = "live" => initial \subseteq answered \union (IF inputs = <<>> THEN {} ELSE inputs[1])
    /\ sent => inputs[1] \subseteq answered
    /\ inputs = <<>> => pendingAck = {}
    /\ CompletedMeansAnswered

Inv ==
    /\ TypeOK
    /\ Resting
    /\ Places
    /\ PromptsApart
    /\ SaidIsOver
    /\ ~ EarlyClose => HeardBeforeAck

-----------------------------------------------------------------------------
\* An empty session satisfies Inv.
LEMMA InitInv == Init => Inv
  <1> SUFFICES ASSUME Init PROVE Inv
    OBVIOUS
  <1>1. TypeOK
    <2>1. <<>> \in Seq(SUBSET Rows) /\ 0 \in 0 .. MaxTries
      BY InboundAssumption
    <2>2. tries \in [Rows -> 0 .. MaxTries] /\ inputs \in Seq(SUBSET Rows)
      BY <2>1 DEF Init
    <2> QED
      BY <2>2 DEF Init, TypeOK
  <1>2. Resting /\ Places
    BY DEF Init, Resting, Places
  <1>3. PromptsApart /\ SaidIsOver
    BY DEF Init, PromptsApart, SaidIsOver
  <1>4. HeardBeforeAck
    BY DEF Init, HeardBeforeAck, CompletedMeansAnswered
  <1> QED
    BY <1>1, <1>2, <1>3, <1>4 DEF Inv

\* clearStaleProcessingAcks: the claims of a dead container are deleted before its successor polls.
LEMMA StartInv == ASSUME Inv, Start PROVE Inv'
  <1> USE DEF Inv, inDb, turn, history, bounds, waking
  <1>1. TypeOK'
    BY DEF TypeOK, Resting, Start, SetAck, Claimed
  <1>2. Resting'
    BY DEF TypeOK, Resting, Start, SetAck, Claimed
  <1>3. Places'
    BY DEF TypeOK, Resting, Places, Start, SetAck, Claimed
  <1>4. PromptsApart'
    BY DEF TypeOK, Resting, Places, PromptsApart, Start, SetAck, Claimed
  <1>5. SaidIsOver'
    BY DEF TypeOK, Resting, Places, PromptsApart, SaidIsOver, Start, SetAck, Claimed
  <1>6. ~ EarlyClose => HeardBeforeAck'
    BY DEF TypeOK, Resting, Places, HeardBeforeAck, CompletedMeansAnswered, Start, SetAck, Claimed
  <1> QED
    BY <1>1, <1>2, <1>3, <1>4, <1>5, <1>6

\* The poll loop claims a batch.
LEMMA ClaimBatchInv == ASSUME Inv, ClaimBatch PROVE Inv'
  <1> USE DEF Inv, inDb, turn, history, bounds, waking
  <1> DEFINE got == getPendingMessages
  <1>1. got \subseteq Rows /\ \A m \in got : ack[m] = "none"
    BY DEF getPendingMessages, Due
  <1>a. PICK K \in splitBatch(got) : \E C \in SUBSET (K \intersect Chat) :
          /\ ack' = [m \in Rows |-> IF m \in C THEN "completed"
                                    ELSE IF m \in K THEN "processing" ELSE ack[m]]
          /\ Answer(C)
          /\ query' = IF K = C THEN "none" ELSE "scripts"
          /\ initial' = K \ C
    BY DEF ClaimBatch
  <1>2. PICK C \in SUBSET (K \intersect Chat) :
          /\ ack' = [m \in Rows |-> IF m \in C THEN "completed"
                                    ELSE IF m \in K THEN "processing" ELSE ack[m]]
          /\ Answer(C)
          /\ query' = IF K = C THEN "none" ELSE "scripts"
          /\ initial' = K \ C
    BY <1>a
  <1> HIDE DEF got
  <1>3. K \subseteq got /\ C \subseteq K
    BY <1>2 DEF splitBatch
  <1>4. /\ box = "up" /\ ~ sent /\ query = "none" /\ inputs = <<>> /\ pendingAck = {} /\ pushing = {}
        /\ UNCHANGED <<inDb, box, ends, inputs, sent, pendingAck, pushing, late, waking, excused, bounds>>
    BY DEF ClaimBatch, Running, Resting
  <1>5. TypeOK'
    <2>1. ack' \in [Rows -> {"none", "processing", "stale", "completed"}]
      BY <1>2 DEF TypeOK
    <2>2. answered' \subseteq Rows /\ said' \subseteq Rows /\ twice' \subseteq Rows /\ initial' \subseteq Rows
      BY <1>1, <1>2, <1>3 DEF TypeOK, Answer
    <2> QED
      BY <1>2, <1>4, <2>1, <2>2 DEF TypeOK
  <1>6. Resting'
    BY <1>2, <1>3, <1>4 DEF Resting
  <1>7. Places'
    BY <1>1, <1>2, <1>3, <1>4 DEF TypeOK, Places, Claimed
  <1>8. PromptsApart'
    BY <1>4 DEF PromptsApart
  <1>9. SaidIsOver'
    BY <1>1, <1>2, <1>3, <1>4 DEF TypeOK, SaidIsOver, Places, Claimed, Answer
  <1>10. ~ EarlyClose => HeardBeforeAck'
    BY <1>1, <1>2, <1>3, <1>4 DEF TypeOK, HeardBeforeAck, CompletedMeansAnswered, Answer
  <1> QED
    BY <1>5, <1>6, <1>7, <1>8, <1>9, <1>10

\* The scripts return and the query starts.
LEMMA StartQueryInv == ASSUME Inv, StartQuery PROVE Inv'
  <1> USE DEF Inv, inDb, turn, history, bounds, waking
  <1>1. TypeOK'
    <2>1. ack' \in [Rows -> {"none", "processing", "stale", "completed"}]
      BY DEF TypeOK, StartQuery, Running, SetAck
    <2>2. /\ status' \in [Rows -> {"absent", "pending", "completed", "failed"}]
          /\ tries' \in [Rows -> 0 .. MaxTries] /\ after' \in [Rows -> {"now", "later"}]
      BY InboundAssumption DEF TypeOK, StartQuery, Running, SetAck
    <2>3. /\ inputs' \in Seq(SUBSET Rows)
          /\ box' \in {"down", "starting", "up"} /\ query' \in {"none", "scripts", "live"}
          /\ ends' \subseteq {"latched", "ended"}
      <3>1. PICK G \in SUBSET initial : inputs' = IF initial = G THEN <<>> ELSE <<initial \ G>>
        BY DEF StartQuery
      <3>2. initial \ G \in SUBSET Rows
        BY DEF TypeOK
      <3>3. <<>> \in Seq(SUBSET Rows) /\ <<initial \ G>> \in Seq(SUBSET Rows)
        BY <3>2
      <3>4. inputs' \in Seq(SUBSET Rows)
        BY <3>1, <3>3
      <3> QED
        BY <3>4 DEF TypeOK, StartQuery
    <2>4. sent' \in BOOLEAN /\ toWake' \in BOOLEAN /\ sweeping' \in BOOLEAN
      BY DEF TypeOK, StartQuery, Running, SetAck
    <2>5. /\ initial' \subseteq Rows /\ pendingAck' \subseteq Rows /\ pushing' \subseteq Rows /\ late' \subseteq Rows
          /\ answered' \subseteq Rows /\ said' \subseteq Rows /\ twice' \subseteq Rows /\ excused' \subseteq Rows
      BY DEF TypeOK, StartQuery, Running, SetAck
    <2>6. faults' \in Nat /\ wakeFailures' \in Nat /\ requeues' \in Nat
      BY DEF TypeOK, StartQuery, Running, SetAck
    <2> QED
      BY <2>1, <2>2, <2>3, <2>4, <2>5, <2>6 DEF TypeOK
  <1>2. Resting'
    BY DEF TypeOK, Resting, StartQuery, Running, SetAck
  <1>3. Places'
    BY DEF TypeOK, Resting, Places, StartQuery, Running, SetAck, Claimed
  <1>4. PromptsApart'
    BY DEF TypeOK, Resting, Places, PromptsApart, StartQuery, Running, SetAck, Claimed
  <1>5. SaidIsOver'
    BY DEF TypeOK, Resting, Places, PromptsApart, SaidIsOver, StartQuery, Running, SetAck, Claimed
  <1>6. ~ EarlyClose => HeardBeforeAck'
    BY DEF TypeOK, Resting, Places, HeardBeforeAck, CompletedMeansAnswered, StartQuery, Running, SetAck, Claimed
  <1> QED
    BY <1>1, <1>2, <1>3, <1>4, <1>5, <1>6

\* The routing decision delegates the turn.
LEMMA DelegateInv == ASSUME Inv, Delegate PROVE Inv'
  <1> USE DEF Inv, inDb, turn, history, bounds, waking
  <1>1. TypeOK'
    BY DEF TypeOK, Resting, Delegate, Running, SetAck, Answer, QueryGone
  <1>2. Resting'
    BY DEF TypeOK, Resting, Delegate, Running, SetAck, Answer, QueryGone
  <1>3. Places'
    BY DEF TypeOK, Resting, Places, Delegate, Running, SetAck, Answer, QueryGone, Claimed
  <1>4. PromptsApart'
    BY DEF TypeOK, Resting, Places, PromptsApart, Delegate, Running, SetAck, Answer, QueryGone, Claimed
  <1>5. SaidIsOver'
    BY DEF TypeOK, Resting, Places, PromptsApart, SaidIsOver, Delegate, Running, SetAck, Answer, QueryGone, Claimed
  <1>6. ~ EarlyClose => HeardBeforeAck'
    BY DEF TypeOK, Resting, Places, HeardBeforeAck, CompletedMeansAnswered, Delegate, Running, SetAck, Answer,
       QueryGone, Claimed
  <1> QED
    BY <1>1, <1>2, <1>3, <1>4, <1>5, <1>6

\* The poll beside a live query.
LEMMA FollowUpPollInv == ASSUME Inv, FollowUpPoll PROVE Inv'
  <1> USE DEF Inv, inDb, turn, history, bounds, waking
  <1> DEFINE got == getPendingMessages
  <1>1. got \subseteq Rows /\ \A m \in got : ack[m] = "none"
    BY DEF getPendingMessages, Due
  <1>2. /\ box = "up" /\ query = "live" /\ pushing = {}
        /\ \/ ends' \subseteq {"latched", "ended"} /\ UNCHANGED <<ack, pushing>>
           \/ ack' = SetAck(got, "processing") /\ pushing' = got /\ UNCHANGED ends
        /\ UNCHANGED <<inDb, box, query, inputs, sent, initial, pendingAck, late, waking, history, bounds>>
    BY DEF FollowUpPoll, Running
  <1> HIDE DEF got
  <1>3. TypeOK'
    <2>1. ack' \in [Rows -> {"none", "processing", "stale", "completed"}]
      BY <1>2 DEF TypeOK, SetAck
    <2> QED
      BY <1>1, <1>2, <2>1 DEF TypeOK
  <1>4. Resting'
    BY <1>2 DEF Resting
  <1>5. Places'
    BY <1>1, <1>2 DEF TypeOK, Places, SetAck, Claimed
  <1>6. PromptsApart'
    BY <1>1, <1>2 DEF TypeOK, PromptsApart, SetAck
  <1>7. SaidIsOver'
    BY <1>1, <1>2 DEF TypeOK, SaidIsOver, SetAck
  <1>8. ~ EarlyClose => HeardBeforeAck'
    BY <1>1, <1>2 DEF TypeOK, HeardBeforeAck, CompletedMeansAnswered, SetAck
  <1> QED
    BY <1>3, <1>4, <1>5, <1>6, <1>7, <1>8

\* The scripts of follow-ups return.
LEMMA FollowUpPushInv == ASSUME Inv, FollowUpPush PROVE Inv'
  <1> USE DEF Inv, inDb, turn, history, bounds, waking
  <1>a. PICK G \in SUBSET (pushing \intersect Trigger) : \E K \in SUBSET (pushing \ G) :
          /\ ends' = IF K # {} \/ pushing = G THEN ends ELSE {"latched", "ended"}
          /\ ack' = [m \in Rows |-> IF m \in G THEN "completed"
                                    ELSE IF m \in pushing \ K THEN "none" ELSE ack[m]]
          /\ inputs' = IF K = {} THEN inputs ELSE Append(inputs, K)
          /\ pendingAck' = pendingAck \union K
          /\ excused' = excused \union G \union (IF inputs = <<>> THEN {} ELSE K)
    BY DEF FollowUpPush
  <1>1. PICK K \in SUBSET (pushing \ G) :
          /\ ends' = IF K # {} \/ pushing = G THEN ends ELSE {"latched", "ended"}
          /\ ack' = [m \in Rows |-> IF m \in G THEN "completed"
                                    ELSE IF m \in pushing \ K THEN "none" ELSE ack[m]]
          /\ inputs' = IF K = {} THEN inputs ELSE Append(inputs, K)
          /\ pendingAck' = pendingAck \union K
          /\ excused' = excused \union G \union (IF inputs = <<>> THEN {} ELSE K)
    BY <1>a
  <1>2. /\ box = "up" /\ ~ sent /\ pushing # {} /\ pushing' = {} /\ query = "live"
        /\ UNCHANGED <<inDb, box, query, sent, initial, late, waking, answered, said, twice, bounds>>
    BY DEF FollowUpPush, Running, Resting
  <1>3. \A m \in Rows : /\ ack'[m] = IF m \in G THEN "completed"
                                      ELSE IF m \in pushing \ K THEN "none" ELSE ack[m]
                        /\ m \in K => m \in Claimed /\ ack'[m] = ack[m]
    BY <1>1 DEF Places, Claimed
  <1>4. K \subseteq Rows /\ K \subseteq pushing /\ G \subseteq pushing /\ K \intersect G = {}
    BY DEF TypeOK
  <1>5. TypeOK'
    <2>1. inputs' \in Seq(SUBSET Rows)
      BY <1>1, <1>4 DEF TypeOK
    <2>2. ack' \in [Rows -> {"none", "processing", "stale", "completed"}]
      BY <1>1 DEF TypeOK
    <2> QED
      BY <1>1, <1>2, <1>4, <2>1, <2>2 DEF TypeOK
  <1>6. Resting'
    BY <1>1, <1>2 DEF TypeOK, Resting
  <1>7. Places'
    BY <1>1, <1>2, <1>3, <1>4 DEF TypeOK, Places, Claimed
  <1>8. PromptsApart' /\ SaidIsOver'
    <2>1. CASE K = {}
      BY <1>1, <1>2, <1>3, <1>4, <2>1 DEF TypeOK, Places, PromptsApart, SaidIsOver
    <2>2. CASE K # {}
      <3>1. /\ Len(inputs') = Len(inputs) + 1
            /\ \A i \in 1 .. Len(inputs') : i <= Len(inputs) => inputs'[i] = inputs[i]
            /\ inputs'[Len(inputs) + 1] = K
            /\ Len(inputs) \in Nat
        BY <1>1, <1>4, <2>2 DEF TypeOK
      <3>2. \A i \in 1 .. Len(inputs') : i \in 1 .. Len(inputs) \/ i = Len(inputs) + 1
        BY <3>1
      <3>3. \A m \in said : m \notin pushing
        BY DEF SaidIsOver
      <3>4. \A m \in K : ack'[m] # "none" /\ m \notin late
        BY <1>3, <1>4 DEF Places, Claimed
      <3>5. \A i \in 1 .. Len(inputs) : inputs[i] \subseteq Rows /\ inputs[i] \intersect pushing = {}
        BY DEF TypeOK, PromptsApart
      <3>6. \A m \in Rows : ack[m] # "none" /\ m \notin pushing => ack'[m] # "none"
        BY <1>3, <1>4
      <3>7. PromptsApart'
        <4>1. \A i \in 1 .. Len(inputs') : \A m \in inputs'[i] : ack'[m] # "none" /\ m \notin pushing' \union late'
          BY <1>2, <3>1, <3>2, <3>4, <3>5, <3>6 DEF PromptsApart
        <4>2. \A i, j \in 1 .. Len(inputs') : i # j => inputs'[i] \intersect inputs'[j] = {}
          BY <1>4, <3>1, <3>2, <3>5 DEF PromptsApart
        <4> QED
          BY <4>1, <4>2 DEF PromptsApart
      <3>8. \A m \in said' : ack'[m] # "none" /\ m \notin pushing' \union late'
        BY <1>2, <3>6 DEF TypeOK, SaidIsOver
      <3>9. \A i \in 1 .. Len(inputs') : inputs'[i] \intersect said' = {}
        BY <1>2, <1>4, <3>1, <3>2, <3>3 DEF SaidIsOver
      <3>10. SaidIsOver'
        BY <1>1, <1>2, <1>4, <3>3, <3>8, <3>9 DEF SaidIsOver
      <3> QED
        BY <3>7, <3>10
    <2> QED
      BY <2>1, <2>2
  <1>9. ~ EarlyClose => HeardBeforeAck'
    <2> SUFFICES ASSUME HeardBeforeAck PROVE HeardBeforeAck'
      OBVIOUS
    <2>1. CompletedMeansAnswered'
      BY <1>1, <1>2, <1>3, <1>4 DEF TypeOK, HeardBeforeAck, CompletedMeansAnswered
    <2>2. CASE K = {}
      BY <1>1, <1>2, <2>1, <2>2 DEF HeardBeforeAck
    <2>3. CASE K # {} /\ inputs = <<>>
      <3>1. inputs' # <<>> /\ inputs'[1] = K
        BY <1>1, <1>4, <2>3 DEF TypeOK
      <3> QED
        BY <1>1, <1>2, <2>1, <2>3, <3>1 DEF HeardBeforeAck
    <2>4. CASE K # {} /\ inputs # <<>>
      <3>1. inputs' # <<>> /\ inputs'[1] = inputs[1]
        BY <1>1, <1>4, <2>4 DEF TypeOK
      <3> QED
        BY <1>1, <1>2, <2>1, <2>4, <3>1 DEF HeardBeforeAck
    <2> QED
      BY <2>2, <2>3, <2>4
  <1> QED
    BY <1>5, <1>6, <1>7, <1>8, <1>9

\* Scripts of follow-ups that outlived their query.
LEMMA FollowUpLateInv == ASSUME Inv, FollowUpLate PROVE Inv'
  <1> USE DEF Inv, inDb, turn, history, bounds, waking
  <1>1. TypeOK'
    BY DEF TypeOK, Resting, FollowUpLate, Running
  <1>2. Resting'
    BY DEF TypeOK, Resting, FollowUpLate, Running
  <1>3. Places'
    BY DEF TypeOK, Resting, Places, FollowUpLate, Running, Claimed
  <1>4. PromptsApart'
    BY DEF TypeOK, Resting, Places, PromptsApart, FollowUpLate, Running, Claimed
  <1>5. SaidIsOver'
    BY DEF TypeOK, Resting, Places, PromptsApart, SaidIsOver, FollowUpLate, Running, Claimed
  <1>6. ~ EarlyClose => HeardBeforeAck'
    BY DEF TypeOK, Resting, Places, HeardBeforeAck, CompletedMeansAnswered, FollowUpLate, Running, Claimed
  <1> QED
    BY <1>1, <1>2, <1>3, <1>4, <1>5, <1>6

\* A result is written.
LEMMA DispatchInv == ASSUME Inv, Dispatch PROVE Inv'
  <1> USE DEF Inv, inDb, turn, history, bounds, waking
  <1>1. TypeOK'
    BY DEF TypeOK, Resting, Dispatch, Running, Answer
  <1>2. Resting'
    BY DEF TypeOK, Resting, Dispatch, Running, Answer
  <1>3. Places'
    BY DEF TypeOK, Resting, Places, Dispatch, Running, Answer, Claimed
  <1>4. PromptsApart'
    BY DEF TypeOK, Resting, Places, PromptsApart, Dispatch, Running, Answer, Claimed
  <1>5. SaidIsOver'
    BY DEF TypeOK, Resting, Places, PromptsApart, SaidIsOver, Dispatch, Running, Answer, Claimed
  <1>6. ~ EarlyClose => HeardBeforeAck'
    BY DEF TypeOK, Resting, Places, HeardBeforeAck, CompletedMeansAnswered, Dispatch, Running, Answer, Claimed
  <1> QED
    BY <1>1, <1>2, <1>3, <1>4, <1>5, <1>6

\* The claims of the stream are acked.
LEMMA AckTurnInv == ASSUME Inv, AckTurn PROVE Inv'
  <1> USE DEF Inv, inDb, turn, history, bounds, waking
  <1>1. TypeOK'
    <2>1. ack' \in [Rows -> {"none", "processing", "stale", "completed"}]
      BY DEF TypeOK, AckTurn, SetAck
    <2>2. /\ status' \in [Rows -> {"absent", "pending", "completed", "failed"}]
          /\ tries' \in [Rows -> 0 .. MaxTries] /\ after' \in [Rows -> {"now", "later"}]
      BY InboundAssumption DEF TypeOK, AckTurn, SetAck
    <2>3. /\ inputs' \in Seq(SUBSET Rows)
          /\ box' \in {"down", "starting", "up"} /\ query' \in {"none", "scripts", "live"}
          /\ ends' \subseteq {"latched", "ended"}
      BY DEF TypeOK, Resting, AckTurn
    <2>4. sent' \in BOOLEAN /\ toWake' \in BOOLEAN /\ sweeping' \in BOOLEAN
      BY DEF TypeOK, AckTurn, SetAck
    <2>5. /\ initial' \subseteq Rows /\ pendingAck' \subseteq Rows /\ pushing' \subseteq Rows /\ late' \subseteq Rows
          /\ answered' \subseteq Rows /\ said' \subseteq Rows /\ twice' \subseteq Rows /\ excused' \subseteq Rows
      BY DEF TypeOK, AckTurn, SetAck
    <2>6. faults' \in Nat /\ wakeFailures' \in Nat /\ requeues' \in Nat
      BY DEF TypeOK, AckTurn, SetAck
    <2> QED
      BY <2>1, <2>2, <2>3, <2>4, <2>5, <2>6 DEF TypeOK
  <1>2. Resting'
    BY DEF TypeOK, Resting, AckTurn, SetAck
  <1>3. Places'
    BY DEF TypeOK, Resting, Places, AckTurn, SetAck, Claimed
  <1>4. PromptsApart'
    BY DEF TypeOK, Resting, Places, PromptsApart, AckTurn, SetAck, Claimed
  <1>5. SaidIsOver'
    BY DEF TypeOK, Resting, Places, PromptsApart, SaidIsOver, AckTurn, SetAck, Claimed
  <1>6. ~ EarlyClose => HeardBeforeAck'
    BY DEF TypeOK, Resting, Places, HeardBeforeAck, CompletedMeansAnswered, AckTurn, SetAck, Claimed
  <1> QED
    BY <1>1, <1>2, <1>3, <1>4, <1>5, <1>6

\* The stream closes and the turn's tail acks the initial batch.
LEMMA StreamClosesInv == ASSUME Inv, StreamCloses PROVE Inv'
  <1> USE DEF Inv, inDb, turn, history, bounds, waking
  <1>1. TypeOK'
    <2>1. ack' \in [Rows -> {"none", "processing", "stale", "completed"}]
      BY DEF TypeOK, StreamCloses, Running, SetAck, QueryGone
    <2>2. /\ status' \in [Rows -> {"absent", "pending", "completed", "failed"}]
          /\ tries' \in [Rows -> 0 .. MaxTries] /\ after' \in [Rows -> {"now", "later"}]
      BY InboundAssumption DEF TypeOK, StreamCloses, Running, SetAck, QueryGone
    <2>3. /\ inputs' \in Seq(SUBSET Rows)
          /\ box' \in {"down", "starting", "up"} /\ query' \in {"none", "scripts", "live"}
          /\ ends' \subseteq {"latched", "ended"}
      BY DEF TypeOK, StreamCloses, Running, SetAck, QueryGone
    <2>4. sent' \in BOOLEAN /\ toWake' \in BOOLEAN /\ sweeping' \in BOOLEAN
      BY DEF TypeOK, StreamCloses, Running, SetAck, QueryGone
    <2>5. /\ initial' \subseteq Rows /\ pendingAck' \subseteq Rows /\ pushing' \subseteq Rows /\ late' \subseteq Rows
          /\ answered' \subseteq Rows /\ said' \subseteq Rows /\ twice' \subseteq Rows /\ excused' \subseteq Rows
      BY DEF TypeOK, StreamCloses, Running, SetAck, QueryGone
    <2>6. faults' \in Nat /\ wakeFailures' \in Nat /\ requeues' \in Nat
      BY DEF TypeOK, StreamCloses, Running, SetAck, QueryGone
    <2> QED
      BY <2>1, <2>2, <2>3, <2>4, <2>5, <2>6 DEF TypeOK
  <1>2. Resting'
    BY DEF TypeOK, Resting, StreamCloses, Running, SetAck, QueryGone
  <1>3. Places'
    BY DEF TypeOK, Resting, Places, StreamCloses, Running, SetAck, QueryGone, Claimed
  <1>4. PromptsApart'
    BY DEF TypeOK, Resting, Places, PromptsApart, StreamCloses, Running, SetAck, QueryGone, Claimed
  <1>5. SaidIsOver'
    BY DEF TypeOK, Resting, Places, PromptsApart, SaidIsOver, StreamCloses, Running, SetAck, QueryGone, Claimed
  <1>6. ~ EarlyClose => HeardBeforeAck'
    BY DEF TypeOK, Resting, Places, HeardBeforeAck, CompletedMeansAnswered, StreamCloses, Running, SetAck,
       QueryGone, Claimed
  <1> QED
    BY <1>1, <1>2, <1>3, <1>4, <1>5, <1>6

\* The query throws.
LEMMA TurnThrowsInv == ASSUME Inv, TurnThrows PROVE Inv'
  <1> USE DEF Inv, inDb, turn, history, bounds, waking
  <1>1. TypeOK'
    <2>1. ack' \in [Rows -> {"none", "processing", "stale", "completed"}]
      BY DEF TypeOK, TurnThrows, Running, SetAck, QueryGone
    <2>2. /\ status' \in [Rows -> {"absent", "pending", "completed", "failed"}]
          /\ tries' \in [Rows -> 0 .. MaxTries] /\ after' \in [Rows -> {"now", "later"}]
      BY InboundAssumption DEF TypeOK, TurnThrows, Running, SetAck, QueryGone
    <2>3. /\ inputs' \in Seq(SUBSET Rows)
          /\ box' \in {"down", "starting", "up"} /\ query' \in {"none", "scripts", "live"}
          /\ ends' \subseteq {"latched", "ended"}
      BY DEF TypeOK, TurnThrows, Running, SetAck, QueryGone
    <2>4. sent' \in BOOLEAN /\ toWake' \in BOOLEAN /\ sweeping' \in BOOLEAN
      BY DEF TypeOK, TurnThrows, Running, SetAck, QueryGone
    <2>5. /\ initial' \subseteq Rows /\ pendingAck' \subseteq Rows /\ pushing' \subseteq Rows /\ late' \subseteq Rows
          /\ answered' \subseteq Rows /\ said' \subseteq Rows /\ twice' \subseteq Rows /\ excused' \subseteq Rows
      BY DEF TypeOK, TurnThrows, Running, SetAck, QueryGone
    <2>6. faults' \in Nat /\ wakeFailures' \in Nat /\ requeues' \in Nat
      BY DEF TypeOK, TurnThrows, Running, SetAck, QueryGone
    <2> QED
      BY <2>1, <2>2, <2>3, <2>4, <2>5, <2>6 DEF TypeOK
  <1>2. Resting'
    BY DEF TypeOK, Resting, TurnThrows, Running, SetAck, QueryGone
  <1>3. Places'
    BY DEF TypeOK, Resting, Places, TurnThrows, Running, SetAck, QueryGone, Claimed
  <1>4. PromptsApart'
    BY DEF TypeOK, Resting, Places, PromptsApart, TurnThrows, Running, SetAck, QueryGone, Claimed
  <1>5. SaidIsOver'
    BY DEF TypeOK, Resting, Places, PromptsApart, SaidIsOver, TurnThrows, Running, SetAck, QueryGone, Claimed
  <1>6. ~ EarlyClose => HeardBeforeAck'
    BY DEF TypeOK, Resting, Places, HeardBeforeAck, CompletedMeansAnswered, TurnThrows, Running, SetAck,
       QueryGone, Claimed
  <1> QED
    BY <1>1, <1>2, <1>3, <1>4, <1>5, <1>6

\* A stale session starts the turn afresh.
LEMMA StaleSessionInv == ASSUME Inv, StaleSession PROVE Inv'
  <1> USE DEF Inv, inDb, turn, history, bounds, waking
  <1>1. TypeOK'
    BY DEF TypeOK, Resting, StaleSession, Running
  <1>2. Resting'
    BY DEF TypeOK, Resting, StaleSession, Running
  <1>3. Places'
    BY DEF TypeOK, Resting, Places, StaleSession, Running, Claimed
  <1>4. PromptsApart'
    BY DEF TypeOK, Resting, Places, PromptsApart, StaleSession, Running, Claimed
  <1>5. SaidIsOver'
    BY DEF TypeOK, Resting, Places, PromptsApart, SaidIsOver, StaleSession, Running, Claimed
  <1>6. ~ EarlyClose => HeardBeforeAck'
    BY DEF TypeOK, Resting, Places, HeardBeforeAck, CompletedMeansAnswered, StaleSession, Running, Claimed
  <1> QED
    BY <1>1, <1>2, <1>3, <1>4, <1>5, <1>6

\* The container dies in a turn.
LEMMA CrashMidTurnInv == ASSUME Inv, CrashMidTurn PROVE Inv'
  <1> USE DEF Inv, inDb, turn, history, bounds, waking
  <1>1. TypeOK'
    <2>1. ack' \in [Rows -> {"none", "processing", "stale", "completed"}]
      BY DEF TypeOK, CrashMidTurn, BoxGone, QueryGone
    <2>2. /\ status' \in [Rows -> {"absent", "pending", "completed", "failed"}]
          /\ tries' \in [Rows -> 0 .. MaxTries] /\ after' \in [Rows -> {"now", "later"}]
      BY InboundAssumption DEF TypeOK, CrashMidTurn, BoxGone, QueryGone
    <2>3. /\ inputs' \in Seq(SUBSET Rows)
          /\ box' \in {"down", "starting", "up"} /\ query' \in {"none", "scripts", "live"}
          /\ ends' \subseteq {"latched", "ended"}
      BY DEF TypeOK, CrashMidTurn, BoxGone, QueryGone
    <2>4. sent' \in BOOLEAN /\ toWake' \in BOOLEAN /\ sweeping' \in BOOLEAN
      BY DEF TypeOK, CrashMidTurn, BoxGone, QueryGone
    <2>5. /\ initial' \subseteq Rows /\ pendingAck' \subseteq Rows /\ pushing' \subseteq Rows /\ late' \subseteq Rows
          /\ answered' \subseteq Rows /\ said' \subseteq Rows /\ twice' \subseteq Rows /\ excused' \subseteq Rows
      BY DEF TypeOK, CrashMidTurn, BoxGone, QueryGone
    <2>6. faults' \in Nat /\ wakeFailures' \in Nat /\ requeues' \in Nat
      BY DEF TypeOK, CrashMidTurn, BoxGone, QueryGone
    <2> QED
      BY <2>1, <2>2, <2>3, <2>4, <2>5, <2>6 DEF TypeOK
  <1>2. Resting'
    BY DEF TypeOK, Resting, CrashMidTurn, BoxGone, QueryGone
  <1>3. Places'
    BY DEF TypeOK, Resting, Places, CrashMidTurn, BoxGone, QueryGone, Claimed
  <1>4. PromptsApart'
    BY DEF TypeOK, Resting, Places, PromptsApart, CrashMidTurn, BoxGone, QueryGone, Claimed
  <1>5. SaidIsOver'
    BY DEF TypeOK, Resting, Places, PromptsApart, SaidIsOver, CrashMidTurn, BoxGone, QueryGone, Claimed
  <1>6. ~ EarlyClose => HeardBeforeAck'
    BY DEF TypeOK, Resting, Places, HeardBeforeAck, CompletedMeansAnswered, CrashMidTurn, BoxGone, QueryGone, Claimed
  <1> QED
    BY <1>1, <1>2, <1>3, <1>4, <1>5, <1>6

\* The container exits between turns.
LEMMA IdleExitInv == ASSUME Inv, IdleExit PROVE Inv'
  <1> USE DEF Inv, inDb, turn, history, bounds, waking
  <1>1. TypeOK'
    BY DEF TypeOK, Resting, IdleExit, BoxGone, QueryGone
  <1>2. Resting'
    BY DEF TypeOK, Resting, IdleExit, BoxGone, QueryGone
  <1>3. Places'
    BY DEF TypeOK, Resting, Places, IdleExit, BoxGone, QueryGone, Claimed
  <1>4. PromptsApart'
    BY DEF TypeOK, Resting, Places, PromptsApart, IdleExit, BoxGone, QueryGone, Claimed
  <1>5. SaidIsOver'
    BY DEF TypeOK, Resting, Places, PromptsApart, SaidIsOver, IdleExit, BoxGone, QueryGone, Claimed
  <1>6. ~ EarlyClose => HeardBeforeAck'
    BY DEF TypeOK, Resting, Places, HeardBeforeAck, CompletedMeansAnswered, IdleExit, BoxGone, QueryGone, Claimed
  <1> QED
    BY <1>1, <1>2, <1>3, <1>4, <1>5, <1>6

\* The router wakes the container.
LEMMA RouterWakesInv == ASSUME Inv, RouterWakes PROVE Inv'
  <1> USE DEF Inv, inDb, turn, history, bounds, waking
  <1>1. TypeOK'
    <2>1. ack' \in [Rows -> {"none", "processing", "stale", "completed"}]
      BY DEF TypeOK, RouterWakes, wakeContainer
    <2>2. /\ status' \in [Rows -> {"absent", "pending", "completed", "failed"}]
          /\ tries' \in [Rows -> 0 .. MaxTries] /\ after' \in [Rows -> {"now", "later"}]
      BY InboundAssumption DEF TypeOK, RouterWakes, wakeContainer
    <2>3. /\ inputs' \in Seq(SUBSET Rows)
          /\ box' \in {"down", "starting", "up"} /\ query' \in {"none", "scripts", "live"}
          /\ ends' \subseteq {"latched", "ended"}
      BY DEF TypeOK, RouterWakes, wakeContainer
    <2>4. sent' \in BOOLEAN /\ toWake' \in BOOLEAN /\ sweeping' \in BOOLEAN
      BY DEF TypeOK, RouterWakes, wakeContainer
    <2>5. /\ initial' \subseteq Rows /\ pendingAck' \subseteq Rows /\ pushing' \subseteq Rows /\ late' \subseteq Rows
          /\ answered' \subseteq Rows /\ said' \subseteq Rows /\ twice' \subseteq Rows /\ excused' \subseteq Rows
      BY DEF TypeOK, RouterWakes, wakeContainer
    <2>6. faults' \in Nat /\ wakeFailures' \in Nat /\ requeues' \in Nat
      BY DEF TypeOK, RouterWakes, wakeContainer
    <2> QED
      BY <2>1, <2>2, <2>3, <2>4, <2>5, <2>6 DEF TypeOK
  <1>2. Resting'
    BY DEF TypeOK, Resting, RouterWakes, wakeContainer
  <1>3. Places'
    BY DEF TypeOK, Resting, Places, RouterWakes, wakeContainer, Claimed
  <1>4. PromptsApart'
    BY DEF TypeOK, Resting, Places, PromptsApart, RouterWakes, wakeContainer, Claimed
  <1>5. SaidIsOver'
    BY DEF TypeOK, Resting, Places, PromptsApart, SaidIsOver, RouterWakes, wakeContainer, Claimed
  <1>6. ~ EarlyClose => HeardBeforeAck'
    BY DEF TypeOK, Resting, Places, HeardBeforeAck, CompletedMeansAnswered, RouterWakes, wakeContainer, Claimed
  <1> QED
    BY <1>1, <1>2, <1>3, <1>4, <1>5, <1>6

\* The sweep syncs the acks and wakes.
LEMMA SweepWakeInv == ASSUME Inv, SweepWake PROVE Inv'
  <1> USE DEF Inv, inDb, turn, history, bounds, waking
  <1>1. TypeOK'
    <2>1. ack' \in [Rows -> {"none", "processing", "stale", "completed"}]
      BY DEF TypeOK, SweepWake, wakeContainer
    <2>2. /\ status' \in [Rows -> {"absent", "pending", "completed", "failed"}]
          /\ tries' \in [Rows -> 0 .. MaxTries] /\ after' \in [Rows -> {"now", "later"}]
      BY InboundAssumption DEF TypeOK, SweepWake, wakeContainer
    <2>3. /\ inputs' \in Seq(SUBSET Rows)
          /\ box' \in {"down", "starting", "up"} /\ query' \in {"none", "scripts", "live"}
          /\ ends' \subseteq {"latched", "ended"}
      BY DEF TypeOK, SweepWake, wakeContainer
    <2>4. sent' \in BOOLEAN /\ toWake' \in BOOLEAN /\ sweeping' \in BOOLEAN
      BY DEF TypeOK, SweepWake, wakeContainer
    <2>5. /\ initial' \subseteq Rows /\ pendingAck' \subseteq Rows /\ pushing' \subseteq Rows /\ late' \subseteq Rows
          /\ answered' \subseteq Rows /\ said' \subseteq Rows /\ twice' \subseteq Rows /\ excused' \subseteq Rows
      BY DEF TypeOK, SweepWake, wakeContainer
    <2>6. faults' \in Nat /\ wakeFailures' \in Nat /\ requeues' \in Nat
      BY SMTT(40) DEF TypeOK, SweepWake, wakeContainer
    <2> QED
      BY <2>1, <2>2, <2>3, <2>4, <2>5, <2>6 DEF TypeOK
  <1>2. Resting'
    BY DEF TypeOK, Resting, SweepWake, wakeContainer
  <1>3. Places'
    BY DEF TypeOK, Resting, Places, SweepWake, wakeContainer, Claimed
  <1>4. PromptsApart'
    BY DEF TypeOK, Resting, Places, PromptsApart, SweepWake, wakeContainer, Claimed
  <1>5. SaidIsOver'
    BY DEF TypeOK, Resting, Places, PromptsApart, SaidIsOver, SweepWake, wakeContainer, Claimed
  <1>6. ~ EarlyClose => HeardBeforeAck'
    BY DEF TypeOK, Resting, Places, HeardBeforeAck, CompletedMeansAnswered, SweepWake, wakeContainer, Claimed
  <1> QED
    BY <1>1, <1>2, <1>3, <1>4, <1>5, <1>6

\* The sweep's kill, or its cleanup.
LEMMA SweepRestInv == ASSUME Inv, SweepRest PROVE Inv'
  <1> USE DEF Inv, inDb, turn, history, bounds, waking
  <1>1. TypeOK'
    <2>1. ack' \in [Rows -> {"none", "processing", "stale", "completed"}]
      BY DEF TypeOK, SweepRest, resetStuckProcessingRows, SetAck, Due, BoxGone, QueryGone
    <2>2. /\ status' \in [Rows -> {"absent", "pending", "completed", "failed"}]
          /\ tries' \in [Rows -> 0 .. MaxTries] /\ after' \in [Rows -> {"now", "later"}]
      BY InboundAssumption DEF TypeOK, SweepRest, resetStuckProcessingRows, SetAck, Due, BoxGone, QueryGone
    <2>3. /\ inputs' \in Seq(SUBSET Rows)
          /\ box' \in {"down", "starting", "up"} /\ query' \in {"none", "scripts", "live"}
          /\ ends' \subseteq {"latched", "ended"}
      <3>1. CASE UNCHANGED <<box, query, ends, inputs>>
        BY <3>1 DEF TypeOK
      <3>2. CASE BoxGone
        BY <3>2 DEF BoxGone, QueryGone
      <3> QED
        BY <3>1, <3>2 DEF SweepRest
    <2>4. sent' \in BOOLEAN /\ toWake' \in BOOLEAN /\ sweeping' \in BOOLEAN
      BY DEF TypeOK, SweepRest, resetStuckProcessingRows, SetAck, Due, BoxGone, QueryGone
    <2>5. /\ initial' \subseteq Rows /\ pendingAck' \subseteq Rows /\ pushing' \subseteq Rows /\ late' \subseteq Rows
          /\ answered' \subseteq Rows /\ said' \subseteq Rows /\ twice' \subseteq Rows /\ excused' \subseteq Rows
      BY DEF TypeOK, SweepRest, resetStuckProcessingRows, SetAck, Due, BoxGone, QueryGone
    <2>6. faults' \in Nat /\ wakeFailures' \in Nat /\ requeues' \in Nat
      BY DEF TypeOK, SweepRest, resetStuckProcessingRows, SetAck, Due, BoxGone, QueryGone
    <2> QED
      BY <2>1, <2>2, <2>3, <2>4, <2>5, <2>6 DEF TypeOK
  <1>2. Resting'
    BY DEF TypeOK, Resting, SweepRest, resetStuckProcessingRows, SetAck, Due, BoxGone, QueryGone
  <1>3. Places'
    BY DEF TypeOK, Resting, Places, SweepRest, resetStuckProcessingRows, SetAck, Due, BoxGone, QueryGone, Claimed
  <1>4. PromptsApart'
    BY DEF TypeOK, Resting, Places, PromptsApart, SweepRest, resetStuckProcessingRows, SetAck, Due, BoxGone,
       QueryGone, Claimed
  <1>5. SaidIsOver'
    BY DEF TypeOK, Resting, Places, PromptsApart, SaidIsOver, SweepRest, resetStuckProcessingRows, SetAck, Due,
       BoxGone, QueryGone, Claimed
  <1>6. ~ EarlyClose => HeardBeforeAck'
    BY DEF TypeOK, Resting, Places, HeardBeforeAck, CompletedMeansAnswered, SweepRest, resetStuckProcessingRows,
       SetAck, Due, BoxGone, QueryGone, Claimed
  <1> QED
    BY <1>1, <1>2, <1>3, <1>4, <1>5, <1>6

\* A row arrives.
LEMMA insertMessageInv == ASSUME NEW m \in Rows, Inv, insertMessage(m) PROVE Inv'
  <1> USE DEF Inv, inDb, turn, history, bounds, waking
  <1>1. TypeOK'
    BY DEF TypeOK, Resting, insertMessage
  <1>2. Resting'
    BY DEF TypeOK, Resting, insertMessage
  <1>3. Places'
    BY DEF TypeOK, Resting, Places, insertMessage, Claimed
  <1>4. PromptsApart'
    BY DEF TypeOK, Resting, Places, PromptsApart, insertMessage, Claimed
  <1>5. SaidIsOver'
    BY DEF TypeOK, Resting, Places, PromptsApart, SaidIsOver, insertMessage, Claimed
  <1>6. ~ EarlyClose => HeardBeforeAck'
    BY DEF TypeOK, Resting, Places, HeardBeforeAck, CompletedMeansAnswered, insertMessage, Claimed
  <1> QED
    BY <1>1, <1>2, <1>3, <1>4, <1>5, <1>6

\* A claim grows stale.
LEMMA ClaimAgesInv == ASSUME NEW m \in Rows, Inv, ClaimAges(m) PROVE Inv'
  <1> USE DEF Inv, inDb, turn, history, bounds, waking
  <1>1. TypeOK'
    BY DEF TypeOK, Resting, ClaimAges, SetAck
  <1>2. Resting'
    BY DEF TypeOK, Resting, ClaimAges, SetAck
  <1>3. Places'
    BY DEF TypeOK, Resting, Places, ClaimAges, SetAck, Claimed
  <1>4. PromptsApart'
    BY DEF TypeOK, Resting, Places, PromptsApart, ClaimAges, SetAck, Claimed
  <1>5. SaidIsOver'
    BY DEF TypeOK, Resting, Places, PromptsApart, SaidIsOver, ClaimAges, SetAck, Claimed
  <1>6. ~ EarlyClose => HeardBeforeAck'
    BY DEF TypeOK, Resting, Places, HeardBeforeAck, CompletedMeansAnswered, ClaimAges, SetAck, Claimed
  <1> QED
    BY <1>1, <1>2, <1>3, <1>4, <1>5, <1>6

\* A backoff ends.
LEMMA BackoffElapsesInv == ASSUME NEW m \in Rows, Inv, BackoffElapses(m) PROVE Inv'
  <1> USE DEF Inv, inDb, turn, history, bounds, waking
  <1>1. TypeOK'
    BY DEF TypeOK, Resting, BackoffElapses
  <1>2. Resting'
    BY DEF TypeOK, Resting, BackoffElapses
  <1>3. Places'
    BY DEF TypeOK, Resting, Places, BackoffElapses, Claimed
  <1>4. PromptsApart'
    BY DEF TypeOK, Resting, Places, PromptsApart, BackoffElapses, Claimed
  <1>5. SaidIsOver'
    BY DEF TypeOK, Resting, Places, PromptsApart, SaidIsOver, BackoffElapses, Claimed
  <1>6. ~ EarlyClose => HeardBeforeAck'
    BY DEF TypeOK, Resting, Places, HeardBeforeAck, CompletedMeansAnswered, BackoffElapses, Claimed
  <1> QED
    BY <1>1, <1>2, <1>3, <1>4, <1>5, <1>6

\* The operator requeues a dead letter.
LEMMA requeueFailedInboundInv == ASSUME NEW m \in Rows, Inv, requeueFailedInbound(m) PROVE Inv'
  <1> USE DEF Inv, inDb, turn, history, bounds, waking
  <1>1. TypeOK'
    <2>1. ack' \in [Rows -> {"none", "processing", "stale", "completed"}]
      BY DEF TypeOK, requeueFailedInbound
    <2>2. /\ status' \in [Rows -> {"absent", "pending", "completed", "failed"}]
          /\ tries' \in [Rows -> 0 .. MaxTries] /\ after' \in [Rows -> {"now", "later"}]
      BY InboundAssumption DEF TypeOK, requeueFailedInbound
    <2>3. /\ inputs' \in Seq(SUBSET Rows)
          /\ box' \in {"down", "starting", "up"} /\ query' \in {"none", "scripts", "live"}
          /\ ends' \subseteq {"latched", "ended"}
      BY DEF TypeOK, requeueFailedInbound
    <2>4. sent' \in BOOLEAN /\ toWake' \in BOOLEAN /\ sweeping' \in BOOLEAN
      BY DEF TypeOK, requeueFailedInbound
    <2>5. /\ initial' \subseteq Rows /\ pendingAck' \subseteq Rows /\ pushing' \subseteq Rows /\ late' \subseteq Rows
          /\ answered' \subseteq Rows /\ said' \subseteq Rows /\ twice' \subseteq Rows /\ excused' \subseteq Rows
      BY DEF TypeOK, requeueFailedInbound
    <2>6. faults' \in Nat /\ wakeFailures' \in Nat /\ requeues' \in Nat
      BY DEF TypeOK, requeueFailedInbound
    <2> QED
      BY <2>1, <2>2, <2>3, <2>4, <2>5, <2>6 DEF TypeOK
  <1>2. Resting'
    BY DEF TypeOK, Resting, requeueFailedInbound
  <1>3. Places'
    BY DEF TypeOK, Resting, Places, requeueFailedInbound, Claimed
  <1>4. PromptsApart'
    BY DEF TypeOK, Resting, Places, PromptsApart, requeueFailedInbound, Claimed
  <1>5. SaidIsOver'
    BY DEF TypeOK, Resting, Places, PromptsApart, SaidIsOver, requeueFailedInbound, Claimed
  <1>6. ~ EarlyClose => HeardBeforeAck'
    BY DEF TypeOK, Resting, Places, HeardBeforeAck, CompletedMeansAnswered, requeueFailedInbound, Claimed
  <1> QED
    BY <1>1, <1>2, <1>3, <1>4, <1>5, <1>6
-----------------------------------------------------------------------------
\* Every step of the container, the router, the sweep and the operator keeps Inv.
LEMMA NextInv == Inv /\ [Next]_vars => Inv'
  <1> SUFFICES ASSUME Inv, [Next]_vars PROVE Inv'
    OBVIOUS
  <1>1. CASE Turns
    BY <1>1, StartInv, ClaimBatchInv, StartQueryInv, DelegateInv, DispatchInv, AckTurnInv,
       StreamClosesInv, CrashMidTurnInv DEF Turns
  <1>2. CASE FollowUpPoll \/ FollowUpPush \/ FollowUpLate \/ TurnThrows \/ StaleSession \/ IdleExit
    BY <1>2, FollowUpPollInv, FollowUpPushInv, FollowUpLateInv, TurnThrowsInv, StaleSessionInv, IdleExitInv
  <1>3. CASE RouterWakes \/ SweepWake \/ SweepRest
    BY <1>3, RouterWakesInv, SweepWakeInv, SweepRestInv
  <1>4. ASSUME NEW m \in Rows,
               insertMessage(m) \/ ClaimAges(m) \/ BackoffElapses(m) \/ requeueFailedInbound(m)
        PROVE  Inv'
    BY <1>4, insertMessageInv, ClaimAgesInv, BackoffElapsesInv, requeueFailedInboundInv
  <1>5. CASE UNCHANGED vars
    BY <1>5 DEF vars, inDb, turn, history, bounds, waking, Inv, TypeOK, Resting, Places, PromptsApart,
       SaidIsOver, HeardBeforeAck, CompletedMeansAnswered, Claimed
  <1> QED
    BY <1>1, <1>2, <1>3, <1>4, <1>5 DEF Next

\* Every reachable state of the session satisfies Inv.
THEOREM Invariance == Spec => []Inv
  <1> QED
    BY InitInv, NextInv, PTL DEF Spec

\* The tables and the turn keep their types; in particular a row's tries never
\* pass MAX_TRIES (resetStuckProcessingRows).
THEOREM TypeCorrect == Spec => []TypeOK
  <1>1. Inv => TypeOK
    BY DEF Inv
  <1> QED
    BY <1>1, Invariance, PTL

\* A turn owns its claims: no other poll, no late follow-up and no cleanup of
\* the sweep takes a row the next result will ack.
THEOREM ClaimsAreOwned == Spec => []QueryOwnsItsClaims
  <1>1. Inv => QueryOwnsItsClaims
    BY DEF Inv, Places, QueryOwnsItsClaims
  <1> QED
    BY <1>1, Invariance, PTL

\* One container answers a row at most once.
THEOREM AnsweredOnce == Spec => []AnsweredOncePerContainer
  <1>1. Inv => AnsweredOncePerContainer
    BY DEF Inv, SaidIsOver, AnsweredOncePerContainer
  <1> QED
    BY <1>1, Invariance, PTL

\* Where every stream answers its prompts before it closes, no row is closed by
\* silence (ADR-0062).  A provider whose stream may close early does close rows
\* by silence, at the turn's tail (poll-loop.ts).
THEOREM NoSilence == ASSUME ~ EarlyClose PROVE Spec => []CompletedMeansAnswered
  <1>1. Inv => CompletedMeansAnswered
    BY DEF Inv, HeardBeforeAck
  <1> QED
    BY <1>1, Invariance, PTL
=============================================================================
