--------------------------- MODULE OutboxContract ---------------------------
(***************************************************************************)
(* What outbound delivery promises for each messages_out row, independent  *)
(* of polls, workers and retries (ADR-0016): at-least-once, or visibly     *)
(* given up.  Delivery.tla implements this module.                         *)
(***************************************************************************)
EXTENDS Naturals

CONSTANTS
    Messages,
    NeedsCopy       \* messages with a recipient outside the host

VARIABLES
    status,     \* "absent", "owed", "delivered" or "dead" per message
    copies      \* how many times the message took effect

cvars == <<status, copies>>

Init ==
    /\ status = [m \in Messages |-> "absent"]
    /\ copies = [m \in Messages |-> 0]

\* A container writes the row.
Owe(m) ==
    /\ status[m] = "absent"
    /\ status' = [status EXCEPT ![m] = "owed"]
    /\ UNCHANGED copies

\* A copy takes effect; after a timeout it may do so at any later time.
Copy(m) ==
    /\ status[m] # "absent"
    /\ copies' = [copies EXCEPT ![m] = @ + 1]
    /\ UNCHANGED status

\* The message is recorded as delivered: only when a copy has taken effect.
Confirm(m) ==
    /\ status[m] = "owed"
    /\ m \in NeedsCopy => copies[m] > 0
    /\ status' = [status EXCEPT ![m] = "delivered"]
    /\ UNCHANGED copies

\* The retry budget is used up, or the bytes violate the contract.
GiveUp(m) ==
    /\ status[m] = "owed"
    /\ status' = [status EXCEPT ![m] = "dead"]
    /\ UNCHANGED copies

\* An operator requeues a dead letter.
Revive(m) ==
    /\ status[m] = "dead"
    /\ status' = [status EXCEPT ![m] = "owed"]
    /\ UNCHANGED copies

Next == \E m \in Messages : Owe(m) \/ Copy(m) \/ Confirm(m) \/ GiveUp(m) \/ Revive(m)

Spec == Init /\ [][Next]_cvars
=============================================================================
