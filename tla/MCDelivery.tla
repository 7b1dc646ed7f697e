----------------------------- MODULE MCDelivery -----------------------------
(***************************************************************************)
(* Instances of Delivery for TLC.                                          *)
(***************************************************************************)
EXTENDS Delivery

OneSession      == {"s1"}
NoMessages      == {}

\* A chat row with an attachment and a system action after it.
ChatAndSystem       == {"chat", "system"}
ChatAndSystemOf     == [m \in ChatAndSystem |-> "s1"]
ChatAndSystemAt     == [m \in ChatAndSystem |-> IF m = "chat" THEN 1 ELSE 2]
ChatAndSystemKind   == [m \in ChatAndSystem |-> m]
JustChat            == {"chat"}

\* A chat row behind rows that never reach a channel, one of them deferred.
OddMessages     == {"invalid", "unrouted", "usage", "chat"}
OddOf           == [m \in OddMessages |-> "s1"]
OddAt           == [m \in OddMessages |-> IF m = "chat" THEN 2 ELSE 1]
OddKind         == [m \in OddMessages |-> m]
OddDeferred     == {"unrouted"}
=============================================================================
