-------------------------- MODULE MCSessionInbound --------------------------
(***************************************************************************)
(* Instances of SessionInbound for TLC.                                    *)
(***************************************************************************)
EXTENDS SessionInbound

ThreeRows   == {2, 4, 6}
TwoRows     == {2, 4}
OneRow      == {2}
NoRows      == {}
EndTriggers == {2, 6}
=============================================================================
