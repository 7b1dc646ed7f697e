--------------------------- MODULE MCRosterGrants ---------------------------
(***************************************************************************)
(* Instances of RosterGrants for TLC.  Times are in units of the short     *)
(* window; the daily window is twice as long.                              *)
(***************************************************************************)
EXTENDS RosterGrants

OneSlot         == {"slot1"}
OnePerson       == {"p1"}
TwoPersons      == {"p1", "p2"}

OneMessage      == {"m1"}
TwoMessages     == {"m1", "m2"}
ThreeMessages   == {"m1", "m2", "m3"}
ThreeSameSlot   == [m \in ThreeMessages |-> "slot1"]
NoKeysOfThree   == [m \in ThreeMessages |-> {}]
SameSlot        == [m \in TwoMessages |-> "slot1"]
OneSlotOf       == [m \in OneMessage |-> "slot1"]

NoInvites       == {}
NoInvitee       == [i \in NoInvites |-> "p1"]
OneInvite       == {"i1"}
OneInvitee      == [i \in OneInvite |-> "p1"]

RateKeys        == {"scope", "daily"}
RateLimit       == [k \in RateKeys |-> IF k = "scope" THEN 1 ELSE 2]
RateWindow      == [k \in RateKeys |-> IF k = "scope" THEN 1 ELSE 2]
BothKeys        == [m \in TwoMessages |-> RateKeys]
DailyKey        == {"daily"}

NoKeys          == {}
NoLimit         == [k \in NoKeys |-> 0]
NoWindow        == [k \in NoKeys |-> 1]
NoKeysOfOne     == [m \in OneMessage |-> NoKeys]
=============================================================================
