--------------------------- MODULE MCBookingEngine ---------------------------
(* TLC instances of BookingEngine: a two-hour checkout beside a one-hour   *)
(* one, on a court with two or three hours.                               *)
EXTENDS EngineCalendar, TLC

CONSTANTS b1, b2, b3, g1, g2, s1, s2, s3

MCBookings == {b1, b2, b3}
MCGroups == {g1, g2}
MCSlots == {s1, s2}
MCThreeSlots == {s1, s2, s3}
MCGroupOf == (b1 :> g1) @@ (b2 :> g1) @@ (b3 :> g2)

(* The two-hour checkout alone.                                            *)
MCOneGroup == {b1, b2}
MCOneGroupIds == {g1}
MCOneGroupOf == (b1 :> g1) @@ (b2 :> g1)

(* Bound: only the two-hour checkout takes a code or starts a match.       *)
OneWithExtras == code[g2] = "none" /\ match[g2] = "none"

(* Bound for the runs with single-row endpoints: no match is started (the  *)
(* grouped run has them), no equipment is rented, no slot is taken off     *)
(* sale, one hour passes, and the arena is suspended but never removed.    *)
NoSideShows ==
  /\ \A g \in MCGroups : match[g] = "none"
  /\ line = {}
  /\ \A s \in MCSlots : slot[s] # "maintenance"
  /\ Cardinality(past) <= 1
  /\ arena # "removed"

(* Bound for the calendar run, whose question is who has which hour: no    *)
(* match, no slot off sale, the arena is not removed.  (MaxUses and Stock  *)
(* are 0 there.)                                                           *)
JustHours ==
  /\ \A g \in MCGroups : match[g] = "none"
  /\ \A s \in MCThreeSlots : slot[s] # "maintenance"
  /\ Cardinality(past) <= 1
  /\ arena # "removed"

(* Bound for the stuck-hold run: no match, no slot off sale, the arena     *)
(* stays, and nothing is paid through the gateway.                         *)
TransfersOnly ==
  /\ arena = "live"
  /\ \A g \in MCGroups : match[g] = "none" /\ pay[g].method # "gateway"
  /\ \A s \in MCSlots : slot[s] # "maintenance"

Symmetry == Permutations(MCSlots) \cup Permutations({b1, b2})
ThreeSymmetry == Permutations(MCThreeSlots) \cup Permutations({b1, b2})
=============================================================================
