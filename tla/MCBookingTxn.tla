---------------------------- MODULE MCBookingTxn ----------------------------
(* TLC instances of BookingTxn: two sessions over at most two checkouts.   *)
EXTENDS BookingTxn, TLC

CONSTANTS b1, b2, b3, g1, g2, s1, s2, t1, t2

Sessions == {t1, t2}
OneGroup == {g1}
TwoGroups == {g1, g2}
OneSlot == {s1}
TwoSlots == {s1, s2}

(* One checkout of two hours, or two of one hour.                          *)
TwoRows == {b1, b2}
OneGroupOf == (b1 :> g1) @@ (b2 :> g1)
TwoRowsOf == (b1 :> g1) @@ (b2 :> g2)

(* A two-hour checkout beside a one-hour one.                              *)
ThreeRows == {b1, b2, b3}
ThreeRowsOf == (b1 :> g1) @@ (b2 :> g1) @@ (b3 :> g2)

(* The handlers that lock what they decide on.                             *)
Serial == PayFirst \cup RowsOnly \cup {"create_booking"}

Everything == PayFirst \cup RowsOnly \cup NoLock \cup {"create_booking", "close_arena"}

(* Bound: no hour passes (the one check of the clock is on locked rows).   *)
NothingStarted == past = {}

SlotSymmetry == Permutations(Sessions) \cup Permutations(TwoSlots)
RowSymmetry == SlotSymmetry \cup Permutations({b1, b2})
TxnSymmetry == Permutations(Sessions)
=============================================================================
