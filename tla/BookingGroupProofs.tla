-------------------------- MODULE BookingGroupProofs --------------------------
(***************************************************************************)
(* Proofs about BookingEngine for clients that end bookings by whole       *)
(* groups: the calendar, the stock, the discount uses and the matches      *)
(* agree with the bookings.  cancel_booking and force_refund, which end    *)
(* one row and leave the rest of its group as it was, break each of these; *)
(* reschedule_booking, which moves one row, breaks none.  From the same    *)
(* invariant, the engine implements CourtCalendar for these clients.       *)
(***************************************************************************)
EXTENDS EngineCalendar, BookingEngineProofs

(* What is assumed of the clients.                                         *)
EndsByGroup == PerRow \subseteq {"reschedule_booking"}

(* What an active row makes of its slot.                                   *)
Standing(v) ==
  IF v \in {"pending_payment", "pending_approval"} THEN "reserved" ELSE "booked"

RowsStandOnSlots ==
  \A b \in Indexed(Bookings) : slot[slotOf[b]] = Standing(status[b])

TakenSlotsHaveRows ==
  \A s \in Slots : slot[s] \in HasBooking => \E b \in Indexed(Bookings) : slotOf[b] = s

SlotInv ==
  /\ UniqueActiveSlot
  /\ RowsStandOnSlots
  /\ TakenSlotsHaveRows

(* An open payment has the receipt its rows show.                          *)
OpenRowsAlike ==
  \A g \in Groups : pay[g].status = "pending" =>
    AllAre(Made(g), IF pay[g].receipt THEN "pending_approval" ELSE "pending_payment")

(* A use is given back when rows end, and no such group is paid later.     *)
ReleasedHasDead ==
  \A g \in Groups : code[g] = "released" => \E b \in Made(g) : status[b] \in Dead

LinesAreMade == \A b \in line : status[b] # "none"

MatchIsMade == \A g \in Groups : match[g] = "live" => Made(g) # {}

EquipmentInv == LinesAreMade /\ EquipmentCounted
DiscountInv == ReleasedHasDead /\ DiscountFollowsPayment
MatchInv == MatchIsMade /\ MatchHasBooking

GInv ==
  /\ IInv
  /\ SlotInv
  /\ EquipmentInv
  /\ OpenRowsAlike
  /\ ApprovalHasReceipt
  /\ DiscountInv
  /\ MatchInv

-----------------------------------------------------------------------------
(* Ending rows                                                             *)

(* Active rows stand on slots of their own, so the slots of the rows that  *)
(* end carry no other active row.                                          *)
LEMMA SlotsAfterEnding ==
  ASSUME GInv, NEW B, B \subseteq Indexed(Bookings), NEW v \in Dead,
         status' = SetStatus(B, v), slot' = SetSlots(SlotsOf(B), "available"),
         slotOf' = slotOf
  PROVE  SlotInv'
<1>1. \A b \in Bookings : status'[b] = IF b \in B THEN v ELSE status[b]
  BY DEF SetStatus
<1>2. Indexed(Bookings)' = Indexed(Bookings) \ B
  BY <1>1 DEF Indexed
<1>3. UniqueActiveSlot'
  BY <1>2 DEF GInv, SlotInv, UniqueActiveSlot
<1>4. \A s \in Slots : slot'[s] = IF s \in SlotsOf(B) THEN "available" ELSE slot[s]
  BY DEF SetSlots
<1>5. RowsStandOnSlots'
  <2> SUFFICES ASSUME NEW b \in Indexed(Bookings), b \notin B
               PROVE  slot'[slotOf[b]] = Standing(status'[b])
    BY <1>2 DEF RowsStandOnSlots
  <2>1. b \in Bookings /\ slotOf[b] \in Slots
    BY DEF GInv, IInv, RowsHaveSlots, Indexed
  <2>2. slotOf[b] \notin SlotsOf(B)
    BY DEF SlotsOf, GInv, SlotInv, UniqueActiveSlot
  <2> QED BY <1>1, <1>4, <2>1, <2>2 DEF GInv, SlotInv, RowsStandOnSlots
<1>6. TakenSlotsHaveRows'
  <2> SUFFICES ASSUME NEW s \in Slots, slot'[s] \in HasBooking
               PROVE  \E b \in Indexed(Bookings) \ B : slotOf[b] = s
    BY <1>2 DEF TakenSlotsHaveRows, HasBooking
  <2>1. s \notin SlotsOf(B) /\ slot[s] \in HasBooking
    BY <1>4 DEF HasBooking
  <2> QED BY <2>1 DEF SlotsOf, GInv, SlotInv, TakenSlotsHaveRows
<1> QED BY <1>3, <1>5, <1>6 DEF SlotInv

(* What ended rows held goes back, once.                                   *)
LEMMA EquipmentAfterEnding ==
  ASSUME GInv, NEW B, B \subseteq Indexed(Bookings), NEW v \in Dead,
         status' = SetStatus(B, v), ReleaseEquipment(B)
  PROVE  EquipmentInv'
<1> DEFINE H == line \cap Indexed(Bookings)
           N == (line \cap Indexed(Bookings))'
           E == B \cap line
<1>1. \A b \in Bookings : status'[b] = IF b \in B THEN v ELSE status[b]
  BY DEF SetStatus
<1>2. line' = line /\ avail' = avail + Cardinality(E)
  BY DEF ReleaseEquipment
<1>3. N = H \ E /\ E \subseteq H
  BY <1>1, <1>2 DEF Indexed
<1>4. IsFiniteSet(H) /\ IsFiniteSet(E) /\ IsFiniteSet(N)
  <2>1. H \subseteq Bookings /\ E \subseteq Bookings /\ N \subseteq Bookings
    BY <1>3 DEF Indexed
  <2> QED BY <2>1, RowsFinite
<1> HIDE DEF H, N, E
<1>5. Cardinality(H) \in Nat /\ Cardinality(E) \in Nat /\ Cardinality(N) \in Nat
  BY <1>4, FS_CardinalityType
<1>6. Cardinality(N) = Cardinality(H) - Cardinality(E)
  <2>1. Cardinality(N) = Cardinality(H) - Cardinality(H \cap E)
    BY <1>3, <1>4, FS_Difference
  <2>2. H \cap E = E
    BY <1>3
  <2> QED BY <2>1, <2>2
<1>7. avail + Cardinality(H) = Stock /\ avail \in Nat
  BY LimitAssumption DEF H, GInv, EquipmentInv, EquipmentCounted, IInv, TypeOK
<1>8. avail' + Cardinality(N) = Stock
  BY <1>2, <1>5, <1>6, <1>7
<1>9. LinesAreMade'
  BY <1>1, <1>2 DEF GInv, EquipmentInv, LinesAreMade, IInv, TypeOK, Dead
<1> QED BY <1>8, <1>9 DEF EquipmentInv, EquipmentCounted, N

(* The rows B end, and with them the discount uses of the groups G: what   *)
(* the handlers that end rows have in common.                              *)
Ending(B, v, G) ==
  /\ B \subseteq Indexed(Bookings) /\ v \in Dead /\ G \subseteq Groups
  /\ status' = SetStatus(B, v)
  /\ slot' = SetSlots(SlotsOf(B), "available")
  /\ UNCHANGED <<slotOf, past>>
  /\ ReleaseEquipment(B)
  /\ release_discount_use(G)
  /\ \A b \in B : GroupOf[b] \in G
  /\ \A g \in G : \E b \in B : GroupOf[b] = g
  /\ \A g \in Groups :
       /\ g \notin G => pay'[g] = pay[g]
       /\ g \in G /\ pay[g].status \in UnpaidStatus => pay'[g].status \in {"none", "failed"}
       /\ pay[g].status = "completed" => pay'[g].status = "completed"
  /\ \A b \in Bookings \ B :
       status[b] = "pending_approval" /\ GroupOf[b] \in G => slotOf[b] \in past
  /\ \A g \in Groups :
       match'[g] = "live" => match[g] = "live" /\ \A b \in B : GroupOf[b] # g

RowsEnding == \E B, v, G : Ending(B, v, G)

LEMMA RowsEnd ==
  ASSUME GInv, IInv', RowsEnding
  PROVE  GInv'
<1>0. PICK B, v, G : Ending(B, v, G)
  BY DEF RowsEnding
<1> USE <1>0 DEF Ending
<1>1. \A b \in Bookings : status'[b] = IF b \in B THEN v ELSE status[b]
  BY DEF SetStatus
<1>2. /\ B \subseteq Bookings
      /\ \A b \in B : status[b] # "none"
  BY DEF Indexed
<1>3. \A g \in Groups : Made(g)' = Made(g)
  BY <1>1, <1>2, MadeKept DEF Dead
<1>4. SlotInv' /\ EquipmentInv'
  BY SlotsAfterEnding, EquipmentAfterEnding
<1>5. \A g \in Groups : pay[g].status \in {"none", "pending", "completed", "failed"}
  BY DEF GInv, IInv, TypeOK, PaymentsGood, PaymentGood, PaymentRows, PaymentStatus, NoPayment
<1>6. OpenRowsAlike'
  <2> SUFFICES ASSUME NEW g \in Groups, pay'[g].status = "pending", NEW b \in Made(g)
               PROVE  status'[b] = IF pay'[g].receipt THEN "pending_approval" ELSE "pending_payment"
    BY <1>3 DEF OpenRowsAlike, AllAre
  <2>1. g \notin G
    BY <1>5 DEF UnpaidStatus
  <2>2. b \in Bookings /\ b \notin B /\ pay'[g] = pay[g]
    BY <2>1 DEF Made
  <2> QED BY <1>1, <2>2 DEF GInv, OpenRowsAlike, AllAre
<1>7. ApprovalHasReceipt'
  BY <1>1, GroupAssumption DEF GInv, ApprovalHasReceipt, OwnerMayDecide, Dead
<1>8. DiscountInv'
  <2>1. \A g \in Groups : code'[g] = IF g \in Claimed(G) THEN "released" ELSE code[g]
    BY DEF release_discount_use
  <2>2. ReleasedHasDead'
    <3> SUFFICES ASSUME NEW g \in Groups, code'[g] = "released"
                 PROVE  \E b \in Made(g) : status'[b] \in Dead
      BY <1>3 DEF ReleasedHasDead
    <3>1. CASE g \in G
      BY <1>1, <1>2, <3>1 DEF Made
    <3>2. CASE g \notin G
      BY <1>1, <2>1, <3>2 DEF Claimed, GInv, DiscountInv, ReleasedHasDead, Made
    <3> QED BY <3>1, <3>2
  <2>3. ASSUME NEW g \in Groups, code'[g] = "released"
        PROVE  pay'[g].status \in {"none", "failed"}
    BY <2>1, <2>3 DEF Claimed, GInv, DiscountInv, DiscountFollowsPayment, UnpaidStatus
  <2>4. ASSUME NEW g \in Groups, code'[g] = "held", pay'[g].status # "completed"
        PROVE  \E b \in Made(g) : status'[b] \notin Dead
    <3>1. code[g] = "held" /\ g \notin Claimed(G)
      BY <2>1, <2>4
    <3>2. g \notin G
      BY <1>5, <2>4, <3>1 DEF Claimed, UnpaidStatus
    <3>3. \A b \in Made(g) : b \in Bookings /\ b \notin B
      BY <3>2 DEF Made
    <3> QED BY <1>1, <2>4, <3>1, <3>2, <3>3 DEF GInv, DiscountInv, DiscountFollowsPayment
  <2> QED BY <1>3, <2>2, <2>3, <2>4 DEF DiscountInv, DiscountFollowsPayment
<1>9. MatchInv'
  BY <1>1, <1>3 DEF GInv, MatchInv, MatchIsMade, MatchHasBooking, Made
<1> QED BY <1>4, <1>6, <1>7, <1>8, <1>9 DEF GInv

(* Closing and marking, by the coarse status.                              *)
LEMMA ClosedStatus ==
  ASSUME NEW p
  PROVE  /\ p.status = "completed" => Closed(p) = p
         /\ p.status \in {"none", "failed"} => Closed(p) = p
         /\ p \in PaymentRows /\ p.status = "pending" => Closed(p).status = "failed"
  BY DEF Closed, Advanced, PaymentRows

LEMMA MarkedStatus ==
  ASSUME IInv, NEW g \in Groups, NEW n
  PROVE  /\ Marked(g, n).status = pay[g].status
         /\ pay[g].status # "completed" => Marked(g, n) = pay[g]
         /\ pay[g].status = "pending" => pay[g] \in PaymentRows
<1>1. PaymentGood(pay[g])
  BY DEF IInv, PaymentsGood
<1>2. pay[g].life \in PaidLife \ {"refunded"} => pay[g].status = "completed"
  BY <1>1 DEF PaymentGood, PaidLife, ClosedLife, PaymentRows, PaymentStatus, NoPayment
<1>3. pay[g].status = "pending" => pay[g] \in PaymentRows
  BY <1>1 DEF PaymentGood, NoPayment
<1> QED BY <1>1, <1>2, <1>3 DEF Marked, PaymentGood, PaymentRows, PaidLife, NoPayment

(* A payment that was marked, then closed: what RowsEnd asks of it.        *)
LEMMA SettledStatus ==
  ASSUME IInv, NEW g \in Groups, NEW n
  PROVE  /\ pay[g].status \in UnpaidStatus => Closed(Marked(g, n)).status \in {"none", "failed"}
         /\ pay[g].status \in UnpaidStatus => Closed(pay[g]).status \in {"none", "failed"}
         /\ pay[g].status = "completed" => Closed(Marked(g, n)).status = "completed"
         /\ pay[g].status = "completed" => Closed(pay[g]).status = "completed"
  BY ClosedStatus, MarkedStatus DEF UnpaidStatus

-----------------------------------------------------------------------------
(* The handlers that end rows                                              *)

LEMMA LiveIsIndexed ==
  /\ \A g \in Groups : Live(g) \subseteq Indexed(Bookings)
  /\ \A g \in Groups : \A b \in Live(g) : GroupOf[b] = g
  BY DEF Live, Made, Indexed, Cancellable, Dead

LEMMA ReleaseGroupEnds ==
  ASSUME GInv, NEW g \in Groups, release_group(g)
  PROVE  RowsEnding
<1> DEFINE B == Made(g)
<1>1. /\ Made(g) # {}
      /\ \A b \in B : status[b] = "pending_payment"
      /\ apply_cancellation(B, {g})
      /\ pay' = [h \in Groups |-> IF h \in {g} THEN Closed(pay[h]) ELSE pay[h]]
      /\ UNCHANGED <<arena, past, slotOf, back, moved>>
  BY DEF release_group, close_pending_payment, AwaitsPayment, AllAre
<1>2. /\ B \subseteq Indexed(Bookings)
      /\ \A b \in B : GroupOf[b] = g
      /\ \E b \in B : GroupOf[b] = g
  BY <1>1 DEF Made, Indexed, Dead
<1>3. /\ status' = SetStatus(B, "cancelled")
      /\ slot' = SetSlots(SlotsOf(B), "available")
      /\ ReleaseEquipment(B)
      /\ release_discount_use({g})
      /\ \A h \in Groups : match'[h] = IF h = g /\ match[h] = "live" THEN "cancelled" ELSE match[h]
  BY <1>1 DEF apply_cancellation, follow_booking_cancelled
<1>4. /\ pay[g].status \in UnpaidStatus => pay'[g].status \in {"none", "failed"}
      /\ pay[g].status = "completed" => pay'[g].status = "completed"
  BY <1>1, SettledStatus DEF GInv
<1>5. \A b \in Bookings \ B : GroupOf[b] = g => status[b] = "none"
  BY DEF Made
<1> HIDE DEF B
<1>7. Ending(B, "cancelled", {g})
  BY <1>1, <1>2, <1>3, <1>4, <1>5 DEF Ending, Dead
<1> QED BY <1>7 DEF RowsEnding

LEMMA CancelGroupEnds ==
  ASSUME GInv, NEW g \in Groups, NEW tier \in Tiers, cancel_group(g, tier)
  PROVE  RowsEnding
<1> DEFINE n == GroupRefund(g, Live(g), tier)
           B == Live(g)
<1>1. /\ B # {}
      /\ apply_cancellation(B, {g})
      /\ pay' = [pay EXCEPT ![g] = Closed(Marked(g, n))]
      /\ UNCHANGED <<arena, past, slotOf, moved>>
  BY DEF cancel_group
<1>2. /\ B \subseteq Indexed(Bookings)
      /\ \A b \in B : GroupOf[b] = g
      /\ \E b \in B : GroupOf[b] = g
  BY <1>1, LiveIsIndexed
<1>3. /\ status' = SetStatus(B, "cancelled")
      /\ slot' = SetSlots(SlotsOf(B), "available")
      /\ ReleaseEquipment(B)
      /\ release_discount_use({g})
      /\ \A h \in Groups : match'[h] = IF h = g /\ match[h] = "live" THEN "cancelled" ELSE match[h]
  BY <1>1 DEF apply_cancellation, follow_booking_cancelled
<1>4. /\ pay[g].status \in UnpaidStatus => pay'[g].status \in {"none", "failed"}
      /\ pay[g].status = "completed" => pay'[g].status = "completed"
      /\ \A h \in Groups : h # g => pay'[h] = pay[h]
  BY <1>1, SettledStatus DEF GInv, IInv, TypeOK
<1>5. \A b \in Bookings \ B : GroupOf[b] = g => status[b] # "pending_approval"
  BY DEF Live, Made, Cancellable
<1> HIDE DEF B
<1>7. Ending(B, "cancelled", {g})
  BY <1>1, <1>2, <1>3, <1>4, <1>5 DEF Ending, Dead
<1> QED BY <1>7 DEF RowsEnding

(* An arena that closes ends the rows to come and leaves those whose hour  *)
(* is over.                                                                *)
LEMMA CloseArenaEnds ==
  ASSUME GInv, NEW to \in {"suspended", "removed"}, close_arena(to)
  PROVE  RowsEnding
<1> DEFINE F(g) == {b \in Live(g) : slotOf[b] \notin past}
           G == {g \in Groups : F(g) # {}}
           n(g) == IF g \in G THEN GroupRefund(g, F(g), 2) ELSE 0
           B == UNION {F(g) : g \in G}
<1>1. /\ apply_cancellation(B, G)
      /\ pay' = [g \in Groups |-> IF g \in G THEN Closed(Marked(g, n(g))) ELSE pay[g]]
      /\ UNCHANGED <<past, slotOf, moved>>
  BY DEF close_arena
<1>2. /\ B \subseteq Indexed(Bookings)
      /\ \A b \in B : GroupOf[b] \in G
      /\ \A g \in G : \E b \in B : GroupOf[b] = g
      /\ G \subseteq Groups
  <2>1. \A g \in Groups : F(g) \subseteq Indexed(Bookings) /\ \A b \in F(g) : GroupOf[b] = g
    BY LiveIsIndexed
  <2> QED BY <2>1
<1>3. \A b \in Bookings \ B : status[b] = "pending_approval" => slotOf[b] \in past
  <2> SUFFICES ASSUME NEW b \in Bookings, status[b] = "pending_approval", slotOf[b] \notin past
               PROVE  b \in B
    OBVIOUS
  <2>1. GroupOf[b] \in Groups /\ b \in F(GroupOf[b])
    BY GroupAssumption DEF Live, Made, Cancellable
  <2> QED BY <2>1
<1> HIDE DEF F, G, n, B
<1>4. /\ status' = SetStatus(B, "cancelled")
      /\ slot' = SetSlots(SlotsOf(B), "available")
      /\ ReleaseEquipment(B)
      /\ release_discount_use(G)
      /\ \A g \in Groups : match'[g] = IF g \in G /\ match[g] = "live" THEN "cancelled" ELSE match[g]
  BY <1>1 DEF apply_cancellation, follow_booking_cancelled
<1>5. \A g \in Groups :
        /\ g \notin G => pay'[g] = pay[g]
        /\ g \in G /\ pay[g].status \in UnpaidStatus => pay'[g].status \in {"none", "failed"}
        /\ pay[g].status = "completed" => pay'[g].status = "completed"
  BY <1>1, SettledStatus DEF GInv
<1>6. \A g \in Groups : match'[g] = "live" => match[g] = "live" /\ g \notin G
  BY <1>4
<1>7. Ending(B, "cancelled", G)
  BY <1>1, <1>2, <1>3, <1>4, <1>5, <1>6 DEF Ending, Dead
<1> QED BY <1>7 DEF RowsEnding

(* The rows of an open payment await it, so none of them has a match.      *)
LEMMA NoMatchUnpaid ==
  ASSUME GInv, NEW b \in Bookings, status[b] \in {"pending_payment", "pending_approval"}
  PROVE  match[GroupOf[b]] # "live"
  BY GroupAssumption DEF GInv, MatchInv, MatchHasBooking, Made

LEMMA FailEnds ==
  ASSUME GInv, NEW g \in Groups, pay[g].status = "pending",
         NEW life, NEW to \in Dead, fail_group(g, life, to)
  PROVE  RowsEnding
<1> DEFINE B == Made(g)
<1>1. /\ pay' = [pay EXCEPT ![g] = Advanced(pay[g], "failed", life)]
      /\ status' = SetStatus(B, to)
      /\ slot' = SetSlots(SlotsOf(B), "available")
      /\ ReleaseEquipment(B)
      /\ release_discount_use({g})
      /\ UNCHANGED <<arena, past, slotOf, back, moved, match>>
  BY DEF fail_group, GroupRows
<1>2. \A b \in B : b \in Bookings /\ GroupOf[b] = g
                   /\ status[b] \in {"pending_payment", "pending_approval"}
  BY DEF GInv, OpenRowsAlike, AllAre, Made
<1>3. /\ B \subseteq Indexed(Bookings)
      /\ B # {}
      /\ \A b \in B : GroupOf[b] = g
  BY <1>2 DEF Indexed, Dead, GInv, IInv, UnmadeIsFresh, NoPayment
<1>4. /\ pay'[g].status = "failed"
      /\ \A h \in Groups : h # g => pay'[h] = pay[h]
  <2>1. pay[g] \in PaymentRows
    BY MarkedStatus DEF GInv
  <2> QED BY <1>1, <2>1 DEF Advanced, PaymentRows, GInv, IInv, TypeOK
<1>5. \A b \in Bookings \ B : GroupOf[b] = g => status[b] = "none"
  BY DEF Made
<1>6. \A h \in Groups : match'[h] = "live" => match[h] = "live" /\ \A b \in B : GroupOf[b] # h
  BY <1>1, <1>2, NoMatchUnpaid
<1> HIDE DEF B
<1>7. Ending(B, to, {g})
  BY <1>1, <1>3, <1>4, <1>5, <1>6 DEF Ending, Dead
<1> QED BY <1>7 DEF RowsEnding

(* The sweep takes the unpaid rows of its groups; a row that awaits        *)
(* approval beside one of them is left over from a closure, and past.      *)
LEMMA AutoCancelEnds ==
  ASSUME GInv, NEW G \in SUBSET Groups, auto_cancel_stale_bookings(G)
  PROVE  RowsEnding
<1> DEFINE B == Stale(G)
<1>1. /\ \A g \in G : \E b \in B : GroupOf[b] = g
      /\ slot' = SetSlots({s \in SlotsOf(B) : slot[s] = "reserved"}, "available")
      /\ status' = SetStatus(B, "cancelled")
      /\ ReleaseEquipment(B)
      /\ release_discount_use(G)
      /\ pay' = [g \in Groups |-> IF g \in G THEN Closed(pay[g]) ELSE pay[g]]
      /\ UNCHANGED <<arena, past, slotOf, back, moved, match>>
  BY DEF auto_cancel_stale_bookings, close_pending_payment
<1>2. /\ \A b \in B : b \in Bookings /\ GroupOf[b] \in G /\ status[b] = "pending_payment"
      /\ B \subseteq Indexed(Bookings)
  BY DEF Stale, Indexed, Dead
<1>3. {s \in SlotsOf(B) : slot[s] = "reserved"} = SlotsOf(B)
  BY <1>2 DEF SlotsOf, GInv, SlotInv, RowsStandOnSlots, Standing
<1>4. \A g \in Groups :
        /\ g \notin G => pay'[g] = pay[g]
        /\ g \in G /\ pay[g].status \in UnpaidStatus => pay'[g].status \in {"none", "failed"}
        /\ pay[g].status = "completed" => pay'[g].status = "completed"
  BY <1>1, SettledStatus DEF GInv
<1>5. ASSUME NEW b \in Bookings, status[b] = "pending_approval", GroupOf[b] \in G
      PROVE  slotOf[b] \in past
  <2>1. PICK c \in B : GroupOf[c] = GroupOf[b]
    BY <1>1, <1>5
  <2>2. b \in Made(GroupOf[b]) /\ c \in Made(GroupOf[b]) /\ status[c] = "pending_payment"
    BY <1>2, <1>5, <2>1 DEF Made
  <2>3. ~OwnerMayDecide(GroupOf[b])
    BY <1>5, <2>2 DEF GInv, OpenRowsAlike, AllAre, OwnerMayDecide
  <2> QED BY <1>5, <2>3 DEF GInv, ApprovalHasReceipt
<1>6. \A g \in Groups : match'[g] = "live" => match[g] = "live" /\ \A b \in B : GroupOf[b] # g
  BY <1>1, <1>2, NoMatchUnpaid
<1> HIDE DEF B
<1>7. Ending(B, "cancelled", G)
  BY <1>1, <1>2, <1>3, <1>4, <1>5, <1>6 DEF Ending, Dead
<1> QED BY <1>7 DEF RowsEnding

-----------------------------------------------------------------------------
(* The handlers that leave the rows standing where they are                *)

(* Active rows keep their slots, and nothing active appears or goes.       *)
LEMMA RowsStand ==
  ASSUME GInv, UNCHANGED <<slotOf, line, avail>>,
         \A b \in Bookings : status'[b] = "none" <=> status[b] = "none",
         \A b \in Bookings : status'[b] \in Dead <=> status[b] \in Dead,
         \A b \in Indexed(Bookings) : slot'[slotOf[b]] = Standing(status'[b]),
         \A s \in Slots : slot'[s] \in HasBooking =>
           slot[s] \in HasBooking \/ \E b \in Indexed(Bookings) : slotOf[b] = s
  PROVE  SlotInv' /\ EquipmentInv'
<1>1. Indexed(Bookings)' = Indexed(Bookings)
  BY DEF Indexed
<1>2. UniqueActiveSlot'
  BY <1>1 DEF GInv, SlotInv, UniqueActiveSlot
<1>3. RowsStandOnSlots'
  BY <1>1 DEF RowsStandOnSlots
<1>4. TakenSlotsHaveRows'
  BY <1>1 DEF TakenSlotsHaveRows, GInv, SlotInv, HasBooking
<1>5. EquipmentInv'
  BY <1>1 DEF GInv, EquipmentInv, LinesAreMade, EquipmentCounted, IInv, TypeOK
<1> QED BY <1>2, <1>3, <1>4, <1>5 DEF SlotInv

(* The discount uses follow the payments while dead rows stay dead, live   *)
(* ones live, and nothing is paid whose use was given back.                *)
LEMMA DiscountsStay ==
  ASSUME GInv, code' = code,
         \A g \in Groups : Made(g)' = Made(g),
         \A b \in Bookings : status'[b] \in Dead <=> status[b] \in Dead,
         \A g \in Groups :
           /\ code[g] = "released" => pay'[g].status \in {"none", "failed"}
           /\ pay[g].status = "completed" => pay'[g].status = "completed"
  PROVE  DiscountInv'
  BY DEF GInv, DiscountInv, ReleasedHasDead, DiscountFollowsPayment, Made

(* The owner's calendar, the clock and the arena only touch slots nothing  *)
(* active stands on.                                                       *)
LEMMA CalendarG ==
  ASSUME GInv, IInv', UNCHANGED <<status, slotOf, line, avail, code, pay>>,
         past \subseteq past',
         \A s \in Slots :
           slot[s] \in HasBooking \/ slot'[s] \in HasBooking => slot'[s] = slot[s],
         MatchInv'
  PROVE  GInv'
<1>1. \A b \in Indexed(Bookings) : slotOf[b] \in Slots /\ slot[slotOf[b]] \in HasBooking
  BY DEF GInv, IInv, RowsHaveSlots, Indexed, SlotInv, RowsStandOnSlots, Standing, HasBooking
<1>2. SlotInv' /\ EquipmentInv'
  <2>1. \A b \in Indexed(Bookings) : slot'[slotOf[b]] = Standing(status'[b])
    BY <1>1 DEF GInv, SlotInv, RowsStandOnSlots
  <2> QED BY <2>1, RowsStand
<1>3. \A g \in Groups : Made(g)' = Made(g)
  BY DEF Made
<1>4. OpenRowsAlike' /\ ApprovalHasReceipt'
  BY <1>3 DEF GInv, OpenRowsAlike, AllAre, ApprovalHasReceipt, OwnerMayDecide
<1>5. DiscountInv'
  BY <1>3, DiscountsStay DEF GInv, DiscountInv, DiscountFollowsPayment
<1> QED BY <1>2, <1>4, <1>5 DEF GInv

LEMMA CalendarActionsG ==
  ASSUME GInv, IInv',
         \/ \E S \in SUBSET Slots : generate_slots(S)
         \/ \E s \in Slots, v \in SlotStatus : update_slot(s, v)
         \/ \E s \in Slots : delete_slot(s)
         \/ \E s \in Slots : Pass(s)
         \/ reactivate_arena
         \/ \E g \in Groups : create_match(g)
         \/ \E g \in Groups : cancel_match(g)
         \/ UNCHANGED vars
  PROVE  GInv'
<1> USE DEF goods, HasBooking
<1>1. ASSUME UNCHANGED <<status, match>> PROVE MatchInv'
  BY <1>1 DEF GInv, MatchInv, MatchIsMade, MatchHasBooking, Made
<1>2. ASSUME NEW S \in SUBSET Slots, generate_slots(S) PROVE GInv'
  BY <1>1, <1>2, CalendarG DEF generate_slots, SetSlots
<1>3. ASSUME NEW s \in Slots, NEW v \in SlotStatus, update_slot(s, v) PROVE GInv'
  BY <1>1, <1>3, CalendarG DEF update_slot, SetSlots
<1>4. ASSUME NEW s \in Slots, delete_slot(s) PROVE GInv'
  BY <1>1, <1>4, CalendarG DEF delete_slot, SetSlots
<1>5. ASSUME NEW s \in Slots, Pass(s) PROVE GInv'
  BY <1>1, <1>5, CalendarG DEF Pass
<1>6. ASSUME reactivate_arena PROVE GInv'
  BY <1>1, <1>6, CalendarG DEF reactivate_arena
<1>7. ASSUME NEW g \in Groups, create_match(g) PROVE GInv'
  <2>1. MatchInv'
    BY <1>7 DEF create_match, AllAre, GInv, MatchInv, MatchIsMade, MatchHasBooking, Made, IInv, TypeOK
  <2> QED BY <1>7, <2>1, CalendarG DEF create_match
<1>8. ASSUME NEW g \in Groups, cancel_match(g) PROVE GInv'
  <2>1. MatchInv'
    BY <1>8 DEF cancel_match, GInv, MatchInv, MatchIsMade, MatchHasBooking, Made, IInv, TypeOK
  <2> QED BY <1>8, <2>1, CalendarG DEF cancel_match
<1>9. ASSUME UNCHANGED vars PROVE GInv'
  BY <1>1, <1>9, CalendarG DEF vars
<1> QED BY <1>2, <1>3, <1>4, <1>5, <1>6, <1>7, <1>8, <1>9

LEMMA CompleteG ==
  ASSUME GInv, IInv', complete_finished_bookings
  PROVE  GInv'
<1> USE DEF goods
<1>1. /\ \A b \in Bookings : status'[b] = IF b \in Finished THEN "completed" ELSE status[b]
      /\ \A b \in Finished : status[b] = "confirmed"
      /\ UNCHANGED <<arena, past, slot, slotOf, goods, pay, back, moved, match>>
  BY DEF complete_finished_bookings, SetStatus, Finished
<1>2. \A b \in Bookings :
        /\ status'[b] = "none" <=> status[b] = "none"
        /\ status'[b] \in Dead <=> status[b] \in Dead
        /\ Standing(status'[b]) = Standing(status[b])
  BY <1>1 DEF Dead, Standing
<1>3. \A g \in Groups : Made(g)' = Made(g)
  BY <1>2, MadeKept
<1>4. SlotInv' /\ EquipmentInv'
  BY <1>1, <1>2, RowsStand DEF GInv, SlotInv, RowsStandOnSlots, Indexed
<1>5. DiscountInv'
  BY <1>1, <1>2, <1>3, DiscountsStay DEF GInv, DiscountInv, DiscountFollowsPayment
<1>6. OpenRowsAlike' /\ ApprovalHasReceipt' /\ MatchInv'
  BY <1>1, <1>3 DEF GInv, OpenRowsAlike, AllAre, ApprovalHasReceipt, OwnerMayDecide,
     MatchInv, MatchIsMade, MatchHasBooking, Made
<1> QED BY <1>4, <1>5, <1>6 DEF GInv

(* A group that starts to pay has no ended row, so its use is still held.  *)
LEMMA InitiateG ==
  ASSUME GInv, IInv', NEW g \in Groups, NEW m \in Method, initiate_payment(g, m)
  PROVE  GInv'
<1> USE DEF goods
<1>1. /\ \A b \in Made(g) : b \in Bookings /\ GroupOf[b] = g /\ status[b] = "pending_payment"
      /\ pay[g].status \notin {"pending", "completed"}
      /\ pay'[g].status = "pending" /\ pay'[g].receipt = FALSE
      /\ \A h \in Groups : h # g => pay'[h] = pay[h]
      /\ UNCHANGED <<arena, past, slot, status, slotOf, goods, back, moved, match>>
  BY DEF initiate_payment, AllAre, Made, GInv, IInv, TypeOK
<1>2. \A h \in Groups : Made(h)' = Made(h)
  BY <1>1 DEF Made
<1>3. SlotInv' /\ EquipmentInv'
  BY <1>1, RowsStand DEF GInv, SlotInv, RowsStandOnSlots
<1>4. code[g] # "released"
  BY <1>1 DEF GInv, DiscountInv, ReleasedHasDead, Dead
<1>5. DiscountInv'
  BY <1>1, <1>2, <1>4, DiscountsStay DEF GInv, DiscountInv, DiscountFollowsPayment
<1>6. OpenRowsAlike' /\ MatchInv'
  BY <1>1, <1>2 DEF GInv, OpenRowsAlike, AllAre, MatchInv, MatchIsMade, MatchHasBooking
<1>7. ApprovalHasReceipt'
  BY <1>1, GroupAssumption DEF GInv, ApprovalHasReceipt, OwnerMayDecide, Made
<1> QED BY <1>3, <1>5, <1>6, <1>7 DEF GInv

(* Every row of an open payment is still waiting.                          *)
LEMMA OpenRowsWait ==
  ASSUME GInv, NEW g \in Groups, pay[g].status = "pending"
  PROVE  /\ \A b \in Made(g) : /\ b \in Bookings /\ GroupOf[b] = g
                               /\ status[b] \in {"pending_payment", "pending_approval"}
         /\ Made(g) # {}
         /\ code[g] # "released"
         /\ match[g] # "live"
<1>1. \A b \in Made(g) : /\ b \in Bookings /\ GroupOf[b] = g
                         /\ status[b] \in {"pending_payment", "pending_approval"}
  BY DEF GInv, OpenRowsAlike, AllAre, Made
<1>2. Made(g) # {}
  BY DEF GInv, IInv, UnmadeIsFresh, NoPayment
<1> QED BY <1>1, <1>2 DEF GInv, DiscountInv, ReleasedHasDead, Dead, MatchInv, MatchHasBooking

(* Confirming an open payment finds only waiting rows, each on its slot.   *)
LEMMA ConfirmG ==
  ASSUME GInv, IInv', NEW g \in Groups, pay[g].status = "pending", confirm_group(g)
  PROVE  GInv'
<1> USE DEF goods
<1>1. /\ pay' = [pay EXCEPT ![g] = Advanced(pay[g], "completed", "confirmed")]
      /\ \A b \in Bookings : status'[b] = IF b \in Made(g) THEN "confirmed" ELSE status[b]
      /\ \A s \in Slots : slot'[s] = IF s \in SlotsOf(Made(g)) THEN "booked" ELSE slot[s]
      /\ UNCHANGED <<arena, past, slotOf, goods, back, moved, match>>
  BY DEF confirm_group, GroupRows, SetStatus, SetSlots
<1>2. \A b \in Made(g) : /\ b \in Bookings /\ GroupOf[b] = g
                         /\ status[b] \in {"pending_payment", "pending_approval"}
  BY OpenRowsWait
<1>3. /\ pay'[g].status = "completed"
      /\ \A h \in Groups : h # g => pay'[h] = pay[h]
  <2>1. pay[g] \in PaymentRows
    BY MarkedStatus DEF GInv
  <2> QED BY <1>1, <2>1 DEF Advanced, PaymentRows, GInv, IInv, TypeOK
<1>4. \A b \in Bookings :
        /\ status'[b] = "none" <=> status[b] = "none"
        /\ status'[b] \in Dead <=> status[b] \in Dead
  BY <1>1, <1>2 DEF Dead
<1>5. \A h \in Groups : Made(h)' = Made(h)
  BY <1>4, MadeKept
<1>6. \A b \in Indexed(Bookings) : slot'[slotOf[b]] = Standing(status'[b])
  <2> TAKE b \in Indexed(Bookings)
  <2>1. b \in Bookings /\ slotOf[b] \in Slots
    BY DEF GInv, IInv, RowsHaveSlots, Indexed
  <2>2. CASE b \in Made(g)
    BY <1>1, <2>1, <2>2 DEF SlotsOf, Standing
  <2>3. CASE b \notin Made(g)
    <3>1. slotOf[b] \notin SlotsOf(Made(g))
      BY <1>2, <2>3 DEF SlotsOf, GInv, SlotInv, UniqueActiveSlot, Indexed, Dead
    <3> QED BY <1>1, <2>1, <2>3, <3>1 DEF GInv, SlotInv, RowsStandOnSlots
  <2> QED BY <2>2, <2>3
<1>7. \A s \in Slots : slot'[s] \in HasBooking =>
        slot[s] \in HasBooking \/ \E b \in Indexed(Bookings) : slotOf[b] = s
  BY <1>1, <1>2 DEF SlotsOf, Indexed, Dead
<1>8. SlotInv' /\ EquipmentInv'
  BY <1>1, <1>4, <1>6, <1>7, RowsStand
<1>9. DiscountInv'
  <2>1. code[g] # "released"
    BY OpenRowsWait
  <2> QED BY <1>1, <1>3, <1>4, <1>5, <2>1, DiscountsStay DEF GInv, DiscountInv, DiscountFollowsPayment
<1>10. OpenRowsAlike'
  <2> SUFFICES ASSUME NEW h \in Groups, pay'[h].status = "pending", NEW b \in Made(h)
               PROVE  status'[b] = IF pay'[h].receipt THEN "pending_approval" ELSE "pending_payment"
    BY <1>5 DEF OpenRowsAlike, AllAre
  <2>1. h # g /\ pay'[h] = pay[h] /\ b \in Bookings /\ b \notin Made(g)
    BY <1>3 DEF Made
  <2> QED BY <1>1, <2>1 DEF GInv, OpenRowsAlike, AllAre
<1>11. ApprovalHasReceipt'
  BY <1>1, <1>3, GroupAssumption DEF GInv, ApprovalHasReceipt, OwnerMayDecide, Made
<1>12. MatchInv'
  BY <1>1, <1>5 DEF GInv, MatchInv, MatchIsMade, MatchHasBooking, Made
<1> QED BY <1>8, <1>9, <1>10, <1>11, <1>12 DEF GInv

LEMMA UploadG ==
  ASSUME GInv, IInv', NEW g \in Groups, upload_receipt(g)
  PROVE  GInv'
<1> USE DEF goods
<1>1. /\ pay[g].method = "bank_transfer" /\ pay[g].status = "pending"
      /\ pay' = [pay EXCEPT ![g].receipt = TRUE, ![g].life = "pending_approval"]
      /\ \A b \in Bookings : status'[b] = IF b \in Made(g) THEN "pending_approval" ELSE status[b]
      /\ UNCHANGED <<arena, past, slot, slotOf, goods, back, moved, match>>
  BY DEF upload_receipt, GroupRows, SetStatus
<1>2. \A b \in Made(g) : /\ b \in Bookings /\ GroupOf[b] = g
                         /\ status[b] \in {"pending_payment", "pending_approval"}
  BY <1>1, OpenRowsWait
<1>3. /\ pay'[g].status = "pending" /\ pay'[g].receipt
      /\ pay'[g].method = "bank_transfer"
      /\ \A h \in Groups : h # g => pay'[h] = pay[h]
  <2>1. pay[g] \in PaymentRows
    BY <1>1, MarkedStatus DEF GInv
  <2> QED BY <1>1, <2>1 DEF PaymentRows, GInv, IInv, TypeOK
<1>4. \A b \in Bookings :
        /\ status'[b] = "none" <=> status[b] = "none"
        /\ status'[b] \in Dead <=> status[b] \in Dead
        /\ Standing(status'[b]) = Standing(status[b])
  BY <1>1, <1>2 DEF Dead, Standing
<1>5. \A h \in Groups : Made(h)' = Made(h)
  BY <1>4, MadeKept
<1>6. SlotInv' /\ EquipmentInv'
  BY <1>1, <1>4, RowsStand DEF GInv, SlotInv, RowsStandOnSlots, Indexed
<1>7. DiscountInv'
  <2>1. code[g] # "released"
    BY <1>1, OpenRowsWait
  <2> QED BY <1>1, <1>3, <1>4, <1>5, <2>1, DiscountsStay DEF GInv, DiscountInv, DiscountFollowsPayment
<1>8. OpenRowsAlike'
  <2> SUFFICES ASSUME NEW h \in Groups, pay'[h].status = "pending", NEW b \in Made(h)
               PROVE  status'[b] = IF pay'[h].receipt THEN "pending_approval" ELSE "pending_payment"
    BY <1>5 DEF OpenRowsAlike, AllAre
  <2>1. CASE h = g
    BY <1>1, <1>2, <1>3, <2>1
  <2>2. CASE h # g
    <3>1. b \in Bookings /\ b \notin Made(g)
      BY <2>2 DEF Made
    <3> QED BY <1>1, <1>3, <2>2, <3>1 DEF GInv, OpenRowsAlike, AllAre
  <2> QED BY <2>1, <2>2
<1>9. ApprovalHasReceipt'
  BY <1>1, <1>2, <1>3, GroupAssumption DEF GInv, ApprovalHasReceipt, OwnerMayDecide
<1>10. MatchInv'
  <2>1. match[g] # "live"
    BY <1>1, OpenRowsWait
  <2> QED BY <1>1, <1>5, <2>1 DEF GInv, MatchInv, MatchIsMade, MatchHasBooking, Made
<1> QED BY <1>6, <1>7, <1>8, <1>9, <1>10 DEF GInv

-----------------------------------------------------------------------------
(* The handlers that place rows                                            *)

(* Rows moved together stand alike: money captured decides them all, and   *)
(* without it none can be confirmed.                                       *)
LEMMA MovedAlike ==
  ASSUME GInv, NEW g \in Groups, NEW b \in Made(g), NEW c \in Made(g),
         status[b] \in Reschedulable, status[c] \in Reschedulable
  PROVE  /\ status[b] = status[c]
         /\ pay[g].status = "completed" => status[b] = "confirmed"
  BY DEF GInv, IInv, PaidIsDecided, ConfirmedIsPaid, Reschedulable, Made

(* The new slots take over the standing of the first old one, which is the *)
(* standing of every moved row; the slots left behind carry nobody else.   *)
Moving(g, B, f, first, over) ==
  /\ B \subseteq Live(g) /\ first \in B /\ f \in [B -> Slots]
  /\ \A b \in B : status[b] \in Reschedulable
  /\ \E b \in B : slotOf[b] \notin past
  /\ Move(g, f, first, over)
  /\ UNCHANGED <<arena, past, status, goods, match>>
  /\ UniqueActiveSlot'

RowsMoving == \E g \in Groups : \E B, f, first, over : Moving(g, B, f, first, over)

LEMMA RowsMove ==
  ASSUME GInv, IInv', RowsMoving
  PROVE  GInv'
<1>a. PICK g \in Groups : \E B, f, first, over : Moving(g, B, f, first, over)
  BY DEF RowsMoving
<1>b. PICK B, f, first, over : Moving(g, B, f, first, over)
  BY <1>a
<1> USE <1>b DEF Moving
<1> USE DEF goods
<1> DEFINE new == {f[b] : b \in B}
           old == SlotsOf(B)
<1>1. /\ \A s \in Slots :
           slot'[s] = IF s \in new THEN slot[slotOf[first]]
                      ELSE IF s \in old THEN "available" ELSE slot[s]
      /\ \A b \in Bookings : slotOf'[b] = IF b \in B THEN f[b] ELSE slotOf[b]
  BY DEF Move
<1>2. /\ \A h \in Groups : pay'[h].status = pay[h].status
      /\ \A h \in Groups : pay[h].status # "completed" => pay'[h] = pay[h]
  BY MarkedStatus DEF Move, GInv, IInv, TypeOK
<1>3. /\ B \subseteq Made(g)
      /\ B \subseteq Indexed(Bookings)
      /\ \A b \in B : b \in Bookings /\ GroupOf[b] = g
  BY DEF Live, Made, Indexed, Cancellable, Dead
<1>4. \A h \in Groups : Made(h)' = Made(h)
  BY DEF Made
<1>5. Indexed(Bookings)' = Indexed(Bookings)
  BY DEF Indexed
<1>6. \A b \in B : slot[slotOf[first]] = Standing(status[b])
  BY <1>3, MovedAlike DEF GInv, SlotInv, RowsStandOnSlots
<1>7. ASSUME NEW c \in Indexed(Bookings), c \notin B
      PROVE  slotOf[c] \in Slots \ (new \cup old) /\ slotOf'[c] = slotOf[c]
  <2>1. c \in Bookings /\ slotOf[c] \in Slots /\ slotOf'[c] = slotOf[c]
    BY <1>1, <1>7 DEF GInv, IInv, RowsHaveSlots, Indexed
  <2>2. slotOf[c] \notin old
    BY <1>3, <1>7 DEF SlotsOf, GInv, SlotInv, UniqueActiveSlot
  <2>3. slotOf[c] \notin new
    BY <1>1, <1>3, <1>5, <1>7, <2>1 DEF UniqueActiveSlot
  <2> QED BY <2>1, <2>2, <2>3
<1> HIDE DEF new, old
<1>8. RowsStandOnSlots'
  <2> SUFFICES ASSUME NEW c \in Indexed(Bookings)
               PROVE  slot'[slotOf'[c]] = Standing(status[c])
    BY <1>5 DEF RowsStandOnSlots
  <2>1. CASE c \in B
    <3>1. slotOf'[c] \in new /\ slotOf'[c] \in Slots
      BY <1>1, <1>3, <2>1 DEF new
    <3> QED BY <1>1, <1>6, <2>1, <3>1
  <2>2. CASE c \notin B
    BY <1>1, <1>7, <2>2 DEF GInv, SlotInv, RowsStandOnSlots
  <2> QED BY <2>1, <2>2
<1>9. TakenSlotsHaveRows'
  <2> SUFFICES ASSUME NEW s \in Slots, slot'[s] \in HasBooking
               PROVE  \E b \in Indexed(Bookings) : slotOf'[b] = s
    BY <1>5 DEF TakenSlotsHaveRows, HasBooking
  <2>1. CASE s \in new
    BY <1>1, <1>3, <2>1 DEF new
  <2>2. CASE s \notin new
    <3>1. s \notin old /\ slot[s] \in HasBooking
      BY <1>1, <2>2 DEF HasBooking
    <3>2. PICK c \in Indexed(Bookings) : slotOf[c] = s
      BY <3>1 DEF GInv, SlotInv, TakenSlotsHaveRows
    <3>3. c \notin B
      BY <3>1, <3>2 DEF old, SlotsOf
    <3> QED BY <1>7, <3>2, <3>3
  <2> QED BY <2>1, <2>2
<1>10. EquipmentInv'
  BY <1>5 DEF GInv, EquipmentInv, LinesAreMade, EquipmentCounted
<1>11. OpenRowsAlike' /\ DiscountInv' /\ MatchInv'
  BY <1>2, <1>4 DEF GInv, OpenRowsAlike, AllAre, DiscountInv, ReleasedHasDead,
     DiscountFollowsPayment, MatchInv, MatchIsMade, MatchHasBooking
<1>12. ApprovalHasReceipt'
  <2> SUFFICES ASSUME NEW b \in Bookings, status[b] = "pending_approval", slotOf'[b] \notin past
               PROVE  OwnerMayDecide(GroupOf[b])'
    BY DEF ApprovalHasReceipt
  <2>1. GroupOf[b] \in Groups /\ b \in Made(GroupOf[b])
    BY GroupAssumption DEF Made
  <2>2. pay[GroupOf[b]].status # "completed"
    BY <2>1 DEF GInv, IInv, PaidIsDecided
  <2>3. OwnerMayDecide(GroupOf[b])
    <3>1. CASE b \in B
      <4>1. PICK c \in B : slotOf[c] \notin past
        OBVIOUS
      <4>2. status[c] = "pending_approval" /\ GroupOf[c] = GroupOf[b] /\ c \in Bookings
        BY <1>3, <3>1, MovedAlike
      <4> QED BY <4>1, <4>2 DEF GInv, ApprovalHasReceipt
    <3>2. CASE b \notin B
      BY <1>1, <3>2 DEF GInv, ApprovalHasReceipt
    <3> QED BY <3>1, <3>2
  <2> QED BY <1>2, <2>1, <2>2, <2>3 DEF OwnerMayDecide
<1> QED BY <1>8, <1>9, <1>10, <1>11, <1>12 DEF GInv, SlotInv

LEMMA RescheduleMoves ==
  ASSUME Reschedule
  PROVE  RowsMoving
<1>1. PICK g \in Groups :
        \E f \in Injections(Live(g), Slots), first \in Live(g), over \in Overpaid :
          reschedule_group(g, f, first, over)
  BY DEF Reschedule
<1>2. PICK f \in Injections(Live(g), Slots), first \in Live(g), over \in Overpaid :
        reschedule_group(g, f, first, over)
  BY <1>1
<1>3. f \in [Live(g) -> Slots]
  BY DEF Injections
<1>4. /\ Live(g) # {}
      /\ NotStarted(Live(g))
      /\ \A b \in Live(g) : status[b] \in Reschedulable
      /\ Move(g, f, first, over)
      /\ UNCHANGED <<arena, past, status, goods, match>>
      /\ UniqueActiveSlot'
  BY <1>2 DEF reschedule_group
<1>5. \E b \in Live(g) : slotOf[b] \notin past
  BY <1>4 DEF NotStarted
<1>6. Moving(g, Live(g), f, first, over)
  BY <1>3, <1>4, <1>5 DEF Moving
<1> QED BY <1>1, <1>6 DEF RowsMoving

LEMMA RescheduleBookingMoves ==
  ASSUME NEW b \in Bookings, NEW s \in Slots, NEW over \in Overpaid,
         reschedule_booking(b, s, over)
  PROVE  RowsMoving
<1>1. GroupOf[b] \in Groups /\ {b} \subseteq Live(GroupOf[b])
  BY GroupAssumption DEF reschedule_booking, Live, Made, Reschedulable, Cancellable
<1>2. [c \in {b} |-> s] \in [{b} -> Slots]
  OBVIOUS
<1>3. /\ Move(GroupOf[b], [c \in {b} |-> s], b, over)
      /\ status[b] \in Reschedulable /\ slotOf[b] \notin past
      /\ UNCHANGED <<arena, past, status, goods, match>>
      /\ UniqueActiveSlot'
  BY DEF reschedule_booking
<1>6. Moving(GroupOf[b], {b}, [c \in {b} |-> s], b, over)
  BY <1>1, <1>2, <1>3 DEF Moving
<1> QED BY <1>1, <1>6 DEF RowsMoving

(* A checkout takes free slots for rows that were not there, and its line  *)
(* goes to one of them.                                                    *)
LEMMA CreateG ==
  ASSUME GInv, IInv', CreateBooking
  PROVE  GInv'
<1>a. PICK g \in Groups :
        \E B \in (SUBSET {b \in Bookings : GroupOf[b] = g}) \ {{}} :
          \E f \in Injections(B, Slots), lead \in B, rent, coupon \in BOOLEAN :
            create_booking(g, f, lead, rent, coupon)
  BY DEF CreateBooking
<1>b. PICK B \in (SUBSET {b \in Bookings : GroupOf[b] = g}) \ {{}} :
        \E f \in Injections(B, Slots), lead \in B, rent, coupon \in BOOLEAN :
          create_booking(g, f, lead, rent, coupon)
  BY <1>a
<1>c. PICK f \in Injections(B, Slots), lead \in B, rent \in BOOLEAN, coupon \in BOOLEAN :
        create_booking(g, f, lead, rent, coupon)
  BY <1>b
<1>1. /\ B \subseteq Bookings /\ B # {} /\ \A b \in B : GroupOf[b] = g
      /\ f \in [B -> Slots] /\ DOMAIN f = B
  BY <1>b, <1>c DEF Injections
<1>2. /\ Made(g) = {}
      /\ rent => avail > 0
      /\ \A b \in B : slot[f[b]] = "available"
      /\ slot' = SetSlots({f[b] : b \in B}, "reserved")
      /\ status' = SetStatus(B, "pending_payment")
      /\ \A b \in Bookings : slotOf'[b] = IF b \in B THEN f[b] ELSE slotOf[b]
      /\ UniqueActiveSlot'
      /\ line' = IF rent THEN line \cup {lead} ELSE line
      /\ avail' = IF rent THEN avail - 1 ELSE avail
      /\ code' = [code EXCEPT ![g] = IF coupon THEN "held" ELSE @]
      /\ UNCHANGED <<arena, past, pay, back, moved, match>>
  BY <1>c, <1>1 DEF create_booking
<1>3. /\ \A b \in Bookings : status'[b] = IF b \in B THEN "pending_payment" ELSE status[b]
      /\ \A s \in Slots : slot'[s] = IF s \in {f[b] : b \in B} THEN "reserved" ELSE slot[s]
  BY <1>2 DEF SetStatus, SetSlots
<1>4. \A b \in B : status[b] = "none" /\ b \notin Indexed(Bookings)
  BY <1>1, <1>2 DEF Made, Indexed
<1>5. Indexed(Bookings)' = Indexed(Bookings) \cup B
  BY <1>1, <1>3 DEF Indexed, Dead
<1>6. /\ \A h \in Groups : h # g => Made(h)' = Made(h)
      /\ Made(g)' = B
  BY <1>1, <1>2, <1>3 DEF Made
<1>7. /\ pay[g] = NoPayment /\ code[g] = "none" /\ match[g] # "live"
  BY <1>2 DEF GInv, IInv, UnmadeIsFresh, MatchInv, MatchIsMade
<1>8. RowsStandOnSlots'
  <2> SUFFICES ASSUME NEW c \in Indexed(Bookings) \cup B
               PROVE  slot'[slotOf'[c]] = Standing(status'[c])
    BY <1>5 DEF RowsStandOnSlots
  <2>1. CASE c \in B
    BY <1>1, <1>2, <1>3, <2>1 DEF Standing
  <2>2. CASE c \notin B
    <3>1. c \in Bookings /\ c \in Indexed(Bookings) /\ slotOf'[c] = slotOf[c] /\ slotOf[c] \in Slots
      BY <1>2, <2>2 DEF GInv, IInv, RowsHaveSlots, Indexed
    <3>2. slot[slotOf[c]] \in HasBooking
      BY <3>1 DEF GInv, SlotInv, RowsStandOnSlots, Standing, HasBooking
    <3>3. slotOf[c] \notin {f[b] : b \in B}
      BY <1>2, <3>2 DEF HasBooking
    <3> QED BY <1>3, <2>2, <3>1, <3>3 DEF GInv, SlotInv, RowsStandOnSlots
  <2> QED BY <2>1, <2>2
<1>9. TakenSlotsHaveRows'
  <2> SUFFICES ASSUME NEW s \in Slots, slot'[s] \in HasBooking
               PROVE  \E b \in Indexed(Bookings) \cup B : slotOf'[b] = s
    BY <1>5 DEF TakenSlotsHaveRows, HasBooking
  <2>1. CASE s \in {f[b] : b \in B}
    BY <1>1, <1>2, <2>1
  <2>2. CASE s \notin {f[b] : b \in B}
    <3>1. PICK c \in Indexed(Bookings) : slotOf[c] = s
      BY <1>3, <2>2 DEF GInv, SlotInv, TakenSlotsHaveRows
    <3> QED BY <1>2, <1>4, <3>1 DEF Indexed
  <2> QED BY <2>1, <2>2
<1>10. EquipmentInv'
  <2> DEFINE H == line \cap Indexed(Bookings)
             N == (line \cap Indexed(Bookings))'
  <2>1. lead \in B /\ lead \notin H
    BY <1>4
  <2>2. N = IF rent THEN H \cup {lead} ELSE H
    BY <1>2, <1>4, <1>5, <2>1 DEF GInv, EquipmentInv, LinesAreMade
  <2>3. IsFiniteSet(H) /\ Cardinality(H) \in Nat
    <3>1. H \subseteq Bookings
      BY DEF Indexed
    <3> QED BY <3>1, RowsFinite
  <2>4. avail + Cardinality(H) = Stock /\ avail \in Nat
    BY LimitAssumption DEF GInv, EquipmentInv, EquipmentCounted, IInv, TypeOK
  <2>5. LinesAreMade'
    BY <1>1, <1>2, <1>3, <2>1 DEF GInv, EquipmentInv, LinesAreMade, IInv, TypeOK
  <2> HIDE DEF H, N
  <2>6. avail' + Cardinality(N) = Stock
    <3>1. Cardinality(H \cup {lead}) = Cardinality(H) + 1
      BY <2>1, <2>3, FS_AddElement
    <3> QED BY <1>2, <2>2, <2>3, <2>4, <3>1
  <2> QED BY <2>5, <2>6 DEF EquipmentInv, EquipmentCounted, N
<1>11. OpenRowsAlike'
  <2> SUFFICES ASSUME NEW h \in Groups, pay[h].status = "pending", NEW b \in Made(h)'
               PROVE  status'[b] = IF pay[h].receipt THEN "pending_approval" ELSE "pending_payment"
    BY <1>2 DEF OpenRowsAlike, AllAre
  <2>1. h # g
    BY <1>7 DEF NoPayment
  <2>2. b \in Made(h) /\ b \in Bookings /\ b \notin B
    BY <1>1, <1>6, <2>1 DEF Made
  <2> QED BY <1>3, <2>2 DEF GInv, OpenRowsAlike, AllAre
<1>12. ApprovalHasReceipt'
  BY <1>2, <1>3 DEF GInv, ApprovalHasReceipt, OwnerMayDecide
<1>13. DiscountInv'
  <2>1. code'[g] # "released" /\ \E b \in B : status'[b] \notin Dead
    BY <1>1, <1>2, <1>3, <1>7 DEF Dead, GInv, IInv, TypeOK
  <2>2. \A h \in Groups : h # g => code'[h] = code[h] /\ \A b \in Made(h) : status'[b] = status[b]
    BY <1>1, <1>2, <1>3 DEF Made, GInv, IInv, TypeOK
  <2>3. ReleasedHasDead'
    BY <1>6, <2>1, <2>2 DEF GInv, DiscountInv, ReleasedHasDead
  <2>4. DiscountFollowsPayment'
    BY <1>2, <1>6, <2>1, <2>2 DEF GInv, DiscountInv, DiscountFollowsPayment
  <2> QED BY <2>3, <2>4 DEF DiscountInv
<1>14. MatchInv'
  <2> SUFFICES ASSUME NEW h \in Groups, match[h] = "live"
               PROVE  /\ Made(h)' # {}
                      /\ \A b \in Made(h)' : status'[b] \in {"confirmed", "completed"}
    BY <1>2 DEF MatchInv, MatchIsMade, MatchHasBooking
  <2>1. h # g
    BY <1>7
  <2>2. \A b \in Made(h) : b \in Bookings /\ b \notin B
    BY <1>1, <2>1 DEF Made
  <2> QED BY <1>3, <1>6, <2>1, <2>2 DEF GInv, MatchInv, MatchIsMade, MatchHasBooking
<1> QED BY <1>2, <1>8, <1>9, <1>10, <1>11, <1>12, <1>13, <1>14 DEF GInv, SlotInv

-----------------------------------------------------------------------------
(* The inductive invariant                                                 *)

LEMMA InitG == Init => GInv
<1> SUFFICES ASSUME Init PROVE GInv
  OBVIOUS
<1>1. IInv
  BY InitEstablishes
<1> USE DEF Init
<1>2. Indexed(Bookings) = {} /\ \A g \in Groups : Made(g) = {}
  BY DEF Indexed, Made
<1>3. SlotInv
  BY <1>2 DEF SlotInv, UniqueActiveSlot, RowsStandOnSlots, TakenSlotsHaveRows, HasBooking
<1>4. EquipmentInv
  <2>1. line \cap Indexed(Bookings) = {}
    OBVIOUS
  <2> QED BY <2>1, FS_EmptySet, LimitAssumption DEF EquipmentInv, LinesAreMade, EquipmentCounted
<1>5. OpenRowsAlike /\ ApprovalHasReceipt /\ DiscountInv /\ MatchInv
  BY <1>2 DEF OpenRowsAlike, AllAre, ApprovalHasReceipt, DiscountInv, ReleasedHasDead,
     DiscountFollowsPayment, MatchInv, MatchIsMade, MatchHasBooking
<1> QED BY <1>1, <1>3, <1>4, <1>5 DEF GInv

LEMMA StepG ==
  ASSUME EndsByGroup, GInv, [Next]_vars
  PROVE  GInv'
<1>a. IInv'
  BY StepKeeps DEF GInv
<1>1. CASE Owner
  <2>1. ASSUME NEW g \in Groups, approve_bank_transfer(g) PROVE GInv'
    BY <1>a, <2>1, ConfirmG DEF approve_bank_transfer, OwnerMayDecide
  <2>2. ASSUME NEW g \in Groups, reject_bank_transfer(g) PROVE GInv'
    BY <1>a, <2>2, FailEnds, RowsEnd DEF reject_bank_transfer, OwnerMayDecide, Dead
  <2> QED BY <1>1, <1>a, <2>1, <2>2, CalendarActionsG DEF Owner
<1>2. CASE Player
  <2>1. \A b \in Bookings : \A tier \in Tiers : ~cancel_booking(b, tier)
    BY DEF cancel_booking, EndsByGroup
  <2> QED BY <1>2, <1>a, <2>1, CreateG, InitiateG, UploadG, ReleaseGroupEnds,
       CancelGroupEnds, RowsEnd, RescheduleMoves, RescheduleBookingMoves, RowsMove,
       CalendarActionsG DEF Player
<1>3. CASE Admin
  <2>1. \A b \in Bookings : ~force_refund(b)
    BY DEF force_refund, EndsByGroup
  <2> QED BY <1>3, <1>a, <2>1, CloseArenaEnds, RowsEnd, CalendarActionsG DEF Admin
<1>4. CASE Gateway
  <2>1. PICK g \in Groups, completed \in BOOLEAN : handle_webhook(g, completed)
    BY <1>4 DEF Gateway
  <2>2. pay[g].status = "pending"
    BY <2>1 DEF handle_webhook
  <2>3. CASE completed
    BY <1>a, <2>1, <2>2, <2>3, ConfirmG DEF handle_webhook
  <2>4. CASE ~completed
    BY <1>a, <2>1, <2>2, <2>4, FailEnds, RowsEnd DEF handle_webhook, Dead
  <2> QED BY <2>3, <2>4
<1>5. CASE Sweep
  BY <1>5, <1>a, AutoCancelEnds, RowsEnd DEF Sweep
<1>6. CASE complete_finished_bookings
  BY <1>6, <1>a, CompleteG
<1>7. CASE Clock
  BY <1>7, <1>a, CalendarActionsG DEF Clock
<1>8. CASE UNCHANGED vars
  BY <1>8, <1>a, CalendarActionsG
<1> QED BY <1>1, <1>2, <1>3, <1>4, <1>5, <1>6, <1>7, <1>8 DEF Next

LEMMA InductiveG ==
  ASSUME EndsByGroup
  PROVE  Spec => []GInv
  BY InitG, StepG, PTL DEF Spec

-----------------------------------------------------------------------------
(* The calendar tells the truth about every hour: held, sold or free, and  *)
(* never two active rows on one.                                           *)
THEOREM CalendarTellsTheTruth ==
  ASSUME EndsByGroup
  PROVE  Spec => []SlotsAgree
<1>1. GInv => SlotsAgree
  <2> SUFFICES ASSUME GInv, NEW s \in Slots
               PROVE  LET on == {b \in Indexed(Bookings) : slotOf[b] = s}
                      IN /\ Cardinality(on) <= 1
                         /\ slot[s] = "reserved" <=>
                              \E b \in on : status[b] \in {"pending_payment", "pending_approval"}
                         /\ slot[s] = "booked" <=>
                              \E b \in on : status[b] \in {"confirmed", "completed"}
    BY DEF SlotsAgree
  <2> DEFINE on == {b \in Indexed(Bookings) : slotOf[b] = s}
  <2>1. Cardinality(on) <= 1
    <3>1. CASE on = {}
      BY <3>1, FS_EmptySet
    <3>2. CASE on # {}
      <4>1. PICK b \in on : TRUE
        BY <3>2
      <4>2. on = {b}
        BY <4>1 DEF GInv, SlotInv, UniqueActiveSlot
      <4>3. Cardinality({b}) = 1
        BY FS_Singleton
      <4>4. Cardinality(on) = 1
        BY <4>2, <4>3, Zenon
      <4> HIDE DEF on
      <4> QED BY <4>4
    <3> QED BY <3>1, <3>2
  <2>2. \A b \in on : /\ status[b] \in BookingStatus \ Dead
                      /\ slot[s] = Standing(status[b])
    BY DEF Indexed, GInv, SlotInv, RowsStandOnSlots, IInv, TypeOK
  <2>3. slot[s] \in {"reserved", "booked"} => on # {}
    BY DEF GInv, SlotInv, TakenSlotsHaveRows, HasBooking
  <2>4. \A v \in BookingStatus \ Dead :
          /\ Standing(v) = "reserved" <=> v \in {"pending_payment", "pending_approval"}
          /\ Standing(v) = "booked" <=> v \in {"confirmed", "completed"}
    BY DEF Standing, BookingStatus, Dead
  <2> HIDE DEF on
  <2>5. /\ slot[s] = "reserved" <=>
             \E b \in on : status[b] \in {"pending_payment", "pending_approval"}
        /\ slot[s] = "booked" <=> \E b \in on : status[b] \in {"confirmed", "completed"}
    BY <2>2, <2>3, <2>4
  <2> QED BY <2>1, <2>5 DEF on
<1> QED BY <1>1, InductiveG, PTL

(* Every way an unpaid group ends closes its payment too: a late capture   *)
(* never finds an open payment whose hours were given back.                *)
THEOREM OpenPaymentsWait ==
  ASSUME EndsByGroup
  PROVE  Spec => []OpenPaymentHasBooking
<1>1. GInv => OpenPaymentHasBooking
  BY DEF GInv, OpenRowsAlike, AllAre, OpenPaymentHasBooking
<1> QED BY <1>1, InductiveG, PTL

(* What awaits the owner can be decided, until its hour is over.           *)
THEOREM ApprovalsCanBeDecided ==
  ASSUME EndsByGroup
  PROVE  Spec => []ApprovalHasReceipt
<1>1. GInv => ApprovalHasReceipt
  BY DEF GInv
<1> QED BY <1>1, InductiveG, PTL

(* Unpaid groups that ended gave their discount use back, paid ones kept   *)
(* it.                                                                     *)
THEOREM UsesFollowPayments ==
  ASSUME EndsByGroup
  PROVE  Spec => []DiscountFollowsPayment
<1>1. GInv => DiscountFollowsPayment
  BY DEF GInv, DiscountInv
<1> QED BY <1>1, InductiveG, PTL

(* No unit of equipment is lost or counted twice.                          *)
THEOREM EquipmentIsCounted ==
  ASSUME EndsByGroup
  PROVE  Spec => []EquipmentCounted
<1>1. GInv => EquipmentCounted
  BY DEF GInv, EquipmentInv
<1> QED BY <1>1, InductiveG, PTL

(* A match that is on has its booking.                                     *)
THEOREM MatchesAreBooked ==
  ASSUME EndsByGroup
  PROVE  Spec => []MatchHasBooking
<1>1. GInv => MatchHasBooking
  BY DEF GInv, MatchInv
<1> QED BY <1>1, InductiveG, PTL

(* CANCELLED and REJECTED have no way out: the handlers that write rows    *)
(* without looking at them only meet open payments, whose rows all wait.   *)
THEOREM DeadRowsStayDead ==
  ASSUME EndsByGroup
  PROVE  Spec => DeadStaysDead
<1> DEFINE A == \A b \in Bookings : status[b] \in Dead => status'[b] = status[b]
<1>1. ASSUME GInv, [Next]_vars
      PROVE  [A]_vars
  <2> SUFFICES ASSUME Next, NEW b \in Bookings, status[b] \in Dead
               PROVE  status'[b] = status[b]
    BY <1>1
  <2> USE DEF Dead
  <2>1. \A g \in Groups : b \notin Live(g)
    BY DEF Live, Cancellable
  <2>2. \A g \in Groups : b \in Made(g) => pay[g].status # "pending" /\ ~AwaitsPayment(g)
    BY <1>1, OpenRowsWait DEF AwaitsPayment, AllAre
  <2>3. ASSUME NEW g \in Groups, pay[g].status = "pending",
               confirm_group(g) \/ upload_receipt(g) \/ \E life, to : fail_group(g, life, to)
        PROVE  status'[b] = status[b]
    BY <2>2, <2>3, OnlyLiveRowsEnd DEF confirm_group, upload_receipt, fail_group, GroupRows
  <2>4. CASE Owner
    BY <2>3, <2>4 DEF Owner, generate_slots, update_slot, delete_slot, OwnerMayDecide,
       approve_bank_transfer, reject_bank_transfer
  <2>5. CASE Player
    <3>1. CASE CreateBooking
      <4>1. PICK g \in Groups :
              \E B \in (SUBSET {c \in Bookings : GroupOf[c] = g}) \ {{}} :
                \E f \in Injections(B, Slots), lead \in B, rent, coupon \in BOOLEAN :
                  create_booking(g, f, lead, rent, coupon)
        BY <3>1 DEF CreateBooking
      <4>2. PICK B \in (SUBSET {c \in Bookings : GroupOf[c] = g}) \ {{}} :
              \E f \in Injections(B, Slots), lead \in B, rent, coupon \in BOOLEAN :
                create_booking(g, f, lead, rent, coupon)
        BY <4>1
      <4>3. Made(g) = {} /\ status' = SetStatus(B, "pending_payment")
        BY <4>2 DEF create_booking, Injections
      <4>4. b \notin B
        BY <4>2, <4>3 DEF Made
      <4> QED BY <4>3, <4>4, OnlyLiveRowsEnd
    <3>2. ASSUME NEW g \in Groups, upload_receipt(g) PROVE status'[b] = status[b]
      BY <2>3, <3>2 DEF upload_receipt
    <3>3. ASSUME NEW g \in Groups, release_group(g) PROVE status'[b] = status[b]
      BY <2>2, <3>3, OnlyLiveRowsEnd DEF release_group, apply_cancellation
    <3>4. ASSUME NEW g \in Groups, NEW tier \in Tiers, cancel_group(g, tier)
          PROVE  status'[b] = status[b]
      BY <2>1, <3>4, OnlyLiveRowsEnd DEF cancel_group, apply_cancellation
    <3>5. ASSUME NEW c \in Bookings, NEW tier \in Tiers, cancel_booking(c, tier)
          PROVE  status'[b] = status[b]
      BY <3>5, OnlyLiveRowsEnd DEF cancel_booking, apply_cancellation, Cancellable
    <3>6. CASE Reschedule
      BY <3>6 DEF Reschedule, reschedule_group
    <3>7. ASSUME NEW g \in Groups,
                 \/ \E m \in Method : initiate_payment(g, m)
                 \/ create_match(g)
                 \/ cancel_match(g)
          PROVE  status'[b] = status[b]
      BY <3>7 DEF initiate_payment, create_match, cancel_match
    <3>8. ASSUME NEW c \in Bookings, NEW s \in Slots, NEW over \in Overpaid,
                 reschedule_booking(c, s, over)
          PROVE  status'[b] = status[b]
      BY <3>8 DEF reschedule_booking
    <3> QED BY <2>5, <3>1, <3>2, <3>3, <3>4, <3>5, <3>6, <3>7, <3>8 DEF Player
  <2>6. CASE Admin
    <3>1. ASSUME NEW to \in {"suspended", "removed"}, close_arena(to)
          PROVE  status'[b] = status[b]
      BY <2>1, <3>1 DEF close_arena, apply_cancellation, SetStatus
    <3>2. ASSUME NEW c \in Bookings, force_refund(c) PROVE status'[b] = status[b]
      BY <3>2 DEF force_refund, SetStatus
    <3> QED BY <2>6, <3>1, <3>2 DEF Admin, reactivate_arena
  <2>7. CASE Gateway
    <3>1. PICK g \in Groups, completed \in BOOLEAN : handle_webhook(g, completed)
      BY <2>7 DEF Gateway
    <3>2. pay[g].status = "pending" /\ (confirm_group(g) \/ fail_group(g, "failed", "cancelled"))
      BY <3>1 DEF handle_webhook
    <3> QED BY <2>3, <3>2
  <2>8. CASE Sweep
    <3>1. PICK G \in SUBSET Groups : auto_cancel_stale_bookings(G)
      BY <2>8 DEF Sweep
    <3> QED BY <3>1, OnlyLiveRowsEnd DEF auto_cancel_stale_bookings, Stale
  <2>9. CASE complete_finished_bookings
    BY <2>9, OnlyLiveRowsEnd DEF complete_finished_bookings, Finished
  <2>10. CASE Clock
    BY <2>10 DEF Clock, Pass
  <2> QED BY <2>4, <2>5, <2>6, <2>7, <2>8, <2>9, <2>10 DEF Next
<1> QED BY <1>1, InductiveG, PTL DEF Spec, DeadStaysDead

-----------------------------------------------------------------------------
(* The calendar: with GInv, which keeps active rows on hours of their own  *)
(* and payments in step with the rows, every step of the engine is one     *)
(* step of CourtCalendar or leaves it as it is.                            *)

owners == [s \in Slots |-> OwnerOf(s)]
phases == [g \in Groups |-> Phase(g)]

Stands(g) == Indexed(Made(g))

-----------------------------------------------------------------------------
(* Reading the calendar off the bookings                                   *)

(* At most one active row stands on an hour, so the hour's owner is        *)
(* whatever active row is found on it.                                     *)
LEMMA OwnerFound ==
  ASSUME UniqueActiveSlot
  PROVE  \A s \in Slots :
           /\ \A b \in Indexed(Bookings) : slotOf[b] = s => OwnerOf(s) = GroupOf[b]
           /\ (\A b \in Indexed(Bookings) : slotOf[b] # s) => OwnerOf(s) = NoSlot
<1> TAKE s \in Slots
<1>1. ASSUME NEW b \in Indexed(Bookings), slotOf[b] = s
      PROVE  OwnerOf(s) = GroupOf[b]
  <2>1. On(s) = {b}
    BY <1>1 DEF On, UniqueActiveSlot
  <2> QED BY <2>1 DEF OwnerOf
<1> QED BY <1>1 DEF OwnerOf, On

(* The same in the next state.                                             *)
LEMMA OwnerFoundNext ==
  ASSUME UniqueActiveSlot'
  PROVE  \A s \in Slots :
           /\ \A b \in Indexed(Bookings)' : slotOf'[b] = s => OwnerOf(s)' = GroupOf[b]
           /\ (\A b \in Indexed(Bookings)' : slotOf'[b] # s) => OwnerOf(s)' = NoSlot
<1> TAKE s \in Slots
<1>1. ASSUME NEW b \in Indexed(Bookings)', slotOf'[b] = s
      PROVE  OwnerOf(s)' = GroupOf[b]
  <2>1. On(s)' = {b}
    BY <1>1 DEF On, UniqueActiveSlot
  <2> QED BY <2>1 DEF OwnerOf
<1> QED BY <1>1 DEF OwnerOf, On

(* The hours a group has are those of its active rows, one each.           *)
LEMMA OwnHours ==
  ASSUME GInv, NEW g \in Groups
  PROVE  /\ Calendar!Own(g) = SlotsOf(Stands(g))
         /\ Stands(g) = {b \in Indexed(Bookings) : GroupOf[b] = g}
<1>1. Stands(g) = {b \in Indexed(Bookings) : GroupOf[b] = g}
  BY DEF Stands, Indexed, Made
<1>2. \A b \in Indexed(Bookings) : slotOf[b] \in Slots /\ GroupOf[b] \in Groups
  BY GroupAssumption DEF Indexed, GInv, IInv, RowsHaveSlots
<1>3. \A s \in Slots : owners[s] = OwnerOf(s)
  BY DEF owners
<1>4. Calendar!Own(g) = {s \in Slots : OwnerOf(s) = g}
  BY DEF Calendar!Own
<1>5. \A s \in Slots : OwnerOf(s) = g <=> \E b \in Stands(g) : slotOf[b] = s
  BY <1>1, OwnerFound, NobodyAssumption DEF GInv, SlotInv
<1> QED BY <1>1, <1>2, <1>4, <1>5 DEF SlotsOf

(* The instance counts as this module does.                                *)
LEMMA SameCount ==
  ASSUME NEW S
  PROVE  Calendar!Cardinality(S) = Cardinality(S)
  BY DEF Cardinality, Calendar!Cardinality

LEMMA OneHourEach ==
  ASSUME NEW B, IsFiniteSet(B), NEW h,
         \A b, c \in B : h[b] = h[c] => b = c
  PROVE  Cardinality({h[b] : b \in B}) = Cardinality(B)
<1> DEFINE T == {h[b] : b \in B}
           F == [b \in B |-> h[b]]
<1>1. F \in [B -> T] /\ (\A b, c \in B : F[b] = F[c] => b = c) /\ \A t \in T : \E b \in B : F[b] = t
  OBVIOUS
<1>2. F \in Bijection(B, T)
  BY <1>1 DEF Bijection, Injection, Surjection, IsInjective
<1>3. ExistsBijection(B, T)
  BY <1>2 DEF ExistsBijection
<1> QED BY <1>3, FS_Bijection

-----------------------------------------------------------------------------
(* Steps of the engine                                                     *)

(* The rows of every group stand where they stood.                         *)
Still ==
  /\ Indexed(Bookings)' = Indexed(Bookings)
  /\ UNCHANGED slotOf
  /\ \A g \in Groups : Made(g)' = Made(g)
  /\ \A g \in Groups : pay'[g].status = "completed" <=> pay[g].status = "completed"

LEMMA StillIsStutter ==
  ASSUME Still
  PROVE  UNCHANGED <<owners, phases>>
<1>1. \A s \in Slots : OwnerOf(s)' = OwnerOf(s)
  BY DEF OwnerOf, On, Still
<1>2. \A g \in Groups : Indexed(Made(g))' = Indexed(Made(g))
  BY DEF Indexed, Made, Still
<1>3. \A g \in Groups : Phase(g)' = Phase(g)
  BY <1>2 DEF Phase, Still
<1> QED BY <1>1, <1>3 DEF owners, phases

(* Rows that end give back their hours.                                    *)
LEMMA EndingGivesBack ==
  ASSUME GInv, GInv', RowsEnding
  PROVE  \E S \in SUBSET Slots : Calendar!GiveBack(S)
<1>0. PICK B, v, G : Ending(B, v, G)
  BY DEF RowsEnding
<1>1. /\ B \subseteq Indexed(Bookings)
      /\ \A b \in Bookings : status'[b] = IF b \in B THEN v ELSE status[b]
      /\ v \in Dead
      /\ slotOf' = slotOf
  BY <1>0 DEF Ending, SetStatus
<1>2. Indexed(Bookings)' = Indexed(Bookings) \ B
  BY <1>1 DEF Indexed
<1>3. \A g \in Groups : Made(g)' = Made(g)
  <2>1. \A b \in Bookings : status'[b] = "none" <=> status[b] = "none"
    BY <1>1 DEF Indexed, Dead
  <2> QED BY <2>1, MadeKept
<1>4. \A g \in Groups : pay'[g].status = "completed" <=> pay[g].status = "completed"
  <2>1. \A g \in Groups : pay[g].status \in {"completed"} \cup UnpaidStatus
    BY DEF GInv, IInv, TypeOK, PaymentsGood, PaymentGood, PaymentRows, PaymentStatus,
       NoPayment, UnpaidStatus
  <2> QED BY <1>0, <2>1 DEF Ending
<1>5. \A b \in Indexed(Bookings) : slotOf[b] \in Slots /\ GroupOf[b] \in Groups
  BY GroupAssumption DEF Indexed, GInv, IInv, RowsHaveSlots
<1> DEFINE S == SlotsOf(B)
<1>6. S \subseteq Slots /\ \A s \in S : OwnerOf(s) # NoSlot
  <2> SUFFICES ASSUME NEW b \in B PROVE slotOf[b] \in Slots /\ OwnerOf(slotOf[b]) # NoSlot
    BY DEF SlotsOf
  <2>1. b \in Indexed(Bookings)
    BY <1>1
  <2>2. OwnerOf(slotOf[b]) = GroupOf[b]
    BY <1>5, <2>1, OwnerFound DEF GInv, SlotInv
  <2> QED BY <1>5, <2>1, <2>2, NobodyAssumption
<1>7. \A s \in Slots : OwnerOf(s)' = IF s \in S THEN NoSlot ELSE OwnerOf(s)
  <2> TAKE s \in Slots
  <2>1. CASE s \in S
    <3>1. PICK b \in B : slotOf[b] = s
      BY <2>1 DEF SlotsOf
    <3>2. \A c \in Indexed(Bookings) \ B : slotOf[c] # s
      BY <1>1, <3>1 DEF GInv, SlotInv, UniqueActiveSlot
    <3> QED BY <1>1, <1>2, <2>1, <3>2, OwnerFoundNext DEF GInv, SlotInv
  <2>2. CASE s \notin S
    <3>1. \A b \in B : slotOf[b] # s
      BY <2>2 DEF SlotsOf
    <3>2. CASE \E c \in Indexed(Bookings) : slotOf[c] = s
      <4>1. PICK c \in Indexed(Bookings) : slotOf[c] = s
        BY <3>2
      <4>2. c \in Indexed(Bookings)'
        BY <1>2, <3>1, <4>1
      <4> QED BY <1>1, <2>2, <4>1, <4>2, OwnerFound, OwnerFoundNext DEF GInv, SlotInv
    <3>3. CASE \A c \in Indexed(Bookings) : slotOf[c] # s
      BY <1>1, <1>2, <2>2, <3>3, OwnerFound, OwnerFoundNext DEF GInv, SlotInv
    <3> QED BY <3>2, <3>3
  <2> QED BY <2>1, <2>2
<1>8. \A g \in Groups :
        Phase(g)' = IF Calendar!Own(g) # {} /\ Calendar!Own(g) \subseteq S
                    THEN "gone" ELSE Phase(g)
  <2> TAKE g \in Groups
  <2>1. /\ Calendar!Own(g) = SlotsOf(Stands(g))
        /\ Stands(g) = {b \in Indexed(Bookings) : GroupOf[b] = g}
    BY OwnHours
  <2>2. Indexed(Made(g))' = Stands(g) \ B
    BY <1>2, <2>1, <1>3 DEF Indexed, Made
  <2>3. Calendar!Own(g) # {} <=> Stands(g) # {}
    BY <2>1 DEF SlotsOf
  <2>4. Calendar!Own(g) \subseteq S <=> Stands(g) \subseteq B
    <3>1. \A b \in Stands(g) : slotOf[b] \in S <=> b \in B
      BY <1>1, <2>1 DEF SlotsOf, GInv, SlotInv, UniqueActiveSlot
    <3> QED BY <2>1, <3>1 DEF SlotsOf
  <2>5. Stands(g) # {} => Made(g) # {}
    BY DEF Stands, Indexed
  <2> QED BY <1>3, <1>4, <2>2, <2>3, <2>4, <2>5 DEF Phase, Stands
<1> HIDE DEF S
<1>9. Calendar!GiveBack(S)
  BY <1>6, <1>7, <1>8 DEF Calendar!GiveBack
<1> QED BY <1>6, <1>9

(* A checkout reserves the free hours it takes.                            *)
LEMMA CreateReserves ==
  ASSUME GInv, GInv', CreateBooking
  PROVE  \E g \in Groups, S \in SUBSET Slots : Calendar!Reserve(g, S)
<1>a. PICK g \in Groups :
        \E B \in (SUBSET {b \in Bookings : GroupOf[b] = g}) \ {{}} :
          \E f \in Injections(B, Slots), lead \in B, rent, coupon \in BOOLEAN :
            create_booking(g, f, lead, rent, coupon)
  BY DEF CreateBooking
<1>b. PICK B \in (SUBSET {b \in Bookings : GroupOf[b] = g}) \ {{}} :
        \E f \in Injections(B, Slots), lead \in B, rent, coupon \in BOOLEAN :
          create_booking(g, f, lead, rent, coupon)
  BY <1>a
<1>c. PICK f \in Injections(B, Slots), lead \in B, rent \in BOOLEAN, coupon \in BOOLEAN :
        create_booking(g, f, lead, rent, coupon)
  BY <1>b
<1>1. /\ B \subseteq Bookings /\ B # {} /\ \A b \in B : GroupOf[b] = g
      /\ f \in [B -> Slots] /\ DOMAIN f = B
  BY <1>b, <1>c DEF Injections
<1>2. /\ Made(g) = {}
      /\ \A b \in B : slot[f[b]] = "available"
      /\ \A b \in Bookings : status'[b] = IF b \in B THEN "pending_payment" ELSE status[b]
      /\ \A b \in Bookings : slotOf'[b] = IF b \in B THEN f[b] ELSE slotOf[b]
      /\ UNCHANGED pay
  BY <1>c, <1>1 DEF create_booking, SetStatus
<1>3. /\ Indexed(Bookings)' = Indexed(Bookings) \cup B
      /\ Indexed(Bookings) \cap B = {}
  BY <1>1, <1>2 DEF Indexed, Dead, Made
<1>4. /\ \A h \in Groups : h # g => Made(h)' = Made(h) /\ Indexed(Made(h))' = Indexed(Made(h))
      /\ Made(g)' = B /\ Indexed(Made(g))' = B
  BY <1>1, <1>2 DEF Made, Indexed, Dead
<1> DEFINE S == {f[b] : b \in B}
<1>5. S \subseteq Slots /\ S # {}
  BY <1>1
<1>6. \A s \in S : OwnerOf(s) = NoSlot
  <2> SUFFICES ASSUME NEW s \in S, NEW c \in Indexed(Bookings), slotOf[c] = s PROVE FALSE
    BY <1>5, OwnerFound DEF GInv, SlotInv
  <2>1. slot[s] \in HasBooking
    BY DEF GInv, SlotInv, RowsStandOnSlots, Standing, HasBooking
  <2> QED BY <1>2, <2>1 DEF HasBooking
<1>7. \A s \in Slots : OwnerOf(s)' = IF s \in S THEN g ELSE OwnerOf(s)
  <2> TAKE s \in Slots
  <2>1. CASE s \in S
    <3>1. PICK b \in B : f[b] = s
      BY <2>1
    <3>2. b \in Indexed(Bookings)' /\ slotOf'[b] = s /\ GroupOf[b] = g
      BY <1>1, <1>2, <1>3, <3>1
    <3> QED BY <2>1, <3>2, OwnerFoundNext DEF GInv, SlotInv
  <2>2. CASE s \notin S
    <3>1. \A c \in Indexed(Bookings) : c \in Indexed(Bookings)' /\ slotOf'[c] = slotOf[c]
      BY <1>2, <1>3 DEF Indexed
    <3>2. \A c \in Indexed(Bookings)' : slotOf'[c] = s => c \in Indexed(Bookings)
      BY <1>1, <1>2, <1>3, <2>2
    <3> QED BY <2>2, <3>1, <3>2, OwnerFound, OwnerFoundNext DEF GInv, SlotInv
  <2> QED BY <2>1, <2>2
<1>8. Phase(g) = "new" /\ Phase(g)' = "held"
  BY <1>1, <1>2, <1>4 DEF Phase, GInv, IInv, UnmadeIsFresh, NoPayment
<1>9. \A h \in Groups : h # g => Phase(h)' = Phase(h)
  BY <1>2, <1>4 DEF Phase
<1> HIDE DEF S
<1>10. Calendar!Reserve(g, S)
  BY <1>5, <1>6, <1>7, <1>8, <1>9 DEF Calendar!Reserve
<1> QED BY <1>5, <1>10

(* A confirmation sells what its group holds.                              *)
LEMMA ConfirmSells ==
  ASSUME GInv, NEW g \in Groups, pay[g].status = "pending", confirm_group(g)
  PROVE  Calendar!Sell(g)
<1>1. /\ pay' = [pay EXCEPT ![g] = Advanced(pay[g], "completed", "confirmed")]
      /\ \A b \in Bookings : status'[b] = IF b \in Made(g) THEN "confirmed" ELSE status[b]
      /\ UNCHANGED slotOf
  BY DEF confirm_group, GroupRows, SetStatus
<1>2. /\ \A b \in Made(g) : /\ b \in Bookings /\ GroupOf[b] = g
                            /\ status[b] \in {"pending_payment", "pending_approval"}
      /\ Made(g) # {}
  BY OpenRowsWait
<1>3. /\ pay'[g].status = "completed"
      /\ \A h \in Groups : h # g => pay'[h] = pay[h]
  <2>1. pay[g] \in PaymentRows
    BY MarkedStatus DEF GInv
  <2> QED BY <1>1, <2>1 DEF Advanced, PaymentRows, GInv, IInv, TypeOK
<1>4. Indexed(Bookings)' = Indexed(Bookings)
  BY <1>1, <1>2 DEF Indexed, Dead
<1>5. \A h \in Groups : Made(h)' = Made(h) /\ Indexed(Made(h))' = Indexed(Made(h))
  BY <1>1, <1>2 DEF Made, Indexed, Dead
<1>6. Made(g) # {} /\ Indexed(Made(g)) # {}
  BY <1>2 DEF Indexed, Dead
<1>7. Phase(g) = "held" /\ Phase(g)' = "sold"
  BY <1>3, <1>5, <1>6 DEF Phase
<1>8. \A h \in Groups : h # g => Phase(h)' = Phase(h)
  BY <1>3, <1>5 DEF Phase
<1>9. \A s \in Slots : OwnerOf(s)' = OwnerOf(s)
  BY <1>1, <1>4 DEF OwnerOf, On
<1> QED BY <1>7, <1>8, <1>9 DEF Calendar!Sell

(* Rows that move take as many hours as they had, free or their own, and   *)
(* leave the rest.                                                         *)
LEMMA MovingMovesTo ==
  ASSUME GInv, GInv', RowsMoving
  PROVE  \E g \in Groups, S \in SUBSET Slots : Calendar!MoveTo(g, S)
<1>a. PICK g \in Groups : \E B, f, first, over : Moving(g, B, f, first, over)
  BY DEF RowsMoving
<1>b. PICK B, f, first, over : Moving(g, B, f, first, over)
  BY <1>a
<1>1. /\ B \subseteq Live(g) /\ first \in B
      /\ \A b \in Bookings : b \notin B => slotOf'[b] = slotOf[b]
      /\ UNCHANGED status
  BY <1>b DEF Moving, Move
<1>2. /\ \A h \in Groups : pay'[h].status = pay[h].status
  BY <1>b, MarkedStatus DEF Moving, Move, GInv, IInv, TypeOK
<1>3. /\ Indexed(Bookings)' = Indexed(Bookings)
      /\ \A h \in Groups : Made(h)' = Made(h) /\ Indexed(Made(h))' = Indexed(Made(h))
  BY <1>1 DEF Indexed, Made
<1> DEFINE T == Stands(g)
<1>4. /\ T = {b \in Indexed(Bookings) : GroupOf[b] = g}
      /\ Calendar!Own(g) = SlotsOf(T)
  BY OwnHours
<1>5. B \subseteq T /\ T \subseteq Bookings /\ T # {}
  BY <1>1, <1>4 DEF Live, Made, Cancellable, Indexed, Dead
<1>6. \A b \in Indexed(Bookings) : b \in Bookings /\ slotOf[b] \in Slots /\ slotOf'[b] \in Slots
  BY <1>3 DEF Indexed, GInv, IInv, RowsHaveSlots
<1> DEFINE S == {slotOf'[b] : b \in T}
<1>7. S \subseteq Slots
  BY <1>4, <1>6
<1>8. Cardinality(S) = Cardinality(Calendar!Own(g))
  <2>1. IsFiniteSet(T)
    BY <1>5, RowsFinite
  <2>2. Cardinality({slotOf[b] : b \in T}) = Cardinality(T)
    BY <1>4, <2>1, OneHourEach DEF GInv, SlotInv, UniqueActiveSlot
  <2>3. \A b, c \in T : slotOf'[b] = slotOf'[c] => b = c
    BY <1>3, <1>4 DEF GInv, SlotInv, UniqueActiveSlot
  <2> HIDE DEF T
  <2>4. Cardinality({slotOf'[b] : b \in T}) = Cardinality(T)
    BY <2>1, <2>3, OneHourEach
  <2> QED BY <1>4, <2>2, <2>4, Zenon DEF SlotsOf, S
<1>9. \A c \in Indexed(Bookings) \ T :
        slotOf'[c] = slotOf[c] /\ slotOf[c] \notin S /\ slotOf[c] \notin SlotsOf(T)
  <2> TAKE c \in Indexed(Bookings) \ T
  <2>1. slotOf'[c] = slotOf[c]
    BY <1>1, <1>5 DEF Indexed
  <2>2. slotOf[c] \notin S
    BY <1>3, <1>4, <2>1 DEF GInv, SlotInv, UniqueActiveSlot
  <2>3. slotOf[c] \notin SlotsOf(T)
    BY <1>4 DEF SlotsOf, GInv, SlotInv, UniqueActiveSlot
  <2> QED BY <2>1, <2>2, <2>3
<1>10. \A s \in S : OwnerOf(s) \in {NoSlot, g}
  <2> TAKE s \in S
  <2>1. \A c \in Indexed(Bookings) : slotOf[c] = s => GroupOf[c] = g
    BY <1>4, <1>9
  <2> QED BY <1>7, <2>1, OwnerFound DEF GInv, SlotInv
<1>11. \A s \in Slots :
         OwnerOf(s)' = IF s \in S THEN g ELSE IF OwnerOf(s) = g THEN NoSlot ELSE OwnerOf(s)
  <2> TAKE s \in Slots
  <2>1. CASE s \in S
    <3>1. PICK b \in T : slotOf'[b] = s
      BY <2>1
    <3> QED BY <1>3, <1>4, <2>1, <3>1, OwnerFoundNext DEF GInv, SlotInv
  <2>2. CASE s \notin S /\ \E c \in Indexed(Bookings) \ T : slotOf[c] = s
    <3>1. PICK c \in Indexed(Bookings) \ T : slotOf[c] = s
      BY <2>2
    <3>2. OwnerOf(s) = GroupOf[c] /\ GroupOf[c] # g
      BY <1>4, <3>1, OwnerFound DEF GInv, SlotInv
    <3>3. OwnerOf(s)' = GroupOf[c]
      BY <1>3, <1>9, <3>1, OwnerFoundNext DEF GInv, SlotInv
    <3> QED BY <2>2, <3>2, <3>3
  <2>3. CASE s \notin S /\ \A c \in Indexed(Bookings) \ T : slotOf[c] # s
    <3>1. \A c \in Indexed(Bookings)' : slotOf'[c] # s
      BY <1>3, <1>9, <2>3
    <3>2. OwnerOf(s)' = NoSlot
      BY <3>1, OwnerFoundNext DEF GInv, SlotInv
    <3>3. OwnerOf(s) \in {NoSlot, g}
      BY <1>4, <2>3, OwnerFound DEF GInv, SlotInv
    <3> QED BY <2>3, <3>2, <3>3
  <2> QED BY <2>1, <2>2, <2>3
<1>12. /\ \A h \in Groups : Phase(h)' = Phase(h)
       /\ Phase(g) \in {"held", "sold"}
  <2>1. Indexed(Made(g)) # {} /\ Made(g) # {}
    BY <1>5 DEF Stands, Indexed
  <2> QED BY <1>2, <1>3, <2>1 DEF Phase
<1> HIDE DEF S, T
<1>13. Calendar!Cardinality(S) = Calendar!Cardinality(Calendar!Own(g))
  BY <1>8, SameCount, Zenon
<1>14. \A s \in S : s \in Slots /\ OwnerOf(s) \in {NoSlot, g}
  BY <1>7, <1>10
<1>15. Calendar!MoveTo(g, S)
  BY <1>11, <1>12, <1>13, <1>14 DEF Calendar!MoveTo
<1> QED BY <1>7, <1>15

-----------------------------------------------------------------------------

LEMMA InitMaps == Init => Calendar!Init
<1> SUFFICES ASSUME Init PROVE Calendar!Init
  OBVIOUS
<1>1. \A s \in Slots : OwnerOf(s) = NoSlot
  BY DEF Init, OwnerOf, On, Indexed
<1>2. \A g \in Groups : Phase(g) = "new"
  BY DEF Init, Phase, Made
<1> QED BY <1>1, <1>2 DEF Calendar!Init

(* Every step is one of the calendar's or leaves it alone.                 *)
LEMMA StepMaps ==
  ASSUME EndsByGroup, GInv, GInv', [Next]_vars
  PROVE  Calendar!Next \/ UNCHANGED <<owners, phases>>
<1> USE DEF goods
<1>1. ASSUME RowsEnding PROVE Calendar!Next
  BY <1>1, EndingGivesBack DEF Calendar!Next
<1>2. ASSUME RowsMoving PROVE Calendar!Next
  BY <1>2, MovingMovesTo DEF Calendar!Next
<1>3. ASSUME CreateBooking PROVE Calendar!Next
  BY <1>3, CreateReserves DEF Calendar!Next
<1>4. ASSUME NEW g \in Groups, pay[g].status = "pending", confirm_group(g)
      PROVE  Calendar!Next
  BY <1>4, ConfirmSells DEF Calendar!Next
<1>5. ASSUME UNCHANGED <<status, slotOf, pay>> PROVE UNCHANGED <<owners, phases>>
  BY <1>5, StillIsStutter DEF Still, Indexed, Made
<1>6. ASSUME NEW g \in Groups, upload_receipt(g) PROVE UNCHANGED <<owners, phases>>
  <2>1. /\ pay[g].status = "pending"
        /\ pay' = [pay EXCEPT ![g].receipt = TRUE, ![g].life = "pending_approval"]
        /\ \A b \in Bookings : status'[b] = IF b \in Made(g) THEN "pending_approval" ELSE status[b]
        /\ UNCHANGED slotOf
    BY <1>6 DEF upload_receipt, GroupRows, SetStatus
  <2>2. \A b \in Made(g) : status[b] \in {"pending_payment", "pending_approval"}
    BY <2>1, OpenRowsWait
  <2>3. \A h \in Groups : pay'[h].status = pay[h].status
    <3>1. pay[g] \in PaymentRows
      BY <2>1, MarkedStatus DEF GInv
    <3> QED BY <2>1, <3>1 DEF PaymentRows, GInv, IInv, TypeOK
  <2>4. Indexed(Bookings)' = Indexed(Bookings) /\ \A h \in Groups : Made(h)' = Made(h)
    BY <2>1, <2>2 DEF Indexed, Made, Dead
  <2> QED BY <2>1, <2>3, <2>4, StillIsStutter DEF Still
<1>7. ASSUME NEW g \in Groups, NEW m \in Method, initiate_payment(g, m)
      PROVE  UNCHANGED <<owners, phases>>
  <2>1. \A h \in Groups : pay'[h].status = "completed" <=> pay[h].status = "completed"
    BY <1>7 DEF initiate_payment, GInv, IInv, TypeOK
  <2> QED BY <1>7, <2>1, StillIsStutter DEF Still, initiate_payment, Indexed, Made
<1>8. ASSUME complete_finished_bookings PROVE UNCHANGED <<owners, phases>>
  <2>1. \A b \in Bookings :
          /\ status'[b] \in Dead \cup {"none"} <=> status[b] \in Dead \cup {"none"}
          /\ status'[b] = "none" <=> status[b] = "none"
    BY <1>8 DEF complete_finished_bookings, SetStatus, Finished, Dead
  <2> QED BY <1>8, <2>1, StillIsStutter DEF Still, complete_finished_bookings, Indexed, Made
<1>9. CASE Owner
  <2>1. ASSUME NEW g \in Groups, approve_bank_transfer(g) PROVE Calendar!Next
    BY <1>4, <2>1 DEF approve_bank_transfer, OwnerMayDecide
  <2>2. ASSUME NEW g \in Groups, reject_bank_transfer(g) PROVE Calendar!Next
    BY <1>1, <2>2, FailEnds DEF reject_bank_transfer, OwnerMayDecide, Dead
  <2> QED BY <1>5, <1>9, <2>1, <2>2 DEF Owner, generate_slots, update_slot, delete_slot
<1>10. CASE Player
  <2>1. \A b \in Bookings : \A tier \in Tiers : ~cancel_booking(b, tier)
    BY DEF cancel_booking, EndsByGroup
  <2>2. ASSUME NEW g \in Groups, create_match(g) \/ cancel_match(g)
        PROVE  UNCHANGED <<owners, phases>>
    BY <1>5, <2>2 DEF create_match, cancel_match
  <2> QED BY <1>1, <1>2, <1>3, <1>6, <1>7, <1>10, <2>1, <2>2, ReleaseGroupEnds,
       CancelGroupEnds, RescheduleMoves, RescheduleBookingMoves DEF Player
<1>11. CASE Admin
  <2>1. \A b \in Bookings : ~force_refund(b)
    BY DEF force_refund, EndsByGroup
  <2>2. ASSUME reactivate_arena PROVE UNCHANGED <<owners, phases>>
    BY <1>5, <2>2 DEF reactivate_arena
  <2> QED BY <1>1, <1>11, <2>1, <2>2, CloseArenaEnds DEF Admin
<1>12. CASE Gateway
  <2>1. PICK g \in Groups, completed \in BOOLEAN : handle_webhook(g, completed)
    BY <1>12 DEF Gateway
  <2>2. pay[g].status = "pending"
    BY <2>1 DEF handle_webhook
  <2>3. CASE completed
    BY <1>4, <2>1, <2>2, <2>3 DEF handle_webhook
  <2>4. CASE ~completed
    BY <1>1, <2>1, <2>2, <2>4, FailEnds DEF handle_webhook, Dead
  <2> QED BY <2>3, <2>4
<1>13. CASE Sweep
  BY <1>1, <1>13, AutoCancelEnds DEF Sweep
<1>14. CASE complete_finished_bookings
  BY <1>8, <1>14
<1>15. CASE Clock
  BY <1>5, <1>15 DEF Clock, Pass
<1>16. CASE UNCHANGED vars
  BY <1>5, <1>16 DEF vars
<1> QED BY <1>9, <1>10, <1>11, <1>12, <1>13, <1>14, <1>15, <1>16 DEF Next

(* BookingEngine implements CourtCalendar: whatever group-ending clients,  *)
(* sweeps, webhooks, owners and admins do, an hour never passes from one   *)
(* group to another directly, a sold group is never unsold, and a group    *)
(* that is gone never returns.                                             *)
THEOREM EngineImplementsCalendar ==
  ASSUME EndsByGroup
  PROVE  Spec => ImplementsCalendar
<1>1. GInv /\ GInv' /\ [Next]_vars => [Calendar!Next]_<<owners, phases>>
  BY StepMaps
<1> QED BY <1>1, InitMaps, InductiveG, PTL DEF Spec, ImplementsCalendar, Calendar!Spec, owners, phases

=============================================================================
