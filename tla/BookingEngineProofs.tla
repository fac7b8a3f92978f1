------------------------- MODULE BookingEngineProofs -------------------------
(***************************************************************************)
(* Proofs about BookingEngine, for any number of slots, bookings, groups,  *)
(* uses and equipment units, and for every mix of endpoints (PerRow).      *)
(*                                                                         *)
(* None of the invariants is inductive alone: whether a confirmation or a  *)
(* closing keeps the books right depends on the lifecycle and the receipt  *)
(* of the payment it meets, a checkout must not find a payment of its own  *)
(* group, and what a refund may still take depends on what was refunded    *)
(* before.  IInv joins what each of them needs.                            *)
(***************************************************************************)
EXTENDS BookingEngine, FiniteSetTheorems, TLAPS

(* A payment row that some sequence of handlers can have written.          *)
PaymentGood(p) ==
  /\ p \in PaymentRows \cup {NoPayment}
  /\ p.status = "pending" =>
       IF p.method = "gateway" THEN p.life = "initiated" /\ ~p.receipt
       ELSE p.life = IF p.receipt THEN "pending_approval" ELSE "pending"
  /\ p.status = "completed" => p.life \in PaidLife
  /\ p.status = "failed" => p.life \in ClosedLife
  /\ p.status # "refunded"

PaymentsGood == \A g \in Groups : PaymentGood(pay[g])

RefundsCovered == \A g \in Groups : back[g] <= Amount(g)

UnmadeIsFresh ==
  \A g \in Groups : Made(g) = {} => pay[g] = NoPayment /\ code[g] = "none"

RowsHaveSlots == \A b \in Bookings : status[b] # "none" => slotOf[b] \in Slots

IInv ==
  /\ TypeOK
  /\ PaymentsGood
  /\ RefundsCovered
  /\ DiscountUsesCounted
  /\ ConfirmedIsPaid
  /\ PaidIsDecided
  /\ UnmadeIsFresh
  /\ RowsHaveSlots

-----------------------------------------------------------------------------
(* Lemmas about the operators                                              *)

(* While no row is made or unmade, what a group's payment captures stays   *)
(* the same.                                                               *)
LEMMA MadeKept ==
  ASSUME \A b \in Bookings : status'[b] = "none" <=> status[b] = "none"
  PROVE  \A g \in Groups : Made(g)' = Made(g) /\ Amount(g)' = Amount(g)
<1>1. ASSUME NEW g \in Groups PROVE Made(g)' = Made(g)
  BY DEF Made
<1> QED BY <1>1 DEF Amount

(* Statuses and slots stay typed under the two bulk updates.               *)
LEMMA BulkUpdates ==
  ASSUME TypeOK
  PROVE  /\ \A B, v : v \in BookingStatus =>
              SetStatus(B, v) \in [Bookings -> BookingStatus \cup {"none"}]
         /\ \A S, v : v \in SlotStatus \cup {"none"} =>
              SetSlots(S, v) \in [Slots -> SlotStatus \cup {"none"}]
  BY DEF TypeOK, SetStatus, SetSlots

(* Rows of a group, and any set of rows, are finitely many.                *)
LEMMA RowsFinite ==
  ASSUME NEW B, B \subseteq Bookings
  PROVE  IsFiniteSet(B) /\ Cardinality(B) \in Nat
  BY FiniteAssumption, FS_Subset, FS_CardinalityType

LEMMA AmountType == \A g \in Groups : Amount(g) \in Nat
<1> TAKE g \in Groups
<1>1. Made(g) \subseteq Bookings
  BY DEF Made
<1>2. Cardinality(Made(g)) \in Nat
  BY <1>1, RowsFinite
<1> QED BY <1>2 DEF Amount

(* Giving equipment back keeps the stock within what the arena owns.       *)
LEMMA EquipmentTyped ==
  ASSUME TypeOK, NEW B, ReleaseEquipment(B)
  PROVE  avail' \in 0 .. Stock /\ line' \subseteq Bookings
<1>1. B \cap line \subseteq Bookings
  BY DEF TypeOK
<1>2. Cardinality(B \cap line) \in Nat
  BY <1>1, RowsFinite
<1> QED BY <1>2, LimitAssumption DEF TypeOK, ReleaseEquipment

(* Giving discount uses back: the count stays the number of held uses,     *)
(* since the claimed groups are among the holders and hold no more.        *)
LEMMA DiscountReleased ==
  ASSUME TypeOK, DiscountUsesCounted, NEW G, G \subseteq Groups,
         release_discount_use(G)
  PROVE  /\ code' \in [Groups -> {"none", "held", "released"}]
         /\ used' \in 0 .. MaxUses
         /\ DiscountUsesCounted'
         /\ \A g \in Groups : code[g] = "none" => code'[g] = "none"
<1> DEFINE Held == {g \in Groups : code[g] = "held"}
           Left == {g \in Groups : code'[g] = "held"}
           C == Claimed(G)
<1>1. /\ code' \in [Groups -> {"none", "held", "released"}]
      /\ \A g \in Groups : code[g] = "none" => code'[g] = "none"
  BY DEF TypeOK, release_discount_use, Claimed
<1>2. C \subseteq Held
  BY DEF Claimed
<1>3. Left = Held \ C
  BY DEF TypeOK, release_discount_use, Claimed
<1>4. IsFiniteSet(Held) /\ IsFiniteSet(C) /\ IsFiniteSet(Left)
  <2>1. Held \subseteq Groups /\ C \subseteq Groups /\ Left \subseteq Groups
    BY <1>2
  <2> QED BY <2>1, FiniteAssumption, FS_Subset
<1>5. /\ Cardinality(Held) \in Nat
      /\ Cardinality(C) \in Nat
      /\ Cardinality(Left) \in Nat
  BY <1>4, FS_CardinalityType
<1>6. Cardinality(Held) = Cardinality(Left) + Cardinality(C)
  <2>1. Left \cup C = Held /\ Left \cap C = {}
    BY <1>2, <1>3
  <2>2. Cardinality(Left \cup C) =
          Cardinality(Left) + Cardinality(C) - Cardinality(Left \cap C)
    BY <1>4, FS_Union
  <2>3. Cardinality(Left \cap C) = 0
    BY <2>1, FS_EmptySet
  <2>4. Cardinality(Held) =
          Cardinality(Left) + Cardinality(C) - Cardinality(Left \cap C)
    BY <2>1, <2>2, Zenon
  <2> HIDE DEF Held, Left, C
  <2> QED BY <2>3, <2>4, <1>5
<1>7. used' = used - Cardinality(C) /\ used = Cardinality(Held)
  BY DEF release_discount_use, DiscountUsesCounted
<1>8. used' = Cardinality(Left)
  BY <1>5, <1>6, <1>7
<1>9. used' \in 0 .. MaxUses
  BY <1>5, <1>7, <1>8, LimitAssumption DEF TypeOK
<1> QED BY <1>1, <1>8, <1>9 DEF DiscountUsesCounted

(* _issue_refund: whatever is asked, the refunds of a payment stay within  *)
(* what was captured.                                                      *)
LEMMA IssuedWithin ==
  ASSUME TypeOK, RefundsCovered, NEW g \in Groups, NEW units \in Nat
  PROVE  Issued(g, units) \in Nat /\ back[g] + Issued(g, units) <= Amount(g)
<1>1. back[g] \in Nat /\ Amount(g) \in Nat /\ back[g] <= Amount(g)
  BY AmountType DEF TypeOK, RefundsCovered
<1> QED BY <1>1 DEF Issued

LEMMA GroupRefundWithin ==
  ASSUME TypeOK, RefundsCovered, NEW g \in Groups,
         NEW B, B \subseteq Bookings, NEW tier \in 0 .. 2
  PROVE  /\ GroupRefund(g, B, tier) \in Nat
         /\ back[g] + GroupRefund(g, B, tier) <= Amount(g)
<1>1. Cardinality(B) \in Nat
  BY RowsFinite
<1>2. tier * Cardinality(B) \in Nat /\ 2 * Cardinality(B) \in Nat
  <2>1. CASE tier = 0 BY <2>1, <1>1
  <2>2. CASE tier = 1 BY <2>2, <1>1
  <2>3. CASE tier = 2 BY <2>3, <1>1
  <2> QED BY <2>1, <2>2, <2>3
<1>3. back[g] \in Nat /\ Amount(g) \in Nat /\ back[g] <= Amount(g)
  BY AmountType DEF TypeOK, RefundsCovered
<1> DEFINE all == Issued(g, 2 * Cardinality(B))
           part == Issued(g, tier * Cardinality(B))
<1>4. /\ all \in Nat /\ back[g] + all <= Amount(g)
      /\ part \in Nat /\ back[g] + part <= Amount(g)
  BY <1>2, IssuedWithin
<1> QED BY <1>3, <1>4 DEF GroupRefund

(* What closing and marking do to a payment: neither captures, uncaptures  *)
(* or invents one.                                                         *)
Follows(p, q) ==
  /\ PaymentGood(q)
  /\ q.status = "completed" <=> p.status = "completed"
  /\ p = NoPayment => q = NoPayment

LEMMA ClosedFollows ==
  ASSUME NEW p, PaymentGood(p)
  PROVE  Follows(p, Closed(p))
<1>1. CASE p.status = "pending"
  <2>1. p \in PaymentRows
    BY <1>1 DEF PaymentGood, NoPayment
  <2>2. /\ Closed(p) \in PaymentRows
        /\ Closed(p).status = "failed"
        /\ Closed(p).life = "expired"
    BY <1>1, <2>1 DEF Closed, Advanced, PaymentRows, PaymentStatus, Lifecycle
  <2>3. PaymentGood(Closed(p))
    BY <2>2 DEF PaymentGood, ClosedLife
  <2>4. p # NoPayment
    BY <1>1 DEF NoPayment
  <2> QED BY <1>1, <2>2, <2>3, <2>4 DEF Follows
<1>2. CASE p.status # "pending"
  BY <1>2 DEF Follows, Closed
<1> QED BY <1>1, <1>2

LEMMA MarkedFollows ==
  ASSUME PaymentsGood, NEW g \in Groups, NEW n
  PROVE  Follows(pay[g], Marked(g, n))
<1>1. PaymentGood(pay[g])
  BY DEF PaymentsGood
<1>2. CASE pay[g].life \in {"paid", "confirmed"} /\ n > 0 /\ back[g] + n >= Amount(g)
  <2>1. /\ pay[g] \in PaymentRows
        /\ pay[g].status = "completed"
    BY <1>1, <1>2 DEF PaymentGood, PaymentRows, PaymentStatus, NoPayment, ClosedLife
  <2> QED BY <1>1, <1>2, <2>1 DEF Marked, Follows, PaymentGood, PaymentRows, NoPayment,
        Lifecycle, PaidLife
<1>3. CASE ~ (pay[g].life \in {"paid", "confirmed"} /\ n > 0 /\ back[g] + n >= Amount(g))
  BY <1>1, <1>3 DEF Marked, Follows
<1> QED BY <1>2, <1>3

LEMMA FollowsTransitive ==
  ASSUME NEW p, NEW q, NEW r, Follows(p, q), Follows(q, r)
  PROVE  Follows(p, r)
  BY DEF Follows

-----------------------------------------------------------------------------
(* Most steps only end or play bookings: rows stay as they are, are        *)
(* cancelled, or go from confirmed to completed; payments follow; no group *)
(* gets a discount use.  Such a step keeps the invariant if it keeps the   *)
(* types, the count of uses and the rows' slots.                           *)
RowsOnlyEnd ==
  \A b \in Bookings :
    \/ status'[b] = status[b]
    \/ status[b] # "none" /\ status'[b] = "cancelled"
    \/ status[b] = "confirmed" /\ status'[b] = "completed"

PaymentsFollow ==
  \A g \in Groups :
    /\ Follows(pay[g], pay'[g])
    /\ back'[g] <= Amount(g)
    /\ code[g] = "none" => code'[g] = "none"

LEMMA EndingStep ==
  ASSUME IInv, TypeOK', DiscountUsesCounted', RowsHaveSlots',
         RowsOnlyEnd, PaymentsFollow
  PROVE  IInv'
<1>1. \A b \in Bookings : status'[b] = "none" <=> status[b] = "none"
  BY DEF RowsOnlyEnd
<1>2. \A g \in Groups : Made(g)' = Made(g) /\ Amount(g)' = Amount(g)
  BY <1>1, MadeKept
<1>3. PaymentsGood'
  BY DEF PaymentsGood, PaymentsFollow, Follows
<1>4. RefundsCovered'
  BY <1>2 DEF RefundsCovered, PaymentsFollow
<1>5. ConfirmedIsPaid'
  BY GroupAssumption DEF IInv, ConfirmedIsPaid, RowsOnlyEnd, PaymentsFollow, Follows
<1>6. PaidIsDecided'
  <2> SUFFICES ASSUME NEW g \in Groups, pay'[g].status = "completed", NEW b \in Made(g)
               PROVE  status'[b] \in {"confirmed", "completed", "cancelled"}
    BY <1>2 DEF PaidIsDecided
  <2>1. b \in Bookings /\ status[b] \in {"confirmed", "completed", "cancelled"}
    BY DEF IInv, PaidIsDecided, PaymentsFollow, Follows, Made
  <2> QED BY <2>1 DEF RowsOnlyEnd
<1>7. UnmadeIsFresh'
  BY <1>2 DEF IInv, UnmadeIsFresh, PaymentsFollow, Follows
<1> QED BY <1>3, <1>4, <1>5, <1>6, <1>7 DEF IInv

(* The steps that leave bookings, payments and discounts alone.            *)
LEMMA CalendarStep ==
  ASSUME IInv, TypeOK', UNCHANGED <<status, slotOf, code, used, pay, back>>
  PROVE  IInv'
<1>1. DiscountUsesCounted' /\ RowsHaveSlots'
  BY DEF IInv, DiscountUsesCounted, RowsHaveSlots
<1>2. RowsOnlyEnd
  BY DEF RowsOnlyEnd
<1>3. PaymentsFollow
  BY DEF IInv, PaymentsGood, RefundsCovered, PaymentsFollow, Follows
<1> QED BY <1>1, <1>2, <1>3, EndingStep

LEMMA CalendarActions ==
  ASSUME IInv,
         \/ \E S \in SUBSET Slots : generate_slots(S)
         \/ \E s \in Slots, v \in SlotStatus : update_slot(s, v)
         \/ \E s \in Slots : delete_slot(s)
         \/ \E s \in Slots : Pass(s)
         \/ reactivate_arena
         \/ \E g \in Groups : create_match(g)
         \/ \E g \in Groups : cancel_match(g)
  PROVE  IInv'
<1> USE DEF IInv, goods
<1> SUFFICES TypeOK' /\ UNCHANGED <<status, slotOf, code, used, pay, back>>
  BY CalendarStep
<1>1. ASSUME NEW S \in SUBSET Slots, generate_slots(S)
      PROVE  TypeOK' /\ UNCHANGED <<status, slotOf, code, used, pay, back>>
  BY <1>1, BulkUpdates DEF generate_slots, TypeOK, SlotStatus
<1>2. ASSUME NEW s \in Slots, NEW v \in SlotStatus, update_slot(s, v)
      PROVE  TypeOK' /\ UNCHANGED <<status, slotOf, code, used, pay, back>>
  BY <1>2, BulkUpdates DEF update_slot, TypeOK
<1>3. ASSUME NEW s \in Slots, delete_slot(s)
      PROVE  TypeOK' /\ UNCHANGED <<status, slotOf, code, used, pay, back>>
  BY <1>3, BulkUpdates DEF delete_slot, TypeOK
<1>4. ASSUME NEW s \in Slots, Pass(s)
      PROVE  TypeOK' /\ UNCHANGED <<status, slotOf, code, used, pay, back>>
  BY <1>4 DEF Pass, TypeOK
<1>5. ASSUME reactivate_arena
      PROVE  TypeOK' /\ UNCHANGED <<status, slotOf, code, used, pay, back>>
  BY <1>5 DEF reactivate_arena, TypeOK
<1>6. ASSUME NEW g \in Groups, create_match(g)
      PROVE  TypeOK' /\ UNCHANGED <<status, slotOf, code, used, pay, back>>
  BY <1>6 DEF create_match, TypeOK
<1>7. ASSUME NEW g \in Groups, cancel_match(g)
      PROVE  TypeOK' /\ UNCHANGED <<status, slotOf, code, used, pay, back>>
  BY <1>7 DEF cancel_match, TypeOK
<1> QED BY <1>1, <1>2, <1>3, <1>4, <1>5, <1>6, <1>7

-----------------------------------------------------------------------------
(* Steps that end bookings                                                 *)

(* apply_cancellation on existing rows: everything but the payment.        *)
LEMMA CancellationApplied ==
  ASSUME IInv, NEW B, B \subseteq Bookings, \A b \in B : status[b] # "none",
         NEW G, G \subseteq Groups, apply_cancellation(B, G)
  PROVE  /\ slot' \in [Slots -> SlotStatus \cup {"none"}]
         /\ status' \in [Bookings -> BookingStatus \cup {"none"}]
         /\ line' \subseteq Bookings
         /\ avail' \in 0 .. Stock
         /\ code' \in [Groups -> {"none", "held", "released"}]
         /\ used' \in 0 .. MaxUses
         /\ match' \in [Groups -> {"none", "live", "cancelled"}]
         /\ DiscountUsesCounted'
         /\ RowsOnlyEnd
         /\ \A g \in Groups : code[g] = "none" => code'[g] = "none"
<1> USE DEF IInv
<1>1. slot' \in [Slots -> SlotStatus \cup {"none"}]
  BY BulkUpdates DEF apply_cancellation, SlotStatus
<1>2. status' \in [Bookings -> BookingStatus \cup {"none"}]
  BY BulkUpdates DEF apply_cancellation, BookingStatus
<1>3. line' \subseteq Bookings /\ avail' \in 0 .. Stock
  BY EquipmentTyped DEF apply_cancellation
<1>4. /\ code' \in [Groups -> {"none", "held", "released"}]
      /\ used' \in 0 .. MaxUses
      /\ DiscountUsesCounted'
      /\ \A g \in Groups : code[g] = "none" => code'[g] = "none"
  BY DiscountReleased DEF apply_cancellation
<1>5. match' \in [Groups -> {"none", "live", "cancelled"}]
  BY DEF apply_cancellation, follow_booking_cancelled, TypeOK
<1>6. RowsOnlyEnd
  BY DEF RowsOnlyEnd, apply_cancellation, SetStatus
<1> QED BY <1>1, <1>2, <1>3, <1>4, <1>5, <1>6

(* A cancellation keeps the invariant when the refunds that go with it     *)
(* stay within the capture and each payment follows.                       *)
LEMMA CancellationStep ==
  ASSUME IInv, NEW B, B \subseteq Bookings, \A b \in B : status[b] # "none",
         NEW G, G \subseteq Groups, apply_cancellation(B, G),
         arena' \in {"live", "suspended", "removed"},
         UNCHANGED <<past, slotOf, moved>>,
         pay' \in [Groups -> PaymentRows \cup {NoPayment}],
         back' \in [Groups -> Nat],
         \A g \in Groups : Follows(pay[g], pay'[g]) /\ back'[g] <= Amount(g)
  PROVE  IInv'
<1>1. /\ TypeOK'
      /\ DiscountUsesCounted'
      /\ RowsOnlyEnd
      /\ \A g \in Groups : code[g] = "none" => code'[g] = "none"
  BY CancellationApplied DEF IInv, TypeOK
<1>2. RowsHaveSlots'
  BY <1>1 DEF IInv, RowsHaveSlots, RowsOnlyEnd
<1>3. PaymentsFollow
  BY <1>1 DEF PaymentsFollow
<1> QED BY <1>1, <1>2, <1>3, EndingStep

(* Typing and following of a payment that may be marked, then closed.      *)
LEMMA MarkedAndClosed ==
  ASSUME IInv, NEW g \in Groups, NEW n
  PROVE  /\ Follows(pay[g], pay[g])
         /\ Follows(pay[g], Closed(pay[g]))
         /\ Follows(pay[g], Marked(g, n))
         /\ Follows(pay[g], Closed(Marked(g, n)))
<1>1. PaymentGood(pay[g]) /\ PaymentsGood
  BY DEF IInv, PaymentsGood
<1>2. Follows(pay[g], Marked(g, n))
  BY <1>1, MarkedFollows
<1>3. PaymentGood(Marked(g, n))
  BY <1>2 DEF Follows
<1>4. Follows(Marked(g, n), Closed(Marked(g, n)))
  BY <1>3, ClosedFollows
<1>5. Follows(pay[g], Closed(pay[g]))
  BY <1>1, ClosedFollows
<1> QED BY <1>1, <1>2, <1>4, <1>5, FollowsTransitive DEF Follows

LEMMA CloseArena ==
  ASSUME IInv, NEW to \in {"suspended", "removed"}, close_arena(to)
  PROVE  IInv'
<1> DEFINE B(g) == {b \in Live(g) : slotOf[b] \notin past}
           G == {g \in Groups : B(g) # {}}
           n(g) == IF g \in G THEN GroupRefund(g, B(g), 2) ELSE 0
           All == UNION {B(g) : g \in G}
<1>1. /\ arena' = to
      /\ apply_cancellation(All, G)
      /\ pay' = [g \in Groups |-> IF g \in G THEN Closed(Marked(g, n(g))) ELSE pay[g]]
      /\ back' = [g \in Groups |-> back[g] + n(g)]
      /\ UNCHANGED <<past, slotOf, moved>>
  BY DEF close_arena
<1>2. All \subseteq Bookings /\ \A b \in All : status[b] # "none"
  BY DEF Live, Made
<1>3. ASSUME NEW g \in Groups
      PROVE  /\ n(g) \in Nat
             /\ back[g] + n(g) <= Amount(g)
  <2>1. B(g) \subseteq Bookings
    BY DEF Live, Made
  <2>2. /\ GroupRefund(g, B(g), 2) \in Nat
        /\ back[g] + GroupRefund(g, B(g), 2) <= Amount(g)
    <3> HIDE DEF B
    <3> QED BY <2>1, GroupRefundWithin DEF IInv
  <2>3. back[g] \in Nat /\ back[g] <= Amount(g)
    BY DEF IInv, TypeOK, RefundsCovered
  <2> HIDE DEF B, G
  <2> QED BY <2>2, <2>3
<1> HIDE DEF n, G, All
<1>4. back' \in [Groups -> Nat] /\ \A g \in Groups : back'[g] <= Amount(g)
  BY <1>1, <1>3 DEF IInv, TypeOK
<1>5. \A g \in Groups : Follows(pay[g], pay'[g])
  BY <1>1, MarkedAndClosed
<1>6. pay' \in [Groups -> PaymentRows \cup {NoPayment}]
  BY <1>1, <1>5 DEF Follows, PaymentGood
<1>7. G \subseteq Groups
  BY DEF G
<1> QED BY <1>1, <1>2, <1>4, <1>5, <1>6, <1>7, CancellationStep

LEMMA ReleaseGroup ==
  ASSUME IInv, NEW g \in Groups, release_group(g)
  PROVE  IInv'
<1>1. /\ apply_cancellation(Made(g), {g})
      /\ pay' = [h \in Groups |-> IF h \in {g} THEN Closed(pay[h]) ELSE pay[h]]
      /\ UNCHANGED <<arena, past, slotOf, back, moved>>
  BY DEF release_group, close_pending_payment
<1>2. Made(g) \subseteq Bookings /\ \A b \in Made(g) : status[b] # "none"
  BY DEF Made
<1>3. \A h \in Groups : Follows(pay[h], pay'[h]) /\ back'[h] <= Amount(h)
  BY <1>1, MarkedAndClosed DEF IInv, RefundsCovered
<1>4. pay' \in [Groups -> PaymentRows \cup {NoPayment}]
  BY <1>1, <1>3 DEF Follows, PaymentGood
<1>5. back' \in [Groups -> Nat] /\ arena' \in {"live", "suspended", "removed"}
  BY <1>1 DEF IInv, TypeOK
<1> QED BY <1>1, <1>2, <1>3, <1>4, <1>5, CancellationStep

LEMMA CancelGroup ==
  ASSUME IInv, NEW g \in Groups, NEW tier \in Tiers, cancel_group(g, tier)
  PROVE  IInv'
<1> DEFINE n == GroupRefund(g, Live(g), tier)
<1>1. /\ apply_cancellation(Live(g), {g})
      /\ pay' = [pay EXCEPT ![g] = Closed(Marked(g, n))]
      /\ back' = [back EXCEPT ![g] = @ + n]
      /\ UNCHANGED <<arena, past, slotOf, moved>>
  BY DEF cancel_group
<1>2. Live(g) \subseteq Bookings /\ \A b \in Live(g) : status[b] # "none"
  BY DEF Live, Made
<1>3. n \in Nat /\ back[g] + n <= Amount(g)
  BY <1>2, TierAssumption, GroupRefundWithin DEF IInv
<1> HIDE DEF n
<1>4. back' \in [Groups -> Nat] /\ \A h \in Groups : back'[h] <= Amount(h)
  BY <1>1, <1>3 DEF IInv, TypeOK, RefundsCovered
<1>5. \A h \in Groups : Follows(pay[h], pay'[h])
  BY <1>1, MarkedAndClosed DEF IInv, TypeOK
<1>6. pay' \in [Groups -> PaymentRows \cup {NoPayment}]
  BY <1>1, <1>5 DEF IInv, TypeOK, Follows, PaymentGood
<1>7. arena' \in {"live", "suspended", "removed"}
  BY <1>1 DEF IInv, TypeOK
<1> QED BY <1>1, <1>2, <1>4, <1>5, <1>6, <1>7, CancellationStep

LEMMA CancelBooking ==
  ASSUME IInv, NEW b \in Bookings, NEW tier \in Tiers, cancel_booking(b, tier)
  PROVE  IInv'
<1> DEFINE g == GroupOf[b]
           n == IF status[b] # "pending_payment" /\ pay[g].status = "completed"
                THEN Issued(g, tier) ELSE 0
<1>1. /\ status[b] # "none"
      /\ apply_cancellation({b}, {g})
      /\ pay' = [pay EXCEPT ![g] = Marked(g, n)]
      /\ back' = [back EXCEPT ![g] = @ + n]
      /\ UNCHANGED <<arena, past, slotOf, moved>>
  BY DEF cancel_booking, Cancellable
<1>2. g \in Groups
  BY GroupAssumption
<1>3. n \in Nat /\ back[g] + n <= Amount(g)
  <2>1. tier \in Nat
    BY TierAssumption
  <2>2. Issued(g, tier) \in Nat /\ back[g] + Issued(g, tier) <= Amount(g)
    BY <1>2, <2>1, IssuedWithin DEF IInv
  <2>3. back[g] \in Nat /\ back[g] <= Amount(g)
    BY <1>2 DEF IInv, TypeOK, RefundsCovered
  <2> HIDE DEF g
  <2> QED BY <2>2, <2>3
<1> HIDE DEF n, g
<1>4. back' \in [Groups -> Nat] /\ \A h \in Groups : back'[h] <= Amount(h)
  BY <1>1, <1>2, <1>3 DEF IInv, TypeOK, RefundsCovered
<1>5. \A h \in Groups : Follows(pay[h], pay'[h])
  BY <1>1, <1>2, MarkedAndClosed DEF IInv, TypeOK
<1>6. pay' \in [Groups -> PaymentRows \cup {NoPayment}]
  BY <1>1, <1>5 DEF IInv, TypeOK, Follows, PaymentGood
<1>7. arena' \in {"live", "suspended", "removed"}
  BY <1>1 DEF IInv, TypeOK
<1> QED BY <1>1, <1>2, <1>4, <1>5, <1>6, <1>7, CancellationStep

LEMMA ForceRefund ==
  ASSUME IInv, NEW b \in Bookings, force_refund(b)
  PROVE  IInv'
<1> DEFINE g == GroupOf[b]
           hit == {c \in {b} : status[c] \notin Dead}
           n == IF pay[g].status = "completed" THEN Issued(g, 2) ELSE 0
<1>1. /\ status[b] # "none"
      /\ status' = SetStatus(hit, "cancelled")
      /\ slot' = SetSlots(SlotsOf(hit), "available")
      /\ ReleaseEquipment(hit)
      /\ pay' = [pay EXCEPT ![g] = Marked(g, n)]
      /\ back' = [back EXCEPT ![g] = @ + n]
      /\ UNCHANGED <<arena, past, slotOf, code, used, moved, match>>
  BY DEF force_refund
<1>2. g \in Groups
  BY GroupAssumption
<1>3. n \in Nat /\ back[g] + n <= Amount(g)
  <2>1. Issued(g, 2) \in Nat /\ back[g] + Issued(g, 2) <= Amount(g)
    BY <1>2, IssuedWithin DEF IInv
  <2>2. back[g] \in Nat /\ back[g] <= Amount(g)
    BY <1>2 DEF IInv, TypeOK, RefundsCovered
  <2> HIDE DEF g
  <2> QED BY <2>1, <2>2
<1>4. RowsOnlyEnd
  BY <1>1 DEF RowsOnlyEnd, SetStatus
<1> HIDE DEF n, g, hit
<1>5. back' \in [Groups -> Nat] /\ \A h \in Groups : back'[h] <= Amount(h)
  BY <1>1, <1>2, <1>3 DEF IInv, TypeOK, RefundsCovered
<1>6. \A h \in Groups : Follows(pay[h], pay'[h])
  BY <1>1, <1>2, MarkedAndClosed DEF IInv, TypeOK
<1>7. PaymentsFollow
  BY <1>1, <1>5, <1>6 DEF PaymentsFollow
<1>8. TypeOK'
  <2>1. pay' \in [Groups -> PaymentRows \cup {NoPayment}]
    BY <1>1, <1>6 DEF IInv, TypeOK, Follows, PaymentGood
  <2>2. avail' \in 0 .. Stock /\ line' \subseteq Bookings
    BY <1>1, EquipmentTyped DEF IInv
  <2>3. /\ slot' \in [Slots -> SlotStatus \cup {"none"}]
        /\ status' \in [Bookings -> BookingStatus \cup {"none"}]
    BY <1>1, BulkUpdates DEF IInv, SlotStatus, BookingStatus
  <2> QED BY <1>1, <1>5, <2>1, <2>2, <2>3 DEF IInv, TypeOK
<1>9. DiscountUsesCounted' /\ RowsHaveSlots'
  BY <1>1, <1>4 DEF IInv, DiscountUsesCounted, RowsHaveSlots, RowsOnlyEnd
<1> QED BY <1>4, <1>7, <1>8, <1>9, EndingStep

LEMMA AutoCancel ==
  ASSUME IInv, NEW G \in SUBSET Groups, auto_cancel_stale_bookings(G)
  PROVE  IInv'
<1> DEFINE B == Stale(G)
<1>1. /\ slot' = SetSlots({s \in SlotsOf(B) : slot[s] = "reserved"}, "available")
      /\ status' = SetStatus(B, "cancelled")
      /\ ReleaseEquipment(B)
      /\ release_discount_use(G)
      /\ pay' = [g \in Groups |-> IF g \in G THEN Closed(pay[g]) ELSE pay[g]]
      /\ UNCHANGED <<arena, past, slotOf, back, moved, match>>
  BY DEF auto_cancel_stale_bookings, close_pending_payment
<1>2. RowsOnlyEnd
  BY <1>1 DEF RowsOnlyEnd, SetStatus, Stale
<1> HIDE DEF B
<1>3. /\ code' \in [Groups -> {"none", "held", "released"}]
      /\ used' \in 0 .. MaxUses
      /\ DiscountUsesCounted'
      /\ \A g \in Groups : code[g] = "none" => code'[g] = "none"
  BY <1>1, DiscountReleased DEF IInv
<1>4. \A g \in Groups : Follows(pay[g], pay'[g]) /\ back'[g] <= Amount(g)
  BY <1>1, MarkedAndClosed DEF IInv, RefundsCovered
<1>5. TypeOK'
  <2>1. pay' \in [Groups -> PaymentRows \cup {NoPayment}]
    BY <1>1, <1>4 DEF Follows, PaymentGood
  <2>2. avail' \in 0 .. Stock /\ line' \subseteq Bookings
    BY <1>1, EquipmentTyped DEF IInv
  <2>3. /\ slot' \in [Slots -> SlotStatus \cup {"none"}]
        /\ status' \in [Bookings -> BookingStatus \cup {"none"}]
    BY <1>1, BulkUpdates DEF IInv, SlotStatus, BookingStatus
  <2> QED BY <1>1, <1>3, <2>1, <2>2, <2>3 DEF IInv, TypeOK
<1>6. RowsHaveSlots'
  BY <1>1, <1>2 DEF IInv, RowsHaveSlots, RowsOnlyEnd
<1>7. PaymentsFollow
  BY <1>3, <1>4 DEF PaymentsFollow
<1> QED BY <1>2, <1>3, <1>5, <1>6, <1>7, EndingStep

LEMMA Complete ==
  ASSUME IInv, complete_finished_bookings
  PROVE  IInv'
<1> USE DEF complete_finished_bookings, goods
<1>1. RowsOnlyEnd
  BY DEF RowsOnlyEnd, SetStatus, Finished
<1>2. TypeOK'
  <2>1. status' \in [Bookings -> BookingStatus \cup {"none"}]
    BY BulkUpdates DEF IInv, BookingStatus
  <2> QED BY <2>1 DEF IInv, TypeOK
<1>3. DiscountUsesCounted' /\ RowsHaveSlots'
  BY <1>1 DEF IInv, DiscountUsesCounted, RowsHaveSlots, RowsOnlyEnd
<1>4. PaymentsFollow
  BY DEF IInv, PaymentsGood, RefundsCovered, PaymentsFollow, Follows
<1> QED BY <1>1, <1>2, <1>3, <1>4, EndingStep

(* Moving rows, alone or as a group, changes slots and may refund.         *)
LEMMA MoveStep ==
  ASSUME IInv, NEW g \in Groups, NEW B, B \subseteq Bookings, NEW f \in [B -> Slots],
         NEW first \in Bookings, status[first] # "none", NEW over \in Overpaid,
         Move(g, f, first, over), moved' \subseteq Groups,
         UNCHANGED <<arena, past, status, goods, match>>
  PROVE  IInv'
<1> USE DEF goods
<1> DEFINE n == IF pay[g].status = "completed" THEN Issued(g, over) ELSE 0
           new == {f[b] : b \in DOMAIN f}
           old == SlotsOf(DOMAIN f)
<1>1. /\ slot' = [s \in Slots |-> CASE s \in new -> slot[slotOf[first]]
                                   [] s \in old \ new -> "available"
                                   [] OTHER -> slot[s]]
      /\ slotOf' = [b \in Bookings |-> IF b \in B THEN f[b] ELSE slotOf[b]]
      /\ pay' = [pay EXCEPT ![g] = Marked(g, n)]
      /\ back' = [back EXCEPT ![g] = @ + n]
  BY DEF Move
<1>2. n \in Nat /\ back[g] + n <= Amount(g)
  <2>1. Issued(g, over) \in Nat /\ back[g] + Issued(g, over) <= Amount(g)
    BY TierAssumption, IssuedWithin DEF IInv
  <2>2. back[g] \in Nat /\ back[g] <= Amount(g)
    BY DEF IInv, TypeOK, RefundsCovered
  <2> QED BY <2>1, <2>2
<1>3. slot[slotOf[first]] \in SlotStatus \cup {"none"}
  BY DEF IInv, TypeOK, RowsHaveSlots
<1>4. slot' \in [Slots -> SlotStatus \cup {"none"}]
  <2> HIDE DEF new, old
  <2> QED BY <1>1, <1>3 DEF IInv, TypeOK, SlotStatus
<1> HIDE DEF n, new, old
<1>5. back' \in [Groups -> Nat] /\ \A h \in Groups : back'[h] <= Amount(h)
  BY <1>1, <1>2 DEF IInv, TypeOK, RefundsCovered
<1>6. \A h \in Groups : Follows(pay[h], pay'[h])
  BY <1>1, MarkedAndClosed DEF IInv, TypeOK
<1>7. pay' \in [Groups -> PaymentRows \cup {NoPayment}]
  BY <1>1, <1>6 DEF IInv, TypeOK, Follows, PaymentGood
<1>8. slotOf' \in [Bookings -> Slots \cup {NoSlot}] /\ RowsHaveSlots'
  BY <1>1 DEF IInv, TypeOK, RowsHaveSlots
<1>9. TypeOK'
  BY <1>4, <1>5, <1>7, <1>8 DEF IInv, TypeOK
<1>10. RowsOnlyEnd /\ DiscountUsesCounted'
  BY DEF IInv, RowsOnlyEnd, DiscountUsesCounted
<1>11. PaymentsFollow
  BY <1>5, <1>6 DEF PaymentsFollow
<1> QED BY <1>8, <1>9, <1>10, <1>11, EndingStep

LEMMA RescheduleGroup ==
  ASSUME IInv, Reschedule
  PROVE  IInv'
<1>a. PICK g \in Groups :
        \E f \in Injections(Live(g), Slots), first \in Live(g), over \in Overpaid :
          reschedule_group(g, f, first, over)
  BY DEF Reschedule
<1>1. PICK f \in Injections(Live(g), Slots), first \in Live(g), over \in Overpaid :
        reschedule_group(g, f, first, over)
  BY <1>a
<1>2. /\ Live(g) \subseteq Bookings
      /\ f \in [Live(g) -> Slots]
      /\ status[first] # "none"
  BY DEF Live, Made, Injections
<1>3. /\ Move(g, f, first, over)
      /\ moved' \subseteq Groups
      /\ UNCHANGED <<arena, past, status, goods, match>>
  BY <1>1 DEF reschedule_group, IInv, TypeOK
<1> QED BY <1>2, <1>3, MoveStep

LEMMA RescheduleBooking ==
  ASSUME IInv, NEW b \in Bookings, NEW s \in Slots, NEW over \in Overpaid,
         reschedule_booking(b, s, over)
  PROVE  IInv'
<1>1. GroupOf[b] \in Groups /\ status[b] # "none" /\ {b} \subseteq Bookings
  BY GroupAssumption DEF reschedule_booking, Reschedulable
<1>2. [c \in {b} |-> s] \in [{b} -> Slots]
  OBVIOUS
<1>3. /\ Move(GroupOf[b], [c \in {b} |-> s], b, over)
      /\ moved' \subseteq Groups
      /\ UNCHANGED <<arena, past, status, goods, match>>
  BY DEF reschedule_booking, IInv, TypeOK
<1> QED BY <1>1, <1>2, <1>3, MoveStep

-----------------------------------------------------------------------------
(* Steps that make, open and settle                                        *)

(* A checkout finds neither a payment nor a held use of its own group.     *)
LEMMA Create ==
  ASSUME IInv, CreateBooking
  PROVE  IInv'
<1>a. PICK g \in Groups :
        \E B \in (SUBSET {b \in Bookings : GroupOf[b] = g}) \ {{}} :
          \E f \in Injections(B, Slots), lead \in B, rent, coupon \in BOOLEAN :
            create_booking(g, f, lead, rent, coupon)
  BY DEF CreateBooking
<1>1. PICK B \in (SUBSET {b \in Bookings : GroupOf[b] = g}) \ {{}} :
        \E f \in Injections(B, Slots), lead \in B, rent, coupon \in BOOLEAN :
          create_booking(g, f, lead, rent, coupon)
  BY <1>a
<1>2. PICK f \in Injections(B, Slots), lead \in B, rent \in BOOLEAN, coupon \in BOOLEAN :
        create_booking(g, f, lead, rent, coupon)
  BY <1>1
<1>3. /\ B \subseteq Bookings /\ \A b \in B : GroupOf[b] = g
      /\ f \in [B -> Slots] /\ DOMAIN f = B
  BY <1>1, <1>2 DEF Injections
<1>4. /\ Made(g) = {}
      /\ rent => avail > 0
      /\ coupon => used < MaxUses
      /\ slot' = SetSlots({f[b] : b \in B}, "reserved")
      /\ status' = SetStatus(B, "pending_payment")
      /\ slotOf' = [b \in Bookings |-> IF b \in B THEN f[b] ELSE slotOf[b]]
      /\ line' = IF rent THEN line \cup {lead} ELSE line
      /\ avail' = IF rent THEN avail - 1 ELSE avail
      /\ code' = [code EXCEPT ![g] = IF coupon THEN "held" ELSE @]
      /\ used' = IF coupon THEN used + 1 ELSE used
      /\ UNCHANGED <<arena, past, pay, back, moved, match>>
  BY <1>2, <1>3 DEF create_booking
<1>5. pay[g] = NoPayment /\ code[g] = "none"
  BY <1>4 DEF IInv, UnmadeIsFresh
<1>6. /\ \A b \in B : status[b] = "none"
      /\ \A b \in Bookings : status'[b] = IF b \in B THEN "pending_payment" ELSE status[b]
  BY <1>3, <1>4 DEF Made, SetStatus
<1>7. \A h \in Groups : h # g => Made(h)' = Made(h) /\ Amount(h)' = Amount(h)
  BY <1>3, <1>6 DEF Made, Amount
<1>8. DiscountUsesCounted'
  <2>1. CASE ~coupon
    BY <1>4, <2>1 DEF IInv, TypeOK, DiscountUsesCounted
  <2>2. CASE coupon
    <3> DEFINE Held == {h \in Groups : code[h] = "held"}
               Now == {h \in Groups : code'[h] = "held"}
    <3>1. Now = Held \cup {g} /\ g \notin Held
      BY <1>4, <1>5, <2>2 DEF IInv, TypeOK
    <3>2. IsFiniteSet(Held)
      BY FiniteAssumption, FS_Subset
    <3>3. Cardinality(Held \cup {g}) = Cardinality(Held) + 1
      BY <3>1, <3>2, FS_AddElement
    <3>4. Cardinality(Now) = Cardinality(Held) + 1
      BY <3>1, <3>3, Zenon
    <3> QED BY <1>4, <2>2, <3>4 DEF IInv, DiscountUsesCounted
  <2> QED BY <2>1, <2>2
<1>9. TypeOK'
  <2>1. /\ slot' \in [Slots -> SlotStatus \cup {"none"}]
        /\ status' \in [Bookings -> BookingStatus \cup {"none"}]
    BY <1>4, BulkUpdates DEF IInv, SlotStatus, BookingStatus
  <2>2. /\ avail' \in 0 .. Stock
        /\ used' \in 0 .. MaxUses
        /\ line' \subseteq Bookings
    BY <1>3, <1>4, LimitAssumption DEF IInv, TypeOK
  <2>3. slotOf' \in [Bookings -> Slots \cup {NoSlot}]
    BY <1>3, <1>4 DEF IInv, TypeOK
  <2>4. code' \in [Groups -> {"none", "held", "released"}]
    BY <1>4 DEF IInv, TypeOK
  <2> QED BY <1>4, <2>1, <2>2, <2>3, <2>4 DEF IInv, TypeOK
<1>10. RefundsCovered'
  <2>1. Amount(g) = 0
    BY <1>4, FS_EmptySet DEF Amount
  <2>2. Amount(g)' \in Nat
    <3>1. Made(g)' \subseteq Bookings
      BY DEF Made
    <3>2. Cardinality(Made(g)') \in Nat
      BY <3>1, RowsFinite
    <3> QED BY <3>2 DEF Amount
  <2>3. back[g] = 0
    BY <2>1 DEF IInv, TypeOK, RefundsCovered
  <2> QED BY <1>4, <1>7, <2>2, <2>3 DEF IInv, RefundsCovered
<1>11. PaymentsGood' /\ ConfirmedIsPaid'
  BY <1>4, <1>6 DEF IInv, PaymentsGood, ConfirmedIsPaid
<1>12. PaidIsDecided'
  <2> SUFFICES ASSUME NEW h \in Groups, pay[h].status = "completed", NEW b \in Made(h)'
               PROVE  status'[b] \in {"confirmed", "completed", "cancelled"}
    BY <1>4 DEF PaidIsDecided
  <2>1. h # g
    BY <1>5 DEF NoPayment
  <2>2. b \in Made(h)
    BY <1>7, <2>1
  <2>3. b \in Bookings /\ b \notin B
    BY <1>3, <2>1, <2>2 DEF Made
  <2> QED BY <1>6, <2>2, <2>3 DEF IInv, PaidIsDecided
<1>13. UnmadeIsFresh'
  <2>1. Made(g)' # {}
    BY <1>1, <1>3, <1>6 DEF Made
  <2> QED BY <1>4, <1>7, <2>1 DEF IInv, TypeOK, UnmadeIsFresh
<1>14. RowsHaveSlots'
  BY <1>3, <1>4, <1>6 DEF IInv, TypeOK, RowsHaveSlots
<1> QED BY <1>8, <1>9, <1>10, <1>11, <1>12, <1>13, <1>14 DEF IInv

LEMMA Initiate ==
  ASSUME IInv, NEW g \in Groups, NEW m \in Method, initiate_payment(g, m)
  PROVE  IInv'
<1> DEFINE p == [status |-> "pending", method |-> m, receipt |-> FALSE,
                 life |-> IF m = "gateway" THEN "initiated" ELSE "pending"]
<1> USE DEF goods
<1>1. /\ Made(g) # {} /\ AllAre(Made(g), "pending_payment")
      /\ pay' = [pay EXCEPT ![g] = p]
      /\ UNCHANGED <<arena, past, slot, status, slotOf, goods, back, moved, match>>
  BY DEF initiate_payment
<1>2. p \in PaymentRows /\ PaymentGood(p) /\ p.status = "pending"
  BY DEF PaymentRows, PaymentStatus, Lifecycle, Method, PaymentGood
<1> HIDE DEF p
<1>3. \A h \in Groups : Made(h)' = Made(h) /\ Amount(h)' = Amount(h)
  BY <1>1, MadeKept
<1>4. TypeOK'
  BY <1>1, <1>2 DEF IInv, TypeOK
<1>5. PaymentsGood' /\ RefundsCovered' /\ DiscountUsesCounted' /\ RowsHaveSlots'
  BY <1>1, <1>2, <1>3 DEF IInv, TypeOK, PaymentsGood, RefundsCovered,
       DiscountUsesCounted, RowsHaveSlots
<1>6. ConfirmedIsPaid'
  <2>1. \A b \in Bookings : GroupOf[b] = g => status[b] \in {"none", "pending_payment"}
    BY <1>1 DEF AllAre, Made
  <2> QED BY <1>1, <2>1, GroupAssumption DEF IInv, TypeOK, ConfirmedIsPaid
<1>7. PaidIsDecided' /\ UnmadeIsFresh'
  BY <1>1, <1>2, <1>3 DEF IInv, TypeOK, PaidIsDecided, UnmadeIsFresh
<1> QED BY <1>4, <1>5, <1>6, <1>7 DEF IInv

(* Confirming an open payment: the whole group is paid and decided.        *)
LEMMA Confirm ==
  ASSUME IInv, NEW g \in Groups, pay[g].status = "pending", confirm_group(g)
  PROVE  IInv'
<1> DEFINE p == Advanced(pay[g], "completed", "confirmed")
<1>1. /\ pay' = [pay EXCEPT ![g] = p]
      /\ status' = SetStatus(Made(g), "confirmed")
      /\ slot' = SetSlots(SlotsOf(Made(g)), "booked")
      /\ UNCHANGED <<arena, past, slotOf, line, avail, code, used, back, moved, match>>
  BY DEF confirm_group, GroupRows, goods
<1>2. p \in PaymentRows /\ PaymentGood(p) /\ p.status = "completed"
  <2>1. pay[g] \in PaymentRows
    BY DEF IInv, TypeOK, NoPayment
  <2> QED BY <2>1 DEF Advanced, PaymentRows, PaymentStatus, Lifecycle, PaidLife, PaymentGood
<1> HIDE DEF p
<1>3. /\ \A b \in Bookings : status'[b] = IF b \in Made(g) THEN "confirmed" ELSE status[b]
      /\ \A b \in Bookings : b \in Made(g) <=> GroupOf[b] = g /\ status[b] # "none"
  BY <1>1 DEF SetStatus, Made
<1>4. \A h \in Groups : Made(h)' = Made(h) /\ Amount(h)' = Amount(h)
  BY <1>3, MadeKept
<1>5. Made(g) # {}
  BY DEF IInv, UnmadeIsFresh, NoPayment
<1>6. TypeOK'
  <2>1. /\ slot' \in [Slots -> SlotStatus \cup {"none"}]
        /\ status' \in [Bookings -> BookingStatus \cup {"none"}]
    BY <1>1, BulkUpdates DEF IInv, SlotStatus, BookingStatus
  <2> QED BY <1>1, <1>2, <2>1 DEF IInv, TypeOK
<1>7. PaymentsGood' /\ RefundsCovered' /\ DiscountUsesCounted'
  BY <1>1, <1>2, <1>4 DEF IInv, TypeOK, PaymentsGood, RefundsCovered, DiscountUsesCounted
<1>8. RowsHaveSlots' /\ UnmadeIsFresh'
  BY <1>1, <1>3, <1>4, <1>5 DEF IInv, TypeOK, RowsHaveSlots, UnmadeIsFresh
<1>9. ConfirmedIsPaid'
  BY <1>1, <1>2, <1>3, GroupAssumption DEF IInv, TypeOK, ConfirmedIsPaid
<1>10. PaidIsDecided'
  <2> SUFFICES ASSUME NEW h \in Groups, pay'[h].status = "completed", NEW b \in Made(h)
               PROVE  status'[b] \in {"confirmed", "completed", "cancelled"}
    BY <1>4 DEF PaidIsDecided
  <2>1. b \in Bookings /\ GroupOf[b] = h /\ status[b] # "none"
    BY DEF Made
  <2>2. CASE h = g
    BY <1>3, <2>1, <2>2
  <2>3. CASE h # g
    BY <1>1, <1>3, <2>1, <2>3 DEF IInv, TypeOK, PaidIsDecided
  <2> QED BY <2>2, <2>3
<1> QED BY <1>6, <1>7, <1>8, <1>9, <1>10 DEF IInv

(* Failing or rejecting an open payment: no row of its group was played    *)
(* or confirmed, since only a completed payment allows that.               *)
LEMMA Fail ==
  ASSUME IInv, NEW g \in Groups, pay[g].status = "pending",
         NEW life \in {"failed", "rejected"}, NEW to \in {"cancelled", "rejected"},
         fail_group(g, life, to)
  PROVE  IInv'
<1> DEFINE p == Advanced(pay[g], "failed", life)
<1>1. /\ pay' = [pay EXCEPT ![g] = p]
      /\ status' = SetStatus(Made(g), to)
      /\ slot' = SetSlots(SlotsOf(Made(g)), "available")
      /\ ReleaseEquipment(Made(g))
      /\ release_discount_use({g})
      /\ UNCHANGED <<arena, past, slotOf, back, moved, match>>
  BY DEF fail_group, GroupRows
<1>2. p \in PaymentRows /\ PaymentGood(p) /\ p.status = "failed"
  <2>1. pay[g] \in PaymentRows
    BY DEF IInv, TypeOK, NoPayment
  <2> QED BY <2>1 DEF Advanced, PaymentRows, PaymentStatus, Lifecycle, ClosedLife, PaymentGood
<1> HIDE DEF p
<1>3. /\ \A b \in Bookings : status'[b] = IF b \in Made(g) THEN to ELSE status[b]
      /\ \A b \in Bookings : b \in Made(g) <=> GroupOf[b] = g /\ status[b] # "none"
  BY <1>1 DEF SetStatus, Made
<1>4. \A h \in Groups : Made(h)' = Made(h) /\ Amount(h)' = Amount(h)
  BY <1>3, MadeKept
<1>5. Made(g) # {}
  BY DEF IInv, UnmadeIsFresh, NoPayment
<1>6. /\ code' \in [Groups -> {"none", "held", "released"}]
      /\ used' \in 0 .. MaxUses
      /\ DiscountUsesCounted'
      /\ \A h \in Groups : code[h] = "none" => code'[h] = "none"
  BY <1>1, DiscountReleased DEF IInv
<1>7. TypeOK'
  <2>1. /\ slot' \in [Slots -> SlotStatus \cup {"none"}]
        /\ status' \in [Bookings -> BookingStatus \cup {"none"}]
    BY <1>1, BulkUpdates DEF IInv, SlotStatus, BookingStatus
  <2>2. avail' \in 0 .. Stock /\ line' \subseteq Bookings
    BY <1>1, EquipmentTyped DEF IInv
  <2> QED BY <1>1, <1>2, <1>6, <2>1, <2>2 DEF IInv, TypeOK
<1>8. PaymentsGood' /\ RefundsCovered'
  BY <1>1, <1>2, <1>4 DEF IInv, TypeOK, PaymentsGood, RefundsCovered
<1>9. RowsHaveSlots' /\ UnmadeIsFresh'
  BY <1>1, <1>3, <1>4, <1>5, <1>6 DEF IInv, TypeOK, RowsHaveSlots, UnmadeIsFresh
<1>10. ConfirmedIsPaid'
  BY <1>1, <1>3, GroupAssumption DEF IInv, TypeOK, ConfirmedIsPaid
<1>11. PaidIsDecided'
  <2> SUFFICES ASSUME NEW h \in Groups, pay'[h].status = "completed", NEW b \in Made(h)
               PROVE  status'[b] \in {"confirmed", "completed", "cancelled"}
    BY <1>4 DEF PaidIsDecided
  <2>1. b \in Bookings /\ GroupOf[b] = h /\ h # g
    BY <1>1, <1>2 DEF Made, IInv, TypeOK
  <2> QED BY <1>1, <1>3, <2>1 DEF IInv, TypeOK, PaidIsDecided
<1> QED BY <1>6, <1>7, <1>8, <1>9, <1>10, <1>11 DEF IInv

LEMMA Upload ==
  ASSUME IInv, NEW g \in Groups, upload_receipt(g)
  PROVE  IInv'
<1> USE DEF goods
<1>1. /\ pay[g].method = "bank_transfer" /\ pay[g].status = "pending"
      /\ pay' = [pay EXCEPT ![g].receipt = TRUE, ![g].life = "pending_approval"]
      /\ status' = SetStatus(Made(g), "pending_approval")
      /\ UNCHANGED <<arena, past, slot, slotOf, goods, back, moved, match>>
  BY DEF upload_receipt, GroupRows
<1>2. pay[g] \in PaymentRows
  BY <1>1 DEF IInv, TypeOK, NoPayment
<1>3. /\ pay'[g] \in PaymentRows
      /\ PaymentGood(pay'[g])
      /\ pay'[g].status = "pending"
      /\ \A h \in Groups : h # g => pay'[h] = pay[h]
      /\ pay' \in [Groups -> PaymentRows \cup {NoPayment}]
  BY <1>1, <1>2 DEF IInv, TypeOK, PaymentRows, Lifecycle, PaymentGood
<1>4. /\ \A b \in Bookings : status'[b] = IF b \in Made(g) THEN "pending_approval" ELSE status[b]
      /\ \A b \in Bookings : b \in Made(g) <=> GroupOf[b] = g /\ status[b] # "none"
  BY <1>1 DEF SetStatus, Made
<1>5. \A h \in Groups : Made(h)' = Made(h) /\ Amount(h)' = Amount(h)
  BY <1>4, MadeKept
<1>6. Made(g) # {}
  BY <1>1 DEF IInv, UnmadeIsFresh, NoPayment
<1>7. TypeOK'
  <2>1. status' \in [Bookings -> BookingStatus \cup {"none"}]
    BY <1>1, BulkUpdates DEF IInv, BookingStatus
  <2> QED BY <1>1, <1>3, <2>1 DEF IInv, TypeOK
<1>8. PaymentsGood' /\ RefundsCovered' /\ DiscountUsesCounted'
  BY <1>1, <1>3, <1>5 DEF IInv, PaymentsGood, RefundsCovered, DiscountUsesCounted
<1>9. RowsHaveSlots' /\ UnmadeIsFresh'
  BY <1>1, <1>3, <1>4, <1>5, <1>6 DEF IInv, RowsHaveSlots, UnmadeIsFresh
<1>10. ConfirmedIsPaid'
  BY <1>3, <1>4, GroupAssumption DEF IInv, ConfirmedIsPaid
<1>11. PaidIsDecided'
  <2> SUFFICES ASSUME NEW h \in Groups, pay'[h].status = "completed", NEW b \in Made(h)
               PROVE  status'[b] \in {"confirmed", "completed", "cancelled"}
    BY <1>5 DEF PaidIsDecided
  <2>1. b \in Bookings /\ GroupOf[b] = h /\ h # g
    BY <1>3 DEF Made
  <2> QED BY <1>3, <1>4, <2>1 DEF IInv, PaidIsDecided
<1> QED BY <1>7, <1>8, <1>9, <1>10, <1>11 DEF IInv

-----------------------------------------------------------------------------
(* The inductive invariant                                                 *)

LEMMA InitEstablishes == Init => IInv
<1> SUFFICES ASSUME Init PROVE IInv
  OBVIOUS
<1> USE DEF Init
<1>1. \A g \in Groups : Made(g) = {} /\ Amount(g) = 0
  <2>1. \A g \in Groups : Made(g) = {}
    BY DEF Made
  <2>2. Cardinality({}) = 0
    BY FS_EmptySet
  <2> QED BY <2>1, <2>2 DEF Amount
<1>2. TypeOK
  BY LimitAssumption DEF TypeOK
<1>3. PaymentsGood
  BY DEF PaymentsGood, PaymentGood, NoPayment
<1>4. RefundsCovered
  BY <1>1 DEF RefundsCovered
<1>5. DiscountUsesCounted
  <2>1. {g \in Groups : code[g] = "held"} = {}
    OBVIOUS
  <2> QED BY <2>1, FS_EmptySet DEF DiscountUsesCounted
<1>6. ConfirmedIsPaid /\ PaidIsDecided /\ UnmadeIsFresh /\ RowsHaveSlots
  BY <1>1 DEF ConfirmedIsPaid, PaidIsDecided, UnmadeIsFresh, RowsHaveSlots, NoPayment
<1> QED BY <1>2, <1>3, <1>4, <1>5, <1>6 DEF IInv

LEMMA StepKeeps == IInv /\ [Next]_vars => IInv'
<1> SUFFICES ASSUME IInv, [Next]_vars PROVE IInv'
  OBVIOUS
<1>1. CASE Owner
  <2>1. ASSUME NEW g \in Groups, approve_bank_transfer(g) PROVE IInv'
    BY <2>1, Confirm DEF approve_bank_transfer, OwnerMayDecide
  <2>2. ASSUME NEW g \in Groups, reject_bank_transfer(g) PROVE IInv'
    BY <2>2, Fail DEF reject_bank_transfer, OwnerMayDecide
  <2> QED BY <1>1, <2>1, <2>2, CalendarActions DEF Owner
<1>2. CASE Player
  BY <1>2, Create, Initiate, Upload, ReleaseGroup, CancelGroup, CancelBooking,
     RescheduleGroup, RescheduleBooking, CalendarActions DEF Player
<1>3. CASE Admin
  BY <1>3, CloseArena, ForceRefund, CalendarActions DEF Admin
<1>4. CASE Gateway
  <2>1. PICK g \in Groups, completed \in BOOLEAN : handle_webhook(g, completed)
    BY <1>4 DEF Gateway
  <2>2. pay[g].status = "pending"
    BY <2>1 DEF handle_webhook
  <2>3. CASE completed
    BY <2>1, <2>2, <2>3, Confirm DEF handle_webhook
  <2>4. CASE ~completed
    BY <2>1, <2>2, <2>4, Fail DEF handle_webhook
  <2> QED BY <2>3, <2>4
<1>5. CASE Sweep
  BY <1>5, AutoCancel DEF Sweep
<1>6. CASE complete_finished_bookings
  BY <1>6, Complete
<1>7. CASE Clock
  BY <1>7, CalendarActions DEF Clock
<1>8. CASE UNCHANGED vars
  <2>1. TypeOK' /\ UNCHANGED <<status, slotOf, code, used, pay, back>>
    BY <1>8 DEF vars, goods, IInv, TypeOK
  <2> QED BY <2>1, CalendarStep
<1> QED BY <1>1, <1>2, <1>3, <1>4, <1>5, <1>6, <1>7, <1>8 DEF Next

LEMMA Inductive == Spec => []IInv
  BY InitEstablishes, StepKeeps, PTL DEF Spec

-----------------------------------------------------------------------------
(* Every variable keeps its type: no handler writes a status outside its   *)
(* enum, oversells the code or drives the equipment stock out of range.    *)
THEOREM TypeCorrect == Spec => []TypeOK
<1>1. IInv => TypeOK
  BY DEF IInv
<1> QED BY <1>1, Inductive, PTL

(* Nobody plays unpaid, whatever mix of whole-group and single-row         *)
(* endpoints, sweeps, webhooks and owner decisions came before.            *)
THEOREM NobodyPlaysUnpaid == Spec => []ConfirmedIsPaid
<1>1. IInv => ConfirmedIsPaid
  BY DEF IInv
<1> QED BY <1>1, Inductive, PTL

(* Captured money is never left on an undecided booking.                   *)
THEOREM MoneyIsDecided == Spec => []PaidIsDecided
<1>1. IInv => PaidIsDecided
  BY DEF IInv
<1> QED BY <1>1, Inductive, PTL

(* A discount code is handed out exactly as often as it is held.           *)
THEOREM UsesAreCounted == Spec => []DiscountUsesCounted
<1>1. IInv => DiscountUsesCounted
  BY DEF IInv
<1> QED BY <1>1, Inductive, PTL

(* The coarse and the fine status of a payment never part.                 *)
THEOREM StatusesAgree == Spec => []LifecycleAgrees
<1>1. IInv => LifecycleAgrees
  <2> SUFFICES ASSUME IInv, NEW g \in Groups
               PROVE  /\ pay[g].status = "pending" => pay[g].life \in OpenLife
                      /\ pay[g].status = "completed" => pay[g].life \in PaidLife
                      /\ pay[g].status = "failed" => pay[g].life \in ClosedLife
                      /\ pay[g].status # "refunded"
    BY DEF LifecycleAgrees
  <2>1. PaymentGood(pay[g])
    BY DEF IInv, PaymentsGood
  <2> QED BY <2>1 DEF PaymentGood, OpenLife
<1> QED BY <1>1, Inductive, PTL

(* The scheduler, the gateway, the owner and the player can each settle or *)
(* close an open payment without an InvalidTransitionError.                *)
THEOREM SettlingNeverRaises == Spec => []OpenPaymentCanSettle
<1>1. IInv => OpenPaymentCanSettle
  <2> SUFFICES ASSUME IInv, NEW g \in Groups, pay[g].status = "pending"
               PROVE  /\ CanAdvance(pay[g].life, "expired")
                      /\ CanAdvance(pay[g].life, "paid")
                      /\ pay[g].method = "gateway" => CanAdvance(pay[g].life, "failed")
                      /\ pay[g].receipt => CanAdvance(pay[g].life, "rejected")
    BY DEF OpenPaymentCanSettle
  <2>1. PaymentGood(pay[g]) /\ pay[g].receipt \in BOOLEAN
    BY DEF IInv, PaymentsGood, PaymentGood, PaymentRows, NoPayment
  <2>2. pay[g].life \in {"pending", "initiated", "pending_approval"}
    BY <2>1 DEF PaymentGood
  <2>3. CanAdvance(pay[g].life, "expired") /\ CanAdvance(pay[g].life, "paid")
    BY <2>2 DEF CanAdvance, CanTransition, ALLOWED_TRANSITIONS
  <2>4. pay[g].method = "gateway" => CanAdvance(pay[g].life, "failed")
    BY <2>1 DEF PaymentGood, CanAdvance, CanTransition, ALLOWED_TRANSITIONS
  <2>5. pay[g].receipt => CanAdvance(pay[g].life, "rejected")
    BY <2>1 DEF PaymentGood, CanAdvance, CanTransition, ALLOWED_TRANSITIONS
  <2> QED BY <2>3, <2>4, <2>5
<1> QED BY <1>1, Inductive, PTL

-----------------------------------------------------------------------------
(* Cancelled and rejected rows: apart from a bank transfer, no request,    *)
(* webhook or job brings one back.  Only confirm_group, fail_group and     *)
(* upload_receipt write rows without looking at them, and the webhook only *)
(* gets there when no row of the group is dead.                            *)
LEMMA OnlyLiveRowsEnd ==
  ASSUME NEW b \in Bookings, status[b] \in Dead,
         NEW B, b \notin B, NEW v, status' = SetStatus(B, v)
  PROVE  status'[b] = status[b]
  BY DEF SetStatus

THEOREM NoGatewayRevival == Spec => GatewayNeverResurrects
<1> DEFINE A == \A b \in Bookings :
                  status[b] \in Dead /\ pay[GroupOf[b]].method # "bank_transfer"
                    => status'[b] = status[b]
<1>1. [Next]_vars => [A]_vars
  <2> SUFFICES ASSUME Next, NEW b \in Bookings, status[b] \in Dead,
                      pay[GroupOf[b]].method # "bank_transfer"
               PROVE  status'[b] = status[b]
    OBVIOUS
  <2> USE DEF Dead
  <2>1. \A g \in Groups : b \notin Live(g)
    BY DEF Live, Cancellable
  <2>2. \A g \in Groups : b \in Made(g) => ~AwaitsPayment(g)
    BY DEF AwaitsPayment, AllAre
  <2>3. CASE Owner
    <3>1. ASSUME NEW g \in Groups, OwnerMayDecide(g) PROVE b \notin Made(g)
      BY <3>1 DEF OwnerMayDecide, Made
    <3>2. ASSUME NEW g \in Groups, approve_bank_transfer(g) PROVE status'[b] = status[b]
      BY <3>1, <3>2, OnlyLiveRowsEnd DEF approve_bank_transfer, confirm_group, GroupRows
    <3>3. ASSUME NEW g \in Groups, reject_bank_transfer(g) PROVE status'[b] = status[b]
      BY <3>1, <3>3, OnlyLiveRowsEnd DEF reject_bank_transfer, fail_group, GroupRows
    <3> QED BY <2>3, <3>2, <3>3 DEF Owner, generate_slots, update_slot, delete_slot
  <2>4. CASE Player
    <3>1. CASE CreateBooking
      <4>1. PICK g \in Groups :
              \E B \in (SUBSET {c \in Bookings : GroupOf[c] = g}) \ {{}} :
                \E f \in Injections(B, Slots), lead \in B, rent, coupon \in BOOLEAN :
                  create_booking(g, f, lead, rent, coupon)
        BY <3>1 DEF CreateBooking
      <4>2. PICK B \in (SUBSET {c \in Bookings : GroupOf[c] = g}) \ {{}} :
              \E f \in Injections(B, Slots), lead \in B, rent, coupon \in BOOLEAN :
                create_booking(g, f, lead, rent, coupon)
        BY <4>1
      <4>3. PICK f \in Injections(B, Slots) :
              \E lead \in B, rent, coupon \in BOOLEAN :
                create_booking(g, f, lead, rent, coupon)
        BY <4>2
      <4>4. Made(g) = {} /\ DOMAIN f = B /\ status' = SetStatus(B, "pending_payment")
        BY <4>3 DEF create_booking, Injections
      <4>5. b \notin B
        BY <4>2, <4>4 DEF Made
      <4> QED BY <4>4, <4>5, OnlyLiveRowsEnd
    <3>2. ASSUME NEW g \in Groups, upload_receipt(g) PROVE status'[b] = status[b]
      BY <3>2, OnlyLiveRowsEnd DEF upload_receipt, GroupRows, Made
    <3>3. ASSUME NEW g \in Groups, release_group(g) PROVE status'[b] = status[b]
      BY <2>2, <3>3, OnlyLiveRowsEnd DEF release_group, apply_cancellation
    <3>4. ASSUME NEW g \in Groups, NEW tier \in Tiers, cancel_group(g, tier)
          PROVE  status'[b] = status[b]
      BY <2>1, <3>4, OnlyLiveRowsEnd DEF cancel_group, apply_cancellation
    <3>5. ASSUME NEW c \in Bookings, NEW tier \in Tiers, cancel_booking(c, tier)
          PROVE  status'[b] = status[b]
      BY <3>5, OnlyLiveRowsEnd DEF cancel_booking, apply_cancellation, Cancellable
    <3>6. CASE Reschedule
      BY <3>6 DEF Reschedule, reschedule_group
    <3>7. ASSUME NEW g \in Groups,
                 \/ \E m \in Method : initiate_payment(g, m)
                 \/ create_match(g)
                 \/ cancel_match(g)
          PROVE  status'[b] = status[b]
      BY <3>7 DEF initiate_payment, create_match, cancel_match
    <3>8. ASSUME NEW c \in Bookings, NEW s \in Slots, NEW over \in Overpaid,
                 reschedule_booking(c, s, over)
          PROVE  status'[b] = status[b]
      BY <3>8 DEF reschedule_booking
    <3> QED BY <2>4, <3>1, <3>2, <3>3, <3>4, <3>5, <3>6, <3>7, <3>8 DEF Player
  <2>5. CASE Admin
    <3>1. ASSUME NEW to \in {"suspended", "removed"}, close_arena(to)
          PROVE  status'[b] = status[b]
      BY <2>1, <3>1 DEF close_arena, apply_cancellation, SetStatus
    <3>2. ASSUME NEW c \in Bookings, force_refund(c) PROVE status'[b] = status[b]
      BY <3>2 DEF force_refund, SetStatus
    <3> QED BY <2>5, <3>1, <3>2 DEF Admin, reactivate_arena
  <2>6. CASE Gateway
    <3>1. PICK g \in Groups, completed \in BOOLEAN : handle_webhook(g, completed)
      BY <2>6 DEF Gateway
    <3>2. b \notin Made(g)
      BY <2>2, <3>1 DEF handle_webhook
    <3>3. CASE completed
      BY <3>1, <3>2, <3>3, OnlyLiveRowsEnd DEF handle_webhook, confirm_group, GroupRows
    <3>4. CASE ~completed
      BY <3>1, <3>2, <3>4, OnlyLiveRowsEnd DEF handle_webhook, fail_group, GroupRows
    <3> QED BY <3>3, <3>4
  <2>7. CASE Sweep
    <3>1. PICK G \in SUBSET Groups : auto_cancel_stale_bookings(G)
      BY <2>7 DEF Sweep
    <3> QED BY <3>1, OnlyLiveRowsEnd DEF auto_cancel_stale_bookings, Stale
  <2>8. CASE complete_finished_bookings
    BY <2>8, OnlyLiveRowsEnd DEF complete_finished_bookings, Finished
  <2>9. CASE Clock
    BY <2>9 DEF Clock, Pass
  <2> QED BY <2>3, <2>4, <2>5, <2>6, <2>7, <2>8, <2>9 DEF Next
<1> QED BY <1>1, PTL DEF Spec, GatewayNeverResurrects

=============================================================================
