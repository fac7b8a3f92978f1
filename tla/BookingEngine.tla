---------------------------- MODULE BookingEngine ----------------------------
(***************************************************************************)
(* One court's slots, the bookings made on them, the payment of each       *)
(* booking group, and what a booking holds besides its hours: one use of a *)
(* discount code, one unit of equipment, one pick-up match.                *)
(*                                                                         *)
(* Each action is one request or scheduler job, taken as a whole: the      *)
(* handlers hold the row locks of what they change until they commit       *)
(* (module BookingTxn looks inside them).  A handler that raises rolls     *)
(* back and changes nothing, so its refusals are the guards here,          *)
(* IntegrityError from an index or a check constraint included.            *)
(*                                                                         *)
(* Abstractions: every hour of a group costs the same, two refund units    *)
(* (refund tiers give back 0, 1 or 2 of them); hours start and end in one  *)
(* step; the 24-hour age of an unpaid hold is nondeterministic.            *)
(***************************************************************************)
EXTENDS PaymentLifecycle, Integers, FiniteSets

CONSTANTS
  Slots,          \* hours of the court that can be on sale
  Bookings,       \* ids of booking rows
  Groups,         \* ids of booking groups (one checkout, one payment)
  GroupOf,        \* booking -> group
  MaxUses,        \* max_uses of the discount code
  Stock,          \* quantity_total of the equipment item
  PerRow,         \* which single-row endpoints clients call
  Tiers,          \* refund units per hour the arena's policy may give
  Overpaid,       \* refund units a move to cheaper hours may give
  NoSlot          \* slot_id of a row that was never inserted

RowEndpoints == {"cancel_booking", "reschedule_booking", "force_refund"}

ASSUME GroupAssumption == GroupOf \in [Bookings -> Groups]
ASSUME LimitAssumption == MaxUses \in Nat /\ Stock \in Nat
ASSUME PerRowAssumption == PerRow \subseteq RowEndpoints
ASSUME TierAssumption == Tiers \subseteq 0 .. 2 /\ Overpaid \subseteq Nat
ASSUME NoSlotAssumption == NoSlot \notin Slots
ASSUME FiniteAssumption == IsFiniteSet(Bookings) /\ IsFiniteSet(Groups)

VARIABLES
  arena,      \* "live", "suspended" or "removed"
  past,       \* slots whose hour is over
  slot,       \* time_slots.status; "none" before the slot is generated
  status,     \* bookings.status; "none" before the row is inserted
  slotOf,     \* bookings.slot_id
  line,       \* rows holding the equipment line of their group
  avail,      \* equipment.quantity_available
  code,       \* the group's discount use: "none", "held" or "released"
  used,       \* discount_codes.used_count
  pay,        \* the group's booking payment
  back,       \* refund units issued against it
  moved,      \* groups whose payment history has the "rescheduled" note
  match       \* the match on the group: "none", "live" or "cancelled"

goods == <<line, avail, code, used>>
vars == <<arena, past, slot, status, slotOf, goods, pay, back, moved, match>>

Method == {"gateway", "bank_transfer"}

NoPayment == [status |-> "none", life |-> "none", method |-> "none", receipt |-> FALSE]

PaymentRows ==
  [status : PaymentStatus, life : Lifecycle, method : Method, receipt : BOOLEAN]

TypeOK ==
  /\ arena \in {"live", "suspended", "removed"}
  /\ past \subseteq Slots
  /\ slot \in [Slots -> SlotStatus \cup {"none"}]
  /\ status \in [Bookings -> BookingStatus \cup {"none"}]
  /\ slotOf \in [Bookings -> Slots \cup {NoSlot}]
  /\ line \subseteq Bookings
  /\ avail \in 0 .. Stock
  /\ code \in [Groups -> {"none", "held", "released"}]
  /\ used \in 0 .. MaxUses
  /\ pay \in [Groups -> PaymentRows \cup {NoPayment}]
  /\ back \in [Groups -> Nat]
  /\ moved \subseteq Groups
  /\ match \in [Groups -> {"none", "live", "cancelled"}]

Init ==
  /\ arena = "live"
  /\ past = {}
  /\ slot = [s \in Slots |-> "none"]
  /\ status = [b \in Bookings |-> "none"]
  /\ slotOf = [b \in Bookings |-> NoSlot]
  /\ line = {}
  /\ avail = Stock
  /\ code = [g \in Groups |-> "none"]
  /\ used = 0
  /\ pay = [g \in Groups |-> NoPayment]
  /\ back = [g \in Groups |-> 0]
  /\ moved = {}
  /\ match = [g \in Groups |-> "none"]

-----------------------------------------------------------------------------
(* Rows and groups                                                         *)

Made(g) == {b \in Bookings : GroupOf[b] = g /\ status[b] # "none"}

Cancellable == {"pending_payment", "pending_approval", "confirmed"}
Reschedulable == {"pending_approval", "confirmed"}
Dead == {"cancelled", "rejected"}

(* Mutant of GroupRows: only the rows still waiting for payment.           *)
UnpaidRows(g) == {b \in Made(g) : status[b] = "pending_payment"}

(* list_group_for_update: every row of the group, whatever its status.     *)
GroupRows(g) == Made(g)

Live(g) == {b \in Made(g) : status[b] \in Cancellable}

AllAre(B, v) == \A b \in B : status[b] = v

SlotsOf(B) == {slotOf[b] : b \in B}

(* The handlers look at the start of one row, the first by start_time.  On *)
(* one day that is the earliest; rows moved one by one may lie on other    *)
(* days, and then any of them can come first.                              *)
NotStarted(B) ==
  IF "reschedule_booking" \in PerRow THEN \E b \in B : slotOf[b] \notin past
  ELSE \A b \in B : slotOf[b] \notin past

Indexed(B) == {b \in B : status[b] \notin Dead \cup {"none"}}

(* The partial unique index uq_bookings_active_slot_id.  A transaction     *)
(* that would break it fails, so it is a condition on the committed state. *)
UniqueActiveSlot ==
  \A b, c \in Indexed(Bookings) : slotOf[b] = slotOf[c] => b = c

SetStatus(B, v) == [b \in Bookings |-> IF b \in B THEN v ELSE status[b]]

SetSlots(S, v) == [s \in Slots |-> IF s \in S THEN v ELSE slot[s]]

(* Mutant of ReleaseEquipment: a cancellation forgets the equipment.       *)
KeepEquipment(B) == UNCHANGED <<line, avail>>

(* release_for_booking on every row of B.  The lines stay in the table and *)
(* quantity_available <= quantity_total is a check constraint.             *)
ReleaseEquipment(B) ==
  /\ avail' = avail + Cardinality(B \cap line)
  /\ avail' <= Stock
  /\ line' = line

(* Mutant of UnpaidStatus: a paid group gives its use back too.            *)
AnyPaymentStatus == {"none", "pending", "failed", "completed"}

UnpaidStatus == {"none", "pending", "failed"}

(* Mutant of Claimed: discount_released_at is not looked at.               *)
ClaimedAgain(G) == {g \in G : code[g] # "none" /\ pay[g].status \in UnpaidStatus}

(* release_discount_use for the groups G: claimed once, and only when the  *)
(* group was never paid.                                                   *)
Claimed(G) == {g \in G : code[g] = "held" /\ pay[g].status \in UnpaidStatus}

release_discount_use(G) ==
  /\ code' = [g \in Groups |-> IF g \in Claimed(G) THEN "released" ELSE code[g]]
  /\ used' = used - Cardinality(Claimed(G))

(* Mutant of follow_booking_cancelled: the match is not told.              *)
MatchNotTold(G) == match' = match

follow_booking_cancelled(G) ==
  match' = [g \in Groups |->
              IF g \in G /\ match[g] = "live" THEN "cancelled" ELSE match[g]]

(* apply_cancellation on every row of B, which belong to the groups G.    *)
apply_cancellation(B, G) ==
  /\ slot' = SetSlots(SlotsOf(B), "available")
  /\ status' = SetStatus(B, "cancelled")
  /\ ReleaseEquipment(B)
  /\ release_discount_use(G)
  /\ follow_booking_cancelled(G)

-----------------------------------------------------------------------------
(* Payments and refunds                                                    *)

Advanced(p, s, l) == [p EXCEPT !.status = s, !.life = l]

(* _close_pending_payment: a still pending payment of g in G expires.      *)
CanClose(G) == \A g \in G : pay[g].status = "pending" => CanAdvance(pay[g].life, "expired")

(* Mutant of Closed: the coarse status moves, the lifecycle stays.         *)
ClosedCoarsely(p) == IF p.status = "pending" THEN [p EXCEPT !.status = "failed"] ELSE p

(* Mutant of Closed: a payment is closed whatever its status.              *)
ClosedAnyway(p) == Advanced(p, "failed", "expired")

Closed(p) == IF p.status = "pending" THEN Advanced(p, "failed", "expired") ELSE p

(* Mutant of close_pending_payment: the payment stays open.                *)
LeaveOpen(G) == pay' = pay

close_pending_payment(G) ==
  /\ CanClose(G)
  /\ pay' = [g \in Groups |-> IF g \in G THEN Closed(pay[g]) ELSE pay[g]]

Amount(g) == 2 * Cardinality(Made(g))

(* _issue_refund caps a request at what is left of the captured amount.    *)
Issued(g, units) ==
  IF units <= Amount(g) - back[g] THEN units ELSE Amount(g) - back[g]

(* _mark_refunded_if_fully, after n units were issued against g.           *)
Marked(g, n) ==
  IF pay[g].life \in {"paid", "confirmed"} /\ n > 0 /\ back[g] + n >= Amount(g)
  THEN [pay[g] EXCEPT !.life = "refunded"]
  ELSE pay[g]

(* receipt_waiting_payment for the live rows B of g.                       *)
ReceiptWaiting(g, B) ==
  /\ AllAre(B, "pending_approval")
  /\ pay[g].status = "pending"
  /\ pay[g].receipt
  /\ pay[g].method = "bank_transfer"

(* Units refunded when the rows B of g are cancelled together and the      *)
(* policy gives `tier` units per row: all of it while a receipt waits, the *)
(* tier once money was captured, nothing otherwise.                        *)
GroupRefund(g, B, tier) ==
  IF ReceiptWaiting(g, B) THEN Issued(g, 2 * Cardinality(B))
  ELSE IF pay[g].status = "completed" THEN Issued(g, tier * Cardinality(B))
  ELSE 0

-----------------------------------------------------------------------------
(* The owner's calendar and the arena                                      *)

generate_slots(S) ==
  /\ arena = "live"
  /\ S # {} /\ \A s \in S : slot[s] = "none"
  /\ slot' = SetSlots(S, "available")
  /\ UNCHANGED <<arena, past, status, slotOf, goods, pay, back, moved, match>>

(* Mutant of HasBooking: a held slot is not protected from edits.          *)
BookedOnly == {"booked"}

HasBooking == {"booked", "reserved"}

(* The owner's clients only ever send these two.                           *)
update_slot(s, v) ==
  /\ slot[s] \notin HasBooking \cup {"none"}
  /\ v \in {"available", "maintenance"} \ {slot[s]}
  /\ slot' = SetSlots({s}, v)
  /\ UNCHANGED <<arena, past, status, slotOf, goods, pay, back, moved, match>>

(* bookings.slot_id is a RESTRICT foreign key: a slot any row names stays. *)
delete_slot(s) ==
  /\ slot[s] \notin HasBooking \cup {"none"}
  /\ s \notin SlotsOf(Bookings)
  /\ slot' = SetSlots({s}, "none")
  /\ UNCHANGED <<arena, past, status, slotOf, goods, pay, back, moved, match>>

Pass(s) ==
  /\ s \notin past
  /\ past' = past \cup {s}
  /\ UNCHANGED <<arena, slot, status, slotOf, goods, pay, back, moved, match>>

(* suspend_arena and delete_arena: cancel_future_bookings_for_arena, one   *)
(* refund per group, everything captured for the cancelled hours.          *)
close_arena(to) ==
  LET B(g) == {b \in Live(g) : slotOf[b] \notin past}
      G == {g \in Groups : B(g) # {}}
      n(g) == IF g \in G THEN GroupRefund(g, B(g), 2) ELSE 0
  IN /\ arena # "removed"
     /\ to = "suspended" => arena = "live"
     /\ arena' = to
     /\ apply_cancellation(UNION {B(g) : g \in G}, G)
     /\ CanClose(G)
     /\ pay' = [g \in Groups |-> IF g \in G THEN Closed(Marked(g, n(g))) ELSE pay[g]]
     /\ back' = [g \in Groups |-> back[g] + n(g)]
     /\ UNCHANGED <<past, slotOf, moved>>

reactivate_arena ==
  /\ arena = "suspended"
  /\ arena' = "live"
  /\ UNCHANGED <<past, slot, status, slotOf, goods, pay, back, moved, match>>

-----------------------------------------------------------------------------
(* Checkout                                                                *)

Injections(B, S) == {f \in [B -> S] : \A b, c \in B : f[b] = f[c] => b = c}

(* f gives each new row its slot; lead is the row of the earliest hour,    *)
(* which takes the equipment line; `rent` and `coupon` are the add-ons.    *)
create_booking(g, f, lead, rent, coupon) ==
  /\ arena = "live"
  /\ Made(g) = {}
  /\ \A b \in DOMAIN f : slot[f[b]] = "available" /\ f[b] \notin past
  /\ rent => avail > 0
  /\ coupon => used < MaxUses
  /\ slot' = SetSlots({f[b] : b \in DOMAIN f}, "reserved")
  /\ status' = SetStatus(DOMAIN f, "pending_payment")
  /\ slotOf' = [b \in Bookings |-> IF b \in DOMAIN f THEN f[b] ELSE slotOf[b]]
  /\ UniqueActiveSlot'
  /\ line' = IF rent THEN line \cup {lead} ELSE line
  /\ avail' = IF rent THEN avail - 1 ELSE avail
  /\ code' = [code EXCEPT ![g] = IF coupon THEN "held" ELSE @]
  /\ used' = IF coupon THEN used + 1 ELSE used
  /\ UNCHANGED <<arena, past, pay, back, moved, match>>

(* A gateway payment is advanced to initiated; a transfer waits as pending. *)
initiate_payment(g, m) ==
  /\ Made(g) # {} /\ AllAre(Made(g), "pending_payment")
  /\ pay[g].status \notin {"pending", "completed"}
  /\ pay' = [pay EXCEPT ![g] =
        [status |-> "pending", method |-> m, receipt |-> FALSE,
         life |-> IF m = "gateway" THEN "initiated" ELSE "pending"]]
  /\ UNCHANGED <<arena, past, slot, status, slotOf, goods, back, moved, match>>

(* _confirm_group: every row of the group, whatever its status.            *)
confirm_group(g) ==
  /\ CanAdvance(pay[g].life, "paid")
  /\ pay' = [pay EXCEPT ![g] = Advanced(@, "completed", "confirmed")]
  /\ status' = SetStatus(GroupRows(g), "confirmed")
  /\ slot' = SetSlots(SlotsOf(GroupRows(g)), "booked")
  /\ UNCHANGED <<arena, past, slotOf, goods, back, moved, match>>
  /\ UniqueActiveSlot'

(* _fail_group: every row again; the match, if any, is not told.           *)
fail_group(g, life, to) ==
  /\ CanAdvance(pay[g].life, life)
  /\ pay' = [pay EXCEPT ![g] = Advanced(@, "failed", life)]
  /\ status' = SetStatus(GroupRows(g), to)
  /\ slot' = SetSlots(SlotsOf(GroupRows(g)), "available")
  /\ ReleaseEquipment(GroupRows(g))
  /\ release_discount_use({g})
  /\ UNCHANGED <<arena, past, slotOf, back, moved, match>>

(* Mutant of AwaitsPayment: a late webhook settles whatever it finds.      *)
AnyRows(g) == Made(g) # {}

AwaitsPayment(g) == AllAre(Made(g), "pending_payment")

(* A webhook for a group that has moved on changes nothing.                *)
handle_webhook(g, completed) ==
  /\ pay[g].method = "gateway" /\ pay[g].status = "pending"
  /\ AwaitsPayment(g)
  /\ IF completed THEN confirm_group(g) ELSE fail_group(g, "failed", "cancelled")

(* Sets every row of the group to pending_approval, whatever its status.   *)
upload_receipt(g) ==
  /\ pay[g].method = "bank_transfer" /\ pay[g].status = "pending"
  /\ CanAdvance(pay[g].life, "pending_approval")
  /\ pay' = [pay EXCEPT ![g].receipt = TRUE, ![g].life = "pending_approval"]
  /\ status' = SetStatus(GroupRows(g), "pending_approval")
  /\ UNCHANGED <<arena, past, slot, slotOf, goods, back, moved, match>>
  /\ UniqueActiveSlot'

OwnerMayDecide(g) ==
  pay[g].method = "bank_transfer" /\ pay[g].receipt /\ pay[g].status = "pending"

approve_bank_transfer(g) == OwnerMayDecide(g) /\ confirm_group(g)

reject_bank_transfer(g) ==
  OwnerMayDecide(g) /\ fail_group(g, "rejected", "rejected")

-----------------------------------------------------------------------------
(* Leaving, cancelling, moving, completing                                 *)

(* release_group: the player leaves checkout.                              *)
release_group(g) ==
  /\ Made(g) # {} /\ AwaitsPayment(g)
  /\ apply_cancellation(Made(g), {g})
  /\ close_pending_payment({g})
  /\ UNCHANGED <<arena, past, slotOf, back, moved>>

(* cancel_group; a group still waiting for payment goes to release_group.  *)
(* `tier` is what the refund policy gives at this time.                    *)
cancel_group(g, tier) ==
  LET n == GroupRefund(g, Live(g), tier)
  IN /\ Live(g) # {} /\ ~AllAre(Live(g), "pending_payment")
     /\ NotStarted(Live(g))
     /\ apply_cancellation(Live(g), {g})
     /\ CanClose({g})
     /\ pay' = [pay EXCEPT ![g] = Closed(Marked(g, n))]
     /\ back' = [back EXCEPT ![g] = @ + n]
     /\ UNCHANGED <<arena, past, slotOf, moved>>

(* cancel_booking: one row alone, started or not.  It leaves the group's   *)
(* pending payment open.                                                   *)
cancel_booking(b, tier) ==
  LET g == GroupOf[b]
      n == IF status[b] # "pending_payment" /\ pay[g].status = "completed"
           THEN Issued(g, tier) ELSE 0
  IN /\ "cancel_booking" \in PerRow
     /\ status[b] \in Cancellable
     /\ apply_cancellation({b}, {g})
     /\ pay' = [pay EXCEPT ![g] = Marked(g, n)]
     /\ back' = [back EXCEPT ![g] = @ + n]
     /\ UNCHANGED <<arena, past, slotOf, moved>>

(* force_refund: an admin's full refund of one row, in any status.  It     *)
(* neither closes a pending payment nor gives back the discount use nor    *)
(* tells the match.                                                        *)
force_refund(b) ==
  LET g == GroupOf[b]
      hit == {c \in {b} : status[c] \notin Dead}
      n == IF pay[g].status = "completed" THEN Issued(g, 2) ELSE 0
  IN /\ "force_refund" \in PerRow
     /\ status[b] # "none"
     /\ pay[g].status = "completed" => back[g] < Amount(g)
     /\ status' = SetStatus(hit, "cancelled")
     /\ slot' = SetSlots(SlotsOf(hit), "available")
     /\ ReleaseEquipment(hit)
     /\ pay' = [pay EXCEPT ![g] = Marked(g, n)]
     /\ back' = [back EXCEPT ![g] = @ + n]
     /\ UNCHANGED <<arena, past, slotOf, code, used, moved, match>>

(* Mutant of Stale: only holds whose payment was started.                  *)
StartedOnly(G) ==
  {b \in Bookings : /\ GroupOf[b] \in G /\ status[b] = "pending_payment"
                   /\ pay[GroupOf[b]].status = "pending"}

Stale(G) == {b \in Bookings : GroupOf[b] \in G /\ status[b] = "pending_payment"}

(* auto_cancel_stale_bookings: the groups G have rows unpaid for 24 hours. *)
auto_cancel_stale_bookings(G) ==
  LET B == Stale(G)
  IN /\ \A g \in G : \E b \in B : GroupOf[b] = g
     /\ slot' = SetSlots({s \in SlotsOf(B) : slot[s] = "reserved"}, "available")
     /\ status' = SetStatus(B, "cancelled")
     /\ ReleaseEquipment(B)
     /\ release_discount_use(G)
     /\ close_pending_payment(G)
     /\ UNCHANGED <<arena, past, slotOf, back, moved, match>>

(* Mutant of Finished: a group is completed as a whole or not at all.      *)
WholeGroups ==
  {b \in Bookings : slotOf[b] \in past /\ AllAre(Made(GroupOf[b]), "confirmed")}

Finished == {b \in Bookings : status[b] = "confirmed" /\ slotOf[b] \in past}

complete_finished_bookings ==
  /\ Finished # {}
  /\ status' = SetStatus(Finished, "completed")
  /\ UNCHANGED <<arena, past, slot, slotOf, goods, pay, back, moved, match>>

(* The rows in the domain of f move to the slots f gives.  The new slots   *)
(* take over the status of the first old one; `over` units of what was     *)
(* captured go back when the new hours are cheaper.                        *)
Move(g, f, first, over) ==
  LET n == IF pay[g].status = "completed" THEN Issued(g, over) ELSE 0
      new == {f[b] : b \in DOMAIN f}
      old == SlotsOf(DOMAIN f)
  IN /\ slot' = [s \in Slots |-> CASE s \in new -> slot[slotOf[first]]
                                   [] s \in old \ new -> "available"
                                   [] OTHER -> slot[s]]
     /\ slotOf' = [b \in Bookings |-> IF b \in DOMAIN f THEN f[b] ELSE slotOf[b]]
     /\ pay' = [pay EXCEPT ![g] = Marked(g, n)]
     /\ back' = [back EXCEPT ![g] = @ + n]

(* reschedule_group: every live row, once, to free or own hours.           *)
reschedule_group(g, f, first, over) ==
  /\ Live(g) # {} /\ DOMAIN f = Live(g)
  /\ \A b \in Live(g) : status[b] \in Reschedulable
  /\ NotStarted(Live(g))
  /\ pay[g].status = "none" \/ g \notin moved
  /\ \A b \in Live(g) : f[b] \notin past
  /\ \A b \in Live(g) : slot[f[b]] = "available" \/ f[b] \in SlotsOf(Live(g))
  /\ {f[b] : b \in Live(g)} # SlotsOf(Live(g))
  /\ Move(g, f, first, over)
  /\ moved' = IF pay[g].status = "none" THEN moved ELSE moved \cup {g}
  /\ UNCHANGED <<arena, past, status, goods, match>>
  /\ UniqueActiveSlot'

(* reschedule_booking: one row alone, as often as the player likes.        *)
reschedule_booking(b, s, over) ==
  /\ "reschedule_booking" \in PerRow
  /\ status[b] \in Reschedulable /\ slotOf[b] \notin past
  /\ slot[s] = "available" /\ s # slotOf[b]
  /\ Move(GroupOf[b], [c \in {b} |-> s], b, over)
  /\ UNCHANGED <<arena, past, status, goods, moved, match>>
  /\ UniqueActiveSlot'

-----------------------------------------------------------------------------
(* Matches on a booking (the players in them: module MatchLobby)           *)

create_match(g) ==
  /\ arena = "live"
  /\ Made(g) # {} /\ AllAre(Made(g), "confirmed")
  /\ NotStarted(Made(g))
  /\ match[g] # "live"
  /\ match' = [match EXCEPT ![g] = "live"]
  /\ UNCHANGED <<arena, past, slot, status, slotOf, goods, pay, back, moved>>

cancel_match(g) ==
  /\ match[g] = "live"
  /\ match' = [match EXCEPT ![g] = "cancelled"]
  /\ UNCHANGED <<arena, past, slot, status, slotOf, goods, pay, back, moved>>

-----------------------------------------------------------------------------

CreateBooking ==
  \E g \in Groups :
    \E B \in (SUBSET {b \in Bookings : GroupOf[b] = g}) \ {{}} :
      \E f \in Injections(B, Slots), lead \in B, rent, coupon \in BOOLEAN :
        create_booking(g, f, lead, rent, coupon)

Reschedule ==
  \E g \in Groups :
    \E f \in Injections(Live(g), Slots), first \in Live(g), over \in Overpaid :
      reschedule_group(g, f, first, over)

Owner ==
  \/ \E S \in SUBSET Slots : generate_slots(S)
  \/ \E s \in Slots, v \in SlotStatus : update_slot(s, v)
  \/ \E s \in Slots : delete_slot(s)
  \/ \E g \in Groups : approve_bank_transfer(g)
  \/ \E g \in Groups : reject_bank_transfer(g)

Player ==
  \/ CreateBooking
  \/ \E g \in Groups, m \in Method : initiate_payment(g, m)
  \/ \E g \in Groups : upload_receipt(g)
  \/ \E g \in Groups : release_group(g)
  \/ \E g \in Groups, tier \in Tiers : cancel_group(g, tier)
  \/ \E b \in Bookings, tier \in Tiers : cancel_booking(b, tier)
  \/ Reschedule
  \/ \E b \in Bookings, s \in Slots, over \in Overpaid : reschedule_booking(b, s, over)
  \/ \E g \in Groups : create_match(g)
  \/ \E g \in Groups : cancel_match(g)

Admin ==
  \/ \E to \in {"suspended", "removed"} : close_arena(to)
  \/ reactivate_arena
  \/ \E b \in Bookings : force_refund(b)

Gateway == \E g \in Groups, completed \in BOOLEAN : handle_webhook(g, completed)

Sweep == \E G \in (SUBSET Groups) \ {{}} : auto_cancel_stale_bookings(G)

Clock == \E s \in Slots : Pass(s)

Next == Owner \/ Player \/ Admin \/ Gateway \/ Sweep \/ complete_finished_bookings \/ Clock

Spec == Init /\ [][Next]_vars

(* APScheduler runs both jobs for as long as the server is up, and time    *)
(* passes; nobody is obliged to book, pay, approve or cancel.              *)
FairSpec ==
  /\ Spec
  /\ \A g \in Groups : WF_vars(auto_cancel_stale_bookings({g}))
  /\ WF_vars(complete_finished_bookings)
  /\ \A s \in Slots : WF_vars(Pass(s))

-----------------------------------------------------------------------------
(* Properties                                                              *)

(* The coarse and the fine status of a payment never part, although a      *)
(* dozen handlers assign one and advance the other.                        *)
LifecycleAgrees ==
  \A g \in Groups :
    /\ pay[g].status = "pending" => pay[g].life \in OpenLife
    /\ pay[g].status = "completed" => pay[g].life \in PaidLife
    /\ pay[g].status = "failed" => pay[g].life \in ClosedLife
    /\ pay[g].status # "refunded"

(* No handler that settles or closes an open payment can meet an           *)
(* InvalidTransitionError, whoever comes first: the scheduler and the      *)
(* player may expire it, the gateway may complete or fail it, the owner    *)
(* may approve or reject a receipt.                                        *)
OpenPaymentCanSettle ==
  \A g \in Groups : pay[g].status = "pending" =>
    /\ CanAdvance(pay[g].life, "expired")
    /\ CanAdvance(pay[g].life, "paid")
    /\ pay[g].method = "gateway" => CanAdvance(pay[g].life, "failed")
    /\ pay[g].receipt => CanAdvance(pay[g].life, "rejected")

(* Nobody plays unpaid: a confirmed or completed row stands on a completed *)
(* payment, whichever endpoints were mixed before it.                      *)
ConfirmedIsPaid ==
  \A b \in Bookings :
    status[b] \in {"confirmed", "completed"} => pay[GroupOf[b]].status = "completed"

(* Money that was captured is never left on an undecided booking.          *)
PaidIsDecided ==
  \A g \in Groups : pay[g].status = "completed" =>
    \A b \in Made(g) : status[b] \in {"confirmed", "completed", "cancelled"}

(* used_count is exactly the number of groups that hold a use, so a code   *)
(* is never handed out beyond max_uses nor a use lost.                     *)
DiscountUsesCounted == used = Cardinality({g \in Groups : code[g] = "held"})

(* The calendar tells the truth: a slot is reserved exactly while one      *)
(* unpaid or unapproved row stands on it, booked exactly while one         *)
(* confirmed or played row does, and free for sale otherwise.              *)
SlotsAgree ==
  \A s \in Slots :
    LET on == {b \in Indexed(Bookings) : slotOf[b] = s}
    IN /\ Cardinality(on) <= 1
       /\ slot[s] = "reserved" <=>
            \E b \in on : status[b] \in {"pending_payment", "pending_approval"}
       /\ slot[s] = "booked" <=> \E b \in on : status[b] \in {"confirmed", "completed"}

(* An open payment still has something to pay for: every way an unpaid     *)
(* group ends closes its payment too, so no late capture can land on it.   *)
OpenPaymentHasBooking ==
  \A g \in Groups : pay[g].status = "pending" =>
    \A b \in Made(g) : status[b] \in {"pending_payment", "pending_approval"}

(* A booking that awaits the owner has a receipt the owner can decide on,  *)
(* unless its hour was over when the arena was closed.                     *)
ApprovalHasReceipt ==
  \A b \in Bookings :
    status[b] = "pending_approval" /\ slotOf[b] \notin past => OwnerMayDecide(GroupOf[b])

(* Every unpaid group that ended gave its discount use back, and no paid   *)
(* one did ("Paid groups keep their use").                                 *)
DiscountFollowsPayment ==
  \A g \in Groups :
    /\ code[g] = "released" => pay[g].status \in {"none", "failed"}
    /\ code[g] = "held" /\ pay[g].status # "completed" =>
         \E b \in Made(g) : status[b] \notin Dead

(* Every unit of equipment is in stock or on a booking that still stands.  *)
EquipmentCounted == avail + Cardinality(line \cap Indexed(Bookings)) = Stock

(* A match that is on is played on a booking that stands.                  *)
MatchHasBooking ==
  \A g \in Groups : match[g] = "live" =>
    \A b \in Made(g) : status[b] \in {"confirmed", "completed"}

(* docs/11 section 2: CANCELLED and REJECTED have no way out.              *)
DeadStaysDead ==
  [][\A b \in Bookings : status[b] \in Dead => status'[b] = status[b]]_vars

(* The part of it that survives every mix of endpoints: once a gateway was *)
(* chosen, no webhook or anything else brings a cancelled row back.        *)
GatewayNeverResurrects ==
  [][\A b \in Bookings :
       status[b] \in Dead /\ pay[GroupOf[b]].method # "bank_transfer"
         => status'[b] = status[b]]_vars

(* An unpaid hold does not keep its hour forever.                          *)
UnpaidHoldEnds ==
  \A b \in Bookings : status[b] = "pending_payment" ~> status[b] # "pending_payment"

(* A confirmed booking is played or cancelled, however often the arena and *)
(* the player move things around it: reviews open only on completed ones.  *)
ConfirmedEnds ==
  \A b \in Bookings : status[b] = "confirmed" ~> status[b] \in {"completed", "cancelled"}

=============================================================================
