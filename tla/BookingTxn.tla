----------------------------- MODULE BookingTxn -----------------------------
(***************************************************************************)
(* The handlers of BookingEngine as database transactions.  A request      *)
(* reads, takes row locks (SELECT ... FOR UPDATE), reads again and writes  *)
(* at its commit; an UPDATE waits for the row locks of others.  The        *)
(* variables of BookingEngine are the committed database (READ COMMITTED:  *)
(* a lock that was waited for returns fresh rows); `txn` is what each open *)
(* request holds and has read.  What was read without a lock may be old    *)
(* when it is used: arena.is_live in a checkout, a slot its owner edits,   *)
(* the bookings the completion job found, the row an admin refunds,        *)
(* quantity_available, the sum of refunds, the match on a group.  The      *)
(* webhook and the bank transfer handlers lock the payment before the      *)
(* rows, the others write it after them: two that meet wait for each other *)
(* until PostgreSQL rolls one back (Rollback).                             *)
(*                                                                         *)
(* Abstractions: the unlocked reads of one phase are one step, and so are  *)
(* the locks of one SELECT; the sweep takes one group; a request is short  *)
(* against an hour, so hours pass while none is open; the Redis lock of a  *)
(* slot, which only delays a second checkout, is left out, and so are      *)
(* rescheduling and the deletion of slots.                                 *)
(***************************************************************************)
EXTENDS BookingEngine

CONSTANTS
  Txns,       \* database sessions that can be open at once
  Ops         \* the handlers in use

VARIABLE txn

txnVars == <<vars, txn>>

(* Lock the payment, then the rows of its group.                           *)
PayFirst == {"webhook_completed", "webhook_failed", "upload_receipt",
             "approve_bank_transfer", "reject_bank_transfer"}

(* Lock the rows; the payment is read unlocked and written at the commit.  *)
RowsOnly == {"initiate_payment", "release_group", "cancel_group",
             "cancel_booking", "auto_cancel_stale_bookings"}

(* Lock nothing: decide on what they read and write it.                    *)
NoLock == {"update_slot", "complete_finished_bookings", "create_match", "force_refund"}

ASSUME OpsAssumption ==
  Ops \subseteq PayFirst \cup RowsOnly \cup NoLock \cup {"create_booking", "close_arena"}

(* phase: "idle"; "read", a checkout that saw a live arena; "first", one   *)
(* of two locks taken; "ready", only the commit is left.                   *)
Idle ==
  [op |-> "none", phase |-> "idle", group |-> NoSlot, rows |-> {}, slots |-> <<>>,
   value |-> "none", rent |-> FALSE,
   pay |-> [g \in Groups |-> NoPayment], avail |-> 0,
   back |-> [g \in Groups |-> 0], match |-> {}]

-----------------------------------------------------------------------------
(* Locks                                                                   *)

Row(b) == <<"booking", b>>
Payment(g) == <<"payment", g>>
Hour(s) == <<"slot", s>>
Arena == <<"arena">>

Hours(f) == {Hour(f[b]) : b \in DOMAIN f}

(* Mutant of LocksOf: the payment and the rows are read without FOR UPDATE. *)
OtherLocks(x) ==
       {r \in {Arena} : x.op = "close_arena"}
  \cup {r \in Hours(x.slots) : x.op = "create_booking" /\ x.phase = "ready"}

(* The row locks an open transaction holds.                                *)
LocksOf(x) ==
       {Payment(g) : g \in {h \in {x.group} : x.op \in PayFirst}}
  \cup {Row(b) : b \in {c \in x.rows : x.op \notin NoLock}}
  \cup {r \in {Arena} : x.op = "close_arena"}
  \cup {r \in Hours(x.slots) : x.op = "create_booking" /\ x.phase = "ready"}

Free(t, R) == \A u \in Txns \ {t} : LocksOf(txn[u]) \cap R = {}

Become(t, x) == txn' = [txn EXCEPT ![t] = x] /\ UNCHANGED vars

(* What a handler reads, unlocked, once it has its locks.                  *)
Ready(x, rows) ==
  [x EXCEPT !.phase = "ready", !.rows = rows,
            !.pay = pay, !.avail = avail, !.back = back,
            !.match = {g \in Groups : match[g] = "live"}]

-----------------------------------------------------------------------------
(* Reading and locking.  A handler that refuses rolls back.                *)

(* The request for the payment of g, found under its lock.                 *)
LockPayment(t, op, g) ==
  /\ txn[t] = Idle /\ op \in Ops \cap PayFirst
  /\ Free(t, {Payment(g)})
  /\ pay[g].status = "pending"
  /\ pay[g].method = IF op \in {"webhook_completed", "webhook_failed"}
                     THEN "gateway" ELSE "bank_transfer"
  /\ op \in {"approve_bank_transfer", "reject_bank_transfer"} => pay[g].receipt
  /\ Become(t, [Idle EXCEPT !.op = op, !.phase = "first", !.group = g])

LockRowsOfPayment(t) ==
  LET x == txn[t]
      B == GroupRows(x.group)
  IN /\ x.op \in PayFirst /\ x.phase = "first"
     /\ Free(t, {Row(b) : b \in B})
     /\ x.op \in {"webhook_completed", "webhook_failed"} => AwaitsPayment(x.group)
     /\ Become(t, Ready(x, B))

(* The refusals of the handlers that lock only the rows of g.              *)
MayProceed(op, g) ==
  CASE op = "initiate_payment" ->
         AwaitsPayment(g) /\ pay[g].status \notin {"pending", "completed"}
    [] op = "release_group" -> AwaitsPayment(g)
    [] op = "cancel_group" ->
         Live(g) # {} /\ ~AllAre(Live(g), "pending_payment") /\ NotStarted(Live(g))
    [] op = "cancel_booking" -> "cancel_booking" \in PerRow
    [] op = "auto_cancel_stale_bookings" -> Stale({g}) # {}

(* The rows each of them locks.                                            *)
RowsFor(op, g) ==
  CASE op = "cancel_booking" -> {{b} : b \in Live(g)}
    [] op = "auto_cancel_stale_bookings" -> {Stale({g})}
    [] OTHER -> {GroupRows(g)}

LockRows(t, op, g) ==
  /\ txn[t] = Idle /\ op \in Ops \cap RowsOnly
  /\ Made(g) # {} /\ MayProceed(op, g)
  /\ \E B \in RowsFor(op, g) :
       /\ Free(t, {Row(b) : b \in B})
       /\ Become(t, Ready([Idle EXCEPT !.op = op, !.group = g], B))

(* create_booking: the arena is looked at before the slots are locked.     *)
ReadArena(t, g, f) ==
  /\ txn[t] = Idle /\ "create_booking" \in Ops
  /\ arena = "live"
  /\ Made(g) = {} /\ \A u \in Txns : txn[u].group # g
  /\ \A b \in DOMAIN f : slot[f[b]] # "none" /\ f[b] \notin past
  /\ Become(t, [Idle EXCEPT !.op = "create_booking", !.phase = "read",
                            !.group = g, !.slots = f])

LockSlots(t, rent) ==
  LET x == txn[t]
  IN /\ x.op = "create_booking" /\ x.phase = "read"
     /\ Free(t, Hours(x.slots))
     /\ \A b \in DOMAIN x.slots : slot[x.slots[b]] = "available"
     /\ rent => avail > 0
     /\ Become(t, Ready([x EXCEPT !.rent = rent], {}))

(* suspend_arena and delete_arena: the arena, then every row still ahead.  *)
LockArena(t, to) ==
  /\ txn[t] = Idle /\ "close_arena" \in Ops
  /\ Free(t, {Arena})
  /\ arena # "removed" /\ (to = "suspended" => arena = "live")
  /\ Become(t, [Idle EXCEPT !.op = "close_arena", !.phase = "first", !.value = to])

LockFutureRows(t) ==
  LET B == {b \in Bookings : status[b] \in Cancellable /\ slotOf[b] \notin past}
  IN /\ txn[t].op = "close_arena" /\ txn[t].phase = "first"
     /\ Free(t, {Row(b) : b \in B})
     /\ Become(t, Ready(txn[t], B))

(* The handlers without locks.                                             *)
ReadSlot(t, s) ==
  /\ txn[t] = Idle /\ "update_slot" \in Ops
  /\ slot[s] \notin HasBooking \cup {"none"}
  /\ Become(t, [Idle EXCEPT !.op = "update_slot", !.phase = "ready",
                  !.slots = <<s>>,
                  !.value = IF slot[s] = "available" THEN "maintenance" ELSE "available"])

ReadFinished(t) ==
  /\ txn[t] = Idle /\ "complete_finished_bookings" \in Ops
  /\ Finished # {}
  /\ Become(t, [Idle EXCEPT !.op = "complete_finished_bookings", !.phase = "ready",
                            !.rows = Finished])

ReadConfirmed(t, g) ==
  /\ txn[t] = Idle /\ "create_match" \in Ops
  /\ arena = "live"
  /\ Made(g) # {} /\ AllAre(Made(g), "confirmed") /\ NotStarted(Made(g))
  /\ match[g] # "live"
  /\ Become(t, [Idle EXCEPT !.op = "create_match", !.phase = "ready", !.group = g])

(* force_refund: rows is empty when the booking was found dead.            *)
ReadForced(t, b) ==
  LET g == GroupOf[b]
  IN /\ txn[t] = Idle /\ "force_refund" \in Ops
     /\ status[b] # "none"
     /\ pay[g].status = "completed" => back[g] < Amount(g)
     /\ Become(t, Ready([Idle EXCEPT !.op = "force_refund", !.group = g],
                        {c \in {b} : status[c] \notin Dead}))

(* A refusal, a deadlock victim, an integrity error or a lost connection.  *)
Rollback(t) == txn[t] # Idle /\ Become(t, Idle)

-----------------------------------------------------------------------------
(* Commits.  The rows changed must not be locked by others.                *)

Written ==
       {Row(b) : b \in {c \in Bookings : status'[c] # status[c] /\ status[c] # "none"}}
  \cup {Payment(g) : g \in {h \in Groups : pay'[h] # pay[h] /\ pay[h] # NoPayment}}
  \cup {Hour(s) : s \in {r \in Slots : slot'[r] # slot[r]}}
  \cup {r \in {Arena} : arena' # arena}

Commit(t) == Free(t, Written) /\ txn' = [txn EXCEPT ![t] = Idle]

(* The cap of _issue_refund, on the refunds the request has seen.          *)
IssuedBy(x, g, units) ==
  LET left == Amount(g) - x.back[g]
  IN IF left <= 0 THEN 0 ELSE IF units <= left THEN units ELSE left

(* _close_pending_payment, on the payment as the request has seen it.      *)
ClosedBy(x, g, p) == IF x.pay[g].status = "pending" THEN Closed(x.pay[g]) ELSE p

RefundBy(x, g, B, tier) ==
  IF ReceiptWaiting(g, B) THEN IssuedBy(x, g, 2 * Cardinality(B))
  ELSE IF pay[g].status = "completed" THEN IssuedBy(x, g, tier * Cardinality(B))
  ELSE 0

(* Mutant of Restock: release_for_booking is not called.                   *)
NoRestock(x, B) == UNCHANGED <<line, avail>>

(* release_for_booking: quantity_available was read before and is written  *)
(* as a value, not as an increment.                                        *)
Restock(x, B) ==
  /\ avail' = IF B \cap line = {} THEN avail ELSE x.avail + Cardinality(B \cap line)
  /\ avail' <= Stock
  /\ line' = line

TellMatch(x, G) ==
  match' = [g \in Groups |-> IF g \in G \cap x.match THEN "cancelled" ELSE match[g]]

(* _apply_cancellation on the rows B of the groups G.                      *)
Cancelled(x, B, G) ==
  /\ slot' = SetSlots(SlotsOf(B), "available")
  /\ status' = SetStatus(B, "cancelled")
  /\ Restock(x, B)
  /\ release_discount_use(G)
  /\ TellMatch(x, G)

CommitCheckout(t, coupon) ==
  LET x == txn[t]
      B == DOMAIN x.slots
  IN /\ x.op = "create_booking" /\ x.phase = "ready"
     /\ Free(t, {Arena})    \* the foreign key's share lock on the arena
     /\ coupon => used < MaxUses
     /\ slot' = SetSlots({x.slots[b] : b \in B}, "reserved")
     /\ status' = SetStatus(B, "pending_payment")
     /\ slotOf' = [b \in Bookings |-> IF b \in B THEN x.slots[b] ELSE slotOf[b]]
     /\ UniqueActiveSlot'
     /\ \E lead \in B : line' = IF x.rent THEN line \cup {lead} ELSE line
     /\ avail' = IF x.rent THEN x.avail - 1 ELSE avail
     /\ code' = [code EXCEPT ![x.group] = IF coupon THEN "held" ELSE @]
     /\ used' = IF coupon THEN used + 1 ELSE used
     /\ UNCHANGED <<arena, past, pay, back, moved, match>>
     /\ Commit(t)

CommitInitiate(t, m) ==
  LET x == txn[t]
  IN /\ x.op = "initiate_payment"
     /\ pay' = [pay EXCEPT ![x.group] =
           [status |-> "pending", method |-> m, receipt |-> FALSE,
            life |-> IF m = "gateway" THEN "initiated" ELSE "pending"]]
     /\ UNCHANGED <<arena, past, slot, status, slotOf, goods, back, moved, match>>
     /\ Commit(t)

CommitConfirm(t) ==
  LET x == txn[t]
  IN /\ x.op \in {"webhook_completed", "approve_bank_transfer"} /\ x.phase = "ready"
     /\ CanAdvance(x.pay[x.group].life, "paid")
     /\ pay' = [pay EXCEPT ![x.group] = Advanced(@, "completed", "confirmed")]
     /\ status' = SetStatus(x.rows, "confirmed")
     /\ slot' = SetSlots(SlotsOf(x.rows), "booked")
     /\ UNCHANGED <<arena, past, slotOf, goods, back, moved, match>>
     /\ UniqueActiveSlot'
     /\ Commit(t)

CommitFail(t) ==
  LET x == txn[t]
      rejected == x.op = "reject_bank_transfer"
      life == IF rejected THEN "rejected" ELSE "failed"
  IN /\ x.op \in {"webhook_failed", "reject_bank_transfer"} /\ x.phase = "ready"
     /\ CanAdvance(x.pay[x.group].life, life)
     /\ pay' = [pay EXCEPT ![x.group] = Advanced(@, "failed", life)]
     /\ status' = SetStatus(x.rows, IF rejected THEN "rejected" ELSE "cancelled")
     /\ slot' = SetSlots(SlotsOf(x.rows), "available")
     /\ Restock(x, x.rows)
     /\ release_discount_use({x.group})
     /\ UNCHANGED <<arena, past, slotOf, back, moved, match>>
     /\ Commit(t)

CommitReceipt(t) ==
  LET x == txn[t]
  IN /\ x.op = "upload_receipt" /\ x.phase = "ready"
     /\ CanAdvance(x.pay[x.group].life, "pending_approval")
     /\ pay' = [pay EXCEPT ![x.group].receipt = TRUE,
          ![x.group].life = IF x.pay[x.group].life = "pending_approval" THEN @
                            ELSE "pending_approval"]
     /\ status' = SetStatus(x.rows, "pending_approval")
     /\ UNCHANGED <<arena, past, slot, slotOf, goods, back, moved, match>>
     /\ UniqueActiveSlot'
     /\ Commit(t)

CommitRelease(t) ==
  LET x == txn[t]
  IN /\ x.op = "release_group"
     /\ Cancelled(x, x.rows, {x.group})
     /\ pay' = [pay EXCEPT ![x.group] = ClosedBy(x, x.group, @)]
     /\ UNCHANGED <<arena, past, slotOf, back, moved>>
     /\ Commit(t)

CommitCancelGroup(t, tier) ==
  LET x == txn[t]
      g == x.group
      B == {b \in x.rows : status[b] \in Cancellable}
      n == RefundBy(x, g, B, tier)
  IN /\ x.op = "cancel_group"
     /\ Cancelled(x, B, {g})
     /\ pay' = [pay EXCEPT ![g] = ClosedBy(x, g, Marked(g, n))]
     /\ back' = [back EXCEPT ![g] = @ + n]
     /\ UNCHANGED <<arena, past, slotOf, moved>>
     /\ Commit(t)

CommitCancelBooking(t, tier) ==
  LET x == txn[t]
      g == x.group
      n == IF pay[g].status = "completed" /\ ~AllAre(x.rows, "pending_payment")
           THEN IssuedBy(x, g, tier) ELSE 0
  IN /\ x.op = "cancel_booking"
     /\ Cancelled(x, x.rows, {g})
     /\ pay' = [pay EXCEPT ![g] = Marked(g, n)]
     /\ back' = [back EXCEPT ![g] = @ + n]
     /\ UNCHANGED <<arena, past, slotOf, moved>>
     /\ Commit(t)

CommitForceRefund(t) ==
  LET x == txn[t]
      g == x.group
      n == IF x.pay[g].status = "completed" THEN IssuedBy(x, g, 2) ELSE 0
  IN /\ x.op = "force_refund"
     /\ status' = SetStatus(x.rows, "cancelled")
     /\ slot' = SetSlots(SlotsOf(x.rows), "available")
     /\ Restock(x, x.rows)
     /\ pay' = [pay EXCEPT ![g] = Marked(g, n)]
     /\ back' = [back EXCEPT ![g] = @ + n]
     /\ UNCHANGED <<arena, past, slotOf, code, used, moved, match>>
     /\ Commit(t)

CommitSweep(t) ==
  LET x == txn[t]
  IN /\ x.op = "auto_cancel_stale_bookings"
     /\ slot' = SetSlots({s \in SlotsOf(x.rows) : slot[s] = "reserved"}, "available")
     /\ status' = SetStatus(x.rows, "cancelled")
     /\ Restock(x, x.rows)
     /\ release_discount_use({x.group})
     /\ pay' = [pay EXCEPT ![x.group] = ClosedBy(x, x.group, @)]
     /\ UNCHANGED <<arena, past, slotOf, back, moved, match>>
     /\ Commit(t)

CommitClosure(t) ==
  LET x == txn[t]
      B(g) == {b \in x.rows : GroupOf[b] = g}
      G == {g \in Groups : B(g) # {}}
      n(g) == IF g \in G THEN RefundBy(x, g, B(g), 2) ELSE 0
  IN /\ x.op = "close_arena" /\ x.phase = "ready"
     /\ arena' = x.value
     /\ Cancelled(x, x.rows, G)
     /\ pay' = [g \in Groups |->
                  IF g \in G THEN ClosedBy(x, g, Marked(g, n(g))) ELSE pay[g]]
     /\ back' = [g \in Groups |-> back[g] + n(g)]
     /\ UNCHANGED <<past, slotOf, moved>>
     /\ Commit(t)

CommitSlotEdit(t) ==
  LET x == txn[t]
  IN /\ x.op = "update_slot"
     /\ slot' = SetSlots({x.slots[1]}, x.value)
     /\ UNCHANGED <<arena, past, status, slotOf, goods, pay, back, moved, match>>
     /\ Commit(t)

CommitCompletion(t) ==
  LET x == txn[t]
  IN /\ x.op = "complete_finished_bookings"
     /\ status' = SetStatus(x.rows, "completed")
     /\ UNCHANGED <<arena, past, slot, slotOf, goods, pay, back, moved, match>>
     /\ UniqueActiveSlot'
     /\ Commit(t)

CommitMatch(t) ==
  LET x == txn[t]
  IN /\ x.op = "create_match"
     /\ Free(t, {Arena})
     /\ match[x.group] # "live"    \* unique index on live matches
     /\ match' = [match EXCEPT ![x.group] = "live"]
     /\ UNCHANGED <<arena, past, slot, status, slotOf, goods, pay, back, moved>>
     /\ Commit(t)

-----------------------------------------------------------------------------

Reads(t) ==
  \/ \E op \in PayFirst, g \in Groups : LockPayment(t, op, g)
  \/ LockRowsOfPayment(t)
  \/ \E op \in RowsOnly, g \in Groups : LockRows(t, op, g)
  \/ \E g \in Groups : \E B \in (SUBSET {b \in Bookings : GroupOf[b] = g}) \ {{}} :
       \E f \in Injections(B, Slots) : ReadArena(t, g, f)
  \/ \E rent \in BOOLEAN : LockSlots(t, rent)
  \/ \E to \in {"suspended", "removed"} : LockArena(t, to)
  \/ LockFutureRows(t)
  \/ \E s \in Slots : ReadSlot(t, s)
  \/ ReadFinished(t)
  \/ \E g \in Groups : ReadConfirmed(t, g)
  \/ \E b \in Bookings : ReadForced(t, b)

Commits(t) ==
  \/ \E coupon \in BOOLEAN : CommitCheckout(t, coupon)
  \/ \E m \in Method : CommitInitiate(t, m)
  \/ CommitConfirm(t) \/ CommitFail(t) \/ CommitReceipt(t) \/ CommitRelease(t)
  \/ \E tier \in Tiers : CommitCancelGroup(t, tier) \/ CommitCancelBooking(t, tier)
  \/ CommitForceRefund(t) \/ CommitSweep(t) \/ CommitClosure(t)
  \/ CommitSlotEdit(t) \/ CommitCompletion(t) \/ CommitMatch(t)

(* Steps of one transaction that holds no lock when others run.            *)
Background ==
  /\ \/ \E S \in SUBSET Slots : generate_slots(S)
     \/ (\A t \in Txns : txn[t] = Idle) /\ \E s \in Slots : Pass(s)
     \/ (\A t \in Txns : Arena \notin LocksOf(txn[t])) /\ reactivate_arena
  /\ UNCHANGED txn

TxnNext == (\E t \in Txns : Reads(t) \/ Commits(t) \/ Rollback(t)) \/ Background

TxnSpec == Init /\ txn = [t \in Txns |-> Idle] /\ [][TxnNext]_txnVars

-----------------------------------------------------------------------------
(* Properties                                                              *)

(* The row locks make requests atomic: whatever requests run beside it,    *)
(* what a handler that locks its rows commits is one step of the engine.   *)
ImplementsEngine == Spec

(* reserve_for_booking "raises ValidationError if any item ... doesn't     *)
(* have enough units free": never more units on standing bookings than     *)
(* the arena owns.                                                         *)
NeverOverRented == Cardinality(line \cap Indexed(Bookings)) <= Stock

(* _issue_refund: "total refunds against a payment never exceed the        *)
(* captured amount".                                                       *)
RefundsWithinCapture == \A g \in Groups : back[g] <= Amount(g)

(* suspend_arena: "no new bookings or slots, upcoming bookings cancelled". *)
ClosedArenaIsEmpty ==
  arena # "live" => \A b \in Bookings : status[b] \in Cancellable => slotOf[b] \in past

=============================================================================
