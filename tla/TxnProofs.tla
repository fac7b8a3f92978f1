------------------------------ MODULE TxnProofs ------------------------------
(***************************************************************************)
(* Proofs about BookingTxn, for any number of database sessions, slots,    *)
(* bookings and groups.  What a request has read under a row lock is still *)
(* true when it commits, because whoever writes a row first takes its      *)
(* lock: RequestInv says so of every open request at once.                 *)
(* From it follows what money and statuses do whatever the requests; and,  *)
(* for the handlers that lock the rows they change, that each commit is a  *)
(* step of BookingEngine (SerialInv, CommitsAreEngineSteps).               *)
(***************************************************************************)
EXTENDS BookingTxn, BookingEngineProofs

(* The requests that lock every row of their group, once they have.        *)
Whole(x) ==
  \/ x.op \in {"initiate_payment", "release_group", "cancel_group"}
  \/ x.op \in PayFirst /\ x.phase = "ready"

Webhooks == {"webhook_completed", "webhook_failed"}
Deciding == {"approve_bank_transfer", "reject_bank_transfer"}

(* The requests that close the payment they have read unlocked.            *)
Closing == {"release_group", "cancel_group", "auto_cancel_stale_bookings", "close_arena"}

(* What a session keeps, as a record.                                      *)
Fields == {"op", "phase", "group", "rows", "slots", "value", "rent", "pay", "avail",
           "back", "match"}

(* Every field is there, and an idle session has read nothing.             *)
Shape(x) ==
  /\ DOMAIN x = Fields
  /\ x.op \in PayFirst \cup RowsOnly \cup NoLock \cup {"create_booking", "close_arena", "none"}
  /\ x.op = "none" => x = Idle
  /\ x.rows \subseteq Bookings

(* The payment is still as its lock found it.                              *)
PaymentHeld(x) ==
  x.op \in PayFirst =>
    /\ x.group \in Groups /\ x.phase \in {"first", "ready"}
    /\ pay[x.group].status = "pending"
    /\ pay[x.group].method = IF x.op \in Webhooks THEN "gateway" ELSE "bank_transfer"
    /\ x.op \in Deciding => pay[x.group].receipt
    /\ x.phase = "first" => x.rows = {}
    /\ x.phase = "ready" => x.pay[x.group] = pay[x.group]

(* The rows are still as their locks found them.                           *)
RowsHeld(x) ==
  /\ \A b \in x.rows : status[b] # "none"
  /\ x.op \in RowsOnly \cup {"force_refund"} =>
       x.group \in Groups /\ \A b \in x.rows : GroupOf[b] = x.group
  /\ x.op \in RowsOnly => x.rows # {}
  /\ Whole(x) => x.rows = Made(x.group) /\ x.rows # {}
  /\ Whole(x) /\ x.op \in Webhooks \cup {"initiate_payment", "release_group"}
       => AwaitsPayment(x.group)
  /\ x.op = "initiate_payment" => pay[x.group].status \notin {"pending", "completed"}

(* Nobody else makes the rows of a checkout.                               *)
NewRows(x) ==
  x.op = "create_booking" =>
    /\ x.group \in Groups /\ Made(x.group) = {} /\ x.rows = {}
    /\ \A b \in DOMAIN x.slots : b \in Bookings /\ GroupOf[b] = x.group

(* What was read of a payment without a lock may be old, but not so old    *)
(* that a captured payment is taken for an open one.                       *)
PaidSeen(x) ==
  /\ x.op = "complete_finished_bookings" =>
       \A b \in x.rows : pay[GroupOf[b]].status = "completed"
  /\ x.op \in Closing =>
       \A b \in x.rows : x.pay[GroupOf[b]].status = "pending" =>
         PaymentGood(x.pay[GroupOf[b]]) /\ pay[GroupOf[b]].status # "completed"

StillTrue(x) == Shape(x) /\ PaymentHeld(x) /\ RowsHeld(x) /\ NewRows(x) /\ PaidSeen(x)

Standing == \A t \in Txns : StillTrue(txn[t])

(* No row is locked twice, and no group is made twice.                     *)
Apart ==
  \A t, u \in Txns : t # u =>
    /\ LocksOf(txn[t]) \cap LocksOf(txn[u]) = {}
    /\ txn[t].op = "create_booking" /\ txn[u].op = "create_booking"
         => txn[t].group # txn[u].group

(* The books, as far as every handler keeps them.                          *)
Books ==
  /\ DOMAIN txn = Txns /\ DOMAIN pay = Groups
  /\ PaymentsGood
  /\ ConfirmedIsPaid
  /\ PaidIsDecided
  /\ \A g \in Groups : Made(g) = {} => pay[g] = NoPayment

RequestInv == Books /\ Standing /\ Apart

-----------------------------------------------------------------------------
(* Locks                                                                   *)

LEMMA LocksTold ==
  ASSUME NEW x
  PROVE  /\ \A b : Row(b) \in LocksOf(x) <=> b \in x.rows /\ x.op \notin NoLock
         /\ \A g : Payment(g) \in LocksOf(x) <=> g = x.group /\ x.op \in PayFirst
         /\ \A s : Hour(s) \in LocksOf(x) <=>
              /\ x.op = "create_booking" /\ x.phase = "ready"
              /\ \E b \in DOMAIN x.slots : s = x.slots[b]
  BY DEF LocksOf, Row, Payment, Hour, Hours, Arena

LEMMA NoLocksIdle == LocksOf(Idle) = {}
  BY DEF LocksOf, Idle, Hours, PayFirst, NoLock

LEMMA SameLock ==
  ASSUME Apart, NEW t \in Txns, NEW u \in Txns, t # u
  PROVE  /\ txn[t].op \notin NoLock /\ txn[u].op \notin NoLock => txn[t].rows \cap txn[u].rows = {}
         /\ txn[t].op \in PayFirst /\ txn[u].op \in PayFirst => txn[t].group # txn[u].group
<1>1. LocksOf(txn[t]) \cap LocksOf(txn[u]) = {}
  BY DEF Apart
<1>2. ASSUME txn[t].op \notin NoLock, txn[u].op \notin NoLock, NEW b \in txn[t].rows, b \in txn[u].rows
      PROVE FALSE
  <2>1. Row(b) \in LocksOf(txn[t]) /\ Row(b) \in LocksOf(txn[u])
    BY <1>2, LocksTold
  <2> QED BY <1>1, <2>1
<1>3. ASSUME txn[t].op \in PayFirst, txn[u].op \in PayFirst, txn[t].group = txn[u].group
      PROVE FALSE
  <2>1. Payment(txn[t].group) \in LocksOf(txn[t]) /\ Payment(txn[t].group) \in LocksOf(txn[u])
    BY <1>3, LocksTold
  <2> QED BY <1>1, <2>1
<1> QED BY <1>2, <1>3

(* What a commit leaves alone.                                             *)
LEMMA LockedStays ==
  ASSUME NEW t \in Txns, NEW u \in Txns, t # u, Free(t, Written)
  PROVE  /\ txn[u].op \notin NoLock =>
              \A b \in txn[u].rows \cap Bookings : status[b] # "none" => status'[b] = status[b]
         /\ txn[u].op \in PayFirst =>
              \A g \in Groups : g = txn[u].group /\ pay[g] # NoPayment => pay'[g] = pay[g]
         /\ txn[u].op = "create_booking" /\ txn[u].phase = "ready" =>
              \A b \in DOMAIN txn[u].slots : txn[u].slots[b] \in Slots
                => slot'[txn[u].slots[b]] = slot[txn[u].slots[b]]
<1>0. LocksOf(txn[u]) \cap Written = {}
  BY DEF Free
<1>1. ASSUME txn[u].op \notin NoLock, NEW b \in txn[u].rows \cap Bookings, status[b] # "none", status'[b] # status[b]
      PROVE FALSE
  <2>1. Row(b) \in LocksOf(txn[u])
    BY <1>1, LocksTold
  <2>2. Row(b) \in Written
    BY <1>1 DEF Written
  <2> QED BY <1>0, <2>1, <2>2
<1>2. ASSUME txn[u].op \in PayFirst, NEW g \in Groups, g = txn[u].group, pay[g] # NoPayment, pay'[g] # pay[g]
      PROVE FALSE
  <2>1. Payment(g) \in LocksOf(txn[u])
    BY <1>2, LocksTold
  <2>2. Payment(g) \in Written
    BY <1>2 DEF Written
  <2> QED BY <1>0, <2>1, <2>2
<1>3. ASSUME txn[u].op = "create_booking", txn[u].phase = "ready", NEW b \in DOMAIN txn[u].slots,
             txn[u].slots[b] \in Slots, slot'[txn[u].slots[b]] # slot[txn[u].slots[b]]
      PROVE FALSE
  <2>1. Hour(txn[u].slots[b]) \in LocksOf(txn[u])
    BY <1>3, LocksTold
  <2>2. Hour(txn[u].slots[b]) \in Written
    BY <1>3 DEF Written
  <2> QED BY <1>0, <2>1, <2>2
<1> QED BY <1>1, <1>2, <1>3

(* A session that locks what is free, or lets go, stays apart.             *)
LEMMA LockStep ==
  ASSUME Apart, DOMAIN txn = Txns, NEW t \in Txns, NEW x, NEW R,
         txn' = [txn EXCEPT ![t] = x],
         Free(t, R), LocksOf(x) \subseteq LocksOf(txn[t]) \cup R,
         x.op = "create_booking" =>
           \/ txn[t].op = "create_booking" /\ x.group = txn[t].group
           \/ \A u \in Txns : txn[u].group # x.group
  PROVE  Apart'
<1>1. \A u \in Txns : txn'[u] = IF u = t THEN x ELSE txn[u]
  OBVIOUS
<1>2. \A u \in Txns \ {t} : LocksOf(x) \cap LocksOf(txn[u]) = {}
  BY DEF Apart, Free
<1>3. SUFFICES ASSUME NEW u \in Txns, NEW w \in Txns, u # w
      PROVE /\ LocksOf(txn'[u]) \cap LocksOf(txn'[w]) = {}
            /\ txn'[u].op = "create_booking" /\ txn'[w].op = "create_booking" => txn'[u].group # txn'[w].group
  BY DEF Apart
<1>4. CASE u # t /\ w # t
  BY <1>1, <1>3, <1>4 DEF Apart
<1>5. CASE u = t
  BY <1>1, <1>2, <1>3, <1>5 DEF Apart
<1>6. CASE w = t
  BY <1>1, <1>2, <1>3, <1>6 DEF Apart
<1> QED BY <1>4, <1>5, <1>6

-----------------------------------------------------------------------------
(* Reading and locking                                                     *)

LEMMA SameBooks ==
  ASSUME UNCHANGED vars, NEW x, StillTrue(x)
  PROVE  StillTrue(x)'
<1>1. status' = status /\ pay' = pay
  BY DEF vars
<1>2. \A g : Made(g)' = Made(g)
  BY <1>1 DEF Made
<1>3. \A g : AwaitsPayment(g)' <=> AwaitsPayment(g)
  BY <1>1, <1>2 DEF AwaitsPayment, AllAre
<1>4. Shape(x)' /\ PaymentHeld(x)' /\ PaidSeen(x)'
  BY <1>1 DEF StillTrue, Shape, PaymentHeld, PaidSeen
<1>5. RowsHeld(x)' /\ NewRows(x)'
  BY <1>1, <1>2, <1>3 DEF StillTrue, RowsHeld, NewRows
<1> QED BY <1>4, <1>5 DEF StillTrue

(* Of the next state, an open request is spoken of by name.                *)
LEMMA ToldNext ==
  ASSUME NEW u, NEW y, txn'[u] = y, StillTrue(y)'
  PROVE  StillTrue(txn[u])'
  BY DEF StillTrue, Shape, PaymentHeld, RowsHeld, NewRows, PaidSeen, Whole, Made,
         AwaitsPayment, AllAre, PaymentGood

LEMMA ReadKeeps ==
  ASSUME RequestInv, NEW t \in Txns, NEW x, Become(t, x), StillTrue(x),
         NEW R, Free(t, R), LocksOf(x) \subseteq LocksOf(txn[t]) \cup R,
         x.op = "create_booking" =>
           \/ txn[t].op = "create_booking" /\ x.group = txn[t].group
           \/ \A u \in Txns : txn[u].group # x.group
  PROVE  RequestInv'
<1>1. txn' = [txn EXCEPT ![t] = x] /\ UNCHANGED vars
  BY DEF Become
<1>2. \A u \in Txns : txn'[u] = IF u = t THEN x ELSE txn[u]
  BY <1>1 DEF RequestInv, Books
<1>3. Standing'
  <2> SUFFICES ASSUME NEW u \in Txns PROVE StillTrue(txn[u])'
    BY DEF Standing
  <2>1. PICK y : y = txn'[u]
    OBVIOUS
  <2>2. StillTrue(y)
    BY <1>2, <2>1 DEF RequestInv, Standing
  <2>3. StillTrue(y)'
    BY <1>1, <2>2, SameBooks
  <2> QED BY <2>1, <2>3, ToldNext
<1>4. Apart'
  BY <1>1, LockStep DEF RequestInv, Books
<1>5. status' = status /\ pay' = pay /\ slotOf' = slotOf
  BY <1>1 DEF vars
<1>6. \A g : Made(g)' = Made(g)
  BY <1>5 DEF Made
<1>7. Books'
  BY <1>1, <1>5, <1>6 DEF RequestInv, Books, PaymentsGood, ConfirmedIsPaid, PaidIsDecided
<1> QED BY <1>3, <1>4, <1>7 DEF RequestInv

(* What the handlers note down.                                            *)
LEMMA IdleNote ==
  /\ DOMAIN Idle = Fields /\ Shape(Idle) /\ StillTrue(Idle)
  /\ Idle.op = "none" /\ Idle.rows = {} /\ Idle.slots = <<>> /\ Idle.phase = "idle"
<1>1. DOMAIN Idle = Fields
  BY DEF Fields, Idle
<1>2. Idle.op = "none" /\ Idle.rows = {} /\ Idle.slots = <<>> /\ Idle.phase = "idle"
  BY DEF Idle
<1> QED BY <1>1, <1>2 DEF Shape, StillTrue, PaymentHeld, RowsHeld, NewRows, PaidSeen, Whole,
  PayFirst, RowsOnly, Closing

LEMMA ReadyNote ==
  ASSUME NEW x, DOMAIN x = Fields, NEW B
  PROVE  LET y == Ready(x, B)
         IN /\ DOMAIN y = Fields
            /\ y.op = x.op /\ y.phase = "ready" /\ y.group = x.group /\ y.rows = B
            /\ y.slots = x.slots /\ y.value = x.value /\ y.rent = x.rent
            /\ y.pay = pay /\ y.avail = avail /\ y.back = back
            /\ y.match = {g \in Groups : match[g] = "live"}
  BY DEF Ready, Fields

LEMMA FirstNote ==
  ASSUME NEW op, NEW ph, NEW g
  PROVE  LET y == [Idle EXCEPT !.op = op, !.phase = ph, !.group = g]
         IN /\ DOMAIN y = Fields
            /\ y.op = op /\ y.phase = ph /\ y.group = g /\ y.rows = {} /\ y.slots = <<>>
  BY IdleNote DEF Fields

LEMMA OpsApart ==
  /\ PayFirst \cap RowsOnly = {} /\ PayFirst \cap NoLock = {} /\ RowsOnly \cap NoLock = {}
  /\ "create_booking" \notin PayFirst \cup RowsOnly \cup NoLock
  /\ "close_arena" \notin PayFirst \cup RowsOnly \cup NoLock
  /\ "none" \notin PayFirst \cup RowsOnly \cup NoLock
  /\ "force_refund" \in NoLock /\ "complete_finished_bookings" \in NoLock
  /\ Webhooks \cup Deciding \subseteq PayFirst
  BY DEF PayFirst, RowsOnly, NoLock, Webhooks, Deciding

LEMMA FreeAll ==
  ASSUME NEW t
  PROVE  Free(t, {})
  BY DEF Free

LEMMA LockPaymentKeeps ==
  ASSUME RequestInv, NEW t \in Txns, NEW op, NEW g \in Groups, LockPayment(t, op, g)
  PROVE  RequestInv'
<1> DEFINE x == [Idle EXCEPT !.op = op, !.phase = "first", !.group = g]
<1>1. /\ DOMAIN x = Fields
      /\ x.op = op /\ x.phase = "first" /\ x.group = g /\ x.rows = {} /\ x.slots = <<>>
  BY FirstNote
<1>2. /\ Become(t, x) /\ op \in PayFirst /\ Free(t, {Payment(g)}) /\ txn[t] = Idle
      /\ pay[g].status = "pending"
      /\ pay[g].method = IF op \in Webhooks THEN "gateway" ELSE "bank_transfer"
      /\ op \in Deciding => pay[g].receipt
  BY DEF LockPayment, Webhooks, Deciding
<1> HIDE DEF x
<1>3. StillTrue(x)
  BY <1>1, <1>2, OpsApart DEF StillTrue, Shape, PaymentHeld, RowsHeld, NewRows, PaidSeen,
     Whole, Closing, PayFirst, RowsOnly
<1>4. LocksOf(x) \subseteq LocksOf(txn[t]) \cup {Payment(g)}
  BY <1>1, <1>2, OpsApart DEF LocksOf
<1> QED BY <1>1, <1>2, <1>3, <1>4, ReadKeeps, OpsApart

LEMMA MadeRows ==
  \A g, b : b \in Made(g) => b \in Bookings /\ GroupOf[b] = g /\ status[b] # "none"
  BY DEF Made

LEMMA LockRowsOfPaymentKeeps ==
  ASSUME RequestInv, NEW t \in Txns, LockRowsOfPayment(t)
  PROVE  RequestInv'
<1> DEFINE x == txn[t]
           B == Made(x.group)
           y == Ready(x, B)
<1>1. /\ x.op \in PayFirst /\ x.phase = "first"
      /\ Free(t, {Row(b) : b \in B})
      /\ x.op \in Webhooks => AwaitsPayment(x.group)
      /\ Become(t, y)
  BY DEF LockRowsOfPayment, GroupRows, Webhooks
<1>2. StillTrue(x)
  BY DEF RequestInv, Standing
<1>3. /\ DOMAIN y = Fields
      /\ y.op = x.op /\ y.phase = "ready" /\ y.group = x.group /\ y.rows = B
      /\ y.slots = x.slots /\ y.pay = pay
  BY <1>2, ReadyNote DEF StillTrue, Shape
<1>4. /\ x.group \in Groups /\ pay[x.group].status = "pending"
      /\ B # {}
  BY <1>1, <1>2 DEF StillTrue, PaymentHeld, RequestInv, Books, NoPayment
<1>5. PaymentHeld(y)
  BY <1>1, <1>2, <1>3 DEF StillTrue, PaymentHeld
<1>6. RowsHeld(y)
  BY <1>1, <1>3, <1>4, MadeRows DEF RowsHeld, Whole, PayFirst, RowsOnly
<1>7. Shape(y) /\ NewRows(y) /\ PaidSeen(y)
  BY <1>1, <1>2, <1>3, OpsApart, MadeRows DEF StillTrue, Shape, NewRows, PaidSeen, Closing, RowsOnly
<1>8. LocksOf(y) \subseteq LocksOf(x) \cup {Row(b) : b \in B}
  BY <1>1, <1>3, OpsApart DEF LocksOf
<1> HIDE DEF x, y, B
<1>9. StillTrue(y)
  BY <1>5, <1>6, <1>7 DEF StillTrue
<1> QED BY <1>1, <1>3, <1>8, <1>9, ReadKeeps, OpsApart DEF x

(* A request that locks rows at once.                                      *)
Noted(op, g, B) == Ready([Idle EXCEPT !.op = op, !.group = g], B)

LEMMA OpNote ==
  ASSUME NEW op, NEW g, NEW B
  PROVE  LET y == Noted(op, g, B)
         IN /\ DOMAIN y = Fields
            /\ y.op = op /\ y.phase = "ready" /\ y.group = g /\ y.rows = B
            /\ y.slots = <<>> /\ y.pay = pay /\ y.back = back
            /\ y.match = {h \in Groups : match[h] = "live"}
<1>1. PICK z : z = [Idle EXCEPT !.op = op, !.group = g]
  OBVIOUS
<1>2. DOMAIN z = Fields /\ z.op = op /\ z.group = g /\ z.slots = <<>>
  BY <1>1, IdleNote DEF Fields
<1>3. Noted(op, g, B) = Ready(z, B)
  BY <1>1 DEF Noted
<1> QED BY <1>2, <1>3, ReadyNote

LEMMA Refusals ==
  ASSUME NEW op, NEW g, MayProceed(op, g)
  PROVE  /\ op = "initiate_payment" =>
              AwaitsPayment(g) /\ pay[g].status \notin {"pending", "completed"}
         /\ op = "release_group" => AwaitsPayment(g)
         /\ op = "cancel_group" =>
              Live(g) # {} /\ ~AllAre(Live(g), "pending_payment") /\ NotStarted(Live(g))
         /\ op = "cancel_booking" => "cancel_booking" \in PerRow
         /\ op = "auto_cancel_stale_bookings" => Stale({g}) # {}
  BY DEF MayProceed

LEMMA RowsLocked ==
  ASSUME NEW op \in RowsOnly, NEW g, NEW B \in RowsFor(op, g)
  PROVE  /\ op \in {"initiate_payment", "release_group", "cancel_group"} => B = Made(g)
         /\ op = "cancel_booking" => \E b \in Live(g) : B = {b}
         /\ op = "auto_cancel_stale_bookings" => B = Stale({g})
         /\ \A b \in B : b \in Made(g)
<1>1. /\ op \in {"initiate_payment", "release_group", "cancel_group"} => B = Made(g)
      /\ op = "cancel_booking" => \E b \in Live(g) : B = {b}
      /\ op = "auto_cancel_stale_bookings" => B = Stale({g})
  BY DEF RowsFor, GroupRows
<1> QED BY <1>1 DEF RowsOnly, Live, Stale, Made

(* What an operation locks is fit for its commit.                          *)
LEMMA LockRowsKeeps ==
  ASSUME RequestInv, NEW t \in Txns, NEW op \in RowsOnly, NEW g \in Groups, LockRows(t, op, g)
  PROVE  RequestInv'
<1>1. PICK B \in RowsFor(op, g) :
        /\ Free(t, {Row(b) : b \in B})
        /\ Become(t, Noted(op, g, B))
  BY DEF LockRows, Noted
<1>2. txn[t] = Idle /\ Made(g) # {} /\ MayProceed(op, g)
  BY DEF LockRows
<1> DEFINE y == Noted(op, g, B)
<1>3. /\ DOMAIN y = Fields
      /\ y.op = op /\ y.phase = "ready" /\ y.group = g /\ y.rows = B
      /\ y.slots = <<>> /\ y.pay = pay
  BY OpNote
<1>4. Become(t, y)
  BY <1>1
<1> HIDE DEF y
<1>6. \A b \in B : b \in Bookings /\ GroupOf[b] = g /\ status[b] # "none"
  BY RowsLocked, MadeRows
<1>5. RowsHeld(y)
  <2>1. op \in {"initiate_payment", "release_group", "cancel_group"} => B = Made(g)
    BY RowsLocked
  <2>2. op \in {"initiate_payment", "release_group"} => AwaitsPayment(g)
    BY <1>2, Refusals
  <2>3. op = "initiate_payment" => pay[g].status \notin {"pending", "completed"}
    BY <1>2, Refusals
  <2>4. op \notin PayFirst /\ op \notin Webhooks
    BY OpsApart
  <2>5. B # {}
    <3>0. op = "auto_cancel_stale_bookings" => B = Stale({g})
      BY RowsLocked
    <3>3. op = "auto_cancel_stale_bookings" => Stale({g}) # {}
      BY <1>2, Refusals
    <3>1. op = "cancel_booking" => B # {}
      BY DEF RowsFor
    <3>2. op = "auto_cancel_stale_bookings" => B # {}
      BY <3>0, <3>3
    <3> QED BY <1>2, <2>1, <3>1, <3>2 DEF RowsOnly
  <2> QED BY <1>2, <1>3, <1>6, <2>1, <2>2, <2>3, <2>4, <2>5 DEF RowsHeld, Whole
<1>7. PaidSeen(y)
  BY <1>3, <1>6, OpsApart DEF PaidSeen, RequestInv, Books, PaymentsGood
<1>8. Shape(y) /\ PaymentHeld(y) /\ NewRows(y)
  BY <1>3, <1>6, OpsApart DEF Shape, PaymentHeld, NewRows
<1>9. LocksOf(y) \subseteq LocksOf(txn[t]) \cup {Row(b) : b \in B}
  BY <1>3, OpsApart DEF LocksOf, Hours
<1>10. StillTrue(y)
  BY <1>5, <1>7, <1>8 DEF StillTrue
<1> QED BY <1>1, <1>3, <1>4, <1>9, <1>10, ReadKeeps, OpsApart

LEMMA ReadArenaKeeps ==
  ASSUME RequestInv, NEW t \in Txns, NEW g \in Groups,
         NEW B \in SUBSET {b \in Bookings : GroupOf[b] = g}, NEW f \in Injections(B, Slots),
         ReadArena(t, g, f)
  PROVE  RequestInv'
<1> DEFINE y == [Idle EXCEPT !.op = "create_booking", !.phase = "read", !.group = g, !.slots = f]
<1>1. /\ DOMAIN y = Fields
      /\ y.op = "create_booking" /\ y.phase = "read" /\ y.group = g /\ y.rows = {} /\ y.slots = f
  BY IdleNote DEF Fields
<1>2. /\ Become(t, y) /\ Made(g) = {} /\ \A u \in Txns : txn[u].group # g
  BY DEF ReadArena
<1> HIDE DEF y
<1>3. \A b \in DOMAIN f : b \in Bookings /\ GroupOf[b] = g
  BY DEF Injections
<1>4. StillTrue(y)
  BY <1>1, <1>2, <1>3, OpsApart DEF StillTrue, Shape, PaymentHeld, RowsHeld, NewRows, PaidSeen, Whole, Closing
<1>5. LocksOf(y) \subseteq LocksOf(txn[t]) \cup {}
  BY <1>1, OpsApart DEF LocksOf
<1> QED BY <1>1, <1>2, <1>4, <1>5, FreeAll, ReadKeeps

LEMMA LockSlotsKeeps ==
  ASSUME RequestInv, NEW t \in Txns, NEW rent \in BOOLEAN, LockSlots(t, rent)
  PROVE  RequestInv'
<1> DEFINE x == txn[t]
           z == [x EXCEPT !.rent = rent]
           y == Ready(z, {})
<1>1. /\ x.op = "create_booking" /\ x.phase = "read"
      /\ Free(t, Hours(x.slots))
      /\ Become(t, y)
  BY DEF LockSlots
<1>2. StillTrue(x)
  BY DEF RequestInv, Standing
<1>3. DOMAIN z = Fields /\ z.op = x.op /\ z.group = x.group /\ z.slots = x.slots
  BY <1>2 DEF StillTrue, Shape, Fields
<1> HIDE DEF z
<1>4. /\ DOMAIN y = Fields
      /\ y.op = x.op /\ y.phase = "ready" /\ y.group = x.group /\ y.rows = {}
      /\ y.slots = x.slots
  BY <1>3, ReadyNote
<1> HIDE DEF x, y
<1>5. StillTrue(y)
  BY <1>1, <1>2, <1>4, OpsApart DEF StillTrue, Shape, PaymentHeld, RowsHeld, NewRows, PaidSeen, Whole, Closing
<1>6. LocksOf(y) \subseteq LocksOf(txn[t]) \cup Hours(x.slots)
  BY <1>1, <1>4, OpsApart DEF LocksOf
<1> QED BY <1>1, <1>4, <1>5, <1>6, ReadKeeps DEF x

LEMMA LockArenaKeeps ==
  ASSUME RequestInv, NEW t \in Txns, NEW to, LockArena(t, to)
  PROVE  RequestInv'
<1> DEFINE y == [Idle EXCEPT !.op = "close_arena", !.phase = "first", !.value = to]
<1>1. DOMAIN y = Fields /\ y.op = "close_arena" /\ y.phase = "first" /\ y.rows = {} /\ y.slots = <<>>
  BY IdleNote DEF Fields
<1>2. Become(t, y) /\ Free(t, {Arena})
  BY DEF LockArena
<1> HIDE DEF y
<1>3. StillTrue(y)
  BY <1>1, <1>2, OpsApart DEF StillTrue, Shape, PaymentHeld, RowsHeld, NewRows, PaidSeen, Whole
<1>4. LocksOf(y) \subseteq LocksOf(txn[t]) \cup {Arena}
  BY <1>1, OpsApart DEF LocksOf
<1> QED BY <1>1, <1>2, <1>3, <1>4, ReadKeeps

LEMMA LockFutureRowsKeeps ==
  ASSUME RequestInv, NEW t \in Txns, LockFutureRows(t)
  PROVE  RequestInv'
<1> DEFINE x == txn[t]
           B == {b \in Bookings : status[b] \in Cancellable /\ slotOf[b] \notin past}
           y == Ready(x, B)
<1>1. /\ x.op = "close_arena"
      /\ Free(t, {Row(b) : b \in B})
      /\ Become(t, y)
  BY DEF LockFutureRows
<1>2. StillTrue(x)
  BY DEF RequestInv, Standing
<1>3. /\ DOMAIN y = Fields
      /\ y.op = x.op /\ y.phase = "ready" /\ y.group = x.group /\ y.rows = B
      /\ y.slots = x.slots /\ y.pay = pay
  BY <1>2, ReadyNote DEF StillTrue, Shape
<1>4. \A b \in B : b \in Bookings /\ status[b] # "none" /\ GroupOf[b] \in Groups
  BY GroupAssumption DEF Cancellable
<1> HIDE DEF x, y, B
<1>5. PaidSeen(y)
  BY <1>1, <1>3, <1>4 DEF PaidSeen, RequestInv, Books, PaymentsGood
<1>6. Shape(y) /\ PaymentHeld(y) /\ RowsHeld(y) /\ NewRows(y)
  BY <1>1, <1>3, <1>4, OpsApart DEF Shape, PaymentHeld, RowsHeld, NewRows, Whole
<1>7. StillTrue(y)
  BY <1>5, <1>6 DEF StillTrue
<1>8. LocksOf(y) \subseteq LocksOf(txn[t]) \cup {Row(b) : b \in B}
  BY <1>1, <1>3, OpsApart DEF LocksOf, x
<1> QED BY <1>1, <1>3, <1>7, <1>8, ReadKeeps

LEMMA UnlockedReadsKeep ==
  ASSUME RequestInv, NEW t \in Txns,
         \/ \E s \in Slots : ReadSlot(t, s)
         \/ ReadFinished(t)
         \/ \E g \in Groups : ReadConfirmed(t, g)
         \/ \E b \in Bookings : ReadForced(t, b)
         \/ Rollback(t)
  PROVE  RequestInv'
<1>0. ASSUME NEW y, Become(t, y), StillTrue(y), y.op # "create_booking", LocksOf(y) = {}
      PROVE  RequestInv'
  BY <1>0, FreeAll, ReadKeeps
<1>1. ASSUME NEW s \in Slots, ReadSlot(t, s) PROVE RequestInv'
  <2> DEFINE y == [Idle EXCEPT !.op = "update_slot", !.phase = "ready", !.slots = <<s>>,
                     !.value = IF slot[s] = "available" THEN "maintenance" ELSE "available"]
  <2>1. DOMAIN y = Fields /\ y.op = "update_slot" /\ y.rows = {}
    BY IdleNote DEF Fields
  <2>2. Become(t, y)
    BY <1>1 DEF ReadSlot
  <2> HIDE DEF y
  <2>3. StillTrue(y)
    BY <2>1 DEF StillTrue, Shape, PaymentHeld, RowsHeld, NewRows, PaidSeen, Whole, PayFirst, NoLock, RowsOnly, Closing
  <2>4. LocksOf(y) = {}
    BY <2>1 DEF LocksOf, NoLock, PayFirst
  <2> QED BY <1>0, <2>1, <2>2, <2>3, <2>4
<1>2. ASSUME ReadFinished(t) PROVE RequestInv'
  <2> DEFINE y == [Idle EXCEPT !.op = "complete_finished_bookings", !.phase = "ready", !.rows = Finished]
  <2>1. DOMAIN y = Fields /\ y.op = "complete_finished_bookings" /\ y.rows = Finished
    BY IdleNote DEF Fields
  <2>2. Become(t, y)
    BY <1>2 DEF ReadFinished
  <2>3. \A b \in Finished : b \in Bookings /\ status[b] # "none" /\ pay[GroupOf[b]].status = "completed"
    BY DEF Finished, RequestInv, Books, ConfirmedIsPaid
  <2> HIDE DEF y
  <2>4. StillTrue(y)
    BY <2>1, <2>3 DEF StillTrue, Shape, PaymentHeld, RowsHeld, NewRows, PaidSeen, Whole, PayFirst, NoLock, RowsOnly, Closing
  <2>5. LocksOf(y) = {}
    BY <2>1 DEF LocksOf, NoLock, PayFirst
  <2> QED BY <1>0, <2>1, <2>2, <2>4, <2>5
<1>3. ASSUME NEW g \in Groups, ReadConfirmed(t, g) PROVE RequestInv'
  <2> DEFINE y == [Idle EXCEPT !.op = "create_match", !.phase = "ready", !.group = g]
  <2>1. DOMAIN y = Fields /\ y.op = "create_match" /\ y.rows = {}
    BY IdleNote DEF Fields
  <2>2. Become(t, y)
    BY <1>3 DEF ReadConfirmed
  <2> HIDE DEF y
  <2>3. StillTrue(y)
    BY <2>1 DEF StillTrue, Shape, PaymentHeld, RowsHeld, NewRows, PaidSeen, Whole, PayFirst, NoLock, RowsOnly, Closing
  <2>4. LocksOf(y) = {}
    BY <2>1 DEF LocksOf, NoLock, PayFirst
  <2> QED BY <1>0, <2>1, <2>2, <2>3, <2>4
<1>4. ASSUME NEW b \in Bookings, ReadForced(t, b) PROVE RequestInv'
  <2> DEFINE B == {c \in {b} : status[c] \notin Dead}
             y == Noted("force_refund", GroupOf[b], B)
  <2>1. DOMAIN y = Fields /\ y.op = "force_refund" /\ y.rows = B /\ y.group = GroupOf[b]
    BY OpNote
  <2>2. status[b] # "none" /\ Become(t, y)
    BY <1>4 DEF ReadForced, Noted
  <2> HIDE DEF y
  <2>3. StillTrue(y)
    BY <2>1, <2>2, GroupAssumption DEF StillTrue, Shape, PaymentHeld, RowsHeld, NewRows, PaidSeen, Whole, PayFirst, NoLock, RowsOnly, Closing
  <2>4. LocksOf(y) = {}
    BY <2>1 DEF LocksOf, NoLock, PayFirst
  <2> QED BY <1>0, <2>1, <2>2, <2>3, <2>4
<1>5. ASSUME Rollback(t) PROVE RequestInv'
  BY <1>0, <1>5, IdleNote, NoLocksIdle DEF Rollback
<1> QED BY <1>1, <1>2, <1>3, <1>4, <1>5

-----------------------------------------------------------------------------
(* Commits                                                                 *)

(* What every commit has in common: rows are made by checkouts alone, what *)
(* was captured stays captured, and only a request that holds every row of *)
(* a group opens or completes its payment.                                 *)
Committed(t) ==
  /\ Free(t, Written) /\ txn' = [txn EXCEPT ![t] = Idle]
  /\ \A b \in Bookings :
       /\ status[b] # "none" => status'[b] # "none"
       /\ status[b] = "none" /\ status'[b] # "none" =>
            txn[t].op = "create_booking" /\ GroupOf[b] = txn[t].group
  /\ \A g \in Groups :
       /\ pay[g].status = "completed" => pay'[g].status = "completed"
       /\ pay'[g].status \in {"pending", "completed"} /\ pay'[g].status # pay[g].status =>
            Whole(txn[t]) /\ txn[t].group = g
  /\ Books'

LEMMA WholeLocks ==
  ASSUME NEW x, Whole(x)
  PROVE  x.op \notin NoLock /\ x.op # "create_booking"
  BY DEF Whole, PayFirst, NoLock

LEMMA OthersStand ==
  ASSUME RequestInv, NEW t \in Txns, NEW u \in Txns, t # u, Committed(t),
         NEW y, y = txn[u]
  PROVE  StillTrue(y)'
<1>0. /\ StillTrue(y) /\ StillTrue(txn[t])
      /\ Free(t, Written)
  BY DEF RequestInv, Standing, Committed
<1>1. \A b \in Bookings :
        /\ status[b] # "none" => status'[b] # "none"
        /\ status[b] = "none" /\ status'[b] # "none" =>
             txn[t].op = "create_booking" /\ GroupOf[b] = txn[t].group
  BY DEF Committed
<1>2. \A g \in Groups :
        /\ pay[g].status = "completed" => pay'[g].status = "completed"
        /\ pay'[g].status \in {"pending", "completed"} /\ pay'[g].status # pay[g].status =>
             Whole(txn[t]) /\ txn[t].group = g
  BY DEF Committed
<1>3. ASSUME NEW g \in Groups, ~(txn[t].op = "create_booking" /\ txn[t].group = g)
      PROVE  Made(g)' = Made(g)
  BY <1>1, <1>3 DEF Made
<1>4. y.op \notin NoLock => \A b \in y.rows : status'[b] = status[b]
  BY <1>0, LockedStays DEF StillTrue, Shape, RowsHeld
<1>5. y.op \in PayFirst => pay'[y.group] = pay[y.group]
  BY <1>0, LockedStays DEF StillTrue, PaymentHeld, NoPayment
<1>6. ASSUME NEW g \in Groups, NEW b \in y.rows, GroupOf[b] = g, y.op \notin NoLock,
             Whole(txn[t]), txn[t].group = g
      PROVE  FALSE
  <2>1. b \in Made(g)
    BY <1>0, <1>6 DEF StillTrue, Shape, RowsHeld, Made
  <2>2. b \in txn[t].rows
    BY <1>0, <1>6, <2>1 DEF StillTrue, RowsHeld
  <2> QED BY <1>6, <2>2, SameLock, WholeLocks DEF RequestInv
<1>7. Shape(y)' /\ PaymentHeld(y)'
  BY <1>0, <1>5 DEF StillTrue, Shape, PaymentHeld
<1>8. RowsHeld(y)'
  <2>1. \A b \in y.rows : b \in Bookings /\ status'[b] # "none"
    BY <1>0, <1>1 DEF StillTrue, Shape, RowsHeld
  <2>2. ASSUME Whole(y)
        PROVE  /\ y.group \in Groups
               /\ y.rows = Made(y.group) /\ y.rows # {}
               /\ Made(y.group)' = Made(y.group)
               /\ \A b \in y.rows : GroupOf[b] = y.group /\ status'[b] = status[b]
    <3>1. y.group \in Groups /\ y.rows = Made(y.group) /\ y.rows # {}
      BY <1>0, <2>2 DEF StillTrue, RowsHeld, PaymentHeld, Whole, RowsOnly
    <3>2. \A b \in y.rows : GroupOf[b] = y.group
      BY <3>1, MadeRows
    <3>3. ~(txn[t].op = "create_booking" /\ txn[t].group = y.group)
      BY <1>0, <3>1 DEF StillTrue, NewRows
    <3> QED BY <1>3, <1>4, <2>2, <3>1, <3>2, <3>3, WholeLocks
  <2>3. ASSUME Whole(y), AwaitsPayment(y.group) PROVE AwaitsPayment(y.group)'
    BY <2>2, <2>3 DEF AwaitsPayment, AllAre
  <2>4. ASSUME y.op = "initiate_payment"
        PROVE  pay'[y.group].status \notin {"pending", "completed"}
    <3>1. Whole(y) /\ pay[y.group].status \notin {"pending", "completed"}
      BY <1>0, <2>4 DEF Whole, StillTrue, RowsHeld
    <3>2. \E b \in y.rows : GroupOf[b] = y.group
      BY <2>2, <3>1
    <3> QED BY <1>2, <1>6, <2>2, <3>1, <3>2, WholeLocks
  <2> QED BY <1>0, <2>1, <2>2, <2>3, <2>4 DEF StillTrue, RowsHeld, Whole
<1>9. NewRows(y)'
  <2>1. ASSUME y.op = "create_booking" PROVE Made(y.group)' = Made(y.group)
    <3>1. ~(txn[t].op = "create_booking" /\ txn[t].group = y.group)
      BY <2>1 DEF RequestInv, Apart
    <3> QED BY <1>0, <1>3, <2>1, <3>1 DEF StillTrue, NewRows
  <2> QED BY <1>0, <2>1 DEF StillTrue, NewRows
<1>10. PaidSeen(y)'
  <2>1. \A b \in y.rows : GroupOf[b] \in Groups
    BY <1>0, GroupAssumption DEF StillTrue, Shape
  <2>2. ASSUME y.op \in Closing, NEW b \in y.rows, pay[GroupOf[b]].status # "completed"
        PROVE  pay'[GroupOf[b]].status # "completed"
    <3>1. y.op \notin NoLock
      BY <2>2 DEF Closing, NoLock
    <3> QED BY <1>2, <1>6, <2>1, <2>2, <3>1
  <2> QED BY <1>0, <1>2, <2>1, <2>2 DEF StillTrue, PaidSeen, PaymentGood
<1> QED BY <1>7, <1>8, <1>9, <1>10 DEF StillTrue

LEMMA CommitKeeps ==
  ASSUME RequestInv, NEW t \in Txns, Committed(t)
  PROVE  RequestInv'
<1>1. Books' /\ txn' = [txn EXCEPT ![t] = Idle]
  BY DEF Committed
<1>2. \A u \in Txns : txn'[u] = IF u = t THEN Idle ELSE txn[u]
  BY <1>1 DEF RequestInv, Books
<1>3. Standing'
  <2> SUFFICES ASSUME NEW u \in Txns PROVE StillTrue(txn[u])'
    BY DEF Standing
  <2>1. CASE u = t
    <3>1. txn'[u] = Idle
      BY <1>2, <2>1
    <3>2. StillTrue(Idle)'
      BY IdleNote DEF Shape, StillTrue, PaymentHeld, RowsHeld, NewRows, PaidSeen, Whole,
         PayFirst, RowsOnly, Closing
    <3> QED BY <3>1, <3>2, ToldNext
  <2>2. CASE u # t
    <3>1. PICK y : y = txn[u]
      OBVIOUS
    <3>2. StillTrue(y)'
      BY <2>2, <3>1, OthersStand
    <3>3. txn'[u] = y
      BY <1>2, <2>2, <3>1
    <3> QED BY <3>2, <3>3, ToldNext
  <2> QED BY <2>1, <2>2
<1>4. Apart'
  BY <1>1, FreeAll, IdleNote, NoLocksIdle, LockStep DEF RequestInv, Books
<1> QED BY <1>1, <1>3, <1>4 DEF RequestInv

(* A payment after a commit that neither opens nor captures one.           *)
Settled(p, q) ==
  /\ PaymentGood(q)
  /\ q.status = "completed" <=> p.status = "completed"
  /\ q.status = "pending" => p.status = "pending"

LEMMA GentleCommit ==
  ASSUME RequestInv, NEW t \in Txns, Commit(t), NEW B, B \subseteq Bookings,
         NEW v \in {"cancelled", "rejected", "completed", "pending_approval"},
         \A b \in Bookings : status'[b] = IF b \in B THEN v ELSE status[b],
         \A b \in B :
           /\ status[b] # "none"
           /\ v = "completed" => pay[GroupOf[b]].status = "completed"
           /\ v \in {"rejected", "pending_approval"} => pay[GroupOf[b]].status # "completed",
         DOMAIN pay' = Groups,
         \A g \in Groups : Settled(pay[g], pay'[g]) /\ (Made(g) = {} => pay'[g] = NoPayment)
  PROVE  RequestInv'
<1>1. \A b \in Bookings : status'[b] = "none" <=> status[b] = "none"
  OBVIOUS
<1>2. \A g \in Groups : Made(g)' = Made(g)
  BY <1>1, MadeKept
<1>3. \A b \in Bookings : GroupOf[b] \in Groups
  BY GroupAssumption
<1>4. ConfirmedIsPaid'
  BY <1>3 DEF ConfirmedIsPaid, RequestInv, Books, Settled
<1>5. PaidIsDecided'
  <2> SUFFICES ASSUME NEW g \in Groups, pay'[g].status = "completed", NEW b \in Made(g)
               PROVE  status'[b] \in {"confirmed", "completed", "cancelled"}
    BY <1>2 DEF PaidIsDecided
  <2>1. b \in Bookings /\ GroupOf[b] = g /\ pay[g].status = "completed"
    BY MadeRows DEF Settled
  <2>2. status[b] \in {"confirmed", "completed", "cancelled"}
    BY <2>1 DEF RequestInv, Books, PaidIsDecided
  <2> QED BY <2>1, <2>2
<1>6. DOMAIN txn' = Txns /\ Free(t, Written) /\ txn' = [txn EXCEPT ![t] = Idle]
  BY DEF Commit, RequestInv, Books
<1>7. Books'
  BY <1>2, <1>4, <1>5, <1>6 DEF Books, PaymentsGood, Settled
<1>8. Committed(t)
  BY <1>1, <1>6, <1>7 DEF Committed, Settled
<1> QED BY <1>8, CommitKeeps

LEMMA SamePayment ==
  ASSUME PaymentsGood, NEW g \in Groups
  PROVE  Settled(pay[g], pay[g])
  BY DEF Settled, PaymentsGood

LEMMA MarkedSettled ==
  ASSUME PaymentsGood, NEW g \in Groups, NEW n
  PROVE  /\ Settled(pay[g], Marked(g, n))
         /\ pay[g] = NoPayment => Marked(g, n) = NoPayment
         /\ Marked(g, n).status = pay[g].status
<1>1. Follows(pay[g], Marked(g, n))
  BY MarkedFollows
<1>2. pay[g] \in PaymentRows \cup {NoPayment}
  BY DEF PaymentsGood, PaymentGood
<1>3. Marked(g, n).status = pay[g].status
  BY <1>2 DEF Marked, PaymentRows, NoPayment
<1> QED BY <1>1, <1>3 DEF Settled, Follows

LEMMA ClosedSettled ==
  ASSUME RequestInv, NEW t \in Txns, txn[t].op \in Closing, NEW b \in txn[t].rows, 
         NEW g \in Groups, g = GroupOf[b], NEW p, Settled(pay[g], p)
  PROVE  Settled(pay[g], ClosedBy(txn[t], g, p))
<1> DEFINE x == txn[t]
<1>1. x.pay[g].status = "pending" => PaymentGood(x.pay[g]) /\ pay[g].status # "completed"
  BY DEF RequestInv, Standing, StillTrue, PaidSeen
<1>2. CASE x.pay[g].status = "pending"
  <2>1. PaymentGood(x.pay[g]) /\ pay[g].status # "completed"
    BY <1>1, <1>2
  <2>2. Follows(x.pay[g], Closed(x.pay[g]))
    BY <2>1, ClosedFollows
  <2>3. Closed(x.pay[g]).status # "pending"
    BY <1>2, <2>1 DEF Closed, Advanced, PaymentGood, PaymentRows
  <2>4. ClosedBy(x, g, p) = Closed(x.pay[g])
    BY <1>2 DEF ClosedBy
  <2> QED BY <1>2, <2>1, <2>2, <2>3, <2>4 DEF Settled, Follows
<1>3. CASE x.pay[g].status # "pending"
  BY <1>3 DEF ClosedBy
<1> QED BY <1>2, <1>3

(* The payment of a group with a row in hand.                              *)
LEMMA RowInHand ==
  ASSUME RequestInv, NEW t \in Txns
  PROVE  \A b \in txn[t].rows : b \in Bookings /\ status[b] # "none" /\ b \in Made(GroupOf[b])
  BY DEF RequestInv, Standing, StillTrue, Shape, RowsHeld, Made

-----------------------------------------------------------------------------
(* The commits, one by one                                                 *)

LEMMA NoRowsCommit ==
  ASSUME RequestInv, NEW t \in Txns, Commit(t), status' = status, pay' = pay
  PROVE  RequestInv'
<1>1. DOMAIN pay' = Groups /\ \A g \in Groups : Made(g) = {} => pay'[g] = NoPayment
  BY DEF RequestInv, Books
<1>2. \A g \in Groups : Settled(pay[g], pay'[g])
  BY SamePayment DEF RequestInv, Books
<1> DEFINE B == {}
<1>3. /\ \A b \in Bookings : status'[b] = IF b \in B THEN "cancelled" ELSE status[b]
      /\ B \subseteq Bookings /\ \A b \in B : FALSE
  OBVIOUS
<1> HIDE DEF B
<1> QED BY <1>1, <1>2, <1>3, GentleCommit

LEMMA ReleaseCommit ==
  ASSUME RequestInv, NEW t \in Txns, CommitRelease(t)
  PROVE  RequestInv'
<1> DEFINE x == txn[t]
<1>1. /\ x.op = "release_group" /\ Commit(t)
      /\ status' = SetStatus(x.rows, "cancelled")
      /\ pay' = [pay EXCEPT ![x.group] = ClosedBy(x, x.group, @)]
  BY DEF CommitRelease, Cancelled
<1>2. x.group \in Groups /\ x.rows # {} /\ x.rows = Made(x.group)
  BY <1>1 DEF RequestInv, Standing, StillTrue, RowsHeld, Whole, RowsOnly
<1>3. PICK b \in x.rows : TRUE
  BY <1>2
<1>4. /\ DOMAIN pay' = Groups
      /\ \A g \in Groups : pay'[g] = IF g = x.group THEN ClosedBy(x, x.group, pay[x.group]) ELSE pay[g]
  BY <1>1, <1>2 DEF RequestInv, Books
<1>5. \A g \in Groups : Settled(pay[g], pay[g])
  BY SamePayment DEF RequestInv, Books
<1>6. GroupOf[b] = x.group
  BY <1>2, <1>3, MadeRows
<1>7. Settled(pay[x.group], ClosedBy(x, x.group, pay[x.group]))
  BY <1>1, <1>2, <1>5, <1>6, ClosedSettled DEF Closing
<1>8. \A g \in Groups : Settled(pay[g], pay'[g]) /\ (Made(g) = {} => pay'[g] = NoPayment)
  BY <1>2, <1>4, <1>5, <1>7 DEF RequestInv, Books
<1>9. \A c \in Bookings : status'[c] = IF c \in x.rows THEN "cancelled" ELSE status[c]
  BY <1>1 DEF SetStatus
<1>10. x.rows \subseteq Bookings /\ \A c \in x.rows : status[c] # "none"
  BY RowInHand
<1> HIDE DEF x
<1> QED BY <1>1, <1>4, <1>8, <1>9, <1>10, GentleCommit

LEMMA CancelGroupCommit ==
  ASSUME RequestInv, NEW t \in Txns, NEW tier, CommitCancelGroup(t, tier)
  PROVE  RequestInv'
<1> DEFINE x == txn[t]
           B == {c \in x.rows : status[c] \in Cancellable}
           n == RefundBy(x, x.group, B, tier)
           p == Marked(x.group, n)
<1>1. /\ x.op = "cancel_group" /\ Commit(t)
      /\ status' = SetStatus(B, "cancelled")
      /\ pay' = [pay EXCEPT ![x.group] = ClosedBy(x, x.group, p)]
  BY DEF CommitCancelGroup, Cancelled
<1>2. x.group \in Groups /\ x.rows # {} /\ x.rows = Made(x.group)
  BY <1>1 DEF RequestInv, Standing, StillTrue, RowsHeld, Whole, RowsOnly
<1>3. PICK b \in x.rows : TRUE
  BY <1>2
<1> HIDE DEF n
<1>4. /\ DOMAIN pay' = Groups
      /\ \A g \in Groups : pay'[g] = IF g = x.group THEN ClosedBy(x, x.group, p) ELSE pay[g]
  BY <1>1, <1>2 DEF RequestInv, Books
<1>5. Settled(pay[x.group], p) /\ \A g \in Groups : Settled(pay[g], pay[g])
  BY <1>2, SamePayment, MarkedSettled DEF RequestInv, Books
<1>6. GroupOf[b] = x.group
  BY <1>2, <1>3, MadeRows
<1> HIDE DEF p
<1>7. Settled(pay[x.group], ClosedBy(x, x.group, p))
  BY <1>1, <1>2, <1>5, <1>6, ClosedSettled DEF Closing
<1>8. \A g \in Groups : Settled(pay[g], pay'[g]) /\ (Made(g) = {} => pay'[g] = NoPayment)
  BY <1>2, <1>4, <1>5, <1>7 DEF RequestInv, Books
<1>9. \A c \in Bookings : status'[c] = IF c \in B THEN "cancelled" ELSE status[c]
  BY <1>1 DEF SetStatus
<1>10. B \subseteq Bookings /\ \A c \in B : status[c] # "none"
  BY RowInHand
<1> HIDE DEF x, B
<1> QED BY <1>1, <1>4, <1>8, <1>9, <1>10, GentleCommit

(* Rows cancelled, the payment only marked: one row alone, or by an admin. *)
LEMMA MarkedCommit ==
  ASSUME RequestInv, NEW t \in Txns, txn[t].op \in {"cancel_booking", "force_refund"},
         Commit(t), status' = SetStatus(txn[t].rows, "cancelled"),
         NEW n, pay' = [pay EXCEPT ![txn[t].group] = Marked(txn[t].group, n)]
  PROVE  RequestInv'
<1> DEFINE x == txn[t]
<1>1. x.group \in Groups
  BY DEF RequestInv, Standing, StillTrue, RowsHeld, RowsOnly
<1>2. /\ DOMAIN pay' = Groups
      /\ \A g \in Groups : pay'[g] = IF g = x.group THEN Marked(x.group, n) ELSE pay[g]
  BY <1>1 DEF RequestInv, Books
<1>3. /\ Settled(pay[x.group], Marked(x.group, n))
      /\ pay[x.group] = NoPayment => Marked(x.group, n) = NoPayment
      /\ \A g \in Groups : Settled(pay[g], pay[g])
  BY <1>1, SamePayment, MarkedSettled DEF RequestInv, Books
<1>4. \A g \in Groups : Settled(pay[g], pay'[g]) /\ (Made(g) = {} => pay'[g] = NoPayment)
  BY <1>1, <1>2, <1>3 DEF RequestInv, Books
<1>5. \A c \in Bookings : status'[c] = IF c \in x.rows THEN "cancelled" ELSE status[c]
  BY DEF SetStatus
<1>6. x.rows \subseteq Bookings /\ \A c \in x.rows : status[c] # "none"
  BY RowInHand
<1> HIDE DEF x
<1> QED BY <1>2, <1>4, <1>5, <1>6, GentleCommit

LEMMA SweepCommit ==
  ASSUME RequestInv, NEW t \in Txns, CommitSweep(t)
  PROVE  RequestInv'
<1> DEFINE x == txn[t]
<1>1. /\ x.op = "auto_cancel_stale_bookings" /\ Commit(t)
      /\ status' = SetStatus(x.rows, "cancelled")
      /\ pay' = [pay EXCEPT ![x.group] = ClosedBy(x, x.group, @)]
  BY DEF CommitSweep
<1>2. x.group \in Groups /\ \A b \in x.rows : GroupOf[b] = x.group
  BY <1>1 DEF RequestInv, Standing, StillTrue, RowsHeld, RowsOnly
<1>4. /\ DOMAIN pay' = Groups
      /\ \A g \in Groups : pay'[g] = IF g = x.group THEN ClosedBy(x, x.group, pay[x.group]) ELSE pay[g]
  BY <1>1, <1>2 DEF RequestInv, Books
<1>5. \A g \in Groups : Settled(pay[g], pay[g])
  BY SamePayment DEF RequestInv, Books
<1>3. x.rows # {}
  BY <1>1 DEF RequestInv, Standing, StillTrue, RowsHeld, RowsOnly
<1>6. Settled(pay[x.group], ClosedBy(x, x.group, pay[x.group])) /\ Made(x.group) # {}
  BY <1>1, <1>2, <1>3, <1>5, ClosedSettled, RowInHand DEF Closing
<1>8. \A g \in Groups : Settled(pay[g], pay'[g]) /\ (Made(g) = {} => pay'[g] = NoPayment)
  BY <1>2, <1>4, <1>5, <1>6 DEF RequestInv, Books
<1>9. \A c \in Bookings : status'[c] = IF c \in x.rows THEN "cancelled" ELSE status[c]
  BY <1>1 DEF SetStatus
<1>10. x.rows \subseteq Bookings /\ \A c \in x.rows : status[c] # "none"
  BY RowInHand
<1> HIDE DEF x
<1> QED BY <1>1, <1>4, <1>8, <1>9, <1>10, GentleCommit

LEMMA ClosureCommit ==
  ASSUME RequestInv, NEW t \in Txns, CommitClosure(t)
  PROVE  RequestInv'
<1> DEFINE x == txn[t]
           B(g) == {b \in x.rows : GroupOf[b] = g}
           G == {g \in Groups : B(g) # {}}
           n(g) == IF g \in G THEN RefundBy(x, g, B(g), 2) ELSE 0
<1>1. /\ x.op = "close_arena" /\ Commit(t)
      /\ status' = SetStatus(x.rows, "cancelled")
      /\ pay' = [g \in Groups |-> IF g \in G THEN ClosedBy(x, g, Marked(g, n(g))) ELSE pay[g]]
  BY DEF CommitClosure, Cancelled
<1>2. \A g \in G : g \in Groups /\ \E b \in x.rows : GroupOf[b] = g
  OBVIOUS
<1>3. PICK m : m = [g \in Groups |-> n(g)]
  OBVIOUS
<1>4. \A g \in Groups : pay'[g] = IF g \in G THEN ClosedBy(x, g, Marked(g, m[g])) ELSE pay[g]
  BY <1>1, <1>3
<1>5. DOMAIN pay' = Groups
  BY <1>1
<1> HIDE DEF G, n
<1>6. ASSUME NEW g \in G PROVE Settled(pay[g], ClosedBy(x, g, Marked(g, m[g]))) /\ Made(g) # {}
  <2>1. PICK b \in x.rows : GroupOf[b] = g /\ g \in Groups
    BY <1>2, <1>6
  <2>2. Settled(pay[g], Marked(g, m[g]))
    BY <2>1, MarkedSettled DEF RequestInv, Books
  <2>3. x.op \in Closing
    BY <1>1 DEF Closing
  <2>4. PICK p : p = Marked(g, m[g])
    OBVIOUS
  <2>5. Settled(pay[g], ClosedBy(x, g, p))
    BY <2>1, <2>2, <2>3, <2>4, ClosedSettled
  <2>6. Made(g) # {}
    BY <2>1, RowInHand
  <2> QED BY <2>4, <2>5, <2>6
<1>7. \A g \in Groups : Settled(pay[g], pay[g])
  BY SamePayment DEF RequestInv, Books
<1>8. \A g \in Groups : Settled(pay[g], pay'[g]) /\ (Made(g) = {} => pay'[g] = NoPayment)
  BY <1>4, <1>6, <1>7 DEF RequestInv, Books
<1>9. \A c \in Bookings : status'[c] = IF c \in x.rows THEN "cancelled" ELSE status[c]
  BY <1>1 DEF SetStatus
<1>10. x.rows \subseteq Bookings /\ \A c \in x.rows : status[c] # "none"
  BY RowInHand
<1> HIDE DEF x
<1> QED BY <1>1, <1>5, <1>8, <1>9, <1>10, GentleCommit

LEMMA CompletionCommit ==
  ASSUME RequestInv, NEW t \in Txns, CommitCompletion(t)
  PROVE  RequestInv'
<1> DEFINE x == txn[t]
<1>1. /\ x.op = "complete_finished_bookings" /\ Commit(t)
      /\ status' = SetStatus(x.rows, "completed") /\ pay' = pay
  BY DEF CommitCompletion
<1>2. DOMAIN pay' = Groups /\ \A g \in Groups : Made(g) = {} => pay'[g] = NoPayment
  BY <1>1 DEF RequestInv, Books
<1>3. \A g \in Groups : Settled(pay[g], pay'[g])
  BY <1>1, SamePayment DEF RequestInv, Books
<1>4. \A c \in Bookings : status'[c] = IF c \in x.rows THEN "completed" ELSE status[c]
  BY <1>1 DEF SetStatus
<1>5. x.rows \subseteq Bookings /\ \A c \in x.rows : status[c] # "none"
  BY RowInHand
<1>6. \A c \in x.rows : pay[GroupOf[c]].status = "completed"
  BY <1>1 DEF RequestInv, Standing, StillTrue, PaidSeen
<1> HIDE DEF x
<1> QED BY <1>1, <1>2, <1>3, <1>4, <1>5, <1>6, GentleCommit

(* A request that locked the payment meets it as it found it.              *)
LEMMA OpenInHand ==
  ASSUME RequestInv, NEW t \in Txns, txn[t].op \in PayFirst, txn[t].phase = "ready"
  PROVE  LET x == txn[t]
         IN /\ x.group \in Groups
            /\ x.rows = Made(x.group) /\ x.rows # {}
            /\ x.pay[x.group] = pay[x.group]
            /\ pay[x.group] \in PaymentRows /\ pay[x.group].status = "pending"
            /\ \A b \in x.rows : b \in Bookings /\ GroupOf[b] = x.group /\ status[b] # "none"
<1> DEFINE x == txn[t]
<1>1. StillTrue(x)
  BY DEF RequestInv, Standing
<1>2. /\ x.group \in Groups
      /\ x.rows = Made(x.group) /\ x.rows # {}
      /\ x.pay[x.group] = pay[x.group] /\ pay[x.group].status = "pending"
  BY <1>1 DEF StillTrue, PaymentHeld, RowsHeld, Whole
<1>3. PaymentGood(pay[x.group])
  BY <1>2 DEF RequestInv, Books, PaymentsGood
<1>4. pay[x.group] \in PaymentRows
  BY <1>2, <1>3 DEF PaymentGood, NoPayment
<1> QED BY <1>2, <1>4, MadeRows

LEMMA FailCommit ==
  ASSUME RequestInv, NEW t \in Txns, CommitFail(t)
  PROVE  RequestInv'
<1> DEFINE x == txn[t]
           v == IF x.op = "reject_bank_transfer" THEN "rejected" ELSE "cancelled"
           l == IF x.op = "reject_bank_transfer" THEN "rejected" ELSE "failed"
<1>1. /\ x.op \in PayFirst /\ x.phase = "ready" /\ Commit(t)
      /\ pay' = [pay EXCEPT ![x.group] = Advanced(@, "failed", l)]
      /\ status' = SetStatus(x.rows, v)
  BY DEF CommitFail, PayFirst
<1>2. /\ x.group \in Groups
      /\ pay[x.group] \in PaymentRows /\ pay[x.group].status = "pending"
      /\ \A b \in x.rows : b \in Bookings /\ GroupOf[b] = x.group /\ status[b] # "none"
      /\ Made(x.group) # {}
  BY <1>1, OpenInHand
<1>3. v \in {"cancelled", "rejected"} /\ l \in {"rejected", "failed"}
  OBVIOUS
<1> HIDE DEF v, l
<1>4. /\ Advanced(pay[x.group], "failed", l) \in PaymentRows
      /\ Advanced(pay[x.group], "failed", l).status = "failed"
      /\ Advanced(pay[x.group], "failed", l).life = l
  BY <1>2, <1>3 DEF Advanced, PaymentRows, PaymentStatus, Lifecycle
<1>5. Settled(pay[x.group], Advanced(pay[x.group], "failed", l))
  BY <1>2, <1>3, <1>4 DEF Settled, PaymentGood, ClosedLife
<1>6. /\ DOMAIN pay' = Groups
      /\ \A g \in Groups : pay'[g] = IF g = x.group THEN Advanced(pay[x.group], "failed", l) ELSE pay[g]
  BY <1>1, <1>2 DEF RequestInv, Books
<1>7. \A g \in Groups : Settled(pay[g], pay[g])
  BY SamePayment DEF RequestInv, Books
<1>8. \A g \in Groups : Settled(pay[g], pay'[g]) /\ (Made(g) = {} => pay'[g] = NoPayment)
  BY <1>2, <1>5, <1>6, <1>7 DEF RequestInv, Books
<1>9. \A c \in Bookings : status'[c] = IF c \in x.rows THEN v ELSE status[c]
  BY <1>1 DEF SetStatus
<1>10. x.rows \subseteq Bookings /\ \A c \in x.rows : status[c] # "none" /\ pay[GroupOf[c]].status # "completed"
  BY <1>2
<1> HIDE DEF x
<1> QED BY <1>1, <1>3, <1>6, <1>8, <1>9, <1>10, GentleCommit

LEMMA ReceiptCommit ==
  ASSUME RequestInv, NEW t \in Txns, CommitReceipt(t)
  PROVE  RequestInv'
<1> DEFINE x == txn[t]
           q == pay'[x.group]
<1>1. /\ x.op = "upload_receipt" /\ x.phase = "ready" /\ Commit(t)
      /\ pay' = [pay EXCEPT ![x.group].receipt = TRUE,
           ![x.group].life = IF x.pay[x.group].life = "pending_approval" THEN @ ELSE "pending_approval"]
      /\ status' = SetStatus(x.rows, "pending_approval")
  BY DEF CommitReceipt
<1>2. /\ x.group \in Groups
      /\ x.pay[x.group] = pay[x.group]
      /\ pay[x.group] \in PaymentRows /\ pay[x.group].status = "pending"
      /\ \A b \in x.rows : b \in Bookings /\ GroupOf[b] = x.group /\ status[b] # "none"
      /\ Made(x.group) # {}
  BY <1>1, OpenInHand DEF PayFirst
<1>3. pay[x.group].method = "bank_transfer"
  BY <1>1 DEF RequestInv, Standing, StillTrue, PaymentHeld, PayFirst, Webhooks
<1>4. /\ DOMAIN pay' = Groups
      /\ \A g \in Groups : g # x.group => pay'[g] = pay[g]
      /\ q \in PaymentRows /\ q.status = "pending" /\ q.method = "bank_transfer"
      /\ q.receipt = TRUE /\ q.life = "pending_approval"
  BY <1>1, <1>2, <1>3 DEF RequestInv, Books, PaymentRows, Lifecycle
<1>5. Settled(pay[x.group], q)
  BY <1>2, <1>4 DEF Settled, PaymentGood
<1>7. \A g \in Groups : Settled(pay[g], pay[g])
  BY SamePayment DEF RequestInv, Books
<1>8. \A g \in Groups : Settled(pay[g], pay'[g]) /\ (Made(g) = {} => pay'[g] = NoPayment)
  BY <1>2, <1>4, <1>5, <1>7 DEF RequestInv, Books
<1>9. \A c \in Bookings : status'[c] = IF c \in x.rows THEN "pending_approval" ELSE status[c]
  BY <1>1 DEF SetStatus
<1>10. x.rows \subseteq Bookings /\ \A c \in x.rows : status[c] # "none" /\ pay[GroupOf[c]].status # "completed"
  BY <1>2
<1> HIDE DEF x, q
<1> QED BY <1>1, <1>4, <1>8, <1>9, <1>10, GentleCommit

LEMMA InitiateCommit ==
  ASSUME RequestInv, NEW t \in Txns, NEW m \in Method, CommitInitiate(t, m)
  PROVE  RequestInv'
<1> DEFINE x == txn[t]
           q == [status |-> "pending", method |-> m, receipt |-> FALSE,
                 life |-> IF m = "gateway" THEN "initiated" ELSE "pending"]
<1>1. /\ x.op = "initiate_payment" /\ Commit(t)
      /\ pay' = [pay EXCEPT ![x.group] = q] /\ status' = status
  BY DEF CommitInitiate
<1>2. /\ x.group \in Groups /\ x.rows = Made(x.group) /\ x.rows # {}
      /\ AwaitsPayment(x.group) /\ pay[x.group].status \notin {"pending", "completed"}
      /\ Whole(x)
  BY <1>1 DEF RequestInv, Standing, StillTrue, RowsHeld, Whole, RowsOnly
<1>3. PaymentGood(q) /\ q.status = "pending"
  BY DEF PaymentGood, PaymentRows, Method, PaymentStatus, Lifecycle
<1> HIDE DEF q
<1>4. /\ DOMAIN pay' = Groups
      /\ \A g \in Groups : pay'[g] = IF g = x.group THEN q ELSE pay[g]
  BY <1>1, <1>2 DEF RequestInv, Books
<1>5. \A g \in Groups : Made(g)' = Made(g)
  BY <1>1 DEF Made
<1>6. \A b \in Bookings : GroupOf[b] = x.group /\ status[b] # "none" => status[b] = "pending_payment"
  BY <1>2 DEF AwaitsPayment, AllAre, Made
<1>7. ConfirmedIsPaid'
  <2> SUFFICES ASSUME NEW b \in Bookings, status[b] \in {"confirmed", "completed"}
               PROVE  pay'[GroupOf[b]].status = "completed"
    BY <1>1 DEF ConfirmedIsPaid
  <2>1. pay[GroupOf[b]].status = "completed" /\ GroupOf[b] \in Groups
    BY GroupAssumption DEF RequestInv, Books, ConfirmedIsPaid
  <2>2. GroupOf[b] # x.group
    BY <1>6
  <2> QED BY <1>4, <2>1, <2>2
<1>8. PaidIsDecided'
  BY <1>1, <1>3, <1>4, <1>5 DEF RequestInv, Books, PaidIsDecided
<1>9. DOMAIN txn' = Txns /\ Free(t, Written) /\ txn' = [txn EXCEPT ![t] = Idle]
  BY <1>1 DEF Commit, RequestInv, Books
<1>10. Books'
  BY <1>2, <1>3, <1>4, <1>5, <1>7, <1>8, <1>9 DEF RequestInv, Books, PaymentsGood
<1>11. Committed(t)
  BY <1>1, <1>2, <1>3, <1>4, <1>9, <1>10 DEF Committed
<1> QED BY <1>11, CommitKeeps

LEMMA ConfirmCommit ==
  ASSUME RequestInv, NEW t \in Txns, CommitConfirm(t)
  PROVE  RequestInv'
<1> DEFINE x == txn[t]
           q == Advanced(pay[x.group], "completed", "confirmed")
<1>1. /\ x.op \in PayFirst /\ x.phase = "ready" /\ Commit(t)
      /\ pay' = [pay EXCEPT ![x.group] = q] /\ status' = SetStatus(x.rows, "confirmed")
  BY DEF CommitConfirm, PayFirst
<1>2. /\ x.group \in Groups
      /\ pay[x.group] \in PaymentRows /\ pay[x.group].status = "pending"
      /\ \A b \in x.rows : b \in Bookings /\ GroupOf[b] = x.group /\ status[b] # "none"
      /\ x.rows = Made(x.group) /\ x.rows # {} /\ Whole(x)
  BY <1>1, OpenInHand DEF Whole
<1>3. PaymentGood(q) /\ q.status = "completed"
  <2>1. q \in PaymentRows /\ q.status = "completed" /\ q.life = "confirmed"
    BY <1>2 DEF Advanced, PaymentRows, PaymentStatus, Lifecycle
  <2> QED BY <2>1 DEF PaymentGood, PaidLife
<1> HIDE DEF q
<1>4. /\ DOMAIN pay' = Groups
      /\ \A g \in Groups : pay'[g] = IF g = x.group THEN q ELSE pay[g]
  BY <1>1, <1>2 DEF RequestInv, Books
<1>5. \A c \in Bookings : status'[c] = IF c \in x.rows THEN "confirmed" ELSE status[c]
  BY <1>1 DEF SetStatus
<1>6. \A g \in Groups : Made(g)' = Made(g)
  BY <1>2, <1>5 DEF Made
<1>7. ConfirmedIsPaid'
  <2> SUFFICES ASSUME NEW b \in Bookings, status'[b] \in {"confirmed", "completed"}
               PROVE  pay'[GroupOf[b]].status = "completed"
    BY DEF ConfirmedIsPaid
  <2>1. GroupOf[b] \in Groups
    BY GroupAssumption
  <2>2. b \notin x.rows => pay[GroupOf[b]].status = "completed"
    BY <1>5 DEF RequestInv, Books, ConfirmedIsPaid
  <2> QED BY <1>2, <1>3, <1>4, <2>1, <2>2
<1>8. PaidIsDecided'
  <2> SUFFICES ASSUME NEW g \in Groups, pay'[g].status = "completed", NEW b \in Made(g)
               PROVE  status'[b] \in {"confirmed", "completed", "cancelled"}
    BY <1>6 DEF PaidIsDecided
  <2>1. CASE g = x.group
    BY <1>2, <1>5, <2>1
  <2>2. CASE g # x.group
    BY <1>2, <1>4, <1>5, <2>2, MadeRows DEF RequestInv, Books, PaidIsDecided
  <2> QED BY <2>1, <2>2
<1>9. DOMAIN txn' = Txns /\ Free(t, Written) /\ txn' = [txn EXCEPT ![t] = Idle]
  BY <1>1 DEF Commit, RequestInv, Books
<1>10. Books'
  BY <1>2, <1>3, <1>4, <1>6, <1>7, <1>8, <1>9 DEF RequestInv, Books, PaymentsGood
<1>11. Committed(t)
  BY <1>1, <1>2, <1>3, <1>4, <1>5, <1>9, <1>10 DEF Committed
<1> QED BY <1>11, CommitKeeps

LEMMA CheckoutCommit ==
  ASSUME RequestInv, NEW t \in Txns, NEW coupon \in BOOLEAN, CommitCheckout(t, coupon)
  PROVE  RequestInv'
<1> DEFINE x == txn[t]
           B == DOMAIN x.slots
<1>1. /\ x.op = "create_booking" /\ Commit(t) /\ pay' = pay
      /\ status' = SetStatus(B, "pending_payment")
  BY DEF CommitCheckout
<1>2. /\ x.group \in Groups /\ Made(x.group) = {}
      /\ \A b \in B : b \in Bookings /\ GroupOf[b] = x.group
  BY <1>1 DEF RequestInv, Standing, StillTrue, NewRows
<1>3. \A c \in Bookings : status'[c] = IF c \in B THEN "pending_payment" ELSE status[c]
  BY <1>1 DEF SetStatus
<1>4. \A b \in B : status[b] = "none"
  BY <1>2 DEF Made
<1>5. pay[x.group] = NoPayment
  BY <1>2 DEF RequestInv, Books
<1> HIDE DEF B
<1>6. ConfirmedIsPaid'
  BY <1>1, <1>3 DEF RequestInv, Books, ConfirmedIsPaid
<1>7. PaidIsDecided'
  <2> SUFFICES ASSUME NEW g \in Groups, pay[g].status = "completed",
                      NEW b \in Bookings, GroupOf[b] = g, status'[b] # "none"
               PROVE  status'[b] \in {"confirmed", "completed", "cancelled"}
    BY <1>1 DEF PaidIsDecided, Made
  <2>1. b \notin B
    BY <1>2, <1>5 DEF NoPayment
  <2> QED BY <1>3, <2>1 DEF RequestInv, Books, PaidIsDecided, Made
<1>8. \A g \in Groups : Made(g)' = {} => Made(g) = {}
  BY <1>3, <1>4 DEF Made
<1>9. DOMAIN txn' = Txns /\ Free(t, Written) /\ txn' = [txn EXCEPT ![t] = Idle]
  BY <1>1 DEF Commit, RequestInv, Books
<1>10. Books'
  BY <1>1, <1>6, <1>7, <1>8, <1>9 DEF RequestInv, Books, PaymentsGood
<1>11. Committed(t)
  BY <1>1, <1>2, <1>3, <1>9, <1>10 DEF Committed
<1> QED BY <1>11, CommitKeeps

-----------------------------------------------------------------------------
(* The inductive invariant                                                 *)

LEMMA ReadsKeep ==
  ASSUME RequestInv, NEW t \in Txns, Reads(t)
  PROVE  RequestInv'
<1>1. ASSUME NEW g \in Groups, NEW B \in (SUBSET {b \in Bookings : GroupOf[b] = g}) \ {{}},
             NEW f \in Injections(B, Slots), ReadArena(t, g, f)
      PROVE  RequestInv'
  BY <1>1, ReadArenaKeeps
<1> QED BY <1>1, LockPaymentKeeps, LockRowsOfPaymentKeeps, LockRowsKeeps, LockSlotsKeeps,
     LockArenaKeeps, LockFutureRowsKeeps, UnlockedReadsKeep DEF Reads

LEMMA CommitsKeep ==
  ASSUME RequestInv, NEW t \in Txns, Commits(t)
  PROVE  RequestInv'
<1>1. ASSUME NEW tier \in Tiers, CommitCancelBooking(t, tier) PROVE RequestInv'
  BY <1>1, MarkedCommit DEF CommitCancelBooking, Cancelled
<1>2. ASSUME CommitForceRefund(t) PROVE RequestInv'
  BY <1>2, MarkedCommit DEF CommitForceRefund
<1>3. ASSUME CommitSlotEdit(t) \/ CommitMatch(t) PROVE RequestInv'
  BY <1>3, NoRowsCommit DEF CommitSlotEdit, CommitMatch
<1> QED BY <1>1, <1>2, <1>3, CheckoutCommit, InitiateCommit, ConfirmCommit, FailCommit,
     ReceiptCommit, ReleaseCommit, CancelGroupCommit, SweepCommit, ClosureCommit,
     CompletionCommit DEF Commits

LEMMA QuietKeeps ==
  ASSUME RequestInv, UNCHANGED <<status, pay, txn>>
  PROVE  RequestInv'
<1>1. \A g : Made(g)' = Made(g)
  BY DEF Made
<1>2. Books'
  BY <1>1 DEF RequestInv, Books, PaymentsGood, ConfirmedIsPaid, PaidIsDecided
<1>3. Standing' /\ Apart'
  BY DEF RequestInv, Standing, Apart, StillTrue, Shape, PaymentHeld, RowsHeld, NewRows,
     PaidSeen, Whole, Made, AwaitsPayment, AllAre
<1> QED BY <1>2, <1>3 DEF RequestInv

LEMMA RequestsStart == Init /\ txn = [t \in Txns |-> Idle] => RequestInv
<1> SUFFICES ASSUME Init, txn = [t \in Txns |-> Idle] PROVE RequestInv
  OBVIOUS
<1>1. Books
  <2>1. \A g \in Groups : Made(g) = {} /\ pay[g] = NoPayment
    BY DEF Init, Made
  <2> QED BY <2>1 DEF Books, Init, PaymentsGood, PaymentGood, NoPayment, ConfirmedIsPaid, PaidIsDecided
<1>2. Standing /\ Apart
  BY IdleNote, NoLocksIdle DEF Standing, Apart
<1> QED BY <1>1, <1>2 DEF RequestInv

LEMMA RequestsStep == RequestInv /\ [TxnNext]_txnVars => RequestInv'
<1> SUFFICES ASSUME RequestInv, [TxnNext]_txnVars PROVE RequestInv'
  OBVIOUS
<1>1. CASE \E t \in Txns : Reads(t) \/ Commits(t) \/ Rollback(t)
  BY <1>1, ReadsKeep, CommitsKeep, UnlockedReadsKeep
<1>2. CASE Background
  BY <1>2, QuietKeeps DEF Background, generate_slots, Pass, reactivate_arena
<1>3. CASE UNCHANGED txnVars
  BY <1>3, QuietKeeps DEF txnVars, vars
<1> QED BY <1>1, <1>2, <1>3 DEF TxnNext

LEMMA RequestsHold == TxnSpec => []RequestInv
  BY RequestsStart, RequestsStep, PTL DEF TxnSpec

-----------------------------------------------------------------------------
(* Nobody plays unpaid, however many requests run beside each other: the   *)
(* row locks keep whoever captures the payment of a group and whoever ends *)
(* its rows apart.                                                         *)
THEOREM NobodyPlaysUnpaidBeside == TxnSpec => []ConfirmedIsPaid
<1>1. RequestInv => ConfirmedIsPaid
  BY DEF RequestInv, Books
<1> QED BY <1>1, RequestsHold, PTL

(* Captured money is not left on an undecided booking either.              *)
THEOREM MoneyIsDecidedBeside == TxnSpec => []PaidIsDecided
<1>1. RequestInv => PaidIsDecided
  BY DEF RequestInv, Books
<1> QED BY <1>1, RequestsHold, PTL

(* The two statuses of a payment do not part, although half of the         *)
(* handlers write what they have read without a lock.                      *)
THEOREM StatusesAgreeBeside == TxnSpec => []LifecycleAgrees
<1>1. RequestInv => LifecycleAgrees
  <2> SUFFICES ASSUME RequestInv, NEW g \in Groups
               PROVE  /\ pay[g].status = "pending" => pay[g].life \in OpenLife
                      /\ pay[g].status = "completed" => pay[g].life \in PaidLife
                      /\ pay[g].status = "failed" => pay[g].life \in ClosedLife
                      /\ pay[g].status # "refunded"
    BY DEF LifecycleAgrees
  <2>1. PaymentGood(pay[g])
    BY DEF RequestInv, Books, PaymentsGood
  <2> QED BY <2>1 DEF PaymentGood, OpenLife
<1> QED BY <1>1, RequestsHold, PTL

-----------------------------------------------------------------------------
(***************************************************************************)
(* The handlers that lock the rows they change, beside each other.         *)
(* Equipment is left out (Stock = 0): its count is read without a lock.    *)
(***************************************************************************)
OnlyLocking == Stock = 0 /\ Ops \subseteq PayFirst \cup RowsOnly \cup {"create_booking"}

DeadRows(g) == {b \in Made(g) : status[b] \in Dead}

(* Money goes back only for rows that have ended, so where a row stands    *)
(* there is room for its refund.                                           *)
RefundIsDue(g) ==
  back[g] # 0 =>
    \/ pay[g].status = "completed" /\ back[g] <= 2 * Cardinality(DeadRows(g))
    \/ pay[g].status = "failed" /\ ~AwaitsPayment(g)

(* Without the owner, the admin and the matches.                           *)
Calm ==
  /\ arena = "live" /\ line = {}
  /\ \A g \in Groups : match[g] # "live"
  /\ \A g \in Groups : RefundIsDue(g)

(* The payment that a closing handler has seen is the one it meets, where  *)
(* it matters: while either of them is open.                               *)
PaymentSeen(x) ==
  x.op \in Closing =>
    (x.pay[x.group].status = "pending" \/ pay[x.group].status = "pending"
       => x.pay[x.group] = pay[x.group])

(* What a cancellation was allowed by still holds, and no refund that      *)
(* matters to it was issued since.                                         *)
CancelSeen(x) ==
  LET g == x.group
  IN /\ x.op = "cancel_group" =>
          /\ x.back[g] = back[g]
          /\ Live(g) # {} /\ ~AllAre(Live(g), "pending_payment") /\ NotStarted(Live(g))
     /\ x.op = "cancel_booking" =>
          /\ "cancel_booking" \in PerRow
          /\ x.back[g] \in Nat /\ x.back[g] <= back[g]
          /\ \E b \in Live(g) : x.rows = {b}

(* Nobody ends a stale row that the sweep has locked, or makes another.    *)
StaleSeen(x) ==
  x.op = "auto_cancel_stale_bookings" => x.rows = Stale({x.group})

(* The hours of a checkout are still to come and, once locked, free.       *)
HoursSeen(x) ==
  x.op = "create_booking" =>
    /\ DOMAIN x.slots # {} /\ x.slots \in Injections(DOMAIN x.slots, Slots)
    /\ \A b \in DOMAIN x.slots : x.slots[b] \notin past
    /\ x.phase = "ready" =>
         ~x.rent /\ \A b \in DOMAIN x.slots : slot[x.slots[b]] = "available"

MayGoOn(x) ==
  /\ x.op \in PayFirst \cup RowsOnly \cup {"create_booking", "none"}
  /\ x.match = {}
  /\ PaymentSeen(x) /\ CancelSeen(x) /\ StaleSeen(x) /\ HoursSeen(x)

SerialInv == RequestInv /\ IInv /\ Calm /\ \A t \in Txns : MayGoOn(txn[t])

-----------------------------------------------------------------------------
(* Commits are steps of the engine                                         *)

LEMMA NothingToRestock ==
  ASSUME TypeOK, line = {}, NEW x, NEW B, Restock(x, B)
  PROVE  ReleaseEquipment(B)
<1>1. B \cap line = {} /\ avail \in Nat
  BY LimitAssumption DEF TypeOK
<1>2. Cardinality(B \cap line) = 0
  BY <1>1, FS_EmptySet
<1> QED BY <1>1, <1>2 DEF Restock, ReleaseEquipment

LEMMA NobodyToTell ==
  ASSUME Calm, NEW x, x.match = {}, NEW G, TellMatch(x, G)
  PROVE  follow_booking_cancelled(G)
  BY DEF Calm, TellMatch, follow_booking_cancelled

LEMMA CancelledApplies ==
  ASSUME TypeOK, Calm, NEW x, x.match = {}, NEW B, NEW G, Cancelled(x, B, G)
  PROVE  apply_cancellation(B, G)
<1>1. ReleaseEquipment(B)
  BY NothingToRestock DEF Calm, Cancelled
<1>2. follow_booking_cancelled(G)
  BY NobodyToTell DEF Cancelled
<1> QED BY <1>1, <1>2 DEF Cancelled, apply_cancellation

LEMMA OpenCloses ==
  ASSUME PaymentsGood, NEW G, G \subseteq Groups
  PROVE  CanClose(G)
<1> SUFFICES ASSUME NEW g \in G, pay[g].status = "pending" PROVE CanAdvance(pay[g].life, "expired")
  BY DEF CanClose
<1>1. pay[g].life \in {"initiated", "pending_approval", "pending"}
  BY DEF PaymentsGood, PaymentGood
<1> QED BY <1>1 DEF CanAdvance, CanTransition, ALLOWED_TRANSITIONS

LEMMA ClosedSeen ==
  ASSUME NEW x, x.op \in Closing, PaymentSeen(x), NEW g, g = x.group,
         NEW p, p.status = pay[g].status, pay[g].status = "pending" => p = pay[g]
  PROVE  ClosedBy(x, g, p) = Closed(p)
  BY DEF PaymentSeen, ClosedBy, Closed

(* The request for a commit, and what it may rely on.                      *)
LEMMA Relied ==
  ASSUME SerialInv, NEW t \in Txns
  PROVE  /\ StillTrue(txn[t]) /\ MayGoOn(txn[t]) /\ txn[t].match = {}
         /\ TypeOK /\ Calm /\ PaymentsGood
         /\ txn[t].op \in RowsOnly => txn[t].group \in Groups
         /\ Whole(txn[t]) =>
              /\ txn[t].group \in Groups
              /\ txn[t].rows = Made(txn[t].group) /\ txn[t].rows # {}
<1>1. StillTrue(txn[t]) /\ MayGoOn(txn[t]) /\ txn[t].match = {} /\ TypeOK /\ Calm /\ PaymentsGood
  BY DEF SerialInv, RequestInv, Standing, MayGoOn, IInv
<1> QED BY <1>1 DEF StillTrue, RowsHeld, PaymentHeld, Whole, RowsOnly

LEMMA ConfirmStep ==
  ASSUME SerialInv, NEW t \in Txns, CommitConfirm(t)
  PROVE  LET g == txn[t].group
         IN g \in Groups /\ (handle_webhook(g, TRUE) \/ approve_bank_transfer(g))
<1> DEFINE x == txn[t]
           g == x.group
<1>1. x.op \in {"webhook_completed", "approve_bank_transfer"} /\ x.phase = "ready"
  BY DEF CommitConfirm
<1>2. Whole(x) /\ x.op \in PayFirst
  BY <1>1 DEF Whole, PayFirst
<1>3. g \in Groups /\ x.rows = GroupRows(g)
  BY <1>2, Relied DEF GroupRows
<1>4. /\ pay[g].status = "pending" /\ x.pay[g] = pay[g]
      /\ x.op = "webhook_completed" => pay[g].method = "gateway" /\ AwaitsPayment(g)
      /\ x.op = "approve_bank_transfer" => pay[g].method = "bank_transfer" /\ pay[g].receipt
  BY <1>1, <1>2, Relied DEF StillTrue, PaymentHeld, RowsHeld, Webhooks, Deciding
<1>5. confirm_group(g)
  BY <1>3, <1>4 DEF CommitConfirm, confirm_group
<1> QED BY <1>1, <1>3, <1>4, <1>5 DEF handle_webhook, approve_bank_transfer, OwnerMayDecide

LEMMA FailStep ==
  ASSUME SerialInv, NEW t \in Txns, CommitFail(t)
  PROVE  LET g == txn[t].group
         IN g \in Groups /\ (handle_webhook(g, FALSE) \/ reject_bank_transfer(g))
<1> DEFINE x == txn[t]
           g == x.group
<1>1. x.op \in {"webhook_failed", "reject_bank_transfer"} /\ x.phase = "ready"
  BY DEF CommitFail
<1>2. Whole(x) /\ x.op \in PayFirst
  BY <1>1 DEF Whole, PayFirst
<1>3. g \in Groups /\ x.rows = GroupRows(g)
  BY <1>2, Relied DEF GroupRows
<1>4. /\ pay[g].status = "pending" /\ x.pay[g] = pay[g]
      /\ x.op = "webhook_failed" => pay[g].method = "gateway" /\ AwaitsPayment(g)
      /\ x.op = "reject_bank_transfer" => pay[g].method = "bank_transfer" /\ pay[g].receipt
  BY <1>1, <1>2, Relied DEF StillTrue, PaymentHeld, RowsHeld, Webhooks, Deciding
<1>5. ReleaseEquipment(x.rows)
  BY Relied, NothingToRestock DEF CommitFail, Calm
<1>6. CASE x.op = "webhook_failed"
  <2>1. fail_group(g, "failed", "cancelled")
    BY <1>3, <1>4, <1>5, <1>6 DEF CommitFail, fail_group
  <2> QED BY <1>3, <1>4, <1>6, <2>1 DEF handle_webhook
<1>7. CASE x.op = "reject_bank_transfer"
  <2>1. fail_group(g, "rejected", "rejected")
    BY <1>3, <1>4, <1>5, <1>7 DEF CommitFail, fail_group
  <2> QED BY <1>3, <1>4, <1>7, <2>1 DEF reject_bank_transfer, OwnerMayDecide
<1> QED BY <1>1, <1>6, <1>7

LEMMA ReceiptStep ==
  ASSUME SerialInv, NEW t \in Txns, CommitReceipt(t)
  PROVE  txn[t].group \in Groups /\ upload_receipt(txn[t].group)
<1> DEFINE x == txn[t]
           g == x.group
<1>1. x.op = "upload_receipt" /\ x.phase = "ready"
  BY DEF CommitReceipt
<1>2. Whole(x) /\ x.op \in PayFirst
  BY <1>1 DEF Whole, PayFirst
<1>3. g \in Groups /\ x.rows = GroupRows(g)
  BY <1>2, Relied DEF GroupRows
<1>4. pay[g].status = "pending" /\ x.pay[g] = pay[g] /\ pay[g].method = "bank_transfer"
  BY <1>1, <1>2, Relied DEF StillTrue, PaymentHeld, Webhooks
<1>5. pay' = [pay EXCEPT ![g].receipt = TRUE, ![g].life = "pending_approval"]
  BY <1>3, <1>4, Relied DEF CommitReceipt, TypeOK, PaymentRows, NoPayment
<1> QED BY <1>3, <1>4, <1>5 DEF CommitReceipt, upload_receipt

LEMMA InitiateStep ==
  ASSUME SerialInv, NEW t \in Txns, NEW m \in Method, CommitInitiate(t, m)
  PROVE  txn[t].group \in Groups /\ initiate_payment(txn[t].group, m)
<1> DEFINE x == txn[t]
<1>1. x.op = "initiate_payment"
  BY DEF CommitInitiate
<1>2. /\ x.group \in Groups /\ Made(x.group) # {} /\ AwaitsPayment(x.group)
      /\ pay[x.group].status \notin {"pending", "completed"}
  BY <1>1, Relied DEF StillTrue, RowsHeld, Whole
<1>3. initiate_payment(x.group, m)
  BY <1>2 DEF CommitInitiate, initiate_payment, AwaitsPayment
<1> QED BY <1>2, <1>3

LEMMA ReleaseStep ==
  ASSUME SerialInv, NEW t \in Txns, CommitRelease(t)
  PROVE  txn[t].group \in Groups /\ release_group(txn[t].group)
<1> DEFINE x == txn[t]
           g == x.group
<1>1. x.op = "release_group"
  BY DEF CommitRelease
<1>2. g \in Groups /\ Made(g) # {} /\ x.rows = Made(g) /\ AwaitsPayment(g)
  BY <1>1, Relied DEF StillTrue, RowsHeld, Whole
<1>3. apply_cancellation(Made(g), {g})
  BY <1>2, Relied, CancelledApplies DEF CommitRelease
<1>4. ClosedBy(x, g, pay[g]) = Closed(pay[g])
  BY <1>1, Relied, ClosedSeen DEF MayGoOn, Closing
<1>5. close_pending_payment({g})
  BY <1>2, <1>4, Relied, OpenCloses DEF CommitRelease, close_pending_payment, TypeOK
<1>6. release_group(g)
  BY <1>2, <1>3, <1>5 DEF CommitRelease, release_group
<1> QED BY <1>2, <1>6

LEMMA IssuedSame ==
  ASSUME TypeOK, RefundsCovered, NEW x, NEW g \in Groups, x.back[g] = back[g],
         NEW units \in Nat
  PROVE  IssuedBy(x, g, units) = Issued(g, units) /\ Issued(g, units) \in Nat
<1>1. Amount(g) \in Nat /\ back[g] \in Nat /\ back[g] <= Amount(g)
  BY AmountType DEF TypeOK, RefundsCovered
<1> QED BY <1>1 DEF IssuedBy, Issued

(* A row that stands leaves room for its own refund.                       *)
LEMMA RoomForOne ==
  ASSUME TypeOK, Calm, NEW g \in Groups, pay[g].status = "completed", NEW b \in Live(g)
  PROVE  back[g] + 2 <= Amount(g)
<1>1. b \in Made(g) /\ b \notin DeadRows(g) /\ DeadRows(g) \subseteq Made(g) \ {b}
  BY DEF Live, DeadRows, Cancellable, Dead
<1>2. IsFiniteSet(Made(g)) /\ IsFiniteSet(Made(g) \ {b})
  BY RowsFinite DEF Made
<1>3. Cardinality(Made(g) \ {b}) = Cardinality(Made(g)) - 1
  BY <1>1, <1>2, FS_RemoveElement
<1>4. /\ Cardinality(DeadRows(g)) \in Nat /\ Cardinality(Made(g)) \in Nat
      /\ Cardinality(DeadRows(g)) <= Cardinality(Made(g) \ {b})
  BY <1>1, <1>2, FS_Subset, FS_CardinalityType
<1>5. back[g] \in Nat /\ back[g] <= 2 * Cardinality(DeadRows(g))
  BY <1>4 DEF TypeOK, Calm, RefundIsDue
<1> QED BY <1>3, <1>4, <1>5 DEF Amount

LEMMA IssuedToOne ==
  ASSUME TypeOK, Calm, NEW x, NEW g \in Groups, pay[g].status = "completed", NEW b \in Live(g),
         x.back[g] \in Nat, x.back[g] <= back[g], NEW tier \in 0..2
  PROVE  IssuedBy(x, g, tier) = tier /\ Issued(g, tier) = tier
<1>1. back[g] + 2 <= Amount(g) /\ Amount(g) \in Nat /\ back[g] \in Nat
  BY RoomForOne, AmountType DEF TypeOK
<1> QED BY <1>1 DEF IssuedBy, Issued

LEMMA CancelGroupStep ==
  ASSUME SerialInv, NEW t \in Txns, NEW tier \in Tiers, CommitCancelGroup(t, tier)
  PROVE  txn[t].group \in Groups /\ cancel_group(txn[t].group, tier)
<1> DEFINE x == txn[t]
           g == x.group
           B == {b \in x.rows : status[b] \in Cancellable}
           n == GroupRefund(g, Live(g), tier)
<1>1. x.op = "cancel_group"
  BY DEF CommitCancelGroup
<1>2. /\ g \in Groups /\ x.rows = Made(g) /\ x.back[g] = back[g]
      /\ Live(g) # {} /\ ~AllAre(Live(g), "pending_payment") /\ NotStarted(Live(g))
  BY <1>1, Relied DEF Whole, MayGoOn, CancelSeen
<1>3. B = Live(g)
  BY <1>2 DEF Live
<1>4. /\ Cardinality(Live(g)) \in Nat /\ 2 * Cardinality(Live(g)) \in Nat
      /\ tier * Cardinality(Live(g)) \in Nat
  <2>1. Cardinality(Live(g)) \in Nat
    BY RowsFinite DEF Live, Made
  <2>2. tier \in 0..2
    BY TierAssumption
  <2>3. tier = 0 \/ tier = 1 \/ tier = 2
    BY <2>2
  <2> QED BY <2>1, <2>3
<1>5. RefundBy(x, g, Live(g), tier) = n
  BY <1>2, <1>4, IssuedSame DEF RefundBy, GroupRefund, SerialInv, IInv
<1>6. apply_cancellation(Live(g), {g})
  BY <1>2, <1>3, Relied, CancelledApplies DEF CommitCancelGroup
<1>7. /\ Marked(g, n).status = pay[g].status
      /\ pay[g].status = "pending" => Marked(g, n) = pay[g]
  <2>1. Marked(g, n).status = pay[g].status
    BY <1>2, Relied, MarkedSettled
  <2>2. pay[g].status = "pending" => pay[g].life \notin {"paid", "confirmed"}
    BY <1>2, Relied DEF PaymentsGood, PaymentGood
  <2> QED BY <2>1, <2>2 DEF Marked
<1>8. ClosedBy(x, g, Marked(g, n)) = Closed(Marked(g, n))
  BY <1>1, <1>7, Relied, ClosedSeen DEF MayGoOn, Closing
<1> HIDE DEF n
<1>9. /\ pay' = [pay EXCEPT ![g] = Closed(Marked(g, n))]
      /\ back' = [back EXCEPT ![g] = @ + n]
      /\ UNCHANGED <<arena, past, slotOf, moved>>
  BY <1>3, <1>5, <1>8 DEF CommitCancelGroup
<1>10. CanClose({g})
  BY <1>2, Relied, OpenCloses
<1>11. cancel_group(g, tier)
  BY <1>2, <1>6, <1>9, <1>10 DEF cancel_group, n
<1> QED BY <1>2, <1>11

LEMMA CancelBookingStep ==
  ASSUME SerialInv, NEW t \in Txns, NEW tier \in Tiers, CommitCancelBooking(t, tier)
  PROVE  \E b \in Live(txn[t].group) : txn[t].rows = {b} /\ cancel_booking(b, tier)
<1> DEFINE x == txn[t]
           g == x.group
<1>1. x.op = "cancel_booking" /\ g \in Groups
  BY Relied DEF CommitCancelBooking, RowsOnly
<1>2. "cancel_booking" \in PerRow /\ x.back[g] \in Nat /\ x.back[g] <= back[g]
  BY <1>1, Relied DEF MayGoOn, CancelSeen
<1>3. PICK b \in Live(g) : x.rows = {b}
  BY <1>1, Relied DEF MayGoOn, CancelSeen
<1>4. b \in Bookings /\ GroupOf[b] = g /\ status[b] \in Cancellable
  BY <1>3 DEF Live, Made
<1>5. apply_cancellation({b}, {g})
  BY <1>3, Relied, CancelledApplies DEF CommitCancelBooking
<1> DEFINE n == IF status[b] # "pending_payment" /\ pay[g].status = "completed"
                THEN Issued(g, tier) ELSE 0
           m == IF pay[g].status = "completed" /\ ~AllAre(x.rows, "pending_payment")
                THEN IssuedBy(x, g, tier) ELSE 0
<1>6. m = n
  <2>1. AllAre(x.rows, "pending_payment") <=> status[b] = "pending_payment"
    BY <1>3 DEF AllAre
  <2>2. pay[g].status = "completed" => IssuedBy(x, g, tier) = Issued(g, tier)
    BY <1>1, <1>2, <1>3, Relied, IssuedToOne, TierAssumption
  <2> QED BY <2>1, <2>2
<1>7. pay' = [pay EXCEPT ![g] = Marked(g, m)] /\ back' = [back EXCEPT ![g] = @ + m]
  BY DEF CommitCancelBooking
<1> HIDE DEF m, n
<1>8. /\ pay' = [pay EXCEPT ![g] = Marked(g, n)] /\ back' = [back EXCEPT ![g] = @ + n]
      /\ UNCHANGED <<arena, past, slotOf, moved>>
  BY <1>6, <1>7 DEF CommitCancelBooking
<1>9. cancel_booking(b, tier)
  BY <1>2, <1>4, <1>5, <1>8 DEF cancel_booking, n
<1> QED BY <1>3, <1>9

LEMMA SweepStep ==
  ASSUME SerialInv, NEW t \in Txns, CommitSweep(t)
  PROVE  txn[t].group \in Groups /\ auto_cancel_stale_bookings({txn[t].group})
<1> DEFINE x == txn[t]
           g == x.group
<1>1. x.op = "auto_cancel_stale_bookings" /\ g \in Groups
  BY Relied DEF CommitSweep, RowsOnly
<1>2. x.rows = Stale({g}) /\ x.rows # {}
  BY <1>1, Relied DEF MayGoOn, StaleSeen, StillTrue, RowsHeld, RowsOnly
<1>3. \A h \in {g} : \E b \in Stale({g}) : GroupOf[b] = h
  BY <1>2 DEF Stale
<1>4. ReleaseEquipment(Stale({g}))
  BY <1>2, Relied, NothingToRestock DEF CommitSweep, Calm
<1>5. ClosedBy(x, g, pay[g]) = Closed(pay[g])
  BY <1>1, Relied, ClosedSeen DEF MayGoOn, Closing
<1>6. close_pending_payment({g})
  BY <1>1, <1>5, Relied, OpenCloses DEF CommitSweep, close_pending_payment, TypeOK
<1>7. auto_cancel_stale_bookings({g})
  BY <1>2, <1>3, <1>4, <1>6 DEF CommitSweep, auto_cancel_stale_bookings
<1> QED BY <1>1, <1>7

LEMMA CheckoutStep ==
  ASSUME SerialInv, NEW t \in Txns, NEW coupon \in BOOLEAN, CommitCheckout(t, coupon)
  PROVE  /\ txn[t].group \in Groups /\ Made(txn[t].group) = {}
         /\ \E lead \in DOMAIN txn[t].slots :
              create_booking(txn[t].group, txn[t].slots, lead, FALSE, coupon)
         /\ CreateBooking
<1> DEFINE x == txn[t]
           g == x.group
           f == x.slots
           B == DOMAIN f
<1>1. x.op = "create_booking" /\ x.phase = "ready"
  BY DEF CommitCheckout
<1>2. g \in Groups /\ Made(g) = {} /\ B \in SUBSET {b \in Bookings : GroupOf[b] = g}
  BY <1>1, Relied DEF StillTrue, NewRows
<1>3. /\ B # {} /\ f \in Injections(B, Slots) /\ ~x.rent
      /\ \A b \in B : slot[f[b]] = "available" /\ f[b] \notin past
  BY <1>1, Relied DEF MayGoOn, HoursSeen
<1>4. PICK lead \in B : line' = IF x.rent THEN line \cup {lead} ELSE line
  BY DEF CommitCheckout
<1>5. arena = "live"
  BY Relied DEF Calm
<1>6. slot' = SetSlots({f[b] : b \in B}, "reserved") /\ status' = SetStatus(B, "pending_payment")
      /\ slotOf' = [b \in Bookings |-> IF b \in B THEN f[b] ELSE slotOf[b]]
      /\ UniqueActiveSlot'
  BY DEF CommitCheckout
<1>7. /\ coupon => used < MaxUses
      /\ line' = line /\ avail' = avail
      /\ code' = [code EXCEPT ![g] = IF coupon THEN "held" ELSE @]
      /\ used' = IF coupon THEN used + 1 ELSE used
      /\ UNCHANGED <<arena, past, pay, back, moved, match>>
  BY <1>3, <1>4 DEF CommitCheckout
<1>8. create_booking(g, f, lead, FALSE, coupon)
  BY <1>2, <1>3, <1>5, <1>6, <1>7 DEF create_booking
<1>9. \E l \in B : create_booking(g, f, l, FALSE, coupon)
  BY <1>8
<1> HIDE DEF f, g, B
<1>10. B \in (SUBSET {b \in Bookings : GroupOf[b] = g}) \ {{}}
  BY <1>2, <1>3
<1>11. \E l \in B, rent, c \in BOOLEAN : create_booking(g, f, l, rent, c)
  BY <1>8
<1>12. CreateBooking
  BY <1>2, <1>3, <1>10, <1>11 DEF CreateBooking
<1> QED BY <1>2, <1>9, <1>12 DEF f, g, B

-----------------------------------------------------------------------------
(* What a commit leaves alone                                              *)

(* A step that only changes what belongs to one group, and its hours.      *)
OnlyIts(g) ==
  /\ UNCHANGED <<arena, past, line, match>>
  /\ \A h \in Groups \ {g} : pay'[h] = pay[h] /\ back'[h] = back[h]
  /\ \A b \in Bookings : GroupOf[b] # g => status'[b] = status[b] /\ slotOf'[b] = slotOf[b]
  /\ back'[g] \in Nat /\ back[g] <= back'[g]

LEMMA NotRefunded ==
  ASSUME IInv, Calm, NEW g \in Groups,
         pay[g].status \in {"none", "pending"} \/ (Made(g) # {} /\ AwaitsPayment(g))
  PROVE  back[g] = 0
<1>1. ASSUME pay[g].status = "completed", Made(g) # {}, AwaitsPayment(g) PROVE FALSE
  <2>1. PICK b \in Made(g) : TRUE
    BY <1>1
  <2> QED BY <1>1, <2>1 DEF IInv, PaidIsDecided, AwaitsPayment, AllAre
<1> QED BY <1>1 DEF Calm, RefundIsDue

LEMMA MatchesStay ==
  ASSUME IInv, Calm, NEW G, follow_booking_cancelled(G)
  PROVE  match' = match
  BY DEF IInv, TypeOK, Calm, follow_booking_cancelled

LEMMA SettleTouches ==
  ASSUME IInv, Calm, NEW g \in Groups, pay[g].status \in {"none", "pending", "failed"},
         back[g] = 0, back' = back,
         UNCHANGED <<arena, past, line, match, slotOf>>,
         \A h \in Groups \ {g} : pay'[h] = pay[h],
         \A b \in Bookings : GroupOf[b] # g => status'[b] = status[b]
  PROVE  OnlyIts(g) /\ RefundIsDue(g)'
  BY DEF OnlyIts, RefundIsDue, IInv, TypeOK

LEMMA OtherRows ==
  ASSUME NEW g, NEW B, NEW v, B \subseteq Made(g), status' = SetStatus(B, v)
  PROVE  \A b \in Bookings : GroupOf[b] # g => status'[b] = status[b]
  BY DEF Made, SetStatus

LEMMA PaymentTouches ==
  ASSUME IInv, Calm, NEW g \in Groups,
         \/ \E completed \in BOOLEAN : handle_webhook(g, completed)
         \/ upload_receipt(g) \/ approve_bank_transfer(g) \/ reject_bank_transfer(g)
         \/ \E m \in Method : initiate_payment(g, m)
  PROVE  OnlyIts(g) /\ RefundIsDue(g)'
<1>1. CASE \E m \in Method : initiate_payment(g, m)
  <2>1. /\ Made(g) # {} /\ AwaitsPayment(g) /\ pay[g].status \notin {"pending", "completed"}
        /\ UNCHANGED <<arena, past, line, match, slotOf, status, back>>
        /\ \A h \in Groups \ {g} : pay'[h] = pay[h]
    BY <1>1 DEF initiate_payment, AwaitsPayment, goods, IInv, TypeOK
  <2>2. pay[g].status \in {"none", "pending", "failed"}
    BY <2>1 DEF IInv, TypeOK, PaymentsGood, PaymentGood, PaymentRows, NoPayment, PaymentStatus
  <2> QED BY <2>1, <2>2, NotRefunded, SettleTouches
<1>2. CASE upload_receipt(g)
  <2>1. /\ pay[g].status = "pending"
        /\ UNCHANGED <<arena, past, line, match, slotOf, back>>
        /\ \A h \in Groups \ {g} : pay'[h] = pay[h]
        /\ status' = SetStatus(GroupRows(g), "pending_approval")
    BY <1>2 DEF upload_receipt, goods, IInv, TypeOK
  <2> QED BY <2>1, NotRefunded, SettleTouches, OtherRows DEF GroupRows
<1>3. ASSUME confirm_group(g), pay[g].status = "pending"
      PROVE  OnlyIts(g) /\ RefundIsDue(g)'
  <2>1. /\ UNCHANGED <<arena, past, line, match, slotOf, back>>
        /\ \A h \in Groups \ {g} : pay'[h] = pay[h]
        /\ status' = SetStatus(GroupRows(g), "confirmed")
    BY <1>3 DEF confirm_group, goods, IInv, TypeOK
  <2> QED BY <1>3, <2>1, NotRefunded, SettleTouches, OtherRows DEF GroupRows
<1>4. ASSUME NEW life, NEW to, fail_group(g, life, to), pay[g].status = "pending"
      PROVE  OnlyIts(g) /\ RefundIsDue(g)'
  <2>1. /\ UNCHANGED <<arena, past, line, match, slotOf, back>>
        /\ \A h \in Groups \ {g} : pay'[h] = pay[h]
        /\ status' = SetStatus(GroupRows(g), to)
    BY <1>4 DEF fail_group, ReleaseEquipment, IInv, TypeOK
  <2> QED BY <1>4, <2>1, NotRefunded, SettleTouches, OtherRows DEF GroupRows
<1>5. CASE \E completed \in BOOLEAN : handle_webhook(g, completed)
  BY <1>3, <1>4, <1>5 DEF handle_webhook
<1>6. CASE approve_bank_transfer(g) \/ reject_bank_transfer(g)
  BY <1>3, <1>4, <1>6 DEF approve_bank_transfer, reject_bank_transfer, OwnerMayDecide
<1> QED BY <1>1, <1>2, <1>5, <1>6

LEMMA HoldTouches ==
  ASSUME IInv, Calm, NEW g \in Groups,
         release_group(g) \/ auto_cancel_stale_bookings({g})
  PROVE  OnlyIts(g) /\ RefundIsDue(g)'
<1>0. \A h \in Groups \ {g} : close_pending_payment({g}) => pay'[h] = pay[h]
  BY DEF close_pending_payment
<1>1. CASE release_group(g)
  <2>1. /\ Made(g) # {} /\ AwaitsPayment(g)
        /\ UNCHANGED <<arena, past, line, match, slotOf, back>>
        /\ \A h \in Groups \ {g} : pay'[h] = pay[h]
        /\ status' = SetStatus(Made(g), "cancelled")
    BY <1>0, <1>1, MatchesStay DEF release_group, apply_cancellation, ReleaseEquipment
  <2>2. back[g] = 0
    BY <2>1, NotRefunded
  <2>3. \A b \in Bookings : GroupOf[b] # g => status'[b] = status[b]
    BY <2>1, OtherRows
  <2> QED BY <2>1, <2>2, <2>3 DEF OnlyIts, RefundIsDue, IInv, TypeOK
<1>2. CASE auto_cancel_stale_bookings({g})
  <2> DEFINE B == Stale({g})
  <2>1. /\ UNCHANGED <<arena, past, line, match, slotOf, back>>
        /\ close_pending_payment({g})
        /\ status' = SetStatus(B, "cancelled")
        /\ \E b \in B : GroupOf[b] = g
    BY <1>2 DEF auto_cancel_stale_bookings, ReleaseEquipment
  <2>2. B \subseteq Made(g) /\ B # {}
    BY <2>1 DEF Stale, Made
  <2>3. \A b \in Bookings : GroupOf[b] # g => status'[b] = status[b]
    BY <2>1, <2>2, OtherRows
  <2>4. ~AwaitsPayment(g)'
    <3>1. PICK b \in B : TRUE
      BY <2>2
    <3>2. status'[b] = "cancelled" /\ b \in Made(g)'
      BY <2>1, <2>2, <3>1 DEF SetStatus, Made
    <3> QED BY <3>2 DEF AwaitsPayment, AllAre
  <2>5. pay[g].status # "completed"
    <3>1. PICK b \in B : b \in Made(g) /\ status[b] = "pending_payment"
      BY <2>2 DEF Stale
    <3> QED BY <3>1 DEF IInv, PaidIsDecided
  <2>6. pay[g].status = "failed" => pay'[g] = pay[g]
    BY <2>1 DEF close_pending_payment, Closed
  <2> HIDE DEF B
  <2>7. OnlyIts(g)
    <3>1. \A h \in Groups \ {g} : pay'[h] = pay[h] /\ back'[h] = back[h]
      BY <1>0, <2>1
    <3>2. back[g] \in Nat
      BY DEF IInv, TypeOK
    <3>3. back'[g] \in Nat /\ back[g] <= back'[g]
      BY <2>1, <3>2
    <3>4. \A b \in Bookings : slotOf'[b] = slotOf[b]
      BY <2>1
    <3> QED BY <2>1, <2>3, <3>1, <3>3, <3>4 DEF OnlyIts
  <2>8. back[g] # 0 => pay'[g].status = "failed"
    <3>1. RefundIsDue(g)
      BY DEF Calm
    <3> QED BY <2>5, <2>6, <3>1 DEF RefundIsDue
  <2>9. RefundIsDue(g)'
    <3>1. back'[g] # 0 => pay'[g].status = "failed"
      BY <2>1, <2>8
    <3> QED BY <2>4, <3>1 DEF RefundIsDue
  <2> QED BY <2>7, <2>9
<1> QED BY <1>1, <1>2

(* Rows that end join the dead ones.                                       *)
LEMMA MoreDead ==
  ASSUME NEW g \in Groups, NEW B, B \subseteq Live(g), status' = SetStatus(B, "cancelled")
  PROVE  /\ Made(g)' = Made(g)
         /\ Cardinality(DeadRows(g)) \in Nat /\ Cardinality(B) \in Nat
         /\ Cardinality(DeadRows(g))' = Cardinality(DeadRows(g)) + Cardinality(B)
         /\ B # {} => ~AwaitsPayment(g)'
         /\ \A b \in Bookings : GroupOf[b] # g => status'[b] = status[b]
<1>1. B \subseteq Made(g) /\ DeadRows(g) \subseteq Bookings /\ B \subseteq Bookings
  BY DEF Live, DeadRows, Made
<1>2. \A b \in Bookings : status'[b] = IF b \in B THEN "cancelled" ELSE status[b]
  BY DEF SetStatus
<1>3. Made(g)' = Made(g)
  BY <1>1, <1>2 DEF Made
<1>4. DeadRows(g)' = DeadRows(g) \cup B /\ DeadRows(g) \cap B = {}
  <2>1. \A b \in Made(g) : b \in Bookings
    BY DEF Made
  <2>2. \A b \in B : status[b] \notin Dead
    BY DEF Live, Cancellable, Dead
  <2>3. DeadRows(g)' = {b \in Made(g) : status'[b] \in Dead}
    BY <1>3 DEF DeadRows
  <2>4. "cancelled" \in Dead
    BY DEF Dead
  <2> QED BY <1>1, <1>2, <2>1, <2>2, <2>3, <2>4 DEF DeadRows
<1>5. /\ IsFiniteSet(DeadRows(g)) /\ IsFiniteSet(B)
      /\ Cardinality(DeadRows(g)) \in Nat /\ Cardinality(B) \in Nat
  BY <1>1, RowsFinite
<1>6. Cardinality(DeadRows(g) \cup B) = Cardinality(DeadRows(g)) + Cardinality(B)
  <2>1. Cardinality(DeadRows(g) \cap B) = 0
    BY <1>4, FS_EmptySet
  <2>2. Cardinality(DeadRows(g) \cup B) =
          Cardinality(DeadRows(g)) + Cardinality(B) - Cardinality(DeadRows(g) \cap B)
    BY <1>5, FS_Union
  <2> QED BY <1>5, <2>1, <2>2
<1>7. Cardinality(DeadRows(g))' = Cardinality(DeadRows(g)) + Cardinality(B)
  BY <1>4, <1>6
<1>8. B # {} => ~AwaitsPayment(g)'
  BY <1>1, <1>2, <1>3 DEF AwaitsPayment, AllAre
<1> QED BY <1>1, <1>3, <1>5, <1>7, <1>8, OtherRows

LEMMA IssuedAtMost ==
  ASSUME IInv, NEW g \in Groups, NEW units \in Nat
  PROVE  Issued(g, units) \in Nat /\ Issued(g, units) <= units
<1>1. Amount(g) \in Nat /\ back[g] \in Nat /\ back[g] <= Amount(g)
  BY AmountType DEF IInv, TypeOK, RefundsCovered
<1> QED BY <1>1 DEF Issued

(* What a cancellation refunds is due.                                     *)
LEMMA RefundTouches ==
  ASSUME IInv, Calm, NEW g \in Groups, NEW B, B \subseteq Live(g), B # {},
         status' = SetStatus(B, "cancelled"),
         NEW n \in Nat, back' = [back EXCEPT ![g] = @ + n],
         pay[g].status = "completed" => n <= 2 * Cardinality(B),
         pay[g].status \in {"none", "failed"} => n = 0,
         pay[g].status = "pending" => n = 0 \/ pay'[g].status = "failed",
         pay[g].status \in {"completed", "failed"} => pay'[g].status = pay[g].status,
         \A h \in Groups \ {g} : pay'[h] = pay[h],
         UNCHANGED <<arena, past, line, match, slotOf>>
  PROVE  OnlyIts(g) /\ RefundIsDue(g)'
<1>1. back[g] \in Nat /\ back'[g] = back[g] + n /\ \A h \in Groups \ {g} : back'[h] = back[h]
  BY DEF IInv, TypeOK
<1>2. OnlyIts(g)
  BY <1>1, MoreDead DEF OnlyIts
<1>3. pay[g].status \in {"none", "pending", "completed", "failed"}
  BY DEF IInv, TypeOK, PaymentsGood, PaymentGood, PaymentRows, NoPayment, PaymentStatus
<1>4. ~AwaitsPayment(g)' /\ Cardinality(DeadRows(g))' = Cardinality(DeadRows(g)) + Cardinality(B)
      /\ Cardinality(DeadRows(g)) \in Nat /\ Cardinality(B) \in Nat
  BY MoreDead
<1>5. CASE pay[g].status = "completed"
  <2>1. back[g] <= 2 * Cardinality(DeadRows(g))
    BY <1>1, <1>4, <1>5 DEF Calm, RefundIsDue
  <2>2. back'[g] <= 2 * (Cardinality(DeadRows(g))')
    BY <1>1, <1>4, <1>5, <2>1
  <2> QED BY <1>2, <1>5, <2>2 DEF RefundIsDue
<1>6. CASE pay[g].status = "failed"
  BY <1>2, <1>4, <1>6 DEF RefundIsDue
<1>7. CASE pay[g].status \in {"none", "pending"}
  <2>1. back[g] = 0
    BY <1>7, NotRefunded
  <2>2. n = 0 \/ pay'[g].status = "failed"
    BY <1>7
  <2>3. n = 0 => back'[g] = 0
    BY <1>1, <2>1
  <2> QED BY <1>2, <1>4, <2>2, <2>3 DEF RefundIsDue
<1> QED BY <1>3, <1>5, <1>6, <1>7

LEMMA TierUnits ==
  ASSUME NEW tier \in Tiers, NEW k \in Nat
  PROVE  tier * k \in Nat /\ tier * k <= 2 * k
<1>1. tier = 0 \/ tier = 1 \/ tier = 2
  BY TierAssumption
<1> QED BY <1>1

LEMMA CancelGroupTouches ==
  ASSUME IInv, Calm, NEW g \in Groups, NEW tier \in Tiers, cancel_group(g, tier)
  PROVE  OnlyIts(g) /\ RefundIsDue(g)'
<1> DEFINE B == Live(g)
           n == GroupRefund(g, B, tier)
           p == Closed(Marked(g, n))
<1>1. /\ B # {} /\ status' = SetStatus(B, "cancelled")
      /\ pay' = [pay EXCEPT ![g] = p] /\ back' = [back EXCEPT ![g] = @ + n]
      /\ UNCHANGED <<arena, past, line, match, slotOf>>
  BY MatchesStay DEF cancel_group, apply_cancellation, ReleaseEquipment
<1>2. Cardinality(B) \in Nat
  BY RowsFinite DEF Live, Made
<1>3. tier * Cardinality(B) \in Nat /\ tier * Cardinality(B) <= 2 * Cardinality(B) /\ 2 * Cardinality(B) \in Nat
  BY <1>2, TierUnits
<1>4. /\ n \in Nat
      /\ pay[g].status = "completed" => n <= 2 * Cardinality(B)
      /\ pay[g].status \in {"none", "failed"} => n = 0
  BY <1>3, IssuedAtMost DEF GroupRefund, ReceiptWaiting
<1>5. Marked(g, n).status = pay[g].status
  BY MarkedSettled DEF IInv
<1>6. pay'[g] = p /\ \A h \in Groups \ {g} : pay'[h] = pay[h]
  BY <1>1 DEF IInv, TypeOK
<1>7. /\ pay[g].status = "pending" => p.status = "failed"
      /\ pay[g].status # "pending" => p.status = pay[g].status
  BY <1>5 DEF Closed, Advanced, Marked, IInv, TypeOK, PaymentRows, NoPayment
<1> HIDE DEF n, p, B
<1> QED BY <1>1, <1>4, <1>6, <1>7, RefundTouches DEF B

LEMMA CancelBookingTouches ==
  ASSUME IInv, Calm, NEW g \in Groups, NEW b \in Live(g), NEW tier \in Tiers, cancel_booking(b, tier)
  PROVE  /\ OnlyIts(g) /\ RefundIsDue(g)'
         /\ pay[g].status = "pending" \/ pay'[g].status = "pending" => pay'[g] = pay[g]
         /\ status' = SetStatus({b}, "cancelled")
<1> DEFINE n == IF status[b] # "pending_payment" /\ pay[g].status = "completed"
                THEN Issued(g, tier) ELSE 0
           p == Marked(g, n)
<1>0. GroupOf[b] = g /\ {b} \subseteq Live(g) /\ {b} # {}
  BY DEF Live, Made
<1>1. /\ status' = SetStatus({b}, "cancelled")
      /\ pay' = [pay EXCEPT ![g] = p] /\ back' = [back EXCEPT ![g] = @ + n]
      /\ UNCHANGED <<arena, past, line, match, slotOf>>
  BY <1>0, MatchesStay DEF cancel_booking, apply_cancellation, ReleaseEquipment
<1>2. Cardinality({b}) = 1
  BY FS_Singleton
<1>3. tier \in Nat /\ tier <= 2
  BY TierAssumption
<1>4. /\ n \in Nat
      /\ pay[g].status = "completed" => n <= 2 * Cardinality({b})
      /\ pay[g].status # "completed" => n = 0
  <2>1. Issued(g, tier) \in Nat /\ Issued(g, tier) <= tier
    BY <1>3, IssuedAtMost
  <2> QED BY <1>2, <1>3, <2>1
<1>5. Marked(g, n).status = pay[g].status /\ (pay[g].status = "pending" => p = pay[g])
  <2>1. Marked(g, n).status = pay[g].status
    BY MarkedSettled DEF IInv
  <2>2. pay[g].status = "pending" => pay[g].life \notin {"paid", "confirmed"}
    BY DEF IInv, PaymentsGood, PaymentGood
  <2> QED BY <2>1, <2>2 DEF Marked
<1>6. pay'[g] = p /\ \A h \in Groups \ {g} : pay'[h] = pay[h]
  BY <1>1 DEF IInv, TypeOK
<1> HIDE DEF n
<1>7. OnlyIts(g) /\ RefundIsDue(g)'
  BY <1>0, <1>1, <1>4, <1>5, <1>6, RefundTouches
<1> QED BY <1>1, <1>5, <1>6, <1>7

LEMMA CheckoutTouches ==
  ASSUME IInv, Calm, NEW g \in Groups, Made(g) = {}, NEW f, NEW lead, NEW coupon,
         \A b \in DOMAIN f : GroupOf[b] = g,
         create_booking(g, f, lead, FALSE, coupon)
  PROVE  OnlyIts(g) /\ RefundIsDue(g)'
<1>1. /\ UNCHANGED <<arena, past, line, match, pay, back>>
      /\ \A b \in Bookings : GroupOf[b] # g => status'[b] = status[b] /\ slotOf'[b] = slotOf[b]
  BY DEF create_booking, SetStatus, IInv, TypeOK
<1>2. back[g] = 0
  <2>1. pay[g] = NoPayment
    BY DEF IInv, UnmadeIsFresh
  <2> QED BY <2>1, NotRefunded DEF NoPayment
<1> QED BY <1>1, <1>2 DEF OnlyIts, RefundIsDue, IInv, TypeOK

-----------------------------------------------------------------------------
(* The other requests still may go on                                      *)

(* The requests that have nothing left to do but to commit.                *)
Acts(x) ==
  \/ Whole(x)
  \/ x.op \in {"cancel_booking", "auto_cancel_stale_bookings", "create_booking"}

(* Two that would end the same rows do not meet.                           *)
LEMMA NoneBeside ==
  ASSUME SerialInv, NEW t \in Txns, NEW u \in Txns, t # u, Acts(txn[t]),
         txn[u].group = txn[t].group,
         \/ txn[u].op \in {"release_group", "cancel_group"}
         \/ txn[u].op = "auto_cancel_stale_bookings" /\ txn[t].op # "cancel_booking"
  PROVE  FALSE
<1> DEFINE x == txn[t]
           y == txn[u]
           g == txn[t].group
<1>1. StillTrue(x) /\ StillTrue(y) /\ MayGoOn(x) /\ MayGoOn(y)
  BY Relied
<1>2. /\ y.op \in RowsOnly /\ y.op \notin NoLock
      /\ y.rows # {} /\ y.rows \subseteq Made(g)
  BY <1>1 DEF RowsOnly, NoLock, StillTrue, Shape, RowsHeld, Made
<1>3. x.op \notin NoLock /\ y.op \notin NoLock => x.rows \cap y.rows = {}
  BY SameLock DEF SerialInv, RequestInv
<1>4. CASE x.op = "create_booking"
  BY <1>1, <1>2, <1>4 DEF StillTrue, NewRows
<1>5. CASE Whole(x)
  <2>1. x.rows = Made(g) /\ x.op \notin NoLock
    BY <1>5, Relied, WholeLocks
  <2> QED BY <1>2, <1>3, <2>1
<1>6. CASE x.op \in {"cancel_booking", "auto_cancel_stale_bookings"}
  <2>1. /\ x.op \in RowsOnly /\ x.op \notin NoLock
        /\ x.rows # {} /\ x.rows \subseteq Made(g)
    BY <1>1, <1>6 DEF RowsOnly, NoLock, StillTrue, Shape, RowsHeld, Made
  <2>2. CASE y.op \in {"release_group", "cancel_group"}
    <3>1. y.rows = Made(g)
      BY <2>2, Relied DEF Whole
    <3> QED BY <1>2, <1>3, <2>1, <3>1
  <2>3. CASE y.op = "auto_cancel_stale_bookings" /\ x.op # "cancel_booking"
    <3>1. x.rows = Stale({g}) /\ y.rows = Stale({g})
      BY <1>1, <1>6, <2>3 DEF MayGoOn, StaleSeen
    <3> QED BY <1>2, <1>3, <2>1, <3>1
  <2> QED BY <2>2, <2>3
<1> QED BY <1>4, <1>5, <1>6 DEF Acts

LEMMA SameElsewhere ==
  ASSUME NEW g \in Groups, OnlyIts(g), NEW h \in Groups, h # g
  PROVE  /\ pay'[h] = pay[h] /\ back'[h] = back[h]
         /\ Made(h)' = Made(h) /\ Live(h)' = Live(h) /\ Stale({h})' = Stale({h})
         /\ DeadRows(h)' = DeadRows(h)
         /\ AwaitsPayment(h)' <=> AwaitsPayment(h)
         /\ AllAre(Live(h), "pending_payment")' <=> AllAre(Live(h), "pending_payment")
         /\ NotStarted(Live(h))' <=> NotStarted(Live(h))
<1>1. \A b \in Bookings : GroupOf[b] = h => status'[b] = status[b] /\ slotOf'[b] = slotOf[b]
  BY DEF OnlyIts
<1>2. pay'[h] = pay[h] /\ back'[h] = back[h] /\ past' = past
  BY DEF OnlyIts
<1>3. Made(h)' = Made(h) /\ Stale({h})' = Stale({h})
  BY <1>1 DEF Made, Stale
<1>4. \A b \in Made(h) : status'[b] = status[b] /\ slotOf'[b] = slotOf[b]
  BY <1>1 DEF Made
<1>5. Live(h)' = Live(h) /\ DeadRows(h)' = DeadRows(h) /\ Live(h) \subseteq Made(h)
  BY <1>3, <1>4 DEF Live, DeadRows
<1> QED BY <1>2, <1>3, <1>4, <1>5 DEF AwaitsPayment, AllAre, NotStarted

LEMMA OthersGoOn ==
  ASSUME SerialInv, NEW t \in Txns, NEW u \in Txns, t # u, Acts(txn[t]), Free(t, Written),
         txn[t].group \in Groups, OnlyIts(txn[t].group),
         txn[t].op = "cancel_booking" =>
           /\ status' = SetStatus(txn[t].rows, "cancelled")
           /\ pay[txn[t].group].status = "pending" \/ pay'[txn[t].group].status = "pending"
                => pay'[txn[t].group] = pay[txn[t].group],
         NEW y, y = txn[u]
  PROVE  MayGoOn(y)'
<1> DEFINE g == txn[t].group
           h == y.group
<1>1. StillTrue(y) /\ MayGoOn(y)
  BY Relied
<1>2. y.op \in RowsOnly => h \in Groups /\ y.rows \subseteq Made(h)
  BY <1>1 DEF StillTrue, Shape, RowsHeld, Made
<1>3. y.op \in RowsOnly /\ h # g =>
        /\ pay'[h] = pay[h] /\ back'[h] = back[h] /\ Live(h)' = Live(h)
        /\ Stale({h})' = Stale({h})
        /\ AllAre(Live(h), "pending_payment")' <=> AllAre(Live(h), "pending_payment")
        /\ NotStarted(Live(h))' <=> NotStarted(Live(h))
  BY <1>2, SameElsewhere
<1>4. h = g => /\ y.op \notin {"release_group", "cancel_group"}
               /\ y.op = "auto_cancel_stale_bookings" => txn[t].op = "cancel_booking"
  BY NoneBeside
<1>5. /\ y.op \in RowsOnly \cup {"create_booking"} => y.op \notin NoLock
      /\ "cancel_booking" \in RowsOnly /\ "cancel_group" \in RowsOnly
      /\ "auto_cancel_stale_bookings" \in RowsOnly /\ "release_group" \in RowsOnly
      /\ y.op \in Closing => y.op \in {"release_group", "cancel_group", "auto_cancel_stale_bookings"}
  BY <1>1 DEF RowsOnly, NoLock, Closing, MayGoOn, PayFirst
<1>6. y.op \in RowsOnly => \A b \in y.rows : b \in Bookings /\ status[b] # "none" /\ status'[b] = status[b]
  BY <1>1, <1>5, LockedStays DEF StillTrue, Shape, RowsHeld
<1>7. PaymentSeen(y)'
  <2> SUFFICES ASSUME y.op \in Closing, y.pay[h].status = "pending" \/ pay'[h].status = "pending"
               PROVE  y.pay[h] = pay'[h]
    BY DEF PaymentSeen
  <2>1. y.pay[h].status = "pending" \/ pay[h].status = "pending" => y.pay[h] = pay[h]
    BY <1>1 DEF MayGoOn, PaymentSeen
  <2>2. CASE h # g
    BY <1>3, <1>5, <2>1, <2>2
  <2>3. CASE h = g
    <3>1. txn[t].op = "cancel_booking"
      BY <1>4, <1>5, <2>3
    <3>2. pay[h].status = "pending" \/ pay'[h].status = "pending" => pay'[h] = pay[h]
      BY <2>3, <3>1
    <3> QED BY <2>1, <3>2
  <2> QED BY <2>2, <2>3
<1>8. CancelSeen(y)'
  <2>1. ASSUME y.op = "cancel_group"
        PROVE  /\ y.back[h] = back'[h]
               /\ Live(h)' # {} /\ ~AllAre(Live(h), "pending_payment")' /\ NotStarted(Live(h))'
    BY <1>1, <1>3, <1>4, <1>5, <2>1 DEF MayGoOn, CancelSeen
  <2>2. ASSUME y.op = "cancel_booking"
        PROVE  /\ "cancel_booking" \in PerRow
               /\ y.back[h] \in Nat /\ y.back[h] <= back'[h]
               /\ \E b \in Live(h)' : y.rows = {b}
    <3>1. /\ "cancel_booking" \in PerRow
          /\ y.back[h] \in Nat /\ y.back[h] <= back[h]
          /\ \E b \in Live(h) : y.rows = {b}
      BY <1>1, <2>2 DEF MayGoOn, CancelSeen
    <3>2. PICK b \in Live(h) : y.rows = {b}
      BY <3>1
    <3>3. b \in Live(h)'
      BY <1>5, <1>6, <2>2, <3>2 DEF Live, Made
    <3>4. h \in Groups /\ back[h] \in Nat /\ (h = g => back'[h] \in Nat /\ back[h] <= back'[h])
      BY <1>2, <1>5, <2>2, Relied DEF OnlyIts, TypeOK
    <3>5. y.back[h] <= back'[h]
      BY <1>3, <1>5, <2>2, <3>1, <3>4
    <3> QED BY <3>1, <3>2, <3>3, <3>5
  <2> QED BY <2>1, <2>2 DEF CancelSeen
<1>9. StaleSeen(y)'
  <2> SUFFICES ASSUME y.op = "auto_cancel_stale_bookings" PROVE y.rows = Stale({h})'
    BY DEF StaleSeen
  <2>1. y.rows = Stale({h})
    BY <1>1 DEF MayGoOn, StaleSeen
  <2>2. CASE h # g
    BY <1>3, <1>5, <2>1, <2>2
  <2>3. CASE h = g
    <3>1. \A b \in Bookings : status'[b] = status[b] \/ status'[b] = "cancelled"
      BY <1>4, <2>3 DEF SetStatus
    <3>2. \A b \in Stale({h}) : status'[b] = status[b]
      BY <1>5, <1>6, <2>1
    <3> QED BY <2>1, <3>1, <3>2 DEF Stale
  <2> QED BY <2>2, <2>3
<1>10. HoursSeen(y)'
  <2> SUFFICES ASSUME y.op = "create_booking"
               PROVE  /\ DOMAIN y.slots # {} /\ y.slots \in Injections(DOMAIN y.slots, Slots)
                      /\ \A b \in DOMAIN y.slots : y.slots[b] \notin past'
                      /\ y.phase = "ready" =>
                           ~y.rent /\ \A b \in DOMAIN y.slots : slot'[y.slots[b]] = "available"
    BY DEF HoursSeen
  <2>1. HoursSeen(y) /\ past' = past
    BY <1>1 DEF MayGoOn, OnlyIts
  <2>2. \A b \in DOMAIN y.slots : y.slots[b] \in Slots
    BY <2>1 DEF HoursSeen, Injections
  <2>3. y.phase = "ready" => \A b \in DOMAIN y.slots : slot'[y.slots[b]] = slot[y.slots[b]]
    BY <2>2, LockedStays
  <2> QED BY <2>1, <2>3 DEF HoursSeen
<1> QED BY <1>1, <1>7, <1>8, <1>9, <1>10 DEF MayGoOn

(* Of the next state, an open request is spoken of by name.                *)
LEMMA ToldGoing ==
  ASSUME NEW u, NEW y, txn'[u] = y, MayGoOn(y)'
  PROVE  MayGoOn(txn[u])'
  BY DEF MayGoOn, PaymentSeen, CancelSeen, StaleSeen, HoursSeen, Live, Made, Stale, AllAre,
         NotStarted

LEMMA IdleGoesOn == MayGoOn(Idle) /\ MayGoOn(Idle)'
  BY DEF MayGoOn, PaymentSeen, CancelSeen, StaleSeen, HoursSeen, Idle, Closing

LEMMA CommitGoesOn ==
  ASSUME SerialInv, RequestInv', NEW t \in Txns, Acts(txn[t]), Commit(t), [Next]_vars,
         NEW g \in Groups, g = txn[t].group, OnlyIts(g), RefundIsDue(g)',
         txn[t].op = "cancel_booking" =>
           /\ status' = SetStatus(txn[t].rows, "cancelled")
           /\ pay[g].status = "pending" \/ pay'[g].status = "pending" => pay'[g] = pay[g]
  PROVE  SerialInv'
<1>1. IInv'
  BY StepKeeps DEF SerialInv
<1>2. Free(t, Written) /\ txn' = [txn EXCEPT ![t] = Idle]
  BY DEF Commit
<1>3. \A u \in Txns : txn'[u] = IF u = t THEN Idle ELSE txn[u]
  BY <1>2 DEF SerialInv, RequestInv, Books
<1>4. \A u \in Txns : MayGoOn(txn[u])'
  <2> TAKE u \in Txns
  <2>1. CASE u = t
    BY <1>3, <2>1, IdleGoesOn, ToldGoing
  <2>2. CASE u # t
    <3>1. PICK y : y = txn[u]
      OBVIOUS
    <3>2. MayGoOn(y)'
      BY <1>2, <2>2, <3>1, OthersGoOn
    <3>3. txn'[u] = y
      BY <1>3, <2>2, <3>1
    <3> QED BY <3>2, <3>3, ToldGoing
  <2> QED BY <2>1, <2>2
<1>5. ASSUME NEW h \in Groups PROVE RefundIsDue(h)'
  <2>1. RefundIsDue(h)
    BY DEF SerialInv, Calm
  <2>2. CASE h = g
    BY <2>2
  <2>3. CASE h # g
    BY <2>1, <2>3, SameElsewhere DEF RefundIsDue
  <2> QED BY <2>2, <2>3
<1>6. arena' = arena /\ line' = line /\ match' = match
  BY DEF OnlyIts
<1>7. Calm'
  BY <1>5, <1>6 DEF SerialInv, Calm
<1> QED BY <1>1, <1>4, <1>7 DEF SerialInv

-----------------------------------------------------------------------------
(* Reading and locking                                                     *)

LEMMA SameGoing ==
  ASSUME UNCHANGED vars, NEW y, MayGoOn(y)
  PROVE  MayGoOn(y)'
  BY DEF vars, MayGoOn, PaymentSeen, CancelSeen, StaleSeen, HoursSeen, Live, Made, Stale, AllAre,
         NotStarted

LEMMA CalmStays ==
  ASSUME Calm, UNCHANGED <<arena, line, match, status, pay, back>>
  PROVE  Calm'
<1>1. \A g : Made(g)' = Made(g)
  BY DEF Made
<1>2. \A g : DeadRows(g)' = DeadRows(g) /\ (AwaitsPayment(g)' <=> AwaitsPayment(g))
  BY <1>1 DEF DeadRows, AwaitsPayment, AllAre
<1>3. \A g \in Groups : RefundIsDue(g)'
  BY <1>2 DEF Calm, RefundIsDue
<1> QED BY <1>3 DEF Calm

LEMMA ReadGoesOn ==
  ASSUME SerialInv, RequestInv', NEW t \in Txns, NEW x, Become(t, x), MayGoOn(x)
  PROVE  SerialInv'
<1>1. txn' = [txn EXCEPT ![t] = x] /\ UNCHANGED vars
  BY DEF Become
<1>2. IInv'
  BY <1>1, StepKeeps DEF SerialInv
<1>3. Calm'
  BY <1>1, CalmStays DEF SerialInv, vars, goods
<1>4. \A u \in Txns : txn'[u] = IF u = t THEN x ELSE txn[u]
  BY <1>1 DEF SerialInv, RequestInv, Books
<1>5. \A u \in Txns : MayGoOn(txn[u])'
  <2> TAKE u \in Txns
  <2>1. PICK y : y = txn'[u]
    OBVIOUS
  <2>2. MayGoOn(y)
    BY <1>4, <2>1 DEF SerialInv
  <2>3. MayGoOn(y)'
    BY <1>1, <2>2, SameGoing
  <2> QED BY <2>1, <2>3, ToldGoing
<1> QED BY <1>2, <1>3, <1>5 DEF SerialInv

LEMMA NoMatchIsLive ==
  ASSUME Calm
  PROVE  {g \in Groups : match[g] = "live"} = {}
  BY DEF Calm

LEMMA LockPaymentGoesOn ==
  ASSUME SerialInv, NEW t \in Txns, NEW op \in PayFirst, NEW g \in Groups, LockPayment(t, op, g)
  PROVE  SerialInv'
<1> DEFINE x == [Idle EXCEPT !.op = op, !.phase = "first", !.group = g]
<1>1. x.op = op /\ x.match = {} /\ Become(t, x)
  BY DEF LockPayment, Idle
<1>2. RequestInv'
  BY LockPaymentKeeps DEF SerialInv
<1> HIDE DEF x
<1>3. MayGoOn(x)
  BY <1>1 DEF MayGoOn, PaymentSeen, CancelSeen, StaleSeen, HoursSeen, PayFirst, Closing
<1> QED BY <1>1, <1>2, <1>3, ReadGoesOn

LEMMA LockRowsOfPaymentGoesOn ==
  ASSUME SerialInv, NEW t \in Txns, LockRowsOfPayment(t)
  PROVE  SerialInv'
<1> DEFINE y == Ready(txn[t], GroupRows(txn[t].group))
<1>1. Become(t, y) /\ txn[t].op \in PayFirst
  BY DEF LockRowsOfPayment
<1>2. y.op \in PayFirst /\ y.match = {}
  BY <1>1, Relied, ReadyNote, NoMatchIsLive DEF StillTrue, Shape
<1>3. RequestInv'
  BY LockRowsOfPaymentKeeps DEF SerialInv
<1> HIDE DEF y
<1>4. MayGoOn(y)
  BY <1>2 DEF MayGoOn, PaymentSeen, CancelSeen, StaleSeen, HoursSeen, PayFirst, Closing
<1> QED BY <1>1, <1>3, <1>4, ReadGoesOn

LEMMA LockRowsGoesOn ==
  ASSUME SerialInv, NEW t \in Txns, NEW op \in RowsOnly, NEW g \in Groups, LockRows(t, op, g)
  PROVE  SerialInv'
<1> DEFINE z == [Idle EXCEPT !.op = op, !.group = g]
<1>1. /\ MayProceed(op, g) /\ RequestInv'
      /\ \E B \in RowsFor(op, g) : Become(t, Ready(z, B))
  BY LockRowsKeeps DEF SerialInv, LockRows
<1>2. PICK B \in RowsFor(op, g) : Become(t, Ready(z, B))
  BY <1>1
<1>3. DOMAIN z = Fields /\ z.op = op /\ z.group = g
  BY OpNote DEF Fields, Idle
<1> HIDE DEF z
<1> DEFINE y == Ready(z, B)
<1>4. /\ y.op = op /\ y.group = g /\ y.rows = B /\ y.pay = pay /\ y.back = back
      /\ y.match = {}
  BY <1>3, Relied, ReadyNote, NoMatchIsLive
<1>5. op \in {"initiate_payment", "release_group", "cancel_group", "cancel_booking", "auto_cancel_stale_bookings"}
  BY DEF RowsOnly
<1> HIDE DEF y
<1>6. CancelSeen(y)
  <2>1. op = "cancel_group" =>
          Live(g) # {} /\ ~AllAre(Live(g), "pending_payment") /\ NotStarted(Live(g))
    BY <1>1 DEF MayProceed
  <2>2. op = "cancel_booking" => "cancel_booking" \in PerRow /\ \E b \in Live(g) : B = {b}
    BY <1>1, <1>2 DEF MayProceed, RowsFor
  <2>3. back[g] \in Nat
    BY Relied DEF TypeOK
  <2> QED BY <1>4, <2>1, <2>2, <2>3 DEF CancelSeen
<1>7. StaleSeen(y)
  BY <1>2, <1>4 DEF StaleSeen, RowsFor
<1>8. PaymentSeen(y) /\ HoursSeen(y)
  BY <1>4, <1>5 DEF PaymentSeen, HoursSeen
<1>9. MayGoOn(y)
  BY <1>4, <1>6, <1>7, <1>8 DEF MayGoOn
<1> QED BY <1>1, <1>2, <1>9, ReadGoesOn DEF y

LEMMA ReadArenaGoesOn ==
  ASSUME SerialInv, NEW t \in Txns, NEW g \in Groups,
         NEW B \in (SUBSET {b \in Bookings : GroupOf[b] = g}) \ {{}},
         NEW f \in Injections(B, Slots), ReadArena(t, g, f)
  PROVE  SerialInv'
<1> DEFINE x == [Idle EXCEPT !.op = "create_booking", !.phase = "read", !.group = g, !.slots = f]
<1>1. /\ Become(t, x) /\ x.op = "create_booking" /\ x.phase = "read" /\ x.slots = f /\ x.match = {}
  BY DEF ReadArena, Idle
<1>2. \A b \in DOMAIN f : f[b] \notin past
  BY DEF ReadArena
<1>3. DOMAIN f = B /\ B # {}
  BY DEF Injections
<1>4. RequestInv'
  BY ReadArenaKeeps DEF SerialInv
<1> HIDE DEF x
<1>5. MayGoOn(x)
  BY <1>1, <1>2, <1>3 DEF MayGoOn, PaymentSeen, CancelSeen, StaleSeen, HoursSeen, Closing
<1> QED BY <1>1, <1>4, <1>5, ReadGoesOn

LEMMA LockSlotsGoesOn ==
  ASSUME SerialInv, OnlyLocking, NEW t \in Txns, NEW rent \in BOOLEAN, LockSlots(t, rent)
  PROVE  SerialInv'
<1> DEFINE x == txn[t]
           z == [x EXCEPT !.rent = rent]
           y == Ready(z, {})
<1>1. /\ x.op = "create_booking" /\ Become(t, y) /\ (rent => avail > 0)
      /\ \A b \in DOMAIN x.slots : slot[x.slots[b]] = "available"
  BY DEF LockSlots
<1>2. ~rent
  BY <1>1, Relied DEF OnlyLocking, TypeOK
<1>3. DOMAIN z = Fields /\ z.op = x.op /\ z.slots = x.slots /\ ~z.rent
  BY <1>2, Relied DEF StillTrue, Shape, Fields
<1> HIDE DEF z
<1>4. y.op = "create_booking" /\ y.slots = x.slots /\ ~y.rent /\ y.match = {}
  BY <1>1, <1>3, Relied, ReadyNote, NoMatchIsLive
<1>5. RequestInv'
  BY LockSlotsKeeps DEF SerialInv
<1>6. HoursSeen(x)
  BY Relied DEF MayGoOn
<1> HIDE DEF y
<1>7. MayGoOn(y)
  BY <1>1, <1>4, <1>6 DEF MayGoOn, PaymentSeen, CancelSeen, StaleSeen, HoursSeen, Closing
<1> QED BY <1>1, <1>5, <1>7, ReadGoesOn

LEMMA ReadsGoOn ==
  ASSUME SerialInv, OnlyLocking, NEW t \in Txns, Reads(t) \/ Rollback(t)
  PROVE  SerialInv' /\ UNCHANGED vars
<1>1. UNCHANGED vars
  BY DEF Reads, Rollback, LockPayment, LockRowsOfPayment, LockRows, ReadArena, LockSlots,
     LockArena, LockFutureRows, ReadSlot, ReadFinished, ReadConfirmed, ReadForced, Become
<1>2. ASSUME Rollback(t) PROVE SerialInv'
  <2>1. Become(t, Idle) /\ RequestInv'
    BY <1>2, UnlockedReadsKeep DEF Rollback, SerialInv
  <2> QED BY <2>1, IdleGoesOn, ReadGoesOn
<1>3. ~LockFutureRows(t)
  <2>1. txn[t].op # "close_arena"
    BY Relied DEF MayGoOn, PayFirst, RowsOnly
  <2> QED BY <2>1 DEF LockFutureRows
<1>4. "close_arena" \notin Ops /\ Ops \cap NoLock = {}
  BY DEF OnlyLocking, PayFirst, RowsOnly, NoLock
<1>5. /\ \A to : ~LockArena(t, to)
      /\ \A s : ~ReadSlot(t, s) /\ ~ReadForced(t, s) /\ ~ReadConfirmed(t, s)
      /\ ~ReadFinished(t)
  BY <1>4 DEF LockArena, ReadSlot, ReadForced, ReadConfirmed, ReadFinished, NoLock
<1>6. ASSUME Reads(t) PROVE SerialInv'
  BY <1>3, <1>5, <1>6, LockPaymentGoesOn, LockRowsOfPaymentGoesOn, LockRowsGoesOn,
     ReadArenaGoesOn, LockSlotsGoesOn DEF Reads
<1> QED BY <1>1, <1>2, <1>6

-----------------------------------------------------------------------------
(* Every commit is a step of the engine, and leaves the others their way   *)

LEMMA CommitPaymentGoesOn ==
  ASSUME SerialInv, RequestInv', NEW t \in Txns,
         CommitConfirm(t) \/ CommitFail(t) \/ CommitReceipt(t)
           \/ \E m \in Method : CommitInitiate(t, m)
  PROVE  SerialInv' /\ Next
<1>0. PICK g : g = txn[t].group
  OBVIOUS
<1>1. /\ Commit(t) /\ Whole(txn[t]) /\ txn[t].op # "cancel_booking"
  BY DEF CommitConfirm, CommitFail, CommitReceipt, CommitInitiate, Whole, PayFirst
<1>2. /\ g \in Groups
      /\ \/ \E completed \in BOOLEAN : handle_webhook(g, completed)
         \/ upload_receipt(g) \/ approve_bank_transfer(g) \/ reject_bank_transfer(g)
         \/ \E m \in Method : initiate_payment(g, m)
  BY <1>0, ConfirmStep, FailStep, ReceiptStep, InitiateStep
<1>3. Next
  BY <1>2 DEF Next, Gateway, Owner, Player
<1>4. OnlyIts(g) /\ RefundIsDue(g)'
  BY <1>2, PaymentTouches DEF SerialInv
<1>5. SerialInv'
  BY <1>0, <1>1, <1>2, <1>3, <1>4, CommitGoesOn DEF Acts
<1> QED BY <1>3, <1>5

LEMMA CommitHoldGoesOn ==
  ASSUME SerialInv, RequestInv', NEW t \in Txns, CommitRelease(t) \/ CommitSweep(t)
  PROVE  SerialInv' /\ Next
<1>0. PICK g : g = txn[t].group
  OBVIOUS
<1>1. Commit(t) /\ Acts(txn[t]) /\ txn[t].op # "cancel_booking"
  BY DEF CommitRelease, CommitSweep, Acts, Whole
<1>2. g \in Groups /\ (release_group(g) \/ auto_cancel_stale_bookings({g}))
  BY <1>0, ReleaseStep, SweepStep
<1>3. Next
  <2>1. {g} \in (SUBSET Groups) \ {{}}
    BY <1>2
  <2> QED BY <1>2, <2>1 DEF Next, Player, Sweep
<1>4. OnlyIts(g) /\ RefundIsDue(g)'
  BY <1>2, HoldTouches DEF SerialInv
<1>5. SerialInv'
  BY <1>0, <1>1, <1>2, <1>3, <1>4, CommitGoesOn
<1> QED BY <1>3, <1>5

LEMMA CommitCancelGroupGoesOn ==
  ASSUME SerialInv, RequestInv', NEW t \in Txns, NEW tier \in Tiers, CommitCancelGroup(t, tier)
  PROVE  SerialInv' /\ Next
<1>0. PICK g : g = txn[t].group
  OBVIOUS
<1>1. Commit(t) /\ Acts(txn[t]) /\ txn[t].op # "cancel_booking"
  BY DEF CommitCancelGroup, Acts, Whole
<1>2. g \in Groups /\ cancel_group(g, tier)
  BY <1>0, CancelGroupStep
<1>3. Next
  BY <1>2 DEF Next, Player
<1>4. OnlyIts(g) /\ RefundIsDue(g)'
  BY <1>2, CancelGroupTouches DEF SerialInv
<1>5. SerialInv'
  BY <1>0, <1>1, <1>2, <1>3, <1>4, CommitGoesOn
<1> QED BY <1>3, <1>5

LEMMA CommitCancelBookingGoesOn ==
  ASSUME SerialInv, RequestInv', NEW t \in Txns, NEW tier \in Tiers, CommitCancelBooking(t, tier)
  PROVE  SerialInv' /\ Next
<1>0. PICK g : g = txn[t].group
  OBVIOUS
<1>1. Commit(t) /\ Acts(txn[t]) /\ txn[t].op = "cancel_booking"
  BY DEF CommitCancelBooking, Acts
<1>2. g \in Groups
  BY <1>0, <1>1, Relied DEF RowsOnly
<1>3. PICK b \in Live(g) : txn[t].rows = {b} /\ cancel_booking(b, tier)
  BY <1>0, CancelBookingStep
<1>4. b \in Bookings
  BY <1>3 DEF Live, Made
<1>5. Next
  BY <1>3, <1>4 DEF Next, Player
<1>6. /\ OnlyIts(g) /\ RefundIsDue(g)'
      /\ pay[g].status = "pending" \/ pay'[g].status = "pending" => pay'[g] = pay[g]
      /\ status' = SetStatus(txn[t].rows, "cancelled")
  BY <1>2, <1>3, CancelBookingTouches DEF SerialInv
<1>7. SerialInv'
  BY <1>0, <1>1, <1>2, <1>5, <1>6, CommitGoesOn
<1> QED BY <1>5, <1>7

LEMMA CommitCheckoutGoesOn ==
  ASSUME SerialInv, RequestInv', NEW t \in Txns, NEW coupon \in BOOLEAN, CommitCheckout(t, coupon)
  PROVE  SerialInv' /\ Next
<1>0. PICK g, f : g = txn[t].group /\ f = txn[t].slots
  OBVIOUS
<1>1. Commit(t) /\ Acts(txn[t]) /\ txn[t].op = "create_booking"
  BY DEF CommitCheckout, Acts
<1>2. /\ g \in Groups /\ Made(g) = {} /\ CreateBooking
      /\ \E lead \in DOMAIN f : create_booking(g, f, lead, FALSE, coupon)
  BY <1>0, CheckoutStep
<1>3. \A b \in DOMAIN f : GroupOf[b] = g
  BY <1>0, <1>1, Relied DEF StillTrue, NewRows
<1>4. Next
  BY <1>2 DEF Next, Player
<1>5. OnlyIts(g) /\ RefundIsDue(g)'
  BY <1>2, <1>3, CheckoutTouches DEF SerialInv
<1>6. SerialInv'
  BY <1>0, <1>1, <1>2, <1>4, <1>5, CommitGoesOn
<1> QED BY <1>4, <1>6

LEMMA CommitsGoOn ==
  ASSUME SerialInv, NEW t \in Txns, Commits(t)
  PROVE  SerialInv' /\ Next
<1>1. RequestInv'
  BY CommitsKeep DEF SerialInv
<1>2. txn[t].op \notin NoLock /\ txn[t].op # "close_arena"
  BY Relied DEF MayGoOn, PayFirst, RowsOnly, NoLock
<1>3. /\ ~CommitForceRefund(t) /\ ~CommitClosure(t) /\ ~CommitSlotEdit(t)
      /\ ~CommitCompletion(t)
  BY <1>2 DEF CommitForceRefund, CommitClosure, CommitSlotEdit, CommitCompletion, NoLock
<1>4. ~CommitMatch(t)
  BY <1>2 DEF CommitMatch, NoLock
<1> QED BY <1>1, <1>3, <1>4, CommitPaymentGoesOn, CommitHoldGoesOn, CommitCancelGroupGoesOn,
     CommitCancelBookingGoesOn, CommitCheckoutGoesOn DEF Commits

LEMMA BackgroundGoesOn ==
  ASSUME SerialInv, Background
  PROVE  SerialInv' /\ Next
<1>1. UNCHANGED <<status, slotOf, goods, pay, back, match, txn>>
  BY DEF Background, generate_slots, Pass, reactivate_arena
<1>2. RequestInv'
  BY <1>1, QuietKeeps DEF SerialInv
<1>3. ~reactivate_arena
  BY DEF SerialInv, Calm, reactivate_arena
<1>4. Next /\ arena' = arena
  BY <1>3 DEF Background, Next, Owner, Clock, generate_slots, Pass
<1>5. IInv'
  BY <1>4, StepKeeps DEF SerialInv
<1>6. Calm'
  BY <1>1, <1>4, CalmStays DEF SerialInv, goods
<1>7. ASSUME NEW t \in Txns PROVE MayGoOn(txn[t])'
  <2>1. PICK y : y = txn[t]
    OBVIOUS
  <2>2. MayGoOn(y) /\ txn'[t] = y
    BY <1>1, <2>1 DEF SerialInv
  <2>3. CASE \E S \in SUBSET Slots : generate_slots(S)
    <3>1. PICK S \in SUBSET Slots : generate_slots(S)
      BY <2>3
    <3>2. past' = past
      BY <3>1 DEF generate_slots
    <3>3. \A s \in Slots : slot[s] = "available" => slot'[s] = "available"
      BY <3>1 DEF generate_slots, SetSlots
    <3>4. HoursSeen(y)
      BY <2>2 DEF MayGoOn
    <3>5. \A b \in DOMAIN y.slots : y.op = "create_booking" => y.slots[b] \in Slots
      BY <3>4 DEF HoursSeen, Injections
    <3>6. HoursSeen(y)'
      BY <3>2, <3>3, <3>4, <3>5 DEF HoursSeen
    <3>7. PaymentSeen(y)' /\ CancelSeen(y)' /\ StaleSeen(y)'
      BY <1>1, <2>2, <3>2 DEF MayGoOn, PaymentSeen, CancelSeen, StaleSeen, Live, Made, Stale,
         AllAre, NotStarted
    <3>8. MayGoOn(y)'
      BY <2>2, <3>6, <3>7 DEF MayGoOn
    <3> QED BY <2>2, <3>8, ToldGoing
  <2>4. CASE \A u \in Txns : txn[u] = Idle
    <3>1. txn'[t] = Idle
      BY <1>1, <2>4
    <3> QED BY <3>1, IdleGoesOn, ToldGoing
  <2> QED BY <1>3, <2>3, <2>4 DEF Background
<1> QED BY <1>2, <1>4, <1>5, <1>6, <1>7 DEF SerialInv

LEMMA StandstillGoesOn ==
  ASSUME SerialInv, UNCHANGED txnVars
  PROVE  SerialInv'
<1>1. UNCHANGED vars /\ txn' = txn
  BY DEF txnVars
<1>2. RequestInv'
  BY <1>1, QuietKeeps DEF SerialInv, vars
<1>3. IInv' /\ Calm'
  BY <1>1, StepKeeps, CalmStays DEF SerialInv, vars, goods
<1>4. ASSUME NEW t \in Txns PROVE MayGoOn(txn[t])'
  <2>1. PICK y : y = txn[t]
    OBVIOUS
  <2>2. MayGoOn(y) /\ txn'[t] = y
    BY <1>1, <2>1 DEF SerialInv
  <2>3. MayGoOn(y)'
    BY <1>1, <2>2, SameGoing
  <2> QED BY <2>2, <2>3, ToldGoing
<1> QED BY <1>2, <1>3, <1>4 DEF SerialInv

LEMMA SerialStart == Init /\ txn = [t \in Txns |-> Idle] => SerialInv
<1> SUFFICES ASSUME Init, txn = [t \in Txns |-> Idle] PROVE SerialInv
  OBVIOUS
<1>1. RequestInv /\ IInv
  BY RequestsStart, InitEstablishes
<1>2. Calm
  BY DEF Init, Calm, RefundIsDue
<1>3. \A t \in Txns : MayGoOn(txn[t])
  BY IdleGoesOn
<1> QED BY <1>1, <1>2, <1>3 DEF SerialInv

LEMMA SerialStep ==
  ASSUME OnlyLocking
  PROVE  SerialInv /\ [TxnNext]_txnVars => SerialInv' /\ [Next]_vars
<1> SUFFICES ASSUME SerialInv, [TxnNext]_txnVars PROVE SerialInv' /\ [Next]_vars
  OBVIOUS
<1>1. CASE UNCHANGED txnVars
  BY <1>1, StandstillGoesOn DEF txnVars
<1>2. CASE \E t \in Txns : Reads(t) \/ Commits(t) \/ Rollback(t)
  BY <1>2, ReadsGoOn, CommitsGoOn
<1>3. CASE Background
  BY <1>3, BackgroundGoesOn
<1> QED BY <1>1, <1>2, <1>3 DEF TxnNext

(* The row locks make requests atomic: whichever requests run beside it,   *)
(* and however many, a handler that locks the rows it changes commits one  *)
(* step of the engine.                                                     *)
THEOREM CommitsAreEngineSteps ==
  ASSUME OnlyLocking
  PROVE  TxnSpec => ImplementsEngine
<1>1. Init /\ txn = [t \in Txns |-> Idle] => Init /\ SerialInv
  BY SerialStart
<1>2. SerialInv /\ [TxnNext]_txnVars => SerialInv' /\ [Next]_vars
  BY SerialStep
<1> QED BY <1>1, <1>2, PTL DEF TxnSpec, ImplementsEngine, Spec

(* So the engine's accounts hold of overlapping requests too: refunds stay *)
(* within the capture, although each caps its own by the sum it has read,  *)
(* and a code is handed out as often as it is held.                        *)
THEOREM AccountsHoldBeside ==
  ASSUME OnlyLocking
  PROVE  TxnSpec => [](RefundsWithinCapture /\ DiscountUsesCounted)
<1>1. SerialInv => RefundsWithinCapture /\ DiscountUsesCounted
  BY DEF SerialInv, IInv, RefundsCovered, RefundsWithinCapture
<1>2. SerialInv /\ [TxnNext]_txnVars => SerialInv'
  BY SerialStep
<1> QED BY <1>1, <1>2, SerialStart, PTL DEF TxnSpec

=============================================================================
