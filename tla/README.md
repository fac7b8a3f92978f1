# A formal model of the ArenaHub booking system

ArenaHub rents hours on sports courts.  A player takes one or more hours of a
court in one checkout (a *booking group*: one row of `bookings` per hour, one
payment for the group), pays through a gateway or by bank transfer with a
receipt the arena's owner approves, may move or cancel the group, may rent
equipment with it, use a discount code and open it as a pick-up match.  Owner,
admin, gateway webhooks and scheduler jobs change the same rows.  Players use a
mobile app, owners a web console, administrators both.

This directory holds TLA+ modules of that system, TLC configurations that check
them on small instances, and proofs checked by TLAPS.  Paths below are relative
to `src/backend/app/`; those that begin with `mobile/` or `web/`, to
`src/frontend/`.

## 1. Inventory

| Component (source) | State it keeps | Operations that change state | What makes it correct |
|---|---|---|---|
| Booking engine (`modules/booking/service.py`, `group_service.py`, `repository.py`) | `bookings` rows: status, slot, group; `discount_released_at` | `create_booking`, `release_group`, `cancel_group`, `cancel_booking`, `reschedule_group`, `reschedule_booking`, `cancel_future_bookings_for_arena`, `auto_cancel_stale_bookings`, `complete_finished_bookings` | an hour is sold once; slot, booking and payment tell the same story; an unpaid hold ends; a dead booking stays dead |
| Payments (`modules/payment/service.py`, `state_machine.py`, `model.py`) | `payments`: coarse status, fine lifecycle, receipt; `refunds` | `initiate_payment`, `initiate_balance_payment`, `handle_webhook`, `upload_receipt`, `approve_`/`reject_bank_transfer`, refunds, `retry_pending_refunds`, `force_refund` | nobody plays unpaid; captured money is decided on; refunds stay within what was paid; no path raises on an illegal transition |
| Slots and calendar (`modules/slot/service.py`) | `time_slots.status` | generate, edit, delete | the calendar agrees with the bookings |
| Equipment (`modules/equipment/service.py`) | `quantity_available`, lines of a booking | reserve, release | every unit is in stock or on a booking that stands |
| Discount codes (`modules/arena/repository.py`) | `used_count`, one claim per group | reserve a use, release it | count = uses held; a use is lost only when paid for |
| Matches (`modules/match/service.py`) | match status, members, requests | create, join, approve, leave, cancel, follow the booking | a live match is played on a booking that stands; never above its size |
| Arena moderation (`modules/admin/service.py`) | arena live, suspended, removed | suspend, reactivate, delete | closing cancels and refunds everything ahead |
| Background jobs (`tasks/scheduler.py`) | none | auto-cancel and completion sweeps, refund retry, reminders | they keep running and keep succeeding |
| Slot lock, idempotency (`cache/locking.py`, `shared/idempotency.py`) | Redis keys with a TTL | acquire, release, claim, store | at most one checkout per slot; at most one execution per key |
| Policy arithmetic (`shared/refunds.py`, `shared/pricing.py`) | none | refund tiers, prices, shares | shares add up; a refund never exceeds a payment |
| Authentication (`modules/auth/service.py`, `sessions.py`, `shared/codes.py`) | refresh tokens in families, denied access tokens, emailed codes and their waits | sign in, rotate, log out, log out everywhere; issue and check a code | a refresh token is used once and a copy ends the family; one code works at a time |
| Mobile sign-in (`mobile/lib/api.ts`, `store/auth.ts`, `app/_layout.tsx`) | the pair in memory and in the keychain, the shared refresh | hydrate, check, request, refresh, sign in, log out | never sets off the reuse alarm by itself; logged out stays logged out |
| Web sign-in (`web/services/api.ts`, `store/auth.ts`, `middleware.ts`) | a pair per tab, localStorage, the role cookie | the same, in several tabs | who is signed in gets in; tabs do not end each other's session |
| Code step (`mobile/` and `web/components/auth/use-code-entry.tsx`) | digits, the wait for a new code | type, confirm, ask again, reload | a link that looks ready is served |
| Checkout (`mobile/app/booking/`, `hooks/useLeaveCheckout.tsx`) | the remembered booking, requests under way | price, pay, leave, resume, send a receipt | one booking per checkout; the last screens tell the truth |
| Picking hours (`mobile/hooks/useCourtSlots.ts`, `app/court/[id]/slots.tsx`; `websocket/manager.py`) | the list, the selection, the channel | fetch, patch, reconnect, choose | the list catches up; the selection is open |
| Hearts (`mobile/hooks/useLiked.ts`) | the set of liked arenas | tap, put back | hearts are likes |
| Settings form (`web/app/admin/(dashboard)/settings/page.tsx`) | a copy of the record per tab | edit, save, read again | tabs do not undo each other |
| Screens and their caches (`mobile/app/`, `web/app/`, the query hooks) | cached rows, stale or not | some seventy operations with the keys each invalidates | a person's own change shows; a button is refused only on an old row |
| Reports, assistant, static pages, icons | none | read only | not modelled |

**How they interact.**  Nearly everything is one PostgreSQL transaction per
request that reaches through several services: `_apply_cancellation` frees the
slot, releases equipment, gives the discount use back, issues a refund and
cancels the match.  Row locks (`list_group_for_update`, `get_slot_for_update`)
serialise the requests that meet on one group; a Redis lock per slot keeps two
checkouts apart earlier.  Gateways call back through `handle_webhook` at any
time, once, several times or never; APScheduler runs the sweeps beside all of
it.

**What is hard.**  A payment is settled by whoever comes first: gateway, owner,
player, sweep or an arena's closure, and each of a dozen paths that end a group
must by itself close its payment, free its hours and give back what it held.
Some endpoints act on a whole group and some on one row of it.  Receipts,
approvals and webhooks arrive after the group has moved on.  Counters
(`used_count`, `quantity_available`) sit at their limits under check
constraints, so a double release raises.  The sweeps must go on succeeding for a
hold ever to end.  In the clients every answer may be late, lost or overtaken
by another: two requests for one thing, two tabs with one session, two ways to
learn of a change, two copies of one clock.  `PROJECT.json` lists each such
hazard at its line, with the property that would catch it or why none does.

## 2. Modules

| Module | What it is |
|---|---|
| `PaymentLifecycle` | status vocabularies and the table of legal payment moves (`state_machine.py`) |
| `BookingEngine` | the state machine: slots, bookings, payments, discount use, equipment, match; one action per request or job |
| `CourtCalendar` | abstract specification: what the engine promises about who has which hour |
| `EngineCalendar` | the refinement mapping, `BookingEngine` implements `CourtCalendar` |
| `BookingTxn` | the engine's handlers as database transactions that overlap: locks, unlocked reads, commits, rollbacks |
| `MCBookingEngine`, `MCBookingTxn` | instances and bounds for TLC |
| `BookingEngineProofs` | theorems about `BookingEngine` for every value of its constants |
| `BookingGroupProofs` | theorems about it for clients that end bookings by whole groups; that it implements `CourtCalendar` |
| `TokenPairs` | the server's token pairs: rotation, families, the reuse alarm (operators) |
| `ClientSession` | the sign-in of the mobile app |
| `WebSession` | the sign-in of the web consoles, in several tabs of one browser |
| `CodeParams`, `CodeEntry` | the code step of both clients with the server's codes |
| `PlayerCheckout` | the checkout screens |
| `LiveSlots` | picking hours: fetch and channel |
| `LikedArenas`, `SettingsForm` | optimistic hearts; tabs over one record |
| `ScreenRows` | the rows screens show and what the server makes of each status |
| `PlayerScreens`, `OwnerScreens`, `AdminScreens` | tables: every screen with its queries and buttons, every operation with the keys it invalidates |
| `Screens` | the machine the tables run on: a button, a query, a screen that shows it; what the tables say whatever happens (`Covered`, `Accepted`) |
| `ScreenProofs` | proofs about the code step and the screens; the types of every client part |
| `Clients` | all the client parts side by side, with their properties |
| `MCClients` | the instance and bounds of `Clients` for TLC |
| `TxnProofs` | theorems about `BookingTxn`, for any number of requests open at once |
| `SessionProofs`, `PhoneProofs`, `CheckoutProofs` | theorems about the mobile app: sign-in; hearts and hour list; checkout |
| `ConsoleProofs` | theorems about the web consoles: sign-in, settings form |

### State

`slot`, `status`, `slotOf` are the columns of the same meaning; `"none"` is a
slot or row not yet inserted.  `pay[g]` is the booking payment of the group
(coarse status, lifecycle, method, whether a receipt is there), `back[g]` the
refund units issued against it, `moved` the groups whose payment history shows
the one reschedule a paid group is allowed.  `code[g]` says whether the group
holds, or has given back, a use of the discount code that `used` counts.
`line` is the set of rows with an equipment line and `avail` the stock.
`past` holds the slots whose hour is over.

### Actions

An action is the whole handler, and takes the name of the function it models.  A
handler that raises rolls back, so refusals are guards; that includes the
database's own refusals: the partial unique index on active slots
(`UniqueActiveSlot`, a condition on the committed state) and the check
constraint `quantity_available <= quantity_total` (in `ReleaseEquipment`).
`Owner`, `Player`, `Admin`, `Gateway`, `Sweep` and `Clock` group the actions by
who takes them.

Some behaviour is kept on purpose because properties turn on it:
`confirm_group`, `fail_group` and `upload_receipt` act on *every* row of the
group whatever its status; `fail_group` does not tell the match; `cancel_booking`
leaves the group's pending payment open; `force_refund` touches neither the open
payment, the discount use nor the match; equipment lines survive their release;
the stale sweep frees only slots still `reserved`.

### `PerRow`

The clients act on whole groups.  The API also has endpoints for one row:
`cancel_booking`, `reschedule_booking`, `force_refund`.  The constant `PerRow`
says which of them clients call.  `reschedule_booking` moves a row and is harmless;
`cancel_booking` and `force_refund` end one row and leave the rest of its group,
its payment or its match as they were.  Without those two (`EndsByGroup`) the
strict properties hold; with all three, those of the run `EngineAll` survive.

### What is abstracted

* Every hour costs two refund units; a policy tier gives back 0, 1 or 2 of them
  per hour, a cheaper new hour `Overpaid` units.  The split into advance and
  balance, the arithmetic and its rounding are left out.
* An hour starts and ends in one step (`Pass`), so "not started" and "not
  finished" coincide.  Match start times, phone numbers, roles and ownership
  checks, blocked dates and opening hours are left out.
* Whether an unpaid hold is 24 hours old is nondeterministic: the sweep may take
  any groups with unpaid rows.
* `update_slot` accepts any status; the owner's clients send `available` and
  `maintenance` only, and so does the model.
* One discount code, one equipment item rented one unit at a time.
* A request is one step in `BookingEngine`; `BookingTxn` takes the handlers
  apart.
* Moving a group to hours that overlap its own may fail row by row on the unique
  index, depending on the order of the UPDATEs; the model lets it succeed.
* Developer-only endpoints (payment simulation) are left out.

### Transactions (`BookingTxn`)

`BookingTxn` extends `BookingEngine`: its variables are the committed database,
and `txn[t]` is what session `t` has locked and read.  A handler takes one step
per `SELECT ... FOR UPDATE` and one for its commit:

| Handlers | Steps | Locks held |
|---|---|---|
| `handle_webhook`, `upload_receipt`, approve and reject (`PayFirst`) | `LockPayment`, `LockRowsOfPayment`, commit | the payment, then the rows of its group |
| `initiate_payment`, `release_group`, `cancel_group`, `cancel_booking`, the sweep (`RowsOnly`) | `LockRows`, commit | the rows; the payment is read unlocked and written |
| `create_booking` | `ReadArena`, `LockSlots`, commit | the slots |
| `suspend_arena`, `delete_arena` | `LockArena`, `LockFutureRows`, commit | the arena, then the rows |
| `update_slot`, completion job, `create_match`, `force_refund` (`NoLock`) | a read, commit | none |

`Ready` keeps what a handler reads after its locks and uses at the commit: the
payment, the stock of equipment, the refunds so far, the live match.  The commit
writes `quantity_available` as a value computed from that reading, caps a refund
by the refunds seen, closes the payment only if it was seen open; `used_count`,
by contrast, is an atomic UPDATE in the code and reads the current value.  A
commit waits (`Written`) for rows another session has locked.  The two lock
orders, payment before rows and rows before payment, deadlock when they meet;
PostgreSQL ends that by rolling one request back, which is `Rollback`, as are a
refusal and a lost connection.  The database runs at READ COMMITTED, its
default, so a lock that was waited for returns fresh rows; the queries that lock
ask for `populate_existing`, or their callers keep no older copy.

Left out: rescheduling and the deletion of slots (the unique index is what
protects them, as in `BookingEngine`), the Redis slot lock, which only turns away
a second checkout earlier, and hours that pass while a request is open.  The
unlocked reads of one phase are one step; the sweep takes one group.

### Clients

Each client module is a state machine of its own and includes the server as far
as its clients can tell.  A request takes three steps: it leaves with what the
client holds at that moment, it is served, and its answer is handled; between
any two of them everything else may happen, and the answer, or the request, may
be lost.  History variables (`lost`, `parted`, `mishap`, `missed`, `unseen`,
`slips`, `spoiled`, `excused`) name the mishaps a run has met, so that a property
can say exactly which of them its claim does not survive.  Each such exception is
a way in which the code can go wrong (section 4); without the mishap the claim is
unconditional.

* **`ClientSession`.**  `phone` is the auth store and what the root layout
  remembers, `saved` the keychain, written a moment later.  `call[k]` is one
  authed request of each kind (a page, a save of the profile, log out, an end of
  every session, the start-up check, the account load of a sign-in); a 401 joins
  `refresh`, the one shared promise, or starts it with the pair the store holds
  *then* (`RefreshPair`).  `clear()` drops the queries, and stops nothing that is
  out: a sign-in may begin beside requests of the session before (`lost` then
  holds `"beside"`), and one that carries a saved token and is refused renews that
  token like any other 401 (`SigninUnauthorized`).  Access tokens expire, the
  account may be cut off elsewhere, the app may be killed at any time.  One
  sign-in at a time: a person who leaves the screen of an unanswered one starts
  no other.
* **`WebSession`.**  A tab reads `kept` (localStorage) only when it loads and
  writes it on every change; `cookie` decides in the middleware, the store in
  the layouts.  Signing in, renewing and logging out run in every tab.  An
  account is named by its role.
* **`CodeEntry`.**  `flow` is the screen that uses the hook: sign-up, reset,
  admin sign-in, change of email or phone on the web, and the phone's change
  screens, whose wait starts with the form.  The server has two waits: `cool` of
  the account and `gate` of the address, in the flows anyone can call, where it
  also keeps quiet about having sent nothing.  The maximum of an hour is the
  server's alone: the screen does not know of it.
* **`PlayerCheckout`.**  `screen` is what is open, `remembered` the booking the
  checkout store knows, `paying` the two requests of Pay, `leaving` the leave
  sheet, `sending` upload and receipt.  The server is the part of
  `BookingEngine` these screens meet, with gateway, owner and sweep.  Screens are
  pushed on each other: `screen.review` and `screen.left` say whether a Review of
  these times is mounted below, which asks for their price again on its own
  (`AskBelow`) whatever was booked since.  `Racing`
  and `LateCode` switch in a person who taps on while an answer is awaited, or
  applies a promo code after the booking was made.
* **`LiveSlots`.**  The court's channel replays nothing and is not ordered
  against the fetch; a release is announced before it commits, and may not.
  `FirstOut` is the first fetch, which an invalidation does not restart.
* **`LikedArenas`**, **`SettingsForm`**: the two optimistic or copying forms,
  with the fetches that run beside them.
* **`Screens`** with its tables.  `subject` is chosen once: an operation, a
  screen that offers it, a query of that client that shows a row the operation
  changes, and a screen that shows the query.  A row is its status; others may
  move it once.  The tables say for each operation what the server accepts
  (`ScreenRows`, from the services) and what it invalidates (from the mutation's
  `onSuccess` and `onError`).  What the code forgets is listed by name in `PlayerLags`,
  `OwnerLags`, `AdminLags`, `PhoneLags`.  A query shows a row when it lists it or
  counts it; names joined to a row and the order of a list are not followed.
  What a page offers and the server
  refuses, is in `OwnerUnchecked`.  A screen that mounts fetches what is missing or
  stale; an invalidation restarts a fetch that is out, except the first.  That
  part models TanStack Query as the code uses it and is marked external.

Left out of the client modules: layout, wording, form fields and their
validation, paging and filters, deep links and push registration.

## 3. Runs

Deadlock checking is off in every run: nobody is obliged to book, pay or cancel,
and once every row is dead and every hour past nothing need happen.

| Run | Question | Result |
|---|---|---|
| `EngineGroup` | do calendar, payment, discount, equipment and match stay consistent when clients end whole groups, and move single rows too? | pass, about 520,000 states |
| `EngineAll` | what still holds when the single-row endpoints are mixed in? | pass, about 165,000 states |
| `EngineCalendar` | does the engine implement `CourtCalendar`? | pass, about 21,000 states |
| `EngineLife` | does every unpaid hold end and every confirmed booking get completed or cancelled? | pass, about 25,000 states |
| `EngineStuckHold` | does an unpaid hold end when equipment is rented? | violated: finding 1 |
| `TxnSerial` | are the handlers that lock their rows atomic, two requests at a time? | pass, about 137,000 states |
| `TxnAll` | do payment and booking agree when the handlers without locks run beside them? | pass, about 420,000 states |
| `TxnRefund` | do refunds stay within the capture when two requests refund? | violated: finding 2 |
| `TxnEquipment` | is the last unit rented once? | violated: finding 3 |
| `TxnClosure` | has a closed arena no upcoming booking? | violated: finding 4 |
| `Clients` | do the clients keep their promises when answers are late, lost or out of order? | pass, about 1,550,000 states |
| `WebCookie` | does a signed-in owner get into the console? | violated: finding 5 |

**Bounds.**  Two groups, one of two rows and one of a single row, on two hours:
the smallest instance with a group larger than a row, two groups that compete,
and no room for both.  Three hours in `EngineCalendar`, so that a two-hour group
can move to hours that overlap its own.  One discount use and one unit of
equipment, so that both are at their limit as soon as one is taken.  `Tiers` is
{2} and `Overpaid` {0}: the amounts matter to `Marked` (a payment is marked
refunded when nothing is left of it), which a full refund of one row or of all
already separates; the theorems cover the other values.  State constraints, in
`MCBookingEngine`: `OneWithExtras` lets only the first group use a code or start
a match; `NoSideShows` and `JustHours` leave out what the run does not ask
about; `TransfersOnly` narrows the counterexample search.  Slots are
interchangeable, and so are the two rows of the first group: the safety runs use
that symmetry, the liveness runs do not.

The transaction runs have two sessions, the fewest that can overlap; every race
listed is one of two requests.  `TxnSerial` has the three rows and two hours of
the engine runs, with one coupon, and no hour passes: the one check of the clock
there is on locked rows.  `TxnAll` has one group of two rows, which the two
sessions are certain to meet on, and every handler; the counterexample runs have
the smallest instance that shows the race, with the handlers all in use.

`Clients` runs all client parts as one *sum*: it chooses a `part` at the
start, and only its variables move.  The parts share no state, so the run
checks each of them completely and mixes nothing.  Their instances:

| Part | Instance | States |
|---|---|---|
| session | one account, three pairs (a sign-in, a renewal, one more of either), every kind of request | 344,000 |
| web | an owner and an administrator, two tabs, two pairs, the cookie may end | 171,000 |
| code | every flow, a wait of two ticks, two tries, two codes an hour and in all | 121,000 |
| checkout | two bookings of the same times, every method | 309,000 |
| slots | two hours, one message on the channel, so that it may be overtaken | 31,000 |
| liked | two arenas, two taps at once | 45,000 |
| settings | one administrator, two sections, one edit (an undo needs no second) | 13,000 |
| pages | every operation, screen and query of the tables; one operation, one move of somebody else | 518,000 |

The constraint `Few` keeps two requests under way at a time (one, if it is a save
or an end of every session) and one mishap of a checkout, and drops states from which all of a part's properties are excused
(an operation that failed, a change that a query does not hear of).  Beside a
sign-in the older request is of a page, or the check of a phone that gave up
waiting for it; no answer is lost there, and from a renewed pair that was lost the
phone goes on with pages and no third pair.  A price is asked again by a screen below while nothing but `pay()`
is on its way, and no mishap of the checkout meets a Review left below, that
question, or somebody else who takes the times.  Two of everything is where the
races of these modules are: each mutant, and each exception the properties of
the phone's sign-in, code step and checkout name, shows up in these instances (without it, the
run is violated).  Left at `FALSE` are `Racing` and `LateCode` of the checkout,
under which `OwnTimeNotLost` fails (section 4).  `MaxMade` bounds the codes an
account is ever sent, those that did not go out among them.

**Fairness** (`FairSpec`).  Weak fairness on the sweep of each group, on the
completion job and on the passing of each hour.  APScheduler runs both jobs on an
interval for as long as the server is up; a hold gets old enough because time
passes.  No fairness is assumed of players, owners, admins or gateways, nor
anywhere in the client modules, whose properties are all safety: a client may be
put away at any moment.

**What the properties say.**

* `SlotsAgree`: a slot is reserved exactly while one unpaid or unapproved row
  stands on it, booked exactly while one confirmed or played row does.
* `OpenPaymentHasBooking`: every way an unpaid group ends closes its payment.
* `ApprovalHasReceipt`: a booking awaiting the owner has a receipt to decide on,
  except a started row of a group whose arena was closed (the closure cancels
  only future rows and yet closes the payment).
* `DiscountFollowsPayment`, `DiscountUsesCounted`: a use goes back exactly when
  the group was not paid for; the counter is the number of groups holding one.
* `EquipmentCounted`, `MatchHasBooking`: no unit is lost or doubled, no match is
  played on a dead booking.
* `ConfirmedIsPaid`, `PaidIsDecided`: confirmed or played implies paid; paid
  implies nothing of the group is left undecided.
* `LifecycleAgrees`, `OpenPaymentCanSettle`: the two statuses of a payment agree,
  and no handler that may settle an open payment can meet an illegal transition.
* `DeadStaysDead`, `GatewayNeverResurrects`: no way out of cancelled and
  rejected; with single-row endpoints, none except through a bank transfer.
* `ImplementsCalendar`: an hour never passes from one group to another without
  being free in between, a sold group is never unsold, a gone group never
  returns.
* `UnpaidHoldEnds`, `ConfirmedEnds`: the liveness above.  `EngineLife` has one group
  and no equipment: it shows that a hold ends where every release succeeds.  That one
  row can spoil the sweep for everybody is what `EngineStuckHold` is for.
* `ImplementsEngine`: `BookingTxn` with the handlers of `Serial` refines
  `BookingEngine`, the mapping being the identity on its variables: locking is
  a stutter, and each commit is the engine's action for that handler although
  it uses what was read before (proved: `CommitsAreEngineSteps`).  So the invariants of the engine, and its
  theorems, hold of overlapping requests.  The handlers outside `Serial` do not
  refine the engine: the completion job may miss a booking or overwrite a
  cancellation, `create_match` and `update_slot` may act on what has changed,
  and findings 2 and 4 are theirs.  Nor does a checkout that rents equipment
  (finding 3), so `TxnSerial` has none in stock.  `TxnAll` checks what survives
  the handlers outside `Serial`.

Of the clients:

* `NoSelfReuse`: the server's reuse alarm, which ends every session of the
  family, is never set off by the phone itself, unless a renewed pair was lost
  (its answer, or the app killed before it was written) or somebody signed in
  beside older requests: a late 401 of one of those renews the new pair before
  `setSession` (`mobile/app/(auth)/login.tsx:68`) puts it back, used.
* `LatePairIsDead`: a pair that arrives after logging out is one the server has
  already ended, unless an answer was lost or somebody signed in beside older
  requests.
* `LetInAlone`: cookie, localStorage and memory agree, so nobody signed in is
  kept on the sign-in page, until the cookie ends or another tab signs in or out.
* `AlarmHasCause`: in a browser the alarm needs two tabs that hold one pair, or
  a lost pair.  It does go off with two tabs (see section 4).
* `ReadyLinkIsServed`: a tap on "Send a new code", once answered, has had the
  server make a code, because the wait on the screen covers both waits of the
  server; not so at the maximum of the hour, nor after an answer was lost, on a
  wait that began early, or after a reload.  Whether the code reaches the person
  is the mail's affair.
* `OwnTimeNotLost`: nobody who waits for answers is told that somebody else took
  the time their own booking holds, unless the answer to that booking was lost or
  a screen mounted below asked for the price again over it.
* `EndScreensAgree`: "awaiting approval" and "confirmed" are shown only for
  bookings that have a receipt or are paid for.
* `OutageIsCaughtUp`: the hour list is right again after any outage of the channel,
  except for hours that changed where neither way could tell.
* `SelectionStands`: what is selected is shown open, in one block.
* `HeartsAreLikes`: at rest, hearts and likes agree but for four named slips.
* `SurvivePatience`: the settings tabs of one patient administrator keep each
  other's sections.
* `OwnChangeShows`: every operation's success reaches every screen that shows
  the row, open or opened later, but for the keys the code forgets.
* `OnlyOldRowsRefused`: what a screen offers on a row as it is, the server
  accepts, but for `OwnerUnchecked`.
* `TypesOK`: among the types, wrong tries never pass the lock.

With `cancel_booking` or `force_refund` in `PerRow`, `SlotsAgree`,
`OpenPaymentHasBooking`, `DiscountFollowsPayment`, `EquipmentCounted` and
`MatchHasBooking` fail, each for the reasons given under *Actions*; that is why
they are checked in the group runs only.

Each property has a mutant in `PROJECT.json`: a plausible bug in a modelled
definition (a dropped status check, a forgotten release, a payment left open)
under which TLC finds the property violated.

## 4. Findings

1. **A hold that cannot be swept** (`EngineStuckHold`, `UnpaidHoldEnds`).
   `upload_receipt` (`modules/payment/service.py:522`) sets every row of the
   group to `pending_approval`.  A row cancelled alone while the bank transfer
   is open stands again, on an hour that is on sale again, although
   `docs/11_BOOKING_ENGINE.md` section 2 gives CANCELLED no way out and
   `handle_webhook` refuses exactly this ("must not resurrect them").
   `release_for_booking` keeps the equipment lines, so such a row, cancelled
   again, gives its unit back twice; once another unpaid hold rents the unit, the
   sweep that should end that hold breaks the check constraint, every time.  One
   sweep handles all stale holds in one transaction, so it stops for everyone.

2. **Refunded twice** (`TxnRefund`, `RefundsWithinCapture`).  `_issue_refund`
   (`modules/payment/service.py:605`) sums the refunds of a payment without
   locking it, and `force_refund` locks nothing.  Beside a cancellation of the
   same booking both see no refund yet and both issue one.  Its docstring calls
   "total refunds against a payment never exceed the captured amount" the
   invariant it enforces.
3. **One unit, two bookings** (`TxnEquipment`, `NeverOverRented`).
   `reserve_for_booking` (`modules/equipment/service.py:139`) checks and writes
   `quantity_available` on an unlocked read; two checkouts of different hours
   take the last unit.  The discount counter next to it is an atomic UPDATE for
   exactly this reason.
4. **A hold in a closed arena** (`TxnClosure`, `ClosedArenaIsEmpty`).
   `create_booking` (`modules/booking/service.py:229`) looks at the arena once,
   before its locks; a suspension that commits in between cancels the bookings
   it sees, and the checkout then adds one.  `suspend_arena` promises "no new
   bookings or slots, upcoming bookings cancelled".
5. **Signed in and kept out** (`WebCookie`, `SignedInIsLetIn`).  The role cookie
   lives thirty days (`web/store/auth.ts:23`) and is written by `setSession` and
   `setUser` only, not when the token pair is renewed.  An owner who keeps the
   session alive is, on day thirty-one, redirected to the sign-in page, whose
   own redirect back (`web/app/(auth)/login/page.tsx:34-36`) the middleware
   refuses again; signing in once more helps.  `web/middleware.ts:6-10` means to
   redirect "an unauthenticated visitor, or one signed in under the wrong role".

Each exception of a client property is such a flaw too, without a run of its own:

* Two tabs share one refresh token (`web/components/providers.tsx:20`): a tab
  opened from localStorage and the one already there renew with the same pair,
  the second is taken for theft and both are signed out.
* A sign-in does not wait for what is still out: a late 401 of the old session
  renews the new pair, and the used one is stored over it.
* At the hour's maximum of codes the link still looks ready; in the flows anyone
  can call, "New code sent" follows and none was.
* Slot lost over one's own booking.  Review's preview
  (`mobile/app/booking/[courtId].tsx:49`) is asked whatever was booked, while
  Payment's has `!groupId` (`mobile/app/booking/payment.tsx:132`), and Review stays
  mounted under Payment.  When the connection is back (`mobile/lib/network.ts:45`) or
  the app comes to the front (`mobile/lib/query-client.ts:21`) it asks again, gets
  409 on the player's own hold, and Slot lost takes the place of what is open:
  "someone else took the time between Pick a slot and Pay. Nothing was charged and
  nothing was booked" (`mobile/app/booking/slot-lost.tsx:14-15`).  The booking stays
  unpaid until the sweep, and the checkout has forgotten it.
* `createBooking` carries no idempotency key (`mobile/app/booking/payment.tsx:201`):
  if its answer is lost, Pay again meets the player's own hold, and Slot lost
  says somebody else took the time.  A promo code applied once the booking is
  made does the same (`LateCode`): the preview meets the hold as well.
* The hour list may stay wrong after an outage, against `mobile/lib/websocket.ts`:
  it is fetched while the channel is still opening, and a change in between
  reaches it by neither way; a release is broadcast before it commits
  (`modules/booking/service.py:491`).
* A refused tap on a heart puts back the whole set (`mobile/hooks/useLiked.ts:36`),
  over a tap made beside it.
* The settings tabs "PUT the whole object back so other tabs' fields survive"
  (`web/app/admin/(dashboard)/settings/page.tsx:35-37`); with a second
  administrator, or a tab opened while the last save is still on its way, they do
  not (`OtherSectionsSurvive`).
* The wait for a code starts with the form on the phone's change screens, so the
  link may be ready early; a reload of the web sign-up takes the wait of the
  first code.
* Keys that are not invalidated, for instance a player's match and payments after
  the booking was cancelled or moved, the owner's calendar, revenue and hours after
  a receipt was decided, the occupancy after hours were closed or made, the
  administrator's overview after a player was deleted, the administrator's bell and audit log after anything; and
  buttons the server always refuses: deleting equipment that is rented, generating
  hours for a suspended or removed arena.

Noted while reading, without a run: section 2 of `docs/11_BOOKING_ENGINE.md`
has "owner rejects → REJECTED (refund initiated)"; `reject_bank_transfer` issues
no refund.

## 5. Proofs

`BookingEngineProofs` proves, for any number of slots, bookings, groups, uses
and units, any refund tiers and any `PerRow`:

| Theorem | Statement |
|---|---|
| `TypeCorrect` | `Spec => []TypeOK`; stock and uses within their limits are part of it |
| `NobodyPlaysUnpaid` | `Spec => []ConfirmedIsPaid` |
| `MoneyIsDecided` | `Spec => []PaidIsDecided` |
| `UsesAreCounted` | `Spec => []DiscountUsesCounted` |
| `StatusesAgree` | `Spec => []LifecycleAgrees` |
| `SettlingNeverRaises` | `Spec => []OpenPaymentCanSettle` |
| `NoGatewayRevival` | `Spec => GatewayNeverResurrects` |

Assumptions: those named in `BookingEngine` (bookings and groups are finite,
limits are naturals, tiers are 0 to 2); TLC evaluates them in every run.

**Argument.**  None of these is inductive alone.  `IInv` adds what each handler
needs to know of the state it meets:

* `PaymentsGood` ties lifecycle to method and receipt while a payment is open,
  so that a closing or settling transition is legal and `ConfirmedIsPaid` meets
  a payment that can become completed;
* `RefundsCovered` bounds refunds by what was captured, so that the amount
  `Issued` caps at is never negative;
* `UnmadeIsFresh`: a group without rows has no payment and no code, so a
  checkout finds neither a completed payment nor a use counted twice;
* `RowsHaveSlots`: a made row names a slot, so the slot updates stay typed.

One lemma per handler shows that it preserves `IInv`.  The handlers that end
rows share the lemma `EndingStep` (rows only move to dead statuses, payments only
close or are marked refunded), which `CancellationStep` and `MarkedAndClosed`
prepare; `DiscountReleased` is the cardinality argument about `used_count`.

`BookingGroupProofs` proves, for the same constants and
`EndsByGroup == PerRow \subseteq {"reschedule_booking"}`:

| Theorem | Statement |
|---|---|
| `CalendarTellsTheTruth` | `Spec => []SlotsAgree` |
| `OpenPaymentsWait` | `Spec => []OpenPaymentHasBooking` |
| `ApprovalsCanBeDecided` | `Spec => []ApprovalHasReceipt` |
| `UsesFollowPayments` | `Spec => []DiscountFollowsPayment` |
| `EquipmentIsCounted` | `Spec => []EquipmentCounted` |
| `MatchesAreBooked` | `Spec => []MatchHasBooking` |
| `DeadRowsStayDead` | `Spec => DeadStaysDead` |
| `EngineImplementsCalendar` | `Spec => ImplementsCalendar` |

The assumption is needed: a row cancelled alone leaves an open payment whose
receipt may raise it again (finding 1), and then its hour is on sale, its unit in
stock and its use given back while it stands; a forced refund leaves the match.

**Argument.**  `GInv` is `IInv` with what group endings keep.

* `SlotInv`: active rows stand on slots of their own, each slot shows what its
  row makes of it, and a taken slot has a row.  With the last two alone, ending a
  row could free an hour somebody else stands on; `UniqueActiveSlot` (the partial
  index, a guard of every handler that makes a row active on an hour) excludes it.
* `OpenRowsAlike`: while a payment is open all rows of its group are unpaid, or
  all await approval.  `confirm_group`, `fail_group` and `upload_receipt` write
  every row whatever its status; this is why they meet no row that is dead, and
  it carries `DeadStaysDead`, `MatchHasBooking` and `EquipmentCounted` over them.
* `LinesAreMade`, `MatchIsMade`: a checkout, which makes rows, finds no line or
  match on them.
* `ReleasedHasDead`: a use that went back belongs to a group with a dead row, so
  its payment is no longer open and cannot be completed later.

Handlers that end rows (release, cancellation, rejection, failure, the sweep, the
closure of an arena) share three lemmas about the rows, stock and slots after an
ending, and one lemma each for payment and use; moving a group is a lemma about
slots that change places.

The refinement maps an hour to the group of the one active row on it and a group
to its phase.  `OwnerFound` turns that choice into "any active row on this hour"
by `UniqueActiveSlot`; each handler is then one of the calendar's `Reserve`, `Sell`,
`MoveTo`, `GiveBack`, or a stutter.  The calendar's clause about how many hours a group
keeps when it moves needs a bijection between its rows and its hours
(`OneHourEach`).

`TxnProofs` proves of `BookingTxn`, for any number of database sessions open at
once, any set of handlers `Ops`, and all of the constants above (the last two for
`OnlyLocking == Stock = 0 /\ Ops \subseteq PayFirst \cup RowsOnly \cup {"create_booking"}`):

| Theorem | Statement |
|---|---|
| `NobodyPlaysUnpaidBeside` | `TxnSpec => []ConfirmedIsPaid` |
| `MoneyIsDecidedBeside` | `TxnSpec => []PaidIsDecided` |
| `StatusesAgreeBeside` | `TxnSpec => []LifecycleAgrees` |
| `CommitsAreEngineSteps` | `OnlyLocking` gives `TxnSpec => ImplementsEngine` |
| `AccountsHoldBeside` | `OnlyLocking` gives `TxnSpec => [](RefundsWithinCapture /\ DiscountUsesCounted)` |

**Argument.**  `RequestInv` says of every open request what is still true of what
it has read.

* `PaymentHeld`, `RowsHeld`: what was read under a lock is as it was, because
  whoever changes a locked row would have waited (`LockedStays`); a request that
  locked all rows of its group still has all of them, because rows of a group are
  made only by a checkout that found none (`NewRows`).
* `PaidSeen`: a payment read without a lock may be old, but never so old that a
  captured payment is taken for an open one.  The handlers that close the payment
  they have seen (release, cancellation, sweep, closure) hold rows of its group,
  and a capture must hold every row of the group at its commit, those included.
  Without this one, `ClosedBy` would close a payment that has just been captured.
* `Apart`: no row has two holders and no group is made twice.
* `Books`: the properties themselves, with `PaymentsGood` of the engine.

A read adds one request to those the invariant speaks of (`ReadKeeps`, and one
lemma per read).  For a commit, `CommitKeeps` asks four things of the handler: that it
writes only rows it may write, that it leaves an unmade group without a payment,
that what is completed stays, and the books; and gives back that all other requests stand.

**Commits are steps of the engine.**  `CommitsAreEngineSteps` says that the handlers
which lock the rows they change behave, beside each other, as if each ran alone:
what `BookingEngine` shows of one handler after another holds of them together.  The
variables are shared, so there is no mapping to choose; what is to be shown is that
each read is a stutter and each commit has the guard and the effect of the handler it
belongs to, although half of what it decides on was read before.  `SerialInv` adds
to `RequestInv` and the engine's `IInv` what the unlocked reads still are worth:

* `PaymentSeen`: a closing handler meets the payment it has seen, while either is
  open.  Initiation locks every row of the group, so nobody who holds one of them
  misses a new payment.
* `CancelSeen`: what a cancellation was allowed by still holds, and no refund was
  issued since that it should have counted: `cancel_group` holds all rows, and beside
  a `cancel_booking` the other row's refund leaves room for this one's
  (`RefundIsDue`: money goes back only for rows that have ended, `RoomForOne`), so the
  cap that `IssuedBy` computes from an old sum never bites.
* `StaleSeen`: the rows the sweep locked are still exactly the stale ones.
* `HoursSeen`: the hours of a checkout are still to come, and free once locked.
* `Calm`: the arena is live, no match is on and no equipment is out, which only
  handlers outside `OnlyLocking` change.

Each commit has a lemma that it is the engine's step (`ConfirmStep`, ...,
`CheckoutStep`) and one about what it touches (`OnlyIts`: one group and its hours);
`OthersGoOn` carries the invariant of every other request past it.

`AccountsHoldBeside` draws one consequence: each of these handlers caps its refund by a
sum it has read, and together they still refund no more than was captured.  That is
what `TxnRefund` refutes when `force_refund` is among them.

Both halves of `OnlyLocking` are needed.  `quantity_available` is read without a lock
and written back as a value: with equipment two checkouts take one unit, which is no
step of the engine (finding 3).  Beside the closure of an arena a checkout may use an
old `is_live` (finding 4), and the handlers of `NoLock` write what they decided on
before others committed: a forced refund counts an old sum (finding 2), the
completion job overwrites a cancellation.

`Clients` keeps its parts apart, so a theorem about one part needs only that
part's step or a stutter (`SessionMoves`, `ConsoleMoves`, `LikedMoves`,
`CodeMoves`, ...).  Assumptions, named in `Clients` and `CodeParams`: `Nobody` is not
an account, a console has an owner, there is an arena, bounds are naturals, a
booking may hold one hour, and `"away"`, which is no tab of the settings page, is
not the name of a section, and the tables give rows the statuses `ScreenRows` knows
(`RowsAssumption`).

| Theorem (module) | Statement | For any |
|---|---|---|
| `ClientTypes` (`ScreenProofs`) | `Spec => []TypesOK`, every part's types | everything the parts are for, any tables |
| `OwnChangesArrive` (`ScreenProofs`) | `View!Covered` gives `Spec => []OwnChangeShows` | screens, queries, operations |
| `OffersAreKept` (`ScreenProofs`) | `View!Accepted` gives `Spec => []OnlyOldRowsRefused` | screens, operations |
| `ReadyLinks` (`ScreenProofs`) | `Spec => ReadyLinkIsServed` | wait, tries, codes |
| `NoPhoneRaisesTheAlarm` (`SessionProofs`) | `Spec => []NoSelfReuse` | accounts, pairs, requests |
| `NoLateSignIn` (`SessionProofs`) | `Spec => LatePairIsDead` | accounts, pairs, requests |
| `NobodyIsTurnedAway` (`ConsoleProofs`) | `Spec => []LetInAlone` | tabs, roles, pairs |
| `AlarmsAreEarned` (`ConsoleProofs`) | `Spec => []AlarmHasCause` | tabs, roles, pairs |
| `HeartsStayTrue` (`PhoneProofs`) | `Spec => []HeartsAreLikes` | arenas, taps under way |
| `TheListCatchesUp` (`PhoneProofs`) | `Spec => []OutageIsCaughtUp` | hours, messages on the channel |
| `TheSelectionStands` (`PhoneProofs`) | `Spec => []SelectionStands` | hours, maximum of a booking |
| `NobodyLosesTheirOwn` (`CheckoutProofs`) | `Spec => []OwnTimeNotLost` | bookings of the same times |
| `LastScreensAreTrue` (`CheckoutProofs`) | `Spec => []EndScreensAgree` | bookings of the same times |
| `OtherTabsSurvive` (`ConsoleProofs`) | `OneEditor` gives `Spec => SurvivePatience` | sections, values |

**The code step.**  `ReadyLinkIsServed` speaks of an answered tap and rests on what
held when the link was at rest.  `LinkInv` says it: the wait on the screen covers
both waits of the server unless an answer that will restart it is still to be
shown, and a request is out only when both are over (`WaitCovers`); a code that
did not go out leaves no wait behind (`UnsentIsFree`); sign-up passes no gate
before its code step (`SignupUngated`); the phone's change screens are told apart
by their mishap (`EarlyIsTold`).  So the server, below its maximum, has no way to
answer but to make a code.  A tick lowers all clocks together, which keeps an order
between them whatever their size: that is what no finite instance shows.

**The phone's sign-in.**  Whether the alarm can go off depends on every pair in
play: on the phone, in a request, in the renewal, in a sign-in.  `SessionInv` holds
until somebody signs in beside older requests, `Based` (types, numbered pairs)
always; `PhoneInv` puts the two together, and both theorems name that exception.
`Renewable` says that the pair the phone would send next is unused or its family
ended, by the stage of the renewal; it needs `Carried` (which stages hold a pair)
and `AtRest` (nothing is under way before the store is read; a sign-in is alone but
for the renewal it may wait for).  `Silent` turns it into the claim about the alarm.
For a late answer, `OneSession` says all
pairs in play are of one family, so a log-out that reaches the server ends them
all, and `NoAnswerLost` that a phone signed out with something still under way is
in a session that has ended.  `Cut` and `Loading` serve the moment a sign-in loads
its account: a 401 there means the new family has ended.  The steps are proved by
shape, several actions at a time: those that lay a request down (`Quieter`), ask
(`Asks`), are answered (`Answers`) or refused (`Refuses`).

**The consoles' sign-in.**  `Cause`, while no two tabs came to hold one pair and
none was lost: every tab's pair is unused, or used by that tab's own renewal,
whose next pair nobody else has yet; what localStorage holds is unused or about to
be overwritten by the tab that renews it; no two tabs have one pair.  `Aligned`:
memory, localStorage and cookie name one account.  `Shut`: a closed tab keeps
nothing.  TLC has two tabs; a third one opens onto what the other two left in
localStorage, which is where `Cause` speaks of *every* tab's renewal.

**The hearts.**  `Agree` says what hearts and likes are *while* taps are under
way: they differ at most where one is, and there each is what the tap made of it;
`Apart` that open taps are on different arenas; `Alone` that a tap with none
beside it would put back the likes; `Resting` that no answer to a fetch lands on
top of a tap.  Each exception (`slips`) is a place where one of these breaks.

**Picking hours.**  A list at rest is right because of what was on its way before.
`HourInv` says of each hour that is not excused: the last message about it on the
channel is what the server has (`NewestIsTrue`); an answer on its way, or the list
when none is, is right unless a message is still to come (`AnswerIsTrue`,
`ListIsTrue`).  It needs that a closed channel holds no message (`Deaf`) and that a
list never filled excuses every hour (`Blank`).  TLC has one message at a time;
that several about one hour, some of them outdated, end on the right one is what
the proof adds (`ReceivedApart`).  For the selection, `Run` gives the block by its
two ends, which `toggleSlot` finds again as first and last.

**The checkout.**  Neither property is about one step: a time is lost to the player
when a second booking is asked for while a first one holds the hours, and the two may be
ten screens apart.  `OneHolds`: of the player's bookings at most one holds the times.
`InHand`: it is the one in hand, wherever the hand is: the store's, the screen's, the
answer's of the making, the receipt's under way.  `Forgotten`: the store remembers a
booking only on the screens that come back to it.  `NoneHeld`: where nothing is in hand
and the times could be asked for again, nothing is held, unless the answer that made a
booking was lost.  For the last screens, `About` ties every request under way to the
booking it was sent for, and `OneAsk` keeps two from being under way that could each
open a screen.
`CheckoutInv`, which has all of these, holds until a screen below has asked for the
price in vain; `Grounded`, what the last screens need, holds past it as well.

**The settings.**  `SurvivePatience` is about a single administrator, so `OneEditor` is
a hypothesis; with two it is false: the second
one's save carries an old copy of what the first has just saved.  `CopiesAgree` is the
reason it holds: every copy of the record in the browser (form, query, answer, save)
agrees with the server everywhere but in the section of the open tab, which `TabStays`
(a patient person leaves after the answer) and `ReadAgainSoon` (the save invalidates
what the next tab copies) carry from one tab to the next.

**The screens.**  `OwnChangeShows` speaks of a screen at rest; what keeps it is what is
true on the way there.  `Arrives`: once the operation is done, the query has the
change, or it has no data, or it is marked and, if a screen shows it, a fetch is out;
and no answer on its way is older than the change.  The last half is where the one
race remains: an answer served before the change is dropped by the invalidation,
except the first fetch's, which is excused by name (`raced`).  `ServedFirst` says the
row is never behind what was served.  None of this looks at a table: what the tables
must give is that the operation touches the query at all.  That is `Covered`, a fact about
constants: `MCClients` has it evaluated for the tables of the four clients
(`TablesAssumption`, with `Accepted` for the buttons), so a key forgotten in a table, and
not listed among the omissions, stops the run at once.  It is a hypothesis of the theorem and no
assumption of the module, since it is a finding about today's code and not a parameter's
range.

**The types.**  `ClientTypes` puts the parts together: each part's own invariant, proved
in its module, holds its types; only the hours the toast has named (`HoursNamed`) and
the row's two changes (`ChangesCounted`) had to be added.

**Only model-checked:** the liveness properties, which this prover does not handle.

## 6. Not modelled

* **Executing refunds** (`retry_pending_refunds`, mark-paid, the gateway call
  before the commit) and **balance payments**.  The engine counts a refund when
  it is issued; whether and how often the gateway pays it out is a ledger of its
  own.  The hazards are listed without a property.
* **Slot lock and idempotency keys** (`cache/locking.py`, `shared/idempotency.py`).
  They turn a second request away early; what they protect, `BookingTxn` shows
  to be protected by row locks and the unique index alone.
* **The places of a match**: joins, approvals and leaves count players, which the
  screens show and the engine does not have.
* **Money**: refund tiers, shares of a discounted total and their rounding are
  arithmetic on amounts, with no state; the engine counts refund units.
* **Rescheduling as a transaction**: `reschedule_group` and `reschedule_booking`
  are one step each, in `BookingEngine` only.
* **Passwords, Google's verification, lockout** after failed sign-ins; **push,
  email and SMS**; **reports, dashboards' figures, the assistant**; **gateways**,
  whose webhooks are nondeterministic here; **generated icons, static pages and
  design components**, which have no state.
* **Liveness of the clients**: nothing obliges a person to keep an app open, so
  there is no fairness the code would justify.

What would be worth proving next: once rescheduling is split at its locks as well,
`CommitsAreEngineSteps` for it.
