--------------------------- MODULE PlayerCheckout ---------------------------
(***************************************************************************)
(* Checkout in the mobile app: Review booking, Payment, Bank transfer and  *)
(* the screens a payment ends on, for one choice of times.  Pay makes the  *)
(* booking and starts its payment in two requests; the leave sheet, the    *)
(* price check and the receipt upload run beside it, and any answer may be *)
(* lost.  Screens are pushed: Review and Payment stay mounted below, and   *)
(* ask for the price again on their own.  Left out: the swipe that goes    *)
(* back without asking, and what the query cache keeps of a closed Review. *)
(* The server is what these screens see of BookingEngine.                  *)
(***************************************************************************)
EXTENDS Naturals

CONSTANTS
  MaxBookings,  \* bound: bookings the player makes of these times
  Racing,       \* whether the person taps on while an answer is awaited
  LateCode      \* whether the person tries a promo code once the booking is made

VARIABLES
  booking,      \* server: the player's bookings of these times and their payments
  taken,        \* server: somebody else has the times
  screen,       \* what is open, for which booking, and whether a Review lies below
  remembered,   \* the checkout store: the booking Pay already made
  price,        \* the preview of Review and Payment, asked again below, and the promo code
  paying,       \* pay()
  leaving,      \* the leave sheet
  sending,      \* the receipt upload of Bank transfer
  missed        \* history: served requests whose answer was lost, and a price asked again in vain

vars == <<booking, taken, screen, remembered, price, paying, leaving, sending, missed>>

Groups == 1..MaxBookings
NoGroup == 0
Held == Groups \union {NoGroup}
Methods == {"bank", "card", "wallet"}

Holding == {"pending_payment", "pending_approval", "confirmed"}
Ended == {"cancelled", "rejected"}

NoBooking == [status |-> "none", method |-> "none", pay |-> "none", opened |-> FALSE,
              receipt |-> FALSE, sold |-> FALSE]
Idle == [at |-> "idle", group |-> NoGroup, method |-> "bank"]
NoPrice == [at |-> "idle", shown |-> FALSE, code |-> "none", below |-> "idle"]
Away == [at |-> "away", group |-> NoGroup, over |-> FALSE, resume |-> NoGroup,
         review |-> FALSE, left |-> FALSE]

TypeOK ==
  /\ booking \in [Groups -> [status : {"none"} \union Holding \union Ended,
                             method : Methods \union {"none"},
                             pay : {"none", "pending", "completed", "failed"},
                             opened : BOOLEAN, receipt : BOOLEAN, sold : BOOLEAN]]
  /\ taken \in BOOLEAN
  /\ screen \in [at : {"away", "review", "payment", "bank", "processing", "awaiting",
                       "failed", "confirmed", "lost"},
                 group : Held, over : BOOLEAN, resume : Held, review : BOOLEAN, left : BOOLEAN]
  /\ remembered \in Held
  /\ price \in [at : {"idle", "asked", "ok", "taken", "refused", "error"}, shown : BOOLEAN,
                code : {"none", "trying", "applied"}, below : {"idle", "asked", "free", "taken"}]
  /\ paying \in [at : {"idle", "create", "made", "taken", "refused", "unmade", "initiate",
                       "started", "exists", "unpayable", "unstarted", "existing", "found", "page"},
                 group : Held, method : Methods]
  /\ leaving \in [at : {"idle", "sheet", "asked", "released", "kept"}, group : Held,
                  method : Methods]
  /\ sending \in [at : {"idle", "photo", "upload", "receipt", "sent", "unsent", "stopped"},
                  group : Held, method : Methods]
  /\ missed \subseteq {"create", "initiate", "release", "receipt", "again"}

Init ==
  /\ booking = [g \in Groups |-> NoBooking]
  /\ taken = FALSE
  /\ screen = Away
  /\ remembered = NoGroup
  /\ price = NoPrice
  /\ paying = Idle /\ leaving = Idle /\ sending = Idle
  /\ missed = {}

-----------------------------------------------------------------------------
OwnHold == \E g \in Groups : booking[g].status \in Holding
Free == ~taken /\ ~OwnHold

\* The booking Payment works on: the resumed one, else the remembered one.
Current == IF screen.resume # NoGroup THEN screen.resume ELSE remembered

\* Mutant of Forgetting: Payment failed forgets the checkout whatever it finds.
ForgettingAll == {"processing", "awaiting", "confirmed", "lost", "failed"}

\* These screens forget the checkout as they open.
Forgetting == {"processing", "awaiting", "confirmed", "lost"}

\* Slot lost takes the place of a Review that is on top.
Show(at, g) ==
  /\ screen' = [screen EXCEPT !.at = at, !.group = g, !.over = FALSE,
                   !.review = @ /\ ~(at = "lost" /\ screen.at = "review")]
  /\ remembered' = IF at \in Forgetting THEN NoGroup ELSE remembered

\* A Review of these times is mounted: this visit's, or one that an earlier visit left
\* below the tabs (router.replace takes the place of the top screen only).
Mounted == screen.review \/ screen.left
LeftBelow == [Away EXCEPT !.left = Mounted]

\* The person waits until nothing they asked for is on its way.
Calm ==
  \/ Racing
  \/ /\ paying.at = "idle" /\ price.at = "idle"
     /\ leaving.at \in {"idle", "sheet"}
     /\ sending.at \notin {"upload", "receipt", "sent"}

-----------------------------------------------------------------------------
(* Review and the price *)

\* The times were free when they were picked.
Open ==
  /\ screen.at = "away" /\ Free /\ Calm
  /\ screen' = [Away EXCEPT !.at = "review", !.review = TRUE, !.left = screen.left]
  /\ price' = [NoPrice EXCEPT !.below = price.below]
  /\ leaving' = Idle
  /\ UNCHANGED <<booking, taken, remembered, paying, sending, missed>>

\* "Pay now" on an unpaid booking.
Resume(g) ==
  /\ screen.at = "away" /\ Calm
  /\ booking[g].status = "pending_payment"
  /\ screen' = [Away EXCEPT !.at = "payment", !.resume = g, !.left = screen.left]
  /\ price' = [NoPrice EXCEPT !.shown = TRUE, !.below = price.below]
  /\ leaving' = Idle
  /\ UNCHANGED <<booking, taken, remembered, paying, sending, missed>>

\* The first preview of the screen, or Apply with a promo code.
AskPrice(code) ==
  /\ screen.at \in {"review", "payment"} /\ Calm
  /\ price.at = "idle"
  /\ screen.at = "review" => code = price.code /\ price.code = "none"
  /\ Current = NoGroup \/ (LateCode /\ code = "trying" /\ screen.resume = NoGroup)
  /\ price' = [price EXCEPT !.at = "asked", !.code = code]
  /\ UNCHANGED <<booking, taken, screen, remembered, paying, leaving, sending, missed>>

ServePrice ==
  /\ price.at = "asked"
  /\ price' = [price EXCEPT !.at = IF Free THEN "ok" ELSE "taken"]
  /\ UNCHANGED <<booking, taken, screen, remembered, paying, leaving, sending, missed>>

PriceFails(how) ==
  /\ price.at = "asked"
  /\ how = "refused" => price.code = "trying"
  /\ price' = [price EXCEPT !.at = how]
  /\ UNCHANGED <<booking, taken, screen, remembered, paying, leaving, sending, missed>>

\* A taken time opens Slot lost in place of whatever is on top.
PriceAnswered ==
  /\ price.at \in {"ok", "taken", "refused", "error"}
  /\ price' = CASE price.at = "ok" -> [price EXCEPT !.at = "idle", !.shown = TRUE,
                                         !.code = IF @ = "trying" THEN "applied" ELSE @]
                [] OTHER -> [price EXCEPT !.at = "idle",
                                          !.code = IF @ = "trying" THEN "none" ELSE @]
  /\ IF price.at = "taken" /\ screen.at # "away"
     THEN Show("lost", NoGroup)
     ELSE UNCHANGED <<screen, remembered>>
  /\ UNCHANGED <<booking, taken, paying, leaving, sending, missed>>

\* Review, whatever lies on it and whatever was booked, and Payment without a booking
\* ask again: the connection is back, the app comes to the front, or the checkout
\* was forgotten (Payment's query has its booking as a condition, Review's has not).
AskBelow ==
  /\ Mounted /\ price.below = "idle"
  /\ price' = [price EXCEPT !.below = "asked"]
  /\ UNCHANGED <<booking, taken, screen, remembered, paying, leaving, sending, missed>>

ServeBelow ==
  /\ price.below = "asked"
  /\ price' = [price EXCEPT !.below = IF Free THEN "free" ELSE "taken"]
  /\ UNCHANGED <<booking, taken, screen, remembered, paying, leaving, sending, missed>>

\* No answer, a free time, or a Review that is gone or has told it before; else Slot
\* lost opens in place of whatever is on top.
BelowAnswered ==
  /\ price.below # "idle"
  /\ price' = [price EXCEPT !.below = "idle"]
  /\ \/ UNCHANGED <<screen, remembered, missed>>
     \/ /\ price.below = "taken" /\ Mounted
        /\ Show("lost", NoGroup)
        /\ missed' = missed \union (IF OwnHold \/ paying.at # "idle" THEN {"again"} ELSE {})
  /\ UNCHANGED <<booking, taken, paying, leaving, sending>>

Continue ==
  /\ screen.at = "review" /\ price.shown /\ Calm
  /\ Show("payment", NoGroup)
  /\ UNCHANGED <<booking, taken, price, paying, leaving, sending, missed>>

-----------------------------------------------------------------------------
(* pay() *)

Pay(m) ==
  /\ screen.at = "payment" /\ Calm
  /\ paying.at = "idle" /\ price.shown
  /\ paying' = [at |-> IF Current = NoGroup THEN "create" ELSE "initiate",
                group |-> Current, method |-> m]
  /\ UNCHANGED <<booking, taken, screen, remembered, price, leaving, sending, missed>>

ServeCreate ==
  /\ paying.at = "create"
  /\ \/ /\ Free
        /\ \E g \in Groups :
             /\ booking[g].status = "none"
             /\ booking' = [booking EXCEPT ![g].status = "pending_payment"]
             /\ paying' = [paying EXCEPT !.at = "made", !.group = g]
     \/ /\ ~Free
        /\ paying' = [paying EXCEPT !.at = "taken"]
        /\ UNCHANGED booking
     \/ /\ price.code = "applied"
        /\ paying' = [paying EXCEPT !.at = "refused"]
        /\ UNCHANGED booking
  /\ UNCHANGED <<taken, screen, remembered, price, leaving, sending, missed>>

\* 409 opens Slot lost, 422 drops the code, anything else is a toast.
Created ==
  /\ \/ /\ paying.at = "made"
        /\ remembered' = paying.group
        /\ paying' = [paying EXCEPT !.at = "initiate"]
        /\ UNCHANGED <<screen, price>>
     \/ /\ paying.at = "taken"
        /\ Show("lost", NoGroup)
        /\ paying' = Idle
        /\ UNCHANGED price
     \/ /\ paying.at \in {"refused", "unmade"}
        /\ price' = [price EXCEPT !.code = IF paying.at = "refused" THEN "none" ELSE @]
        /\ paying' = Idle
        /\ UNCHANGED <<screen, remembered>>
  /\ UNCHANGED <<booking, taken, leaving, sending, missed>>

ServeInitiate ==
  LET g == paying.group
  IN /\ paying.at = "initiate"
     /\ \/ /\ booking[g].status # "pending_payment"
           /\ paying' = [paying EXCEPT !.at = "unpayable"]
           /\ UNCHANGED booking
        \/ /\ booking[g].status = "pending_payment" /\ booking[g].pay = "pending"
           /\ paying' = [paying EXCEPT !.at = "exists"]
           /\ UNCHANGED booking
        \/ /\ booking[g].status = "pending_payment" /\ booking[g].pay # "pending"
           /\ booking' = [booking EXCEPT ![g].method = paying.method, ![g].pay = "pending"]
           /\ paying' = [paying EXCEPT !.at = "started"]
     /\ UNCHANGED <<taken, screen, remembered, price, leaving, sending, missed>>

\* Where a started payment goes: the bank screen, the card page, the wallet app.
Proceed(m, page) ==
  CASE m = "bank" -> /\ Show("bank", paying.group)
                     /\ paying' = Idle
                     /\ sending' = Idle
                     /\ UNCHANGED booking
    [] m = "card" /\ page -> /\ paying' = [paying EXCEPT !.at = "page"]
                             /\ booking' = [booking EXCEPT ![paying.group].opened = TRUE]
                             /\ UNCHANGED <<screen, remembered, sending>>
    [] OTHER -> /\ Show("processing", paying.group)
                /\ paying' = Idle
                /\ UNCHANGED <<booking, sending>>

Initiated ==
  /\ \/ paying.at = "started" /\ Proceed(paying.method, paying.method = "card")
     \/ /\ paying.at = "exists"
        /\ paying' = [paying EXCEPT !.at = "existing"]
        /\ UNCHANGED <<booking, screen, remembered, sending>>
     \/ /\ paying.at = "unpayable" /\ paying.method = "wallet"   \* taken for a bad wallet number
        /\ paying' = Idle
        /\ UNCHANGED <<booking, screen, remembered, sending>>
     \/ /\ \/ paying.at = "unstarted"
           \/ paying.at = "unpayable" /\ paying.method # "wallet"
        /\ Show("failed", paying.group)
        /\ paying' = Idle
        /\ UNCHANGED <<booking, sending>>
  /\ UNCHANGED <<taken, price, leaving, missed>>

\* getPaymentByGroup: the payment already started; its card page is not known here.
ServeExisting ==
  /\ paying.at = "existing"
  /\ paying' = [paying EXCEPT !.at = "found"]
  /\ UNCHANGED <<booking, taken, screen, remembered, price, leaving, sending, missed>>

ExistingFound ==
  /\ paying.at = "found"
  /\ Proceed(booking[paying.group].method, FALSE)
  /\ UNCHANGED <<taken, price, leaving, missed>>

PageClosed ==
  /\ paying.at = "page"
  /\ Show("processing", paying.group)
  /\ paying' = Idle
  /\ UNCHANGED <<booking, taken, price, leaving, sending, missed>>

\* The request or its answer is lost; createBooking carries no idempotency key.
PayTimesOut ==
  /\ \/ /\ paying.at \in {"create", "made", "taken", "refused"}
        /\ paying' = [paying EXCEPT !.at = "unmade", !.group = NoGroup]
     \/ /\ paying.at \in {"initiate", "started", "exists", "unpayable", "existing", "found"}
        /\ paying' = [paying EXCEPT !.at = "unstarted"]
  /\ missed' = missed \union (CASE paying.at = "made"    -> {"create"}
                                [] paying.at = "started" -> {"initiate"}
                                [] OTHER                 -> {})
  /\ UNCHANGED <<booking, taken, screen, remembered, price, leaving, sending>>

-----------------------------------------------------------------------------
(* Leaving *)

\* With a booking made, back asks first; else it closes the screen on top, and Payment
\* shows the Review below.
Back ==
  LET g == IF screen.at = "bank" THEN screen.group
           ELSE IF screen.resume # NoGroup THEN NoGroup ELSE remembered
  IN /\ screen.at \in {"review", "payment", "bank"} /\ Calm
     /\ leaving.at = "idle"
     /\ IF screen.at # "review" /\ g # NoGroup
        THEN leaving' = [Idle EXCEPT !.at = "sheet", !.group = g] /\ UNCHANGED screen
        ELSE /\ screen' = IF screen.at = "payment" /\ screen.review
                          THEN [screen EXCEPT !.at = "review"]
                          ELSE [Away EXCEPT !.left = screen.left]
             /\ UNCHANGED leaving
     /\ UNCHANGED <<booking, taken, remembered, price, paying, sending, missed>>

Stay ==
  /\ leaving.at = "sheet"
  /\ leaving' = Idle
  /\ UNCHANGED <<booking, taken, screen, remembered, price, paying, sending, missed>>

Leave ==
  /\ leaving.at = "sheet" /\ Calm
  /\ leaving' = [leaving EXCEPT !.at = "asked"]
  /\ UNCHANGED <<booking, taken, screen, remembered, price, paying, sending, missed>>

ServeRelease ==
  LET g == leaving.group
  IN /\ leaving.at = "asked"
     /\ IF booking[g].status = "pending_payment"
        THEN /\ booking' = [booking EXCEPT ![g].status = "cancelled",
                              ![g].pay = IF @ = "pending" THEN "failed" ELSE @]
             /\ leaving' = [leaving EXCEPT !.at = "released"]
        ELSE leaving' = [leaving EXCEPT !.at = "kept"] /\ UNCHANGED booking
     /\ UNCHANGED <<taken, screen, remembered, price, paying, sending, missed>>

ReleaseTimesOut ==
  /\ leaving.at \in {"asked", "released"}
  /\ missed' = missed \union IF leaving.at = "released" THEN {"release"} ELSE {}
  /\ leaving' = [leaving EXCEPT !.at = "kept"]
  /\ UNCHANGED <<booking, taken, screen, remembered, price, paying, sending>>

\* Back to the arena, closing what lies on it: this visit's screens, and from a resumed
\* payment perhaps those of an earlier visit.
AtArena == \E l \in {screen.left, FALSE} :
  /\ l # screen.left => ~screen.review
  /\ screen' = [Away EXCEPT !.left = l]

\* The sheet stays open when the server would not or could not release.
Left ==
  /\ \/ /\ leaving.at = "released"
        /\ remembered' = NoGroup
        /\ AtArena
        /\ leaving' = Idle
     \/ /\ leaving.at = "kept"
        /\ leaving' = [leaving EXCEPT !.at = "sheet"]
        /\ UNCHANGED <<screen, remembered>>
  /\ UNCHANGED <<booking, taken, price, paying, sending, missed>>

-----------------------------------------------------------------------------
(* Bank transfer: the photo is uploaded, then given to the payment *)

Choose ==
  /\ screen.at = "bank"
  /\ sending.at \in {"idle", "stopped", "unsent"}
  /\ sending' = [sending EXCEPT !.at = "photo", !.group = screen.group]
  /\ UNCHANGED <<booking, taken, screen, remembered, price, paying, leaving, missed>>

Send ==
  /\ screen.at = "bank"
  /\ sending.at \in {"photo", "unsent"}
  /\ sending' = [sending EXCEPT !.at = "upload"]
  /\ UNCHANGED <<booking, taken, screen, remembered, price, paying, leaving, missed>>

\* Mutant of Uploaded: the screen moves on without the second request.
SentAtOnce(s) == [s EXCEPT !.at = "sent"]

Uploaded(s) == [s EXCEPT !.at = "receipt"]

ServeUpload ==
  /\ sending.at = "upload"
  /\ sending' = Uploaded(sending)
  /\ UNCHANGED <<booking, taken, screen, remembered, price, paying, leaving, missed>>

\* Only the upload can be stopped.
Stop ==
  /\ sending.at = "upload"
  /\ sending' = [sending EXCEPT !.at = "stopped"]
  /\ UNCHANGED <<booking, taken, screen, remembered, price, paying, leaving, missed>>

ServeReceipt ==
  LET g == sending.group
  IN /\ sending.at = "receipt"
     /\ IF booking[g].pay = "pending" /\ booking[g].method = "bank"
        THEN /\ booking' = [booking EXCEPT ![g].receipt = TRUE, ![g].status = "pending_approval"]
             /\ sending' = [sending EXCEPT !.at = "sent"]
        ELSE sending' = [sending EXCEPT !.at = "unsent"] /\ UNCHANGED booking
     /\ UNCHANGED <<taken, screen, remembered, price, paying, leaving, missed>>

SendTimesOut ==
  /\ sending.at \in {"upload", "receipt", "sent"}
  /\ missed' = missed \union IF sending.at = "sent" THEN {"receipt"} ELSE {}
  /\ sending' = [sending EXCEPT !.at = "unsent"]
  /\ UNCHANGED <<booking, taken, screen, remembered, price, paying, leaving>>

\* Awaiting opens in place of whatever is on top.
Sent ==
  /\ sending.at = "sent"
  /\ Show("awaiting", sending.group)
  /\ sending' = Idle
  /\ UNCHANGED <<booking, taken, price, paying, leaving, missed>>

-----------------------------------------------------------------------------
(* The screens a payment ends on *)

StillHeld == {"pending_payment"}

\* Each loads the booking, some again and again, and opens the screen that fits.
Look ==
  LET g == screen.group
      s == booking[g].status
      at == screen.at
  IN /\ at \in {"bank", "processing", "awaiting", "failed"}
     /\ \/ /\ at = "bank" /\ s = "pending_approval"
           /\ Show("awaiting", g)
        \/ /\ at # "failed" /\ s = "confirmed"
           /\ Show("confirmed", g)
        \/ /\ at # "failed" /\ s \in Ended
           /\ Show("failed", g)
        \/ /\ at = "failed" /\ s \notin StillHeld
           /\ screen' = [screen EXCEPT !.over = TRUE]
           /\ remembered' = NoGroup
     /\ UNCHANGED <<booking, taken, price, paying, leaving, sending, missed>>

\* Try again, or choose another way: back to Payment, unless the time is known
\* to be let go.
TryAgain ==
  /\ screen.at = "failed" /\ ~screen.over /\ Calm
  /\ Show("payment", NoGroup)
  /\ UNCHANGED <<booking, taken, price, paying, leaving, sending, missed>>

\* (Opening the card page again from Processing changes nothing here.)
\* My bookings, Home, the arena, or another time.
GoAway ==
  /\ screen.at \in {"processing", "awaiting", "confirmed", "lost", "failed"} /\ Calm
  /\ screen.at = "failed" => screen.over
  /\ \/ screen' = LeftBelow
     \/ screen.at \in {"lost", "failed"} /\ AtArena
  /\ UNCHANGED <<booking, taken, remembered, price, paying, leaving, sending, missed>>

Kill ==
  /\ screen.at # "away" \/ paying.at # "idle" \/ Mounted
  /\ screen' = Away
  /\ remembered' = NoGroup
  /\ price' = NoPrice
  /\ paying' = Idle /\ leaving' = Idle /\ sending' = Idle
  /\ missed' = missed \union IF paying.at = "made" THEN {"create"} ELSE {}
  /\ UNCHANGED <<booking, taken>>

-----------------------------------------------------------------------------
(* Everybody else *)

Others ==
  /\ taken \/ Free
  /\ taken' = ~taken
  /\ UNCHANGED <<booking, screen, remembered, price, paying, leaving, sending, missed>>

\* The gateway reports a card paid on its page, or a wallet request answered.
Settle(g, paid) ==
  /\ booking[g].status = "pending_payment" /\ booking[g].pay = "pending"
  /\ booking[g].method = "wallet" \/ booking[g].opened
  /\ booking' = [booking EXCEPT ![g].status = IF paid THEN "confirmed" ELSE "cancelled",
                   ![g].pay = IF paid THEN "completed" ELSE "failed", ![g].sold = paid]
  /\ UNCHANGED <<taken, screen, remembered, price, paying, leaving, sending, missed>>

Decide(g, approved) ==
  /\ booking[g].status = "pending_approval" /\ booking[g].receipt
  /\ booking' = [booking EXCEPT ![g].status = IF approved THEN "confirmed" ELSE "rejected",
                   ![g].pay = IF approved THEN "completed" ELSE "failed", ![g].sold = approved]
  /\ UNCHANGED <<taken, screen, remembered, price, paying, leaving, sending, missed>>

Sweep(g) ==
  /\ booking[g].status = "pending_payment"
  /\ booking' = [booking EXCEPT ![g].status = "cancelled",
                   ![g].pay = IF @ = "pending" THEN "failed" ELSE @]
  /\ UNCHANGED <<taken, screen, remembered, price, paying, leaving, sending, missed>>

World ==
  \/ Others
  \/ \E g \in Groups : \/ Sweep(g)
                       \/ \E yes \in BOOLEAN : Settle(g, yes) \/ Decide(g, yes)

Pricing ==
  \/ Open \/ \E g \in Groups : Resume(g)
  \/ \E c \in {"none", "trying", "applied"} : c \in {price.code, "trying"} /\ AskPrice(c)
  \/ ServePrice \/ PriceFails("refused") \/ PriceFails("error") \/ PriceAnswered \/ Continue
  \/ AskBelow \/ ServeBelow \/ BelowAnswered

Payment ==
  \/ \E m \in Methods : Pay(m)
  \/ ServeCreate \/ Created \/ ServeInitiate \/ Initiated
  \/ ServeExisting \/ ExistingFound \/ PageClosed \/ PayTimesOut

Leaving == Back \/ Stay \/ Leave \/ ServeRelease \/ ReleaseTimesOut \/ Left

Receipt == Choose \/ Send \/ ServeUpload \/ Stop \/ ServeReceipt \/ SendTimesOut \/ Sent

Next ==
  \/ Pricing \/ Payment \/ Leaving \/ Receipt
  \/ Look \/ TryAgain \/ GoAway \/ Kill
  \/ World

Spec == Init /\ [][Next]_vars

-----------------------------------------------------------------------------
(* Properties *)

\* Slot lost says that somebody else took the time and that nothing was booked
\* (slot-lost.tsx).  The screens mounted below break it: they ask for the
\* price of times that the player holds by then.
SlotLostIsSomeoneElse == screen.at = "lost" => ~OwnHold

\* For a person who waits for each answer and tries no code late, the only ways
\* to be told that the time was taken while the player's own booking holds it are
\* a booking whose answer was lost and a price asked again by a screen below,
\* which opens Slot lost over a booking made or being made: failing, leaving,
\* paying again and coming back never ask for the same times twice.
OwnTimeNotLost == SlotLostIsSomeoneElse \/ missed \intersect {"create", "again"} # {}

\* What the last screens claim has happened: the arena has the receipt, the
\* booking is paid for.
EndScreensAgree ==
  /\ screen.at = "awaiting" => booking[screen.group].receipt
  /\ screen.at = "confirmed" => booking[screen.group].sold

=============================================================================
