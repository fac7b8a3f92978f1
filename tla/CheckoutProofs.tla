--------------------------- MODULE CheckoutProofs ---------------------------
(***************************************************************************)
(* Proofs about the checkout of the mobile app (PlayerCheckout, as Clients *)
(* instances it): any number of bookings of the same times.  A booking of  *)
(* the player's own is asked for again only where none of theirs holds the *)
(* times: the one in hand is the only one that may (InHand), and off       *)
(* Payment nothing is in hand unless it is remembered for coming back      *)
(* (Forgotten, NoneHeld).  All that lasts until a screen below asks for    *)
(* the price in vain (CheckoutInv); what holds ever after is that every    *)
(* answer under way is about a booking, and the last screens, which        *)
(* answers open, tell the truth of it (Grounded).                          *)
(***************************************************************************)
EXTENDS Clients, TLAPS

(* The bookings that hold these times, and nothing else holding them.      *)
Holds == {g \in Checkout!Groups : booking[g].status \in Checkout!Holding}
OnlyHolder(g) == g \in Checkout!Groups /\ Holds \subseteq {g}

InFlight == {"upload", "receipt", "sent"}
Making == {"create", "made", "taken", "refused", "unmade"}
OnOne == {"bank", "processing", "awaiting", "failed", "confirmed"}

(* What a booking's fields have to do with each other.                     *)
BooksAgree ==
  \A g \in Checkout!Groups :
    /\ booking[g].pay = "pending" => booking[g].status \in {"pending_payment", "pending_approval"}
    /\ booking[g].status = "pending_approval" => booking[g].receipt
    /\ booking[g].sold <=> booking[g].status = "confirmed"

(* The booking in hand, wherever it is, is the only one that may hold.     *)
InHand ==
  /\ Checkout!Current # 0 => OnlyHolder(Checkout!Current)
  /\ screen.at \in OnOne => OnlyHolder(screen.group)
  /\ sending.at \in InFlight => OnlyHolder(sending.group)
  /\ paying.at = "made" => OnlyHolder(paying.group)

(* The checkout store is empty off Payment and the screens that come back. *)
Forgotten ==
  remembered # 0 =>
    /\ screen.resume = 0
    /\ screen.at \in {"payment", "bank"} \/ (screen.at = "failed" /\ ~screen.over)

(* One thing at a time.                                                    *)
OneAsk ==
  /\ paying.at # "idle" => /\ screen.at = "payment" /\ price.at = "idle"
                           /\ leaving.at \in {"idle", "sheet"} /\ sending.at \notin InFlight
  /\ price.at # "idle" => /\ screen.at \in {"review", "payment", "lost"} /\ Checkout!Current = 0
                          /\ leaving.at \in {"idle", "sheet"} /\ sending.at \notin InFlight

(* What each request is about.                                             *)
About ==
  /\ paying.at \in Making => Checkout!Current = 0
  /\ paying.at # "idle" /\ paying.at \notin Making => paying.group # 0 /\ paying.group = Checkout!Current
  /\ leaving.at # "idle" => leaving.group # 0
  /\ sending.at # "idle" => sending.group # 0 
  /\ screen.at = "bank" /\ sending.at # "idle" => sending.group = screen.group
  /\ sending.at = "sent" => booking[sending.group].receipt

(* The last screens.                                                       *)
LastScreens ==
  /\ screen.at = "awaiting" => booking[screen.group].receipt
  /\ screen.at = "confirmed" => booking[screen.group].sold

(* Where the person could be asked for the times, or told that they are    *)
(* lost, no booking of theirs has them.                                    *)
NoneHeld ==
  "create" \notin missed =>
    /\ screen.at \in {"review", "payment"} /\ Checkout!Current = 0 /\ paying.at # "made" => Holds = {}
    /\ screen.at = "failed" /\ ~screen.over /\ Checkout!Current = 0 => Holds = {}
    /\ screen.at = "lost" => Holds = {}

OneHolds == \A g, h \in Holds : g = h

CheckoutInv ==
  Checkout!TypeOK /\ BooksAgree /\ OneHolds /\ InHand /\ Forgotten /\ OneAsk /\ About /\ LastScreens /\ NoneHeld

Bookings == [status : {"none"} \union Checkout!Holding \union Checkout!Ended,
             method : Checkout!Methods \union {"none"},
             pay : {"none", "pending", "completed", "failed"},
             opened : BOOLEAN, receipt : BOOLEAN, sold : BOOLEAN]
Screenings == [at : {"away", "review", "payment", "bank", "processing", "awaiting",
                     "failed", "confirmed", "lost"},
               group : Checkout!Held, over : BOOLEAN, resume : Checkout!Held,
               review : BOOLEAN, left : BOOLEAN]
Prices == [at : {"idle", "asked", "ok", "taken", "refused", "error"}, shown : BOOLEAN,
           code : {"none", "trying", "applied"}, below : {"idle", "asked", "free", "taken"}]
Payings == [at : Making \union {"idle", "initiate", "started", "exists", "unpayable",
                                "unstarted", "existing", "found", "page"},
            group : Checkout!Held, method : Checkout!Methods]
Leavings == [at : {"idle", "sheet", "asked", "released", "kept"}, group : Checkout!Held,
             method : Checkout!Methods]
Sendings == [at : InFlight \union {"idle", "photo", "unsent", "stopped"},
             group : Checkout!Held, method : Checkout!Methods]

LEMMA CheckoutTyped ==
  Checkout!TypeOK <=>
    /\ booking \in [Checkout!Groups -> Bookings] /\ taken \in BOOLEAN
    /\ screen \in Screenings /\ remembered \in Checkout!Held
    /\ price \in Prices /\ paying \in Payings /\ leaving \in Leavings /\ sending \in Sendings
    /\ missed \subseteq {"create", "initiate", "release", "receipt", "again"}
<1>1. Making \union {"idle", "initiate", "started", "exists", "unpayable",
                                "unstarted", "existing", "found", "page"}
      = {"idle", "create", "made", "taken", "refused", "unmade", "initiate",
                       "started", "exists", "unpayable", "unstarted", "existing", "found", "page"}
  BY DEF Making
<1>2. InFlight \union {"idle", "photo", "unsent", "stopped"}
      = {"idle", "photo", "upload", "receipt", "sent", "unsent", "stopped"}
  BY DEF InFlight
<1> QED
  BY <1>1, <1>2, Zenon DEF Checkout!TypeOK, Bookings, Screenings, Prices, Payings, Leavings, Sendings

LEMMA CheckoutTypedNext ==
  Checkout!TypeOK' <=>
    /\ booking' \in [Checkout!Groups -> Bookings] /\ taken' \in BOOLEAN
    /\ screen' \in Screenings /\ remembered' \in Checkout!Held
    /\ price' \in Prices /\ paying' \in Payings /\ leaving' \in Leavings /\ sending' \in Sendings
    /\ missed' \subseteq {"create", "initiate", "release", "receipt", "again"}
<1>1. Making \union {"idle", "initiate", "started", "exists", "unpayable",
                                "unstarted", "existing", "found", "page"}
      = {"idle", "create", "made", "taken", "refused", "unmade", "initiate",
                       "started", "exists", "unpayable", "unstarted", "existing", "found", "page"}
  BY DEF Making
<1>2. InFlight \union {"idle", "photo", "unsent", "stopped"}
      = {"idle", "photo", "upload", "receipt", "sent", "unsent", "stopped"}
  BY DEF InFlight
<1> QED
  BY <1>1, <1>2, Zenon DEF Checkout!TypeOK, Bookings, Screenings, Prices, Payings, Leavings, Sendings

LEMMA CheckoutNumbers == 0 \in Checkout!Held /\ 0 \notin Checkout!Groups /\ (\A g : g \in Checkout!Held <=> g = 0 \/ g \in Checkout!Groups)
BY DEF Checkout!Held, Checkout!Groups, Checkout!NoGroup

LEMMA CheckoutShapes ==
  /\ Checkout!Idle = [at |-> "idle", group |-> 0, method |-> "bank"]
  /\ Checkout!Idle \in Payings /\ Checkout!Idle \in Leavings /\ Checkout!Idle \in Sendings
  /\ Checkout!Idle.at = "idle" /\ Checkout!Idle.group = 0
  /\ Checkout!Away \in Screenings /\ Checkout!Away.at = "away" /\ Checkout!Away.resume = 0
  /\ Checkout!NoPrice \in Prices /\ Checkout!NoPrice.at = "idle"
BY CheckoutNumbers DEF Checkout!Idle, Checkout!Away, Checkout!NoPrice, Payings, Leavings, Sendings,
   Screenings, Prices, Checkout!Methods, Checkout!NoGroup

(* Nothing on its way but what Calm allows.                                *)
LEMMA CalmIs ==
  Checkout!Calm <=> /\ paying.at = "idle" /\ price.at = "idle"
                    /\ leaving.at \in {"idle", "sheet"} /\ sending.at \notin InFlight
BY DEF Checkout!Calm, InFlight

(* The booking just made stays at hand, or its answer is lost.             *)
MadeIsKept ==
  /\ paying'.at = "made" => paying' = paying
  /\ paying.at = "made" => paying'.at = "made" \/ "create" \in missed'

(* The screens stay: requests and answers, and what the server does.       *)
LEMMA ScreensStay ==
  ASSUME CheckoutInv, UNCHANGED <<screen, remembered>>, Holds' \subseteq Holds,
         Checkout!TypeOK', BooksAgree', OneAsk', About', LastScreens', MadeIsKept,
         sending'.at \in InFlight => OnlyHolder(sending'.group),
         missed \subseteq missed'
  PROVE  CheckoutInv'
<1>1. Checkout!Current' = Checkout!Current
  BY DEF Checkout!Current
<1>2. OneHolds' /\ Forgotten'
  BY <1>1 DEF CheckoutInv, OneHolds, Forgotten
<1>3. InHand'
  BY <1>1 DEF CheckoutInv, InHand, OnlyHolder, MadeIsKept, OneHolds
<1>4. NoneHeld'
  BY <1>1 DEF CheckoutInv, NoneHeld, MadeIsKept
<1> QED
  BY <1>2, <1>3, <1>4 DEF CheckoutInv

(* Requests and answers alone.                                             *)
LEMMA BooksStay ==
  ASSUME CheckoutInv, UNCHANGED <<screen, remembered, booking>>,
         Checkout!TypeOK', OneAsk', About', MadeIsKept,
         sending'.at \in InFlight => OnlyHolder(sending'.group),
         missed \subseteq missed'
  PROVE  CheckoutInv'
<1>1. Holds' = Holds
  BY DEF Holds
<1>2. BooksAgree' /\ LastScreens'
  BY DEF CheckoutInv, BooksAgree, LastScreens
<1> QED
  BY <1>1, <1>2, ScreensStay

LEMMA PayKeeps ==
  ASSUME CheckoutInv, NEW m \in Checkout!Methods, Checkout!Pay(m)
  PROVE  CheckoutInv'
<1>1. UNCHANGED <<booking, taken, screen, remembered, price, leaving, sending, missed>>
  BY DEF Checkout!Pay
<1>2. paying' = [at |-> IF Checkout!Current = 0 THEN "create" ELSE "initiate",
                 group |-> Checkout!Current, method |-> m]
  BY DEF Checkout!Pay, Checkout!NoGroup
<1>3. Checkout!Current \in Checkout!Held /\ Checkout!Current' = Checkout!Current
  BY <1>1, CheckoutTyped DEF CheckoutInv, Checkout!Current, Screenings
<1>4. Checkout!TypeOK'
  BY <1>1, <1>2, <1>3, CheckoutTyped, CheckoutTypedNext DEF CheckoutInv, Payings, Making
<1>5. /\ screen.at = "payment" /\ paying.at = "idle" /\ price.at = "idle"
      /\ leaving.at \in {"idle", "sheet"} /\ sending.at \notin InFlight
  BY CalmIs DEF Checkout!Pay
<1>6. OneAsk' /\ About'
  BY <1>1, <1>2, <1>3, <1>5 DEF CheckoutInv, OneAsk, About, Making
<1> QED
  BY <1>1, <1>2, <1>4, <1>5, <1>6, BooksStay DEF CheckoutInv, MadeIsKept

(* What is known of the price changes.                                     *)
LEMMA PricesKeep ==
  ASSUME CheckoutInv,
         \/ \E c \in {"none", "trying", "applied"} : Checkout!AskPrice(c)
         \/ Checkout!ServePrice \/ \E how \in {"refused", "error"} : Checkout!PriceFails(how)
         \/ Checkout!AskBelow \/ Checkout!ServeBelow
  PROVE  CheckoutInv'
<1> USE DEF Checkout!AskPrice, Checkout!ServePrice, Checkout!PriceFails, Checkout!AskBelow, Checkout!ServeBelow
<1>1. UNCHANGED <<booking, taken, screen, remembered, paying, leaving, sending, missed>>
  OBVIOUS
<1>2. price' \in Prices /\ (price'.at = "idle" => price.at = "idle")
  BY CheckoutTyped DEF CheckoutInv, Prices
<1>3. \/ price'.at = "idle" \/ price.at # "idle"
      \/ Checkout!Calm /\ screen.at \in {"review", "payment"} /\ Checkout!Current = 0
  BY CheckoutTyped DEF Checkout!NoGroup, CheckoutInv, Prices
<1>4. Checkout!TypeOK'
  BY <1>1, <1>2, CheckoutTyped, CheckoutTypedNext DEF CheckoutInv
<1>5. Checkout!Current' = Checkout!Current
  BY <1>1 DEF Checkout!Current
<1>6. OneAsk'
  BY <1>1, <1>2, <1>3, <1>5, CalmIs DEF CheckoutInv, OneAsk
<1>7. About'
  BY <1>1, <1>5 DEF CheckoutInv, About
<1>8. MadeIsKept /\ (sending'.at \in InFlight => OnlyHolder(sending'.group))
  BY <1>1 DEF MadeIsKept, CheckoutInv, InHand
<1> QED
  BY <1>1, <1>4, <1>6, <1>7, <1>8, BooksStay

(* pay() goes on to its next request, or loses an answer.                  *)
LEMMA PayMovesKeep ==
  ASSUME CheckoutInv, Checkout!ServeExisting \/ Checkout!PayTimesOut
  PROVE  CheckoutInv'
<1>1. UNCHANGED <<booking, taken, screen, remembered, price, leaving, sending>>
  BY DEF Checkout!ServeExisting, Checkout!PayTimesOut
<1>2. /\ missed \subseteq missed' /\ missed' \subseteq missed \union {"create", "initiate"}
      /\ paying.at = "made" => "create" \in missed'
  BY DEF Checkout!ServeExisting, Checkout!PayTimesOut
<1>3. \/ /\ paying.at \in {"create", "made", "taken", "refused"}
         /\ paying' = [paying EXCEPT !.at = "unmade", !.group = 0]
      \/ /\ paying.at \in {"initiate", "started", "exists", "unpayable", "existing", "found"}
         /\ \E a \in {"unstarted", "found"} : paying' = [paying EXCEPT !.at = a]
  BY DEF Checkout!ServeExisting, Checkout!PayTimesOut, Checkout!NoGroup
<1>4. Checkout!TypeOK'
  BY <1>1, <1>2, <1>3, CheckoutNumbers, CheckoutTyped, CheckoutTypedNext DEF CheckoutInv, Payings, Making
<1>5. Checkout!Current' = Checkout!Current /\ paying \in Payings
  BY <1>1, CheckoutTyped DEF Checkout!Current, CheckoutInv
<1>6. OneAsk' /\ About' /\ MadeIsKept
  BY <1>1, <1>2, <1>3, <1>5 DEF CheckoutInv, OneAsk, About, Making, MadeIsKept, Payings
<1>7. sending'.at \in InFlight => OnlyHolder(sending'.group)
  BY <1>1 DEF CheckoutInv, InHand
<1> QED
  BY <1>1, <1>2, <1>4, <1>6, <1>7, BooksStay

(* The leave sheet.                                                        *)
LEMMA SheetKeeps ==
  ASSUME CheckoutInv, Checkout!Stay \/ Checkout!Leave \/ Checkout!ReleaseTimesOut
  PROVE  CheckoutInv'
<1>1. UNCHANGED <<booking, taken, screen, remembered, price, paying, sending>>
  BY DEF Checkout!Stay, Checkout!Leave, Checkout!ReleaseTimesOut
<1>2. missed \subseteq missed' /\ missed' \subseteq missed \union {"release"}
  BY DEF Checkout!Stay, Checkout!Leave, Checkout!ReleaseTimesOut
<1>3. \/ leaving' = Checkout!Idle
      \/ /\ leaving.at # "idle" /\ \E a \in {"asked", "kept"} : leaving' = [leaving EXCEPT !.at = a]
         /\ Checkout!Calm \/ leaving.at \notin {"idle", "sheet"}
  BY DEF Checkout!Stay, Checkout!Leave, Checkout!ReleaseTimesOut
<1>4. leaving' \in Leavings /\ leaving \in Leavings
  BY <1>3, CheckoutShapes, CheckoutTyped DEF CheckoutInv, Leavings
<1>5. Checkout!TypeOK'
  BY <1>1, <1>2, <1>4, CheckoutTyped, CheckoutTypedNext DEF CheckoutInv
<1>6. Checkout!Current' = Checkout!Current
  BY <1>1 DEF Checkout!Current
<1>7. OneAsk' /\ About'
  BY <1>1, <1>3, <1>4, <1>6, CalmIs, CheckoutShapes DEF CheckoutInv, OneAsk, About, Leavings
<1>8. MadeIsKept /\ (sending'.at \in InFlight => OnlyHolder(sending'.group))
  BY <1>1 DEF MadeIsKept, CheckoutInv, InHand
<1> QED
  BY <1>1, <1>2, <1>5, <1>7, <1>8, BooksStay

(* The receipt up to the server's second answer.                           *)
LEMMA PhotoKeeps ==
  ASSUME CheckoutInv,
         \/ Checkout!Choose \/ Checkout!Send \/ Checkout!ServeUpload \/ Checkout!Stop
         \/ Checkout!SendTimesOut
  PROVE  CheckoutInv'
<1>1. UNCHANGED <<booking, taken, screen, remembered, price, paying, leaving>>
  BY DEF Checkout!Choose, Checkout!Send, Checkout!ServeUpload, Checkout!Stop, Checkout!SendTimesOut
<1>2. missed \subseteq missed' /\ missed' \subseteq missed \union {"receipt"}
  BY DEF Checkout!Choose, Checkout!Send, Checkout!ServeUpload, Checkout!Stop, Checkout!SendTimesOut
<1>3. \/ screen.at = "bank" /\ sending' = [sending EXCEPT !.at = "photo", !.group = screen.group]
      \/ screen.at = "bank" /\ sending.at # "idle" /\ sending' = [sending EXCEPT !.at = "upload"]
      \/ /\ sending.at \in InFlight
         /\ \E a \in {"receipt", "stopped", "unsent"} : sending' = [sending EXCEPT !.at = a]
  BY DEF Checkout!Choose, Checkout!Send, Checkout!ServeUpload, Checkout!Stop, Checkout!SendTimesOut,
     Checkout!Uploaded, InFlight
<1>4. sending \in Sendings /\ screen \in Screenings
  BY CheckoutTyped DEF CheckoutInv
<1>5. sending' \in Sendings
  BY <1>3, <1>4 DEF Sendings, Screenings, InFlight
<1>6. Checkout!TypeOK'
  BY <1>1, <1>2, <1>5, CheckoutTyped, CheckoutTypedNext DEF CheckoutInv
<1>7. Checkout!Current' = Checkout!Current
  BY <1>1 DEF Checkout!Current
<1>8. OneAsk'
  BY <1>1, <1>3, <1>4, <1>7 DEF CheckoutInv, OneAsk, Sendings, InFlight
<1>9. About'
  BY <1>1, <1>3, <1>4, <1>7, CheckoutNumbers DEF CheckoutInv, About, Sendings, InFlight, InHand, OnlyHolder, OnOne
<1>10. MadeIsKept /\ (sending'.at \in InFlight => OnlyHolder(sending'.group))
  BY <1>1, <1>3, <1>4 DEF MadeIsKept, CheckoutInv, InHand, About, OnOne, Sendings, InFlight
<1> QED
  BY <1>1, <1>2, <1>6, <1>8, <1>9, <1>10, BooksStay

(***************************************************************************)
(* What the server does, and everybody else.                               *)
(***************************************************************************)

(* A booking that changes and holds no more than it held.                  *)
LEMMA BookingChanges ==
  ASSUME CheckoutInv, NEW g \in Checkout!Groups, NEW b \in Bookings,
         booking' = [booking EXCEPT ![g] = b],
         b.status \in Checkout!Holding => booking[g].status \in Checkout!Holding
  PROVE  /\ booking' \in [Checkout!Groups -> Bookings] /\ Holds' \subseteq Holds
         /\ booking'[g] = b /\ \A h \in Checkout!Groups : h # g => booking'[h] = booking[h]
<1>1. booking \in [Checkout!Groups -> Bookings]
  BY CheckoutTyped DEF CheckoutInv
<1>2. /\ booking' \in [Checkout!Groups -> Bookings]
      /\ booking'[g] = b /\ \A h \in Checkout!Groups : h # g => booking'[h] = booking[h]
  BY <1>1
<1>3. Holds' \subseteq Holds
  BY <1>2 DEF Holds
<1> QED
  BY <1>2, <1>3

(* The server moves one booking along, and keeps what the screens say.     *)
LEMMA ServerKeeps ==
  ASSUME CheckoutInv, NEW g \in Checkout!Groups, NEW b \in Bookings,
         booking' = [booking EXCEPT ![g] = b],
         UNCHANGED <<screen, remembered>>, Checkout!TypeOK',
         b.status \in Checkout!Holding => booking[g].status \in Checkout!Holding,
         b.pay = "pending" => b.status \in {"pending_payment", "pending_approval"},
         b.status = "pending_approval" => b.receipt,
         b.sold <=> b.status = "confirmed",
         booking[g].receipt => b.receipt, booking[g].sold => b.sold,
         OneAsk', About', MadeIsKept,
         sending'.at \in InFlight => OnlyHolder(sending'.group), missed \subseteq missed'
  PROVE  CheckoutInv'
<1>1. /\ Holds' \subseteq Holds
      /\ booking'[g] = b /\ \A h \in Checkout!Groups : h # g => booking'[h] = booking[h]
  BY BookingChanges
<1>2. BooksAgree'
  BY <1>1 DEF CheckoutInv, BooksAgree
<1>3. LastScreens'
  BY <1>1 DEF CheckoutInv, LastScreens, InHand, OnlyHolder, OnOne
<1> QED
  BY <1>1, <1>2, <1>3, ScreensStay

(* The fields of one booking.                                              *)
LEMMA OneBooking ==
  ASSUME CheckoutInv, NEW g \in Checkout!Groups
  PROVE  /\ booking[g] \in Bookings
         /\ booking[g].pay = "pending" => booking[g].status \in {"pending_payment", "pending_approval"}
         /\ booking[g].status = "pending_approval" => booking[g].receipt
         /\ booking[g].sold <=> booking[g].status = "confirmed"
BY CheckoutTyped DEF CheckoutInv, BooksAgree

(* The sweep, or the player's own release.                                 *)
LEMMA CancelledBooking ==
  ASSUME CheckoutInv, NEW g \in Checkout!Groups, booking[g].status = "pending_payment",
         booking' = [booking EXCEPT ![g].status = "cancelled",
                       ![g].pay = IF @ = "pending" THEN "failed" ELSE @]
  PROVE  \E b \in Bookings :
           /\ booking' = [booking EXCEPT ![g] = b]
           /\ b.status = "cancelled" /\ b.pay # "pending" /\ b.receipt = booking[g].receipt /\ ~b.sold
<1> DEFINE b == [booking[g] EXCEPT !.status = "cancelled", !.pay = IF @ = "pending" THEN "failed" ELSE @]
<1>1. booking[g] \in Bookings /\ ~booking[g].sold
  BY OneBooking
<1>2. booking' = [booking EXCEPT ![g] = b]
  BY <1>1, CheckoutTyped DEF CheckoutInv, Bookings
<1>3. b \in Bookings /\ b.status = "cancelled" /\ b.pay # "pending" /\ b.receipt = booking[g].receipt /\ ~b.sold
  BY <1>1 DEF Bookings, Checkout!Ended
<1> QED
  BY <1>2, <1>3

(* A payment ends behind the screens: the booking is over, or paid.        *)
LEMMA EndKeeps ==
  ASSUME CheckoutInv, NEW g \in Checkout!Groups, NEW b \in Bookings,
         booking' = [booking EXCEPT ![g] = b],
         UNCHANGED <<taken, screen, remembered, price, paying, leaving, sending, missed>>,
         booking[g].status \in {"pending_payment", "pending_approval"},
         b.status \in {"cancelled", "rejected", "confirmed"}, b.pay # "pending",
         b.receipt = booking[g].receipt, b.sold <=> b.status = "confirmed"
  PROVE  CheckoutInv'
<1>1. ~booking[g].sold /\ (b.status \in Checkout!Holding => booking[g].status \in Checkout!Holding)
  BY OneBooking DEF Checkout!Holding
<1>2. /\ booking' \in [Checkout!Groups -> Bookings]
      /\ booking'[g] = b /\ \A h \in Checkout!Groups : h # g => booking'[h] = booking[h]
  BY <1>1, BookingChanges
<1>3. Checkout!TypeOK'
  BY <1>2, CheckoutTyped, CheckoutTypedNext DEF CheckoutInv
<1>4. Checkout!Current' = Checkout!Current
  BY DEF Checkout!Current
<1>5. OneAsk' /\ MadeIsKept /\ (sending'.at \in InFlight => OnlyHolder(sending'.group))
  BY <1>4 DEF CheckoutInv, OneAsk, MadeIsKept, InHand
<1>6. sending.at = "sent" => sending.group \in Checkout!Groups /\ booking'[sending.group].receipt
  BY <1>2 DEF CheckoutInv, About, InHand, OnlyHolder, InFlight
<1>7. About'
  BY <1>4, <1>6 DEF CheckoutInv, About
<1> QED
  BY <1>1, <1>3, <1>5, <1>7, ServerKeeps

LEMMA EverybodyElseKeeps ==
  ASSUME CheckoutInv, NEW g \in Checkout!Groups, NEW yes \in BOOLEAN,
         Checkout!Sweep(g) \/ Checkout!Settle(g, yes) \/ Checkout!Decide(g, yes)
  PROVE  CheckoutInv'
<1>1. booking \in [Checkout!Groups -> Bookings] /\ booking[g] \in Bookings
  BY CheckoutTyped DEF CheckoutInv
<1>2. CASE Checkout!Sweep(g)
  BY <1>2, CancelledBooking, EndKeeps DEF Checkout!Sweep
<1>3. CASE Checkout!Settle(g, yes)
  <2> DEFINE b == [booking[g] EXCEPT !.status = IF yes THEN "confirmed" ELSE "cancelled",
                     !.pay = IF yes THEN "completed" ELSE "failed", !.sold = yes]
  <2>1. booking' = [booking EXCEPT ![g] = b]
    BY <1>1, <1>3 DEF Checkout!Settle, Bookings
  <2>2. /\ b \in Bookings /\ b.status \in {"cancelled", "rejected", "confirmed"} /\ b.pay # "pending"
        /\ b.receipt = booking[g].receipt /\ (b.sold <=> b.status = "confirmed")
    BY <1>1 DEF Bookings, Checkout!Holding, Checkout!Ended
  <2> HIDE DEF b
  <2> QED
    BY <1>3, <2>1, <2>2, EndKeeps DEF Checkout!Settle
<1>4. CASE Checkout!Decide(g, yes)
  <2> DEFINE b == [booking[g] EXCEPT !.status = IF yes THEN "confirmed" ELSE "rejected",
                     !.pay = IF yes THEN "completed" ELSE "failed", !.sold = yes]
  <2>1. booking' = [booking EXCEPT ![g] = b]
    BY <1>1, <1>4 DEF Checkout!Decide, Bookings
  <2>2. /\ b \in Bookings /\ b.status \in {"cancelled", "rejected", "confirmed"} /\ b.pay # "pending"
        /\ b.receipt = booking[g].receipt /\ (b.sold <=> b.status = "confirmed")
    BY <1>1 DEF Bookings, Checkout!Holding, Checkout!Ended
  <2> HIDE DEF b
  <2> QED
    BY <1>4, <2>1, <2>2, EndKeeps DEF Checkout!Decide
<1> QED
  BY <1>2, <1>3, <1>4

LEMMA OthersKeeps ==
  ASSUME CheckoutInv, Checkout!Others
  PROVE  CheckoutInv'
<1>1. UNCHANGED <<booking, screen, remembered, price, paying, leaving, sending, missed>>
  BY DEF Checkout!Others
<1>2. Checkout!TypeOK'
  BY <1>1, CheckoutTyped, CheckoutTypedNext DEF CheckoutInv, Checkout!Others
<1>3. Checkout!Current' = Checkout!Current
  BY <1>1 DEF Checkout!Current
<1>4. OneAsk' /\ About' /\ MadeIsKept /\ (sending'.at \in InFlight => OnlyHolder(sending'.group))
  BY <1>1, <1>3 DEF CheckoutInv, OneAsk, About, MadeIsKept, InHand
<1> QED
  BY <1>1, <1>2, <1>4, BooksStay

LEMMA ServeReleaseKeeps ==
  ASSUME CheckoutInv, Checkout!ServeRelease
  PROVE  CheckoutInv'
<1> DEFINE g == leaving.group
<1>1. UNCHANGED <<taken, screen, remembered, price, paying, sending, missed>> /\ leaving.at = "asked"
  BY DEF Checkout!ServeRelease
<1>2. /\ leaving' = [leaving EXCEPT !.at = "released"] \/ leaving' = [leaving EXCEPT !.at = "kept"]
      /\ leaving \in Leavings
  BY CheckoutTyped DEF Checkout!ServeRelease, CheckoutInv
<1>3. leaving' \in Leavings /\ leaving'.group = g /\ leaving'.at \notin {"idle", "sheet"}
  BY <1>2 DEF Leavings
<1>4. Checkout!Current' = Checkout!Current
  BY <1>1 DEF Checkout!Current
<1>5. OneAsk' /\ MadeIsKept /\ (sending'.at \in InFlight => OnlyHolder(sending'.group))
  BY <1>1, <1>3, <1>4 DEF CheckoutInv, OneAsk, MadeIsKept, InHand
<1>6. g \in Checkout!Groups
  BY <1>1, <1>2, CheckoutNumbers DEF CheckoutInv, About, Leavings
<1>7. CASE UNCHANGED booking
  <2>1. Checkout!TypeOK' /\ About'
    BY <1>1, <1>3, <1>4, <1>6, <1>7, CheckoutNumbers, CheckoutTyped, CheckoutTypedNext DEF CheckoutInv, About
  <2> QED
    BY <1>1, <1>5, <1>7, <2>1, BooksStay
<1>8. CASE ~UNCHANGED booking
  <2>1. /\ booking[g].status = "pending_payment"
        /\ booking' = [booking EXCEPT ![g].status = "cancelled",
                         ![g].pay = IF @ = "pending" THEN "failed" ELSE @]
    BY <1>8 DEF Checkout!ServeRelease
  <2> HIDE DEF g
  <2>2. PICK b \in Bookings :
           /\ booking' = [booking EXCEPT ![g] = b]
           /\ b.status = "cancelled" /\ b.pay # "pending" /\ b.receipt = booking[g].receipt /\ ~b.sold
    BY <1>6, <2>1, CancelledBooking
  <2>3. b.status \notin Checkout!Holding
    BY <2>2 DEF Checkout!Holding
  <2>4. /\ booking' \in [Checkout!Groups -> Bookings]
        /\ booking'[g] = b /\ \A h \in Checkout!Groups : h # g => booking'[h] = booking[h]
    BY <1>6, <2>1, <2>2, <2>3, BookingChanges
  <2>5. Checkout!TypeOK'
    BY <1>1, <1>3, <2>4, CheckoutTyped, CheckoutTypedNext DEF CheckoutInv
  <2>6. sending.at = "sent" => sending.group \in Checkout!Groups /\ booking'[sending.group].receipt
    BY <2>2, <2>4 DEF CheckoutInv, About, InHand, OnlyHolder, InFlight
  <2>7. About'
    BY <1>1, <1>3, <1>4, <1>6, <2>6, CheckoutNumbers DEF CheckoutInv, About
  <2> QED
    BY <1>1, <1>5, <1>6, <2>1, <2>2, <2>3, <2>5, <2>7, OneBooking, ServerKeeps
<1> QED
  BY <1>7, <1>8

(* A payment is started, or refused.                                       *)
LEMMA ServeInitiateKeeps ==
  ASSUME CheckoutInv, Checkout!ServeInitiate
  PROVE  CheckoutInv'
<1> DEFINE g == paying.group
<1>1. UNCHANGED <<taken, screen, remembered, price, leaving, sending, missed>> /\ paying.at = "initiate"
  BY DEF Checkout!ServeInitiate
<1>2. paying \in Payings /\ \E a \in {"unpayable", "exists", "started"} : paying' = [paying EXCEPT !.at = a]
  BY CheckoutTyped DEF Checkout!ServeInitiate, CheckoutInv
<1>3. /\ paying' \in Payings /\ paying'.group = g
      /\ paying'.at \in {"unpayable", "exists", "started"} /\ paying'.at \notin Making
  BY <1>2 DEF Payings, Making
<1>4. Checkout!Current' = Checkout!Current
  BY <1>1 DEF Checkout!Current
<1>5. g \in Checkout!Groups
  BY <1>1 DEF CheckoutInv, About, InHand, OnlyHolder, Making
<1>6. /\ OneAsk' /\ MadeIsKept /\ (sending'.at \in InFlight => OnlyHolder(sending'.group))
      /\ sending.at \notin InFlight
  BY <1>1, <1>3, <1>4 DEF CheckoutInv, OneAsk, MadeIsKept, InHand
<1>7. About'
  BY <1>1, <1>3, <1>4, <1>6 DEF CheckoutInv, About, Making, InFlight
<1>8. CASE UNCHANGED booking
  <2>1. Checkout!TypeOK'
    BY <1>1, <1>3, <1>8, CheckoutTyped, CheckoutTypedNext DEF CheckoutInv
  <2> QED
    BY <1>1, <1>6, <1>7, <1>8, <2>1, BooksStay
<1>9. CASE ~UNCHANGED booking
  <2> DEFINE b == [booking[g] EXCEPT !.method = paying.method, !.pay = "pending"]
  <2>1. /\ booking[g].status = "pending_payment"
        /\ booking' = [booking EXCEPT ![g].method = paying.method, ![g].pay = "pending"]
    BY <1>9 DEF Checkout!ServeInitiate
  <2> HIDE DEF g
  <2>2. booking' = [booking EXCEPT ![g] = b]
    BY <1>5, <2>1, CheckoutTyped DEF CheckoutInv, Bookings
  <2>a. booking[g] \in Bookings /\ ~booking[g].sold /\ paying.method \in Checkout!Methods
    BY <1>2, <1>5, <2>1, OneBooking DEF Payings
  <2>3. /\ b \in Bookings /\ b.status = "pending_payment" /\ b.pay = "pending"
        /\ b.receipt = booking[g].receipt /\ b.sold = booking[g].sold /\ ~b.sold
    BY <2>1, <2>a DEF Bookings
  <2> HIDE DEF b
  <2>4. booking' \in [Checkout!Groups -> Bookings]
    BY <1>5, <2>1, <2>2, <2>3, BookingChanges
  <2>5. Checkout!TypeOK'
    BY <1>1, <1>3, <2>4, CheckoutTyped, CheckoutTypedNext DEF CheckoutInv
  <2> QED
    BY <1>1, <1>5, <1>6, <1>7, <2>1, <2>2, <2>3, <2>5, ServerKeeps
<1> QED
  BY <1>8, <1>9

(* The arena has the receipt, or the server does not take it.              *)
LEMMA ServeReceiptKeeps ==
  ASSUME CheckoutInv, Checkout!ServeReceipt
  PROVE  CheckoutInv'
<1> DEFINE g == sending.group
<1>1. UNCHANGED <<taken, screen, remembered, price, paying, leaving, missed>> /\ sending.at = "receipt"
  BY DEF Checkout!ServeReceipt
<1>2. sending \in Sendings /\ \E a \in {"sent", "unsent"} : sending' = [sending EXCEPT !.at = a]
  BY CheckoutTyped DEF Checkout!ServeReceipt, CheckoutInv
<1>3. sending' \in Sendings /\ sending'.group = g /\ sending'.at \in {"sent", "unsent"}
  BY <1>2 DEF Sendings, InFlight
<1>4. Checkout!Current' = Checkout!Current
  BY <1>1 DEF Checkout!Current
<1>5. g \in Checkout!Groups /\ OnlyHolder(g) /\ g # 0
  BY <1>1, CheckoutNumbers DEF CheckoutInv, InHand, OnlyHolder, InFlight
<1>6. OneAsk' /\ MadeIsKept /\ (sending'.at \in InFlight => OnlyHolder(sending'.group))
  BY <1>1, <1>3, <1>4, <1>5 DEF CheckoutInv, OneAsk, MadeIsKept, InFlight
<1>7. ASSUME sending'.at = "sent" => booking'[g].receipt PROVE About'
  BY <1>1, <1>3, <1>4, <1>5, <1>7 DEF CheckoutInv, About
<1>8. CASE UNCHANGED booking
  <2>1. Checkout!TypeOK'
    BY <1>1, <1>3, <1>8, CheckoutTyped, CheckoutTypedNext DEF CheckoutInv
  <2>2. sending'.at = "sent" => booking'[g].receipt
    BY <1>2, <1>5, CheckoutTyped DEF Checkout!ServeReceipt, Sendings, CheckoutInv, Bookings
  <2> QED
    BY <1>1, <1>6, <1>7, <1>8, <2>1, <2>2, BooksStay
<1>9. CASE ~UNCHANGED booking
  <2> DEFINE b == [booking[g] EXCEPT !.receipt = TRUE, !.status = "pending_approval"]
  <2>1. /\ booking[g].pay = "pending"
        /\ booking' = [booking EXCEPT ![g].receipt = TRUE, ![g].status = "pending_approval"]
    BY <1>9 DEF Checkout!ServeReceipt
  <2> HIDE DEF g
  <2>2. booking' = [booking EXCEPT ![g] = b]
    BY <1>5, <2>1, CheckoutTyped DEF CheckoutInv, Bookings
  <2>3. booking[g].status \in {"pending_payment", "pending_approval"} /\ booking[g] \in Bookings
    BY <1>5, <2>1, OneBooking
  <2>4. ~booking[g].sold
    BY <1>5, <2>3, OneBooking
  <2>5. /\ b \in Bookings /\ b.status = "pending_approval" /\ b.receipt /\ b.sold = booking[g].sold
    BY <2>3 DEF Bookings, Checkout!Holding
  <2> HIDE DEF b
  <2>6. booking[g].status \in Checkout!Holding
    BY <2>3 DEF Checkout!Holding
  <2>7. booking' \in [Checkout!Groups -> Bookings] /\ booking'[g] = b
    BY <1>5, <2>2, <2>5, <2>6, BookingChanges
  <2>8. Checkout!TypeOK' /\ About'
    BY <1>1, <1>3, <1>7, <2>5, <2>7, CheckoutTyped, CheckoutTypedNext DEF CheckoutInv
  <2> QED
    BY <1>1, <1>5, <1>6, <2>2, <2>3, <2>4, <2>5, <2>6, <2>8, ServerKeeps
<1> QED
  BY <1>8, <1>9

(* createBooking: the only step after which more is held than before.      *)
LEMMA ServeCreateKeeps ==
  ASSUME CheckoutInv, Checkout!ServeCreate
  PROVE  CheckoutInv'
<1>1. /\ UNCHANGED <<taken, screen, remembered, price, leaving, sending, missed>> /\ paying.at = "create"
      /\ Checkout!Current = 0 /\ screen.at = "payment" /\ sending.at \notin InFlight
  BY DEF Checkout!ServeCreate, CheckoutInv, About, OneAsk, Making
<1>2. paying \in Payings /\ booking \in [Checkout!Groups -> Bookings]
  BY CheckoutTyped DEF CheckoutInv
<1>3. Checkout!Current' = Checkout!Current
  BY <1>1 DEF Checkout!Current
<1>4. ASSUME paying' \in Payings, paying'.at \in {"made", "taken", "refused"} PROVE OneAsk' /\ About'
  BY <1>1, <1>3, <1>4 DEF CheckoutInv, OneAsk, About, Making, InFlight
<1>5. CASE \E a \in {"taken", "refused"} : paying' = [paying EXCEPT !.at = a] /\ UNCHANGED booking
  <2>1. paying' \in Payings /\ paying'.at \in {"taken", "refused"}
    BY <1>2, <1>5 DEF Payings, Making
  <2>2. Checkout!TypeOK'
    BY <1>1, <1>5, <2>1, CheckoutTyped, CheckoutTypedNext DEF CheckoutInv
  <2> QED
    BY <1>1, <1>4, <1>5, <2>1, <2>2, BooksStay DEF MadeIsKept
<1>6. CASE Checkout!Free /\ \E g \in Checkout!Groups :
             /\ booking[g].status = "none"
             /\ booking' = [booking EXCEPT ![g].status = "pending_payment"]
             /\ paying' = [paying EXCEPT !.at = "made", !.group = g]
  <2>1. PICK g \in Checkout!Groups :
             /\ booking[g].status = "none"
             /\ booking' = [booking EXCEPT ![g].status = "pending_payment"]
             /\ paying' = [paying EXCEPT !.at = "made", !.group = g]
    BY <1>6
  <2>2. Holds = {}
    BY <1>6 DEF Checkout!Free, Checkout!OwnHold, Holds
  <2> DEFINE b == [booking[g] EXCEPT !.status = "pending_payment"]
  <2>3. /\ b \in Bookings /\ b.status = "pending_payment"
        /\ b.pay = booking[g].pay /\ b.sold = booking[g].sold /\ b.receipt = booking[g].receipt
    BY <1>2 DEF Bookings, Checkout!Holding
  <2>4. /\ booking' \in [Checkout!Groups -> Bookings]
        /\ booking'[g] = b /\ \A h \in Checkout!Groups : h # g => booking'[h] = booking[h]
    BY <1>2, <2>1, <2>3
  <2> HIDE DEF b
  <2>5. ~booking[g].sold /\ booking[g].pay # "pending"
    BY <2>1, OneBooking
  <2>6. Holds' = {g}
    BY <2>2, <2>3, <2>4 DEF Holds, Checkout!Holding
  <2>7. paying' \in Payings /\ paying'.at = "made" /\ paying'.group = g
    BY <1>2, <2>1, CheckoutNumbers DEF Payings, Making
  <2>8. Checkout!TypeOK'
    BY <1>1, <2>4, <2>7, CheckoutTyped, CheckoutTypedNext DEF CheckoutInv
  <2>9. BooksAgree'
    BY <2>3, <2>4, <2>5 DEF CheckoutInv, BooksAgree
  <2>10. OneHolds' /\ InHand' /\ Forgotten'
    BY <1>1, <1>3, <2>6, <2>7 DEF CheckoutInv, OneHolds, InHand, Forgotten, OnlyHolder, OnOne
  <2>11. OneAsk' /\ About'
    BY <1>4, <2>7
  <2>12. LastScreens' /\ NoneHeld'
    BY <1>1, <2>7 DEF LastScreens, NoneHeld
  <2> QED
    BY <2>8, <2>9, <2>10, <2>11, <2>12 DEF CheckoutInv
<1> QED
  BY <1>5, <1>6 DEF Checkout!ServeCreate

(***************************************************************************)
(* The screens.                                                            *)
(***************************************************************************)

(* Show opens a screen in place of the one on top.                         *)
LEMMA ShowOpens ==
  ASSUME CheckoutInv, NEW at \in {"payment", "bank", "processing", "awaiting", "failed", "confirmed", "lost"},
         NEW g \in Checkout!Held, Checkout!Show(at, g)
  PROVE  /\ screen' \in Screenings /\ screen'.at = at /\ screen'.group = g /\ ~screen'.over
         /\ screen'.resume = screen.resume
         /\ remembered' = (IF at \in {"processing", "awaiting", "confirmed", "lost"} THEN 0 ELSE remembered)
         /\ remembered' \in Checkout!Held
<1>1. screen \in Screenings /\ remembered \in Checkout!Held
  BY CheckoutTyped DEF CheckoutInv
<1>2. screen' \in Screenings /\ screen'.at = at /\ screen'.group = g /\ ~screen'.over
         /\ screen'.resume = screen.resume
  BY <1>1 DEF Checkout!Show, Screenings
<1> QED
  BY <1>1, <1>2, CheckoutNumbers DEF Checkout!Show, Checkout!Forgetting, Checkout!NoGroup

(* The bookings stay, and with them what is true of them.                  *)
LEMMA TurnsKeep ==
  ASSUME CheckoutInv, UNCHANGED booking,
         Checkout!TypeOK', InHand', Forgotten', OneAsk', About', LastScreens', NoneHeld'
  PROVE  CheckoutInv'
<1>1. Holds' = Holds
  BY DEF Holds
<1>2. BooksAgree' /\ OneHolds'
  BY <1>1 DEF CheckoutInv, BooksAgree, OneHolds
<1> QED
  BY <1>2 DEF CheckoutInv

LEMMA HoldsStay == UNCHANGED booking => Holds' = Holds
BY DEF Holds

(* Away: a new review, a resumed payment, or nothing left open.            *)
LEMMA OpenKeeps ==
  ASSUME CheckoutInv, Checkout!Open \/ (\E g \in Checkout!Groups : Checkout!Resume(g))
  PROVE  CheckoutInv'
<1>1. UNCHANGED <<booking, taken, remembered, paying, sending, missed>> /\ leaving' = Checkout!Idle
  BY DEF Checkout!Open, Checkout!Resume
<1>2. remembered = 0 /\ paying.at = "idle" /\ price.at = "idle" /\ sending.at \notin InFlight
  BY CalmIs DEF Checkout!Open, Checkout!Resume, CheckoutInv, Forgotten
<1>a. price \in Prices /\ screen \in Screenings
  BY CheckoutTyped DEF CheckoutInv
<1>3. price' \in Prices /\ price'.at = "idle"
  BY <1>a, CheckoutShapes DEF Checkout!Open, Checkout!Resume, Prices
<1>4. \/ /\ screen' = [Checkout!Away EXCEPT !.at = "review", !.review = TRUE, !.left = screen.left]
         /\ Holds = {}
      \/ \E g \in Checkout!Groups :
           /\ screen' = [Checkout!Away EXCEPT !.at = "payment", !.resume = g, !.left = screen.left]
           /\ g \in Holds
  BY DEF Checkout!Open, Checkout!Resume, Checkout!Free, Checkout!OwnHold, Holds, Checkout!Holding
<1>5. /\ screen' \in Screenings
      /\ \/ screen'.at = "review" /\ screen'.resume = 0 /\ Holds = {}
         \/ screen'.at = "payment" /\ screen'.resume \in Checkout!Groups /\ screen'.resume \in Holds
  BY <1>4, <1>a, CheckoutShapes, CheckoutNumbers DEF Screenings
<1>6. Checkout!TypeOK'
  BY <1>1, <1>3, <1>5, CheckoutShapes, CheckoutTyped, CheckoutTypedNext DEF CheckoutInv
<1>7. Holds' = Holds /\ Checkout!Current' = screen'.resume /\ remembered' = 0
  BY <1>1, <1>2, HoldsStay DEF Checkout!Current, Checkout!NoGroup
<1>8. InHand' /\ Forgotten' /\ LastScreens' /\ NoneHeld'
  BY <1>1, <1>2, <1>5, <1>7, CheckoutNumbers
  DEF CheckoutInv, InHand, Forgotten, LastScreens, NoneHeld, OnlyHolder, OnOne, OneHolds
<1>9. OneAsk' /\ About'
  BY <1>1, <1>2, <1>3, <1>5, CheckoutShapes DEF CheckoutInv, OneAsk, About, Making
<1> QED
  BY <1>1, <1>6, <1>8, <1>9, TurnsKeep

LEMMA KillKeeps ==
  ASSUME CheckoutInv, Checkout!Kill
  PROVE  CheckoutInv'
<1>1. /\ UNCHANGED <<booking, taken>> /\ screen' = Checkout!Away /\ remembered' = 0
      /\ price' = Checkout!NoPrice /\ paying' = Checkout!Idle /\ leaving' = Checkout!Idle /\ sending' = Checkout!Idle
      /\ missed' \subseteq missed \union {"create"}
  BY DEF Checkout!Kill, Checkout!NoGroup
<1>2. Checkout!TypeOK'
  BY <1>1, CheckoutShapes, CheckoutNumbers, CheckoutTyped, CheckoutTypedNext DEF CheckoutInv
<1>3. Checkout!Current' = 0 /\ Holds' = Holds
  BY <1>1, CheckoutShapes, HoldsStay DEF Checkout!Current
<1>4. InHand' /\ Forgotten' /\ LastScreens' /\ NoneHeld' /\ OneAsk' /\ About'
  BY <1>1, <1>3, CheckoutShapes
  DEF InHand, Forgotten, LastScreens, NoneHeld, OneAsk, About, OnOne, Making, InFlight
<1> QED
  BY <1>1, <1>2, <1>4, TurnsKeep

(* Off the screens, with the person calm or the booking given back.        *)
LEMMA AwayKeeps ==
  ASSUME CheckoutInv,
         screen' \in Screenings, screen'.at = "away", screen'.resume = 0, remembered' = 0,
         UNCHANGED <<booking, taken, price, paying, sending, missed>>, leaving' \in Leavings,
         leaving'.at # "idle" => leaving'.group # 0,
         paying.at = "idle", price.at = "idle"
  PROVE  CheckoutInv'
<1>1. Checkout!TypeOK'
  BY CheckoutShapes, CheckoutNumbers, CheckoutTyped, CheckoutTypedNext DEF CheckoutInv
<1>2. Checkout!Current' = 0 /\ Holds' = Holds
  BY CheckoutShapes, HoldsStay DEF Checkout!Current
<1>3. InHand' /\ Forgotten' /\ LastScreens' /\ NoneHeld' /\ OneAsk' /\ About'
  BY <1>2, CheckoutShapes
  DEF CheckoutInv, InHand, Forgotten, LastScreens, NoneHeld, OneAsk, About, OnOne, Making, OnlyHolder
<1> QED
  BY <1>1, <1>3, TurnsKeep

(* Home or the arena: a Review may stay below.                             *)
LEMMA LeftOpen ==
  ASSUME screen \in Screenings, screen' = Checkout!LeftBelow \/ Checkout!AtArena
  PROVE  screen' \in Screenings /\ screen'.at = "away" /\ screen'.resume = 0
<1>1. \E l \in BOOLEAN : screen' = [Checkout!Away EXCEPT !.left = l]
  BY DEF Checkout!LeftBelow, Checkout!AtArena, Checkout!Mounted, Screenings
<1> QED
  BY <1>1, CheckoutShapes DEF Screenings

LEMMA GoAwayKeeps ==
  ASSUME CheckoutInv, Checkout!GoAway
  PROVE  CheckoutInv'
<1>1. /\ screen' = Checkout!LeftBelow \/ Checkout!AtArena
      /\ UNCHANGED <<booking, taken, remembered, price, paying, leaving, sending, missed>>
      /\ paying.at = "idle" /\ price.at = "idle"
  BY CalmIs DEF Checkout!GoAway
<1>2. remembered = 0
  BY DEF Checkout!GoAway, CheckoutInv, Forgotten
<1>3. leaving' \in Leavings /\ (leaving'.at # "idle" => leaving'.group # 0)
  BY <1>1, CheckoutTyped DEF CheckoutInv, About
<1>4. screen' \in Screenings /\ screen'.at = "away" /\ screen'.resume = 0
  BY <1>1, LeftOpen, CheckoutTyped DEF CheckoutInv
<1> QED
  BY <1>1, <1>2, <1>3, <1>4, AwayKeeps

LEMMA LeftKeeps ==
  ASSUME CheckoutInv, Checkout!Left
  PROVE  CheckoutInv'
<1>1. UNCHANGED <<booking, taken, price, paying, sending, missed>> /\ leaving.at \in {"released", "kept"}
  BY DEF Checkout!Left
<1>2. paying.at = "idle" /\ price.at = "idle"
  BY <1>1 DEF CheckoutInv, OneAsk
<1>3. leaving \in Leavings
  BY CheckoutTyped DEF CheckoutInv
<1>4. CASE leaving.at = "released"
  <2>1. remembered' = 0 /\ Checkout!AtArena /\ leaving' = Checkout!Idle
    BY <1>4 DEF Checkout!Left, Checkout!NoGroup
  <2>2. screen' \in Screenings /\ screen'.at = "away" /\ screen'.resume = 0
    BY <2>1, LeftOpen, CheckoutTyped DEF CheckoutInv
  <2> QED
    BY <1>1, <1>2, <2>1, <2>2, CheckoutShapes, AwayKeeps
<1>5. CASE leaving.at = "kept"
  <2>1. leaving' = [leaving EXCEPT !.at = "sheet"] /\ UNCHANGED <<screen, remembered>>
    BY <1>5 DEF Checkout!Left
  <2>2. leaving' \in Leavings /\ leaving'.at = "sheet" /\ leaving'.group = leaving.group
    BY <1>3, <2>1 DEF Leavings
  <2>3. Checkout!TypeOK' /\ Checkout!Current' = Checkout!Current
    BY <1>1, <2>1, <2>2, CheckoutTyped, CheckoutTypedNext DEF CheckoutInv, Checkout!Current
  <2>4. OneAsk' /\ About' /\ MadeIsKept /\ (sending'.at \in InFlight => OnlyHolder(sending'.group))
    BY <1>1, <1>5, <2>1, <2>2, <2>3 DEF CheckoutInv, OneAsk, About, MadeIsKept, InHand
  <2> QED
    BY <1>1, <2>1, <2>3, <2>4, BooksStay
<1> QED
  BY <1>1, <1>4, <1>5

LEMMA BackKeeps ==
  ASSUME CheckoutInv, Checkout!Back
  PROVE  CheckoutInv'
<1> DEFINE g == IF screen.at = "bank" THEN screen.group
                ELSE IF screen.resume # 0 THEN 0 ELSE remembered
<1>1. /\ UNCHANGED <<booking, taken, remembered, price, paying, sending, missed>>
      /\ paying.at = "idle" /\ price.at = "idle" /\ leaving.at = "idle" /\ sending.at \notin InFlight
      /\ screen.at \in {"review", "payment", "bank"}
  BY CalmIs DEF Checkout!Back
<1>2. IF screen.at # "review" /\ g # 0
      THEN leaving' = [Checkout!Idle EXCEPT !.at = "sheet", !.group = g] /\ UNCHANGED screen
      ELSE /\ screen' = IF screen.at = "payment" /\ screen.review
                        THEN [screen EXCEPT !.at = "review"]
                        ELSE [Checkout!Away EXCEPT !.left = screen.left]
           /\ UNCHANGED leaving
  BY DEF Checkout!Back, Checkout!NoGroup
<1>3. g \in Checkout!Held
  BY CheckoutNumbers, CheckoutTyped DEF CheckoutInv, Screenings
<1>4. CASE screen.at # "review" /\ g # 0
  <2>1. leaving' = [Checkout!Idle EXCEPT !.at = "sheet", !.group = g] /\ UNCHANGED screen
    BY <1>2, <1>4
  <2> HIDE DEF g
  <2>2. leaving' \in Leavings /\ leaving'.at = "sheet" /\ leaving'.group = g
    BY <1>3, <2>1, CheckoutShapes DEF Leavings
  <2>3. Checkout!TypeOK' /\ Checkout!Current' = Checkout!Current
    BY <1>1, <2>1, <2>2, CheckoutTyped, CheckoutTypedNext DEF CheckoutInv, Checkout!Current
  <2>4. OneAsk' /\ About' /\ MadeIsKept /\ (sending'.at \in InFlight => OnlyHolder(sending'.group))
    BY <1>1, <1>4, <2>1, <2>2, <2>3 DEF CheckoutInv, OneAsk, About, MadeIsKept, InHand
  <2> QED
    BY <1>1, <2>1, <2>3, <2>4, BooksStay
<1>5. CASE ~(screen.at # "review" /\ g # 0)
  <2>1. /\ screen' = IF screen.at = "payment" /\ screen.review
                     THEN [screen EXCEPT !.at = "review"]
                     ELSE [Checkout!Away EXCEPT !.left = screen.left]
        /\ UNCHANGED leaving
    BY <1>2, <1>5
  <2>2. remembered = 0
    BY <1>1, <1>5, CheckoutNumbers DEF CheckoutInv, Forgotten, InHand, OnlyHolder, OnOne
  <2>3. leaving' \in Leavings /\ leaving'.at = "idle"
    BY <1>1, <2>1, CheckoutTyped DEF CheckoutInv
  <2>4. screen \in Screenings
    BY CheckoutTyped DEF CheckoutInv
  <2>5. CASE screen.at = "payment" /\ screen.review
    <3>1. screen' \in Screenings /\ screen'.at = "review" /\ screen'.resume = screen.resume
      BY <2>1, <2>4, <2>5 DEF Screenings
    <3>2. Checkout!TypeOK' /\ Checkout!Current' = Checkout!Current /\ Holds' = Holds
      BY <1>1, <2>1, <3>1, HoldsStay, CheckoutTyped, CheckoutTypedNext DEF CheckoutInv, Checkout!Current
    <3>3. InHand' /\ Forgotten' /\ OneAsk' /\ LastScreens'
      BY <1>1, <2>1, <2>2, <3>1, <3>2 DEF CheckoutInv, InHand, Forgotten, OneAsk, LastScreens, OnlyHolder, OnOne
    <3>4. About' /\ NoneHeld'
      BY <1>1, <2>1, <2>3, <2>5, <3>1, <3>2 DEF CheckoutInv, About, NoneHeld, Making
    <3> QED
      BY <1>1, <3>2, <3>3, <3>4, TurnsKeep
  <2>6. CASE ~(screen.at = "payment" /\ screen.review)
    <3>1. screen' \in Screenings /\ screen'.at = "away" /\ screen'.resume = 0
      BY <2>1, <2>4, <2>6, CheckoutShapes DEF Screenings
    <3> QED
      BY <1>1, <2>1, <2>2, <2>3, <3>1, AwayKeeps
  <2> QED
    BY <2>5, <2>6
<1> QED
  BY <1>4, <1>5

(* What a screen that opens has to be told, for the invariant to hold.     *)
LEMMA ShowKeeps ==
  ASSUME CheckoutInv, NEW at \in {"payment", "bank", "processing", "awaiting", "failed", "confirmed", "lost"},
         NEW g \in Checkout!Held, Checkout!Show(at, g),
         UNCHANGED <<booking, taken, missed>>,
         price' \in Prices, paying' \in Payings, leaving' \in Leavings, sending' \in Sendings,
         price'.at = "idle", paying'.at = "idle",
         leaving'.at # "idle" => leaving'.group # 0,
         \/ sending' = Checkout!Idle
         \/ sending' = sending /\ (at = "bank" => screen.at = "bank" /\ g = screen.group),
         at \in OnOne => OnlyHolder(g),
         at = "awaiting" => booking[g].receipt,
         at = "confirmed" => booking[g].sold,
         at \in {"payment", "failed"} /\ Checkout!Current = 0 => "create" \in missed \/ Holds = {},
         at = "lost" => "create" \in missed \/ Holds = {}
  PROVE  CheckoutInv'
<1>1. /\ screen' \in Screenings /\ screen'.at = at /\ screen'.group = g /\ ~screen'.over
      /\ screen'.resume = screen.resume
      /\ remembered' = (IF at \in {"processing", "awaiting", "confirmed", "lost"} THEN 0 ELSE remembered)
      /\ remembered' \in Checkout!Held
  BY ShowOpens
<1>2. Checkout!TypeOK'
  BY <1>1, CheckoutTyped, CheckoutTypedNext DEF CheckoutInv
<1>3. Holds' = Holds
  BY HoldsStay
<1>4. Checkout!Current' = (IF remembered' = remembered THEN Checkout!Current ELSE screen.resume)
  BY <1>1 DEF Checkout!Current, Checkout!NoGroup
<1>5. Checkout!Current' # 0 => Checkout!Current' = Checkout!Current
  BY <1>4 DEF Checkout!Current, Checkout!NoGroup
<1>6. sending'.at \in InFlight => sending' = sending
  BY CheckoutShapes DEF InFlight
<1>7. InHand'
  BY <1>1, <1>3, <1>5, <1>6 DEF CheckoutInv, InHand, OnlyHolder
<1>8. Forgotten' /\ LastScreens'
  BY <1>1 DEF CheckoutInv, Forgotten, LastScreens
<1>9. OneAsk'
  BY DEF OneAsk
<1>10. About'
  BY <1>1, CheckoutShapes DEF CheckoutInv, About, Making
<1>11. NoneHeld'
  BY <1>1, <1>3, <1>4 DEF NoneHeld
<1> QED
  BY <1>2, <1>7, <1>8, <1>9, <1>10, <1>11, TurnsKeep

(* The requests as they are, in the form ShowKeeps asks for.               *)
LEMMA AsTheyAre ==
  ASSUME CheckoutInv
  PROVE  /\ price \in Prices /\ paying \in Payings /\ leaving \in Leavings /\ sending \in Sendings
         /\ leaving.at # "idle" => leaving.group # 0
BY CheckoutTyped DEF CheckoutInv, About

LEMMA ContinueKeeps ==
  ASSUME CheckoutInv, Checkout!Continue \/ Checkout!TryAgain
  PROVE  CheckoutInv'
<1>1. /\ Checkout!Show("payment", 0) /\ Checkout!Calm
      /\ UNCHANGED <<booking, taken, price, paying, leaving, sending, missed>>
      /\ screen.at = "review" \/ (screen.at = "failed" /\ ~screen.over)
  BY DEF Checkout!Continue, Checkout!TryAgain, Checkout!NoGroup
<1>2. paying.at = "idle" /\ price.at = "idle"
  BY <1>1, CalmIs
<1>3. Checkout!Current = 0 => "create" \in missed \/ Holds = {}
  BY <1>1, <1>2 DEF CheckoutInv, NoneHeld
<1> HIDE DEF CheckoutInv
<1>4. 0 \in Checkout!Held /\ "payment" \notin OnOne
  BY CheckoutNumbers DEF OnOne
<1> QED
  BY <1>1, <1>2, <1>3, <1>4, AsTheyAre, ShowKeeps

(* The preview: a time that is taken opens Slot lost.                      *)
LEMMA PriceAnsweredKeeps ==
  ASSUME CheckoutInv, Checkout!PriceAnswered
  PROVE  CheckoutInv'
<1>1. UNCHANGED <<booking, taken, paying, leaving, sending, missed>> /\ price.at # "idle"
  BY DEF Checkout!PriceAnswered
<1>2. price' \in Prices /\ price'.at = "idle"
  <2>1. price \in Prices
    BY AsTheyAre
  <2>2. CASE price.at = "ok"
    <3>1. price' = [price EXCEPT !.at = "idle", !.shown = TRUE,
                      !.code = IF @ = "trying" THEN "applied" ELSE @]
      BY <2>2 DEF Checkout!PriceAnswered
    <3> QED
      BY <2>1, <3>1 DEF Prices
  <2>3. CASE price.at # "ok"
    <3>1. price' = [price EXCEPT !.at = "idle", !.code = IF @ = "trying" THEN "none" ELSE @]
      BY <2>3 DEF Checkout!PriceAnswered
    <3> QED
      BY <2>1, <3>1 DEF Prices
  <2> QED
    BY <2>2, <2>3
<1>3. /\ paying.at = "idle" /\ screen.at \in {"review", "payment", "lost"} /\ Checkout!Current = 0
      /\ "create" \in missed \/ Holds = {}
  BY <1>1 DEF CheckoutInv, OneAsk, NoneHeld
<1>4. CASE Checkout!Show("lost", 0)
  <2>1. 0 \in Checkout!Held /\ "lost" \notin OnOne
    BY CheckoutNumbers DEF OnOne
  <2> QED
    BY <1>1, <1>2, <1>3, <1>4, <2>1, AsTheyAre, ShowKeeps
<1>5. CASE UNCHANGED <<screen, remembered>>
  <2>1. Checkout!TypeOK' /\ Checkout!Current' = Checkout!Current
    BY <1>1, <1>2, <1>5, CheckoutTyped, CheckoutTypedNext DEF CheckoutInv, Checkout!Current
  <2>2. OneAsk' /\ About' /\ MadeIsKept /\ (sending'.at \in InFlight => OnlyHolder(sending'.group))
    BY <1>1, <1>2, <1>3, <1>5, <2>1 DEF CheckoutInv, OneAsk, About, MadeIsKept, InHand
  <2> QED
    BY <1>1, <1>5, <2>1, <2>2, BooksStay
<1> QED
  BY <1>4, <1>5 DEF Checkout!PriceAnswered, Checkout!NoGroup

(* A price asked below: in vain, or for times that nobody of theirs holds. *)
LEMMA BelowAnsweredKeeps ==
  ASSUME CheckoutInv, Checkout!BelowAnswered, "again" \notin missed'
  PROVE  CheckoutInv'
<1>1. /\ UNCHANGED <<booking, taken, paying, leaving, sending>>
      /\ price' = [price EXCEPT !.below = "idle"]
  BY DEF Checkout!BelowAnswered
<1>2. price' \in Prices /\ price'.at = price.at
  BY <1>1, CheckoutTyped DEF CheckoutInv, Prices
<1>3. CASE UNCHANGED <<screen, remembered, missed>>
  <2>1. Checkout!TypeOK' /\ Checkout!Current' = Checkout!Current
    BY <1>1, <1>2, <1>3, CheckoutTyped, CheckoutTypedNext DEF CheckoutInv, Checkout!Current
  <2>2. OneAsk' /\ About' /\ MadeIsKept /\ (sending'.at \in InFlight => OnlyHolder(sending'.group))
    BY <1>1, <1>2, <1>3, <2>1 DEF CheckoutInv, OneAsk, About, MadeIsKept, InHand
  <2> QED
    BY <1>1, <1>3, <2>1, <2>2, BooksStay
<1>4. CASE ~UNCHANGED <<screen, remembered, missed>>
  <2>1. /\ Checkout!Show("lost", 0) /\ ~Checkout!OwnHold /\ paying.at = "idle"
        /\ missed' = missed
    BY <1>4 DEF Checkout!BelowAnswered, Checkout!NoGroup
  <2>2. Holds' = {} /\ Holds = {}
    BY <1>1, <2>1, HoldsStay DEF Holds, Checkout!OwnHold
  <2>3. /\ screen' \in Screenings /\ screen'.at = "lost" /\ screen'.resume = screen.resume
        /\ remembered' = 0
    BY <2>1, ShowOpens, CheckoutNumbers
  <2>4. Checkout!TypeOK'
    BY <1>1, <1>2, <2>1, <2>3, CheckoutNumbers, CheckoutTyped, CheckoutTypedNext DEF CheckoutInv
  <2>5. /\ Checkout!Current' # 0 => Checkout!Current' = Checkout!Current
        /\ Checkout!Current = 0 => Checkout!Current' = 0
    BY <2>3 DEF Checkout!Current, Checkout!NoGroup
  <2>6. InHand' /\ Forgotten' /\ LastScreens' /\ NoneHeld'
    BY <1>1, <2>1, <2>2, <2>3, <2>5
    DEF CheckoutInv, InHand, Forgotten, LastScreens, NoneHeld, OnlyHolder, OnOne
  <2>7. OneAsk' /\ About'
    BY <1>1, <1>2, <2>1, <2>3, <2>5 DEF CheckoutInv, OneAsk, About, Making
  <2> QED
    BY <1>1, <2>4, <2>6, <2>7, TurnsKeep
<1> QED
  BY <1>3, <1>4

(* createBooking is answered.                                              *)
LEMMA CreatedKeeps ==
  ASSUME CheckoutInv, Checkout!Created
  PROVE  CheckoutInv'
<1>1. UNCHANGED <<booking, taken, leaving, sending, missed>> /\ paying.at \in {"made", "taken", "refused", "unmade"}
  BY DEF Checkout!Created
<1>2. /\ screen.at = "payment" /\ price.at = "idle" /\ Checkout!Current = 0
      /\ leaving.at \in {"idle", "sheet"} /\ sending.at \notin InFlight
  BY <1>1 DEF CheckoutInv, OneAsk, About, Making
<1>3. CASE paying.at = "made"
  <2>1. /\ remembered' = paying.group /\ paying' = [paying EXCEPT !.at = "initiate"]
        /\ UNCHANGED <<screen, price>>
    BY <1>3 DEF Checkout!Created
  <2>2. OnlyHolder(paying.group) /\ paying \in Payings /\ screen.resume = 0
    BY <1>2, <1>3, AsTheyAre DEF CheckoutInv, InHand, Checkout!Current, Checkout!NoGroup
  <2>3. paying' \in Payings /\ paying'.at = "initiate" /\ paying'.group = paying.group
    BY <2>1, <2>2 DEF Payings, Making
  <2>4. paying.group \in Checkout!Groups /\ paying.group # 0 /\ paying.group \in Checkout!Held
    BY <2>2, CheckoutNumbers DEF OnlyHolder
  <2>5. Checkout!Current' = paying.group /\ Holds' = Holds
    BY <1>1, <2>1, <2>2, HoldsStay DEF Checkout!Current, Checkout!NoGroup
  <2>6. Checkout!TypeOK'
    BY <1>1, <2>1, <2>3, <2>4, CheckoutTyped, CheckoutTypedNext DEF CheckoutInv
  <2>7. InHand' /\ Forgotten' /\ OneAsk' /\ LastScreens'
    BY <1>1, <1>2, <2>1, <2>2, <2>3, <2>5, CheckoutNumbers
    DEF CheckoutInv, InHand, Forgotten, OneAsk, LastScreens, OnlyHolder
  <2>8. About' /\ NoneHeld'
    BY <1>1, <1>2, <2>1, <2>3, <2>4, <2>5 DEF CheckoutInv, About, NoneHeld, Making
  <2> QED
    BY <1>1, <2>6, <2>7, <2>8, TurnsKeep
<1>4. CASE paying.at = "taken"
  <2>1. Checkout!Show("lost", 0) /\ paying' = Checkout!Idle /\ UNCHANGED price
    BY <1>4 DEF Checkout!Created, Checkout!NoGroup
  <2>2. "create" \in missed \/ Holds = {}
    BY <1>2, <1>4 DEF CheckoutInv, NoneHeld
  <2>3. 0 \in Checkout!Held /\ "lost" \notin OnOne
    BY CheckoutNumbers DEF OnOne
  <2> QED
    BY <1>1, <1>2, <2>1, <2>2, <2>3, AsTheyAre, CheckoutShapes, ShowKeeps
<1>5. CASE paying.at \in {"refused", "unmade"}
  <2>1. /\ \E c \in {"none", price.code} : price' = [price EXCEPT !.code = c]
        /\ paying' = Checkout!Idle /\ UNCHANGED <<screen, remembered>>
    BY <1>5 DEF Checkout!Created
  <2>2. price' \in Prices /\ price'.at = "idle"
    BY <1>2, <2>1, AsTheyAre DEF Prices
  <2>3. Checkout!TypeOK' /\ Checkout!Current' = Checkout!Current
    BY <1>1, <2>1, <2>2, CheckoutShapes, CheckoutTyped, CheckoutTypedNext DEF CheckoutInv, Checkout!Current
  <2>4. OneAsk' /\ About' /\ MadeIsKept /\ (sending'.at \in InFlight => OnlyHolder(sending'.group))
    BY <1>1, <1>2, <1>5, <2>1, <2>2, <2>3, CheckoutShapes
    DEF CheckoutInv, OneAsk, About, MadeIsKept, InHand, Making
  <2> QED
    BY <1>1, <2>1, <2>3, <2>4, BooksStay
<1> QED
  BY <1>1, <1>3, <1>4, <1>5

(* Where a started payment goes.                                           *)
LEMMA ProceedKeeps ==
  ASSUME CheckoutInv, NEW m, NEW page \in BOOLEAN, Checkout!Proceed(m, page),
         paying.at \in {"started", "found"}, UNCHANGED <<taken, price, leaving, missed>>
  PROVE  CheckoutInv'
<1> DEFINE g == paying.group
<1>1. /\ screen.at = "payment" /\ price.at = "idle" /\ leaving.at \in {"idle", "sheet"} /\ sending.at \notin InFlight
      /\ g = Checkout!Current /\ g # 0 /\ OnlyHolder(g) /\ g \in Checkout!Groups /\ g \in Checkout!Held
      /\ paying \in Payings
  BY AsTheyAre, CheckoutNumbers DEF CheckoutInv, OneAsk, About, InHand, OnlyHolder, Making
<1>2. CASE m = "bank"
  <2>1. Checkout!Show("bank", g) /\ paying' = Checkout!Idle /\ sending' = Checkout!Idle /\ UNCHANGED booking
    BY <1>2 DEF Checkout!Proceed
  <2> HIDE DEF g
  <2> QED
    BY <1>1, <2>1, AsTheyAre, CheckoutShapes, ShowKeeps
<1>3. CASE m = "card" /\ page
  <2> DEFINE b == [booking[g] EXCEPT !.opened = TRUE]
  <2>1. /\ paying' = [paying EXCEPT !.at = "page"]
        /\ booking' = [booking EXCEPT ![g].opened = TRUE] /\ UNCHANGED <<screen, remembered, sending>>
    BY <1>3 DEF Checkout!Proceed
  <2>2. paying' \in Payings /\ paying'.at = "page" /\ paying'.group = g
    BY <1>1, <2>1 DEF Payings, Making
  <2> HIDE DEF g
  <2>3. booking' = [booking EXCEPT ![g] = b] /\ b \in Bookings
    BY <1>1, <2>1, CheckoutTyped DEF CheckoutInv, Bookings
  <2>4. /\ b.status = booking[g].status /\ b.pay = booking[g].pay
        /\ b.receipt = booking[g].receipt /\ b.sold = booking[g].sold
    BY <1>1, OneBooking DEF Bookings
  <2> HIDE DEF b
  <2>5. booking' \in [Checkout!Groups -> Bookings]
    BY <1>1, <2>3, <2>4, BookingChanges
  <2>6. Checkout!TypeOK' /\ Checkout!Current' = Checkout!Current
    BY <2>1, <2>2, <2>5, CheckoutTyped, CheckoutTypedNext DEF CheckoutInv, Checkout!Current
  <2>7. OneAsk' /\ About' /\ MadeIsKept /\ (sending'.at \in InFlight => OnlyHolder(sending'.group))
    BY <1>1, <2>1, <2>2, <2>6 DEF CheckoutInv, OneAsk, About, MadeIsKept, InHand, Making, InFlight
  <2>8. /\ b.pay = "pending" => b.status \in {"pending_payment", "pending_approval"}
        /\ b.status = "pending_approval" => b.receipt
        /\ b.sold <=> b.status = "confirmed"
    BY <1>1, <2>4, OneBooking
  <2> QED
    BY <1>1, <2>1, <2>3, <2>4, <2>6, <2>7, <2>8, ServerKeeps
<1>4. CASE ~(m = "bank") /\ ~(m = "card" /\ page)
  <2>1. Checkout!Show("processing", g) /\ paying' = Checkout!Idle /\ UNCHANGED <<booking, sending>>
    BY <1>4 DEF Checkout!Proceed
  <2> HIDE DEF g
  <2> QED
    BY <1>1, <2>1, AsTheyAre, CheckoutShapes, ShowKeeps
<1> QED
  BY <1>2, <1>3, <1>4

(* initiate is answered, or the payment it found, or the card page closes. *)
LEMMA InitiatedKeeps ==
  ASSUME CheckoutInv, Checkout!Initiated \/ Checkout!ExistingFound \/ Checkout!PageClosed
  PROVE  CheckoutInv'
<1> DEFINE g == paying.group
<1>1. UNCHANGED <<taken, price, leaving, missed>> /\ paying.at # "idle" /\ paying.at \notin Making
  BY DEF Checkout!Initiated, Checkout!ExistingFound, Checkout!PageClosed, Making
<1>2. /\ screen.at = "payment" /\ price.at = "idle" /\ leaving.at \in {"idle", "sheet"} /\ sending.at \notin InFlight
      /\ g = Checkout!Current /\ g # 0 /\ OnlyHolder(g) /\ g \in Checkout!Groups /\ g \in Checkout!Held
      /\ paying \in Payings
  BY <1>1, AsTheyAre, CheckoutNumbers DEF CheckoutInv, OneAsk, About, InHand, OnlyHolder
<1>3. CASE \/ paying.at = "started" /\ Checkout!Proceed(paying.method, paying.method = "card")
           \/ paying.at = "found" /\ Checkout!Proceed(booking[paying.group].method, FALSE)
  BY <1>1, <1>3, ProceedKeeps
<1>4. CASE paying' = [paying EXCEPT !.at = "existing"] /\ UNCHANGED <<booking, screen, remembered, sending>>
  <2>1. paying' \in Payings /\ paying'.at = "existing" /\ paying'.group = g
    BY <1>2, <1>4 DEF Payings, Making
  <2>2. Checkout!TypeOK' /\ Checkout!Current' = Checkout!Current
    BY <1>1, <1>4, <2>1, CheckoutTyped, CheckoutTypedNext DEF CheckoutInv, Checkout!Current
  <2>3. OneAsk' /\ About' /\ MadeIsKept /\ (sending'.at \in InFlight => OnlyHolder(sending'.group))
    BY <1>1, <1>2, <1>4, <2>1, <2>2 DEF CheckoutInv, OneAsk, About, MadeIsKept, InHand, Making
  <2> QED
    BY <1>1, <1>4, <2>2, <2>3, BooksStay
<1>5. CASE paying' = Checkout!Idle /\ UNCHANGED <<booking, screen, remembered, sending>>
  <2>1. Checkout!TypeOK' /\ Checkout!Current' = Checkout!Current
    BY <1>1, <1>5, CheckoutShapes, CheckoutTyped, CheckoutTypedNext DEF CheckoutInv, Checkout!Current
  <2>2. OneAsk' /\ About' /\ MadeIsKept /\ (sending'.at \in InFlight => OnlyHolder(sending'.group))
    BY <1>1, <1>2, <1>5, <2>1, CheckoutShapes DEF CheckoutInv, OneAsk, About, MadeIsKept, InHand, Making
  <2> QED
    BY <1>1, <1>5, <2>1, <2>2, BooksStay
<1>6. CASE \E at \in {"failed", "processing"} :
             Checkout!Show(at, g) /\ paying' = Checkout!Idle /\ UNCHANGED <<booking, sending>>
  <2> HIDE DEF g
  <2> QED
    BY <1>1, <1>2, <1>6, AsTheyAre, CheckoutShapes, ShowKeeps
<1>7. \/ \/ paying.at = "started" /\ Checkout!Proceed(paying.method, paying.method = "card")
         \/ paying.at = "found" /\ Checkout!Proceed(booking[paying.group].method, FALSE)
      \/ paying' = [paying EXCEPT !.at = "existing"] /\ UNCHANGED <<booking, screen, remembered, sending>>
      \/ paying' = Checkout!Idle /\ UNCHANGED <<booking, screen, remembered, sending>>
      \/ Checkout!Show("failed", g) /\ paying' = Checkout!Idle /\ UNCHANGED <<booking, sending>>
      \/ Checkout!Show("processing", g) /\ paying' = Checkout!Idle /\ UNCHANGED <<booking, sending>>
  BY Zenon DEF Checkout!Initiated, Checkout!ExistingFound, Checkout!PageClosed
<1> HIDE DEF g
<1> QED
  BY <1>3, <1>4, <1>5, <1>6, <1>7

(* The receipt is in: Awaiting opens in place of whatever is on top.       *)
LEMMA SentKeeps ==
  ASSUME CheckoutInv, Checkout!Sent
  PROVE  CheckoutInv'
<1> DEFINE g == sending.group
<1>1. /\ Checkout!Show("awaiting", g) /\ sending' = Checkout!Idle /\ sending.at = "sent"
      /\ UNCHANGED <<booking, taken, price, paying, leaving, missed>>
  BY DEF Checkout!Sent
<1>2. paying.at = "idle" /\ price.at = "idle" /\ OnlyHolder(g) /\ booking[g].receipt
  BY <1>1 DEF CheckoutInv, OneAsk, About, InHand, InFlight
<1>3. g \in Checkout!Held
  BY <1>2, CheckoutNumbers DEF OnlyHolder
<1> HIDE DEF g
<1> QED
  BY <1>1, <1>2, <1>3, AsTheyAre, CheckoutShapes, ShowKeeps

(* The screens that load their booking open the one that fits, or know     *)
(* that the time was let go.                                               *)
LEMMA LookKeeps ==
  ASSUME CheckoutInv, Checkout!Look
  PROVE  CheckoutInv'
<1> DEFINE g == screen.group
<1>1. /\ UNCHANGED <<booking, taken, price, paying, leaving, sending, missed>>
      /\ screen.at \in {"bank", "processing", "awaiting", "failed"}
  BY DEF Checkout!Look
<1>2. paying.at = "idle" /\ price.at = "idle" /\ OnlyHolder(g) /\ g \in Checkout!Groups /\ g \in Checkout!Held
  BY <1>1, CheckoutNumbers DEF CheckoutInv, OneAsk, InHand, OnlyHolder, OnOne
<1>3. \/ booking[g].status = "pending_approval" /\ Checkout!Show("awaiting", g)
      \/ booking[g].status = "confirmed" /\ Checkout!Show("confirmed", g)
      \/ booking[g].status \in Checkout!Ended /\ Checkout!Show("failed", g)
      \/ screen.at = "failed" /\ screen' = [screen EXCEPT !.over = TRUE] /\ remembered' = 0
  BY DEF Checkout!Look, Checkout!NoGroup
<1> HIDE DEF g
<1>4. CASE booking[g].status = "pending_approval" /\ Checkout!Show("awaiting", g)
  BY <1>1, <1>2, <1>4, OneBooking, AsTheyAre, ShowKeeps
<1>5. CASE booking[g].status = "confirmed" /\ Checkout!Show("confirmed", g)
  BY <1>1, <1>2, <1>5, OneBooking, AsTheyAre, ShowKeeps
<1>6. CASE booking[g].status \in Checkout!Ended /\ Checkout!Show("failed", g)
  <2>1. Holds = {}
    BY <1>2, <1>6 DEF Holds, OnlyHolder, Checkout!Holding, Checkout!Ended
  <2> QED
    BY <1>1, <1>2, <1>6, <2>1, AsTheyAre, ShowKeeps
<1>7. CASE screen.at = "failed" /\ screen' = [screen EXCEPT !.over = TRUE] /\ remembered' = 0
  <2>1. screen \in Screenings
    BY CheckoutTyped DEF CheckoutInv
  <2>2. /\ screen' \in Screenings /\ screen'.at = "failed" /\ screen'.over
        /\ screen'.group = screen.group /\ screen'.resume = screen.resume
    BY <1>7, <2>1 DEF Screenings
  <2>3. Checkout!TypeOK'
    BY <1>1, <1>7, <2>2, CheckoutNumbers, CheckoutTyped, CheckoutTypedNext DEF CheckoutInv
  <2>4. Holds' = Holds /\ (Checkout!Current' # 0 => Checkout!Current' = Checkout!Current)
    BY <1>1, <1>7, <2>2, HoldsStay DEF Checkout!Current, Checkout!NoGroup
  <2>5. InHand' /\ Forgotten' /\ LastScreens' /\ NoneHeld'
    BY <1>1, <1>2, <1>7, <2>2, <2>4 DEF CheckoutInv, InHand, Forgotten, LastScreens, NoneHeld, OnlyHolder, OnOne
  <2>6. OneAsk' /\ About'
    BY <1>1, <1>2, <1>7, <2>2 DEF CheckoutInv, OneAsk, About, Making
  <2> QED
    BY <1>1, <2>3, <2>5, <2>6, TurnsKeep
<1> QED
  BY <1>3, <1>4, <1>5, <1>6, <1>7

(***************************************************************************)
(* The checkout as a whole.                                                *)
(***************************************************************************)

LEMMA CheckoutInit == Checkout!Init => CheckoutInv
<1> SUFFICES ASSUME Checkout!Init PROVE CheckoutInv
  OBVIOUS
<1>1. /\ booking = [g \in Checkout!Groups |-> Checkout!NoBooking] /\ taken = FALSE /\ screen = Checkout!Away
      /\ remembered = 0 /\ price = Checkout!NoPrice /\ missed = {}
      /\ paying = Checkout!Idle /\ leaving = Checkout!Idle /\ sending = Checkout!Idle
  BY DEF Checkout!Init, Checkout!NoGroup
<1>2. /\ Checkout!NoBooking \in Bookings /\ Checkout!NoBooking.status = "none"
      /\ Checkout!NoBooking.pay = "none" /\ ~Checkout!NoBooking.sold
  BY DEF Checkout!NoBooking, Bookings
<1>3. Checkout!TypeOK
  BY <1>1, <1>2, CheckoutTyped, CheckoutShapes, CheckoutNumbers
<1>4. BooksAgree
  BY <1>1, <1>2 DEF BooksAgree
<1>5. Holds = {} /\ Checkout!Current = 0
  BY <1>1, <1>2, CheckoutShapes DEF Holds, Checkout!Holding, Checkout!Current
<1>6. OneHolds /\ InHand /\ Forgotten /\ OneAsk /\ About /\ LastScreens /\ NoneHeld
  BY <1>1, <1>5, CheckoutShapes
  DEF OneHolds, InHand, Forgotten, OneAsk, About, LastScreens, NoneHeld, OnOne, InFlight, Making
<1> QED
  BY <1>3, <1>4, <1>6 DEF CheckoutInv

(***************************************************************************)
(* What holds whatever the screens below have asked for.                   *)
(***************************************************************************)

(* Every request that needs a booking has one.                             *)
Requests ==
  /\ paying.at \notin (Making \ {"made"}) \union {"idle"} => paying.group \in Checkout!Groups
  /\ leaving.at # "idle" => leaving.group \in Checkout!Groups
  /\ sending.at # "idle" => sending.group \in Checkout!Groups
  /\ sending.at = "sent" => booking[sending.group].receipt

(* The screens are about a booking, and tell the truth of it.              *)
OnTheirOwn ==
  /\ screen.at \in OnOne => screen.group \in Checkout!Groups
  /\ LastScreens

Grounded == Checkout!TypeOK /\ BooksAgree /\ Requests /\ OnTheirOwn

(* No receipt is taken back, and nothing sold is unsold.                   *)
BooksGrow ==
  \A g \in Checkout!Groups : /\ booking[g].receipt => booking'[g].receipt
                             /\ booking[g].sold => booking'[g].sold

(* One booking moves.                                                      *)
LEMMA BookMoves ==
  ASSUME Grounded, NEW g \in Checkout!Groups, NEW b \in Bookings, booking' = [booking EXCEPT ![g] = b],
         b.pay = "pending" => b.status \in {"pending_payment", "pending_approval"},
         b.status = "pending_approval" => b.receipt,
         b.sold <=> b.status = "confirmed",
         booking[g].receipt => b.receipt, booking[g].sold => b.sold
  PROVE  booking' \in [Checkout!Groups -> Bookings] /\ BooksAgree' /\ BooksGrow
<1>1. booking \in [Checkout!Groups -> Bookings]
  BY CheckoutTyped DEF Grounded
<1> QED
  BY <1>1 DEF Grounded, BooksAgree, BooksGrow

(* The server's steps, and the card page.                                  *)
LEMMA BooksMove ==
  ASSUME Grounded, Checkout!Next
  PROVE  booking' \in [Checkout!Groups -> Bookings] /\ BooksAgree' /\ BooksGrow
<1>1. booking \in [Checkout!Groups -> Bookings] /\ paying \in Payings
  BY CheckoutTyped DEF Grounded
<1>a. \A g \in Checkout!Groups :
        /\ booking[g] \in Bookings
        /\ booking[g].pay = "pending" => booking[g].status \in {"pending_payment", "pending_approval"}
        /\ booking[g].status = "pending_approval" => booking[g].receipt
        /\ booking[g].sold <=> booking[g].status = "confirmed"
  BY <1>1 DEF Grounded, BooksAgree
<1>2. CASE UNCHANGED booking
  BY <1>1, <1>2 DEF Grounded, BooksAgree, BooksGrow
<1>3. ASSUME NEW g \in Checkout!Groups, booking[g].status = "pending_payment",
             booking' = [booking EXCEPT ![g].status = "cancelled",
                           ![g].pay = IF @ = "pending" THEN "failed" ELSE @]
      PROVE  booking' \in [Checkout!Groups -> Bookings] /\ BooksAgree' /\ BooksGrow
  <2> DEFINE b == [booking[g] EXCEPT !.status = "cancelled", !.pay = IF @ = "pending" THEN "failed" ELSE @]
  <2>1. booking' = [booking EXCEPT ![g] = b]
    BY <1>1, <1>3 DEF Bookings
  <2>2. b \in Bookings /\ b.status = "cancelled" /\ b.pay # "pending" /\ b.receipt = booking[g].receipt /\ ~b.sold
        /\ ~booking[g].sold
    BY <1>3, <1>a DEF Bookings, Checkout!Ended
  <2> HIDE DEF b
  <2> QED
    BY <2>1, <2>2, BookMoves
<1>4. ASSUME NEW g \in Checkout!Groups, NEW yes \in BOOLEAN, NEW s \in {"cancelled", "rejected"},
             booking[g].status \in {"pending_payment", "pending_approval"},
             booking' = [booking EXCEPT ![g].status = IF yes THEN "confirmed" ELSE s,
                           ![g].pay = IF yes THEN "completed" ELSE "failed", ![g].sold = yes]
      PROVE  booking' \in [Checkout!Groups -> Bookings] /\ BooksAgree' /\ BooksGrow
  <2> DEFINE b == [booking[g] EXCEPT !.status = IF yes THEN "confirmed" ELSE s,
                     !.pay = IF yes THEN "completed" ELSE "failed", !.sold = yes]
  <2>1. booking' = [booking EXCEPT ![g] = b]
    BY <1>1, <1>4 DEF Bookings
  <2>2. /\ b \in Bookings /\ b.status # "pending_approval" /\ b.pay # "pending"
        /\ b.receipt = booking[g].receipt /\ (b.sold <=> b.status = "confirmed") /\ ~booking[g].sold
    BY <1>4, <1>a DEF Bookings, Checkout!Holding, Checkout!Ended
  <2> HIDE DEF b
  <2> QED
    BY <2>1, <2>2, BookMoves
<1>5. CASE Checkout!World
  <2>1. CASE Checkout!Others
    BY <2>1, <1>2 DEF Checkout!Others
  <2>2. ASSUME NEW g \in Checkout!Groups, Checkout!Sweep(g)
        PROVE  booking' \in [Checkout!Groups -> Bookings] /\ BooksAgree' /\ BooksGrow
    BY <2>2, <1>3 DEF Checkout!Sweep
  <2>3. ASSUME NEW g \in Checkout!Groups, NEW yes \in BOOLEAN, Checkout!Settle(g, yes)
        PROVE  booking' \in [Checkout!Groups -> Bookings] /\ BooksAgree' /\ BooksGrow
    BY <2>3, <1>4 DEF Checkout!Settle
  <2>4. ASSUME NEW g \in Checkout!Groups, NEW yes \in BOOLEAN, Checkout!Decide(g, yes)
        PROVE  booking' \in [Checkout!Groups -> Bookings] /\ BooksAgree' /\ BooksGrow
    BY <2>4, <1>4 DEF Checkout!Decide
  <2> QED
    BY <1>5, <2>1, <2>2, <2>3, <2>4 DEF Checkout!World
<1>6. CASE Checkout!ServeRelease
  BY <1>2, <1>3, <1>6 DEF Checkout!ServeRelease, Grounded, Requests
<1>7. CASE Checkout!ServeCreate
  <2>1. SUFFICES ASSUME NEW g \in Checkout!Groups, booking[g].status = "none",
                        booking' = [booking EXCEPT ![g].status = "pending_payment"]
                 PROVE  booking' \in [Checkout!Groups -> Bookings] /\ BooksAgree' /\ BooksGrow
    BY <1>2, <1>7 DEF Checkout!ServeCreate
  <2> DEFINE b == [booking[g] EXCEPT !.status = "pending_payment"]
  <2>2. booking' = [booking EXCEPT ![g] = b]
    BY <1>1, <2>1 DEF Bookings
  <2>3. /\ b \in Bookings /\ b.status = "pending_payment" /\ ~b.sold /\ ~booking[g].sold
        /\ b.receipt = booking[g].receipt
    BY <2>1, <1>a DEF Bookings, Checkout!Holding
  <2> HIDE DEF b
  <2> QED
    BY <2>2, <2>3, BookMoves
<1>8. CASE Checkout!ServeInitiate
  <2> DEFINE g == paying.group
  <2>1. SUFFICES ASSUME booking[g].status = "pending_payment",
                        booking' = [booking EXCEPT ![g].method = paying.method, ![g].pay = "pending"]
                 PROVE  booking' \in [Checkout!Groups -> Bookings] /\ BooksAgree' /\ BooksGrow
    BY <1>2, <1>8 DEF Checkout!ServeInitiate
  <2>2. g \in Checkout!Groups /\ paying.method \in Checkout!Methods
    BY <1>1, <1>8 DEF Checkout!ServeInitiate, Grounded, Requests, Making, Payings
  <2> HIDE DEF g
  <2> DEFINE b == [booking[g] EXCEPT !.method = paying.method, !.pay = "pending"]
  <2>3. booking' = [booking EXCEPT ![g] = b]
    BY <1>1, <2>1, <2>2 DEF Bookings
  <2>4. /\ b \in Bookings /\ b.status = "pending_payment" /\ ~b.sold /\ ~booking[g].sold
        /\ b.receipt = booking[g].receipt
    BY <2>1, <2>2, <1>a DEF Bookings
  <2> HIDE DEF b
  <2> QED
    BY <2>2, <2>3, <2>4, BookMoves
<1>9. CASE Checkout!ServeReceipt
  <2> DEFINE g == sending.group
  <2>1. SUFFICES ASSUME booking[g].pay = "pending",
                        booking' = [booking EXCEPT ![g].receipt = TRUE, ![g].status = "pending_approval"]
                 PROVE  booking' \in [Checkout!Groups -> Bookings] /\ BooksAgree' /\ BooksGrow
    BY <1>2, <1>9 DEF Checkout!ServeReceipt
  <2>2. g \in Checkout!Groups
    BY <1>9 DEF Checkout!ServeReceipt, Grounded, Requests
  <2> HIDE DEF g
  <2> DEFINE b == [booking[g] EXCEPT !.receipt = TRUE, !.status = "pending_approval"]
  <2>3. booking' = [booking EXCEPT ![g] = b]
    BY <1>1, <2>1, <2>2 DEF Bookings
  <2>4. b \in Bookings /\ b.status = "pending_approval" /\ b.receipt /\ ~b.sold /\ ~booking[g].sold
    BY <2>1, <2>2, <1>a DEF Bookings, Checkout!Holding
  <2> HIDE DEF b
  <2> QED
    BY <2>2, <2>3, <2>4, BookMoves
<1>10. CASE Checkout!Initiated \/ Checkout!ExistingFound
  <2> DEFINE g == paying.group
  <2>1. SUFFICES ASSUME booking' = [booking EXCEPT ![g].opened = TRUE]
                 PROVE  booking' \in [Checkout!Groups -> Bookings] /\ BooksAgree' /\ BooksGrow
    BY <1>2, <1>10 DEF Checkout!Initiated, Checkout!ExistingFound, Checkout!Proceed
  <2>2. g \in Checkout!Groups
    BY <1>10 DEF Checkout!Initiated, Checkout!ExistingFound, Grounded, Requests, Making
  <2> HIDE DEF g
  <2> DEFINE b == [booking[g] EXCEPT !.opened = TRUE]
  <2>3. booking' = [booking EXCEPT ![g] = b] /\ b \in Bookings
    BY <1>1, <2>1, <2>2, <1>a DEF Bookings
  <2>4. /\ b.status = booking[g].status /\ b.pay = booking[g].pay
        /\ b.receipt = booking[g].receipt /\ b.sold = booking[g].sold
    BY <2>2, <1>a DEF Bookings
  <2> HIDE DEF b
  <2> QED
    BY <2>2, <2>3, <2>4, <1>a, BookMoves
<1>11. CASE ~UNCHANGED booking
  <2>1. \/ Checkout!World \/ Checkout!ServeRelease \/ Checkout!ServeCreate \/ Checkout!ServeInitiate
        \/ Checkout!ServeReceipt \/ Checkout!Initiated \/ Checkout!ExistingFound
    <3>1. ~Checkout!Pricing
      BY <1>11 DEF Checkout!Pricing, Checkout!Open, Checkout!Resume, Checkout!AskPrice, Checkout!ServePrice,
         Checkout!PriceFails, Checkout!PriceAnswered, Checkout!Continue, Checkout!AskBelow,
         Checkout!ServeBelow, Checkout!BelowAnswered
    <3>2. Checkout!Payment => \/ Checkout!ServeCreate \/ Checkout!ServeInitiate
                              \/ Checkout!Initiated \/ Checkout!ExistingFound
      BY <1>11 DEF Checkout!Payment, Checkout!Pay, Checkout!Created, Checkout!ServeExisting,
         Checkout!PageClosed, Checkout!PayTimesOut
    <3>3. Checkout!Leaving => Checkout!ServeRelease
      BY <1>11 DEF Checkout!Leaving, Checkout!Back, Checkout!Stay, Checkout!Leave,
         Checkout!ReleaseTimesOut, Checkout!Left
    <3>4. Checkout!Receipt => Checkout!ServeReceipt
      BY <1>11 DEF Checkout!Receipt, Checkout!Choose, Checkout!Send, Checkout!ServeUpload, Checkout!Stop,
         Checkout!SendTimesOut, Checkout!Sent
    <3>5. ~(Checkout!Look \/ Checkout!TryAgain \/ Checkout!GoAway \/ Checkout!Kill)
      BY <1>11 DEF Checkout!Look, Checkout!TryAgain, Checkout!GoAway, Checkout!Kill
    <3> QED
      BY <3>1, <3>2, <3>3, <3>4, <3>5 DEF Checkout!Next
  <2> QED
    BY <2>1, <1>5, <1>6, <1>7, <1>8, <1>9, <1>10
<1> QED
  BY <1>2, <1>11

(* The requests after a step.                                              *)
RequestsWell ==
  /\ taken' \in BOOLEAN /\ missed' \subseteq {"create", "initiate", "release", "receipt", "again"}
  /\ price' \in Prices /\ paying' \in Payings /\ leaving' \in Leavings /\ sending' \in Sendings
  /\ Requests'

(* The screens after a step.                                               *)
ScreensWell == screen' \in Screenings /\ remembered' \in Checkout!Held /\ OnTheirOwn'

LEMMA GroundedTypes ==
  ASSUME Grounded
  PROVE  /\ booking \in [Checkout!Groups -> Bookings] /\ taken \in BOOLEAN
         /\ screen \in Screenings /\ remembered \in Checkout!Held
         /\ price \in Prices /\ paying \in Payings /\ leaving \in Leavings /\ sending \in Sendings
         /\ missed \subseteq {"create", "initiate", "release", "receipt", "again"}
BY CheckoutTyped DEF Grounded

(* A request whose group stays its own keeps what it needs.                *)
LEMMA RequestsStay ==
  ASSUME Grounded, BooksGrow,
         taken' \in BOOLEAN, missed' \subseteq {"create", "initiate", "release", "receipt", "again"},
         price' \in Prices, paying' \in Payings, leaving' \in Leavings, sending' \in Sendings,
         \/ UNCHANGED paying
         \/ paying'.at \notin (Making \ {"made"}) \union {"idle"} => paying'.group \in Checkout!Groups,
         \/ UNCHANGED leaving
         \/ leaving'.at # "idle" => leaving'.group \in Checkout!Groups,
         \/ UNCHANGED sending
         \/ /\ sending'.at # "idle" => sending'.group \in Checkout!Groups
            /\ sending'.at = "sent" => booking'[sending'.group].receipt
  PROVE  RequestsWell
BY DEF Grounded, Requests, RequestsWell, BooksGrow

LEMMA RequestsMove ==
  ASSUME Grounded, Checkout!Next, BooksGrow
  PROVE  RequestsWell
<1>1. /\ booking \in [Checkout!Groups -> Bookings] /\ taken \in BOOLEAN
      /\ screen \in Screenings /\ remembered \in Checkout!Held
      /\ price \in Prices /\ paying \in Payings /\ leaving \in Leavings /\ sending \in Sendings
      /\ missed \subseteq {"create", "initiate", "release", "receipt", "again"}
  BY GroundedTypes
<1>2. ASSUME UNCHANGED <<taken, price, paying, leaving, sending, missed>> PROVE RequestsWell
  BY <1>1, <1>2, RequestsStay
<1>3. CASE Checkout!Pricing
  <2>1. /\ UNCHANGED <<taken, paying, sending>> /\ (UNCHANGED leaving \/ leaving' = Checkout!Idle)
        /\ missed' \subseteq missed \union {"again"}
    BY <1>3 DEF Checkout!Pricing, Checkout!Open, Checkout!Resume, Checkout!AskPrice, Checkout!ServePrice,
         Checkout!PriceFails, Checkout!PriceAnswered, Checkout!Continue, Checkout!AskBelow,
         Checkout!ServeBelow, Checkout!BelowAnswered
  <2>2. price' \in Prices
    <3>1. CASE Checkout!Open \/ \E g \in Checkout!Groups : Checkout!Resume(g)
      BY <3>1, <1>1, CheckoutShapes DEF Checkout!Open, Checkout!Resume, Prices
    <3>2. CASE \E c \in {"none", "trying", "applied"} : Checkout!AskPrice(c)
      BY <3>2, <1>1 DEF Checkout!AskPrice, Prices
    <3>3. CASE \/ Checkout!ServePrice \/ Checkout!PriceFails("refused") \/ Checkout!PriceFails("error")
               \/ Checkout!AskBelow \/ Checkout!ServeBelow \/ Checkout!BelowAnswered \/ Checkout!Continue
      BY <3>3, <1>1 DEF Checkout!ServePrice, Checkout!PriceFails, Checkout!AskBelow,
         Checkout!ServeBelow, Checkout!BelowAnswered, Checkout!Continue, Prices
    <3>4. CASE Checkout!PriceAnswered /\ price.at = "ok"
      <4>1. price' = [price EXCEPT !.at = "idle", !.shown = TRUE, !.code = IF @ = "trying" THEN "applied" ELSE @]
        BY <3>4 DEF Checkout!PriceAnswered
      <4> QED
        BY <4>1, <1>1 DEF Prices
    <3>5. CASE Checkout!PriceAnswered /\ price.at # "ok"
      <4>1. price' = [price EXCEPT !.at = "idle", !.code = IF @ = "trying" THEN "none" ELSE @]
        BY <3>5 DEF Checkout!PriceAnswered
      <4> QED
        BY <4>1, <1>1 DEF Prices
    <3> QED
      BY <1>3, <3>1, <3>2, <3>3, <3>4, <3>5 DEF Checkout!Pricing
  <2> QED
    BY <1>1, <2>1, <2>2, CheckoutShapes, RequestsStay
<1>4. CASE Checkout!Payment
  <2>1. /\ UNCHANGED <<taken, leaving>> /\ missed' \subseteq missed \union {"create", "initiate"}
        /\ \/ UNCHANGED price
           \/ \E c \in {"none", price.code} : price' = [price EXCEPT !.code = c]
        /\ UNCHANGED sending \/ sending' = Checkout!Idle
    BY <1>4 DEF Checkout!Payment, Checkout!Pay, Checkout!ServeCreate, Checkout!Created, Checkout!ServeInitiate,
         Checkout!Initiated, Checkout!ServeExisting, Checkout!ExistingFound, Checkout!PageClosed,
         Checkout!PayTimesOut, Checkout!Proceed
  <2>2. price' \in Prices
    BY <2>1, <1>1 DEF Prices
  <2>3. \/ paying' = Checkout!Idle
        \/ \E m \in Checkout!Methods :
             paying' = [at |-> IF Checkout!Current = 0 THEN "create" ELSE "initiate",
                        group |-> Checkout!Current, method |-> m]
        \/ \E g \in Checkout!Groups : paying' = [paying EXCEPT !.at = "made", !.group = g]
        \/ \E a \in {"taken", "refused"} : paying' = [paying EXCEPT !.at = a]
        \/ paying' = [paying EXCEPT !.at = "unmade", !.group = 0]
        \/ /\ paying.at \notin (Making \ {"made"}) \union {"idle"}
           /\ \E a \in {"initiate", "unpayable", "exists", "started", "existing", "found", "page", "unstarted"} :
                paying' = [paying EXCEPT !.at = a]
    <3>1. CASE (\E m \in Checkout!Methods : Checkout!Pay(m)) \/ Checkout!ServeCreate \/ Checkout!Created
      BY <3>1 DEF Checkout!Pay, Checkout!ServeCreate, Checkout!Created, Checkout!NoGroup, Making
    <3>2. CASE Checkout!ServeInitiate \/ Checkout!ServeExisting \/ Checkout!PageClosed \/ Checkout!PayTimesOut
      BY <3>2 DEF Checkout!ServeInitiate, Checkout!ServeExisting, Checkout!PageClosed, Checkout!PayTimesOut,
           Checkout!NoGroup, Making
    <3>3. CASE Checkout!Initiated \/ Checkout!ExistingFound
      BY <3>3 DEF Checkout!Initiated, Checkout!ExistingFound, Checkout!Proceed, Making
    <3> QED
      BY <1>4, <3>1, <3>2, <3>3 DEF Checkout!Payment
  <2>4. Checkout!Current \in Checkout!Held
    BY <1>1 DEF Checkout!Current, Screenings
  <2>5. /\ paying' \in Payings
        /\ paying'.at \notin (Making \ {"made"}) \union {"idle"} => paying'.group \in Checkout!Groups
    <3>1. paying.at \notin (Making \ {"made"}) \union {"idle"} => paying.group \in Checkout!Groups
      BY DEF Grounded, Requests
    <3>2. ASSUME NEW m \in Checkout!Methods,
                 paying' = [at |-> IF Checkout!Current = 0 THEN "create" ELSE "initiate",
                            group |-> Checkout!Current, method |-> m]
          PROVE  /\ paying' \in Payings
                 /\ paying'.at \notin (Making \ {"made"}) \union {"idle"} => paying'.group \in Checkout!Groups
      BY <3>2, <2>4, CheckoutNumbers DEF Payings, Making
    <3>3. ASSUME NEW g \in Checkout!Groups, paying' = [paying EXCEPT !.at = "made", !.group = g]
          PROVE  paying' \in Payings /\ paying'.group \in Checkout!Groups
      BY <3>3, <1>1, CheckoutNumbers DEF Payings, Making
    <3>4. ASSUME NEW a \in {"taken", "refused"}, paying' = [paying EXCEPT !.at = a]
          PROVE  paying' \in Payings /\ paying'.at \in Making \ {"made"}
      BY <3>4, <1>1 DEF Payings, Making
    <3>5. ASSUME paying' = [paying EXCEPT !.at = "unmade", !.group = 0]
          PROVE  paying' \in Payings /\ paying'.at \in Making \ {"made"}
      BY <3>5, <1>1, CheckoutNumbers DEF Payings, Making
    <3>6. ASSUME paying.at \notin (Making \ {"made"}) \union {"idle"},
                 NEW a \in {"initiate", "unpayable", "exists", "started", "existing", "found", "page", "unstarted"},
                 paying' = [paying EXCEPT !.at = a]
          PROVE  paying' \in Payings /\ paying'.group \in Checkout!Groups
      BY <3>1, <3>6, <1>1 DEF Payings
    <3> QED
      BY <2>3, <3>2, <3>3, <3>4, <3>5, <3>6, CheckoutShapes
  <2> QED
    BY <1>1, <2>1, <2>2, <2>5, CheckoutShapes, RequestsStay
<1>5. CASE Checkout!Leaving
  <2>1. /\ UNCHANGED <<taken, price, paying, sending>> /\ missed' \subseteq missed \union {"release"}
    BY <1>5 DEF Checkout!Leaving, Checkout!Back, Checkout!Stay, Checkout!Leave, Checkout!ServeRelease,
         Checkout!ReleaseTimesOut, Checkout!Left
  <2>2. \/ UNCHANGED leaving \/ leaving' = Checkout!Idle
        \/ /\ leaving.at # "idle"
           /\ \E a \in {"asked", "released", "kept", "sheet"} : leaving' = [leaving EXCEPT !.at = a]
        \/ \E g \in Checkout!Groups : leaving' = [Checkout!Idle EXCEPT !.at = "sheet", !.group = g]
    <3>1. CASE Checkout!Back
      <4>1. \/ UNCHANGED leaving
            \/ \E g \in {screen.group, remembered} :
                 /\ leaving' = [Checkout!Idle EXCEPT !.at = "sheet", !.group = g]
                 /\ g # 0
        BY <3>1 DEF Checkout!Back, Checkout!NoGroup
      <4> QED
        BY <4>1, <1>1, CheckoutNumbers DEF Screenings
    <3>2. CASE \/ Checkout!Stay \/ Checkout!Leave \/ Checkout!ServeRelease
               \/ Checkout!ReleaseTimesOut \/ Checkout!Left
      BY <3>2 DEF Checkout!Stay, Checkout!Leave, Checkout!ServeRelease, Checkout!ReleaseTimesOut, Checkout!Left
    <3> QED
      BY <1>5, <3>1, <3>2 DEF Checkout!Leaving
  <2>3. \/ UNCHANGED leaving
        \/ leaving' \in Leavings /\ (leaving'.at # "idle" => leaving'.group \in Checkout!Groups)
    BY <2>2, <1>1, CheckoutShapes, CheckoutNumbers DEF Leavings, Grounded, Requests
  <2> QED
    BY <1>1, <2>1, <2>3, RequestsStay
<1>6. CASE Checkout!Receipt
  <2>1. UNCHANGED <<taken, price, paying, leaving>> /\ missed' \subseteq missed \union {"receipt"}
    BY <1>6 DEF Checkout!Receipt, Checkout!Choose, Checkout!Send, Checkout!ServeUpload, Checkout!Stop,
         Checkout!ServeReceipt, Checkout!SendTimesOut, Checkout!Sent
  <2>2. \/ sending' = Checkout!Idle
        \/ screen.at = "bank" /\ sending' = [sending EXCEPT !.at = "photo", !.group = screen.group]
        \/ /\ sending.at # "idle"
           /\ \E a \in {"upload", "receipt", "stopped", "unsent"} : sending' = [sending EXCEPT !.at = a]
        \/ /\ sending.at # "idle" /\ sending' = [sending EXCEPT !.at = "sent"]
           /\ booking' = [booking EXCEPT ![sending.group].receipt = TRUE,
                            ![sending.group].status = "pending_approval"]
    BY <1>6 DEF Checkout!Receipt, Checkout!Choose, Checkout!Send, Checkout!ServeUpload, Checkout!Stop,
         Checkout!ServeReceipt, Checkout!SendTimesOut, Checkout!Sent, Checkout!Uploaded
  <2>3. /\ sending' \in Sendings
        /\ sending'.at # "idle" => sending'.group \in Checkout!Groups
        /\ sending'.at = "sent" => booking'[sending'.group].receipt
    <3>1. CASE sending' = Checkout!Idle
      BY <3>1, CheckoutShapes
    <3>2. CASE screen.at = "bank" /\ sending' = [sending EXCEPT !.at = "photo", !.group = screen.group]
      BY <3>2, <1>1, CheckoutNumbers DEF Sendings, Grounded, OnTheirOwn, OnOne
    <3>3. CASE /\ sending.at # "idle"
               /\ \E a \in {"upload", "receipt", "stopped", "unsent"} : sending' = [sending EXCEPT !.at = a]
      BY <3>3, <1>1 DEF Sendings, InFlight, Grounded, Requests
    <3>4. CASE /\ sending.at # "idle" /\ sending' = [sending EXCEPT !.at = "sent"]
               /\ booking' = [booking EXCEPT ![sending.group].receipt = TRUE,
                            ![sending.group].status = "pending_approval"]
      <4>1. sending.group \in Checkout!Groups /\ sending' \in Sendings /\ sending'.group = sending.group
        BY <3>4, <1>1 DEF Sendings, InFlight, Grounded, Requests
      <4>2. booking'[sending.group].receipt
        BY <3>4, <4>1, <1>1 DEF Bookings
      <4> QED
        BY <4>1, <4>2
    <3> QED
      BY <2>2, <3>1, <3>2, <3>3, <3>4
  <2> QED
    BY <1>1, <2>1, <2>3, RequestsStay
<1>7. CASE Checkout!Look \/ Checkout!TryAgain \/ Checkout!GoAway
  BY <1>2, <1>7 DEF Checkout!Look, Checkout!TryAgain, Checkout!GoAway
<1>8. CASE Checkout!Kill
  BY <1>1, <1>8, CheckoutShapes, RequestsStay DEF Checkout!Kill
<1>9. CASE Checkout!World
  <2>1. taken' \in BOOLEAN /\ UNCHANGED <<price, paying, leaving, sending, missed>>
    BY <1>1, <1>9 DEF Checkout!World, Checkout!Others, Checkout!Sweep, Checkout!Settle, Checkout!Decide
  <2> QED
    BY <1>1, <2>1, RequestsStay
<1> QED
  BY <1>3, <1>4, <1>5, <1>6, <1>7, <1>8, <1>9 DEF Checkout!Next

(* A screen that opens on a booking tells the truth of it.                 *)
LEMMA ShowIsWell ==
  ASSUME Grounded, BooksGrow,
         NEW at \in {"payment", "bank", "processing", "awaiting", "failed", "confirmed", "lost"},
         NEW g \in Checkout!Held, Checkout!Show(at, g), at \in OnOne => g \in Checkout!Groups,
         at = "awaiting" => booking[g].receipt, at = "confirmed" => booking[g].sold
  PROVE  ScreensWell
<1>1. screen \in Screenings /\ remembered \in Checkout!Held
  BY GroundedTypes
<1>2. screen' \in Screenings /\ screen'.at = at /\ screen'.group = g
  BY <1>1 DEF Checkout!Show, Screenings
<1>3. remembered' \in Checkout!Held
  BY <1>1, CheckoutNumbers DEF Checkout!Show, Checkout!NoGroup
<1>4. OnTheirOwn'
  BY <1>2 DEF OnTheirOwn, LastScreens, BooksGrow, OnOne
<1> QED
  BY <1>2, <1>3, <1>4 DEF ScreensWell

LEMMA ScreensMove ==
  ASSUME Grounded, Checkout!Next, BooksGrow
  PROVE  ScreensWell
<1>1. /\ booking \in [Checkout!Groups -> Bookings] /\ screen \in Screenings /\ remembered \in Checkout!Held
      /\ paying \in Payings /\ sending \in Sendings
  BY GroundedTypes
<1>2. ASSUME UNCHANGED screen, remembered' \in Checkout!Held PROVE ScreensWell
  BY <1>1, <1>2 DEF ScreensWell, Grounded, OnTheirOwn, LastScreens, BooksGrow, OnOne
<1>3. ASSUME screen' \in Screenings, screen'.at \notin OnOne, remembered' \in Checkout!Held PROVE ScreensWell
  BY <1>3 DEF ScreensWell, OnTheirOwn, LastScreens, OnOne
<1>4. ASSUME Checkout!Show("lost", 0) \/ Checkout!Show("payment", 0) PROVE ScreensWell
  BY <1>4, CheckoutNumbers, ShowIsWell DEF OnOne
<1>5. CASE Checkout!Pricing
  <2>1. CASE Checkout!Open \/ \E g \in Checkout!Groups : Checkout!Resume(g)
    <3>1. UNCHANGED remembered
      BY <2>1 DEF Checkout!Open, Checkout!Resume
    <3>2. screen' \in Screenings /\ screen'.at \notin OnOne
      BY <2>1, <1>1, CheckoutShapes, CheckoutNumbers DEF Checkout!Open, Checkout!Resume, Screenings, OnOne
    <3> QED
      BY <1>1, <1>3, <3>1, <3>2
  <2>2. CASE UNCHANGED <<screen, remembered>>
    BY <1>1, <1>2, <2>2
  <2>3. \/ Checkout!Open \/ (\E g \in Checkout!Groups : Checkout!Resume(g))
        \/ UNCHANGED <<screen, remembered>>
        \/ Checkout!Show("lost", 0) \/ Checkout!Show("payment", 0)
    BY <1>5 DEF Checkout!Pricing, Checkout!AskPrice, Checkout!ServePrice,
         Checkout!PriceFails, Checkout!PriceAnswered, Checkout!Continue, Checkout!AskBelow,
         Checkout!ServeBelow, Checkout!BelowAnswered, Checkout!NoGroup
  <2> QED
    BY <1>4, <2>1, <2>2, <2>3
<1>6. CASE Checkout!Payment
  <2>1. \/ UNCHANGED <<screen, remembered>>
        \/ UNCHANGED screen /\ paying.at = "made" /\ remembered' = paying.group
        \/ Checkout!Show("lost", 0)
        \/ /\ paying.at \notin (Making \ {"made"}) \union {"idle"}
           /\ \E at \in {"bank", "processing", "failed"} : Checkout!Show(at, paying.group)
    <3>1. CASE (\E m \in Checkout!Methods : Checkout!Pay(m)) \/ Checkout!ServeCreate \/ Checkout!Created
      BY <3>1 DEF Checkout!Pay, Checkout!ServeCreate, Checkout!Created, Checkout!NoGroup
    <3>2. CASE Checkout!ServeInitiate \/ Checkout!ServeExisting \/ Checkout!PageClosed \/ Checkout!PayTimesOut
      BY <3>2 DEF Checkout!ServeInitiate, Checkout!ServeExisting, Checkout!PageClosed, Checkout!PayTimesOut,
           Making
    <3>3. CASE Checkout!Initiated \/ Checkout!ExistingFound
      BY <3>3 DEF Checkout!Initiated, Checkout!ExistingFound, Checkout!Proceed, Making
    <3> QED
      BY <1>6, <3>1, <3>2, <3>3 DEF Checkout!Payment
  <2>2. paying.group \in Checkout!Held
    BY <1>1 DEF Payings
  <2>3. ASSUME paying.at \notin (Making \ {"made"}) \union {"idle"},
               NEW at \in {"bank", "processing", "failed"}, Checkout!Show(at, paying.group)
        PROVE  ScreensWell
    BY <2>2, <2>3, ShowIsWell DEF Grounded, Requests
  <2> QED
    BY <1>1, <1>2, <1>4, <2>1, <2>2, <2>3
<1>7. CASE Checkout!Leaving
  <2>1. \/ UNCHANGED <<screen, remembered>>
        \/ UNCHANGED remembered /\ screen' = [screen EXCEPT !.at = "review"]
        \/ UNCHANGED remembered /\ screen' = [Checkout!Away EXCEPT !.left = screen.left]
        \/ remembered' = 0 /\ Checkout!AtArena
    BY <1>7 DEF Checkout!Leaving, Checkout!Back, Checkout!Stay, Checkout!Leave, Checkout!ServeRelease,
         Checkout!ReleaseTimesOut, Checkout!Left, Checkout!NoGroup
  <2>2. CASE UNCHANGED remembered /\ screen' = [screen EXCEPT !.at = "review"]
    BY <1>1, <1>3, <2>2 DEF Screenings, OnOne
  <2>3. CASE UNCHANGED remembered /\ screen' = [Checkout!Away EXCEPT !.left = screen.left]
    BY <1>1, <1>3, <2>3, CheckoutShapes DEF Screenings, OnOne
  <2>4. CASE remembered' = 0 /\ Checkout!AtArena
    BY <1>1, <1>3, <2>4, LeftOpen, CheckoutNumbers DEF OnOne
  <2> QED
    BY <1>1, <1>2, <2>1, <2>2, <2>3, <2>4
<1>8. CASE Checkout!Receipt
  <2>1. \/ UNCHANGED <<screen, remembered>>
        \/ sending.at = "sent" /\ Checkout!Show("awaiting", sending.group)
    BY <1>8 DEF Checkout!Receipt, Checkout!Choose, Checkout!Send, Checkout!ServeUpload, Checkout!Stop,
         Checkout!ServeReceipt, Checkout!SendTimesOut, Checkout!Sent
  <2>2. CASE sending.at = "sent" /\ Checkout!Show("awaiting", sending.group)
    BY <2>2, CheckoutNumbers, ShowIsWell DEF Grounded, Requests
  <2> QED
    BY <1>1, <1>2, <2>1, <2>2
<1>9. CASE Checkout!Look
  <2> DEFINE g == screen.group
  <2>1. screen.at \in OnOne /\ g \in Checkout!Groups /\ g \in Checkout!Held
    BY <1>9, CheckoutNumbers DEF Checkout!Look, OnOne, Grounded, OnTheirOwn
  <2>2. /\ booking[g].status = "pending_approval" => booking[g].receipt
        /\ booking[g].status = "confirmed" => booking[g].sold
    BY <2>1 DEF Grounded, BooksAgree
  <2>3. \/ booking[g].status = "pending_approval" /\ Checkout!Show("awaiting", g)
        \/ booking[g].status = "confirmed" /\ Checkout!Show("confirmed", g)
        \/ Checkout!Show("failed", g)
        \/ screen.at = "failed" /\ screen' = [screen EXCEPT !.over = TRUE] /\ remembered' = 0
    BY <1>9 DEF Checkout!Look, Checkout!NoGroup
  <2>4. CASE screen.at = "failed" /\ screen' = [screen EXCEPT !.over = TRUE] /\ remembered' = 0
    <3>1. /\ screen' \in Screenings /\ screen'.at = "failed" /\ screen'.group = g
      BY <1>1, <2>4 DEF Screenings
    <3> QED
      BY <2>1, <2>4, <3>1, CheckoutNumbers DEF ScreensWell, OnTheirOwn, LastScreens
  <2> HIDE DEF g
  <2> QED
    BY <2>1, <2>2, <2>3, <2>4, ShowIsWell
<1>10. CASE Checkout!TryAgain
  BY <1>4, <1>10 DEF Checkout!TryAgain, Checkout!NoGroup
<1>11. CASE Checkout!GoAway
  <2>1. UNCHANGED remembered /\ (screen' = Checkout!LeftBelow \/ Checkout!AtArena)
    BY <1>11 DEF Checkout!GoAway
  <2> QED
    BY <1>1, <1>3, <2>1, LeftOpen DEF OnOne
<1>12. CASE Checkout!Kill
  <2>1. screen' = Checkout!Away /\ remembered' = 0
    BY <1>12 DEF Checkout!Kill, Checkout!NoGroup
  <2> QED
    BY <1>3, <2>1, CheckoutShapes, CheckoutNumbers DEF OnOne
<1>13. CASE Checkout!World
  BY <1>1, <1>2, <1>13 DEF Checkout!World, Checkout!Others, Checkout!Sweep, Checkout!Settle, Checkout!Decide
<1> QED
  BY <1>5, <1>6, <1>7, <1>8, <1>9, <1>10, <1>11, <1>12, <1>13 DEF Checkout!Next

LEMMA GroundedStep ==
  ASSUME Grounded, Checkout!Next
  PROVE  Grounded'
<1>1. booking' \in [Checkout!Groups -> Bookings] /\ BooksAgree' /\ BooksGrow
  BY BooksMove
<1>2. RequestsWell /\ ScreensWell
  BY <1>1, RequestsMove, ScreensMove
<1> QED
  BY <1>1, <1>2, CheckoutTypedNext DEF Grounded, RequestsWell, ScreensWell

LEMMA CheckoutStutters ==
  ASSUME CheckoutInv, UNCHANGED checkoutVars
  PROVE  CheckoutInv'
<1>1. UNCHANGED <<booking, taken, screen, remembered, price, paying, leaving, sending, missed>>
  BY DEF checkoutVars
<1>2. Checkout!TypeOK'
  BY <1>1, CheckoutTyped, CheckoutTypedNext DEF CheckoutInv
<1>3. Checkout!Current' = Checkout!Current
  BY <1>1 DEF Checkout!Current
<1>4. OneAsk' /\ About' /\ MadeIsKept /\ (sending'.at \in InFlight => OnlyHolder(sending'.group))
  BY <1>1, <1>3 DEF CheckoutInv, OneAsk, About, MadeIsKept, InHand
<1> QED
  BY <1>1, <1>2, <1>4, BooksStay

LEMMA GroundedStutters ==
  ASSUME Grounded, UNCHANGED checkoutVars
  PROVE  Grounded'
<1>1. UNCHANGED <<booking, taken, screen, remembered, price, paying, leaving, sending, missed>>
  BY DEF checkoutVars
<1>2. Checkout!TypeOK'
  BY <1>1, CheckoutTyped, CheckoutTypedNext DEF Grounded
<1> QED
  BY <1>1, <1>2 DEF Grounded, BooksAgree, Requests, OnTheirOwn, LastScreens

LEMMA CheckoutStep ==
  ASSUME CheckoutInv, Checkout!Next \/ UNCHANGED checkoutVars, "again" \notin missed'
  PROVE  CheckoutInv'
<1>1. CASE Checkout!Pricing
  <2>1. \A how \in {"refused", "error"} : Checkout!PriceFails(how) => CheckoutInv'
    BY PricesKeep
  <2>2. \A g \in Checkout!Groups : Checkout!Resume(g) => CheckoutInv'
    BY OpenKeeps
  <2>3. \A c \in {"none", "trying", "applied"} : Checkout!AskPrice(c) => CheckoutInv'
    BY PricesKeep
  <2>4. Checkout!Open \/ Checkout!ServePrice \/ Checkout!AskBelow \/ Checkout!ServeBelow => CheckoutInv'
    BY OpenKeeps, PricesKeep
  <2> QED
    BY <1>1, <2>1, <2>2, <2>3, <2>4, PriceAnsweredKeeps, ContinueKeeps, BelowAnsweredKeeps DEF Checkout!Pricing
<1>2. CASE Checkout!Payment
  BY <1>2, PayKeeps, ServeCreateKeeps, CreatedKeeps, ServeInitiateKeeps, InitiatedKeeps, PayMovesKeep
  DEF Checkout!Payment
<1>3. CASE Checkout!Leaving
  BY <1>3, BackKeeps, SheetKeeps, ServeReleaseKeeps, LeftKeeps DEF Checkout!Leaving
<1>4. CASE Checkout!Receipt
  BY <1>4, PhotoKeeps, ServeReceiptKeeps, SentKeeps DEF Checkout!Receipt
<1>5. CASE Checkout!Look \/ Checkout!TryAgain \/ Checkout!GoAway \/ Checkout!Kill
  BY <1>5, LookKeeps, ContinueKeeps, GoAwayKeeps, KillKeeps
<1>6. CASE Checkout!World
  <2>1. ASSUME NEW g \in Checkout!Groups, Checkout!Sweep(g) PROVE CheckoutInv'
    BY <2>1, EverybodyElseKeeps
  <2> QED
    BY <1>6, <2>1, OthersKeeps, EverybodyElseKeeps DEF Checkout!World
<1> QED
  BY <1>1, <1>2, <1>3, <1>4, <1>5, <1>6, CheckoutStutters DEF Checkout!Next

LEMMA CheckoutMoves ==
  ASSUME [Next]_vars
  PROVE  UNCHANGED part /\ (part = "checkout" => Checkout!Next \/ UNCHANGED checkoutVars)
BY DEF Next, Only, vars

(* Mishaps are not forgotten.                                              *)
LEMMA MissedGrows ==
  ASSUME Checkout!Next \/ UNCHANGED checkoutVars
  PROVE  missed \subseteq missed'
<1>1. Checkout!Pricing => missed \subseteq missed'
  BY DEF Checkout!Pricing, Checkout!Open, Checkout!Resume, Checkout!AskPrice, Checkout!ServePrice,
     Checkout!PriceFails, Checkout!PriceAnswered, Checkout!Continue, Checkout!AskBelow,
     Checkout!ServeBelow, Checkout!BelowAnswered
<1>2. Checkout!Payment => missed \subseteq missed'
  BY DEF Checkout!Payment, Checkout!Pay, Checkout!ServeCreate, Checkout!Created, Checkout!ServeInitiate,
     Checkout!Initiated, Checkout!ServeExisting, Checkout!ExistingFound, Checkout!PageClosed, Checkout!PayTimesOut
<1>3. Checkout!Leaving => missed \subseteq missed'
  BY DEF Checkout!Leaving, Checkout!Back, Checkout!Stay, Checkout!Leave, Checkout!ServeRelease,
     Checkout!ReleaseTimesOut, Checkout!Left
<1>4. Checkout!Receipt => missed \subseteq missed'
  BY DEF Checkout!Receipt, Checkout!Choose, Checkout!Send, Checkout!ServeUpload, Checkout!Stop,
     Checkout!ServeReceipt, Checkout!SendTimesOut, Checkout!Sent
<1>5. Checkout!Look \/ Checkout!TryAgain \/ Checkout!GoAway \/ Checkout!Kill => missed \subseteq missed'
  BY DEF Checkout!Look, Checkout!TryAgain, Checkout!GoAway, Checkout!Kill
<1>6. Checkout!World => missed \subseteq missed'
  BY DEF Checkout!World, Checkout!Others, Checkout!Sweep, Checkout!Settle, Checkout!Decide
<1> QED
  BY <1>1, <1>2, <1>3, <1>4, <1>5, <1>6 DEF Checkout!Next, checkoutVars

(* The invariant of the clients, as far as the checkout goes.              *)
PurchaseInv ==
  part = "checkout" => Grounded /\ ("again" \notin missed => CheckoutInv)

LEMMA PurchasesHold == Spec => []PurchaseInv
<1>1. Init => PurchaseInv
  <2>1. CheckoutInv /\ paying = Checkout!Idle /\ leaving = Checkout!Idle /\ sending = Checkout!Idle
        /\ screen = Checkout!Away => Grounded
    BY CheckoutShapes DEF CheckoutInv, Grounded, Requests, OnTheirOwn, OnOne
  <2> QED
    BY <2>1, CheckoutInit DEF Init, PurchaseInv, Checkout!Init
<1>2. PurchaseInv /\ [Next]_vars => PurchaseInv'
  <2> SUFFICES ASSUME PurchaseInv, [Next]_vars, part' = "checkout"
               PROVE  Grounded' /\ ("again" \notin missed' => CheckoutInv')
    BY DEF PurchaseInv
  <2>1. /\ part = "checkout" /\ (Checkout!Next \/ UNCHANGED checkoutVars)
        /\ Grounded /\ ("again" \notin missed => CheckoutInv)
    BY CheckoutMoves DEF PurchaseInv
  <2>2. Grounded'
    BY <2>1, GroundedStep, GroundedStutters
  <2>3. "again" \notin missed' => CheckoutInv'
    BY <2>1, MissedGrows, CheckoutStep
  <2> QED
    BY <2>2, <2>3
<1> QED
  BY <1>1, <1>2, PTL DEF Spec

(* booking/payment.tsx, slot-lost.tsx: a person who waits for each answer  *)
(* and tries no code late is told that the time was taken by somebody else *)
(* only when no booking of theirs has it, when the answer that made it was *)
(* lost, or when a screen below asked for the price again over a booking   *)
(* made or being made.                                                     *)
THEOREM NobodyLosesTheirOwn == Spec => []OwnTimeNotLost
<1>1. PurchaseInv => OwnTimeNotLost
  <2> SUFFICES ASSUME CheckoutInv, screen.at = "lost", "create" \notin missed PROVE ~Checkout!OwnHold
    BY DEF PurchaseInv, OwnTimeNotLost, Checkout!OwnTimeNotLost, Checkout!SlotLostIsSomeoneElse
  <2>1. Holds = {}
    BY DEF CheckoutInv, NoneHeld
  <2> QED
    BY <2>1 DEF Holds, Checkout!OwnHold
<1> QED
  BY <1>1, PurchasesHold, PTL

(* booking/awaiting, confirmed: whatever order answers, decisions and the  *)
(* sweep come in, "awaiting approval" shows a booking whose receipt the    *)
(* arena has, and "confirmed" one that is paid for.                        *)
THEOREM LastScreensAreTrue == Spec => []EndScreensAgree
<1>1. PurchaseInv => EndScreensAgree
  BY DEF PurchaseInv, EndScreensAgree, Checkout!EndScreensAgree, Grounded, OnTheirOwn, LastScreens
<1> QED
  BY <1>1, PurchasesHold, PTL

=============================================================================
