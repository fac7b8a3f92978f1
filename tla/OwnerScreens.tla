---------------------------- MODULE OwnerScreens ----------------------------
(***************************************************************************)
(* The owner's pages of the web console (frontend/web/app/owner), with the  *)
(* dialogs that belong to them and the shell around them.                    *)
(***************************************************************************)
EXTENDS ScreenRows

LOCAL Owner(name, shows, offers) == Screen("owner", name, shows, offers)

\* The rows each query of the console shows, lists or counts; a name joined to
\* them and the order of a list are not followed.  payment is what became of a
\* booking's money, new-arena the number of the owner's arenas.
OwnerReads ==
  [q \in {"my-arenas"} |-> {"arena"}] @@
  [q \in {"courts"} |-> {"court"}] @@
  [q \in {"pricing"} |-> {"rule"}] @@
  [q \in {"discounts"} |-> {"discount"}] @@
  [q \in {"bank-details"} |-> {"bank"}] @@
  [q \in {"equipment"} |-> {"equipment"}] @@
  [q \in {"owner-slots"} |-> {"slot"}] @@
  [q \in {"owner-bookings"} |-> {"booking", "reminder", "payment"}] @@
  [q \in {"pending-approvals", "calendar", "revenue"} |-> {"booking"}] @@
  [q \in {"dashboard-summary"} |-> {"booking", "new-arena"}] @@
  [q \in {"dashboard-analytics"} |-> {"booking", "slot"}] @@
  [q \in {"owner-refunds", "owner-refunds-count"} |-> {"refund"}] @@
  [q \in {"reviews", "owner-reviews-unanswered"} |-> {"review"}] @@
  [q \in {"my-notifications"} |-> {"notice"}]

-----------------------------------------------------------------------------
(* Bookings and receipts *)

ApprovalKeys == {"pending-approvals", "dashboard-summary", "dashboard-analytics", "owner-bookings"}

\* Confirming books the hours and sends the owner a notice; rejecting frees the
\* hours, and gives back the equipment and the use of a discount.
ApprovePayment == Operation("approve", "booking", {"slot", "notice"}, ReceiptApproved, ApprovalKeys, FALSE)
RejectPayment ==
  Operation("reject", "booking", {"slot", "equipment", "discount"}, ReceiptRejected, ApprovalKeys, FALSE)

\* The button becomes "Sent", from the list read again.
RemindPlayer == Operation("remind", "reminder", {}, PlayerReminded, {"owner-bookings"}, FALSE)

BookingsOffers ==
  {Offer("approve", "owner-bookings", {"receipt"}), Offer("reject", "owner-bookings", {"receipt"}),
   Offer("remind", "owner-bookings", {"due"})}

\* The receipt beside the arena's bank accounts.
ReceiptDialogShows == {"bank-details"}

BookingsPage ==
  Owner("bookings", {"my-arenas", "courts", "owner-bookings"} \union ReceiptDialogShows, BookingsOffers)

BoardPage == Owner("board", {"my-arenas", "dashboard-analytics", "pending-approvals", "calendar", "courts"}, {})

\* The part of the board that shows the day, hour by hour.
LiveBoard == Owner("live-board", {"my-arenas", "calendar"}, {})
LiveBoardGrid == Owner("live-board-grid", {"courts", "calendar"}, {})

CalendarPage == Owner("calendar", {"my-arenas", "calendar", "courts"}, {})

EarningsPage == Owner("revenue", {"my-arenas", "dashboard-analytics", "revenue"}, {})

ReportsPage == Owner("reports", {"my-arenas", "dashboard-analytics", "calendar"}, {})

-----------------------------------------------------------------------------
(* Refunds *)

RefundKeys == {"owner-refunds", "owner-refunds-count"}

\* Paid, refused or unanswered: the lists are read again.  A payment given back
\* in full is a refunded one.
MarkRefundPaid ==
  [Operation("mark-paid", "refund", {"payment"}, RefundPaid, RefundKeys, FALSE) EXCEPT !.onError = RefundKeys]

RefundsTab == Owner("refunds", {"owner-refunds"}, {Offer("mark-paid", "owner-refunds", {"waiting"})})

-----------------------------------------------------------------------------
(* Arenas, courts and their hours *)

CreateArena == Operation("create-arena", "arena", {"new-arena"}, ArenaCreated, {"my-arenas"}, FALSE)
UpdateArena == Operation("update-arena", "arena", {}, ArenaEdited, {"my-arenas"}, FALSE)
DeactivateArena == Operation("deactivate-arena", "arena", {}, ArenaDeactivated, {"my-arenas"}, FALSE)
ResubmitArena == Operation("resubmit-arena", "arena", {}, ArenaResubmitted, {"my-arenas"}, FALSE)

\* A suspended or removed arena is locked: its buttons stay, and do nothing.
Unlocked == {"pending", "approved", "rejected", "offline"}

\* The form of a new arena and of the one being edited.
ArenaFormOffers ==
  {Offer("create-arena", "my-arenas", {"none"}), Offer("update-arena", "my-arenas", Unlocked)}

ArenasOffers ==
  {Offer("resubmit-arena", "my-arenas", {"rejected"}),
   Offer("deactivate-arena", "my-arenas", Unlocked \ {"offline"})} \union ArenaFormOffers

ArenasPage == Owner("arenas", {"my-arenas", "courts", "dashboard-analytics", "revenue"}, ArenasOffers)

CourtKeys == {"courts"}
CreateCourt == Operation("create-court", "court", {}, ItemAdded, CourtKeys, FALSE)
UpdateCourt == Operation("update-court", "court", {}, ItemSaved, CourtKeys, FALSE)

\* run(): the list is read again whatever came of it.
CourtRun(name, also, gives) ==
  [Operation(name, "court", also, gives, CourtKeys, FALSE) EXCEPT !.onError = CourtKeys]

SwitchCourtOff == CourtRun("court-off", {}, Becomes({"on", "off"}, "off"))
SwitchCourtOn == CourtRun("court-on", {}, Becomes({"on", "off"}, "on"))

\* The hours and the pricing rules of a court go with it.
DeleteCourt == CourtRun("delete-court", {"slot", "rule"}, ItemDeleted)

CourtFormOffers ==
  {Offer("create-court", "courts", {"none"}), Offer("update-court", "courts", {"on", "off"})}

GenerateSlots == Operation("generate-slots", "site", {"slot"}, SlotsGenerated, {"owner-slots"}, FALSE)
CloseSlot == Operation("close-slot", "slot", {}, SlotClosed, {"owner-slots"}, FALSE)
OpenSlot == Operation("open-slot", "slot", {}, SlotOpened, {"owner-slots"}, FALSE)

\* Held and booked hours are locked; hours can be generated whatever the arena is.
SlotsDialogOffers ==
  {Offer("generate-slots", "", ArenaRow.statuses \ {"none"}),
   Offer("close-slot", "owner-slots", {"free"}), Offer("open-slot", "owner-slots", {"closed"})}

CourtsOffers ==
  {Offer("court-off", "courts", {"on"}), Offer("court-on", "courts", {"off"}),
   Offer("delete-court", "courts", {"on", "off"})} \union CourtFormOffers \union SlotsDialogOffers

CourtsPage == Owner("courts", {"my-arenas", "courts", "owner-slots"}, CourtsOffers)

-----------------------------------------------------------------------------
(* Prices, discounts, bank accounts, equipment *)

\* Every court's rules, whichever court was changed.
PricingKeys == {"pricing"}
CreateRule == Operation("create-rule", "rule", {}, ItemAdded, PricingKeys, FALSE)
UpdateRule == Operation("update-rule", "rule", {}, ItemSaved, PricingKeys, FALSE)
DeleteRule == Operation("delete-rule", "rule", {}, ItemDeleted, PricingKeys, FALSE)

RuleFormOffers ==
  {Offer("create-rule", "pricing", {"none"}), Offer("update-rule", "pricing", {"on", "off"})}
PricingOffers == {Offer("delete-rule", "pricing", {"on", "off"})} \union RuleFormOffers

PricingPage == Owner("pricing", {"my-arenas", "courts", "pricing"}, PricingOffers)

DiscountKeys == {"discounts"}
CreateDiscount == Operation("create-discount", "discount", {}, ItemAdded, DiscountKeys, FALSE)
UpdateDiscount == Operation("update-discount", "discount", {}, ItemSaved, DiscountKeys, FALSE)
DeleteDiscount ==
  [Operation("delete-discount", "discount", {}, ItemDeleted, DiscountKeys, FALSE)
     EXCEPT !.onError = DiscountKeys]

DiscountFormOffers ==
  {Offer("create-discount", "discounts", {"none"}), Offer("update-discount", "discounts", {"on", "off"})}

BankKeys == {"bank-details"}
AddBank == Operation("add-bank", "bank", {}, ItemAdded, BankKeys, FALSE)
UpdateBank == Operation("update-bank", "bank", {}, ItemSaved, BankKeys, FALSE)
DeleteBank == Operation("delete-bank", "bank", {}, ItemDeleted, BankKeys, FALSE)

BankFormOffers ==
  {Offer("add-bank", "bank-details", {"none"}), Offer("update-bank", "bank-details", {"on", "off"}),
   Offer("delete-bank", "bank-details", {"on", "off"})}

PaymentsOffers ==
  {Offer("delete-discount", "discounts", {"on", "off"})} \union DiscountFormOffers \union BankFormOffers

PaymentsPage ==
  Owner("payments", {"my-arenas", "discounts", "bank-details", "owner-refunds-count"}, PaymentsOffers)

EquipmentKeys == {"equipment"}
CreateEquipment == Operation("create-equipment", "equipment", {}, ItemAdded, EquipmentKeys, FALSE)
UpdateEquipment == Operation("update-equipment", "equipment", {}, EquipmentSaved, EquipmentKeys, FALSE)

\* run(), as for the courts.
EquipmentRun(name, gives) ==
  [Operation(name, "equipment", {}, gives, EquipmentKeys, FALSE) EXCEPT !.onError = EquipmentKeys]

AdjustQuantity == EquipmentRun("adjust-equipment", EquipmentSaved)
DeleteEquipment == EquipmentRun("delete-equipment", EquipmentDeleted)

EquipmentFormOffers ==
  {Offer("create-equipment", "equipment", {"none"}),
   Offer("update-equipment", "equipment", {"on", "rented"})}

\* Delete is there for an item with units out as well.
EquipmentOffers ==
  {Offer("adjust-equipment", "equipment", {"on", "rented"}),
   Offer("delete-equipment", "equipment", {"on", "rented"})} \union EquipmentFormOffers

EquipmentPage == Owner("equipment", {"my-arenas", "equipment"}, EquipmentOffers)

-----------------------------------------------------------------------------
(* Reviews, notifications and the shell *)

RespondToReview ==
  Operation("respond", "review", {}, ReviewAnswered, {"reviews", "owner-reviews-unanswered"}, FALSE)

ReviewsPage ==
  Owner("reviews", {"my-arenas", "reviews"}, {Offer("respond", "reviews", {"posted", "reported"})})

ReadNotice == Operation("read-notice", "notice", {}, NoticeRead, {"my-notifications"}, FALSE)
ReadAllNotices == Operation("read-all-notices", "notice", {}, NoticeRead, {"my-notifications"}, FALSE)

NotificationsPage ==
  Owner("notifications", {"my-notifications"},
        {Offer("read-notice", "my-notifications", {"unread"}),
         Offer("read-all-notices", "my-notifications", {"unread"})})

\* The bell of the top bar.
AlertsShell ==
  Shell("owner", "alerts", {"my-notifications"}, {Offer("read-notice", "my-notifications", {"unread"})})

\* The counts beside the entries of the sidebar.
SidebarShell ==
  Shell("owner", "sidebar",
        {"my-notifications", "dashboard-summary", "owner-refunds-count", "owner-reviews-unanswered"}, {})

TopbarShell == Shell("owner", "topbar", {"my-arenas"}, {})

PaletteShell == Shell("owner", "palette", {"my-arenas", "courts"}, {})

-----------------------------------------------------------------------------

\* What the code forgets to fetch again.  A decided receipt changes the calendar,
\* the revenue and the court's hours, an approved one leaves the owner a notice,
\* a rejected one frees equipment and a discount's use.  A refund paid in full
\* changes the booking's payment, a new arena the sidebar's count, the hours made,
\* closed, opened or deleted the occupancy, a deleted court its rules and hours.
OwnerLags ==
  ({"approve", "reject"} \X {"calendar", "revenue", "owner-slots"})
  \union {<<"approve", "my-notifications">>, <<"reject", "equipment">>, <<"reject", "discounts">>,
          <<"mark-paid", "owner-bookings">>, <<"create-arena", "dashboard-summary">>}
  \union ({"generate-slots", "close-slot", "open-slot"} \X {"dashboard-analytics"})
  \union ({"delete-court"} \X {"dashboard-analytics", "pricing", "owner-slots"})

\* What a page offers and the server refuses: to delete an item that is rented,
\* to generate hours for an arena that is suspended or removed.
OwnerUnchecked ==
  {<<"delete-equipment", "rented">>, <<"generate-slots", "suspended">>, <<"generate-slots", "removed">>}

OwnerPages ==
  {BookingsPage, BoardPage, LiveBoard, LiveBoardGrid, CalendarPage, EarningsPage, ReportsPage, RefundsTab,
   ArenasPage, CourtsPage, PricingPage, PaymentsPage, EquipmentPage, ReviewsPage, NotificationsPage,
   AlertsShell, SidebarShell, TopbarShell, PaletteShell}

OwnerOperations ==
  {[client |-> "owner", op |-> o] : o \in
    {ApprovePayment, RejectPayment, RemindPlayer, MarkRefundPaid, CreateArena, UpdateArena,
     DeactivateArena, ResubmitArena, CreateCourt, UpdateCourt, SwitchCourtOff, SwitchCourtOn, DeleteCourt,
     GenerateSlots, CloseSlot, OpenSlot, CreateRule, UpdateRule, DeleteRule, CreateDiscount,
     UpdateDiscount, DeleteDiscount, AddBank, UpdateBank, DeleteBank, CreateEquipment, UpdateEquipment,
     AdjustQuantity, DeleteEquipment, RespondToReview, ReadNotice, ReadAllNotices}}

=============================================================================
