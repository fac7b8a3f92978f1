----------------------------- MODULE ScreenRows -----------------------------
(***************************************************************************)
(* The rows the screens of the three clients show, and the form in which    *)
(* the tables of PlayerScreens, OwnerScreens and AdminScreens describe a     *)
(* screen and an operation.  A row is what an offer of a screen can tell     *)
(* apart: its status.  Moves are what others (the other side, an            *)
(* administrator, the scheduler, the clock) do to it meanwhile.              *)
(***************************************************************************)
EXTENDS TLC

Becomes(S, t) == [s \in S |-> t]
Stays(S) == [s \in S |-> s]

-----------------------------------------------------------------------------
(* Rows: the statuses the server gives them, and their own life *)

\* A booking group: unpaid and receipt are its two pending statuses, started
\* is confirmed with its time begun.
BookingRow ==
  [statuses |-> {"unpaid", "receipt", "confirmed", "started", "completed", "cancelled"},
   moves |-> {<<"unpaid", "confirmed">>, <<"unpaid", "cancelled">>,
              <<"receipt", "confirmed">>, <<"receipt", "cancelled">>,
              <<"confirmed", "started">>, <<"confirmed", "cancelled">>,
              <<"started", "completed">>}]

\* A match as one player sees it: full is full, and started begun, without them.
MatchRow ==
  [statuses |-> {"none", "open", "full", "joined", "hosting", "started", "cancelled"},
   moves |-> {<<"open", "full">>, <<"full", "open">>, <<"open", "started">>, <<"open", "cancelled">>,
              <<"joined", "cancelled">>, <<"hosting", "cancelled">>}]

\* The review of one completed booking; reported reviews wait for the admin.
ReviewRow ==
  [statuses |-> {"none", "posted", "reported", "replied"},
   moves |-> {<<"posted", "reported">>, <<"posted", "replied">>, <<"reported", "none">>,
              <<"reported", "posted">>, <<"posted", "none">>}]

\* offline: approved, and taken off by its owner.
ArenaRow ==
  [statuses |-> {"none", "pending", "approved", "rejected", "suspended", "removed", "offline"},
   moves |-> {<<"pending", "approved">>, <<"pending", "rejected">>, <<"rejected", "pending">>,
              <<"approved", "suspended">>, <<"suspended", "approved">>, <<"approved", "removed">>,
              <<"approved", "offline">>}]

\* A court's hour: held and booked are one, the owner may not touch either.
SlotRow ==
  [statuses |-> {"free", "booked", "closed"},
   moves |-> {<<"free", "booked">>, <<"booked", "free">>}]

RefundRow ==
  [statuses |-> {"none", "waiting", "paid"}, moves |-> {<<"none", "waiting">>, <<"waiting", "paid">>}]

\* A court, pricing rule, discount or bank account of an arena; off is not
\* available, or not active.
ItemRow ==
  [statuses |-> {"none", "on", "off"}, moves |-> {<<"on", "off">>, <<"on", "none">>}]

\* A rental item: rented has units out.
EquipmentRow ==
  [statuses |-> {"none", "on", "rented"},
   moves |-> {<<"on", "rented">>, <<"rented", "on">>, <<"on", "none">>}]

\* The reminder of an unpaid booking: due again an hour after the last one.
ReminderRow ==
  [statuses |-> {"due", "sent"}, moves |-> {<<"sent", "due">>}]

NoticeRow ==
  [statuses |-> {"unread", "read"}, moves |-> {<<"unread", "read">>}]

ComplaintRow ==
  [statuses |-> {"none", "open", "answered"}, moves |-> {<<"open", "answered">>}]

UserRow ==
  [statuses |-> {"active", "suspended", "deleted"},
   moves |-> {<<"active", "suspended">>, <<"suspended", "active">>, <<"active", "deleted">>}]

SettingsRow ==
  [statuses |-> {"set"}, moves |-> {<<"set", "set">>}]

\* theirs is the review of another player; hosted and sent do not exist yet;
\* site is the arena of a court.
Rows ==
  [r \in {"court", "rule", "discount", "bank"} |-> ItemRow] @@
  [booking |-> BookingRow, match |-> MatchRow, hosted |-> MatchRow, review |-> ReviewRow,
   theirs |-> ReviewRow, reminder |-> ReminderRow, arena |-> ArenaRow, site |-> ArenaRow,
   slot |-> SlotRow, refund |-> RefundRow,
   equipment |-> EquipmentRow, notice |-> NoticeRow, complaint |-> ComplaintRow, sent |-> ComplaintRow,
   user |-> UserRow, settings |-> SettingsRow]

Every(row) == Rows[row].statuses

-----------------------------------------------------------------------------
(* What the server makes of a row, and the statuses it accepts *)

BookingCancelled == Becomes({"unpaid", "receipt", "confirmed"}, "cancelled")
BookingMoved == Stays({"receipt", "confirmed"})
ReceiptApproved == Becomes({"receipt"}, "confirmed")
ReceiptRejected == Becomes({"receipt"}, "cancelled")
PlayerReminded == Becomes({"due"}, "sent")

MatchPosted == Becomes({"none", "cancelled"}, "hosting")
MatchJoined == Becomes({"open"}, "joined")
MatchLeft == Becomes({"joined"}, "open") @@ Becomes({"hosting", "cancelled"}, "cancelled")
MatchCancelled == Becomes({"hosting", "cancelled"}, "cancelled")

Written == {"posted", "reported", "replied"}
ReviewPosted == Becomes({"none"}, "posted")
ReviewEdited == Stays(Written)
ReviewDeleted == Becomes(Written, "none")
ReviewReported == Becomes(Written, "reported")
ReviewAnswered == Becomes({"posted", "replied"}, "replied") @@ Stays({"reported"})
ReportDismissed == Becomes({"reported"}, "posted")

ArenaApproved == Becomes({"pending"}, "approved")
ArenaRejected == Becomes({"pending"}, "rejected")
ArenaSuspended == Becomes({"approved", "offline"}, "suspended")
ArenaReactivated == Becomes({"suspended"}, "approved")
ArenaRemoved == Becomes(ArenaRow.statuses \ {"none", "removed"}, "removed")
ArenaCreated == Becomes({"none"}, "pending")
ArenaEdited == Stays(ArenaRow.statuses \ {"none", "removed"})
ArenaDeactivated == Becomes({"approved", "offline"}, "offline") @@ Stays({"pending", "rejected", "suspended"})
ArenaResubmitted == Becomes({"rejected"}, "pending")

UserSuspended == Becomes({"active", "suspended"}, "suspended") @@ Stays({"deleted"})
UserReactivated == Becomes({"active", "suspended"}, "active") @@ Stays({"deleted"})
UserDeleted == Becomes({"active", "suspended"}, "deleted")

ComplaintSent == Becomes({"none"}, "open")
ComplaintAnswered == Becomes({"open", "answered"}, "answered")
NoticeRead == Becomes({"unread", "read"}, "read")
RefundPaid == Becomes({"waiting", "paid"}, "paid")

SlotsGenerated == Stays(ArenaRow.statuses \ {"none", "suspended", "removed"})
SlotClosed == Becomes({"free", "closed"}, "closed")
SlotOpened == Becomes({"free", "closed"}, "free")

ItemAdded == Becomes({"none"}, "on")
ItemSaved == Stays({"on", "off"})
ItemDeleted == Becomes({"on", "off"}, "none")
EquipmentSaved == Stays({"on", "rented"})
EquipmentDeleted == Becomes({"on"}, "none")

SettingsSaved == Stays({"set"})

-----------------------------------------------------------------------------
(* Screens and operations *)

\* A button of a screen: the operation, the query whose row it looks at, and
\* the statuses in which it is there to be pressed.
Offer(op, from, when) == [op |-> op, from |-> from, when |-> when]

\* shell: on screen with every page of its client; a phone's screens pile up,
\* a browser has one page beside the shell.
Screen(client, name, shows, offers) ==
  [client |-> client, name |-> name, shows |-> shows, offers |-> offers, shell |-> FALSE]
Shell(client, name, shows, offers) ==
  [client |-> client, name |-> name, shows |-> shows, offers |-> offers, shell |-> TRUE]

\* An operation: the row it is about, and the other kinds of rows it changes;
\* what the server makes of each status it accepts it in; the queries its
\* success invalidates; and whether its screen is left then.
Operation(name, row, also, gives, drops, leaves) ==
  [name |-> name, row |-> row, touches |-> {row} \union also, gives |-> gives,
   drops |-> drops, onError |-> {}, puts |-> {}, leaves |-> leaves]

=============================================================================
