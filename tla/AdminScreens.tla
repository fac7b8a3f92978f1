---------------------------- MODULE AdminScreens ----------------------------
(***************************************************************************)
(* The administrator's two clients: the web console (frontend/web/app/admin) *)
(* with its shell, and the admin screens of the mobile app                    *)
(* (frontend/mobile/app/admin), whose queries share one prefix.              *)
(***************************************************************************)
EXTENDS ScreenRows

LOCAL Admin(name, shows, offers) == Screen("admin", name, shows, offers)
LOCAL Phone(name, shows, offers) == Screen("phone", name, shows, offers)

\* The rows each query of the console shows, lists or counts; a name joined to
\* them and the order of a list are not followed.  player is the number of
\* players, which an account suspended still counts in.
AdminReads ==
  [q \in {"admin-arenas", "admin-arena"} |-> {"arena"}] @@
  [q \in {"admin-overview"} |-> {"arena", "complaint", "booking", "slot", "player"}] @@
  [q \in {"admin-users", "admin-user", "admin-palette-users"} |-> {"user"}] @@
  [q \in {"admin-complaints"} |-> {"complaint"}] @@
  [q \in {"admin-reported-reviews"} |-> {"theirs"}] @@
  [q \in {"admin-bookings", "admin-payments"} |-> {"booking"}] @@
  [q \in {"admin-settings"} |-> {"settings"}] @@
  [q \in {"admin-audit-logs"} |-> {"arena", "user", "complaint", "theirs", "settings"}]

PhoneReads ==
  [q \in {"overview"} |-> {"arena", "complaint", "refund", "booking"}] @@
  [q \in {"unread", "notifications"} |-> {"notice"}] @@
  [q \in {"arenas"} |-> {"arena"}] @@
  [q \in {"arena"} |-> {"arena", "booking"}] @@
  [q \in {"users", "user"} |-> {"user"}] @@
  [q \in {"complaints", "complaint"} |-> {"complaint"}] @@
  [q \in {"payments", "refunds"} |-> {"refund", "booking"}]

-----------------------------------------------------------------------------
(* The console: arenas *)

ApproveArena == Operation("approve-arena", "arena", {}, ArenaApproved, {"admin-arenas"}, FALSE)
RejectArena == Operation("reject-arena", "arena", {}, ArenaRejected, {"admin-arenas"}, FALSE)

\* Suspending or removing an arena cancels what is booked there, and frees the hours.
ModerationKeys == {"admin-arenas", "admin-arena"}
SuspendArena == Operation("suspend-arena", "arena", {"booking", "slot"}, ArenaSuspended, ModerationKeys, FALSE)
ReactivateArena == Operation("reactivate-arena", "arena", {}, ArenaReactivated, ModerationKeys, FALSE)
RemoveArena == Operation("remove-arena", "arena", {"booking", "slot"}, ArenaRemoved, ModerationKeys, FALSE)

QueueOffers ==
  {Offer("approve-arena", "admin-arenas", {"pending"}), Offer("reject-arena", "admin-arenas", {"pending"})}

\* The decision queue of the dashboard: waiting arenas and open complaints.
DecisionQueueShows == {"admin-arenas", "admin-complaints"}

DashboardPage == Admin("dashboard", {"admin-overview"} \union DecisionQueueShows, QueueOffers)

QueuePage == Admin("arena-queue", {"admin-arenas"}, QueueOffers)

\* Only the actions valid for the arena as its card shows it.
ArenaCardOffers ==
  {Offer("suspend-arena", "admin-arenas", {"approved", "offline"}),
   Offer("reactivate-arena", "admin-arenas", {"suspended"}),
   Offer("remove-arena", "admin-arenas", ArenaRow.statuses \ {"none", "removed"})}

ArenaDetailShows == {"admin-arena"}

ArenaDirectoryPage == Admin("arena-directory", {"admin-arenas"} \union ArenaDetailShows, ArenaCardOffers)

-----------------------------------------------------------------------------
(* The console: people, complaints, reviews, settings *)

UserKeys == {"admin-users"}
SuspendUser == Operation("suspend-user", "user", {}, UserSuspended, UserKeys, FALSE)
ReactivateUser == Operation("reactivate-user", "user", {}, UserReactivated, UserKeys, FALSE)
DeleteUser == Operation("delete-user", "user", {"player"}, UserDeleted, UserKeys, FALSE)

UserOffers ==
  {Offer("suspend-user", "admin-users", {"active"}), Offer("reactivate-user", "admin-users", {"suspended"}),
   Offer("delete-user", "admin-users", {"active", "suspended"})}

UsersPage == Admin("users", {"admin-users", "admin-user"}, UserOffers)

RespondToComplaint ==
  Operation("respond-complaint", "complaint", {}, ComplaintAnswered, {"admin-complaints"}, FALSE)

\* An answered complaint can be answered again.
ComplaintsPage ==
  Admin("complaints", {"admin-complaints"},
        {Offer("respond-complaint", "admin-complaints", {"open", "answered"})})

ReportKeys == {"admin-reported-reviews"}
DismissReport == Operation("dismiss-report", "theirs", {}, ReportDismissed, ReportKeys, FALSE)
RemoveReported == Operation("remove-reported", "theirs", {}, ReviewDeleted, ReportKeys, FALSE)

ReportedReviewsPage ==
  Admin("reported-reviews", {"admin-reported-reviews"},
        {Offer("dismiss-report", "admin-reported-reviews", {"reported"}),
         Offer("remove-reported", "admin-reported-reviews", {"reported"})})

BookingsPage == Admin("bookings", {"admin-bookings"}, {})

PaymentsPage == Admin("payments", {"admin-payments"}, {})

SaveSettings == Operation("save-settings", "settings", {}, SettingsSaved, {"admin-settings"}, FALSE)

SecurityTab == Admin("security", {"admin-audit-logs"}, {})

SettingsPage == Admin("settings", {"admin-settings"}, {Offer("save-settings", "admin-settings", {"set"})})

\* The number beside Approvals, the bell, the search over everything.
AdminSidebar == Shell("admin", "sidebar", {"admin-arenas"}, {})

AdminAlerts == Shell("admin", "alerts", {"admin-overview"}, {})

AdminPalette == Shell("admin", "palette", {"admin-palette-users"}, {})

-----------------------------------------------------------------------------
(* The phone *)

\* ADMIN_KEY: every admin query of the phone.
AdminKey == DOMAIN PhoneReads

\* Approved, rejected, or found handled by somebody else: back to the list.
PhoneDecision(name, gives) ==
  [Operation(name, "arena", {}, gives, AdminKey, TRUE) EXCEPT !.onError = AdminKey]
PhoneApproveArena == PhoneDecision("approve-arena", ArenaApproved)
PhoneRejectArena == PhoneDecision("reject-arena", ArenaRejected)

PhoneModeration(name, also, gives) ==
  [Operation(name, "arena", also, gives, AdminKey, FALSE) EXCEPT !.onError = AdminKey]
PhoneSuspendArena == PhoneModeration("suspend-arena", {"booking", "refund"}, ArenaSuspended)
PhoneReactivateArena == PhoneModeration("reactivate-arena", {}, ArenaReactivated)

PhoneSuspendUser == Operation("suspend-user", "user", {}, UserSuspended, AdminKey, FALSE)
PhoneReactivateUser == Operation("reactivate-user", "user", {}, UserReactivated, AdminKey, FALSE)

PhoneMarkPaid ==
  [Operation("mark-paid", "refund", {}, RefundPaid, AdminKey, FALSE) EXCEPT !.onError = {"refunds"}]

\* The answer is put in the cache as the complaint itself.
PhoneReply ==
  [Operation("reply", "complaint", {}, ComplaintAnswered, {"complaints", "overview"}, FALSE)
     EXCEPT !.puts = {"complaint"}]

\* Opening the list reads everything; the list keeps what was new marked.
PhoneReadAll == Operation("read-all", "notice", {}, NoticeRead, {"unread"}, FALSE)

ApprovalOffers ==
  {Offer("approve-arena", "arena", {"pending"}), Offer("reject-arena", "arena", {"pending"})}
ApprovalScreen == Phone("approval", {"arena"}, ApprovalOffers)

ArenaOffers ==
  {Offer("suspend-arena", "arena", {"approved", "offline"}), Offer("reactivate-arena", "arena", {"suspended"})}
ArenaScreen == Phone("arena", {"arena"}, ArenaOffers)

UserScreen ==
  Phone("user", {"user"},
        {Offer("suspend-user", "user", {"active"}), Offer("reactivate-user", "user", {"suspended"})})

RefundsScreen == Phone("payments", {"payments", "refunds"}, {Offer("mark-paid", "refunds", {"waiting"})})

ComplaintScreen ==
  Phone("complaint", {"complaint"}, {Offer("reply", "complaint", {"open", "answered"})})

NoticesScreen == Phone("notifications", {"notifications"}, {Offer("read-all", "notifications", {"unread"})})

OverviewTab == Phone("overview", {"overview", "unread"}, {})

ApprovalsTab == Phone("approvals", {"arenas"}, {})

ComplaintsTab == Phone("complaints", {"complaints"}, {})

ArenasScreen == Phone("arenas", {"arenas"}, {})

UsersScreen == Phone("users", {"users"}, {})

\* The numbers on the tabs.
PhoneTabs == Shell("phone", "tabs", {"overview"}, {})

-----------------------------------------------------------------------------

\* What the console forgets to fetch again.  The bell and the dashboard keep
\* counting what was decided, and a player deleted; an arena decided in the queue keeps its old detail,
\* a suspended person theirs and their place in the search; the bookings a
\* suspension cancelled stay in the lists; the audit log is never read again.
AdminLags ==
  ({"approve-arena", "reject-arena", "suspend-arena", "reactivate-arena", "remove-arena",
    "respond-complaint", "delete-user"} \X {"admin-overview"})
  \union ({"approve-arena", "reject-arena"} \X {"admin-arena"})
  \union ({"suspend-user", "reactivate-user", "delete-user"} \X {"admin-user", "admin-palette-users"})
  \union ({"suspend-arena", "remove-arena"} \X {"admin-bookings", "admin-payments"})
  \union ({"approve-arena", "reject-arena", "suspend-arena", "reactivate-arena", "remove-arena",
           "suspend-user", "reactivate-user", "delete-user", "respond-complaint", "dismiss-report",
           "remove-reported", "save-settings"} \X {"admin-audit-logs"})

PhoneLags == {<<"read-all", "notifications">>}

AdminPages ==
  {DashboardPage, QueuePage, ArenaDirectoryPage, UsersPage, ComplaintsPage, ReportedReviewsPage,
   BookingsPage, PaymentsPage, SecurityTab, SettingsPage, AdminSidebar, AdminAlerts, AdminPalette}

AdminOperations ==
  {[client |-> "admin", op |-> o] : o \in
    {ApproveArena, RejectArena, SuspendArena, ReactivateArena, RemoveArena, SuspendUser, ReactivateUser,
     DeleteUser, RespondToComplaint, DismissReport, RemoveReported, SaveSettings}}

PhonePages ==
  {ApprovalScreen, ArenaScreen, UserScreen, RefundsScreen, ComplaintScreen, NoticesScreen, OverviewTab,
   ApprovalsTab, ComplaintsTab, ArenasScreen, UsersScreen, PhoneTabs}

PhoneOperations ==
  {[client |-> "phone", op |-> o] : o \in
    {PhoneApproveArena, PhoneRejectArena, PhoneSuspendArena, PhoneReactivateArena, PhoneSuspendUser,
     PhoneReactivateUser, PhoneMarkPaid, PhoneReply, PhoneReadAll}}

=============================================================================
