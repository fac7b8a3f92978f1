--------------------------- MODULE PlayerScreens ---------------------------
(***************************************************************************)
(* The player's screens of the mobile app (frontend/mobile/app): what each  *)
(* shows and offers, and what its operations invalidate.                    *)
(***************************************************************************)
EXTENDS ScreenRows

LOCAL Player(name, shows, offers) == Screen("player", name, shows, offers)

\* The rows each query of the app shows, lists or counts; a name joined to them
\* and the order of a list are not followed.  A reported review stays in the
\* lists as it was and leaves the rating, also the one on the cards of a search;
\* hosted and sent are a match and a complaint that do not exist yet.  The refund
\* preview is asked anew for every sheet; a court's hours are LiveSlots.
PlayerReads ==
  [q \in {"booking-groups"} |-> {"booking", "review"}] @@
  [q \in {"booking-group", "my-payments"} |-> {"booking"}] @@
  [q \in {"match"} |-> {"match"}] @@
  [q \in {"open-matches", "my-matches"} |-> {"match", "hosted"}] @@
  [q \in {"arena-reviews", "arena-reviews-preview", "my-reviews"} |-> {"review"}] @@
  [q \in {"arena-rating", "arenas", "trending-arenas", "recommendations"} |-> {"review", "theirs"}] @@
  [q \in {"nlp"} |-> {"review", "theirs", "slot"}] @@
  [q \in {"slots-today", "court-availability"} |-> {"slot"}] @@
  [q \in {"arena-equipment"} |-> {"equipment"}] @@
  [q \in {"complaint"} |-> {"complaint"}] @@
  [q \in {"my-complaints"} |-> {"complaint", "sent"}] @@
  [q \in {"my-notifications", "unread-count"} |-> {"notice"}]

-----------------------------------------------------------------------------
(* Bookings *)

\* Cancelling a booking cancels its match as well, frees its hours and extras and
\* leaves the player a notice; an error shows what is left.
CancelBooking ==
  [Operation("cancel-booking", "booking", {"match", "slot", "equipment", "notice"}, BookingCancelled,
             {"booking-groups", "booking-group"}, TRUE)
     EXCEPT !.onError = {"booking-group"}]

\* The match of a moved booking moves with it; a refund of the difference is told.
MoveBooking ==
  Operation("move-booking", "booking", {"match", "slot", "notice"}, BookingMoved,
            {"booking-groups", "booking-group"}, TRUE)

BookingsTab == Player("bookings", {"booking-groups"}, {})

\* Paid or not, a booking can be cancelled until it starts.
BookingDetailOffers ==
  {Offer("cancel-booking", "booking-group", {"unpaid", "receipt", "confirmed"})}

BookingDetail ==
  Player("booking-detail", {"booking-group", "arena-rating"}, BookingDetailOffers)

\* Moving is for a paid booking; the screen itself says so when it is too late.
MoveOffers == {Offer("move-booking", "booking-group", {"receipt", "confirmed"})}

MoveScreen == Player("move", {"booking-group"}, MoveOffers)

PaymentsScreen == Player("payments", {"my-payments"}, {})

ReportScreen == Player("report", {"booking-groups"}, {})

-----------------------------------------------------------------------------
(* Matches *)

MatchKeys == {"match", "open-matches", "my-matches"}

PostMatch ==
  Operation("post-match", "hosted", {}, MatchPosted, {"open-matches", "my-matches"}, TRUE)

\* A refusal ("that match just filled up") reads the match again; the last to join
\* is told with the others that the match is full.
JoinMatch ==
  [Operation("join-match", "match", {"notice"}, MatchJoined, MatchKeys, FALSE) EXCEPT !.onError = MatchKeys]

LeaveMatch == Operation("leave-match", "match", {}, MatchLeft, MatchKeys, FALSE)
CancelMatch == Operation("cancel-match", "match", {}, MatchCancelled, MatchKeys, FALSE)

\* One button, by what the match is to the person.
MatchOffers ==
  {Offer("cancel-match", "match", {"hosting"}), Offer("leave-match", "match", {"joined"}),
   Offer("join-match", "match", {"open"})}

MatchScreen == Player("match", {"match"}, MatchOffers)

\* A booking with a match that is still on is not offered again.
PostMatchScreen ==
  Player("post-match", {"booking-groups", "my-matches"},
         {Offer("post-match", "my-matches", {"none", "cancelled"})})

PlayTab == Player("play", {"open-matches", "my-matches"}, {})

-----------------------------------------------------------------------------
(* Reviews *)

ReviewKeys ==
  {"arena-reviews", "arena-reviews-preview", "arena-rating", "my-reviews", "booking-groups"}

PostReview == Operation("post-review", "review", {}, ReviewPosted, ReviewKeys, FALSE)
EditReview == Operation("edit-review", "review", {}, ReviewEdited, ReviewKeys, FALSE)
RemoveReview == Operation("remove-review", "review", {}, ReviewDeleted, ReviewKeys, FALSE)

\* "Thanks. We will look at it.": nothing is fetched again.
ReportReview == Operation("report-review", "theirs", {}, ReviewReported, {}, FALSE)

\* The delete of the My reviews list has its own list of keys.
DeleteMyReview ==
  Operation("delete-my-review", "review", {}, ReviewDeleted,
            {"my-reviews", "arena-reviews", "arena-rating", "booking-groups"}, FALSE)

\* A game is written about once, the own review edited, the others' reported.
ArenaReviewsOffers ==
  {Offer("post-review", "arena-reviews", {"none"}), Offer("edit-review", "arena-reviews", Written),
   Offer("remove-review", "arena-reviews", Written), Offer("report-review", "arena-reviews", Written)}

ArenaReviewsScreen ==
  Player("arena-reviews", {"arena-reviews", "arena-rating", "booking-groups"}, ArenaReviewsOffers)

ArenaScreen == Player("arena", {"arena-rating", "arena-reviews-preview", "slots-today"}, {})

\* The screens before a checkout: a search, the days of a court, the extras.
ResultsTab == Player("results", {"arenas", "nlp"}, {})

SlotsScreen == Player("slots", {"court-availability"}, {})

ReviewScreen == Player("review", {"arena-equipment"}, {})

MyReviewsScreen ==
  Player("my-reviews", {"my-reviews"}, {Offer("delete-my-review", "my-reviews", Written)})

-----------------------------------------------------------------------------
(* Notifications, support, profile *)

NoticeKeys == {"my-notifications", "unread-count"}

\* Opening a notice marks it read and leads to what it is about.
ReadNotice == Operation("read-notice", "notice", {}, NoticeRead, NoticeKeys, FALSE)
ReadAllNotices == Operation("read-all-notices", "notice", {}, NoticeRead, NoticeKeys, FALSE)

NotificationsScreen ==
  Player("notifications", {"my-notifications"},
         {Offer("read-notice", "my-notifications", {"unread"}),
          Offer("read-all-notices", "my-notifications", {"unread"})})

HomeTab == Player("home", {"unread-count", "trending-arenas", "recommendations", "arenas"}, {})

SendComplaint == Operation("send-complaint", "sent", {}, ComplaintSent, {"my-complaints"}, TRUE)

NewComplaintScreen == Player("new-complaint", {}, {Offer("send-complaint", "", {"none"})})

SupportScreen == Player("support", {"my-complaints"}, {})

ComplaintScreen == Player("complaint", {"complaint"}, {})

ProfileTab == Player("profile", {"booking-groups", "my-reviews"}, {})

-----------------------------------------------------------------------------

\* What the code forgets to fetch again: the match, the payment, the hours, the
\* extras and the notice of a booking that was cancelled or moved, the notice of a
\* match that filled up, the arena's preview of a review deleted from My reviews,
\* the rating without the review just reported, and the ratings on the cards.
PlayerLags ==
  ({"cancel-booking", "move-booking"} \X
     (MatchKeys \union NoticeKeys \union {"my-payments", "slots-today", "court-availability", "nlp"}))
  \union {<<"cancel-booking", "arena-equipment">>}
  \union ({"join-match"} \X NoticeKeys)
  \union {<<"delete-my-review", "arena-reviews-preview">>, <<"report-review", "arena-rating">>}
  \union ({"post-review", "edit-review", "remove-review", "delete-my-review", "report-review"}
            \X {"arenas", "nlp", "trending-arenas", "recommendations"})

PlayerPages ==
  {BookingsTab, BookingDetail, MoveScreen, PaymentsScreen, ReportScreen, MatchScreen, PostMatchScreen,
   PlayTab, ArenaReviewsScreen, ArenaScreen, ResultsTab, SlotsScreen, ReviewScreen, MyReviewsScreen,
   NotificationsScreen, HomeTab, NewComplaintScreen, SupportScreen, ComplaintScreen, ProfileTab}

PlayerOperations ==
  {[client |-> "player", op |-> o] : o \in
    {CancelBooking, MoveBooking, PostMatch, JoinMatch, LeaveMatch, CancelMatch, PostReview, EditReview,
     RemoveReview, ReportReview, DeleteMyReview, ReadNotice, ReadAllNotices, SendComplaint}}

=============================================================================
