------------------------------ MODULE Clients ------------------------------
(***************************************************************************)
(* The parts of the two front ends side by side.  They keep state of their *)
(* own and share none, so a behaviour of this module is one of one part,   *)
(* chosen at the start: its variables move and the others' stay 0.  At the *)
(* checkout the person waits for each answer and tries no code once the    *)
(* booking is made (Racing, LateCode of PlayerCheckout), and the consoles' *)
(* cookie ends (CookieEnds of WebSession).                                 *)
(***************************************************************************)
EXTENDS CodeParams

CONSTANTS
  Nobody,                                        \* no account
  PhoneAccounts, PhonePairs, PhoneAsks,          \* ClientSession
  ConsoleAccounts, ConsolePairs, Tabs,           \* WebSession
  MaxBookings,                                   \* PlayerCheckout
  Last, MaxPicked, MaxInbox,                     \* LiveSlots
  Arenas, Taps,                                  \* LikedArenas
  Editors, Sections, MaxEdits,                   \* SettingsForm
  Pages, Operations, Reads, Lagging, Unchecked, OneAtATime      \* Screens

\* Nobody is no account, the bounds are numbers, a console has an owner's role, and
\* "away" is no section of the settings.
ASSUME NobodyAssumption == Nobody \notin PhoneAccounts \union ConsoleAccounts
ASSUME RolesAssumption == "owner" \in ConsoleAccounts
ASSUME PairsAssumption == PhonePairs \in Nat /\ ConsolePairs \in Nat
ASSUME AsksAssumption == PhoneAsks \subseteq {"page", "save", "logout", "end"}
ASSUME ArenasAssumption == Arenas # {}
ASSUME HoursAssumption == Last \in Nat /\ MaxPicked \in Nat \ {0}
ASSUME EditsAssumption == MaxEdits \in Nat
ASSUME SectionsAssumption == "away" \notin Sections

VARIABLES
  part,
  pairs, phone, saved, call, refresh, signin, lost, reused,                \* ClientSession
  tokens, kept, cookie, window, ask, renew, parted, alarm,                 \* WebSession
  otp, cool, gate, flow, step, boxes, lastSent, wait, since, checking, asking, mishap,
  booking, taken, screen, remembered, price, paying, leaving, sending, missed,
  hours, releasing, socket, inbox, fetch, list, picked, announced, unseen, \* LiveSlots
  likes, hearts, aged, fetching, tap, slips,                               \* LikedArenas
  settings, edits, tab, form, known, reading, saving, spoiled,             \* SettingsForm
  subject, row, mounted, cached, outdated, load, work, moved, excused      \* Screens

-----------------------------------------------------------------------------
(* The instances *)

Session == INSTANCE ClientSession WITH
  Accounts <- PhoneAccounts, NoOne <- Nobody, MaxPairs <- PhonePairs, Asks <- PhoneAsks
Web == INSTANCE WebSession WITH
  Accounts <- ConsoleAccounts, NoOne <- Nobody, MaxPairs <- ConsolePairs, CookieEnds <- TRUE
Code == INSTANCE CodeEntry
Checkout == INSTANCE PlayerCheckout WITH Racing <- FALSE, LateCode <- FALSE
Slots == INSTANCE LiveSlots
Liked == INSTANCE LikedArenas
Settings == INSTANCE SettingsForm
View == INSTANCE Screens

\* The tables of the screens keep to the statuses of the rows.
ASSUME RowsAssumption == View!RowsKnown

-----------------------------------------------------------------------------
(* One part moves *)

sessionVars == <<pairs, phone, saved, call, refresh, signin, lost, reused>>
webVars == <<tokens, kept, cookie, window, ask, renew, parted, alarm>>
codeVars == <<otp, cool, gate, flow, step, boxes, lastSent, wait, since, checking, asking, mishap>>
checkoutVars == <<booking, taken, screen, remembered, price, paying, leaving, sending, missed>>
slotsVars == <<hours, releasing, socket, inbox, fetch, list, picked, announced, unseen>>
likedVars == <<likes, hearts, aged, fetching, tap, slips>>
settingsVars == <<settings, edits, tab, form, known, reading, saving, spoiled>>
pagesVars == <<subject, row, mounted, cached, outdated, load, work, moved, excused>>

\* The value of the variables of the other parts.
NoSession ==
  /\ pairs = 0 /\ phone = 0 /\ saved = 0 /\ call = 0 /\ refresh = 0 /\ signin = 0 /\ lost = 0
  /\ reused = 0
NoWeb ==
  /\ tokens = 0 /\ kept = 0 /\ cookie = 0 /\ window = 0
  /\ ask = 0 /\ renew = 0 /\ parted = 0 /\ alarm = 0
NoCode ==
  /\ otp = 0 /\ cool = 0 /\ gate = 0 /\ flow = 0 /\ step = 0 /\ boxes = 0 /\ lastSent = 0
  /\ wait = 0 /\ since = 0 /\ checking = 0 /\ asking = 0 /\ mishap = 0
NoCheckout ==
  /\ booking = 0 /\ taken = 0 /\ screen = 0 /\ remembered = 0 /\ price = 0
  /\ paying = 0 /\ leaving = 0 /\ sending = 0 /\ missed = 0
NoSlots ==
  /\ hours = 0 /\ releasing = 0 /\ socket = 0 /\ inbox = 0 /\ fetch = 0
  /\ list = 0 /\ picked = 0 /\ announced = 0 /\ unseen = 0
NoLiked == likes = 0 /\ hearts = 0 /\ aged = 0 /\ fetching = 0 /\ tap = 0 /\ slips = 0
NoSettings ==
  /\ settings = 0 /\ edits = 0 /\ tab = 0 /\ form = 0
  /\ known = 0 /\ reading = 0 /\ saving = 0 /\ spoiled = 0
NoPages ==
  /\ subject = 0 /\ row = 0 /\ mounted = 0 /\ cached = 0 /\ outdated = 0
  /\ load = 0 /\ work = 0 /\ moved = 0 /\ excused = 0

Init ==
  /\ part \in {"session", "web", "code", "checkout", "slots", "liked", "settings", "pages"}
  /\ IF part = "session" THEN Session!Init ELSE NoSession
  /\ IF part = "web" THEN Web!Init ELSE NoWeb
  /\ IF part = "code" THEN Code!Init ELSE NoCode
  /\ IF part = "checkout" THEN Checkout!Init ELSE NoCheckout
  /\ IF part = "slots" THEN Slots!Init ELSE NoSlots
  /\ IF part = "liked" THEN Liked!Init ELSE NoLiked
  /\ IF part = "settings" THEN Settings!Init ELSE NoSettings
  /\ IF part = "pages" THEN View!Init ELSE NoPages

\* A step of part p; the variables of the other parts stay.
Only(p) ==
  /\ part = p /\ UNCHANGED part
  /\ p # "session" => UNCHANGED sessionVars
  /\ p # "web" => UNCHANGED webVars
  /\ p # "code" => UNCHANGED codeVars
  /\ p # "checkout" => UNCHANGED checkoutVars
  /\ p # "slots" => UNCHANGED slotsVars
  /\ p # "liked" => UNCHANGED likedVars
  /\ p # "settings" => UNCHANGED settingsVars
  /\ p # "pages" => UNCHANGED pagesVars

Next ==
  \/ Only("session") /\ Session!Next
  \/ Only("web") /\ Web!Next
  \/ Only("code") /\ Code!Next
  \/ Only("checkout") /\ Checkout!Next
  \/ Only("slots") /\ Slots!Next
  \/ Only("liked") /\ Liked!Next
  \/ Only("settings") /\ Settings!Next
  \/ Only("pages") /\ View!Next

vars ==
  <<part, sessionVars, webVars, codeVars, checkoutVars, slotsVars, likedVars, settingsVars, pagesVars>>

Spec == Init /\ [][Next]_vars

-----------------------------------------------------------------------------
(* Properties: each is its part's own, stated and explained in its module. *)

\* Every variable of every part has its type.
TypesOK ==
  CASE part = "session"  -> Session!TypeOK
    [] part = "web"      -> Web!TypeOK
    [] part = "code"     -> Code!TypeOK
    [] part = "checkout" -> Checkout!TypeOK
    [] part = "slots"    -> Slots!TypeOK
    [] part = "liked"    -> Liked!TypeOK
    [] part = "settings" -> Settings!TypeOK
    [] part = "pages"    -> View!TypeOK

\* store/auth.ts, lib/api.ts: one phone sets off the server's reuse alarm only after a
\* renewed pair was lost or somebody signed in beside older requests.
NoSelfReuse == part = "session" => Session!NoSelfReuse
\* lib/api.ts: no answer that comes after logging out signs the phone in again, unless an
\* answer was lost or somebody signed in beside older requests.
LatePairIsDead == [][part = "session" => Session!LatePairDead]_vars

\* web/middleware.ts: nobody signed in is kept on a sign-in page.
LetInAlone == part = "web" => Web!LetInAlone
\* web/services/api.ts: the reuse alarm needs two tabs with one pair, or a lost one.
AlarmHasCause == part = "web" => Web!AlarmHasCause

\* use-code-entry: a ready "Send a new code" gets a code, but for the hour's maximum and mishaps.
ReadyLinkIsServed == [][part = "code" => Code!ReadyLinkServed]_vars

\* booking/payment.tsx, slot-lost.tsx: nobody is told their own time was taken, unless the
\* answer that booked it was lost or a screen below asked for the price again.
OwnTimeNotLost == part = "checkout" => Checkout!OwnTimeNotLost
\* booking/awaiting, confirmed: the last screens say what the server has.
EndScreensAgree == part = "checkout" => Checkout!EndScreensAgree

\* useCourtSlots: the list catches up after an outage of the channel.
OutageIsCaughtUp == part = "slots" => Slots!OutageIsCaughtUp
\* court/[id]/slots.tsx: the selection is open and in one block.
SelectionStands == part = "slots" => Slots!SelectionStands

\* useLiked: at rest the hearts are the server's likes.
HeartsAreLikes == part = "liked" => Liked!HeartsAreLikes

\* settings/page.tsx: a patient administrator's tabs do not undo each other.
SurvivePatience == [][part = "settings" => (Settings!Undone => spoiled # {})]_vars

\* The query hooks: a person's own change reaches every screen that shows it.
OwnChangeShows == part = "pages" => View!OwnChangeShows
\* The screens: a button is refused only on a row the screen shows wrongly.
OnlyOldRowsRefused == part = "pages" => View!OnlyOldRowsRefused

=============================================================================
