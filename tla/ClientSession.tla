--------------------------- MODULE ClientSession ---------------------------
(***************************************************************************)
(* The sign-in of the mobile app (frontend/mobile): the token pair in the  *)
(* auth store and its copy in the keychain, the requests that carry the    *)
(* access token, the single refresh they share, the start-up check of a    *)
(* saved sign-in, and the ways in and out.  The server's side is           *)
(* auth/sessions.py: pairs are rotated, and a used one ends its family.    *)
(* Nothing that is under way is stopped when the phone signs out, so a     *)
(* sign-in may run beside it.  Bound: one sign-in at a time; a person who  *)
(* leaves the screen of one that is unanswered starts no other.            *)
(***************************************************************************)
EXTENDS TokenPairs

CONSTANT
  Asks          \* what the screens ask of the server, a subset of Asking below

VARIABLES
  pairs,        \* server: issued pairs, their owner and family; used, revoked, cut off
  phone,        \* the store of the running app and what the root layout remembers
  saved,        \* the pair in the keychain
  call,         \* one authed request of each kind
  refresh,      \* refreshPromise of lib/api.ts
  signin,       \* the sign-in in progress
  lost,         \* history: lost answers and pairs, and a sign-in beside older requests
  reused        \* history: the server met a used refresh token

vars == <<pairs, phone, saved, call, refresh, signin, lost, reused>>

Asking == {"page", "save", "logout", "end"}
Kinds == Asking \union {"check", "me"}
Ways == {"password", "code", "google"}

Call == [at : {"idle", "asked", "refused", "waiting", "again", "ok", "denied", "failed"},
         tok : Held, who : Accounts \union {NoOne}]
NoCall == [at |-> "idle", tok |-> 0, who |-> NoOne]
NoRefresh == [at |-> "idle", tok |-> 0, new |-> 0]
NoSignin == [at |-> "idle", how |-> "password", carries |-> FALSE, tok |-> 0]
Fresh == [tok |-> 0, user |-> NoOne, hydrated |-> FALSE, ready |-> FALSE,
          gaveUp |-> FALSE, checkFailed |-> FALSE]

TypeOK ==
  /\ pairs \in PairSets
  /\ phone \in [tok : Held, user : Accounts \union {NoOne}, hydrated : BOOLEAN, ready : BOOLEAN,
                gaveUp : BOOLEAN, checkFailed : BOOLEAN]
  /\ saved \in Held
  /\ call \in [Kinds -> Call]
  /\ refresh \in [at : {"idle", "asked", "ok", "denied", "failed"}, tok : Held, new : Held]
  /\ signin \in [at : {"idle", "asked", "waiting", "again", "denied", "ok", "loading"}, how : Ways,
                 carries : BOOLEAN, tok : Held]
  /\ lost \in SUBSET {"answer", "pair", "beside"}
  /\ reused \in BOOLEAN

Init ==
  /\ pairs = NoPairs
  /\ phone = Fresh
  /\ saved = 0
  /\ call = [k \in Kinds |-> NoCall]
  /\ refresh = NoRefresh
  /\ signin = NoSignin
  /\ lost = {}
  /\ reused = FALSE

-----------------------------------------------------------------------------
(* The store and the root layout *)

SignedIn == phone.tok # 0 /\ phone.user # NoOne

SessionReady(p) == p.hydrated /\ (p.tok = 0 \/ p.user # NoOne \/ p.checkFailed)

\* The app once it has been ready stays ready (everReady).
Settled(p) == [p EXCEPT !.ready = @ \/ p.gaveUp \/ SessionReady(p)]

\* clear(): no pair, no account, and the queries are dropped, the check with them.
Cleared(p) == Settled([p EXCEPT !.tok = 0, !.user = NoOne, !.checkFailed = FALSE])
ClearCalls(c) == [c EXCEPT !["check"] = NoCall]

\* The Log in screen is what the guards of the navigator leave.
AtLogin == phone.ready /\ ~SignedIn

\* Log in offers "Try again": a sign-in is saved and could not be checked.
Unreachable == AtLogin /\ phone.tok # 0 /\ (phone.checkFailed \/ phone.gaveUp)

\* Nothing of an earlier session is still on its way.
Quiet == refresh.at = "idle" /\ \A k \in Kinds : call[k].at = "idle"

\* A request leaves with the access token of the moment.
Asked(t) == [at |-> "asked", tok |-> t, who |-> phone.user]

Hydrate ==
  /\ ~phone.hydrated
  /\ phone' = Settled([phone EXCEPT !.hydrated = TRUE, !.tok = saved])
  /\ UNCHANGED <<pairs, saved, call, refresh, signin, lost, reused>>

\* The keychain is written a moment after the store.
Persist ==
  /\ phone.hydrated
  /\ saved # phone.tok
  /\ saved' = phone.tok
  /\ UNCHANGED <<pairs, phone, call, refresh, signin, lost, reused>>

StartCheck ==
  /\ phone.hydrated /\ ~phone.ready
  /\ phone.tok # 0 /\ phone.user = NoOne
  /\ call["check"].at = "idle"
  /\ call' = [call EXCEPT !["check"] = Asked(phone.tok)]
  /\ UNCHANGED <<pairs, phone, saved, refresh, signin, lost, reused>>

\* "Try again" on Log in runs the check once more, a sign-in under way or not.
TryAgain ==
  /\ Unreachable
  /\ call["check"].at = "idle"
  /\ call' = [call EXCEPT !["check"] = Asked(phone.tok)]
  /\ phone' = [phone EXCEPT !.checkFailed = FALSE]
  /\ lost' = lost \union IF signin.at = "idle" THEN {} ELSE {"beside"}
  /\ UNCHANGED <<pairs, saved, refresh, signin, reused>>

\* The splash is left after SPLASH_MAX_MS whatever is unfinished.
GiveUp ==
  /\ phone.hydrated /\ ~phone.gaveUp
  /\ phone' = Settled([phone EXCEPT !.gaveUp = TRUE])
  /\ UNCHANGED <<pairs, saved, call, refresh, signin, lost, reused>>

CheckDone ==
  LET c == call["check"]
  IN /\ c.at \in {"ok", "denied", "failed"}
     /\ call' = [call EXCEPT !["check"] = NoCall]
     /\ phone' = CASE c.at = "ok"     -> Settled([phone EXCEPT !.user = c.who])
                   [] c.at = "denied" -> Cleared(phone)
                   [] c.at = "failed" -> Settled([phone EXCEPT !.checkFailed = TRUE])
     /\ UNCHANGED <<pairs, saved, refresh, signin, lost, reused>>

-----------------------------------------------------------------------------
(* lib/api.ts *)

\* A screen asks for something, saves the profile, logs out, or ends every
\* session (password changed, account deleted).
Ask(k) ==
  /\ k \in Asks
  /\ phone.ready /\ SignedIn
  /\ call[k].at = "idle"
  /\ call' = [call EXCEPT ![k] = Asked(phone.tok)]
  /\ UNCHANGED <<pairs, phone, saved, refresh, signin, lost, reused>>

Serve(k) ==
  LET c == call[k]
  IN /\ c.at \in {"asked", "again"}
     /\ IF AccessAccepted(pairs, c.tok)
        THEN /\ call' = [call EXCEPT ![k].at = "ok",
                           ![k].who = IF k = "save" THEN @ ELSE pairs.owner[c.tok]]
             /\ pairs' = CASE k = "logout" -> LogOut(pairs, c.tok)
                           [] k = "end"    -> RevokeAll(pairs, pairs.owner[c.tok])
                           [] OTHER        -> pairs
        ELSE /\ call' = [call EXCEPT ![k].at = IF c.at = "asked" THEN "refused" ELSE "denied"]
             /\ UNCHANGED pairs
     /\ UNCHANGED <<phone, saved, refresh, signin, lost, reused>>

\* No answer within the limit: the request may have been served or not.
TimeOut(k) ==
  /\ call[k].at \in {"asked", "again", "ok"}
  /\ call' = [call EXCEPT ![k].at = "failed"]
  /\ lost' = lost \union {"answer"}
  /\ UNCHANGED <<pairs, phone, saved, refresh, signin, reused>>

\* Mutant of RefreshPair: the pair the request went out with.
CapturedPair(c) == c.tok

RefreshPair(c) == phone.tok

\* A 401 waits for the one refresh, starting it with the pair the store holds now.
JoinRefresh(k) ==
  /\ call[k].at = "refused"
  /\ \/ /\ refresh.at # "idle"
        /\ call' = [call EXCEPT ![k].at = "waiting"]
        /\ UNCHANGED refresh
     \/ /\ refresh.at = "idle" /\ phone.tok # 0
        /\ call' = [call EXCEPT ![k].at = "waiting"]
        /\ refresh' = [at |-> "asked", tok |-> RefreshPair(call[k]), new |-> 0]
     \/ /\ refresh.at = "idle" /\ phone.tok = 0
        /\ call' = [call EXCEPT ![k].at = "denied"]
        /\ UNCHANGED refresh
  /\ UNCHANGED <<pairs, phone, saved, signin, lost, reused>>

\* sessions.rotate
RefreshServe ==
  LET t == refresh.tok
  IN /\ refresh.at = "asked"
     /\ \/ /\ Redeemable(pairs, t)
           /\ pairs.issued < MaxPairs
           /\ pairs' = Rotated(pairs, t)
           /\ refresh' = [refresh EXCEPT !.at = "ok", !.new = pairs.issued + 1]
           /\ UNCHANGED reused
        \/ /\ ~Redeemable(pairs, t)
           /\ pairs' = Rejected(pairs, t)
           /\ reused' = (reused \/ Alarming(pairs, t))
           /\ refresh' = [refresh EXCEPT !.at = "denied"]
     /\ UNCHANGED <<phone, saved, call, signin, lost>>

\* An answer that is an error without being a refusal (429, 5xx) is treated as one.
RefreshErrs ==
  /\ refresh.at = "asked"
  /\ refresh' = [refresh EXCEPT !.at = "denied"]
  /\ UNCHANGED <<pairs, phone, saved, call, signin, lost, reused>>

RefreshTimesOut ==
  /\ refresh.at \in {"asked", "ok"}
  /\ refresh' = [refresh EXCEPT !.at = "failed"]
  /\ lost' = lost \union IF refresh.at = "ok" THEN {"answer", "pair"} ELSE {"answer"}
  /\ UNCHANGED <<pairs, phone, saved, call, signin, reused>>

\* Everybody who waits goes on: with the new pair, without one, or with the error.
Resumed(c) ==
  IF c.at # "waiting" THEN c
  ELSE CASE refresh.at = "ok"     -> [c EXCEPT !.at = "again", !.tok = refresh.new]
         [] refresh.at = "denied" -> [c EXCEPT !.at = "denied"]
         [] refresh.at = "failed" -> [c EXCEPT !.at = "failed"]

RefreshSettles ==
  LET resumed == [k \in Kinds |-> Resumed(call[k])]
  IN /\ refresh.at \in {"ok", "denied", "failed"}
     /\ refresh' = NoRefresh
     /\ phone' = CASE refresh.at = "ok"     -> Settled([phone EXCEPT !.tok = refresh.new])
                   [] refresh.at = "denied" -> Cleared(phone)
                   [] refresh.at = "failed" -> phone
     /\ call' = IF refresh.at = "denied" THEN ClearCalls(resumed) ELSE resumed
     /\ signin' = IF signin.at # "waiting" THEN signin
                  ELSE [signin EXCEPT !.at = IF refresh.at = "ok" THEN "again" ELSE "denied"]
     /\ UNCHANGED <<pairs, saved, lost, reused>>

\* What the screen does with the answer.  A failed save puts the old account
\* record back; log out clears the phone whatever the server said.
Done(k) ==
  LET c == call[k]
      clears == k = "logout" \/ (k = "end" /\ c.at = "ok")
      after == [call EXCEPT ![k] = NoCall]
  IN /\ k \in Asking
     /\ c.at \in {"ok", "denied", "failed"}
     /\ call' = IF clears THEN ClearCalls(after) ELSE after
     /\ phone' = IF clears THEN Cleared(phone)
                 ELSE IF k = "save" THEN Settled([phone EXCEPT !.user = c.who])
                 ELSE phone
     /\ UNCHANGED <<pairs, saved, refresh, signin, lost, reused>>

-----------------------------------------------------------------------------
(* Signing in: log in, an emailed code (sign-up, admin), Google *)

\* The request carries the access token of a saved sign-in that was not checked.
LogIn(how) ==
  /\ AtLogin
  /\ signin.at = "idle"
  /\ signin' = [at |-> "asked", how |-> how, carries |-> phone.tok # 0, tok |-> 0]
  /\ lost' = lost \union IF Quiet THEN {} ELSE {"beside"}
  /\ UNCHANGED <<pairs, phone, saved, call, refresh, reused>>

SigninServe(a) ==
  /\ signin.at \in {"asked", "again"}
  /\ pairs.issued < MaxPairs
  /\ pairs' = Issue(pairs, a, 0)
  /\ signin' = [signin EXCEPT !.at = "ok", !.tok = pairs.issued + 1]
  /\ UNCHANGED <<phone, saved, call, refresh, lost, reused>>

\* A wrong password is a 401 like any other: with a token in it the request waits for
\* the one refresh too, and is sent once more.
SigninUnauthorized ==
  /\ signin.at = "asked" /\ signin.carries
  /\ \/ /\ refresh.at # "idle"
        /\ signin' = [signin EXCEPT !.at = "waiting"]
        /\ UNCHANGED refresh
     \/ /\ refresh.at = "idle" /\ phone.tok # 0
        /\ signin' = [signin EXCEPT !.at = "waiting"]
        /\ refresh' = [at |-> "asked", tok |-> phone.tok, new |-> 0]
     \/ /\ refresh.at = "idle" /\ phone.tok = 0
        /\ signin' = [signin EXCEPT !.at = "denied"]
        /\ UNCHANGED refresh
  /\ UNCHANGED <<pairs, phone, saved, call, lost, reused>>

\* "Do not keep half a sign-in": Log in clears a store with a pair and no account.
DropHalf ==
  IF signin.how = "password" /\ phone.tok # 0 /\ phone.user = NoOne
  THEN phone' = Cleared(phone) /\ call' = ClearCalls([call EXCEPT !["me"] = NoCall])
  ELSE phone' = phone /\ call' = [call EXCEPT !["me"] = NoCall]

\* Refused, or the server was not reached.
SigninFails ==
  /\ signin.at \in {"asked", "again", "denied", "ok"}
  /\ DropHalf
  /\ signin' = NoSignin
  /\ UNCHANGED <<pairs, saved, refresh, lost, reused>>

\* Google answers with the account; the others store the pair and load it.
SigninAnswered ==
  /\ signin.at = "ok"
  /\ IF signin.how = "google"
     THEN /\ phone' = Settled([phone EXCEPT !.tok = signin.tok, !.user = pairs.owner[signin.tok]])
          /\ signin' = NoSignin
          /\ UNCHANGED call
     ELSE /\ phone' = Settled([phone EXCEPT !.tok = signin.tok])
          /\ signin' = [signin EXCEPT !.at = "loading"]
          /\ call' = [call EXCEPT !["me"] = Asked(signin.tok)]
  /\ UNCHANGED <<pairs, saved, refresh, lost, reused>>

\* setSession(tokens, me): the pair of the sign-in, whatever the store holds by now.
AccountLoaded ==
  /\ signin.at = "loading"
  /\ call["me"].at = "ok"
  /\ phone' = Settled([phone EXCEPT !.tok = signin.tok, !.user = call["me"].who])
  /\ call' = [call EXCEPT !["me"] = NoCall]
  /\ signin' = NoSignin
  /\ UNCHANGED <<pairs, saved, refresh, lost, reused>>

AccountNotLoaded ==
  /\ signin.at = "loading"
  /\ call["me"].at \in {"denied", "failed"}
  /\ DropHalf
  /\ signin' = NoSignin
  /\ UNCHANGED <<pairs, saved, refresh, lost, reused>>

-----------------------------------------------------------------------------
(* The rest of the world *)

\* 15 minutes: an access token outlives the sign-in or the repeated request (20
\* seconds at most) that has just received it.
Expire(t) ==
  /\ t <= pairs.issued /\ t \notin pairs.cut
  /\ t \notin {signin.tok, refresh.new}
  /\ \A k \in Kinds : ~(call[k].at = "again" /\ call[k].tok = t)
  /\ pairs' = [pairs EXCEPT !.cut = @ \union {t}]
  /\ UNCHANGED <<phone, saved, call, refresh, signin, lost, reused>>

\* The account is suspended, or its password changed elsewhere.
EndElsewhere(a) ==
  /\ PairsOf(pairs, a) \ pairs.cut # {}
  /\ pairs' = RevokeAll(pairs, a)
  /\ UNCHANGED <<phone, saved, call, refresh, signin, lost, reused>>

\* The app is closed: what was in memory is gone.
Kill ==
  /\ phone.hydrated
  /\ phone' = Fresh
  /\ call' = [k \in Kinds |-> NoCall]
  /\ refresh' = NoRefresh
  /\ signin' = NoSignin
  /\ lost' = lost \union IF saved # phone.tok \/ refresh.at = "ok" THEN {"answer", "pair"}
                         ELSE IF Quiet THEN {} ELSE {"answer"}
  /\ UNCHANGED <<pairs, saved, reused>>

Requests == \E k \in Kinds : Ask(k) \/ Serve(k) \/ TimeOut(k) \/ JoinRefresh(k) \/ Done(k)

Refreshes == RefreshServe \/ RefreshErrs \/ RefreshTimesOut \/ RefreshSettles

Signins ==
  \/ \E how \in Ways : LogIn(how)
  \/ \E a \in Accounts : SigninServe(a)
  \/ SigninUnauthorized \/ SigninFails \/ SigninAnswered \/ AccountLoaded \/ AccountNotLoaded

Next ==
  \/ Hydrate \/ Persist \/ StartCheck \/ TryAgain \/ GiveUp \/ CheckDone
  \/ Requests \/ Refreshes \/ Signins
  \/ \E t \in Ids : Expire(t)
  \/ \E a \in Accounts : EndElsewhere(a)
  \/ Kill

Spec == Init /\ [][Next]_vars

-----------------------------------------------------------------------------
(* Properties *)

\* The reuse alarm of the server stays silent for a phone that lost no answer
\* to a refresh and was not closed before the new pair was written: requests
\* share one refresh and it takes the pair the store holds at that moment.
\* The exception is a sign-in beside older requests: a late 401 of one of them
\* renews the pair of the sign-in before setSession puts that pair back.
NoSelfReuse == reused => lost \intersect {"pair", "beside"} # {}

LatePairDead ==
  (phone.tok = 0 /\ phone.hydrated /\ phone'.tok # 0 /\ signin.at = "idle") =>
    (lost \intersect {"answer", "beside"} # {} \/ ~Redeemable(pairs, phone'.tok))

\* A pair that reaches a signed-out phone without a sign-in (a refresh still on
\* its way when the person logged out) is one the server no longer renews, as
\* long as no answer was lost and nobody signed in beside older requests:
\* logging out waits for the refresh it shares.
LatePairIsDead == [][LatePairDead]_vars

=============================================================================
