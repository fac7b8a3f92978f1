----------------------------- MODULE WebSession -----------------------------
(***************************************************************************)
(* The sign-in of the web consoles (frontend/web): every browser tab keeps  *)
(* the token pair and the account in memory and writes both to localStorage *)
(* on each change, but reads localStorage only when it loads; a cookie      *)
(* holds the role, and the middleware and the layouts decide by these who   *)
(* sees a console and who the sign-in page.                                 *)
(***************************************************************************)
EXTENDS TokenPairs

CONSTANTS
  Tabs,
  CookieEnds    \* whether the cookie's thirty days may pass

VARIABLES
  tokens,       \* server: the issued pairs (TokenPairs)
  kept,         \* localStorage: what the last writer among the tabs held
  cookie,       \* session_role, shared by the tabs
  window,       \* [Tabs -> page and memory of a tab]
  ask,          \* [Tabs -> its request in progress, by kind]
  renew,        \* [Tabs -> refreshPromise of services/api.ts]
  parted,       \* history: why a tab may be at odds with cookie and localStorage
  alarm         \* history: the server met a used refresh token

vars == <<tokens, kept, cookie, window, ask, renew, parted, alarm>>

Consoles == Accounts \ {"player"}       \* an account is named by its role
Kinds == {"page", "logout"}

None == [tok |-> 0, user |-> NoOne]
Closed == [open |-> FALSE, login |-> TRUE, console |-> "owner", tok |-> 0, user |-> NoOne,
           half |-> FALSE]
NoAsk == [at |-> "idle", tok |-> 0]
NoRenew == [at |-> "idle", tok |-> 0, new |-> 0]

TypeOK ==
  /\ tokens \in PairSets
  /\ kept \in [tok : Held, user : Accounts \union {NoOne}]
  /\ cookie \in Accounts \union {NoOne}
  /\ window \in [Tabs -> [open : BOOLEAN, login : BOOLEAN, console : Consoles, tok : Held,
                       user : Accounts \union {NoOne}, half : BOOLEAN]]
  /\ ask \in [Tabs -> [Kinds -> [at : {"idle", "asked", "refused", "waiting", "again", "over"},
                                 tok : Held]]]
  /\ renew \in [Tabs -> [at : {"idle", "asked", "ok", "denied", "failed"}, tok : Held, new : Held]]
  /\ parted \subseteq {"expired", "beside", "twins", "lost"}
  /\ alarm \in BOOLEAN

Init ==
  /\ tokens = NoPairs
  /\ kept = None /\ cookie = NoOne
  /\ window = [b \in Tabs |-> Closed]
  /\ ask = [b \in Tabs |-> [k \in Kinds |-> NoAsk]]
  /\ renew = [b \in Tabs |-> NoRenew]
  /\ parted = {} /\ alarm = FALSE

-----------------------------------------------------------------------------
(* store/auth.ts *)

Others(b) == {o \in Tabs \ {b} : window[o].open}

\* persist: localStorage holds what this window's store holds.
Written(t) == [tok |-> t.tok, user |-> t.user]

\* What a tab does to the shared cookie is news the other tabs never hear.
Beside(b) == IF Others(b) = {} THEN {} ELSE {"beside"}

\* Mutant of TokensSet: a renewed pair stays in memory.
TokensInMemory(b, tok, half) ==
  /\ window' = [window EXCEPT ![b].tok = tok, ![b].half = half]
  /\ UNCHANGED <<kept, cookie>>

\* setTokens
TokensSet(b, tok, half) ==
  /\ window' = [window EXCEPT ![b].tok = tok, ![b].half = half]
  /\ kept' = Written(window'[b])
  /\ UNCHANGED cookie

\* Mutant of RoleCookie: a cookie that is there is left alone.
RoleCookieOnce(role) == IF cookie = NoOne THEN role ELSE cookie

\* setRoleCookie
RoleCookie(role) == role

\* setSession, then on to the console, by way of the middleware.
SessionSet(b, tok, user) ==
  /\ cookie' = RoleCookie(user)
  /\ window' = [window EXCEPT ![b].tok = tok, ![b].user = user, ![b].half = FALSE,
                        ![b].login = cookie' # window[b].console]
  /\ kept' = Written(window'[b])
  /\ parted' = parted \union Beside(b)

\* clear()
SessionCleared(b) ==
  /\ window' = [window EXCEPT ![b].tok = 0, ![b].user = NoOne, ![b].half = FALSE]
  /\ kept' = None
  /\ cookie' = RoleCookie(NoOne)
  /\ parted' = parted \union Beside(b)

-----------------------------------------------------------------------------
(* Pages: middleware.ts, the two layouts and the two sign-in pages *)

\* A tab is opened at console c, or reloaded; the middleware asks the cookie, and
\* the store is read from localStorage.
Open(b, c) ==
  /\ ~window[b].open
  /\ window' = [window EXCEPT ![b] = [open |-> TRUE, login |-> cookie # c, console |-> c,
                                tok |-> kept.tok, user |-> kept.user, half |-> FALSE]]
  /\ parted' = parted \union
       (IF kept.tok # 0 /\ \E o \in Others(b) : kept.tok \in {window[o].tok, renew[o].tok}
        THEN {"twins"} ELSE {})
  /\ UNCHANGED <<tokens, kept, cookie, ask, renew, alarm>>

\* Closed or reloaded, whatever is on its way; a pair on its way is lost.
Close(b) ==
  /\ window[b].open
  /\ window' = [window EXCEPT ![b] = Closed]
  /\ ask' = [ask EXCEPT ![b] = [k \in Kinds |-> NoAsk]]
  /\ renew' = [renew EXCEPT ![b] = NoRenew]
  /\ parted' = parted \union (IF renew[b].at = "ok" THEN {"lost"} ELSE {})
  /\ UNCHANGED <<tokens, kept, cookie, alarm>>

\* Another page of the console: the middleware decides again.
Visit(b) ==
  /\ window[b].open /\ ~window[b].login
  /\ window' = [window EXCEPT ![b].login = cookie # window[b].console]
  /\ UNCHANGED <<tokens, kept, cookie, ask, renew, parted, alarm>>

\* The layout sends away whoever has no pair or not the role.
Turned(b) ==
  /\ window[b].open /\ ~window[b].login
  /\ window[b].tok = 0 \/ window[b].user # window[b].console
  /\ window' = [window EXCEPT ![b].login = TRUE]
  /\ UNCHANGED <<tokens, kept, cookie, ask, renew, parted, alarm>>

\* The sign-in page sends on whoever is signed in; the middleware has the last word.
SentOn(b) ==
  /\ window[b].open /\ window[b].login
  /\ window[b].user = window[b].console /\ cookie = window[b].console
  /\ window' = [window EXCEPT ![b].login = FALSE]
  /\ UNCHANGED <<tokens, kept, cookie, ask, renew, parted, alarm>>

\* Signing in: the pair is stored, then the account is loaded.  An administrator
\* has a sign-in page of their own.
SignIn(b, a) ==
  /\ window[b].open /\ window[b].login /\ ~window[b].half
  /\ a = "admin" => window[b].console = "admin"
  /\ tokens.issued < MaxPairs
  /\ tokens' = Issue(tokens, a, 0)
  /\ TokensSet(b, tokens'.issued, TRUE)
  /\ UNCHANGED <<ask, renew, parted, alarm>>

\* The account is right for this console, or everything is cleared again.
Loaded(b) ==
  LET a == tokens.owner[window[b].tok]
  IN /\ window[b].half
     /\ IF a = window[b].console THEN SessionSet(b, window[b].tok, a) ELSE SessionCleared(b)
     /\ UNCHANGED <<tokens, ask, renew, alarm>>

\* The answer does not come: the pair stays, without an account.
NotLoaded(b) ==
  /\ window[b].half
  /\ window' = [window EXCEPT ![b].half = FALSE]
  /\ UNCHANGED <<tokens, kept, cookie, ask, renew, parted, alarm>>

-----------------------------------------------------------------------------
(* services/api.ts *)

\* A page loads its data, or the person logs out.
Ask(b, k) ==
  /\ window[b].open /\ ~window[b].login /\ window[b].tok # 0 /\ window[b].user = window[b].console
  /\ ask[b][k].at = "idle"
  /\ ask' = [ask EXCEPT ![b][k] = [at |-> "asked", tok |-> window[b].tok]]
  /\ UNCHANGED <<tokens, kept, cookie, window, renew, parted, alarm>>

Serve(b, k) ==
  LET c == ask[b][k]
  IN /\ c.at \in {"asked", "again"}
     /\ IF AccessAccepted(tokens, c.tok)
        THEN /\ tokens' = IF k = "logout" THEN LogOut(tokens, c.tok) ELSE tokens
             /\ ask' = [ask EXCEPT ![b][k].at = "over"]
        ELSE /\ ask' = [ask EXCEPT ![b][k].at = IF c.at = "asked" THEN "refused" ELSE "over"]
             /\ UNCHANGED tokens
     /\ UNCHANGED <<kept, cookie, window, renew, parted, alarm>>

\* The network fails before the request arrives, or takes the answer.
Fail(b, k) ==
  /\ ask[b][k].at \in {"asked", "again"}
  /\ ask' = [ask EXCEPT ![b][k].at = "over"]
  /\ UNCHANGED <<tokens, kept, cookie, window, renew, parted, alarm>>

\* tryRefresh: the window's requests share one refresh, with the pair its store holds.
JoinRefresh(b, k) ==
  /\ ask[b][k].at = "refused"
  /\ IF renew[b].at = "idle" /\ window[b].tok = 0
     THEN ask' = [ask EXCEPT ![b][k].at = "over"] /\ UNCHANGED renew
     ELSE /\ ask' = [ask EXCEPT ![b][k].at = "waiting"]
          /\ renew' = IF renew[b].at # "idle" THEN renew
                      ELSE [renew EXCEPT ![b] = [at |-> "asked", tok |-> window[b].tok, new |-> 0]]
  /\ UNCHANGED <<tokens, kept, cookie, window, parted, alarm>>

RefreshServe(b) ==
  LET t == renew[b].tok
  IN /\ renew[b].at = "asked"
     /\ \/ /\ Redeemable(tokens, t) /\ tokens.issued < MaxPairs
           /\ tokens' = Rotated(tokens, t)
           /\ renew' = [renew EXCEPT ![b].at = "ok", ![b].new = tokens'.issued]
           /\ UNCHANGED alarm
        \/ /\ ~Redeemable(tokens, t)
           /\ tokens' = Rejected(tokens, t)
           /\ alarm' = (alarm \/ Alarming(tokens, t))
           /\ renew' = [renew EXCEPT ![b].at = "denied"]
     /\ UNCHANGED <<kept, cookie, window, ask, parted>>

\* fetch throws: nothing is cleared, and a pair already issued is lost.
RefreshFails(b) ==
  /\ renew[b].at \in {"asked", "ok"}
  /\ renew' = [renew EXCEPT ![b].at = "failed"]
  /\ parted' = parted \union (IF renew[b].at = "ok" THEN {"lost"} ELSE {})
  /\ UNCHANGED <<tokens, kept, cookie, window, ask, alarm>>

RefreshSettles(b) ==
  LET r == renew[b]
  IN /\ r.at \in {"ok", "denied", "failed"}
     /\ renew' = [renew EXCEPT ![b] = NoRenew]
     /\ ask' = [ask EXCEPT ![b] = [k \in Kinds |->
                  IF @[k].at # "waiting" THEN @[k]
                  ELSE IF r.at = "ok" THEN [at |-> "again", tok |-> r.new]
                  ELSE [@[k] EXCEPT !.at = "over"]]]
     /\ CASE r.at = "ok"     -> TokensSet(b, r.new, window[b].half) /\ UNCHANGED parted
          [] r.at = "denied" -> SessionCleared(b)
          [] r.at = "failed" -> UNCHANGED <<window, kept, cookie, parted>>
     /\ UNCHANGED <<tokens, alarm>>

\* Logging out clears the tab whatever the server said.
Done(b, k) ==
  /\ ask[b][k].at = "over"
  /\ ask' = [ask EXCEPT ![b][k] = NoAsk]
  /\ IF k = "logout" THEN SessionCleared(b) ELSE UNCHANGED <<window, kept, cookie, parted>>
  /\ UNCHANGED <<tokens, renew, alarm>>

-----------------------------------------------------------------------------

\* 15 minutes, but not between a pair's arrival and its first use.
Expire(t) ==
  /\ t <= tokens.issued /\ t \notin tokens.cut
  /\ \A b \in Tabs : t # renew[b].new /\ ~(window[b].half /\ window[b].tok = t)
                     /\ \A k \in Kinds : ask[b][k] # [at |-> "again", tok |-> t]
  /\ tokens' = [tokens EXCEPT !.cut = @ \union {t}]
  /\ UNCHANGED <<kept, cookie, window, ask, renew, parted, alarm>>

\* Thirty days after the sign-in; renewing the pair does not renew the cookie.
CookieExpires ==
  /\ CookieEnds /\ cookie # NoOne
  /\ cookie' = NoOne
  /\ parted' = parted \union {"expired"}
  /\ UNCHANGED <<tokens, kept, window, ask, renew, alarm>>

Next ==
  \/ \E b \in Tabs :
       \/ \E c \in Consoles : Open(b, c)
       \/ \E a \in Accounts : SignIn(b, a)
       \/ Close(b) \/ Visit(b) \/ Turned(b) \/ SentOn(b) \/ Loaded(b) \/ NotLoaded(b)
       \/ \E k \in Kinds : Ask(b, k) \/ Serve(b, k) \/ Fail(b, k) \/ JoinRefresh(b, k) \/ Done(b, k)
       \/ RefreshServe(b) \/ RefreshFails(b) \/ RefreshSettles(b)
  \/ \E t \in Ids : Expire(t)
  \/ CookieExpires

Spec == Init /\ [][Next]_vars

-----------------------------------------------------------------------------
(* Properties *)

\* Nobody who is signed in to a console is kept on its sign-in page: when the
\* page would send them on, the middleware lets them in.  middleware.ts:6-10
\* means to redirect "an unauthenticated visitor, or one signed in under the
\* wrong role"; the cookie's end makes it redirect others too.
SignedInIsLetIn ==
  \A b \in Tabs : (window[b].open /\ window[b].login /\ window[b].user = window[b].console) => cookie = window[b].console

\* The same for a browser whose cookie has not run out, as long as no tab signed
\* in or out beside another: cookie, localStorage and memory are written together.
LetInAlone == parted \intersect {"expired", "beside"} = {} => SignedInIsLetIn

\* The server's reuse alarm stays silent, and no session is ended by it, unless
\* two open tabs came to hold one pair or a renewed pair was lost on its way.
AlarmHasCause == alarm => parted \intersect {"twins", "lost"} # {}

=============================================================================
