--------------------------- MODULE ConsoleProofs ----------------------------
(***************************************************************************)
(* Proofs about the sign-in of the web consoles (WebSession, as Clients    *)
(* instances it): any number of tabs, accounts and token pairs.            *)
(* The alarm depends on who holds which pair: a tab's pair may be used     *)
(* only while its own renewal brings the next one, no two tabs hold one    *)
(* pair, and localStorage holds a pair that is unused or about to be       *)
(* overwritten by the tab that renews it.                                  *)
(* The second part is about the settings form (SettingsForm): any number   *)
(* of its tabs and sections.                                               *)
(***************************************************************************)
EXTENDS Clients, TLAPS

(* The types of WebSession's variables, with Clients' names.               *)

Users == ConsoleAccounts \union {Nobody}
Memories == [tok : Web!Held, user : Users]
Windows == [open : BOOLEAN, login : BOOLEAN, console : Web!Consoles, tok : Web!Held, user : Users, half : BOOLEAN]
TabAsks == [Web!Kinds -> [at : {"idle", "asked", "refused", "waiting", "again", "over"}, tok : Web!Held]]
Renewals == [at : {"idle", "asked", "ok", "denied", "failed"}, tok : Web!Held, new : Web!Held]

(* Pairs the server can have given out.                                    *)
Coherent(p) ==
  /\ p \in Web!PairSets
  /\ p.used \subseteq 1..p.issued /\ p.revoked \subseteq 1..p.issued /\ p.cut \subseteq 1..p.issued
  /\ \A t \in 1..p.issued : p.family[t] \in 1..p.issued

(* What p knows of pairs and families, q still knows.                      *)
Follows(p, q) ==
  /\ p.issued <= q.issued /\ p.used \subseteq q.used /\ p.cut \subseteq q.cut
  /\ p.revoked \subseteq q.revoked
  /\ \A t \in 1..p.issued : q.family[t] = p.family[t]

LEMMA ConsoleNumbers ==
  /\ Web!Ids = 1..ConsolePairs /\ Web!Held = 0..ConsolePairs /\ ConsolePairs \in Nat
BY PairsAssumption DEF Web!Ids, Web!Held

LEMMA ConsoleShapes ==
  /\ Web!Kinds = {"page", "logout"} /\ 0 \in Web!Held
  /\ Web!None \in Memories /\ Web!None.tok = 0 /\ Web!None.user = Nobody
  /\ Web!Closed \in Windows /\ ~Web!Closed.open /\ Web!Closed.tok = 0 /\ Web!Closed.user = Nobody /\ ~Web!Closed.half
  /\ Web!NoAsk \in [at : {"idle", "asked", "refused", "waiting", "again", "over"}, tok : Web!Held]
  /\ Web!NoAsk.at = "idle" /\ Web!NoAsk.tok = 0
  /\ Web!NoRenew \in Renewals /\ Web!NoRenew.at = "idle" /\ Web!NoRenew.tok = 0 /\ Web!NoRenew.new = 0
<1>1. 0 \in Web!Held
  BY ConsoleNumbers
<1>2. "owner" \in Web!Consoles
  BY RolesAssumption DEF Web!Consoles
<1> QED
  BY <1>1, <1>2 DEF Web!Kinds, Web!None, Memories, Users, Web!Closed, Windows, Web!NoAsk, Web!NoRenew, Renewals

(* sessions.py: what each operation on the pairs leaves as it was.         *)
LEMMA IssuedTokens ==
  ASSUME NEW p, Coherent(p), p.issued < ConsolePairs,
         NEW a \in ConsoleAccounts \union {Nobody}, NEW f \in 0..p.issued
  PROVE  LET q == Web!Issue(p, a, f)
         IN /\ Coherent(q) /\ Follows(p, q)
            /\ q.issued = p.issued + 1
            /\ q.used = p.used /\ q.revoked = p.revoked /\ q.cut = p.cut
            /\ q.family[p.issued + 1] = IF f = 0 THEN p.issued + 1 ELSE f
<1> DEFINE t == p.issued + 1
           g == IF f = 0 THEN t ELSE f
<1>1. /\ p.issued \in Nat /\ t \in Web!Ids /\ t \in Web!Held /\ g \in Web!Held
      /\ g \in 1..t
      /\ p.owner \in [Web!Ids -> ConsoleAccounts \union {Nobody}]
      /\ p.family \in [Web!Ids -> Web!Held]
      /\ p.issued <= t
  BY ConsoleNumbers DEF Coherent, Web!PairSets
<1>2. Web!Issue(p, a, f) = [p EXCEPT !.issued = t, !.owner = [p.owner EXCEPT ![t] = a],
                                        !.family = [p.family EXCEPT ![t] = g]]
  BY DEF Web!Issue, Coherent, Web!PairSets
<1>3. [p.owner EXCEPT ![t] = a] \in [Web!Ids -> ConsoleAccounts \union {Nobody}]
  BY <1>1
<1>4. [p.family EXCEPT ![t] = g] \in [Web!Ids -> Web!Held]
  BY <1>1
<1>5. \A u \in 1..p.issued : u \in Web!Ids /\ u # t
  BY <1>1, ConsoleNumbers
<1>6. 1..t = (1..p.issued) \union {t} /\ (\A u \in 1..p.issued : u \in 1..t)
  BY <1>1
<1> HIDE DEF t, g
<1>7. Web!Issue(p, a, f) \in Web!PairSets
  BY <1>1, <1>2, <1>3, <1>4 DEF Web!PairSets, Coherent
<1>8. \A u \in 1..p.issued : Web!Issue(p, a, f).family[u] = p.family[u]
  BY <1>1, <1>2, <1>5 DEF Web!PairSets, Coherent
<1>9. /\ Web!Issue(p, a, f).issued = t /\ Web!Issue(p, a, f).family[t] = g
      /\ Web!Issue(p, a, f).used = p.used /\ Web!Issue(p, a, f).revoked = p.revoked
      /\ Web!Issue(p, a, f).cut = p.cut
  BY <1>1, <1>2 DEF Web!PairSets, Coherent
<1>10. Coherent(Web!Issue(p, a, f))
  BY <1>1, <1>6, <1>7, <1>8, <1>9 DEF Coherent
<1>11. Follows(p, Web!Issue(p, a, f))
  BY <1>1, <1>8, <1>9 DEF Follows
<1> QED
  BY <1>9, <1>10, <1>11 DEF t, g

LEMMA ExpiredTokens ==
  ASSUME NEW p, Coherent(p), NEW t \in 1..p.issued
  PROVE  LET q == [p EXCEPT !.cut = @ \union {t}]
         IN /\ Coherent(q) /\ Follows(p, q)
            /\ q.issued = p.issued /\ q.used = p.used /\ q.family = p.family
            /\ q.revoked = p.revoked /\ q.cut = p.cut \union {t}
<1> DEFINE q == [p EXCEPT !.cut = @ \union {t}]
<1>1. t \in Web!Ids
  BY ConsoleNumbers DEF Coherent, Web!PairSets
<1>4. /\ q.issued = p.issued /\ q.used = p.used /\ q.family = p.family
      /\ q.revoked = p.revoked /\ q.cut = p.cut \union {t}
  BY DEF Web!PairSets, Coherent
<1>5. q \in Web!PairSets
  BY <1>1 DEF Web!PairSets, Coherent
<1> HIDE DEF q
<1>6. Coherent(q)
  BY <1>1, <1>4, <1>5 DEF Coherent
<1>7. Follows(p, q)
  BY <1>4, ConsoleNumbers DEF Follows, Coherent, Web!PairSets
<1> QED
  BY <1>4, <1>6, <1>7 DEF q

LEMMA FamilyRevokedTokens ==
  ASSUME NEW p, Coherent(p), NEW t \in 1..p.issued
  PROVE  LET q == Web!RevokeFamily(p, t)
         IN /\ Coherent(q) /\ Follows(p, q)
            /\ q.issued = p.issued /\ q.used = p.used /\ q.family = p.family /\ q.cut = p.cut
            /\ q.revoked = p.revoked \union {p.family[t]}
<1> DEFINE q == Web!RevokeFamily(p, t)
           f == p.family[t]
<1>1. f \in 1..p.issued /\ f \in Web!Ids
  BY ConsoleNumbers DEF Coherent, Web!PairSets
<1>3. q = [p EXCEPT !.revoked = @ \union {f}]
  BY DEF Web!RevokeFamily
<1> HIDE DEF f
<1>4. /\ q.issued = p.issued /\ q.used = p.used /\ q.family = p.family
      /\ q.revoked = p.revoked \union {f} /\ q.cut = p.cut
  BY <1>3 DEF Web!PairSets, Coherent
<1>5. q \in Web!PairSets
  BY <1>1, <1>3 DEF Web!PairSets, Coherent
<1> HIDE DEF q
<1>6. Coherent(q)
  BY <1>1, <1>4, <1>5 DEF Coherent
<1>7. Follows(p, q)
  BY <1>4, ConsoleNumbers DEF Follows, Coherent, Web!PairSets
<1> QED
  BY <1>4, <1>6, <1>7 DEF f, q

LEMMA LoggedOutTokens ==
  ASSUME NEW p, Coherent(p), NEW t \in 1..p.issued
  PROVE  LET q == Web!LogOut(p, t)
         IN /\ Coherent(q) /\ Follows(p, q)
            /\ q.issued = p.issued /\ q.used = p.used /\ q.family = p.family
            /\ q.revoked = p.revoked \union {p.family[t]}
            /\ q.cut = p.cut \union {t}
<1> DEFINE r == Web!RevokeFamily(p, t)
           q == [r EXCEPT !.cut = @ \union {t}]
<1>1. Web!LogOut(p, t) = q
  BY DEF Web!LogOut
<1>2. /\ Coherent(r) /\ Follows(p, r)
      /\ r.issued = p.issued /\ r.used = p.used /\ r.family = p.family /\ r.cut = p.cut
      /\ r.revoked = p.revoked \union {p.family[t]}
  BY FamilyRevokedTokens
<1> HIDE DEF r
<1>3. /\ Coherent(q) /\ Follows(r, q)
      /\ q.issued = r.issued /\ q.used = r.used /\ q.family = r.family
      /\ q.revoked = r.revoked /\ q.cut = r.cut \union {t}
  BY <1>2, ExpiredTokens
<1> QED
  BY <1>1, <1>2, <1>3 DEF Follows

LEMMA RejectedTokens ==
  ASSUME NEW p, Coherent(p), NEW t \in 1..p.issued
  PROVE  LET q == Web!Rejected(p, t)
         IN /\ Coherent(q) /\ Follows(p, q)
            /\ q.issued = p.issued /\ q.used = p.used /\ q.family = p.family /\ q.cut = p.cut
            /\ t \in p.used => p.family[t] \in q.revoked
BY FamilyRevokedTokens, ConsoleNumbers DEF Web!Rejected, Follows, Coherent, Web!PairSets

LEMMA RotatedTokens ==
  ASSUME NEW p, Coherent(p), NEW t \in 1..p.issued, p.issued < ConsolePairs
  PROVE  LET q == Web!Rotated(p, t)
         IN /\ Coherent(q) /\ Follows(p, q)
            /\ q.issued = p.issued + 1 /\ q.used = p.used \union {t}
            /\ q.revoked = p.revoked /\ q.cut = p.cut
            /\ q.family[p.issued + 1] = p.family[t]
<1> DEFINE r == [p EXCEPT !.used = @ \union {t}]
           a == p.owner[t]
           f == p.family[t]
           q == Web!Issue(r, a, f)
<1>1. /\ t \in Web!Ids /\ a \in ConsoleAccounts \union {Nobody}
      /\ f \in 1..p.issued /\ f \in 0..p.issued /\ f # 0
  BY ConsoleNumbers DEF Coherent, Web!PairSets
<1>2. /\ r.issued = p.issued /\ r.used = p.used \union {t} /\ r.family = p.family
      /\ r.revoked = p.revoked /\ r.cut = p.cut
  BY DEF Web!PairSets, Coherent
<1>3. r \in Web!PairSets
  BY <1>1 DEF Web!PairSets, Coherent
<1>4. Web!Rotated(p, t) = q
  BY DEF Web!Rotated
<1> HIDE DEF r, a, f
<1>5. Coherent(r)
  BY <1>2, <1>3 DEF Coherent
<1>6. /\ Coherent(q) /\ Follows(r, q) /\ q.issued = r.issued + 1
      /\ q.used = r.used /\ q.revoked = r.revoked /\ q.cut = r.cut
      /\ q.family[r.issued + 1] = f
  BY <1>1, <1>2, <1>5, IssuedTokens
<1> HIDE DEF q
<1> QED
  BY <1>2, <1>4, <1>6 DEF Follows, f

-----------------------------------------------------------------------------

(* t may be sent for renewal without alarm.                                *)
Fresh(p, t) == t = 0 \/ t \notin p.used \/ p.family[t] \in p.revoked

ConsoleTyped ==
  /\ kept \in Memories
  /\ cookie \in Users
  /\ window \in [Tabs -> Windows]
  /\ ask \in [Tabs -> TabAsks]
  /\ renew \in [Tabs -> Renewals]
  /\ parted \subseteq {"expired", "beside", "twins", "lost"}
  /\ alarm \in BOOLEAN

(* Every pair anywhere was given out.                                      *)
Counted ==
  /\ Coherent(tokens)
  /\ kept.tok \in 0..tokens.issued
  /\ \A b \in Tabs :
       /\ window[b].tok \in 0..tokens.issued
       /\ renew[b].tok \in 0..tokens.issued /\ renew[b].new \in 0..tokens.issued
       /\ \A k \in Web!Kinds : ask[b][k].tok \in 0..tokens.issued

(* A closed tab remembers nothing and renews nothing.                      *)
Shut ==
  \A b \in Tabs :
    /\ ~window[b].open =>
         window[b].tok = 0 /\ window[b].user = Nobody /\ ~window[b].half /\ renew[b].at = "idle"
    /\ renew[b].at = "idle" => renew[b].tok = 0 /\ renew[b].new = 0

(* Memory, localStorage and cookie name one account, or none.              *)
Aligned ==
  parted \intersect {"expired", "beside"} = {} =>
    kept.user \in {Nobody, cookie} /\ \A b \in Tabs : window[b].user \in {Nobody, cookie}

(* Tab b holds t, sends it or is about to get it; b has used it up and is  *)
(* about to get the next.                                                  *)
Has(b, t) == t # 0 /\ t \in {window[b].tok, renew[b].tok, renew[b].new}
Spent(b, t) == renew[b].at = "ok" /\ renew[b].tok = t

(* While no two tabs came to hold one pair and none was lost on its way.   *)
Cause ==
  parted \intersect {"twins", "lost"} = {} =>
    /\ ~alarm
    /\ Fresh(tokens, kept.tok) \/ \E b \in Tabs : Spent(b, kept.tok)
    /\ \A b \in Tabs :
         /\ Fresh(tokens, window[b].tok) \/ Spent(b, window[b].tok)
         /\ renew[b].at = "asked" => Fresh(tokens, renew[b].tok)
         /\ renew[b].at = "ok" => renew[b].new \notin {0, kept.tok, window[b].tok} /\ Fresh(tokens, renew[b].new)
         /\ renew[b].at # "ok" => renew[b].new = 0
    /\ \A b, c \in Tabs : \A t \in Web!Ids : Has(b, t) /\ Has(c, t) => b = c

ConsoleInv == ConsoleTyped /\ Counted /\ Shut /\ Aligned /\ Cause

LEMMA FreshLasts ==
  ASSUME NEW p, NEW q, Coherent(p), Follows(p, q), NEW t \in 0..p.issued, Fresh(p, t), t \in q.used => t \in p.used
  PROVE  Fresh(q, t)
<1>1. t = 0 \/ t \in 1..p.issued
  BY ConsoleNumbers DEF Coherent, Web!PairSets
<1> QED
  BY <1>1 DEF Fresh, Follows

(* Requests come and go, pages change, the server ends sessions.           *)
LEMMA CalmKeeps ==
  ASSUME ConsoleInv,
         UNCHANGED <<kept, cookie, renew, parted, alarm>>,
         Coherent(tokens'), Follows(tokens, tokens'), tokens'.issued = tokens.issued, tokens'.used = tokens.used,
         window' \in [Tabs -> Windows], ask' \in [Tabs -> TabAsks],
         \A b \in Tabs : /\ window'[b].open = window[b].open /\ window'[b].tok = window[b].tok
                         /\ window'[b].user = window[b].user /\ (window'[b].half => window[b].half)
                         /\ \A k \in Web!Kinds : ask'[b][k].tok \in 0..tokens.issued
  PROVE  ConsoleInv'
<1>1. ConsoleTyped'
  BY DEF ConsoleInv, ConsoleTyped
<1>2. Counted'
  BY DEF ConsoleInv, Counted
<1>3. Shut'
  BY DEF ConsoleInv, Shut
<1>4. Aligned'
  BY DEF ConsoleInv, Aligned
<1>5. /\ \A b, t : (Has(b, t)' <=> Has(b, t)) \/ b \notin Tabs
      /\ \A b, t : Spent(b, t)' <=> Spent(b, t)
  BY DEF Has, Spent
<1>6. \A t \in 0..tokens.issued : Fresh(tokens, t) => Fresh(tokens', t)
  BY FreshLasts DEF ConsoleInv, Counted
<1>7. Cause'
  BY <1>5, <1>6 DEF ConsoleInv, Counted, Cause
<1> QED
  BY <1>1, <1>2, <1>3, <1>4, <1>7 DEF ConsoleInv

LEMMA CookieExpiresKeeps ==
  ASSUME ConsoleInv, Web!CookieExpires
  PROVE  ConsoleInv'
<1>1. /\ cookie' = Nobody /\ parted' = parted \union {"expired"}
      /\ UNCHANGED <<tokens, kept, window, ask, renew, alarm>>
  BY DEF Web!CookieExpires
<1>2. /\ \A b, t : (Has(b, t)' <=> Has(b, t)) /\ (Spent(b, t)' <=> Spent(b, t))
      /\ parted' \intersect {"twins", "lost"} = parted \intersect {"twins", "lost"}
  BY <1>1 DEF Has, Spent
<1>3. ConsoleTyped' /\ Counted' /\ Shut'
  BY <1>1 DEF ConsoleInv, ConsoleTyped, Counted, Shut, Users
<1>4. Aligned' /\ Cause'
  BY <1>1, <1>2 DEF ConsoleInv, Aligned, Cause
<1> QED
  BY <1>3, <1>4 DEF ConsoleInv

-----------------------------------------------------------------------------

LEMMA OpenTabKeeps ==
  ASSUME ConsoleInv, NEW b \in Tabs, NEW c \in Web!Consoles, Web!Open(b, c)
  PROVE  ConsoleInv'
<1> DEFINE new == [open |-> TRUE, login |-> cookie # c, console |-> c, tok |-> kept.tok, user |-> kept.user,
                   half |-> FALSE]
           twins == kept.tok # 0 /\ \E o \in Web!Others(b) : kept.tok \in {window[o].tok, renew[o].tok}
<1>1. /\ ~window[b].open /\ UNCHANGED <<tokens, kept, cookie, ask, renew, alarm>>
      /\ window' = [window EXCEPT ![b] = new]
      /\ parted' = parted \union (IF twins THEN {"twins"} ELSE {})
  BY DEF Web!Open
<1>2. new \in Windows /\ new.open /\ new.tok = kept.tok /\ new.user = kept.user /\ ~new.half
  BY DEF ConsoleInv, ConsoleTyped, Memories, Windows
<1> HIDE DEF new
<1>3. /\ window' \in [Tabs -> Windows] /\ window'[b] = new
      /\ \A o \in Tabs \ {b} : window'[o] = window[o]
  BY <1>1, <1>2 DEF ConsoleInv, ConsoleTyped
<1>4. renew[b].at = "idle" /\ renew[b].tok = 0 /\ renew[b].new = 0
  BY <1>1 DEF ConsoleInv, Shut
<1>5. parted' \subseteq {"expired", "beside", "twins", "lost"} /\ parted \subseteq parted'
  BY <1>1 DEF ConsoleInv, ConsoleTyped
<1>6. ConsoleTyped'
  BY <1>1, <1>3, <1>5 DEF ConsoleInv, ConsoleTyped
<1>7. Counted'
  BY <1>1, <1>2, <1>3 DEF ConsoleInv, Counted
<1>8. Shut'
  BY <1>1, <1>2, <1>3 DEF ConsoleInv, Shut
<1>9. Aligned'
  BY <1>1, <1>2, <1>3, <1>5 DEF ConsoleInv, Aligned
<1>10. Cause'
  <2> SUFFICES ASSUME parted' \intersect {"twins", "lost"} = {} PROVE Cause'
    BY DEF Cause
  <2>1. parted \intersect {"twins", "lost"} = {} /\ ~twins
    BY <1>1, <1>5
  <2>2. kept.tok # 0 => \A o \in Tabs \ {b} : kept.tok \notin {window[o].tok, renew[o].tok}
    BY <1>4, <2>1 DEF Web!Others, ConsoleInv, Shut
  <2>3. \A o \in Tabs : renew[o].new # 0 => renew[o].new # kept.tok
    BY <2>1 DEF ConsoleInv, Cause
  <2>4. Fresh(tokens, kept.tok)
    BY <1>4, <2>1, <2>2 DEF ConsoleInv, Cause, Spent, Fresh
  <2>5. /\ \A o \in Tabs \ {b} : \A t : (Has(o, t)' <=> Has(o, t)) /\ (Has(o, t) => t # kept.tok)
        /\ \A t : Has(b, t)' => t = kept.tok
        /\ \A o, t : Spent(o, t)' <=> Spent(o, t)
    BY <1>1, <1>2, <1>3, <1>4, <2>2, <2>3 DEF Has, Spent
  <2>6. \A o, d \in Tabs : \A t \in Web!Ids : Has(o, t)' /\ Has(d, t)' => o = d
    BY <2>1, <2>5 DEF ConsoleInv, Cause
  <2>7. \A o \in Tabs \ {b} :
          /\ Fresh(tokens, window'[o].tok) \/ Spent(o, window'[o].tok)
          /\ renew[o].at = "ok" => renew[o].new # window'[o].tok
    BY <1>3, <2>1 DEF ConsoleInv, Cause
  <2>8. Fresh(tokens, window'[b].tok)
    BY <1>2, <1>3, <2>4
  <2> QED
    BY <1>1, <1>4, <2>1, <2>4, <2>5, <2>6, <2>7, <2>8 DEF ConsoleInv, Cause
<1> QED
  BY <1>6, <1>7, <1>8, <1>9, <1>10 DEF ConsoleInv

LEMMA CloseKeeps ==
  ASSUME ConsoleInv, NEW b \in Tabs, Web!Close(b)
  PROVE  ConsoleInv'
<1>1. /\ UNCHANGED <<tokens, kept, cookie, alarm>>
      /\ window' = [window EXCEPT ![b] = Web!Closed]
      /\ ask' = [ask EXCEPT ![b] = [k \in Web!Kinds |-> Web!NoAsk]]
      /\ renew' = [renew EXCEPT ![b] = Web!NoRenew]
      /\ parted' = parted \union (IF renew[b].at = "ok" THEN {"lost"} ELSE {})
  BY DEF Web!Close
<1>2. /\ window' \in [Tabs -> Windows] /\ window'[b] = Web!Closed
      /\ \A o \in Tabs \ {b} : window'[o] = window[o]
  BY <1>1, ConsoleShapes DEF ConsoleInv, ConsoleTyped
<1>3. /\ renew' \in [Tabs -> Renewals] /\ renew'[b] = Web!NoRenew
      /\ \A o \in Tabs \ {b} : renew'[o] = renew[o]
  BY <1>1, ConsoleShapes DEF ConsoleInv, ConsoleTyped
<1>4. /\ ask' \in [Tabs -> TabAsks]
      /\ \A o \in Tabs : \A k \in Web!Kinds : ask'[o][k].tok \in {0, ask[o][k].tok}
  BY <1>1, ConsoleShapes DEF ConsoleInv, ConsoleTyped, TabAsks
<1>5. /\ parted' \subseteq {"expired", "beside", "twins", "lost"} /\ parted \subseteq parted'
  BY <1>1 DEF ConsoleInv, ConsoleTyped
<1>c. /\ window'[b].tok = 0 /\ window'[b].user = Nobody /\ ~window'[b].half /\ ~window'[b].open
      /\ renew'[b].at = "idle" /\ renew'[b].tok = 0 /\ renew'[b].new = 0
  BY <1>2, <1>3, ConsoleShapes
<1>6. 0 \in 0..tokens.issued
  BY ConsoleNumbers DEF ConsoleInv, Counted, Coherent, Web!PairSets
<1>7. ConsoleTyped'
  BY <1>1, <1>2, <1>3, <1>4, <1>5 DEF ConsoleInv, ConsoleTyped
<1>8. Counted'
  BY <1>1, <1>2, <1>3, <1>4, <1>6, ConsoleShapes DEF ConsoleInv, Counted
<1>9. Shut'
  BY <1>2, <1>3, ConsoleShapes DEF ConsoleInv, Shut
<1>10. Aligned'
  BY <1>1, <1>2, <1>5, ConsoleShapes DEF ConsoleInv, Aligned
<1>11. Cause'
  <2> SUFFICES ASSUME parted' \intersect {"twins", "lost"} = {} PROVE Cause'
    BY DEF Cause
  <2>1. parted \intersect {"twins", "lost"} = {} /\ renew[b].at # "ok"
    BY <1>1, <1>5
  <2>2. /\ \A t : ~Has(b, t)' /\ ~Spent(b, t)
        /\ \A o \in Tabs \ {b} : \A t : (Has(o, t)' <=> Has(o, t)) /\ (Spent(o, t)' <=> Spent(o, t))
    BY <1>2, <1>3, <1>c, <2>1 DEF Has, Spent
  <2>3. \A o, d \in Tabs : \A t \in Web!Ids : Has(o, t)' /\ Has(d, t)' => o = d
    BY <2>1, <2>2 DEF ConsoleInv, Cause
  <2>4. Fresh(tokens, kept.tok) \/ \E o \in Tabs : Spent(o, kept.tok)'
    BY <1>1, <2>1, <2>2 DEF ConsoleInv, Cause
  <2>5. ASSUME NEW o \in Tabs
        PROVE  /\ Fresh(tokens, window'[o].tok) \/ Spent(o, window[o].tok)'
               /\ renew'[o].at = "asked" => Fresh(tokens, renew'[o].tok)
               /\ renew'[o].at = "ok" => renew'[o].new \notin {0, kept.tok, window'[o].tok}
                                         /\ Fresh(tokens, renew'[o].new)
               /\ renew'[o].at # "ok" => renew'[o].new = 0
    <3>1. CASE o = b
      BY <1>c, <3>1 DEF Fresh
    <3>2. CASE o # b
      BY <1>2, <1>3, <2>1, <2>2, <3>2 DEF ConsoleInv, Cause
    <3> QED
      BY <3>1, <3>2
  <2> QED
    BY <1>1, <2>1, <2>3, <2>4, <2>5 DEF ConsoleInv, Cause
<1> QED
  BY <1>7, <1>8, <1>9, <1>10, <1>11 DEF ConsoleInv



-----------------------------------------------------------------------------
(* What the store's operations do to the memory of a tab *)

LEMMA TokensSetShape ==
  ASSUME window \in [Tabs -> Windows], NEW b \in Tabs, NEW tok \in Web!Held, NEW half \in BOOLEAN,
         Web!TokensSet(b, tok, half)
  PROVE  /\ window' \in [Tabs -> Windows] /\ kept' \in Memories /\ cookie' = cookie
         /\ kept'.tok = tok /\ kept'.user = window[b].user
         /\ window'[b].tok = tok /\ window'[b].half = half
         /\ window'[b].user = window[b].user /\ window'[b].open = window[b].open
         /\ \A o \in Tabs \ {b} : window'[o] = window[o]
<1> DEFINE w == window[b]
           new == [w EXCEPT !.tok = tok, !.half = half]
<1>1. new \in Windows /\ new.tok = tok /\ new.half = half /\ new.user = w.user /\ new.open = w.open
  BY DEF Windows
<1>2. window' = [window EXCEPT ![b] = new]
  BY DEF Web!TokensSet
<1>3. kept' = [tok |-> window'[b].tok, user |-> window'[b].user] /\ cookie' = cookie
  BY DEF Web!TokensSet, Web!Written
<1> HIDE DEF new
<1>4. /\ window' \in [Tabs -> Windows] /\ window'[b] = new
      /\ \A o \in Tabs \ {b} : window'[o] = window[o]
  BY <1>1, <1>2
<1>5. kept' \in Memories /\ kept'.tok = tok /\ kept'.user = w.user
  BY <1>1, <1>3, <1>4 DEF Memories, Windows
<1> QED
  BY <1>1, <1>3, <1>4, <1>5

LEMMA SessionSetShape ==
  ASSUME window \in [Tabs -> Windows], NEW b \in Tabs, NEW user \in Users,
         Web!SessionSet(b, window[b].tok, user)
  PROVE  /\ window' \in [Tabs -> Windows] /\ kept' \in Memories /\ cookie' = user
         /\ kept'.tok = window[b].tok /\ kept'.user = user
         /\ window'[b].tok = window[b].tok /\ ~window'[b].half
         /\ window'[b].user = user /\ window'[b].open = window[b].open
         /\ \A o \in Tabs \ {b} : window'[o] = window[o]
         /\ parted' = parted \union Web!Beside(b)
<1> DEFINE w == window[b]
           new == [w EXCEPT !.tok = w.tok, !.user = user, !.half = FALSE, !.login = cookie' # w.console]
<1>1. new \in Windows /\ new.tok = w.tok /\ ~new.half /\ new.user = user /\ new.open = w.open
  BY DEF Windows
<1>2. window' = [window EXCEPT ![b] = new]
  BY DEF Web!SessionSet
<1>3. /\ kept' = [tok |-> window'[b].tok, user |-> window'[b].user]
      /\ cookie' = user /\ parted' = parted \union Web!Beside(b)
  BY DEF Web!SessionSet, Web!Written, Web!RoleCookie
<1> HIDE DEF new
<1>4. /\ window' \in [Tabs -> Windows] /\ window'[b] = new
      /\ \A o \in Tabs \ {b} : window'[o] = window[o]
  BY <1>1, <1>2
<1>5. kept' \in Memories /\ kept'.tok = w.tok /\ kept'.user = user
  BY <1>1, <1>3, <1>4 DEF Memories, Windows
<1> QED
  BY <1>1, <1>3, <1>4, <1>5

LEMMA SessionClearedShape ==
  ASSUME window \in [Tabs -> Windows], NEW b \in Tabs, Web!SessionCleared(b)
  PROVE  /\ window' \in [Tabs -> Windows] /\ kept' = Web!None /\ cookie' = Nobody
         /\ window'[b].tok = 0 /\ ~window'[b].half
         /\ window'[b].user = Nobody /\ window'[b].open = window[b].open
         /\ \A o \in Tabs \ {b} : window'[o] = window[o]
         /\ parted' = parted \union Web!Beside(b)
<1> DEFINE w == window[b]
           new == [w EXCEPT !.tok = 0, !.user = Nobody, !.half = FALSE]
<1>0. 0 \in Web!Held
  BY ConsoleShapes
<1>1. new \in Windows /\ new.tok = 0 /\ ~new.half /\ new.user = Nobody /\ new.open = w.open
  BY <1>0 DEF Windows, Users
<1>2. window' = [window EXCEPT ![b] = new]
  BY DEF Web!SessionCleared
<1>3. kept' = Web!None /\ cookie' = Nobody /\ parted' = parted \union Web!Beside(b)
  BY DEF Web!SessionCleared, Web!RoleCookie
<1> HIDE DEF new
<1>4. /\ window' \in [Tabs -> Windows] /\ window'[b] = new
      /\ \A o \in Tabs \ {b} : window'[o] = window[o]
  BY <1>1, <1>2
<1> QED
  BY <1>1, <1>3, <1>4

(* A tab that writes the cookie beside no other leaves nobody with another *)
(* account.                                                                *)
LEMMA BesideAligns ==
  ASSUME ConsoleInv, NEW b \in Tabs, NEW user \in Users,
         parted' = parted \union Web!Beside(b), cookie' = user,
         kept'.user \in {Nobody, user}, window'[b].user \in {Nobody, user},
         \A o \in Tabs \ {b} : window'[o] = window[o]
  PROVE  /\ parted' \subseteq {"expired", "beside", "twins", "lost"}
         /\ parted' \intersect {"twins", "lost"} = parted \intersect {"twins", "lost"}
         /\ Aligned'
<1>1. /\ parted' \subseteq {"expired", "beside", "twins", "lost"}
      /\ parted' \intersect {"twins", "lost"} = parted \intersect {"twins", "lost"}
  BY DEF ConsoleInv, ConsoleTyped, Web!Beside
<1>2. parted' \intersect {"expired", "beside"} = {} => \A o \in Tabs \ {b} : window[o].user = Nobody
  BY DEF ConsoleInv, Shut, Web!Beside, Web!Others
<1> QED
  BY <1>1, <1>2 DEF Aligned



(* clear(): after logging out, after a refused renewal, or when the        *)
(* account is none of this console's.                                      *)
LEMMA ClearedKeeps ==
  ASSUME ConsoleInv, NEW b \in Tabs, Web!SessionCleared(b), UNCHANGED <<tokens, alarm>>,
         ask' \in [Tabs -> TabAsks],
         \A o \in Tabs : \A k \in Web!Kinds : ask'[o][k].tok \in 0..tokens.issued,
         \/ UNCHANGED renew
         \/ renew[b].at = "denied" /\ renew' = [renew EXCEPT ![b] = Web!NoRenew]
  PROVE  ConsoleInv'
<1>1. /\ window' \in [Tabs -> Windows] /\ kept' = Web!None /\ cookie' = Nobody
      /\ window'[b].tok = 0 /\ ~window'[b].half
      /\ window'[b].user = Nobody /\ window'[b].open = window[b].open
      /\ \A o \in Tabs \ {b} : window'[o] = window[o]
      /\ parted' = parted \union Web!Beside(b)
  BY SessionClearedShape DEF ConsoleInv, ConsoleTyped
<1>2. /\ renew' \in [Tabs -> Renewals]
      /\ \A o \in Tabs \ {b} : renew'[o] = renew[o]
      /\ \/ renew'[b] = renew[b]
         \/ renew'[b].at = "idle" /\ renew'[b].tok = 0 /\ renew'[b].new = 0 /\ renew[b].at = "denied"
  BY ConsoleShapes DEF ConsoleInv, ConsoleTyped
<1>3. kept' \in Memories /\ kept'.tok = 0 /\ kept'.user = Nobody
  BY <1>1, ConsoleShapes
<1>4. /\ parted' \subseteq {"expired", "beside", "twins", "lost"}
      /\ parted' \intersect {"twins", "lost"} = parted \intersect {"twins", "lost"}
      /\ Aligned'
  BY <1>1, <1>3, BesideAligns DEF Users
<1>5. 0 \in 0..tokens.issued
  BY ConsoleNumbers DEF ConsoleInv, Counted, Coherent, Web!PairSets
<1>6. ConsoleTyped'
  BY <1>1, <1>2, <1>3, <1>4 DEF ConsoleInv, ConsoleTyped, Users
<1>7. Counted'
  BY <1>1, <1>2, <1>3, <1>5 DEF ConsoleInv, Counted
<1>8. Shut'
  BY <1>1, <1>2 DEF ConsoleInv, Shut
<1>9. Cause'
  <2> SUFFICES ASSUME parted \intersect {"twins", "lost"} = {} PROVE Cause'
    BY <1>4 DEF Cause
  <2>1. /\ \A t : Has(b, t)' => Has(b, t)
        /\ \A o \in Tabs \ {b} : \A t : (Has(o, t)' <=> Has(o, t)) /\ (Spent(o, t)' <=> Spent(o, t))
    BY <1>1, <1>2 DEF Has, Spent
  <2>2. \A o, d \in Tabs : \A t \in Web!Ids : Has(o, t)' /\ Has(d, t)' => o = d
    BY <2>1 DEF ConsoleInv, Cause
  <2>3. Fresh(tokens, kept'.tok) /\ Fresh(tokens, window'[b].tok)
    BY <1>1, <1>3 DEF Fresh
  <2>4. /\ renew'[b].at = "asked" => Fresh(tokens, renew'[b].tok)
        /\ renew'[b].at = "ok" => renew'[b].new # 0 /\ Fresh(tokens, renew'[b].new)
        /\ renew'[b].at # "ok" => renew'[b].new = 0
    BY <1>2 DEF ConsoleInv, Cause
  <2>5. ASSUME NEW o \in Tabs \ {b}
        PROVE  /\ Fresh(tokens, window'[o].tok) \/ Spent(o, window[o].tok)'
               /\ renew'[o].at = "asked" => Fresh(tokens, renew'[o].tok)
               /\ renew'[o].at = "ok" => renew'[o].new \notin {0, window'[o].tok} /\ Fresh(tokens, renew'[o].new)
               /\ renew'[o].at # "ok" => renew'[o].new = 0
    BY <1>1, <1>2, <2>1 DEF ConsoleInv, Cause
  <2> QED
    BY <1>1, <1>3, <2>2, <2>3, <2>4, <2>5 DEF ConsoleInv, Cause
<1> QED
  BY <1>4, <1>6, <1>7, <1>8, <1>9 DEF ConsoleInv

(* The account fits this console and becomes the browser's.                *)
LEMMA LoadedKeeps ==
  ASSUME ConsoleInv, NEW b \in Tabs, Web!Loaded(b)
  PROVE  ConsoleInv'
<1> DEFINE a == tokens.owner[window[b].tok]
<1>1. /\ window[b].half /\ UNCHANGED <<tokens, ask, renew, alarm>>
      /\ IF a = window[b].console THEN Web!SessionSet(b, window[b].tok, a) ELSE Web!SessionCleared(b)
  BY DEF Web!Loaded
<1>2. CASE Web!SessionCleared(b)
  BY <1>1, <1>2, ClearedKeeps DEF ConsoleInv, ConsoleTyped, Counted
<1>3. CASE a = window[b].console /\ Web!SessionSet(b, window[b].tok, a)
  <2>1. a \in Users
    BY <1>3 DEF ConsoleInv, ConsoleTyped, Windows, Web!Consoles, Users
  <2>2. /\ window' \in [Tabs -> Windows] /\ kept' \in Memories /\ cookie' = a
        /\ kept'.tok = window[b].tok /\ kept'.user = a
        /\ window'[b].tok = window[b].tok /\ ~window'[b].half
        /\ window'[b].user = a /\ window'[b].open = window[b].open
        /\ \A o \in Tabs \ {b} : window'[o] = window[o]
        /\ parted' = parted \union Web!Beside(b)
    BY <1>3, <2>1, SessionSetShape DEF ConsoleInv, ConsoleTyped
  <2> HIDE DEF a
  <2>3. /\ parted' \subseteq {"expired", "beside", "twins", "lost"}
        /\ parted' \intersect {"twins", "lost"} = parted \intersect {"twins", "lost"}
        /\ Aligned'
    BY <2>1, <2>2, BesideAligns
  <2>4. ConsoleTyped'
    BY <1>1, <2>1, <2>2, <2>3 DEF ConsoleInv, ConsoleTyped
  <2>5. Counted'
    BY <1>1, <2>2 DEF ConsoleInv, Counted
  <2>6. Shut'
    BY <1>1, <2>2 DEF ConsoleInv, Shut
  <2>7. Cause'
    <3> SUFFICES ASSUME parted \intersect {"twins", "lost"} = {} PROVE Cause'
      BY <2>3 DEF Cause
    <3>1. \A o \in Tabs : \A t : (Has(o, t)' <=> Has(o, t)) /\ (Spent(o, t)' <=> Spent(o, t))
      BY <1>1, <2>2 DEF Has, Spent
    <3>2. \A o \in Tabs : renew[o].at = "ok" => renew[o].new \notin {0, window[b].tok, window[o].tok}
      <4>1. \A o \in Tabs : renew[o].at = "ok" => renew[o].new \notin {0, window[o].tok} /\ renew[o].new \in Web!Ids
        BY ConsoleNumbers DEF ConsoleInv, Cause, ConsoleTyped, Renewals
      <4> QED
        BY <4>1 DEF ConsoleInv, Cause, Has
    <3>3. Fresh(tokens, window[b].tok) \/ Spent(b, window[b].tok)
      BY DEF ConsoleInv, Cause
    <3>4. \A o \in Tabs : window'[o].tok = window[o].tok
      BY <2>2
    <3> QED
      BY <1>1, <2>2, <3>1, <3>2, <3>3, <3>4 DEF ConsoleInv, Cause
  <2> QED
    BY <2>3, <2>4, <2>5, <2>6, <2>7 DEF ConsoleInv
<1> QED
  BY <1>1, <1>2, <1>3

LEMMA SignInKeeps ==
  ASSUME ConsoleInv, NEW b \in Tabs, NEW a \in ConsoleAccounts, Web!SignIn(b, a)
  PROVE  ConsoleInv'
<1> DEFINE n == tokens.issued + 1
<1>1. /\ window[b].open /\ tokens.issued < ConsolePairs
      /\ tokens' = Web!Issue(tokens, a, 0)
      /\ Web!TokensSet(b, tokens'.issued, TRUE)
      /\ UNCHANGED <<ask, renew, parted, alarm>>
  BY DEF Web!SignIn
<1>2. /\ tokens.issued \in Nat /\ 0 \in 0..tokens.issued
      /\ tokens.used \subseteq 1..tokens.issued
      /\ n \in Web!Ids /\ n \in Web!Held
  BY <1>1, ConsoleNumbers DEF ConsoleInv, Counted, Coherent, Web!PairSets
<1>3. /\ Coherent(tokens') /\ Follows(tokens, tokens') /\ tokens'.issued = n /\ tokens'.used = tokens.used
  BY <1>1, <1>2, IssuedTokens DEF ConsoleInv, Counted
<1>4. /\ window' \in [Tabs -> Windows] /\ kept' \in Memories /\ cookie' = cookie
      /\ kept'.tok = n /\ kept'.user = window[b].user
      /\ window'[b].tok = n /\ window'[b].half
      /\ window'[b].user = window[b].user /\ window'[b].open = window[b].open
      /\ \A o \in Tabs \ {b} : window'[o] = window[o]
  BY <1>1, <1>2, <1>3, TokensSetShape DEF ConsoleInv, ConsoleTyped
<1>5. /\ n \in 0..n /\ n \notin 0..tokens.issued /\ n # 0 /\ n \notin tokens'.used
      /\ \A t \in 0..tokens.issued : t \in 0..n
      /\ \A t \in 0..tokens.issued : Fresh(tokens, t) => Fresh(tokens', t)
  BY <1>2, <1>3, FreshLasts DEF ConsoleInv, Counted
<1> HIDE DEF n
<1>6. ConsoleTyped'
  BY <1>1, <1>4 DEF ConsoleInv, ConsoleTyped
<1>7. Counted'
  BY <1>1, <1>3, <1>4, <1>5 DEF ConsoleInv, Counted
<1>8. Shut'
  BY <1>1, <1>4 DEF ConsoleInv, Shut
<1>9. Aligned'
  BY <1>1, <1>4 DEF ConsoleInv, Aligned
<1>10. Cause'
  <2> SUFFICES ASSUME parted \intersect {"twins", "lost"} = {} PROVE Cause'
    BY <1>1 DEF Cause
  <2>1. /\ \A o \in Tabs \ {b} : \A t : Has(o, t)' <=> Has(o, t)
        /\ \A t : Has(b, t)' => Has(b, t) \/ t = n
        /\ \A o \in Tabs : ~Has(o, n)
        /\ \A o, t : Spent(o, t)' <=> Spent(o, t)
    BY <1>1, <1>4, <1>5 DEF Has, Spent, ConsoleInv, Counted
  <2>2. \A o, d \in Tabs : \A t \in Web!Ids : Has(o, t)' /\ Has(d, t)' => o = d
    BY <2>1 DEF ConsoleInv, Cause
  <2>3. Fresh(tokens', n)
    BY <1>5 DEF Fresh
  <2>4. \A o \in Tabs : renew[o].at = "ok" => renew[o].new \notin {0, n}
    BY <1>5 DEF ConsoleInv, Counted, Cause
  <2>5. ASSUME NEW o \in Tabs
        PROVE  /\ Fresh(tokens', window'[o].tok) \/ Spent(o, window[o].tok)'
               /\ renew[o].at = "asked" => Fresh(tokens', renew[o].tok)
               /\ renew[o].at = "ok" => renew[o].new \notin {0, window'[o].tok} /\ Fresh(tokens', renew[o].new)
    <3>1. /\ renew[o].at = "asked" => Fresh(tokens', renew[o].tok)
          /\ renew[o].at = "ok" => Fresh(tokens', renew[o].new)
      BY <1>5 DEF ConsoleInv, Counted, Cause
    <3>2. CASE o = b
      BY <1>4, <2>3, <2>4, <3>1, <3>2
    <3>3. CASE o # b
      BY <1>4, <1>5, <2>1, <3>1, <3>3 DEF ConsoleInv, Counted, Cause
    <3> QED
      BY <3>2, <3>3
  <2> QED
    BY <1>1, <1>4, <2>2, <2>3, <2>4, <2>5 DEF ConsoleInv, Cause
<1> QED
  BY <1>6, <1>7, <1>8, <1>9, <1>10 DEF ConsoleInv



-----------------------------------------------------------------------------
(* One request of one tab *)

TabAsk == [at : {"idle", "asked", "refused", "waiting", "again", "over"}, tok : Web!Held]

LEMMA OneTabAsks ==
  ASSUME ConsoleInv, NEW b \in Tabs, NEW k \in Web!Kinds,
         NEW x \in TabAsk, x.tok \in 0..tokens.issued,
         ask' = [ask EXCEPT ![b] = [ask[b] EXCEPT ![k] = x]]
  PROVE  /\ ask' \in [Tabs -> TabAsks]
         /\ \A o \in Tabs : \A j \in Web!Kinds : ask'[o][j].tok \in 0..tokens.issued
<1> DEFINE mine == [ask[b] EXCEPT ![k] = x]
<1>1. ask \in [Tabs -> [Web!Kinds -> TabAsk]]
  BY DEF ConsoleInv, ConsoleTyped, TabAsks, TabAsk
<1>2. mine \in [Web!Kinds -> TabAsk] /\ \A j \in Web!Kinds : mine[j] \in {x, ask[b][j]}
  BY <1>1
<1> HIDE DEF mine
<1>3. ask' = [ask EXCEPT ![b] = mine]
  BY DEF mine
<1>4. ask' \in [Tabs -> [Web!Kinds -> TabAsk]] /\ \A o \in Tabs : ask'[o] \in {mine, ask[o]} /\ ask'[b] = mine
  BY <1>1, <1>2, <1>3
<1>5. \A o \in Tabs : \A j \in Web!Kinds : ask[o][j].tok \in 0..tokens.issued
  BY DEF ConsoleInv, Counted
<1>6. \A o \in Tabs \ {b} : ask'[o] = ask[o]
  BY <1>1, <1>3
<1>7. \A o \in Tabs : \A j \in Web!Kinds : ask'[o][j].tok \in 0..tokens.issued
  BY <1>2, <1>4, <1>5, <1>6
<1> QED
  BY <1>4, <1>7 DEF TabAsks, TabAsk

LEMMA AskKeeps ==
  ASSUME ConsoleInv, NEW b \in Tabs, NEW k \in Web!Kinds, Web!Ask(b, k)
  PROVE  ConsoleInv'
<1> DEFINE x == [at |-> "asked", tok |-> window[b].tok]
<1>1. /\ UNCHANGED <<tokens, kept, cookie, window, renew, parted, alarm>>
      /\ ask' = [ask EXCEPT ![b] = [ask[b] EXCEPT ![k] = x]]
  BY DEF Web!Ask
<1>2. x \in TabAsk /\ x.tok \in 0..tokens.issued
  BY DEF ConsoleInv, ConsoleTyped, Counted, Windows, TabAsk
<1> HIDE DEF x
<1>3. ask' \in [Tabs -> TabAsks] /\ \A o \in Tabs : \A j \in Web!Kinds : ask'[o][j].tok \in 0..tokens.issued
  BY <1>1, <1>2, OneTabAsks
<1>4. Follows(tokens, tokens)
  BY ConsoleNumbers DEF Follows, ConsoleInv, Counted, Coherent, Web!PairSets
<1> QED
  BY <1>1, <1>3, <1>4, CalmKeeps DEF ConsoleInv, ConsoleTyped, Counted

(* A request moves on and keeps its pair.                                  *)
LEMMA MovesOn ==
  ASSUME ConsoleInv, NEW b \in Tabs, NEW k \in Web!Kinds,
         NEW at \in {"idle", "asked", "refused", "waiting", "again", "over"},
         ask' = [ask EXCEPT ![b][k].at = at]
  PROVE  ask' \in [Tabs -> TabAsks] /\ \A o \in Tabs : \A j \in Web!Kinds : ask'[o][j].tok \in 0..tokens.issued
<1>0. ask[b][k] \in TabAsk /\ ask[b][k].tok \in 0..tokens.issued
  BY DEF ConsoleInv, ConsoleTyped, Counted, TabAsks, TabAsk
<1>1. PICK x \in TabAsk : x.tok \in 0..tokens.issued /\ ask' = [ask EXCEPT ![b] = [ask[b] EXCEPT ![k] = x]]
  <2> DEFINE x == [ask[b][k] EXCEPT !.at = at]
  <2>1. x \in TabAsk /\ x.tok \in 0..tokens.issued
    BY <1>0 DEF TabAsk
  <2>2. ask' = [ask EXCEPT ![b] = [ask[b] EXCEPT ![k] = x]]
    OBVIOUS
  <2> QED
    BY <2>1, <2>2
<1> QED
  BY ONLY ConsoleInv, <1>1, OneTabAsks

LEMMA ServeKeeps ==
  ASSUME ConsoleInv, NEW b \in Tabs, NEW k \in Web!Kinds, Web!Serve(b, k)
  PROVE  ConsoleInv'
<1> DEFINE t == ask[b][k].tok
<1>1. /\ UNCHANGED <<kept, cookie, window, renew, parted, alarm>>
      /\ \/ tokens' = tokens
         \/ t # 0 /\ tokens' = Web!LogOut(tokens, t)
      /\ \E at \in {"refused", "over"} : ask' = [ask EXCEPT ![b][k].at = at]
  BY DEF Web!Serve, Web!AccessAccepted
<1>2. ask' \in [Tabs -> TabAsks] /\ \A o \in Tabs : \A j \in Web!Kinds : ask'[o][j].tok \in 0..tokens.issued
  BY <1>1, MovesOn
<1>3. t \in 0..tokens.issued /\ tokens.issued \in Nat
  BY ConsoleNumbers DEF ConsoleInv, Counted, Coherent, Web!PairSets
<1> HIDE DEF t
<1>4. /\ Coherent(tokens') /\ Follows(tokens, tokens')
      /\ tokens'.issued = tokens.issued /\ tokens'.used = tokens.used
  <2>1. CASE tokens' = tokens
    BY <1>3, <2>1 DEF Follows, ConsoleInv, Counted
  <2>2. CASE t # 0 /\ tokens' = Web!LogOut(tokens, t)
    <3>1. t \in 1..tokens.issued
      BY <1>3, <2>2
    <3> QED
      BY <2>2, <3>1, LoggedOutTokens DEF ConsoleInv, Counted
  <2> QED
    BY <1>1, <2>1, <2>2
<1> QED
  BY <1>1, <1>2, <1>4, CalmKeeps DEF ConsoleInv, ConsoleTyped

LEMMA FailKeeps ==
  ASSUME ConsoleInv, NEW b \in Tabs, NEW k \in Web!Kinds, Web!Fail(b, k)
  PROVE  ConsoleInv'
<1>1. /\ UNCHANGED <<tokens, kept, cookie, window, renew, parted, alarm>>
      /\ ask' = [ask EXCEPT ![b][k].at = "over"]
  BY DEF Web!Fail
<1>2. ask' \in [Tabs -> TabAsks] /\ \A o \in Tabs : \A j \in Web!Kinds : ask'[o][j].tok \in 0..tokens.issued
  BY <1>1, MovesOn
<1>3. Follows(tokens, tokens)
  BY ConsoleNumbers DEF Follows, ConsoleInv, Counted, Coherent, Web!PairSets
<1> QED
  BY <1>1, <1>2, <1>3, CalmKeeps DEF ConsoleInv, ConsoleTyped, Counted

LEMMA DoneKeeps ==
  ASSUME ConsoleInv, NEW b \in Tabs, NEW k \in Web!Kinds, Web!Done(b, k)
  PROVE  ConsoleInv'
<1>1. /\ UNCHANGED <<tokens, renew, alarm>>
      /\ ask' = [ask EXCEPT ![b] = [ask[b] EXCEPT ![k] = Web!NoAsk]]
      /\ IF k = "logout" THEN Web!SessionCleared(b) ELSE UNCHANGED <<window, kept, cookie, parted>>
  BY DEF Web!Done
<1>2. Follows(tokens, tokens) /\ 0 \in 0..tokens.issued
  BY ConsoleNumbers DEF Follows, ConsoleInv, Counted, Coherent, Web!PairSets
<1>3. ask' \in [Tabs -> TabAsks] /\ \A o \in Tabs : \A j \in Web!Kinds : ask'[o][j].tok \in 0..tokens.issued
  BY <1>1, <1>2, OneTabAsks, ConsoleShapes DEF TabAsk
<1>4. CASE k = "logout"
  BY <1>1, <1>3, <1>4, ClearedKeeps
<1>5. CASE k # "logout"
  BY <1>1, <1>2, <1>3, <1>5, CalmKeeps DEF ConsoleInv, ConsoleTyped, Counted
<1> QED
  BY <1>4, <1>5

(* Middleware, layouts and sign-in page; an account that did not load.     *)
LEMMA PagesKeep ==
  ASSUME ConsoleInv, NEW b \in Tabs, Web!Visit(b) \/ Web!Turned(b) \/ Web!SentOn(b) \/ Web!NotLoaded(b)
  PROVE  ConsoleInv'
<1> DEFINE w == window[b]
<1>1. /\ UNCHANGED <<tokens, kept, cookie, ask, renew, parted, alarm>>
      /\ \/ \E l \in BOOLEAN : window' = [window EXCEPT ![b] = [w EXCEPT !.login = l]]
         \/ window' = [window EXCEPT ![b] = [w EXCEPT !.half = FALSE]]
  BY DEF Web!Visit, Web!Turned, Web!SentOn, Web!NotLoaded
<1>2. PICK new : window' = [window EXCEPT ![b] = new] /\ new \in Windows
                 /\ new.open = w.open /\ new.tok = w.tok /\ new.user = w.user /\ (new.half => w.half)
  <2>1. w \in Windows
    BY DEF ConsoleInv, ConsoleTyped
  <2>2. \A l \in BOOLEAN : LET new == [w EXCEPT !.login = l]
                           IN /\ new \in Windows /\ new.open = w.open /\ new.tok = w.tok /\ new.user = w.user
                              /\ new.half => w.half
    BY <2>1 DEF Windows
  <2>3. LET new == [w EXCEPT !.half = FALSE]
        IN new \in Windows /\ new.open = w.open /\ new.tok = w.tok /\ new.user = w.user /\ (new.half => w.half)
    BY <2>1 DEF Windows
  <2> QED
    BY <1>1, <2>2, <2>3
<1>3. /\ window' \in [Tabs -> Windows]
      /\ \A o \in Tabs : /\ window'[o].open = window[o].open /\ window'[o].tok = window[o].tok
                         /\ window'[o].user = window[o].user /\ (window'[o].half => window[o].half)
  BY <1>2 DEF ConsoleInv, ConsoleTyped
<1>4. Follows(tokens, tokens)
  BY ConsoleNumbers DEF Follows, ConsoleInv, Counted, Coherent, Web!PairSets
<1> QED
  BY <1>1, <1>3, <1>4, CalmKeeps DEF ConsoleInv, ConsoleTyped, Counted

LEMMA AccessExpiresKeeps ==
  ASSUME ConsoleInv, NEW t \in Web!Ids, Web!Expire(t)
  PROVE  ConsoleInv'
<1>1. /\ UNCHANGED <<kept, cookie, window, ask, renew, parted, alarm>>
      /\ tokens' = [tokens EXCEPT !.cut = @ \union {t}] /\ t <= tokens.issued
  BY DEF Web!Expire
<1>2. t \in 1..tokens.issued
  BY <1>1, ConsoleNumbers DEF ConsoleInv, Counted, Coherent, Web!PairSets
<1>3. /\ Coherent(tokens') /\ Follows(tokens, tokens')
      /\ tokens'.issued = tokens.issued /\ tokens'.used = tokens.used
  BY <1>1, <1>2, ExpiredTokens DEF ConsoleInv, Counted
<1> QED
  BY <1>1, <1>3, CalmKeeps DEF ConsoleInv, ConsoleTyped, Counted

-----------------------------------------------------------------------------
(* Renewing a pair *)

LEMMA TabJoinsKeeps ==
  ASSUME ConsoleInv, NEW b \in Tabs, NEW k \in Web!Kinds, Web!JoinRefresh(b, k)
  PROVE  ConsoleInv'
<1> DEFINE new == [at |-> "asked", tok |-> window[b].tok, new |-> 0]
           starts == renew[b].at = "idle" /\ window[b].tok # 0 /\ renew' = [renew EXCEPT ![b] = new]
<1>1. /\ UNCHANGED <<tokens, kept, cookie, window, parted, alarm>>
      /\ \E at \in {"over", "waiting"} : ask' = [ask EXCEPT ![b][k].at = at]
      /\ UNCHANGED renew \/ starts
  BY DEF Web!JoinRefresh
<1>2. ask' \in [Tabs -> TabAsks] /\ \A o \in Tabs : \A j \in Web!Kinds : ask'[o][j].tok \in 0..tokens.issued
  BY <1>1, MovesOn
<1>3. Follows(tokens, tokens) /\ 0 \in 0..tokens.issued
  BY ConsoleNumbers DEF Follows, ConsoleInv, Counted, Coherent, Web!PairSets
<1>4. CASE UNCHANGED renew
  BY <1>1, <1>2, <1>3, <1>4, CalmKeeps DEF ConsoleInv, ConsoleTyped, Counted
<1>5. CASE starts
  <2>1. new \in Renewals /\ new.at = "asked" /\ new.tok = window[b].tok /\ new.new = 0
    BY ConsoleShapes DEF ConsoleInv, ConsoleTyped, Windows, Renewals
  <2> HIDE DEF new
  <2>2. /\ renew' \in [Tabs -> Renewals] /\ renew'[b] = new
        /\ \A o \in Tabs \ {b} : renew'[o] = renew[o]
        /\ renew[b].at = "idle" /\ window[b].tok # 0
    BY <1>5, <2>1 DEF ConsoleInv, ConsoleTyped
  <2>3. window[b].open
    BY <2>2 DEF ConsoleInv, Shut
  <2>4. ConsoleTyped'
    BY <1>1, <1>2, <2>2 DEF ConsoleInv, ConsoleTyped
  <2>5. Counted'
    BY <1>1, <1>2, <1>3, <2>1, <2>2 DEF ConsoleInv, Counted
  <2>6. Shut'
    BY <1>1, <2>1, <2>2, <2>3 DEF ConsoleInv, Shut
  <2>7. Aligned'
    BY <1>1 DEF ConsoleInv, Aligned
  <2>8. Cause'
    <3> SUFFICES ASSUME parted \intersect {"twins", "lost"} = {} PROVE Cause'
      BY <1>1 DEF Cause
    <3>1. /\ \A o \in Tabs : \A t : Has(o, t)' => Has(o, t)
          /\ \A o \in Tabs : \A t : Spent(o, t)' <=> Spent(o, t)
      BY <1>1, <2>1, <2>2 DEF Has, Spent
    <3>2. \A o, d \in Tabs : \A t \in Web!Ids : Has(o, t)' /\ Has(d, t)' => o = d
      BY <3>1 DEF ConsoleInv, Cause
    <3>3. Fresh(tokens, window[b].tok)
      BY <2>2 DEF ConsoleInv, Cause, Spent
    <3>4. ASSUME NEW o \in Tabs
          PROVE  /\ renew'[o].at = "asked" => Fresh(tokens, renew'[o].tok)
                 /\ renew'[o].at = "ok" => renew'[o].new \notin {0, kept.tok, window[o].tok}
                                           /\ Fresh(tokens, renew'[o].new)
                 /\ renew'[o].at # "ok" => renew'[o].new = 0
      BY <2>1, <2>2, <3>3 DEF ConsoleInv, Cause
    <3> QED
      BY <1>1, <3>1, <3>2, <3>4 DEF ConsoleInv, Cause
  <2> QED
    BY <2>4, <2>5, <2>6, <2>7, <2>8 DEF ConsoleInv
<1> QED
  BY <1>1, <1>4, <1>5



(* The server redeems the pair: it is used, and its tab gets the next.     *)
LEMMA RedeemedKeeps ==
  ASSUME ConsoleInv, NEW b \in Tabs, renew[b].at = "asked",
         Web!Redeemable(tokens, renew[b].tok), tokens.issued < ConsolePairs,
         tokens' = Web!Rotated(tokens, renew[b].tok),
         renew' = [renew EXCEPT ![b].at = "ok", ![b].new = tokens'.issued],
         UNCHANGED <<kept, cookie, window, ask, parted, alarm>>
  PROVE  ConsoleInv'
<1> DEFINE n == tokens.issued + 1
           t == renew[b].tok
           new == [renew[b] EXCEPT !.at = "ok", !.new = n]
<1>1. /\ tokens.issued \in Nat /\ 0 \in 0..tokens.issued /\ tokens.used \subseteq 1..tokens.issued
      /\ t \in 1..tokens.issued /\ t \in 0..tokens.issued /\ t # 0 /\ n \in Web!Ids /\ n \in Web!Held
  BY ConsoleNumbers DEF ConsoleInv, Counted, Coherent, Web!PairSets, Web!Redeemable
<1>2. /\ Coherent(tokens') /\ Follows(tokens, tokens') /\ tokens'.issued = n
      /\ tokens'.used = tokens.used \union {t}
  BY <1>1, RotatedTokens DEF ConsoleInv, Counted
<1>3. /\ n \in 0..n /\ n \notin 0..tokens.issued /\ n # 0 /\ n \notin tokens'.used
      /\ \A u \in 0..tokens.issued : u \in 0..n
      /\ \A u \in 0..tokens.issued : Fresh(tokens, u) /\ u # t => Fresh(tokens', u)
  BY <1>1, <1>2, FreshLasts DEF ConsoleInv, Counted
<1>4. /\ new \in Renewals /\ new.at = "ok" /\ new.tok = t /\ new.new = n
      /\ renew' = [renew EXCEPT ![b] = new]
  BY <1>1, <1>2 DEF ConsoleInv, ConsoleTyped, Renewals
<1> HIDE DEF new, n, t
<1>5. /\ renew' \in [Tabs -> Renewals] /\ renew'[b] = new
      /\ \A o \in Tabs \ {b} : renew'[o] = renew[o]
  BY <1>4 DEF ConsoleInv, ConsoleTyped
<1>6. ConsoleTyped'
  BY <1>5 DEF ConsoleInv, ConsoleTyped
<1>7. Counted'
  BY <1>1, <1>2, <1>3, <1>4, <1>5 DEF ConsoleInv, Counted
<1>8. Shut'
  BY <1>4, <1>5 DEF ConsoleInv, Shut
<1>9. Aligned'
  BY DEF ConsoleInv, Aligned
<1>10. Cause'
  <2> SUFFICES ASSUME parted \intersect {"twins", "lost"} = {} PROVE Cause'
    BY DEF Cause
  <2>1. /\ \A o \in Tabs \ {b} : \A u : (Has(o, u)' <=> Has(o, u)) /\ (Spent(o, u)' <=> Spent(o, u))
        /\ \A u : Has(b, u)' => Has(b, u) \/ u = n
        /\ \A u : ~Spent(b, u) /\ (Spent(b, u)' <=> u = t)
        /\ \A o \in Tabs : ~Has(o, n)
        /\ Has(b, t)
    BY <1>1, <1>3, <1>4, <1>5 DEF Has, Spent, ConsoleInv, Counted, t
  <2>2. \A o, d \in Tabs : \A u \in Web!Ids : Has(o, u)' /\ Has(d, u)' => o = d
    BY <2>1 DEF ConsoleInv, Cause
  <2>3. \A o \in Tabs \ {b} : t \notin {window[o].tok, renew[o].tok, renew[o].new}
    <3>1. t \in Web!Ids
      BY <1>1, ConsoleNumbers DEF ConsoleInv, Counted, Coherent, Web!PairSets
    <3>2. \A o \in Tabs \ {b} : ~Has(o, t)
      BY <2>1, <3>1 DEF ConsoleInv, Cause
    <3> QED
      BY <1>1, <3>2 DEF Has
  <2>4. Fresh(tokens', n) /\ n \notin {0, kept.tok, window[b].tok}
    BY <1>3 DEF Fresh, ConsoleInv, Counted
  <2>5. Fresh(tokens', kept.tok) \/ \E o \in Tabs : Spent(o, kept.tok)'
    <3>1. CASE kept.tok = t
      BY <2>1, <3>1
    <3>2. CASE kept.tok # t
      BY <1>3, <2>1, <3>2 DEF ConsoleInv, Counted, Cause
    <3> QED
      BY <3>1, <3>2
  <2>6. ASSUME NEW o \in Tabs
        PROVE  /\ Fresh(tokens', window[o].tok) \/ Spent(o, window[o].tok)'
               /\ renew'[o].at = "asked" => Fresh(tokens', renew'[o].tok)
               /\ renew'[o].at = "ok" => renew'[o].new \notin {0, kept.tok, window[o].tok}
                                         /\ Fresh(tokens', renew'[o].new)
               /\ renew'[o].at # "ok" => renew'[o].new = 0
    <3>1. CASE o = b
      <4>1. Fresh(tokens', window[b].tok) \/ Spent(b, window[b].tok)'
        BY <1>3, <2>1 DEF ConsoleInv, Counted, Cause
      <4> QED
        BY <1>4, <1>5, <2>4, <3>1, <4>1
    <3>2. CASE o # b
      BY <1>3, <1>5, <2>1, <2>3, <3>2 DEF ConsoleInv, Counted, Cause
    <3> QED
      BY <3>1, <3>2
  <2> QED
    BY <2>2, <2>5, <2>6 DEF ConsoleInv, Cause
<1> QED
  BY <1>6, <1>7, <1>8, <1>9, <1>10 DEF ConsoleInv

(* The server does not redeem it; a used one of a live family would raise  *)
(* the alarm.                                                              *)
LEMMA DeniedKeeps ==
  ASSUME ConsoleInv, NEW b \in Tabs, renew[b].at = "asked",
         tokens' = Web!Rejected(tokens, renew[b].tok),
         alarm' = (alarm \/ Web!Alarming(tokens, renew[b].tok)),
         renew' = [renew EXCEPT ![b].at = "denied"],
         UNCHANGED <<kept, cookie, window, ask, parted>>
  PROVE  ConsoleInv'
<1> DEFINE t == renew[b].tok
           new == [renew[b] EXCEPT !.at = "denied"]
<1>1. /\ tokens.issued \in Nat /\ tokens.used \subseteq 1..tokens.issued /\ t \in 0..tokens.issued
  BY ConsoleNumbers DEF ConsoleInv, Counted, Coherent, Web!PairSets
<1>2. /\ Coherent(tokens') /\ Follows(tokens, tokens') /\ tokens'.issued = tokens.issued
      /\ tokens'.used = tokens.used
  <2>1. CASE t = 0
    <3>1. tokens' = tokens
      BY <1>1, <2>1 DEF Web!Rejected
    <3> QED
      BY <1>1, <3>1 DEF Follows, ConsoleInv, Counted
  <2>2. CASE t # 0
    <3>1. t \in 1..tokens.issued
      BY <1>1, <2>2
    <3> QED
      BY <3>1, RejectedTokens DEF ConsoleInv, Counted
  <2> QED
    BY <2>1, <2>2
<1>3. \A u \in 0..tokens.issued : Fresh(tokens, u) => Fresh(tokens', u)
  BY <1>2, FreshLasts DEF ConsoleInv, Counted
<1>4. /\ new \in Renewals /\ new.at = "denied" /\ new.tok = t /\ new.new = renew[b].new
      /\ renew' = [renew EXCEPT ![b] = new]
  BY DEF ConsoleInv, ConsoleTyped, Renewals
<1>5. Fresh(tokens, t) => ~Web!Alarming(tokens, t)
  BY <1>1 DEF Fresh, Web!Alarming
<1>a. alarm' \in BOOLEAN /\ (alarm' => alarm \/ Web!Alarming(tokens, t))
  BY DEF ConsoleInv, ConsoleTyped
<1> HIDE DEF new, t
<1>6. /\ renew' \in [Tabs -> Renewals] /\ renew'[b] = new
      /\ \A o \in Tabs \ {b} : renew'[o] = renew[o]
  BY <1>4 DEF ConsoleInv, ConsoleTyped
<1>7. ConsoleTyped'
  BY <1>6, <1>a DEF ConsoleInv, ConsoleTyped
<1>8. Counted'
  BY <1>1, <1>2, <1>4, <1>6 DEF ConsoleInv, Counted
<1>9. Shut'
  BY <1>4, <1>6 DEF ConsoleInv, Shut
<1>10. Aligned'
  BY DEF ConsoleInv, Aligned
<1>11. Cause'
  <2> SUFFICES ASSUME parted \intersect {"twins", "lost"} = {} PROVE Cause'
    BY DEF Cause
  <2>1. \A o \in Tabs : \A u : (Has(o, u)' <=> Has(o, u)) /\ (Spent(o, u)' <=> Spent(o, u))
    BY <1>4, <1>6 DEF Has, Spent, t
  <2>2. ~alarm'
    BY <1>5, <1>a DEF ConsoleInv, Cause, t
  <2>3. Fresh(tokens', kept.tok) \/ \E o \in Tabs : Spent(o, kept.tok)'
    BY <1>3, <2>1 DEF ConsoleInv, Counted, Cause
  <2>4. ASSUME NEW o \in Tabs
        PROVE  /\ Fresh(tokens', window[o].tok) \/ Spent(o, window[o].tok)'
               /\ renew'[o].at = "asked" => Fresh(tokens', renew'[o].tok)
               /\ renew'[o].at = "ok" => renew'[o].new \notin {0, kept.tok, window[o].tok}
                                         /\ Fresh(tokens', renew'[o].new)
               /\ renew'[o].at # "ok" => renew'[o].new = 0
    BY <1>3, <1>4, <1>6, <2>1 DEF ConsoleInv, Counted, Cause
  <2> QED
    BY <2>1, <2>2, <2>3, <2>4 DEF ConsoleInv, Cause
<1> QED
  BY <1>7, <1>8, <1>9, <1>10, <1>11 DEF ConsoleInv

LEMMA TabRefreshFailsKeeps ==
  ASSUME ConsoleInv, NEW b \in Tabs, Web!RefreshFails(b)
  PROVE  ConsoleInv'
<1> DEFINE new == [renew[b] EXCEPT !.at = "failed"]
<1>1. /\ renew[b].at \in {"asked", "ok"}
      /\ renew' = [renew EXCEPT ![b] = new]
      /\ parted' = parted \union (IF renew[b].at = "ok" THEN {"lost"} ELSE {})
      /\ UNCHANGED <<tokens, kept, cookie, window, ask, alarm>>
  BY DEF Web!RefreshFails
<1>2. new \in Renewals /\ new.at = "failed" /\ new.tok = renew[b].tok /\ new.new = renew[b].new
  BY DEF ConsoleInv, ConsoleTyped, Renewals
<1> HIDE DEF new
<1>3. /\ renew' \in [Tabs -> Renewals] /\ renew'[b] = new
      /\ \A o \in Tabs \ {b} : renew'[o] = renew[o]
      /\ parted' \subseteq {"expired", "beside", "twins", "lost"} /\ parted \subseteq parted'
  BY <1>1, <1>2 DEF ConsoleInv, ConsoleTyped
<1>4. ConsoleTyped'
  BY <1>1, <1>3 DEF ConsoleInv, ConsoleTyped
<1>5. Counted'
  BY <1>1, <1>2, <1>3 DEF ConsoleInv, Counted
<1>6. Shut'
  BY <1>1, <1>2, <1>3 DEF ConsoleInv, Shut
<1>7. Aligned'
  BY <1>1, <1>3 DEF ConsoleInv, Aligned
<1>8. Cause'
  <2> SUFFICES ASSUME parted' \intersect {"twins", "lost"} = {} PROVE Cause'
    BY DEF Cause
  <2>1. parted \intersect {"twins", "lost"} = {} /\ renew[b].at = "asked"
    BY <1>1, <1>3
  <2>2. \A o \in Tabs : \A u : (Has(o, u)' <=> Has(o, u)) /\ (Spent(o, u)' <=> Spent(o, u))
    BY <1>1, <1>2, <1>3, <2>1 DEF Has, Spent
  <2>3. ASSUME NEW o \in Tabs
        PROVE  /\ renew'[o].at = "asked" => Fresh(tokens, renew'[o].tok)
               /\ renew'[o].at = "ok" => renew'[o].new \notin {0, kept.tok, window[o].tok}
                                         /\ Fresh(tokens, renew'[o].new)
               /\ renew'[o].at # "ok" => renew'[o].new = 0
    BY <1>2, <1>3, <2>1 DEF ConsoleInv, Cause
  <2> QED
    BY <1>1, <2>1, <2>2, <2>3 DEF ConsoleInv, Cause
<1> QED
  BY <1>4, <1>5, <1>6, <1>7, <1>8 DEF ConsoleInv

LEMMA TabRefreshSettlesKeeps ==
  ASSUME ConsoleInv, NEW b \in Tabs, Web!RefreshSettles(b)
  PROVE  ConsoleInv'
<1> DEFINE r == renew[b]
           turn(x) == IF x.at # "waiting" THEN x
                      ELSE IF r.at = "ok" THEN [at |-> "again", tok |-> r.new]
                      ELSE [x EXCEPT !.at = "over"]
           mine == [k \in Web!Kinds |-> turn(ask[b][k])]
<1>1. /\ r.at \in {"ok", "denied", "failed"} /\ UNCHANGED <<tokens, alarm>>
      /\ renew' = [renew EXCEPT ![b] = Web!NoRenew]
      /\ ask' = [ask EXCEPT ![b] = mine]
      /\ r.at = "ok" => Web!TokensSet(b, r.new, window[b].half) /\ UNCHANGED parted
      /\ r.at = "denied" => Web!SessionCleared(b)
      /\ r.at = "failed" => UNCHANGED <<window, kept, cookie, parted>>
  BY DEF Web!RefreshSettles
<1>2. /\ r \in Renewals /\ r.new \in Web!Held /\ r.new \in 0..tokens.issued /\ window[b].half \in BOOLEAN
      /\ 0 \in 0..tokens.issued
      /\ ask \in [Tabs -> [Web!Kinds -> TabAsk]]
      /\ \A o \in Tabs : \A k \in Web!Kinds : ask[o][k].tok \in 0..tokens.issued
  BY ConsoleNumbers
     DEF ConsoleInv, ConsoleTyped, Renewals, Windows, TabAsks, TabAsk, Counted, Coherent, Web!PairSets
<1>3. /\ ask' \in [Tabs -> TabAsks]
      /\ \A o \in Tabs : \A k \in Web!Kinds : ask'[o][k].tok \in 0..tokens.issued
  <2>1. ASSUME NEW x \in TabAsk, x.tok \in 0..tokens.issued
        PROVE  turn(x) \in TabAsk /\ turn(x).tok \in 0..tokens.issued
    BY <1>2, <2>1 DEF TabAsk
  <2>2. mine \in [Web!Kinds -> TabAsk] /\ \A k \in Web!Kinds : mine[k].tok \in 0..tokens.issued
    BY <1>2, <2>1
  <2> HIDE DEF mine
  <2>3. /\ ask' \in [Tabs -> [Web!Kinds -> TabAsk]] /\ ask'[b] = mine
        /\ \A o \in Tabs \ {b} : ask'[o] = ask[o]
    BY <1>1, <1>2, <2>2
  <2> QED
    BY <1>2, <2>2, <2>3 DEF TabAsks, TabAsk
<1> HIDE DEF mine
<1>4. /\ renew' \in [Tabs -> Renewals]
      /\ renew'[b].at = "idle" /\ renew'[b].tok = 0 /\ renew'[b].new = 0
      /\ \A o \in Tabs \ {b} : renew'[o] = renew[o]
  BY <1>1, ConsoleShapes DEF ConsoleInv, ConsoleTyped
<1>5. CASE r.at = "denied"
  BY <1>1, <1>3, <1>5, ClearedKeeps
<1>6. CASE r.at = "failed"
  <2>1. UNCHANGED <<window, kept, cookie, parted, tokens, alarm>>
    BY <1>1, <1>6
  <2>2. ConsoleTyped'
    BY <1>3, <1>4, <2>1 DEF ConsoleInv, ConsoleTyped
  <2>3. Counted'
    BY <1>2, <1>3, <1>4, <2>1 DEF ConsoleInv, Counted
  <2>4. Shut' /\ Aligned'
    BY <1>4, <2>1 DEF ConsoleInv, Shut, Aligned
  <2>5. Cause'
    <3> SUFFICES ASSUME parted \intersect {"twins", "lost"} = {} PROVE Cause'
      BY <2>1 DEF Cause
    <3>1. /\ \A o \in Tabs \ {b} : \A t : (Has(o, t)' <=> Has(o, t)) /\ (Spent(o, t)' <=> Spent(o, t))
          /\ \A t : (Has(b, t)' => Has(b, t)) /\ ~Spent(b, t)
      BY <1>4, <1>6, <2>1 DEF Has, Spent
    <3>2. \A o, d \in Tabs : \A t \in Web!Ids : Has(o, t)' /\ Has(d, t)' => o = d
      BY <3>1 DEF ConsoleInv, Cause
    <3>3. Fresh(tokens, kept.tok) \/ \E o \in Tabs : Spent(o, kept.tok)'
      BY <2>1, <3>1 DEF ConsoleInv, Cause
    <3>4. ASSUME NEW o \in Tabs
          PROVE  /\ Fresh(tokens, window[o].tok) \/ Spent(o, window[o].tok)'
                 /\ renew'[o].at = "asked" => Fresh(tokens, renew'[o].tok)
                 /\ renew'[o].at = "ok" => renew'[o].new \notin {0, kept.tok, window[o].tok}
                                           /\ Fresh(tokens, renew'[o].new)
                 /\ renew'[o].at # "ok" => renew'[o].new = 0
      BY <1>4, <2>1, <3>1 DEF ConsoleInv, Cause
    <3> QED
      BY <2>1, <3>2, <3>3, <3>4 DEF ConsoleInv, Cause
  <2> QED
    BY <2>2, <2>3, <2>4, <2>5 DEF ConsoleInv
<1>7. CASE r.at = "ok"
  <2>1. /\ window' \in [Tabs -> Windows] /\ kept' \in Memories /\ cookie' = cookie
        /\ kept'.tok = r.new /\ kept'.user = window[b].user
        /\ window'[b].tok = r.new /\ window'[b].half = window[b].half
        /\ window'[b].user = window[b].user /\ window'[b].open = window[b].open
        /\ \A o \in Tabs \ {b} : window'[o] = window[o]
    BY <1>1, <1>2, <1>7, TokensSetShape DEF ConsoleInv, ConsoleTyped
  <2>2. UNCHANGED <<tokens, alarm, parted>>
    BY <1>1, <1>7
  <2>3. window[b].open
    BY <1>7 DEF ConsoleInv, Shut
  <2>4. ConsoleTyped'
    BY <1>3, <1>4, <2>1, <2>2 DEF ConsoleInv, ConsoleTyped
  <2>5. Counted'
    BY <1>2, <1>3, <1>4, <2>1, <2>2 DEF ConsoleInv, Counted
  <2>6. Shut'
    BY <1>4, <2>1, <2>3 DEF ConsoleInv, Shut
  <2>7. Aligned'
    BY <2>1, <2>2 DEF ConsoleInv, Aligned
  <2>8. Cause'
    <3> SUFFICES ASSUME parted \intersect {"twins", "lost"} = {} PROVE Cause'
      BY <2>2 DEF Cause
    <3>1. /\ \A o \in Tabs \ {b} : \A t : (Has(o, t)' <=> Has(o, t)) /\ (Spent(o, t)' <=> Spent(o, t))
          /\ \A t : Has(b, t)' => Has(b, t)
          /\ r.new # 0 => Has(b, r.new)
      BY <1>4, <2>1 DEF Has, Spent
    <3>2. \A o, d \in Tabs : \A t \in Web!Ids : Has(o, t)' /\ Has(d, t)' => o = d
      BY <3>1 DEF ConsoleInv, Cause
    <3>3. Fresh(tokens, r.new) /\ r.new # 0 /\ r.new \in Web!Ids
      BY <1>2, <1>7, ConsoleNumbers DEF ConsoleInv, Cause
    <3>4. \A o \in Tabs \ {b} : r.new \notin {window[o].tok, renew[o].tok, renew[o].new}
      <4>1. \A o \in Tabs \ {b} : ~Has(o, r.new)
        BY <3>1, <3>3 DEF ConsoleInv, Cause
      <4> QED
        BY <3>3, <4>1 DEF Has
    <3> HIDE DEF r
    <3>5. ASSUME NEW o \in Tabs
          PROVE  /\ Fresh(tokens, window'[o].tok) \/ Spent(o, window[o].tok)'
                 /\ renew'[o].at = "asked" => Fresh(tokens, renew'[o].tok)
                 /\ renew'[o].at = "ok" => renew'[o].new \notin {0, kept'.tok, window'[o].tok}
                                           /\ Fresh(tokens, renew'[o].new)
                 /\ renew'[o].at # "ok" => renew'[o].new = 0
      <4>1. CASE o = b
        BY <1>4, <2>1, <3>3, <4>1
      <4>2. CASE o # b
        BY <1>4, <2>1, <3>1, <3>4, <4>2 DEF ConsoleInv, Cause
      <4> QED
        BY <4>1, <4>2
    <3> QED
      BY <2>1, <2>2, <3>2, <3>3, <3>5 DEF ConsoleInv, Cause
  <2> QED
    BY <2>4, <2>5, <2>6, <2>7, <2>8 DEF ConsoleInv
<1> QED
  BY <1>1, <1>5, <1>6, <1>7

-----------------------------------------------------------------------------

LEMMA ConsoleInit == Web!Init => ConsoleInv
<1> SUFFICES ASSUME Web!Init PROVE ConsoleInv
  OBVIOUS
<1>1. /\ tokens = Web!NoPairs /\ kept = Web!None /\ cookie = Nobody
      /\ window = [b \in Tabs |-> Web!Closed]
      /\ ask = [b \in Tabs |-> [k \in Web!Kinds |-> Web!NoAsk]]
      /\ renew = [b \in Tabs |-> Web!NoRenew]
      /\ parted = {} /\ alarm = FALSE
  BY DEF Web!Init
<1>2. Coherent(tokens) /\ tokens.issued = 0 /\ 0 \in 0..0
  BY <1>1, ConsoleNumbers DEF Coherent, Web!NoPairs, Web!PairSets
<1>3. ConsoleTyped
  BY <1>1, ConsoleShapes DEF ConsoleTyped, TabAsks, Users
<1>4. Counted
  BY <1>1, <1>2, ConsoleShapes DEF Counted
<1>5. Shut /\ Aligned
  BY <1>1, ConsoleShapes DEF Shut, Aligned
<1>6. Cause
  BY <1>1, ConsoleShapes DEF Cause, Fresh, Has
<1> QED
  BY <1>3, <1>4, <1>5, <1>6 DEF ConsoleInv

LEMMA ConsoleStep ==
  ASSUME ConsoleInv, Web!Next \/ UNCHANGED webVars
  PROVE  ConsoleInv'
<1>1. ASSUME NEW b \in Tabs, \/ \E c \in Web!Consoles : Web!Open(b, c)
                             \/ \E a \in ConsoleAccounts : Web!SignIn(b, a)
                             \/ Web!Close(b) \/ Web!Loaded(b)
      PROVE  ConsoleInv'
  BY <1>1, OpenTabKeeps, SignInKeeps, CloseKeeps, LoadedKeeps
<1>2. ASSUME NEW b \in Tabs, Web!Visit(b) \/ Web!Turned(b) \/ Web!SentOn(b) \/ Web!NotLoaded(b)
      PROVE  ConsoleInv'
  BY <1>2, PagesKeep
<1>3. ASSUME NEW b \in Tabs, NEW k \in Web!Kinds,
             Web!Ask(b, k) \/ Web!Serve(b, k) \/ Web!Fail(b, k) \/ Web!JoinRefresh(b, k) \/ Web!Done(b, k)
      PROVE  ConsoleInv'
  BY <1>3, AskKeeps, ServeKeeps, FailKeeps, TabJoinsKeeps, DoneKeeps
<1>4. ASSUME NEW b \in Tabs, Web!RefreshServe(b) PROVE ConsoleInv'
  BY <1>4, RedeemedKeeps, DeniedKeeps DEF Web!RefreshServe
<1>5. ASSUME NEW b \in Tabs, Web!RefreshFails(b) \/ Web!RefreshSettles(b) PROVE ConsoleInv'
  BY <1>5, TabRefreshFailsKeeps, TabRefreshSettlesKeeps
<1>6. ASSUME NEW t \in Web!Ids, Web!Expire(t) PROVE ConsoleInv'
  BY <1>6, AccessExpiresKeeps
<1>7. CASE Web!CookieExpires
  BY <1>7, CookieExpiresKeeps
<1>8. CASE UNCHANGED webVars
  <2>1. Follows(tokens, tokens)
    BY ConsoleNumbers DEF Follows, ConsoleInv, Counted, Coherent, Web!PairSets
  <2> QED
    BY <1>8, <2>1, CalmKeeps DEF webVars, ConsoleInv, ConsoleTyped, Counted
<1> QED
  BY <1>1, <1>2, <1>3, <1>4, <1>5, <1>6, <1>7, <1>8 DEF Web!Next

(* A step of the clients is one of the consoles, or leaves them.           *)
LEMMA ConsoleMoves ==
  ASSUME [Next]_vars
  PROVE  UNCHANGED part /\ (part = "web" => Web!Next \/ UNCHANGED webVars)
BY DEF Next, Only, vars

(* The invariant of the clients, as far as the consoles go.                *)
TabsInv == part = "web" => ConsoleInv

LEMMA TabsHold == Spec => []TabsInv
<1>1. Init => TabsInv
  BY ConsoleInit DEF Init, TabsInv
<1>2. TabsInv /\ [Next]_vars => TabsInv'
  BY ConsoleMoves, ConsoleStep DEF TabsInv
<1> QED
  BY <1>1, <1>2, PTL DEF Spec

(* web/middleware.ts and the sign-in pages: nobody who is signed in to a   *)
(* console is kept on its sign-in page, as long as the cookie has not run  *)
(* out and no tab signed in or out beside another.                         *)
THEOREM NobodyIsTurnedAway == Spec => []LetInAlone
<1>1. TabsInv => LetInAlone
  <2> SUFFICES ASSUME ConsoleInv, parted \intersect {"expired", "beside"} = {}, NEW b \in Tabs,
                      window[b].user = window[b].console
               PROVE  cookie = window[b].console
    BY DEF TabsInv, LetInAlone, Web!LetInAlone, Web!SignedInIsLetIn
  <2>1. window[b].console # Nobody
    BY NobodyAssumption DEF ConsoleInv, ConsoleTyped, Windows, Web!Consoles
  <2> QED
    BY <2>1 DEF ConsoleInv, Aligned
<1> QED
  BY <1>1, TabsHold, PTL

(* web/services/api.ts: the server's reuse alarm stays silent unless two   *)
(* open tabs came to hold one pair or a renewed pair was lost on its way.  *)
THEOREM AlarmsAreEarned == Spec => []AlarmHasCause
<1>1. TabsInv => AlarmHasCause
  BY DEF TabsInv, AlarmHasCause, Web!AlarmHasCause, ConsoleInv, Cause
<1> QED
  BY <1>1, TabsHold, PTL

(***************************************************************************)
(* System settings (SettingsForm).  What other tabs wrote survives because *)
(* a tab's copy agrees with the server everywhere but in its own section,  *)
(* from the moment it is made until its save is answered and the settings  *)
(* are read again.                                                         *)
(***************************************************************************)

(* The settings have one administrator at a time.                          *)
OneEditor == \A d, e \in Editors : d = e

SaveServed(e) == \E s \in Sections : saving[e][s].at = "served"

(* A copy says of every section but the open tab's what the server has.    *)
RightBeside(e, copy) == \A t \in Sections : t # tab[e] => copy[t] = settings[t]

(* Every copy in a browser, but for the section its tab is about.          *)
CopiesAgree(e) ==
  /\ known[e].data # Settings!NoCopy => RightBeside(e, known[e].data)
  /\ form[e] # Settings!NoCopy => RightBeside(e, form[e])
  /\ reading[e].at = "served" => RightBeside(e, reading[e].answer)
  /\ \A s \in Sections : saving[e][s].at = "asked" => RightBeside(e, saving[e][s].copy)

(* The tab stays until its save is answered, and has no form when away.    *)
TabStays(e) ==
  /\ \A s \in Sections : saving[e][s].at # "idle" => s = tab[e]
  /\ tab[e] = "away" => form[e] = Settings!NoCopy

(* What is read, and what the query knows, is old only until an answer to  *)
(* come puts it right.                                                     *)
ReadAgainSoon(e) ==
  /\ reading[e].at = "served" /\ ~SaveServed(e) => reading[e].answer = settings
  /\ known[e].data \notin {Settings!NoCopy, settings} => reading[e].at # "idle" \/ SaveServed(e)

(* A save on its way, and an answer, carry a whole record.                 *)
RecordsOnTheWay ==
  \A e \in Editors :
    /\ reading[e].at = "served" => reading[e].answer \in Settings!Records
    /\ \A s \in Sections : saving[e][s].at = "asked" => saving[e][s].copy \in Settings!Records

FormTyped == Settings!TypeOK /\ RecordsOnTheWay

FormAgrees == spoiled = {} => \A e \in Editors : CopiesAgree(e) /\ TabStays(e) /\ ReadAgainSoon(e)

Fetches == [at : {"idle", "asked", "served"}, answer : Settings!Copies]
Knowledge == [data : Settings!Copies, outdated : BOOLEAN]
Saves == [at : {"idle", "asked", "served"}, copy : Settings!Copies]

LEMMA FormShapes ==
  /\ Settings!NoCopy \in Settings!Copies /\ (\A r \in Settings!Records : r \in Settings!Copies)
  /\ Settings!NoFetch \in Fetches /\ Settings!NoFetch.at = "idle"
  /\ Settings!NoSave \in Saves /\ Settings!NoSave.at = "idle"
  /\ Settings!Asked \in Fetches /\ Settings!Asked.at = "asked"
  /\ \A c \in Settings!Copies : c # Settings!NoCopy => c \in Settings!Records
<1>1. /\ Settings!NoCopy \in Settings!Copies /\ (\A r \in Settings!Records : r \in Settings!Copies)
      /\ \A c \in Settings!Copies : c # Settings!NoCopy => c \in Settings!Records
  BY DEF Settings!Copies
<1> QED
  BY <1>1 DEF Settings!NoFetch, Settings!NoSave, Settings!Asked, Fetches, Saves

LEMMA FormTypes ==
  ASSUME Settings!TypeOK
  PROVE  /\ settings \in Settings!Records /\ edits \in 0..MaxEdits
         /\ tab \in [Editors -> Sections \union {"away"}] /\ form \in [Editors -> Settings!Copies]
         /\ known \in [Editors -> Knowledge] /\ reading \in [Editors -> Fetches]
         /\ saving \in [Editors -> [Sections -> Saves]] /\ spoiled \subseteq {"hurry", "failed"}
BY DEF Settings!TypeOK, Knowledge, Fetches, Saves

LEMMA FormTypesNext ==
  ASSUME settings' \in Settings!Records, edits' \in 0..MaxEdits,
         tab' \in [Editors -> Sections \union {"away"}], form' \in [Editors -> Settings!Copies],
         known' \in [Editors -> Knowledge], reading' \in [Editors -> Fetches],
         saving' \in [Editors -> [Sections -> Saves]], spoiled' \subseteq {"hurry", "failed"}
  PROVE  Settings!TypeOK'
BY DEF Settings!TypeOK, Knowledge, Fetches, Saves

(* One editor's entry changes.                                             *)
LEMMA FormTypedStep ==
  ASSUME FormTyped, Settings!Next
  PROVE  FormTyped'
<1>1. PICK e \in Editors :
    \/ Settings!Go(e) \/ Settings!Refetch(e) \/ Settings!ServeRead(e) \/ Settings!Read(e) \/ Settings!ReadFails(e)
    \/ Settings!Edit(e) \/ Settings!Discard(e) \/ Settings!Save(e)
    \/ \E s \in Sections : \/ Settings!Open(e, s) \/ Settings!ServeSave(e, s)
                           \/ Settings!Saved(e, s) \/ Settings!SaveFails(e, s)
  BY DEF Settings!Next
<1>2. /\ settings \in Settings!Records /\ edits \in 0..MaxEdits
         /\ tab \in [Editors -> Sections \union {"away"}] /\ form \in [Editors -> Settings!Copies]
         /\ known \in [Editors -> Knowledge] /\ reading \in [Editors -> Fetches]
         /\ saving \in [Editors -> [Sections -> Saves]] /\ spoiled \subseteq {"hurry", "failed"}
  BY FormTypes DEF FormTyped
<1>3. /\ known[e].data \in Settings!Copies /\ reading[e].answer \in Settings!Copies
      /\ Settings!Hurried(e) \subseteq {"hurry", "failed"}
  BY <1>2 DEF Knowledge, Fetches, Settings!Hurried
<1>4. CASE Settings!Go(e)
  <2>1. tab' = [tab EXCEPT ![e] = "away"] /\ form' = [form EXCEPT ![e] = Settings!NoCopy]
        /\ spoiled' = Settings!Hurried(e) /\ UNCHANGED <<settings, edits, known, reading, saving>>
    BY <1>4 DEF Settings!Go
  <2>2. Settings!TypeOK'
    BY <1>2, <1>3, <2>1, FormShapes, FormTypesNext
  <2> QED
    BY <2>1, <2>2 DEF FormTyped, RecordsOnTheWay
<1>5. CASE Settings!Refetch(e) \/ Settings!ServeRead(e) \/ Settings!ReadFails(e)
  <2>1. /\ UNCHANGED <<settings, edits, tab, form, known, saving>>
        /\ spoiled' \subseteq spoiled \union {"failed"}
        /\ \E r \in {Settings!Asked, [at |-> "served", answer |-> settings], Settings!NoFetch} :
             reading' = [reading EXCEPT ![e] = r]
    BY <1>5 DEF Settings!Refetch, Settings!ServeRead, Settings!ReadFails
  <2>2. PICK r \in {Settings!Asked, [at |-> "served", answer |-> settings], Settings!NoFetch} :
             reading' = [reading EXCEPT ![e] = r]
    BY <2>1
  <2>3. r \in Fetches /\ (r.at = "served" => r.answer \in Settings!Records)
    BY <1>2, FormShapes DEF Fetches
  <2>4. Settings!TypeOK'
    BY <1>2, <2>1, <2>2, <2>3, FormTypesNext
  <2> QED
    BY <1>2, <2>1, <2>2, <2>3, <2>4 DEF FormTyped, RecordsOnTheWay
<1>6. CASE Settings!Read(e)
  <2>1. /\ known' = [known EXCEPT ![e] = [data |-> reading[e].answer, outdated |-> FALSE]]
        /\ form' = form \/ form' = [form EXCEPT ![e] = reading[e].answer]
        /\ reading' = [reading EXCEPT ![e] = Settings!NoFetch]
        /\ UNCHANGED <<settings, edits, tab, saving, spoiled>>
    BY <1>6 DEF Settings!Read, Settings!FirstCopy
  <2>2. [data |-> reading[e].answer, outdated |-> FALSE] \in Knowledge
    BY <1>3 DEF Knowledge
  <2>3. Settings!TypeOK'
    BY <1>2, <1>3, <2>1, <2>2, FormShapes, FormTypesNext
  <2> QED
    BY <1>2, <2>1, <2>3, FormShapes DEF FormTyped, RecordsOnTheWay
<1>7. CASE Settings!Edit(e)
  <2>1. /\ edits' = edits + 1 /\ edits < MaxEdits /\ form[e] # Settings!NoCopy
        /\ form' = [form EXCEPT ![e][tab[e]] = edits + 1]
        /\ UNCHANGED <<settings, tab, known, reading, saving, spoiled>>
    BY <1>7 DEF Settings!Edit
  <2>2. form[e] \in Settings!Records
    BY <1>2, <2>1, FormShapes
  <2>3. edits + 1 \in 0..MaxEdits
    BY <1>2, <2>1, EditsAssumption
  <2>4. [form[e] EXCEPT ![tab[e]] = edits + 1] \in Settings!Records
    BY <2>2, <2>3 DEF Settings!Records
  <2>5. form' \in [Editors -> Settings!Copies]
    BY <1>2, <2>1, <2>4, FormShapes
  <2>6. Settings!TypeOK'
    BY <1>2, <2>1, <2>3, <2>5, FormTypesNext
  <2> QED
    BY <2>1, <2>6 DEF FormTyped, RecordsOnTheWay
<1>8. CASE Settings!Discard(e)
  <2>1. /\ form' = [form EXCEPT ![e] = known[e].data]
        /\ UNCHANGED <<settings, edits, tab, known, reading, saving, spoiled>>
    BY <1>8 DEF Settings!Discard
  <2>2. Settings!TypeOK'
    BY <1>2, <1>3, <2>1, FormTypesNext
  <2> QED
    BY <2>1, <2>2 DEF FormTyped, RecordsOnTheWay
<1>9. ASSUME NEW s \in Sections, Settings!Open(e, s) PROVE FormTyped'
  <2>1. /\ tab' = [tab EXCEPT ![e] = s] /\ form' = [form EXCEPT ![e] = known[e].data]
        /\ reading' = reading \/ reading' = [reading EXCEPT ![e] = Settings!Asked]
        /\ spoiled' = Settings!Hurried(e) /\ UNCHANGED <<settings, edits, known, saving>>
    BY <1>9 DEF Settings!Open
  <2>2. Settings!TypeOK'
    BY <1>2, <1>3, <2>1, FormShapes, FormTypesNext
  <2> QED
    BY <1>2, <2>1, <2>2, FormShapes DEF FormTyped, RecordsOnTheWay
<1>10. CASE Settings!Save(e)
  <2> DEFINE v == [at |-> "asked", copy |-> form[e]]
  <2>1. /\ saving' = [saving EXCEPT ![e][tab[e]] = v] /\ form[e] # Settings!NoCopy
        /\ UNCHANGED <<settings, edits, tab, form, known, reading, spoiled>>
    BY <1>10 DEF Settings!Save
  <2>2. form[e] \in Settings!Records
    BY <1>2, <2>1, FormShapes
  <2>3. v \in Saves /\ v.copy \in Settings!Records
    BY <2>2, FormShapes DEF Saves
  <2> HIDE DEF v
  <2>4. /\ saving' \in [Editors -> [Sections -> Saves]]
        /\ \A d \in Editors, t \in Sections : saving'[d][t] = v \/ saving'[d][t] = saving[d][t]
    BY <1>2, <2>1, <2>3
  <2>5. Settings!TypeOK'
    BY <1>2, <2>1, <2>4, FormTypesNext
  <2> QED
    BY <1>2, <2>1, <2>3, <2>4, <2>5 DEF FormTyped, RecordsOnTheWay
<1>11. ASSUME NEW s \in Sections, Settings!ServeSave(e, s) PROVE FormTyped'
  <2>1. /\ saving[e][s].at = "asked" /\ settings' = saving[e][s].copy
        /\ saving' = [saving EXCEPT ![e][s].at = "served"]
        /\ UNCHANGED <<edits, tab, form, known, reading, spoiled>>
    BY <1>11 DEF Settings!ServeSave
  <2>2. settings' \in Settings!Records
    BY <2>1 DEF FormTyped, RecordsOnTheWay
  <2> DEFINE v == [saving[e][s] EXCEPT !.at = "served"]
  <2>a. saving[e][s] \in Saves
    BY <1>2
  <2>3. v \in Saves /\ v.at = "served" /\ saving' = [saving EXCEPT ![e][s] = v]
    BY <1>2, <2>1, <2>a DEF Saves
  <2> HIDE DEF v
  <2>4. /\ saving' \in [Editors -> [Sections -> Saves]]
        /\ \A d \in Editors, t \in Sections : saving'[d][t].at = "served" \/ saving'[d][t] = saving[d][t]
    BY <1>2, <2>3
  <2>5. Settings!TypeOK'
    BY <1>2, <2>1, <2>2, <2>4, FormTypesNext
  <2> QED
    BY <1>2, <2>1, <2>4, <2>5 DEF FormTyped, RecordsOnTheWay
<1>12. ASSUME NEW s \in Sections, Settings!Saved(e, s) \/ Settings!SaveFails(e, s) PROVE FormTyped'
  <2>1. /\ saving' = [saving EXCEPT ![e][s] = Settings!NoSave]
        /\ known' = known \/ known' = [known EXCEPT ![e].outdated = TRUE]
        /\ reading' = reading \/ reading' = [reading EXCEPT ![e] = Settings!Asked]
        /\ spoiled' \subseteq spoiled \union {"failed"}
        /\ UNCHANGED <<settings, edits, tab, form>>
    BY <1>12 DEF Settings!Saved, Settings!SaveFails, Settings!ReadAgain
  <2> DEFINE k == [known[e] EXCEPT !.outdated = TRUE]
  <2>a. known[e] \in Knowledge
    BY <1>2
  <2>b. k \in Knowledge
    BY <2>a DEF Knowledge
  <2>c. known' = known \/ known' = [known EXCEPT ![e] = k]
    BY <2>1
  <2> HIDE DEF k
  <2>2. known' \in [Editors -> Knowledge]
    BY <1>2, <2>b, <2>c
  <2>3. /\ saving' \in [Editors -> [Sections -> Saves]]
        /\ \A d \in Editors, t \in Sections : saving'[d][t] = Settings!NoSave \/ saving'[d][t] = saving[d][t]
    BY <1>2, <2>1, FormShapes
  <2>4. /\ reading' \in [Editors -> Fetches]
        /\ \A d \in Editors : reading'[d] = Settings!Asked \/ reading'[d] = reading[d]
    BY <1>2, <2>1, FormShapes
  <2>5. Settings!TypeOK'
    BY <1>2, <2>1, <2>2, <2>3, <2>4, FormTypesNext
  <2> QED
    BY <1>2, <2>1, <2>3, <2>4, <2>5, FormShapes DEF FormTyped, RecordsOnTheWay
<1> QED
  BY <1>1, <1>4, <1>5, <1>6, <1>7, <1>8, <1>9, <1>10, <1>11, <1>12

(* The copies stay right, and no save touches another section, while one   *)
(* administrator waits for the answers.                                    *)
LEMMA FormAgreesStep ==
  ASSUME OneEditor, FormTyped, FormAgrees, Settings!Next
  PROVE  FormAgrees' /\ (Settings!Undone => spoiled # {})
<1>1. PICK e \in Editors :
    \/ Settings!Go(e) \/ Settings!Refetch(e) \/ Settings!ServeRead(e) \/ Settings!Read(e) \/ Settings!ReadFails(e)
    \/ Settings!Edit(e) \/ Settings!Discard(e) \/ Settings!Save(e)
    \/ \E s \in Sections : \/ Settings!Open(e, s) \/ Settings!ServeSave(e, s)
                           \/ Settings!Saved(e, s) \/ Settings!SaveFails(e, s)
  BY DEF Settings!Next
<1>2. /\ settings \in Settings!Records /\ edits \in 0..MaxEdits
      /\ tab \in [Editors -> Sections \union {"away"}] /\ form \in [Editors -> Settings!Copies]
      /\ known \in [Editors -> Knowledge] /\ reading \in [Editors -> Fetches]
      /\ saving \in [Editors -> [Sections -> Saves]]
  BY FormTypes DEF FormTyped
<1>3. \A d \in Editors : d = e
  BY DEF OneEditor
<1>4. ASSUME spoiled = {} PROVE CopiesAgree(e) /\ TabStays(e) /\ ReadAgainSoon(e)
  BY <1>4 DEF FormAgrees
<1>5. ASSUME spoiled' = {} => CopiesAgree(e)' /\ TabStays(e)' /\ ReadAgainSoon(e)'
      PROVE  FormAgrees'
  BY <1>3, <1>5 DEF FormAgrees
<1>6. UNCHANGED settings => ~Settings!Undone
  BY DEF Settings!Undone
(* A person who leaves a tab has seen every answer to it.                  *)
<1>7. ASSUME spoiled = {}, ~Settings!Busy(e)
      PROVE  /\ reading[e].at = "idle" /\ (\A s \in Sections : saving[e][s].at = "idle")
             /\ known[e].data \in {Settings!NoCopy, settings}
  BY <1>4, <1>7 DEF Settings!Busy, ReadAgainSoon, SaveServed
<1>8. CASE Settings!Go(e)
  <2>1. /\ tab' = [tab EXCEPT ![e] = "away"] /\ form' = [form EXCEPT ![e] = Settings!NoCopy]
        /\ spoiled' = Settings!Hurried(e) /\ UNCHANGED <<settings, edits, known, reading, saving>>
    BY <1>8 DEF Settings!Go
  <2>2. spoiled' = {} => spoiled = {} /\ ~Settings!Busy(e)
    BY <2>1 DEF Settings!Hurried
  <2>3. form'[e] = Settings!NoCopy /\ tab'[e] = "away"
    BY <1>2, <2>1
  <2>4. spoiled' = {} => CopiesAgree(e)' /\ TabStays(e)' /\ ReadAgainSoon(e)'
    BY <1>7, <2>1, <2>2, <2>3 DEF CopiesAgree, TabStays, ReadAgainSoon, RightBeside, SaveServed
  <2> QED
    BY <1>5, <1>6, <2>1, <2>4
<1>9. ASSUME NEW s \in Sections, Settings!Open(e, s) PROVE FormAgrees' /\ UNCHANGED settings
  <2>1. /\ tab' = [tab EXCEPT ![e] = s] /\ form' = [form EXCEPT ![e] = known[e].data]
        /\ reading' = reading \/ reading' = [reading EXCEPT ![e] = Settings!Asked]
        /\ spoiled' = Settings!Hurried(e) /\ UNCHANGED <<settings, edits, known, saving>>
    BY <1>9 DEF Settings!Open
  <2>2. spoiled' = {} => spoiled = {} /\ ~Settings!Busy(e)
    BY <2>1 DEF Settings!Hurried
  <2>3. form'[e] = known[e].data /\ tab'[e] = s /\ s # "away"
    BY <1>2, <2>1, SectionsAssumption
  <2>4. reading'[e] = reading[e] \/ reading'[e].at = "asked"
    BY <1>2, <2>1, FormShapes
  <2>5. spoiled' = {} => CopiesAgree(e)' /\ TabStays(e)' /\ ReadAgainSoon(e)'
    BY <1>7, <2>1, <2>2, <2>3, <2>4 DEF CopiesAgree, TabStays, ReadAgainSoon, RightBeside, SaveServed
  <2> QED
    BY <1>5, <2>1, <2>5
<1>10. CASE Settings!Refetch(e) \/ Settings!ServeRead(e)
  <2>1. /\ UNCHANGED <<settings, edits, tab, form, known, saving, spoiled>>
        /\ \/ reading' = [reading EXCEPT ![e] = Settings!Asked]
           \/ /\ reading' = [reading EXCEPT ![e] = [at |-> "served", answer |-> settings]]
              /\ reading[e].at = "asked"
    BY <1>10 DEF Settings!Refetch, Settings!ServeRead
  <2>2. reading'[e].at = "asked" \/ (reading'[e].at = "served" /\ reading'[e].answer = settings)
    BY <1>2, <2>1, FormShapes
  <2>3. spoiled' = {} => CopiesAgree(e)' /\ TabStays(e)' /\ ReadAgainSoon(e)'
    BY <1>4, <2>1, <2>2 DEF CopiesAgree, TabStays, ReadAgainSoon, RightBeside, SaveServed
  <2> QED
    BY <1>5, <1>6, <2>1, <2>3
<1>11. CASE Settings!Read(e)
  <2>1. /\ known' = [known EXCEPT ![e] = [data |-> reading[e].answer, outdated |-> FALSE]]
        /\ \/ form' = form
           \/ tab[e] # "away" /\ form' = [form EXCEPT ![e] = reading[e].answer]
        /\ reading' = [reading EXCEPT ![e] = Settings!NoFetch] /\ reading[e].at = "served"
        /\ UNCHANGED <<settings, edits, tab, saving, spoiled>>
    BY <1>11 DEF Settings!Read, Settings!FirstCopy
  <2>2. /\ known'[e].data = reading[e].answer /\ reading'[e].at = "idle"
        /\ form'[e] = form[e] \/ (tab[e] # "away" /\ form'[e] = reading[e].answer)
    BY <1>2, <2>1, FormShapes
  <2>3. spoiled' = {} => CopiesAgree(e)' /\ TabStays(e)' /\ ReadAgainSoon(e)'
    BY <1>4, <2>1, <2>2 DEF CopiesAgree, TabStays, ReadAgainSoon, RightBeside, SaveServed
  <2> QED
    BY <1>5, <1>6, <2>1, <2>3
<1>12. CASE Settings!ReadFails(e)
  <2>1. spoiled' # {} /\ UNCHANGED settings
    BY <1>12 DEF Settings!ReadFails
  <2> QED
    BY <1>6, <2>1 DEF FormAgrees
<1>13. CASE Settings!Edit(e)
  <2>1. /\ form[e] # Settings!NoCopy /\ form' = [form EXCEPT ![e][tab[e]] = edits + 1]
        /\ UNCHANGED <<settings, tab, known, reading, saving, spoiled>>
    BY <1>13 DEF Settings!Edit
  <2>2. form[e] \in Settings!Records
    BY <1>2, <2>1, FormShapes
  <2>3. \A t \in Sections : t # tab[e] => form'[e][t] = form[e][t]
    BY <1>2, <2>1, <2>2 DEF Settings!Records
  <2>4. spoiled' = {} => CopiesAgree(e)' /\ TabStays(e)' /\ ReadAgainSoon(e)'
    BY <1>4, <2>1, <2>3 DEF CopiesAgree, TabStays, ReadAgainSoon, RightBeside, SaveServed
  <2> QED
    BY <1>5, <1>6, <2>1, <2>4
<1>14. CASE Settings!Discard(e)
  <2>1. /\ form[e] # Settings!NoCopy /\ form' = [form EXCEPT ![e] = known[e].data]
        /\ UNCHANGED <<settings, tab, known, reading, saving, spoiled>>
    BY <1>14 DEF Settings!Discard
  <2>2. form'[e] = known[e].data
    BY <1>2, <2>1
  <2>3. spoiled' = {} => CopiesAgree(e)' /\ TabStays(e)' /\ ReadAgainSoon(e)'
    BY <1>4, <2>1, <2>2 DEF CopiesAgree, TabStays, ReadAgainSoon, RightBeside, SaveServed
  <2> QED
    BY <1>5, <1>6, <2>1, <2>3
<1>15. CASE Settings!Save(e)
  <2> DEFINE v == [at |-> "asked", copy |-> form[e]]
  <2>1. /\ form[e] # Settings!NoCopy /\ saving' = [saving EXCEPT ![e][tab[e]] = v]
        /\ saving[e][tab[e]].at = "idle"
        /\ UNCHANGED <<settings, edits, tab, form, known, reading, spoiled>>
    BY <1>15 DEF Settings!Save
  <2>2. v.at = "asked" /\ v.copy = form[e]
    OBVIOUS
  <2> HIDE DEF v
  <2>3. \A t \in Sections : saving'[e][t] = IF t = tab[e] THEN v ELSE saving[e][t]
    BY <1>2, <2>1
  <2>4. \A t \in Sections : t # tab[e] => saving'[e][t] = saving[e][t]
    BY <2>3
  <2>5. \A t \in Sections : t = tab[e] => saving'[e][t].at = "asked" /\ saving'[e][t].copy = form[e]
    BY <2>2, <2>3
  <2>6. SaveServed(e)' <=> SaveServed(e)
    BY <2>1, <2>4, <2>5 DEF SaveServed
  <2>7. spoiled = {} => CopiesAgree(e)'
    BY <1>4, <2>1, <2>4, <2>5 DEF CopiesAgree, RightBeside
  <2>8. spoiled = {} => TabStays(e)'
    BY <1>4, <2>1, <2>4 DEF TabStays
  <2>9. spoiled = {} => ReadAgainSoon(e)'
    BY <1>4, <2>1, <2>6 DEF ReadAgainSoon
  <2> QED
    BY <1>5, <1>6, <2>1, <2>7, <2>8, <2>9
<1>16. ASSUME NEW s \in Sections, Settings!ServeSave(e, s) PROVE FormAgrees' /\ (Settings!Undone => spoiled # {})
  <2>1. /\ saving[e][s].at = "asked" /\ settings' = saving[e][s].copy
        /\ saving' = [saving EXCEPT ![e][s].at = "served"]
        /\ UNCHANGED <<edits, tab, form, known, reading, spoiled>>
    BY <1>16 DEF Settings!ServeSave
  <2> DEFINE v == [saving[e][s] EXCEPT !.at = "served"]
  <2>2. saving[e][s] \in Saves
    BY <1>2
  <2>3. v.at = "served" /\ saving' = [saving EXCEPT ![e][s] = v]
    BY <1>2, <2>1, <2>2 DEF Saves
  <2> HIDE DEF v
  <2>4. saving'[e][s].at = "served" /\ \A t \in Sections : t # s => saving'[e][t] = saving[e][t]
    BY <1>2, <2>3
  <2>5. spoiled = {} => s = tab[e] /\ RightBeside(e, saving[e][s].copy)
    BY <1>4, <2>1 DEF TabStays, CopiesAgree
  <2>6. spoiled = {} => \A t \in Sections : t # tab[e] => settings'[t] = settings[t]
    BY <2>1, <2>5 DEF RightBeside
  <2>7. spoiled = {} => ~Settings!Undone
    BY <2>1, <2>4, <2>5, <2>6 DEF Settings!Undone
  <2>8. SaveServed(e)'
    BY <2>4 DEF SaveServed
  <2>9. spoiled = {} => TabStays(e)' /\ ReadAgainSoon(e)'
    BY <1>4, <2>1, <2>4, <2>5, <2>8 DEF TabStays, ReadAgainSoon
  <2>10. spoiled = {} => CopiesAgree(e)'
    BY <1>4, <2>1, <2>4, <2>6 DEF CopiesAgree, RightBeside
  <2> QED
    BY <1>5, <2>1, <2>7, <2>9, <2>10
<1>17. ASSUME NEW s \in Sections, Settings!Saved(e, s) PROVE FormAgrees' /\ UNCHANGED settings
  <2>1. /\ saving[e][s].at = "served" /\ saving' = [saving EXCEPT ![e][s] = Settings!NoSave]
        /\ known' = [known EXCEPT ![e].outdated = TRUE]
        /\ reading' = IF tab[e] # "away" THEN [reading EXCEPT ![e] = Settings!Asked] ELSE reading
        /\ UNCHANGED <<settings, edits, tab, form, spoiled>>
    BY <1>17 DEF Settings!Saved, Settings!ReadAgain
  <2>2. known[e] \in Knowledge
    BY <1>2
  <2>3. known'[e].data = known[e].data
    BY <1>2, <2>1, <2>2 DEF Knowledge
  <2>4. saving'[e][s].at = "idle" /\ \A t \in Sections : t # s => saving'[e][t] = saving[e][t]
    BY <1>2, <2>1, FormShapes
  <2>5. spoiled = {} => tab[e] # "away"
    BY <1>4, <2>1, SectionsAssumption DEF TabStays
  <2>6. spoiled = {} => reading'[e].at = "asked"
    BY <1>2, <2>1, <2>5, FormShapes
  <2>7. spoiled = {} => TabStays(e)' /\ ReadAgainSoon(e)'
    BY <1>4, <2>1, <2>4, <2>6 DEF TabStays, ReadAgainSoon
  <2>8. spoiled = {} => CopiesAgree(e)'
    BY <1>4, <2>1, <2>3, <2>4, <2>6 DEF CopiesAgree, RightBeside
  <2> QED
    BY <1>5, <2>1, <2>7, <2>8
<1>18. ASSUME NEW s \in Sections, Settings!SaveFails(e, s) PROVE FormAgrees' /\ UNCHANGED settings
  BY <1>18 DEF Settings!SaveFails, FormAgrees
<1> QED
  BY <1>1, <1>6, <1>8, <1>9, <1>10, <1>11, <1>12, <1>13, <1>14, <1>15, <1>16, <1>17, <1>18

LEMMA SettingsMoves ==
  ASSUME [Next]_vars
  PROVE  UNCHANGED part /\ (part = "settings" => Settings!Next \/ UNCHANGED settingsVars)
BY DEF Next, Only, vars

LEMMA FormInit == Settings!Init => FormTyped /\ FormAgrees
<1> SUFFICES ASSUME Settings!Init PROVE FormTyped /\ FormAgrees
  OBVIOUS
<1>1. /\ settings = [s \in Sections |-> 0] /\ edits = 0 /\ tab = [e \in Editors |-> "away"]
      /\ form = [e \in Editors |-> Settings!NoCopy]
      /\ known = [e \in Editors |-> [data |-> Settings!NoCopy, outdated |-> FALSE]]
      /\ reading = [e \in Editors |-> Settings!NoFetch]
      /\ saving = [e \in Editors |-> [s \in Sections |-> Settings!NoSave]] /\ spoiled = {}
  BY DEF Settings!Init
<1>2. 0 \in 0..MaxEdits /\ settings \in Settings!Records
  BY <1>1, EditsAssumption DEF Settings!Records
<1>3. [data |-> Settings!NoCopy, outdated |-> FALSE] \in Knowledge
  BY FormShapes DEF Knowledge
<1>4. Settings!TypeOK
  <2>1. /\ known \in [Editors -> Knowledge] /\ reading \in [Editors -> Fetches]
        /\ saving \in [Editors -> [Sections -> Saves]] /\ form \in [Editors -> Settings!Copies]
        /\ tab \in [Editors -> Sections \union {"away"}]
    BY <1>1, <1>3, FormShapes
  <2> QED
    BY <1>1, <1>2, <2>1 DEF Settings!TypeOK, Knowledge, Fetches, Saves
<1>5. /\ \A e \in Editors : known[e].data = Settings!NoCopy /\ form[e] = Settings!NoCopy
                            /\ reading[e].at = "idle" /\ tab[e] = "away"
      /\ \A e \in Editors, s \in Sections : saving[e][s].at = "idle"
  BY <1>1, FormShapes
<1> QED
  BY <1>4, <1>5 DEF FormTyped, RecordsOnTheWay, FormAgrees, CopiesAgree, TabStays, ReadAgainSoon

(* The invariant of the clients, as far as the settings go.                *)
EditingTyped == part = "settings" => FormTyped
EditingInv == part = "settings" => FormTyped /\ FormAgrees

LEMMA FormStutters ==
  ASSUME UNCHANGED settingsVars
  PROVE  (FormTyped => FormTyped') /\ (FormAgrees => FormAgrees') /\ ~Settings!Undone
<1>1. UNCHANGED <<settings, edits, tab, form, known, reading, saving, spoiled>>
  BY DEF settingsVars
<1>2. FormTyped => FormTyped'
  BY <1>1 DEF FormTyped, RecordsOnTheWay, Settings!TypeOK
<1>3. FormAgrees => FormAgrees'
  BY <1>1 DEF FormAgrees, CopiesAgree, TabStays, ReadAgainSoon, SaveServed, RightBeside
<1> QED
  BY <1>1, <1>2, <1>3 DEF Settings!Undone

LEMMA EditingIsTyped == Spec => []EditingTyped
<1>1. Init => EditingTyped
  BY FormInit DEF Init, EditingTyped
<1>2. EditingTyped /\ [Next]_vars => EditingTyped'
  BY SettingsMoves, FormTypedStep, FormStutters DEF EditingTyped
<1> QED
  BY <1>1, <1>2, PTL DEF Spec

LEMMA EditingHolds == ASSUME OneEditor PROVE Spec => []EditingInv
<1>1. Init => EditingInv
  BY FormInit DEF Init, EditingInv
<1>2. EditingInv /\ [Next]_vars => EditingInv'
  BY SettingsMoves, FormTypedStep, FormAgreesStep, FormStutters DEF EditingInv
<1> QED
  BY <1>1, <1>2, PTL DEF Spec

(* settings/page.tsx: the whole record goes back with every save, and yet  *)
(* a single administrator who leaves a tab only when its answers are in    *)
(* never undoes what another tab wrote, however many sections there are.   *)
THEOREM OtherTabsSurvive == ASSUME OneEditor PROVE Spec => SurvivePatience
<1>1. EditingInv /\ [Next]_vars => [part = "settings" => (Settings!Undone => spoiled # {})]_vars
  BY SettingsMoves, FormAgreesStep, FormStutters DEF EditingInv
<1> QED
  BY <1>1, EditingHolds, PTL DEF Spec, SurvivePatience

=============================================================================
