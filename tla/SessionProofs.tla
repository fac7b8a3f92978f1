--------------------------- MODULE SessionProofs ----------------------------
(***************************************************************************)
(* Proofs about the phone's sign-in (ClientSession, as Clients instances   *)
(* it): any number of accounts and token pairs, any set of requests.       *)
(* Whether a renewal may set off the server's reuse alarm, and whether a   *)
(* late one may sign the phone in again, depends on every pair in play:    *)
(* on the phone, in a request, in a renewal, in a sign-in.  SessionInv     *)
(* says they are all of one family, so that ending one ends all; which of  *)
(* them may have been used; and what each stage of a request knows.  It    *)
(* holds until somebody signs in beside older requests, where two families *)
(* are in play; Based, the types, holds throughout.                        *)
(* Steps are proved by shape: Quieter, Asks(k), Answers(k) and Refuses say *)
(* what several actions have in common.                                    *)
(***************************************************************************)
EXTENDS Clients, TLAPS

(* The types of ClientSession's variables, with Clients' names.            *)

Phones == [tok : Session!Held, user : PhoneAccounts \union {Nobody}, hydrated : BOOLEAN,
           ready : BOOLEAN, gaveUp : BOOLEAN, checkFailed : BOOLEAN]
Calls == [Session!Kinds -> Session!Call]
Refreshes == [at : {"idle", "asked", "ok", "denied", "failed"}, tok : Session!Held, new : Session!Held]
Signins == [at : {"idle", "asked", "waiting", "again", "denied", "ok", "loading"}, how : Session!Ways,
            carries : BOOLEAN, tok : Session!Held]

(* Pairs the server can have given out: what it remembers of them is       *)
(* theirs.                                                                 *)
Sound(p) ==
  /\ p \in Session!PairSets
  /\ p.used \subseteq 1..p.issued /\ p.revoked \subseteq 1..p.issued /\ p.cut \subseteq 1..p.issued
  /\ \A t \in 1..p.issued : p.family[t] \in 1..p.issued

(* What p knows of pairs and families, q still knows.                      *)
Later(p, q) ==
  /\ p.issued <= q.issued /\ p.used \subseteq q.used /\ p.cut \subseteq q.cut
  /\ p.revoked \subseteq q.revoked
  /\ \A t \in 1..p.issued : q.family[t] = p.family[t]

LEMMA KindsAre == Session!Kinds = {"page", "save", "logout", "end", "check", "me"}
BY DEF Session!Kinds, Session!Asking

LEMMA NumbersAre ==
  /\ Session!Ids = 1..PhonePairs /\ Session!Held = 0..PhonePairs /\ PhonePairs \in Nat
BY PairsAssumption DEF Session!Ids, Session!Held

(* store/auth.ts: settling and clearing change what they name.             *)
LEMMA SettledPhone ==
  ASSUME NEW p \in Phones
  PROVE  /\ Session!Settled(p) \in Phones
         /\ Session!Settled(p).tok = p.tok /\ Session!Settled(p).user = p.user
         /\ Session!Settled(p).hydrated = p.hydrated /\ Session!Settled(p).gaveUp = p.gaveUp
         /\ p.ready => Session!Settled(p).ready
         /\ Session!Settled(p).ready => p.ready \/ p.gaveUp \/ p.hydrated
BY DEF Phones, Session!Settled, Session!SessionReady

LEMMA ClearedPhone ==
  ASSUME NEW p \in Phones
  PROVE  /\ Session!Cleared(p) \in Phones
         /\ Session!Cleared(p).tok = 0 /\ Session!Cleared(p).user = Nobody
         /\ Session!Cleared(p).hydrated = p.hydrated /\ Session!Cleared(p).gaveUp = p.gaveUp
         /\ p.ready => Session!Cleared(p).ready
         /\ Session!Cleared(p).ready => p.ready \/ p.gaveUp \/ p.hydrated
<1> DEFINE q == [p EXCEPT !.tok = 0, !.user = Nobody, !.checkFailed = FALSE]
<1>0. 0 \in Session!Held
  BY NumbersAre
<1>1. q \in Phones
  BY <1>0 DEF Phones
<1>3. q.tok = 0 /\ q.user = Nobody /\ q.hydrated = p.hydrated /\ q.ready = p.ready /\ q.gaveUp = p.gaveUp
  BY DEF Phones
<1>2. Session!Cleared(p) = Session!Settled(q)
  BY DEF Session!Cleared
<1> HIDE DEF q
<1> QED
  BY <1>1, <1>2, <1>3, SettledPhone

LEMMA ClearedCalls ==
  ASSUME NEW c \in Calls
  PROVE  /\ Session!ClearCalls(c) \in Calls
         /\ Session!ClearCalls(c)["check"] = Session!NoCall
         /\ \A k \in Session!Kinds \ {"check"} : Session!ClearCalls(c)[k] = c[k]
<1>1. Session!NoCall \in Session!Call
  BY NumbersAre DEF Session!NoCall, Session!Call
<1> QED
  BY <1>1, KindsAre DEF Calls, Session!ClearCalls

(* sessions.py: what each operation on the pairs leaves as it was.         *)
LEMMA IssuedPairs ==
  ASSUME NEW p, Sound(p), p.issued < PhonePairs,
         NEW a \in PhoneAccounts \union {Nobody}, NEW f \in 0..p.issued
  PROVE  LET q == Session!Issue(p, a, f)
         IN /\ Sound(q) /\ Later(p, q)
            /\ q.issued = p.issued + 1
            /\ q.used = p.used /\ q.revoked = p.revoked /\ q.cut = p.cut
            /\ q.family[p.issued + 1] = IF f = 0 THEN p.issued + 1 ELSE f
<1> DEFINE t == p.issued + 1
           g == IF f = 0 THEN t ELSE f
<1>1. /\ p.issued \in Nat /\ t \in Session!Ids /\ t \in Session!Held /\ g \in Session!Held
      /\ g \in 1..t
      /\ p.owner \in [Session!Ids -> PhoneAccounts \union {Nobody}]
      /\ p.family \in [Session!Ids -> Session!Held]
      /\ p.issued <= t
  BY NumbersAre DEF Sound, Session!PairSets
<1>2. Session!Issue(p, a, f) = [p EXCEPT !.issued = t, !.owner = [p.owner EXCEPT ![t] = a],
                                        !.family = [p.family EXCEPT ![t] = g]]
  BY DEF Session!Issue, Sound, Session!PairSets
<1>3. [p.owner EXCEPT ![t] = a] \in [Session!Ids -> PhoneAccounts \union {Nobody}]
  BY <1>1
<1>4. [p.family EXCEPT ![t] = g] \in [Session!Ids -> Session!Held]
  BY <1>1
<1>5. \A u \in 1..p.issued : u \in Session!Ids /\ u # t
  BY <1>1, NumbersAre
<1>6. 1..t = (1..p.issued) \union {t} /\ (\A u \in 1..p.issued : u \in 1..t)
  BY <1>1
<1> HIDE DEF t, g
<1>7. Session!Issue(p, a, f) \in Session!PairSets
  BY <1>1, <1>2, <1>3, <1>4 DEF Session!PairSets, Sound
<1>8. \A u \in 1..p.issued : Session!Issue(p, a, f).family[u] = p.family[u]
  BY <1>1, <1>2, <1>5 DEF Session!PairSets, Sound
<1>9. /\ Session!Issue(p, a, f).issued = t /\ Session!Issue(p, a, f).family[t] = g
      /\ Session!Issue(p, a, f).used = p.used /\ Session!Issue(p, a, f).revoked = p.revoked
      /\ Session!Issue(p, a, f).cut = p.cut
  BY <1>1, <1>2 DEF Session!PairSets, Sound
<1>10. Sound(Session!Issue(p, a, f))
  BY <1>1, <1>6, <1>7, <1>8, <1>9 DEF Sound
<1>11. Later(p, Session!Issue(p, a, f))
  BY <1>1, <1>8, <1>9 DEF Later
<1> QED
  BY <1>9, <1>10, <1>11 DEF t, g

LEMMA RevokedPairs ==
  ASSUME NEW p, Sound(p), NEW a
  PROVE  LET q == Session!RevokeAll(p, a)
         IN /\ Sound(q) /\ Later(p, q)
            /\ q.issued = p.issued /\ q.used = p.used /\ q.family = p.family
            /\ q.revoked = p.revoked \union {p.family[t] : t \in Session!PairsOf(p, a)}
            /\ q.cut = p.cut \union Session!PairsOf(p, a)
<1> DEFINE mine == Session!PairsOf(p, a)
           ended == {p.family[t] : t \in mine}
<1>1. mine \subseteq 1..p.issued /\ mine \subseteq Session!Ids
  BY NumbersAre DEF Session!PairSets, Session!PairsOf, Sound
<1>2. ended \subseteq 1..p.issued /\ ended \subseteq Session!Ids
  BY <1>1, NumbersAre DEF Session!PairSets, Sound
<1> HIDE DEF mine, ended
<1>3. Session!RevokeAll(p, a) = [p EXCEPT !.revoked = @ \union ended, !.cut = @ \union mine]
  BY DEF Session!RevokeAll, mine, ended
<1> DEFINE q == Session!RevokeAll(p, a)
<1>4. /\ q.issued = p.issued /\ q.used = p.used /\ q.family = p.family
      /\ q.revoked = p.revoked \union ended /\ q.cut = p.cut \union mine
  BY <1>3 DEF Session!PairSets, Sound
<1>5. q \in Session!PairSets
  BY <1>1, <1>2, <1>3 DEF Session!PairSets, Sound
<1> HIDE DEF q
<1>6. Sound(q)
  BY <1>1, <1>2, <1>4, <1>5 DEF Sound
<1>7. Later(p, q)
  BY <1>4, NumbersAre DEF Later, Sound, Session!PairSets
<1> QED
  BY <1>4, <1>6, <1>7 DEF mine, ended, q

LEMMA ExpiredPairs ==
  ASSUME NEW p, Sound(p), NEW t \in 1..p.issued
  PROVE  LET q == [p EXCEPT !.cut = @ \union {t}]
         IN /\ Sound(q) /\ Later(p, q)
            /\ q.issued = p.issued /\ q.used = p.used /\ q.family = p.family
            /\ q.revoked = p.revoked /\ q.cut = p.cut \union {t}
<1> DEFINE q == [p EXCEPT !.cut = @ \union {t}]
<1>1. t \in Session!Ids
  BY NumbersAre DEF Sound, Session!PairSets
<1>4. /\ q.issued = p.issued /\ q.used = p.used /\ q.family = p.family
      /\ q.revoked = p.revoked /\ q.cut = p.cut \union {t}
  BY DEF Session!PairSets, Sound
<1>5. q \in Session!PairSets
  BY <1>1 DEF Session!PairSets, Sound
<1> HIDE DEF q
<1>6. Sound(q)
  BY <1>1, <1>4, <1>5 DEF Sound
<1>7. Later(p, q)
  BY <1>4, NumbersAre DEF Later, Sound, Session!PairSets
<1> QED
  BY <1>4, <1>6, <1>7 DEF q

LEMMA FamilyRevokedPairs ==
  ASSUME NEW p, Sound(p), NEW t \in 1..p.issued
  PROVE  LET q == Session!RevokeFamily(p, t)
         IN /\ Sound(q) /\ Later(p, q)
            /\ q.issued = p.issued /\ q.used = p.used /\ q.family = p.family /\ q.cut = p.cut
            /\ q.revoked = p.revoked \union {p.family[t]}
<1> DEFINE q == Session!RevokeFamily(p, t)
           f == p.family[t]
<1>1. f \in 1..p.issued /\ f \in Session!Ids
  BY NumbersAre DEF Sound, Session!PairSets
<1>3. q = [p EXCEPT !.revoked = @ \union {f}]
  BY DEF Session!RevokeFamily
<1> HIDE DEF f
<1>4. /\ q.issued = p.issued /\ q.used = p.used /\ q.family = p.family
      /\ q.revoked = p.revoked \union {f} /\ q.cut = p.cut
  BY <1>3 DEF Session!PairSets, Sound
<1>5. q \in Session!PairSets
  BY <1>1, <1>3 DEF Session!PairSets, Sound
<1> HIDE DEF q
<1>6. Sound(q)
  BY <1>1, <1>4, <1>5 DEF Sound
<1>7. Later(p, q)
  BY <1>4, NumbersAre DEF Later, Sound, Session!PairSets
<1> QED
  BY <1>4, <1>6, <1>7 DEF f, q

LEMMA LoggedOutPairs ==
  ASSUME NEW p, Sound(p), NEW t \in 1..p.issued
  PROVE  LET q == Session!LogOut(p, t)
         IN /\ Sound(q) /\ Later(p, q)
            /\ q.issued = p.issued /\ q.used = p.used /\ q.family = p.family
            /\ q.revoked = p.revoked \union {p.family[t]}
            /\ q.cut = p.cut \union {t}
<1> DEFINE r == Session!RevokeFamily(p, t)
           q == [r EXCEPT !.cut = @ \union {t}]
<1>1. Session!LogOut(p, t) = q
  BY DEF Session!LogOut
<1>2. /\ Sound(r) /\ Later(p, r)
      /\ r.issued = p.issued /\ r.used = p.used /\ r.family = p.family /\ r.cut = p.cut
      /\ r.revoked = p.revoked \union {p.family[t]}
  BY FamilyRevokedPairs
<1> HIDE DEF r
<1>3. /\ Sound(q) /\ Later(r, q)
      /\ q.issued = r.issued /\ q.used = r.used /\ q.family = r.family
      /\ q.revoked = r.revoked /\ q.cut = r.cut \union {t}
  BY <1>2, ExpiredPairs
<1> QED
  BY <1>1, <1>2, <1>3 DEF Later

LEMMA RejectedPairs ==
  ASSUME NEW p, Sound(p), NEW t \in 1..p.issued
  PROVE  LET q == Session!Rejected(p, t)
         IN /\ Sound(q) /\ Later(p, q)
            /\ q.issued = p.issued /\ q.used = p.used /\ q.family = p.family /\ q.cut = p.cut
            /\ t \in p.used => p.family[t] \in q.revoked
BY FamilyRevokedPairs, NumbersAre DEF Session!Rejected, Later, Sound, Session!PairSets

LEMMA RotatedPairs ==
  ASSUME NEW p, Sound(p), NEW t \in 1..p.issued, p.issued < PhonePairs
  PROVE  LET q == Session!Rotated(p, t)
         IN /\ Sound(q) /\ Later(p, q)
            /\ q.issued = p.issued + 1 /\ q.used = p.used \union {t}
            /\ q.revoked = p.revoked /\ q.cut = p.cut
            /\ q.family[p.issued + 1] = p.family[t]
<1> DEFINE r == [p EXCEPT !.used = @ \union {t}]
           a == p.owner[t]
           f == p.family[t]
           q == Session!Issue(r, a, f)
<1>1. /\ t \in Session!Ids /\ a \in PhoneAccounts \union {Nobody}
      /\ f \in 1..p.issued /\ f \in 0..p.issued /\ f # 0
  BY NumbersAre DEF Sound, Session!PairSets
<1>2. /\ r.issued = p.issued /\ r.used = p.used \union {t} /\ r.family = p.family
      /\ r.revoked = p.revoked /\ r.cut = p.cut
  BY DEF Session!PairSets, Sound
<1>3. r \in Session!PairSets
  BY <1>1 DEF Session!PairSets, Sound
<1>4. Session!Rotated(p, t) = q
  BY DEF Session!Rotated
<1> HIDE DEF r, a, f
<1>5. Sound(r)
  BY <1>2, <1>3 DEF Sound
<1>6. /\ Sound(q) /\ Later(r, q) /\ q.issued = r.issued + 1
      /\ q.used = r.used /\ q.revoked = r.revoked /\ q.cut = r.cut
      /\ q.family[r.issued + 1] = f
  BY <1>1, <1>2, <1>5, IssuedPairs
<1> HIDE DEF q
<1> QED
  BY <1>2, <1>4, <1>6 DEF Later, f

-----------------------------------------------------------------------------

(* The family of t has ended; t may be sent for renewal without alarm.     *)
Dead(t) == pairs.family[t] \in pairs.revoked
Good(t) == t = 0 \/ t \notin pairs.used \/ Dead(t)
Open(k) == call[k].at # "idle"
Issued(t) == t \in 0..pairs.issued

SessionTyped ==
  /\ phone \in Phones
  /\ call \in Calls
  /\ refresh \in Refreshes
  /\ signin \in Signins
  /\ lost \in SUBSET {"answer", "pair", "beside"}
  /\ reused \in BOOLEAN

(* Every pair anywhere was given out.                                      *)
Numbered ==
  /\ Sound(pairs)
  /\ Issued(phone.tok) /\ Issued(saved) /\ Issued(refresh.tok) /\ Issued(refresh.new)
  /\ Issued(signin.tok) /\ \A k \in Session!Kinds : Issued(call[k].tok)

(* Whoever signs in beside whatever: the types, the pairs given out, and   *)
(* a pair in every answer to a sign-in.                                    *)
Based == SessionTyped /\ Numbered /\ (signin.at = "ok" => signin.tok # 0)

(* Before the store is read nothing is under way; signing in is alone, but *)
(* for the renewal it may wait for itself.                                 *)
AtRest ==
  /\ phone.ready => phone.hydrated
  /\ phone.gaveUp => phone.hydrated
  /\ ~phone.hydrated => phone.tok = 0 /\ Session!Quiet /\ signin.at = "idle"
  /\ signin.at # "idle" => phone.ready /\ ~Open("check")
  /\ signin.at \in {"asked", "waiting", "again", "denied", "ok"} => ~Session!SignedIn
  /\ signin.at \in {"asked", "again", "denied", "ok"} => Session!Quiet
  /\ signin.at = "waiting" => refresh.at # "idle" /\ phone.tok # 0 /\ \A k \in Session!Kinds : ~Open(k)
  /\ Open("me") => signin.at = "loading"

(* Which stages carry a pair.                                              *)
Carried ==
  /\ \A k \in Session!Kinds : Open(k) => call[k].tok # 0
  /\ (\E k \in Session!Kinds : call[k].at = "waiting") => refresh.at # "idle"
  /\ (refresh.at = "idle") <=> (refresh.tok = 0)
  /\ refresh.at = "ok" => refresh.new # 0
  /\ refresh.at \in {"idle", "asked", "denied"} => refresh.new = 0
  /\ (signin.at \in {"ok", "loading"}) <=> (signin.tok # 0)

(* A refused pair has expired; one about to be used has not, or its family *)
(* has ended.                                                              *)
Cut ==
  /\ signin.at \in {"ok", "loading"} /\ signin.tok \in pairs.cut => Dead(signin.tok)
  /\ \A k \in Session!Kinds : call[k].at = "refused" => call[k].tok \in pairs.cut
  /\ \A k \in Session!Kinds : call[k].at = "again" /\ call[k].tok \in pairs.cut => Dead(call[k].tok)
  /\ refresh.at = "ok" /\ refresh.new \in pairs.cut => Dead(refresh.new)

(* While the account loads, no pair but the new one is in play.            *)
Loading ==
  signin.at = "loading" =>
    \/ Dead(signin.tok)
    \/ /\ phone.tok \in {0, signin.tok} /\ refresh.at = "idle"
       /\ \A k \in Session!Kinds : Open(k) => call[k].tok = signin.tok

(* Unless a renewed pair was lost, the pair the phone would send next is   *)
(* unused, or its family has ended.                                        *)
Renewable ==
  "pair" \notin lost =>
    /\ refresh.at # "ok" => Good(phone.tok)
    /\ refresh.at = "ok" => Good(refresh.new)
    /\ refresh.at = "asked" => Good(refresh.tok)
    /\ signin.at \in {"ok", "loading"} => Good(signin.tok)
    /\ ~phone.hydrated => Good(saved)

(* The pairs that an answer could still bring back to the phone.           *)
InPlay(t) ==
  /\ t # 0
  /\ \/ t = phone.tok
     \/ \E k \in Session!Kinds : Open(k) /\ t = call[k].tok
     \/ refresh.at # "idle" /\ t \in {refresh.tok, refresh.new}
     \/ signin.at = "loading" /\ t = signin.tok

(* All pairs in play are of one family, which ends with any of them.       *)
OneSession == \A t, u \in Session!Ids : InPlay(t) /\ InPlay(u) => pairs.family[t] = pairs.family[u]

Over == \A t \in Session!Ids : InPlay(t) => Dead(t)

(* Unless an answer was lost, a phone that is signed out while something   *)
(* is under way is out for good.                                           *)
NoAnswerLost ==
  "answer" \notin lost =>
    /\ refresh.at # "failed" /\ \A k \in Session!Kinds : call[k].at # "failed"
    /\ \A k \in {"logout", "end"} : call[k].at = "ok" => Dead(call[k].tok)
    /\ (\E k \in Session!Kinds : call[k].at = "denied") =>
         Over \/ (phone.tok = 0 /\ refresh.at = "idle" /\ signin.at # "loading")
    /\ phone.tok = 0 /\ refresh.at \in {"asked", "ok"} => Over
    /\ phone.tok = 0 /\ signin.at = "loading" => Over

(* The server never met a used pair, unless a renewed one was lost.        *)
Silent == reused => "pair" \in lost

(* What holds until somebody signs in beside older requests.               *)
SessionInv ==
  SessionTyped /\ Numbered /\ AtRest /\ Carried /\ Cut /\ Loading /\ Renewable /\ OneSession /\ NoAnswerLost
  /\ Silent

-----------------------------------------------------------------------------

LEMMA IssuedNumbers ==
  ASSUME SessionInv
  PROVE  /\ pairs.issued \in Nat /\ pairs.issued <= PhonePairs /\ Issued(0)
         /\ \A t \in 0..pairs.issued : t \in Session!Held
         /\ \A t \in 1..pairs.issued : t \in Session!Ids
BY NumbersAre DEF SessionInv, Numbered, Sound, Issued, Session!PairSets

(* Things are laid down: requests end, and the phone may lose its pair.    *)
Quieter ==
  /\ UNCHANGED <<pairs, refresh, lost, reused>>
  /\ saved' \in {saved, phone.tok} /\ (~phone.hydrated => saved' = saved)
  /\ phone'.hydrated = phone.hydrated /\ phone'.tok \in {phone.tok, 0}
  /\ phone.ready => phone'.ready
  /\ phone'.ready => phone'.hydrated
  /\ phone'.gaveUp => phone'.hydrated
  /\ \A k \in Session!Kinds : call'[k] = call[k] \/ call'[k] = Session!NoCall
  /\ \/ signin' = signin
     \/ signin' = Session!NoSignin /\ call'["me"] = Session!NoCall
  /\ \/ phone'.tok = phone.tok \/ "answer" \in lost \/ Over
     \/ refresh.at = "idle" /\ signin'.at # "loading"
  /\ signin'.at \in {"asked", "waiting", "again", "denied", "ok"} => phone'.tok = 0 \/ phone'.user = phone.user
  /\ signin'.at = "waiting" => phone'.tok = phone.tok

LEMMA QuieterKeeps ==
  ASSUME SessionInv, SessionTyped', Quieter
  PROVE  SessionInv'
<1>n. Session!NoCall.at = "idle" /\ Session!NoCall.tok = 0
      /\ Session!NoSignin.at = "idle" /\ Session!NoSignin.tok = 0
  BY DEF Session!NoCall, Session!NoSignin
<1>0. /\ \A k \in Session!Kinds : Open(k)' => Open(k) /\ call'[k] = call[k]
      /\ \A k \in Session!Kinds : ~Open(k)' => call'[k] = call[k] \/ call'[k].tok = 0
      /\ "check" \in Session!Kinds /\ "me" \in Session!Kinds
      /\ "logout" \in Session!Kinds /\ "end" \in Session!Kinds
  BY <1>n, KindsAre DEF Quieter, Open
<1>s. signin'.at # "idle" => signin' = signin
  BY <1>n DEF Quieter
<1>p. /\ \A t : InPlay(t)' => InPlay(t)
      /\ \A t : Dead(t)' <=> Dead(t)
      /\ \A t : Good(t)' <=> Good(t)
  BY <1>0, <1>s DEF Quieter, InPlay, Dead, Good
<1>o. Over => Over'
  BY <1>p DEF Over
<1>i. /\ \A t : Issued(t)' <=> Issued(t)
      /\ Sound(pairs') <=> Sound(pairs)
  BY DEF Quieter, Issued
<1>1. Numbered'
  BY <1>0, <1>n, <1>i, IssuedNumbers DEF SessionInv, Numbered, Quieter
<1>q. Session!Quiet => Session!Quiet'
  BY <1>0 DEF Session!Quiet, Open, Quieter
<1>m. Open("me")' => signin'.at = signin.at
  BY <1>n, <1>0 DEF Open, Quieter
<1>h. signin'.at \in {"asked", "waiting", "again", "denied", "ok"} /\ ~Session!SignedIn => ~Session!SignedIn'
  BY DEF Quieter, Session!SignedIn
<1>2. AtRest'
  BY <1>0, <1>n, <1>q, <1>s, <1>m, <1>h DEF SessionInv, AtRest, Quieter
<1>c. Carried'
  BY <1>0, <1>n, <1>s DEF SessionInv, Carried, Quieter, Open
<1>3. Cut'
  BY <1>0, <1>n, <1>p DEF SessionInv, Cut, Quieter, Open
<1>4. Loading'
  BY <1>0, <1>n, <1>p DEF SessionInv, Loading, Quieter
<1>5. Renewable'
  BY <1>0, <1>n, <1>p DEF SessionInv, Renewable, Quieter, AtRest, Good
<1>6. OneSession'
  BY <1>p DEF SessionInv, OneSession, Quieter
<1>7. NoAnswerLost'
  BY <1>0, <1>n, <1>s, <1>o, <1>p DEF SessionInv, NoAnswerLost, Quieter, Open, AtRest
<1>8. Silent'
  BY DEF SessionInv, Silent, Quieter
<1> QED
  BY <1>1, <1>2, <1>c, <1>3, <1>4, <1>5, <1>6, <1>7, <1>8 DEF SessionInv

LEMMA NothingOut ==
  /\ Session!NoCall \in Session!Call /\ Session!NoRefresh \in Refreshes /\ Session!NoSignin \in Signins
  /\ Session!NoCall.at = "idle" /\ Session!NoCall.tok = 0
  /\ Session!NoSignin.at = "idle" /\ Session!NoSignin.tok = 0
  /\ Session!NoRefresh.at = "idle" /\ Session!NoRefresh.tok = 0 /\ Session!NoRefresh.new = 0
BY NumbersAre DEF Session!NoCall, Session!NoSignin, Session!NoRefresh, Session!Call, Refreshes, Signins, Session!Ways

LEMMA GiveUpQuiets ==
  ASSUME SessionInv, Session!GiveUp
  PROVE  SessionTyped' /\ Quieter
<1> DEFINE q == [phone EXCEPT !.gaveUp = TRUE]
<1>1. q \in Phones
  BY DEF SessionInv, SessionTyped, Phones
<1>2. /\ q.tok = phone.tok /\ q.user = phone.user /\ q.hydrated = phone.hydrated
      /\ q.ready = phone.ready
  BY DEF SessionInv, SessionTyped, Phones
<1>3. phone' = Session!Settled(q) /\ phone.hydrated
  BY DEF Session!GiveUp
<1> HIDE DEF q
<1>4. SessionTyped'
  BY <1>1, <1>3, SettledPhone DEF SessionInv, SessionTyped, Session!GiveUp
<1>5. Quieter
  BY <1>1, <1>2, <1>3, SettledPhone DEF SessionInv, AtRest, Quieter, Session!GiveUp
<1> QED
  BY <1>4, <1>5

LEMMA PersistQuiets ==
  ASSUME SessionInv, Session!Persist
  PROVE  SessionTyped' /\ Quieter
BY DEF SessionInv, SessionTyped, AtRest, Quieter, Session!Persist

LEMMA CheckDoneQuiets ==
  ASSUME SessionInv, Session!CheckDone
  PROVE  SessionTyped' /\ Quieter
<1>k. "check" \in Session!Kinds /\ "me" \in Session!Kinds
  BY KindsAre
<1>1. /\ call["check"].at \in {"ok", "denied", "failed"}
      /\ call["check"].who \in PhoneAccounts \union {Nobody}
      /\ call' = [call EXCEPT !["check"] = Session!NoCall]
      /\ UNCHANGED <<pairs, saved, refresh, signin, lost, reused>>
  BY <1>k DEF Session!CheckDone, SessionInv, SessionTyped, Calls, Session!Call
<1>2. /\ call' \in Calls
      /\ \A k \in Session!Kinds : call'[k] = call[k] \/ call'[k] = Session!NoCall
  BY <1>1, <1>k, NothingOut DEF SessionInv, SessionTyped, Calls
<1>3. signin.at = "idle"
  BY <1>1 DEF SessionInv, AtRest, Open
<1>4. /\ phone' \in Phones
      /\ phone'.hydrated = phone.hydrated /\ phone'.gaveUp = phone.gaveUp
      /\ phone.ready => phone'.ready
      /\ phone'.ready => phone.ready \/ phone.gaveUp \/ phone.hydrated
      /\ call["check"].at = "denied" => phone'.tok = 0
      /\ call["check"].at # "denied" => phone'.tok = phone.tok
  <2>1. phone \in Phones
    BY DEF SessionInv, SessionTyped
  <2>2. CASE call["check"].at = "ok"
    <3> DEFINE q == [phone EXCEPT !.user = call["check"].who]
    <3>1. q \in Phones
      BY <1>1, <2>1 DEF Phones
    <3>2. /\ q.tok = phone.tok /\ q.hydrated = phone.hydrated
          /\ q.ready = phone.ready /\ q.gaveUp = phone.gaveUp
      BY <2>1 DEF Phones
    <3>3. phone' = Session!Settled(q)
      BY <2>2 DEF Session!CheckDone
    <3> HIDE DEF q
    <3> QED
      BY <2>2, <3>1, <3>2, <3>3, SettledPhone
  <2>3. CASE call["check"].at = "denied"
    BY <2>1, <2>3, ClearedPhone DEF Session!CheckDone
  <2>4. CASE call["check"].at = "failed"
    <3> DEFINE q == [phone EXCEPT !.checkFailed = TRUE]
    <3>1. q \in Phones
      BY <2>1 DEF Phones
    <3>2. /\ q.tok = phone.tok /\ q.hydrated = phone.hydrated
          /\ q.ready = phone.ready /\ q.gaveUp = phone.gaveUp
      BY <2>1 DEF Phones
    <3>3. phone' = Session!Settled(q)
      BY <2>4 DEF Session!CheckDone
    <3> HIDE DEF q
    <3> QED
      BY <2>4, <3>1, <3>2, <3>3, SettledPhone
  <2> QED
    BY <1>1, <2>2, <2>3, <2>4
<1>5. SessionTyped'
  BY <1>1, <1>2, <1>4 DEF SessionInv, SessionTyped
<1>6. call["check"].at = "denied" =>
        phone'.tok = phone.tok \/ "answer" \in lost \/ Over \/ refresh.at = "idle"
  BY <1>k, <1>4 DEF SessionInv, NoAnswerLost
<1>7. Quieter
  BY <1>1, <1>2, <1>3, <1>4, <1>6 DEF SessionInv, AtRest, Quieter
<1> QED
  BY <1>5, <1>7

LEMMA DoneQuiets ==
  ASSUME SessionInv, NEW k \in Session!Kinds, Session!Done(k)
  PROVE  SessionTyped' /\ Quieter
<1> DEFINE after == [call EXCEPT ![k] = Session!NoCall]
           clears == k = "logout" \/ (k = "end" /\ call[k].at = "ok")
<1>t. phone \in Phones /\ call \in Calls
  BY DEF SessionInv, SessionTyped
<1>1. /\ call[k].at \in {"ok", "denied", "failed"} /\ Open(k) /\ k \notin {"check", "me"}
      /\ call[k].who \in PhoneAccounts \union {Nobody}
      /\ UNCHANGED <<pairs, saved, refresh, signin, lost, reused>>
      /\ call' = IF clears THEN Session!ClearCalls(after) ELSE after
      /\ phone' = IF clears THEN Session!Cleared(phone)
                  ELSE IF k = "save" THEN Session!Settled([phone EXCEPT !.user = call[k].who])
                  ELSE phone
  BY <1>t DEF Session!Done, Session!Asking, Open, Calls, Session!Call
<1>2. /\ after \in Calls /\ after[k] = Session!NoCall
      /\ \A j \in Session!Kinds \ {k} : after[j] = call[j]
  BY <1>t, NothingOut DEF Calls
<1> HIDE DEF after
<1>3. /\ call' \in Calls
      /\ \A j \in Session!Kinds : call'[j] = call[j] \/ call'[j] = Session!NoCall
  BY <1>1, <1>2, ClearedCalls
<1>4. /\ phone' \in Phones
      /\ phone'.hydrated = phone.hydrated /\ phone'.gaveUp = phone.gaveUp
      /\ phone.ready => phone'.ready
      /\ phone'.ready => phone.ready \/ phone.gaveUp \/ phone.hydrated
      /\ phone'.tok \in {0, phone.tok} /\ (~clears => phone'.tok = phone.tok)
  <2> DEFINE q == [phone EXCEPT !.user = call[k].who]
  <2>1. q \in Phones
    BY <1>1, <1>t DEF Phones
  <2>2. /\ q.tok = phone.tok /\ q.hydrated = phone.hydrated
        /\ q.ready = phone.ready /\ q.gaveUp = phone.gaveUp
    BY <1>t DEF Phones
  <2> HIDE DEF q, clears
  <2>3. (phone' = Session!Cleared(phone) /\ clears) \/ phone' = Session!Settled(q) \/ phone' = phone
    BY <1>1 DEF q
  <2> QED
    BY <1>t, <2>1, <2>2, <2>3, SettledPhone, ClearedPhone
<1>5. SessionTyped'
  BY <1>1, <1>3, <1>4 DEF SessionInv, SessionTyped
<1>6. phone'.tok # phone.tok => "answer" \in lost \/ Over \/ (refresh.at = "idle" /\ signin.at # "loading")
  <2>1. SUFFICES ASSUME clears, "answer" \notin lost, phone.tok # 0 PROVE Over
    BY <1>4
  <2>2. call[k].at # "failed"
    BY <2>1 DEF SessionInv, NoAnswerLost
  <2>3. CASE call[k].at = "denied"
    BY <2>1, <2>3 DEF SessionInv, NoAnswerLost
  <2>4. CASE call[k].at = "ok"
    <3>1. Dead(call[k].tok) /\ InPlay(call[k].tok) /\ call[k].tok \in Session!Ids
      BY <1>1, <2>1, <2>4, IssuedNumbers DEF SessionInv, NoAnswerLost, InPlay, Carried, Numbered, Issued
    <3> QED
      BY <3>1 DEF SessionInv, OneSession, Over, Dead
  <2> QED
    BY <1>1, <2>2, <2>3, <2>4
<1>7. signin.at \notin {"asked", "waiting", "again", "denied", "ok"}
  BY <1>1 DEF SessionInv, AtRest, Session!Quiet, Open
<1>8. Quieter
  BY <1>1, <1>3, <1>4, <1>6, <1>7 DEF SessionInv, AtRest, Quieter
<1> QED
  BY <1>5, <1>8

LEMMA HalfDropped ==
  ASSUME SessionInv, Session!DropHalf
  PROVE  /\ phone' \in Phones /\ call' \in Calls
         /\ \A k \in Session!Kinds : call'[k] = call[k] \/ call'[k] = Session!NoCall
         /\ call'["me"] = Session!NoCall
         /\ phone'.hydrated = phone.hydrated /\ phone'.gaveUp = phone.gaveUp
         /\ phone.ready => phone'.ready
         /\ phone'.ready => phone.ready \/ phone.gaveUp \/ phone.hydrated
         /\ phone'.tok \in {0, phone.tok}
<1> DEFINE after == [call EXCEPT !["me"] = Session!NoCall]
<1>1. phone \in Phones /\ call \in Calls /\ "me" \in Session!Kinds
  BY KindsAre DEF SessionInv, SessionTyped
<1>2. /\ after \in Calls /\ after["me"] = Session!NoCall
      /\ \A j \in Session!Kinds \ {"me"} : after[j] = call[j]
  BY <1>1, NothingOut DEF Calls
<1>3. \/ phone' = Session!Cleared(phone) /\ call' = Session!ClearCalls(after)
      \/ phone' = phone /\ call' = after
  BY DEF Session!DropHalf
<1> HIDE DEF after
<1> QED
  BY <1>1, <1>2, <1>3, ClearedPhone, ClearedCalls

LEMMA SigninFailsQuiets ==
  ASSUME SessionInv, Session!SigninFails
  PROVE  SessionTyped' /\ Quieter
<1>1. /\ Session!DropHalf /\ signin' = Session!NoSignin /\ signin.at \in {"asked", "again", "denied", "ok"}
      /\ UNCHANGED <<pairs, saved, refresh, lost, reused>>
  BY DEF Session!SigninFails
<1>2. refresh.at = "idle"
  BY <1>1 DEF SessionInv, AtRest, Session!Quiet
<1>3. SessionTyped'
  BY <1>1, HalfDropped, NothingOut DEF SessionInv, SessionTyped
<1>4. Quieter
  BY <1>1, <1>2, HalfDropped, NothingOut DEF SessionInv, AtRest, Quieter
<1> QED
  BY <1>3, <1>4

LEMMA AccountNotLoadedQuiets ==
  ASSUME SessionInv, Session!AccountNotLoaded
  PROVE  SessionTyped' /\ Quieter
<1>1. /\ Session!DropHalf /\ signin' = Session!NoSignin /\ signin.at = "loading"
      /\ call["me"].at \in {"denied", "failed"}
      /\ UNCHANGED <<pairs, saved, refresh, lost, reused>>
  BY DEF Session!AccountNotLoaded
<1>2. "answer" \in lost \/ Over
  BY <1>1, KindsAre DEF SessionInv, NoAnswerLost
<1>3. SessionTyped'
  BY <1>1, HalfDropped, NothingOut DEF SessionInv, SessionTyped
<1>4. Quieter
  BY <1>1, <1>2, HalfDropped, NothingOut DEF SessionInv, AtRest, Quieter
<1> QED
  BY <1>3, <1>4

-----------------------------------------------------------------------------

(* A request starts with the phone's pair.                                 *)
Asks(k) ==
  /\ UNCHANGED <<pairs, saved, refresh, signin, lost, reused>>
  /\ phone'.hydrated /\ phone.hydrated /\ phone'.tok = phone.tok /\ phone.tok # 0
  /\ phone'.ready = phone.ready /\ phone'.gaveUp = phone.gaveUp
  /\ k # "me" /\ signin.at \notin {"asked", "waiting", "again", "denied", "ok"}
  /\ k = "check" => signin.at = "idle"
  /\ call' = [call EXCEPT ![k] = Session!Asked(phone.tok)]

LEMMA AsksKeeps ==
  ASSUME SessionInv, SessionTyped', NEW k \in Session!Kinds, ~Open(k), Asks(k)
  PROVE  SessionInv'
<1> DEFINE c == Session!Asked(phone.tok)
<1>a. c.at = "asked" /\ c.tok = phone.tok
  BY DEF Session!Asked
<1> HIDE DEF c
<1>0. /\ call'[k] = c /\ Open(k)'
      /\ \A j \in Session!Kinds \ {k} : call'[j] = call[j] /\ (Open(j)' <=> Open(j))
  BY <1>a DEF SessionInv, SessionTyped, Calls, Asks, Open, c
<1>p. /\ \A t : InPlay(t)' => InPlay(t)
      /\ \A t : Dead(t)' <=> Dead(t)
      /\ \A t : Good(t)' <=> Good(t)
  BY <1>0, <1>a DEF Asks, InPlay, Dead, Good
<1>o. Over => Over'
  BY <1>p DEF Over
<1>i. /\ \A t : Issued(t)' <=> Issued(t)
      /\ Sound(pairs') <=> Sound(pairs)
  BY DEF Asks, Issued
<1>1. Numbered'
  BY <1>0, <1>a, <1>i DEF SessionInv, Numbered, Asks
<1>2. AtRest'
  BY <1>0, KindsAre DEF SessionInv, AtRest, Asks
<1>3. Carried'
  BY <1>0, <1>a DEF SessionInv, Carried, Asks
<1>4. Cut'
  BY <1>0, <1>a, <1>p DEF SessionInv, Cut, Asks
<1>5. Loading'
  BY <1>0, <1>a, <1>p DEF SessionInv, Loading, Asks
<1>6. Renewable'
  BY <1>p DEF SessionInv, Renewable, Asks
<1>7. OneSession'
  BY <1>p DEF SessionInv, OneSession, Asks
<1>8. NoAnswerLost'
  BY <1>0, <1>a, <1>o, <1>p, KindsAre DEF SessionInv, NoAnswerLost, Asks
<1>9. Silent'
  BY DEF SessionInv, Silent, Asks
<1> QED
  BY <1>1, <1>2, <1>3, <1>4, <1>5, <1>6, <1>7, <1>8, <1>9 DEF SessionInv

LEMMA AskedCall ==
  ASSUME SessionInv
  PROVE  Session!Asked(phone.tok) \in Session!Call
BY DEF SessionInv, SessionTyped, Phones, Session!Asked, Session!Call

LEMMA StartCheckAsks ==
  ASSUME SessionInv, Session!StartCheck
  PROVE  SessionTyped' /\ ~Open("check") /\ Asks("check")
BY AskedCall, KindsAre DEF SessionInv, SessionTyped, Calls, AtRest, Open, Asks, Session!StartCheck

LEMMA TryAgainAsks ==
  ASSUME SessionInv, Session!TryAgain, "beside" \notin lost'
  PROVE  SessionTyped' /\ ~Open("check") /\ Asks("check")
<1>1. /\ phone' \in Phones
      /\ phone'.hydrated = phone.hydrated /\ phone'.gaveUp = phone.gaveUp
      /\ phone'.ready = phone.ready /\ phone'.tok = phone.tok
  BY DEF SessionInv, SessionTyped, Phones, Session!TryAgain
<1>2. /\ phone.ready /\ phone.tok # 0 /\ signin.at = "idle" /\ ~Open("check")
      /\ call' = [call EXCEPT !["check"] = Session!Asked(phone.tok)]
      /\ lost' = lost /\ UNCHANGED <<pairs, saved, refresh, signin, reused>>
  BY DEF Session!TryAgain, Session!Unreachable, Session!AtLogin, Open
<1> QED
  BY <1>1, <1>2, AskedCall, KindsAre DEF SessionInv, SessionTyped, Calls, AtRest, Asks

LEMMA AskAsks ==
  ASSUME SessionInv, NEW k \in Session!Kinds, Session!Ask(k)
  PROVE  SessionTyped' /\ ~Open(k) /\ Asks(k)
<1>1. /\ phone.ready /\ Session!SignedIn /\ ~Open(k)
      /\ call' = [call EXCEPT ![k] = Session!Asked(phone.tok)]
      /\ UNCHANGED <<pairs, phone, saved, refresh, signin, lost, reused>>
      /\ k \notin {"check", "me"}
  BY AsksAssumption DEF Session!Ask, Open
<1>2. phone.tok # 0 /\ phone.hydrated /\ signin.at \notin {"asked", "waiting", "again", "denied", "ok"}
  BY <1>1 DEF SessionInv, AtRest, Session!SignedIn
<1> QED
  BY <1>1, <1>2, AskedCall DEF SessionInv, SessionTyped, Calls, Asks

-----------------------------------------------------------------------------

LEMMA InPlayIsIssued ==
  ASSUME SessionInv, NEW t, InPlay(t)
  PROVE  t \in 1..pairs.issued /\ t \in Session!Ids
BY IssuedNumbers DEF SessionInv, Numbered, Issued, InPlay

LEMMA LaterKnows ==
  ASSUME SessionInv, Sound(pairs'), Later(pairs, pairs')
  PROVE  /\ \A t : Issued(t) => Issued(t)'
         /\ \A t \in 1..pairs.issued : pairs'.family[t] = pairs.family[t]
         /\ \A t \in 1..pairs.issued : Dead(t) => Dead(t)'
         /\ pairs'.used = pairs.used => \A t : Issued(t) /\ Good(t) => Good(t)'
<1>1. pairs.issued \in Nat /\ pairs'.issued \in Nat /\ pairs.issued <= pairs'.issued
  BY IssuedNumbers, NumbersAre DEF Sound, Session!PairSets, Later
<1>2. \A t : Issued(t) => t = 0 \/ t \in 1..pairs.issued
  BY <1>1 DEF Issued
<1>3. \A t \in 1..pairs.issued : Dead(t) => Dead(t)'
  BY DEF Dead, Later
<1> QED
  BY <1>1, <1>2, <1>3 DEF Later, Issued, Good

\* The server does something that no answer tells of.
LEMMA WorldKeeps ==
  ASSUME SessionInv, Sound(pairs'), Later(pairs, pairs'), pairs'.used = pairs.used,
         UNCHANGED <<phone, saved, call, refresh, signin, lost, reused>>, Cut'
  PROVE  SessionInv'
<1>0. /\ \A t : Issued(t) => Issued(t)'
      /\ \A t \in 1..pairs.issued : pairs'.family[t] = pairs.family[t]
      /\ \A t \in 1..pairs.issued : Dead(t) => Dead(t)'
      /\ \A t : Issued(t) /\ Good(t) => Good(t)'
  BY LaterKnows
<1>p. /\ \A t : InPlay(t)' <=> InPlay(t)
      /\ \A k : Open(k)' <=> Open(k)
      /\ Session!Quiet' <=> Session!Quiet
      /\ Session!SignedIn' <=> Session!SignedIn
  BY DEF InPlay, Open, Session!Quiet, Session!SignedIn
<1>o. Over => Over'
  BY <1>0, <1>p, InPlayIsIssued DEF Over
<1>1. Numbered'
  BY <1>0 DEF SessionInv, Numbered
<1>2. AtRest'
  BY <1>p DEF SessionInv, AtRest
<1>3. Carried'
  BY <1>p DEF SessionInv, Carried
<1>5. Loading'
  BY <1>0, <1>p, IssuedNumbers DEF SessionInv, Loading, Carried, Numbered, Issued
<1>6. Renewable'
  BY <1>0 DEF SessionInv, Renewable, Numbered
<1>7. OneSession'
  BY <1>0, <1>p, InPlayIsIssued DEF SessionInv, OneSession
<1>8. NoAnswerLost'
  <2>1. \A k \in {"logout", "end"} : call[k].at = "ok" /\ Dead(call[k].tok) => Dead(call[k].tok)'
    BY <1>0, KindsAre, IssuedNumbers DEF SessionInv, Carried, Open, Numbered, Issued
  <2> QED
    BY <2>1, <1>o DEF SessionInv, NoAnswerLost
<1>9. Silent'
  BY DEF SessionInv, Silent
<1>10. SessionTyped'
  BY DEF SessionInv, SessionTyped
<1> QED
  BY <1>1, <1>2, <1>3, <1>5, <1>6, <1>7, <1>8, <1>9, <1>10 DEF SessionInv

LEMMA ExpireKeeps ==
  ASSUME SessionInv, NEW t \in Session!Ids, Session!Expire(t)
  PROVE  SessionInv'
<1>1. /\ t \in 1..pairs.issued
      /\ t \notin {signin.tok, refresh.new}
      /\ \A k \in Session!Kinds : ~(call[k].at = "again" /\ call[k].tok = t)
      /\ pairs' = [pairs EXCEPT !.cut = @ \union {t}]
      /\ UNCHANGED <<phone, saved, call, refresh, signin, lost, reused>>
  BY NumbersAre, IssuedNumbers DEF Session!Expire
<1>2. /\ Sound(pairs') /\ Later(pairs, pairs') /\ pairs'.used = pairs.used
      /\ pairs'.family = pairs.family /\ pairs'.revoked = pairs.revoked
      /\ pairs'.cut = pairs.cut \union {t}
  BY <1>1, ExpiredPairs DEF SessionInv, Numbered
<1>3. \A u : Dead(u)' <=> Dead(u)
  BY <1>2 DEF Dead
<1>4. Cut'
  BY <1>1, <1>2, <1>3 DEF SessionInv, Cut
<1> QED
  BY <1>1, <1>2, <1>4, WorldKeeps

LEMMA EndElsewhereKeeps ==
  ASSUME SessionInv, NEW a \in PhoneAccounts, Session!EndElsewhere(a)
  PROVE  SessionInv'
<1>1. /\ pairs' = Session!RevokeAll(pairs, a)
      /\ UNCHANGED <<phone, saved, call, refresh, signin, lost, reused>>
  BY DEF Session!EndElsewhere
<1> DEFINE mine == Session!PairsOf(pairs, a)
<1>2. /\ Sound(pairs') /\ Later(pairs, pairs') /\ pairs'.used = pairs.used
      /\ pairs'.family = pairs.family
      /\ pairs'.revoked = pairs.revoked \union {pairs.family[t] : t \in mine}
      /\ pairs'.cut = pairs.cut \union mine
  BY <1>1, RevokedPairs DEF SessionInv, Numbered
<1> HIDE DEF mine
<1>3. \A u : Dead(u) \/ u \in mine => Dead(u)'
  BY <1>2 DEF Dead
<1>4. Cut'
  BY <1>1, <1>2, <1>3 DEF SessionInv, Cut
<1> QED
  BY <1>1, <1>2, <1>4, WorldKeeps

-----------------------------------------------------------------------------

(* The server answers request k, and may end sessions.                     *)
Answers(k) ==
  /\ UNCHANGED <<phone, saved, refresh, signin, lost, reused>>
  /\ Sound(pairs') /\ Later(pairs, pairs') /\ pairs'.used = pairs.used
  /\ \A t \in pairs'.cut : t \in pairs.cut \/ Dead(t)'
  /\ \A j \in Session!Kinds \ {k} : call'[j] = call[j]
  /\ call'[k].tok = call[k].tok /\ call'[k].at \in {"ok", "refused", "denied"}
  /\ call'[k].at = "ok" /\ k \in {"logout", "end"} => Dead(call[k].tok)'
  /\ call'[k].at = "refused" => call[k].tok \in pairs'.cut
  /\ call'[k].at = "denied" => Over

LEMMA AnswersKeeps ==
  ASSUME SessionInv, SessionTyped', NEW k \in Session!Kinds, Open(k), Answers(k)
  PROVE  SessionInv'
<1>0. /\ \A t : Issued(t) => Issued(t)'
      /\ \A t \in 1..pairs.issued : pairs'.family[t] = pairs.family[t]
      /\ \A t \in 1..pairs.issued : Dead(t) => Dead(t)'
      /\ \A t : Issued(t) /\ Good(t) => Good(t)'
  BY LaterKnows DEF Answers
<1>k. \A j \in Session!Kinds : (Open(j)' <=> Open(j)) /\ call'[j].tok = call[j].tok
  BY DEF Answers, Open
<1>p. /\ \A t : InPlay(t)' <=> InPlay(t)
      /\ Session!Quiet' <=> Session!Quiet
      /\ Session!SignedIn' <=> Session!SignedIn
  BY <1>k DEF Answers, InPlay, Open, Session!Quiet, Session!SignedIn
<1>o. Over => Over'
  BY <1>0, <1>p, InPlayIsIssued DEF Over
<1>1. Numbered'
  BY <1>0, <1>k DEF SessionInv, Numbered, Answers
<1>2. AtRest'
  BY <1>p, <1>k, KindsAre DEF SessionInv, AtRest, Answers
<1>3. Carried'
  BY <1>k DEF SessionInv, Carried, Answers
<1>4. Cut'
  <2>1. \A j \in Session!Kinds : Open(j) => call[j].tok \in 1..pairs.issued
    BY IssuedNumbers DEF SessionInv, Carried, Numbered, Issued
  <2>2. signin.at \in {"ok", "loading"} => signin.tok \in 1..pairs.issued
    BY IssuedNumbers DEF SessionInv, Carried, Numbered, Issued
  <2>3. refresh.at = "ok" => refresh.new \in 1..pairs.issued
    BY IssuedNumbers DEF SessionInv, Carried, Numbered, Issued
  <2>4. \A t \in 1..pairs.issued : (t \in pairs.cut => Dead(t)) /\ t \in pairs'.cut => Dead(t)'
    BY <1>0 DEF Answers
  <2>5. \A j \in Session!Kinds : call'[j].at = "again" => call[j].at = "again" /\ Open(j)
    BY DEF Answers, Open
  <2>6. \A j \in Session!Kinds : call'[j].at = "refused" => call'[j].tok \in pairs'.cut
    BY DEF Answers, SessionInv, Cut, Later
  <2> QED
    BY <1>k, <2>1, <2>2, <2>3, <2>4, <2>5, <2>6 DEF Answers, SessionInv, Cut
<1>5. Loading'
  BY <1>0, <1>k, IssuedNumbers DEF SessionInv, Loading, Carried, Numbered, Issued, Answers
<1>6. Renewable'
  BY <1>0 DEF SessionInv, Renewable, Numbered, Answers
<1>7. OneSession'
  BY <1>0, <1>p, InPlayIsIssued DEF SessionInv, OneSession
<1>8. NoAnswerLost'
  <2>1. \A j \in Session!Kinds : Open(j) /\ Dead(call[j].tok) => Dead(call[j].tok)'
    BY <1>0, <1>k, IssuedNumbers DEF SessionInv, Carried, Numbered, Issued
  <2>2. "answer" \notin lost => \A j \in {"logout", "end"} : (call[j].at = "ok" => Dead(call[j].tok))'
    BY <1>k, <2>1, KindsAre DEF SessionInv, NoAnswerLost, Answers, Open
  <2>3. (\E j \in Session!Kinds : call'[j].at = "denied") => (\E j \in Session!Kinds : call[j].at = "denied") \/ Over
    BY DEF Answers
  <2>4. (\A j \in Session!Kinds : call[j].at # "failed") => (\A j \in Session!Kinds : call'[j].at # "failed")
    BY DEF Answers
  <2> QED
    BY <2>2, <2>3, <2>4, <1>o DEF SessionInv, NoAnswerLost, Answers
<1>9. Silent'
  BY DEF SessionInv, Silent, Answers
<1> QED
  BY <1>1, <1>2, <1>3, <1>4, <1>5, <1>6, <1>7, <1>8, <1>9 DEF SessionInv

LEMMA ServeAnswers ==
  ASSUME SessionInv, NEW k \in Session!Kinds, Session!Serve(k)
  PROVE  SessionTyped' /\ Open(k) /\ Answers(k)
<1>t. PICK t : t = call[k].tok
  OBVIOUS
<1>1. /\ call \in Calls /\ call[k] \in Session!Call /\ call[k].at \in {"asked", "again"} /\ Open(k)
      /\ UNCHANGED <<phone, saved, refresh, signin, lost, reused>>
  BY DEF Session!Serve, SessionInv, SessionTyped, Calls, Open
<1>2. t \in 1..pairs.issued /\ t \in Session!Ids /\ t # 0 /\ InPlay(t)
  BY <1>1, <1>t, IssuedNumbers DEF SessionInv, Carried, Numbered, Issued, InPlay
<1>3. CASE t \notin pairs.cut
  <2> DEFINE w == IF k = "save" THEN call[k].who ELSE pairs.owner[t]
  <2>1. /\ call' = [call EXCEPT ![k].at = "ok", ![k].who = w]
        /\ pairs' = CASE k = "logout" -> Session!LogOut(pairs, t)
                      [] k = "end"    -> Session!RevokeAll(pairs, pairs.owner[t])
                      [] OTHER        -> pairs
    BY <1>2, <1>3, <1>t DEF Session!Serve, Session!AccessAccepted
  <2>2. w \in PhoneAccounts \union {Nobody}
    BY <1>1, <1>2 DEF Session!Call, SessionInv, Numbered, Sound, Session!PairSets
  <2> HIDE DEF w
  <2>3. [call[k] EXCEPT !.at = "ok", !.who = w] \in Session!Call
    BY <1>1, <2>2 DEF Session!Call
  <2>4. /\ call' \in Calls /\ \A j \in Session!Kinds \ {k} : call'[j] = call[j]
        /\ call'[k] = [call[k] EXCEPT !.at = "ok", !.who = w]
    BY <1>1, <2>1, <2>3 DEF Calls
  <2>5. call'[k].at = "ok" /\ call'[k].tok = t
    BY <1>1, <1>t, <2>4 DEF Session!Call
  <2>6. /\ Sound(pairs') /\ Later(pairs, pairs') /\ pairs'.used = pairs.used
        /\ \A u \in pairs'.cut : u \in pairs.cut \/ Dead(u)'
        /\ k \in {"logout", "end"} => Dead(t)'
    <3>0. Sound(pairs)
      BY DEF SessionInv, Numbered
    <3>1. CASE k = "logout"
      <4>1. pairs' = Session!LogOut(pairs, t)
        BY <2>1, <3>1
      <4>2. /\ Sound(pairs') /\ Later(pairs, pairs') /\ pairs'.used = pairs.used
            /\ pairs'.family = pairs.family /\ pairs'.revoked = pairs.revoked \union {pairs.family[t]}
            /\ pairs'.cut = pairs.cut \union {t}
        BY <1>2, <3>0, <4>1, LoggedOutPairs
      <4> QED
        BY <4>2 DEF Dead
    <3>2. CASE k = "end"
      <4> DEFINE a == pairs.owner[t]
                 mine == Session!PairsOf(pairs, a)
      <4>1. pairs' = Session!RevokeAll(pairs, a)
        BY <2>1, <3>2
      <4>2. t \in mine
        BY <1>2 DEF Session!PairsOf
      <4> HIDE DEF a
      <4>3. /\ Sound(pairs') /\ Later(pairs, pairs') /\ pairs'.used = pairs.used
            /\ pairs'.family = pairs.family
            /\ pairs'.revoked = pairs.revoked \union {pairs.family[u] : u \in mine}
            /\ pairs'.cut = pairs.cut \union mine
        BY <3>0, <4>1, RevokedPairs
      <4> HIDE DEF mine
      <4> QED
        BY <4>2, <4>3 DEF Dead
    <3>3. CASE k \notin {"logout", "end"}
      BY <2>1, <3>0, <3>3, IssuedNumbers DEF Later
    <3> QED
      BY <3>1, <3>2, <3>3
  <2>7. SessionTyped'
    BY <1>1, <2>4 DEF SessionInv, SessionTyped
  <2>8. Answers(k)
    BY <1>1, <1>t, <2>4, <2>5, <2>6 DEF Answers
  <2> QED
    BY <1>1, <2>7, <2>8
<1>4. CASE t \in pairs.cut
  <2> DEFINE at == IF call[k].at = "asked" THEN "refused" ELSE "denied"
  <2>1. call' = [call EXCEPT ![k].at = at] /\ pairs' = pairs
    BY <1>4, <1>t DEF Session!Serve, Session!AccessAccepted
  <2>2. at \in {"refused", "denied"}
    OBVIOUS
  <2>3. at = "denied" => Over
    <3>1. at = "denied" => Dead(t)
      BY <1>1, <1>4, <1>t DEF SessionInv, Cut
    <3> QED
      BY <1>2, <3>1 DEF SessionInv, OneSession, Over, Dead
  <2> HIDE DEF at
  <2>4. [call[k] EXCEPT !.at = at] \in Session!Call
    BY <1>1, <2>2 DEF Session!Call
  <2>5. /\ call' \in Calls /\ \A j \in Session!Kinds \ {k} : call'[j] = call[j]
        /\ call'[k] = [call[k] EXCEPT !.at = at]
    BY <1>1, <2>1, <2>4 DEF Calls
  <2>6. call'[k].at = at /\ call'[k].tok = t
    BY <1>1, <1>t, <2>5 DEF Session!Call
  <2>7. SessionTyped'
    BY <1>1, <2>5 DEF SessionInv, SessionTyped
  <2>8. Sound(pairs') /\ Later(pairs, pairs')
    BY <2>1, IssuedNumbers DEF SessionInv, Numbered, Later
  <2>9. Answers(k)
    BY <1>1, <1>4, <1>t, <2>1, <2>2, <2>3, <2>5, <2>6, <2>8 DEF Answers
  <2> QED
    BY <1>1, <2>7, <2>9
<1> QED
  BY <1>3, <1>4

LEMMA TimeOutKeeps ==
  ASSUME SessionInv, NEW k \in Session!Kinds, Session!TimeOut(k)
  PROVE  SessionInv'
<1>1. /\ call \in Calls /\ call[k] \in Session!Call /\ Open(k)
      /\ call' = [call EXCEPT ![k] = [call[k] EXCEPT !.at = "failed"]]
      /\ lost' = lost \union {"answer"}
      /\ UNCHANGED <<pairs, phone, saved, refresh, signin, reused>>
  BY DEF Session!TimeOut, SessionInv, SessionTyped, Calls, Open
<1>2. [call[k] EXCEPT !.at = "failed"] \in Session!Call
  BY <1>1 DEF Session!Call
<1>3. /\ call' \in Calls /\ \A j \in Session!Kinds \ {k} : call'[j] = call[j]
      /\ call'[k] = [call[k] EXCEPT !.at = "failed"]
  BY <1>1, <1>2 DEF Calls
<1>4. call'[k].at = "failed" /\ call'[k].tok = call[k].tok
  BY <1>1, <1>3 DEF Session!Call
<1>5. SessionTyped'
  BY <1>1, <1>3 DEF SessionInv, SessionTyped
<1>k. \A j \in Session!Kinds : (Open(j)' <=> Open(j)) /\ call'[j].tok = call[j].tok
  BY <1>1, <1>3, <1>4 DEF Open
<1>p. /\ \A t : InPlay(t)' <=> InPlay(t)
      /\ \A t : (Dead(t)' <=> Dead(t)) /\ (Good(t)' <=> Good(t)) /\ (Issued(t)' <=> Issued(t))
      /\ Session!Quiet' <=> Session!Quiet
      /\ Session!SignedIn' <=> Session!SignedIn
  BY <1>1, <1>k DEF InPlay, Dead, Good, Issued, Open, Session!Quiet, Session!SignedIn
<1>6. Numbered' /\ Carried' /\ Loading' /\ OneSession'
  BY <1>1, <1>3, <1>4, <1>k, <1>p DEF SessionInv, Numbered, Carried, Loading, OneSession
<1>7. AtRest'
  BY <1>1, <1>k, <1>p, KindsAre DEF SessionInv, AtRest
<1>8. Cut'
  BY <1>1, <1>3, <1>4, <1>p DEF SessionInv, Cut
<1>9. Renewable' /\ NoAnswerLost' /\ Silent'
  BY <1>1, <1>p DEF SessionInv, Renewable, NoAnswerLost, Silent
<1> QED
  BY <1>5, <1>6, <1>7, <1>8, <1>9 DEF SessionInv

LEMMA JoinRefreshKeeps ==
  ASSUME SessionInv, NEW k \in Session!Kinds, Session!JoinRefresh(k)
  PROVE  SessionInv'
<1> DEFINE asks == refresh.at = "idle" /\ phone.tok # 0
           at == IF refresh.at # "idle" \/ phone.tok # 0 THEN "waiting" ELSE "denied"
<1>1. /\ call \in Calls /\ call[k] \in Session!Call /\ call[k].at = "refused" /\ Open(k)
      /\ call' = [call EXCEPT ![k] = [call[k] EXCEPT !.at = at]]
      /\ refresh' = IF asks THEN [at |-> "asked", tok |-> phone.tok, new |-> 0] ELSE refresh
      /\ UNCHANGED <<pairs, phone, saved, signin, lost, reused>>
  BY DEF Session!JoinRefresh, Session!RefreshPair, SessionInv, SessionTyped, Calls, Open
<1>a. /\ at \in {"waiting", "denied"}
      /\ at = "waiting" => asks \/ refresh.at # "idle"
      /\ at = "denied" => phone.tok = 0 /\ refresh.at = "idle" /\ ~asks
  OBVIOUS
<1> HIDE DEF at
<1>2. [call[k] EXCEPT !.at = at] \in Session!Call
  BY <1>1, <1>a DEF Session!Call
<1>3. /\ call' \in Calls /\ \A j \in Session!Kinds \ {k} : call'[j] = call[j]
      /\ call'[k] = [call[k] EXCEPT !.at = at]
  BY <1>1, <1>2 DEF Calls
<1>4. call'[k].at = at /\ call'[k].tok = call[k].tok
  BY <1>1, <1>3 DEF Session!Call
<1>5. /\ asks => refresh'.at = "asked" /\ refresh'.tok = phone.tok /\ refresh'.new = 0
      /\ ~asks => refresh' = refresh
      /\ refresh' \in Refreshes
  BY <1>1, NumbersAre DEF SessionInv, SessionTyped, Refreshes, Phones
<1>6. SessionTyped'
  BY <1>1, <1>3, <1>5 DEF SessionInv, SessionTyped
<1>k. \A j \in Session!Kinds : (Open(j)' <=> Open(j)) /\ call'[j].tok = call[j].tok
  BY <1>1, <1>3, <1>4, <1>a DEF Open
<1>q. ~Session!Quiet
  BY <1>1 DEF Session!Quiet, Open
<1>s. Session!SignedIn' <=> Session!SignedIn
  BY <1>1 DEF Session!SignedIn
<1>p. /\ \A t : InPlay(t)' => InPlay(t)
      /\ \A t : (Dead(t)' <=> Dead(t)) /\ (Good(t)' <=> Good(t)) /\ (Issued(t)' <=> Issued(t))
  BY <1>1, <1>5, <1>k DEF InPlay, Dead, Good, Issued
<1>o. Over => Over'
  BY <1>p DEF Over
<1>7. Numbered' /\ OneSession'
  BY <1>1, <1>5, <1>k, <1>p, IssuedNumbers DEF SessionInv, Numbered, OneSession
<1>8. Carried'
  BY <1>1, <1>3, <1>4, <1>5, <1>a, <1>k DEF SessionInv, Carried
<1>9. AtRest'
  BY <1>1, <1>k, <1>q, <1>s, KindsAre DEF SessionInv, AtRest
<1>10. Cut'
  BY <1>1, <1>3, <1>4, <1>5, <1>a, <1>p DEF SessionInv, Cut
<1>11. Loading'
  <2>1. signin.at = "loading" /\ ~Dead(signin.tok) => call[k].tok = signin.tok /\ signin.tok \in pairs.cut
    BY <1>1 DEF SessionInv, Loading, Cut
  <2>2. signin.at = "loading" => Dead(signin.tok)
    BY <2>1 DEF SessionInv, Cut
  <2> QED
    BY <1>1, <1>p, <2>2 DEF Loading
<1>12. Renewable'
  BY <1>1, <1>5, <1>p DEF SessionInv, Renewable
<1>13. NoAnswerLost'
  <2>1. asks /\ "answer" \notin lost => ~(\E j \in Session!Kinds : call[j].at = "denied") \/ Over
    BY DEF SessionInv, NoAnswerLost
  <2>2. (\E j \in Session!Kinds : call'[j].at = "denied") => (\E j \in Session!Kinds : call[j].at = "denied") \/ at = "denied"
    BY <1>3, <1>4
  <2>3. \A j \in Session!Kinds : /\ call'[j].at = "failed" => call[j].at = "failed"
                                 /\ call'[j].at = "ok" => call[j].at = "ok"
    BY <1>3, <1>4, <1>a
  <2>4. "answer" \notin lost /\ phone.tok = 0 /\ signin.at = "loading" => Over
    BY DEF SessionInv, NoAnswerLost
  <2>5. ~asks /\ phone.tok # 0 => refresh.at # "idle"
    OBVIOUS
  <2> HIDE DEF asks
  <2>6. "answer" \notin lost' => refresh'.at # "failed" /\ \A j \in Session!Kinds : call'[j].at # "failed"
    BY <1>1, <1>5, <2>3 DEF SessionInv, NoAnswerLost
  <2>7. "answer" \notin lost' => \A j \in {"logout", "end"} : (call[j].at = "ok" => Dead(call[j].tok))'
    BY <1>k, <1>p, <1>1, <2>3, KindsAre DEF SessionInv, NoAnswerLost
  <2>8. "answer" \notin lost' => (phone'.tok = 0 /\ refresh'.at \in {"asked", "ok"} => Over')
    BY <1>1, <1>5, <1>o DEF SessionInv, NoAnswerLost, asks
  <2>9. "answer" \notin lost' => (phone'.tok = 0 /\ signin'.at = "loading" => Over')
    BY <1>1, <1>o, <2>4
  <2>10. "answer" \notin lost' /\ (\E j \in Session!Kinds : call'[j].at = "denied") =>
           Over' \/ (phone'.tok = 0 /\ refresh'.at = "idle" /\ signin'.at # "loading")
    <3>1. CASE at = "denied"
      BY <1>1, <1>5, <1>a, <1>o, <2>4, <3>1
    <3>2. CASE at # "denied"
      BY <1>1, <1>5, <1>o, <2>1, <2>2, <3>2 DEF SessionInv, NoAnswerLost
    <3> QED
      BY <3>1, <3>2
  <2> QED
    BY <2>6, <2>7, <2>8, <2>9, <2>10 DEF NoAnswerLost
<1>14. Silent'
  BY <1>1 DEF SessionInv, Silent
<1> QED
  BY <1>6, <1>7, <1>8, <1>9, <1>10, <1>11, <1>12, <1>13, <1>14 DEF SessionInv

-----------------------------------------------------------------------------

(* The server refuses a renewal.                                           *)
Refuses ==
  /\ UNCHANGED <<phone, saved, call, signin, lost>>
  /\ Sound(pairs') /\ Later(pairs, pairs') /\ pairs'.used = pairs.used /\ pairs'.cut = pairs.cut
  /\ refresh.at = "asked" /\ refresh'.at = "denied"
  /\ refresh'.tok = refresh.tok /\ refresh'.new = refresh.new
  /\ reused' => "pair" \in lost

LEMMA RefusesKeeps ==
  ASSUME SessionInv, SessionTyped', Refuses
  PROVE  SessionInv'
<1>0. /\ \A t : Issued(t) => Issued(t)'
      /\ \A t \in 1..pairs.issued : pairs'.family[t] = pairs.family[t]
      /\ \A t \in 1..pairs.issued : Dead(t) => Dead(t)'
      /\ \A t : Issued(t) /\ Good(t) => Good(t)'
  BY LaterKnows DEF Refuses
<1>p. /\ \A t : InPlay(t)' => InPlay(t)
      /\ ~Session!Quiet
      /\ Session!SignedIn' <=> Session!SignedIn
  BY DEF Refuses, InPlay, Open, Session!Quiet, Session!SignedIn
<1>k. \A k : Open(k)' <=> Open(k)
  BY DEF Refuses, Open
<1>o. Over => Over'
  BY <1>0, <1>p, InPlayIsIssued DEF Over
<1>i. /\ \A k \in Session!Kinds : Open(k) => call[k].tok \in 1..pairs.issued
      /\ signin.at \in {"ok", "loading"} => signin.tok \in 1..pairs.issued
  BY IssuedNumbers DEF SessionInv, Carried, Numbered, Issued
<1>1. Numbered'
  BY <1>0 DEF SessionInv, Numbered, Refuses
<1>2. AtRest'
  BY <1>p, <1>k DEF SessionInv, AtRest, Refuses
<1>3. Carried'
  BY <1>k DEF SessionInv, Carried, Refuses
<1>4. Cut'
  BY <1>0, <1>k, <1>i DEF SessionInv, Cut, Refuses, Open
<1>5. Loading'
  BY <1>0, <1>k, <1>i DEF SessionInv, Loading, Refuses
<1>6. Renewable'
  BY <1>0 DEF SessionInv, Renewable, Numbered, Refuses
<1>7. OneSession'
  BY <1>0, <1>p, InPlayIsIssued DEF SessionInv, OneSession
<1>8. NoAnswerLost'
  <2>1. "answer" \notin lost => \A k \in {"logout", "end"} : (call[k].at = "ok" => Dead(call[k].tok))'
    BY <1>0, <1>i, KindsAre DEF SessionInv, NoAnswerLost, Refuses, Open
  <2> QED
    BY <2>1, <1>o DEF SessionInv, NoAnswerLost, Refuses
<1>9. Silent'
  BY DEF Silent, Refuses
<1> QED
  BY <1>1, <1>2, <1>3, <1>4, <1>5, <1>6, <1>7, <1>8, <1>9 DEF SessionInv

LEMMA RefreshErrsKeeps ==
  ASSUME SessionInv, Session!RefreshErrs
  PROVE  SessionInv'
<1>1. /\ refresh \in Refreshes /\ refresh.at = "asked"
      /\ refresh' = [refresh EXCEPT !.at = "denied"]
      /\ UNCHANGED <<pairs, phone, saved, call, signin, lost, reused>>
  BY DEF Session!RefreshErrs, SessionInv, SessionTyped
<1>2. refresh' \in Refreshes /\ refresh'.at = "denied" /\ refresh'.tok = refresh.tok /\ refresh'.new = refresh.new
  BY <1>1 DEF Refreshes
<1>3. SessionTyped'
  BY <1>1, <1>2 DEF SessionInv, SessionTyped
<1>4. Refuses
  BY <1>1, <1>2, IssuedNumbers DEF SessionInv, Numbered, Refuses, Later, Silent
<1> QED
  BY <1>3, <1>4, RefusesKeeps

LEMMA RefreshTimesOutKeeps ==
  ASSUME SessionInv, Session!RefreshTimesOut
  PROVE  SessionInv'
<1>1. /\ refresh \in Refreshes /\ refresh.at \in {"asked", "ok"}
      /\ refresh' = [refresh EXCEPT !.at = "failed"]
      /\ lost' = lost \union (IF refresh.at = "ok" THEN {"answer", "pair"} ELSE {"answer"})
      /\ UNCHANGED <<pairs, phone, saved, call, signin, reused>>
  BY DEF Session!RefreshTimesOut, SessionInv, SessionTyped
<1>2. refresh' \in Refreshes /\ refresh'.at = "failed" /\ refresh'.tok = refresh.tok /\ refresh'.new = refresh.new
  BY <1>1 DEF Refreshes
<1>3. /\ lost' \in SUBSET {"answer", "pair", "beside"} /\ "answer" \in lost' /\ lost \subseteq lost'
      /\ refresh.at = "ok" => "pair" \in lost'
  BY <1>1 DEF SessionInv, SessionTyped
<1>4. SessionTyped'
  BY <1>1, <1>2, <1>3 DEF SessionInv, SessionTyped
<1>p. /\ \A t : InPlay(t)' <=> InPlay(t)
      /\ \A t : (Dead(t)' <=> Dead(t)) /\ (Good(t)' <=> Good(t)) /\ (Issued(t)' <=> Issued(t))
      /\ \A k : Open(k)' <=> Open(k)
      /\ ~Session!Quiet
  BY <1>1, <1>2 DEF InPlay, Dead, Good, Issued, Open, Session!Quiet
<1>5. Numbered' /\ OneSession' /\ Loading' /\ Carried'
  BY <1>1, <1>2, <1>p DEF SessionInv, Numbered, OneSession, Loading, Carried
<1>s. Session!SignedIn' <=> Session!SignedIn
  BY <1>1 DEF Session!SignedIn
<1>6. AtRest'
  BY <1>1, <1>2, <1>p, <1>s DEF SessionInv, AtRest
<1>7. Cut'
  BY <1>1, <1>2, <1>p DEF SessionInv, Cut
<1>8. Renewable' /\ NoAnswerLost' /\ Silent'
  BY <1>1, <1>2, <1>3, <1>p DEF SessionInv, Renewable, NoAnswerLost, Silent, AtRest
<1> QED
  BY <1>4, <1>5, <1>6, <1>7, <1>8 DEF SessionInv

LEMMA RefreshServeKeeps ==
  ASSUME SessionInv, Session!RefreshServe
  PROVE  SessionInv'
<1>t. PICK t : t = refresh.tok
  OBVIOUS
<1>1. /\ refresh \in Refreshes /\ refresh.at = "asked" /\ refresh.new = 0
      /\ UNCHANGED <<phone, saved, call, signin, lost>>
      /\ t \in 1..pairs.issued /\ t \in Session!Ids /\ InPlay(t)
      /\ Sound(pairs)
  BY <1>t, IssuedNumbers DEF Session!RefreshServe, SessionInv, SessionTyped, Carried, Numbered, Issued, InPlay
<1>2. CASE Session!Redeemable(pairs, t)
  <2>1. /\ pairs.issued < PhonePairs /\ pairs' = Session!Rotated(pairs, t)
        /\ refresh' = [refresh EXCEPT !.at = "ok", !.new = pairs.issued + 1]
        /\ reused' = reused
    BY <1>2, <1>t DEF Session!RefreshServe
  <2>2. /\ Sound(pairs') /\ Later(pairs, pairs')
        /\ pairs'.issued = pairs.issued + 1 /\ pairs'.used = pairs.used \union {t}
        /\ pairs'.revoked = pairs.revoked /\ pairs'.cut = pairs.cut
        /\ pairs'.family[pairs.issued + 1] = pairs.family[t]
    BY <1>1, <2>1, RotatedPairs
  <2>n. PICK n : n = pairs.issued + 1
    OBVIOUS
  <2>3. /\ n \in Session!Held /\ n # 0 /\ n \notin 1..pairs.issued /\ n \notin pairs'.used /\ n \notin pairs'.cut
        /\ n \in 0..pairs'.issued
    BY <1>1, <2>1, <2>2, <2>n, IssuedNumbers, NumbersAre DEF Sound
  <2>4. refresh' \in Refreshes /\ refresh'.at = "ok" /\ refresh'.tok = t /\ refresh'.new = n
    BY <1>1, <1>t, <2>1, <2>n, <2>3 DEF Refreshes
  <2>5. SessionTyped'
    BY <1>1, <2>1, <2>4 DEF SessionInv, SessionTyped
  <2>6. /\ \A u : Issued(u) => Issued(u)'
        /\ \A u \in 1..pairs.issued : pairs'.family[u] = pairs.family[u]
        /\ \A u \in 1..pairs.issued : Dead(u) => Dead(u)'
    BY <2>2, LaterKnows
  <2>7. ~Dead(t) /\ ~Over
    BY <1>1, <1>2 DEF Session!Redeemable, Dead, Over
  <2>8. /\ \A u : InPlay(u)' => InPlay(u) \/ u = n
        /\ \A k : Open(k)' <=> Open(k)
        /\ ~Session!Quiet
        /\ \A u : Issued(u) /\ Good(u) /\ u # t => Good(u)'
    <3>1. \A u : InPlay(u)' => InPlay(u) \/ u = n
      BY <1>1, <1>t, <2>4 DEF InPlay, Open
    <3>2. \A u : Issued(u) => u = 0 \/ u \in 1..pairs.issued
      BY IssuedNumbers DEF Issued
    <3>3. \A u : Issued(u) /\ Good(u) /\ u # t => Good(u)'
      BY <2>2, <2>6, <3>2 DEF Good
    <3> QED
      BY <1>1, <3>1, <3>3 DEF Open, Session!Quiet
  <2>i. /\ \A k \in Session!Kinds : Open(k) => call[k].tok \in 1..pairs.issued
        /\ signin.at \in {"ok", "loading"} => signin.tok \in 1..pairs.issued
    BY IssuedNumbers DEF SessionInv, Carried, Numbered, Issued
  <2>9. Numbered'
    BY <1>1, <1>t, <2>2, <2>3, <2>4, <2>6 DEF SessionInv, Numbered, Issued
  <2>s. Session!SignedIn' <=> Session!SignedIn
    BY <1>1 DEF Session!SignedIn
  <2>10. AtRest'
    BY <1>1, <2>4, <2>8, <2>s DEF SessionInv, AtRest
  <2>11. Carried'
    BY <1>1, <1>t, <2>3, <2>4, <2>8 DEF SessionInv, Carried
  <2>12. Cut'
    BY <1>1, <2>2, <2>3, <2>4, <2>6, <2>i DEF SessionInv, Cut, Open
  <2>13. signin.at = "loading" => Dead(signin.tok)
    BY <1>1 DEF SessionInv, Loading
  <2>14. Loading'
    BY <1>1, <2>6, <2>13, <2>i DEF Loading
  <2>15. Renewable'
    <3>1. signin.at \in {"ok", "loading"} => signin.at = "loading"
      BY <2>8 DEF SessionInv, AtRest
    <3>2. signin.at = "loading" => Good(signin.tok)'
      BY <1>1, <2>6, <2>13, <2>i DEF Good
    <3>3. Good(refresh.new)'
      BY <2>3, <2>4 DEF Good
    <3> QED
      BY <1>1, <2>4, <2>8, <3>1, <3>2, <3>3 DEF SessionInv, Renewable, AtRest
  <2>16. OneSession'
    <3>1. \A u : InPlay(u)' => u \in 1..pairs.issued \/ u = n
      BY <2>8, InPlayIsIssued
    <3>2. \A u : InPlay(u)' => pairs'.family[u] = pairs.family[t]
      BY <1>1, <2>2, <2>n, <2>6, <2>8, InPlayIsIssued DEF SessionInv, OneSession
    <3> QED
      BY <3>2 DEF OneSession
  <2>17. NoAnswerLost'
    <3>1. "answer" \notin lost => \A k \in {"logout", "end"} : (call[k].at = "ok" => Dead(call[k].tok))'
      BY <1>1, <2>6, <2>i, KindsAre DEF SessionInv, NoAnswerLost, Open
    <3> QED
      BY <1>1, <2>4, <2>7, <3>1 DEF SessionInv, NoAnswerLost
  <2>18. Silent'
    BY <1>1, <2>1 DEF SessionInv, Silent
  <2> QED
    BY <2>5, <2>9, <2>10, <2>11, <2>12, <2>14, <2>15, <2>16, <2>17, <2>18 DEF SessionInv
<1>3. CASE ~Session!Redeemable(pairs, t)
  <2>1. /\ pairs' = Session!Rejected(pairs, t)
        /\ reused' = (reused \/ Session!Alarming(pairs, t))
        /\ refresh' = [refresh EXCEPT !.at = "denied"]
    BY <1>3, <1>t DEF Session!RefreshServe
  <2>2. /\ Sound(pairs') /\ Later(pairs, pairs')
        /\ pairs'.used = pairs.used /\ pairs'.cut = pairs.cut
    BY <1>1, <2>1, RejectedPairs
  <2>3. refresh' \in Refreshes /\ refresh'.at = "denied" /\ refresh'.tok = refresh.tok /\ refresh'.new = refresh.new
    BY <1>1, <2>1 DEF Refreshes
  <2>4. Session!Alarming(pairs, t) => "pair" \in lost
    BY <1>1, <1>t DEF SessionInv, Renewable, Good, Dead, Session!Alarming
  <2>5. reused' \in BOOLEAN /\ (reused' => "pair" \in lost)
    BY <2>1, <2>4 DEF SessionInv, SessionTyped, Silent
  <2>6. SessionTyped'
    BY <1>1, <2>3, <2>5 DEF SessionInv, SessionTyped
  <2>7. Refuses
    BY <1>1, <2>2, <2>3, <2>5 DEF Refuses
  <2> QED
    BY <2>6, <2>7, RefusesKeeps
<1> QED
  BY <1>2, <1>3

LEMMA RefreshSettlesKeeps ==
  ASSUME SessionInv, Session!RefreshSettles
  PROVE  SessionInv'
<1> DEFINE resumed == [k \in Session!Kinds |-> Session!Resumed(call[k])]
<1>1. /\ phone \in Phones /\ call \in Calls /\ refresh \in Refreshes
      /\ refresh.at \in {"ok", "denied", "failed"} /\ refresh' = Session!NoRefresh
      /\ phone' = CASE refresh.at = "ok"     -> Session!Settled([phone EXCEPT !.tok = refresh.new])
                    [] refresh.at = "denied" -> Session!Cleared(phone)
                    [] refresh.at = "failed" -> phone
      /\ call' = IF refresh.at = "denied" THEN Session!ClearCalls(resumed) ELSE resumed
      /\ UNCHANGED <<pairs, saved, lost, reused>>
  BY DEF Session!RefreshSettles, SessionInv, SessionTyped
\* The sign-in, if it waits too.
<1>s. /\ signin' \in Signins /\ signin'.tok = signin.tok
      /\ signin.at # "waiting" => signin' = signin
      /\ signin.at = "waiting" => signin'.at \in {"again", "denied"}
  BY DEF Session!RefreshSettles, SessionInv, SessionTyped, Signins
<1>2. /\ refresh' \in Refreshes /\ refresh'.at = "idle" /\ refresh'.tok = 0 /\ refresh'.new = 0
  BY <1>1, NothingOut
\* The calls.
<1>3. ASSUME NEW k \in Session!Kinds
      PROVE  /\ resumed[k] \in Session!Call
             /\ call[k].at # "waiting" => resumed[k] = call[k]
             /\ call[k].at = "waiting" =>
                  /\ refresh.at = "ok" => resumed[k].at = "again" /\ resumed[k].tok = refresh.new
                  /\ refresh.at = "denied" => resumed[k].at = "denied" /\ resumed[k].tok = call[k].tok
                  /\ refresh.at = "failed" => resumed[k].at = "failed" /\ resumed[k].tok = call[k].tok
  <2>1. call[k] \in Session!Call /\ refresh.new \in Session!Held /\ resumed[k] = Session!Resumed(call[k])
    BY <1>1 DEF Calls, Refreshes
  <2> QED
    BY <1>1, <2>1 DEF Session!Resumed, Session!Call
<1>4. resumed \in Calls
  BY <1>3 DEF Calls
<1> HIDE DEF resumed
<1>5. /\ call' \in Calls
      /\ \A k \in Session!Kinds : call'[k] = resumed[k] \/ call'[k] = Session!NoCall
      /\ refresh.at = "denied" => call'["check"] = Session!NoCall
      /\ refresh.at # "denied" => call' = resumed
  BY <1>1, <1>4, ClearedCalls, KindsAre
<1>6. ASSUME NEW k \in Session!Kinds
      PROVE  /\ Open(k)' => Open(k)
             /\ Open(k)' => (call'[k].at = call[k].at /\ call'[k].tok = call[k].tok)
                  \/ (refresh.at = "ok" /\ call'[k].at = "again" /\ call'[k].tok = refresh.new)
                  \/ (refresh.at = "denied" /\ call'[k].at = "denied" /\ call'[k].tok = call[k].tok)
                  \/ (refresh.at = "failed" /\ call'[k].at = "failed" /\ call'[k].tok = call[k].tok)
             /\ call'[k].tok \in {0, call[k].tok, refresh.new}
             /\ call'[k].at # "waiting"
  BY <1>1, <1>3, <1>5, NothingOut DEF Open
\* The store.
<1>7. /\ phone' \in Phones
      /\ phone'.hydrated = phone.hydrated /\ phone'.gaveUp = phone.gaveUp
      /\ phone.ready => phone'.ready
      /\ phone'.ready => phone.ready \/ phone.gaveUp \/ phone.hydrated
      /\ refresh.at = "ok" => phone'.tok = refresh.new /\ phone'.user = phone.user
      /\ refresh.at = "denied" => phone'.tok = 0
      /\ refresh.at = "failed" => phone'.tok = phone.tok /\ phone'.user = phone.user
  <2> DEFINE q == [phone EXCEPT !.tok = refresh.new]
  <2>1. refresh.new \in Session!Held
    BY <1>1 DEF Refreshes
  <2>2. q \in Phones
    BY <1>1, <2>1 DEF Phones
  <2>3. /\ q.tok = refresh.new /\ q.user = phone.user /\ q.hydrated = phone.hydrated
        /\ q.ready = phone.ready /\ q.gaveUp = phone.gaveUp
    BY <1>1 DEF Phones
  <2>4. \/ refresh.at = "ok" /\ phone' = Session!Settled(q)
        \/ refresh.at = "denied" /\ phone' = Session!Cleared(phone)
        \/ refresh.at = "failed" /\ phone' = phone
    BY <1>1
  <2> HIDE DEF q
  <2> QED
    BY <1>1, <2>2, <2>3, <2>4, SettledPhone, ClearedPhone
<1>8. SessionTyped'
  BY <1>1, <1>s, <1>2, <1>5, <1>7 DEF SessionInv, SessionTyped
<1>p. /\ \A t : InPlay(t)' => InPlay(t)
      /\ \A t : (Dead(t)' <=> Dead(t)) /\ (Good(t)' <=> Good(t)) /\ (Issued(t)' <=> Issued(t))
      /\ ~Session!Quiet
      /\ signin'.at = "loading" <=> signin.at = "loading"
      /\ signin'.at \in {"ok", "loading"} <=> signin.at \in {"ok", "loading"}
  <2>1. \A t : InPlay(t)' => InPlay(t)
    BY <1>1, <1>s, <1>2, <1>6, <1>7 DEF InPlay
  <2> QED
    BY <1>1, <1>s, <2>1 DEF Dead, Good, Issued, Session!Quiet
<1>o. Over => Over'
  BY <1>p DEF Over
<1>d. signin.at = "loading" => Dead(signin.tok) /\ Over
  <2>1. signin.at = "loading" => Dead(signin.tok) /\ InPlay(signin.tok)
    BY <1>1 DEF SessionInv, Loading, InPlay, Carried
  <2>2. signin.at = "loading" => Over
    BY <2>1, InPlayIsIssued DEF SessionInv, OneSession, Over, Dead
  <2> QED
    BY <2>1, <2>2
<1>9. Numbered'
  BY <1>1, <1>s, <1>2, <1>6, <1>7, <1>p, IssuedNumbers DEF SessionInv, Numbered
<1>10. AtRest'
  <2>1. signin.at = "waiting" => Session!Quiet' /\ ~Session!SignedIn'
    BY <1>1, <1>2, <1>6, <1>7 DEF SessionInv, AtRest, Session!Quiet, Session!SignedIn, Open
  <2> QED
    BY <1>1, <1>s, <1>6, <1>7, <1>p, <2>1, KindsAre DEF SessionInv, AtRest
<1>11. Carried'
  BY <1>1, <1>s, <1>2, <1>6, <1>p DEF SessionInv, Carried
<1>12. Cut'
  <2>1. \A k \in Session!Kinds : (call[k].at = "refused" => call[k].tok \in pairs.cut)'
    BY <1>1, <1>6 DEF SessionInv, Cut, Open
  <2>2. \A k \in Session!Kinds : (call[k].at = "again" /\ call[k].tok \in pairs.cut => Dead(call[k].tok))'
    BY <1>1, <1>6, <1>p DEF SessionInv, Cut, Open
  <2> QED
    BY <1>1, <1>s, <1>2, <1>p, <2>1, <2>2 DEF SessionInv, Cut
<1>13. Loading'
  BY <1>1, <1>s, <1>d, <1>p DEF Loading
<1>14. Renewable'
  BY <1>1, <1>s, <1>2, <1>7, <1>p DEF SessionInv, Renewable, AtRest, Good
<1>15. OneSession'
  BY <1>1, <1>p DEF SessionInv, OneSession
<1>16. NoAnswerLost'
  <2>1. "answer" \notin lost => refresh.at # "failed" /\ \A k \in Session!Kinds : call'[k].at # "failed"
    BY <1>6, <1>1 DEF SessionInv, NoAnswerLost, Open
  <2>2. "answer" \notin lost => \A k \in {"logout", "end"} : (call[k].at = "ok" => Dead(call[k].tok))'
    BY <1>6, <1>p, KindsAre DEF SessionInv, NoAnswerLost, Open
  <2>3. "answer" \notin lost /\ refresh.at = "ok" =>
          ((\E k \in Session!Kinds : call'[k].at = "denied") => Over)
    <3>1. \A k \in Session!Kinds : call'[k].at = "denied" /\ refresh.at = "ok" => call[k].at = "denied"
      BY <1>6 DEF Open
    <3> QED
      BY <3>1 DEF SessionInv, NoAnswerLost
  <2> QED
    BY <1>1, <1>2, <1>7, <1>d, <1>o, <1>p, <2>1, <2>2, <2>3 DEF SessionInv, NoAnswerLost, Carried
<1>17. Silent'
  BY <1>1 DEF SessionInv, Silent
<1> QED
  BY <1>8, <1>9, <1>10, <1>11, <1>12, <1>13, <1>14, <1>15, <1>16, <1>17 DEF SessionInv

-----------------------------------------------------------------------------

LEMMA LogInKeeps ==
  ASSUME SessionInv, NEW how \in Session!Ways, Session!LogIn(how), "beside" \notin lost'
  PROVE  SessionInv'
<1>1. /\ phone.ready /\ ~Session!SignedIn /\ signin.at = "idle" /\ Session!Quiet
      /\ signin' = [at |-> "asked", how |-> how, carries |-> phone.tok # 0, tok |-> 0]
      /\ lost' = lost /\ UNCHANGED <<pairs, phone, saved, call, refresh, reused>>
  BY DEF Session!LogIn, Session!AtLogin
<1>2. signin' \in Signins /\ signin'.at = "asked" /\ signin'.tok = 0
  BY <1>1, NumbersAre DEF Signins
<1>p. /\ \A t : InPlay(t)' <=> InPlay(t)
      /\ \A t : (Dead(t)' <=> Dead(t)) /\ (Good(t)' <=> Good(t)) /\ (Issued(t)' <=> Issued(t))
      /\ \A k : Open(k)' <=> Open(k)
      /\ \A k \in Session!Kinds : ~Open(k)
      /\ Session!Quiet' /\ ~Session!SignedIn'
  BY <1>1, <1>2 DEF InPlay, Dead, Good, Issued, Open, Session!Quiet, Session!SignedIn
<1>3. SessionTyped'
  BY <1>1, <1>2 DEF SessionInv, SessionTyped
<1>4. Numbered' /\ OneSession' /\ Loading' /\ Carried'
  BY <1>1, <1>2, <1>p, IssuedNumbers DEF SessionInv, Numbered, OneSession, Loading, Carried
<1>5. AtRest'
  BY <1>1, <1>2, <1>p, KindsAre DEF SessionInv, AtRest
<1>6. Cut' /\ Renewable' /\ Silent'
  BY <1>1, <1>2, <1>p DEF SessionInv, Cut, Renewable, Silent
<1>7. NoAnswerLost'
  BY <1>1, <1>2, <1>p, KindsAre DEF SessionInv, NoAnswerLost, Open, Session!Quiet
<1> QED
  BY <1>3, <1>4, <1>5, <1>6, <1>7 DEF SessionInv

LEMMA SigninServeKeeps ==
  ASSUME SessionInv, NEW a \in PhoneAccounts, Session!SigninServe(a)
  PROVE  SessionInv'
<1>n. PICK n : n = pairs.issued + 1
  OBVIOUS
<1>1. /\ signin.at \in {"asked", "again"} /\ signin \in Signins /\ pairs.issued < PhonePairs
      /\ pairs' = Session!Issue(pairs, a, 0)
      /\ signin' = [signin EXCEPT !.at = "ok", !.tok = n]
      /\ UNCHANGED <<phone, saved, call, refresh, lost, reused>>
      /\ Sound(pairs) /\ 0 \in 0..pairs.issued
  BY <1>n, IssuedNumbers DEF Session!SigninServe, SessionInv, SessionTyped, Numbered, Issued
<1>2. /\ Sound(pairs') /\ Later(pairs, pairs')
      /\ pairs'.issued = n /\ pairs'.used = pairs.used
      /\ pairs'.revoked = pairs.revoked /\ pairs'.cut = pairs.cut
  BY <1>1, <1>n, IssuedPairs
<1>3. /\ n \in Session!Held /\ n # 0 /\ n \notin pairs'.used /\ n \notin pairs'.cut /\ Issued(n)'
  BY <1>1, <1>2, <1>n, IssuedNumbers, NumbersAre DEF Sound, Issued
<1>4. signin' \in Signins /\ signin'.at = "ok" /\ signin'.tok = n
  BY <1>1, <1>3 DEF Signins
<1>5. SessionTyped'
  BY <1>1, <1>4 DEF SessionInv, SessionTyped
<1>6. /\ \A u : Issued(u) => Issued(u)'
      /\ \A u \in 1..pairs.issued : pairs'.family[u] = pairs.family[u]
      /\ \A u \in 1..pairs.issued : Dead(u) => Dead(u)'
      /\ \A u : Issued(u) /\ Good(u) => Good(u)'
  BY <1>2, LaterKnows
<1>p. /\ \A t : InPlay(t)' <=> InPlay(t)
      /\ \A k : Open(k)' <=> Open(k)
      /\ \A k \in Session!Kinds : ~Open(k)
      /\ Session!Quiet /\ Session!Quiet' /\ ~Session!SignedIn'
  BY <1>1, <1>4 DEF InPlay, Open, Session!Quiet, Session!SignedIn, SessionInv, AtRest
<1>o. Over => Over'
  BY <1>6, <1>p, InPlayIsIssued DEF Over
<1>7. Numbered'
  BY <1>1, <1>2, <1>3, <1>4, <1>6 DEF SessionInv, Numbered
<1>8. AtRest'
  BY <1>1, <1>4, <1>p, KindsAre DEF SessionInv, AtRest
<1>9. Carried' /\ Loading'
  BY <1>1, <1>3, <1>4, <1>p DEF SessionInv, Carried, Loading
<1>10. Cut'
  BY <1>1, <1>2, <1>3, <1>4, <1>p DEF Cut, Open, Session!Quiet
<1>11. Renewable'
  BY <1>1, <1>2, <1>3, <1>4, <1>6 DEF SessionInv, Renewable, Numbered, Good
<1>12. OneSession'
  BY <1>6, <1>p, InPlayIsIssued DEF SessionInv, OneSession
<1>13. NoAnswerLost'
  BY <1>1, <1>4, <1>p, <1>o, KindsAre DEF SessionInv, NoAnswerLost, Open, Session!Quiet
<1>14. Silent'
  BY <1>1 DEF SessionInv, Silent
<1> QED
  BY <1>5, <1>7, <1>8, <1>9, <1>10, <1>11, <1>12, <1>13, <1>14 DEF SessionInv

LEMMA SigninUnauthorizedKeeps ==
  ASSUME SessionInv, Session!SigninUnauthorized
  PROVE  SessionInv'
<1>1. /\ signin.at = "asked" /\ signin \in Signins /\ refresh \in Refreshes
      /\ Session!Quiet /\ refresh.at = "idle" /\ ~Session!SignedIn /\ signin.tok = 0
      /\ UNCHANGED <<pairs, phone, saved, call, lost, reused>>
      /\ phone.tok \in Session!Held /\ Issued(phone.tok)
  BY DEF Session!SigninUnauthorized, Session!Quiet, SessionInv, SessionTyped, AtRest, Carried, Numbered, Phones
\* It starts the renewal, unless the phone has no pair.
<1>2. /\ signin' \in Signins /\ signin'.tok = 0
      /\ \/ /\ phone.tok # 0 /\ signin'.at = "waiting" /\ refresh' \in Refreshes
            /\ refresh'.at = "asked" /\ refresh'.tok = phone.tok /\ refresh'.new = 0
         \/ phone.tok = 0 /\ signin'.at = "denied" /\ refresh' = refresh
  BY <1>1, NumbersAre DEF Session!SigninUnauthorized, Signins, Refreshes
<1>p. /\ \A t : InPlay(t)' => InPlay(t)
      /\ \A t : (Dead(t)' <=> Dead(t)) /\ (Good(t)' <=> Good(t)) /\ (Issued(t)' <=> Issued(t))
      /\ \A k : Open(k)' <=> Open(k)
      /\ \A k \in Session!Kinds : ~Open(k) /\ call[k].at = "idle"
      /\ ~Session!SignedIn'
      /\ signin'.at = "denied" => Session!Quiet'
  <2>1. \A t : InPlay(t)' => InPlay(t)
    BY <1>1, <1>2 DEF InPlay, Open
  <2> QED
    BY <1>1, <1>2, <2>1 DEF Dead, Good, Issued, Open, Session!Quiet, Session!SignedIn
<1>3. SessionTyped'
  BY <1>1, <1>2 DEF SessionInv, SessionTyped
<1>4. Numbered' /\ OneSession' /\ Loading' /\ Carried'
  BY <1>1, <1>2, <1>p, IssuedNumbers DEF SessionInv, Numbered, OneSession, Loading, Carried
<1>5. AtRest'
  BY <1>1, <1>2, <1>p, KindsAre DEF SessionInv, AtRest
<1>6. Cut' /\ Renewable' /\ Silent'
  BY <1>1, <1>2, <1>p DEF SessionInv, Cut, Renewable, Silent
<1>7. NoAnswerLost'
  BY <1>1, <1>2, <1>p, KindsAre DEF NoAnswerLost
<1> QED
  BY <1>3, <1>4, <1>5, <1>6, <1>7 DEF SessionInv

LEMMA SigninAnsweredKeeps ==
  ASSUME SessionInv, Session!SigninAnswered
  PROVE  SessionInv'
<1>t. PICK t : t = signin.tok
  OBVIOUS
<1>1. /\ signin.at = "ok" /\ signin \in Signins /\ phone \in Phones /\ call \in Calls
      /\ Session!Quiet /\ phone.ready /\ phone.hydrated /\ refresh.at = "idle"
      /\ UNCHANGED <<pairs, saved, refresh, lost, reused>>
      /\ t \in 1..pairs.issued /\ t \in Session!Ids /\ t \in Session!Held /\ t # 0
  BY <1>t, IssuedNumbers DEF Session!SigninAnswered, SessionInv, SessionTyped, AtRest, Carried, Numbered, Issued, Session!Quiet
<1>2. /\ "me" \in Session!Kinds
      /\ \A k \in Session!Kinds : ~Open(k)
  BY <1>1, KindsAre DEF Session!Quiet, Open
<1>3. /\ phone' \in Phones /\ phone'.tok = t
      /\ phone'.hydrated = phone.hydrated /\ phone'.gaveUp = phone.gaveUp
      /\ phone.ready => phone'.ready
  <2>1. CASE signin.how = "google"
    <3> DEFINE q == [phone EXCEPT !.tok = t, !.user = pairs.owner[t]]
    <3>1. pairs.owner[t] \in PhoneAccounts \union {Nobody}
      BY <1>1 DEF SessionInv, Numbered, Sound, Session!PairSets
    <3>2. q \in Phones
      BY <1>1, <3>1 DEF Phones
    <3>3. q.tok = t /\ q.hydrated = phone.hydrated /\ q.ready = phone.ready /\ q.gaveUp = phone.gaveUp
      BY <1>1 DEF Phones
    <3>4. phone' = Session!Settled(q)
      BY <1>t, <2>1 DEF Session!SigninAnswered
    <3> HIDE DEF q
    <3> QED
      BY <3>2, <3>3, <3>4, SettledPhone
  <2>2. CASE signin.how # "google"
    <3> DEFINE q == [phone EXCEPT !.tok = t]
    <3>2. q \in Phones
      BY <1>1 DEF Phones
    <3>3. q.tok = t /\ q.hydrated = phone.hydrated /\ q.ready = phone.ready /\ q.gaveUp = phone.gaveUp
      BY <1>1 DEF Phones
    <3>4. phone' = Session!Settled(q)
      BY <1>t, <2>2 DEF Session!SigninAnswered
    <3> HIDE DEF q
    <3> QED
      BY <3>2, <3>3, <3>4, SettledPhone
  <2> QED
    BY <2>1, <2>2
\* Google's answer ends the sign-in; the others load the account with the pair.
<1>4. \/ signin' = Session!NoSignin /\ call' = call
      \/ /\ signin' \in Signins /\ signin'.at = "loading" /\ signin'.tok = t
         /\ call' \in Calls /\ call'["me"].at = "asked" /\ call'["me"].tok = t
         /\ \A k \in Session!Kinds \ {"me"} : call'[k] = call[k]
  <2>1. CASE signin.how = "google"
    BY <2>1 DEF Session!SigninAnswered
  <2>2. CASE signin.how # "google"
    <3>1. signin' = [signin EXCEPT !.at = "loading"] /\ call' = [call EXCEPT !["me"] = Session!Asked(t)]
      BY <1>t, <2>2 DEF Session!SigninAnswered
    <3>2. Session!Asked(t) \in Session!Call /\ Session!Asked(t).at = "asked" /\ Session!Asked(t).tok = t
      BY <1>1 DEF Session!Asked, Session!Call, Phones
    <3> HIDE DEF Session!Asked
    <3>3. signin' \in Signins /\ signin'.at = "loading" /\ signin'.tok = t
      BY <1>1, <1>t, <3>1 DEF Signins
    <3> QED
      BY <1>1, <1>2, <3>1, <3>2, <3>3 DEF Calls
  <2> QED
    BY <2>1, <2>2
<1>5. SessionTyped'
  BY <1>1, <1>3, <1>4, NothingOut DEF SessionInv, SessionTyped
<1>k. \A k \in Session!Kinds : Open(k)' => k = "me" /\ call'[k].at = "asked" /\ call'[k].tok = t /\ signin'.at = "loading"
  BY <1>2, <1>4 DEF Open
<1>p. /\ \A u : InPlay(u)' => u = t
      /\ \A u : (Dead(u)' <=> Dead(u)) /\ (Good(u)' <=> Good(u)) /\ (Issued(u)' <=> Issued(u))
      /\ signin'.at \in {"idle", "loading"} /\ (signin'.at = "loading" => signin'.tok = t)
      /\ signin'.at = "idle" => signin'.tok = 0
  <2>1. /\ signin'.at \in {"idle", "loading"} /\ (signin'.at = "loading" => signin'.tok = t)
        /\ signin'.at = "idle" => signin'.tok = 0
    BY <1>4, NothingOut
  <2>2. \A u : InPlay(u)' => u = t
    BY <1>1, <1>3, <1>k, <2>1 DEF InPlay
  <2> QED
    BY <1>1, <2>1, <2>2 DEF Dead, Good, Issued
<1>6. Numbered'
  BY <1>1, <1>3, <1>4, <1>p, NothingOut, IssuedNumbers DEF SessionInv, Numbered, Issued
<1>7. AtRest'
  BY <1>1, <1>3, <1>k, <1>p, KindsAre DEF SessionInv, AtRest
<1>8. Carried'
  <2>1. \A k \in Session!Kinds : call'[k].at # "waiting"
    BY <1>k DEF Open
  <2> QED
    BY <1>1, <1>k, <1>p, <2>1 DEF SessionInv, Carried
<1>9. Cut'
  BY <1>1, <1>t, <1>k, <1>p DEF SessionInv, Cut, Open
<1>10. Loading'
  BY <1>1, <1>3, <1>k, <1>p DEF Loading
<1>11. Renewable'
  BY <1>1, <1>t, <1>3, <1>p DEF SessionInv, Renewable
<1>12. OneSession'
  BY <1>p DEF OneSession
<1>13. NoAnswerLost'
  <2>1. \A k \in Session!Kinds : call'[k].at \notin {"failed", "ok", "denied"}
    BY <1>k DEF Open
  <2> QED
    BY <1>1, <1>3, <2>1, KindsAre DEF NoAnswerLost
<1>14. Silent'
  BY <1>1 DEF SessionInv, Silent
<1> QED
  BY <1>5, <1>6, <1>7, <1>8, <1>9, <1>10, <1>11, <1>12, <1>13, <1>14 DEF SessionInv

LEMMA AccountLoadedKeeps ==
  ASSUME SessionInv, Session!AccountLoaded
  PROVE  SessionInv'
<1>t. PICK t : t = signin.tok
  OBVIOUS
<1>1. /\ signin.at = "loading" /\ phone \in Phones /\ call \in Calls /\ "me" \in Session!Kinds
      /\ call' = [call EXCEPT !["me"] = Session!NoCall] /\ signin' = Session!NoSignin
      /\ phone' = Session!Settled([phone EXCEPT !.tok = t, !.user = call["me"].who])
      /\ UNCHANGED <<pairs, saved, refresh, lost, reused>>
      /\ t \in Session!Held /\ t # 0 /\ InPlay(t) /\ Issued(t) /\ phone.ready /\ phone.hydrated
  BY <1>t, KindsAre, IssuedNumbers
     DEF Session!AccountLoaded, SessionInv, SessionTyped, Signins, Carried, InPlay, AtRest, Numbered
<1>2. /\ phone' \in Phones /\ phone'.tok = t
      /\ phone'.hydrated = phone.hydrated /\ phone'.gaveUp = phone.gaveUp
      /\ phone.ready => phone'.ready
  <2> DEFINE q == [phone EXCEPT !.tok = t, !.user = call["me"].who]
  <2>1. call["me"].who \in PhoneAccounts \union {Nobody}
    BY <1>1 DEF Calls, Session!Call
  <2>2. q \in Phones
    BY <1>1, <2>1 DEF Phones
  <2>3. q.tok = t /\ q.hydrated = phone.hydrated /\ q.ready = phone.ready /\ q.gaveUp = phone.gaveUp
    BY <1>1 DEF Phones
  <2>4. phone' = Session!Settled(q)
    BY <1>1
  <2> HIDE DEF q
  <2> QED
    BY <2>2, <2>3, <2>4, SettledPhone
<1>3. /\ call' \in Calls /\ call'["me"] = Session!NoCall
      /\ \A k \in Session!Kinds \ {"me"} : call'[k] = call[k]
  BY <1>1, NothingOut DEF Calls
<1>4. SessionTyped'
  BY <1>1, <1>2, <1>3, NothingOut DEF SessionInv, SessionTyped
<1>k. \A k \in Session!Kinds : /\ Open(k)' => Open(k) /\ call'[k] = call[k]
                               /\ ~Open(k)' => call'[k].tok = 0 \/ call'[k] = call[k]
  BY <1>3, NothingOut DEF Open
<1>m. ~Open("me")'
  BY <1>3, NothingOut DEF Open
<1>s. signin'.at = "idle" /\ signin'.tok = 0
  BY <1>1, NothingOut
<1>p. /\ \A u : InPlay(u)' => InPlay(u)
      /\ \A u : (Dead(u)' <=> Dead(u)) /\ (Good(u)' <=> Good(u)) /\ (Issued(u)' <=> Issued(u))
  <2>1. \A u : InPlay(u)' => InPlay(u)
    BY <1>1, <1>2, <1>k, <1>s DEF InPlay
  <2> QED
    BY <1>1, <2>1 DEF Dead, Good, Issued
<1>o. Over => Over'
  BY <1>p DEF Over
<1>5. Numbered'
  BY <1>1, <1>2, <1>k, <1>s, <1>p, IssuedNumbers DEF SessionInv, Numbered
<1>6. AtRest'
  BY <1>1, <1>2, <1>s, <1>m DEF SessionInv, AtRest
<1>7. Carried'
  BY <1>1, <1>k, <1>s, NothingOut DEF SessionInv, Carried, Open
<1>8. Cut' /\ Loading'
  BY <1>1, <1>k, <1>s, <1>p DEF SessionInv, Cut, Loading, Open
<1>9. Renewable'
  BY <1>1, <1>t, <1>2, <1>s, <1>p DEF SessionInv, Renewable
<1>10. OneSession'
  BY <1>1, <1>p DEF SessionInv, OneSession
<1>11. NoAnswerLost'
  BY <1>1, <1>2, <1>k, <1>s, <1>o, <1>p, KindsAre DEF SessionInv, NoAnswerLost, Open
<1>12. Silent'
  BY <1>1 DEF SessionInv, Silent
<1> QED
  BY <1>4, <1>5, <1>6, <1>7, <1>8, <1>9, <1>10, <1>11, <1>12 DEF SessionInv

LEMMA FreshPhone ==
  /\ Session!Fresh \in Phones /\ Session!Fresh.tok = 0 /\ ~Session!Fresh.hydrated
  /\ ~Session!Fresh.ready /\ ~Session!Fresh.gaveUp
BY NumbersAre DEF Session!Fresh, Phones

\* The app that starts has nothing under way.
LEMMA StartedKeeps ==
  ASSUME Sound(pairs'), Issued(saved)', lost' \in SUBSET {"answer", "pair", "beside"}, reused' \in BOOLEAN,
         phone' = Session!Fresh, call' = [k \in Session!Kinds |-> Session!NoCall],
         refresh' = Session!NoRefresh, signin' = Session!NoSignin,
         reused' => "pair" \in lost', "pair" \notin lost' => Good(saved)'
  PROVE  SessionInv'
<1>1. /\ call' \in Calls /\ \A k \in Session!Kinds : call'[k].at = "idle" /\ call'[k].tok = 0
      /\ "check" \in Session!Kinds /\ "me" \in Session!Kinds
  BY NothingOut, KindsAre DEF Calls
<1>2. /\ signin' \in Signins /\ signin'.at = "idle" /\ signin'.tok = 0
      /\ refresh' \in Refreshes /\ refresh'.at = "idle" /\ refresh'.tok = 0 /\ refresh'.new = 0
      /\ phone' \in Phones /\ phone'.tok = 0 /\ ~phone'.hydrated /\ ~phone'.ready /\ ~phone'.gaveUp
  BY NothingOut, FreshPhone
<1>3. \A u : ~InPlay(u)'
  BY <1>1, <1>2 DEF InPlay, Open
<1>4. Issued(0)'
  BY NumbersAre DEF Issued, Sound, Session!PairSets
<1>5. SessionTyped' /\ Numbered'
  BY <1>1, <1>2, <1>4 DEF SessionTyped, Numbered
<1>6. AtRest' /\ Carried'
  BY <1>1, <1>2 DEF AtRest, Carried, Open, Session!Quiet
<1>7. Cut' /\ Loading' /\ OneSession'
  BY <1>1, <1>2, <1>3 DEF Cut, Loading, OneSession
<1>8. Renewable' /\ Silent'
  BY <1>2 DEF Renewable, Silent, Good
<1>9. NoAnswerLost'
  BY <1>1, <1>2, KindsAre DEF NoAnswerLost
<1> QED
  BY <1>5, <1>6, <1>7, <1>8, <1>9 DEF SessionInv

LEMMA AppKillKeeps ==
  ASSUME SessionInv, Session!Kill
  PROVE  SessionInv'
<1>1. /\ lost' \in SUBSET {"answer", "pair", "beside"} /\ lost \subseteq lost'
      /\ "pair" \notin lost' => saved = phone.tok /\ refresh.at # "ok"
  BY DEF Session!Kill, SessionInv, SessionTyped
<1>2. "pair" \notin lost' => Good(saved)'
  BY <1>1 DEF Session!Kill, SessionInv, Renewable, Good, Dead
<1>3. Sound(pairs') /\ Issued(saved)'
  BY DEF Session!Kill, SessionInv, Numbered, Issued
<1>4. /\ phone' = Session!Fresh /\ call' = [k \in Session!Kinds |-> Session!NoCall]
      /\ refresh' = Session!NoRefresh /\ signin' = Session!NoSignin
      /\ reused' = reused
  BY DEF Session!Kill
<1>5. reused' \in BOOLEAN /\ (reused' => "pair" \in lost')
  BY <1>1, <1>4 DEF SessionInv, SessionTyped, Silent
<1> QED
  BY <1>1, <1>2, <1>3, <1>4, <1>5, StartedKeeps

LEMMA HydrateKeeps ==
  ASSUME SessionInv, Session!Hydrate
  PROVE  SessionInv'
<1> DEFINE q == [phone EXCEPT !.hydrated = TRUE, !.tok = saved]
<1>1. /\ ~phone.hydrated /\ phone \in Phones /\ phone' = Session!Settled(q)
      /\ UNCHANGED <<pairs, saved, call, refresh, signin, lost, reused>>
      /\ saved \in Session!Held /\ Issued(saved)
      /\ Session!Quiet /\ signin.at = "idle" /\ refresh.at = "idle"
  BY IssuedNumbers DEF Session!Hydrate, SessionInv, SessionTyped, Numbered, AtRest, Issued, Session!Quiet
<1>2. q \in Phones /\ q.tok = saved /\ q.hydrated
  BY <1>1 DEF Phones
<1> HIDE DEF q
<1>3. phone' \in Phones /\ phone'.tok = saved /\ phone'.hydrated
  BY <1>1, <1>2, SettledPhone
<1>4. /\ \A u : InPlay(u)' => u = saved
      /\ \A u : (Dead(u)' <=> Dead(u)) /\ (Good(u)' <=> Good(u)) /\ (Issued(u)' <=> Issued(u))
      /\ \A k \in Session!Kinds : ~Open(k)'
      /\ \A k : Open(k)' <=> Open(k)
      /\ Session!Quiet'
  BY <1>1, <1>3 DEF InPlay, Dead, Good, Issued, Open, Session!Quiet
<1>5. SessionTyped' /\ Numbered' /\ OneSession'
  BY <1>1, <1>3, <1>4 DEF SessionInv, SessionTyped, Numbered, OneSession
<1>6. AtRest' /\ Carried' /\ Cut' /\ Loading'
  BY <1>1, <1>3, <1>4, KindsAre DEF SessionInv, AtRest, Carried, Cut, Loading
<1>7. Renewable' /\ Silent'
  BY <1>1, <1>3, <1>4 DEF SessionInv, Renewable, Silent
<1>8. NoAnswerLost'
  BY <1>1, <1>4, KindsAre DEF NoAnswerLost, Open
<1> QED
  BY <1>5, <1>6, <1>7, <1>8 DEF SessionInv

-----------------------------------------------------------------------------

(* What Based says of each variable.                                       *)
PhoneWell == phone \in Phones /\ Issued(phone.tok)
CallsWell == call \in Calls /\ \A k \in Session!Kinds : Issued(call[k].tok)
RefreshWell == refresh \in Refreshes /\ Issued(refresh.tok) /\ Issued(refresh.new)
SigninWell == signin \in Signins /\ Issued(signin.tok) /\ (signin.at = "ok" => signin.tok # 0)
HistoryWell == lost \in SUBSET {"answer", "pair", "beside"} /\ reused \in BOOLEAN

LEMMA BasedParts ==
  Based <=> /\ Sound(pairs) /\ Issued(saved)
            /\ PhoneWell /\ CallsWell /\ RefreshWell /\ SigninWell /\ HistoryWell
BY DEF Based, SessionTyped, Numbered, PhoneWell, CallsWell, RefreshWell, SigninWell, HistoryWell

LEMMA BasedAgain ==
  ASSUME Sound(pairs'), Issued(saved)',
         PhoneWell', CallsWell', RefreshWell', SigninWell', HistoryWell'
  PROVE  Based'
BY DEF Based, SessionTyped, Numbered, PhoneWell, CallsWell, RefreshWell, SigninWell, HistoryWell

LEMMA BasedNumbers ==
  ASSUME Sound(pairs)
  PROVE  /\ pairs.issued \in Nat /\ pairs.issued <= PhonePairs /\ Issued(0)
         /\ \A t \in 0..pairs.issued : t \in Session!Held
         /\ \A t \in 1..pairs.issued : t \in Session!Ids
BY NumbersAre DEF Sound, Issued, Session!PairSets

LEMMA IssuedStays ==
  ASSUME Sound(pairs), Sound(pairs'), Later(pairs, pairs')
  PROVE  \A t : Issued(t) => Issued(t)'
BY NumbersAre DEF Sound, Later, Issued, Session!PairSets

\* One request is replaced by another that carries a pair given out.
LEMMA CallReplaced ==
  ASSUME CallsWell, UNCHANGED pairs, NEW k \in Session!Kinds,
         NEW c \in Session!Call, Issued(c.tok), call' = [call EXCEPT ![k] = c]
  PROVE  CallsWell'
<1>1. call' \in Calls /\ \A j \in Session!Kinds : call'[j] = call[j] \/ call'[j] = c
  BY DEF CallsWell, Calls
<1>2. \A t : Issued(t)' <=> Issued(t)
  BY DEF Issued
<1> QED
  BY <1>1, <1>2 DEF CallsWell

\* Requests end.
LEMMA CallsEnded ==
  ASSUME CallsWell, UNCHANGED pairs, Sound(pairs), call' \in Calls,
         \A k \in Session!Kinds : call'[k] = call[k] \/ call'[k] = Session!NoCall
  PROVE  CallsWell'
<1>1. \A t : Issued(t)' <=> Issued(t)
  BY DEF Issued
<1> QED
  BY <1>1, NothingOut, BasedNumbers DEF CallsWell

\* The store takes a pair given out, or keeps its own, and settles.
LEMMA StoreSettled ==
  ASSUME UNCHANGED pairs, NEW q \in Phones, Issued(q.tok), phone' = Session!Settled(q)
  PROVE  PhoneWell'
BY SettledPhone DEF PhoneWell, Issued

LEMMA StoreCleared ==
  ASSUME PhoneWell, Sound(pairs), UNCHANGED pairs, phone' = Session!Cleared(phone)
  PROVE  PhoneWell'
BY ClearedPhone, BasedNumbers DEF PhoneWell, Issued

LEMMA AskedWell ==
  ASSUME PhoneWell, NEW t \in Session!Held
  PROVE  Session!Asked(t) \in Session!Call /\ Session!Asked(t).tok = t
BY DEF PhoneWell, Phones, Session!Asked, Session!Call

\* The store and the root layout.
LEMMA LayoutBased ==
  ASSUME Based, \/ Session!Hydrate \/ Session!Persist \/ Session!StartCheck
                \/ Session!TryAgain \/ Session!GiveUp \/ Session!CheckDone
  PROVE  Based'
<1>b. /\ Sound(pairs) /\ Issued(saved) /\ PhoneWell /\ CallsWell /\ RefreshWell /\ SigninWell /\ HistoryWell
      /\ phone \in Phones /\ "check" \in Session!Kinds
  BY BasedParts, KindsAre DEF PhoneWell
<1>u. UNCHANGED <<pairs, refresh, signin, reused>> /\ lost' \in {lost, lost \union {"beside"}}
  BY DEF Session!Hydrate, Session!Persist, Session!StartCheck, Session!TryAgain, Session!GiveUp, Session!CheckDone
<1>i. \A t : Issued(t)' <=> Issued(t)
  BY <1>u DEF Issued
<1>1. Sound(pairs') /\ RefreshWell' /\ SigninWell' /\ HistoryWell'
  BY <1>b, <1>u, <1>i DEF RefreshWell, SigninWell, HistoryWell
<1>2. Issued(saved)'
  BY <1>b, <1>i DEF PhoneWell, Session!Hydrate, Session!Persist, Session!StartCheck, Session!TryAgain,
     Session!GiveUp, Session!CheckDone
<1>3. PhoneWell'
  <2>1. CASE Session!Hydrate
    <3> DEFINE q == [phone EXCEPT !.hydrated = TRUE, !.tok = saved]
    <3>1. q \in Phones /\ Issued(q.tok)
      BY <1>b, BasedNumbers DEF Phones, Issued
    <3> QED
      BY <1>u, <2>1, <3>1, StoreSettled DEF Session!Hydrate
  <2>2. CASE Session!GiveUp
    <3> DEFINE q == [phone EXCEPT !.gaveUp = TRUE]
    <3>1. q \in Phones /\ Issued(q.tok)
      BY <1>b DEF Phones, PhoneWell
    <3> QED
      BY <1>u, <2>2, <3>1, StoreSettled DEF Session!GiveUp
  <2>3. CASE Session!TryAgain
    BY <1>b, <1>i, <2>3 DEF Session!TryAgain, PhoneWell, Phones
  <2>4. CASE Session!CheckDone
    <3>1. CASE call["check"].at = "denied"
      BY <1>b, <1>u, <2>4, <3>1, StoreCleared DEF Session!CheckDone
    <3>2. CASE call["check"].at = "ok"
      <4> DEFINE q == [phone EXCEPT !.user = call["check"].who]
      <4>1. call["check"].who \in PhoneAccounts \union {Nobody}
        BY <1>b DEF CallsWell, Calls, Session!Call
      <4>2. q \in Phones /\ Issued(q.tok)
        BY <1>b, <4>1 DEF Phones, PhoneWell
      <4>3. phone' = Session!Settled(q)
        BY <2>4, <3>2 DEF Session!CheckDone
      <4> QED
        BY <1>u, <4>2, <4>3, StoreSettled
    <3>3. CASE call["check"].at = "failed"
      <4> DEFINE q == [phone EXCEPT !.checkFailed = TRUE]
      <4>2. q \in Phones /\ Issued(q.tok)
        BY <1>b DEF Phones, PhoneWell
      <4>3. phone' = Session!Settled(q)
        BY <2>4, <3>3 DEF Session!CheckDone
      <4> QED
        BY <1>u, <4>2, <4>3, StoreSettled
    <3> QED
      BY <2>4, <3>1, <3>2, <3>3 DEF Session!CheckDone
  <2>5. CASE Session!Persist \/ Session!StartCheck
    BY <1>b, <1>i, <2>5 DEF Session!Persist, Session!StartCheck, PhoneWell
  <2> QED
    BY <2>1, <2>2, <2>3, <2>4, <2>5
<1>4. CallsWell'
  <2> DEFINE c == Session!Asked(phone.tok)
  <2>1. CASE Session!StartCheck \/ Session!TryAgain
    <3>1. call' = [call EXCEPT !["check"] = c]
      BY <2>1 DEF Session!StartCheck, Session!TryAgain
    <3>2. c \in Session!Call /\ Issued(c.tok)
      BY <1>b, AskedWell DEF PhoneWell, Phones
    <3> QED
      BY <1>b, <1>u, <3>1, <3>2, CallReplaced
  <2>2. CASE Session!CheckDone
    BY <1>b, <1>u, <2>2, CallReplaced, NothingOut, BasedNumbers DEF Session!CheckDone
  <2>3. CASE Session!Hydrate \/ Session!Persist \/ Session!GiveUp
    BY <1>b, <1>i, <2>3 DEF Session!Hydrate, Session!Persist, Session!GiveUp, CallsWell
  <2> QED
    BY <2>1, <2>2, <2>3
<1> QED
  BY <1>1, <1>2, <1>3, <1>4, BasedAgain

\* The requests.
LEMMA RequestBased ==
  ASSUME Based, NEW k \in Session!Kinds,
         Session!Ask(k) \/ Session!TimeOut(k) \/ Session!JoinRefresh(k) \/ Session!Done(k)
  PROVE  Based'
<1>b. /\ Sound(pairs) /\ Issued(saved) /\ PhoneWell /\ CallsWell /\ RefreshWell /\ SigninWell /\ HistoryWell
      /\ phone \in Phones /\ call \in Calls /\ call[k] \in Session!Call /\ Issued(call[k].tok)
  BY BasedParts DEF PhoneWell, CallsWell, Calls
<1>u. UNCHANGED <<pairs, saved, signin, reused>> /\ lost' \in {lost, lost \union {"answer"}}
  BY DEF Session!Ask, Session!TimeOut, Session!JoinRefresh, Session!Done
<1>i. \A t : Issued(t)' <=> Issued(t)
  BY <1>u DEF Issued
<1>1. Sound(pairs') /\ Issued(saved)' /\ SigninWell' /\ HistoryWell'
  BY <1>b, <1>u, <1>i DEF SigninWell, HistoryWell
<1>2. RefreshWell'
  <2>1. CASE refresh' = [at |-> "asked", tok |-> phone.tok, new |-> 0]
    BY <1>b, <1>i, <2>1, BasedNumbers, NumbersAre DEF RefreshWell, Refreshes, PhoneWell, Phones
  <2>2. CASE refresh' = refresh
    BY <1>b, <1>i, <2>2 DEF RefreshWell
  <2> QED
    BY <2>1, <2>2 DEF Session!Ask, Session!TimeOut, Session!JoinRefresh, Session!Done, Session!RefreshPair
<1>3. CASE Session!Ask(k)
  <2>1. Session!Asked(phone.tok) \in Session!Call /\ Issued(Session!Asked(phone.tok).tok)
    BY <1>b, AskedWell DEF PhoneWell, Phones
  <2>2. CallsWell'
    BY <1>b, <1>u, <1>3, <2>1, CallReplaced DEF Session!Ask
  <2>3. PhoneWell'
    BY <1>b, <1>i, <1>3 DEF Session!Ask, PhoneWell
  <2> QED
    BY <1>1, <1>2, <2>2, <2>3, BasedAgain
<1>4. CASE Session!TimeOut(k) \/ Session!JoinRefresh(k)
  <2>1. PICK at \in {"failed", "waiting", "denied"} : call' = [call EXCEPT ![k] = [call[k] EXCEPT !.at = at]]
    BY <1>4 DEF Session!TimeOut, Session!JoinRefresh
  <2>2. [call[k] EXCEPT !.at = at] \in Session!Call /\ [call[k] EXCEPT !.at = at].tok = call[k].tok
    BY <1>b DEF Session!Call
  <2>3. CallsWell'
    BY <1>b, <1>u, <2>1, <2>2, CallReplaced
  <2>4. PhoneWell'
    BY <1>b, <1>i, <1>4 DEF Session!TimeOut, Session!JoinRefresh, PhoneWell
  <2> QED
    BY <1>1, <1>2, <2>3, <2>4, BasedAgain
<1>5. CASE Session!Done(k)
  <2> DEFINE after == [call EXCEPT ![k] = Session!NoCall]
             q == [phone EXCEPT !.user = call[k].who]
  <2>1. /\ call' = after \/ call' = Session!ClearCalls(after)
        /\ phone' = phone \/ phone' = Session!Cleared(phone) \/ phone' = Session!Settled(q)
    BY <1>5 DEF Session!Done
  <2>2. after \in Calls /\ \A j \in Session!Kinds : after[j] = call[j] \/ after[j] = Session!NoCall
    BY <1>b, NothingOut DEF Calls
  <2>3. q \in Phones /\ Issued(q.tok)
    BY <1>b DEF Phones, PhoneWell, Session!Call
  <2> HIDE DEF after, q
  <2>4. CallsWell'
    BY <1>b, <1>u, <2>1, <2>2, CallsEnded, ClearedCalls
  <2>5. PhoneWell'
    BY <1>b, <1>u, <1>i, <2>1, <2>3, StoreSettled, StoreCleared DEF PhoneWell
  <2> QED
    BY <1>1, <1>2, <2>4, <2>5, BasedAgain
<1> QED
  BY <1>3, <1>4, <1>5

\* The server gives out a pair or ends some; the phone hears nothing of it yet.
LEMMA ServerBased ==
  ASSUME Based, Sound(pairs'), Later(pairs, pairs'), UNCHANGED <<phone, saved, lost>>,
         reused' \in BOOLEAN, CallsWell', RefreshWell', SigninWell'
  PROVE  Based'
<1>1. PhoneWell' /\ HistoryWell' /\ Issued(saved)'
  BY BasedParts, IssuedStays DEF PhoneWell, HistoryWell
<1> QED
  BY <1>1, BasedAgain

LEMMA WellStays ==
  ASSUME Based, Sound(pairs'), Later(pairs, pairs')
  PROVE  /\ call' = call => CallsWell'
         /\ refresh' = refresh => RefreshWell'
         /\ signin' = signin => SigninWell'
<1>1. \A t : Issued(t) => Issued(t)'
  BY BasedParts, IssuedStays
<1> QED
  BY <1>1, BasedParts DEF CallsWell, RefreshWell, SigninWell

LEMMA ServeBased ==
  ASSUME Based, NEW k \in Session!Kinds, Session!Serve(k)
  PROVE  Based'
<1>t. PICK t : t = call[k].tok
  OBVIOUS
<1>b. /\ Sound(pairs) /\ CallsWell /\ HistoryWell
      /\ call \in Calls /\ call[k] \in Session!Call /\ Issued(t)
  BY <1>t, BasedParts DEF CallsWell, Calls
<1>u. UNCHANGED <<phone, saved, refresh, signin, lost, reused>>
  BY DEF Session!Serve
<1>1. PICK at \in {"ok", "refused", "denied"}, w \in PhoneAccounts \union {Nobody} :
        call' = [call EXCEPT ![k] = [call[k] EXCEPT !.at = at, !.who = w]]
  <2>1. CASE Session!AccessAccepted(pairs, t)
    <3> DEFINE w == IF k = "save" THEN call[k].who ELSE pairs.owner[t]
    <3>1. call' = [call EXCEPT ![k].at = "ok", ![k].who = w]
      BY <1>t, <2>1 DEF Session!Serve
    <3>2. t \in Session!Ids
      BY <1>b, <2>1, BasedNumbers DEF Session!AccessAccepted, Issued
    <3>3. w \in PhoneAccounts \union {Nobody}
      BY <1>b, <3>2 DEF Session!Call, Sound, Session!PairSets
    <3> HIDE DEF w
    <3>4. call' = [call EXCEPT ![k] = [call[k] EXCEPT !.at = "ok", !.who = w]]
      BY <1>b, <3>1 DEF Calls, Session!Call
    <3> QED
      BY <3>3, <3>4
  <2>2. CASE ~Session!AccessAccepted(pairs, t)
    <3> DEFINE at == IF call[k].at = "asked" THEN "refused" ELSE "denied"
    <3>1. call' = [call EXCEPT ![k].at = at]
      BY <1>t, <2>2 DEF Session!Serve
    <3>2. [call[k] EXCEPT !.at = at] = [call[k] EXCEPT !.at = at, !.who = call[k].who]
      BY <1>b DEF Session!Call
    <3>3. at \in {"refused", "denied"} /\ call[k].who \in PhoneAccounts \union {Nobody}
      BY <1>b DEF Session!Call
    <3> HIDE DEF at
    <3> QED
      BY <3>1, <3>2, <3>3
  <2> QED
    BY <2>1, <2>2
<1>2. Sound(pairs') /\ Later(pairs, pairs')
  <2>1. CASE pairs' = pairs
    BY <1>b, <2>1, BasedNumbers DEF Later
  <2>2. CASE pairs' # pairs
    <3>1. t \in 1..pairs.issued
      BY <1>b, <1>t, <2>2, BasedNumbers DEF Session!Serve, Session!AccessAccepted, Issued
    <3> QED
      BY <1>b, <1>t, <2>2, <3>1, LoggedOutPairs, RevokedPairs DEF Session!Serve
  <2> QED
    BY <2>1, <2>2
<1>3. CallsWell'
  <2>1. \A u : Issued(u) => Issued(u)'
    BY <1>b, <1>2, IssuedStays
  <2> DEFINE c == [call[k] EXCEPT !.at = at, !.who = w]
  <2>2. c \in Session!Call /\ c.tok = t
    BY <1>b, <1>t DEF Session!Call
  <2> HIDE DEF c
  <2>3. call' \in Calls /\ \A j \in Session!Kinds : call'[j] = call[j] \/ call'[j] = c
    BY <1>b, <1>1, <2>2 DEF c, Calls
  <2> QED
    BY <1>b, <2>1, <2>2, <2>3 DEF CallsWell
<1> QED
  BY <1>b, <1>u, <1>2, <1>3, WellStays, ServerBased DEF HistoryWell

\* The renewal.
LEMMA RefreshBased ==
  ASSUME Based, Session!Refreshes
  PROVE  Based'
<1>t. PICK t : t = refresh.tok
  OBVIOUS
<1>b. /\ Sound(pairs) /\ Issued(saved) /\ PhoneWell /\ CallsWell /\ RefreshWell /\ SigninWell /\ HistoryWell
      /\ phone \in Phones /\ call \in Calls /\ refresh \in Refreshes /\ signin \in Signins
      /\ Issued(t) /\ Issued(refresh.new)
  BY <1>t, BasedParts DEF PhoneWell, CallsWell, RefreshWell, SigninWell
<1>1. CASE Session!RefreshServe
  <2>u. UNCHANGED <<phone, saved, call, signin, lost>>
    BY <1>1 DEF Session!RefreshServe
  <2>1. CASE Session!Redeemable(pairs, t)
    <3>1. /\ pairs.issued < PhonePairs /\ pairs' = Session!Rotated(pairs, t) /\ reused' = reused
          /\ refresh' = [refresh EXCEPT !.at = "ok", !.new = pairs.issued + 1]
      BY <1>1, <1>t, <2>1 DEF Session!RefreshServe
    <3>2. t \in 1..pairs.issued
      BY <1>b, <2>1, BasedNumbers DEF Session!Redeemable, Issued
    <3>3. Sound(pairs') /\ Later(pairs, pairs') /\ pairs'.issued = pairs.issued + 1
      BY <1>b, <3>1, <3>2, RotatedPairs
    <3>n. PICK n : n = pairs.issued + 1
      OBVIOUS
    <3>4. n \in Session!Held /\ Issued(n)'
      BY <1>b, <3>1, <3>3, <3>n, BasedNumbers, NumbersAre DEF Issued
    <3>5. RefreshWell'
      BY <1>b, <1>t, <3>1, <3>n, <3>3, <3>4, IssuedStays DEF RefreshWell, Refreshes
    <3> QED
      BY <1>b, <2>u, <3>1, <3>3, <3>5, WellStays, ServerBased DEF HistoryWell
  <2>2. CASE ~Session!Redeemable(pairs, t)
    <3>1. /\ pairs' = Session!Rejected(pairs, t)
          /\ reused' = (reused \/ Session!Alarming(pairs, t))
          /\ refresh' = [refresh EXCEPT !.at = "denied"]
      BY <1>1, <1>t, <2>2 DEF Session!RefreshServe
    <3>2. Sound(pairs') /\ Later(pairs, pairs')
      <4>1. CASE t \in 1..pairs.issued
        BY <1>b, <3>1, <4>1, RejectedPairs
      <4>2. CASE t \notin 1..pairs.issued
        BY <1>b, <3>1, <4>2, BasedNumbers DEF Session!Rejected, Sound, Later
      <4> QED
        BY <4>1, <4>2
    <3>3. RefreshWell'
      BY <1>b, <1>t, <3>1, <3>2, IssuedStays DEF RefreshWell, Refreshes
    <3>4. reused' \in BOOLEAN
      BY <1>b, <3>1 DEF HistoryWell
    <3> QED
      BY <2>u, <3>2, <3>3, <3>4, WellStays, ServerBased
  <2> QED
    BY <2>1, <2>2
<1>2. CASE Session!RefreshErrs \/ Session!RefreshTimesOut
  <2>1. /\ UNCHANGED <<pairs, phone, saved, call, signin, reused>>
        /\ \/ refresh' = [refresh EXCEPT !.at = "denied"]
           \/ refresh' = [refresh EXCEPT !.at = "failed"]
        /\ lost' \in SUBSET (lost \union {"answer", "pair"})
    BY <1>2 DEF Session!RefreshErrs, Session!RefreshTimesOut
  <2>2. \A u : Issued(u)' <=> Issued(u)
    BY <2>1 DEF Issued
  <2>3. RefreshWell'
    BY <1>b, <2>1, <2>2 DEF RefreshWell, Refreshes
  <2>4. PhoneWell' /\ CallsWell' /\ SigninWell' /\ HistoryWell' /\ Issued(saved)' /\ Sound(pairs')
    BY <1>b, <2>1, <2>2 DEF PhoneWell, CallsWell, SigninWell, HistoryWell
  <2> QED
    BY <2>3, <2>4, BasedAgain
<1>3. CASE Session!RefreshSettles
  <2> DEFINE resumed == [k \in Session!Kinds |-> Session!Resumed(call[k])]
             q == [phone EXCEPT !.tok = refresh.new]
  <2>1. /\ refresh.at \in {"ok", "denied", "failed"} /\ refresh' = Session!NoRefresh
        /\ phone' = Session!Settled(q) \/ phone' = Session!Cleared(phone) \/ phone' = phone
        /\ call' = Session!ClearCalls(resumed) \/ call' = resumed
        /\ signin' = signin \/ \E at \in {"again", "denied"} : signin' = [signin EXCEPT !.at = at]
        /\ UNCHANGED <<pairs, saved, lost, reused>>
    BY <1>3 DEF Session!RefreshSettles
  <2>2. \A u : Issued(u)' <=> Issued(u)
    BY <2>1 DEF Issued
  <2>3. q \in Phones /\ Issued(q.tok)
    BY <1>b DEF Phones, Refreshes
  <2>4. ASSUME NEW k \in Session!Kinds
        PROVE  resumed[k] \in Session!Call /\ Issued(resumed[k].tok)
    <3>1. call[k] \in Session!Call /\ Issued(call[k].tok) /\ refresh.new \in Session!Held
      BY <1>b DEF CallsWell, Calls, Refreshes
    <3>2. resumed[k] = Session!Resumed(call[k])
      OBVIOUS
    <3> QED
      BY <1>b, <2>1, <3>1, <3>2 DEF Session!Resumed, Session!Call
  <2>5. resumed \in Calls
    BY <2>4 DEF Calls
  <2> HIDE DEF resumed, q
  <2>6. CallsWell'
    <3>1. call' \in Calls /\ \A k \in Session!Kinds : call'[k] = resumed[k] \/ call'[k] = Session!NoCall
      BY <2>1, <2>5, ClearedCalls
    <3> QED
      BY <1>b, <2>2, <2>4, <3>1, NothingOut, BasedNumbers DEF CallsWell
  <2>7. PhoneWell'
    BY <1>b, <2>1, <2>2, <2>3, StoreSettled, StoreCleared DEF PhoneWell
  <2>8. RefreshWell' /\ SigninWell' /\ HistoryWell' /\ Issued(saved)' /\ Sound(pairs')
    BY <1>b, <2>1, <2>2, NothingOut, BasedNumbers DEF RefreshWell, SigninWell, HistoryWell, Signins
  <2> QED
    BY <2>6, <2>7, <2>8, BasedAgain
<1> QED
  BY <1>1, <1>2, <1>3 DEF Session!Refreshes

\* The sign-in.
LEMMA SigninBased ==
  ASSUME Based, Session!Signins
  PROVE  Based'
<1>t. PICK t : t = signin.tok
  OBVIOUS
<1>b. /\ Sound(pairs) /\ Issued(saved) /\ PhoneWell /\ CallsWell /\ RefreshWell /\ SigninWell /\ HistoryWell
      /\ phone \in Phones /\ call \in Calls /\ signin \in Signins /\ Issued(t) /\ t \in Session!Held
      /\ "me" \in Session!Kinds
  BY <1>t, BasedParts, KindsAre, BasedNumbers DEF PhoneWell, CallsWell, SigninWell, Issued
<1>1. ASSUME NEW how \in Session!Ways, Session!LogIn(how) PROVE Based'
  <2>1. /\ UNCHANGED <<pairs, phone, saved, call, refresh, reused>>
        /\ signin' = [at |-> "asked", how |-> how, carries |-> phone.tok # 0, tok |-> 0]
        /\ lost' \in SUBSET (lost \union {"beside"})
    BY <1>1 DEF Session!LogIn
  <2>2. signin' \in Signins /\ signin'.tok = 0 /\ signin'.at # "ok"
    BY <2>1, NumbersAre DEF Signins
  <2>3. PhoneWell' /\ CallsWell' /\ RefreshWell' /\ HistoryWell' /\ Issued(saved)' /\ SigninWell'
    BY <1>b, <2>1, <2>2, BasedNumbers DEF PhoneWell, CallsWell, RefreshWell, SigninWell, HistoryWell, Issued
  <2> QED
    BY <1>b, <2>1, <2>3, BasedAgain
<1>2. ASSUME NEW a \in PhoneAccounts, Session!SigninServe(a) PROVE Based'
  <2>n. PICK n : n = pairs.issued + 1
    OBVIOUS
  <2>1. /\ pairs.issued < PhonePairs /\ pairs' = Session!Issue(pairs, a, 0)
        /\ signin' = [signin EXCEPT !.at = "ok", !.tok = n]
        /\ UNCHANGED <<phone, saved, call, refresh, lost, reused>>
    BY <1>2, <2>n DEF Session!SigninServe
  <2>2. Sound(pairs') /\ Later(pairs, pairs') /\ pairs'.issued = n
    BY <1>b, <2>1, <2>n, IssuedPairs, BasedNumbers DEF Issued
  <2>3. n \in Session!Held /\ n # 0 /\ Issued(n)'
    BY <1>b, <2>1, <2>2, <2>n, BasedNumbers, NumbersAre DEF Issued
  <2>4. SigninWell'
    BY <1>b, <2>1, <2>3 DEF SigninWell, Signins
  <2> QED
    BY <1>b, <2>1, <2>2, <2>4, WellStays, ServerBased DEF HistoryWell
<1>3. CASE Session!SigninUnauthorized
  <2>1. /\ UNCHANGED <<pairs, phone, saved, call, lost, reused>>
        /\ \E at \in {"waiting", "denied"} : signin' = [signin EXCEPT !.at = at]
        /\ refresh' = refresh \/ refresh' = [at |-> "asked", tok |-> phone.tok, new |-> 0]
    BY <1>3 DEF Session!SigninUnauthorized
  <2>2. \A u : Issued(u)' <=> Issued(u)
    BY <2>1 DEF Issued
  <2>3. RefreshWell'
    BY <1>b, <2>1, <2>2, BasedNumbers, NumbersAre DEF RefreshWell, Refreshes, PhoneWell, Phones
  <2>4. SigninWell'
    BY <1>b, <2>1, <2>2 DEF SigninWell, Signins
  <2>5. PhoneWell' /\ CallsWell' /\ HistoryWell' /\ Issued(saved)' /\ Sound(pairs')
    BY <1>b, <2>1, <2>2 DEF PhoneWell, CallsWell, HistoryWell
  <2> QED
    BY <2>3, <2>4, <2>5, BasedAgain
<1>4. CASE Session!SigninFails \/ Session!AccountNotLoaded
  <2> DEFINE after == [call EXCEPT !["me"] = Session!NoCall]
  <2>1. /\ UNCHANGED <<pairs, saved, refresh, lost, reused>> /\ signin' = Session!NoSignin
        /\ call' = after \/ call' = Session!ClearCalls(after)
        /\ phone' = phone \/ phone' = Session!Cleared(phone)
    BY <1>4 DEF Session!SigninFails, Session!AccountNotLoaded, Session!DropHalf
  <2>2. after \in Calls /\ \A k \in Session!Kinds : after[k] = call[k] \/ after[k] = Session!NoCall
    BY <1>b, NothingOut DEF Calls
  <2> HIDE DEF after
  <2>3. CallsWell'
    BY <1>b, <2>1, <2>2, CallsEnded, ClearedCalls
  <2>4. \A u : Issued(u)' <=> Issued(u)
    BY <2>1 DEF Issued
  <2>5. PhoneWell'
    BY <1>b, <2>1, <2>4, StoreCleared DEF PhoneWell
  <2>6. RefreshWell' /\ SigninWell' /\ HistoryWell' /\ Issued(saved)' /\ Sound(pairs')
    BY <1>b, <2>1, <2>4, NothingOut, BasedNumbers DEF RefreshWell, SigninWell, HistoryWell
  <2> QED
    BY <2>3, <2>5, <2>6, BasedAgain
<1>5. CASE Session!SigninAnswered \/ Session!AccountLoaded
  <2>1. /\ UNCHANGED <<pairs, saved, refresh, lost, reused>>
        /\ signin' = Session!NoSignin \/ signin' = [signin EXCEPT !.at = "loading"]
    BY <1>5 DEF Session!SigninAnswered, Session!AccountLoaded
  <2>2. \A u : Issued(u)' <=> Issued(u)
    BY <2>1 DEF Issued
  <2>3. RefreshWell' /\ SigninWell' /\ HistoryWell' /\ Issued(saved)' /\ Sound(pairs')
    BY <1>b, <2>1, <2>2, NothingOut, BasedNumbers DEF RefreshWell, SigninWell, HistoryWell, Signins
  <2>4. PhoneWell'
    <3>1. PICK who \in PhoneAccounts \union {Nobody} :
            phone' = Session!Settled([phone EXCEPT !.tok = t, !.user = who])
      <4>1. CASE Session!AccountLoaded
        BY <1>b, <1>t, <4>1 DEF Session!AccountLoaded, Calls, Session!Call
      <4>2. CASE Session!SigninAnswered /\ signin.how = "google"
        <5>1. t \in Session!Ids
          BY <1>b, <1>t, <4>2, NumbersAre DEF Session!SigninAnswered, SigninWell
        <5>2. pairs.owner[t] \in PhoneAccounts \union {Nobody}
          BY <1>b, <5>1 DEF Sound, Session!PairSets
        <5>3. phone' = Session!Settled([phone EXCEPT !.tok = t, !.user = pairs.owner[t]])
          BY <1>t, <4>2 DEF Session!SigninAnswered
        <5> QED
          BY <5>2, <5>3
      <4>3. CASE Session!SigninAnswered /\ signin.how # "google"
        <5>1. phone' = Session!Settled([phone EXCEPT !.tok = t])
          BY <1>t, <4>3 DEF Session!SigninAnswered
        <5>2. /\ [phone EXCEPT !.tok = t] = [phone EXCEPT !.tok = t, !.user = phone.user]
              /\ phone.user \in PhoneAccounts \union {Nobody}
          BY <1>b DEF Phones
        <5> QED
          BY <5>1, <5>2
      <4> QED
        BY <1>5, <4>1, <4>2, <4>3
    <3> DEFINE q == [phone EXCEPT !.tok = t, !.user = who]
    <3>2. q \in Phones /\ Issued(q.tok)
      BY <1>b DEF Phones
    <3> QED
      BY <2>1, <3>1, <3>2, StoreSettled
  <2>5. CallsWell'
    <3>1. PICK c \in Session!Call : Issued(c.tok) /\ (call' = call \/ call' = [call EXCEPT !["me"] = c])
      <4>1. Session!NoCall \in Session!Call /\ Issued(Session!NoCall.tok)
        BY <1>b, NothingOut, BasedNumbers
      <4>2. Session!Asked(t) \in Session!Call /\ Issued(Session!Asked(t).tok)
        BY <1>b, AskedWell
      <4> QED
        BY <1>5, <1>t, <4>1, <4>2 DEF Session!SigninAnswered, Session!AccountLoaded
    <3> QED
      BY <1>b, <2>1, <2>2, <3>1, CallReplaced DEF CallsWell
  <2> QED
    BY <2>3, <2>4, <2>5, BasedAgain
<1> QED
  BY <1>1, <1>2, <1>3, <1>4, <1>5 DEF Session!Signins

LEMMA BasedStep ==
  ASSUME Based, Session!Next \/ UNCHANGED sessionVars
  PROVE  Based'
<1>b. /\ Sound(pairs) /\ Issued(saved) /\ HistoryWell /\ reused \in BOOLEAN
  BY BasedParts DEF HistoryWell
<1>1. CASE Session!Requests
  BY <1>1, RequestBased, ServeBased DEF Session!Requests
<1>2. ASSUME NEW t \in Session!Ids, Session!Expire(t) PROVE Based'
  <2>1. /\ t \in 1..pairs.issued /\ pairs' = [pairs EXCEPT !.cut = @ \union {t}]
        /\ UNCHANGED <<phone, saved, call, refresh, signin, lost, reused>>
    BY <1>b, <1>2, NumbersAre, BasedNumbers DEF Session!Expire
  <2>2. Sound(pairs') /\ Later(pairs, pairs')
    BY <1>b, <2>1, ExpiredPairs
  <2> QED
    BY <1>b, <2>1, <2>2, WellStays, ServerBased
<1>3. ASSUME NEW a \in PhoneAccounts, Session!EndElsewhere(a) PROVE Based'
  <2>1. /\ pairs' = Session!RevokeAll(pairs, a)
        /\ UNCHANGED <<phone, saved, call, refresh, signin, lost, reused>>
    BY <1>3 DEF Session!EndElsewhere
  <2>2. Sound(pairs') /\ Later(pairs, pairs')
    BY <1>b, <2>1, RevokedPairs
  <2> QED
    BY <1>b, <2>1, <2>2, WellStays, ServerBased
<1>4. CASE Session!Kill
  <2>1. /\ phone' = Session!Fresh /\ call' = [k \in Session!Kinds |-> Session!NoCall]
        /\ refresh' = Session!NoRefresh /\ signin' = Session!NoSignin
        /\ lost' \in SUBSET (lost \union {"answer", "pair"})
        /\ UNCHANGED <<pairs, saved, reused>>
    BY <1>4 DEF Session!Kill
  <2>2. (\A u : Issued(u)' <=> Issued(u)) /\ Issued(0)
    BY <1>b, <2>1, BasedNumbers DEF Issued
  <2>3. PhoneWell' /\ RefreshWell' /\ SigninWell'
    BY <2>1, <2>2, NothingOut, FreshPhone DEF PhoneWell, RefreshWell, SigninWell
  <2>4. CallsWell'
    BY <2>1, <2>2, NothingOut DEF CallsWell, Calls
  <2>5. HistoryWell' /\ Issued(saved)' /\ Sound(pairs')
    BY <1>b, <2>1, <2>2 DEF HistoryWell
  <2> QED
    BY <2>3, <2>4, <2>5, BasedAgain
<1>5. CASE UNCHANGED sessionVars
  <2>1. Sound(pairs') /\ Later(pairs, pairs')
    BY <1>b, <1>5, BasedNumbers DEF sessionVars, Later
  <2> QED
    BY <1>b, <1>5, <2>1, WellStays, ServerBased DEF sessionVars
<1> QED
  BY <1>1, <1>2, <1>3, <1>4, <1>5, LayoutBased, RefreshBased, SigninBased DEF Session!Next

-----------------------------------------------------------------------------

(* The invariant of the clients, as far as the phone's sign-in goes: all of *)
(* SessionInv until somebody signs in beside older requests, Based always.  *)
PhoneInv == part = "session" => Based /\ ("beside" \notin lost => SessionInv)

LEMMA PartStays == [Next]_vars => part' = part
BY DEF Next, Only, vars

LEMMA SessionMoves ==
  ASSUME part = "session", [Next]_vars
  PROVE  Session!Next \/ UNCHANGED sessionVars
BY DEF Next, Only, vars, sessionVars

LEMMA PhoneInit == Init => PhoneInv
<1> SUFFICES ASSUME Init, part = "session" PROVE Based /\ SessionInv
  BY DEF PhoneInv
<1>1. Session!Init
  BY DEF Init
<1>2. /\ call \in Calls /\ \A k \in Session!Kinds : call[k].at = "idle" /\ call[k].tok = 0
      /\ "check" \in Session!Kinds /\ "me" \in Session!Kinds
  BY <1>1, NothingOut, KindsAre DEF Calls, Session!Init
<1>3. /\ signin \in Signins /\ signin.at = "idle" /\ signin.tok = 0
      /\ refresh \in Refreshes /\ refresh.at = "idle" /\ refresh.tok = 0 /\ refresh.new = 0
      /\ phone \in Phones /\ phone.tok = 0 /\ ~phone.hydrated /\ ~phone.ready /\ ~phone.gaveUp
      /\ saved = 0 /\ lost = {} /\ reused = FALSE
  BY <1>1, NothingOut, FreshPhone DEF Session!Init
<1>4. \A u : ~InPlay(u)
  BY <1>2, <1>3 DEF InPlay, Open
<1>5. Sound(pairs) /\ Issued(0)
  BY <1>1, NumbersAre DEF Session!Init, Session!NoPairs, Sound, Issued, Session!PairSets
<1>6. SessionTyped /\ Numbered
  BY <1>2, <1>3, <1>5 DEF SessionTyped, Numbered
<1>7. AtRest /\ Carried
  BY <1>2, <1>3 DEF AtRest, Carried, Open, Session!Quiet
<1>8. Cut /\ Loading /\ OneSession
  BY <1>2, <1>3, <1>4 DEF Cut, Loading, OneSession
<1>9. Renewable /\ Silent
  BY <1>3 DEF Renewable, Silent, Good
<1>10. NoAnswerLost
  BY <1>2, <1>3, KindsAre DEF NoAnswerLost
<1> QED
  BY <1>3, <1>6, <1>7, <1>8, <1>9, <1>10 DEF SessionInv, Based

\* What was lost stays lost.
LEMMA LostGrows ==
  ASSUME Session!Next \/ UNCHANGED sessionVars
  PROVE  lost \subseteq lost'
BY DEF sessionVars, Session!Next, Session!Requests, Session!Refreshes, Session!Signins, Session!Hydrate,
       Session!Persist, Session!StartCheck, Session!TryAgain, Session!GiveUp, Session!CheckDone, Session!Ask,
       Session!Serve, Session!TimeOut, Session!JoinRefresh, Session!Done, Session!RefreshServe,
       Session!RefreshErrs, Session!RefreshTimesOut, Session!RefreshSettles, Session!LogIn,
       Session!SigninServe, Session!SigninUnauthorized, Session!SigninFails, Session!SigninAnswered,
       Session!AccountLoaded, Session!AccountNotLoaded, Session!Expire, Session!EndElsewhere, Session!Kill

LEMMA SessionStep ==
  ASSUME SessionInv, Session!Next \/ UNCHANGED sessionVars, "beside" \notin lost'
  PROVE  SessionInv'
<1>1. CASE Session!Hydrate
  BY <1>1, HydrateKeeps
<1>2. CASE Session!Persist
  BY <1>2, PersistQuiets, QuieterKeeps
<1>3. CASE Session!StartCheck
  BY <1>3, StartCheckAsks, AsksKeeps, KindsAre
<1>4. CASE Session!TryAgain
  BY <1>4, TryAgainAsks, AsksKeeps, KindsAre
<1>5. CASE Session!GiveUp
  BY <1>5, GiveUpQuiets, QuieterKeeps
<1>6. CASE Session!CheckDone
  BY <1>6, CheckDoneQuiets, QuieterKeeps
<1>7. ASSUME NEW k \in Session!Kinds, Session!Ask(k) PROVE SessionInv'
  BY <1>7, AskAsks, AsksKeeps
<1>8. ASSUME NEW k \in Session!Kinds, Session!Serve(k) PROVE SessionInv'
  BY <1>8, ServeAnswers, AnswersKeeps
<1>9. ASSUME NEW k \in Session!Kinds, Session!TimeOut(k) PROVE SessionInv'
  BY <1>9, TimeOutKeeps
<1>10. ASSUME NEW k \in Session!Kinds, Session!JoinRefresh(k) PROVE SessionInv'
  BY <1>10, JoinRefreshKeeps
<1>11. ASSUME NEW k \in Session!Kinds, Session!Done(k) PROVE SessionInv'
  BY <1>11, DoneQuiets, QuieterKeeps
<1>12. CASE Session!Requests
  BY <1>12, <1>7, <1>8, <1>9, <1>10, <1>11 DEF Session!Requests
<1>13. CASE Session!Refreshes
  BY <1>13, RefreshServeKeeps, RefreshErrsKeeps, RefreshTimesOutKeeps, RefreshSettlesKeeps
     DEF Session!Refreshes
<1>14. CASE Session!Signins
  <2>1. CASE Session!SigninFails
    BY <2>1, SigninFailsQuiets, QuieterKeeps
  <2>2. CASE Session!AccountNotLoaded
    BY <2>2, AccountNotLoadedQuiets, QuieterKeeps
  <2> QED
    BY <1>14, <2>1, <2>2, LogInKeeps, SigninServeKeeps, SigninUnauthorizedKeeps, SigninAnsweredKeeps,
       AccountLoadedKeeps
       DEF Session!Signins
<1>15. ASSUME NEW t \in Session!Ids, Session!Expire(t) PROVE SessionInv'
  BY <1>15, ExpireKeeps
<1>16. ASSUME NEW a \in PhoneAccounts, Session!EndElsewhere(a) PROVE SessionInv'
  BY <1>16, EndElsewhereKeeps
<1>17. CASE Session!Kill
  BY <1>17, AppKillKeeps
<1>18. CASE UNCHANGED sessionVars
  <2>1. /\ \A t : InPlay(t)' <=> InPlay(t)
        /\ \A t : (Dead(t)' <=> Dead(t)) /\ (Good(t)' <=> Good(t)) /\ (Issued(t)' <=> Issued(t))
        /\ \A k : Open(k)' <=> Open(k)
        /\ (Session!Quiet' <=> Session!Quiet) /\ (Session!SignedIn' <=> Session!SignedIn)
    BY <1>18 DEF sessionVars, InPlay, Dead, Good, Issued, Open, Session!Quiet, Session!SignedIn
  <2>2. Over' <=> Over
    BY <2>1 DEF Over
  <2> QED
    BY <1>18, <2>1, <2>2
       DEF sessionVars, SessionInv, SessionTyped, Numbered, AtRest, Carried, Cut, Loading, Renewable, OneSession,
           NoAnswerLost, Silent
<1> QED
  BY <1>1, <1>2, <1>3, <1>4, <1>5, <1>6, <1>12, <1>13, <1>14, <1>15, <1>16, <1>17, <1>18
     DEF Session!Next

LEMMA PhoneStep == PhoneInv /\ [Next]_vars => PhoneInv'
BY PartStays, SessionMoves, LostGrows, BasedStep, SessionStep DEF PhoneInv

LEMMA PhoneHolds == Spec => []PhoneInv
BY PhoneInit, PhoneStep, PTL DEF Spec

(* The reuse alarm of sessions.py stays silent for a phone whose renewed   *)
(* pairs all arrive and where nobody signs in beside older requests:       *)
(* lib/api.ts shares one renewal among its requests and store/auth.ts      *)
(* never sends a pair twice.                                               *)
THEOREM NoPhoneRaisesTheAlarm == Spec => []NoSelfReuse
<1>1. PhoneInv => NoSelfReuse
  BY DEF PhoneInv, NoSelfReuse, Session!NoSelfReuse, SessionInv, Silent
<1> QED
  BY <1>1, PhoneHolds, PTL

(* Only a renewal that settles gives a signed-out phone a pair.            *)
LEMMA LateStep ==
  ASSUME SessionInv, Session!Next \/ UNCHANGED sessionVars
  PROVE  Session!LatePairDead
<1> SUFFICES ASSUME phone.tok = 0, phone.hydrated, phone'.tok # 0, signin.at = "idle",
                    "answer" \notin lost, "beside" \notin lost
             PROVE  ~Session!Redeemable(pairs, phone'.tok)
  BY DEF Session!LatePairDead
<1>1. CASE Session!RefreshSettles
  <2>1. /\ phone \in Phones /\ refresh \in Refreshes
        /\ refresh.at \in {"ok", "denied", "failed"}
        /\ phone' = CASE refresh.at = "ok"     -> Session!Settled([phone EXCEPT !.tok = refresh.new])
                      [] refresh.at = "denied" -> Session!Cleared(phone)
                      [] refresh.at = "failed" -> phone
    BY <1>1 DEF Session!RefreshSettles, SessionInv, SessionTyped
  <2>2. refresh.at = "ok" /\ phone'.tok = refresh.new
    <3>1. [phone EXCEPT !.tok = refresh.new] \in Phones /\ [phone EXCEPT !.tok = refresh.new].tok = refresh.new
      BY <2>1 DEF Phones, Refreshes
    <3> QED
      BY <2>1, <3>1, SettledPhone, ClearedPhone
  <2>3. Over /\ InPlay(refresh.new)
    BY <2>2 DEF SessionInv, NoAnswerLost, Carried, InPlay
  <2> QED
    BY <2>2, <2>3, InPlayIsIssued DEF Over, Dead, Session!Redeemable
\* No other step gives a signed-out phone a pair while nobody signs in.
<1>2. ~Session!Hydrate /\ ~Session!SigninAnswered /\ ~Session!AccountLoaded
  BY DEF Session!Hydrate, Session!SigninAnswered, Session!AccountLoaded
<1>3. ~Quieter /\ \A k : ~Asks(k)
  BY DEF Quieter, Asks
<1>4. phone' # phone /\ ~Session!Kill
  BY FreshPhone DEF Session!Kill
<1>5. ~Session!Persist /\ ~Session!GiveUp /\ ~Session!CheckDone
  BY <1>3, PersistQuiets, GiveUpQuiets, CheckDoneQuiets
<1>6. ~Session!StartCheck /\ ~Session!TryAgain
  BY <1>4 DEF Session!StartCheck, Session!TryAgain, Session!Unreachable
<1>7. ASSUME NEW k \in Session!Kinds
      PROVE  ~Session!Ask(k) /\ ~Session!Serve(k) /\ ~Session!TimeOut(k) /\ ~Session!JoinRefresh(k) /\ ~Session!Done(k)
  <2>1. ~Session!Ask(k) /\ ~Session!Done(k)
    BY <1>3, AskAsks, DoneQuiets
  <2> QED
    BY <1>4, <2>1 DEF Session!Serve, Session!TimeOut, Session!JoinRefresh
<1>8. ~Session!RefreshServe /\ ~Session!RefreshErrs /\ ~Session!RefreshTimesOut
  BY <1>4 DEF Session!RefreshServe, Session!RefreshErrs, Session!RefreshTimesOut
<1>9. ~Session!SigninFails /\ ~Session!AccountNotLoaded
  BY <1>3, SigninFailsQuiets, AccountNotLoadedQuiets
<1>10. /\ \A how : ~Session!LogIn(how)
       /\ ~Session!SigninUnauthorized
       /\ \A a : ~Session!SigninServe(a) /\ ~Session!EndElsewhere(a)
       /\ \A t : ~Session!Expire(t)
  BY <1>4 DEF Session!LogIn, Session!SigninServe, Session!SigninUnauthorized, Session!EndElsewhere, Session!Expire
<1>11. ~UNCHANGED sessionVars
  BY <1>4 DEF sessionVars
<1> QED
  BY <1>1, <1>2, <1>4, <1>5, <1>6, <1>7, <1>8, <1>9, <1>10, <1>11
     DEF Session!Next, Session!Requests, Session!Refreshes, Session!Signins

(* A phone that is signed out, with nobody signing in, no answer lost and  *)
(* no earlier sign-in beside older requests, gets a pair from a late       *)
(* renewal only when that pair is worthless: what logs the phone out       *)
(* (store/auth.ts) has ended its family at the server.                     *)
THEOREM NoLateSignIn == Spec => LatePairIsDead
<1>1. PhoneInv /\ [Next]_vars => [part = "session" => Session!LatePairDead]_vars
  <2> SUFFICES ASSUME PhoneInv, [Next]_vars, part = "session" PROVE Session!LatePairDead
    OBVIOUS
  <2>1. CASE "beside" \in lost
    BY <2>1 DEF Session!LatePairDead
  <2>2. CASE "beside" \notin lost
    BY <2>2, SessionMoves, LateStep DEF PhoneInv
  <2> QED
    BY <2>1, <2>2
<1> QED
  BY <1>1, PhoneHolds, PTL DEF Spec, LatePairIsDead

=============================================================================
