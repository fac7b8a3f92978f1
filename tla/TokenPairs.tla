----------------------------- MODULE TokenPairs -----------------------------
(***************************************************************************)
(* The token pairs the server gives out (backend/app/modules/auth/          *)
(* sessions.py, shared/auth.py): a refresh token is used once, for the next *)
(* pair of its family, and a used one that comes back ends the family.      *)
(***************************************************************************)
EXTENDS Naturals

CONSTANTS
  Accounts,     \* the people who sign in
  NoOne,        \* no account
  MaxPairs      \* bound: token pairs the server ever issues

Ids == 1..MaxPairs
Held == 0..MaxPairs                     \* 0: no pair

NoPairs == [issued |-> 0, owner |-> [t \in Ids |-> NoOne], family |-> [t \in Ids |-> 0],
            used |-> {}, revoked |-> {}, cut |-> {}]

\* cut: pairs whose access token has expired or is denied.
PairSets == [issued : Held, owner : [Ids -> Accounts \union {NoOne}], family : [Ids -> Held],
             used : SUBSET Ids, revoked : SUBSET Ids, cut : SUBSET Ids]

\* One more pair, for account a, in family f or (f = 0) in one of its own.
Issue(p, a, f) ==
  LET t == p.issued + 1
  IN [p EXCEPT !.issued = t, !.owner[t] = a, !.family[t] = IF f = 0 THEN t ELSE f]

AccessAccepted(p, t) == t # 0 /\ t \notin p.cut
Redeemable(p, t) == t # 0 /\ t \notin p.used /\ p.family[t] \notin p.revoked

\* sessions.rotate, for a token it redeems
Rotated(p, t) == Issue([p EXCEPT !.used = @ \union {t}], p.owner[t], p.family[t])

\* The server takes the token for a copy: it was used and its family still lives.
Alarming(p, t) == t \in p.used /\ p.family[t] \notin p.revoked

RevokeFamily(p, t) == [p EXCEPT !.revoked = @ \union {p.family[t]}]

\* sessions.rotate, for a token it does not redeem
Rejected(p, t) == IF t \in p.used THEN RevokeFamily(p, t) ELSE p

PairsOf(p, a) == {t \in 1..p.issued : p.owner[t] = a}

\* Every sign-in of the account ends: refresh tokens revoked, access tokens stale.
RevokeAll(p, a) ==
  [p EXCEPT !.revoked = @ \union {p.family[t] : t \in PairsOf(p, a)},
            !.cut = @ \union PairsOf(p, a)]

\* Mutant of LogOut: only the access token is denied.
LogOutAccess(p, t) == [p EXCEPT !.cut = @ \union {t}]

\* Logging out: the family is revoked and this access token denied.
LogOut(p, t) == [RevokeFamily(p, t) EXCEPT !.cut = @ \union {t}]

=============================================================================
