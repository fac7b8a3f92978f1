---------------------------- MODULE PhoneProofs -----------------------------
(***************************************************************************)
(* Proofs about two screens of the phone, as Clients instances them: the   *)
(* hearts (LikedArenas), for any arenas and any number of taps under way   *)
(* at once; and picking hours (LiveSlots), for days of any number of hours *)
(* and any number of messages on the channel.                              *)
(***************************************************************************)
EXTENDS Clients, Sequences, TLAPS, FiniteSetTheorems

LikedTaps == [at : {"idle", "asked", "served", "refused"}, arena : Arenas,
              liked : BOOLEAN, before : Liked!Sets, beside : BOOLEAN]

LikedTyped ==
  /\ likes \subseteq Arenas
  /\ hearts \in Liked!Sets
  /\ aged \in BOOLEAN
  /\ fetching \in [at : {"idle", "asked", "served"}, answer : SUBSET Arenas]
  /\ tap \in [Taps -> LikedTaps]
  /\ slips \subseteq {"early", "twice", "beside", "lost"}

(* The tap is under way.                                                   *)
Under(t) == tap[t].at # "idle"

(* An answer still is what the server has, and none comes while a tap is   *)
(* under way: a tap cancels the fetch and its data are young.              *)
Resting ==
  /\ fetching.at = "served" => fetching.answer = likes
  /\ \A t \in Taps : Under(t) => fetching.at = "idle" /\ hearts.read /\ ~aged

(* Taps under way are on different arenas.                                 *)
Apart == slips = {} => \A t, u \in Taps : Under(t) /\ Under(u) /\ t # u => tap[t].arena # tap[u].arena

(* Whether the tapped arena is liked at the server now.                    *)
Sent(t) == IF tap[t].at = "served" THEN ~tap[t].liked ELSE tap[t].liked

(* Hearts and likes differ at most where a tap is under way, and there     *)
(* each is what the tap made of it.                                        *)
Agree ==
  slips = {} /\ hearts.read =>
    \A a \in Arenas :
      /\ (\A t \in Taps : Under(t) => tap[t].arena # a) => (a \in hearts.ids <=> a \in likes)
      /\ \A t \in Taps : Under(t) /\ tap[t].arena = a =>
           (a \in hearts.ids <=> ~tap[t].liked) /\ (a \in likes <=> Sent(t))

(* The set a lone tap would put back is the likes, but for its own arena.  *)
Alone ==
  \A t \in Taps : Under(t) /\ ~tap[t].beside =>
    /\ \A u \in Taps : Under(u) => u = t
    /\ slips = {} => /\ tap[t].before.read
                     /\ \A a \in Arenas : a \in tap[t].before.ids <=>
                          (IF a = tap[t].arena THEN tap[t].liked ELSE a \in likes)

(* The hearts at rest need the rest: what a tap under way made of both     *)
(* sides, and that only a lone tap can put its old set back unnoticed.     *)
LikedInv == LikedTyped /\ Resting /\ Apart /\ Agree /\ Alone

LEMMA LikedShapes ==
  /\ Liked!Unread \in Liked!Sets /\ ~Liked!Unread.read /\ Liked!Unread.ids = {}
  /\ \A ids \in SUBSET Arenas :
       Liked!Known(ids) \in Liked!Sets /\ Liked!Known(ids).read /\ Liked!Known(ids).ids = ids
  /\ \A h \in Liked!Sets : h.read \in BOOLEAN /\ h.ids \subseteq Arenas
  /\ Liked!NoAsk \in [at : {"idle", "asked", "served"}, answer : SUBSET Arenas]
  /\ Liked!NoAsk.at = "idle" /\ Liked!NoAsk.answer = {}
  /\ Liked!NoTap \in LikedTaps /\ Liked!NoTap.at = "idle"
<1>1. (CHOOSE a \in Arenas : TRUE) \in Arenas
  BY ArenasAssumption
<1>2. Liked!Unread \in Liked!Sets /\ ~Liked!Unread.read /\ Liked!Unread.ids = {}
  BY DEF Liked!Unread, Liked!Sets
<1>3. \A ids \in SUBSET Arenas :
        Liked!Known(ids) \in Liked!Sets /\ Liked!Known(ids).read /\ Liked!Known(ids).ids = ids
  BY DEF Liked!Known, Liked!Sets
<1>4. \A h \in Liked!Sets : h.read \in BOOLEAN /\ h.ids \subseteq Arenas
  <2> SUFFICES ASSUME NEW h \in Liked!Sets PROVE h.read \in BOOLEAN /\ h.ids \subseteq Arenas
    OBVIOUS
  <2>1. CASE h = Liked!Unread
    BY <2>1 DEF Liked!Unread
  <2>2. CASE h # Liked!Unread
    <3>1. PICK ids \in SUBSET Arenas : h = Liked!Known(ids)
      BY <2>2 DEF Liked!Sets
    <3> QED
      BY <1>3, <3>1
  <2> QED
    BY <2>1, <2>2
<1>5. /\ Liked!NoAsk \in [at : {"idle", "asked", "served"}, answer : SUBSET Arenas]
      /\ Liked!NoAsk.at = "idle" /\ Liked!NoAsk.answer = {}
  BY DEF Liked!NoAsk
<1>6. Liked!NoTap \in LikedTaps /\ Liked!NoTap.at = "idle"
  BY <1>1, <1>2 DEF Liked!NoTap, LikedTaps
<1> QED
  BY <1>2, <1>3, <1>4, <1>5, <1>6

(* The query ages, is asked, served or answered.                           *)
LEMMA QueryKeeps ==
  ASSUME LikedInv, Liked!Ages \/ Liked!Ask \/ Liked!ServeAsk \/ Liked!Answered \/ Liked!AskFails
  PROVE  LikedInv'
<1> DEFINE Fetches == [at : {"idle", "asked", "served"}, answer : SUBSET Arenas]
<1>t. fetching \in Fetches /\ fetching.answer \subseteq Arenas /\ aged \in BOOLEAN /\ likes \subseteq Arenas
  BY DEF LikedInv, LikedTyped
<1>1. /\ UNCHANGED <<likes, tap>>
      /\ \A t : (Under(t)' <=> Under(t)) /\ (Sent(t)' <=> Sent(t))
  BY DEF Under, Sent, Liked!Ages, Liked!Ask, Liked!ServeAsk, Liked!Answered, Liked!AskFails
<1>2. \/ UNCHANGED <<hearts, slips>>
      \/ /\ fetching.at = "served" /\ hearts' = Liked!Known(fetching.answer) /\ slips' = {}
         /\ fetching.answer = likes
         /\ \A t \in Taps : ~Under(t)
  BY DEF LikedInv, Resting, Liked!Ages, Liked!Ask, Liked!ServeAsk, Liked!Answered, Liked!AskFails
<1>3. fetching' \in Fetches /\ (fetching'.at = "served" => fetching'.answer = likes)
  <2>1. CASE Liked!Ages
    BY <1>t, <2>1 DEF Liked!Ages, LikedInv, Resting
  <2>2. CASE Liked!Ask
    <3>1. fetching' = [at |-> "asked", answer |-> {}]
      BY <2>2 DEF Liked!Ask, Liked!NoAsk
    <3> QED
      BY <3>1
  <2>3. CASE Liked!ServeAsk
    BY <1>t, <2>3 DEF Liked!ServeAsk
  <2>4. CASE Liked!Answered \/ Liked!AskFails
    BY <2>4, LikedShapes DEF Liked!Answered, Liked!AskFails
  <2> QED
    BY <2>1, <2>2, <2>3, <2>4
<1>4. /\ aged' \in BOOLEAN
      /\ \A t \in Taps : ~Under(t) \/ (UNCHANGED aged /\ fetching'.at = "idle")
  <2>1. CASE Liked!Ages
    BY <2>1 DEF Liked!Ages, Liked!Underway, Under
  <2>2. CASE ~Liked!Ages
    BY <1>t, <2>2, LikedShapes DEF Liked!Ask, Liked!ServeAsk, Liked!Answered, Liked!AskFails, LikedInv, Resting
  <2> QED
    BY <2>1, <2>2
<1>5. hearts' \in Liked!Sets /\ slips' \subseteq {"early", "twice", "beside", "lost"}
  <2>1. CASE UNCHANGED <<hearts, slips>>
    BY <2>1 DEF LikedInv, LikedTyped
  <2>2. CASE hearts' = Liked!Known(fetching.answer) /\ slips' = {}
    BY <1>t, <2>2, LikedShapes
  <2> QED
    BY <1>2, <2>1, <2>2
<1>6. LikedTyped'
  BY <1>1, <1>3, <1>4, <1>5 DEF LikedInv, LikedTyped
<1>7. Resting'
  BY <1>1, <1>2, <1>3, <1>4 DEF LikedInv, Resting
<1>8. Apart'
  BY <1>1, <1>2 DEF LikedInv, Apart
<1>9. Agree'
  BY <1>1, <1>2, <1>t, LikedShapes DEF LikedInv, Agree
<1>10. Alone'
  BY <1>1, <1>2 DEF LikedInv, Alone
<1> QED
  BY <1>6, <1>7, <1>8, <1>9, <1>10 DEF LikedInv

(* A tap fills or empties its heart before the server hears of it.         *)
LEMMA TapKeeps ==
  ASSUME LikedInv, NEW t \in Taps, NEW a \in Arenas, Liked!Tap(t, a)
  PROVE  LikedInv'
<1> DEFINE liked == a \in hearts.ids
           busy == Liked!Underway # {}
           ids == Liked!Flip(hearts.ids, a, liked)
           new == [at |-> "asked", arena |-> a, liked |-> liked, before |-> hearts, beside |-> busy]
           Beside(u) == [tap[u] EXCEPT !.beside = tap[u].at # "idle"]
<1>t. /\ hearts \in Liked!Sets /\ hearts.ids \subseteq Arenas /\ likes \subseteq Arenas
      /\ hearts.read \in BOOLEAN /\ tap \in [Taps -> LikedTaps]
  BY LikedShapes DEF LikedInv, LikedTyped
<1>1. /\ ~Under(t) /\ fetching' = Liked!NoAsk /\ hearts' = Liked!Known(ids) /\ aged' = FALSE
      /\ likes' = likes
      /\ tap' = [u \in Taps |-> IF u = t THEN new ELSE Beside(u)]
      /\ slips' = slips \union (IF hearts.read THEN {} ELSE {"early"})
                        \union (IF \E u \in Liked!Underway : tap[u].arena = a THEN {"twice"} ELSE {})
  BY DEF Liked!Tap, Liked!Cancelled, Under
<1>2. /\ new \in LikedTaps /\ new.at = "asked" /\ new.arena = a /\ new.before = hearts
      /\ new.liked <=> a \in hearts.ids
      /\ new.beside <=> \E u \in Taps : Under(u)
  <2>1. liked \in BOOLEAN /\ busy \in BOOLEAN
    OBVIOUS
  <2>2. busy <=> \E u \in Taps : Under(u)
    BY DEF Liked!Underway, Under
  <2> HIDE DEF liked, busy
  <2>3. new \in LikedTaps
    BY <1>t, <2>1 DEF LikedTaps
  <2>4. new.liked = liked /\ new.beside = busy /\ new.at = "asked" /\ new.arena = a /\ new.before = hearts
    OBVIOUS
  <2> HIDE DEF new
  <2> QED
    BY <2>2, <2>3, <2>4 DEF liked
<1>3. ASSUME NEW u \in Taps \ {t}
      PROVE  /\ Beside(u) \in LikedTaps
             /\ Beside(u).at = tap[u].at /\ Beside(u).arena = tap[u].arena
             /\ Beside(u).liked = tap[u].liked /\ Beside(u).before = tap[u].before
             /\ Beside(u).beside <=> Under(u)
  BY <1>t DEF LikedTaps, Under
<1>4. /\ ids \subseteq Arenas
      /\ \A b \in Arenas : b \in ids <=> (IF b = a THEN a \notin hearts.ids ELSE b \in hearts.ids)
  BY <1>t DEF Liked!Flip
<1>5. /\ hearts' \in Liked!Sets /\ hearts'.read /\ hearts'.ids = ids
  BY <1>1, <1>4, LikedShapes
<1> HIDE DEF new, Beside, ids
<1>6. /\ tap' \in [Taps -> LikedTaps] /\ tap'[t] = new
      /\ \A u \in Taps \ {t} : tap'[u] = Beside(u)
  BY <1>1, <1>2, <1>3
<1>7. /\ \A u \in Taps : Under(u)' <=> Under(u) \/ u = t
      /\ \A u \in Taps \ {t} : Sent(u)' <=> Sent(u)
      /\ Sent(t)' <=> a \in hearts.ids
  BY <1>2, <1>3, <1>6 DEF Under, Sent
<1>8. /\ slips' \subseteq {"early", "twice", "beside", "lost"}
      /\ slips' = {} => /\ slips = {} /\ hearts.read
                        /\ \A u \in Taps : Under(u) => tap[u].arena # a
  <2>1. (\E u \in Liked!Underway : tap[u].arena = a) <=> \E u \in Taps : Under(u) /\ tap[u].arena = a
    BY DEF Liked!Underway, Under
  <2> QED
    BY <1>1, <2>1 DEF LikedInv, LikedTyped
<1>9. LikedTyped'
  BY <1>1, <1>5, <1>6, <1>8, LikedShapes DEF LikedInv, LikedTyped
<1>10. Resting'
  BY <1>1, <1>5, LikedShapes DEF Resting
<1>11. Apart'
  BY <1>2, <1>3, <1>6, <1>7, <1>8 DEF LikedInv, Apart
<1>12. Agree'
  <2> SUFFICES ASSUME slips' = {}, NEW b \in Arenas
               PROVE  /\ (\A u \in Taps : Under(u)' => tap'[u].arena # b) => (b \in hearts'.ids <=> b \in likes')
                      /\ \A u \in Taps : Under(u)' /\ tap'[u].arena = b =>
                           (b \in hearts'.ids <=> ~tap'[u].liked) /\ (b \in likes' <=> Sent(u)')
    BY DEF Agree
  <2>1. /\ (\A u \in Taps : Under(u) => tap[u].arena # b) => (b \in hearts.ids <=> b \in likes)
        /\ \A u \in Taps : Under(u) /\ tap[u].arena = b =>
             (b \in hearts.ids <=> ~tap[u].liked) /\ (b \in likes <=> Sent(u))
    BY <1>8 DEF LikedInv, Agree
  <2>2. CASE b = a
    BY <1>1, <1>2, <1>3, <1>4, <1>5, <1>6, <1>7, <1>8, <2>1, <2>2
  <2>3. CASE b # a
    BY <1>1, <1>2, <1>3, <1>4, <1>5, <1>6, <1>7, <1>8, <2>1, <2>3
  <2> QED
    BY <2>2, <2>3
<1>13. Alone'
  <2> SUFFICES ASSUME NEW u \in Taps, Under(u)', ~tap'[u].beside
               PROVE  /\ \A w \in Taps : Under(w)' => w = u
                      /\ slips' = {} => /\ tap'[u].before.read
                                        /\ \A b \in Arenas : b \in tap'[u].before.ids <=>
                                             (IF b = tap'[u].arena THEN tap'[u].liked ELSE b \in likes')
    BY DEF Alone
  <2>1. u = t /\ \A w \in Taps : ~Under(w)
    BY <1>2, <1>3, <1>6, <1>7
  <2>2. slips' = {} => \A b \in Arenas : b \in hearts.ids <=> b \in likes
    BY <1>8, <2>1 DEF LikedInv, Agree
  <2> QED
    BY <1>1, <1>2, <1>6, <1>7, <1>8, <2>1, <2>2
<1> QED
  BY <1>9, <1>10, <1>11, <1>12, <1>13 DEF LikedInv

(* The server likes or unlikes the arena once, or refuses the tap.         *)
LEMMA ServeTapKeeps ==
  ASSUME LikedInv, NEW t \in Taps, Liked!ServeTap(t)
  PROVE  LikedInv'
<1> DEFINE arena == tap[t].arena
           served == /\ likes' = Liked!Flip(likes, arena, tap[t].liked)
                     /\ tap' = [tap EXCEPT ![t].at = "served"]
           refused == likes' = likes /\ tap' = [tap EXCEPT ![t].at = "refused"]
<1>t. /\ likes \subseteq Arenas /\ tap \in [Taps -> LikedTaps]
      /\ arena \in Arenas /\ tap[t].liked \in BOOLEAN
  BY DEF LikedInv, LikedTyped, LikedTaps
<1>1. /\ tap[t].at = "asked" /\ UNCHANGED <<hearts, aged, fetching, slips>>
      /\ served \/ refused
  BY DEF Liked!ServeTap
<1>2. /\ tap' \in [Taps -> LikedTaps]
      /\ \A u \in Taps \ {t} : tap'[u] = tap[u]
      /\ tap'[t].at # "idle" /\ tap'[t].arena = arena /\ tap'[t].liked = tap[t].liked
      /\ tap'[t].before = tap[t].before /\ tap'[t].beside = tap[t].beside
  BY <1>t, <1>1 DEF LikedTaps
<1>3. /\ likes' \subseteq Arenas
      /\ \A b \in Arenas \ {arena} : b \in likes' <=> b \in likes
  BY <1>t, <1>1 DEF Liked!Flip
<1>4. /\ \A u \in Taps : Under(u)' <=> Under(u)
      /\ \A u \in Taps \ {t} : Sent(u)' <=> Sent(u)
      /\ Under(t) /\ (Sent(t) <=> tap[t].liked)
  BY <1>1, <1>2 DEF Under, Sent
<1>5. (arena \in likes <=> Sent(t)) => (arena \in likes' <=> Sent(t)')
  <2>1. CASE served
    BY <1>t, <1>2, <2>1 DEF Sent, Liked!Flip, LikedTaps
  <2>2. CASE refused
    <3>1. tap'[t].at = "refused"
      BY <1>t, <2>2 DEF LikedTaps
    <3> QED
      BY <1>2, <1>4, <2>2, <3>1 DEF Sent
  <2> QED
    BY <1>1, <2>1, <2>2
<1> HIDE DEF served, refused
<1>6. LikedTyped'
  BY <1>1, <1>2, <1>3 DEF LikedInv, LikedTyped
<1>7. Resting'
  BY <1>1, <1>4 DEF LikedInv, Resting
<1>8. Apart'
  BY <1>1, <1>2, <1>4 DEF LikedInv, Apart
<1>9. Agree'
  <2> SUFFICES ASSUME slips = {}, hearts.read, NEW b \in Arenas
               PROVE  /\ (\A u \in Taps : Under(u)' => tap'[u].arena # b) => (b \in hearts.ids <=> b \in likes')
                      /\ \A u \in Taps : Under(u)' /\ tap'[u].arena = b =>
                           (b \in hearts.ids <=> ~tap'[u].liked) /\ (b \in likes' <=> Sent(u)')
    BY <1>1 DEF Agree
  <2>1. /\ (\A u \in Taps : Under(u) => tap[u].arena # b) => (b \in hearts.ids <=> b \in likes)
        /\ \A u \in Taps : Under(u) /\ tap[u].arena = b =>
             (b \in hearts.ids <=> ~tap[u].liked) /\ (b \in likes <=> Sent(u))
    BY DEF LikedInv, Agree
  <2>2. \A u \in Taps : Under(u) /\ u # t => tap[u].arena # arena
    BY <1>4 DEF LikedInv, Apart
  <2>3. CASE b = arena
    BY <1>2, <1>4, <1>5, <2>1, <2>2, <2>3
  <2>4. CASE b # arena
    BY <1>2, <1>3, <1>4, <2>1, <2>4
  <2> QED
    BY <2>3, <2>4
<1>10. Alone'
  <2> SUFFICES ASSUME NEW u \in Taps, Under(u)', ~tap'[u].beside
               PROVE  /\ \A w \in Taps : Under(w)' => w = u
                      /\ slips' = {} => /\ tap'[u].before.read
                                        /\ \A b \in Arenas : b \in tap'[u].before.ids <=>
                                             (IF b = tap'[u].arena THEN tap'[u].liked ELSE b \in likes')
    BY DEF Alone
  <2>1. Under(u) /\ ~tap[u].beside
    BY <1>2, <1>4
  <2>2. u = t
    BY <1>4, <2>1 DEF LikedInv, Alone
  <2>3. /\ \A w \in Taps : Under(w) => w = t
        /\ slips = {} => /\ tap[t].before.read
                         /\ \A b \in Arenas : b \in tap[t].before.ids <=>
                              (IF b = arena THEN tap[t].liked ELSE b \in likes)
    BY <2>1, <2>2 DEF LikedInv, Alone
  <2> QED
    BY <1>1, <1>2, <1>3, <1>4, <2>2, <2>3
<1> QED
  BY <1>6, <1>7, <1>8, <1>9, <1>10 DEF LikedInv

(* A tap that the server took leaves both sides alike.                     *)
LEMMA SavedKeeps ==
  ASSUME LikedInv, NEW t \in Taps, Liked!Saved(t)
  PROVE  LikedInv'
<1>1. /\ tap[t].at = "served" /\ tap' = [tap EXCEPT ![t] = Liked!NoTap]
      /\ UNCHANGED <<likes, hearts, aged, fetching, slips>>
  BY DEF Liked!Saved
<1>2. tap \in [Taps -> LikedTaps]
  BY DEF LikedInv, LikedTyped
<1>3. /\ tap' \in [Taps -> LikedTaps] /\ tap'[t].at = "idle"
      /\ \A u \in Taps \ {t} : tap'[u] = tap[u]
  BY <1>1, <1>2, LikedShapes
<1>4. /\ \A u \in Taps : Under(u)' <=> Under(u) /\ u # t
      /\ \A u \in Taps \ {t} : Sent(u)' <=> Sent(u)
      /\ Under(t) /\ (Sent(t) <=> ~tap[t].liked)
  BY <1>1, <1>3 DEF Under, Sent
<1>5. LikedTyped'
  BY <1>1, <1>3 DEF LikedInv, LikedTyped
<1>6. Resting'
  BY <1>1, <1>4 DEF LikedInv, Resting
<1>7. Apart'
  BY <1>1, <1>3, <1>4 DEF LikedInv, Apart
<1>8. Agree'
  <2> SUFFICES ASSUME slips = {}, hearts.read, NEW b \in Arenas
               PROVE  /\ (\A u \in Taps : Under(u)' => tap'[u].arena # b) => (b \in hearts.ids <=> b \in likes)
                      /\ \A u \in Taps : Under(u)' /\ tap'[u].arena = b =>
                           (b \in hearts.ids <=> ~tap'[u].liked) /\ (b \in likes <=> Sent(u)')
    BY <1>1 DEF Agree
  <2>1. /\ (\A u \in Taps : Under(u) => tap[u].arena # b) => (b \in hearts.ids <=> b \in likes)
        /\ \A u \in Taps : Under(u) /\ tap[u].arena = b =>
             (b \in hearts.ids <=> ~tap[u].liked) /\ (b \in likes <=> Sent(u))
    BY DEF LikedInv, Agree
  <2> QED
    BY <1>3, <1>4, <2>1
<1>9. Alone'
  <2>1. \A u \in Taps : Under(u)' => tap'[u].beside
    BY <1>3, <1>4 DEF LikedInv, Alone
  <2> QED
    BY <2>1 DEF Alone
<1> QED
  BY <1>5, <1>6, <1>7, <1>8, <1>9 DEF LikedInv

(* The old set comes back: a slip, unless the tap was alone and refused.   *)
LEMMA NotSavedKeeps ==
  ASSUME LikedInv, NEW t \in Taps, Liked!NotSaved(t)
  PROVE  LikedInv'
<1>1. /\ tap[t].at # "idle" /\ tap' = [tap EXCEPT ![t] = Liked!NoTap]
      /\ UNCHANGED <<likes, fetching>>
      /\ slips' = slips \union (IF tap[t].beside THEN {"beside"} ELSE {})
                        \union (IF tap[t].at = "refused" THEN {} ELSE {"lost"})
      /\ IF tap[t].before.read THEN hearts' = tap[t].before /\ aged' = FALSE ELSE UNCHANGED <<hearts, aged>>
  BY DEF Liked!NotSaved, Liked!PutBack
<1>2. tap \in [Taps -> LikedTaps] /\ tap[t].before \in Liked!Sets
  BY DEF LikedInv, LikedTyped, LikedTaps
<1>3. /\ tap' \in [Taps -> LikedTaps] /\ tap'[t].at = "idle"
      /\ \A u \in Taps \ {t} : tap'[u] = tap[u]
  BY <1>1, <1>2, LikedShapes
<1>4. Under(t) /\ \A u \in Taps : Under(u)' <=> Under(u) /\ u # t
  BY <1>1, <1>3 DEF Under
<1>5. /\ slips' \subseteq {"early", "twice", "beside", "lost"}
      /\ slips' = {} => slips = {} /\ ~tap[t].beside /\ tap[t].at = "refused"
  BY <1>1 DEF LikedInv, LikedTyped
<1>6. LikedTyped'
  BY <1>1, <1>2, <1>3, <1>5 DEF LikedInv, LikedTyped
<1>7. Resting'
  BY <1>1, <1>4 DEF LikedInv, Resting
<1>8. Apart'
  BY <1>3, <1>4, <1>5 DEF LikedInv, Apart
<1>9. Agree'
  <2> SUFFICES ASSUME slips' = {}, NEW b \in Arenas
               PROVE  /\ \A u \in Taps : ~Under(u)'
                      /\ b \in hearts'.ids <=> b \in likes'
    BY DEF Agree
  <2>1. /\ slips = {} /\ hearts' = tap[t].before
        /\ \A w \in Taps : Under(w) => w = t
        /\ b \in hearts'.ids <=> (IF b = tap[t].arena THEN tap[t].liked ELSE b \in likes)
    BY <1>1, <1>4, <1>5 DEF LikedInv, Alone
  <2>2. b = tap[t].arena => (b \in likes <=> tap[t].liked)
    BY <1>1, <1>4, <1>5, <2>1 DEF LikedInv, Agree, Resting, Sent
  <2> QED
    BY <1>1, <1>4, <2>1, <2>2
<1>10. Alone'
  <2>1. \A u \in Taps : Under(u)' => tap'[u].beside
    BY <1>3, <1>4 DEF LikedInv, Alone
  <2> QED
    BY <2>1 DEF Alone
<1> QED
  BY <1>6, <1>7, <1>8, <1>9, <1>10 DEF LikedInv

LEMMA LikedInit == Liked!Init => LikedInv
<1> SUFFICES ASSUME Liked!Init PROVE LikedInv
  OBVIOUS
<1>1. /\ likes \subseteq Arenas /\ hearts = Liked!Unread /\ aged = FALSE /\ slips = {}
      /\ fetching = [at |-> "asked", answer |-> {}]
      /\ tap = [t \in Taps |-> Liked!NoTap]
  BY DEF Liked!Init, Liked!NoAsk
<1>2. tap \in [Taps -> LikedTaps] /\ \A t \in Taps : ~Under(t)
  BY <1>1, LikedShapes DEF Under
<1>3. LikedTyped
  BY <1>1, <1>2, LikedShapes DEF LikedTyped
<1>4. Resting /\ Apart /\ Agree /\ Alone
  BY <1>1, <1>2, LikedShapes DEF Resting, Apart, Agree, Alone
<1> QED
  BY <1>3, <1>4 DEF LikedInv

LEMMA LikedStep ==
  ASSUME LikedInv, Liked!Next \/ UNCHANGED likedVars
  PROVE  LikedInv'
<1>1. CASE Liked!Ages \/ Liked!Ask \/ Liked!ServeAsk \/ Liked!Answered \/ Liked!AskFails
  BY <1>1, QueryKeeps
<1>2. ASSUME NEW t \in Taps, (\E a \in Arenas : Liked!Tap(t, a)) \/ Liked!ServeTap(t) \/ Liked!Saved(t) \/ Liked!NotSaved(t)
      PROVE  LikedInv'
  BY <1>2, TapKeeps, ServeTapKeeps, SavedKeeps, NotSavedKeeps
<1>3. CASE UNCHANGED likedVars
  <2>1. \A t : (Under(t)' <=> Under(t)) /\ (Sent(t)' <=> Sent(t))
    BY <1>3 DEF likedVars, Under, Sent
  <2> QED
    BY <1>3, <2>1 DEF likedVars, LikedInv, LikedTyped, Resting, Apart, Agree, Alone
<1> QED
  BY <1>1, <1>2, <1>3 DEF Liked!Next

(* A step of the clients is one of the hearts, or leaves them.             *)
LEMMA LikedMoves ==
  ASSUME [Next]_vars
  PROVE  UNCHANGED part /\ (part = "liked" => Liked!Next \/ UNCHANGED likedVars)
BY DEF Next, Only, vars

(* The invariant of the clients, as far as the hearts go.                  *)
HeartsInv == part = "liked" => LikedInv

LEMMA HeartsHold == Spec => []HeartsInv
<1>1. Init => HeartsInv
  BY LikedInit DEF Init, HeartsInv
<1>2. HeartsInv /\ [Next]_vars => HeartsInv'
  BY LikedMoves, LikedStep DEF HeartsInv
<1> QED
  BY <1>1, <1>2, PTL DEF Spec

(* hooks/useLiked.ts: with no tap under way the hearts are the likes of    *)
(* the server, unless a tap came before the first answer, two taps on one  *)
(* arena crossed, a tap failed beside another, or an answer was lost.      *)
THEOREM HeartsStayTrue == Spec => []HeartsAreLikes
<1>1. HeartsInv => HeartsAreLikes
  <2> SUFFICES ASSUME LikedInv, hearts.read, Liked!Underway = {}, slips = {} PROVE hearts.ids = likes
    BY DEF HeartsInv, HeartsAreLikes, Liked!HeartsAreLikes
  <2>1. \A t \in Taps : ~Under(t)
    BY DEF Liked!Underway, Under
  <2>2. hearts.ids \subseteq Arenas /\ likes \subseteq Arenas
    BY LikedShapes DEF LikedInv, LikedTyped
  <2>3. \A a \in Arenas : a \in hearts.ids <=> a \in likes
    BY <2>1 DEF LikedInv, Agree
  <2> QED
    BY <2>2, <2>3
<1> QED
  BY <1>1, HeartsHold, PTL

-----------------------------------------------------------------------------
(* Picking hours: the list and the channel                                 *)

Messages == [hour : Slots!Hours, state : Slots!States]
HourLists == [Slots!Hours -> Slots!States \union {"unknown"}]
HourFetches == [at : {"idle", "asked", "served"}, answer : HourLists]

(* A message about hour h is still to come.                                *)
Told(h) == \E i \in 1..Len(inbox) : inbox[i].hour = h

(* What comes last about an hour is what the server has.                   *)
NewestIsTrue(h) ==
  \A i \in 1..Len(inbox) :
    inbox[i].hour = h /\ (\A j \in 1..Len(inbox) : inbox[j].hour = h => j <= i)
      => inbox[i].state = hours[h]

(* An answer on its way, or the list at rest, is right about an hour that  *)
(* has no message to come.                                                 *)
AnswerIsTrue(h) ==
  fetch.at = "served" /\ socket # "down" => Told(h) \/ fetch.answer[h] = hours[h]

ListIsTrue(h) ==
  fetch.at = "idle" /\ socket # "down" => Told(h) \/ list[h] = hours[h]

Excused(h) == h \in unseen \union releasing

SlotsTyped ==
  /\ hours \in [Slots!Hours -> Slots!States]
  /\ releasing \subseteq Slots!Hours
  /\ socket \in {"connecting", "open", "down"}
  /\ inbox \in Seq(Messages)
  /\ fetch \in HourFetches /\ (fetch.at = "served" => fetch.answer \in [Slots!Hours -> Slots!States])
  /\ list \in HourLists
  /\ picked \subseteq Slots!Hours
  /\ unseen \subseteq Slots!Hours

(* Nothing is on a channel that is not open, and a list that no fetch is   *)
(* about to fill claims nothing.                                           *)
Deaf == socket # "open" => inbox = <<>>
Blank == fetch.at = "idle" /\ list = Slots!Unknown => unseen = Slots!Hours

(* The list at rest needs the rest: what is on its way, by either way.     *)
HourInv ==
  /\ SlotsTyped /\ Deaf /\ Blank
  /\ \A h \in Slots!Hours :
       Excused(h) \/ (NewestIsTrue(h) /\ AnswerIsTrue(h) /\ ListIsTrue(h))

LEMMA SlotShapes ==
  /\ Slots!Unknown \in HourLists /\ \A h \in Slots!Hours : Slots!Unknown[h] = "unknown"
  /\ Slots!NoFetch \in HourFetches /\ Slots!NoFetch.at = "idle"
  /\ [Slots!NoFetch EXCEPT !.at = "asked"] \in HourFetches
  /\ [Slots!NoFetch EXCEPT !.at = "asked"].at = "asked"
BY DEF Slots!Unknown, HourLists, Slots!NoFetch, HourFetches

(* The channel as a sequence.                                              *)
LEMMA Appended ==
  ASSUME inbox \in Seq(Messages), NEW m \in Messages, inbox' = Append(inbox, m)
  PROVE  /\ inbox' \in Seq(Messages) /\ Len(inbox) \in Nat /\ Len(inbox') = Len(inbox) + 1
         /\ \A i \in 1..Len(inbox) : inbox'[i] = inbox[i]
         /\ inbox'[Len(inbox) + 1] = m
BY SMT

LEMMA Received ==
  ASSUME inbox \in Seq(Messages), inbox # <<>>, inbox' = Tail(inbox)
  PROVE  /\ inbox' \in Seq(Messages) /\ Len(inbox) \in Nat /\ Len(inbox') = Len(inbox) - 1
         /\ Head(inbox) \in Messages /\ Head(inbox) = inbox[1] /\ 1 \in 1..Len(inbox)
         /\ \A i \in 1..Len(inbox') : inbox'[i] = inbox[i + 1]
BY SMT

LEMMA EmptyBox ==
  ASSUME inbox = <<>>
  PROVE  Len(inbox) = 0 /\ \A i \in 1..Len(inbox) : FALSE
BY SMT

(* A change of hour h that is announced leaves the other hours' messages   *)
(* as they were.                                                           *)
LEMMA AnnouncedApart ==
  ASSUME SlotsTyped, NEW h \in Slots!Hours, NEW s \in Slots!States, Slots!Announced(h, s),
         socket' = socket
  PROVE  /\ inbox' \in Seq(Messages)
         /\ socket # "open" => inbox' = inbox
         /\ \A g \in Slots!Hours \ {h} :
              /\ Told(g)' <=> Told(g)
              /\ NewestIsTrue(g) /\ hours'[g] = hours[g] => NewestIsTrue(g)'
         /\ socket = "open" => Told(h)' /\ (hours'[h] = s => NewestIsTrue(h)')
<1>1. CASE socket # "open"
  <2>1. inbox' = inbox
    BY <1>1 DEF Slots!Announced
  <2> QED
    BY <1>1, <2>1 DEF SlotsTyped, Told, NewestIsTrue
<1>2. CASE socket = "open"
  <2> DEFINE m == [hour |-> h, state |-> s]
             n == Len(inbox)
  <2>1. m \in Messages /\ m.hour = h /\ m.state = s /\ inbox' = Append(inbox, m)
    BY <1>2 DEF Messages, Slots!Announced
  <2>2. /\ inbox' \in Seq(Messages) /\ n \in Nat /\ Len(inbox') = n + 1
        /\ \A i \in 1..n : inbox'[i] = inbox[i]
        /\ inbox'[n + 1] = m
    BY <2>1, Appended DEF SlotsTyped
  <2> HIDE DEF m, n
  <2>3. /\ n + 1 \in 1..(n + 1) /\ 1..(n + 1) = (1..n) \union {n + 1}
        /\ \A i \in 1..n : i <= n + 1 /\ ~(n + 1 <= i)
        /\ n + 1 <= n + 1
    BY <2>2
  <2>4. \A g \in Slots!Hours \ {h} : Told(g)' <=> Told(g)
    BY <2>1, <2>2, <2>3 DEF Told, n
  <2>5. \A g \in Slots!Hours \ {h} : NewestIsTrue(g) /\ hours'[g] = hours[g] => NewestIsTrue(g)'
    BY <2>1, <2>2, <2>3 DEF NewestIsTrue, n
  <2>6. Told(h)'
    BY <2>1, <2>2, <2>3 DEF Told
  <2>7. hours'[h] = s => NewestIsTrue(h)'
    <3> SUFFICES ASSUME hours'[h] = s, NEW i \in 1..Len(inbox'), inbox'[i].hour = h,
                        \A j \in 1..Len(inbox') : inbox'[j].hour = h => j <= i
                 PROVE  inbox'[i].state = hours'[h]
      BY DEF NewestIsTrue
    <3>1. n + 1 <= i
      BY <2>1, <2>2, <2>3
    <3> QED
      BY <2>1, <2>2, <2>3, <3>1
  <2> QED
    BY <1>2, <2>2, <2>4, <2>5, <2>6, <2>7
<1> QED
  BY <1>1, <1>2

LEMMA TakeKeeps ==
  ASSUME HourInv, NEW h \in Slots!Hours, Slots!Take(h)
  PROVE  HourInv'
<1>1. /\ hours' = [hours EXCEPT ![h] = "taken"] /\ Slots!Announced(h, "taken")
      /\ unseen' = Slots!Missed(h)
      /\ UNCHANGED <<releasing, socket, fetch, list, picked>>
  BY DEF Slots!Take
<1>2. /\ hours' \in [Slots!Hours -> Slots!States] /\ hours'[h] = "taken" /\ "taken" \in Slots!States
      /\ \A g \in Slots!Hours \ {h} : hours'[g] = hours[g]
  BY <1>1 DEF HourInv, SlotsTyped, Slots!States
<1>3. /\ unseen \subseteq unseen' /\ unseen' \subseteq Slots!Hours
      /\ socket = "connecting" /\ fetch.at # "asked" => h \in unseen'
  BY <1>1 DEF Slots!Missed, HourInv, SlotsTyped
<1>4. /\ inbox' \in Seq(Messages) /\ (socket # "open" => inbox' = inbox)
      /\ \A g \in Slots!Hours \ {h} : (Told(g)' <=> Told(g)) /\ (NewestIsTrue(g) => NewestIsTrue(g)')
      /\ socket = "open" => Told(h)' /\ NewestIsTrue(h)'
  BY <1>1, <1>2, AnnouncedApart DEF HourInv
<1>5. SlotsTyped' /\ Deaf' /\ Blank'
  BY <1>1, <1>2, <1>3, <1>4 DEF HourInv, SlotsTyped, Deaf, Blank
<1>6. ASSUME NEW g \in Slots!Hours, g # h
      PROVE  Excused(g)' \/ (NewestIsTrue(g) /\ AnswerIsTrue(g) /\ ListIsTrue(g))'
  BY <1>1, <1>2, <1>3, <1>4, <1>6 DEF HourInv, Excused, AnswerIsTrue, ListIsTrue
<1>7. Excused(h)' \/ (NewestIsTrue(h) /\ AnswerIsTrue(h) /\ ListIsTrue(h))'
  <2>1. CASE socket = "open"
    BY <1>1, <1>4, <2>1 DEF AnswerIsTrue, ListIsTrue
  <2>2. CASE socket # "open"
    <3>1. inbox' = <<>>
      BY <1>4, <2>2 DEF HourInv, Deaf
    <3>2. NewestIsTrue(h)'
      BY <3>1, EmptyBox DEF NewestIsTrue
    <3>3. h \in unseen' \/ (AnswerIsTrue(h) /\ ListIsTrue(h))'
      BY <1>1, <1>3, <2>2 DEF HourInv, SlotsTyped, AnswerIsTrue, ListIsTrue
    <3> QED
      BY <3>2, <3>3 DEF Excused
  <2> QED
    BY <2>1, <2>2
<1> QED
  BY <1>5, <1>6, <1>7 DEF HourInv

LEMMA AnnounceKeeps ==
  ASSUME HourInv, NEW h \in Slots!Hours, Slots!AnnounceRelease(h)
  PROVE  HourInv'
<1>1. /\ Slots!Announced(h, "open") /\ releasing' = releasing \union {h}
      /\ UNCHANGED <<hours, socket, fetch, list, picked, unseen>>
  BY DEF Slots!AnnounceRelease
<1>2. /\ inbox' \in Seq(Messages) /\ (socket # "open" => inbox' = inbox)
      /\ \A g \in Slots!Hours \ {h} : (Told(g)' <=> Told(g)) /\ (NewestIsTrue(g) => NewestIsTrue(g)')
  BY <1>1, AnnouncedApart DEF HourInv, Slots!States
<1>3. SlotsTyped' /\ Deaf' /\ Blank'
  BY <1>1, <1>2 DEF HourInv, SlotsTyped, Deaf, Blank
<1>4. ASSUME NEW g \in Slots!Hours
      PROVE  Excused(g)' \/ (NewestIsTrue(g) /\ AnswerIsTrue(g) /\ ListIsTrue(g))'
  BY <1>1, <1>2 DEF HourInv, Excused, AnswerIsTrue, ListIsTrue
<1> QED
  BY <1>3, <1>4 DEF HourInv

LEMMA EndReleaseKeeps ==
  ASSUME HourInv, NEW h \in Slots!Hours, NEW ok \in BOOLEAN, Slots!EndRelease(h, ok)
  PROVE  HourInv'
<1>1. /\ releasing' = releasing \ {h} /\ unseen' = unseen \union {h}
      /\ hours' = IF ok THEN [hours EXCEPT ![h] = "open"] ELSE hours
      /\ UNCHANGED <<socket, inbox, fetch, list, picked>>
  BY DEF Slots!EndRelease
<1>2. /\ hours' \in [Slots!Hours -> Slots!States]
      /\ \A g \in Slots!Hours \ {h} : hours'[g] = hours[g]
  BY <1>1 DEF HourInv, SlotsTyped, Slots!States
<1>3. SlotsTyped' /\ Deaf' /\ Blank'
  BY <1>1, <1>2 DEF HourInv, SlotsTyped, Deaf, Blank
<1>4. ASSUME NEW g \in Slots!Hours
      PROVE  Excused(g)' \/ (NewestIsTrue(g) /\ AnswerIsTrue(g) /\ ListIsTrue(g))'
  BY <1>1, <1>2 DEF HourInv, Excused, NewestIsTrue, AnswerIsTrue,
                   ListIsTrue, Told
<1> QED
  BY <1>3, <1>4 DEF HourInv

LEMMA RefetchKeeps ==
  ASSUME HourInv, Slots!Refetch
  PROVE  HourInv'
<1>1. /\ fetch' = [Slots!NoFetch EXCEPT !.at = "asked"]
      /\ UNCHANGED <<hours, releasing, socket, inbox, list, picked, unseen>>
  BY DEF Slots!Refetch
<1>2. fetch' \in HourFetches /\ fetch'.at = "asked"
  BY <1>1, SlotShapes
<1> QED
  BY <1>1, <1>2 DEF HourInv, SlotsTyped, Deaf, Blank, Excused, NewestIsTrue, AnswerIsTrue,
                   ListIsTrue, Told

(* From here on the answer is true of every hour but those whose messages, *)
(* or whose release, say otherwise.                                        *)
LEMMA ServeFetchKeeps ==
  ASSUME HourInv, Slots!ServeFetch
  PROVE  HourInv'
<1>1. /\ fetch' = [at |-> "served", answer |-> hours]
      /\ unseen' = releasing \union Slots!Outdated
      /\ UNCHANGED <<hours, releasing, socket, inbox, list, picked>>
  BY DEF Slots!ServeFetch
<1>2. fetch' \in HourFetches /\ fetch'.at = "served" /\ fetch'.answer = hours
  BY <1>1 DEF HourFetches, HourLists, HourInv, SlotsTyped
<1>3. \A i \in 1..Len(inbox) : inbox[i] \in Messages
  BY DEF HourInv, SlotsTyped
<1>4. Slots!Outdated \subseteq Slots!Hours
  BY <1>3 DEF Slots!Outdated, Messages
<1>5. \A i \in 1..Len(inbox) :
        inbox[i].hour \notin Slots!Outdated => inbox[i].state = hours[inbox[i].hour]
  BY DEF Slots!Outdated
<1>6. SlotsTyped' /\ Deaf' /\ Blank'
  BY <1>1, <1>2, <1>4 DEF HourInv, SlotsTyped, Deaf, Blank
<1>7. ASSUME NEW g \in Slots!Hours
      PROVE  Excused(g)' \/ (NewestIsTrue(g) /\ AnswerIsTrue(g) /\ ListIsTrue(g))'
  BY <1>1, <1>2, <1>5 DEF Excused, NewestIsTrue, AnswerIsTrue,
                   ListIsTrue
<1> QED
  BY <1>6, <1>7 DEF HourInv

(* A list that came from an answer shows the answer.                       *)
LEMMA FetchedKeeps ==
  ASSUME HourInv, Slots!Fetched
  PROVE  HourInv'
<1>1. /\ fetch.at = "served" /\ list' = fetch.answer /\ fetch' = Slots!NoFetch
      /\ picked' \subseteq picked
      /\ UNCHANGED <<hours, releasing, socket, inbox, unseen>>
  BY DEF Slots!Fetched, Slots!Noticed
<1>2. fetch' \in HourFetches /\ fetch'.at = "idle" /\ list' \in HourLists
  BY <1>1, SlotShapes DEF HourInv, SlotsTyped, HourFetches
<1>3. list' = Slots!Unknown => Slots!Hours = {}
  BY <1>1, SlotShapes DEF HourInv, SlotsTyped, Slots!States
<1>4. SlotsTyped' /\ Deaf' /\ Blank'
  BY <1>1, <1>2, <1>3 DEF HourInv, SlotsTyped, Deaf, Blank
<1>5. ASSUME NEW g \in Slots!Hours
      PROVE  Excused(g)' \/ (NewestIsTrue(g) /\ AnswerIsTrue(g) /\ ListIsTrue(g))'
  BY <1>1, <1>2 DEF HourInv, Excused, NewestIsTrue, AnswerIsTrue,
                   ListIsTrue, Told
<1> QED
  BY <1>4, <1>5 DEF HourInv

LEMMA FetchFailsKeeps ==
  ASSUME HourInv, Slots!FetchFails
  PROVE  HourInv'
<1>1. /\ fetch' = Slots!NoFetch /\ unseen' = Slots!Hours
      /\ UNCHANGED <<hours, releasing, socket, inbox, list, picked>>
  BY DEF Slots!FetchFails
<1> QED
  BY <1>1, SlotShapes DEF HourInv, SlotsTyped, Deaf, Blank, Excused

LEMMA SocketKeeps ==
  ASSUME HourInv, Slots!SocketOpens \/ Slots!SocketCloses
  PROVE  HourInv'
<1>1. CASE Slots!SocketOpens
  <2>1. /\ socket = "connecting" /\ socket' = "open" /\ inbox' = inbox
        /\ UNCHANGED <<hours, releasing, fetch, list, picked, unseen>>
    BY <1>1 DEF Slots!SocketOpens
  <2> QED
    BY <2>1 DEF HourInv, SlotsTyped, Deaf, Blank, Excused, NewestIsTrue, AnswerIsTrue,
                   ListIsTrue, Told
<1>2. CASE Slots!SocketCloses
  <2>1. /\ socket' = "down" /\ inbox' = <<>>
        /\ UNCHANGED <<hours, releasing, fetch, list, picked, unseen>>
    BY <1>2 DEF Slots!SocketCloses
  <2>2. \A i \in 1..Len(inbox') : FALSE
    BY <2>1
  <2>3. inbox' \in Seq(Messages)
    BY <2>1
  <2> QED
    BY <2>1, <2>2, <2>3 DEF HourInv, SlotsTyped, Deaf, Blank, Excused, NewestIsTrue, AnswerIsTrue,
                   ListIsTrue
<1> QED
  BY <1>1, <1>2

(* A message is taken off: those behind it stay in order.                  *)
LEMMA ReceivedApart ==
  ASSUME SlotsTyped, inbox # <<>>, inbox' = Tail(inbox), hours' = hours, NEW g \in Slots!Hours
  PROVE  /\ NewestIsTrue(g) => NewestIsTrue(g)'
         /\ Told(g) => Told(g)' \/ (inbox[1].hour = g /\ (NewestIsTrue(g) => inbox[1].state = hours[g]))
<1> DEFINE n == Len(inbox')
<1>1. /\ n \in Nat /\ Len(inbox) = n + 1 /\ inbox' \in Seq(Messages)
      /\ \A i \in 1..n : inbox'[i] = inbox[i + 1]
  BY Received DEF SlotsTyped
<1> HIDE DEF n
<1>2. /\ \A i \in 1..n : i + 1 \in 1..(n + 1)
      /\ \A i \in 1..(n + 1) : i = 1 \/ (i - 1 \in 1..n /\ i = (i - 1) + 1)
      /\ \A i, j \in 1..n : i + 1 <= j + 1 <=> i <= j
      /\ \A j \in 1..n : 1 <= j + 1
      /\ 1 \in 1..(n + 1) /\ 1 <= 1
  BY <1>1
<1>3. NewestIsTrue(g) => NewestIsTrue(g)'
  <2> SUFFICES ASSUME NewestIsTrue(g), NEW i \in 1..n, inbox'[i].hour = g,
                      \A j \in 1..n : inbox'[j].hour = g => j <= i
               PROVE  inbox'[i].state = hours[g]
    BY DEF NewestIsTrue, n
  <2>1. i + 1 \in 1..(n + 1) /\ inbox[i + 1] = inbox'[i]
    BY <1>1, <1>2
  <2>2. ASSUME NEW j \in 1..(n + 1), inbox[j].hour = g PROVE j <= i + 1
    <3>1. CASE j = 1
      BY <1>2, <3>1
    <3>2. CASE j # 1
      <4>1. j - 1 \in 1..n /\ inbox'[j - 1] = inbox[j]
        BY <1>1, <1>2, <3>2
      <4>2. j - 1 <= i
        BY <2>2, <4>1
      <4> QED
        BY <1>1, <4>1, <4>2
    <3> QED
      BY <3>1, <3>2
  <2> QED
    BY <1>1, <2>1, <2>2 DEF NewestIsTrue
<1>4. ASSUME Told(g), ~Told(g)'
      PROVE  inbox[1].hour = g /\ (NewestIsTrue(g) => inbox[1].state = hours[g])
  <2>1. PICK i \in 1..(n + 1) : inbox[i].hour = g
    BY <1>1, <1>4 DEF Told
  <2>2. \A j \in 1..(n + 1) : inbox[j].hour = g => j = 1
    <3> SUFFICES ASSUME NEW j \in 1..(n + 1), inbox[j].hour = g, j # 1 PROVE FALSE
      OBVIOUS
    <3>1. j - 1 \in 1..n /\ inbox'[j - 1] = inbox[j]
      BY <1>1, <1>2
    <3> QED
      BY <1>4, <3>1 DEF Told, n
  <2> QED
    BY <1>1, <1>2, <2>1, <2>2 DEF NewestIsTrue
<1> QED
  BY <1>3, <1>4

LEMMA ReceiveKeeps ==
  ASSUME HourInv, Slots!Receive
  PROVE  HourInv'
<1>1. /\ inbox # <<>> /\ inbox' = Tail(inbox) /\ list' = Slots!Patched(Head(inbox))
      /\ picked' \subseteq picked
      /\ unseen' = IF fetch.at = "served" THEN unseen \union {Head(inbox).hour} ELSE unseen
      /\ UNCHANGED <<hours, releasing, socket, fetch>>
  BY DEF Slots!Receive, Slots!Noticed
<1>2. /\ inbox' \in Seq(Messages) /\ Head(inbox) \in Messages /\ Head(inbox) = inbox[1]
  BY <1>1, Received DEF HourInv, SlotsTyped
<1>3. inbox[1].hour \in Slots!Hours /\ inbox[1].state \in Slots!States
  BY <1>2 DEF Messages
<1>4. list' = IF list = Slots!Unknown THEN list ELSE [list EXCEPT ![inbox[1].hour] = inbox[1].state]
  BY <1>1, <1>2 DEF Slots!Patched
<1>5. /\ list' \in HourLists
      /\ list' = Slots!Unknown => list = Slots!Unknown
      /\ \A g \in Slots!Hours : inbox[1].hour # g => list'[g] = list[g]
      /\ list # Slots!Unknown => list'[inbox[1].hour] = inbox[1].state
  <2>1. inbox[1].state # "unknown"
    BY <1>3 DEF Slots!States
  <2> QED
    BY <1>3, <1>4, <2>1, SlotShapes DEF HourInv, SlotsTyped, HourLists
<1>6. SlotsTyped' /\ Deaf' /\ Blank'
  BY <1>1, <1>2, <1>3, <1>5 DEF HourInv, SlotsTyped, Deaf, Blank
<1>7. ASSUME NEW g \in Slots!Hours
      PROVE  Excused(g)' \/ (NewestIsTrue(g) /\ AnswerIsTrue(g) /\ ListIsTrue(g))'
  <2> SUFFICES ASSUME ~Excused(g)' PROVE (NewestIsTrue(g) /\ AnswerIsTrue(g) /\ ListIsTrue(g))'
    OBVIOUS
  <2>1. ~Excused(g) /\ (fetch.at = "served" => inbox[1].hour # g)
    BY <1>1, <1>2 DEF Excused
  <2>2. NewestIsTrue(g) /\ AnswerIsTrue(g) /\ ListIsTrue(g)
    BY <2>1 DEF HourInv
  <2>3. /\ NewestIsTrue(g)'
        /\ Told(g) => Told(g)' \/ (inbox[1].hour = g /\ inbox[1].state = hours[g])
    BY <1>1, <2>2, ReceivedApart DEF HourInv
  <2>4. AnswerIsTrue(g)'
    BY <1>1, <2>1, <2>2, <2>3 DEF AnswerIsTrue
  <2>5. ListIsTrue(g)'
    <3> SUFFICES ASSUME fetch.at = "idle", socket # "down", ~Told(g)' PROVE list'[g] = hours[g]
      BY <1>1 DEF ListIsTrue
    <3>1. list # Slots!Unknown
      BY <2>1 DEF HourInv, Blank, Excused
    <3>2. CASE inbox[1].hour = g
      <4>1. Told(g)
        BY <1>1, <3>2, Received DEF Told, HourInv, SlotsTyped
      <4> QED
        BY <1>5, <2>3, <3>1, <3>2, <4>1
    <3>3. CASE inbox[1].hour # g
      BY <1>5, <2>2, <2>3, <3>3 DEF ListIsTrue
    <3> QED
      BY <3>2, <3>3
  <2> QED
    BY <2>3, <2>4, <2>5
<1> QED
  BY <1>6, <1>7 DEF HourInv

LEMMA ReconnectKeeps ==
  ASSUME HourInv, Slots!Reconnect
  PROVE  HourInv'
<1>1. /\ socket = "down" /\ socket' = "connecting" /\ fetch' = Slots!Invalidated
      /\ unseen' = IF Slots!FirstOut /\ fetch.at = "served"
                   THEN unseen \union {h \in Slots!Hours : fetch.answer[h] # hours[h]} ELSE unseen
      /\ UNCHANGED <<hours, releasing, inbox, list, picked>>
  BY DEF Slots!Reconnect
<1>2. inbox' = <<>> /\ inbox' = inbox
  BY <1>1 DEF HourInv, Deaf
<1>3. /\ fetch' \in HourFetches /\ fetch'.at # "idle"
      /\ fetch'.at = "served" => Slots!FirstOut /\ fetch' = fetch
  <2>1. CASE Slots!FirstOut
    BY <1>1, <2>1 DEF Slots!Invalidated, Slots!FirstOut, HourInv, SlotsTyped
  <2>2. CASE ~Slots!FirstOut
    BY <1>1, <2>2, SlotShapes DEF Slots!Invalidated
  <2> QED
    BY <2>1, <2>2
<1>4. SlotsTyped' /\ Deaf' /\ Blank'
  BY <1>1, <1>2, <1>3 DEF HourInv, SlotsTyped, Deaf, Blank
<1>5. ASSUME NEW g \in Slots!Hours
      PROVE  Excused(g)' \/ (NewestIsTrue(g) /\ AnswerIsTrue(g) /\ ListIsTrue(g))'
  BY <1>1, <1>2, <1>3, EmptyBox DEF HourInv, Excused, NewestIsTrue, AnswerIsTrue,
                   ListIsTrue
<1> QED
  BY <1>4, <1>5 DEF HourInv

(* Choosing hours leaves the list alone.                                   *)
LEMMA ChooseKeeps ==
  ASSUME HourInv, NEW h \in Slots!Hours, Slots!Choose(h)
  PROVE  HourInv'
<1>1. /\ picked' \in {Slots!Toggled(picked, h), {}}
      /\ UNCHANGED <<hours, releasing, socket, inbox, fetch, list, unseen>>
  BY DEF Slots!Choose
<1>2. Slots!Toggled(picked, h) \subseteq picked \union {h}
  BY DEF Slots!Toggled
<1>3. picked' \subseteq Slots!Hours
  BY <1>1, <1>2 DEF HourInv, SlotsTyped
<1> QED
  BY <1>1, <1>3 DEF HourInv, SlotsTyped, Deaf, Blank, Excused, NewestIsTrue, AnswerIsTrue,
                   ListIsTrue, Told

(* A new list claims nothing.                                              *)
LEMMA SwitchKeeps ==
  ASSUME Slots!Switch
  PROVE  HourInv'
<1>1. /\ hours' \in [Slots!Hours -> Slots!States]
      /\ releasing' = {} /\ socket' = "connecting" /\ inbox' = <<>> /\ list' = Slots!Unknown
      /\ fetch' = [Slots!NoFetch EXCEPT !.at = "asked"] /\ picked' = {} /\ unseen' = {}
  BY DEF Slots!Switch
<1>2. inbox' \in Seq(Messages) /\ \A i \in 1..Len(inbox') : FALSE
  BY <1>1
<1> QED
  BY <1>1, <1>2, SlotShapes DEF HourInv, SlotsTyped, Deaf, Blank, NewestIsTrue, AnswerIsTrue, ListIsTrue

LEMMA HourInit ==
  ASSUME Slots!Init
  PROVE  HourInv
<1>1. /\ hours \in [Slots!Hours -> Slots!States]
      /\ releasing = {} /\ socket = "connecting" /\ inbox = <<>> /\ list = Slots!Unknown
      /\ fetch = [Slots!NoFetch EXCEPT !.at = "asked"] /\ picked = {} /\ unseen = {}
  BY DEF Slots!Init
<1>2. inbox \in Seq(Messages) /\ \A i \in 1..Len(inbox) : FALSE
  BY <1>1
<1> QED
  BY <1>1, <1>2, SlotShapes DEF HourInv, SlotsTyped, Deaf, Blank, NewestIsTrue, AnswerIsTrue, ListIsTrue

LEMMA HourStep ==
  ASSUME HourInv, Slots!Next \/ UNCHANGED slotsVars
  PROVE  HourInv'
<1>1. ASSUME NEW h \in Slots!Hours,
             \/ Slots!Take(h) \/ Slots!AnnounceRelease(h)
             \/ \E ok \in BOOLEAN : Slots!EndRelease(h, ok)
             \/ Slots!Choose(h)
      PROVE  HourInv'
  BY <1>1, TakeKeeps, AnnounceKeeps, EndReleaseKeeps, ChooseKeeps
<1>2. CASE Slots!Refetch \/ Slots!ServeFetch \/ Slots!Fetched \/ Slots!FetchFails
  BY <1>2, RefetchKeeps, ServeFetchKeeps, FetchedKeeps, FetchFailsKeeps
<1>3. CASE Slots!SocketOpens \/ Slots!SocketCloses \/ Slots!Receive \/ Slots!Reconnect
  BY <1>3, SocketKeeps, ReceiveKeeps, ReconnectKeeps
<1>4. CASE Slots!Switch
  BY <1>4, SwitchKeeps
<1>5. CASE UNCHANGED slotsVars
  BY <1>5 DEF slotsVars, HourInv, SlotsTyped, Deaf, Blank, Excused, NewestIsTrue, AnswerIsTrue,
              ListIsTrue, Told
<1> QED
  BY <1>1, <1>2, <1>3, <1>4, <1>5 DEF Slots!Next

-----------------------------------------------------------------------------
(* The selection                                                           *)

(* Until an hour of it is lost the selection is one run of hours, so that  *)
(* its first and last hour are the run's ends.                             *)
Run(S) == S = {} \/ \E a, b \in Slots!Hours : a <= b /\ S = a..b

PickInv ==
  /\ \A h \in picked : list[h] = "open"
  /\ Cardinality(picked) <= MaxPicked
  /\ announced = {} => Run(picked)

(* The instance counts as this module does.                                *)
LEMMA SlotCount ==
  ASSUME NEW S
  PROVE  Slots!Cardinality(S) = Cardinality(S)
BY DEF Cardinality, Slots!Cardinality

LEMMA HoursFinite ==
  /\ Slots!Hours = 1..Last /\ Last \in Nat
  /\ \A S \in SUBSET Slots!Hours : IsFiniteSet(S) /\ Cardinality(S) \in Nat
<1>1. Slots!Hours = 1..Last /\ Last \in Nat
  BY HoursAssumption DEF Slots!Hours
<1>2. IsFiniteSet(Slots!Hours)
  BY <1>1, FS_Interval
<1> QED
  BY <1>1, <1>2, FS_Subset, FS_CardinalityType

LEMMA RunEnds ==
  ASSUME NEW a \in Slots!Hours, NEW b \in Slots!Hours, a <= b
  PROVE  Slots!First(a..b) = a /\ Slots!Final(a..b) = b
<1>1. a \in Nat /\ b \in Nat
  BY HoursFinite
<1>2. a \in a..b /\ b \in a..b /\ \A k \in a..b : a <= k /\ k <= b /\ k \in Nat
  BY <1>1
<1>3. Slots!First(a..b) = a
  <2>1. \A h \in a..b : (\A k \in a..b : h <= k) => h = a
    BY <1>1, <1>2
  <2> QED
    BY <1>2, <2>1 DEF Slots!First
<1>4. Slots!Final(a..b) = b
  <2>1. \A h \in a..b : (\A k \in a..b : h >= k) => h = b
    BY <1>1, <1>2
  <2>2. \A k \in a..b : b >= k
    BY <1>1, <1>2
  <2> QED
    BY <1>2, <2>1, <2>2 DEF Slots!Final
<1> QED
  BY <1>3, <1>4

(* toggleSlot keeps to the maximum, and to one run.                        *)
LEMMA ToggledFits ==
  ASSUME NEW S \in SUBSET Slots!Hours, NEW h \in Slots!Hours, Cardinality(S) <= MaxPicked
  PROVE  LET T == Slots!Toggled(S, h)
         IN T \subseteq Slots!Hours /\ T \subseteq S \union {h} /\ Cardinality(T) <= MaxPicked
<1> DEFINE T == Slots!Toggled(S, h)
<1>1. T \subseteq S \union {h}
  BY DEF Slots!Toggled
<1>2. IsFiniteSet(S) /\ Cardinality(S) \in Nat /\ Cardinality(T) \in Nat /\ MaxPicked \in Nat /\ MaxPicked >= 1
  BY <1>1, HoursFinite, HoursAssumption
<1>3. CASE h \in S
  <2>1. T \subseteq S
    BY <1>3 DEF Slots!Toggled
  <2>2. Cardinality(T) <= Cardinality(S)
    BY <1>2, <2>1, FS_Subset
  <2> QED
    BY <1>1, <1>2, <2>2
<1>4. CASE h \notin S /\ T = S \union {h} /\ Cardinality(S) < MaxPicked
  <2>1. Cardinality(S \union {h}) = Cardinality(S) + 1
    BY <1>2, <1>4, FS_AddElement
  <2> QED
    BY <1>1, <1>2, <1>4, <2>1
<1>5. CASE T = {h}
  <2>1. Cardinality({h}) = 1
    BY FS_Singleton
  <2> QED
    BY <1>1, <1>2, <1>5, <2>1
<1>6. (h \notin S /\ T = S \union {h} /\ Cardinality(S) < MaxPicked) \/ T = {h} \/ h \in S
  BY SlotCount DEF Slots!Toggled
<1> QED
  BY <1>3, <1>4, <1>5, <1>6

LEMMA ToggledRuns ==
  ASSUME NEW S \in SUBSET Slots!Hours, NEW h \in Slots!Hours, Run(S)
  PROVE  Run(Slots!Toggled(S, h))
<1> DEFINE T == Slots!Toggled(S, h)
<1>0. h \in 1..Last /\ Last \in Nat /\ h \in Nat /\ {h} = h..h
  BY HoursFinite
<1>1. Run({h})
  BY <1>0 DEF Run
<1>2. CASE T = {h}
  BY <1>1, <1>2
<1>3. CASE S # {} /\ T # {h}
  <2>1. PICK a, b \in Slots!Hours : a <= b /\ S = a..b
    BY <1>3 DEF Run
  <2>2. a \in 1..Last /\ b \in 1..Last /\ a \in Nat /\ b \in Nat
    BY HoursFinite
  <2>3. CASE h \in S
    <3>1. T = {k \in a..b : k < h} /\ a <= h /\ h <= b
      BY <1>0, <2>1, <2>2, <2>3 DEF Slots!Toggled
    <3>2. CASE h = a
      <4>1. T = {}
        BY <2>2, <3>1, <3>2
      <4> QED
        BY <4>1 DEF Run
    <3>3. CASE h # a
      <4>1. T = a..(h - 1) /\ h - 1 \in 1..Last /\ a <= h - 1
        BY <1>0, <2>2, <3>1, <3>3
      <4> QED
        BY <4>1, HoursFinite DEF Run
    <3> QED
      BY <3>2, <3>3
  <2>4. CASE h \notin S
    <3>1. T = S \union {h} /\ (h = Slots!Final(S) + 1 \/ h + 1 = Slots!First(S))
      BY <1>3, <2>4 DEF Slots!Toggled
    <3>2. h = b + 1 \/ h + 1 = a
      BY <2>1, <3>1, RunEnds
    <3>3. CASE h = b + 1
      <4>1. (a..b) \union {h} = a..h /\ a <= h
        BY <1>0, <2>1, <2>2, <3>3
      <4>2. Run(a..h)
        BY <2>2, <4>1, HoursFinite DEF Run
      <4> QED
        BY <2>1, <3>1, <4>1, <4>2
    <3>4. CASE h + 1 = a
      <4>1. (a..b) \union {h} = h..b /\ h <= b
        BY <1>0, <2>1, <2>2, <3>4
      <4>2. Run(h..b)
        BY <2>2, <4>1, HoursFinite DEF Run
      <4> QED
        BY <2>1, <3>1, <4>1, <4>2
    <3> QED
      BY <3>2, <3>3, <3>4
  <2> QED
    BY <2>3, <2>4
<1>4. CASE S = {}
  BY <1>1, <1>4 DEF Slots!Toggled
<1> QED
  BY <1>2, <1>3, <1>4

(* What the list no longer shows open leaves the selection, and is named.  *)
LEMMA NoticedFits ==
  ASSUME HourInv, PickInv, Slots!Noticed(list')
  PROVE  PickInv'
<1>1. /\ picked' = {h \in picked : list'[h] = "open"}
      /\ announced' = announced \union {h \in picked : list'[h] # "open"}
  BY DEF Slots!Noticed
<1>2. picked \subseteq Slots!Hours /\ picked' \subseteq picked
  BY <1>1 DEF HourInv, SlotsTyped
<1>3. Cardinality(picked') <= MaxPicked
  <2>1. Cardinality(picked') <= Cardinality(picked)
    BY <1>2, HoursFinite, FS_Subset
  <2> QED
    BY <1>2, <2>1, HoursFinite, HoursAssumption DEF PickInv
<1>4. announced' = {} => announced = {} /\ picked' = picked
  BY <1>1
<1> QED
  BY <1>1, <1>3, <1>4 DEF PickInv, Run

LEMMA PickInit ==
  ASSUME Slots!Init
  PROVE  PickInv
BY FS_EmptySet, HoursAssumption DEF Slots!Init, PickInv, Run

LEMMA PickStep ==
  ASSUME HourInv, PickInv, Slots!Next \/ UNCHANGED slotsVars
  PROVE  PickInv'
<1>1. CASE Slots!Fetched \/ Slots!Receive
  BY <1>1, NoticedFits DEF Slots!Fetched, Slots!Receive
<1>2. CASE UNCHANGED <<list, picked, announced>>
  BY <1>2 DEF PickInv, Run
<1>3. ASSUME NEW h \in Slots!Hours, Slots!Choose(h)
      PROVE  PickInv'
  <2>1. /\ list[h] = "open" /\ picked \in SUBSET Slots!Hours
        /\ picked' \in {Slots!Toggled(picked, h), {}} /\ UNCHANGED <<list, announced>>
    BY <1>3 DEF Slots!Choose, HourInv, SlotsTyped
  <2>2. CASE picked' = {}
    BY <2>1, <2>2, FS_EmptySet, HoursAssumption DEF PickInv, Run
  <2>3. CASE picked' = Slots!Toggled(picked, h)
    <3>1. picked' \subseteq picked \union {h} /\ Cardinality(picked') <= MaxPicked
      BY <2>1, <2>3, ToggledFits DEF PickInv
    <3>2. announced = {} => Run(picked')
      BY <2>1, <2>3, ToggledRuns DEF PickInv
    <3> QED
      BY <2>1, <3>1, <3>2 DEF PickInv, Run
  <2> QED
    BY <2>1, <2>2, <2>3
<1>4. CASE Slots!Switch
  <2>1. picked' = {}
    BY <1>4 DEF Slots!Switch
  <2> QED
    BY <2>1, FS_EmptySet, HoursAssumption DEF PickInv, Run
<1>5. ASSUME NEW h \in Slots!Hours,
             Slots!Take(h) \/ Slots!AnnounceRelease(h) \/ \E ok \in BOOLEAN : Slots!EndRelease(h, ok)
      PROVE  UNCHANGED <<list, picked, announced>>
  BY <1>5 DEF Slots!Take, Slots!AnnounceRelease, Slots!EndRelease
<1>6. ASSUME Slots!Refetch \/ Slots!ServeFetch \/ Slots!FetchFails \/ Slots!SocketOpens
               \/ Slots!SocketCloses \/ Slots!Reconnect \/ UNCHANGED slotsVars
      PROVE  UNCHANGED <<list, picked, announced>>
  BY <1>6 DEF Slots!Refetch, Slots!ServeFetch, Slots!FetchFails, Slots!SocketOpens,
              Slots!SocketCloses, Slots!Reconnect, slotsVars
<1> QED
  BY <1>1, <1>2, <1>3, <1>4, <1>5, <1>6 DEF Slots!Next

-----------------------------------------------------------------------------

LEMMA SlotsMove ==
  ASSUME [Next]_vars
  PROVE  UNCHANGED part /\ (part = "slots" => Slots!Next \/ UNCHANGED slotsVars)
BY DEF Next, Only, vars

(* The invariant of the clients, as far as picking hours goes.             *)
HourListInv == part = "slots" => HourInv /\ PickInv

LEMMA HourListHolds == Spec => []HourListInv
<1>1. Init => HourListInv
  BY HourInit, PickInit DEF Init, HourListInv
<1>2. HourListInv /\ [Next]_vars => HourListInv'
  BY SlotsMove, HourStep, PickStep DEF HourListInv
<1> QED
  BY <1>1, <1>2, PTL DEF Spec

(* hooks/useCourtSlots.ts: with nothing on its way the list is what the    *)
(* server has, for every hour but those whose change fell between the      *)
(* fetch and the channel.                                                  *)
THEOREM TheListCatchesUp == Spec => []OutageIsCaughtUp
<1>1. HourInv => Slots!OutageIsCaughtUp
  <2> SUFFICES ASSUME HourInv, NEW h \in Slots!Hours, ~Slots!Underway(h),
                      h \notin unseen, h \notin releasing
               PROVE  list[h] = hours[h]
    BY DEF Slots!OutageIsCaughtUp
  <2>1. ListIsTrue(h)
    BY DEF HourInv, Excused
  <2>2. fetch.at = "idle" /\ socket # "down" /\ ~Told(h)
    BY DEF Slots!Underway, Told
  <2> QED
    BY <2>1, <2>2 DEF ListIsTrue
<1>2. HourListInv => OutageIsCaughtUp
  BY <1>1 DEF HourListInv, OutageIsCaughtUp
<1> QED
  BY <1>2, HourListHolds, PTL

(* app/court/[id]/slots.tsx: what is selected is shown open, is no more    *)
(* than a booking may hold, and is one run of hours until one of them was  *)
(* taken and named in the toast.                                           *)
THEOREM TheSelectionStands == Spec => []SelectionStands
<1>1. PickInv => Slots!SelectionStands
  <2>1. ASSUME Run(picked), NEW h \in picked, NEW k \in picked, NEW i \in h..k PROVE i \in picked
    <3>1. PICK a, b \in Slots!Hours : a <= b /\ picked = a..b
      BY <2>1 DEF Run
    <3>2. a \in Nat /\ b \in Nat
      BY HoursFinite
    <3> QED
      BY <2>1, <3>1, <3>2
  <2> QED
    BY <2>1, SlotCount DEF PickInv, Slots!SelectionStands
<1>2. HourListInv => SelectionStands
  BY <1>1 DEF HourListInv, SelectionStands
<1> QED
  BY <1>2, HourListHolds, PTL

=============================================================================
