----------------------------- MODULE LikedArenas -----------------------------
(***************************************************************************)
(* The hearts of the mobile app (hooks/useLiked.ts): the ids of the liked   *)
(* arenas are one query, a tap fills or empties the heart at once, and a    *)
(* refused tap puts the whole set back as it was before it.                 *)
(***************************************************************************)
EXTENDS Naturals, FiniteSets

CONSTANTS
  Arenas,
  Taps          \* bound: the taps that may be under way at once

VARIABLES
  likes,        \* server: the arenas this player likes
  hearts,       \* the query's data, or Unread
  aged,         \* the data is a minute old
  fetching,       \* the query's fetch
  tap,          \* [Taps -> a tap under way]
  slips         \* history: why hearts and likes may have parted since the last answer

vars == <<likes, hearts, aged, fetching, tap, slips>>

Unread == [read |-> FALSE, ids |-> {}]
Known(ids) == [read |-> TRUE, ids |-> ids]
Sets == {Unread} \union {Known(ids) : ids \in SUBSET Arenas}
NoAsk == [at |-> "idle", answer |-> {}]
NoTap == [at |-> "idle", arena |-> CHOOSE a \in Arenas : TRUE, liked |-> FALSE, before |-> Unread,
          beside |-> FALSE]

TypeOK ==
  /\ likes \subseteq Arenas
  /\ hearts \in Sets
  /\ aged \in BOOLEAN
  /\ fetching \in [at : {"idle", "asked", "served"}, answer : SUBSET Arenas]
  /\ tap \in [Taps -> [at : {"idle", "asked", "served", "refused"}, arena : Arenas,
                       liked : BOOLEAN, before : Sets, beside : BOOLEAN]]
  /\ slips \subseteq {"early", "twice", "beside", "lost"}

Init ==
  /\ likes \in SUBSET Arenas
  /\ hearts = Unread /\ aged = FALSE
  /\ fetching = [NoAsk EXCEPT !.at = "asked"]
  /\ tap = [t \in Taps |-> NoTap]
  /\ slips = {}

-----------------------------------------------------------------------------
Underway == {t \in Taps : tap[t].at # "idle"}

\* The data is younger than a minute while a tap is under way: a tap writes it.
Ages ==
  /\ hearts.read /\ ~aged /\ Underway = {}
  /\ aged' = TRUE
  /\ UNCHANGED <<likes, hearts, fetching, tap, slips>>

\* A heart mounts, or the app comes back to the front.
Ask ==
  /\ fetching.at = "idle" /\ (aged \/ ~hearts.read)
  /\ fetching' = [NoAsk EXCEPT !.at = "asked"]
  /\ UNCHANGED <<likes, hearts, aged, tap, slips>>

ServeAsk ==
  /\ fetching.at = "asked"
  /\ fetching' = [at |-> "served", answer |-> likes]
  /\ UNCHANGED <<likes, hearts, aged, tap, slips>>

Answered ==
  /\ fetching.at = "served"
  /\ hearts' = Known(fetching.answer) /\ aged' = FALSE
  /\ fetching' = NoAsk
  /\ slips' = {}
  /\ UNCHANGED <<likes, tap>>

AskFails ==
  /\ fetching.at # "idle"
  /\ fetching' = NoAsk
  /\ UNCHANGED <<likes, hearts, aged, tap, slips>>

Flip(ids, a, liked) == IF liked THEN ids \ {a} ELSE ids \union {a}

\* Mutant of Cancelled: a fetch that is out goes on.
StillAsking == fetching

\* cancelQueries: a fetch that is out is dropped.
Cancelled == NoAsk

\* onMutate, with the heart as it was when it was tapped.
Tap(t, a) ==
  LET liked == a \in hearts.ids
  IN /\ tap[t].at = "idle"
     /\ fetching' = Cancelled
     /\ hearts' = Known(Flip(hearts.ids, a, liked)) /\ aged' = FALSE
     /\ tap' = [u \in Taps |->
                  IF u = t THEN [at |-> "asked", arena |-> a, liked |-> liked, before |-> hearts,
                                 beside |-> Underway # {}]
                  ELSE [tap[u] EXCEPT !.beside = tap[u].at # "idle"]]
     /\ slips' = slips \union (IF hearts.read THEN {} ELSE {"early"})
                       \union (IF \E u \in Underway : tap[u].arena = a THEN {"twice"} ELSE {})
     /\ UNCHANGED likes

\* like_arena and unlike_arena: liking twice is liking once.
ServeTap(t) ==
  /\ tap[t].at = "asked"
  /\ \/ /\ likes' = Flip(likes, tap[t].arena, tap[t].liked)
        /\ tap' = [tap EXCEPT ![t].at = "served"]
     \/ /\ tap' = [tap EXCEPT ![t].at = "refused"]
        /\ UNCHANGED likes
  /\ UNCHANGED <<hearts, aged, fetching, slips>>

Saved(t) ==
  /\ tap[t].at = "served"
  /\ tap' = [tap EXCEPT ![t] = NoTap]
  /\ UNCHANGED <<likes, hearts, aged, fetching, slips>>

\* onError: back to the set before the tap, whatever was tapped since.
PutBack(t) ==
  IF tap[t].before.read THEN hearts' = tap[t].before /\ aged' = FALSE ELSE UNCHANGED <<hearts, aged>>

NotSaved(t) ==
  /\ tap[t].at # "idle"
  /\ PutBack(t)
  /\ tap' = [tap EXCEPT ![t] = NoTap]
  /\ slips' = slips \union (IF tap[t].beside THEN {"beside"} ELSE {})
                    \union (IF tap[t].at = "refused" THEN {} ELSE {"lost"})
  /\ UNCHANGED <<likes, fetching>>

Next ==
  \/ Ages \/ Ask \/ ServeAsk \/ Answered \/ AskFails
  \/ \E t \in Taps : \/ \E a \in Arenas : Tap(t, a)
                     \/ ServeTap(t) \/ Saved(t) \/ NotSaved(t)

Spec == Init /\ [][Next]_vars

-----------------------------------------------------------------------------
(* Properties *)

\* With no tap under way the hearts are the likes of the server, unless a tap
\* came before the first answer (the other hearts are then empty for a minute),
\* two taps on one arena crossed, a tap failed beside another (its set is put
\* back over the other's), or an answer was lost; the next answer mends them all.
HeartsAreLikes == (hearts.read /\ Underway = {} /\ slips = {}) => hearts.ids = likes

=============================================================================
