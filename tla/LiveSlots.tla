------------------------------ MODULE LiveSlots ------------------------------
(***************************************************************************)
(* Pick a slot in the mobile app: one court's hours of one day, fetched    *)
(* over HTTP and patched by the court's WebSocket channel (useCourtSlots), *)
(* and the person's selection among them.  The two ways the list learns of *)
(* a change are not ordered against each other, and the channel replays    *)
(* nothing.                                                                *)
(*                                                                         *)
(* An hour is open or taken here (held, booked and closed hours look       *)
(* different and are treated alike).  Another day or court is a new list:  *)
(* Switch starts it.                                                       *)
(***************************************************************************)
EXTENDS Naturals, Sequences, FiniteSets

CONSTANTS
  Last,         \* the hours are 1 .. Last, each next to the one before
  MaxPicked,    \* MAX_SLOTS_PER_BOOKING
  MaxInbox      \* bound: messages on the channel at once

VARIABLES
  hours,        \* server: what the database says
  releasing,    \* server: hours announced open by a release that has not committed
  socket,       \* the channel: "connecting", "open", or "down" until the timer
  inbox,        \* messages on the channel
  fetch,        \* the query: idle, asked, or served with an answer on its way
  list,         \* what the screen shows; no hour is known before the first answer
  picked,       \* the person's selection
  announced,    \* hours the "just taken" toast has named (seen)
  unseen        \* history: hours that changed where neither way could tell

vars == <<hours, releasing, socket, inbox, fetch, list, picked, announced, unseen>>

Hours == 1..Last
States == {"open", "taken"}
Unknown == [h \in Hours |-> "unknown"]
NoFetch == [at |-> "idle", answer |-> Unknown]

TypeOK ==
  /\ hours \in [Hours -> States]
  /\ releasing \subseteq Hours
  /\ socket \in {"connecting", "open", "down"}
  /\ inbox \in Seq([hour : Hours, state : States])
  /\ fetch \in [at : {"idle", "asked", "served"}, answer : [Hours -> States \union {"unknown"}]]
  /\ list \in [Hours -> States \union {"unknown"}]
  /\ picked \subseteq Hours
  /\ announced \subseteq Hours /\ unseen \subseteq Hours

Init ==
  /\ hours \in [Hours -> States]
  /\ releasing = {}
  /\ socket = "connecting"
  /\ inbox = <<>>
  /\ fetch = [NoFetch EXCEPT !.at = "asked"]
  /\ list = Unknown
  /\ picked = {} /\ announced = {} /\ unseen = {}

-----------------------------------------------------------------------------
(* The server *)

Announced(h, s) ==
  /\ Len(inbox) < MaxInbox
  /\ inbox' = IF socket = "open" THEN Append(inbox, [hour |-> h, state |-> s]) ELSE inbox

\* A change nobody hears of: the channel is being opened and the answer that
\* comes was read before.  (While the channel is down the refetch is to come.)
Missed(h) ==
  IF socket = "connecting" /\ fetch.at # "asked" THEN unseen \union {h} ELSE unseen

\* A checkout, the owner, an approval: committed, then broadcast.
Take(h) ==
  /\ hours[h] = "open"
  /\ hours' = [hours EXCEPT ![h] = "taken"]
  /\ Announced(h, "taken")
  /\ unseen' = Missed(h)
  /\ UNCHANGED <<releasing, socket, fetch, list, picked, announced>>

\* _apply_cancellation broadcasts before its transaction commits.
AnnounceRelease(h) ==
  /\ hours[h] = "taken" /\ h \notin releasing
  /\ Announced(h, "open")
  /\ releasing' = releasing \union {h}
  /\ UNCHANGED <<hours, socket, fetch, list, picked, announced, unseen>>

\* It commits; or it fails, and what was announced was never so.
EndRelease(h, commits) ==
  /\ h \in releasing
  /\ releasing' = releasing \ {h}
  /\ hours' = IF commits THEN [hours EXCEPT ![h] = "open"] ELSE hours
  /\ unseen' = unseen \union {h}
  /\ UNCHANGED <<socket, inbox, fetch, list, picked, announced>>

-----------------------------------------------------------------------------
(* useCourtSlots *)

\* Mutant of Noticed: only the toast is shown.
NoticedOnly(shown) ==
  /\ picked' = picked
  /\ announced' = announced \union {h \in picked : shown[h] # "open"}

\* Hours of the selection the list no longer shows open leave it.
Noticed(shown) ==
  LET lost == {h \in picked : shown[h] # "open"}
  IN /\ picked' = picked \ lost
     /\ announced' = announced \union lost

\* On mounting again, on coming back to the front, by "Try again".
Refetch ==
  /\ fetch.at = "idle"
  /\ fetch' = [NoFetch EXCEPT !.at = "asked"]
  /\ UNCHANGED <<hours, releasing, socket, inbox, list, picked, announced, unseen>>

\* Messages still to come that say what is no longer, or never was, so.
Outdated ==
  {inbox[i].hour : i \in {i \in 1..Len(inbox) : inbox[i].state # hours[inbox[i].hour]}}

ServeFetch ==
  /\ fetch.at = "asked"
  /\ fetch' = [at |-> "served", answer |-> hours]
  /\ unseen' = releasing \union Outdated
  /\ UNCHANGED <<hours, releasing, socket, inbox, list, picked, announced>>

\* The answer replaces the list, whatever the channel said meanwhile.
Fetched ==
  /\ fetch.at = "served"
  /\ list' = fetch.answer
  /\ fetch' = NoFetch
  /\ Noticed(list')
  /\ UNCHANGED <<hours, releasing, socket, inbox, unseen>>

FetchFails ==
  /\ fetch.at \in {"asked", "served"}
  /\ fetch' = NoFetch
  /\ unseen' = Hours
  /\ UNCHANGED <<hours, releasing, socket, inbox, list, picked, announced>>

SocketOpens ==
  /\ socket = "connecting"
  /\ socket' = "open"
  /\ UNCHANGED <<hours, releasing, inbox, fetch, list, picked, announced, unseen>>

SocketCloses ==
  /\ socket # "down"
  /\ socket' = "down"
  /\ inbox' = <<>>
  /\ UNCHANGED <<hours, releasing, fetch, list, picked, announced, unseen>>

\* onmessage: patches the list that is there, if there is one.
Patched(m) == IF list = Unknown THEN list ELSE [list EXCEPT ![m.hour] = m.state]

Receive ==
  LET m == Head(inbox)
  IN /\ inbox # <<>>
     /\ inbox' = Tail(inbox)
     /\ list' = Patched(m)
     /\ Noticed(list')
     /\ unseen' = IF fetch.at = "served" THEN unseen \union {m.hour} ELSE unseen
     /\ UNCHANGED <<hours, releasing, socket, fetch>>

\* Mutant of Invalidated: reconnecting fetches nothing.
FetchAsItWas == fetch

\* invalidateQueries drops a fetch that is out and starts another; the first
\* fetch of all, which has nothing to fall back on, is left to finish.
FirstOut == list = Unknown /\ fetch.at # "idle"
Invalidated == IF FirstOut THEN fetch ELSE [NoFetch EXCEPT !.at = "asked"]

\* The reconnect timer: the list is fetched again while the channel opens.
Reconnect ==
  /\ socket = "down"
  /\ socket' = "connecting"
  /\ fetch' = Invalidated
  /\ unseen' = IF FirstOut /\ fetch.at = "served"
               THEN unseen \union {h \in Hours : fetch.answer[h] # hours[h]}
               ELSE unseen
  /\ UNCHANGED <<hours, releasing, inbox, list, picked, announced>>

-----------------------------------------------------------------------------
(* The screen *)

First(S) == CHOOSE h \in S : \A k \in S : h <= k
Final(S) == CHOOSE h \in S : \A k \in S : h >= k

\* toggleSlot: a tap beside the block grows it, a tap on it keeps what is
\* before, a tap elsewhere starts again.
Toggled(S, h) ==
  IF h \in S THEN {k \in S : k < h}
  ELSE IF S # {} /\ Cardinality(S) < MaxPicked /\ (h = Final(S) + 1 \/ h + 1 = First(S))
       THEN S \union {h}
       ELSE {h}

Choose(h) ==
  /\ list[h] = "open"
  /\ picked' \in {Toggled(picked, h), {}}       \* {}: "Clear"
  /\ UNCHANGED <<hours, releasing, socket, inbox, fetch, list, announced, unseen>>

\* Another day or court: a new list, and the channel is opened anew.
Switch ==
  /\ hours' \in [Hours -> States]
  /\ releasing' = {}
  /\ socket' = "connecting"
  /\ inbox' = <<>>
  /\ fetch' = [NoFetch EXCEPT !.at = "asked"]
  /\ list' = Unknown
  /\ picked' = {}
  /\ unseen' = {}
  /\ UNCHANGED announced

Next ==
  \/ \E h \in Hours : \/ Take(h) \/ AnnounceRelease(h)
                      \/ \E ok \in BOOLEAN : EndRelease(h, ok)
                      \/ Choose(h)
  \/ Refetch \/ ServeFetch \/ Fetched \/ FetchFails
  \/ SocketOpens \/ SocketCloses \/ Receive \/ Reconnect
  \/ Switch

Spec == Init /\ [][Next]_vars

-----------------------------------------------------------------------------
(* Properties *)

Underway(h) ==
  \/ fetch.at # "idle" \/ socket = "down"
  \/ \E i \in 1..Len(inbox) : inbox[i].hour = h

\* With the channel open and nothing on its way the list is what the server
\* has: what useCourtSlots and websocket.ts promise of re-fetching on a drop.
ListIsCurrent ==
  \A h \in Hours : list[h] = hours[h] \/ Underway(h) \/ h \in releasing

\* A stale hour is one whose change fell between the two ways the list learns
\* of it (a message overtaken by an older answer, a change while the channel
\* opened, a release announced before it committed, a fetch that failed, a
\* first answer still on its way when the channel came back); any other change
\* during an outage is caught up.
OutageIsCaughtUp ==
  \A h \in Hours : list[h] = hours[h] \/ Underway(h) \/ h \in unseen \/ h \in releasing

\* What is selected is shown open, in one block unless an hour inside it was lost.
SelectionStands ==
  /\ \A h \in picked : list[h] = "open"
  /\ Cardinality(picked) <= MaxPicked
  /\ announced = {} => \A h, k \in picked : \A i \in h..k : i \in picked

=============================================================================
