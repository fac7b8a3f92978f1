------------------------------- MODULE Screens -------------------------------
(***************************************************************************)
(* What a person sees of one row after an operation of theirs: a screen     *)
(* with a button (on), a query of the client's TanStack cache, and a screen  *)
(* that shows the query (at), for every operation and pair of screens of     *)
(* the tables.  The cache is refreshed by fetches that are not ordered       *)
(* against the operation, by the keys the operation invalidates, and by      *)
(* screens opening on data that has gone stale.                              *)
(***************************************************************************)
EXTENDS Naturals, ScreenRows

CONSTANTS
  Pages,        \* Screen and Shell records
  Operations,   \* [client, op] records
  Reads,        \* [client -> [query -> the rows it shows]]
  Lagging,      \* <<client, operation, query>>: what the code forgets to invalidate
  Unchecked,    \* <<client, operation, status>>: what a screen offers and the server refuses
  OneAtATime    \* clients that show one page at a time (the browser)

VARIABLES
  subject,      \* [client, op, on, query, at]
  row,          \* server: the row's status and the number of its changes
  mounted,      \* those of on and at that are mounted
  cached,       \* the query's data: a copy of row, or NoData
  outdated,     \* the data is 30 s old, or invalidated
  load,         \* the query's fetch: idle, asked, or served with its answer
  work,         \* the operation: idle, asked, served, refused, done, or failed
  moved,        \* somebody else has changed the row
  excused       \* why the data may be old: a failed fetch, a lost answer, a race

vars == <<subject, row, mounted, cached, outdated, load, work, moved, excused>>

NoData == [status |-> "unknown", changes |-> 0]
NoLoad == [at |-> "idle", answer |-> NoData]
NoWork == [at |-> "idle", seen |-> NoData, change |-> 0, wasSeen |-> FALSE]

Copies == [status : Every(subject.op.row), changes : 0..2]

TypeOK ==
  /\ row \in Copies
  /\ mounted \subseteq {subject.on, subject.at}
  /\ cached \in Copies \union {NoData}
  /\ outdated \in BOOLEAN
  /\ load \in [at : {"idle", "asked", "served"}, answer : Copies \union {NoData}]
  /\ work \in [at : {"idle", "asked", "served", "refused", "done", "failed"},
               seen : Copies \union {NoData}, change : 0..2, wasSeen : BOOLEAN]
  /\ moved \in BOOLEAN
  /\ excused \subseteq {"failed", "lost", "raced"}

-----------------------------------------------------------------------------

\* Mutant of OffersOf: the buttons stay, whatever the row has become.
OffersAlways(page, op) == {[f EXCEPT !.when = Every(op.row)] : f \in {f \in page.offers : f.op = op.name}}

OffersOf(page, op) == {f \in page.offers : f.op = op.name}

Subject(s) ==
  \E o \in Operations :
    \E p \in {p \in Pages : p.client = o.client /\ OffersOf(p, o.op) # {}} :
      \E q \in {q \in DOMAIN Reads[o.client] : o.op.touches \intersect Reads[o.client][q] # {}} :
        \E v \in {v \in Pages : v.client = o.client /\ q \in v.shows} :
          s = [client |-> o.client, op |-> o.op, on |-> p, query |-> q, at |-> v]

Shown(pages) == \E p \in pages : subject.query \in p.shows

Init ==
  /\ Subject(subject)
  /\ row \in [status : Every(subject.op.row), changes : {0}]
  /\ mounted = {p \in {subject.on, subject.at} : p.shell}
  /\ cached = NoData /\ outdated = FALSE
  /\ load = [NoLoad EXCEPT !.at = IF Shown(mounted) THEN "asked" ELSE "idle"]
  /\ work = NoWork
  /\ moved = FALSE /\ excused = {}

-----------------------------------------------------------------------------
(* The cache *)

Asked == [NoLoad EXCEPT !.at = "asked"]

\* A screen that mounts fetches what it has not, or has but outdated; the
\* browser leaves the page it was on.
Open(p) ==
  /\ p \notin mounted
  /\ mounted' = (IF subject.client \in OneAtATime THEN {x \in mounted : x.shell} ELSE mounted)
                \union {p}
  /\ load' = IF subject.query \in p.shows /\ load.at = "idle" /\ (cached = NoData \/ outdated)
             THEN Asked ELSE load
  /\ UNCHANGED <<subject, row, cached, outdated, work, moved, excused>>

Close(p) ==
  /\ p \in mounted /\ ~p.shell
  /\ mounted' = mounted \ {p}
  /\ UNCHANGED <<subject, row, cached, outdated, load, work, moved, excused>>

\* staleTime: nothing happens by itself.
GoesStale ==
  /\ cached # NoData /\ ~outdated
  /\ outdated' = TRUE
  /\ UNCHANGED <<subject, row, mounted, cached, load, work, moved, excused>>

\* "Try again", a pull, a poll, the window's or the app's return to the front.
Refetch ==
  /\ Shown(mounted) /\ load.at = "idle"
  /\ load' = Asked
  /\ UNCHANGED <<subject, row, mounted, cached, outdated, work, moved, excused>>

ServeLoad ==
  /\ load.at = "asked"
  /\ load' = [at |-> "served", answer |-> row]
  /\ UNCHANGED <<subject, row, mounted, cached, outdated, work, moved, excused>>

\* The answer is fresh from here on, whatever was invalidated meanwhile.
Loaded ==
  /\ load.at = "served"
  /\ cached' = load.answer /\ outdated' = FALSE
  /\ load' = NoLoad
  /\ UNCHANGED <<subject, row, mounted, work, moved, excused>>

LoadFails ==
  /\ load.at # "idle"
  /\ load' = NoLoad
  /\ excused' = excused \union {"failed"}
  /\ UNCHANGED <<subject, row, mounted, cached, outdated, work, moved>>

\* invalidateQueries: a screen that shows the query fetches again, and drops
\* the fetch that is out unless it is the first; without one it is marked.
Restarts == Shown(mounted) /\ (cached # NoData \/ load.at = "idle")

\* Mutant of Invalidated: the data is marked, and nobody fetches it.
OnlyMarked(keys) ==
  IF subject.query \notin keys THEN UNCHANGED <<outdated, load, excused>>
  ELSE outdated' = TRUE /\ UNCHANGED <<load, excused>>

Invalidated(keys) ==
  IF subject.query \notin keys THEN UNCHANGED <<outdated, load, excused>>
  ELSE /\ outdated' = TRUE
       /\ load' = IF Restarts THEN Asked ELSE load
       /\ excused' = IF load.at = "served" /\ ~Restarts THEN excused \union {"raced"} ELSE excused

-----------------------------------------------------------------------------
(* The operation *)

\* The button is on the screen, by what the query it looks at says.
Press ==
  \E f \in OffersOf(subject.on, subject.op) :
    LET seen == IF f.from = subject.query THEN cached ELSE row
    IN /\ work.at = "idle" /\ subject.on \in mounted
       /\ seen.status \in f.when
       /\ work' = [NoWork EXCEPT !.at = "asked", !.seen = seen]
       /\ UNCHANGED <<subject, row, mounted, cached, outdated, load, moved, excused>>

Serve ==
  LET gives == subject.op.gives
  IN /\ work.at = "asked"
     /\ IF row.status \in DOMAIN gives
        THEN /\ row' = [status |-> gives[row.status], changes |-> row.changes + 1]
             /\ work' = [work EXCEPT !.at = "served", !.seen = row', !.change = row'.changes]
        ELSE /\ work' = [work EXCEPT !.at = "refused", !.wasSeen = (row = work.seen)]
             /\ UNCHANGED row
     /\ UNCHANGED <<subject, mounted, cached, outdated, load, moved, excused>>

Succeeds ==
  /\ work.at = "served"
  /\ work' = [work EXCEPT !.at = "done"]
  /\ IF subject.query \in subject.op.puts
     THEN /\ cached' = work.seen /\ outdated' = FALSE
          /\ excused' = IF load.at = "served" THEN excused \union {"raced"} ELSE excused
          /\ UNCHANGED load
     ELSE Invalidated(subject.op.drops) /\ UNCHANGED cached
  /\ mounted' = IF subject.op.leaves /\ ~subject.on.shell THEN mounted \ {subject.on} ELSE mounted
  /\ UNCHANGED <<subject, row, moved>>

Fails ==
  /\ work.at = "refused"
  /\ work' = [work EXCEPT !.at = "failed"]
  /\ Invalidated(subject.op.onError)
  /\ UNCHANGED <<subject, row, mounted, cached, moved>>

\* The request or its answer is lost: an error to the screen all the same.
Loses ==
  /\ work.at \in {"asked", "served"}
  /\ work' = [work EXCEPT !.at = "failed"]
  /\ excused' = excused \union {"lost"}
  /\ UNCHANGED <<subject, row, mounted, cached, outdated, load, moved>>

\* Somebody else changes the row.
OthersMove ==
  /\ ~moved
  /\ \E m \in Rows[subject.op.row].moves :
       /\ m[1] = row.status
       /\ row' = [status |-> m[2], changes |-> row.changes + 1]
  /\ moved' = TRUE
  /\ UNCHANGED <<subject, mounted, cached, outdated, load, work, excused>>

Next ==
  \/ \E p \in {subject.on, subject.at} : Open(p) \/ Close(p)
  \/ GoesStale \/ Refetch \/ ServeLoad \/ Loaded \/ LoadFails
  \/ Press \/ Serve \/ Succeeds \/ Fails \/ Loses
  \/ OthersMove

Spec == Init /\ [][Next]_vars

-----------------------------------------------------------------------------
(* What the tables say of the operations, whatever happens *)

\* What the server makes of a row, and what others make of it, is a status of it.
RowsKnown ==
  \A o \in Operations :
    /\ \A s \in DOMAIN o.op.gives : o.op.gives[s] \in Every(o.op.row)
    /\ \A m \in Rows[o.op.row].moves : m[2] \in Every(o.op.row)

\* An operation writes or invalidates every query of its client that shows a
\* row it changes, but for Lagging.
Covered ==
  \A o \in Operations : \A q \in DOMAIN Reads[o.client] :
    o.op.touches \intersect Reads[o.client][q] # {} =>
      q \in o.op.puts \union o.op.drops \/ <<o.client, o.op.name, q>> \in Lagging

\* The server accepts an operation in every status a screen of its client
\* offers it in, but for Unchecked.
Accepted ==
  \A o \in Operations : \A p \in {p \in Pages : p.client = o.client} :
    \A f \in {f \in p.offers : f.op = o.op.name} : \A s \in f.when :
      s \in DOMAIN o.op.gives \/ <<o.client, o.op.name, s>> \in Unchecked

-----------------------------------------------------------------------------
(* Properties *)

\* A screen at rest shows the person's own change: every operation's success
\* reaches every screen of the client that shows the row, open or opened
\* later, but for the omissions in Lagging, a fetch that failed, an answer that
\* was lost, and a fetch served before the change and finished after it.
OwnChangeShows ==
  (work.at = "done" /\ subject.at \in mounted /\ load.at = "idle" /\ cached # NoData) =>
    \/ cached.changes >= work.change
    \/ <<subject.client, subject.op.name, subject.query>> \in Lagging
    \/ excused # {}

\* A button is refused only to somebody who saw an old row: on a row that is
\* as the screen shows it the server accepts what the screen offers, but for
\* the offers in Unchecked.
OnlyOldRowsRefused ==
  (work.at = "refused" /\ work.wasSeen) =>
    <<subject.client, subject.op.name, work.seen.status>> \in Unchecked

=============================================================================
