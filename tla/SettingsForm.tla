----------------------------- MODULE SettingsForm -----------------------------
(***************************************************************************)
(* System settings of the web console (frontend/web, admin/settings): one  *)
(* record on the server, a tab per section.  The tab that opens copies the *)
(* whole record from the query cache, the person edits its section, and    *)
(* Save puts the whole copy back.                                          *)
(***************************************************************************)
EXTENDS Naturals

CONSTANTS
  Editors,      \* the administrators, each with a browser
  Sections,     \* the sections of the record, a tab for each
  MaxEdits      \* bound: edits ever made

VARIABLES
  settings,     \* server: the edit each section is from
  edits,        \* bound: edits so far
  tab,          \* [Editors -> a section, or "away" from these tabs]
  form,         \* [Editors -> the tab's copy of the record, or NoCopy]
  known,        \* [Editors -> the query's data (NoCopy: none), and whether it is outdated]
  reading,      \* [Editors -> the query's fetch]
  saving,       \* [Editors -> [Sections -> the save of the tab]]
  spoiled       \* history: why a copy may be old: a tab left too soon, a failed request

vars == <<settings, edits, tab, form, known, reading, saving, spoiled>>

Records == [Sections -> 0..MaxEdits]
NoCopy == [s \in Sections |-> MaxEdits + 1]
Copies == Records \union {NoCopy}
NoFetch == [at |-> "idle", answer |-> NoCopy]
NoSave == [at |-> "idle", copy |-> NoCopy]

TypeOK ==
  /\ settings \in Records
  /\ edits \in 0..MaxEdits
  /\ tab \in [Editors -> Sections \union {"away"}]
  /\ form \in [Editors -> Copies]
  /\ known \in [Editors -> [data : Copies, outdated : BOOLEAN]]
  /\ reading \in [Editors -> [at : {"idle", "asked", "served"}, answer : Copies]]
  /\ saving \in [Editors -> [Sections -> [at : {"idle", "asked", "served"}, copy : Copies]]]
  /\ spoiled \subseteq {"hurry", "failed"}

Init ==
  /\ settings = [s \in Sections |-> 0]
  /\ edits = 0
  /\ tab = [e \in Editors |-> "away"]
  /\ form = [e \in Editors |-> NoCopy]
  /\ known = [e \in Editors |-> [data |-> NoCopy, outdated |-> FALSE]]
  /\ reading = [e \in Editors |-> NoFetch]
  /\ saving = [e \in Editors |-> [s \in Sections |-> NoSave]]
  /\ spoiled = {}

-----------------------------------------------------------------------------
Busy(e) == reading[e].at # "idle" \/ \E s \in Sections : saving[e][s].at # "idle"
Hurried(e) == IF Busy(e) THEN spoiled \union {"hurry"} ELSE spoiled

Asked == [NoFetch EXCEPT !.at = "asked"]

\* The tab mounts with the data there is, and reads again what is missing,
\* invalidated or 30 s old.
Open(e, s) ==
  /\ tab[e] # s
  /\ tab' = [tab EXCEPT ![e] = s]
  /\ form' = [form EXCEPT ![e] = known[e].data]
  /\ \E aged \in BOOLEAN :
       reading' = IF reading[e].at = "idle" /\ (aged \/ known[e].data = NoCopy \/ known[e].outdated)
                  THEN [reading EXCEPT ![e] = Asked] ELSE reading
  /\ spoiled' = Hurried(e)
  /\ UNCHANGED <<settings, edits, known, saving>>

\* Security, or another page: the form is gone.
Go(e) ==
  /\ tab[e] # "away"
  /\ tab' = [tab EXCEPT ![e] = "away"]
  /\ form' = [form EXCEPT ![e] = NoCopy]
  /\ spoiled' = Hurried(e)
  /\ UNCHANGED <<settings, edits, known, reading, saving>>

\* The window comes back to the front, and what it shows is 30 s old.
Refetch(e) ==
  /\ tab[e] # "away" /\ reading[e].at = "idle"
  /\ reading' = [reading EXCEPT ![e] = Asked]
  /\ UNCHANGED <<settings, edits, tab, form, known, saving, spoiled>>

ServeRead(e) ==
  /\ reading[e].at = "asked"
  /\ reading' = [reading EXCEPT ![e] = [at |-> "served", answer |-> settings]]
  /\ UNCHANGED <<settings, edits, tab, form, known, saving, spoiled>>

\* The copy of a form that has none yet; one that is there stays as it is.
FirstCopy(e, data) ==
  IF tab[e] # "away" /\ form[e] = NoCopy THEN [form EXCEPT ![e] = data] ELSE form

Read(e) ==
  /\ reading[e].at = "served"
  /\ known' = [known EXCEPT ![e] = [data |-> reading[e].answer, outdated |-> FALSE]]
  /\ form' = FirstCopy(e, reading[e].answer)
  /\ reading' = [reading EXCEPT ![e] = NoFetch]
  /\ UNCHANGED <<settings, edits, tab, saving, spoiled>>

ReadFails(e) ==
  /\ reading[e].at # "idle"
  /\ reading' = [reading EXCEPT ![e] = NoFetch]
  /\ spoiled' = spoiled \union {"failed"}
  /\ UNCHANGED <<settings, edits, tab, form, known, saving>>

\* set(): the section of this tab, in the form.
Edit(e) ==
  /\ form[e] # NoCopy
  /\ edits < MaxEdits
  /\ edits' = edits + 1
  /\ form' = [form EXCEPT ![e][tab[e]] = edits + 1]
  /\ UNCHANGED <<settings, tab, known, reading, saving, spoiled>>

Discard(e) ==
  /\ form[e] # NoCopy /\ saving[e][tab[e]].at = "idle"
  /\ form' = [form EXCEPT ![e] = known[e].data]
  /\ UNCHANGED <<settings, edits, tab, known, reading, saving, spoiled>>

Save(e) ==
  /\ form[e] # NoCopy /\ saving[e][tab[e]].at = "idle"
  /\ saving' = [saving EXCEPT ![e][tab[e]] = [at |-> "asked", copy |-> form[e]]]
  /\ UNCHANGED <<settings, edits, tab, form, known, reading, spoiled>>

\* update_platform_settings replaces the record.
ServeSave(e, s) ==
  /\ saving[e][s].at = "asked"
  /\ settings' = saving[e][s].copy
  /\ saving' = [saving EXCEPT ![e][s].at = "served"]
  /\ UNCHANGED <<edits, tab, form, known, reading, spoiled>>

\* Mutant of ReadAgain: the save forgets to invalidate.
KnownAsItWas(e) == UNCHANGED <<known, reading>>

\* The record is read again, at once while a tab shows it.
ReadAgain(e) ==
  /\ known' = [known EXCEPT ![e].outdated = TRUE]
  /\ reading' = IF tab[e] # "away" THEN [reading EXCEPT ![e] = Asked] ELSE reading

Saved(e, s) ==
  /\ saving[e][s].at = "served"
  /\ saving' = [saving EXCEPT ![e][s] = NoSave]
  /\ ReadAgain(e)
  /\ UNCHANGED <<settings, edits, tab, form, spoiled>>

SaveFails(e, s) ==
  /\ saving[e][s].at # "idle"
  /\ saving' = [saving EXCEPT ![e][s] = NoSave]
  /\ spoiled' = spoiled \union {"failed"}
  /\ UNCHANGED <<settings, edits, tab, form, known, reading>>

Next ==
  \E e \in Editors :
    \/ Go(e) \/ Refetch(e) \/ ServeRead(e) \/ Read(e) \/ ReadFails(e)
    \/ Edit(e) \/ Discard(e) \/ Save(e)
    \/ \E s \in Sections : Open(e, s) \/ ServeSave(e, s) \/ Saved(e, s) \/ SaveFails(e, s)

Spec == Init /\ [][Next]_vars

-----------------------------------------------------------------------------
(* Properties *)

\* A section is put back to something old, or changed, by the save of another tab.
Undone ==
  \E t \in Sections :
    /\ settings'[t] # settings[t]
    /\ ~ \E e \in Editors : saving[e][t].at = "asked" /\ saving'[e][t].at = "served"

\* "PUT the whole object back so other tabs' fields survive the round trip."
OtherSectionsSurvive == [][~Undone]_vars

\* They do for a single administrator who leaves a tab when the save is answered
\* and the settings are read again: the save invalidates what the next tab copies.
SurvivePatience == [][Undone => spoiled # {}]_vars

=============================================================================
