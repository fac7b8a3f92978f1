---------------------------- MODULE CourtCalendar ----------------------------
(***************************************************************************)
(* What the booking engine promises the people of one court, with every    *)
(* mechanism left out.  An hour belongs to nobody or to one booking group. *)
(* A group takes free hours once, all together; it is then held until it   *)
(* is sold or gone; it may move to as many free hours; hours go back to    *)
(* nobody.  An hour never passes from one group to another directly, a     *)
(* sold group is never unsold, and a group that is gone never returns.     *)
(***************************************************************************)
EXTENDS FiniteSets

CONSTANTS Slots, Groups, Nobody

VARIABLES
  owner,      \* who has each hour
  phase       \* "new", "held", "sold" or "gone"

Own(g) == {s \in Slots : owner[s] = g}

Init ==
  /\ owner = [s \in Slots |-> Nobody]
  /\ phase = [g \in Groups |-> "new"]

Reserve(g, S) ==
  /\ phase[g] = "new" /\ S # {}
  /\ \A s \in S : owner[s] = Nobody
  /\ owner' = [s \in Slots |-> IF s \in S THEN g ELSE owner[s]]
  /\ phase' = [phase EXCEPT ![g] = "held"]

Sell(g) ==
  /\ phase[g] = "held"
  /\ phase' = [phase EXCEPT ![g] = "sold"]
  /\ UNCHANGED owner

(* The hours S go back; a group left with none is gone.                    *)
GiveBack(S) ==
  /\ \A s \in S : owner[s] # Nobody
  /\ owner' = [s \in Slots |-> IF s \in S THEN Nobody ELSE owner[s]]
  /\ phase' = [g \in Groups |->
                 IF Own(g) # {} /\ Own(g) \subseteq S THEN "gone" ELSE phase[g]]

MoveTo(g, S) ==
  /\ phase[g] \in {"held", "sold"}
  /\ Cardinality(S) = Cardinality(Own(g))
  /\ \A s \in S : owner[s] \in {Nobody, g}
  /\ owner' = [s \in Slots |-> IF s \in S THEN g
                              ELSE IF owner[s] = g THEN Nobody ELSE owner[s]]
  /\ UNCHANGED phase

Next ==
  \/ \E g \in Groups, S \in SUBSET Slots : Reserve(g, S) \/ MoveTo(g, S)
  \/ \E g \in Groups : Sell(g)
  \/ \E S \in SUBSET Slots : GiveBack(S)

Spec == Init /\ [][Next]_<<owner, phase>>

=============================================================================
