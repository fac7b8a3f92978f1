--------------------------- MODULE EngineCalendar ---------------------------
(* BookingEngine implements CourtCalendar as long as clients end bookings  *)
(* by whole groups (PerRow \subseteq {"reschedule_booking"}): an hour      *)
(* belongs to the group of the active row on it, and a group is sold once  *)
(* its payment is completed.                                               *)
EXTENDS BookingEngine

(* NoSlot also stands for nobody.                                          *)
ASSUME NobodyAssumption == NoSlot \notin Groups

On(s) == {b \in Indexed(Bookings) : slotOf[b] = s}

OwnerOf(s) == IF On(s) = {} THEN NoSlot ELSE GroupOf[CHOOSE b \in On(s) : TRUE]

Phase(g) ==
  IF Made(g) = {} THEN "new"
  ELSE IF Indexed(Made(g)) = {} THEN "gone"
  ELSE IF pay[g].status = "completed" THEN "sold"
  ELSE "held"

Calendar == INSTANCE CourtCalendar WITH
  Nobody <- NoSlot,
  owner <- [s \in Slots |-> OwnerOf(s)],
  phase <- [g \in Groups |-> Phase(g)]

(* Everything a client that ends bookings by whole groups can make the     *)
(* engine do is a reserve, a sale, a move or a giving back of hours.       *)
ImplementsCalendar == Calendar!Spec

=============================================================================
