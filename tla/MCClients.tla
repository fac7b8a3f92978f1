------------------------------ MODULE MCClients ------------------------------
(* One instance of Clients for TLC: one phone account, an owner and an      *)
(* administrator at two tabs, and the screens of all four clients.          *)
EXTENDS Clients, FiniteSets

PS == INSTANCE PlayerScreens
OS == INSTANCE OwnerScreens
AS == INSTANCE AdminScreens

AllPages == PS!PlayerPages \union OS!OwnerPages \union AS!AdminPages \union AS!PhonePages
AllOperations ==
  PS!PlayerOperations \union OS!OwnerOperations \union AS!AdminOperations \union AS!PhoneOperations
AllReads ==
  [c \in {"player", "owner", "admin", "phone"} |->
     CASE c = "player" -> PS!PlayerReads
       [] c = "owner"  -> OS!OwnerReads
       [] c = "admin"  -> AS!AdminReads
       [] c = "phone"  -> AS!PhoneReads]
Of(client, S) == {<<client, x[1], x[2]>> : x \in S}
AllLags ==
  Of("player", PS!PlayerLags) \union Of("owner", OS!OwnerLags)
    \union Of("admin", AS!AdminLags) \union Of("phone", AS!PhoneLags)

AllUnchecked == Of("owner", OS!OwnerUnchecked)

\* What the proofs about the screens ask of the tables holds of these.
ASSUME TablesAssumption == View!Covered /\ View!Accepted

-----------------------------------------------------------------------------
(* Bounds *)

\* Two requests at a time, of one of the tabs; on the phone not counting the one of a
\* sign-in, and one if it is a save or ends every session.  The phone loses answers or
\* signs in beside an older request, not both; that request is of a page, or the check
\* of a phone that gave up waiting for it; and from a renewed pair that was lost the
\* phone goes on with pages and no third pair.
\* One mishap of the checkout, and none beside a Review left below, a price asked there
\* or somebody else in the times; that price is asked while nothing but pay() is on its
\* way.  The cookie ends at rest; no state in which both of a part's properties are
\* excused by what the consoles share or lost; and nothing beyond an operation that
\* failed, or that a query does not hear of.
Few ==
  /\ part = "session" =>
       LET Busy == {k \in Session!Kinds \ {"me"} : call[k].at # "idle"}
       IN /\ Cardinality(Busy) <= IF Busy \intersect {"save", "end"} = {} THEN 2 ELSE 1
          /\ Cardinality(lost \ {"pair"}) <= 1
          /\ "pair" \in lost => Busy \subseteq {"page"} /\ pairs.issued <= 2 /\ ~phone.gaveUp
          /\ "beside" \in lost => Busy \subseteq IF phone.gaveUp THEN {"check"} ELSE {"page"}
  /\ part = "web" =>
       LET Busy == {x \in {1, 2} \X Web!Kinds : ask[x[1]][x[2]].at # "idle"}
       IN /\ Cardinality(Busy) <= 2
          /\ Cardinality({x[1] : x \in Busy} \union {b \in {1, 2} : window[b].half}) <= 1
          /\ "expired" \in parted => Busy = {}
          /\ parted \intersect {"expired", "beside"} = {} \/ parted \intersect {"twins", "lost"} = {}
  /\ part = "checkout" =>
       /\ Cardinality(missed) <= 1
       /\ missed = {} \/ (~screen.left /\ price.below = "idle" /\ ~taken)
       /\ price.below # "idle" => leaving.at = "idle" /\ sending.at = "idle" /\ price.at = "idle"
  /\ part = "pages" =>
       /\ excused = {} /\ work.at # "failed"
       /\ work.at = "done" => <<subject.client, subject.op.name, subject.query>> \notin Lagging

=============================================================================
