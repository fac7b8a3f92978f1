-------------------------- MODULE PaymentLifecycle --------------------------
(***************************************************************************)
(* The status vocabularies of slots, bookings and payments, and the table  *)
(* of legal payment moves.  A payment carries two statuses: the coarse     *)
(* one, which the services assign and which decides bookings and revenue,  *)
(* and the fine lifecycle, which only `advance` may move.                  *)
(***************************************************************************)

SlotStatus == {"available", "reserved", "booked", "maintenance"}

BookingStatus == {"pending_payment", "pending_approval", "confirmed",
                  "completed", "cancelled", "rejected"}

PaymentStatus == {"pending", "completed", "failed", "refunded"}

Lifecycle == {"pending", "initiated", "processing", "pending_approval", "paid",
              "confirmed", "failed", "expired", "rejected", "refunded"}

(* The lifecycles that go with each coarse status.                         *)
OpenLife   == {"pending", "initiated", "processing", "pending_approval"}
PaidLife   == {"paid", "confirmed", "refunded"}
ClosedLife == {"failed", "expired", "rejected"}

(* Mutant of ALLOWED_TRANSITIONS: a waiting receipt may not expire.        *)
NoReceiptExpiry ==
       {"pending"} \X {"initiated", "pending_approval", "paid", "failed", "expired"}
  \cup {"initiated"} \X {"paid", "failed", "expired"}
  \cup {"pending_approval"} \X {"paid", "rejected"}
  \cup {"paid"} \X {"confirmed", "refunded"}
  \cup {"confirmed"} \X {"refunded"}

(* <<from, to>>; failed, expired, rejected and refunded are terminal.      *)
ALLOWED_TRANSITIONS ==
       {"pending"} \X {"initiated", "processing", "pending_approval", "paid",
                       "failed", "expired"}
  \cup {"initiated"} \X {"processing", "paid", "failed", "expired"}
  \cup {"processing"} \X {"paid", "failed", "expired"}
  \cup {"pending_approval"} \X {"paid", "rejected", "expired"}
  \cup {"paid"} \X {"confirmed", "refunded"}
  \cup {"confirmed"} \X {"refunded"}

CanTransition(current, target) == <<current, target>> \in ALLOWED_TRANSITIONS

(* `advance` does nothing when the payment is already in the target state  *)
(* and raises InvalidTransitionError, which rolls the whole request back,  *)
(* on an illegal move.  CanAdvance: it does not raise.                     *)
CanAdvance(current, target) == current = target \/ CanTransition(current, target)

=============================================================================
