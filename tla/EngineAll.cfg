SPECIFICATION Spec
CONSTANTS
  b1 = b1
  b2 = b2
  b3 = b3
  g1 = g1
  g2 = g2
  s1 = s1
  s2 = s2
  s3 = s3
  NoSlot = NoSlot
  Slots <- MCSlots
  Bookings <- MCBookings
  Groups <- MCGroups
  GroupOf <- MCGroupOf
  MaxUses = 1
  Stock = 1
  PerRow = {"cancel_booking", "reschedule_booking", "force_refund"}
  Tiers = {2}
  Overpaid = {0}
CONSTRAINT NoSideShows
SYMMETRY Symmetry
INVARIANT LifecycleAgrees
INVARIANT OpenPaymentCanSettle
INVARIANT ConfirmedIsPaid
INVARIANT PaidIsDecided
INVARIANT DiscountUsesCounted
PROPERTY GatewayNeverResurrects
CHECK_DEADLOCK FALSE
