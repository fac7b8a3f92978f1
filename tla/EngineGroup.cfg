SPECIFICATION Spec
CONSTANTS
  b1 = b1
  b2 = b2
  b3 = b3
  g1 = g1
  g2 = g2
  s1 = s1
  s2 = s2
  s3 = s3
  NoSlot = NoSlot
  Slots <- MCSlots
  Bookings <- MCBookings
  Groups <- MCGroups
  GroupOf <- MCGroupOf
  MaxUses = 1
  Stock = 1
  PerRow = {"reschedule_booking"}
  Tiers = {2}
  Overpaid = {0}
CONSTRAINT OneWithExtras
SYMMETRY Symmetry
INVARIANT TypeOK
INVARIANT SlotsAgree
INVARIANT OpenPaymentHasBooking
INVARIANT ApprovalHasReceipt
INVARIANT DiscountFollowsPayment
INVARIANT EquipmentCounted
INVARIANT MatchHasBooking
PROPERTY DeadStaysDead
CHECK_DEADLOCK FALSE
