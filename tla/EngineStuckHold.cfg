SPECIFICATION FairSpec
CONSTANTS
  b1 = b1
  b2 = b2
  b3 = b3
  g1 = g1
  g2 = g2
  s1 = s1
  s2 = s2
  s3 = s3
  NoSlot = NoSlot
  Slots <- MCSlots
  Bookings <- MCBookings
  Groups <- MCGroups
  GroupOf <- MCGroupOf
  MaxUses = 0
  Stock = 1
  PerRow = {"cancel_booking"}
  Tiers = {2}
  Overpaid = {0}
CONSTRAINT TransfersOnly
CHECK_DEADLOCK FALSE
PROPERTY UnpaidHoldEnds
