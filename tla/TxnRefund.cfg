SPECIFICATION TxnSpec
CONSTANTS
  b1 = b1
  b2 = b2
  b3 = b3
  g1 = g1
  g2 = g2
  s1 = s1
  s2 = s2
  t1 = t1
  t2 = t2
  NoSlot = NoSlot
  Txns <- Sessions
  Slots <- OneSlot
  Bookings <- TwoRows
  Groups <- TwoGroups
  GroupOf <- TwoRowsOf
  MaxUses = 0
  Stock = 0
  PerRow = {"cancel_booking", "force_refund"}
  Tiers = {2}
  Overpaid = {0}
  Ops <- Everything
SYMMETRY TxnSymmetry
CHECK_DEADLOCK FALSE
INVARIANT RefundsWithinCapture
