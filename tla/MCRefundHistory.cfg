CONSTANTS
  r1 = r1
  r2 = r2
  r3 = r3
  h1 = h1
  h2 = h2
  Refunds = {r1, r2, r3}
  Amount <- Halves
  Total = 2
  Instant = {r1}
  Servers = {h1, h2}
SPECIFICATION Spec
SYMMETRY Symmetry
INVARIANTS TypeOK CountedOnce NeverOverstated RefundedIsPaidBack
CHECK_DEADLOCK FALSE
