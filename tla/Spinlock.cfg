SPECIFICATION SpinlockSpec
CONSTANTS
  CPUs = {c1, c2, c3}
  Tickets = 3
INVARIANTS
  TicketsInOrder
  MutualExclusion
PROPERTIES
  FifoSpec
  NoStarvation
