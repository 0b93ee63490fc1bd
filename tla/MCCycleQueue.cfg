SPECIFICATION Spec
CONSTANTS
  Size = 2
  Connection = {c1, c2}
  Event = {send, recv}
INVARIANTS TypeOK NoSlotRace
PROPERTY FifoSpec
