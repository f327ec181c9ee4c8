SPECIFICATION FairSpec
CONSTANTS
  Users = {u1, u2}
  Sends = {s1}
  Blockings = {b1, b2}
  Listings = {l1}
  None = None
CHECK_DEADLOCK FALSE
INVARIANTS
  BlockShutsBothOut
  MessagesWereUnlocked
PROPERTIES
  NoMessageAfterBlock
  WaiterIsAnswered
