SPECIFICATION FairSpec
CONSTANTS
  vault = vault
  stray = stray
  mint = mint
  MAX_TOUCH_RECORDS = 3
  U32_MAX = 5
  I32_MAX = 4
  U8_MAX = 1
  Key = {vault, stray, mint}
  Touch <- Touches
  Accounts <- ThreeSlots
INVARIANTS NothingLost NothingInvented MapHonest
PROPERTIES OverflowJustified CallsReturn
