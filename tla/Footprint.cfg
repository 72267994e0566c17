SPECIFICATION Spec
CONSTANTS
  vault = vault
  mint = mint
  Address = {vault, mint}
  Invocations <- MCInvocations
  EntryLength <- MCEntryLength
  Segment <- MCSegment
  Lengths = {3}
  Written = {1, 2}
  MaxCalls = 2
  U8_MAX = 255
  U32_MAX = 300
CHECK_DEADLOCK FALSE
INVARIANT NoFalsePass HonestNotFlagged Contained Tracked
