SPECIFICATION GSpec
SYMMETRY Symmetric
CONSTANTS
  vault = vault
  config = config
  r1 = r1
  r2 = r2
  g1 = g1
  g2 = g2
  g3 = g3
  Guard = {g1, g2, g3}
  Cell = {vault, config}
  Identity <- Same
  Registry = {r1, r2}
  MAX_SEGMENT_BORROWS = 4
  DataLen <- Lengths
  Writable <- WritableOf
  U32_MAX = 5
  Segment <- Ranges
  Batch <- Asked
  Pod = {1, 2}
  RawEntry <- RawReads
  Flags <- Mapped
  Gates <- Verdicts
  Metas <- NamedLists
  ViewLists <- Given
  MAX_ACCOUNTS = 2
  MAX_ACCTS = 3
  ACCOUNTS = 2
  DATA = 8
  U8_MAX = 255
  Sizes = {1}
INVARIANTS LedgerConflictFree ViewsDisjoint LedgerExact CalleeMayTouch DedupAsStrict HeadersDescribeAccounts AliasesOnlyWhereWaived
