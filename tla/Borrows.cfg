SPECIFICATION BSpec
SYMMETRY Symmetric
CONSTANTS
  c1 = c1
  c2 = c2
  c3 = c3
  c4 = c4
  p = p
  q = q
  r = r
  t1 = t1
  t2 = t2
  g1 = g1
  g2 = g2
  g3 = g3
  g4 = g4
  Guard = {g1, g2, g3, g4}
  Cell = {c1, c2, c3, c4}
  Thread = {t1, t2}
  ThreadOf <- HostThreadOf
  Address = {p, q, r}
  AddressOf <- HostAddressOf
  ZERO = r
  SBF = FALSE
  NOT_BORROWED = 3
  CAPACITY = 2
  U16_MAX = 3
  ALIGN = 2
  HEADER = 4
  RESERVE = 2
  DATA = 1
  ID = 2
  CLAMP = 3
  MAX_SLOTS = 4
  FREE = 9
  Inputs <- Serialized
  Bounds = {1, 3, 4}
  Lengths = {0, 1, 2}
INVARIANTS CountsExact InputAsSerialized
PROPERTY ImplementsPromise
