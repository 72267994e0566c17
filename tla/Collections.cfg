\* Two slots of a slot map, reused until their generations run out; slabs from none
\* to three slots; windows of two slot hashes; a heap of six bytes above the scratch,
\* and a size that leaves the address space.  The other instances are in MCCollections.
SPECIFICATION CSpec
CONSTANTS
  zero = zero
  a = a
  b = b
  Capacity = 2
  GENERATIONS = 4
  Value = {zero, a, b}
  Zero = zero
  MaxRetired = 3
  Capacities = {0, 1, 2, 3}
  WINDOW = 2
  MAX_ENTRIES = 21
  Sysvars <- SomeSysvars
  Targets <- SomeTargets
  START = 8
  WORD = 1
  HEAP_RUNTIME_RESERVED = 1
  LEN = 8
  ADDRESSES = 32
  Sizes = {1, 3, 30}
  Aligns = {1, 4}
  MaxBlocks = 3
  MaxMarks = 2
INVARIANTS WellFormed RemovedStaysDead AnswersExactly ProbesHalve BlocksApart
PROPERTIES ImplementsHandles ImplementContainers
