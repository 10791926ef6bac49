SPECIFICATION FairSpec
CONSTANTS
  Conns = {c1, c2}
  Authors = {1, 2}
  Slugs = {"a", "b"}
  TagNames = {"x", "y"}
  TagLists <- MCTagLists
  MaxSerial = 2
  NULL = NULL
INVARIANTS TypeOK LocksExclude CirclesOfOneKind
PROPERTIES ImplementsStore EveryCallEnds
