CONSTANTS
  a1 = a1
  a2 = a2
  a3 = a3
  b1 = b1
  c1 = c1
  e1 = e1
  Rows = 6
  Broken = {5}
  Ranges <- MCRanges
  MessagesOf <- MCMessagesOf
  BrokenMessages = {a2, c1}
  BrokenParts <- MCBrokenParts
  Earlier = {1}
  PageSize = 2
  BatchSize = 1
  RawCapacity = 1
  Capacity = 1
  Persisters = {w1, w2}
  NoDocument = none
  MaxFailures = 1
SPECIFICATION FairSpec
INVARIANTS IndexedUnlessLeftBehind StaysIndexed
PROPERTY IndexReturns
