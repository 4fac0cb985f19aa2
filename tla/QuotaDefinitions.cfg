CONSTANTS
  Hosts = {h1, h2}
  Checks = {c1, v1}
  Views = {v1}
  Defs = {"a", "b"}
  Most = 2
  MaxChanges = 1
  MaxFailures = 1
  Profiles <- DatabaseProfiles
  Matching <- MatchingOnce
SPECIFICATION FairSpec
INVARIANTS DefinedUnlessInserting DuplicatesBounded
PROPERTY ImportsTakeEffect
