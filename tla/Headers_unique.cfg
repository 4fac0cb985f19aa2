CONSTANTS
  Keys <- HeaderKeys
  Configs <- UpToTwoRules
  Rcpts = {"alice", "bob"}
  RcptLists <- UpToTwoRcpts
  MaxHeaders = 3
SPECIFICATION Spec
INVARIANT UniqueRemovesOthers
