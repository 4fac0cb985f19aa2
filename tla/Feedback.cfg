CONSTANTS
  QueueIds = {q1, q2}
  EmptyQueueId = noQueueId
  MsgIds = {m1, m2}
  NoMsgId = noMsgId
  MaxEntrySize = 2
  MaxSize = 2
  Retention = 0
  MaxClock = 1
  here = here
  peer = peer
  b1 = b1
  b2 = b2
  q1 = q1
  q2 = q2
  m1 = m1
  m2 = m2
  spamassassin = spamassassin
  srs = srs
  Processes = {here, peer}
  Instance <- MCInstance
  Running = {peer}
  Everyone = everyone
  Learning = {{here, peer}, {}}
  Judged <- MCJudged
  Here = here
  CachedAt <- MCCachedAt
  Bounces = {b1}
  BounceOf <- MCBounceOf
  MailQueueEnabled = TRUE
  ValidIds = {q1}
  Learners <- MCLearners
  SpamAssassin = spamassassin
SPECIFICATION FairFeedbackSpec
INVARIANTS CacheCoherent LearnedAsReported ActedOnIfStored
PROPERTIES FindableUnlessShared StaleIsPruned RefusedLeaveTheQueue LessonsAreTaught
