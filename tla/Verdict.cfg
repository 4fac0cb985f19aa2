CONSTANTS
  Modules <- MCModules
  Checks <- MCChecks
  Panicking = {"other", "rspamd"}
  Abortable = {"spamassassin"}
  Calling = {"quotas"}
  CallbackPanics = TRUE
  Groups <- SpamGroups
  RejectScore = 1200
  TempfailScore = 800
  BreakerScore = 2500
  ExitOnPanic = FALSE
SPECIFICATION FairSpec
INVARIANTS NoSendAfterClose FailClosed BreakerKeepsVerdict
PROPERTIES GoroutinesEnd AnsweredAsPromised
