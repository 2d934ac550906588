SPECIFICATION FairSpec
CONSTANTS
  Home = "home"
  LoginURL = "login"
  Location <- MCLocation
  Expand <- MCExpand
  Documents <- MCDocuments
  Answers <- MCAnswers
  MaxAttempts = 2
CHECK_DEADLOCK FALSE
INVARIANTS OneEndPerAttempt NoPageTwice NoPromptExtracted ProvenUnitsKept
PROPERTIES EveryAttemptReturns
