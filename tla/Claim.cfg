SPECIFICATION ClaimFairSpec
CONSTANTS
  Process <- MCProcess
  Host <- MCHost
  Torn = Torn
  Unclaimed = Unclaimed
PROPERTIES TakesTurns LastOneWorks
CHECK_DEADLOCK FALSE
