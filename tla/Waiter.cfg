SPECIFICATION FairSpec
CONSTANTS
  Waits <- MCWaits
  MaxPoll = 2
  MaxChanges = 3
  MaxClock = 20
INVARIANTS OutcomeIsTrue NoEarlyTimeout EndsOnTime
PROPERTY EveryWaitEnds
CHECK_DEADLOCK FALSE
