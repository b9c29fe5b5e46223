SPECIFICATION FairScreens
CONSTANTS
  Watched <- MCWatched
  MaxWrites <- MCWrites
CHECK_DEADLOCK FALSE
  
PROPERTIES PolledRecover
