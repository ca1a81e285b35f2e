CONSTANTS
  Clients = {c1, c2}
  ChannelIDs <- MCChannelIDs
  U32 = 4
SPECIFICATION FairSpec
CHECK_DEADLOCK FALSE
INVARIANTS
  SessionOrder
  ServerSurvives
  ClientSurvives
PROPERTIES
  
  GoroutinesEnd
