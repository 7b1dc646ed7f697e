SPECIFICATION Spec
CONSTANTS
t1=t1 t2=t2 t3=t3 b1=b1 b2=b2 w1=w1 w2=w2 h1=h1 h2=h2
  MaxOccurrences = 3
  MaxCommands = 3
  MaxTaskTrouble = 2
  SessionIds <- TwoSessions
  Texts <- ThreeTexts
  TtlDays = 1
  HardDays = 1
  ScopeDays = 2
  LastDay = 5
  MaxLifeTrouble = 2
  Rows <- TwoRows
  Script <- SameBulkTwice
  MaxCalls = 3
  MaxBoxes = 2
  RateLimit = 2
  MaxGatewayTrouble = 2
  Writers <- TwoWriters
  MaxRows = 3
  Holders <- TwoHolders
  Ttl = 1
  MaxSize = 2
  LastTick = 3
  MaxEntries = 4
  Slots <- OneSlot
  Participants <- OnePerson
  Messages <- ThreeMessages
  SlotOf <- ThreeSameSlot
  Invites <- NoInvites
  Invitee <- NoInvitee
  MaxSends = 2
  Keys <- NoKeys
  Limit <- NoLimit
  Window <- NoWindow
  KeysOf <- NoKeysOfThree
  InviteKeys <- NoKeys
  SendTimeAwait = TRUE
  AmbiguousErrors = FALSE
  MaxAttempts = 2
  MaxTime = 0
  MaxStops = 1
  MaxConsents = 2
CHECK_DEADLOCK FALSE
INVARIANT SeriesAsCommanded
 
 
INVARIANT NumberingSound
INVARIANT LocksAndQueues
 
