SPECIFICATION Spec
CONSTANTS
  Slots <- OneSlot
  Participants <- TwoPersons
  Messages <- TwoMessages
  SlotOf <- SameSlot
  Invites <- OneInvite
  Invitee <- OneInvitee
  MaxSends = 0
  Keys <- RateKeys
  Limit <- RateLimit
  Window <- RateWindow
  KeysOf <- BothKeys
  InviteKeys <- DailyKey
  SendTimeAwait = TRUE
  AmbiguousErrors = TRUE
  MaxAttempts = 2
  MaxTime = 1
  MaxStops = 1
  MaxConsents = 1
INVARIANT TypeOK
INVARIANT BooksBalance
INVARIANT RatesHeld
INVARIANT WithdrawalSticks
PROPERTY WithdrawalStopsNewSends
CHECK_DEADLOCK FALSE
