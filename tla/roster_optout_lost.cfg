SPECIFICATION Spec
CONSTANTS
  Slots <- OneSlot
  Participants <- OnePerson
  Messages <- OneMessage
  SlotOf <- OneSlotOf
  Invites <- NoInvites
  Invitee <- NoInvitee
  MaxSends = 1
  Keys <- NoKeys
  Limit <- NoLimit
  Window <- NoWindow
  KeysOf <- NoKeysOfOne
  InviteKeys <- NoKeys
  SendTimeAwait = FALSE
  AmbiguousErrors = FALSE
  MaxAttempts = 2
  MaxTime = 0
  MaxStops = 0
  MaxConsents = 1
INVARIANT WithdrawalSticks
CHECK_DEADLOCK FALSE
