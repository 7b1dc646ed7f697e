SPECIFICATION Spec
CONSTANTS
  Sessions <- OneSession
  Messages <- ChatAndSystem
  SessionOf <- ChatAndSystemOf
  Timestamp <- ChatAndSystemAt
  Kind <- ChatAndSystemKind
  WithFiles <- JustChat
  Deferrable <- NoMessages
  MaxAttempts = 2
  Concurrency = 1
  MaxRequeues = 1
  MaxStops = 1
INVARIANT TypeOK
INVARIANT DeliveredMeansShown
INVARIANT AttachmentsTravel
INVARIANT AttemptsOrderedAndBounded
PROPERTY NeverResentAtRest
PROPERTY ImplementsContract
