SPECIFICATION FairSpec
CONSTANTS
  Sessions <- OneSession
  Messages <- OddMessages
  SessionOf <- OddOf
  Timestamp <- OddAt
  Kind <- OddKind
  WithFiles <- NoMessages
  Deferrable <- OddDeferred
  MaxAttempts = 2
  Concurrency = 1
  MaxRequeues = 0
  MaxStops = 1
PROPERTY DrainsSettle
PROPERTY DeliveredIsFinal
