SPECIFICATION FairSpec
CONSTANTS
  Rows <- TwoRows
  Trigger <- TwoRows
  Chat <- OneRow
  Poison <- NoRows
  Window = 2
  Streaming = TRUE
  Routed = FALSE
  EarlyClose = TRUE
  MaxTries = 1
  MaxFaults = 2
  MaxWakeFailures = 1
  MaxRequeues = 0
PROPERTY TriggersSettle
