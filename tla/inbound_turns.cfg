SPECIFICATION Spec
CONSTANTS
  Rows <- ThreeRows
  Trigger <- EndTriggers
  Chat <- OneRow
  Poison <- NoRows
  Window = 2
  Streaming = TRUE
  Routed = TRUE
  EarlyClose = FALSE
  MaxTries = 1
  MaxFaults = 2
  MaxWakeFailures = 1
  MaxRequeues = 1
INVARIANT TypeOK
 
INVARIANT AnsweredOncePerContainer
INVARIANT QueryOwnsItsClaims
