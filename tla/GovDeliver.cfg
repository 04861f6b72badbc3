SPECIFICATION FairSpec
CONSTANTS
  d1 = d1
  d2 = d2
  v1 = v1
  Deliveries = {d1, d2}
  Envelopes = {v1}
  MaxAttempts = 3
  Workers = 1
  Statuses = {202, 400}
  MaxVersion = 1
CHECK_DEADLOCK FALSE
INVARIANTS ReceiptRecorded StableBody RetriesJustified BackoffBounded
PROPERTIES EndedSendsNothing ImplementsDelivery EveryDeliveryEnds
