SPECIFICATION FairSpec
CONSTANTS
  w1 = w1
  w2 = w2
  w3 = w3
  w4 = w4
  a = a
  b = b
  x = x
  k1 = k1
  None = None
  Writers = {w1, w2, w3, w4}
  Partitions = {a, b, x}
  Keys = {k1}
  Bindings <- Lifecycle
  RefusalBindings <- Refusals
  KeyOf <- Contended
  GatewayWriters = {w1, w2}
  BreakerWriters = {w4}
  MaxRetries = 1
  Store = "d1"
INVARIANTS WatermarksStayBound GivenUpOnlyUnderContention ReceiptReferencesHold
PROPERTIES LogSpec EveryWriterAnswers
CHECK_DEADLOCK FALSE
