SPECIFICATION MCSpec
CONSTANTS
    p1 = p1  g = g  h = h
    Kinds = {"client", "server"}  MaxReconnects = 1  QueueLimit = 3  MaxMessageSize = 2
    MaxRetries = 1  Sizes = {2}  MaxMessages = 2  MaxChunks = 1  FifoIo = FALSE
INVARIANTS    MessagesIntact EndpointSound
PROPERTY NotRevived
\* Every bound is used up and every operation has ended.
CHECK_DEADLOCK FALSE
