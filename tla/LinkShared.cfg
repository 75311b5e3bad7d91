SPECIFICATION FairSpec
CONSTANTS
    app = app
    worker = worker
    k1 = k1
    k2 = k2
    Clients = {app, worker}
    Keys = {k1}
    Asks <- MCSharedAsks
    Units = {u1, u2}
    Bcast = Bcast
    RetryCount = 1
    SendMayRaise = TRUE
    MaxVersion = 1
    MaxWire = 1
    NoSlot = NoSlot
    None = None
INVARIANTS EmittedFromUnit PendingInFlight
PROPERTIES EveryCallReturns NegotiatedOnce
