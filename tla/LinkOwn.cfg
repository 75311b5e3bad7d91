SPECIFICATION Spec
CONSTANTS
    app = app
    worker = worker
    k1 = k1
    k2 = k2
    Clients = {app, worker}
    Keys = {k1, k2}
    Asks <- MCOwnAsks
    Units = {u1}
    Bcast = Bcast
    RetryCount = 1
    SendMayRaise = FALSE
    MaxVersion = 1
    MaxWire = 1
    NoSlot = NoSlot
    None = None
INVARIANTS TypeOK NoKeyError Correlated
PROPERTIES MailboxPerCall MonotoneReads
