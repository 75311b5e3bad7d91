SPECIFICATION FairSpec
CONSTANTS
    App = App
    NoThread = NoThread
    Keepers = {w1}
    RetryCount = 2
    Chunks = 1
    UnitPort = "custom"
    UserPort = "custom"
    MaxChanges = 2
PROPERTIES PortsRecover
