SPECIFICATION FairSpec
CONSTANTS
    App = App
    NoThread = NoThread
    Keepers = {w1}
    RetryCount = 2
    Chunks = 1
    UnitPort = "default"
    UserPort = "default"
    MaxChanges = 4
INVARIANTS TypeOK OnlyOpeningKills ReopensOnce
PROPERTIES OpenMeansUp KeeperReopens EditorModeKept KeeperStops
