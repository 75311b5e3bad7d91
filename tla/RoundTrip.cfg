SPECIFICATION Spec
CONSTANTS
    None = None
    FxTypes <- MCFxTypes
    BaseAddresses <- MCBaseAddresses
    PatchTables <- MCPatchTables
    SettingTables <- MCSettingTables
    TableSuffix <- MCTableSuffix
    UnitId = 16
    Revisions <- MCRevisions
    Settings <- MCSettings
    Slots <- MCSlots
    Chains <- MCChains
    Lists <- MCLists
    Elements <- MCElements
    MaxWrites = 2
CHECK_DEADLOCK FALSE
INVARIANTS TypeOK LastWriteRead RefusedAtZeroSum RewriteKeepsChain RewriteLosesNothing
PROPERTY EchoNamesWrite
