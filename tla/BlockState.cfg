SPECIFICATION Spec
CONSTANTS
    None = None
    FxTypes <- MCFxTypes
    BaseAddresses <- MCBaseAddresses
    PatchTables <- MCPatchTables
    SettingTables <- MCSettingTables
    TableSuffix <- MCTableSuffix
    ScanOrder <- MCScanOrder
    SliderParams <- MCSliderParams
    FxSliderParams <- MCFxSliderParams
    Patches <- MCPatches
    Controls <- MCControls
    Switches <- MCSwitches
    Strangers <- MCStrangers
    Places <- AllPlaces
    Edits <- AllEdits
    Asked = {1}
    MaxEdits = 2
CHECK_DEADLOCK FALSE
INVARIANTS TypeOK IncrementalIsScan LoadedEffect ReaderSurvives ValueReaches
PROPERTY EchoesAbsorbed
