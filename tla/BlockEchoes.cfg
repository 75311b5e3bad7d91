SPECIFICATION Spec
CONSTANTS
    None = None
    FxTypes <- MCFxTypes
    BaseAddresses <- MCBaseAddresses
    PatchTables <- MCPatchTables
    SettingTables <- MCSettingTables
    TableSuffix <- MCTableSuffix
    ScanOrder <- MCScanOrder
    SliderParams <- MCSliderParams
    FxSliderParams <- MCFxSliderParams
    Patches <- MCPatches
    Controls <- MCEchoControls
    Switches <- MCSwitches
    Strangers <- MCStrangers
    Places <- AllPlaces
    Edits <- AllEdits
    Asked = {1}
    MaxEdits = 2
CHECK_DEADLOCK FALSE
INVARIANT IncrementalIsScan
