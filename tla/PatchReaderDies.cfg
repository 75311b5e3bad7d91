SPECIFICATION Spec
CONSTANTS
    fx1 = fx1
    comp = comp
    e1 = e1
    e2 = e2
    rate = rate
    depth = depth
    level = level
    c1 = c1
    c2 = c2
    c3 = c3
    c4 = c4
    c5 = c5
    v0 = v0
    v1 = v1
    Blocks = {fx1}
    FxBlocks = {fx1}
    ScanOrder <- MCFxOrder
    FxTypeOf <- MCFxTypeOf
    Effects = {e1, e2}
    Settings = {c1, c2, c3, c4}
    Labels = {rate, depth, level}
    LabelOf <- MCFxLabelOf
    FxTable <- MCFxTable
    BlockTable <- MCNoTable
    Vals = {v0, v1}
    SlidersOf <- MCSliders
    SlidersUnnamed <- MCUnnamed
    Patches <- MCPatches
    None = None
    NoEntry = NoEntry
    MaxLosses = 0
    MaxEdits = 2
    MaxStops = 0
INVARIANTS ReaderSurvives
CHECK_DEADLOCK FALSE
