SPECIFICATION Spec
CONSTANTS
    fx1 = fx1
    comp = comp
    e1 = e1
    e2 = e2
    rate = rate
    depth = depth
    level = level
    c1 = c1
    c2 = c2
    c3 = c3
    c4 = c4
    c5 = c5
    v0 = v0
    v1 = v1
    Blocks = {comp, fx1}
    FxBlocks = {fx1}
    ScanOrder <- MCMixedOrder
    FxTypeOf <- MCMixedTypeOf
    Effects = {e1, e2}
    Settings = {c1, c2, c3, c4, c5}
    Labels = {rate, depth, level}
    LabelOf <- MCMixedLabelOf
    FxTable <- MCFxTable
    BlockTable <- MCMixedTable
    Vals = {v0, v1}
    SlidersOf <- MCMixedSliders
    SlidersUnnamed <- MCMixedUnnamed
    Patches <- MCPatches
    None = None
    NoEntry = NoEntry
    MaxLosses = 2
    MaxEdits = 2
    MaxStops = 0
INVARIANTS NothingWrong ReaderEndsOnlyRaced
CHECK_DEADLOCK FALSE
