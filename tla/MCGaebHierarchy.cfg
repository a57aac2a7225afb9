\* Three sections, two positions, two levels.
SPECIFICATION Spec
CONSTANTS
    Cats = {c1, c2, c3}
    Items = {i1, i2}
    Root = Root
    NoEntry = NoEntry
    HierarchyCycle = HierarchyCycle
    HierarchyLayout = HierarchyLayout
    HierarchyLimit = HierarchyLimit
    MaxLevels = 2
SYMMETRY Symmetry
INVARIANTS
    NativeLayout
    EntriesLandWhereAsked
PROPERTIES
    ImplementsOutlineTree
CHECK_DEADLOCK FALSE
