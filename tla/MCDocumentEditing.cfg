\* Two editors, two fields, two edits; one closing, crash, lost answer or undo, of e1.
SPECIFICATION FairSpec
CONSTANTS
    e1 = e1  e2 = e2
    price = price  quantity = quantity
    Editors = {e1, e2}
    Fields = {price, quantity}
    MaxEdits = 2
    MaxTries = 2
    MaxRare <- MCMaxRare
    Touches <- MCTouches
    Conflict = Conflict
    NoCopy = NoCopy
INVARIANTS
    EditingTypeOK
PROPERTIES
    OverwritesOnlyWhatWasSeen
    CopiesOutliveUnconfirmedWork
    UndoKeepsForeignWork
    EditorsConverge
CHECK_DEADLOCK FALSE
