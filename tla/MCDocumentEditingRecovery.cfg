\* The same, with every overwriting save in view: a copy restored late.
SPECIFICATION Spec
CONSTANTS
    e1 = e1  e2 = e2
    price = price  quantity = quantity
    Editors = {e1, e2}
    Fields = {price, quantity}
    MaxEdits = 2
    MaxTries = 2
    MaxRare <- MCMaxRare
    Touches <- MCTouches
    Conflict = Conflict
    NoCopy = NoCopy
PROPERTIES
    NothingUnseenIsOverwritten
CHECK_DEADLOCK FALSE
