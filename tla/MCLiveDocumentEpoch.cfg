SPECIFICATION Spec
CONSTANTS
    c1 = c1  c2 = c2  i1 = i1
    Clients = {c1, c2}
    Instances = {i1}
    Base = Base
    NoDraft = NoDraft
    CompactAfter = 2
    MaxRare = 1
INVARIANTS
    ReconnectsWithoutDoubledText
CHECK_DEADLOCK FALSE
