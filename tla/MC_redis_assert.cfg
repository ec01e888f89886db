\* stop() against a command under way.
CONSTANTS
    Ids = {i1, i2}
    Guids = {g1}
    NoGuid = NoGuid
    NoId = NoId
    OldHashes = {NoId}
    MaxLength = 8
    EntrySize = 2
    CountMod = 4
SPECIFICATION Spec
SYMMETRY Symmetry
INVARIANTS CommandConnected
CHECK_DEADLOCK FALSE
