\* Three sessions that use one guid in turn, a Redis that holds anything at first, and
\* a buffer for three entries, whose count wraps at three: the proportions of 2048
\* bytes, 8 for an entry and a count of one byte.
CONSTANTS
    Ids = {i1, i2, i3}
    Guids = {g1}
    NoGuid = NoGuid
    NoId = NoId
    OldHashes = {i1, i2, i3, NoId}
    MaxLength = 6
    EntrySize = 2
    CountMod = 3
SPECIFICATION Spec
SYMMETRY Symmetry
INVARIANTS QueueSound ListingFits RedisFollows UpToDate
CHECK_DEADLOCK FALSE
