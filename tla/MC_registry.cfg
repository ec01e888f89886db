\* Three connections at two listen addresses want the same guid; the limit is one.
CONSTANTS
    Sessions = {s1, s2, s3}
    Acceptors = {a1, a2}
    Guids = {g1}
    Types = {"CLIENT", "ANYONE"}
    Channels = {}
    MaxSessions = 1
    IdSpace = 5
    Faults = {"lost", "reset"}
    NoSession = NoSession
    NoGuid = NoGuid
    NoChannel = NoChannel
SPECIFICATION Spec
SYMMETRY Symmetry
INVARIANTS ConnCount GuidUnique PublishedIsLive
PROPERTIES IsRegistrar
CHECK_DEADLOCK FALSE
