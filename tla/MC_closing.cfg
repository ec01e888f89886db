\* Two connections and a channel between them, or from one to itself.
CONSTANTS
    Sessions = {s1, s2}
    Acceptors = {a1}
    Guids = {g1, g2}
    Types = {"ANYONE"}
    Channels = {c1}
    MaxSessions = 0
    IdSpace = 3
    Faults = {}
    NoSession = NoSession
    NoGuid = NoGuid
    NoChannel = NoChannel
SPECIFICATION FairSpec
INVARIANTS ClosedIsTold
PROPERTIES Settles StopCloses
CHECK_DEADLOCK FALSE
