\* Two connections at one listen address, and a limit of one.
CONSTANTS
    Sessions = {s1, s2}
    Acceptors = {a1}
    Guids = {g1}
    Types = {"ANYONE"}
    Channels = {}
    MaxSessions = 1
    IdSpace = 5
    Faults = {}
    NoSession = NoSession
    NoGuid = NoGuid
    NoChannel = NoChannel
SPECIFICATION Spec
SYMMETRY Symmetry
INVARIANTS ConnLimit
CHECK_DEADLOCK FALSE
