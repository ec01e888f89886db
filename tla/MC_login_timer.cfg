\* The login timer against a login that succeeds.
CONSTANTS
    Sessions = {s1}
    Acceptors = {a1}
    Guids = {g1}
    Types = {"ANYONE"}
    Channels = {}
    MaxSessions = 0
    IdSpace = 4
    Faults = {}
    NoSession = NoSession
    NoGuid = NoGuid
    NoChannel = NoChannel
SPECIFICATION FairSpec
PROPERTIES TimerSparesLogined
CHECK_DEADLOCK FALSE
