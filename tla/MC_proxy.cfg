\* Two connections proxy to each other or to themselves; session ids wrap,
\* ports expire.
CONSTANTS
    Sessions = {s1, s2}
    Acceptors = {a1}
    Guids = {g1, g2}
    Types = {"ANYONE"}
    Channels = {c1}
    MaxSessions = 0
    IdSpace = 2
    Faults = {"reset", "nobind", "quiet"}
    NoSession = NoSession
    NoGuid = NoGuid
    NoChannel = NoChannel
SPECIFICATION Spec
SYMMETRY Symmetry
INVARIANTS TypeOK OnlineIsFound StartedIsHeld RunningIsStoppable ToldStopIsStopped ListedUntilTold
PROPERTIES IsChannelLife
CHECK_DEADLOCK FALSE
