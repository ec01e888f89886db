CONSTANTS
    Commands = {"HMSET", "HDEL"}
    Auth = "AUTH"
    MaxCommands = 4
SPECIFICATION FairSpec
INVARIANTS WriteHeld OwnReply
PROPERTIES IsPipeline AllAnswered
CHECK_DEADLOCK FALSE
