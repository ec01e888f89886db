CONSTANTS
    Replies <- MCReplies
    Commands <- MCCommands
    Damaged <- MCDamaged
    Damage <- MCDamage
    BufSize = 40
SPECIFICATION Spec
INVARIANTS ReadsWhatWasSent CutsDoNotMatter StacksMatch
CHECK_DEADLOCK FALSE
