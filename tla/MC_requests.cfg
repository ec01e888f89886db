\* Two requests of any kind, sent without waiting, with notices of other threads among the replies.
CONSTANTS
    Requests <- MCRequests
    Notices <- MCNotices
    Listings <- MCListings
    SessionIds = {7}
    Ends <- MCEnds
    MaxSends = 2
    MaxPosts = 4
SPECIFICATION Spec
INVARIANTS InSync Readable AnswersInOrder WriteIsFront
PROPERTIES IsOutbox AllArrive LoginAnswered
CHECK_DEADLOCK FALSE
