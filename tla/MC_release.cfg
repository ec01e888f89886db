\* Liveness of the coroutines, one client port on each host.
CONSTANTS
    Hosts = {h1}
    Ports = {p1}
    SrcHost = h1
    DstHost = h1
    NoPort = NoPort
    NoEndpoint = NoEndpoint
    NoDatagram = NoDatagram
    RecvError = RecvError
    NoUpload = NoUpload
    Expires = TRUE
    Displays = TRUE
SPECIFICATION FairSpec
PROPERTIES StopReleases LostEndStops
CHECK_DEADLOCK FALSE
