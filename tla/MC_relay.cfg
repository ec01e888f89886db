\* Clients on two hosts with two ports each; ports expire.
CONSTANTS
    Hosts = {h1, h2}
    Ports = {p1, p2}
    SrcHost = h1
    DstHost = h2
    NoPort = NoPort
    NoEndpoint = NoEndpoint
    NoDatagram = NoDatagram
    RecvError = RecvError
    NoUpload = NoUpload
    Expires = TRUE
    Displays = FALSE
SPECIFICATION Spec
SYMMETRY Symmetry
INVARIANTS RunningIsServed EchoIsTrue
PROPERTIES IsTunnel IsChannelLife
CHECK_DEADLOCK FALSE
