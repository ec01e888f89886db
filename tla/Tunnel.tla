------------------------------- MODULE Tunnel -------------------------------
(***************************************************************************)
(* What the upload direction of a channel promises, without coroutines,    *)
(* sockets or buffers: the target's client joins first and stays the only  *)
(* one data is sent to; then a host joins as the source, and every         *)
(* datagram that is passed on came from that host.  A source may be        *)
(* dismissed again only while nothing has been passed on.                  *)
(***************************************************************************)

CONSTANTS
    Endpoints,      \* [host, port] of the UDP clients
    NoEndpoint,     \* nobody has joined
    NoUpload        \* nothing was passed on

VARIABLES
    src,        \* endpoint of the source
    dst,        \* endpoint of the target
    passed      \* the datagram passed on last: [from, to]

vars == <<src, dst, passed>>

Init == src = NoEndpoint /\ dst = NoEndpoint /\ passed = NoUpload

JoinDst ==
    /\ dst = NoEndpoint
    /\ dst' \in Endpoints
    /\ UNCHANGED <<src, passed>>

JoinSrc ==
    /\ dst # NoEndpoint /\ src = NoEndpoint
    /\ src' \in Endpoints
    /\ UNCHANGED <<dst, passed>>

DismissSrc ==
    /\ src # NoEndpoint /\ passed = NoUpload
    /\ src' = NoEndpoint
    /\ UNCHANGED <<dst, passed>>

\* The source may move to another port of its host.
MoveSrc ==
    /\ src # NoEndpoint
    /\ src' \in Endpoints /\ src'.host = src.host
    /\ UNCHANGED <<dst, passed>>

PassOn ==
    /\ src # NoEndpoint /\ dst # NoEndpoint
    /\ src' \in Endpoints /\ src'.host = src.host
    /\ passed' = [from |-> src', to |-> dst]
    /\ UNCHANGED dst

Next == JoinDst \/ JoinSrc \/ DismissSrc \/ MoveSrc \/ PassOn

Spec == Init /\ [][Next]_vars
=============================================================================
