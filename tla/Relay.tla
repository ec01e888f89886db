------------------------------- MODULE Relay --------------------------------
(***************************************************************************)
(* The data plane of one channel (CChannel): its two UDP ends, the         *)
(* uploader and downloader coroutines with the handshakes srcAuth and      *)
(* dstAuth, the port expiry checkers, the displayer, start() and stop().   *)
(*                                                                         *)
(* start() runs on the thread of the requesting session; everything else   *)
(* runs on the one thread of the channel's io_context, so a coroutine is   *)
(* interrupted only where it yields: an action is the code between two     *)
(* yields.  The result of an asynchronous operation is fixed when the      *)
(* operation completes, which may be well before the coroutine resumes:    *)
(* stop() or an expiry can come in between.                                *)
(*                                                                         *)
(* The model ends when the last owner releases the channel.  A checker     *)
(* that wakes up later reads freed memory; nothing is said about that.     *)
(***************************************************************************)
EXTENDS Integers, FiniteSets

CONSTANTS
    Hosts, Ports,       \* addresses and ports of the UDP clients
    SrcHost, DstHost,   \* the addresses of the two sessions' TCP peers
    NoPort,             \* port 0: the client's port is not known yet
    NoEndpoint,         \* the destination socket is not connected
    NoDatagram,         \* a receive is outstanding
    RecvError,          \* a receive has completed with an error code
    NoUpload,           \* nothing was uploaded
    Expires,            \* channPortExpired() > 0
    Displays            \* channDisplayInterval() > 0

Ends == {"src", "dst"}
Endpoints == [host : Hosts, port : Ports]

\* "empty": no bytes; "beat": at most two, a heartbeat; "data": more.
Datagrams == [from : Endpoints, kind : {"empty", "beat", "data"}]
AnyEndpoint == [host : Hosts, port : Ports \cup {NoPort}]
Uploads == [from : Endpoints, to : AnyEndpoint]

ASSUME HostAssumption == SrcHost \in Hosts /\ DstHost \in Hosts
ASSUME NothingAssumption ==
    /\ NoPort \notin Ports
    /\ NoEndpoint \notin AnyEndpoint
    /\ NoDatagram \notin Datagrams /\ RecvError \notin Datagrams /\ NoDatagram # RecvError
    /\ NoUpload \notin Uploads
ASSUME ConfigAssumption == Expires \in BOOLEAN /\ Displays \in BOOLEAN

VARIABLES
    starter,    \* how far the requesting session's handler has come with start()
    started,    \* CChannel::_started
    stops,      \* the stop() each session may post with toStop()
    open,       \* CEnd::_socket.is_open()
    opened,     \* CEnd::_opened
    remote,     \* CEnd::_remote_ep
    peer,       \* the endpoint the destination socket is connected to
    got,        \* outcome of the receive of each end's coroutine
    up, down,   \* where uploader and downloader wait
    disp,       \* where the displayer waits
    watched,    \* ends whose portExpiredChecker runs
    told,       \* ends whose client was sent its own greeting back
    uploaded    \* the last datagram sent to the destination's client

vars == <<starter, started, stops, open, opened, remote, peer, got, up, down, disp, watched, told, uploaded>>

Waits == {"none", "spawned", "auth", "echoed", "unechoed", "recv", "sent", "unsent", "done"}
Outcomes == Datagrams \cup {NoDatagram, RecvError}

ControlTypeOK ==
    /\ starter \in {"made", "flag", "up", "down", "disp", "gone"}
    /\ started \in BOOLEAN
    /\ stops \in [Ends -> {"unposted", "posted", "ran"}]
    /\ up \in Waits /\ down \in Waits
    /\ disp \in {"none", "spawned", "wait", "done"}
    /\ watched \subseteq Ends
    /\ told \subseteq Ends

EndTypeOK ==
    /\ open \in [Ends -> BOOLEAN]
    /\ opened \in [Ends -> BOOLEAN]
    /\ remote \in [Ends -> AnyEndpoint]
    /\ peer \in AnyEndpoint \cup {NoEndpoint}
    /\ got \in [Ends -> Outcomes]
    /\ uploaded \in Uploads \cup {NoUpload}

\* The fields of the channel and the states of its coroutines keep to the
\* values the code gives them.
TypeOK == ControlTypeOK /\ EndTypeOK

\* After a successful init(): both ends bound, the clients' ports unknown.
Init ==
    /\ starter = "made"
    /\ started = FALSE
    /\ stops = [e \in Ends |-> "unposted"]
    /\ open = [e \in Ends |-> TRUE]
    /\ opened = [e \in Ends |-> FALSE]
    /\ remote = [e \in Ends |-> [host |-> IF e = "src" THEN SrcHost ELSE DstHost, port |-> NoPort]]
    /\ peer = NoEndpoint
    /\ got = [e \in Ends |-> NoDatagram]
    /\ up = "none" /\ down = "none" /\ disp = "none"
    /\ watched = IF Expires THEN Ends ELSE {}
    /\ told = {}
    /\ uploaded = NoUpload

\* Every shared_ptr to the channel is gone: the session's handler is through,
\* no stop() is posted, no coroutine runs.
Released ==
    /\ starter = "gone"
    /\ \A e \in Ends : stops[e] # "posted"
    /\ up \in {"none", "done"} /\ down \in {"none", "done"} /\ disp \in {"none", "done"}

(***************************************************************************)
(* start(), on the session's thread.                                       *)
(***************************************************************************)

startVars == <<stops, open, opened, remote, peer, got, watched, told, uploaded>>

StartFlag ==
    /\ starter = "made" /\ ~started
    /\ starter' = "flag" /\ started' = TRUE
    /\ UNCHANGED <<startVars, up, down, disp>>

SpawnUploader ==
    /\ starter = "flag"
    /\ starter' = "up" /\ up' = "spawned"
    /\ UNCHANGED <<startVars, started, down, disp>>

SpawnDownloader ==
    /\ starter = "up"
    /\ starter' = "down" /\ down' = "spawned"
    /\ UNCHANGED <<startVars, started, up, disp>>

SpawnDisplayer ==
    /\ starter = "down"
    /\ starter' = "disp"
    /\ disp' = IF Displays THEN "spawned" ELSE "none"
    /\ UNCHANGED <<startVars, started, up, down>>

\* onReqProxy drops its pointer: after start(), or without it when the target
\* session has gone.
Drop ==
    /\ starter \in {"made", "disp"}
    /\ starter' = "gone"
    /\ UNCHANGED <<startVars, started, up, down, disp>>

(***************************************************************************)
(* stop() and the closing of ends.                                         *)
(***************************************************************************)

\* The receive that a coroutine is waiting for at end e, if any.
Receiving(e) == (IF e = "src" THEN up ELSE down) \in {"auth", "recv"}

\* Closing the sockets of E aborts their outstanding receives; a receive that
\* has completed keeps its result.
Close(E) ==
    /\ open' = [e \in Ends |-> open[e] /\ e \notin E]
    /\ got' = [e \in Ends |-> IF e \in E /\ Receiving(e) /\ got[e] = NoDatagram THEN RecvError ELSE got[e]]
    /\ peer' = IF "dst" \in E THEN NoEndpoint ELSE peer

\* Fault: stop() forgets the destination end.
StopSrcEnd ==
    /\ started' = FALSE
    /\ IF started THEN Close({"src"}) ELSE UNCHANGED <<open, got, peer>>

\* The body of stop() runs once, on a started channel.
Stop ==
    /\ started' = FALSE
    /\ IF started THEN Close(Ends) ELSE UNCHANGED <<open, got, peer>>

\* Either session posts stop() while the channel exists (CChannelMap::stopAll).
PostStop(e) ==
    /\ stops[e] = "unposted" /\ ~Released
    /\ stops' = [stops EXCEPT ![e] = "posted"]
    /\ UNCHANGED <<starter, started, open, opened, remote, peer, got, up, down, disp, watched, told, uploaded>>

RunStop(e) ==
    /\ stops[e] = "posted"
    /\ stops' = [stops EXCEPT ![e] = "ran"]
    /\ Stop
    /\ UNCHANGED <<starter, opened, remote, up, down, disp, watched, told, uploaded>>

\* portExpiredChecker finds that the end has been quiet for too long.
Expire(e) ==
    /\ e \in watched /\ open[e] /\ ~Released
    /\ watched' = watched \ {e}
    /\ Close({e})
    /\ UNCHANGED <<starter, started, stops, opened, remote, up, down, disp, told, uploaded>>

\* portExpiredChecker finds its socket closed.
Unwatch(e) ==
    /\ e \in watched /\ ~open[e] /\ ~Released
    /\ watched' = watched \ {e}
    /\ UNCHANGED <<starter, started, stops, open, opened, remote, peer, got, up, down, disp, told, uploaded>>

(***************************************************************************)
(* The network.                                                            *)
(***************************************************************************)

\* An outstanding receive completes with datagram d, or fails with r.  The
\* handshakes receive straight into _remote_ep, and so does an empty datagram.
Arrive(e, r) ==
    /\ Receiving(e) /\ open[e] /\ got[e] = NoDatagram
    /\ got' = [got EXCEPT ![e] = r]
    /\ remote' = IF r # RecvError /\ (IF e = "src" THEN up ELSE down) = "auth"
                   THEN [remote EXCEPT ![e] = r.from] ELSE remote
    /\ UNCHANGED <<starter, started, stops, open, opened, peer, up, down, disp, watched, told, uploaded>>

\* A receive was answered with at least one byte.
Filled(e) == got[e] \in Datagrams /\ got[e].kind # "empty"
Failed(e) == got[e] # NoDatagram /\ ~Filled(e)

\* async_receive: fails at once on a closed socket.
Receive(e) == got' = [got EXCEPT ![e] = IF open[e] THEN NoDatagram ELSE RecvError]

(***************************************************************************)
(* uploader(), with srcAuth().                                             *)
(***************************************************************************)

\* Where the uploader waits next: the conditions of its two loops.
UpWait(op) == IF ~started THEN "done" ELSE IF op THEN "recv" ELSE "auth"

UpAgain(op) == up' = UpWait(op) /\ Receive("src")

UpBegin ==
    /\ up = "spawned"
    /\ UpAgain(opened["src"])
    /\ UNCHANGED <<starter, started, stops, open, opened, remote, peer, down, disp, watched, told, uploaded>>

\* Fault: the uploader gives up without stopping the channel.
UpRecvErrorQuits ==
    /\ up \in {"auth", "recv"} /\ Failed("src")
    /\ IF open["src"]
         THEN UpAgain(opened["src"])
         ELSE up' = "done" /\ UNCHANGED got
    /\ UNCHANGED <<starter, started, stops, open, opened, remote, peer, down, disp, watched, told, uploaded>>

\* Fault: every failed receive, an empty datagram too, stops the channel.
UpRecvErrorStops ==
    /\ up \in {"auth", "recv"} /\ Failed("src")
    /\ up' = "done" /\ Stop
    /\ UNCHANGED <<starter, stops, opened, remote, down, disp, watched, told, uploaded>>

\* A failed receive: try again, or stop the channel when the socket is closed.
UpRecvError ==
    /\ up \in {"auth", "recv"} /\ Failed("src")
    /\ IF open["src"]
         THEN UpAgain(opened["src"]) /\ UNCHANGED <<started, open, peer>>
         ELSE up' = "done" /\ Stop
    /\ UNCHANGED <<starter, stops, opened, remote, down, disp, watched, told, uploaded>>

\* Fault: a source that is not let in gets its own bytes back.
SrcAuthUnzeroed(ok) ==
    /\ up = "auth" /\ Filled("src")
    /\ ok => open["src"]
    /\ opened' = [opened EXCEPT !["src"] = opened["dst"]]
    /\ told' = IF ok THEN told \cup {"src"} ELSE told
    /\ up' = IF ok THEN "echoed" ELSE "unechoed"
    /\ got' = [got EXCEPT !["src"] = NoDatagram]
    /\ UNCHANGED <<starter, started, stops, open, remote, peer, down, disp, watched, uploaded>>

\* The source's greeting: it is let in only after the target.  Its own bytes are
\* sent back if it was, zeroes if it was not.  ok: the echo will be sent.
SrcAuth(ok) ==
    /\ up = "auth" /\ Filled("src")
    /\ ok => open["src"]
    /\ opened' = [opened EXCEPT !["src"] = opened["dst"]]
    /\ told' = IF ok /\ opened["dst"] THEN told \cup {"src"} ELSE told
    /\ up' = IF ok THEN "echoed" ELSE "unechoed"
    /\ got' = [got EXCEPT !["src"] = NoDatagram]
    /\ UNCHANGED <<starter, started, stops, open, remote, peer, down, disp, watched, uploaded>>

SrcEchoed ==
    /\ up = "echoed"
    /\ UpAgain(opened["src"])
    /\ UNCHANGED <<starter, started, stops, open, opened, remote, peer, down, disp, watched, told, uploaded>>

\* The echo failed: the source must greet again.
SrcEchoError ==
    /\ up = "unechoed"
    /\ opened' = [opened EXCEPT !["src"] = FALSE]
    /\ IF open["src"]
         THEN UpAgain(FALSE) /\ UNCHANGED <<started, open, peer>>
         ELSE up' = "done" /\ Stop
    /\ UNCHANGED <<starter, stops, remote, down, disp, watched, told, uploaded>>

\* Fault: the sender is not compared with the source.
FromSourceAlways(d) == TRUE

\* The address the datagram came from is the source's; the port may be new.
FromSource(d) == d.from.host = remote["src"].host

\* A datagram from another address is dropped.
UpForeign ==
    /\ up = "recv" /\ Filled("src") /\ ~FromSource(got["src"])
    /\ UpAgain(TRUE)
    /\ UNCHANGED <<starter, started, stops, open, opened, remote, peer, down, disp, watched, told, uploaded>>

\* A heartbeat moves the source's port and is not passed on.
UpBeat ==
    /\ up = "recv" /\ Filled("src") /\ FromSource(got["src"]) /\ got["src"].kind = "beat"
    /\ remote' = [remote EXCEPT !["src"] = got["src"].from]
    /\ UpAgain(TRUE)
    /\ UNCHANGED <<starter, started, stops, open, opened, peer, down, disp, watched, told, uploaded>>

\* Data is sent to the peer of the destination socket.  ok: it will be sent.
Upload(ok) ==
    /\ up = "recv" /\ Filled("src") /\ FromSource(got["src"]) /\ got["src"].kind = "data"
    /\ ok => open["dst"] /\ peer # NoEndpoint
    /\ remote' = [remote EXCEPT !["src"] = got["src"].from]
    /\ uploaded' = IF ok THEN [from |-> got["src"].from, to |-> peer] ELSE uploaded
    /\ up' = IF ok THEN "sent" ELSE "unsent"
    /\ got' = [got EXCEPT !["src"] = NoDatagram]
    /\ UNCHANGED <<starter, started, stops, open, opened, peer, down, disp, watched, told>>

Uploaded ==
    /\ up = "sent"
    /\ UpAgain(TRUE)
    /\ UNCHANGED <<starter, started, stops, open, opened, remote, peer, down, disp, watched, told, uploaded>>

UploadError ==
    /\ up = "unsent"
    /\ IF open["dst"]
         THEN UpAgain(TRUE) /\ UNCHANGED <<started, open, peer>>
         ELSE up' = "done" /\ Stop
    /\ UNCHANGED <<starter, stops, opened, remote, down, disp, watched, told, uploaded>>

(***************************************************************************)
(* downloader(), with dstAuth().                                           *)
(***************************************************************************)

\* dstAuth() has returned true, because the target was let in or because the
\* channel was stopped: the socket is connected, and opened first if it is
\* closed.  c: connect() succeeds.
Connect(c) ==
    /\ open' = [open EXCEPT !["dst"] = TRUE]
    /\ peer' = IF c THEN remote["dst"] ELSE NoEndpoint
    /\ down' = IF started THEN "recv" ELSE "done"
    /\ got' = [got EXCEPT !["dst"] = NoDatagram]

DownBegin(c) ==
    /\ down = "spawned"
    /\ IF started
         THEN down' = "auth" /\ Receive("dst") /\ UNCHANGED <<open, peer>>
         ELSE Connect(c)
    /\ UNCHANGED <<starter, started, stops, opened, remote, up, disp, watched, told, uploaded>>

\* A failed receive of the handshake; a channel stopped meanwhile leaves the
\* loop only through the closed socket.
DstAuthError ==
    /\ down = "auth" /\ Failed("dst")
    /\ IF open["dst"]
         THEN Receive("dst") /\ UNCHANGED <<started, open, peer, down>>
         ELSE down' = "done" /\ Stop
    /\ UNCHANGED <<starter, stops, opened, remote, up, disp, watched, told, uploaded>>

DstAuth(ok) ==
    /\ down = "auth" /\ Filled("dst")
    /\ ok => open["dst"]
    /\ opened' = [opened EXCEPT !["dst"] = TRUE]
    /\ told' = IF ok THEN told \cup {"dst"} ELSE told
    /\ down' = IF ok THEN "echoed" ELSE "unechoed"
    /\ got' = [got EXCEPT !["dst"] = NoDatagram]
    /\ UNCHANGED <<starter, started, stops, open, remote, peer, up, disp, watched, uploaded>>

\* The target stays let in even if the echo failed, unless the socket is closed.
DstEchoed(c) ==
    /\ down = "echoed" \/ (down = "unechoed" /\ open["dst"])
    /\ Connect(c)
    /\ UNCHANGED <<starter, started, stops, opened, remote, up, disp, watched, told, uploaded>>

DstEchoError ==
    /\ down = "unechoed" /\ ~open["dst"]
    /\ down' = "done" /\ Stop
    /\ UNCHANGED <<starter, stops, opened, remote, up, disp, watched, told, uploaded>>

DownAgain == down' = (IF started THEN "recv" ELSE "done") /\ Receive("dst")

\* Fault: a failed receive is retried even on a closed socket.
DownRecvErrorRetries ==
    /\ down = "recv" /\ Failed("dst")
    /\ DownAgain
    /\ UNCHANGED <<starter, started, stops, open, opened, remote, peer, up, disp, watched, told, uploaded>>

DownRecvError ==
    /\ down = "recv" /\ Failed("dst")
    /\ IF open["dst"]
         THEN DownAgain /\ UNCHANGED <<started, open, peer>>
         ELSE down' = "done" /\ Stop
    /\ UNCHANGED <<starter, stops, opened, remote, up, disp, watched, told, uploaded>>

DownBeat ==
    /\ down = "recv" /\ Filled("dst") /\ got["dst"].kind = "beat"
    /\ DownAgain
    /\ UNCHANGED <<starter, started, stops, open, opened, remote, peer, up, disp, watched, told, uploaded>>

\* Data is sent to the source's endpoint, whatever the source's handshake says.
Download(ok) ==
    /\ down = "recv" /\ Filled("dst") /\ got["dst"].kind = "data"
    /\ ok => open["src"] /\ remote["src"].port # NoPort
    /\ down' = IF ok THEN "sent" ELSE "unsent"
    /\ got' = [got EXCEPT !["dst"] = NoDatagram]
    /\ UNCHANGED <<starter, started, stops, open, opened, remote, peer, up, disp, watched, told, uploaded>>

Downloaded ==
    /\ down = "sent"
    /\ DownAgain
    /\ UNCHANGED <<starter, started, stops, open, opened, remote, peer, up, disp, watched, told, uploaded>>

DownloadError ==
    /\ down = "unsent"
    /\ IF open["src"]
         THEN DownAgain /\ UNCHANGED <<started, open, peer>>
         ELSE down' = "done" /\ Stop
    /\ UNCHANGED <<starter, stops, opened, remote, up, disp, watched, told, uploaded>>

(***************************************************************************)
(* displayer(): wakes at every interval, and when stop() cancels its timer.*)
(***************************************************************************)

Display ==
    /\ disp \in {"spawned", "wait"}
    /\ disp' = IF started THEN "wait" ELSE "done"
    /\ UNCHANGED <<starter, started, stops, open, opened, remote, peer, got, up, down, watched, told, uploaded>>

-----------------------------------------------------------------------------

Start == StartFlag \/ SpawnUploader \/ SpawnDownloader \/ SpawnDisplayer \/ Drop

Uploader ==
    \/ UpBegin \/ UpRecvError \/ SrcEchoed \/ SrcEchoError
    \/ UpForeign \/ UpBeat \/ Uploaded \/ UploadError
    \/ \E ok \in BOOLEAN : SrcAuth(ok) \/ Upload(ok)

Downloader ==
    \/ DstAuthError \/ DstEchoError \/ DownRecvError \/ DownBeat \/ Downloaded \/ DownloadError
    \/ \E ok \in BOOLEAN : DownBegin(ok) \/ DstAuth(ok) \/ DstEchoed(ok) \/ Download(ok)

Checker == \E e \in Ends : Expire(e) \/ Unwatch(e)

Network == \E e \in Ends : \E r \in Datagrams \cup {RecvError} : Arrive(e, r)

Next ==
    \/ Start \/ Uploader \/ Downloader \/ Display \/ Checker \/ Network
    \/ \E e \in Ends : PostStop(e) \/ RunStop(e)

Spec == Init /\ [][Next]_vars

(***************************************************************************)
(* Fairness.  The threads of both contexts run: what is queued is executed *)
(* and start() comes to its end.  The displayer's timer fires.  Nothing is *)
(* assumed of the network, of the sessions that post stop(), or of expiry. *)
(***************************************************************************)
FairSpec ==
    /\ Spec
    /\ WF_vars(Start) /\ WF_vars(Uploader) /\ WF_vars(Downloader) /\ WF_vars(Display)
    /\ \A e \in Ends : WF_vars(RunStop(e))

(***************************************************************************)
(* Properties.                                                             *)
(***************************************************************************)

\* The relay implements a tunnel: data reaches only the endpoint that the target
\* joined from, only after both sides joined in that order, and only from the
\* host that joined as the source.
T == INSTANCE Tunnel WITH
    src <- IF opened["src"] THEN remote["src"] ELSE NoEndpoint,
    dst <- IF opened["dst"] THEN remote["dst"] ELSE NoEndpoint,
    passed <- uploaded
IsTunnel == T!Spec

\* Whether the channel runs, was stopped, or was dropped by onReqProxy without
\* start(); and the ends that their checkers have closed under it.
Life ==
    IF starter = "made" THEN "made"
    ELSE IF started THEN "running"
    ELSE IF starter = "gone" /\ up = "none" THEN "given_up"
    ELSE "stopped"
Lost == IF Life \in {"made", "running"} THEN {e \in Ends : Expires /\ e \notin watched} ELSE Ends

L == INSTANCE ChannelLife WITH
    life <- Life,
    asked <- {e \in Ends : stops[e] = "posted"},
    lost <- Lost

\* The coroutines treat the channel as the control plane does
\* (NatProxy!IsChannelLife): wherever they wait, and whichever error they meet,
\* they stop a running channel only after an expiry has closed one of its ends,
\* and they never bring back one that was stopped.
IsChannelLife == L!Spec

\* No coroutine of a running channel has quit: a channel is never left half
\* alive, with one direction served and the other dead.  As the coroutines own
\* the channel, it is also never destroyed while it runs (~CChannel would call
\* shared_from_this() from stop()).
RunningIsServed == started => up # "done" /\ down # "done"

\* Whoever got its greeting back was let in and is not shut out again.
EchoIsTrue == told \subseteq {e \in Ends : opened[e]}

\* After stop() every coroutine comes to its end, wherever it was waiting, and
\* the channel is released once the session's handler is through.
StopReleases == (starter # "made" /\ ~started) ~> Released

\* When an end is closed under a running channel, the channel stops, unless the
\* downloader's connect() has opened the end again.
LostEndStops == \A e \in Ends : (started /\ ~open[e]) ~> (~started \/ open[e])
=============================================================================
