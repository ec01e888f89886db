---------------------------- MODULE RelayProofs -----------------------------
(***************************************************************************)
(* Proofs about Relay, for any hosts, ports and configuration: the types,  *)
(* that no coroutine quits a running channel, that echoes tell the truth,  *)
(* and that the relay implements Tunnel.                                   *)
(***************************************************************************)
EXTENDS Relay, TLAPS

\* A datagram has a sender, a client's endpoint is one that _remote_ep can hold,
\* and what is sent is recorded as an upload.
LEMMA DatagramFacts ==
    /\ \A d \in Datagrams : d.from \in Endpoints
    /\ Endpoints \subseteq AnyEndpoint
    /\ \A f \in Endpoints, t \in AnyEndpoint : [from |-> f, to |-> t] \in Uploads
BY DEF Datagrams, Endpoints, AnyEndpoint, Uploads

\* What a receive leaves in got, and what stop() and an expiry leave of the ends.
LEMMA ReceiveType ==
    ASSUME got \in [Ends -> Outcomes], NEW e \in Ends, Receive(e)
    PROVE  got' \in [Ends -> Outcomes]
BY DEF Receive, Outcomes

LEMMA CloseType ==
    ASSUME EndTypeOK, NEW E \in SUBSET Ends, Close(E)
    PROVE  /\ open' \in [Ends -> BOOLEAN]
           /\ got' \in [Ends -> Outcomes]
           /\ peer' \in AnyEndpoint \cup {NoEndpoint}
BY DEF EndTypeOK, Close, Outcomes

LEMMA StopType ==
    ASSUME TypeOK, Stop
    PROVE  /\ started' \in BOOLEAN
           /\ open' \in [Ends -> BOOLEAN]
           /\ got' \in [Ends -> Outcomes]
           /\ peer' \in AnyEndpoint \cup {NoEndpoint}
<1>1. CASE started
  BY <1>1, CloseType DEF Stop, TypeOK, Ends
<1>2. CASE ~started
  BY <1>2 DEF Stop, TypeOK, EndTypeOK
<1> QED
  BY <1>1, <1>2

\* Every variable of the channel keeps its type, whatever the network, the
\* sessions and the checkers do.
THEOREM TypeCorrect == Spec => []TypeOK
<1>1. Init => TypeOK
  <2>1. Init => ControlTypeOK
    BY ConfigAssumption DEF Init, ControlTypeOK, Waits
  <2>2. Init => EndTypeOK
    BY HostAssumption DEF Init, EndTypeOK, Ends, AnyEndpoint, Outcomes
  <2> QED
    BY <2>1, <2>2 DEF TypeOK
<1>2. TypeOK /\ [Next]_vars => TypeOK'
  <2> SUFFICES ASSUME TypeOK, [Next]_vars PROVE TypeOK'
    OBVIOUS
  <2> USE DEF TypeOK, ControlTypeOK, EndTypeOK, Waits
  <2>0. CASE UNCHANGED vars
    BY <2>0 DEF vars
  <2>1. CASE Start
    BY <2>1, ZenonT(30) DEF Start, StartFlag, SpawnUploader, SpawnDownloader, SpawnDisplayer, Drop, startVars
  <2>2. ASSUME NEW op \in BOOLEAN, UpAgain(op)
        PROVE  up' \in Waits /\ got' \in [Ends -> Outcomes]
    BY <2>2, ReceiveType DEF UpAgain, UpWait, Ends
  <2>5. CASE Uploader
    <3>1. CASE UpBegin
      BY <3>1, <2>2 DEF UpBegin, Ends
    <3>2. CASE UpRecvError
      BY <3>2, <2>2, StopType DEF UpRecvError, Ends
    <3>3. CASE SrcEchoed
      BY <3>3, <2>2 DEF SrcEchoed, Ends
    <3>4. CASE SrcEchoError
      BY <3>4, <2>2, StopType, ZenonT(30) DEF SrcEchoError, Ends
    <3>5. CASE UpForeign
      BY <3>5, <2>2, ZenonT(30) DEF UpForeign
    <3>6. CASE UpBeat
      BY <3>6, <2>2, DatagramFacts, ZenonT(30) DEF UpBeat, Filled, Ends
    <3>7. CASE Uploaded
      BY <3>7, <2>2, ZenonT(30) DEF Uploaded
    <3>8. CASE UploadError
      BY <3>8, <2>2, StopType, ZenonT(30) DEF UploadError
    <3>9. ASSUME NEW ok \in BOOLEAN, SrcAuth(ok)
          PROVE  TypeOK'
      BY <3>9 DEF SrcAuth, Ends, Outcomes
    <3>10. ASSUME NEW ok \in BOOLEAN, Upload(ok)
           PROVE  TypeOK'
      BY <3>10, DatagramFacts DEF Upload, Filled, Ends, Outcomes
    <3> QED
      BY <2>5, <3>1, <3>2, <3>3, <3>4, <3>5, <3>6, <3>7, <3>8, <3>9, <3>10 DEF Uploader
  <2>6. CASE Downloader
    <3>1. ASSUME DownAgain
          PROVE  down' \in Waits /\ got' \in [Ends -> Outcomes]
      BY <3>1, ReceiveType DEF DownAgain, Ends
    <3>2. CASE DstAuthError
      BY <3>2, ReceiveType, StopType DEF DstAuthError, Ends
    <3>3. CASE DstEchoError
      BY <3>3, StopType DEF DstEchoError
    <3>4. CASE DownRecvError
      BY <3>4, <3>1, StopType DEF DownRecvError
    <3>5. CASE DownBeat \/ Downloaded
      BY <3>5, <3>1 DEF DownBeat, Downloaded
    <3>6. CASE DownloadError
      BY <3>6, <3>1, StopType DEF DownloadError
    <3>7. ASSUME NEW ok \in BOOLEAN, Connect(ok)
          PROVE  /\ open' \in [Ends -> BOOLEAN] /\ peer' \in AnyEndpoint \cup {NoEndpoint}
                 /\ down' \in Waits /\ got' \in [Ends -> Outcomes]
      BY <3>7 DEF Connect, Ends, Outcomes
    <3>8. ASSUME NEW ok \in BOOLEAN, DownBegin(ok)
          PROVE  TypeOK'
      BY <3>8, <3>7, ReceiveType DEF DownBegin, Ends
    <3>9. ASSUME NEW ok \in BOOLEAN, DstEchoed(ok)
          PROVE  TypeOK'
      BY <3>9, <3>7 DEF DstEchoed
    <3>10. ASSUME NEW ok \in BOOLEAN, DstAuth(ok)
           PROVE  TypeOK'
      BY <3>10 DEF DstAuth, Ends, Outcomes
    <3>11. ASSUME NEW ok \in BOOLEAN, Download(ok)
           PROVE  TypeOK'
      BY <3>11 DEF Download, Ends, Outcomes
    <3> QED
      BY <2>6, <3>2, <3>3, <3>4, <3>5, <3>6, <3>8, <3>9, <3>10, <3>11 DEF Downloader
  <2>7. CASE Display
    BY <2>7 DEF Display
  <2>8. CASE Checker
    <3>1. ASSUME NEW e \in Ends, Expire(e) PROVE TypeOK'
      BY <3>1, CloseType DEF Expire
    <3>2. ASSUME NEW e \in Ends, Unwatch(e) PROVE TypeOK'
      BY <3>2 DEF Unwatch
    <3> QED
      BY <2>8, <3>1, <3>2 DEF Checker
  <2>9. ASSUME NEW e \in Ends, NEW r \in Datagrams \cup {RecvError}, Arrive(e, r)
        PROVE  TypeOK'
    BY <2>9, DatagramFacts DEF Arrive, Outcomes
  <2>10. ASSUME NEW e \in Ends, PostStop(e) PROVE TypeOK'
    BY <2>10 DEF PostStop
  <2>11. ASSUME NEW e \in Ends, RunStop(e) PROVE TypeOK'
    BY <2>11, StopType DEF RunStop
  <2> QED
    BY <2>0, <2>1, <2>5, <2>6, <2>7, <2>8, <2>9, <2>10, <2>11 DEF Next, Network
<1> QED
  BY <1>1, <1>2, PTL DEF Spec

(***************************************************************************)
(* The inductive invariant.  Where a coroutine waits determines what the   *)
(* handshakes have reached.                                                *)
(***************************************************************************)

Greeting == {"none", "spawned", "auth"}
Early == Greeting \cup {"echoed", "unechoed"}

\* start() runs once, and spawns each coroutine once.
SpawnOrder ==
    /\ starter \in {"made", "flag"} => up = "none"
    /\ starter \in {"made", "flag", "up"} => down = "none"

UpPhase ==
    /\ up \in Greeting => ~opened["src"]
    /\ up \in {"recv", "sent", "unsent"} => opened["src"]
    /\ up = "unechoed" => "src" \notin told
    /\ up \in Early => uploaded = NoUpload

DownPhase ==
    /\ down \in Greeting => ~opened["dst"]
    /\ down \in Early => peer = NoEndpoint

OpenOrder == opened["src"] => opened["dst"]

\* A handshake knows whom it has heard from, and a joined end's client is known.
HeardFrom ==
    /\ up = "auth" /\ got["src"] \in Datagrams => remote["src"] = got["src"].from
    /\ down = "auth" /\ got["dst"] \in Datagrams => remote["dst"] = got["dst"].from
    /\ \A e \in Ends : opened[e] => remote[e] \in Endpoints

PeerIsTarget == opened["dst"] => peer \in {NoEndpoint, remote["dst"]}

Handshake == SpawnOrder /\ UpPhase /\ DownPhase /\ OpenOrder /\ HeardFrom /\ PeerIsTarget

\* Closing forgets the peer or keeps it, and invents no datagram.
LEMMA CloseKeeps ==
    ASSUME EndTypeOK, NEW E \in SUBSET Ends, Close(E)
    PROVE  /\ peer' \in {peer, NoEndpoint}
           /\ \A e \in Ends : got'[e] \in Datagrams => got'[e] = got[e]
BY NothingAssumption DEF EndTypeOK, Close

LEMMA StopKeeps ==
    ASSUME EndTypeOK, Stop
    PROVE  /\ peer' \in {peer, NoEndpoint}
           /\ \A e \in Ends : got'[e] \in Datagrams => got'[e] = got[e]
BY CloseKeeps DEF Stop, Ends

\* A receive that was just issued has brought nothing yet.
LEMMA ReceiveBlank ==
    ASSUME EndTypeOK, NEW e \in Ends, Receive(e)
    PROVE  /\ got'[e] \notin Datagrams
           /\ \A f \in Ends \ {e} : got'[f] = got[f]
BY NothingAssumption DEF EndTypeOK, Receive

LEMMA HandshakeInit == Init => Handshake /\ RunningIsServed /\ EchoIsTrue
BY NothingAssumption
   DEF Init, Handshake, SpawnOrder, UpPhase, DownPhase, OpenOrder, HeardFrom, PeerIsTarget,
       RunningIsServed, EchoIsTrue, Greeting, Early, Ends

\* Each step of the channel keeps the order of the handshakes.
LEMMA HandshakeStep ==
    ASSUME TypeOK, Handshake, EchoIsTrue, [Next]_vars
    PROVE  Handshake' /\ EchoIsTrue'
<1> USE DEF Handshake, SpawnOrder, UpPhase, DownPhase, OpenOrder, HeardFrom, PeerIsTarget,
            EchoIsTrue, Greeting, Early
<1>e. "src" \in Ends /\ "dst" \in Ends /\ "src" # "dst" /\ \A e \in Ends : e \in {"src", "dst"}
  BY DEF Ends
<1>t. EndTypeOK /\ ControlTypeOK
  BY DEF TypeOK
<1>0. CASE UNCHANGED vars
  BY <1>0 DEF vars
<1>1. CASE Start
  BY <1>1 DEF Start, StartFlag, SpawnUploader, SpawnDownloader, SpawnDisplayer, Drop, startVars
<1>2. CASE UpBegin
  BY <1>2, <1>e, <1>t, ReceiveBlank DEF UpBegin, UpAgain, UpWait
<1>3. CASE UpRecvError
  BY <1>3, <1>e, <1>t, ReceiveBlank, StopKeeps DEF UpRecvError, UpAgain, UpWait
<1>4. CASE SrcEchoed
  BY <1>4, <1>e, <1>t, ReceiveBlank DEF SrcEchoed, UpAgain, UpWait
<1>5. CASE SrcEchoError
  BY <1>5, <1>e, <1>t, ReceiveBlank, StopKeeps DEF SrcEchoError, UpAgain, UpWait, EndTypeOK
<1>6. CASE UpForeign
  BY <1>6, <1>e, <1>t, ReceiveBlank DEF UpForeign, UpAgain, UpWait
<1>7. CASE UpBeat
  BY <1>7, <1>e, <1>t, ReceiveBlank, DatagramFacts DEF UpBeat, UpAgain, UpWait, Filled, EndTypeOK
<1>8. CASE Uploaded
  BY <1>8, <1>e, <1>t, ReceiveBlank DEF Uploaded, UpAgain, UpWait
<1>9. CASE UploadError
  BY <1>9, <1>e, <1>t, ReceiveBlank, StopKeeps DEF UploadError, UpAgain, UpWait
<1>10. ASSUME NEW ok \in BOOLEAN, SrcAuth(ok) PROVE Handshake' /\ EchoIsTrue'
  BY <1>10, <1>e, <1>t, DatagramFacts DEF SrcAuth, Filled, EndTypeOK, ControlTypeOK
<1>11. ASSUME NEW ok \in BOOLEAN, Upload(ok) PROVE Handshake' /\ EchoIsTrue'
  BY <1>11, <1>e, <1>t, DatagramFacts DEF Upload, Filled, EndTypeOK
<1>12. CASE DstAuthError
  BY <1>12, <1>e, <1>t, ReceiveBlank, StopKeeps DEF DstAuthError
<1>13. CASE DstEchoError
  BY <1>13, <1>e, <1>t, StopKeeps DEF DstEchoError
<1>14. CASE DownRecvError
  BY <1>14, <1>e, <1>t, ReceiveBlank, StopKeeps DEF DownRecvError, DownAgain
<1>15. CASE DownBeat \/ Downloaded
  BY <1>15, <1>e, <1>t, ReceiveBlank DEF DownBeat, Downloaded, DownAgain
<1>16. CASE DownloadError
  BY <1>16, <1>e, <1>t, ReceiveBlank, StopKeeps DEF DownloadError, DownAgain
<1>17. ASSUME NEW ok \in BOOLEAN, DownBegin(ok) PROVE Handshake' /\ EchoIsTrue'
  BY <1>17, <1>e, <1>t, ReceiveBlank DEF DownBegin, Connect, EndTypeOK
<1>18. ASSUME NEW ok \in BOOLEAN, DstAuth(ok) PROVE Handshake' /\ EchoIsTrue'
  BY <1>18, <1>e, <1>t, DatagramFacts DEF DstAuth, Filled, EndTypeOK, ControlTypeOK
<1>19. ASSUME NEW ok \in BOOLEAN, DstEchoed(ok) PROVE Handshake' /\ EchoIsTrue'
  BY <1>19, <1>e, <1>t DEF DstEchoed, Connect, EndTypeOK
<1>20. ASSUME NEW ok \in BOOLEAN, Download(ok) PROVE Handshake' /\ EchoIsTrue'
  BY <1>20, <1>e, <1>t DEF Download, EndTypeOK
<1>21. CASE Display
  BY <1>21 DEF Display
<1>22. ASSUME NEW e \in Ends, Expire(e) \/ Unwatch(e) PROVE Handshake' /\ EchoIsTrue'
  BY <1>22, <1>e, <1>t, CloseKeeps DEF Expire, Unwatch
<1>23. ASSUME NEW e \in Ends, NEW r \in Datagrams \cup {RecvError}, Arrive(e, r)
       PROVE  Handshake' /\ EchoIsTrue'
  BY <1>23, <1>e, <1>t, DatagramFacts, NothingAssumption DEF Arrive, Receiving, EndTypeOK
<1>24. ASSUME NEW e \in Ends, PostStop(e) \/ RunStop(e) PROVE Handshake' /\ EchoIsTrue'
  BY <1>24, <1>e, <1>t, StopKeeps DEF PostStop, RunStop
<1> QED
  BY <1>0, <1>1, <1>2, <1>3, <1>4, <1>5, <1>6, <1>7, <1>8, <1>9, <1>10, <1>11, <1>12, <1>13, <1>14,
     <1>15, <1>16, <1>17, <1>18, <1>19, <1>20, <1>21, <1>22, <1>23, <1>24
     DEF Next, Uploader, Downloader, Checker, Network

\* The handshake invariant holds in every reachable state.
THEOREM HandshakeCorrect == Spec => [](Handshake /\ EchoIsTrue)
<1>1. Init => Handshake /\ EchoIsTrue
  BY HandshakeInit
<1>2. TypeOK /\ (Handshake /\ EchoIsTrue) /\ [Next]_vars => (Handshake /\ EchoIsTrue)'
  BY HandshakeStep
<1> QED
  BY <1>1, <1>2, TypeCorrect, PTL DEF Spec

\* A client that got its greeting back from srcAuth or dstAuth was let in, and
\* is not shut out again by a failed echo, an expiry or stop().
THEOREM EchoesAreTrue == Spec => []EchoIsTrue
BY HandshakeCorrect, PTL

\* uploader and downloader leave their loops only when the channel is stopped,
\* or stop it themselves: neither quits a running channel.
THEOREM ChannelIsServed == Spec => []RunningIsServed
<1>1. Init => RunningIsServed
  BY HandshakeInit
<1>2. Handshake /\ RunningIsServed /\ [Next]_vars => RunningIsServed'
  <2> SUFFICES ASSUME Handshake, RunningIsServed, [Next]_vars PROVE RunningIsServed'
    OBVIOUS
  <2> USE DEF RunningIsServed
  <2>0. CASE UNCHANGED vars \/ Display
    BY <2>0 DEF vars, Display
  <2>1. CASE Start
    BY <2>1 DEF Start, StartFlag, SpawnUploader, SpawnDownloader, SpawnDisplayer, Drop,
                Handshake, SpawnOrder
  <2>2. CASE Uploader
    BY <2>2 DEF Uploader, UpBegin, UpRecvError, SrcEchoed, SrcEchoError, UpForeign, UpBeat, Uploaded,
                UploadError, SrcAuth, Upload, UpAgain, UpWait, Stop
  <2>3. CASE Downloader
    BY <2>3 DEF Downloader, DstAuthError, DstEchoError, DownRecvError, DownBeat, Downloaded,
                DownloadError, DownBegin, DstAuth, DstEchoed, Download, DownAgain, Connect, Stop
  <2>4. CASE Checker \/ Network
    BY <2>4 DEF Checker, Network, Expire, Unwatch, Arrive
  <2>5. ASSUME NEW e \in Ends, PostStop(e) \/ RunStop(e) PROVE RunningIsServed'
    BY <2>5 DEF PostStop, RunStop, Stop
  <2> QED
    BY <2>0, <2>1, <2>2, <2>3, <2>4, <2>5 DEF Next
<1> QED
  BY <1>1, <1>2, HandshakeCorrect, PTL DEF Spec

(***************************************************************************)
(* Refinement: a channel's upload direction implements Tunnel.             *)
(***************************************************************************)

\* Every step of the channel is a step of the tunnel or leaves it alone.
LEMMA TunnelStep ==
    ASSUME TypeOK, Handshake, [Next]_vars
    PROVE  [T!Next]_(T!vars)
<1> USE DEF T!vars
<1>e. "src" \in Ends /\ "dst" \in Ends /\ "src" # "dst"
  BY DEF Ends
<1>t. /\ remote \in [Ends -> AnyEndpoint] /\ opened \in [Ends -> BOOLEAN]
      /\ NoEndpoint \notin Endpoints
  BY NothingAssumption, DatagramFacts DEF TypeOK, EndTypeOK
<1>1. CASE UNCHANGED <<opened, remote, uploaded>>
  BY <1>1
<1>2. ASSUME NEW e \in Ends, NEW r \in Datagrams \cup {RecvError}, Arrive(e, r)
      PROVE  UNCHANGED T!vars
  BY <1>2, <1>e, <1>t DEF Arrive, Ends, Handshake, UpPhase, DownPhase, Greeting
<1>3. ASSUME NEW ok \in BOOLEAN, SrcAuth(ok)
      PROVE  T!JoinSrc \/ UNCHANGED T!vars
  BY <1>3, <1>e, <1>t, DatagramFacts
     DEF SrcAuth, Filled, T!JoinSrc, Handshake, UpPhase, HeardFrom, Greeting
<1>4. CASE SrcEchoError
  <2>1. opened["src"] => T!DismissSrc
    BY <1>4, <1>e, <1>t DEF SrcEchoError, T!DismissSrc, Handshake, UpPhase, HeardFrom, Early
  <2>2. ~opened["src"] => UNCHANGED T!vars
    BY <1>4, <1>e, <1>t DEF SrcEchoError
  <2> QED
    BY <2>1, <2>2 DEF T!Next
<1>5. CASE UpBeat
  <2>1. T!MoveSrc
    BY <1>5, <1>e, <1>t, DatagramFacts
       DEF UpBeat, Filled, FromSource, T!MoveSrc, Handshake, UpPhase, HeardFrom
  <2> QED
    BY <2>1 DEF T!Next
<1>6. ASSUME NEW ok \in BOOLEAN, Upload(ok)
      PROVE  T!PassOn \/ T!MoveSrc
  <2>1. CASE ok
    BY <1>6, <2>1, <1>e, <1>t, DatagramFacts
       DEF Upload, Filled, FromSource, T!PassOn, Handshake, UpPhase, OpenOrder, HeardFrom, PeerIsTarget
  <2>2. CASE ~ok
    BY <1>6, <2>2, <1>e, <1>t, DatagramFacts
       DEF Upload, Filled, FromSource, T!MoveSrc, Handshake, UpPhase, HeardFrom
  <2> QED
    BY <2>1, <2>2
<1>7. ASSUME NEW ok \in BOOLEAN, DstAuth(ok)
      PROVE  T!JoinDst
  BY <1>7, <1>e, <1>t, DatagramFacts
     DEF DstAuth, Filled, T!JoinDst, Handshake, DownPhase, HeardFrom, Greeting
<1>8. CASE UNCHANGED vars \/ Start \/ Display \/ Checker
  BY <1>1, <1>8 DEF vars, Start, StartFlag, SpawnUploader, SpawnDownloader, SpawnDisplayer, Drop,
                    startVars, Display, Checker, Expire, Unwatch
<1>9. CASE UpBegin \/ UpRecvError \/ SrcEchoed \/ UpForeign \/ Uploaded \/ UploadError
  BY <1>1, <1>9 DEF UpBegin, UpRecvError, SrcEchoed, UpForeign, Uploaded, UploadError
<1>10. CASE DstAuthError \/ DstEchoError \/ DownRecvError \/ DownBeat \/ Downloaded \/ DownloadError
  BY <1>1, <1>10 DEF DstAuthError, DstEchoError, DownRecvError, DownBeat, Downloaded, DownloadError
<1>11. ASSUME NEW ok \in BOOLEAN, DownBegin(ok) \/ DstEchoed(ok) \/ Download(ok)
       PROVE  UNCHANGED <<opened, remote, uploaded>>
  BY <1>11 DEF DownBegin, DstEchoed, Download
<1>12. ASSUME NEW e \in Ends, PostStop(e) \/ RunStop(e)
       PROVE  UNCHANGED <<opened, remote, uploaded>>
  BY <1>12 DEF PostStop, RunStop
<1> QED
  BY <1>1, <1>2, <1>3, <1>4, <1>5, <1>6, <1>7, <1>8, <1>9, <1>10, <1>11, <1>12
     DEF Next, Uploader, Downloader, Network, T!Next

\* CChannel's relay implements Tunnel: whatever datagrams, failures, expiries and
\* stops interleave, data goes only from the host that joined as the source to
\* the endpoint the target joined from, in that order.
THEOREM RelayIsTunnel == Spec => IsTunnel
<1>1. Init => T!Init
  BY DEF Init, T!Init, Ends
<1>2. TypeOK /\ Handshake /\ [Next]_vars => [T!Next]_(T!vars)
  BY TunnelStep
<1> QED
  BY <1>1, <1>2, TypeCorrect, HandshakeCorrect, PTL DEF Spec, IsTunnel, T!Spec

(***************************************************************************)
(* Refinement: a channel's coroutines keep to ChannelLife.                 *)
(***************************************************************************)

\* start() runs once on a channel that has not been dropped, and the channel
\* that is left without a coroutine is one that was never started.
StartedOnce ==
    /\ started => starter # "made" /\ (starter = "gone" => up # "none")
    /\ starter \in {"up", "down", "disp"} => up # "none"

\* Before stop(), only a checker closes an end, and only once.
ClosedIsLost ==
    /\ starter = "made" \/ started => \A e \in Ends : ~open[e] => Expires /\ e \notin watched
    /\ ~Expires => watched = {}

LifeInv == StartedOnce /\ ClosedIsLost

LEMMA LifeInit == Init => LifeInv
  BY DEF Init, LifeInv, StartedOnce, ClosedIsLost

\* Steps of coroutines and of the network: they close no end and do not decide
\* over the channel's life.
Carries ==
    /\ UNCHANGED <<starter, started, stops, watched>>
    /\ up' = "none" <=> up = "none"
    /\ \A e \in Ends : open[e] => open'[e]

\* Steps that find an end closed and call stop().
Gives(e) ==
    /\ ~open[e] /\ Stop
    /\ UNCHANGED <<starter, stops, watched>>
    /\ up' = "none" <=> up = "none"

LEMMA CarriesLife ==
    ASSUME TypeOK, LifeInv, Carries
    PROVE  UNCHANGED L!vars /\ LifeInv'
<1>1. Life' = Life /\ Lost' = Lost
  BY DEF Carries, Life, Lost
<1>2. LifeInv'
  BY DEF Carries, LifeInv, StartedOnce, ClosedIsLost
<1> QED
  BY <1>1, <1>2 DEF Carries, L!vars

LEMMA GivesLife ==
    ASSUME TypeOK, Handshake, LifeInv, NEW e \in Ends, Gives(e)
    PROVE  (L!Abort \/ UNCHANGED L!vars) /\ LifeInv'
<1> USE DEF Gives, Stop
<1>1. LifeInv'
  BY DEF LifeInv, StartedOnce, ClosedIsLost, Handshake, SpawnOrder
<1>2. CASE started
  <2>1. Life = "running" /\ Life' = "stopped"
    BY <1>2 DEF Life, LifeInv, StartedOnce
  <2>2. Lost # {} /\ Lost' = Ends
    BY <1>2, <2>1 DEF Lost, LifeInv, ClosedIsLost
  <2> QED
    BY <1>1, <2>1, <2>2 DEF L!Abort
<1>3. CASE ~started
  <2>1. Life' = Life /\ Lost' = Lost
    BY <1>3 DEF Life, Lost
  <2> QED
    BY <1>1, <2>1 DEF L!vars
<1> QED
  BY <1>2, <1>3

\* Every step of the channel is a step of its life or leaves it alone.
LEMMA LifeStep ==
    ASSUME TypeOK, Handshake, LifeInv, [Next]_vars
    PROVE  [L!Next]_(L!vars) /\ LifeInv'
<1> USE DEF L!Next
<1>e. "src" \in Ends /\ "dst" \in Ends /\ Ends = {"src", "dst"}
  BY DEF Ends
<1>t. open \in [Ends -> BOOLEAN] /\ stops \in [Ends -> {"unposted", "posted", "ran"}]
  BY DEF TypeOK, EndTypeOK, ControlTypeOK
<1>c. CASE Carries
  BY <1>c, CarriesLife
<1>g. ASSUME NEW e \in Ends, Gives(e) PROVE [L!Next]_(L!vars) /\ LifeInv'
  BY <1>g, GivesLife
<1>0. CASE UNCHANGED vars \/ Display
  BY <1>0, <1>c DEF Carries, vars, Display
<1>1. CASE StartFlag
  <2>1. Life = "made" /\ Life' = "running" /\ Lost' = Lost
    BY <1>1 DEF StartFlag, startVars, Life, Lost
  <2>2. LifeInv'
    BY <1>1 DEF StartFlag, startVars, LifeInv, StartedOnce, ClosedIsLost
  <2> QED
    BY <1>1, <2>1, <2>2 DEF StartFlag, startVars, L!Start
<1>2. CASE SpawnUploader \/ SpawnDownloader \/ SpawnDisplayer
  <2>1. Life' = Life /\ Lost' = Lost
    BY <1>2 DEF SpawnUploader, SpawnDownloader, SpawnDisplayer, startVars, Life, Lost
  <2>2. LifeInv'
    BY <1>2 DEF SpawnUploader, SpawnDownloader, SpawnDisplayer, startVars, LifeInv, StartedOnce, ClosedIsLost
  <2> QED
    BY <1>2, <2>1, <2>2 DEF SpawnUploader, SpawnDownloader, SpawnDisplayer, startVars, L!vars
<1>3. CASE Drop
  <2>1. LifeInv'
    BY <1>3 DEF Drop, startVars, LifeInv, StartedOnce, ClosedIsLost, Handshake, SpawnOrder
  <2>2. CASE starter = "made"
    <3>1. Life = "made" /\ Life' = "given_up" /\ Lost' = Ends
      BY <1>3, <2>2 DEF Drop, startVars, Life, Lost, LifeInv, StartedOnce, Handshake, SpawnOrder
    <3> QED
      BY <1>3, <2>1, <3>1 DEF Drop, startVars, L!GiveUp
  <2>3. CASE starter = "disp"
    <3>1. Life' = Life /\ Lost' = Lost
      BY <1>3, <2>3 DEF Drop, startVars, Life, Lost, LifeInv, StartedOnce
    <3> QED
      BY <1>3, <2>1, <3>1 DEF Drop, startVars, L!vars
  <2> QED
    BY <1>3, <2>2, <2>3 DEF Drop
<1>4. CASE UpBegin \/ SrcEchoed \/ UpForeign \/ UpBeat \/ Uploaded
  BY <1>4, <1>c DEF Carries, UpBegin, SrcEchoed, UpForeign, UpBeat, Uploaded, UpAgain, UpWait
<1>5. ASSUME NEW ok \in BOOLEAN, SrcAuth(ok) \/ Upload(ok) PROVE Carries
  BY <1>5 DEF Carries, SrcAuth, Upload
<1>6. CASE UpRecvError \/ SrcEchoError
  <2>1. CASE open["src"]
    BY <1>6, <2>1, <1>c DEF Carries, UpRecvError, SrcEchoError, UpAgain, UpWait
  <2>2. CASE ~open["src"]
    BY <1>6, <2>2, <1>e, <1>g DEF Gives, UpRecvError, SrcEchoError
  <2> QED
    BY <2>1, <2>2
<1>7. CASE UploadError
  <2>1. CASE open["dst"]
    BY <1>7, <2>1, <1>c DEF Carries, UploadError, UpAgain, UpWait
  <2>2. CASE ~open["dst"]
    BY <1>7, <2>2, <1>e, <1>g DEF Gives, UploadError
  <2> QED
    BY <2>1, <2>2
<1>8. CASE DownBeat \/ Downloaded
  BY <1>8, <1>c DEF Carries, DownBeat, Downloaded, DownAgain
<1>9. ASSUME NEW ok \in BOOLEAN, DownBegin(ok) \/ DstAuth(ok) \/ DstEchoed(ok) \/ Download(ok) PROVE Carries
  BY <1>9, <1>t DEF Carries, DownBegin, DstAuth, DstEchoed, Download, Connect
<1>10. CASE DstAuthError \/ DownRecvError \/ DstEchoError
  <2>1. CASE open["dst"]
    BY <1>10, <2>1, <1>c DEF Carries, DstAuthError, DownRecvError, DstEchoError, DownAgain
  <2>2. CASE ~open["dst"]
    BY <1>10, <2>2, <1>e, <1>g DEF Gives, DstAuthError, DownRecvError, DstEchoError
  <2> QED
    BY <2>1, <2>2
<1>11. CASE DownloadError
  <2>1. CASE open["src"]
    BY <1>11, <2>1, <1>c DEF Carries, DownloadError, DownAgain
  <2>2. CASE ~open["src"]
    BY <1>11, <2>2, <1>e, <1>g DEF Gives, DownloadError
  <2> QED
    BY <2>1, <2>2
<1>12. ASSUME NEW e \in Ends, NEW r \in Datagrams \cup {RecvError}, Arrive(e, r) PROVE Carries
  BY <1>12 DEF Carries, Arrive
<1>13. ASSUME NEW e \in Ends, Expire(e) PROVE [L!Next]_(L!vars) /\ LifeInv'
  <2>1. LifeInv'
    BY <1>13, <1>t DEF Expire, Close, LifeInv, StartedOnce, ClosedIsLost
  <2>2. Life' = Life
    BY <1>13 DEF Expire, Life
  <2>3. CASE Life \in {"made", "running"}
    <3>1. Lost' = Lost \cup {e}
      BY <1>13, <2>2, <2>3 DEF Expire, Lost, LifeInv, ClosedIsLost
    <3> QED
      BY <1>13, <2>1, <2>2, <2>3, <3>1 DEF Expire, L!Lose
  <2>4. CASE Life \notin {"made", "running"}
    BY <1>13, <2>1, <2>2, <2>4 DEF Expire, Lost, L!vars
  <2> QED
    BY <2>3, <2>4
<1>14. ASSUME NEW e \in Ends, Unwatch(e) PROVE [L!Next]_(L!vars) /\ LifeInv'
  <2>1. LifeInv'
    BY <1>14 DEF Unwatch, LifeInv, StartedOnce, ClosedIsLost
  <2>2. Life' = Life
    BY <1>14 DEF Unwatch, Life
  <2>3. Life \notin {"made", "running"}
    BY <1>14 DEF Unwatch, Life, LifeInv, ClosedIsLost
  <2> QED
    BY <1>14, <2>1, <2>2, <2>3 DEF Unwatch, Lost, L!vars
<1>15. ASSUME NEW e \in Ends, PostStop(e) PROVE [L!Next]_(L!vars) /\ LifeInv'
  <2>1. LifeInv'
    BY <1>15 DEF PostStop, LifeInv, StartedOnce, ClosedIsLost
  <2>2. Life' = Life /\ Lost' = Lost
    BY <1>15 DEF PostStop, Life, Lost
  <2>3. {f \in Ends : stops'[f] = "posted"} = {f \in Ends : stops[f] = "posted"} \cup {e}
    BY <1>15, <1>t DEF PostStop
  <2> QED
    BY <2>1, <2>2, <2>3 DEF L!Ask
<1>16. ASSUME NEW e \in Ends, RunStop(e) PROVE [L!Next]_(L!vars) /\ LifeInv'
  <2>1. LifeInv'
    BY <1>16 DEF RunStop, Stop, LifeInv, StartedOnce, ClosedIsLost
  <2>2. /\ e \in {f \in Ends : stops[f] = "posted"}
        /\ {f \in Ends : stops'[f] = "posted"} = {f \in Ends : stops[f] = "posted"} \ {e}
    BY <1>16, <1>t DEF RunStop
  <2>3. CASE started
    <3>1. Life = "running" /\ Life' = "stopped" /\ Lost' = Ends
      BY <1>16, <2>3 DEF RunStop, Stop, Life, Lost, LifeInv, StartedOnce
    <3> QED
      BY <2>1, <2>2, <3>1 DEF L!Grant
  <2>4. CASE ~started
    <3>1. Life # "running" /\ Life' = Life /\ Lost' = Lost
      BY <1>16, <2>4 DEF RunStop, Stop, Life, Lost
    <3> QED
      BY <2>1, <2>2, <3>1 DEF L!Grant
  <2> QED
    BY <2>3, <2>4
<1> QED
  BY <1>c, <1>0, <1>1, <1>2, <1>3, <1>4, <1>5, <1>6, <1>7, <1>8, <1>9, <1>10, <1>11, <1>12, <1>13, <1>14,
     <1>15, <1>16 DEF Next, Start, Uploader, Downloader, Checker, Network

\* CChannel's coroutines, checkers and start() and stop() implement ChannelLife:
\* wherever a coroutine waits, it stops a running channel only after an expiry has
\* closed an end, and nothing runs a channel again that was stopped or dropped.
THEOREM RelayLives == Spec => IsChannelLife
<1>1. Init => L!Init
  BY DEF Init, L!Init, Life, Lost
<1>2. TypeOK /\ Handshake /\ LifeInv /\ [Next]_vars => [L!Next]_(L!vars) /\ LifeInv'
  BY LifeStep
<1> QED
  BY <1>1, <1>2, LifeInit, TypeCorrect, HandshakeCorrect, PTL DEF Spec, IsChannelLife, L!Spec
=============================================================================
