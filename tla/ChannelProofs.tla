---------------------------- MODULE ChannelProofs ----------------------------
(***************************************************************************)
(* Proofs about the life of the channels of NatProxy: a running channel    *)
(* can be stopped, STOPPROXY is told only of channels that are closed, and *)
(* a session lists a channel until it is told.                             *)
(***************************************************************************)
EXTENDS NatProxyProofs

(***************************************************************************)
(* The inductive invariant.                                                *)
(***************************************************************************)

\* The points of a session that has not been started.
Fresh == {"none", "dropped", "accepted"}

\* The map and the channels lead to sessions that have been started.
Known ==
    /\ \A i \in Ids : ssMap[i] # NoSession => pc[ssMap[i]] \notin Fresh
    /\ \A c \in Channels : chSt[c] # "free" =>
        /\ chSrc[c] \in Sessions /\ pc[chSrc[c]] \notin Fresh
        /\ chDst[c] \in Sessions /\ pc[chDst[c]] \notin Fresh

\* The points up to start(), at which a request has its channel to itself.
Building == ProxySteps \ {"px_access", "px_ok"}

\* What a request has done to its channel when it has come to a point.  The
\* target is in no such hurry: it may stop, and clear its map, at any time.
Built ==
    \A s \in Sessions :
        /\ pc[s] \in ProxySteps => chSrc[cur[s]] = s /\ chSt[cur[s]] # "free"
        /\ pc[s] \in Building => chSt[cur[s]] = "made"
        /\ pc[s] \in {"px_dst", "px_run", "px_start"} => cur[s] \in srcMap[s]
        /\ pc[s] \in {"px_run", "px_start"} /\ started[chDst[cur[s]]] => cur[s] \in dstMap[chDst[cur[s]]]

\* Where ports do not expire, only stop() closes the ends of a channel.
EndsStayOpen ==
    "quiet" \notin Faults =>
        /\ \A s \in Sessions : pc[s] \in Building \ {"px_init"} => endsOpen[cur[s]] = Ends
        /\ \A c \in Channels : chSt[c] \in {"started", "cl_src", "cl_dst"} => endsOpen[c] = Ends

StopNotice(c, e) == [func |-> "STOPPROXY", ch |-> c, end |-> e]

\* stop() tells the requester on leaving cl_src and the target on leaving cl_dst.
Notified ==
    \A s \in Sessions, c \in Channels :
        /\ StopNotice(c, "src") \in out[s] => chSt[c] \in {"cl_dst", "closed"}
        /\ StopNotice(c, "dst") \in out[s] => chSt[c] = "closed"

\* A requester that runs lists the channel up to the step that tells it...
SrcSide ==
    \A c \in Channels : started[chSrc[c]] =>
        /\ chSt[c] \in {"started", "cl_src"} => c \in srcMap[chSrc[c]]
        /\ chSt[c] \in {"cl_dst", "closed"} =>
            /\ StopNotice(c, "src") \in out[chSrc[c]] <=> c \notin srcMap[chSrc[c]]
            /\ "quiet" \notin Faults => StopNotice(c, "src") \in out[chSrc[c]]

\* ... and so does a target.
DstSide ==
    \A c \in Channels : started[chDst[c]] =>
        /\ chSt[c] \in {"started", "cl_src", "cl_dst"} => c \in dstMap[chDst[c]]
        /\ chSt[c] = "closed" =>
            /\ StopNotice(c, "dst") \in out[chDst[c]] <=> c \notin dstMap[chDst[c]]
            /\ "quiet" \notin Faults => StopNotice(c, "dst") \in out[chDst[c]]

LifeInv == Known /\ Built /\ EndsStayOpen /\ Notified /\ SrcSide /\ DstSide /\ RunningIsStoppable

Inv == TypeInv /\ GuidInv /\ OwnInv /\ LifeInv

LEMMA LifeInit == Init => LifeInv
  BY NoneAssumption
     DEF Init, LifeInv, Known, Built, EndsStayOpen, Notified, SrcSide, DstSide, RunningIsStoppable,
         Building, ProxySteps

(***************************************************************************)
(* Most steps leave the channels alone.                                    *)
(***************************************************************************)

\* Channels are as they were, nobody enters or leaves a request, and a session
\* that runs now did so before or has only been started.
Quiet ==
    /\ UNCHANGED <<chVars, cur>>
    /\ \A t \in Sessions :
        /\ pc[t] \in ProxySteps \/ pc'[t] \in ProxySteps => pc'[t] = pc[t]
        /\ pc'[t] \in Fresh => pc[t] \in Fresh
        /\ started'[t] => started[t] \/ pc[t] \in Fresh
        /\ BeforeStopSrc(t) => BeforeStopSrc(t)'
    /\ \A i \in Ids : ssMap'[i] # NoSession => ssMap'[i] \in Sessions /\ pc[ssMap'[i]] \notin Fresh

\* The other steps of a session.
ChannelStep(s) ==
    \/ \E i \in Ids, c \in Channels : ProxyCreate(s, i, c)
    \/ ProxyStep(s) \/ StopSrc(s) \/ StopDst(s)

LEMMA QuietSession ==
    ASSUME Inv, NEW s \in Sessions, Session(s)
    PROVE  Quiet \/ ChannelStep(s)
  <1> USE DEF Inv, TypeInv, TypeOK, SessionTypeOK, RegistryTypeOK, GuidInv, PhaseOK, LifeInv, Known, Quiet,
              Fresh, BeforeStopSrc, LoginSteps, ProxySteps, StopSteps,
              sessVars, mgrVars, Goto, Done, Request, Idle
  <1>1. CASE TimerExpire(s) \/ ReadComplete(s)
    BY <1>1 DEF TimerExpire, ReadComplete
  <1>2. CASE OnTimeout(s) \/ ReadFail(s)
    BY <1>2 DEF OnTimeout, ReadFail, StopBegin, Stops
  <1>3. CASE OnReadBody(s)
    <2>1. CASE OnReqOther(s)
      BY <2>1 DEF OnReqOther
    <2>2. ASSUME NEW g \in Guids, NEW t \in Types, LoginRejected(s, g, t) \/ LoginReserve(s, g, t) PROVE Quiet
      BY <2>2 DEF LoginRejected, LoginReserve
    <2>3. ASSUME NEW i \in Ids, ProxyNotFound(s, i) PROVE Quiet
      BY <2>3 DEF ProxyNotFound
    <2> QED BY <1>3, <2>1, <2>2, <2>3 DEF OnReadBody, ChannelStep
  <1>4. CASE LoginStep(s)
    <2>1. CASE LoginMap(s)
      <3>1. \A i \in Ids : ssMap'[i] # NoSession => ssMap'[i] \in Sessions /\ pc[ssMap'[i]] \notin Fresh
        BY <2>1 DEF LoginMap
      <3> QED BY <2>1, <3>1 DEF LoginMap
    <2>2. CASE LoginId(s) \/ LoginUndo(s) \/ LoginDb(s) \/ LoginNoPeer(s) \/ LoginOk(s)
      BY <2>2 DEF LoginId, LoginUndo, LoginDb, LoginNoPeer, LoginOk
    <2> QED BY <1>4, <2>1, <2>2 DEF LoginStep
  <1>5. CASE CloseGuid(s) \/ CloseDb(s) \/ CloseMap(s) \/ SessionClosed(s)
    BY <1>5 DEF CloseGuid, CloseDb, CloseMap, SessionClosed
  <1> QED BY <1>1, <1>2, <1>3, <1>4, <1>5 DEF Session, Handler, StopStep, ChannelStep

LEMMA QuietNext ==
    ASSUME Inv, [Next]_vars
    PROVE  Quiet \/ (\E s \in Sessions : ChannelStep(s)) \/ (\E c \in Channels : Channel(c))
  <1> USE DEF Inv, TypeInv, TypeOK, ServerTypeOK, SessionTypeOK, RegistryTypeOK, GuidInv, AccOK, PhaseOK,
              LifeInv, Known, Quiet, Fresh, BeforeStopSrc, ProxySteps, sessVars, mgrVars
  <1>1. CASE UNCHANGED vars
    BY <1>1 DEF vars, ssVars
  <1>2. ASSUME NEW a \in Acceptors, AcceptStart(a) PROVE Quiet
    <2>1. acc[a] \in Sessions /\ pc[acc[a]] = "accepted"
      BY <1>2 DEF AcceptStart
    <2>2. /\ pc' = [pc EXCEPT ![acc[a]] = "idle"]
          /\ started' = [started EXCEPT ![acc[a]] = TRUE]
          /\ UNCHANGED <<chVars, cur, mgrVars>>
      BY <1>2 DEF AcceptStart
    <2>3. \A t \in Sessions : t # acc[a] => pc'[t] = pc[t] /\ started'[t] = started[t]
      BY <2>2
    <2>4. pc'[acc[a]] = "idle" /\ started'[acc[a]]
      BY <2>1, <2>2
    <2>5. \A i \in Ids : ssMap'[i] # NoSession => ssMap'[i] \in Sessions /\ pc[ssMap'[i]] \notin Fresh
      BY <2>2
    <2> QED BY <2>1, <2>2, <2>3, <2>4, <2>5
  <1>3. ASSUME NEW a \in Acceptors, NEW s \in Sessions, AcceptDrop(a, s) \/ AcceptCheck(a, s) PROVE Quiet
    BY <1>3 DEF AcceptDrop, AcceptCheck
  <1> QED BY <1>1, <1>2, <1>3, QuietSession DEF Next, Accept

LEMMA QuietLife == ASSUME Inv, Quiet PROVE LifeInv'
  <1> USE DEF Inv, LifeInv, Quiet, chVars, TypeInv, CurOK, TypeOK, SessionTypeOK
  <1>1. Known'
    BY DEF Known, RegistryTypeOK
  <1>2. Built'
    BY DEF Known, Built, Building, ProxySteps
  <1>3. EndsStayOpen' /\ Notified'
    BY DEF EndsStayOpen, Notified, Building, StopNotice
  <1>4. SrcSide' /\ DstSide' /\ RunningIsStoppable'
    BY DEF Known, SrcSide, DstSide, StopNotice, RunningIsStoppable
  <1> QED BY <1>1, <1>2, <1>3, <1>4

(***************************************************************************)
(* The channel's own steps.                                                *)
(***************************************************************************)

\* Telling an end that its channel stops adds that notice and no other.
LEMMA TellStop ==
    ASSUME out \in [Sessions -> SUBSET Notices], NEW o \in Sessions, NEW c \in Channels, NEW e \in Ends,
           Tell(o, "STOPPROXY", c, e)
    PROVE  \A s \in Sessions, d \in Channels, f \in Ends :
               StopNotice(d, f) \in out'[s] <=> (StopNotice(d, f) \in out[s] \/ (s = o /\ d = c /\ f = e))
  BY DEF Tell, StopNotice

\* The other notices leave the STOPPROXY notices as they are.
LEMMA TellOther ==
    ASSUME out \in [Sessions -> SUBSET Notices], NEW o \in Sessions, NEW c \in Channels, NEW e \in Ends,
           NEW g \in {"ACCESS", "PROXY"}, Tell(o, g, c, e)
    PROVE  \A s \in Sessions, d \in Channels, f \in Ends :
               StopNotice(d, f) \in out'[s] <=> StopNotice(d, f) \in out[s]
  BY DEF Tell, StopNotice

\* What the invariants say about ownership, in the form the closing steps use.
LEMMA StartedHeld == Inv => StartedIsHeld
  BY DEF Inv, TypeInv, TypeOK, SessionTypeOK, Points, GuidInv, PhaseOK, OwnInv, IdleReads,
         StartedIsHeld, Held

LEMMA LifePostedStop ==
    ASSUME Inv, NEW c \in Channels, NEW e \in Ends, PostedStop(c, e)
    PROVE  LifeInv'
  <1> USE DEF Inv, TypeInv, TypeOK, ChannelTypeOK, SessionTypeOK, CurOK, LifeInv
  <1>1. /\ UNCHANGED <<chSrc, chDst, endsOpen, srcMap, dstMap, out, pc, cur, started, ssMap>>
        /\ \A d \in Channels : d # c => chSt'[d] = chSt[d] /\ stopQ'[d] = stopQ[d]
        /\ (chSt'[c] = chSt[c] /\ chSt[c] # "started") \/ (chSt'[c] = "cl_src" /\ chSt[c] = "started")
    <2>1. /\ UNCHANGED <<chSrc, chDst, endsOpen, srcMap, dstMap, out, pc, cur, started, ssMap>>
          /\ chSt' = [chSt EXCEPT ![c] = IF chSt[c] = "started" THEN "cl_src" ELSE chSt[c]]
          /\ stopQ' = [stopQ EXCEPT ![c] = stopQ[c] \ {e}]
      BY DEF PostedStop, Stoppable, ssVars, sessVars, mgrVars
    <2> QED BY <2>1
  <1>2. Known' /\ Built'
    BY <1>1 DEF Known, Built, Building, ProxySteps
  <1>3. EndsStayOpen' /\ Notified'
    BY <1>1 DEF EndsStayOpen, Notified, Building, StopNotice
  <1>4. SrcSide' /\ DstSide'
    BY <1>1 DEF SrcSide, DstSide, StopNotice
  <1>5. RunningIsStoppable'
    BY <1>1 DEF RunningIsStoppable, BeforeStopSrc
  <1> QED BY <1>2, <1>3, <1>4, <1>5

LEMMA LifeExpire ==
    ASSUME Inv, NEW c \in Channels, NEW e \in Ends, Expire(c, e)
    PROVE  LifeInv'
  <1>1. UNCHANGED <<chSt, chSrc, chDst, stopQ, srcMap, dstMap, out, pc, cur, started, ssMap>> /\ "quiet" \in Faults
    BY DEF Expire, ssVars, sessVars, mgrVars
  <1>2. Known' /\ Built' /\ EndsStayOpen' /\ Notified'
    BY <1>1 DEF Inv, LifeInv, Known, Built, EndsStayOpen, Notified, StopNotice
  <1>3. SrcSide' /\ DstSide' /\ RunningIsStoppable'
    BY <1>1 DEF Inv, LifeInv, SrcSide, DstSide, StopNotice, RunningIsStoppable, BeforeStopSrc
  <1> QED BY <1>2, <1>3 DEF LifeInv

LEMMA LifeRelayAbort ==
    ASSUME Inv, NEW c \in Channels, RelayAbort(c)
    PROVE  LifeInv'
  <1> USE DEF Inv, TypeInv, TypeOK, ChannelTypeOK, SessionTypeOK, CurOK, LifeInv
  <1>1. /\ UNCHANGED <<chSrc, chDst, stopQ, endsOpen, srcMap, dstMap, out, pc, cur, started, ssMap>>
        /\ \A d \in Channels : d # c => chSt'[d] = chSt[d]
        /\ chSt[c] = "started" /\ chSt'[c] = "cl_src"
    BY DEF RelayAbort, Stoppable, ssVars, sessVars, mgrVars
  <1>2. Known' /\ Built'
    BY <1>1 DEF Known, Built, Building, ProxySteps
  <1>3. EndsStayOpen' /\ Notified'
    BY <1>1 DEF EndsStayOpen, Notified, Building, StopNotice
  <1>4. SrcSide' /\ DstSide'
    BY <1>1 DEF SrcSide, DstSide, StopNotice
  <1>5. RunningIsStoppable'
    BY <1>1 DEF RunningIsStoppable, BeforeStopSrc
  <1> QED BY <1>2, <1>3, <1>4, <1>5

\* The requester is told, or cannot be: then it does not run, or its end has
\* expired and it keeps the entry.
LEMMA LifeCloseSrc ==
    ASSUME Inv, NEW c \in Channels, CloseSrc(c)
    PROVE  LifeInv'
  <1> USE DEF Inv, TypeInv, TypeOK, ChannelTypeOK, SessionTypeOK, CurOK, LifeInv, Ends
  <1>1. /\ UNCHANGED <<chSrc, chDst, stopQ, endsOpen, dstMap, pc, cur, started, ssMap>>
        /\ \A d \in Channels : d # c => chSt'[d] = chSt[d]
        /\ chSt[c] = "cl_src" /\ chSt'[c] = "cl_dst"
    BY DEF CloseSrc, ssVars, sessVars, mgrVars
  <1>2. chSrc[c] \in Sessions
    BY <1>1 DEF Known
  <1>3. /\ \A s \in Sessions, d \in Channels : d # c => (d \in srcMap'[s] <=> d \in srcMap[s])
        /\ \A s \in Sessions, d \in Channels : StopNotice(d, "dst") \in out'[s] <=> StopNotice(d, "dst") \in out[s]
        /\ \A s \in Sessions, d \in Channels :
            d # c => (StopNotice(d, "src") \in out'[s] <=> StopNotice(d, "src") \in out[s])
    <2>1. CASE srcMap' = [srcMap EXCEPT ![chSrc[c]] = @ \ {c}] /\ Tell(chSrc[c], "STOPPROXY", c, "src")
      <3>1. \A s \in Sessions, d \in Channels, f \in Ends :
              StopNotice(d, f) \in out'[s] <=> (StopNotice(d, f) \in out[s] \/ (s = chSrc[c] /\ d = c /\ f = "src"))
        BY <1>2, <2>1, TellStop
      <3> QED BY <2>1, <3>1
    <2>2. CASE UNCHANGED <<srcMap, out>>
      BY <2>2
    <2> QED BY <2>1, <2>2 DEF CloseSrc
  <1>4. started[chSrc[c]] =>
          /\ StopNotice(c, "src") \in out'[chSrc[c]] <=> c \notin srcMap'[chSrc[c]]
          /\ "quiet" \notin Faults => StopNotice(c, "src") \in out'[chSrc[c]]
    <2>1. CASE srcMap' = [srcMap EXCEPT ![chSrc[c]] = @ \ {c}] /\ Tell(chSrc[c], "STOPPROXY", c, "src")
      <3>1. StopNotice(c, "src") \in out'[chSrc[c]]
        BY <1>2, <2>1, TellStop
      <3> QED BY <1>2, <2>1, <3>1
    <2>2. CASE Ownerless(c, "src", chSrc[c]) /\ UNCHANGED <<srcMap, out>>
      <3>1. started[chSrc[c]] => c \in srcMap[chSrc[c]] /\ StopNotice(c, "src") \notin out[chSrc[c]]
        BY <1>1, <1>2 DEF SrcSide, Notified
      <3>2. "quiet" \notin Faults => ~started[chSrc[c]]
        BY <1>1, <1>2, <2>2, StartedHeld DEF EndsStayOpen, Ownerless, StartedIsHeld
      <3> QED BY <2>2, <3>1, <3>2
    <2> QED BY <2>1, <2>2 DEF CloseSrc
  <1>5. Known' /\ Built'
    BY <1>1, <1>3 DEF Known, Built, Building, ProxySteps
  <1>6. EndsStayOpen' /\ Notified'
    BY <1>1, <1>3 DEF EndsStayOpen, Notified, Building
  <1>7. SrcSide' /\ DstSide'
    <2>1. \A d \in Channels : chSt[d] # "free" => chSrc[d] \in Sessions /\ chDst[d] \in Sessions
      BY DEF Known
    <2>2. SrcSide'
      <3> SUFFICES ASSUME NEW d \in Channels, started[chSrc[d]], chSt'[d] # "free"
                   PROVE  /\ chSt'[d] \in {"started", "cl_src"} => d \in srcMap'[chSrc[d]]
                          /\ chSt'[d] \in {"cl_dst", "closed"} =>
                              /\ StopNotice(d, "src") \in out'[chSrc[d]] <=> d \notin srcMap'[chSrc[d]]
                              /\ "quiet" \notin Faults => StopNotice(d, "src") \in out'[chSrc[d]]
        BY <1>1 DEF SrcSide, StopNotice
      <3>1. CASE d = c
        BY <1>1, <1>4, <3>1
      <3>2. CASE d # c
        BY <1>1, <1>3, <2>1, <3>2 DEF SrcSide
      <3> QED BY <3>1, <3>2
    <2>3. DstSide'
      <3> SUFFICES ASSUME NEW d \in Channels, started[chDst[d]], chSt'[d] # "free"
                   PROVE  /\ chSt'[d] \in {"started", "cl_src", "cl_dst"} => d \in dstMap'[chDst[d]]
                          /\ chSt'[d] = "closed" =>
                              /\ StopNotice(d, "dst") \in out'[chDst[d]] <=> d \notin dstMap'[chDst[d]]
                              /\ "quiet" \notin Faults => StopNotice(d, "dst") \in out'[chDst[d]]
        BY <1>1 DEF DstSide, StopNotice
      <3> QED BY <1>1, <1>3, <2>1 DEF DstSide
    <2> QED BY <2>2, <2>3
  <1>8. RunningIsStoppable'
    BY <1>1, <1>3 DEF RunningIsStoppable, BeforeStopSrc, Known
  <1> QED BY <1>5, <1>6, <1>7, <1>8

\* The same for the target.
LEMMA LifeCloseDst ==
    ASSUME Inv, NEW c \in Channels, CloseDst(c)
    PROVE  LifeInv'
  <1> USE DEF Inv, TypeInv, TypeOK, ChannelTypeOK, SessionTypeOK, CurOK, LifeInv, Ends
  <1>1. /\ UNCHANGED <<chSrc, chDst, stopQ, srcMap, pc, cur, started, ssMap>>
        /\ \A d \in Channels : d # c => chSt'[d] = chSt[d] /\ endsOpen'[d] = endsOpen[d]
        /\ chSt[c] = "cl_dst" /\ chSt'[c] = "closed"
    BY DEF CloseDst, ssVars, sessVars, mgrVars
  <1>2. chDst[c] \in Sessions
    BY <1>1 DEF Known
  <1>3. /\ \A s \in Sessions, d \in Channels : d # c => (d \in dstMap'[s] <=> d \in dstMap[s])
        /\ \A s \in Sessions, d \in Channels : StopNotice(d, "src") \in out'[s] <=> StopNotice(d, "src") \in out[s]
        /\ \A s \in Sessions, d \in Channels :
            d # c => (StopNotice(d, "dst") \in out'[s] <=> StopNotice(d, "dst") \in out[s])
    <2>1. CASE dstMap' = [dstMap EXCEPT ![chDst[c]] = @ \ {c}] /\ Tell(chDst[c], "STOPPROXY", c, "dst")
      <3>1. \A s \in Sessions, d \in Channels, f \in Ends :
              StopNotice(d, f) \in out'[s] <=> (StopNotice(d, f) \in out[s] \/ (s = chDst[c] /\ d = c /\ f = "dst"))
        BY <1>2, <2>1, TellStop
      <3> QED BY <2>1, <3>1
    <2>2. CASE UNCHANGED <<dstMap, out>>
      BY <2>2
    <2> QED BY <2>1, <2>2 DEF CloseDst
  <1>4. started[chDst[c]] =>
          /\ StopNotice(c, "dst") \in out'[chDst[c]] <=> c \notin dstMap'[chDst[c]]
          /\ "quiet" \notin Faults => StopNotice(c, "dst") \in out'[chDst[c]]
    <2>1. CASE dstMap' = [dstMap EXCEPT ![chDst[c]] = @ \ {c}] /\ Tell(chDst[c], "STOPPROXY", c, "dst")
      <3>1. StopNotice(c, "dst") \in out'[chDst[c]]
        BY <1>2, <2>1, TellStop
      <3> QED BY <1>2, <2>1, <3>1
    <2>2. CASE Ownerless(c, "dst", chDst[c]) /\ UNCHANGED <<dstMap, out>>
      <3>1. started[chDst[c]] => c \in dstMap[chDst[c]] /\ StopNotice(c, "dst") \notin out[chDst[c]]
        BY <1>1, <1>2 DEF DstSide, Notified
      <3>2. "quiet" \notin Faults => ~started[chDst[c]]
        BY <1>1, <1>2, <2>2, StartedHeld DEF EndsStayOpen, Ownerless, StartedIsHeld
      <3> QED BY <2>2, <3>1, <3>2
    <2> QED BY <2>1, <2>2 DEF CloseDst
  <1>5. Known' /\ Built'
    BY <1>1, <1>3 DEF Known, Built, Building, ProxySteps
  <1>6. EndsStayOpen' /\ Notified'
    <2>1. \A s \in Sessions : pc[s] \in Building => cur[s] \in Channels /\ cur[s] # c
      BY <1>1 DEF Built, Building
    <2>2. EndsStayOpen'
      BY <1>1, <2>1 DEF EndsStayOpen, Building
    <2>3. Notified'
      BY <1>1, <1>3 DEF Notified, StopNotice
    <2> QED BY <2>2, <2>3
  <1>7. SrcSide' /\ DstSide'
    <2>1. \A d \in Channels : chSt[d] # "free" => chSrc[d] \in Sessions /\ chDst[d] \in Sessions
      BY DEF Known
    <2>2. SrcSide'
      <3> SUFFICES ASSUME NEW d \in Channels, started[chSrc[d]], chSt'[d] # "free"
                   PROVE  /\ chSt'[d] \in {"started", "cl_src"} => d \in srcMap'[chSrc[d]]
                          /\ chSt'[d] \in {"cl_dst", "closed"} =>
                              /\ StopNotice(d, "src") \in out'[chSrc[d]] <=> d \notin srcMap'[chSrc[d]]
                              /\ "quiet" \notin Faults => StopNotice(d, "src") \in out'[chSrc[d]]
        BY <1>1 DEF SrcSide, StopNotice
      <3> QED BY <1>1, <1>3, <2>1 DEF SrcSide
    <2>3. DstSide'
      <3> SUFFICES ASSUME NEW d \in Channels, started[chDst[d]], chSt'[d] # "free"
                   PROVE  /\ chSt'[d] \in {"started", "cl_src", "cl_dst"} => d \in dstMap'[chDst[d]]
                          /\ chSt'[d] = "closed" =>
                              /\ StopNotice(d, "dst") \in out'[chDst[d]] <=> d \notin dstMap'[chDst[d]]
                              /\ "quiet" \notin Faults => StopNotice(d, "dst") \in out'[chDst[d]]
        BY <1>1 DEF DstSide, StopNotice
      <3>1. CASE d = c
        BY <1>1, <1>4, <3>1
      <3>2. CASE d # c
        BY <1>1, <1>3, <2>1, <3>2 DEF DstSide
      <3> QED BY <3>1, <3>2
    <2> QED BY <2>2, <2>3
  <1>8. RunningIsStoppable'
    BY <1>1, <1>3 DEF RunningIsStoppable, BeforeStopSrc, Known
  <1> QED BY <1>5, <1>6, <1>7, <1>8

LEMMA LifeChannel == ASSUME Inv, NEW c \in Channels, Channel(c) PROVE LifeInv'
  BY LifePostedStop, LifeExpire, LifeRelayAbort, LifeCloseSrc, LifeCloseDst DEF Channel

(***************************************************************************)
(* The steps of a request.  The channel being built is the request's own:  *)
(* no other session is building it, and no running session is bound to it  *)
(* by more than an entry in its map.                                       *)
(***************************************************************************)

LEMMA OwnChannel ==
    ASSUME Inv, NEW s \in Sessions, pc[s] \in ProxySteps
    PROVE  /\ cur[s] \in Channels /\ chSt[cur[s]] # "free"
           /\ chSrc[cur[s]] = s /\ chDst[cur[s]] \in Sessions
           /\ \A t \in Sessions : t # s /\ pc[t] \in ProxySteps => cur[t] # cur[s]
  BY DEF Inv, TypeInv, CurOK, LifeInv, Built, Known

\* The map still leads to sessions that have been started.
LEMMA KnownStays ==
    ASSUME Inv, UNCHANGED <<ssMap, chSrc, chDst>>,
           \A t \in Sessions : pc[t] \notin Fresh => pc'[t] \notin Fresh,
           \A c \in Channels : chSt'[c] # "free" => chSt[c] # "free"
    PROVE  Known'
  BY DEF Inv, TypeInv, TypeOK, RegistryTypeOK, LifeInv, Known

LEMMA LifeProxyCreate ==
    ASSUME Inv, NEW s \in Sessions, NEW i \in Ids, NEW c \in Channels, ProxyCreate(s, i, c)
    PROVE  LifeInv'
  <1> USE DEF Inv, TypeInv, TypeOK, ChannelTypeOK, SessionTypeOK, RegistryTypeOK, CurOK, LifeInv
  <1>1. /\ UNCHANGED <<stopQ, endsOpen, srcMap, dstMap, out, started, ssMap>>
        /\ \A d \in Channels : d # c => chSt'[d] = chSt[d] /\ chSrc'[d] = chSrc[d] /\ chDst'[d] = chDst[d]
        /\ chSt[c] = "free" /\ chSt'[c] = "made" /\ chSrc'[c] = s /\ chDst'[c] = ssMap[i]
        /\ \A t \in Sessions : t # s => pc'[t] = pc[t] /\ cur'[t] = cur[t]
        /\ pc[s] = "idle" /\ pc'[s] = "px_init" /\ cur'[s] = c /\ ssMap[i] # NoSession
    BY DEF ProxyCreate, Request, Idle, Goto, sessVars, mgrVars
  <1>2. \A t \in Sessions : t # s /\ pc[t] \in ProxySteps => cur[t] \in Channels /\ cur[t] # c
    BY <1>1 DEF Built
  <1>3. Known'
    <2>1. ssMap[i] \in Sessions /\ pc[ssMap[i]] \notin Fresh
      BY <1>1 DEF Known
    <2>2. \A t \in Sessions : pc[t] \notin Fresh => pc'[t] \notin Fresh
      BY <1>1 DEF Fresh
    <2>3. s \in Sessions /\ pc'[s] \notin Fresh
      BY <1>1 DEF Fresh
    <2> QED BY <1>1, <2>1, <2>2, <2>3 DEF Known
  <1>4. Built'
    BY <1>1, <1>2 DEF Built, Building, ProxySteps
  <1>5. EndsStayOpen'
    BY <1>1, <1>2 DEF EndsStayOpen, Building
  <1>6. Notified'
    <2>1. out' = out
      BY <1>1
    <2> SUFFICES ASSUME NEW t \in Sessions, NEW d \in Channels
                 PROVE  /\ StopNotice(d, "src") \in out[t] => chSt'[d] \in {"cl_dst", "closed"}
                        /\ StopNotice(d, "dst") \in out[t] => chSt'[d] = "closed"
      BY <2>1 DEF Notified, StopNotice
    <2> QED BY <1>1 DEF Notified
  <1>7. SrcSide' /\ DstSide'
    BY <1>1, SMTT(30) DEF SrcSide, DstSide, StopNotice
  <1>8. RunningIsStoppable'
    BY <1>1 DEF RunningIsStoppable, BeforeStopSrc, Known
  <1> QED BY <1>3, <1>4, <1>5, <1>6, <1>7, <1>8

\* init() opens both ends of a channel that has not been started.
LEMMA LifeProxyInit == ASSUME Inv, NEW s \in Sessions, ProxyInit(s) PROVE LifeInv'
  <1> USE DEF Inv, TypeInv, TypeOK, ChannelTypeOK, SessionTypeOK, CurOK, LifeInv
  <1>1. /\ UNCHANGED <<chSt, chSrc, chDst, stopQ, srcMap, dstMap, out, started, cur, ssMap>>
        /\ \A t \in Sessions : t # s => pc'[t] = pc[t]
        /\ pc[s] = "px_init" /\ pc'[s] = "px_src"
        /\ \A d \in Channels : d # cur[s] => endsOpen'[d] = endsOpen[d]
        /\ cur[s] \in Channels /\ endsOpen'[cur[s]] = Ends
    BY OwnChannel DEF ProxyInit, Goto, sessVars, mgrVars, ProxySteps
  <1>2. Known'
    BY <1>1, KnownStays DEF Fresh
  <1>3. Built'
    BY <1>1 DEF Known, Built, Building, ProxySteps
  <1>4. EndsStayOpen'
    BY <1>1, OwnChannel DEF EndsStayOpen, Building, ProxySteps
  <1>5. Notified' /\ SrcSide' /\ DstSide'
    BY <1>1 DEF Notified, SrcSide, DstSide, StopNotice
  <1>6. RunningIsStoppable'
    BY <1>1 DEF RunningIsStoppable, BeforeStopSrc, Known
  <1> QED BY <1>2, <1>3, <1>4, <1>5, <1>6

\* A channel that is given up was never started.
LEMMA LifeProxyDrop ==
    ASSUME Inv, NEW s \in Sessions, ProxyInitFail(s) \/ ProxyAbandon(s)
    PROVE  LifeInv'
  <1> USE DEF Inv, TypeInv, TypeOK, ChannelTypeOK, SessionTypeOK, CurOK, LifeInv
  <1>1. /\ UNCHANGED <<chSrc, chDst, stopQ, endsOpen, srcMap, dstMap, out, started, ssMap>>
        /\ \A t \in Sessions : t # s => pc'[t] = pc[t] /\ cur'[t] = cur[t]
        /\ pc[s] \in {"px_init", "px_run"} /\ pc'[s] = "idle"
        /\ \A d \in Channels : d # cur[s] => chSt'[d] = chSt[d]
        /\ cur[s] \in Channels /\ chSt[cur[s]] = "made" /\ chSt'[cur[s]] = "dropped"
    BY OwnChannel, SMTT(30) DEF ProxyInitFail, ProxyAbandon, Done, Goto, sessVars, mgrVars, ProxySteps, Building, Built
  <1>2. Known'
    BY <1>1, KnownStays DEF Fresh
  <1>3. Built'
    BY <1>1, OwnChannel DEF Built, Building, ProxySteps
  <1>4. EndsStayOpen'
    BY <1>1, SMTT(30) DEF EndsStayOpen, Building, ProxySteps
  <1>5. Notified' /\ SrcSide' /\ DstSide'
    BY <1>1 DEF Notified, SrcSide, DstSide, StopNotice
  <1>6. RunningIsStoppable'
    BY <1>1 DEF RunningIsStoppable, BeforeStopSrc, Known
  <1> QED BY <1>2, <1>3, <1>4, <1>5, <1>6

LEMMA LifeProxyAddSrc == ASSUME Inv, NEW s \in Sessions, ProxyAddSrc(s) PROVE LifeInv'
  <1> USE DEF Inv, TypeInv, TypeOK, ChannelTypeOK, SessionTypeOK, CurOK, LifeInv
  <1>1. /\ UNCHANGED <<chSt, chSrc, chDst, stopQ, endsOpen, dstMap, out, started, cur, ssMap>>
        /\ \A t \in Sessions : t # s => pc'[t] = pc[t]
        /\ pc[s] = "px_src" /\ pc'[s] = "px_dst"
        /\ \A t \in Sessions, d \in Channels : d \in srcMap'[t] <=> d \in srcMap[t] \/ (t = s /\ d = cur[s])
        /\ cur[s] \in Channels /\ chSt[cur[s]] = "made"
    BY OwnChannel DEF ProxyAddSrc, Goto, sessVars, mgrVars, ProxySteps, Building, Built
  <1>2. Known'
    BY <1>1, KnownStays DEF Fresh
  <1>3. Built'
    BY <1>1 DEF Known, Built, Building, ProxySteps
  <1>4. EndsStayOpen'
    BY <1>1 DEF EndsStayOpen, Building, ProxySteps
  <1>5. Notified' /\ DstSide'
    BY <1>1 DEF Notified, DstSide, StopNotice
  <1>6. SrcSide'
    BY <1>1 DEF SrcSide, StopNotice, Known
  <1>7. RunningIsStoppable'
    BY <1>1 DEF RunningIsStoppable, BeforeStopSrc, Known
  <1> QED BY <1>2, <1>3, <1>4, <1>5, <1>6, <1>7

LEMMA LifeProxyAddDst == ASSUME Inv, NEW s \in Sessions, ProxyAddDst(s) PROVE LifeInv'
  <1> USE DEF Inv, TypeInv, TypeOK, ChannelTypeOK, SessionTypeOK, CurOK, LifeInv
  <1>1. /\ UNCHANGED <<chSt, chSrc, chDst, stopQ, endsOpen, srcMap, out, started, cur, ssMap>>
        /\ \A t \in Sessions : t # s => pc'[t] = pc[t]
        /\ pc[s] = "px_dst" /\ pc'[s] = "px_run"
        /\ \A t \in Sessions, d \in Channels :
            d \in dstMap'[t] <=> d \in dstMap[t] \/ (t = chDst[cur[s]] /\ d = cur[s])
        /\ cur[s] \in Channels /\ chSt[cur[s]] = "made" /\ chDst[cur[s]] \in Sessions
    BY OwnChannel DEF ProxyAddDst, Goto, sessVars, mgrVars, ProxySteps, Building, Built
  <1>2. Known'
    BY <1>1, KnownStays DEF Fresh
  <1>3. Built'
    BY <1>1 DEF Known, Built, Building, ProxySteps
  <1>4. EndsStayOpen'
    BY <1>1 DEF EndsStayOpen, Building, ProxySteps
  <1>5. Notified' /\ SrcSide'
    BY <1>1 DEF Notified, SrcSide, StopNotice
  <1>6. DstSide'
    BY <1>1 DEF DstSide, StopNotice, Known
  <1>7. RunningIsStoppable'
    BY <1>1 DEF RunningIsStoppable, BeforeStopSrc, Known
  <1> QED BY <1>2, <1>3, <1>4, <1>5, <1>6, <1>7

LEMMA LifeProxyRun == ASSUME Inv, NEW s \in Sessions, ProxyRun(s) PROVE LifeInv'
  <1> USE DEF Inv, TypeInv, TypeOK, ChannelTypeOK, SessionTypeOK, CurOK, LifeInv
  <1>1. /\ UNCHANGED <<chSt, chSrc, chDst, stopQ, endsOpen, srcMap, dstMap, out, started, cur, ssMap>>
        /\ \A t \in Sessions : t # s => pc'[t] = pc[t]
        /\ pc[s] = "px_run" /\ pc'[s] = "px_start"
    BY DEF ProxyRun, Goto, sessVars, mgrVars, chVars
  <1>2. Known'
    BY <1>1, KnownStays DEF Fresh
  <1>3. Built'
    BY <1>1 DEF Known, Built, Building, ProxySteps
  <1>4. EndsStayOpen'
    BY <1>1 DEF EndsStayOpen, Building, ProxySteps
  <1>5. Notified' /\ SrcSide' /\ DstSide'
    BY <1>1 DEF Notified, SrcSide, DstSide, StopNotice
  <1>6. RunningIsStoppable'
    BY <1>1 DEF RunningIsStoppable, BeforeStopSrc, Known
  <1> QED BY <1>2, <1>3, <1>4, <1>5, <1>6

\* start(): the requester runs and lists the channel, and so does the target
\* unless it has stopped meanwhile.
LEMMA LifeProxyStart == ASSUME Inv, NEW s \in Sessions, ProxyStart(s) PROVE LifeInv'
  <1> USE DEF Inv, TypeInv, TypeOK, ChannelTypeOK, SessionTypeOK, CurOK, LifeInv
  <1>1. /\ UNCHANGED <<chSrc, chDst, stopQ, endsOpen, srcMap, dstMap, out, started, cur, ssMap>>
        /\ \A t \in Sessions : t # s => pc'[t] = pc[t]
        /\ pc[s] = "px_start" /\ pc'[s] = "px_access"
        /\ \A d \in Channels : d # cur[s] => chSt'[d] = chSt[d]
        /\ cur[s] \in Channels /\ chSt[cur[s]] = "made" /\ chSt'[cur[s]] = "started"
        /\ chSrc[cur[s]] = s /\ chDst[cur[s]] \in Sessions
    BY OwnChannel DEF ProxyStart, Goto, sessVars, mgrVars, ProxySteps, Building, Built
  <1>2. cur[s] \in srcMap[s] /\ started[s] /\ (started[chDst[cur[s]]] => cur[s] \in dstMap[chDst[cur[s]]])
    BY <1>1 DEF Built, OwnInv, PastSocket, ProxySteps
  <1>3. Known'
    BY <1>1, KnownStays DEF Fresh
  <1>4. Built'
    BY <1>1, OwnChannel DEF Built, Building, ProxySteps
  <1>5. EndsStayOpen'
    BY <1>1 DEF EndsStayOpen, Building, ProxySteps
  <1>6. Notified'
    <2> SUFFICES ASSUME NEW t \in Sessions, NEW d \in Channels
                 PROVE  /\ StopNotice(d, "src") \in out[t] => chSt'[d] \in {"cl_dst", "closed"}
                        /\ StopNotice(d, "dst") \in out[t] => chSt'[d] = "closed"
      BY <1>1 DEF Notified, StopNotice
    <2> QED BY <1>1 DEF Notified
  <1>7. SrcSide' /\ DstSide'
    BY <1>1, <1>2 DEF SrcSide, DstSide, StopNotice
  <1>8. RunningIsStoppable'
    BY <1>1, <1>2 DEF RunningIsStoppable, BeforeStopSrc, Known
  <1> QED BY <1>3, <1>4, <1>5, <1>6, <1>7, <1>8

\* The answers of a request, to either side.
LEMMA LifeProxyTell ==
    ASSUME Inv, NEW s \in Sessions, ProxyAccess(s) \/ ProxyOk(s)
    PROVE  LifeInv'
  <1> USE DEF Inv, TypeInv, TypeOK, ChannelTypeOK, SessionTypeOK, CurOK, LifeInv
  <1>1. /\ UNCHANGED <<chSt, chSrc, chDst, stopQ, endsOpen, srcMap, dstMap, started, ssMap>>
        /\ \A t \in Sessions : t # s => pc'[t] = pc[t] /\ cur'[t] = cur[t]
        /\ pc[s] \in {"px_access", "px_ok"}
        /\ (pc'[s] = "px_ok" /\ cur'[s] = cur[s]) \/ pc'[s] = "idle"
    BY DEF ProxyAccess, ProxyOk, Done, Goto, sessVars, mgrVars
  <1>2. \A t \in Sessions, d \in Channels, f \in Ends : StopNotice(d, f) \in out'[t] <=> StopNotice(d, f) \in out[t]
    BY <1>1, OwnChannel, TellOther DEF ProxyAccess, ProxyOk, ProxySteps, Ends
  <1>3. Known'
    BY <1>1, KnownStays DEF Fresh
  <1>4. Built'
    <2> SUFFICES ASSUME NEW t \in Sessions
                 PROVE  /\ pc'[t] \in ProxySteps => chSrc[cur'[t]] = t /\ chSt[cur'[t]] # "free"
                        /\ pc'[t] \in Building => chSt[cur'[t]] = "made"
                        /\ pc'[t] \in {"px_dst", "px_run", "px_start"} => cur'[t] \in srcMap[t]
                        /\ pc'[t] \in {"px_run", "px_start"} /\ started[chDst[cur'[t]]] =>
                              cur'[t] \in dstMap[chDst[cur'[t]]]
      BY <1>1 DEF Built
    <2>1. CASE t # s
      BY <1>1, <2>1 DEF Built
    <2>2. CASE t = s
      BY <1>1, <2>2 DEF Built, Building, ProxySteps
    <2> QED BY <2>1, <2>2
  <1>5. EndsStayOpen'
    BY <1>1 DEF EndsStayOpen, Building, ProxySteps
  <1>6. Notified'
    BY <1>1, <1>2 DEF Notified, StopNotice, Ends
  <1>7. SrcSide' /\ DstSide'
    BY <1>1, <1>2 DEF SrcSide, DstSide, Known, Ends
  <1>8. RunningIsStoppable'
    BY <1>1 DEF RunningIsStoppable, BeforeStopSrc, Known
  <1> QED BY <1>3, <1>4, <1>5, <1>6, <1>7, <1>8

(***************************************************************************)
(* stopAll of the two maps of a session that stops.                        *)
(***************************************************************************)

\* Every running channel of the map gets a stop handler before its entry goes.
LEMMA LifeStopSrc == ASSUME Inv, NEW s \in Sessions, StopSrc(s) PROVE LifeInv'
  <1> USE DEF Inv, TypeInv, TypeOK, ChannelTypeOK, SessionTypeOK, CurOK, LifeInv
  <1>1. /\ UNCHANGED <<chSt, chSrc, chDst, endsOpen, dstMap, out, started, cur, ssMap>>
        /\ \A t \in Sessions : t # s => pc'[t] = pc[t] /\ srcMap'[t] = srcMap[t]
        /\ pc[s] = "st_src" /\ pc'[s] = "st_dst"
        /\ \A d \in Channels : stopQ[d] \subseteq stopQ'[d]
        /\ \A d \in srcMap[s] : chSt[d] = "started" => stopQ'[d] # {}
    BY DEF StopSrc, Posted, Alive, Goto, sessVars, mgrVars
  <1>2. ~started[s]
    BY <1>1 DEF GuidInv, PhaseOK, StopSteps
  <1>3. Known'
    BY <1>1, KnownStays DEF Fresh
  <1>4. Built' /\ EndsStayOpen'
    BY <1>1 DEF Built, EndsStayOpen, Building, ProxySteps
  <1>5. Notified' /\ DstSide'
    BY <1>1 DEF Notified, DstSide, StopNotice
  <1>6. SrcSide'
    BY <1>1, <1>2 DEF SrcSide, StopNotice, Known
  <1>7. RunningIsStoppable'
    BY <1>1, <1>2 DEF RunningIsStoppable, BeforeStopSrc, Known
  <1> QED BY <1>3, <1>4, <1>5, <1>6, <1>7

LEMMA LifeStopDst == ASSUME Inv, NEW s \in Sessions, StopDst(s) PROVE LifeInv'
  <1> USE DEF Inv, TypeInv, TypeOK, ChannelTypeOK, SessionTypeOK, CurOK, LifeInv
  <1>1. /\ UNCHANGED <<chSt, chSrc, chDst, endsOpen, srcMap, out, started, cur, ssMap>>
        /\ \A t \in Sessions : t # s => pc'[t] = pc[t] /\ dstMap'[t] = dstMap[t]
        /\ pc[s] = "st_dst" /\ pc'[s] \in {"st_guid", "st_conn"}
        /\ \A d \in Channels : stopQ[d] \subseteq stopQ'[d]
    BY DEF StopDst, WasLogined, Posted, Alive, Goto, sessVars, mgrVars
  <1>2. ~started[s]
    BY <1>1 DEF GuidInv, PhaseOK, StopSteps
  <1>3. Known'
    BY <1>1, KnownStays DEF Fresh
  <1>4. Built' /\ EndsStayOpen'
    BY <1>1, <1>2 DEF Known, Built, EndsStayOpen, Building, ProxySteps
  <1>5. Notified' /\ SrcSide'
    BY <1>1 DEF Notified, SrcSide, StopNotice
  <1>6. DstSide'
    BY <1>1, <1>2 DEF DstSide, StopNotice, Known
  <1>7. RunningIsStoppable'
    BY <1>1, <1>2 DEF RunningIsStoppable, BeforeStopSrc, Known
  <1> QED BY <1>3, <1>4, <1>5, <1>6, <1>7

LEMMA LifeNext == TypeInv /\ GuidInv /\ OwnInv /\ LifeInv /\ [Next]_vars => LifeInv'
  <1> SUFFICES ASSUME Inv, [Next]_vars PROVE LifeInv'
    BY DEF Inv
  <1>1. ASSUME NEW s \in Sessions, ChannelStep(s) PROVE LifeInv'
    BY <1>1, LifeProxyCreate, LifeProxyInit, LifeProxyDrop, LifeProxyAddSrc, LifeProxyAddDst, LifeProxyRun,
       LifeProxyStart, LifeProxyTell, LifeStopSrc, LifeStopDst DEF ChannelStep, ProxyStep
  <1> QED BY <1>1, QuietNext, QuietLife, LifeChannel
-----------------------------------------------------------------------------
LEMMA LifeAlways == Spec => []LifeInv
  BY TypeInit, TypeNext, GuidInit, GuidNext, OwnInit, OwnNext, LifeInit, LifeNext, PTL DEF Spec

\* A running channel is listed by a requester that has yet to walk its map, or
\* has a stop handler posted: stopping the requester stops the channel.
THEOREM RunningStaysStoppable == Spec => []RunningIsStoppable
  <1>1. LifeInv => RunningIsStoppable
    BY DEF LifeInv
  <1> QED BY <1>1, LifeAlways, PTL

\* Nobody is told STOPPROXY of a channel that is not being closed.
THEOREM ToldIsTrue == Spec => []ToldStopIsStopped
  <1>1. TypeInv /\ LifeInv => ToldStopIsStopped
    <2> SUFFICES ASSUME TypeInv, LifeInv, NEW s \in Sessions, NEW n \in out[s], n.func = "STOPPROXY"
                 PROVE  chSt[n.ch] \in {"cl_dst", "closed"}
      BY DEF ToldStopIsStopped
    <2>1. n.ch \in Channels /\ n.end \in Ends /\ n = StopNotice(n.ch, n.end)
      BY DEF TypeInv, TypeOK, ChannelTypeOK, Notices, StopNotice
    <2> QED BY <2>1 DEF LifeInv, Notified, Ends
  <1> QED BY <1>1, TypeInit, TypeNext, LifeAlways, PTL DEF Spec

\* Whatever expires: a running session that a closed channel had lists the
\* channel exactly as long as it was not told of its end.
THEOREM ListedTillTold == Spec => []ListedUntilTold
  <1>1. LifeInv => ListedUntilTold
    BY DEF LifeInv, SrcSide, DstSide, StopNotice, ListedUntilTold, Ends, Owner, Listed, Told
  <1> QED BY <1>1, LifeAlways, PTL

\* Where ports do not expire, the sessions of a closed channel that still run
\* were told so and list it no more.
THEOREM ClosedAndTold == Spec => []ClosedIsTold
  <1>1. LifeInv => ClosedIsTold
    BY DEF LifeInv, SrcSide, DstSide, StopNotice, ClosedIsTold, Ends, Owner, Listed, Told
  <1> QED BY <1>1, LifeAlways, PTL

(***************************************************************************)
(* Refinement: every channel of the control plane keeps to ChannelLife.    *)
(***************************************************************************)

Step(c) == L(c)!Next \/ UNCHANGED <<Life(c), stopQ[c], Lost(c)>>

\* A step that touches neither the state, the ends and the posted stops of
\* channel c, nor who is in its init().
LEMMA Aside ==
    ASSUME NEW c \in Channels, chSt'[c] = chSt[c], stopQ'[c] = stopQ[c], endsOpen'[c] = endsOpen[c],
           \A t \in Sessions :
              pc[t] = "px_init" /\ cur[t] = c <=> pc'[t] = "px_init" /\ cur'[t] = c
    PROVE  Step(c)
  <1>1. Unbound(c)' <=> Unbound(c)
    BY DEF Unbound
  <1> QED BY <1>1 DEF Step, Life, Lost

\* Who binds the ends of a channel is its requester, before start().
LEMMA Binds ==
    ASSUME Inv, NEW c \in Channels
    PROVE  /\ \A s \in Sessions : pc[s] = "px_init" /\ cur[s] = c => s = chSrc[c] /\ chSt[c] = "made"
           /\ chSt[c] \notin {"free", "made"} => ~Unbound(c)
  BY DEF Inv, LifeInv, Built, Building, ProxySteps, Unbound

LEMMA StepProxy ==
    ASSUME Inv, NEW s \in Sessions, NEW d \in Channels, ProxyStep(s)
    PROVE  Step(d)
  <1> USE DEF Inv, TypeInv, TypeOK, ChannelTypeOK, SessionTypeOK, Goto, Done
  <1>c. cur[s] \in Channels /\ chSrc[cur[s]] = s
    BY DEF ProxyStep, ProxyInit, ProxyInitFail, ProxyAddSrc, ProxyAddDst, ProxyRun, ProxyAbandon, ProxyStart,
           ProxyAccess, ProxyOk, CurOK, LifeInv, Built, ProxySteps
  <1>p. \A t \in Sessions \ {s} : pc'[t] = pc[t] /\ cur'[t] = cur[t]
    BY DEF ProxyStep, ProxyInit, ProxyInitFail, ProxyAddSrc, ProxyAddDst, ProxyRun, ProxyAbandon, ProxyStart,
           ProxyAccess, ProxyOk
  <1>s. pc'[s] # "px_init"
    BY DEF ProxyStep, ProxyInit, ProxyInitFail, ProxyAddSrc, ProxyAddDst, ProxyRun, ProxyAbandon, ProxyStart,
           ProxyAccess, ProxyOk
  <1>1. CASE d # cur[s]
    <2>1. chSt'[d] = chSt[d] /\ stopQ'[d] = stopQ[d] /\ endsOpen'[d] = endsOpen[d]
      BY <1>1, <1>c DEF ProxyStep, ProxyInit, ProxyInitFail, ProxyAddSrc, ProxyAddDst, ProxyRun, ProxyAbandon,
         ProxyStart, ProxyAccess, ProxyOk, chVars
    <2> QED BY <1>1, <1>p, <1>s, <2>1, Aside
  <1>2. CASE ProxyAddSrc(s) \/ ProxyAddDst(s) \/ ProxyRun(s) \/ ProxyAccess(s) \/ ProxyOk(s)
    <2>1. pc[s] # "px_init" /\ UNCHANGED <<chSt, stopQ, endsOpen>>
      BY <1>2 DEF ProxyAddSrc, ProxyAddDst, ProxyRun, ProxyAccess, ProxyOk, chVars
    <2> QED BY <1>p, <1>s, <2>1, Aside
  <1>3. CASE d = cur[s] /\ ProxyInit(s)
    <2>1. chSt[d] = "made" /\ chSt'[d] = "made" /\ stopQ'[d] = stopQ[d] /\ endsOpen'[d] = Ends
      BY <1>3, <1>c, Binds DEF ProxyInit
    <2>2. Unbound(d) /\ ~Unbound(d)'
      BY <1>3, <1>c, <1>p, <1>s, <2>1, Binds DEF ProxyInit, Unbound
    <2> QED BY <2>1, <2>2 DEF Step, Life, Lost
  <1>4. CASE d = cur[s] /\ (ProxyInitFail(s) \/ ProxyAbandon(s))
    <2>1. chSt[d] = "made"
      BY <1>4 DEF ProxyInitFail, ProxyAbandon, LifeInv, Built, Building, ProxySteps
    <2>2. chSt'[d] = "dropped" /\ stopQ'[d] = stopQ[d]
      BY <1>4, <1>c DEF ProxyInitFail, ProxyAbandon
    <2>3. Life(d) = "made" /\ Life(d)' = "given_up"
      BY <2>1, <2>2 DEF Life
    <2>4. Lost(d)' = Ends
      BY <2>3 DEF Lost
    <2> QED BY <2>2, <2>3, <2>4 DEF Step, L!Next, L!GiveUp
  <1>5. CASE d = cur[s] /\ ProxyStart(s)
    <2>1. chSt[d] = "made" /\ pc[s] = "px_start"
      BY <1>5 DEF ProxyStart, LifeInv, Built, Building, ProxySteps
    <2>2. chSt'[d] = "started" /\ stopQ'[d] = stopQ[d] /\ endsOpen'[d] = endsOpen[d]
      BY <1>5, <1>c DEF ProxyStart
    <2>3. ~Unbound(d) /\ ~Unbound(d)'
      BY <1>5, <1>c, <1>p, <1>s, <2>1, <2>2, Binds DEF Unbound
    <2>4. Life(d) = "made" /\ Life(d)' = "running"
      BY <2>1, <2>2 DEF Life
    <2>5. Lost(d)' = Lost(d)
      BY <2>2, <2>3, <2>4 DEF Lost
    <2> QED BY <2>2, <2>4, <2>5 DEF Step, L!Next, L!Start
  <1> QED BY <1>1, <1>2, <1>3, <1>4, <1>5 DEF ProxyStep

LEMMA StepSession ==
    ASSUME Inv, NEW s \in Sessions, NEW d \in Channels, ChannelStep(s)
    PROVE  Step(d)
  <1> USE DEF Inv, TypeInv, TypeOK, ChannelTypeOK, SessionTypeOK, Goto
  <1>1. ASSUME NEW i \in Ids, NEW c \in Channels, ProxyCreate(s, i, c) PROVE Step(d)
    <2>1. /\ pc[s] # "px_init" /\ pc'[s] = "px_init" /\ cur'[s] = c
          /\ \A t \in Sessions \ {s} : pc'[t] = pc[t] /\ cur'[t] = cur[t]
          /\ stopQ'[d] = stopQ[d] /\ endsOpen'[d] = endsOpen[d]
      BY <1>1 DEF ProxyCreate, Request, Idle
    <2>2. CASE d # c
      <3>1. chSt'[d] = chSt[d]
        BY <1>1, <2>2 DEF ProxyCreate
      <3> QED BY <2>1, <2>2, <3>1, Aside
    <2>3. CASE d = c
      <3>1. chSt[d] = "free" /\ chSt'[d] = "made"
        BY <1>1, <2>3 DEF ProxyCreate
      <3>2. Unbound(d) /\ Unbound(d)'
        BY <2>1, <2>3, <3>1 DEF Unbound
      <3> QED BY <2>1, <3>1, <3>2 DEF Step, Life, Lost
    <2> QED BY <2>2, <2>3
  <1>2. ASSUME NEW m \in SUBSET Channels, NEW e \in Ends, stopQ' = Posted(m, e),
               UNCHANGED <<chSt, endsOpen, cur>>,
               \A t \in Sessions : pc[t] = "px_init" <=> pc'[t] = "px_init"
        PROVE  Step(d)
    <2>1. CASE stopQ'[d] = stopQ[d]
      BY <1>2, <2>1, Aside
    <2>2. CASE stopQ'[d] = stopQ[d] \cup {e}
      <3>1. Unbound(d)' <=> Unbound(d)
        BY <1>2 DEF Unbound
      <3>2. Life(d)' = Life(d) /\ Lost(d)' = Lost(d)
        BY <1>2, <3>1 DEF Life, Lost
      <3> QED BY <2>2, <3>2 DEF Step, L!Next, L!Ask
    <2> QED BY <1>2, <2>1, <2>2 DEF Posted
  <1>e. "src" \in Ends /\ "dst" \in Ends
    BY DEF Ends
  <1>3. CASE StopSrc(s)
    <2>1. \A t \in Sessions : pc[t] = "px_init" <=> pc'[t] = "px_init"
      BY <1>3 DEF StopSrc
    <2> QED BY <1>2, <1>3, <1>e, <2>1 DEF StopSrc
  <1>4. CASE StopDst(s)
    <2>1. \A t \in Sessions : pc[t] = "px_init" <=> pc'[t] = "px_init"
      BY <1>4 DEF StopDst
    <2> QED BY <1>2, <1>4, <1>e, <2>1 DEF StopDst
  <1> QED BY <1>1, <1>3, <1>4, StepProxy DEF ChannelStep

LEMMA StepChannel ==
    ASSUME Inv, NEW c \in Channels, NEW d \in Channels, Channel(c)
    PROVE  Step(d)
  <1> USE DEF Inv, TypeInv, TypeOK, ChannelTypeOK
  <1>p. UNCHANGED <<pc, cur>>
    BY DEF Channel, PostedStop, Expire, RelayAbort, CloseSrc, CloseDst, ssVars, sessVars
  <1>1. CASE d # c
    <2>1. chSt'[d] = chSt[d] /\ stopQ'[d] = stopQ[d] /\ endsOpen'[d] = endsOpen[d]
      BY <1>1 DEF Channel, PostedStop, Expire, RelayAbort, CloseSrc, CloseDst
    <2> QED BY <1>p, <2>1, Aside
  <1>2. ASSUME d = c, NEW e \in Ends, PostedStop(d, e) PROVE Step(d)
    <2>1. e \in stopQ[d] /\ stopQ'[d] = stopQ[d] \ {e} /\ endsOpen'[d] = endsOpen[d]
      BY <1>2 DEF PostedStop
    <2>2. CASE chSt[d] = "started"
      <3>1. Life(d) = "running" /\ Life(d)' = "stopped"
        BY <1>2, <2>2 DEF PostedStop, Stoppable, Life
      <3>2. Lost(d)' = Ends
        BY <3>1 DEF Lost
      <3> QED BY <2>1, <3>1, <3>2 DEF Step, L!Next, L!Grant
    <2>3. CASE chSt[d] # "started"
      <3>1. chSt'[d] = chSt[d]
        BY <1>2, <2>3 DEF PostedStop, Stoppable
      <3>2. Unbound(d)' <=> Unbound(d)
        BY <1>p, <3>1 DEF Unbound
      <3>3. Life(d) # "running" /\ Life(d)' = Life(d) /\ Lost(d)' = Lost(d)
        BY <2>1, <2>3, <3>1, <3>2 DEF Life, Lost
      <3> QED BY <2>1, <3>3 DEF Step, L!Next, L!Grant
    <2> QED BY <2>2, <2>3
  <1>3. ASSUME d = c, NEW e \in Ends, Expire(d, e) PROVE Step(d)
    <2>1. chSt'[d] = chSt[d] /\ stopQ'[d] = stopQ[d] /\ endsOpen'[d] = endsOpen[d] \ {e}
      BY <1>3 DEF Expire
    <2>2. Life(d) \in {"made", "running"} /\ Life(d)' = Life(d)
      BY <1>3, <2>1 DEF Expire, Life
    <2>3. Unbound(d)' <=> Unbound(d)
      BY <1>p, <2>1 DEF Unbound
    <2>4. Lost(d)' = Lost(d) \/ Lost(d)' = Lost(d) \cup {e}
      BY <2>1, <2>2, <2>3 DEF Lost
    <2> QED BY <2>1, <2>2, <2>4 DEF Step, L!Next, L!Lose
  <1>4. CASE d = c /\ RelayAbort(d)
    <2>1. chSt[d] = "started" /\ endsOpen[d] # Ends /\ chSt'[d] = "cl_src" /\ stopQ'[d] = stopQ[d]
      BY <1>4 DEF RelayAbort, Stoppable
    <2>2. Life(d) = "running" /\ Life(d)' = "stopped"
      BY <2>1 DEF Life
    <2>3. Lost(d) # {}
      BY <2>1, <2>2, Binds DEF Lost
    <2>4. Lost(d)' = Ends
      BY <2>2 DEF Lost
    <2> QED BY <2>1, <2>2, <2>3, <2>4 DEF Step, L!Next, L!Abort
  <1>5. CASE d = c /\ (CloseSrc(d) \/ CloseDst(d))
    <2>1. chSt[d] \in {"cl_src", "cl_dst"} /\ chSt'[d] \in {"cl_dst", "closed"} /\ stopQ'[d] = stopQ[d]
      BY <1>5 DEF CloseSrc, CloseDst
    <2>2. Life(d) = "stopped" /\ Life(d)' = "stopped"
      BY <2>1 DEF Life
    <2> QED BY <2>1, <2>2 DEF Step, Lost
  <1> QED BY <1>1, <1>2, <1>3, <1>4, <1>5 DEF Channel

LEMMA StepNext == Inv /\ [Next]_vars => \A c \in Channels : Step(c)
  <1> SUFFICES ASSUME Inv, [Next]_vars, NEW d \in Channels PROVE Step(d)
    OBVIOUS
  <1>1. CASE Quiet
    <2>1. UNCHANGED <<chSt, stopQ, endsOpen, cur>>
      BY <1>1 DEF Quiet, chVars
    <2>2. \A t \in Sessions : pc[t] = "px_init" <=> pc'[t] = "px_init"
      BY <1>1 DEF Quiet, ProxySteps
    <2> QED BY <2>1, <2>2, Aside
  <1> QED BY <1>1, QuietNext, StepSession, StepChannel

\* Every channel keeps to ChannelLife, as the relay does: whenever the stops of
\* its two sessions are posted, it is started at most once, stopped at most once
\* and only for a reason, and given up only before it ran.
THEOREM ChannelsLive == Spec => IsChannelLife
  <1>1. Init => \A c \in Channels : L(c)!Init
    BY DEF Init, L!Init, Life, Lost, Unbound
  <1>2. Inv /\ [Next]_vars => [\A c \in Channels : [L(c)!Next]_(L(c)!vars)]_vars
    BY StepNext DEF Step, L!vars
  <1>3. TypeInv /\ GuidInv /\ OwnInv /\ LifeInv => Inv
    BY DEF Inv
  <1> QED BY <1>1, <1>2, <1>3, TypeInit, TypeNext, GuidInit, GuidNext, OwnInit, OwnNext, LifeAlways, PTL
          DEF Spec, IsChannelLife
=============================================================================
