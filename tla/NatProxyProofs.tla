--------------------------- MODULE NatProxyProofs ---------------------------
(***************************************************************************)
(* Proofs about NatProxy, for any sets of sessions, acceptors, guids and   *)
(* channels and any configuration.                                         *)
(***************************************************************************)
EXTENDS NatProxy, FiniteSetTheorems, TLAPS

\* A session that is building a channel has one.
CurOK == \A s \in Sessions : pc[s] \in ProxySteps => cur[s] \in Channels

TypeInv == TypeOK /\ CurOK

USE TypesAssumption, LimitAssumption, IdAssumption, FaultsAssumption, NoneAssumption

LEMMA IdsMod == \A n \in Ids : (n + 1) % IdSpace \in Ids
  BY DEF Ids

LEMMA NoticeType ==
    \A f \in {"PROXY", "ACCESS", "STOPPROXY"}, c \in Channels, e \in Ends :
        [func |-> f, ch |-> c, end |-> e] \in Notices
  BY DEF Notices

\* Handing a notice to a session keeps the type of out.
LEMMA TellType ==
    ASSUME NEW s, NEW f \in {"PROXY", "ACCESS", "STOPPROXY"}, NEW c \in Channels, NEW e \in Ends,
           out \in [Sessions -> SUBSET Notices], Tell(s, f, c, e)
    PROVE  out' \in [Sessions -> SUBSET Notices]
  <1>1. [func |-> f, ch |-> c, end |-> e] \in Notices
    BY NoticeType
  <1> QED BY <1>1 DEF Tell

LEMMA TypeInit == Init => TypeInv
  BY DEF Init, TypeInv, TypeOK, CurOK, ServerTypeOK, SessionTypeOK, RegistryTypeOK, ChannelTypeOK,
         Points, ProxySteps, Ids, AllTypes

\* The acceptors.
LEMMA TypeAccept == TypeInv /\ Accept => TypeInv'
  <1> SUFFICES ASSUME TypeInv, NEW a \in Acceptors,
                      AcceptStart(a) \/ \E s \in Sessions : AcceptDrop(a, s) \/ AcceptCheck(a, s)
               PROVE  TypeInv'
    BY DEF Accept
  <1> USE DEF TypeInv, TypeOK, CurOK, ServerTypeOK, SessionTypeOK, RegistryTypeOK, ChannelTypeOK,
              Points, ProxySteps, srvVars, mgrVars, chVars, sessVars
  <1>1. CASE AcceptStart(a)
    BY <1>1 DEF AcceptStart
  <1>2. ASSUME NEW s \in Sessions, AcceptDrop(a, s) PROVE TypeInv'
    BY <1>2 DEF AcceptDrop
  <1>3. ASSUME NEW s \in Sessions, AcceptCheck(a, s) PROVE TypeInv'
    BY <1>3 DEF AcceptCheck
  <1> QED BY <1>1, <1>2, <1>3
\* The steps of a login.
LEMMA TypeLogin == ASSUME TypeInv, NEW s \in Sessions, LoginStep(s) PROVE TypeInv'
  <1> USE DEF TypeInv, TypeOK, CurOK, ServerTypeOK, SessionTypeOK, RegistryTypeOK, ChannelTypeOK,
              Points, LoginSteps, ProxySteps, StopSteps, srvVars, mgrVars, chVars, ssVars, sessVars
  <1>1. CASE LoginId(s)
    <2>1. nextId' \in Ids
      BY <1>1, IdsMod DEF LoginId, AllocSessionId
    <2> QED BY <1>1, <2>1 DEF LoginId, Goto, Registers
  <1>2. CASE LoginMap(s)
    <2>1. ssMap' \in [Ids -> Sessions \cup {NoSession}]
      BY <1>2 DEF LoginMap, IdFree
    <2>2. \E l \in {"login_db", "login_undo"} : pc' = [pc EXCEPT ![s] = l]
      BY <1>2 DEF LoginMap, IdFree, Goto
    <2>3. UNCHANGED <<sessVars, rd, cur, guidSet, nextId, dir, srvVars, chVars>>
      BY <1>2 DEF LoginMap
    <2> QED BY <2>1, <2>2, <2>3
  <1>3. CASE LoginUndo(s)
    BY <1>3 DEF LoginUndo, Done, Goto, DoRead
  <1>4. CASE LoginDb(s)
    BY <1>4 DEF LoginDb, Goto
  <1>5. CASE LoginNoPeer(s)
    BY <1>5 DEF LoginNoPeer, Done, Goto, DoRead
  <1>6. CASE LoginOk(s)
    BY <1>6 DEF LoginOk, Done, Goto, DoRead, Cancelled
  <1> QED BY <1>1, <1>2, <1>3, <1>4, <1>5, <1>6 DEF LoginStep

\* The steps of a proxy request.
LEMMA TypeProxy == ASSUME TypeInv, NEW s \in Sessions, ProxyStep(s) PROVE TypeInv'
  <1> USE DEF TypeInv, TypeOK, CurOK, ServerTypeOK, SessionTypeOK, RegistryTypeOK, ChannelTypeOK,
              Points, LoginSteps, ProxySteps, StopSteps, srvVars, mgrVars, chVars, ssVars, sessVars
  <1>1. CASE ProxyInit(s)
    BY <1>1 DEF ProxyInit, Goto, Ends
  <1>2. CASE ProxyInitFail(s)
    BY <1>2 DEF ProxyInitFail, Done, Goto, DoRead
  <1>3. CASE ProxyAddSrc(s)
    BY <1>3 DEF ProxyAddSrc, Goto
  <1>4. CASE ProxyAddDst(s)
    BY <1>4 DEF ProxyAddDst, Goto
  <1>5. CASE ProxyRun(s)
    BY <1>5 DEF ProxyRun, Goto
  <1>6. CASE ProxyAbandon(s)
    BY <1>6 DEF ProxyAbandon, Done, Goto, DoRead
  <1>7. CASE ProxyStart(s)
    BY <1>7 DEF ProxyStart, Goto
  <1>8. CASE ProxyAccess(s)
    <2>1. out' \in [Sessions -> SUBSET Notices]
      BY <1>8, TellType DEF ProxyAccess, Ends
    <2> QED BY <1>8, <2>1 DEF ProxyAccess, Goto
  <1>9. CASE ProxyOk(s)
    <2>1. out' \in [Sessions -> SUBSET Notices]
      BY <1>9, TellType DEF ProxyOk, Ends
    <2> QED BY <1>9, <2>1 DEF ProxyOk, Done, Goto, DoRead
  <1> QED BY <1>1, <1>2, <1>3, <1>4, <1>5, <1>6, <1>7, <1>8, <1>9 DEF ProxyStep

\* The steps of stop().
LEMMA TypeStop == ASSUME TypeInv, NEW s \in Sessions, StopStep(s) PROVE TypeInv'
  <1> USE DEF TypeInv, TypeOK, CurOK, ServerTypeOK, SessionTypeOK, RegistryTypeOK, ChannelTypeOK,
              Points, LoginSteps, ProxySteps, StopSteps, srvVars, mgrVars, chVars, ssVars, sessVars
  <1>1. CASE StopSrc(s)
    BY <1>1 DEF StopSrc, Goto, Posted, Ends
  <1>2. CASE StopDst(s)
    BY <1>2 DEF StopDst, Goto, Posted, Ends
  <1>3. CASE CloseGuid(s)
    BY <1>3 DEF CloseGuid, Goto
  <1>4. CASE CloseDb(s)
    BY <1>4 DEF CloseDb, Goto
  <1>5. CASE CloseMap(s)
    BY <1>5 DEF CloseMap, Goto
  <1>6. CASE SessionClosed(s)
    BY <1>6 DEF SessionClosed, Goto
  <1> QED BY <1>1, <1>2, <1>3, <1>4, <1>5, <1>6 DEF StopStep

\* The requests of onReadBody.
LEMMA TypeRead == ASSUME TypeInv, NEW s \in Sessions, OnReadBody(s) PROVE TypeInv'
  <1> USE DEF TypeInv, TypeOK, CurOK, ServerTypeOK, SessionTypeOK, RegistryTypeOK, ChannelTypeOK,
              Points, LoginSteps, ProxySteps, StopSteps, srvVars, mgrVars, chVars, ssVars, sessVars
  <1>1. CASE OnReqOther(s)
    BY <1>1 DEF OnReqOther, Done, Goto, DoRead
  <1>2. ASSUME NEW g \in Guids, NEW t \in Types, LoginRejected(s, g, t) PROVE TypeInv'
    BY <1>2 DEF LoginRejected, Done, Goto, DoRead
  <1>3. ASSUME NEW g \in Guids, NEW t \in Types, LoginReserve(s, g, t) PROVE TypeInv'
    BY <1>3 DEF LoginReserve, Goto
  <1>4. ASSUME NEW i \in Ids, ProxyNotFound(s, i) PROVE TypeInv'
    BY <1>4 DEF ProxyNotFound, Done, Goto, DoRead
  <1>5. ASSUME NEW i \in Ids, NEW c \in Channels, ProxyCreate(s, i, c) PROVE TypeInv'
    BY <1>5 DEF ProxyCreate, Goto
  <1> QED BY <1>1, <1>2, <1>3, <1>4, <1>5 DEF OnReadBody

\* The handlers and coroutines of a channel.
LEMMA TypeChannel == ASSUME TypeInv, NEW c \in Channels, Channel(c) PROVE TypeInv'
  <1> USE DEF TypeInv, TypeOK, CurOK, ServerTypeOK, SessionTypeOK, RegistryTypeOK, ChannelTypeOK,
              Points, LoginSteps, ProxySteps, StopSteps, srvVars, mgrVars, chVars, ssVars, sessVars
  <1>1. ASSUME NEW e \in Ends, PostedStop(c, e) PROVE TypeInv'
    BY <1>1 DEF PostedStop, Ends
  <1>2. ASSUME NEW e \in Ends, Expire(c, e) PROVE TypeInv'
    BY <1>2 DEF Expire, Ends
  <1>3. CASE RelayAbort(c)
    BY <1>3 DEF RelayAbort, Ends
  <1>4. CASE CloseSrc(c)
    <2>1. out' \in [Sessions -> SUBSET Notices]
      BY <1>4, TellType DEF CloseSrc, Ends
    <2>2. srcMap' \in [Sessions -> SUBSET Channels]
      BY <1>4 DEF CloseSrc
    <2> QED BY <1>4, <2>1, <2>2 DEF CloseSrc
  <1>5. CASE CloseDst(c)
    <2>1. out' \in [Sessions -> SUBSET Notices]
      BY <1>5, TellType DEF CloseDst, Ends
    <2>2. dstMap' \in [Sessions -> SUBSET Channels]
      BY <1>5, SMTT(30) DEF CloseDst
    <2> QED BY <1>5, <2>1, <2>2 DEF CloseDst
  <1> QED BY <1>1, <1>2, <1>3, <1>4, <1>5 DEF Channel

LEMMA TypeNext == TypeInv /\ [Next]_vars => TypeInv'
  <1> SUFFICES ASSUME TypeInv, [Next]_vars PROVE TypeInv'
    OBVIOUS
  <1> USE DEF TypeInv, TypeOK, CurOK, ServerTypeOK, SessionTypeOK, RegistryTypeOK, ChannelTypeOK,
              Points, LoginSteps, ProxySteps, StopSteps, srvVars, mgrVars, chVars, ssVars, sessVars
  <1>1. CASE UNCHANGED vars
    BY <1>1 DEF vars
  <1>2. CASE Accept
    BY <1>2, TypeAccept
  <1>3. ASSUME NEW c \in Channels, Channel(c) PROVE TypeInv'
    BY <1>3, TypeChannel
  <1>4. ASSUME NEW s \in Sessions, Session(s) PROVE TypeInv'
    <2>1. CASE TimerExpire(s)
      BY <2>1 DEF TimerExpire
    <2>2. CASE OnTimeout(s)
      BY <2>2 DEF OnTimeout, StopBegin, Stops, Goto
    <2>3. CASE ReadComplete(s)
      BY <2>3 DEF ReadComplete
    <2>4. CASE ReadFail(s)
      BY <2>4 DEF ReadFail, StopBegin, Stops, Goto, Cancelled
    <2>5. CASE Handler(s)
      BY <2>5, TypeRead, TypeLogin, TypeProxy, TypeStop DEF Handler
    <2> QED BY <1>4, <2>1, <2>2, <2>3, <2>4, <2>5 DEF Session
  <1> QED BY <1>1, <1>2, <1>3, <1>4 DEF Next

\* Type correctness: every variable keeps its type in every behaviour.
THEOREM TypeCorrect == Spec => []TypeOK
  <1>1. TypeInv => TypeOK
    BY DEF TypeInv
  <1> QED BY <1>1, TypeInit, TypeNext, PTL DEF Spec
-----------------------------------------------------------------------------
(***************************************************************************)
(* No two running logged-in sessions share a guid.  GuidUnique is not      *)
(* inductive: a login that is past the insertion into _guid_set but not    *)
(* yet marked _logined also owns its guid, and so does a session on its    *)
(* way to closeSessionWithLock.  Holds covers these, and PhaseOK and AccOK *)
(* tie the phases of a session to its flags.                               *)
(***************************************************************************)

\* An admitted session belongs to one acceptor and has not been started.
AccOK ==
    \A a \in Acceptors : acc[a] # NoSession =>
        /\ pc[acc[a]] = "accepted"
        /\ \A b \in Acceptors : acc[b] = acc[a] => b = a

\* A handler in a login step is not logged in yet; stop() has cleared _started;
\* only logged-in sessions pass through the registry part of the close.
PhaseOK ==
    \A s \in Sessions :
        /\ pc[s] \in {"none", "dropped", "accepted"} => ~started[s] /\ ~logined[s]
        /\ pc[s] \in LoginSteps => ~logined[s]
        /\ pc[s] \in StopSteps => ~started[s]
        /\ pc[s] \in {"st_guid", "st_db", "st_map"} => logined[s]

HeldReserved == \A s \in Sessions : Holds(s) => guid[s] \in guidSet

HoldersDiffer == \A s, t \in Sessions : s # t /\ Holds(s) /\ Holds(t) => guid[s] # guid[t]

GuidInv == AccOK /\ PhaseOK /\ HeldReserved /\ HoldersDiffer

LEMMA GuidInit == Init => GuidInv
  BY DEF Init, GuidInv, AccOK, PhaseOK, HeldReserved, HoldersDiffer, Holds, LoginSteps, StopSteps

LEMMA GuidAccept == TypeInv /\ GuidInv /\ Accept => GuidInv'
  <1> SUFFICES ASSUME TypeInv, GuidInv, NEW a \in Acceptors,
                      AcceptStart(a) \/ \E s \in Sessions : AcceptDrop(a, s) \/ AcceptCheck(a, s)
               PROVE  GuidInv'
    BY DEF Accept
  <1> USE DEF TypeInv, TypeOK, ServerTypeOK, SessionTypeOK, RegistryTypeOK, GuidInv, AccOK, PhaseOK,
              HeldReserved, HoldersDiffer, Holds, LoginSteps, ProxySteps, StopSteps,
              srvVars, mgrVars, chVars, ssVars, sessVars
  <1>1. CASE AcceptStart(a)
    BY <1>1 DEF AcceptStart
  <1>2. ASSUME NEW s \in Sessions, AcceptDrop(a, s) PROVE GuidInv'
    BY <1>2 DEF AcceptDrop
  <1>3. ASSUME NEW s \in Sessions, AcceptCheck(a, s) PROVE GuidInv'
    BY <1>3 DEF AcceptCheck
  <1> QED BY <1>1, <1>2, <1>3

\* A login keeps its guid to itself until it succeeds or gives up.
LEMMA GuidLogin == ASSUME TypeInv, GuidInv, NEW s \in Sessions, LoginStep(s) PROVE GuidInv'
  <1> USE DEF TypeInv, TypeOK, ServerTypeOK, SessionTypeOK, RegistryTypeOK, GuidInv, AccOK, PhaseOK,
              HeldReserved, HoldersDiffer, Holds, LoginSteps, ProxySteps, StopSteps,
              srvVars, mgrVars, chVars, ssVars, sessVars
  <1>1. CASE LoginId(s)
    BY <1>1 DEF LoginId, Goto, Registers
  <1>2. CASE LoginMap(s)
    BY <1>2 DEF LoginMap, Goto, IdFree
  <1>3. CASE LoginUndo(s)
    BY <1>3 DEF LoginUndo, Done, Goto, DoRead
  <1>4. CASE LoginDb(s)
    BY <1>4 DEF LoginDb, Goto
  <1>5. CASE LoginNoPeer(s)
    BY <1>5 DEF LoginNoPeer, Done, Goto, DoRead
  <1>6. CASE LoginOk(s)
    BY <1>6 DEF LoginOk, Done, Goto, DoRead
  <1> QED BY <1>1, <1>2, <1>3, <1>4, <1>5, <1>6 DEF LoginStep

\* A proxy request touches neither guids nor logins.
LEMMA GuidProxy == ASSUME TypeInv, GuidInv, NEW s \in Sessions, ProxyStep(s) PROVE GuidInv'
  <1> USE DEF TypeInv, TypeOK, ServerTypeOK, SessionTypeOK, RegistryTypeOK, GuidInv, AccOK, PhaseOK,
              HeldReserved, HoldersDiffer, Holds, LoginSteps, ProxySteps, StopSteps,
              srvVars, mgrVars, chVars, ssVars, sessVars
  <1>1. CASE ProxyInit(s)
    BY <1>1 DEF ProxyInit, Goto
  <1>2. CASE ProxyInitFail(s)
    BY <1>2 DEF ProxyInitFail, Done, Goto, DoRead
  <1>3. CASE ProxyAddSrc(s)
    BY <1>3 DEF ProxyAddSrc, Goto
  <1>4. CASE ProxyAddDst(s)
    BY <1>4 DEF ProxyAddDst, Goto
  <1>5. CASE ProxyRun(s)
    BY <1>5 DEF ProxyRun, Goto
  <1>6. CASE ProxyAbandon(s)
    BY <1>6 DEF ProxyAbandon, Done, Goto, DoRead
  <1>7. CASE ProxyStart(s)
    BY <1>7 DEF ProxyStart, Goto
  <1>8. CASE ProxyAccess(s)
    BY <1>8 DEF ProxyAccess, Goto
  <1>9. CASE ProxyOk(s)
    BY <1>9 DEF ProxyOk, Done, Goto, DoRead
  <1> QED BY <1>1, <1>2, <1>3, <1>4, <1>5, <1>6, <1>7, <1>8, <1>9 DEF ProxyStep

\* stop() gives back the guid of the session that stops, and only that one.
LEMMA GuidStop == ASSUME TypeInv, GuidInv, NEW s \in Sessions, StopStep(s) PROVE GuidInv'
  <1> USE DEF TypeInv, TypeOK, ServerTypeOK, SessionTypeOK, RegistryTypeOK, GuidInv, AccOK, PhaseOK,
              HeldReserved, HoldersDiffer, Holds, LoginSteps, ProxySteps, StopSteps,
              srvVars, mgrVars, chVars, ssVars, sessVars
  <1>1. CASE StopSrc(s)
    BY <1>1 DEF StopSrc, Goto
  <1>2. CASE StopDst(s)
    BY <1>2 DEF StopDst, Goto, WasLogined
  <1>3. CASE CloseGuid(s)
    BY <1>3 DEF CloseGuid, Goto
  <1>4. CASE CloseDb(s)
    BY <1>4 DEF CloseDb, Goto
  <1>5. CASE CloseMap(s)
    BY <1>5 DEF CloseMap, Goto
  <1>6. CASE SessionClosed(s)
    BY <1>6 DEF SessionClosed, Goto
  <1> QED BY <1>1, <1>2, <1>3, <1>4, <1>5, <1>6 DEF StopStep

\* A request reserves a guid only if it is free.
LEMMA GuidRead == ASSUME TypeInv, GuidInv, NEW s \in Sessions, OnReadBody(s) PROVE GuidInv'
  <1> USE DEF TypeInv, TypeOK, ServerTypeOK, SessionTypeOK, RegistryTypeOK, GuidInv, AccOK, PhaseOK,
              HeldReserved, HoldersDiffer, Holds, LoginSteps, ProxySteps, StopSteps,
              srvVars, mgrVars, chVars, ssVars, sessVars
  <1>1. CASE OnReqOther(s)
    BY <1>1 DEF OnReqOther, Done, Goto, DoRead, Request, Idle
  <1>2. ASSUME NEW g \in Guids, NEW t \in Types, LoginRejected(s, g, t) PROVE GuidInv'
    BY <1>2 DEF LoginRejected, Done, Goto, DoRead, Request, Idle
  <1>3. ASSUME NEW g \in Guids, NEW t \in Types, LoginReserve(s, g, t) PROVE GuidInv'
    BY <1>3 DEF LoginReserve, Goto, Request, Idle
  <1>4. ASSUME NEW i \in Ids, ProxyNotFound(s, i) PROVE GuidInv'
    BY <1>4 DEF ProxyNotFound, Done, Goto, DoRead, Request, Idle
  <1>5. ASSUME NEW i \in Ids, NEW c \in Channels, ProxyCreate(s, i, c) PROVE GuidInv'
    BY <1>5 DEF ProxyCreate, Goto, Request, Idle
  <1> QED BY <1>1, <1>2, <1>3, <1>4, <1>5 DEF OnReadBody

LEMMA GuidNext == TypeInv /\ GuidInv /\ [Next]_vars => GuidInv'
  <1> SUFFICES ASSUME TypeInv, GuidInv, [Next]_vars PROVE GuidInv'
    OBVIOUS
  <1> USE DEF TypeInv, TypeOK, ServerTypeOK, SessionTypeOK, RegistryTypeOK, GuidInv, AccOK, PhaseOK,
              HeldReserved, HoldersDiffer, Holds, LoginSteps, ProxySteps, StopSteps,
              srvVars, mgrVars, chVars, ssVars, sessVars
  <1>1. CASE UNCHANGED vars
    BY <1>1 DEF vars
  <1>2. CASE Accept
    BY <1>2, GuidAccept
  <1>3. ASSUME NEW c \in Channels, Channel(c) PROVE GuidInv'
    <2>1. UNCHANGED <<srvVars, ssVars, mgrVars>>
      BY <1>3 DEF Channel, PostedStop, Expire, RelayAbort, CloseSrc, CloseDst
    <2> QED BY <2>1
  <1>4. ASSUME NEW s \in Sessions, Session(s) PROVE GuidInv'
    <2>1. CASE TimerExpire(s)
      BY <2>1 DEF TimerExpire
    <2>2. CASE OnTimeout(s)
      BY <2>2 DEF OnTimeout, StopBegin, Stops, Goto, Idle
    <2>3. CASE ReadComplete(s)
      BY <2>3 DEF ReadComplete
    <2>4. CASE ReadFail(s)
      BY <2>4 DEF ReadFail, StopBegin, Stops, Goto, Idle
    <2>5. CASE Handler(s)
      BY <2>5, GuidRead, GuidLogin, GuidProxy, GuidStop DEF Handler
    <2> QED BY <1>4, <2>1, <2>2, <2>3, <2>4, <2>5 DEF Session
  <1> QED BY <1>1, <1>2, <1>3, <1>4 DEF Next

\* Whatever logins, failed logins and disconnections interleave, two running
\* logged-in sessions never have the same guid.
THEOREM GuidsAreUnique == Spec => []GuidUnique
  <1>1. GuidInv => GuidUnique
    BY DEF GuidInv, HoldersDiffer, Holds, GuidUnique
  <1> QED BY <1>1, TypeInit, TypeNext, GuidInit, GuidNext, PTL DEF Spec
-----------------------------------------------------------------------------
(***************************************************************************)
(* The connection counter, and how far the session limit can be passed.    *)
(***************************************************************************)

LEMMA CountedFinite == IsFiniteSet(Counted) /\ IsFiniteSet(Admitting)
  BY FiniteAssumption, FS_Subset DEF Counted, Admitting

\* Only admission, the start of stop() and its end change who is counted.
LEMMA CountedStep ==
    ASSUME TypeInv, GuidInv, [Next]_vars
    PROVE  \/ \E a \in Acceptors : AcceptStart(a)
           \/ \E s \in Sessions : SessionClosed(s)
           \/ Counted' = Counted /\ connNum' = connNum
  <1> USE DEF TypeInv, TypeOK, ServerTypeOK, SessionTypeOK, GuidInv, PhaseOK, Counted,
              LoginSteps, ProxySteps, StopSteps, srvVars, mgrVars, chVars, ssVars, sessVars
  <1>1. CASE UNCHANGED vars
    BY <1>1 DEF vars
  <1>2. ASSUME NEW a \in Acceptors, NEW s \in Sessions, AcceptDrop(a, s) \/ AcceptCheck(a, s)
        PROVE  Counted' = Counted /\ connNum' = connNum
    BY <1>2 DEF AcceptDrop, AcceptCheck
  <1>3. ASSUME NEW c \in Channels, Channel(c) PROVE Counted' = Counted /\ connNum' = connNum
    <2>1. UNCHANGED <<srvVars, ssVars, mgrVars>>
      BY <1>3 DEF Channel, PostedStop, Expire, RelayAbort, CloseSrc, CloseDst
    <2> QED BY <2>1
  <1>4. ASSUME NEW s \in Sessions, Session(s), ~SessionClosed(s)
        PROVE  Counted' = Counted /\ connNum' = connNum
    <2> USE DEF Done, DoRead, Goto, Request, Idle
    <2>1. CASE TimerExpire(s) \/ ReadComplete(s)
      BY <2>1 DEF TimerExpire, ReadComplete
    <2>2. CASE OnTimeout(s) \/ ReadFail(s)
      BY <2>2 DEF OnTimeout, ReadFail, StopBegin, Stops
    <2>3. CASE OnReadBody(s)
      BY <2>3 DEF OnReadBody, OnReqOther, LoginRejected, LoginReserve, ProxyNotFound, ProxyCreate
    <2>4. CASE LoginStep(s)
      <3>1. CASE LoginId(s)
        BY <3>1 DEF LoginId, Registers
      <3>2. CASE LoginMap(s)
        BY <3>2 DEF LoginMap, IdFree
      <3>3. CASE LoginUndo(s) \/ LoginDb(s) \/ LoginNoPeer(s) \/ LoginOk(s)
        BY <3>3 DEF LoginUndo, LoginDb, LoginNoPeer, LoginOk
      <3> QED BY <2>4, <3>1, <3>2, <3>3 DEF LoginStep
    <2>5. CASE ProxyStep(s)
      BY <2>5 DEF ProxyStep, ProxyInit, ProxyInitFail, ProxyAddSrc, ProxyAddDst, ProxyRun,
                  ProxyAbandon, ProxyStart, ProxyAccess, ProxyOk
    <2>6. CASE StopStep(s)
      <3>1. CASE StopDst(s)
        BY <3>1 DEF StopDst, WasLogined
      <3>2. CASE StopSrc(s) \/ CloseGuid(s) \/ CloseDb(s) \/ CloseMap(s)
        BY <3>2 DEF StopSrc, CloseGuid, CloseDb, CloseMap
      <3> QED BY <1>4, <2>6, <3>1, <3>2 DEF StopStep
    <2> QED BY <1>4, <2>1, <2>2, <2>3, <2>4, <2>5, <2>6 DEF Session, Handler
  <1> QED BY <1>1, <1>2, <1>3, <1>4 DEF Next, Accept

LEMMA CountNext == TypeInv /\ GuidInv /\ ConnCount /\ [Next]_vars => ConnCount'
  <1> SUFFICES ASSUME TypeInv, GuidInv, ConnCount, [Next]_vars PROVE ConnCount'
    OBVIOUS
  <1> USE DEF TypeInv, TypeOK, ServerTypeOK, SessionTypeOK, GuidInv, PhaseOK, AccOK, ConnCount,
              StopSteps
  <1>1. ASSUME NEW a \in Acceptors, AcceptStart(a) PROVE ConnCount'
    <2>1. Counted' = Counted \cup {acc[a]} /\ acc[a] \notin Counted
      BY <1>1 DEF AcceptStart, Counted
    <2>2. Cardinality(Counted') = Cardinality(Counted) + 1
      BY <2>1, CountedFinite, FS_AddElement
    <2> QED BY <1>1, <2>2 DEF AcceptStart
  <1>2. ASSUME NEW s \in Sessions, SessionClosed(s) PROVE ConnCount'
    <2>1. Counted' = Counted \ {s} /\ s \in Counted
      BY <1>2 DEF SessionClosed, Counted, Goto, sessVars
    <2>2. Cardinality(Counted') = Cardinality(Counted) - 1
      BY <2>1, CountedFinite, FS_RemoveElement
    <2> QED BY <1>2, <2>2 DEF SessionClosed
  <1> QED BY <1>1, <1>2, CountedStep

\* _conn_num always equals the number of sessions that were started and have
\* not finished stop(): each is counted once and uncounted once.
THEOREM CountIsExact == Spec => []ConnCount
  <1>1. Init => ConnCount
    <2>1. ASSUME Init PROVE Counted = {}
      BY <2>1 DEF Init, Counted, StopSteps
    <2> QED BY <2>1, FS_EmptySet DEF Init, ConnCount
  <1> QED BY <1>1, TypeInit, TypeNext, GuidInit, GuidNext, CountNext, PTL DEF Spec

LEMMA BoundNext == TypeInv /\ ConnBound /\ [Next]_vars => ConnBound'
  <1> SUFFICES ASSUME TypeInv, ConnBound, [Next]_vars, MaxSessions > 0
               PROVE  connNum' + Cardinality(Admitting') <= MaxSessions + Cardinality(Acceptors)
    BY DEF ConnBound
  <1> USE DEF TypeInv, TypeOK, ServerTypeOK, ConnBound
  <1>1. /\ Cardinality(Admitting) \in Nat /\ Cardinality(Acceptors) \in Nat
        /\ Cardinality(Admitting') \in Nat /\ Cardinality(Admitting') <= Cardinality(Acceptors)
    <2>1. Admitting \subseteq Acceptors /\ Admitting' \subseteq Acceptors
      BY DEF Admitting
    <2> QED BY <2>1, FiniteAssumption, FS_Subset, FS_CardinalityType
  <1>2. ASSUME NEW a \in Acceptors, NEW s \in Sessions, AcceptCheck(a, s)
        PROVE  connNum' + Cardinality(Admitting') <= MaxSessions + Cardinality(Acceptors)
    BY <1>1, <1>2 DEF AcceptCheck, OverLimit
  <1>3. ASSUME NEW a \in Acceptors, AcceptStart(a)
        PROVE  connNum' + Cardinality(Admitting') <= MaxSessions + Cardinality(Acceptors)
    <2>1. Admitting' = Admitting \ {a} /\ a \in Admitting
      BY <1>3 DEF AcceptStart, Admitting
    <2>2. Cardinality(Admitting') = Cardinality(Admitting) - 1
      BY <2>1, CountedFinite, FS_RemoveElement
    <2> QED BY <1>1, <1>3, <2>2 DEF AcceptStart
  <1>4. ASSUME NEW s \in Sessions, SessionClosed(s)
        PROVE  connNum' + Cardinality(Admitting') <= MaxSessions + Cardinality(Acceptors)
    <2>1. Admitting' = Admitting /\ connNum' = connNum - 1
      BY <1>4 DEF SessionClosed, Admitting
    <2> QED BY <1>1, <2>1
  <1>5. CASE UNCHANGED srvVars
    BY <1>1, <1>5 DEF srvVars, Admitting
  <1>6. ASSUME NEW s \in Sessions, Session(s), ~SessionClosed(s) PROVE UNCHANGED srvVars
    <2>1. CASE LoginStep(s)
      BY <2>1 DEF LoginStep, LoginId, LoginMap, LoginUndo, LoginDb, LoginNoPeer, LoginOk
    <2>2. CASE ProxyStep(s)
      BY <2>2 DEF ProxyStep, ProxyInit, ProxyInitFail, ProxyAddSrc, ProxyAddDst, ProxyRun,
                  ProxyAbandon, ProxyStart, ProxyAccess, ProxyOk
    <2>3. CASE StopStep(s)
      BY <1>6, <2>3 DEF StopStep, StopSrc, StopDst, CloseGuid, CloseDb, CloseMap
    <2>4. CASE OnReadBody(s)
      BY <2>4 DEF OnReadBody, OnReqOther, LoginRejected, LoginReserve, ProxyNotFound, ProxyCreate
    <2>5. CASE TimerExpire(s) \/ OnTimeout(s) \/ ReadComplete(s) \/ ReadFail(s)
      BY <2>5 DEF TimerExpire, OnTimeout, ReadComplete, ReadFail
    <2> QED BY <1>6, <2>1, <2>2, <2>3, <2>4, <2>5 DEF Session, Handler
  <1>7. ASSUME NEW c \in Channels, Channel(c) PROVE UNCHANGED srvVars
    BY <1>7 DEF Channel, PostedStop, Expire, RelayAbort, CloseSrc, CloseDst
  <1>8. ASSUME NEW a \in Acceptors, NEW s \in Sessions, AcceptDrop(a, s) PROVE UNCHANGED srvVars
    BY <1>8 DEF AcceptDrop
  <1> QED BY <1>2, <1>3, <1>4, <1>5, <1>6, <1>7, <1>8 DEF Next, Accept, vars

\* The configured limit can be passed, but by no more than one session for each
\* acceptor, however the acceptors interleave.
THEOREM LimitOvershoot == Spec => []ConnBound
  <1>1. Init => ConnBound
    <2> SUFFICES ASSUME Init PROVE ConnBound
      OBVIOUS
    <2>1. Admitting = {} /\ connNum = 0
      BY DEF Init, Admitting
    <2>2. Cardinality(Acceptors) \in Nat
      BY FiniteAssumption, FS_CardinalityType
    <2>3. Cardinality(Admitting) = 0
      BY <2>1, FS_EmptySet
    <2> QED BY <2>1, <2>2, <2>3 DEF ConnBound
  <1> QED BY <1>1, TypeInit, TypeNext, BoundNext, PTL DEF Spec

(***************************************************************************)
(* The sessions and the registry they are entered in: a started session is *)
(* owned, the directory names only sessions that are online, an online     *)
(* session is found under its id, and logins and closes follow the order   *)
(* that the directory relies on.                                           *)
(***************************************************************************)

(***************************************************************************)
(* A started session is owned.  Between two handlers it is its outstanding *)
(* read that owns it, so the invariant says where the reads are issued;    *)
(* with it come the places where a handler may rely on a session that runs.*)
(***************************************************************************)

\* start() opens what stop() closes.
OpenIsStarted == \A s \in Sessions : sockOpen[s] => started[s]

\* Between two handlers a running session has a read outstanding or completed.
IdleReads == \A s \in Sessions : started[s] /\ pc[s] = "idle" => rd[s] # "none"

\* A stopped session may still handle a request that was queued, but gets no
\* further than the first use of its socket: init() of a channel, or
\* remote_endpoint() in the login of a type that registers.
PastSocket ==
    \A s \in Sessions :
        /\ pc[s] \in ProxySteps \ {"px_init"} => started[s]
        /\ pc[s] = "login_ok" /\ Registers(s) => started[s]

\* Only types that register come past the allocation of an id to the map.
MapRegisters == \A s \in Sessions : pc[s] \in {"login_map", "login_undo", "login_db"} => Registers(s)

OwnInv == OpenIsStarted /\ IdleReads /\ PastSocket /\ MapRegisters

LEMMA OwnInit == Init => OwnInv
  BY DEF Init, OwnInv, OpenIsStarted, IdleReads, PastSocket, MapRegisters, ProxySteps

\* A step of the acceptors.
LEMMA OwnAccept == TypeInv /\ GuidInv /\ OwnInv /\ Accept => OwnInv'
  <1> SUFFICES ASSUME TypeInv, GuidInv, OwnInv, NEW a \in Acceptors,
                      AcceptStart(a) \/ \E s \in Sessions : AcceptDrop(a, s) \/ AcceptCheck(a, s)
               PROVE  OwnInv'
    BY DEF Accept
  <1> USE DEF TypeInv, TypeOK, ServerTypeOK, SessionTypeOK, GuidInv, AccOK, PhaseOK, OwnInv,
              OpenIsStarted, IdleReads, PastSocket, MapRegisters, Registers, ProxySteps, sessVars
  <1>1. CASE AcceptStart(a)
    BY <1>1 DEF AcceptStart
  <1>2. ASSUME NEW s \in Sessions, AcceptDrop(a, s) PROVE OwnInv'
    BY <1>2 DEF AcceptDrop
  <1>3. ASSUME NEW s \in Sessions, AcceptCheck(a, s) PROVE OwnInv'
    BY <1>3 DEF AcceptCheck
  <1> QED BY <1>1, <1>2, <1>3

\* A step of a handler, a read or the timer of session s.
LEMMA OwnSession == ASSUME TypeInv, GuidInv, OwnInv, NEW s \in Sessions, Session(s) PROVE OwnInv'
  <1> USE DEF TypeInv, TypeOK, SessionTypeOK, GuidInv, PhaseOK, OwnInv, OpenIsStarted, IdleReads,
              PastSocket, MapRegisters, Registers, LoginSteps, ProxySteps, StopSteps, sessVars, chVars, Goto
  <1>1. CASE TimerExpire(s)
    BY <1>1 DEF TimerExpire
  <1>2. CASE ReadComplete(s)
    BY <1>2 DEF ReadComplete
  <1>3. CASE OnTimeout(s)
    BY <1>3 DEF OnTimeout, StopBegin, Stops, Idle
  <1>4. CASE ReadFail(s)
    BY <1>4 DEF ReadFail, StopBegin, Stops, Idle
  <1>5. CASE OnReadBody(s)
    <2> USE DEF Done, DoRead, Request, Idle
    <2>1. CASE OnReqOther(s)
      BY <2>1 DEF OnReqOther
    <2>2. ASSUME NEW g \in Guids, NEW t \in Types, LoginRejected(s, g, t) PROVE OwnInv'
      BY <2>2 DEF LoginRejected
    <2>3. ASSUME NEW g \in Guids, NEW t \in Types, LoginReserve(s, g, t) PROVE OwnInv'
      BY <2>3 DEF LoginReserve
    <2>4. ASSUME NEW i \in Ids, ProxyNotFound(s, i) PROVE OwnInv'
      BY <2>4 DEF ProxyNotFound
    <2>5. ASSUME NEW i \in Ids, NEW c \in Channels, ProxyCreate(s, i, c) PROVE OwnInv'
      BY <2>5 DEF ProxyCreate
    <2> QED BY <1>5, <2>1, <2>2, <2>3, <2>4, <2>5 DEF OnReadBody
  <1>6. CASE LoginStep(s)
    <2>1. CASE LoginId(s)
      BY <2>1 DEF LoginId
    <2>2. CASE LoginMap(s)
      BY <2>2 DEF LoginMap, IdFree
    <2>3. CASE LoginUndo(s) \/ LoginNoPeer(s) \/ LoginOk(s)
      BY <2>3 DEF LoginUndo, LoginNoPeer, LoginOk, Done, DoRead
    <2>4. CASE LoginDb(s)
      BY <2>4 DEF LoginDb
    <2> QED BY <1>6, <2>1, <2>2, <2>3, <2>4 DEF LoginStep
  <1>7. CASE ProxyStep(s)
    <2>1. CASE ProxyInit(s)
      BY <2>1 DEF ProxyInit, BothConnected
    <2>2. CASE ProxyInitFail(s) \/ ProxyAbandon(s) \/ ProxyOk(s)
      BY <2>2 DEF ProxyInitFail, ProxyAbandon, ProxyOk, Done, DoRead
    <2>3. CASE ProxyAddSrc(s) \/ ProxyAddDst(s) \/ ProxyRun(s) \/ ProxyStart(s) \/ ProxyAccess(s)
      BY <2>3 DEF ProxyAddSrc, ProxyAddDst, ProxyRun, ProxyStart, ProxyAccess
    <2> QED BY <1>7, <2>1, <2>2, <2>3 DEF ProxyStep
  <1>8. CASE StopStep(s)
    <2>1. CASE StopDst(s)
      BY <2>1 DEF StopDst, WasLogined
    <2>2. CASE StopSrc(s) \/ CloseGuid(s) \/ CloseDb(s) \/ CloseMap(s) \/ SessionClosed(s)
      BY <2>2 DEF StopSrc, CloseGuid, CloseDb, CloseMap, SessionClosed
    <2> QED BY <1>8, <2>1, <2>2 DEF StopStep
  <1> QED BY <1>1, <1>2, <1>3, <1>4, <1>5, <1>6, <1>7, <1>8 DEF Session, Handler

\* The handlers and coroutines of a channel touch neither sessions nor registry.
LEMMA ChannelFrame ==
    ASSUME NEW c \in Channels, Channel(c)
    PROVE  UNCHANGED <<srvVars, ssVars, mgrVars>>
  BY DEF Channel, PostedStop, Expire, RelayAbort, CloseSrc, CloseDst

LEMMA OwnNext == TypeInv /\ GuidInv /\ OwnInv /\ [Next]_vars => OwnInv'
  <1> SUFFICES ASSUME TypeInv, GuidInv, OwnInv, [Next]_vars PROVE OwnInv'
    OBVIOUS
  <1>1. CASE UNCHANGED ssVars
    BY <1>1 DEF OwnInv, OpenIsStarted, IdleReads, PastSocket, MapRegisters, Registers, ssVars, sessVars
  <1>2. ASSUME NEW c \in Channels, Channel(c) PROVE OwnInv'
    BY <1>1, <1>2, ChannelFrame
  <1> QED BY <1>1, <1>2, OwnAccept, OwnSession DEF Next, vars

\* A started session is always owned by a pending operation or a handler: the
\* body of stop() never runs in ~CSession.
THEOREM StartedStaysHeld == Spec => []StartedIsHeld
  <1>1. TypeInv /\ GuidInv /\ OwnInv => StartedIsHeld
    BY DEF TypeInv, TypeOK, SessionTypeOK, Points, GuidInv, PhaseOK, OwnInv, IdleReads,
           StartedIsHeld, Held
  <1> QED BY <1>1, TypeInit, TypeNext, GuidInit, GuidNext, OwnInit, OwnNext, PTL DEF Spec
-----------------------------------------------------------------------------
(***************************************************************************)
(* The directory.  A session is in it from LoginDb to CloseDb, and in      *)
(* _ss_map a little longer at both ends.                                   *)
(***************************************************************************)

InDir(s) ==
    /\ Registers(s)
    /\ pc[s] = "login_ok" \/ (logined[s] /\ (started[s] \/ pc[s] \in {"st_src", "st_dst", "st_guid", "st_db"}))

InMap(s) == InDir(s) \/ (Registers(s) /\ pc[s] \in {"login_db", "st_map"})

\* A step that leaves the registry alone, and who is in it.
SameRegistry ==
    /\ UNCHANGED <<ssMap, nextId, dir, sid>>
    /\ \A t \in Sessions : (InDir(t)' <=> InDir(t)) /\ (InMap(t)' <=> InMap(t))

\* The other steps.
RegistryStep(s) ==
    LoginId(s) \/ LoginMap(s) \/ LoginDb(s) \/ LoginNoPeer(s) \/ CloseDb(s) \/ CloseMap(s)

\* Logging in and out changes who is registered; timers, reads, requests and
\* the rest of stop() do not.
LEMMA FrameSession ==
    ASSUME TypeInv, GuidInv, OwnInv, NEW s \in Sessions, Session(s)
    PROVE  SameRegistry \/ RegistryStep(s)
  <1> USE DEF TypeInv, TypeOK, SessionTypeOK, GuidInv, PhaseOK, OwnInv, OpenIsStarted, PastSocket,
              SameRegistry, InDir, InMap, Registers, LoginSteps, ProxySteps, StopSteps,
              sessVars, chVars, mgrVars, Goto, Request, Idle
  <1>1. CASE TimerExpire(s)
    BY <1>1 DEF TimerExpire
  <1>2. CASE ReadComplete(s)
    BY <1>2 DEF ReadComplete
  <1>3. CASE OnTimeout(s)
    BY <1>3 DEF OnTimeout, StopBegin, Stops
  <1>4. CASE ReadFail(s)
    BY <1>4 DEF ReadFail, StopBegin, Stops
  <1>5. CASE OnReadBody(s)
    <2> USE DEF Done, DoRead
    <2>1. CASE OnReqOther(s)
      BY <2>1 DEF OnReqOther
    <2>2. ASSUME NEW g \in Guids, NEW t \in Types, LoginRejected(s, g, t) PROVE SameRegistry
      BY <2>2 DEF LoginRejected
    <2>3. ASSUME NEW g \in Guids, NEW t \in Types, LoginReserve(s, g, t) PROVE SameRegistry
      BY <2>3 DEF LoginReserve
    <2>4. ASSUME NEW i \in Ids, ProxyNotFound(s, i) PROVE SameRegistry
      BY <2>4 DEF ProxyNotFound
    <2>5. ASSUME NEW i \in Ids, NEW c \in Channels, ProxyCreate(s, i, c) PROVE SameRegistry
      BY <2>5 DEF ProxyCreate
    <2> QED BY <1>5, <2>1, <2>2, <2>3, <2>4, <2>5 DEF OnReadBody
  <1>6. CASE LoginUndo(s)
    BY <1>6 DEF LoginUndo, Done, DoRead
  <1>7. CASE LoginOk(s)
    BY <1>7 DEF LoginOk, Done, DoRead
  <1>8. CASE ProxyStep(s)
    <2>1. CASE ProxyInitFail(s) \/ ProxyAbandon(s) \/ ProxyOk(s)
      BY <2>1 DEF ProxyInitFail, ProxyAbandon, ProxyOk, Done, DoRead
    <2>2. CASE ProxyInit(s) \/ ProxyAddSrc(s) \/ ProxyAddDst(s) \/ ProxyRun(s) \/ ProxyStart(s) \/ ProxyAccess(s)
      BY <2>2 DEF ProxyInit, ProxyAddSrc, ProxyAddDst, ProxyRun, ProxyStart, ProxyAccess
    <2> QED BY <1>8, <2>1, <2>2 DEF ProxyStep
  <1>9. CASE StopSrc(s) \/ StopDst(s) \/ CloseGuid(s) \/ SessionClosed(s)
    BY <1>9 DEF StopSrc, StopDst, WasLogined, CloseGuid, SessionClosed
  <1> QED BY <1>1, <1>2, <1>3, <1>4, <1>5, <1>6, <1>7, <1>8, <1>9 DEF Session, Handler, LoginStep, StopStep, RegistryStep

\* The same for every step of the server.
LEMMA FrameNext ==
    ASSUME TypeInv, GuidInv, OwnInv, [Next]_vars
    PROVE  SameRegistry \/ \E s \in Sessions : RegistryStep(s)
  <1>1. CASE UNCHANGED <<ssVars, mgrVars>>
    BY <1>1 DEF ssVars, sessVars, mgrVars, SameRegistry, InDir, InMap, Registers
  <1>2. CASE \E c \in Channels : Channel(c)
    BY <1>1, <1>2, ChannelFrame
  <1>3. CASE \E s \in Sessions : Session(s)
    BY <1>3, FrameSession
  <1>4. ASSUME NEW a \in Acceptors, AcceptStart(a)
        PROVE  SameRegistry
    BY <1>4 DEF AcceptStart, TypeInv, TypeOK, ServerTypeOK, SessionTypeOK, GuidInv, AccOK, PhaseOK,
                SameRegistry, InDir, InMap, Registers, mgrVars
  <1>5. ASSUME NEW a \in Acceptors, NEW s \in Sessions, AcceptDrop(a, s) \/ AcceptCheck(a, s)
        PROVE  SameRegistry
    BY <1>5 DEF AcceptDrop, AcceptCheck, TypeInv, TypeOK, SessionTypeOK, GuidInv, PhaseOK,
                SameRegistry, InDir, InMap, Registers, mgrVars, sessVars
  <1> QED BY <1>1, <1>2, <1>3, <1>4, <1>5 DEF Next, Accept, vars

LEMMA PublishedNext == TypeInv /\ GuidInv /\ OwnInv /\ PublishedIsLive /\ [Next]_vars => PublishedIsLive'
  <1> SUFFICES ASSUME TypeInv, GuidInv, OwnInv, \A i \in dir : \E s \in Sessions : sid[s] = i /\ InDir(s),
                      [Next]_vars, NEW i \in dir'
               PROVE  \E s \in Sessions : sid'[s] = i /\ InDir(s)'
    BY DEF PublishedIsLive, InDir, Registers
  <1> USE DEF TypeInv, TypeOK, SessionTypeOK, RegistryTypeOK, GuidInv, PhaseOK, OwnInv, MapRegisters,
              InDir, Registers, LoginSteps, StopSteps, sessVars, mgrVars, Goto
  <1>1. ASSUME NEW s \in Sessions, LoginId(s) PROVE \E t \in Sessions : sid'[t] = i /\ InDir(t)'
    BY <1>1 DEF LoginId
  <1>2. ASSUME NEW s \in Sessions, LoginMap(s) PROVE \E t \in Sessions : sid'[t] = i /\ InDir(t)'
    BY <1>2 DEF LoginMap
  <1>3. ASSUME NEW s \in Sessions, LoginDb(s) PROVE \E t \in Sessions : sid'[t] = i /\ InDir(t)'
    BY <1>3 DEF LoginDb
  <1>4. ASSUME NEW s \in Sessions, LoginNoPeer(s) PROVE \E t \in Sessions : sid'[t] = i /\ InDir(t)'
    BY <1>4 DEF LoginNoPeer, Done
  <1>5. ASSUME NEW s \in Sessions, CloseDb(s) PROVE \E t \in Sessions : sid'[t] = i /\ InDir(t)'
    BY <1>5 DEF CloseDb
  <1>6. ASSUME NEW s \in Sessions, CloseMap(s) PROVE \E t \in Sessions : sid'[t] = i /\ InDir(t)'
    BY <1>6 DEF CloseMap
  <1> QED BY <1>1, <1>2, <1>3, <1>4, <1>5, <1>6, FrameNext DEF SameRegistry, RegistryStep

\* The directory only ever names sessions that are online, completing their
\* login or on their way through closeSessionWithLock.
THEOREM DirectoryIsLive == Spec => []PublishedIsLive
  <1>1. Init => PublishedIsLive
    BY DEF Init, PublishedIsLive
  <1> QED BY <1>1, TypeInit, TypeNext, GuidInit, GuidNext, OwnInit, OwnNext, PublishedNext, PTL DEF Spec
-----------------------------------------------------------------------------
(***************************************************************************)
(* Online sessions are found.  An entry is erased by id, whoever it leads  *)
(* to, so what has to be excluded is that another session which closes has *)
(* the same id.  One that is itself in the map cannot: the entry would     *)
(* have to lead to both.  One that is not, a CLIENT, can have drawn the id *)
(* again only after the counter has wrapped.                               *)
(***************************************************************************)

Found ==
    \A s \in Sessions :
        /\ InMap(s) => ssMap[sid[s]] = s
        /\ InDir(s) => sid[s] \in dir

\* No session outside the map closes under the id of one that is in it.
NoClash ==
    \A s, t \in Sessions :
        InMap(s) /\ ~Registers(t) /\ pc[t] \in {"st_db", "st_map"} => sid[t] # sid[s]

LEMMA FoundInit == Init => Found
  BY DEF Init, Found, InDir, InMap, Registers

LEMMA FoundNext ==
    ASSUME TypeInv, GuidInv, OwnInv, Found, NoClash, [Next]_vars
    PROVE  Found'
  <1> USE DEF TypeInv, TypeOK, SessionTypeOK, RegistryTypeOK, GuidInv, PhaseOK, OwnInv, MapRegisters,
              Found, InDir, InMap, Registers, LoginSteps, StopSteps, sessVars, mgrVars, Goto
  <1>1. ASSUME NEW s \in Sessions, LoginId(s) PROVE Found'
    BY <1>1 DEF LoginId
  <1>2. ASSUME NEW s \in Sessions, LoginMap(s) PROVE Found'
    <2>1. CASE IdFree(s)
      <3>1. \A t \in Sessions : t # s => (InMap(t)' <=> InMap(t)) /\ (InDir(t)' <=> InDir(t))
        BY <1>2, <2>1 DEF LoginMap
      <3>2. \A t \in Sessions : InMap(t) => sid[t] # sid[s]
        BY <1>2, <2>1, NoneAssumption DEF IdFree
      <3>3. ssMap' = [ssMap EXCEPT ![sid[s]] = s] /\ dir' = dir /\ sid' = sid /\ ~InDir(s)'
        BY <1>2, <2>1 DEF LoginMap
      <3> QED BY <3>1, <3>2, <3>3
    <2>2. CASE ~IdFree(s)
      BY <1>2, <2>2 DEF LoginMap
    <2> QED BY <2>1, <2>2
  <1>3. ASSUME NEW s \in Sessions, LoginDb(s) PROVE Found'
    BY <1>3 DEF LoginDb
  <1>4. ASSUME NEW s \in Sessions, LoginNoPeer(s) PROVE Found'
    BY <1>4 DEF LoginNoPeer, Done
  <1>5. ASSUME NEW s \in Sessions, CloseDb(s) \/ CloseMap(s), NEW t \in Sessions, t # s, InMap(t)
        PROVE  sid[s] # sid[t]
    <2>1. CASE Registers(s)
      <3>1. InMap(s)
        BY <1>5, <2>1 DEF CloseDb, CloseMap
      <3> QED BY <1>5, <3>1
    <2>2. CASE ~Registers(s)
      BY <1>5, <2>2 DEF CloseDb, CloseMap, NoClash
    <2> QED BY <2>1, <2>2
  <1>6. ASSUME NEW s \in Sessions, CloseDb(s) PROVE Found'
    <2>1. \A t \in Sessions : t # s => (InMap(t)' <=> InMap(t)) /\ (InDir(t)' <=> InDir(t))
      BY <1>6 DEF CloseDb
    <2>2. ssMap' = ssMap /\ dir' = dir \ {sid[s]} /\ sid' = sid /\ ~InDir(s)' /\ (InMap(s)' => InMap(s))
      BY <1>6 DEF CloseDb
    <2>3. \A t \in Sessions : t # s /\ InMap(t) => sid[s] # sid[t]
      BY <1>5, <1>6
    <2>4. \A t \in Sessions : InDir(t) => InMap(t)
      OBVIOUS
    <2> HIDE DEF InMap, InDir
    <2> QED BY <2>1, <2>2, <2>3, <2>4
  <1>7. ASSUME NEW s \in Sessions, CloseMap(s) PROVE Found'
    <2>1. \A t \in Sessions : t # s => (InMap(t)' <=> InMap(t)) /\ (InDir(t)' <=> InDir(t))
      BY <1>7 DEF CloseMap
    <2>2. ssMap' = [ssMap EXCEPT ![sid[s]] = NoSession] /\ dir' = dir /\ sid' = sid /\ ~InMap(s)'
      BY <1>7 DEF CloseMap
    <2>3. \A t \in Sessions : t # s /\ InMap(t) => sid[s] # sid[t]
      BY <1>5, <1>7
    <2> QED BY <2>1, <2>2, <2>3
  <1>8. CASE SameRegistry
    BY <1>8 DEF SameRegistry
  <1> QED BY <1>1, <1>2, <1>3, <1>4, <1>6, <1>7, <1>8, FrameNext DEF RegistryStep

LEMMA FoundOnline == Found => OnlineIsFound
  BY DEF Found, InMap, InDir, OnlineIsFound, Online

(***************************************************************************)
(* Where every client is of a type that registers.                         *)
(***************************************************************************)

\* A session that logs in or has logged in has the type it announced.
Announced == \A s \in Sessions : pc[s] \in LoginSteps \/ logined[s] => stype[s] \in Types

LEMMA AnnouncedNext == TypeInv /\ GuidInv /\ Announced /\ [Next]_vars => Announced'
  <1> SUFFICES ASSUME TypeInv, GuidInv, Announced, [Next]_vars PROVE Announced'
    OBVIOUS
  <1> USE DEF TypeInv, TypeOK, ServerTypeOK, SessionTypeOK, GuidInv, PhaseOK, AccOK, Announced,
              LoginSteps, ProxySteps, StopSteps, sessVars, Goto, Done, DoRead, Request, Idle
  <1>1. CASE UNCHANGED ssVars
    BY <1>1 DEF ssVars
  <1>2. CASE \E c \in Channels : Channel(c)
    BY <1>1, <1>2, ChannelFrame
  <1>3. ASSUME NEW a \in Acceptors, AcceptStart(a) \/ \E s \in Sessions : AcceptDrop(a, s) \/ AcceptCheck(a, s)
        PROVE  Announced'
    BY <1>3 DEF AcceptStart, AcceptDrop, AcceptCheck
  <1>4. ASSUME NEW s \in Sessions, Session(s) PROVE Announced'
    <2>1. CASE TimerExpire(s) \/ ReadComplete(s) \/ OnTimeout(s) \/ ReadFail(s)
      BY <2>1 DEF TimerExpire, ReadComplete, OnTimeout, ReadFail, StopBegin, Stops
    <2>2. CASE OnReadBody(s)
      BY <2>2 DEF OnReadBody, OnReqOther, LoginRejected, LoginReserve, ProxyNotFound, ProxyCreate
    <2>3. CASE LoginStep(s)
      BY <2>3 DEF LoginStep, LoginId, LoginMap, LoginUndo, LoginDb, LoginNoPeer, LoginOk, IdFree
    <2>4. CASE ProxyStep(s)
      BY <2>4 DEF ProxyStep, ProxyInit, ProxyInitFail, ProxyAddSrc, ProxyAddDst, ProxyRun,
                  ProxyAbandon, ProxyStart, ProxyAccess, ProxyOk
    <2>5. CASE StopStep(s)
      BY <2>5 DEF StopStep, StopSrc, StopDst, CloseGuid, CloseDb, CloseMap, SessionClosed, WasLogined
    <2> QED BY <1>4, <2>1, <2>2, <2>3, <2>4, <2>5 DEF Session, Handler
  <1> QED BY <1>1, <1>2, <1>3, <1>4 DEF Next, Accept, vars

\* Where all clients are of the types SERVER and ANYONE an online session is
\* always found and published, even when ids wrap onto ids still in use.
THEOREM FoundWithoutClients ==
    ASSUME Types \subseteq {"SERVER", "ANYONE"}
    PROVE  Spec => []OnlineIsFound
  <1>1. GuidInv /\ Announced => NoClash
    BY DEF GuidInv, PhaseOK, Announced, NoClash, Registers
  <1>2. Init => Announced
    BY DEF Init, Announced, LoginSteps
  <1> QED BY <1>1, <1>2, TypeInit, TypeNext, GuidInit, GuidNext, OwnInit, OwnNext, AnnouncedNext,
             FoundInit, FoundNext, FoundOnline, PTL DEF Spec

(***************************************************************************)
(* Where sessions of all types log in, until the counter wraps.            *)
(***************************************************************************)

\* _session_id starts above 0 (at 1000 in C++, at 1 in the model): it is 0 when
\* it has just wrapped.
Wrapped == nextId = 0

\* The counter is ahead of every id that was drawn, and no two sessions have
\* drawn the same.
Drawn ==
    /\ \A s \in Sessions : sid[s] < nextId
    /\ \A s \in Sessions : logined[s] \/ pc[s] \in LoginSteps \ {"login_id"} => sid[s] # 0
    /\ \A s, t \in Sessions : s # t /\ sid[s] = sid[t] => sid[s] = 0

LEMMA DrawnNext == TypeInv /\ GuidInv /\ Drawn /\ ~Wrapped /\ ~Wrapped' /\ [Next]_vars => Drawn'
  <1> SUFFICES ASSUME TypeInv, GuidInv, Drawn, ~Wrapped, ~Wrapped', [Next]_vars PROVE Drawn'
    OBVIOUS
  <1> USE DEF TypeInv, TypeOK, ServerTypeOK, SessionTypeOK, RegistryTypeOK, GuidInv, PhaseOK, AccOK,
              Drawn, LoginSteps, ProxySteps, StopSteps, sessVars, mgrVars, Goto, Done, Request, Idle
  <1>1. CASE UNCHANGED <<ssVars, mgrVars>>
    BY <1>1 DEF ssVars
  <1>2. CASE \E c \in Channels : Channel(c)
    BY <1>1, <1>2, ChannelFrame
  <1>3. ASSUME NEW a \in Acceptors, AcceptStart(a) \/ \E s \in Sessions : AcceptDrop(a, s) \/ AcceptCheck(a, s)
        PROVE  Drawn'
    BY <1>3 DEF AcceptStart, AcceptDrop, AcceptCheck
  <1>4. ASSUME NEW s \in Sessions, Session(s) PROVE Drawn'
    <2>1. CASE TimerExpire(s) \/ ReadComplete(s) \/ OnTimeout(s) \/ ReadFail(s)
      BY <2>1 DEF TimerExpire, ReadComplete, OnTimeout, ReadFail, StopBegin, Stops
    <2>2. CASE OnReadBody(s)
      BY <2>2 DEF OnReadBody, OnReqOther, LoginRejected, LoginReserve, ProxyNotFound, ProxyCreate
    <2>3. CASE LoginId(s)
      <3>1. nextId > 0 /\ nextId \in Int /\ sid \in [Sessions -> Int]
        BY DEF Wrapped, Ids
      <3>2. nextId' = nextId + 1
        <4>1. nextId' = (nextId + 1) % IdSpace /\ nextId' # 0
          BY <2>3 DEF LoginId, AllocSessionId, Wrapped
        <4>2. nextId \in Int /\ 0 <= nextId /\ nextId < IdSpace
          BY IdAssumption DEF Ids
        <4>3. CASE nextId + 1 < IdSpace
          BY <4>1, <4>2, <4>3, IdAssumption
        <4>4. CASE nextId + 1 = IdSpace
          BY <4>1, <4>4, IdAssumption
        <4> QED BY <4>2, <4>3, <4>4, IdAssumption
      <3>3. sid' = [sid EXCEPT ![s] = nextId] /\ logined' = logined
        BY <2>3 DEF LoginId
      <3>4. \A t \in Sessions : t # s => pc'[t] = pc[t]
        BY <2>3 DEF LoginId
      <3> QED BY <3>1, <3>2, <3>3, <3>4
    <2>4. CASE LoginMap(s) \/ LoginUndo(s) \/ LoginDb(s) \/ LoginNoPeer(s) \/ LoginOk(s)
      BY <2>4 DEF LoginMap, LoginUndo, LoginDb, LoginNoPeer, LoginOk
    <2>5. CASE ProxyStep(s)
      BY <2>5 DEF ProxyStep, ProxyInit, ProxyInitFail, ProxyAddSrc, ProxyAddDst, ProxyRun,
                  ProxyAbandon, ProxyStart, ProxyAccess, ProxyOk
    <2>6. CASE StopStep(s)
      BY <2>6 DEF StopStep, StopSrc, StopDst, CloseGuid, CloseDb, CloseMap, SessionClosed, WasLogined
    <2> QED BY <1>4, <2>1, <2>2, <2>3, <2>4, <2>5, <2>6 DEF Session, Handler, LoginStep
  <1> QED BY <1>1, <1>2, <1>3, <1>4 DEF Next, Accept, vars

\* Until the counter of session ids wraps, an online session is found under its
\* id and published, whatever types log in, fail to log in and close.
THEOREM FoundUntilWrapped == Spec /\ []~Wrapped => []OnlineIsFound
  <1>1. GuidInv /\ Drawn => NoClash
    BY DEF GuidInv, PhaseOK, Drawn, NoClash, InMap, InDir, LoginSteps
  <1>2. Init => Drawn
    BY DEF Init, Drawn, LoginSteps
  <1> QED BY <1>1, <1>2, TypeInit, TypeNext, GuidInit, GuidNext, OwnInit, OwnNext, DrawnNext,
             FoundInit, FoundNext, FoundOnline, PTL DEF Spec
-----------------------------------------------------------------------------
(***************************************************************************)
(* CSessionMgr implements Registrar.  The sets of Registrar are images of  *)
(* sets of sessions, so the proof first says which sessions a step enters  *)
(* in them or removes.                                                     *)
(***************************************************************************)

Closing(s) == Registers(s) /\ pc[s] = "st_db"
Spent(s) == logined[s] \/ Publishing(s)

\* Nobody enters or leaves, and who is in keeps its id and its guid.
SameHolders ==
    \A t \in Sessions :
        /\ Publishing(t)' <=> Publishing(t)
        /\ Closing(t)' <=> Closing(t)
        /\ Spent(t)' <=> Spent(t)
        /\ Spent(t) => sid'[t] = sid[t] /\ guid'[t] = guid[t]

HolderStep(s) == LoginDb(s) \/ LoginOk(s) \/ CloseGuid(s) \/ CloseDb(s)

LEMMA HolderSession ==
    ASSUME TypeInv, GuidInv, OwnInv, NEW s \in Sessions, Session(s)
    PROVE  SameHolders \/ HolderStep(s)
  <1> USE DEF TypeInv, TypeOK, SessionTypeOK, GuidInv, PhaseOK, OwnInv, OpenIsStarted, PastSocket,
              SameHolders, Publishing, Closing, Spent, Registers, LoginSteps, ProxySteps, StopSteps,
              sessVars, Goto, Request, Idle
  <1>1. CASE TimerExpire(s) \/ ReadComplete(s)
    BY <1>1 DEF TimerExpire, ReadComplete
  <1>2. CASE OnTimeout(s) \/ ReadFail(s)
    BY <1>2 DEF OnTimeout, ReadFail, StopBegin, Stops
  <1>3. CASE OnReadBody(s)
    <2>1. CASE OnReqOther(s)
      BY <2>1 DEF OnReqOther, Done
    <2>2. ASSUME NEW g \in Guids, NEW t \in Types, LoginRejected(s, g, t) \/ LoginReserve(s, g, t) PROVE SameHolders
      BY <2>2 DEF LoginRejected, LoginReserve, Done
    <2>3. ASSUME NEW i \in Ids, ProxyNotFound(s, i) \/ \E c \in Channels : ProxyCreate(s, i, c) PROVE SameHolders
      BY <2>3 DEF ProxyNotFound, ProxyCreate, Done
    <2> QED BY <1>3, <2>1, <2>2, <2>3 DEF OnReadBody
  <1>4. CASE LoginId(s) \/ LoginMap(s)
    BY <1>4 DEF LoginId, LoginMap
  <1>5. CASE LoginUndo(s) \/ LoginNoPeer(s)
    BY <1>5 DEF LoginUndo, LoginNoPeer, Done
  <1>6. CASE ProxyStep(s)
    <2>1. CASE ProxyInitFail(s) \/ ProxyAbandon(s) \/ ProxyOk(s)
      BY <2>1 DEF ProxyInitFail, ProxyAbandon, ProxyOk, Done
    <2>2. CASE ProxyInit(s) \/ ProxyAddSrc(s) \/ ProxyAddDst(s) \/ ProxyRun(s) \/ ProxyStart(s) \/ ProxyAccess(s)
      BY <2>2 DEF ProxyInit, ProxyAddSrc, ProxyAddDst, ProxyRun, ProxyStart, ProxyAccess
    <2> QED BY <1>6, <2>1, <2>2 DEF ProxyStep
  <1>7. CASE StopSrc(s) \/ StopDst(s) \/ CloseMap(s) \/ SessionClosed(s)
    BY <1>7 DEF StopSrc, StopDst, WasLogined, CloseMap, SessionClosed
  <1> QED BY <1>1, <1>2, <1>3, <1>4, <1>5, <1>6, <1>7 DEF Session, Handler, LoginStep, StopStep, HolderStep

LEMMA HolderNext ==
    ASSUME TypeInv, GuidInv, OwnInv, [Next]_vars
    PROVE  SameHolders \/ \E s \in Sessions : HolderStep(s)
  <1>1. CASE UNCHANGED ssVars
    BY <1>1 DEF ssVars, sessVars, SameHolders, Publishing, Closing, Spent, Registers
  <1>2. CASE \E c \in Channels : Channel(c)
    BY <1>1, <1>2, ChannelFrame
  <1>3. CASE \E s \in Sessions : Session(s)
    BY <1>3, HolderSession
  <1>4. ASSUME NEW a \in Acceptors, AcceptStart(a)
        PROVE  SameHolders
    BY <1>4 DEF AcceptStart, TypeInv, TypeOK, ServerTypeOK, SessionTypeOK, GuidInv, AccOK, PhaseOK,
                SameHolders, Publishing, Closing, Spent, Registers
  <1>5. ASSUME NEW a \in Acceptors, NEW s \in Sessions, AcceptDrop(a, s) \/ AcceptCheck(a, s)
        PROVE  SameHolders
    BY <1>5 DEF AcceptDrop, AcceptCheck, TypeInv, TypeOK, SessionTypeOK, GuidInv, PhaseOK,
                SameHolders, Publishing, Closing, Spent, Registers, sessVars
  <1> QED BY <1>1, <1>2, <1>3, <1>4, <1>5 DEF Next, Accept, vars

\* The variables of Registrar.
HoldsOf == {<<sid[s], guid[s]>> : s \in {t \in Sessions : Publishing(t)}}
ClosingOf == {sid[s] : s \in {t \in Sessions : Closing(t)}}
SpentOf == {sid[s] : s \in {t \in Sessions : Spent(t)}}

\* Sessions that are published differ in their guids, and those that used up an
\* id differ in it.
LEMMA HoldersApart ==
    ASSUME TypeInv, GuidInv, Drawn
    PROVE  /\ \A s \in Sessions : Publishing(s) \/ pc[s] \in LoginSteps => guid[s] \in Guids
           /\ \A s, t \in Sessions :
                s # t /\ (Publishing(s) \/ pc[s] \in LoginSteps) /\ Publishing(t) => guid[s] # guid[t]
           /\ \A s, t \in Sessions :
                s # t /\ (Spent(s) \/ pc[s] \in LoginSteps \ {"login_id"}) /\ Spent(t) => sid[s] # sid[t]
           /\ \A s \in Sessions : Closing(s) => Spent(s)
  <1>1. \A s \in Sessions : Publishing(s) \/ pc[s] \in LoginSteps => Holds(s)
    BY DEF Publishing, Holds, LoginSteps
  <1>2. \A s \in Sessions : Spent(s) => logined[s] \/ pc[s] \in LoginSteps \ {"login_id"}
    BY DEF Spent, Publishing, LoginSteps
  <1> QED BY <1>1, <1>2 DEF TypeInv, TypeOK, RegistryTypeOK, GuidInv, HeldReserved, HoldersDiffer, PhaseOK,
                            Drawn, Closing, Spent

LEMMA SameSets == ASSUME SameHolders, GuidInv PROVE UNCHANGED <<HoldsOf, ClosingOf, SpentOf>>
  <1>1. \A t \in Sessions : (Publishing(t) => Spent(t)) /\ (Closing(t) => Spent(t))
    BY DEF Spent, Closing, GuidInv, PhaseOK
  <1> QED BY <1>1 DEF SameHolders, HoldsOf, ClosingOf, SpentOf

\* LoginDb publishes the id.
LEMMA RegAdd ==
    ASSUME TypeInv, GuidInv, OwnInv, Drawn, NEW s \in Sessions, LoginDb(s)
    PROVE  /\ sid[s] \notin SpentOf /\ \A h \in HoldsOf : h[2] # guid[s]
           /\ HoldsOf' = HoldsOf \cup {<<sid[s], guid[s]>>}
           /\ SpentOf' = SpentOf \cup {sid[s]}
           /\ ClosingOf' = ClosingOf
  <1> USE DEF TypeInv, TypeOK, SessionTypeOK
  <1>1. /\ sid' = sid /\ guid' = guid
        /\ \A t \in Sessions : t # s =>
            (Publishing(t)' <=> Publishing(t)) /\ (Spent(t)' <=> Spent(t)) /\ (Closing(t)' <=> Closing(t))
        /\ pc[s] = "login_db" /\ ~Publishing(s) /\ ~Spent(s) /\ ~Closing(s)
        /\ Publishing(s)' /\ Spent(s)' /\ ~Closing(s)'
    BY DEF LoginDb, Goto, sessVars, Publishing, Spent, Closing, Registers, GuidInv, PhaseOK, OwnInv, MapRegisters,
           LoginSteps
  <1>2. \A t \in Sessions : (Publishing(t) => guid[t] # guid[s]) /\ (Spent(t) => sid[t] # sid[s])
    BY <1>1, HoldersApart DEF LoginSteps
  <1>3. sid[s] \notin SpentOf /\ \A h \in HoldsOf : h[2] # guid[s]
    BY <1>2 DEF SpentOf, HoldsOf
  <1>4. HoldsOf' = HoldsOf \cup {<<sid[s], guid[s]>>}
    BY <1>1 DEF HoldsOf
  <1>5. SpentOf' = SpentOf \cup {sid[s]} /\ ClosingOf' = ClosingOf
    BY <1>1 DEF SpentOf, ClosingOf
  <1> QED BY <1>3, <1>4, <1>5

\* LoginOk uses up the id of a CLIENT; the id of another type is published by now.
LEMMA RegRetire ==
    ASSUME TypeInv, GuidInv, OwnInv, Drawn, NEW s \in Sessions, LoginOk(s)
    PROVE  /\ HoldsOf' = HoldsOf /\ ClosingOf' = ClosingOf
           /\ SpentOf' = SpentOf \/ (sid[s] \notin SpentOf /\ SpentOf' = SpentOf \cup {sid[s]})
  <1> USE DEF TypeInv, TypeOK, SessionTypeOK
  <1>1. /\ sid' = sid /\ guid' = guid
        /\ \A t \in Sessions : t # s =>
            (Publishing(t)' <=> Publishing(t)) /\ (Spent(t)' <=> Spent(t)) /\ (Closing(t)' <=> Closing(t))
        /\ pc[s] = "login_ok" /\ (Publishing(s)' <=> Publishing(s)) /\ Spent(s)' /\ (Closing(s)' <=> Closing(s))
        /\ Registers(s) => Spent(s)
    BY DEF LoginOk, Done, Goto, Publishing, Spent, Closing, Registers, GuidInv, PhaseOK, OwnInv, PastSocket
  <1>2. HoldsOf' = HoldsOf /\ ClosingOf' = ClosingOf
    BY <1>1 DEF HoldsOf, ClosingOf
  <1>3. CASE Spent(s)
    BY <1>1, <1>2, <1>3 DEF SpentOf
  <1>4. CASE ~Spent(s)
    <2>1. \A t \in Sessions : Spent(t) => sid[t] # sid[s]
      BY <1>1, <1>4, HoldersApart DEF LoginSteps
    <2>2. sid[s] \notin SpentOf
      BY <2>1 DEF SpentOf
    <2>3. SpentOf' = SpentOf \cup {sid[s]}
      BY <1>1 DEF SpentOf
    <2> QED BY <1>2, <2>2, <2>3
  <1> QED BY <1>3, <1>4

\* CloseGuid gives the guid back.
LEMMA RegRelease ==
    ASSUME TypeInv, GuidInv, OwnInv, Drawn, NEW s \in Sessions, CloseGuid(s)
    PROVE  \/ UNCHANGED <<HoldsOf, ClosingOf, SpentOf>>
           \/ /\ guid[s] \in Guids /\ <<sid[s], guid[s]>> \in HoldsOf
              /\ HoldsOf' = HoldsOf \ {<<sid[s], guid[s]>>}
              /\ ClosingOf' = ClosingOf \cup {sid[s]}
              /\ SpentOf' = SpentOf
  <1> USE DEF TypeInv, TypeOK, SessionTypeOK
  <1>1. /\ sid' = sid /\ guid' = guid
        /\ \A t \in Sessions : t # s => (Publishing(t)' <=> Publishing(t)) /\ (Closing(t)' <=> Closing(t))
        /\ \A t \in Sessions : Spent(t)' <=> Spent(t)
        /\ ~Publishing(s)' /\ (Publishing(s) <=> Registers(s)) /\ ~Closing(s) /\ (Closing(s)' <=> Registers(s))
    BY DEF CloseGuid, Goto, sessVars, Publishing, Spent, Closing, Registers, GuidInv, PhaseOK, StopSteps
  <1>2. SpentOf' = SpentOf
    BY <1>1 DEF SpentOf
  <1>3. CASE ~Registers(s)
    BY <1>1, <1>2, <1>3 DEF HoldsOf, ClosingOf
  <1>4. CASE Registers(s)
    <2>1. guid[s] \in Guids /\ \A t \in Sessions : t # s /\ Publishing(t) => guid[t] # guid[s]
      BY <1>1, <1>4, HoldersApart
    <2>2. <<sid[s], guid[s]>> \in HoldsOf
      BY <1>1, <1>4 DEF HoldsOf
    <2>3. HoldsOf' = HoldsOf \ {<<sid[s], guid[s]>>}
      BY <1>1, <1>4, <2>1 DEF HoldsOf
    <2>4. ClosingOf' = ClosingOf \cup {sid[s]}
      BY <1>1, <1>4 DEF ClosingOf
    <2> QED BY <1>2, <2>1, <2>2, <2>3, <2>4
  <1> QED BY <1>3, <1>4

\* CloseDb deletes the id.
LEMMA RegDel ==
    ASSUME TypeInv, GuidInv, OwnInv, Drawn, NEW s \in Sessions, CloseDb(s)
    PROVE  \/ UNCHANGED <<HoldsOf, ClosingOf, SpentOf>>
           \/ /\ sid[s] \in ClosingOf
              /\ ClosingOf' = ClosingOf \ {sid[s]}
              /\ UNCHANGED <<HoldsOf, SpentOf>>
  <1> USE DEF TypeInv, TypeOK, SessionTypeOK
  <1>1. /\ sid' = sid /\ guid' = guid
        /\ \A t \in Sessions : t # s => (Closing(t)' <=> Closing(t))
        /\ \A t \in Sessions : (Publishing(t)' <=> Publishing(t)) /\ (Spent(t)' <=> Spent(t))
        /\ ~Closing(s)' /\ (Closing(s) <=> Registers(s))
    BY DEF CloseDb, Goto, sessVars, Publishing, Spent, Closing, Registers, GuidInv, PhaseOK, StopSteps
  <1>2. HoldsOf' = HoldsOf /\ SpentOf' = SpentOf
    BY <1>1 DEF HoldsOf, SpentOf
  <1>3. CASE ~Registers(s)
    BY <1>1, <1>2, <1>3 DEF ClosingOf
  <1>4. CASE Registers(s)
    <2>1. \A t \in Sessions : t # s /\ Closing(t) => sid[t] # sid[s]
      BY <1>1, <1>4, HoldersApart
    <2>2. sid[s] \in ClosingOf /\ ClosingOf' = ClosingOf \ {sid[s]}
      BY <1>1, <1>4, <2>1 DEF ClosingOf
    <2> QED BY <1>2, <2>2
  <1> QED BY <1>3, <1>4

LEMMA RegNext == TypeInv /\ GuidInv /\ OwnInv /\ Drawn /\ [Next]_vars => [Reg!Next]_(Reg!vars)
  <1> SUFFICES ASSUME TypeInv, GuidInv, OwnInv, Drawn, [Next]_vars PROVE [Reg!Next]_(Reg!vars)
    OBVIOUS
  <1> USE DEF Reg!Next, Reg!vars, HoldsOf, ClosingOf, SpentOf, Closing, Spent
  <1>1. CASE SameHolders
    BY <1>1, SameSets
  <1>2. ASSUME NEW s \in Sessions, HolderStep(s) PROVE [Reg!Next]_(Reg!vars)
    <2>1. PICK i \in Ids, g \in Guids \cup {NoGuid} : i = sid[s] /\ g = guid[s]
      BY DEF TypeInv, TypeOK, SessionTypeOK
    <2>2. CASE LoginDb(s)
      <3>1. g \in Guids
        BY <2>1, <2>2, HoldersApart DEF LoginDb, LoginSteps
      <3>2. Reg!Add(i, g)
        BY <2>1, <2>2, RegAdd DEF Reg!Add, Reg!MayAdd
      <3> QED BY <3>1, <3>2
    <2>3. CASE LoginOk(s)
      <3>1. Reg!Retire(i) \/ UNCHANGED Reg!vars
        BY <2>1, <2>3, RegRetire DEF Reg!Retire
      <3> QED BY <3>1
    <2>4. CASE CloseGuid(s)
      <3>1. (g \in Guids /\ Reg!Release(i, g)) \/ UNCHANGED Reg!vars
        BY <2>1, <2>4, RegRelease DEF Reg!Release
      <3> QED BY <3>1
    <2>5. CASE CloseDb(s)
      <3>1. Reg!Del(i) \/ UNCHANGED Reg!vars
        BY <2>1, <2>5, RegDel DEF Reg!Del
      <3> QED BY <3>1
    <2> QED BY <1>2, <2>2, <2>3, <2>4, <2>5 DEF HolderStep
  <1> QED BY <1>1, <1>2, HolderNext

\* Until the counter of session ids wraps, onSessionLogin and
\* closeSessionWithLock keep their promise to the directory.
THEOREM ManagerIsRegistrar == Spec /\ []~Wrapped => IsRegistrar
  <1>1. Init => Reg!Init
    BY DEF Init, Reg!Init, Publishing, Registers
  <1>2. Init => Drawn
    BY DEF Init, Drawn, LoginSteps
  <1> QED BY <1>1, <1>2, TypeInit, TypeNext, GuidInit, GuidNext, OwnInit, OwnNext, DrawnNext, RegNext,
             PTL DEF Spec, IsRegistrar, Reg!Spec
=============================================================================
