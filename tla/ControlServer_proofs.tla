------------------------ MODULE ControlServer_proofs -----------------------
(***************************************************************************)
(* Proofs about ControlServer, for any devices, cameras, sessions and      *)
(* either build.                                                           *)
(***************************************************************************)
EXTENDS ControlServer, TLAPS

\* A session has a context from Authenticated to its destruction, and until
\* then nothing is kept for it.
SessionsConsistent ==
    \A s \in Session : LET o == session[s] IN
        /\ o.phase \in {"none", "handshake"} => o.context = NoDevice
        /\ o.phase = "reading" => o.context # NoDevice
        /\ o.context = NoDevice =>
             /\ o.posted = {} /\ o.told = {} /\ o.overtaken = {}
             /\ o.timer = NoSource /\ o.expired = NoSource
             /\ ~o.ready

\* Every source that is kept somewhere is kept with its owner.
SourcesOwned ==
    /\ \A d \in Device : \A x \in activeSources[d] : Owner[x] = d
    /\ \A s \in Session : \A x \in Source :
          x \in {session[s].timer, session[s].expired}
            => Owner[x] = session[s].context
    /\ io # IoIdle => Owner[io.source] = session[io.session].context

\* During a call of the restream thread the demand is what the call set.
CallConsistent ==
    /\ call.op = "request" => call.source \in activeSources[Owner[call.source]]
    /\ call.op = "stop" => call.source \notin activeSources[Owner[call.source]]

\* A request the io thread is about to send is wanted, or will be followed by
\* a StopStream, or was overtaken by one.
LateRequest ==
    io # IoIdle => \/ shouldStream(io.session, io.source)
                   \/ StopPending(io.session, io.source)
                   \/ io.source \in session[io.session].overtaken

\* TypeOK is not inductive alone: ClientReady copies the sources of a context
\* that a reading session must have.
ReadersHaveContext ==
    \A s \in Session : session[s].phase = "reading" =>
                          session[s].context \in Device

TypeInv == TypeOK /\ ReadersHaveContext

\* The inductive invariant.
IInv ==
    /\ TypeInv
    /\ RegistryExact
    /\ SessionsConsistent
    /\ SourcesOwned
    /\ OwnSourcesOnly
    /\ CallConsistent
    /\ LateRequest
    /\ NoOrphanStream
    /\ DemandCovered

-----------------------------------------------------------------------------
\* The variables hold what their C++ declarations hold, in every reachable
\* state.
LEMMA TypeInit == Init => TypeInv
  BY ControlServerAssumption
     DEF Init, TypeInv, TypeOK, ReadersHaveContext, SessionState, NoObject

LEMMA TypeRestart == Restart => TypeInv'
  BY ControlServerAssumption
     DEF Restart, TypeInv, TypeOK, ReadersHaveContext, SessionState, NoObject

\* One session object changes: enough to look at that object.
LEMMA TypeUpdate ==
  ASSUME TypeInv, NEW s \in Session,
         session' = [session EXCEPT ![s] = session'[s]],
         session'[s] \in SessionState,
         session'[s].phase = "reading" => session'[s].context \in Device
  PROVE  session' \in [Session -> SessionState] /\ ReadersHaveContext'
  BY DEF TypeInv, TypeOK, ReadersHaveContext

LEMMA TypeNext == TypeInv /\ [Next]_vars => TypeInv'
<1> SUFFICES ASSUME TypeInv, [Next]_vars PROVE TypeInv'
  OBVIOUS
<1> USE ControlServerAssumption
<1>1. ASSUME NEW s \in Session, ConnectionNext(s) PROVE TypeInv'
  <2>1. session[s] \in SessionState
    BY DEF TypeInv, TypeOK
  <2>2. CASE OnNewConnection(s)
    <3>1. session'[s] = [session[s] EXCEPT !.phase = "handshake"]
      BY <2>2 DEF OnNewConnection, TypeInv, TypeOK
    <3>2. /\ session'[s] \in SessionState
          /\ session'[s].phase # "reading"
      BY <2>1, <3>1 DEF SessionState
    <3> QED BY <2>2, <3>2, TypeUpdate DEF OnNewConnection, TypeInv, TypeOK
  <2>3. ASSUME NEW d \in Device, VerifyClient(s, d) PROVE TypeInv'
    <3>1. session'[s] = [session[s] EXCEPT !.deviceId = d]
      BY <2>3 DEF VerifyClient, TypeInv, TypeOK
    <3>2. /\ session'[s] \in SessionState
          /\ session'[s].phase # "reading"
      BY <2>1, <2>3, <3>1 DEF VerifyClient, SessionState
    <3> QED BY <2>3, <3>2, TypeUpdate DEF VerifyClient, TypeInv, TypeOK
  <2>4. CASE Reject(s)
    <3>1. session'[s] = [session[s] EXCEPT !.phase = "over"]
      BY <2>4 DEF Reject, TypeInv, TypeOK
    <3>2. /\ session'[s] \in SessionState
          /\ session'[s].phase # "reading"
      BY <2>1, <3>1 DEF SessionState
    <3> QED BY <2>4, <3>2, TypeUpdate DEF Reject, TypeInv, TypeOK
  <2>5. CASE Authenticated(s)
    <3> DEFINE d == session[s].deviceId
    <3>1. d \in Device
      BY <2>1, <2>5 DEF Authenticated, SessionState
    <3>2. session'[s] = [session[s] EXCEPT !.context = d, !.phase = "reading"]
      BY <2>5 DEF Authenticated, TypeInv, TypeOK
    <3>3. session'[s] \in SessionState /\ session'[s].context \in Device
      BY <2>1, <3>1, <3>2 DEF SessionState
    <3> QED BY <2>5, <3>1, <3>3, TypeUpdate DEF Authenticated, TypeInv, TypeOK
  <2>6. CASE DestroySession(s)
    <3>1. session'[s] = NoObject
      BY <2>6 DEF DestroySession, TypeInv, TypeOK
    <3>2. NoObject \in SessionState /\ NoObject.phase # "reading"
      BY DEF NoObject, SessionState
    <3>3. activeSession' \in [Device -> Session \cup {NoSession}]
      BY <2>6 DEF DestroySession, TypeInv, TypeOK
    <3> QED BY <2>6, <3>1, <3>2, <3>3, TypeUpdate
            DEF DestroySession, TypeInv, TypeOK
  <2> QED BY <1>1, <2>2, <2>3, <2>4, <2>5, <2>6 DEF ConnectionNext
<1>2. ASSUME NEW s \in Session, MessageNext(s) PROVE TypeInv'
  <2>1. session[s] \in SessionState
    BY DEF TypeInv, TypeOK
  <2>2. CASE EndReading(s)
    <3>1. session'[s] = [session[s] EXCEPT !.phase = "over"]
      BY <2>2 DEF EndReading, TypeInv, TypeOK
    <3>2. /\ session'[s] \in SessionState
          /\ session'[s].phase # "reading"
      BY <2>1, <3>1 DEF SessionState
    <3> QED BY <2>2, <3>2, TypeUpdate DEF EndReading, TypeInv, TypeOK
  <2>3. CASE ClientReady(s)
    <3> DEFINE S == activeSources[session[s].context]
    <3>1. session[s].context \in Device
      BY <2>3 DEF ClientReady, CanReceive, TypeInv, ReadersHaveContext
    <3>2. S \in SUBSET Source
      BY <3>1 DEF TypeInv, TypeOK
    <3>3. session'[s] = [session[s] EXCEPT !.posted = S, !.ready = TRUE,
                                           !.replaced = {}]
      BY <2>3 DEF ClientReady, TypeInv, TypeOK
    <3>4. session'[s] \in SessionState /\ session'[s].context \in Device
      BY <2>1, <3>1, <3>2, <3>3 DEF SessionState
    <3> QED BY <2>3, <3>4, TypeUpdate DEF ClientReady, TypeInv, TypeOK
  <2>4. ASSUME NEW x \in Source, NEW stale \in BOOLEAN,
               StreamFailed(s, x, stale)
        PROVE TypeInv'
    <3>1. session[s].context \in Device
      BY <2>4 DEF StreamFailed, CanReceive, TypeInv, ReadersHaveContext
    <3>2. Told(s, x, stale) \in SUBSET Source
      BY <2>1 DEF Told, SessionState
    <3> DEFINE Goal == session'[s] \in SessionState
                       /\ session'[s].context \in Device
    <3>3. ASSUME shouldStream(s, x) PROVE Goal
      <4>1. session'[s] = [session[s] EXCEPT
                !.told = Told(s, x, stale), !.timer = x,
                !.replaced = (session[s].replaced \cup {session[s].timer})
                               \ {x, NoSource}]
        BY <2>4, <3>3 DEF StreamFailed, TypeInv, TypeOK
      <4>2. (session[s].replaced \cup {session[s].timer}) \ {x, NoSource}
              \in SUBSET Source
        BY <2>1 DEF SessionState
      <4> QED BY <2>1, <3>1, <3>2, <4>1, <4>2 DEF SessionState
    <3>4. ASSUME ~shouldStream(s, x) PROVE Goal
      <4>1. session'[s] = [session[s] EXCEPT !.told = Told(s, x, stale)]
        BY <2>4, <3>4 DEF StreamFailed, TypeInv, TypeOK
      <4> QED BY <2>1, <3>1, <3>2, <4>1 DEF SessionState
    <3>5. Goal
      BY <3>3, <3>4
    <3> QED BY <2>4, <3>5, TypeUpdate DEF StreamFailed, TypeInv, TypeOK
  <2> QED BY <1>2, <2>2, <2>3, <2>4 DEF MessageNext
<1>3. ASSUME NEW s \in Session, RequestNext(s) PROVE TypeInv'
  <2>1. session[s] \in SessionState
    BY DEF TypeInv, TypeOK
  <2>2. CASE TimerExpires(s)
    <3>1. session'[s] = [session[s] EXCEPT !.expired = session[s].timer,
                                           !.timer = NoSource]
      BY <2>2 DEF TimerExpires, TypeInv, TypeOK
    <3>2. /\ session'[s] \in SessionState
          /\ session'[s].phase = "reading" => session'[s].context \in Device
      BY <2>1, <3>1 DEF SessionState, TypeInv, ReadersHaveContext
    <3> QED BY <2>2, <3>2, TypeUpdate DEF TimerExpires, TypeInv, TypeOK
  <2>3. CASE RunExpired(s)
    <3>1. session'[s] = [session[s] EXCEPT !.expired = NoSource]
      BY <2>3 DEF RunExpired, TypeInv, TypeOK
    <3>2. /\ session'[s] \in SessionState
          /\ session'[s].phase = "reading" => session'[s].context \in Device
      BY <2>1, <3>1 DEF SessionState, TypeInv, ReadersHaveContext
    <3>3. session[s].expired \in Source
      BY <2>1, <2>3 DEF RunExpired, SessionState
    <3>4. io' \in {IoIdle} \cup [session : Session, source : Source]
      BY <2>3, <3>3 DEF RunExpired, CheckStream, TypeInv, TypeOK
    <3> QED BY <2>3, <3>2, <3>4, TypeUpdate DEF RunExpired, TypeInv, TypeOK
  <2>4. ASSUME NEW x \in Source, RunPosted(s, x) PROVE TypeInv'
    <3>1. session'[s] = [session[s] EXCEPT !.posted = @ \ {x}]
      BY <2>4 DEF RunPosted, TypeInv, TypeOK
    <3>2. /\ session'[s] \in SessionState
          /\ session'[s].phase = "reading" => session'[s].context \in Device
      BY <2>1, <3>1 DEF SessionState, TypeInv, ReadersHaveContext
    <3>3. io' \in {IoIdle} \cup [session : Session, source : Source]
      BY <2>4 DEF RunPosted, CheckStream, TypeInv, TypeOK
    <3> QED BY <2>4, <3>2, <3>3, TypeUpdate DEF RunPosted, TypeInv, TypeOK
  <2> QED BY <1>3, <2>2, <2>3, <2>4 DEF RequestNext
<1>4. CASE SendRequest
  <2> DEFINE s == io.session
  <2>1. s \in Session /\ io.source \in Source
    BY <1>4 DEF SendRequest, TypeInv, TypeOK
  <2>2. session'[s] = [session[s] EXCEPT !.told = @ \cup {io.source}]
    BY <1>4, <2>1 DEF SendRequest, TypeInv, TypeOK
  <2>3. /\ session'[s] \in SessionState
        /\ session'[s].phase = "reading" => session'[s].context \in Device
    BY <2>1, <2>2 DEF SessionState, TypeInv, TypeOK, ReadersHaveContext
  <2> QED BY <1>4, <2>1, <2>3, TypeUpdate DEF SendRequest, TypeInv, TypeOK
<1>5. ASSUME NEW success \in BOOLEAN, UpdateCertificate(success) PROVE TypeInv'
  BY <1>5 DEF UpdateCertificate, TypeInv, TypeOK, ReadersHaveContext
<1>6. CASE CallNext
  <2>1. CASE LookUpSession
    <3> DEFINE s == activeSession[Owner[call.source]]
    <3>1. call.source \in Source /\ call.op \in {"request", "stop"}
      BY <2>1 DEF LookUpSession, NoCall, TypeInv, TypeOK
    <3>2. s \in Session \cup {NoSession}
      BY <3>1 DEF TypeInv, TypeOK
    <3>3. call' = NoCall \/ call' = [op |-> call.op, step |-> "send",
                                     source |-> call.source, session |-> s]
      BY <2>1 DEF LookUpSession, NoCall, TypeInv, TypeOK
    <3>4. call' = NoCall \/ s \in Session
      BY <2>1, <3>2 DEF LookUpSession
    <3> QED BY <2>1, <3>1, <3>3, <3>4
            DEF LookUpSession, TypeInv, TypeOK, ReadersHaveContext
  <2>2. CASE CallRequestStream
    <3> DEFINE s == call.session  x == call.source
    <3>1. s \in Session /\ x \in Source
      BY <2>2 DEF CallRequestStream, NoCall, TypeInv, TypeOK
    <3>2. CASE shouldStream(s, x)
      <4>1. session'[s] = [session[s] EXCEPT !.told = @ \cup {x}]
        BY <2>2, <3>1, <3>2 DEF CallRequestStream, TypeInv, TypeOK
      <4>2. /\ session'[s] \in SessionState
            /\ session'[s].phase = "reading" => session'[s].context \in Device
        BY <3>1, <4>1 DEF SessionState, TypeInv, TypeOK, ReadersHaveContext
      <4> QED BY <2>2, <3>1, <3>2, <4>2, TypeUpdate
              DEF CallRequestStream, TypeInv, TypeOK
    <3>3. CASE ~shouldStream(s, x)
      BY <2>2, <3>3 DEF CallRequestStream, TypeInv, TypeOK, ReadersHaveContext
    <3> QED BY <3>2, <3>3
  <2>3. CASE CallStopStream
    <3> DEFINE s == call.session  x == call.source
    <3>1. s \in Session /\ x \in Source
      BY <2>3 DEF CallStopStream, NoCall, TypeInv, TypeOK
    <3>2. Overtaken(s, x) \in SUBSET Source
      BY <3>1 DEF Overtaken, SessionState, TypeInv, TypeOK
    <3>3. session'[s] = [session[s] EXCEPT !.told = session[s].told \ {x},
                                           !.overtaken = Overtaken(s, x)]
      BY <2>3, <3>1 DEF CallStopStream, TypeInv, TypeOK
    <3>4. /\ session'[s] \in SessionState
          /\ session'[s].phase = "reading" => session'[s].context \in Device
      <4>1. session[s] \in SessionState
        BY <3>1 DEF TypeInv, TypeOK
      <4>2. session[s].told \ {x} \in SUBSET Source
        BY <4>1 DEF SessionState
      <4> QED BY <3>1, <3>2, <3>3, <4>1, <4>2
              DEF SessionState, TypeInv, ReadersHaveContext
    <3> QED BY <2>3, <3>1, <3>4, TypeUpdate DEF CallStopStream, TypeInv, TypeOK
  <2>4. CASE CallFreedSession
    BY <2>4 DEF CallFreedSession, TypeInv, TypeOK, ReadersHaveContext
  <2> QED BY <1>6, <2>1, <2>2, <2>3, <2>4 DEF CallNext
<1>7. ASSUME NEW x \in Source, RequestStream(x) \/ StopStream(x) PROVE TypeInv'
  BY <1>7 DEF RequestStream, StopStream, Begin, TypeInv, TypeOK,
              ReadersHaveContext
<1>8. CASE Restart
  BY <1>8, TypeRestart
<1>9. CASE UNCHANGED vars
  BY SMTT(30), <1>9 DEF vars, TypeInv, TypeOK, ReadersHaveContext
<1> QED
  BY <1>1, <1>2, <1>3, <1>4, <1>5, <1>6, <1>7, <1>8, <1>9
     DEF Next, IoNext, RequestTwice, Crash

-----------------------------------------------------------------------------
\* The registry: only Authenticated and DestroySession bind or unbind a
\* session, and both change the session and its context together.
LEMMA RegistryNext ==
  IInv /\ [Next]_vars => (RegistryExact /\ SessionsConsistent)'
<1> SUFFICES ASSUME IInv, [Next]_vars
             PROVE  (RegistryExact /\ SessionsConsistent)'
  OBVIOUS
<1> USE DEF IInv, TypeInv, TypeOK, SessionState, RegistryExact,
           SessionsConsistent
<1>1. ASSUME NEW s \in Session, OnNewConnection(s)
      PROVE (RegistryExact /\ SessionsConsistent)'
  BY <1>1 DEF OnNewConnection
<1>2. ASSUME NEW s \in Session, NEW d \in Device, VerifyClient(s, d)
      PROVE (RegistryExact /\ SessionsConsistent)'
  BY <1>2 DEF VerifyClient
<1>3. ASSUME NEW s \in Session, Reject(s)
      PROVE (RegistryExact /\ SessionsConsistent)'
  BY <1>3 DEF Reject
<1>4. ASSUME NEW s \in Session, Authenticated(s)
      PROVE (RegistryExact /\ SessionsConsistent)'
  BY <1>4, ControlServerAssumption DEF Authenticated
<1>5. ASSUME NEW s \in Session, DestroySession(s)
      PROVE (RegistryExact /\ SessionsConsistent)'
  BY <1>5 DEF DestroySession, NoObject
<1>6. ASSUME NEW s \in Session, EndReading(s)
      PROVE (RegistryExact /\ SessionsConsistent)'
  BY <1>6 DEF EndReading
<1>7. ASSUME NEW s \in Session, ClientReady(s)
      PROVE (RegistryExact /\ SessionsConsistent)'
  BY <1>7 DEF ClientReady, CanReceive
<1>8. ASSUME NEW s \in Session, NEW x \in Source, NEW stale \in BOOLEAN,
             StreamFailed(s, x, stale)
      PROVE (RegistryExact /\ SessionsConsistent)'
  BY <1>8 DEF StreamFailed, CanReceive
<1>9. ASSUME NEW s \in Session, TimerExpires(s)
      PROVE (RegistryExact /\ SessionsConsistent)'
  BY <1>9 DEF TimerExpires
<1>10. ASSUME NEW s \in Session, RunExpired(s)
      PROVE (RegistryExact /\ SessionsConsistent)'
  BY <1>10 DEF RunExpired
<1>11. ASSUME NEW s \in Session, NEW x \in Source, RunPosted(s, x)
      PROVE (RegistryExact /\ SessionsConsistent)'
  BY <1>11 DEF RunPosted
<1>12. CASE SendRequest
  <2>1. io.session \in Session /\ io.source \in Source
    BY <1>12 DEF SendRequest
  <2>2. session[io.session].context # NoDevice
    BY <1>12, <2>1, ControlServerAssumption DEF SendRequest, SourcesOwned
  <2> QED BY <1>12, <2>1, <2>2 DEF SendRequest
<1>13. CASE LookUpSession
  BY <1>13 DEF LookUpSession
<1>14. CASE CallRequestStream
  BY <1>14 DEF CallRequestStream
<1>15. CASE CallStopStream
  <2> DEFINE s == call.session  x == call.source
  <2>1. s \in Session /\ x \in Source
    BY <1>15 DEF CallStopStream, NoCall
  <2>2. session[s].context = NoDevice => Overtaken(s, x) = {}
    BY <2>1, ControlServerAssumption DEF Overtaken, SourcesOwned, IoIdle
  <2>3. session' = [session EXCEPT ![s] =
            [session[s] EXCEPT !.told = session[s].told \ {x},
                               !.overtaken = Overtaken(s, x)]]
    BY <1>15 DEF CallStopStream
  <2> QED BY <1>15, <2>1, <2>2, <2>3 DEF CallStopStream
<1>16. CASE CallFreedSession
  BY <1>16 DEF CallFreedSession
<1>17. ASSUME NEW x \in Source, RequestStream(x)
      PROVE (RegistryExact /\ SessionsConsistent)'
  BY <1>17 DEF RequestStream
<1>18. ASSUME NEW x \in Source, StopStream(x)
      PROVE (RegistryExact /\ SessionsConsistent)'
  BY <1>18 DEF StopStream
<1>19. ASSUME NEW success \in BOOLEAN, UpdateCertificate(success)
      PROVE (RegistryExact /\ SessionsConsistent)'
  BY <1>19 DEF UpdateCertificate
<1>20. CASE Restart
  BY <1>20 DEF Restart, NoObject
<1>21. CASE UNCHANGED vars
  BY <1>21 DEF vars
<1> HIDE DEF IInv, TypeInv, TypeOK, SessionState, RegistryExact,
            SessionsConsistent
<1> QED
  BY <1>1, <1>2, <1>3, <1>4, <1>5, <1>6, <1>7, <1>8, <1>9, <1>10, <1>11,
     <1>12, <1>13, <1>14, <1>15, <1>16, <1>17, <1>18, <1>19, <1>20, <1>21
     DEF Next, IoNext, ConnectionNext, MessageNext, RequestNext, CallNext,
         RequestTwice, Crash

\* Owners: what a session keeps comes from the sources of its own context,
\* and a late call of the restream thread asks shouldStream of that context.
LEMMA OwnersNext == IInv /\ [Next]_vars => (SourcesOwned /\ OwnSourcesOnly)'
<1> SUFFICES ASSUME IInv, [Next]_vars PROVE (SourcesOwned /\ OwnSourcesOnly)'
  OBVIOUS
<1> USE DEF IInv, TypeInv, TypeOK, SessionState, SourcesOwned, OwnSourcesOnly
<1>1. ASSUME NEW s \in Session, OnNewConnection(s)
      PROVE (SourcesOwned /\ OwnSourcesOnly)'
  BY <1>1 DEF OnNewConnection
<1>2. ASSUME NEW s \in Session, NEW d \in Device, VerifyClient(s, d)
      PROVE (SourcesOwned /\ OwnSourcesOnly)'
  BY <1>2 DEF VerifyClient
<1>3. ASSUME NEW s \in Session, Reject(s)
      PROVE (SourcesOwned /\ OwnSourcesOnly)'
  BY <1>3 DEF Reject
<1>4. ASSUME NEW s \in Session, Authenticated(s)
      PROVE (SourcesOwned /\ OwnSourcesOnly)'
  BY <1>4, ControlServerAssumption DEF Authenticated, SessionsConsistent
<1>5. ASSUME NEW s \in Session, DestroySession(s)
      PROVE (SourcesOwned /\ OwnSourcesOnly)'
  BY <1>5, ControlServerAssumption DEF DestroySession, NoObject
<1>6. ASSUME NEW s \in Session, EndReading(s)
      PROVE (SourcesOwned /\ OwnSourcesOnly)'
  BY <1>6 DEF EndReading
<1>7. ASSUME NEW s \in Session, ClientReady(s)
      PROVE (SourcesOwned /\ OwnSourcesOnly)'
  BY <1>7 DEF ClientReady, SessionsConsistent, CanReceive
<1>8. ASSUME NEW s \in Session, NEW x \in Source, NEW stale \in BOOLEAN,
             StreamFailed(s, x, stale)
      PROVE (SourcesOwned /\ OwnSourcesOnly)'
  BY <1>8 DEF StreamFailed, Told
<1>9. ASSUME NEW s \in Session, TimerExpires(s)
      PROVE (SourcesOwned /\ OwnSourcesOnly)'
  BY <1>9 DEF TimerExpires
<1>10. ASSUME NEW s \in Session, RunExpired(s)
      PROVE (SourcesOwned /\ OwnSourcesOnly)'
  BY <1>10, ControlServerAssumption DEF RunExpired, CheckStream
<1>11. ASSUME NEW s \in Session, NEW x \in Source, RunPosted(s, x)
      PROVE (SourcesOwned /\ OwnSourcesOnly)'
  BY <1>11 DEF RunPosted, CheckStream
<1>12. CASE SendRequest
  BY <1>12 DEF SendRequest
<1>13. CASE LookUpSession
  BY <1>13 DEF LookUpSession
<1>14. CASE CallRequestStream
  BY <1>14 DEF CallRequestStream, shouldStream
<1>15. CASE CallStopStream
  BY <1>15 DEF CallStopStream
<1>16. CASE CallFreedSession
  BY <1>16 DEF CallFreedSession
<1>17. ASSUME NEW x \in Source, RequestStream(x)
      PROVE (SourcesOwned /\ OwnSourcesOnly)'
  BY <1>17 DEF RequestStream
<1>18. ASSUME NEW x \in Source, StopStream(x)
      PROVE (SourcesOwned /\ OwnSourcesOnly)'
  BY <1>18 DEF StopStream
<1>19. ASSUME NEW success \in BOOLEAN, UpdateCertificate(success)
      PROVE (SourcesOwned /\ OwnSourcesOnly)'
  BY <1>19 DEF UpdateCertificate
<1>20. CASE Restart
  BY <1>20, ControlServerAssumption DEF Restart, NoObject
<1>21. CASE UNCHANGED vars
  BY <1>21 DEF vars
<1> QED
  BY <1>1, <1>2, <1>3, <1>4, <1>5, <1>6, <1>7, <1>8, <1>9, <1>10, <1>11,
     <1>12, <1>13, <1>14, <1>15, <1>16, <1>17, <1>18, <1>19, <1>20, <1>21
     DEF Next, IoNext, ConnectionNext, MessageNext, RequestNext, CallNext,
         RequestTwice, Crash

\* Only the call itself changes the demand while it runs.
LEMMA CallConsistentNext == IInv /\ [Next]_vars => CallConsistent'
<1> SUFFICES ASSUME IInv, [Next]_vars PROVE CallConsistent'
  OBVIOUS
<1> USE DEF IInv, TypeInv, TypeOK, SessionState, CallConsistent
<1>1. ASSUME NEW s \in Session, OnNewConnection(s) PROVE CallConsistent'
  BY <1>1 DEF OnNewConnection
<1>2. ASSUME NEW s \in Session, NEW d \in Device, VerifyClient(s, d)
      PROVE CallConsistent'
  BY <1>2 DEF VerifyClient
<1>3. ASSUME NEW s \in Session, Reject(s) PROVE CallConsistent'
  BY <1>3 DEF Reject
<1>4. ASSUME NEW s \in Session, Authenticated(s) PROVE CallConsistent'
  BY <1>4 DEF Authenticated
<1>5. ASSUME NEW s \in Session, DestroySession(s) PROVE CallConsistent'
  BY <1>5 DEF DestroySession
<1>6. ASSUME NEW s \in Session, EndReading(s) PROVE CallConsistent'
  BY <1>6 DEF EndReading
<1>7. ASSUME NEW s \in Session, ClientReady(s) PROVE CallConsistent'
  BY <1>7 DEF ClientReady
<1>8. ASSUME NEW s \in Session, NEW x \in Source, NEW stale \in BOOLEAN,
             StreamFailed(s, x, stale)
      PROVE CallConsistent'
  BY <1>8 DEF StreamFailed
<1>9. ASSUME NEW s \in Session, TimerExpires(s) PROVE CallConsistent'
  BY <1>9 DEF TimerExpires
<1>10. ASSUME NEW s \in Session, RunExpired(s) PROVE CallConsistent'
  BY <1>10 DEF RunExpired
<1>11. ASSUME NEW s \in Session, NEW x \in Source, RunPosted(s, x)
      PROVE CallConsistent'
  BY <1>11 DEF RunPosted
<1>12. CASE SendRequest
  BY <1>12 DEF SendRequest
<1>13. CASE LookUpSession
  BY <1>13 DEF LookUpSession, NoCall
<1>14. CASE CallRequestStream
  BY <1>14 DEF CallRequestStream, NoCall
<1>15. CASE CallStopStream
  BY <1>15 DEF CallStopStream, NoCall
<1>16. CASE CallFreedSession
  BY <1>16 DEF CallFreedSession, NoCall
<1>17. ASSUME NEW x \in Source, RequestStream(x) PROVE CallConsistent'
  BY <1>17, ControlServerAssumption DEF RequestStream, Begin
<1>18. ASSUME NEW x \in Source, StopStream(x) PROVE CallConsistent'
  BY <1>18, ControlServerAssumption DEF StopStream, Begin
<1>19. ASSUME NEW success \in BOOLEAN, UpdateCertificate(success)
      PROVE CallConsistent'
  BY <1>19 DEF UpdateCertificate
<1>20. CASE Restart
  BY <1>20 DEF Restart, NoCall
<1>21. CASE UNCHANGED vars
  BY <1>21 DEF vars
<1> QED
  BY <1>1, <1>2, <1>3, <1>4, <1>5, <1>6, <1>7, <1>8, <1>9, <1>10, <1>11,
     <1>12, <1>13, <1>14, <1>15, <1>16, <1>17, <1>18, <1>19, <1>20, <1>21
     DEF Next, IoNext, ConnectionNext, MessageNext, RequestNext, CallNext,
         RequestTwice, Crash

\* Orphans: who takes a source away sends StopStream, and who sends a
\* RequestStream has asked for the source, before or after that.
LEMMA OrphanNext == IInv /\ [Next]_vars => (LateRequest /\ NoOrphanStream)'
<1> SUFFICES ASSUME IInv, [Next]_vars PROVE (LateRequest /\ NoOrphanStream)'
  OBVIOUS
<1> USE DEF IInv, TypeInv, TypeOK, SessionState, LateRequest,
   NoOrphanStream, StopPending, shouldStream
<1>1. ASSUME NEW s \in Session, OnNewConnection(s)
      PROVE (LateRequest /\ NoOrphanStream)'
  BY <1>1 DEF OnNewConnection
<1>2. ASSUME NEW s \in Session, NEW d \in Device, VerifyClient(s, d)
      PROVE (LateRequest /\ NoOrphanStream)'
  BY <1>2 DEF VerifyClient
<1>3. ASSUME NEW s \in Session, Reject(s)
      PROVE (LateRequest /\ NoOrphanStream)'
  BY <1>3 DEF Reject
<1>4. ASSUME NEW s \in Session, Authenticated(s)
      PROVE (LateRequest /\ NoOrphanStream)'
  BY <1>4 DEF Authenticated, SessionsConsistent
<1>5. ASSUME NEW s \in Session, DestroySession(s)
      PROVE (LateRequest /\ NoOrphanStream)'
  BY <1>5 DEF DestroySession, NoObject
<1>6. ASSUME NEW s \in Session, EndReading(s)
      PROVE (LateRequest /\ NoOrphanStream)'
  BY <1>6 DEF EndReading
<1>7. ASSUME NEW s \in Session, ClientReady(s)
      PROVE (LateRequest /\ NoOrphanStream)'
  BY <1>7 DEF ClientReady
<1>8. ASSUME NEW s \in Session, NEW x \in Source, NEW stale \in BOOLEAN,
             StreamFailed(s, x, stale)
      PROVE (LateRequest /\ NoOrphanStream)'
  BY <1>8 DEF StreamFailed, Told
<1>9. ASSUME NEW s \in Session, TimerExpires(s)
      PROVE (LateRequest /\ NoOrphanStream)'
  BY <1>9 DEF TimerExpires
<1>10. ASSUME NEW s \in Session, RunExpired(s)
      PROVE (LateRequest /\ NoOrphanStream)'
  BY <1>10 DEF RunExpired, CheckStream
<1>11. ASSUME NEW s \in Session, NEW x \in Source, RunPosted(s, x)
      PROVE (LateRequest /\ NoOrphanStream)'
  BY <1>11 DEF RunPosted, CheckStream
<1>12. CASE SendRequest
  BY <1>12 DEF SendRequest
<1>13. CASE LookUpSession
  BY <1>13, ControlServerAssumption DEF LookUpSession, OwnSourcesOnly,
     SourcesOwned, RegistryExact
<1>14. CASE CallRequestStream
  BY <1>14 DEF CallRequestStream
<1>15. CASE CallStopStream
  BY <1>15 DEF CallStopStream, Overtaken
<1>16. CASE CallFreedSession
  BY <1>16, ControlServerAssumption DEF CallFreedSession, SourcesOwned,
     SessionsConsistent
<1>17. ASSUME NEW x \in Source, RequestStream(x)
      PROVE (LateRequest /\ NoOrphanStream)'
  BY <1>17 DEF RequestStream, NoCall
<1>18. ASSUME NEW x \in Source, StopStream(x)
      PROVE (LateRequest /\ NoOrphanStream)'
  BY <1>18 DEF StopStream, NoCall, Begin
<1>19. ASSUME NEW success \in BOOLEAN, UpdateCertificate(success)
      PROVE (LateRequest /\ NoOrphanStream)'
  BY <1>19 DEF UpdateCertificate
<1>20. CASE Restart
  BY <1>20 DEF Restart, NoObject
<1>21. CASE UNCHANGED vars
  BY <1>21 DEF vars
<1> QED
  BY <1>1, <1>2, <1>3, <1>4, <1>5, <1>6, <1>7, <1>8, <1>9, <1>10, <1>11,
     <1>12, <1>13, <1>14, <1>15, <1>16, <1>17, <1>18, <1>19, <1>20, <1>21
     DEF Next, IoNext, ConnectionNext, MessageNext, RequestNext, CallNext,
         RequestTwice, Crash

\* Demand: a step that takes a request from where it waits sends it, or
\* gives it to the io thread, or finds that nobody wants it.
LEMMA DemandNext == IInv /\ [Next]_vars => DemandCovered'
<1> SUFFICES ASSUME IInv, [Next]_vars PROVE DemandCovered'
  OBVIOUS
<1> USE DEF IInv, TypeInv, TypeOK, SessionState, DemandCovered,
           RequestPending
<1>1. ASSUME NEW s \in Session, OnNewConnection(s) PROVE DemandCovered'
  BY <1>1 DEF OnNewConnection
<1>2. ASSUME NEW s \in Session, NEW d \in Device, VerifyClient(s, d)
      PROVE DemandCovered'
  BY <1>2 DEF VerifyClient
<1>3. ASSUME NEW s \in Session, Reject(s) PROVE DemandCovered'
  BY <1>3 DEF Reject
<1>4. ASSUME NEW s \in Session, Authenticated(s) PROVE DemandCovered'
  BY <1>4 DEF Authenticated, SessionsConsistent
<1>5. ASSUME NEW s \in Session, DestroySession(s) PROVE DemandCovered'
  BY <1>5 DEF DestroySession, NoObject
<1>6. ASSUME NEW s \in Session, EndReading(s) PROVE DemandCovered'
  BY <1>6 DEF EndReading
<1>7. ASSUME NEW s \in Session, ClientReady(s) PROVE DemandCovered'
  BY <1>7 DEF ClientReady
<1>8. ASSUME NEW s \in Session, NEW x \in Source, NEW stale \in BOOLEAN,
             StreamFailed(s, x, stale)
      PROVE DemandCovered'
  BY <1>8, ControlServerAssumption DEF StreamFailed, shouldStream, Told
<1>9. ASSUME NEW s \in Session, TimerExpires(s) PROVE DemandCovered'
  BY <1>9 DEF TimerExpires
<1>10. ASSUME NEW s \in Session, RunExpired(s) PROVE DemandCovered'
  BY <1>10, ControlServerAssumption DEF RunExpired, IoIdle, shouldStream,
     CheckStream
<1>11. ASSUME NEW s \in Session, NEW x \in Source, RunPosted(s, x)
      PROVE DemandCovered'
  BY <1>11, ControlServerAssumption DEF RunPosted, IoIdle, shouldStream,
     CheckStream
<1>12. CASE SendRequest
  BY <1>12 DEF SendRequest
<1>13. CASE LookUpSession
  BY <1>13, ControlServerAssumption DEF LookUpSession, SourcesOwned,
     RegistryExact, SessionsConsistent
<1>14. CASE CallRequestStream
  BY <1>14 DEF CallRequestStream, shouldStream
<1>15. CASE CallStopStream
  BY <1>15 DEF CallStopStream, CallConsistent, SourcesOwned,
     SessionsConsistent
<1>16. CASE CallFreedSession
  BY <1>16 DEF CallFreedSession, SessionsConsistent
<1>17. ASSUME NEW x \in Source, RequestStream(x) PROVE DemandCovered'
  BY <1>17 DEF RequestStream, NoCall, Begin
<1>18. ASSUME NEW x \in Source, StopStream(x) PROVE DemandCovered'
  BY <1>18 DEF StopStream, NoCall
<1>19. ASSUME NEW success \in BOOLEAN, UpdateCertificate(success)
      PROVE DemandCovered'
  BY <1>19 DEF UpdateCertificate
<1>20. CASE Restart
  BY <1>20 DEF Restart, NoObject
<1>21. CASE UNCHANGED vars
  BY <1>21 DEF vars
<1> QED
  BY <1>1, <1>2, <1>3, <1>4, <1>5, <1>6, <1>7, <1>8, <1>9, <1>10, <1>11,
     <1>12, <1>13, <1>14, <1>15, <1>16, <1>17, <1>18, <1>19, <1>20, <1>21
     DEF Next, IoNext, ConnectionNext, MessageNext, RequestNext, CallNext,
         RequestTwice, Crash

-----------------------------------------------------------------------------
LEMMA InvInit == Init => IInv
<1> SUFFICES ASSUME Init PROVE IInv
  OBVIOUS
<1>1. TypeInv
  BY TypeInit
<1> QED
  BY <1>1, ControlServerAssumption
     DEF Init, NoObject, NoCall, IInv, RegistryExact, SessionsConsistent,
         SourcesOwned, OwnSourcesOnly, CallConsistent, LateRequest,
         NoOrphanStream, DemandCovered

LEMMA InvNext == IInv /\ [Next]_vars => IInv'
  BY TypeNext, RegistryNext, OwnersNext, CallConsistentNext, OrphanNext,
     DemandNext
     DEF IInv

LEMMA InvAlways == Spec => []IInv
  BY InvInit, InvNext, PTL DEF Spec

\* In every reachable state the variables hold what their C++ declarations
\* hold, and a session pointer in a call in progress is the address of some
\* ServerSession (Sessions.h:32-44, ServerSession.h:55-69).
THEOREM TypeCorrect == Spec => []TypeOK
<1>1. IInv => TypeOK
  BY DEF IInv, TypeInv
<1> QED BY <1>1, InvAlways, PTL

\* A SessionContext and its active session point to each other or to nobody:
\* no pointer of the registry dangles, however connections come, fail and go
\* (Sessions.cpp:14-32, ServerSession.cpp:44-55, 99-107).
THEOREM RegistryIsExact == Spec => []RegistryExact
<1>1. IInv => RegistryExact
  BY DEF IInv
<1> QED BY <1>1, InvAlways, PTL

\* No device box is ever asked for a camera of another one, also by a call
\* whose session was replaced at the same address (Server.cpp:168-173).
THEOREM AskedForItsOwn == Spec => []OwnSourcesOnly
<1>1. IInv => OwnSourcesOnly
  BY DEF IInv
<1> QED BY <1>1, InvAlways, PTL

\* No camera is left streaming for nobody: the last word a box gets about a
\* source that is not active is StopStream, but for the race of
\* ServerSession.cpp:269-279 (Server.cpp:180-198).
THEOREM NobodyStreamsForNobody == Spec => []NoOrphanStream
<1>1. IInv => NoOrphanStream
  BY DEF IInv
<1> QED BY <1>1, InvAlways, PTL

\* No wanted camera of a ready box is forgotten: it has been requested, a
\* request is on its way, or the shared timer dropped its retry
\* (ServerSession.cpp:211-281, Server.cpp:159-178).
THEOREM DemandIsCovered == Spec => []DemandCovered
<1>1. IInv => DemandCovered
  BY DEF IInv
<1> QED BY <1>1, InvAlways, PTL

=============================================================================
