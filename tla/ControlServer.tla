--------------------------- MODULE ControlServer ---------------------------
(***************************************************************************)
(* The control server of Server/ControlServer: it accepts the TLS          *)
(* connections of the device boxes, keeps one SessionContext per device    *)
(* and asks the connected device to start and stop streams.                *)
(*                                                                         *)
(* Two threads share this state without a lock.  The io thread             *)
(* (io_service::run, ServerMain.cpp:57) runs accepts, handshakes, reads,   *)
(* posted handlers and timers, one handler at a time.  The restream thread *)
(* (RestreamServer/Server.cpp:97) calls requestStream and stopStream.      *)
(* A step of the model is a stretch of one thread between two accesses     *)
(* that the other thread can tell apart; a step itself (one access to a    *)
(* map or a pointer, one message handed to the socket) is atomic.          *)
(*                                                                         *)
(* A Session is the address of a ServerSession object, so an address freed *)
(* by one connection can be the address of a later one.                    *)
(***************************************************************************)
CONSTANTS
    Device,     \* device ids
    Source,     \* source ids (cameras)
    Session,    \* addresses of ServerSession objects
    Owner,      \* the device a source belongs to
    NDEBUG,     \* TRUE when the build drops assert()
    NoDevice, NoSource, NoSession

ASSUME ControlServerAssumption ==
    /\ Owner \in [Source -> Device]
    /\ NDEBUG \in BOOLEAN
    /\ NoDevice \notin Device
    /\ NoSource \notin Source
    /\ NoSession \notin Session

VARIABLES
    valid,          \* ServerSecureContext::_valid
    session,        \* the ServerSession objects, see SessionState
    activeSession,  \* SessionContext::_activeSession of each device
    activeSources,  \* the keys of SessionContext::_activeSources
    io,             \* the requestStream the io thread is in the middle of
    call            \* the requestStream or stopStream of the restream thread

vars == <<valid, session, activeSession, activeSources, io, call>>

SessionState == [
    phase : {"none", "handshake", "reading", "over"}, \* what keeps it alive
    deviceId : Device \cup {NoDevice},  \* _deviceId
    context : Device \cup {NoDevice},   \* whose context _sessionContext is
    posted : SUBSET Source,             \* requestStream handlers in the queue
    timer : Source \cup {NoSource},     \* what _requestStreamTimer waits with
    expired : Source \cup {NoSource},   \* its expired handler, in the queue
    told : SUBSET Source,     \* the last word sent on these is RequestStream
    ready : BOOLEAN,          \* history: the device has sent ClientReady
    overtaken : SUBSET Source,\* history: a StopStream was sent while the io
                              \* thread had decided on a RequestStream
    replaced : SUBSET Source  \* history: the retry was dropped for another's
  ]

NoObject == [phase |-> "none", deviceId |-> NoDevice, context |-> NoDevice,
             posted |-> {}, timer |-> NoSource, expired |-> NoSource,
             told |-> {}, ready |-> FALSE, overtaken |-> {},
             replaced |-> {}]

IoIdle == [session |-> NoSession, source |-> NoSource]
NoCall == [op |-> "none", step |-> "none", source |-> NoSource,
           session |-> NoSession]

TypeOK ==
    /\ valid \in BOOLEAN
    /\ session \in [Session -> SessionState]
    /\ activeSession \in [Device -> Session \cup {NoSession}]
    /\ activeSources \in [Device -> SUBSET Source]
    /\ io \in {IoIdle} \cup [session : Session, source : Source]
    /\ call \in {NoCall} \cup
         [op : {"request", "stop"}, step : {"lookup"},
          source : Source, session : {NoSession}] \cup
         [op : {"request", "stop"}, step : {"send"},
          source : Source, session : Session]

\* A fresh process.  The ServerSecureContext may fail and stay invalid.
Init ==
    /\ valid \in BOOLEAN
    /\ session = [s \in Session |-> NoObject]
    /\ activeSession = [d \in Device |-> NoSession]
    /\ activeSources = [d \in Device |-> {}]
    /\ io = IoIdle
    /\ call = NoCall

\* The process dies and systemd starts it again (Restart=always).
Restart ==
    /\ valid' \in BOOLEAN
    /\ session' = [s \in Session |-> NoObject]
    /\ activeSession' = [d \in Device |-> NoSession]
    /\ activeSources' = [d \in Device |-> {}]
    /\ io' = IoIdle
    /\ call' = NoCall

-----------------------------------------------------------------------------
(***************************************************************************)
(* The io thread: certificates and connections.                            *)
(***************************************************************************)

\* The certificate timer; a failure clears _valid and nothing sets it again.
UpdateCertificate(success) ==
    /\ io = IoIdle
    /\ valid' = (valid /\ success)
    /\ UNCHANGED <<session, activeSession, activeSources, io, call>>

OnNewConnection(s) ==
    /\ io = IoIdle
    /\ valid
    /\ session[s].phase = "none"
    /\ session' = [session EXCEPT ![s].phase = "handshake"]
    /\ UNCHANGED <<valid, activeSession, activeSources, io, call>>

\* The device certificate is accepted during the handshake.
VerifyClient(s, d) ==
    /\ io = IoIdle
    /\ session[s].phase = "handshake"
    /\ session[s].deviceId = NoDevice
    /\ session' = [session EXCEPT ![s].deviceId = d]
    /\ UNCHANGED <<valid, activeSession, activeSources, io, call>>

\* onConnected returns early: the handshake failed, findDevice does not know
\* the device, or the device has an active session already.
Reject(s) ==
    /\ io = IoIdle
    /\ session[s].phase = "handshake"
    /\ session' = [session EXCEPT ![s].phase = "over"]
    /\ UNCHANGED <<valid, activeSession, activeSources, io, call>>

\* Mutant: a device that reconnects is not checked for its old session.
AuthenticatedTwice(s) ==
    LET d == session[s].deviceId IN
    /\ io = IoIdle
    /\ session[s].phase = "handshake"
    /\ d # NoDevice
    /\ session' = [session EXCEPT
            ![s] = [@ EXCEPT !.context = d, !.phase = "reading"]]
    /\ activeSession' = [activeSession EXCEPT ![d] = s]
    /\ UNCHANGED <<valid, activeSources, io, call>>

Authenticated(s) ==
    LET d == session[s].deviceId IN
    /\ io = IoIdle
    /\ session[s].phase = "handshake"
    /\ d # NoDevice
    /\ activeSession[d] = NoSession
    /\ session' = [session EXCEPT
            ![s] = [@ EXCEPT !.context = d, !.phase = "reading"]]
    /\ activeSession' = [activeSession EXCEPT ![d] = s]
    /\ UNCHANGED <<valid, activeSources, io, call>>

\* ~ServerSession.  The wait of _requestStreamTimer dies with it; a handler
\* that is queued already is left with a dangling this (see Crash).
DestroySession(s) ==
    /\ io = IoIdle
    /\ session[s].phase = "over"
    /\ session[s].deviceId = NoDevice \/ session[s].context # NoDevice
    /\ session' = [session EXCEPT ![s] = NoObject]
    /\ activeSession' = [d \in Device |->
            IF d = session[s].context THEN NoSession ELSE activeSession[d]]
    /\ UNCHANGED <<valid, activeSources, io, call>>

-----------------------------------------------------------------------------
(***************************************************************************)
(* The io thread: messages of the device.  ClientGreeting and              *)
(* ClientConfigRequest are answered from the configuration and change      *)
(* nothing here.  The handlers ClientReady posts are queued before the     *)
(* next read is started, so they run before the next message.              *)
(***************************************************************************)
CanReceive(s) ==
    /\ io = IoIdle
    /\ session[s].phase = "reading"
    /\ session[s].posted = {}

\* A read fails, or (NDEBUG) the message cannot be parsed: no further read.
EndReading(s) ==
    /\ CanReceive(s)
    /\ session' = [session EXCEPT ![s].phase = "over"]
    /\ UNCHANGED <<valid, activeSession, activeSources, io, call>>

\* Mutant: what was requested while the device was away is not restored.
ClientReadyAfresh(s) ==
    /\ CanReceive(s)
    /\ session' = [session EXCEPT ![s] =
            [@ EXCEPT !.ready = TRUE, !.replaced = {}]]
    /\ UNCHANGED <<valid, activeSession, activeSources, io, call>>

ClientReady(s) ==
    /\ CanReceive(s)
    /\ session' = [session EXCEPT ![s] =
            [@ EXCEPT !.posted = activeSources[session[s].context],
                      !.ready = TRUE,
                      !.replaced = {}]]
    /\ UNCHANGED <<valid, activeSession, activeSources, io, call>>

\* shouldStream of the context of s.
shouldStream(s, x) == x \in activeSources[session[s].context]

\* What the device still has to answer after it reports that x failed: the
\* report may be about an older request than the last one (stale).
Told(s, x, stale) == IF stale THEN session[s].told ELSE session[s].told \ {x}

\* The device reports that its camera x is not streaming.  expires_from_now
\* drops a wait that is pending, whichever camera it was for.
StreamFailed(s, x, stale) ==
    /\ CanReceive(s)
    /\ Owner[x] = session[s].context
    /\ session' = [session EXCEPT ![s] =
            IF shouldStream(s, x)
            THEN [@ EXCEPT !.told = Told(s, x, stale),
                           !.timer = x,
                           !.replaced = (session[s].replaced \cup
                                          {session[s].timer}) \ {x, NoSource}]
            ELSE [@ EXCEPT !.told = Told(s, x, stale)]]
    /\ UNCHANGED <<valid, activeSession, activeSources, io, call>>

\* The wait ends: its handler is queued, and runs within the next ten seconds.
TimerExpires(s) ==
    /\ session[s].timer # NoSource
    /\ session[s].expired = NoSource
    /\ session' = [session EXCEPT ![s] =
            [@ EXCEPT !.expired = session[s].timer, !.timer = NoSource]]
    /\ UNCHANGED <<valid, activeSession, activeSources, io, call>>

-----------------------------------------------------------------------------
(***************************************************************************)
(* ServerSession::requestStream on the io thread: shouldStream is asked,   *)
(* then the message is sent.  The restream thread can run in between.      *)
(***************************************************************************)
\* Mutant: the queued handler sends without asking shouldStream again.
CheckNothing(s, x) == io' = [session |-> s, source |-> x]

CheckStream(s, x) ==
    io' = IF shouldStream(s, x) THEN [session |-> s, source |-> x] ELSE io

RunPosted(s, x) ==
    /\ io = IoIdle
    /\ x \in session[s].posted
    /\ session' = [session EXCEPT ![s].posted = @ \ {x}]
    /\ CheckStream(s, x)
    /\ UNCHANGED <<valid, activeSession, activeSources, call>>

RunExpired(s) ==
    /\ io = IoIdle
    /\ session[s].expired # NoSource
    /\ session' = [session EXCEPT ![s].expired = NoSource]
    /\ CheckStream(s, session[s].expired)
    /\ UNCHANGED <<valid, activeSession, activeSources, call>>

SendRequest ==
    /\ io # IoIdle
    /\ session' = [session EXCEPT ![io.session].told = @ \cup {io.source}]
    /\ io' = IoIdle
    /\ UNCHANGED <<valid, activeSession, activeSources, call>>

-----------------------------------------------------------------------------
(***************************************************************************)
(* The restream thread: Server::requestStream and Server::stopStream.      *)
(* The map is changed, then activeSession() is read, then the session is   *)
(* used.  The destination is a function of the source (ServerMain.cpp:37)  *)
(* and is left out.                                                        *)
(***************************************************************************)
Begin(op, x) == call' = [op |-> op, step |-> "lookup", source |-> x,
                         session |-> NoSession]

\* A source that is active already fails the assert of streamRequested; with
\* NDEBUG the old entry stays.
RequestStream(x) ==
    /\ call = NoCall
    /\ NDEBUG \/ x \notin activeSources[Owner[x]]
    /\ activeSources' = [activeSources EXCEPT ![Owner[x]] = @ \cup {x}]
    /\ Begin("request", x)
    /\ UNCHANGED <<valid, session, activeSession, io>>

\* Mutant: the demand of a device without a session is left as it is.
StopStreamOnline(x) ==
    /\ call = NoCall
    /\ activeSources' = IF activeSession[Owner[x]] = NoSession
                        THEN activeSources
                        ELSE [activeSources EXCEPT ![Owner[x]] = @ \ {x}]
    /\ Begin("stop", x)
    /\ UNCHANGED <<valid, session, activeSession, io>>

StopStream(x) ==
    /\ call = NoCall
    /\ activeSources' = [activeSources EXCEPT ![Owner[x]] = @ \ {x}]
    /\ Begin("stop", x)
    /\ UNCHANGED <<valid, session, activeSession, io>>

\* Mutant: the session that activeSession() returns is not checked.
LookUpSessionUnchecked ==
    /\ call.step = "lookup"
    /\ call' = [call EXCEPT !.step = "send",
                           !.session = activeSession[Owner[call.source]]]
    /\ UNCHANGED <<valid, session, activeSession, activeSources, io>>

LookUpSession ==
    LET s == activeSession[Owner[call.source]] IN
    /\ call.step = "lookup"
    /\ call' = IF s = NoSession
               THEN NoCall
               ELSE [call EXCEPT !.step = "send", !.session = s]
    /\ UNCHANGED <<valid, session, activeSession, activeSources, io>>

\* Mutant: the message goes to the session without asking shouldStream.
CallRequestStreamUnchecked ==
    LET s == call.session  x == call.source IN
    /\ call.step = "send" /\ call.op = "request"
    /\ session[s].context # NoDevice
    /\ session' = [session EXCEPT ![s].told = @ \cup {x}]
    /\ call' = NoCall
    /\ UNCHANGED <<valid, activeSession, activeSources, io>>

\* ServerSession::requestStream on whatever session has the address now.
CallRequestStream ==
    LET s == call.session  x == call.source IN
    /\ call.step = "send" /\ call.op = "request"
    /\ session[s].context # NoDevice
    /\ session' = IF shouldStream(s, x)
                  THEN [session EXCEPT ![s].told = @ \cup {x}]
                  ELSE session
    /\ call' = NoCall
    /\ UNCHANGED <<valid, activeSession, activeSources, io>>

\* The history of a StopStream for x: did it pass a RequestStream?
Overtaken(s, x) ==
    IF io = [session |-> s, source |-> x] THEN session[s].overtaken \cup {x}
                                          ELSE session[s].overtaken \ {x}

CallStopStream ==
    LET s == call.session  x == call.source IN
    /\ call.step = "send" /\ call.op = "stop"
    /\ session[s].phase # "none"
    /\ session' = [session EXCEPT ![s] =
            [@ EXCEPT !.told = session[s].told \ {x},
                      !.overtaken = Overtaken(s, x)]]
    /\ call' = NoCall
    /\ UNCHANGED <<valid, activeSession, activeSources, io>>

\* The session was freed after activeSession() was read: undefined, and one
\* outcome is that the message goes nowhere (see also Crash).
CallFreedSession ==
    /\ call.step = "send"
    /\ session[call.session].phase = "none"
    /\ call' = NoCall
    /\ UNCHANGED <<valid, session, activeSession, activeSources, io>>

-----------------------------------------------------------------------------
(***************************************************************************)
(* The ways the process dies.                                              *)
(***************************************************************************)

\* ~ServerSession of a session that has a device id and no context: the
\* assert fails, and with NDEBUG destroyed() runs on a null pointer.
DestroysWithoutContext(s) ==
    /\ io = IoIdle
    /\ session[s].phase = "over"
    /\ session[s].deviceId # NoDevice
    /\ session[s].context = NoDevice

\* The queued timer handler of a destroyed session touches freed memory.
DestroysBeforeTimerHandler(s) ==
    /\ io = IoIdle
    /\ session[s].phase = "over"
    /\ session[s].expired # NoSource

\* parseMessage asserts on an unknown or malformed message.
GetsUnknownMessage(s) == CanReceive(s) /\ ~NDEBUG

\* The restream thread uses a freed session, or one that took its address
\* and has no context yet.
UsesFreedSession ==
    /\ call.step = "send"
    /\ \/ session[call.session].phase = "none"
       \/ call.op = "request" /\ session[call.session].context = NoDevice

Crash ==
    /\ \/ UsesFreedSession
       \/ \E s \in Session : \/ DestroysWithoutContext(s)
                             \/ DestroysBeforeTimerHandler(s)
                             \/ GetsUnknownMessage(s)
    /\ Restart

\* streamRequested asserts that the source is not active.
RequestTwice(x) ==
    /\ call = NoCall
    /\ x \in activeSources[Owner[x]]
    /\ ~NDEBUG
    /\ Restart

-----------------------------------------------------------------------------
ConnectionNext(s) ==
    \/ OnNewConnection(s)
    \/ \E d \in Device : VerifyClient(s, d)
    \/ Reject(s)
    \/ Authenticated(s)
    \/ DestroySession(s)

MessageNext(s) ==
    \/ EndReading(s)
    \/ ClientReady(s)
    \/ \E x \in Source, stale \in BOOLEAN : StreamFailed(s, x, stale)

RequestNext(s) ==
    \/ TimerExpires(s)
    \/ RunExpired(s)
    \/ \E x \in Source : RunPosted(s, x)

IoNext ==
    \/ \E success \in BOOLEAN : UpdateCertificate(success)
    \/ SendRequest
    \/ \E s \in Session : ConnectionNext(s) \/ MessageNext(s) \/ RequestNext(s)

\* The calls of the restream thread after their first step.
CallNext ==
    \/ LookUpSession
    \/ CallRequestStream
    \/ CallStopStream
    \/ CallFreedSession

Next ==
    \/ IoNext
    \/ CallNext
    \/ \E x \in Source : RequestStream(x) \/ StopStream(x) \/ RequestTwice(x)
    \/ Crash

Spec == Init /\ [][Next]_vars

-----------------------------------------------------------------------------
(***************************************************************************)
(* Properties.                                                             *)
(***************************************************************************)

\* The registry of Sessions is exact: a SessionContext points to a session
\* exactly as long as that session points back to it, the session is one that
\* finished its handshake, and a device never has two (Sessions.cpp:14-32,
\* ServerSession.cpp:44-55, 99-107).  In particular _activeSession never
\* dangles, whatever connects, is refused, fails or is destroyed.
RegistryExact ==
    /\ \A d \in Device : LET s == activeSession[d] IN
          s # NoSession => /\ session[s].phase \in {"reading", "over"}
                           /\ session[s].context = d
                           /\ session[s].deviceId = d
    /\ \A s \in Session : LET d == session[s].context IN
          d # NoDevice => activeSession[d] = s

\* A StopStream for x is still to be sent to s by the restream thread.
StopPending(s, x) ==
    /\ call.op = "stop" /\ call.source = x
    /\ call.step = "lookup" \/ call.session = s

\* A camera nobody watches does not keep streaming: the last word the device
\* gets on a source that is not active is StopStream (Server.cpp:180-198).
\* The one exception is the window of ServerSession.cpp:269-279, when the io
\* thread has found the source active and the restream thread takes it away
\* and sends StopStream before the io thread sends its RequestStream.
NoOrphanStream ==
    \A s \in Session : \A x \in session[s].told :
        shouldStream(s, x) \/ StopPending(s, x) \/ x \in session[s].overtaken

\* A RequestStream for x is on its way to the device of s.
RequestPending(s, x) ==
    \/ x \in session[s].posted \cup {session[s].timer, session[s].expired}
    \/ io = [session |-> s, source |-> x]
    \/ /\ call.op = "request" /\ call.source = x
       /\ call.step = "lookup" \/ call.session = s

\* A watched camera is not forgotten: once the device has sent ClientReady,
\* every active source of it has been requested on this connection and not
\* reported failed since, or a request for it is on its way, across
\* reconnects, failures and requests made while the device was away
\* (Server.cpp:159-178, ServerSession.cpp:211-261).  The one exception: the
\* cameras of a device share one retry timer (ServerSession.cpp:251), and the
\* failure of one takes it away from another.
DemandCovered ==
    \A s \in Session : session[s].ready =>
        \A x \in activeSources[session[s].context] :
            \/ x \in session[s].told
            \/ RequestPending(s, x)
            \/ x \in session[s].replaced

\* A device box is only ever asked for its own cameras, also when the
\* restream thread uses a session pointer whose object has been replaced
\* (Server.cpp:169-172).
OwnSourcesOnly ==
    \A s \in Session : \A x \in session[s].told \cup session[s].posted :
        Owner[x] = session[s].context

\* The assertion of ~ServerSession (ServerSession.cpp:46): a session that is
\* about to be destroyed has a device id exactly when it has a context.
DestructorAssertion ==
    \A s \in Session : session[s].phase = "over" =>
        (session[s].deviceId = NoDevice) = (session[s].context = NoDevice)

=============================================================================
