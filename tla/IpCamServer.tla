---------------------------- MODULE IpCamServer ----------------------------
(***************************************************************************)
(* The server process of ServerMain.cpp: the restream server and the       *)
(* control server in one process, wired by two callbacks.  The first       *)
(* reader of a path makes the control server request the stream of its     *)
(* source, the last one makes it stop the stream.  Both callbacks run to   *)
(* their end on the restream thread before it does anything else, while    *)
(* the io thread goes on.                                                  *)
(***************************************************************************)
CONSTANTS Device, Source, Session, Path, Owner, SourceOf, NDEBUG,
          NoDevice, NoSource, NoSession

ASSUME IpCamServerAssumption ==
    /\ SourceOf \in [Path -> Source]
    /\ Owner \in [Source -> Device]
    /\ NDEBUG \in BOOLEAN
    /\ NoDevice \notin Device
    /\ NoSource \notin Source
    /\ NoSession \notin Session

VARIABLES valid, session, activeSession, activeSources, io, call,
          pathsInfo, playing, recording, players, recorders

Control == INSTANCE ControlServer
Restream == INSTANCE RestreamServer

controlVars == <<valid, session, activeSession, activeSources, io, call>>
restreamVars == <<pathsInfo, playing, recording, players, recorders>>
vars == <<controlVars, restreamVars>>

TypeOK == Control!TypeOK /\ Restream!TypeOK

Init == Control!Init /\ Restream!Init

\* firstReaderConnected.
FirstPlayerConnected(p) ==
    /\ Restream!FirstPlayerConnected(p)
    /\ Control!RequestStream(SourceOf[p])

\* lastReaderDisconnected, with the source of the path's entry.
LastPlayerDisconnected(p) ==
    /\ Restream!LastPlayerDisconnected(p)
    /\ Control!StopStream(pathsInfo[p].sourceId)

\* The callbacks of the library that stay inside the restream server.
OtherCallback(p) ==
    /\ call = Control!NoCall
    /\ Restream!QuietNext(p)
    /\ UNCHANGED controlVars

Background ==
    /\ Control!IoNext \/ Control!CallNext
    /\ UNCHANGED restreamVars

\* Any fatal step of either part takes both down.
ControlCrash == Control!Crash /\ Restream!Restart

RequestTwice(p) ==
    /\ p \notin playing
    /\ Control!RequestTwice(SourceOf[p])
    /\ Restream!Restart

RestreamCrash ==
    /\ call = Control!NoCall
    /\ Restream!Crash
    /\ Control!Restart

Next ==
    \/ Background
    \/ \E p \in Path :
        \/ FirstPlayerConnected(p)
        \/ LastPlayerDisconnected(p)
        \/ OtherCallback(p)
        \/ RequestTwice(p)
    \/ ControlCrash
    \/ RestreamCrash

Spec == Init /\ [][Next]_vars

-----------------------------------------------------------------------------
(***************************************************************************)
(* Fairness.  Each thread keeps running.  The handlers queued on the       *)
(* io_service are run in the order they were queued, so one that is ready  *)
(* again and again is run although others run in between (SF).  A session  *)
(* without a pending operation is destroyed by its last shared_ptr.  A box *)
(* that has connected and stays connected sends ClientReady                *)
(* (DeviceBox/Client.cpp:246-288).  Nothing is assumed of viewers, of the  *)
(* network or of streams that fail.                                        *)
(***************************************************************************)
Step(A) == A /\ UNCHANGED restreamVars

Fairness ==
    /\ WF_vars(Step(Control!CallNext))
    /\ WF_vars(Step(Control!SendRequest))
    /\ \A s \in Session :
        /\ WF_vars(Step(Control!DestroySession(s)))
        /\ WF_vars(Step(Control!TimerExpires(s)))
        /\ SF_vars(Step(Control!RunExpired(s)))
        /\ SF_vars(Step(~session[s].ready /\ Control!ClientReady(s)))
        /\ \A x \in Source : SF_vars(Step(Control!RunPosted(s, x)))

FairSpec == Spec /\ Fairness

-----------------------------------------------------------------------------
(***************************************************************************)
(* Properties.                                                             *)
(***************************************************************************)

\* Cameras with a path that has players.
watched == {pathsInfo[p].sourceId :
                p \in {q \in DOMAIN pathsInfo : pathsInfo[q].hasPlayers}}

\* The two halves of the server agree on the demand, whatever connects, fails
\* or crashes: a source is active in its device's SessionContext exactly when
\* some path of it has players (Server.cpp:351-407 of RestreamServer,
\* Sessions.cpp:34-55, ServerMain.cpp:32-42).
DemandIsPlayers ==
    \A d \in Device : activeSources[d] = {x \in watched : Owner[x] = d}

\* A path has an entry exactly as long as a player or a recorder of it is
\* there that was reported and whose source was found, and the entry says which
\* of the two and of which camera: none is erased while the other one stays or
\* after a failed lookup of the path, and none is left behind (Server.cpp:
\* 351-458 of RestreamServer).
EntriesExact ==
    /\ TypeOK
    /\ pathsInfo =
          [p \in players \cup recorders |->
              [deviceId |-> Owner[SourceOf[p]], sourceId |-> SourceOf[p],
               hasPlayers |-> p \in players, hasRecorder |-> p \in recorders]]
    /\ players \subseteq playing
    /\ recorders \subseteq recording

\* The assertion of SessionContext::streamRequested (Sessions.cpp:42): a
\* source is requested by its first reader only, so never while it is active.
NeverRequestedTwice ==
    [][\A p \in Path : ~RequestTwice(p)]_vars

onlineDevices == {d \in Device : activeSession[d] # NoSession}

\* What the io thread has found wanted and not yet sent.
decidedStreams ==
    {x \in Source : \E d \in onlineDevices :
                        io = [session |-> activeSession[d], source |-> x]}

toldStreams == UNION {session[activeSession[d]].told : d \in onlineDevices}

Demand == INSTANCE StreamDemand WITH
    wanted <- watched,
    online <- onlineDevices,
    decided <- decidedStreams,
    told <- toldStreams

\* The server implements the abstract demand (Server.cpp:159-198,
\* ServerSession.cpp:211-289, RestreamServer/Server.cpp:351-407): no box is
\* told to stream what nobody watches, or watched when that was decided.
ImplementsDemand == Demand!Spec

\* A viewer of a camera whose box is connected, and stays so, gets the box
\* told to stream, also when the box connected later, answered with a failure
\* or was being asked while it reconnected (ServerSession.cpp:211-281).
WatchedIsTold == Demand!WatchedIsTold

=============================================================================
