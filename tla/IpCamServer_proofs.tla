------------------------- MODULE IpCamServer_proofs -------------------------
(***************************************************************************)
(* Proofs about IpCamServer, for any boxes, cameras, sessions and paths.   *)
(* The control server in it is the one ControlServer_proofs is about: its  *)
(* inductive invariant is taken over, and what is shown here is what the   *)
(* two halves owe each other.                                              *)
(***************************************************************************)
EXTENDS IpCamServer, TLAPS

Proved == INSTANCE ControlServer_proofs

\* Either assertions are compiled in, as in the repository's own build, or
\* no camera is reached under two paths.  Without both, the demand of the two
\* halves differs (see NeverRequestedTwice).
UnambiguousDemand ==
    \/ ~NDEBUG
    \/ \A p, q \in Path : SourceOf[p] = SourceOf[q] => p = q

HasPlayers(p) == p \in DOMAIN pathsInfo /\ pathsInfo[p].hasPlayers

\* An entry keeps what extractSourceId and findSource said of its path, and is
\* there exactly for the players and the recorder whose source was found.
EntriesConsistent ==
    /\ \A p \in DOMAIN pathsInfo : LET i == pathsInfo[p] IN
        /\ i.sourceId = SourceOf[p]
        /\ i.deviceId = Owner[SourceOf[p]]
        /\ i.hasPlayers <=> p \in players
        /\ i.hasRecorder <=> p \in recorders
    /\ DOMAIN pathsInfo = players \cup recorders
    /\ players \subseteq playing
    /\ recorders \subseteq recording

\* The assertion of streamRequested lets only one path of a camera have
\* players.
OnePathWatched ==
    \A p, q \in Path :
        HasPlayers(p) /\ HasPlayers(q) /\ SourceOf[p] = SourceOf[q] => p = q

\* The inductive invariants: of the entries, in either build, and of the
\* demand.
EntriesInv == Restream!TypeOK /\ EntriesConsistent

DemandInv ==
    /\ EntriesInv
    /\ Proved!IInv
    /\ OnePathWatched
    /\ DemandIsPlayers

-----------------------------------------------------------------------------
(***************************************************************************)
(* The two instances of ControlServer have the same steps.                 *)
(***************************************************************************)

\* What ControlServer_proofs assumes of the constants.
LEMMA ControlAssumption == Proved!ControlServerAssumption
  BY IpCamServerAssumption DEF Proved!ControlServerAssumption

LEMMA SameInit ==
  /\ Control!Init = Proved!Init
  /\ Control!Restart = Proved!Restart
  BY DEF Control!Init, Proved!Init, Control!Restart, Proved!Restart,
         Control!NoObject, Proved!NoObject, Control!IoIdle, Proved!IoIdle,
         Control!NoCall, Proved!NoCall

LEMMA SameType == Control!TypeOK = Proved!TypeOK
  BY DEF Control!TypeOK, Proved!TypeOK, Control!SessionState,
         Proved!SessionState, Control!IoIdle, Proved!IoIdle,
         Control!NoCall, Proved!NoCall

LEMMA SameIoNext == Control!IoNext = Proved!IoNext
  BY DEF Control!IoNext, Proved!IoNext,
         Control!UpdateCertificate, Proved!UpdateCertificate,
         Control!SendRequest, Proved!SendRequest,
         Control!ConnectionNext, Proved!ConnectionNext,
         Control!OnNewConnection, Proved!OnNewConnection,
         Control!VerifyClient, Proved!VerifyClient,
         Control!Reject, Proved!Reject,
         Control!Authenticated, Proved!Authenticated,
         Control!DestroySession, Proved!DestroySession,
         Control!MessageNext, Proved!MessageNext,
         Control!EndReading, Proved!EndReading,
         Control!ClientReady, Proved!ClientReady,
         Control!StreamFailed, Proved!StreamFailed,
         Control!RequestNext, Proved!RequestNext,
         Control!TimerExpires, Proved!TimerExpires,
         Control!RunExpired, Proved!RunExpired,
         Control!RunPosted, Proved!RunPosted,
         Control!CanReceive, Proved!CanReceive, Control!Told, Proved!Told,
         Control!shouldStream, Proved!shouldStream,
         Control!CheckStream, Proved!CheckStream,
         Control!IoIdle, Proved!IoIdle, Control!NoObject, Proved!NoObject

LEMMA SameCallNext == Control!CallNext = Proved!CallNext
  BY DEF Control!CallNext, Proved!CallNext,
         Control!LookUpSession, Proved!LookUpSession,
         Control!CallRequestStream, Proved!CallRequestStream,
         Control!CallStopStream, Proved!CallStopStream,
         Control!CallFreedSession, Proved!CallFreedSession,
         Control!Overtaken, Proved!Overtaken,
         Control!shouldStream, Proved!shouldStream,
         Control!IoIdle, Proved!IoIdle, Control!NoCall, Proved!NoCall

LEMMA SameCall ==
  ASSUME NEW x \in Source
  PROVE  /\ Control!RequestStream(x) = Proved!RequestStream(x)
         /\ Control!StopStream(x) = Proved!StopStream(x)
  BY DEF Control!RequestStream, Proved!RequestStream,
         Control!StopStream, Proved!StopStream, Control!Begin, Proved!Begin,
         Control!NoCall, Proved!NoCall

\* Whatever restarts the server, the control server begins afresh.
LEMMA ControlRestart == Control!Restart => Proved!IInv'
<1> SUFFICES ASSUME Control!Restart PROVE Proved!IInv'
  OBVIOUS
<1>1. Proved!Restart
  BY SameInit
<1>2. Proved!TypeInv'
  BY <1>1, ControlAssumption, Proved!TypeRestart
<1> QED
  BY <1>1, <1>2, ControlAssumption
     DEF Proved!Restart, Proved!NoObject, Proved!NoCall, Proved!IInv,
         Proved!RegistryExact, Proved!SessionsConsistent,
         Proved!SourcesOwned, Proved!OwnSourcesOnly, Proved!CallConsistent,
         Proved!LateRequest, Proved!NoOrphanStream, Proved!DemandCovered,
         Proved!ControlServerAssumption

\* A step of the server is a step of the control server, or leaves it alone,
\* or restarts it.
LEMMA StepsControl ==
  ASSUME Restream!TypeOK, [Next]_vars
  PROVE  [Proved!Next]_(Proved!vars) \/ Control!Restart
<1>1. CASE Background
  BY <1>1, SameIoNext, SameCallNext DEF Background, Proved!Next
<1>2. ASSUME NEW p \in Path, FirstPlayerConnected(p)
      PROVE  Proved!Next
  <2>1. SourceOf[p] \in Source
    BY IpCamServerAssumption
  <2> QED BY <1>2, <2>1, SameCall DEF FirstPlayerConnected, Proved!Next
<1>3. ASSUME NEW p \in Path, LastPlayerDisconnected(p)
      PROVE  Proved!Next
  <2>1. pathsInfo[p].sourceId \in Source
    BY <1>3 DEF LastPlayerDisconnected, Restream!LastPlayerDisconnected,
                Restream!Known, Restream!TypeOK, Restream!PathInfo
  <2> QED BY <1>3, <2>1, SameCall DEF LastPlayerDisconnected, Proved!Next
<1>4. ASSUME NEW p \in Path, OtherCallback(p)
      PROVE  UNCHANGED Proved!vars
  BY <1>4 DEF OtherCallback, controlVars, Proved!vars
<1>5. ASSUME NEW p \in Path, RequestTwice(p)
      PROVE  Control!Restart
  BY <1>5 DEF RequestTwice, Control!RequestTwice
<1>6. CASE ControlCrash \/ RestreamCrash
  BY <1>6 DEF ControlCrash, RestreamCrash, Control!Crash
<1>7. CASE UNCHANGED vars
  BY <1>7 DEF vars, controlVars, Proved!vars
<1> QED BY <1>1, <1>2, <1>3, <1>4, <1>5, <1>6, <1>7 DEF Next

\* The invariants of the control server hold in the whole server.
LEMMA ControlInit == Init => Proved!IInv
  BY SameInit, ControlAssumption, Proved!InvInit DEF Init

LEMMA ControlNext == Restream!TypeOK /\ Proved!IInv /\ [Next]_vars
                       => Proved!IInv'
  BY StepsControl, ControlRestart, ControlAssumption, Proved!InvNext

\* The same of their types alone, whatever the paths and the build.
LEMMA ControlTypeNext == Restream!TypeOK /\ Proved!TypeInv /\ [Next]_vars
                           => Proved!TypeInv'
  BY StepsControl, SameInit, ControlAssumption, Proved!TypeNext,
     Proved!TypeRestart

-----------------------------------------------------------------------------
(***************************************************************************)
(* The entries of pathsInfo.                                               *)
(***************************************************************************)

\* What is known of the entry emplace() finds or inserts.
LEMMA InfoFacts ==
  ASSUME EntriesInv, NEW p \in Path
  PROVE  /\ Restream!Info(p) \in Restream!PathInfo
         /\ Restream!Info(p).sourceId = SourceOf[p]
         /\ Restream!Info(p).deviceId = Owner[SourceOf[p]]
         /\ Restream!Info(p).hasPlayers = HasPlayers(p)
         /\ Restream!Info(p).hasPlayers <=> p \in players
         /\ Restream!Info(p).hasRecorder <=> p \in recorders
<1> USE DEF EntriesInv, EntriesConsistent, Restream!TypeOK, Restream!Info,
           Restream!Known, Restream!PathInfo, HasPlayers
<1>1. CASE p \in DOMAIN pathsInfo
  BY <1>1
<1>2. CASE p \notin DOMAIN pathsInfo
  BY <1>2, IpCamServerAssumption
<1> QED BY <1>1, <1>2

\* The entry of p changes, and with it at most what the library reported of p.
EntrySound(p, i) ==
    /\ i \in Restream!PathInfo
    /\ i.sourceId = SourceOf[p]
    /\ i.deviceId = Owner[SourceOf[p]]
    /\ i.hasPlayers <=> p \in players'
    /\ i.hasRecorder <=> p \in recorders'

OnlyOf(p) ==
    /\ playing' \subseteq Path /\ recording' \subseteq Path
    /\ players' \subseteq playing' /\ recorders' \subseteq recording'
    /\ players' \ {p} = players \ {p}
    /\ recorders' \ {p} = recorders \ {p}

LEMMA Puts ==
  ASSUME EntriesInv, NEW p \in Path, NEW STATE i, EntrySound(p, i), OnlyOf(p),
         i.hasPlayers \/ i.hasRecorder, Restream!Put(p, i)
  PROVE  /\ EntriesInv'
         /\ \A q \in Path :
               HasPlayers(q)' = IF q = p THEN i.hasPlayers ELSE HasPlayers(q)
  BY DEF Restream!Put, EntriesInv, EntriesConsistent, Restream!TypeOK,
         EntrySound, OnlyOf, HasPlayers, Restream!PathInfo

LEMMA PutsOrErases ==
  ASSUME EntriesInv, NEW p \in Path, NEW STATE i, EntrySound(p, i), OnlyOf(p),
         Restream!PutOrErase(p, i)
  PROVE  /\ EntriesInv'
         /\ \A q \in Path :
               HasPlayers(q)' = IF q = p THEN i.hasPlayers ELSE HasPlayers(q)
<1>1. CASE i.hasPlayers \/ i.hasRecorder
  BY <1>1, Puts DEF Restream!PutOrErase
<1>2. CASE ~(i.hasPlayers \/ i.hasRecorder)
  BY <1>2 DEF Restream!PutOrErase, EntriesInv, EntriesConsistent,
     Restream!TypeOK, OnlyOf, EntrySound, HasPlayers, Restream!PathInfo
<1> QED BY <1>1, <1>2

\* The first player of a path: its entry gets players.
LEMMA FirstPlayer ==
  ASSUME EntriesInv, NEW p \in Path, Restream!FirstPlayerConnected(p)
  PROVE  /\ EntriesInv'
         /\ ~HasPlayers(p)
         /\ \A q \in Path : HasPlayers(q)' = (q = p \/ HasPlayers(q))
<1> DEFINE i == [Restream!Info(p) EXCEPT !.hasPlayers = TRUE]
<1>3. /\ playing' = playing \cup {p} /\ recording' = recording
      /\ players' = players \cup {p} /\ recorders' = recorders
      /\ playing \subseteq Path /\ recording \subseteq Path
      /\ players \subseteq playing /\ recorders \subseteq recording
  BY DEF Restream!FirstPlayerConnected, EntriesInv, EntriesConsistent,
         Restream!TypeOK
<1>4. OnlyOf(p)
  BY <1>3 DEF OnlyOf
<1>5. EntrySound(p, i) /\ i.hasPlayers = TRUE
  BY <1>3, InfoFacts DEF EntrySound, Restream!PathInfo
<1>1. EntrySound(p, i) /\ OnlyOf(p) /\ i.hasPlayers = TRUE
  BY <1>4, <1>5
<1>2. Restream!Put(p, i) /\ p \notin playing
  BY DEF Restream!FirstPlayerConnected
<1> HIDE DEF i
<1> QED BY <1>1, <1>2, InfoFacts, Puts DEF EntriesInv, EntriesConsistent,
           HasPlayers

\* The last player of a path: its entry has none left, or is gone.
LEMMA LastPlayer ==
  ASSUME EntriesInv, NEW p \in Path, Restream!LastPlayerDisconnected(p)
  PROVE  /\ EntriesInv'
         /\ p \in DOMAIN pathsInfo /\ (NDEBUG \/ HasPlayers(p))
         /\ \A q \in Path : HasPlayers(q)' = (q # p /\ HasPlayers(q))
<1> DEFINE i == [pathsInfo[p] EXCEPT !.hasPlayers = FALSE]
<1>1. /\ p \in DOMAIN pathsInfo /\ (NDEBUG \/ HasPlayers(p))
      /\ Restream!PutOrErase(p, i)
      /\ playing' = playing \ {p} /\ recording' = recording
      /\ players' = players \ {p} /\ recorders' = recorders
  BY DEF Restream!LastPlayerDisconnected, Restream!Known, HasPlayers
<1>2. pathsInfo[p] \in Restream!PathInfo
  BY <1>1 DEF EntriesInv, Restream!TypeOK
<1>3. EntrySound(p, i) /\ OnlyOf(p) /\ i.hasPlayers = FALSE
  BY <1>1, <1>2 DEF EntrySound, OnlyOf, EntriesInv, EntriesConsistent,
     Restream!TypeOK, Restream!PathInfo
<1> HIDE DEF i
<1> QED BY <1>1, <1>3, PutsOrErases DEF HasPlayers

\* The other callbacks leave the players as they are.
LEMMA QuietCallback ==
  ASSUME EntriesInv, NEW p \in Path, Restream!QuietNext(p)
  PROVE  EntriesInv' /\ \A q \in Path : HasPlayers(q)' = HasPlayers(q)
<1>1. CASE \/ Restream!UnknownPlayerConnected(p)
           \/ Restream!UnknownRecorderConnected(p)
  BY <1>1 DEF Restream!UnknownPlayerConnected,
     Restream!UnknownRecorderConnected, EntriesInv, EntriesConsistent,
     Restream!TypeOK, HasPlayers
<1>2. CASE \/ Restream!UnknownPlayerDisconnected(p)
           \/ Restream!UnknownRecorderDisconnected(p)
  BY <1>2 DEF Restream!UnknownPlayerDisconnected, Restream!Known,
     Restream!UnknownRecorderDisconnected, EntriesInv, EntriesConsistent,
     Restream!TypeOK, HasPlayers
<1>3. CASE Restream!RecorderConnected(p)
  <2> DEFINE i == [Restream!Info(p) EXCEPT !.hasRecorder = TRUE]
  <2>3. /\ playing' = playing /\ recording' = recording \cup {p}
        /\ players' = players /\ recorders' = recorders \cup {p}
        /\ playing \subseteq Path /\ recording \subseteq Path
        /\ players \subseteq playing /\ recorders \subseteq recording
    BY <1>3 DEF Restream!RecorderConnected, EntriesInv, EntriesConsistent,
                Restream!TypeOK
  <2>4. OnlyOf(p)
    BY <2>3 DEF OnlyOf
  <2>5. /\ EntrySound(p, i) /\ i.hasRecorder = TRUE
        /\ i.hasPlayers = HasPlayers(p)
    BY <2>3, InfoFacts DEF EntrySound, Restream!PathInfo
  <2>1. /\ EntrySound(p, i) /\ OnlyOf(p) /\ i.hasRecorder = TRUE
        /\ i.hasPlayers = HasPlayers(p)
    BY <2>4, <2>5
  <2>2. Restream!Put(p, i)
    BY <1>3 DEF Restream!RecorderConnected
  <2> HIDE DEF i
  <2> QED BY <2>1, <2>2, Puts
<1>4. CASE Restream!RecorderDisconnected(p)
  <2> DEFINE i == [pathsInfo[p] EXCEPT !.hasRecorder = FALSE]
  <2>1. /\ p \in DOMAIN pathsInfo /\ Restream!PutOrErase(p, i)
        /\ recording' = recording \ {p} /\ playing' = playing
        /\ recorders' = recorders \ {p} /\ players' = players
    BY <1>4 DEF Restream!RecorderDisconnected, Restream!Known
  <2>2. pathsInfo[p] \in Restream!PathInfo
    BY <2>1 DEF EntriesInv, Restream!TypeOK
  <2>3. /\ EntrySound(p, i) /\ OnlyOf(p)
        /\ i.hasPlayers = HasPlayers(p)
    BY <2>1, <2>2 DEF EntrySound, OnlyOf, EntriesInv, EntriesConsistent,
       Restream!TypeOK, Restream!PathInfo, HasPlayers
  <2> HIDE DEF i
  <2> QED BY <2>1, <2>3, PutsOrErases
<1> QED BY <1>1, <1>2, <1>3, <1>4 DEF Restream!QuietNext

\* A fresh restream server has no entries.
LEMMA NoEntries ==
  /\ Restream!Init => EntriesInv /\ DOMAIN pathsInfo = {}
  /\ Restream!Restart => EntriesInv' /\ DOMAIN pathsInfo' = {}
  BY DEF Restream!Init, Restream!Restart, EntriesInv, EntriesConsistent,
         Restream!TypeOK

LEMMA EntriesNext == EntriesInv /\ [Next]_vars => EntriesInv'
<1> SUFFICES ASSUME EntriesInv, [Next]_vars PROVE EntriesInv'
  OBVIOUS
<1>1. CASE UNCHANGED restreamVars
  BY <1>1 DEF restreamVars, EntriesInv, EntriesConsistent, Restream!TypeOK
<1>2. ASSUME NEW p \in Path,
             \/ FirstPlayerConnected(p) \/ LastPlayerDisconnected(p)
             \/ OtherCallback(p)
      PROVE  EntriesInv'
  BY <1>2, FirstPlayer, LastPlayer, QuietCallback
     DEF FirstPlayerConnected, LastPlayerDisconnected, OtherCallback
<1>3. CASE Restream!Restart
  BY <1>3, NoEntries
<1> QED
  BY <1>1, <1>2, <1>3 DEF Next, Background, RequestTwice, ControlCrash,
     RestreamCrash, Restream!Crash, vars

\* What an entry says is all of it.
LEMMA ExactEntries ==
  ASSUME EntriesInv
  PROVE  pathsInfo =
            [p \in players \cup recorders |->
                [deviceId |-> Owner[SourceOf[p]], sourceId |-> SourceOf[p],
                 hasPlayers |-> p \in players, hasRecorder |-> p \in recorders]]
<1> DEFINE exact(p) ==
       [deviceId |-> Owner[SourceOf[p]], sourceId |-> SourceOf[p],
        hasPlayers |-> p \in players, hasRecorder |-> p \in recorders]
<1>1. /\ DOMAIN pathsInfo = players \cup recorders
      /\ pathsInfo \in [DOMAIN pathsInfo -> Restream!PathInfo]
  BY DEF EntriesInv, EntriesConsistent, Restream!TypeOK
<1>2. ASSUME NEW p \in DOMAIN pathsInfo PROVE pathsInfo[p] = exact(p)
  <2>1. pathsInfo[p] \in Restream!PathInfo
    BY <1>1
  <2>2. /\ pathsInfo[p].deviceId = Owner[SourceOf[p]]
        /\ pathsInfo[p].sourceId = SourceOf[p]
        /\ pathsInfo[p].hasPlayers = (p \in players)
        /\ pathsInfo[p].hasRecorder = (p \in recorders)
    BY <2>1 DEF EntriesInv, EntriesConsistent, Restream!PathInfo
  <2> QED BY <2>1, <2>2 DEF Restream!PathInfo
<1>3. pathsInfo = [p \in players \cup recorders |-> exact(p)]
  <2> HIDE DEF exact
  <2> QED BY <1>1, <1>2
<1> QED BY <1>3

\* A path has an entry exactly as long as a player or a recorder of it is there
\* whose source was found, in either build and whatever paths name the same
\* camera (Server.cpp:351-458 of RestreamServer).
THEOREM EntriesAreExact == Spec => []EntriesExact
<1>1. Init => Proved!TypeInv /\ EntriesInv
  BY SameInit, ControlAssumption, Proved!TypeInit, NoEntries DEF Init
<1>2. Proved!TypeInv /\ EntriesInv /\ [Next]_vars
        => Proved!TypeInv' /\ EntriesInv'
  BY ControlTypeNext, EntriesNext DEF EntriesInv
<1>3. Proved!TypeInv /\ EntriesInv => EntriesExact
  BY SameType, ExactEntries DEF Proved!TypeInv, EntriesInv, EntriesConsistent,
     EntriesExact, TypeOK
<1> QED BY <1>1, <1>2, <1>3, PTL DEF Spec

-----------------------------------------------------------------------------
(***************************************************************************)
(* The demand of the two halves.                                           *)
(***************************************************************************)

\* A camera is watched when one of its paths has players.
WatchedByPath ==
    \A x : x \in watched <=> \E p \in Path : HasPlayers(p) /\ SourceOf[p] = x

LEMMA Watched == EntriesInv => WatchedByPath
  BY DEF watched, EntriesInv, EntriesConsistent, Restream!TypeOK, HasPlayers,
     WatchedByPath

LEMMA WatchedNext == EntriesInv' => WatchedByPath'
  BY Watched, PTL

\* How a step of the restream server changes what is watched, and which step
\* of the control server goes with it.
LEMMA WatchedFirst ==
  ASSUME EntriesInv, OnePathWatched, DemandIsPlayers, UnambiguousDemand,
         NEW p \in Path, FirstPlayerConnected(p)
  PROVE  OnePathWatched' /\ watched' = watched \cup {SourceOf[p]}
<1>1. /\ EntriesInv' /\ ~HasPlayers(p)
      /\ \A q \in Path : HasPlayers(q)' = (q = p \/ HasPlayers(q))
  BY FirstPlayer DEF FirstPlayerConnected
<1>2. \A x : /\ x \in watched
                    <=> \E q \in Path : HasPlayers(q) /\ SourceOf[q] = x
             /\ x \in watched'
                    <=> \E q \in Path : HasPlayers(q)' /\ SourceOf[q] = x
  BY <1>1, Watched, WatchedNext DEF WatchedByPath
<1>3. watched' = watched \cup {SourceOf[p]}
  BY <1>1, <1>2
<1>4. NDEBUG \/ SourceOf[p] \notin watched
  BY IpCamServerAssumption
     DEF FirstPlayerConnected, Control!RequestStream, DemandIsPlayers
<1>5. OnePathWatched'
  BY <1>1, <1>2, <1>4 DEF OnePathWatched, UnambiguousDemand
<1> QED BY <1>3, <1>5

LEMMA WatchedLast ==
  ASSUME EntriesInv, OnePathWatched, UnambiguousDemand,
         NEW p \in Path, LastPlayerDisconnected(p)
  PROVE  /\ OnePathWatched' /\ pathsInfo[p].sourceId = SourceOf[p]
         /\ watched' = watched \ {SourceOf[p]}
<1>1. /\ EntriesInv' /\ p \in DOMAIN pathsInfo
      /\ NDEBUG \/ HasPlayers(p)
      /\ \A q \in Path : HasPlayers(q)' = (q # p /\ HasPlayers(q))
  BY LastPlayer DEF LastPlayerDisconnected
<1>2. \A x : /\ x \in watched
                    <=> \E q \in Path : HasPlayers(q) /\ SourceOf[q] = x
             /\ x \in watched'
                    <=> \E q \in Path : HasPlayers(q)' /\ SourceOf[q] = x
  BY <1>1, Watched, WatchedNext DEF WatchedByPath
<1>3. \A q \in Path : HasPlayers(q) /\ SourceOf[q] = SourceOf[p] => q = p
  BY <1>1 DEF OnePathWatched, UnambiguousDemand
<1>4. watched' = watched \ {SourceOf[p]}
  BY <1>1, <1>2, <1>3
<1>5. OnePathWatched' /\ pathsInfo[p].sourceId = SourceOf[p]
  BY <1>1 DEF OnePathWatched, EntriesInv, EntriesConsistent
<1> QED BY <1>4, <1>5

LEMMA WatchedOther ==
  ASSUME EntriesInv, OnePathWatched, NEW p \in Path, OtherCallback(p)
  PROVE  OnePathWatched' /\ watched' = watched
<1>1. EntriesInv' /\ \A q \in Path : HasPlayers(q)' = HasPlayers(q)
  BY QuietCallback DEF OtherCallback
<1>2. \A x : /\ x \in watched
                    <=> \E q \in Path : HasPlayers(q) /\ SourceOf[q] = x
             /\ x \in watched'
                    <=> \E q \in Path : HasPlayers(q)' /\ SourceOf[q] = x
  BY <1>1, Watched, WatchedNext DEF WatchedByPath
<1> QED BY SMTT(30), <1>1, <1>2 DEF OnePathWatched

LEMMA WatchedRestart ==
  /\ Restream!Init => OnePathWatched /\ watched = {}
  /\ Restream!Restart => OnePathWatched' /\ watched' = {}
  BY NoEntries DEF OnePathWatched, watched, HasPlayers

\* Nothing but the restream thread changes the demand of the control server.
LEMMA BackgroundDemand ==
  Background => UNCHANGED <<activeSources, pathsInfo, playing, recording>>
<1> SUFFICES ASSUME Background
             PROVE  UNCHANGED <<activeSources, pathsInfo, playing, recording>>
  OBVIOUS
<1>1. UNCHANGED <<pathsInfo, playing, recording>>
  BY DEF Background, restreamVars
<1>2. Proved!IoNext => activeSources' = activeSources
  BY DEF Proved!IoNext, Proved!UpdateCertificate, Proved!SendRequest,
     Proved!ConnectionNext, Proved!OnNewConnection, Proved!VerifyClient,
     Proved!Reject, Proved!Authenticated, Proved!DestroySession,
     Proved!MessageNext, Proved!EndReading, Proved!ClientReady,
     Proved!StreamFailed, Proved!RequestNext, Proved!TimerExpires,
     Proved!RunExpired, Proved!RunPosted
<1>3. Proved!CallNext => activeSources' = activeSources
  BY DEF Proved!CallNext, Proved!LookUpSession, Proved!CallRequestStream,
     Proved!CallStopStream, Proved!CallFreedSession
<1> QED BY <1>1, <1>2, <1>3, SameIoNext, SameCallNext DEF Background

LEMMA DemandNext ==
  UnambiguousDemand /\ DemandInv /\ [Next]_vars => DemandInv'
<1> SUFFICES ASSUME UnambiguousDemand, DemandInv, [Next]_vars
             PROVE  DemandInv'
  OBVIOUS
<1>1. EntriesInv' /\ Proved!IInv'
  BY EntriesNext, ControlNext DEF DemandInv, EntriesInv
<1>2. activeSources \in [Device -> SUBSET Source]
  BY DEF DemandInv, Proved!IInv, Proved!TypeInv, Proved!TypeOK
<1> DEFINE Goal == OnePathWatched' /\ DemandIsPlayers'
<1>3. ASSUME UNCHANGED <<activeSources, pathsInfo, playing, recording>>
      PROVE  Goal
  <2>1. watched' = watched
    BY <1>3 DEF watched
  <2>2. \A p \in Path : HasPlayers(p)' = HasPlayers(p)
    BY <1>3 DEF HasPlayers
  <2> QED BY <1>3, <2>1, <2>2 DEF DemandInv, OnePathWatched, DemandIsPlayers
<1>4. ASSUME NEW p \in Path, FirstPlayerConnected(p) PROVE Goal
  <2> DEFINE x == SourceOf[p]
  <2>1. OnePathWatched' /\ watched' = watched \cup {x}
    BY <1>4, WatchedFirst DEF DemandInv
  <2>2. activeSources' = [activeSources EXCEPT ![Owner[x]] = @ \cup {x}]
    BY <1>4 DEF FirstPlayerConnected, Control!RequestStream
  <2> QED BY <1>2, <2>1, <2>2, IpCamServerAssumption
          DEF DemandInv, DemandIsPlayers
<1>5. ASSUME NEW p \in Path, LastPlayerDisconnected(p) PROVE Goal
  <2> DEFINE x == SourceOf[p]
  <2>1. /\ OnePathWatched' /\ pathsInfo[p].sourceId = x
        /\ watched' = watched \ {x}
    BY <1>5, WatchedLast DEF DemandInv
  <2>2. activeSources' = [activeSources EXCEPT ![Owner[x]] = @ \ {x}]
    BY <1>5, <2>1 DEF LastPlayerDisconnected, Control!StopStream
  <2> QED BY <1>2, <2>1, <2>2, IpCamServerAssumption
          DEF DemandInv, DemandIsPlayers
<1>6. ASSUME NEW p \in Path, OtherCallback(p) PROVE Goal
  <2>1. OnePathWatched' /\ watched' = watched /\ activeSources' = activeSources
    BY <1>6, WatchedOther DEF DemandInv, OtherCallback, controlVars
  <2> QED BY <2>1 DEF DemandInv, DemandIsPlayers
<1>7. ASSUME Control!Restart, Restream!Restart PROVE Goal
  <2>1. OnePathWatched' /\ watched' = {}
    BY <1>7, WatchedRestart
  <2>2. activeSources' = [d \in Device |-> {}]
    BY <1>7 DEF Control!Restart
  <2> QED BY <2>1, <2>2 DEF DemandIsPlayers
<1>8. Goal
  BY <1>3, <1>4, <1>5, <1>6, <1>7, BackgroundDemand
     DEF Next, RequestTwice, Control!RequestTwice, ControlCrash,
         Control!Crash, RestreamCrash, Restream!Crash, vars, controlVars,
         restreamVars
<1> QED BY <1>1, <1>8 DEF DemandInv

LEMMA DemandInit == Init => DemandInv
<1> SUFFICES ASSUME Init PROVE DemandInv
  OBVIOUS
<1>1. EntriesInv /\ Proved!IInv /\ OnePathWatched /\ watched = {}
  BY NoEntries, ControlInit, WatchedRestart DEF Init
<1> QED BY <1>1 DEF Init, Control!Init, DemandInv, DemandIsPlayers

LEMMA DemandAlways == ASSUME UnambiguousDemand PROVE Spec => []DemandInv
<1>1. DemandInv /\ [Next]_vars => DemandInv'
  BY DemandNext
<1> QED BY <1>1, DemandInit, PTL DEF Spec

\* The two halves of the server agree on the demand, whatever connects, fails
\* or crashes, where assertions are compiled in or no camera has two paths
\* (Server.cpp:351-407 of RestreamServer, Sessions.cpp:34-55,
\* ServerMain.cpp:32-42).
THEOREM DemandIsThePlayers ==
  ASSUME UnambiguousDemand PROVE Spec => []DemandIsPlayers
<1>1. DemandInv => DemandIsPlayers
  BY DEF DemandInv
<1> QED BY <1>1, DemandAlways, PTL

-----------------------------------------------------------------------------
(***************************************************************************)
(* The refinement of StreamDemand.                                         *)
(***************************************************************************)

\* A session that was told something, or is about to be, is the active one
\* of its device: the mapping can be read off the sessions.
MappingExact ==
    /\ \A x : x \in toldStreams <=> \E s \in Session : x \in session[s].told
    /\ decidedStreams = IF io = Control!IoIdle THEN {} ELSE {io.source}
    /\ \A s \in Session : session[s].context # NoDevice
                            => session[s].context \in onlineDevices

LEMMA Mapping == Proved!IInv => MappingExact
<1> SUFFICES ASSUME Proved!IInv PROVE MappingExact
  OBVIOUS
<1> USE IpCamServerAssumption DEF Proved!IInv, Proved!TypeInv, Proved!TypeOK,
       Proved!SessionState, onlineDevices
<1>1. \A s \in Session : session[s].context # NoDevice =>
        /\ session[s].context \in onlineDevices
        /\ activeSession[session[s].context] = s
  BY DEF Proved!RegistryExact
<1>2. \A s \in Session : session[s].told # {} => session[s].context # NoDevice
  BY DEF Proved!SessionsConsistent
<1>3. \A x : x \in toldStreams <=> \E s \in Session : x \in session[s].told
  BY <1>1, <1>2 DEF toldStreams
<1>4. CASE io = Control!IoIdle
  <2>1. \A d \in onlineDevices, x \in Source :
          io # [session |-> activeSession[d], source |-> x]
    BY <1>4 DEF Control!IoIdle
  <2> QED BY <1>1, <1>3, <1>4, <2>1 DEF decidedStreams, MappingExact
<1>5. CASE io # Control!IoIdle
  <2>1. /\ io.session \in Session /\ io.source \in Source
        /\ io = [session |-> io.session, source |-> io.source]
    BY <1>5 DEF Proved!IoIdle, Control!IoIdle
  <2>2. session[io.session].context # NoDevice
    BY <1>5, <2>1 DEF Proved!SourcesOwned, Proved!IoIdle, Control!IoIdle
  <2>3. decidedStreams = {io.source}
    BY <1>1, <2>1, <2>2 DEF decidedStreams
  <2> QED BY <1>1, <1>3, <1>5, <2>3 DEF MappingExact
<1> QED BY <1>4, <1>5

LEMMA MappingNext == Proved!IInv' => MappingExact'
  BY Mapping, PTL

\* The hypotheses of the step lemmas below: the invariant before and after a
\* step that leaves the demand alone.
Invs == DemandInv /\ DemandInv'
DemandSame == activeSources' = activeSources /\ watched' = watched

\* Steps that no box and no viewer can tell: nothing is told, decided,
\* connected or lost.
LEMMA QuietStep ==
  ASSUME Invs, DemandSame, activeSession' = activeSession, io' = io,
         \A s \in Session : session'[s].told = session[s].told
  PROVE  UNCHANGED Demand!vars
<1>1. MappingExact /\ MappingExact'
  BY Mapping, MappingNext DEF Invs, DemandInv
<1>2. toldStreams' = toldStreams
  BY SMTT(30), <1>1 DEF MappingExact
<1>3. decidedStreams' = decidedStreams
  BY <1>1 DEF MappingExact, Control!IoIdle
<1> QED BY <1>2, <1>3 DEF DemandSame, onlineDevices, Demand!vars

LEMMA QuietIo ==
  ASSUME Invs, DemandSame,
         \/ \E success \in BOOLEAN : Proved!UpdateCertificate(success)
         \/ \E s \in Session :
               \/ Proved!OnNewConnection(s) \/ Proved!Reject(s)
               \/ \E d \in Device : Proved!VerifyClient(s, d)
               \/ Proved!EndReading(s) \/ Proved!ClientReady(s)
               \/ Proved!TimerExpires(s)
         \/ Proved!LookUpSession \/ Proved!CallFreedSession
  PROVE  UNCHANGED Demand!vars
<1> USE DEF Invs, DemandInv, Proved!IInv, Proved!TypeInv, Proved!TypeOK,
           Proved!SessionState
<1>1. activeSession' = activeSession /\ io' = io
  BY DEF Proved!UpdateCertificate, Proved!OnNewConnection, Proved!Reject,
     Proved!VerifyClient, Proved!EndReading, Proved!ClientReady,
     Proved!TimerExpires, Proved!LookUpSession, Proved!CallFreedSession
<1> DEFINE SameTold == \A t \in Session : session'[t].told = session[t].told
<1>2. ASSUME NEW s \in Session, Proved!OnNewConnection(s) \/ Proved!Reject(s)
      PROVE  SameTold
  BY <1>2 DEF Proved!OnNewConnection, Proved!Reject
<1>3. ASSUME NEW s \in Session, NEW d \in Device, Proved!VerifyClient(s, d)
      PROVE  SameTold
  BY <1>3 DEF Proved!VerifyClient
<1>4. ASSUME NEW s \in Session, Proved!EndReading(s) \/ Proved!ClientReady(s)
      PROVE  SameTold
  <2>1. CASE Proved!EndReading(s)
    BY <2>1 DEF Proved!EndReading
  <2>2. CASE Proved!ClientReady(s)
    <3>1. session'[s].told = session[s].told
      <4>1. session[s] \in Proved!SessionState
        OBVIOUS
      <4>2. session'[s] = [session[s] EXCEPT
                !.posted = activeSources[session[s].context],
                !.ready = TRUE, !.replaced = {}]
        BY <2>2 DEF Proved!ClientReady
      <4> QED BY <4>1, <4>2
    <3>2. \A t \in Session \ {s} : session'[t] = session[t]
      BY <2>2 DEF Proved!ClientReady
    <3> QED BY <3>1, <3>2
  <2> QED BY <1>4, <2>1, <2>2
<1>5. ASSUME NEW s \in Session, Proved!TimerExpires(s) PROVE SameTold
  <2>1. session'[s].told = session[s].told
    <3>1. session[s] \in Proved!SessionState
      OBVIOUS
    <3>2. session'[s] = [session[s] EXCEPT !.expired = session[s].timer,
                                           !.timer = NoSource]
      BY <1>5 DEF Proved!TimerExpires
    <3> QED BY <3>1, <3>2
  <2>2. \A t \in Session \ {s} : session'[t] = session[t]
    BY <1>5 DEF Proved!TimerExpires
  <2> QED BY <2>1, <2>2
<1>6. SameTold
  BY <1>2, <1>3, <1>4, <1>5 DEF Proved!UpdateCertificate,
     Proved!LookUpSession, Proved!CallFreedSession
<1> QED BY <1>1, <1>6, QuietStep

\* A box connects: nobody has told it anything yet.
LEMMA ConnectStep ==
  ASSUME Invs, DemandSame, NEW s \in Session, Proved!Authenticated(s)
  PROVE  Demand!Connect(session[s].deviceId)
<1> USE DEF Invs, DemandInv, Proved!IInv, Proved!TypeInv, Proved!TypeOK,
           Proved!SessionState
<1> DEFINE d == session[s].deviceId
<1>1. MappingExact /\ MappingExact'
  BY Mapping, MappingNext
<1>2. /\ d \in Device /\ activeSession[d] = NoSession
      /\ activeSession' = [activeSession EXCEPT ![d] = s]
      /\ io' = io
      /\ \A t \in Session : session'[t].told = session[t].told
  BY DEF Proved!Authenticated
<1>3. onlineDevices' = onlineDevices \cup {d} /\ d \notin onlineDevices
  BY <1>2, IpCamServerAssumption DEF onlineDevices
<1>4. toldStreams' = toldStreams /\ decidedStreams' = decidedStreams
  BY ZenonT(60), <1>1, <1>2 DEF MappingExact, Control!IoIdle
<1> QED BY <1>3, <1>4 DEF DemandSame, Demand!Connect

\* A session is destroyed: its box is told nothing any more, or it never had
\* a box.
LEMMA DisconnectStep ==
  ASSUME Invs, DemandSame, NEW s \in Session, Proved!DestroySession(s)
  PROVE  Demand!Disconnect(session[s].context) \/ UNCHANGED Demand!vars
<1> USE DEF Invs, DemandInv, Proved!IInv, Proved!TypeInv, Proved!TypeOK,
           Proved!SessionState
<1> DEFINE d == session[s].context
<1>1. MappingExact /\ MappingExact'
  BY Mapping, MappingNext
<1>2. /\ io = Proved!IoIdle /\ io' = io
      /\ session' = [session EXCEPT ![s] = Proved!NoObject]
      /\ activeSession' = [e \in Device |->
                            IF e = d THEN NoSession ELSE activeSession[e]]
  BY DEF Proved!DestroySession
<1>3. decidedStreams = {} /\ decidedStreams' = {}
  BY <1>1, <1>2 DEF MappingExact, Control!IoIdle, Proved!IoIdle
<1>4. CASE d = NoDevice
  <2>1. activeSession' = activeSession
    BY <1>2, <1>4, IpCamServerAssumption
  <2>2. \A t \in Session : session'[t].told = session[t].told
    BY <1>2, <1>4 DEF Proved!SessionsConsistent, Proved!NoObject
  <2> QED BY <1>2, <2>1, <2>2, QuietStep
<1>5. CASE d # NoDevice
  <2>1. d \in onlineDevices
    BY <1>1, <1>5 DEF MappingExact
  <2>2. onlineDevices' = onlineDevices \ {d}
    BY <1>2 DEF onlineDevices
  <2>3. \A t \in Session : \A x \in session[t].told :
          x \in Source /\ Owner[x] = session[t].context
    BY DEF Proved!OwnSourcesOnly
  <2>4. \A t \in Session \ {s} : session[t].context # d
    BY <1>5 DEF Proved!RegistryExact
  <2>5. toldStreams' = toldStreams \ Demand!Of(d)
    BY <1>1, <1>2, <2>3, <2>4
       DEF MappingExact, Demand!Of, Proved!NoObject
  <2>6. Demand!Disconnect(d)
    BY <1>3, <2>1, <2>2, <2>5 DEF DemandSame, Demand!Disconnect
  <2> QED BY <2>6
<1> QED BY <1>4, <1>5

\* The box reports a failure: it has one thing less to stream.
LEMMA FailStep ==
  ASSUME Invs, DemandSame, NEW s \in Session, NEW x \in Source,
         NEW stale \in BOOLEAN, Proved!StreamFailed(s, x, stale)
  PROVE  Demand!Fail(x) \/ UNCHANGED Demand!vars
<1> USE DEF Invs, DemandInv, Proved!IInv, Proved!TypeInv, Proved!TypeOK,
           Proved!SessionState
<1>1. MappingExact /\ MappingExact'
  BY Mapping, MappingNext
<1>2. /\ activeSession' = activeSession /\ io' = io
      /\ Owner[x] = session[s].context /\ session[s].phase = "reading"
      /\ session'[s].told = Proved!Told(s, x, stale)
      /\ \A t \in Session \ {s} : session'[t].told = session[t].told
  BY DEF Proved!StreamFailed, Proved!CanReceive
<1>3. CASE stale
  BY <1>2, <1>3, QuietStep DEF Proved!Told
<1>4. CASE ~stale
  <2> DEFINE d == session[s].context
  <2>1. d # NoDevice /\ d \in onlineDevices
    BY <1>1, <1>2 DEF MappingExact, Proved!SessionsConsistent
  <2>2. \A t \in Session \ {s} : x \notin session[t].told
    <3>1. \A t \in Session : session[t].context = d => t = s
      BY <2>1 DEF Proved!RegistryExact
    <3> QED BY <1>2, <3>1 DEF Proved!OwnSourcesOnly
  <2>3. toldStreams' = toldStreams \ {x}
    BY <1>1, <1>2, <1>4, <2>2 DEF MappingExact, Proved!Told
  <2>4. onlineDevices' = onlineDevices /\ decidedStreams' = decidedStreams
    BY <1>1, <1>2 DEF MappingExact, onlineDevices, Control!IoIdle
  <2> QED BY <1>2, <2>1, <2>3, <2>4 DEF DemandSame, Demand!Fail
<1> QED BY <1>3, <1>4

\* A handler of requestStream runs and finds its source wanted, or not.
LEMMA DecideStep ==
  ASSUME Invs, DemandSame, NEW s \in Session, NEW x \in Source,
         activeSession' = activeSession, io = Proved!IoIdle,
         \A t \in Session : session'[t].told = session[t].told,
         session[s].context # NoDevice, Owner[x] = session[s].context,
         Proved!CheckStream(s, x)
  PROVE  Demand!Decide(x) \/ UNCHANGED Demand!vars
<1> USE DEF Invs, DemandInv
<1>1. MappingExact /\ MappingExact'
  BY Mapping, MappingNext
<1>2. CASE ~Proved!shouldStream(s, x)
  BY <1>2, QuietStep DEF Proved!CheckStream
<1>3. CASE Proved!shouldStream(s, x)
  <2>1. io' = [session |-> s, source |-> x]
    BY <1>3 DEF Proved!CheckStream
  <2>2. x \in watched /\ Owner[x] \in onlineDevices
    BY <1>1, <1>3 DEF Proved!shouldStream, DemandIsPlayers, MappingExact,
       onlineDevices
  <2>3. decidedStreams = {} /\ decidedStreams' = {x}
    BY <1>1, <2>1, IpCamServerAssumption
       DEF MappingExact, Control!IoIdle, Proved!IoIdle
  <2>4. toldStreams' = toldStreams /\ onlineDevices' = onlineDevices
    BY <1>1 DEF MappingExact, onlineDevices
  <2> QED BY <2>2, <2>3, <2>4 DEF DemandSame, Demand!Decide
<1> QED BY <1>2, <1>3

LEMMA RunStep ==
  ASSUME Invs, DemandSame, NEW s \in Session,
         \/ Proved!RunExpired(s)
         \/ \E x \in Source : Proved!RunPosted(s, x)
  PROVE  (\E x \in Source : Demand!Decide(x)) \/ UNCHANGED Demand!vars
<1> USE DEF Invs, DemandInv, Proved!IInv, Proved!TypeInv, Proved!TypeOK,
           Proved!SessionState
<1>1. CASE Proved!RunExpired(s)
  <2> DEFINE x == session[s].expired
  <2>1. /\ x \in Source /\ Owner[x] = session[s].context
        /\ session[s].context # NoDevice
    BY <1>1 DEF Proved!RunExpired, Proved!SourcesOwned,
       Proved!SessionsConsistent
  <2>2. /\ activeSession' = activeSession /\ io = Proved!IoIdle
        /\ Proved!CheckStream(s, x)
        /\ \A t \in Session : session'[t].told = session[t].told
    BY <1>1 DEF Proved!RunExpired
  <2> QED BY <2>1, <2>2, DecideStep
<1>2. ASSUME NEW x \in Source, Proved!RunPosted(s, x)
      PROVE  Demand!Decide(x) \/ UNCHANGED Demand!vars
  <2>1. Owner[x] = session[s].context /\ session[s].context # NoDevice
    BY <1>2 DEF Proved!RunPosted, Proved!OwnSourcesOnly,
       Proved!SessionsConsistent
  <2>2. /\ activeSession' = activeSession /\ io = Proved!IoIdle
        /\ Proved!CheckStream(s, x)
        /\ \A t \in Session : session'[t].told = session[t].told
    BY <1>2 DEF Proved!RunPosted
  <2> QED BY <2>1, <2>2, DecideStep
<1> QED BY <1>1, <1>2

\* The io thread sends the request it decided on, wanted still or not.
LEMMA SendStep ==
  ASSUME Invs, DemandSame, Proved!SendRequest
  PROVE  Demand!Tell(io.source)
<1> USE DEF Invs, DemandInv, Proved!IInv, Proved!TypeInv, Proved!TypeOK,
           Proved!SessionState
<1> DEFINE s == io.session  x == io.source
<1>1. MappingExact /\ MappingExact'
  BY Mapping, MappingNext
<1>2. /\ io # Proved!IoIdle /\ s \in Session /\ x \in Source
      /\ io' = Proved!IoIdle /\ activeSession' = activeSession
      /\ session' = [session EXCEPT ![s].told = @ \cup {x}]
  BY DEF Proved!SendRequest
<1>3. Owner[x] \in onlineDevices
  BY <1>1, <1>2, IpCamServerAssumption
     DEF MappingExact, Proved!SourcesOwned
<1>4. decidedStreams = {x} /\ decidedStreams' = {}
  BY <1>1, <1>2 DEF MappingExact, Control!IoIdle, Proved!IoIdle
<1>5. toldStreams' = toldStreams \cup {x}
  BY <1>1, <1>2 DEF MappingExact
<1>6. onlineDevices' = onlineDevices
  BY <1>2 DEF onlineDevices
<1> QED BY <1>3, <1>4, <1>5, <1>6 DEF DemandSame, Demand!Tell

\* The restream thread asks for what is wanted, through a session that has a
\* context, the right one or one that took its address.
LEMMA CallRequestStep ==
  ASSUME Invs, DemandSame, Proved!CallRequestStream
  PROVE  Demand!TellNow(call.source) \/ UNCHANGED Demand!vars
<1> USE DEF Invs, DemandInv, Proved!IInv, Proved!TypeInv, Proved!TypeOK,
           Proved!SessionState
<1> DEFINE s == call.session  x == call.source
<1>1. MappingExact /\ MappingExact'
  BY Mapping, MappingNext
<1>2. /\ s \in Session /\ x \in Source /\ session[s].context # NoDevice
      /\ io' = io /\ activeSession' = activeSession
      /\ session' = IF Proved!shouldStream(s, x)
                    THEN [session EXCEPT ![s].told = @ \cup {x}]
                    ELSE session
  BY DEF Proved!CallRequestStream, Proved!NoCall
<1>3. CASE ~Proved!shouldStream(s, x)
  BY <1>2, <1>3, QuietStep
<1>4. CASE Proved!shouldStream(s, x)
  <2>1. x \in watched /\ Owner[x] \in onlineDevices
    BY <1>1, <1>2, <1>4
       DEF Proved!shouldStream, DemandIsPlayers, MappingExact, onlineDevices
  <2>2. toldStreams' = toldStreams \cup {x}
    BY <1>1, <1>2, <1>4 DEF MappingExact
  <2>3. onlineDevices' = onlineDevices /\ decidedStreams' = decidedStreams
    BY <1>1, <1>2 DEF MappingExact, onlineDevices, Control!IoIdle
  <2> QED BY <2>1, <2>2, <2>3 DEF DemandSame, Demand!TellNow
<1> QED BY <1>3, <1>4

\* The restream thread has a box stop what nobody watches.
LEMMA CallStopStep ==
  ASSUME Invs, DemandSame, Proved!CallStopStream
  PROVE  Demand!TellToStop(call.source) \/ UNCHANGED Demand!vars
<1> USE DEF Invs, DemandInv, Proved!IInv, Proved!TypeInv, Proved!TypeOK,
           Proved!SessionState
<1> DEFINE s == call.session  x == call.source
<1>1. MappingExact /\ MappingExact'
  BY Mapping, MappingNext
<1>2. /\ s \in Session /\ x \in Source /\ call.op = "stop"
      /\ io' = io /\ activeSession' = activeSession
  BY DEF Proved!CallStopStream, Proved!NoCall
<1>3. /\ session'[s].told = session[s].told \ {x}
      /\ \A t \in Session \ {s} : session'[t] = session[t]
  BY <1>2 DEF Proved!CallStopStream
<1>4. CASE x \notin session[s].told
  <2>1. session[s].told \ {x} = session[s].told
    BY <1>4
  <2>2. \A t \in Session : session'[t].told = session[t].told
    BY <1>3, <2>1
  <2> QED BY <1>2, <2>2, QuietStep
<1>5. CASE x \in session[s].told
  <2> DEFINE d == session[s].context
  <2>1. d # NoDevice /\ Owner[x] = d
    BY <1>2, <1>5 DEF Proved!OwnSourcesOnly, Proved!SessionsConsistent
  <2>2. \A t \in Session : session[t].context = d => t = s
    BY <1>2, <2>1 DEF Proved!RegistryExact
  <2>3. \A t \in Session \ {s} : x \notin session[t].told
    BY <2>1, <2>2 DEF Proved!OwnSourcesOnly
  <2>4. toldStreams' = toldStreams \ {x}
    <3>1. \A t \in Session : session'[t].told = session[t].told \ {x}
      BY <1>3, <2>3
    <3> QED BY <1>1, <3>1 DEF MappingExact
  <2>5. x \notin watched
    BY <1>2, IpCamServerAssumption
       DEF Proved!CallConsistent, DemandIsPlayers
  <2>6. onlineDevices' = onlineDevices /\ decidedStreams' = decidedStreams
    BY <1>1, <1>2 DEF MappingExact, onlineDevices, Control!IoIdle
  <2> QED BY <2>4, <2>5, <2>6 DEF DemandSame, Demand!TellToStop
<1> QED BY <1>4, <1>5

LEMMA BackgroundStep ==
  ASSUME Invs, Background PROVE Demand!Next \/ UNCHANGED Demand!vars
<1>1. DemandSame
  BY BackgroundDemand DEF DemandSame, watched
<1>2. \A s \in Session : session[s] \in Proved!SessionState
  BY DEF Invs, DemandInv, Proved!IInv, Proved!TypeInv, Proved!TypeOK
<1>3. CASE Proved!IoNext
  <2>1. ASSUME NEW s \in Session, Proved!ConnectionNext(s)
        PROVE  Demand!Next \/ UNCHANGED Demand!vars
    <3>1. CASE Proved!Authenticated(s)
      <4>1. session[s].deviceId \in Device
        BY <1>2, <3>1 DEF Proved!Authenticated, Proved!SessionState
      <4> QED BY <1>1, <3>1, <4>1, ConnectStep DEF Demand!Next
    <3>2. CASE Proved!DestroySession(s)
      <4>1. CASE session[s].context \in Device
        BY <1>1, <3>2, <4>1, DisconnectStep DEF Demand!Next
      <4>2. CASE session[s].context = NoDevice
        <5>1. NoDevice \notin onlineDevices
          BY IpCamServerAssumption DEF onlineDevices
        <5> QED BY <1>1, <3>2, <4>2, <5>1, DisconnectStep
                DEF Demand!Disconnect
      <4> QED BY <1>2, <4>1, <4>2 DEF Proved!SessionState
    <3> QED BY <1>1, <2>1, <3>1, <3>2, QuietIo DEF Proved!ConnectionNext
  <2>2. ASSUME NEW s \in Session, Proved!MessageNext(s)
        PROVE  Demand!Next \/ UNCHANGED Demand!vars
    BY <1>1, <2>2, QuietIo, FailStep DEF Proved!MessageNext, Demand!Next
  <2>3. ASSUME NEW s \in Session, Proved!RequestNext(s)
        PROVE  Demand!Next \/ UNCHANGED Demand!vars
    BY <1>1, <2>3, QuietIo, RunStep DEF Proved!RequestNext, Demand!Next
  <2>4. CASE Proved!SendRequest
    <3>1. io.source \in Source
      BY <2>4 DEF Proved!SendRequest, Invs, DemandInv, Proved!IInv,
         Proved!TypeInv, Proved!TypeOK
    <3> QED BY <1>1, <2>4, <3>1, SendStep DEF Demand!Next
  <2> QED BY <1>1, <1>3, <2>1, <2>2, <2>3, <2>4, QuietIo DEF Proved!IoNext
<1>4. CASE Proved!CallNext
  <2>1. CASE Proved!CallRequestStream \/ Proved!CallStopStream
    <3>1. call.source \in Source
      BY <2>1 DEF Proved!CallRequestStream, Proved!CallStopStream, Invs,
         DemandInv, Proved!IInv, Proved!TypeInv, Proved!TypeOK, Proved!NoCall
    <3> QED BY <1>1, <2>1, <3>1, CallRequestStep, CallStopStep
            DEF Demand!Next
  <2> QED BY <1>1, <1>4, <2>1, QuietIo DEF Proved!CallNext
<1> QED BY <1>3, <1>4, SameIoNext, SameCallNext DEF Background

\* The steps of the restream thread's callbacks.
LEMMA PlayerStep ==
  ASSUME Invs, UnambiguousDemand, NEW p \in Path,
         FirstPlayerConnected(p) \/ LastPlayerDisconnected(p)
  PROVE  Demand!Want(SourceOf[p]) \/ Demand!Unwant(SourceOf[p])
<1>1. MappingExact /\ MappingExact'
  BY Mapping, MappingNext DEF Invs, DemandInv
<1>2. UNCHANGED <<session, activeSession, io>>
  BY DEF FirstPlayerConnected, LastPlayerDisconnected,
         Control!RequestStream, Control!StopStream
<1>3. UNCHANGED <<onlineDevices, toldStreams, decidedStreams>>
  BY <1>2 DEF onlineDevices, toldStreams, decidedStreams
<1>4. \/ watched' = watched \cup {SourceOf[p]}
      \/ watched' = watched \ {SourceOf[p]}
  BY WatchedFirst, WatchedLast DEF Invs, DemandInv
<1> QED BY <1>3, <1>4 DEF Demand!Want, Demand!Unwant

LEMMA OtherStep ==
  ASSUME Invs, NEW p \in Path, OtherCallback(p)
  PROVE  UNCHANGED Demand!vars
<1>1. watched' = watched
  BY WatchedOther DEF Invs, DemandInv
<1> QED BY <1>1 DEF OtherCallback, controlVars, onlineDevices, toldStreams,
           decidedStreams, Demand!vars

\* However the server dies, connections and viewers are gone.
LEMMA RestartStep ==
  ASSUME Control!Restart, Restream!Restart PROVE Demand!Restart
<1>1. watched' = {}
  BY WatchedRestart
<1>2. onlineDevices' = {}
  BY DEF Control!Restart, onlineDevices
<1> QED BY <1>1, <1>2 DEF decidedStreams, toldStreams, Demand!Restart

LEMMA DemandInitial == Init => Demand!Init
<1> SUFFICES ASSUME Init PROVE Demand!Init
  OBVIOUS
<1>1. watched = {}
  BY WatchedRestart DEF Init
<1>2. onlineDevices = {}
  BY DEF Init, Control!Init, onlineDevices
<1> QED BY <1>1, <1>2 DEF decidedStreams, toldStreams, Demand!Init

LEMMA DemandStep ==
  UnambiguousDemand /\ DemandInv /\ DemandInv' /\ [Next]_vars
    => [Demand!Next]_(Demand!vars)
<1> SUFFICES ASSUME UnambiguousDemand, Invs, [Next]_vars
             PROVE  Demand!Next \/ UNCHANGED Demand!vars
  BY DEF Invs
<1>1. CASE Background
  BY <1>1, BackgroundStep
<1>2. ASSUME NEW p \in Path,
             FirstPlayerConnected(p) \/ LastPlayerDisconnected(p)
      PROVE  Demand!Next
  <2>1. SourceOf[p] \in Source
    BY IpCamServerAssumption
  <2> QED BY <1>2, <2>1, PlayerStep DEF Demand!Next
<1>3. ASSUME NEW p \in Path, OtherCallback(p) PROVE UNCHANGED Demand!vars
  BY <1>3, OtherStep
<1>4. CASE Control!Restart /\ Restream!Restart
  BY <1>4, RestartStep DEF Demand!Next
<1>5. CASE UNCHANGED vars
  BY <1>5 DEF vars, controlVars, restreamVars, watched, onlineDevices,
     decidedStreams, toldStreams, Demand!vars
<1> QED
  BY <1>1, <1>2, <1>3, <1>4, <1>5
     DEF Next, RequestTwice, Control!RequestTwice, ControlCrash,
         Control!Crash, RestreamCrash, Restream!Crash

\* The server does what StreamDemand says: a box is told to stream only what
\* somebody watches, or watched when the io thread decided to tell it, and
\* only while it is connected (Server.cpp:159-198, ServerSession.cpp:211-289,
\* Server.cpp:351-407 of RestreamServer).
THEOREM DemandIsImplemented ==
  ASSUME UnambiguousDemand PROVE Spec => ImplementsDemand
<1>1. DemandInv /\ DemandInv' /\ [Next]_vars => [Demand!Next]_(Demand!vars)
  BY DemandStep
<1> QED BY <1>1, DemandAlways, DemandInitial, PTL
        DEF Spec, ImplementsDemand, Demand!Spec

\* Two paths of one camera are the only way to request it twice: where every
\* camera has one path, the assertion of SessionContext::streamRequested
\* (Sessions.cpp:42) holds whatever players, boxes and connections do.
THEOREM OnePathNeverTwice ==
  ASSUME \A p, q \in Path : SourceOf[p] = SourceOf[q] => p = q
  PROVE  Spec => NeverRequestedTwice
<1>1. UnambiguousDemand
  BY DEF UnambiguousDemand
<1>2. DemandInv => \A p \in Path : ~RequestTwice(p)
  <2> SUFFICES ASSUME DemandInv, NEW p \in Path, p \notin playing,
                      SourceOf[p] \in activeSources[Owner[SourceOf[p]]]
               PROVE  FALSE
    BY DEF RequestTwice, Control!RequestTwice
  <2>1. SourceOf[p] \in watched
    BY IpCamServerAssumption DEF DemandInv, DemandIsPlayers
  <2>2. PICK q \in Path : HasPlayers(q) /\ SourceOf[q] = SourceOf[p]
    BY <2>1, Watched DEF WatchedByPath, DemandInv
  <2>3. p \in playing
    BY <2>2 DEF DemandInv, EntriesInv, EntriesConsistent, HasPlayers
  <2> QED BY <2>3
<1> QED BY <1>1, <1>2, DemandAlways, PTL DEF NeverRequestedTwice

=============================================================================
