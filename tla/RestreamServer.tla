--------------------------- MODULE RestreamServer --------------------------
(***************************************************************************)
(* The bookkeeping of RestreamServer/Server.cpp: which paths of the RTSP   *)
(* server have players and a recorder, kept in pathsInfo by four callbacks *)
(* of the RtspRestreamServer library.  The callbacks run on the restream   *)
(* thread, one at a time, and tell the rest of the server that a source    *)
(* got its first reader or lost its last one.                              *)
(*                                                                         *)
(* The library is not part of the repository.  From the callbacks' use: it *)
(* reports the first player and the last player of a path alternately, and *)
(* the recorder of a path, of which it accepts one, coming and going.      *)
(***************************************************************************)
CONSTANTS
    Path,       \* RTSP paths that authorize() has let through
    Source, Device,
    SourceOf,   \* extractSourceId: the source a path names
    Owner,      \* the device a source belongs to
    NDEBUG      \* TRUE when the build drops assert()

VARIABLES
    pathsInfo,  \* Private::pathsInfo, a map from some paths to PathInfo
    playing,    \* library: paths whose first player was reported
    recording,  \* library: paths whose recorder was reported
    players,    \* history: paths whose player was reported and its source
                \* found, and whose last player was not reported gone since
    recorders   \* history: the same of recorders

vars == <<pathsInfo, playing, recording, players, recorders>>

PathInfo == [deviceId : Device, sourceId : Source,
             hasPlayers : BOOLEAN, hasRecorder : BOOLEAN]

TypeOK ==
    /\ DOMAIN pathsInfo \subseteq Path
    /\ pathsInfo \in [DOMAIN pathsInfo -> PathInfo]
    /\ playing \subseteq Path
    /\ recording \subseteq Path
    /\ players \subseteq Path
    /\ recorders \subseteq Path

Init ==
    /\ pathsInfo = [p \in {} |-> {}]
    /\ playing = {}
    /\ recording = {}
    /\ players = {}
    /\ recorders = {}

Restart ==
    /\ pathsInfo' = [p \in {} |-> {}]
    /\ playing' = {}
    /\ recording' = {}
    /\ players' = {}
    /\ recorders' = {}

-----------------------------------------------------------------------------
Known(p) == p \in DOMAIN pathsInfo

\* The PathInfo of p, or the one emplace() would insert.
Info(p) ==
    IF Known(p) THEN pathsInfo[p]
    ELSE [deviceId |-> Owner[SourceOf[p]], sourceId |-> SourceOf[p],
          hasPlayers |-> FALSE, hasRecorder |-> FALSE]

Put(p, info) ==
    pathsInfo' = [q \in DOMAIN pathsInfo \cup {p} |->
                    IF q = p THEN info ELSE pathsInfo[q]]

\* Mutant: the entry is erased once it has no players, or no recorder.
PutOrEraseEarly(p, info) ==
    IF info.hasPlayers /\ info.hasRecorder
    THEN Put(p, info)
    ELSE pathsInfo' = [q \in DOMAIN pathsInfo \ {p} |-> pathsInfo[q]]

\* The entry is erased once it has neither players nor a recorder.
PutOrErase(p, info) ==
    IF info.hasPlayers \/ info.hasRecorder
    THEN Put(p, info)
    ELSE pathsInfo' = [q \in DOMAIN pathsInfo \ {p} |-> pathsInfo[q]]

\* findUserSource knows the source: the first-reader callback runs.
FirstPlayerConnected(p) ==
    /\ p \notin playing
    /\ playing' = playing \cup {p}
    /\ Put(p, [Info(p) EXCEPT !.hasPlayers = TRUE])
    /\ players' = players \cup {p}
    /\ UNCHANGED <<recording, recorders>>

\* findUserSource fails: logged, no entry, no callback.
UnknownPlayerConnected(p) ==
    /\ p \notin playing
    /\ playing' = playing \cup {p}
    /\ UNCHANGED <<pathsInfo, recording, players, recorders>>

\* The last-reader callback runs, then the entry may go.
LastPlayerDisconnected(p) ==
    /\ p \in playing
    /\ Known(p)
    /\ NDEBUG \/ pathsInfo[p].hasPlayers
    /\ playing' = playing \ {p}
    /\ PutOrErase(p, [pathsInfo[p] EXCEPT !.hasPlayers = FALSE])
    /\ players' = players \ {p}
    /\ UNCHANGED <<recording, recorders>>

UnknownPlayerDisconnected(p) ==
    /\ p \in playing
    /\ ~Known(p)
    /\ NDEBUG
    /\ playing' = playing \ {p}
    /\ UNCHANGED <<pathsInfo, recording, players, recorders>>

RecorderConnected(p) ==
    /\ p \notin recording
    /\ NDEBUG \/ ~Info(p).hasRecorder
    /\ recording' = recording \cup {p}
    /\ Put(p, [Info(p) EXCEPT !.hasRecorder = TRUE])
    /\ recorders' = recorders \cup {p}
    /\ UNCHANGED <<playing, players>>

\* findDeviceSource fails.
UnknownRecorderConnected(p) ==
    /\ p \notin recording
    /\ recording' = recording \cup {p}
    /\ UNCHANGED <<pathsInfo, playing, players, recorders>>

RecorderDisconnected(p) ==
    /\ p \in recording
    /\ Known(p)
    /\ NDEBUG \/ pathsInfo[p].hasRecorder
    /\ recording' = recording \ {p}
    /\ PutOrErase(p, [pathsInfo[p] EXCEPT !.hasRecorder = FALSE])
    /\ recorders' = recorders \ {p}
    /\ UNCHANGED <<playing, players>>

UnknownRecorderDisconnected(p) ==
    /\ p \in recording
    /\ ~Known(p)
    /\ NDEBUG
    /\ recording' = recording \ {p}
    /\ UNCHANGED <<pathsInfo, playing, players, recorders>>

\* An assert on the entry fails: the caller left no entry, or one without the
\* mark, because the lookup of its connect had failed.
AssertionFails(p) ==
    /\ ~NDEBUG
    /\ \/ p \in playing /\ ~Info(p).hasPlayers
       \/ p \in recording /\ ~Info(p).hasRecorder

Crash ==
    /\ \E p \in Path : AssertionFails(p)
    /\ Restart

-----------------------------------------------------------------------------
\* Callbacks that reach nobody outside this component.
QuietNext(p) ==
    \/ UnknownPlayerConnected(p)
    \/ UnknownPlayerDisconnected(p)
    \/ RecorderConnected(p)
    \/ UnknownRecorderConnected(p)
    \/ RecorderDisconnected(p)
    \/ UnknownRecorderDisconnected(p)

=============================================================================
