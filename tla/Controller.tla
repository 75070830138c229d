------------------------------ MODULE Controller -----------------------------
(***************************************************************************)
(* DeviceBox/Controller.cpp and DeviceBox/Config.cpp: the device box's     *)
(* configuration and, per source, its handlers (recorder, Dropbox folder   *)
(* and streamer), which a reset shuts down one after the other.            *)
(*                                                                         *)
(* The io_service is a FIFO queue of handlers.  A goal is what a reset     *)
(* leads to: the finished callback that is passed from step to step.       *)
(* The streamer is StreamingHandler without its queue; Dropbox is of       *)
(* interest only as something that must end before a reset can.            *)
(* Assertions are off, as in a release build.                              *)
(***************************************************************************)
EXTENDS Naturals, Sequences, FiniteSets, SequencesExt

CONSTANTS
    Sources,    \* ids of cameras
    Configs,    \* the configurations that the server may send
    MaxQueue,   \* bound: queued handlers, for what comes from outside
    PastClash   \* bound: FALSE ends a behaviour where two resets meet, past
                \* which next to nothing holds

\* The storage of a source is in megabytes; a token is present or not.
ASSUME ControllerAssumption ==
    /\ IsFiniteSet(Sources)
    /\ MaxQueue \in Nat \ {0}
    /\ PastClash \in BOOLEAN
    /\ \A c \in Configs :
          /\ DOMAIN c = {"sources", "token"}
          /\ DOMAIN c.sources \subseteq Sources
          /\ \A s \in DOMAIN c.sources : c.sources[s] \in Nat
          /\ c.token \in BOOLEAN

VARIABLES
    queue,      \* the io_service
    phase,      \* of the process
    handlers,   \* _handlers
    config,     \* _config, and the sources that could not be loaded
    dropbox,    \* _dropbox: used since it was created, destroyed, and the
                \* goal that waits for its end
    freed,      \* a folder was removed that a timer or an answer refers to
    clash       \* history: a reset met another one or a configuration that
                \* waits, or one connection was reset twice

controllerVars == <<queue, phase, handlers, config, dropbox, freed, clash>>

Goal ==
    [to : {"none", "connect", "exit"}] \cup [to : {"load"}, config : Configs]
NoGoal == [to |-> "none"]

Handler ==
    [streamer : {"idle", "live", "stopped"},
     shuttedDown : Goal,   \* StreamingHandler::Private::shuttedDown
     storage : Nat]        \* dropboxMaxStorage

\* Steps of a reset, in their order.
ResetStep == {"splitterDown", "folderDown", "streamerDown",
              "stopDropbox", "dropboxDown"}

ControllerItem ==
    [do : {"splitterDown", "folderDown", "streamerDown"},
     source : Sources, goal : Goal] \cup
    [do : {"reset", "stopDropbox", "dropboxDown"}, goal : Goal] \cup
    [do : {"load"}, config : Configs] \cup
    [do : {"request"}, source : Sources, afterReady : BOOLEAN] \cup
    [do : {"stop"}, source : Sources] \cup
    [do : {"dangling", "ready", "status", "scheduleConnect", "exit"}]

NoConfig == [sources |-> <<>>, token |-> FALSE, skipped |-> {}]

ControllerTypeOK ==
    /\ phase \in {"running", "exited", "crashed"}
    /\ DOMAIN handlers \subseteq Sources
    /\ \A s \in DOMAIN handlers : handlers[s] \in Handler
    /\ DOMAIN config.sources \subseteq Sources
    /\ config.token \in BOOLEAN
    /\ config.skipped \in SUBSET Sources
    /\ dropbox \in [used : BOOLEAN, gone : BOOLEAN, goal : Goal]
    /\ freed \in BOOLEAN
    /\ clash \in BOOLEAN

NewDropbox == [used |-> FALSE, gone |-> FALSE, goal |-> NoGoal]

ControllerInit ==
    /\ queue = <<>>
    /\ phase = "running"
    /\ handlers = <<>>
    /\ config = NoConfig
    /\ dropbox = NewDropbox
    /\ freed = FALSE

Running == phase = "running" /\ (clash => PastClash)

Runs(do) == Running /\ queue # <<>> /\ Head(queue).do = do
Posts(items) == queue' = Tail(queue) \o items
Queued(dos) == \E i \in DOMAIN queue : queue[i].do \in dos

\* What does not come from the io thread itself.
Arrives(item) ==
    /\ Running
    /\ Len(queue) < MaxQueue
    /\ queue' = Append(queue, item)

\* A reset is under way.
Resetting ==
    \/ Queued(ResetStep)
    \/ \E s \in DOMAIN handlers : handlers[s].shuttedDown # NoGoal
    \/ dropbox.goal # NoGoal

-----------------------------------------------------------------------------
(* Config.                                                                 *)

\* Config::empty.
Empty == DOMAIN config.sources = {} /\ ~config.token

\* dropboxmaxstorage() * 1024 * 1024 is a product of 32-bit numbers, here in
\* megabytes.
WordMegabytes == 4096

\* Mutant: the number is taken for gigabytes.
MaxStorageOfGigabytes(megabytes) == megabytes * 1024 % WordMegabytes

MaxStorage(megabytes) == megabytes % WordMegabytes

\* Config::loadConfig; a source without a temporary directory is left out.
Loaded(c, skipped) ==
    [sources |->
        [s \in DOMAIN c.sources \ skipped |-> MaxStorage(c.sources[s])],
     token |-> c.token,
     skipped |-> skipped]

-----------------------------------------------------------------------------
(* Resets.                                                                 *)

\* Controller::stopHandleSources, with SplitHandler::shutdown of each source,
\* which posts its end at once.
StopHandleSources(goal) ==
    IF DOMAIN handlers = {}
    THEN <<[do |-> "stopDropbox", goal |-> goal]>>
    ELSE LET order == SetToSeq(DOMAIN handlers)
         IN  [i \in DOMAIN order |->
                 [do |-> "splitterDown", source |-> order[i], goal |-> goal]]

\* Controller::reset and shutdown.
RunReset ==
    /\ Runs("reset")
    /\ Posts(StopHandleSources(Head(queue).goal))
    /\ clash' = (clash \/ Resetting \/ Queued({"load"}))
    /\ UNCHANGED <<phase, handlers, config, dropbox, freed>>

\* DropboxFolder::shutdown posts its end at once as well.
RunSplitterDown ==
    /\ Runs("splitterDown")
    /\ Posts(<<[Head(queue) EXCEPT !.do = "folderDown"]>>)
    /\ UNCHANGED <<phase, handlers, config, dropbox, freed, clash>>

\* Mutant: a streamer that is being stopped is not asked to report.
RunFolderDownStopped ==
    /\ Runs("folderDown")
    /\ LET s == Head(queue).source
       IN  IF handlers[s].streamer = "idle"
           THEN /\ Posts(<<[Head(queue) EXCEPT !.do = "streamerDown"]>>)
                /\ UNCHANGED handlers
           ELSE /\ Posts(<<>>)
                /\ handlers[s].streamer = "stopped" => UNCHANGED handlers
                /\ handlers[s].streamer = "live" =>
                      handlers' =
                          [handlers EXCEPT ![s].streamer = "stopped",
                                           ![s].shuttedDown = Head(queue).goal]
    /\ UNCHANGED <<phase, config, dropbox, freed, clash>>

\* Mutant: the end is reported although the streamer is still to be destroyed.
RunFolderDownAtOnce ==
    /\ Runs("folderDown")
    /\ LET s == Head(queue).source
       IN  /\ Posts(<<[Head(queue) EXCEPT !.do = "streamerDown"]>>)
           /\ handlers' = IF handlers[s].streamer = "idle" THEN handlers
                          ELSE [handlers EXCEPT ![s].streamer = "stopped"]
    /\ UNCHANGED <<phase, config, dropbox, freed, clash>>

\* StreamingHandler::shutdown; without its assertion a second one replaces
\* the callback of the first.
RunFolderDown ==
    /\ Runs("folderDown")
    /\ LET s == Head(queue).source
       IN  IF handlers[s].streamer = "idle"
           THEN /\ Posts(<<[Head(queue) EXCEPT !.do = "streamerDown"]>>)
                /\ UNCHANGED handlers
           ELSE /\ Posts(<<>>)
                /\ handlers' =
                      [handlers EXCEPT ![s].streamer = "stopped",
                                       ![s].shuttedDown = Head(queue).goal]
    /\ UNCHANGED <<phase, config, dropbox, freed, clash>>

\* StreamingHandler::destroyStreaming, which follows every stop.
DestroyStreaming(s) ==
    /\ Running
    /\ s \in DOMAIN handlers
    /\ handlers[s].streamer = "stopped"
    /\ handlers' = [handlers EXCEPT ![s].streamer = "idle",
                                    ![s].shuttedDown = NoGoal]
    /\ queue' = IF handlers[s].shuttedDown = NoGoal THEN queue
                ELSE Append(queue, [do |-> "streamerDown", source |-> s,
                                    goal |-> handlers[s].shuttedDown])
    /\ UNCHANGED <<phase, config, dropbox, freed, clash>>

\* The callbacks of a reset hold references to the folder and the streamer;
\* what they do once these are gone is undefined, and behaviours end there.
Dangle(items, s) ==
    [i \in DOMAIN items |->
        IF items[i].do \in {"splitterDown", "folderDown"} /\ items[i].source = s
        THEN [do |-> "dangling"] ELSE items[i]]

\* Controller::removeSource.  Behaviours end as well where a Streamer outlives
\* its handlers.
RemoveSource ==
    LET s == Head(queue).source
    IN  /\ s \in DOMAIN handlers => handlers[s].streamer = "idle"
        /\ queue' = Dangle(Tail(queue), s) \o
               IF DOMAIN handlers \ {s} = {}
               THEN <<[do |-> "stopDropbox", goal |-> Head(queue).goal]>>
               ELSE <<>>
        /\ handlers' = [r \in DOMAIN handlers \ {s} |-> handlers[r]]
        /\ freed' =
              (freed \/ (s \in DOMAIN handlers /\ handlers[s].storage > 0))

RunStreamerDown ==
    /\ Runs("streamerDown")
    /\ RemoveSource
    /\ UNCHANGED <<phase, config, dropbox, clash>>

\* The timer of a removed folder, or the answer to its request.
UseFreedFolder ==
    /\ Running
    /\ freed
    /\ phase' = "crashed"
    /\ UNCHANGED <<queue, handlers, config, dropbox, freed, clash>>

\* Dropbox::reset and shutdown.  Of two callbacks one gets lost.
RunStopDropbox ==
    /\ Runs("stopDropbox")
    /\ LET goal == Head(queue).goal
       IN  IF dropbox.gone
           THEN /\ Posts(<<[do |-> "dropboxDown", goal |-> goal]>>)
                /\ UNCHANGED dropbox
           ELSE /\ Posts(<<>>)
                /\ \E g \in {goal, dropbox.goal} \ {NoGoal} :
                      dropbox' = [dropbox EXCEPT !.goal = g]
    /\ UNCHANGED <<phase, handlers, config, freed, clash>>

\* recreateInternal and resetInternal: the curl thread has ended, which it
\* does not once it was used (UsedNeverEnds of Dropbox).
DropboxEnds ==
    /\ Running
    /\ dropbox.goal # NoGoal
    /\ ~dropbox.used
    /\ queue' = Append(queue, [do |-> "dropboxDown", goal |-> dropbox.goal])
    /\ dropbox' = [NewDropbox EXCEPT !.gone = (dropbox.goal.to = "exit")]
    /\ UNCHANGED <<phase, handlers, config, freed, clash>>

\* Mutant: the configuration stays.
ConfigAfterReset == config

\* clearConfig.
ClearedConfig == NoConfig

\* clearConfig, or dropboxShutdowned, and the callback they post.
RunDropboxDown ==
    /\ Runs("dropboxDown")
    /\ LET goal == Head(queue).goal
       IN  CASE goal.to = "connect" ->
                   /\ Posts(<<[do |-> "scheduleConnect"]>>)
                   /\ config' = ClearedConfig
             [] goal.to = "load" ->
                   /\ Posts(<<[do |-> "load", config |-> goal.config]>>)
                   /\ config' = ClearedConfig
             [] goal.to = "exit" ->
                   Posts(<<[do |-> "exit"]>>) /\ UNCHANGED config
    /\ UNCHANGED <<phase, handlers, dropbox, freed, clash>>

-----------------------------------------------------------------------------
(* Configurations and streams.                                             *)

\* Controller::loadConfig, and updateConfig, of a box that has one.
RunLoadAgain ==
    /\ Runs("load")
    /\ ~Empty
    /\ Posts(StopHandleSources([to |-> "load", config |-> Head(queue).config]))
    /\ clash' = (clash \/ Resetting)
    /\ UNCHANGED <<phase, handlers, config, dropbox, freed>>

\* Mutant: only sources with storage get handlers.
StartRecordedSources(c) ==
    /\ handlers' =
          [s \in {r \in DOMAIN c.sources : c.sources[r] > 0} |->
              [streamer |-> "idle", shuttedDown |-> NoGoal,
               storage |-> c.sources[s]]]
    /\ dropbox' =
          [dropbox EXCEPT !.used =
              @ \/ \E s \in DOMAIN c.sources : c.sources[s] > 0]

\* startHandleSource of each source, with DropboxFolder::startSync; a source
\* that has handlers keeps them.
StartHandleSources(c) ==
    /\ handlers' =
          [s \in DOMAIN handlers \cup DOMAIN c.sources |->
              IF s \in DOMAIN handlers THEN handlers[s]
              ELSE [streamer |-> "idle", shuttedDown |-> NoGoal,
                    storage |-> c.sources[s]]]
    /\ dropbox' =
          [dropbox EXCEPT !.used =
              \/ @
              \/ ~dropbox.gone /\ \E s \in DOMAIN c.sources : c.sources[s] > 0]

RunLoad ==
    /\ Runs("load")
    /\ Empty
    /\ \E skipped \in SUBSET DOMAIN Head(queue).config.sources :
          /\ config' = Loaded(Head(queue).config, skipped)
          /\ StartHandleSources(config')
    /\ Posts(<<[do |-> "ready"]>>)
    /\ UNCHANGED <<phase, freed, clash>>

\* Controller::streamRequested; a request without a handler is passed over.
RunRequest ==
    /\ Runs("request")
    /\ Posts(<<>>)
    /\ LET s == Head(queue).source
       IN  IF s \in DOMAIN handlers /\ handlers[s].streamer = "idle"
           THEN handlers' = [handlers EXCEPT ![s].streamer = "live"]
           ELSE UNCHANGED handlers
    /\ UNCHANGED <<phase, config, dropbox, freed, clash>>

\* Controller::stopStream.
RunStop ==
    /\ Runs("stop")
    /\ Posts(<<>>)
    /\ LET s == Head(queue).source
       IN  IF s \in DOMAIN handlers /\ handlers[s].streamer = "live"
           THEN handlers' = [handlers EXCEPT ![s].streamer = "stopped"]
           ELSE UNCHANGED handlers
    /\ UNCHANGED <<phase, config, dropbox, freed, clash>>

\* The pipeline plays, or fails, and the server is to be told.
Streams(s, streamer) ==
    /\ s \in DOMAIN handlers
    /\ handlers[s].streamer = "live"
    /\ ~Queued({"status"})
    /\ Arrives([do |-> "status"])
    /\ handlers' = [handlers EXCEPT ![s].streamer = streamer]
    /\ UNCHANGED <<phase, config, dropbox, freed, clash>>

-----------------------------------------------------------------------------
RunController ==
    \/ RunReset
    \/ RunSplitterDown
    \/ RunFolderDown
    \/ RunStreamerDown
    \/ RunStopDropbox
    \/ RunDropboxDown
    \/ RunLoadAgain
    \/ RunLoad
    \/ RunRequest
    \/ RunStop

ControllerEnvironment ==
    \/ \E s \in Sources : DestroyStreaming(s)
    \/ DropboxEnds
    \/ \E s \in Sources, streamer \in {"live", "stopped"} : Streams(s, streamer)
    \/ UseFreedFolder
=============================================================================
