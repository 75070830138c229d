------------------------------ MODULE DeviceBox ------------------------------
(***************************************************************************)
(* DeviceBox/Client.cpp and DeviceBoxMain.cpp around the Controller: the   *)
(* device box's connection to the control server.  Every error resets the  *)
(* controller, and the end of the reset arms the timer for the next        *)
(* connection.                                                             *)
(*                                                                         *)
(* NetworkCore, whose sources are not in the repository, connects, reads a *)
(* message when asked, and reports a failed write.                         *)
(***************************************************************************)
EXTENDS Controller

CONSTANT
    Updates     \* the server sends ClientConfigUpdated; none of this
                \* repository does, but the box handles it

ASSUME DeviceBoxAssumption == Updates \in BOOLEAN

VARIABLES
    conn,       \* the connection; "invalid" without a certificate or key
    reading,    \* a read is outstanding
    writing,    \* a write is outstanding
    server,     \* what the server will answer
    readyFor,   \* history: the sources that the server sent before ClientReady
    reported,   \* history: an error of this connection was handled
    timer,      \* _reconnectTimer is armed
    shuttingDown    \* NetworkCore::Client::shuttingDown()

connVars == <<conn, reading, writing, server, readyFor, reported>>
vars == <<controllerVars, connVars, timer, shuttingDown>>

Message ==
    [type : {"greeting"}] \cup
    [type : {"config", "updated"}, config : Configs] \cup
    [type : {"request", "stop"}, source : Sources]

ClientItem ==
    [do : {"connect", "clientDown", "readError", "writeError"}] \cup
    [do : {"connected"}, ok : BOOLEAN] \cup
    [do : {"message"}, message : Message, afterReady : BOOLEAN]

TypeOK ==
    /\ ControllerTypeOK
    /\ queue \in Seq(ControllerItem \cup ClientItem)
    /\ conn \in {"invalid", "connecting", "up", "lost"}
    /\ reading \in BOOLEAN
    /\ writing \in BOOLEAN
    /\ server \in {"silent", "greeting", "config"}
    /\ readyFor \in SUBSET Sources
    /\ reported \in BOOLEAN
    /\ timer \in BOOLEAN
    /\ shuttingDown \in BOOLEAN

NewConnection ==
    /\ reading' = FALSE
    /\ writing' = FALSE
    /\ server' = "silent"
    /\ readyFor' = {}
    /\ reported' = FALSE

\* DeviceBoxMain connects at once, if ClientSecureContext is valid.
Init ==
    /\ ControllerInit
    /\ clash = FALSE
    /\ conn \in {"invalid", "connecting"}
    /\ reading = FALSE
    /\ writing = FALSE
    /\ server = "silent"
    /\ readyFor = {}
    /\ reported = FALSE
    /\ timer = FALSE
    /\ shuttingDown = FALSE

-----------------------------------------------------------------------------
(* The network and the server.                                             *)

Connected(ok) ==
    /\ conn = "connecting"
    /\ ok => ~shuttingDown
    /\ Arrives([do |-> "connected", ok |-> ok])
    /\ conn' = IF ok THEN "up" ELSE "lost"
    /\ UNCHANGED <<phase, handlers, config, dropbox, freed, clash, timer,
                   reading, writing, server, readyFor, reported, shuttingDown>>

Breaks ==
    /\ Running
    /\ conn = "up"
    /\ conn' = "lost"
    /\ UNCHANGED <<controllerVars, reading, writing, server, readyFor,
                   reported, timer, shuttingDown>>

\* ServerSession answers the greeting and the request for a configuration; for
\* streams it asks from the beginning of the connection.
Sends(message) ==
    CASE message.type \in {"greeting", "config"} ->
            server = message.type /\ server' = "silent"
      [] message.type = "updated" -> Updates /\ UNCHANGED server
      [] message.type \in {"request", "stop"} -> UNCHANGED server

ReadCompletes(message) ==
    /\ reading
    /\ conn = "up"
    /\ Sends(message)
    /\ LET afterReady == message.type = "request" /\ message.source \in readyFor
       IN  Arrives([do |-> "message", message |-> message,
                    afterReady |-> afterReady])
    /\ reading' = FALSE
    /\ UNCHANGED <<phase, handlers, config, dropbox, freed, clash, conn,
                   writing, readyFor, reported, timer, shuttingDown>>

ReadFails ==
    /\ Running
    /\ reading
    /\ conn = "lost"
    /\ queue' = Append(queue, [do |-> "readError"])
    /\ reading' = FALSE
    /\ UNCHANGED <<phase, handlers, config, dropbox, freed, clash, conn,
                   writing, server, readyFor, reported, timer, shuttingDown>>

WriteEnds ==
    /\ writing
    /\ \/ conn = "up" /\ Running /\ UNCHANGED queue
       \/ conn = "lost" /\ Arrives([do |-> "writeError"])
    /\ writing' = FALSE
    /\ UNCHANGED <<phase, handlers, config, dropbox, freed, clash, conn,
                   reading, server, readyFor, reported, timer, shuttingDown>>

-----------------------------------------------------------------------------
(* Client.                                                                 *)

\* Client::onError.
OnError ==
    /\ Posts(<<[do |-> "reset", goal |-> [to |-> "connect"]]>>)
    /\ clash' = (clash \/ reported \/ conn # "lost")
    /\ reported' = TRUE

\* Client::onConnected.
RunConnected ==
    /\ Runs("connected")
    /\ IF Head(queue).ok
       THEN /\ Posts(<<>>)
            /\ reading' = TRUE
            /\ writing' = TRUE
            /\ server' = "greeting"
            /\ UNCHANGED <<clash, reported>>
       ELSE OnError /\ UNCHANGED <<reading, writing, server>>
    /\ UNCHANGED <<phase, handlers, config, dropbox, freed, conn, readyFor,
                   timer, shuttingDown>>

\* Client::onMessage and onWriteFail with an error.
RunError ==
    /\ Runs("readError") \/ Runs("writeError")
    /\ OnError
    /\ UNCHANGED <<phase, handlers, config, dropbox, freed, conn, reading,
                   writing, server, readyFor, timer, shuttingDown>>

\* Mutant: the message is passed where its configuration should be.
ToControllerUnpacked(item) ==
    IF item.message.type \in {"config", "updated"}
    THEN [do |-> "load", config |-> item.message]
    ELSE [do |-> "stop", source |-> item.message.source]

\* What the handlers of the messages post to the controller.
ToController(item) ==
    CASE item.message.type \in {"config", "updated"} ->
            [do |-> "load", config |-> item.message.config]
      [] item.message.type = "request" ->
            [do |-> "request", source |-> item.message.source,
             afterReady |-> item.afterReady]
      [] item.message.type = "stop" ->
            [do |-> "stop", source |-> item.message.source]

\* Client::onMessage of each message; all of them read on.
RunMessage ==
    /\ Runs("message")
    /\ IF Head(queue).message.type = "greeting"
       THEN Posts(<<>>) /\ writing' = TRUE /\ server' = "config"
       ELSE /\ Posts(<<ToController(Head(queue))>>)
            /\ UNCHANGED <<writing, server>>
    /\ reading' = TRUE
    /\ UNCHANGED <<phase, handlers, config, dropbox, freed, clash, conn,
                   readyFor, reported, timer, shuttingDown>>

\* Client::sendReady and sendStreamStatus.  ClientReady is empty: it does not
\* say which of the sources that the server sent were loaded.
RunSend ==
    /\ \/ /\ Runs("ready")
          /\ readyFor' = IF conn = "up"
                          THEN DOMAIN config.sources \cup config.skipped
                          ELSE readyFor
       \/ Runs("status") /\ UNCHANGED readyFor
    /\ Posts(<<>>)
    /\ writing' = TRUE
    /\ UNCHANGED <<phase, handlers, config, dropbox, freed, clash, conn,
                   reading, server, reported, timer, shuttingDown>>

\* Client::scheduleConnect.
RunScheduleConnect ==
    /\ Runs("scheduleConnect")
    /\ Posts(<<>>)
    /\ timer' = ~shuttingDown
    /\ UNCHANGED <<phase, handlers, config, dropbox, freed, clash, connVars,
                   shuttingDown>>

\* Mutant: the timer stays armed.
TimerExpiresAgain ==
    /\ Running
    /\ timer
    /\ Arrives([do |-> "connect"])
    /\ UNCHANGED <<phase, handlers, config, dropbox, freed, clash, connVars,
                   timer, shuttingDown>>

TimerExpires ==
    /\ Running
    /\ timer
    /\ timer' = FALSE
    /\ queue' = Append(queue, [do |-> "connect"])
    /\ UNCHANGED <<phase, handlers, config, dropbox, freed, clash, connVars,
                   shuttingDown>>

\* Client::connect.
RunConnect ==
    /\ Runs("connect")
    /\ Posts(<<>>)
    /\ IF shuttingDown THEN UNCHANGED connVars
       ELSE conn' = "connecting" /\ NewConnection
    /\ UNCHANGED <<phase, handlers, config, dropbox, freed, clash, timer,
                   shuttingDown>>

-----------------------------------------------------------------------------
(* The process.                                                            *)

\* SIGTERM or SIGINT, and Client::shutdown, which closes the connection.
Signal ==
    /\ Running
    /\ ~shuttingDown
    /\ shuttingDown' = TRUE
    /\ timer' = FALSE
    /\ conn' = IF conn = "up" THEN "lost" ELSE conn
    /\ queue' = Append(queue, [do |-> "clientDown"])
    /\ UNCHANGED <<phase, handlers, config, dropbox, freed, clash, reading,
                   writing, server, readyFor, reported>>

\* clientShuttedDown calls Controller::shutdown.
RunClientDown ==
    /\ Runs("clientDown")
    /\ Posts(StopHandleSources([to |-> "exit"]))
    /\ clash' = (clash \/ Resetting \/ Queued({"load"}))
    /\ UNCHANGED <<phase, handlers, config, dropbox, freed, connVars, timer,
                   shuttingDown>>

\* controllerShuttedDown stops the io_service.
RunExit ==
    /\ Runs("exit")
    /\ Posts(<<>>)
    /\ phase' = "exited"
    /\ UNCHANGED <<handlers, config, dropbox, freed, clash, connVars, timer,
                   shuttingDown>>

\* systemd starts the process again.
Restart ==
    /\ phase = "crashed"
    /\ phase' = "running"
    /\ queue' = <<>>
    /\ handlers' = <<>>
    /\ config' = NoConfig
    /\ dropbox' = NewDropbox
    /\ freed' = FALSE
    /\ clash' = FALSE
    /\ conn' = "connecting"
    /\ NewConnection
    /\ timer' = FALSE
    /\ shuttingDown' = FALSE

-----------------------------------------------------------------------------
ClientUnchanged == UNCHANGED <<connVars, timer, shuttingDown>>

\* A step of the io thread.
Run ==
    \/ RunController /\ ClientUnchanged
    \/ RunConnected
    \/ RunError
    \/ RunMessage
    \/ RunSend
    \/ RunScheduleConnect
    \/ RunConnect
    \/ RunClientDown
    \/ RunExit

Environment ==
    \/ ControllerEnvironment /\ ClientUnchanged
    \/ \E ok \in BOOLEAN : Connected(ok)
    \/ Breaks
    \/ \E message \in Message : ReadCompletes(message)
    \/ ReadFails
    \/ WriteEnds
    \/ TimerExpires
    \/ Signal
    \/ Restart

Next == Run \/ Environment

Spec == Init /\ [][Next]_vars

\* The io_service runs what it has, a stopped streamer is destroyed (see
\* StreamingHandler), a curl thread that may end does, timers expire, and a
\* read that waits notices that its connection is lost.
FairSpec ==
    /\ Spec
    /\ WF_vars(Run)
    /\ \A s \in Sources : WF_vars(DestroyStreaming(s) /\ ClientUnchanged)
    /\ WF_vars(DropboxEnds /\ ClientUnchanged)
    /\ WF_vars(ReadFails)
    /\ WF_vars(TimerExpires)

-----------------------------------------------------------------------------
(* Properties.                                                             *)

\* The assertion of Controller::removeSource: its source has handlers.
RemoveAssertion ==
    Runs("streamerDown") => Head(queue).source \in DOMAIN handlers

\* The assertion of clearConfig.
ClearAssertion ==
    Runs("dropboxDown") /\ Head(queue).goal.to # "exit" => DOMAIN handlers = {}

\* The part of removeSource's second assertion that is about the streamer
\* (Controller.cpp:98).
IdleAssertion ==
    Runs("streamerDown") /\ Head(queue).source \in DOMAIN handlers =>
        handlers[Head(queue).source].streamer = "idle"

\* A reset that meets no other one finds the handlers that it removes, and
\* their streamers idle, and leaves nothing behind that refers to them but the
\* folders of sources with storage.  Their part of the assertion
\* (Controller.cpp:100) is not kept: a timer or an answer still refers to such
\* a folder, and only a process that has used Dropbox crashes of it.  With a
\* server that sends updates, it may still ask for streams during a reset, and
\* the streamer's part is not kept either.
LoneResetFreesFoldersOnly ==
    ~clash =>
        /\ RemoveAssertion
        /\ Updates \/ IdleAssertion
        /\ ClearAssertion
        /\ ~Queued({"dangling"})
        /\ freed \/ phase = "crashed" => dropbox.used

\* The sources that are handled are those of the configuration, none left over
\* and none missing, after any number of updates, errors and restarts, as long
\* as none of them meets the reset of another one (clash).
HandledIsLoaded ==
    phase = "running" /\ ~clash /\ ~Resetting /\ ~dropbox.gone =>
        DOMAIN handlers = DOMAIN config.sources

\* What the server asks for after ClientReady (ServerSession.cpp:220), of
\* the sources it has sent, finds its handler: ClientReady is not sent too
\* early, and no reset has removed the handler.  But it is sent as well for a
\* source that the box could not load (Config.cpp:54-55), of which a request
\* fails the assertion of Controller.cpp:192.
RestoredIsHandled ==
    Runs("request") /\ Head(queue).afterReady =>
        \/ clash
        \/ Head(queue).source \in DOMAIN handlers
        \/ Head(queue).source \in config.skipped

\* The box connects only when its connection is lost, as long as no connection
\* was reset twice and no two resets have met (clash): what read and write
\* errors, timers and ends of resets lead to is one connection at a time.
ConnectsOnce == Runs("connect") => clash \/ conn = "lost"

\* The limits of a new configuration, in megabytes, are those of the handlers,
\* also of handlers that an update finds.  One of 4 GB or more does not fit the
\* 32 bits of Config.cpp:38: the box then keeps less, or nothing at all.
StorageAsConfigured ==
    [][RunLoad /\ ~clash =>
        \A s \in DOMAIN handlers' :
            LET sent == Head(queue).config.sources[s]
            IN  IF sent < WordMegabytes THEN handlers'[s].storage = sent
                ELSE handlers'[s].storage < sent]_vars

\* A reset ends, and leads where it should: a box that has lost its connection
\* connects again, and a signal ends the process, through the callbacks of every
\* handler and of Dropbox.  It does not when the box has used Dropbox, whose
\* thread then never ends (UsedNeverEnds of Dropbox), or when two resets meet,
\* of which one may lose the other's callback (clash).
ResetsEnd ==
    /\ conn = "lost" ~>
          conn # "lost" \/ shuttingDown \/ dropbox.used \/ clash
    /\ shuttingDown ~> phase # "running" \/ dropbox.used \/ clash
=============================================================================
