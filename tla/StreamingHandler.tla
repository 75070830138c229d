-------------------------- MODULE StreamingHandler -------------------------
(***************************************************************************)
(* DeviceBox/StreamingHandler.cpp: the handler of one camera in the device *)
(* box, and the Streamer it creates for as long as the camera streams.     *)
(*                                                                         *)
(* Everything runs on the one thread of the io_service, which takes        *)
(* handlers from a FIFO queue.  GStreamer's threads run beside it: a       *)
(* message on the pipeline's bus appends a handler that refers to the      *)
(* Streamer and counts the reference in Common/RefCounter.h.  The handler  *)
(* also meets Client and Controller, of which this module has what touches *)
(* it: messages read one after the other, and the reset that shuts it      *)
(* down.                                                                   *)
(***************************************************************************)
EXTENDS Naturals, Sequences, FiniteSets

CONSTANTS
    MaxBus,     \* bound: bus handlers queued at a time
    ReadsWhileResetting
        \* TRUE: the connection is read on while the controller resets, as
        \* after ClientConfigUpdated or a failed write; FALSE: the reset
        \* follows a failed read, after which none is started

ASSUME StreamingHandlerAssumption ==
    /\ MaxBus \in Nat \ {0}
    /\ ReadsWhileResetting \in BOOLEAN

VARIABLES
    queue,      \* the io_service: handlers in the order they will run
    io,         \* "idle", or inside a handler that GStreamer interleaves with
    streamer,   \* "absent", or the Streamer: "live", or "stopped" (no pipeline)
    refs,       \* Streamer::_thisRefCounter
    shuttedDown,\* TRUE when Private::shuttedDown is set
    client,     \* how far the connection and its reset are
    wanted,     \* history: the last accepted command is a request
    told,       \* history: a failure was sent since it was accepted
    lost        \* history: an update of the counter has been lost

vars == <<queue, io, streamer, refs, shuttedDown, client, wanted, told, lost>>

\* Reads that have completed, and the commands they post.
ReadItem == {"readRequest", "readStop"}
\* Handlers that refer to the Streamer; an EOS is handled as an error.
BusItem == {"playing", "error"}
\* Handlers that refer to the StreamingHandler.
HandlerItem == {"streaming", "failed", "destroy"}
Item ==
    ReadItem \cup BusItem \cup HandlerItem \cup
    {"request", "stop", "reset", "shutdown", "finished",
     "sendFailed",
     "dangling"} \* a BusItem whose Streamer has been destroyed

TypeOK ==
    /\ queue \in Seq(Item)
    /\ io \in {"idle", "starting", "failing", "crashed"}
    /\ streamer \in {"absent", "live", "stopped"}
    /\ refs \in Nat
    /\ shuttedDown \in BOOLEAN
    /\ client \in {"reading", "resetting", "closing", "waiting", "over"}
    /\ wanted \in BOOLEAN
    /\ told \in BOOLEAN
    /\ lost \in BOOLEAN

Init ==
    /\ queue = <<>>
    /\ io = "idle"
    /\ streamer = "absent"
    /\ refs = 0
    /\ shuttedDown = FALSE
    /\ client = "reading"
    /\ wanted = FALSE
    /\ told = FALSE
    /\ lost = FALSE

Queued(items) == \E i \in DOMAIN queue : queue[i] \in items
BusItems == {i \in DOMAIN queue : queue[i] \in BusItem}

\* The io thread takes a handler, which posts others behind all that waits.
Runs(item, posts) ==
    /\ io = "idle"
    /\ queue # <<>>
    /\ Head(queue) = item
    /\ queue' = Tail(queue) \o posts

When(condition, item) == IF condition THEN <<item>> ELSE <<>>

-----------------------------------------------------------------------------
(* The connection.  A read is started when the previous message has been   *)
(* handled, so at most one completed read is queued.                       *)

Reading ==
    IF ReadsWhileResetting THEN {"reading", "resetting", "closing", "waiting"}
    ELSE {"reading"}

ReadCompletes(read) ==
    /\ client \in Reading
    /\ io # "crashed"
    /\ ~Queued(ReadItem)
    /\ queue' = Append(queue, read)
    /\ UNCHANGED <<io, streamer, refs, shuttedDown, client, wanted, told,
                   lost>>

\* Client::onMessage posts the command and reads on.
RunRead ==
    /\ \/ Runs("readRequest", <<"request">>)
       \/ Runs("readStop", <<"stop">>)
    /\ UNCHANGED <<io, streamer, refs, shuttedDown, client, wanted, told,
                   lost>>

\* Client::onError, or onMessage(ClientConfigUpdated), posts the reset of
\* the controller.
Reset ==
    /\ client = "reading"
    /\ io # "crashed"
    /\ ~Queued(ReadItem)
    /\ client' = "resetting"
    /\ queue' = Append(queue, "reset")
    /\ UNCHANGED <<io, streamer, refs, shuttedDown, wanted, told, lost>>

\* Controller::stopHandleSources: recorder, folder and streamer are shut
\* down one after the other; how long the first two take is not known.
RunReset ==
    /\ Runs("reset", <<>>)
    /\ client' = "closing"
    /\ UNCHANGED <<io, streamer, refs, shuttedDown, wanted, told, lost>>

DropboxFolderShuttedDown ==
    /\ client = "closing"
    /\ io # "crashed"
    /\ client' = "waiting"
    /\ queue' = Append(queue, "shutdown")
    /\ UNCHANGED <<io, streamer, refs, shuttedDown, wanted, told, lost>>

\* Controller::removeSource.  Its assertion is RemovedInactive below.
RunFinished ==
    /\ Runs("finished", <<>>)
    /\ client' = "over"
    /\ UNCHANGED <<io, streamer, refs, shuttedDown, wanted, told, lost>>

\* The next configuration creates the handler anew.
StartHandleSource ==
    /\ client = "over"
    /\ io # "crashed"
    /\ client' = "reading"
    /\ UNCHANGED <<queue, io, streamer, refs, shuttedDown, wanted, told, lost>>

-----------------------------------------------------------------------------
(* GStreamer's threads: Streamer::threadedBusMessage.                      *)

\* Each message counts its reference and posts its handler.  Two threads at
\* it together may count one reference for both.
BusMessage(item) ==
    /\ streamer = "live"
    /\ io # "crashed"
    /\ Cardinality(BusItems) < MaxBus
    /\ queue' = Append(queue, item)
    /\ refs' = refs + 1
    /\ UNCHANGED <<io, streamer, shuttedDown, client, wanted, told, lost>>

BusMessagesCollide(first, second) ==
    /\ streamer = "live"
    /\ io # "crashed"
    /\ Cardinality(BusItems) + 1 < MaxBus
    /\ queue' = queue \o <<first, second>>
    /\ refs' = refs + 1
    /\ UNCHANGED <<io, streamer, shuttedDown, client, wanted, told>>
    /\ lost' = TRUE

-----------------------------------------------------------------------------
(* The Streamer's references.                                              *)

\* Mutant: the pipeline is not looked at.
NoMoreRefsAtAll(state) == When(refs = 1, "destroy")

\* Mutant: the last reference posts nothing.
NobodyIsTold(state) == <<>>

\* ~RefCounter of a handler that has run: the last reference to a Streamer
\* without pipeline posts its destruction.
NoMoreRefs(state) == When(refs = 1 /\ state = "stopped", "destroy")

\* Mutant: the references are not looked at.
SafeAnyway == <<"destroy">>

\* Streamer::stopStream: GStreamer stops, and without references the
\* destruction is posted at once.  Its messages that arrive until it has
\* stopped are queued behind all that waits, as if they had come just before.
SafeToDestroy == When(refs = 0, "destroy")

-----------------------------------------------------------------------------
(* StreamingHandler::stream.                                               *)

\* "Streamer is active already", also when it only waits to be destroyed.
RunRequestActive ==
    /\ streamer # "absent"
    /\ Runs("request", <<>>)
    /\ UNCHANGED <<io, streamer, refs, shuttedDown, client, wanted, told,
                   lost>>

\* "Streamer init failed": an element of the pipeline is missing.
RunRequestInvalid ==
    /\ streamer = "absent"
    /\ Runs("request", <<"sendFailed">>)
    /\ wanted' = TRUE
    /\ told' = FALSE
    /\ UNCHANGED <<io, streamer, refs, shuttedDown, client, lost>>

RunRequest ==
    /\ streamer = "absent"
    /\ Runs("request", <<>>)
    /\ io' = "starting"
    /\ streamer' = "live"
    /\ refs' = 0
    /\ wanted' = TRUE
    /\ told' = FALSE
    /\ UNCHANGED <<shuttedDown, client, lost>>

\* Streamer::stream, when gst_element_set_state(PLAYING) returns SUCCESS,
\* ASYNC or FAILURE.  After a FAILURE the Streamer stays.
Started(posts) ==
    /\ io = "starting"
    /\ posts \in {<<"streaming">>, <<>>, <<"failed">>}
    /\ io' = "idle"
    /\ queue' = queue \o posts
    /\ UNCHANGED <<streamer, refs, shuttedDown, client, wanted, told, lost>>

-----------------------------------------------------------------------------
(* The handlers of the bus.                                                *)

\* Streamer::asyncPlaying.
RunPlaying ==
    /\ streamer # "absent"
    /\ refs > 0
    /\ Runs("playing", <<"streaming">> \o NoMoreRefs(streamer))
    /\ refs' = refs - 1
    /\ UNCHANGED <<io, streamer, shuttedDown, client, wanted, told, lost>>

\* The same while a bus message arrives: one of the two updates is lost.
\* MaxBus bounds what is lost this way.
RunPlayingCollides(item) ==
    /\ refs <= MaxBus
    /\ streamer = "live"
    /\ refs > 0
    /\ Runs("playing", <<"streaming", item>>)
    /\ refs' \in {refs - 1, refs + 1}
    /\ UNCHANGED <<io, streamer, shuttedDown, client, wanted, told>>
    /\ lost' = TRUE

\* Mutant: the failure is not passed on.
RunErrorSilently ==
    /\ streamer # "absent"
    /\ refs > 0
    /\ Runs("error", <<>>)
    /\ io' = "failing"
    /\ UNCHANGED <<streamer, refs, shuttedDown, client, wanted, told, lost>>

\* Streamer::asyncError and asyncEos, up to the end of their stopStream.
RunError ==
    /\ streamer # "absent"
    /\ refs > 0
    /\ Runs("error", <<"failed">>)
    /\ io' = "failing"
    /\ UNCHANGED <<streamer, refs, shuttedDown, client, wanted, told, lost>>

\* stopStream finds its own handler among the references, so it is the
\* handler's end that posts the destruction.
ErrorStops ==
    /\ io = "failing"
    /\ io' = "idle"
    /\ streamer' = "stopped"
    /\ queue' = queue \o SafeToDestroy \o NoMoreRefs("stopped")
    /\ refs' = refs - 1
    /\ UNCHANGED <<shuttedDown, client, wanted, told, lost>>

\* A handler whose reference is not counted any more, or whose Streamer is
\* gone: ~RefCounterBase frees the counter that others use, or the handler
\* uses freed memory.  Taken as the end of the process.
RunUncounted ==
    /\ \/ Runs("dangling", <<>>)
       \/ refs = 0 /\ (Runs("playing", <<>>) \/ Runs("error", <<>>))
    /\ io' = "crashed"
    /\ UNCHANGED <<streamer, refs, shuttedDown, client, wanted, told, lost>>

-----------------------------------------------------------------------------
(* The other operations of StreamingHandler.                               *)

\* StreamingHandler::streaming and streamFailed post what Client gave, and
\* that is Client::sendStreamStatus.  The success is sent without a state of
\* its own: nothing here follows from it.
RunStatus ==
    /\ Runs("streaming", <<>>) \/ Runs("failed", <<"sendFailed">>)
    /\ UNCHANGED <<io, streamer, refs, shuttedDown, client, wanted, told,
                   lost>>

RunSendFailed ==
    /\ Runs("sendFailed", <<>>)
    /\ told' = TRUE
    /\ UNCHANGED <<io, streamer, refs, shuttedDown, client, wanted, lost>>

\* StreamingHandler::stopStream; a Streamer may be stopped repeatedly.
RunStop ==
    /\ \/ streamer = "absent" /\ Runs("stop", <<>>) /\ UNCHANGED streamer
       \/ /\ streamer # "absent"
          /\ Runs("stop", SafeToDestroy)
          /\ streamer' = "stopped"
    /\ wanted' = FALSE
    /\ UNCHANGED <<io, refs, shuttedDown, client, told, lost>>

\* Mutant: the end of the shutdown is not left to destroyStreaming.
RunShutdownAtOnce ==
    /\ \/ /\ streamer = "absent"
          /\ Runs("shutdown", <<"finished">>)
          /\ UNCHANGED streamer
       \/ /\ streamer # "absent"
          /\ Runs("shutdown", SafeToDestroy \o <<"finished">>)
          /\ streamer' = "stopped"
    /\ wanted' = FALSE
    /\ UNCHANGED <<io, refs, shuttedDown, client, told, lost>>

\* StreamingHandler::shutdown.
RunShutdown ==
    /\ \/ /\ streamer = "absent"
          /\ Runs("shutdown", <<"finished">>)
          /\ UNCHANGED <<streamer, shuttedDown>>
       \/ /\ streamer # "absent"
          /\ Runs("shutdown", SafeToDestroy)
          /\ streamer' = "stopped"
          /\ shuttedDown' = TRUE
    /\ wanted' = FALSE
    /\ UNCHANGED <<io, refs, client, told, lost>>

\* StreamingHandler::destroyStreaming.  Handlers that still refer to the
\* Streamer dangle from now on.
Dangle(items) ==
    [i \in DOMAIN items |->
        IF items[i] \in BusItem THEN "dangling" ELSE items[i]]

RunDestroy ==
    /\ io = "idle"
    /\ queue # <<>>
    /\ Head(queue) = "destroy"
    /\ queue' = Dangle(Tail(queue)) \o When(shuttedDown, "finished")
    /\ streamer' = "absent"
    /\ refs' = 0
    /\ shuttedDown' = FALSE
    /\ UNCHANGED <<io, client, wanted, told, lost>>

\* systemd starts the process again.
Restart ==
    /\ io = "crashed"
    /\ queue' = <<>>
    /\ io' = "idle"
    /\ streamer' = "absent"
    /\ refs' = 0
    /\ shuttedDown' = FALSE
    /\ client' = "reading"
    /\ wanted' = FALSE
    /\ told' = FALSE
    /\ lost' = FALSE

-----------------------------------------------------------------------------
\* A step of the io thread.
Run ==
    \/ RunRead
    \/ RunReset
    \/ RunFinished
    \/ RunRequestActive
    \/ RunRequestInvalid
    \/ RunRequest
    \/ \E posts \in {<<"streaming">>, <<>>, <<"failed">>} : Started(posts)
    \/ RunPlaying
    \/ RunError
    \/ ErrorStops
    \/ RunUncounted
    \/ RunStatus
    \/ RunSendFailed
    \/ RunStop
    \/ RunShutdown
    \/ RunDestroy

GStreamer ==
    \/ \E item \in BusItem :
        BusMessage(item) \/ RunPlayingCollides(item)
    \/ \E first, second \in BusItem : BusMessagesCollide(first, second)

Next ==
    \/ Run
    \/ GStreamer
    \/ \E read \in ReadItem : ReadCompletes(read)
    \/ Reset
    \/ DropboxFolderShuttedDown
    \/ StartHandleSource
    \/ Restart

Spec == Init /\ [][Next]_vars

\* The io_service runs while it has handlers, and GStreamer's changes of
\* state return.  Nothing is assumed of GStreamer's messages, of the server
\* or of the connection.
FairSpec == Spec /\ WF_vars(Run)

-----------------------------------------------------------------------------
(* Properties.                                                             *)

\* The Streamer outlives every handler that refers to it: none is left in
\* the queue when destroyStreaming deletes it (RefCounter.h; noMoreRefs and
\* stopStream are the two places that may post its destruction), as long as
\* the plain counter counts.
NothingDangles ==
    /\ TypeOK
    /\ lost \/ (~Queued({"dangling"}) /\ io # "crashed")

\* A queued destruction never meets a Streamer that streams: it was posted
\* for the present Streamer, after that one was stopped, even though several may
\* be posted for one Streamer and a new one created soon after.
\* ~Streamer asserts this, StreamingHandler.cpp:111.
DestroysStopped == Queued({"destroy"}) => streamer # "live"

\* A Streamer that fails while it is wanted does not fail silently: the
\* server was sent a failure or one is on its way, so that it asks again
\* (asyncError, asyncEos, streamFailed, Client::sendStreamStatus).
FailureIsTold ==
    wanted /\ streamer # "live" =>
        \/ told
        \/ Queued({"failed", "sendFailed"})
        \/ io = "crashed"

\* When shutdown reports its end the handler is idle: no Streamer, and no
\* queued handler that refers to it.  Controller::removeSource asserts this,
\* Controller.cpp:98, and erases the handler.
RemovedInactive ==
    queue # <<>> /\ Head(queue) = "finished" =>
        streamer = "absent" /\ ~Queued(HandlerItem)

\* A stopped Streamer is destroyed in the end, whatever is queued for it:
\* until then every new request is dropped.  A reference that is counted twice
\* or never given up keeps it for good.
StoppedIsDestroyed == streamer = "stopped" ~> streamer = "absent" \/ lost

\* A shutdown ends, so that the controller's reset does and the box connects
\* again, unless such a reference keeps the Streamer.
ShutdownEnds == client = "waiting" ~> client = "over" \/ lost

=============================================================================
