------------------------------- MODULE Dropbox ------------------------------
(***************************************************************************)
(* DeviceBox/Dropbox.cpp: requests to the Dropbox API.  The io thread makes*)
(* them through class Dropbox; DropboxInternal hands them to a thread of   *)
(* its own, which runs the handlers of _curlIoService in FIFO order and    *)
(* lets libcurl transfer them all at once.  Answers are posted back to the *)
(* io thread.  A reset or a shutdown ends the curl thread, and a reset     *)
(* starts a new one.                                                       *)
(*                                                                         *)
(* libcurl and the network are external: a call of curl_multi_perform may  *)
(* find any of the running transfers ended.  Assertions about libcurl's    *)
(* own return codes are left out.                                          *)
(***************************************************************************)
EXTENDS Naturals, Sequences, FiniteSets, SequencesExt

CONSTANTS
    Requests,   \* every request that is made, each once
    Uploads,    \* those that upload a file; the others list or delete
    MaxUploads, \* DropboxInternal::MAX_UPLOADS, which is 2
    EndsAtOnce, \* a transfer may end in the very call that starts it
    MaxResets   \* bound: calls of Dropbox::reset

ASSUME DropboxAssumption ==
    /\ IsFiniteSet(Requests)
    /\ Requests \cap {"curlPerform", "shutdown", "curlThreadMain",
                      "shutdowned"} = {}    \* the other handlers
    /\ Uploads \subseteq Requests
    /\ MaxUploads \in Nat
    /\ EndsAtOnce \in BOOLEAN
    /\ MaxResets \in Nat

VARIABLES
    internal,       \* Dropbox::_internal exists
    curlQueue,      \* _curlIoService: handlers in the order they will run
    curlThread,     \* "starting", "running", or "ended" when run() returned
    working,        \* _working keeps _curlIoService from running dry
    timer,          \* _timeoutTimer is armed
    runningCount,   \* _runningCount, as the last curl_multi_perform left it
    uploadCount,    \* _uploadCount
    transfer,       \* per request: "none", "running", or "done" and unread;
                    \* what is not "none" is in _actions
    messages,       \* libcurl's list of ended transfers nobody has read
    shutdowned,     \* _shutdowned: "none", or what it does
    ioQueue,        \* the io_service: handlers the curl thread posted
    closing,        \* the reset or shutdown the io thread waits for
    resets,         \* history: resets called
    performed,      \* history: this DropboxInternal has called curlPerform
    made,           \* history: requests made
    late,           \* history: those made while the io thread waited
    finished        \* history: how often each request was answered

internals == <<curlThread, working, timer, runningCount, uploadCount,
               transfer, messages, shutdowned, performed>>
vars == <<internal, curlQueue, internals, ioQueue, closing, resets, made,
          late, finished>>

CurlItem == Requests \cup {"curlPerform", "shutdown"}
IoItem == Requests \cup {"curlThreadMain", "shutdowned"}

TypeOK ==
    /\ internal \in BOOLEAN
    /\ curlQueue \in Seq(CurlItem)
    /\ curlThread \in {"starting", "running", "ended"}
    /\ working \in BOOLEAN
    /\ timer \in BOOLEAN
    /\ runningCount \in Nat
    /\ uploadCount \in Nat
    /\ transfer \in [Requests -> {"none", "running", "done"}]
    /\ messages \in Seq(Requests)
    /\ shutdowned \in {"none", "reset", "shutdown"}
    /\ ioQueue \in Seq(IoItem)
    /\ closing \in {"none", "reset", "shutdown"}
    /\ resets \in 0 .. MaxResets
    /\ performed \in BOOLEAN
    /\ made \in SUBSET Requests
    /\ late \in SUBSET made
    /\ finished \in [Requests -> Nat]

\* DropboxInternal's constructor, and the thread it starts.
NewInternal ==
    /\ curlThread = "starting"
    /\ working = FALSE
    /\ timer = FALSE
    /\ runningCount = 0
    /\ uploadCount = 0
    /\ transfer = [r \in Requests |-> "none"]
    /\ messages = <<>>
    /\ shutdowned = "none"
    /\ performed = FALSE

Init ==
    /\ internal = TRUE
    /\ curlQueue = <<>>
    /\ NewInternal
    /\ ioQueue = <<>>
    /\ closing = "none"
    /\ resets = 0
    /\ made = {}
    /\ late = {}
    /\ finished = [r \in Requests |-> 0]

With(state) == {r \in Requests : transfer[r] = state}

-----------------------------------------------------------------------------
(* The io thread.                                                          *)

\* postUpload, postListFolder and so on.
Post(r) == curlQueue' = Append(curlQueue, r)

\* Dropbox::upload, listFolder and so on, called while _internal exists.
Request(r) ==
    /\ internal
    /\ r \notin made
    /\ made' = made \cup {r}
    /\ late' = IF closing = "none" THEN late ELSE late \cup {r}
    /\ Post(r)
    /\ UNCHANGED <<internal, internals, ioQueue, closing, resets, finished>>

PostShutdown(then) ==
    /\ internal
    /\ closing = "none"
    /\ closing' = then
    /\ curlQueue' = Append(curlQueue, "shutdown")
    /\ UNCHANGED <<internal, internals, ioQueue, made, late, finished>>

Reset ==
    /\ resets < MaxResets
    /\ resets' = resets + 1
    /\ PostShutdown("reset")

Shutdown ==
    /\ PostShutdown("shutdown")
    /\ UNCHANGED resets

IoRuns(item) ==
    /\ ioQueue # <<>>
    /\ Head(ioQueue) = item

\* The caller's handler.
RunFinished(r) ==
    /\ IoRuns(r)
    /\ ioQueue' = Tail(ioQueue)
    /\ finished' = [finished EXCEPT ![r] = @ + 1]
    /\ UNCHANGED <<internal, curlQueue, internals, closing, resets, made,
                   late>>

\* What curlThreadMain posts last: the thread is joined.
JoinThread ==
    /\ IoRuns("curlThreadMain")
    /\ ioQueue' = Append(Tail(ioQueue), "shutdowned")
    /\ UNCHANGED <<internal, curlQueue, internals, closing, resets, made,
                   late, finished>>

\* recreateInternal.  Requests made since the thread ended are destroyed
\* with the old queue.
Recreate ==
    /\ IoRuns("shutdowned")
    /\ shutdowned = "reset"
    /\ ioQueue' = Tail(ioQueue)
    /\ curlQueue' = <<>>
    /\ curlThread' = "starting"
    /\ working' = FALSE
    /\ timer' = FALSE
    /\ runningCount' = 0
    /\ uploadCount' = 0
    /\ transfer' = [r \in Requests |-> "none"]
    /\ messages' = <<>>
    /\ shutdowned' = "none"
    /\ performed' = FALSE
    /\ closing' = "none"
    /\ UNCHANGED <<internal, resets, made, late, finished>>

\* resetInternal
ResetInternal ==
    /\ IoRuns("shutdowned")
    /\ shutdowned = "shutdown"
    /\ ioQueue' = Tail(ioQueue)
    /\ curlQueue' = <<>>
    /\ internal' = FALSE
    /\ closing' = "none"
    /\ UNCHANGED <<internals, resets, made, late, finished>>

-----------------------------------------------------------------------------
(* The curl thread.                                                        *)

StartThread ==
    /\ internal
    /\ curlThread = "starting"
    /\ curlThread' = "running"
    /\ working' = TRUE
    /\ UNCHANGED <<internal, curlQueue, timer, runningCount, uploadCount,
                   transfer, messages, shutdowned, performed, ioQueue,
                   closing, resets, made, late, finished>>

\* _curlIoService.run() returns when it has neither work nor handlers.
RunReturns ==
    /\ internal
    /\ curlThread = "running"
    /\ ~working /\ ~timer /\ curlQueue = <<>>
    /\ curlThread' = "ended"
    /\ ioQueue' = Append(ioQueue, "curlThreadMain")
    /\ UNCHANGED <<internal, curlQueue, working, timer, runningCount,
                   uploadCount, transfer, messages, shutdowned, performed,
                   closing, resets, made, late, finished>>

CurlRuns(item) ==
    /\ internal
    /\ curlThread = "running"
    /\ curlQueue # <<>>
    /\ Head(curlQueue) = item

TimerExpires ==
    /\ timer
    /\ timer' = FALSE
    /\ curlQueue' = Append(curlQueue, "curlPerform")
    /\ UNCHANGED <<internal, curlThread, working, runningCount, uploadCount,
                   transfer, messages, shutdowned, performed, ioQueue,
                   closing, resets, made, late, finished>>

\* Mutants: the timer is left alone when libcurl has no timeout, and when
\* nothing is running.
CurlPerformAgainMaybe ==
    /\ timer' \in BOOLEAN
    /\ curlQueue' = Tail(curlQueue)

CurlPerformWhileRunning ==
    /\ timer' = (runningCount' > 0)
    /\ curlQueue' = Tail(curlQueue)

\* The end of curlPerform: whatever libcurl's timeout is, it runs again.
CurlPerformAgain ==
    \/ /\ timer' = FALSE
       /\ curlQueue' = Append(Tail(curlQueue), "curlPerform")
    \/ /\ timer' = TRUE
       /\ curlQueue' = Tail(curlQueue)

\* Mutant: of several actions that are done, one is answered.
HandleDoneOfOne(done, uploads) ==
    /\ uploadCount' = uploads - Cardinality(ToSet(done) \cap Uploads)
    /\ ioQueue' = IF done = <<>> THEN ioQueue ELSE Append(ioQueue, Head(done))

\* handleDone for every action in done: the upload gives up its slot, and
\* the answer goes to the io thread.
HandleDone(done, uploads) ==
    /\ uploadCount' = uploads - Cardinality(ToSet(done) \cap Uploads)
    /\ ioQueue' = ioQueue \o done

\* Mutant: only a growing count is noticed.
NoticedGrowth(alive, unread) ==
    IF Cardinality(alive) > runningCount THEN unread ELSE <<>>

\* The messages curlPerform reads: all or none.
Noticed(alive, unread) ==
    IF Cardinality(alive) # runningCount THEN unread ELSE <<>>

\* curlPerform, with the transfers in started just added and those in ended
\* found ended.  The list of messages is only read when the number of running
\* transfers has changed since the last time.
CurlPerform(started, ended, uploads) ==
    \E order \in SetToSeqs(ended) :
        LET alive == (With("running") \cup started) \ ended
            unread == messages \o order
            read == Noticed(alive, unread)
        IN  /\ runningCount' = Cardinality(alive)
            /\ messages' = IF read = <<>> THEN unread ELSE <<>>
            /\ transfer' =
                  [r \in Requests |->
                      CASE r \in alive -> "running"
                        [] r \in ToSet(unread) \ ToSet(read) -> "done"
                        [] OTHER -> "none"]
            /\ HandleDone(read, uploads)
            /\ performed' = TRUE
            /\ CurlPerformAgain
            /\ UNCHANGED <<internal, curlThread, working, shutdowned, closing,
                           resets, made, late, finished>>

MayEnd(started) ==
    SUBSET (With("running") \cup (IF EndsAtOnce THEN started ELSE {}))

RunCurlPerform ==
    /\ CurlRuns("curlPerform")
    /\ \E ended \in MayEnd({}) : CurlPerform({}, ended, uploadCount)

\* Action::init has made a handle for the transfer.
Begin(r, uploads) ==
    \E ended \in MayEnd({r}) : CurlPerform({r}, ended, uploads)

\* actionFinished for an action that never became a transfer: without a
\* handle, or for an upload without its file.
ActionFinished(r) ==
    /\ curlQueue' = Tail(curlQueue)
    /\ ioQueue' = Append(ioQueue, r)
    /\ UNCHANGED <<internal, internals, closing, resets, made, late, finished>>

\* Mutant: an upload whose file cannot be opened keeps its slot.
UploadKeepsSlot(r) ==
    /\ CurlRuns(r)
    /\ r \in Uploads
    /\ IF uploadCount < MaxUploads
       THEN \/ Begin(r, uploadCount + 1)
            \/ /\ uploadCount' = uploadCount + 1
               /\ curlQueue' = Tail(curlQueue)
               /\ ioQueue' = Append(ioQueue, r)
               /\ UNCHANGED <<internal, curlThread, working, timer,
                              runningCount, transfer, messages, shutdowned,
                              performed, closing, resets, made, late, finished>>
       ELSE ActionFinished(r)

\* An upload beyond MaxUploads is answered at once.
Upload(r) ==
    /\ CurlRuns(r)
    /\ r \in Uploads
    /\ \/ ActionFinished(r)
       \/ /\ uploadCount < MaxUploads
          /\ Begin(r, uploadCount + 1)

\* listFolder, continueListFolder, latestFolderCursor, deletePath and
\* deleteBatch, which go the same way.
Query(r) ==
    /\ CurlRuns(r)
    /\ r \notin Uploads
    /\ Begin(r, uploadCount) \/ ActionFinished(r)

\* Mutant: the work that keeps the io_service running is not released.
RunShutdownWorking ==
    /\ CurlRuns("shutdown")
    /\ curlQueue' = Tail(curlQueue)
    /\ shutdowned' = closing
    /\ UNCHANGED <<internal, curlThread, working, timer, runningCount,
                   uploadCount, transfer, messages, performed, ioQueue,
                   closing, resets, made, late, finished>>

RunShutdown ==
    /\ CurlRuns("shutdown")
    /\ curlQueue' = Tail(curlQueue)
    /\ shutdowned' = closing
    /\ working' = FALSE
    /\ UNCHANGED <<internal, curlThread, timer, runningCount, uploadCount,
                   transfer, messages, performed, ioQueue, closing, resets,
                   made, late, finished>>

-----------------------------------------------------------------------------
IoNext ==
    \/ \E r \in Requests : RunFinished(r)
    \/ JoinThread
    \/ Recreate
    \/ ResetInternal

CurlNext ==
    \/ StartThread
    \/ RunReturns
    \/ TimerExpires
    \/ RunCurlPerform
    \/ \E r \in Requests : Upload(r) \/ Query(r)
    \/ RunShutdown

Next ==
    \/ \E r \in Requests : Request(r)
    \/ Reset
    \/ Shutdown
    \/ IoNext
    \/ CurlNext

Spec == Init /\ [][Next]_vars

\* Both threads run what is queued for them, and timers expire.  Nothing is
\* assumed of the network: no transfer has a timeout (Dropbox.cpp:645-658,
\* 694-732).
Fairness ==
    /\ WF_vars(IoNext)
    /\ WF_vars(CurlNext)
    /\ WF_vars(TimerExpires)

FairSpec == Spec /\ Fairness

-----------------------------------------------------------------------------
(* Properties.                                                             *)

\* _uploadCount counts the uploads in flight, finished ones that nobody has
\* noticed included, and never exceeds MAX_UPLOADS.
UploadSlots ==
    /\ uploadCount =
          Cardinality({r \in Uploads : transfer[r] # "none"})
    /\ uploadCount <= MaxUploads

Occurrences(r, s) == Cardinality({i \in DOMAIN s : s[i] = r})

\* A request is in one place: queued, in _actions, in its answer's handler, or
\* answered.
OnePlace ==
    \A r \in Requests :
        Occurrences(r, curlQueue) + Occurrences(r, ioQueue) + finished[r] +
            (IF transfer[r] = "none" THEN 0 ELSE 1) <= 1

\* No path of upload, handleDone and the reset loses a slot or gives one up
\* twice, no handler is called twice, and no read message or freed action is
\* handled again (Dropbox.cpp:353-393, 410-470, 1070-1134).
RequestsAccounted == TypeOK /\ UploadSlots /\ OnePlace

\* While libcurl has transfers, somebody will call curl_multi_perform: the
\* timer that every call cancels is armed again, or the call is queued.
PerformDriven ==
    With("running") # {} => timer \/ Occurrences("curlPerform", curlQueue) > 0

\* What curlPerform does to shutdown: once it has run it is due again for
\* ever, so the curl thread never ends, and neither does the reset or the
\* shutdown that waits for it.
UsedNeverEnds == performed => curlThread = "running"

\* Ended transfers that nobody has read of, and nothing that is transferred.
LeftUnread == messages # <<>> /\ With("running") = {}

\* No transfer is left alone.  The next round of curlPerform is on its way while
\* one runs.  An end that was not noticed, because another transfer began, is
\* noticed when that one ends; only a transfer that ends in the very call that
\* starts it is left unread with none running, and then until the next one that
\* runs on (Dropbox.cpp:353-393).
TransfersWatched ==
    /\ []PerformDriven
    /\ [][LeftUnread' =>
             LeftUnread \/ \E r \in Requests : /\ transfer[r] = "none"
                                               /\ transfer'[r] = "done"]_vars
    /\ [][LeftUnread /\ With("running")' # {} => messages' = <<>>]_vars

\* A reset or shutdown ends unless curlPerform has run.
ClosingEnds == closing # "none" ~> closing = "none" \/ performed

Pending(r) ==
    \/ Occurrences(r, curlQueue) + Occurrences(r, ioQueue) > 0
    \/ transfer[r] # "none"

Requested == INSTANCE DropboxRequests WITH
    request <- [r \in Requests |->
        IF r \notin made THEN "new"
        ELSE IF finished[r] > 0 THEN "answered"
        ELSE IF ~Pending(r) THEN "dropped"
        ELSE IF r \in late THEN "late"
        ELSE "made"],
    closing <- (closing # "none")

\* No answer gets lost or is given twice in either thread's queue or libcurl's
\* lists.  A reset or a shutdown ends only when every request made before it is
\* answered, and drops those made since that are not (Dropbox.cpp:353-393,
\* 1086-1134).
ImplementsRequests == Requested!Spec

\* The network ends a transfer that libcurl is given the time for.
NetworkEnds(r) ==
    []<>(CurlRuns("curlPerform") /\ transfer[r] = "running") =>
        []<>(transfer[r] # "running")

\* If the network ends every transfer, every request is answered in the end, or
\* dropped by a reset, but for one that ended in the call that started it and
\* that no other transfer follows (Dropbox.cpp:353-393).
AnsweredInTheEnd ==
    (\A r \in Requests : NetworkEnds(r)) =>
        \A r \in Requests :
            r \in made ~> \/ finished[r] > 0
                          \/ ~Pending(r)
                          \/ [](transfer[r] = "done" /\ LeftUnread)
=============================================================================
