------------------------------ MODULE Recording ------------------------------
(***************************************************************************)
(* DeviceBox/SplitHandler.cpp and Controller::newFileAvailable: recordings *)
(* from the GStreamer thread that writes them, through the io_service and  *)
(* Dropbox, to the removal of the local file.                              *)
(*                                                                         *)
(* A camera's pipeline writes numbered files into a directory made for the *)
(* process.  The file sink goes to the state NULL at the end of each file, *)
(* which a synchronous bus handler reports.  The process may be killed at  *)
(* any time; the disk and the cloud stay.  The sources are those with      *)
(* storage, and since Dropbox was used a reset of theirs does not end (see *)
(* Dropbox): after it nothing new begins in this process.  The slots and   *)
(* answers of the uploads are those of Dropbox, without its other requests.*)
(***************************************************************************)
EXTENDS Naturals, Sequences, FiniteSets, SequencesExt

CONSTANTS
    Sources,        \* cameras with storage
    MaxUploads,     \* DropboxInternal::MAX_UPLOADS, which is 2
    MaxFiles,       \* bound: files per camera and process
    MaxSessions     \* bound: processes

ASSUME RecordingAssumption ==
    /\ IsFiniteSet(Sources)
    /\ MaxUploads \in Nat
    /\ MaxFiles \in Nat \ {0}
    /\ MaxSessions \in Nat \ {0}

VARIABLES
    queue,      \* the io_service
    session,    \* which process this is
    pipeline,   \* per camera; "absent" without handlers
    next,       \* splitmuxsink's fragment number
    opened,     \* cameras whose current fragment is open
    requested,  \* DropboxInternal's queue: uploads it has not begun
    uploads,    \* uploads under way
    local,      \* files on the disk
    cloud,      \* the session that wrote a file of the archive
    closed,     \* history: recordings that are complete
    failed      \* history: recordings that were refused, or failed to upload

vars == <<queue, session, pipeline, next, opened, requested, uploads, local,
          cloud, closed, failed>>

Session == 1 .. MaxSessions
Number == 0 .. MaxFiles - 1
File == [source : Sources, session : Session, number : Number]

\* dropboxArchivePath and the file's name.  The local directory, which differs
\* from process to process, is left out.
CloudFile == [source : Sources, number : Number]

CloudName(f) == [source |-> f.source, number |-> f.number]

Item ==
    [do : {"fileReady", "answer"}, file : File] \cup
    [do : {"splitterDown", "folderDown", "streamerDown"}, source : Sources]

TypeOK ==
    /\ queue \in Seq(Item)
    /\ session \in Session
    /\ pipeline \in [Sources ->
          {"absent", "null", "playing", "linked", "stalled", "stopped"}]
    /\ next \in [Sources -> 0 .. MaxFiles]
    /\ opened \in SUBSET Sources
    /\ requested \in Seq(File)
    /\ uploads \in SUBSET File
    /\ local \in SUBSET File
    /\ DOMAIN cloud \subseteq CloudFile
    /\ \A name \in DOMAIN cloud : cloud[name] \in Session
    /\ closed \in SUBSET File
    /\ failed \in SUBSET File

Init ==
    /\ session = 1
    /\ queue = <<>>
    /\ pipeline = [s \in Sources |-> "absent"]
    /\ next = [s \in Sources |-> 0]
    /\ opened = {}
    /\ requested = <<>>
    /\ uploads = {}
    /\ local = {}
    /\ cloud = <<>>
    /\ closed = {}
    /\ failed = {}

Current(s) == [source |-> s, session |-> session, number |-> next[s]]

-----------------------------------------------------------------------------
(* GStreamer.                                                              *)

\* decodebin has found a stream of H.264, which goes to splitmuxsink.  Other
\* streams go to a fakesink and change nothing; there may be no H.264 at all.
DecodebinPadAdded(s) ==
    /\ pipeline[s] = "playing"
    /\ pipeline' = [pipeline EXCEPT ![s] = "linked"]
    /\ UNCHANGED <<queue, session, next, opened, requested, uploads, local,
                   cloud, closed, failed>>

\* splitmuxsink gives the file sink its next location and starts it.
OpenFile(s) ==
    /\ pipeline[s] = "linked"
    /\ s \notin opened
    /\ next[s] < MaxFiles
    /\ opened' = opened \cup {s}
    /\ local' = local \cup {Current(s)}
    /\ UNCHANGED <<queue, session, pipeline, next, requested, uploads, cloud,
                   closed, failed>>

FileReady(s) == [do |-> "fileReady", file |-> Current(s)]

\* Mutant: the state READY, on the way to NULL, is reported as well.
FilesinkReportsTwice(s) ==
    /\ pipeline[s] = "linked"
    /\ s \in opened
    /\ queue' = queue \o <<FileReady(s), FileReady(s)>>
    /\ opened' = opened \ {s}
    /\ next' = [next EXCEPT ![s] = @ + 1]
    /\ closed' = closed \cup {Current(s)}
    /\ UNCHANGED <<session, pipeline, requested, uploads, local, cloud, failed>>

\* OnFilesinkStateChanged, for the state NULL at the end of a fragment.
OnFilesinkStateChanged(s) ==
    /\ pipeline[s] = "linked"
    /\ s \in opened
    /\ queue' = Append(queue, FileReady(s))
    /\ opened' = opened \ {s}
    /\ next' = [next EXCEPT ![s] = @ + 1]
    /\ closed' = closed \cup {Current(s)}
    /\ UNCHANGED <<session, pipeline, requested, uploads, local, cloud, failed>>

\* An error or the end of the stream, to which nobody listens.
Stalls(s) ==
    /\ pipeline[s] = "linked"
    /\ pipeline' = [pipeline EXCEPT ![s] = "stalled"]
    /\ UNCHANGED <<queue, session, next, opened, requested, uploads, local,
                   cloud, closed, failed>>

-----------------------------------------------------------------------------
(* The io thread.                                                          *)

Runs(do) == queue # <<>> /\ Head(queue).do = do

\* Controller::startHandleSource of all sources, with SplitHandler::startSplit.
\* A pipeline that has no elements, or does not start, stays "null".
StartHandleSources ==
    /\ \A s \in Sources : pipeline[s] = "absent" /\ next[s] = 0
    /\ queue = <<>>
    /\ pipeline' \in [Sources -> {"null", "playing"}]
    /\ UNCHANGED <<queue, session, next, opened, requested, uploads, local,
                   cloud, closed, failed>>

Down(do, s) == [do |-> do, source |-> s]

Ends == {Down("splitterDown", s) : s \in Sources}
Reports == {FileReady(s) : s \in opened}

\* Mutant: the pipeline is only released, and ends when its threads do.
ShutdownWithoutStop(posts) ==
    /\ queue' = queue \o SelectSeq(posts, LAMBDA item : item \in Ends)
    /\ UNCHANGED <<pipeline, next, opened, closed>>

\* SplitHandler::shutdown of each source, in any order: set_state(NULL) closes
\* the open file and reports it before finished is posted.  Until then the
\* threads of the others may report theirs.
Shutdown(posts) ==
    /\ queue' = queue \o posts
    /\ opened' = {}
    /\ next' = [s \in Sources |-> next[s] + (IF s \in opened THEN 1 ELSE 0)]
    /\ closed' = closed \cup {Current(s) : s \in opened}
    /\ pipeline' = [s \in Sources |-> "stopped"]

\* Controller::stopHandleSources, in a reset or the shutdown.
StopHandleSources ==
    /\ \A s \in Sources : pipeline[s] \notin {"stopped", "absent"}
    /\ \E posts \in SetToSeqs(Reports \cup Ends) :
        /\ \A s \in opened, i, j \in DOMAIN posts :
              posts[i] = FileReady(s) /\ posts[j] = Down("splitterDown", s) =>
                  i < j
        /\ Shutdown(posts)
    /\ UNCHANGED <<session, requested, uploads, local, cloud, failed>>

\* dropboxFolderShuttedDown and streamerShuttedDown follow splitterShuttedDown
\* at the earliest; the streamer may take longer.
Follows(do, then) ==
    /\ Runs(do)
    /\ queue' = Append(Tail(queue), Down(then, Head(queue).source))
    /\ UNCHANGED <<session, pipeline, next, opened, requested, uploads, local,
                   cloud, closed, failed>>

RunSplitterDown == Follows("splitterDown", "folderDown")
RunFolderDown == Follows("folderDown", "streamerDown")

\* removeSource
RunStreamerDown ==
    /\ Runs("streamerDown")
    /\ queue' = Tail(queue)
    /\ pipeline' = [pipeline EXCEPT ![Head(queue).source] = "absent"]
    /\ UNCHANGED <<session, next, opened, requested, uploads, local, cloud,
                   closed, failed>>

\* Mutant: the local file is removed as soon as the upload is asked for.
UploadAndRemove ==
    /\ Runs("fileReady")
    /\ queue' = Tail(queue)
    /\ requested' = Append(requested, Head(queue).file)
    /\ local' = local \ {Head(queue).file}
    /\ UNCHANGED <<session, pipeline, next, opened, uploads, cloud, closed,
                   failed>>

\* Controller::newFileAvailable, for a source with storage.
RunFileReady ==
    /\ Runs("fileReady")
    /\ queue' = Tail(queue)
    /\ requested' = Append(requested, Head(queue).file)
    /\ UNCHANGED <<session, pipeline, next, opened, uploads, local, cloud,
                   closed, failed>>

\* Mutant: the local file stays when the upload has failed.
RemoveUploaded ==
    /\ Runs("answer")
    /\ queue' = Tail(queue)
    /\ local' = local \ ({Head(queue).file} \ failed)
    /\ UNCHANGED <<session, pipeline, next, opened, requested, uploads, cloud,
                   closed, failed>>

\* The answer's handler removes the local file, whatever the answer is.
RunAnswer ==
    /\ Runs("answer")
    /\ queue' = Tail(queue)
    /\ local' = local \ {Head(queue).file}
    /\ UNCHANGED <<session, pipeline, next, opened, requested, uploads, cloud,
                   closed, failed>>

-----------------------------------------------------------------------------
(* The curl thread and the cloud.                                          *)

Answers(f) == queue' = Append(queue, [do |-> "answer", file |-> f])

\* Mutant: what is there is not overwritten (Dropbox's mode "add").
ArchivedOnce(done) ==
    [name \in DOMAIN cloud \cup {CloudName(f) : f \in done} |->
        IF name \in DOMAIN cloud THEN cloud[name] ELSE session]

\* The archive with the files of done.  An upload overwrites.
Archived(done) ==
    [name \in DOMAIN cloud \cup {CloudName(f) : f \in done} |->
        IF \E f \in done : CloudName(f) = name THEN session ELSE cloud[name]]

\* DropboxInternal::upload, with a free slot or without.
Upload ==
    /\ requested # <<>>
    /\ requested' = Tail(requested)
    /\ LET f == Head(requested)
       IN  \/ /\ Cardinality(uploads) < MaxUploads
              /\ uploads' = uploads \cup {f}
              /\ UNCHANGED <<queue, failed>>
           \/ /\ Cardinality(uploads) >= MaxUploads
              /\ Answers(f)
              /\ failed' = failed \cup {f}
              /\ UNCHANGED uploads
    /\ UNCHANGED <<session, pipeline, next, opened, local, cloud, closed>>

\* UploadAction::handleDone, of a transfer that succeeded or did not.
UploadEnds(f) ==
    /\ f \in uploads
    /\ uploads' = uploads \ {f}
    /\ Answers(f)
    /\ \/ /\ cloud' = Archived({f})
          /\ UNCHANGED failed
       \/ /\ failed' = failed \cup {f}
          /\ UNCHANGED cloud
    /\ UNCHANGED <<session, pipeline, next, opened, requested, local, closed>>

-----------------------------------------------------------------------------

\* The process is killed or exits, and systemd starts another one.  Some of
\* the transfers may have reached the cloud without an answer.
Restart ==
    /\ session < MaxSessions
    /\ session' = session + 1
    /\ \E done \in SUBSET uploads : cloud' = Archived(done)
    /\ queue' = <<>>
    /\ pipeline' = [s \in Sources |-> "absent"]
    /\ next' = [s \in Sources |-> 0]
    /\ opened' = {}
    /\ requested' = <<>>
    /\ uploads' = {}
    /\ UNCHANGED <<local, closed, failed>>

Pipelines ==
    \E s \in Sources :
        \/ DecodebinPadAdded(s) \/ OpenFile(s)
        \/ OnFilesinkStateChanged(s) \/ Stalls(s)

IoThread ==
    \/ RunSplitterDown \/ RunFolderDown \/ RunStreamerDown
    \/ RunFileReady \/ RunAnswer

Transfers == Upload \/ \E f \in uploads : UploadEnds(f)

Next ==
    \/ Pipelines
    \/ StartHandleSources \/ StopHandleSources
    \/ IoThread
    \/ Transfers
    \/ Restart

\* The io thread and the curl thread run.  No transfer has to end: Dropbox.cpp
\* gives curl no timeout.
Fairness == WF_vars(IoThread) /\ WF_vars(Upload)

Spec == Init /\ [][Next]_vars
LiveSpec == Spec /\ Fairness

-----------------------------------------------------------------------------

Ready(file) == [do |-> "fileReady", file |-> file]
Queued(item) == \E i \in DOMAIN queue : queue[i] = item
Answered(f) == Queued([do |-> "answer", file |-> f])
Requested(f) == \E i \in DOMAIN requested : requested[i] = f

\* newFileAvailable is called with a pointer to the splitter that reported the
\* file (Controller.cpp:46-50): a file that is reported, by the pipeline's
\* threads or while a reset stops it, is dealt with before the reset removes
\* the splitter.
HandlerAlive ==
    \A i \in DOMAIN queue :
        queue[i].do = "fileReady" =>
            /\ pipeline[queue[i].file.source] # "absent"
            /\ \A j \in 1 .. i - 1 :
                  queue[j] # Down("streamerDown", queue[i].file.source)

\* Dropbox opens a file when it begins its upload, which is later than the
\* call (Dropbox.cpp:418-422): the file is complete and still on the disk
\* until its upload has been answered.
UploadsReadable ==
    \A f \in File :
        Queued(Ready(f)) \/ Requested(f) \/ f \in uploads =>
            /\ f \in local
            /\ f \in closed
            /\ ~Answered(f)

Times(item, seq) == Cardinality({i \in DOMAIN seq : seq[i] = item})

\* How often a file is written, reported, requested, uploaded or answered.
Ways(f) ==
    (IF \E s \in opened : f = Current(s) THEN 1 ELSE 0)
        + Times(Ready(f), queue) + Times(f, requested)
        + (IF f \in uploads THEN 1 ELSE 0)
        + Times([do |-> "answer", file |-> f], queue)

\* Every file of this process on the disk is in exactly one place on its way
\* to be removed (Controller.cpp:55-60): it is being written, or there is one
\* report, request, upload or answer of it; and there is none of any other
\* file.  So none is left behind, uploaded twice or removed twice.  Whether
\* the upload succeeds is not part of this: see RecordingKept.
AccountedFor ==
    /\ TypeOK
    /\ \A f \in File :
        Ways(f) = IF f \in local /\ f.session = session THEN 1 ELSE 0

\* A recording that is complete is on the disk or in the archive, where only a
\* later one of the same name takes its place, unless its upload was refused
\* or failed: the file is removed after it was archived, whatever the order of
\* reports, slots, answers and the death of the process.
RecordingKept ==
    \A f \in closed :
        \/ f \in local
        \/ f \in failed
        \/ CloudName(f) \in DOMAIN cloud /\ cloud[CloudName(f)] >= f.session

\* A process that goes on removes every complete recording from the disk, also
\* while a reset takes the handlers away and with all slots taken, unless the
\* file's own upload stalls for ever: one that stalls keeps no other file.
ClosedIsRemoved ==
    \A f \in File :
        (f \in closed /\ f.session = session)
            ~> \/ f \notin local \/ session # f.session
               \/ [](f \in uploads)
=============================================================================
