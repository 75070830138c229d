# Verification of IpCamBox in TLA+

IpCamBox connects home cameras to viewers through a server. A *device box*
stands beside the cameras. It keeps a TLS connection to the *control server*
and, when somebody watches one of its cameras, pushes the stream of that camera
to the *restream server* in the same server process. Independently of that it
records the cameras and uploads the files to a Dropbox folder, which it keeps
below a size.

These modules model the program from its source under `src/`. TLC checks small
instances of them; TLAPS proves the safety properties of all components for all
instances. `PROJECT.json` says which lines each definition stands for, which
hazards of the code are known, at their lines, and which properties watch them.

## 1. Inventory

| component | state | operations | properties that make it correct |
|---|---|---|---|
| **Control server** `Server/ControlServer` | per connection a `ServerSession` (device id, context, retry timer); per device a `SessionContext` (active session, active sources); certificate validity | accept, handshake, verify, connected, messages ClientReady and StreamStatus, retry, destroy; `requestStream`/`stopStream` called by the restream thread; certificate update | the registry never dangles; a box is asked only for its own cameras, for all that is watched and nothing else; boxes are refused only for a reason |
| **Restream server** `Server/RestreamServer` | `pathsInfo`: path → device, source, players?, recorder?; the certificate | first player, last player, recorder comes, recorder goes; authenticate, authorize; certificate update | an entry lives exactly while a known player or recorder of its path does; the demand of its paths is the control server's; it serves the certificate that is installed |
| **Server process** `Server/ServerMain.cpp`, `ServerApp` | the two above | the two callbacks that connect them; restart by systemd | demand of both halves agrees; viewers get their stream |
| **Server configuration** `Server/Config`, `FileConfig`, `PGConfig` | users, devices, sources, certificates, a cached certificate | lookups, authentication, reading the certificate | a certificate that stays is read in the end; a failed read keeps what is there |
| **Device client** `DeviceBox/Client.cpp` | connection, reconnect timer | connect, greeting, configuration, request/stop, errors, shutdown | one connection at a time; a lost one leads to the next; ready only after the configuration |
| **Device controller** `DeviceBox/Controller.cpp`, `Config.cpp` | a handler set per source, configuration, Dropbox | load and update the configuration, start/remove/reset sources, stream/stop, new file, shrink | no operation touches what a reset has removed; a reset ends; the handlers are those of the configuration |
| **Streaming handler** `DeviceBox/StreamingHandler.cpp`, `Common/RefCounter.h` | a `Streamer` (pipeline, reference count), queued handlers | stream, stop, bus messages, destroy, shutdown | the Streamer outlives what refers to it, is destroyed once, every failure is told |
| **Recording** `DeviceBox/SplitHandler.cpp`, `Controller::newFileAvailable` | a pipeline that writes numbered files | start, stop, file closed, upload, removal | a complete recording is on the disk or in the archive; no file is removed before its upload is over, and none stays |
| **Dropbox folder** `DeviceBox/DropboxFolder.cpp` | items, index by time, size, cursor | sync, update, page, erase, shrink, shutdown | the size is the sum of the items; the copy misses no change; the oldest go first, no more than needed |
| **Dropbox requests** `DeviceBox/Dropbox.cpp` | actions in flight, curl thread, upload slots | upload, list, delete, done, reset, shutdown | every request is answered once, unless a reset drops it; slots are not lost; a reset ends |
| Protocol, Common, Daemon, programs | – | encodings, hashes, process start | section 6 |

How they interact: `ServerMain` gives the restream server two callbacks. The
first player of a path calls `ControlServer::Server::requestStream`, the last
one calls `stopStream`. Both run on the **restream thread** and touch
`Sessions` and `ServerSession` objects that the **io thread** uses as well,
without a lock. The control server and a box exchange messages over TLS:
ClientGreeting, ClientConfigRequest, ClientReady, StreamStatus one way;
RequestStream, StopStream, ConfigUpdated the other way. In the box, `Client`
drives `Controller`, which owns one streaming handler, one splitter and one
Dropbox folder per source, and one Dropbox for all. Everything there runs on
one io thread, except GStreamer's callbacks and a **curl thread** with an
io_service of its own; both post to the io thread.

What is hard here: the two server threads; a box that reconnects before its old
connection is noticed to be dead; demand that changes while a retry waits or a
box is away; object lifetimes tied to queued handlers (raw `this`, reference
counters); asynchronous shutdown chains in the box, of which two can meet;
files that are removed after an upload that may be refused; a listing that
races with the changes it lists; libcurl's notification that is read only when
a count changes; certificates that are renewed while they are read; lookups
that fail half-way; processes that end on every failed assertion and start
again.

## 2. Modules

| module | models | kind |
|---|---|---|
| `ControlServer` | `ControlServer/{Server,ServerSession,Sessions}.cpp` | component |
| `ControlServer_proofs` | theorems about it | TLAPS |
| `RestreamServer` | the callbacks of `RestreamServer/Server.cpp` | component |
| `IpCamServer` | `ServerMain.cpp`: both in one process | composition |
| `IpCamServer_proofs` | theorems about it, and that it implements `StreamDemand` | TLAPS |
| `StreamDemand` | what the server promises, without sessions, threads and timers | abstract specification |
| `Certificates` | certificate and key: `FileConfig`, `PGConfig`, `ServerSecureContext`, the restream server's update | component |
| `Certificates_proofs` | theorem about it | TLAPS |
| `StreamingHandler` | `DeviceBox/StreamingHandler.cpp`, `Common/RefCounter.h`: one camera's handler | component |
| `StreamingHandler_proofs` | theorems about it | TLAPS |
| `Controller` | `DeviceBox/Controller.cpp`, `Config.cpp`: configuration, handlers, the steps of a reset | component |
| `DeviceBox` | `Client.cpp`, `DeviceBoxMain.cpp` around the controller | composition |
| `DeviceBox_proofs` | theorems about it and the controller in it | TLAPS |
| `Recording` | `SplitHandler.cpp`, `Controller::newFileAvailable`, the disk and the archive | component |
| `Recording_proofs` | theorems about it | TLAPS |
| `Dropbox` | `Dropbox.cpp`: both threads, libcurl's notification, upload slots | component |
| `Dropbox_proofs` | theorems about it, that it implements `DropboxRequests`, and about `DropboxFolder` | TLAPS |
| `DropboxRequests` | what a caller may rely on | abstract specification |
| `DropboxCloud` | the answers of the Dropbox API to what `Dropbox.cpp` asks | external service |
| `DropboxFolder` | `DropboxFolder.cpp` against that cloud | component |
| `DataFacts` | lemmas about FIFO queues, sorted sequences, folds and sums, used by the four proof modules of the box | TLAPS |
| `MC...` | constants for TLC | model checking |

Two rules hold throughout. An io_service is a FIFO queue, because `run()` is
called by one thread: a handler is an item named for what it calls, and the
step that takes it does all the code does in it. And one access to a shared
map, pointer or counter is one atomic step, unless a module says otherwise
(`StreamingHandler` lets two updates of its plain counter meet).

### ControlServer

`session[s]` is the `ServerSession` at address `s`. `phase` says what keeps it
alive: its handshake, its read operation, or nothing any more (`over`, about to
be destroyed by its last `shared_ptr`). `deviceId` and `context` are the
members of these names. `posted`, `timer` and `expired` are the requests that
wait in the io queue or in `_requestStreamTimer`. `activeSession[d]` and
`activeSources[d]` are the two members of the `SessionContext` of `d`. `valid`
is `ServerSecureContext::_valid` (`Certificates` says how it gets its value).
`io` and `call` are the program counters of the two threads inside the
operations that the other thread can interleave with:
`ServerSession::requestStream` between `shouldStream` and the message, and
`Server::requestStream`/`stopStream` between the change of the map, the read of
`activeSession()` and the use of the pointer. The destination of a stream is a
function of its source and is left out. `told`, `ready`, `overtaken` and
`replaced` are history: what the box was last told on this connection, and the
two exceptions described in section 3.

Addresses are reused: after `DestroySession(s)` a new connection may get `s`,
so a call that still holds `s` meets the wrong session. That is the
use-after-free of `Server.cpp:168-173`. Its outcomes are a message to whatever
is there (`CallRequestStream`, `CallStopStream`), to nowhere
(`CallFreedSession`), or the end of the process (`Crash`).

Every failed assertion and null pointer ends the process, and systemd starts it
again: `Crash` and `RequestTwice` go to `Restart`. `NDEBUG` says which build is
meant. The repository sets no build type, so its assertions are compiled in,
and the runs have `NDEBUG = FALSE`; its theorems hold for both.

### RestreamServer, IpCamServer, StreamDemand

`pathsInfo` is the member; `playing` and `recording` are what the library
(RtspRestreamServer, a submodule that is not in the repository) has reported.
From the way the callbacks are written it reports first and last player of a
path alternately. The configuration lookup of a connect may fail
(`Unknown...Connected`): the path then gets no entry. `players` and `recorders`
are history: those whose lookup succeeded and who have not left since. `IpCamServer` runs a callback of the restream server
and the first step of the control server's operation together. It starts no
callback while the operation is under way, because the callback runs it to its
end.

`StreamDemand` (`wanted`, `online`, `decided`, `told`): a box is told to stream
a camera only if somebody watches it, or did when that was decided, and is told
to stop only if nobody does. The refinement maps `wanted` to the sources with
players, `online` to the devices with an active session, `told` to the history
of that session, and `decided` to the one request the io thread may be about to
send.

### Certificates

A certificate is a serial number and the number of the key it is for. `stored`
is what lies on the disk or in the table; the administrator (`Renew`,
`CompleteRenewal`) replaces a row at once and two files one by one, and files
or database can be out of reach (`ReadableChanges`). A `FileConfig` reads the
certificate, then the key (`ReadCertificateFile`, `ReadKeyFile`), and keeps
what it had if one is missing (`FileIsMissing`, `cache`); the two halves have a
clone each. `PGConfig` selects one row, returns nothing when the query fails,
and throws when there is no connection (`NotConnected`, which ends the
process). `UpdateControl` is `ServerSecureContext::updateCertificate` with
OpenSSL's two calls, `use_private_key` before `use_certificate_chain`: either
may refuse the pair because of what the context already holds. `UpdateRestream`
is the restream server's; `serverMain` returns if its first one fails. `armed`
is the timer each update starts again.

### Controller and DeviceBox

`queue` is the box's io_service. A *goal* is the finished callback a reset
passes from step to step: arm the reconnect timer, load a configuration, or end
the process. `handlers` is `_handlers`, with a streamer that is
`StreamingHandler` without its queue; `config` is `_config`; `dropbox` knows
only whether the object was used, because a used one never ends (see
`Dropbox`). `freed` is a folder that was removed while a timer or an answer
refers to it (`UseFreedFolder`), `dangling` a step of a reset whose source is
gone. `config.skipped` are the sources that `loadSourceConfig` left out for want
of a temporary directory (`Config.cpp:54-55`). `conn`, `reading`, `writing`, `timer`,
`shuttingDown` are the client's; a broken connection fails the outstanding read
and the outstanding write, each of which resets the controller. `clash` records
that two resets have met. `server` is what the server will answer. ClientReady
is empty and the server then asks for every active source of the device
(`ServerSession.cpp:220`), so `readyFor` has the sources that were sent, loaded
or skipped. Assertions of `removeSource` and `clearConfig` are stated as
properties (`RemoveAssertion`, `IdleAssertion`, `ClearAssertion`) and the model
goes on past them, as a build without them does. The one about the folder
(`Controller.cpp:100`) fails in every reset of a source with storage; `freed`
is what follows from it.

### StreamingHandler

`queue` is the io_service in order. `streamer` merges the existence of the
Streamer with that of its pipeline. `refs` is its reference counter,
`shuttedDown` whether `Private::shuttedDown` is set, and `io` tells where
GStreamer can interleave with a handler: while `gst_element_set_state(PLAYING)`
is under way (`starting`) and between the report of a failure and the stop of
the pipeline (`failing`). `client` is the life of the connection as far as the
handler sees it. `wanted`, `told` and `lost` are history.

The order of the queue carries the correctness: a destruction is posted behind
every handler that refers to the Streamer, and a request that was read later
stands behind the destruction. The counter is a plain `unsigned` that
GStreamer's threads increment while the io thread decrements it. Two updates
that meet may leave the effect of one (`BusMessagesCollide`,
`RunPlayingCollides`; `lost` records it); a handler whose reference was not
counted then uses freed memory, which ends the process (`RunUncounted`). Only a
handler of a live pipeline can meet an increment, because GStreamer is silent
once `stopStream` has returned.

A request that comes while a stopped Streamer waits for its last reference is
dropped with a warning and not answered (`RunRequestActive`). The server hears
nothing and does not ask again before the box reconnects. Nothing in the code
or its documents promises an answer, so this is listed as a hazard, and
`StoppedIsDestroyed` says that the state in which requests are dropped ends.

### Recording

`pipeline`, `next` and `opened` are a camera's splitter: the file sink goes to
the state NULL at the end of each file, and a synchronous bus handler posts the
report (`OnFilesinkStateChanged`). `StopHandleSources` stops every camera, in any
order: each reports its open file before it posts its end, and the reports of
the others may come in between. `requested`, `uploads` are Dropbox's queue and
slots, `local` and `cloud` the disk and the archive, `closed` and `failed`
history. A restart keeps disk and archive, makes a new directory and begins
again with the number 0, so the archive's files are overwritten.

### Dropbox, DropboxRequests

`curlQueue` and `ioQueue` are the two io_services. `transfer`, `messages`,
`runningCount` are libcurl's handles, its list of ended transfers and the count
of the last `curl_multi_perform`; `Noticed` is the test of line 374: messages
are read only if the count has changed. `timer` and `working` keep `run()` from
returning. `closing` is the reset or shutdown the io thread waits for,
`late` the requests that were made meanwhile. No transfer has a timeout
(`Dropbox.cpp:645-658`, `694-732`), so one may run for ever.

`DropboxRequests` says: a request is answered at most once, and only after it
was made; a reset or shutdown (`Close`, `Closed`) ends only when every request
made before it is answered, and drops those of the late ones that are not.
Nothing else drops one: an answer that got lost in a queue or in libcurl's list
would be a request that is neither, which no step of `DropboxRequests` makes.

### DropboxFolder, DropboxCloud

`cloud` is the real folder with times given by the service, `dirty` the files
with changes the box has not asked for yet. Who deletes the whole folder
(`DeleteFolder`) deletes its files, but the service tells of the folder only, in
an entry that `handleFolderResponse` passes over (`DropboxFolder.cpp:137-139`):
these files are `gone` until they are written or listed again. `items`, `index`, `folderSize` are
`_items`, `_index`, `_folderSize`; `sync` is where the chain of listing and
update requests stands, `page` the answer under way, `batches` the deletions
under way. `HandleFolderResponse` is the whole loop over a page, entry by
entry. `Skews` are the errors the uninitialised `tm_isdst` puts into a time
(`DropboxFolder.cpp:115-117`); `{0}` is a machine without daylight saving.
`RemoveCount` is the loop of `removeList`. `FolderInit`, `FolderSpec` and the
like carry the component's name because `Dropbox_proofs` speaks of both halves
of the Dropbox code.

## 3. Runs

| run | instance | states | shows |
|---|---|---|---|
| `control_server` | 2 cameras of one box, another box, 2 addresses | 545 k | `TypeOK`, `RegistryExact`, `OwnSourcesOnly`, `NoOrphanStream`, `DemandCovered` |
| `server_demand` | 2 paths of one camera, 1 address, fair | 53 k | `DemandIsPlayers`, `EntriesExact`, `ImplementsDemand`, `WatchedIsTold` |
| `certificates` | 2 renewals, files or database, fair | 52 k | `RefusesForAReason`, `RenewalIsServed` |
| `device_resets` | 2 cameras, or one with storage, 4 queued handlers from outside, resets that meet no other, fair | 332 k | `TypeOK`, `LoneResetFreesFoldersOnly`, `RestoredIsHandled`, `ConnectsOnce`, `ResetsEnd` |
| `device_updates` | 1 camera with storage or too much of it, a server that sends updates | 2004 k | `HandledIsLoaded`, `StorageAsConfigured` |
| `handler` | 2 bus handlers at a time, lost updates, fair | 563 k | `NothingDangles`, `RemovedInactive`, `DestroysStopped`, `FailureIsTold`, `StoppedIsDestroyed`, `ShutdownEnds` |
| `recording` | 2 cameras, 1 slot, 1 file per camera and process, 2 processes, fair | 87 k | `HandlerAlive`, `UploadsReadable`, `AccountedFor`, `RecordingKept`, `ClosedIsRemoved` |
| `dropbox` | 2 uploads for 1 slot, 1 listing, 1 reset, transfers that end at once or never, fair | 35 k | `RequestsAccounted`, `TransfersWatched`, `UsedNeverEnds`, `ClosingEnds`, `ImplementsRequests`, `AnsweredInTheEnd` |
| `folder` | 3 files, 3 writes of size 1 or 2, limit 3, 2 deletions at a time, the folder deleted as a whole, fair | 904 k | `CopyIsSound`, `Mirrors`, `RemovesOldest`, `BatchIsMinimal`, `FolderShrinks` |
| `control_destructor` | 1 box, assertions | – | counterexample to `DestructorAssertion` |
| `server_request_twice` | 2 paths of one camera, assertions | – | counterexample to `NeverRequestedTwice` |
| `device_two_resets` | 1 camera, resets may meet | – | counterexample to `RemoveAssertion` |

### Bounds

Every bound is a constant with the word *bound* at its declaration, or a set.
Why they are large enough for the interesting cases:

- **Server.** Two addresses let a box reconnect while its old session lives,
  and let an address be reused by another box while a call holds it. Two
  cameras of one box share its timer; a second box makes a wrong camera
  possible; two paths of one source count their players apart. `ControlServer`
  and `RestreamServer` bound nothing: every variable is finite by its type.
  Symmetry (addresses, cameras of one box) is used in the one run of invariants
  only.
- **`MaxRenewals = 2`**: a renewal for the old key and one for a new one, in
  either order, each meeting a read of either half half-way.
- **`MaxQueue = 4`** (`MaxQueue = 3` in `device_two_resets`) limits what
  arrives from outside while handlers wait; what the io thread posts itself is
  not limited. Four let a configuration, a request and both errors of a
  connection stand in the queue together.
- **`PastClash = FALSE`** ends a behaviour where two resets meet.
  `device_two_resets` goes on and shows what happens there; past it next to
  nothing holds, so the other runs say what one reset at a time guarantees.
- **`Updates`**: no server of this repository sends ClientConfigUpdated. The
  box handles it, so `device_updates` does; `device_resets` is the system as it
  is.
- **`MaxBus = 2`**: an error can follow an error, or a message overtake the
  stop it belongs to, and a reference outlive another. It also bounds what lost
  decrements add to the counter. The queue needs no bound, since at most one
  read is outstanding.
- **`ReadsWhileResetting = FALSE`**: nothing is read once a connection has
  failed (see the observations below).
- **`MaxUploads = 1`** (2 in the code): with two uploads and one slot one is
  refused, and a slot that is lost or given back twice is noticed at once.
- **`MaxResets = 1`**: requests before, during and after it, with the objects
  recreated between.
- **`EndsAtOnce = TRUE`**: a transfer may end in the call that starts it, as one
  whose connection is refused does, or in any later round, or never.
- **`MaxFiles = 1`, `MaxSessions = 2`**: two cameras compete for the slot, and
  the second process writes the same names as the first.
- **`MaxWrites = 3`, sizes 1 and 2, `MaxSize = 3`**: folders below, at and
  above the limit; a file written again while its old version is listed or
  deleted; a listing in up to three pages, with changes between them.
  `MaxBatches = 2`: deletions overtake each other.
- **`Skews = {0}`**: a time zone without daylight saving. With an hour's error
  `RemovesOldest` does not hold.

### Properties

Each has a mistake in the code that would break it, an operator marked *Mutant*
in the modules; `PROJECT.json` pairs them.

Server:

- `RegistryExact`: an active session and its context point to each other;
  broken if `onConnected` does not look for an old session.
- `OwnSourcesOnly`: no box is told of another's camera, also by a call that
  holds a reused address; broken if a late call does not ask `shouldStream`.
- `NoOrphanStream`: a box is not left streaming what nobody watches. One
  exception is real: the io thread may have decided to send before the viewer
  left, and send after the StopStream (`overtaken`;
  `ServerSession.cpp:269-279`).
- `DemandCovered`: what is watched has been requested or will be. One exception
  is real: the timer shared by the cameras of a box (`replaced`;
  `ServerSession.cpp:251`).
- `DemandIsPlayers`: both halves agree on who watches what.
- `EntriesExact`: a path has an entry, with the right camera and marks, exactly
  while a player or a recorder of it is there whose lookup succeeded; broken if
  the first of the two to leave takes the entry with it. A reader whose lookup
  failed has none.
- `ImplementsDemand`: every step of the server is a step of `StreamDemand`.
- `WatchedIsTold`: a viewer of a connected box gets the box told. It is checked
  with one camera per box; with two it does not hold, because of the timer.
- `RefusesForAReason`: the control server gives up only over a changed key or
  an update that found nothing, never over a renewal for one key, however it
  meets the reads, nor over files that go missing later.
- `RenewalIsServed`: a certificate that stays reaches both servers, unless one
  has given up (control: `_valid` is false; restream: its first update failed).

Device box:

- `LoneResetFreesFoldersOnly`: a reset that meets no other finds the handlers it
  removes, their streamers idle, and `clearConfig` none; nothing refers to what
  is gone but the timers and answers of the folders of sources with storage. For
  those the assertion does not hold (`Controller.cpp:100`), and a process that
  has used Dropbox may crash of it. The streamer's half of the assertion is not
  claimed of a server that sends updates.
- `RestoredIsHandled`: what the server asks because of ClientReady finds its
  handler, or names a source that the box could not load. (What it asks earlier
  may find none: see the observations.)
- `ConnectsOnce`, `ResetsEnd`: one connection at a time; a lost one leads to the
  next, a signal to the end, unless Dropbox was used or two resets met.
- `HandledIsLoaded`, `StorageAsConfigured`: handlers and limits are those of
  the last configuration, unless it met a reset; limits of 4 GB and more come
  out too small.
- What follows where two resets meet, one connection is reset twice, or a signal
  or a configuration meets a reset (`clash`) is exempt in all of these but
  `TypeOK`: there they do not hold, and `device_two_resets` shows the first
  thing to go wrong.
- `NothingDangles`, `RemovedInactive`, `StoppedIsDestroyed`, `ShutdownEnds`:
  the life of the Streamer, as long as no update of the counter is lost.
  `DestroysStopped`, `FailureIsTold` hold with lost updates too.
- `HandlerAlive`: a report of a file is dealt with before the reset removes its
  splitter. `UploadsReadable`, `AccountedFor`, `RecordingKept`,
  `ClosedIsRemoved`: a file is complete and on the disk until its upload is
  answered; every file of the process on the disk is being written or has
  exactly one report, request, upload or answer, and no other file has any; a
  complete recording is kept, here or in the archive, unless its upload was
  refused or failed or a later one took its name; and it leaves the disk in the
  end, unless its own upload stalls for ever.
- `RequestsAccounted`, `ImplementsRequests`: no slot, request or answer is lost
  or counted twice, and only requests made while a reset waits are dropped by
  it. `TransfersWatched`: while a transfer runs the next round of `curlPerform`
  is on its way; messages are left unread with nothing running only by a
  transfer that ends in the call that starts it, and are read once another one
  runs. `AnsweredInTheEnd`: if the network ends every transfer, each request is
  answered in the end, but for one that was left unread in that way and that no
  other follows. `UsedNeverEnds`, `ClosingEnds` state what `curlPerform` does
  to a shutdown: once it has run, the thread never ends.
- `CopyIsSound`, `Mirrors`: the folder's copy keeps its size and order and is
  right about every file without a change on its way, except those that went
  with the whole folder. `RemovesOldest`,
  `BatchIsMinimal`: what a deletion takes. `FolderShrinks`: a folder over the
  limit gets below it, unless a request of the sync failed, after which nothing
  asks again.

### Fairness

Every fair specification says only what the code's scheduling gives:

- Server (`IpCamServer!FairSpec`): each thread keeps running. Queued handlers
  are run in order, so one that is enabled again and again is run (strong
  fairness of `RunPosted`, `RunExpired`). A started timer ends. A session
  without an operation is destroyed. A box that stays connected sends
  ClientReady once, as `Client.cpp` does after its configuration. Nothing is
  assumed of viewers, of the network, or of cameras that fail.
- `Certificates`: threads run and timers expire; both timers share the io
  thread, which takes them in turn (strong fairness of `Reads(h)` for each
  half). Nothing is assumed of the administrator.
- `DeviceBox`: the io thread runs what it has; a stopped streamer is destroyed
  (that is `StoppedIsDestroyed` of `StreamingHandler`); a curl thread that may
  end does; the reconnect timer expires; a read notices a lost connection. A
  connection may stay up, or not be made, for ever.
- `StreamingHandler`: the io thread runs. The queue is FIFO.
- `Recording`: the io thread and the curl thread run. No transfer has to end:
  the code sets no timeout, so `ClosedIsRemoved` exempts a file whose own upload
  stalls.
- `Dropbox`: both threads run and the timer expires. Nothing is assumed of the
  network. `AnsweredInTheEnd` names what it needs: `NetworkEnds`, that a
  transfer which libcurl is given time for ends.
- `DropboxFolder`: the cloud answers, the chain of requests leaves each of its
  states (`ChainLeaves`: success or failure), shrinking is tried again, and
  some of the repeated deletions succeed.

### Findings

1. `ServerSession.cpp:46` (`control_destructor`): the destructor's assertion
   fails for a session that was refused after its certificate was accepted
   (unknown device, device already connected, handshake that fails late). Any
   such box ends the server process.
2. `Sessions.cpp:42` (`server_request_twice`): two paths of one source (`/x`,
   `/x/y`) reach the `assert(false)` of `streamRequested`.
3. `Controller.cpp:94` (`device_two_resets`): a connection that breaks while a
   message is being written fails both the read and the write, each of which
   resets the controller; the second reset removes what the first has removed.

### Observations

Met while modelling, visible in the models or by a change of one constant, and
not made into runs:

- `RestreamServer/Server.cpp:391`: a connect whose lookup failed leaves no
  entry, and the disconnect asserts that there is one (`Unknown...Connected`).
- Without assertions, two paths of one source break `DemandIsPlayers` (the
  first to lose its players stops the stream of the other), and two cameras of
  a box break `WatchedIsTold`. One path, two addresses and no assertions pass.
- `StreamingHandler` with `ReadsWhileResetting = TRUE`: a request that is read
  while the controller resets restarts the stream of a handler that has been
  shut down (`RemovedInactive` fails, `Controller.cpp:98`), and a second queued
  destruction meets a Streamer that streams (`DestroysStopped` fails,
  `StreamingHandler.cpp:111`). It takes ClientConfigUpdated, or a failed write
  on a connection that still delivers.
- `Controller.cpp:98-100` asserts `!dropboxFolder.active()` too: a folder that
  has ever been listed stays active through its shutdown, since the update timer
  is not cancelled. Every reset of a source with storage fails it, and without
  assertions leaves the timer or an answer with a folder that is gone.
- `Controller.cpp:192` also meets sources that the box has skipped: ClientReady
  does not say which were loaded, and the server asks for all that are active.
- `Dropbox.cpp:374`: a transfer that ends in the call that starts it leaves the
  count as it was; if nothing else is running its message stays unread, its
  request unanswered and, for an upload, its slot taken until another transfer
  runs on.
- No transfer has a timeout (`Dropbox.cpp:645-658`, `694-732`): an upload that
  stalls keeps its slot and its file on the disk.
- A folder that is deleted as a whole leaves its files in the copy
  (`DropboxFolder.cpp:137-139`); `shrinkFolder` then asks for deletions of files
  that are not there, again and again, as only entries of theirs remove them.
- `DropboxFolder.cpp:92` asserts in `onUpdateResponse` that the answer was
  good, and goes on to end the chain of requests for good when it was not
  (`sync = "failed"`).
- `Controller.cpp:192` asserts that a requested stream has handlers; the server
  asks from the beginning of a connection, before the configuration is loaded.
- `Controller.cpp:38`: the destructor asserts that a shutdown has come before
  it.
- A box with storage that loses its connection never connects again: Dropbox is
  used, so its reset never ends (`UsedNeverEnds`, and `dropbox.used` in
  `ResetsEnd`).
- A new key that is installed and read as a whole makes the control server
  refuse every box until it is restarted: `use_private_key` meets the old
  certificate in the context (`ControlServer/Server.cpp:84-92`), and nothing
  sets `_valid` again. If the first read of the new pair is torn, it can
  succeed.
- `PGConfig::certificate` without a connection constructs a `std::string` from
  a null pointer, which ends the process (`PGConfig/Config.cpp:567-569`,
  `NotConnected`).
- The restream server's thread returns for good if its first certificate update
  fails (`RestreamServer/Server.cpp:161-164`, `restream = "ended"`), while the
  process lives on. Its timer runs on the io thread, with the `Config` that was
  cloned for the restream thread (`:205`).
- `ControlServer/Server.cpp:128`: `UPDATE_CERTIFICATE_TIMEOUT` counts minutes
  here and days in the log.
- `PGConfig/Config.cpp:276` lists the sources of a device with `limit 1`, and
  `:201` reports a device without the source as found when no source is asked
  for.

## 4. Proofs

A theorem speaks of every value of the constants: any number of boxes, cameras,
sessions, paths, requests, renewals, files and processes, and any bound. What it
assumes of them is the `ASSUME` of the component's module (null values are not
members, every camera has an owner, sets are finite, bounds are numbers; TLC
evaluates it in every run) and, for some theorems, one hypothesis of their own:

| hypothesis | theorems | why the code gives it |
|---|---|---|
| `UnambiguousDemand`: assertions are on, or each camera has one path | `DemandIsThePlayers`, `DemandIsImplemented` | the repository sets no build type, so `assert` is compiled in; without it a second path breaks the property (finding 2 and the observations) |
| one path for each camera | `OnePathNeverTwice` | not given by the code, which derives paths freely: the theorem says what avoids finding 2 |
| `ReadsWhileResetting = FALSE` | the four of `StreamingHandler_proofs` | nothing is read once a connection has failed; otherwise TLC finds all four violated |
| `Updates = FALSE` | `TheRestoredAreHandled`, `LoneResetsFreeFoldersOnly` | no server of the repository sends ClientConfigUpdated; with one the streamer's half of the assertion (`Controller.cpp:98`) may fail |
| `Skews = {0}` | `FolderRemovesOldest` | a time zone without daylight saving time; elsewhere `mktime` gets a `tm_isdst` that nobody has set and may put two files in the wrong order, and the property fails |

| module | theorems (property where its name differs) |
|---|---|
| `ControlServer_proofs` | `TypeCorrect` (`TypeOK`), `RegistryIsExact`, `AskedForItsOwn` (`OwnSourcesOnly`), `NobodyStreamsForNobody` (`NoOrphanStream`), `DemandIsCovered` |
| `Certificates_proofs` | `GivesUpForAReason` (`RefusesForAReason`) |
| `IpCamServer_proofs` | `EntriesAreExact` (`EntriesExact`), `DemandIsThePlayers` (`DemandIsPlayers`), `DemandIsImplemented` (`ImplementsDemand`), `OnePathNeverTwice` |
| `Dropbox_proofs` | `RequestsAreAccounted`, `AUsedThreadNeverEnds` (`UsedNeverEnds`), `TransfersAreWatched`, `RequestsAreImplemented` (`ImplementsRequests`); of the folder `FolderCopyIsSound` (`CopyIsSound`), `FolderMirrors` (`Mirrors`), `FolderBatchIsMinimal` (`BatchIsMinimal`), `FolderRemovesOldest` (`RemovesOldest`) |
| `StreamingHandler_proofs` | `TheStreamerOutlivesItsHandlers` (`NothingDangles`), `NoDestructionMeetsAStream` (`DestroysStopped`), `NoFailureIsSilent` (`FailureIsTold`), `AnIdleHandlerIsRemoved` (`RemovedInactive`) |
| `Recording_proofs` | `ReportsFindTheirHandlers` (`HandlerAlive`), `UploadsAreReadable`, `FilesAreAccountedFor`, `RecordingsAreKept` |
| `DeviceBox_proofs` | `TypeCorrect` (`TypeOK`), `LoneResetsFreeFoldersOnly`, `TheLoadedAreHandled` (`HandledIsLoaded`), `TheBoxConnectsOnce`, `StorageIsAsConfigured`, `TheRestoredAreHandled` |

Each module states an inductive invariant, `IInv` (`DemandInv` in
`IpCamServer_proofs`, `FolderIInv` for the folder), and has one lemma for each
action or for each conjunct an action can disturb. A last lemma joins them, and
the temporal theorems follow by PTL. The properties are not inductive
alone: what follows says what they need.

### ControlServer

`IInv` adds

- `SessionsConsistent`: a session has a context exactly from `Authenticated` to
  its destruction, and keeps nothing before. Without it, a session in its
  handshake could hold requests of nobody.
- `SourcesOwned`: timers, the io thread and the contexts hold sources of their
  own device, so what moves into `told` is owned.
- `CallConsistent`: while a call runs the demand is what the call set. Only the
  restream thread changes it, one call at a time.
- `LateRequest`: a request about to be sent is wanted, or will be followed by
  StopStream, or was overtaken by one. This is the heart of `NoOrphanStream`.

`TypeNext` is proved first, action by action, because a step that changes
several fields of a session record has to be shown to give a record again. The
theorems hold for both values of `NDEBUG`.

### Certificates

`RefusesForAReason` speaks of the keys that were `seen`. To show that a refused
key means two of them, one needs to know that every key that is kept anywhere
was stored while this process ran: `KeysAreSeen` says it of the storage, both
caches, a read under way and the context. `UpdateIInv` is about one update with
any pair a `Config` may return (`Returned`), `ReadsIInv` shows that each read
returns such a pair, and the steps of administrator and process only add to
`seen` or empty what is kept.

### IpCamServer

The control server in the process is another instance of the module
`ControlServer_proofs` is about. `SameInit` and the lemmas after it show that
the two instances have the same steps, so `Proved!IInv` is taken over as it is.
`EntriesConsistent` ties an entry of `pathsInfo` to the library's reports: it is
there for the players and the recorder in the history, and for the source its
path names, so that `pathsInfo` is a function of the two histories
(`ExactEntries`).
`OnePathWatched` says that only one path of a camera has players (or the
assertion of `streamRequested` has ended the process): without it the last
player of one path would stop what another still watches. With both,
`DemandIsPlayers` is inductive.

`DemandIsImplemented` is the refinement. `DemandStep` shows that each step of
the server is a step of `StreamDemand` or leaves what it promises alone, under
the invariant of both states; `MappingExact` says what the mapped variables are
in terms of the server's, so that no step has to unfold the mapping again. It
rests on `RegistryExact` and `SessionsConsistent`: a session that was told
something, or is about to be, is the active one of its device.

### DataFacts

An io_service is a sequence of handlers, and the box's invariants are about what
is in it and in which order. `Count(s, X)` is the number of handlers of kind
`X`, `Before(s, X, Y)` says that one of kind `X` is ahead of one of kind `Y`,
`Between` that one stands between two others. The lemmas say how taking the
head and posting at the end change the three (`Taking`, `Putting`, and `Added`,
`Removed`, `Replaced` for whole steps), so that no proof about a component
speaks of indices. `Count` is the cardinality of a set of positions, so that
part needs no induction.

The copy of the Dropbox folder does: a page is handled by a loop, the size is a
sum. The library's induction theorems take an operator as a parameter, which no
installed prover can instantiate. `SubsetInduction` is induction in terms of
sets: a set of subsets of a finite `D` that has a member for each step from
smaller ones has them all. It follows from the fact that strict inclusion of
finite sets is well-founded, as the library proves it. On it rest

- `FoldExists`, `FoldUnique`: the functions behind the folds of the community
  modules exist, are the only solutions of their equations, and stay in a set
  that the step keeps;
- `SumFolds`, `TotalRest`, `SumOfPart`: a sum can be taken in any order, so it
  changes by what is added or removed;
- `Initial`, `Lists`, `ListRemoval`, `ListInsertion`: a sorted sequence without
  repetitions that lists a set, and what removing and inserting at a position
  make of it.

### Dropbox

`Place(r)` counts in how many places a request is: either queue, a transfer, an
answer. It is one at most, and a step only moves it; a reset may drop it. That,
with `Accounts` (the slots are those of the uploads under way, the unread
messages those of the ended transfers, the count is that of the running ones),
gives `RequestsAccounted`. `Driven` says that a `curlPerform` that has run
leads to the next one, hence the thread never ends. `TransfersAreWatched` adds
what one step does to unread messages (`Watches`): with the count right, a round
that leaves them unread has started what it ended.

`RequestsAreImplemented` maps each request to its fate (`Fates`): what it is to
`DropboxRequests` is seen from its places. Each step changes the fate of one
request, or ends a reset. For the end a second invariant, `Closes`, is needed:

- `NothingAfter`: no answer stands behind the last handlers of the curl thread
  in the io queue, so every answer is given before the reset ends;
- `WaitedFor`: the thread ends only when a reset or shutdown was called;
- `OnlyLateLeft`: what the ended thread has not taken from its queue was made
  while the io thread waited.

With them `LeftAtTheEnd`: when the reset ends, only late requests are pending.

### DropboxFolder

A *sound* copy (`Folders`) is a triple of items, index and size in which the
index lists the items by their times and the size is their sum.

- `Bounds`, `Finds`: in a sound copy the binary searches split the index, and
  the search in `eraseItem` finds the entry of the file among those of its
  time. This is what the assertions of `DropboxFolder.cpp` stand for.
- `Erasing`, `Inserting`: each keeps the copy sound and changes one file.
- `HandlingPage`: the loop over a page gives a sound copy in which each file is
  what its entry says, and what it was if there is none. It takes the page to
  have one entry for a file, as `PageIsDue` says.
- `RemoveCounts`: the loop of `removeList` stops at the first prefix of the
  index that is enough, and there is one.

`FolderIInv` says that the copy is sound (`FolderSound`), and what relates it
to the cloud:

- `PageIsDue`: an answer on its way is right about each of its files that has
  not changed since nor gone with the folder (`Untold`). Without it handling a page could undo what is known.
- `UnlistedIsEmpty`: before the first answer the copy is empty; a listing that
  starts would otherwise leave files that are gone.
- `CopyAgrees`: `Mirrors`, also for the state in which the sync has failed, and
  of the times too if `Skews = {0}`. Deletions go on in that state, and
  `RemovesOldest` compares times.

`CopyIsSound` and `Mirrors` follow from the state. `BatchIsMinimal` and
`RemovesOldest` are about the step of `shrinkFolder`: a batch is a prefix of the
sorted index (`Batches`), so what it leaves is not older.

### StreamingHandler

- `Lane` is the protocol of connection and reset, as the order of the queue has
  it: one read at a time, none behind an error, the end of the shutdown last.
- `Destroys`: a destruction is queued only for a stopped Streamer without
  references, and no request stands ahead of it, or between two of them, that
  would create the next Streamer.
- `Counted`: as long as no update was lost, the counter is the number of
  handlers in the queue that refer to the Streamer, with the one that is
  running.
- `Ends`, `Io`, `Told` say the same of the finished shutdown, of what GStreamer
  is doing and of failures that are on their way to the server.

### Recording

`Places(f)` counts on how many of the four ways a file is: reported, requested,
being uploaded, answered. It is on one at most, complete and on the disk while
it is (`Placed`), and on one, or being written, as long as it is on the disk
(`Accounted`). `Stopping` orders a camera's reports before its end, `Opened`
and `Numbered` say which file is open and that no closed file has the number of
one to come, and `Kept` is `RecordingKept` with the archive's versions. A kill
at any point empties the queue and keeps disk and archive, so that `Kept` is all
that is left to show.

The order of the reports and ends of several cameras mattered here: the proof
needs only that a camera's report is ahead of its own end, and that is all
`StopHandleSources` gives.

### DeviceBox

Once two resets have met (`clash`) next to nothing holds but the types. `Typed`
is kept by every step; the rest of `IInv` is about a process where they have
not:

- A reset under way: each source with handlers has one step queued or its
  streamer is waited for (`OneEach`, `AllOrNone`), Dropbox comes last and alone
  (`LastDropbox`), and all of it leads to one end (`OneEnd`). With it the last
  source to go is the one that posts what comes next.
- Around it: the box is on one way at most from an error to its next connection
  (`Returning`, which counts resets, timer and queued connects), what was read
  of one connection is handled before its error is (`Connecting`, `Quiet`), and
  a signal ends what it finds (`Exiting`).
- `Handled`: with no reset under way the handlers are those of the
  configuration.

`ConnectsOnce` and `HandledIsLoaded` follow from the state,
`StorageAsConfigured` from a step: a load finds no handlers, so every handler it
makes has the limits of the configuration loaded. For `RestoredIsHandled` the
invariant `RInv` adds what the server was asked and will ask: without updates
one answer is on its way at most, it comes to a box without handlers
(`Answered`), and what is asked because of ClientReady names sources that have
them, ahead of any reset that would remove them, or sources that were skipped
(`Asked`). `LoneResetFreesFoldersOnly` needs two more: `Stored`, that handlers
with storage and a freed folder have used Dropbox, and `Idle`, that a streamer
whose end is queued is idle and that no request is left behind a reset that has
passed the recorder. The second rests on `RInv`, and so on `Updates = FALSE`;
the first does not.

### Only model-checked

- Liveness: `WatchedIsTold`, `RenewalIsServed`, `ResetsEnd`,
  `StoppedIsDestroyed`, `ShutdownEnds`, `ClosingEnds`, `AnsweredInTheEnd`,
  `ClosedIsRemoved`, `FolderShrinks`. TLAPS proves neither liveness under fairness nor
  ENABLED.
- The three violations, which are counterexamples and not theorems.

No module declares a recursive operator.

## 5. Plan

1. *(done)* Server: `ControlServer`, `RestreamServer`, `IpCamServer`,
   `StreamDemand`, `Certificates`.
2. *(done)* Device box: `StreamingHandler`, `Controller`, `DeviceBox`,
   `Recording`, `Dropbox` with `DropboxRequests`, `DropboxFolder` with
   `DropboxCloud`.
3. *(done)* Proofs of `ControlServer` and of `Certificates`.
4. *(done)* Proofs of `Dropbox`, `IpCamServer` with its refinement, `Recording`,
   `StreamingHandler`, `DeviceBox` and `DropboxFolder`.
5. Perhaps: the lookups of `PGConfig` and `FileConfig` against one reference
   definition.

## 6. Not modelled, and why

- TLS, protobuf, hashes, keys and certificate parsing: pure functions of
  libraries.
- GStreamer, curl, OpenSSL, PostgreSQL, RtspRestreamServer, NetworkCore:
  external (the last two are submodules whose sources are not in the
  repository); modelled only as what their callbacks and calls may do.
- Authentication and authorization (`tlsAuthenticate`, `authenticate`,
  `authorize`): they change no state; they decide whether the library calls the
  callbacks of `RestreamServer`, which it may do at any time here.
- Lookups of `FileConfig`, `PGConfig`, `MemoryConfig`: parsing and SQL without
  state. That one may fail is in `RestreamServer` and `ControlServer`.
- Undefined behaviour of two threads inside one `unordered_map` operation or
  inside asio's write queue: every outcome would be possible. The races whose
  outcomes can be named are modelled (reused address, lost update of the
  counter).
- How a GStreamer handler links pads: it changes the pipeline only.
- Logging, daemon start, command lines, `Test/main.cpp`: no state of the
  system.
