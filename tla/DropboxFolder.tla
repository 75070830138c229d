---------------------------- MODULE DropboxFolder ----------------------------
(***************************************************************************)
(* DeviceBox/DropboxFolder.cpp: the device box's copy of what is in its    *)
(* folder of the cloud, which tells it what to delete when the folder      *)
(* grows too large.  It lists the folder once and then asks for changes    *)
(* every five seconds; files come and go meanwhile, uploaded by the box or *)
(* deleted, one by one or with the whole folder, by whoever has the        *)
(* account.                                                                *)
(*                                                                         *)
(* A request is a step of the cloud and a later one of the io thread that  *)
(* handles its answer.  Timestamps are the server's, up to what mktime     *)
(* makes of a tm_isdst that strptime does not set.                         *)
(***************************************************************************)
EXTENDS DropboxCloud

CONSTANTS
    MaxSize,    \* dropboxMaxStorage, which is above 0 when it is used
    Skews,      \* what mktime may add to a timestamp: {0} in a time zone
                \* without daylight saving time
    MaxBatches  \* bound: deletions requested at a time

ASSUME FolderAssumption ==
    /\ MaxSize \in Nat \ {0}
    /\ Skews \subseteq Nat
    /\ MaxBatches \in Nat

VARIABLES
    items,          \* _items
    index,          \* _index, by path
    folderSize,     \* _folderSize
    sync,           \* the chain of requests, see SyncState
    page,           \* the answer on its way, for sync = "listed", "updated"
    batches,        \* deletions requested and not answered
    shuttingDown,   \* _shuttingDown
    removed         \* Controller::removeSource has destroyed the object

folderVars == <<items, index, folderSize, sync, page, batches, shuttingDown,
                removed>>
allVars == <<cloudVars, folderVars>>

SyncState ==
    {"none",
     "listing", "listed",       \* listFolder requested, answered
     "waiting",                 \* _updateTimer is armed
     "updating", "updated",     \* continueListFolder requested, answered
     "ended",                   \* nothing will ask again
     "failed"}                  \* as "ended", past onUpdateResponse's assertion

NoPage == [entries |-> <<>>, hasMore |-> FALSE]

FolderTypeOK ==
    /\ CloudTypeOK
    /\ IsTable(items, [time : Nat, size : Nat])
    /\ index \in Seq(Paths)
    /\ folderSize \in Nat
    /\ sync \in SyncState
    /\ page \in Page
    /\ batches \in Seq(SUBSET Paths)
    /\ shuttingDown \in BOOLEAN
    /\ removed \in BOOLEAN

FolderInit ==
    /\ CloudInit
    /\ items = <<>>
    /\ index = <<>>
    /\ folderSize = 0
    /\ sync = "none"
    /\ page = NoPage
    /\ batches = <<>>
    /\ shuttingDown = FALSE
    /\ removed = FALSE

-----------------------------------------------------------------------------
(* The index.  A folder is a record of items, index and size.              *)

\* ItemsLessByTimestamp: how many entries are older than a time, or no newer.
\* These are std::lower_bound and std::upper_bound, as the index is sorted.
LowerBound(f, time) ==
    Cardinality({i \in DOMAIN f.index : f.items[f.index[i]].time < time})
UpperBound(f, time) ==
    Cardinality({i \in DOMAIN f.index : f.items[f.index[i]].time <= time})

\* std::find_if between the two bounds; the upper one when there is none.
Found(f, path) ==
    LET time == f.items[path].time
        range == LowerBound(f, time) + 1 .. UpperBound(f, time)
        here == {i \in range : f.index[i] = path}
    IN  IF here = {} THEN UpperBound(f, time) + 1 ELSE Min(here)

EraseItem(f, path) ==
    IF path \notin DOMAIN f.items THEN f
    ELSE [items |-> Restrict(f.items, DOMAIN f.items \ {path}),
          index |-> RemoveAt(f.index, Found(f, path)),
          size |-> f.size - f.items[path].size]

\* Mutant: the old item is not erased first.
InsertItemOverOld(f, path, item) ==
    [items |-> [p \in DOMAIN f.items \cup {path} |->
                   IF p = path THEN item ELSE f.items[p]],
     index |-> IF path \in DOMAIN f.items THEN f.index
               ELSE InsertAt(f.index, UpperBound(f, item.time) + 1, path),
     size |-> f.size + item.size]

InsertItem(f, path, item) ==
    LET kept == EraseItem(f, path)
    IN  [items |-> [p \in DOMAIN kept.items \cup {path} |->
                       IF p = path THEN item ELSE kept.items[p]],
         index |-> InsertAt(kept.index, UpperBound(kept, item.time) + 1, path),
         size |-> kept.size + item.size]

\* Mutant: deleted files are passed over, as folders are.
HandleEntryFilesOnly(f, entry, skew) ==
    IF entry.tag = "deleted" THEN f
    ELSE InsertItem(f, entry.path,
             [time |-> entry.file.time + skew, size |-> entry.file.size])

\* One entry of the answer.
HandleEntry(f, entry, skew) ==
    IF entry.tag = "deleted" THEN EraseItem(f, entry.path)
    ELSE InsertItem(f, entry.path,
             [time |-> entry.file.time + skew, size |-> entry.file.size])

Folder == [items |-> items, index |-> index, size |-> folderSize]

\* handleFolderResponse: the whole page, then the next request or the timer.
HandleFolderResponse ==
    \E skew \in [DOMAIN page.entries -> Skews] :
        LET f == FoldLeft(LAMBDA g, i :
                              HandleEntry(g, page.entries[i], skew[i]),
                          Folder, [i \in DOMAIN page.entries |-> i])
        IN  /\ items' = f.items
            /\ index' = f.index
            /\ folderSize' = f.size
            /\ sync' = IF page.hasMore THEN "updating" ELSE "waiting"

-----------------------------------------------------------------------------
(* The cloud.                                                              *)

\* The box uploads a recording.
UploadRecording(path, size) ==
    /\ ~removed
    /\ UploadAction(path, size)
    /\ UNCHANGED folderVars

\* Somebody deletes a file.
Delete(path) ==
    /\ ~removed
    /\ DeletePathAction(path)
    /\ UNCHANGED folderVars

\* Or the whole folder.
DeleteFolder ==
    /\ ~removed
    /\ DeleteFolderAction
    /\ UNCHANGED folderVars

ListFolder ==
    /\ ~removed
    /\ sync = "listing"
    /\ ListFolderAction(page')
    /\ sync' = "listed"
    /\ UNCHANGED <<items, index, folderSize, batches, shuttingDown, removed>>

ContinueListFolder ==
    /\ ~removed
    /\ sync = "updating"
    /\ ContinueListFolderAction(page')
    /\ sync' = "updated"
    /\ UNCHANGED <<items, index, folderSize, batches, shuttingDown, removed>>

\* The requests run side by side, so deletions may overtake each other.
DeleteBatch(i) ==
    /\ ~removed
    /\ DeleteBatchAction(batches[i])
    /\ batches' = RemoveAt(batches, i)
    /\ UNCHANGED <<items, index, folderSize, sync, page, shuttingDown, removed>>

DeleteBatchFails(i) ==
    /\ ~removed
    /\ batches' = RemoveAt(batches, i)
    /\ UNCHANGED <<cloudVars, items, index, folderSize, sync, page,
                   shuttingDown, removed>>

-----------------------------------------------------------------------------
(* The io thread.                                                          *)

StartSync ==
    /\ sync = "none"
    /\ ~shuttingDown
    /\ sync' = "listing"
    /\ UNCHANGED <<cloudVars, items, index, folderSize, page, batches,
                   shuttingDown, removed>>

\* onListFolderResponse and onUpdateResponse: a folder that is shutting down
\* ignores the answer.
OnResponse(answered) ==
    /\ ~removed
    /\ sync = answered
    /\ page' = NoPage
    /\ IF shuttingDown
       THEN sync' = "ended" /\ UNCHANGED <<items, index, folderSize>>
       ELSE HandleFolderResponse
    /\ UNCHANGED <<cloudVars, batches, shuttingDown, removed>>

OnListFolderResponse == OnResponse("listed")
OnUpdateResponse == OnResponse("updated")

\* The same, with a response code other than 200.
OnFailure(asked, over) ==
    /\ ~removed
    /\ sync = asked
    /\ sync' = over
    /\ UNCHANGED <<cloudVars, items, index, folderSize, page, batches,
                   shuttingDown, removed>>

OnListFolderFailure == OnFailure("listing", "ended")
OnUpdateFailure == OnFailure("updating", "failed")

\* _updateTimer has expired.
Update ==
    /\ ~removed
    /\ sync = "waiting"
    /\ sync' = IF shuttingDown THEN "ended" ELSE "updating"
    /\ UNCHANGED <<cloudVars, items, index, folderSize, page, batches,
                   shuttingDown, removed>>

SizeOf(f, paths) == SumFunction([p \in paths |-> f[p].size])

\* Mutant: from the wrong end.
Newest(n) == {index[i] : i \in Len(index) - n + 1 .. Len(index)}

\* The first n of _index.
Oldest(n) == {index[i] : i \in 1 .. n}

\* Mutant: the loop ends at the exact size.
RemoveCountExact ==
    LET enough == {n \in 1 .. Len(index) :
                      folderSize - MaxSize <= SizeOf(items, Oldest(n))}
    IN  IF enough = {} THEN Len(index) ELSE Min(enough)

\* removeList: items are added until what had to be removed is less than the
\* last one's size, or all of them.
RemoveCount ==
    LET enough == {n \in 1 .. Len(index) :
                      folderSize - MaxSize < SizeOf(items, Oldest(n))}
    IN  IF enough = {} THEN Len(index) ELSE Min(enough)

\* Mutant: a folder of exactly the limit is left alone.
ShrinkFolderAbove ==
    /\ ~removed
    /\ ~shuttingDown
    /\ MaxSize < folderSize
    /\ Len(batches) < MaxBatches
    /\ batches' = Append(batches, Oldest(RemoveCount))
    /\ UNCHANGED <<cloudVars, items, index, folderSize, sync, page,
                   shuttingDown, removed>>

\* shrinkFolder, which Controller::shrinkStorage calls again and again.
ShrinkFolder ==
    /\ ~removed
    /\ ~shuttingDown
    /\ MaxSize <= folderSize
    /\ Len(batches) < MaxBatches
    /\ batches' = Append(batches, Oldest(RemoveCount))
    /\ UNCHANGED <<cloudVars, items, index, folderSize, sync, page,
                   shuttingDown, removed>>

ShutdownFolder ==
    /\ ~shuttingDown
    /\ shuttingDown' = TRUE
    /\ UNCHANGED <<cloudVars, items, index, folderSize, sync, page, batches,
                   removed>>

\* Controller::removeSource, which the end of the shutdown leads to.
RemoveSource ==
    /\ shuttingDown
    /\ ~removed
    /\ removed' = TRUE
    /\ UNCHANGED <<cloudVars, items, index, folderSize, sync, page, batches,
                   shuttingDown>>

-----------------------------------------------------------------------------
CloudNext ==
    \/ \E path \in Paths :
          (\E size \in Sizes : UploadRecording(path, size)) \/ Delete(path)
    \/ DeleteFolder
    \/ ListFolder
    \/ ContinueListFolder
    \/ \E i \in DOMAIN batches : DeleteBatch(i) \/ DeleteBatchFails(i)

FolderNext ==
    \/ CloudNext
    \/ StartSync
    \/ OnListFolderResponse
    \/ OnUpdateResponse
    \/ OnListFolderFailure
    \/ OnUpdateFailure
    \/ Update
    \/ ShrinkFolder
    \/ ShutdownFolder
    \/ RemoveSource

FolderSpec == FolderInit /\ [][FolderNext]_allVars

\* The chain of requests leaves one of these states, whatever else happens.
ChainLeaves(states) ==
    /\ ~removed
    /\ sync \in states
    /\ sync = "none" => ~shuttingDown
    /\ sync' \in SyncState \ {sync}

\* The cloud answers, the io thread handles what it has, timers expire, and
\* of deletions asked again and again some succeed.
FolderFairness ==
    /\ WF_sync(ChainLeaves({"listing", "updating"}))
    /\ WF_sync(ChainLeaves({"none", "listed", "waiting", "updated"}))
    /\ WF_allVars(ShrinkFolder)
    /\ SF_allVars(\E i \in DOMAIN batches : DeleteBatch(i))

FolderFairSpec == FolderSpec /\ FolderFairness

-----------------------------------------------------------------------------
(* Properties.                                                             *)

\* _folderSize, kept by additions and subtractions over every listing, change
\* and deletion, is the size of the items.
SizeIsSum == folderSize = SizeOf(items, DOMAIN items)

\* The assertions of handleFolderResponse, and what they are for: _index holds
\* the items, each once, the oldest first.
IndexIsItems ==
    /\ ToSet(index) = DOMAIN items
    /\ Len(index) = Cardinality(DOMAIN items)
    /\ \A i, j \in DOMAIN index :
          i < j => items[index[i]].time <= items[index[j]].time

\* The listing, changes and deletions are applied to the three of them alike,
\* whatever the order of the answers (DropboxFolder.cpp:103-199).
CopyIsSound == FolderTypeOK /\ SizeIsSum /\ IndexIsItems

InPage == {page.entries[i].path : i \in DOMAIN page.entries}
Known(path) == path \notin dirty \cup gone \cup InPage

\* The copy is right about every file with no change on its way: neither a
\* page of the listing, nor a change during it, nor a deletion gets lost, but
\* for the files that went with the whole folder, which it keeps
\* (DropboxFolder.cpp:137-139).
Mirrors ==
    sync \notin {"none", "listing", "ended", "failed"} =>
        \A path \in Paths : Known(path) =>
            /\ path \in DOMAIN items <=> path \in DOMAIN cloud
            /\ path \in DOMAIN items => items[path].size = cloud[path].size

\* A batch makes the copy smaller than the limit, and would not without the
\* last of its files.  (The limit itself is too large for shrinkFolder.)
BatchIsMinimal ==
    [][ShrinkFolder =>
        LET batch == Last(batches')
            rest == SizeOf(items, DOMAIN items \ batch)
        IN  /\ batch # {}
            /\ rest < MaxSize \/ batch = DOMAIN items
            /\ rest + items[index[Cardinality(batch)]].size >= MaxSize]_allVars

\* "will delete oldest items" (DropboxFolder.h): of the files the box knows,
\* no batch takes one that is newer, by the server's time, than one it leaves.
RemovesOldest ==
    [][ShrinkFolder =>
        LET batch == Last(batches')
        IN  \A p \in batch, q \in DOMAIN items \ batch :
                Known(p) /\ Known(q) => cloud[p].time <= cloud[q].time]_allVars

Over == sync \in {"ended", "failed"} \/ shuttingDown

\* A folder over the limit is brought below it, whatever the copy still has of
\* a folder that was deleted, unless a request of the sync has failed, after
\* which nothing updates the copy any more.
FolderShrinks ==
    SizeOf(cloud, DOMAIN cloud) >= MaxSize ~>
        SizeOf(cloud, DOMAIN cloud) < MaxSize \/ Over
=============================================================================
