----------------------------- MODULE DropboxCloud ----------------------------
(***************************************************************************)
(* What the requests of DeviceBox/Dropbox.cpp ask of the cloud: the action *)
(* classes, as far as their handleDone delivers it.  The cloud is a folder *)
(* of files and one cursor, which stands for the changes that the holder   *)
(* of the cursor has not been told of yet.  Whoever deletes the whole      *)
(* folder deletes its files, but the cursor tells of the folder only.  The *)
(* service itself is external.                                             *)
(***************************************************************************)
EXTENDS Naturals, Sequences, FiniteSets, SequencesExt

CONSTANTS
    Paths,      \* the files there may be
    Sizes,      \* the sizes they may have
    MaxWrites   \* bound: files written

ASSUME CloudAssumption ==
    /\ IsFiniteSet(Paths)
    /\ Sizes \subseteq Nat
    /\ MaxWrites \in Nat

VARIABLES
    cloud,      \* the files, with server_modified and size
    now,        \* the server's clock, which writes advance
    dirty,      \* the changed files that the cursor has not delivered
    gone        \* those that went with the whole folder and have not been
                \* written since, of which it delivers nothing

cloudVars == <<cloud, now, dirty, gone>>

File == [time : 1 .. MaxWrites, size : Sizes]
Entry == [path : Paths, tag : {"file"}, file : File] \cup
         [path : Paths, tag : {"deleted"}]
Page == [entries : Seq(Entry), hasMore : BOOLEAN]

\* A map from some of the files.
IsTable(table, Values) ==
    /\ DOMAIN table \subseteq Paths
    /\ \A path \in DOMAIN table : table[path] \in Values

CloudTypeOK ==
    /\ IsTable(cloud, File)
    /\ now \in 0 .. MaxWrites
    /\ dirty \in SUBSET Paths
    /\ gone \in SUBSET Paths

CloudInit ==
    /\ cloud = <<>>
    /\ now = 0
    /\ dirty = {}
    /\ gone = {}

\* UploadAction: the mode is "overwrite".
UploadAction(path, size) ==
    /\ now < MaxWrites
    /\ now' = now + 1
    /\ cloud' =
          [p \in DOMAIN cloud \cup {path} |->
              IF p = path THEN [time |-> now', size |-> size] ELSE cloud[p]]
    /\ dirty' = dirty \cup {path}
    /\ gone' = gone \ {path}

\* DeletePathAction, of a file that is there.
DeletePathAction(path) ==
    /\ path \in DOMAIN cloud
    /\ cloud' = Restrict(cloud, DOMAIN cloud \ {path})
    /\ dirty' = dirty \cup {path}
    /\ UNCHANGED <<now, gone>>

\* The whole folder is deleted.  Its entry names none of its files, so that
\* handleFolderResponse passes over it, and it is left out of the pages.
DeleteFolderAction ==
    /\ cloud # <<>>
    /\ cloud' = <<>>
    /\ dirty' = dirty \ DOMAIN cloud
    /\ gone' = gone \cup DOMAIN cloud
    /\ UNCHANGED now

\* DeleteBatchAction: files that are gone already are passed over.
DeleteBatchAction(paths) ==
    /\ cloud' = Restrict(cloud, DOMAIN cloud \ paths)
    /\ dirty' = dirty \cup (DOMAIN cloud \cap paths)
    /\ UNCHANGED <<now, gone>>

EntryOf(path) ==
    IF path \in DOMAIN cloud
    THEN [path |-> path, tag |-> "file", file |-> cloud[path]]
    ELSE [path |-> path, tag |-> "deleted"]

\* A page of what is due and the cursor for the rest.
Delivers(page, due) ==
    \E some \in SUBSET due : \E order \in SetToSeqs(some) :
        /\ some = {} => due = {}
        /\ page = [entries |-> [i \in DOMAIN order |-> EntryOf(order[i])],
                   hasMore |-> some # due]
        /\ dirty' = due \ some
        /\ UNCHANGED <<cloud, now>>

\* ListFolderAction: every file, and no deleted ones (include_deleted).
ListFolderAction(page) == Delivers(page, DOMAIN cloud) /\ gone' = {}

\* ContinueListFolderAction: what has changed.
ContinueListFolderAction(page) == Delivers(page, dirty) /\ UNCHANGED gone

=============================================================================
