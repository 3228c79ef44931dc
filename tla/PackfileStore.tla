---------------------------- MODULE PackfileStore ----------------------------
(***************************************************************************)
(* What a client has on disk of its backups, and what comes back of it     *)
(* (filesystem/packfile/*, dir_packer.rs, dir_unpacker.rs, send_index in   *)
(* send.rs).                                                               *)
(*                                                                         *)
(* The walker goes through the directories, deepest first, and spawns a    *)
(* task for every file of one.  Tasks and walker hand blobs to the         *)
(* packfile manager, which deduplicates them, puts them into packfiles and *)
(* their names into index files.  When packing is completed the index      *)
(* files are sent to a peer, and the server is told of the snapshot.  Each *)
(* backup has a manager of its own, which knows of earlier ones only what  *)
(* it finds in the index files.                                            *)
(*                                                                         *)
(* A blob stands for its hash.  A packfile is complete when it holds       *)
(* MaxBlobs blobs, which stands for the target size too.  Packfiles are    *)
(* not deleted: BackupFlow and FileTransfer are about how they get to      *)
(* peers, here it does not matter where they are.                          *)
(***************************************************************************)
EXTENDS Integers, Sequences, FiniteSets, SequencesExt

CONSTANTS
  Root,        \* the directory that is backed up
  Subdirs,     \* Subdirs[d]: the directories in d, in the order they are listed
  FilesOf,     \* FilesOf[d]: the files in d, in the order they are listed
  Walker,      \* the task that runs pack()
  Contents,    \* what the files may contain: functions from files to sequences of data
  MaxBlobs,    \* PACKFILE_MAX_BLOBS
  MaxEntries,  \* MAX_FILE_ENTRIES of an index file
  MaxChildren, \* TREE_BLOB_MAX_CHILDREN
  Peers,       \* clients that store the index files
  Faults,      \* subset of {"io", "tail"}, see below
  MaxBackups,  \* bound: backups begun
  MaxCrashes,  \* bound: restarts of the program
  MaxErrors    \* bound: errors

\* "io": reading a file, writing a file or sending it may fail with an error.
\* "tail": tokio writes the last bytes of a file in the background, after
\* write_all has returned; if that fails nobody is told.
ASSUME FaultsAssumption == Faults \subseteq {"io", "tail"}
ASSUME LimitsAssumption == {MaxBlobs, MaxEntries, MaxChildren} \subseteq Nat \ {0}
ASSUME BoundsAssumption == {MaxBackups, MaxCrashes, MaxErrors} \subseteq Nat

Dirs == DOMAIN Subdirs
Files == UNION {ToSet(FilesOf[d]) : d \in Dirs}
Packers == Files \cup {Walker}
None == [none |-> TRUE]

IsSeq(s) == s \in Seq(ToSet(s))

\* A directory is in one other, and a file in one: browse_dir_tree follows what
\* is_dir, which links are not.
ASSUME TreeAssumption ==
  /\ Root \in Dirs /\ IsFiniteSet(Dirs) /\ DOMAIN FilesOf = Dirs
  /\ \A d \in Dirs : /\ Subdirs[d] \in Seq(Dirs \ {Root}) /\ IsInjective(Subdirs[d])
                     /\ IsSeq(FilesOf[d])
  /\ \A d, e \in Dirs : d # e => /\ ToSet(Subdirs[d]) \cap ToSet(Subdirs[e]) = {}
                                 /\ ToSet(FilesOf[d]) \cap ToSet(FilesOf[e]) = {}
  /\ \A c \in Contents : DOMAIN c = Files /\ \A f \in Files : IsSeq(c[f])
ASSUME WalkerAssumption == Walker \notin Files /\ None \notin Packers

VARIABLES
  \* on disk
  packfiles,   \* sequence of packfiles: their blobs, and whether all bytes are there
  index,       \* sequence of index files: their entries, and whether all bytes are there
  highest,     \* the highest index number sent
  \* in the packfile manager
  queue,       \* blobs: waiting for a packfile
  queued,      \* blobs_queued
  items,       \* entries loaded from disk
  buf,         \* items_buf: entries not in an index file yet
  lastNum,     \* last_file_num
  writer,      \* who is in write_packfiles and holds both locks
  batch,       \* its packfile_index: blobs that have yet to get an entry
  \* in the walker and its tasks
  pc,          \* pc[p]: the next statement of p
  todo,        \* todo[p]: the blobs it has yet to add
  children,    \* children[d]: hashes of the directories in d that are done
  ended,       \* how many directories are done
  aborting,    \* whether pack() is about to return an error
  content,     \* what the files contain during this backup
  lost,        \* history: blobs in the hands of a write that failed
  \* elsewhere
  visited,     \* index files send_index has come across
  received,    \* received[q]: index files that peer q stores
  snapshots,   \* the snapshots the server knows, with what they should hold
  count        \* backups, crashes and errors so far

disk == <<packfiles, index, highest>>
manager == <<queue, queued, items, buf, lastNum, writer, batch>>
packing == <<pc, todo, children, ended, aborting, content, lost>>
elsewhere == <<visited, received, snapshots>>
vars == <<disk, manager, packing, elsewhere, count>>

-----------------------------------------------------------------------------
(* Blobs and trees.                                                        *)

Blob(kind, name, kids, next) ==
  [kind |-> kind, name |-> name, children |-> kids, next |-> next]
Chunk(data) == Blob("chunk", data, <<>>, <<>>)

\* Mutant: the trees are pushed to the back, so that the last one comes first.
SplitTreeReversed(kind, name, kids) ==
  LET n == IF kids = <<>> THEN 1 ELSE (Len(kids) + MaxChildren - 1) \div MaxChildren
      part(i) == SubSeq(kids, (i - 1) * MaxChildren + 1,
                        IF i = n THEN Len(kids) ELSE i * MaxChildren)
      tree[i \in 1..n] ==
        Blob(kind, name, part(i), IF i = n THEN <<>> ELSE <<tree[i + 1]>>)
  IN [i \in 1..n |-> tree[n + 1 - i]]

\* split_serialize_tree: trees of at most MaxChildren children each, where
\* each names the next one as its sibling; the first stands for all.
SplitTree(kind, name, kids) ==
  LET n == IF kids = <<>> THEN 1 ELSE (Len(kids) + MaxChildren - 1) \div MaxChildren
      part(i) == SubSeq(kids, (i - 1) * MaxChildren + 1,
                        IF i = n THEN Len(kids) ELSE i * MaxChildren)
      after[i \in 1..n] ==
        IF i = n THEN <<>> ELSE <<Blob(kind, name, part(i + 1), after[i + 1])>>
  IN [i \in 1..n |-> Blob(kind, name, part(i), after[i])]

\* browse_dir_tree, one round: every directory that is found goes to the front
\* of both queues.
BrowseNext(q) ==
  LET found == Reverse(Subdirs[Head(q.browsing)])
  IN IF q.browsing = <<>> THEN q
     ELSE [browsing |-> found \o Tail(q.browsing), processing |-> found \o q.processing]

\* The queues after n rounds.
Browse[n \in Nat] ==
  IF n = 0 THEN [browsing |-> <<Root>>, processing |-> <<Root>>] ELSE BrowseNext(Browse[n - 1])

ProcessingQueue == Browse[Cardinality(Dirs)].processing

Parent(d) == CHOOSE e \in Dirs : d \in ToSet(Subdirs[e])

\* The directory the walker is at.
Current == ProcessingQueue[ended + 1]

\* process_file: the chunks of the file, then its tree.
FileBlobs(f) ==
  LET chunks == [i \in DOMAIN content[f] |-> Chunk(content[f][i])]
  IN chunks \o SplitTree("file", f, chunks)

\* The tree of a file that is done.
FileTree(f) == SplitTree("file", f, [i \in DOMAIN content[f] |-> Chunk(content[f][i])])[1]

-----------------------------------------------------------------------------
(* The packfile manager.                                                   *)

\* is_blob_duplicate.
IsBlobDuplicate(b) == b \in queued \/ \E e \in items : e[1] = b

Unlocked == writer = None

Idle == \A p \in Packers : pc[p] = "idle"

\* An empty manager, and nobody who uses it.
Reset ==
  /\ queue' = <<>> /\ queued' = {} /\ items' = {} /\ buf' = {} /\ lastNum' = 0
  /\ writer' = None /\ batch' = <<>>
  /\ pc' = [p \in Packers |-> "idle"]
  /\ todo' = [p \in Packers |-> <<>>]
  /\ children' = [d \in Dirs |-> <<>>]
  /\ ended' = 0 /\ aborting' = FALSE /\ lost' = {} /\ visited' = {}

\* Mutant: numbering begins again with every manager.
FirstFileNum == 0

\* BlobIndex::new: the highest number found; files are numbered without gaps.
LastFileNum == Len(index)

\* Manager::new and BlobIndex::new: all index files are loaded, and one that
\* does not decrypt is an error, after which the backup has failed.
Start ==
  /\ Idle /\ count.backups < MaxBackups
  /\ \A i \in DOMAIN index : index[i].whole
  /\ count' = [count EXCEPT !.backups = @ + 1]
  /\ items' = UNION {index[i].entries : i \in DOMAIN index}
  /\ lastNum' = LastFileNum
  /\ content' \in Contents
  /\ pc' = [pc EXCEPT ![Walker] = "dir"]
  /\ UNCHANGED <<disk, queue, queued, buf, writer, batch, todo, children, ended,
                 aborting, lost, elsewhere>>

StartFails ==
  /\ Idle /\ count.backups < MaxBackups
  /\ \E i \in DOMAIN index : ~index[i].whole
  /\ count' = [count EXCEPT !.backups = @ + 1]
  /\ UNCHANGED <<disk, manager, packing, elsewhere>>

\* Where p goes on with the blobs bs yet to add.
Continue(p, bs) ==
  /\ todo' = [todo EXCEPT ![p] = bs]
  /\ pc' = [pc EXCEPT ![p] = IF bs # <<>> THEN "check"
                             ELSE IF p = Walker THEN "dirdone" ELSE "done"]

\* add_blob: a blob that is known is not queued.
CheckDuplicate(p) ==
  /\ pc[p] = "check" /\ Unlocked
  /\ IF IsBlobDuplicate(Head(todo[p]))
       THEN Continue(p, Tail(todo[p]))
       ELSE pc' = [pc EXCEPT ![p] = "queue"] /\ UNCHANGED todo
  /\ UNCHANGED <<disk, manager, children, ended, aborting, content, lost, elsewhere, count>>

QueueBlob(p) ==
  /\ pc[p] = "queue" /\ Unlocked
  /\ queue' = Append(queue, Head(todo[p]))
  /\ pc' = [pc EXCEPT ![p] = "trigger"]
  /\ UNCHANGED <<disk, queued, items, buf, lastNum, writer, batch, todo, children,
                 ended, aborting, content, lost, elsewhere, count>>

\* trigger_write_if_desired: the same blob may have been queued twice, and then
\* counts twice.
TriggerWrite(p) ==
  /\ pc[p] = "trigger" /\ Unlocked
  /\ LET candidates == SelectSeq(queue, LAMBDA b : ~IsBlobDuplicate(b))
     IN IF Len(candidates) >= MaxBlobs
          THEN pc' = [pc EXCEPT ![p] = "write"] /\ UNCHANGED todo
          ELSE Continue(p, Tail(todo[p]))
  /\ UNCHANGED <<disk, manager, children, ended, aborting, content, lost, elsewhere, count>>

\* Where p goes on after write_packfiles: it has added its blob, or it is the
\* walker in flush().
Written(p) ==
  IF todo[p] # <<>> THEN Continue(p, Tail(todo[p]))
  ELSE pc' = [pc EXCEPT ![p] = "index"] /\ UNCHANGED todo

\* Mutant: the second look for duplicates is left out.
Anything(b) == TRUE

\* "double check that blob is unique": it may have been queued twice.
StillUnique(b) == ~IsBlobDuplicate(b)

\* write_packfiles takes a blob from the queue.  One that is put into the
\* packfile counts as known from here on; the packfile is written when it is
\* full or nothing is left.
TakeBlob(p) ==
  /\ pc[p] = "write" /\ writer \in {None, p} /\ queue # <<>>
  /\ writer' = p
  /\ queue' = Tail(queue)
  /\ IF StillUnique(Head(queue))
       THEN batch' = Append(batch, Head(queue)) /\ queued' = queued \cup {Head(queue)}
       ELSE UNCHANGED <<batch, queued>>
  /\ pc' = [pc EXCEPT ![p] =
              IF Len(batch') >= MaxBlobs \/ (queue' = <<>> /\ batch' # <<>>) THEN "save" ELSE @]
  /\ UNCHANGED <<disk, items, buf, lastNum, todo, children, ended, aborting, content, lost,
                 elsewhere, count>>

\* The queue is empty.
WriteDone(p) ==
  /\ pc[p] = "write" /\ writer \in {None, p} /\ queue = <<>>
  /\ writer' = None
  /\ Written(p)
  /\ UNCHANGED <<disk, queue, queued, items, buf, lastNum, batch, children, ended,
                 aborting, content, lost, elsewhere, count>>

\* Whether all bytes get to the disk of a file whose write_all has returned.
Landed == IF "tail" \in Faults /\ count.errors < MaxErrors THEN BOOLEAN ELSE {TRUE}
CountTail(whole) == count' = IF whole THEN count ELSE [count EXCEPT !.errors = @ + 1]

\* The packfile is written.  (A restart in the middle leaves a file that no
\* index names.)
SavePackfile(p) ==
  /\ pc[p] = "save"
  /\ \E whole \in Landed :
       /\ packfiles' = Append(packfiles, [blobs |-> ToSet(batch), whole |-> whole])
       /\ CountTail(whole)
  /\ pc' = [pc EXCEPT ![p] = "finalize"]
  /\ UNCHANGED <<index, highest, manager, todo, children, ended, aborting, content, lost,
                 elsewhere>>

\* A new index file with these entries, whose bytes are not there yet.
CreateIndexFile(entries) ==
  index' = SubSeq(index, 1, lastNum) \o <<[entries |-> entries, whole |-> FALSE]>>

\* finalize_packfile: one entry after the other; a full buffer is flushed.
PushEntry(p) ==
  /\ pc[p] = "finalize" /\ batch # <<>>
  /\ buf' = buf \cup {<<Head(batch), Len(packfiles)>>}
  /\ batch' = Tail(batch)
  /\ IF Cardinality(buf') >= MaxEntries
       THEN CreateIndexFile(buf') /\ pc' = [pc EXCEPT ![p] = "seal"]
       ELSE UNCHANGED <<index, pc>>
  /\ UNCHANGED <<packfiles, highest, queue, queued, items, lastNum, writer, todo,
                 children, ended, aborting, content, lost, elsewhere, count>>

PackfileDone(p) ==
  /\ pc[p] = "finalize" /\ batch = <<>>
  /\ pc' = [pc EXCEPT ![p] = "write"]
  /\ UNCHANGED <<disk, manager, todo, children, ended, aborting, content, lost, elsewhere,
                 count>>

\* Manager::flush, after write_packfiles: the rest of the entries, even if
\* there are none.
FlushIndex ==
  /\ pc[Walker] = "index"
  /\ CreateIndexFile(buf)
  /\ pc' = [pc EXCEPT ![Walker] = "sealLast"]
  /\ UNCHANGED <<packfiles, highest, manager, todo, children, ended, aborting,
                 content, lost, elsewhere, count>>

\* The index file is written.
SealIndexFile(p) ==
  /\ pc[p] \in {"seal", "sealLast"}
  /\ \E whole \in Landed :
       /\ index' = [index EXCEPT ![Len(index)].whole = whole]
       /\ CountTail(whole)
  /\ lastNum' = lastNum + 1
  /\ buf' = {}
  /\ pc' = [pc EXCEPT ![p] = IF @ = "seal" THEN "finalize" ELSE "flushed"]
  /\ UNCHANGED <<packfiles, highest, queue, queued, items, writer, batch, todo,
                 children, ended, aborting, content, lost, elsewhere>>

\* Mutant: the entries are dropped although their file could not be written.
DroppedBuffer == {}

\* flush() clears items_buf only after its file is written.
KeptBuffer == buf

\* write_packfiles returns an error: the packfile cannot be written, or an
\* index file that is full.  The blobs in hand stay known and have no entry.
\* A file is given up then; the walker flushes what is left and gives up.
WriteFails(p) ==
  /\ "io" \in Faults /\ count.errors < MaxErrors
  /\ pc[p] \in {"save", "seal"}
  /\ count' = [count EXCEPT !.errors = @ + 1]
  /\ lost' = lost \cup ToSet(batch)
  /\ batch' = <<>> /\ buf' = KeptBuffer /\ writer' = None
  /\ IF p = Walker
       THEN /\ aborting' = TRUE
            /\ todo' = [todo EXCEPT ![p] = <<>>]
            /\ pc' = [pc EXCEPT ![p] = IF todo[p] = <<>> THEN "failed" ELSE "write"]
       ELSE /\ pc' = [pc EXCEPT ![p] = "failed"]
            /\ todo' = [todo EXCEPT ![p] = <<>>]
            /\ UNCHANGED aborting
  /\ UNCHANGED <<disk, queue, queued, items, lastNum, children, ended,
                 content, elsewhere>>

\* flush() itself fails on the last index file.
FlushFails ==
  /\ "io" \in Faults /\ count.errors < MaxErrors
  /\ pc[Walker] = "sealLast"
  /\ count' = [count EXCEPT !.errors = @ + 1]
  /\ pc' = [pc EXCEPT ![Walker] = "failed"]
  /\ UNCHANGED <<disk, manager, todo, children, ended, aborting, content, lost,
                 elsewhere>>

-----------------------------------------------------------------------------
(* The walker and its tasks.                                               *)

\* pack_files_in_directory, one directory: a task for each of its files.
SpawnTasks ==
  /\ pc[Walker] = "dir"
  /\ LET files == ToSet(FilesOf[Current])
     IN /\ pc' = [p \in Packers |-> IF p = Walker THEN "join"
                                   ELSE IF p \in files THEN "check" ELSE pc[p]]
        /\ todo' = [p \in Packers |-> IF p \in files THEN FileBlobs(p) ELSE todo[p]]
  /\ UNCHANGED <<disk, manager, children, ended, aborting, content, lost, elsewhere,
                 count>>

\* process_file cannot read the file, or has come across a later part of it it
\* cannot read: the file is counted as failed.
ReadFails(f) ==
  /\ "io" \in Faults /\ count.errors < MaxErrors
  /\ pc[f] = "check"
  /\ count' = [count EXCEPT !.errors = @ + 1]
  /\ pc' = [pc EXCEPT ![f] = "failed"]
  /\ todo' = [todo EXCEPT ![f] = <<>>]
  /\ UNCHANGED <<disk, manager, children, ended, aborting, content, lost, elsewhere>>

\* What the directory holds: its directories, then the first n of its files,
\* without those that failed.
Pushed[n \in Nat] ==
  IF n = 0 THEN children[Current]
  ELSE LET f == FilesOf[Current][n]
       IN IF pc[f] = "done" THEN Append(Pushed[n - 1], FileTree(f)) ELSE Pushed[n - 1]
Joined == Pushed[Len(FilesOf[Current])]

\* join_all and add_tree_to_blobs.
JoinTasks ==
  /\ pc[Walker] = "join"
  /\ \A f \in ToSet(FilesOf[Current]) : pc[f] \in {"done", "failed"}
  /\ LET tree == SplitTree("dir", Current, Joined)
     IN /\ todo' = [todo EXCEPT ![Walker] = tree]
        /\ children' = IF Current = Root THEN [children EXCEPT ![Root] = <<tree[1]>>]
                       ELSE [children EXCEPT ![Parent(Current)] = Append(@, tree[1])]
  /\ pc' = [pc EXCEPT ![Walker] = "check"]
  /\ UNCHANGED <<disk, manager, ended, aborting, content, lost, elsewhere, count>>

\* The tree is added: the next directory, or flush() after the root.
DirectoryDone ==
  /\ pc[Walker] = "dirdone"
  /\ ended' = ended + 1
  /\ pc' = [pc EXCEPT ![Walker] = IF Current = Root THEN "write" ELSE "dir"]
  /\ UNCHANGED <<disk, manager, todo, children, aborting, content, lost, elsewhere,
                 count>>

\* pack() returns: an error, or the hash of the root, and then the sender goes
\* on with the index (after the packfiles).
Packed ==
  /\ pc[Walker] = "flushed"
  /\ pc' = [pc EXCEPT ![Walker] = IF aborting THEN "failed" ELSE "sending"]
  /\ UNCHANGED <<disk, manager, todo, children, ended, aborting, content, lost,
                 elsewhere, count>>

-----------------------------------------------------------------------------
(* Sending the index.                                                      *)

\* The index files send_index may come across next: read_dir has no order.
Listed == DOMAIN index \ visited

\* An index file that is not above the highest number sent is skipped.
SkipIndexFile(k) ==
  /\ pc[Walker] = "sending" /\ k \in Listed /\ k <= highest
  /\ visited' = visited \cup {k}
  /\ UNCHANGED <<disk, manager, packing, received, snapshots, count>>

\* Mutant: the number is saved before the file is sent.
SendIndexFileLate(k, q) ==
  /\ pc[Walker] = "sending" /\ k \in Listed /\ k > highest
  /\ highest' = k
  /\ visited' = visited \cup {k}
  /\ \E arrived \in BOOLEAN :
       received' = IF arrived THEN [received EXCEPT ![q] = @ \cup {k}] ELSE received
  /\ UNCHANGED <<packfiles, index, manager, packing, snapshots, count>>

\* A peer stores the file and acknowledges it, and the number is saved.  A peer
\* that has a file of this name refuses it.
SendIndexFile(k, q) ==
  /\ pc[Walker] = "sending" /\ k \in Listed /\ k > highest
  /\ k \notin received[q]
  /\ received' = [received EXCEPT ![q] = @ \cup {k}]
  /\ highest' = k
  /\ visited' = visited \cup {k}
  /\ UNCHANGED <<packfiles, index, manager, packing, snapshots, count>>

\* The acknowledgement is lost: the peer may have the file, and send_index
\* starts over.
SendIndexFails(k, q) ==
  /\ "io" \in Faults /\ count.errors < MaxErrors
  /\ pc[Walker] = "sending" /\ k \in Listed /\ k > highest
  /\ count' = [count EXCEPT !.errors = @ + 1]
  /\ \/ received' = [received EXCEPT ![q] = @ \cup {k}]
     \/ UNCHANGED received
  /\ visited' = {}
  /\ UNCHANGED <<disk, manager, packing, snapshots>>

\* What the snapshot should hold: the files that have not failed.
PackedFiles == {<<f, content[f]>> : f \in {g \in Files : pc[g] = "done"}}

\* run(): both sides are done, and the server is told (backup_done).
BackupDone ==
  /\ pc[Walker] = "sending" /\ visited = DOMAIN index
  /\ snapshots' = snapshots \cup
       {[root |-> children[Root][1], files |-> PackedFiles, lost |-> lost]}
  /\ pc' = [pc EXCEPT ![Walker] = "reported"]
  /\ UNCHANGED <<disk, manager, todo, children, ended, aborting, content, lost,
                 visited, received, count>>

\* The backup is over, its manager is dropped.
EndBackup ==
  /\ pc[Walker] \in {"failed", "reported"}
  /\ Reset
  /\ UNCHANGED <<disk, content, received, snapshots, count>>

\* The program is restarted.
Crash ==
  /\ ~Idle /\ count.crashes < MaxCrashes
  /\ count' = [count EXCEPT !.crashes = @ + 1]
  /\ Reset
  /\ UNCHANGED <<disk, content, received, snapshots>>

Init ==
  /\ packfiles = <<>> /\ index = <<>> /\ highest = 0
  /\ queue = <<>> /\ queued = {} /\ items = {} /\ buf = {} /\ lastNum = 0
  /\ writer = None /\ batch = <<>>
  /\ pc = [p \in Packers |-> "idle"]
  /\ todo = [p \in Packers |-> <<>>]
  /\ children = [d \in Dirs |-> <<>>]
  /\ ended = 0 /\ aborting = FALSE /\ lost = {} /\ visited = {}
  /\ content \in Contents
  /\ received = [q \in Peers |-> {}]
  /\ snapshots = {}
  /\ count = [backups |-> 0, crashes |-> 0, errors |-> 0]

PackerStep(p) ==
  \/ CheckDuplicate(p) \/ QueueBlob(p) \/ TriggerWrite(p)
  \/ TakeBlob(p) \/ WriteDone(p) \/ SavePackfile(p)
  \/ PushEntry(p) \/ PackfileDone(p) \/ SealIndexFile(p)

WalkerStep ==
  \/ SpawnTasks \/ JoinTasks \/ DirectoryDone \/ FlushIndex \/ Packed
  \/ BackupDone \/ EndBackup

SenderStep ==
  \E k \in DOMAIN index :
    SkipIndexFile(k) \/ \E q \in Peers : SendIndexFile(k, q)

Errors ==
  \/ \E p \in Packers : WriteFails(p)
  \/ \E f \in Files : ReadFails(f)
  \/ \E k \in DOMAIN index, q \in Peers : SendIndexFails(k, q)
  \/ FlushFails \/ StartFails

Next ==
  \/ Start \/ Crash \/ Errors \/ WalkerStep \/ SenderStep
  \/ \E p \in Packers : PackerStep(p)

Spec == Init /\ [][Next]_vars

-----------------------------------------------------------------------------
(* Reading it back.                                                        *)

Entries(nums) == UNION {index[k].entries : k \in nums}

\* The blobs for which these entries of the index name a packfile that has it.
Stored(entries) == {e[1] : e \in {e \in entries : e[1] \in packfiles[e[2]].blobs}}

\* The blobs get_blob can return, given these entries of the index.
Readable(entries) == Stored({e \in entries : packfiles[e[2]].whole})

\* The blobs that b names.
Below(b) == ToSet(b.children) \cup ToSet(b.next)

\* Below, blobs are the blobs that can be read.  fetch_tree returns these.
Trees(blobs) == {b \in blobs : b.kind # "chunk"}

\* fetch_full_tree: the children of a tree and all its siblings.
FullTree(blobs) ==
  LET full[b \in Trees(blobs)] ==
        b.children \o (IF b.next # <<>> /\ b.next[1] \in Trees(blobs)
                         THEN full[b.next[1]] ELSE <<>>)
  IN full

\* Whether unpack returns without an error: it comes across no tree that is missing.
Unpacks(blobs) ==
  LET ok[b \in Trees(blobs)] ==
        /\ b.next = <<>> \/ (b.next[1] \in Trees(blobs) /\ ok[b.next[1]])
        /\ b.kind = "dir" => \A c \in ToSet(b.children) : c \in Trees(blobs) /\ ok[c]
  IN ok

\* The files that unpack and restore_file leave: a chunk that is missing is an
\* error of its file only.
Restored(blobs) ==
  LET files[b \in Trees(blobs)] ==
        IF b.kind = "dir" THEN UNION {files[c] : c \in Below(b) \cap Trees(blobs)}
        ELSE LET full == FullTree(blobs)[b]
             IN IF ToSet(full) \subseteq blobs
                  THEN {<<b.name, [i \in DOMAIN full |-> full[i].name]>>} ELSE {}
  IN files

\* unpack: whether it returns without an error, and the files it leaves.
Unpack(root, blobs) ==
  IF root \in Trees(blobs) /\ Unpacks(blobs)[root]
    THEN [ok |-> TRUE, files |-> Restored(blobs)[root]]
    ELSE [ok |-> FALSE, files |-> {}]

-----------------------------------------------------------------------------
(* Properties.                                                             *)

AllSent == UNION {received[q] : q \in Peers}

\* Index files that are never sent because read_dir listed one with a higher number
\* before them, as it may: send_index takes them for sent.
Overtaken == {k \in DOMAIN index \ AllSent : \E j \in AllSent : k < j}

AllWhole ==
  /\ \A i \in DOMAIN packfiles : packfiles[i].whole
  /\ \A k \in DOMAIN index : index[k].whole

\* Whether a blob and everything below and beside it is among these.
Complete(blobs) ==
  LET complete[b \in blobs] == \A c \in Below(b) : c \in blobs /\ complete[c] IN complete

IsBlob(b) == DOMAIN b = {"kind", "name", "children", "next"}
IsEntry(e) == IsBlob(e[1]) /\ e[2] \in DOMAIN packfiles

\* Types, and that entries name packfiles that exist.
TypeOK ==
  /\ \A i \in DOMAIN packfiles : /\ \A b \in packfiles[i].blobs : IsBlob(b)
                                 /\ packfiles[i].whole \in BOOLEAN
  /\ \A k \in DOMAIN index : \A e \in index[k].entries : IsEntry(e)
  /\ \A e \in items \cup buf : IsEntry(e)
  /\ {highest, lastNum, ended} \subseteq Nat
  /\ Idle \/ Len(index) \in {lastNum, lastNum + 1}
  /\ writer \in Packers \cup {None}
  /\ Len(batch) <= MaxBlobs
  /\ \A f \in Files : pc[f] \in {"idle", "check", "queue", "trigger", "write", "save",
                                 "finalize", "seal", "done", "failed"}
  /\ \A q \in Peers : received[q] \subseteq DOMAIN index
  /\ content \in Contents /\ aborting \in BOOLEAN

\* Deduplication forgets nothing: a blob that is_blob_duplicate takes for known
\* is in an index file, or about to get an entry in one, unless the write that
\* had it in hand has failed (pack.rs: blobs_queued is filled before the
\* packfile is written).
KnownIsKept ==
  ~Idle => LET kept == {e[1] : e \in Entries(1..lastNum) \cup buf}
           IN queued \cup {e[1] : e \in items} \subseteq kept \cup ToSet(batch) \cup lost

\* The index names one packfile for a blob, in one entry: two tasks that queue
\* the same blob side by side, and a restart between packfile and index, do not
\* make it ambiguous (blob_index.rs, find_packfile, which takes any).
IndexUnambiguous ==
  LET all == Entries(1..lastNum) \cup buf
  IN \A e1, e2 \in all : e1[1] = e2[1] => e1 = e2

\* The index that the peers hold leads to every blob of a snapshot the server
\* knows, in a packfile that has it; but for blobs that were in the hands of a
\* write that failed, and for those in index files that were overtaken (mod.rs,
\* run; pack.rs, flush; send.rs:147, "skip the index files that have been already
\* sent").
SnapshotStored ==
  \A s \in snapshots :
    LET found == Stored(Entries(AllSent \cup Overtaken)) \cup s.lost
    IN s.root \in found /\ Complete(found)[s.root]

\* A snapshot that lost nothing in either way, read back from what the peers hold, is what
\* was packed: every file, with its chunks in order, and nothing else
\* (dir_packer.rs, split_serialize_tree; dir_unpacker.rs, fetch_full_tree).
RestoreExact ==
  AllWhole /\ Overtaken = {} =>
    \A s \in snapshots : s.lost = {} =>
      Unpack(s.root, Readable(Entries(AllSent))) = [ok |-> TRUE, files |-> s.files]

\* An index file that is complete stays as it is: neither a later backup nor
\* one after a restart reuses its number (blob_index.rs, flush).
CompleteIndexKept ==
  [][\A k \in DOMAIN index : index[k].whole => k \in DOMAIN index' /\ index'[k] = index[k]]_vars
=============================================================================
