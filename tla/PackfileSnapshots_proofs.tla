----------------------- MODULE PackfileSnapshots_proofs -----------------------
(***************************************************************************)
(* Proof about PackfileStore that the index files peers hold lead from a   *)
(* snapshot the server knows to every blob of it, and that what is read    *)
(* back through them is what was packed, for any directories, files,       *)
(* contents, limits, faults, restarts and errors.                          *)
(*                                                                         *)
(* The walker only learns the hashes of the directories in one that is     *)
(* done: what is below them is in the packfile manager, and the invariant  *)
(* has to say so without following the trees.  Core does: it is the        *)
(* largest set of blobs the manager or the walker has of which each blob   *)
(* has what it names in the set too.  It only grows while a backup goes on *)
(* (CoreInv), unless the walker gives up.  HeldInv says that a task that   *)
(* is done has left nothing out, StageInv what the walker has left behind  *)
(* at each stage.  SentInv relates the numbers of the index files to those *)
(* that are at peers.                                                      *)
(*                                                                         *)
(* SoundInv says that every blob there is, wherever it is, can be read to  *)
(* the end if all it names is there.  TotalInv says that the trees in the  *)
(* hands of the walker are those of the files that are done: what the      *)
(* directories still to be joined have gathered is what the joined ones    *)
(* had, and after the root the tree has all.  SnapshotInv says both of a   *)
(* snapshot: a closed set of blobs that are named in the index leads from  *)
(* its root to its files.                                                  *)
(***************************************************************************)
EXTENDS PackfileTrees_proofs

-----------------------------------------------------------------------------
(* The invariant.                                                          *)

\* What the manager has: blobs that are known, and blobs that wait.
Held == Known \cup ToSet(queue)

\* What it has been given or will be.
Given == Held \cup ToSet(todo[Walker])

Core == UNION {C \in SUBSET Given : Closed(C)}

Late == {"index", "sealLast", "flushed", "sending"}

\* The walker is through with the root, but for its blobs.
RootJoined ==
  \/ pc[Walker] \in Late
  \/ pc[Walker] \in Busy /\ todo[Walker] = <<>>
  \/ pc[Walker] \in Busy \cup {"dirdone"} /\ Current = Root

StageInv ==
  /\ Resting => /\ ~aborting /\ visited = {} /\ todo[Walker] = <<>>
                /\ \A d \in Dirs : children[d] = <<>>
  /\ pc[Walker] \in {"dir", "join"} \cup Late => todo[Walker] = <<>>
  /\ pc[Walker] \in Late => queue = <<>>
  /\ pc[Walker] \in {"flushed", "sending"} => buf = {} /\ Len(index) = lastNum
  /\ pc[Walker] = "sending" => ~aborting

HeldInv ==
  /\ \A p \in Packers : pc[p] \in {"trigger", "write"} \cup Locking /\ todo[p] # <<>> =>
       Head(todo[p]) \in Held
  /\ \A f \in Files :
       /\ pc[f] = "done" => ToSet(FileBlobs(f)) \subseteq Held
       /\ pc[f] \in Busy => ToSet(FileBlobs(f)) \subseteq Held \cup ToSet(todo[f])

CoreInv ==
  aborting \/ /\ \A d \in Dirs : ToSet(children[d]) \subseteq Core
              /\ RootJoined => children[Root] # <<>>

SentInv ==
  /\ highest # 0 => highest \in AllSent
  /\ visited \subseteq 1..highest
  /\ ~Resting => AllSent \subseteq 1..lastNum

\* The blobs that are somewhere: with the walker and its tasks, lost to a snapshot, or
\* on the way to the index or in it.
ToAdd == UNION {ToSet(todo[p]) : p \in Packers}
LostTo == UNION {s.lost : s \in snapshots}
Named == Names(Entries(DOMAIN index) \cup buf)
Blobs == Named \cup ToSet(queue) \cup ToSet(batch) \cup lost \cup ToAdd \cup LostTo

SoundInv ==
  /\ \A b \in Blobs : Sound(b)
  /\ \A d \in Dirs : \A c \in ToSet(children[d]) : Sound(c) /\ c.kind = "dir"

\* The walker goes on.
Active == pc[Walker] \in {"dir", "join", "dirdone"} \cup Busy \cup Late

\* The walker is through with all directories.
Through == pc[Walker] \in Late \/ (pc[Walker] \in Busy /\ todo[Walker] = <<>>)

\* How many directories are joined: the walker may still have to add the last one's tree.
Joins ==
  IF pc[Walker] = "dirdone" \/ (pc[Walker] \in Busy /\ todo[Walker] # <<>>) THEN ended + 1 ELSE ended

FilesIn(i) == ToSet(FilesOf[ProcessingQueue[i]])

\* The files of the directories that are joined, without those that failed ...
DoneFiles ==
  {<<f, content[f]>> : f \in {g \in Files : pc[g] = "done" /\ \E i \in 1..Joins : g \in FilesIn(i)}}

\* ... and the files of the trees in directories that are not.
Gathered ==
  UNION {FilesUnder(c) : c \in UNION {ToSet(children[ProcessingQueue[i]]) :
                                       i \in (Joins + 1)..Len(ProcessingQueue)}}

TotalInv ==
  Active /\ ~aborting =>
    /\ Joins <= Len(ProcessingQueue)
    /\ Through => ended = Len(ProcessingQueue)
    /\ \A i \in 1..Joins : \A f \in FilesIn(i) : pc[f] \in {"done", "failed"}
    /\ \A f \in Files : pc[f] # "idle" => \E i \in 1..Len(ProcessingQueue) : f \in FilesIn(i)
    /\ Joins < Len(ProcessingQueue) => Gathered = DoneFiles
    /\ Joins = Len(ProcessingQueue) =>
         children[Root] # <<>> /\ FilesUnder(children[Root][1]) = DoneFiles

\* All of a snapshot is among these blobs, and it is what was packed.
Covers(found, s) ==
  \E C : /\ C \subseteq found /\ Closed(C) /\ s.root \in Trees(C)
         /\ FilesUnder(s.root) = s.files

SnapshotInv ==
  \A s \in snapshots : Covers(Names(Entries(AllSent \cup Overtaken)) \cup s.lost, s)

PackInv == StageInv /\ HeldInv /\ CoreInv

SnapInv == Inv /\ PackInv /\ SoundInv /\ TotalInv /\ SentInv /\ SnapshotInv

-----------------------------------------------------------------------------
(* What has been sent.                                                     *)

Counted == AllSent \cup Overtaken

LEMMA CountedAreThere == ASSUME Inv PROVE Counted \subseteq DOMAIN index
BY DEF Inv, DiskInv, Counted, AllSent, Overtaken

\* While a backup goes on, they have got their numbers.
LEMMA CountedAreNumbered ==
  ASSUME Inv, SentInv, ~Resting PROVE Counted \subseteq 1..lastNum
<1>1. AllSent \subseteq 1..lastNum /\ lastNum \in Nat
  BY DEF SentInv, Inv, ManagerInv
<1>2. DOMAIN index = 1..Len(index) /\ Len(index) \in Nat
  BY DEF Inv, DiskInv, IsSeq
<1>3. ASSUME NEW k \in Overtaken PROVE k \in 1..lastNum
  <2>1. k \in 1..Len(index)
    BY <1>2, <1>3 DEF Overtaken
  <2>2. PICK j \in AllSent : k < j
    BY <1>3 DEF Overtaken
  <2> QED BY <1>1, <1>2, <2>1, <2>2
<1> QED BY <1>1, <1>3 DEF Counted

LEMMA CoversMore == ASSUME NEW A, NEW B, A \subseteq B, NEW s, Covers(A, s) PROVE Covers(B, s)
BY DEF Covers

LEMMA CoversStays ==
  ASSUME SnapshotInv, snapshots' = snapshots,
         Names(Entries(Counted)) \subseteq Names(Entries(Counted))'
  PROVE  SnapshotInv'
<1> SUFFICES ASSUME NEW s \in snapshots PROVE Covers(Names(Entries(Counted))' \cup s.lost, s)
  BY DEF SnapshotInv, Counted
<1>1. Covers(Names(Entries(Counted)) \cup s.lost, s)
  BY DEF SnapshotInv, Counted
<1> QED BY <1>1, CoversMore

\* A step at which nothing is sent, and what has been sent or overtaken stays.
LEMMA SentKeeps ==
  ASSUME SentInv, SnapshotInv, UNCHANGED <<highest, received, snapshots>>, visited' \subseteq visited,
         \A k \in Counted : k \in DOMAIN index' /\ index'[k].entries = index[k].entries,
         ~Resting' => AllSent \subseteq 1..lastNum'
  PROVE  SentInv' /\ SnapshotInv'
<1>1. AllSent' = AllSent
  BY DEF AllSent
<1>2. Counted \subseteq Counted'
  BY <1>1 DEF Counted, Overtaken
<1>3. Names(Entries(Counted)) \subseteq Names(Entries(Counted))'
  BY <1>2 DEF Entries, Names
<1>4. SnapshotInv'
  BY <1>3, CoversStays
<1>5. SentInv'
  BY <1>1 DEF SentInv
<1> QED BY <1>4, <1>5

LEMMA SentSame ==
  ASSUME Inv, SentInv, SnapshotInv, UNCHANGED <<index, highest, received, snapshots, lastNum>>,
         visited' \subseteq visited, Resting => Resting'
  PROVE  SentInv' /\ SnapshotInv'
<1>1. \A k \in Counted : k \in DOMAIN index' /\ index'[k].entries = index[k].entries
  BY CountedAreThere
<1>2. ~Resting' => AllSent \subseteq 1..lastNum'
  BY DEF SentInv
<1> QED BY <1>1, <1>2, SentKeeps

LEMMA SentAtCreate ==
  ASSUME Inv, SentInv, SnapshotInv, ~Resting, NEW E, CreateIndexFile(E),
         UNCHANGED <<highest, received, snapshots, lastNum, visited>>
  PROVE  SentInv' /\ SnapshotInv'
<1> DEFINE new == [entries |-> E, whole |-> FALSE]
<1>1. lastNum \in Nat /\ lastNum <= Len(index) /\ IsSeq(index)
  BY AllKept DEF Inv, DiskInv
<1>2. index' = SubSeq(index, 1, lastNum) \o <<new>>
  BY DEF CreateIndexFile
<1> HIDE DEF new
<1>3. IsCut(index, lastNum, new, index')
  BY <1>1, <1>2, CutSeq
<1>4. \A k \in Counted : k \in DOMAIN index' /\ index'[k].entries = index[k].entries
  <2>1. \A k \in 1..lastNum : k \in 1..(lastNum + 1)
    BY <1>1
  <2> QED BY <1>3, <2>1, CountedAreNumbered DEF IsCut
<1>5. ~Resting' => AllSent \subseteq 1..lastNum'
  BY DEF SentInv
<1> QED BY <1>4, <1>5, SentKeeps

LEMMA SentAtSeal ==
  ASSUME Inv, SentInv, SnapshotInv, NEW p \in Packers, SealIndexFile(p)
  PROVE  SentInv' /\ SnapshotInv'
<1>1. PICK whole \in BOOLEAN : index' = [index EXCEPT ![Len(index)].whole = whole]
  BY DEF SealIndexFile, Landed
<1>2. ~Resting
  BY DEF Inv, TasksInv, SealIndexFile
<1>3. \A k \in DOMAIN index : k \in DOMAIN index' /\ index'[k].entries = index[k].entries
  BY <1>1 DEF Inv, DiskInv
<1>4. \A k \in Counted : k \in DOMAIN index' /\ index'[k].entries = index[k].entries
  BY <1>3, CountedAreThere
<1>5. AllSent \subseteq 1..lastNum /\ lastNum \in Nat /\ lastNum' = lastNum + 1
  BY <1>2 DEF SentInv, Inv, ManagerInv, SealIndexFile
<1>6. AllSent \subseteq 1..lastNum'
  BY <1>5
<1> QED BY <1>4, <1>6, SentKeeps DEF SealIndexFile, elsewhere

\* A peer may have got a file, whose number is the highest then, or it begins
\* again.
LEMMA SentAtSend ==
  ASSUME Inv, SentInv, SnapshotInv, pc[Walker] = "sending", StageInv,
         NEW k \in DOMAIN index, NEW q \in Peers,
         received' = [received EXCEPT ![q] = @ \cup {k}] \/ UNCHANGED received,
         \/ /\ highest' = k /\ highest < k /\ visited' = visited \cup {k}
            /\ received' = [received EXCEPT ![q] = @ \cup {k}]
         \/ highest' = highest /\ visited' = {},
         UNCHANGED <<index, manager, packing, snapshots>>
  PROVE  SentInv' /\ SnapshotInv'
<1>1. /\ DOMAIN index = 1..Len(index) /\ Len(index) \in Nat /\ Len(index) = lastNum
      /\ ~Resting /\ lastNum' = lastNum /\ Resting' = Resting /\ highest \in Nat
  BY DEF Inv, DiskInv, IsSeq, StageInv, Resting, manager, packing, ManagerInv
<1>2. AllSent' \in {AllSent, AllSent \cup {k}}
      /\ (received' = [received EXCEPT ![q] = @ \cup {k}] => k \in AllSent')
  <2>1. received \in [Peers -> SUBSET DOMAIN index]
    BY DEF Inv, DiskInv
  <2> QED BY <2>1 DEF AllSent
<1>3. AllSent \subseteq AllSent' /\ AllSent' \subseteq DOMAIN index
  BY <1>2, CountedAreThere DEF Counted
<1>4. SentInv'
  <2>1. highest' # 0 => highest' \in AllSent'
    BY <1>2, <1>3 DEF SentInv
  <2>2. visited' \subseteq 1..highest'
    <3>1. CASE highest' = k /\ highest < k /\ visited' = visited \cup {k}
      <4>1. \A j \in visited : j \in 1..k
        BY <1>1, <3>1 DEF SentInv
      <4> QED BY <1>1, <3>1, <4>1
    <3> QED BY <3>1
  <2>3. ~Resting' => AllSent' \subseteq 1..lastNum'
    BY <1>1, <1>3
  <2> QED BY <2>1, <2>2, <2>3 DEF SentInv
<1>5. Counted \subseteq Counted'
  BY <1>3 DEF Counted, Overtaken
<1>6. Names(Entries(Counted)) \subseteq Names(Entries(Counted))'
  BY <1>5 DEF Entries, Names
<1>7. SnapshotInv'
  BY <1>6, CoversStays
<1> QED BY <1>4, <1>7

\* What is counted as sent already is passed over.
LEMMA SentAtSkip ==
  ASSUME Inv, SentInv, SnapshotInv, NEW k \in DOMAIN index, SkipIndexFile(k)
  PROVE  SentInv' /\ SnapshotInv'
<1>1. /\ k \in 1..highest /\ highest' = highest /\ visited' = visited \cup {k}
      /\ UNCHANGED <<index, highest, received, snapshots, lastNum, pc>>
  <2>1. k \in Nat \ {0} /\ highest \in Nat
    BY DEF Inv, DiskInv, IsSeq, ManagerInv
  <2> QED BY <2>1 DEF SkipIndexFile, disk, manager, packing
<1>2. AllSent' = AllSent /\ Overtaken' = Overtaken /\ Resting' = Resting
  BY <1>1 DEF AllSent, Overtaken, Resting
<1>3. SentInv'
  BY <1>1, <1>2 DEF SentInv
<1>4. SnapshotInv'
  BY <1>1, <1>2, CoversStays DEF Counted, Entries, Names
<1> QED BY <1>3, <1>4

-----------------------------------------------------------------------------
(* What the manager has.                                                   *)

LEMMA CoreGrows == ASSUME Given \subseteq Given' PROVE Core \subseteq Core'
BY DEF Core, Closed

LEMMA CoreIsClosed == Core \subseteq Given /\ Closed(Core)
BY DEF Core, Closed

LEMMA FileBlobsSame == content' = content => \A f : FileBlobs(f)' = FileBlobs(f)
BY DEF FileBlobs

\* What is known, or waits, stays so.
LEMMA HeldSame == UNCHANGED <<queue, queued, items>> => Held' = Held
BY DEF Held, Known, Names

LEMMA HeldAtQueue ==
  ASSUME Inv, NEW p \in Packers, QueueBlob(p)
  PROVE  Held \subseteq Held' /\ Head(todo[p]) \in Held'
<1>1. IsSeq(queue)
  BY DEF Inv, ManagerInv, IsBlobSeq
<1>2. ToSet(queue') = ToSet(queue) \cup {Head(todo[p])}
  BY <1>1, AppendSeq DEF QueueBlob
<1>3. Known' = Known
  BY DEF QueueBlob, Known, Names
<1> QED BY <1>2, <1>3 DEF Held

LEMMA HeldAtTake ==
  ASSUME Inv, NEW p \in Packers, TakeBlob(p)
  PROVE  Held \subseteq Held'
<1>1. IsSeq(queue) /\ queue # <<>> /\ queue' = Tail(queue)
  BY DEF Inv, ManagerInv, IsBlobSeq, TakeBlob
<1>2. ToSet(queue) = {Head(queue)} \cup ToSet(queue')
  BY <1>1, TailSeq
<1>3. queued \subseteq queued' /\ items' = items /\ (StillUnique(Head(queue)) => Head(queue) \in queued')
  BY DEF TakeBlob
<1>4. Known \subseteq Known' /\ Head(queue) \in Known'
  BY <1>3, DuplicateIsKnown DEF Known, Names, StillUnique
<1> QED BY <1>2, <1>4 DEF Held

\* A task or the walker goes on in the manager, with the blob it is at, on to the
\* next one, or with the index after the last one.
LEMMA PackerMoves ==
  ASSUME Inv, PackInv, NEW p \in Packers, pc[p] \in Busy,
         UNCHANGED <<children, ended, aborting, content>>, Held \subseteq Held',
         \A q \in Packers \ {p} : pc'[q] = pc[q] /\ todo'[q] = todo[q],
         \/ /\ todo'[p] = todo[p] /\ pc'[p] \in Busy
            /\ pc'[p] \in {"trigger", "write"} \cup Locking /\ todo[p] # <<>> =>
                 Head(todo[p]) \in Held'
         \/ /\ todo[p] # <<>> /\ Head(todo[p]) \in Held /\ todo'[p] = Tail(todo[p])
            /\ \/ pc'[p] = "check" /\ todo'[p] # <<>>
               \/ pc'[p] = "dirdone" /\ todo'[p] = <<>> /\ p = Walker
               \/ pc'[p] = "done" /\ todo'[p] = <<>> /\ p # Walker
         \/ p = Walker /\ pc'[p] = "index" /\ todo[p] = <<>> /\ todo'[p] = <<>> /\ queue' = <<>>
  PROVE  PackInv'
<1>1. p # Walker => p \in Files /\ pc[Walker] = "join"
  BY Constants DEF Inv, TasksInv
<1>2. Walker \in Packers /\ Current' = Current
  BY Constants DEF Current, ProcessingQueue
<1>3. StageInv'
  BY <1>1, <1>2 DEF PackInv, StageInv, Late, Resting, Busy
<1>4. ToSet(todo[p]) \subseteq Held' \cup ToSet(todo'[p])
  <2>1. IsSeq(todo[p])
    BY DEF Inv, PackingInv, IsBlobSeq
  <2>2. CASE todo'[p] = todo[p]
    BY <2>2
  <2>3. CASE todo[p] # <<>> /\ Head(todo[p]) \in Held /\ todo'[p] = Tail(todo[p])
    BY <2>1, <2>3, TailSeq
  <2> QED BY <2>2, <2>3
<1>5. ASSUME NEW q \in Packers, pc'[q] \in {"trigger", "write"} \cup Locking, todo'[q] # <<>>
      PROVE  Head(todo'[q]) \in Held'
  <2>1. CASE q = p
    BY <1>5, <2>1 DEF Locking
  <2>2. CASE q # p
    BY <1>5, <2>2 DEF PackInv, HeldInv
  <2> QED BY <2>1, <2>2
<1>6. ASSUME NEW f \in Files
      PROVE  /\ pc'[f] = "done" => ToSet(FileBlobs(f)) \subseteq Held'
             /\ pc'[f] \in Busy => ToSet(FileBlobs(f)) \subseteq Held' \cup ToSet(todo'[f])
  <2>1. f \in Packers /\ f # Walker
    BY Constants
  <2>2. CASE f = p
    <3>1. ToSet(FileBlobs(f)) \subseteq Held' \cup ToSet(todo'[f])
      BY <1>4, <2>2 DEF PackInv, HeldInv
    <3>2. pc'[f] = "done" => ToSet(todo'[f]) = {}
      BY <2>1, <2>2, ToSetSmall DEF Busy
    <3> QED BY <3>1, <3>2
  <2>3. CASE f # p
    BY <2>1, <2>3 DEF PackInv, HeldInv
  <2> QED BY <2>2, <2>3
<1>7. HeldInv'
  BY <1>5, <1>6, FileBlobsSame DEF HeldInv
<1>8. Core \subseteq Core'
  <2>1. ToSet(todo[Walker]) \subseteq Held' \cup ToSet(todo'[Walker])
    BY <1>2, <1>4
  <2> QED BY <2>1, CoreGrows DEF Given
<1>9. RootJoined' => RootJoined
  BY <1>1, <1>2 DEF RootJoined, Late, Busy
<1>10. CoreInv'
  BY <1>8, <1>9 DEF PackInv, CoreInv
<1> QED BY <1>3, <1>7, <1>10 DEF PackInv

LEMMA ContinueMoves ==
  ASSUME Inv, PackInv, NEW p \in Packers, pc[p] \in Busy, todo[p] # <<>>, Head(todo[p]) \in Held,
         Continue(p, Tail(todo[p])), UNCHANGED <<children, ended, aborting, content>>,
         Held \subseteq Held'
  PROVE  PackInv'
<1>1. DOMAIN pc = Packers /\ DOMAIN todo = Packers
  BY DEF Inv, PackingInv
<1>2. /\ \A q \in Packers \ {p} : pc'[q] = pc[q] /\ todo'[q] = todo[q]
      /\ todo'[p] = Tail(todo[p])
  BY <1>1 DEF Continue
<1>3. \/ pc'[p] = "check" /\ todo'[p] # <<>>
      \/ pc'[p] = "dirdone" /\ todo'[p] = <<>> /\ p = Walker
      \/ pc'[p] = "done" /\ todo'[p] = <<>> /\ p # Walker
  BY <1>1 DEF Continue
<1> QED BY <1>2, <1>3, PackerMoves

LEMMA CheckDuplicatePacks == ASSUME Inv, PackInv, NEW p \in Packers, CheckDuplicate(p) PROVE PackInv'
<1>1. /\ pc[p] = "check" /\ todo[p] # <<>> /\ DOMAIN pc = Packers
      /\ UNCHANGED <<children, ended, aborting, content>>
      /\ Held' = Held
  BY TodoLeft, HeldSame DEF CheckDuplicate, manager, Inv, PackingInv
<1>2. CASE IsBlobDuplicate(Head(todo[p]))
  <2>1. Head(todo[p]) \in Held
    BY <1>2, DuplicateIsKnown DEF Held
  <2>2. Continue(p, Tail(todo[p]))
    BY <1>2 DEF CheckDuplicate
  <2> QED BY <1>1, <2>1, <2>2, ContinueMoves DEF Busy
<1>3. CASE ~IsBlobDuplicate(Head(todo[p]))
  <2>1. pc' = [pc EXCEPT ![p] = "queue"] /\ todo' = todo
    BY <1>3 DEF CheckDuplicate
  <2> QED BY <1>1, <2>1, PackerMoves DEF Busy, Locking
<1> QED BY <1>2, <1>3

LEMMA QueueBlobPacks == ASSUME Inv, PackInv, NEW p \in Packers, QueueBlob(p) PROVE PackInv'
<1>1. /\ pc[p] = "queue" /\ pc' = [pc EXCEPT ![p] = "trigger"] /\ DOMAIN pc = Packers
      /\ UNCHANGED <<todo, children, ended, aborting, content>>
  BY DEF QueueBlob, Inv, PackingInv
<1> QED BY <1>1, HeldAtQueue, PackerMoves DEF Busy

\* The blob it is at is there.
LEMMA HeadIsHeld ==
  ASSUME PackInv, NEW p \in Packers, pc[p] \in {"trigger", "write"} \cup Locking, todo[p] # <<>>
  PROVE  Head(todo[p]) \in Held
BY DEF PackInv, HeldInv

LEMMA TriggerWritePacks == ASSUME Inv, PackInv, NEW p \in Packers, TriggerWrite(p) PROVE PackInv'
<1>1. /\ pc[p] = "trigger" /\ todo[p] # <<>> /\ DOMAIN pc = Packers
      /\ UNCHANGED <<children, ended, aborting, content>>
      /\ Held' = Held
  BY TodoLeft, HeldSame DEF TriggerWrite, manager, Inv, PackingInv
<1>2. Head(todo[p]) \in Held
  BY <1>1, HeadIsHeld
<1>3. CASE Continue(p, Tail(todo[p]))
  BY <1>1, <1>2, <1>3, ContinueMoves DEF Busy
<1>4. CASE pc' = [pc EXCEPT ![p] = "write"] /\ todo' = todo
  BY <1>1, <1>2, <1>4, PackerMoves DEF Busy
<1> QED BY <1>3, <1>4 DEF TriggerWrite

\* A step inside write_packfiles.
LEMMA InWriteMoves ==
  ASSUME Inv, PackInv, NEW p \in Packers, pc[p] \in {"write"} \cup Locking,
         pc'[p] \in {"write"} \cup Locking, \A q \in Packers \ {p} : pc'[q] = pc[q],
         UNCHANGED <<todo, children, ended, aborting, content>>, Held \subseteq Held'
  PROVE  PackInv'
<1>1. todo[p] # <<>> => Head(todo[p]) \in Held'
  BY HeadIsHeld
<1>2. pc'[p] \in Busy /\ pc[p] \in Busy
  BY DEF Busy, Locking
<1> QED BY <1>1, <1>2, PackerMoves

LEMMA InWritePacks ==
  ASSUME Inv, PackInv, NEW p \in Packers,
         \/ TakeBlob(p) \/ SavePackfile(p) \/ PushEntry(p) \/ PackfileDone(p)
         \/ (SealIndexFile(p) /\ pc[p] = "seal")
  PROVE  PackInv'
<1> USE DEF Locking
<1>1. DOMAIN pc = Packers
  BY DEF Inv, PackingInv
<1>2. CASE TakeBlob(p)
  <2>1. /\ pc[p] = "write" /\ pc'[p] \in {"save", "write"} /\ \A q \in Packers \ {p} : pc'[q] = pc[q]
        /\ UNCHANGED <<todo, children, ended, aborting, content>>
    BY <1>1, <1>2 DEF TakeBlob
  <2> QED BY <1>2, <2>1, HeldAtTake, InWriteMoves
<1>3. CASE SavePackfile(p)
  BY <1>1, <1>3, HeldSame, InWriteMoves DEF SavePackfile, manager
<1>4. CASE PushEntry(p)
  <2>1. /\ pc[p] = "finalize" /\ pc'[p] \in {"finalize", "seal"}
        /\ \A q \in Packers \ {p} : pc'[q] = pc[q]
        /\ UNCHANGED <<todo, children, ended, aborting, content, queue, queued, items>>
    BY <1>1, <1>4 DEF PushEntry
  <2> QED BY <2>1, HeldSame, InWriteMoves
<1>5. CASE PackfileDone(p)
  BY <1>1, <1>5, HeldSame, InWriteMoves DEF PackfileDone, manager
<1>6. CASE SealIndexFile(p) /\ pc[p] = "seal"
  BY <1>1, <1>6, HeldSame, InWriteMoves DEF SealIndexFile
<1> QED BY <1>2, <1>3, <1>4, <1>5, <1>6

LEMMA WriteDonePacks == ASSUME Inv, PackInv, NEW p \in Packers, WriteDone(p) PROVE PackInv'
<1>1. /\ pc[p] = "write" /\ DOMAIN pc = Packers /\ queue' = <<>>
      /\ UNCHANGED <<children, ended, aborting, content>>
      /\ Held' = Held
  BY HeldSame DEF WriteDone, Inv, PackingInv
<1>2. CASE todo[p] # <<>>
  <2>1. Head(todo[p]) \in Held
    BY <1>1, <1>2, HeadIsHeld
  <2> QED BY <1>1, <1>2, <2>1, ContinueMoves DEF Busy, WriteDone, Written
<1>3. CASE todo[p] = <<>>
  <2>1. pc' = [pc EXCEPT ![p] = "index"] /\ todo' = todo
    BY <1>3 DEF WriteDone, Written
  <2>2. p = Walker
    BY <1>1, <1>3, Constants DEF Inv, TasksInv, Busy
  <2> QED BY <1>1, <1>3, <2>1, <2>2, PackerMoves DEF Busy
<1> QED BY <1>2, <1>3

-----------------------------------------------------------------------------
(* The walker goes on.                                                     *)

\* A step of the walker from one stage to another.
LEMMA WalkerGoesOn ==
  ASSUME Inv, PackInv, NEW x \in {"dir", "write", "failed", "reported"} \cup Late,
         pc' = [pc EXCEPT ![Walker] = x], x # "failed" => todo[Walker] = <<>>,
         UNCHANGED <<todo, children, aborting, content, queue, queued, items>>,
         x \in Late => queue = <<>>,
         x \in {"flushed", "sending"} => buf' = {} /\ Len(index') = lastNum',
         x = "sending" => ~aborting,
         x = "write" \/ x \in Late => RootJoined
  PROVE  PackInv'
<1>1. /\ DOMAIN pc = Packers /\ Walker \in Packers /\ pc'[Walker] = x
      /\ \A q \in Packers \ {Walker} : pc'[q] = pc[q]
  BY Constants DEF Inv, PackingInv
<1>2. Held' = Held
  BY HeldSame
<1>3. StageInv'
  BY <1>1 DEF PackInv, StageInv, Late, Resting
<1>4. HeldInv'
  <2>1. ASSUME NEW q \in Packers, pc'[q] \in {"trigger", "write"} \cup Locking, todo[q] # <<>>
        PROVE  Head(todo[q]) \in Held
    BY <1>1, <2>1 DEF PackInv, HeldInv, Locking, Late
  <2>2. \A f \in Files : pc'[f] = pc[f]
    BY <1>1, Constants
  <2> QED BY <1>2, <2>1, <2>2, FileBlobsSame DEF PackInv, HeldInv
<1>5. Core \subseteq Core'
  BY <1>2, CoreGrows DEF Given
<1>6. RootJoined' => RootJoined
  BY <1>1 DEF RootJoined, Late, Busy
<1> QED BY <1>3, <1>4, <1>5, <1>6 DEF PackInv, CoreInv

LEMMA DirectoryDonePacks == ASSUME Inv, PackInv, DirectoryDone PROVE PackInv'
<1>1. /\ pc[Walker] = "dirdone" /\ todo[Walker] = <<>>
      /\ UNCHANGED <<todo, children, aborting, content, queue, queued, items>>
  BY DEF DirectoryDone, Inv, TasksInv, manager
<1>2. CASE Current = Root
  <2>1. RootJoined
    BY <1>1, <1>2 DEF RootJoined
  <2> QED BY <1>1, <1>2, <2>1, WalkerGoesOn DEF DirectoryDone, Late
<1>3. CASE Current # Root
  BY <1>1, <1>3, WalkerGoesOn DEF DirectoryDone, Late
<1> QED BY <1>2, <1>3

LEMMA FlushIndexPacks == ASSUME Inv, PackInv, FlushIndex PROVE PackInv'
<1>1. /\ pc[Walker] = "index" /\ pc' = [pc EXCEPT ![Walker] = "sealLast"]
      /\ UNCHANGED <<todo, children, aborting, content, queue, queued, items>>
  BY DEF FlushIndex, manager
<1>2. todo[Walker] = <<>> /\ queue = <<>> /\ RootJoined
  BY <1>1 DEF PackInv, StageInv, RootJoined, Late
<1> QED BY <1>1, <1>2, WalkerGoesOn DEF Late

LEMMA SealLastPacks ==
  ASSUME Inv, PackInv, NEW p \in Packers, SealIndexFile(p), pc[p] = "sealLast" PROVE PackInv'
<1>1. p = Walker
  BY Constants DEF Inv, TasksInv, FileStates, Busy
<1>2. /\ pc' = [pc EXCEPT ![Walker] = "flushed"] /\ pc[Walker] = "sealLast"
      /\ UNCHANGED <<todo, children, aborting, content, queue, queued, items>>
      /\ buf' = {} /\ lastNum' = lastNum + 1
  BY <1>1 DEF SealIndexFile, Inv, PackingInv
<1>3. todo[Walker] = <<>> /\ queue = <<>> /\ RootJoined
  BY <1>2 DEF PackInv, StageInv, RootJoined, Late
<1>4. Len(index') = lastNum'
  <2>1. PICK whole \in BOOLEAN : index' = [index EXCEPT ![Len(index)].whole = whole]
    BY DEF SealIndexFile, Landed
  <2>2. Len(index) = lastNum + 1 /\ index \in Seq(ToSet(index))
    BY <1>1, <1>2, Constants DEF Inv, IndexInv, DiskInv, IsSeq
  <2>3. DOMAIN index' = DOMAIN index
    BY <2>1
  <2>4. Len(index') = Len(index)
    <3>1. Len(index) \in Nat /\ DOMAIN index = 1..Len(index)
      BY <2>2
    <3>2. index' \in Seq({index'[i] : i \in 1..Len(index)})
      <4>1. index' = [i \in 1..Len(index) |-> index'[i]]
        BY <2>1, <3>1
      <4> DEFINE V == {index'[i] : i \in 1..Len(index)}
      <4>2. \A i \in 1..Len(index) : index'[i] \in V
        OBVIOUS
      <4> HIDE DEF V
      <4>3. index' \in Seq(V)
        BY <3>1, <4>1, <4>2
      <4> QED BY <4>3 DEF V
    <3>3. Len(index') \in Nat /\ DOMAIN index' = 1..Len(index')
      BY <3>2
    <3>4. \A m, n \in Nat : 1..m = 1..n => m = n
      <4>1. SUFFICES ASSUME NEW m \in Nat, NEW n \in Nat, 1..m = 1..n, m < n PROVE FALSE
        OBVIOUS
      <4>2. n \in 1..n /\ n \notin 1..m
        BY <4>1
      <4> QED BY <4>1, <4>2
    <3> QED BY <2>3, <3>1, <3>3, <3>4
  <2> QED BY <1>2, <2>2, <2>4
<1> QED BY <1>2, <1>3, <1>4, WalkerGoesOn DEF Late

LEMMA PackedPacks == ASSUME Inv, PackInv, Packed PROVE PackInv'
<1>1. /\ pc[Walker] = "flushed"
      /\ UNCHANGED <<todo, children, aborting, content, queue, queued, items, index, buf, lastNum>>
  BY DEF Packed, manager, disk
<1>2. todo[Walker] = <<>> /\ queue = <<>> /\ RootJoined /\ buf = {} /\ Len(index) = lastNum
  BY <1>1 DEF PackInv, StageInv, RootJoined, Late
<1>3. CASE aborting
  BY <1>1, <1>2, <1>3, WalkerGoesOn DEF Late, Packed
<1>4. CASE ~aborting
  BY <1>1, <1>2, <1>4, WalkerGoesOn DEF Late, Packed
<1> QED BY <1>3, <1>4

LEMMA WalkerEndsPacks == ASSUME Inv, PackInv, FlushFails \/ BackupDone PROVE PackInv'
<1>1. CASE FlushFails
  BY <1>1, WalkerGoesOn DEF Late, FlushFails, manager
<1>2. CASE BackupDone
  <2>1. pc[Walker] = "sending" /\ todo[Walker] = <<>>
    BY <1>2 DEF PackInv, StageInv, Late, BackupDone
  <2> QED BY <1>2, <2>1, WalkerGoesOn DEF Late, BackupDone, manager
<1> QED BY <1>1, <1>2

\* The tasks have everything of their files before them.
LEMMA SpawnTasksPacks == ASSUME Inv, PackInv, SpawnTasks PROVE PackInv'
<1> DEFINE files == ToSet(FilesOf[Current])
<1>1. /\ pc[Walker] = "dir"
      /\ pc' = [p \in Packers |-> IF p = Walker THEN "join"
                                  ELSE IF p \in files THEN "check" ELSE pc[p]]
      /\ todo' = [p \in Packers |-> IF p \in files THEN FileBlobs(p) ELSE todo[p]]
      /\ UNCHANGED <<children, aborting, content, ended, queue, queued, items>>
  BY DEF SpawnTasks, manager
<1>2. Current \in Dirs
  BY <1>1, CurrentIsThere DEF Inv, TasksInv
<1>3. files \subseteq Files
  BY <1>2, TreeAssumption DEF Files
<1> HIDE DEF files
<1>4. /\ pc'[Walker] = "join" /\ todo'[Walker] = todo[Walker] /\ todo[Walker] = <<>>
      /\ \A f \in Files : /\ f \in files => pc'[f] = "check" /\ todo'[f] = FileBlobs(f)
                          /\ f \notin files => pc'[f] = pc[f] /\ todo'[f] = todo[f]
  BY <1>1, <1>3, Constants DEF PackInv, StageInv
<1>5. Held' = Held
  BY <1>1, HeldSame
<1>6. StageInv'
  BY <1>4 DEF StageInv, Resting, Late
<1>7. HeldInv'
  <2>1. ASSUME NEW q \in Packers, pc'[q] \in {"trigger", "write"} \cup Locking, todo'[q] # <<>>
        PROVE  Head(todo'[q]) \in Held
    <3>1. q \in Files /\ q \notin files
      BY <1>4, <2>1, Constants DEF Locking
    <3> QED BY <1>4, <2>1, <3>1 DEF PackInv, HeldInv
  <2>2. ASSUME NEW f \in Files
        PROVE  /\ pc'[f] = "done" => ToSet(FileBlobs(f)) \subseteq Held
               /\ pc'[f] \in Busy => ToSet(FileBlobs(f)) \subseteq Held \cup ToSet(todo'[f])
    <3>1. CASE f \in files
      BY <1>4, <3>1
    <3>2. CASE f \notin files
      BY <1>4, <3>2 DEF PackInv, HeldInv
    <3> QED BY <3>1, <3>2
  <2> QED BY <1>1, <1>5, <2>1, <2>2, FileBlobsSame DEF HeldInv
<1>8. CoreInv'
  <2>1. Core \subseteq Core'
    BY <1>4, <1>5, CoreGrows DEF Given
  <2>2. ~RootJoined'
    BY <1>4 DEF RootJoined, Late, Busy
  <2> QED BY <1>1, <2>1, <2>2 DEF PackInv, CoreInv
<1> QED BY <1>6, <1>7, <1>8 DEF PackInv

\* The tree of a directory names trees that are in the core, or of files that are
\* done, and is in the core with them.
LEMMA TreeIsInCore ==
  ASSUME Inv, PackInv, ~aborting, Current \in Dirs, content' = content,
         NEW tree, tree = SplitTree("dir", Current, Joined),
         Held' = Held, todo[Walker] = <<>>, todo'[Walker] = tree
  PROVE  Core \subseteq Core' /\ ToSet(tree) \subseteq Core'
<1> DEFINE Done == {f \in Files : pc[f] = "done"}
      OfFiles == UNION {ToSet(FileBlobs(f)) : f \in Done}
      C == Core \cup OfFiles \cup ToSet(tree)
<1>1. OfFiles \subseteq Held
  BY DEF PackInv, HeldInv
<1>2. \A f \in Done : FileIsWhole(f)
  BY FilesAreWhole DEF Inv, PackingInv
<1>3. Closed(OfFiles) /\ \A f \in Done : FileTree(f) \in OfFiles
  BY <1>2 DEF Closed, FileIsWhole
<1>4. IsSeq(Joined) /\ ToSet(Joined) \subseteq Core \cup OfFiles
  <2>1. /\ IsSeq(Joined)
        /\ \A b \in ToSet(Joined) : \/ b \in ToSet(children[Current])
                                    \/ \E f \in Files : pc[f] = "done" /\ b = FileTree(f)
    BY JoinedTypes DEF Inv, PackingInv
  <2>2. ToSet(children[Current]) \subseteq Core
    BY DEF PackInv, CoreInv
  <2> HIDE DEF OfFiles
  <2> QED BY <1>3, <2>1, <2>2
<1>5. \A b \in ToSet(tree) : Below(b) \subseteq ToSet(Joined) \cup ToSet(tree)
  BY <1>4, SplitTreeBelow
<1> HIDE DEF OfFiles
<1>6. Closed(C)
  BY <1>3, <1>4, <1>5, CoreIsClosed DEF Closed
<1>7. Given' = Held \cup ToSet(tree) /\ Given = Held
  BY ToSetSmall DEF Given
<1>8. C \subseteq Given'
  BY <1>1, <1>7, CoreIsClosed
<1> HIDE DEF C
<1>9. C \subseteq Core'
  BY <1>6, <1>8 DEF Core, Closed
<1> QED BY <1>9 DEF C

LEMMA JoinTasksPacks == ASSUME Inv, PackInv, JoinTasks PROVE PackInv'
<1> DEFINE tree == SplitTree("dir", Current, Joined)
<1>1. /\ pc[Walker] = "join" /\ pc' = [pc EXCEPT ![Walker] = "check"]
      /\ todo' = [todo EXCEPT ![Walker] = tree]
      /\ Current = Root => children' = [children EXCEPT ![Root] = <<tree[1]>>]
      /\ Current # Root => children' = [children EXCEPT ![Parent(Current)] = Append(@, tree[1])]
      /\ UNCHANGED <<queue, queued, items, ended, aborting, content>>
  BY DEF JoinTasks, manager
<1>2. Current \in Dirs /\ Current' = Current
  BY <1>1, CurrentIsThere DEF Inv, TasksInv, Current, ProcessingQueue
<1>3. /\ tree # <<>> /\ IsSeq(tree)
  <2>1. IsSeq(Joined)
    BY <1>2, JoinedTypes DEF Inv, PackingInv
  <2> QED BY <2>1, SplitTreeTypes DEF IsBlobSeq
<1>4. tree[1] \in ToSet(tree)
  BY <1>3, TailSeq DEF IsSeq
<1> HIDE DEF tree
<1>6. /\ pc'[Walker] = "check" /\ todo'[Walker] = tree /\ todo[Walker] = <<>>
      /\ \A f \in Files : pc'[f] = pc[f] /\ todo'[f] = todo[f]
  BY <1>1, Constants DEF Inv, PackingInv, PackInv, StageInv
<1>7. Held' = Held
  BY <1>1, HeldSame
<1>8. StageInv'
  BY <1>6 DEF StageInv, Resting, Late
<1>9. HeldInv'
  <2>1. ASSUME NEW q \in Packers, pc'[q] \in {"trigger", "write"} \cup Locking, todo'[q] # <<>>
        PROVE  Head(todo'[q]) \in Held
    <3>1. q \in Files
      BY <1>6, <2>1, Constants DEF Locking
    <3> QED BY <1>6, <2>1, <3>1, Constants DEF PackInv, HeldInv
  <2> QED BY <1>1, <1>6, <1>7, <2>1, FileBlobsSame DEF PackInv, HeldInv
<1>10. CoreInv'
  <2>1. SUFFICES ASSUME ~aborting PROVE CoreInv'
    BY <1>1 DEF CoreInv
  <2>2. Core \subseteq Core' /\ ToSet(tree) \subseteq Core'
    BY <1>1, <1>2, <1>6, <1>7, <2>1, TreeIsInCore DEF tree
  <2>3. ASSUME NEW d \in Dirs PROVE ToSet(children'[d]) \subseteq Core'
    <3>1. DOMAIN children = Dirs /\ IsSeq(children[d]) /\ ToSet(children[d]) \subseteq Core
      BY <2>1 DEF Inv, PackingInv, PackInv, CoreInv
    <3>2. children'[d] \in {children[d], <<tree[1]>>, Append(children[d], tree[1])}
      BY <1>1, <3>1
    <3>3. ToSet(children'[d]) \subseteq ToSet(children[d]) \cup {tree[1]}
      <4>1. ToSet(Append(children[d], tree[1])) = ToSet(children[d]) \cup {tree[1]}
        BY <3>1, AppendSeq
      <4>2. ToSet(<<tree[1]>>) = {tree[1]}
        BY ToSetSmall
      <4> QED BY <3>2, <4>1, <4>2
    <3> QED BY <1>4, <2>2, <3>1, <3>3
  <2>4. RootJoined' => children'[Root] # <<>>
    <3>1. RootJoined' => Current = Root
      BY <1>2, <1>3, <1>6 DEF RootJoined, Late, Busy
    <3>2. Root \in DOMAIN children
      BY TreeAssumption DEF Inv, PackingInv
    <3>3. ASSUME Current = Root PROVE children'[Root] # <<>>
      <4> DEFINE new == <<tree[1]>>
      <4>1. children' = [children EXCEPT ![Root] = new]
        BY <1>1, <3>3
      <4>2. new # <<>>
        OBVIOUS
      <4> HIDE DEF new
      <4> QED BY <3>2, <4>1, <4>2
    <3> QED BY <3>1, <3>3
  <2> QED BY <2>3, <2>4 DEF CoreInv
<1> QED BY <1>8, <1>9, <1>10 DEF PackInv

-----------------------------------------------------------------------------
(* Errors, and where a backup begins and ends.                             *)

\* Nobody is at work.
Fresh == AtRest /\ visited = {}

\* A file is given up: what is there of it stays.
LEMMA FileFailsPacks ==
  ASSUME Inv, PackInv, NEW f \in Files, pc[f] \in Busy,
         pc' = [pc EXCEPT ![f] = "failed"], todo' = [todo EXCEPT ![f] = <<>>],
         UNCHANGED <<children, ended, aborting, content, queue, queued, items>>
  PROVE  PackInv'
<1>1. /\ pc'[Walker] = "join" /\ pc[Walker] = "join" /\ todo'[Walker] = todo[Walker]
      /\ pc'[f] = "failed" /\ todo'[f] = <<>>
      /\ \A q \in Packers \ {f} : pc'[q] = pc[q] /\ todo'[q] = todo[q]
  BY Constants DEF Inv, PackingInv, TasksInv
<1>2. Held' = Held
  BY HeldSame
<1>3. StageInv'
  BY <1>1 DEF PackInv, StageInv, Resting, Late
<1>4. HeldInv'
  <2>1. ASSUME NEW q \in Packers, pc'[q] \in {"trigger", "write"} \cup Locking, todo'[q] # <<>>
        PROVE  Head(todo'[q]) \in Held
    <3>1. q # f
      BY <1>1, <2>1
    <3> QED BY <1>1, <2>1, <3>1 DEF PackInv, HeldInv
  <2>2. ASSUME NEW g \in Files
        PROVE  /\ pc'[g] = "done" => ToSet(FileBlobs(g)) \subseteq Held
               /\ pc'[g] \in Busy => ToSet(FileBlobs(g)) \subseteq Held \cup ToSet(todo'[g])
    <3>1. CASE g = f
      BY <1>1, <3>1 DEF Busy
    <3>2. CASE g # f
      BY <1>1, <3>2, Constants DEF PackInv, HeldInv
    <3> QED BY <3>1, <3>2
  <2> QED BY <1>2, <2>1, <2>2, FileBlobsSame DEF HeldInv
<1>5. CoreInv'
  <2>1. Core \subseteq Core'
    BY <1>1, <1>2, CoreGrows DEF Given
  <2>2. ~RootJoined'
    BY <1>1 DEF RootJoined, Late, Busy
  <2> QED BY <2>1, <2>2 DEF PackInv, CoreInv
<1> QED BY <1>3, <1>4, <1>5 DEF PackInv

\* The walker gives up.
LEMMA WalkerFailsPacks == ASSUME Inv, PackInv, WriteFails(Walker) PROVE PackInv'
<1>1. PICK x \in {"failed", "write"} : pc' = [pc EXCEPT ![Walker] = x]
  BY DEF WriteFails
<1>2. /\ aborting' = TRUE /\ todo' = [todo EXCEPT ![Walker] = <<>>]
      /\ UNCHANGED <<content, queue, queued, items>>
  BY DEF WriteFails
<1>3. /\ pc'[Walker] = x /\ todo'[Walker] = <<>>
      /\ \A f \in Files : pc'[f] = pc[f] /\ todo'[f] = todo[f]
  BY <1>1, <1>2, Constants DEF Inv, PackingInv
<1>4. Held' = Held
  BY <1>2, HeldSame
<1>5. StageInv'
  BY <1>3 DEF StageInv, Resting, Late
<1>6. HeldInv'
  <2>1. ASSUME NEW q \in Packers, pc'[q] \in {"trigger", "write"} \cup Locking, todo'[q] # <<>>
        PROVE  Head(todo'[q]) \in Held
    <3>1. q \in Files
      BY <1>3, <2>1, Constants
    <3> QED BY <1>3, <2>1, <3>1, Constants DEF PackInv, HeldInv
  <2> QED BY <1>2, <1>3, <1>4, <2>1, FileBlobsSame DEF PackInv, HeldInv
<1>7. CoreInv'
  BY <1>2 DEF CoreInv
<1> QED BY <1>5, <1>6, <1>7 DEF PackInv

LEMMA StartPacks == ASSUME Inv, PackInv, Start PROVE PackInv'
<1>1. /\ \A p \in Packers : pc[p] = "idle"
      /\ pc' = [pc EXCEPT ![Walker] = "dir"] /\ UNCHANGED <<todo, children, aborting, queue>>
  BY DEF Start, Idle
<1>2. Resting /\ pc'[Walker] = "dir" /\ \A f \in Files : pc'[f] = "idle"
  BY <1>1, Constants DEF Resting, Inv, PackingInv
<1>3. StageInv'
  BY <1>1, <1>2 DEF PackInv, StageInv, Resting, Late
<1>4. \A q \in Packers : pc'[q] \in {"dir", "idle"}
  BY <1>2, Constants
<1>5. HeldInv'
  BY <1>4, Constants DEF HeldInv, Busy, Locking
<1>6. CoreInv'
  <2>1. \A d \in Dirs : ToSet(children'[d]) = {}
    BY <1>1, <1>2, ToSetSmall DEF PackInv, StageInv
  <2>2. ~RootJoined'
    BY <1>2 DEF RootJoined, Late, Busy
  <2> QED BY <2>1, <2>2 DEF CoreInv
<1> QED BY <1>3, <1>5, <1>6 DEF PackInv

LEMMA FreshPacks == Fresh => PackInv
<1> SUFFICES ASSUME Fresh PROVE PackInv
  OBVIOUS
<1> USE DEF Fresh, AtRest
<1>1. \A p \in Packers : pc[p] = "idle" /\ todo[p] = <<>>
  OBVIOUS
<1>2. StageInv
  BY <1>1, Constants DEF StageInv, Late
<1>3. HeldInv
  BY <1>1, Constants DEF HeldInv, Busy, Locking
<1>4. CoreInv
  <2>1. \A d \in Dirs : ToSet(children[d]) = {}
    BY ToSetSmall
  <2>2. ~RootJoined
    BY <1>1, Constants DEF RootJoined, Late, Busy
  <2> QED BY <2>1, <2>2 DEF CoreInv
<1> QED BY <1>2, <1>3, <1>4 DEF PackInv

LEMMA FreshPacksNext == Fresh' => PackInv'
BY FreshPacks, PTL

LEMMA PackSame ==
  ASSUME PackInv, UNCHANGED <<index, manager, packing>>, visited' = visited \/ ~Resting
  PROVE  PackInv'
<1>1. UNCHANGED <<pc, todo, children, ended, aborting, content, queue, queued, items, buf, lastNum>>
  BY DEF manager, packing
<1>2. Held' = Held /\ Resting' = Resting
  BY <1>1, HeldSame DEF Resting
<1>3. StageInv'
  BY <1>1, <1>2 DEF PackInv, StageInv
<1>4. HeldInv'
  BY <1>1, <1>2, FileBlobsSame DEF PackInv, HeldInv
<1>5. Core' = Core
  BY <1>1, <1>2 DEF Core, Given
<1>6. RootJoined' = RootJoined
  BY <1>1 DEF RootJoined, Current, ProcessingQueue
<1>7. CoreInv'
  BY <1>1, <1>5, <1>6 DEF PackInv, CoreInv
<1> QED BY <1>3, <1>4, <1>7 DEF PackInv

LEMMA ResetPacks ==
  ASSUME SnapInv, Reset, UNCHANGED <<disk, content, received, snapshots>>
  PROVE  PackInv' /\ SentInv' /\ SnapshotInv'
<1>1. AtRest'
  <2>1. DiskInv' /\ highest' \in Nat /\ content' \in Contents
    BY DiskSame DEF SnapInv, Inv, disk, ManagerInv, PackingInv
  <2>2. /\ \A e1, e2 \in Entries(DOMAIN index)' : e1[1] = e2[1] => e1 = e2
        /\ \A e \in Entries(DOMAIN index)' : e[1] \in packfiles'[e[2]].blobs
    BY DEF SnapInv, Inv, KnownInv, EntriesInv, Entries, disk
  <2> QED BY <2>1, <2>2 DEF Reset, AtRest
<1>2. PackInv'
  BY <1>1, FreshPacksNext DEF Fresh, Reset
<1>3. Resting' /\ visited' \subseteq visited
  BY Constants DEF Reset, Resting
<1>4. \A k \in Counted : k \in DOMAIN index' /\ index'[k].entries = index[k].entries
  BY CountedAreThere DEF SnapInv, disk
<1>5. UNCHANGED <<highest, received, snapshots>>
  BY DEF disk
<1>6. SentInv' /\ SnapshotInv'
  BY <1>3, <1>4, <1>5, SentKeeps DEF SnapInv
<1> QED BY <1>2, <1>6

LEMMA StartKeepsSent == ASSUME SnapInv, Start PROVE SentInv' /\ SnapshotInv'
<1>1. lastNum' = Len(index) /\ UNCHANGED <<index, highest, received, snapshots, visited>>
  BY DEF Start, LastFileNum, disk, elsewhere
<1>2. Counted \subseteq DOMAIN index /\ DOMAIN index = 1..Len(index)
  BY CountedAreThere DEF SnapInv, Inv, DiskInv, IsSeq
<1>3. AllSent \subseteq 1..lastNum'
  BY <1>1, <1>2 DEF Counted
<1> QED BY <1>1, <1>2, <1>3, SentKeeps DEF SnapInv

\* When the backup is done, everything of the tree is in the index, and every index
\* file is at a peer or has been overtaken.
LEMMA TreeIsIndexed ==
  ASSUME SnapInv, pc[Walker] = "sending", visited = DOMAIN index,
         NEW s, s.root = children[Root][1], s.files = PackedFiles
  PROVE  Covers(Names(Entries(Counted)) \cup lost, s)
<1> DEFINE root == children[Root][1]
<1>1. ~Resting /\ todo[Walker] = <<>> /\ queue = <<>> /\ buf = {} /\ Len(index) = lastNum /\ ~aborting
  BY DEF SnapInv, PackInv, StageInv, Late, Resting
<1>2. root \in Core /\ root.kind = "dir"
  <2>1. children[Root] # <<>> /\ ToSet(children[Root]) \subseteq Core /\ IsSeq(children[Root])
    <3>1. RootJoined
      BY DEF RootJoined, Late
    <3> QED BY <1>1, <3>1, TreeAssumption DEF SnapInv, PackInv, CoreInv, Inv, PackingInv
  <2>2. root = Head(children[Root])
    OBVIOUS
  <2> HIDE DEF root
  <2>3. root \in ToSet(children[Root])
    BY <2>1, <2>2, TailSeq
  <2> QED BY <2>1, <2>3, TreeAssumption DEF SnapInv, SoundInv
<1>3. Core \subseteq Known /\ Closed(Core)
  BY <1>1, CoreIsClosed, ToSetSmall DEF Given, Held
<1>4. Known \subseteq Names(Entries(DOMAIN index)) \cup lost
  <2>1. batch = <<>>
    BY WalkerAlone, NobodyWrites DEF SnapInv, Locking
  <2>2. Entries(DOMAIN index) = Kept
    BY <1>1, AllKept DEF SnapInv
  <2>3. Known \subseteq Names(Kept) \cup ToSet(batch) \cup lost
    BY <1>1 DEF SnapInv, Inv, KnownInv
  <2> QED BY <2>1, <2>2, <2>3, ToSetSmall
<1>5. DOMAIN index \subseteq Counted
  <2>1. SUFFICES ASSUME NEW k \in DOMAIN index PROVE k \in Counted
    OBVIOUS
  <2>2. k \in 1..highest /\ highest \in Nat
    BY DEF SnapInv, SentInv, Inv, ManagerInv
  <2>3. highest \in AllSent
    BY <2>2 DEF SnapInv, SentInv
  <2>4. k = highest \/ k < highest
    BY <2>2
  <2> QED BY <2>1, <2>3, <2>4 DEF Counted, Overtaken
<1>6. Names(Entries(DOMAIN index)) \subseteq Names(Entries(Counted))
  BY <1>5 DEF Names, Entries
<1>7. FilesUnder(root) = PackedFiles
  <2>1. Joins = Len(ProcessingQueue) /\ FilesUnder(root) = DoneFiles
    <3>1. Joins = ended /\ ended = Len(ProcessingQueue) /\ Active
      BY <1>1 DEF SnapInv, TotalInv, Active, Through, Late, Joins, Busy
    <3> QED BY <1>1, <3>1 DEF SnapInv, TotalInv
  <2>2. \A f \in Files : pc[f] = "done" => \E i \in 1..Joins : f \in FilesIn(i)
    BY <1>1, <2>1 DEF SnapInv, TotalInv, Active, Late
  <2>3. DoneFiles = PackedFiles
    BY <2>2 DEF DoneFiles, PackedFiles
  <2> QED BY <2>1, <2>3
<1>8. s.root \in Trees(Core) /\ FilesUnder(s.root) = s.files
  BY <1>2, <1>7 DEF Trees
<1>9. Core \subseteq Names(Entries(Counted)) \cup lost
  BY <1>3, <1>4, <1>6
<1> QED BY <1>3, <1>8, <1>9 DEF Covers

LEMMA BackupDoneSnapshot == ASSUME SnapInv, BackupDone PROVE SentInv' /\ SnapshotInv'
<1> DEFINE new == [root |-> children[Root][1], files |-> PackedFiles, lost |-> lost]
<1>1. /\ pc[Walker] = "sending" /\ visited = DOMAIN index
      /\ snapshots' = snapshots \cup {new}
      /\ UNCHANGED <<index, highest, received, lastNum, visited>>
      /\ pc' = [pc EXCEPT ![Walker] = "reported"]
  BY DEF BackupDone, disk, manager
<1>2. AllSent' = AllSent /\ Overtaken' = Overtaken
  BY <1>1 DEF AllSent, Overtaken
<1>3. SentInv'
  <2>1. ~Resting
    BY <1>1 DEF Resting
  <2> QED BY <1>1, <1>2, <2>1 DEF SnapInv, SentInv
<1>4. SnapshotInv'
  <2>1. Names(Entries(Counted))' = Names(Entries(Counted))
    BY <1>1, <1>2 DEF Counted, Names, Entries
  <2>2. \A s \in snapshots : Covers(Names(Entries(Counted)) \cup s.lost, s)
    BY DEF SnapInv, SnapshotInv, Counted
  <2>3. new.root = children[Root][1] /\ new.lost = lost /\ new.files = PackedFiles
    OBVIOUS
  <2> HIDE DEF new
  <2>4. Covers(Names(Entries(Counted)) \cup lost, new)
    BY <1>1, <2>3, TreeIsIndexed
  <2> QED BY <1>1, <2>1, <2>2, <2>3, <2>4 DEF SnapshotInv, Counted
<1> QED BY <1>3, <1>4

\* A step that changes nothing of what is sent.
LEMMA NothingSent ==
  ASSUME SnapInv, UNCHANGED <<disk, lastNum, received, snapshots, visited>>, Resting => Resting'
  PROVE  SentInv' /\ SnapshotInv'
BY SentSame DEF SnapInv, disk

-----------------------------------------------------------------------------
(* Every blob is as a blob should be.                                      *)

\* How a task, or the walker, moves in the packfile manager.
Moves(p) ==
  /\ pc[p] \in Busy /\ UNCHANGED <<children, ended, aborting, content, snapshots>>
  /\ \A q \in Packers \ {p} : pc'[q] = pc[q] /\ todo'[q] = todo[q]
  /\ \/ todo'[p] = todo[p] /\ pc'[p] \in Busy
     \/ /\ todo[p] # <<>> /\ todo'[p] = Tail(todo[p])
        /\ \/ pc'[p] = "check" /\ todo'[p] # <<>>
           \/ pc'[p] = "dirdone" /\ todo'[p] = <<>> /\ p = Walker
           \/ pc'[p] = "done" /\ todo'[p] = <<>> /\ p # Walker
     \/ p = Walker /\ pc'[p] = "index" /\ todo[p] = <<>> /\ todo'[p] = <<>>

LEMMA ContinueIsMove ==
  ASSUME Inv, NEW p \in Packers, pc[p] \in Busy, todo[p] # <<>>, Continue(p, Tail(todo[p])),
         UNCHANGED <<children, ended, aborting, content, snapshots>>
  PROVE  Moves(p)
<1>1. DOMAIN pc = Packers /\ DOMAIN todo = Packers
  BY DEF Inv, PackingInv
<1>2. /\ \A q \in Packers \ {p} : pc'[q] = pc[q] /\ todo'[q] = todo[q]
      /\ todo'[p] = Tail(todo[p])
  BY <1>1 DEF Continue
<1>3. \/ pc'[p] = "check" /\ todo'[p] # <<>>
      \/ pc'[p] = "dirdone" /\ todo'[p] = <<>> /\ p = Walker
      \/ pc'[p] = "done" /\ todo'[p] = <<>> /\ p # Walker
  BY <1>1 DEF Continue
<1> QED BY <1>2, <1>3 DEF Moves

LEMMA PackersMove ==
  ASSUME Inv, NEW p \in Packers, PackerStep(p), pc[p] # "sealLast" PROVE Moves(p)
<1> USE DEF Busy, elsewhere
<1>1. DOMAIN pc = Packers /\ DOMAIN todo = Packers
  BY DEF Inv, PackingInv
<1>2. CASE CheckDuplicate(p)
  <2>1. pc[p] = "check" /\ todo[p] # <<>> /\ UNCHANGED <<children, ended, aborting, content, snapshots>>
    BY <1>2, TodoLeft DEF CheckDuplicate
  <2>2. CASE Continue(p, Tail(todo[p]))
    BY <2>1, <2>2, ContinueIsMove
  <2>3. CASE pc' = [pc EXCEPT ![p] = "queue"] /\ UNCHANGED todo
    BY <1>1, <2>1, <2>3 DEF Moves
  <2> QED BY <1>2, <2>2, <2>3 DEF CheckDuplicate
<1>3. CASE QueueBlob(p)
  BY <1>1, <1>3 DEF QueueBlob, Moves
<1>4. CASE TriggerWrite(p)
  <2>1. pc[p] = "trigger" /\ todo[p] # <<>> /\ UNCHANGED <<children, ended, aborting, content, snapshots>>
    BY <1>4, TodoLeft DEF TriggerWrite
  <2>2. CASE Continue(p, Tail(todo[p]))
    BY <2>1, <2>2, ContinueIsMove
  <2>3. CASE pc' = [pc EXCEPT ![p] = "write"] /\ UNCHANGED todo
    BY <1>1, <2>1, <2>3 DEF Moves
  <2> QED BY <1>4, <2>2, <2>3 DEF TriggerWrite
<1>5. CASE TakeBlob(p)
  <2>1. /\ pc[p] = "write" /\ pc'[p] \in {"save", "write"} /\ \A q \in Packers \ {p} : pc'[q] = pc[q]
        /\ UNCHANGED <<todo, children, ended, aborting, content, snapshots>>
    BY <1>1, <1>5 DEF TakeBlob
  <2> QED BY <2>1 DEF Moves
<1>6. CASE WriteDone(p)
  <2>1. pc[p] = "write" /\ UNCHANGED <<children, ended, aborting, content, snapshots>> /\ Written(p)
    BY <1>6 DEF WriteDone
  <2>2. CASE todo[p] # <<>>
    <3>1. Continue(p, Tail(todo[p]))
      BY <2>1, <2>2 DEF Written
    <3> QED BY <2>1, <2>2, <3>1, ContinueIsMove
  <2>3. CASE todo[p] = <<>>
    <3>1. pc' = [pc EXCEPT ![p] = "index"] /\ todo' = todo
      BY <2>1, <2>3 DEF Written
    <3>2. p = Walker
      BY <2>1, <2>3, Constants DEF Inv, TasksInv
    <3> QED BY <1>1, <2>1, <2>3, <3>1, <3>2 DEF Moves
  <2> QED BY <2>2, <2>3
<1>7. CASE SavePackfile(p)
  BY <1>1, <1>7 DEF SavePackfile, Moves
<1>8. CASE PushEntry(p)
  <2>1. /\ pc[p] = "finalize" /\ pc'[p] \in {"finalize", "seal"}
        /\ \A q \in Packers \ {p} : pc'[q] = pc[q]
        /\ UNCHANGED <<todo, children, ended, aborting, content, snapshots>>
    BY <1>1, <1>8 DEF PushEntry
  <2> QED BY <2>1 DEF Moves
<1>9. CASE PackfileDone(p)
  BY <1>1, <1>9 DEF PackfileDone, Moves
<1>10. CASE SealIndexFile(p)
  <2>1. pc[p] = "seal"
    BY <1>10 DEF SealIndexFile
  <2> QED BY <1>1, <1>10, <2>1 DEF SealIndexFile, Moves
<1> QED BY <1>2, <1>3, <1>4, <1>5, <1>6, <1>7, <1>8, <1>9, <1>10 DEF PackerStep

\* The blobs after a step are those before it, and others that are right.
LEMMA SoundKeeps ==
  ASSUME SoundInv, NEW N, \A b \in N : Sound(b),
         Named' \subseteq Blobs, ToSet(queue') \subseteq Blobs, ToSet(batch') \subseteq Blobs,
         lost' \subseteq Blobs, \A s \in snapshots' : s.lost \subseteq Blobs,
         \A p \in Packers : ToSet(todo'[p]) \subseteq Blobs \cup N,
         \A d \in Dirs : \A c \in ToSet(children'[d]) :
           c \in ToSet(children[d]) \/ (Sound(c) /\ c.kind = "dir")
  PROVE  SoundInv'
<1>1. ToAdd' \subseteq Blobs \cup N /\ LostTo' \subseteq Blobs
  BY DEF ToAdd, LostTo
<1>2. Blobs' \subseteq Blobs \cup N
  BY <1>1 DEF Blobs
<1>3. \A b \in Blobs' : Sound(b)
  BY <1>2 DEF SoundInv
<1> QED BY <1>3 DEF SoundInv

\* Where blobs are.
LEMMA BlobsAre ==
  /\ Named \subseteq Blobs /\ ToSet(queue) \subseteq Blobs /\ ToSet(batch) \subseteq Blobs
  /\ lost \subseteq Blobs /\ \A s \in snapshots : s.lost \subseteq Blobs
  /\ \A p \in Packers : ToSet(todo[p]) \subseteq Blobs
<1>1. /\ ToAdd \subseteq Blobs /\ LostTo \subseteq Blobs
      /\ Named \subseteq Blobs /\ ToSet(queue) \subseteq Blobs /\ ToSet(batch) \subseteq Blobs
      /\ lost \subseteq Blobs
  BY DEF Blobs
<1>2. /\ \A s \in snapshots : s.lost \subseteq LostTo
      /\ \A p \in Packers : ToSet(todo[p]) \subseteq ToAdd
  BY DEF LostTo, ToAdd
<1> QED BY <1>1, <1>2

LEMMA NamedSame == UNCHANGED <<index, buf>> => Named' = Named
BY DEF Named, Names, Entries

LEMMA NamedAtCreate ==
  ASSUME Inv, ~Resting, NEW E, CreateIndexFile(E), NEW new, E \subseteq buf \cup new, buf' = buf \cup new
  PROVE  Named' \subseteq Named \cup Names(new)
<1> DEFINE file == [entries |-> E, whole |-> FALSE]
<1>1. lastNum \in Nat /\ lastNum <= Len(index) /\ IsSeq(index)
  BY AllKept DEF Inv, DiskInv
<1>2. index' = SubSeq(index, 1, lastNum) \o <<file>> /\ file.entries = E
  BY DEF CreateIndexFile
<1> HIDE DEF file
<1>3. IsCut(index, lastNum, file, index')
  BY <1>1, <1>2, CutSeq
<1>4. \A k \in DOMAIN index' : (k \in DOMAIN index /\ index'[k] = index[k]) \/ index'[k] = file
  <2>1. \A k \in 1..(lastNum + 1) : k \in 1..lastNum \/ k = lastNum + 1
    BY <1>1
  <2> QED BY <1>3, <2>1 DEF IsCut
<1>5. Entries(DOMAIN index)' \subseteq Entries(DOMAIN index) \cup E
  <2>1. ASSUME NEW e \in Entries(DOMAIN index)' PROVE e \in Entries(DOMAIN index) \cup E
    <3>1. PICK k \in DOMAIN index' : e \in index'[k].entries
      BY <2>1 DEF Entries
    <3> QED BY <1>2, <1>4, <3>1 DEF Entries
  <2> QED BY <2>1
<1> QED BY <1>5 DEF Named, Names

LEMMA NamedAtSeal ==
  ASSUME Inv, NEW p \in Packers, SealIndexFile(p) PROVE Named' \subseteq Named
<1>1. PICK whole \in BOOLEAN : index' = [index EXCEPT ![Len(index)].whole = whole]
  BY DEF SealIndexFile, Landed
<1>2. DOMAIN index' = DOMAIN index /\ \A k \in DOMAIN index : index'[k].entries = index[k].entries
  BY <1>1 DEF Inv, DiskInv
<1>3. Entries(DOMAIN index)' = Entries(DOMAIN index)
  BY <1>2 DEF Entries
<1> QED BY <1>3 DEF Named, Names, SealIndexFile

LEMMA MovesAreSound ==
  ASSUME Inv, SoundInv, NEW p \in Packers, Moves(p),
         Named' \subseteq Blobs, ToSet(queue') \subseteq Blobs, ToSet(batch') \subseteq Blobs,
         lost' \subseteq Blobs
  PROVE  SoundInv'
<1>1. ASSUME NEW q \in Packers PROVE ToSet(todo'[q]) \subseteq Blobs
  <2>1. IsSeq(todo[q]) /\ ToSet(todo[q]) \subseteq Blobs
    BY BlobsAre DEF Inv, PackingInv, IsBlobSeq
  <2>2. todo'[q] = todo[q] \/ (todo[q] # <<>> /\ todo'[q] = Tail(todo[q]))
    BY DEF Moves
  <2> QED BY <2>1, <2>2, TailSeq
<1>2. \A s \in snapshots' : s.lost \subseteq Blobs
  BY BlobsAre DEF Moves
<1>3. \A d \in Dirs : \A c \in ToSet(children'[d]) : c \in ToSet(children[d])
  BY DEF Moves
<1> DEFINE N == {}
<1>4. \A b \in N : Sound(b)
  OBVIOUS
<1>5. \A q \in Packers : ToSet(todo'[q]) \subseteq Blobs \cup N
  BY <1>1
<1> HIDE DEF N
<1> QED BY <1>2, <1>3, <1>4, <1>5, SoundKeeps

LEMMA PackersAreSound ==
  ASSUME Inv, SoundInv, NEW p \in Packers, PackerStep(p), pc[p] # "sealLast" PROVE SoundInv'
<1>1. Moves(p)
  BY PackersMove
<1>2. /\ IsSeq(queue) /\ IsSeq(batch) /\ IsSeq(todo[p])
  BY DEF Inv, ManagerInv, PackingInv, IsBlobSeq
<1>3. CASE QueueBlob(p)
  <2>1. Head(todo[p]) \in Blobs
    <3>1. todo[p] # <<>>
      BY <1>3, TodoLeft DEF QueueBlob
    <3> QED BY <1>2, <3>1, TailSeq, BlobsAre
  <2>2. queue' = Append(queue, Head(todo[p])) /\ UNCHANGED <<index, buf, batch, lost>>
    BY <1>3 DEF QueueBlob, disk
  <2>3. ToSet(queue') \subseteq Blobs
    BY <1>2, <2>1, <2>2, AppendSeq, BlobsAre
  <2> QED BY <1>1, <2>2, <2>3, NamedSame, BlobsAre, MovesAreSound
<1>4. CASE TakeBlob(p)
  <2>1. /\ queue # <<>> /\ queue' = Tail(queue) /\ UNCHANGED <<index, buf, lost>>
        /\ batch' = batch \/ batch' = Append(batch, Head(queue))
    BY <1>4 DEF TakeBlob, disk
  <2>2. Head(queue) \in Blobs /\ ToSet(queue') \subseteq Blobs
    BY <1>2, <2>1, TailSeq, BlobsAre
  <2>3. ToSet(batch') \subseteq Blobs
    <3>1. ToSet(Append(batch, Head(queue))) = ToSet(batch) \cup {Head(queue)}
      BY <1>2, AppendSeq
    <3> QED BY <2>1, <2>2, <3>1, BlobsAre
  <2> QED BY <1>1, <2>1, <2>2, <2>3, NamedSame, BlobsAre, MovesAreSound
<1>5. CASE PushEntry(p)
  <2> DEFINE new == {<<Head(batch), Len(packfiles)>>}
  <2>1. batch # <<>> /\ batch' = Tail(batch) /\ buf' = buf \cup new /\ UNCHANGED <<queue, lost>>
    BY <1>5 DEF PushEntry
  <2>2. Head(batch) \in Blobs /\ ToSet(batch') \subseteq Blobs
    BY <1>2, <2>1, TailSeq, BlobsAre
  <2>3. Names(new) = {Head(batch)}
    BY DEF Names
  <2>4. ~Resting
    BY <1>1, <1>5, Constants DEF Inv, TasksInv, Resting, PushEntry, Busy
  <2> HIDE DEF new
  <2>5. Named' \subseteq Named \cup Names(new)
    <3>1. CASE index' = index
      BY <2>1, <3>1 DEF Named, Names, Entries
    <3>2. CASE CreateIndexFile(buf')
      <4>1. PICK E : CreateIndexFile(E) /\ E = buf'
        BY <3>2 DEF CreateIndexFile
      <4>2. E \subseteq buf \cup new
        BY <2>1, <4>1
      <4> QED BY <2>1, <2>4, <4>1, <4>2, NamedAtCreate
    <3> QED BY <1>5, <3>1, <3>2 DEF PushEntry
  <2>6. Named' \subseteq Blobs
    BY <2>2, <2>3, <2>5, BlobsAre
  <2> QED BY <1>1, <2>1, <2>2, <2>6, BlobsAre, MovesAreSound
<1>6. CASE SealIndexFile(p)
  <2>1. UNCHANGED <<queue, batch, lost>>
    BY <1>6 DEF SealIndexFile
  <2> QED BY <1>1, <1>6, <2>1, NamedAtSeal, BlobsAre, MovesAreSound
<1>7. CASE CheckDuplicate(p) \/ TriggerWrite(p) \/ WriteDone(p) \/ SavePackfile(p) \/ PackfileDone(p)
  <2>1. UNCHANGED <<index, buf, queue, batch, lost>>
    BY <1>7 DEF CheckDuplicate, TriggerWrite, WriteDone, SavePackfile, PackfileDone, disk, manager
  <2> QED BY <1>1, <2>1, NamedSame, BlobsAre, MovesAreSound
<1> QED BY <1>3, <1>4, <1>5, <1>6, <1>7 DEF PackerStep

\* A step at which no blob comes from anywhere.
LEMMA SoundSame ==
  ASSUME SoundInv, Named' \subseteq Named, UNCHANGED <<queue, children>>,
         ToSet(batch') \subseteq ToSet(batch), lost' \subseteq lost \cup ToSet(batch),
         \A s \in snapshots' : s \in snapshots \/ s.lost = lost,
         \A p \in Packers : todo'[p] = todo[p] \/ todo'[p] = <<>>
  PROVE  SoundInv'
<1>1. \A s \in snapshots' : s.lost \subseteq Blobs
  BY BlobsAre
<1>2. \A p \in Packers : ToSet(todo'[p]) \subseteq Blobs
  BY BlobsAre, ToSetSmall
<1> DEFINE N == {}
<1>3. \A b \in N : Sound(b)
  OBVIOUS
<1>4. \A p \in Packers : ToSet(todo'[p]) \subseteq Blobs \cup N
  BY <1>2
<1> HIDE DEF N
<1>5. Named' \subseteq Blobs /\ ToSet(queue') \subseteq Blobs /\ ToSet(batch') \subseteq Blobs
      /\ lost' \subseteq Blobs
  BY BlobsAre
<1> QED BY <1>1, <1>3, <1>4, <1>5, SoundKeeps

\* The steps of the walker, but for those at which trees are made.
LEMMA WalkerIsSound ==
  ASSUME SnapInv, DirectoryDone \/ FlushIndex \/ Packed \/ BackupDone \/ FlushFails PROVE SoundInv'
<1>1. UNCHANGED <<queue, buf, batch, lost, todo, children>>
  BY DEF DirectoryDone, FlushIndex, Packed, BackupDone, FlushFails, manager
<1>2. \A s \in snapshots' : s \in snapshots \/ s.lost = lost
  BY DEF DirectoryDone, FlushIndex, Packed, BackupDone, FlushFails, elsewhere
<1>3. Named' \subseteq Named
  <2>1. CASE FlushIndex
    <3>1. ~Resting /\ CreateIndexFile(buf)
      BY <2>1 DEF FlushIndex, Resting
    <3>2. PICK E : CreateIndexFile(E) /\ E = buf
      BY <3>1
    <3> DEFINE new == {}
    <3>3. E \subseteq buf \cup new /\ buf' = buf \cup new /\ Names(new) = {}
      BY <1>1, <3>2 DEF Names
    <3> HIDE DEF new
    <3> QED BY <3>1, <3>2, <3>3, NamedAtCreate DEF SnapInv
  <2>2. CASE DirectoryDone \/ Packed \/ BackupDone \/ FlushFails
    BY <1>1, <2>2, NamedSame DEF DirectoryDone, Packed, BackupDone, FlushFails, disk
  <2> QED BY <2>1, <2>2
<1> QED BY <1>1, <1>2, <1>3, SoundSame DEF SnapInv

\* A task begins with the blobs of its file.
LEMMA SpawnTasksSound == ASSUME SnapInv, SpawnTasks PROVE SoundInv'
<1> DEFINE files == ToSet(FilesOf[Current])
      N == UNION {ToSet(FileBlobs(f)) : f \in Files}
<1>1. /\ pc[Walker] = "dir"
      /\ todo' = [p \in Packers |-> IF p \in files THEN FileBlobs(p) ELSE todo[p]]
      /\ UNCHANGED <<index, buf, queue, batch, lost, children, snapshots>>
  BY DEF SpawnTasks, disk, manager, elsewhere
<1>2. files \subseteq Files
  <2>1. Current \in Dirs
    BY <1>1, CurrentIsThere DEF SnapInv, Inv, TasksInv
  <2> QED BY <2>1, TreeAssumption DEF Files
<1> HIDE DEF files
<1>3. \A b \in N : Sound(b)
  BY FilesAreRight DEF FileIsRight, SnapInv, Inv, PackingInv
<1>4. \A f \in Files : ToSet(FileBlobs(f)) \subseteq N
  OBVIOUS
<1> HIDE DEF N
<1>5. \A p \in Packers : ToSet(todo'[p]) \subseteq Blobs \cup N
  BY <1>1, <1>2, <1>4, BlobsAre
<1> QED BY <1>1, <1>3, <1>5, NamedSame, BlobsAre, SoundKeeps DEF SnapInv

\* What a directory holds that is joined: its directories, and its files that are done.
LEMMA JoinedHolds ==
  ASSUME Inv, Current \in Dirs
  PROVE  /\ IsSeq(Joined)
         /\ ToSet(Joined) = ToSet(children[Current]) \cup
              {FileTree(f) : f \in {g \in ToSet(FilesOf[Current]) : pc[g] = "done"}}
<1> DEFINE files == FilesOf[Current]
      n0 == Len(files)
      Done(n) == {i \in 1..n : pc[files[i]] = "done"}
      Has(n) == ToSet(children[Current]) \cup {FileTree(files[i]) : i \in Done(n)}
      T == {n \in Nat : IsSeq(Pushed[n]) /\ ToSet(Pushed[n]) = Has(n)}
<1>1. IsSeq(children[Current]) /\ IsSeq(files)
  BY TreeAssumption DEF Inv, PackingInv
<1>2. Pushed[0] = children[Current] /\ \A n \in Nat : PushedStep(n)
  BY <1>1, PushedSteps
<1>3. 0 \in T
  <2>1. Done(0) = {}
    OBVIOUS
  <2>2. Has(0) = ToSet(children[Current])
    BY <2>1
  <2> HIDE DEF Has
  <2> QED BY <1>1, <1>2, <2>2
<1>4. ASSUME NEW n \in Nat, n \in T PROVE n + 1 \in T
  <2>1. IsSeq(Pushed[n]) /\ ToSet(Pushed[n]) = Has(n)
    BY <1>4
  <2>2. Pushed[n + 1] = IF pc[files[n + 1]] = "done" THEN Append(Pushed[n], FileTree(files[n + 1]))
                        ELSE Pushed[n]
    BY <1>2 DEF PushedStep
  <2>3. Done(n + 1) = IF pc[files[n + 1]] = "done" THEN Done(n) \cup {n + 1} ELSE Done(n)
    OBVIOUS
  <2> HIDE DEF Done
  <2>4. Has(n + 1) = IF pc[files[n + 1]] = "done" THEN Has(n) \cup {FileTree(files[n + 1])} ELSE Has(n)
    BY <2>3
  <2> HIDE DEF Has, files
  <2>5. IsSeq(Pushed[n + 1]) /\ ToSet(Pushed[n + 1]) = Has(n + 1)
    <3>1. CASE pc[files[n + 1]] = "done"
      <4>1. \A x : /\ IsSeq(Append(Pushed[n], x))
                   /\ ToSet(Append(Pushed[n], x)) = ToSet(Pushed[n]) \cup {x}
        BY <2>1, AppendSeq
      <4>2. Pushed[n + 1] = Append(Pushed[n], FileTree(files[n + 1]))
        BY <2>2, <3>1
      <4>3. Has(n + 1) = Has(n) \cup {FileTree(files[n + 1])}
        BY <2>4, <3>1
      <4> QED BY <2>1, <4>1, <4>2, <4>3, Zenon
    <3>2. CASE pc[files[n + 1]] # "done"
      BY <2>1, <2>2, <2>4, <3>2
    <3> QED BY <3>1, <3>2
  <2> QED BY <2>5
<1>5. Nat \subseteq T
  <2> HIDE DEF T
  <2> QED BY <1>3, <1>4, Induction
<1>6. n0 \in Nat /\ DOMAIN files = 1..n0
  BY <1>1 DEF IsSeq
<1>7. {FileTree(files[i]) : i \in Done(n0)} = {FileTree(f) : f \in {g \in ToSet(files) : pc[g] = "done"}}
  BY <1>6 DEF ToSet
<1> QED BY <1>5, <1>6, <1>7 DEF Joined

\* The tree of the directory, and what is below it.
LEMMA JoinedTree ==
  ASSUME SnapInv, Current \in Dirs, NEW tree, tree = SplitTree("dir", Current, Joined)
  PROVE  /\ IsSeq(tree) /\ tree # <<>> /\ \A b \in ToSet(tree) : Sound(b)
         /\ Sound(tree[1]) /\ tree[1].kind = "dir"
         /\ FilesUnder(tree[1]) =
              (UNION {FilesUnder(c) : c \in ToSet(children[Current])}) \cup
              {<<f, content[f]>> : f \in {g \in ToSet(FilesOf[Current]) : pc[g] = "done"}}
<1> DEFINE Done == {g \in ToSet(FilesOf[Current]) : pc[g] = "done"}
<1>1. /\ IsSeq(Joined)
      /\ ToSet(Joined) = ToSet(children[Current]) \cup {FileTree(f) : f \in Done}
  BY JoinedHolds DEF SnapInv
<1>2. \A f \in Done : FileIsRight(f)
  BY FilesAreRight DEF SnapInv, Inv, PackingInv, Files
<1>3. Fits("dir", Joined)
  <2>1. \A c \in ToSet(children[Current]) : Sound(c) /\ c.kind = "dir"
    BY DEF SnapInv, SoundInv
  <2>2. \A f \in Done : Sound(FileTree(f)) /\ FileTree(f).kind = "file"
    BY <1>2 DEF FileIsRight
  <2> HIDE DEF Done
  <2> QED BY <1>1, <2>1, <2>2 DEF Fits
<1>4. SplitRight("dir", Current, Joined, tree)
  BY <1>3, SplitTreeIsRight
<1>5. /\ Sound(tree[1]) /\ tree[1].kind = "dir"
      /\ FilesUnder(tree[1]) = UNION {FilesUnder(c) : c \in ToSet(Joined)}
  BY <1>3, DirectoryTree
<1>6. \A f \in Done : FilesUnder(FileTree(f)) = {<<f, content[f]>>}
  BY <1>2 DEF FileIsRight
<1>7. UNION {FilesUnder(c) : c \in ToSet(Joined)} =
        (UNION {FilesUnder(c) : c \in ToSet(children[Current])}) \cup {<<f, content[f]>> : f \in Done}
  <2> DEFINE kids == ToSet(children[Current])
        OfAll == {FilesUnder(c) : c \in ToSet(Joined)}
        OfKids == {FilesUnder(c) : c \in kids}
        OfDone == {{<<f, content[f]>>} : f \in Done}
        packed == {<<f, content[f]>> : f \in Done}
  <2> HIDE DEF Done
  <2>1. OfAll = OfKids \cup OfDone
    <3> HIDE DEF kids
    <3>1. ToSet(Joined) = kids \cup {FileTree(f) : f \in Done}
      BY <1>1 DEF kids
    <3> QED BY <1>6, <3>1
  <2>2. UNION OfDone = packed
    OBVIOUS
  <2> HIDE DEF OfAll, OfKids, OfDone, packed
  <2>3. UNION OfAll = (UNION OfKids) \cup packed
    BY <2>1, <2>2
  <2> QED BY <2>3 DEF OfAll, OfKids, packed
<1> QED BY <1>4, <1>5, <1>7 DEF SplitRight

LEMMA JoinTasksSound == ASSUME SnapInv, JoinTasks PROVE SoundInv'
<1> DEFINE tree == SplitTree("dir", Current, Joined)
<1>1. /\ pc[Walker] = "join"
      /\ todo' = [todo EXCEPT ![Walker] = tree]
      /\ Current = Root => children' = [children EXCEPT ![Root] = <<tree[1]>>]
      /\ Current # Root => children' = [children EXCEPT ![Parent(Current)] = Append(@, tree[1])]
      /\ UNCHANGED <<index, buf, queue, batch, lost, snapshots>>
  BY DEF JoinTasks, disk, manager, elsewhere
<1>2. Current \in Dirs
  BY <1>1, CurrentIsThere DEF SnapInv, Inv, TasksInv
<1>3. (\A b \in ToSet(tree) : Sound(b)) /\ Sound(tree[1]) /\ tree[1].kind = "dir"
  BY <1>2, JoinedTree
<1> HIDE DEF tree
<1>4. DOMAIN todo = Packers /\ DOMAIN children = Dirs /\ \A d \in Dirs : IsSeq(children[d])
  BY DEF SnapInv, Inv, PackingInv
<1> DEFINE N == ToSet(tree)
<1>5. \A p \in Packers : ToSet(todo'[p]) \subseteq Blobs \cup N
  BY <1>1, <1>4, BlobsAre
<1>6. ASSUME NEW d \in Dirs, NEW c \in ToSet(children'[d])
      PROVE  c \in ToSet(children[d]) \/ (Sound(c) /\ c.kind = "dir")
  <2>1. children'[d] \in {children[d], <<tree[1]>>, Append(children[d], tree[1])}
    BY <1>1, <1>4
  <2>2. ToSet(Append(children[d], tree[1])) = ToSet(children[d]) \cup {tree[1]}
    BY <1>4, AppendSeq
  <2>3. ToSet(<<tree[1]>>) = {tree[1]}
    BY ToSetSmall
  <2> QED BY <1>3, <1>6, <2>1, <2>2, <2>3
<1>7. \A b \in N : Sound(b)
  BY <1>3
<1> HIDE DEF N
<1> QED BY <1>1, <1>5, <1>6, <1>7, NamedSame, BlobsAre, SoundKeeps DEF SnapInv

\* A write fails, a file, or everything.
LEMMA ErrorsAreSound ==
  ASSUME SnapInv,
         (\E p \in Packers : WriteFails(p)) \/ (\E f \in Files : ReadFails(f))
  PROVE  SoundInv'
<1>1. /\ UNCHANGED <<index, buf, queue, children, snapshots>>
      /\ batch' = batch \/ batch' = <<>>
      /\ lost' = lost \/ lost' = lost \cup ToSet(batch)
  BY DEF WriteFails, KeptBuffer, ReadFails, disk, manager, elsewhere
<1>2. PICK q \in Packers : todo' = [todo EXCEPT ![q] = <<>>]
  BY Constants DEF WriteFails, ReadFails
<1>3. \A p \in Packers : todo'[p] = todo[p] \/ todo'[p] = <<>>
  BY <1>2 DEF SnapInv, Inv, PackingInv
<1> QED BY <1>1, <1>3, ToSetSmall, NamedSame, SoundSame DEF SnapInv

LEMMA ResetIsSound ==
  ASSUME SnapInv, Reset, UNCHANGED <<disk, snapshots>> PROVE SoundInv'
<1>1. /\ queue' = <<>> /\ batch' = <<>> /\ buf' = {} /\ lost' = {} /\ index' = index
      /\ \A p \in Packers : todo'[p] = <<>>
      /\ \A d \in Dirs : children'[d] = <<>>
  BY DEF Reset, disk
<1>2. Named' \subseteq Named
  BY <1>1 DEF Named, Names, Entries
<1> DEFINE N == {}
<1>3. \A b \in N : Sound(b)
  OBVIOUS
<1>4. \A p \in Packers : ToSet(todo'[p]) \subseteq Blobs \cup N
  BY <1>1, ToSetSmall
<1> HIDE DEF N
<1> QED BY <1>1, <1>2, <1>3, <1>4, ToSetSmall, BlobsAre, SoundKeeps DEF SnapInv

-----------------------------------------------------------------------------
(* The trees have the files that are done.                                 *)

LEMMA QueueSame ==
  ProcessingQueue' = ProcessingQueue /\ \A i : FilesIn(i)' = FilesIn(i)
BY DEF ProcessingQueue, FilesIn

\* No file is in two directories, and no directory is in the queue twice.
LEMMA FilesOnce ==
  ASSUME NEW i \in 1..Len(ProcessingQueue), NEW j \in 1..Len(ProcessingQueue), i # j
  PROVE  FilesIn(i) \cap FilesIn(j) = {}
<1>1. DOMAIN ProcessingQueue = 1..Len(ProcessingQueue)
  BY QueueTypes
<1>2. ProcessingQueue[i] \in Dirs /\ ProcessingQueue[j] \in Dirs
  BY QueueTypes
<1>3. ProcessingQueue[i] # ProcessingQueue[j]
  BY <1>1, QueueOrder DEF IsInjective
<1> QED BY <1>2, <1>3, TreeAssumption DEF FilesIn

LEMMA FilesInAreFiles ==
  \A i \in 1..Len(ProcessingQueue) : FilesIn(i) \subseteq Files /\ ProcessingQueue[i] \in Dirs
<1> SUFFICES ASSUME NEW i \in 1..Len(ProcessingQueue)
             PROVE  FilesIn(i) \subseteq Files /\ ProcessingQueue[i] \in Dirs
  OBVIOUS
<1>1. ProcessingQueue[i] \in Dirs
  BY QueueTypes
<1> QED BY <1>1, TreeAssumption DEF FilesIn, Files

\* The root comes last, and only there.
LEMMA RootIsLast ==
  ASSUME Inv, ended < Len(ProcessingQueue)
  PROVE  Current = Root <=> ended + 1 = Len(ProcessingQueue)
<1>1. ended + 1 \in 1..Len(ProcessingQueue) /\ Len(ProcessingQueue) \in 1..Len(ProcessingQueue)
  BY QueueTypes DEF Inv, PackingInv
<1>2. DOMAIN ProcessingQueue = 1..Len(ProcessingQueue)
  BY QueueTypes
<1> QED BY <1>1, <1>2, QueueTypes, QueueOrder DEF Current, IsInjective

\* A step after which the same directories are joined, and at which only files of the
\* directory the walker waits for move.
LEMMA TotalSame ==
  ASSUME Inv, TotalInv, UNCHANGED <<children, content>>, Active' => Active /\ Joins' = Joins,
         aborting' = aborting, Active' /\ Through' => ended' = Len(ProcessingQueue),
         \A f \in Files : pc'[f] = pc[f] \/ pc[f] \in Busy
  PROVE  TotalInv'
<1> DEFINE n == Len(ProcessingQueue)
<1> SUFFICES ASSUME Active', ~aborting' PROVE TotalInv'
  BY DEF TotalInv
<1>1. /\ Joins <= n
      /\ \A i \in 1..Joins : \A f \in FilesIn(i) : pc[f] \in {"done", "failed"}
      /\ \A f \in Files : pc[f] # "idle" => \E i \in 1..n : f \in FilesIn(i)
      /\ Joins < n => Gathered = DoneFiles
      /\ Joins = n => children[Root] # <<>> /\ FilesUnder(children[Root][1]) = DoneFiles
  BY DEF TotalInv
<1>2. Joins \in Nat /\ n \in Nat /\ Joins' = Joins
  BY QueueTypes DEF Joins, Inv, PackingInv
<1>3. ASSUME NEW i \in 1..Joins, NEW f \in FilesIn(i) PROVE f \in Files /\ pc'[f] = pc[f]
  <2>1. i \in 1..n
    BY <1>1, <1>2
  <2>2. f \in Files
    BY <2>1, FilesInAreFiles
  <2> QED BY <1>1, <2>2 DEF Busy
<1>4. \A f \in Files : pc'[f] # "idle" => pc[f] # "idle"
  BY DEF Busy
<1>5. DoneFiles' = DoneFiles
  BY <1>2, <1>3, QueueSame DEF DoneFiles
<1>6. Gathered' = Gathered
  BY <1>2, QueueSame DEF Gathered
<1> HIDE DEF n
<1>7. /\ Joins' <= n /\ (Through' => ended' = n)
      /\ \A i \in 1..Joins' : \A f \in FilesIn(i) : pc'[f] \in {"done", "failed"}
      /\ \A f \in Files : pc'[f] # "idle" => \E i \in 1..n : f \in FilesIn(i)
      /\ Joins' < n => Gathered' = DoneFiles'
      /\ Joins' = n => children'[Root] # <<>> /\ FilesUnder(children'[Root][1]) = DoneFiles'
  BY <1>1, <1>2, <1>3, <1>4, <1>5, <1>6 DEF n
<1> QED BY <1>7, QueueSame DEF TotalInv, n

LEMMA MovesAreTotal ==
  ASSUME Inv, TotalInv, NEW p \in Packers, Moves(p) PROVE TotalInv'
<1>1. CASE p = Walker
  <2>1. \A f \in Files : pc'[f] = pc[f]
    BY <1>1, Constants DEF Moves
  <2>2. \/ pc'[Walker] \in Busy /\ (todo'[Walker] = <<>> <=> todo[Walker] = <<>>)
        \/ pc'[Walker] = "dirdone" /\ todo[Walker] # <<>>
        \/ pc'[Walker] = "index" /\ todo[Walker] = <<>>
    BY <1>1 DEF Moves, Busy
  <2>3. Active /\ Joins' = Joins /\ (Through' => Through)
    BY <1>1, <2>2 DEF Moves, Active, Joins, Through, Late, Busy
  <2>4. Through /\ ~aborting => ended = Len(ProcessingQueue)
    BY <2>3 DEF TotalInv
  <2>5. CASE aborting
    BY <2>5 DEF Moves, TotalInv
  <2>6. CASE ~aborting
    BY <2>1, <2>3, <2>4, <2>6, TotalSame DEF Moves
  <2> QED BY <2>5, <2>6
<1>2. CASE p # Walker
  <2>1. p \in Files /\ pc[Walker] = "join" /\ pc'[Walker] = "join"
    BY <1>2, Constants DEF Moves, Inv, TasksInv
  <2>2. \A f \in Files : pc'[f] = pc[f] \/ pc[f] \in Busy
    BY <1>2, Constants DEF Moves
  <2>3. Active /\ Joins' = Joins /\ ~Through'
    BY <2>1 DEF Moves, Active, Joins, Through, Late, Busy
  <2> QED BY <2>2, <2>3, TotalSame DEF Moves
<1> QED BY <1>1, <1>2

\* A task gives up.
LEMMA FileFailsTotal ==
  ASSUME Inv, TotalInv, NEW f \in Files, pc[f] \in Busy, pc' = [pc EXCEPT ![f] = "failed"],
         todo' = [todo EXCEPT ![f] = <<>>], UNCHANGED <<children, content, ended, aborting>>
  PROVE  TotalInv'
<1>1. pc[Walker] = "join" /\ pc'[Walker] = "join" /\ \A g \in Files : g # f => pc'[g] = pc[g]
  BY Constants DEF Inv, TasksInv, PackingInv
<1>2. Active /\ Joins' = Joins /\ ~Through'
  BY <1>1 DEF Active, Joins, Through, Late, Busy
<1> QED BY <1>1, <1>2, TotalSame

\* The walker ends, well or not.
LEMMA NotActiveTotal == ~Active' \/ aborting' => TotalInv'
BY DEF TotalInv

\* The walker goes on with the index.
LEMMA LateTotal ==
  ASSUME Inv, TotalInv, NEW x \in Late, pc[Walker] \in Late, pc' = [pc EXCEPT ![Walker] = x],
         UNCHANGED <<todo, children, content, ended, aborting>>
  PROVE  TotalInv'
<1>1. pc'[Walker] \in Late /\ \A f \in Files : pc'[f] = pc[f]
  BY Constants DEF Inv, PackingInv
<1>2. Active /\ Joins' = Joins /\ Through
  BY <1>1 DEF Active, Joins, Through, Late, Busy
<1>3. ~aborting => ended = Len(ProcessingQueue)
  BY <1>2 DEF TotalInv
<1>4. CASE aborting
  BY <1>4, NotActiveTotal
<1>5. CASE ~aborting
  BY <1>1, <1>2, <1>3, <1>5, TotalSame
<1> QED BY <1>4, <1>5

LEMMA DirectoryDoneTotal == ASSUME SnapInv, DirectoryDone PROVE TotalInv'
<1>1. /\ pc[Walker] = "dirdone" /\ ended' = ended + 1 /\ todo[Walker] = <<>>
      /\ pc' = [pc EXCEPT ![Walker] = IF Current = Root THEN "write" ELSE "dir"]
      /\ UNCHANGED <<todo, children, content, aborting>>
  BY DEF DirectoryDone, SnapInv, Inv, TasksInv
<1>2. ended < Len(ProcessingQueue) /\ ended \in Nat /\ DOMAIN pc = Packers /\ Walker \in Packers
  BY <1>1, Constants DEF SnapInv, Inv, TasksInv, PackingInv
<1>3. /\ Current = Root => pc'[Walker] = "write"
      /\ Current # Root => pc'[Walker] = "dir"
      /\ \A f \in Files : pc'[f] = pc[f]
  BY <1>1, <1>2, Constants
<1>4. Active /\ Joins' = Joins
  BY <1>1, <1>3 DEF Active, Joins, Busy
<1>5. Through' => ended' = Len(ProcessingQueue)
  BY <1>1, <1>2, <1>3, RootIsLast DEF Through, Late, Busy, SnapInv
<1> QED BY <1>1, <1>3, <1>4, <1>5, TotalSame DEF SnapInv

\* At the beginning nothing is there.
LEMMA StartTotal == ASSUME SnapInv, Start PROVE TotalInv'
<1> DEFINE n == Len(ProcessingQueue)
<1>1. /\ \A p \in Packers : pc[p] = "idle"
      /\ pc' = [pc EXCEPT ![Walker] = "dir"] /\ UNCHANGED <<children, ended, aborting>>
  BY DEF Start, Idle
<1>2. /\ Resting /\ ended = 0 /\ pc'[Walker] = "dir" /\ \A f \in Files : pc'[f] = "idle"
      /\ \A d \in Dirs : children'[d] = <<>>
  BY <1>1, Constants DEF Resting, SnapInv, PackInv, StageInv, Inv, TasksInv, PackingInv
<1>3. Joins' = 0 /\ ~Through' /\ n \in Nat \ {0}
  BY <1>1, <1>2, QueueTypes DEF Joins, Through, Late, Busy
<1>4. DoneFiles' = {}
  BY <1>2 DEF DoneFiles
<1>5. Gathered' = {}
  <2>1. \A i \in 1..n : ToSet(children'[ProcessingQueue[i]]) = {}
    BY <1>2, FilesInAreFiles, ToSetSmall
  <2>2. UNION {ToSet(children'[ProcessingQueue[i]]) : i \in (Joins' + 1)..n} = {}
    <3> DEFINE Kids(i) == ToSet(children'[ProcessingQueue[i]])
    <3>1. \A i \in (Joins' + 1)..n : Kids(i) = {}
      BY <1>3, <2>1
    <3> HIDE DEF Kids
    <3>2. UNION {Kids(i) : i \in (Joins' + 1)..n} = {}
      BY <3>1
    <3> QED BY <3>2 DEF Kids
  <2> QED BY <2>2, QueueSame DEF Gathered
<1>6. /\ Joins' <= n /\ Joins' < n /\ Joins' # n /\ 1..Joins' = {}
  BY <1>3
<1> QED BY <1>2, <1>3, <1>4, <1>5, <1>6, QueueSame DEF TotalInv

\* A task begins for each file of a directory that is not joined yet.
LEMMA SpawnTasksTotal == ASSUME SnapInv, SpawnTasks PROVE TotalInv'
<1> DEFINE n == Len(ProcessingQueue)
      files == ToSet(FilesOf[Current])
<1>1. /\ pc[Walker] = "dir"
      /\ pc' = [p \in Packers |-> IF p = Walker THEN "join"
                                  ELSE IF p \in files THEN "check" ELSE pc[p]]
      /\ UNCHANGED <<children, content, ended, aborting>>
  BY DEF SpawnTasks
<1>2. ended < n /\ ended \in Nat /\ n \in Nat
  BY <1>1, QueueTypes DEF SnapInv, Inv, TasksInv, PackingInv
<1>3. files = FilesIn(ended + 1) /\ ended + 1 \in 1..n
  BY <1>2 DEF FilesIn, Current
<1> HIDE DEF files
<1>4. /\ pc'[Walker] = "join"
      /\ \A f \in Files : /\ f \in files => pc'[f] = "check"
                          /\ f \notin files => pc'[f] = pc[f]
  BY <1>1, Constants
<1>5. Active /\ Joins = ended /\ Joins' = ended /\ ~Through'
  BY <1>1, <1>4 DEF Active, Joins, Through, Late, Busy
<1> SUFFICES ASSUME ~aborting PROVE TotalInv'
  BY <1>1, NotActiveTotal
<1>6. /\ \A i \in 1..ended : \A f \in FilesIn(i) : pc[f] \in {"done", "failed"}
      /\ \A f \in Files : pc[f] # "idle" => \E i \in 1..n : f \in FilesIn(i)
      /\ ended < n => Gathered = DoneFiles
  BY <1>5 DEF SnapInv, TotalInv
<1>7. ASSUME NEW i \in 1..ended, NEW f \in FilesIn(i) PROVE f \in Files /\ pc'[f] = pc[f]
  <2>1. i \in 1..n /\ i # ended + 1
    BY <1>2
  <2>2. f \in Files /\ f \notin files
    BY <1>3, <2>1, FilesInAreFiles, FilesOnce
  <2> QED BY <1>4, <2>2
<1>8. \A f \in Files : pc'[f] # "idle" => \E i \in 1..n : f \in FilesIn(i)
  BY <1>3, <1>4, <1>6
<1>9. DoneFiles' = DoneFiles
  BY <1>1, <1>5, <1>7, QueueSame DEF DoneFiles
<1>10. Gathered' = Gathered
  BY <1>1, <1>5, QueueSame DEF Gathered
<1> HIDE DEF n
<1>11. /\ Joins' <= n /\ ~Through'
       /\ \A i \in 1..Joins' : \A f \in FilesIn(i) : pc'[f] \in {"done", "failed"}
       /\ \A f \in Files : pc'[f] # "idle" => \E i \in 1..n : f \in FilesIn(i)
       /\ Joins' < n => Gathered' = DoneFiles'
       /\ Joins' # n
  BY <1>2, <1>5, <1>6, <1>7, <1>8, <1>9, <1>10
<1> QED BY <1>11, QueueSame DEF TotalInv, n

\* A directory is in one that is not joined yet.
LEMMA ParentIsAhead ==
  ASSUME Inv, ended < Len(ProcessingQueue), Current # Root
  PROVE  \E j \in (ended + 2)..Len(ProcessingQueue) : Parent(Current) = ProcessingQueue[j]
<1> DEFINE n == Len(ProcessingQueue)
<1>1. ended \in Nat /\ n \in Nat /\ ended + 1 \in 1..n /\ ended + 1 # n
  BY CurrentIsThere, QueueTypes DEF Inv, PackingInv
<1>2. PICK j \in 1..n : ended + 1 < j /\ Current \in ToSet(Subdirs[ProcessingQueue[j]])
  BY <1>1, QueueOrder DEF ParentsFollow, Current
<1>3. ProcessingQueue[j] \in Dirs
  BY FilesInAreFiles
<1>4. \A e \in Dirs : Current \in ToSet(Subdirs[e]) => e = ProcessingQueue[j]
  BY <1>2, <1>3, TreeAssumption
<1>5. Parent(Current) = ProcessingQueue[j]
  BY <1>2, <1>3, <1>4 DEF Parent
<1>6. j \in (ended + 2)..n
  BY <1>1, <1>2
<1> QED BY <1>5, <1>6

\* A directory's tree stands for what was gathered for it, and its files.
LEMMA JoinTasksTotal == ASSUME SnapInv, JoinTasks PROVE TotalInv'
<1> DEFINE n == Len(ProcessingQueue)
      tree == SplitTree("dir", Current, Joined)
      Kids(i) == ToSet(children[ProcessingQueue[i]])
      Packed1 == {<<f, content[f]>> : f \in {g \in ToSet(FilesOf[Current]) : pc[g] = "done"}}
<1>1. /\ pc[Walker] = "join" /\ pc' = [pc EXCEPT ![Walker] = "check"]
      /\ todo' = [todo EXCEPT ![Walker] = tree]
      /\ Current = Root => children' = [children EXCEPT ![Root] = <<tree[1]>>]
      /\ Current # Root => children' = [children EXCEPT ![Parent(Current)] = Append(@, tree[1])]
      /\ UNCHANGED <<ended, aborting, content>>
      /\ \A f \in ToSet(FilesOf[Current]) : pc[f] \in {"done", "failed"}
  BY DEF JoinTasks
<1>2. /\ ended < n /\ ended \in Nat /\ n \in Nat /\ ended + 1 \in 1..n
      /\ Current \in Dirs /\ Current = ProcessingQueue[ended + 1]
  BY <1>1, CurrentIsThere, QueueTypes DEF SnapInv, Inv, TasksInv, PackingInv, Current
<1>3. /\ tree # <<>>
      /\ FilesUnder(tree[1]) = (UNION {FilesUnder(c) : c \in Kids(ended + 1)}) \cup Packed1
  BY <1>2, JoinedTree
<1> HIDE DEF tree
<1>4. DOMAIN children = Dirs /\ \A d \in Dirs : IsSeq(children[d])
  BY DEF SnapInv, Inv, PackingInv
<1>5. /\ pc'[Walker] = "check" /\ todo'[Walker] = tree
      /\ \A f \in Files : pc'[f] = pc[f]
  BY <1>1, Constants DEF SnapInv, Inv, PackingInv
<1>6. Active /\ Joins = ended /\ Joins' = ended + 1 /\ ~Through'
  BY <1>1, <1>3, <1>5 DEF Active, Joins, Through, Late, Busy
<1> SUFFICES ASSUME ~aborting PROVE TotalInv'
  BY <1>1, NotActiveTotal
<1>7. /\ \A i \in 1..ended : \A f \in FilesIn(i) : pc[f] \in {"done", "failed"}
      /\ \A f \in Files : pc[f] # "idle" => \E i \in 1..n : f \in FilesIn(i)
      /\ Gathered = DoneFiles
  BY <1>2, <1>6 DEF SnapInv, TotalInv
<1>8. FilesIn(ended + 1) = ToSet(FilesOf[Current]) /\ FilesIn(ended + 1) \subseteq Files
  BY <1>2, FilesInAreFiles DEF FilesIn
<1>9. \A i \in 1..(ended + 1) : i \in 1..ended \/ i = ended + 1
  BY <1>2
<1>10. \A i \in 1..(ended + 1) : \A f \in FilesIn(i) : f \in Files /\ pc'[f] \in {"done", "failed"}
  <2>1. \A i \in 1..ended : i \in 1..n
    BY <1>2
  <2> QED BY <1>1, <1>5, <1>7, <1>8, <1>9, <2>1, FilesInAreFiles
<1>11. DoneFiles' = DoneFiles \cup Packed1
  <2> DEFINE Before == {g \in Files : pc[g] = "done" /\ \E i \in 1..ended : g \in FilesIn(i)}
        Now == {g \in ToSet(FilesOf[Current]) : pc[g] = "done"}
        After == {g \in Files : pc'[g] = "done" /\ \E i \in 1..(ended + 1) : g \in FilesIn(i)}
  <2>1. After = Before \cup Now
    <3>1. \A i \in 1..ended : i \in 1..(ended + 1)
      BY <1>2
    <3>2. ended + 1 \in 1..(ended + 1)
      BY <1>2
    <3> QED BY <1>5, <1>8, <1>9, <3>1, <3>2
  <2>2. DoneFiles = {<<f, content[f]>> : f \in Before}
    BY <1>6 DEF DoneFiles
  <2>3. DoneFiles' = {<<f, content[f]>> : f \in After}
    BY <1>1, <1>6, QueueSame DEF DoneFiles
  <2>4. Packed1 = {<<f, content[f]>> : f \in Now}
    OBVIOUS
  <2> HIDE DEF Before, Now, After, Packed1
  <2> QED BY <2>1, <2>2, <2>3, <2>4
<1> HIDE DEF Packed1
<1> DEFINE Part(i) == UNION {FilesUnder(c) : c \in Kids(i)}
<1>12. Gathered = UNION {Part(i) : i \in (ended + 1)..n}
  BY <1>6 DEF Gathered
<1>13. (ended + 1)..n = {ended + 1} \cup (ended + 2)..n
  BY <1>2
<1>14. CASE Current # Root
  <2>1. PICK j \in (ended + 2)..n : Parent(Current) = ProcessingQueue[j]
    BY <1>2, <1>14, ParentIsAhead DEF SnapInv
  <2>2. j \in 1..n /\ ProcessingQueue[j] \in Dirs /\ ended + 1 < n
    BY <1>2, <2>1, FilesInAreFiles
  <2>3. children' = [children EXCEPT ![ProcessingQueue[j]] = Append(@, tree[1])]
    BY <1>1, <1>14, <2>1
  <2> DEFINE KidsNext(i) == ToSet(children'[ProcessingQueue[i]])
  <2>4. ASSUME NEW i \in (ended + 2)..n
        PROVE  KidsNext(i) = IF i = j THEN Kids(i) \cup {tree[1]} ELSE Kids(i)
    <3>1. i \in 1..n /\ DOMAIN ProcessingQueue = 1..n
      BY <1>2, QueueTypes
    <3>2. ProcessingQueue[i] \in Dirs
      BY <3>1, FilesInAreFiles
    <3>3. CASE i = j
      <4>1. children'[ProcessingQueue[j]] = Append(children[ProcessingQueue[j]], tree[1])
        BY <1>4, <2>2, <2>3
      <4> QED BY <1>4, <2>2, <3>3, <4>1, AppendSeq
    <3>4. CASE i # j
      <4>1. ProcessingQueue[i] # ProcessingQueue[j]
        BY <2>2, <3>1, <3>4, QueueOrder DEF IsInjective
      <4> QED BY <1>4, <2>3, <3>2, <3>4, <4>1
    <3> QED BY <3>3, <3>4
  <2>5. Gathered' = UNION {UNION {FilesUnder(c) : c \in KidsNext(i)} : i \in (ended + 2)..n}
    BY <1>2, <1>6, QueueSame DEF Gathered
  <2> HIDE DEF KidsNext, Kids
  <2>6. ASSUME NEW i \in (ended + 2)..n
        PROVE  UNION {FilesUnder(c) : c \in KidsNext(i)} =
                 IF i = j THEN Part(i) \cup FilesUnder(tree[1]) ELSE Part(i)
    BY <2>4
  <2>7. Gathered' = Gathered \cup Packed1
    <3> DEFINE Rest == (ended + 2)..n
          PartNext(i) == UNION {FilesUnder(c) : c \in KidsNext(i)}
    <3>1. Gathered = UNION {Part(i) : i \in {ended + 1} \cup Rest}
      BY <1>12, <1>13
    <3>2. FilesUnder(tree[1]) = Part(ended + 1) \cup Packed1
      BY <1>3 DEF Kids
    <3>3. j \in Rest /\ \A i \in Rest : PartNext(i) = IF i = j THEN Part(i) \cup FilesUnder(tree[1]) ELSE Part(i)
      BY <2>6
    <3>4. Gathered' = UNION {PartNext(i) : i \in Rest}
      BY <2>5
    <3> HIDE DEF Rest, Part, PartNext
    <3> QED BY <3>1, <3>2, <3>3, <3>4
  <2> HIDE DEF n
  <2> QED BY <1>2, <1>5, <1>6, <1>7, <1>10, <1>11, <2>2, <2>7, QueueSame DEF TotalInv, n
<1>15. CASE Current = Root
  <2>1. ended + 1 = n
    BY <1>2, <1>15, RootIsLast DEF SnapInv
  <2>2. children'[Root] # <<>> /\ children'[Root][1] = tree[1]
    <3> DEFINE new == <<tree[1]>>
    <3>1. new # <<>> /\ new[1] = tree[1]
      OBVIOUS
    <3>2. children' = [children EXCEPT ![Root] = new]
      BY <1>1, <1>15
    <3> HIDE DEF new
    <3> QED BY <1>4, <3>1, <3>2, TreeAssumption
  <2>3. Gathered = Part(ended + 1)
    <3>1. (ended + 1)..n = {ended + 1}
      BY <1>2, <2>1
    <3> HIDE DEF Part
    <3> QED BY <1>12, <3>1
  <2>4. FilesUnder(children'[Root][1]) = DoneFiles'
    BY <1>3, <1>7, <1>11, <2>2, <2>3
  <2> HIDE DEF n
  <2> QED BY <1>2, <1>5, <1>6, <1>7, <1>10, <2>1, <2>2, <2>4, QueueSame DEF TotalInv, n
<1> QED BY <1>14, <1>15

\* What blobs are, and where the files are, is kept by every step.
LEMMA NextTotals == ASSUME SnapInv, [Next]_vars PROVE SoundInv' /\ TotalInv'
<1> USE DEF SnapInv
<1>1. CASE Start
  <2>1. SoundInv'
    <3>1. UNCHANGED <<index, queue, buf, batch, todo, children, lost, snapshots>>
      BY <1>1 DEF Start, disk, elsewhere
    <3> QED BY <3>1, NamedSame, SoundSame
  <2> QED BY <1>1, <2>1, StartTotal
<1>2. CASE Reset /\ UNCHANGED <<disk, snapshots>>
  <2>1. ~Active'
    BY <1>2, Constants DEF Reset, Active, Late, Busy
  <2> QED BY <1>2, <2>1, NotActiveTotal, ResetIsSound
<1>3. ASSUME NEW p \in Packers, PackerStep(p) PROVE SoundInv' /\ TotalInv'
  <2>1. CASE pc[p] # "sealLast"
    BY <1>3, <2>1, PackersMove, PackersAreSound, MovesAreTotal
  <2>2. CASE pc[p] = "sealLast"
    <3>1. p = Walker
      BY <2>2, Constants DEF Inv, TasksInv, FileStates, Busy
    <3>2. SealIndexFile(p)
      BY <1>3, <2>2 DEF PackerStep, CheckDuplicate, QueueBlob, TriggerWrite, TakeBlob, WriteDone,
                        SavePackfile, PushEntry, PackfileDone
    <3>3. SoundInv'
      <4>1. UNCHANGED <<queue, children, batch, lost, snapshots, todo>>
        BY <3>2 DEF SealIndexFile, elsewhere
      <4> QED BY <3>2, <4>1, NamedAtSeal, SoundSame
    <3>4. /\ pc' = [pc EXCEPT ![Walker] = "flushed"]
          /\ UNCHANGED <<todo, children, content, ended, aborting>>
      BY <2>2, <3>1, <3>2 DEF SealIndexFile, PackingInv
    <3> QED BY <2>2, <3>1, <3>3, <3>4, LateTotal DEF Late
  <2> QED BY <2>1, <2>2
<1>4. CASE WalkerStep
  <2>1. CASE SpawnTasks
    BY <2>1, SpawnTasksSound, SpawnTasksTotal
  <2>2. CASE JoinTasks
    BY <2>2, JoinTasksSound, JoinTasksTotal
  <2>3. CASE DirectoryDone
    BY <2>3, WalkerIsSound, DirectoryDoneTotal
  <2>4. CASE FlushIndex
    <3>1. /\ pc[Walker] = "index" /\ pc' = [pc EXCEPT ![Walker] = "sealLast"]
          /\ UNCHANGED <<todo, children, content, ended, aborting>>
      BY <2>4 DEF FlushIndex
    <3> QED BY <2>4, <3>1, WalkerIsSound, LateTotal DEF Late
  <2>5. CASE Packed
    <3>1. /\ pc[Walker] = "flushed" /\ UNCHANGED <<todo, children, content, ended, aborting>>
          /\ ~aborting => pc' = [pc EXCEPT ![Walker] = "sending"]
      BY <2>5 DEF Packed
    <3> QED BY <2>5, <3>1, WalkerIsSound, LateTotal, NotActiveTotal DEF Late
  <2>6. CASE BackupDone
    <3>1. pc'[Walker] = "reported"
      BY <2>6, Constants DEF BackupDone, Inv, PackingInv
    <3> QED BY <2>6, <3>1, WalkerIsSound, NotActiveTotal DEF Active, Late, Busy
  <2>7. CASE EndBackup
    BY <1>2, <2>7 DEF EndBackup
  <2> QED BY <1>4, <2>1, <2>2, <2>3, <2>4, <2>5, <2>6, <2>7 DEF WalkerStep
<1>5. CASE UNCHANGED <<disk, manager, packing, snapshots>> \/ UNCHANGED <<index, manager, packing, snapshots>>
  <2>1. UNCHANGED <<index, queue, buf, batch, snapshots>> /\ UNCHANGED packing
    BY <1>5 DEF disk, manager
  <2>2. UNCHANGED <<pc, todo, children, ended, aborting, content, lost>>
    BY <2>1 DEF packing
  <2>3. SoundInv'
    BY <2>1, <2>2, NamedSame, SoundSame
  <2>4. Active' = Active /\ Joins' = Joins /\ Through' = Through
    BY <2>2 DEF Active, Joins, Through
  <2>5. CASE Active /\ ~aborting
    <3>1. Through => ended = Len(ProcessingQueue)
      BY <2>5 DEF TotalInv
    <3> QED BY <2>2, <2>3, <2>4, <3>1, TotalSame
  <2>6. CASE ~(Active /\ ~aborting)
    BY <2>2, <2>3, <2>4, <2>6, NotActiveTotal
  <2> QED BY <2>5, <2>6
<1>6. CASE Errors
  <2>1. ASSUME NEW p \in Packers, WriteFails(p) PROVE SoundInv' /\ TotalInv'
    <3>1. CASE p = Walker
      <4>1. aborting'
        BY <2>1, <3>1 DEF WriteFails
      <4> QED BY <2>1, <4>1, ErrorsAreSound, NotActiveTotal
    <3>2. CASE p # Walker
      <4>1. /\ p \in Files /\ pc[p] \in Busy /\ pc' = [pc EXCEPT ![p] = "failed"]
            /\ todo' = [todo EXCEPT ![p] = <<>>]
            /\ UNCHANGED <<children, ended, aborting, content>>
        BY <2>1, <3>2, Constants DEF WriteFails, Busy
      <4> QED BY <2>1, <4>1, ErrorsAreSound, FileFailsTotal
    <3> QED BY <3>1, <3>2
  <2>2. ASSUME NEW f \in Files, ReadFails(f) PROVE SoundInv' /\ TotalInv'
    <3>1. /\ pc[f] \in Busy /\ pc' = [pc EXCEPT ![f] = "failed"] /\ todo' = [todo EXCEPT ![f] = <<>>]
          /\ UNCHANGED <<children, ended, aborting, content>>
      BY <2>2 DEF ReadFails, Busy
    <3> QED BY <2>2, <3>1, ErrorsAreSound, FileFailsTotal
  <2>3. CASE FlushFails
    <3>1. pc'[Walker] = "failed"
      BY <2>3, Constants DEF FlushFails, Inv, PackingInv
    <3> QED BY <2>3, <3>1, WalkerIsSound, NotActiveTotal DEF Active, Late, Busy
  <2>4. CASE StartFails
    BY <1>5, <2>4 DEF StartFails, elsewhere
  <2>5. ASSUME NEW k \in DOMAIN index, NEW q \in Peers, SendIndexFails(k, q)
        PROVE  SoundInv' /\ TotalInv'
    BY <1>5, <2>5 DEF SendIndexFails
  <2> QED BY <1>6, <2>1, <2>2, <2>3, <2>4, <2>5 DEF Errors
<1>7. CASE SenderStep
  <2>1. ASSUME NEW k \in DOMAIN index, SkipIndexFile(k) PROVE SoundInv' /\ TotalInv'
    BY <1>5, <2>1 DEF SkipIndexFile
  <2>2. ASSUME NEW k \in DOMAIN index, NEW q \in Peers, SendIndexFile(k, q)
        PROVE  SoundInv' /\ TotalInv'
    BY <1>5, <2>2 DEF SendIndexFile
  <2> QED BY <1>7, <2>1, <2>2 DEF SenderStep
<1>8. CASE Crash
  BY <1>2, <1>8 DEF Crash
<1>9. CASE UNCHANGED vars
  BY <1>5, <1>9 DEF vars, elsewhere
<1> QED BY <1>1, <1>3, <1>4, <1>6, <1>7, <1>8, <1>9 DEF Next

-----------------------------------------------------------------------------
(* Theorem.                                                                *)

LEMMA SnapInitInv == Init => SnapInv
<1> SUFFICES ASSUME Init PROVE SnapInv
  OBVIOUS
<1>1. Inv
  BY InitInv
<1>2. DOMAIN index = {}
  <2>1. DOMAIN <<>> = {}
    OBVIOUS
  <2> QED BY <2>1 DEF Init
<1>3. Entries(DOMAIN index) = {}
  BY <1>2 DEF Entries
<1>4. PackInv
  <2>1. Fresh
    BY <1>1, <1>3 DEF Init, Inv, AtRest, Fresh
  <2> QED BY <2>1, FreshPacks
<1>5. pc[Walker] = "idle" /\ snapshots = {} /\ highest = 0 /\ visited = {}
  BY Constants DEF Init
<1>6. SentInv /\ SnapshotInv
  BY <1>5 DEF SentInv, SnapshotInv, Resting
<1>7. SoundInv
  <2>1. Named = {} /\ LostTo = {}
    BY <1>3, <1>5 DEF Named, Names, LostTo, Init
  <2>2. ToAdd = {}
    BY ToSetSmall DEF ToAdd, Init
  <2>3. Blobs = {}
    BY <2>1, <2>2, ToSetSmall DEF Blobs, Init
  <2>4. \A d \in Dirs : ToSet(children[d]) = {}
    BY ToSetSmall DEF Init
  <2> QED BY <2>3, <2>4 DEF SoundInv
<1>8. TotalInv
  BY <1>5 DEF TotalInv, Active, Late, Busy
<1> QED BY <1>1, <1>4, <1>6, <1>7, <1>8 DEF SnapInv

\* The steps of the packers.
LEMMA PackersSnap ==
  ASSUME SnapInv, NEW p \in Packers, PackerStep(p) PROVE PackInv' /\ SentInv' /\ SnapshotInv'
<1>1. Inv /\ PackInv /\ SentInv /\ SnapshotInv
  BY DEF SnapInv
<1>2. PackInv'
  <2>1. CASE CheckDuplicate(p)
    BY <1>1, <2>1, CheckDuplicatePacks
  <2>2. CASE QueueBlob(p)
    BY <1>1, <2>2, QueueBlobPacks
  <2>3. CASE TriggerWrite(p)
    BY <1>1, <2>3, TriggerWritePacks
  <2>4. CASE WriteDone(p)
    BY <1>1, <2>4, WriteDonePacks
  <2>5. CASE TakeBlob(p) \/ SavePackfile(p) \/ PushEntry(p) \/ PackfileDone(p)
    BY <1>1, <2>5, InWritePacks
  <2>6. CASE SealIndexFile(p)
    <3>1. pc[p] = "seal" \/ pc[p] = "sealLast"
      BY <2>6 DEF SealIndexFile
    <3> QED BY <1>1, <2>6, <3>1, InWritePacks, SealLastPacks
  <2> QED BY <2>1, <2>2, <2>3, <2>4, <2>5, <2>6 DEF PackerStep
<1>3. pc[p] # "idle" /\ (p # Walker => ~Resting)
  <2>1. pc[p] \in Busy \cup {"sealLast"}
    BY DEF PackerStep, CheckDuplicate, QueueBlob, TriggerWrite, TakeBlob, WriteDone,
           SavePackfile, PushEntry, PackfileDone, SealIndexFile, Busy
  <2> QED BY <1>1, <2>1 DEF Inv, TasksInv, Busy
<1>4. ~Resting
  BY <1>3 DEF Resting
<1>5. CASE SealIndexFile(p)
  BY <1>1, <1>2, <1>5, SentAtSeal
<1>6. CASE PushEntry(p)
  <2>1. UNCHANGED <<highest, received, snapshots, lastNum, visited>>
    BY <1>6 DEF PushEntry, elsewhere
  <2>2. CASE index' = index
    <3>1. UNCHANGED <<index, highest, received, snapshots, lastNum, visited>>
      BY <2>1, <2>2
    <3> QED BY <1>1, <1>2, <1>4, <3>1, SentSame
  <2>3. CASE CreateIndexFile(buf')
    <3>1. PICK E : CreateIndexFile(E)
      BY <2>3 DEF CreateIndexFile
    <3> QED BY <1>1, <1>2, <1>4, <2>1, <3>1, SentAtCreate
  <2> QED BY <1>2, <1>6, <2>2, <2>3 DEF PushEntry
<1>7. CASE CheckDuplicate(p) \/ QueueBlob(p) \/ TriggerWrite(p) \/ TakeBlob(p) \/ WriteDone(p)
           \/ SavePackfile(p) \/ PackfileDone(p)
  <2>1. UNCHANGED <<index, highest, received, snapshots, lastNum, visited>>
    BY <1>7 DEF CheckDuplicate, QueueBlob, TriggerWrite, TakeBlob, WriteDone, SavePackfile,
                PackfileDone, disk, manager, elsewhere
  <2> QED BY <1>1, <1>2, <1>4, <2>1, SentSame
<1> QED BY <1>5, <1>6, <1>7 DEF PackerStep

\* The steps of the walker.
LEMMA WalkerSnap == ASSUME SnapInv, WalkerStep PROVE PackInv' /\ SentInv' /\ SnapshotInv'
<1>1. Inv /\ PackInv /\ SentInv /\ SnapshotInv
  BY DEF SnapInv
<1>2. CASE EndBackup
  BY <1>2, ResetPacks DEF EndBackup
<1>3. CASE BackupDone
  BY <1>1, <1>3, BackupDoneSnapshot, WalkerEndsPacks
<1>4. CASE FlushIndex
  <2>1. ~Resting /\ UNCHANGED <<highest, received, snapshots, lastNum, visited>> /\ CreateIndexFile(buf)
    BY <1>4 DEF FlushIndex, Resting, manager, elsewhere
  <2>2. PICK E : CreateIndexFile(E)
    BY <2>1
  <2>3. SentInv' /\ SnapshotInv'
    BY <1>1, <2>1, <2>2, SentAtCreate
  <2> QED BY <1>1, <1>4, <2>3, FlushIndexPacks
<1>5. CASE SpawnTasks \/ JoinTasks \/ DirectoryDone \/ Packed
  <2>1. ~Resting /\ UNCHANGED <<disk, lastNum, received, snapshots, visited>>
    BY <1>5 DEF SpawnTasks, JoinTasks, DirectoryDone, Packed, Resting, manager, elsewhere
  <2>2. SentInv' /\ SnapshotInv'
    BY <2>1, NothingSent
  <2> QED BY <1>1, <1>5, <2>2, SpawnTasksPacks, JoinTasksPacks, DirectoryDonePacks, PackedPacks
<1> QED BY <1>2, <1>3, <1>4, <1>5 DEF WalkerStep

\* The steps of the sender.
LEMMA SenderSnap ==
  ASSUME SnapInv, NEW k \in DOMAIN index,
         \/ SkipIndexFile(k)
         \/ \E q \in Peers : SendIndexFile(k, q) \/ SendIndexFails(k, q)
  PROVE  PackInv' /\ SentInv' /\ SnapshotInv'
<1>1. Inv /\ PackInv /\ SentInv /\ SnapshotInv /\ StageInv /\ highest \in Nat /\ k \in Nat
  BY DEF SnapInv, PackInv, Inv, ManagerInv, DiskInv, IsSeq
<1>2. CASE SkipIndexFile(k)
  <2>1. ~Resting /\ UNCHANGED <<index, manager, packing>>
    BY <1>2 DEF SkipIndexFile, Resting, disk
  <2> QED BY <1>1, <1>2, <2>1, PackSame, SentAtSkip
<1>3. ASSUME NEW q \in Peers, SendIndexFile(k, q) PROVE PackInv' /\ SentInv' /\ SnapshotInv'
  <2>1. /\ pc[Walker] = "sending" /\ ~Resting /\ UNCHANGED <<index, manager, packing, snapshots>>
        /\ highest < k /\ highest' = k /\ visited' = visited \cup {k}
        /\ received' = [received EXCEPT ![q] = @ \cup {k}]
    BY <1>1, <1>3 DEF SendIndexFile, Resting
  <2> QED BY <1>1, <2>1, PackSame, SentAtSend
<1>4. ASSUME NEW q \in Peers, SendIndexFails(k, q) PROVE PackInv' /\ SentInv' /\ SnapshotInv'
  <2>1. /\ pc[Walker] = "sending" /\ ~Resting /\ UNCHANGED <<index, manager, packing, snapshots>>
        /\ highest' = highest /\ visited' = {}
        /\ received' = [received EXCEPT ![q] = @ \cup {k}] \/ UNCHANGED received
    BY <1>4 DEF SendIndexFails, Resting, disk
  <2> QED BY <1>1, <2>1, PackSame, SentAtSend
<1> QED BY <1>2, <1>3, <1>4

\* Errors, but for those of the sender.
LEMMA ErrorsSnap ==
  ASSUME SnapInv,
         \/ \E p \in Packers : WriteFails(p)
         \/ \E f \in Files : ReadFails(f)
         \/ FlushFails \/ StartFails
  PROVE  PackInv' /\ SentInv' /\ SnapshotInv'
<1>1. Inv /\ PackInv
  BY DEF SnapInv
<1>2. ASSUME NEW p \in Packers, WriteFails(p) PROVE PackInv' /\ SentInv' /\ SnapshotInv'
  <2>1. pc[p] \in Busy /\ UNCHANGED <<disk, lastNum, received, snapshots, visited>>
    BY <1>2 DEF WriteFails, Busy, elsewhere
  <2>2. ~Resting
    BY <1>1, <2>1, Constants DEF Inv, TasksInv, Resting, Busy
  <2>3. PackInv'
    <3>1. CASE p = Walker
      BY <1>1, <1>2, <3>1, WalkerFailsPacks
    <3>2. CASE p # Walker
      <4>1. /\ p \in Files /\ pc' = [pc EXCEPT ![p] = "failed"] /\ todo' = [todo EXCEPT ![p] = <<>>]
            /\ UNCHANGED <<children, ended, aborting, content, queue, queued, items>>
        BY <1>2, <3>2, Constants DEF WriteFails
      <4> QED BY <1>1, <2>1, <4>1, FileFailsPacks
    <3> QED BY <3>1, <3>2
  <2> QED BY <2>1, <2>2, <2>3, NothingSent
<1>3. ASSUME NEW f \in Files, ReadFails(f) PROVE PackInv' /\ SentInv' /\ SnapshotInv'
  <2>1. /\ pc[f] \in Busy /\ UNCHANGED <<disk, lastNum, received, snapshots, visited>>
        /\ pc' = [pc EXCEPT ![f] = "failed"] /\ todo' = [todo EXCEPT ![f] = <<>>]
        /\ UNCHANGED <<children, ended, aborting, content, queue, queued, items>>
    BY <1>3 DEF ReadFails, Busy, manager, elsewhere
  <2>2. ~Resting
    BY <1>1, <2>1, Constants DEF Inv, TasksInv, Resting, Busy
  <2> QED BY <1>1, <2>1, <2>2, FileFailsPacks, NothingSent
<1>4. CASE FlushFails
  <2>1. ~Resting /\ UNCHANGED <<disk, lastNum, received, snapshots, visited>>
    BY <1>4 DEF FlushFails, Resting, manager, elsewhere
  <2> QED BY <1>1, <1>4, <2>1, WalkerEndsPacks, NothingSent
<1>5. CASE StartFails
  <2>1. UNCHANGED <<disk, manager, packing, elsewhere>>
    BY <1>5 DEF StartFails
  <2>2. /\ UNCHANGED <<index, lastNum, received, snapshots, visited>> /\ Resting' = Resting
    BY <2>1 DEF disk, manager, packing, elsewhere, Resting
  <2> QED BY <1>1, <2>1, <2>2, PackSame, NothingSent
<1> QED BY <1>2, <1>3, <1>4, <1>5

LEMMA SnapNextKeeps == SnapInv /\ [Next]_vars => SnapInv'
<1> SUFFICES ASSUME SnapInv, [Next]_vars PROVE SnapInv'
  OBVIOUS
<1>1. Inv' /\ SoundInv' /\ TotalInv'
  BY NextKeeps, NextTotals DEF SnapInv
<1> SUFFICES PackInv' /\ SentInv' /\ SnapshotInv'
  BY <1>1 DEF SnapInv
<1>2. CASE Start
  BY <1>2, StartPacks, StartKeepsSent DEF SnapInv
<1>3. CASE Crash
  BY <1>3, ResetPacks DEF Crash
<1>4. CASE Errors
  <2>1. CASE \E k \in DOMAIN index, q \in Peers : SendIndexFails(k, q)
    BY <2>1, SenderSnap
  <2> QED BY <1>4, <2>1, ErrorsSnap DEF Errors
<1>5. CASE WalkerStep
  BY <1>5, WalkerSnap
<1>6. CASE SenderStep
  BY <1>6, SenderSnap DEF SenderStep
<1>7. CASE \E p \in Packers : PackerStep(p)
  BY <1>7, PackersSnap
<1>8. CASE UNCHANGED vars
  <2>1. UNCHANGED <<disk, manager, packing, elsewhere>>
    BY <1>8 DEF vars
  <2>2. UNCHANGED <<index, lastNum, received, snapshots, visited>> /\ Resting' = Resting
    BY <2>1 DEF disk, manager, packing, elsewhere, Resting
  <2>3. PackInv'
    BY <2>1, <2>2, PackSame DEF SnapInv
  <2> QED BY <2>1, <2>2, <2>3, NothingSent
<1> QED BY <1>2, <1>3, <1>4, <1>5, <1>6, <1>7, <1>8 DEF Next

\* What the index names is in the packfile it names, and is as a blob should be.
LEMMA StoredIsNamed ==
  ASSUME SnapInv
  PROVE  /\ Stored(Entries(Counted)) = Names(Entries(Counted))
         /\ \A b \in Names(Entries(Counted)) : Sound(b)
<1>1. Entries(Counted) \subseteq Entries(DOMAIN index)
  BY CountedAreThere DEF SnapInv, Entries
<1>2. \A e \in Entries(Counted) : e[1] \in packfiles[e[2]].blobs
  BY <1>1 DEF SnapInv, Inv, EntriesInv
<1>3. Stored(Entries(Counted)) = Names(Entries(Counted))
  BY <1>2 DEF Stored, Names
<1>4. Names(Entries(Counted)) \subseteq Blobs
  BY <1>1, BlobsAre DEF Named, Names
<1> QED BY <1>3, <1>4 DEF SnapInv, SoundInv

\* The invariant holds of every state.
THEOREM SnapshotsInvariant == Spec => []SnapInv
BY SnapInitInv, SnapNextKeeps, PTL DEF Spec

\* Whatever files have failed, whoever crashed and whatever was sent twice: the index
\* files that peers hold, but for those that were overtaken, name a packfile that
\* has it for every blob of every snapshot the server knows, unless the write that
\* had it in hand has failed.
THEOREM SnapshotsAreStored == Spec => []SnapshotStored
<1>1. SnapInv => SnapshotStored
  <2> SUFFICES ASSUME SnapInv, NEW s \in snapshots
               PROVE  LET found == Stored(Entries(Counted)) \cup s.lost
                      IN s.root \in found /\ Complete(found)[s.root]
    BY DEF SnapshotStored, Counted
  <2> DEFINE found == Stored(Entries(Counted)) \cup s.lost
  <2>1. PICK C : /\ C \subseteq Names(Entries(Counted)) \cup s.lost /\ Closed(C)
                 /\ s.root \in Trees(C) /\ FilesUnder(s.root) = s.files
    BY DEF SnapInv, SnapshotInv, Counted, Covers
  <2>2. Stored(Entries(Counted)) = Names(Entries(Counted)) /\ \A b \in found : Sound(b)
    BY StoredIsNamed, BlobsAre DEF SnapInv, SoundInv
  <2> HIDE DEF found
  <2>3. C \subseteq found /\ s.root \in C
    BY <2>1, <2>2 DEF found, Trees
  <2>4. Complete(found)[s.root]
    BY <2>1, <2>2, <2>3, ClosedIsComplete
  <2> QED BY <2>3, <2>4 DEF found
<1> QED BY <1>1, SnapshotsInvariant, PTL

\* A snapshot that lost nothing and whose index files were not overtaken is, read
\* back from what the peers hold, what was packed: unpack comes across no tree that
\* is missing, and leaves every file that was done, with its chunks in order, and
\* nothing else, however trees were split into siblings and blobs shared.
THEOREM RestoredIsPacked == Spec => []RestoreExact
<1>1. SnapInv => RestoreExact
  <2> SUFFICES ASSUME SnapInv, AllWhole, Overtaken = {}, NEW s \in snapshots, s.lost = {}
               PROVE  Unpack(s.root, Readable(Entries(AllSent))) = [ok |-> TRUE, files |-> s.files]
    BY DEF RestoreExact
  <2> DEFINE found == Readable(Entries(AllSent))
  <2>1. PICK C : /\ C \subseteq Names(Entries(Counted)) \cup s.lost /\ Closed(C)
                 /\ s.root \in Trees(C) /\ FilesUnder(s.root) = s.files
    BY DEF SnapInv, SnapshotInv, Counted, Covers
  <2>2. Counted = AllSent
    BY DEF Counted
  <2>3. \A e \in Entries(Counted) : packfiles[e[2]].whole
    BY CountedAreThere DEF SnapInv, Inv, DiskInv, IsEntry, Entries, AllWhole
  <2>4. found = Stored(Entries(Counted))
    BY <2>2, <2>3 DEF Readable, Stored
  <2>5. Stored(Entries(Counted)) = Names(Entries(Counted)) /\ \A b \in found : Sound(b)
    BY <2>4, StoredIsNamed DEF SnapInv, SoundInv
  <2> HIDE DEF found
  <2>6. C \subseteq found
    BY <2>1, <2>4, <2>5
  <2>7. Unpack(s.root, found) = [ok |-> TRUE, files |-> FilesUnder(s.root)]
    BY <2>1, <2>5, <2>6, ClosedUnpacks
  <2> QED BY <2>1, <2>7 DEF found
<1> QED BY <1>1, SnapshotsInvariant, PTL

=============================================================================
