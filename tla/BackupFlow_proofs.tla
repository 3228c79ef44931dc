-------------------------- MODULE BackupFlow_proofs --------------------------
(***************************************************************************)
(* Proofs about BackupFlow, for any files, limits and faults.              *)
(***************************************************************************)
EXTENDS BackupFlow, TLAPS

-----------------------------------------------------------------------------
(* The inductive invariant, in five parts.                                 *)

\* Values that are not the packers'.
SenderTypes ==
  /\ paused \in BOOLEAN /\ completed \in BOOLEAN /\ connected \in BOOLEAN
  /\ packfilesDone \in BOOLEAN
  /\ written \in Nat /\ sent \in Nat /\ matched \in Nat /\ size \in Nat
  /\ quota \in Nat /\ errors \in Nat
  /\ spc \in {"start", "top", "read", "connect", "decide", "scan", "remove",
              "resume", "wake", "ended", "index", "done", "failed"}
  /\ last \in Readings /\ current \in Readings
  /\ outcome \in {"none", "ok", "failed"}

\* Steps of a task, and of the walker.
TaskSteps == {"idle", "add", "report", "check", "subscribe", "asleep", "done"}
WalkerSteps ==
  {"add", "report", "check", "subscribe", "asleep", "join", "flush", "abort", "complete",
   "done", "failed"}

\* Who is about to add a blob has one.
PackersInv ==
  /\ listeners \subseteq Packers
  /\ pc \in [Packers -> TaskSteps \cup WalkerSteps]
  /\ work \in [Packers -> Nat] /\ report \in [Packers -> Nat]
  /\ pc[Walker] \in WalkerSteps /\ \A t \in Tasks : pc[t] \in TaskSteps
  /\ \A p \in Packers : pc[p] \in {"idle", "add", "join"} => work[p] > 0

\* Nobody reports more than was written.
CountedInv == written <= size /\ \A p \in Packers : report[p] <= size

\* A packfile that was deleted while it is written is counted as sent and has yet to be
\* counted as written; one that was sent and is about to be deleted is still there.
Lost == IF open = "gone" THEN 1 ELSE 0
Twice == IF held \in {"open", "whole"} THEN 1 ELSE 0

\* What was written is in the folder, counted as sent or missed.
FilesInv ==
  /\ folder \in Nat /\ short \in Nat /\ writing \subseteq Packers
  /\ open \in {"none", "partial", "whole", "gone"}
  /\ held \in {"none", "open", "whole", "empty"}
  /\ writing # {} => open # "none"
  /\ held = "open" => open \in {"partial", "whole"}
  /\ held = "whole" => folder > 0
  /\ size + Lost + Twice <= folder + sent + short

\* The walker is past the join: every file is done.
TasksDone == \A t \in Tasks : pc[t] = "done"
Joined ==
  \/ work[Walker] = 0
  \/ pc[Walker] \in {"add", "flush", "abort", "complete", "done"}

\* Nothing is written after packing is completed, and the sender takes note of that
\* only when nothing is left.
EndInv ==
  /\ Joined => TasksDone
  /\ completed => pc[Walker] = "done"
  /\ packfilesDone => completed /\ folder = 0
  /\ spc \in {"scan", "remove", "resume", "wake", "ended"} => ~packfilesDone
  /\ spc \in {"index", "done"} => packfilesDone

Inv == SenderTypes /\ PackersInv /\ CountedInv /\ FilesInv /\ EndInv

LEMMA InvIsTypeOK == Inv => TypeOK
<1> SUFFICES ASSUME Inv PROVE TypeOK
  OBVIOUS
<1>1. pc \in [Packers -> {"idle", "add", "report", "check", "subscribe", "asleep",
                          "join", "flush", "abort", "complete", "done", "failed"}]
  BY DEF Inv, PackersInv, TaskSteps, WalkerSteps
<1> QED BY <1>1 DEF Inv, SenderTypes, PackersInv, FilesInv, TypeOK

LEMMA InitInv == Init => Inv
<1> SUFFICES ASSUME Init PROVE Inv
  OBVIOUS
<1>0. Tasks \subseteq Packers /\ Walker \in Packers /\ Walker \notin Tasks
  BY TasksAssumption DEF Packers
<1>1. size \in Nat /\ folder = size
  BY BoundsAssumption DEF Init
<1>2. SenderTypes
  BY <1>1 DEF Init, SenderTypes, Readings
<1>3. PackersInv
  BY <1>0, BlobsAssumption DEF Init, PackersInv, TaskSteps, WalkerSteps, Packers
<1>4. CountedInv /\ FilesInv
  BY <1>1 DEF Init, CountedInv, FilesInv, Lost, Twice
<1>5. EndInv
  BY <1>0 DEF Init, EndInv, Joined
<1> QED BY <1>2, <1>3, <1>4, <1>5 DEF Inv

-----------------------------------------------------------------------------
(* The packers.                                                            *)

LEMMA WhoIsWho == Tasks \subseteq Packers /\ Walker \in Packers \ Tasks
BY TasksAssumption DEF Packers

\* A task that is not done goes on: the walker has not joined it.
LEMMA TaskMoves ==
  ASSUME Inv, NEW t \in Tasks, pc[t] # "done", NEW s \in TaskSteps,
         pc' = [pc EXCEPT ![t] = s],
         work' \in [Packers -> Nat], \A p \in Packers \ {t} : work'[p] = work[p],
         s \in {"idle", "add"} => work'[t] > 0,
         report' \in [Packers -> Nat], listeners' \subseteq Packers,
         UNCHANGED <<completed, spc, packfilesDone>>
  PROVE  PackersInv' /\ EndInv'
<1> USE WhoIsWho DEF Inv
<1>1. ~Joined /\ ~completed /\ ~packfilesDone
  BY DEF EndInv, Joined, TasksDone
<1>2. pc'[Walker] = pc[Walker] /\ work'[Walker] = work[Walker]
  BY DEF PackersInv
<1>3. PackersInv'
  BY <1>2 DEF PackersInv, TaskSteps
<1>4. EndInv'
  BY <1>1, <1>2 DEF EndInv, Joined
<1> QED BY <1>3, <1>4

\* The walker goes on.
LEMMA WalkerMoves ==
  ASSUME Inv, NEW s \in WalkerSteps, pc' = [pc EXCEPT ![Walker] = s],
         work' \in [Packers -> Nat], \A t \in Tasks : work'[t] = work[t],
         s \in {"add", "join"} => work'[Walker] > 0,
         work'[Walker] = 0 \/ s \in {"add", "flush", "abort", "complete", "done"} => TasksDone,
         pc[Walker] # "done", completed' => s = "done",
         report' \in [Packers -> Nat], listeners' \subseteq Packers,
         UNCHANGED <<spc, packfilesDone>>
  PROVE  PackersInv' /\ EndInv'
<1> USE WhoIsWho DEF Inv
<1>1. ~completed /\ ~packfilesDone
  BY DEF EndInv
<1>2. pc'[Walker] = s /\ \A t \in Tasks : pc'[t] = pc[t]
  BY DEF PackersInv
<1>3. PackersInv'
  BY <1>2 DEF PackersInv, WalkerSteps, Packers
<1>4. TasksDone' = TasksDone
  BY <1>2 DEF TasksDone
<1>5. EndInv'
  BY <1>1, <1>2, <1>4 DEF EndInv, Joined
<1> QED BY <1>3, <1>5

\* The walker spawns a task and goes on to the next one, or to the join.
LEMMA WalkerSpawns ==
  ASSUME Inv, NEW t \in Tasks, pc[t] = "idle", NEW s \in {"check", "join"},
         pc' = [pc EXCEPT ![t] = "add", ![Walker] = s], work[Walker] > 0,
         UNCHANGED <<work, completed, spc, packfilesDone>>,
         report' \in [Packers -> Nat], listeners' \subseteq Packers
  PROVE  PackersInv' /\ EndInv'
<1> USE WhoIsWho DEF Inv
<1>1. ~Joined /\ ~completed /\ ~packfilesDone
  BY DEF EndInv, Joined, TasksDone
<1>2. /\ pc'[Walker] = s /\ pc'[t] = "add"
      /\ \A u \in Tasks \ {t} : pc'[u] = pc[u]
      /\ pc' \in [Packers -> TaskSteps \cup WalkerSteps]
  BY DEF PackersInv, TaskSteps, WalkerSteps
<1>3. PackersInv'
  BY <1>2 DEF PackersInv, TaskSteps, WalkerSteps, Packers
<1>4. EndInv'
  BY <1>1, <1>2 DEF EndInv, Joined, PackersInv
<1> QED BY <1>3, <1>4

\* A packer goes on after a blob, or after it was let through.
LEMMA Proceeds ==
  ASSUME Inv, NEW p \in Packers, pc[p] \in {"add", "report", "check", "asleep"},
         work' = work \/ (pc[p] = "add" /\ work' = [work EXCEPT ![p] = @ - 1]),
         Proceed(p, work'[p]),
         report' \in [Packers -> Nat], listeners' \subseteq Packers,
         UNCHANGED <<completed, spc, packfilesDone>>
  PROVE  PackersInv' /\ EndInv'
<1> USE WhoIsWho
<1>1. /\ work' \in [Packers -> Nat] /\ \A q \in Packers \ {p} : work'[q] = work[q]
      /\ work[p] = 0 => work'[p] = 0
  BY DEF Inv, PackersInv
<1>2. CASE p \in Tasks
  <2>1. PICK s \in {"add", "done"} :
          pc' = [pc EXCEPT ![p] = s] /\ (s = "add" => work'[p] > 0)
    BY <1>2 DEF Proceed
  <2> QED BY <1>1, <1>2, <2>1, TaskMoves DEF TaskSteps
<1>3. CASE p = Walker /\ work'[p] = 0
  <2>1. pc' = [pc EXCEPT ![Walker] = "flush"]
    BY <1>3 DEF Proceed
  <2>2. TasksDone
    BY <1>3 DEF Inv, EndInv, Joined
  <2>3. ~completed
    BY <1>3 DEF Inv, EndInv
  <2> QED BY <1>1, <1>3, <2>1, <2>2, <2>3, WalkerMoves DEF WalkerSteps
<1>4. CASE p = Walker /\ work'[p] > 0
  <2>1. PICK t \in Waiting, s \in {"check", "join"} :
          pc' = [pc EXCEPT ![t] = "add", ![Walker] = s]
    BY <1>4 DEF Proceed
  <2>2. t \in Tasks /\ pc[t] = "idle"
    BY DEF Waiting
  <2>3. ~Joined
    BY <2>2 DEF Inv, EndInv, TasksDone
  <2>4. work' = work
    BY <1>4, <2>3 DEF Joined
  <2> QED BY <1>4, <2>1, <2>2, <2>4, WalkerSpawns
<1> QED BY <1>1, <1>2, <1>3, <1>4 DEF Packers

\* What a packer's step leaves alone.
LEMMA SameSender ==
  ASSUME Inv, UNCHANGED <<paused, completed, written, sent, matched, size, files, report,
                          sender, outcome>>
  PROVE  SenderTypes' /\ CountedInv' /\ FilesInv'
BY DEF Inv, SenderTypes, CountedInv, FilesInv, Lost, Twice, files, sender

LEMMA QueueBlobInv ==
  ASSUME Inv, NEW p \in Packers, QueueBlob(p)
  PROVE  Inv'
<1>1. /\ pc[p] = "add" /\ work' = [work EXCEPT ![p] = @ - 1] /\ Proceed(p, work[p] - 1)
      /\ UNCHANGED <<orchestrator, files, size, report, sender, outcome>>
  BY Zenon DEF QueueBlob
<1>2. work'[p] = work[p] - 1 /\ report \in [Packers -> Nat] /\ listeners \subseteq Packers
  BY <1>1 DEF Inv, PackersInv
<1>3. PackersInv' /\ EndInv'
  BY <1>1, <1>2, Proceeds DEF orchestrator, sender
<1> QED BY <1>1, <1>3, SameSender DEF Inv, orchestrator

\* A packfile is begun, and written.
LEMMA WriteInv ==
  ASSUME Inv, NEW p \in Packers, CreatePackfile(p) \/ FillPackfile(p)
  PROVE  Inv'
<1>1. /\ UNCHANGED <<orchestrator, folder, held, short, packers, sender, outcome>>
      /\ \/ writing' = {p} /\ open' = "partial" /\ writing = {}
         \/ writing' = writing /\ open = "partial" /\ open' = "whole"
  BY DEF CreatePackfile, FillPackfile
<1>2. SenderTypes' /\ PackersInv' /\ CountedInv' /\ EndInv'
  BY <1>1 DEF Inv, SenderTypes, PackersInv, CountedInv, EndInv, Joined, TasksDone,
     orchestrator, packers, sender
<1>3. FilesInv'
  BY <1>1 DEF Inv, FilesInv, Lost, Twice, SenderTypes, orchestrator, packers
<1> QED BY <1>2, <1>3 DEF Inv

\* A packfile is closed, whole and counted, or else as it is.
LEMMA Closes ==
  ASSUME Inv, ClosePackfile, writing # {}, UNCHANGED sent,
         size' = size \/ (size' = size + 1 /\ open # "partial")
  PROVE  FilesInv' /\ size' \in Nat /\ size <= size'
<1>1. /\ writing' = {} /\ open' = "none" /\ short' = short
      /\ folder' = IF open = "whole" THEN folder + 1 ELSE folder
  BY DEF ClosePackfile
<1>2. held' = IF held # "open" THEN held ELSE IF open = "whole" THEN "whole" ELSE "empty"
  BY DEF ClosePackfile
<1>3. size \in Nat /\ sent \in Nat /\ folder \in Nat /\ short \in Nat
  BY DEF Inv, SenderTypes, FilesInv
<1> QED BY <1>1, <1>2, <1>3 DEF Inv, FilesInv, Lost, Twice

LEMMA CountPackfileInv ==
  ASSUME Inv, NEW p \in Packers, CountPackfile(p)
  PROVE  Inv'
<1> USE WhoIsWho
<1>1. /\ pc[p] = "add" /\ work' = [work EXCEPT ![p] = @ - 1]
      /\ p \in writing /\ open # "partial" /\ ClosePackfile /\ size' = size + 1
      /\ UNCHANGED <<orchestrator, sender, outcome>>
  BY DEF CountPackfile
<1>2. PICK s \in {"check", "report"} : pc' = [pc EXCEPT ![p] = s]
  BY DEF CountPackfile
<1>3. report' = report \/ report' = [report EXCEPT ![p] = size']
  BY DEF CountPackfile
<1>4. /\ work' \in [Packers -> Nat] /\ \A q \in Packers \ {p} : work'[q] = work[q]
      /\ size \in Nat /\ written \in Nat /\ report \in [Packers -> Nat]
  BY <1>1 DEF Inv, SenderTypes, PackersInv
<1>5. report' \in [Packers -> Nat] /\ \A q \in Packers : report'[q] \in {report[q], size'}
  BY <1>1, <1>3, <1>4
<1>6. SenderTypes'
  BY <1>1, <1>4 DEF Inv, SenderTypes, orchestrator, sender
<1>7. CountedInv'
  BY <1>1, <1>4, <1>5 DEF Inv, CountedInv, orchestrator, sender
<1>8. FilesInv'
  BY <1>1, Closes DEF orchestrator
<1>9. listeners' \subseteq Packers /\ UNCHANGED <<completed, spc, packfilesDone>>
  BY <1>1 DEF Inv, PackersInv, orchestrator, sender
<1>10. CASE p \in Tasks
  BY <1>1, <1>2, <1>4, <1>5, <1>6, <1>7, <1>8, <1>9, <1>10, TaskMoves DEF Inv, TaskSteps
<1>11. CASE p = Walker
  <2>1. TasksDone /\ ~completed
    BY <1>1, <1>11 DEF Inv, EndInv, Joined
  <2> QED BY <1>1, <1>2, <1>4, <1>5, <1>6, <1>7, <1>8, <1>9, <1>11, <2>1, WalkerMoves
          DEF Inv, WalkerSteps
<1> QED BY <1>10, <1>11 DEF Packers

LEMMA ReportInv ==
  ASSUME Inv, NEW p \in Packers, Report(p)
  PROVE  Inv'
<1>1. /\ pc[p] = "report" /\ written' = report[p] /\ report' = [report EXCEPT ![p] = 0]
      /\ Proceed(p, work[p])
      /\ UNCHANGED <<paused, listeners, sent, completed, matched, files, size, work, sender,
                     outcome>>
  BY Zenon DEF Report
<1>2. /\ report \in [Packers -> Nat] /\ report' \in [Packers -> Nat]
      /\ \A q \in Packers : report'[q] \in {report[q], 0}
      /\ listeners \subseteq Packers
  BY <1>1 DEF Inv, PackersInv
<1>3. PackersInv' /\ EndInv'
  BY <1>1, <1>2, Proceeds DEF sender
<1>4. SenderTypes'
  BY <1>1, <1>2 DEF Inv, SenderTypes, sender
<1>5. CountedInv' /\ FilesInv'
  BY <1>1, <1>2 DEF Inv, SenderTypes, CountedInv, FilesInv, Lost, Twice, files, sender
<1> QED BY <1>3, <1>4, <1>5 DEF Inv

LEMMA SleepInv ==
  ASSUME Inv, NEW p \in Packers, CheckPaused(p) \/ SubscribeToResume(p) \/ WakeUp(p)
  PROVE  Inv'
<1> USE WhoIsWho
<1>1. /\ UNCHANGED <<paused, written, sent, completed, matched, files, size, work, report, sender,
                     outcome>>
      /\ pc[p] \in {"check", "subscribe", "asleep"}
      /\ listeners' \in {listeners, listeners \cup {p}}
  BY DEF CheckPaused, SubscribeToResume, WakeUp, orchestrator
<1>2. /\ work \in [Packers -> Nat] /\ report \in [Packers -> Nat] /\ listeners' \subseteq Packers
      /\ UNCHANGED <<spc, packfilesDone>>
  BY <1>1 DEF Inv, PackersInv, sender
<1>3. CASE pc[p] # "subscribe" /\ Proceed(p, work[p])
  <2>1. PackersInv' /\ EndInv'
    BY <1>1, <1>2, <1>3, Proceeds DEF sender
  <2> QED BY <1>1, <2>1, SameSender DEF Inv, sender
<1>4. CASE \E s \in {"subscribe", "asleep"} : pc' = [pc EXCEPT ![p] = s]
  <2>1. PICK s \in {"subscribe", "asleep"} : pc' = [pc EXCEPT ![p] = s]
    BY <1>4
  <2>2. CASE p \in Tasks
    <3>1. PackersInv' /\ EndInv'
      BY <1>1, <1>2, <2>1, <2>2, TaskMoves DEF TaskSteps
    <3> QED BY <1>1, <3>1, SameSender DEF Inv
  <2>3. CASE p = Walker
    <3>1. (work[Walker] = 0 => TasksDone) /\ ~completed
      BY <1>1, <2>3 DEF Inv, EndInv, Joined
    <3>2. PackersInv' /\ EndInv'
      BY <1>1, <1>2, <2>1, <2>3, <3>1, WalkerMoves DEF WalkerSteps
    <3> QED BY <1>1, <3>2, SameSender DEF Inv
  <2> QED BY <2>2, <2>3 DEF Packers
<1> QED BY <1>3, <1>4 DEF CheckPaused, SubscribeToResume, WakeUp

LEMMA WalkerEndInv ==
  ASSUME Inv, WalkerEnd
  PROVE  Inv'
<1> USE WhoIsWho
<1>1. /\ UNCHANGED <<paused, listeners, written, sent, matched, work, report, sender, outcome>>
      /\ pc[Walker] \in {"join", "flush", "abort", "complete"}
  BY DEF WalkerEnd, Join, Flush, CompletePacking, orchestrator
<1>2. /\ work \in [Packers -> Nat] /\ report \in [Packers -> Nat] /\ listeners \subseteq Packers
      /\ pc \in [Packers -> TaskSteps \cup WalkerSteps]
      /\ UNCHANGED <<spc, packfilesDone>>
      /\ size \in Nat /\ sent \in Nat /\ written \in Nat
  BY <1>1 DEF Inv, PackersInv, SenderTypes, sender
<1>3. ~completed
  BY <1>1 DEF Inv, EndInv
<1>4. CASE Join
  <2>1. pc' = [pc EXCEPT ![Walker] = "add"] /\ TasksDone /\ work[Walker] > 0
        /\ UNCHANGED <<completed, size, files>>
    BY <1>4 DEF Join, TasksDone, Inv, PackersInv, orchestrator
  <2>2. PackersInv' /\ EndInv'
    BY <1>1, <1>2, <1>3, <2>1, WalkerMoves DEF WalkerSteps
  <2> QED BY <1>1, <2>1, <2>2, SameSender DEF Inv
<1>5. CASE Flush
  <2>1. /\ \/ UNCHANGED <<files, size>>
           \/ Walker \in writing /\ open # "partial" /\ ClosePackfile /\ size' = size + 1
        /\ pc[Walker] \in {"flush", "abort"} /\ UNCHANGED completed
    BY <1>5 DEF Flush, orchestrator
  <2>2. PICK s \in {"complete", "failed"} : pc' = [pc EXCEPT ![Walker] = s]
    BY <1>2, <1>5 DEF Flush
  <2>3. TasksDone
    BY <2>1 DEF Inv, EndInv, Joined
  <2>4. PackersInv' /\ EndInv'
    BY <1>1, <1>2, <1>3, <2>1, <2>2, <2>3, WalkerMoves DEF WalkerSteps
  <2>5. SenderTypes' /\ CountedInv'
    BY <1>1, <1>2, <2>1 DEF Inv, SenderTypes, CountedInv, sender
  <2>6. FilesInv'
    <3>1. CASE UNCHANGED <<files, size>>
      BY <1>1, <3>1 DEF Inv, FilesInv, Lost, Twice, files
    <3> QED BY <1>1, <2>1, <3>1, Closes
  <2> QED BY <2>4, <2>5, <2>6 DEF Inv
<1>6. CASE CompletePacking
  <2>1. /\ pc' = [pc EXCEPT ![Walker] = "done"] /\ completed' = TRUE
        /\ pc[Walker] = "complete" /\ UNCHANGED <<size, files>>
    BY <1>6 DEF CompletePacking
  <2>2. TasksDone
    BY <2>1 DEF Inv, EndInv, Joined
  <2>3. PackersInv' /\ EndInv'
    BY <1>1, <1>2, <2>1, <2>2, WalkerMoves DEF WalkerSteps
  <2>4. SenderTypes' /\ CountedInv' /\ FilesInv'
    BY <1>1, <1>2, <2>1 DEF Inv, SenderTypes, CountedInv, FilesInv, Lost, Twice, files, sender
  <2> QED BY <2>3, <2>4 DEF Inv
<1> QED BY <1>4, <1>5, <1>6 DEF WalkerEnd

LEMMA PackerFailsInv ==
  ASSUME Inv, NEW p \in Packers, PackerFails(p)
  PROVE  Inv'
<1> USE WhoIsWho
<1>1. /\ UNCHANGED <<orchestrator, size, work, report, spc, connected, last, current, quota,
                     packfilesDone, outcome>>
      /\ errors' = errors + 1
      /\ UNCHANGED files \/ (p \in writing /\ ClosePackfile)
      /\ pc[p] \in {"add", "flush", "abort"}
  BY DEF PackerFails
<1>2. PICK s \in {"done", "abort", "failed"} :
        /\ pc' = [pc EXCEPT ![p] = s]
        /\ p \in Tasks => s = "done"
        /\ p = Walker => s # "done" /\ (s = "abort" => pc[p] = "add")
  BY DEF PackerFails
<1>3. /\ work' = work /\ work' \in [Packers -> Nat] /\ report' \in [Packers -> Nat]
      /\ listeners' \subseteq Packers /\ UNCHANGED <<spc, packfilesDone, completed>>
  BY <1>1 DEF Inv, PackersInv, orchestrator
<1>4. PackersInv' /\ EndInv'
  <2>1. CASE p \in Tasks
    BY <1>1, <1>2, <1>3, <2>1, TaskMoves DEF TaskSteps
  <2>2. CASE p = Walker
    <3>1. TasksDone /\ ~completed
      BY <1>1, <2>2 DEF Inv, EndInv, Joined
    <3> QED BY <1>1, <1>2, <1>3, <2>2, <3>1, WalkerMoves DEF WalkerSteps
  <2> QED BY <2>1, <2>2 DEF Packers
<1>5. SenderTypes' /\ CountedInv'
  BY <1>1 DEF Inv, SenderTypes, CountedInv, orchestrator
<1>6. FilesInv'
  <2>1. CASE UNCHANGED files
    BY <1>1, <2>1 DEF Inv, FilesInv, Lost, Twice, files, orchestrator
  <2> QED BY <1>1, <2>1, Closes DEF orchestrator
<1> QED BY <1>4, <1>5, <1>6 DEF Inv

-----------------------------------------------------------------------------
(* The sender, and the rest.                                               *)

\* The sender goes on; only RemovePackfile takes anything out of the folder.
LEMMA SenderMoves ==
  ASSUME Inv, UNCHANGED <<packers, written, completed, outcome>>,
         FilesInv', sent' \in Nat, folder = 0 => folder' = 0,
         matched' \in Nat /\ quota' \in Nat /\ errors' \in Nat,
         paused' \in BOOLEAN /\ connected' \in BOOLEAN /\ packfilesDone' \in BOOLEAN,
         spc' \in {"start", "top", "read", "connect", "decide", "scan", "remove",
                   "resume", "wake", "ended", "index", "done", "failed"},
         last' \in Readings /\ current' \in Readings,
         listeners' \subseteq Packers,
         packfilesDone' => completed /\ folder' = 0,
         spc' \in {"scan", "remove", "resume", "wake", "ended"} => ~packfilesDone',
         spc' \in {"index", "done"} => packfilesDone'
  PROVE  Inv'
<1>1. SenderTypes'
  BY DEF Inv, SenderTypes, packers
<1>2. PackersInv'
  BY DEF Inv, PackersInv, packers
<1>3. CountedInv'
  BY DEF Inv, CountedInv, packers
<1>4. EndInv'
  BY DEF Inv, EndInv, Joined, TasksDone, packers
<1> QED BY <1>1, <1>2, <1>3, <1>4 DEF Inv

\* Steps that send and remove nothing.
LEMMA SenderLooks ==
  ASSUME Inv,
         \/ StartSending \/ PauseIfFull \/ ReadProgress \/ Connect \/ ConnectFails
         \/ Decide \/ ScanDone \/ ResumeIfRoom \/ WakeListeners \/ SendIndex
  PROVE  Inv'
<1>1. /\ UNCHANGED <<packers, written, sent, matched, completed, files, packfilesDone, errors,
                     outcome>>
      /\ listeners' \in {listeners, {}}
  BY DEF StartSending, PauseIfFull, ReadProgress, Connect, ConnectFails, Decide, ScanDone,
     ResumeIfRoom, WakeListeners, SendIndex, orchestrator
<1>2. /\ [written |-> written, matched |-> matched] \in Readings
      /\ last \in Readings /\ current \in Readings
  BY DEF Inv, SenderTypes, Readings
<1>3. last' \in Readings /\ current' \in Readings
  BY <1>2 DEF StartSending, PauseIfFull, ReadProgress, Connect, ConnectFails, Decide, ScanDone,
     ResumeIfRoom, WakeListeners, SendIndex
<1>4. paused' \in BOOLEAN /\ connected' \in BOOLEAN /\ quota' \in Nat
  BY DEF StartSending, PauseIfFull, ReadProgress, Connect, ConnectFails, Decide, ScanDone,
     ResumeIfRoom, WakeListeners, SendIndex, orchestrator, Inv, SenderTypes, FilesInv
<1>5. /\ spc' \in {"top", "read", "connect", "decide", "scan", "resume", "wake", "ended",
                   "index", "done"}
      /\ spc' \in {"scan", "resume", "wake", "ended"} => ~packfilesDone
      /\ spc' \in {"index", "done"} => packfilesDone
  BY DEF StartSending, PauseIfFull, ReadProgress, Connect, ConnectFails, Decide, ScanDone,
     ResumeIfRoom, WakeListeners, SendIndex, SomethingNew, Inv, EndInv
<1>6. /\ folder \in Nat /\ sent \in Nat /\ matched \in Nat /\ errors \in Nat
      /\ listeners \subseteq Packers
      /\ packfilesDone \in BOOLEAN /\ (packfilesDone => completed /\ folder = 0)
  BY DEF Inv, SenderTypes, PackersInv, FilesInv, EndInv
<1>7. FilesInv' /\ folder' = folder
  BY <1>1 DEF Inv, FilesInv, Lost, Twice, files, packers
<1> QED BY <1>1, <1>3, <1>4, <1>5, <1>6, <1>7, SenderMoves

LEMMA SendPackfileInv ==
  ASSUME Inv, SendPackfile \/ RemovePackfile
  PROVE  Inv'
<1>1. /\ UNCHANGED <<paused, listeners, written, completed, matched, packers, connected, last,
                     current, packfilesDone, errors, outcome, writing>>
      /\ spc \in {"scan", "remove"} /\ spc' \in {"scan", "remove"}
  BY DEF SendPackfile, RemovePackfile, orchestrator
<1>2. /\ folder \in Nat /\ sent \in Nat /\ quota \in Nat /\ size \in Nat /\ short \in Nat
      /\ ~packfilesDone
  BY <1>1 DEF Inv, SenderTypes, FilesInv, EndInv
<1>3. CASE SendPackfile
  <2>1. PICK file \in {"open", "whole"}, n \in {0, 1} :
          /\ ComesAcross(file, n)
          /\ held' = file /\ sent' = sent + n /\ short' = short + (1 - n)
    BY <1>3 DEF SendPackfile
  <2>2. sent' \in Nat /\ short' \in Nat /\ sent' + short' = sent + short + 1
    BY <1>2, <2>1
  <2>3. UNCHANGED <<folder, open, quota, writing, size>>
    BY <1>1, <1>3 DEF SendPackfile, packers
  <2>4. FilesInv'
    BY <1>2, <2>1, <2>2, <2>3 DEF Inv, FilesInv, Lost, Twice, ComesAcross
  <2> QED BY <1>1, <1>2, <2>2, <2>3, <2>4, SenderMoves DEF Inv, SenderTypes, PackersInv
<1>4. CASE RemovePackfile
  <2>1. /\ folder' = IF held = "whole" THEN folder - 1 ELSE folder
        /\ open' = IF held = "open" THEN "gone" ELSE open
        /\ held' = "none" /\ quota' \in {quota, quota - 1}
        /\ quota' = quota \/ quota > 0
        /\ UNCHANGED <<sent, writing, short, size>>
    BY <1>4 DEF RemovePackfile, orchestrator, packers
  <2>2. FilesInv'
    BY <1>2, <2>1 DEF Inv, FilesInv, Lost, Twice
  <2>3. quota' \in Nat /\ sent' \in Nat /\ (folder = 0 => folder' = 0)
    BY <1>2, <2>1 DEF Inv, FilesInv
  <2> QED BY <1>1, <1>2, <2>2, <2>3, SenderMoves DEF Inv, SenderTypes, PackersInv
<1> QED BY <1>3, <1>4

LEMMA SenderEndsInv ==
  ASSUME Inv, SendFails \/ CheckDone \/ SenderFails \/ Match
  PROVE  Inv'
<1>1. /\ UNCHANGED <<paused, listeners, written, sent, completed, packers, last, outcome>>
      /\ UNCHANGED <<folder, writing, open, short>> /\ held' \in {held, "none"}
      /\ quota' \in {quota, 0} /\ current' \in {current, last}
      /\ connected' = connected \/ connected' = FALSE
      /\ matched' \in {matched, matched + 1} /\ errors' \in {errors, errors + 1}
  BY DEF SendFails, CheckDone, SenderFails, Match, orchestrator, files, sender
<1>2. /\ folder \in Nat /\ sent \in Nat /\ quota \in Nat /\ size \in Nat
      /\ matched \in Nat /\ errors \in Nat /\ connected \in BOOLEAN /\ packfilesDone \in BOOLEAN
  BY DEF Inv, SenderTypes, FilesInv
<1>3. \/ spc' \in {"top", "failed"} /\ packfilesDone' = packfilesDone
      \/ spc' = spc /\ packfilesDone' = packfilesDone
      \/ spc' \in {"index", "top"} /\ packfilesDone' = (completed /\ folder = 0)
         /\ spc' = IF packfilesDone' THEN "index" ELSE "top"
  BY DEF SendFails, CheckDone, SenderFails, Match, sender
<1>4. /\ packfilesDone' \in BOOLEAN
      /\ packfilesDone' => completed /\ folder = 0
      /\ spc' \in {"scan", "remove", "resume", "wake", "ended"} => ~packfilesDone'
      /\ spc' \in {"index", "done"} => packfilesDone'
      /\ spc' \in {"start", "top", "read", "connect", "decide", "scan", "remove",
                   "resume", "wake", "ended", "index", "done", "failed"}
  BY <1>2, <1>3 DEF Inv, SenderTypes, EndInv
<1>5. FilesInv'
  BY <1>1, <1>2 DEF Inv, FilesInv, Lost, Twice, packers
<1>6. /\ matched' \in Nat /\ quota' \in Nat /\ errors' \in Nat
      /\ folder' = folder /\ sent' = sent
  BY <1>1, <1>2
<1>7. paused' \in BOOLEAN /\ connected' \in BOOLEAN
  BY <1>1, <1>2 DEF Inv, SenderTypes
<1>8. last' \in Readings /\ current' \in Readings /\ listeners' \subseteq Packers
  BY <1>1 DEF Inv, SenderTypes, PackersInv
<1> QED BY <1>1, <1>2, <1>4, <1>5, <1>6, <1>7, <1>8, SenderMoves

LEMMA StepInv == Inv /\ [Next]_vars => Inv'
<1> SUFFICES ASSUME Inv, [Next]_vars PROVE Inv'
  OBVIOUS
<1>1. CASE \E p \in Packers : Packer(p) \/ PackerFails(p)
  BY <1>1, QueueBlobInv, WriteInv, CountPackfileInv, ReportInv, SleepInv, PackerFailsInv DEF Packer
<1>2. CASE WalkerEnd
  BY <1>2, WalkerEndInv
<1>3. CASE Sender \/ SenderFails \/ Match
  BY <1>3, SenderLooks, SendPackfileInv, SenderEndsInv DEF Sender
<1>4. CASE Finish \/ UNCHANGED vars
  <2>1. /\ UNCHANGED <<orchestrator, files, packers, sender>>
        /\ outcome' \in {outcome, "ok", "failed"}
    BY <1>4 DEF Finish, vars
  <2> QED BY <2>1 DEF Inv, SenderTypes, PackersInv, CountedInv, FilesInv, Lost, Twice, EndInv,
             Joined, TasksDone, orchestrator, files, packers, sender
<1> QED BY <1>1, <1>2, <1>3, <1>4 DEF Next

LEMMA AlwaysInv == Spec => []Inv
BY InitInv, StepInv, PTL DEF Spec

-----------------------------------------------------------------------------
(* The theorems.                                                           *)

\* Every variable keeps to its values, however packers, sender and faults interleave: in
\* particular no counter and not the folder ever gets below zero.
THEOREM FlowTypes == Spec => []TypeOK
BY AlwaysInv, InvIsTypeOK, PTL

\* The estimate of what waits to be sent exceeds what is in the folder by no more than what
\* the sender has missed of packfiles it sent while they were written, although the two
\* counters are updated without a lock, reports of packfiles overtake each other, and a
\* packfile may be sent and deleted before it is closed and counted.
THEOREM AvailableIsInFolder == Spec => []AvailableIsThere
<1>1. Inv => AvailableIsThere
  BY DEF Inv, SenderTypes, CountedInv, FilesInv, Lost, Twice, AvailableIsThere, Available
<1> QED BY <1>1, AlwaysInv, PTL

\* When the sender leaves its loop no file is being packed and no packfile is left.
THEOREM SenderIsLast == Spec => []SenderEndsLast
<1>1. Inv => SenderEndsLast
  BY DEF Inv, EndInv, Joined, TasksDone, SenderEndsLast
<1> QED BY <1>1, AlwaysInv, PTL
=============================================================================
