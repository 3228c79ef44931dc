----------------------------- MODULE BackupFlow -----------------------------
(***************************************************************************)
(* One backup from its start to its end (backup/mod.rs, send.rs,           *)
(* backup_orchestrator.rs, filesystem/dir_packer.rs, packfile/pack.rs).    *)
(*                                                                         *)
(* The walker goes through a directory and spawns a task for every file;   *)
(* the tasks, and at the end the walker, write packfiles into a folder.    *)
(* The sender scans the folder once a second, sends what it finds and      *)
(* deletes it.  The two sides share the orchestrator's atomics and have no *)
(* lock in common: the sender pauses the packers when too much waits to be *)
(* sent, and resumes them by waking those that have subscribed.            *)
(*                                                                         *)
(* A packfile is one unit long; while it is written its length is zero,    *)
(* until all of it is there.  Arithmetic is that of the release profile,   *)
(* where u64 wraps around.                                                 *)
(***************************************************************************)
EXTENDS Integers, FiniteSets

CONSTANTS
  Tasks,       \* process_file tasks, one for each file of the directory
  Walker,      \* the task that runs pack()
  Blobs,       \* bound: Blobs[t] is how often task t calls add_blob
  Leftovers,   \* how many packfiles an earlier, interrupted backup has left behind
  MaxLocal,    \* MAX_PACKFILE_LOCAL_BUFFER_SIZE
  Threshold,   \* PACKFILE_LOCAL_BUFFER_RESUME_THRESHOLD
  Word,        \* u64 wraps around here
  MaxEvents,   \* bound: storage requests matched, failures to send and file errors
  PromptStart  \* whether the sender starts before the first packfile is reported

ASSUME TasksAssumption == IsFiniteSet(Tasks) /\ Walker \notin Tasks
ASSUME BoundsAssumption ==
  {Leftovers, MaxLocal, Threshold, MaxEvents} \subseteq Nat
ASSUME BlobsAssumption == Blobs \in [Tasks -> Nat \ {0}]
ASSUME WordAssumption == Word \in Nat \ {0} /\ Threshold < MaxLocal /\ MaxLocal < Word
ASSUME FlagAssumption == PromptStart \in BOOLEAN

VARIABLES
  paused,      \* the orchestrator's flag
  listeners,   \* packers whose channel is in the orchestrator's list
  written,     \* packfile_bytes_written
  sent,        \* packfile_bytes_sent
  completed,   \* packing_completed
  matched,     \* storage_request_last_matched
  size,        \* the packfile manager's packfiles_size
  folder,      \* how many packfiles the folder holds besides the one that is open
  writing,     \* the packer that holds the locks and writes a packfile
  open,        \* its packfile: "partial", "whole", or "gone" if the sender deletes it
  held,        \* the packfile the sender is about to delete: "open", "whole" or "empty"
  short,       \* history: the units that sent misses of partial packfiles
  pc,          \* pc[p]: the next statement of packer p
  work,        \* work[p]: how many blobs it has yet to add
  report,      \* report[p]: what add_blob has returned to it
  spc,         \* the sender's next statement
  connected,   \* whether the sender has a connection
  last,        \* its last_written and last_matched
  current,     \* its current_written and current_matched
  quota,       \* packfiles its folder scan has yet to come across
  packfilesDone, \* its packfiles_done
  errors,      \* how often sending, or an access to a file, has failed
  outcome      \* what run() has reported; "none" while backup_running is set

orchestrator == <<paused, listeners, written, sent, completed, matched>>
files == <<folder, writing, open, held, short>>
packers == <<size, pc, work, report>>
sender == <<spc, connected, last, current, quota, packfilesDone, errors>>
vars == <<orchestrator, files, packers, sender, outcome>>

Packers == Tasks \cup {Walker}
Readings == [written : Nat, matched : Nat]

-----------------------------------------------------------------------------
(* The packers.                                                            *)

\* available_packfile_bytes(): never less than zero.
Available == IF written > sent THEN written - sent ELSE 0

Waiting == {t \in Tasks : pc[t] = "idle"}

\* Where a packer with n blobs yet to add goes on, after it has added one or
\* been let through by block_if_paused: a task adds its next blob or ends, the
\* walker spawns the next task, and after its own blob, the tree of the
\* directory, it flushes.
Proceed(p, n) ==
  \/ /\ p \in Tasks
     /\ pc' = [pc EXCEPT ![p] = IF n > 0 THEN "add" ELSE "done"]
  \/ /\ p = Walker /\ n = 0
     /\ pc' = [pc EXCEPT ![p] = "flush"]
  \/ /\ p = Walker /\ n > 0
     /\ \E t \in Waiting :
          pc' = [pc EXCEPT ![t] = "add",
                           ![p] = IF Waiting = {t} THEN "join" ELSE "check"]

\* add_blob: a duplicate, or a blob that is queued until there is enough for a
\* packfile.
QueueBlob(p) ==
  /\ pc[p] = "add" /\ writing = {}
  /\ work' = [work EXCEPT ![p] = @ - 1]
  /\ Proceed(p, work[p] - 1)
  /\ UNCHANGED <<orchestrator, files, size, report, sender, outcome>>

\* write_packfiles holds the locks of the queue and of the index from its first
\* to its last statement; the sender takes neither.  The file is in the folder
\* as soon as it is opened,
CreatePackfile(p) ==
  /\ pc[p] \in {"add", "flush", "abort"} /\ writing = {}
  /\ writing' = {p} /\ open' = "partial"
  /\ UNCHANGED <<orchestrator, folder, held, short, packers, sender, outcome>>

\* it is written,
FillPackfile(p) ==
  /\ p \in writing /\ open = "partial"
  /\ open' = "whole"
  /\ UNCHANGED <<orchestrator, folder, writing, held, short, packers, sender, outcome>>

\* and closed, if the sender has not deleted it by then.  A file that nothing
\* was written to stays behind too; it has no length, and what the sender does
\* with it changes nothing.
ClosePackfile ==
  /\ writing' = {} /\ open' = "none"
  /\ folder' = IF open = "whole" THEN folder + 1 ELSE folder
  /\ held' = CASE held # "open" -> held
               [] held = "open" /\ open = "whole" -> "whole"
               [] OTHER -> "empty"
  /\ UNCHANGED short

\* Its length is added to the packfiles' size, wherever it is by now.  The limit
\* is compared with what fetch_add returns, the size before this packfile; the
\* size never shrinks.
CountPackfile(p) ==
  /\ pc[p] = "add"
  /\ p \in writing /\ open # "partial"
  /\ ClosePackfile
  /\ work' = [work EXCEPT ![p] = @ - 1]
  /\ size' = size + 1
  /\ IF size > MaxLocal
       THEN /\ pc' = [pc EXCEPT ![p] = "check"]
            /\ UNCHANGED report
       ELSE /\ pc' = [pc EXCEPT ![p] = "report"]
            /\ report' = [report EXCEPT ![p] = size']
  /\ UNCHANGED <<orchestrator, sender, outcome>>

\* The locks are free again: reports may overtake each other.
Report(p) ==
  /\ pc[p] = "report"
  /\ PromptStart => spc # "start"
  /\ written' = report[p]
  /\ report' = [report EXCEPT ![p] = 0]
  /\ Proceed(p, work[p])
  /\ UNCHANGED <<paused, listeners, sent, completed, matched, files, size, work,
                 sender, outcome>>

\* block_if_paused: look at the flag, subscribe, wait.
CheckPaused(p) ==
  /\ pc[p] = "check"
  /\ IF paused THEN pc' = [pc EXCEPT ![p] = "subscribe"] ELSE Proceed(p, work[p])
  /\ UNCHANGED <<orchestrator, files, size, work, report, sender, outcome>>

SubscribeToResume(p) ==
  /\ pc[p] = "subscribe"
  /\ listeners' = listeners \cup {p}
  /\ pc' = [pc EXCEPT ![p] = "asleep"]
  /\ UNCHANGED <<paused, written, sent, completed, matched, files, size, work,
                 report, sender, outcome>>

\* resume() has sent to the channel and dropped it from the list.
WakeUp(p) ==
  /\ pc[p] = "asleep" /\ p \notin listeners
  /\ Proceed(p, work[p])
  /\ UNCHANGED <<orchestrator, files, size, work, report, sender, outcome>>

\* join_all: the files of the directory are done, its tree can be added.
Join ==
  /\ pc[Walker] = "join"
  /\ \A t \in Tasks : pc[t] = "done"
  /\ pc' = [pc EXCEPT ![Walker] = "add"]
  /\ UNCHANGED <<orchestrator, files, size, work, report, sender, outcome>>

\* flush: what is still queued goes into a last packfile, whose size is not
\* reported, or nothing is.  "abort" is the flush after an error.
Flush ==
  /\ pc[Walker] \in {"flush", "abort"}
  /\ \/ /\ writing = {}
        /\ UNCHANGED <<files, size>>
     \/ /\ Walker \in writing /\ open # "partial"
        /\ ClosePackfile
        /\ size' = size + 1
  /\ pc' = [pc EXCEPT ![Walker] = IF @ = "flush" THEN "complete" ELSE "failed"]
  /\ UNCHANGED <<orchestrator, work, report, sender, outcome>>

\* Mutant: packing counts as completed before the flush.
CompleteEarly ==
  /\ pc[Walker] \in {"flush", "complete"} /\ writing = {}
  /\ completed' = TRUE
  /\ pc' = [pc EXCEPT ![Walker] = IF @ = "flush" THEN @ ELSE "done"]
  /\ UNCHANGED <<paused, listeners, written, sent, matched, files, size, work,
                 report, sender, outcome>>

CompletePacking ==
  /\ pc[Walker] = "complete"
  /\ completed' = TRUE
  /\ pc' = [pc EXCEPT ![Walker] = "done"]
  /\ UNCHANGED <<paused, listeners, written, sent, matched, files, size, work,
                 report, sender, outcome>>

\* A file that cannot be read or written is counted as failed and the walker
\* goes on without it; after an error of its own the walker flushes ("abort")
\* and fails.  A packfile that is open is left as it is.  (If that flush fails
\* too, dropping the manager panics, and a panic exits the program, main.rs:54;
\* here the program goes on.)
PackerFails(p) ==
  /\ pc[p] \in {"add", "flush", "abort"} /\ matched + errors < MaxEvents
  /\ errors' = errors + 1
  /\ IF p \in writing THEN ClosePackfile ELSE UNCHANGED files
  /\ pc' = [pc EXCEPT ![p] = IF p \in Tasks THEN "done"
                             ELSE IF @ = "add" THEN "abort" ELSE "failed"]
  /\ UNCHANGED <<orchestrator, size, work, report, spc, connected, last, current, quota,
                 packfilesDone, outcome>>

-----------------------------------------------------------------------------
(* The sender: one iteration of the loop of send() after the other.  What  *)
(* belongs to an iteration (current, quota) is reset when it is over.      *)

\* The last statement before the loop.
StartSending ==
  /\ spc = "start"
  /\ last' = [written |-> written, matched |-> matched]
  /\ spc' = "top"
  /\ UNCHANGED <<orchestrator, files, packers, connected, current, quota,
                 packfilesDone, errors, outcome>>

\* Too much waits to be sent: pause.  The channel that pause() subscribes to
\* is dropped at once.
PauseIfFull ==
  /\ spc = "top"
  /\ paused' = (paused \/ Available > MaxLocal)
  /\ spc' = "read"
  /\ UNCHANGED <<listeners, written, sent, completed, matched, files, packers,
                 connected, last, current, quota, packfilesDone, errors, outcome>>

ReadProgress ==
  /\ spc = "read"
  /\ current' = [written |-> written, matched |-> matched]
  /\ spc' = IF connected THEN "decide" ELSE "connect"
  /\ UNCHANGED <<orchestrator, files, packers, connected, last, quota,
                 packfilesDone, errors, outcome>>

\* get_peer_connection succeeds.
Connect ==
  /\ spc = "connect"
  /\ connected' = TRUE
  /\ spc' = "decide"
  /\ UNCHANGED <<orchestrator, files, packers, last, current, quota,
                 packfilesDone, errors, outcome>>

\* No peer can be reached now: sleep, try again.
ConnectFails ==
  /\ spc = "connect"
  /\ spc' = "top" /\ current' = last
  /\ UNCHANGED <<orchestrator, files, packers, connected, last, quota,
                 packfilesDone, errors, outcome>>

\* Mutant: only new bytes and new matches count.
SomethingNewOnly ==
  /\ ~packfilesDone
  /\ current.written > last.written \/ current.matched > last.matched

\* Whether the folder is scanned in this iteration.
SomethingNew ==
  /\ ~packfilesDone
  /\ \/ current.written > last.written
     \/ current.matched > last.matched
     \/ completed

\* Scan the folder, send the index files, or sleep until the next iteration.
Decide ==
  /\ spc = "decide"
  /\ IF SomethingNew
       THEN spc' = "scan" /\ quota' = folder /\ UNCHANGED current
       ELSE /\ spc' = IF packfilesDone THEN "index" ELSE "top"
            /\ current' = last /\ UNCHANGED quota
  /\ UNCHANGED <<orchestrator, files, packers, connected, last,
                 packfilesDone, errors, outcome>>

\* The scan comes across what was there when it began, and perhaps across
\* what has been added since: a packfile of the folder, whose length is one,
\* or the one that is open, whose length now is n.
ComesAcross(file, n) ==
  \/ file = "whole" /\ folder > 0 /\ n = 1
  \/ file = "open" /\ open = "partial" /\ n = 0
  \/ file = "open" /\ open = "whole" /\ n = 1

\* Mutant: the bytes are not counted as sent.
SendUncounted ==
  /\ spc = "scan"
  /\ \E file \in {"open", "whole"}, n \in {0, 1} :
       /\ ComesAcross(file, n)
       /\ held' = file /\ short' = short + (1 - n)
  /\ spc' = "remove"
  /\ UNCHANGED <<orchestrator, folder, writing, open, packers, connected, last, current,
                 quota, packfilesDone, errors, outcome>>

\* send_single_packfile: the length is read, the packfile is sent and confirmed
\* (FileTransfer's part), and the length is counted, which nobody but the sender
\* looks at in between.
SendPackfile ==
  /\ spc = "scan"
  /\ \E file \in {"open", "whole"}, n \in {0, 1} :
       /\ ComesAcross(file, n)
       /\ held' = file /\ sent' = sent + n /\ short' = short + (1 - n)
  /\ spc' = "remove"
  /\ UNCHANGED <<paused, listeners, written, completed, matched, folder, writing, open,
                 packers, connected, last, current, quota, packfilesDone, errors, outcome>>

\* Mutant: a packfile that was added during the scan is taken off the quota.
RemoveOverdrawn ==
  /\ spc = "remove"
  /\ spc' = "scan" /\ held' = "none"
  /\ folder' = IF held = "whole" THEN folder - 1 ELSE folder
  /\ open' = IF held = "open" THEN "gone" ELSE open
  /\ quota' = quota - 1
  /\ UNCHANGED <<orchestrator, writing, short, packers, connected, last, current,
                 packfilesDone, errors, outcome>>

\* It is deleted, even while a packer still writes to it.
RemovePackfile ==
  /\ spc = "remove"
  /\ spc' = "scan" /\ held' = "none"
  /\ folder' = IF held = "whole" THEN folder - 1 ELSE folder
  /\ open' = IF held = "open" THEN "gone" ELSE open
  /\ quota' = IF held = "whole" /\ quota > 0 THEN quota - 1 ELSE quota
  /\ UNCHANGED <<orchestrator, writing, short, packers, connected, last, current,
                 packfilesDone, errors, outcome>>

\* An error drops the connection and the next iteration begins at once.  At
\* "remove" the packfile has been sent and counted but is still there.
SendFails ==
  /\ spc \in {"scan", "remove", "index"} /\ matched + errors < MaxEvents
  /\ errors' = errors + 1
  /\ connected' = FALSE
  /\ spc' = "top" /\ current' = last /\ quota' = 0 /\ held' = "none"
  /\ UNCHANGED <<orchestrator, folder, writing, open, short, packers, last,
                 packfilesDone, outcome>>

\* The scan is over.
ScanDone ==
  /\ spc = "scan" /\ quota = 0
  /\ last' = current
  /\ spc' = "resume"
  /\ UNCHANGED <<orchestrator, files, packers, connected, current, quota,
                 packfilesDone, errors, outcome>>

\* Mutant: the backup is resumed only when everything counts as sent.
ResumeIfEmpty ==
  /\ spc = "resume"
  /\ IF Available = 0 /\ paused
       THEN paused' = FALSE /\ spc' = "wake"
       ELSE UNCHANGED paused /\ spc' = "ended"
  /\ UNCHANGED <<listeners, written, sent, completed, matched, files, packers,
                 connected, last, current, quota, packfilesDone, errors, outcome>>

\* How much more may be written, as u64.
Headroom == (MaxLocal - Available) % Word

\* resume() clears the flag first,
ResumeIfRoom ==
  /\ spc = "resume"
  /\ IF Headroom > Threshold /\ paused
       THEN paused' = FALSE /\ spc' = "wake"
       ELSE UNCHANGED paused /\ spc' = "ended"
  /\ UNCHANGED <<listeners, written, sent, completed, matched, files, packers,
                 connected, last, current, quota, packfilesDone, errors, outcome>>

\* Mutant: one listener is woken, not all.
WakeOne ==
  /\ spc = "wake"
  /\ listeners' = listeners \ {CHOOSE p \in Packers : p \in listeners \/ listeners = {}}
  /\ spc' = "ended"
  /\ UNCHANGED <<paused, written, sent, completed, matched, files, packers,
                 connected, last, current, quota, packfilesDone, errors, outcome>>

\* and wakes who has subscribed then.
WakeListeners ==
  /\ spc = "wake"
  /\ listeners' = {}
  /\ spc' = "ended"
  /\ UNCHANGED <<paused, written, sent, completed, matched, files, packers,
                 connected, last, current, quota, packfilesDone, errors, outcome>>

\* Whether there will be nothing more to send.
CheckDone ==
  /\ spc = "ended"
  /\ packfilesDone' = (completed /\ folder = 0)
  /\ spc' = IF packfilesDone' THEN "index" ELSE "top"
  /\ UNCHANGED <<orchestrator, files, packers, connected, last, current, quota,
                 errors, outcome>>

\* The size of the folder cannot be read: send() returns the error.
SenderFails ==
  /\ spc = "ended" /\ completed /\ matched + errors < MaxEvents
  /\ errors' = errors + 1
  /\ spc' = "failed"
  /\ UNCHANGED <<orchestrator, files, packers, connected, last, current, quota,
                 packfilesDone, outcome>>

\* send_index succeeds, and the loop ends.
SendIndex ==
  /\ spc = "index"
  /\ spc' = "done"
  /\ UNCHANGED <<orchestrator, files, packers, connected, last, current, quota,
                 packfilesDone, errors, outcome>>

-----------------------------------------------------------------------------
(* The rest of the program.                                                *)

\* handle_storage_request_matched, at a later second than the last one.
Match ==
  /\ matched + errors < MaxEvents
  /\ matched' = matched + 1
  /\ UNCHANGED <<paused, listeners, written, sent, completed, files, packers,
                 sender, outcome>>

\* try_join: both tasks have ended, or one has failed.  The other one is left
\* running then.
Finish ==
  /\ outcome = "none"
  /\ \/ pc[Walker] = "done" /\ spc = "done" /\ outcome' = "ok"
     \/ (pc[Walker] = "failed" \/ spc = "failed") /\ outcome' = "failed"
  /\ UNCHANGED <<orchestrator, files, packers, sender>>

Init ==
  /\ paused = FALSE /\ listeners = {} /\ completed = FALSE
  /\ written = 0 /\ sent = 0 /\ matched = 0
  /\ size = Leftovers /\ folder = size
  /\ writing = {} /\ open = "none" /\ held = "none" /\ short = 0
  /\ pc = [p \in Packers |-> IF p \in Tasks THEN "idle"
                             ELSE IF Tasks = {} THEN "join" ELSE "check"]
  /\ work = [p \in Packers |-> IF p \in Tasks THEN Blobs[p] ELSE 1]
  /\ report = [p \in Packers |-> 0]
  /\ spc = "start" /\ connected = FALSE /\ quota = 0 /\ packfilesDone = FALSE
  /\ last = [written |-> 0, matched |-> 0] /\ current = last /\ errors = 0
  /\ outcome = "none"

Packer(p) ==
  \/ QueueBlob(p) \/ CreatePackfile(p) \/ FillPackfile(p) \/ CountPackfile(p)
  \/ Report(p) \/ CheckPaused(p) \/ SubscribeToResume(p) \/ WakeUp(p)

WalkerEnd == Join \/ Flush \/ CompletePacking

Sender ==
  \/ StartSending \/ PauseIfFull \/ ReadProgress \/ Connect \/ ConnectFails
  \/ Decide \/ SendPackfile \/ RemovePackfile \/ SendFails \/ ScanDone
  \/ ResumeIfRoom \/ WakeListeners \/ CheckDone \/ SendIndex

Next ==
  \/ \E p \in Packers : Packer(p) \/ PackerFails(p)
  \/ WalkerEnd \/ Sender \/ SenderFails \/ Match \/ Finish

Spec == Init /\ [][Next]_vars

\* The runtime polls every task that can go on; a peer can be reached now and
\* then.  Nothing is assumed of file errors, lost connections and matches.
FairSpec ==
  /\ Spec
  /\ \A p \in Packers : WF_vars(Packer(p))
  /\ WF_vars(WalkerEnd) /\ WF_vars(Sender) /\ WF_vars(Finish)
  /\ SF_vars(Connect)

-----------------------------------------------------------------------------
(* Properties.                                                             *)

TypeOK ==
  /\ paused \in BOOLEAN /\ completed \in BOOLEAN /\ connected \in BOOLEAN
  /\ packfilesDone \in BOOLEAN
  /\ listeners \subseteq Packers
  /\ {written, sent, matched, size, folder, short, quota, errors} \subseteq Nat
  /\ writing \subseteq Packers /\ open \in {"none", "partial", "whole", "gone"}
  /\ held \in {"none", "open", "whole", "empty"}
  /\ pc \in [Packers -> {"idle", "add", "report", "check", "subscribe", "asleep",
                         "join", "flush", "abort", "complete", "done", "failed"}]
  /\ work \in [Packers -> Nat] /\ report \in [Packers -> Nat]
  /\ spc \in {"start", "top", "read", "connect", "decide", "scan", "remove",
              "resume", "wake", "ended", "index", "done", "failed"}
  /\ last \in Readings /\ current \in Readings
  /\ outcome \in {"none", "ok", "failed"}

\* What the sender takes for waiting to be sent is in the folder: a backup is
\* not paused for bytes that are gone (backup_orchestrator.rs,
\* available_packfile_bytes, "we just need an estimate if enough data is
\* available"), although both counters are read and written without a lock, and
\* packfiles are deleted under the hands of who writes them.  The one exception
\* are packfiles whose length was read before they were whole (send.rs:273).
AvailableIsThere == Available <= folder + short

\* The sender ends last: when it leaves its loop, every task has ended, packing
\* is completed and no packfile is left (send.rs, "If files are not created
\* anymore, and all the files have been sent successfully").
SenderEndsLast ==
  spc = "done" => /\ completed /\ folder = 0
                  /\ \A t \in Tasks : pc[t] = "done"

\* The sender misses so many bytes that there will never be enough room again.
NeverRoom == short >= MaxLocal - Threshold

\* A pause does not last: if a peer can be reached now and then, the sender
\* resumes the backup (send.rs:94-100), unless it has misread too many lengths.
PauseEnds == paused ~> (~paused \/ NeverRoom)

\* Whoever has subscribed while the backup was paused is woken
\* (backup_orchestrator.rs, resume), with the same exception.
SubscribersWoken ==
  (listeners # {} /\ paused) ~> (listeners = {} \/ NeverRoom)

\* Once packing is completed, everything is sent and the sender ends (send.rs,
\* "the function terminates"), unless it fails.
CompletedIsSent == completed ~> spc \in {"done", "failed"}

\* A packer is blocked "until we can continue" (backup/mod.rs, block_if_paused).
SleepersWoken ==
  \A p \in Packers : pc[p] = "asleep" ~> pc[p] # "asleep"

\* The sender's next look stops the backup "if the local buffer got too large"
\* (send.rs, send), where the packfile over the limit and one for each packer,
\* which may not have been reported, come on top.
FullBufferStops ==
  [][spc = "top" /\ spc' = "read" /\ folder > MaxLocal + 1 + Cardinality(Packers)
     => paused']_vars
=============================================================================
