-------------------------------- MODULE Restore --------------------------------
(***************************************************************************)
(* Getting a backup back from the peers (client: backup/mod.rs,            *)
(* restore_orchestrator.rs, net_p2p/restore_files_writer.rs; peer:         *)
(* backup/restore_send.rs), on top of Rendezvous.                          *)
(*                                                                         *)
(* A window of the user interface asks every peer for its files, waits     *)
(* until each has sent them, or a session with one has failed, unpacks     *)
(* what has arrived in one folder and deletes it.  It follows the sessions *)
(* only by the orchestrator: a flag that says whether a restore runs, and  *)
(* the peers that are done.  Sessions do not know which restore they were  *)
(* started for, and a window can be left alone (its page is closed) and    *)
(* another one opened.                                                     *)
(*                                                                         *)
(* File 1, 2, ... of a peer are in the order in which it sends them: its   *)
(* packfiles, then its index files, the last one being one of those.       *)
(***************************************************************************)
EXTENDS Rendezvous

CONSTANTS
  Windows,        \* where a restore can be started
  Worlds,         \* the possible initial values of <<known, stored, begun>>
  MaxRestores,    \* bound: clicks on Restore
  MaxDisturbances \* bound: faults, backups, requests for other purposes

ASSUME BoundsAssumption ==
  Windows \subseteq Nat \ {None} /\ {MaxRestores, MaxDisturbances} \subseteq Nat
ASSUME WorldsAssumption == Worlds \subseteq (SUBSET Peers) \X [Peers -> Nat] \X BOOLEAN

VARIABLES
  running,     \* restore_running
  status,      \* peer_restore_status: status[p] is whether peer p is done
  wpc,         \* wpc[w]: what window w is about to do
  todo,        \* todo[w]: the peers it has not asked yet
  backup,      \* what the one window that starts backups is about to do
  backingUp,   \* backup_running
  folder,      \* the files in the folder for restored packfiles
  indexDir,    \* its folder for index files exists
  throttled,   \* peers that were asked to restore less than a minute ago
  stored,      \* stored[p]: the files the peer has of the client
  sent,        \* sent[k]: those it has sent by attempt k
  restores, disturbances,  \* how many so far
  owner,       \* history: the window that began a restore last
  stale,       \* history: attempts from before the folder was last deleted
  mixed        \* history: the folder was deleted since then, or a stale session has counted

windows == <<wpc, todo>>
files == <<folder, indexDir>>
peers == <<throttled, stored, sent>>
flags == <<running, status, backup, backingUp>>
counters == <<restores, disturbances>>
history == <<owner, stale, mixed>>
vars == <<rendezvous, windows, files, peers, flags, counters, history>>

FilesOf(p) == {p} \X (1..stored[p])
AllFiles == UNION {FilesOf(p) : p \in Peers}

\* Something that need not happen.
Disturbance == disturbances < MaxDisturbances /\ disturbances' = disturbances + 1

-----------------------------------------------------------------------------
(* The window that restores.                                                *)

\* Mutant: an error ends the window and leaves the flag.
FinishQuietly(w) ==
  /\ wpc' = [wpc EXCEPT ![w] = "idle"]
  /\ todo' = [todo EXCEPT ![w] = {}]
  /\ UNCHANGED flags

\* set_finished, and the window is done.
Finish(w) ==
  /\ running' = FALSE
  /\ wpc' = [wpc EXCEPT ![w] = "idle"]
  /\ todo' = [todo EXCEPT ![w] = {}]
  /\ UNCHANGED <<status, backup, backingUp>>

Goto(w, s) == wpc' = [wpc EXCEPT ![w] = s] /\ UNCHANGED todo

\* The windows are alike, so the first idle one will do.
Idle(w) == wpc[w] = "idle" /\ \A v \in Windows : v < w => wpc[v] # "idle"

\* request_restore and run_restore, up to the server's answer: the status of an
\* earlier restore is cleared, the flag is set, no backup is running.
Begin(w) ==
  /\ Idle(w) /\ ~backingUp
  /\ restores < MaxRestores /\ restores' = restores + 1
  /\ running' = TRUE
  /\ status' = <<>>
  /\ wpc' = [wpc EXCEPT ![w] = "request"]
  /\ todo' = [todo EXCEPT ![w] = Peers]
  /\ owner' = w /\ mixed' = FALSE
  /\ UNCHANGED <<rendezvous, backup, backingUp, files, peers, stale>>

\* If a restore or a backup is running, initialize_static or set_started refuses.
StartRestore(w) ==
  /\ ~running
  /\ Begin(w)
  /\ UNCHANGED disturbances

\* Another window has got past the same check before the flag was set.
StartTogether(w) ==
  /\ Disturbance
  /\ \E v \in Windows : wpc[v] = "request" /\ todo[v] = Peers
  /\ Begin(w)

\* add_peer, and what comes after the request.
AddPeer(w, p) ==
  /\ status' = [q \in DOMAIN status \cup {p} |-> q # p /\ status[q]]
  /\ todo' = [todo EXCEPT ![w] = @ \ {p}]
  /\ wpc' = [wpc EXCEPT ![w] = IF todo[w] = {p} THEN "wait" ELSE "request"]

\* request_restore_from_peer.
RequestPeer(w) ==
  /\ wpc[w] = "request"
  /\ \E p \in todo[w], k \in Slots : Ask(k, p, "restore") /\ AddPeer(w, p)
  /\ UNCHANGED <<known, announced, begun, running, backup, backingUp, files, peers, counters,
                 history>>

AllPeersCompleted == \A p \in DOMAIN status : status[p]

\* The loop.
Poll(w) ==
  /\ wpc[w] = "wait"
  /\ \/ ~running /\ Finish(w)
     \/ running /\ AllPeersCompleted /\ Goto(w, "unpack") /\ UNCHANGED flags
  /\ UNCHANGED <<rendezvous, files, peers, counters, history>>

\* unpack, which needs the index, and any packfile; then the folder is deleted.
Unpack(w) ==
  /\ wpc[w] = "unpack"
  /\ Finish(w)
  /\ IF AllFiles \subseteq folder
       THEN /\ folder' = {} /\ indexDir' = FALSE
            /\ stale' = {k \in Slots : att[k].used = "restore"}
            /\ mixed' = TRUE
       ELSE UNCHANGED <<files, stale, mixed>>
  /\ UNCHANGED <<rendezvous, peers, counters, owner>>

-----------------------------------------------------------------------------
(* The sessions.                                                            *)

\* Mutant: the count is kept for the next session.
ForgetHalf(k) ==
  /\ stale' = stale \ {k}
  /\ UNCHANGED sent

\* What has been left of an attempt that is over.
Forget(k) ==
  /\ sent' = [sent EXCEPT ![k] = 0]
  /\ stale' = stale \ {k}

\* Finalize with handle_receiving: RestoreReceiver::new creates the folders.
FinalizeAttempt(k) ==
  /\ Finalize(k)
  /\ indexDir' = (indexDir \/ requests[att[k].peer].purpose = "restore")
  /\ UNCHANGED <<windows, folder, peers, flags, counters, history>>

\* restore_all_data_to_peer: refused within a minute of the last time; and if the
\* peer has never received a file, reading its folder fails.  The error drops the
\* half of the socket that sends; the task that reads acknowledgements has the
\* other one and keeps the socket open.
Serve(k) ==
  LET p == att[k].peer
      served == att[k].used = "restore" /\ att[k].nonce = k /\ p \notin throttled
  IN /\ ReceiveRequest(k, IF p \in throttled THEN "dropped"
                          ELSE IF stored[p] = 0 THEN "hung" ELSE "serving")
     /\ throttled' = IF served THEN throttled \cup {p} ELSE throttled
     /\ UNCHANGED <<windows, files, stored, sent, flags, counters, history>>

\* handle_stream has failed, and set_finished ends whatever restore is running.
Failed(k) ==
  /\ End(k) /\ Forget(k)
  /\ running' = FALSE
  /\ UNCHANGED <<requests, known, announced, begun, status, backup, backingUp, throttled, stored>>

\* A file is sent, written and acknowledged.  Packfiles get the folder they need;
\* an index file has to find its own.
SendFile(k) ==
  LET p == att[k].peer
      n == sent[k] + 1
  IN /\ At(k, "serving") /\ n <= stored[p]
     /\ IF n = stored[p] /\ ~indexDir
          THEN Failed(k) /\ UNCHANGED folder
          ELSE /\ folder' = folder \cup {<<p, n>>}
               /\ sent' = [sent EXCEPT ![k] = n]
               /\ UNCHANGED <<rendezvous, throttled, stored, flags, stale>>
     /\ UNCHANGED <<windows, indexDir, counters, owner, mixed>>

\* complete_peer.
Complete(p) == status' = [q \in DOMAIN status \cup {p} |-> q = p \/ status[q]]

\* The peer has sent everything and closes the connection.
SessionDone(k) ==
  LET p == att[k].peer
  IN /\ At(k, "serving") /\ sent[k] = stored[p]
     /\ Complete(p)
     /\ End(k) /\ Forget(k)
     /\ mixed' = (mixed \/ k \in stale)
     /\ UNCHANGED <<requests, known, announced, begun, windows, files, throttled, stored,
                    running, backup, backingUp, counters, owner>>

\* Mutant: however a session ends, its peer is done.
SessionEnds(k) ==
  /\ At(k, "dropped")
  /\ Complete(att[k].peer)
  /\ End(k) /\ Forget(k)
  /\ UNCHANGED <<requests, known, announced, begun, throttled, stored, running, backup, backingUp>>
  /\ UNCHANGED <<windows, files, counters, owner, mixed>>

\* Mutant: the error is only logged.
SessionErrorLogged(k) ==
  /\ At(k, "dropped")
  /\ End(k) /\ Forget(k)
  /\ UNCHANGED <<requests, known, announced, begun, flags, throttled, stored>>
  /\ UNCHANGED <<windows, files, counters, owner, mixed>>

\* The client notices that the peer has dropped the connection.
SessionError(k) ==
  /\ At(k, "dropped")
  /\ Failed(k)
  /\ UNCHANGED <<windows, files, counters, owner, mixed>>

\* RESTORE_THROTTLE_DELAY is over.
ThrottleOver(p) ==
  /\ p \in throttled
  /\ throttled' = throttled \ {p}
  /\ UNCHANGED <<rendezvous, windows, files, stored, sent, flags, counters, history>>

-----------------------------------------------------------------------------
(* Backups and matches, as far as they meet a restore.                      *)

\* run(): the orchestrator is initialized, and there is no restore; then the path
\* is read,
StartBackup ==
  /\ backup = "idle" /\ ~backingUp
  /\ Disturbance
  /\ begun' = TRUE
  /\ backup' = IF running THEN "idle" ELSE "looked"
  /\ UNCHANGED <<requests, att, known, announced, running, status, backingUp>>
  /\ UNCHANGED <<windows, files, peers, restores, history>>

\* and the flag is set, if there is a path.
SetBackupStarted ==
  /\ backup = "looked"
  /\ \/ backup' = "running" /\ backingUp' = TRUE
     \/ backup' = "idle" /\ UNCHANGED backingUp
  /\ UNCHANGED <<rendezvous, running, status, windows, files, peers, counters, history>>

\* estimate_size fails: the flag is cleared, and the backup goes on.
SizeFails ==
  /\ backup = "running"
  /\ backingUp' = FALSE
  /\ UNCHANGED <<rendezvous, running, status, backup, windows, files, peers, counters, history>>

\* get_peer_connection asks one peer after the other.  Bound: one in a backup.
BackupConnects(k, p) ==
  /\ backup = "running"
  /\ Ask(k, p, "transport")
  /\ backup' = "connected"
  /\ UNCHANGED <<known, announced, begun, running, status, backingUp, windows, files, peers,
                 counters, history>>

SetBackupFinished ==
  /\ backup \in {"running", "connected"}
  /\ backup' = "idle" /\ backingUp' = FALSE
  /\ UNCHANGED <<rendezvous, running, status, windows, files, peers, counters, history>>

\* The server announces a match, which was queued for, to both.
Matched(k, p) ==
  /\ Disturbance
  /\ Match(k, p)
  /\ UNCHANGED <<windows, files, peers, flags, restores, history>>

-----------------------------------------------------------------------------
(* Faults.                                                                  *)

\* The peer is not connected to the server, which nobody minds, or the call fails,
\* which ends the restore, whether the peer is notified or not.
AskFails(w) ==
  /\ Disturbance /\ wpc[w] = "request"
  /\ \E p \in todo[w], k \in Slots :
       \/ AskInVain(k, p, "restore") /\ AddPeer(w, p) /\ UNCHANGED <<running, backup, backingUp>>
       \/ AskInVain(k, p, "restore") /\ Finish(w)
       \/ Ask(k, p, "restore") /\ Finish(w)
  /\ UNCHANGED <<known, announced, begun, files, peers, restores, history>>

\* The server has no snapshot or no answer; a file cannot be read or written.
WindowFails(w) ==
  /\ Disturbance
  /\ \/ wpc[w] = "request" /\ todo[w] = Peers
     \/ wpc[w] = "unpack"
  /\ Finish(w)
  /\ UNCHANGED <<rendezvous, files, peers, restores, history>>

Lose(k) ==
  /\ Disturbance /\ LoseAttempt(k)
  /\ UNCHANGED <<windows, files, peers, flags, restores, history>>

ExpireRequest(p) ==
  /\ Disturbance /\ Expire(p)
  /\ UNCHANGED <<windows, files, peers, flags, restores, history>>

\* A connection breaks, or the peer's program ends.
Break(k) ==
  /\ Disturbance /\ att[k].used = "restore" /\ ~At(k, "dropped")
  /\ Become(k, "dropped")
  /\ UNCHANGED <<requests, known, announced, begun, windows, files, peers, flags, restores, history>>

\* The peer does not get an acknowledgement in time or cannot read a file.
PeerGivesUp(k) ==
  /\ Disturbance /\ At(k, "serving")
  /\ Become(k, "hung")
  /\ UNCHANGED <<requests, known, announced, begun, windows, files, peers, flags, restores, history>>

\* The client is restarted: files are what is left.
ClientRestart ==
  /\ Disturbance /\ LoseClient
  /\ running' = FALSE /\ backup' = "idle" /\ backingUp' = FALSE
  /\ status' = <<>>
  /\ wpc' = [w \in Windows |-> "idle"]
  /\ todo' = [w \in Windows |-> {}]
  /\ sent' = [k \in Slots |-> 0]
  /\ stale' = {}
  /\ UNCHANGED <<files, throttled, stored, restores, owner, mixed>>

-----------------------------------------------------------------------------
Init ==
  /\ requests = [p \in Peers |-> NoRequest]
  /\ att = [k \in Slots |-> Unused]
  /\ announced = {}
  /\ \E world \in Worlds : known = world[1] /\ stored = world[2] /\ begun = world[3]
  /\ running = FALSE /\ status = <<>>
  /\ wpc = [w \in Windows |-> "idle"]
  /\ todo = [w \in Windows |-> {}]
  /\ backup = "idle" /\ backingUp = FALSE
  /\ folder = {} /\ indexDir = FALSE
  /\ throttled = {}
  /\ sent = [k \in Slots |-> 0]
  /\ restores = 0 /\ disturbances = 0
  /\ owner = None /\ stale = {} /\ mixed = FALSE

WindowStep(w) ==
  \/ RequestPeer(w) \/ Poll(w) \/ Unpack(w)

ListenForClient(k) == Listen(k) /\ UNCHANGED <<windows, files, peers, flags, counters, history>>

AttemptStep(k) ==
  \/ ListenForClient(k) \/ FinalizeAttempt(k) \/ Serve(k)
  \/ SendFile(k) \/ SessionDone(k) \/ SessionError(k)

HandleMatch(p) == PeerMatched(p) /\ UNCHANGED <<windows, files, peers, flags, counters, history>>

Faults ==
  \/ \E w \in Windows : AskFails(w) \/ WindowFails(w)
  \/ \E k \in Slots : Lose(k) \/ Break(k) \/ PeerGivesUp(k)
  \/ \E p \in Peers : ExpireRequest(p)
  \/ ClientRestart

Next ==
  \/ \E w \in Windows : StartRestore(w) \/ StartTogether(w) \/ WindowStep(w)
  \/ \E k \in Slots : AttemptStep(k)
  \/ \E k \in Slots, p \in Peers : BackupConnects(k, p) \/ Matched(k, p)
  \/ \E p \in Peers : HandleMatch(p) \/ ThrottleOver(p)
  \/ StartBackup \/ SetBackupStarted \/ SizeFails \/ SetBackupFinished
  \/ Faults

Spec == Init /\ [][Next]_vars

-----------------------------------------------------------------------------
(* Properties.                                                              *)

TypeOK ==
  /\ RendezvousOK
  /\ running \in BOOLEAN /\ backingUp \in BOOLEAN /\ mixed \in BOOLEAN
  /\ DOMAIN status \subseteq Peers /\ \A p \in DOMAIN status : status[p] \in BOOLEAN
  /\ wpc \in [Windows -> {"idle", "request", "wait", "unpack"}]
  /\ todo \in [Windows -> SUBSET Peers]
  /\ backup \in {"idle", "looked", "running", "connected"}
  /\ folder \subseteq AllFiles /\ indexDir \in BOOLEAN
  /\ throttled \subseteq Peers /\ stored \in [Peers -> Nat]
  /\ \A k \in Slots : sent[k] > 0 => At(k, "serving") \/ At(k, "hung") \/ At(k, "dropped")
  /\ stale \subseteq {k \in Slots : att[k].used = "restore"}
  /\ owner \in Windows \cup {None}

\* While the flag says that a restore is running there is a window whose command is
\* not over, however restores, their sessions and backups overlap: when it is over it
\* clears the flag, though it may wait forever; nothing else lets the user start a
\* restore or a backup again (restore_orchestrator.rs:26, mod.rs:44).
RunningIsSomeones == running => \E w \in Windows : wpc[w] # "idle"

\* A window that gets to unpacking has everything its peers have stored, whatever
\* sessions of earlier restores were still under way, broke or completed a peer for
\* it; provided no other window has begun a restore since, and nothing that was
\* counted has been deleted by an earlier one (mod.rs:154, "if all peers have
\* completed, we can stop waiting").
UnpackHasAll ==
  \A w \in Windows : wpc[w] = "unpack" /\ owner = w /\ ~mixed => AllFiles \subseteq folder

\* While a restore waits for a peer, something is still going on that will complete
\* the peer or end the restore, however restores overlap and whoever refuses (mod.rs:149,
\* "if something fails, restore is no longer running").  This is so if the peer knows
\* the client and has something stored for it, as long as no fault and no request for
\* another purpose interferes; otherwise the restore may wait for ever.
NeverForsaken ==
  \A w \in Windows, p \in known \cap DOMAIN status :
    wpc[w] = "wait" /\ running /\ ~status[p] /\ stored[p] > 0 /\ disturbances = 0 =>
      \E k \in Slots : att[k].peer = p /\ ~At(k, "hung")
=============================================================================
