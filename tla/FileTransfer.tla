---------------------------- MODULE FileTransfer ----------------------------
(***************************************************************************)
(* Moving packfiles from a client to its peers (backup/send.rs,            *)
(* net_p2p/transport.rs, receive.rs, received_files_writer.rs).            *)
(*                                                                         *)
(* The sender picks a packfile of its buffer, sends it over the session it *)
(* has with a peer, waits for the acknowledgement and deletes the file.    *)
(* The peer checks every message, writes the file, counts its bytes and    *)
(* acknowledges.  A session outlives the sender's interest in it: the task *)
(* that reads the acknowledgements keeps the socket open after a timeout,  *)
(* so what was sent may still arrive while the next session is in use.     *)
(* Sessions are slots that are used again once both ends have left them.   *)
(***************************************************************************)
EXTENDS Integers, Sequences, FiniteSets

CONSTANTS
  Files,        \* the packfiles of a backup
  Peers,        \* the peers storage was negotiated with
  Slots,        \* bound: how many sessions exist at the same time
  NoFile,       \* no packfile is being sent
  NoSlot,       \* the sender has no connection
  FileSize,     \* the size of a packfile
  Negotiated,   \* bytes_negotiated of each peer, the same on both sides
  Spread,       \* PEER_STORAGE_USAGE_SPREAD
  Faults        \* the faults of the environment that may happen, see FaultKinds

FaultKinds == {"timeout", "break", "unreachable", "sender_crash", "peer_crash", "disk"}

ASSUME FaultsAssumption == Faults \subseteq FaultKinds
ASSUME SizeAssumption == FileSize \in Nat \ {0} /\ Spread \in Nat
ASSUME NegotiatedAssumption == Negotiated \in [Peers -> Nat]
ASSUME SlotsAssumption == IsFiniteSet(Slots) /\ Slots # {} /\ IsFiniteSet(Files)
ASSUME SentinelAssumption == NoFile \notin Files /\ NoSlot \notin Slots

VARIABLES
  local,        \* local[f]: the packfile in the sender's buffer
  spc,          \* the sender's next statement
  file,         \* the packfile it is sending
  conn,         \* the session it uses (`connection` in send())
  transmitted,  \* transmitted[p]: bytes_transmitted, the sender's count
  sess,         \* sess[s]: the session in slot s, and the receiver's part of it
  store,        \* store[p][f]: the file as peer p has it on its disk
  received,     \* received[p]: bytes_received, peer p's count
  \* History.
  missed,       \* the ack of the packfile being sent went by before the sender subscribed
  raced,        \* <<p, f>>: two sessions were let in at a time to save f at p
  broken        \* broken[p]: how often p has stored something and not counted it

senderVars == <<local, spc, file, conn, transmitted, missed>>
peerVars == <<store, received, raced, broken>>
vars == <<senderVars, sess, peerVars>>

-----------------------------------------------------------------------------

\* A packfile that is being written, is complete, or has been deleted.  A
\* deleted file that was not complete is lost for good.
LocalStates == {"absent", "partial", "whole", "deleted"}
Present(f) == local[f] \in {"partial", "whole"}

\* What a peer has under a file's name: nothing, a write that broke off, the
\* beginning of a packfile (as it was sent), or the packfile.
StoreStates == {"none", "torn", "partial", "whole"}

Message == [seq : Nat, file : Files, data : {"partial", "whole"}]

\* A slot with no session.  open: the sender still uses it; out and acks: the
\* two directions of the socket; next: data_msg_counter; rpc: the receiver's
\* next statement, about message msg.
Unused == [peer |-> "none", open |-> FALSE, count |-> 1, out |-> <<>>,
           acks |-> <<>>, next |-> 1, rpc |-> "closed", msg |-> <<>>]

InUse(s) == sess[s] # Unused

\* Mutant: up to the spread instead of below it.
RoomInclusive(free) == free > 0 \/ -free <= Spread

\* find_peers_with_storage and is_peer_allowed_to_send_data: the same rule
\* about the sender's count and about the receiver's.
Room(free) == free > 0 \/ -free < Spread
Free(p) == Negotiated[p] - transmitted[p]
Allowed(p) == Room(Negotiated[p] - received[p])

Set(s, r) == sess' = [sess EXCEPT ![s] = r]

\* Both ends of a session are gone.
Tidy(r) == IF ~ r.open /\ r.rpc = "closed" THEN Unused ELSE r

-----------------------------------------------------------------------------

Init ==
  /\ local = [f \in Files |-> "absent"]
  /\ spc = "scan"
  /\ file = NoFile
  /\ conn = NoSlot
  /\ transmitted = [p \in Peers |-> 0]
  /\ sess = [s \in Slots |-> Unused]
  /\ store = [p \in Peers |-> [f \in Files |-> "none"]]
  /\ received = [p \in Peers |-> 0]
  /\ missed = FALSE /\ raced = {} /\ broken = [p \in Peers |-> 0]

(* The packer (pack.rs write_packfiles): the file is created under its final *)
(* name and filled afterwards.                                               *)

CreatePackfile(f) ==
  /\ local[f] = "absent"
  /\ local' = [local EXCEPT ![f] = "partial"]
  /\ UNCHANGED <<spc, file, conn, transmitted, missed, sess, peerVars>>

FillPackfile(f) ==
  /\ local[f] = "partial"
  /\ local' = [local EXCEPT ![f] = "whole"]
  /\ UNCHANGED <<spc, file, conn, transmitted, missed, sess, peerVars>>

(* The sender.                                                              *)

\* get_peer_connection: the peer with the most room that can be reached.  The
\* peer itself only serves a sender that is allowed to send (handle_receiving).
Connect(p) ==
  /\ spc = "scan" /\ conn = NoSlot
  /\ Room(Free(p))
  /\ "unreachable" \in Faults \/ \A q \in Peers : Room(Free(q)) => Free(q) <= Free(p)
  /\ \E s \in Slots :
       /\ ~ InUse(s)
       /\ conn' = s
       /\ Set(s, [Unused EXCEPT !.peer = p, !.open = TRUE,
                                !.rpc = IF Allowed(p) THEN "read" ELSE "closed"])
  /\ UNCHANGED <<local, spc, file, transmitted, missed, peerVars>>

\* send_single_packfile up to the send: the file is read as it is just now.
SendFile(f) ==
  /\ spc = "scan" /\ conn # NoSlot /\ Present(f)
  /\ file' = f
  /\ spc' = "sent"
  /\ Set(conn, [sess[conn] EXCEPT
                  !.out = IF sess[conn].rpc = "closed" THEN @
                          ELSE Append(@, [seq |-> sess[conn].count, file |-> f,
                                          data |-> local[f]])])
  /\ UNCHANGED <<local, conn, transmitted, missed, peerVars>>

\* wait_for_ack begins by subscribing to the acknowledgements.
Subscribe ==
  /\ spc = "sent"
  /\ spc' = "wait"
  /\ UNCHANGED <<local, file, conn, transmitted, missed, sess, peerVars>>

\* Mutant: an ack of any session with the awaited number counts.
ProcessAckAnySession(s) ==
  /\ sess[s].acks # <<>>
  /\ spc' = IF spc = "wait" /\ Head(sess[s].acks) = sess[conn].count
              THEN "confirmed" ELSE spc
  /\ Set(s, [sess[s] EXCEPT !.acks = Tail(@)])
  /\ UNCHANGED <<local, file, conn, transmitted, missed, peerVars>>

\* process_acks hands an ack to whoever has subscribed by now, if anybody.
ProcessAck(s) ==
  LET r == sess[s]
  IN /\ r.acks # <<>>
     /\ spc' = IF conn = s /\ spc = "wait" /\ Head(r.acks) = r.count
                 THEN "confirmed" ELSE spc
     /\ missed' = (missed \/ (conn = s /\ spc = "sent"))
     /\ Set(s, [r EXCEPT !.acks = Tail(@)])
     /\ UNCHANGED <<local, file, conn, transmitted, peerVars>>

\* No answer can come any more: the session carries nothing and its receiver
\* is not working on anything.
Silent(s) ==
  sess[s].out = <<>> /\ sess[s].acks = <<>> /\ sess[s].rpc \in {"read", "closed"}

\* Mutant: a timeout is taken for a confirmation.
GiveUpConfirms ==
  /\ spc \in {"sent", "wait"}
  /\ "timeout" \in Faults \/ (spc = "wait" /\ Silent(conn))
  /\ spc' = "confirmed"
  /\ UNCHANGED <<local, file, conn, transmitted, missed, sess, peerVars>>

\* The 20 s for sending or the 5 s for the ack are over.  The sender forgets the
\* connection without closing it.
GiveUp ==
  /\ spc \in {"sent", "wait"}
  /\ "timeout" \in Faults \/ (spc = "wait" /\ Silent(conn))
  /\ \E out \in IF spc = "sent" /\ "timeout" \in Faults
                THEN {sess[conn].out, <<>>} ELSE {sess[conn].out} :
       Set(conn, Tidy([sess[conn] EXCEPT !.open = FALSE, !.out = out]))
  /\ spc' = "scan"
  /\ file' = NoFile
  /\ conn' = NoSlot
  /\ missed' = FALSE
  /\ UNCHANGED <<local, transmitted, peerVars>>

\* Mutant: the bytes sent are not booked.
CountSentForgets ==
  /\ spc = "confirmed"
  /\ spc' = "remove"
  /\ Set(conn, [sess[conn] EXCEPT !.count = @ + 1])
  /\ UNCHANGED <<local, file, conn, transmitted, missed, peerVars>>

\* The transfer is confirmed: count the bytes, then delete the file.
CountSent ==
  /\ spc = "confirmed"
  /\ spc' = "remove"
  /\ transmitted' = [transmitted EXCEPT ![sess[conn].peer] = @ + FileSize]
  /\ Set(conn, [sess[conn] EXCEPT !.count = @ + 1])
  /\ UNCHANGED <<local, file, conn, missed, peerVars>>

RemoveFile ==
  /\ spc = "remove"
  /\ local' = [local EXCEPT ![file] = "deleted"]
  /\ spc' = "scan"
  /\ file' = NoFile
  /\ UNCHANGED <<conn, transmitted, missed, sess, peerVars>>

(* The receiver, one task per session (handle_stream, save_file).           *)

\* The receiver ends with an error or at the end of the stream; what was on its
\* way to it is gone, acks on their way back are not.
Close(s) == Set(s, Tidy([sess[s] EXCEPT !.rpc = "closed", !.out = <<>>, !.msg = <<>>]))

\* A session of peer p that has passed the checks and is about to save file f.
Saving(s, p, f) == sess[s].peer = p /\ sess[s].rpc = "write" /\ sess[s].msg[1].file = f

\* validate_incoming_message, the collision check and the allowance check.
Receive(s) ==
  LET r == sess[s]
      m == Head(r.out)
  IN /\ r.rpc = "read" /\ r.out # <<>>
     /\ IF /\ m.seq = r.next
           /\ store[r.peer][m.file] = "none"
           /\ Allowed(r.peer)
          THEN /\ Set(s, [r EXCEPT !.out = Tail(@), !.next = @ + 1,
                                   !.msg = <<m>>, !.rpc = "write"])
               /\ raced' = IF \E t \in Slots : Saving(t, r.peer, m.file)
                             THEN raced \cup {<<r.peer, m.file>>} ELSE raced
          ELSE Close(s) /\ UNCHANGED raced
     /\ UNCHANGED <<senderVars, store, received, broken>>

WriteFile(s) ==
  LET r == sess[s]
  IN /\ r.rpc = "write"
     /\ store' = [store EXCEPT ![r.peer][r.msg[1].file] = r.msg[1].data]
     /\ Set(s, [r EXCEPT !.rpc = "count"])
     /\ UNCHANGED <<senderVars, received, raced, broken>>

\* fs::write fails half way.  What it leaves is the beginning of the file, also if
\* another session has stored the file since the check: fs::write truncates it.
WriteFails(s) ==
  LET r == sess[s]
  IN /\ "disk" \in Faults /\ r.rpc = "write"
     /\ store' = [store EXCEPT ![r.peer][r.msg[1].file] = "torn"]
     /\ broken' = [broken EXCEPT ![r.peer] = @ + 1]
     /\ Close(s)
     /\ UNCHANGED <<senderVars, received, raced>>

\* Mutant: the bytes are deducted.
CountReceivedDown(s) ==
  /\ sess[s].rpc = "count"
  /\ received' = [received EXCEPT ![sess[s].peer] = @ - FileSize]
  /\ Set(s, [sess[s] EXCEPT !.rpc = "ack"])
  /\ UNCHANGED <<senderVars, store, raced, broken>>

\* Mutant: the counter is not saved before the ack.
CountReceivedForgets(s) ==
  /\ sess[s].rpc = "count"
  /\ Set(s, [sess[s] EXCEPT !.rpc = "ack"])
  /\ UNCHANGED <<senderVars, peerVars>>

CountReceived(s) ==
  LET r == sess[s]
  IN /\ r.rpc = "count"
     /\ received' = [received EXCEPT ![r.peer] = @ + FileSize]
     /\ Set(s, [r EXCEPT !.rpc = "ack"])
     /\ UNCHANGED <<senderVars, store, raced, broken>>

\* Mutant: the message is not acknowledged.
SendAckForgets(s) ==
  /\ sess[s].rpc = "ack"
  /\ Set(s, [sess[s] EXCEPT !.rpc = "read", !.msg = <<>>])
  /\ UNCHANGED <<senderVars, peerVars>>

SendAck(s) ==
  LET r == sess[s]
  IN /\ r.rpc = "ack"
     /\ Set(s, [r EXCEPT !.rpc = "read", !.msg = <<>>,
                         !.acks = IF r.open THEN Append(@, r.msg[1].seq) ELSE @])
     /\ UNCHANGED <<senderVars, peerVars>>

(* The environment.                                                         *)

\* The connection breaks: both directions lose what they carry.  The receiver
\* notices when it reads next, the sender when its time is over.
Break(s) ==
  /\ "break" \in Faults /\ InUse(s) /\ sess[s].rpc = "read"
  /\ Set(s, Tidy([sess[s] EXCEPT !.rpc = "closed", !.out = <<>>, !.acks = <<>>]))
  /\ UNCHANGED <<senderVars, peerVars>>

\* A forgotten session that carries nothing comes to its end.  (The acks task
\* keeps the socket until the peer or the process goes away; freeing the slot
\* here is what lets a bounded number of slots stand for any number of sessions.)
Abandoned(s) ==
  /\ InUse(s) /\ conn # s /\ sess[s].rpc = "read" /\ sess[s].out = <<>>
  /\ Close(s)
  /\ UNCHANGED <<senderVars, peerVars>>

\* The sending client restarts; its files and its configuration survive.
SenderCrash ==
  /\ "sender_crash" \in Faults
  /\ spc' = "scan"
  /\ file' = NoFile
  /\ conn' = NoSlot
  /\ missed' = FALSE
  /\ sess' = [s \in Slots |-> Tidy([sess[s] EXCEPT !.open = FALSE, !.acks = <<>>])]
  /\ UNCHANGED <<local, transmitted, peerVars>>

\* A peer restarts, perhaps in the middle of writing a file, or before counting it.
PeerCrash(p) ==
  LET of(rpc) == {s \in Slots : sess[s].peer = p /\ sess[s].rpc = rpc}
  IN /\ "peer_crash" \in Faults
     /\ \E torn \in SUBSET of("write") :
          /\ store' = [store EXCEPT ![p] = [f \in Files |->
                         IF \E s \in torn : sess[s].msg[1].file = f THEN "torn" ELSE @[f]]]
          /\ broken' = [broken EXCEPT ![p] = @ + Cardinality(torn \cup of("count"))]
     /\ sess' = [s \in Slots |->
                   IF sess[s].peer # p THEN sess[s]
                   ELSE Tidy([sess[s] EXCEPT !.rpc = "closed", !.out = <<>>,
                                             !.msg = <<>>, !.acks = <<>>])]
     /\ UNCHANGED <<senderVars, received, raced>>

Sender ==
  \/ \E p \in Peers : Connect(p)
  \/ \E f \in Files : SendFile(f)
  \/ Subscribe \/ GiveUp \/ CountSent \/ RemoveFile

Session(s) ==
  \/ ProcessAck(s)
  \/ Receive(s) \/ WriteFile(s) \/ CountReceived(s) \/ SendAck(s)
  \/ Abandoned(s)

Next ==
  \/ \E f \in Files : CreatePackfile(f) \/ FillPackfile(f)
  \/ Sender
  \/ \E s \in Slots : Session(s) \/ WriteFails(s) \/ Break(s)
  \/ SenderCrash
  \/ \E p \in Peers : PeerCrash(p)

Spec == Init /\ [][Next]_vars

\* The sender's loop runs on, and every session's tasks are polled.
FairSpec ==
  /\ Spec
  /\ WF_vars(Sender)
  /\ \A s \in Slots : WF_vars(Session(s))
  /\ \A f \in Files : WF_vars(CreatePackfile(f)) /\ WF_vars(FillPackfile(f))

-----------------------------------------------------------------------------
(* Properties.                                                             *)

\* The values the variables range over.
TypeOK ==
  /\ local \in [Files -> LocalStates]
  /\ spc \in {"scan", "sent", "wait", "confirmed", "remove"}
  /\ file \in Files \cup {NoFile}
  /\ conn \in Slots \cup {NoSlot}
  /\ transmitted \in [Peers -> Nat] /\ received \in [Peers -> Nat]
  /\ store \in [Peers -> [Files -> StoreStates]]
  /\ \A s \in Slots :
       /\ sess[s].peer \in Peers \cup {"none"} /\ sess[s].open \in BOOLEAN
       /\ sess[s].count \in Nat /\ sess[s].next \in Nat
       /\ sess[s].out \in Seq(Message) /\ sess[s].acks \in Seq(Nat)
       /\ sess[s].rpc \in {"closed", "read", "write", "count", "ack"}
       /\ sess[s].msg \in Seq(Message)
  /\ missed \in BOOLEAN /\ raced \subseteq Peers \X Files /\ broken \in [Peers -> Nat]

\* send.rs:276, "only return after the transport is confirmed, so we should be
\* able to safely delete the packfile": a deleted packfile is complete on the
\* disk of some peer.  (The code does not keep this, see DeletedFilesAreKept.)
DeletedFilesAreStored ==
  \A f \in Files : local[f] = "deleted" => \E p \in Peers : store[p][f] = "whole"

\* Peer p has what the sender read of f: all of it, or what there was while it was
\* being written.  The exception is a save that broke off after another session
\* had stored the same file, when both were let in before either had.
Kept(p, f) ==
  \/ store[p][f] \in {"partial", "whole"}
  \/ store[p][f] = "torn" /\ <<p, f>> \in raced

\* What is left of that promise, however late acks and files arrive and whoever
\* restarts: what was read of a packfile is on the disk of some peer when it is
\* deleted, and stays there but for that one race.
DeletedFilesAreKept ==
  \A f \in Files : local[f] = "deleted" => \E p \in Peers : Kept(p, f)

\* A confirmation is about the file the sender is waiting for, on the peer it
\* thinks it talks to, however late and to whichever session acks arrive.
ConfirmedFileIsThere ==
  spc \in {"confirmed", "remove"} => Kept(sess[conn].peer, file)

\* The two sides' accounts never drift apart in the peer's favour: what the
\* sender has booked to a peer, the peer has booked too.
SenderNeverAhead == \A p \in Peers : transmitted[p] <= received[p]

\* The allowance is checked without the size of the file that arrives, by each
\* session for itself, and what a save that broke off has left is never counted.
\* So a peer stores more than what was negotiated and the spread, but only by
\* what its sessions have let in at most, one packfile each, and one packfile
\* for each save that broke off.
StoredBounded ==
  \A p \in Peers :
    FileSize * Cardinality({f \in Files : store[p][f] # "none"})
      < Negotiated[p] + Spread + FileSize * (Cardinality(Slots) + broken[p])

\* transport.rs:134, "Waits for an acknowledgement for a specific sequence
\* number": the ack it waits for is still to come.  It is gone already only if it
\* was handed out between the send and the subscription; a message or an ack of a
\* session that was forgotten never makes the sender wait in vain.
AwaitedAckIsAhead ==
  spc = "wait" /\ ~missed =>
    \/ sess[conn].rpc = "closed"
    \/ sess[conn].out # <<>> \/ sess[conn].acks # <<>>
    \/ sess[conn].rpc \in {"write", "count", "ack"}

\* send.rs:49, "sending loop that takes care of reestablishing the connection
\* and transporting all files".  (One missed ack is enough to break this.)
EveryFileLeaves == \A f \in Files : <>(local[f] = "deleted")

\* Unless an ack is missed, every packfile leaves, however the packer, the sender
\* and the sessions take turns and whichever peer runs out of room.
FilesLeaveIfHeard == EveryFileLeaves \/ <>missed
=============================================================================
